---------------------------- MODULE MCLDIFStream ----------------------------
(* Instances of LDIFStream for TLC.                                        *)
EXTENDS LDIFStream, TLC

MCVersions == <<"1">> :> 1 @@ <<"2">> :> 2
MCDecoded == "eA==" :> "x" @@ "x" :> "?"
MCLines(delta) ==
    {<<>>, <<"#", "x">>, <<" ", "x">>, <<"dn", ":", "d">>, <<"a", ":", "x">>}
    \cup IF delta
         THEN {<<"-">>, <<"changetype", ":", "modify">>, <<"changetype", ":", "add">>,
               <<"changetype", ":", "delete">>, <<"add", ":", "a">>}
         ELSE {<<"junk">>, <<"version", ":", "1">>, <<"version", ":", "2">>,
               <<"a", ":", ":", "eA==">>, <<"b", ":", "x">>}
=============================================================================
