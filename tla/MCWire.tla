------------------------------- MODULE MCWire -------------------------------
(***************************************************************************)
(* Bounded inputs for BER, PDU, NameText and FilterText, one of them in    *)
(* each state; MCCodec says what is checked of them.                       *)
(***************************************************************************)
EXTENDS Integers, Sequences, SequencesExt, FiniteSetsExt, TLC

VARIABLES kind, value

BER == INSTANCE BER WITH Short <- "short", Fine <- "fine"
PDU == INSTANCE PDU
Name == INSTANCE NameText
          WITH Letters <- {"a", "0", "A", "d", "c"}, HexDigits <- {"a", "0"},
               AnyHexDigits <- {"a", "0", "A"}
Filter == INSTANCE FilterText
            WITH AttrChars <- {"a", "b"}, RuleChars <- {"d", "n", "r"},
                 AtMost <- LAMBDA v, w : v = w

-----------------------------------------------------------------------------
(* Inputs.                                                                 *)

\* Around every limit of the number of octets.
MCNumbers == UNION {(n - 2)..(n + 2) : n \in {0, 127, 255, 32767, 65535, 8388607, 16777215,
                                              -129, -32769, -8388609}} \cup -50..50

Octets(n) == [i \in 1..n |-> 7]
Plain(t, c) == [tag |-> t, structured |-> FALSE, content |-> c]
Of(t, c) == [tag |-> t, structured |-> TRUE, content |-> c]
MCElements ==
    {Plain(4, Octets(n)) : n \in {0, 1, 127, 128, 129, 255, 256, 257}}
    \cup {Of(16, <<>>), Of(16, <<Plain(5, <<>>), Plain(4, <<>>)>>)}
    \cup {Of(16, <<Plain(2, <<5>>), Of(65, <<Plain(4, Octets(n)), Plain(10, <<0>>)>>)>>) :
            n \in {0, 1, 116, 117, 118, 119, 120, 122, 125, 126, 127, 128, 250, 255}}

\* Optional fields: none, empty, and something.
Optional == {<<>>, <<"">>, <<"x">>}
Filters1 ==
    {[cls |-> "present", attr |-> "a"], [cls |-> "and", members |-> <<>>]}
    \cup {[cls |-> c, attr |-> "a", value |-> v] :
            c \in {"equalityMatch", "greaterOrEqual", "lessOrEqual", "approxMatch"}, v \in {"", "v"}}
    \cup {[cls |-> "substrings", attr |-> "a", parts |-> p] :
            p \in {<<<<"initial", "i">>>>, <<<<"any", "n">>, <<"any", "m">>, <<"final", "f">>>>}}
    \cup {[cls |-> "extensibleMatch", matchingRule |-> r, type |-> t, matchValue |-> "v",
           dnAttributes |-> d] : r \in {<<>>, <<"r">>}, t \in {<<>>, <<"t">>},
                                 d \in {<<>>, <<TRUE>>, <<FALSE>>}}
MCWireFilters ==
    Filters1 \cup {[cls |-> "not", value |-> f] : f \in Filters1}
             \cup {[cls |-> c, members |-> <<f, [cls |-> "present", attr |-> "b"]>>] :
                     c \in {"and", "or"}, f \in Filters1}
Result(class) == [cls : {class}, resultCode : {0, 10}, matchedDN : {"", "d"},
                  errorMessage : {"e"}, referral : {<<>>, <<"u">>, <<"u", "w">>}]
BERStr(s) == [cls |-> "BEROctetString", val |-> s]
Seq2(class, objects) == [cls |-> class, data |-> objects]
Attribute == Seq2("BERSequence", <<BERStr("a"), Seq2("BERSet", <<BERStr("v"), BERStr("w")>>)>>)
Change == Seq2("BERSequence", <<[cls |-> "BEREnumerated", val |-> 2], Attribute>>)

MCOperations ==
    [cls : {"LDAPBindRequest"}, version : {3}, dn : {"", "d"},
     auth : {<<"simple", "">>, <<"simple", "p">>, <<"sasl", "M", <<>>>>, <<"sasl", "M", <<"">>>>,
             <<"sasl", "M", <<"c">>>>}]
    \cup {r @@ [serverSaslCreds |-> c] : r \in Result("LDAPBindResponse"), c \in {<<>>, <<"x">>}}
    \cup {[cls |-> "LDAPUnbindRequest"], [cls |-> "LDAPAbandonRequest", id |-> 3],
          [cls |-> "LDAPDelRequest", entry |-> "d"],
          [cls |-> "LDAPCompareRequest", entry |-> "d", ava |-> <<"a", "v">>],
          [cls |-> "LDAPModifyRequest", object |-> "d", modification |-> <<Change, Change>>],
          [cls |-> "LDAPAddRequest", entry |-> "d", attributes |-> <<Attribute>>],
          [cls |-> "LDAPSearchResultReference", uris |-> <<"u", "w">>]}
    \cup {[cls |-> "LDAPSearchRequest", baseObject |-> "d", scope |-> 2, derefAliases |-> 0,
           sizeLimit |-> 1, timeLimit |-> 0, typesOnly |-> FALSE, filter |-> f,
           attributes |-> as] : f \in MCWireFilters, as \in {<<>>, <<"a", "b">>}}
    \cup {[cls |-> "LDAPSearchResultEntry", objectName |-> "d", attributes |-> as] :
            as \in {<<>>, <<<<"a", <<>>>>, <<"b", <<"v", "w">>>>>>}}
    \cup UNION {Result(c) : c \in {"LDAPSearchResultDone", "LDAPModifyResponse", "LDAPAddResponse",
                                   "LDAPDelResponse", "LDAPModifyDNResponse",
                                   "LDAPCompareResponse"}}
    \cup [cls : {"LDAPModifyDNRequest"}, entry : {"d"}, newrdn : {"r"}, deleteoldrdn : BOOLEAN,
          newSuperior : Optional]
    \cup [cls : {"LDAPExtendedRequest"}, requestName : {"o"}, requestValue : Optional]
    \cup {r @@ [responseName |-> n, response |-> v] :
            r \in Result("LDAPExtendedResponse"), n \in Optional, v \in Optional}
    \cup {PDU!StartTLSRequest, PDU!CancelRequest(4)}
    \cup {PDU!PasswordModifyRequest(u, o, n) : u, o, n \in Optional}
    \cup [cls : {"LDAPIntermediateResponse"}, responseName : Optional, responseValue : Optional]

MCControls == {<<>>, <<<<>>>>,
             <<<<[controlType |-> "c", criticality |-> <<>>, controlValue |-> <<>>],
                 [controlType |-> "c", criticality |-> <<TRUE>>, controlValue |-> <<"">>],
                 [controlType |-> "c", criticality |-> <<>>, controlValue |-> <<"v">>]>>>>}
MCMessages == {[cls |-> "LDAPMessage", id |-> 5, value |-> o, controls |-> c] :
                 o \in MCOperations, c \in MCControls}

\* Every character that is escaped, in every place of a short value.
Chars == {"a", "0", "A", ",", "+", "\\", "=", " ", "#", "NL"}
Ava(v) == <<<<"d", "c">>, v>>
OneChar == BoundedSeq(Chars, 1)
MCPasswords == Optional \X Optional \X Optional
MCNames == {<<<<Ava(v)>>>> : v \in BoundedSeq(Chars, 3)}
           \cup {<<<<Ava(v), Ava(w)>>, <<Ava(u)>>>> : v, w, u \in OneChar}

\* Pairs of names of up to three RDNs, of the domain or not.
Rdns == {<<Ava(<<"a">>)>>, <<Ava(<<"0">>)>>, <<Ava(<<"a">>), Ava(<<"0">>)>>}
MCNamePairs == BoundedSeq(Rdns, 3) \X BoundedSeq(Rdns, 3)

FilterValues == BoundedSeq({"a", "5", "c", "*", "(", "\\", "NUL", ")"}, 3) \ {<<>>}
Short == {<<"a">>, <<"*">>, <<"\\", ")">>}
UpToOne(part) == {<<>>} \cup {<<<<part, s>>>> : s \in Short}
Substrings == {i \o a \o f : i \in UpToOne("initial"), f \in UpToOne("final"),
                             a \in UpToOne("any") \cup {<<<<"any", s>>, <<"any", t>>>> : s, t \in Short}}
TextFilters ==
    {[cls |-> "present", attr |-> <<"a">>]}
    \cup {[cls |-> c, attr |-> <<"a">>, value |-> v] : c \in Filter!Simple, v \in FilterValues}
    \cup {[cls |-> "substrings", attr |-> <<"a">>, parts |-> p] : p \in Substrings \ {<<>>}}
    \cup {[cls |-> "extensibleMatch", type |-> t[1], rule |-> t[2], dnAttributes |-> d, value |-> v] :
             t \in {<<<<>>, <<"r">>>>, <<<<"a", "b">>, <<>>>>, <<<<"a">>, <<"r", "d">>>>},
             d \in BOOLEAN, v \in Short}
Members == {f \in TextFilters : CASE f.cls = "present" -> TRUE
                                  [] f.cls = "substrings" -> Len(f.parts) = 1
                                  [] OTHER -> f.value \in {<<"*">>, <<"a", "(">>}}
MCFilters == TextFilters
             \cup {[cls |-> "not", member |-> f] : f \in Members}
             \cup {[cls |-> c, members |-> <<f, g>>] : c \in {"and", "or"}, f, g \in Members}

\* Values and the parts they may have, in the order of a filter.
Parts == BoundedSeq({"a", "b"}, 2)
UpToOnePart(place) == {<<>>} \cup {<<<<place, s>>>> : s \in Parts}
MCSearched ==
    BoundedSeq({"a", "b"}, 4) \X
    ({i \o a \o f : i \in UpToOnePart("initial"), f \in UpToOnePart("final"),
                    a \in UpToOnePart("any") \cup {<<<<"any", s>>, <<"any", t>>>> : s, t \in Parts}}
     \ {<<>>})

-----------------------------------------------------------------------------
Init == \/ kind = "number" /\ value \in MCNumbers
        \/ kind = "element" /\ value \in MCElements
        \/ kind = "message" /\ value \in MCMessages
        \/ kind = "passwords" /\ value \in MCPasswords
        \/ kind = "name" /\ value \in MCNames
        \/ kind = "names" /\ value \in MCNamePairs
        \/ kind = "searched" /\ value \in MCSearched
        \/ kind = "filter" /\ value \in MCFilters
=============================================================================
