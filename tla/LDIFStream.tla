----------------------------- MODULE LDIFStream -----------------------------
(***************************************************************************)
(* Reading LDIF as its lines come: protocols/ldap/ldifprotocol.py (LDIF),  *)
(* which makes entries, and ldifdelta.py (LDIFDelta), which makes changes. *)
(*                                                                         *)
(* A line is a sequence of words; ":" is one, " " at the beginning folds   *)
(* the line into the one before, "#" at the beginning makes it a comment.  *)
(* A line is acted on when the next one has come that does not continue    *)
(* it, so the parser is always a line behind.                              *)
(***************************************************************************)
EXTENDS Naturals, Sequences

Ext == INSTANCE SequencesExt

CONSTANTS
    Lines(_),    \* the lines that may come to a parser of entries, or of changes
    Versions,    \* the words that are numbers, and what they are
    Decoded,     \* the words that are base64, and what they are
    MaxLines     \* how many lines come at most

\* What stands for None, and is the text of no line.
Unset == <<"None">>

ASSUME LinesAssumption == \A delta \in BOOLEAN : Lines(delta) \subseteq Seq(STRING) \ {Unset}

VARIABLES
    parser,      \* the attributes of the parser, and what it has produced
    received     \* the lines that have come, in order

streamVars == <<parser, received>>

-----------------------------------------------------------------------------
(* The parser: each operator is a method, of the parser and a line.        *)

Raise(p, error) == [p EXCEPT !.error = error]

\* parseValue, of what follows the first colon.
ParseValue(val) ==
    IF val # <<>> /\ Head(val) = ":"
    THEN [i \in DOMAIN Tail(val) |-> Decoded[Tail(val)[i]]]
    ELSE val

HasColon(line) == \E i \in DOMAIN line : line[i] = ":"
Key(line) == SubSeq(line, 1, Ext!SelectInSeq(line, LAMBDA w : w = ":") - 1)
Val(line) == ParseValue(SubSeq(line, Ext!SelectInSeq(line, LAMBDA w : w = ":") + 1, Len(line)))

\* The entry or the operation is done: gotEntry.
Got(p, o) ==
    [p EXCEPT !.out = Append(@, o), !.mode = "WAIT_FOR_DN", !.dn = Unset, !.data = <<>>,
              !.modifications = <<>>]

\* Mutant of Put: a second value of an attribute takes the place of the first.
PutOne(p, line) ==
    [p EXCEPT !.data = [k \in DOMAIN @ \cup {Key(line)} |-> IF k = Key(line) THEN <<Val(line)>> ELSE @[k]]]

\* The values an attribute has so far.
Values(p, key) == IF key \in DOMAIN p.data THEN p.data[key] ELSE <<>>

Put(p, line) ==
    [p EXCEPT !.data =
        [k \in DOMAIN @ \cup {Key(line)} |->
            IF k = Key(line) THEN Append(Values(p, k), Val(line)) ELSE @[k]]]

WAIT_FOR_DN(p, line) ==
    IF line = <<>> THEN p
    ELSE IF ~HasColon(line) THEN Raise(p, "LineWithoutSemicolon")
    ELSE IF Key(line) \notin {<<"dn">>, <<"DN">>} THEN Raise(p, "EntryStartsWithNonDN")
    ELSE [p EXCEPT !.dn = Val(line), !.data = <<>>,
                   !.mode = IF p.delta THEN "WAIT_FOR_CHANGETYPE" ELSE "IN_ENTRY"]

HEADER(p, line) ==
    LET q == [p EXCEPT !.mode = "WAIT_FOR_DN"]
    IN IF ~HasColon(line) THEN Raise(p, "LineWithoutSemicolon")
       ELSE IF Key(line) # <<"version">> THEN WAIT_FOR_DN(q, line)
       ELSE IF Val(line) \notin DOMAIN Versions THEN Raise(q, "VersionNotANumber")
       ELSE IF Versions[Val(line)] > 1 THEN Raise(q, "UnsupportedVersion")
       ELSE q

IN_ENTRY(p, line) ==
    IF line = <<>> THEN Got(p, <<"entry", p.dn, p.data>>)
    ELSE IF ~HasColon(line) THEN Raise(p, "LineWithoutSemicolon")
    ELSE Put(p, line)

WAIT_FOR_CHANGETYPE(p, line) ==
    LET mode == [type \in {<<"modify">>, <<"add">>, <<"delete">>} |->
                   IF type = <<"modify">> THEN "WAIT_FOR_MOD_SPEC"
                   ELSE IF type = <<"add">> THEN "IN_ADD_ENTRY" ELSE "IN_DELETE"]
    IN IF line = <<>> THEN Raise(p, "MissingChangeType")
       ELSE IF ~HasColon(line) THEN Raise(p, "LineWithoutSemicolon")
       ELSE IF Key(line) # <<"changetype">> THEN Raise(p, "MissingChangeType")
       ELSE IF Val(line) \in DOMAIN mode THEN [p EXCEPT !.mode = mode[Val(line)]]
       ELSE Raise(p, "UnknownChangeType")

WAIT_FOR_MOD_SPEC(p, line) ==
    IF line = <<>> THEN Got(p, <<"modify", p.dn, p.modifications>>)
    ELSE IF ~HasColon(line) THEN Raise(p, "LineWithoutSemicolon")
    ELSE IF Key(line) \notin {<<"add">>, <<"delete">>, <<"replace">>}
         THEN Raise(p, "UnknownModification")
    ELSE [p EXCEPT !.mode = "IN_MOD_SPEC", !.spec = <<Key(line), Val(line), <<>>>>]

IN_MOD_SPEC(p, line) ==
    IF line = <<>> THEN Raise(p, "ModificationMissingEndDash")
    ELSE IF line = <<"-">>
         THEN [p EXCEPT !.modifications = Append(@, p.spec), !.spec = Unset,
                        !.mode = "WAIT_FOR_MOD_SPEC"]
    ELSE IF ~HasColon(line) THEN Raise(p, "LineWithoutSemicolon")
    ELSE IF Key(line) # p.spec[2] THEN Raise(p, "ModificationDifferentAttributeType")
    ELSE [p EXCEPT !.spec[3] = Append(@, Val(line))]

IN_ADD_ENTRY(p, line) ==
    IF line = <<>>
    THEN IF p.data = <<>> THEN Raise(p, "AddMissingAttributes")
         ELSE Got(p, <<"add", p.dn, p.data>>)
    ELSE IF ~HasColon(line) THEN Raise(p, "LineWithoutSemicolon")
    ELSE Put(p, line)

IN_DELETE(p, line) ==
    IF line = <<>> THEN Got(p, <<"delete", p.dn>>) ELSE Raise(p, "DeleteHasJunk")

LogicalLineReceived(p, line) ==
    IF line # <<>> /\ Head(line) = "#" THEN p
    ELSE CASE p.mode = "HEADER" -> HEADER(p, line)
           [] p.mode = "WAIT_FOR_DN" -> WAIT_FOR_DN(p, line)
           [] p.mode = "IN_ENTRY" -> IN_ENTRY(p, line)
           [] p.mode = "WAIT_FOR_CHANGETYPE" -> WAIT_FOR_CHANGETYPE(p, line)
           [] p.mode = "WAIT_FOR_MOD_SPEC" -> WAIT_FOR_MOD_SPEC(p, line)
           [] p.mode = "IN_MOD_SPEC" -> IN_MOD_SPEC(p, line)
           [] p.mode = "IN_ADD_ENTRY" -> IN_ADD_ENTRY(p, line)
           [] p.mode = "IN_DELETE" -> IN_DELETE(p, line)

\* The line before is acted on, if there is one.
Flushed(p) == IF p.lastLine = Unset THEN p ELSE LogicalLineReceived(p, p.lastLine)

-----------------------------------------------------------------------------
StreamInit ==
    /\ received = <<>>
    /\ parser \in [delta : BOOLEAN, mode : {"HEADER"}, dn : {Unset}, data : {<<>>},
                   modifications : {<<>>}, spec : {Unset}, lastLine : {Unset}, out : {<<>>},
                   error : {""}, lost : {FALSE}]

Folds(line) == line # <<>> /\ Head(line) = " "

Open == parser.error = "" /\ ~parser.lost

\* A line that continues the one before.
Continued(line) ==
    /\ Open /\ Len(received) < MaxLines
    /\ Folds(line)
    /\ received' = Append(received, line)
    /\ parser' = IF parser.lastLine = Unset THEN Raise(parser, "EntryStartsWithSpace")
                 ELSE [parser EXCEPT !.lastLine = @ \o Tail(line)]

\* Any other line; an empty one is acted on at once.
LineReceived(line) ==
    /\ Open /\ Len(received) < MaxLines
    /\ ~Folds(line)
    /\ received' = Append(received, line)
    /\ LET p == Flushed(parser)
           q == LogicalLineReceived(p, <<>>)
       IN parser' = IF p.error # "" THEN p
                    ELSE IF line # <<>> THEN [p EXCEPT !.lastLine = line]
                    ELSE IF q.error # "" THEN [q EXCEPT !.lastLine = <<>>]
                    ELSE [q EXCEPT !.lastLine = Unset]

\* Mutant of InRecord: the modes of changes are not thought of.
InRecordOfEntries(p) == p.mode \in {"HEADER", "IN_ENTRY"}

InRecord(p) == p.mode # "WAIT_FOR_DN"

ConnectionLost ==
    /\ Open
    /\ parser' = [parser EXCEPT !.lost = TRUE, !.error = IF InRecord(parser) THEN "Truncated" ELSE ""]
    /\ UNCHANGED received

StreamNext == (\E line \in Lines(parser.delta) : Continued(line) \/ LineReceived(line)) \/ ConnectionLost

StreamSpec == StreamInit /\ [][StreamNext]_streamVars

-----------------------------------------------------------------------------
(* What a text means, told from all of it: the lines are unfolded, comments *)
(* are dropped, and what ends with an empty line is a record.               *)

Unfold(done, line) ==
    IF Folds(line) THEN [done EXCEPT ![Len(done)] = @ \o Tail(line)] ELSE Append(done, line)

Unfolded(lines) ==
    LET of[n \in 0..Len(lines)] == IF n = 0 THEN <<>> ELSE Unfold(of[n - 1], lines[n])
    IN of[Len(lines)]

\* The lines at some places, in their order.
LinesAt(lines, places) ==
    LET of[n \in 0..Len(lines)] ==
            IF n = 0 THEN <<>>
            ELSE IF n \in places THEN Append(of[n - 1], lines[n]) ELSE of[n - 1]
    IN of[Len(lines)]

Comment(line) == line # <<>> /\ Head(line) = "#"
Uncommented(lines) == LinesAt(lines, {i \in DOMAIN lines : ~Comment(lines[i])})

Unversioned(lines) ==
    IF lines # <<>> /\ Head(lines) # <<>> /\ Key(Head(lines)) = <<"version">>
    THEN Tail(lines) ELSE lines

Meant(lines) == Unversioned(Uncommented(Unfolded(lines)))

\* What ends with a line of a kind, and what has not ended yet.
Divide(division, line, end) ==
    IF line # end THEN [division EXCEPT !.rest = Append(@, line)]
    ELSE IF division.rest = <<>> THEN division
    ELSE [parts |-> Append(division.parts, division.rest), rest |-> <<>>]

Divided(lines, end) ==
    LET of[n \in 0..Len(lines)] ==
            IF n = 0 THEN [parts |-> <<>>, rest |-> <<>>] ELSE Divide(of[n - 1], lines[n], end)
    IN of[Len(lines)]

Records(lines) == Divided(lines, <<>>).parts

Attributes(lines) ==
    [k \in {Key(lines[i]) : i \in DOMAIN lines} |->
        LET its == LinesAt(lines, {i \in DOMAIN lines : Key(lines[i]) = k})
        IN [i \in DOMAIN its |-> Val(its[i])]]

\* A modification ends with a dash.
Modification(part) ==
    <<Key(Head(part)), Val(Head(part)), [i \in DOMAIN Tail(part) |-> Val(Tail(part)[i])]>>
Modifications(lines) ==
    LET parts == Divided(lines, <<"-">>).parts IN [n \in DOMAIN parts |-> Modification(parts[n])]

Meaning(record, delta) ==
    LET dn == Val(record[1])
        type == Val(record[2])
        rest == SubSeq(record, 3, Len(record))
    IN IF ~delta THEN <<"entry", dn, Attributes(Tail(record))>>
       ELSE IF type = <<"modify">> THEN <<"modify", dn, Modifications(rest)>>
       ELSE IF type = <<"add">> THEN <<"add", dn, Attributes(rest)>>
       ELSE <<"delete", dn>>

-----------------------------------------------------------------------------
\* As long as nothing was refused, the parser has made of the lines exactly the
\* records that have been ended: folding, comments and empty lines anywhere, a
\* value never goes to another record or another modification, and none is left
\* out or made twice.
ReadsWhatIsMeant ==
    parser.error = "" =>
        LET records == Records(Meant(received))
        IN parser.out = [i \in DOMAIN records |-> Meaning(records[i], parser.delta)]

\* Without an error the connection ends between records: of the lines after the
\* last empty one none is left.  (LDIFTruncatedError, "LDIF appears to be
\* truncated".)
Left(lines, n) == Len(lines) = n \/ lines[Len(lines) - n] = <<>>
TruncationIsSeen == parser.lost /\ parser.error = "" => Left(Meant(received), 0)

\* Of a record that is cut off at most the first line is left without an error,
\* the one the parser is behind.
CutRecordsAreSeen ==
    parser.lost /\ parser.error = "" => \E n \in 0..1 : Left(Meant(received), n)
=============================================================================
