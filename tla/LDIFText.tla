------------------------------ MODULE LDIFText ------------------------------
(***************************************************************************)
(* LDIF as clients write and read it, ldap/ldif.py, and as entries and     *)
(* trees write it, protocols/ldap/ldif.py.                                 *)
(*                                                                         *)
(* A text is a sequence of lines, a line a sequence of characters.  The    *)
(* words that are compared whole (attribute types, "dn", "changetype", ... *)
(* and the operations) are taken for one character.                        *)
(***************************************************************************)
EXTENDS Naturals, Sequences, SequencesExt, TLC

CONSTANTS
    Cols,      \* how long a line may be
    Unsafe,    \* characters no plain value may contain
    Space,     \* characters str.lstrip takes for blanks
    Base64,    \* for each character a value may contain, what it is in base64
    Order(_, _),  \* the order of the attribute types
    IsDN(_)    \* is_dn: whether a text is a name

MOD_OP == {"add", "delete", "replace", "increment"}
CHANGE_TYPES == {"add", "delete", "modify", "modrdn"}

NoKey == "None"

-----------------------------------------------------------------------------
(* LDIFWriter.                                                             *)

\* Mutant of NeedsBase64: blanks at the beginning are written as they are.
NeedsBase64NoBlank(v) ==
    v # <<>> /\ (Head(v) \in {":", "<"} \/ Last(v) = " " \/ \E i \in DOMAIN v : v[i] \in Unsafe)

NeedsBase64(v) ==
    v # <<>> /\ (\/ Head(v) \in {" ", ":", "<"}
                 \/ Last(v) = " "
                 \/ \E i \in DOMAIN v : v[i] \in Unsafe)

Folded(line) ==
    LET end(n) == Cols + n * (Cols - 1)
        more == IF Len(line) <= Cols THEN 0 ELSE (Len(line) - Cols - 1) \div (Cols - 1) + 1
    IN <<SubSeq(line, 1, IF more = 0 THEN Len(line) ELSE Cols)>>
       \o [n \in 1..more |->
             <<" ">> \o SubSeq(line, end(n - 1) + 1, IF n = more THEN Len(line) ELSE end(n))]

AttrLines(type, v) ==
    IF NeedsBase64(v)
    THEN Folded(<<type, ":", ":", " ">> \o [i \in DOMAIN v |-> Base64[v[i]]])
    ELSE Folded(<<type, ":", " ">> \o v)

ValueLines(type, vs) == FlattenSeq([i \in DOMAIN vs |-> AttrLines(type, vs[i])])

\* An entry is a function from attribute types to sequences of values, written in
\* the order of the types.
EntryLines(entry) ==
    LET types == SetToSortSeq(DOMAIN entry, Order)
    IN FlattenSeq([i \in DOMAIN types |-> ValueLines(types[i], entry[types[i]])])

\* Additions are pairs, modifications are triples that begin with an operation.
ChangeLines(mods) ==
    LET modify == Len(mods[1]) = 3
        lines(m) == IF modify
                    THEN AttrLines(m[1], <<m[2]>>) \o ValueLines(m[2], m[3]) \o <<<<"-">>>>
                    ELSE ValueLines(m[1], m[2])
    IN AttrLines("changetype", <<IF modify THEN "modify" ELSE "add">>)
       \o FlattenSeq([i \in DOMAIN mods |-> lines(mods[i])])

UnparseEntry(dn, entry) == AttrLines("dn", dn) \o EntryLines(entry) \o <<<<>>>>
UnparseChange(dn, mods) == AttrLines("dn", dn) \o ChangeLines(mods) \o <<<<>>>>

-----------------------------------------------------------------------------
(* asLDIF: no line is folded, and the name is written as it is. It asks of *)
(* a value what LDIFWriter asks.                                           *)

AttributeAsLDIF(type, v) ==
    IF NeedsBase64(v)
    THEN <<type, ":", ":", " ">> \o [i \in DOMAIN v |-> Base64[v[i]]]
    ELSE <<type, ":", " ">> \o v

AsLDIF(dn, entry) ==
    LET types == SetToSortSeq(DOMAIN entry, Order)
        lines(k) == [n \in DOMAIN entry[k] |-> AttributeAsLDIF(k, entry[k][n])]
    IN <<<<"dn", ":", " ">> \o dn>> \o FlattenSeq([i \in DOMAIN types |-> lines(types[i])]) \o <<<<>>>>

ManyAsLDIF(records) ==
    <<<<"version", ":", " ", "1">>, <<>>>>
    \o FlattenSeq([i \in DOMAIN records |-> AsLDIF(records[i][1], records[i][2])])

-----------------------------------------------------------------------------
(* LDIFParser.  What is read is a key, a value, the lines that are left,   *)
(* and whether there was none (EOFError).                                  *)

RECURSIVE LStrip(_)
LStrip(v) == IF v # <<>> /\ Head(v) \in Space THEN LStrip(Tail(v)) ELSE v

Plain(c) == CHOOSE p \in DOMAIN Base64 : Base64[p] = c
B64Decode(v) == LET w == SelectSeq(v, LAMBDA c : c # " ") IN [i \in DOMAIN w |-> Plain(w[i])]

\* How many lines after the first continue it.
Continuations(lines) ==
    LET ends == {n \in 2..Len(lines) : lines[n] = <<>> \/ lines[n][1] # " "}
    IN (IF ends = {} THEN Len(lines) ELSE Min(ends) - 1) - 1
UnfoldLines(lines) ==
    lines[1] \o FlattenSeq([n \in 1..Continuations(lines) |-> Tail(lines[n + 1])])
AfterLine(lines) == SubSeq(lines, Continuations(lines) + 2, Len(lines))

KeyAndValue(line) ==
    LET colon == SelectInSeq(line, LAMBDA c : c = ":")
        key == line[colon - 1]
        from(n) == SubSeq(line, colon + n, Len(line))
        spec == IF colon < Len(line) THEN line[colon + 1] ELSE ""
    IN CASE spec = " " -> <<key, LStrip(from(2))>>
         [] spec = ":" -> <<key, B64Decode(from(2))>>
         [] OTHER -> <<key, from(1)>>

RECURSIVE NextKeyAndValue(_)
NextKeyAndValue(lines) ==
    LET line == UnfoldLines(lines)
        got(kv) == [k |-> kv[1], v |-> kv[2], lines |-> AfterLine(lines), eof |-> FALSE]
    IN IF lines = <<>> THEN [k |-> NoKey, v |-> <<>>, lines |-> <<>>, eof |-> TRUE]
       ELSE IF line = <<>> THEN got(<<NoKey, <<>>>>)
       ELSE IF Head(line) = "#" THEN NextKeyAndValue(AfterLine(lines))
       ELSE IF line = <<"-">> THEN got(<<"-", <<>>>>)
       ELSE got(KeyAndValue(line))

RECURSIVE ConsumeEmptyLines(_)
ConsumeEmptyLines(lines) ==
    LET r == NextKeyAndValue(lines)
    IN IF r.k = NoKey /\ ~r.eof THEN ConsumeEmptyLines(r.lines) ELSE r

\* The attributes up to the end of the record.
RECURSIVE ReadAttributes(_, _)
ReadAttributes(entry, r) ==
    IF r.k = NoKey THEN <<entry, r>>
    ELSE LET old == IF r.k \in DOMAIN entry THEN entry[r.k] ELSE <<>>
         IN ReadAttributes((r.k :> Append(old, r.v)) @@ entry, NextKeyAndValue(r.lines))

AfterVersion(lines) ==
    LET r == ConsumeEmptyLines(lines)
    IN IF r.k = "version" THEN ConsumeEmptyLines(r.lines) ELSE r

\* What raises leaves Refused behind what has been handled.
Refused == <<"refused">>

RECURSIVE ReadEntries(_)
ReadEntries(r) ==
    LET second == NextKeyAndValue(r.lines)
        read == ReadAttributes(<<>>, second)
    IN IF r.k = NoKey THEN <<>>
       ELSE IF r.k # "dn" \/ ~IsDN(r.v) \/ second.eof THEN <<Refused>>
       ELSE <<<<r.v, read[1]>>>> \o ReadEntries(ConsumeEmptyLines(read[2].lines))
ParseEntryRecords(lines) == ReadEntries(AfterVersion(lines))

RECURSIVE ReadValues(_, _, _)
ReadValues(values, type, r) ==
    IF r.k = type THEN ReadValues(Append(values, r.v), type, NextKeyAndValue(r.lines))
    ELSE <<values, r>>
ValuesOf(type, r) == ReadValues(<<>>, type, r)

\* The modifications up to the end of the record; the line after the values is
\* passed over, whatever it is.
RECURSIVE ReadModifications(_, _)
ReadModifications(mods, r) ==
    IF r.k = NoKey THEN <<mods, r>>
    ELSE IF r.k \notin MOD_OP THEN <<<<Refused>>, r>>
    ELSE LET read == ValuesOf(r.v[1], NextKeyAndValue(r.lines))
             dash == NextKeyAndValue(read[2].lines)
         IN ReadModifications(Append(mods, <<r.k, r.v[1], read[1]>>),
                              IF dash.k = "-" THEN NextKeyAndValue(dash.lines) ELSE dash)

RECURSIVE SkipControls(_)
SkipControls(r) == IF r.k = "control" THEN SkipControls(NextKeyAndValue(r.lines)) ELSE r

RECURSIVE ReadChanges(_)
ReadChanges(r) ==
    LET head == SkipControls(NextKeyAndValue(r.lines))
        typed == head.k = "changetype"
        body == IF typed THEN NextKeyAndValue(head.lines) ELSE head
        modify == typed /\ head.v = <<"modify">>
        read == IF modify THEN ReadModifications(<<>>, body) ELSE ReadAttributes(<<>>, body)
    IN IF r.k = NoKey THEN <<>>
       ELSE IF r.k # "dn" \/ ~IsDN(r.v) \/ head.eof THEN <<Refused>>
       ELSE IF typed /\ head.v[1] \notin CHANGE_TYPES THEN <<Refused>>
       ELSE IF body.eof \/ (~modify /\ read[2].eof) THEN <<Refused>>
       ELSE IF modify /\ read[1] = <<Refused>> THEN <<Refused>>
       ELSE (IF modify /\ read[1] # <<>> THEN <<<<r.v, read[1]>>>> ELSE <<>>)
            \o ReadChanges(ConsumeEmptyLines(read[2].lines))
ParseChangeRecords(lines) == ReadChanges(AfterVersion(lines))

-----------------------------------------------------------------------------
\* What is not below a name ends the reading, behind what was read before it.
UpToBadName(records) ==
    LET at == SelectInSeq(records, LAMBDA r : ~IsDN(r[1]))
    IN IF at = 0 THEN records ELSE Append(SubSeq(records, 1, at - 1), Refused)

\* Entries that are written are read back, every value of every attribute,
\* however long and whatever it is made of.
EntriesComeBack(records) ==
    LET text == FlattenSeq([i \in DOMAIN records |->
                              UnparseEntry(records[i][1], records[i][2])])
    IN ParseEntryRecords(text) = UpToBadName(records)

\* Modifications that are written are read back in their order; additions among
\* them are passed over.
ChangesComeBack(records) ==
    LET text == FlattenSeq([i \in DOMAIN records |-> UnparseChange(records[i][1], records[i][2])])
    IN ParseChangeRecords(text) = SelectSeq(records, LAMBDA r : Len(r[2][1]) = 3)

\* Entries the server's side has written are read by clients, unless their names
\* would have needed base64.
WrittenEntriesAreRead(records) ==
    (\A i \in DOMAIN records : ~NeedsBase64(records[i][1]))
    => ParseEntryRecords(ManyAsLDIF(records)) = UpToBadName(records)
=============================================================================
