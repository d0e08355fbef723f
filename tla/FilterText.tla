----------------------------- MODULE FilterText -----------------------------
(***************************************************************************)
(* Search filters: their text (protocols/pureldap.py, asText; ldapfilter.py*)
(* parseFilter), and whether an entry matches one (entryhelpers.py,        *)
(* MatchMixin).                                                            *)
(*                                                                         *)
(* A text is a sequence of characters.  The grammar of pyparsing is        *)
(* modelled by what it accepts; the parsers below take a text and give     *)
(* what they made of it and the rest of the text, or NoMatch.              *)
(***************************************************************************)
EXTENDS Naturals, Sequences, SequencesExt, TLC

CONSTANTS
    AttrChars,   \* characters of attribute types
    RuleChars,   \* characters of matching rules
    AtMost(_, _) \* the order of values: that of their octets

Special == {"\\", "*", "(", ")", "NUL"}
Code == ("\\" :> <<"5", "c">> @@ "*" :> <<"2", "a">> @@ "(" :> <<"2", "8">>
         @@ ")" :> <<"2", "9">> @@ "NUL" :> <<"0", "0">>)

NoMatch == [ok |-> FALSE, value |-> <<>>, rest |-> <<>>]
Match(value, rest) == [ok |-> TRUE, value |-> value, rest |-> rest]

-----------------------------------------------------------------------------
(* asText.                                                                 *)

\* Mutant of Escape: the asterisk is not escaped.
EscapeNoAsterisk(s) ==
    FlattenSeq([i \in DOMAIN s |->
        IF s[i] \in Special \ {"*"} THEN <<"\\">> \o Code[s[i]] ELSE <<s[i]>>])

Escape(s) ==
    FlattenSeq([i \in DOMAIN s |-> IF s[i] \in Special THEN <<"\\">> \o Code[s[i]] ELSE <<s[i]>>])

Operator == [equalityMatch |-> <<"=">>, approxMatch |-> <<"~", "=">>,
             greaterOrEqual |-> <<">", "=">>, lessOrEqual |-> <<"<", "=">>]
Simple == DOMAIN Operator
SetSign == [and |-> "&", or |-> "|"]

\* The parts of a substring filter: an initial one, any, a final one.
PartsText(parts) ==
    LET part(kind) == SelectSeq(parts, LAMBDA p : p[1] = kind)
        text(ps) == FlattenSeq([i \in DOMAIN ps |-> Escape(ps[i][2])])
        any == part("any")
    IN text(part("initial")) \o <<"*">>
       \o FlattenSeq([i \in DOMAIN any |-> Escape(any[i][2]) \o <<"*">>]) \o text(part("final"))

RECURSIVE AsText(_)
AsText(f) ==
    LET inside ==
          CASE f.cls \in Simple -> f.attr \o Operator[f.cls] \o Escape(f.value)
            [] f.cls = "present" -> f.attr \o <<"=", "*">>
            [] f.cls = "substrings" -> f.attr \o <<"=">> \o PartsText(f.parts)
            [] f.cls = "extensibleMatch" ->
                 f.type \o (IF f.dnAttributes THEN <<":", "d", "n">> ELSE <<>>)
                 \o (IF f.rule # <<>> THEN <<":">> \o f.rule ELSE <<>>)
                 \o <<":", "=">> \o Escape(f.value)
            [] f.cls = "not" -> <<"!">> \o AsText(f.member)
            [] OTHER -> <<SetSign[f.cls]>>
                        \o FlattenSeq([i \in DOMAIN f.members |-> AsText(f.members[i])])
    IN <<"(">> \o inside \o <<")">>

-----------------------------------------------------------------------------
(* parseFilter.                                                            *)

Drop(s, n) == SubSeq(s, n + 1, Len(s))
Starts(s, prefix) == Len(s) >= Len(prefix) /\ SubSeq(s, 1, Len(prefix)) = prefix

\* How many characters from the beginning are in a set.
Run(s, set) == CHOOSE n \in 0..Len(s) :
                 (\A i \in 1..n : s[i] \in set) /\ (n < Len(s) => s[n + 1] \notin set)

Word(s, set) == LET n == Run(s, set)
                IN IF n = 0 THEN NoMatch ELSE Match(SubSeq(s, 1, n), Drop(s, n))

\* escaped: any other pair of digits than those of Code is not told apart.
Decoded(pair) == IF \E c \in Special : Code[c] = pair
                 THEN CHOOSE c \in Special : Code[c] = pair ELSE "?"

RECURSIVE ValueFrom(_, _)
ValueFrom(done, s) ==
    IF s # <<>> /\ Head(s) \notin Special THEN ValueFrom(Append(done, Head(s)), Tail(s))
    ELSE IF Len(s) >= 3 /\ Head(s) = "\\"
         THEN ValueFrom(Append(done, Decoded(SubSeq(s, 2, 3))), Drop(s, 3))
    ELSE IF done = <<>> THEN NoMatch ELSE Match(done, s)
Value(s) == ValueFrom(<<>>, s)

\* simple: the operator is the first that fits.
SimpleItem(s) ==
    LET a == Word(s, AttrChars)
        fits == {c \in Simple : Starts(a.rest, Operator[c])}
        c == CHOOSE c \in fits : TRUE
        v == Value(Drop(a.rest, Len(Operator[c])))
    IN IF ~a.ok \/ fits = {} THEN NoMatch
       ELSE IF ~v.ok THEN NoMatch
       ELSE Match([cls |-> c, attr |-> a.value, value |-> v.value], v.rest)

Present(s) ==
    LET a == Word(s, AttrChars)
    IN IF a.ok /\ Starts(a.rest, <<"=", "*">>)
       THEN Match([cls |-> "present", attr |-> a.value], Drop(a.rest, 2)) ELSE NoMatch

\* any: a value belongs to it if an asterisk follows.
RECURSIVE AnyParts(_, _)
AnyParts(done, s) ==
    LET v == Value(s)
    IN IF v.ok /\ v.rest # <<>> /\ Head(v.rest) = "*"
       THEN AnyParts(Append(done, <<"any", v.value>>), Tail(v.rest))
       ELSE Match(done, s)

Substring(s) ==
    LET a == Word(s, AttrChars)
        start == Drop(a.rest, 1)
        i == Value(start)
        initial == IF i.ok THEN <<<<"initial", i.value>>>> ELSE <<>>
        afterInitial == IF i.ok THEN i.rest ELSE start
        any == AnyParts(<<>>, Drop(afterInitial, 1))
        f == Value(any.rest)
        final == IF f.ok THEN <<<<"final", f.value>>>> ELSE <<>>
    IN IF a.ok /\ Starts(a.rest, <<"=">>) /\ Starts(afterInitial, <<"*">>)
       THEN Match([cls |-> "substrings", attr |-> a.value, parts |-> initial \o any.value \o final],
                  IF f.ok THEN f.rest ELSE any.rest)
       ELSE NoMatch

\* extensible: the type may be missing, and then the rule may not.
Extensible(s) ==
    LET a == Word(s, AttrChars)
        afterType == IF a.ok THEN a.rest ELSE s
        dn == Starts(afterType, <<":", "d", "n">>)
        afterDn == IF dn THEN Drop(afterType, 3) ELSE afterType
        r == Word(Drop(afterDn, 1), RuleChars)
        rule == Starts(afterDn, <<":">>) /\ r.ok
        afterRule == IF rule THEN r.rest ELSE afterDn
        v == Value(Drop(afterRule, 2))
    IN IF (a.ok \/ rule) /\ Starts(afterRule, <<":", "=">>) /\ v.ok
       THEN Match([cls |-> "extensibleMatch", type |-> IF a.ok THEN a.value ELSE <<>>,
                   dnAttributes |-> dn, rule |-> IF rule THEN r.value ELSE <<>>,
                   value |-> v.value], v.rest)
       ELSE NoMatch

\* item: the alternative that takes most of the text, the first of them.
Item(s) ==
    LET tried == <<SimpleItem(s), Present(s), Substring(s), Extensible(s)>>
        ok == {i \in 1..4 : tried[i].ok}
        longest == {i \in ok : \A j \in ok : Len(tried[i].rest) <= Len(tried[j].rest)}
    IN IF ok = {} THEN NoMatch ELSE tried[CHOOSE i \in longest : \A j \in longest : i <= j]

RECURSIVE Filter(_)
RECURSIVE FilterList(_, _)
Filter(s) ==
    LET inner == Tail(s)
        made == IF inner = <<>> THEN NoMatch
                ELSE IF Head(inner) \in {"&", "|"} THEN FilterList(<<>>, Tail(inner))
                ELSE IF Head(inner) = "!" THEN Filter(Tail(inner))
                ELSE Item(inner)
        value == IF Head(inner) = "&" THEN [cls |-> "and", members |-> made.value]
                 ELSE IF Head(inner) = "|" THEN [cls |-> "or", members |-> made.value]
                 ELSE IF Head(inner) = "!" THEN [cls |-> "not", member |-> made.value]
                 ELSE made.value
    IN IF s = <<>> THEN NoMatch
       ELSE IF Head(s) # "(" THEN NoMatch
       ELSE IF ~made.ok THEN NoMatch
       ELSE IF ~Starts(made.rest, <<")">>) THEN NoMatch
       ELSE Match(value, Tail(made.rest))

FilterList(done, s) ==
    LET f == Filter(s)
    IN IF f.ok THEN FilterList(Append(done, f.value), f.rest)
       ELSE IF done = <<>> THEN NoMatch ELSE Match(done, s)

ParseFilter(s) == LET f == Filter(s) IN IF f.ok /\ f.rest = <<>> THEN f ELSE NoMatch

-----------------------------------------------------------------------------
(* match: entry is a function from attribute types to sets of values.      *)

Find(s, t) == {i \in 1..Len(s) - Len(t) + 1 : SubSeq(s, i, i + Len(t) - 1) = t}
Ends(s, suffix) == Len(s) >= Len(suffix) /\ Drop(s, Len(s) - Len(suffix)) = suffix

\* Mutant of AnyFound: a part is not found at the very beginning (i > 0).
RECURSIVE AnyFoundInside(_, _)
AnyFoundInside(possible, parts) ==
    IF parts = <<>> THEN possible # {}
    ELSE LET found(p) == Find(p, Head(parts)[2]) \ {1}
         IN AnyFoundInside({Drop(p, Min(found(p)) - 1) : p \in {p \in possible : found(p) # {}}},
                           Tail(parts))

\* The part that was found is not taken off what is searched for the next one.
RECURSIVE AnyFound(_, _)
AnyFound(possible, parts) ==
    IF parts = <<>> THEN possible # {}
    ELSE LET t == Head(parts)[2]
         IN AnyFound({Drop(p, Min(Find(p, t)) - 1) : p \in {p \in possible : Find(p, t) # {}}},
                     Tail(parts))

\* x[:-len(final)]: nothing of the value is left when the end is empty.
CutEnd(v, end) == IF end = <<>> THEN <<>> ELSE SubSeq(v, 1, Len(v) - Len(end))

MatchSubstrings(values, parts) ==
    LET initial == Head(parts)[1] = "initial"
        possible == IF initial
                    THEN {Drop(v, Len(Head(parts)[2])) : v \in {v \in values : Starts(v, Head(parts)[2])}}
                    ELSE values
        rest == IF initial THEN Tail(parts) ELSE parts
        final == rest # <<>> /\ Last(rest)[1] = "final"
        left == IF final
                THEN {CutEnd(v, Last(rest)[2]) : v \in {v \in possible : Ends(v, Last(rest)[2])}}
                ELSE possible
    IN AnyFound(left, IF final THEN Front(rest) ELSE rest)

\* MatchNotImplemented, for a filter that names a matching rule, is raised through
\* the filters it is a member of, unless they know their answer before they come
\* to it.
Raises == "raises"
YesIf(b) == IF b THEN "yes" ELSE "no"
UntilOther(results, answer) ==
    LET at == SelectInSeq(results, LAMBDA r : r # answer)
    IN IF at = 0 THEN answer ELSE results[at]

\* Upper and lower case are the same, and not looked at here; an attribute the
\* entry has not is one without values.  named are the types and values of the
\* entry's name, which extensible filters look at, whatever their flag says.
RECURSIVE Matches(_, _, _)
Matches(entry, named, f) ==
    LET valuesOf(type) == IF type \in DOMAIN entry THEN entry[type] ELSE {}
        members == [i \in DOMAIN f.members |-> Matches(entry, named, f.members[i])]
    IN CASE f.cls = "present" -> YesIf(f.attr \in DOMAIN entry)
         [] f.cls = "equalityMatch" -> YesIf(f.value \in valuesOf(f.attr))
         [] f.cls = "substrings" -> YesIf(MatchSubstrings(valuesOf(f.attr), f.parts))
         [] f.cls = "greaterOrEqual" -> YesIf(\E v \in valuesOf(f.attr) : AtMost(f.value, v))
         [] f.cls = "lessOrEqual" -> YesIf(\E v \in valuesOf(f.attr) : AtMost(v, f.value))
         [] f.cls = "and" -> UntilOther(members, "yes")
         [] f.cls = "or" -> UntilOther(members, "no")
         [] f.cls = "not" ->
              LET m == Matches(entry, named, f.member)
              IN IF m = Raises THEN Raises ELSE YesIf(m = "no")
         [] f.cls = "extensibleMatch" ->
              IF f.rule # <<>> THEN Raises
              ELSE YesIf(\/ f.value \in valuesOf(f.type)
                         \/ \E a \in named : f.type \in {<<>>, a[1]} /\ a[2] = f.value)
         [] OTHER -> Raises

-----------------------------------------------------------------------------
\* What a filter is written as is read as the same filter: no value can become
\* a part of the filter's structure, in any operator.
FilterComesBack(f) ==
    LET p == ParseFilter(AsText(f)) IN p.ok /\ p.value = f

\* A value matches a substring filter if its parts are in it one after another.
RECURSIVE InOrder(_, _)
InOrder(v, parts) ==
    IF parts = <<>> THEN TRUE
    ELSE LET t == Head(parts)[2]
             at == IF Head(parts)[1] = "initial" THEN {i \in {1} : Starts(v, t)}
                   ELSE IF Head(parts)[1] = "final" THEN {i \in {Len(v) - Len(t) + 1} : Ends(v, t)}
                   ELSE Find(v, t)
         IN \E i \in at : InOrder(Drop(v, i + Len(t) - 1), Tail(parts))

\* No value that has the parts in it is missed, and then neither is its entry;
\* an end that is empty, behind other parts, misses what has them.
SubstringsFindAll(v, parts) ==
    LET f == [cls |-> "substrings", attr |-> "a", parts |-> parts]
    IN (InOrder(v, parts) /\ Last(parts) # <<"final", <<>>>>) =>
         /\ Matches("a" :> {v}, {}, f) = "yes"
         /\ Matches("a" :> {v}, {}, [cls |-> "not", member |-> f]) = "no"

\* No other value is found.
SubstringsFindNoOther(v, parts) == MatchSubstrings({v}, parts) => InOrder(v, parts)
=============================================================================
