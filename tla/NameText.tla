------------------------------ MODULE NameText ------------------------------
(***************************************************************************)
(* Distinguished names as text: protocols/ldap/distinguishedname.py, which *)
(* the server and the entries read names with, and ldap/dn.py, which does  *)
(* for clients.                                                            *)
(*                                                                         *)
(* A text is a sequence of characters, and a character a string of one;    *)
(* "NL" stands for the control characters and is written \0A.  An RDN is a *)
(* sequence of pairs of an attribute type and a value, a name a sequence   *)
(* of RDNs.                                                                *)
(***************************************************************************)
EXTENDS Naturals, Sequences, SequencesExt

CONSTANTS
    Letters,     \* characters that mean nothing, "0" and other digits among them
    HexDigits,   \* those of them unescape takes for the first of two digits
    AnyHexDigits \* those of them ldap/dn.py takes for a digit

EscapedChars == {",", "+", "\"", "\\", "<", ">", ";", "="}
EscapedAtEnds == {" ", "#"}

\* A pair of hexadecimal digits; only the pair of "NL" stands for a character here.
Chr(pair) == IF pair = <<"0", "A">> THEN "NL" ELSE "?"

Drop(s, n) == SubSeq(s, n + 1, Len(s))

-----------------------------------------------------------------------------
(* Writing.                                                                *)

EscapedChar(c) ==
    CASE c \in EscapedChars -> <<"\\", c>>
      [] c = "NL" -> <<"\\", "0", "A">>
      [] OTHER -> <<c>>

\* Mutant of Escape: the escape character itself is not escaped.
EscapeNoBackslash(s) ==
    FlattenSeq([i \in DOMAIN s |-> IF s[i] = "\\" THEN <<s[i]>> ELSE EscapedChar(s[i])])

Escape(s) ==
    LET lead == IF s # <<>> /\ Head(s) \in EscapedAtEnds THEN 1 ELSE 0
        rest == Drop(s, lead)
        trail == IF rest # <<>> /\ Last(rest) \in EscapedAtEnds THEN 1 ELSE 0
    IN (IF lead = 1 THEN <<"\\", s[1]>> ELSE <<>>)
       \o FlattenSeq([i \in 1..Len(rest) - trail |-> EscapedChar(rest[i])])
       \o (IF trail = 1 THEN <<"\\", Last(rest)>> ELSE <<>>)

Joined(texts, separator) ==
    FlattenSeq([i \in DOMAIN texts |-> IF i = 1 THEN texts[i] ELSE <<separator>> \o texts[i]])

\* getText, and dn2str.
AvaText(ava) == Escape(ava[1]) \o <<"=">> \o Escape(ava[2])
RdnText(rdn) == Joined([i \in DOMAIN rdn |-> AvaText(rdn[i])], "+")
DNText(dn) == Joined([i \in DOMAIN dn |-> RdnText(dn[i])], ",")

-----------------------------------------------------------------------------
(* Reading.                                                                *)

\* Blanks after a separator are passed over.
RECURSIVE SkipBlanks(_)
SkipBlanks(s) == IF s # <<>> /\ Head(s) = " " THEN SkipBlanks(Tail(s)) ELSE s

RECURSIVE SplitInto(_, _, _)
SplitInto(parts, s, separator) ==
    LET last == Last(parts)
        Put(more) == [parts EXCEPT ![Len(parts)] = last \o more]
    IN IF s = <<>> THEN parts
       ELSE IF Head(s) = "\\"
            THEN SplitInto(Put(SubSeq(s, 1, IF Len(s) > 1 THEN 2 ELSE 1)), Drop(s, 2), separator)
       ELSE IF Head(s) = separator
            THEN SplitInto(Append(parts, <<>>), SkipBlanks(Tail(s)), separator)
       ELSE SplitInto(Put(<<Head(s)>>), Tail(s), separator)

SplitOnNotEscaped(s, separator) == IF s = <<>> THEN <<>> ELSE SplitInto(<<<<>>>>, s, separator)

\* A text that ends in a backslash is refused: IndexError, and DECODING_ERROR.
Refused == <<"refused">>

\* unescape: two digits after a backslash if the first is one in lower case.
RECURSIVE Unescape(_)
Unescape(s) ==
    IF s = <<>> THEN <<>>
    ELSE IF s = <<"\\">> THEN Refused
    ELSE IF Head(s) # "\\" THEN <<Head(s)>> \o Unescape(Tail(s))
    ELSE IF s[2] \in HexDigits THEN <<Chr(SubSeq(s, 2, 3))>> \o Unescape(Drop(s, 3))
    ELSE <<s[2]>> \o Unescape(Drop(s, 2))

\* The type is what is before the first "=".
Cut(text) ==
    LET at == SelectInSeq(text, LAMBDA c : c = "=")
    IN <<SubSeq(text, 1, at - 1), Drop(text, at)>>

ParseDN(text) ==
    LET rdn(t) == LET avas == SplitOnNotEscaped(t, "+")
                  IN [i \in DOMAIN avas |-> Cut(Unescape(avas[i]))]
        rdns == SplitOnNotEscaped(text, ",")
    IN [i \in DOMAIN rdns |-> rdn(rdns[i])]

-----------------------------------------------------------------------------
(* ldap/dn.py: the text is cut before it is unescaped, and a pair of       *)
(* digits in either case is one character.                                 *)

RECURSIVE UnescapeBoth(_)
UnescapeBoth(s) ==
    IF s = <<>> THEN <<>>
    ELSE IF s = <<"\\">> THEN Refused
    ELSE IF Head(s) # "\\" THEN <<Head(s)>> \o UnescapeBoth(Tail(s))
    ELSE IF Len(s) >= 3 /\ s[2] \in AnyHexDigits /\ s[3] \in AnyHexDigits
         THEN <<Chr(SubSeq(s, 2, 3))>> \o UnescapeBoth(Drop(s, 3))
    ELSE <<s[2]>> \o UnescapeBoth(Drop(s, 2))

\* DECODING_ERROR is the empty sequence here: of a text whose parts do not make
\* it up again, and of a part without a type.
IsType(t) == t # <<>> /\ (\A i \in DOMAIN t : t[i] \in Letters) /\ Head(t) # "0"

Split(text, separator) ==
    LET parts == SplitOnNotEscaped(text, separator)
    IN IF Joined(parts, separator) = text THEN parts ELSE <<>>

Str2DN(text) ==
    LET rdn(t) == LET avas == Split(t, "+")
                  IN [i \in DOMAIN avas |-> <<Cut(avas[i])[1], UnescapeBoth(Cut(avas[i])[2])>>]
        rdns == Split(text, ",")
        read == [i \in DOMAIN rdns |-> rdn(rdns[i])]
    IN IF \A i \in DOMAIN read : read[i] # <<>> /\ \A j \in DOMAIN read[i] : IsType(read[i][j][1])
       THEN read ELSE <<>>

-----------------------------------------------------------------------------
\* RDNs are compared without regard to upper and lower case, which is not looked
\* at here.
\* contains: RDNs are taken off the ends of both while they are the same.
RECURSIVE ContainsFrom(_, _)
ContainsFrom(mine, its) ==
    IF mine = <<>> THEN TRUE
    ELSE IF its = <<>> THEN FALSE
    ELSE Last(mine) = Last(its) /\ ContainsFrom(Front(mine), Front(its))

\* getDomainName: the values of the last RDNs that are one dc each.
RECURSIVE DomainOf(_)
DomainOf(dn) ==
    IF dn # <<>> /\ Len(Last(dn)) = 1 /\ Last(dn)[1][1] = <<"d", "c">>
    THEN Append(DomainOf(Front(dn)), Last(dn)[1][2])
    ELSE <<>>

-----------------------------------------------------------------------------
\* A name that is written is read back as the same name, by the reader of the
\* server and by that of clients, whatever characters its values are made of:
\* no value can add an RDN, a type or a value to the name.
NameComesBack(dn) ==
    /\ ParseDN(DNText(dn)) = dn
    /\ Str2DN(DNText(dn)) = dn

\* Going up from a name passes through exactly the names that contain it, and
\* the domain of a name that contains it is the end of its own.
ContainsIsUp(d, e) ==
    /\ ContainsFrom(d, e) <=> \E n \in 0..Len(e) : Drop(e, n) = d
    /\ ContainsFrom(d, e) => \E n \in 0..Len(e) : Drop(DomainOf(e), n) = DomainOf(d)
=============================================================================
