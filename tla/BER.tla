--------------------------------- MODULE BER ---------------------------------
(***************************************************************************)
(* protocols/pureber.py: numbers, lengths and elements as octets.          *)
(*                                                                         *)
(* A value is [tag, structured, content]: the content of a structured one  *)
(* is a sequence of values, that of another one a sequence of octets.      *)
(* What a decoder makes of octets is [fault, value, used], where fault     *)
(* tells values from an exception: Short when octets are missing.          *)
(***************************************************************************)
EXTENDS Integers, Sequences, SequencesExt

CONSTANTS
    Short,    \* BERExceptionInsufficientData
    Fine      \* no exception

Octet == 0..255

\* What is not known yet of an answer.
Missing == [fault |-> Short, value |-> 0, used |-> 0]
Read(value, used) == [fault |-> Fine, value |-> value, used |-> used]

-----------------------------------------------------------------------------
(* Numbers.                                                                *)

Fits(i, signed) == IF signed THEN -128 <= i /\ i <= 127 ELSE i <= 255

RECURSIVE Int2Ber(_, _)
Int2Ber(i, signed) ==
    IF Fits(i, signed) THEN <<i % 256>> ELSE Append(Int2Ber(i \div 256, signed), i % 256)

Ber2Int(e, signed) ==
    LET first == IF signed /\ Head(e) >= 128 THEN Head(e) - 256 ELSE Head(e)
    IN FoldLeft(LAMBDA v, o : 256 * v + o, first, Tail(e))

\* Up to 127 in one octet; else in as many as the first one says.
Int2BerLen(i) ==
    LET e == Int2Ber(i, FALSE)
    IN IF i <= 127 THEN e ELSE <<128 + Len(e)>> \o e

\* The length at an offset, and how many octets it takes.
BerDecodeLength(m, offset) ==
    LET first == m[offset + 1]
        ll == 1 + (first % 128)
    IN IF first < 128 THEN Read(first, 1)
       ELSE IF Len(m) < offset + ll \/ ll = 1 THEN Missing
       ELSE Read(Ber2Int(SubSeq(m, offset + 2, offset + ll), FALSE), ll)

-----------------------------------------------------------------------------
(* Elements.                                                               *)

RECURSIVE ToWire(_)
ToWire(v) ==
    LET content == IF v.structured
                   THEN FlattenSeq([i \in DOMAIN v.content |-> ToWire(v.content[i])])
                   ELSE v.content
    IN <<v.tag + IF v.structured THEN 32 ELSE 0>> \o Int2BerLen(Len(content)) \o content

\* Mutant of Complete: the octet of the tag is not counted.
CompleteEarly(m, ll, length) == Len(m) >= ll + length

Complete(m, ll, length) == Len(m) >= 1 + ll + length

\* berDecodeObject, and berDecodeMultiple for what is inside: whether an element
\* is structured is asked of its first octet, where the code asks its class.
RECURSIVE DecodeObject(_)
RECURSIVE DecodeMultiple(_)
DecodeObject(m) ==
    IF Len(m) < 2 THEN Missing
    ELSE LET length == BerDecodeLength(m, 1)
             ll == length.used
             last == 1 + ll + length.value
             content == SubSeq(m, 2 + ll, IF Len(m) < last THEN Len(m) ELSE last)
             structured == (m[1] \div 32) % 2 = 1
             tag == m[1] - IF structured THEN 32 ELSE 0
             inside == DecodeMultiple(content)
         IN IF length.fault = Short THEN Missing
            ELSE IF ~Complete(m, ll, length.value) THEN Missing
            ELSE IF structured /\ inside.fault = Short THEN Missing
            ELSE Read([tag |-> tag, structured |-> structured,
                       content |-> IF structured THEN inside.value ELSE content],
                      1 + ll + length.value)

DecodeMultiple(content) ==
    IF content = <<>> THEN Read(<<>>, 0)
    ELSE LET first == DecodeObject(content)
             rest == DecodeMultiple(SubSeq(content, first.used + 1, Len(content)))
         IN IF first.fault = Short THEN Missing
            ELSE IF rest.fault = Short THEN Missing
            ELSE Read(<<first.value>> \o rest.value, Len(content))

-----------------------------------------------------------------------------
NumberComesBack(i) ==
    /\ Ber2Int(Int2Ber(i, TRUE), TRUE) = i
    /\ i >= 0 => /\ Ber2Int(Int2Ber(i, FALSE), FALSE) = i
                 /\ BerDecodeLength(Int2BerLen(i), 0) = Read(i, Len(Int2BerLen(i)))

\* However the octets of an element are cut up by the network, none is taken for
\* the element before the last has come, and then no more than they.
FramesExactly(v, after) ==
    LET wire == ToWire(v)
    IN /\ DecodeObject(wire \o after) = Read(v, Len(wire))
       /\ \A n \in 1..Len(wire) - 1 : DecodeObject(SubSeq(wire, 1, n)).fault = Short
=============================================================================
