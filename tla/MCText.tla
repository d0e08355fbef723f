------------------------------- MODULE MCText -------------------------------
(***************************************************************************)
(* Bounded inputs for LDIFText, EntryDelta, SchemaText and URLText, one of *)
(* them in each state; MCCodec says what is checked of them.               *)
(***************************************************************************)
EXTENDS Integers, Sequences, SequencesExt, FiniteSetsExt, TLC

VARIABLES kind, value

\* The characters of the LDIF values, and what stands for them in base64; a name
\* begins with a type, for which stand two of them.
Encoded == "x" :> "eA" @@ " " :> "IA" @@ ":" :> "Og" @@ "<" :> "PA" @@ "#" :> "Iw"
           @@ "-" :> "LQ" @@ "NL" :> "Cg" @@ "dn" :> "ZG4"
LDIF == INSTANCE LDIFText WITH Cols <- 4, Unsafe <- {"NL"}, Space <- {" ", "TAB"},
                               Base64 <- Encoded,
                               Order <- LAMBDA k, m : k = "a" /\ m = "b",
                               IsDN <- LAMBDA v : v = <<>> \/ Head(v) \in {"x", "dn"}

\* Upper and lower case of two attribute types, and each of them as str.
Ordered == <<"A", "A str", "B", "B str", "a", "a str", "b", "b str">>
Case(k) == CASE k = "A" -> "a" [] k = "B" -> "b" [] k = "A str" -> "a str" [] k = "B str" -> "b str"
             [] OTHER -> k
InText == [k \in {"a", "A", "b", "B"} |-> k \o " str"]
Delta == INSTANCE EntryDelta
           WITH Fold <- Case,
                Text <- LAMBDA k : IF k \in DOMAIN InText THEN InText[k] ELSE k,
                Bytes <- LAMBDA k : IF k \in DOMAIN InText THEN k
                                    ELSE CHOOSE b \in DOMAIN InText : InText[b] = k,
                Order <- LAMBDA k, m : \E i, j \in 1..8 : i < j /\ Ordered[i] = k /\ Ordered[j] = m

Schema == INSTANCE SchemaText WITH Extensions <- {"X-ORIGIN", "X-Y"}
URL == INSTANCE URLText

-----------------------------------------------------------------------------
(* LDIF: every character in every place of a short value, and values of    *)
(* every length around the ends of three lines.                            *)

Chars == DOMAIN Encoded
Values == BoundedSeq(Chars, 3)
Long == {[i \in 1..n |-> IF i = n THEN c ELSE IF i = n - 1 THEN d ELSE "x"] :
           n \in 4..12, c \in Chars, d \in {"x", " ", "NL"}}
D == <<"x">>
MCRecords ==
    {<<<<D, "a" :> <<v, <<"x">>>> @@ "b" :> <<w>>>>, <<D, "a" :> <<w>>>>>> :
       v, w \in BoundedSeq(Chars, 2)}
    \cup {<<<<v, "a" :> <<v>>>>, <<D, "b" :> <<v>>>>>> : v \in Long \cup Values}
MCChanges ==
    {<<<<D, <<<<op, "a", vs>>, <<"replace", "a", <<v>>>>>>>>, <<D, <<<<"a", <<v>>>>>>>>,
       <<D, <<<<"delete", "b", <<>>>>>>>>>> :
       op \in {"add", "delete", "increment"}, vs \in {<<>>, <<<<"x">>, <<" ">>>>},
       v \in Long \cup BoundedSeq(Chars, 2)}

-----------------------------------------------------------------------------
(* Entries of two attribute types, one of them in either case and in both  *)
(* kinds, and trees of up to three entries below the root.                 *)

Types == {S \in SUBSET {"a", "A", "a str", "b"} : ~{"a", "A"} \subseteq S}
MCEntries == UNION {[S -> SUBSET {"v", "w"}] : S \in Types}
Paths == {<<"a">>, <<"b">>, <<"a", "a">>, <<"a", "b">>, <<"b", "a">>, <<"a", "a", "b">>}
Shapes == {S \in SUBSET Paths : /\ Cardinality(S) <= 3
                                /\ \A p \in S : Len(p) = 1 \/ Front(p) \in S}
MCTrees == {[p \in S \cup {<<>>} |-> [k \in {"a"} |-> IF p = at THEN {"v"} ELSE {"w"}]] :
              S \in Shapes, at \in Paths \cup {<<>>}}

-----------------------------------------------------------------------------
(* Definitions: every set of fields, with strings that look like what is   *)
(* around them.                                                            *)

RECURSIVE Filled(_)
Filled(options) ==
    IF options = <<>> THEN {<<>>}
    ELSE LET rest == Filled(Tail(options))
             name == options[1][1]
         IN rest \cup {(name :> v) @@ f : v \in options[1][2], f \in rest}
Choose(table, Given(_)) ==
    LET all == Filled([i \in DOMAIN table |-> <<table[i][1], Given(table[i][2])>>])
    IN {f \in all : Cardinality(DOMAIN f) \in {0, 1, 2, 3, Len(table) - 2, Len(table)}}

\* What each kind of field is given.
Written(k) == CASE k = "names" -> {<<<<"a">>>>, <<<<"a", "NAME">>, <<>>>>}
                    [] k = "string" -> {<<"a", "(">>, <<>>}
                    [] k = "oids" -> {<<"p">>, <<"p", "q">>}
                    [] k = "word" -> {"w"}
                    [] OTHER -> {TRUE}
MCTables == {Schema!ObjectClass, Schema!AttributeType, Schema!Syntax, Schema!MatchingRule}
Valid(table, f) ==
    /\ table = Schema!ObjectClass => Cardinality(DOMAIN f \cap Schema!Types) = 1
    /\ table = Schema!MatchingRule => "SYNTAX" \in DOMAIN f
MCExtensions ==
    {<<>>, <<<<"X-ORIGIN", <<"one", <<"a", "(">>>>>>, <<"X-Y", <<"many", <<<<"b">>, <<>>>>>>>>>>}
MCDefinitions == UNION {{<<t, [oid |-> "1.2", fields |-> f, x |-> x]>> :
                           f \in {f \in Choose(t, Written) : Valid(t, f)}, x \in MCExtensions} :
                        t \in MCTables}

\* What the classes of clients may hold: no string of theirs is a keyword or a
\* parenthesis or has a backslash, and one with a quote comes back only in those
\* that are read word by word.
InModel(k) == CASE k = "names" -> {<<<<"a">>>>, <<<<"a">>, <<"b", "c">>>>}
                      [] k = "string" -> {<<"a", "c">>, <<>>}
                      [] k = "oids" -> {<<"p">>, <<"p", "q">>}
                      [] k = "word" -> {"w"}
                      [] OTHER -> {TRUE}
InTokens(k) == IF k = "string" THEN {<<"a", "'", "c">>, <<>>}
                     ELSE IF k = "names" THEN {<<<<"a">>>>, <<<<"a", "'">>, <<>>>>} ELSE InModel(k)
KindOf(name) == CASE name = "NAME" -> "names" [] name = "DESC" -> "string"
                  [] name = "OBSOLETE" -> "flag" [] name \in {"FORM", "OC"} -> "word"
                  [] OTHER -> "oids"
Keyed(order) == [i \in DOMAIN order |-> <<order[i], KindOf(order[i])>>]
MCModels ==
    {<<"ObjectClass", [oid |-> "1.2", fields |-> f, origin |-> o]>> :
       f \in {f \in Choose(Schema!ObjectClass, InModel) :
                "SUP" \in DOMAIN f /\ Cardinality(DOMAIN f \cap Schema!Types) = 1},
       o \in {<<>>, <<<<"a">>, <<"b", "c">>>>}}
    \cup {<<"AttributeType", [oid |-> "1.2", fields |-> f, origin |-> <<>>]>> :
            f \in {IF "SUP" \in DOMAIN f THEN [f EXCEPT !["SUP"] = <<@>>] ELSE f :
                     f \in Choose(Schema!AttributeType, InModel)}}
MCTokenised == UNION {{<<c, [oid |-> "1.2", fields |-> f]>> :
                         f \in Choose(Keyed(Schema!TokenisedOrder[c]), InTokens)} :
                      c \in DOMAIN Schema!TokenisedOrder}

-----------------------------------------------------------------------------
(* URLs: what a URL would read in every place of its parts. A name has no  *)
(* blanks at its ends, and nothing that is there is empty.                 *)

URLChars == DOMAIN URL!Code \cup {"a", "5"}
URLTexts == BoundedSeq(URLChars, 2)
Trimmed == {t \in URLTexts : t = URL!Strip(t)}
Some(texts) == {<<t>> : t \in texts \ {<<>>}}
WithExtension(critical, given) ==
    <<[critical |-> FALSE, extype |-> <<"a">>, exvalue |-> <<>>],
      [critical |-> critical, extype |-> <<"x">>, exvalue |-> given]>>
MCURLs ==
    {[URL!Blank EXCEPT !.urlscheme = s, !.hostport = h, !.dn = dn, !.scope = scope] :
       s \in {"ldap", "ldaps"}, h \in {<<>>, <<"h">>}, dn \in Trimmed, scope \in URL!Scopes}
    \cup {[URL!Blank EXCEPT !.urlscheme = "ldapi", !.hostport = h, !.attrs = as, !.filterstr = f] :
             h \in URLTexts, as \in {<<>>, <<<<<<"a">>>>>>, <<<<<<"a">>, <<"b", "a">>>>>>},
             f \in {<<>>, <<<<"a", "?">>>>}}
    \cup {[URL!Blank EXCEPT !.filterstr = f, !.extensions = <<WithExtension(critical, v)>>] :
             f \in {<<>>} \cup Some(URLTexts), critical \in BOOLEAN, v \in {<<>>} \cup Some(URLTexts)}
MCWho == {<<u, who>> : u \in {URL!Blank, [URL!Blank EXCEPT !.extensions = <<>>],
                             [URL!Blank EXCEPT !.extensions = <<WithExtension(TRUE, <<<<"%", " ">>>>)>>]},
                       who \in {t \in BoundedSeq(URLChars, 3) \ {<<>>} : URL!Unquote(t) = t}}

-----------------------------------------------------------------------------
Init == \/ kind = "records" /\ value \in MCRecords
        \/ kind = "changes" /\ value \in MCChanges
        \/ kind = "entries" /\ value \in MCEntries \X MCEntries
        \/ kind = "trees" /\ value \in MCTrees \X MCTrees
        \/ kind = "definition" /\ value \in MCDefinitions
        \/ kind = "tokenised" /\ value \in MCTokenised
        \/ kind = "model" /\ value \in MCModels
        \/ kind = "url" /\ value \in MCURLs
        \/ kind = "who" /\ value \in MCWho
=============================================================================
