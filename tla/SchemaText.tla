----------------------------- MODULE SchemaText -----------------------------
(***************************************************************************)
(* Schema definitions as text: schema.py, which the server's side reads    *)
(* and writes them with, and ldap/schema/models.py and tokenizer.py, which *)
(* do for clients.                                                         *)
(*                                                                         *)
(* A text is a sequence of tokens: "(", ")", "'", "$", "\" and words; what *)
(* is between quotes is a sequence of tokens too.  A kind of definition is *)
(* a table of the fields it may have, in their order, and a definition     *)
(* [oid, fields, x]: x are its extensions, pairs of a name and one string, *)
(* <<"one", s>>, or several, <<"many", ss>>.                               *)
(***************************************************************************)
EXTENDS Naturals, Sequences, SequencesExt, TLC

CONSTANT Extensions    \* the words that begin with X-

ObjectClass ==
    <<<<"NAME", "names">>, <<"DESC", "string">>, <<"OBSOLETE", "flag">>, <<"SUP", "oids">>,
      <<"ABSTRACT", "type">>, <<"STRUCTURAL", "type">>, <<"AUXILIARY", "type">>,
      <<"MUST", "oids">>, <<"MAY", "oids">>>>
AttributeType ==
    <<<<"NAME", "names">>, <<"DESC", "string">>, <<"OBSOLETE", "flag">>, <<"SUP", "word">>,
      <<"EQUALITY", "word">>, <<"ORDERING", "word">>, <<"SUBSTR", "word">>, <<"SYNTAX", "word">>,
      <<"SINGLE-VALUE", "flag">>, <<"COLLECTIVE", "flag">>, <<"NO-USER-MODIFICATION", "flag">>,
      <<"USAGE", "word">>>>
Syntax ==
    <<<<"DESC", "string">>, <<"X-BINARY-TRANSFER-REQUIRED", "true">>,
      <<"X-NOT-HUMAN-READABLE", "true">>>>
MatchingRule ==
    <<<<"NAME", "names">>, <<"DESC", "string">>, <<"OBSOLETE", "flag">>, <<"SYNTAX", "word">>>>

Types == {"ABSTRACT", "STRUCTURAL", "AUXILIARY"}

Drop(s, n) == SubSeq(s, n + 1, Len(s))
Starts(s, word) == s # <<>> /\ Head(s) = word

\* What is before the first of a token, and after it.
Index(s, token) == SelectInSeq(s, LAMBDA t : t = token)
Before(s, token) == SubSeq(s, 1, Index(s, token) - 1)
After(s, token) == Drop(s, Index(s, token))

-----------------------------------------------------------------------------
(* Writing: toWire.                                                        *)

Quoted(s) == <<"'">> \o s \o <<"'">>
Separated(parts, separator) ==
    FlattenSeq([i \in DOMAIN parts |-> IF i = 1 THEN parts[i] ELSE separator \o parts[i]])
InParens(s) == <<"(">> \o s \o <<")">>
Listed(parts, separator) ==
    IF Len(parts) > 1 THEN InParens(Separated(parts, separator)) ELSE Separated(parts, separator)

StrList(strings) == Listed([i \in DOMAIN strings |-> Quoted(strings[i])], <<>>)
OidList(oids) == Listed([i \in DOMAIN oids |-> <<oids[i]>>], <<"$">>)

FieldText(field, value) ==
    <<field[1]>> \o (CASE field[2] = "names" -> StrList(value)
                       [] field[2] = "string" -> Quoted(value)
                       [] field[2] = "oids" -> OidList(value)
                       [] field[2] = "word" -> <<value>>
                       [] field[2] = "true" -> Quoted(<<"TRUE">>)
                       [] OTHER -> <<>>)

ExtensionText(x) ==
    <<x[1]>> \o IF x[2][1] = "one" THEN Quoted(x[2][2])
                ELSE InParens(FlattenSeq([i \in DOMAIN x[2][2] |-> Quoted(x[2][2][i])]))

ToWire(table, d) ==
    LET said == SelectSeq(table, LAMBDA f : f[1] \in DOMAIN d.fields)
    IN InParens(<<d.oid>> \o FlattenSeq([i \in DOMAIN said |-> FieldText(said[i], d.fields[said[i][1]])])
                \o FlattenSeq([i \in DOMAIN d.x |-> ExtensionText(d.x[i])]))

-----------------------------------------------------------------------------
(* Reading: _parse.  p is [ok, fields, text]: what has been read, and the  *)
(* text that is left.                                                      *)

Bad == [ok |-> FALSE, fields |-> <<>>, text |-> <<>>]

RECURSIVE StringsToList(_)
StringsToList(s) ==
    IF s = <<>> THEN <<>>
    ELSE IF Head(s) # "'" \/ Index(Tail(s), "'") = 0 THEN <<Bad>>
    ELSE <<Before(Tail(s), "'")>> \o StringsToList(After(Tail(s), "'"))

RECURSIVE ToList(_)
ToList(s) ==
    IF Index(s, "$") = 0 THEN <<s[1]>>
    ELSE <<Before(s, "$")[1]>> \o ToList(After(s, "$"))

Said(p, field, value, text) ==
    [p EXCEPT !.fields = (field[1] :> value) @@ @, !.text = text]

ReadField(p, field) ==
    LET rest == Tail(p.text)
        inside == Tail(rest)
        kind == field[2]
    IN IF ~p.ok \/ ~Starts(p.text, field[1]) THEN p
       ELSE CASE kind \in {"names", "string"} /\ Starts(rest, "'") ->
                   LET s == Before(inside, "'")
                   IN Said(p, field, IF kind = "names" THEN <<s>> ELSE s, After(inside, "'"))
              [] kind = "names" /\ Starts(rest, "(") ->
                   Said(p, field, StringsToList(Before(inside, ")")), After(inside, ")"))
              [] kind = "oids" /\ Starts(rest, "(") ->
                   Said(p, field, ToList(Before(inside, ")")), After(inside, ")"))
              [] kind = "oids" /\ rest # <<>> -> Said(p, field, <<Head(rest)>>, inside)
              [] kind = "word" /\ rest # <<>> -> Said(p, field, Head(rest), inside)
              [] kind = "flag" -> Said(p, field, TRUE, rest)
              [] kind = "type" /\ DOMAIN p.fields \cap Types = {} -> Said(p, field, TRUE, rest)
              [] kind = "true" -> Said(p, field, TRUE, Drop(rest, 3))
              [] OTHER -> Bad

\* _parse_extensions: <<extensions, what is left>>.
RECURSIVE ParseExtensions(_, _)
ParseExtensions(x, text) ==
    LET rest == Tail(text)
        inside == Tail(rest)
        got(value, left) == ParseExtensions(Append(x, <<text[1], value>>), left)
    IN IF text = <<>> THEN <<x, text>>
       ELSE IF Head(text) \notin Extensions THEN <<x, text>>
       ELSE IF Starts(rest, "'") THEN got(<<"one", Before(inside, "'")>>, After(inside, "'"))
       ELSE IF Starts(rest, "(")
            THEN got(<<"many", StringsToList(Before(inside, ")"))>>, After(inside, ")"))
       ELSE <<x, text>>

Parse(table, text) ==
    LET p == FoldLeft(ReadField, [ok |-> TRUE, fields |-> <<>>, text |-> Drop(Front(text), 2)], table)
        x == ParseExtensions(<<>>, p.text)
        fields == IF table = ObjectClass /\ DOMAIN p.fields \cap Types = {}
                  THEN ("STRUCTURAL" :> TRUE) @@ p.fields ELSE p.fields
    IN IF ~p.ok \/ x[2] # <<>> THEN Bad
       ELSE IF table = MatchingRule /\ "SYNTAX" \notin DOMAIN fields THEN Bad
       ELSE [ok |-> TRUE, oid |-> text[2], fields |-> fields, x |-> x[1]]

-----------------------------------------------------------------------------
(* The classes of clients.  Those schema.py reads write their fields in    *)
(* this order; a quote in a string is written behind a backslash.          *)

ModelOrder ==
    [ObjectClass |-> <<"NAME", "DESC", "SUP", "OBSOLETE", "STRUCTURAL", "ABSTRACT", "AUXILIARY",
                       "MUST", "MAY">>,
     AttributeType |-> <<"NAME", "DESC", "SUP", "OBSOLETE", "EQUALITY", "ORDERING", "SUBSTR",
                         "SYNTAX", "SINGLE-VALUE", "COLLECTIVE", "NO-USER-MODIFICATION", "USAGE">>,
     MatchingRule |-> <<"NAME", "DESC", "OBSOLETE", "SYNTAX">>]
Table == [ObjectClass |-> ObjectClass, AttributeType |-> AttributeType,
          MatchingRule |-> MatchingRule]

Escaped(s) == FlattenSeq([i \in DOMAIN s |-> IF s[i] = "'" THEN <<"\\", "'">> ELSE <<s[i]>>])
KeyList(strings) == Listed([i \in DOMAIN strings |-> Quoted(Escaped(strings[i]))], <<>>)

Flags == Types \cup {"OBSOLETE", "SINGLE-VALUE", "COLLECTIVE", "NO-USER-MODIFICATION"}

\* key_attr writes nothing of an empty string.
ModelField(key, value) ==
    LET kind == CASE key = "NAME" -> "names" [] key = "DESC" -> "string"
                  [] key \in {"SUP", "MUST", "MAY", "AUX", "NOT", "APPLIES"} -> "oids"
                  [] key \in Flags -> "flag" [] OTHER -> "word"
    IN IF kind = "names" THEN <<key>> \o KeyList(value)
       ELSE IF kind = "string"
            THEN IF value = <<>> THEN <<>> ELSE <<key>> \o Quoted(Escaped(value))
       ELSE FieldText(<<key, kind>>, value)

\* __str__; of the extensions X-ORIGIN alone is written, by two of the classes.
ModelText(order, oid, fields, origin) ==
    LET said == SelectSeq(order, LAMBDA k : k \in DOMAIN fields)
    IN InParens(<<oid>> \o FlattenSeq([i \in DOMAIN said |-> ModelField(said[i], fields[said[i]])])
                \o IF origin = <<>> THEN <<>> ELSE <<"X-ORIGIN">> \o KeyList(origin))

\* An object class that does not say is below top, and the type an attribute is
\* below is one of several.
SupOf(class, d) ==
    CASE class = "ObjectClass" /\ "SUP" \notin DOMAIN d.fields -> "SUP" :> <<"top">>
      [] class = "AttributeType" /\ "SUP" \in DOMAIN d.fields -> "SUP" :> <<d.fields["SUP"]>>
      [] OTHER -> <<>>

\* _parse of a client's class.
ReadModel(class, text) ==
    LET d == Parse(Table[class], text)
        origin == SelectSeq(d.x, LAMBDA x : x[1] = "X-ORIGIN")
    IN IF ~d.ok THEN Bad
       ELSE [oid |-> d.oid, fields |-> SupOf(class, d) @@ d.fields,
             origin |-> IF origin = <<>> THEN <<>>
                        ELSE IF Last(origin)[2][1] = "one" THEN <<Last(origin)[2][2]>>
                        ELSE Last(origin)[2][2]]

-----------------------------------------------------------------------------
(* The classes that are read word by word.  What is a word, a parenthesis  *)
(* or a string is one element, without its quotes: they are not told apart *)
(* any more.                                                               *)

TokenisedOrder ==
    [MatchingRuleUse |-> <<"NAME", "DESC", "OBSOLETE", "APPLIES">>,
     DITContentRule |-> <<"NAME", "DESC", "OBSOLETE", "AUX", "MUST", "MAY", "NOT">>,
     DITStructureRule |-> <<"NAME", "DESC", "OBSOLETE", "FORM", "SUP">>,
     NameForm |-> <<"NAME", "DESC", "OBSOLETE", "OC", "MUST", "MAY">>]
Many == {"NAME", "APPLIES", "AUX", "MUST", "MAY", "NOT", "SUP"}

\* The string at the beginning, unescaped, and what follows it.
RECURSIVE TakeString(_, _)
TakeString(done, s) ==
    IF s = <<>> THEN <<<<Bad>>, <<>>>>
    ELSE IF Head(s) = "'" THEN <<done, Tail(s)>>
    ELSE IF Head(s) = "\\" /\ Len(s) > 1 THEN TakeString(Append(done, s[2]), Drop(s, 2))
    ELSE TakeString(Append(done, Head(s)), Tail(s))

RECURSIVE SplitTokens(_)
SplitTokens(s) ==
    LET string == TakeString(<<>>, Tail(s))
    IN IF s = <<>> THEN <<>>
       ELSE IF Head(s) = "'" THEN <<string[1]>> \o SplitTokens(string[2])
       ELSE IF Head(s) = "$" THEN SplitTokens(Tail(s))
       ELSE <<<<Head(s)>>>> \o SplitTokens(Tail(s))

\* extract_tokens: for each keyword of the class what it was given.
RECURSIVE ExtractTokens(_, _, _)
ExtractTokens(said, l, keywords) ==
    LET key == l[1][1]
        rest == Tail(l)
        values == Before(Tail(rest), <<")">>)
    IN IF l = <<>> THEN said
       ELSE IF \A k \in keywords : l[1] # <<k>> THEN ExtractTokens(said, Tail(l), keywords)
       ELSE IF \E k \in keywords : rest[1] = <<k>>
            THEN ExtractTokens((key :> <<>>) @@ said, rest, keywords)
       ELSE IF rest[1] = <<"(">>
            THEN ExtractTokens((key :> values) @@ said, After(Tail(rest), <<")">>), keywords)
       ELSE ExtractTokens((key :> <<rest[1]>>) @@ said, Tail(rest), keywords)

\* _set_attrs: strings and words as they are written above; a flag at the end of
\* the definition is given the closing parenthesis, and is one all the same.
ReadTokenised(class, text) ==
    LET l == SplitTokens(text)
        said == ExtractTokens(<<>>, l, {TokenisedOrder[class][i] : i \in DOMAIN TokenisedOrder[class]})
        value(k) == CASE k = "NAME" -> said[k]
                      [] k = "DESC" -> said[k][1]
                      [] k = "OBSOLETE" -> TRUE
                      [] k \in Many -> [i \in DOMAIN said[k] |-> said[k][i][1]]
                      [] OTHER -> said[k][1][1]
    IN [oid |-> l[2][1], fields |-> [k \in DOMAIN said |-> value(k)]]

-----------------------------------------------------------------------------
\* A definition that is written is read back: every field, whichever others there
\* are before it, and every extension.
DescriptionComesBack(table, d) ==
    LET r == Parse(table, ToWire(table, d))
    IN r.ok /\ r.oid = d.oid /\ r.fields = d.fields /\ r.x = d.x

\* What is written of a definition: all of it but an empty description.
Kept(fields) ==
    [k \in {k \in DOMAIN fields : k = "DESC" => fields[k] # <<>>} |-> fields[k]]

TokenisedComesBack(class, m) ==
    ReadTokenised(class, ModelText(TokenisedOrder[class], m.oid, m.fields, <<>>))
      = [m EXCEPT !.fields = Kept(@)]

\* "Each element as the definition it would be published as" (subentry.py,
\* ldap_entry): a client can read the definition it has written.
ModelComesBack(class, m) ==
    ReadModel(class, ModelText(ModelOrder[class], m.oid, m.fields, m.origin))
      = [m EXCEPT !.fields = Kept(@)]

\* It can read those that are not obsolete, or are of no other type or class.
ModelComesBackUnlessObsolete(class, m) ==
    ~("OBSOLETE" \in DOMAIN m.fields /\ "SUP" \in DOMAIN m.fields) => ModelComesBack(class, m)
=============================================================================
