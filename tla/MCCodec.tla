------------------------------ MODULE MCCodec ------------------------------
(***************************************************************************)
(* What is written and read back, on the wire and as text, and what is     *)
(* made of the difference of two entries or trees: every input of MCWire   *)
(* and MCText in a state of its own, and one step that reads it.           *)
(***************************************************************************)
EXTENDS Integers, Sequences

VARIABLES kind, value
vars == <<kind, value>>

Wire == INSTANCE MCWire
Text == INSTANCE MCText

Init == Wire!Init \/ Text!Init
Next == kind # "read" /\ kind' = "read" /\ value' = 0

Spec == Init /\ [][Next]_vars

-----------------------------------------------------------------------------
\* Every number is read as it was written, signed and unsigned, and every length
\* in as few octets as it has (int2ber, ber2int, int2berlen, berDecodeLength). No
\* beginning of an element is taken for the element, however the network cuts its
\* octets up, and none of the octets after it are (berDecodeObject).
ElementsAreFramed ==
    [][ /\ kind = "number" => Wire!BER!NumberComesBack(value)
        /\ kind = "element" => Wire!BER!FramesExactly(value, <<48, 0>>)]_vars

\* A message is read as it was sent: in every operation, with any of its optional
\* fields, the tag of each element stands for the class it was written from
\* (toWire, fromBER and the decoder contexts). Elements a later version adds to a
\* message and its operation disturb nothing.
MessagesComeBack ==
    [][ /\ kind = "message" => Wire!PDU!RoundTrip(value) /\ Wire!PDU!Tolerant(value)
        /\ kind = "passwords" => Wire!PDU!PasswordsComeBack(value[1], value[2], value[3])]_vars

\* A filter is read as it was written: no value becomes a part of its structure.
FiltersComeBack == [][kind = "filter" => Wire!Filter!FilterComesBack(value)]_vars

\* A search misses no value that has the parts of a substring filter in their
\* order, the last of them not an empty end (MatchMixin.match).
SubstringsFindAll == [][kind = "searched" => Wire!Filter!SubstringsFindAll(value[1], value[2])]_vars

\* Every value of every entry is read as it was written, folded or in base64, and
\* every modification in its place (LDIFWriter.unparse and asLDIF, with
\* parse_entry_records and parse_change_records).
RecordsComeBack ==
    [][ /\ kind = "records" => /\ Text!LDIF!EntriesComeBack(value)
                               /\ Text!LDIF!WrittenEntriesAreRead(value)
        /\ kind = "changes" => Text!LDIF!ChangesComeBack(value)]_vars

\* The changes an entry's diff gives make the other entry's values of it, also
\* after they have gone over the wire, if the types of the entry are bytes (diff,
\* asLDAP, fromLDAP, patch); and so
\* does a modlist (modifyModlist). The changes between two trees can be made in
\* their order, and make the other tree (diffTree, patch).
DiffsMakeTheOther ==
    [][ /\ kind = "entries" => /\ Text!Delta!DiffMakesValues(value[1], value[2])
                               /\ Text!Delta!ModlistMakesValues(value[1], value[2])
        /\ kind = "trees" => Text!Delta!TreeDiffMakesOther(value[1], value[2])]_vars

\* A name is read as it was written by the server's reader and by the clients',
\* and contains says that a name is below another exactly where up() leads to it.
\* A URL is read as it was written, and so is who it says is bound (ldapurl.py,
\* unparse and _parse).
\* A definition is read as it was written, with every set of fields, and strings
\* that look like the keywords and the parentheses around them; without a quote,
\* and one of several names, or of an extension's several, without a closing
\* parenthesis (schema.py, toWire and _parse). So is what a client has written of
\* any class or type that is not both obsolete and below another, but for an empty
\* description, which comes back as none (models.py, __str__ and _parse).
TextsComeBack ==
    [][ /\ kind = "name" => Wire!Name!NameComesBack(value)
        /\ kind = "names" => Wire!Name!ContainsIsUp(value[1], value[2])
        /\ kind = "url" => Text!URL!URLComesBack(value) /\ Text!URL!ShorterURLsAreRead(value)
        /\ kind = "who" => Text!URL!WhoComesBack(value[1], value[2])
        /\ kind = "definition" => Text!Schema!DescriptionComesBack(value[1], value[2])
        /\ kind = "tokenised" => Text!Schema!TokenisedComesBack(value[1], value[2])
        /\ kind = "model" => Text!Schema!ModelComesBackUnlessObsolete(value[1], value[2])]_vars

\* "a ModifyOp that would make this entry look like other" (entry.py, diff).
DiffMakesOther == [][kind = "entries" => Text!Delta!DiffMakesOther(value[1], value[2])]_vars

\* "Each element as the definition it would be published as" (subentry.py).
ModelsComeBack == [][kind = "model" => Text!Schema!ModelComesBack(value[1], value[2])]_vars
=============================================================================
