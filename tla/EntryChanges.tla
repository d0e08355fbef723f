---------------------------- MODULE EntryChanges ----------------------------
(***************************************************************************)
(* Entries and their modifications: entry.py and delta.py.                 *)
(*                                                                         *)
(* An entry is a function from its attribute types, as they were spelled   *)
(* when they were stored, to their sets of values. A type is spelled in    *)
(* either case, and as str or as bytes: what is looked up is found in both *)
(* kinds, what is stored or deleted as a whole only in its own. Values are *)
(* told apart by what they say, whichever kind they are.                   *)
(***************************************************************************)
EXTENDS Naturals, Sequences, SequencesExt

CONSTANTS
    Fold(_),  \* the lower case of an attribute type
    Text(_),  \* it as str
    Bytes(_)  \* it as bytes

\* An exception, in the place of an entry or a tree.
Raised == [k \in {"raised"} |-> {}]

-----------------------------------------------------------------------------
(* Entries: InsensitiveDict.                                               *)

Own(entry, key) == {k \in DOMAIN entry : Fold(k) = Fold(key)}

\* get_strings: its own kind is looked for before the other.
Other(key) == IF key = Bytes(key) THEN Text(key) ELSE Bytes(key)
Spellings(entry, key) == IF Own(entry, key) # {} THEN Own(entry, key) ELSE Own(entry, Other(key))
Has(entry, key) == Spellings(entry, key) # {}
Spelling(entry, key) == CHOOSE k \in Spellings(entry, key) : TRUE

Removed(entry, key) == [k \in {k \in DOMAIN entry : Fold(k) # Fold(key)} |-> entry[k]]
Stored(entry, key, values) ==
    [k \in DOMAIN Removed(entry, key) \cup {key} |-> IF k = key THEN values ELSE entry[k]]

-----------------------------------------------------------------------------
(* Modifications: <<class, key, values>>.                                  *)

Add(entry, key, values) ==
    IF Has(entry, key) THEN [entry EXCEPT ![Spelling(entry, key)] = @ \cup values]
    ELSE Stored(entry, key, values)

Delete(entry, key, values) ==
    IF values = {} THEN IF Own(entry, key) = {} THEN Raised ELSE Removed(entry, key)
    ELSE IF ~Has(entry, key) THEN Raised
    ELSE IF values \subseteq entry[Spelling(entry, key)]
         THEN [entry EXCEPT ![Spelling(entry, key)] = @ \ values]
    ELSE Raised

Replace(entry, key, values) ==
    IF values = {} THEN Removed(entry, key) ELSE Stored(entry, key, values)

Modified(entry, m) ==
    IF entry = Raised THEN Raised
    ELSE CASE m[1] = "Add" -> Add(entry, m[2], m[3])
           [] m[1] = "Delete" -> Delete(entry, m[2], m[3])
           [] m[1] = "Replace" -> Replace(entry, m[2], m[3])

\* ModifyOp.patch, of the entry.
Patched(entry, mods) == FoldLeft(Modified, entry, mods)
=============================================================================
