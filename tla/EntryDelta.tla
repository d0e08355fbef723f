----------------------------- MODULE EntryDelta -----------------------------
(***************************************************************************)
(* The changes that turn one entry into another, and the changes that turn *)
(* one tree into another: entry.py, delta.py, attributeset.py,             *)
(* entryhelpers.py (DiffTreeMixin) and ldap/modlist.py.                    *)
(*                                                                         *)
(* A tree is a function from paths below its root to entries.              *)
(***************************************************************************)
EXTENDS EntryChanges, TLC

CONSTANT Order(_, _)  \* the order of attribute types, and of RDNs

InOrder(S) == SetToSortSeq(S, Order)

\* asLDAP and fromLDAP: an operation is its number, an attribute, its values; what
\* comes off the wire is bytes.
LDAP_OP == [Add |-> 0, Delete |-> 1, Replace |-> 2]
AsLDAP(mods) == [i \in DOMAIN mods |-> <<LDAP_OP[mods[i][1]], mods[i][2], mods[i][3]>>]
FromLDAP(wire) ==
    [i \in DOMAIN wire |->
       <<CHOOSE c \in DOMAIN LDAP_OP : LDAP_OP[c] = wire[i][1], Bytes(wire[i][2]), wire[i][3]>>]

-----------------------------------------------------------------------------
\* BaseLDAPEntry.diff; what is added comes before what is deleted, and types are
\* told apart as they are spelled.
Diff(mine, other) ==
    LET all(class, e, keys) == [i \in DOMAIN InOrder(keys) |->
                                  <<class, InOrder(keys)[i], e[InOrder(keys)[i]]>>]
        shared == InOrder(DOMAIN mine \cap DOMAIN other)
        change(class, key, values) == IF values = {} THEN <<>> ELSE <<<<class, key, values>>>>
    IN all("Add", other, DOMAIN other \ DOMAIN mine)
       \o all("Delete", mine, DOMAIN mine \ DOMAIN other)
       \o FlattenSeq([i \in DOMAIN shared |->
            change("Add", shared[i], other[shared[i]] \ mine[shared[i]])
            \o change("Delete", shared[i], mine[shared[i]] \ other[shared[i]])])

\* modifyModlist: an attribute whose values changed is deleted and added again.
ModifyModlist(old, new) ==
    LET keys == InOrder(DOMAIN new)
        before(key) == IF Has(old, key) THEN old[Spelling(old, key)] ELSE {}
        change(key) ==
          IF before(key) = new[key] THEN <<>>
          ELSE (IF before(key) # {} THEN <<<<"Delete", key, {}>>>> ELSE <<>>)
               \o (IF new[key] # {} THEN <<<<"Add", key, new[key]>>>> ELSE <<>>)
        gone == InOrder({k \in DOMAIN old : ~Has(new, k)})
    IN FlattenSeq([i \in DOMAIN keys |-> change(keys[i])])
       \o [i \in DOMAIN gone |-> <<"Delete", gone[i], {}>>]

-----------------------------------------------------------------------------
(* Trees: changes are <<"modify", path, mods>>, <<"add", path, entry>> and *)
(* <<"delete", path>>.                                                     *)

Kids(tree, path) == {p[Len(path) + 1] : p \in {p \in DOMAIN tree :
                        Len(p) = Len(path) + 1 /\ SubSeq(p, 1, Len(path)) = path}}

\* subtree: an entry comes before those below it.
RECURSIVE Subtree(_, _)
Subtree(tree, path) ==
    LET kids == InOrder(Kids(tree, path))
    IN <<path>> \o FlattenSeq([i \in DOMAIN kids |->
                     Subtree(tree, Append(path, kids[Len(kids) + 1 - i]))])

Below(tree, path, rdns) ==
    FlattenSeq([i \in DOMAIN InOrder(rdns) |-> Subtree(tree, Append(path, InOrder(rdns)[i]))])

\* Mutant of Deletions: an entry is deleted before those below it.
DeletionsTopDown(tree, path, rdns) ==
    LET paths == Below(tree, path, rdns) IN [i \in DOMAIN paths |-> <<"delete", paths[i]>>]

Additions(tree, path, rdns) ==
    LET paths == Below(tree, path, rdns)
    IN [i \in DOMAIN paths |-> <<"add", paths[i], tree[paths[i]]>>]
Deletions(tree, path, rdns) ==
    LET each == [i \in DOMAIN InOrder(rdns) |-> Reverse(Subtree(tree, Append(path, InOrder(rdns)[i])))]
        paths == FlattenSeq(each)
    IN [i \in DOMAIN paths |-> <<"delete", paths[i]>>]

RECURSIVE DiffTree(_, _, _)
DiffTree(mine, other, path) ==
    LET my == Kids(mine, path)
        his == Kids(other, path)
        common == InOrder(my \cap his)
    IN (IF mine[path] = other[path] THEN <<>>
        ELSE <<<<"modify", path, Diff(mine[path], other[path])>>>>)
       \o FlattenSeq([i \in DOMAIN common |-> DiffTree(mine, other, Append(path, common[i]))])
       \o Additions(other, path, his \ my)
       \o Deletions(mine, path, my \ his)

\* Operation.patch, of a tree in memory; NoTree is what an exception leaves.
NoTree == [p \in {} |-> Raised]

PatchedTree(tree, op) ==
    LET path == op[2]
        there == path \in DOMAIN tree
    IN CASE op[1] = "modify" ->
              IF ~there THEN NoTree
              ELSE IF Patched(tree[path], op[3]) = Raised THEN NoTree
              ELSE [tree EXCEPT ![path] = Patched(@, op[3])]
         [] op[1] = "add" ->
              IF there \/ Front(path) \notin DOMAIN tree THEN NoTree
              ELSE (path :> op[3]) @@ tree
         [] op[1] = "delete" ->
              IF ~there \/ Kids(tree, path) # {} THEN NoTree
              ELSE [p \in DOMAIN tree \ {path} |-> tree[p]]

-----------------------------------------------------------------------------
\* The values an entry has, whatever the spelling of its types; an attribute
\* without values counts for none.
ValuesOf(entry) == UNION {{<<Fold(Bytes(k)), v>> : v \in entry[k]} : k \in DOMAIN entry}

\* The modifications are made, and leave the values the other entry has.
Makes(entry, mods, other) ==
    Patched(entry, mods) # Raised /\ ValuesOf(Patched(entry, mods)) = ValuesOf(other)

AllBytes(entry) == \A k \in DOMAIN entry : k = Bytes(k)

\* "None if equal, otherwise a ModifyOp that would make this entry look like
\* other" (entry.py, diff).
DiffMakesOther(mine, other) == Patched(mine, Diff(mine, other)) = other

\* Where both spell their types the same, the entry has the other's values then;
\* also when the changes have gone over the wire, to an entry whose types are bytes,
\* as those of an entry read from the wire or from a file are.
DiffMakesValues(mine, other) ==
    (\A k \in DOMAIN mine, m \in DOMAIN other : Fold(Bytes(k)) = Fold(Bytes(m)) => k = m) =>
        LET mods == Diff(mine, other)
        IN /\ Makes(mine, mods, other)
           /\ AllBytes(mine) => Makes(mine, FromLDAP(AsLDAP(mods)), other)

\* The modlist between two entries makes one of the other, in whatever case they
\* spell their types, and is refused by no server that has the old entry.
ModlistMakesValues(old, new) ==
    (AllBytes(old) /\ AllBytes(new)) => Makes(old, ModifyModlist(old, new), new)

\* The changes between two trees can be made one after the other, none of them is
\* refused, and they make the other tree.
TreeDiffMakesOther(mine, other) ==
    LET made == FoldLeft(PatchedTree, mine, DiffTree(mine, other, <<>>))
    IN /\ DOMAIN made = DOMAIN other
       /\ \A p \in DOMAIN other : ValuesOf(made[p]) = ValuesOf(other[p])
=============================================================================
