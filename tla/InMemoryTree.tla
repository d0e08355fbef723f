---------------------------- MODULE InMemoryTree ----------------------------
(***************************************************************************)
(* inmemory.py, ReadOnlyInMemoryLDAPEntry, behind the request handlers of  *)
(* protocols/ldap/ldapserver.py, LDAPServer: one tree of linked entries    *)
(* that every connection of the server shares.                             *)
(*                                                                         *)
(* A handler that changes the tree never waits, so it is one step.  A      *)
(* search waits for each entry it sends to be written, and the tree may    *)
(* change beneath it.  A request that is refused changes nothing, unless   *)
(* it fails half way, and only those failures are steps.                   *)
(***************************************************************************)
EXTENDS Naturals, Sequences, FiniteSets

CONSTANTS
    RDNs,        \* relative names
    Off,         \* a relative name that is none of theirs
    MaxDepth,    \* bound: RDNs in a name
    Pool,        \* the entries there can be besides the suffix
    Root,        \* the entry of the suffix
    None,        \* no entry
    Searches,    \* searches that are run
    Scopes,      \* scopes they ask for: "base", "one" and "sub"
    MaxChanges,  \* bound: deletes, moves and modifies
    Cares        \* what clients take care of: that an entry has the "value" of its
                 \* name, that what they move is a "leaf", that the new name is "free",
                 \* that the entry has an attribute of the "type" of its new name, and
                 \* that the "suffix" is not moved

Entries == Pool \cup {Root}
DNs == UNION {[1..n -> RDNs] : n \in 0..MaxDepth}
Elsewhere == <<Off>>    \* a name outside the suffix

ASSUME EntriesAssumption == Root \notin Pool /\ None \notin Entries /\ Off \notin RDNs

ASSUME ChoicesAssumption ==
    /\ MaxDepth \in Nat /\ MaxChanges \in Nat
    /\ Cares \subseteq {"value", "leaf", "free", "type", "suffix"}
    /\ Scopes \subseteq {"base", "one", "sub"}

VARIABLES
    dn,        \* self.dn, less the suffix
    parent,    \* self._parent
    children,  \* self._children: entries by RDN
    values,    \* self._attributes: the RDNs the entry has the value for; the
               \* suffix's own RDN is none of RDNs
    made,      \* entries that have been made
    changes,   \* how much of MaxChanges is used
    phase,     \* where each search is
    scope,     \* its scope
    last,      \* the entry it waits to have written
    todo,      \* the lists of children it has yet to pop entries from
    base,      \* of a one-level search: the entry, how many children it had,
               \* whether they are still the same, those handed out
    sent,      \* how often it has sent each name
    stay       \* names in its scope that have been there ever since it began

treeVars == <<dn, parent, children, values, made, changes>>
searchVars == <<phase, scope, last, todo, sent>>
vars == <<treeVars, searchVars, base, stay>>

Init ==
    /\ dn = [o \in Entries |-> <<>>]
    /\ parent = [o \in Entries |-> None]
    /\ children = [o \in Entries |-> <<>>]
    /\ values = [o \in Entries |-> {}]
    /\ made = {Root} /\ changes = 0
    /\ phase = [s \in Searches |-> "idle"]
    /\ scope = [s \in Searches |-> "none"]
    /\ last = [s \in Searches |-> None]
    /\ todo = [s \in Searches |-> <<>>]
    /\ base = [s \in Searches |-> [entry |-> Root, size |-> 0, same |-> TRUE, handed |-> {}]]
    /\ sent = [s \in Searches |-> [d \in DNs |-> 0]]
    /\ stay = [s \in Searches |-> {}]

-----------------------------------------------------------------------------
(* Finding an entry.                                                       *)

\* DistinguishedName.contains: d is e, or above it.
Contains(d, e) ==
    /\ Len(d) <= Len(e)
    /\ SubSeq(e, Len(e) - Len(d) + 1, Len(e)) = d

Kids(o) == {children[o][r] : r \in DOMAIN children[o]}

\* lookup descends into the child that contains the name, and does not look
\* at another once it has.
Lookup(d) ==
    LET step[k \in 0..MaxDepth + 1] ==
          IF k = 0 THEN IF Contains(dn[Root], d) THEN Root ELSE None
          ELSE LET o == step[k - 1]
                   next == {c \in Kids(o) : Contains(dn[c], d)}
               IN IF o = None \/ dn[o] = d THEN o
                  ELSE IF next = {} THEN None
                  ELSE CHOOSE c \in next : TRUE
    IN step[MaxDepth + 1]

\* The names under which lookup finds an entry.
Found == {d \in {dn[o] : o \in made} : Lookup(d) # None}

Leaf(o) == DOMAIN children[o] = {}

\* What a change of the tree means to the searches under way.
Noticed ==
    /\ stay' = [s \in Searches |-> stay[s] \cap Found']
    /\ base' = [s \in Searches |->
                 LET o == base[s].entry
                 IN IF phase[s] = "walking"
                    THEN [base[s] EXCEPT !.same = @ /\ children'[o] = children[o]]
                    ELSE base[s]]

-----------------------------------------------------------------------------
(* The handlers that change the tree.                                      *)

With(kids, r, o) == [q \in DOMAIN kids \cup {r} |-> IF q = r THEN o ELSE kids[q]]
Without(kids, r) == [q \in DOMAIN kids \ {r} |-> kids[q]]

AddChild(p, o, d, held) ==
    /\ dn' = [dn EXCEPT ![o] = d]
    /\ values' = [values EXCEPT ![o] = held]
    /\ children' = [children EXCEPT ![p] = With(@, Head(d), o)]
    /\ parent' = [parent EXCEPT ![o] = p]

\* Nothing but care makes an entry hold the value its name is made of.
HandleAdd(d, held) ==
    /\ d # <<>> /\ ("value" \in Cares => held = {Head(d)})
    /\ Lookup(Tail(d)) # None
    /\ Head(d) \notin DOMAIN children[Lookup(Tail(d))]
    /\ Pool \ made # {}
    /\ LET o == CHOOSE o \in Pool : o \notin made
       IN /\ AddChild(Lookup(Tail(d)), o, d, held)
          /\ made' = made \cup {o}
    /\ UNCHANGED <<changes, searchVars>>
    /\ Noticed

\* Mutant of Deletable: an entry goes with all that is below it.
DeletableWhole(o) == o # None /\ parent[o] # None

Deletable(o) == o # None /\ parent[o] # None /\ Leaf(o)

HandleDelete(d) ==
    LET o == Lookup(d)
    IN /\ changes < MaxChanges /\ changes' = changes + 1
       /\ Deletable(o) /\ Head(dn[o]) \in DOMAIN children[parent[o]]
       /\ children' = [children EXCEPT ![parent[o]] = Without(@, Head(dn[o]))]
       /\ UNCHANGED <<dn, parent, values, made, searchVars>>
       /\ Noticed

\* The value an entry has for its name, if it is one of RDNs.
OwnValue(d) == IF d \in {<<>>, Elsewhere} THEN {} ELSE {Head(d)}

\* _move2 links the entry in its new place first; the suffix has none.
Relink(o, p, new) ==
    IF p = None THEN UNCHANGED <<children, parent>>
    ELSE /\ children' = [[children EXCEPT ![parent[o]] = Without(@, Head(dn[o]))]
                         EXCEPT ![p] = With(@, Head(new), o)]
         /\ parent' = [parent EXCEPT ![o] = p]

\* Mutant of Rename: the entry keeps its name.
RenameValuesOnly(o, new, named, typed) ==
    /\ values' = [values EXCEPT ![o] = (@ \ OwnValue(dn[o])) \cup OwnValue(new)]
    /\ UNCHANGED dn

\* Then it renames it, and a KeyError may stop it on the way: without the value
\* of the old name nothing comes of that, and without any attribute of the new
\* name's type nothing but the loss of the old value.  The names of entries
\* below it are not touched.
Rename(o, new, named, typed) ==
    /\ values' = IF named
                 THEN [values EXCEPT ![o] = (@ \ OwnValue(dn[o]))
                                              \cup IF typed THEN OwnValue(new) ELSE {}]
                 ELSE values
    /\ dn' = IF named /\ typed THEN [dn EXCEPT ![o] = new] ELSE dn

\* What is not known of the attributes of an entry: whether the suffix has the
\* value of its own name, and whether there are other values of a type.
Move2(o, p, new) ==
    /\ Relink(o, p, new)
    /\ \E named, typed \in BOOLEAN :
         /\ OwnValue(dn[o]) # {} => (named <=> OwnValue(dn[o]) \subseteq values[o])
         /\ OwnValue(new) \cap (values[o] \cup OwnValue(dn[o])) # {} => typed
         /\ "type" \in Cares => typed
         /\ Rename(o, new, named, typed)

MayMove(o, new) ==
    /\ "leaf" \in Cares => Leaf(o)
    /\ "free" \in Cares /\ new # Elsewhere => Lookup(new) = None /\ ~Contains(dn[o], new)
    /\ "suffix" \in Cares => parent[o] # None

\* Only the suffix, for which no entry above it is looked up, can get a name
\* that is not below it.
HandleModifyDN(d, new) ==
    LET o == Lookup(d)
        p == IF parent[o] = None \/ Tail(new) = Tail(d) THEN parent[o] ELSE Lookup(Tail(new))
    IN /\ changes < MaxChanges /\ changes' = changes + 1
       /\ o # None
       /\ parent[o] # None =>
            /\ new \notin {<<>>, Elsewhere} /\ p # None
            /\ Head(dn[o]) \in DOMAIN children[parent[o]]
       /\ MayMove(o, new)
       /\ Move2(o, p, new)
       /\ UNCHANGED <<made, searchVars>>
       /\ Noticed

\* ModifyOp.patch, on the entry itself: what was changed before a change that
\* fails stays changed, so any of the values may come of it.
HandleModify(d, held) ==
    /\ changes < MaxChanges /\ changes' = changes + 1
    /\ Lookup(d) # None
    /\ "value" \in Cares /\ d # <<>> => Head(d) \in held
    /\ values' = [values EXCEPT ![Lookup(d)] = held]
    /\ UNCHANGED <<dn, parent, children, made, searchVars, base, stay>>

-----------------------------------------------------------------------------
(* Searching: search, subtree and children with a callback.                *)

InScope(d, how) ==
    CASE how = "base" -> {d}
      [] how = "one" -> {e \in Found : e # <<>> /\ Tail(e) = d}
      [] how = "sub" -> {e \in Found : Contains(d, e)}

\* _sendEntryToClient, up to its await.
SendEntry(s, o) ==
    /\ last' = [last EXCEPT ![s] = o]
    /\ sent' = [sent EXCEPT ![s][dn[o]] = @ + 1]
    /\ phase' = [phase EXCEPT ![s] = "walking"]

End(s, how) ==
    /\ phase' = [phase EXCEPT ![s] = how]
    /\ last' = [last EXCEPT ![s] = None]
    /\ UNCHANGED sent

HandleSearch(s, d, how) ==
    LET o == Lookup(d)
    IN /\ phase[s] = "idle" /\ o # None
       /\ scope' = [scope EXCEPT ![s] = how]
       /\ stay' = [stay EXCEPT ![s] = InScope(d, how)]
       /\ base' = [base EXCEPT ![s] = [entry |-> o, size |-> Cardinality(Kids(o)),
                                           same |-> TRUE, handed |-> {}]]
       /\ todo' = todo
       /\ IF how # "one" THEN SendEntry(s, o)
          ELSE IF Leaf(o) THEN End(s, "done")
          ELSE \E c \in Kids(o) : SendEntry(s, c)
       /\ UNCHANGED treeVars

\* Mutant of Lists: a list is dropped for the children of the entry popped
\* from it.
ListsForgotten(s) == <<Kids(last[s])>>

\* The lists subtree has yet to pop entries from, once the entry is written.
Lists(s) == Append(todo[s], Kids(last[s]))

\* What is left of a list that was not empty is popped from first.
SearchedOn(s) ==
    LET lists == Lists(s)
        full == {n \in DOMAIN lists : scope[s] = "sub" /\ lists[n] # {}}
    IN /\ phase[s] = "walking" /\ scope[s] # "one"
       /\ \/ full = {} /\ End(s, "done") /\ todo' = [todo EXCEPT ![s] = <<>>]
          \/ \E n \in full : \E c \in lists[n] :
               /\ \A m \in full : m <= n
               /\ SendEntry(s, c)
               /\ todo' = [todo EXCEPT ![s] = [SubSeq(lists, 1, n) EXCEPT ![n] = @ \ {c}]]
       /\ UNCHANGED <<treeVars, scope, base, stay>>

\* children goes on through the dictionary itself.  If that has grown or
\* shrunk, a RuntimeError ends the search; if it has changed otherwise, that
\* may happen, or any entry not handed out may be next, or none.
SearchedOneLevel(s) ==
    LET handed == base[s].handed \cup {last[s]}
        rest == Kids(base[s].entry) \ handed
        sameSize == Cardinality(Kids(base[s].entry)) = base[s].size
    IN /\ phase[s] = "walking" /\ scope[s] = "one"
       /\ base' = [base EXCEPT ![s].handed = handed]
       /\ \/ ~base[s].same /\ End(s, "failed")
          \/ sameSize /\ \E c \in rest : SendEntry(s, c)
          \/ sameSize /\ (rest = {} \/ ~base[s].same) /\ End(s, "done")
       /\ UNCHANGED <<treeVars, scope, todo, stay>>

-----------------------------------------------------------------------------
Next ==
    \/ \E d \in DNs, held \in SUBSET RDNs : HandleAdd(d, held) \/ HandleModify(d, held)
    \/ \E d \in DNs : HandleDelete(d)
    \/ \E d \in DNs, new \in DNs \cup {Elsewhere} : HandleModifyDN(d, new)
    \/ \E s \in Searches, d \in DNs, how \in Scopes : HandleSearch(s, d, how)
    \/ \E s \in Searches : SearchedOn(s) \/ SearchedOneLevel(s)

Spec == Init /\ [][Next]_vars

-----------------------------------------------------------------------------
\* The types of the state, which LinkedIsFound has with it.
TypeOK ==
    /\ dn \in [Entries -> DNs \cup {Elsewhere}]
    /\ parent \in [Entries -> Entries \cup {None}]
    /\ \A o \in Entries : parent[o] = None <=> o \notin made \ {Root}
    /\ \A o \in Entries : /\ DOMAIN children[o] \subseteq RDNs
                          /\ Kids(o) \subseteq made \ {Root}
    /\ values \in [Entries -> SUBSET RDNs]
    /\ made \subseteq Entries /\ changes \in 0..MaxChanges
    /\ phase \in [Searches -> {"idle", "walking", "done", "failed"}]
    /\ scope \in [Searches -> Scopes \cup {"none"}]
    /\ last \in [Searches -> Entries \cup {None}]
    /\ \A s \in Searches : todo[s] \in Seq(SUBSET Pool)
    /\ sent \in [Searches -> [DNs -> Nat]]
    /\ stay \in [Searches -> SUBSET DNs]

\* An entry linked into the tree is found under its own name, is linked there
\* once, and knows its parent.
LinkedIsFound ==
    /\ TypeOK
    /\ \A o \in Entries : \A r \in DOMAIN children[o] :
           LET c == children[o][r]
           IN Lookup(dn[o]) = o =>
                /\ Lookup(dn[c]) = c /\ Head(dn[c]) = r
                /\ parent[c] = o

\* The tree as lookup finds it is a directory.
Content == [d \in Found |-> values[Lookup(d)]]
Abstract == INSTANCE Directory WITH content <- Content
ImplementsDirectory == Abstract!Spec

\* A search that ends well has sent every entry of its scope that was there
\* from its beginning to its end, and sent it once; a one-level search, if
\* the children it went through have not changed beneath it.
SearchFindsWhatStays ==
    \A s \in Searches :
        phase[s] = "done" /\ (scope[s] = "one" => base[s].same)
            => \A d \in stay[s] : sent[s][d] = 1

\* "It is awaited, so a walk can be written out as it goes rather than
\* collected first" (entryhelpers.py): a walk is not brought down by what
\* other requests do to the tree while it is written out.
WalksComeThrough == \A s \in Searches : phase[s] # "failed"
=============================================================================
