------------------------------ MODULE Directory ------------------------------
(***************************************************************************)
(* What the tree behind a server promises (interfaces.py, IConnectedLDAP-  *)
(* Entry and IEditableLDAPEntry): entries found by name, each below an     *)
(* entry, added, deleted, moved and modified one at a time.                *)
(*                                                                         *)
(* A name is the sequence of its RDNs, its own first; the suffix the tree  *)
(* serves is the empty name.  Of the attributes of an entry only those are *)
(* kept that RDNs are made of: the set of RDNs it has the value for.       *)
(***************************************************************************)
EXTENDS Naturals, Sequences

CONSTANTS
    RDNs,       \* relative names
    MaxDepth    \* bound: RDNs in a name that is asked for

VARIABLE content    \* of each entry there is, the RDNs it has the value for

DNs == UNION {[1..n -> RDNs] : n \in 0..MaxDepth}

\* DistinguishedName.up.
Up(d) == Tail(d)

\* DistinguishedName.contains: d is e, or above it.
Contains(d, e) ==
    /\ Len(d) <= Len(e)
    /\ SubSeq(e, Len(e) - Len(d) + 1, Len(e)) = d

Init == content = [d \in {<<>>} |-> {}]

(***************************************************************************)
(* What each operation can make of the directory c.                        *)
(***************************************************************************)
Added(c) ==
    {[e \in DOMAIN c \cup {d} |-> IF e = d THEN values ELSE c[e]] :
        d \in {e \in DNs \ DOMAIN c : Up(e) \in DOMAIN c}, values \in SUBSET RDNs}

Leaves(c) == {d \in DOMAIN c \ {<<>>} : \A e \in DOMAIN c \ {d} : ~Contains(d, e)}

Deleted(c) == {[e \in DOMAIN c \ {d} |-> c[e]] : d \in Leaves(c)}

Modified(c) == {[c EXCEPT ![d] = values] : d \in DOMAIN c, values \in SUBSET RDNs}

\* Whatever is below an entry moves with it, however deep that makes it.
MovedTo(c, d, new) ==
    LET Renamed(e) == IF Contains(d, e) THEN SubSeq(e, 1, Len(e) - Len(d)) \o new ELSE e
    IN [f \in {Renamed(e) : e \in DOMAIN c} |->
          IF f = new THEN (c[d] \ {Head(d)}) \cup {Head(new)}
          ELSE c[CHOOSE e \in DOMAIN c : Renamed(e) = f]]

Moved(c) ==
    {MovedTo(c, m[1], m[2]) :
        m \in {m \in (DOMAIN c \ {<<>>}) \X (DNs \ DOMAIN c) :
                 Up(m[2]) \in DOMAIN c /\ ~Contains(m[1], m[2])}}

Next ==
    \/ content' \in Modified(content)
    \/ content' \in Added(content)
    \/ content' \in Deleted(content)
    \/ content' \in Moved(content)

Spec == Init /\ [][Next]_content

-----------------------------------------------------------------------------
\* No entry is without the entry above it.
Closed == \A d \in DOMAIN content : d # <<>> => Up(d) \in DOMAIN content
=============================================================================
