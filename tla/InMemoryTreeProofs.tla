-------------------------- MODULE InMemoryTreeProofs --------------------------
(***************************************************************************)
(* What the tree in memory promises to clients that take care, for any     *)
(* names, entries and searches: what is linked is found by lookup, the     *)
(* tree as lookup finds it is a directory, and in a directory no entry is  *)
(* without the one above it.                                               *)
(***************************************************************************)
EXTENDS InMemoryTree, SequenceTheorems, WellFoundedInduction, TLAPS

\* The entries that are linked: the suffix, and the children of entries.
InTree == {Root} \cup UNION {Kids(o) : o \in Entries}

TreeTypes ==
    /\ dn \in [Entries -> DNs]
    /\ parent \in [Entries -> Entries \cup {None}]
    /\ DOMAIN children = Entries
    /\ \A o \in Entries : DOMAIN children[o] \subseteq RDNs
    /\ values \in [Entries -> SUBSET RDNs]
    /\ made \subseteq Entries /\ Root \in made
    /\ \A o \in Entries : parent[o] = None <=> o \notin made \ {Root}
    /\ dn[Root] = <<>>

\* c is the child that p has under r.
Link(p, r, c) ==
    /\ p \in InTree /\ c \in made \ {Root} /\ parent[c] = p
    /\ dn[c] # <<>> /\ Head(dn[c]) = r /\ Tail(dn[c]) = dn[p]
    /\ r \in values[c]

LinksInv == \A p \in Entries : \A r \in DOMAIN children[p] : Link(p, r, children[p][r])

\* No two linked entries have the same name, and with a name there are those above it.
OneName == \A o, p \in InTree : dn[o] = dn[p] => o = p
AboveInv ==
    \A o \in InTree : \A e \in Seq(RDNs) : Contains(e, dn[o]) => \E p \in InTree : dn[p] = e

TreeInv == TreeTypes /\ LinksInv /\ OneName /\ AboveInv

\* Lookup finds what is linked, and nothing else.
LookupInv ==
    /\ \A o \in InTree : Lookup(dn[o]) = o
    /\ \A d \in DNs : Lookup(d) # None => Lookup(d) \in InTree /\ dn[Lookup(d)] = d

\* The state of the searches, as far as TypeOK tells it.
SearchInv ==
    /\ changes \in 0..MaxChanges
    /\ phase \in [Searches -> {"idle", "walking", "done", "failed"}]
    /\ scope \in [Searches -> Scopes \cup {"none"}]
    /\ last \in [Searches -> Entries \cup {None}]
    /\ \A s \in Searches : phase[s] = "walking" => last[s] \in Entries
    /\ DOMAIN base = Searches
    /\ \A s \in Searches : /\ DOMAIN base[s] = {"entry", "size", "same", "handed"}
                           /\ base[s].entry \in Entries /\ base[s].same \in BOOLEAN
    /\ DOMAIN todo = Searches
    /\ \A s \in Searches : todo[s] \in Seq(SUBSET Pool)
    /\ sent \in [Searches -> [DNs -> Nat]]
    /\ stay \in [Searches -> SUBSET DNs]

-----------------------------------------------------------------------------
(* Names.                                                                  *)

LEMMA NameFacts ==
    /\ DNs \subseteq Seq(RDNs) /\ <<>> \in DNs /\ <<>> \in Seq(RDNs)
    /\ \A d \in DNs : Len(d) \in 0..MaxDepth
    /\ \A d \in DNs : d # <<>> => Head(d) \in RDNs /\ Tail(d) \in DNs
<1>1. MaxDepth \in Nat
  BY ChoicesAssumption
<1>2. DNs \subseteq Seq(RDNs) /\ \A d \in DNs : Len(d) \in 0..MaxDepth
  BY <1>1 DEF DNs
<1>3. <<>> \in DNs /\ <<>> \in Seq(RDNs)
  <2>1. <<>> \in [1..0 -> RDNs] /\ 0 \in 0..MaxDepth
    BY <1>1
  <2> QED
    BY <2>1, <1>2 DEF DNs
<1>4. ASSUME NEW d \in DNs, d # <<>> PROVE Head(d) \in RDNs /\ Tail(d) \in DNs
  <2>1. d \in Seq(RDNs) /\ Len(d) \in 0..MaxDepth
    BY <1>2
  <2>2. /\ Head(d) \in RDNs /\ Tail(d) \in Seq(RDNs) /\ Len(Tail(d)) = Len(d) - 1 /\ Len(d) > 0
    BY <1>4, <2>1, HeadTailProperties, EmptySeq
  <2>3. PICK e : e = Tail(d)
    OBVIOUS
  <2>4. e \in [1..Len(e) -> RDNs] /\ Len(e) \in 0..MaxDepth
    <3>1. e \in Seq(RDNs) /\ Len(e) = Len(d) - 1
      BY <2>2, <2>3
    <3>2. e \in [1..Len(e) -> RDNs]
      BY <3>1, LenProperties
    <3>3. Len(d) - 1 \in 0..MaxDepth
      BY <1>1, <2>1, <2>2
    <3> QED
      BY <3>1, <3>2, <3>3
  <2> QED
    BY <2>2, <2>3, <2>4 DEF DNs
<1> QED
  BY <1>2, <1>3, <1>4

\* The name above another.
LEMMA UpIsName ==
  ASSUME NEW e \in Seq(RDNs), e # <<>>
  PROVE  /\ Tail(e) \in Seq(RDNs) /\ Len(Tail(e)) = Len(e) - 1 /\ Len(e) > 0
         /\ \A i \in 1..Len(e) - 1 : Tail(e)[i] = e[i + 1]
  BY HeadTailProperties, EmptySeq

\* Containment, place by place, counted from the right.
LEMMA ContainsByPlace ==
  ASSUME NEW d \in Seq(RDNs), NEW e \in Seq(RDNs)
  PROVE  Contains(d, e) <=>
           /\ Len(d) <= Len(e)
           /\ \A i \in 1..Len(d) : d[i] = e[Len(e) - Len(d) + i]
<1>1. CASE Len(d) <= Len(e)
  <2> DEFINE s == SubSeq(e, Len(e) - Len(d) + 1, Len(e))
  <2>1. s \in Seq(RDNs) /\ Len(s) = Len(d)
        /\ \A i \in 1..Len(d) : s[i] = e[Len(e) - Len(d) + i]
    BY <1>1, SubSeqProperties, LenProperties
  <2>2. s = d <=> \A i \in 1..Len(d) : d[i] = s[i]
    BY <2>1, SeqEqual
  <2> QED
    BY <1>1, <2>1, <2>2 DEF Contains
<1>2. CASE ~(Len(d) <= Len(e))
  BY <1>2 DEF Contains
<1> QED
  BY <1>1, <1>2

\* The name above an entry contains it.
LEMMA UpContains ==
  ASSUME NEW e \in Seq(RDNs), e # <<>>
  PROVE  Contains(Tail(e), e)
<1>1. Tail(e) \in Seq(RDNs) /\ Len(Tail(e)) = Len(e) - 1 /\ Len(e) \in Nat
      /\ \A i \in 1..Len(e) - 1 : Tail(e)[i] = e[i + 1]
  BY UpIsName, LenProperties
<1>2. \A i \in 1..Len(Tail(e)) : Tail(e)[i] = e[Len(e) - Len(Tail(e)) + i]
  <2> TAKE i \in 1..Len(Tail(e))
  <2>1. Len(e) - Len(Tail(e)) + i = i + 1
    BY <1>1
  <2> QED
    BY <1>1, <2>1
<1>3. Len(Tail(e)) <= Len(e)
  BY <1>1
<1> QED
  BY <1>1, <1>2, <1>3, ContainsByPlace

\* What contains an entry, and is not the entry, contains the name above it,
\* and what contains that contains the entry.
LEMMA ContainsUp ==
  ASSUME NEW d \in Seq(RDNs), NEW e \in Seq(RDNs), e # <<>>, d # e
  PROVE  Contains(d, e) <=> Contains(d, Tail(e))
<1> DEFINE n == Len(d)
           m == Len(e)
<1>1. /\ n \in Nat /\ m \in Nat /\ m > 0
      /\ Tail(e) \in Seq(RDNs) /\ Len(Tail(e)) = m - 1
      /\ \A i \in 1..m - 1 : Tail(e)[i] = e[i + 1]
  BY UpIsName, LenProperties
<1>2. Contains(d, e) <=> n <= m /\ \A i \in 1..n : d[i] = e[m - n + i]
  BY ContainsByPlace
<1>3. Contains(d, Tail(e)) <=> n <= m - 1 /\ \A i \in 1..n : d[i] = Tail(e)[m - 1 - n + i]
  <2>1. \A t \in Seq(RDNs) : Contains(d, t) <=>
          n <= Len(t) /\ \A i \in 1..n : d[i] = t[Len(t) - n + i]
    BY ContainsByPlace
  <2> HIDE DEF n, m
  <2> DEFINE t == Tail(e)
  <2>2. Contains(d, t) <=> n <= Len(t) /\ \A i \in 1..n : d[i] = t[Len(t) - n + i]
    BY <1>1, <2>1
  <2>3. Len(t) = m - 1
    BY <1>1
  <2> HIDE DEF t
  <2>4. Contains(d, t) <=> n <= m - 1 /\ \A i \in 1..n : d[i] = t[m - 1 - n + i]
    BY <2>2, <2>3
  <2> QED
    BY <2>4 DEF t
<1>4. n <= m - 1 => \A i \in 1..n : Tail(e)[m - 1 - n + i] = e[m - n + i]
  <2> HAVE n <= m - 1
  <2> TAKE i \in 1..n
  <2>1. m - 1 - n + i \in 1..m - 1 /\ m - 1 - n + i + 1 = m - n + i
    BY <1>1
  <2> HIDE DEF n, m
  <2> QED
    BY <1>1, <2>1
<1>5. n = m => ~Contains(d, e)
  <2> SUFFICES ASSUME n = m, Contains(d, e) PROVE FALSE
    OBVIOUS
  <2>1. \A i \in 1..Len(d) : d[i] = e[i]
    BY <1>1, <1>2
  <2> QED
    BY <2>1, SeqEqual
<1> HIDE DEF n, m
<1>6. CASE n <= m - 1
  BY <1>1, <1>2, <1>3, <1>4, <1>6
<1>7. CASE ~(n <= m - 1)
  BY <1>1, <1>2, <1>3, <1>5, <1>7
<1> QED
  BY <1>6, <1>7

\* The name above an entry that is renamed is the one above it, renamed.
LEMMA UpOfRenamed ==
  ASSUME NEW e \in Seq(RDNs), NEW k \in Nat, 0 < k, k <= Len(e), NEW new \in Seq(RDNs)
  PROVE  Tail(SubSeq(e, 1, k) \o new) = SubSeq(Tail(e), 1, k - 1) \o new
<1> DEFINE f == SubSeq(e, 1, k) \o new
           g == SubSeq(Tail(e), 1, k - 1) \o new
<1>0. e # <<>> /\ Len(e) \in Nat
  BY LenProperties
<1>1. SubSeq(e, 1, k) \in Seq(RDNs) /\ Len(SubSeq(e, 1, k)) = k
      /\ \A i \in 1..k : SubSeq(e, 1, k)[i] = e[i]
  BY <1>0, SubSeqProperties
<1>2. f \in Seq(RDNs) /\ Len(f) = k + Len(new) /\ Len(new) \in Nat
      /\ \A i \in 1..k + Len(new) : f[i] = IF i <= k THEN e[i] ELSE new[i - k]
  BY <1>1, ConcatProperties, LenProperties
<1>3. SubSeq(Tail(e), 1, k - 1) \in Seq(RDNs) /\ Len(SubSeq(Tail(e), 1, k - 1)) = k - 1
      /\ \A i \in 1..k - 1 : SubSeq(Tail(e), 1, k - 1)[i] = e[i + 1]
  BY <1>0, UpIsName, SubSeqProperties
<1>4. g \in Seq(RDNs) /\ Len(g) = k - 1 + Len(new)
      /\ \A i \in 1..k - 1 + Len(new) : g[i] = IF i <= k - 1 THEN e[i + 1] ELSE new[i - k + 1]
  BY <1>2, <1>3, ConcatProperties
<1>5. f # <<>>
  BY <1>2
<1>6. Tail(f) \in Seq(RDNs) /\ Len(Tail(f)) = k - 1 + Len(new)
      /\ \A i \in 1..k - 1 + Len(new) : Tail(f)[i] = f[i + 1]
  <2> HIDE DEF f
  <2>1. Tail(f) \in Seq(RDNs) /\ Len(Tail(f)) = Len(f) - 1
        /\ \A i \in 1..Len(f) - 1 : Tail(f)[i] = f[i + 1]
    BY <1>2, <1>5, UpIsName
  <2>2. Len(f) - 1 = k - 1 + Len(new)
    BY <1>2
  <2> QED
    BY <2>1, <2>2
<1> HIDE DEF f, g
<1>7. ASSUME NEW i \in 1..k - 1 + Len(new) PROVE Tail(f)[i] = g[i]
  <2>1. /\ Tail(f)[i] = f[i + 1] /\ g[i] = IF i <= k - 1 THEN e[i + 1] ELSE new[i - k + 1]
        /\ i + 1 \in 1..k + Len(new) /\ (i + 1 <= k <=> i <= k - 1) /\ i + 1 - k = i - k + 1
    BY <1>2, <1>4, <1>6
  <2>2. f[i + 1] = IF i + 1 <= k THEN e[i + 1] ELSE new[i + 1 - k]
    BY <1>2, <2>1
  <2> QED
    BY <2>1, <2>2
<1>8. Tail(f) = g
  BY <1>2, <1>4, <1>6, <1>7, SeqEqual
<1> QED
  BY <1>8 DEF f, g

LEMMA ContainsSelf ==
    ASSUME NEW d \in Seq(RDNs)
    PROVE  Contains(d, d) /\ Contains(<<>>, d) /\ (Contains(d, <<>>) => d = <<>>)
<1>1. Len(d) \in Nat /\ <<>> \in Seq(RDNs) /\ Len(<<>>) = 0 /\ Len(d) - Len(d) = 0
  BY LenProperties, EmptySeq
<1>2. \A i \in 1..Len(d) : Len(d) - Len(d) + i = i
  BY <1>1
<1>3. Contains(d, d)
  BY <1>1, <1>2, ContainsByPlace
<1>4. Contains(<<>>, d)
  <2>1. Len(<<>>) <= Len(d) /\ \A i \in 1..Len(<<>>) : FALSE
    BY <1>1
  <2> QED
    BY <1>1, <2>1, ContainsByPlace
<1>5. Contains(d, <<>>) => d = <<>>
  <2>1. Contains(d, <<>>) => Len(d) <= 0
    BY <1>1 DEF Contains
  <2> QED
    BY <1>1, <2>1, EmptySeq
<1> QED
  BY <1>3, <1>4, <1>5

\* A name above another is followed by one on the way down to it.
LEMMA NextName ==
    ASSUME NEW f \in Seq(RDNs), NEW d \in Seq(RDNs), Contains(f, d), f # d
    PROVE  \E e \in Seq(RDNs) : /\ Contains(e, d) /\ e # <<>> /\ Tail(e) = f
                                /\ Len(e) = Len(f) + 1 /\ Len(e) <= Len(d)
<1>1. PICK n, m : n = Len(f) /\ m = Len(d)
  OBVIOUS
<1>2. n \in Nat /\ m \in Nat /\ n <= m /\ \A i \in 1..n : f[i] = d[m - n + i]
  BY <1>1, ContainsByPlace, LenProperties
<1>3. n # m
  <2> SUFFICES ASSUME n = m PROVE FALSE
    OBVIOUS
  <2>1. \A i \in 1..n : f[i] = d[i]
    BY <1>2
  <2> QED
    BY <1>1, <2>1, SeqEqual
<1>4. PICK e : e = SubSeq(d, m - n, m)
  OBVIOUS
<1>5. e \in Seq(RDNs) /\ Len(e) = n + 1 /\ \A i \in 1..n + 1 : e[i] = d[m - n - 1 + i]
  <2>1. /\ m - n \in Int /\ m \in Int /\ m - n <= m /\ \A i \in m - n..m : d[i] \in RDNs
    <3>1. \A i \in m - n..m : i \in 1..m
      BY <1>2, <1>3
    <3> QED
      BY <1>1, <1>2, <3>1, ElementOfSeq
  <2>2. /\ e \in Seq(RDNs) /\ Len(e) = m - (m - n) + 1
        /\ \A i \in 1..m - (m - n) + 1 : e[i] = d[m - n + i - 1]
    BY <1>4, <2>1, SubSeqProperties
  <2>3. m - (m - n) + 1 = n + 1 /\ \A i \in 1..n + 1 : m - n + i - 1 = m - n - 1 + i
    BY <1>2
  <2> QED
    BY <2>2, <2>3
<1>6. e # <<>>
  BY <1>2, <1>5, EmptySeq
<1>7. /\ Tail(e) \in Seq(RDNs) /\ Len(Tail(e)) = n /\ \A i \in 1..n : Tail(e)[i] = e[i + 1]
  <2>1. /\ Tail(e) \in Seq(RDNs) /\ Len(Tail(e)) = Len(e) - 1
        /\ \A i \in 1..Len(e) - 1 : Tail(e)[i] = e[i + 1]
    BY <1>5, <1>6, HeadTailProperties
  <2>2. Len(e) - 1 = n
    BY <1>2, <1>5
  <2> QED
    BY <2>1, <2>2
<1>8. Tail(e) = f
  <2>1. ASSUME NEW i \in 1..n PROVE Tail(e)[i] = f[i]
    <3>1. i + 1 \in 1..n + 1 /\ m - n - 1 + (i + 1) = m - n + i
      BY <1>2
    <3> QED
      BY <1>2, <1>5, <1>7, <3>1
  <2> QED
    BY <1>1, <1>7, <2>1, SeqEqual
<1>9. Contains(e, d)
  <2>1. ASSUME NEW i \in 1..n + 1 PROVE e[i] = d[m - (n + 1) + i]
    <3>1. m - (n + 1) + i = m - n - 1 + i
      BY <1>2
    <3> QED
      BY <1>5, <3>1
  <2>2. n + 1 <= m
    BY <1>2, <1>3
  <2> QED
    BY <1>1, <1>5, <2>1, <2>2, ContainsByPlace
<1> QED
  BY <1>1, <1>2, <1>3, <1>5, <1>6, <1>8, <1>9

-----------------------------------------------------------------------------
(* Finding an entry.                                                       *)

\* Of natural numbers there is a least.
LEMMA LeastNumber ==
    ASSUME NEW T, T \subseteq Nat, T # {}
    PROVE  \E n \in T : \A m \in T : n <= m
<1>1. PICK R : R = OpToRel(<, Nat)
  OBVIOUS
<1>2. \E x \in T : \A y \in T : ~(<<y, x>> \in R)
  <2>1. IsWellFoundedOn(R, Nat)
    BY <1>1, NatLessThanWellFounded
  <2> QED
    BY <2>1, WFMin
<1>3. R = {pair \in Nat \X Nat : pair[1] < pair[2]}
  BY <1>1 DEF OpToRel
<1>4. ASSUME NEW x \in T, NEW y \in T, ~(<<y, x>> \in R) PROVE x <= y
  <2>1. x \in Nat /\ y \in Nat /\ <<y, x>> \in Nat \X Nat
    OBVIOUS
  <2>2. ~(y < x)
    BY <1>3, <1>4, <2>1
  <2> QED
    BY <2>1, <2>2
<1> QED
  BY <1>2, <1>4

\* Where lookup goes from an entry.
After(o, d) ==
    LET next == {c \in Kids(o) : Contains(dn[c], d)}
    IN IF o = None \/ dn[o] = d THEN o
       ELSE IF next = {} THEN None
       ELSE CHOOSE c \in next : TRUE

Top(d) == IF Contains(dn[Root], d) THEN Root ELSE None

Walk(f, n, d) == f = [k \in 0..n |-> IF k = 0 THEN Top(d) ELSE After(f[k - 1], d)]

\* There is the way lookup goes, however long it may get.
LEMMA WalkExists == \A d : \A n \in Nat : \E f : Walk(f, n, d)
<1> TAKE d
<1> DEFINE T == {n \in Nat : ~ \E f : Walk(f, n, d)}
<1> SUFFICES ASSUME T # {} PROVE FALSE
  OBVIOUS
<1>1. PICK n \in T : \A m \in T : n <= m
  BY LeastNumber
<1>2. n \in Nat /\ ~ \E f : Walk(f, n, d)
  OBVIOUS
<1>3. CASE n = 0
  <2>1. PICK f : f = [k \in 0..0 |-> Top(d)]
    OBVIOUS
  <2>2. f = [k \in 0..0 |-> IF k = 0 THEN Top(d) ELSE After(f[k - 1], d)]
    BY <2>1
  <2> QED
    BY <1>2, <1>3, <2>2 DEF Walk
<1>4. CASE n # 0
  <2>1. n - 1 \in Nat /\ ~(n <= n - 1)
    BY <1>2, <1>4
  <2>2. PICK g : Walk(g, n - 1, d)
    BY <1>1, <2>1
  <2>3. PICK f : f = [k \in 0..n |-> IF k = n THEN After(g[n - 1], d) ELSE g[k]]
    OBVIOUS
  <2>4. ASSUME NEW k \in 0..n PROVE f[k] = IF k = 0 THEN Top(d) ELSE After(f[k - 1], d)
    <3>1. CASE k = n
      <4>1. n - 1 \in 0..n /\ n - 1 # n
        BY <1>2, <1>4
      <4>2. f[n - 1] = g[n - 1] /\ f[n] = After(g[n - 1], d)
        BY <1>2, <2>3, <4>1
      <4> QED
        BY <1>4, <3>1, <4>2
    <3>2. CASE k # n
      <4>1. k \in 0..n - 1 /\ (k # 0 => k - 1 \in 0..n /\ k - 1 # n)
        BY <1>2, <3>2
      <4>2. f[k] = g[k] /\ (k # 0 => f[k - 1] = g[k - 1])
        BY <2>3, <3>2, <4>1
      <4>3. g[k] = IF k = 0 THEN Top(d) ELSE After(g[k - 1], d)
        BY <2>2, <4>1 DEF Walk
      <4> QED
        BY <4>2, <4>3
    <3> QED
      BY <3>1, <3>2
  <2>5. f = [k \in 0..n |-> IF k = 0 THEN Top(d) ELSE After(f[k - 1], d)]
    BY <2>3, <2>4
  <2> QED
    BY <1>2, <2>5 DEF Walk
<1> QED
  BY <1>3, <1>4

LEMMA LookupWalks ==
    ASSUME NEW d
    PROVE  \E f : Walk(f, MaxDepth + 1, d) /\ Lookup(d) = f[MaxDepth + 1]
<1> DEFINE f == CHOOSE f : Walk(f, MaxDepth + 1, d)
<1>1. MaxDepth + 1 \in Nat
  BY ChoicesAssumption
<1>2. Walk(f, MaxDepth + 1, d)
  BY <1>1, WalkExists
<1>3. Lookup(d) = f[MaxDepth + 1]
  BY DEF Lookup, Walk, After, Top
<1> QED
  BY <1>2, <1>3

\* What is linked, and not the suffix, is linked below what is linked.
LEMMA Linked ==
    ASSUME TreeInv
    PROVE  /\ InTree \subseteq made /\ Root \in InTree
           /\ \A o \in InTree \ {Root} :
                /\ parent[o] \in InTree /\ dn[o] # <<>> /\ Head(dn[o]) \in DOMAIN children[parent[o]]
                /\ children[parent[o]][Head(dn[o])] = o /\ o \in Kids(parent[o])
                /\ Tail(dn[o]) = dn[parent[o]] /\ Head(dn[o]) \in values[o]
           /\ \A o \in Entries : \A c \in Kids(o) : Link(o, Head(dn[c]), c) /\ c \in InTree
           /\ \A o \in Entries \ InTree : DOMAIN children[o] = {}
<1>1. TreeTypes /\ LinksInv
  BY DEF TreeInv
<1>2. ASSUME NEW o \in Entries, NEW c \in Kids(o)
      PROVE  /\ Link(o, Head(dn[c]), c) /\ c \in InTree
             /\ Head(dn[c]) \in DOMAIN children[o] /\ children[o][Head(dn[c])] = c
  <2>1. PICK r \in DOMAIN children[o] : c = children[o][r]
    BY DEF Kids
  <2>2. Link(o, r, c)
    BY <1>1, <2>1 DEF LinksInv
  <2>3. Head(dn[c]) = r
    BY <2>2 DEF Link
  <2> QED
    BY <2>1, <2>2, <2>3 DEF InTree
<1>3. InTree \subseteq made /\ Root \in InTree
  BY <1>1, <1>2 DEF InTree, Link, TreeTypes
<1>4. ASSUME NEW o \in InTree \ {Root} PROVE \E p \in Entries : o \in Kids(p)
  BY DEF InTree
<1>5. ASSUME NEW o \in InTree \ {Root}
      PROVE  /\ parent[o] \in InTree /\ dn[o] # <<>> /\ Head(dn[o]) \in DOMAIN children[parent[o]]
             /\ children[parent[o]][Head(dn[o])] = o /\ o \in Kids(parent[o])
             /\ Tail(dn[o]) = dn[parent[o]] /\ Head(dn[o]) \in values[o]
  <2>1. PICK p \in Entries : o \in Kids(p)
    BY <1>4
  <2>2. Link(p, Head(dn[o]), o) /\ Head(dn[o]) \in DOMAIN children[p] /\ children[p][Head(dn[o])] = o
    BY <1>2, <2>1
  <2> QED
    BY <2>1, <2>2 DEF Link
<1>6. ASSUME NEW o \in Entries \ InTree PROVE DOMAIN children[o] = {}
  BY <1>1 DEF LinksInv, Link
<1> QED
  BY <1>2, <1>3, <1>5, <1>6

\* Going down, lookup is at an entry on the way to the name, or has found it;
\* and if the name is that of a linked entry it does not get lost.
LEMMA LookupFinds == TreeInv => LookupInv
<1> SUFFICES ASSUME TreeInv PROVE LookupInv
  OBVIOUS
<1>1. TreeTypes /\ OneName /\ AboveInv /\ MaxDepth \in Nat /\ InTree \subseteq Entries
      /\ None \notin Entries
  BY Linked, EntriesAssumption, ChoicesAssumption DEF TreeInv, TreeTypes
<1>2. ASSUME NEW d \in DNs
      PROVE  \/ Lookup(d) = None /\ \A o \in InTree : dn[o] # d
             \/ Lookup(d) \in InTree /\ dn[Lookup(d)] = d
  <2>1. PICK f : Walk(f, MaxDepth + 1, d) /\ Lookup(d) = f[MaxDepth + 1]
    BY LookupWalks
  <2>2. \A k \in 0..MaxDepth + 1 : f[k] = IF k = 0 THEN Top(d) ELSE After(f[k - 1], d)
    BY <2>1 DEF Walk
  <2> DEFINE Fits(k) ==
        \/ f[k] = None /\ \A o \in InTree : dn[o] # d
        \/ /\ f[k] \in InTree
           /\ dn[f[k]] = d \/ (Len(dn[f[k]]) = k /\ Contains(dn[f[k]], d))
  <2>3. Fits(0)
    <3>1. Len(<<>>) = 0 /\ d \in Seq(RDNs)
      BY NameFacts, EmptySeq
    <3>2. Top(d) = Root /\ Root \in InTree /\ dn[Root] = <<>>
      BY <1>1, <3>1, ContainsSelf, Linked DEF TreeTypes, Top
    <3>3. f[0] = Root
      BY <1>1, <2>2, <3>2
    <3> QED
      BY <3>1, <3>2, <3>3, ContainsSelf
  <2>4. ASSUME NEW k \in 1..MaxDepth + 1, Fits(k - 1) PROVE Fits(k)
    <3>1. PICK o : o = f[k - 1]
      OBVIOUS
    <3>2. f[k] = After(o, d)
      BY <1>1, <2>2, <3>1
    <3>3. CASE o = None \/ dn[o] = d
      <4>1. f[k] = o
        BY <3>2, <3>3 DEF After
      <4> QED
        BY <1>1, <2>4, <3>1, <3>3, <4>1
    <3>4. CASE o # None /\ dn[o] # d
      <4>1. o \in InTree /\ Len(dn[o]) = k - 1 /\ Contains(dn[o], d)
        BY <2>4, <3>1, <3>4
      <4>2. PICK next : next = {c \in Kids(o) : Contains(dn[c], d)}
        OBVIOUS
      <4>3. f[k] = IF next = {} THEN None ELSE CHOOSE c \in next : TRUE
        BY <3>2, <3>4, <4>2 DEF After
      <4>4. CASE next # {}
        <5>1. PICK c : c = CHOOSE c2 \in next : TRUE
          OBVIOUS
        <5>2. c \in Kids(o) /\ Contains(dn[c], d) /\ f[k] = c
          BY <4>2, <4>3, <4>4, <5>1
        <5>3. Link(o, Head(dn[c]), c) /\ c \in InTree
          BY <1>1, <4>1, <5>2, Linked
        <5>4. dn[c] \in Seq(RDNs) /\ dn[c] # <<>> /\ Tail(dn[c]) = dn[o]
          BY <1>1, <5>3, NameFacts DEF Link, TreeTypes
        <5>5. Len(dn[o]) = Len(dn[c]) - 1 /\ Len(dn[c]) \in Nat
          BY <5>4, HeadTailProperties, LenProperties
        <5>6. Len(dn[c]) = k
          BY <4>1, <5>5
        <5> QED
          BY <5>2, <5>3, <5>6
      <4>5. CASE next = {}
        <5>1. f[k] = None
          BY <4>3, <4>5
        <5>2. ASSUME NEW t \in InTree, dn[t] = d PROVE FALSE
          <6>1. d \in Seq(RDNs) /\ dn[o] \in Seq(RDNs)
            BY <1>1, <4>1, NameFacts DEF TreeTypes
          <6>2. PICK e \in Seq(RDNs) : Contains(e, d) /\ e # <<>> /\ Tail(e) = dn[o]
            BY <3>4, <4>1, <6>1, NextName
          <6>3. PICK c \in InTree : dn[c] = e
            BY <1>1, <5>2, <6>2 DEF AboveInv
          <6>4. c # Root
            BY <1>1, <6>2, <6>3 DEF TreeTypes
          <6>5. parent[c] \in InTree /\ c \in Kids(parent[c]) /\ Tail(dn[c]) = dn[parent[c]]
            BY <6>3, <6>4, Linked
          <6>6. parent[c] = o
            BY <1>1, <4>1, <6>2, <6>3, <6>5 DEF OneName
          <6> QED
            BY <4>2, <4>5, <6>2, <6>3, <6>5, <6>6
        <5> QED
          BY <5>1, <5>2
      <4> QED
        BY <4>4, <4>5
    <3> QED
      BY <3>3, <3>4
  <2>5. ASSUME NEW k \in 0..MaxDepth + 1 PROVE Fits(k)
    <3> DEFINE T == {n \in 0..MaxDepth + 1 : ~Fits(n)}
    <3> HIDE DEF Fits
    <3> SUFFICES ASSUME T # {} PROVE FALSE
      OBVIOUS
    <3>1. T \subseteq Nat
      BY <1>1
    <3>2. PICK n \in T : \A m \in T : n <= m
      BY <3>1, LeastNumber
    <3>3. n \in 0..MaxDepth + 1 /\ ~Fits(n) /\ n # 0
      BY <2>3, <3>2
    <3>4. n \in 1..MaxDepth + 1 /\ n - 1 \in 0..MaxDepth + 1 /\ ~(n <= n - 1)
      BY <1>1, <3>3
    <3>5. Fits(n - 1)
      BY <3>2, <3>4
    <3> QED
      BY <2>4, <3>3, <3>4, <3>5
  <2>6. Fits(MaxDepth + 1)
    <3> HIDE DEF Fits
    <3> QED
      BY <1>1, <2>5
  <2>7. f[MaxDepth + 1] \in InTree => Len(dn[f[MaxDepth + 1]]) # MaxDepth + 1
    <3> SUFFICES ASSUME NEW o \in InTree PROVE Len(dn[o]) # MaxDepth + 1
      OBVIOUS
    <3>1. Len(dn[o]) \in 0..MaxDepth
      BY <1>1, NameFacts DEF TreeTypes
    <3> QED
      BY <1>1, <3>1
  <2> QED
    BY <2>1, <2>6, <2>7
<1>3. ASSUME NEW o \in InTree PROVE Lookup(dn[o]) = o
  <2>1. dn[o] \in DNs
    BY <1>1 DEF TreeTypes
  <2> QED
    BY <1>1, <1>2, <2>1 DEF OneName
<1>4. ASSUME NEW d \in DNs, Lookup(d) # None PROVE Lookup(d) \in InTree /\ dn[Lookup(d)] = d
  BY <1>2, <1>4
<1> QED
  BY <1>3, <1>4 DEF LookupInv

LEMMA LookupFindsNext == TreeInv' => LookupInv'
BY LookupFinds, PTL

\* Below a leaf there is nothing.
LEMMA LeafIsAlone ==
    ASSUME TreeInv, NEW o \in InTree, Leaf(o), NEW x \in InTree, x # o
    PROVE  ~Contains(dn[o], dn[x])
<1> SUFFICES ASSUME Contains(dn[o], dn[x]) PROVE FALSE
  OBVIOUS
<1>1. TreeTypes /\ OneName /\ AboveInv /\ InTree \subseteq Entries
  BY Linked DEF TreeInv, TreeTypes
<1>2. dn[o] \in Seq(RDNs) /\ dn[x] \in Seq(RDNs) /\ dn[o] # dn[x]
  BY <1>1, NameFacts DEF TreeTypes, OneName
<1>3. PICK e \in Seq(RDNs) : Contains(e, dn[x]) /\ e # <<>> /\ Tail(e) = dn[o]
  BY <1>2, NextName
<1>4. PICK c \in InTree : dn[c] = e
  BY <1>1, <1>3 DEF AboveInv
<1>5. c # Root
  BY <1>1, <1>3, <1>4 DEF TreeTypes
<1>6. parent[c] \in InTree /\ Head(dn[c]) \in DOMAIN children[parent[c]] /\ Tail(dn[c]) = dn[parent[c]]
  BY <1>4, <1>5, Linked
<1>7. parent[c] = o
  BY <1>1, <1>3, <1>4, <1>6 DEF OneName
<1> QED
  BY <1>6, <1>7 DEF Leaf

-----------------------------------------------------------------------------
(* What the handlers do to the tree.                                       *)

\* The children of entries are as they were, but for o.
OthersStay(o) ==
    \A x \in Entries : \A r \in DOMAIN children[x] :
        children[x][r] # o => r \in DOMAIN children'[x] /\ children'[x][r] = children[x][r]

\* A leaf is taken out of the tree.
Unlinking(o) ==
    /\ DOMAIN children' = Entries /\ OthersStay(o)
    /\ \A x \in Entries : \A r \in DOMAIN children'[x] :
          /\ r \in DOMAIN children[x] /\ children'[x][r] = children[x][r]
          /\ children[x][r] # o

LEMMA Unlinked ==
    ASSUME TreeInv, NEW o \in InTree \ {Root}, Leaf(o), UNCHANGED <<dn, parent, values, made>>,
           Unlinking(o)
    PROVE  InTree' = InTree \ {o} /\ TreeInv'
<1> USE DEF Unlinking
<1>1. TreeTypes /\ LinksInv /\ OneName /\ AboveInv /\ InTree \subseteq Entries
  BY Linked DEF TreeInv, TreeTypes
<1>2. ASSUME NEW x \in Entries PROVE Kids(x)' = Kids(x) \ {o}
  <2>1. ASSUME NEW c \in Kids(x)' PROVE c \in Kids(x) \ {o}
    BY DEF Kids
  <2>2. ASSUME NEW c \in Kids(x) \ {o} PROVE c \in Kids(x)'
    <3>1. PICK r \in DOMAIN children[x] : c = children[x][r]
      BY DEF Kids
    <3> QED
      BY <3>1 DEF Kids, OthersStay
  <2> QED
    BY <2>1, <2>2
<1>3. InTree' = InTree \ {o}
  BY <1>2 DEF InTree
<1>4. TreeTypes'
  <2>1. \A x \in Entries : DOMAIN children'[x] \subseteq RDNs
    BY <1>1 DEF TreeTypes
  <2> QED
    BY <1>1, <2>1 DEF TreeTypes
<1>5. LinksInv'
  <2> SUFFICES ASSUME NEW x \in Entries, NEW r \in DOMAIN children'[x]
               PROVE  Link(x, r, children[x][r])'
    BY DEF LinksInv
  <2>1. r \in DOMAIN children[x] /\ children'[x][r] = children[x][r] /\ x # o
    BY DEF Leaf
  <2>2. Link(x, r, children[x][r])
    BY <1>1, <2>1 DEF LinksInv
  <2> QED
    BY <1>3, <2>1, <2>2 DEF Link
<1>6. OneName'
  BY <1>1, <1>3 DEF OneName
<1>7. AboveInv'
  <2> SUFFICES ASSUME NEW x \in InTree', NEW e \in Seq(RDNs), Contains(e, dn[x])
               PROVE  \E y \in InTree' : dn[y] = e
    BY DEF AboveInv, Contains
  <2>1. x \in InTree /\ x # o
    BY <1>3
  <2>2. PICK y \in InTree : dn[y] = e
    BY <1>1, <2>1 DEF AboveInv
  <2>3. y # o
    BY <2>1, <2>2, LeafIsAlone
  <2> QED
    BY <1>3, <2>2, <2>3
<1> QED
  BY <1>3, <1>4, <1>5, <1>6, <1>7 DEF TreeInv

\* A leaf gets a place in the tree, and a name that no other entry has.
Free(o, p, new) ==
    /\ p # o /\ Leaf(o) /\ new # <<>> /\ Tail(new) = dn[p]
    /\ \A x \in InTree \ {o} : dn[x] # new

Placing(o, p, new, held) ==
    /\ dn' = [dn EXCEPT ![o] = new] /\ parent' = [parent EXCEPT ![o] = p]
    /\ values' = [values EXCEPT ![o] = held] /\ made' = made \cup {o}
    /\ DOMAIN children' = Entries /\ OthersStay(o)
    /\ Head(new) \in DOMAIN children'[p] /\ children'[p][Head(new)] = o
    /\ \A x \in Entries : \A r \in DOMAIN children'[x] :
          \/ x = p /\ r = Head(new)
          \/ /\ r \in DOMAIN children[x] /\ children'[x][r] = children[x][r]
             /\ children[x][r] # o

LEMMA Placed ==
    ASSUME TreeInv, NEW o \in Pool, NEW p \in InTree, NEW new \in DNs, NEW held \in SUBSET RDNs,
           Head(new) \in held, Free(o, p, new), Placing(o, p, new, held)
    PROVE  InTree' = InTree \cup {o} /\ TreeInv'
<1> USE DEF Free, Placing
<1>1. /\ TreeTypes /\ LinksInv /\ OneName /\ AboveInv /\ InTree \subseteq made
      /\ o \in Entries /\ o # Root /\ p \in Entries /\ p \in made /\ p # None /\ InTree \subseteq Entries
  BY Linked, EntriesAssumption DEF TreeInv, TreeTypes, Entries
<1>2. /\ dn'[o] = new /\ parent'[o] = p /\ values'[o] = held
      /\ \A x \in Entries \ {o} : dn'[x] = dn[x] /\ parent'[x] = parent[x] /\ values'[x] = values[x]
  BY <1>1 DEF TreeTypes
<1>3. ASSUME NEW x \in Entries
      PROVE  Kids(x)' = (Kids(x) \ {o}) \cup (IF x = p THEN {o} ELSE {})
  <2>1. ASSUME NEW c \in Kids(x)' PROVE c \in Kids(x) \ {o} \/ (x = p /\ c = o)
    BY DEF Kids
  <2>2. ASSUME NEW c \in Kids(x) \ {o} PROVE c \in Kids(x)'
    <3>1. PICK r \in DOMAIN children[x] : c = children[x][r]
      BY DEF Kids
    <3> QED
      BY <3>1 DEF Kids, OthersStay
  <2>3. x = p => o \in Kids(x)'
    BY DEF Kids
  <2> QED
    BY <2>1, <2>2, <2>3
<1>4. InTree' = InTree \cup {o}
  BY <1>1, <1>3 DEF InTree
<1>5. TreeTypes'
  <2>1. \A x \in Entries : DOMAIN children'[x] \subseteq RDNs
    <3>1. Head(new) \in RDNs
      BY NameFacts
    <3> QED
      BY <1>1, <3>1 DEF TreeTypes
  <2>2. dn' \in [Entries -> DNs] /\ dn'[Root] = <<>>
    BY <1>1 DEF TreeTypes
  <2>3. parent' \in [Entries -> Entries \cup {None}] /\ values' \in [Entries -> SUBSET RDNs]
    BY <1>1 DEF TreeTypes
  <2>4. made' \subseteq Entries /\ Root \in made'
    BY <1>1 DEF TreeTypes
  <2>5. ASSUME NEW x \in Entries PROVE parent'[x] = None <=> x \notin made' \ {Root}
    <3>1. CASE x = o
      BY <1>1, <1>2, <3>1
    <3>2. CASE x # o
      BY <1>1, <1>2, <3>2 DEF TreeTypes
    <3> QED
      BY <3>1, <3>2
  <2> QED
    BY <2>1, <2>2, <2>3, <2>4, <2>5 DEF TreeTypes
<1>6. LinksInv'
  <2> SUFFICES ASSUME NEW x \in Entries, NEW r \in DOMAIN children'[x]
               PROVE  Link(x, r, children[x][r])'
    BY DEF LinksInv
  <2>1. CASE x = p /\ r = Head(new)
    BY <1>1, <1>2, <1>4, <2>1 DEF Link
  <2>2. CASE /\ r \in DOMAIN children[x] /\ children'[x][r] = children[x][r]
             /\ children[x][r] # o
    <3>1. PICK c : c = children[x][r]
      OBVIOUS
    <3>2. Link(x, r, c) /\ c # o /\ x # o
      BY <1>1, <2>2, <3>1 DEF LinksInv, Leaf
    <3>3. c \in Entries \ {o} /\ x \in Entries \ {o}
      BY <1>1, <3>2 DEF Link, TreeTypes
    <3> QED
      BY <1>2, <1>4, <2>2, <3>1, <3>2, <3>3 DEF Link
  <2> QED
    BY <2>1, <2>2
<1>7. OneName'
  <2> SUFFICES ASSUME NEW x \in InTree', NEW y \in InTree', dn'[x] = dn'[y] PROVE x = y
    BY DEF OneName
  <2> QED
    BY <1>1, <1>2, <1>4 DEF OneName
<1>8. AboveInv'
  <2> SUFFICES ASSUME NEW x \in InTree', NEW e \in Seq(RDNs), Contains(e, dn'[x])
               PROVE  \E y \in InTree' : dn'[y] = e
    BY DEF AboveInv, Contains
  <2>1. ASSUME NEW z \in InTree, z # o, Contains(e, dn[z])
        PROVE  \E y \in InTree' : dn'[y] = e
    <3>1. PICK y \in InTree : dn[y] = e
      BY <1>1, <2>1 DEF AboveInv
    <3>2. y # o
      BY <2>1, <3>1, LeafIsAlone
    <3> QED
      BY <1>1, <1>2, <1>4, <3>1, <3>2
  <2>2. CASE x # o
    BY <1>1, <1>2, <1>4, <2>1, <2>2
  <2>3. CASE x = o
    <3>1. CASE e = new
      BY <1>2, <1>4, <3>1
    <3>2. CASE e # new
      <4>1. Contains(e, new) /\ new \in Seq(RDNs)
        BY <1>2, <2>3, NameFacts
      <4>2. Contains(e, Tail(new))
        BY <3>2, <4>1, ContainsUp
      <4> QED
        BY <2>1, <4>2
    <3> QED
      BY <3>1, <3>2
  <2> QED
    BY <2>2, <2>3
<1> QED
  BY <1>4, <1>5, <1>6, <1>7, <1>8 DEF TreeInv

-----------------------------------------------------------------------------
(* The tree as a directory.                                                *)

\* The directory has the names of the linked entries, with their values.
ContentInv ==
    /\ Content = [d \in DOMAIN Content |-> Content[d]]
    /\ DOMAIN Content = {dn[o] : o \in InTree}
    /\ \A o \in InTree : Content[dn[o]] = values[o]

LEMMA FoundNames == TreeInv => Found = {dn[o] : o \in InTree} /\ Found \subseteq DNs
<1> SUFFICES ASSUME TreeInv PROVE Found = {dn[o] : o \in InTree} /\ Found \subseteq DNs
  OBVIOUS
<1>1. TreeTypes /\ LookupInv /\ InTree \subseteq made /\ made \subseteq Entries /\ None \notin Entries
  BY LookupFinds, Linked, EntriesAssumption DEF TreeInv, TreeTypes
<1>2. ASSUME NEW d \in Found PROVE d \in {dn[o] : o \in InTree} /\ d \in DNs
  <2>1. d \in DNs /\ Lookup(d) # None
    BY <1>1 DEF Found, TreeTypes
  <2> QED
    BY <1>1, <2>1 DEF LookupInv
<1>3. ASSUME NEW o \in InTree PROVE dn[o] \in Found
  BY <1>1 DEF Found, LookupInv
<1> QED
  BY <1>2, <1>3

LEMMA ContentHolds == TreeInv => ContentInv
<1> SUFFICES ASSUME TreeInv PROVE ContentInv
  OBVIOUS
<1>1. LookupInv /\ Found = {dn[o] : o \in InTree}
  BY LookupFinds, FoundNames
<1>2. ASSUME NEW o \in InTree PROVE Content[dn[o]] = values[o]
  <2>1. dn[o] \in Found /\ Lookup(dn[o]) = o
    BY <1>1 DEF LookupInv
  <2> QED
    BY <2>1 DEF Content
<1>3. DOMAIN Content = Found /\ Content = [d \in DOMAIN Content |-> Content[d]]
  BY DEF Content
<1> QED
  BY <1>1, <1>2, <1>3 DEF ContentInv

LEMMA ContentHoldsNext == TreeInv' => ContentInv'
BY ContentHolds, PTL

LEMMA SameContent ==
    ASSUME ContentInv, ContentInv', InTree' = InTree,
           \A o \in InTree : dn'[o] = dn[o] /\ values'[o] = values[o]
    PROVE  Content' = Content
<1>1. PICK c, cc : c = Content /\ cc = Content'
  OBVIOUS
<1>2. /\ c = [d \in DOMAIN c |-> c[d]] /\ DOMAIN c = {dn[o] : o \in InTree}
      /\ \A o \in InTree : c[dn[o]] = values[o]
  BY <1>1 DEF ContentInv
<1>3. /\ cc = [d \in DOMAIN cc |-> cc[d]] /\ DOMAIN cc = {dn'[o] : o \in InTree'}
      /\ \A o \in InTree' : cc[dn'[o]] = values'[o]
  BY <1>1 DEF ContentInv
<1>4. DOMAIN cc = DOMAIN c
  BY <1>2, <1>3
<1>5. \A d \in DOMAIN c : cc[d] = c[d]
  BY <1>2, <1>3
<1>6. cc = c
  BY <1>2, <1>3, <1>4, <1>5
<1> QED
  BY <1>1, <1>6

-----------------------------------------------------------------------------
(* The handlers.                                                           *)

Careful == Cares = {"value", "leaf", "free", "type", "suffix"}

\* One entry gets another name, one that was not in the tree, or goes.
Touching(o) ==
    /\ o \in Entries
    /\ \A x \in Entries \ {o} : /\ dn'[x] = dn[x] /\ parent'[x] = parent[x]
                                /\ x \in InTree' <=> x \in InTree
    /\ IF o \in InTree' THEN \A x \in InTree : dn[x] # dn'[o]
       ELSE o \in InTree /\ dn'[o] = dn[o]

LEMMA AddStep ==
    ASSUME Careful, TreeInv, NEW d \in DNs, NEW held \in SUBSET RDNs, HandleAdd(d, held)
    PROVE  TreeInv' /\ Content' \in Abstract!Added(Content) /\ \E o : Touching(o)
<1>1. /\ TreeTypes /\ LookupInv /\ OneName /\ ContentInv
      /\ InTree \subseteq made /\ made \subseteq Entries /\ Root \in made
  BY LookupFinds, ContentHolds, Linked DEF TreeInv, TreeTypes
<1>2. /\ d # <<>> /\ held = {Head(d)} /\ Tail(d) \in DNs /\ Head(d) \in RDNs
  BY NameFacts DEF HandleAdd, Careful
<1>3. PICK p : p = Lookup(Tail(d))
  OBVIOUS
<1>4. p \in InTree /\ dn[p] = Tail(d) /\ Head(d) \notin DOMAIN children[p]
  BY <1>1, <1>2, <1>3 DEF HandleAdd, LookupInv
<1>5. PICK o : o = CHOOSE e \in Pool : e \notin made
  OBVIOUS
<1>6. o \in Pool /\ o \notin made /\ o \notin InTree /\ o # p /\ o \in Entries
  <2>1. \E x \in Pool : x \notin made
    BY DEF HandleAdd
  <2>2. o \in Pool /\ o \notin made
    BY <1>5, <2>1
  <2> QED
    BY <1>1, <1>4, <2>2 DEF Entries
<1>7. AddChild(p, o, d, held) /\ made' = made \cup {o}
  BY <1>3, <1>5 DEF HandleAdd
<1>8. /\ dn' = [dn EXCEPT ![o] = d] /\ values' = [values EXCEPT ![o] = held]
      /\ parent' = [parent EXCEPT ![o] = p]
      /\ children' = [children EXCEPT ![p] = With(children[p], Head(d), o)]
  BY <1>7 DEF AddChild
<1>9. /\ DOMAIN children' = Entries
      /\ DOMAIN children'[p] = DOMAIN children[p] \cup {Head(d)} /\ children'[p][Head(d)] = o
      /\ \A r \in DOMAIN children[p] : children'[p][r] = children[p][r]
      /\ \A x \in Entries \ {p} : children'[x] = children[x]
  BY <1>1, <1>4, <1>8 DEF TreeTypes, With
<1>10. \A x \in Entries : \A r \in DOMAIN children[x] : children[x][r] # o
  BY <1>6, Linked DEF Kids
<1>11. OthersStay(o)
  BY <1>9 DEF OthersStay
<1>12. \A x \in Entries : \A r \in DOMAIN children'[x] :
          \/ x = p /\ r = Head(d)
          \/ /\ r \in DOMAIN children[x] /\ children'[x][r] = children[x][r]
             /\ children[x][r] # o
  BY <1>9, <1>10
<1>13. ASSUME NEW x \in InTree PROVE dn[x] # d
  <2> SUFFICES ASSUME dn[x] = d PROVE FALSE
    OBVIOUS
  <2>1. x # Root
    BY <1>1, <1>2 DEF TreeTypes
  <2>2. parent[x] \in InTree /\ Head(d) \in DOMAIN children[parent[x]] /\ Tail(d) = dn[parent[x]]
    BY <2>1, Linked
  <2> QED
    BY <1>1, <1>4, <2>2 DEF OneName
<1>14. Leaf(o)
  BY <1>6, Linked DEF Leaf
<1>15. Free(o, p, d) /\ Placing(o, p, d, held) /\ Head(d) \in held
  BY <1>2, <1>4, <1>6, <1>7, <1>8, <1>9, <1>11, <1>12, <1>13, <1>14 DEF Free, Placing
<1>16. InTree' = InTree \cup {o} /\ TreeInv'
  BY <1>4, <1>6, <1>15, Placed
<1>17. Content' \in Abstract!Added(Content)
  <2>1. PICK c, cc : c = Content /\ cc = Content'
    OBVIOUS
  <2>2. /\ c = [e \in DOMAIN c |-> c[e]] /\ DOMAIN c = {dn[x] : x \in InTree}
        /\ \A x \in InTree : c[dn[x]] = values[x]
    BY <1>1, <2>1 DEF ContentInv
  <2>3. /\ cc = [e \in DOMAIN cc |-> cc[e]] /\ DOMAIN cc = {dn'[x] : x \in InTree'}
        /\ \A x \in InTree' : cc[dn'[x]] = values'[x]
    BY <1>16, <2>1, ContentHoldsNext DEF ContentInv
  <2>4. /\ dn'[o] = d /\ values'[o] = held
        /\ \A x \in InTree : dn'[x] = dn[x] /\ values'[x] = values[x]
    BY <1>1, <1>6, <1>8 DEF TreeTypes
  <2>5. DOMAIN cc = DOMAIN c \cup {d} /\ d \notin DOMAIN c
    BY <1>13, <1>16, <2>2, <2>3, <2>4
  <2>6. \A e \in DOMAIN cc : cc[e] = IF e = d THEN held ELSE c[e]
    BY <1>13, <1>16, <2>2, <2>3, <2>4, <2>5
  <2>7. cc = [e \in DOMAIN c \cup {d} |-> IF e = d THEN held ELSE c[e]]
    BY <2>3, <2>5, <2>6
  <2>8. d \in Abstract!DNs /\ Abstract!Up(d) \in DOMAIN c
    <3>1. Tail(d) \in DOMAIN c
      BY <1>4, <2>2
    <3> QED
      BY <3>1 DEF DNs, Abstract!DNs, Abstract!Up
  <2>9. cc \in Abstract!Added(c)
    BY <2>5, <2>7, <2>8 DEF Abstract!Added
  <2> QED
    BY <2>1, <2>9
<1>18. Touching(o)
  <2>1. dn'[o] = d /\ o \in InTree'
    BY <1>1, <1>6, <1>8, <1>16 DEF TreeTypes
  <2>2. \A x \in Entries \ {o} : dn'[x] = dn[x] /\ parent'[x] = parent[x]
    BY <1>1, <1>8 DEF TreeTypes
  <2> QED
    BY <1>6, <1>13, <1>16, <2>1, <2>2 DEF Touching
<1> QED
  BY <1>16, <1>17, <1>18

LEMMA DeleteStep ==
    ASSUME TreeInv, NEW d \in DNs, HandleDelete(d)
    PROVE  TreeInv' /\ Content' \in Abstract!Deleted(Content) /\ \E o : Touching(o)
<1>1. /\ TreeTypes /\ LookupInv /\ OneName /\ ContentInv
      /\ InTree \subseteq made /\ made \subseteq Entries
  BY LookupFinds, ContentHolds, Linked DEF TreeInv, TreeTypes
<1>2. PICK o : o = Lookup(d)
  OBVIOUS
<1>3. PICK q : q = parent[o]
  OBVIOUS
<1>4. /\ o # None /\ q # None /\ Leaf(o) /\ UNCHANGED <<dn, parent, values, made>>
      /\ children' = [children EXCEPT ![q] = Without(children[q], Head(dn[o]))]
  BY <1>2, <1>3 DEF HandleDelete, Deletable
<1>5. o \in InTree \ {Root} /\ dn[o] = d
  <2>1. o \in InTree /\ dn[o] = d
    BY <1>1, <1>2, <1>4 DEF LookupInv
  <2>2. o # Root
    BY <1>1, <1>3, <1>4, EntriesAssumption DEF TreeTypes, Entries
  <2> QED
    BY <2>1, <2>2
<1>6. q \in InTree /\ q \in Entries /\ d # <<>> /\ Head(d) \in DOMAIN children[q] /\ children[q][Head(d)] = o
  BY <1>1, <1>3, <1>5, Linked
<1>7. /\ DOMAIN children' = Entries /\ DOMAIN children'[q] = DOMAIN children[q] \ {Head(d)}
      /\ \A r \in DOMAIN children'[q] : children'[q][r] = children[q][r]
      /\ \A x \in Entries \ {q} : children'[x] = children[x]
  BY <1>1, <1>4, <1>5, <1>6 DEF TreeTypes, Without
<1>8. \A x \in Entries : \A r \in DOMAIN children[x] : children[x][r] = o => x = q /\ r = Head(d)
  <2> SUFFICES ASSUME NEW x \in Entries, NEW r \in DOMAIN children[x], children[x][r] = o
               PROVE  x = q /\ r = Head(d)
    OBVIOUS
  <2>1. Link(x, r, o)
    BY DEF TreeInv, LinksInv
  <2> QED
    BY <1>3, <1>5, <2>1 DEF Link
<1>9. OthersStay(o)
  <2> SUFFICES ASSUME NEW x \in Entries, NEW r \in DOMAIN children[x], children[x][r] # o
               PROVE  r \in DOMAIN children'[x] /\ children'[x][r] = children[x][r]
    BY DEF OthersStay
  <2>1. CASE x = q
    BY <1>6, <1>7, <2>1
  <2>2. CASE x # q
    BY <1>7, <2>2
  <2> QED
    BY <2>1, <2>2
<1>10. ASSUME NEW x \in Entries, NEW r \in DOMAIN children'[x]
       PROVE  /\ r \in DOMAIN children[x] /\ children'[x][r] = children[x][r]
              /\ children[x][r] # o
  <2>1. CASE x = q
    BY <1>7, <1>8, <2>1
  <2>2. CASE x # q
    BY <1>7, <1>8, <2>2
  <2> QED
    BY <2>1, <2>2
<1>11. Unlinking(o)
  BY <1>7, <1>9, <1>10 DEF Unlinking
<1>12. InTree' = InTree \ {o} /\ TreeInv'
  BY <1>4, <1>5, <1>11, Unlinked
<1>13. Content' \in Abstract!Deleted(Content)
  <2>1. PICK c, cc : c = Content /\ cc = Content'
    OBVIOUS
  <2>2. /\ c = [e \in DOMAIN c |-> c[e]] /\ DOMAIN c = {dn[x] : x \in InTree}
        /\ \A x \in InTree : c[dn[x]] = values[x]
    BY <1>1, <2>1 DEF ContentInv
  <2>3. /\ cc = [e \in DOMAIN cc |-> cc[e]] /\ DOMAIN cc = {dn[x] : x \in InTree \ {o}}
        /\ \A x \in InTree \ {o} : cc[dn[x]] = values[x]
    BY <1>4, <1>12, <2>1, ContentHoldsNext DEF ContentInv
  <2>4. \A x \in InTree \ {o} : dn[x] # d
    BY <1>1, <1>5 DEF OneName
  <2>5. DOMAIN cc = DOMAIN c \ {d}
    BY <1>5, <2>2, <2>3, <2>4
  <2>6. \A e \in DOMAIN cc : cc[e] = c[e]
    BY <2>2, <2>3
  <2>7. cc = [e \in DOMAIN c \ {d} |-> c[e]]
    BY <2>3, <2>5, <2>6
  <2>8. \A e \in DOMAIN c \ {d} : ~Contains(d, e)
    BY <1>4, <1>5, <2>2, LeafIsAlone
  <2>9. d \in Abstract!Leaves(c)
    BY <1>5, <1>6, <2>2, <2>8 DEF Abstract!Leaves, Abstract!Contains, Contains
  <2>10. cc \in Abstract!Deleted(c)
    BY <2>7, <2>9 DEF Abstract!Deleted
  <2> QED
    BY <2>1, <2>10
<1>14. Touching(o)
  BY <1>1, <1>4, <1>5, <1>12 DEF Touching
<1> QED
  BY <1>12, <1>13, <1>14

LEMMA ModifyStep ==
    ASSUME Careful, TreeInv, NEW d \in DNs, NEW held \in SUBSET RDNs, HandleModify(d, held)
    PROVE  TreeInv' /\ Content' \in Abstract!Modified(Content)
<1>1. /\ TreeTypes /\ LookupInv /\ LinksInv /\ OneName /\ AboveInv /\ ContentInv
      /\ InTree \subseteq Entries
  BY LookupFinds, ContentHolds, Linked DEF TreeInv, TreeTypes
<1>2. PICK o : o = Lookup(d)
  OBVIOUS
<1>3. /\ o # None /\ values' = [values EXCEPT ![o] = held]
      /\ UNCHANGED <<dn, parent, children, made>> /\ (d # <<>> => Head(d) \in held)
  BY <1>2 DEF HandleModify, Careful
<1>4. o \in InTree /\ dn[o] = d
  BY <1>1, <1>2, <1>3 DEF LookupInv
<1>5. values'[o] = held /\ \A x \in Entries \ {o} : values'[x] = values[x]
  BY <1>1, <1>3, <1>4 DEF TreeTypes
<1>6. InTree' = InTree
  BY <1>3 DEF InTree, Kids
<1>7. TreeTypes'
  <2>1. values' \in [Entries -> SUBSET RDNs]
    BY <1>1, <1>3 DEF TreeTypes
  <2> QED
    BY <1>1, <1>3, <2>1 DEF TreeTypes
<1>8. LinksInv'
  <2> SUFFICES ASSUME NEW x \in Entries, NEW r \in DOMAIN children[x]
               PROVE  Link(x, r, children[x][r])'
    BY <1>3 DEF LinksInv
  <2>1. PICK c : c = children[x][r]
    OBVIOUS
  <2>2. Link(x, r, c)
    BY <1>1, <2>1 DEF LinksInv
  <2>3. r \in values'[c]
    <3>1. CASE c = o
      BY <1>3, <1>4, <1>5, <2>2, <3>1 DEF Link
    <3>2. CASE c # o
      BY <1>1, <1>5, <2>2, <3>2 DEF Link, TreeTypes
    <3> QED
      BY <3>1, <3>2
  <2> QED
    BY <1>3, <1>6, <2>1, <2>2, <2>3 DEF Link
<1>9. OneName' /\ AboveInv'
  BY <1>1, <1>3, <1>6 DEF OneName, AboveInv, Contains
<1>10. TreeInv'
  BY <1>7, <1>8, <1>9 DEF TreeInv
<1>11. Content' \in Abstract!Modified(Content)
  <2>1. PICK c, cc : c = Content /\ cc = Content'
    OBVIOUS
  <2>2. /\ c = [e \in DOMAIN c |-> c[e]] /\ DOMAIN c = {dn[x] : x \in InTree}
        /\ \A x \in InTree : c[dn[x]] = values[x]
    BY <1>1, <2>1 DEF ContentInv
  <2>3. /\ cc = [e \in DOMAIN cc |-> cc[e]] /\ DOMAIN cc = {dn[x] : x \in InTree}
        /\ \A x \in InTree : cc[dn[x]] = values'[x]
    BY <1>3, <1>6, <1>10, <2>1, ContentHoldsNext DEF ContentInv
  <2>4. d \in DOMAIN c /\ DOMAIN cc = DOMAIN c
    BY <1>4, <2>2, <2>3
  <2>5. \A e \in DOMAIN c : cc[e] = IF e = d THEN held ELSE c[e]
    BY <1>1, <1>4, <1>5, <2>2, <2>3 DEF OneName
  <2>6. cc = [c EXCEPT ![d] = held]
    <3>1. [c EXCEPT ![d] = held] = [e \in DOMAIN c |-> IF e = d THEN held ELSE c[e]]
      BY <2>2
    <3>2. cc = [e \in DOMAIN c |-> IF e = d THEN held ELSE c[e]]
      BY <2>3, <2>4, <2>5
    <3> QED
      BY <3>1, <3>2
  <2>7. cc \in Abstract!Modified(c)
    <3> DEFINE Put(e, v) == [c EXCEPT ![e] = v]
    <3>1. Abstract!Modified(c) = {Put(e, v) : e \in DOMAIN c, v \in SUBSET RDNs}
      BY DEF Abstract!Modified
    <3>2. cc = Put(d, held)
      BY <2>6
    <3> HIDE DEF Put
    <3> QED
      BY <2>4, <3>1, <3>2
  <2> QED
    BY <2>1, <2>7
<1> QED
  BY <1>10, <1>11

LEMMA MoveStep ==
    ASSUME Careful, TreeInv, NEW d \in DNs, NEW new \in DNs \cup {Elsewhere},
           HandleModifyDN(d, new)
    PROVE  TreeInv' /\ Content' \in Abstract!Moved(Content) /\ \E o : Touching(o)
<1>1. /\ TreeTypes /\ LookupInv /\ LinksInv /\ OneName /\ ContentInv
      /\ InTree \subseteq made /\ made \subseteq Entries /\ d \in Seq(RDNs)
  BY LookupFinds, ContentHolds, Linked, NameFacts DEF TreeInv, TreeTypes
<1>2. PICK o, p : /\ o = Lookup(d)
                  /\ p = IF parent[o] = None \/ Tail(new) = Tail(d) THEN parent[o]
                         ELSE Lookup(Tail(new))
  OBVIOUS
<1>3. /\ new # <<>> /\ new # Elsewhere /\ o # None /\ p # None /\ parent[o] # None
      /\ Leaf(o) /\ Lookup(new) = None /\ ~Contains(dn[o], new)
      /\ Move2(o, p, new) /\ UNCHANGED made
  BY <1>2 DEF HandleModifyDN, MayMove, Careful
<1>3a. new \in DNs /\ new \in Seq(RDNs)
  BY <1>3, NameFacts
<1>4. PICK q : q = parent[o]
  OBVIOUS
<1>5. o \in InTree \ {Root} /\ dn[o] = d /\ o \in Pool /\ d # <<>>
  <2>1. o \in InTree /\ dn[o] = d
    BY <1>1, <1>2, <1>3 DEF LookupInv
  <2>2. o # Root
    BY <1>1, <1>3, <2>1 DEF TreeTypes
  <2> QED
    BY <1>1, <2>1, <2>2, Linked DEF Entries
<1>6. /\ q \in InTree /\ q \in Entries /\ Head(d) \in DOMAIN children[q]
      /\ children[q][Head(d)] = o /\ dn[q] = Tail(d) /\ Head(d) \in values[o]
  BY <1>1, <1>4, <1>5, Linked
<1>7. p \in InTree /\ dn[p] = Tail(new) /\ p \in Entries
  <2>1. CASE Tail(new) = Tail(d)
    BY <1>1, <1>2, <1>4, <1>6, <2>1
  <2>2. CASE Tail(new) # Tail(d)
    <3>1. Tail(new) \in DNs /\ p = Lookup(Tail(new))
      BY <1>2, <1>3, <1>3a, <2>2, NameFacts
    <3> QED
      BY <1>1, <1>3, <3>1 DEF LookupInv
  <2> QED
    BY <2>1, <2>2
<1>8. p # o
  <2> SUFFICES ASSUME p = o PROVE FALSE
    OBVIOUS
  <2>1. Tail(new) = d /\ d # new
    BY <1>1, <1>3, <1>3a, <1>5, <1>7, ContainsSelf
  <2>2. Contains(d, Tail(new))
    BY <1>1, <2>1, ContainsSelf
  <2>3. Contains(d, new)
    BY <1>1, <1>3, <1>3a, <2>1, <2>2, ContainsUp
  <2> QED
    BY <1>3, <1>5, <2>3
<1>9. \A x \in InTree : dn[x] # new
  BY <1>1, <1>3, <1>3a, EntriesAssumption DEF LookupInv
<1>10. PICK held : held = (values[o] \ {Head(d)}) \cup {Head(new)}
  OBVIOUS
<1>11. held \in SUBSET RDNs /\ Head(new) \in held
  BY <1>1, <1>3, <1>3a, <1>5, <1>10, NameFacts DEF TreeTypes
<1>12. /\ dn' = [dn EXCEPT ![o] = new] /\ parent' = [parent EXCEPT ![o] = p]
       /\ values' = [values EXCEPT ![o] = held] /\ made' = made \cup {o}
       /\ children' = [[children EXCEPT ![q] = Without(children[q], Head(d))]
                       EXCEPT ![p] = With(@, Head(new), o)]
  <2>1. made' = made \cup {o}
    BY <1>1, <1>3, <1>5
  <2>2. OwnValue(d) = {Head(d)} /\ OwnValue(new) = {Head(new)}
    <3>1. d # Elsewhere
      BY <1>1, <1>5, EntriesAssumption, NameFacts DEF Elsewhere
    <3> QED
      BY <1>3, <1>5, <3>1 DEF OwnValue
  <2>3. PICK named, typed \in BOOLEAN :
          /\ named <=> OwnValue(d) \subseteq values[o]
          /\ typed /\ Rename(o, new, named, typed)
    BY <1>3, <1>5, <2>2 DEF Move2, Careful
  <2>4. named = TRUE /\ typed = TRUE
    BY <1>6, <2>2, <2>3
  <2>5. /\ dn' = [dn EXCEPT ![o] = new]
        /\ values' = [values EXCEPT ![o] = held]
    BY <1>5, <1>10, <2>2, <2>3, <2>4 DEF Rename
  <2>6. Relink(o, p, new)
    BY <1>3 DEF Move2
  <2> QED
    BY <1>3, <1>4, <1>5, <2>1, <2>5, <2>6 DEF Relink
<1>13. Head(new) \notin DOMAIN children[p]
  <2> SUFFICES ASSUME Head(new) \in DOMAIN children[p] PROVE FALSE
    OBVIOUS
  <2>1. PICK c : c = children[p][Head(new)]
    OBVIOUS
  <2>2. Link(p, Head(new), c) /\ c \in InTree
    BY <1>1, <1>7, <2>1, Linked DEF LinksInv, Kids
  <2>3. dn[c] \in Seq(RDNs) /\ dn[c] # <<>> /\ Head(dn[c]) = Head(new) /\ Tail(dn[c]) = Tail(new)
    BY <1>1, <1>7, <2>2, NameFacts DEF Link, TreeTypes
  <2>4. \A s \in Seq(RDNs) : s # <<>> => s = <<Head(s)>> \o Tail(s)
    BY HeadTailProperties
  <2>5. dn[c] = new
    BY <1>1, <1>3, <1>3a, <2>3, <2>4
  <2> QED
    BY <1>9, <2>2, <2>5
<1>14. \A x \in Entries : \A r \in DOMAIN children[x] : children[x][r] = o => x = q /\ r = Head(d)
  <2> SUFFICES ASSUME NEW x \in Entries, NEW r \in DOMAIN children[x], children[x][r] = o
               PROVE  x = q /\ r = Head(d)
    OBVIOUS
  <2>1. Link(x, r, o)
    BY <1>1 DEF LinksInv
  <2> QED
    BY <1>4, <1>5, <2>1 DEF Link
<1>15. PICK mid : mid = [children EXCEPT ![q] = Without(children[q], Head(d))]
  OBVIOUS
<1>16. /\ DOMAIN mid = Entries /\ DOMAIN mid[q] = DOMAIN children[q] \ {Head(d)}
       /\ \A r \in DOMAIN mid[q] : mid[q][r] = children[q][r]
       /\ \A x \in Entries \ {q} : mid[x] = children[x]
  BY <1>1, <1>6, <1>15 DEF TreeTypes, Without
<1>17. ASSUME NEW x \in Entries, NEW r
       PROVE  /\ r \in DOMAIN mid[x] <=> r \in DOMAIN children[x] /\ children[x][r] # o
              /\ r \in DOMAIN mid[x] => mid[x][r] = children[x][r]
  <2>1. CASE x = q
    BY <1>6, <1>14, <1>16, <2>1
  <2>2. CASE x # q
    BY <1>14, <1>16, <2>2
  <2> QED
    BY <2>1, <2>2
<1>18. children' = [mid EXCEPT ![p] = With(mid[p], Head(new), o)]
  BY <1>12, <1>15
<1>19. /\ DOMAIN children' = Entries
       /\ DOMAIN children'[p] = DOMAIN mid[p] \cup {Head(new)} /\ children'[p][Head(new)] = o
       /\ \A r \in DOMAIN mid[p] \ {Head(new)} : children'[p][r] = mid[p][r]
       /\ \A x \in Entries \ {p} : children'[x] = mid[x]
  BY <1>7, <1>16, <1>18 DEF With
<1>20. OthersStay(o)
  <2> SUFFICES ASSUME NEW x \in Entries, NEW r \in DOMAIN children[x], children[x][r] # o
               PROVE  r \in DOMAIN children'[x] /\ children'[x][r] = children[x][r]
    BY DEF OthersStay
  <2>1. r \in DOMAIN mid[x] /\ mid[x][r] = children[x][r]
    BY <1>17
  <2>2. CASE x = p
    BY <1>13, <1>19, <2>1, <2>2
  <2>3. CASE x # p
    BY <1>19, <2>1, <2>3
  <2> QED
    BY <2>2, <2>3
<1>21. ASSUME NEW x \in Entries, NEW r \in DOMAIN children'[x], ~(x = p /\ r = Head(new))
       PROVE  /\ r \in DOMAIN children[x] /\ children'[x][r] = children[x][r]
              /\ children[x][r] # o
  <2>1. r \in DOMAIN mid[x] /\ children'[x][r] = mid[x][r]
    <3>1. CASE x = p
      BY <1>19, <1>21, <3>1
    <3>2. CASE x # p
      BY <1>19, <3>2
    <3> QED
      BY <3>1, <3>2
  <2> QED
    BY <1>17, <2>1
<1>22. Placing(o, p, new, held)
  <2>1. Head(new) \in DOMAIN children'[p] /\ children'[p][Head(new)] = o /\ DOMAIN children' = Entries
    BY <1>19
  <2> QED
    BY <1>12, <1>20, <1>21, <2>1 DEF Placing
<1>23. Free(o, p, new)
  BY <1>3, <1>3a, <1>7, <1>8, <1>9 DEF Free
<1>24. InTree' = InTree /\ TreeInv'
  <2>1. InTree' = InTree \cup {o} /\ TreeInv'
    BY <1>3a, <1>5, <1>7, <1>11, <1>22, <1>23, Placed
  <2> QED
    BY <1>5, <2>1
<1>25. Content' \in Abstract!Moved(Content)
  <2>1. PICK c, cc : c = Content /\ cc = Content'
    OBVIOUS
  <2>2. /\ c = [e \in DOMAIN c |-> c[e]] /\ DOMAIN c = {dn[x] : x \in InTree}
        /\ \A x \in InTree : c[dn[x]] = values[x]
    BY <1>1, <2>1 DEF ContentInv
  <2>3. /\ cc = [e \in DOMAIN cc |-> cc[e]] /\ DOMAIN cc = {dn'[x] : x \in InTree}
        /\ \A x \in InTree : cc[dn'[x]] = values'[x]
    BY <1>24, <2>1, ContentHoldsNext DEF ContentInv
  <2>4. /\ dn'[o] = new /\ values'[o] = held
        /\ \A x \in InTree \ {o} : dn'[x] = dn[x] /\ values'[x] = values[x]
    BY <1>1, <1>5, <1>12 DEF TreeTypes
  <2>5. \A x \in InTree \ {o} : dn[x] # d
    BY <1>1, <1>5 DEF OneName
  <2>6. d \in DOMAIN c /\ new \notin DOMAIN c /\ c[d] = values[o]
    BY <1>5, <1>9, <2>2
  <2>7. DOMAIN cc = (DOMAIN c \ {d}) \cup {new}
    BY <1>5, <2>2, <2>3, <2>4, <2>5
  <2>8. \A e \in DOMAIN cc : cc[e] = IF e = new THEN held ELSE c[e]
    BY <1>9, <2>2, <2>3, <2>4
  <2> DEFINE Renamed(e) ==
        IF Abstract!Contains(d, e) THEN SubSeq(e, 1, Len(e) - Len(d)) \o new ELSE e
  <2>9. Renamed(d) = new
    <3>1. Abstract!Contains(d, d)
      BY <1>1, ContainsSelf DEF Abstract!Contains, Contains
    <3>2. SubSeq(d, 1, Len(d) - Len(d)) = <<>>
      BY <1>1, LenProperties, SubSeqEmpty
    <3> QED
      BY <1>1, <1>3a, <3>1, <3>2, ConcatEmptySeq
  <2>10. ASSUME NEW e \in DOMAIN c, e # d PROVE Renamed(e) = e
    <3>1. ~Contains(d, e)
      BY <1>3, <1>5, <2>2, <2>10, LeafIsAlone
    <3> QED
      BY <3>1 DEF Abstract!Contains, Contains
  <2> HIDE DEF Renamed
  <2>11. {Renamed(e) : e \in DOMAIN c} = DOMAIN cc
    BY <2>6, <2>7, <2>9, <2>10
  <2>12. ASSUME NEW f \in DOMAIN cc
         PROVE  cc[f] = IF f = new THEN (c[d] \ {Head(d)}) \cup {Head(new)}
                        ELSE c[CHOOSE e \in DOMAIN c : Renamed(e) = f]
    <3>1. CASE f = new
      BY <1>10, <2>6, <2>8, <3>1
    <3>2. CASE f # new
      <4>1. PICK h : h = CHOOSE e \in DOMAIN c : Renamed(e) = f
        OBVIOUS
      <4>2. f \in DOMAIN c /\ f # d
        BY <2>7, <3>2
      <4>3. h \in DOMAIN c /\ Renamed(h) = f
        BY <2>10, <4>1, <4>2
      <4>4. h = f
        BY <2>9, <2>10, <3>2, <4>3
      <4> QED
        BY <2>8, <3>2, <4>1, <4>4
    <3> QED
      BY <3>1, <3>2
  <2>13. cc = [f \in {Renamed(e) : e \in DOMAIN c} |->
                 IF f = new THEN (c[d] \ {Head(d)}) \cup {Head(new)}
                 ELSE c[CHOOSE e \in DOMAIN c : Renamed(e) = f]]
    BY <2>3, <2>11, <2>12
  <2>14. cc = Abstract!MovedTo(c, d, new)
    BY <2>13 DEF Abstract!MovedTo, Renamed
  <2>15. <<d, new>> \in {m \in (DOMAIN c \ {<<>>}) \X (Abstract!DNs \ DOMAIN c) :
                           Abstract!Up(m[2]) \in DOMAIN c /\ ~Abstract!Contains(m[1], m[2])}
    <3>1. Tail(new) \in DOMAIN c
      BY <1>7, <2>2
    <3>2. ~Abstract!Contains(d, new)
      BY <1>3, <1>5 DEF Abstract!Contains, Contains
    <3>3. new \in Abstract!DNs
      BY <1>3a DEF Abstract!DNs, DNs
    <3> QED
      BY <1>3, <1>5, <2>6, <3>1, <3>2, <3>3 DEF Abstract!Up
  <2>16. cc \in Abstract!Moved(c)
    BY <2>14, <2>15 DEF Abstract!Moved
  <2> QED
    BY <2>1, <2>16
<1>26. Touching(o)
  <2>1. dn'[o] = new /\ o \in InTree'
    BY <1>1, <1>5, <1>12, <1>24 DEF TreeTypes
  <2>2. \A x \in Entries \ {o} : dn'[x] = dn[x] /\ parent'[x] = parent[x]
    BY <1>1, <1>12 DEF TreeTypes
  <2> QED
    BY <1>5, <1>9, <1>24, <2>1, <2>2 DEF Touching, Entries
<1> QED
  BY <1>24, <1>25, <1>26

-----------------------------------------------------------------------------
(* Searches leave the tree alone.                                          *)

SearchStep ==
    \/ \E s \in Searches, d \in DNs, how \in Scopes : HandleSearch(s, d, how)
    \/ \E s \in Searches : SearchedOn(s) \/ SearchedOneLevel(s)

LEMMA SameTree ==
    ASSUME TreeInv, UNCHANGED treeVars
    PROVE  TreeInv' /\ Content' = Content
<1>1. UNCHANGED <<dn, parent, children, values, made>>
  BY DEF treeVars
<1>2. InTree' = InTree
  BY <1>1 DEF InTree, Kids
<1>3. TreeInv'
  <2>1. TreeTypes'
    BY <1>1 DEF TreeInv, TreeTypes
  <2>2. LinksInv'
    BY <1>1, <1>2 DEF TreeInv, LinksInv, Link
  <2>3. OneName'
    BY <1>1, <1>2 DEF TreeInv, OneName
  <2>4. AboveInv'
    BY <1>1, <1>2 DEF TreeInv, AboveInv, Contains
  <2> QED
    BY <2>1, <2>2, <2>3, <2>4 DEF TreeInv
<1>4. ContentInv /\ ContentInv'
  BY <1>3, ContentHolds, ContentHoldsNext
<1> QED
  BY <1>1, <1>2, <1>3, <1>4, SameContent

LEMMA InitTree == Init => TreeInv /\ Content = [d \in {<<>>} |-> {}]
<1> SUFFICES ASSUME Init PROVE TreeInv /\ Content = [d \in {<<>>} |-> {}]
  OBVIOUS
<1>1. /\ \A o \in Entries : dn[o] = <<>> /\ parent[o] = None /\ DOMAIN children[o] = {} /\ values[o] = {}
      /\ made = {Root} /\ DOMAIN children = Entries /\ Root \in Entries
  <2>1. \A o \in Entries : children[o] = <<>>
    BY DEF Init
  <2>2. DOMAIN <<>> = {}
    OBVIOUS
  <2> QED
    BY <2>1, <2>2 DEF Init, Entries
<1>2. InTree = {Root}
  BY <1>1 DEF InTree, Kids
<1>3. TreeTypes
  <2>1. /\ dn \in [Entries -> DNs] /\ parent \in [Entries -> Entries \cup {None}]
        /\ values \in [Entries -> SUBSET RDNs]
    BY NameFacts DEF Init
  <2> QED
    BY <1>1, <2>1, EntriesAssumption DEF TreeTypes
<1>4. LinksInv /\ OneName
  BY <1>1, <1>2 DEF LinksInv, OneName
<1>5. AboveInv
  <2>1. \A e \in Seq(RDNs) : Contains(e, <<>>) => e = <<>>
    BY ContainsSelf
  <2> QED
    BY <1>1, <1>2, <2>1 DEF AboveInv
<1>6. TreeInv
  BY <1>3, <1>4, <1>5 DEF TreeInv
<1>7. Content = [d \in {<<>>} |-> {}]
  <2>1. PICK c : c = Content
    OBVIOUS
  <2>2. c = [d \in DOMAIN c |-> c[d]] /\ DOMAIN c = {<<>>} /\ c[<<>>] = {}
    <3>1. ContentInv
      BY <1>6, ContentHolds
    <3> QED
      BY <1>1, <1>2, <2>1, <3>1 DEF ContentInv
  <2>3. c = [d \in {<<>>} |-> {}]
    BY <2>2
  <2> QED
    BY <2>1, <2>3
<1> QED
  BY <1>6, <1>7

\* Every step of the tree is a step of the directory, or none of its business.
LEMMA TreeStep ==
    ASSUME Careful, TreeInv, [Next]_vars
    PROVE  TreeInv' /\ [Abstract!Next]_Content
<1>1. CASE UNCHANGED treeVars
  BY <1>1, SameTree
<1>2. ASSUME NEW d \in DNs, NEW held \in SUBSET RDNs, HandleAdd(d, held) \/ HandleModify(d, held)
      PROVE  TreeInv' /\ [Abstract!Next]_Content
  BY <1>2, AddStep, ModifyStep DEF Abstract!Next
<1>3. ASSUME NEW d \in DNs, HandleDelete(d) PROVE TreeInv' /\ [Abstract!Next]_Content
  BY <1>3, DeleteStep DEF Abstract!Next
<1>4. ASSUME NEW d \in DNs, NEW new \in DNs \cup {Elsewhere}, HandleModifyDN(d, new)
      PROVE  TreeInv' /\ [Abstract!Next]_Content
  BY <1>4, MoveStep DEF Abstract!Next
<1>5. UNCHANGED vars \/ SearchStep => UNCHANGED treeVars
  BY DEF vars, SearchStep, HandleSearch, SearchedOn, SearchedOneLevel
<1> QED
  BY <1>1, <1>2, <1>3, <1>4, <1>5 DEF Next, SearchStep

-----------------------------------------------------------------------------
(* The state of the searches.                                              *)

LEMMA FoundNamesNext == TreeInv' => Found' = {dn'[o] : o \in InTree'}
<1>1. TreeInv' => (Found = {dn[o] : o \in InTree} /\ Found \subseteq DNs)'
  BY FoundNames, PTL
<1> QED
  BY <1>1

\* The children of an entry are the linked entries whose parent it is.
LEMMA KidsByParent ==
    ASSUME TreeInv, NEW o \in Entries
    PROVE  /\ \A x : x \in Kids(o) <=> x \in InTree \ {Root} /\ parent[x] = o
           /\ Kids(o) \subseteq Pool /\ (Kids(o) # {} => o \in InTree)
<1>1. TreeTypes /\ LinksInv
  BY DEF TreeInv
<1>2. ASSUME NEW x \in Kids(o) PROVE x \in InTree \ {Root} /\ parent[x] = o /\ o \in InTree
  BY Linked DEF Link
<1>3. ASSUME NEW x \in InTree \ {Root}, parent[x] = o PROVE x \in Kids(o)
  BY <1>3, Linked
<1>4. InTree \subseteq Entries
  BY <1>1, Linked DEF TreeTypes
<1> QED
  BY <1>2, <1>3, <1>4 DEF Entries

LEMMA KidsByParentNext ==
    TreeInv' => \A o \in Entries : \A x : x \in Kids(o)' <=> x \in InTree' \ {Root} /\ parent'[x] = o
<1>1. TreeInv => \A o \in Entries : \A x : x \in Kids(o) <=> x \in InTree \ {Root} /\ parent[x] = o
  BY KidsByParent
<1>2. TreeInv' => (\A o \in Entries : \A x : x \in Kids(o) <=> x \in InTree \ {Root} /\ parent[x] = o)'
  BY <1>1, PTL
<1> QED
  BY <1>2

\* An element is taken from a list of lists, and what follows is dropped.
LEMMA Popped ==
    ASSUME NEW S, NEW q \in Seq(S), NEW n \in DOMAIN q, NEW v \in S
    PROVE  LET r == [SubSeq(q, 1, n) EXCEPT ![n] = v]
           IN r \in Seq(S) /\ Len(r) = n /\ \A i \in 1..n : r[i] = IF i = n THEN v ELSE q[i]
<1>1. n \in 1..Len(q) /\ Len(q) \in Nat /\ \A i \in 1..Len(q) : q[i] \in S
  BY LenProperties, ElementOfSeq
<1>2. PICK p : p = SubSeq(q, 1, n)
  OBVIOUS
<1>3. p \in Seq(S) /\ Len(p) = n - 1 + 1 /\ \A i \in 1..n - 1 + 1 : p[i] = q[1 + i - 1]
  <2>1. 1 \in Int /\ n \in Int /\ 1 <= n /\ \A i \in 1..n : q[i] \in S
    BY <1>1
  <2> QED
    BY <1>2, <2>1, SubSeqProperties
<1>4. n - 1 + 1 = n /\ \A i \in 1..n : 1 + i - 1 = i
  BY <1>1
<1>5. Len(p) = n /\ \A i \in 1..n : p[i] = q[i]
  BY <1>3, <1>4
<1>6. DOMAIN p = 1..n
  BY <1>3, <1>5, LenProperties
<1>7. PICK r : r = [p EXCEPT ![n] = v]
  OBVIOUS
<1>8. r \in Seq(S) /\ Len(r) = n /\ \A i \in 1..n : r[i] = IF i = n THEN v ELSE p[i]
  BY <1>1, <1>3, <1>5, <1>6, <1>7, ExceptSeq
<1> QED
  BY <1>2, <1>5, <1>7, <1>8

LEMMA ListsTyped ==
    ASSUME TreeInv, SearchInv, NEW s \in Searches, phase[s] = "walking"
    PROVE  /\ Lists(s) \in Seq(SUBSET Pool) /\ Len(todo[s]) \in Nat
           /\ DOMAIN Lists(s) = 1..Len(todo[s]) + 1
           /\ \A i \in 1..Len(todo[s]) : Lists(s)[i] = todo[s][i]
           /\ Lists(s)[Len(todo[s]) + 1] = Kids(last[s])
<1>1. last[s] \in Entries /\ todo[s] \in Seq(SUBSET Pool) /\ Kids(last[s]) \in SUBSET Pool
  BY KidsByParent DEF SearchInv
<1>2. PICK q, v : q = todo[s] /\ v = Kids(last[s])
  OBVIOUS
<1>3. /\ Append(q, v) \in Seq(SUBSET Pool) /\ Len(Append(q, v)) = Len(q) + 1
      /\ \A i \in 1..Len(q) : Append(q, v)[i] = q[i]
      /\ Append(q, v)[Len(q) + 1] = v /\ Len(q) \in Nat
  BY <1>1, <1>2, AppendProperties, LenProperties
<1>4. DOMAIN Append(q, v) = 1..Len(q) + 1
  BY <1>3, LenProperties
<1> QED
  BY <1>2, <1>3, <1>4 DEF Lists

\* A change of the tree leaves searches where they are.
LEMMA NoticedTyped ==
    ASSUME SearchInv, UNCHANGED searchVars, Noticed, changes' \in 0..MaxChanges
    PROVE  SearchInv'
<1>1. UNCHANGED <<phase, scope, last, todo, sent>>
  BY DEF searchVars
<1>2. stay' \in [Searches -> SUBSET DNs]
  BY DEF Noticed, SearchInv
<1>3. DOMAIN base' = Searches
  BY DEF Noticed
<1>4. ASSUME NEW s \in Searches
      PROVE  /\ DOMAIN base'[s] = {"entry", "size", "same", "handed"}
             /\ base'[s].entry \in Entries /\ base'[s].same \in BOOLEAN
  <2>1. /\ DOMAIN base[s] = {"entry", "size", "same", "handed"}
        /\ base[s].entry \in Entries /\ base[s].same \in BOOLEAN
    BY DEF SearchInv
  <2>2. PICK b, o : b = base[s] /\ o = base[s].entry
    OBVIOUS
  <2>3. \/ base'[s] = b
        \/ base'[s] = [b EXCEPT !.same = b.same /\ children'[o] = children[o]]
    BY <2>2 DEF Noticed
  <2> QED
    BY <2>1, <2>2, <2>3
<1> QED
  BY <1>1, <1>2, <1>3, <1>4 DEF SearchInv

LEMMA SentTyped ==
    ASSUME TreeInv, SearchInv, NEW s \in Searches, NEW o \in Entries, SendEntry(s, o)
    PROVE  /\ phase' \in [Searches -> {"idle", "walking", "done", "failed"}]
           /\ phase'[s] = "walking" /\ last'[s] = o /\ last' \in [Searches -> Entries \cup {None}]
           /\ \A t \in Searches : phase'[t] = "walking" => last'[t] \in Entries
           /\ sent' \in [Searches -> [DNs -> Nat]]
           /\ sent'[s][dn[o]] = sent[s][dn[o]] + 1 
           /\ \A d \in DNs \ {dn[o]} : sent'[s][d] = sent[s][d]
           /\ \A t \in Searches \ {s} : /\ phase'[t] = phase[t] /\ last'[t] = last[t]
                                        /\ sent'[t] = sent[t]
<1>1. dn[o] \in DNs
  BY DEF TreeInv, TreeTypes
<1>2. PICK f : f = [sent[s] EXCEPT ![dn[o]] = sent[s][dn[o]] + 1]
  OBVIOUS
<1>3. sent[s] \in [DNs -> Nat]
  BY DEF SearchInv
<1>4. f \in [DNs -> Nat] /\ f[dn[o]] = sent[s][dn[o]] + 1 /\ \A d \in DNs \ {dn[o]} : f[d] = sent[s][d]
  BY <1>1, <1>2, <1>3
<1>5. sent' = [sent EXCEPT ![s] = f]
  BY <1>2 DEF SendEntry
<1>6. sent' \in [Searches -> [DNs -> Nat]] /\ sent'[s] = f /\ \A t \in Searches \ {s} : sent'[t] = sent[t]
  BY <1>4, <1>5 DEF SearchInv
<1>7. /\ phase' \in [Searches -> {"idle", "walking", "done", "failed"}]
      /\ phase'[s] = "walking" /\ last'[s] = o /\ last' \in [Searches -> Entries \cup {None}]
      /\ \A t \in Searches \ {s} : phase'[t] = phase[t] /\ last'[t] = last[t]
  BY DEF SendEntry, SearchInv
<1>8. \A t \in Searches : phase'[t] = "walking" => last'[t] \in Entries
  BY <1>7 DEF SearchInv
<1> QED
  BY <1>4, <1>6, <1>7, <1>8

LEMMA EndTyped ==
    ASSUME SearchInv, NEW s \in Searches, NEW how \in {"done", "failed"}, End(s, how)
    PROVE  /\ phase' \in [Searches -> {"idle", "walking", "done", "failed"}]
           /\ phase'[s] = how /\ last' \in [Searches -> Entries \cup {None}] /\ sent' = sent
           /\ \A t \in Searches : phase'[t] = "walking" => last'[t] \in Entries
           /\ \A t \in Searches \ {s} : phase'[t] = phase[t] /\ last'[t] = last[t]
BY DEF End, SearchInv

LEMMA SearchTyped ==
    ASSUME TreeInv, SearchInv, NEW s \in Searches, NEW d \in DNs, NEW how \in Scopes,
           HandleSearch(s, d, how)
    PROVE  /\ SearchInv' /\ stay'[s] = InScope(d, how) /\ scope'[s] = how
           /\ base'[s] = [entry |-> Lookup(d), size |-> Cardinality(Kids(Lookup(d))),
                          same |-> TRUE, handed |-> {}]
           /\ \A t \in Searches \ {s} : stay'[t] = stay[t] /\ scope'[t] = scope[t] /\ base'[t] = base[t]
<1>1. PICK o : o = Lookup(d)
  OBVIOUS
<1>2. o \in Entries /\ Kids(o) \subseteq Entries
  <2>1. o \in InTree /\ InTree \subseteq Entries
    BY <1>1, LookupFinds, Linked DEF HandleSearch, LookupInv, TreeInv, TreeTypes
  <2> QED
    BY <2>1, KidsByParent
<1>3. how \in {"base", "one", "sub"}
  BY ChoicesAssumption
<1>4. stay' \in [Searches -> SUBSET DNs] /\ stay'[s] = InScope(d, how)
      /\ \A t \in Searches \ {s} : stay'[t] = stay[t]
  <2>1. InScope(d, how) \in SUBSET DNs
    BY <1>3, FoundNames DEF InScope
  <2> QED
    BY <2>1 DEF HandleSearch, SearchInv
<1>5. /\ DOMAIN base' = Searches
      /\ base'[s] = [entry |-> o, size |-> Cardinality(Kids(o)), same |-> TRUE, handed |-> {}]
      /\ \A t \in Searches \ {s} : base'[t] = base[t]
  BY <1>1 DEF HandleSearch, SearchInv
<1>6. \A t \in Searches : /\ DOMAIN base'[t] = {"entry", "size", "same", "handed"}
                          /\ base'[t].entry \in Entries /\ base'[t].same \in BOOLEAN
  <2>1. /\ DOMAIN base'[s] = {"entry", "size", "same", "handed"}
        /\ base'[s].entry \in Entries /\ base'[s].same \in BOOLEAN
    <3>1. PICK n : n = Cardinality(Kids(o))
      OBVIOUS
    <3>2. base'[s] = [entry |-> o, size |-> n, same |-> TRUE, handed |-> {}]
      BY <1>5, <3>1
    <3> QED
      BY <1>2, <3>2
  <2>2. \A t \in Searches \ {s} : /\ DOMAIN base[t] = {"entry", "size", "same", "handed"}
                                  /\ base[t].entry \in Entries /\ base[t].same \in BOOLEAN
    BY DEF SearchInv
  <2> QED
    BY <1>5, <2>1, <2>2
<1>7. /\ scope' \in [Searches -> Scopes \cup {"none"}] /\ scope'[s] = how
      /\ \A t \in Searches \ {s} : scope'[t] = scope[t]
  BY DEF HandleSearch, SearchInv
<1>8. \/ \E x \in Entries : SendEntry(s, x)
      \/ End(s, "done")
  BY <1>1, <1>2 DEF HandleSearch
<1>9. /\ phase' \in [Searches -> {"idle", "walking", "done", "failed"}]
      /\ last' \in [Searches -> Entries \cup {None}] /\ sent' \in [Searches -> [DNs -> Nat]]
      /\ \A t \in Searches : phase'[t] = "walking" => last'[t] \in Entries
  <2>1. CASE End(s, "done")
    <3>1. sent \in [Searches -> [DNs -> Nat]]
      BY DEF SearchInv
    <3> QED
      BY <2>1, <3>1, EndTyped
  <2>2. ASSUME NEW x \in Entries, SendEntry(s, x)
        PROVE /\ phase' \in [Searches -> {"idle", "walking", "done", "failed"}]
              /\ last' \in [Searches -> Entries \cup {None}] /\ sent' \in [Searches -> [DNs -> Nat]]
              /\ \A t \in Searches : phase'[t] = "walking" => last'[t] \in Entries
    BY <2>2, SentTyped
  <2> QED
    BY <1>8, <2>1, <2>2
<1>10. todo' = todo /\ changes' = changes
  BY DEF HandleSearch, treeVars
<1> QED
  BY <1>1, <1>4, <1>5, <1>6, <1>7, <1>9, <1>10 DEF SearchInv

LEMMA WalkTyped ==
    ASSUME TreeInv, SearchInv, NEW s \in Searches, SearchedOn(s)
    PROVE  SearchInv'
<1>1. UNCHANGED <<changes, scope, base, stay>> /\ phase[s] = "walking"
  BY DEF SearchedOn, treeVars
<1>2. PICK lists : lists = Lists(s)
  OBVIOUS
<1>3. lists \in Seq(SUBSET Pool) /\ \A n \in DOMAIN lists : lists[n] \in SUBSET Pool
  BY <1>1, <1>2, ListsTyped, ElementOfSeq, LenProperties
<1>4. \/ End(s, "done") /\ todo' = [todo EXCEPT ![s] = <<>>]
      \/ \E n \in DOMAIN lists : \E c \in lists[n] :
            SendEntry(s, c) /\ todo' = [todo EXCEPT ![s] = [SubSeq(lists, 1, n) EXCEPT ![n] = @ \ {c}]]
  BY <1>2 DEF SearchedOn
<1>5. CASE End(s, "done") /\ todo' = [todo EXCEPT ![s] = <<>>]
  <2>1. <<>> \in Seq(SUBSET Pool)
    BY EmptySeq
  <2> QED
    BY <1>1, <1>5, <2>1, EndTyped DEF SearchInv
<1>6. ASSUME NEW n \in DOMAIN lists, NEW c \in lists[n], SendEntry(s, c),
             todo' = [todo EXCEPT ![s] = [SubSeq(lists, 1, n) EXCEPT ![n] = @ \ {c}]]
      PROVE  SearchInv'
  <2>1. c \in Entries /\ lists[n] \ {c} \in SUBSET Pool
    BY <1>3 DEF Entries
  <2>2. PICK r : r = [SubSeq(lists, 1, n) EXCEPT ![n] = lists[n] \ {c}]
    OBVIOUS
  <2>3. r \in Seq(SUBSET Pool)
    BY <1>3, <2>1, <2>2, Popped
  <2>4. [SubSeq(lists, 1, n) EXCEPT ![n] = @ \ {c}] = r
    <3>1. SubSeq(lists, 1, n)[n] = lists[n]
      BY <1>3, ElementOfSeq, LenProperties, SubSeqProperties
    <3> QED
      BY <2>2, <3>1
  <2>5. DOMAIN todo' = Searches /\ \A t \in Searches : todo'[t] \in Seq(SUBSET Pool)
    BY <1>6, <2>3, <2>4 DEF SearchInv
  <2>6. /\ phase' \in [Searches -> {"idle", "walking", "done", "failed"}]
        /\ last' \in [Searches -> Entries \cup {None}] /\ sent' \in [Searches -> [DNs -> Nat]]
        /\ \A t \in Searches : phase'[t] = "walking" => last'[t] \in Entries
    BY <1>6, <2>1, SentTyped
  <2> QED
    BY <1>1, <2>5, <2>6 DEF SearchInv
<1> QED
  BY <1>4, <1>5, <1>6

LEMMA OneLevelTyped ==
    ASSUME TreeInv, SearchInv, NEW s \in Searches, SearchedOneLevel(s)
    PROVE  /\ SearchInv' /\ base'[s].entry = base[s].entry /\ base'[s].same = base[s].same
           /\ base'[s].handed = base[s].handed \cup {last[s]}
           /\ \A t \in Searches \ {s} : base'[t] = base[t]
<1>1. UNCHANGED <<changes, scope, todo, stay>>
  BY DEF SearchedOneLevel, treeVars
<1>2. /\ DOMAIN base[s] = {"entry", "size", "same", "handed"}
      /\ base[s].entry \in Entries /\ base[s].same \in BOOLEAN
  BY DEF SearchInv
<1>3. PICK b, handed : b = base[s] /\ handed = base[s].handed \cup {last[s]}
  OBVIOUS
<1>4. DOMAIN base' = Searches /\ base'[s] = [b EXCEPT !.handed = handed]
      /\ \A t \in Searches \ {s} : base'[t] = base[t]
  BY <1>3 DEF SearchedOneLevel, SearchInv
<1>5. /\ DOMAIN base'[s] = {"entry", "size", "same", "handed"} /\ base'[s].entry = b.entry
      /\ base'[s].same = b.same /\ base'[s].handed = handed
  BY <1>2, <1>3, <1>4
<1>6. End(s, "failed") \/ End(s, "done") \/ \E c \in Entries : SendEntry(s, c)
  <2>1. Kids(base[s].entry) \subseteq Entries
    BY <1>2, KidsByParent DEF Entries
  <2> QED
    BY <2>1 DEF SearchedOneLevel
<1>7. /\ phase' \in [Searches -> {"idle", "walking", "done", "failed"}]
      /\ last' \in [Searches -> Entries \cup {None}] /\ sent' \in [Searches -> [DNs -> Nat]]
      /\ \A t \in Searches : phase'[t] = "walking" => last'[t] \in Entries
  <2>1. CASE End(s, "done") \/ End(s, "failed")
    <3>1. sent \in [Searches -> [DNs -> Nat]]
      BY DEF SearchInv
    <3> QED
      BY <2>1, <3>1, EndTyped
  <2>2. ASSUME NEW x \in Entries, SendEntry(s, x)
        PROVE /\ phase' \in [Searches -> {"idle", "walking", "done", "failed"}]
              /\ last' \in [Searches -> Entries \cup {None}] /\ sent' \in [Searches -> [DNs -> Nat]]
              /\ \A t \in Searches : phase'[t] = "walking" => last'[t] \in Entries
    BY <2>2, SentTyped
  <2> QED
    BY <1>6, <2>1, <2>2
<1>8. SearchInv'
  BY <1>1, <1>2, <1>3, <1>4, <1>5, <1>7 DEF SearchInv
<1> QED
  BY <1>3, <1>4, <1>5, <1>8

LEMMA TreeChanges ==
    ASSUME SearchInv, NEW d \in DNs, NEW new \in DNs \cup {Elsewhere}, NEW held \in SUBSET RDNs,
           \/ HandleAdd(d, held) \/ HandleDelete(d) \/ HandleModifyDN(d, new) \/ HandleModify(d, held)
    PROVE  SearchInv'
<1>1. changes' \in 0..MaxChanges
  <2>1. changes \in 0..MaxChanges /\ MaxChanges \in Nat
    BY ChoicesAssumption DEF SearchInv
  <2>2. changes' = changes \/ (changes < MaxChanges /\ changes' = changes + 1)
    <3>1. CASE HandleAdd(d, held)
      BY <3>1 DEF HandleAdd
    <3>2. CASE HandleDelete(d)
      BY <3>2 DEF HandleDelete
    <3>3. CASE HandleModifyDN(d, new)
      BY <3>3 DEF HandleModifyDN
    <3>4. CASE HandleModify(d, held)
      BY <3>4 DEF HandleModify
    <3> QED
      BY <3>1, <3>2, <3>3, <3>4
  <2> QED
    BY <2>1, <2>2
<1>2. CASE HandleModify(d, held)
  <2>1. UNCHANGED <<phase, scope, last, todo, sent, base, stay>>
    BY <1>2 DEF HandleModify, searchVars
  <2> QED
    BY <1>1, <2>1 DEF SearchInv
<1>3. CASE HandleAdd(d, held) \/ HandleDelete(d) \/ HandleModifyDN(d, new)
  <2>1. UNCHANGED searchVars /\ Noticed
    BY <1>3 DEF HandleAdd, HandleDelete, HandleModifyDN
  <2> QED
    BY <1>1, <2>1, NoticedTyped
<1> QED
  BY <1>2, <1>3

LEMMA SearchesTyped == ASSUME TreeInv, SearchInv, [Next]_vars PROVE SearchInv'
<1>1. CASE UNCHANGED vars
  BY <1>1 DEF SearchInv, vars, treeVars, searchVars
<1>2. ASSUME NEW d \in DNs, NEW held \in SUBSET RDNs, HandleAdd(d, held) \/ HandleModify(d, held)
      PROVE  SearchInv'
  BY <1>2, TreeChanges
<1>3. {} \in SUBSET RDNs
  OBVIOUS
<1>4. ASSUME NEW d \in DNs, HandleDelete(d) PROVE SearchInv'
  BY <1>3, <1>4, TreeChanges
<1>5. ASSUME NEW d \in DNs, NEW new \in DNs \cup {Elsewhere}, HandleModifyDN(d, new) PROVE SearchInv'
  BY <1>3, <1>5, TreeChanges
<1> QED
  BY <1>1, <1>2, <1>4, <1>5, SearchTyped, WalkTyped, OneLevelTyped DEF Next

LEMMA InitSearches == Init => SearchInv
<1>1. <<>> \in Seq(SUBSET Pool) /\ 0 \in 0..MaxChanges
  BY EmptySeq, ChoicesAssumption
<1>2. Root \in Entries
  BY DEF Entries
<1> SUFFICES ASSUME Init PROVE SearchInv
  OBVIOUS
<1>3. changes \in 0..MaxChanges /\ DOMAIN base = Searches /\ DOMAIN todo = Searches
  BY <1>1 DEF Init
<1>4. \A s \in Searches : todo[s] \in Seq(SUBSET Pool)
  BY <1>1 DEF Init
<1>5. sent \in [Searches -> [DNs -> Nat]] /\ stay \in [Searches -> SUBSET DNs]
  BY DEF Init
<1>6. /\ phase \in [Searches -> {"idle", "walking", "done", "failed"}]
      /\ scope \in [Searches -> Scopes \cup {"none"}] /\ last \in [Searches -> Entries \cup {None}]
      /\ \A s \in Searches : phase[s] = "walking" => last[s] \in Entries
  BY DEF Init
<1>7. \A s \in Searches : /\ DOMAIN base[s] = {"entry", "size", "same", "handed"}
                          /\ base[s].entry \in Entries /\ base[s].same \in BOOLEAN
  BY <1>2 DEF Init
<1> QED
  BY <1>3, <1>4, <1>5, <1>6, <1>7 DEF SearchInv

-----------------------------------------------------------------------------
(* Searches, while the tree changes beneath them.                          *)

\* The entries at the names that stay, and those that are on the lists.
Steady(s) == {o \in InTree : dn[o] \in stay[s]}
Listed(s, o) == \E n \in DOMAIN Lists(s) : o \in Lists(s)[n]
Reached(s, o) == Listed(s, o) \/ o = last[s]

\* The entries on the lists that p is, or is below.
Ahead(s, p) == {o \in Steady(s) : Listed(s, o) /\ Contains(dn[o], dn[p])}

\* What stays is found, and what is reached of it is linked; above what stays
\* only that which stays is reached, and between two that stay all do.  It is
\* sent once there is no more of it, and of what is above it, on the lists, of
\* which one at most is there, on one list.
SubtreeInv(s) ==
    /\ stay[s] \subseteq {dn[o] : o \in InTree}
    /\ \A o \in Entries : Reached(s, o) /\ dn[o] \in stay[s] => o \in InTree
    /\ \A o \in InTree, p \in Steady(s) :
          Reached(s, o) /\ Contains(dn[o], dn[p]) => o \in Steady(s)
    /\ \A o, p \in Steady(s), q \in InTree :
          Contains(dn[o], dn[q]) /\ Contains(dn[q], dn[p]) => q \in Steady(s)
    /\ \A o \in Steady(s) : \A i, j \in DOMAIN Lists(s) :
          o \in Lists(s)[i] /\ o \in Lists(s)[j] => i = j
    /\ \A p \in Steady(s) : \A o, q \in Ahead(s, p) : o = q
    /\ \A p \in Steady(s) : sent[s][dn[p]] = IF Ahead(s, p) = {} THEN 1 ELSE 0

\* The children that were handed out, and no others, are sent.
OneLevelInv(s) ==
    LET o == base[s].entry
    IN /\ stay[s] \subseteq {dn[k] : k \in Kids(o)}
       /\ last[s] \in Kids(o)
       /\ \A k \in Kids(o) :
             sent[s][dn[k]] = IF k \in base[s].handed \cup {last[s]} THEN 1 ELSE 0

AllSent(s) == \A d \in stay[s] : sent[s][d] = 1

WalkInv(s) ==
    /\ phase[s] = "idle" => stay[s] = {} /\ todo[s] = <<>> /\ \A d \in DNs : sent[s][d] = 0
    /\ phase[s] = "walking" =>
         /\ scope[s] \in {"base", "one", "sub"}
         /\ scope[s] = "base" => AllSent(s)
         /\ scope[s] = "one" /\ base[s].same => OneLevelInv(s)
         /\ scope[s] = "sub" => SubtreeInv(s)
    /\ phase[s] = "done" /\ (scope[s] = "one" => base[s].same) => AllSent(s)

\* A name is below those above one it is below.
LEMMA ContainsOrder ==
    ASSUME NEW d \in Seq(RDNs), NEW e \in Seq(RDNs), NEW f \in Seq(RDNs)
    PROVE  /\ Contains(d, e) /\ Contains(e, f) => Contains(d, f)
           /\ Contains(d, f) /\ Contains(e, f) /\ Len(d) = Len(e) => d = e
           /\ Contains(d, e) => Len(d) <= Len(e)
<1>1. PICK l, m, n : l = Len(d) /\ m = Len(e) /\ n = Len(f)
  OBVIOUS
<1>2. l \in Nat /\ m \in Nat /\ n \in Nat
  BY <1>1, LenProperties
<1>3. ASSUME Contains(d, e), Contains(e, f) PROVE Contains(d, f)
  <2>1. l <= m /\ (\A i \in 1..l : d[i] = e[m - l + i]) /\ m <= n /\ \A i \in 1..m : e[i] = f[n - m + i]
    BY <1>1, <1>3, ContainsByPlace
  <2>2. ASSUME NEW i \in 1..l PROVE d[i] = f[n - l + i]
    <3>1. m - l + i \in 1..m /\ n - m + (m - l + i) = n - l + i
      BY <1>2, <2>1
    <3> QED
      BY <2>1, <3>1
  <2>3. l <= n
    BY <1>2, <2>1
  <2> QED
    BY <1>1, <2>2, <2>3, ContainsByPlace
<1>4. ASSUME Contains(d, f), Contains(e, f), l = m PROVE d = e
  <2>1. \A i \in 1..Len(d) : d[i] = f[Len(f) - Len(d) + i]
    BY <1>4, ContainsByPlace
  <2>2. \A i \in 1..Len(e) : e[i] = f[Len(f) - Len(e) + i]
    BY <1>4, ContainsByPlace
  <2>3. \A i \in 1..l : d[i] = e[i]
    BY <1>1, <1>4, <2>1, <2>2
  <2> QED
    BY <1>1, <1>4, <2>3, SeqEqual
<1>5. Contains(d, e) => l <= m
  BY <1>1 DEF Contains
<1> QED
  BY <1>1, <1>3, <1>4, <1>5

\* What is below an entry is a child of it, or below one.
LEMMA KidsAbove ==
    ASSUME TreeInv, NEW o \in InTree
    PROVE  /\ Kids(o) \subseteq InTree
           /\ \A k \in Kids(o) : /\ Contains(dn[o], dn[k]) /\ ~Contains(dn[k], dn[o])
                                 /\ Len(dn[k]) = Len(dn[o]) + 1 /\ Tail(dn[k]) = dn[o]
           /\ \A x \in InTree \ {o} :
                Contains(dn[o], dn[x]) => \E k \in Kids(o) : Contains(dn[k], dn[x])
<1>1. TreeTypes /\ OneName /\ AboveInv /\ InTree \subseteq Entries
  BY Linked DEF TreeInv, TreeTypes
<1>2. \A x \in InTree : dn[x] \in Seq(RDNs)
  BY <1>1, NameFacts DEF TreeTypes
<1>3. ASSUME NEW k \in Kids(o)
      PROVE  /\ k \in InTree /\ Contains(dn[o], dn[k]) /\ ~Contains(dn[k], dn[o])
             /\ Len(dn[k]) = Len(dn[o]) + 1 /\ Tail(dn[k]) = dn[o]
  <2>1. k \in InTree /\ dn[k] # <<>> /\ Tail(dn[k]) = dn[o]
    BY <1>1, Linked DEF Link
  <2>2. PICK e, d : e = dn[k] /\ d = dn[o]
    OBVIOUS
  <2>3. e \in Seq(RDNs) /\ d \in Seq(RDNs) /\ e # <<>> /\ Tail(e) = d
    BY <1>2, <2>1, <2>2
  <2>4. Len(d) = Len(e) - 1 /\ Len(e) \in Nat /\ Len(d) \in Nat
    BY <2>3, HeadTailProperties, LenProperties
  <2>5. Len(e) = Len(d) + 1
    BY <2>4
  <2>6. d # e /\ Contains(d, d)
    BY <2>3, <2>5, <2>4, ContainsSelf
  <2>7. Contains(d, e)
    BY <2>3, <2>6, ContainsUp
  <2>8. ~Contains(e, d)
    BY <2>4, <2>5 DEF Contains
  <2> QED
    BY <2>1, <2>2, <2>5, <2>7, <2>8
<1>4. ASSUME NEW x \in InTree \ {o}, Contains(dn[o], dn[x])
      PROVE  \E k \in Kids(o) : Contains(dn[k], dn[x])
  <2>1. dn[o] # dn[x]
    BY <1>1 DEF OneName
  <2>2. PICK e \in Seq(RDNs) : Contains(e, dn[x]) /\ e # <<>> /\ Tail(e) = dn[o]
    BY <1>2, <1>4, <2>1, NextName
  <2>3. PICK c \in InTree : dn[c] = e
    BY <1>1, <2>2 DEF AboveInv
  <2>4. c # Root
    BY <1>1, <2>2, <2>3 DEF TreeTypes
  <2>5. parent[c] \in InTree /\ c \in Kids(parent[c]) /\ dn[parent[c]] = dn[o]
    BY <2>2, <2>3, <2>4, Linked
  <2> QED
    BY <1>1, <2>2, <2>3, <2>5 DEF OneName
<1> QED
  BY <1>3, <1>4

\* A search of a subtree begins: all that is found in it is ahead.
LEMMA SubtreeBegins ==
    ASSUME TreeInv, SearchInv, NEW s \in Searches, WalkInv(s), NEW d \in DNs, "sub" \in Scopes,
           HandleSearch(s, d, "sub")
    PROVE  SubtreeInv(s)'
<1>1. PICK o : o = Lookup(d)
  OBVIOUS
<1>2. /\ TreeTypes /\ OneName /\ InTree \subseteq Entries /\ o \in InTree /\ dn[o] = d
      /\ d \in Seq(RDNs) /\ \A x \in InTree : dn[x] \in Seq(RDNs) /\ dn[x] \in DNs
  BY <1>1, LookupFinds, Linked, NameFacts DEF HandleSearch, LookupInv, TreeInv, TreeTypes
<1>3. SendEntry(s, o) /\ todo' = todo /\ phase[s] = "idle" /\ UNCHANGED <<dn, children, parent, made>>
  BY <1>1 DEF HandleSearch, treeVars
<1>4. /\ SearchInv' /\ TreeInv' /\ phase'[s] = "walking" /\ last'[s] = o
      /\ stay'[s] = {e \in Found : Contains(d, e)}
  <2>1. UNCHANGED treeVars
    BY DEF HandleSearch
  <2> QED
    BY <1>2, <1>3, <2>1, SearchTyped, SentTyped, SameTree DEF InScope
<1>5. InTree' = InTree /\ dn' = dn /\ Kids(o)' = Kids(o)
  BY <1>3 DEF InTree, Kids
<1>6. todo[s] = <<>> /\ \A e \in DNs : sent[s][e] = 0
  BY <1>3 DEF WalkInv
<1>7. DOMAIN Lists(s)' = {1} /\ Lists(s)'[1] = Kids(o)
  BY <1>3, <1>4, <1>5, <1>6 DEF Lists
<1>8. \A x : Listed(s, x)' <=> x \in Kids(o)
  BY <1>7 DEF Listed
<1>9. Steady(s)' = {x \in InTree : Contains(d, dn[x])}
  BY <1>4, <1>5, FoundNames DEF Steady
<1>10. Kids(o) \subseteq InTree /\ \A k \in Kids(o) : Contains(d, dn[k]) /\ Len(dn[k]) = Len(d) + 1
  BY <1>2, KidsAbove
<1>11. \A p : Ahead(s, p)' = {x \in Kids(o) : Contains(dn[x], dn[p])}
  BY <1>5, <1>8, <1>9, <1>10 DEF Ahead, Contains
<1>12. stay'[s] \subseteq {dn[x] : x \in InTree}
  BY <1>4, FoundNames
<1>13. ASSUME NEW x, Reached(s, x)' PROVE x \in InTree /\ x \in Steady(s)'
  <2>1. x \in Kids(o) \/ x = o
    BY <1>4, <1>8, <1>13 DEF Reached
  <2>2. Contains(d, dn[o])
    BY <1>2, ContainsSelf
  <2> QED
    BY <1>2, <1>9, <1>10, <2>1, <2>2
<1>14. ASSUME NEW x \in Steady(s)', NEW q \in InTree, Contains(dn[x], dn[q]) PROVE q \in Steady(s)'
  BY <1>2, <1>9, <1>14, ContainsOrder
<1>15. ASSUME NEW p \in Steady(s)', NEW x \in Ahead(s, p)', NEW y \in Ahead(s, p)' PROVE x = y
  <2>1. p \in InTree /\ x \in Kids(o) /\ y \in Kids(o) /\ Contains(dn[x], dn[p]) /\ Contains(dn[y], dn[p])
    BY <1>9, <1>11
  <2>2. dn[x] = dn[y]
    BY <1>2, <1>10, <2>1, ContainsOrder
  <2> QED
    BY <1>2, <1>10, <2>1, <2>2 DEF OneName
<1>16. ASSUME NEW p \in Steady(s)'
       PROVE  sent'[s][dn[p]] = IF Ahead(s, p)' = {} THEN 1 ELSE 0
  <2>1. p \in InTree /\ Contains(d, dn[p]) /\ dn[p] \in DNs /\ o \in Entries
    BY <1>2, <1>9
  <2>2. sent'[s][d] = sent[s][d] + 1 /\ \A e \in DNs \ {d} : sent'[s][e] = sent[s][e]
    BY <1>2, <1>3, <2>1, SentTyped
  <2>3. CASE p = o
    <3>1. Ahead(s, p)' = {}
      BY <1>2, <1>11, <2>3, KidsAbove
    <3> QED
      BY <1>2, <1>6, <2>2, <2>3, <3>1
  <2>4. CASE p # o
    <3>1. dn[p] # d
      BY <1>2, <2>1, <2>4 DEF OneName
    <3>2. \E k \in Kids(o) : Contains(dn[k], dn[p])
      BY <1>2, <2>1, <2>4, KidsAbove
    <3>3. Ahead(s, p)' # {}
      BY <1>11, <3>2
    <3> QED
      BY <1>6, <2>1, <2>2, <3>1, <3>3
  <2> QED
    BY <2>3, <2>4
<1>17. \A x \in Steady(s)' : \A i, j \in DOMAIN Lists(s)' : i = j
  BY <1>7
<1> QED
  BY <1>5, <1>12, <1>13, <1>14, <1>15, <1>16, <1>17 DEF SubtreeInv, Contains

\* An entry is popped and sent: what is ahead of those below it is a child of
\* it now, and nothing is ahead of the entry itself.
LEMMA SubtreeGoesOn ==
    ASSUME TreeInv, SearchInv, NEW s \in Searches, SubtreeInv(s), phase[s] = "walking",
           NEW n \in DOMAIN Lists(s), NEW c \in Lists(s)[n],
           \A m \in DOMAIN Lists(s) : m > n => Lists(s)[m] = {},
           SendEntry(s, c), todo'[s] = [SubSeq(Lists(s), 1, n) EXCEPT ![n] = Lists(s)[n] \ {c}],
           UNCHANGED <<treeVars, stay>>
    PROVE  SubtreeInv(s)'
<1>1. /\ TreeTypes /\ OneName /\ InTree \subseteq Entries
      /\ \A x \in InTree : dn[x] \in Seq(RDNs) /\ dn[x] \in DNs
  BY Linked, NameFacts DEF TreeInv, TreeTypes
<1>2. InTree' = InTree /\ dn' = dn /\ stay' = stay /\ Steady(s)' = Steady(s)
      /\ \A x : Kids(x)' = Kids(x)
  BY DEF treeVars, InTree, Kids, Steady
<1>3. PICK lists : lists = Lists(s)
  OBVIOUS
<1>4. lists \in Seq(SUBSET Pool) /\ n \in DOMAIN lists /\ lists[n] \in SUBSET Pool /\ c \in Entries
  BY <1>3, ListsTyped, ElementOfSeq, LenProperties DEF Entries
<1>5. PICK r : r = [SubSeq(lists, 1, n) EXCEPT ![n] = lists[n] \ {c}]
  OBVIOUS
<1>6. /\ r \in Seq(SUBSET Pool) /\ Len(r) = n
      /\ \A i \in 1..n : r[i] = IF i = n THEN lists[n] \ {c} ELSE lists[i]
  <2>1. lists[n] \ {c} \in SUBSET Pool
    BY <1>4
  <2> QED
    BY <1>4, <1>5, <2>1, Popped
<1>7. todo'[s] = r /\ last'[s] = c /\ n \in Nat /\ n \in 1..Len(lists) /\ Len(lists) \in Nat
  BY <1>1, <1>3, <1>4, <1>5, SentTyped, LenProperties
<1>8. /\ DOMAIN Lists(s)' = 1..n + 1 /\ Lists(s)'[n] = lists[n] \ {c} /\ Lists(s)'[n + 1] = Kids(c)
      /\ \A i \in 1..n - 1 : Lists(s)'[i] = lists[i]
  <2>1. PICK kids : kids = Kids(c) /\ kids \in SUBSET Pool
    BY <1>4, KidsByParent
  <2>2. Lists(s)' = Append(r, kids)
    BY <1>2, <1>7, <2>1 DEF Lists
  <2>3. /\ Append(r, kids) \in Seq(SUBSET Pool) /\ Len(Append(r, kids)) = n + 1
        /\ \A i \in 1..n : Append(r, kids)[i] = r[i] 
        /\ Append(r, kids)[n + 1] = kids
    BY <1>6, <2>1, AppendProperties
  <2>4. DOMAIN Append(r, kids) = 1..n + 1
    BY <2>3, LenProperties
  <2> QED
    BY <1>6, <1>7, <2>1, <2>2, <2>3, <2>4
<1>9. \A m \in DOMAIN lists : m > n => lists[m] = {}
  BY <1>3
<1>10. ASSUME NEW i \in DOMAIN Lists(s)', NEW x \in Lists(s)'[i]
       PROVE  \/ i \in DOMAIN lists /\ x \in lists[i] /\ (i = n => x # c) /\ i # n + 1
              \/ i = n + 1 /\ x \in Kids(c)
  <2>1. i \in 1..n + 1
    BY <1>8
  <2>2. CASE i = n + 1
    BY <1>8, <2>2
  <2>3. CASE i = n
    BY <1>4, <1>7, <1>8, <2>3
  <2>4. CASE i \in 1..n - 1
    <3>1. i \in DOMAIN lists
      BY <1>4, <1>7, <2>4, LenProperties
    <3> QED
      BY <1>7, <1>8, <2>4, <3>1
  <2> QED
    BY <1>7, <2>1, <2>2, <2>3, <2>4
<1>11. ASSUME NEW x, Listed(s, x), x # c PROVE Listed(s, x)'
  <2>1. PICK i \in DOMAIN lists : x \in lists[i]
    BY <1>3, <1>11 DEF Listed
  <2>2. i \in 1..n
    <3>1. i \in 1..Len(lists) /\ ~(i > n)
      BY <1>4, <1>9, <2>1, LenProperties
    <3> QED
      BY <1>7, <3>1
  <2>3. i \in DOMAIN Lists(s)' /\ x \in Lists(s)'[i]
    BY <1>7, <1>8, <1>11, <2>1, <2>2
  <2> QED
    BY <2>3 DEF Listed
<1>12. ASSUME NEW x \in Kids(c) PROVE Listed(s, x)'
  BY <1>7, <1>8 DEF Listed
<1>13. ASSUME NEW x, Listed(s, x)' PROVE Listed(s, x) \/ x \in Kids(c)
  BY <1>3, <1>10, <1>13 DEF Listed
<1>14. Listed(s, c) /\ Reached(s, c)
  BY DEF Listed, Reached
<1>15. ASSUME NEW x \in Steady(s), Listed(s, x)' PROVE x # c
  <2> SUFFICES ASSUME x = c PROVE FALSE
    OBVIOUS
  <2>1. PICK i \in DOMAIN Lists(s)' : c \in Lists(s)'[i]
    BY <1>15 DEF Listed
  <2>2. c \notin Kids(c)
    BY <1>1, KidsAbove, ContainsSelf DEF Steady
  <2>3. i \in DOMAIN lists /\ c \in lists[i] /\ i # n
    BY <1>10, <2>1, <2>2
  <2> QED
    BY <1>3, <1>4, <2>3 DEF SubtreeInv
<1>16. c \in Entries /\ (dn[c] \in stay[s] => c \in Steady(s))
  BY <1>4, <1>14 DEF SubtreeInv, Steady
\* A child of c that is above what stays: then so is c, which is on the lists.
<1>17. ASSUME NEW p \in Steady(s), NEW k \in Kids(c), Contains(dn[k], dn[p])
       PROVE  k \in Steady(s) /\ c \in Steady(s) /\ c \in Ahead(s, p)
  <2>1. c \in InTree
    BY <1>4, KidsByParent
  <2>2. k \in InTree /\ Contains(dn[c], dn[k])
    BY <2>1, KidsAbove
  <2>3. Contains(dn[c], dn[p])
    BY <1>1, <1>17, <2>1, <2>2, ContainsOrder DEF Steady
  <2>4. c \in Steady(s)
    BY <1>14, <2>1, <2>3 DEF SubtreeInv
  <2>5. k \in Steady(s)
    BY <1>17, <2>2, <2>4 DEF SubtreeInv
  <2> QED
    BY <1>14, <2>3, <2>4, <2>5 DEF Ahead
<1>18. ASSUME NEW p \in Steady(s)
       PROVE  /\ Ahead(s, p)' = (Ahead(s, p) \ {c}) \cup {k \in Kids(c) : Contains(dn[k], dn[p])}
  <2>1. ASSUME NEW x \in Ahead(s, p)'
        PROVE  x \in Ahead(s, p) \ {c} \/ (x \in Kids(c) /\ Contains(dn[x], dn[p]))
    BY <1>2, <1>13, <1>15, <2>1 DEF Ahead, Contains
  <2>2. ASSUME NEW x \in Ahead(s, p) \ {c} PROVE x \in Ahead(s, p)'
    BY <1>2, <1>11, <2>2 DEF Ahead, Contains
  <2>3. ASSUME NEW k \in Kids(c), Contains(dn[k], dn[p]) PROVE k \in Ahead(s, p)'
    BY <1>2, <1>12, <1>17, <2>3 DEF Ahead, Contains
  <2> QED
    BY <2>1, <2>2, <2>3
<1>19. ASSUME NEW p \in Steady(s) PROVE \A x, y \in Ahead(s, p) : x = y
  BY DEF SubtreeInv
<1>20. ASSUME NEW p \in Steady(s), NEW x \in Ahead(s, p)', NEW y \in Ahead(s, p)' PROVE x = y
  <2>1. CASE x \in Ahead(s, p) \ {c}
    <3>1. ~(y \in Kids(c) /\ Contains(dn[y], dn[p]))
      BY <1>17, <1>19, <2>1
    <3> QED
      BY <1>18, <1>19, <2>1, <3>1
  <2>2. CASE x \in Kids(c) /\ Contains(dn[x], dn[p])
    <3>1. y \in Kids(c) /\ Contains(dn[y], dn[p])
      BY <1>17, <1>18, <1>19, <2>2
    <3>2. c \in InTree /\ p \in InTree
      BY <1>17, <2>2 DEF Steady
    <3>3. x \in InTree /\ y \in InTree /\ Len(dn[x]) = Len(dn[y])
      BY <2>2, <3>1, <3>2, KidsAbove
    <3>4. dn[x] = dn[y]
      BY <1>1, <2>2, <3>1, <3>2, <3>3, ContainsOrder
    <3> QED
      BY <1>1, <3>3, <3>4 DEF OneName
  <2> QED
    BY <1>18, <2>1, <2>2
<1>21. ASSUME NEW p \in Steady(s)
       PROVE  sent'[s][dn[p]] = IF Ahead(s, p)' = {} THEN 1 ELSE 0
  <2>1. sent[s][dn[p]] = IF Ahead(s, p) = {} THEN 1 ELSE 0
    BY DEF SubtreeInv
  <2>2. p \in InTree /\ dn[p] \in DNs /\ dn[p] \in stay[s]
    BY <1>1 DEF Steady
  <2>3. /\ sent'[s][dn[c]] = sent[s][dn[c]] + 1
        /\ \A e \in DNs \ {dn[c]} : sent'[s][e] = sent[s][e]
    BY <1>4, SentTyped
  <2>4. CASE p = c
    <3>1. c \in Ahead(s, p)
      BY <1>1, <1>14, <2>2, <2>4, ContainsSelf DEF Ahead, Steady
    <3>2. {k \in Kids(c) : Contains(dn[k], dn[p])} = {}
      BY <2>2, <2>4, KidsAbove
    <3>3. Ahead(s, p)' = {}
      BY <1>18, <1>19, <3>1, <3>2
    <3> QED
      BY <2>1, <2>3, <2>4, <3>1, <3>3
  <2>5. CASE p # c
    <3>1. dn[p] # dn[c]
      BY <1>1, <1>16, <2>2, <2>5 DEF OneName, Steady
    <3>2. sent'[s][dn[p]] = sent[s][dn[p]]
      BY <2>2, <2>3, <3>1
    <3>3. CASE c \in Ahead(s, p)
      <4>1. c \in InTree /\ Contains(dn[c], dn[p])
        BY <3>3 DEF Ahead, Steady
      <4>2. {k \in Kids(c) : Contains(dn[k], dn[p])} # {}
        BY <2>2, <2>5, <4>1, KidsAbove
      <4> QED
        BY <1>18, <2>1, <3>2, <3>3, <4>2
    <3>4. CASE c \notin Ahead(s, p)
      <4>1. {k \in Kids(c) : Contains(dn[k], dn[p])} = {}
        BY <1>17, <3>4
      <4>2. Ahead(s, p)' = (Ahead(s, p) \ {c}) \cup {}
        BY <1>18, <4>1
      <4>3. Ahead(s, p)' = Ahead(s, p)
        BY <3>4, <4>2
      <4> QED
        BY <2>1, <3>2, <4>3
    <3> QED
      BY <3>3, <3>4
  <2> QED
    BY <2>4, <2>5
<1>22. ASSUME NEW x, Reached(s, x)' PROVE Reached(s, x) \/ x \in Kids(c)
  BY <1>7, <1>13, <1>14, <1>22 DEF Reached
<1>23. ASSUME NEW x \in Entries, Reached(s, x)', dn[x] \in stay[s] PROVE x \in InTree
  BY <1>4, <1>22, <1>23, KidsByParent DEF SubtreeInv
<1>24. ASSUME NEW x \in InTree, NEW p \in Steady(s), Reached(s, x)', Contains(dn[x], dn[p])
       PROVE  x \in Steady(s)
  BY <1>17, <1>22, <1>24 DEF SubtreeInv
<1>25. ASSUME NEW x \in Steady(s), NEW i \in DOMAIN Lists(s)', NEW j \in DOMAIN Lists(s)',
              x \in Lists(s)'[i], x \in Lists(s)'[j]
       PROVE  i = j
  <2>1. ASSUME NEW l \in DOMAIN lists, x \in lists[l], x \in Kids(c) PROVE FALSE
    <3>1. x \in InTree /\ Contains(dn[x], dn[x])
      BY <1>1, ContainsSelf DEF Steady
    <3>2. c \in Ahead(s, x) /\ x \in Ahead(s, x)
      BY <1>3, <1>17, <2>1, <3>1 DEF Ahead, Listed
    <3>3. x = c
      BY <1>19, <3>2
    <3> QED
      BY <2>1, <3>1, <3>3, KidsAbove
  <2>2. \/ /\ i \in DOMAIN lists /\ x \in lists[i]
           /\ j \in DOMAIN lists /\ x \in lists[j]
        \/ i = n + 1 /\ j = n + 1
    BY <1>10, <1>25, <2>1
  <2> QED
    BY <1>3, <2>2 DEF SubtreeInv
<1> QED
  <2>1. stay'[s] \subseteq {dn'[o] : o \in InTree'}
    BY <1>2 DEF SubtreeInv
  <2>2. \A o, p \in Steady(s)', q \in InTree' :
          Contains(dn'[o], dn'[q]) /\ Contains(dn'[q], dn'[p]) => q \in Steady(s)'
    BY <1>2 DEF SubtreeInv
  <2>3. \A o \in Entries : Reached(s, o)' /\ dn'[o] \in stay'[s] => o \in InTree'
    BY <1>2, <1>23
  <2>4. \A o \in InTree', p \in Steady(s)' :
          Reached(s, o)' /\ Contains(dn'[o], dn'[p]) => o \in Steady(s)'
    BY <1>2, <1>24
  <2>5. \A o \in Steady(s)' : \A i, j \in DOMAIN Lists(s)' :
          o \in Lists(s)'[i] /\ o \in Lists(s)'[j] => i = j
    BY <1>2, <1>25
  <2>6. \A p \in Steady(s)' : \A o, q \in Ahead(s, p)' : o = q
    BY <1>2, <1>20
  <2>7. \A p \in Steady(s)' : sent'[s][dn'[p]] = IF Ahead(s, p)' = {} THEN 1 ELSE 0
    BY <1>2, <1>21
  <2> QED
    BY <2>1, <2>2, <2>3, <2>4, <2>5, <2>6, <2>7 DEF SubtreeInv, Contains

\* The walk ends once nothing is on the lists.
LEMMA SubtreeEnds ==
    ASSUME NEW s \in Searches, SubtreeInv(s), \A n \in DOMAIN Lists(s) : Lists(s)[n] = {}
    PROVE  AllSent(s)
<1>1. \A p : Ahead(s, p) = {}
  BY DEF Ahead, Listed
<1>2. ASSUME NEW d \in stay[s] PROVE sent[s][d] = 1
  <2>1. PICK o \in InTree : dn[o] = d
    BY DEF SubtreeInv
  <2>2. o \in Steady(s)
    BY <2>1 DEF Steady
  <2> QED
    BY <1>1, <2>1, <2>2 DEF SubtreeInv
<1> QED
  BY <1>2 DEF AllSent

LEMMA LinkedNames ==
    TreeInv => /\ InTree \subseteq Entries /\ \A o \in InTree : dn[o] \in Seq(RDNs)
               /\ \A o \in InTree : \A e \in Seq(RDNs) :
                     Contains(e, dn[o]) => \E p \in InTree : dn[p] = e
BY Linked, NameFacts DEF TreeInv, TreeTypes, AboveInv

LEMMA LinkedNamesNext ==
    TreeInv' => /\ InTree' \subseteq Entries /\ \A o \in InTree' : dn'[o] \in Seq(RDNs)
                /\ \A o \in InTree' : \A e \in Seq(RDNs) :
                      Contains(e, dn'[o]) => \E p \in InTree' : dn'[p] = e
<1>1. TreeInv' => ( /\ InTree \subseteq Entries /\ \A o \in InTree : dn[o] \in Seq(RDNs)
                    /\ \A o \in InTree : \A e \in Seq(RDNs) :
                          Contains(e, dn[o]) => \E p \in InTree : dn[p] = e )'
  BY LinkedNames, PTL
<1> QED
  BY <1>1 DEF Contains

\* What stays while an entry gets another name, and what is above it, is not
\* that entry, nor was it.
LEMMA SteadyStays ==
    ASSUME TreeInv, TreeInv', NEW t, Touching(t), NEW s \in Searches,
           stay[s] \subseteq {dn[o] : o \in InTree}, stay'[s] = stay[s] \cap Found'
    PROVE  /\ \A x : x \in Steady(s)' <=> x \in Steady(s) /\ x \in InTree' /\ x # t
           /\ \A p \in Steady(s)', x \in InTree : Contains(dn[x], dn[p]) => x \in InTree' /\ x # t
           /\ \A p \in Steady(s)', x \in InTree' : Contains(dn'[x], dn'[p]) => x \in InTree /\ x # t
           /\ \A x \in Entries : dn'[x] \in stay'[s] => x \in InTree' \/ (x # t /\ dn'[x] \in stay[s])
<1>1. /\ t \in Entries /\ OneName /\ InTree \subseteq Entries
      /\ \A x \in InTree : dn[x] \in Seq(RDNs)
  BY Linked, NameFacts DEF TreeInv, TreeTypes, Touching
<1>2. /\ InTree' \subseteq Entries /\ \A o \in InTree' : dn'[o] \in Seq(RDNs)
      /\ \A o \in InTree' : \A e \in Seq(RDNs) :
            Contains(e, dn'[o]) => \E p \in InTree' : dn'[p] = e
  BY LinkedNamesNext
<1>3. Found' = {dn'[o] : o \in InTree'}
  BY FoundNamesNext
<1>4. ASSUME NEW x \in Steady(s)' PROVE x \in Steady(s) /\ x \in InTree' /\ x # t
  <2>1. x \in InTree' /\ dn'[x] \in stay[s]
    BY <1>4 DEF Steady
  <2>2. PICK o \in InTree : dn'[x] = dn[o]
    BY <2>1
  <2>3. x # t
    BY <2>1, <2>2 DEF Touching
  <2> QED
    BY <1>2, <2>1, <2>3 DEF Touching, Steady
<1>5. ASSUME NEW x \in Steady(s), x \in InTree', x # t PROVE x \in Steady(s)'
  BY <1>1, <1>3, <1>5 DEF Touching, Steady
<1>6. ASSUME NEW p \in Steady(s)' PROVE p \in InTree /\ p \in InTree' /\ dn'[p] = dn[p] /\ dn[p] \in Seq(RDNs)
  BY <1>1, <1>4 DEF Touching, Steady
<1>7. ASSUME NEW p \in Steady(s)', NEW x \in InTree, Contains(dn[x], dn[p])
      PROVE  x \in InTree' /\ x # t
  <2>1. PICK z \in InTree' : dn'[z] = dn[x]
    BY <1>1, <1>2, <1>6, <1>7
  <2>2. z # t
    BY <2>1 DEF Touching
  <2>3. z \in InTree /\ dn[z] = dn[x]
    BY <1>2, <2>1, <2>2 DEF Touching
  <2> QED
    BY <1>1, <2>1, <2>2, <2>3 DEF OneName
<1>8. ASSUME NEW p \in Steady(s)', NEW x \in InTree', Contains(dn'[x], dn'[p])
      PROVE  x \in InTree /\ x # t
  <2>1. PICK z \in InTree : dn[z] = dn'[x]
    BY <1>2, <1>6, <1>8, LinkedNames
  <2> QED
    BY <1>2, <2>1 DEF Touching
<1>9. ASSUME NEW x \in Entries, dn'[x] \in stay'[s], x \notin InTree'
      PROVE  x # t /\ dn'[x] \in stay[s]
  <2>1. PICK z \in InTree' : dn'[z] = dn'[x]
    BY <1>3, <1>9
  <2>2. ASSUME x = t PROVE FALSE
    <3>1. t \in InTree /\ dn'[t] = dn[t] /\ z # t
      BY <1>9, <2>1, <2>2 DEF Touching
    <3>2. z \in InTree /\ dn[z] = dn[t]
      BY <1>2, <2>1, <2>2, <3>1 DEF Touching
    <3> QED
      BY <1>1, <3>1, <3>2 DEF OneName
  <2> QED
    BY <1>9, <2>2
<1> QED
  BY <1>4, <1>5, <1>7, <1>8, <1>9

\* The tree changes beneath a walk.
LEMMA SubtreeChanges ==
    ASSUME TreeInv, TreeInv', SearchInv, NEW t, Touching(t), NEW s \in Searches, SubtreeInv(s),
           phase[s] = "walking", stay'[s] = stay[s] \cap Found', UNCHANGED searchVars
    PROVE  SubtreeInv(s)'
<1>1. UNCHANGED <<phase, last, todo, sent>> /\ last[s] \in Entries
  BY DEF searchVars, SearchInv
<1>2. stay[s] \subseteq {dn[o] : o \in InTree}
  BY DEF SubtreeInv
<1>3. /\ \A x : x \in Steady(s)' <=> x \in Steady(s) /\ x \in InTree' /\ x # t
      /\ \A p \in Steady(s)', x \in InTree : Contains(dn[x], dn[p]) => x \in InTree' /\ x # t
      /\ \A p \in Steady(s)', x \in InTree' : Contains(dn'[x], dn'[p]) => x \in InTree /\ x # t
      /\ \A x \in Entries : dn'[x] \in stay'[s] => x \in InTree' \/ (x # t /\ dn'[x] \in stay[s])
  BY <1>2, SteadyStays
<1>4. \A x \in Entries \ {t} : dn'[x] = dn[x] /\ parent'[x] = parent[x] /\ (x \in InTree' <=> x \in InTree)
  BY DEF Touching
<1>5. InTree \subseteq Entries
  BY Linked DEF TreeInv, TreeTypes
<1>6. ASSUME NEW x \in Entries \ {t} PROVE x \in Kids(last[s])' <=> x \in Kids(last[s])
  <2>1. x \in Kids(last[s]) <=> x \in InTree \ {Root} /\ parent[x] = last[s]
    BY <1>1, KidsByParent
  <2>2. PICK o : o = last[s]
    OBVIOUS
  <2>3. x \in Kids(o)' <=> x \in InTree' \ {Root} /\ parent'[x] = o
    BY <1>1, <2>2, KidsByParentNext
  <2>4. Kids(last[s])' = Kids(o)'
    BY <1>1, <2>2 DEF Kids
  <2> QED
    BY <1>4, <2>1, <2>2, <2>3, <2>4
<1>7. /\ DOMAIN Lists(s)' = DOMAIN Lists(s)
      /\ \A x \in Entries \ {t} : \A i \in DOMAIN Lists(s) : x \in Lists(s)'[i] <=> x \in Lists(s)[i]
  <2>1. PICK q, k : q = todo[s] /\ k = Len(todo[s])
    OBVIOUS
  <2>2. /\ k \in Nat /\ DOMAIN Lists(s) = 1..k + 1 /\ Lists(s)[k + 1] = Kids(last[s])
        /\ \A i \in 1..k : Lists(s)[i] = q[i]
    BY <2>1, ListsTyped
  <2>3. /\ DOMAIN Lists(s)' = 1..k + 1 /\ Lists(s)'[k + 1] = Kids(last[s])'
        /\ \A i \in 1..k : Lists(s)'[i] = q[i]
    <3>1. SearchInv /\ q \in Seq(SUBSET Pool)
      BY <2>1 DEF SearchInv
    <3>2. PICK kids : kids = Kids(last[s])'
      OBVIOUS
    <3>3. Lists(s)' = Append(q, kids)
      BY <1>1, <2>1, <3>2 DEF Lists
    <3>4. PICK S : SUBSET Pool \subseteq S /\ kids \in S
      <4>1. SUBSET Pool \subseteq (SUBSET Pool) \cup {kids} /\ kids \in (SUBSET Pool) \cup {kids}
        OBVIOUS
      <4> QED
        BY <4>1
    <3>5. q \in Seq(S)
      BY <3>1, <3>4
    <3>6. /\ Append(q, kids) \in Seq(S) /\ Len(Append(q, kids)) = k + 1
          /\ \A i \in 1..k : Append(q, kids)[i] = q[i] 
          /\ Append(q, kids)[k + 1] = kids
      BY <2>1, <3>4, <3>5, AppendProperties
    <3>7. DOMAIN Append(q, kids) = 1..k + 1
      BY <3>6, LenProperties
    <3> QED
      BY <3>2, <3>3, <3>6, <3>7
  <2>4. ASSUME NEW x \in Entries \ {t}, NEW i \in 1..k + 1
        PROVE  x \in Lists(s)'[i] <=> x \in Lists(s)[i]
    <3>1. CASE i = k + 1
      BY <1>6, <2>2, <2>3, <3>1
    <3>2. CASE i # k + 1
      <4>1. i \in 1..k
        BY <2>2, <3>2
      <4> QED
        BY <2>2, <2>3, <4>1
    <3> QED
      BY <3>1, <3>2
  <2> QED
    BY <2>2, <2>3, <2>4
<1>8. \A x \in Entries \ {t} : Listed(s, x)' <=> Listed(s, x)
  BY <1>7 DEF Listed
<1>9. \A x \in Entries \ {t} : Reached(s, x)' <=> Reached(s, x)
  BY <1>1, <1>8 DEF Reached
<1>10. stay'[s] \subseteq {dn'[o] : o \in InTree'}
  BY FoundNamesNext
<1>11. ASSUME NEW x \in Entries, Reached(s, x)', dn'[x] \in stay'[s] PROVE x \in InTree'
  <2> SUFFICES ASSUME x \notin InTree' PROVE FALSE
    OBVIOUS
  <2>1. x # t /\ dn[x] \in stay[s] /\ Reached(s, x)
    BY <1>3, <1>4, <1>9, <1>11
  <2>2. x \in InTree
    BY <2>1 DEF SubtreeInv
  <2> QED
    BY <1>4, <2>1, <2>2
<1>12. ASSUME NEW p \in Steady(s)', NEW x \in InTree', Contains(dn'[x], dn'[p])
       PROVE  /\ x \in InTree /\ x # t /\ p \in Steady(s) /\ Contains(dn[x], dn[p])
              /\ dn'[x] = dn[x] /\ dn'[p] = dn[p]
  <2>1. x \in InTree /\ x # t /\ p \in Steady(s) /\ p # t /\ p \in InTree
    BY <1>3, <1>12 DEF Steady
  <2>2. dn'[x] = dn[x] /\ dn'[p] = dn[p]
    BY <1>4, <1>5, <2>1
  <2> QED
    BY <1>12, <2>1, <2>2
<1>13. ASSUME NEW x \in InTree', NEW p \in Steady(s)', Reached(s, x)', Contains(dn'[x], dn'[p])
       PROVE  x \in Steady(s)'
  <2>1. x \in InTree /\ x # t /\ p \in Steady(s) /\ Contains(dn[x], dn[p]) /\ Reached(s, x)
    BY <1>5, <1>9, <1>12, <1>13
  <2>2. x \in Steady(s)
    BY <2>1 DEF SubtreeInv
  <2> QED
    BY <1>3, <2>1, <2>2
<1>14. ASSUME NEW x \in Steady(s)', NEW p \in Steady(s)', NEW q \in InTree',
              Contains(dn'[x], dn'[q]), Contains(dn'[q], dn'[p])
       PROVE  q \in Steady(s)'
  <2>1. q \in InTree /\ q # t /\ p \in Steady(s) /\ Contains(dn[q], dn[p]) /\ dn'[q] = dn[q]
    BY <1>12, <1>14
  <2>2. x \in Steady(s) /\ x \in Entries \ {t}
    BY <1>3, <1>5 DEF Steady
  <2>3. Contains(dn[x], dn[q])
    BY <1>4, <1>14, <2>1, <2>2
  <2>4. q \in Steady(s)
    BY <2>1, <2>2, <2>3 DEF SubtreeInv
  <2> QED
    BY <1>3, <2>1, <2>4
<1>15. ASSUME NEW x \in Steady(s)' PROVE x \in Steady(s) /\ x \in Entries \ {t} /\ dn'[x] = dn[x]
  BY <1>3, <1>4, <1>5 DEF Steady
<1>16. ASSUME NEW x \in Steady(s)', NEW i \in DOMAIN Lists(s)', NEW j \in DOMAIN Lists(s)',
              x \in Lists(s)'[i], x \in Lists(s)'[j]
       PROVE  i = j
  BY <1>7, <1>15, <1>16 DEF SubtreeInv
<1>17. ASSUME NEW p \in Steady(s)' PROVE Ahead(s, p)' = Ahead(s, p)
  <2>1. ASSUME NEW x \in Ahead(s, p)' PROVE x \in Ahead(s, p)
    <3>1. x \in Steady(s)' /\ Listed(s, x)' /\ Contains(dn'[x], dn'[p])
      BY <2>1 DEF Ahead, Contains
    <3>2. x \in Steady(s) /\ Listed(s, x) /\ Contains(dn[x], dn[p])
      BY <1>8, <1>15, <3>1
    <3> QED
      BY <3>2 DEF Ahead
  <2>2. ASSUME NEW x \in Ahead(s, p) PROVE x \in Ahead(s, p)'
    <3>1. x \in Steady(s) /\ x \in InTree /\ Listed(s, x) /\ Contains(dn[x], dn[p])
      BY <2>2 DEF Ahead, Steady
    <3>2. x \in Steady(s)'
      BY <1>3, <3>1
    <3>3. Listed(s, x)' /\ Contains(dn'[x], dn'[p])
      BY <1>8, <1>15, <3>1, <3>2
    <3> QED
      BY <3>2, <3>3 DEF Ahead, Contains
  <2> QED
    BY <2>1, <2>2
<1>18. \A p \in Steady(s)' : \A x, y \in Ahead(s, p)' : x = y
  BY <1>15, <1>17 DEF SubtreeInv
<1>19. ASSUME NEW p \in Steady(s)' PROVE sent'[s][dn'[p]] = IF Ahead(s, p)' = {} THEN 1 ELSE 0
  BY <1>1, <1>15, <1>17 DEF SubtreeInv
<1> QED
  BY <1>10, <1>11, <1>13, <1>14, <1>16, <1>18, <1>19 DEF SubtreeInv, Contains

\* Nothing about a search changes, nor does the tree.
LEMMA WalkStays ==
    ASSUME NEW s \in Searches, WalkInv(s), DOMAIN base[s] = {"entry", "size", "same", "handed"},
           UNCHANGED <<dn, parent, children>>,
           phase'[s] = phase[s], scope'[s] = scope[s], last'[s] = last[s], todo'[s] = todo[s],
           sent'[s] = sent[s], base'[s] = base[s], stay'[s] = stay[s]
    PROVE  WalkInv(s)'
<1>1. InTree' = InTree /\ Lists(s)' = Lists(s) /\ \A o : Kids(o)' = Kids(o)
  BY DEF InTree, Kids, Lists
<1>2. Steady(s)' = Steady(s)
  BY <1>1 DEF Steady
<1>3. \A o : (Listed(s, o)' <=> Listed(s, o)) /\ (Reached(s, o)' <=> Reached(s, o))
  BY <1>1 DEF Listed, Reached
<1>4. \A o : Ahead(s, o)' = Ahead(s, o)
  BY <1>2, <1>3 DEF Ahead, Contains
<1>5. ASSUME SubtreeInv(s) PROVE SubtreeInv(s)'
  <2>1. stay'[s] \subseteq {dn'[o] : o \in InTree'}
    BY <1>1, <1>5 DEF SubtreeInv
  <2>2. \A o \in Entries : Reached(s, o)' /\ dn'[o] \in stay'[s] => o \in InTree'
    BY <1>1, <1>3, <1>5 DEF SubtreeInv
  <2>3. \A o \in InTree', p \in Steady(s)' :
          Reached(s, o)' /\ Contains(dn'[o], dn'[p]) => o \in Steady(s)'
    BY <1>1, <1>2, <1>3, <1>5 DEF SubtreeInv
  <2>4. \A o, p \in Steady(s)', q \in InTree' :
          Contains(dn'[o], dn'[q]) /\ Contains(dn'[q], dn'[p]) => q \in Steady(s)'
    BY <1>1, <1>2, <1>5 DEF SubtreeInv
  <2>5. \A o \in Steady(s)' : \A i, j \in DOMAIN Lists(s)' :
          o \in Lists(s)'[i] /\ o \in Lists(s)'[j] => i = j
    BY <1>1, <1>2, <1>5 DEF SubtreeInv
  <2>6. \A p \in Steady(s)' : \A o, q \in Ahead(s, p)' : o = q
    BY <1>2, <1>4, <1>5 DEF SubtreeInv
  <2>7. \A p \in Steady(s)' : sent'[s][dn'[p]] = IF Ahead(s, p)' = {} THEN 1 ELSE 0
    BY <1>2, <1>4, <1>5 DEF SubtreeInv
  <2> QED
    BY <2>1, <2>2, <2>3, <2>4, <2>5, <2>6, <2>7 DEF SubtreeInv, Contains
<1>6. OneLevelInv(s) => OneLevelInv(s)'
  BY <1>1 DEF OneLevelInv
<1>7. AllSent(s) => AllSent(s)'
  BY DEF AllSent
<1> QED
  BY <1>5, <1>6, <1>7 DEF WalkInv

\* A child whose link is the same has the name it had.
LEMMA SameLinkSameName ==
    ASSUME TreeInv, TreeInv', NEW t, Touching(t), NEW o \in Entries, children'[o] = children[o],
           NEW k \in Kids(o)
    PROVE  k \in InTree' /\ dn'[k] = dn[k]
<1>1. PICK r \in DOMAIN children[o] : children[o][r] = k
  BY DEF Kids
<1>2. Link(o, r, k) /\ Link(o, r, k)' /\ k \in InTree /\ k \in InTree' /\ o \in InTree
  <2>1. TreeInv => \A x \in Entries : \A q \in DOMAIN children[x] :
            Link(x, q, children[x][q]) /\ children[x][q] \in InTree
    BY Linked DEF TreeInv, LinksInv, Kids
  <2>2. Link(o, r, k) /\ k \in InTree
    BY <1>1, <2>1
  <2>3. Link(o, r, children[o][r])'
    BY <1>1 DEF TreeInv, LinksInv
  <2>4. k \in Kids(o)' 
    BY <1>1 DEF Kids
  <2>5. k \in InTree'
    BY <2>4 DEF InTree
  <2>6. Link(o, r, k)'
    BY <1>1, <2>3 DEF Link
  <2> QED
    BY <2>2, <2>5, <2>6 DEF Link
<1>3. /\ dn[k] \in Seq(RDNs) /\ dn[k] # <<>> /\ Head(dn[k]) = r /\ Tail(dn[k]) = dn[o]
      /\ dn'[k] \in Seq(RDNs) /\ dn'[k] # <<>> /\ Head(dn'[k]) = r /\ Tail(dn'[k]) = dn'[o]
      /\ dn[o] \in Seq(RDNs)
  BY <1>2, LinkedNames, LinkedNamesNext DEF Link
<1>4. o # k
  <2>1. PICK e, f : e = dn[k] /\ f = Tail(dn[k])
    OBVIOUS
  <2>2. Len(f) = Len(e) - 1 /\ Len(e) \in Nat
    BY <1>3, <2>1, HeadTailProperties, LenProperties
  <2>3. f # e
    BY <2>2
  <2> QED
    BY <1>3, <2>1, <2>3
<1>5. CASE k # t
  BY <1>2, <1>5, LinkedNames DEF Touching
<1>6. CASE k = t
  <2>1. dn'[o] = dn[o]
    BY <1>4, <1>6 DEF Touching
  <2>2. \A e \in Seq(RDNs) : e # <<>> => e = <<Head(e)>> \o Tail(e)
    BY HeadTailProperties
  <2>3. dn'[k] = dn[k]
    BY <1>3, <2>1, <2>2
  <2> QED
    BY <1>2, <2>3
<1> QED
  BY <1>5, <1>6

\* The tree changes while searches are under way.
LEMMA TreeChangesBeneath ==
    ASSUME TreeInv, TreeInv', SearchInv, NEW t, Touching(t), UNCHANGED searchVars, Noticed,
           NEW s \in Searches, WalkInv(s)
    PROVE  WalkInv(s)'
<1>1. /\ UNCHANGED <<phase, scope, last, todo, sent>> /\ stay'[s] = stay[s] \cap Found'
      /\ AllSent(s) => AllSent(s)'
  BY DEF searchVars, Noticed, AllSent
<1>2. PICK b, o : b = base[s] /\ o = b.entry
  OBVIOUS
<1>3. DOMAIN b = {"entry", "size", "same", "handed"} /\ o \in Entries /\ b.same \in BOOLEAN
  BY <1>2 DEF SearchInv
<1>4. base'[s] = IF phase[s] = "walking" THEN [b EXCEPT !.same = b.same /\ children'[o] = children[o]]
                 ELSE b
  BY <1>2 DEF Noticed
<1>5. ASSUME phase[s] = "walking"
      PROVE  /\ base'[s].entry = o /\ base'[s].handed = b.handed
             /\ base'[s].same => b.same /\ children'[o] = children[o]
  <2>1. PICK v : v = (b.same /\ children'[o] = children[o])
    OBVIOUS
  <2>2. base'[s] = [b EXCEPT !.same = v]
    BY <1>4, <1>5, <2>1
  <2>3. base'[s].entry = b.entry /\ base'[s].handed = b.handed /\ base'[s].same = v
    BY <1>3, <2>2
  <2> QED
    BY <1>2, <2>1, <2>3
<1>6. ASSUME phase[s] = "idle"
      PROVE  stay'[s] = {} /\ todo'[s] = <<>> /\ \A d \in DNs : sent'[s][d] = 0
  BY <1>1, <1>6 DEF WalkInv
<1>7. ASSUME phase[s] = "walking", scope[s] = "sub" PROVE SubtreeInv(s)'
  BY <1>1, <1>7, SubtreeChanges DEF WalkInv
<1>8. ASSUME phase[s] = "walking", scope[s] = "one", base'[s].same PROVE OneLevelInv(s)'
  <2>1. OneLevelInv(s) /\ children'[o] = children[o]
    BY <1>2, <1>5, <1>8 DEF WalkInv
  <2>2. Kids(o)' = Kids(o)
    BY <2>1 DEF Kids
  <2>3. \A k \in Kids(o) : dn'[k] = dn[k]
    BY <1>3, <2>1, SameLinkSameName
  <2>4. /\ stay[s] \subseteq {dn[k] : k \in Kids(o)} /\ last[s] \in Kids(o)
        /\ \A k \in Kids(o) : sent[s][dn[k]] = IF k \in b.handed \cup {last[s]} THEN 1 ELSE 0
    BY <1>2, <2>1 DEF OneLevelInv
  <2>5. /\ stay'[s] \subseteq {dn'[k] : k \in Kids(o)'} /\ last'[s] \in Kids(o)'
        /\ \A k \in Kids(o)' : sent'[s][dn'[k]] = IF k \in b.handed \cup {last'[s]} THEN 1 ELSE 0
    BY <1>1, <2>2, <2>3, <2>4
  <2> QED
    BY <1>5, <1>8, <2>5 DEF OneLevelInv, Kids
<1>9. ASSUME phase[s] = "done", scope[s] = "one" => base'[s].same PROVE AllSent(s)'
  BY <1>1, <1>2, <1>4, <1>9 DEF WalkInv
<1>10. ASSUME phase[s] = "walking", scope[s] = "base" PROVE AllSent(s)'
  BY <1>1, <1>10 DEF WalkInv
<1> QED
  BY <1>1, <1>6, <1>7, <1>8, <1>9, <1>10 DEF WalkInv

\* A search begins.
LEMMA SearchBegins ==
    ASSUME TreeInv, SearchInv, NEW s \in Searches, WalkInv(s), NEW d \in DNs, NEW how \in Scopes,
           HandleSearch(s, d, how)
    PROVE  WalkInv(s)'
<1>1. PICK o : o = Lookup(d)
  OBVIOUS
<1>2. /\ TreeTypes /\ OneName /\ o \in InTree /\ dn[o] = d /\ InTree \subseteq Entries
      /\ d \in Seq(RDNs) /\ \A x \in InTree : dn[x] \in DNs
  BY <1>1, LookupFinds, Linked, NameFacts DEF HandleSearch, LookupInv, TreeInv, TreeTypes
<1>3. /\ phase[s] = "idle" /\ UNCHANGED <<dn, children>> /\ how \in {"base", "one", "sub"}
      /\ \A e \in DNs : sent[s][e] = 0
  BY ChoicesAssumption DEF HandleSearch, treeVars, WalkInv
<1>4. Kids(o)' = Kids(o) /\ dn' = dn
  BY <1>3 DEF Kids
<1>5. scope'[s] = how /\ stay'[s] = InScope(d, how)
  BY SearchTyped
<1>6. /\ base'[s].entry = o /\ base'[s].handed = {}
  <2>1. PICK n : n = Cardinality(Kids(o))
    OBVIOUS
  <2>2. base'[s] = [entry |-> o, size |-> n, same |-> TRUE, handed |-> {}]
    BY <1>1, <2>1, SearchTyped
  <2> QED
    BY <2>2
<1>7. CASE how = "sub"
  <2>1. SubtreeInv(s)' 
    BY <1>7, SubtreeBegins
  <2>2. phase'[s] = "walking"
    BY <1>1, <1>2, <1>7, SentTyped DEF HandleSearch
  <2> QED
    BY <1>5, <1>7, <2>1, <2>2 DEF WalkInv
<1>8. CASE how = "base"
  <2>1. SendEntry(s, o)
    BY <1>1, <1>8 DEF HandleSearch
  <2>2. phase'[s] = "walking" /\ sent'[s][d] = sent[s][d] + 1
    BY <1>2, <2>1, SentTyped
  <2>3. stay'[s] = {d}
    BY <1>5, <1>8 DEF InScope
  <2>4. AllSent(s)'
    BY <1>3, <2>2, <2>3 DEF AllSent
  <2> QED
    BY <1>5, <1>8, <2>2, <2>4 DEF WalkInv
<1>9. CASE how = "one"
  <2>1. stay'[s] \subseteq {dn[k] : k \in Kids(o)}
    <3> SUFFICES ASSUME NEW e \in stay'[s] PROVE \E k \in Kids(o) : e = dn[k]
      OBVIOUS
    <3>1. e \in Found /\ e # <<>> /\ Tail(e) = d
      BY <1>5, <1>9 DEF InScope
    <3>2. PICK k \in InTree : dn[k] = e
      BY <3>1, FoundNames
    <3>3. k # Root
      BY <1>2, <3>1, <3>2 DEF TreeTypes
    <3>4. parent[k] \in InTree /\ k \in Kids(parent[k]) /\ dn[parent[k]] = d
      BY <3>1, <3>2, <3>3, Linked
    <3> QED
      BY <1>2, <3>2, <3>4 DEF OneName
  <2>2. CASE Leaf(o)
    <3>1. End(s, "done") /\ Kids(o) = {}
      BY <1>1, <1>9, <2>2 DEF HandleSearch, Leaf, Kids
    <3>2. phase'[s] = "done"
      BY <3>1, EndTyped
    <3>3. AllSent(s)'
      BY <2>1, <3>1 DEF AllSent
    <3> QED
      BY <3>2, <3>3 DEF WalkInv
  <2>3. CASE ~Leaf(o)
    <3>1. PICK c \in Kids(o) : SendEntry(s, c)
      BY <1>1, <1>9, <2>3 DEF HandleSearch
    <3>2. c \in InTree /\ Kids(o) \subseteq InTree
      BY <1>2, KidsAbove
    <3>3. /\ phase'[s] = "walking" /\ last'[s] = c /\ sent'[s][dn[c]] = sent[s][dn[c]] + 1
          /\ \A e \in DNs \ {dn[c]} : sent'[s][e] = sent[s][e]
      BY <1>2, <3>1, <3>2, SentTyped
    <3>4. ASSUME NEW k \in Kids(o) PROVE sent'[s][dn[k]] = IF k \in {} \cup {c} THEN 1 ELSE 0
      <4>1. CASE k = c
        BY <1>2, <1>3, <3>2, <3>3, <4>1
      <4>2. CASE k # c
        <5>1. dn[k] \in DNs \ {dn[c]}
          BY <1>2, <3>2, <4>2 DEF OneName
        <5> QED
          BY <1>3, <3>3, <4>2, <5>1
      <4> QED
        BY <4>1, <4>2
    <3>5. /\ stay'[s] \subseteq {dn'[k] : k \in Kids(o)'} /\ last'[s] \in Kids(o)'
          /\ \A k \in Kids(o)' :
                sent'[s][dn'[k]] = IF k \in base'[s].handed \cup {last'[s]} THEN 1 ELSE 0
      BY <1>4, <1>6, <2>1, <3>3, <3>4
    <3>6. OneLevelInv(s)'
      BY <1>6, <3>5 DEF OneLevelInv, Kids
    <3> QED
      BY <1>5, <1>9, <3>3, <3>6 DEF WalkInv
  <2> QED
    BY <2>2, <2>3
<1> QED
  BY <1>3, <1>7, <1>8, <1>9

\* A search of a subtree, or of an entry alone, goes on or ends.
LEMMA SearchGoesOn ==
    ASSUME TreeInv, SearchInv, NEW s \in Searches, WalkInv(s), SearchedOn(s)
    PROVE  WalkInv(s)'
<1>1. /\ phase[s] = "walking" /\ scope[s] # "one" /\ UNCHANGED <<treeVars, scope, base, stay>>
  BY DEF SearchedOn
<1>2. PICK lists, full : /\ lists = Lists(s)
                         /\ full = {n \in DOMAIN lists : scope[s] = "sub" /\ lists[n] # {}}
  OBVIOUS
<1>3. CASE full = {}
  <2>1. End(s, "done")
    BY <1>2, <1>3 DEF SearchedOn
  <2>2. phase'[s] = "done" /\ sent' = sent
    BY <2>1, EndTyped
  <2>3. scope[s] \in {"base", "sub"}
    BY <1>1 DEF WalkInv
  <2>4. AllSent(s)
    <3>1. CASE scope[s] = "sub"
      BY <1>1, <1>2, <1>3, <3>1, SubtreeEnds DEF WalkInv
    <3>2. CASE scope[s] = "base"
      BY <1>1, <3>2 DEF WalkInv
    <3> QED
      BY <2>3, <3>1, <3>2
  <2> QED
    BY <1>1, <2>2, <2>4 DEF WalkInv, AllSent
<1>4. CASE full # {}
  <2>1. PICK n \in full : \E c \in lists[n] :
          /\ \A m \in full : m <= n
          /\ SendEntry(s, c)
          /\ todo' = [todo EXCEPT ![s] = [SubSeq(lists, 1, n) EXCEPT ![n] = @ \ {c}]]
    BY <1>2, <1>4 DEF SearchedOn
  <2>2. PICK c \in lists[n] :
          /\ \A m \in full : m <= n
          /\ SendEntry(s, c)
          /\ todo' = [todo EXCEPT ![s] = [SubSeq(lists, 1, n) EXCEPT ![n] = @ \ {c}]]
    BY <2>1
  <2>3. scope[s] = "sub" /\ n \in DOMAIN lists /\ lists \in Seq(SUBSET Pool) /\ lists[n] \in SUBSET Pool
    BY <1>1, <1>2, ListsTyped, ElementOfSeq, LenProperties
  <2>4. \A m \in DOMAIN lists : m > n => lists[m] = {}
    <3>1. \A m \in DOMAIN lists : m \in Nat /\ n \in Nat
      BY <2>3, LenProperties
    <3> QED
      BY <1>2, <2>2, <2>3, <3>1
  <2>5. todo'[s] = [SubSeq(lists, 1, n) EXCEPT ![n] = lists[n] \ {c}]
    <3>1. SubSeq(lists, 1, n)[n] = lists[n]
      BY <2>3, ElementOfSeq, LenProperties, SubSeqProperties
    <3>2. todo'[s] = [SubSeq(lists, 1, n) EXCEPT ![n] = @ \ {c}]
      BY <2>2 DEF SearchInv
    <3> QED
      BY <3>1, <3>2
  <2>6. SubtreeInv(s)'
    <3>1. SubtreeInv(s) /\ UNCHANGED <<treeVars, stay>>
      BY <1>1, <2>3 DEF WalkInv
    <3> QED
      BY <1>1, <1>2, <2>2, <2>3, <2>4, <2>5, <3>1, SubtreeGoesOn
  <2>7. phase'[s] = "walking"
    BY <2>2, <2>3, SentTyped DEF Entries
  <2> QED
    BY <1>1, <2>3, <2>6, <2>7 DEF WalkInv
<1> QED
  BY <1>3, <1>4

\* A search of one level goes on or ends.
LEMMA OneLevelGoesOn ==
    ASSUME TreeInv, SearchInv, NEW s \in Searches, WalkInv(s), SearchedOneLevel(s)
    PROVE  WalkInv(s)'
<1>1. PICK o, handed : o = base[s].entry /\ handed = base[s].handed \cup {last[s]}
  OBVIOUS
<1>2. /\ phase[s] = "walking" /\ scope[s] = "one" /\ UNCHANGED <<treeVars, scope, todo, stay>>
      /\ \/ ~base[s].same /\ End(s, "failed")
         \/ \E c \in Kids(o) \ handed : SendEntry(s, c)
         \/ (Kids(o) \subseteq handed \/ ~base[s].same) /\ End(s, "done")
  BY <1>1 DEF SearchedOneLevel
<1>3. base'[s].entry = o /\ base'[s].same = base[s].same /\ base'[s].handed = handed /\ o \in Entries
  BY <1>1, OneLevelTyped DEF SearchInv
<1>4. dn' = dn /\ Kids(o)' = Kids(o) /\ stay' = stay /\ scope' = scope
  BY <1>2 DEF treeVars, Kids
<1>5. base[s].same => /\ stay[s] \subseteq {dn[k] : k \in Kids(o)}
                      /\ \A k \in Kids(o) : sent[s][dn[k]] = IF k \in handed THEN 1 ELSE 0
  BY <1>1, <1>2 DEF WalkInv, OneLevelInv
<1>6. CASE End(s, "failed")
  BY <1>6, EndTyped DEF WalkInv
<1>7. CASE End(s, "done") /\ (Kids(o) \subseteq handed \/ ~base[s].same)
  <2>1. phase'[s] = "done" /\ sent' = sent
    BY <1>7, EndTyped
  <2>2. base[s].same => AllSent(s)'
    BY <1>4, <1>5, <1>7, <2>1 DEF AllSent
  <2> QED
    BY <1>2, <1>3, <1>4, <2>1, <2>2 DEF WalkInv
<1>8. ASSUME NEW c \in Kids(o) \ handed, SendEntry(s, c) PROVE WalkInv(s)'
  <2>1. /\ o \in InTree /\ c \in InTree /\ Kids(o) \subseteq InTree /\ InTree \subseteq Entries
        /\ OneName /\ \A x \in InTree : dn[x] \in DNs
    BY <1>3, KidsByParent, Linked DEF TreeInv, TreeTypes
  <2>2. /\ phase'[s] = "walking" /\ last'[s] = c /\ sent'[s][dn[c]] = sent[s][dn[c]] + 1
        /\ \A e \in DNs \ {dn[c]} : sent'[s][e] = sent[s][e]
    BY <1>8, <2>1, SentTyped
  <2>3. ASSUME base[s].same, NEW k \in Kids(o)
        PROVE  sent'[s][dn[k]] = IF k \in handed \cup {c} THEN 1 ELSE 0
    <3>1. CASE k = c
      BY <1>5, <2>2, <2>3, <3>1
    <3>2. CASE k # c
      <4>1. dn[k] \in DNs \ {dn[c]}
        BY <2>1, <3>2 DEF OneName
      <4> QED
        BY <1>5, <2>2, <2>3, <3>2, <4>1
    <3> QED
      BY <3>1, <3>2
  <2>4. ASSUME base[s].same PROVE OneLevelInv(s)'
    <3>1. /\ stay'[s] \subseteq {dn'[k] : k \in Kids(o)'} /\ last'[s] \in Kids(o)'
          /\ \A k \in Kids(o)' :
                sent'[s][dn'[k]] = IF k \in base'[s].handed \cup {last'[s]} THEN 1 ELSE 0
      BY <1>3, <1>4, <1>5, <2>2, <2>3, <2>4
    <3> QED
      BY <1>3, <3>1 DEF OneLevelInv, Kids
  <2> QED
    BY <1>2, <1>3, <1>4, <2>2, <2>4 DEF WalkInv
<1> QED
  BY <1>2, <1>6, <1>7, <1>8

\* A step of one search, or one that changes no name, is nothing to the others.
LEMMA OthersGoOn ==
    ASSUME TreeInv, SearchInv, NEW s \in Searches, WalkInv(s),
           \/ UNCHANGED vars
           \/ \E d \in DNs, held \in SUBSET RDNs : HandleModify(d, held)
           \/ \E t \in Searches \ {s} :
                \/ \E d \in DNs, how \in Scopes : HandleSearch(t, d, how)
                \/ SearchedOn(t) \/ SearchedOneLevel(t)
    PROVE  WalkInv(s)'
<1>1. DOMAIN base[s] = {"entry", "size", "same", "handed"}
  BY DEF SearchInv
<1>2. CASE UNCHANGED vars
  BY <1>1, <1>2, WalkStays DEF vars, treeVars, searchVars
<1>3. ASSUME NEW d \in DNs, NEW held \in SUBSET RDNs, HandleModify(d, held) PROVE WalkInv(s)'
  BY <1>1, <1>3, WalkStays DEF HandleModify, searchVars
<1>4. ASSUME NEW t \in Searches \ {s}, NEW c \in Entries, SendEntry(t, c)
      PROVE  phase'[s] = phase[s] /\ last'[s] = last[s] /\ sent'[s] = sent[s]
  BY <1>4, SentTyped
<1>5. ASSUME NEW t \in Searches \ {s}, NEW how \in {"done", "failed"}, End(t, how)
      PROVE  phase'[s] = phase[s] /\ last'[s] = last[s] /\ sent'[s] = sent[s]
  BY <1>5, EndTyped
<1>6. ASSUME NEW o \in Entries PROVE Kids(o) \subseteq Entries
  BY KidsByParent DEF Entries
<1>7. ASSUME NEW t \in Searches \ {s}, NEW d \in DNs, NEW how \in Scopes, HandleSearch(t, d, how)
      PROVE  WalkInv(s)'
  <2>1. Lookup(d) \in Entries
    BY <1>7, LookupFinds, Linked DEF HandleSearch, LookupInv, TreeInv, TreeTypes
  <2>2. End(t, "done") \/ \E c \in Entries : SendEntry(t, c)
    BY <1>6, <1>7, <2>1 DEF HandleSearch
  <2>3. UNCHANGED <<dn, parent, children, todo>>
    BY <1>7 DEF HandleSearch, treeVars
  <2>4. stay'[s] = stay[s] /\ scope'[s] = scope[s] /\ base'[s] = base[s]
    BY <1>7, SearchTyped
  <2>5. phase'[s] = phase[s] /\ last'[s] = last[s] /\ sent'[s] = sent[s]
    BY <1>4, <1>5, <2>2
  <2> QED
    BY <1>1, <2>3, <2>4, <2>5, WalkStays
<1>8. ASSUME NEW t \in Searches \ {s}, SearchedOneLevel(t) PROVE WalkInv(s)'
  <2>1. base[t].entry \in Entries
    BY DEF SearchInv
  <2>2. End(t, "done") \/ End(t, "failed") \/ \E c \in Entries : SendEntry(t, c)
    BY <1>6, <1>8, <2>1 DEF SearchedOneLevel
  <2>3. UNCHANGED <<dn, parent, children, scope, todo, stay>>
    BY <1>8 DEF SearchedOneLevel, treeVars
  <2>4. base'[s] = base[s]
    BY <1>8, OneLevelTyped
  <2>5. phase'[s] = phase[s] /\ last'[s] = last[s] /\ sent'[s] = sent[s]
    BY <1>4, <1>5, <2>2
  <2> QED
    BY <1>1, <2>3, <2>4, <2>5, WalkStays
<1>9. ASSUME NEW t \in Searches \ {s}, SearchedOn(t) PROVE WalkInv(s)'
  <2>1. PICK lists : lists = Lists(t)
    OBVIOUS
  <2>2. /\ phase[t] = "walking" /\ UNCHANGED <<dn, parent, children, scope, base, stay>>
        /\ \/ End(t, "done")
           \/ \E n \in DOMAIN lists : \E c \in lists[n] : SendEntry(t, c)
        /\ \E q : todo' = [todo EXCEPT ![t] = q]
    BY <1>9, <2>1 DEF SearchedOn, treeVars
  <2>3. \A n \in DOMAIN lists : lists[n] \subseteq Entries
    BY <2>1, <2>2, ListsTyped, ElementOfSeq, LenProperties DEF Entries
  <2>4. phase'[s] = phase[s] /\ last'[s] = last[s] /\ sent'[s] = sent[s]
    BY <1>4, <1>5, <2>2, <2>3
  <2>5. todo'[s] = todo[s]
    BY <2>2 DEF SearchInv
  <2> QED
    BY <1>1, <2>2, <2>4, <2>5, WalkStays
<1> QED
  BY <1>2, <1>3, <1>7, <1>8, <1>9

LEMMA WalksGoOn ==
    ASSUME Careful, TreeInv, SearchInv, NEW s \in Searches, WalkInv(s), [Next]_vars
    PROVE  WalkInv(s)'
<1>1. ASSUME NEW t, Touching(t), UNCHANGED searchVars, Noticed, TreeInv' PROVE WalkInv(s)'
  BY <1>1, TreeChangesBeneath
<1>2. ASSUME NEW d \in DNs, NEW held \in SUBSET RDNs, HandleAdd(d, held) PROVE WalkInv(s)'
  <2>1. UNCHANGED searchVars /\ Noticed
    BY <1>2 DEF HandleAdd
  <2> QED
    BY <1>1, <1>2, <2>1, AddStep
<1>3. ASSUME NEW d \in DNs, HandleDelete(d) PROVE WalkInv(s)'
  <2>1. UNCHANGED searchVars /\ Noticed
    BY <1>3 DEF HandleDelete
  <2> QED
    BY <1>1, <1>3, <2>1, DeleteStep
<1>4. ASSUME NEW d \in DNs, NEW new \in DNs \cup {Elsewhere}, HandleModifyDN(d, new) PROVE WalkInv(s)'
  <2>1. UNCHANGED searchVars /\ Noticed
    BY <1>4 DEF HandleModifyDN
  <2> QED
    BY <1>1, <1>4, <2>1, MoveStep
<1>5. ASSUME NEW t \in Searches, NEW d \in DNs, NEW how \in Scopes, HandleSearch(t, d, how)
      PROVE  WalkInv(s)'
  <2>1. CASE t = s
    BY <1>5, <2>1, SearchBegins
  <2>2. CASE t # s
    BY <1>5, <2>2, OthersGoOn
  <2> QED
    BY <2>1, <2>2
<1>6. ASSUME NEW t \in Searches, SearchedOn(t) \/ SearchedOneLevel(t) PROVE WalkInv(s)'
  <2>1. CASE t = s
    BY <1>6, <2>1, SearchGoesOn, OneLevelGoesOn
  <2>2. CASE t # s
    BY <1>6, <2>2, OthersGoOn
  <2> QED
    BY <2>1, <2>2
<1>7. (\E d \in DNs, held \in SUBSET RDNs : HandleModify(d, held)) \/ UNCHANGED vars => WalkInv(s)'
  BY OthersGoOn
<1> QED
  BY <1>2, <1>3, <1>4, <1>5, <1>6, <1>7 DEF Next

-----------------------------------------------------------------------------
(* Directories.                                                            *)

\* A directory with the suffix, and of every entry the entry above it.
Above(c) ==
    /\ DOMAIN c \subseteq Seq(RDNs) /\ <<>> \in DOMAIN c
    /\ \A d \in DOMAIN c : d # <<>> => Abstract!Up(d) \in DOMAIN c

LEMMA AbstractNames == Abstract!DNs \subseteq Seq(RDNs)
  BY DEF Abstract!DNs

\* Directories have the same names above each other as trees.
LEMMA AbstractContains ==
  /\ \A d, e : Abstract!Contains(d, e) <=> Contains(d, e)
  /\ \A e : Abstract!Up(e) = Tail(e)
  BY DEF Abstract!Contains, Contains, Abstract!Up

\* Every operation of the directory leaves it closed.
LEMMA ModifiedKeepsAbove ==
  ASSUME NEW c, Above(c), NEW c2 \in Abstract!Modified(c)
  PROVE  Above(c2)
<1>1. DOMAIN c2 = DOMAIN c
  BY DEF Abstract!Modified
<1> QED
  BY <1>1 DEF Above

LEMMA AddedKeepsAbove ==
  ASSUME NEW c, Above(c), NEW c2 \in Abstract!Added(c)
  PROVE  Above(c2)
<1> DEFINE Put(d, held) == [e \in DOMAIN c \cup {d} |-> IF e = d THEN held ELSE c[e]]
           Vacant == {e \in Abstract!DNs \ DOMAIN c : Abstract!Up(e) \in DOMAIN c}
<1>0. Abstract!Added(c) = {Put(d, held) : d \in Vacant, held \in SUBSET RDNs}
  BY DEF Abstract!Added
<1>1. PICK d \in Abstract!DNs : Abstract!Up(d) \in DOMAIN c /\ DOMAIN c2 = DOMAIN c \cup {d}
  <2>1. \A d, held : DOMAIN Put(d, held) = DOMAIN c \cup {d}
    OBVIOUS
  <2> HIDE DEF Put
  <2>2. PICK d \in Vacant, held \in SUBSET RDNs : c2 = Put(d, held)
    BY <1>0
  <2> QED
    BY <2>1, <2>2
<1> QED
  BY <1>1, AbstractNames DEF Above

LEMMA DeletedKeepsAbove ==
  ASSUME NEW c, Above(c), NEW c2 \in Abstract!Deleted(c)
  PROVE  Above(c2)
<1>1. PICK d \in Abstract!Leaves(c) : DOMAIN c2 = DOMAIN c \ {d}
  BY DEF Abstract!Deleted
<1>2. d # <<>> /\ d \in DOMAIN c /\ \A e \in DOMAIN c \ {d} : ~Abstract!Contains(d, e)
  BY DEF Abstract!Leaves
<1>3. ASSUME NEW e \in DOMAIN c2, e # <<>>
      PROVE  Abstract!Up(e) \in DOMAIN c2
  <2>1. Abstract!Up(e) \in DOMAIN c
    BY <1>1, <1>3 DEF Above
  <2>2. Abstract!Up(e) # d
    <3>1. e \in Seq(RDNs) /\ ~Abstract!Contains(d, e)
      BY <1>1, <1>2 DEF Above
    <3> QED
      BY <1>3, <3>1, UpContains, AbstractContains DEF Abstract!Up
  <2> QED
    BY <1>1, <2>1, <2>2
<1> QED
  BY <1>1, <1>2, <1>3 DEF Above

LEMMA MovedKeepsAbove ==
  ASSUME NEW c, Above(c), NEW c2 \in Abstract!Moved(c)
  PROVE  Above(c2)
<1>1. PICK m \in (DOMAIN c \ {<<>>}) \X (Abstract!DNs \ DOMAIN c) :
        /\ Abstract!Up(m[2]) \in DOMAIN c /\ ~Abstract!Contains(m[1], m[2])
        /\ c2 = Abstract!MovedTo(c, m[1], m[2])
  BY DEF Abstract!Moved
<1> DEFINE d == m[1]
           new == m[2]
           Renamed(e) == IF Abstract!Contains(d, e) THEN SubSeq(e, 1, Len(e) - Len(d)) \o new ELSE e
<1>2. DOMAIN c2 = {Renamed(e) : e \in DOMAIN c}
  BY <1>1 DEF Abstract!MovedTo
<1>3. /\ d \in DOMAIN c /\ d # <<>> /\ d \in Seq(RDNs)
      /\ new \in Seq(RDNs) /\ new # <<>> /\ new # d
      /\ Abstract!Up(new) \in DOMAIN c /\ ~Abstract!Contains(d, new)
  BY <1>1, AbstractNames DEF Above
<1> HIDE DEF d, new
<1>4. ASSUME NEW e \in DOMAIN c
      PROVE  Renamed(e) \in Seq(RDNs)
  <2>1. e \in Seq(RDNs) /\ Len(e) \in Nat /\ Len(d) \in Nat
    BY <1>3, LenProperties DEF Above
  <2>2. ASSUME Abstract!Contains(d, e) PROVE SubSeq(e, 1, Len(e) - Len(d)) \in Seq(RDNs)
    <3>1. \A i \in 1..Len(e) - Len(d) : e[i] \in RDNs
      BY <2>1, ElementOfSeq
    <3> QED
      BY <2>1, <3>1, SubSeqProperties
  <2> QED
    BY <1>3, <2>1, <2>2, ConcatProperties
<1>5. <<>> \in DOMAIN c2
  <2>1. ~Abstract!Contains(d, <<>>)
    <3>1. Len(d) > 0 /\ Len(<<>>) = 0
      BY <1>3, UpIsName, EmptySeq
    <3> QED
      BY <3>1, <1>3, LenProperties DEF Abstract!Contains
  <2>2. Renamed(<<>>) = <<>>
    BY <2>1
  <2> QED
    BY <1>2, <2>2 DEF Above
<1>6. ASSUME NEW e \in DOMAIN c, Renamed(e) # <<>>
      PROVE  Abstract!Up(Renamed(e)) \in DOMAIN c2
  <2>0. e \in Seq(RDNs)
    BY DEF Above
  <2>1. CASE ~Abstract!Contains(d, e)
    <3>1. Renamed(e) = e /\ e # <<>> /\ d # e
      <4>1. Abstract!Contains(d, d)
        BY <1>3, ContainsByPlace, AbstractContains, LenProperties
      <4> QED
        BY <1>6, <2>1, <4>1
    <3>2. ~Abstract!Contains(d, Tail(e)) /\ Tail(e) \in DOMAIN c
      BY <1>3, <2>0, <2>1, <3>1, ContainsUp, AbstractContains DEF Above
    <3>3. Renamed(Tail(e)) = Tail(e)
      BY <3>2
    <3> QED
      BY <1>2, <3>1, <3>2, <3>3 DEF Abstract!Up
  <2>2. CASE e = d
    <3>1. Renamed(e) = new
      <4>1. Abstract!Contains(d, d)
        BY <1>3, ContainsByPlace, AbstractContains, LenProperties
      <4>2. SubSeq(d, 1, Len(d) - Len(d)) = <<>>
        BY <1>3, LenProperties, SubSeqEmpty
      <4> QED
        BY <1>3, <2>2, <4>1, <4>2, ConcatEmptySeq
    <3>2. ~Abstract!Contains(d, Tail(new))
      BY <1>3, ContainsUp, AbstractContains
    <3>3. Renamed(Tail(new)) = Tail(new)
      BY <3>2
    <3> QED
      BY <1>2, <1>3, <3>1, <3>3 DEF Abstract!Up
  <2>3. CASE Abstract!Contains(d, e) /\ e # d
    <3>1. e # <<>>
      <4>1. Len(d) > 0 /\ Len(<<>>) = 0
        BY <1>3, UpIsName, EmptySeq
      <4> QED
        BY <2>3, <4>1, LenProperties, <1>3 DEF Abstract!Contains
    <3>2. Abstract!Contains(d, Tail(e)) /\ Tail(e) \in DOMAIN c
      BY <1>3, <2>0, <2>3, <3>1, ContainsUp, AbstractContains DEF Above
    <3>3. /\ Len(Tail(e)) = Len(e) - 1 /\ Len(e) \in Nat /\ Len(d) \in Nat
          /\ Len(d) <= Len(e) - 1
      BY <1>3, <2>0, <3>1, <3>2, UpIsName, LenProperties DEF Abstract!Contains
    <3>4. Tail(SubSeq(e, 1, Len(e) - Len(d)) \o new)
            = SubSeq(Tail(e), 1, Len(e) - Len(d) - 1) \o new
      <4> DEFINE k == Len(e) - Len(d)
      <4>1. k \in Nat /\ 0 < k /\ k <= Len(e)
        BY <1>3, <3>3, UpIsName
      <4> HIDE DEF k
      <4>2. Tail(SubSeq(e, 1, k) \o new) = SubSeq(Tail(e), 1, k - 1) \o new
        BY <1>3, <2>0, <4>1, UpOfRenamed
      <4> QED
        BY <4>2 DEF k
    <3>5. Renamed(Tail(e)) = SubSeq(Tail(e), 1, Len(e) - Len(d) - 1) \o new
      <4>1. Len(Tail(e)) - Len(d) = Len(e) - Len(d) - 1
        BY <3>3
      <4> QED
        BY <3>2, <4>1
    <3>6. Abstract!Up(Renamed(e)) = Renamed(Tail(e))
      BY <2>3, <3>4, <3>5 DEF Abstract!Up
    <3> QED
      BY <1>2, <3>2, <3>6
  <2> QED
    BY <2>1, <2>2, <2>3
<1> HIDE DEF Renamed
<1> QED
  BY <1>2, <1>4, <1>5, <1>6 DEF Above

-----------------------------------------------------------------------------
(* The theorems.                                                           *)

\* Every entry of a directory has the entry above it, however deep the names
\* are and whatever is moved (interfaces.py IConnectedLDAPEntry).
THEOREM NoOrphans == Abstract!Spec => []Abstract!Closed
<1>1. Abstract!Init => Above(Content)
  BY EmptySeq DEF Abstract!Init, Above
<1>2. Above(Content) /\ [Abstract!Next]_Content => Above(Content)'
  <2> SUFFICES ASSUME Above(Content), [Abstract!Next]_Content PROVE Above(Content')
    OBVIOUS
  <2>1. CASE UNCHANGED Content
    BY <2>1
  <2> QED
    BY <2>1, ModifiedKeepsAbove, AddedKeepsAbove, DeletedKeepsAbove, MovedKeepsAbove DEF Abstract!Next
<1>3. Above(Content) => Abstract!Closed
  BY DEF Above, Abstract!Closed
<1> QED
  BY <1>1, <1>2, <1>3, PTL DEF Abstract!Spec

\* The tree of linked entries is a directory, for any number of entries and
\* names of any length: what lookup finds is at every moment what the adds,
\* deletes, moves and modifies have made of it one after the other, if clients
\* take care of what the handlers do not (inmemory.py, ldapserver.py).
THEOREM TreeIsADirectory == ASSUME Careful PROVE Spec => ImplementsDirectory
<1>1. Init => TreeInv /\ Abstract!Init
  BY InitTree DEF Abstract!Init
<1>2. TreeInv /\ [Next]_vars => TreeInv' /\ [Abstract!Next]_Content
  BY TreeStep
<1> QED
  BY <1>1, <1>2, PTL DEF Spec, ImplementsDirectory, Abstract!Spec

\* So no entry is ever without the entry above it, which adding, moving and
\* deleting look up and rely on (lookup and deleteChild of inmemory.py).
THEOREM NoEntryIsAlone == ASSUME Careful PROVE Spec => []Abstract!Closed
BY TreeIsADirectory, NoOrphans, PTL DEF ImplementsDirectory

\* An entry linked into the tree is found under its own name, is linked there
\* once, and knows its parent (lookup, deleteChild and _move2 of inmemory.py
\* rely on it), for any number of entries and names of any length.
THEOREM LinksAreFound == ASSUME Careful PROVE Spec => []LinkedIsFound
<1>1. Init => TreeInv /\ SearchInv
  BY InitTree, InitSearches
<1>2. TreeInv /\ SearchInv /\ [Next]_vars => (TreeInv /\ SearchInv)'
  BY TreeStep, SearchesTyped
<1>3. TreeInv /\ SearchInv => LinkedIsFound
  <2> SUFFICES ASSUME TreeInv, SearchInv PROVE LinkedIsFound
    OBVIOUS
  <2>1. TreeTypes /\ LinksInv /\ LookupInv
    BY LookupFinds DEF TreeInv
  <2>2. \A o \in Entries : Kids(o) \subseteq made \ {Root}
    BY Linked DEF Link
  <2>3. TypeOK
    BY <2>1, <2>2 DEF TreeTypes, SearchInv, TypeOK
  <2>4. ASSUME NEW o \in Entries, NEW r \in DOMAIN children[o], NEW c, c = children[o][r]
        PROVE  Lookup(dn[c]) = c /\ Head(dn[c]) = r /\ parent[c] = o
    <3>1. Link(o, r, c) /\ c \in InTree
      BY <2>1, <2>4, Linked DEF LinksInv, Kids
    <3> QED
      BY <2>1, <3>1 DEF Link, LookupInv
  <2> QED
    BY <2>3, <2>4 DEF LinkedIsFound
<1> QED
  BY <1>1, <1>2, <1>3, PTL DEF Spec

\* A search that ends well has sent every entry of its scope that was there
\* from its beginning to its end, and sent it once; a one-level search, if the
\* children it went through have not changed beneath it (search, subtree and
\* children of inmemory.py, with handle_LDAPSearchRequest of ldapserver.py
\* awaiting each entry's write).
THEOREM SearchesFindWhatStays == ASSUME Careful PROVE Spec => []SearchFindsWhatStays
<1> DEFINE WalksInv == \A s \in Searches : WalkInv(s)
<1>1. Init => TreeInv /\ SearchInv /\ WalksInv
  <2>1. Init => WalksInv
    BY DEF Init, WalkInv
  <2> QED
    BY <2>1, InitTree, InitSearches
<1>2. TreeInv /\ SearchInv /\ WalksInv /\ [Next]_vars => (TreeInv /\ SearchInv /\ WalksInv)'
  BY TreeStep, SearchesTyped, WalksGoOn
<1>3. WalksInv => SearchFindsWhatStays
  BY DEF SearchFindsWhatStays, WalkInv, AllSent
<1> HIDE DEF WalksInv
<1> QED
  BY <1>1, <1>2, <1>3, PTL DEF Spec

=============================================================================
