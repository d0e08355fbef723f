--------------------------- MODULE LDIFTreeProofs ---------------------------
(***************************************************************************)
(* What the tree of files promises for any number of tasks, names and      *)
(* crashes: a file holds a whole entry, a lookup finds what is there all   *)
(* along, and no entry is lost.  And what LDIFStream, which reads such     *)
(* files as their lines come, promises for any lines.                      *)
(***************************************************************************)
EXTENDS LDIFTree, LDIFStream, SequenceTheorems, FiniteSetTheorems, WellFoundedInduction, NaturalsInduction,
        TLAPS

Calls == {"idle", "walk", "walk2", "list", "mkdir", "unlink", "putdir", "putmkdir", "write",
          "written", "publish", "movedir", "moveldif", "found", "missed"}

LocalType ==
    /\ pc \in [Tasks -> Calls]
    /\ op \in [Tasks -> {"none", "add", "put", "delete", "commit", "move", "lookup"}]
    /\ goal \in [Tasks -> Seq(RDNs)] /\ at \in [Tasks -> Seq(RDNs)]
    /\ path \in [Tasks -> Seq(RDNs)] /\ new \in [Tasks -> Seq(RDNs)]

ShapeInv ==
    /\ LocalType
    /\ tmp \in [Writers -> {None} \cup [dir : Seq(RDNs), whole : BOOLEAN]]
    /\ stay \in [Readers -> BOOLEAN]

\* With every name there are the directories of those above it.
ClosedInv ==
    /\ There \subseteq Seq(RDNs) /\ <<>> \in dirs /\ <<>> \notin DOMAIN files
    /\ \A d \in There : \A n \in 0..Len(d) - 1 : Last(d, n) \in dirs

\* What a task is about, in each of its calls.
LocalInv(t) ==
    /\ pc[t] \in {"walk", "walk2"} =>
         Len(at[t]) <= Len(goal[t]) /\ at[t] = Last(goal[t], Len(at[t]))
    /\ pc[t] = "walk" => op[t] \in {"add", "delete", "commit", "move", "lookup"}
    /\ pc[t] \in {"walk2", "movedir", "moveldif"} => op[t] = "move"
    /\ pc[t] = "list" => op[t] \in {"add", "delete"}
    /\ pc[t] = "mkdir" => op[t] = "add"
    /\ pc[t] \in {"putdir", "putmkdir"} => op[t] = "put"
    /\ pc[t] \in {"write", "written", "publish"} => op[t] \in {"add", "put", "commit", "move"}
    /\ op[t] \in {"add", "put", "move"} => new[t] # <<>>
    /\ op[t] = "commit" => IF pc[t] = "walk" THEN goal[t] # <<>> ELSE path[t] # <<>>

\* The temporary file of a writer is in a directory there is, and whole once
\* it is about to get its name.
TmpInv(w) ==
    /\ tmp[w] # None => tmp[w].dir \in dirs
    /\ pc[w] \in {"written", "publish"} => tmp[w] # None
    /\ pc[w] = "publish" => tmp[w].whole

\* A reader is on the way to the name it looks for, or has its answer.
LookupInv(r) ==
    /\ pc[r] \in {"idle", "walk", "found", "missed"}
    /\ pc[r] # "idle" => op[r] = "lookup" /\ (stay[r] => goal[r] \in DOMAIN files)
    /\ pc[r] = "missed" => ~stay[r]

TasksInv ==
    /\ \A t \in Tasks : LocalInv(t)
    /\ \A w \in Writers : TmpInv(w)
    /\ \A r \in Readers : LookupInv(r)

TreeInv == ShapeInv /\ ClosedInv /\ EntriesAreWhole /\ TasksInv

-----------------------------------------------------------------------------
(* Names.                                                                  *)

\* The last RDNs of a name, one by one.
LEMMA LastByPlace ==
    ASSUME NEW d \in Seq(RDNs), NEW n \in 0..Len(d)
    PROVE  /\ Last(d, n) \in Seq(RDNs) /\ Len(Last(d, n)) = n
           /\ \A i \in 1..n : Last(d, n)[i] = d[Len(d) - n + i]
<1>1. Len(d) \in Nat /\ n \in Nat /\ n <= Len(d) /\ \A i \in 1..Len(d) : d[i] \in RDNs
  BY LenProperties, ElementOfSeq
<1> DEFINE m == Len(d) - n + 1
<1>2. m \in Int /\ (\A i \in m..Len(d) : i \in 1..Len(d))
  BY <1>1
<1>3. /\ SubSeq(d, m, Len(d)) \in Seq(RDNs)
      /\ Len(SubSeq(d, m, Len(d))) = IF m <= Len(d) THEN Len(d) - m + 1 ELSE 0
      /\ \A i \in 1..Len(d) - m + 1 : SubSeq(d, m, Len(d))[i] = d[m + i - 1]
  <2> HIDE DEF m
  <2> QED
    BY <1>1, <1>2, SubSeqProperties
<1>4. Last(d, n) = SubSeq(d, m, Len(d))
  BY DEF Last
<1>5. Len(d) - m + 1 = n /\ (IF m <= Len(d) THEN Len(d) - m + 1 ELSE 0) = n
  BY <1>1
<1>6. \A i \in 1..n : m + i - 1 = Len(d) - n + i
  BY <1>1
<1> HIDE DEF m
<1> QED
  BY <1>3, <1>4, <1>5, <1>6

\* So names that agree place by place from the right have the same last RDNs.
LEMMA SameLast ==
    ASSUME NEW d \in Seq(RDNs), NEW e \in Seq(RDNs), NEW n \in 0..Len(d), n <= Len(e),
           \A i \in 1..n : d[Len(d) - n + i] = e[Len(e) - n + i]
    PROVE  Last(d, n) = Last(e, n)
<1>1. n \in 0..Len(e)
  BY LenProperties
<1>2. /\ Last(d, n) \in Seq(RDNs) /\ Len(Last(d, n)) = n
      /\ \A i \in 1..n : Last(d, n)[i] = d[Len(d) - n + i]
  BY LastByPlace
<1>3. /\ Last(e, n) \in Seq(RDNs) /\ Len(Last(e, n)) = n
      /\ \A i \in 1..n : Last(e, n)[i] = e[Len(e) - n + i]
  BY <1>1, LastByPlace
<1>4. \A i \in 1..n : Last(d, n)[i] = Last(e, n)[i]
  BY <1>2, <1>3
<1> HIDE DEF Last
<1> QED
  BY <1>2, <1>3, <1>4, SeqEqual

LEMMA LastIsAll == \A d \in Seq(RDNs) : Last(d, Len(d)) = d
<1> TAKE d \in Seq(RDNs)
<1>1. Len(d) \in 0..Len(d) /\ Len(d) \in Nat
  BY LenProperties
<1>2. /\ Last(d, Len(d)) \in Seq(RDNs) /\ Len(Last(d, Len(d))) = Len(d)
      /\ \A i \in 1..Len(d) : Last(d, Len(d))[i] = d[Len(d) - Len(d) + i]
  BY <1>1, LastByPlace
<1>3. \A i \in 1..Len(d) : Len(d) - Len(d) + i = i
  BY <1>1
<1>4. \A i \in 1..Len(d) : Last(d, Len(d))[i] = d[i]
  BY <1>2, <1>3
<1> QED
  BY <1>2, <1>4, SeqEqual

LEMMA LastOfLast ==
    ASSUME NEW d \in Seq(RDNs), NEW n \in 0..Len(d), NEW m \in 0..n
    PROVE  Last(Last(d, n), m) = Last(d, m)
<1>1. Len(d) \in Nat /\ n \in Nat /\ m \in Nat /\ m <= n /\ n <= Len(d)
  BY LenProperties
<1>2. PICK e : e = Last(d, n)
  OBVIOUS
<1>3. e \in Seq(RDNs) /\ Len(e) = n /\ \A i \in 1..n : e[i] = d[Len(d) - n + i]
  BY <1>2, LastByPlace
<1>4. m \in 0..Len(e) /\ m <= Len(d)
  BY <1>1, <1>3
<1>5. ASSUME NEW i \in 1..m PROVE e[Len(e) - m + i] = d[Len(d) - m + i]
  <2>1. n - m + i \in 1..n /\ Len(d) - n + (n - m + i) = Len(d) - m + i
    BY <1>1
  <2> QED
    BY <1>3, <2>1
<1> QED
  BY <1>2, <1>3, <1>4, <1>5, SameLast

LEMMA TailIsLast ==
    ASSUME NEW d \in Seq(RDNs), d # <<>>
    PROVE  /\ Len(d) \in Nat /\ Len(d) > 0 /\ Tail(d) \in Seq(RDNs)
           /\ Len(Tail(d)) = Len(d) - 1 /\ Tail(d) = Last(d, Len(d) - 1)
<1>1. Len(d) \in Nat /\ Len(d) > 0
  BY EmptySeq, LenProperties
<1>2. /\ Tail(d) \in Seq(RDNs) /\ Len(Tail(d)) = Len(d) - 1
      /\ \A i \in 1..Len(d) - 1 : Tail(d)[i] = d[i + 1]
  BY HeadTailProperties
<1>3. /\ Last(d, Len(d) - 1) \in Seq(RDNs) /\ Len(Last(d, Len(d) - 1)) = Len(d) - 1
      /\ \A i \in 1..Len(d) - 1 : Last(d, Len(d) - 1)[i] = d[Len(d) - (Len(d) - 1) + i]
  <2>1. Len(d) - 1 \in 0..Len(d)
    BY <1>1
  <2> QED
    BY <2>1, LastByPlace
<1>4. \A i \in 1..Len(d) - 1 : Len(d) - (Len(d) - 1) + i = i + 1
  BY <1>1
<1>5. \A i \in 1..Len(d) - 1 : Tail(d)[i] = Last(d, Len(d) - 1)[i]
  BY <1>2, <1>3, <1>4
<1> QED
  BY <1>1, <1>2, <1>3, <1>5, SeqEqual

\* What every step needs to know of names.
LEMMA Names ==
    /\ DNs \subseteq Seq(RDNs) /\ <<>> \in Seq(RDNs) /\ Len(<<>>) = 0
    /\ \A d \in Seq(RDNs) : /\ Len(d) \in Nat
                            /\ d # <<>> => Tail(d) \in Seq(RDNs)
                            /\ \A n \in 0..Len(d) : Last(d, n) \in Seq(RDNs) /\ Len(Last(d, n)) = n
                            /\ Last(d, 0) = <<>>
<1>1. DNs \subseteq Seq(RDNs)
  BY DEF DNs
<1>2. ASSUME NEW d \in Seq(RDNs)
      PROVE  /\ Len(d) \in Nat
             /\ d # <<>> => Tail(d) \in Seq(RDNs)
             /\ \A n \in 0..Len(d) : Last(d, n) \in Seq(RDNs) /\ Len(Last(d, n)) = n
             /\ Last(d, 0) = <<>>
  <2>1. Len(d) \in Nat /\ (d # <<>> => Tail(d) \in Seq(RDNs))
    BY LenProperties, TailIsLast
  <2>2. \A n \in 0..Len(d) : Last(d, n) \in Seq(RDNs) /\ Len(Last(d, n)) = n
    BY LastByPlace
  <2>3. Last(d, 0) = <<>>
    BY <2>1, <2>2, EmptySeq
  <2> QED
    BY <2>1, <2>2, <2>3
<1> QED
  BY <1>1, <1>2, EmptySeq

\* A name that is not at d or below it is nowhere above such a name... and what
\* is above a name is at or below d only if the name is below d.
LEMMA AboveStays ==
    ASSUME NEW d \in Seq(RDNs), NEW f \in Seq(RDNs), NEW n \in 0..Len(f) - 1,
           Last(f, n) = d \/ Below(d, Last(f, n))
    PROVE  Below(d, f)
<1>1. Len(f) \in Nat /\ Len(d) \in Nat /\ n \in 0..Len(f) /\ n < Len(f) /\ Len(Last(f, n)) = n
  BY Names
<1>2. CASE Last(f, n) = d
  BY <1>1, <1>2 DEF Below
<1>3. CASE Below(d, Last(f, n))
  <2>1. Len(d) < n /\ Last(Last(f, n), Len(d)) = d
    BY <1>1, <1>3 DEF Below
  <2>2. Len(d) \in 0..n
    BY <1>1, <2>1
  <2>3. Last(Last(f, n), Len(d)) = Last(f, Len(d))
    BY <1>1, <2>2, LastOfLast
  <2>4. Len(d) < Len(f)
    BY <1>1, <2>1
  <2>5. Last(f, Len(d)) = d
    BY <2>1, <2>3
  <2> QED
    BY <2>4, <2>5 DEF Below
<1> QED
  BY <1>2, <1>3

\* The names above one that is moved with what is above it.
LEMMA LastOfRenamed ==
    ASSUME NEW d \in Seq(RDNs), NEW e \in Seq(RDNs), NEW f \in Seq(RDNs), f = d \/ Below(d, f)
    PROVE  /\ Renamed(f, d, e) \in Seq(RDNs)
           /\ Len(Renamed(f, d, e)) = Len(f) - Len(d) + Len(e)
           /\ \A n \in 0..Len(e) : Last(Renamed(f, d, e), n) = Last(e, n)
           /\ \A n \in Len(e)..Len(f) - Len(d) + Len(e) :
                Last(Renamed(f, d, e), n) = Renamed(Last(f, n - Len(e) + Len(d)), d, e)
           /\ Renamed(d, d, e) = e
<1>1. Len(d) \in Nat /\ Len(e) \in Nat /\ Len(f) \in Nat /\ Len(d) <= Len(f)
  BY Names DEF Below
<1>2. \A g \in Seq(RDNs) : Len(d) <= Len(g) =>
        /\ Renamed(g, d, e) \in Seq(RDNs)
        /\ Len(Renamed(g, d, e)) = Len(g) - Len(d) + Len(e)
        /\ \A i \in 1..Len(g) - Len(d) + Len(e) :
             Renamed(g, d, e)[i] = IF i <= Len(g) - Len(d) THEN g[i] ELSE e[i - (Len(g) - Len(d))]
  <2> TAKE g \in Seq(RDNs)
  <2> HAVE Len(d) <= Len(g)
  <2>1. PICK k : k = Len(g) - Len(d)
    OBVIOUS
  <2>2. k \in 0..Len(g) /\ Len(g) \in Nat /\ k \in Int /\ \A i \in 1..k : g[i] \in RDNs
    BY <1>1, <2>1, Names, ElementOfSeq
  <2>3. PICK s : s = SubSeq(g, 1, k)
    OBVIOUS
  <2>4. s \in Seq(RDNs) /\ Len(s) = k /\ \A i \in 1..k : s[i] = g[i]
    <3>1. /\ s \in Seq(RDNs) /\ Len(s) = IF 1 <= k THEN k - 1 + 1 ELSE 0
          /\ \A i \in 1..k - 1 + 1 : s[i] = g[1 + i - 1]
      BY <2>2, <2>3, SubSeqProperties
    <3> QED
      BY <2>2, <3>1
  <2>5. /\ s \o e \in Seq(RDNs) /\ Len(s \o e) = k + Len(e)
        /\ \A i \in 1..k + Len(e) : (s \o e)[i] = IF i <= k THEN s[i] ELSE e[i - k]
    BY <2>4, ConcatProperties
  <2>6. Renamed(g, d, e) = s \o e
    BY <2>1, <2>3 DEF Renamed
  <2> QED
    BY <1>1, <2>1, <2>2, <2>4, <2>5, <2>6
<1>3. PICK r : r = Renamed(f, d, e)
  OBVIOUS
<1>4. /\ r \in Seq(RDNs) /\ Len(r) = Len(f) - Len(d) + Len(e)
      /\ \A i \in 1..Len(f) - Len(d) + Len(e) :
           r[i] = IF i <= Len(f) - Len(d) THEN f[i] ELSE e[i - (Len(f) - Len(d))]
  BY <1>1, <1>2, <1>3
<1>5. ASSUME NEW n \in 0..Len(e) PROVE Last(r, n) = Last(e, n)
  <2>1. n \in 0..Len(r) /\ n <= Len(e)
    BY <1>1, <1>4
  <2>2. ASSUME NEW i \in 1..n PROVE r[Len(r) - n + i] = e[Len(e) - n + i]
    <3>1. PICK j : j = Len(r) - n + i
      OBVIOUS
    <3>2. /\ j \in 1..Len(f) - Len(d) + Len(e) /\ ~(j <= Len(f) - Len(d))
          /\ j - (Len(f) - Len(d)) = Len(e) - n + i
      BY <1>1, <1>4, <3>1
    <3>3. r[j] = e[j - (Len(f) - Len(d))]
      BY <1>4, <3>2
    <3> QED
      BY <3>1, <3>2, <3>3
  <2> QED
    BY <1>4, <2>1, <2>2, SameLast
<1>6. ASSUME NEW n \in Len(e)..Len(f) - Len(d) + Len(e)
      PROVE  Last(r, n) = Renamed(Last(f, n - Len(e) + Len(d)), d, e)
  <2>1. PICK m : m = n - Len(e) + Len(d)
    OBVIOUS
  <2>2. m \in 0..Len(f) /\ Len(d) <= m /\ n \in 0..Len(r) /\ n = m - Len(d) + Len(e)
    BY <1>1, <1>4, <2>1
  <2>3. PICK g : g = Last(f, m)
    OBVIOUS
  <2>4. g \in Seq(RDNs) /\ Len(g) = m /\ \A i \in 1..m : g[i] = f[Len(f) - m + i]
    BY <2>2, <2>3, LastByPlace
  <2>5. PICK q : q = Renamed(g, d, e)
    OBVIOUS
  <2>6. /\ q \in Seq(RDNs) /\ Len(q) = n
        /\ \A i \in 1..n : q[i] = IF i <= m - Len(d) THEN g[i] ELSE e[i - (m - Len(d))]
    BY <1>2, <2>2, <2>4, <2>5
  <2>7. ASSUME NEW i \in 1..n PROVE r[Len(r) - n + i] = q[Len(q) - n + i]
    <3>1. PICK j : j = Len(r) - n + i
      OBVIOUS
    <3>2. /\ j \in 1..Len(f) - Len(d) + Len(e) /\ Len(q) - n + i = i /\ j = Len(f) - m + i
          /\ j <= Len(f) - Len(d) <=> i <= m - Len(d)
          /\ j - (Len(f) - Len(d)) = i - (m - Len(d))
          /\ i <= m - Len(d) => i \in 1..m
      BY <1>1, <1>4, <2>2, <2>6, <3>1
    <3>3. r[j] = IF j <= Len(f) - Len(d) THEN f[j] ELSE e[j - (Len(f) - Len(d))]
      BY <1>4, <3>2
    <3>4. q[i] = IF i <= m - Len(d) THEN g[i] ELSE e[i - (m - Len(d))]
      BY <2>6
    <3>5. i <= m - Len(d) => g[i] = f[j]
      BY <2>4, <3>2
    <3> QED
      BY <3>1, <3>2, <3>3, <3>4, <3>5
  <2>8. n <= Len(q)
    BY <2>2, <2>6
  <2>9. Last(r, n) = Last(q, n)
    BY <1>4, <2>2, <2>6, <2>7, <2>8, SameLast
  <2>10. Last(q, n) = q
    BY <2>6, LastIsAll
  <2> QED
    BY <2>1, <2>3, <2>5, <2>9, <2>10
<1>7. Renamed(d, d, e) = e
  <2>1. PICK q : q = Renamed(d, d, e)
    OBVIOUS
  <2>2. /\ q \in Seq(RDNs) /\ Len(q) = Len(e)
        /\ \A i \in 1..Len(e) : q[i] = e[i]
    <3>1. /\ q \in Seq(RDNs) /\ Len(q) = Len(d) - Len(d) + Len(e)
          /\ \A i \in 1..Len(d) - Len(d) + Len(e) :
               q[i] = IF i <= Len(d) - Len(d) THEN d[i] ELSE e[i - (Len(d) - Len(d))]
      <4>1. Len(d) <= Len(d)
        BY <1>1
      <4> QED
        BY <1>2, <2>1, <4>1
    <3>2. /\ Len(d) - Len(d) + Len(e) = Len(e)
          /\ \A i \in 1..Len(e) : ~(i <= Len(d) - Len(d)) /\ i - (Len(d) - Len(d)) = i
      BY <1>1
    <3> QED
      BY <3>1, <3>2
  <2> QED
    BY <2>1, <2>2, SeqEqual
<1> QED
  BY <1>3, <1>4, <1>5, <1>6, <1>7

-----------------------------------------------------------------------------
(* The steps.                                                              *)

LEMMA InitTree == Init => TreeInv
<1> SUFFICES ASSUME Init PROVE TreeInv
  OBVIOUS
<1>1. ShapeInv
  BY Names DEF Init, ShapeInv, LocalType, Calls
<1>2. EntriesAreWhole
  BY DEF Init, EntriesAreWhole
<1>3. TasksInv
  BY TasksAssumption DEF Init, TasksInv, LocalInv, TmpInv, LookupInv, Tasks
<1>4. ClosedInv
  <2>1. /\ DOMAIN files = DOMAIN Start /\ dirs = {<<>>} \cup {Tail(d) : d \in DOMAIN Start}
        /\ DOMAIN Start \subseteq Seq(RDNs) /\ <<>> \notin DOMAIN Start
    BY Names, StartAssumption DEF Init
  <2>2. ASSUME NEW d \in DOMAIN Start, NEW n \in 0..Len(d) - 1 PROVE Last(d, n) \in dirs
    <3>1. d \in Seq(RDNs) /\ Len(d) \in Nat /\ n + 1 \in 0..Len(d) /\ n \in 0..n + 1
      BY <2>1, Names
    <3>2. PICK e : e = Last(d, n + 1)
      OBVIOUS
    <3>3. e \in Seq(RDNs) /\ Len(e) = n + 1 /\ e # <<>> /\ Last(e, n) = Last(d, n)
      BY <3>1, <3>2, Names, LastOfLast
    <3>4. Tail(e) = Last(e, n)
      BY <3>1, <3>3, TailIsLast
    <3>5. e \in DOMAIN Start
      <4>1. CASE n + 1 = Len(d)
        BY <3>1, <3>2, <4>1, LastIsAll
      <4>2. CASE n + 1 # Len(d)
        <5>1. Len(d) - (n + 1) + 1 \in 2..Len(d)
          BY <3>1, <4>2
        <5> QED
          BY <3>2, <5>1, StartAssumption DEF Last
      <4> QED
        BY <4>1, <4>2
    <3> QED
      BY <2>1, <3>3, <3>4, <3>5
  <2>3. ASSUME NEW d \in DOMAIN Start, NEW n \in 0..Len(Tail(d)) - 1 PROVE Last(Tail(d), n) \in dirs
    <3>1. /\ d \in Seq(RDNs) /\ Len(d) \in Nat /\ Len(Tail(d)) = Len(d) - 1
          /\ Tail(d) = Last(d, Len(d) - 1)
      BY <2>1, TailIsLast
    <3>2. Len(d) - 1 \in 0..Len(d) /\ n \in 0..Len(d) - 1
      BY <3>1
    <3>3. Last(Tail(d), n) = Last(d, n)
      BY <3>1, <3>2, LastOfLast
    <3> QED
      BY <2>2, <3>2, <3>3
  <2>4. \A d \in DOMAIN Start : Tail(d) \in Seq(RDNs)
    BY <2>1, Names
  <2>5. \A n \in 0..Len(<<>>) - 1 : FALSE
    BY Names
  <2>6. There \subseteq Seq(RDNs) /\ <<>> \in dirs /\ <<>> \notin DOMAIN files
    BY <2>1, <2>4, Names DEF There
  <2>7. ASSUME NEW d \in There, NEW n \in 0..Len(d) - 1 PROVE Last(d, n) \in dirs
    BY <2>1, <2>2, <2>3, <2>5, <2>7 DEF There
  <2> QED
    BY <2>6, <2>7 DEF ClosedInv
<1> QED
  BY <1>1, <1>2, <1>3, <1>4 DEF TreeInv

\* What a step may leave alone of a task.
Same(t) ==
    /\ pc'[t] = pc[t] /\ op'[t] = op[t] /\ goal'[t] = goal[t] /\ at'[t] = at[t]
    /\ path'[t] = path[t] /\ new'[t] = new[t]

LEMMA SameLocal == ASSUME NEW t, Same(t), LocalInv(t) PROVE LocalInv(t)'
BY DEF Same, LocalInv

\* An operation that is over.
LEMMA Ending ==
    ASSUME ShapeInv, NEW t \in Tasks, Return(t)
    PROVE  /\ LocalType' /\ LocalInv(t)' /\ pc'[t] = "idle"
           /\ \A s \in Tasks \ {t} : Same(s)
<1>1. /\ pc' = [pc EXCEPT ![t] = "idle"] /\ op' = [op EXCEPT ![t] = "none"]
      /\ goal' = [goal EXCEPT ![t] = <<>>] /\ at' = [at EXCEPT ![t] = <<>>]
      /\ path' = [path EXCEPT ![t] = <<>>] /\ new' = [new EXCEPT ![t] = <<>>]
  BY DEF Return, GoTo, Forget
<1>2. LocalType
  BY DEF ShapeInv
<1>3. LocalType'
  BY <1>1, <1>2, Names DEF LocalType, Calls
<1>4. pc'[t] = "idle" /\ op'[t] = "none" /\ \A s \in Tasks \ {t} : Same(s)
  BY <1>1, <1>2 DEF LocalType, Same
<1> QED
  BY <1>3, <1>4 DEF LocalInv

\* An operation that goes on with what it knows.
LEMMA GoingOn ==
    ASSUME ShapeInv, NEW t \in Tasks, NEW call \in Calls, GoTo(t, call), UNCHANGED locals
    PROVE  /\ LocalType' /\ pc'[t] = call
           /\ UNCHANGED <<op, goal, at, path, new>>
           /\ \A s \in Tasks \ {t} : Same(s)
<1>1. /\ pc' = [pc EXCEPT ![t] = call] /\ UNCHANGED <<op, goal, at, path, new>>
  BY DEF GoTo, locals
<1>2. LocalType
  BY DEF ShapeInv
<1>3. LocalType'
  BY <1>1, <1>2 DEF LocalType
<1>4. pc'[t] = call /\ \A s \in Tasks \ {t} : Same(s)
  BY <1>1, <1>2 DEF LocalType, Same
<1> QED
  BY <1>1, <1>3, <1>4

\* A step that leaves the disk alone.
LEMMA Looking ==
    ASSUME TreeInv, NEW t \in Tasks, UNCHANGED <<files, dirs, tmp, stay>>,
           LocalType', LocalInv(t)', \A s \in Tasks \ {t} : Same(s),
           pc'[t] \notin {"written", "publish"},
           t \in Readers =>
             /\ pc'[t] \in {"idle", "walk", "found", "missed"}
             /\ pc'[t] # "idle" => op'[t] = "lookup" /\ (stay[t] => goal'[t] \in DOMAIN files)
             /\ pc'[t] = "missed" => ~stay[t]
    PROVE  TreeInv'
<1>1. ShapeInv /\ ClosedInv /\ EntriesAreWhole /\ TasksInv
  BY DEF TreeInv
<1>2. ShapeInv' /\ ClosedInv' /\ EntriesAreWhole'
  BY <1>1 DEF ShapeInv, ClosedInv, EntriesAreWhole, There
<1>3. ASSUME NEW s \in Tasks PROVE LocalInv(s)'
  BY <1>1, SameLocal DEF TasksInv
<1>4. ASSUME NEW w \in Writers PROVE TmpInv(w)'
  <2>1. w \in Tasks /\ TmpInv(w) /\ (w # t => pc'[w] = pc[w])
    BY <1>1 DEF TasksInv, Tasks, Same
  <2> QED
    BY <2>1 DEF TmpInv
<1>5. ASSUME NEW r \in Readers PROVE LookupInv(r)'
  <2>1. r \in Tasks /\ LookupInv(r) /\ (r # t => Same(r))
    BY <1>1 DEF TasksInv, Tasks
  <2> QED
    BY <2>1 DEF LookupInv, Same
<1> QED
  BY <1>2, <1>3, <1>4, <1>5 DEF TreeInv, TasksInv

\* A step of a writer that changes the disk.
LEMMA Changing ==
    ASSUME TreeInv, NEW w \in Writers, ClosedInv', EntriesAreWhole',
           Noticed \/ UNCHANGED <<files, stay>>,
           tmp' \in [Writers -> {None} \cup [dir : Seq(RDNs), whole : BOOLEAN]],
           LocalType', LocalInv(w)', \A s \in Tasks \ {w} : Same(s),
           \A v \in Writers : tmp'[v] # None => tmp'[v].dir \in dirs',
           \A v \in Writers \ {w} :
             tmp[v] # None => tmp'[v] # None /\ tmp'[v].whole = tmp[v].whole,
           pc'[w] \in {"written", "publish"} => tmp'[w] # None,
           pc'[w] = "publish" => tmp'[w].whole
    PROVE  TreeInv'
<1>1. ShapeInv /\ TasksInv /\ Writers \subseteq Tasks /\ Readers \subseteq Tasks \ {w}
  BY TasksAssumption DEF TreeInv, Tasks
<1>2. stay' \in [Readers -> BOOLEAN] /\ \A r \in Readers : stay'[r] => stay[r]
  BY <1>1 DEF ShapeInv, Noticed
<1>3. ASSUME NEW s \in Tasks PROVE LocalInv(s)'
  BY <1>1, SameLocal DEF TasksInv
<1>4. ASSUME NEW v \in Writers PROVE TmpInv(v)'
  <2>1. v \in Tasks /\ TmpInv(v) /\ (v # w => pc'[v] = pc[v])
    BY <1>1 DEF TasksInv, Same
  <2> QED
    BY <2>1 DEF TmpInv
<1>5. ASSUME NEW r \in Readers PROVE LookupInv(r)'
  <2>1. LookupInv(r) /\ Same(r)
    BY <1>1 DEF TasksInv
  <2>2. stay'[r] => stay[r] /\ (goal[r] \in DOMAIN files => goal[r] \in DOMAIN files')
    BY <1>1, <1>2 DEF ShapeInv, Noticed
  <2> QED
    BY <2>1, <2>2 DEF LookupInv, Same
<1> QED
  BY <1>2, <1>3, <1>4, <1>5 DEF TreeInv, TasksInv, ShapeInv

\* A writer begins.
LEMMA Beginning ==
    ASSUME TreeInv, NEW w \in Writers, NEW what \in {"add", "put", "delete", "commit", "move"},
           NEW target \in Seq(RDNs), NEW fresh \in Seq(RDNs), Begin(w, what, target, fresh),
           what \in {"add", "put", "move"} => fresh # <<>>,
           what = "commit" => target # <<>>
    PROVE  TreeInv'
<1> DEFINE call == IF what = "put" THEN "putdir" ELSE "walk"
<1>1. /\ pc' = [pc EXCEPT ![w] = call] /\ op' = [op EXCEPT ![w] = what]
      /\ goal' = [goal EXCEPT ![w] = target] /\ at' = [at EXCEPT ![w] = <<>>]
      /\ path' = [path EXCEPT ![w] = <<>>] /\ new' = [new EXCEPT ![w] = fresh]
      /\ UNCHANGED <<files, dirs, tmp, stay>>
  BY DEF Begin, GoTo, disk
<1>2. LocalType /\ w \in Tasks /\ w \notin Readers
  BY TasksAssumption DEF TreeInv, ShapeInv, Tasks
<1>3. LocalType'
  BY <1>1, <1>2, Names DEF LocalType, Calls
<1>4. /\ pc'[w] = call /\ op'[w] = what /\ goal'[w] = target /\ at'[w] = <<>> /\ new'[w] = fresh
      /\ \A s \in Tasks \ {w} : Same(s)
  BY <1>1, <1>2 DEF LocalType, Same
<1>5. LocalInv(w)'
  <2>1. Len(<<>>) = 0 /\ Len(target) \in Nat /\ Last(target, 0) = <<>>
    BY Names
  <2> QED
    BY <1>4, <2>1 DEF LocalInv
<1> QED
  BY <1>1, <1>2, <1>3, <1>4, <1>5, Looking

LEMMA BeginStep ==
    ASSUME TreeInv, NEW w \in Writers,
           BeginAdd(w) \/ BeginPut(w) \/ BeginDelete(w) \/ BeginCommit(w) \/ BeginMove(w)
    PROVE  TreeInv'
<1>1. \A d \in Own(w) : d \in Seq(RDNs) /\ d # <<>> /\ Tail(d) \in Seq(RDNs)
  BY Names DEF Own
<1>2. <<>> \in Seq(RDNs)
  BY Names
<1>3. CASE BeginAdd(w)
  BY <1>1, <1>3, Beginning DEF BeginAdd
<1>4. CASE BeginPut(w)
  BY <1>1, <1>4, Beginning DEF BeginPut
<1>5. CASE BeginDelete(w)
  BY <1>1, <1>5, Beginning DEF BeginDelete
<1>6. CASE BeginCommit(w)
  BY <1>1, <1>6, Beginning DEF BeginCommit
<1>7. CASE BeginMove(w)
  BY <1>1, <1>7, Beginning DEF BeginMove
<1> QED
  BY <1>3, <1>4, <1>5, <1>6, <1>7

LEMMA BeginLookupStep ==
    ASSUME TreeInv, NEW r \in Readers, BeginLookup(r)
    PROVE  TreeInv'
<1>1. PICK d \in DNs \ {<<>>} : /\ goal' = [goal EXCEPT ![r] = d]
                                /\ stay' = [stay EXCEPT ![r] = d \in DOMAIN files]
  BY DEF BeginLookup
<1>2. /\ pc' = [pc EXCEPT ![r] = "walk"] /\ op' = [op EXCEPT ![r] = "lookup"]
      /\ at' = [at EXCEPT ![r] = <<>>] /\ UNCHANGED <<files, dirs, tmp, path, new>>
  BY DEF BeginLookup, GoTo, disk
<1>3. /\ ShapeInv /\ ClosedInv /\ EntriesAreWhole /\ TasksInv /\ LocalType
      /\ r \in Tasks /\ r \notin Writers
  BY TasksAssumption DEF TreeInv, ShapeInv, Tasks
<1>4. d \in Seq(RDNs) /\ <<>> \in Seq(RDNs) /\ Len(<<>>) = 0 /\ Len(d) \in Nat /\ Last(d, 0) = <<>>
  BY Names
<1>5. LocalType'
  BY <1>1, <1>2, <1>3, <1>4 DEF LocalType, Calls
<1>6. /\ pc'[r] = "walk" /\ op'[r] = "lookup" /\ goal'[r] = d /\ at'[r] = <<>>
      /\ \A s \in Tasks \ {r} : Same(s)
  BY <1>1, <1>2, <1>3 DEF LocalType, Same
<1>7. /\ stay' \in [Readers -> BOOLEAN] /\ (stay'[r] => d \in DOMAIN files)
      /\ \A s \in Readers \ {r} : stay'[s] = stay[s]
  <2>1. PICK b \in BOOLEAN : b <=> d \in DOMAIN files
    <3>1. CASE d \in DOMAIN files
      <4>1. TRUE \in BOOLEAN /\ (TRUE <=> d \in DOMAIN files)
        BY <3>1
      <4> QED
        BY <4>1
    <3>2. CASE d \notin DOMAIN files
      <4>1. FALSE \in BOOLEAN /\ (FALSE <=> d \in DOMAIN files)
        BY <3>2
      <4> QED
        BY <4>1
    <3> QED
      BY <3>1, <3>2
  <2>2. stay' = [stay EXCEPT ![r] = b] /\ stay \in [Readers -> BOOLEAN]
    BY <1>1, <1>3, <2>1 DEF ShapeInv
  <2>3. stay'[r] = b
    BY <2>2
  <2> QED
    BY <2>1, <2>2, <2>3
<1>8. ASSUME NEW s \in Tasks PROVE LocalInv(s)'
  <2>1. CASE s = r
    BY <1>4, <1>6, <2>1 DEF LocalInv
  <2>2. CASE s # r
    BY <1>3, <1>6, <2>2, SameLocal DEF TasksInv
  <2> QED
    BY <2>1, <2>2
<1>9. ASSUME NEW w \in Writers PROVE TmpInv(w)'
  <2>1. TmpInv(w) /\ pc'[w] = pc[w]
    BY <1>3, <1>6 DEF TasksInv, Same, Tasks
  <2> QED
    BY <1>2, <2>1 DEF TmpInv
<1>10. ASSUME NEW s \in Readers PROVE LookupInv(s)'
  <2>1. CASE s = r
    BY <1>2, <1>6, <1>7, <2>1 DEF LookupInv
  <2>2. CASE s # r
    <3>1. LookupInv(s) /\ Same(s) /\ stay'[s] = stay[s]
      BY <1>3, <1>6, <1>7, <2>2 DEF TasksInv, Tasks
    <3> QED
      BY <1>2, <3>1 DEF LookupInv, Same
  <2> QED
    BY <2>1, <2>2
<1>11. ClosedInv' /\ EntriesAreWhole'
  BY <1>2, <1>3 DEF ClosedInv, There, EntriesAreWhole
<1> QED
  BY <1>2, <1>3, <1>5, <1>7, <1>8, <1>9, <1>10, <1>11 DEF TreeInv, TasksInv, ShapeInv

LEMMA AnsweredStep ==
    ASSUME TreeInv, NEW r \in Readers, Answered(r)
    PROVE  TreeInv'
<1>1. ShapeInv /\ r \in Tasks /\ Return(r) /\ UNCHANGED <<files, dirs, tmp, stay>>
  BY DEF TreeInv, Tasks, Answered, disk
<1>2. LocalType' /\ LocalInv(r)' /\ pc'[r] = "idle" /\ \A s \in Tasks \ {r} : Same(s)
  BY <1>1, Ending
<1> QED
  BY <1>1, <1>2, Looking

LEMMA DescendStep ==
    ASSUME TreeInv, NEW t \in Tasks, Descend(t)
    PROVE  TreeInv'
<1>1. /\ ShapeInv /\ LocalType /\ LocalInv(t) /\ TasksInv
  BY DEF TreeInv, ShapeInv, TasksInv
<1>2. /\ pc[t] \in {"walk", "walk2"} /\ at[t] # goal[t]
      /\ at' = [at EXCEPT ![t] = Last(goal[t], Len(at[t]) + 1)]
      /\ UNCHANGED <<files, dirs, tmp, pc, op, goal, path, new, stay>>
  BY DEF Descend, Walking, disk
<1>3. PICK g, a : g = goal[t] /\ a = at[t]
  OBVIOUS
<1>4. g \in Seq(RDNs) /\ a \in Seq(RDNs) /\ Len(a) <= Len(g) /\ a = Last(g, Len(a)) /\ a # g
  BY <1>1, <1>2, <1>3 DEF LocalType, LocalInv
<1>5. /\ Len(a) \in Nat /\ Len(g) \in Nat /\ Len(a) + 1 \in 0..Len(g)
      /\ Last(g, Len(a) + 1) \in Seq(RDNs) /\ Len(Last(g, Len(a) + 1)) = Len(a) + 1
  <2>1. Len(a) \in Nat /\ Len(g) \in Nat
    BY <1>4, Names
  <2>2. Len(a) # Len(g)
    BY <1>4, LastIsAll
  <2>3. Len(a) + 1 \in 0..Len(g)
    BY <1>4, <2>1, <2>2
  <2> QED
    BY <1>4, <2>1, <2>3, Names
<1>6. LocalType'
  BY <1>1, <1>2, <1>3, <1>5 DEF LocalType
<1>7. at'[t] = Last(g, Len(a) + 1) /\ \A s \in Tasks \ {t} : Same(s)
  BY <1>1, <1>2, <1>3 DEF LocalType, Same
<1>8. LocalInv(t)'
  <2>1. Len(at'[t]) <= Len(goal'[t]) /\ at'[t] = Last(goal'[t], Len(at'[t]))
    BY <1>2, <1>3, <1>5, <1>7
  <2> QED
    BY <1>1, <1>2, <2>1 DEF LocalInv
<1>9. t \in Readers => LookupInv(t)
  BY <1>1 DEF TasksInv
<1> QED
  BY <1>2, <1>6, <1>7, <1>8, <1>9, Looking DEF LookupInv

LEMMA NotFoundStep ==
    ASSUME TreeInv, NEW t \in Tasks, NotFound(t)
    PROVE  TreeInv'
<1>1. /\ ShapeInv /\ LocalType /\ LocalInv(t) /\ ClosedInv /\ (t \in Readers => LookupInv(t))
  BY DEF TreeInv, ShapeInv, TasksInv
<1>2. /\ pc[t] \in {"walk", "walk2"} /\ at[t] # goal[t]
      /\ ~OnTheWay(Last(goal[t], Len(at[t]) + 1))
      /\ UNCHANGED <<files, dirs, tmp, stay>>
  BY DEF NotFound, Walking, disk
<1>3. CASE t \in Writers
  <2>1. Return(t) /\ t \notin Readers
    BY <1>3, TasksAssumption DEF NotFound
  <2> QED
    BY <1>1, <1>2, <2>1, Ending, Looking
<1>4. CASE t \in Readers
  <2>1. GoTo(t, "missed") /\ UNCHANGED locals /\ "missed" \in Calls
    BY <1>4 DEF NotFound, Calls
  <2>2. /\ LocalType' /\ pc'[t] = "missed" /\ UNCHANGED <<op, goal, at, path, new>>
        /\ \A s \in Tasks \ {t} : Same(s)
    BY <1>1, <2>1, GoingOn
  <2>3. op[t] = "lookup" /\ (stay[t] => goal[t] \in DOMAIN files)
    BY <1>1, <1>2, <1>4 DEF LookupInv
  <2>4. goal[t] \notin DOMAIN files
    <3> SUFFICES ASSUME goal[t] \in DOMAIN files PROVE FALSE
      OBVIOUS
    <3>1. PICK g, a : g = goal[t] /\ a = at[t]
      OBVIOUS
    <3>2. /\ g \in Seq(RDNs) /\ a \in Seq(RDNs) /\ Len(a) <= Len(g) /\ a = Last(g, Len(a)) /\ a # g
          /\ Len(a) \in Nat /\ Len(g) \in Nat
      BY <1>1, <1>2, <3>1, Names DEF LocalType, LocalInv
    <3>3. Len(a) # Len(g)
      BY <3>2, LastIsAll
    <3>4. CASE Len(a) + 1 = Len(g)
      BY <1>2, <3>1, <3>2, <3>4, LastIsAll DEF OnTheWay
    <3>5. CASE Len(a) + 1 # Len(g)
      <4>1. Len(a) + 1 \in 0..Len(g) - 1
        BY <3>2, <3>3, <3>5
      <4>2. Last(g, Len(a) + 1) \in dirs
        BY <1>1, <3>1, <4>1 DEF ClosedInv, There
      <4> QED
        BY <1>2, <3>1, <4>2 DEF OnTheWay
    <3> QED
      BY <3>4, <3>5
  <2>5. LocalInv(t)'
    BY <1>1, <2>2, <2>3 DEF LocalInv
  <2> QED
    BY <1>2, <2>2, <2>3, <2>4, <2>5, Looking
<1> QED
  BY <1>3, <1>4 DEF Tasks

LEMMA LoadStep ==
    ASSUME TreeInv, NEW t \in Tasks, Load(t)
    PROVE  TreeInv'
<1>1. /\ ShapeInv /\ LocalType /\ LocalInv(t) /\ (t \in Readers => LookupInv(t))
  BY DEF TreeInv, ShapeInv, TasksInv
<1>2. /\ pc[t] = "walk" /\ at[t] = goal[t] /\ UNCHANGED <<files, dirs, tmp, stay>>
      /\ op[t] \in {"add", "delete", "commit", "move", "lookup"}
  BY <1>1 DEF Load, disk, LocalInv
<1>3. CASE Return(t)
  BY <1>1, <1>2, <1>3, Ending, Looking
<1>4. CASE ~Return(t)
  <2>1. /\ path' = [path EXCEPT ![t] = at[t]] /\ UNCHANGED <<op, new>>
        /\ IF op[t] = "move" /\ Tail(new[t]) # Tail(at[t])
           THEN /\ goal' = [goal EXCEPT ![t] = Tail(new[t])]
                /\ at' = [at EXCEPT ![t] = <<>>]
                /\ GoTo(t, "walk2")
           ELSE GoTo(t, AfterWalk[op[t]]) /\ UNCHANGED <<goal, at>>
    BY <1>4 DEF Load
  <2>2. CASE op[t] = "move" /\ Tail(new[t]) # Tail(at[t])
    <3>1. /\ pc' = [pc EXCEPT ![t] = "walk2"] /\ goal' = [goal EXCEPT ![t] = Tail(new[t])]
          /\ at' = [at EXCEPT ![t] = <<>>]
      BY <2>1, <2>2 DEF GoTo
    <3>2. new[t] \in Seq(RDNs) /\ new[t] # <<>> /\ Tail(new[t]) \in Seq(RDNs) /\ <<>> \in Seq(RDNs)
      BY <1>1, <2>2, Names DEF LocalType, LocalInv
    <3>3. LocalType'
      BY <1>1, <2>1, <3>1, <3>2 DEF LocalType, Calls
    <3>4. /\ pc'[t] = "walk2" /\ goal'[t] = Tail(new[t]) /\ at'[t] = <<>> /\ op'[t] = "move"
          /\ new'[t] = new[t] /\ \A s \in Tasks \ {t} : Same(s)
      BY <1>1, <2>1, <2>2, <3>1 DEF LocalType, Same
    <3>5. LocalInv(t)'
      <4>1. /\ Len(<<>>) = 0 /\ Len(Tail(new[t])) \in Nat /\ Last(Tail(new[t]), 0) = <<>>
        BY <3>2, Names
      <4> QED
        BY <3>2, <3>4, <4>1 DEF LocalInv
    <3>6. t \notin Readers
      BY <1>1, <1>2, <2>2 DEF LookupInv
    <3> QED
      BY <1>2, <3>3, <3>4, <3>5, <3>6, Looking
  <2>3. CASE ~(op[t] = "move" /\ Tail(new[t]) # Tail(at[t]))
    <3>1. pc' = [pc EXCEPT ![t] = AfterWalk[op[t]]] /\ UNCHANGED <<goal, at>>
      BY <2>1, <2>3 DEF GoTo
    <3>2. /\ op[t] = "add" => AfterWalk[op[t]] = "list"
          /\ op[t] = "delete" => AfterWalk[op[t]] = "list"
          /\ op[t] = "commit" => AfterWalk[op[t]] = "write"
          /\ op[t] = "move" => AfterWalk[op[t]] = "movedir"
          /\ op[t] = "lookup" => AfterWalk[op[t]] = "found"
      BY DEF AfterWalk
    <3>3. AfterWalk[op[t]] \in {"list", "write", "movedir", "found"}
      BY <1>2, <3>2
    <3>4. LocalType'
      BY <1>1, <2>1, <3>1, <3>3 DEF LocalType, Calls
    <3>5. /\ pc'[t] = AfterWalk[op[t]] /\ path'[t] = at[t]
          /\ \A s \in Tasks \ {t} : Same(s)
      BY <1>1, <2>1, <3>1 DEF LocalType, Same
    <3>6. LocalInv(t)'
      BY <1>1, <1>2, <2>1, <3>1, <3>2, <3>5 DEF LocalInv
    <3>7. t \in Readers => op[t] = "lookup" /\ (stay[t] => goal[t] \in DOMAIN files)
      BY <1>1, <1>2 DEF LookupInv
    <3> QED
      BY <1>2, <2>1, <3>1, <3>2, <3>3, <3>4, <3>5, <3>6, <3>7, Looking
  <2> QED
    BY <2>2, <2>3
<1> QED
  BY <1>3, <1>4

LEMMA FoundParentStep ==
    ASSUME TreeInv, NEW w \in Writers, FoundParent(w)
    PROVE  TreeInv'
<1>1. /\ ShapeInv /\ LocalInv(w) /\ w \in Tasks /\ w \notin Readers
      /\ pc[w] = "walk2" /\ UNCHANGED <<files, dirs, tmp, stay>>
      /\ GoTo(w, "movedir") /\ UNCHANGED locals /\ "movedir" \in Calls
  BY TasksAssumption DEF TreeInv, TasksInv, Tasks, FoundParent, disk, Calls
<1>2. /\ LocalType' /\ pc'[w] = "movedir" /\ UNCHANGED <<op, goal, at, path, new>>
      /\ \A s \in Tasks \ {w} : Same(s)
  BY <1>1, GoingOn
<1>3. LocalInv(w)'
  BY <1>1, <1>2 DEF LocalInv
<1> QED
  BY <1>1, <1>2, <1>3, Looking

LEMMA ListStep ==
    ASSUME TreeInv, NEW w \in Writers, List(w)
    PROVE  TreeInv'
<1>1. /\ ShapeInv /\ LocalInv(w) /\ w \in Tasks /\ w \notin Readers
      /\ pc[w] = "list" /\ UNCHANGED <<files, dirs, tmp, stay>>
  BY TasksAssumption DEF TreeInv, TasksInv, Tasks, List, disk
<1>2. CASE Return(w)
  BY <1>1, <1>2, Ending, Looking
<1>3. CASE ~Return(w)
  <2>1. PICK call \in {"write", "mkdir", "unlink"} :
           /\ GoTo(w, call) /\ UNCHANGED locals
           /\ op[w] = IF call = "unlink" THEN "delete" ELSE "add"
    BY <1>3 DEF List
  <2>2. call \in Calls
    BY DEF Calls
  <2>3. /\ LocalType' /\ pc'[w] = call /\ UNCHANGED <<op, goal, at, path, new>>
        /\ \A s \in Tasks \ {w} : Same(s)
    BY <1>1, <2>1, <2>2, GoingOn
  <2>4. LocalInv(w)'
    BY <1>1, <2>1, <2>3 DEF LocalInv
  <2> QED
    BY <1>1, <2>1, <2>3, <2>4, Looking
<1> QED
  BY <1>2, <1>3

LEMMA PutDirStep ==
    ASSUME TreeInv, NEW w \in Writers, PutDir(w)
    PROVE  TreeInv'
<1>1. /\ ShapeInv /\ LocalType /\ LocalInv(w) /\ w \in Tasks /\ w \notin Readers
      /\ pc[w] = "putdir" /\ UNCHANGED <<files, dirs, tmp, stay>>
  BY TasksAssumption DEF TreeInv, ShapeInv, TasksInv, Tasks, PutDir, disk
<1>2. CASE Return(w)
  BY <1>1, <1>2, Ending, Looking
<1>3. CASE ~Return(w)
  <2>1. PICK call \in {"write", "putmkdir"} : pc' = [pc EXCEPT ![w] = call]
    BY <1>3 DEF PutDir, GoTo
  <2>2. path' = [path EXCEPT ![w] = goal[w]] /\ UNCHANGED <<op, goal, at, new>>
    BY <1>3 DEF PutDir
  <2>3. LocalType'
    BY <1>1, <2>1, <2>2 DEF LocalType, Calls
  <2>4. pc'[w] = call /\ \A s \in Tasks \ {w} : Same(s)
    BY <1>1, <2>1, <2>2 DEF LocalType, Same
  <2>5. LocalInv(w)'
    BY <1>1, <2>1, <2>2, <2>4 DEF LocalInv
  <2> QED
    BY <1>1, <2>1, <2>3, <2>4, <2>5, Looking
<1> QED
  BY <1>2, <1>3

-----------------------------------------------------------------------------
(* The steps that change the disk.                                         *)

\* A file or a directory that is made has a directory to be in.
LEMMA OneMore ==
    ASSUME ClosedInv, NEW d \in Seq(RDNs), d # <<>>, Tail(d) \in dirs,
           There' \subseteq There \cup {d}, dirs \subseteq dirs', <<>> \notin DOMAIN files'
    PROVE  ClosedInv'
<1>1. ASSUME NEW f \in There, NEW n \in 0..Len(f) - 1 PROVE Last(f, n) \in dirs'
  BY <1>1 DEF ClosedInv
<1>2. ASSUME NEW n \in 0..Len(d) - 1 PROVE Last(d, n) \in dirs'
  <2>1. /\ Len(d) \in Nat /\ Len(Tail(d)) = Len(d) - 1 /\ Tail(d) = Last(d, Len(d) - 1)
    BY TailIsLast
  <2>2. CASE n = Len(d) - 1
    BY <2>1, <2>2
  <2>3. CASE n # Len(d) - 1
    <3>1. PICK k : k = Len(d)
      OBVIOUS
    <3>2. k \in Nat /\ n \in 0..k - 1 /\ n # k - 1 /\ Len(Tail(d)) = k - 1
      BY <2>1, <2>3, <3>1
    <3>3. n \in 0..k - 1 - 1 /\ k - 1 \in 0..k
      BY <3>2
    <3>4. Last(Tail(d), n) \in dirs
      BY <3>2, <3>3 DEF ClosedInv, There
    <3>5. Last(Last(d, k - 1), n) = Last(d, n)
      BY <3>1, <3>2, <3>3, LastOfLast
    <3> QED
      BY <2>1, <3>1, <3>4, <3>5
  <2> QED
    BY <2>2, <2>3
<1>3. There' \subseteq Seq(RDNs) /\ <<>> \in dirs'
  BY DEF ClosedInv
<1>4. ASSUME NEW f \in There', NEW n \in 0..Len(f) - 1 PROVE Last(f, n) \in dirs'
  BY <1>1, <1>2, <1>4
<1> QED
  BY <1>3, <1>4 DEF ClosedInv

\* One that goes leaves the directories above the others.
LEMMA OneLess ==
    ASSUME ClosedInv, There' \subseteq There, dirs' = dirs, <<>> \notin DOMAIN files'
    PROVE  ClosedInv'
BY DEF ClosedInv

LEMMA OpenTmpStep ==
    ASSUME TreeInv, NEW w \in Writers, OpenTmp(w)
    PROVE  TreeInv'
<1>1. /\ ShapeInv /\ LocalType /\ LocalInv(w) /\ ClosedInv /\ EntriesAreWhole /\ TasksInv
      /\ w \in Tasks /\ w \notin Readers /\ pc[w] = "write" /\ UNCHANGED <<files, dirs, stay>>
  BY TasksAssumption DEF TreeInv, ShapeInv, TasksInv, Tasks, OpenTmp
<1>2. CASE Dir(w) \in dirs
  <2>1. PICK d : d = Dir(w)
    OBVIOUS
  <2>2. d \in Seq(RDNs) /\ d \in dirs
    BY <1>1, <1>2, <2>1 DEF ClosedInv, There
  <2>3. /\ tmp' = [tmp EXCEPT ![w] = [dir |-> d, whole |-> FALSE]]
        /\ GoTo(w, "written") /\ UNCHANGED locals /\ "written" \in Calls
    BY <1>2, <2>1 DEF OpenTmp, Calls
  <2>4. /\ LocalType' /\ pc'[w] = "written" /\ UNCHANGED <<op, goal, at, path, new>>
        /\ \A s \in Tasks \ {w} : Same(s)
    BY <1>1, <2>3, GoingOn
  <2>5. LocalInv(w)'
    BY <1>1, <2>4 DEF LocalInv
  <2>6. /\ [dir |-> d, whole |-> FALSE] \in [dir : Seq(RDNs), whole : BOOLEAN]
        /\ [dir |-> d, whole |-> FALSE] # None
    <3>1. [dir |-> d, whole |-> FALSE] \in [dir : Seq(RDNs), whole : BOOLEAN]
      BY <2>2
    <3> QED
      BY <3>1, NoneAssumption
  <2>7. /\ tmp' \in [Writers -> {None} \cup [dir : Seq(RDNs), whole : BOOLEAN]]
        /\ tmp'[w] = [dir |-> d, whole |-> FALSE]
        /\ \A v \in Writers \ {w} : tmp'[v] = tmp[v]
    BY <1>1, <2>3, <2>6 DEF ShapeInv
  <2>8. ASSUME NEW v \in Writers, tmp'[v] # None PROVE tmp'[v].dir \in dirs'
    BY <1>1, <2>2, <2>7, <2>8 DEF TasksInv, TmpInv
  <2>9. ClosedInv' /\ EntriesAreWhole'
    BY <1>1 DEF ClosedInv, There, EntriesAreWhole
  <2> QED
    BY <1>1, <2>4, <2>5, <2>6, <2>7, <2>8, <2>9, Changing
<1>3. CASE Dir(w) \notin dirs
  <2>1. Return(w) /\ UNCHANGED tmp
    BY <1>3 DEF OpenTmp
  <2> QED
    BY <1>1, <2>1, Ending, Looking
<1> QED
  BY <1>2, <1>3

LEMMA WrittenStep ==
    ASSUME TreeInv, NEW w \in Writers, Written(w)
    PROVE  TreeInv'
<1>1. /\ ShapeInv /\ LocalInv(w) /\ ClosedInv /\ EntriesAreWhole /\ TasksInv
      /\ w \in Tasks /\ w \notin Readers /\ pc[w] = "written" /\ UNCHANGED <<files, dirs, stay>>
      /\ GoTo(w, "publish") /\ UNCHANGED locals /\ "publish" \in Calls
      /\ tmp' = [tmp EXCEPT ![w].whole = TRUE]
  BY TasksAssumption DEF TreeInv, TasksInv, Tasks, Written, Calls
<1>2. /\ LocalType' /\ pc'[w] = "publish" /\ UNCHANGED <<op, goal, at, path, new>>
      /\ \A s \in Tasks \ {w} : Same(s)
  BY <1>1, GoingOn
<1>3. LocalInv(w)'
  BY <1>1, <1>2 DEF LocalInv
<1>4. tmp[w] # None /\ tmp[w].dir \in dirs /\ tmp[w] \in [dir : Seq(RDNs), whole : BOOLEAN]
  BY <1>1 DEF TasksInv, TmpInv, ShapeInv
<1>5. PICK b : b = [tmp[w] EXCEPT !.whole = TRUE]
  OBVIOUS
<1>6. b \in [dir : Seq(RDNs), whole : BOOLEAN] /\ b # None /\ b.whole /\ b.dir \in dirs
  BY <1>4, <1>5, NoneAssumption
<1>7. /\ tmp' \in [Writers -> {None} \cup [dir : Seq(RDNs), whole : BOOLEAN]]
      /\ tmp'[w] = b /\ \A v \in Writers \ {w} : tmp'[v] = tmp[v]
  <2>1. tmp' = [tmp EXCEPT ![w] = b]
    BY <1>1, <1>5
  <2> QED
    BY <1>1, <1>6, <2>1 DEF ShapeInv
<1>8. ASSUME NEW v \in Writers, tmp'[v] # None PROVE tmp'[v].dir \in dirs'
  BY <1>1, <1>6, <1>7, <1>8 DEF TasksInv, TmpInv
<1>9. ClosedInv' /\ EntriesAreWhole'
  BY <1>1 DEF ClosedInv, There, EntriesAreWhole
<1> QED
  BY <1>1, <1>2, <1>3, <1>6, <1>7, <1>8, <1>9, Changing

LEMMA PublishStep ==
    ASSUME TreeInv, NEW w \in Writers, Publish(w)
    PROVE  TreeInv'
<1>1. /\ ShapeInv /\ LocalType /\ LocalInv(w) /\ ClosedInv /\ EntriesAreWhole /\ TasksInv
      /\ w \in Tasks /\ w \notin Readers /\ pc[w] = "publish" /\ UNCHANGED dirs
      /\ tmp' = [tmp EXCEPT ![w] = None] /\ Return(w) /\ Noticed
  BY TasksAssumption DEF TreeInv, ShapeInv, TasksInv, Tasks, Publish, ReadyToPublish
<1>2. LocalType' /\ LocalInv(w)' /\ pc'[w] = "idle" /\ \A s \in Tasks \ {w} : Same(s)
  BY <1>1, Ending
<1>3. tmp[w] # None /\ tmp[w].dir \in dirs /\ tmp[w].whole
  BY <1>1 DEF TasksInv, TmpInv
<1>4. PICK d : d = Target(w)
  OBVIOUS
<1>5. d \in Seq(RDNs) /\ d # <<>>
  <2>1. op[w] = "commit" => path[w] \in Seq(RDNs) /\ path[w] # <<>>
    BY <1>1 DEF LocalType, LocalInv
  <2>2. op[w] # "commit" => new[w] \in Seq(RDNs) /\ new[w] # <<>>
    BY <1>1 DEF LocalType, LocalInv
  <2> QED
    BY <1>4, <2>1, <2>2 DEF Target
<1>6. ClosedInv' /\ EntriesAreWhole'
  <2>1. CASE tmp[w].dir = Dir(w)
    <3>1. PICK i : files' = With(d, [id |-> i, whole |-> tmp[w].whole])
      BY <1>4, <2>1 DEF Publish
    <3>2. /\ DOMAIN files' = DOMAIN files \cup {d} /\ files'[d].whole
          /\ \A f \in DOMAIN files \ {d} : files'[f] = files[f]
      BY <1>3, <3>1 DEF With
    <3>3. EntriesAreWhole'
      BY <1>1, <3>2 DEF EntriesAreWhole
    <3>4. Tail(d) \in dirs
      BY <1>3, <1>4, <2>1 DEF Dir
    <3>5. There' \subseteq There \cup {d} /\ dirs \subseteq dirs' /\ <<>> \notin DOMAIN files'
      BY <1>1, <1>5, <3>2 DEF There, ClosedInv
    <3>6. ClosedInv'
      BY <1>1, <1>5, <3>4, <3>5, OneMore
    <3> QED
      BY <3>3, <3>6
  <2>2. CASE tmp[w].dir # Dir(w)
    <3>1. UNCHANGED files
      BY <2>2 DEF Publish
    <3> QED
      BY <1>1, <3>1 DEF ClosedInv, There, EntriesAreWhole
  <2> QED
    BY <2>1, <2>2
<1>7. /\ tmp' \in [Writers -> {None} \cup [dir : Seq(RDNs), whole : BOOLEAN]]
      /\ tmp'[w] = None /\ \A v \in Writers \ {w} : tmp'[v] = tmp[v]
  BY <1>1 DEF ShapeInv
<1>8. ASSUME NEW v \in Writers, tmp'[v] # None PROVE tmp'[v].dir \in dirs'
  BY <1>1, <1>7, <1>8 DEF TasksInv, TmpInv
<1> QED
  BY <1>1, <1>2, <1>6, <1>7, <1>8, Changing

\* A step of a writer that leaves the temporary files alone and takes no directory away.
LEMMA Renaming ==
    ASSUME TreeInv, NEW w \in Writers, ClosedInv', EntriesAreWhole', Noticed, UNCHANGED tmp,
           dirs \subseteq dirs', LocalType', LocalInv(w)', \A s \in Tasks \ {w} : Same(s),
           pc'[w] \notin {"written", "publish"}
    PROVE  TreeInv'
<1>1. tmp \in [Writers -> {None} \cup [dir : Seq(RDNs), whole : BOOLEAN]]
  BY DEF TreeInv, ShapeInv
<1>2. ASSUME NEW v \in Writers, tmp'[v] # None PROVE tmp'[v].dir \in dirs'
  BY <1>2 DEF TreeInv, TasksInv, TmpInv
<1> QED
  BY <1>1, <1>2, Changing

LEMMA MakeDirStep ==
    ASSUME TreeInv, NEW w \in Writers, MakeDir(w)
    PROVE  TreeInv'
<1>1. /\ ShapeInv /\ LocalType /\ LocalInv(w) /\ ClosedInv /\ EntriesAreWhole
      /\ w \in Tasks /\ w \notin Readers /\ pc[w] = "mkdir" /\ UNCHANGED <<files, tmp>> /\ Noticed
  BY TasksAssumption DEF TreeInv, ShapeInv, TasksInv, Tasks, MakeDir
<1>2. EntriesAreWhole'
  BY <1>1 DEF EntriesAreWhole
<1>3. CASE path[w] \notin dirs /\ Tail(path[w]) \in dirs
  <2>1. PICK d : d = path[w]
    OBVIOUS
  <2>2. d \in Seq(RDNs) /\ d # <<>> /\ Tail(d) \in dirs /\ dirs' = dirs \cup {d}
    BY <1>1, <1>3, <2>1 DEF LocalType, ClosedInv, MakeDir
  <2>3. There' \subseteq There \cup {d} /\ dirs \subseteq dirs' /\ <<>> \notin DOMAIN files'
    BY <1>1, <2>2 DEF There, ClosedInv
  <2>4. ClosedInv'
    BY <1>1, <2>2, <2>3, OneMore
  <2>5. GoTo(w, "write") /\ UNCHANGED locals /\ "write" \in Calls
    BY <1>3 DEF MakeDir, Calls
  <2>6. /\ LocalType' /\ pc'[w] = "write" /\ UNCHANGED <<op, goal, at, path, new>>
        /\ \A s \in Tasks \ {w} : Same(s)
    BY <1>1, <2>5, GoingOn
  <2>7. LocalInv(w)'
    BY <1>1, <2>6 DEF LocalInv
  <2> QED
    BY <1>1, <1>2, <2>3, <2>4, <2>6, <2>7, Renaming
<1>4. CASE ~(path[w] \notin dirs /\ Tail(path[w]) \in dirs)
  <2>1. Return(w) /\ UNCHANGED dirs
    BY <1>4 DEF MakeDir
  <2>2. ClosedInv'
    BY <1>1, <2>1 DEF ClosedInv, There
  <2>3. LocalType' /\ LocalInv(w)' /\ pc'[w] = "idle" /\ \A s \in Tasks \ {w} : Same(s)
    BY <1>1, <2>1, Ending
  <2> QED
    BY <1>1, <1>2, <2>1, <2>2, <2>3, Renaming
<1> QED
  BY <1>3, <1>4

LEMMA UnlinkStep ==
    ASSUME TreeInv, NEW w \in Writers, Unlink(w)
    PROVE  TreeInv'
<1>1. /\ ShapeInv /\ ClosedInv /\ EntriesAreWhole /\ w \in Tasks /\ UNCHANGED <<dirs, tmp>>
      /\ Return(w) /\ Noticed
      /\ files' = Without(path[w]) \/ files' = files
  BY DEF TreeInv, Tasks, Unlink
<1>2. LocalType' /\ LocalInv(w)' /\ pc'[w] = "idle" /\ \A s \in Tasks \ {w} : Same(s)
  BY <1>1, Ending
<1>3. DOMAIN files' \subseteq DOMAIN files /\ \A f \in DOMAIN files' : files'[f] = files[f]
  BY <1>1 DEF Without
<1>4. EntriesAreWhole'
  BY <1>1, <1>3 DEF EntriesAreWhole
<1>5. There' \subseteq There /\ <<>> \notin DOMAIN files'
  BY <1>1, <1>3 DEF There, ClosedInv
<1>6. ClosedInv'
  BY <1>1, <1>5, OneLess
<1> QED
  BY <1>1, <1>2, <1>4, <1>6, Renaming

LEMMA PutMakeDirStep ==
    ASSUME TreeInv, NEW w \in Writers, PutMakeDir(w)
    PROVE  TreeInv'
<1>1. /\ ShapeInv /\ LocalType /\ LocalInv(w) /\ ClosedInv /\ EntriesAreWhole
      /\ w \in Tasks /\ pc[w] = "putmkdir" /\ UNCHANGED <<files, tmp>> /\ Noticed
      /\ GoTo(w, "write") /\ UNCHANGED locals /\ "write" \in Calls
  BY DEF TreeInv, ShapeInv, TasksInv, Tasks, PutMakeDir, Calls
<1>2. /\ LocalType' /\ pc'[w] = "write" /\ UNCHANGED <<op, goal, at, path, new>>
      /\ \A s \in Tasks \ {w} : Same(s)
  BY <1>1, GoingOn
<1>3. LocalInv(w)'
  BY <1>1, <1>2 DEF LocalInv
<1>4. PICK d : d = path[w]
  OBVIOUS
<1>5. d \in Seq(RDNs) /\ Len(d) \in Nat /\ dirs' = dirs \cup {Last(d, n) : n \in 0..Len(d)}
  BY <1>1, <1>4, Names DEF LocalType, PutMakeDir
<1>6. EntriesAreWhole' /\ dirs \subseteq dirs' /\ <<>> \in dirs' /\ <<>> \notin DOMAIN files'
  BY <1>1, <1>5 DEF EntriesAreWhole, ClosedInv
<1>7. There' \subseteq Seq(RDNs)
  BY <1>1, <1>5, Names DEF ClosedInv, There
<1>8. ASSUME NEW f \in There', NEW n \in 0..Len(f) - 1 PROVE Last(f, n) \in dirs'
  <2>1. CASE f \in There
    BY <1>1, <1>6, <1>8, <2>1 DEF ClosedInv
  <2>2. CASE f \notin There
    <3>1. PICK m \in 0..Len(d) : f = Last(d, m)
      BY <1>1, <1>5, <1>8, <2>2 DEF There
    <3>2. Len(f) = m /\ m \in Nat
      BY <1>5, <3>1, Names
    <3>3. n \in 0..m /\ n \in 0..Len(d)
      BY <1>5, <1>8, <3>2
    <3>4. Last(f, n) = Last(d, n)
      BY <1>5, <3>1, <3>3, LastOfLast
    <3> QED
      BY <1>5, <3>3, <3>4
  <2> QED
    BY <2>1, <2>2
<1>9. ClosedInv'
  BY <1>6, <1>7, <1>8 DEF ClosedInv
<1> QED
  BY <1>1, <1>2, <1>3, <1>6, <1>9, Renaming

LEMMA MoveFileStep ==
    ASSUME TreeInv, NEW w \in Writers, MoveFile(w)
    PROVE  TreeInv'
<1>1. /\ ShapeInv /\ LocalType /\ LocalInv(w) /\ ClosedInv /\ EntriesAreWhole
      /\ w \in Tasks /\ pc[w] = "moveldif" /\ UNCHANGED <<dirs, tmp>> /\ Noticed
  BY DEF TreeInv, ShapeInv, TasksInv, Tasks, MoveFile
<1>2. CASE path[w] \in DOMAIN files /\ Tail(new[w]) \in dirs
  <2>1. PICK d, e : d = path[w] /\ e = new[w]
    OBVIOUS
  <2>2. d \in DOMAIN files /\ e \in Seq(RDNs) /\ e # <<>> /\ Tail(e) \in dirs
    BY <1>1, <1>2, <2>1 DEF LocalType, LocalInv
  <2>3. /\ files' = Moves(d, e) /\ path' = [path EXCEPT ![w] = e]
        /\ pc' = [pc EXCEPT ![w] = "write"] /\ UNCHANGED <<op, goal, at, new>>
    BY <1>2, <2>1 DEF MoveFile, GoTo
  <2>4. /\ DOMAIN files' = (DOMAIN files \ {d}) \cup {e}
        /\ \A f \in DOMAIN files' : files'[f] = IF f = e THEN files[d] ELSE files[f]
    BY <2>3 DEF Moves
  <2>5. EntriesAreWhole'
    BY <1>1, <2>2, <2>4 DEF EntriesAreWhole
  <2>6. There' \subseteq There \cup {e} /\ <<>> \notin DOMAIN files'
    BY <1>1, <2>2, <2>4 DEF There, ClosedInv
  <2>7. ClosedInv'
    BY <1>1, <2>2, <2>6, OneMore
  <2>8. LocalType'
    BY <1>1, <2>2, <2>3 DEF LocalType, Calls
  <2>9. pc'[w] = "write" /\ path'[w] = e /\ \A s \in Tasks \ {w} : Same(s)
    BY <1>1, <2>3 DEF LocalType, Same
  <2>10. LocalInv(w)'
    BY <1>1, <2>3, <2>9 DEF LocalInv
  <2> QED
    BY <1>1, <2>5, <2>7, <2>8, <2>9, <2>10, Renaming
<1>3. CASE ~(path[w] \in DOMAIN files /\ Tail(new[w]) \in dirs)
  <2>1. Return(w) /\ UNCHANGED files
    BY <1>3 DEF MoveFile
  <2>2. ClosedInv' /\ EntriesAreWhole'
    BY <1>1, <2>1 DEF ClosedInv, There, EntriesAreWhole
  <2>3. LocalType' /\ LocalInv(w)' /\ pc'[w] = "idle" /\ \A s \in Tasks \ {w} : Same(s)
    BY <1>1, <2>1, Ending
  <2> QED
    BY <1>1, <2>2, <2>3, Renaming
<1> QED
  BY <1>2, <1>3

LEMMA CrashStep == ASSUME TreeInv, Crash PROVE TreeInv'
<1>1. /\ ShapeInv /\ ClosedInv /\ EntriesAreWhole /\ UNCHANGED <<files, dirs>>
      /\ pc' = [t \in Tasks |-> "idle"] /\ op' = [t \in Tasks |-> "none"]
      /\ tmp' = [w \in Writers |-> None] /\ stay' = [r \in Readers |-> FALSE]
      /\ goal' = [t \in Tasks |-> <<>>] /\ at' = [t \in Tasks |-> <<>>]
      /\ path' = [t \in Tasks |-> <<>>] /\ new' = [t \in Tasks |-> <<>>]
  BY DEF TreeInv, Crash
<1>2. ClosedInv' /\ EntriesAreWhole'
  BY <1>1 DEF ClosedInv, There, EntriesAreWhole
<1>3. ShapeInv'
  BY <1>1, Names DEF ShapeInv, LocalType, Calls
<1>4. TasksInv'
  BY <1>1 DEF TasksInv, LocalInv, TmpInv, LookupInv, Tasks
<1> QED
  BY <1>2, <1>3, <1>4 DEF TreeInv

-----------------------------------------------------------------------------
(* A directory is moved, with all that is in it.                           *)

DirThere(f, d, e) == IF f = d \/ Below(d, f) THEN Renamed(f, d, e) ELSE f
FileThere(f, d, e) == IF Below(d, f) THEN Renamed(f, d, e) ELSE f

\* The directories above what is moved are those of the new name, or are moved with it.
LEMMA MovedClosed ==
    ASSUME ClosedInv, NEW d \in dirs, NEW e \in Seq(RDNs), e # <<>>, Tail(e) \in dirs, ~Below(d, e),
           dirs' = {DirThere(f, d, e) : f \in dirs},
           DOMAIN files' = {FileThere(f, d, e) : f \in DOMAIN files}
    PROVE  ClosedInv'
<1>1. /\ d \in Seq(RDNs) /\ d # <<>> /\ Len(d) \in Nat /\ Len(d) > 0
      /\ Len(e) \in Nat /\ Len(e) > 0
  <2>1. d \in Seq(RDNs) /\ Len(e) \in Nat /\ Len(e) > 0
    BY TailIsLast DEF ClosedInv, There
  <2>2. d # <<>>
    BY <2>1, Names DEF Below
  <2> QED
    BY <2>1, <2>2, TailIsLast
<1>2. ASSUME NEW f \in dirs, f # d, ~Below(d, f) PROVE f \in dirs'
  BY <1>2 DEF DirThere
<1>3. ASSUME NEW f \in dirs, f = d \/ Below(d, f) PROVE Renamed(f, d, e) \in dirs'
  BY <1>3 DEF DirThere
<1>4. ASSUME NEW f \in There, ~Below(d, f), NEW n \in 0..Len(f) - 1 PROVE Last(f, n) \in dirs'
  <2>1. Last(f, n) \in dirs /\ f \in Seq(RDNs)
    BY <1>4 DEF ClosedInv
  <2>2. Last(f, n) # d /\ ~Below(d, Last(f, n))
    BY <1>1, <1>4, <2>1, AboveStays
  <2> QED
    BY <1>2, <2>1, <2>2
<1>5. ASSUME NEW n \in 0..Len(e) - 1 PROVE Last(e, n) \in dirs'
  <2>1. Last(e, n) \in dirs
    <3>1. PICK k : k = Len(e)
      OBVIOUS
    <3>2. /\ Tail(e) \in Seq(RDNs) /\ Tail(e) = Last(e, k - 1) /\ Len(Tail(e)) = k - 1
          /\ k \in Nat /\ k > 0 /\ n \in 0..k - 1
      BY <3>1, TailIsLast
    <3>3. CASE n = k - 1
      BY <3>2, <3>3
    <3>4. CASE n # k - 1
      <4>1. n \in 0..k - 1 - 1 /\ k - 1 \in 0..k
        BY <3>2, <3>4
      <4>2. Last(Tail(e), n) \in dirs
        BY <3>2, <4>1 DEF ClosedInv, There
      <4>3. Last(Last(e, k - 1), n) = Last(e, n)
        BY <3>1, <3>2, <4>1, LastOfLast
      <4> QED
        BY <3>2, <4>2, <4>3
    <3> QED
      BY <3>3, <3>4
  <2>2. Last(e, n) # d /\ ~Below(d, Last(e, n))
    BY <1>1, AboveStays
  <2> QED
    BY <1>2, <2>1, <2>2
<1>6. ASSUME NEW f \in There, f = d \/ Below(d, f), NEW n \in 0..Len(Renamed(f, d, e)) - 1
      PROVE  Last(Renamed(f, d, e), n) \in dirs'
  <2>1. PICK g : g = Renamed(f, d, e)
    OBVIOUS
  <2>2. f \in Seq(RDNs) /\ Len(f) \in Nat /\ Len(d) <= Len(f)
    <3>1. f \in Seq(RDNs)
      BY DEF ClosedInv
    <3> QED
      BY <1>1, <1>6, <3>1, Names DEF Below
  <2>3. /\ g \in Seq(RDNs)
        /\ Len(g) = Len(f) - Len(d) + Len(e)
        /\ \A i \in 0..Len(e) : Last(g, i) = Last(e, i)
        /\ \A i \in Len(e)..Len(f) - Len(d) + Len(e) :
             Last(g, i) = Renamed(Last(f, i - Len(e) + Len(d)), d, e)
    <3>1. \/ f = d
          \/ Below(d, f)
      BY <1>6
    <3>2. g \in Seq(RDNs) /\ Len(g) = Len(f) - Len(d) + Len(e)
      BY <1>1, <2>1, <2>2, <3>1, LastOfRenamed, ZenonT(60)
    <3>3. ASSUME NEW i \in 0..Len(e) PROVE Last(g, i) = Last(e, i)
      BY <1>1, <2>1, <2>2, <3>1, LastOfRenamed
    <3>4. ASSUME NEW i \in Len(e)..Len(f) - Len(d) + Len(e)
          PROVE  Last(g, i) = Renamed(Last(f, i - Len(e) + Len(d)), d, e)
      BY <1>1, <2>1, <2>2, <3>1, LastOfRenamed
    <3> QED
      BY <3>2, <3>3, <3>4
  <2>4. n \in 0..Len(f) - Len(d) + Len(e) - 1
    BY <2>1, <2>3
  <2>5. CASE n < Len(e)
    <3>1. n \in 0..Len(e) - 1 /\ n \in 0..Len(e)
      BY <1>1, <2>4, <2>5
    <3> QED
      BY <1>5, <2>1, <2>3, <3>1
  <2>6. CASE n >= Len(e)
    <3>1. PICK m : m = n - Len(e) + Len(d)
      OBVIOUS
    <3>2. /\ m \in Len(d)..Len(f) - 1 /\ m \in 0..Len(f) - 1 /\ m \in 0..Len(f)
          /\ n \in Len(e)..Len(f) - Len(d) + Len(e) /\ m \in Nat
      BY <1>1, <2>2, <2>4, <2>6, <3>1
    <3>3. Last(g, n) = Renamed(Last(f, m), d, e)
      BY <2>3, <3>1, <3>2
    <3>4. Last(f, m) \in dirs /\ Len(Last(f, m)) = m /\ Last(f, m) \in Seq(RDNs)
      BY <2>2, <3>2, Names DEF ClosedInv
    <3>5. Below(d, f)
      BY <1>1, <1>6, <2>2, <3>2
    <3>6. Last(Last(f, m), Len(d)) = d
      <4>1. Last(f, Len(d)) = d
        BY <3>5 DEF Below
      <4>2. Len(d) \in 0..m
        BY <1>1, <3>2
      <4> QED
        BY <2>2, <3>2, <4>1, <4>2, LastOfLast
    <3>7. Last(f, m) = d \/ Below(d, Last(f, m))
      <4>1. CASE m = Len(d)
        BY <3>4, <3>6, <4>1, LastIsAll
      <4>2. CASE m # Len(d)
        <5>1. Len(d) < Len(Last(f, m))
          BY <1>1, <3>2, <3>4, <4>2
        <5> QED
          BY <3>6, <5>1 DEF Below
      <4> QED
        BY <4>1, <4>2
    <3> QED
      BY <1>3, <2>1, <3>3, <3>4, <3>7
  <2>7. n < Len(e) \/ n >= Len(e)
    BY <1>1, <2>2, <2>4
  <2> QED
    BY <2>5, <2>6, <2>7
<1>7. ASSUME NEW f \in There, f = d \/ Below(d, f)
      PROVE  Renamed(f, d, e) \in Seq(RDNs) /\ Renamed(f, d, e) # <<>>
  <2>1. f \in Seq(RDNs) /\ Len(f) \in Nat /\ Len(d) <= Len(f)
    <3>1. f \in Seq(RDNs)
      BY DEF ClosedInv
    <3> QED
      BY <1>1, <1>7, <3>1, Names DEF Below
  <2>2. Renamed(f, d, e) \in Seq(RDNs) /\ Len(Renamed(f, d, e)) = Len(f) - Len(d) + Len(e)
    BY <1>1, <1>7, <2>1, LastOfRenamed
  <2>3. Len(Renamed(f, d, e)) > 0
    BY <1>1, <2>1, <2>2
  <2> QED
    BY <2>2, <2>3, Names
<1>8. \A g \in There' : \E f \in There : \/ (g = f /\ ~Below(d, f))
                                        \/ (g = Renamed(f, d, e) /\ (f = d \/ Below(d, f)))
  BY DEF There, DirThere, FileThere
<1>9. There' \subseteq Seq(RDNs)
  BY <1>7, <1>8 DEF ClosedInv
<1>10. <<>> \in dirs'
  <2>1. <<>> \in dirs /\ ~Below(d, <<>>)
    BY <1>1, Names DEF ClosedInv, Below
  <2> QED
    BY <1>1, <1>2, <2>1
<1>11. <<>> \notin DOMAIN files'
  <2> SUFFICES ASSUME NEW f \in DOMAIN files, FileThere(f, d, e) = <<>> PROVE FALSE
    OBVIOUS
  <2>1. f # <<>> /\ f \in There
    BY DEF ClosedInv, There
  <2> QED
    BY <1>7, <2>1 DEF FileThere
<1>12. ASSUME NEW g \in There', NEW n \in 0..Len(g) - 1 PROVE Last(g, n) \in dirs'
  BY <1>4, <1>6, <1>8, <1>12
<1> QED
  BY <1>9, <1>10, <1>11, <1>12 DEF ClosedInv

LEMMA MoveTreeKeeps ==
    ASSUME TreeInv, NEW d \in dirs, NEW e \in Seq(RDNs), e # <<>>, Tail(e) \in dirs, ~Below(d, e),
           MoveTree(d, e)
    PROVE  /\ ClosedInv' /\ EntriesAreWhole'
           /\ tmp' \in [Writers -> {None} \cup [dir : Seq(RDNs), whole : BOOLEAN]]
           /\ \A v \in Writers : tmp'[v] # None => tmp'[v].dir \in dirs'
           /\ \A v \in Writers : tmp[v] # None => tmp'[v] # None /\ tmp'[v].whole = tmp[v].whole
           /\ \A v \in Writers : tmp[v] = None => tmp'[v] = None
<1>1. /\ dirs' = {DirThere(f, d, e) : f \in dirs}
      /\ files' = [g \in {FileThere(f, d, e) : f \in DOMAIN files} |->
                     files[CHOOSE f \in DOMAIN files : FileThere(f, d, e) = g]]
      /\ tmp' = [w \in Writers |->
                   IF tmp[w] = None THEN None
                   ELSE [tmp[w] EXCEPT !.dir = DirThere(tmp[w].dir, d, e)]]
  BY DEF MoveTree, DirThere, FileThere
<1>2. ClosedInv /\ EntriesAreWhole /\ ShapeInv /\ TasksInv
  BY DEF TreeInv
<1>3. DOMAIN files' = {FileThere(f, d, e) : f \in DOMAIN files}
  BY <1>1
<1>4. ClosedInv'
  BY <1>1, <1>2, <1>3, MovedClosed
<1>5. ASSUME NEW g \in DOMAIN files' PROVE files'[g].whole
  <2>1. PICK f \in DOMAIN files : FileThere(f, d, e) = g
    BY <1>3
  <2>2. PICK h : h = CHOOSE f2 \in DOMAIN files : FileThere(f2, d, e) = g
    OBVIOUS
  <2>3. h \in DOMAIN files
    BY <2>1, <2>2
  <2>4. files'[g] = files[h]
    BY <1>1, <1>3, <2>2
  <2> QED
    BY <1>2, <2>3, <2>4 DEF EntriesAreWhole
<1>6. ASSUME NEW v \in Writers, tmp[v] # None
      PROVE  /\ tmp'[v] \in [dir : Seq(RDNs), whole : BOOLEAN] /\ tmp'[v] # None
             /\ tmp'[v].dir \in dirs' /\ tmp'[v].whole = tmp[v].whole
  <2>1. tmp[v] \in [dir : Seq(RDNs), whole : BOOLEAN] /\ tmp[v].dir \in dirs
    BY <1>2, <1>6 DEF ShapeInv, TasksInv, TmpInv
  <2>2. PICK c : c = DirThere(tmp[v].dir, d, e)
    OBVIOUS
  <2>3. c \in dirs'
    BY <1>1, <2>1, <2>2
  <2>4. c \in Seq(RDNs)
    BY <1>4, <2>3 DEF ClosedInv, There
  <2>5. tmp'[v] = [tmp[v] EXCEPT !.dir = c]
    BY <1>1, <1>6, <2>2
  <2>6. /\ tmp'[v] \in [dir : Seq(RDNs), whole : BOOLEAN]
        /\ tmp'[v].dir = c /\ tmp'[v].whole = tmp[v].whole
    BY <2>1, <2>4, <2>5
  <2> QED
    BY <2>3, <2>6, NoneAssumption
<1>7. ASSUME NEW v \in Writers, tmp[v] = None PROVE tmp'[v] = None
  BY <1>1, <1>7
<1>8. tmp' \in [Writers -> {None} \cup [dir : Seq(RDNs), whole : BOOLEAN]]
  <2>1. DOMAIN tmp' = Writers /\ tmp' = [w \in Writers |-> tmp'[w]]
    BY <1>1
  <2>2. \A v \in Writers : tmp'[v] \in {None} \cup [dir : Seq(RDNs), whole : BOOLEAN]
    BY <1>6, <1>7
  <2> QED
    BY <2>1, <2>2
<1> QED
  BY <1>4, <1>5, <1>6, <1>7, <1>8 DEF EntriesAreWhole

LEMMA MoveDirStep ==
    ASSUME TreeInv, NEW w \in Writers, MoveDir(w)
    PROVE  TreeInv'
<1>1. /\ ShapeInv /\ LocalType /\ LocalInv(w) /\ w \in Tasks /\ w \notin Readers
      /\ pc[w] = "movedir" /\ "moveldif" \in Calls
  BY TasksAssumption DEF TreeInv, ShapeInv, TasksInv, Tasks, MoveDir, Calls
<1>2. PICK d, e : d = path[w] /\ e = new[w]
  OBVIOUS
<1>3. e \in Seq(RDNs) /\ e # <<>>
  BY <1>1, <1>2 DEF LocalType, LocalInv
<1>4. ASSUME GoTo(w, "moveldif"), UNCHANGED locals
      PROVE  /\ LocalType' /\ LocalInv(w)' /\ pc'[w] = "moveldif"
             /\ \A s \in Tasks \ {w} : Same(s)
  <2>1. /\ LocalType' /\ pc'[w] = "moveldif" /\ UNCHANGED <<op, goal, at, path, new>>
        /\ \A s \in Tasks \ {w} : Same(s)
    BY <1>1, <1>4, GoingOn
  <2>2. LocalInv(w)'
    BY <1>1, <2>1 DEF LocalInv
  <2> QED
    BY <2>1, <2>2
<1>5. CASE Return(w) /\ UNCHANGED <<disk, used, stay>>
  BY <1>1, <1>5, Ending, Looking DEF disk
<1>6. CASE GoTo(w, "moveldif") /\ UNCHANGED <<disk, locals, used, stay>>
  <2>1. UNCHANGED locals /\ UNCHANGED <<files, dirs, tmp, stay>>
    BY <1>6 DEF disk
  <2> QED
    BY <1>1, <1>4, <1>6, <2>1, Looking
<1>7. CASE /\ d \in dirs /\ Tail(e) \in dirs /\ ~Below(d, e) /\ MoveTree(d, e)
           /\ GoTo(w, "moveldif") /\ UNCHANGED locals /\ Noticed
  BY <1>1, <1>3, <1>4, <1>7, MoveTreeKeeps, Changing
<1> QED
  BY <1>2, <1>5, <1>6, <1>7 DEF MoveDir

-----------------------------------------------------------------------------
(* The theorems.                                                           *)

LEMMA TreeStep == TreeInv /\ [Next]_vars => TreeInv'
<1> SUFFICES ASSUME TreeInv, [Next]_vars PROVE TreeInv'
  OBVIOUS
<1>1. CASE UNCHANGED vars
  BY <1>1 DEF vars, disk, locals, TreeInv, ShapeInv, LocalType, ClosedInv, There, EntriesAreWhole,
              TasksInv, LocalInv, TmpInv, LookupInv
<1>2. ASSUME NEW w \in Writers,
             \/ BeginAdd(w) \/ BeginPut(w) \/ BeginDelete(w) \/ BeginCommit(w) \/ BeginMove(w)
             \/ FoundParent(w) \/ List(w) \/ PutDir(w)
      PROVE  TreeInv'
  BY <1>2, BeginStep, FoundParentStep, ListStep, PutDirStep
<1>3. ASSUME NEW w \in Writers,
             \/ MakeDir(w) \/ Unlink(w) \/ PutMakeDir(w) \/ OpenTmp(w) \/ Written(w) \/ Publish(w)
             \/ MoveDir(w) \/ MoveFile(w)
      PROVE  TreeInv'
  BY <1>3, MakeDirStep, UnlinkStep, PutMakeDirStep, OpenTmpStep, WrittenStep, PublishStep,
     MoveDirStep, MoveFileStep
<1>4. ASSUME NEW r \in Readers, BeginLookup(r) \/ Answered(r) PROVE TreeInv'
  BY <1>4, BeginLookupStep, AnsweredStep
<1>5. ASSUME NEW t \in Tasks, Descend(t) \/ NotFound(t) \/ Load(t) PROVE TreeInv'
  BY <1>5, DescendStep, NotFoundStep, LoadStep
<1>6. CASE Crash
  BY <1>6, CrashStep
<1> QED
  BY <1>1, <1>2, <1>3, <1>4, <1>5, <1>6 DEF Next

\* A file with the name of an entry holds a whole entry, whenever the process
\* dies and whatever other tasks do: it gets its name only after it is written
\* (_putEntry, and the end of _addChild).
THEOREM FilesAreWhole == Spec => []EntriesAreWhole
<1>1. TreeInv => EntriesAreWhole
  BY DEF TreeInv
<1> QED
  BY <1>1, InitTree, TreeStep, PTL DEF Spec

\* A lookup does not miss an entry whose file is under its name from the
\* beginning of the lookup to its end: with a file there are the directories of
\* all the names above it, through every rename, so whichever of them the
\* lookup asks for is on the way (lookup).
THEOREM WhatStaysIsFound == Spec => []LookupFindsWhatStays
<1>1. TreeInv => LookupFindsWhatStays
  BY DEF TreeInv, TasksInv, LookupInv, LookupFindsWhatStays
<1> QED
  BY <1>1, InitTree, TreeStep, PTL DEF Spec

\* No file and no directory is ever out of reach from the top of the tree: the
\* names above it have their directories, whatever is moved, deleted or made at
\* the same time (mkdir and rename need the directory above; nothing removes one).
NothingIsOutOfReach == \A d \in There : \A n \in 0..Len(d) - 1 : Last(d, n) \in dirs

THEOREM DirectoriesAreKept == Spec => []NothingIsOutOfReach
<1>1. TreeInv => NothingIsOutOfReach
  BY DEF TreeInv, ClosedInv, NothingIsOutOfReach
<1> QED
  BY <1>1, InitTree, TreeStep, PTL DEF Spec

-----------------------------------------------------------------------------
(* What becomes of the entries.                                            *)

\* Every name there has been, with all that are above it.
UsedInv ==
    /\ There \subseteq used /\ used \subseteq Seq(RDNs)
    /\ \A d \in used : \A n \in 0..Len(d) : Last(d, n) \in used

IsOwn(w, d) == d # <<>> /\ Head(d) \in NamesOf[w]

\* A writer acts on an entry, or makes one, of its own.
OwnInv(w) ==
    /\ op[w] \in {"add", "put", "move"} => IsOwn(w, new[w])
    /\ op[w] \in {"delete", "commit", "move"} =>
         IsOwn(w, IF pc[w] = "walk" THEN goal[w] ELSE path[w])

\* What it is about to make is not there, and the name an entry is moved to
\* has not been until what is below the entry has been moved to it.
FreshInv(w) ==
    /\ pc[w] = "walk" => at[w] \in used
    /\ op[w] = "add" /\ pc[w] = "walk" => goal[w] = Tail(new[w])
    /\ op[w] = "add" /\ pc[w] # "walk" => path[w] = Tail(new[w]) /\ path[w] \in used
    /\ op[w] = "add" /\ pc[w] \notin {"walk", "list"} => new[w] \notin DOMAIN files
    /\ pc[w] = "putmkdir" => path[w] \in used
    /\ pc[w] = "unlink" => op[w] = "delete"
    /\ op[w] = "move" => Tail(new[w]) \in used
    /\ op[w] = "move" /\ pc[w] \in {"walk", "walk2", "movedir"} => new[w] \notin used
    /\ pc[w] = "moveldif" => new[w] \notin DOMAIN files
    /\ op[w] = "move" /\ pc[w] \in {"write", "written", "publish"} => path[w] = new[w]

\* What it has loaded is what its path still holds, if that holds anything.
MineInv(w) ==
    op[w] \in {"delete", "commit", "move"} /\ pc[w] # "walk" =>
      /\ path[w] \in used
      /\ mine[w] # None \/ op[w] = "delete"
      /\ mine[w] # None /\ path[w] \in DOMAIN files => files[path[w]].id = mine[w]

WriterInv(w) == OwnInv(w) /\ FreshInv(w) /\ MineInv(w)

HeldInv ==
    /\ held \subseteq Ids /\ astray \subseteq Ids /\ mine \in [Tasks -> Ids \cup {None}]
    /\ \A d \in DOMAIN files : files[d].id \in Ids
    /\ \A i \in held : \E d \in DOMAIN files : files[d].id = i
    /\ \A d, e \in DOMAIN files : files[d].id = files[e].id => d = e \/ files[d].id \in astray

\* There are identities left for those who are to make an entry.
Making == {w \in Writers : op[w] \in {"add", "put"}}
Taken == Made \cup held \cup ({mine[w] : w \in Writers} \ {None})
CountInv ==
    /\ changes \in 0..MaxChanges
    /\ Cardinality(Taken) + Cardinality(Making) <= Cardinality(DOMAIN Start) + changes

LossInv == UsedInv /\ HeldInv /\ CountInv /\ \A w \in Writers : WriterInv(w)

SameAll(t) == Same(t) /\ mine'[t] = mine[t]

\* Whoever acts on other names than its own and on names that have been leaves
\* them as they are: the other writers find what they expect.
LEMMA OthersKeep ==
    ASSUME NEW v \in Writers, UsedInv, LocalInv(v), WriterInv(v), SameAll(v), used \subseteq used',
           There' \subseteq used',
           \A p \in used : IsOwn(v, p) /\ p \in DOMAIN files' =>
                             p \in DOMAIN files /\ files'[p].id = files[p].id,
           \A p \in used' \ used : IsOwn(v, p) => Tail(p) \notin used
    PROVE  WriterInv(v)'
<1>1. /\ pc'[v] = pc[v] /\ op'[v] = op[v] /\ goal'[v] = goal[v] /\ at'[v] = at[v]
      /\ path'[v] = path[v] /\ new'[v] = new[v] /\ mine'[v] = mine[v]
  BY DEF SameAll, Same
<1>2. OwnInv(v) /\ FreshInv(v) /\ MineInv(v)
  BY DEF WriterInv
<1>3. OwnInv(v)'
  BY <1>1, <1>2 DEF OwnInv, IsOwn
<1>4. ASSUME IsOwn(v, new[v]), Tail(new[v]) \in used, new[v] \notin DOMAIN files
      PROVE  new[v] \notin DOMAIN files'
  <2> SUFFICES ASSUME new[v] \in DOMAIN files' PROVE FALSE
    OBVIOUS
  <2>1. new[v] \notin used
    BY <1>4
  <2>2. new[v] \in used'
    BY DEF There
  <2> QED
    BY <1>4, <2>1, <2>2
<1>5. ASSUME IsOwn(v, new[v]), Tail(new[v]) \in used, new[v] \notin used
      PROVE  new[v] \notin used'
  BY <1>5
<1>6. FreshInv(v)'
  <2>1. op[v] = "add" /\ pc[v] \notin {"walk", "list"} => new[v] \notin DOMAIN files'
    BY <1>2, <1>4 DEF OwnInv, FreshInv
  <2>2. op[v] = "move" /\ pc[v] \in {"walk", "walk2", "movedir"} => new[v] \notin used'
    BY <1>2, <1>5 DEF OwnInv, FreshInv
  <2>3. pc[v] = "moveldif" => new[v] \notin DOMAIN files'
    BY <1>2, <1>4 DEF OwnInv, FreshInv, LocalInv
  <2> QED
    BY <1>1, <1>2, <2>1, <2>2, <2>3 DEF FreshInv
<1>7. MineInv(v)'
  BY <1>1, <1>2 DEF MineInv, OwnInv
<1> QED
  BY <1>3, <1>6, <1>7 DEF WriterInv

\* No name belongs to two writers.
LEMMA OneOwner ==
    ASSUME NEW v \in Writers, NEW w \in Writers, v # w, NEW d, IsOwn(v, d)
    PROVE  ~IsOwn(w, d)
BY NamesAssumption DEF IsOwn

LEMMA Finite ==
    ASSUME HeldInv
    PROVE  /\ IsFiniteSet(Taken) /\ Cardinality(Taken) \in Nat /\ Taken \subseteq Ids
           /\ IsFiniteSet(Making) /\ Cardinality(Making) \in Nat
           /\ Cardinality(DOMAIN Start) \in Nat /\ Cardinality(Ids) \in Nat
           /\ MaxChanges \in Nat
<1>1. Taken \subseteq Ids
  BY DEF HeldInv, Made, Taken, Tasks
<1>2. Making \subseteq Writers
  BY DEF Making
<1>3. IsFiniteSet(Ids) /\ IsFiniteSet(Writers) /\ IsFiniteSet(DOMAIN Start) /\ MaxChanges \in Nat
  BY TasksAssumption, StartAssumption, BoundsAssumption
<1>4. IsFiniteSet(Taken) /\ IsFiniteSet(Making)
  BY <1>1, <1>2, <1>3, FS_Subset
<1> QED
  BY <1>1, <1>3, <1>4, FS_CardinalityType

LEMMA CountKeeps ==
    ASSUME HeldInv, CountInv, UNCHANGED changes, Made' \cup held' \subseteq Taken,
           \A v \in Writers : mine'[v] \in {None, mine[v]} \cup Made,
           \A v \in Writers : op'[v] \in {"add", "put"} => op[v] \in {"add", "put"}
    PROVE  CountInv'
<1>1. Making' \subseteq Making /\ Taken' \subseteq Taken
  BY DEF Making, Taken
<1>2. /\ Cardinality(Making') \in Nat /\ Cardinality(Making') <= Cardinality(Making)
      /\ Cardinality(Taken') \in Nat /\ Cardinality(Taken') <= Cardinality(Taken)
  BY <1>1, Finite, FS_Subset, FS_CardinalityType
<1> QED
  BY <1>2, Finite DEF CountInv

\* A step that leaves the files and their names alone.
LEMMA QuietLoss ==
    ASSUME TreeInv, LossInv, NEW t \in Tasks, UNCHANGED <<files, held, astray, used>>,
           There' \subseteq used, mine' \in [Tasks -> Ids \cup {None}], CountInv',
           \A s \in Tasks \ {t} : SameAll(s), t \in Writers => WriterInv(t)'
    PROVE  LossInv'
<1>1. UsedInv /\ HeldInv /\ \A w \in Writers : LocalInv(w) /\ WriterInv(w) /\ w \in Tasks
  BY DEF LossInv, TreeInv, TasksInv, Tasks
<1>2. UsedInv' /\ HeldInv'
  BY <1>1 DEF UsedInv, HeldInv
<1>3. ASSUME NEW v \in Writers, v # t PROVE WriterInv(v)'
  <2>1. SameAll(v)
    BY <1>1, <1>3
  <2> QED
    BY <1>1, <2>1, OthersKeep
<1> QED
  BY <1>2, <1>3 DEF LossInv

\* Such a step that ends an operation.
LEMMA Idle == ASSUME NEW w, pc'[w] = "idle", op'[w] = "none" PROVE WriterInv(w)'
BY DEF WriterInv, OwnInv, FreshInv, MineInv

LEMMA Returned ==
    ASSUME TreeInv, HeldInv, NEW t \in Tasks, Return(t)
    PROVE  /\ WriterInv(t)' /\ mine' \in [Tasks -> Ids \cup {None}]
           /\ \A s \in Tasks \ {t} : SameAll(s)
           /\ \A v \in Writers : op'[v] \in {"add", "put"} => op[v] \in {"add", "put"} /\ v # t
           /\ \A v \in Writers : mine'[v] \in {None, mine[v]} \cup Made
<1>1. /\ pc' = [pc EXCEPT ![t] = "idle"] /\ op' = [op EXCEPT ![t] = "none"]
      /\ mine' = [mine EXCEPT ![t] = None]
  BY DEF Return, GoTo, Forget
<1>2. LocalType /\ mine \in [Tasks -> Ids \cup {None}] /\ Writers \subseteq Tasks
  BY DEF TreeInv, ShapeInv, HeldInv, Tasks
<1>3. \A s \in Tasks \ {t} : Same(s)
  BY Ending DEF TreeInv
<1>4. pc'[t] = "idle" /\ op'[t] = "none"
  BY <1>1, <1>2 DEF LocalType
<1> QED
  BY <1>1, <1>2, <1>3, <1>4, Idle DEF SameAll, LocalType

LEMMA QuietEnd ==
    ASSUME TreeInv, LossInv, NEW t \in Tasks, UNCHANGED <<files, held, astray, used, changes>>,
           There' \subseteq used, Return(t)
    PROVE  LossInv'
<1>1. HeldInv /\ CountInv
  BY DEF LossInv
<1>2. Made' \cup held' \subseteq Taken
  BY DEF Made, Taken
<1>3. /\ WriterInv(t)' /\ mine' \in [Tasks -> Ids \cup {None}] /\ \A s \in Tasks \ {t} : SameAll(s)
      /\ \A v \in Writers : op'[v] \in {"add", "put"} => op[v] \in {"add", "put"}
      /\ \A v \in Writers : mine'[v] \in {None, mine[v]} \cup Made
  BY <1>1, Returned
<1>4. CountInv'
  BY <1>1, <1>2, <1>3, CountKeeps
<1> QED
  BY <1>3, <1>4, QuietLoss

\* Such a step that goes on with what the task knows.
LEMMA QuietOn ==
    ASSUME TreeInv, LossInv, NEW t \in Tasks, UNCHANGED <<files, held, astray, used, changes>>,
           There' \subseteq used, NEW call \in Calls, GoTo(t, call), UNCHANGED locals,
           t \in Writers /\ WriterInv(t) /\ pc'[t] = call /\ UNCHANGED <<op, goal, at, path, new, mine>>
             => WriterInv(t)'
    PROVE  LossInv'
<1>1. ShapeInv /\ HeldInv /\ CountInv /\ (t \in Writers => WriterInv(t))
  BY DEF LossInv, TreeInv
<1>2. /\ pc'[t] = call /\ UNCHANGED <<op, goal, at, path, new, mine>>
      /\ \A s \in Tasks \ {t} : SameAll(s)
  BY <1>1, GoingOn DEF SameAll, locals
<1>3. Made' \cup held' \subseteq Taken
  BY DEF Made, Taken
<1>4. CountInv'
  BY <1>1, <1>2, <1>3, CountKeeps
<1>5. mine' \in [Tasks -> Ids \cup {None}]
  BY <1>1, <1>2 DEF HeldInv
<1> QED
  BY <1>1, <1>2, <1>4, <1>5, QuietLoss

LEMMA UsedNames ==
    ASSUME TreeInv, UsedInv
    PROVE  /\ <<>> \in used /\ There \subseteq used
           /\ \A d \in used : d # <<>> => Tail(d) \in used
<1>1. <<>> \in used /\ There \subseteq used
  BY DEF TreeInv, ClosedInv, There, UsedInv
<1>2. ASSUME NEW d \in used, d # <<>> PROVE Tail(d) \in used
  <2>1. d \in Seq(RDNs)
    BY DEF UsedInv
  <2>2. Len(d) - 1 \in 0..Len(d) /\ Tail(d) = Last(d, Len(d) - 1)
    BY <1>2, <2>1, TailIsLast
  <2> QED
    BY <2>2 DEF UsedInv
<1> QED
  BY <1>1, <1>2

LEMMA BeginLoss ==
    ASSUME TreeInv, LossInv, NEW w \in Writers,
           NEW what \in {"add", "put", "delete", "commit", "move"},
           NEW target \in Seq(RDNs), NEW fresh \in Seq(RDNs), Begin(w, what, target, fresh),
           what \in {"add", "put", "move"} => IsOwn(w, fresh),
           what = "add" => target = Tail(fresh),
           what \in {"delete", "commit", "move"} => IsOwn(w, target),
           what = "move" => Tail(fresh) \in used /\ fresh \notin used
    PROVE  LossInv'
<1> DEFINE call == IF what = "put" THEN "putdir" ELSE "walk"
<1>1. /\ pc' = [pc EXCEPT ![w] = call] /\ op' = [op EXCEPT ![w] = what]
      /\ goal' = [goal EXCEPT ![w] = target] /\ at' = [at EXCEPT ![w] = <<>>]
      /\ path' = [path EXCEPT ![w] = <<>>] /\ new' = [new EXCEPT ![w] = fresh]
      /\ mine' = [mine EXCEPT ![w] = None] /\ changes < MaxChanges /\ changes' = changes + 1
      /\ UNCHANGED <<files, dirs, held, astray, used>>
  BY DEF Begin, GoTo, disk, known
<1>2. LocalType /\ w \in Tasks /\ UsedInv /\ HeldInv /\ CountInv
  BY DEF TreeInv, ShapeInv, Tasks, LossInv
<1>3. /\ pc'[w] = call /\ op'[w] = what /\ goal'[w] = target /\ at'[w] = <<>> /\ new'[w] = fresh
      /\ mine' \in [Tasks -> Ids \cup {None}]
      /\ \A s \in Tasks \ {w} : SameAll(s)
  BY <1>1, <1>2 DEF LocalType, HeldInv, SameAll, Same
<1>4. WriterInv(w)'
  <2>1. <<>> \in used
    BY <1>2, UsedNames
  <2>2. OwnInv(w)'
    BY <1>3 DEF OwnInv, IsOwn
  <2>3. FreshInv(w)'
    <3>1. used' = used
      BY <1>1
    <3>2. CASE what = "put"
      <4>1. pc'[w] = "putdir" /\ op'[w] = "put"
        BY <1>3, <3>2
      <4> QED
        BY <4>1 DEF FreshInv
    <3>3. CASE what # "put"
      <4>1. pc'[w] = "walk" /\ op'[w] = what
        BY <1>3, <3>3
      <4> QED
        BY <1>3, <2>1, <3>1, <3>3, <4>1 DEF FreshInv
    <3> QED
      BY <3>2, <3>3
  <2>4. MineInv(w)'
    BY <1>3 DEF MineInv
  <2> QED
    BY <2>2, <2>3, <2>4 DEF WriterInv
<1>5. CountInv'
  <2>1. Making' \subseteq Making \cup {w}
    BY <1>3 DEF Making, SameAll, Same, Tasks
  <2>2. /\ IsFiniteSet(Making) /\ Cardinality(Making) \in Nat
        /\ IsFiniteSet(Taken) /\ Cardinality(Taken) \in Nat
        /\ MaxChanges \in Nat /\ Cardinality(DOMAIN Start) \in Nat
    BY <1>2, Finite
  <2>3. /\ IsFiniteSet(Making \cup {w})
        /\ Cardinality(Making \cup {w}) = Cardinality(Making) \/ Cardinality(Making \cup {w}) = Cardinality(Making) + 1
    BY <2>2, FS_AddElement
  <2>4. Cardinality(Making') \in Nat /\ Cardinality(Making') <= Cardinality(Making) + 1
    <3>1. /\ IsFiniteSet(Making') /\ Cardinality(Making') <= Cardinality(Making \cup {w})
          /\ Cardinality(Making \cup {w}) \in Nat
      BY <2>1, <2>3, FS_Subset, FS_CardinalityType
    <3> QED
      BY <2>2, <2>3, <3>1, FS_CardinalityType
  <2>5. Taken' \subseteq Taken
    BY <1>1, <1>2 DEF Made, Taken, HeldInv
  <2>6. Cardinality(Taken') \in Nat /\ Cardinality(Taken') <= Cardinality(Taken)
    BY <2>2, <2>5, FS_Subset, FS_CardinalityType
  <2>7. /\ changes \in 0..MaxChanges
        /\ Cardinality(Taken) + Cardinality(Making) <= Cardinality(DOMAIN Start) + changes
    BY <1>2 DEF CountInv
  <2>8. changes' \in 0..MaxChanges
    BY <1>1, <2>2, <2>7
  <2>9. Cardinality(Taken') + Cardinality(Making') <= Cardinality(DOMAIN Start) + changes'
    BY <1>1, <2>2, <2>4, <2>6, <2>7
  <2> QED
    BY <2>8, <2>9 DEF CountInv
<1>6. There' \subseteq used
  BY <1>1, <1>2 DEF There, UsedInv
<1> QED
  BY <1>1, <1>2, <1>3, <1>4, <1>5, <1>6, QuietLoss

LEMMA BeginStepLoss ==
    ASSUME TreeInv, LossInv, NEW w \in Writers,
           BeginAdd(w) \/ BeginPut(w) \/ BeginDelete(w) \/ BeginCommit(w) \/ BeginMove(w)
    PROVE  LossInv'
<1>1. \A d \in Own(w) : d \in Seq(RDNs) /\ IsOwn(w, d) /\ Tail(d) \in Seq(RDNs)
  BY Names DEF Own, IsOwn
<1>2. CASE BeginAdd(w)
  BY <1>1, <1>2, BeginLoss DEF BeginAdd
<1>3. CASE BeginPut(w)
  BY <1>1, <1>3, BeginLoss DEF BeginPut
<1>4. CASE BeginDelete(w)
  BY <1>1, <1>4, BeginLoss DEF BeginDelete
<1>5. CASE BeginCommit(w)
  BY <1>1, <1>5, BeginLoss DEF BeginCommit
<1>6. CASE BeginMove(w)
  BY <1>1, <1>6, BeginLoss DEF BeginMove
<1> QED
  BY <1>2, <1>3, <1>4, <1>5, <1>6

LEMMA ReaderLoss ==
    ASSUME TreeInv, LossInv, NEW r \in Readers, BeginLookup(r) \/ Answered(r)
    PROVE  LossInv'
<1>1. /\ r \in Tasks /\ r \notin Writers /\ LocalType /\ UsedInv /\ HeldInv /\ CountInv
  BY TasksAssumption DEF TreeInv, ShapeInv, LossInv, Tasks
<1>2. UNCHANGED <<files, dirs, held, astray, used, changes>>
  BY DEF BeginLookup, Answered, disk, known
<1>3. There' \subseteq used
  BY <1>1, <1>2 DEF There, UsedInv
<1>4. CASE Answered(r)
  BY <1>1, <1>2, <1>3, <1>4, QuietEnd DEF Answered
<1>5. CASE BeginLookup(r)
  <2>1. /\ UNCHANGED <<path, new, mine>>
        /\ pc' = [pc EXCEPT ![r] = "walk"] /\ op' = [op EXCEPT ![r] = "lookup"]
        /\ at' = [at EXCEPT ![r] = <<>>]
        /\ \E d : goal' = [goal EXCEPT ![r] = d]
    BY <1>5 DEF BeginLookup, GoTo
  <2>2. \A s \in Tasks \ {r} : SameAll(s)
    BY <1>1, <2>1 DEF LocalType, SameAll, Same
  <2>3. Made' \cup held' \subseteq Taken
    BY <1>2 DEF Made, Taken
  <2>4. \A v \in Writers : op'[v] = op[v]
    BY <1>1, <2>2 DEF SameAll, Same, Tasks
  <2>5. CountInv' /\ mine' \in [Tasks -> Ids \cup {None}]
    BY <1>1, <1>2, <2>1, <2>3, <2>4, CountKeeps DEF HeldInv
  <2> QED
    BY <1>1, <1>2, <1>3, <2>2, <2>5, QuietLoss
<1> QED
  BY <1>4, <1>5

LEMMA DescendLoss ==
    ASSUME TreeInv, LossInv, NEW t \in Tasks, Descend(t)
    PROVE  LossInv'
<1>1. LocalType /\ UsedInv /\ HeldInv /\ CountInv /\ (t \in Writers => WriterInv(t))
  BY DEF TreeInv, ShapeInv, LossInv
<1>2. PICK next : next = Last(goal[t], Len(at[t]) + 1)
  OBVIOUS
<1>3. /\ at' = [at EXCEPT ![t] = next] /\ next \in used
      /\ UNCHANGED <<files, dirs, held, astray, used, changes, pc, op, goal, path, new, mine>>
  BY <1>1, <1>2 DEF Descend, disk, known, OnTheWay, UsedInv, There
<1>4. /\ There' \subseteq used /\ at'[t] = next /\ \A s \in Tasks \ {t} : SameAll(s)
  BY <1>1, <1>3 DEF There, UsedInv, LocalType, SameAll, Same
<1>5. t \in Writers => WriterInv(t)'
  BY <1>1, <1>3, <1>4 DEF WriterInv, OwnInv, IsOwn, FreshInv, MineInv
<1>6. Made' \cup held' \subseteq Taken
  BY <1>3 DEF Made, Taken
<1>7. CountInv' /\ mine' \in [Tasks -> Ids \cup {None}]
  BY <1>1, <1>3, <1>6, CountKeeps DEF HeldInv
<1> QED
  BY <1>3, <1>4, <1>5, <1>7, QuietLoss

LEMMA NotFoundLoss ==
    ASSUME TreeInv, LossInv, NEW t \in Tasks, NotFound(t)
    PROVE  LossInv'
<1>1. /\ UNCHANGED <<files, dirs, held, astray, used, changes>> /\ UsedInv
  BY DEF NotFound, disk, known, LossInv
<1>2. There' \subseteq used
  BY <1>1 DEF There, UsedInv
<1>3. CASE t \in Readers
  <2>1. GoTo(t, "missed") /\ UNCHANGED locals /\ "missed" \in Calls /\ t \notin Writers
    BY <1>3, TasksAssumption DEF NotFound, Calls
  <2> QED
    BY <1>1, <1>2, <2>1, QuietOn
<1>4. CASE t \notin Readers
  BY <1>1, <1>2, <1>4, QuietEnd DEF NotFound
<1> QED
  BY <1>3, <1>4

LEMMA LoadLoss ==
    ASSUME TreeInv, LossInv, NEW t \in Tasks, Load(t)
    PROVE  LossInv'
<1>1. /\ LocalType /\ LocalInv(t) /\ UsedInv /\ HeldInv /\ CountInv /\ (t \in Writers => WriterInv(t))
      /\ UNCHANGED <<files, dirs, held, astray, used, changes>> /\ pc[t] = "walk" /\ at[t] = goal[t]
  BY DEF TreeInv, ShapeInv, TasksInv, LossInv, Load, disk, known
<1>2. There' \subseteq used
  BY <1>1 DEF There, UsedInv
<1>3. CASE Return(t)
  BY <1>1, <1>2, <1>3, QuietEnd
<1>4. CASE ~Return(t)
  <2> DEFINE far == op[t] = "move" /\ Tail(new[t]) # Tail(at[t])
             id == IF at[t] \in DOMAIN files THEN files[at[t]].id ELSE None
  <2>1. /\ path' = [path EXCEPT ![t] = at[t]] /\ UNCHANGED <<op, new>>
        /\ mine' = [mine EXCEPT ![t] = id]
        /\ op[t] \in {"move", "commit"} => at[t] \in DOMAIN files
        /\ pc' = [pc EXCEPT ![t] = IF far THEN "walk2" ELSE AfterWalk[op[t]]]
        /\ \E g, a : /\ goal' = [goal EXCEPT ![t] = g] /\ at' = [at EXCEPT ![t] = a]
    <3>1. /\ path' = [path EXCEPT ![t] = at[t]] /\ UNCHANGED <<op, new>>
          /\ mine' = [mine EXCEPT ![t] = id]
          /\ op[t] \in {"move", "commit"} => at[t] \in DOMAIN files
      BY <1>4 DEF Load
    <3>2. CASE far
      BY <1>4, <3>1, <3>2 DEF Load, GoTo
    <3>3. CASE ~far
      <4>1. pc' = [pc EXCEPT ![t] = AfterWalk[op[t]]] /\ UNCHANGED <<goal, at>>
        BY <1>4, <3>3 DEF Load, GoTo
      <4>2. goal' = [goal EXCEPT ![t] = goal[t]] /\ at' = [at EXCEPT ![t] = at[t]]
        BY <1>1, <4>1 DEF LocalType
      <4> QED
        BY <3>1, <3>3, <4>1, <4>2
    <3> QED
      BY <3>2, <3>3
  <2>2. id \in Ids \cup {None} /\ (at[t] \in DOMAIN files => id = files[at[t]].id /\ id # None)
    BY <1>1, NoneAssumption DEF HeldInv
  <2>3. /\ path'[t] = at[t] /\ mine'[t] = id /\ mine' \in [Tasks -> Ids \cup {None}]
        /\ pc'[t] = (IF far THEN "walk2" ELSE AfterWalk[op[t]])
        /\ \A s \in Tasks \ {t} : SameAll(s)
    <3> HIDE DEF far, id
    <3> QED
      BY <1>1, <2>1, <2>2 DEF LocalType, HeldInv, SameAll, Same
  <2>4. /\ op[t] = "add" => AfterWalk[op[t]] = "list"
        /\ op[t] = "delete" => AfterWalk[op[t]] = "list"
        /\ op[t] = "commit" => AfterWalk[op[t]] = "write"
        /\ op[t] = "move" => AfterWalk[op[t]] = "movedir"
        /\ op[t] = "lookup" => AfterWalk[op[t]] = "found"
        /\ op[t] \in {"add", "delete", "commit", "move", "lookup"}
    BY <1>1 DEF AfterWalk, LocalInv
  <2>5. ASSUME t \in Writers PROVE WriterInv(t)'
    <3>1. /\ at[t] \in used /\ OwnInv(t) /\ FreshInv(t)
      BY <1>1, <2>5 DEF WriterInv, FreshInv
    <3>2. OwnInv(t)'
      <4>1. op[t] \in {"delete", "commit", "move"} => IsOwn(t, path'[t]) /\ pc'[t] # "walk"
        BY <1>1, <2>3, <2>4, <3>1 DEF OwnInv
      <4> QED
        BY <2>1, <3>1, <4>1 DEF OwnInv, IsOwn
    <3>3. FreshInv(t)'
      <4>1. CASE op[t] = "move"
        <5>1. pc'[t] \in {"walk2", "movedir"} /\ new'[t] = new[t] /\ op'[t] = "move"
          BY <2>1, <2>3, <2>4, <4>1
        <5>2. Tail(new[t]) \in used /\ new[t] \notin used
          BY <1>1, <3>1, <4>1 DEF FreshInv
        <5> QED
          BY <1>1, <5>1, <5>2 DEF FreshInv
      <4>2. CASE op[t] # "move"
        <5>1. /\ pc'[t] \in {"list", "write", "found"} /\ (op[t] = "add" => pc'[t] = "list")
              /\ new'[t] = new[t] /\ op'[t] = op[t] /\ path'[t] = goal[t]
          BY <1>1, <2>1, <2>3, <2>4, <4>2
        <5> QED
          BY <1>1, <3>1, <4>2, <5>1 DEF FreshInv
      <4> QED
        BY <4>1, <4>2
    <3>4. MineInv(t)'
      BY <1>1, <2>1, <2>2, <2>3, <3>1 DEF MineInv
    <3> QED
      BY <3>2, <3>3, <3>4 DEF WriterInv
  <2>6. Made' \cup held' \subseteq Taken
    BY <1>1 DEF Made, Taken
  <2>7. CountInv'
    <3>1. \A v \in Writers : mine'[v] \in {None, mine[v]} \cup Made
      BY <1>1, <2>1 DEF HeldInv, Made, Tasks
    <3> QED
      BY <1>1, <2>1, <2>6, <3>1, CountKeeps
  <2> HIDE DEF far, id
  <2> QED
    BY <1>1, <1>2, <2>3, <2>5, <2>7, QuietLoss
<1> QED
  BY <1>3, <1>4

LEMMA QuietStepLoss ==
    ASSUME TreeInv, LossInv, NEW w \in Writers,
           FoundParent(w) \/ List(w) \/ PutDir(w) \/ OpenTmp(w) \/ Written(w)
    PROVE  LossInv'
<1>1. /\ LocalType /\ LocalInv(w) /\ UsedInv /\ HeldInv /\ CountInv /\ WriterInv(w) /\ w \in Tasks
      /\ UNCHANGED <<files, dirs, held, astray, used, changes>>
  BY DEF TreeInv, ShapeInv, TasksInv, LossInv, Tasks, FoundParent, List, PutDir, OpenTmp, Written,
         disk, known
<1>2. There' \subseteq used
  BY <1>1 DEF There, UsedInv
<1>3. CASE Return(w)
  BY <1>1, <1>2, <1>3, QuietEnd
<1>4. CASE FoundParent(w)
  <2>1. pc[w] = "walk2" /\ GoTo(w, "movedir") /\ UNCHANGED locals /\ "movedir" \in Calls
    BY <1>4 DEF FoundParent, Calls
  <2>2. ASSUME pc'[w] = "movedir", UNCHANGED <<op, goal, at, path, new, mine>> PROVE WriterInv(w)'
    BY <1>1, <2>1, <2>2 DEF WriterInv, OwnInv, IsOwn, FreshInv, MineInv, LocalInv
  <2> QED
    BY <1>1, <1>2, <2>1, <2>2, QuietOn
<1>5. CASE List(w) /\ ~Return(w)
  <2>1. PICK call \in {"write", "mkdir", "unlink"} :
           /\ GoTo(w, call) /\ UNCHANGED locals /\ pc[w] = "list" /\ ~Refused(w)
           /\ op[w] = IF call = "unlink" THEN "delete" ELSE "add"
    BY <1>5 DEF List
  <2>2. call \in Calls
    BY DEF Calls
  <2>3. ASSUME pc'[w] = call, UNCHANGED <<op, goal, at, path, new, mine>> PROVE WriterInv(w)'
    <3>1. op[w] = "add" => new[w] \notin DOMAIN files
      <4> SUFFICES ASSUME op[w] = "add", new[w] \in DOMAIN files PROVE FALSE
        OBVIOUS
      <4>1. path[w] = Tail(new[w]) /\ new[w] # <<>> /\ new[w] \in There
        BY <1>1, <2>1 DEF WriterInv, FreshInv, OwnInv, IsOwn, There
      <4> QED
        BY <2>1, <4>1 DEF Refused, Kids
    <3>2. OwnInv(w)' /\ MineInv(w)'
      BY <1>1, <2>1, <2>3 DEF WriterInv, OwnInv, IsOwn, MineInv
    <3>3. FreshInv(w)'
      BY <1>1, <2>1, <2>3, <3>1 DEF WriterInv, FreshInv
    <3> QED
      BY <3>2, <3>3 DEF WriterInv
  <2> QED
    BY <1>1, <1>2, <2>1, <2>2, <2>3, QuietOn
<1>6. CASE PutDir(w) /\ ~Return(w)
  <2>1. /\ pc[w] = "putdir" /\ op[w] = "put" /\ goal[w] \in used
        /\ path' = [path EXCEPT ![w] = goal[w]] /\ UNCHANGED <<op, goal, at, new, mine>>
        /\ \E call \in {"write", "putmkdir"} : pc' = [pc EXCEPT ![w] = call]
    BY <1>1, <1>6 DEF PutDir, LocalInv, GoTo, UsedInv, There
  <2>2. /\ path'[w] = goal[w] /\ pc'[w] \in {"write", "putmkdir"}
        /\ \A s \in Tasks \ {w} : SameAll(s)
    BY <1>1, <2>1 DEF LocalType, SameAll, Same
  <2>3. WriterInv(w)'
    BY <1>1, <2>1, <2>2 DEF WriterInv, OwnInv, IsOwn, FreshInv, MineInv
  <2>4. Made' \cup held' \subseteq Taken
    BY <1>1 DEF Made, Taken
  <2>5. CountInv' /\ mine' \in [Tasks -> Ids \cup {None}]
    BY <1>1, <2>1, <2>4, CountKeeps DEF HeldInv
  <2> QED
    BY <1>1, <1>2, <2>2, <2>3, <2>5, QuietLoss
<1>7. CASE (OpenTmp(w) \/ Written(w)) /\ ~Return(w)
  <2>1. PICK call \in {"written", "publish"} :
           GoTo(w, call) /\ UNCHANGED locals /\ pc[w] \in {"write", "written"}
    BY <1>7 DEF OpenTmp, Written
  <2>2. call \in Calls
    BY DEF Calls
  <2>3. ASSUME pc'[w] = call, UNCHANGED <<op, goal, at, path, new, mine>> PROVE WriterInv(w)'
    <3>1. OwnInv(w)' /\ MineInv(w)'
      BY <1>1, <2>1, <2>3 DEF WriterInv, OwnInv, IsOwn, MineInv
    <3>2. FreshInv(w)'
      BY <1>1, <2>1, <2>3 DEF WriterInv, FreshInv
    <3> QED
      BY <3>1, <3>2 DEF WriterInv
  <2> QED
    BY <1>1, <1>2, <2>1, <2>2, <2>3, QuietOn
<1> QED
  BY <1>3, <1>4, <1>5, <1>6, <1>7

\* Directories are made only where there have been entries.
LEMMA MakeDirLoss ==
    ASSUME TreeInv, LossInv, NEW w \in Writers, MakeDir(w) \/ PutMakeDir(w)
    PROVE  LossInv'
<1>1. /\ LocalType /\ LocalInv(w) /\ UsedInv /\ HeldInv /\ CountInv /\ WriterInv(w) /\ w \in Tasks
      /\ UNCHANGED <<files, held, astray, changes>> /\ used' = used \cup There'
  BY DEF TreeInv, ShapeInv, TasksInv, LossInv, Tasks, MakeDir, PutMakeDir, known, Noticed
<1>2. path[w] \in used
  BY <1>1 DEF MakeDir, PutMakeDir, WriterInv, FreshInv, LocalInv
<1>3. dirs' \subseteq used
  BY <1>1, <1>2 DEF MakeDir, PutMakeDir, UsedInv, There
<1>4. There' \subseteq used /\ UNCHANGED used
  BY <1>1, <1>3 DEF There, UsedInv
<1>5. CASE Return(w)
  BY <1>1, <1>4, <1>5, QuietEnd
<1>6. CASE ~Return(w)
  <2>1. GoTo(w, "write") /\ UNCHANGED locals /\ pc[w] \in {"mkdir", "putmkdir"} /\ "write" \in Calls
    BY <1>6 DEF MakeDir, PutMakeDir, Calls
  <2>2. ASSUME pc'[w] = "write", UNCHANGED <<op, goal, at, path, new, mine>> PROVE WriterInv(w)'
    BY <1>1, <2>1, <2>2 DEF WriterInv, OwnInv, IsOwn, FreshInv, MineInv, LocalInv
  <2> QED
    BY <1>1, <1>4, <2>1, <2>2, QuietOn
<1> QED
  BY <1>5, <1>6

LEMMA CrashLoss == ASSUME TreeInv, LossInv, Crash PROVE LossInv'
<1>1. /\ UNCHANGED <<files, dirs, held, astray, used, changes>> /\ mine' = [t \in Tasks |-> None]
      /\ pc' = [t \in Tasks |-> "idle"] /\ op' = [t \in Tasks |-> "none"]
      /\ UsedInv /\ HeldInv /\ CountInv
  BY DEF Crash, known, LossInv
<1>2. UsedInv' /\ HeldInv'
  BY <1>1 DEF UsedInv, HeldInv, There
<1>3. Made' \cup held' \subseteq Taken
  BY <1>1 DEF Made, Taken
<1>4. \A v \in Writers : pc'[v] = "idle" /\ op'[v] = "none"
  BY <1>1 DEF Tasks
<1>5. CountInv'
  <2>1. \A v \in Writers : mine'[v] \in {None, mine[v]} \cup Made
    BY <1>1 DEF Tasks
  <2>2. \A v \in Writers : op'[v] \in {"add", "put"} => op[v] \in {"add", "put"}
    BY <1>4
  <2> QED
    BY <1>1, <1>3, <2>1, <2>2, CountKeeps
<1>6. \A v \in Writers : WriterInv(v)'
  BY <1>4, Idle
<1> QED
  BY <1>2, <1>5, <1>6 DEF LossInv

\* Names are kept with those above them.
LEMMA UsedGrows ==
    ASSUME UsedInv, ClosedInv', used' = used \cup There'
    PROVE  UsedInv'
<1>1. There' \subseteq used' /\ used' \subseteq Seq(RDNs)
  BY DEF UsedInv, ClosedInv
<1>2. ASSUME NEW d \in used', NEW n \in 0..Len(d) PROVE Last(d, n) \in used'
  <2>1. CASE d \in used
    BY <2>1 DEF UsedInv
  <2>2. CASE d \in There'
    <3>1. d \in Seq(RDNs) /\ Len(d) \in Nat
      BY <1>1, Names
    <3>2. CASE n = Len(d)
      BY <3>1, <3>2, LastIsAll
    <3>3. CASE n # Len(d)
      <4>1. n \in 0..Len(d) - 1
        BY <3>1, <3>3
      <4>2. Last(d, n) \in dirs'
        BY <2>2, <4>1 DEF ClosedInv
      <4> QED
        BY <1>1, <4>2 DEF There
    <3> QED
      BY <3>2, <3>3
  <2> QED
    BY <2>1, <2>2
<1> QED
  BY <1>1, <1>2 DEF UsedInv

\* A writer changes names of its own, and names there have not been.
LEMMA ChangeLoss ==
    ASSUME TreeInv, TreeInv', LossInv, NEW w \in Writers, used' = used \cup There', HeldInv', CountInv',
           WriterInv(w)', \A s \in Tasks \ {w} : SameAll(s),
           \A p \in used : ~IsOwn(w, p) /\ p \in DOMAIN files' =>
                             p \in DOMAIN files /\ files'[p].id = files[p].id,
           \A p \in used' \ used : ~IsOwn(w, p) => Tail(p) \notin used
    PROVE  LossInv'
<1>1. UsedInv'
  BY UsedGrows DEF LossInv, TreeInv
<1>2. ASSUME NEW v \in Writers, v # w PROVE WriterInv(v)'
  <2>1. UsedInv /\ LocalInv(v) /\ WriterInv(v) /\ SameAll(v)
    BY <1>2 DEF LossInv, TreeInv, TasksInv, Tasks
  <2>2. \A p : IsOwn(v, p) => ~IsOwn(w, p)
    BY <1>2, OneOwner
  <2> QED
    BY <2>1, <2>2, OthersKeep
<1> QED
  BY <1>1, <1>2 DEF LossInv

LEMMA UnlinkLoss ==
    ASSUME TreeInv, TreeInv', LossInv, NEW w \in Writers, Unlink(w)
    PROVE  LossInv'
<1>1. /\ LocalType /\ UsedInv /\ HeldInv /\ CountInv /\ OwnInv(w) /\ FreshInv(w) /\ MineInv(w)
      /\ w \in Tasks
      /\ UNCHANGED <<dirs, astray, changes>> /\ used' = used \cup There'
      /\ Return(w) /\ pc[w] = "unlink"
  BY DEF TreeInv, ShapeInv, LossInv, WriterInv, Tasks, Unlink, known, Noticed
<1>2. CASE path[w] \notin DOMAIN files
  <2>1. UNCHANGED <<files, held>>
    BY <1>2 DEF Unlink
  <2>2. There' \subseteq used /\ UNCHANGED used
    BY <1>1, <2>1 DEF There, UsedInv
  <2> QED
    BY <1>1, <2>1, <2>2, QuietEnd
<1>3. CASE path[w] \in DOMAIN files
  <2>1. PICK d : d = path[w]
    OBVIOUS
  <2>2. PICK x : x = IF mine[w] = None THEN files[d].id ELSE mine[w]
    OBVIOUS
  <2>3. /\ files' = Without(d) /\ held' = held \ {x}
        /\ x = files[d].id /\ IsOwn(w, d) /\ d \in DOMAIN files
    BY <1>1, <1>3, <2>1, <2>2 DEF Unlink, OwnInv, FreshInv, MineInv
  <2>4. DOMAIN files' = DOMAIN files \ {d} /\ \A f \in DOMAIN files' : files'[f] = files[f]
    BY <2>3 DEF Without
  <2>5. /\ WriterInv(w)' /\ mine' \in [Tasks -> Ids \cup {None}]
        /\ \A s \in Tasks \ {w} : SameAll(s)
        /\ \A v \in Writers : op'[v] \in {"add", "put"} => op[v] \in {"add", "put"}
        /\ \A v \in Writers : mine'[v] \in {None, mine[v]} \cup Made
    BY <1>1, Returned
  <2>6. HeldInv'
    <3>1. held' \subseteq Ids /\ astray' \subseteq Ids /\ \A f \in DOMAIN files' : files'[f].id \in Ids
      BY <1>1, <2>3, <2>4 DEF HeldInv
    <3>2. ASSUME NEW i \in held' PROVE \E f \in DOMAIN files' : files'[f].id = i
      <4>1. PICK f \in DOMAIN files : files[f].id = i
        BY <1>1, <2>3 DEF HeldInv
      <4>2. f # d
        BY <2>3, <4>1
      <4> QED
        BY <2>4, <4>1, <4>2
    <3>3. \A f, g \in DOMAIN files' : files'[f].id = files'[g].id => f = g \/ files'[f].id \in astray'
      BY <1>1, <2>4 DEF HeldInv
    <3> QED
      BY <2>5, <3>1, <3>2, <3>3 DEF HeldInv
  <2>7. Made' \cup held' \subseteq Taken
    BY <2>3, <2>4 DEF Made, Taken
  <2>8. CountInv'
    BY <1>1, <2>5, <2>7, CountKeeps
  <2>9. used' = used
    BY <1>1, <2>4 DEF UsedInv, There
  <2> QED
    BY <1>1, <2>4, <2>5, <2>6, <2>8, <2>9, ChangeLoss
<1> QED
  BY <1>2, <1>3

LEMMA MoveFileLoss ==
    ASSUME TreeInv, TreeInv', LossInv, NEW w \in Writers, MoveFile(w)
    PROVE  LossInv'
<1>1. /\ LocalType /\ LocalInv(w) /\ UsedInv /\ HeldInv /\ CountInv
      /\ OwnInv(w) /\ FreshInv(w) /\ MineInv(w) /\ w \in Tasks
      /\ UNCHANGED <<dirs, held, astray, changes>> /\ used' = used \cup There' /\ pc[w] = "moveldif"
  BY DEF TreeInv, ShapeInv, TasksInv, LossInv, WriterInv, Tasks, MoveFile, known, Noticed
<1>2. CASE ~(path[w] \in DOMAIN files /\ Tail(new[w]) \in dirs)
  <2>1. UNCHANGED files /\ Return(w)
    BY <1>2 DEF MoveFile
  <2>2. There' \subseteq used /\ UNCHANGED used
    BY <1>1, <2>1 DEF There, UsedInv
  <2> QED
    BY <1>1, <2>1, <2>2, QuietEnd
<1>3. CASE path[w] \in DOMAIN files /\ Tail(new[w]) \in dirs
  <2>1. PICK d, e : d = path[w] /\ e = new[w]
    OBVIOUS
  <2>2. /\ files' = Moves(d, e) /\ path' = [path EXCEPT ![w] = e]
        /\ pc' = [pc EXCEPT ![w] = "write"] /\ UNCHANGED <<op, goal, at, new, mine>>
    BY <1>3, <2>1 DEF MoveFile, GoTo
  <2>3. /\ d \in DOMAIN files /\ e \notin DOMAIN files /\ IsOwn(w, d) /\ IsOwn(w, e) /\ op[w] = "move"
        /\ mine[w] # None /\ files[d].id = mine[w] /\ Tail(e) \in used
    BY <1>1, <1>3, <2>1 DEF LocalInv, OwnInv, FreshInv, MineInv
  <2>4. /\ DOMAIN files' = (DOMAIN files \ {d}) \cup {e} /\ files'[e] = files[d]
        /\ \A f \in DOMAIN files \ {d} : files'[f] = files[f]
    BY <2>2, <2>3 DEF Moves
  <2>5. /\ pc'[w] = "write" /\ path'[w] = e /\ \A s \in Tasks \ {w} : SameAll(s)
    BY <1>1, <2>2 DEF LocalType, SameAll, Same
  <2>6. used' = used \cup {e} \/ used' = used
    BY <1>1, <2>4 DEF There, UsedInv
  <2>7. WriterInv(w)'
    <3>1. e \in used'
      BY <1>1, <2>4 DEF There
    <3>2. OwnInv(w)'
      BY <2>1, <2>2, <2>3, <2>5 DEF OwnInv, IsOwn
    <3>3. FreshInv(w)'
      BY <2>1, <2>2, <2>3, <2>5, <2>6 DEF FreshInv
    <3>4. MineInv(w)'
      BY <2>2, <2>3, <2>4, <2>5, <3>1 DEF MineInv
    <3> QED
      BY <3>2, <3>3, <3>4 DEF WriterInv
  <2>8. HeldInv'
    <3>1. /\ held' \subseteq Ids /\ astray' \subseteq Ids /\ mine' \in [Tasks -> Ids \cup {None}]
          /\ \A f \in DOMAIN files' : files'[f].id \in Ids
      BY <1>1, <2>2, <2>3, <2>4 DEF HeldInv
    <3>2. ASSUME NEW i \in held' PROVE \E f \in DOMAIN files' : files'[f].id = i
      <4>1. PICK f \in DOMAIN files : files[f].id = i
        BY <1>1 DEF HeldInv
      <4> QED
        BY <2>4, <4>1
    <3>3. \A f, g \in DOMAIN files' : files'[f].id = files'[g].id => f = g \/ files'[f].id \in astray'
      BY <1>1, <2>3, <2>4 DEF HeldInv
    <3> QED
      BY <3>1, <3>2, <3>3 DEF HeldInv
  <2>9. Made' \cup held' \subseteq Taken
    BY <1>1, <2>3, <2>4 DEF Made, Taken
  <2>10. CountInv'
    BY <1>1, <2>2, <2>9, CountKeeps
  <2>11. \A p \in used : ~IsOwn(w, p) /\ p \in DOMAIN files' =>
                          p \in DOMAIN files /\ files'[p].id = files[p].id
    BY <2>3, <2>4
  <2>12. \A p \in used' \ used : ~IsOwn(w, p) => Tail(p) \notin used
    BY <2>3, <2>6
  <2> QED
    BY <1>1, <2>5, <2>7, <2>8, <2>10, <2>11, <2>12, ChangeLoss
<1> QED
  BY <1>2, <1>3

\* There is an identity for an entry that is about to be made, and no more are taken than made.
LEMMA OneIdentity ==
    ASSUME HeldInv, CountInv, NEW w \in Writers, op[w] \in {"add", "put"}
    PROVE  \E i \in Ids : i \notin Made \cup held
<1>1. /\ IsFiniteSet(Making) /\ Cardinality(Making) \in Nat /\ Cardinality(Taken) \in Nat
      /\ MaxChanges \in Nat /\ Cardinality(DOMAIN Start) \in Nat /\ Cardinality(Ids) \in Nat
      /\ Taken \subseteq Ids
  BY Finite
<1>2. w \in Making
  BY DEF Making
<1>3. Cardinality(Making) # 0
  BY <1>1, <1>2, FS_EmptySet
<1>4. Cardinality(Taken) < Cardinality(Ids)
  BY <1>1, <1>3, StartAssumption DEF CountInv
<1> SUFFICES ASSUME Ids \subseteq Taken PROVE FALSE
  BY DEF Taken
<1>5. Ids = Taken
  BY <1>1
<1>6. Cardinality(Ids) = Cardinality(Taken)
  BY <1>5
<1> QED
  BY <1>1, <1>4, <1>6

LEMMA CountMade ==
    ASSUME HeldInv, CountInv, UNCHANGED changes, NEW w \in Writers, op[w] \in {"add", "put"},
           NEW i \in Ids, Made' \cup held' \subseteq Taken \cup {i},
           \A v \in Writers : mine'[v] \in {None, mine[v]} \cup Made,
           \A v \in Writers : op'[v] \in {"add", "put"} => op[v] \in {"add", "put"} /\ v # w
    PROVE  CountInv'
<1>1. /\ IsFiniteSet(Making) /\ Cardinality(Making) \in Nat
      /\ IsFiniteSet(Taken) /\ Cardinality(Taken) \in Nat
      /\ MaxChanges \in Nat /\ Cardinality(DOMAIN Start) \in Nat
  BY Finite
<1>2. Making' \subseteq Making \ {w} /\ w \in Making
  BY DEF Making
<1>3. IsFiniteSet(Making \ {w}) /\ Cardinality(Making \ {w}) = Cardinality(Making) - 1
  BY <1>1, <1>2, FS_RemoveElement
<1>4. IsFiniteSet(Making') /\ Cardinality(Making') <= Cardinality(Making) - 1
  BY <1>2, <1>3, FS_Subset
<1>5. /\ IsFiniteSet(Taken \cup {i})
      /\ \/ Cardinality(Taken \cup {i}) = Cardinality(Taken)
         \/ Cardinality(Taken \cup {i}) = Cardinality(Taken) + 1
  BY <1>1, FS_AddElement
<1>6. Taken' \subseteq Taken \cup {i}
  BY DEF Taken
<1>7. /\ IsFiniteSet(Taken')
      /\ Cardinality(Taken') <= Cardinality(Taken \cup {i})
  BY <1>5, <1>6, FS_Subset
<1>8. Cardinality(Making') \in Nat /\ Cardinality(Taken') \in Nat
  BY <1>4, <1>7, FS_CardinalityType
<1>9. Cardinality(Taken') <= Cardinality(Taken) + 1
  BY <1>1, <1>5, <1>7, <1>8
<1>10. Cardinality(Taken') + Cardinality(Making')
         <= Cardinality(Taken) + Cardinality(Making)
  BY <1>1, <1>4, <1>8, <1>9
<1> QED
  BY <1>1, <1>8, <1>10 DEF CountInv

LEMMA PublishLoss ==
    ASSUME TreeInv, TreeInv', LossInv, NEW w \in Writers, Publish(w)
    PROVE  LossInv'
<1>1. /\ LocalType /\ LocalInv(w) /\ TmpInv(w) /\ UsedInv /\ HeldInv /\ CountInv
      /\ OwnInv(w) /\ FreshInv(w) /\ MineInv(w) /\ w \in Tasks
      /\ UNCHANGED <<dirs, changes>> /\ used' = used \cup There' /\ Return(w) /\ pc[w] = "publish"
  BY DEF TreeInv, ShapeInv, TasksInv, LossInv, WriterInv, Tasks, Publish, ReadyToPublish, Noticed
<1>2. /\ WriterInv(w)' /\ mine' \in [Tasks -> Ids \cup {None}]
      /\ \A s \in Tasks \ {w} : SameAll(s)
      /\ \A v \in Writers : op'[v] \in {"add", "put"} => op[v] \in {"add", "put"} /\ v # w
      /\ \A v \in Writers : mine'[v] \in {None, mine[v]} \cup Made
  BY <1>1, Returned
<1>3. CASE tmp[w].dir # Dir(w)
  <2>1. UNCHANGED <<files, held, astray>>
    BY <1>3 DEF Publish, known
  <2>2. There' \subseteq used /\ UNCHANGED used
    BY <1>1, <2>1 DEF There, UsedInv
  <2> QED
    BY <1>1, <2>1, <2>2, QuietEnd
<1>4. CASE tmp[w].dir = Dir(w)
  <2>1. PICK d : d = Target(w)
    OBVIOUS
  <2>2. /\ d = IF op[w] \in {"add", "put"} THEN new[w] ELSE path[w]
        /\ IsOwn(w, d) /\ op[w] \in {"add", "put", "commit", "move"}
    BY <1>1, <2>1 DEF Target, LocalInv, FreshInv, OwnInv
  <2>3. PICK i : i = IF op[w] \in {"add", "put"} THEN CHOOSE k \in Ids : k \notin Made \cup held
                     ELSE mine[w]
    OBVIOUS
  <2>4. /\ files' = With(d, [id |-> i, whole |-> tmp[w].whole])
        /\ op[w] \in {"add", "put"} =>
             /\ UNCHANGED astray
             /\ held' = (held \ (IF op[w] = "put" /\ d \in DOMAIN files THEN {files[d].id} ELSE {}))
                          \cup {i}
        /\ op[w] \notin {"add", "put"} =>
             /\ UNCHANGED held
             /\ astray' = astray \cup (IF d \in DOMAIN files THEN {} ELSE {i})
    BY <1>4, <2>1, <2>3 DEF Publish
  <2>5. /\ DOMAIN files' = DOMAIN files \cup {d} /\ files'[d].id = i
        /\ \A f \in DOMAIN files \ {d} : files'[f] = files[f]
    BY <2>4 DEF With
  <2>6. \A p \in used : ~IsOwn(w, p) /\ p \in DOMAIN files' =>
                         p \in DOMAIN files /\ files'[p].id = files[p].id
    BY <2>2, <2>5
  <2>7. \A p \in used' \ used : ~IsOwn(w, p) => Tail(p) \notin used
    BY <1>1, <2>2, <2>5 DEF There, UsedInv
  <2>8. ASSUME HeldInv', CountInv' PROVE LossInv'
    BY <1>1, <1>2, <2>6, <2>7, <2>8, ChangeLoss
  <2>9. CASE op[w] \in {"add", "put"}
    <3>1. i \in Ids /\ i \notin Made \cup held
      BY <1>1, <2>3, <2>9, OneIdentity
    <3>2. held' \subseteq held \cup {i} /\ i \in held' /\ UNCHANGED astray
      BY <2>4, <2>9
    <3>3. ASSUME NEW j \in held', j # i PROVE \E f \in DOMAIN files' : files'[f].id = j
      <4>1. PICK f \in DOMAIN files : files[f].id = j
        BY <1>1, <3>2, <3>3 DEF HeldInv
      <4>2. f # d
        BY <1>1, <2>2, <2>4, <2>9, <3>3, <4>1 DEF FreshInv
      <4> QED
        BY <2>5, <4>1, <4>2
    <3>4. \A f \in DOMAIN files : files[f].id # i
      BY <3>1 DEF Made
    <3>5. \A f, g \in DOMAIN files' : files'[f].id = files'[g].id => f = g \/ files'[f].id \in astray'
      BY <1>1, <2>5, <3>2, <3>4 DEF HeldInv
    <3>6. \A f \in DOMAIN files' : files'[f].id \in Ids
      BY <1>1, <2>5, <3>1 DEF HeldInv
    <3>7. HeldInv'
      <4>1. held' \subseteq Ids /\ astray' \subseteq Ids
        BY <1>1, <3>1, <3>2 DEF HeldInv
      <4>2. \A j \in held' : \E f \in DOMAIN files' : files'[f].id = j
        BY <2>5, <3>3
      <4> QED
        BY <1>2, <3>5, <3>6, <4>1, <4>2 DEF HeldInv
    <3>8. Made' \cup held' \subseteq Taken \cup {i}
      BY <2>5, <3>2 DEF Made, Taken
    <3>9. CountInv'
      BY <1>1, <1>2, <2>9, <3>1, <3>8, CountMade
    <3> QED
      BY <2>8, <3>7, <3>9
  <2>10. CASE op[w] \notin {"add", "put"}
    <3>1. /\ i = mine[w] /\ i \in Ids /\ (d \in DOMAIN files => files[d].id = i)
      <4>1. i = mine[w] /\ d = path[w] /\ op[w] \in {"commit", "move"}
        BY <2>2, <2>3, <2>10
      <4>2. mine[w] # None /\ (d \in DOMAIN files => files[d].id = i)
        BY <1>1, <4>1 DEF MineInv
      <4>3. mine[w] \in Ids \cup {None}
        BY <1>1 DEF HeldInv
      <4> QED
        BY <4>1, <4>2, <4>3
    <3>2. held' = held /\ astray' = astray \cup (IF d \in DOMAIN files THEN {} ELSE {i})
      BY <2>4, <2>10
    <3>3. /\ held' \subseteq Ids /\ astray' \subseteq Ids /\ \A f \in DOMAIN files' : files'[f].id \in Ids
      BY <1>1, <2>5, <3>1, <3>2 DEF HeldInv
    <3>4. ASSUME NEW j \in held' PROVE \E f \in DOMAIN files' : files'[f].id = j
      <4>1. PICK f \in DOMAIN files : files[f].id = j
        BY <1>1, <3>2 DEF HeldInv
      <4>2. f \in DOMAIN files' /\ files'[f].id = j
        BY <2>5, <3>1, <4>1
      <4> QED
        BY <4>2
    <3>5. ASSUME NEW f \in DOMAIN files', NEW g \in DOMAIN files', files'[f].id = files'[g].id
          PROVE  f = g \/ files'[f].id \in astray'
      <4>1. CASE d \in DOMAIN files
        BY <1>1, <2>5, <3>1, <3>2, <3>5, <4>1 DEF HeldInv
      <4>2. CASE d \notin DOMAIN files /\ files'[f].id = i
        BY <3>2, <4>2
      <4>3. CASE d \notin DOMAIN files /\ files'[f].id # i
        <5>1. f \in DOMAIN files /\ g \in DOMAIN files /\ files'[f] = files[f] /\ files'[g] = files[g]
          BY <2>5, <3>5, <4>3
        <5> QED
          BY <1>1, <3>2, <3>5, <5>1 DEF HeldInv
      <4> QED
        BY <4>1, <4>2, <4>3
    <3>6. HeldInv'
      BY <1>2, <3>3, <3>4, <3>5 DEF HeldInv
    <3>7. Made' \cup held' \subseteq Taken
      <4>1. Made' \subseteq Made \cup {i}
        BY <2>5 DEF Made
      <4>2. i \in Taken
        BY <3>1, NoneAssumption DEF Taken
      <4> QED
        BY <3>2, <4>1, <4>2 DEF Taken
    <3>8. CountInv'
      BY <1>1, <1>2, <3>7, CountKeeps
    <3> QED
      BY <2>8, <3>6, <3>8
  <2> QED
    BY <2>9, <2>10
<1> QED
  BY <1>3, <1>4

\* What is below d is renamed to what is below e, and no two names to one.
LEMMA RenamedBelow ==
    ASSUME NEW d \in Seq(RDNs), NEW e \in Seq(RDNs), NEW f \in Seq(RDNs), Below(d, f)
    PROVE  Below(e, Renamed(f, d, e))
<1>1. /\ Len(Renamed(f, d, e)) = Len(f) - Len(d) + Len(e)
      /\ \A n \in 0..Len(e) : Last(Renamed(f, d, e), n) = Last(e, n)
  BY LastOfRenamed
<1>2. Len(d) < Len(f) /\ Len(d) \in Nat /\ Len(e) \in Nat /\ Len(f) \in Nat
  BY Names DEF Below
<1>3. Last(Renamed(f, d, e), Len(e)) = e
  BY <1>1, <1>2, LastIsAll
<1>4. Len(e) < Len(Renamed(f, d, e))
  BY <1>1, <1>2
<1> QED
  BY <1>3, <1>4 DEF Below

LEMMA RenamedParts ==
    ASSUME NEW d \in Seq(RDNs), NEW e \in Seq(RDNs), NEW f \in Seq(RDNs), Len(d) <= Len(f)
    PROVE  /\ Len(Renamed(f, d, e)) = Len(f) - Len(d) + Len(e)
           /\ \A i \in 1..Len(f) - Len(d) : Renamed(f, d, e)[i] = f[i]
<1>1. Len(d) \in Nat /\ Len(f) \in Nat /\ Len(e) \in Nat /\ \A i \in 1..Len(f) : f[i] \in RDNs
  BY Names, ElementOfSeq
<1>2. PICK k : k = Len(f) - Len(d)
  OBVIOUS
<1>3. k \in 0..Len(f) /\ k \in Int
  BY <1>1, <1>2
<1>4. PICK s : s = SubSeq(f, 1, k)
  OBVIOUS
<1>5. s \in Seq(RDNs) /\ Len(s) = k /\ \A i \in 1..k : s[i] = f[i]
  <2>1. /\ s \in Seq(RDNs) /\ Len(s) = IF 1 <= k THEN k - 1 + 1 ELSE 0
        /\ \A i \in 1..k - 1 + 1 : s[i] = f[1 + i - 1]
    BY <1>1, <1>3, <1>4, SubSeqProperties
  <2> QED
    BY <1>3, <2>1
<1>6. /\ Len(s \o e) = k + Len(e) /\ \A i \in 1..k : (s \o e)[i] = s[i]
  <2>1. /\ Len(s \o e) = Len(s) + Len(e)
        /\ \A i \in 1..Len(s) + Len(e) : (s \o e)[i] = IF i <= Len(s) THEN s[i] ELSE e[i - Len(s)]
    BY <1>5, ConcatProperties
  <2> QED
    BY <1>1, <1>3, <1>5, <2>1
<1>7. Renamed(f, d, e) = s \o e
  BY <1>2, <1>4 DEF Renamed
<1> QED
  BY <1>2, <1>5, <1>6, <1>7

LEMMA RenamedApart ==
    ASSUME NEW d \in Seq(RDNs), NEW e \in Seq(RDNs), NEW f \in Seq(RDNs), NEW g \in Seq(RDNs),
           Below(d, f), Below(d, g), Renamed(f, d, e) = Renamed(g, d, e)
    PROVE  f = g
<1>1. /\ Len(d) \in Nat /\ Len(e) \in Nat /\ Len(f) \in Nat /\ Len(g) \in Nat
      /\ Len(d) < Len(f) /\ Len(d) < Len(g) /\ Last(f, Len(d)) = d /\ Last(g, Len(d)) = d
  BY Names DEF Below
<1>2. /\ Len(Renamed(f, d, e)) = Len(f) - Len(d) + Len(e)
      /\ \A i \in 1..Len(f) - Len(d) : Renamed(f, d, e)[i] = f[i]
  <2>1. Len(d) <= Len(f)
    BY <1>1
  <2> QED
    BY <2>1, RenamedParts
<1>3. /\ Len(Renamed(g, d, e)) = Len(g) - Len(d) + Len(e)
      /\ \A i \in 1..Len(g) - Len(d) : Renamed(g, d, e)[i] = g[i]
  <2>1. Len(d) <= Len(g)
    BY <1>1
  <2> QED
    BY <2>1, RenamedParts
<1>4. Len(f) = Len(g)
  BY <1>1, <1>2, <1>3
<1>5. ASSUME NEW i \in 1..Len(f) PROVE f[i] = g[i]
  <2>1. CASE i <= Len(f) - Len(d)
    BY <1>1, <1>2, <1>3, <1>4, <2>1
  <2>2. CASE i > Len(f) - Len(d)
    <3>1. PICK j : j = i - (Len(f) - Len(d))
      OBVIOUS
    <3>2. j \in 1..Len(d) /\ Len(d) \in 0..Len(f) /\ Len(d) \in 0..Len(g) /\ i = Len(f) - Len(d) + j
          /\ i = Len(g) - Len(d) + j
      BY <1>1, <1>4, <2>2, <3>1
    <3>3. \A m \in 1..Len(d) : Last(f, Len(d))[m] = f[Len(f) - Len(d) + m]
      BY <3>2, LastByPlace
    <3>4. \A m \in 1..Len(d) : Last(g, Len(d))[m] = g[Len(g) - Len(d) + m]
      BY <3>2, LastByPlace
    <3>5. f[i] = d[j] /\ g[i] = d[j]
      BY <1>1, <3>2, <3>3, <3>4
    <3> QED
      BY <3>5
  <2> QED
    BY <1>1, <2>1, <2>2
<1> QED
  BY <1>4, <1>5, SeqEqual

\* A directory that is renamed to a name there has not been: each file is where
\* it was, or under a name there has not been.
LEMMA MovedFiles ==
    ASSUME TreeInv, UsedInv, NEW d \in dirs, NEW e \in Seq(RDNs), e \notin used, MoveTree(d, e)
    PROVE  /\ \A f \in DOMAIN files : /\ FileThere(f, d, e) \in DOMAIN files'
                                      /\ files'[FileThere(f, d, e)] = files[f]
           /\ \A p \in DOMAIN files' : \E f \in DOMAIN files :
                p = FileThere(f, d, e) /\ files'[p] = files[f]
           /\ \A f, g \in DOMAIN files : FileThere(f, d, e) = FileThere(g, d, e) => f = g
           /\ \A p \in used : p \in DOMAIN files' => p \in DOMAIN files /\ files'[p] = files[p]
           /\ e \notin DOMAIN files'
           /\ \A p \in There' : p \in used \/ p = e \/ Below(e, p)
<1>1. /\ dirs' = {DirThere(f, d, e) : f \in dirs}
      /\ files' = [g \in {FileThere(f, d, e) : f \in DOMAIN files} |->
                     files[CHOOSE f \in DOMAIN files : FileThere(f, d, e) = g]]
  BY DEF MoveTree, DirThere, FileThere
<1>2. There \subseteq Seq(RDNs) /\ There \subseteq used /\ d \in Seq(RDNs)
  BY DEF TreeInv, ClosedInv, UsedInv, There
<1>3. ASSUME NEW p \in used, p = e \/ Below(e, p) PROVE FALSE
  <2>1. p \in Seq(RDNs) /\ Len(p) \in Nat /\ Len(e) \in Nat
    BY <1>3, Names DEF UsedInv
  <2>2. CASE p = e
    BY <2>2
  <2>3. CASE Below(e, p)
    <3>1. Len(e) \in 0..Len(p) /\ Last(p, Len(e)) = e
      BY <2>1, <2>3 DEF Below
    <3> QED
      BY <3>1 DEF UsedInv
  <2> QED
    BY <1>3, <2>2, <2>3
<1>4. \A f \in DOMAIN files : FileThere(f, d, e) = f \/ Below(e, FileThere(f, d, e))
  BY <1>2, RenamedBelow DEF FileThere, There
<1>5. ASSUME NEW f \in DOMAIN files, NEW g \in DOMAIN files, FileThere(f, d, e) = FileThere(g, d, e)
      PROVE  f = g
  <2>1. f \in Seq(RDNs) /\ g \in Seq(RDNs) /\ f \in used /\ g \in used
    BY <1>2 DEF There
  <2>2. CASE Below(d, f) /\ Below(d, g)
    BY <1>2, <1>5, <2>1, <2>2, RenamedApart DEF FileThere
  <2>3. CASE ~Below(d, f) /\ ~Below(d, g)
    BY <1>5, <2>3 DEF FileThere
  <2>4. CASE Below(d, f) /\ ~Below(d, g)
    <3>1. Below(e, g)
      BY <1>2, <1>5, <2>1, <2>4, RenamedBelow DEF FileThere
    <3> QED
      BY <1>3, <2>1, <3>1
  <2>5. CASE ~Below(d, f) /\ Below(d, g)
    <3>1. Below(e, f)
      BY <1>2, <1>5, <2>1, <2>5, RenamedBelow DEF FileThere
    <3> QED
      BY <1>3, <2>1, <3>1
  <2> QED
    BY <2>2, <2>3, <2>4, <2>5
<1>6. DOMAIN files' = {FileThere(f, d, e) : f \in DOMAIN files}
  BY <1>1
<1>7. ASSUME NEW f \in DOMAIN files
      PROVE  FileThere(f, d, e) \in DOMAIN files' /\ files'[FileThere(f, d, e)] = files[f]
  <2>1. PICK g : g = CHOOSE h \in DOMAIN files : FileThere(h, d, e) = FileThere(f, d, e)
    OBVIOUS
  <2>2. g \in DOMAIN files /\ FileThere(g, d, e) = FileThere(f, d, e)
    BY <2>1
  <2>3. g = f
    BY <1>5, <2>2
  <2>4. FileThere(f, d, e) \in DOMAIN files' /\ files'[FileThere(f, d, e)] = files[g]
    BY <1>1, <1>6, <2>1
  <2> QED
    BY <2>3, <2>4
<1>8. \A p \in DOMAIN files' : \E f \in DOMAIN files : p = FileThere(f, d, e) /\ files'[p] = files[f]
  BY <1>6, <1>7
<1>9. ASSUME NEW p \in DOMAIN files', p \in used \/ p = e PROVE p \in DOMAIN files /\ files'[p] = files[p]
  <2>1. PICK f \in DOMAIN files : p = FileThere(f, d, e) /\ files'[p] = files[f]
    BY <1>8
  <2>2. ~Below(e, p)
    <3>1. CASE p \in used
      BY <1>3, <3>1
    <3>2. CASE p = e
      BY <3>2, Names DEF Below
    <3> QED
      BY <1>9, <3>1, <3>2
  <2> QED
    BY <1>4, <2>1, <2>2
<1>10. e \notin DOMAIN files'
  BY <1>2, <1>9 DEF There
<1>11. ASSUME NEW p \in There' PROVE p \in used \/ p = e \/ Below(e, p)
  <2>1. CASE p \in DOMAIN files'
    BY <1>2, <1>4, <1>8, <2>1 DEF There
  <2>2. CASE p \in dirs'
    <3>1. PICK f \in dirs : p = DirThere(f, d, e)
      BY <1>1, <2>2
    <3>2. f \in Seq(RDNs) /\ f \in used
      BY <1>2 DEF There
    <3>3. CASE f = d
      BY <1>2, <3>1, <3>3, LastOfRenamed DEF DirThere
    <3>4. CASE f # d /\ Below(d, f)
      BY <1>2, <3>1, <3>2, <3>4, RenamedBelow DEF DirThere
    <3>5. CASE f # d /\ ~Below(d, f)
      BY <3>1, <3>2, <3>5 DEF DirThere
    <3> QED
      BY <3>3, <3>4, <3>5
  <2> QED
    BY <2>1, <2>2 DEF There
<1> QED
  BY <1>5, <1>7, <1>8, <1>9, <1>10, <1>11

LEMMA MoveDirLoss ==
    ASSUME TreeInv, TreeInv', LossInv, NEW w \in Writers, MoveDir(w)
    PROVE  LossInv'
<1>1. /\ LocalType /\ LocalInv(w) /\ UsedInv /\ HeldInv /\ CountInv
      /\ OwnInv(w) /\ FreshInv(w) /\ MineInv(w) /\ WriterInv(w) /\ w \in Tasks
      /\ UNCHANGED <<held, astray, changes>> /\ pc[w] = "movedir" /\ op[w] = "move" /\ "moveldif" \in Calls
  BY DEF TreeInv, ShapeInv, TasksInv, LossInv, WriterInv, Tasks, MoveDir, known, LocalInv, Calls
<1>2. CASE UNCHANGED <<files, dirs, used>>
  <2>1. There' \subseteq used
    BY <1>1, <1>2 DEF There, UsedInv
  <2>2. CASE Return(w)
    BY <1>1, <1>2, <2>1, <2>2, QuietEnd
  <2>3. CASE GoTo(w, "moveldif") /\ UNCHANGED locals
    <3>1. ASSUME pc'[w] = "moveldif", UNCHANGED <<op, goal, at, path, new, mine>> PROVE WriterInv(w)'
      <4>1. new[w] \notin DOMAIN files
        BY <1>1 DEF FreshInv, UsedInv, There
      <4> QED
        BY <1>1, <1>2, <3>1, <4>1 DEF WriterInv, OwnInv, IsOwn, FreshInv, MineInv
    <3> QED
      BY <1>1, <1>2, <2>1, <2>3, <3>1, QuietOn
  <2> QED
    BY <2>2, <2>3 DEF MoveDir
<1>3. CASE ~UNCHANGED <<files, dirs, used>>
  <2>1. PICK d, e : d = path[w] /\ e = new[w]
    OBVIOUS
  <2>2. /\ d \in dirs /\ MoveTree(d, e) /\ GoTo(w, "moveldif") /\ UNCHANGED locals
        /\ used' = used \cup There'
    BY <1>3, <2>1 DEF MoveDir, disk, Noticed
  <2>3. e \in Seq(RDNs) /\ e \notin used /\ IsOwn(w, e) /\ Tail(e) \in used
    BY <1>1, <2>1 DEF LocalType, FreshInv, OwnInv
  <2>4. /\ \A f \in DOMAIN files : /\ FileThere(f, d, e) \in DOMAIN files'
                                    /\ files'[FileThere(f, d, e)] = files[f]
        /\ \A p \in DOMAIN files' : \E f \in DOMAIN files :
             p = FileThere(f, d, e) /\ files'[p] = files[f]
        /\ \A p \in used : p \in DOMAIN files' => p \in DOMAIN files /\ files'[p] = files[p]
        /\ e \notin DOMAIN files'
        /\ \A p \in There' : p \in used \/ p = e \/ Below(e, p)
    BY <1>1, <2>2, <2>3, MovedFiles
  <2>5. /\ pc'[w] = "moveldif" /\ UNCHANGED <<op, goal, at, path, new, mine>>
        /\ \A s \in Tasks \ {w} : SameAll(s)
    BY <1>1, <2>2, GoingOn DEF TreeInv, locals, SameAll
  <2>6. WriterInv(w)'
    <3>1. path[w] \in used /\ used \subseteq used'
      BY <1>1, <2>2 DEF MineInv
    <3>2. OwnInv(w)'
      BY <1>1, <2>5 DEF OwnInv, IsOwn
    <3>3. FreshInv(w)'
      BY <1>1, <2>1, <2>3, <2>4, <2>5, <3>1 DEF FreshInv
    <3>4. MineInv(w)'
      BY <1>1, <2>4, <2>5, <3>1 DEF MineInv
    <3> QED
      BY <3>2, <3>3, <3>4 DEF WriterInv
  <2>7. HeldInv'
    <3>1. /\ held' \subseteq Ids /\ astray' \subseteq Ids /\ mine' \in [Tasks -> Ids \cup {None}]
          /\ \A f \in DOMAIN files' : files'[f].id \in Ids
      BY <1>1, <2>4, <2>5 DEF HeldInv
    <3>2. ASSUME NEW i \in held' PROVE \E f \in DOMAIN files' : files'[f].id = i
      <4>1. PICK f \in DOMAIN files : files[f].id = i
        BY <1>1 DEF HeldInv
      <4> QED
        BY <2>4, <4>1
    <3>3. ASSUME NEW p \in DOMAIN files', NEW q \in DOMAIN files', files'[p].id = files'[q].id
          PROVE  p = q \/ files'[p].id \in astray'
      <4>1. PICK f \in DOMAIN files : p = FileThere(f, d, e) /\ files'[p] = files[f]
        BY <2>4
      <4>2. PICK g \in DOMAIN files : q = FileThere(g, d, e) /\ files'[q] = files[g]
        BY <2>4
      <4>3. f = g \/ files[f].id \in astray
        BY <1>1, <3>3, <4>1, <4>2 DEF HeldInv
      <4> QED
        BY <1>1, <4>1, <4>2, <4>3
    <3> QED
      BY <3>1, <3>2, <3>3 DEF HeldInv
  <2>8. CountInv'
    <3>1. Made' \cup held' \subseteq Taken
      BY <1>1, <2>4 DEF Made, Taken
    <3> QED
      BY <1>1, <2>5, <3>1, CountKeeps
  <2>9. ASSUME NEW p \in used' \ used, ~IsOwn(w, p) PROVE Tail(p) \notin used
    <3>1. p \in There' /\ Below(e, p)
      BY <2>2, <2>3, <2>4, <2>9
    <3>2. p \in Seq(RDNs) /\ Len(p) \in Nat /\ Len(e) \in Nat /\ Len(e) < Len(p) /\ Last(p, Len(e)) = e
      BY <2>3, <3>1, Names DEF TreeInv, ClosedInv, Below
    <3>3. p # <<>>
      BY <3>2, Names
    <3>4. Tail(p) = Last(p, Len(p) - 1) /\ Len(Tail(p)) = Len(p) - 1
      BY <3>2, <3>3, TailIsLast
    <3>5. Len(p) - 1 \in 0..Len(p) /\ Len(e) \in 0..Len(p) - 1
      BY <3>2
    <3>6. Last(Tail(p), Len(e)) = e
      BY <3>2, <3>4, <3>5, LastOfLast
    <3>7. Tail(p) \in used => e \in used
      BY <1>1, <3>4, <3>5, <3>6 DEF UsedInv
    <3> QED
      BY <2>3, <3>7
  <2> QED
    BY <2>2, <2>4, <2>5, <2>6, <2>7, <2>8, <2>9, ChangeLoss
<1> QED
  BY <1>2, <1>3

LEMMA InitLoss == Init => LossInv
<1> SUFFICES ASSUME Init PROVE LossInv
  OBVIOUS
<1>1. /\ DOMAIN files = DOMAIN Start /\ (\A d \in DOMAIN Start : files[d].id = Start[d])
      /\ held = {Start[d] : d \in DOMAIN Start} /\ astray = {} /\ used = There /\ changes = 0
      /\ mine = [t \in Tasks |-> None] /\ op = [t \in Tasks |-> "none"] /\ pc = [t \in Tasks |-> "idle"]
  BY DEF Init
<1>2. UsedInv
  <2>1. ClosedInv
    BY InitTree DEF TreeInv
  <2>2. ASSUME NEW d \in There, NEW n \in 0..Len(d) PROVE Last(d, n) \in There
    <3>1. d \in Seq(RDNs) /\ Len(d) \in Nat
      BY <2>1, Names DEF ClosedInv
    <3>2. CASE n = Len(d)
      BY <3>1, <3>2, LastIsAll
    <3>3. CASE n # Len(d)
      <4>1. n \in 0..Len(d) - 1
        BY <3>1, <3>3
      <4> QED
        BY <2>1, <4>1 DEF ClosedInv, There
    <3> QED
      BY <3>2, <3>3
  <2> QED
    BY <1>1, <2>1, <2>2 DEF UsedInv, ClosedInv
<1>3. HeldInv
  BY <1>1, StartAssumption DEF HeldInv
<1>4. CountInv
  <2>1. PICK f : f = [d \in DOMAIN Start |-> Start[d]]
    OBVIOUS
  <2>2. Taken = held
    BY <1>1 DEF Taken, Made, Tasks
  <2>3. f \in Surjection(DOMAIN Start, held)
    BY <1>1, <2>1 DEF Surjection
  <2>4. Cardinality(held) <= Cardinality(DOMAIN Start)
    BY <2>3, StartAssumption, FS_Surjection
  <2>5. Making = {}
    BY <1>1 DEF Making, Tasks
  <2>6. Cardinality(Making) = 0
    BY <2>5, FS_EmptySet
  <2>7. Cardinality(Taken) \in Nat /\ Cardinality(DOMAIN Start) \in Nat /\ MaxChanges \in Nat
    BY <1>3, Finite
  <2> QED
    BY <1>1, <2>2, <2>4, <2>6, <2>7 DEF CountInv
<1>5. \A w \in Writers : WriterInv(w)
  BY <1>1 DEF WriterInv, OwnInv, FreshInv, MineInv, Tasks
<1> QED
  BY <1>2, <1>3, <1>4, <1>5 DEF LossInv

LEMMA LossStep == TreeInv /\ LossInv /\ TreeInv' /\ [Next]_vars => LossInv'
<1> SUFFICES ASSUME TreeInv, LossInv, TreeInv', [Next]_vars PROVE LossInv'
  OBVIOUS
<1>1. CASE UNCHANGED vars
  BY <1>1 DEF vars, disk, locals, known, LossInv, UsedInv, There, HeldInv, CountInv, Taken, Made, Making,
              WriterInv, OwnInv, IsOwn, FreshInv, MineInv
<1>2. ASSUME NEW w \in Writers,
             \/ BeginAdd(w) \/ BeginPut(w) \/ BeginDelete(w) \/ BeginCommit(w) \/ BeginMove(w)
             \/ FoundParent(w) \/ List(w) \/ PutDir(w) \/ OpenTmp(w) \/ Written(w)
      PROVE  LossInv'
  BY <1>2, BeginStepLoss, QuietStepLoss
<1>3. ASSUME NEW w \in Writers,
             \/ MakeDir(w) \/ PutMakeDir(w) \/ Unlink(w) \/ Publish(w) \/ MoveDir(w) \/ MoveFile(w)
      PROVE  LossInv'
  BY <1>3, MakeDirLoss, UnlinkLoss, PublishLoss, MoveDirLoss, MoveFileLoss
<1>4. ASSUME NEW r \in Readers, BeginLookup(r) \/ Answered(r) PROVE LossInv'
  BY <1>4, ReaderLoss
<1>5. ASSUME NEW t \in Tasks, Descend(t) \/ NotFound(t) \/ Load(t) PROVE LossInv'
  BY <1>5, DescendLoss, NotFoundLoss, LoadLoss
<1>6. CASE Crash
  BY <1>6, CrashLoss
<1> QED
  BY <1>1, <1>2, <1>3, <1>4, <1>5, <1>6 DEF Next

\* An entry whose addition was reported is in a file until its deletion is, and
\* in one only unless a commit has written it where it was not any more: for any
\* number of writers that keep to names of their own and move entries to names
\* there have not been, whatever they do at the same time to the entries above,
\* and whenever the process dies.  No rename brings anything under a name that
\* has been before, so what a task has loaded is what its path still holds, if
\* that holds anything (_addChild, _move2, delete, commit).
THEOREM EntriesAreKept == Spec => []NothingIsLost
<1>1. TreeInv /\ LossInv => NothingIsLost
  <2> SUFFICES ASSUME TreeInv, LossInv PROVE NothingIsLost
    OBVIOUS
  <2>1. ClosedInv /\ UsedInv /\ HeldInv /\ TasksInv
    BY DEF TreeInv, LossInv
  <2>2. ASSUME NEW d \in There \ {<<>>} PROVE Tail(d) \in dirs
    <3>1. d \in Seq(RDNs) /\ d # <<>>
      BY <2>1 DEF ClosedInv
    <3>2. Len(d) - 1 \in 0..Len(d) - 1 /\ Tail(d) = Last(d, Len(d) - 1)
      BY <3>1, TailIsLast
    <3> QED
      BY <2>1, <3>2 DEF ClosedInv
  <2>3. TypeOK
    BY <2>1, <2>2 DEF TypeOK, ClosedInv, HeldInv, TasksInv, TmpInv
  <2> QED
    BY <2>1, <2>3 DEF NothingIsLost, HeldInv
<1>2. TreeInv /\ LossInv /\ [Next]_vars => (TreeInv /\ LossInv)'
  BY TreeStep, LossStep
<1>3. Init => TreeInv /\ LossInv
  BY InitTree, InitLoss
<1> QED
  BY <1>1, <1>2, <1>3, PTL DEF Spec

-----------------------------------------------------------------------------
(* LDIFStream: what the parser has made of the lines that have come is     *)
(* what the text means, told from all of it.  The reference reading is     *)
(* recursive over the lines, so what it gives for one line more is found   *)
(* by the least place at which two readings would differ.                  *)
Line == Seq(STRING)
Modes ==
    {"HEADER", "WAIT_FOR_DN", "IN_ENTRY", "WAIT_FOR_CHANGETYPE", "WAIT_FOR_MOD_SPEC", "IN_MOD_SPEC",
     "IN_ADD_ENTRY", "IN_DELETE"}

\* Of some attributes nothing but that there is one matters.
IsParser(p) ==
    p \in [delta : BOOLEAN, mode : Modes, dn : {p.dn}, data : {p.data},
          modifications : {p.modifications}, spec : {p.spec}, lastLine : {p.lastLine}, out : {p.out},
          error : {p.error}, lost : {p.lost}]

\* What has been kept of the record whose lines have come so far.
Body(record) == SubSeq(record, 3, Len(record))
Within(p, record) ==
    /\ p.mode = "WAIT_FOR_DN" => record = <<>> /\ p.modifications = <<>>
    /\ p.mode # "WAIT_FOR_DN" => record # <<>> /\ p.dn = Val(record[1])
    /\ p.mode = "IN_ENTRY" => ~p.delta /\ p.data = Attributes(Tail(record))
    /\ p.mode \notin {"WAIT_FOR_DN", "IN_ENTRY"} => p.delta
    /\ p.mode = "WAIT_FOR_CHANGETYPE" => Len(record) = 1 /\ p.data = <<>> /\ p.modifications = <<>>
    /\ p.mode = "IN_ADD_ENTRY" =>
         Len(record) >= 2 /\ Val(record[2]) = <<"add">> /\ p.data = Attributes(Body(record))
    /\ p.mode = "IN_DELETE" => Len(record) = 2 /\ Val(record[2]) = <<"delete">>
    /\ p.mode \in {"WAIT_FOR_MOD_SPEC", "IN_MOD_SPEC"} =>
         LET modification == Divided(Body(record), <<"-">>).rest
         IN /\ Len(record) >= 2 /\ Val(record[2]) = <<"modify">>
            /\ p.modifications = Modifications(Body(record))
            /\ p.mode = "WAIT_FOR_MOD_SPEC" => modification = <<>>
            /\ p.mode = "IN_MOD_SPEC" => modification # <<>> /\ p.spec = Modification(modification)

\* What has been made of the lines that were acted on.
MadeOf(p, acted) ==
    LET kept == Uncommented(acted)
        division == Divided(Unversioned(kept), <<>>)
    IN /\ p.mode = "HEADER" => kept = <<>> /\ p.out = <<>> /\ p.modifications = <<>>
       /\ p.mode # "HEADER" =>
            /\ kept # <<>>
            /\ p.out = [i \in DOMAIN division.parts |-> Meaning(division.parts[i], p.delta)]
            /\ Within(p, division.rest)

-----------------------------------------------------------------------------
(* Texts.                                                                  *)

\* Of natural numbers there is a least.
LEMMA LeastNumber ==
    ASSUME NEW T, T \subseteq Nat, T # {}
    PROVE  \E n \in T : \A m \in T : n <= m
<1>1. PICK R : R = OpToRel(<, Nat)
  OBVIOUS
<1>2. \E x \in T : \A y \in T : ~(<<y, x>> \in R)
  <2>1. IsWellFoundedOn(R, Nat)
    BY <1>1, NatLessThanWellFounded
  <2> QED
    BY <2>1, WFMin
<1>3. R = {pair \in Nat \X Nat : pair[1] < pair[2]}
  BY <1>1 DEF OpToRel
<1>4. ASSUME NEW x \in T, NEW y \in T, ~(<<y, x>> \in R) PROVE x <= y
  <2>1. x \in Nat /\ y \in Nat /\ <<y, x>> \in Nat \X Nat
    OBVIOUS
  <2>2. ~(y < x)
    BY <1>3, <1>4, <2>1
  <2> QED
    BY <2>1, <2>2
<1> QED
  BY <1>2, <1>4

\* Two sequences that begin alike and go on alike.
LEMMA AgreeThroughout ==
    ASSUME NEW n \in Nat, NEW f, NEW g, f[0] = g[0],
           \A i \in 1..n : f[i - 1] = g[i - 1] => f[i] = g[i]
    PROVE  f[n] = g[n]
<1> DEFINE T == {i \in 0..n : f[i] # g[i]}
<1>1. T = {}
  <2> SUFFICES ASSUME T # {} PROVE FALSE
    OBVIOUS
  <2>1. PICK i \in T : \A j \in T : i <= j
    <3>1. T \subseteq Nat
      OBVIOUS
    <3> HIDE DEF T
    <3> QED
      BY <3>1, LeastNumber
  <2>2. i \in 1..n /\ i - 1 \in 0..n /\ ~(i <= i - 1)
    OBVIOUS
  <2>3. f[i - 1] = g[i - 1]
    BY <2>1, <2>2
  <2> QED
    BY <2>2, <2>3
<1> QED
  BY <1>1

\* What is unfolded, line by line.
Unfolds(of, lines, n) ==
    of = [i \in 0..n |-> IF i = 0 THEN <<>> ELSE Unfold(of[i - 1], lines[i])]

LEMMA UnfoldsExists == \A lines : \A n \in Nat : \E of : Unfolds(of, lines, n)
<1> TAKE lines
<1> DEFINE T == {n \in Nat : ~ \E of : Unfolds(of, lines, n)}
<1> SUFFICES ASSUME T # {} PROVE FALSE
  OBVIOUS
<1>1. PICK n \in T : \A m \in T : n <= m
  BY LeastNumber
<1>2. n \in Nat /\ ~ \E of : Unfolds(of, lines, n)
  OBVIOUS
<1>3. CASE n = 0
  <2>1. PICK of : of = [i \in 0..0 |-> <<>>]
    OBVIOUS
  <2>2. of = [i \in 0..0 |-> IF i = 0 THEN <<>> ELSE Unfold(of[i - 1], lines[i])]
    BY <2>1
  <2> QED
    BY <1>2, <1>3, <2>2 DEF Unfolds
<1>4. CASE n # 0
  <2>1. n - 1 \in Nat /\ ~(n <= n - 1) /\ n \in 0..n
    BY <1>2, <1>4
  <2>2. PICK g : Unfolds(g, lines, n - 1)
    BY <1>1, <2>1
  <2> DEFINE Whole == Unfold(g[n - 1], lines[n])
  <2>3. PICK of : of = [i \in 0..n |-> IF i = n THEN Whole ELSE g[i]]
    OBVIOUS
  <2> HIDE DEF Whole
  <2>4. ASSUME NEW i \in 0..n
        PROVE  of[i] = IF i = 0 THEN <<>> ELSE Unfold(of[i - 1], lines[i])
    <3>1. CASE i = n
      <4>1. i - 1 \in 0..n /\ i - 1 # n
        BY <1>4, <3>1
      <4>2. of[i] = Whole /\ of[i - 1] = g[i - 1]
        BY <2>3, <3>1, <4>1
      <4> QED
        BY <1>4, <3>1, <4>2 DEF Whole
    <3>2. CASE i # n
      <4>1. i \in 0..n - 1
        BY <1>2, <3>2
      <4>2. of[i] = g[i] /\ (i # 0 => of[i - 1] = g[i - 1])
        BY <2>3, <3>2, <4>1
      <4>3. g[i] = IF i = 0 THEN <<>> ELSE Unfold(g[i - 1], lines[i])
        BY <2>2, <4>1 DEF Unfolds
      <4> QED
        BY <4>2, <4>3
    <3> QED
      BY <3>1, <3>2
  <2>5. of = [i \in 0..n |-> IF i = 0 THEN <<>> ELSE Unfold(of[i - 1], lines[i])]
    BY <2>3, <2>4
  <2> QED
    BY <1>2, <2>5 DEF Unfolds
<1> QED
  BY <1>3, <1>4

LEMMA UnfoldedSteps ==
    ASSUME NEW lines, Len(lines) \in Nat
    PROVE  \E of : Unfolds(of, lines, Len(lines)) /\ Unfolded(lines) = of[Len(lines)]
<1> DEFINE of == CHOOSE of : Unfolds(of, lines, Len(lines))
<1>1. Unfolds(of, lines, Len(lines))
  BY UnfoldsExists
<1>2. Unfolded(lines) = of[Len(lines)]
  BY DEF Unfolds, Unfolded
<1> QED
  BY <1>1, <1>2

LEMMA UnfoldedNot == ASSUME NEW lines, Len(lines) = 0 PROVE Unfolded(lines) = <<>>
<1>1. PICK of : Unfolds(of, lines, Len(lines)) /\ Unfolded(lines) = of[Len(lines)]
  BY UnfoldedSteps
<1> QED
  BY <1>1 DEF Unfolds

\* The lines at some places, line by line.
Gather(gathered, line, whether) == IF whether THEN Append(gathered, line) ELSE gathered
Gathers(of, lines, places, n) ==
    of = [i \in 0..n |-> IF i = 0 THEN <<>> ELSE Gather(of[i - 1], lines[i], i \in places)]

LEMMA GathersExists == \A lines, places : \A n \in Nat : \E of : Gathers(of, lines, places, n)
<1> TAKE lines, places
<1> DEFINE T == {n \in Nat : ~ \E of : Gathers(of, lines, places, n)}
<1> SUFFICES ASSUME T # {} PROVE FALSE
  OBVIOUS
<1>1. PICK n \in T : \A m \in T : n <= m
  BY LeastNumber
<1>2. n \in Nat /\ ~ \E of : Gathers(of, lines, places, n)
  OBVIOUS
<1>3. CASE n = 0
  <2>1. PICK of : of = [i \in 0..0 |-> <<>>]
    OBVIOUS
  <2>2. of = [i \in 0..0 |-> IF i = 0 THEN <<>> ELSE Gather(of[i - 1], lines[i], i \in places)]
    BY <2>1
  <2> QED
    BY <1>2, <1>3, <2>2 DEF Gathers
<1>4. CASE n # 0
  <2>1. n - 1 \in Nat /\ ~(n <= n - 1) /\ n \in 0..n
    BY <1>2, <1>4
  <2>2. PICK g : Gathers(g, lines, places, n - 1)
    BY <1>1, <2>1
  <2> DEFINE Whole == Gather(g[n - 1], lines[n], n \in places)
  <2>3. PICK of : of = [i \in 0..n |-> IF i = n THEN Whole ELSE g[i]]
    OBVIOUS
  <2> HIDE DEF Whole
  <2>4. ASSUME NEW i \in 0..n
        PROVE  of[i] = IF i = 0 THEN <<>> ELSE Gather(of[i - 1], lines[i], i \in places)
    <3>1. CASE i = n
      <4>1. i - 1 \in 0..n /\ i - 1 # n
        BY <1>4, <3>1
      <4>2. of[i] = Whole /\ of[i - 1] = g[i - 1]
        BY <2>3, <3>1, <4>1
      <4> QED
        BY <1>4, <3>1, <4>2 DEF Whole
    <3>2. CASE i # n
      <4>1. i \in 0..n - 1
        BY <1>2, <3>2
      <4>2. of[i] = g[i] /\ (i # 0 => of[i - 1] = g[i - 1])
        BY <2>3, <3>2, <4>1
      <4>3. g[i] = IF i = 0 THEN <<>> ELSE Gather(g[i - 1], lines[i], i \in places)
        BY <2>2, <4>1 DEF Gathers
      <4> QED
        BY <4>2, <4>3
    <3> QED
      BY <3>1, <3>2
  <2>5. of = [i \in 0..n |-> IF i = 0 THEN <<>> ELSE Gather(of[i - 1], lines[i], i \in places)]
    BY <2>3, <2>4
  <2> QED
    BY <1>2, <2>5 DEF Gathers
<1> QED
  BY <1>3, <1>4

LEMMA LinesAtSteps ==
    ASSUME NEW lines, NEW places, Len(lines) \in Nat
    PROVE  \E of : Gathers(of, lines, places, Len(lines)) /\ LinesAt(lines, places) = of[Len(lines)]
<1> DEFINE of == CHOOSE of : Gathers(of, lines, places, Len(lines))
<1>1. Gathers(of, lines, places, Len(lines))
  BY GathersExists
<1>2. LinesAt(lines, places) = of[Len(lines)]
  BY DEF Gathers, Gather, LinesAt
<1> QED
  BY <1>1, <1>2

LEMMA LinesAtNot == ASSUME NEW lines, Len(lines) = 0, NEW places PROVE LinesAt(lines, places) = <<>>
<1>1. PICK of : Gathers(of, lines, places, Len(lines)) /\ LinesAt(lines, places) = of[Len(lines)]
  BY LinesAtSteps
<1> QED
  BY <1>1 DEF Gathers

\* What is divided, line by line.
Divides(of, lines, end, n) ==
    of = [i \in 0..n |-> IF i = 0 THEN [parts |-> <<>>, rest |-> <<>>] ELSE Divide(of[i - 1], lines[i], end)]

LEMMA DividesExists == \A lines, end : \A n \in Nat : \E of : Divides(of, lines, end, n)
<1> TAKE lines, end
<1> DEFINE T == {n \in Nat : ~ \E of : Divides(of, lines, end, n)}
<1> SUFFICES ASSUME T # {} PROVE FALSE
  OBVIOUS
<1>1. PICK n \in T : \A m \in T : n <= m
  BY LeastNumber
<1>2. n \in Nat /\ ~ \E of : Divides(of, lines, end, n)
  OBVIOUS
<1>3. CASE n = 0
  <2>1. PICK of : of = [i \in 0..0 |-> [parts |-> <<>>, rest |-> <<>>]]
    OBVIOUS
  <2>2. of = [i \in 0..0 |-> IF i = 0 THEN [parts |-> <<>>, rest |-> <<>>] ELSE Divide(of[i - 1], lines[i], end)]
    BY <2>1
  <2> QED
    BY <1>2, <1>3, <2>2 DEF Divides
<1>4. CASE n # 0
  <2>1. n - 1 \in Nat /\ ~(n <= n - 1) /\ n \in 0..n
    BY <1>2, <1>4
  <2>2. PICK g : Divides(g, lines, end, n - 1)
    BY <1>1, <2>1
  <2> DEFINE Whole == Divide(g[n - 1], lines[n], end)
  <2>3. PICK of : of = [i \in 0..n |-> IF i = n THEN Whole ELSE g[i]]
    OBVIOUS
  <2> HIDE DEF Whole
  <2>4. ASSUME NEW i \in 0..n
        PROVE  of[i] = IF i = 0 THEN [parts |-> <<>>, rest |-> <<>>] ELSE Divide(of[i - 1], lines[i], end)
    <3>1. CASE i = n
      <4>1. i - 1 \in 0..n /\ i - 1 # n
        BY <1>4, <3>1
      <4>2. of[i] = Whole /\ of[i - 1] = g[i - 1]
        BY <2>3, <3>1, <4>1
      <4> QED
        BY <1>4, <3>1, <4>2 DEF Whole
    <3>2. CASE i # n
      <4>1. i \in 0..n - 1
        BY <1>2, <3>2
      <4>2. of[i] = g[i] /\ (i # 0 => of[i - 1] = g[i - 1])
        BY <2>3, <3>2, <4>1
      <4>3. g[i] = IF i = 0 THEN [parts |-> <<>>, rest |-> <<>>] ELSE Divide(g[i - 1], lines[i], end)
        BY <2>2, <4>1 DEF Divides
      <4> QED
        BY <4>2, <4>3
    <3> QED
      BY <3>1, <3>2
  <2>5. of = [i \in 0..n |-> IF i = 0 THEN [parts |-> <<>>, rest |-> <<>>] ELSE Divide(of[i - 1], lines[i], end)]
    BY <2>3, <2>4
  <2> QED
    BY <1>2, <2>5 DEF Divides
<1> QED
  BY <1>3, <1>4

LEMMA DividedSteps ==
    ASSUME NEW lines, NEW end, Len(lines) \in Nat
    PROVE  \E of : Divides(of, lines, end, Len(lines)) /\ Divided(lines, end) = of[Len(lines)]
<1> DEFINE of == CHOOSE of : Divides(of, lines, end, Len(lines))
<1>1. Divides(of, lines, end, Len(lines))
  BY DividesExists
<1>2. Divided(lines, end) = of[Len(lines)]
  BY DEF Divides, Divided
<1> QED
  BY <1>1, <1>2

LEMMA DividedNot == ASSUME NEW lines, Len(lines) = 0, NEW end PROVE Divided(lines, end) = [parts |-> <<>>, rest |-> <<>>]
<1>1. PICK of : Divides(of, lines, end, Len(lines)) /\ Divided(lines, end) = of[Len(lines)]
  BY DividedSteps
<1> QED
  BY <1>1 DEF Divides

LEMMA Longer ==
    ASSUME NEW S, NEW s \in Seq(S), NEW x \in S
    PROVE  /\ Append(s, x) \in Seq(S) /\ Len(s) \in Nat /\ Len(Append(s, x)) = Len(s) + 1
           /\ DOMAIN s = 1..Len(s) /\ DOMAIN Append(s, x) = 1..Len(s) + 1
           /\ Append(s, x)[Len(s) + 1] = x /\ \A i \in 1..Len(s) : Append(s, x)[i] = s[i]
OBVIOUS

LEMMA UnfoldedFurther ==
    ASSUME NEW lines \in Seq(Line), NEW line \in Line
    PROVE  Unfolded(Append(lines, line)) = Unfold(Unfolded(lines), line)
<1> DEFINE n == Len(lines)
           more == Append(lines, line)
<1>1. /\ n \in Nat /\ Len(lines) = n /\ Len(more) = n + 1 /\ more[n + 1] = line
      /\ \A i \in 1..n : more[i] = lines[i]
  BY Longer
<1> HIDE DEF n, more
<1>2. PICK f : Unfolds(f, lines, n) /\ Unfolded(lines) = f[n]
  BY <1>1, UnfoldedSteps
<1>3. PICK g : Unfolds(g, more, n + 1) /\ Unfolded(more) = g[n + 1]
  BY <1>1, UnfoldedSteps
<1>4. f[n] = g[n]
  <2>1. f[0] = g[0]
    BY <1>1, <1>2, <1>3 DEF Unfolds
  <2>2. ASSUME NEW i \in 1..n, f[i - 1] = g[i - 1] PROVE f[i] = g[i]
    <3>1. /\ i \in 0..n /\ i \in 0..n + 1 /\ i # 0 /\ more[i] = lines[i]
      BY <1>1
    <3>2. f[i] = Unfold(f[i - 1], lines[i])
      BY <1>2, <3>1 DEF Unfolds
    <3>3. g[i] = Unfold(g[i - 1], more[i])
      BY <1>3, <3>1 DEF Unfolds
    <3> QED
      BY <2>2, <3>1, <3>2, <3>3
  <2> QED
    BY <1>1, <2>1, <2>2, AgreeThroughout
<1>5. g[n + 1] = Unfold(g[n], line)
  BY <1>1, <1>3 DEF Unfolds
<1> QED
  BY <1>1, <1>2, <1>3, <1>4, <1>5 DEF n, more

LEMMA LinesAtFurther ==
    ASSUME NEW lines \in Seq(Line), NEW line \in Line, NEW places, NEW others,
           \A i \in 1..Len(lines) : i \in places <=> i \in others
    PROVE  LinesAt(Append(lines, line), others) =
             IF Len(lines) + 1 \in others THEN Append(LinesAt(lines, places), line)
             ELSE LinesAt(lines, places)
<1> DEFINE n == Len(lines)
           more == Append(lines, line)
<1>1. /\ n \in Nat /\ Len(lines) = n /\ Len(more) = n + 1 /\ more[n + 1] = line
      /\ \A i \in 1..n : more[i] = lines[i]
  BY Longer
<1> HIDE DEF n, more
<1>2. PICK f : Gathers(f, lines, places, n) /\ LinesAt(lines, places) = f[n]
  BY <1>1, LinesAtSteps
<1>3. PICK g : Gathers(g, more, others, n + 1) /\ LinesAt(more, others) = g[n + 1]
  BY <1>1, LinesAtSteps
<1>4. f[n] = g[n]
  <2>1. f[0] = g[0]
    BY <1>1, <1>2, <1>3 DEF Gathers
  <2>2. ASSUME NEW i \in 1..n, f[i - 1] = g[i - 1] PROVE f[i] = g[i]
    <3>1. /\ i \in 0..n /\ i \in 0..n + 1 /\ i # 0 /\ more[i] = lines[i]
      BY <1>1
    <3>2. f[i] = Gather(f[i - 1], lines[i], i \in places)
      BY <1>2, <3>1 DEF Gathers
    <3>3. g[i] = Gather(g[i - 1], more[i], i \in others)
      BY <1>3, <3>1 DEF Gathers
    <3> QED
      BY <2>2, <3>1, <3>2, <3>3 DEF n, Gather
  <2> QED
    BY <1>1, <2>1, <2>2, AgreeThroughout
<1>5. g[n + 1] = Gather(g[n], line, n + 1 \in others)
  BY <1>1, <1>3 DEF Gathers
<1> QED
  BY <1>1, <1>2, <1>3, <1>4, <1>5 DEF n, more, Gather

LEMMA DividedFurther ==
    ASSUME NEW lines \in Seq(Line), NEW line \in Line, NEW end
    PROVE  Divided(Append(lines, line), end) = Divide(Divided(lines, end), line, end)
<1> DEFINE n == Len(lines)
           more == Append(lines, line)
<1>1. /\ n \in Nat /\ Len(lines) = n /\ Len(more) = n + 1 /\ more[n + 1] = line
      /\ \A i \in 1..n : more[i] = lines[i]
  BY Longer
<1> HIDE DEF n, more
<1>2. PICK f : Divides(f, lines, end, n) /\ Divided(lines, end) = f[n]
  BY <1>1, DividedSteps
<1>3. PICK g : Divides(g, more, end, n + 1) /\ Divided(more, end) = g[n + 1]
  BY <1>1, DividedSteps
<1>4. f[n] = g[n]
  <2>1. f[0] = g[0]
    BY <1>1, <1>2, <1>3 DEF Divides
  <2>2. ASSUME NEW i \in 1..n, f[i - 1] = g[i - 1] PROVE f[i] = g[i]
    <3>1. /\ i \in 0..n /\ i \in 0..n + 1 /\ i # 0 /\ more[i] = lines[i]
      BY <1>1
    <3>2. f[i] = Divide(f[i - 1], lines[i], end)
      BY <1>2, <3>1 DEF Divides
    <3>3. g[i] = Divide(g[i - 1], more[i], end)
      BY <1>3, <3>1 DEF Divides
    <3> QED
      BY <2>2, <3>1, <3>2, <3>3
  <2> QED
    BY <1>1, <2>1, <2>2, AgreeThroughout
<1>5. g[n + 1] = Divide(g[n], line, end)
  BY <1>1, <1>3 DEF Divides
<1> QED
  BY <1>1, <1>2, <1>3, <1>4, <1>5 DEF n, more

\* What is gathered and divided are lines.
LEMMA LinesAtLines ==
    ASSUME NEW lines \in Seq(Line), NEW places PROVE LinesAt(lines, places) \in Seq(Line)
<1> DEFINE n == Len(lines)
<1>1. n \in Nat /\ Len(lines) = n /\ \A i \in 1..n : lines[i] \in Line
  OBVIOUS
<1> HIDE DEF n
<1>2. PICK of : Gathers(of, lines, places, n) /\ LinesAt(lines, places) = of[n]
  BY <1>1, LinesAtSteps
<1> DEFINE T == {i \in 0..n : of[i] \notin Seq(Line)}
<1>3. T = {}
  <2> SUFFICES ASSUME T # {} PROVE FALSE
    OBVIOUS
  <2>1. PICK i \in T : \A j \in T : i <= j
    <3>1. T \subseteq Nat
      OBVIOUS
    <3> HIDE DEF T
    <3> QED
      BY <3>1, LeastNumber
  <2>2. of[i] = IF i = 0 THEN <<>> ELSE Gather(of[i - 1], lines[i], i \in places)
    BY <1>2 DEF Gathers
  <2>3. i # 0 => i - 1 \in 0..n /\ ~(i <= i - 1) /\ lines[i] \in Line
    BY <1>1
  <2>4. i # 0 => of[i - 1] \in Seq(Line)
    BY <2>1, <2>3
  <2>5. i # 0 => of[i] \in Seq(Line)
    <3> SUFFICES ASSUME i # 0 PROVE of[i] \in Seq(Line)
      OBVIOUS
    <3>1. PICK s \in Seq(Line) : s = of[i - 1]
      BY <2>4
    <3>2. Append(s, lines[i]) \in Seq(Line)
      BY <2>3, Longer
    <3> QED
      BY <2>2, <3>1, <3>2 DEF Gather
  <2>6. i = 0 => of[i] \in Seq(Line)
    BY <2>2
  <2> QED
    BY <2>5, <2>6
<1> QED
  BY <1>1, <1>2, <1>3

Divisions == [parts : Seq(Seq(Line)), rest : Seq(Line)]

LEMMA DivideLines ==
    ASSUME NEW division \in Divisions, NEW line \in Line, NEW end
    PROVE  Divide(division, line, end) \in Divisions
<1>1. CASE line # end
  <2>1. PICK rest : rest = Append(division.rest, line)
    OBVIOUS
  <2>2. Divide(division, line, end) = [division EXCEPT !.rest = rest] /\ rest \in Seq(Line)
    BY <1>1, <2>1 DEF Divide, Divisions
  <2> QED
    BY <2>2 DEF Divisions
<1>2. CASE line = end
  <2>1. PICK parts : parts = Append(division.parts, division.rest)
    OBVIOUS
  <2>2. parts \in Seq(Seq(Line)) /\ <<>> \in Seq(Line)
    BY <2>1 DEF Divisions
  <2> QED
    BY <1>2, <2>1, <2>2 DEF Divide, Divisions
<1> QED
  BY <1>1, <1>2

LEMMA DividedLines ==
    ASSUME NEW lines \in Seq(Line), NEW end PROVE Divided(lines, end) \in Divisions
<1> DEFINE n == Len(lines)
<1>1. n \in Nat /\ Len(lines) = n /\ \A i \in 1..n : lines[i] \in Line
  OBVIOUS
<1> HIDE DEF n
<1>2. PICK of : Divides(of, lines, end, n) /\ Divided(lines, end) = of[n]
  BY <1>1, DividedSteps
<1> DEFINE T == {i \in 0..n : of[i] \notin Divisions}
<1>3. T = {}
  <2> SUFFICES ASSUME T # {} PROVE FALSE
    OBVIOUS
  <2>1. PICK i \in T : \A j \in T : i <= j
    <3>1. T \subseteq Nat
      OBVIOUS
    <3> HIDE DEF T
    <3> QED
      BY <3>1, LeastNumber
  <2>2. of[i] = IF i = 0 THEN [parts |-> <<>>, rest |-> <<>>] ELSE Divide(of[i - 1], lines[i], end)
    BY <1>2 DEF Divides
  <2>3. i # 0 => i - 1 \in 0..n /\ ~(i <= i - 1) /\ lines[i] \in Line
    BY <1>1
  <2>4. i # 0 => of[i - 1] \in Divisions
    BY <2>1, <2>3
  <2>5. i # 0 => of[i] \in Divisions
    BY <2>2, <2>3, <2>4, DivideLines
  <2>6. i = 0 => of[i] \in Divisions
    BY <2>2 DEF Divisions
  <2> QED
    BY <2>5, <2>6
<1> QED
  BY <1>1, <1>2, <1>3

\* Anything may be appended to a sequence.
LEMMA Extended ==
    ASSUME NEW n \in Nat, NEW s, s = [i \in 1..n |-> s[i]], NEW x
    PROVE  Append(s, x) = [i \in 1..n + 1 |-> IF i = n + 1 THEN x ELSE s[i]]
<1> DEFINE S == {s[i] : i \in 1..n} \cup {x}
<1>1. s \in Seq(S) /\ x \in S /\ Len(s) = n
  OBVIOUS
<1> HIDE DEF S
<1>2. /\ Append(s, x) \in Seq(S) /\ DOMAIN Append(s, x) = 1..n + 1
      /\ Append(s, x)[n + 1] = x /\ \A i \in 1..n : Append(s, x)[i] = s[i]
  BY <1>1, Longer
<1>3. Append(s, x) = [i \in 1..n + 1 |-> Append(s, x)[i]]
  BY <1>2
<1> QED
  BY <1>2, <1>3

ValuesIn(lines) == [i \in DOMAIN lines |-> Val(lines[i])]

LEMMA ValuesFurther ==
    ASSUME NEW lines \in Seq(Line), NEW line \in Line
    PROVE  ValuesIn(Append(lines, line)) = Append(ValuesIn(lines), Val(line))
<1> DEFINE n == Len(lines)
           more == Append(lines, line)
<1>1. /\ n \in Nat /\ DOMAIN lines = 1..n /\ DOMAIN more = 1..n + 1 /\ more[n + 1] = line
      /\ \A i \in 1..n : more[i] = lines[i]
  BY Longer
<1> HIDE DEF n, more
<1>2. ValuesIn(lines) = [i \in 1..n |-> ValuesIn(lines)[i]] /\ \A i \in 1..n : ValuesIn(lines)[i] = Val(lines[i])
  BY <1>1 DEF ValuesIn
<1>3. Append(ValuesIn(lines), Val(line))
        = [i \in 1..n + 1 |-> IF i = n + 1 THEN Val(line) ELSE ValuesIn(lines)[i]]
  BY <1>1, <1>2, Extended
<1>4. ValuesIn(more) = [i \in 1..n + 1 |-> IF i = n + 1 THEN Val(line) ELSE ValuesIn(lines)[i]]
  <2>1. ASSUME NEW i \in 1..n + 1
        PROVE  Val(more[i]) = IF i = n + 1 THEN Val(line) ELSE ValuesIn(lines)[i]
    <3>1. i # n + 1 => i \in 1..n
      BY <1>1
    <3> QED
      BY <1>1, <1>2, <3>1
  <2> QED
    BY <1>1, <2>1 DEF ValuesIn
<1> QED
  BY <1>3, <1>4 DEF more

LEMMA UncommentedFurther ==
    ASSUME NEW lines \in Seq(Line), NEW line \in Line
    PROVE  /\ Uncommented(lines) \in Seq(Line)
           /\ Uncommented(Append(lines, line)) = IF Comment(line) THEN Uncommented(lines)
                                                 ELSE Append(Uncommented(lines), line)
<1> DEFINE n == Len(lines)
           more == Append(lines, line)
           places == {i \in DOMAIN lines : ~Comment(lines[i])}
           others == {i \in DOMAIN more : ~Comment(more[i])}
<1>1. /\ n \in Nat /\ DOMAIN lines = 1..n /\ DOMAIN more = 1..n + 1 /\ more[n + 1] = line
      /\ \A i \in 1..n : more[i] = lines[i]
  BY Longer
<1> HIDE DEF n, more
<1>2. (\A i \in 1..n : i \in places <=> i \in others) /\ (n + 1 \in others <=> ~Comment(line))
  BY <1>1
<1>3. Uncommented(lines) = LinesAt(lines, places) /\ Uncommented(more) = LinesAt(more, others)
  BY DEF Uncommented
<1> HIDE DEF places, others
<1>4. LinesAt(more, others) = IF n + 1 \in others THEN Append(LinesAt(lines, places), line)
                              ELSE LinesAt(lines, places)
  BY <1>2, LinesAtFurther DEF n, more
<1> QED
  BY <1>2, <1>3, <1>4, LinesAtLines DEF more

LEMMA UncommentedLines == \A lines \in Seq(Line) : Uncommented(lines) \in Seq(Line)
BY LinesAtLines DEF Uncommented

\* Of lines at no place there are none.
LEMMA NoLinesAt == ASSUME NEW lines \in Seq(Line) PROVE LinesAt(lines, {}) = <<>>
<1> DEFINE n == Len(lines)
<1>1. n \in Nat /\ Len(lines) = n
  OBVIOUS
<1> HIDE DEF n
<1>2. PICK of : Gathers(of, lines, {}, n) /\ LinesAt(lines, {}) = of[n]
  BY <1>1, LinesAtSteps
<1>3. PICK none : none = [i \in 0..n |-> <<>>]
  OBVIOUS
<1>4. of[0] = none[0]
  BY <1>1, <1>2, <1>3 DEF Gathers
<1>5. ASSUME NEW i \in 1..n, of[i - 1] = none[i - 1] PROVE of[i] = none[i]
  <2>1. i \in 0..n /\ i - 1 \in 0..n /\ i # 0
    BY <1>1
  <2>2. of[i] = Gather(of[i - 1], lines[i], i \in {})
    BY <1>2, <2>1 DEF Gathers
  <2> QED
    BY <1>3, <1>5, <2>1, <2>2 DEF Gather
<1>6. of[n] = none[n]
  BY <1>1, <1>4, <1>5, AgreeThroughout
<1> QED
  BY <1>1, <1>2, <1>3, <1>6

\* One more line of an entry.
Given(data, key, value) ==
    [k \in DOMAIN data \cup {key} |->
        IF k = key THEN Append(IF k \in DOMAIN data THEN data[k] ELSE <<>>, value) ELSE data[k]]

LEMMA AttributesFurther ==
    ASSUME NEW lines \in Seq(Line), NEW line \in Line
    PROVE  Attributes(Append(lines, line)) = Given(Attributes(lines), Key(line), Val(line))
<1> DEFINE n == Len(lines)
           more == Append(lines, line)
           At(ls, k) == {i \in DOMAIN ls : Key(ls[i]) = k}
<1>1. /\ n \in Nat /\ DOMAIN lines = 1..n /\ DOMAIN more = 1..n + 1 /\ more[n + 1] = line
      /\ \A i \in 1..n : more[i] = lines[i]
  BY Longer
<1>2. \A ls : Attributes(ls) = [k \in {Key(ls[i]) : i \in DOMAIN ls} |-> ValuesIn(LinesAt(ls, At(ls, k)))]
  BY DEF Attributes, ValuesIn
<1> HIDE DEF n, more
<1>3. {Key(more[i]) : i \in DOMAIN more} = {Key(lines[i]) : i \in DOMAIN lines} \cup {Key(line)}
  <2>1. DOMAIN more = DOMAIN lines \cup {n + 1}
    BY <1>1
  <2> QED
    BY <1>1, <2>1
<1>4. ASSUME NEW k
      PROVE  LinesAt(more, At(more, k)) = IF k = Key(line) THEN Append(LinesAt(lines, At(lines, k)), line)
                                          ELSE LinesAt(lines, At(lines, k))
  <2>1. (\A i \in 1..n : i \in At(lines, k) <=> i \in At(more, k)) /\ (n + 1 \in At(more, k) <=> k = Key(line))
    BY <1>1
  <2> HIDE DEF At
  <2> QED
    BY <2>1, LinesAtFurther DEF n, more
<1>5. ASSUME NEW k, k \notin {Key(lines[i]) : i \in DOMAIN lines}
      PROVE  ValuesIn(LinesAt(lines, At(lines, k))) = <<>>
  <2>1. At(lines, k) = {}
    BY <1>5
  <2> HIDE DEF At
  <2>2. LinesAt(lines, At(lines, k)) = <<>>
    BY <2>1, NoLinesAt
  <2> QED
    BY <2>2 DEF ValuesIn
<1>6. PICK data : data = Attributes(lines)
  OBVIOUS
<1>7. /\ DOMAIN data = {Key(lines[i]) : i \in DOMAIN lines}
      /\ \A k : k \in DOMAIN data => data[k] = ValuesIn(LinesAt(lines, At(lines, k)))
  BY <1>2, <1>6
<1> HIDE DEF At
<1>8. ASSUME NEW k \in DOMAIN data \cup {Key(line)}
      PROVE  ValuesIn(LinesAt(more, At(more, k)))
               = IF k = Key(line) THEN Append(IF k \in DOMAIN data THEN data[k] ELSE <<>>, Val(line))
                 ELSE data[k]
  <2>1. LinesAt(lines, At(lines, k)) \in Seq(Line)
    BY LinesAtLines
  <2>2. CASE k = Key(line)
    <3>1. ValuesIn(LinesAt(more, At(more, k))) = Append(ValuesIn(LinesAt(lines, At(lines, k))), Val(line))
      BY <1>4, <2>1, <2>2, ValuesFurther
    <3> QED
      BY <1>5, <1>7, <2>2, <3>1
  <2>3. CASE k # Key(line)
    BY <1>4, <1>7, <2>3
  <2> QED
    BY <2>2, <2>3
<1>9. Attributes(more) = [k \in DOMAIN data \cup {Key(line)} |-> ValuesIn(LinesAt(more, At(more, k)))]
  BY <1>2, <1>3, <1>7
<1> QED
  BY <1>6, <1>8, <1>9 DEF Given, more

LEMMA AttributesNot == Attributes(<<>>) = <<>>
<1>1. PICK none : none = <<>>
  OBVIOUS
<1>2. DOMAIN none = {} /\ none = [k \in DOMAIN none |-> none[k]]
  BY <1>1
<1>3. {Key(none[i]) : i \in DOMAIN none} = {}
  BY <1>2
<1>4. Attributes(none) = [k \in {} |-> {}]
  BY <1>3 DEF Attributes
<1> QED
  BY <1>1, <1>2, <1>4
-----------------------------------------------------------------------------
(* The parser.                                                             *)

\* What a line makes of a parser that is within a record.
Takes(p, q, record, line) ==
    /\ IsParser(q) /\ q.mode # "HEADER"
    /\ q.delta = p.delta /\ q.lastLine = p.lastLine /\ q.lost = p.lost
    /\ q.out = IF line = <<>> /\ record # <<>> THEN Append(p.out, Meaning(record, p.delta)) ELSE p.out
    /\ Within(q, IF line = <<>> THEN <<>> ELSE Append(record, line))

\* What has not failed was not raised.
LEMMA Raises ==
    ASSUME NEW p, IsParser(p), NEW q, q.error = ""
    PROVE  \A error : error # "" => q # Raise(p, error)
BY DEF IsParser, Raise

LEMMA OneLineMore ==
    \A s \in Seq(Line), x \in Line :
      /\ Append(s, x) # <<>> /\ Len(Append(s, x)) = Len(s) + 1
      /\ s # <<>> => /\ Append(s, x)[1] = s[1] /\ Tail(s) \in Seq(Line)
                    /\ Tail(Append(s, x)) = Append(Tail(s), x)
<1> SUFFICES ASSUME NEW s \in Seq(Line), NEW x \in Line
             PROVE  /\ Append(s, x) # <<>> /\ Len(Append(s, x)) = Len(s) + 1
                    /\ s # <<>> => /\ Append(s, x)[1] = s[1] /\ Tail(s) \in Seq(Line)
                                  /\ Tail(Append(s, x)) = Append(Tail(s), x)
  OBVIOUS
<1>1. Len(Append(s, x)) = Len(s) + 1 /\ Len(s) \in Nat
  OBVIOUS
<1>2. Append(s, x) # <<>>
  BY <1>1
<1>3. ASSUME s # <<>>
      PROVE  /\ Append(s, x)[1] = s[1] /\ Tail(s) \in Seq(Line)
             /\ Tail(Append(s, x)) = Append(Tail(s), x)
  <2>1. Len(s) >= 1
    BY <1>3
  <2> QED
    BY <2>1
<1> QED
  BY <1>1, <1>2, <1>3

\* The record is done.
LEMMA GotDoes ==
    ASSUME NEW p, IsParser(p), NEW record, record # <<>>, NEW o, o = Meaning(record, p.delta)
    PROVE  Takes(p, Got(p, o), record, <<>>)
<1>1. PICK out : out = Append(p.out, o)
  OBVIOUS
<1>2. PICK q : q = Got(p, o)
  OBVIOUS
<1>3. q = [p EXCEPT !.out = out, !.mode = "WAIT_FOR_DN", !.dn = Unset, !.data = <<>>, !.modifications = <<>>]
  BY <1>1, <1>2 DEF Got
<1>4. /\ IsParser(q) /\ q.mode = "WAIT_FOR_DN" /\ q.out = out /\ q.modifications = <<>>
      /\ q.delta = p.delta /\ q.lastLine = p.lastLine /\ q.lost = p.lost
  BY <1>3 DEF IsParser, Modes
<1>5. Within(q, <<>>)
  BY <1>4 DEF Within
<1> QED
  BY <1>1, <1>2, <1>4, <1>5 DEF Takes

LEMMA OneLine ==
    ASSUME NEW x
    PROVE  /\ Len(Append(<<>>, x)) = 1 /\ Append(<<>>, x) # <<>> /\ Append(<<>>, x)[1] = x
           /\ Head(Append(<<>>, x)) = x /\ Tail(Append(<<>>, x)) = <<>>
<1>1. <<>> \in Seq({x}) /\ x \in {x}
  OBVIOUS
<1>2. Append(<<>>, x) \in Seq({x}) /\ Len(Append(<<>>, x)) = 1 /\ Append(<<>>, x)[1] = x
  OBVIOUS
<1>3. Tail(Append(<<>>, x)) \in Seq({x}) /\ Len(Tail(Append(<<>>, x))) = 0
  BY <1>2
<1>4. Head(Append(<<>>, x)) = x
  BY <1>2
<1> QED
  BY <1>2, <1>3, <1>4, EmptySeq

LEMMA WaitForDN ==
    ASSUME NEW p, IsParser(p), NEW line \in Line, p.error = "", p.modifications = <<>>,
           NEW q, q = WAIT_FOR_DN([p EXCEPT !.mode = "WAIT_FOR_DN"], line), q.error = ""
    PROVE  Takes(p, q, <<>>, line)
<1>1. PICK r : r = [p EXCEPT !.mode = "WAIT_FOR_DN"]
  OBVIOUS
<1>2. /\ IsParser(r) /\ r.mode = "WAIT_FOR_DN" /\ r.delta = p.delta /\ r.lastLine = p.lastLine
      /\ r.lost = p.lost /\ r.out = p.out /\ r.modifications = <<>>
  BY <1>1 DEF IsParser, Modes
<1>3. CASE line = <<>>
  <2>1. q = r
    BY <1>1, <1>3 DEF WAIT_FOR_DN
  <2>2. Within(q, <<>>)
    BY <1>2, <2>1 DEF Within
  <2> QED
    BY <1>2, <1>3, <2>1, <2>2 DEF Takes
<1>4. CASE line # <<>>
  <2>1. PICK mode : mode = IF r.delta THEN "WAIT_FOR_CHANGETYPE" ELSE "IN_ENTRY"
    OBVIOUS
  <2>2. q = [r EXCEPT !.dn = Val(line), !.data = <<>>, !.mode = mode]
    <3>1. \A error : error # "" => q # Raise(r, error)
      BY <1>2, Raises
    <3> QED
      BY <1>1, <1>4, <2>1, <3>1 DEF WAIT_FOR_DN
  <2>3. /\ IsParser(q) /\ q.mode = mode /\ q.dn = Val(line) /\ q.data = <<>> /\ q.modifications = <<>>
        /\ q.out = p.out /\ q.delta = p.delta /\ q.lastLine = p.lastLine /\ q.lost = p.lost
    BY <1>2, <2>1, <2>2 DEF IsParser, Modes
  <2>4. PICK record : record = Append(<<>>, line)
    OBVIOUS
  <2>5. Len(record) = 1 /\ record # <<>> /\ record[1] = line /\ Tail(record) = <<>>
    BY <2>4, OneLine
  <2>6. Within(q, record)
    BY <1>2, <2>1, <2>3, <2>5, AttributesNot DEF Within, IsParser
  <2> QED
    BY <1>4, <2>1, <2>3, <2>4, <2>6 DEF Takes
<1> QED
  BY <1>3, <1>4

LEMMA PutDoes ==
    \A p, line : IsParser(p) =>
      /\ IsParser(Put(p, line)) /\ Put(p, line).data = Given(p.data, Key(line), Val(line))
      /\ Put(p, line).mode = p.mode /\ Put(p, line).dn = p.dn /\ Put(p, line).delta = p.delta
      /\ Put(p, line).lastLine = p.lastLine /\ Put(p, line).lost = p.lost
      /\ Put(p, line).out = p.out
<1> TAKE p, line
<1>1. PICK more : more = Given(p.data, Key(line), Val(line))
  OBVIOUS
<1>2. Put(p, line) = [p EXCEPT !.data = more]
  BY <1>1 DEF Put, Values, Given
<1> QED
  BY <1>1, <1>2 DEF IsParser

LEMMA InEntry ==
    ASSUME NEW p, IsParser(p), NEW record \in Seq(Line), Within(p, record), NEW line \in Line,
           p.mode = "IN_ENTRY", NEW q, q = IN_ENTRY(p, line), q.error = ""
    PROVE  Takes(p, q, record, line)
<1>1. record # <<>> /\ p.dn = Val(record[1]) /\ ~p.delta /\ p.data = Attributes(Tail(record))
  BY DEF Within
<1>2. CASE line = <<>>
  <2>1. <<"entry", p.dn, p.data>> = Meaning(record, p.delta)
    BY <1>1 DEF Meaning
  <2> QED
    BY <1>1, <1>2, <2>1, GotDoes DEF IN_ENTRY
<1>3. CASE line # <<>>
  <2>1. q = Put(p, line)
    <3>1. \A error : error # "" => q # Raise(p, error)
      BY Raises
    <3> QED
      BY <1>3, <3>1 DEF IN_ENTRY
  <2>2. /\ Append(record, line) # <<>> /\ Append(record, line)[1] = record[1]
        /\ Tail(record) \in Seq(Line) /\ Tail(Append(record, line)) = Append(Tail(record), line)
    BY <1>1, OneLineMore
  <2>3. /\ IsParser(q) /\ q.mode = p.mode /\ q.dn = p.dn /\ q.delta = p.delta
        /\ q.lastLine = p.lastLine /\ q.lost = p.lost /\ q.out = p.out
        /\ q.data = Given(p.data, Key(line), Val(line))
    <3>1. /\ IsParser(Put(p, line)) /\ Put(p, line).data = Given(p.data, Key(line), Val(line))
          /\ Put(p, line).mode = p.mode /\ Put(p, line).dn = p.dn /\ Put(p, line).delta = p.delta
          /\ Put(p, line).lastLine = p.lastLine /\ Put(p, line).lost = p.lost
          /\ Put(p, line).out = p.out
      BY PutDoes
    <3> QED
      BY <2>1, <3>1
  <2>4. q.data = Attributes(Tail(Append(record, line)))
    BY <1>1, <2>2, <2>3, AttributesFurther
  <2>5. Within(q, Append(record, line))
    BY <1>1, <2>2, <2>3, <2>4 DEF Within
  <2> QED
    BY <1>3, <2>3, <2>5 DEF Takes
<1> QED
  BY <1>2, <1>3
\* From the third element on.
LEMMA FromTheThird ==
    ASSUME NEW S, NEW s \in Seq(S), NEW x \in S
    PROVE  /\ Len(s) = 1 => Append(s, x)[2] = x /\ SubSeq(Append(s, x), 3, Len(Append(s, x))) = <<>>
           /\ Len(s) >= 2 =>
                /\ SubSeq(s, 3, Len(s)) \in Seq(S) /\ Append(s, x)[2] = s[2]
                /\ SubSeq(Append(s, x), 3, Len(Append(s, x))) = Append(SubSeq(s, 3, Len(s)), x)
<1> DEFINE n == Len(s)
           t == Append(s, x)
<1>1. /\ n \in Nat /\ Len(t) = n + 1 /\ t[n + 1] = x /\ s \in Seq(S) /\ t \in Seq(S)
      /\ \A i \in 1..n : t[i] = s[i] /\ s[i] \in S
      /\ \A i \in 1..n + 1 : t[i] \in S
  OBVIOUS
<1> HIDE DEF n, t
<1>2. ASSUME n = 1 PROVE t[2] = x /\ SubSeq(t, 3, Len(t)) = <<>>
  BY <1>1, <1>2, SubSeqEmpty
<1>3. ASSUME n >= 2
      PROVE  /\ SubSeq(s, 3, n) \in Seq(S) /\ t[2] = s[2]
             /\ SubSeq(t, 3, n + 1) = Append(SubSeq(s, 3, n), x)
  <2>1. /\ SubSeq(s, 3, n) \in Seq(S) /\ Len(SubSeq(s, 3, n)) = n - 2
        /\ \A i \in 1..n - 2 : SubSeq(s, 3, n)[i] = s[i + 2]
    <3>1. \A i \in 3..n : s[i] \in S
      BY <1>1
    <3>2. /\ SubSeq(s, 3, n) \in Seq(S) /\ Len(SubSeq(s, 3, n)) = IF 3 <= n THEN n - 3 + 1 ELSE 0
          /\ \A i \in 1..n - 3 + 1 : SubSeq(s, 3, n)[i] = s[3 + i - 1]
      BY <1>1, <3>1, SubSeqProperties
    <3>3. n - 3 + 1 = n - 2 /\ (~(3 <= n) => n - 2 = 0) /\ \A i \in 1..n - 2 : 3 + i - 1 = i + 2
      BY <1>1, <1>3
    <3> QED
      BY <3>2, <3>3
  <2>2. /\ SubSeq(t, 3, n + 1) \in Seq(S) /\ Len(SubSeq(t, 3, n + 1)) = n - 1
        /\ \A i \in 1..n - 1 : SubSeq(t, 3, n + 1)[i] = t[i + 2]
    <3>1. PICK m \in Int : m = n + 1
      BY <1>1
    <3>2. 3 \in Int /\ \A i \in 3..m : t[i] \in S
      BY <1>1, <3>1
    <3>3. /\ SubSeq(t, 3, m) \in Seq(S) /\ Len(SubSeq(t, 3, m)) = IF 3 <= m THEN m - 3 + 1 ELSE 0
          /\ \A i \in 1..m - 3 + 1 : SubSeq(t, 3, m)[i] = t[3 + i - 1]
      BY <3>2, SubSeqProperties
    <3>4. m - 3 + 1 = n - 1 /\ 3 <= m /\ \A i \in 1..n - 1 : 3 + i - 1 = i + 2
      BY <1>1, <1>3, <3>1
    <3> QED
      BY <3>1, <3>3, <3>4
  <2>3. PICK a \in Seq(S) : a = SubSeq(s, 3, n)
    BY <2>1
  <2>4. PICK b \in Seq(S) : b = SubSeq(t, 3, n + 1)
    BY <2>2
  <2>5. /\ Append(a, x) \in Seq(S) /\ Len(Append(a, x)) = n - 1 /\ Append(a, x)[n - 1] = x
        /\ \A i \in 1..n - 2 : Append(a, x)[i] = s[i + 2]
    <3>1. Len(a) = n - 2 /\ Len(a) + 1 = n - 1 /\ \A i \in 1..n - 2 : a[i] = s[i + 2]
      BY <1>1, <1>3, <2>1, <2>3
    <3>2. /\ Append(a, x) \in Seq(S) /\ Len(Append(a, x)) = Len(a) + 1 /\ Append(a, x)[Len(a) + 1] = x
          /\ \A i \in 1..Len(a) : Append(a, x)[i] = a[i]
      BY Longer
    <3> QED
      BY <3>1, <3>2
  <2>6. ASSUME NEW i \in 1..n - 1 PROVE b[i] = Append(a, x)[i]
    <3>1. CASE i = n - 1
      <4>1. i + 2 = n + 1
        BY <1>1, <1>3, <3>1
      <4> QED
        BY <1>1, <2>2, <2>4, <2>5, <3>1, <4>1
    <3>2. CASE i # n - 1
      <4>1. i \in 1..n - 2 /\ i + 2 \in 1..n
        BY <1>1, <1>3, <3>2
      <4> QED
        BY <1>1, <2>2, <2>4, <2>5, <4>1
    <3> QED
      BY <3>1, <3>2
  <2>7. b = Append(a, x)
    <3>1. PICK c \in Seq(S) : c = Append(a, x)
      BY <2>5
    <3>2. Len(b) = n - 1 /\ Len(c) = n - 1 /\ \A i \in 1..n - 1 : b[i] = c[i]
      BY <2>2, <2>4, <2>5, <2>6, <3>1
    <3>3. b = c
      BY <3>2
    <3> QED
      BY <3>1, <3>3
  <2> QED
    BY <1>1, <1>3, <2>1, <2>3, <2>4, <2>7
<1> QED
  BY <1>1, <1>2, <1>3 DEF n, t

LEMMA BodyFurther ==
    \A record \in Seq(Line), line \in Line :
      /\ Len(record) = 1 => /\ Append(record, line)[2] = line /\ Len(Append(record, line)) = 2
                            /\ Len(Append(record, line)) >= 2 /\ Body(Append(record, line)) = <<>>
      /\ Len(record) >= 2 =>
           /\ Body(record) \in Seq(Line) /\ Body(Append(record, line)) = Append(Body(record), line)
           /\ Append(record, line)[2] = record[2] /\ Len(Append(record, line)) >= 2
<1> TAKE record \in Seq(Line), line \in Line
<1>1. /\ Len(record) = 1 => Append(record, line)[2] = line /\ Body(Append(record, line)) = <<>>
      /\ Len(record) >= 2 =>
           /\ Body(record) \in Seq(Line) /\ Append(record, line)[2] = record[2]
           /\ Body(Append(record, line)) = Append(Body(record), line)
  BY FromTheThird DEF Body
<1>2. Len(record) \in Nat /\ Len(Append(record, line)) = Len(record) + 1
  BY Longer
<1>3. /\ Len(record) = 1 => Len(Append(record, line)) = 2 /\ Len(Append(record, line)) >= 2
      /\ Len(record) >= 2 => Len(Append(record, line)) >= 2
  <2>1. PICK n \in Nat : n = Len(record)
    BY <1>2
  <2>2. PICK m \in Nat : m = Len(Append(record, line)) /\ m = n + 1
    BY <1>2, <2>1
  <2> QED
    BY <2>1, <2>2
<1> QED
  BY <1>1, <1>3

LEMMA NoModifications ==
    Modifications(<<>>) = <<>> /\ Divided(<<>>, <<"-">>).rest = <<>>
<1>1. Divided(<<>>, <<"-">>) = [parts |-> <<>>, rest |-> <<>>]
  <2>1. Len(<<>>) = 0
    OBVIOUS
  <2> QED
    BY <2>1, DividedNot
<1>2. PICK parts : parts = Divided(<<>>, <<"-">>).parts
  OBVIOUS
<1>3. parts = <<>> /\ Divided(<<>>, <<"-">>).rest = <<>>
  BY <1>1, <1>2
<1>4. Modifications(<<>>) = [n \in DOMAIN parts |-> Modification(parts[n])]
  BY <1>2 DEF Modifications
<1>5. DOMAIN parts = {}
  BY <1>3
<1> QED
  BY <1>3, <1>4, <1>5

LEMMA Meanings ==
    \A record, delta :
      /\ ~delta => Meaning(record, delta) = <<"entry", Val(record[1]), Attributes(Tail(record))>>
      /\ delta /\ Val(record[2]) = <<"modify">> =>
           Meaning(record, delta) = <<"modify", Val(record[1]), Modifications(Body(record))>>
      /\ delta /\ Val(record[2]) = <<"add">> =>
           Meaning(record, delta) = <<"add", Val(record[1]), Attributes(Body(record))>>
      /\ delta /\ Val(record[2]) = <<"delete">> =>
           Meaning(record, delta) = <<"delete", Val(record[1])>>
<1>1. /\ <<"add">> # <<"modify">> /\ <<"delete">> # <<"modify">> /\ <<"delete">> # <<"add">>
  <2>1. <<"add">>[1] # <<"modify">>[1] /\ <<"delete">>[1] # <<"modify">>[1] /\ <<"delete">>[1] # <<"add">>[1]
    OBVIOUS
  <2> QED
    BY <2>1
<1> QED
  BY <1>1 DEF Meaning, Body

LEMMA WaitForChangetype ==
    ASSUME NEW p, IsParser(p), NEW record \in Seq(Line), Within(p, record), NEW line \in Line,
           p.mode = "WAIT_FOR_CHANGETYPE", NEW q, q = WAIT_FOR_CHANGETYPE(p, line), q.error = ""
    PROVE  Takes(p, q, record, line)
<1>1. /\ record # <<>> /\ p.dn = Val(record[1]) /\ p.delta /\ Len(record) = 1
      /\ p.data = <<>> /\ p.modifications = <<>>
  BY DEF Within
<1>2. PICK mode : mode = [type \in {<<"modify">>, <<"add">>, <<"delete">>} |->
                            IF type = <<"modify">> THEN "WAIT_FOR_MOD_SPEC"
                            ELSE IF type = <<"add">> THEN "IN_ADD_ENTRY" ELSE "IN_DELETE"]
  OBVIOUS
<1>3. \A error : error # "" => q # Raise(p, error)
  BY Raises
<1>4. /\ line # <<>> /\ Val(line) \in {<<"modify">>, <<"add">>, <<"delete">>}
      /\ q = [p EXCEPT !.mode = mode[Val(line)]]
  BY <1>2, <1>3 DEF WAIT_FOR_CHANGETYPE
<1>5. /\ mode[Val(line)] = "WAIT_FOR_MOD_SPEC" => Val(line) = <<"modify">>
      /\ mode[Val(line)] = "IN_ADD_ENTRY" => Val(line) = <<"add">>
      /\ mode[Val(line)] = "IN_DELETE" => Val(line) = <<"delete">>
      /\ mode[Val(line)] \in {"WAIT_FOR_MOD_SPEC", "IN_ADD_ENTRY", "IN_DELETE"}
  BY <1>2, <1>4
<1>6. /\ IsParser(q) /\ q.mode = mode[Val(line)] /\ q.dn = p.dn /\ q.data = <<>> /\ q.modifications = <<>>
      /\ q.out = p.out /\ q.delta = p.delta /\ q.lastLine = p.lastLine /\ q.lost = p.lost
  BY <1>1, <1>4, <1>5 DEF IsParser, Modes
<1>7. PICK more : more = Append(record, line)
  OBVIOUS
<1>8. more # <<>> /\ more[1] = record[1] /\ more[2] = line /\ Len(more) = 2 /\ Body(more) = <<>>
  BY <1>1, <1>7, OneLineMore, BodyFurther
<1>9. /\ Attributes(Body(more)) = <<>>
      /\ Divided(Body(more), <<"-">>).rest = <<>> /\ Modifications(Body(more)) = <<>>
  BY <1>8, NoModifications, AttributesNot
<1>10. /\ q.dn = Val(more[1]) /\ q.delta /\ q.modifications = Modifications(Body(more))
       /\ q.data = Attributes(Body(more)) /\ Len(more) >= 2 /\ Val(more[2]) = Val(line)
  <2>1. q.dn = Val(more[1])
    BY <1>1, <1>6, <1>8
  <2>2. q.delta
    BY <1>1, <1>6
  <2>3. q.modifications = Modifications(Body(more)) /\ q.data = Attributes(Body(more))
    BY <1>1, <1>6, <1>9
  <2>4. Len(more) >= 2
    BY <1>1, <1>7, BodyFurther
  <2>5. Val(more[2]) = Val(line)
    BY <1>8
  <2> QED
    BY <2>1, <2>2, <2>3, <2>4, <2>5
<1>11. Within(q, more)
  <2>1. CASE q.mode = "WAIT_FOR_MOD_SPEC"
    <3>1. Divided(Body(more), <<"-">>).rest = <<>> /\ Val(more[2]) = <<"modify">>
      BY <1>5, <1>6, <1>9, <1>10, <2>1
    <3> QED
      BY <1>8, <1>10, <2>1, <3>1 DEF Within
  <2>2. CASE q.mode = "IN_ADD_ENTRY"
    BY <1>5, <1>6, <1>8, <1>10, <2>2 DEF Within
  <2>3. CASE q.mode = "IN_DELETE"
    BY <1>5, <1>6, <1>8, <1>10, <2>3 DEF Within
  <2> QED
    BY <1>5, <1>6, <2>1, <2>2, <2>3
<1> QED
  BY <1>4, <1>5, <1>6, <1>7, <1>11 DEF Takes

LEMMA InAddEntry ==
    ASSUME NEW p, IsParser(p), NEW record \in Seq(Line), Within(p, record), NEW line \in Line,
           p.mode = "IN_ADD_ENTRY", NEW q, q = IN_ADD_ENTRY(p, line), q.error = ""
    PROVE  Takes(p, q, record, line)
<1>1. /\ record # <<>> /\ p.dn = Val(record[1]) /\ p.delta /\ Len(record) >= 2
      /\ Val(record[2]) = <<"add">> /\ p.data = Attributes(Body(record))
  BY DEF Within
<1>2. \A error : error # "" => q # Raise(p, error)
  BY Raises
<1>3. CASE line = <<>>
  <2>1. <<"add", p.dn, p.data>> = Meaning(record, p.delta)
    BY <1>1, Meanings
  <2>2. q = Got(p, <<"add", p.dn, p.data>>)
    BY <1>2, <1>3 DEF IN_ADD_ENTRY
  <2> QED
    BY <1>1, <1>3, <2>1, <2>2, GotDoes
<1>4. CASE line # <<>>
  <2>1. q = Put(p, line)
    BY <1>2, <1>4 DEF IN_ADD_ENTRY
  <2>2. PICK more : more = Append(record, line)
    OBVIOUS
  <2>3. /\ more # <<>> /\ more[1] = record[1] /\ more[2] = record[2] /\ Len(more) >= 2
        /\ Body(record) \in Seq(Line) /\ Body(more) = Append(Body(record), line)
    BY <1>1, <2>2, OneLineMore, BodyFurther
  <2>4. /\ IsParser(q) /\ q.mode = p.mode /\ q.dn = p.dn /\ q.delta = p.delta
        /\ q.lastLine = p.lastLine /\ q.lost = p.lost /\ q.out = p.out
        /\ q.data = Given(p.data, Key(line), Val(line))
    <3>1. /\ IsParser(Put(p, line)) /\ Put(p, line).data = Given(p.data, Key(line), Val(line))
          /\ Put(p, line).mode = p.mode /\ Put(p, line).dn = p.dn /\ Put(p, line).delta = p.delta
          /\ Put(p, line).lastLine = p.lastLine /\ Put(p, line).lost = p.lost
          /\ Put(p, line).out = p.out
      BY PutDoes
    <3> QED
      BY <2>1, <3>1
  <2>5. q.data = Attributes(Body(more))
    BY <1>1, <2>3, <2>4, AttributesFurther
  <2>6. Within(q, more)
    BY <1>1, <2>3, <2>4, <2>5 DEF Within
  <2> QED
    BY <1>4, <2>2, <2>4, <2>6 DEF Takes
<1> QED
  BY <1>3, <1>4

LEMMA InDelete ==
    ASSUME NEW p, IsParser(p), NEW record \in Seq(Line), Within(p, record), NEW line \in Line,
           p.mode = "IN_DELETE", NEW q, q = IN_DELETE(p, line), q.error = ""
    PROVE  Takes(p, q, record, line)
<1>1. record # <<>> /\ p.dn = Val(record[1]) /\ p.delta /\ Val(record[2]) = <<"delete">>
  BY DEF Within
<1>2. line = <<>> /\ q = Got(p, <<"delete", p.dn>>)
  <2>1. \A error : error # "" => q # Raise(p, error)
    BY Raises
  <2> QED
    BY <2>1 DEF IN_DELETE
<1>3. <<"delete", p.dn>> = Meaning(record, p.delta)
  BY <1>1, Meanings
<1> QED
  BY <1>1, <1>2, <1>3, GotDoes

\* What is made of each of some parts, with one part more.
Maps(f, s) == f = [i \in DOMAIN s |-> f[i]]

LEMMA OneMorePart ==
    \A s \in Seq(Seq(Line)), x \in Seq(Line) : \A f, g, value :
      /\ Maps(f, s) /\ Maps(g, Append(s, x))
      /\ (\A i \in DOMAIN s : g[i] = f[i]) /\ g[Len(s) + 1] = value
      => g = Append(f, value)
<1> TAKE s \in Seq(Seq(Line)), x \in Seq(Line)
<1> TAKE f, g, value
<1> HAVE /\ Maps(f, s) /\ Maps(g, Append(s, x))
         /\ (\A i \in DOMAIN s : g[i] = f[i]) /\ g[Len(s) + 1] = value
<1> DEFINE n == Len(s)
<1>1. n \in Nat /\ DOMAIN s = 1..n /\ DOMAIN Append(s, x) = 1..n + 1
  BY Longer
<1> HIDE DEF n
<1>2. Append(f, value) = [i \in 1..n + 1 |-> IF i = n + 1 THEN value ELSE f[i]]
  BY <1>1, Extended DEF Maps
<1>3. ASSUME NEW i \in 1..n + 1 PROVE g[i] = IF i = n + 1 THEN value ELSE f[i]
  <2>1. i # n + 1 => i \in 1..n
    BY <1>1
  <2> QED
    BY <1>1, <2>1 DEF n
<1> QED
  BY <1>1, <1>2, <1>3 DEF Maps

LEMMA ModificationsFurther ==
    ASSUME NEW lines \in Seq(Line), NEW line \in Line, NEW rest, rest = Divided(lines, <<"-">>).rest
    PROVE  /\ rest \in Seq(Line)
           /\ line # <<"-">> =>
                /\ Divided(Append(lines, line), <<"-">>).rest = Append(rest, line)
                /\ Modifications(Append(lines, line)) = Modifications(lines)
           /\ line = <<"-">> /\ rest # <<>> =>
                /\ Divided(Append(lines, line), <<"-">>).rest = <<>>
                /\ Modifications(Append(lines, line)) = Append(Modifications(lines), Modification(rest))
<1>1. PICK division \in Divisions : division = Divided(lines, <<"-">>)
  BY DividedLines
<1>2. PICK more : more = Divided(Append(lines, line), <<"-">>)
  OBVIOUS
<1>3. PICK end : end = <<"-">>
  OBVIOUS
<1>4. more = Divide(division, line, end)
  BY <1>1, <1>2, <1>3, DividedFurther
<1>5. /\ Modifications(lines) = [n \in DOMAIN division.parts |-> Modification(division.parts[n])]
      /\ Modifications(Append(lines, line)) = [n \in DOMAIN more.parts |-> Modification(more.parts[n])]
  BY <1>1, <1>2 DEF Modifications
<1>6. rest = division.rest /\ rest \in Seq(Line) /\ division.parts \in Seq(Seq(Line))
  BY <1>1 DEF Divisions
<1>7. ASSUME line # end
      PROVE  more.rest = Append(rest, line) /\ more.parts = division.parts
  BY <1>4, <1>6, <1>7 DEF Divide, Divisions
<1>8. ASSUME line = end, rest # <<>>
      PROVE  more.rest = <<>> /\ more.parts = Append(division.parts, rest)
  BY <1>4, <1>6, <1>8 DEF Divide
<1>9. ASSUME line = end, rest # <<>>
      PROVE  Modifications(Append(lines, line)) = Append(Modifications(lines), Modification(rest))
  <2>1. PICK parts \in Seq(Seq(Line)) : parts = division.parts
    BY <1>6
  <2>2. PICK f : f = Modifications(lines)
    OBVIOUS
  <2>3. PICK g : g = Modifications(Append(lines, line))
    OBVIOUS
  <2>4. /\ f = [n \in DOMAIN parts |-> Modification(parts[n])]
        /\ g = [n \in DOMAIN Append(parts, rest) |-> Modification(Append(parts, rest)[n])]
    BY <1>5, <1>8, <1>9, <2>1, <2>2, <2>3
  <2>5. /\ DOMAIN parts = 1..Len(parts) /\ DOMAIN Append(parts, rest) = 1..Len(parts) + 1 /\ Len(parts) \in Nat
        /\ Append(parts, rest)[Len(parts) + 1] = rest
        /\ \A i \in 1..Len(parts) : Append(parts, rest)[i] = parts[i]
    BY <1>6, Longer
  <2>6. (\A i \in DOMAIN parts : g[i] = f[i]) /\ g[Len(parts) + 1] = Modification(rest)
    BY <2>4, <2>5
  <2>7. Maps(f, parts) /\ Maps(g, Append(parts, rest))
    BY <2>4 DEF Maps
  <2>8. g = Append(f, Modification(rest))
    <3>1. PICK value : value = Modification(rest)
      OBVIOUS
    <3>2. (\A i \in DOMAIN parts : g[i] = f[i]) /\ g[Len(parts) + 1] = value
      BY <2>6, <3>1
    <3>3. g = Append(f, value)
      BY <1>6, <2>7, <3>2, OneMorePart
    <3> QED
      BY <3>1, <3>3
  <2> QED
    BY <2>2, <2>3, <2>8
<1> QED
  BY <1>2, <1>3, <1>5, <1>6, <1>7, <1>8, <1>9

\* A modification, line by line.
LEMMA ModificationFurther ==
    /\ \A line : Modification(Append(<<>>, line)) = <<Key(line), Val(line), <<>>>>
    /\ \A part \in Seq(Line), line \in Line :
         part # <<>> =>
           Modification(Append(part, line))
             = [Modification(part) EXCEPT ![3] = Append(Modification(part)[3], Val(line))]
<1>1. ASSUME NEW line PROVE Modification(Append(<<>>, line)) = <<Key(line), Val(line), <<>>>>
  <2>1. PICK part : part = Append(<<>>, line)
    OBVIOUS
  <2>2. part[1] = line /\ Tail(part) = <<>>
    BY <2>1, OneLine
  <2>3. Head(part) = line
    BY <2>2
  <2>4. [i \in DOMAIN Tail(part) |-> Val(Tail(part)[i])] = <<>>
    BY <2>2
  <2> QED
    BY <2>1, <2>3, <2>4 DEF Modification
<1>2. ASSUME NEW part \in Seq(Line), NEW line \in Line, part # <<>>
      PROVE  Modification(Append(part, line))
               = [Modification(part) EXCEPT ![3] = Append(Modification(part)[3], Val(line))]
  <2>1. PICK more : more = Append(part, line)
    OBVIOUS
  <2>2. more[1] = part[1] /\ Tail(part) \in Seq(Line) /\ Tail(more) = Append(Tail(part), line)
    BY <1>2, <2>1, OneLineMore
  <2>3. Head(more) = Head(part)
    BY <2>2
  <2>4. PICK its : its = ValuesIn(Tail(part))
    OBVIOUS
  <2>5. ValuesIn(Tail(more)) = Append(its, Val(line))
    BY <2>2, <2>4, ValuesFurther
  <2>6. Modification(part) = <<Key(Head(part)), Val(Head(part)), its>>
    BY <2>4 DEF Modification, ValuesIn
  <2>7. Modification(more) = <<Key(Head(part)), Val(Head(part)), Append(its, Val(line))>>
    BY <2>3, <2>5 DEF Modification, ValuesIn
  <2> QED
    BY <2>1, <2>6, <2>7
<1> QED
  BY <1>1, <1>2

LEMMA NoDash == \A line : HasColon(line) => line # <<"-">> /\ line # <<>>
<1>1. ASSUME NEW line, HasColon(line), line = <<"-">> PROVE FALSE
  <2>1. PICK i \in DOMAIN line : line[i] = ":"
    BY <1>1 DEF HasColon
  <2>2. i = 1 /\ line[1] = "-"
    BY <1>1
  <2> QED
    BY <2>1, <2>2
<1>2. ASSUME NEW line, HasColon(line), line = <<>> PROVE FALSE
  BY <1>2 DEF HasColon
<1> QED
  BY <1>1, <1>2

LEMMA WaitForModSpec ==
    ASSUME NEW p, IsParser(p), NEW record \in Seq(Line), Within(p, record), NEW line \in Line,
           p.mode = "WAIT_FOR_MOD_SPEC", NEW q, q = WAIT_FOR_MOD_SPEC(p, line), q.error = ""
    PROVE  Takes(p, q, record, line)
<1>1. /\ record # <<>> /\ p.dn = Val(record[1]) /\ p.delta /\ Len(record) >= 2
      /\ Val(record[2]) = <<"modify">> /\ p.modifications = Modifications(Body(record))
      /\ Divided(Body(record), <<"-">>).rest = <<>>
  BY DEF Within
<1>2. \A error : error # "" => q # Raise(p, error)
  BY Raises
<1>3. CASE line = <<>>
  <2>1. <<"modify", p.dn, p.modifications>> = Meaning(record, p.delta)
    BY <1>1, Meanings
  <2>2. q = Got(p, <<"modify", p.dn, p.modifications>>)
    BY <1>3 DEF WAIT_FOR_MOD_SPEC
  <2> QED
    BY <1>1, <1>3, <2>1, <2>2, GotDoes
<1>4. CASE line # <<>>
  <2>1. PICK spec : spec = <<Key(line), Val(line), <<>>>>
    OBVIOUS
  <2>2. HasColon(line) /\ q = [p EXCEPT !.mode = "IN_MOD_SPEC", !.spec = spec]
    BY <1>2, <1>4, <2>1 DEF WAIT_FOR_MOD_SPEC
  <2>3. PICK more : more = Append(record, line)
    OBVIOUS
  <2>4. /\ more # <<>> /\ more[1] = record[1] /\ more[2] = record[2] /\ Len(more) >= 2
        /\ Body(record) \in Seq(Line) /\ Body(more) = Append(Body(record), line)
    BY <1>1, <2>3, OneLineMore, BodyFurther
  <2>5. /\ IsParser(q) /\ q.mode = "IN_MOD_SPEC" /\ q.dn = p.dn /\ q.delta = p.delta
        /\ q.lastLine = p.lastLine /\ q.lost = p.lost /\ q.out = p.out /\ q.spec = spec
        /\ q.modifications = p.modifications
    BY <2>2 DEF IsParser, Modes
  <2>6. /\ Divided(Body(more), <<"-">>).rest = Append(<<>>, line)
        /\ Modifications(Body(more)) = Modifications(Body(record))
    <3>1. PICK body \in Seq(Line) : body = Body(record)
      BY <2>4
    <3>2. PICK rest : rest = Divided(body, <<"-">>).rest /\ rest = <<>>
      BY <1>1, <3>1
    <3>3. line # <<"-">>
      BY <2>2, NoDash
    <3>4. /\ Divided(Append(body, line), <<"-">>).rest = Append(rest, line)
          /\ Modifications(Append(body, line)) = Modifications(body)
      BY <3>2, <3>3, ModificationsFurther
    <3> QED
      BY <2>4, <3>1, <3>2, <3>4
  <2>7. Append(<<>>, line) # <<>> /\ spec = Modification(Append(<<>>, line))
    BY <2>1, OneLine, ModificationFurther
  <2>8. PICK modification : modification = Divided(Body(more), <<"-">>).rest
    OBVIOUS
  <2>9. modification # <<>> /\ q.spec = Modification(modification)
    BY <2>5, <2>6, <2>7, <2>8
  <2>10. Within(q, more)
    BY <1>1, <2>4, <2>5, <2>6, <2>8, <2>9 DEF Within
  <2> QED
    BY <1>4, <2>3, <2>5, <2>10 DEF Takes
<1> QED
  BY <1>3, <1>4

LEMMA InModSpec ==
    ASSUME NEW p, IsParser(p), NEW record \in Seq(Line), Within(p, record), NEW line \in Line,
           p.mode = "IN_MOD_SPEC", NEW q, q = IN_MOD_SPEC(p, line), q.error = ""
    PROVE  Takes(p, q, record, line)
<1>1. PICK part : part = Divided(Body(record), <<"-">>).rest
  OBVIOUS
<1>2. /\ record # <<>> /\ p.dn = Val(record[1]) /\ p.delta /\ Len(record) >= 2
      /\ Val(record[2]) = <<"modify">> /\ p.modifications = Modifications(Body(record))
      /\ part # <<>> /\ p.spec = Modification(part)
  BY <1>1 DEF Within
<1>3. \A error : error # "" => q # Raise(p, error)
  BY Raises
<1>4. line # <<>>
  BY <1>3 DEF IN_MOD_SPEC
<1>5. PICK more : more = Append(record, line)
  OBVIOUS
<1>6. /\ more # <<>> /\ more[1] = record[1] /\ more[2] = record[2] /\ Len(more) >= 2
      /\ Body(record) \in Seq(Line) /\ Body(more) = Append(Body(record), line)
  BY <1>2, <1>5, OneLineMore, BodyFurther
<1>7. PICK modification : modification = Divided(Body(more), <<"-">>).rest
  OBVIOUS
<1>8. CASE line = <<"-">>
  <2>1. PICK all : all = Append(p.modifications, p.spec)
    OBVIOUS
  <2>2. q = [p EXCEPT !.modifications = all, !.spec = Unset, !.mode = "WAIT_FOR_MOD_SPEC"]
    BY <1>4, <1>8, <2>1 DEF IN_MOD_SPEC
  <2>3. /\ IsParser(q) /\ q.mode = "WAIT_FOR_MOD_SPEC" /\ q.dn = p.dn /\ q.delta = p.delta
        /\ q.lastLine = p.lastLine /\ q.lost = p.lost /\ q.out = p.out /\ q.modifications = all
    BY <2>2 DEF IsParser, Modes
  <2>4. modification = <<>> /\ Modifications(Body(more)) = all
    <3>1. PICK body \in Seq(Line) : body = Body(record)
      BY <1>6
    <3>2. part = Divided(body, <<"-">>).rest
      BY <1>1, <3>1
    <3>3. /\ Divided(Append(body, line), <<"-">>).rest = <<>>
          /\ Modifications(Append(body, line)) = Append(Modifications(body), Modification(part))
      BY <1>2, <1>8, <3>2, ModificationsFurther, ZenonT(60)
    <3> QED
      BY <1>2, <1>6, <1>7, <2>1, <3>1, <3>3
  <2>5. Within(q, more)
    BY <1>2, <1>6, <1>7, <2>3, <2>4 DEF Within
  <2> QED
    BY <1>4, <1>5, <2>3, <2>5 DEF Takes
<1>9. CASE line # <<"-">>
  <2>1. PICK spec : spec = [p.spec EXCEPT ![3] = Append(p.spec[3], Val(line))]
    OBVIOUS
  <2>2. q = [p EXCEPT !.spec = spec]
    BY <1>3, <1>4, <1>9, <2>1 DEF IN_MOD_SPEC
  <2>3. /\ IsParser(q) /\ q.mode = "IN_MOD_SPEC" /\ q.dn = p.dn /\ q.delta = p.delta
        /\ q.lastLine = p.lastLine /\ q.lost = p.lost /\ q.out = p.out /\ q.spec = spec
        /\ q.modifications = p.modifications
    BY <2>2 DEF IsParser, Modes
  <2>4. /\ part \in Seq(Line) /\ modification = Append(part, line)
        /\ Modifications(Body(more)) = Modifications(Body(record))
    <3>1. PICK body \in Seq(Line) : body = Body(record)
      BY <1>6
    <3>2. part = Divided(body, <<"-">>).rest
      BY <1>1, <3>1
    <3>3. /\ part \in Seq(Line)
          /\ Divided(Append(body, line), <<"-">>).rest = Append(part, line)
          /\ Modifications(Append(body, line)) = Modifications(body)
      BY <1>9, <3>2, ModificationsFurther
    <3> QED
      BY <1>6, <1>7, <3>1, <3>3
  <2>5. modification # <<>> /\ spec = Modification(modification)
    BY <1>2, <2>1, <2>4, OneLineMore, ModificationFurther
  <2>6. Within(q, more)
    BY <1>2, <1>6, <1>7, <2>3, <2>4, <2>5 DEF Within
  <2> QED
    BY <1>4, <1>5, <2>3, <2>6 DEF Takes
<1> QED
  BY <1>8, <1>9

\* A line that is not a comment is taken by the record it comes to.
LEMMA LineTaken ==
    ASSUME NEW p, IsParser(p), p.error = "", p.mode # "HEADER",
           NEW record \in Seq(Line), Within(p, record), NEW line \in Line, ~Comment(line),
           NEW q, q = LogicalLineReceived(p, line), q.error = ""
    PROVE  Takes(p, q, record, line)
<1>1. p.mode \in Modes
  BY DEF IsParser
<1>2. ~(line # <<>> /\ Head(line) = "#")
  BY DEF Comment
<1>3. CASE p.mode = "WAIT_FOR_DN"
  <2>1. PICK r : r = [p EXCEPT !.mode = "WAIT_FOR_DN"]
    OBVIOUS
  <2>2. r = p
    BY <1>3, <2>1 DEF IsParser
  <2>3. q = WAIT_FOR_DN(r, line)
    BY <1>2, <1>3, <2>2 DEF LogicalLineReceived
  <2>4. record = <<>> /\ p.modifications = <<>>
    BY <1>3 DEF Within
  <2> QED
    BY <2>1, <2>3, <2>4, WaitForDN
<1>4. CASE p.mode = "IN_ENTRY"
  <2>1. q = IN_ENTRY(p, line)
    BY <1>2, <1>4 DEF LogicalLineReceived
  <2> QED
    BY <1>4, <2>1, InEntry
<1>5. CASE p.mode = "WAIT_FOR_CHANGETYPE"
  <2>1. q = WAIT_FOR_CHANGETYPE(p, line)
    BY <1>2, <1>5 DEF LogicalLineReceived
  <2> QED
    BY <1>5, <2>1, WaitForChangetype
<1>6. CASE p.mode = "WAIT_FOR_MOD_SPEC"
  <2>1. q = WAIT_FOR_MOD_SPEC(p, line)
    BY <1>2, <1>6 DEF LogicalLineReceived
  <2> QED
    BY <1>6, <2>1, WaitForModSpec
<1>7. CASE p.mode = "IN_MOD_SPEC"
  <2>1. q = IN_MOD_SPEC(p, line)
    BY <1>2, <1>7 DEF LogicalLineReceived
  <2> QED
    BY <1>7, <2>1, InModSpec
<1>8. CASE p.mode = "IN_ADD_ENTRY"
  <2>1. q = IN_ADD_ENTRY(p, line)
    BY <1>2, <1>8 DEF LogicalLineReceived
  <2> QED
    BY <1>8, <2>1, InAddEntry
<1>9. CASE p.mode = "IN_DELETE"
  <2>1. q = IN_DELETE(p, line)
    BY <1>2, <1>9 DEF LogicalLineReceived
  <2> QED
    BY <1>9, <2>1, InDelete
<1> QED
  BY <1>1, <1>3, <1>4, <1>5, <1>6, <1>7, <1>8, <1>9 DEF Modes

\* A version is the first of the lines or none.
LEMMA UnversionedFurther ==
    ASSUME NEW lines \in Seq(Line), NEW line \in Line, lines # <<>>
    PROVE  /\ Unversioned(lines) \in Seq(Line)
           /\ Unversioned(Append(lines, line)) = Append(Unversioned(lines), line)
<1>1. PICK more : more = Append(lines, line)
  OBVIOUS
<1>2. /\ more # <<>> /\ more[1] = lines[1] /\ Tail(lines) \in Seq(Line)
      /\ Tail(more) = Append(Tail(lines), line)
  BY <1>1, OneLineMore
<1>3. Head(more) = Head(lines)
  BY <1>2
<1> QED
  BY <1>1, <1>2, <1>3 DEF Unversioned

\* What the records that have ended mean.
MeaningsOf(parts, delta) == [i \in DOMAIN parts |-> Meaning(parts[i], delta)]

LEMMA Nothing ==
    /\ <<>> \in Seq(Line) /\ DOMAIN <<>> = {}
    /\ \A delta : MeaningsOf(<<>>, delta) = <<>>
    /\ Divided(<<>>, <<>>).parts = <<>> /\ Divided(<<>>, <<>>).rest = <<>>
<1>1. <<>> \in Seq(Line) /\ DOMAIN <<>> = {} /\ Len(<<>>) = 0
  OBVIOUS
<1>2. PICK none : none = <<>> /\ DOMAIN none = {}
  BY <1>1
<1>3. ASSUME NEW delta PROVE MeaningsOf(none, delta) = none
  <2>1. MeaningsOf(none, delta) = [i \in {} |-> {}]
    BY <1>2 DEF MeaningsOf
  <2> QED
    BY <1>2, <2>1
<1>4. Divided(<<>>, <<>>) = [parts |-> <<>>, rest |-> <<>>]
  BY <1>1, DividedNot
<1>5. Divided(<<>>, <<>>).parts = <<>> /\ Divided(<<>>, <<>>).rest = <<>>
  BY <1>4
<1> QED
  BY <1>1, <1>2, <1>3, <1>5

\* How the records are divided further by a line.
Further(division, more, line, delta) ==
    /\ division.rest \in Seq(Line)
    /\ more.rest = IF line = <<>> THEN <<>> ELSE Append(division.rest, line)
    /\ MeaningsOf(more.parts, delta)
         = IF line = <<>> /\ division.rest # <<>>
           THEN Append(MeaningsOf(division.parts, delta), Meaning(division.rest, delta))
           ELSE MeaningsOf(division.parts, delta)

LEMMA RecordsFurther ==
    \A lines \in Seq(Line), line \in Line : \A delta :
      Further(Divided(lines, <<>>), Divided(Append(lines, line), <<>>), line, delta)
<1> TAKE lines \in Seq(Line), line \in Line
<1> TAKE delta
<1> DEFINE division == Divided(lines, <<>>)
           more == Divided(Append(lines, line), <<>>)
<1>1. division \in Divisions /\ more = Divide(division, line, <<>>)
  BY DividedLines, DividedFurther
<1> HIDE DEF division, more
<1>2. PICK parts \in Seq(Seq(Line)), rest \in Seq(Line) : parts = division.parts /\ rest = division.rest
  BY <1>1 DEF Divisions
<1>3. ASSUME line # <<>> PROVE more.rest = Append(rest, line) /\ more.parts = parts
  BY <1>1, <1>2, <1>3 DEF Divide, Divisions
<1>4. ASSUME line = <<>>, rest = <<>> PROVE more.rest = <<>> /\ more.parts = parts
  BY <1>1, <1>2, <1>4 DEF Divide
<1>5. ASSUME line = <<>>, rest # <<>> PROVE more.rest = <<>> /\ more.parts = Append(parts, rest)
  BY <1>1, <1>2, <1>5 DEF Divide
<1>6. MeaningsOf(Append(parts, rest), delta) = Append(MeaningsOf(parts, delta), Meaning(rest, delta))
  <2>1. PICK f : f = MeaningsOf(parts, delta)
    OBVIOUS
  <2>2. PICK g : g = MeaningsOf(Append(parts, rest), delta)
    OBVIOUS
  <2>3. PICK value : value = Meaning(rest, delta)
    OBVIOUS
  <2>4. /\ DOMAIN parts = 1..Len(parts) /\ DOMAIN Append(parts, rest) = 1..Len(parts) + 1 /\ Len(parts) \in Nat
        /\ Append(parts, rest)[Len(parts) + 1] = rest
        /\ \A i \in 1..Len(parts) : Append(parts, rest)[i] = parts[i]
    BY Longer
  <2>5. (\A i \in DOMAIN parts : g[i] = f[i]) /\ g[Len(parts) + 1] = value
    BY <2>1, <2>2, <2>3, <2>4 DEF MeaningsOf
  <2>6. Maps(f, parts) /\ Maps(g, Append(parts, rest))
    BY <2>1, <2>2 DEF Maps, MeaningsOf
  <2>7. g = Append(f, value)
    BY <2>5, <2>6, OneMorePart
  <2> QED
    BY <2>1, <2>2, <2>3, <2>7
<1> QED
  BY <1>2, <1>3, <1>4, <1>5, <1>6 DEF Further, division, more

\* What is made depends on what has been acted on alone.
LEMMA MadeAlike ==
    ASSUME NEW p, NEW q, NEW acted, MadeOf(p, acted),
           q.mode = p.mode, q.dn = p.dn, q.data = p.data, q.modifications = p.modifications,
           q.spec = p.spec, q.delta = p.delta, q.out = p.out
    PROVE  MadeOf(q, acted)
<1>1. ASSUME NEW record, Within(p, record) PROVE Within(q, record)
  BY <1>1 DEF Within
<1> QED
  BY <1>1 DEF MadeOf

\* What a line makes of a parser.
Does(p, q, acted, line) ==
    /\ IsParser(q) /\ MadeOf(q, Append(acted, line))
    /\ q.delta = p.delta /\ q.lastLine = p.lastLine /\ q.lost = p.lost

LEMMA CommentDoes ==
    ASSUME NEW p, IsParser(p), NEW acted \in Seq(Line), MadeOf(p, acted), NEW line \in Line, Comment(line)
    PROVE  LogicalLineReceived(p, line) = p /\ Does(p, p, acted, line)
<1>1. LogicalLineReceived(p, line) = p
  BY DEF Comment, LogicalLineReceived
<1>2. Uncommented(Append(acted, line)) = Uncommented(acted)
  BY UncommentedFurther
<1>3. MadeOf(p, Append(acted, line))
  BY <1>2 DEF MadeOf
<1> QED
  BY <1>1, <1>3 DEF Does

LEMMA RecordLineDoes ==
    ASSUME NEW p, IsParser(p), p.error = "", p.mode # "HEADER", NEW acted \in Seq(Line), MadeOf(p, acted),
           NEW line \in Line, ~Comment(line), NEW q, q = LogicalLineReceived(p, line), q.error = ""
    PROVE  Does(p, q, acted, line)
<1>1. PICK kept \in Seq(Line) : kept = Uncommented(acted)
  BY UncommentedFurther
<1>2. Uncommented(Append(acted, line)) = Append(kept, line)
  BY <1>1, UncommentedFurther
<1>3. kept # <<>>
  BY <1>1 DEF MadeOf
<1>4. PICK lines \in Seq(Line) : lines = Unversioned(kept) /\ Unversioned(Append(kept, line)) = Append(lines, line)
  BY <1>3, UnversionedFurther
<1>5. PICK division : division = Divided(lines, <<>>)
  OBVIOUS
<1>6. PICK more : more = Divided(Append(lines, line), <<>>)
  OBVIOUS
<1>7. p.out = MeaningsOf(division.parts, p.delta) /\ Within(p, division.rest)
  BY <1>1, <1>4, <1>5 DEF MadeOf, MeaningsOf
<1>8. Further(division, more, line, p.delta)
  BY <1>4, <1>5, <1>6, RecordsFurther
<1>9. PICK rest \in Seq(Line) :
        /\ rest = division.rest /\ more.rest = IF line = <<>> THEN <<>> ELSE Append(rest, line)
        /\ MeaningsOf(more.parts, p.delta)
             = IF line = <<>> /\ rest # <<>> THEN Append(p.out, Meaning(rest, p.delta)) ELSE p.out
  BY <1>7, <1>8 DEF Further
<1>10. Takes(p, q, rest, line)
  BY <1>7, <1>9, LineTaken
<1>11. /\ IsParser(q) /\ q.mode # "HEADER" /\ q.delta = p.delta /\ q.lastLine = p.lastLine /\ q.lost = p.lost
       /\ q.out = MeaningsOf(more.parts, q.delta) /\ Within(q, more.rest)
  BY <1>9, <1>10 DEF Takes
<1>12. Append(kept, line) # <<>>
  BY OneLineMore
<1>13. MadeOf(q, Append(acted, line))
  <2>1. PICK all : all = Append(acted, line)
    OBVIOUS
  <2>2. Uncommented(all) # <<>> /\ more = Divided(Unversioned(Uncommented(all)), <<>>)
    BY <1>2, <1>4, <1>6, <1>12, <2>1
  <2>3. MadeOf(q, all)
    BY <1>11, <2>2 DEF MadeOf, MeaningsOf
  <2> QED
    BY <2>1, <2>3
<1> QED
  BY <1>11, <1>13 DEF Does

LEMMA HeaderDoes ==
    ASSUME NEW p, IsParser(p), p.error = "", p.mode = "HEADER", NEW acted \in Seq(Line), MadeOf(p, acted),
           NEW line \in Line, ~Comment(line), NEW q, q = LogicalLineReceived(p, line), q.error = ""
    PROVE  Does(p, q, acted, line)
<1>1. /\ Uncommented(acted) = <<>> /\ p.out = <<>> /\ p.modifications = <<>>
  BY DEF MadeOf
<1>2. q = HEADER(p, line)
  BY DEF Comment, LogicalLineReceived
<1>3. PICK kept : kept = Append(<<>>, line)
  OBVIOUS
<1>4. Uncommented(Append(acted, line)) = kept
  BY <1>1, <1>3, UncommentedFurther
<1>5. /\ kept # <<>> /\ Len(kept) = 1 /\ kept[1] = line /\ Tail(kept) = <<>>
  BY <1>3, OneLine
<1>6. Head(kept) = line
  BY <1>3, OneLine
<1>7. \A error : error # "" => q # Raise(p, error)
  BY Raises
<1>8. PICK r : r = [p EXCEPT !.mode = "WAIT_FOR_DN"]
  OBVIOUS
<1>9. /\ IsParser(r) /\ r.mode = "WAIT_FOR_DN" /\ r.modifications = <<>> /\ r.out = <<>>
      /\ r.delta = p.delta /\ r.lastLine = p.lastLine /\ r.lost = p.lost
  BY <1>1, <1>8 DEF IsParser, Modes
<1>10. \A error : error # "" => q # Raise(r, error)
  BY <1>9, Raises
<1>11. HasColon(line) /\ line # <<>>
  <2>1. HasColon(line)
    BY <1>2, <1>7 DEF HEADER
  <2> QED
    BY <2>1, NoDash
<1>12. CASE Key(line) = <<"version">>
  <2>1. q = r
    BY <1>2, <1>8, <1>10, <1>11, <1>12 DEF HEADER
  <2>2. Unversioned(kept) = <<>>
    BY <1>5, <1>6, <1>11, <1>12 DEF Unversioned
  <2>3. PICK division : division = Divided(<<>>, <<>>)
    OBVIOUS
  <2>4. division.parts = <<>> /\ division.rest = <<>>
    BY <2>3, Nothing
  <2>5. Within(q, <<>>)
    BY <1>9, <2>1 DEF Within
  <2>6. q.out = [i \in DOMAIN division.parts |-> Meaning(division.parts[i], q.delta)]
    BY <1>9, <2>1, <2>4, Nothing DEF MeaningsOf
  <2>7. MadeOf(q, Append(acted, line))
    BY <1>4, <1>5, <1>9, <2>1, <2>2, <2>3, <2>4, <2>5, <2>6 DEF MadeOf
  <2> QED
    BY <1>9, <2>1, <2>7 DEF Does
<1>13. CASE Key(line) # <<"version">>
  <2>1. q = WAIT_FOR_DN([p EXCEPT !.mode = "WAIT_FOR_DN"], line)
    BY <1>2, <1>11, <1>13 DEF HEADER
  <2>2. Takes(p, q, <<>>, line)
    BY <1>1, <2>1, WaitForDN
  <2>3. /\ IsParser(q) /\ q.mode # "HEADER" /\ q.delta = p.delta /\ q.lastLine = p.lastLine /\ q.lost = p.lost
        /\ q.out = <<>> /\ Within(q, kept)
    BY <1>1, <1>3, <1>11, <2>2 DEF Takes
  <2>4. Unversioned(kept) = kept
    BY <1>6, <1>13 DEF Unversioned
  <2>5. PICK division : division = Divided(kept, <<>>)
    OBVIOUS
  <2>6. division.parts = <<>> /\ division.rest = kept
    <3>1. PICK none \in Seq(Line) : none = <<>>
      BY Nothing
    <3>2. division = Divide(Divided(none, <<>>), line, <<>>)
      BY <1>3, <2>5, <3>1, DividedFurther
    <3>3. Divided(none, <<>>) \in Divisions
      BY DividedLines
    <3> QED
      BY <1>3, <1>11, <3>1, <3>2, <3>3, Nothing DEF Divide, Divisions
  <2>7. q.out = [i \in DOMAIN division.parts |-> Meaning(division.parts[i], q.delta)]
    BY <2>3, <2>6, Nothing DEF MeaningsOf
  <2>8. MadeOf(q, Append(acted, line))
    BY <1>4, <1>5, <2>3, <2>4, <2>5, <2>6, <2>7 DEF MadeOf
  <2> QED
    BY <2>3, <2>8 DEF Does
<1> QED
  BY <1>12, <1>13

LEMMA LineDoes ==
    ASSUME NEW p, IsParser(p), p.error = "", NEW acted \in Seq(Line), MadeOf(p, acted),
           NEW line \in Line, NEW q, q = LogicalLineReceived(p, line), q.error = ""
    PROVE  Does(p, q, acted, line)
<1>1. CASE Comment(line)
  BY <1>1, CommentDoes
<1>2. CASE ~Comment(line) /\ p.mode = "HEADER"
  BY <1>2, HeaderDoes
<1>3. CASE ~Comment(line) /\ p.mode # "HEADER"
  BY <1>3, RecordLineDoes
<1> QED
  BY <1>1, <1>2, <1>3

-----------------------------------------------------------------------------
(* The lines as they come.                                                 *)

\* As long as nothing was refused, the lines that were acted on are the text as
\* it would be unfolded, all but the one the parser is behind.
StreamInv ==
    parser.error = "" =>
      /\ IsParser(parser) /\ received \in Seq(Line)
      /\ parser.lost => parser.mode = "WAIT_FOR_DN"
      /\ \E acted \in Seq(Line) :
           /\ MadeOf(parser, acted)
           /\ parser.lastLine = Unset => Unfolded(received) = acted
           /\ parser.lastLine # Unset =>
                /\ parser.lastLine \in Line \ {<<>>}
                /\ Unfolded(received) = Append(acted, parser.lastLine)

\* The text begins with nothing read.
LEMMA StreamBegins == StreamInit => StreamInv
<1> SUFFICES ASSUME StreamInit PROVE StreamInv
  OBVIOUS
<1>1. /\ IsParser(parser) /\ parser.mode = "HEADER" /\ parser.out = <<>> /\ parser.modifications = <<>>
      /\ parser.lastLine = Unset /\ ~parser.lost
  BY DEF StreamInit, IsParser, Modes
<1>2. PICK none \in Seq(Line) : none = <<>> /\ Len(none) = 0
  BY Nothing
<1>3. received = none /\ Unfolded(none) = none
  BY <1>2, UnfoldedNot DEF StreamInit
<1>4. Uncommented(none) = none
  BY <1>2, LinesAtNot DEF Uncommented
<1>5. MadeOf(parser, none)
  BY <1>1, <1>2, <1>4 DEF MadeOf
<1> QED
  BY <1>1, <1>2, <1>3, <1>5 DEF StreamInv

\* A line that continues the last one is the last one still.
LEMMA UnfoldLast ==
    ASSUME NEW acted \in Seq(Line), NEW last \in Line, last # <<>>, last # Unset, NEW line \in Line, Folds(line)
    PROVE  /\ last \o Tail(line) \in Line \ {<<>>} /\ last \o Tail(line) # Unset
           /\ Unfold(Append(acted, last), line) = Append(acted, last \o Tail(line))
<1>1. line \in Seq(STRING) /\ last \in Seq(STRING) /\ line # <<>>
  BY DEF Folds, Line
<1>2. PICK tail \in Seq(STRING) : tail = Tail(line)
  BY <1>1, HeadTailProperties
<1>3. PICK whole \in Seq(STRING) : whole = last \o tail
  BY <1>1, <1>2, ConcatProperties
<1>4. /\ Len(last) \in Nat /\ Len(tail) \in Nat /\ Len(whole) = Len(last) + Len(tail)
      /\ Len(last) # 0
  BY <1>1, <1>2, <1>3, ConcatProperties, EmptySeq
<1>5. whole # <<>>
  BY <1>4
<1>6. whole # Unset
  <2> SUFFICES ASSUME whole = Unset PROVE FALSE
    OBVIOUS
  <2>1. Len(whole) = 1
    BY DEF Unset
  <2>2. Len(tail) = 0
    BY <1>4, <2>1
  <2>3. tail = <<>>
    BY <2>2, EmptySeq
  <2>4. whole = last
    BY <1>1, <1>3, <2>3, ConcatEmptySeq
  <2> QED
    BY <2>4
<1>7. Unfold(Append(acted, last), line) = Append(acted, whole)
  <2>1. PICK s \in Seq(Line) : s = Append(acted, last)
    BY Longer
  <2>2. PICK n \in Nat : n = Len(acted)
    OBVIOUS
  <2>3. Len(s) = n + 1 /\ s[n + 1] = last /\ DOMAIN s = 1..n + 1 /\ \A i \in 1..n : s[i] = acted[i]
    BY <2>1, <2>2, Longer
  <2>4. Unfold(s, line) = [s EXCEPT ![n + 1] = whole]
    BY <1>2, <1>3, <2>3 DEF Unfold
  <2>5. PICK more \in Seq(Line) : more = Append(acted, whole)
    BY Longer DEF Line
  <2>6. more[n + 1] = whole /\ DOMAIN more = 1..n + 1 /\ \A i \in 1..n : more[i] = acted[i]
    BY <2>2, <2>5, Longer DEF Line
  <2>7. ASSUME NEW i \in 1..n + 1 PROVE [s EXCEPT ![n + 1] = whole][i] = more[i]
    <3>1. CASE i = n + 1
      BY <2>3, <2>6, <3>1
    <3>2. CASE i # n + 1
      <4>1. i \in 1..n
        BY <3>2
      <4> QED
        BY <2>3, <2>6, <4>1
    <3> QED
      BY <3>1, <3>2
  <2>8. more = [i \in 1..n + 1 |-> more[i]]
    BY <2>6
  <2>9. [s EXCEPT ![n + 1] = whole] = [i \in 1..n + 1 |-> more[i]]
    BY <2>3, <2>7
  <2> QED
    BY <2>1, <2>4, <2>5, <2>8, <2>9
<1> QED
  BY <1>2, <1>3, <1>5, <1>6, <1>7 DEF Line

LEMMA ContinuedStep ==
    ASSUME StreamInv, NEW line \in Lines(parser.delta), Continued(line) PROVE StreamInv'
<1> SUFFICES ASSUME parser'.error = "" PROVE StreamInv'
  BY DEF StreamInv
<1>1. parser.error = "" /\ ~parser.lost
  BY DEF Continued, Open
<1>2. IsParser(parser) /\ received \in Seq(Line)
  BY <1>1 DEF StreamInv
<1>3. line \in Line
  BY <1>2, LinesAssumption DEF Line, IsParser
<1>4. parser.lastLine # Unset
  <2>1. \A error : error # "" => parser' # Raise(parser, error)
    BY <1>2, Raises
  <2> QED
    BY <2>1 DEF Continued
<1>5. PICK acted \in Seq(Line) :
        /\ MadeOf(parser, acted) /\ parser.lastLine \in Line \ {<<>>}
        /\ Unfolded(received) = Append(acted, parser.lastLine)
  BY <1>1, <1>4 DEF StreamInv
<1>6. PICK whole : whole = parser.lastLine \o Tail(line)
  OBVIOUS
<1>7. /\ whole \in Line \ {<<>>} /\ whole # Unset
      /\ Unfold(Append(acted, parser.lastLine), line) = Append(acted, whole)
  BY <1>3, <1>4, <1>5, <1>6, UnfoldLast DEF Continued
<1>8. Unfolded(received') = Append(acted, whole) /\ received' \in Seq(Line)
  <2>1. received' = Append(received, line)
    BY DEF Continued
  <2>2. Unfolded(Append(received, line)) = Unfold(Unfolded(received), line)
    BY <1>2, <1>3, UnfoldedFurther
  <2>3. Append(received, line) \in Seq(Line)
    BY <1>2, <1>3, Longer
  <2> QED
    BY <1>5, <1>7, <2>1, <2>2, <2>3
<1>9. parser' = [parser EXCEPT !.lastLine = whole]
  BY <1>4, <1>6 DEF Continued
<1>10. /\ IsParser(parser') /\ parser'.lastLine = whole /\ parser'.mode = parser.mode /\ ~parser'.lost
       /\ parser'.dn = parser.dn /\ parser'.data = parser.data /\ parser'.delta = parser.delta
       /\ parser'.modifications = parser.modifications /\ parser'.spec = parser.spec
       /\ parser'.out = parser.out
  BY <1>1, <1>2, <1>9 DEF IsParser
<1>11. MadeOf(parser', acted)
  BY <1>5, <1>10, MadeAlike
<1> QED
  BY <1>7, <1>8, <1>10, <1>11 DEF StreamInv

\* What the parser was behind is acted on, and it is behind nothing.
LEMMA FlushedDoes ==
    ASSUME StreamInv, Open, NEW p, p = Flushed(parser), p.error = ""
    PROVE  /\ IsParser(p) /\ p.delta = parser.delta /\ ~p.lost
           /\ Unfolded(received) \in Seq(Line) /\ MadeOf(p, Unfolded(received))
<1>1. parser.error = "" /\ ~parser.lost /\ IsParser(parser)
  BY DEF Open, StreamInv
<1>2. PICK acted \in Seq(Line) :
        /\ MadeOf(parser, acted)
        /\ parser.lastLine = Unset => Unfolded(received) = acted
        /\ parser.lastLine # Unset =>
             /\ parser.lastLine \in Line
             /\ Unfolded(received) = Append(acted, parser.lastLine)
  BY <1>1 DEF StreamInv
<1>3. CASE parser.lastLine = Unset
  <2>1. p = parser
    BY <1>3 DEF Flushed
  <2> QED
    BY <1>1, <1>2, <1>3, <2>1
<1>4. CASE parser.lastLine # Unset
  <2>1. PICK last \in Line : last = parser.lastLine
    BY <1>2, <1>4
  <2>2. p = LogicalLineReceived(parser, last)
    BY <1>4, <2>1 DEF Flushed
  <2>3. Does(parser, p, acted, last)
    BY <1>1, <1>2, <2>2, LineDoes
  <2>4. Append(acted, last) \in Seq(Line)
    BY Longer
  <2> QED
    BY <1>1, <1>2, <1>4, <2>1, <2>3, <2>4 DEF Does
<1> QED
  BY <1>3, <1>4

\* After an empty line the parser has its attributes, whatever was raised.
LEMMA EmptyLine ==
    ASSUME NEW p, IsParser(p) PROVE "error" \in DOMAIN LogicalLineReceived(p, <<>>)
<1>1. \A error : "error" \in DOMAIN Raise(p, error)
  BY DEF Raise, IsParser
<1>2. \A o : "error" \in DOMAIN Got(p, o)
  BY DEF Got, IsParser
<1>3. "error" \in DOMAIN p /\ p.mode \in Modes
  BY DEF IsParser
<1>4. ~HasColon(<<>>)
  BY NoDash
<1>5. PICK line : line = <<>>
  OBVIOUS
<1>6. CASE p.mode \in {"HEADER", "WAIT_FOR_DN", "IN_ENTRY", "WAIT_FOR_CHANGETYPE"}
  BY <1>1, <1>2, <1>3, <1>4, <1>5, <1>6
     DEF LogicalLineReceived, HEADER, WAIT_FOR_DN, IN_ENTRY, WAIT_FOR_CHANGETYPE
<1>7. CASE p.mode \in {"WAIT_FOR_MOD_SPEC", "IN_MOD_SPEC", "IN_ADD_ENTRY", "IN_DELETE"}
  BY <1>1, <1>2, <1>3, <1>5, <1>7
     DEF LogicalLineReceived, WAIT_FOR_MOD_SPEC, IN_MOD_SPEC, IN_ADD_ENTRY, IN_DELETE
<1> QED
  BY <1>3, <1>6, <1>7 DEF Modes

LEMMA LineReceivedStep ==
    ASSUME StreamInv, NEW line \in Lines(parser.delta), LineReceived(line) PROVE StreamInv'
<1> SUFFICES ASSUME parser'.error = "" PROVE StreamInv'
  BY DEF StreamInv
<1>1. Open /\ parser.error = "" /\ ~parser.lost /\ ~Folds(line) /\ received' = Append(received, line)
  BY DEF LineReceived, Open
<1>2. IsParser(parser) /\ received \in Seq(Line)
  BY <1>1 DEF StreamInv
<1>3. line \in Line /\ line # Unset
  BY <1>2, LinesAssumption DEF Line, IsParser
<1>4. PICK p : p = Flushed(parser)
  OBVIOUS
<1>5. PICK q : q = LogicalLineReceived(p, <<>>)
  OBVIOUS
<1>6. parser' = IF p.error # "" THEN p
                ELSE IF line # <<>> THEN [p EXCEPT !.lastLine = line]
                ELSE IF q.error # "" THEN [q EXCEPT !.lastLine = <<>>]
                ELSE [q EXCEPT !.lastLine = Unset]
  BY <1>4, <1>5 DEF LineReceived
<1>7. p.error = ""
  BY <1>6
<1>8. PICK acted \in Seq(Line) : acted = Unfolded(received) /\ MadeOf(p, acted)
  BY <1>1, <1>4, <1>7, FlushedDoes
<1>9. IsParser(p) /\ p.delta = parser.delta /\ ~p.lost
  BY <1>1, <1>4, <1>7, FlushedDoes
<1>10. Unfolded(received') = Append(acted, line) /\ received' \in Seq(Line)
  <2>1. Unfolded(Append(received, line)) = Unfold(acted, line)
    BY <1>2, <1>3, <1>8, UnfoldedFurther
  <2>2. Unfold(acted, line) = Append(acted, line)
    BY <1>1 DEF Unfold
  <2>3. Append(received, line) \in Seq(Line)
    BY <1>2, <1>3, Longer
  <2> QED
    BY <1>1, <2>1, <2>2, <2>3
<1>11. CASE line # <<>>
  <2>1. parser' = [p EXCEPT !.lastLine = line]
    BY <1>6, <1>7, <1>11
  <2>2. /\ IsParser(parser') /\ parser'.lastLine = line /\ parser'.mode = p.mode /\ ~parser'.lost
        /\ parser'.dn = p.dn /\ parser'.data = p.data /\ parser'.delta = p.delta
        /\ parser'.modifications = p.modifications /\ parser'.spec = p.spec /\ parser'.out = p.out
    BY <1>9, <2>1 DEF IsParser
  <2>3. MadeOf(parser', acted)
    BY <1>8, <2>2, MadeAlike
  <2> QED
    BY <1>3, <1>10, <1>11, <2>2, <2>3 DEF StreamInv
<1>12. CASE line = <<>>
  <2>1. q.error = ""
    <3> SUFFICES ASSUME q.error # "" PROVE FALSE
      OBVIOUS
    <3>1. parser' = [q EXCEPT !.lastLine = <<>>]
      BY <1>6, <1>7, <1>12
    <3>2. parser'.error = q.error
      BY <1>5, <1>9, <3>1, EmptyLine
    <3> QED
      BY <3>2
  <2>2. parser' = [q EXCEPT !.lastLine = Unset]
    BY <1>6, <1>7, <1>12, <2>1
  <2>3. Does(p, q, acted, line)
    BY <1>3, <1>5, <1>7, <1>8, <1>9, <1>12, <2>1, LineDoes
  <2>4. IsParser(q) /\ ~q.lost /\ MadeOf(q, Append(acted, line))
    BY <1>9, <2>3 DEF Does
  <2>5. /\ IsParser(parser') /\ parser'.lastLine = Unset /\ parser'.mode = q.mode /\ ~parser'.lost
        /\ parser'.dn = q.dn /\ parser'.data = q.data /\ parser'.delta = q.delta
        /\ parser'.modifications = q.modifications /\ parser'.spec = q.spec /\ parser'.out = q.out
    BY <2>2, <2>4 DEF IsParser
  <2>6. MadeOf(parser', Append(acted, line))
    BY <2>4, <2>5, MadeAlike
  <2>7. Append(acted, line) \in Seq(Line)
    BY <1>3, Longer
  <2> QED
    BY <1>10, <2>5, <2>6, <2>7 DEF StreamInv
<1> QED
  BY <1>11, <1>12

LEMMA ConnectionLostStep == ASSUME StreamInv, ConnectionLost PROVE StreamInv'
<1> SUFFICES ASSUME parser'.error = "" PROVE StreamInv'
  BY DEF StreamInv
<1>1. parser.error = "" /\ IsParser(parser) /\ received \in Seq(Line) /\ received' = received
  BY DEF ConnectionLost, Open, StreamInv
<1>2. PICK error : error = IF InRecord(parser) THEN "Truncated" ELSE ""
  OBVIOUS
<1>3. parser' = [parser EXCEPT !.lost = TRUE, !.error = error]
  BY <1>2 DEF ConnectionLost
<1>4. /\ IsParser(parser') /\ parser'.error = error /\ parser'.lastLine = parser.lastLine /\ parser'.mode = parser.mode
      /\ parser'.dn = parser.dn /\ parser'.data = parser.data /\ parser'.delta = parser.delta
      /\ parser'.modifications = parser.modifications /\ parser'.spec = parser.spec
      /\ parser'.out = parser.out
  BY <1>1, <1>3 DEF IsParser
<1>5. parser'.mode = "WAIT_FOR_DN"
  BY <1>2, <1>4 DEF InRecord
<1>6. PICK acted \in Seq(Line) :
        /\ MadeOf(parser, acted)
        /\ parser.lastLine = Unset => Unfolded(received) = acted
        /\ parser.lastLine # Unset =>
             /\ parser.lastLine \in Line \ {<<>>}
             /\ Unfolded(received) = Append(acted, parser.lastLine)
  BY <1>1 DEF StreamInv
<1>7. MadeOf(parser', acted)
  BY <1>4, <1>6, MadeAlike
<1> QED
  BY <1>1, <1>4, <1>5, <1>6, <1>7 DEF StreamInv

LEMMA StreamAlways == StreamSpec => []StreamInv
<1>1. StreamInv /\ [StreamNext]_streamVars => StreamInv'
  <2> SUFFICES ASSUME StreamInv, [StreamNext]_streamVars PROVE StreamInv'
    OBVIOUS
  <2>1. ASSUME NEW line \in Lines(parser.delta), Continued(line) PROVE StreamInv'
    BY <2>1, ContinuedStep
  <2>2. ASSUME NEW line \in Lines(parser.delta), LineReceived(line) PROVE StreamInv'
    BY <2>2, LineReceivedStep
  <2>3. CASE ConnectionLost
    BY <2>3, ConnectionLostStep
  <2>4. CASE UNCHANGED streamVars
    BY <2>4 DEF streamVars, StreamInv
  <2> QED
    BY <2>1, <2>2, <2>3, <2>4 DEF StreamNext
<1> QED
  BY <1>1, StreamBegins, PTL DEF StreamSpec

\* What has been acted on and what it is of the text.
ActedOn(acted) ==
    /\ acted \in Seq(Line) /\ MadeOf(parser, acted)
    /\ parser.lastLine = Unset => Unfolded(received) = acted
    /\ parser.lastLine # Unset =>
         parser.lastLine \in Line \ {<<>>} /\ Unfolded(received) = Append(acted, parser.lastLine)

\* The line the parser is behind is not empty, so it ends no record.
LEMMA ReadIsMeant == StreamInv => ReadsWhatIsMeant
<1> SUFFICES ASSUME StreamInv, parser.error = "" PROVE ReadsWhatIsMeant
  BY DEF ReadsWhatIsMeant
<1>1. PICK acted : ActedOn(acted)
  BY DEF StreamInv, ActedOn
<1>2. PICK kept \in Seq(Line) : kept = Uncommented(acted)
  <2>1. acted \in Seq(Line)
    BY <1>1 DEF ActedOn
  <2> QED
    BY <2>1, UncommentedLines
<1>3. PICK delta : delta = parser.delta
  OBVIOUS
<1>4. PICK text \in Seq(Line) : text = Uncommented(Unfolded(received)) /\ Meant(received) = Unversioned(text)
  <2>1. Unfolded(received) \in Seq(Line)
    <3>1. acted \in Seq(Line) /\ \A last \in Line : Append(acted, last) \in Seq(Line)
      BY <1>1, Longer DEF ActedOn
    <3> QED
      BY <1>1, <3>1 DEF ActedOn
  <2> QED
    BY <2>1, UncommentedLines DEF Meant
<1>5. text = kept \/ \E last \in Line \ {<<>>} : text = Append(kept, last)
  BY <1>1, <1>2, <1>4, UncommentedFurther DEF ActedOn
<1>6. parser.out = MeaningsOf(Records(Unversioned(text)), delta)
  <2>1. CASE kept = <<>>
    <3>1. parser.mode = "HEADER" /\ parser.out = <<>>
      BY <1>1, <1>2, <2>1 DEF ActedOn, MadeOf
    <3>2. CASE text = kept
      <4>1. Unversioned(text) = <<>>
        BY <2>1, <3>2 DEF Unversioned
      <4> QED
        BY <3>1, <4>1, Nothing DEF Records
    <3>3. CASE \E last \in Line \ {<<>>} : text = Append(kept, last)
      <4>1. PICK last \in Line \ {<<>>} : text = Append(<<>>, last)
        BY <2>1, <3>3
      <4>2. Tail(text) = <<>>
        BY <4>1, OneLine
      <4>3. Unversioned(text) = <<>> \/ Unversioned(text) = Append(<<>>, last)
        BY <4>1, <4>2 DEF Unversioned
      <4>4. Further(Divided(<<>>, <<>>), Divided(Append(<<>>, last), <<>>), last, delta)
        BY Nothing, RecordsFurther
      <4>5. MeaningsOf(Divided(Append(<<>>, last), <<>>).parts, delta) = <<>>
        BY <4>4, Nothing DEF Further
      <4> QED
        BY <3>1, <4>3, <4>5, Nothing DEF Records
    <3> QED
      BY <1>5, <3>2, <3>3
  <2>2. CASE kept # <<>>
    <3>1. PICK lines \in Seq(Line) :
            /\ lines = Unversioned(kept)
            /\ \A last \in Line : Unversioned(Append(kept, last)) = Append(lines, last)
      <4>1. Unversioned(kept) \in Seq(Line)
        BY <2>2, HeadTailProperties DEF Unversioned
      <4>2. \A last \in Line : Unversioned(Append(kept, last)) = Append(Unversioned(kept), last)
        BY <2>2, UnversionedFurther
      <4> QED
        BY <4>1, <4>2
    <3>2. parser.out = MeaningsOf(Divided(lines, <<>>).parts, delta)
      BY <1>1, <1>2, <1>3, <2>2, <3>1 DEF ActedOn, MadeOf, MeaningsOf
    <3>3. CASE text = kept
      BY <3>1, <3>2, <3>3 DEF Records
    <3>4. ASSUME NEW last \in Line \ {<<>>}, text = Append(kept, last)
          PROVE  parser.out = MeaningsOf(Records(Unversioned(text)), delta)
      <4>1. Further(Divided(lines, <<>>), Divided(Append(lines, last), <<>>), last, delta)
        BY RecordsFurther
      <4>2. MeaningsOf(Divided(Append(lines, last), <<>>).parts, delta) = MeaningsOf(Divided(lines, <<>>).parts, delta)
        BY <4>1 DEF Further
      <4>3. Unversioned(text) = Append(lines, last)
        BY <3>1, <3>4
      <4> QED
        BY <3>2, <4>2, <4>3 DEF Records
    <3> QED
      BY <1>5, <3>3, <3>4
  <2> QED
    BY <2>1, <2>2
<1> QED
  BY <1>3, <1>4, <1>6 DEF ReadsWhatIsMeant, MeaningsOf

\* Of lines all of whose records have ended the last is the end of one.
LEMMA NothingLeft ==
    ASSUME NEW lines \in Seq(Line), Divided(lines, <<>>).rest = <<>>
    PROVE  Left(lines, 0)
<1>1. CASE lines = <<>>
  BY <1>1 DEF Left
<1>2. CASE lines # <<>>
  <2>1. PICK front \in Seq(Line), last \in Line : lines = Append(front, last)
    <3>1. /\ SubSeq(lines, 1, Len(lines) - 1) \in Seq(Line) /\ lines[Len(lines)] \in Line
          /\ lines = Append(SubSeq(lines, 1, Len(lines) - 1), lines[Len(lines)])
      BY <1>2
    <3> QED
      BY <3>1
  <2>2. PICK division \in Divisions : division = Divided(front, <<>>)
    BY DividedLines
  <2>3. Further(division, Divided(lines, <<>>), last, FALSE)
    BY <2>1, <2>2, RecordsFurther
  <2>4. PICK rest \in Seq(Line) : rest = division.rest
    BY <2>2 DEF Divisions
  <2>5. Append(rest, last) # <<>>
    BY OneLineMore
  <2>6. last = <<>>
    BY <2>3, <2>4, <2>5 DEF Further
  <2>7. Len(lines) \in Nat /\ Len(lines) - 0 = Len(lines) /\ lines[Len(lines)] = last
    <3>1. Len(lines) = Len(front) + 1 /\ Len(front) \in Nat /\ lines[Len(front) + 1] = last
      BY <2>1, Longer
    <3> QED
      BY <3>1
  <2> QED
    BY <2>6, <2>7 DEF Left
<1> QED
  BY <1>1, <1>2

\* One line more, and one is left.
LEMMA OneLeft ==
    ASSUME NEW lines \in Seq(Line), NEW line \in Line, Left(lines, 0) PROVE Left(Append(lines, line), 1)
<1>1. PICK n \in Nat : n = Len(lines)
  OBVIOUS
<1>2. PICK more : more = Append(lines, line)
  OBVIOUS
<1>3. Len(more) = n + 1 /\ \A i \in 1..n : more[i] = lines[i]
  BY <1>1, <1>2, Longer
<1>4. n - 0 = n /\ n + 1 - 1 = n /\ (n # 0 => n \in 1..n) /\ (n = 0 => n + 1 = 1)
  OBVIOUS
<1>5. n = 0 \/ lines[n] = <<>>
  BY <1>1, <1>4 DEF Left
<1> QED
  BY <1>2, <1>3, <1>4, <1>5 DEF Left

LEMMA ZeroOrOne == 0 \in 0..1 /\ 1 \in 0..1
OBVIOUS

LEMMA CutIsSeen == StreamInv => CutRecordsAreSeen
<1> SUFFICES ASSUME StreamInv, parser.lost, parser.error = ""
             PROVE  Left(Meant(received), 0) \/ Left(Meant(received), 1)
  BY ZeroOrOne DEF CutRecordsAreSeen
<1>1. PICK acted : ActedOn(acted) /\ parser.mode = "WAIT_FOR_DN"
  BY DEF StreamInv, ActedOn
<1>2. PICK kept \in Seq(Line) : kept = Uncommented(acted)
  <2>1. acted \in Seq(Line)
    BY <1>1 DEF ActedOn
  <2> QED
    BY <2>1, UncommentedLines
<1>3. kept # <<>> /\ Divided(Unversioned(kept), <<>>).rest = <<>>
  BY <1>1, <1>2 DEF ActedOn, MadeOf, Within
<1>4. PICK lines \in Seq(Line) :
        /\ lines = Unversioned(kept)
        /\ \A last \in Line : Unversioned(Append(kept, last)) = Append(lines, last)
  <2>1. Unversioned(kept) \in Seq(Line)
    BY <1>2, <1>3, HeadTailProperties DEF Unversioned
  <2>2. \A last \in Line : Unversioned(Append(kept, last)) = Append(Unversioned(kept), last)
    BY <1>2, <1>3, UnversionedFurther
  <2> QED
    BY <2>1, <2>2
<1>5. Left(lines, 0)
  BY <1>3, <1>4, NothingLeft
<1>6. Meant(received) = lines \/ \E last \in Line : Meant(received) = Append(lines, last)
  <2>1. acted \in Seq(Line)
    BY <1>1 DEF ActedOn
  <2>2. \A last \in Line : Uncommented(Append(acted, last)) \in {kept, Append(kept, last)}
    BY <1>2, <2>1, UncommentedFurther
  <2>3. Uncommented(Unfolded(received)) = kept \/ \E last \in Line : Uncommented(Unfolded(received)) = Append(kept, last)
    BY <1>1, <1>2, <2>2 DEF ActedOn
  <2> QED
    BY <1>4, <2>3 DEF Meant
<1>7. Left(Meant(received), 0) \/ Left(Meant(received), 1)
  <2>1. CASE Meant(received) = lines
    BY <1>5, <2>1
  <2>2. ASSUME NEW last \in Line, Meant(received) = Append(lines, last) PROVE Left(Meant(received), 1)
    BY <1>4, <1>5, <2>2, OneLeft
  <2> QED
    BY <1>6, <2>1, <2>2
<1> QED
  BY <1>7

\* Whatever lines come, in whatever order, to a parser of entries or of changes:
\* as long as nothing was refused, what it has made is what the text means
\* (logicalLineReceived, the state_ methods of ldifprotocol.py and ldifdelta.py).
THEOREM LinesAreRead == StreamSpec => []ReadsWhatIsMeant
BY StreamAlways, ReadIsMeant, PTL

\* Of any record that is cut off, all but its first line is told of
\* (connectionLost, LDIFTruncatedError).
THEOREM CutsAreSeen == StreamSpec => []CutRecordsAreSeen
BY StreamAlways, CutIsSeen, PTL
=============================================================================
