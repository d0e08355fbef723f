-------------------------- MODULE LDAPObjectProofs --------------------------
(***************************************************************************)
(* What SimpleLDAPObject promises for any number of tasks, connections and *)
(* entries: nothing that can still be answered is forgotten, what has been *)
(* abandoned stays so, and a search that returns has all that was found.   *)
(***************************************************************************)
EXTENDS LDAPObject, FiniteSetTheorems, SequenceTheorems, TLAPS

\* The types, with no bound yet on what has been queued and handed out.
ObjectType ==
    /\ stream \in 0..MaxConns /\ unbound \in BOOLEAN
    /\ pending \subseteq Ops /\ done \subseteq Ops /\ down \subseteq done
    /\ queue \in [Ops -> Nat]
    /\ buffer \in 0..MaxConns /\ spoiled \in BOOLEAN

LockType == writing \in Tasks \cup {Nobody} /\ readers \in Seq(Ops)

TaskType ==
    /\ pc \in [Tasks -> {"idle", "started"} \cup Active \cup Ended]
    /\ doing \in [Tasks -> {"request", "abandon", "unbind"}]
    /\ local \in [Tasks -> 0..MaxConns]
    /\ expired \subseteq Timed
    /\ handed \in [Ops -> Nat]

NetType ==
    /\ opened \in 0..MaxConns
    /\ open \subseteq Conns /\ alive \subseteq Conns
    /\ wire \in [Conns -> Seq(Message)]
    /\ asked \in [Conns -> SUBSET Ops]
    /\ said \in [Ops -> 0..MaxEntries]

StateType == ObjectType /\ LockType /\ TaskType /\ NetType

\* An unbinder sends nothing but its unbind, and only operations are waited for.
Roles ==
    \A t \in Tasks :
      /\ doing[t] = "unbind" <=> t \in Unbinders
      /\ t \in Unbinders => pc[t] \notin {"started", "wait"} \cup Reading

\* Who waits to read stands in the lock's queue, once, and who reads is first.
TurnInv ==
    /\ \A i, j \in DOMAIN readers : readers[i] = readers[j] => i = j
    /\ \A o \in Ops : pc[o] \in Reading <=> \E i \in DOMAIN readers : readers[i] = o
    /\ \A o \in Ops : pc[o] = "reading" => readers[1] = o

\* Somewhere on the way to its end, an operation is pending or done.
Collectable ==
    \A o \in Ops : pc[o] \in {"started", "wait"} \cup Reading /\ o \notin done => o \in pending

\* What has been abandoned is not pending.
Forgotten == \A o \in Ops : doing[o] = "abandon" => o \notin pending

-----------------------------------------------------------------------------
(* What of an operation is on a connection.                                *)

KeptIn(s, whole, o) == {i \in whole : s[i] = [id |-> o, final |-> FALSE]}
EntriesIn(s, o) == {i \in DOMAIN s : s[i] = [id |-> o, final |-> FALSE]}
Found(o, g) == Cardinality(EntriesIn(wire[g], o))

\* The server has the request, or an answer to it is on its way.
Holds(o, g) == o \in asked[g] \/ \E i \in DOMAIN wire[g] : wire[g][i].id = o

\* The request has not been written.
Unsent(o) == doing[o] = "request" /\ pc[o] \in {"idle", "connecting", "lockwrite", "sending"}

\* Nobody has heard of an operation before it is sent, one connection hears of
\* it, and what is handed out, queued and on its way the server has sent.
Home(o) ==
    /\ Unsent(o) => /\ said[o] = 0 /\ queue[o] = 0 /\ handed[o] = 0
                    /\ o \notin pending \cup done
                    /\ \A g \in Conns : ~Holds(o, g)
    /\ \A g, h \in Conns : Holds(o, g) /\ Holds(o, h) => g = h
    /\ queue[o] + handed[o] <= said[o]
    /\ \A g \in Conns : queue[o] + handed[o] + Found(o, g) <= said[o]

HomeInv == \A o \in Ops : Home(o)

TypeInv == StateType /\ Roles /\ TurnInv
SafeInv == TypeInv /\ Collectable /\ Forgotten /\ HomeInv

-----------------------------------------------------------------------------
(* What becomes of what the server found, when no answer is read before    *)
(* the task that sent the request runs again.                              *)

\* The final answer is the last one.
FinalIsLast(o) ==
    \A g \in Conns : \A i \in DOMAIN wire[g] :
      wire[g][i] = [id |-> o, final |-> TRUE] =>
        o \notin asked[g] /\ \A j \in DOMAIN wire[g] : wire[g][j].id = o => j <= i

\* Nothing found is lost of an operation that does not fail.
NothingDropped(o) ==
    /\ pc[o] = "sent" => o \notin pending \cup done
    /\ o \in done \ down => \A g \in Conns : ~Holds(o, g)
    /\ (\E g \in Conns : Holds(o, g)) => o \in pending \cup down \/ pc[o] = "sent"
    /\ o \notin down =>
         /\ \A g \in Conns : Holds(o, g) => queue[o] + handed[o] + Found(o, g) = said[o]
         /\ (\A g \in Conns : ~Holds(o, g)) => queue[o] + handed[o] = said[o]
    /\ pc[o] = "returned" => handed[o] = said[o] /\ \A g \in Conns : ~Holds(o, g)

WholeInv ==
    \A o \in Ops : FinalIsLast(o) /\ (doing[o] = "request" /\ ~spoiled => NothingDropped(o))

-----------------------------------------------------------------------------
(* Lemmas about sequences.                                                 *)

\* Entries are counted by a natural number.
LEMMA EntriesFinite ==
    ASSUME NEW s \in Seq(Message), NEW o
    PROVE  IsFiniteSet(EntriesIn(s, o)) /\ Cardinality(EntriesIn(s, o)) \in Nat
<1>1. Len(s) \in Nat /\ DOMAIN s = 1..Len(s)
  BY LenProperties
<1>2. IsFiniteSet(1..Len(s))
  BY <1>1, FS_Interval
<1>3. EntriesIn(s, o) \in SUBSET (1..Len(s))
  BY <1>1 DEF EntriesIn
<1> QED
  BY <1>2, <1>3, FS_Subset, FS_CardinalityType

\* Of the entries as many are kept as there are, or fewer.
LEMMA EntriesKept ==
    ASSUME NEW s \in Seq(Message), NEW whole \in SUBSET (DOMAIN s), NEW o
    PROVE  /\ Cardinality(KeptIn(s, whole, o)) \in Nat
           /\ Cardinality(KeptIn(s, whole, o)) <= Cardinality(EntriesIn(s, o))
           /\ whole = DOMAIN s => Cardinality(KeptIn(s, whole, o)) = Cardinality(EntriesIn(s, o))
<1>1. IsFiniteSet(EntriesIn(s, o))
  BY EntriesFinite
<1>2. KeptIn(s, whole, o) \in SUBSET EntriesIn(s, o)
  BY DEF KeptIn, EntriesIn
<1>3. whole = DOMAIN s => KeptIn(s, whole, o) = EntriesIn(s, o)
  BY DEF KeptIn, EntriesIn
<1> QED
  BY <1>1, <1>2, <1>3, FS_Subset, FS_CardinalityType

\* A message at the end adds one when it is an entry of the operation.
LEMMA EntriesAppend ==
    ASSUME NEW s \in Seq(Message), NEW m \in Message, NEW o
    PROVE  Cardinality(EntriesIn(Append(s, m), o)) =
             Cardinality(EntriesIn(s, o)) + (IF m = [id |-> o, final |-> FALSE] THEN 1 ELSE 0)
<1> DEFINE k == Len(s) + 1
<1>1. /\ Len(s) \in Nat /\ DOMAIN s = 1..Len(s)
      /\ DOMAIN Append(s, m) = 1..k /\ Append(s, m)[k] = m
      /\ \A i \in 1..Len(s) : Append(s, m)[i] = s[i]
  BY LenProperties, AppendProperties
<1>2. k \notin EntriesIn(s, o)
  BY <1>1 DEF EntriesIn
<1>3. CASE m = [id |-> o, final |-> FALSE]
  <2>1. EntriesIn(Append(s, m), o) = EntriesIn(s, o) \cup {k}
    BY <1>1, <1>3 DEF EntriesIn
  <2> QED
    BY <1>2, <1>3, <2>1, EntriesFinite, FS_AddElement
<1>4. CASE m # [id |-> o, final |-> FALSE]
  <2>1. EntriesIn(Append(s, m), o) = EntriesIn(s, o)
    BY <1>1, <1>4 DEF EntriesIn
  <2> QED
    BY <1>4, <2>1, EntriesFinite
<1> QED
  BY <1>3, <1>4

\* The parts that a sequence is cut into.
LEMMA Parts ==
    ASSUME NEW S, NEW s \in Seq(S), NEW n \in 0..Len(s)
    PROVE  /\ Len(s) \in Nat /\ DOMAIN s = 1..Len(s)
           /\ SubSeq(s, 1, n) \in Seq(S) /\ DOMAIN SubSeq(s, 1, n) = 1..n
           /\ \A i \in 1..n : SubSeq(s, 1, n)[i] = s[i]
           /\ SubSeq(s, n + 1, Len(s)) \in Seq(S)
           /\ DOMAIN SubSeq(s, n + 1, Len(s)) = 1..(Len(s) - n)
           /\ \A i \in 1..(Len(s) - n) : SubSeq(s, n + 1, Len(s))[i] = s[n + i]
<1>1. Len(s) \in Nat /\ DOMAIN s = 1..Len(s) /\ \A i \in 1..Len(s) : s[i] \in S
  BY LenProperties, ElementOfSeq
<1>2. n \in Nat /\ n <= Len(s)
  BY <1>1
<1>3. /\ SubSeq(s, 1, n) \in Seq(S) /\ Len(SubSeq(s, 1, n)) = n
      /\ \A i \in 1..n : SubSeq(s, 1, n)[i] = s[i]
  <2>1. \A i \in 1..n : s[i] \in S
    BY <1>1, <1>2
  <2>2. /\ SubSeq(s, 1, n) \in Seq(S) /\ Len(SubSeq(s, 1, n)) = IF 1 <= n THEN n - 1 + 1 ELSE 0
        /\ \A i \in 1..(n - 1 + 1) : SubSeq(s, 1, n)[i] = s[1 + i - 1]
    BY <1>2, <2>1, SubSeqProperties
  <2> QED
    BY <1>2, <2>2
<1>4. /\ SubSeq(s, n + 1, Len(s)) \in Seq(S)
      /\ Len(SubSeq(s, n + 1, Len(s))) = Len(s) - n
      /\ \A i \in 1..(Len(s) - n) : SubSeq(s, n + 1, Len(s))[i] = s[n + i]
  <2>1. \A i \in (n + 1)..Len(s) : s[i] \in S
    BY <1>1, <1>2
  <2>2. /\ SubSeq(s, n + 1, Len(s)) \in Seq(S)
        /\ Len(SubSeq(s, n + 1, Len(s))) =
             IF n + 1 <= Len(s) THEN Len(s) - (n + 1) + 1 ELSE 0
        /\ \A i \in 1..(Len(s) - (n + 1) + 1) : SubSeq(s, n + 1, Len(s))[i] = s[(n + 1) + i - 1]
    <3>1. n + 1 \in Int /\ Len(s) \in Int
      BY <1>1, <1>2
    <3> QED
      BY <2>1, <3>1, SubSeqProperties
  <2>3. \A k, m \in Nat : m <= k =>
          /\ (IF m + 1 <= k THEN k - (m + 1) + 1 ELSE 0) = k - m
          /\ k - (m + 1) + 1 = k - m
          /\ \A i \in 1..(k - m) : (m + 1) + i - 1 = m + i
    OBVIOUS
  <2>4. Len(SubSeq(s, n + 1, Len(s))) = Len(s) - n
    BY <1>1, <1>2, <2>2, <2>3
  <2> QED
    BY <1>1, <1>2, <2>2, <2>3, <2>4
<1>5. /\ DOMAIN SubSeq(s, 1, n) = 1..n
      /\ DOMAIN SubSeq(s, n + 1, Len(s)) = 1..(Len(s) - n)
  BY <1>3, <1>4, LenProperties
<1> QED
  BY <1>1, <1>3, <1>4, <1>5

\* What one receive brings and what it leaves has every entry.
LEMMA EntriesCut ==
    ASSUME NEW s \in Seq(Message), NEW n \in 0..Len(s), NEW o
    PROVE  Cardinality(EntriesIn(s, o)) =
             Cardinality(EntriesIn(SubSeq(s, 1, n), o))
               + Cardinality(EntriesIn(SubSeq(s, n + 1, Len(s)), o))
<1> DEFINE r == SubSeq(s, n + 1, Len(s))
           A == EntriesIn(SubSeq(s, 1, n), o)
           B == EntriesIn(r, o)
           C == {n + i : i \in B}
<1>1. /\ Len(s) \in Nat /\ n \in Nat /\ n <= Len(s) /\ n \in 0..Len(s) /\ DOMAIN s = 1..Len(s)
  BY LenProperties
<1>2. /\ SubSeq(s, 1, n) \in Seq(Message) /\ DOMAIN SubSeq(s, 1, n) = 1..n
      /\ \A i \in 1..n : SubSeq(s, 1, n)[i] = s[i]
      /\ r \in Seq(Message) /\ DOMAIN r = 1..(Len(s) - n)
      /\ \A i \in 1..(Len(s) - n) : r[i] = s[n + i]
  BY <1>1, Parts
<1> HIDE DEF r
<1>3. IsFiniteSet(A) /\ Cardinality(A) \in Nat /\ IsFiniteSet(B) /\ Cardinality(B) \in Nat
  BY <1>2, EntriesFinite
<1>4. B \subseteq 1..(Len(s) - n)
  BY <1>2 DEF EntriesIn
<1>5. IsFiniteSet(C) /\ Cardinality(C) = Cardinality(B)
  <2> DEFINE f == [i \in B |-> n + i]
  <2>0. \A i \in B : i \in Nat
    BY <1>1, <1>4
  <2>1. f \in Bijection(B, C)
    <3>1. f \in [B -> C]
      OBVIOUS
    <3>2. \A i, j \in B : f[i] = f[j] => i = j
      BY <1>1, <2>0
    <3>3. \A c \in C : \E i \in B : f[i] = c
      OBVIOUS
    <3> HIDE DEF f, C
    <3>4. f \in Injection(B, C)
      BY <3>1, <3>2 DEF Injection, IsInjective
    <3>5. f \in Surjection(B, C)
      BY <3>1, <3>3 DEF Surjection
    <3> QED
      BY <3>4, <3>5 DEF Bijection
  <2>2. ExistsBijection(B, C)
    BY <2>1 DEF ExistsBijection
  <2> QED
    BY <1>3, <2>2, FS_Bijection
<1>6. EntriesIn(s, o) = A \cup C
  <2>1. \A i \in EntriesIn(s, o) : i \in A \cup C
    <3> TAKE i \in EntriesIn(s, o)
    <3>1. i \in 1..Len(s) /\ s[i] = [id |-> o, final |-> FALSE]
      BY <1>1 DEF EntriesIn
    <3>2. CASE i <= n
      <4>1. i \in 1..n
        BY <1>1, <3>1, <3>2
      <4>2. i \in A
        BY <1>2, <3>1, <4>1 DEF EntriesIn
      <4> QED
        BY <4>2
    <3>3. CASE i > n
      <4>1. i - n \in 1..(Len(s) - n) /\ n + (i - n) = i
        BY <1>1, <3>1, <3>3
      <4>2. i - n \in B
        BY <1>2, <3>1, <4>1 DEF EntriesIn
      <4> QED
        BY <4>1, <4>2
    <3> QED
      BY <1>1, <3>1, <3>2, <3>3
  <2>2. A \subseteq EntriesIn(s, o)
    BY <1>1, <1>2 DEF EntriesIn
  <2>3. C \subseteq EntriesIn(s, o)
    <3> SUFFICES ASSUME NEW i \in B PROVE n + i \in EntriesIn(s, o)
      OBVIOUS
    <3>1. i \in 1..(Len(s) - n) /\ r[i] = [id |-> o, final |-> FALSE]
      BY <1>2 DEF EntriesIn
    <3>2. n + i \in 1..Len(s)
      BY <1>1, <3>1
    <3> QED
      BY <1>1, <1>2, <3>1, <3>2 DEF EntriesIn
  <2> QED
    BY <2>1, <2>2, <2>3
<1>7. A \cap C = {}
  BY <1>1, <1>2, <1>4 DEF EntriesIn
<1> QED
  <2>1. Cardinality(A \cap C) = 0
    BY <1>7, FS_EmptySet
  <2>2. Cardinality(EntriesIn(s, o)) = Cardinality(A) + Cardinality(C) - Cardinality(A \cap C)
    BY <1>3, <1>5, <1>6, FS_Union
  <2>3. Cardinality(EntriesIn(s, o)) = Cardinality(A) + Cardinality(B)
    BY <1>3, <1>5, <2>1, <2>2
  <2> QED
    BY <2>3 DEF r

-----------------------------------------------------------------------------
(* The types, and the turn to read.                                        *)

LEMMA InitType == Init => TypeInv
<1> SUFFICES ASSUME Init PROVE TypeInv
  OBVIOUS
<1> USE DEF Init
<1>1. StateType
  <2>1. LockType
    BY DEF LockType
  <2>2. 0 \in 0..MaxConns /\ 0 \in 0..MaxEntries
    BY BoundsAssumption
  <2>3. NetType
    <3>1. wire \in [Conns -> Seq(Message)]
      OBVIOUS
    <3> QED
      BY <2>2, <3>1 DEF NetType
  <2>4. ObjectType
    BY <2>2 DEF ObjectType
  <2>5. doing \in [Tasks -> {"request", "abandon", "unbind"}]
    OBVIOUS
  <2>6. pc \in [Tasks -> {"idle", "started"} \cup Active \cup Ended]
    OBVIOUS
  <2>7. TaskType
    BY <2>2, <2>5, <2>6 DEF TaskType
  <2> QED
    BY <2>1, <2>3, <2>4, <2>7 DEF StateType
<1>2. Roles
  BY TasksAssumption DEF Roles, Reading, Tasks
<1>3. TurnInv
  BY DEF TurnInv, Reading, Tasks
<1> QED
  BY <1>1, <1>2, <1>3 DEF TypeInv

Places == {"idle", "started"} \cup Active \cup Ended

\* Who moves neither into nor out of the queue leaves the turn as it was.
LEMMA Moved ==
    ASSUME TypeInv, NEW t \in Tasks, NEW w \in Places \ Reading,
           pc' = [pc EXCEPT ![t] = w], pc[t] \notin Reading, readers' = readers,
           t \in Unbinders => w \notin {"started", "wait"},
           doing' = doing \/ (t \in Ops /\ doing' = [doing EXCEPT ![t] = "abandon"])
    PROVE  Roles' /\ TurnInv'
<1>1. pc \in [Tasks -> Places] /\ doing \in [Tasks -> {"request", "abandon", "unbind"}]
  BY DEF TypeInv, StateType, TaskType, Places
<1>2. pc'[t] = w /\ \A u \in Tasks \ {t} : pc'[u] = pc[u]
  BY <1>1
<1>3. \A u \in Tasks : doing'[u] = "unbind" <=> u \in Unbinders
  BY <1>1, TasksAssumption DEF TypeInv, Roles
<1>4. Roles'
  BY <1>2, <1>3 DEF TypeInv, Roles
<1>5. TurnInv'
  BY <1>2 DEF TypeInv, TurnInv, Tasks, Reading
<1> QED
  BY <1>4, <1>5

\* A loss leaves nothing pending and no connection in use.
LEMMA LostType ==
    ASSUME StateType, Lost
    PROVE  /\ stream' \in 0..MaxConns /\ open' \subseteq Conns
           /\ pending' \subseteq Ops /\ done' \subseteq Ops /\ down' \subseteq done'
BY BoundsAssumption DEF StateType, ObjectType, NetType, Lost

\* Where a task may be after what _connected does first.
LEMMA Entered ==
    ASSUME TypeInv, NEW t \in Tasks, EnterSend(t)
    PROVE  /\ \E w \in {"failed", "connecting", "lockwrite"} : pc' = [pc EXCEPT ![t] = w]
           /\ local' \in [Tasks -> 0..MaxConns]
BY DEF TypeInv, StateType, TaskType, ObjectType, EnterSend, MoveTo

LEMMA StartType ==
    ASSUME TypeInv, NEW o \in Ops, Start(o)
    PROVE  TypeInv'
<1>1. o \in Tasks
  BY DEF Tasks
<1>2. StateType
  BY DEF TypeInv
<1>3. pc[o] \in {"idle"}
  BY DEF Start
<1>4. \E w \in {"failed", "connecting", "lockwrite"} : pc' = [pc EXCEPT ![o] = w]
  BY <1>1, Entered DEF Start, MoveTo
<1>5. ObjectType'
  BY <1>1, <1>2 DEF StateType, ObjectType, TaskType, NetType, Start, MoveTo, objectVars, bufferVars,
       lockVars, taskVars, netVars
<1>6. LockType'
  BY <1>1, <1>2 DEF StateType, LockType, Start, MoveTo, objectVars, bufferVars, lockVars,
       taskVars, netVars
<1>7. TaskType'
  <2>1. pc' \in [Tasks -> {"idle", "started"} \cup Active \cup Ended]
    BY <1>1, <1>2, <1>4 DEF StateType, TaskType, Active, Ended, Reading
  <2>2. /\ doing' \in [Tasks -> {"request", "abandon", "unbind"}]
        /\ local' \in [Tasks -> 0..MaxConns]
        /\ handed' \in [Ops -> Nat] /\ expired' \subseteq Timed
    BY <1>1, <1>2, Entered, BoundsAssumption DEF StateType, TaskType, ObjectType, NetType,
         Start, MoveTo, objectVars, bufferVars, lockVars, taskVars, netVars
  <2> QED
    BY <2>1, <2>2 DEF TaskType
<1>8. NetType'
  BY <1>1, <1>2, BoundsAssumption DEF StateType, NetType, TaskType, Conns, Roles, Start,
       MoveTo, objectVars, bufferVars, lockVars, taskVars, netVars
<1>9. Roles' /\ TurnInv'
  <2>1. PICK w \in {"failed", "connecting", "lockwrite"} : pc' = [pc EXCEPT ![o] = w]
    BY <1>4
  <2>2. w \in Places \ Reading /\ pc[o] \notin Reading
    BY <1>3 DEF Places, Active, Ended, Reading
  <2>3. o \in Unbinders => w \notin {"started", "wait"}
    BY <1>1, <2>1, TasksAssumption DEF TypeInv, StateType, TaskType, Roles, Start, MoveTo
  <2>4. /\ readers' = readers
        /\ doing' = doing \/ (o \in Ops /\ doing' = [doing EXCEPT ![o] = "abandon"])
    BY DEF Start, MoveTo, objectVars, bufferVars, lockVars, taskVars, netVars
  <2> QED
    BY <1>1, <2>1, <2>2, <2>3, <2>4, Moved
<1> QED
  BY <1>5, <1>6, <1>7, <1>8, <1>9 DEF TypeInv, StateType

LEMMA ConnectedType ==
    ASSUME TypeInv, NEW t \in Tasks, Connected(t)
    PROVE  TypeInv'
<1>1. t \in Tasks
  BY DEF Tasks
<1>2. StateType
  BY DEF TypeInv
<1>3. pc[t] \in {"connecting"}
  BY DEF Connected
<1>4. \E w \in {"lockwrite"} : pc' = [pc EXCEPT ![t] = w]
  BY <1>1 DEF Connected, MoveTo
<1>5. ObjectType'
  BY <1>1, <1>2, BoundsAssumption DEF StateType, ObjectType, TaskType, NetType, Connected,
       MoveTo, objectVars, bufferVars, lockVars, taskVars, netVars
<1>6. LockType'
  BY <1>1, <1>2 DEF StateType, LockType, Connected, MoveTo, objectVars, bufferVars, lockVars,
       taskVars,
       netVars
<1>7. TaskType'
  <2>1. pc' \in [Tasks -> {"idle", "started"} \cup Active \cup Ended]
    BY <1>1, <1>2, <1>4 DEF StateType, TaskType, Active, Ended, Reading
  <2>2. /\ doing' \in [Tasks -> {"request", "abandon", "unbind"}]
        /\ local' \in [Tasks -> 0..MaxConns]
        /\ handed' \in [Ops -> Nat] /\ expired' \subseteq Timed
    BY <1>1, <1>2, BoundsAssumption DEF StateType, TaskType, ObjectType, NetType, Connected,
         MoveTo, objectVars, bufferVars, lockVars, taskVars, netVars
  <2> QED
    BY <2>1, <2>2 DEF TaskType
<1>8. NetType'
  BY <1>1, <1>2, BoundsAssumption DEF StateType, NetType, TaskType, Conns, Roles, Connected,
       MoveTo, objectVars, bufferVars, lockVars, taskVars, netVars
<1>9. Roles' /\ TurnInv'
  <2>1. PICK w \in {"lockwrite"} : pc' = [pc EXCEPT ![t] = w]
    BY <1>4
  <2>2. w \in Places \ Reading /\ pc[t] \notin Reading
    BY <1>3 DEF Places, Active, Ended, Reading
  <2>3. t \in Unbinders => w \notin {"started", "wait"}
    BY <1>1, <2>1, TasksAssumption DEF TypeInv, StateType, TaskType, Roles, Connected, MoveTo
  <2>4. /\ readers' = readers
        /\ doing' = doing \/ (t \in Ops /\ doing' = [doing EXCEPT ![t] = "abandon"])
    BY DEF Connected, MoveTo, objectVars, bufferVars, lockVars, taskVars, netVars
  <2> QED
    BY <1>1, <2>1, <2>2, <2>3, <2>4, Moved
<1> QED
  BY <1>5, <1>6, <1>7, <1>8, <1>9 DEF TypeInv, StateType

LEMMA ConnectFailsType ==
    ASSUME TypeInv, NEW t \in Tasks, ConnectFails(t)
    PROVE  TypeInv'
<1>1. t \in Tasks
  BY DEF Tasks
<1>2. StateType
  BY DEF TypeInv
<1>3. pc[t] \in {"connecting"}
  BY DEF ConnectFails
<1>4. \E w \in {"failed"} : pc' = [pc EXCEPT ![t] = w]
  BY <1>1 DEF ConnectFails, MoveTo
<1>5. ObjectType'
  BY <1>1, <1>2 DEF StateType, ObjectType, TaskType, NetType, ConnectFails, MoveTo, objectVars,
       bufferVars,
       lockVars, taskVars, netVars
<1>6. LockType'
  BY <1>1, <1>2 DEF StateType, LockType, ConnectFails, MoveTo, objectVars, bufferVars, lockVars,
       taskVars,
       netVars
<1>7. TaskType'
  <2>1. pc' \in [Tasks -> {"idle", "started"} \cup Active \cup Ended]
    BY <1>1, <1>2, <1>4 DEF StateType, TaskType, Active, Ended, Reading
  <2>2. /\ doing' \in [Tasks -> {"request", "abandon", "unbind"}]
        /\ local' \in [Tasks -> 0..MaxConns]
        /\ handed' \in [Ops -> Nat] /\ expired' \subseteq Timed
    BY <1>1, <1>2, BoundsAssumption DEF StateType, TaskType, ObjectType, NetType, ConnectFails,
         MoveTo, objectVars, bufferVars, lockVars, taskVars, netVars
  <2> QED
    BY <2>1, <2>2 DEF TaskType
<1>8. NetType'
  BY <1>1, <1>2, BoundsAssumption DEF StateType, NetType, TaskType, Conns, Roles, ConnectFails,
       MoveTo, objectVars, bufferVars, lockVars, taskVars, netVars
<1>9. Roles' /\ TurnInv'
  <2>1. PICK w \in {"failed"} : pc' = [pc EXCEPT ![t] = w]
    BY <1>4
  <2>2. w \in Places \ Reading /\ pc[t] \notin Reading
    BY <1>3 DEF Places, Active, Ended, Reading
  <2>3. t \in Unbinders => w \notin {"started", "wait"}
    BY <1>1, <2>1, TasksAssumption DEF TypeInv, StateType, TaskType, Roles, ConnectFails, MoveTo
  <2>4. /\ readers' = readers
        /\ doing' = doing \/ (t \in Ops /\ doing' = [doing EXCEPT ![t] = "abandon"])
    BY DEF ConnectFails, MoveTo, objectVars, bufferVars, lockVars, taskVars, netVars
  <2> QED
    BY <1>1, <2>1, <2>2, <2>3, <2>4, Moved
<1> QED
  BY <1>5, <1>6, <1>7, <1>8, <1>9 DEF TypeInv, StateType

LEMMA AcquireWriteType ==
    ASSUME TypeInv, NEW t \in Tasks, AcquireWrite(t)
    PROVE  TypeInv'
<1>1. t \in Tasks
  BY DEF Tasks
<1>2. StateType
  BY DEF TypeInv
<1>3. pc[t] \in {"lockwrite"}
  BY DEF AcquireWrite
<1>4. \E w \in {"sending"} : pc' = [pc EXCEPT ![t] = w]
  BY <1>1 DEF AcquireWrite, MoveTo
<1>5. ObjectType'
  BY <1>1, <1>2 DEF StateType, ObjectType, TaskType, NetType, AcquireWrite, MoveTo, objectVars,
       bufferVars,
       lockVars, taskVars, netVars
<1>6. LockType'
  BY <1>1, <1>2 DEF StateType, LockType, AcquireWrite, MoveTo, objectVars, bufferVars, lockVars,
       taskVars,
       netVars
<1>7. TaskType'
  <2>1. pc' \in [Tasks -> {"idle", "started"} \cup Active \cup Ended]
    BY <1>1, <1>2, <1>4 DEF StateType, TaskType, Active, Ended, Reading
  <2>2. /\ doing' \in [Tasks -> {"request", "abandon", "unbind"}]
        /\ local' \in [Tasks -> 0..MaxConns]
        /\ handed' \in [Ops -> Nat] /\ expired' \subseteq Timed
    BY <1>1, <1>2, BoundsAssumption DEF StateType, TaskType, ObjectType, NetType, AcquireWrite,
         MoveTo, objectVars, bufferVars, lockVars, taskVars, netVars
  <2> QED
    BY <2>1, <2>2 DEF TaskType
<1>8. NetType'
  BY <1>1, <1>2, BoundsAssumption DEF StateType, NetType, TaskType, Conns, Roles, AcquireWrite,
       MoveTo, objectVars, bufferVars, lockVars, taskVars, netVars
<1>9. Roles' /\ TurnInv'
  <2>1. PICK w \in {"sending"} : pc' = [pc EXCEPT ![t] = w]
    BY <1>4
  <2>2. w \in Places \ Reading /\ pc[t] \notin Reading
    BY <1>3 DEF Places, Active, Ended, Reading
  <2>3. t \in Unbinders => w \notin {"started", "wait"}
    BY <1>1, <2>1, TasksAssumption DEF TypeInv, StateType, TaskType, Roles, AcquireWrite, MoveTo
  <2>4. /\ readers' = readers
        /\ doing' = doing \/ (t \in Ops /\ doing' = [doing EXCEPT ![t] = "abandon"])
    BY DEF AcquireWrite, MoveTo, objectVars, bufferVars, lockVars, taskVars, netVars
  <2> QED
    BY <1>1, <2>1, <2>2, <2>3, <2>4, Moved
<1> QED
  BY <1>5, <1>6, <1>7, <1>8, <1>9 DEF TypeInv, StateType

LEMMA TransmitType ==
    ASSUME TypeInv, NEW t \in Tasks, Transmit(t)
    PROVE  TypeInv'
<1>1. t \in Tasks
  BY DEF Tasks
<1>2. StateType
  BY DEF TypeInv
<1>3. pc[t] \in {"sending"}
  BY DEF Transmit
<1>4. \E w \in {"sent"} : pc' = [pc EXCEPT ![t] = w]
  BY <1>1 DEF Transmit, MoveTo
<1>5. ObjectType'
  BY <1>1, <1>2 DEF StateType, ObjectType, TaskType, NetType, Transmit, MoveTo, objectVars,
       bufferVars,
       lockVars, taskVars, netVars
<1>6. LockType'
  BY <1>1, <1>2 DEF StateType, LockType, Transmit, MoveTo, objectVars, bufferVars, lockVars,
       taskVars, netVars
<1>7. TaskType'
  <2>1. pc' \in [Tasks -> {"idle", "started"} \cup Active \cup Ended]
    BY <1>1, <1>2, <1>4 DEF StateType, TaskType, Active, Ended, Reading
  <2>2. /\ doing' \in [Tasks -> {"request", "abandon", "unbind"}]
        /\ local' \in [Tasks -> 0..MaxConns]
        /\ handed' \in [Ops -> Nat] /\ expired' \subseteq Timed
    BY <1>1, <1>2, BoundsAssumption DEF StateType, TaskType, ObjectType, NetType, Transmit,
         MoveTo, objectVars, bufferVars, lockVars, taskVars, netVars
  <2> QED
    BY <2>1, <2>2 DEF TaskType
<1>8. NetType'
  <2>1. local[t] \in Conns
    BY <1>2 DEF StateType, NetType, Transmit
  <2>2. doing[t] = "request" => t \in Ops
    BY <1>1, TasksAssumption DEF TypeInv, Roles, Tasks
  <2>3. alive' \subseteq Conns
    BY <1>1, <1>2 DEF StateType, NetType, TaskType, Transmit
  <2>4. asked' \in [Conns -> SUBSET Ops]
    <3>1. \/ asked' = asked
          \/ doing[t] = "request" /\ asked' = [asked EXCEPT ![local[t]] = @ \cup {t}]
          \/ asked' = [asked EXCEPT ![local[t]] = @ \ {t}]
      BY <1>1, <1>2 DEF StateType, TaskType, Transmit
    <3> QED
      BY <1>2, <2>1, <2>2, <3>1 DEF StateType, NetType
  <2> QED
    BY <1>2, <2>3, <2>4 DEF StateType, NetType, Transmit
<1>9. Roles' /\ TurnInv'
  <2>1. PICK w \in {"sent"} : pc' = [pc EXCEPT ![t] = w]
    BY <1>4
  <2>2. w \in Places \ Reading /\ pc[t] \notin Reading
    BY <1>3 DEF Places, Active, Ended, Reading
  <2>3. t \in Unbinders => w \notin {"started", "wait"}
    BY <1>1, <2>1, TasksAssumption DEF TypeInv, StateType, TaskType, Roles, Transmit, MoveTo
  <2>4. /\ readers' = readers
        /\ doing' = doing \/ (t \in Ops /\ doing' = [doing EXCEPT ![t] = "abandon"])
    BY DEF Transmit, MoveTo, objectVars, bufferVars, lockVars, taskVars, netVars
  <2> QED
    BY <1>1, <2>1, <2>2, <2>3, <2>4, Moved
<1> QED
  BY <1>5, <1>6, <1>7, <1>8, <1>9 DEF TypeInv, StateType

LEMMA SentType ==
    ASSUME TypeInv, NEW t \in Tasks, Sent(t)
    PROVE  TypeInv'
<1>1. t \in Tasks
  BY DEF Tasks
<1>2. StateType
  BY DEF TypeInv
<1>3. pc[t] \in {"sent"}
  BY DEF Sent
<1>4. \E w \in {"started", "returned"} : pc' = [pc EXCEPT ![t] = w]
  BY <1>1, <1>2 DEF StateType, TaskType, Sent, MoveTo
<1>5. ObjectType'
  <2>1. CASE doing[t] = "request"
    <3>1. t \in Ops
      BY <1>1, <2>1, TasksAssumption DEF TypeInv, Roles, Tasks
    <3> QED
      BY <1>2, <2>1, <3>1 DEF StateType, ObjectType, Sent, bufferVars
  <2>2. CASE doing[t] = "abandon"
    BY <1>2, <2>2 DEF StateType, ObjectType, Sent, bufferVars
  <2>3. CASE doing[t] = "unbind"
    BY <1>2, <2>3, LostType DEF StateType, ObjectType, Sent, Unbound, bufferVars
  <2> QED
    BY <1>1, <1>2, <2>1, <2>2, <2>3 DEF StateType, TaskType
<1>6. LockType'
  BY <1>1, <1>2 DEF StateType, LockType, Sent, MoveTo, objectVars, bufferVars, lockVars, taskVars,
       netVars
<1>7. TaskType'
  <2>1. pc' \in [Tasks -> {"idle", "started"} \cup Active \cup Ended]
    BY <1>1, <1>2, <1>4 DEF StateType, TaskType, Active, Ended, Reading
  <2>2. /\ doing' \in [Tasks -> {"request", "abandon", "unbind"}]
        /\ local' \in [Tasks -> 0..MaxConns]
        /\ handed' \in [Ops -> Nat] /\ expired' \subseteq Timed
    BY <1>1, <1>2, BoundsAssumption DEF StateType, TaskType, ObjectType, NetType, Sent, MoveTo,
         objectVars, bufferVars, lockVars, taskVars, netVars, Lost, Unbound
  <2> QED
    BY <2>1, <2>2 DEF TaskType
<1>8. NetType'
  BY <1>1, <1>2, BoundsAssumption DEF StateType, NetType, TaskType, Conns, Roles, Sent, MoveTo,
       objectVars, bufferVars, lockVars, taskVars, netVars, Lost, Unbound
<1>9. Roles' /\ TurnInv'
  <2>1. PICK w \in {"started", "returned"} : pc' = [pc EXCEPT ![t] = w]
    BY <1>4
  <2>2. w \in Places \ Reading /\ pc[t] \notin Reading
    BY <1>3 DEF Places, Active, Ended, Reading
  <2>3. t \in Unbinders => w \notin {"started", "wait"}
    BY <1>1, <2>1, TasksAssumption DEF TypeInv, StateType, TaskType, Roles, Sent, MoveTo
  <2>4. /\ readers' = readers
        /\ doing' = doing \/ (t \in Ops /\ doing' = [doing EXCEPT ![t] = "abandon"])
    BY DEF Sent, MoveTo, objectVars, bufferVars, lockVars, taskVars, netVars
  <2> QED
    BY <1>1, <2>1, <2>2, <2>3, <2>4, Moved
<1> QED
  BY <1>5, <1>6, <1>7, <1>8, <1>9 DEF TypeInv, StateType

LEMMA SendBrokenType ==
    ASSUME TypeInv, NEW t \in Tasks, SendBroken(t)
    PROVE  TypeInv'
<1>1. t \in Tasks
  BY DEF Tasks
<1>2. StateType
  BY DEF TypeInv
<1>3. pc[t] \in {"sending"}
  BY DEF SendBroken
<1>4. \E w \in {"returned", "failed"} : pc' = [pc EXCEPT ![t] = w]
  BY <1>1 DEF SendBroken, MoveTo, Lost, Unbound
<1>5. ObjectType'
  BY <1>1, <1>2, LostType DEF StateType, ObjectType, SendBroken, bufferVars
<1>6. LockType'
  BY <1>1, <1>2 DEF StateType, LockType, SendBroken, MoveTo, objectVars, bufferVars, lockVars,
       taskVars,
       netVars
<1>7. TaskType'
  <2>1. pc' \in [Tasks -> {"idle", "started"} \cup Active \cup Ended]
    BY <1>1, <1>2, <1>4 DEF StateType, TaskType, Active, Ended, Reading
  <2>2. /\ doing' \in [Tasks -> {"request", "abandon", "unbind"}]
        /\ local' \in [Tasks -> 0..MaxConns]
        /\ handed' \in [Ops -> Nat] /\ expired' \subseteq Timed
    BY <1>1, <1>2, BoundsAssumption DEF StateType, TaskType, ObjectType, NetType, SendBroken,
         MoveTo, objectVars, bufferVars, lockVars, taskVars, netVars, Lost, Unbound
  <2> QED
    BY <2>1, <2>2 DEF TaskType
<1>8. NetType'
  BY <1>1, <1>2, BoundsAssumption DEF StateType, NetType, TaskType, Conns, Roles, SendBroken,
       MoveTo, objectVars, bufferVars, lockVars, taskVars, netVars, Lost, Unbound
<1>9. Roles' /\ TurnInv'
  <2>1. PICK w \in {"returned", "failed"} : pc' = [pc EXCEPT ![t] = w]
    BY <1>4
  <2>2. w \in Places \ Reading /\ pc[t] \notin Reading
    BY <1>3 DEF Places, Active, Ended, Reading
  <2>3. t \in Unbinders => w \notin {"started", "wait"}
    BY <1>1, <2>1, TasksAssumption DEF TypeInv, StateType, TaskType, Roles, SendBroken, MoveTo
  <2>4. /\ readers' = readers
        /\ doing' = doing \/ (t \in Ops /\ doing' = [doing EXCEPT ![t] = "abandon"])
    BY DEF SendBroken, MoveTo, objectVars, bufferVars, lockVars, taskVars, netVars
  <2> QED
    BY <1>1, <2>1, <2>2, <2>3, <2>4, Moved
<1> QED
  BY <1>5, <1>6, <1>7, <1>8, <1>9 DEF TypeInv, StateType

LEMMA AbandonType ==
    ASSUME TypeInv, NEW o \in Ops, Abandon(o)
    PROVE  TypeInv'
<1>1. o \in Tasks
  BY DEF Tasks
<1>2. StateType
  BY DEF TypeInv
<1>3. pc[o] \in {"started"}
  BY DEF Abandon
<1>4. \E w \in {"returned", "failed", "connecting", "lockwrite"} : pc' = [pc EXCEPT ![o] = w]
  BY <1>1, Entered DEF Abandon, MoveTo
<1>5. ObjectType'
  BY <1>1, <1>2 DEF StateType, ObjectType, TaskType, NetType, Abandon, MoveTo, objectVars,
       bufferVars,
       lockVars, taskVars, netVars
<1>6. LockType'
  BY <1>1, <1>2 DEF StateType, LockType, Abandon, MoveTo, objectVars, bufferVars, lockVars,
       taskVars, netVars
<1>7. TaskType'
  <2>1. pc' \in [Tasks -> {"idle", "started"} \cup Active \cup Ended]
    BY <1>1, <1>2, <1>4 DEF StateType, TaskType, Active, Ended, Reading
  <2>2. /\ doing' \in [Tasks -> {"request", "abandon", "unbind"}]
        /\ local' \in [Tasks -> 0..MaxConns]
        /\ handed' \in [Ops -> Nat] /\ expired' \subseteq Timed
    BY <1>1, <1>2, Entered, BoundsAssumption DEF StateType, TaskType, ObjectType, NetType,
         Abandon, MoveTo, objectVars, bufferVars, lockVars, taskVars, netVars
  <2> QED
    BY <2>1, <2>2 DEF TaskType
<1>8. NetType'
  BY <1>1, <1>2, BoundsAssumption DEF StateType, NetType, TaskType, Conns, Roles, Abandon,
       MoveTo, objectVars, bufferVars, lockVars, taskVars, netVars
<1>9. Roles' /\ TurnInv'
  <2>1. PICK w \in {"returned", "failed", "connecting", "lockwrite"} : pc' = [pc EXCEPT ![o] = w]
    BY <1>4
  <2>2. w \in Places \ Reading /\ pc[o] \notin Reading
    BY <1>3 DEF Places, Active, Ended, Reading
  <2>3. o \in Unbinders => w \notin {"started", "wait"}
    BY <1>1, <2>1, TasksAssumption DEF TypeInv, StateType, TaskType, Roles, Abandon, MoveTo
  <2>4. /\ readers' = readers
        /\ doing' = doing \/ (o \in Ops /\ doing' = [doing EXCEPT ![o] = "abandon"])
    BY DEF Abandon, MoveTo, objectVars, bufferVars, lockVars, taskVars, netVars
  <2> QED
    BY <1>1, <2>1, <2>2, <2>3, <2>4, Moved
<1> QED
  BY <1>5, <1>6, <1>7, <1>8, <1>9 DEF TypeInv, StateType

LEMMA UnbindType ==
    ASSUME TypeInv, NEW t \in Unbinders, Unbind(t)
    PROVE  TypeInv'
<1>1. t \in Tasks
  BY DEF Tasks
<1>2. StateType
  BY DEF TypeInv
<1>3. pc[t] \in {"idle"}
  BY DEF Unbind
<1>4. \E w \in {"returned", "failed", "connecting", "lockwrite"} : pc' = [pc EXCEPT ![t] = w]
  BY <1>1, Entered DEF Unbind, MoveTo, Lost, Unbound
<1>5. ObjectType'
  BY <1>1, <1>2 DEF StateType, ObjectType, TaskType, NetType, Unbind, MoveTo, objectVars,
       bufferVars,
       lockVars, taskVars, netVars, Lost, Unbound
<1>6. LockType'
  BY <1>1, <1>2 DEF StateType, LockType, Unbind, MoveTo, objectVars, bufferVars, lockVars,
       taskVars, netVars
<1>7. TaskType'
  <2>1. pc' \in [Tasks -> {"idle", "started"} \cup Active \cup Ended]
    BY <1>1, <1>2, <1>4 DEF StateType, TaskType, Active, Ended, Reading
  <2>2. /\ doing' \in [Tasks -> {"request", "abandon", "unbind"}]
        /\ local' \in [Tasks -> 0..MaxConns]
        /\ handed' \in [Ops -> Nat] /\ expired' \subseteq Timed
    BY <1>1, <1>2, Entered, BoundsAssumption DEF StateType, TaskType, ObjectType, NetType,
         Unbind, MoveTo, objectVars, bufferVars, lockVars, taskVars, netVars, Lost, Unbound
  <2> QED
    BY <2>1, <2>2 DEF TaskType
<1>8. NetType'
  BY <1>1, <1>2, BoundsAssumption DEF StateType, NetType, TaskType, Conns, Roles, Unbind,
       MoveTo, objectVars, bufferVars, lockVars, taskVars, netVars, Lost, Unbound
<1>9. Roles' /\ TurnInv'
  <2>1. PICK w \in {"returned", "failed", "connecting", "lockwrite"} : pc' = [pc EXCEPT ![t] = w]
    BY <1>4
  <2>2. w \in Places \ Reading /\ pc[t] \notin Reading
    BY <1>3 DEF Places, Active, Ended, Reading
  <2>3. t \in Unbinders => w \notin {"started", "wait"}
    BY <1>1, <2>1, TasksAssumption DEF TypeInv, StateType, TaskType, Roles, Unbind, MoveTo
  <2>4. /\ readers' = readers
        /\ doing' = doing \/ (t \in Ops /\ doing' = [doing EXCEPT ![t] = "abandon"])
    BY DEF Unbind, MoveTo, objectVars, bufferVars, lockVars, taskVars, netVars
  <2> QED
    BY <1>1, <2>1, <2>2, <2>3, <2>4, Moved
<1> QED
  BY <1>5, <1>6, <1>7, <1>8, <1>9 DEF TypeInv, StateType

LEMMA CollectType ==
    ASSUME TypeInv, NEW o \in Ops, Collect(o)
    PROVE  TypeInv'
<1>1. o \in Tasks
  BY DEF Tasks
<1>2. StateType
  BY DEF TypeInv
<1>3. pc[o] \in {"started"}
  BY DEF Collect
<1>4. \E w \in {"wait", "unknown"} : pc' = [pc EXCEPT ![o] = w]
  BY <1>1 DEF Collect, MoveTo
<1>5. ObjectType'
  BY <1>1, <1>2 DEF StateType, ObjectType, TaskType, NetType, Collect, MoveTo, objectVars,
       bufferVars,
       lockVars, taskVars, netVars
<1>6. LockType'
  BY <1>1, <1>2 DEF StateType, LockType, Collect, MoveTo, objectVars, bufferVars, lockVars,
       taskVars, netVars
<1>7. TaskType'
  <2>1. pc' \in [Tasks -> {"idle", "started"} \cup Active \cup Ended]
    BY <1>1, <1>2, <1>4 DEF StateType, TaskType, Active, Ended, Reading
  <2>2. /\ doing' \in [Tasks -> {"request", "abandon", "unbind"}]
        /\ local' \in [Tasks -> 0..MaxConns]
        /\ handed' \in [Ops -> Nat] /\ expired' \subseteq Timed
    BY <1>1, <1>2, BoundsAssumption DEF StateType, TaskType, ObjectType, NetType, Collect,
         MoveTo, objectVars, bufferVars, lockVars, taskVars, netVars
  <2> QED
    BY <2>1, <2>2 DEF TaskType
<1>8. NetType'
  BY <1>1, <1>2, BoundsAssumption DEF StateType, NetType, TaskType, Conns, Roles, Collect,
       MoveTo, objectVars, bufferVars, lockVars, taskVars, netVars
<1>9. Roles' /\ TurnInv'
  <2>1. PICK w \in {"wait", "unknown"} : pc' = [pc EXCEPT ![o] = w]
    BY <1>4
  <2>2. w \in Places \ Reading /\ pc[o] \notin Reading
    BY <1>3 DEF Places, Active, Ended, Reading
  <2>3. o \in Unbinders => w \notin {"started", "wait"}
    BY <1>1, <2>1, TasksAssumption DEF TypeInv, StateType, TaskType, Roles, Collect, MoveTo
  <2>4. /\ readers' = readers
        /\ doing' = doing \/ (o \in Ops /\ doing' = [doing EXCEPT ![o] = "abandon"])
    BY DEF Collect, MoveTo, objectVars, bufferVars, lockVars, taskVars, netVars
  <2> QED
    BY <1>1, <2>1, <2>2, <2>3, <2>4, Moved
<1> QED
  BY <1>5, <1>6, <1>7, <1>8, <1>9 DEF TypeInv, StateType

LEMMA HandOutType ==
    ASSUME TypeInv, NEW o \in Ops, HandOut(o)
    PROVE  TypeInv'
<1>1. o \in Tasks
  BY DEF Tasks
<1>2. StateType
  BY DEF TypeInv
<1>3. pc[o] \in {"wait"}
  BY DEF HandOut
<1>4. \E w \in {"started"} : pc' = [pc EXCEPT ![o] = w]
  BY <1>1 DEF HandOut, MoveTo
<1>5. ObjectType'
  BY <1>1, <1>2 DEF StateType, ObjectType, TaskType, NetType, HandOut, MoveTo, objectVars,
       bufferVars,
       lockVars, taskVars, netVars
<1>6. LockType'
  BY <1>1, <1>2 DEF StateType, LockType, HandOut, MoveTo, objectVars, bufferVars, lockVars,
       taskVars, netVars
<1>7. TaskType'
  <2>1. pc' \in [Tasks -> {"idle", "started"} \cup Active \cup Ended]
    BY <1>1, <1>2, <1>4 DEF StateType, TaskType, Active, Ended, Reading
  <2>2. /\ doing' \in [Tasks -> {"request", "abandon", "unbind"}]
        /\ local' \in [Tasks -> 0..MaxConns]
        /\ handed' \in [Ops -> Nat] /\ expired' \subseteq Timed
    BY <1>1, <1>2, BoundsAssumption DEF StateType, TaskType, ObjectType, NetType, HandOut,
         MoveTo, objectVars, bufferVars, lockVars, taskVars, netVars
  <2> QED
    BY <2>1, <2>2 DEF TaskType
<1>8. NetType'
  BY <1>1, <1>2, BoundsAssumption DEF StateType, NetType, TaskType, Conns, Roles, HandOut,
       MoveTo, objectVars, bufferVars, lockVars, taskVars, netVars
<1>9. Roles' /\ TurnInv'
  <2>1. PICK w \in {"started"} : pc' = [pc EXCEPT ![o] = w]
    BY <1>4
  <2>2. w \in Places \ Reading /\ pc[o] \notin Reading
    BY <1>3 DEF Places, Active, Ended, Reading
  <2>3. o \in Unbinders => w \notin {"started", "wait"}
    BY <1>1, <2>1, TasksAssumption DEF TypeInv, StateType, TaskType, Roles, HandOut, MoveTo
  <2>4. /\ readers' = readers
        /\ doing' = doing \/ (o \in Ops /\ doing' = [doing EXCEPT ![o] = "abandon"])
    BY DEF HandOut, MoveTo, objectVars, bufferVars, lockVars, taskVars, netVars
  <2> QED
    BY <1>1, <2>1, <2>2, <2>3, <2>4, Moved
<1> QED
  BY <1>5, <1>6, <1>7, <1>8, <1>9 DEF TypeInv, StateType

LEMMA FinishType ==
    ASSUME TypeInv, NEW o \in Ops, Finish(o)
    PROVE  TypeInv'
<1>1. o \in Tasks
  BY DEF Tasks
<1>2. StateType
  BY DEF TypeInv
<1>3. pc[o] \in {"wait"}
  BY DEF Finish
<1>4. \E w \in {"failed", "returned"} : pc' = [pc EXCEPT ![o] = w]
  BY <1>1 DEF Finish, MoveTo
<1>5. ObjectType'
  BY <1>1, <1>2 DEF StateType, ObjectType, TaskType, NetType, Finish, MoveTo, objectVars,
       bufferVars,
       lockVars, taskVars, netVars
<1>6. LockType'
  BY <1>1, <1>2 DEF StateType, LockType, Finish, MoveTo, objectVars, bufferVars, lockVars,
       taskVars, netVars
<1>7. TaskType'
  <2>1. pc' \in [Tasks -> {"idle", "started"} \cup Active \cup Ended]
    BY <1>1, <1>2, <1>4 DEF StateType, TaskType, Active, Ended, Reading
  <2>2. /\ doing' \in [Tasks -> {"request", "abandon", "unbind"}]
        /\ local' \in [Tasks -> 0..MaxConns]
        /\ handed' \in [Ops -> Nat] /\ expired' \subseteq Timed
    BY <1>1, <1>2, SMTT(60) DEF StateType, TaskType, ObjectType, Finish
  <2> QED
    BY <2>1, <2>2 DEF TaskType
<1>8. NetType'
  BY <1>1, <1>2, BoundsAssumption DEF StateType, NetType, TaskType, Conns, Roles, Finish,
       MoveTo, objectVars, bufferVars, lockVars, taskVars, netVars
<1>9. Roles' /\ TurnInv'
  <2>1. PICK w \in {"failed", "returned"} : pc' = [pc EXCEPT ![o] = w]
    BY <1>4
  <2>2. w \in Places \ Reading /\ pc[o] \notin Reading
    BY <1>3 DEF Places, Active, Ended, Reading
  <2>3. o \in Unbinders => w \notin {"started", "wait"}
    BY <1>1, <2>1, TasksAssumption DEF TypeInv, StateType, TaskType, Roles, Finish, MoveTo
  <2>4. /\ readers' = readers
        /\ doing' = doing \/ (o \in Ops /\ doing' = [doing EXCEPT ![o] = "abandon"])
    BY DEF Finish, MoveTo, objectVars, bufferVars, lockVars, taskVars, netVars
  <2> QED
    BY <1>1, <2>1, <2>2, <2>3, <2>4, Moved
<1> QED
  BY <1>5, <1>6, <1>7, <1>8, <1>9 DEF TypeInv, StateType

\* A sequence to which one more is added, and one without its first.
LEMMA Queued ==
    ASSUME NEW S, NEW s \in Seq(S), NEW m \in S
    PROVE  /\ Append(s, m) \in Seq(S)
           /\ Len(s) \in Nat /\ DOMAIN s = 1..Len(s)
           /\ DOMAIN Append(s, m) = 1..(Len(s) + 1) /\ Append(s, m)[Len(s) + 1] = m
           /\ \A i \in 1..Len(s) : Append(s, m)[i] = s[i]
BY LenProperties, AppendProperties

LEMMA Dequeued ==
    ASSUME NEW S, NEW s \in Seq(S), s # <<>>
    PROVE  /\ Tail(s) \in Seq(S)
           /\ Len(s) \in Nat /\ Len(s) >= 1 /\ DOMAIN s = 1..Len(s)
           /\ DOMAIN Tail(s) = 1..(Len(s) - 1)
           /\ \A i \in 1..(Len(s) - 1) : Tail(s)[i] = s[i + 1]
<1>1. Len(s) \in Nat /\ DOMAIN s = 1..Len(s) /\ Len(s) # 0
  BY LenProperties, EmptySeq
<1>2. /\ Tail(s) \in Seq(S) /\ Len(Tail(s)) = Len(s) - 1
      /\ \A i \in 1..Len(Tail(s)) : Tail(s)[i] = s[i + 1]
  BY HeadTailProperties
<1> QED
  BY <1>1, <1>2, LenProperties

\* What an operation's place in the queue leaves when it is given up.
LEMMA LeftOut ==
    ASSUME NEW S, NEW s \in Seq(S), NEW k \in DOMAIN s,
           NEW r, r = SubSeq(s, 1, k - 1) \o SubSeq(s, k + 1, Len(s))
    PROVE  /\ r \in Seq(S)
           /\ Len(s) \in Nat /\ Len(s) >= 1 /\ DOMAIN s = 1..Len(s)
           /\ DOMAIN r = 1..(Len(s) - 1)
           /\ \A i \in 1..(Len(s) - 1) : r[i] = IF i < k THEN s[i] ELSE s[i + 1]
<1>1. Len(s) \in Nat /\ DOMAIN s = 1..Len(s) /\ k \in Nat /\ 1 <= k /\ k <= Len(s)
  BY LenProperties
<1>2. k \in 0..Len(s) /\ k - 1 \in 0..Len(s) /\ Len(s) - 1 \in Nat /\ Len(s) - k \in Nat
  BY <1>1
<1> DEFINE a == SubSeq(s, 1, k - 1)
           b == SubSeq(s, k + 1, Len(s))
<1>3. a \in Seq(S) /\ DOMAIN a = 1..(k - 1) /\ \A i \in 1..(k - 1) : a[i] = s[i]
  <2>1. PICK j \in 0..Len(s) : j = k - 1
    BY <1>2
  <2>2. /\ SubSeq(s, 1, j) \in Seq(S) /\ DOMAIN SubSeq(s, 1, j) = 1..j
        /\ \A i \in 1..j : SubSeq(s, 1, j)[i] = s[i]
    BY Parts
  <2> QED
    BY <2>1, <2>2
<1>4. b \in Seq(S) /\ DOMAIN b = 1..(Len(s) - k) /\ \A i \in 1..(Len(s) - k) : b[i] = s[k + i]
  <2> HIDE DEF b
  <2>1. b = SubSeq(s, k + 1, Len(s))
    BY DEF b
  <2>2. k \in 0..Len(s)
    BY <1>2
  <2> QED
    BY <2>1, <2>2, Parts
<1> HIDE DEF a, b
<1>5. Len(a) = k - 1 /\ Len(b) = Len(s) - k
  <2>1. Len(a) \in Nat /\ DOMAIN a = 1..Len(a)
    BY <1>3, LenProperties
  <2>2. Len(b) \in Nat /\ DOMAIN b = 1..Len(b)
    BY <1>4, LenProperties
  <2>3. \A m, n \in Nat : 1..m = 1..n => m = n
    <3> SUFFICES ASSUME NEW m \in Nat, NEW n \in Nat, 1..m = 1..n, m # n PROVE FALSE
      OBVIOUS
    <3>1. CASE m < n
      <4>1. n \in 1..n /\ n \notin 1..m
        BY <3>1
      <4> QED
        BY <4>1
    <3>2. CASE n < m
      <4>1. m \in 1..m /\ m \notin 1..n
        BY <3>2
      <4> QED
        BY <4>1
    <3> QED
      BY <3>1, <3>2
  <2> QED
    BY <1>1, <1>2, <1>3, <1>4, <2>1, <2>2, <2>3
<1>6. r = a \o b
  BY DEF a, b
<1>7. /\ r \in Seq(S) /\ Len(r) = (k - 1) + (Len(s) - k)
      /\ \A i \in 1..((k - 1) + (Len(s) - k)) : r[i] = IF i <= k - 1 THEN a[i] ELSE b[i - (k - 1)]
  <2>1. /\ a \o b \in Seq(S) /\ Len(a \o b) = Len(a) + Len(b)
        /\ \A i \in 1..(Len(a) + Len(b)) :
             (a \o b)[i] = IF i <= Len(a) THEN a[i] ELSE b[i - Len(a)]
    BY <1>3, <1>4, ConcatProperties
  <2> QED
    BY <1>5, <1>6, <2>1
<1>8. (k - 1) + (Len(s) - k) = Len(s) - 1
  BY <1>1
<1>9. DOMAIN r = 1..(Len(s) - 1)
  BY <1>7, <1>8, LenProperties
<1>10. \A i \in 1..(Len(s) - 1) : r[i] = IF i < k THEN s[i] ELSE s[i + 1]
  <2> TAKE i \in 1..(Len(s) - 1)
  <2>1. i \in Nat /\ 1 <= i /\ i <= Len(s) - 1
    BY <1>1
  <2>2. CASE i < k
    <3>1. i <= k - 1 /\ i \in 1..(k - 1)
      BY <1>1, <2>1, <2>2
    <3> QED
      BY <1>3, <1>7, <1>8, <2>2, <3>1
  <2>3. CASE ~(i < k)
    <3>1. ~(i <= k - 1) /\ i - (k - 1) \in 1..(Len(s) - k) /\ k + (i - (k - 1)) = i + 1
      <4>1. PICK n \in Nat : n = Len(s)
        BY <1>1
      <4>2. k \in Nat /\ 1 <= k /\ k <= n /\ i <= n - 1
        <5>1. k \in 1..n /\ i \in 1..(n - 1)
          BY <1>1, <2>1, <4>1
        <5> QED
          BY <4>1, <5>1, SMTT(60)
      <4>3. ~(i <= k - 1) /\ i - (k - 1) \in 1..(n - k) /\ k + (i - (k - 1)) = i + 1
        BY <2>1, <2>3, <4>1, <4>2, SMTT(60)
      <4> QED
        BY <4>1, <4>3
    <3>2. r[i] = b[i - (k - 1)]
      BY <1>7, <1>8, <3>1
    <3>3. b[i - (k - 1)] = s[k + (i - (k - 1))]
      BY <1>4, <3>1
    <3> QED
      BY <2>3, <3>1, <3>2, <3>3
  <2> QED
    BY <2>2, <2>3
<1>11. r \in Seq(S)
  BY <1>7
<1>12. Len(s) >= 1
  BY <1>1
<1> QED
  BY <1>1, <1>9, <1>10, <1>11, <1>12

\* Who gives up its place in the queue leaves the others theirs.
LEMMA TurnGivenUp ==
    ASSUME TypeInv, NEW o \in Ops, NEW k \in DOMAIN readers, readers[k] = o,
           NEW w \in Places \ Reading, pc' = [pc EXCEPT ![o] = w],
           Len(readers) \in Nat, DOMAIN readers = 1..Len(readers),
           DOMAIN readers' = 1..(Len(readers) - 1),
           \A i \in 1..(Len(readers) - 1) :
             readers'[i] = IF i < k THEN readers[i] ELSE readers[i + 1]
    PROVE  TurnInv'
<1> DEFINE n == Len(readers)
           r == readers'
<1> HIDE DEF n, r
<1>1. /\ n \in Nat /\ k \in Nat /\ 1 <= k /\ k <= n /\ DOMAIN readers = 1..n
      /\ DOMAIN r = 1..(n - 1)
      /\ \A i \in 1..(n - 1) : r[i] = IF i < k THEN readers[i] ELSE readers[i + 1]
  BY DEF n, r
<1>2. pc'[o] \notin Reading /\ \A p \in Ops \ {o} : pc'[p] = pc[p]
  BY DEF TypeInv, StateType, TaskType, Tasks
<1>3. /\ \A i, j \in 1..n : readers[i] = readers[j] => i = j
      /\ \A p \in Ops : pc[p] \in Reading <=> \E i \in 1..n : readers[i] = p
      /\ \A p \in Ops : pc[p] = "reading" => readers[1] = p
  BY <1>1 DEF TypeInv, TurnInv
<1>4. \A i, j \in 1..(n - 1) : r[i] = r[j] => i = j
  <2> SUFFICES ASSUME NEW i \in 1..(n - 1), NEW j \in 1..(n - 1), r[i] = r[j] PROVE i = j
    OBVIOUS
  <2>1. PICK a \in 1..n : a = IF i < k THEN i ELSE i + 1
    BY <1>1
  <2>2. PICK b \in 1..n : b = IF j < k THEN j ELSE j + 1
    BY <1>1
  <2>3. readers[a] = readers[b]
    BY <1>1, <2>1, <2>2
  <2>4. a = b
    BY <1>3, <2>3
  <2> QED
    BY <1>1, <2>1, <2>2, <2>4
<1>5. \A p \in Ops : pc'[p] \in Reading <=> \E i \in 1..(n - 1) : r[i] = p
  <2> TAKE p \in Ops
  <2>1. CASE p = o
    <3>1. ASSUME NEW i \in 1..(n - 1), r[i] = o PROVE FALSE
      <4>1. CASE i < k
        <5>1. readers[i] = readers[k] /\ i \in 1..n /\ k \in 1..n
          BY <1>1, <3>1, <4>1
        <5> QED
          BY <1>1, <1>3, <4>1, <5>1
      <4>2. CASE ~(i < k)
        <5>1. readers[i + 1] = readers[k] /\ i + 1 \in 1..n /\ k \in 1..n
          BY <1>1, <3>1, <4>2
        <5>2. i + 1 = k
          BY <1>3, <5>1
        <5> QED
          BY <1>1, <4>2, <5>2
      <4> QED
        BY <4>1, <4>2
    <3> QED
      BY <1>2, <2>1, <3>1
  <2>2. CASE p # o
    <3>1. ASSUME NEW i \in 1..n, readers[i] = p PROVE \E j \in 1..(n - 1) : r[j] = p
      <4>1. i # k
        BY <2>2, <3>1
      <4>2. CASE i < k
        <5>1. i \in 1..(n - 1) /\ r[i] = p
          BY <1>1, <3>1, <4>2
        <5> QED
          BY <5>1
      <4>3. CASE i > k
        <5>1. i - 1 \in 1..(n - 1) /\ ~(i - 1 < k) /\ (i - 1) + 1 = i
          BY <1>1, <4>3
        <5>2. r[i - 1] = p
          BY <1>1, <3>1, <5>1
        <5> QED
          BY <5>1, <5>2
      <4> QED
        BY <1>1, <4>1, <4>2, <4>3
    <3>2. ASSUME NEW j \in 1..(n - 1), r[j] = p PROVE \E i \in 1..n : readers[i] = p
      <4>1. j \in 1..n /\ j + 1 \in 1..n
        BY <1>1
      <4> QED
        BY <1>1, <3>2, <4>1
    <3>3. (\E i \in 1..n : readers[i] = p) <=> (\E j \in 1..(n - 1) : r[j] = p)
      BY <3>1, <3>2
    <3> QED
      BY <1>2, <1>3, <2>2, <3>3
  <2> QED
    BY <2>1, <2>2
<1>6. \A p \in Ops : pc'[p] = "reading" => r[1] = p
  <2> SUFFICES ASSUME NEW p \in Ops, pc'[p] = "reading" PROVE r[1] = p
    OBVIOUS
  <2>1. p # o /\ pc[p] = "reading"
    BY <1>2 DEF Reading
  <2>2. readers[1] = p
    BY <1>3, <2>1
  <2>3. 1 < k
    BY <1>1, <2>1, <2>2
  <2>4. 1 \in 1..(n - 1)
    BY <1>1, <2>3
  <2> QED
    BY <1>1, <2>2, <2>3, <2>4
<1> QED
  BY <1>1, <1>4, <1>5, <1>6 DEF TurnInv, r

\* An unbinder is not concerned by what an operation does.
LEMMA OpMoved ==
    ASSUME TypeInv, NEW o \in Ops, NEW w, pc' = [pc EXCEPT ![o] = w], doing' = doing
    PROVE  Roles'
BY TasksAssumption DEF TypeInv, StateType, TaskType, Roles, Tasks

LEMMA QueueToReadType ==
    ASSUME TypeInv, NEW o \in Ops, QueueToRead(o)
    PROVE  TypeInv'
<1>1. o \in Tasks /\ StateType
  BY DEF Tasks, TypeInv
<1>2. readers \in Seq(Ops)
  BY <1>1 DEF StateType, LockType
<1>3. /\ readers' = Append(readers, o) /\ pc' = [pc EXCEPT ![o] = "lockread"]
      /\ pc[o] = "wait"
  BY DEF QueueToRead, MoveTo
<1>4. /\ readers' \in Seq(Ops)
      /\ Len(readers) \in Nat /\ DOMAIN readers = 1..Len(readers)
      /\ DOMAIN readers' = 1..(Len(readers) + 1) /\ readers'[Len(readers) + 1] = o
      /\ \A i \in 1..Len(readers) : readers'[i] = readers[i]
  BY <1>2, <1>3, Queued
<1>5. ObjectType' /\ NetType' /\ LockType'
  BY <1>1, <1>4 DEF StateType, ObjectType, NetType, LockType, QueueToRead, objectVars, bufferVars,
       netVars
<1>6. TaskType'
  BY <1>1, <1>3 DEF StateType, TaskType, QueueToRead, Active, Reading
<1>7. Roles'
  BY <1>3, OpMoved DEF QueueToRead
<1>8. TurnInv'
  <2> DEFINE n == Len(readers)
  <2>1. pc'[o] = "lockread" /\ \A p \in Ops \ {o} : pc'[p] = pc[p]
    BY <1>1, <1>3 DEF StateType, TaskType, Tasks
  <2>2. \A i \in 1..n : readers[i] # o
    BY <1>3, <1>4 DEF TypeInv, TurnInv, Reading
  <2> HIDE DEF n
  <2>3. \A i \in 1..(n + 1) : i \in 1..n \/ i = n + 1
    BY <1>4 DEF n
  <2>4. \A i \in 1..n : i \in 1..(n + 1)
    BY <1>4 DEF n
  <2>5. /\ DOMAIN readers = 1..n /\ DOMAIN readers' = 1..(n + 1) /\ readers'[n + 1] = o
        /\ n + 1 \in 1..(n + 1) /\ \A i \in 1..n : readers'[i] = readers[i]
    BY <1>4 DEF n
  <2>6. \A i, j \in 1..(n + 1) : readers'[i] = readers'[j] => i = j
    BY <2>2, <2>3, <2>5 DEF TypeInv, TurnInv
  <2>7. \A p \in Ops : pc'[p] \in Reading <=> \E i \in 1..(n + 1) : readers'[i] = p
    BY <2>1, <2>2, <2>3, <2>4, <2>5 DEF TypeInv, TurnInv, Reading
  <2>8. \A p \in Ops : pc'[p] = "reading" => readers'[1] = p
    <3> SUFFICES ASSUME NEW p \in Ops, pc'[p] = "reading" PROVE readers'[1] = p
      OBVIOUS
    <3>1. p # o /\ pc[p] = "reading"
      BY <2>1
    <3>2. readers[1] = p /\ \E i \in 1..n : readers[i] = p
      BY <2>5, <3>1 DEF TypeInv, TurnInv, Reading
    <3>3. 1 \in 1..n
      BY <1>4, <3>2 DEF n
    <3> QED
      BY <2>5, <3>2, <3>3
  <2> QED
    BY <2>5, <2>6, <2>7, <2>8 DEF TurnInv
<1> QED
  BY <1>1, <1>5, <1>6, <1>7, <1>8 DEF TypeInv, StateType

\* Whoever is first gives up the lock.
LEMMA FirstLeaves ==
    ASSUME TypeInv, NEW o \in Ops, pc[o] \in Reading, readers[1] = o,
           readers' = Tail(readers),
           NEW w \in Places \ Reading, pc' = [pc EXCEPT ![o] = w]
    PROVE  readers' \in Seq(Ops) /\ TurnInv'
<1>1. readers \in Seq(Ops) /\ readers # <<>>
  BY DEF TypeInv, StateType, LockType, TurnInv
<1>2. /\ readers' \in Seq(Ops) /\ Len(readers) \in Nat /\ Len(readers) >= 1
      /\ DOMAIN readers = 1..Len(readers) /\ DOMAIN readers' = 1..(Len(readers) - 1)
      /\ \A i \in 1..(Len(readers) - 1) : readers'[i] = readers[i + 1]
  BY <1>1, Dequeued
<1>3. 1 \in DOMAIN readers
  BY <1>2
<1>4. \A i \in 1..(Len(readers) - 1) :
         readers'[i] = IF i < 1 THEN readers[i] ELSE readers[i + 1]
  BY <1>2
<1> QED
  BY <1>2, <1>3, <1>4, TurnGivenUp

LEMMA BeginReadType ==
    ASSUME TypeInv, NEW o \in Ops, BeginRead(o)
    PROVE  TypeInv'
<1>1. o \in Tasks /\ StateType
  BY DEF Tasks, TypeInv
<1>2. ObjectType' /\ NetType' /\ doing' = doing /\ writing' = writing
  BY <1>1 DEF StateType, ObjectType, NetType, BeginRead, objectVars, bufferVars, netVars
<1>3. pc[o] = "lockread" /\ pc[o] \in Reading /\ readers[1] = o
  BY DEF BeginRead, Reading
<1>4. TaskType'
  BY <1>1 DEF StateType, TaskType, ObjectType, BeginRead, MoveTo, Active, Ended, Reading
<1>5. CASE StillNeeded(o) /\ stream # 0
  <2>1. pc' = [pc EXCEPT ![o] = "reading"] /\ readers' = readers
    BY <1>5 DEF BeginRead, MoveTo
  <2>2. pc'[o] = "reading" /\ \A p \in Ops \ {o} : pc'[p] = pc[p]
    BY <1>1, <2>1 DEF StateType, TaskType, Tasks
  <2>3. TurnInv'
    BY <1>3, <2>1, <2>2 DEF TypeInv, TurnInv, Reading
  <2>4. Roles' /\ LockType'
    BY <1>1, <1>2, <2>1, OpMoved DEF StateType, LockType
  <2> QED
    BY <1>2, <1>4, <2>3, <2>4 DEF TypeInv, StateType
<1>6. CASE ~(StillNeeded(o) /\ stream # 0)
  <2>1. PICK w \in {"crashed", "wait"} : pc' = [pc EXCEPT ![o] = w] /\ readers' = Tail(readers)
    BY <1>6 DEF BeginRead, MoveTo
  <2>2. w \in Places \ Reading
    BY DEF Places, Active, Ended, Reading
  <2>3. readers' \in Seq(Ops) /\ TurnInv'
    BY <1>3, <2>1, <2>2, FirstLeaves
  <2>4. Roles' /\ LockType'
    BY <1>1, <1>2, <2>1, <2>3, OpMoved DEF StateType, LockType
  <2> QED
    BY <1>2, <1>4, <2>3, <2>4 DEF TypeInv, StateType
<1> QED
  BY <1>5, <1>6

\* Whoever has read is back at looking whether that is enough.
LEMMA ReadEndsType ==
    ASSUME TypeInv, NEW o \in Ops, pc[o] = "reading",
           NEW where \in {"wait", "crashed"}, ReadEnds(o, where),
           UNCHANGED <<writing, doing, expired, handed>>
    PROVE  TurnInv' /\ Roles' /\ LockType' /\ TaskType'
<1>1. o \in Tasks /\ StateType
  BY DEF Tasks, TypeInv
<1>2. /\ pc[o] \in Reading /\ readers[1] = o /\ where \in Places \ Reading
      /\ pc' = [pc EXCEPT ![o] = where] /\ readers' = Tail(readers)
      /\ local' = [local EXCEPT ![o] = 0]
  BY DEF TypeInv, TurnInv, Places, Reading, Active, Ended, ReadEnds, MoveTo
<1>3. readers' \in Seq(Ops) /\ TurnInv'
  BY <1>2, FirstLeaves
<1>4. Roles'
  BY <1>2, OpMoved
<1>5. TaskType'
  BY <1>1, <1>2, BoundsAssumption DEF StateType, TaskType, Places
<1> QED
  BY <1>1, <1>3, <1>4, <1>5 DEF StateType, LockType

\* Of what is on the connection the reader takes n messages, some of them whole.
Takes(o, n, whole) ==
    /\ n \in 0..Len(wire[local[o]]) /\ whole \in SUBSET (1..n)
    /\ spoiled' \/ whole = 1..n
    /\ Dispatch(SubSeq(wire[local[o]], 1, n), whole)
    /\ wire' = [wire EXCEPT ![local[o]] = SubSeq(@, n + 1, Len(@))]

LEMMA ReadParts ==
    ASSUME StateType, NEW o \in Ops, Read(o)
    PROVE  /\ pc[o] = "reading" /\ local[o] \in Conns /\ MayRun(o)
           /\ \E where \in {"wait", "crashed"} : ReadEnds(o, where)
           /\ \E n \in Nat : \E whole \in SUBSET (1..n) : Takes(o, n, whole)
           /\ buffer' \in {0, local[o]} /\ spoiled' \in BOOLEAN /\ (spoiled => spoiled')
           /\ UNCHANGED <<stream, unbound, pending, down, writing, doing, expired, handed,
                          opened, open, alive, asked, said>>
<1>1. local[o] \in Conns /\ wire[local[o]] \in Seq(Message) /\ spoiled \in BOOLEAN
  BY DEF Read, StateType, NetType, ObjectType
<1>2. PICK n \in 0..Len(wire[local[o]]) :
        /\ \E whole \in SUBSET (1..n) :
             /\ spoiled' \/ whole = 1..n
             /\ Dispatch(SubSeq(wire[local[o]], 1, n), whole)
        /\ buffer' \in {0, local[o]}
        /\ wire' = [wire EXCEPT ![local[o]] = SubSeq(@, n + 1, Len(@))]
  BY DEF Read
<1>3. n \in Nat
  BY <1>1, LenProperties
<1>4. \E whole \in SUBSET (1..n) : Takes(o, n, whole)
  BY <1>2 DEF Takes
<1> QED
  BY <1>1, <1>2, <1>3, <1>4 DEF Read

LEMMA ReadType ==
    ASSUME TypeInv, NEW o \in Ops, Read(o)
    PROVE  TypeInv'
<1>1. o \in Tasks /\ StateType
  BY DEF Tasks, TypeInv
<1>2. TurnInv' /\ Roles' /\ LockType' /\ TaskType'
  BY <1>1, ReadParts, ReadEndsType
<1>3. PICK n \in Nat : \E whole \in SUBSET (1..n) : Takes(o, n, whole)
  BY <1>1, ReadParts
<1>4. PICK whole \in SUBSET (1..n) : Takes(o, n, whole)
  BY <1>3
<1> DEFINE s == wire[local[o]]
           m == SubSeq(s, 1, n)
<1>5. local[o] \in Conns /\ s \in Seq(Message) /\ n \in 0..Len(s) /\ Len(s) \in Nat
  BY <1>1, <1>4, ReadParts, LenProperties DEF StateType, NetType, Takes
<1>6. m \in Seq(Message) /\ DOMAIN m = 1..n /\ SubSeq(s, n + 1, Len(s)) \in Seq(Message)
  BY <1>5, Parts
<1>7. NetType'
  BY <1>1, <1>4, <1>5, <1>6, ReadParts DEF StateType, NetType, Takes
<1>8. ObjectType'
  <2>1. Dispatch(m, whole)
    BY <1>4 DEF Takes
  <2> HIDE DEF m
  <2>2. \A p \in Ops : Cardinality(KeptIn(m, whole, p)) \in Nat
    BY <1>6, EntriesKept
  <2>3. queue' = [p \in Ops |-> IF p \in pending
                                THEN queue[p] + Cardinality(KeptIn(m, whole, p)) ELSE queue[p]]
    BY <2>1 DEF Dispatch, KeptIn
  <2>4. done' \subseteq Ops /\ done \subseteq done'
    BY <1>1, <2>1 DEF Dispatch, StateType, ObjectType
  <2>5. queue' \in [Ops -> Nat]
    BY <1>1, <2>2, <2>3 DEF StateType, ObjectType
  <2>6. buffer' \in 0..MaxConns /\ spoiled' \in BOOLEAN
    BY <1>1, ReadParts, BoundsAssumption DEF Conns
  <2>7. UNCHANGED <<stream, unbound, pending, down>>
    BY <1>1, ReadParts
  <2> QED
    BY <1>1, <2>4, <2>5, <2>6, <2>7 DEF StateType, ObjectType
<1> QED
  BY <1>2, <1>7, <1>8 DEF TypeInv, StateType

LEMMA ReadFailsType ==
    ASSUME TypeInv, NEW o \in Ops, ReadFails(o)
    PROVE  TypeInv'
<1>1. StateType
  BY DEF TypeInv
<1>2. TurnInv' /\ Roles' /\ LockType' /\ TaskType'
  BY ReadEndsType DEF ReadFails
<1>3. ObjectType' /\ NetType'
  BY <1>1, LostType DEF ReadFails, StateType, ObjectType, NetType, bufferVars
<1> QED
  BY <1>2, <1>3 DEF TypeInv, StateType

LEMMA TimeoutType ==
    ASSUME TypeInv, NEW o \in Ops, Timeout(o)
    PROVE  TypeInv'
<1>1. o \in Tasks /\ StateType /\ readers \in Seq(Ops)
  BY DEF Tasks, TypeInv, StateType, LockType
<1>2. ObjectType' /\ NetType'
  BY <1>1 DEF Timeout, StateType, ObjectType, NetType, objectVars, bufferVars, netVars
<1>3. /\ pc' = [pc EXCEPT ![o] = "started"] /\ "started" \in Places \ Reading
      /\ doing' = doing
  BY DEF Timeout, MoveTo, Places, Reading, Active, Ended
<1>4. PICK k \in DOMAIN readers :
        /\ readers[k] = o
        /\ readers' = SubSeq(readers, 1, k - 1) \o SubSeq(readers, k + 1, Len(readers))
  BY DEF Timeout, LeaveQueue
<1>5. /\ readers' \in Seq(Ops)
      /\ Len(readers) \in Nat /\ DOMAIN readers = 1..Len(readers)
      /\ DOMAIN readers' = 1..(Len(readers) - 1)
      /\ \A i \in 1..(Len(readers) - 1) :
           readers'[i] = IF i < k THEN readers[i] ELSE readers[i + 1]
  <2>1. PICK r : r = SubSeq(readers, 1, k - 1) \o SubSeq(readers, k + 1, Len(readers))
    OBVIOUS
  <2>2. /\ r \in Seq(Ops)
        /\ Len(readers) \in Nat /\ DOMAIN readers = 1..Len(readers)
        /\ DOMAIN r = 1..(Len(readers) - 1)
        /\ \A i \in 1..(Len(readers) - 1) :
             r[i] = IF i < k THEN readers[i] ELSE readers[i + 1]
    BY <1>1, <2>1, LeftOut
  <2>3. readers' = r
    BY <1>4, <2>1
  <2> QED
    BY <2>2, <2>3
<1>6. TurnInv'
  BY <1>3, <1>4, <1>5, TurnGivenUp
<1>7. Roles'
  BY <1>3, OpMoved
<1>8. LockType' /\ TaskType'
  BY <1>1, <1>3, <1>5, BoundsAssumption DEF Timeout, StateType, LockType, TaskType
<1> QED
  BY <1>2, <1>6, <1>7, <1>8 DEF TypeInv, StateType

LEMMA ServerType ==
    ASSUME TypeInv, NEW g \in Conns,
           ServerCloses(g) \/ \E o \in Ops : ServerAnswers(g, o)
    PROVE  TypeInv'
<1>1. StateType
  BY DEF TypeInv
<1>2. UNCHANGED <<objectVars, lockVars, taskVars, opened, open>>
  BY DEF ServerCloses, ServerAnswers, ServerSends
<1>3. ObjectType' /\ LockType' /\ TaskType' /\ Roles' /\ TurnInv'
  BY <1>1, <1>2 DEF TypeInv, StateType, ObjectType, LockType, TaskType, Roles, TurnInv,
       objectVars, bufferVars, lockVars, taskVars
<1>4. CASE ServerCloses(g)
  <2>1. NetType'
    BY <1>1, <1>4 DEF StateType, NetType, ServerCloses
  <2> QED
    BY <1>3, <2>1 DEF TypeInv, StateType
<1>5. CASE \E o \in Ops : ServerAnswers(g, o)
  <2>1. PICK o \in Ops : ServerAnswers(g, o)
    BY <1>5
  <2>2. PICK m \in Message : wire' = [wire EXCEPT ![g] = Append(@, m)]
    BY <2>1 DEF ServerAnswers, ServerSends, Message
  <2>3. wire[g] \in Seq(Message)
    BY <1>1 DEF StateType, NetType
  <2>4. Append(wire[g], m) \in Seq(Message)
    BY <2>3, Queued
  <2>5. wire' \in [Conns -> Seq(Message)]
    BY <1>1, <2>2, <2>4 DEF StateType, NetType
  <2>6. asked' \in [Conns -> SUBSET Ops] /\ said' \in [Ops -> 0..MaxEntries]
    <3>1. asked \in [Conns -> SUBSET Ops] /\ said \in [Ops -> 0..MaxEntries]
      BY <1>1 DEF StateType, NetType
    <3>2. \/ asked' = [asked EXCEPT ![g] = @ \ {o}] /\ said' = said
          \/ asked' = asked /\ said[o] < MaxEntries /\ said' = [said EXCEPT ![o] = @ + 1]
      BY <2>1 DEF ServerAnswers
    <3>3. said[o] < MaxEntries => said[o] + 1 \in 0..MaxEntries
      BY <3>1, BoundsAssumption
    <3> QED
      BY <3>1, <3>2, <3>3
  <2>7. NetType'
    BY <1>1, <1>2, <2>1, <2>5, <2>6 DEF StateType, NetType, ServerAnswers, ServerSends
  <2> QED
    BY <1>3, <2>7 DEF TypeInv, StateType
<1> QED
  BY <1>4, <1>5

LEMMA StutterType == TypeInv /\ UNCHANGED vars => TypeInv'
BY DEF TypeInv, StateType, ObjectType, LockType, TaskType, NetType, Roles, TurnInv,
     vars, objectVars, bufferVars, lockVars, taskVars, netVars

LEMMA TypeStep == TypeInv /\ [Next]_vars => TypeInv'
BY StartType, ConnectedType, ConnectFailsType, AcquireWriteType, TransmitType, SentType,
   SendBrokenType, AbandonType, UnbindType, CollectType, HandOutType, FinishType,
   QueueToReadType, BeginReadType, ReadType, ReadFailsType, TimeoutType, ServerType, StutterType
   DEF Next, SendProgress, WaitProgress

-----------------------------------------------------------------------------
(* What a step may do to an operation.                                     *)

Underway == {"started", "wait"} \cup Reading

\* It stays collectable until it is done, and forgotten once it is abandoned.
Kept(p) ==
    /\ pc'[p] \in Underway /\ p \notin done' => p \in pending'
    /\ doing'[p] = "request" => doing[p] = "request"
    /\ doing'[p] = "abandon" => p \notin pending'
    /\ p \in done => p \in done'
    /\ spoiled => spoiled'
    /\ p \in done' => p \in done \cup pending

\* A step in which the server and the wire have no part.
Quiet(p) ==
    /\ UNCHANGED <<wire, asked, said>>
    /\ Unsent(p)' => Unsent(p)
    /\ pc'[p] = "sent" => pc[p] = "sent" /\ (p \in pending' => p \in pending)
    /\ p \in pending' => p \in pending \/ pc[p] = "sent"
    /\ p \in down => p \in down'
    /\ p \in done' => p \in done \/ p \in down'
    /\ \/ Finish(p)
       \/ /\ queue'[p] + handed'[p] = queue[p] + handed[p]
          /\ pc[p] # "wait" => queue'[p] = queue[p] /\ handed'[p] = handed[p]
          /\ doing'[p] = "request" =>
               /\ pc'[p] = "returned" => pc[p] = "returned"
               /\ p \in pending => p \in pending' \cup down'
               /\ pc[p] = "sent" => pc'[p] = "sent" \/ p \in pending'

LEMMA StartKeeps ==
    ASSUME TypeInv, Collectable, Forgotten, NEW o \in Ops, Start(o), NEW p \in Ops
    PROVE  Kept(p) /\ Quiet(p)
BY TasksAssumption DEF TypeInv, StateType, ObjectType, TaskType, Roles, Collectable, Forgotten,
     Tasks, Kept, Quiet, Unsent, Underway, Reading, Start, MoveTo, objectVars, bufferVars, lockVars,
     taskVars, netVars, EnterSend

LEMMA ConnectedKeeps ==
    ASSUME TypeInv, Collectable, Forgotten, NEW t \in Tasks, Connected(t), NEW p \in Ops
    PROVE  Kept(p) /\ Quiet(p)
BY TasksAssumption DEF TypeInv, StateType, ObjectType, TaskType, Roles, Collectable, Forgotten,
     Tasks, Kept, Quiet, Unsent, Underway, Reading, Connected, MoveTo, objectVars, bufferVars,
     lockVars,
     taskVars, netVars

LEMMA ConnectFailsKeeps ==
    ASSUME TypeInv, Collectable, Forgotten, NEW t \in Tasks, ConnectFails(t), NEW p \in Ops
    PROVE  Kept(p) /\ Quiet(p)
BY TasksAssumption DEF TypeInv, StateType, ObjectType, TaskType, Roles, Collectable, Forgotten,
     Tasks, Kept, Quiet, Unsent, Underway, Reading, ConnectFails, MoveTo, objectVars, bufferVars,
     lockVars,
     taskVars, netVars

LEMMA AcquireWriteKeeps ==
    ASSUME TypeInv, Collectable, Forgotten, NEW t \in Tasks, AcquireWrite(t), NEW p \in Ops
    PROVE  Kept(p) /\ Quiet(p)
BY TasksAssumption DEF TypeInv, StateType, ObjectType, TaskType, Roles, Collectable, Forgotten,
     Tasks, Kept, Quiet, Unsent, Underway, Reading, AcquireWrite, MoveTo, objectVars, bufferVars,
     lockVars,
     taskVars, netVars

LEMMA SentKeeps ==
    ASSUME TypeInv, Collectable, Forgotten, NEW t \in Tasks, Sent(t), NEW p \in Ops
    PROVE  Kept(p) /\ Quiet(p)
<1>1. doing[t] \in {"request", "abandon", "unbind"}
  BY DEF TypeInv, StateType, TaskType
<1>2. CASE doing[t] = "request"
  BY TasksAssumption, <1>2 DEF TypeInv, StateType, ObjectType, TaskType, Roles, Collectable,
       Forgotten,
       Tasks, Kept, Quiet, Unsent, Underway, Reading, Sent, MoveTo, objectVars, bufferVars,
       lockVars,
       taskVars, netVars, Lost, Unbound
<1>3. CASE doing[t] = "abandon"
  BY TasksAssumption, <1>3 DEF TypeInv, StateType, ObjectType, TaskType, Roles, Collectable,
       Forgotten,
       Tasks, Kept, Quiet, Unsent, Underway, Reading, Sent, MoveTo, objectVars, bufferVars,
       lockVars,
       taskVars, netVars, Lost, Unbound
<1>4. CASE doing[t] = "unbind"
  BY TasksAssumption, <1>4 DEF TypeInv, StateType, ObjectType, TaskType, Roles, Collectable,
       Forgotten,
       Tasks, Kept, Quiet, Unsent, Underway, Reading, Sent, MoveTo, objectVars, bufferVars,
       lockVars,
       taskVars, netVars, Lost, Unbound
<1> QED
  BY <1>1, <1>2, <1>3, <1>4

LEMMA SendBrokenKeeps ==
    ASSUME TypeInv, Collectable, Forgotten, NEW t \in Tasks, SendBroken(t), NEW p \in Ops
    PROVE  Kept(p) /\ Quiet(p)
BY TasksAssumption DEF TypeInv, StateType, ObjectType, TaskType, Roles, Collectable, Forgotten,
     Tasks, Kept, Quiet, Unsent, Underway, Reading, SendBroken, MoveTo, objectVars, bufferVars,
     lockVars,
     taskVars, netVars, Lost, Unbound

LEMMA AbandonKeeps ==
    ASSUME TypeInv, Collectable, Forgotten, NEW o \in Ops, Abandon(o), NEW p \in Ops
    PROVE  Kept(p) /\ Quiet(p)
BY TasksAssumption DEF TypeInv, StateType, ObjectType, TaskType, Roles, Collectable, Forgotten,
     Tasks, Kept, Quiet, Unsent, Underway, Reading, Abandon, MoveTo, objectVars, bufferVars,
     lockVars,
     taskVars, netVars, EnterSend

LEMMA UnbindKeeps ==
    ASSUME TypeInv, Collectable, Forgotten, NEW t \in Unbinders, Unbind(t), NEW p \in Ops
    PROVE  Kept(p) /\ Quiet(p)
BY TasksAssumption DEF TypeInv, StateType, ObjectType, TaskType, Roles, Collectable, Forgotten,
     Tasks, Kept, Quiet, Unsent, Underway, Reading, Unbind, MoveTo, objectVars, bufferVars,
     lockVars,
     taskVars, netVars, EnterSend, Lost, Unbound

LEMMA CollectKeeps ==
    ASSUME TypeInv, Collectable, Forgotten, NEW o \in Ops, Collect(o), NEW p \in Ops
    PROVE  Kept(p) /\ Quiet(p)
<1>1. /\ UNCHANGED <<pending, done, down, queue, handed, doing, wire, asked, said, spoiled>>
      /\ pc' = [pc EXCEPT ![o] = IF o \in pending THEN "wait" ELSE "unknown"]
  BY DEF Collect, MoveTo, objectVars, bufferVars, netVars
<1>2. /\ pc'[p] = IF p # o THEN pc[p] ELSE IF o \in pending THEN "wait" ELSE "unknown"
      /\ pc[o] = "started"
  BY <1>1 DEF TypeInv, StateType, TaskType, Tasks, Collect
<1>3. Kept(p)
  BY <1>1, <1>2 DEF TypeInv, Roles, Collectable, Forgotten, Kept, Underway, Reading, Tasks
<1>4. Quiet(p)
  BY <1>1, <1>2 DEF TypeInv, StateType, ObjectType, TaskType, Quiet, Unsent
<1> QED
  BY <1>3, <1>4

LEMMA HandOutKeeps ==
    ASSUME TypeInv, Collectable, Forgotten, NEW o \in Ops, HandOut(o), NEW p \in Ops
    PROVE  Kept(p) /\ Quiet(p)
BY TasksAssumption DEF TypeInv, StateType, ObjectType, TaskType, Roles, Collectable, Forgotten,
     Tasks, Kept, Quiet, Unsent, Underway, Reading, HandOut, MoveTo, objectVars, bufferVars,
     lockVars,
     taskVars, netVars

LEMMA FinishKeeps ==
    ASSUME TypeInv, Collectable, Forgotten, NEW o \in Ops, Finish(o), NEW p \in Ops
    PROVE  Kept(p) /\ Quiet(p)
BY TasksAssumption, ZenonT(60) DEF TypeInv, StateType, ObjectType, TaskType, Roles, Collectable,
     Forgotten,
     Tasks, Kept, Quiet, Unsent, Underway, Reading, Finish, MoveTo, objectVars, bufferVars,
     lockVars,
     taskVars, netVars

LEMMA QueueToReadKeeps ==
    ASSUME TypeInv, Collectable, Forgotten, NEW o \in Ops, QueueToRead(o), NEW p \in Ops
    PROVE  Kept(p) /\ Quiet(p)
BY TasksAssumption DEF TypeInv, StateType, ObjectType, TaskType, Roles, Collectable, Forgotten,
     Tasks, Kept, Quiet, Unsent, Underway, Reading, QueueToRead, MoveTo, objectVars, bufferVars,
     lockVars,
     taskVars, netVars, Enough, StillNeeded

LEMMA BeginReadKeeps ==
    ASSUME TypeInv, Collectable, Forgotten, NEW o \in Ops, BeginRead(o), NEW p \in Ops
    PROVE  Kept(p) /\ Quiet(p)
BY TasksAssumption DEF TypeInv, StateType, ObjectType, TaskType, Roles, Collectable, Forgotten,
     Tasks, Kept, Quiet, Unsent, Underway, Reading, BeginRead, MoveTo, objectVars, bufferVars,
     lockVars,
     taskVars, netVars, Enough, StillNeeded

LEMMA ReadFailsKeeps ==
    ASSUME TypeInv, Collectable, Forgotten, NEW o \in Ops, ReadFails(o), NEW p \in Ops
    PROVE  Kept(p) /\ Quiet(p)
BY TasksAssumption DEF TypeInv, StateType, ObjectType, TaskType, Roles, Collectable, Forgotten,
     Tasks, Kept, Quiet, Unsent, Underway, Reading, ReadFails, MoveTo, objectVars, bufferVars,
     lockVars,
     taskVars, netVars, Lost, ReadEnds

LEMMA TimeoutKeeps ==
    ASSUME TypeInv, Collectable, Forgotten, NEW o \in Ops, Timeout(o), NEW p \in Ops
    PROVE  Kept(p) /\ Quiet(p)
BY TasksAssumption DEF TypeInv, StateType, ObjectType, TaskType, Roles, Collectable, Forgotten,
     Tasks, Kept, Quiet, Unsent, Underway, Reading, Timeout, MoveTo, objectVars, bufferVars,
     lockVars,
     taskVars, netVars

LEMMA StandsStill ==
    ASSUME TypeInv, Collectable, Forgotten, NEW p \in Ops,
           UNCHANGED <<objectVars, lockVars, taskVars>>
    PROVE  /\ Kept(p)
           /\ UNCHANGED <<wire, asked, said>> => Quiet(p)
BY TasksAssumption DEF TypeInv, StateType, ObjectType, TaskType, Roles, Collectable, Forgotten,
     Tasks, Kept, Quiet, Unsent, Underway, Reading, objectVars, bufferVars, lockVars, taskVars

LEMMA TransmitKeeps ==
    ASSUME TypeInv, Collectable, Forgotten, NEW t \in Tasks, Transmit(t), NEW p \in Ops
    PROVE  Kept(p)
BY TasksAssumption DEF TypeInv, StateType, ObjectType, TaskType, Roles, Collectable, Forgotten,
     Tasks, Kept, Underway, Reading, Transmit, MoveTo, objectVars, bufferVars, lockVars

LEMMA ReadKeeps ==
    ASSUME TypeInv, Collectable, Forgotten, NEW o \in Ops, Read(o), NEW p \in Ops
    PROVE  Kept(p)
<1>1. StateType
  BY DEF TypeInv
<1>2. PICK where \in {"wait", "crashed"} : ReadEnds(o, where)
  BY <1>1, ReadParts
<1>3. /\ pc[o] = "reading" /\ pc' = [pc EXCEPT ![o] = where] /\ doing' = doing
      /\ pending' = pending /\ (spoiled => spoiled')
  BY <1>1, <1>2, ReadParts DEF ReadEnds, MoveTo
<1>4. done \subseteq done' /\ done' \subseteq done \cup pending
  <2>1. PICK n \in Nat : \E whole \in SUBSET (1..n) : Takes(o, n, whole)
    BY <1>1, ReadParts
  <2> QED
    BY <2>1 DEF Takes, Dispatch
<1> QED
  BY <1>3, <1>4 DEF TypeInv, StateType, ObjectType, TaskType, Collectable, Forgotten,
       Tasks, Kept, Underway, Reading

\* What any step may do.
Effect(p) ==
    /\ Kept(p)
    /\ \/ Quiet(p)
       \/ \E t \in Tasks : Transmit(t)
       \/ \E o \in Ops : Read(o)
       \/ \E g \in Conns, o \in Ops : ServerAnswers(g, o)

LEMMA Effects ==
    ASSUME TypeInv, Collectable, Forgotten, [Next]_vars, NEW p \in Ops
    PROVE  Effect(p)
<1>1. CASE UNCHANGED vars
  BY <1>1, StandsStill DEF Effect, vars, netVars
<1>2. CASE \E t \in Tasks : SendProgress(t)
  BY <1>2, ConnectedKeeps, ConnectFailsKeeps, AcquireWriteKeeps, TransmitKeeps, SentKeeps,
     SendBrokenKeeps DEF SendProgress, Effect
<1>3. CASE \E o \in Ops : WaitProgress(o)
  BY <1>3, HandOutKeeps, FinishKeeps, QueueToReadKeeps, BeginReadKeeps, ReadKeeps, ReadFailsKeeps
     DEF WaitProgress, Effect
<1>4. CASE \E o \in Ops : Start(o) \/ Collect(o) \/ Abandon(o) \/ Timeout(o)
  BY <1>4, StartKeeps, CollectKeeps, AbandonKeeps, TimeoutKeeps DEF Effect
<1>5. CASE \E t \in Unbinders : Unbind(t)
  BY <1>5, UnbindKeeps DEF Effect
<1>6. CASE \E g \in Conns : ServerCloses(g)
  BY <1>6, StandsStill DEF Effect, ServerCloses
<1>7. CASE \E g \in Conns, o \in Ops : ServerAnswers(g, o)
  BY <1>7, StandsStill DEF Effect, ServerAnswers, ServerSends
<1> QED
  BY <1>1, <1>2, <1>3, <1>4, <1>5, <1>6, <1>7 DEF Next

-----------------------------------------------------------------------------
(* What is found and what is handed out.                                   *)

\* A quiet step changes nothing of what is on the connections.
LEMMA QuietHolds ==
    ASSUME NEW p, UNCHANGED <<wire, asked>>
    PROVE  /\ \A g \in Conns : Holds(p, g)' <=> Holds(p, g)
           /\ \A g \in Conns : Found(p, g)' = Found(p, g)
BY DEF Holds, Found

LEMMA QuietHome ==
    ASSUME StateType, StateType', NEW p \in Ops, Home(p), Kept(p), Quiet(p)
    PROVE  Home(p)'
<1>1. /\ \A g \in Conns : Holds(p, g)' <=> Holds(p, g)
      /\ \A g \in Conns : Found(p, g)' = Found(p, g)
      /\ said' = said
  BY QuietHolds DEF Quiet
<1>2. \A g \in Conns : Found(p, g) \in Nat
  BY EntriesFinite DEF Found, StateType, NetType
<1>3. /\ queue[p] \in Nat /\ handed[p] \in Nat /\ queue'[p] \in Nat /\ handed'[p] \in Nat
      /\ said[p] \in Nat
  BY DEF StateType, ObjectType, TaskType, NetType
<1>4. queue'[p] + handed'[p] <= queue[p] + handed[p]
  <2>1. CASE Finish(p)
    <3>1. queue'[p] = 0 /\ (handed'[p] = handed[p] \/ handed'[p] = handed[p] + queue[p])
      BY <2>1 DEF Finish, StateType, ObjectType, TaskType
    <3> QED
      BY <1>3, <3>1
  <2>2. CASE ~Finish(p)
    BY <1>3, <2>2 DEF Quiet
  <2> QED
    BY <2>1, <2>2
<1>5. Unsent(p)' => queue'[p] = 0 /\ handed'[p] = 0 /\ p \notin pending' \cup done'
  <2> SUFFICES ASSUME Unsent(p)'
               PROVE  queue'[p] = 0 /\ handed'[p] = 0 /\ p \notin pending' \cup done'
    OBVIOUS
  <2>1. Unsent(p)
    BY DEF Quiet
  <2>2. pc[p] # "sent" /\ queue[p] = 0 /\ handed[p] = 0 /\ p \notin pending \cup done
    BY <2>1 DEF Home, Unsent
  <2>3. queue'[p] = 0 /\ handed'[p] = 0
    BY <1>3, <1>4, <2>2
  <2> QED
    BY <2>2, <2>3 DEF Quiet, Kept
<1>6. Unsent(p)' => /\ said'[p] = 0
                    /\ \A g \in Conns : ~Holds(p, g)'
  BY <1>1 DEF Quiet, Home
<1>7. \A g, h \in Conns : Holds(p, g)' /\ Holds(p, h)' => g = h
  BY <1>1 DEF Home
<1>8. \A g \in Conns : queue'[p] + handed'[p] + Found(p, g)' <= said'[p]
  BY <1>1, <1>2, <1>3, <1>4 DEF Home
<1>9. queue'[p] + handed'[p] <= said'[p]
  BY <1>1, <1>3, <1>4 DEF Home
<1> QED
  BY <1>5, <1>6, <1>7, <1>8, <1>9 DEF Home

\* Without the request or an answer on a connection, no entry is.
LEMMA NoEntries ==
    ASSUME NEW p, NEW g \in Conns, ~Holds(p, g)
    PROVE  Found(p, g) = 0
<1>1. EntriesIn(wire[g], p) = {}
  BY DEF Holds, EntriesIn
<1> QED
  BY <1>1, FS_EmptySet DEF Found

\* Writing a request puts it on the connection it is written to.
LEMMA TransmitEffect ==
    ASSUME TypeInv, NEW t \in Tasks, Transmit(t), NEW p \in Ops
    PROVE  /\ wire' = wire /\ UNCHANGED <<said, queue, handed, pending, done, down, doing, spoiled>>
           /\ p = t => pc[p] = "sending" /\ pc'[p] = "sent"
           /\ p # t => pc'[p] = pc[p]
           /\ local[t] \in Conns
           /\ \A g \in Conns : p \in asked'[g] =>
                 p \in asked[g] \/ (p = t /\ g = local[t] /\ Unsent(p))
           /\ \A g \in Conns : p # t => (p \in asked'[g] <=> p \in asked[g])
<1>1. /\ pc \in [Tasks -> Places] /\ doing \in [Tasks -> {"request", "abandon", "unbind"}]
      /\ asked \in [Conns -> SUBSET Ops] /\ local[t] \in Conns /\ p \in Tasks
  BY DEF TypeInv, StateType, TaskType, NetType, Places, Tasks, Transmit
<1>2. \/ asked' = asked
      \/ doing[t] = "request" /\ asked' = [asked EXCEPT ![local[t]] = @ \cup {t}]
      \/ asked' = [asked EXCEPT ![local[t]] = @ \ {t}]
  BY <1>1 DEF Transmit
<1>3. pc[t] = "sending" /\ pc' = [pc EXCEPT ![t] = "sent"]
  BY DEF Transmit, MoveTo
<1>4. \A g \in Conns : p \in asked'[g] =>
         p \in asked[g] \/ (p = t /\ g = local[t] /\ Unsent(p))
  BY <1>1, <1>2, <1>3 DEF Unsent
<1>5. \A g \in Conns : p # t => (p \in asked'[g] <=> p \in asked[g])
  BY <1>1, <1>2
<1>6. wire' = wire /\ UNCHANGED <<said, queue, handed, pending, done, down, doing, spoiled>>
  BY DEF Transmit, objectVars, bufferVars
<1>7. (p = t => pc[p] = "sending" /\ pc'[p] = "sent") /\ (p # t => pc'[p] = pc[p])
  BY <1>1, <1>3
<1> QED
  BY <1>1, <1>4, <1>5, <1>6, <1>7

LEMMA TransmitHome ==
    ASSUME TypeInv, NEW t \in Tasks, Transmit(t), NEW p \in Ops, Home(p)
    PROVE  Home(p)'
<1>1. /\ wire' = wire /\ UNCHANGED <<said, queue, handed, pending, done, down, doing, spoiled>>
      /\ p = t => pc[p] = "sending" /\ pc'[p] = "sent"
      /\ p # t => pc'[p] = pc[p]
      /\ \A g \in Conns : p \in asked'[g] =>
            p \in asked[g] \/ (p = t /\ g = local[t] /\ Unsent(p))
  BY TransmitEffect
<1>2. \A g \in Conns : Holds(p, g)' => Holds(p, g) \/ (p = t /\ g = local[t] /\ Unsent(p))
  BY <1>1 DEF Holds
<1>3. \A g \in Conns : Found(p, g)' = Found(p, g)
  BY <1>1 DEF Found
<1>4. Unsent(p)' => Unsent(p) /\ p # t
  BY <1>1 DEF Unsent
<1>5. \A g, h \in Conns : Holds(p, g)' /\ Holds(p, h)' => g = h
  BY <1>2 DEF Home
<1> QED
  BY <1>1, <1>2, <1>3, <1>4, <1>5 DEF Home

\* What one receive does: some messages go from the front of what is on the
\* connection, and of the c entries of a pending operation k are queued, which are
\* all unless the buffer is spoiled.
Receives(p, g, n, c, k) ==
    LET s == wire[g]
    IN /\ UNCHANGED <<asked, said, handed, pending, down, doing>>
       /\ \A h \in Conns \ {g} : wire'[h] = wire[h]
       /\ Len(s) \in Nat /\ DOMAIN s = 1..Len(s) /\ n \in 0..Len(s)
       /\ DOMAIN wire'[g] = 1..(Len(s) - n)
       /\ \A i \in 1..(Len(s) - n) : wire'[g][i] = s[n + i]
       /\ Found(p, g) = c + Found(p, g)'
       /\ queue'[p] = IF p \in pending THEN queue[p] + k ELSE queue[p]
       /\ k <= c /\ (~spoiled' => k = c) /\ (spoiled => spoiled')
       /\ p \in done' => p \in done
                         \/ (p \in pending /\ \E i \in 1..n : s[i] = [id |-> p, final |-> TRUE])
       /\ Holds(p, g)' => Holds(p, g)
       /\ ~Holds(p, g) => c = 0

LEMMA ReadEffect ==
    ASSUME TypeInv, TypeInv', NEW o \in Ops, Read(o), NEW p \in Ops
    PROVE  \E g \in Conns, n \in Nat, c \in Nat, k \in Nat : Receives(p, g, n, c, k)
<1>1. StateType
  BY DEF TypeInv
<1>2. PICK g \in Conns : g = local[o]
  BY <1>1, ReadParts
<1>21. PICK n \in Nat : \E w \in SUBSET (1..n) : Takes(o, n, w)
  BY <1>1, ReadParts
<1>22. PICK whole \in SUBSET (1..n) : Takes(o, n, whole)
  BY <1>21
<1>3. /\ n \in 0..Len(wire[g]) /\ (spoiled' \/ whole = 1..n)
      /\ Dispatch(SubSeq(wire[g], 1, n), whole)
      /\ wire' = [wire EXCEPT ![g] = SubSeq(@, n + 1, Len(@))]
  BY <1>2, <1>22 DEF Takes
<1>4. wire[g] \in Seq(Message) /\ wire \in [Conns -> Seq(Message)]
  BY <1>1 DEF StateType, NetType
<1>5. PICK s \in Seq(Message) : s = wire[g]
  BY <1>4
<1>6. Len(s) \in Nat /\ DOMAIN s = 1..Len(s) /\ n \in 0..Len(s)
  BY <1>3, <1>5, LenProperties
<1>7. PICK m : m = SubSeq(s, 1, n)
  OBVIOUS
<1>8. PICK r : r = SubSeq(s, n + 1, Len(s))
  OBVIOUS
<1>9. /\ m \in Seq(Message) /\ DOMAIN m = 1..n /\ \A i \in 1..n : m[i] = s[i]
      /\ r \in Seq(Message) /\ DOMAIN r = 1..(Len(s) - n)
      /\ \A i \in 1..(Len(s) - n) : r[i] = s[n + i]
  BY <1>6, <1>7, <1>8, Parts
<1>10. wire'[g] = r /\ \A h \in Conns \ {g} : wire'[h] = wire[h]
  BY <1>3, <1>4, <1>5, <1>8
<1>11. PICK c \in Nat : c = Cardinality(EntriesIn(m, p))
  BY <1>9, EntriesFinite
<1>12. Found(p, g) = c + Found(p, g)'
  <2>1. Found(p, g) = Cardinality(EntriesIn(s, p)) /\ Found(p, g)' = Cardinality(EntriesIn(r, p))
    BY <1>5, <1>10 DEF Found
  <2>2. Cardinality(EntriesIn(s, p)) =
          Cardinality(EntriesIn(SubSeq(s, 1, n), p))
            + Cardinality(EntriesIn(SubSeq(s, n + 1, Len(s)), p))
    BY <1>6, EntriesCut
  <2> QED
    BY <1>7, <1>8, <1>11, <2>1, <2>2
<1>13. \E k \in Nat : /\ queue'[p] = IF p \in pending THEN queue[p] + k ELSE queue[p]
                      /\ k <= c /\ (~spoiled' => k = c)
  <2>1. /\ Cardinality(KeptIn(m, whole, p)) \in Nat
        /\ Cardinality(KeptIn(m, whole, p)) <= c
        /\ whole = 1..n => Cardinality(KeptIn(m, whole, p)) = c
    BY <1>9, <1>11, EntriesKept
  <2>2. queue'[p] = IF p \in pending THEN queue[p] + Cardinality(KeptIn(m, whole, p)) ELSE queue[p]
    BY <1>3, <1>5, <1>7 DEF Dispatch, KeptIn
  <2> QED
    BY <1>3, <2>1, <2>2
<1>14. p \in done' => p \in done
                      \/ (p \in pending /\ \E i \in 1..n : s[i] = [id |-> p, final |-> TRUE])
  <2>1. done' = done \cup {q \in pending : \E i \in whole : m[i] = [id |-> q, final |-> TRUE]}
    BY <1>3, <1>5, <1>7 DEF Dispatch
  <2>2. p \in done' => \/ p \in done
                       \/ p \in pending /\ \E i \in 1..n : m[i] = [id |-> p, final |-> TRUE]
    BY <1>9, <2>1
  <2>3. ASSUME NEW i \in 1..n, m[i] = [id |-> p, final |-> TRUE]
        PROVE  s[i] = [id |-> p, final |-> TRUE]
    <3>1. m[i] = s[i]
      BY <1>9
    <3> QED
      BY <2>3, <3>1
  <2> QED
    BY <2>2, <2>3
<1>15. UNCHANGED <<asked, said, handed, pending, down, doing>> /\ (spoiled => spoiled')
  BY <1>1, ReadParts
<1>16. Holds(p, g)' => Holds(p, g)
  <2>1. \A i \in 1..(Len(s) - n) : n + i \in 1..Len(s)
    BY <1>6
  <2> QED
    <3>1. (\E i \in DOMAIN r : r[i].id = p) => \E j \in DOMAIN s : s[j].id = p
      BY <1>6, <1>9, <2>1
    <3>2. Holds(p, g) <=> p \in asked[g] \/ \E j \in DOMAIN s : s[j].id = p
      BY <1>5 DEF Holds
    <3>3. Holds(p, g)' <=> p \in asked[g] \/ \E j \in DOMAIN r : r[j].id = p
      BY <1>10, <1>15 DEF Holds
    <3> QED
      BY <3>1, <3>2, <3>3
<1>17. ~Holds(p, g) => c = 0
  <2> SUFFICES ASSUME ~Holds(p, g) PROVE c = 0
    OBVIOUS
  <2>1. \A i \in 1..n : i \in 1..Len(s)
    BY <1>6
  <2>2. EntriesIn(m, p) = {}
    BY <1>5, <1>6, <1>9, <2>1 DEF Holds, EntriesIn
  <2> QED
    BY <1>11, <2>2, FS_EmptySet
<1>18. PICK k \in Nat :
         /\ queue'[p] = IF p \in pending THEN queue[p] + k ELSE queue[p]
         /\ k <= c /\ (~spoiled' => k = c)
  BY <1>13
<1>19. Receives(p, g, n, c, k)
  BY <1>5, <1>6, <1>9, <1>10, <1>12, <1>18, <1>14, <1>15, <1>16, <1>17 DEF Receives
<1> QED
  BY <1>19

LEMMA ReadHome ==
    ASSUME TypeInv, TypeInv', NEW o \in Ops, Read(o), NEW p \in Ops, Home(p)
    PROVE  Home(p)'
<1>1. PICK g \in Conns, n \in Nat, c \in Nat, k \in Nat : Receives(p, g, n, c, k)
  BY ReadEffect
<1>2. Receives(p, g, n, c, k)
  BY <1>1
<1>3. /\ \A h \in Conns \ {g} : (Holds(p, h)' <=> Holds(p, h)) /\ Found(p, h)' = Found(p, h)
      /\ Holds(p, g)' => Holds(p, g)
      /\ Found(p, g) = c + Found(p, g)'
      /\ queue'[p] = IF p \in pending THEN queue[p] + k ELSE queue[p]
      /\ k <= c
      /\ ~Holds(p, g) => c = 0
      /\ UNCHANGED <<said, handed, pending, doing>>
      /\ p \in done' => p \in done \cup pending
  BY <1>2 DEF Receives, Holds, Found
<1>4. /\ queue[p] \in Nat /\ handed[p] \in Nat /\ said[p] \in Nat
      /\ \A h \in Conns : Found(p, h) \in Nat /\ Found(p, h)' \in Nat
  <2>1. \A h \in Conns : Found(p, h) \in Nat /\ Found(p, h)' \in Nat
    BY EntriesFinite DEF Found, TypeInv, StateType, NetType
  <2> QED
    BY <2>1 DEF TypeInv, StateType, ObjectType, TaskType, NetType
<1>5. Unsent(p)' => Unsent(p)
  BY ReadParts DEF Unsent, ReadEnds, MoveTo, TypeInv, StateType, TaskType, Tasks
<1>6. Unsent(p)' => /\ said'[p] = 0 /\ queue'[p] = 0 /\ handed'[p] = 0
                    /\ p \notin pending' \cup done'
                    /\ \A h \in Conns : ~Holds(p, h)'
  BY <1>3, <1>4, <1>5 DEF Home
<1>7. \A h, i \in Conns : Holds(p, h)' /\ Holds(p, i)' => h = i
  BY <1>3 DEF Home
<1>8. queue'[p] + handed'[p] + Found(p, g)' <= said'[p]
  <2>1. queue[p] + handed[p] + Found(p, g) <= said[p]
    BY DEF Home
  <2> QED
    BY <1>3, <1>4, <2>1
<1>9. ASSUME NEW h \in Conns \ {g} PROVE queue'[p] + handed'[p] + Found(p, h)' <= said'[p]
  <2>1. CASE c = 0
    <3>1. queue'[p] = queue[p]
      BY <1>3, <1>4, <2>1
    <3> QED
      BY <1>3, <3>1 DEF Home
  <2>2. CASE c # 0
    <3>1. ~Holds(p, h)
      BY <1>3, <2>2 DEF Home
    <3>2. Found(p, h)' = 0
      BY <1>3, <3>1, NoEntries
    <3> QED
      BY <1>3, <1>4, <1>8, <3>2
  <2> QED
    BY <2>1, <2>2
<1>10. queue'[p] + handed'[p] <= said'[p]
  <2>1. queue'[p] \in Nat /\ handed'[p] \in Nat /\ said'[p] \in Nat
    BY <1>3, <1>4
  <2> QED
    BY <1>4, <1>8, <2>1
<1> QED
  BY <1>6, <1>7, <1>8, <1>9, <1>10 DEF Home

\* An answer goes at the end of what is on the connection.
Answers(o, g, m) ==
    LET s == wire[g]
    IN /\ UNCHANGED <<queue, handed, pending, done, down, doing, pc, spoiled>>
       /\ o \in asked[g] /\ \A h \in Conns \ {g} : wire'[h] = wire[h] /\ asked'[h] = asked[h]
       /\ Len(s) \in Nat /\ DOMAIN s = 1..Len(s)
       /\ DOMAIN wire'[g] = 1..(Len(s) + 1) /\ wire'[g][Len(s) + 1] = m
       /\ \A i \in 1..Len(s) : wire'[g][i] = s[i]
       /\ \A p \in Ops \ {o} : said'[p] = said[p] /\ (p \in asked'[g] <=> p \in asked[g])
       /\ \A p \in Ops : Found(p, g)' = Found(p, g)
                                        + (IF m = [id |-> p, final |-> FALSE] THEN 1 ELSE 0)
       /\ \/ m = [id |-> o, final |-> TRUE] /\ o \notin asked'[g] /\ said'[o] = said[o]
          \/ m = [id |-> o, final |-> FALSE] /\ o \in asked'[g] /\ said'[o] = said[o] + 1

LEMMA AnswerEffect ==
    ASSUME TypeInv, NEW g \in Conns, NEW o \in Ops, ServerAnswers(g, o)
    PROVE  \E m \in Message : Answers(o, g, m)
<1>1. /\ wire \in [Conns -> Seq(Message)] /\ asked \in [Conns -> SUBSET Ops]
      /\ said \in [Ops -> 0..MaxEntries] /\ wire[g] \in Seq(Message)
  BY DEF TypeInv, StateType, NetType
<1>2. PICK m \in Message :
        /\ wire' = [wire EXCEPT ![g] = Append(@, m)]
        /\ \/ /\ m = [id |-> o, final |-> TRUE] /\ said' = said
              /\ asked' = [asked EXCEPT ![g] = @ \ {o}]
           \/ /\ m = [id |-> o, final |-> FALSE] /\ asked' = asked
              /\ said' = [said EXCEPT ![o] = @ + 1]
  BY DEF ServerAnswers, ServerSends, Message
<1>3. UNCHANGED <<queue, handed, pending, done, down, doing, pc, spoiled>> /\ o \in asked[g]
  BY DEF ServerAnswers, ServerSends, objectVars, bufferVars, taskVars
<1>4. wire'[g] = Append(wire[g], m) /\ \A h \in Conns \ {g} : wire'[h] = wire[h]
  BY <1>1, <1>2
<1>5. \A h \in Conns \ {g} : asked'[h] = asked[h]
  BY <1>1, <1>2
<1>6. \A p \in Ops \ {o} : said'[p] = said[p] /\ (p \in asked'[g] <=> p \in asked[g])
  BY <1>1, <1>2
<1>7. \/ m = [id |-> o, final |-> TRUE] /\ o \notin asked'[g] /\ said'[o] = said[o]
      \/ m = [id |-> o, final |-> FALSE] /\ o \in asked'[g] /\ said'[o] = said[o] + 1
  BY <1>1, <1>2, <1>3
<1>8. /\ Len(wire[g]) \in Nat /\ DOMAIN wire[g] = 1..Len(wire[g])
      /\ DOMAIN wire'[g] = 1..(Len(wire[g]) + 1) /\ wire'[g][Len(wire[g]) + 1] = m
      /\ \A i \in 1..Len(wire[g]) : wire'[g][i] = wire[g][i]
  BY <1>1, <1>4, Queued
<1>9. \A p \in Ops : Found(p, g)' = Found(p, g)
                                    + (IF m = [id |-> p, final |-> FALSE] THEN 1 ELSE 0)
  BY <1>1, <1>4, EntriesAppend DEF Found
<1>10. Answers(o, g, m)
  BY <1>3, <1>4, <1>5, <1>6, <1>7, <1>8, <1>9 DEF Answers
<1> QED
  BY <1>10

\* An operation is on the connections that it was on, and no other operation's
\* messages are more than they were.
LEMMA AnswerHolds ==
    ASSUME NEW g \in Conns, NEW o \in Ops, NEW m \in Message, Answers(o, g, m), NEW p \in Ops
    PROVE  /\ \A h \in Conns : Holds(p, h)' <=> Holds(p, h)
           /\ \A h \in Conns \ {g} : Found(p, h)' = Found(p, h)
           /\ p # o => Found(p, g)' = Found(p, g) + 0
           /\ p # o => said'[p] = said[p]
           /\ Holds(o, g)
<1>1. m.id = o
  BY DEF Answers
<1>2. \A h \in Conns \ {g} : (Holds(p, h)' <=> Holds(p, h)) /\ Found(p, h)' = Found(p, h)
  BY DEF Answers, Holds, Found
<1>3. Holds(o, g) /\ Holds(o, g)'
  <2>1. Len(wire[g]) + 1 \in 1..(Len(wire[g]) + 1)
    BY DEF Answers
  <2> QED
    BY <1>1, <2>1 DEF Answers, Holds
<1>4. p # o => (Holds(p, g)' <=> Holds(p, g))
  <2>1. \A i \in 1..(Len(wire[g]) + 1) : i \in 1..Len(wire[g]) \/ i = Len(wire[g]) + 1
    BY DEF Answers
  <2>2. \A i \in 1..Len(wire[g]) : i \in 1..(Len(wire[g]) + 1)
    BY DEF Answers
  <2>3. p # o => ((\E i \in DOMAIN wire'[g] : wire'[g][i].id = p)
                    <=> \E i \in DOMAIN wire[g] : wire[g][i].id = p)
    BY <1>1, <2>1, <2>2 DEF Answers
  <2>4. p # o => (p \in asked'[g] <=> p \in asked[g])
    BY DEF Answers
  <2> QED
    BY <2>3, <2>4 DEF Holds
<1>5. p # o => Found(p, g)' = Found(p, g) + 0 /\ said'[p] = said[p]
  BY <1>1 DEF Answers
<1> QED
  BY <1>2, <1>3, <1>4, <1>5

LEMMA AnswerHome ==
    ASSUME TypeInv, TypeInv', NEW g \in Conns, NEW o \in Ops, ServerAnswers(g, o),
           NEW p \in Ops, Home(p)
    PROVE  Home(p)'
<1>1. PICK m \in Message : Answers(o, g, m)
  BY AnswerEffect
<1>2. /\ \A h \in Conns : Holds(p, h)' <=> Holds(p, h)
      /\ \A h \in Conns \ {g} : Found(p, h)' = Found(p, h)
      /\ p # o => Found(p, g)' = Found(p, g) + 0
      /\ p # o => said'[p] = said[p]
      /\ Holds(o, g)
  BY <1>1, AnswerHolds
<1>3. UNCHANGED <<queue, handed, pending, done, down, doing, pc, spoiled>>
  BY <1>1 DEF Answers
<1>4. /\ queue[p] \in Nat /\ handed[p] \in Nat /\ said[p] \in Nat /\ said'[p] \in Nat
      /\ \A h \in Conns : Found(p, h) \in Nat
  <2>1. \A h \in Conns : Found(p, h) \in Nat
    BY EntriesFinite DEF Found, TypeInv, StateType, NetType
  <2> QED
    BY <2>1 DEF TypeInv, StateType, ObjectType, TaskType, NetType
<1>5. /\ said'[p] >= said[p]
      /\ p = o => Found(p, g)' - Found(p, g) = said'[p] - said[p]
      /\ Found(p, g)' \in Nat
  <2>1. CASE p = o
    <3>1. \/ Found(p, g)' = Found(p, g) + 0 /\ said'[p] = said[p]
          \/ Found(p, g)' = Found(p, g) + 1 /\ said'[p] = said[p] + 1
      BY <1>1, <2>1 DEF Answers
    <3> QED
      BY <1>4, <3>1
  <2>2. CASE p # o
    BY <1>2, <1>4, <2>2
  <2> QED
    BY <2>1, <2>2
<1>6. \A h \in Conns : queue'[p] + handed'[p] + Found(p, h)' <= said'[p]
  <2> TAKE h \in Conns
  <2>1. queue[p] + handed[p] + Found(p, h) <= said[p]
    BY DEF Home
  <2>2. CASE h # g
    BY <1>2, <1>3, <1>4, <1>5, <2>1, <2>2
  <2>3. CASE h = g
    BY <1>2, <1>3, <1>4, <1>5, <2>1, <2>3
  <2> QED
    BY <2>2, <2>3
<1>7. queue'[p] + handed'[p] <= said'[p]
  BY <1>3, <1>4, <1>5 DEF Home
<1>8. Unsent(p)' <=> Unsent(p)
  BY <1>3 DEF Unsent
<1>9. Unsent(p) => p # o
  BY <1>2 DEF Home
<1> QED
  BY <1>2, <1>3, <1>6, <1>7, <1>8, <1>9 DEF Home

LEMMA HomeStep ==
    ASSUME TypeInv, TypeInv', Collectable, Forgotten, HomeInv, [Next]_vars
    PROVE  HomeInv'
<1> SUFFICES ASSUME NEW p \in Ops PROVE Home(p)'
  BY DEF HomeInv
<1>1. Home(p) /\ Effect(p)
  BY Effects DEF HomeInv
<1>2. CASE Quiet(p)
  BY <1>1, <1>2, QuietHome DEF Effect, TypeInv
<1>3. CASE \E t \in Tasks : Transmit(t)
  BY <1>1, <1>3, TransmitHome
<1>4. CASE \E o \in Ops : Read(o)
  BY <1>1, <1>4, ReadHome
<1>5. CASE \E g \in Conns, o \in Ops : ServerAnswers(g, o)
  BY <1>1, <1>5, AnswerHome
<1> QED
  BY <1>1, <1>2, <1>3, <1>4, <1>5 DEF Effect

LEMMA InitSafe == Init => SafeInv
<1> SUFFICES ASSUME Init PROVE SafeInv
  OBVIOUS
<1>1. TypeInv
  BY InitType
<1>2. Collectable /\ Forgotten
  BY DEF Init, Collectable, Forgotten, Reading, Tasks
<1>3. ASSUME NEW p \in Ops PROVE Home(p)
  <2>1. \A g \in Conns : ~Holds(p, g)
    BY DEF Init, Holds
  <2>2. \A g \in Conns : Found(p, g) = 0
    BY <2>1, NoEntries
  <2> QED
    BY <2>1, <2>2 DEF Init, Home
<1> QED
  BY <1>1, <1>2, <1>3 DEF SafeInv, HomeInv

LEMMA SafeStep == SafeInv /\ [Next]_vars => SafeInv'
<1> SUFFICES ASSUME SafeInv, [Next]_vars PROVE SafeInv'
  OBVIOUS
<1>1. TypeInv /\ Collectable /\ Forgotten /\ HomeInv
  BY DEF SafeInv
<1>2. TypeInv'
  BY <1>1, TypeStep
<1>3. \A p \in Ops : Kept(p)
  BY <1>1, Effects DEF Effect
<1>4. Collectable' /\ Forgotten'
  BY <1>3 DEF Kept, Collectable, Forgotten, Underway
<1>5. HomeInv'
  BY <1>1, <1>2, HomeStep
<1> QED
  BY <1>2, <1>4, <1>5 DEF SafeInv

LEMMA SafeAlways == Spec => []SafeInv
BY InitSafe, SafeStep, PTL DEF Spec

LEMMA SafeIsTyped == SafeInv => TypeOK
<1> SUFFICES ASSUME SafeInv PROVE TypeOK
  OBVIOUS
<1>1. StateType
  BY DEF SafeInv, TypeInv
<1>2. queue \in [Ops -> 0..MaxEntries] /\ handed \in [Ops -> 0..MaxEntries]
  <2>1. ASSUME NEW p \in Ops PROVE queue[p] \in 0..MaxEntries /\ handed[p] \in 0..MaxEntries
    <3>1. /\ queue[p] \in Nat /\ handed[p] \in Nat /\ said[p] \in 0..MaxEntries
      BY <1>1 DEF StateType, ObjectType, TaskType, NetType
    <3>2. queue[p] + handed[p] <= said[p]
      BY DEF SafeInv, HomeInv, Home
    <3> QED
      BY <3>1, <3>2, BoundsAssumption
  <2> QED
    BY <1>1, <2>1 DEF StateType, ObjectType, TaskType
<1> QED
  BY <1>1, <1>2 DEF TypeOK, StateType, ObjectType, LockType, TaskType, NetType

-----------------------------------------------------------------------------
(* The theorems that no hypothesis is needed for.                          *)

\* An operation whose caller has its message id, or waits for it, is pending
\* until it is done (_pending and result4): it can still be answered.
THEOREM AnswersAreCollected == Spec => []CanStillFinish
<1>1. SafeInv => CanStillFinish
  BY SafeIsTyped DEF SafeInv, Collectable, CanStillFinish, Underway
<1> QED
  BY <1>1, SafeAlways, PTL

\* After abandon_ext no answer and no loss of the connection gives the
\* operation a result, however many tasks read.
THEOREM AbandonedForGood == Spec => AbandonIsFinal
<1> DEFINE Final == \A o \in Ops : doing[o] = "abandon" =>
                      o \notin pending' /\ (o \in done' <=> o \in done)
<1>1. SafeInv /\ [Next]_vars => Final
  <2> SUFFICES ASSUME SafeInv, [Next]_vars, NEW o \in Ops, doing[o] = "abandon"
               PROVE  o \notin pending' /\ (o \in done' <=> o \in done)
    OBVIOUS
  <2>1. TypeInv /\ Collectable /\ Forgotten /\ TypeInv'
    BY TypeStep DEF SafeInv
  <2>2. Kept(o) /\ o \notin pending
    BY <2>1, Effects DEF Effect, Forgotten
  <2>3. doing'[o] = "abandon"
    BY <2>1, <2>2, TasksAssumption DEF TypeInv, StateType, TaskType, Roles, Kept, Tasks
  <2> QED
    BY <2>2, <2>3 DEF Kept
<1>2. SafeInv /\ [Next]_vars => [Final]_vars
  BY <1>1
<1> QED
  BY <1>2, SafeAlways, PTL DEF Spec, AbandonIsFinal

-----------------------------------------------------------------------------
(* Searches are complete, if nobody reads an answer before its request is  *)
(* registered.                                                             *)

Whole(p) == FinalIsLast(p) /\ (doing[p] = "request" /\ ~spoiled => NothingDropped(p))

LEMMA QuietWhole ==
    ASSUME TypeInv, TypeInv', NEW p \in Ops, Home(p), Whole(p), Kept(p), Quiet(p)
    PROVE  Whole(p)'
<1>1. /\ \A g \in Conns : Holds(p, g)' <=> Holds(p, g)
      /\ \A g \in Conns : Found(p, g)' = Found(p, g)
      /\ wire' = wire /\ asked' = asked /\ said' = said
  BY QuietHolds DEF Quiet
<1>2. FinalIsLast(p)'
  BY <1>1 DEF Whole, FinalIsLast
<1>3. ASSUME doing'[p] = "request", ~spoiled' PROVE NothingDropped(p)'
  <2>1. doing[p] = "request" /\ NothingDropped(p)
    BY <1>3 DEF Kept, Whole
  <2>2. /\ queue[p] \in Nat /\ handed[p] \in Nat /\ queue'[p] \in Nat /\ handed'[p] \in Nat
        /\ said[p] \in Nat /\ \A g \in Conns : Found(p, g) \in Nat
    <3>1. \A g \in Conns : Found(p, g) \in Nat
      BY EntriesFinite DEF Found, TypeInv, StateType, NetType
    <3> QED
      BY <3>1 DEF TypeInv, StateType, ObjectType, TaskType, NetType
  <2>3. /\ pc[p] = "sent" => p \notin pending \cup done
        /\ p \in done \ down => \A g \in Conns : ~Holds(p, g)
        /\ (\E g \in Conns : Holds(p, g)) => p \in pending \cup down \/ pc[p] = "sent"
        /\ p \notin down =>
             /\ \A g \in Conns : Holds(p, g) => queue[p] + handed[p] + Found(p, g) = said[p]
             /\ (\A g \in Conns : ~Holds(p, g)) => queue[p] + handed[p] = said[p]
        /\ pc[p] = "returned" => handed[p] = said[p] /\ \A g \in Conns : ~Holds(p, g)
    BY <2>1 DEF NothingDropped
  <2>4. pc'[p] = "sent" => p \notin pending' \cup done'
    BY <2>3 DEF Quiet, Kept
  <2>5. p \in done' \ down' => p \in done \ down
    BY DEF Quiet
  <2>6. CASE Finish(p)
    <3>1. /\ pc[p] = "wait" /\ p \in done /\ queue'[p] = 0
          /\ p \in down => pc'[p] = "failed"
          /\ p \notin down => handed'[p] = handed[p] + queue[p]
      BY <2>6 DEF Finish, MoveTo, TypeInv, StateType, ObjectType, TaskType, Tasks
    <3>2. p \notin down => queue'[p] + handed'[p] = queue[p] + handed[p]
      BY <2>2, <3>1
    <3>3. p \notin down => handed'[p] = said[p]
      BY <2>2, <2>3, <3>1
    <3>4. (\E g \in Conns : Holds(p, g)) => p \in down'
      BY <2>3, <3>1 DEF Quiet
    <3>5. p \notin down' =>
             /\ \A g \in Conns : Holds(p, g) => queue'[p] + handed'[p] + Found(p, g) = said[p]
             /\ (\A g \in Conns : ~Holds(p, g)) => queue'[p] + handed'[p] = said[p]
      BY <2>3, <3>2, <3>4 DEF Quiet
    <3>6. pc'[p] = "returned" => handed'[p] = said[p] /\ \A g \in Conns : ~Holds(p, g)
      BY <2>3, <3>1, <3>3
    <3> QED
      BY <1>1, <2>3, <2>4, <2>5, <3>4, <3>5, <3>6 DEF NothingDropped
  <2>7. CASE ~Finish(p)
    <3>1. /\ queue'[p] + handed'[p] = queue[p] + handed[p]
          /\ pc[p] # "wait" => queue'[p] = queue[p] /\ handed'[p] = handed[p]
          /\ pc'[p] = "returned" => pc[p] = "returned"
          /\ p \in pending => p \in pending' \cup down'
          /\ pc[p] = "sent" => pc'[p] = "sent" \/ p \in pending'
          /\ p \in down => p \in down'
      BY <1>3, <2>7 DEF Quiet
    <3>2. (\E g \in Conns : Holds(p, g)) => p \in pending' \cup down' \/ pc'[p] = "sent"
      BY <2>3, <3>1
    <3>3. p \notin down' =>
             /\ \A g \in Conns : Holds(p, g) => queue'[p] + handed'[p] + Found(p, g) = said[p]
             /\ (\A g \in Conns : ~Holds(p, g)) => queue'[p] + handed'[p] = said[p]
      BY <2>3, <3>1
    <3>4. pc'[p] = "returned" => handed'[p] = said[p] /\ \A g \in Conns : ~Holds(p, g)
      BY <2>3, <3>1
    <3> QED
      BY <1>1, <2>3, <2>4, <2>5, <3>2, <3>3, <3>4 DEF NothingDropped
  <2> QED
    BY <2>6, <2>7
<1> QED
  BY <1>2, <1>3 DEF Whole

LEMMA TransmitWhole ==
    ASSUME TypeInv, NEW t \in Tasks, Transmit(t), NEW p \in Ops, Home(p), Whole(p)
    PROVE  Whole(p)'
<1>1. /\ wire' = wire /\ UNCHANGED <<said, queue, handed, pending, done, down, doing, spoiled>>
      /\ p = t => pc[p] = "sending" /\ pc'[p] = "sent"
      /\ p # t => pc'[p] = pc[p]
      /\ \A g \in Conns : p \in asked'[g] =>
            p \in asked[g] \/ (p = t /\ g = local[t] /\ Unsent(p))
      /\ \A g \in Conns : p # t => (p \in asked'[g] <=> p \in asked[g])
  BY TransmitEffect
<1>2. \A g \in Conns : Found(p, g)' = Found(p, g)
  BY <1>1 DEF Found
<1>3. FinalIsLast(p)'
  <2>1. Unsent(p) => \A g \in Conns : \A i \in DOMAIN wire[g] : wire[g][i].id # p
    BY DEF Home, Holds
  <2>2. CASE Unsent(p)
    BY <1>1, <2>1, <2>2 DEF FinalIsLast
  <2>3. CASE ~Unsent(p)
    BY <1>1, <2>3 DEF Whole, FinalIsLast
  <2> QED
    BY <2>2, <2>3
<1>4. CASE p # t
  <2>1. \A g \in Conns : Holds(p, g)' <=> Holds(p, g)
    BY <1>1, <1>4 DEF Holds
  <2>2. doing[p] = "request" /\ ~spoiled => NothingDropped(p)'
    BY <1>1, <1>2, <1>4, <2>1 DEF Whole, NothingDropped
  <2> QED
    BY <1>1, <1>3, <2>2 DEF Whole
<1>5. CASE p = t
  <2>1. ASSUME doing[p] = "request", ~spoiled PROVE NothingDropped(p)'
    <3>1. Unsent(p)
      BY <1>1, <1>5, <2>1 DEF Unsent
    <3>2. /\ said[p] = 0 /\ queue[p] = 0 /\ handed[p] = 0 /\ p \notin pending \cup done
          /\ \A g \in Conns : ~Holds(p, g)
      BY <3>1 DEF Home
    <3>3. \A g \in Conns : Found(p, g)' = 0
      BY <1>2, <3>2, NoEntries
    <3> QED
      BY <1>1, <1>5, <3>2, <3>3 DEF NothingDropped
  <2> QED
    BY <1>1, <1>3, <2>1 DEF Whole
<1> QED
  BY <1>4, <1>5

LEMMA ReadWhole ==
    ASSUME ~Overtaking, TypeInv, TypeInv', NEW o \in Ops, Read(o), NEW p \in Ops,
           Home(p), Whole(p)
    PROVE  Whole(p)'
<1>1. PICK g \in Conns, n \in Nat, c \in Nat, k \in Nat : Receives(p, g, n, c, k)
  BY ReadEffect
<1>2. Receives(p, g, n, c, k)
  BY <1>1
<1>3. /\ \A h \in Conns \ {g} : (Holds(p, h)' <=> Holds(p, h)) /\ Found(p, h)' = Found(p, h)
      /\ Holds(p, g)' => Holds(p, g)
      /\ Found(p, g) = c + Found(p, g)'
      /\ queue'[p] = IF p \in pending THEN queue[p] + k ELSE queue[p]
      /\ k <= c /\ (~spoiled' => k = c) /\ (spoiled => spoiled')
      /\ ~Holds(p, g) => c = 0
      /\ UNCHANGED <<asked, said, handed, pending, down, doing>>
  BY <1>2 DEF Receives, Holds, Found
<1>4. /\ queue[p] \in Nat /\ handed[p] \in Nat /\ said[p] \in Nat /\ queue'[p] \in Nat
      /\ \A h \in Conns : Found(p, h) \in Nat /\ Found(p, h)' \in Nat
  <2>1. \A h \in Conns : Found(p, h) \in Nat /\ Found(p, h)' \in Nat
    BY EntriesFinite DEF Found, TypeInv, StateType, NetType
  <2> QED
    BY <2>1 DEF TypeInv, StateType, ObjectType, TaskType, NetType
<1>5. pc[p] # "sent" /\ pc'[p] # "sent" /\ (pc'[p] = "returned" => pc[p] = "returned")
  <2>1. pc[o] = "reading" /\ MayRun(o) /\ \E where \in {"wait", "crashed"} : ReadEnds(o, where)
    BY ReadParts DEF TypeInv
  <2>2. \E where \in {"wait", "crashed"} : pc' = [pc EXCEPT ![o] = where]
    BY <2>1 DEF ReadEnds, MoveTo
  <2>3. p # o => pc[p] # "sent"
    BY <2>1 DEF MayRun, Running, Tasks
  <2>4. pc \in [Tasks -> {"idle", "started"} \cup Active \cup Ended] /\ p \in Tasks /\ o \in Tasks
    BY DEF TypeInv, StateType, TaskType, Tasks
  <2> QED
    BY <2>1, <2>2, <2>3, <2>4
<1>6. FinalIsLast(p)'
  <2> SUFFICES ASSUME NEW h \in Conns, NEW i \in DOMAIN wire'[h],
                      wire'[h][i] = [id |-> p, final |-> TRUE]
               PROVE  /\ p \notin asked'[h]
                      /\ \A j \in DOMAIN wire'[h] : wire'[h][j].id = p => j <= i
    BY DEF FinalIsLast
  <2>1. CASE h # g
    BY <1>2, <1>3, <2>1 DEF Whole, FinalIsLast, Receives
  <2>2. CASE h = g
    <3>1. /\ Len(wire[g]) \in Nat /\ n \in 0..Len(wire[g]) /\ DOMAIN wire[g] = 1..Len(wire[g])
          /\ DOMAIN wire'[g] = 1..(Len(wire[g]) - n)
          /\ \A j \in 1..(Len(wire[g]) - n) : wire'[g][j] = wire[g][n + j]
      BY <1>2 DEF Receives
    <3>2. \A j \in 1..(Len(wire[g]) - n) : n + j \in 1..Len(wire[g])
      BY <3>1
    <3>3. wire[g][n + i] = [id |-> p, final |-> TRUE] /\ n + i \in DOMAIN wire[g]
      BY <2>2, <3>1, <3>2
    <3>4. p \notin asked[g] /\ \A j \in DOMAIN wire[g] : wire[g][j].id = p => j <= n + i
      BY <3>3 DEF Whole, FinalIsLast
    <3>5. ASSUME NEW j \in DOMAIN wire'[g], wire'[g][j].id = p PROVE j <= i
      <4>1. n + j <= n + i
        BY <3>1, <3>2, <3>4, <3>5
      <4> QED
        BY <2>2, <3>1, <4>1
    <3> QED
      BY <1>3, <2>2, <3>4, <3>5
  <2> QED
    BY <2>1, <2>2
<1>7. ASSUME doing'[p] = "request", ~spoiled' PROVE NothingDropped(p)'
  <2>1. /\ p \in done \ down => \A h \in Conns : ~Holds(p, h)
        /\ (\E h \in Conns : Holds(p, h)) => p \in pending \cup down
        /\ p \notin down =>
             /\ \A h \in Conns : Holds(p, h) => queue[p] + handed[p] + Found(p, h) = said[p]
             /\ (\A h \in Conns : ~Holds(p, h)) => queue[p] + handed[p] = said[p]
        /\ pc[p] = "returned" => handed[p] = said[p] /\ \A h \in Conns : ~Holds(p, h)
    BY <1>3, <1>5, <1>7 DEF Whole, NothingDropped
  <2>2. \A h, i \in Conns : Holds(p, h) /\ Holds(p, i) => h = i
    BY DEF Home
  <2>3. p \in done' \ down' => \A h \in Conns : ~Holds(p, h)'
    <3> SUFFICES ASSUME p \in done' \ down' PROVE \A h \in Conns : ~Holds(p, h)'
      OBVIOUS
    <3>1. CASE p \in done
      BY <1>3, <2>1, <3>1
    <3>2. CASE p \notin done
      <4>1. PICK i \in 1..n : wire[g][i] = [id |-> p, final |-> TRUE]
        BY <1>2, <3>2 DEF Receives
      <4>2. /\ Len(wire[g]) \in Nat /\ n \in 0..Len(wire[g]) /\ DOMAIN wire[g] = 1..Len(wire[g])
            /\ DOMAIN wire'[g] = 1..(Len(wire[g]) - n)
            /\ \A j \in 1..(Len(wire[g]) - n) : wire'[g][j] = wire[g][n + j]
        BY <1>2 DEF Receives
      <4>3. i \in DOMAIN wire[g]
        BY <4>2
      <4>4. p \notin asked[g] /\ \A j \in DOMAIN wire[g] : wire[g][j].id = p => j <= i
        BY <4>1, <4>3 DEF Whole, FinalIsLast
      <4>5. Holds(p, g)
        BY <4>1, <4>3 DEF Holds
      <4>6. ASSUME NEW j \in DOMAIN wire'[g] PROVE wire'[g][j].id # p
        <5>1. n + j \in 1..Len(wire[g]) /\ ~(n + j <= i) /\ wire'[g][j] = wire[g][n + j]
          BY <4>2
        <5> QED
          BY <4>2, <4>4, <5>1
      <4>7. ~Holds(p, g)'
        BY <1>3, <4>4, <4>6 DEF Holds
      <4> QED
        BY <1>3, <2>2, <4>5, <4>7
    <3> QED
      BY <3>1, <3>2
  <2>4. (\E h \in Conns : Holds(p, h)') => p \in pending' \cup down'
    BY <1>3, <2>1
  <2>5. ASSUME p \notin down', NEW h \in Conns, Holds(p, h)'
        PROVE  queue'[p] + handed'[p] + Found(p, h)' = said'[p]
    <3>1. Holds(p, h) /\ p \in pending /\ queue[p] + handed[p] + Found(p, h) = said[p]
      BY <1>3, <2>1, <2>5
    <3>2. CASE h = g
      BY <1>3, <1>4, <1>7, <3>1, <3>2
    <3>3. CASE h # g
      <4>1. c = 0 /\ queue'[p] = queue[p]
        BY <1>3, <1>4, <2>2, <3>1, <3>3
      <4> QED
        BY <1>3, <3>1, <3>3, <4>1
    <3> QED
      BY <3>2, <3>3
  <2>6. ASSUME p \notin down', \A h \in Conns : ~Holds(p, h)'
        PROVE  queue'[p] + handed'[p] = said'[p]
    <3>1. CASE Holds(p, g)
      <4>1. p \in pending /\ queue[p] + handed[p] + Found(p, g) = said[p]
        BY <1>3, <2>1, <2>6, <3>1
      <4>2. Found(p, g)' = 0
        <5>1. EntriesIn(wire'[g], p) = {}
          BY <2>6 DEF Holds, EntriesIn
        <5> QED
          BY <5>1, FS_EmptySet DEF Found
      <4> QED
        BY <1>3, <1>4, <1>7, <4>1, <4>2
    <3>2. CASE ~Holds(p, g)
      <4>1. \A h \in Conns : ~Holds(p, h)
        BY <1>3, <2>6, <3>2
      <4>2. queue'[p] = queue[p]
        BY <1>3, <1>4, <3>2
      <4> QED
        BY <1>3, <2>1, <2>6, <4>1, <4>2
    <3> QED
      BY <3>1, <3>2
  <2>7. pc'[p] = "returned" => handed'[p] = said'[p] /\ \A h \in Conns : ~Holds(p, h)'
    BY <1>3, <1>5, <2>1
  <2> QED
    BY <1>5, <2>3, <2>4, <2>5, <2>6, <2>7 DEF NothingDropped
<1> QED
  BY <1>6, <1>7 DEF Whole

LEMMA AnswerWhole ==
    ASSUME TypeInv, NEW g \in Conns, NEW o \in Ops, ServerAnswers(g, o),
           NEW p \in Ops, Home(p), Whole(p)
    PROVE  Whole(p)'
<1>1. PICK m \in Message : Answers(o, g, m)
  BY AnswerEffect
<1>2. /\ \A h \in Conns : Holds(p, h)' <=> Holds(p, h)
      /\ \A h \in Conns \ {g} : Found(p, h)' = Found(p, h)
      /\ p # o => Found(p, g)' = Found(p, g) + 0
      /\ p # o => said'[p] = said[p]
      /\ Holds(o, g)
  BY <1>1, AnswerHolds
<1>3. /\ UNCHANGED <<queue, handed, pending, done, down, doing, pc, spoiled>>
      /\ \A h \in Conns \ {g} : wire'[h] = wire[h] /\ asked'[h] = asked[h]
      /\ Len(wire[g]) \in Nat /\ DOMAIN wire[g] = 1..Len(wire[g])
      /\ DOMAIN wire'[g] = 1..(Len(wire[g]) + 1) /\ wire'[g][Len(wire[g]) + 1] = m
      /\ \A i \in 1..Len(wire[g]) : wire'[g][i] = wire[g][i]
  BY <1>1 DEF Answers
<1>4. /\ queue[p] \in Nat /\ handed[p] \in Nat /\ said[p] \in Nat
      /\ \A h \in Conns : Found(p, h) \in Nat
  <2>1. \A h \in Conns : Found(p, h) \in Nat
    BY EntriesFinite DEF Found, TypeInv, StateType, NetType
  <2> QED
    BY <2>1 DEF TypeInv, StateType, ObjectType, TaskType, NetType
<1>5. FinalIsLast(p)'
  <2> SUFFICES ASSUME NEW h \in Conns, NEW i \in DOMAIN wire'[h],
                      wire'[h][i] = [id |-> p, final |-> TRUE]
               PROVE  /\ p \notin asked'[h]
                      /\ \A j \in DOMAIN wire'[h] : wire'[h][j].id = p => j <= i
    BY DEF FinalIsLast
  <2>1. CASE h # g
    BY <1>3, <2>1 DEF Whole, FinalIsLast
  <2> DEFINE k == Len(wire[g])
  <2>2. \A j \in 1..(k + 1) : j \in 1..k \/ j = k + 1
    BY <1>3
  <2>3. m.id = o
    BY <1>1 DEF Answers
  <2>4. CASE h = g /\ i = k + 1
    <3>1. m = [id |-> p, final |-> TRUE] /\ p = o
      BY <1>3, <2>3, <2>4
    <3>2. o \notin asked'[g]
      BY <1>1, <3>1 DEF Answers
    <3>3. \A j \in 1..(k + 1) : j <= k + 1
      BY <1>3
    <3> QED
      BY <1>3, <2>4, <3>1, <3>2, <3>3
  <2>5. CASE h = g /\ i \in 1..k
    <3>1. wire[g][i] = [id |-> p, final |-> TRUE] /\ i \in DOMAIN wire[g]
      BY <1>3, <2>5
    <3>2. p \notin asked[g] /\ \A j \in DOMAIN wire[g] : wire[g][j].id = p => j <= i
      BY <3>1 DEF Whole, FinalIsLast
    <3>3. p # o
      BY <1>1, <3>2 DEF Answers
    <3>4. p \notin asked'[g]
      BY <1>1, <3>2, <3>3 DEF Answers
    <3>5. \A j \in DOMAIN wire'[g] : wire'[g][j].id = p => j <= i
      BY <1>3, <2>2, <2>3, <3>2, <3>3
    <3> QED
      BY <2>5, <3>4, <3>5
  <2> QED
    BY <1>3, <2>1, <2>2, <2>4, <2>5
<1>6. ASSUME doing[p] = "request", ~spoiled PROVE NothingDropped(p)'
  <2>1. NothingDropped(p)
    BY <1>6 DEF Whole
  <2>2. CASE p # o
    <3>1. \A h \in Conns : Found(p, h)' = Found(p, h)
      BY <1>2, <1>4, <2>2
    <3> QED
      BY <1>2, <1>3, <2>1, <2>2, <3>1 DEF NothingDropped
  <2>3. CASE p = o
    <3>1. \A h \in Conns : Holds(p, h) => h = g
      BY <1>2, <2>3 DEF Home
    <3>2. p \notin done \ down /\ pc[p] # "returned"
      BY <1>2, <2>1, <2>3 DEF NothingDropped
    <3>3. \/ Found(p, g)' = Found(p, g) + 0 /\ said'[p] = said[p]
          \/ Found(p, g)' = Found(p, g) + 1 /\ said'[p] = said[p] + 1
      BY <1>1, <2>3 DEF Answers
    <3>4. p \notin down => queue[p] + handed[p] + Found(p, g)' = said'[p]
      <4>1. p \notin down => queue[p] + handed[p] + Found(p, g) = said[p]
        BY <1>2, <2>1, <2>3 DEF NothingDropped
      <4> QED
        BY <1>4, <3>3, <4>1
    <3> QED
      BY <1>2, <1>3, <2>1, <2>3, <3>1, <3>2, <3>4 DEF NothingDropped
  <2> QED
    BY <2>2, <2>3
<1> QED
  BY <1>3, <1>5, <1>6 DEF Whole

\* With one connection the buffer is never spoiled: what is in it is of that one
\* (_read_once), so that SearchIsComplete exempts nothing.
THEOREM OneIsNotSpoiled ==
    ASSUME MaxConns <= 1
    PROVE  Spec => []~spoiled
<1>1. Init => ~spoiled
  BY DEF Init
<1>2. SafeInv /\ ~spoiled /\ [Next]_vars => ~spoiled'
  <2> SUFFICES ASSUME SafeInv, ~spoiled, [Next]_vars, spoiled' # spoiled
               PROVE  FALSE
    BY DEF SafeInv, TypeInv, StateType, ObjectType
  <2>1. StateType
    BY DEF SafeInv, TypeInv
  <2>2. PICK o \in Ops : Read(o)
    <3>1. UNCHANGED vars => spoiled' = spoiled
      BY DEF vars, objectVars, bufferVars
    <3>2. ASSUME NEW t \in Tasks, SendProgress(t) PROVE spoiled' = spoiled
      BY <3>2 DEF SendProgress, Connected, ConnectFails, AcquireWrite, Transmit, Sent, SendBroken,
           objectVars, bufferVars
    <3>3. ASSUME NEW t \in Ops, WaitProgress(t), ~Read(t) PROVE spoiled' = spoiled
      BY <3>3 DEF WaitProgress, HandOut, Finish, QueueToRead, BeginRead, ReadFails,
           objectVars, bufferVars
    <3>4. ASSUME NEW t \in Ops, Start(t) \/ Collect(t) \/ Abandon(t) \/ Timeout(t)
          PROVE  spoiled' = spoiled
      BY <3>4 DEF Start, Collect, Abandon, Timeout, objectVars, bufferVars
    <3>5. ASSUME NEW t \in Unbinders, Unbind(t) PROVE spoiled' = spoiled
      BY <3>5 DEF Unbind, objectVars, bufferVars
    <3>6. ASSUME NEW g \in Conns, ServerCloses(g) \/ \E p \in Ops : ServerAnswers(g, p)
          PROVE  spoiled' = spoiled
      BY <3>6 DEF ServerCloses, ServerAnswers, ServerSends, objectVars, bufferVars
    <3> QED
      BY <3>1, <3>2, <3>3, <3>4, <3>5, <3>6 DEF Next
  <2>3. local[o] \in Conns /\ buffer \in 0..MaxConns /\ spoiled' \in BOOLEAN
    BY <2>1, <2>2, ReadParts DEF StateType, ObjectType
  <2>4. local[o] = 1 /\ buffer \in {0, 1}
    BY <2>3, BoundsAssumption DEF Conns
  <2>5. buffer \in {0, local[o]}
    BY <2>4
  <2>6. spoiled' = (spoiled \/ buffer \notin {0, local[o]}) /\ spoiled \in BOOLEAN
    BY <2>1, <2>2 DEF Read, StateType, ObjectType
  <2> QED
    BY <2>3, <2>5, <2>6
<1> QED
  BY <1>1, <1>2, SafeAlways, PTL DEF Spec

\* What result4 hands out of a search that succeeds is all that was found, if
\* an answer is read only after its request has been registered and the buffer has
\* not been spoiled: for any number of tasks, connections and entries.
THEOREM SearchesAreWhole ==
    ASSUME ~Overtaking
    PROVE  Spec => []SearchIsComplete
<1>1. Init => WholeInv
  BY DEF Init, WholeInv, FinalIsLast, NothingDropped, Holds, Tasks
<1>2. SafeInv /\ SafeInv' /\ WholeInv /\ [Next]_vars => WholeInv'
  <2> SUFFICES ASSUME SafeInv, SafeInv', WholeInv, [Next]_vars, NEW p \in Ops PROVE Whole(p)'
    BY DEF WholeInv, Whole
  <2>1. TypeInv /\ TypeInv' /\ Effect(p) /\ Home(p) /\ Whole(p)
    BY Effects DEF SafeInv, HomeInv, WholeInv, Whole
  <2>2. CASE Quiet(p)
    BY <2>1, <2>2, QuietWhole DEF Effect
  <2>3. CASE \E t \in Tasks : Transmit(t)
    BY <2>1, <2>3, TransmitWhole
  <2>4. CASE \E o \in Ops : Read(o)
    BY <2>1, <2>4, ReadWhole
  <2>5. CASE \E g \in Conns, o \in Ops : ServerAnswers(g, o)
    BY <2>1, <2>5, AnswerWhole
  <2> QED
    BY <2>1, <2>2, <2>3, <2>4, <2>5 DEF Effect
<1>3. WholeInv => SearchIsComplete
  BY DEF WholeInv, NothingDropped, SearchIsComplete
<1> QED
  BY <1>1, <1>2, <1>3, SafeAlways, PTL DEF Spec

=============================================================================
