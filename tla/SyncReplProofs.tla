--------------------------- MODULE SyncReplProofs ---------------------------
(***************************************************************************)
(* What a cookie promises, for any number of entries, changes and          *)
(* searches: the copy has what the server had when it gave the cookie,     *)
(* but for what is recorded as present by a search that was cut off.       *)
(***************************************************************************)
EXTENDS SyncRepl, SequenceTheorems, TLAPS

\* An entry has the number of the change that made it what it is, and had it
\* from that change on; and a change is of one entry.
HistoryInv ==
    /\ history \in Seq([Uuids -> Nat]) /\ Now # 0
    /\ \A v \in 0..Now : \A u \in Uuids : At(v)[u] <= v
    /\ \A v, w \in 0..Now : \A u \in Uuids :
          v <= w /\ At(w)[u] # 0 /\ At(w)[u] <= v => At(v)[u] = At(w)[u]
    /\ \A v \in 1..Now - 1 : \A u, w \in Uuids :
          At(v + 1)[u] # At(v)[u] /\ At(v + 1)[w] # At(v)[w] => u = w

Consumers(now) ==
    [copy : [Uuids -> 0..now], cookie : 0..now, present : SUBSET Uuids, refreshDone : BOOLEAN]

StateType ==
    /\ consumer \in Consumers(Now) /\ told \in 0..Now
    /\ mode \in {"none", "refreshOnly", "refreshAndPersist"}
    /\ left \subseteq consumer.present /\ stale \subseteq Uuids

-----------------------------------------------------------------------------
(* What is so of a consumer c and a set s of entries that are kept for no  *)
(* good reason.                                                            *)

\* An entry has not changed since a version.
Still(u, version) == \A v \in version..Now : At(v)[u] = At(version)[u]

\* The copy has of a version what has not changed since.
Has(c, s, version) == \A u \in Uuids \ s : Still(u, version) => c.copy[u] = At(version)[u]

\* What is kept for no good reason was gone at some time.
GoneIn(s, from, to) == \A u \in s : \E v \in from..to : At(v)[u] = 0

\* Of whom there is something to say, and what may be said in a phase e.
About(m) == IF m.kind = "entry" THEN {m.uuid} ELSE m.uuids
Unsaid(o) == UNION {About(m) : m \in o}

Sayable(from, to, e) ==
    Changes(from, to) \cup (IF Sweeps(e) THEN UNION Told(Same(from, to), "present", "absent")
                                         ELSE UNION Told(Gone(from, to), "delete", "true"))

\* What has been said in a phase is in the copy.
Said(c, s, o, e, t) ==
    /\ \A u \in Changed(c.cookie, t) \ Unsaid(o) : c.copy[u] = At(t)[u] /\ u \notin s
    /\ ~Sweeps(e) => \A u \in Gone(c.cookie, t) \ Unsaid(o) : c.copy[u] = 0 /\ u \notin s

\* What is there is recorded when it is said; besides that only what was left over.
Recorded(c, l, o, e, t) ==
    Sweeps(e) =>
      /\ (Changed(c.cookie, t) \cup Same(c.cookie, t)) \ Unsaid(o) \subseteq c.present
      /\ \A u \in c.present \ l : At(t)[u] # 0
      /\ \A u \in l : At(t)[u] # 0 => u \in Unsaid(o)

\* In the middle of a phase o is still to be said, then its end e.
Refreshing(c, s, l, o, e, t) ==
    /\ e.kind \in {"done", "refreshPresent", "refreshDelete"} /\ e.cookie = t
    /\ t # 0 /\ c.cookie <= t /\ ~c.refreshDone
    /\ o \subseteq Sayable(c.cookie, t, e)
    /\ Said(c, s, o, e, t) /\ Recorded(c, l, o, e, t)

\* After the refresh the copy is what the server had at the change told last.
Persisting(c, s, o, t) ==
    /\ o = {} /\ t # 0 /\ c.cookie <= t
    /\ \A u \in s : At(t)[u] = 0
    /\ Has(c, s, t)

Upto(md, t) == IF md = "none" THEN Now ELSE t

Course(md, c, s, l, o, e, t) ==
    /\ Has(c, s, c.cookie) /\ GoneIn(s, c.cookie, Upto(md, t))
    /\ md = "none" => o = {} /\ e = Nothing /\ c.present \subseteq l
    /\ md # "none" /\ e # Nothing => Refreshing(c, s, l, o, e, t)
    /\ md # "none" /\ e = Nothing => Persisting(c, s, o, t)

CopyInv ==
    HistoryInv /\ StateType /\ Course(mode, consumer, stale, left, owed, ending, told)

-----------------------------------------------------------------------------
(* Versions.                                                               *)

LEMMA Versions ==
    ASSUME HistoryInv
    PROVE  /\ Now \in Nat /\ Now # 0 /\ At(0) = Empty
           /\ \A v \in 0..Now : At(v) \in [Uuids -> 0..Now] /\ \A u \in Uuids : At(v)[u] \in Nat /\ At(v)[u] <= v
<1>1. Now \in Nat /\ Now # 0 /\ history \in [1..Now -> [Uuids -> Nat]]
  BY LenProperties DEF HistoryInv, Now
<1>2. ASSUME NEW v \in 0..Now PROVE At(v) \in [Uuids -> Nat]
  BY <1>1 DEF At, Empty
<1>3. ASSUME NEW v \in 0..Now, NEW u \in Uuids PROVE At(v)[u] \in 0..Now /\ At(v)[u] <= v
  BY <1>1, <1>2 DEF HistoryInv
<1> QED
  BY <1>1, <1>2, <1>3 DEF At

\* What is there at two versions, and the same, is the same between them.
LEMMA SameBetween ==
    ASSUME HistoryInv, NEW from \in 0..Now, NEW to \in from..Now, NEW u \in Same(from, to)
    PROVE  u \in Uuids /\ At(to)[u] # 0 /\ \A v \in from..to : At(v)[u] = At(to)[u]
<1>1. u \in Uuids /\ At(to)[u] # 0 /\ At(to)[u] = At(from)[u]
  BY DEF Same
<1>2. /\ from \in Nat /\ to \in Nat /\ Now \in Nat /\ from <= to /\ to <= Now
      /\ At(from)[u] \in Nat /\ At(from)[u] <= from
  BY <1>1, Versions
<1>3. ASSUME NEW v \in from..to PROVE At(v)[u] = At(to)[u]
  <2>1. v \in 0..Now /\ to \in 0..Now /\ v <= to /\ At(to)[u] <= v
    BY <1>1, <1>2
  <2> QED
    BY <1>1, <2>1 DEF HistoryInv
<1> QED
  BY <1>1, <1>3

\* Each entry has changed, is as it was, has gone or was not there.
LEMMA Kinds ==
    ASSUME HistoryInv, NEW from \in 0..Now, NEW to \in from..Now, NEW u \in Uuids
    PROVE  /\ u \in Changed(from, to) <=> At(to)[u] # 0 /\ At(to)[u] # At(from)[u]
           /\ u \in Same(from, to) <=> At(to)[u] # 0 /\ At(to)[u] = At(from)[u]
           /\ u \in Gone(from, to) <=> At(to)[u] = 0 /\ \E v \in from..to : At(v)[u] # 0
           /\ Still(u, from) => u \notin Changed(from, to) /\ u \notin Gone(from, to)
<1>1. from \in Nat /\ to \in from..Now /\ to \in Nat /\ Now \in Nat /\ from..to \subseteq from..Now
  BY Versions
<1> QED
  BY <1>1 DEF Changed, Same, Gone, Still

-----------------------------------------------------------------------------
(* Messages.                                                               *)

LEMMA Forms ==
    ASSUME NEW from, NEW to, NEW e, NEW m \in Sayable(from, to, e)
    PROVE  \/ \E u \in Changed(from, to), state \in {"add", "modify"} :
                 m = EntryMessage(u, state, At(to)[u], NoCookie)
           \/ Sweeps(e) /\ \E u \in Same(from, to) : m = EntryMessage(u, "present", 0, NoCookie)
           \/ Sweeps(e) /\ m = IdSet(Same(from, to), "absent")
           \/ ~Sweeps(e) /\ \E u \in Gone(from, to) : m = EntryMessage(u, "delete", 0, NoCookie)
           \/ ~Sweeps(e) /\ m = IdSet(Gone(from, to), "true")
<1>1. CASE m \in Changes(from, to)
  BY <1>1 DEF Changes
<1>2. CASE Sweeps(e) /\ m \in UNION Told(Same(from, to), "present", "absent")
  BY <1>2 DEF Told
<1>3. CASE ~Sweeps(e) /\ m \in UNION Told(Gone(from, to), "delete", "true")
  BY <1>3 DEF Told
<1> QED
  BY <1>1, <1>2, <1>3 DEF Sayable

Written(m) == {u \in About(m) : m.kind # "entry" \/ m.state # "present"}

\* What a message of a phase does to the consumer.
Does(c, m, c2, from, to, e) ==
    /\ c2 \in Consumers(Now) /\ c2.cookie = c.cookie /\ c2.refreshDone = c.refreshDone
    /\ m.kind \in {"entry", "idset"} /\ m.cookie = NoCookie
    /\ About(m) \subseteq Changed(from, to) \cup IF Sweeps(e) THEN Same(from, to) ELSE Gone(from, to)
    /\ \A u \in Uuids \ About(m) : c2.copy[u] = c.copy[u]
    /\ \A u \in About(m) : u \in Same(from, to) => c2.copy[u] = c.copy[u]
    /\ \A u \in About(m) : u \notin Same(from, to) => c2.copy[u] = At(to)[u] /\ u \in Written(m)
    /\ c.present \subseteq c2.present /\ c2.present \subseteq c.present \cup About(m)
    /\ Sweeps(e) => About(m) \subseteq c2.present

LEMMA MessageDoes ==
    ASSUME HistoryInv, NEW from \in 0..Now, NEW to \in from..Now, NEW e,
           NEW c \in Consumers(Now), ~c.refreshDone, NEW m \in Sayable(from, to, e)
    PROVE  Does(c, m, Meant(c, m), from, to, e)
<1> DEFINE c2 == Meant(c, m)
<1>1. /\ Now \in Nat /\ to \in 0..Now /\ At(to) \in [Uuids -> 0..Now] /\ 0 \in 0..Now
      /\ Changed(from, to) \subseteq Uuids /\ Same(from, to) \subseteq Uuids /\ Gone(from, to) \subseteq Uuids
      /\ \A u \in Gone(from, to) : At(to)[u] = 0 /\ u \notin Same(from, to)
      /\ \A u \in Changed(from, to) : u \notin Same(from, to)
  BY Versions DEF Changed, Same, Gone
<1>2. ASSUME NEW u \in Changed(from, to), NEW state \in {"add", "modify"},
             m = EntryMessage(u, state, At(to)[u], NoCookie)
      PROVE  Does(c, m, c2, from, to, e)
  <2>1. m.kind = "entry" /\ m.uuid = u /\ m.state = state /\ m.value = At(to)[u] /\ m.cookie = NoCookie
    BY <1>2 DEF EntryMessage
  <2>2. c2 = Present(Entry(c, u, At(to)[u]), {u})
    BY <2>1 DEF Meant, OfEntry, Entry, Consumers
  <2>3. c2 = [copy |-> [c.copy EXCEPT ![u] = At(to)[u]], cookie |-> c.cookie,
              present |-> c.present \cup {u}, refreshDone |-> c.refreshDone]
    BY <2>2 DEF Present, Entry, Consumers
  <2>4. About(m) = {u} /\ Written(m) = {u}
    BY <2>1 DEF About, Written
  <2> QED
    BY <1>1, <2>1, <2>3, <2>4 DEF Does, Consumers
<1>3. ASSUME Sweeps(e), NEW u \in Same(from, to), m = EntryMessage(u, "present", 0, NoCookie)
      PROVE  Does(c, m, c2, from, to, e)
  <2>1. m.kind = "entry" /\ m.uuid = u /\ m.state = "present" /\ m.cookie = NoCookie
    BY <1>3 DEF EntryMessage
  <2>2. c2 = [copy |-> c.copy, cookie |-> c.cookie, present |-> c.present \cup {u}, refreshDone |-> c.refreshDone]
    BY <2>1 DEF Meant, OfEntry, Present, Consumers
  <2>3. About(m) = {u}
    BY <2>1 DEF About
  <2> QED
    BY <1>1, <1>3, <2>1, <2>2, <2>3 DEF Does, Consumers
<1>4. ASSUME Sweeps(e), m = IdSet(Same(from, to), "absent")
      PROVE  Does(c, m, c2, from, to, e)
  <2>1. m.kind = "idset" /\ m.uuids = Same(from, to) /\ ~RefreshDeletes(m) /\ m.cookie = NoCookie
    BY <1>4 DEF IdSet, RefreshDeletes, Read
  <2>2. c2 = [copy |-> c.copy, cookie |-> c.cookie, present |-> c.present \cup Same(from, to),
              refreshDone |-> c.refreshDone]
    BY <2>1 DEF Meant, OfInfo, Present, Consumers
  <2>3. About(m) = Same(from, to)
    BY <2>1 DEF About
  <2> QED
    BY <1>1, <1>4, <2>1, <2>2, <2>3 DEF Does, Consumers
<1>5. ASSUME ~Sweeps(e), NEW u \in Gone(from, to), m = EntryMessage(u, "delete", 0, NoCookie)
      PROVE  Does(c, m, c2, from, to, e)
  <2>1. m.kind = "entry" /\ m.uuid = u /\ m.state = "delete" /\ m.cookie = NoCookie
    BY <1>5 DEF EntryMessage
  <2>2. c2 = [copy |-> [w \in Uuids |-> IF w \in {u} THEN 0 ELSE c.copy[w]], cookie |-> c.cookie,
              present |-> c.present, refreshDone |-> c.refreshDone]
    BY <2>1 DEF Meant, OfEntry, DeleteAll, Consumers
  <2>3. About(m) = {u} /\ Written(m) = {u}
    BY <2>1 DEF About, Written
  <2> QED
    BY <1>1, <1>5, <2>1, <2>2, <2>3 DEF Does, Consumers
<1>6. ASSUME ~Sweeps(e), m = IdSet(Gone(from, to), "true")
      PROVE  Does(c, m, c2, from, to, e)
  <2>1. m.kind = "idset" /\ m.uuids = Gone(from, to) /\ RefreshDeletes(m) /\ m.cookie = NoCookie
    BY <1>6 DEF IdSet, RefreshDeletes, Read
  <2>2. c2 = [copy |-> [w \in Uuids |-> IF w \in Gone(from, to) THEN 0 ELSE c.copy[w]], cookie |-> c.cookie,
              present |-> c.present, refreshDone |-> c.refreshDone]
    BY <2>1 DEF Meant, OfInfo, DeleteAll, Consumers
  <2>3. About(m) = Gone(from, to) /\ Written(m) = Gone(from, to)
    BY <2>1 DEF About, Written
  <2> QED
    BY <1>1, <1>6, <2>1, <2>2, <2>3 DEF Does, Consumers
<1> QED
  BY <1>2, <1>3, <1>4, <1>5, <1>6, Forms

\* What does not change is as it was for the cookie still, and what is not kept
\* any more for no good reason is written, or gone from the copy.
LEMMA StaysTrue ==
    ASSUME HistoryInv, NEW c \in Consumers(Now), NEW to \in c.cookie..Now, NEW e, NEW m, NEW c2,
           NEW s, NEW s2, Has(c, s, c.cookie), GoneIn(s, c.cookie, to),
           Does(c, m, c2, c.cookie, to, e), \A u \in s \ s2 : u \in Written(m) \/ c2.copy[u] = 0
    PROVE  Has(c2, s2, c2.cookie)
<1> DEFINE from == c.cookie
<1>1. from \in 0..Now /\ to \in from..Now /\ c2.cookie = from /\ from \in Nat /\ to \in Nat /\ Now \in Nat
  BY Versions DEF Consumers, Does
<1> HIDE DEF from
<1>2. ASSUME NEW u \in Uuids, Still(u, from), u \in Same(from, to) \/ u \notin About(m)
      PROVE  c2.copy[u] = c.copy[u]
  BY <1>2 DEF Does, from
<1>3. ASSUME NEW u \in Uuids, Still(u, from), u \in About(m) PROVE u \in Same(from, to)
  BY <1>1, <1>3, Kinds DEF Does, from
<1>4. ASSUME NEW u \in s, Still(u, from), u \in Uuids PROVE At(from)[u] = 0 /\ u \notin Same(from, to)
  <2>1. PICK v \in from..to : At(v)[u] = 0
    BY <1>4 DEF GoneIn, from
  <2>2. v \in from..Now
    BY <1>1
  <2> QED
    BY <1>1, <1>4, <2>1, <2>2, Kinds DEF Still
<1>5. ASSUME NEW u \in Uuids \ s2, Still(u, from) PROVE c2.copy[u] = At(from)[u]
  <2>1. CASE u \notin s
    BY <1>2, <1>3, <1>5, <2>1 DEF Has, from
  <2>2. CASE u \in s
    <3>1. u \notin Same(from, to) /\ At(from)[u] = 0
      BY <1>4, <1>5, <2>2
    <3>2. u \notin Written(m)
      BY <1>3, <1>5, <3>1 DEF Written
    <3> QED
      BY <1>5, <2>2, <3>1, <3>2
  <2> QED
    BY <2>1, <2>2
<1> QED
  BY <1>1, <1>5 DEF Has

\* A message said is one less to say.
LEMMA SaidOne ==
    ASSUME HistoryInv, NEW c \in Consumers(Now), NEW t \in c.cookie..Now, NEW e, NEW o, NEW m \in o,
           NEW s, NEW l, NEW c2, Refreshing(c, s, l, o, e, t), Does(c, m, c2, c.cookie, t, e)
    PROVE  Refreshing(c2, s \ Written(m), l \ About(m), o \ {m}, e, t)
<1> DEFINE from == c.cookie
           s2 == s \ Written(m)
           o2 == o \ {m}
<1>1. from \in 0..Now /\ t \in from..Now /\ c2.cookie = from
  BY Versions DEF Consumers, Does
<1>2. Unsaid(o) \ About(m) \subseteq Unsaid(o2) /\ Unsaid(o2) \subseteq Unsaid(o)
  BY DEF Unsaid
<1>3. /\ Changed(from, t) \subseteq Uuids /\ Same(from, t) \subseteq Uuids /\ Gone(from, t) \subseteq Uuids
      /\ \A u \in Changed(from, t) : u \notin Same(from, t) /\ u \notin Gone(from, t) /\ At(t)[u] # 0
      /\ \A u \in Same(from, t) : u \notin Gone(from, t) /\ At(t)[u] # 0
      /\ \A u \in Gone(from, t) : At(t)[u] = 0
  BY DEF Changed, Same, Gone
<1>4. Said(c2, s2, o2, e, t)
  <2> HIDE DEF from
  <2>1. ASSUME NEW u \in Changed(from, t) \ Unsaid(o2) PROVE c2.copy[u] = At(t)[u] /\ u \notin s2
    <3>1. CASE u \in About(m)
      BY <1>3, <3>1 DEF Does, from
    <3>2. CASE u \notin About(m)
      BY <1>2, <1>3, <3>2 DEF Does, Refreshing, Said, from
    <3> QED
      BY <3>1, <3>2
  <2>2. ASSUME ~Sweeps(e), NEW u \in Gone(from, t) \ Unsaid(o2) PROVE c2.copy[u] = 0 /\ u \notin s2
    <3>1. CASE u \in About(m)
      BY <1>3, <3>1 DEF Does, from
    <3>2. CASE u \notin About(m)
      BY <1>2, <1>3, <2>2, <3>2 DEF Does, Refreshing, Said, from
    <3> QED
      BY <3>1, <3>2
  <2> HIDE DEF s2, o2
  <2> QED
    BY <1>1, <2>1, <2>2 DEF Said
<1>5. Recorded(c2, l \ About(m), o2, e, t)
  <2> SUFFICES ASSUME Sweeps(e)
               PROVE  /\ (Changed(from, t) \cup Same(from, t)) \ Unsaid(o2) \subseteq c2.present
                      /\ \A u \in c2.present \ (l \ About(m)) : At(t)[u] # 0
                      /\ \A u \in l \ About(m) : At(t)[u] # 0 => u \in Unsaid(o2)
    BY <1>1 DEF Recorded
  <2>1. /\ (Changed(from, t) \cup Same(from, t)) \ Unsaid(o) \subseteq c.present
        /\ \A u \in c.present \ l : At(t)[u] # 0
        /\ \A u \in l : At(t)[u] # 0 => u \in Unsaid(o)
    BY DEF Refreshing, Recorded
  <2>2. /\ About(m) \subseteq Changed(from, t) \cup Same(from, t)
        /\ c.present \subseteq c2.present /\ c2.present \subseteq c.present \cup About(m)
        /\ About(m) \subseteq c2.present
    BY DEF Does
  <2> HIDE DEF from, o2
  <2> QED
    BY <1>2, <1>3, <2>1, <2>2
<1>6. o2 \subseteq Sayable(c2.cookie, t, e) /\ c2.refreshDone = c.refreshDone
  BY <1>1 DEF Refreshing, Does
<1> QED
  BY <1>1, <1>4, <1>5, <1>6 DEF Refreshing

-----------------------------------------------------------------------------
(* The end of a phase.                                                     *)

\* What is kept for no good reason when a message is the last that is meant.
LeftAfter(c2, s, l, m) == {u \in s \cup (IF Sweeps(m) THEN l ELSE {}) : c2.copy[u] # 0}

\* When all has been said, the end makes the copy what the server had.
LEMMA EndDoes ==
    ASSUME HistoryInv, NEW c \in Consumers(Now), NEW t \in c.cookie..Now, NEW e, NEW s, NEW l \in SUBSET c.present,
           Refreshing(c, s, l, {}, e, t), Has(c, s, c.cookie), GoneIn(s, c.cookie, t), s \subseteq Uuids,
           NEW c2, c2 = Meant(c, e)
    PROVE  /\ c2 = [copy |-> [u \in Uuids |-> IF Sweeps(e) /\ u \notin c.present THEN 0 ELSE c.copy[u]],
                    cookie |-> c.cookie, present |-> {}, refreshDone |-> c.refreshDone]
           /\ LET s2 == IF Sweeps(e) THEN {u \in l : c2.copy[u] # 0} ELSE s
              IN Has(c2, s2, t) /\ \A u \in s2 : At(t)[u] = 0
           /\ Has(c2, LeftAfter(c2, s, l, e), c.cookie) /\ GoneIn(LeftAfter(c2, s, l, e), c.cookie, t)
<1> DEFINE from == c.cookie
           s2 == IF Sweeps(e) THEN {u \in l : c2.copy[u] # 0} ELSE s
           s3 == LeftAfter(c2, s, l, e)
<1>1. from \in 0..Now /\ t \in from..Now /\ t \in 0..Now /\ from \in Nat /\ t \in Nat /\ Now \in Nat /\ from <= t
  BY Versions DEF Consumers
<1>2. c2 = [copy |-> [u \in Uuids |-> IF Sweeps(e) /\ u \notin c.present THEN 0 ELSE c.copy[u]],
            cookie |-> c.cookie, present |-> {}, refreshDone |-> c.refreshDone]
  <2>1. CASE e.kind = "done"
    BY <2>1 DEF Meant, OfDone, PresentNone, Sweeps, Consumers
  <2>2. CASE e.kind = "refreshPresent"
    BY <2>2 DEF Meant, OfInfo, PresentNone, Sweeps, Consumers
  <2>3. CASE e.kind = "refreshDelete"
    BY <2>3 DEF Meant, OfInfo, PresentNone, Sweeps, Consumers
  <2> QED
    BY <2>1, <2>2, <2>3 DEF Refreshing
<1>3. \A u \in Uuids : c2.copy[u] = IF Sweeps(e) /\ u \notin c.present THEN 0 ELSE c.copy[u]
  BY <1>2
<1>4. Unsaid({}) = {}
  BY DEF Unsaid
<1>5. /\ \A u \in Changed(from, t) : c.copy[u] = At(t)[u] /\ u \notin s
      /\ ~Sweeps(e) => \A u \in Gone(from, t) : c.copy[u] = 0 /\ u \notin s
      /\ Sweeps(e) => /\ Changed(from, t) \cup Same(from, t) \subseteq c.present
                      /\ \A u \in c.present \ l : At(t)[u] # 0
                      /\ \A u \in l : At(t)[u] = 0
  BY <1>4 DEF Refreshing, Said, Recorded
<1> HIDE DEF from
<1>6. \A u \in Uuids : Still(u, t) /\ u \in Same(from, t) => Still(u, from) /\ At(from)[u] = At(t)[u]
  <2> TAKE u \in Uuids
  <2> HAVE Still(u, t) /\ u \in Same(from, t)
  <2>1. \A v \in from..t : At(v)[u] = At(t)[u]
    BY <1>1, SameBetween
  <2>2. ASSUME NEW v \in from..Now PROVE At(v)[u] = At(t)[u]
    BY <1>1, <2>1 DEF Still
  <2> QED
    BY <1>1, <2>2 DEF Still
<1>7. \A u \in s : u \notin Same(from, t)
  <2> TAKE u \in s
  <2>1. PICK v \in from..t : At(v)[u] = 0
    BY DEF GoneIn, from
  <2> QED
    BY <1>1, <2>1, SameBetween
<1>8. \A u \in Uuids : At(t)[u] # 0 => u \in Changed(from, t) \/ u \in Same(from, t)
  BY <1>1, Kinds
\* Of the version told.
<1>9. \A u \in s2 : At(t)[u] = 0
  <2>1. CASE Sweeps(e)
    BY <1>5, <2>1
  <2>2. CASE ~Sweeps(e)
    <3> TAKE u \in s2
    <3>1. u \in s /\ u \in Uuids
      BY <2>2
    <3> QED
      BY <1>5, <1>7, <1>8, <3>1
  <2> QED
    BY <2>1, <2>2
<1>10. ASSUME NEW u \in Uuids \ s2, Still(u, t) PROVE c2.copy[u] = At(t)[u]
  <2>1. CASE u \in Changed(from, t)
    BY <1>3, <1>5, <2>1
  <2>2. CASE u \in Same(from, t)
    <3>1. u \notin s /\ Still(u, from) /\ At(from)[u] = At(t)[u]
      BY <1>6, <1>7, <1>10, <2>2
    <3>2. c.copy[u] = At(t)[u]
      BY <3>1 DEF Has, from
    <3> QED
      BY <1>3, <1>5, <2>2, <3>2
  <2>3. CASE u \notin Changed(from, t) /\ u \notin Same(from, t)
    <3>1. At(t)[u] = 0
      BY <1>8, <2>3
    <3>2. CASE Sweeps(e)
      BY <1>3, <1>5, <1>10, <3>1, <3>2
    <3>3. CASE ~Sweeps(e) /\ u \in Gone(from, t)
      BY <1>3, <1>5, <3>1, <3>3
    <3>4. CASE ~Sweeps(e) /\ u \notin Gone(from, t)
      <4>1. \A v \in from..t : At(v)[u] = 0
        BY <1>1, <3>1, <3>4, Kinds
      <4>2. ASSUME NEW v \in from..Now PROVE At(v)[u] = 0
        BY <1>1, <1>10, <3>1, <4>1 DEF Still
      <4>3. Still(u, from) /\ At(from)[u] = 0
        BY <1>1, <4>2 DEF Still
      <4> QED
        BY <1>3, <1>10, <3>1, <3>4, <4>3 DEF Has, from
    <3> QED
      BY <3>2, <3>3, <3>4
  <2> QED
    BY <2>1, <2>2, <2>3
\* Of the version of the cookie.
<1>11. GoneIn(s3, from, t)
  <2> SUFFICES ASSUME NEW u \in s3 PROVE \E v \in from..t : At(v)[u] = 0
    BY DEF GoneIn
  <2>1. CASE u \in s
    BY <2>1 DEF GoneIn, from
  <2>2. CASE Sweeps(e) /\ u \in l
    BY <1>1, <1>5, <2>2
  <2> QED
    BY <2>1, <2>2 DEF LeftAfter
<1>12. ASSUME NEW u \in Uuids \ s3, Still(u, from) PROVE c2.copy[u] = At(from)[u]
  <2>1. At(t)[u] = At(from)[u]
    BY <1>1, <1>12 DEF Still
  <2>2. CASE u \in s
    <3>1. c2.copy[u] = 0
      BY <1>12, <2>2 DEF LeftAfter
    <3>2. PICK v \in from..t : At(v)[u] = 0
      BY <2>2 DEF GoneIn, from
    <3>3. At(from)[u] = 0
      BY <1>1, <1>12, <3>2 DEF Still
    <3> QED
      BY <3>1, <3>3
  <2>3. CASE u \notin s
    <3>1. c.copy[u] = At(from)[u]
      BY <1>12, <2>3 DEF Has, from
    <3>2. CASE ~Sweeps(e)
      BY <1>3, <3>1, <3>2
    <3>3. CASE Sweeps(e) /\ At(from)[u] # 0
      BY <1>1, <1>3, <1>5, <2>1, <3>1, <3>3, Kinds
    <3>4. CASE Sweeps(e) /\ At(from)[u] = 0
      BY <1>3, <1>5, <1>12, <2>1, <3>1, <3>4 DEF LeftAfter
    <3> QED
      BY <3>2, <3>3, <3>4
  <2> QED
    BY <2>2, <2>3
<1> QED
  BY <1>2, <1>9, <1>10, <1>11, <1>12 DEF Has, from

-----------------------------------------------------------------------------
(* Steps.                                                                  *)

\* Whatever is told of the versions that there are already is so still when
\* there is another.
LEMMA Kept ==
    ASSUME HistoryInv, NEW now \in Nat, now >= Now, Now' = now, \A v \in 0..Now : At(v)' = At(v),
           consumer' \in Consumers(Now), told' \in 0..Now,
           Course(mode', consumer', stale', left', owed', ending', told')
    PROVE  Course(mode, consumer, stale, left, owed, ending, told)'
<1>1. consumer'.cookie \in 0..Now /\ told' \in 0..Now /\ Now \in Nat /\ Now' \in Nat /\ Now <= Now'
  BY Versions DEF Consumers
<1>2. \A from, to \in 0..Now : /\ Changed(from, to)' = Changed(from, to) /\ Same(from, to)' = Same(from, to)
                               /\ Gone(from, to)' = Gone(from, to) /\ Changes(from, to)' = Changes(from, to)
  <2> TAKE from, to \in 0..Now
  <2>1. At(from)' = At(from) /\ At(to)' = At(to) /\ \A v \in from..to : At(v)' = At(v)
    BY <1>1
  <2>2. Changed(from, to)' = Changed(from, to) /\ Same(from, to)' = Same(from, to) /\ Gone(from, to)' = Gone(from, to)
    BY <2>1 DEF Changed, Same, Gone
  <2> QED
    BY <2>1, <2>2 DEF Changes
<1>3. ASSUME NEW c, NEW t \in 0..Now, NEW s, Has(c, s, t) PROVE Has(c, s, t)'
  <2>1. \A u \in Uuids : Still(u, t)' => Still(u, t)
    BY <1>1 DEF Still
  <2>2. At(t)' = At(t)
    OBVIOUS
  <2> QED
    BY <1>3, <2>1, <2>2 DEF Has
<1>4. ASSUME NEW s, NEW from \in 0..Now, NEW to \in 0..Now, NEW later \in 0..Now', to <= later, GoneIn(s, from, to)
      PROVE  GoneIn(s, from, later)'
  <2> SUFFICES ASSUME NEW u \in s PROVE \E v \in from..later : (At(v)[u])' = 0
    BY DEF GoneIn
  <2>1. PICK v \in from..to : At(v)[u] = 0
    BY <1>4 DEF GoneIn
  <2>2. v \in 0..Now /\ v \in from..later
    BY <1>1, <1>4
  <2> QED
    BY <2>1, <2>2
<1>5. ASSUME NEW c \in Consumers(Now), NEW s, NEW l, NEW o, NEW e, NEW t \in 0..Now, Refreshing(c, s, l, o, e, t)
      PROVE  Refreshing(c, s, l, o, e, t)'
  <2>1. c.cookie \in 0..Now /\ At(t)' = At(t)
    BY DEF Consumers
  <2>2. Sayable(c.cookie, t, e)' = Sayable(c.cookie, t, e)
    BY <1>2, <2>1 DEF Sayable
  <2>3. Said(c, s, o, e, t)'
    BY <1>2, <1>5, <2>1 DEF Refreshing, Said
  <2>4. Recorded(c, l, o, e, t)'
    BY <1>2, <1>5, <2>1 DEF Refreshing, Recorded
  <2> QED
    BY <1>5, <2>2, <2>3, <2>4 DEF Refreshing
<1>6. ASSUME NEW c \in Consumers(Now), NEW s, NEW o, NEW t \in 0..Now, Persisting(c, s, o, t)
      PROVE  Persisting(c, s, o, t)'
  BY <1>3, <1>6 DEF Persisting
<1>7. Has(consumer, stale, consumer.cookie)' /\ GoneIn(stale, consumer.cookie, Upto(mode, told))'
  <2>1. Has(consumer', stale', consumer'.cookie) /\ GoneIn(stale', consumer'.cookie, Upto(mode', told'))
    BY DEF Course
  <2>2. Upto(mode', told') \in 0..Now /\ Upto(mode, told)' \in 0..Now' /\ Upto(mode', told') <= Upto(mode, told)'
    BY <1>1 DEF Upto
  <2> QED
    BY <1>1, <1>3, <1>4, <2>1, <2>2
<1>8. mode' # "none" /\ ending' # Nothing => Refreshing(consumer, stale, left, owed, ending, told)'
  <2>1. mode' # "none" /\ ending' # Nothing => Refreshing(consumer', stale', left', owed', ending', told')
    BY DEF Course
  <2> QED
    BY <1>5, <2>1
<1>9. mode' # "none" /\ ending' = Nothing => Persisting(consumer, stale, owed, told)'
  <2>1. mode' # "none" /\ ending' = Nothing => Persisting(consumer', stale', owed', told')
    BY DEF Course
  <2> QED
    BY <1>6, <2>1
<1> QED
  BY <1>7, <1>8, <1>9 DEF Course

\* As long as the server does not change.
LEMMA Frozen ==
    ASSUME HistoryInv, UNCHANGED history, consumer' \in Consumers(Now), told' \in 0..Now,
           mode' \in {"none", "refreshOnly", "refreshAndPersist"}, left' \subseteq consumer'.present,
           stale' \subseteq Uuids, Course(mode', consumer', stale', left', owed', ending', told')
    PROVE  CopyInv'
<1>1. Now \in Nat /\ Now' = Now /\ \A v \in 0..Now : At(v)' = At(v)
  BY Versions DEF Now, At
<1>2. HistoryInv'
  <2>1. \A v \in 1..Now - 1 : v \in 0..Now /\ v + 1 \in 0..Now
    BY <1>1
  <2> QED
    BY <1>1, <2>1 DEF HistoryInv
<1>3. StateType'
  BY <1>1 DEF StateType, Consumers
<1>4. Course(mode, consumer, stale, left, owed, ending, told)'
  BY <1>1, Kept
<1> QED
  BY <1>2, <1>3, <1>4 DEF CopyInv

LEMMA ChangeStep ==
    ASSUME CopyInv, NEW u \in Uuids, NEW there \in BOOLEAN, Change(u, there)
    PROVE  CopyInv'
<1>0. PICK n : n = Now + 1
  OBVIOUS
<1> DEFINE last == [At(Now) EXCEPT ![u] = IF there THEN Now + 1 ELSE 0]
<1>1. /\ HistoryInv /\ StateType /\ Now \in Nat /\ Now # 0 /\ At(Now) \in [Uuids -> Nat]
      /\ history \in Seq([Uuids -> Nat]) /\ last \in [Uuids -> Nat]
      /\ \A v \in 0..Now : \A w \in Uuids : At(v)[w] \in Nat /\ At(v)[w] <= v
  BY Versions DEF CopyInv, HistoryInv
<1>2. history' = Append(history, last)
  BY DEF Change
<1>3. /\ history' \in Seq([Uuids -> Nat]) /\ Now' = Now + 1
      /\ \A v \in 1..Now : history'[v] = history[v]
      /\ history'[Now + 1] = last
  <2> HIDE DEF last
  <2> QED
    BY <1>1, <1>2, AppendProperties DEF Now
<1>4. (\A v \in 0..Now : At(v)' = At(v)) /\ At(n)' = last
  <2>1. n # 0 /\ \A v \in 0..Now : v # 0 => v \in 1..Now
    BY <1>0, <1>1
  <2>2. At(n)' = last
    BY <1>0, <1>3, <2>1 DEF At
  <2>3. ASSUME NEW v \in 0..Now PROVE At(v)' = At(v)
    BY <1>3, <2>1 DEF At, Empty
  <2> QED
    BY <2>2, <2>3
<1>5. /\ last[u] = 0 \/ last[u] = n
      /\ \A w \in Uuids \ {u} : last[w] = At(Now)[w]
  BY <1>0, <1>1
<1> HIDE DEF last
<1>6. HistoryInv'
  <2>1. ASSUME NEW v \in 0..n, NEW w \in Uuids PROVE At(v)'[w] <= v
    <3>1. CASE v \in 0..Now
      BY <1>0, <1>1, <1>4, <3>1
    <3>2. CASE v = n
      <4>1. At(v)'[w] = last[w]
        BY <1>4, <3>2
      <4>2. CASE w = u
        BY <1>0, <1>1, <1>5, <3>2, <4>1, <4>2
      <4>3. CASE w # u
        <5>1. At(v)'[w] = At(Now)[w] /\ At(Now)[w] \in Nat /\ At(Now)[w] <= Now
          BY <1>1, <1>5, <4>1, <4>3
        <5> QED
          BY <1>0, <1>1, <3>2, <5>1
      <4> QED
        BY <4>2, <4>3
    <3> QED
      BY <1>0, <1>1, <3>1, <3>2
  <2>2. ASSUME NEW v \in 0..n, NEW x \in 0..n, NEW w \in Uuids,
               v <= x, At(x)'[w] # 0, At(x)'[w] <= v
        PROVE  At(v)'[w] = At(x)'[w]
    <3>1. CASE x \in 0..Now
      <4>1. v \in 0..Now
        BY <1>0, <1>1, <2>2, <3>1
      <4> QED
        BY <1>0, <1>1, <1>4, <2>2, <3>1, <4>1 DEF HistoryInv
    <3>2. CASE x = n /\ v = n
      BY <3>2
    <3>3. CASE x = n /\ v \in 0..Now
      <4>1. w # u
        BY <1>0, <1>1, <1>4, <1>5, <2>2, <3>3
      <4>2. At(x)'[w] = At(Now)[w] /\ v <= Now /\ Now \in 0..Now
        BY <1>0, <1>1, <1>4, <1>5, <3>3, <4>1
      <4> QED
        BY <1>0, <1>1, <1>4, <2>2, <3>3, <4>2 DEF HistoryInv
    <3> QED
      BY <1>0, <1>1, <3>1, <3>2, <3>3
  <2>3. ASSUME NEW v \in 1..Now, NEW w \in Uuids, NEW x \in Uuids,
               At(v + 1)'[w] # At(v)'[w], At(v + 1)'[x] # At(v)'[x]
        PROVE  w = x
    <3>1. CASE v = Now
      <4>1. At(v + 1)' = last /\ At(v)' = At(Now)
        BY <1>0, <1>1, <1>4, <3>1
      <4> QED
        BY <1>5, <2>3, <4>1
    <3>2. CASE v \in 1..Now - 1
      <4>1. v \in 0..Now /\ v + 1 \in 0..Now
        BY <1>0, <1>1, <3>2
      <4>2. At(v)' = At(v) /\ At(v + 1)' = At(v + 1)
        BY <1>4, <4>1
      <4>3. At(v + 1)[w] # At(v)[w] /\ At(v + 1)[x] # At(v)[x]
        BY <2>3, <4>2
      <4> QED
        BY <1>1, <3>2, <4>3 DEF HistoryInv
    <3> QED
      BY <1>0, <1>1, <3>1, <3>2
  <2>4. Now' # 0 /\ 0..Now' = 0..n /\ 1..Now' - 1 = 1..Now
    BY <1>0, <1>1, <1>3
  <2>5. \A v \in 0..Now' : \A w \in Uuids : At(v)'[w] <= v
    BY <2>1, <2>4
  <2>6. \A v, x \in 0..Now' : \A w \in Uuids :
          v <= x /\ At(x)'[w] # 0 /\ At(x)'[w] <= v => At(v)'[w] = At(x)'[w]
    BY <2>2, <2>4
  <2>7. \A v \in 1..Now' - 1 : \A w, x \in Uuids :
          At(v + 1)'[w] # At(v)'[w] /\ At(v + 1)'[x] # At(v)'[x] => w = x
    BY <2>3, <2>4
  <2> QED
    BY <1>3, <2>4, <2>5, <2>6, <2>7 DEF HistoryInv
<1>7. UNCHANGED <<mode, owed, ending, told, consumer, left, stale>>
  BY DEF Change, server
<1>8. StateType'
  <2>1. 0..Now \subseteq 0..Now'
    BY <1>0, <1>1, <1>3
  <2> QED
    BY <1>0, <1>1, <1>7, <2>1 DEF StateType, Consumers
<1>9. Course(mode, consumer, stale, left, owed, ending, told)'
  <2>1. Course(mode', consumer', stale', left', owed', ending', told')
    BY <1>7 DEF CopyInv
  <2>2. consumer' \in Consumers(Now) /\ told' \in 0..Now
    BY <1>0, <1>1, <1>7 DEF StateType
  <2> QED
    BY <1>0, <1>1, <1>3, <1>4, <2>1, <2>2, Kept
<1> QED
  BY <1>6, <1>8, <1>9 DEF CopyInv

LEMMA InitStep == Init => CopyInv
<1> SUFFICES ASSUME Init PROVE CopyInv
  OBVIOUS
<1>1. PICK S \in SUBSET Uuids : history = <<[u \in Uuids |-> IF u \in S THEN 1 ELSE 0]>>
  BY DEF Init
<1> DEFINE first == [u \in Uuids |-> IF u \in S THEN 1 ELSE 0]
<1>2. Now = 1 /\ history[1] = first /\ history \in Seq([Uuids -> Nat])
  BY <1>1 DEF Now
<1>3. At(0) = Empty /\ At(1) = first /\ \A u \in Uuids : Empty[u] = 0 /\ first[u] \in {0, 1}
  BY <1>2 DEF At, Empty
<1> HIDE DEF first
<1>4. 0..Now = {0, 1} /\ 1..Now - 1 = {} /\ Now \in Nat
  BY <1>2
<1>5. HistoryInv
  BY <1>2, <1>3, <1>4 DEF HistoryInv
<1>6. consumer = [copy |-> Empty, cookie |-> 0, present |-> {}, refreshDone |-> FALSE] /\ left = {} /\ stale = {}
      /\ mode = "none" /\ owed = {} /\ ending = Nothing /\ told = 0
  BY DEF Init, NoCookie
<1>7. StateType
  BY <1>4, <1>6 DEF StateType, Consumers, Empty
<1>8. Has(consumer, stale, consumer.cookie) /\ GoneIn(stale, consumer.cookie, Upto(mode, told))
  BY <1>3, <1>6 DEF Has, GoneIn
<1> QED
  BY <1>5, <1>6, <1>7, <1>8 DEF CopyInv, Course

\* A phase begins with everything to be said.
LEMMA Begins ==
    ASSUME HistoryInv, NEW c \in Consumers(Now), ~c.refreshDone, NEW s, NEW l \in SUBSET Uuids, NEW o, NEW e,
           e.kind \in {"done", "refreshPresent", "refreshDelete"}, e.cookie = Now,
           IF Sweeps(e) THEN PresentPhase(c.cookie, Now, o) ELSE DeletePhase(c.cookie, Now, o),
           Sweeps(e) => c.present \subseteq l
    PROVE  Refreshing(c, s, l, o, e, Now)
<1> DEFINE from == c.cookie
           more == IF Sweeps(e) THEN Same(from, Now) ELSE Gone(from, Now)
<1>1. from \in 0..Now /\ Now \in from..Now /\ Now \in Nat /\ Now # 0 /\ from <= Now
  BY Versions DEF Consumers
<1>2. /\ Changed(from, Now) \subseteq Uuids /\ more \subseteq Uuids
      /\ \A u \in Uuids : At(Now)[u] # 0 => u \in Changed(from, Now) \cup Same(from, Now)
  BY <1>1, Kinds DEF Changed, Same, Gone
<1>3. PICK rest \in IF Sweeps(e) THEN Told(more, "present", "absent") ELSE Told(more, "delete", "true") :
        o = Changes(from, Now) \cup rest
  BY DEF PresentPhase, DeletePhase
<1>4. o \subseteq Sayable(from, Now, e)
  BY <1>3 DEF Sayable
<1>5. ASSUME NEW u \in Changed(from, Now) PROVE u \in Unsaid(o)
  <2> DEFINE m == EntryMessage(u, IF At(from)[u] = 0 THEN "add" ELSE "modify", At(Now)[u], NoCookie)
  <2>1. m \in Changes(from, Now)
    BY <1>5 DEF Changes
  <2>2. About(m) = {u}
    BY DEF About, EntryMessage
  <2> HIDE DEF m
  <2> QED
    BY <1>3, <2>1, <2>2 DEF Unsaid
<1>6. ASSUME NEW u \in more PROVE u \in Unsaid(o)
  <2>1. PICK state, deletes : rest \in Told(more, state, deletes)
    BY <1>3
  <2>2. CASE rest = {EntryMessage(w, state, 0, NoCookie) : w \in more}
    <3>1. EntryMessage(u, state, 0, NoCookie) \in o
      BY <1>3, <1>6, <2>2
    <3>2. About(EntryMessage(u, state, 0, NoCookie)) = {u}
      BY DEF About, EntryMessage
    <3> QED
      BY <3>1, <3>2 DEF Unsaid
  <2>3. CASE rest = {IdSet(more, deletes)}
    <3>1. IdSet(more, deletes) \in o /\ About(IdSet(more, deletes)) = more
      BY <1>3, <2>3 DEF About, IdSet
    <3> QED
      BY <1>6, <3>1 DEF Unsaid
  <2> QED
    BY <1>6, <2>1, <2>2, <2>3 DEF Told
<1> HIDE DEF from
<1>7. Said(c, s, o, e, Now)
  BY <1>5, <1>6 DEF Said, from
<1>8. Recorded(c, l, o, e, Now)
  <2> SUFFICES ASSUME Sweeps(e)
               PROVE  /\ (Changed(from, Now) \cup Same(from, Now)) \ Unsaid(o) \subseteq c.present
                      /\ \A u \in c.present \ l : At(Now)[u] # 0
                      /\ \A u \in l : At(Now)[u] # 0 => u \in Unsaid(o)
    BY DEF Recorded, from
  <2> QED
    BY <1>2, <1>5, <1>6 DEF from
<1> QED
  BY <1>1, <1>4, <1>7, <1>8 DEF Refreshing, from

LEMMA SearchStep ==
    ASSUME CopyInv, NEW how \in {"refreshOnly", "refreshAndPersist"}, Search(how)
    PROVE  CopyInv'
<1> DEFINE c2 == [copy |-> consumer.copy, cookie |-> consumer.cookie,
                  present |-> consumer.present, refreshDone |-> FALSE]
<1>1. /\ HistoryInv /\ StateType /\ mode = "none" /\ Course(mode, consumer, stale, left, owed, ending, told)
      /\ mode' = how /\ told' = Now /\ UNCHANGED <<history, left, stale>> /\ Now \in Nat
  BY Versions DEF CopyInv, Search
<1>2. consumer' = c2 /\ c2 \in Consumers(Now)
  BY <1>1 DEF Search, StateType, Consumers
<1>3. PICK phase \in {"present", "delete"}, done \in {"absent", "false"} :
        /\ phase = "present" => PresentPhase(consumer.cookie, Now, owed')
        /\ phase = "delete" => DeletePhase(consumer.cookie, Now, owed')
        /\ ending' = Ends(phase, Now, done)
  <2>1. PICK phase \in {"present", "delete"} :
          \E messages \in Messages(consumer.cookie, Now) :
            /\ phase = "present" => PresentPhase(consumer.cookie, Now, messages)
            /\ phase = "delete" => consumer.cookie # NoCookie /\ DeletePhase(consumer.cookie, Now, messages)
            /\ owed' = messages
            /\ \E done \in (IF phase = "present" THEN {"absent", "false"} ELSE {"absent"}) :
                  ending' = Ends(phase, Now, done)
    BY DEF Search
  <2>2. PICK messages :
            /\ phase = "present" => PresentPhase(consumer.cookie, Now, messages)
            /\ phase = "delete" => DeletePhase(consumer.cookie, Now, messages)
            /\ owed' = messages
            /\ \E done \in (IF phase = "present" THEN {"absent", "false"} ELSE {"absent"}) :
                  ending' = Ends(phase, Now, done)
    BY <2>1
  <2>3. PICK done \in {"absent", "false"} : ending' = Ends(phase, Now, done)
    BY <2>2
  <2>4. /\ phase = "present" => PresentPhase(consumer.cookie, Now, owed')
        /\ phase = "delete" => DeletePhase(consumer.cookie, Now, owed')
    BY <2>2
  <2> QED
    BY <2>3, <2>4
<1>4. /\ ending'.kind \in {"done", "refreshPresent", "refreshDelete"} /\ ending'.cookie = Now
      /\ ending' # Nothing /\ (Sweeps(ending') <=> phase = "present")
  BY <1>3 DEF Ends, Sweeps, RefreshDeletes, Read, Nothing
<1>5. Refreshing(c2, stale, left, owed', ending', Now)
  <2>1. c2.present \subseteq left /\ left \in SUBSET Uuids /\ c2.cookie = consumer.cookie /\ ~c2.refreshDone
    BY <1>1 DEF Course, StateType, Consumers
  <2>2. IF Sweeps(ending') THEN PresentPhase(c2.cookie, Now, owed') ELSE DeletePhase(c2.cookie, Now, owed')
    BY <1>3, <1>4, <2>1
  <2> HIDE DEF c2
  <2> QED
    BY <1>1, <1>2, <1>4, <2>1, <2>2, Begins
<1>6. Has(c2, stale, c2.cookie) /\ GoneIn(stale, c2.cookie, Upto(mode', told'))
  BY <1>1 DEF Course, Has, Upto
<1>7. Course(mode', consumer', stale', left', owed', ending', told')
  BY <1>1, <1>2, <1>4, <1>5, <1>6 DEF Course
<1>8. told' \in 0..Now
  BY <1>1
<1> QED
  <2>1. /\ consumer' \in Consumers(Now) /\ stale' \subseteq Uuids
        /\ mode' \in {"none", "refreshOnly", "refreshAndPersist"}
    BY <1>1, <1>2 DEF StateType
  <2>2. left' \subseteq consumer'.present
    BY <1>1, <1>2 DEF StateType
  <2> QED
    BY <1>1, <1>7, <1>8, <2>1, <2>2, Frozen

\* What a phase says moves neither the cookie nor refreshDone.
LEMMA HandledInPhase ==
    ASSUME NEW c, NEW m, m.kind \in {"entry", "idset"}, m.cookie = NoCookie
    PROVE  Handled(c, m) = Meant(c, m)
BY DEF Handled, Refreshed, SetCookie

LEMMA PollStep == CopyInv /\ Poll => CopyInv'
<1> SUFFICES ASSUME CopyInv, Poll PROVE CopyInv'
  OBVIOUS
<1>1. PICK m \in owed : owed' = owed \ {m} /\ consumer' = Handled(consumer, m) /\ Accounts(m, consumer')
  BY DEF Poll
<1>2. /\ HistoryInv /\ StateType /\ Course(mode, consumer, stale, left, owed, ending, told)
      /\ mode # "none" /\ UNCHANGED <<history, mode, ending, told>>
  BY DEF CopyInv, Poll
<1>3. /\ ending # Nothing /\ Refreshing(consumer, stale, left, owed, ending, told)
      /\ Has(consumer, stale, consumer.cookie) /\ GoneIn(stale, consumer.cookie, told)
  BY <1>1, <1>2 DEF Course, Persisting, Upto
<1>4. /\ consumer \in Consumers(Now) /\ consumer.cookie \in 0..Now /\ told \in consumer.cookie..Now
      /\ left \subseteq consumer.present /\ stale \subseteq Uuids
  BY <1>2, <1>3, Versions DEF StateType, Consumers, Refreshing
<1> DEFINE c2 == Meant(consumer, m)
<1>5. Does(consumer, m, c2, consumer.cookie, told, ending)
  <2>1. m \in Sayable(consumer.cookie, told, ending) /\ ~consumer.refreshDone
    BY <1>1, <1>3 DEF Refreshing
  <2> QED
    BY <1>2, <1>4, <2>1, MessageDoes
<1>6. consumer' = c2 /\ left' = left \ About(m) /\ stale' = stale \ Written(m)
  <2>1. m.kind \in {"entry", "idset"} /\ m.cookie = NoCookie
    BY <1>5 DEF Does
  <2>2. ~Sweeps(m)
    BY <2>1 DEF Sweeps
  <2>3. consumer' = c2
    BY <1>1, <2>1, HandledInPhase
  <2> HIDE DEF c2
  <2> QED
    BY <1>1, <2>1, <2>2, <2>3 DEF Accounts, About, Written
<1> HIDE DEF c2
<1>7. Refreshing(c2, stale', left', owed', ending, told)
  BY <1>1, <1>2, <1>3, <1>4, <1>5, <1>6, SaidOne
<1>8. Has(c2, stale', c2.cookie)
  BY <1>2, <1>3, <1>4, <1>5, <1>6, StaysTrue
<1>9. GoneIn(stale', c2.cookie, Upto(mode', told')) /\ c2 \in Consumers(Now) /\ left' \subseteq c2.present
  BY <1>2, <1>3, <1>4, <1>5, <1>6 DEF GoneIn, Upto, Does
<1>10. Course(mode', consumer', stale', left', owed', ending', told')
  BY <1>2, <1>3, <1>6, <1>7, <1>8, <1>9 DEF Course
<1> QED
  BY <1>2, <1>4, <1>6, <1>9, <1>10, Frozen DEF StateType

LEMMA CookieStored ==
    ASSUME NEW c, NEW copy, NEW cookie, NEW present, NEW done, NEW given,
           c = [copy |-> copy, cookie |-> cookie, present |-> present, refreshDone |-> done]
    PROVE  [c EXCEPT !.cookie = given]
             = [copy |-> copy, cookie |-> given, present |-> present, refreshDone |-> done]
OBVIOUS

LEMMA PollEndStep == CopyInv /\ PollEnd => CopyInv'
<1> SUFFICES ASSUME CopyInv, PollEnd PROVE CopyInv'
  OBVIOUS
<1>1. /\ HistoryInv /\ StateType /\ Course(mode, consumer, stale, left, owed, ending, told)
      /\ mode # "none" /\ owed = {} /\ ending # Nothing /\ UNCHANGED history /\ Now \in Nat
      /\ consumer' = Handled(consumer, ending) /\ Accounts(ending, consumer')
      /\ mode' = IF ending.kind = "done" THEN "none" ELSE mode
  BY Versions DEF CopyInv, PollEnd
<1>2. /\ Refreshing(consumer, stale, left, {}, ending, told)
      /\ Has(consumer, stale, consumer.cookie) /\ GoneIn(stale, consumer.cookie, told)
  BY <1>1 DEF Course, Upto
<1>3. /\ ending.kind \in {"done", "refreshPresent", "refreshDelete"} /\ ending.cookie = told
      /\ told \in 0..Now /\ told # 0 /\ ~consumer.refreshDone
  BY <1>1, <1>2 DEF Refreshing, StateType
<1>4. /\ consumer \in Consumers(Now) /\ told \in consumer.cookie..Now
      /\ left \in SUBSET consumer.present /\ left \subseteq Uuids /\ stale \subseteq Uuids
  BY <1>1, <1>2, Versions DEF StateType, Consumers, Refreshing
<1> DEFINE c2 == Meant(consumer, ending)
           s2 == IF Sweeps(ending) THEN {u \in left : c2.copy[u] # 0} ELSE stale
<1>5. /\ c2 = [copy |-> [u \in Uuids |-> IF Sweeps(ending) /\ u \notin consumer.present THEN 0 ELSE consumer.copy[u]],
               cookie |-> consumer.cookie, present |-> {}, refreshDone |-> consumer.refreshDone]
      /\ Has(c2, s2, told) /\ \A u \in s2 : At(told)[u] = 0
  BY <1>1, <1>2, <1>4, EndDoes
<1>6. PICK d \in BOOLEAN :
        /\ consumer' = [copy |-> c2.copy, cookie |-> told, present |-> {}, refreshDone |-> d]
        /\ ending.kind = "refreshPresent" /\ ~RefreshDone(ending) => ~d
  <2>1. SetCookie(c2, told) = [copy |-> c2.copy, cookie |-> told, present |-> {}, refreshDone |-> FALSE]
    <3>1. c2.refreshDone = FALSE
      BY <1>3, <1>4, <1>5 DEF Consumers
    <3>2. SetCookie(c2, told) = [c2 EXCEPT !.cookie = told]
      BY <1>3 DEF SetCookie, NoCookie
    <3> DEFINE now == [u \in Uuids |-> IF Sweeps(ending) /\ u \notin consumer.present THEN 0 ELSE consumer.copy[u]]
    <3>3. consumer.refreshDone = FALSE
      BY <1>3, <1>4 DEF Consumers
    <3> DEFINE done == consumer.refreshDone
    <3>4. c2 = [copy |-> now, cookie |-> consumer.cookie, present |-> {}, refreshDone |-> done]
      BY <1>5
    <3> HIDE DEF c2, now, done
    <3>5. [c2 EXCEPT !.cookie = told] = [copy |-> now, cookie |-> told, present |-> {}, refreshDone |-> done]
      BY <3>4, CookieStored
    <3>6. c2.copy = now
      BY <3>4
    <3> QED
      BY <3>2, <3>3, <3>5, <3>6 DEF done
  <2>2. Handled(consumer, ending) = Refreshed(SetCookie(c2, told), ending)
    BY <1>3 DEF Handled
  <2> HIDE DEF c2
  <2> DEFINE stored == [copy |-> c2.copy, cookie |-> told, present |-> {}, refreshDone |-> FALSE]
  <2>3. consumer' = Refreshed(stored, ending)
    BY <1>1, <2>1, <2>2
  <2>4. CASE ending.kind \in {"refreshPresent", "refreshDelete"} /\ RefreshDone(ending)
    <3>1. consumer' = [copy |-> c2.copy, cookie |-> told, present |-> {}, refreshDone |-> TRUE]
      BY <2>3, <2>4 DEF Refreshed
    <3> QED
      BY <2>4, <3>1
  <2>5. CASE ~(ending.kind \in {"refreshPresent", "refreshDelete"} /\ RefreshDone(ending))
    <3>1. consumer' = stored
      BY <2>3, <2>5 DEF Refreshed
    <3> QED
      BY <3>1
  <2> QED
    BY <2>4, <2>5
<1>7. consumer' \in Consumers(Now) /\ consumer'.copy = c2.copy /\ consumer'.cookie = told /\ consumer'.present = {}
  <2>1. c2.copy \in [Uuids -> 0..Now]
    BY <1>1, <1>4, <1>5 DEF Consumers
  <2> HIDE DEF c2
  <2> QED
    BY <1>1, <1>3, <1>6, <2>1 DEF Consumers
<1>8. left' = {} /\ stale' = s2
  <2>1. ending.kind # "entry" /\ ending.kind # "idset"
    BY <1>3
  <2>2. left' = {}
    BY <1>1, <1>3 DEF Accounts, Sweeps
  <2>3. stale' = IF Sweeps(ending) THEN {u \in left : consumer'.copy[u] # 0} ELSE stale
    BY <1>1, <2>1 DEF Accounts
  <2> HIDE DEF c2
  <2> QED
    BY <1>7, <2>2, <2>3
<1>9. s2 \subseteq Uuids
  BY <1>4
<1> HIDE DEF c2, s2
<1>10. Has(consumer', stale', told) /\ \A u \in stale' : At(told)[u] = 0
  BY <1>5, <1>7, <1>8 DEF Has
<1>11. \A to \in told..Now : GoneIn(stale', told, to)
  BY <1>3, <1>10 DEF GoneIn
<1>12. CASE ending.kind = "refreshPresent" /\ ~RefreshDone(ending)
  <2>1. /\ told' = Now /\ DeletePhase(told, Now, owed') /\ ending' = Ends("delete", Now, "absent")
        /\ mode' = mode
    BY <1>1, <1>12 DEF PollEnd
  <2>2. /\ ending'.kind \in {"done", "refreshPresent", "refreshDelete"} /\ ending'.cookie = Now
        /\ ending' # Nothing /\ ~Sweeps(ending')
    BY <2>1 DEF Ends, Sweeps, RefreshDeletes, Read, Nothing
  <2>3. ~consumer'.refreshDone
    BY <1>6, <1>12
  <2>4. Refreshing(consumer', stale', left', owed', ending', Now)
    BY <1>1, <1>7, <1>8, <2>1, <2>2, <2>3, Begins
  <2>5. Course(mode', consumer', stale', left', owed', ending', told')
    BY <1>1, <1>3, <1>7, <1>10, <1>11, <2>1, <2>2, <2>4 DEF Course, Upto
  <2> QED
    BY <1>1, <1>7, <1>8, <1>9, <2>1, <2>5, Frozen DEF StateType
<1>13. CASE ~(ending.kind = "refreshPresent" /\ ~RefreshDone(ending))
  <2>1. ending' = Nothing /\ owed' = {} /\ told' = told
    BY <1>1, <1>13 DEF PollEnd
  <2>2. Persisting(consumer', stale', owed', told')
    BY <1>3, <1>7, <1>10, <2>1 DEF Persisting
  <2>3. Course(mode', consumer', stale', left', owed', ending', told')
    <3>1. Upto(mode', told') \in told..Now
      BY <1>1, <1>3, <2>1 DEF Upto
    <3>2. Has(consumer', stale', consumer'.cookie) /\ GoneIn(stale', consumer'.cookie, Upto(mode', told'))
      BY <1>7, <1>10, <1>11, <3>1
    <3>3. consumer'.present \subseteq left'
      BY <1>7, <1>8
    <3> QED
      BY <2>1, <2>2, <3>2, <3>3 DEF Course
  <2>4. mode' \in {"none", "refreshOnly", "refreshAndPersist"}
    BY <1>1 DEF StateType
  <2> QED
    BY <1>1, <1>3, <1>7, <1>8, <1>9, <2>1, <2>3, <2>4, Frozen
<1> QED
  BY <1>12, <1>13

\* After the refresh: one entry has changed, or a cookie comes on its own.
LEMMA PollChangeStep == CopyInv /\ PollChange => CopyInv'
<1> SUFFICES ASSUME CopyInv, PollChange PROVE CopyInv'
  OBVIOUS
<1>1. /\ HistoryInv /\ StateType /\ Course(mode, consumer, stale, left, owed, ending, told)
      /\ mode = "refreshAndPersist" /\ ending = Nothing /\ owed = {} /\ Now \in Nat
      /\ UNCHANGED <<history, mode, owed, ending>>
  BY Versions DEF CopyInv, PollChange
<1>2. /\ Persisting(consumer, stale, {}, told)
      /\ Has(consumer, stale, consumer.cookie) /\ GoneIn(stale, consumer.cookie, told)
  BY <1>1 DEF Course, Upto
<1>3. /\ consumer \in Consumers(Now) /\ consumer.cookie \in 0..Now /\ told \in 0..Now /\ told # 0
      /\ consumer.cookie <= told /\ left \subseteq consumer.present /\ stale \subseteq Uuids
      /\ Has(consumer, stale, told) /\ \A u \in stale : At(told)[u] = 0
  BY <1>1, <1>2 DEF StateType, Consumers, Persisting
\* The next change.
<1>4. ASSUME told < Now, NEW t, t = told + 1, told' = t, NEW u \in Uuids, NEW cookie \in Cookies(t), NEW m,
             m = EntryMessage(u, CASE At(t)[u] = 0 -> "delete" [] At(told)[u] = 0 -> "add" [] OTHER -> "modify",
                              At(t)[u], cookie),
             At(t)[u] # At(told)[u], consumer' = Handled(consumer, m), Accounts(m, consumer')
      PROVE  CopyInv'
  <2>1. /\ t \in 0..Now /\ t # 0 /\ told \in 1..Now - 1 /\ told < t /\ consumer.cookie < t
        /\ At(t)[u] \in 0..Now
    <3>1. t \in 0..Now /\ t # 0 /\ told \in 1..Now - 1 /\ told < t /\ consumer.cookie < t
      BY <1>1, <1>3, <1>4
    <3>2. At(t) \in [Uuids -> 0..Now]
      BY <1>1, <3>1, Versions
    <3> QED
      BY <3>1, <3>2
  <2>2. \A w \in Uuids \ {u} : At(t)[w] = At(told)[w]
    BY <1>1, <1>4, <2>1 DEF HistoryInv
  <2>3. /\ m.kind = "entry" /\ m.uuid = u /\ m.cookie = cookie /\ m.value = At(t)[u]
        /\ m.state \in {"add", "modify", "delete"} /\ (m.state = "delete" => At(t)[u] = 0)
    BY <1>4 DEF EntryMessage
  <2>4. PICK present \in SUBSET Uuids, refreshDone \in BOOLEAN, given \in {consumer.cookie, t} :
          /\ consumer' = [copy |-> [consumer.copy EXCEPT ![u] = At(t)[u]], cookie |-> given,
                          present |-> present, refreshDone |-> refreshDone]
          /\ consumer.present \subseteq present
    <3>1. PICK present \in SUBSET Uuids :
            /\ Meant(consumer, m) = [copy |-> [consumer.copy EXCEPT ![u] = At(t)[u]], cookie |-> consumer.cookie,
                                     present |-> present, refreshDone |-> consumer.refreshDone]
            /\ consumer.present \subseteq present
      <4>1. CASE m.state = "delete"
        <5>1. Meant(consumer, m) = DeleteAll(consumer, {u})
          BY <2>3, <4>1 DEF Meant, OfEntry
        <5>2. [w \in Uuids |-> IF w \in {u} THEN 0 ELSE consumer.copy[w]] = [consumer.copy EXCEPT ![u] = At(t)[u]]
          BY <1>3, <2>3, <4>1 DEF Consumers
        <5>3. DeleteAll(consumer, {u}) = [copy |-> [consumer.copy EXCEPT ![u] = At(t)[u]],
                                          cookie |-> consumer.cookie, present |-> consumer.present,
                                          refreshDone |-> consumer.refreshDone]
          BY <1>3, <5>2 DEF DeleteAll, Consumers
        <5> QED
          BY <1>3, <5>1, <5>3 DEF Consumers
      <4>2. CASE m.state # "delete" /\ consumer.refreshDone
        <5>1. Meant(consumer, m) = Entry(consumer, u, At(t)[u])
          BY <1>3, <2>3, <4>2 DEF Meant, OfEntry, Entry, Consumers
        <5>2. Entry(consumer, u, At(t)[u]) = [copy |-> [consumer.copy EXCEPT ![u] = At(t)[u]],
                                              cookie |-> consumer.cookie, present |-> consumer.present,
                                              refreshDone |-> consumer.refreshDone]
          BY <1>3 DEF Entry, Consumers
        <5> QED
          BY <1>3, <5>1, <5>2 DEF Consumers
      <4>3. CASE m.state # "delete" /\ ~consumer.refreshDone
        <5>1. Meant(consumer, m) = Present(Entry(consumer, u, At(t)[u]), {u})
          BY <1>3, <2>3, <4>3 DEF Meant, OfEntry, Entry, Consumers
        <5>2. Entry(consumer, u, At(t)[u]) = [copy |-> [consumer.copy EXCEPT ![u] = At(t)[u]],
                                              cookie |-> consumer.cookie, present |-> consumer.present,
                                              refreshDone |-> consumer.refreshDone]
          BY <1>3 DEF Entry, Consumers
        <5>3. Present(Entry(consumer, u, At(t)[u]), {u})
                = [copy |-> [consumer.copy EXCEPT ![u] = At(t)[u]], cookie |-> consumer.cookie,
                   present |-> consumer.present \cup {u}, refreshDone |-> consumer.refreshDone]
          BY <5>2 DEF Present
        <5>4. consumer.present \cup {u} \in SUBSET Uuids
          BY <1>3 DEF Consumers
        <5> QED
          BY <5>1, <5>3, <5>4
      <4> QED
        BY <2>3, <4>1, <4>2, <4>3
    <3>2. consumer' = SetCookie(Meant(consumer, m), cookie)
      BY <1>4, <2>3 DEF Handled, Refreshed
    <3>3. consumer.refreshDone \in BOOLEAN
      BY <1>3 DEF Consumers
    <3>4. CASE cookie = NoCookie
      BY <3>1, <3>2, <3>3, <3>4 DEF SetCookie
    <3>5. CASE cookie # NoCookie
      <4>1. cookie = t /\ consumer' = [Meant(consumer, m) EXCEPT !.cookie = t]
        BY <1>4, <3>2, <3>5 DEF SetCookie, Cookies
      <4> QED
        BY <3>1, <3>3, <4>1, CookieStored
    <3> QED
      BY <3>4, <3>5
  <2>5. left' = left \ {u} /\ stale' = stale \ {u}
    BY <1>4, <2>3 DEF Accounts, Sweeps
  <2>6. /\ consumer' \in Consumers(Now) /\ consumer'.cookie \in {consumer.cookie, t}
        /\ left' \subseteq consumer'.present /\ stale' \subseteq Uuids
        /\ consumer'.copy[u] = At(t)[u] /\ \A w \in Uuids \ {u} : consumer'.copy[w] = consumer.copy[w]
    BY <1>3, <2>1, <2>4, <2>5 DEF Consumers
  <2>7. \A w \in stale' : At(t)[w] = 0
    BY <1>3, <2>2, <2>5
  <2>8. ASSUME NEW w \in Uuids \ stale', Still(w, t) PROVE consumer'.copy[w] = At(t)[w]
    <3>1. CASE w = u
      BY <2>6, <3>1
    <3>2. CASE w # u
      <4>1. At(t)[w] = At(told)[w]
        BY <2>2, <3>2
      <4>2. \A v \in told..Now : v = told \/ v \in t..Now
        BY <1>1, <1>4, <2>1
      <4>3. Still(w, told)
        BY <2>8, <4>1, <4>2 DEF Still
      <4> QED
        BY <1>3, <2>5, <2>6, <2>8, <3>2, <4>1, <4>3 DEF Has
    <3> QED
      BY <3>1, <3>2
  <2>9. ASSUME NEW w \in Uuids \ stale', Still(w, consumer.cookie)
        PROVE  consumer'.copy[w] = At(consumer.cookie)[w]
    <3>1. told \in consumer.cookie..Now /\ t \in consumer.cookie..Now
      BY <1>1, <1>3, <2>1
    <3>2. w # u
      BY <1>4, <2>9, <3>1 DEF Still
    <3> QED
      BY <1>2, <2>5, <2>6, <2>9, <3>2 DEF Has
  <2>10. Has(consumer', stale', consumer'.cookie) /\ Has(consumer', stale', t)
    BY <2>6, <2>8, <2>9 DEF Has
  <2>11. GoneIn(stale', consumer'.cookie, t)
    <3>1. CASE consumer'.cookie = t
      BY <1>1, <2>1, <2>7, <3>1 DEF GoneIn
    <3>2. CASE consumer'.cookie = consumer.cookie
      <4>1. \A v \in consumer.cookie..told : v \in consumer.cookie..t
        BY <1>3, <2>1
      <4> QED
        BY <1>2, <2>5, <3>2, <4>1 DEF GoneIn
    <3> QED
      BY <2>6, <3>1, <3>2
  <2>12. Persisting(consumer', stale', {}, t)
    BY <1>3, <2>1, <2>6, <2>7, <2>10 DEF Persisting
  <2>13. Course(mode', consumer', stale', left', owed', ending', told')
    BY <1>1, <1>4, <2>10, <2>11, <2>12 DEF Course, Upto
  <2> QED
    BY <1>1, <1>4, <2>1, <2>6, <2>13, Frozen
\* A cookie on its own.
<1>5. ASSUME consumer' = Handled(consumer, [kind |-> "newcookie", cookie |-> told]), UNCHANGED <<told, left, stale>>
      PROVE  CopyInv'
  <2>1. consumer' = [consumer EXCEPT !.cookie = told]
    BY <1>3, <1>5 DEF Handled, Refreshed, SetCookie, NoCookie, Meant, OfInfo
  <2>2. /\ consumer' \in Consumers(Now) /\ consumer'.cookie = told /\ consumer'.present = consumer.present
        /\ consumer'.copy = consumer.copy
    BY <1>3, <2>1 DEF Consumers
  <2>3. Has(consumer', stale, told)
    BY <1>3, <2>2 DEF Has
  <2>4. GoneIn(stale, told, told)
    BY <1>3 DEF GoneIn
  <2>5. Persisting(consumer', stale, {}, told)
    BY <1>3, <2>2, <2>3 DEF Persisting
  <2>6. Course(mode', consumer', stale', left', owed', ending', told')
    BY <1>1, <1>5, <2>2, <2>3, <2>4, <2>5 DEF Course, Upto
  <2> QED
    BY <1>1, <1>3, <1>5, <2>2, <2>6, Frozen
<1> QED
  <2>1. CASE /\ told < Now /\ told' = told + 1
             /\ \E u \in Uuids, cookie \in Cookies(told') :
                  LET m == EntryMessage(u, CASE At(told')[u] = 0 -> "delete"
                                             [] At(told)[u] = 0 -> "add"
                                             [] OTHER -> "modify", At(told')[u], cookie)
                  IN /\ At(told')[u] # At(told)[u]
                     /\ consumer' = Handled(consumer, m) /\ Accounts(m, consumer')
    <3>1. PICK t : t = told'
      OBVIOUS
    <3> QED
      BY <1>4, <2>1, <3>1
  <2> QED
    BY <1>5, <2>1 DEF PollChange

\* A search that stops leaves the copy with what it has.
LEMMA Stopped ==
    ASSUME CopyInv, UNCHANGED history, Stops, consumer' \in Consumers(Now), stale' \subseteq Uuids,
           left' = consumer'.present, Has(consumer', stale', consumer'.cookie),
           NEW to \in 0..Now, GoneIn(stale', consumer'.cookie, to)
    PROVE  CopyInv'
<1>1. HistoryInv /\ Now \in Nat
  BY Versions DEF CopyInv
<1>2. \A v \in consumer'.cookie..to : v \in consumer'.cookie..Now
  BY <1>1 DEF Consumers
<1>3. GoneIn(stale', consumer'.cookie, Now)
  BY <1>2 DEF GoneIn
<1>4. Course(mode', consumer', stale', left', owed', ending', told')
  BY <1>3 DEF Course, Upto, Stops
<1> QED
  BY <1>1, <1>4, Frozen DEF Stops

LEMMA LoseStep == CopyInv /\ LoseConnection => CopyInv'
<1> SUFFICES ASSUME CopyInv, LoseConnection PROVE CopyInv'
  OBVIOUS
<1>1. /\ StateType /\ Stops /\ UNCHANGED <<history, consumer, stale>> /\ left' = consumer.present
      /\ Has(consumer, stale, consumer.cookie) /\ GoneIn(stale, consumer.cookie, told)
  BY DEF CopyInv, Course, Upto, LoseConnection
<1> QED
  BY <1>1, Stopped DEF StateType

LEMMA DieStep == CopyInv /\ Die => CopyInv'
<1> SUFFICES ASSUME CopyInv, Die PROVE CopyInv'
  OBVIOUS
<1>1. PICK m \in owed \cup (IF owed = {} THEN {ending} ELSE {}) :
        LET meant == IF m = Nothing THEN consumer ELSE Meant(consumer, m)
        IN /\ consumer' = [meant EXCEPT !.present = {}]
           /\ IF m = Nothing THEN stale' = stale
              ELSE stale' = {u \in stale \cup (IF Sweeps(m) THEN left ELSE {}) : meant.copy[u] # 0}
  BY DEF Die
<1>2. /\ HistoryInv /\ StateType /\ Course(mode, consumer, stale, left, owed, ending, told)
      /\ mode # "none" /\ Stops /\ UNCHANGED history /\ left' = {} /\ Now \in Nat
      /\ Has(consumer, stale, consumer.cookie) /\ GoneIn(stale, consumer.cookie, told)
  BY Versions DEF CopyInv, Course, Upto, Die
<1>3. /\ consumer \in Consumers(Now) /\ told \in 0..Now
      /\ left \in SUBSET consumer.present /\ left \subseteq Uuids /\ stale \subseteq Uuids
  BY <1>2 DEF StateType, Consumers
<1>4. ASSUME NEW c \in Consumers(Now), consumer' = [c EXCEPT !.present = {}], stale' \subseteq Uuids,
             Has(c, stale', c.cookie), GoneIn(stale', c.cookie, told)
      PROVE  CopyInv'
  <2>1. /\ consumer' \in Consumers(Now) /\ consumer'.present = {} /\ consumer'.cookie = c.cookie
        /\ consumer'.copy = c.copy
    BY <1>4 DEF Consumers
  <2>2. Has(consumer', stale', consumer'.cookie)
    BY <1>4, <2>1 DEF Has
  <2> QED
    BY <1>2, <1>3, <1>4, <2>1, <2>2, Stopped
<1>5. CASE m = Nothing
  BY <1>1, <1>2, <1>3, <1>4, <1>5
<1>6. CASE m # Nothing
  <2> DEFINE c2 == Meant(consumer, m)
             s2 == {u \in stale \cup (IF Sweeps(m) THEN left ELSE {}) : c2.copy[u] # 0}
  <2>1. consumer' = [c2 EXCEPT !.present = {}] /\ stale' = s2
    BY <1>1, <1>6
  <2>2. s2 \subseteq Uuids
    BY <1>3
  <2>3. ending # Nothing /\ Refreshing(consumer, stale, left, owed, ending, told)
    BY <1>1, <1>2, <1>6 DEF Course, Persisting
  <2>4. told \in consumer.cookie..Now /\ ~consumer.refreshDone
    BY <1>2, <1>3, <2>3 DEF Refreshing, Consumers
  <2>5. CASE m \in owed
    <3>1. m \in Sayable(consumer.cookie, told, ending)
      BY <2>3, <2>5 DEF Refreshing
    <3>2. Does(consumer, m, c2, consumer.cookie, told, ending)
      BY <1>2, <1>3, <2>4, <3>1, MessageDoes DEF Consumers
    <3>3. c2 \in Consumers(Now) /\ c2.cookie = consumer.cookie /\ s2 = {u \in stale : c2.copy[u] # 0}
      BY <3>2 DEF Does, Sweeps
    <3> HIDE DEF c2, s2
    <3>4. Has(c2, s2, c2.cookie)
      BY <1>2, <1>3, <2>4, <3>2, <3>3, StaysTrue
    <3>5. GoneIn(s2, c2.cookie, told)
      BY <1>2, <3>3 DEF GoneIn
    <3> QED
      BY <1>4, <2>1, <2>2, <3>3, <3>4, <3>5
  <2>6. CASE m = ending /\ owed = {}
    <3>1. /\ c2 = [copy |-> [u \in Uuids |->
                              IF Sweeps(ending) /\ u \notin consumer.present THEN 0 ELSE consumer.copy[u]],
                   cookie |-> consumer.cookie, present |-> {}, refreshDone |-> consumer.refreshDone]
          /\ Has(c2, s2, consumer.cookie) /\ GoneIn(s2, consumer.cookie, told)
      <4>1. Refreshing(consumer, stale, left, {}, ending, told) /\ c2 = Meant(consumer, ending)
        BY <2>3, <2>6
      <4>2. /\ HistoryInv /\ consumer \in Consumers(Now) /\ told \in consumer.cookie..Now
            /\ left \in SUBSET consumer.present /\ stale \subseteq Uuids
            /\ Has(consumer, stale, consumer.cookie) /\ GoneIn(stale, consumer.cookie, told)
        BY <1>2, <1>3, <2>4
      <4>3. s2 = LeftAfter(c2, stale, left, ending)
        BY <2>6 DEF LeftAfter
      <4> HIDE DEF c2, s2
      <4>4. m = ending
        BY <2>6
      <4>5. PICK s3 : s3 = LeftAfter(c2, stale, left, ending)
        OBVIOUS
      <4>6. /\ c2 = [copy |-> [u \in Uuids |-> IF Sweeps(ending) /\ u \notin consumer.present
                                               THEN 0 ELSE consumer.copy[u]],
                     cookie |-> consumer.cookie, present |-> {}, refreshDone |-> consumer.refreshDone]
            /\ Has(c2, s3, consumer.cookie) /\ GoneIn(s3, consumer.cookie, told)
        BY <4>1, <4>2, <4>5, EndDoes, ZenonT(60)
      <4> QED
        BY <4>3, <4>4, <4>5, <4>6
    <3>2. c2 \in Consumers(Now) /\ c2.cookie = consumer.cookie
      BY <1>2, <1>3, <3>1 DEF Consumers
    <3> HIDE DEF c2, s2
    <3> QED
      BY <1>4, <2>1, <2>2, <3>1, <3>2
  <2> QED
    BY <1>1, <2>5, <2>6
<1> QED
  BY <1>5, <1>6

LEMMA NextStep == CopyInv /\ [Next]_vars => CopyInv'
<1> SUFFICES ASSUME CopyInv, [Next]_vars PROVE CopyInv'
  OBVIOUS
<1>1. CASE UNCHANGED vars
  <2>1. UNCHANGED <<history, mode, owed, ending, told, consumer, left, stale>>
    BY <1>1 DEF vars, server
  <2>2. Course(mode', consumer', stale', left', owed', ending', told')
    BY <2>1 DEF CopyInv
  <2> QED
    BY <2>1, <2>2, Frozen DEF CopyInv, StateType
<1> QED
  BY <1>1, SearchStep, PollStep, PollEndStep, PollChangeStep, LoseStep, DieStep, ChangeStep DEF Next

\* The copy is as good as the cookie says, however searches are cut off: the
\* cookie is stored last of what a message says, and the end of a phase deletes
\* what it did not name (syncrepl_poll, _syncrepl_info).
THEOREM CookiesAreHonest == Spec => []CookieIsHonest
<1>1. CopyInv => CookieIsHonest
  <2> SUFFICES ASSUME CopyInv PROVE CookieIsHonest
    OBVIOUS
  <2>1. HistoryInv /\ StateType /\ Has(consumer, stale, consumer.cookie) /\ Now \in Nat
    BY Versions DEF CopyInv, Course
  <2>2. TypeOK /\ consumer.cookie \in 0..Now
    BY <2>1 DEF TypeOK, StateType, Consumers
  <2>3. ASSUME consumer.cookie # NoCookie, NEW u \in Uuids \ stale,
               \A v \in consumer.cookie..Now : history[v][u] = history[consumer.cookie][u]
        PROVE  consumer.copy[u] = history[consumer.cookie][u]
    <3>1. \A v \in consumer.cookie..Now : v # 0
      BY <2>1, <2>2, <2>3 DEF NoCookie
    <3>2. Still(u, consumer.cookie)
      BY <2>3, <3>1 DEF Still, At, NoCookie
    <3> QED
      BY <2>1, <2>3, <3>2 DEF Has, At, NoCookie
  <2> QED
    BY <2>2, <2>3 DEF CookieIsHonest
<1> QED
  BY <1>1, InitStep, NextStep, PTL DEF Spec
=============================================================================
