-------------------------- MODULE ReconnectProofs --------------------------
(***************************************************************************)
(* What ReconnectLDAPObject promises for any number of tasks, operations,  *)
(* connections and tries.                                                  *)
(***************************************************************************)
EXTENDS Reconnect, FiniteSetTheorems, TLAPS

Outcomes == {"none", "returned"}

\* What a task is at.
TaskType ==
    [at : {"idle", "lock", "closing", "sleeping", "connecting", "asked", "served", "down"},
     call : Calls \cup Outcomes, doing : {"call", "tls", "bind"},
     again : BOOLEAN, plain : BOOLEAN, counter : Nat, conn : 0..MaxConns,
     said : {"nothing", "ok", "refused", "unavailable"},
     then : {"end", "rebuild", "retry", "raise"}, times : Nat]

ConnType == [up : BOOLEAN, tls : BOOLEAN, bound : BOOLEAN, fell : BOOLEAN, bare : BOOLEAN,
             left : BOOLEAN]

\* The connections are numbered as they are made.
ConnsType ==
    /\ Cardinality(Conns) \in 0..MaxConns /\ Conns = 1..Cardinality(Conns)
    /\ conns \in [Conns -> ConnType]

FlagsType ==
    /\ unbound \in BOOLEAN /\ lastBind \in BOOLEAN /\ startTLS \in BOOLEAN
    /\ retrying \in BOOLEAN /\ crossed \in BOOLEAN
    /\ stream \in Conns \cup {0}

\* A task waits on a connection that was made, and knows where it goes from one
\* that it closes.
TasksType ==
    /\ task \in [Tasks -> TaskType]
    /\ \A t \in Tasks :
          /\ task[t].at \in Waiting => task[t].conn \in Conns
          /\ task[t].at = "closing" => task[t].then # "end"
          /\ task[t].at = "idle" <=> task[t].call \in Outcomes

\* Whoever set _retrying is under way, and alone in that.
OneMayReconnect ==
    /\ retrying = (\E t \in Active : ~task[t].plain)
    /\ \A t, u \in Active : ~task[t].plain /\ ~task[u].plain => t = u

TypeInv == ConnsType /\ FlagsType /\ TasksType /\ OneMayReconnect

\* What the server has done of an operation: at most once for each time it was
\* asked, and for certain when it has said so.
Done(r) == r.doing = "call" /\ r.at \in {"served", "down"}
Asked(r) == (IF r.again THEN 1 ELSE 0) + (IF Done(r) THEN 1 ELSE 0)

Counted(r) ==
    /\ r.at # "idle" => r.times <= Asked(r)
    /\ r.at = "served" /\ r.doing = "call" /\ r.said = "ok" => r.times >= 1
    /\ r.at = "idle" => r.times <= 2
    /\ r.call = "returned" => r.times >= 1

TimesInv == \A t \in Tasks : Counted(task[t])

\* As long as nothing has begun in the middle of an operation, one task at most
\* is under way, and it may reconnect.
Alone == \A t, u \in Active : t = u /\ ~task[t].plain

\* Where its connection is then: the one in use, or none; and what a connection
\* is opened for.
OnStream(r) ==
    /\ r.at \in Waiting => r.conn = stream
    /\ r.at \in {"connecting", "closing", "sleeping", "down"} => stream = 0
    /\ r.at = "lock" /\ ~r.again => stream = 0
    /\ r.at = "connecting" /\ r.doing = "call" => ~lastBind
    /\ r.at = "connecting" /\ r.doing = "bind" => ~startTLS

\* A connection is over TLS but while StartTLS is asked for again, and bound but
\* while the bind is made again; and a bind that is told to be accepted has been.
\* Of one left in a handshake nothing is said.
Kept(r, c) ==
    \/ c.left
    \/ /\ r.doing # "tls" => c.tls \/ c.bare \/ ~startTLS
       /\ r.doing = "call" /\ lastBind => c.bound \/ c.fell
       /\ (/\ r.at = "served" /\ r.said = "ok"
           /\ \/ r.doing = "bind" /\ lastBind
              \/ r.doing = "call" /\ r.call = "bind") => c.bound

\* So is the one in use, with whoever is under way, or with nobody.
KeptInUse(r) == (stream # 0 /\ conns[stream].up) => Kept(r, conns[stream])

AloneInv ==
    /\ Alone
    /\ \A t \in Active : OnStream(task[t]) /\ KeptInUse(task[t])
    /\ Active = {} => KeptInUse(Idle("none"))

AsItWasInv == TypeInv /\ (~crossed => AloneInv)

-----------------------------------------------------------------------------
(* Lemmas about the ways on from one step to the next.                     *)

LEMMA Failing ==
  ASSUME NEW r \in TaskType
  PROVE  [r EXCEPT !.at = "down", !.conn = 0, !.said = "nothing"] \in TaskType
<1>1. 0 \in 0..MaxConns
  BY ReconnectAssumption
<1> QED
  BY <1>1 DEF TaskType

LEMMA Asking ==
  ASSUME NEW r \in TaskType, NEW what \in {"call", "tls", "bind"}, NEW on \in 0..MaxConns
  PROVE  /\ Exchange(r, what, on) \in TaskType
         /\ Exchange(r, what, on).at = IF on = 0 THEN "connecting" ELSE "asked"
         /\ Exchange(r, what, on).conn = on
         /\ Exchange(r, what, on).call = r.call /\ Exchange(r, what, on).doing = what
         /\ Exchange(r, what, on).plain = r.plain /\ Exchange(r, what, on).again = r.again
         /\ Exchange(r, what, on).times = r.times
<1>1. PICK at \in {"connecting", "asked"} : at = IF on = 0 THEN "connecting" ELSE "asked"
  OBVIOUS
<1>2. PICK q : q = [r EXCEPT !.doing = what, !.at = at, !.conn = on, !.said = "nothing", !.then = "end"]
  OBVIOUS
<1>3. q = Exchange(r, what, on)
  BY <1>1, <1>2 DEF Exchange
<1>4. /\ q \in TaskType /\ q.at = at /\ q.conn = on /\ q.call = r.call /\ q.doing = what
      /\ q.plain = r.plain /\ q.again = r.again /\ q.times = r.times
  BY <1>2 DEF TaskType
<1> QED
  BY <1>1, <1>3, <1>4

LEMMA Idling ==
  ASSUME NEW call \in Calls \cup Outcomes
  PROVE  Idle(call) \in TaskType
  BY ReconnectAssumption DEF TaskType, Idle, Calls, Outcomes

\* One task goes on, and is still under way as what it was.
LEMMA GoesOn ==
  ASSUME TasksType, OneMayReconnect, NEW t \in Active, NEW r \in TaskType,
         Goes(t, r) \/ GoesAndAllFail(t, r),
         r.at # "idle", r.call \notin Outcomes, r.plain = task[t].plain,
         r.at \in Waiting => r.conn \in Conns',
         r.at = "closing" => r.then # "end",
         Conns \subseteq Conns', retrying' = retrying
  PROVE  TasksType' /\ OneMayReconnect'
<1>1. t \in Tasks /\ task \in [Tasks -> TaskType] /\ task[t].at # "idle"
  BY DEF TasksType, Active
<1>2. /\ task' \in [Tasks -> TaskType]
      /\ task'[t] = r
      /\ \A u \in Tasks \ {t} :
            \/ task'[u] = task[u]
            \/ /\ task[u].at \in Waiting
               /\ task'[u] = [task[u] EXCEPT !.at = "down", !.conn = 0, !.said = "nothing"]
  <2>1. CASE Goes(t, r)
    BY <1>1, <2>1 DEF Goes
  <2>2. CASE GoesAndAllFail(t, r)
    <3>1. \A u \in Tasks : [task[u] EXCEPT !.at = "down", !.conn = 0, !.said = "nothing"] \in TaskType
      BY <1>1, Failing
    <3> QED
      BY <1>1, <2>2, <3>1 DEF GoesAndAllFail
  <2> QED
    BY <2>1, <2>2
<1>3. \A u \in Tasks : /\ task'[u].at = "idle" <=> task[u].at = "idle"
                       /\ task'[u].plain = task[u].plain
                       /\ u # t => task'[u].call = task[u].call
  <2> TAKE u \in Tasks
  <2>1. task[u] \in TaskType
    BY <1>1
  <2>2. CASE u = t
    BY <1>1, <1>2, <2>2
  <2>3. CASE task'[u] = task[u]
    BY <2>2, <2>3, <1>1, <1>2
  <2>4. CASE /\ u # t /\ task[u].at \in Waiting
             /\ task'[u] = [task[u] EXCEPT !.at = "down", !.conn = 0, !.said = "nothing"]
    BY <2>1, <2>4 DEF TaskType, Waiting
  <2> QED
    BY <1>2, <2>2, <2>3, <2>4
<1>4. TasksType'
  <2> SUFFICES ASSUME NEW u \in Tasks
               PROVE  /\ task'[u].at \in Waiting => task'[u].conn \in Conns'
                      /\ task'[u].at = "closing" => task'[u].then # "end"
                      /\ task'[u].at = "idle" <=> task'[u].call \in Outcomes
    BY <1>2 DEF TasksType, Waiting
  <2>1. CASE u = t
    BY <1>2, <2>1
  <2>2. CASE task'[u] = task[u]
    BY <2>2 DEF TasksType
  <2>3. CASE /\ u # t /\ task[u].at \in Waiting
             /\ task'[u] = [task[u] EXCEPT !.at = "down", !.conn = 0, !.said = "nothing"]
    <3>1. task[u] \in TaskType
      BY <1>1
    <3>2. task'[u].at = "down" /\ task'[u].call = task[u].call
      BY <2>3, <3>1 DEF TaskType
    <3>3. task[u].call \notin Outcomes
      BY <2>3 DEF TasksType, Waiting
    <3> QED
      BY <3>2, <3>3 DEF Waiting
  <2> QED
    BY <1>2, <2>1, <2>2, <2>3
<1>5. OneMayReconnect'
  BY <1>3 DEF OneMayReconnect, Active
<1> QED
  BY <1>4, <1>5

\* An operation ends, and the next may reconnect.
LEMMA EndsIt ==
  ASSUME TasksType, OneMayReconnect, NEW t \in Active, NEW outcome \in Outcomes, Ends(t, outcome),
         Conns' = Conns
  PROVE  TasksType' /\ OneMayReconnect'
<1>1. t \in Tasks /\ task \in [Tasks -> TaskType] /\ task[t].at # "idle"
  BY DEF TasksType, Active
<1> DEFINE r == [Idle(outcome) EXCEPT !.times = IF outcome = "returned" THEN task[t].times ELSE 0]
<1>2. r \in TaskType /\ r.at = "idle" /\ r.call \in Outcomes
  <2>1. Idle(outcome) \in TaskType
    BY Idling
  <2>2. task[t].times \in Nat
    BY <1>1 DEF TaskType
  <2> QED
    BY <2>1, <2>2 DEF Idle, TaskType
<1>3. task' = [task EXCEPT ![t] = r] /\ retrying' = (retrying /\ task[t].plain)
  BY DEF Ends, Goes
<1> HIDE DEF r
<1>4. TasksType'
  BY <1>1, <1>2, <1>3 DEF TasksType, Waiting
<1>5. Active' = Active \ {t} /\ \A u \in Active \ {t} : task'[u] = task[u]
  BY <1>1, <1>2, <1>3 DEF Active
<1>6. OneMayReconnect'
  BY <1>1, <1>3, <1>5 DEF OneMayReconnect, TaskType
<1> QED
  BY <1>4, <1>6

\* Connections that are closed stay where they are.
LEMMA ClosingOne ==
  ASSUME ConnsType, NEW g \in Conns, conns' = Closes(g)
  PROVE  ConnsType' /\ Conns' = Conns
<1>1. [Fresh EXCEPT !.up = FALSE] \in ConnType
  BY DEF Fresh, ConnType
<1>2. conns' \in [Conns -> ConnType]
  BY <1>1 DEF ConnsType, Closes, Conns
<1>3. Conns' = Conns
  BY <1>2 DEF Conns
<1> QED
  BY <1>2, <1>3 DEF ConnsType

\* reconnect goes on: what it asks next.
LEMMA BuildsAgain ==
  ASSUME TypeInv, NEW t \in Active, NEW r \in TaskType,
         r.at # "idle", r.call = task[t].call, r.plain = task[t].plain,
         NEW on \in Conns \cup {0}, Goes(t, Rebuild(r, on)), Conns \subseteq Conns',
         retrying' = retrying
  PROVE  TasksType' /\ OneMayReconnect'
<1>1. t \in Tasks /\ task[t] \in TaskType /\ task[t].call \notin Outcomes
  BY DEF TypeInv, TasksType, Active
<1>2. on \in 0..MaxConns
  BY ReconnectAssumption DEF TypeInv, ConnsType
<1>3. /\ Rebuild(r, on) \in TaskType /\ Rebuild(r, on).at \in {"connecting", "asked"}
      /\ Rebuild(r, on).at = "asked" => Rebuild(r, on).conn \in Conns
      /\ Rebuild(r, on).call = r.call /\ Rebuild(r, on).plain = r.plain
  BY <1>2, Asking DEF Rebuild
<1> QED
  BY <1>1, <1>3, GoesOn DEF TypeInv, Waiting

\* Where unbind_ext leads.
LEMMA AfterIt ==
  ASSUME TypeInv, NEW t \in Active, NEW then \in {"rebuild", "retry", "raise"}, After(t, then),
         Conns' = Conns
  PROVE  TasksType' /\ OneMayReconnect' /\ retrying' \in BOOLEAN
<1>1. t \in Tasks /\ task[t] \in TaskType /\ task[t].at # "idle" /\ task[t].call \notin Outcomes
  BY DEF TypeInv, TasksType, Active
<1>2. CASE then = "rebuild"
  BY <1>1, <1>2, BuildsAgain DEF After, TypeInv, FlagsType
<1>3. CASE then = "retry"
  <2> DEFINE r == [task[t] EXCEPT !.at = "sleeping", !.conn = 0, !.said = "nothing",
                                  !.doing = "call", !.then = "end", !.counter = CountedDown(@)]
  <2>1. CountedDown(task[t].counter) \in Nat /\ 0 \in 0..MaxConns
    BY <1>1, ReconnectAssumption DEF CountedDown, TaskType
  <2>2. r \in TaskType /\ r.at = "sleeping" /\ r.call = task[t].call /\ r.plain = task[t].plain
    BY <1>1, <2>1 DEF TaskType
  <2>3. Goes(t, r) /\ retrying' = retrying
    BY <1>3 DEF After
  <2> HIDE DEF r
  <2> QED
    BY <1>1, <2>2, <2>3, GoesOn DEF TypeInv, Waiting, FlagsType
<1>4. CASE then = "raise"
  <2>1. Ends(t, "none")
    BY <1>4 DEF After
  <2>2. retrying' \in BOOLEAN
    BY <1>1, <2>1 DEF Ends, TypeInv, FlagsType, TaskType
  <2> QED
    BY <2>1, <2>2, EndsIt DEF TypeInv, Outcomes
<1> QED
  BY <1>2, <1>3, <1>4

\* An operation that failed is begun again, or over.
LEMMA FailsIt ==
  ASSUME TypeInv, NEW t \in Active, NEW why, Fails(t, why)
  PROVE  TypeInv'
<1>1. t \in Tasks /\ task[t] \in TaskType /\ task[t].at # "idle" /\ task[t].call \notin Outcomes
  BY DEF TypeInv, TasksType, Active
<1>2. CASE FailsCall(t, why)
  <2>1. ConnsType' /\ Conns' = Conns
    BY <1>2 DEF FailsCall, ConnsType, Conns, TypeInv
  <2>2. CASE Ends(t, "none")
    <3>1. retrying' \in BOOLEAN
      BY <1>1, <2>2 DEF Ends, TypeInv, FlagsType, TaskType
    <3> QED
      BY <1>2, <2>1, <2>2, <3>1, EndsIt DEF TypeInv, Outcomes, FlagsType, Fails, FailsCall
  <2>3. CASE ~Ends(t, "none")
    <3> DEFINE r == [Idle(task[t].call) EXCEPT !.at = "lock", !.again = TRUE, !.times = task[t].times]
    <3>1. Idle(task[t].call) \in TaskType /\ task[t].times \in Nat
      BY <1>1, Idling DEF TaskType
    <3>2. r \in TaskType /\ r.at = "lock" /\ r.call = task[t].call /\ r.plain = FALSE
      BY <3>1 DEF TaskType, Idle
    <3>3. Goes(t, r) /\ retrying' = retrying /\ ~task[t].plain
      BY <1>2, <2>3 DEF FailsCall
    <3>4. task[t].plain = FALSE
      BY <1>1, <3>3 DEF TaskType
    <3> HIDE DEF r
    <3>5. TasksType' /\ OneMayReconnect'
      BY <1>1, <2>1, <3>2, <3>3, <3>4, GoesOn DEF TypeInv, Waiting
    <3> QED
      BY <1>2, <2>1, <3>3, <3>5 DEF TypeInv, FlagsType, Fails, FailsCall
  <2> QED
    BY <2>2, <2>3
<1>3. CASE FailsRebuild(t, why)
  <2>1. PICK then \in {"retry", "raise"} :
          \/ stream = 0 /\ After(t, then) /\ UNCHANGED <<stream, unbound, conns>>
          \/ /\ stream # 0
             /\ stream' = 0 /\ unbound' = TRUE /\ conns' = Closes(stream)
             /\ GoesAndAllFail(t, [task[t] EXCEPT !.at = "closing", !.conn = 0, !.said = "nothing", !.then = then])
             /\ UNCHANGED retrying
    BY <1>3 DEF FailsRebuild
  <2>2. CASE stream = 0
    <3>1. ConnsType' /\ Conns' = Conns /\ After(t, then) /\ UNCHANGED <<stream, unbound>>
      BY <2>1, <2>2 DEF ConnsType, Conns, TypeInv
    <3>2. TasksType' /\ OneMayReconnect' /\ retrying' \in BOOLEAN
      BY <3>1, AfterIt
    <3> QED
      BY <3>1, <3>2 DEF TypeInv, FlagsType, Fails
  <2>3. CASE stream # 0
    <3> DEFINE r == [task[t] EXCEPT !.at = "closing", !.conn = 0, !.said = "nothing", !.then = then]
    <3>1. /\ stream' = 0 /\ unbound' = TRUE /\ conns' = Closes(stream)
          /\ GoesAndAllFail(t, r) /\ UNCHANGED retrying
      BY <2>1, <2>3
    <3>2. 0 \in 0..MaxConns
      BY ReconnectAssumption
    <3>3. /\ r \in TaskType /\ r.at = "closing" /\ r.call = task[t].call /\ r.plain = task[t].plain
          /\ r.then = then
      BY <1>1, <3>2 DEF TaskType
    <3>4. ConnsType' /\ Conns' = Conns
      BY <2>3, <3>1, ClosingOne DEF TypeInv, FlagsType
    <3> HIDE DEF r
    <3>5. TasksType' /\ OneMayReconnect'
      BY <1>1, <3>1, <3>3, <3>4, GoesOn DEF TypeInv, Waiting
    <3> QED
      BY <3>1, <3>4, <3>5 DEF TypeInv, FlagsType, Fails
  <2> QED
    BY <2>2, <2>3
<1> QED
  BY <1>2, <1>3 DEF Fails

LEMMA TypeStep == TypeInv /\ [Next]_vars => TypeInv'
<1> SUFFICES ASSUME TypeInv, [Next]_vars PROVE TypeInv'
  OBVIOUS
<1>0. ASSUME NEW t \in Active
      PROVE  t \in Tasks /\ task[t] \in TaskType /\ task[t].at # "idle" /\ task[t].call \notin Outcomes
  BY <1>0 DEF TypeInv, TasksType, Active
<1>1. ASSUME NEW t \in Tasks, task[t].at # "idle" PROVE t \in Active
  BY <1>1 DEF Active
<1>2. ASSUME UNCHANGED conns PROVE ConnsType' /\ Conns' = Conns
  BY <1>2 DEF TypeInv, ConnsType, Conns
<1>3. 0 \in 0..MaxConns
  BY ReconnectAssumption
<1>4. ASSUME NEW t \in Tasks, NEW call \in Calls, Begin(t, call) PROVE TypeInv'
  <2>1. ConnsType' /\ Conns' = Conns
    BY <1>2, <1>4 DEF Begin
  <2>2. FlagsType'
    BY <1>4, <2>1 DEF Begin, TypeInv, FlagsType
  <2> DEFINE r == [Idle("none") EXCEPT !.call = call, !.plain = retrying]
  <2>3. Idle("none") \in TaskType /\ retrying \in BOOLEAN
    BY Idling DEF Outcomes, TypeInv, FlagsType
  <2>4. r \in TaskType /\ r.call = call /\ r.plain = retrying
    BY <2>3 DEF TaskType, Calls, Outcomes
  <2>5. \E q \in TaskType :
          /\ Goes(t, q) /\ q.call = call /\ q.plain = retrying
          /\ q.at \in {"lock", "connecting", "asked"}
          /\ q.at = "asked" => q.conn \in Conns
    <3> HIDE DEF r
    <3>1. CASE Goes(t, [r EXCEPT !.at = "lock"])
      <4> DEFINE q == [r EXCEPT !.at = "lock"]
      <4>1. q \in TaskType /\ q.at = "lock" /\ q.call = r.call /\ q.plain = r.plain
        BY <2>4 DEF TaskType
      <4> HIDE DEF q
      <4> QED
        BY <2>4, <3>1, <4>1 DEF q
    <3>2. CASE Goes(t, Exchange(r, "call", stream))
      <4>1. stream \in 0..MaxConns /\ stream \in Conns \cup {0}
        BY ReconnectAssumption DEF TypeInv, FlagsType, ConnsType
      <4> DEFINE q == Exchange(r, "call", stream)
      <4>2. /\ q \in TaskType /\ q.at \in {"connecting", "asked"} /\ q.call = r.call
            /\ q.plain = r.plain /\ q.conn = stream /\ (q.at = "asked" => stream # 0)
        <5>1. /\ q \in TaskType /\ q.at = IF stream = 0 THEN "connecting" ELSE "asked"
              /\ q.conn = stream /\ q.call = r.call /\ q.plain = r.plain
          BY <2>4, <4>1, Asking
        <5> HIDE DEF q
        <5> QED
          BY <5>1
      <4> HIDE DEF q
      <4> QED
        BY <2>4, <3>2, <4>1, <4>2 DEF q
    <3> QED
      BY <1>4, <3>1, <3>2 DEF Begin, r
  <2> HIDE DEF r
  <2>6. PICK q \in TaskType :
          /\ Goes(t, q) /\ q.call = call /\ q.plain = retrying
          /\ q.at \in {"lock", "connecting", "asked"}
          /\ q.at = "asked" => q.conn \in Conns
    BY <2>5
  <2>7. TasksType'
    BY <1>4, <2>1, <2>6 DEF TypeInv, TasksType, Goes, Waiting, Calls, Outcomes
  <2>8. t \notin Active /\ Active' = Active \cup {t} /\ \A u \in Active : task'[u] = task[u]
    BY <1>4, <2>6 DEF Begin, Active, Goes, TypeInv, TasksType
  <2>9. task'[t].plain = retrying /\ retrying' = TRUE
    BY <1>4, <2>6 DEF Begin, Goes, TypeInv, TasksType
  <2>10. OneMayReconnect'
    BY <2>3, <2>8, <2>9 DEF OneMayReconnect, TypeInv
  <2> QED
    BY <2>1, <2>2, <2>7, <2>10 DEF TypeInv
<1>5. ASSUME NEW t \in Tasks, BeginUnbound(t) PROVE TypeInv'
  <2>1. ConnsType' /\ Conns' = Conns /\ FlagsType'
    BY <1>2, <1>5 DEF BeginUnbound, object, TypeInv, FlagsType
  <2>2. Idle("none") \in TaskType /\ Idle("none").at = "idle" /\ Idle("none").call = "none"
    BY Idling DEF Outcomes, Idle
  <2>3. TasksType'
    BY <1>5, <2>1, <2>2 DEF BeginUnbound, Goes, TypeInv, TasksType, Waiting, Outcomes
  <2>4. Active' = Active /\ \A u \in Active : task'[u] = task[u]
    BY <1>5, <2>2 DEF BeginUnbound, Goes, TypeInv, TasksType, Active
  <2>5. OneMayReconnect'
    BY <1>5, <2>4 DEF BeginUnbound, object, OneMayReconnect, TypeInv
  <2> QED
    BY <2>1, <2>3, <2>5 DEF TypeInv
<1>6. ASSUME NEW t \in Tasks, Locked(t) PROVE TypeInv'
  <2> DEFINE r == [task[t] EXCEPT !.counter = RetryMax]
  <2>1. t \in Active
    BY <1>1, <1>6 DEF Locked
  <2>2. /\ r \in TaskType /\ r.at = "lock" /\ r.call = task[t].call /\ r.plain = task[t].plain
        /\ r.again = task[t].again
    BY <1>0, <1>6, <2>1, ReconnectAssumption DEF Locked, TaskType
  <2>3. UNCHANGED <<lastBind, startTLS, retrying, calls, crossed>>
    BY <1>6 DEF Locked
  <2>4. CASE stream = 0 /\ unbound' = FALSE /\ Goes(t, Rebuild(r, 0)) /\ UNCHANGED <<stream, conns>>
    <3> HIDE DEF r
    <3> QED
      BY <1>2, <2>1, <2>2, <2>3, <2>4, BuildsAgain DEF TypeInv, FlagsType
  <2>5. CASE stream # 0 /\ Goes(t, Exchange(r, "call", stream)) /\ UNCHANGED <<stream, unbound, conns>>
    <3> HIDE DEF r
    <3>1. stream \in 0..MaxConns /\ stream \in Conns
      BY <2>5, ReconnectAssumption DEF TypeInv, FlagsType, ConnsType
    <3> DEFINE q == Exchange(r, "call", stream)
    <3>2. /\ q \in TaskType /\ q.at \in {"connecting", "asked"} /\ q.call = r.call
          /\ q.plain = r.plain /\ q.conn = stream
      BY <2>2, <3>1, Asking
    <3>3. Goes(t, q)
      BY <2>5
    <3> HIDE DEF q
    <3>4. TasksType' /\ OneMayReconnect'
      BY <1>0, <1>2, <2>1, <2>2, <2>3, <2>5, <3>1, <3>2, <3>3, GoesOn DEF TypeInv, Waiting
    <3> QED
      BY <1>2, <2>3, <2>5, <3>4 DEF TypeInv, FlagsType
  <2>6. CASE /\ stream # 0 /\ stream' = 0 /\ unbound' = TRUE /\ conns' = Closes(stream)
             /\ GoesAndAllFail(t, [r EXCEPT !.at = "closing", !.conn = 0, !.said = "nothing", !.then = "rebuild"])
    <3> DEFINE q == [r EXCEPT !.at = "closing", !.conn = 0, !.said = "nothing", !.then = "rebuild"]
    <3>1. /\ q \in TaskType /\ q.at = "closing" /\ q.call = task[t].call /\ q.plain = task[t].plain
          /\ q.then = "rebuild"
      BY <1>3, <2>2 DEF TaskType
    <3>2. ConnsType' /\ Conns' = Conns
      BY <2>6, ClosingOne DEF TypeInv, FlagsType
    <3>3. GoesAndAllFail(t, q)
      BY <2>6
    <3> HIDE DEF q, r
    <3>4. TasksType' /\ OneMayReconnect'
      BY <1>0, <2>1, <2>3, <3>1, <3>2, <3>3, GoesOn DEF TypeInv, Waiting
    <3> QED
      BY <2>3, <2>6, <3>2, <3>4 DEF TypeInv, FlagsType
  <2> QED
    BY <1>6, <2>4, <2>5, <2>6 DEF Locked
<1>7. ASSUME NEW t \in Tasks, Closed(t) PROVE TypeInv'
  <2>1. t \in Active
    BY <1>1, <1>7 DEF Closed
  <2>2. task[t].then \in {"rebuild", "retry", "raise"}
    BY <1>0, <1>7, <2>1 DEF Closed, TypeInv, TasksType, TaskType
  <2>3. TasksType' /\ OneMayReconnect' /\ retrying' \in BOOLEAN
    BY <1>2, <1>7, <2>1, <2>2, AfterIt DEF Closed
  <2> QED
    BY <1>2, <1>7, <2>3 DEF Closed, TypeInv, FlagsType
<1>8. ASSUME NEW t \in Tasks, Slept(t) PROVE TypeInv'
  <2>1. t \in Active
    BY <1>1, <1>8 DEF Slept
  <2>2. TasksType' /\ OneMayReconnect' /\ retrying' \in BOOLEAN
    BY <1>2, <1>8, <2>1, AfterIt DEF Slept
  <2> QED
    BY <1>2, <1>8, <2>2 DEF Slept, TypeInv, FlagsType
<1>9. ASSUME NEW t \in Tasks, Connects(t) PROVE TypeInv'
  <2> DEFINE n == Cardinality(Conns)
             r == [task[t] EXCEPT !.at = "asked", !.conn = n + 1]
  <2>1. t \in Active
    BY <1>1, <1>9 DEF Connects
  <2>2. n \in Nat /\ n + 1 \in 1..MaxConns /\ Conns = 1..n
    BY <1>9, ReconnectAssumption DEF Connects, TypeInv, ConnsType
  <2>3. [Fresh EXCEPT !.bare = startTLS /\ task[t].doing = "call"] \in ConnType
    BY DEF Fresh, ConnType, TypeInv, FlagsType
  <2>4. conns' \in [1..n + 1 -> ConnType]
    BY <1>9, <2>2, <2>3 DEF Connects, TypeInv, ConnsType
  <2>5. Conns' = 1..n + 1
    BY <2>4 DEF Conns
  <2>6. Cardinality(1..n + 1) = n + 1
    BY <2>2, FS_Interval
  <2>7. ConnsType'
    BY <2>2, <2>4, <2>5, <2>6, ReconnectAssumption DEF ConnsType
  <2>8. Conns \subseteq Conns' /\ stream' = n + 1 /\ stream' \in Conns'
    BY <1>9, <2>2, <2>5 DEF Connects
  <2>9. /\ r \in TaskType /\ r.at = "asked" /\ r.call = task[t].call /\ r.plain = task[t].plain
        /\ r.conn = n + 1
    <3>1. task[t] \in TaskType /\ n + 1 \in 0..MaxConns
      BY <1>0, <2>1, <2>2
    <3> HIDE DEF n
    <3> QED
      BY <3>1 DEF TaskType
  <2>10. Goes(t, r) /\ retrying' = retrying
    BY <1>9, <2>8 DEF Connects
  <2> HIDE DEF n, r
  <2>11. TasksType' /\ OneMayReconnect'
    BY <1>0, <2>1, <2>8, <2>9, <2>10, GoesOn DEF TypeInv
  <2> QED
    BY <1>9, <2>7, <2>8, <2>11 DEF Connects, TypeInv, FlagsType
<1>10. CASE Lost
  <2>1. ConnsType' /\ Conns' = Conns
    BY <1>2, <1>10 DEF Lost
  <2>2. FlagsType'
    BY <1>10, <2>1 DEF Lost, TypeInv, FlagsType
  <2>3. PICK t \in Active : task[t].at \in Waiting
    BY <1>10 DEF Lost, Active, Waiting
  <2> DEFINE r == [task[t] EXCEPT !.at = "down", !.conn = 0, !.said = "nothing"]
  <2>4. /\ r \in TaskType /\ r.at = "down" /\ r.call = task[t].call /\ r.plain = task[t].plain
    <3>1. task[t] \in TaskType /\ r \in TaskType
      BY <1>0, <2>3, Failing
    <3> QED
      BY <3>1 DEF TaskType
  <2>5. GoesAndAllFail(t, r) /\ retrying' = retrying
    BY <1>10, <2>3 DEF Lost, GoesAndAllFail
  <2> HIDE DEF r
  <2>6. TasksType' /\ OneMayReconnect'
    BY <1>0, <2>1, <2>3, <2>4, <2>5, GoesOn DEF TypeInv, Waiting
  <2> QED
    BY <2>1, <2>2, <2>6 DEF TypeInv
<1>11. ASSUME NEW t \in Tasks,
              CannotConnect(t) \/ Down(t) \/ TimesOut(t) \/ Refused(t)
       PROVE  TypeInv'
  <2>1. t \in Active
    BY <1>1, <1>11 DEF CannotConnect, Down, TimesOut, Refused, Waiting
  <2> QED
    BY <1>11, <2>1, FailsIt DEF CannotConnect, Down, TimesOut, Refused
<1>12. ASSUME NEW t \in Tasks, Succeeds(t) PROVE TypeInv'
  <2>1. t \in Active /\ task[t].conn = stream /\ stream \in Conns
    BY <1>1, <1>12 DEF Succeeds, TypeInv, TasksType, Waiting
  <2>2. ConnsType' /\ Conns' = Conns
    <3>1. [conns EXCEPT ![stream].tls = TRUE] \in [Conns -> ConnType]
      BY <2>1 DEF TypeInv, ConnsType, ConnType
    <3>2. conns' \in [Conns -> ConnType]
      BY <1>12, <3>1 DEF Succeeds, TypeInv, ConnsType
    <3>3. Conns' = Conns
      BY <3>2 DEF Conns
    <3> QED
      BY <3>2, <3>3 DEF TypeInv, ConnsType
  <2>3. CASE \E what \in {"bind", "call"} :
              Goes(t, Exchange(task[t], what, stream)) /\ UNCHANGED <<lastBind, startTLS, retrying>>
    <3>1. stream \in 0..MaxConns /\ stream # 0
      BY <2>1, ReconnectAssumption DEF TypeInv, ConnsType
    <3>2. TasksType' /\ OneMayReconnect'
      BY <1>0, <2>1, <2>2, <2>3, <3>1, Asking, GoesOn DEF TypeInv
    <3> QED
      BY <1>12, <2>2, <2>3, <3>2 DEF Succeeds, TypeInv, FlagsType
  <2>4. CASE Ends(t, "returned") /\ Remembers(task[t].call)
    <3>1. TasksType' /\ OneMayReconnect'
      BY <2>1, <2>2, <2>4, EndsIt DEF TypeInv, Outcomes
    <3>2. FlagsType'
      BY <1>0, <1>12, <2>1, <2>2, <2>4 DEF Succeeds, Ends, Remembers, TypeInv, FlagsType, TaskType
    <3> QED
      BY <2>2, <3>1, <3>2 DEF TypeInv
  <2> QED
    BY <1>12, <2>3, <2>4 DEF Succeeds
<1>13. ASSUME NEW t \in Tasks, HandshakeFails(t) PROVE TypeInv'
  <2>1. t \in Active /\ task[t].conn = stream /\ stream \in Conns
    BY <1>1, <1>13 DEF HandshakeFails, TypeInv, TasksType, Waiting
  <2>2. ConnsType' /\ Conns' = Conns
    <3>1. conns[stream] \in ConnType /\ (conns[stream].left \/ task[t].doing = "tls") \in BOOLEAN
      BY <2>1 DEF TypeInv, ConnsType, ConnType
    <3>2. [conns[stream] EXCEPT !.left = @ \/ task[t].doing = "tls"] \in ConnType
      BY <3>1 DEF ConnType
    <3>3. conns' \in [Conns -> ConnType]
      BY <1>13, <2>1, <3>2 DEF HandshakeFails, TypeInv, ConnsType
    <3>4. Conns' = Conns
      BY <3>3 DEF Conns
    <3> QED
      BY <3>3, <3>4 DEF TypeInv, ConnsType
  <2>3. TasksType' /\ OneMayReconnect'
    BY <1>13, <2>1, <2>2, EndsIt DEF HandshakeFails, TypeInv, Outcomes
  <2> QED
    BY <1>0, <1>13, <2>1, <2>2, <2>3 DEF HandshakeFails, Ends, TypeInv, FlagsType, TaskType
<1>14. ASSUME NEW t \in Tasks, Cancelled(t) PROVE TypeInv'
  <2>1. t \in Active /\ ConnsType' /\ Conns' = Conns
    BY <1>1, <1>2, <1>14 DEF Cancelled
  <2>2. TasksType' /\ OneMayReconnect'
    BY <1>14, <2>1, EndsIt DEF Cancelled, TypeInv, Outcomes
  <2> QED
    BY <1>0, <1>14, <2>1, <2>2 DEF Cancelled, Ends, TypeInv, FlagsType, TaskType
<1>15. ASSUME NEW t \in Tasks, NEW answer \in {"ok", "refused", "unavailable"}, Serves(t, answer)
       PROVE  TypeInv'
  <2> DEFINE r == [task[t] EXCEPT !.at = "served", !.said = answer,
                                  !.times = IF answer = "ok" /\ task[t].doing = "call" THEN @ + 1 ELSE @]
             g == task[t].conn
  <2>1. t \in Active /\ g \in Conns /\ task[t].at = "asked"
    BY <1>1, <1>15 DEF Serves, TypeInv, TasksType, Waiting
  <2>2. ConnsType' /\ Conns' = Conns
    <3> HIDE DEF g
    <3>1. conns[g] \in ConnType /\ lastBind \in BOOLEAN
      BY <2>1 DEF TypeInv, ConnsType, FlagsType
    <3>2. ASSUME NEW b \in BOOLEAN, NEW f \in BOOLEAN
          PROVE  [conns EXCEPT ![g].bound = b, ![g].fell = f] \in [Conns -> ConnType]
      BY <2>1 DEF TypeInv, ConnsType, ConnType
    <3>3. /\ (answer = "ok" /\ (task[t].doing = "call" \/ lastBind)) \in BOOLEAN
          /\ (conns[g].fell \/ (answer # "ok" /\ task[t].doing = "call")) \in BOOLEAN
      BY <3>1 DEF ConnType
    <3>4. conns' \in [Conns -> ConnType]
      BY <1>15, <2>1, <3>2, <3>3 DEF Serves, TypeInv, ConnsType, g
    <3>5. Conns' = Conns
      BY <3>4 DEF Conns
    <3> QED
      BY <3>4, <3>5 DEF TypeInv, ConnsType
  <2>3. /\ r \in TaskType /\ r.at = "served" /\ r.call = task[t].call /\ r.plain = task[t].plain
        /\ r.conn = g
    <3>1. PICK times \in Nat : times = IF answer = "ok" /\ task[t].doing = "call"
                                       THEN task[t].times + 1 ELSE task[t].times
      BY <1>0, <2>1 DEF TaskType
    <3>2. PICK was \in TaskType : was = task[t]
      BY <1>0, <2>1
    <3>3. r = [was EXCEPT !.at = "served", !.said = answer, !.times = times]
      BY <3>1, <3>2 DEF TaskType
    <3> HIDE DEF r
    <3>4. r \in TaskType /\ r.at = "served" /\ r.call = was.call /\ r.plain = was.plain /\ r.conn = was.conn
      BY <3>3 DEF TaskType
    <3> QED
      BY <3>2, <3>4
  <2>4. Goes(t, r) /\ retrying' = retrying
    BY <1>15 DEF Serves, object
  <2> HIDE DEF g, r
  <2>5. TasksType' /\ OneMayReconnect'
    BY <1>0, <2>1, <2>2, <2>3, <2>4, GoesOn DEF TypeInv
  <2> QED
    BY <1>15, <2>2, <2>5 DEF Serves, object, TypeInv, FlagsType
<1>16. ASSUME NEW g \in Conns, Goes_away(g) PROVE TypeInv'
  <2>1. ConnsType' /\ Conns' = Conns
    BY <1>16, ClosingOne DEF Goes_away, TypeInv
  <2> QED
    BY <1>16, <2>1 DEF Goes_away, object, TypeInv, FlagsType, TasksType, OneMayReconnect, Active
<1>17. CASE UNCHANGED vars
  BY <1>17 DEF vars, object, TypeInv, ConnsType, FlagsType, TasksType, OneMayReconnect, Active, Conns
<1> QED
  BY <1>4, <1>5, <1>6, <1>7, <1>8, <1>9, <1>10, <1>11, <1>12, <1>13, <1>14, <1>15, <1>16, <1>17
  DEF Next, Step, Serving

-----------------------------------------------------------------------------
(* How often.                                                              *)

LEMMA CountedGoes ==
  ASSUME TasksType, TimesInv, NEW t \in Tasks, NEW r, Counted(r),
         Goes(t, r) \/ GoesAndAllFail(t, r)
  PROVE  TimesInv'
<1> SUFFICES ASSUME NEW u \in Tasks PROVE Counted(task'[u])
  BY DEF TimesInv
<1>1. task[u] \in TaskType /\ Counted(task[u])
  BY DEF TasksType, TimesInv
<1>2. CASE u = t
  BY <1>2 DEF Goes, GoesAndAllFail, TasksType
<1>3. CASE u # t /\ task'[u] = task[u]
  BY <1>1, <1>3
<1>4. CASE /\ u # t /\ task[u].at \in Waiting
           /\ task'[u] = [task[u] EXCEPT !.at = "down", !.conn = 0, !.said = "nothing"]
  BY <1>1, <1>4 DEF Counted, Asked, Done, TaskType, Waiting
<1> QED
  BY <1>2, <1>3, <1>4 DEF Goes, GoesAndAllFail, TasksType

LEMMA CountedEnds ==
  ASSUME TypeInv, TimesInv, NEW t \in Active, NEW outcome \in Outcomes, Ends(t, outcome),
         outcome = "returned" => task[t].times >= 1
  PROVE  TimesInv'
<1>1. t \in Tasks /\ task[t] \in TaskType /\ Counted(task[t]) /\ task[t].at # "idle"
  BY DEF TypeInv, TasksType, TimesInv, Active
<1> DEFINE n == IF outcome = "returned" THEN task[t].times ELSE 0
           r == [Idle(outcome) EXCEPT !.times = n]
<1>2. n \in Nat /\ n <= 2 /\ (outcome = "returned" => n >= 1)
  BY <1>1 DEF Counted, Asked, TaskType
<1>3. Counted(r)
  <2> HIDE DEF n
  <2> QED
    BY <1>2 DEF Counted, Asked, Idle, Outcomes
<1>4. Goes(t, r)
  BY DEF Ends
<1> HIDE DEF r
<1> QED
  BY <1>1, <1>3, <1>4, CountedGoes DEF TypeInv

\* What is asked has not been done for this.
LEMMA CountedExchange ==
  ASSUME NEW r \in TaskType, r.times <= (IF r.again THEN 1 ELSE 0), r.call \notin Outcomes,
         NEW what \in {"call", "tls", "bind"}, NEW on \in 0..MaxConns
  PROVE  Counted(Exchange(r, what, on))
<1> DEFINE q == Exchange(r, what, on)
<1>1. /\ q.at \in {"connecting", "asked"} /\ q.times = r.times /\ q.again = r.again
      /\ q.call # "returned"
  BY Asking DEF Outcomes
<1>2. r.times \in Nat
  BY DEF TaskType
<1> HIDE DEF q
<1>3. Counted(q)
  BY <1>1, <1>2 DEF Counted, Asked, Done
<1> QED
  BY <1>3 DEF q

\* What is not the operation itself is not counted.
LEMMA CountedAsking ==
  ASSUME NEW r \in TaskType, Counted(r), r.at # "idle", r.call \notin Outcomes,
         NEW what \in {"call", "tls", "bind"}, NEW on \in 0..MaxConns,
         r.doing # "call" \/ r.at \notin {"served", "down"}
  PROVE  Counted(Exchange(r, what, on))
<1>1. r.times <= (IF r.again THEN 1 ELSE 0)
  BY DEF Counted, Asked, Done, TaskType
<1> QED
  BY <1>1, CountedExchange

LEMMA CountedAfter ==
  ASSUME TypeInv, TimesInv, NEW t \in Active, NEW then \in {"rebuild", "retry", "raise"}, After(t, then),
         task[t].doing # "call" \/ task[t].at \notin {"served", "down"}
  PROVE  TimesInv'
<1>1. /\ t \in Tasks /\ task[t] \in TaskType /\ Counted(task[t]) /\ task[t].at # "idle"
      /\ task[t].call \notin Outcomes
  BY DEF TypeInv, TasksType, TimesInv, Active
<1>2. CASE then = "rebuild"
  <2>1. stream \in 0..MaxConns
    BY ReconnectAssumption DEF TypeInv, FlagsType, ConnsType
  <2>2. Counted(Rebuild(task[t], stream)) /\ Goes(t, Rebuild(task[t], stream))
    BY <1>1, <1>2, <2>1, CountedAsking DEF After, Rebuild
  <2> QED
    BY <1>1, <2>2, CountedGoes DEF TypeInv
<1>3. CASE then = "retry"
  <2> DEFINE r == [task[t] EXCEPT !.at = "sleeping", !.conn = 0, !.said = "nothing",
                                  !.doing = "call", !.then = "end", !.counter = CountedDown(@)]
  <2>1. Counted(r)
    BY <1>1 DEF Counted, Asked, Done, TaskType
  <2>2. Goes(t, r)
    BY <1>3 DEF After
  <2> HIDE DEF r
  <2> QED
    BY <1>1, <2>1, <2>2, CountedGoes DEF TypeInv
<1>4. CASE then = "raise"
  BY <1>4, CountedEnds DEF After, Outcomes
<1> QED
  BY <1>2, <1>3, <1>4

LEMMA CountedFails ==
  ASSUME TypeInv, TimesInv, NEW t \in Active, NEW why, Fails(t, why)
  PROVE  TimesInv'
<1>1. /\ t \in Tasks /\ task[t] \in TaskType /\ Counted(task[t]) /\ task[t].at # "idle"
      /\ task[t].call \notin Outcomes
  BY DEF TypeInv, TasksType, TimesInv, Active
<1>2. CASE FailsCall(t, why)
  <2>1. CASE Ends(t, "none")
    BY <2>1, CountedEnds DEF Outcomes
  <2>2. CASE ~Ends(t, "none")
    <3> DEFINE r == [Idle(task[t].call) EXCEPT !.at = "lock", !.again = TRUE, !.times = task[t].times]
    <3>1. Goes(t, r) /\ task[t].again = FALSE
      BY <1>1, <1>2, <2>2 DEF FailsCall, TaskType
    <3>2. task[t].times \in Nat /\ task[t].times <= 1
      BY <1>1, <3>1 DEF Counted, Asked, TaskType
    <3>3. Counted(r)
      BY <1>1, <3>2 DEF Counted, Asked, Done, Idle, Outcomes
    <3> HIDE DEF r
    <3> QED
      BY <1>1, <3>1, <3>3, CountedGoes DEF TypeInv
  <2> QED
    BY <2>1, <2>2
<1>3. CASE FailsRebuild(t, why)
  <2>1. PICK then \in {"retry", "raise"} :
          \/ After(t, then)
          \/ GoesAndAllFail(t, [task[t] EXCEPT !.at = "closing", !.conn = 0, !.said = "nothing", !.then = then])
    BY <1>3 DEF FailsRebuild
  <2>2. task[t].doing # "call"
    BY <1>3 DEF FailsRebuild
  <2> DEFINE r == [task[t] EXCEPT !.at = "closing", !.conn = 0, !.said = "nothing", !.then = then]
  <2>3. Counted(r)
    BY <1>1, <2>2 DEF Counted, Asked, Done, TaskType
  <2>4. CASE GoesAndAllFail(t, r)
    <3> HIDE DEF r
    <3> QED
      BY <1>1, <2>3, <2>4, CountedGoes DEF TypeInv
  <2>5. CASE After(t, then)
    BY <2>2, <2>5, CountedAfter
  <2> QED
    BY <2>1, <2>4, <2>5
<1> QED
  BY <1>2, <1>3 DEF Fails

LEMMA TimesStep == TypeInv /\ TimesInv /\ [Next]_vars => TimesInv'
<1> SUFFICES ASSUME TypeInv, TimesInv, [Next]_vars PROVE TimesInv'
  OBVIOUS
<1>0. ASSUME NEW t \in Tasks, task[t].at # "idle"
      PROVE  t \in Active /\ task[t] \in TaskType /\ Counted(task[t]) /\ task[t].call \notin Outcomes
  BY <1>0 DEF TypeInv, TasksType, TimesInv, Active
<1>1. stream \in 0..MaxConns /\ 0 \in 0..MaxConns
  BY ReconnectAssumption DEF TypeInv, FlagsType, ConnsType
<1>2. ASSUME NEW t \in Tasks, NEW call \in Calls, Begin(t, call) PROVE TimesInv'
  <2> DEFINE r == [Idle("none") EXCEPT !.call = call, !.plain = retrying]
             q == [r EXCEPT !.at = "lock"]
  <2>1. Idle("none") \in TaskType /\ retrying \in BOOLEAN
    BY Idling DEF Outcomes, TypeInv, FlagsType
  <2>2. r \in TaskType
    BY <2>1 DEF TaskType, Calls, Outcomes
  <2>3. r.times = 0 /\ r.call \in Calls /\ r.at = "idle" /\ r.doing = "call" /\ r.again = FALSE
    BY DEF Idle, Calls
  <2>4. Counted(q)
    BY DEF Counted, Asked, Done, Idle, Calls
  <2>5. Counted(Exchange(r, "call", stream))
    <3>1. r.call \notin Outcomes /\ r.times <= (IF r.again THEN 1 ELSE 0)
      BY DEF Calls, Outcomes, Idle
    <3> HIDE DEF r
    <3> QED
      BY <1>1, <2>2, <3>1, CountedExchange
  <2>6. Goes(t, q) \/ Goes(t, Exchange(r, "call", stream))
    BY <1>2 DEF Begin
  <2> HIDE DEF q, r
  <2> QED
    BY <1>2, <2>4, <2>5, <2>6, CountedGoes DEF TypeInv
<1>3. ASSUME NEW t \in Tasks, BeginUnbound(t) PROVE TimesInv'
  <2>1. Counted(Idle("none"))
    BY DEF Counted, Idle
  <2> QED
    BY <1>3, <2>1, CountedGoes DEF BeginUnbound, TypeInv
<1>4. ASSUME NEW t \in Tasks, Locked(t) PROVE TimesInv'
  <2> DEFINE r == [task[t] EXCEPT !.counter = RetryMax]
             q == [r EXCEPT !.at = "closing", !.conn = 0, !.said = "nothing", !.then = "rebuild"]
  <2>1. task[t] \in TaskType /\ Counted(task[t]) /\ task[t].call \notin Outcomes /\ task[t].at = "lock"
    BY <1>0, <1>4 DEF Locked
  <2>2. r \in TaskType /\ Counted(r) /\ r.call \notin Outcomes /\ r.at = "lock"
    BY <2>1, ReconnectAssumption DEF TaskType, Counted, Asked, Done
  <2>3. \A what \in {"call", "tls", "bind"}, on \in 0..MaxConns : Counted(Exchange(r, what, on))
    <3> HIDE DEF r
    <3> QED
      BY <2>2, CountedAsking
  <2>4. Counted(q)
    <3> HIDE DEF r
    <3> QED
      BY <2>2 DEF Counted, Asked, Done, TaskType
  <2>5. \/ Goes(t, Rebuild(r, 0)) \/ Goes(t, Exchange(r, "call", stream)) \/ GoesAndAllFail(t, q)
    BY <1>4 DEF Locked
  <2>6. Counted(Rebuild(r, 0)) /\ Counted(Exchange(r, "call", stream))
    BY <1>1, <2>3 DEF Rebuild
  <2> HIDE DEF q, r
  <2> QED
    BY <1>4, <2>4, <2>5, <2>6, CountedGoes DEF TypeInv
<1>5. ASSUME NEW t \in Tasks, Closed(t) \/ Slept(t) PROVE TimesInv'
  <2>1. t \in Active /\ task[t] \in TaskType /\ task[t].at \in {"closing", "sleeping"}
    BY <1>0, <1>5 DEF Closed, Slept
  <2>2. \E then \in {"rebuild", "retry", "raise"} : After(t, then)
    BY <1>5, <2>1 DEF Closed, Slept, TypeInv, TasksType, TaskType
  <2> QED
    BY <2>1, <2>2, CountedAfter
<1>6. ASSUME NEW t \in Tasks, Connects(t) PROVE TimesInv'
  <2> DEFINE r == [task[t] EXCEPT !.at = "asked", !.conn = stream']
  <2>1. Goes(t, r) /\ task[t].at = "connecting"
    BY <1>6 DEF Connects
  <2>2. Counted(r)
    BY <1>0, <1>6, <2>1 DEF Counted, Asked, Done, TaskType
  <2> HIDE DEF r
  <2> QED
    BY <2>1, <2>2, CountedGoes DEF TypeInv
<1>7. CASE Lost
  <2> SUFFICES ASSUME NEW u \in Tasks PROVE Counted(task'[u])
    BY DEF TimesInv
  <2>1. task[u] \in TaskType /\ Counted(task[u])
    BY DEF TypeInv, TasksType, TimesInv
  <2>2. CASE task'[u] = task[u]
    BY <2>1, <2>2
  <2>3. CASE /\ task[u].at \in Waiting
             /\ task'[u] = [task[u] EXCEPT !.at = "down", !.conn = 0, !.said = "nothing"]
    BY <2>1, <2>3 DEF Counted, Asked, Done, TaskType, Waiting
  <2> QED
    BY <1>7, <2>2, <2>3 DEF Lost
<1>8. ASSUME NEW t \in Tasks, CannotConnect(t) \/ Down(t) \/ TimesOut(t) \/ Refused(t)
      PROVE  TimesInv'
  BY <1>0, <1>8, CountedFails DEF CannotConnect, Down, TimesOut, Refused, Waiting
<1>9. ASSUME NEW t \in Tasks, Succeeds(t) PROVE TimesInv'
  <2>1. /\ t \in Active /\ task[t] \in TaskType /\ Counted(task[t]) /\ task[t].call \notin Outcomes
        /\ task[t].at = "served" /\ task[t].said = "ok"
    BY <1>0, <1>9 DEF Succeeds
  <2>2. CASE /\ task[t].doing # "call"
             /\ \E what \in {"bind", "call"} : Goes(t, Exchange(task[t], what, stream))
    <3>1. PICK what \in {"bind", "call"} : Goes(t, Exchange(task[t], what, stream))
      BY <2>2
    <3>2. Counted(Exchange(task[t], what, stream))
      BY <1>1, <2>1, <2>2, CountedAsking
    <3> QED
      BY <3>1, <3>2, <1>9, CountedGoes DEF TypeInv
  <2>3. CASE task[t].doing = "call" /\ Ends(t, "returned")
    BY <2>1, <2>3, CountedEnds DEF Counted, Outcomes
  <2> QED
    BY <1>9, <2>2, <2>3 DEF Succeeds
<1>10. ASSUME NEW t \in Tasks, HandshakeFails(t) \/ Cancelled(t) PROVE TimesInv'
  BY <1>0, <1>10, CountedEnds DEF HandshakeFails, Cancelled, Outcomes
<1>11. ASSUME NEW t \in Tasks, NEW answer \in {"ok", "refused", "unavailable"}, Serves(t, answer)
       PROVE  TimesInv'
  <2> DEFINE n == IF answer = "ok" /\ task[t].doing = "call" THEN task[t].times + 1 ELSE task[t].times
             r == [task[t] EXCEPT !.at = "served", !.said = answer, !.times = n]
  <2>1. /\ task[t] \in TaskType /\ Counted(task[t]) /\ task[t].call \notin Outcomes
        /\ task[t].at = "asked" /\ task[t].times \in Nat
    BY <1>0, <1>11 DEF Serves, TaskType
  <2>2. Goes(t, r)
    BY <1>11 DEF Serves
  <2>3. /\ n \in Nat /\ (answer = "ok" /\ task[t].doing = "call" => n >= 1)
        /\ n <= (IF task[t].again THEN 1 ELSE 0) + (IF task[t].doing = "call" THEN 1 ELSE 0)
    BY <2>1 DEF Counted, Asked, Done
  <2>4. Counted(r)
    <3> HIDE DEF n
    <3> QED
      BY <2>1, <2>3 DEF Counted, Asked, Done, TaskType, Outcomes
  <2> HIDE DEF r
  <2> QED
    BY <1>11, <2>2, <2>4, CountedGoes DEF TypeInv
<1>12. CASE UNCHANGED task
  BY <1>12 DEF TimesInv
<1> QED
  BY <1>2, <1>3, <1>4, <1>5, <1>6, <1>7, <1>8, <1>9, <1>10, <1>11, <1>12
  DEF Next, Step, Serving, Goes_away, vars

-----------------------------------------------------------------------------
(* As it was.                                                              *)

\* The one task that is under way goes on.
LEMMA AloneGoes ==
  ASSUME TasksType, NEW t \in Tasks, Active \subseteq {t},
         NEW q \in TaskType, Goes(t, q) \/ GoesAndAllFail(t, q),
         q.at # "idle", ~q.plain, OnStream(q)', KeptInUse(q)'
  PROVE  AloneInv'
<1>1. \A u \in Tasks \ {t} : task[u].at = "idle"
  BY DEF Active
<1>2. task'[t] = q /\ \A u \in Tasks \ {t} : task'[u] = task[u]
  BY <1>1 DEF Goes, GoesAndAllFail, TasksType, Waiting
<1>3. Active' = {t}
  BY <1>1, <1>2 DEF Active
<1> QED
  BY <1>2, <1>3 DEF AloneInv, Alone, OnStream, KeptInUse, Kept

\* It ends.
LEMMA AloneEnds ==
  ASSUME TasksType, NEW t \in Tasks, Active \subseteq {t},
         NEW q, Goes(t, q), q.at = "idle", KeptInUse(Idle("none"))'
  PROVE  AloneInv'
<1>1. Active' = {}
  BY DEF Goes, TasksType, Active
<1> QED
  BY <1>1 DEF AloneInv, Alone

LEMMA EndedIsIdle ==
  ASSUME NEW t, NEW outcome, Ends(t, outcome)
  PROVE  \E q : Goes(t, q) /\ q.at = "idle"
<1> DEFINE q == [Idle(outcome) EXCEPT !.times = IF outcome = "returned" THEN task[t].times ELSE 0]
<1>1. Goes(t, q) /\ q.at = "idle"
  BY DEF Ends, Idle
<1> HIDE DEF q
<1> QED
  BY <1>1

LEMMA AloneAsks ==
  ASSUME NEW r \in TaskType, ~r.plain, NEW what \in {"call", "tls", "bind"}, NEW on \in 0..MaxConns
  PROVE  \E q \in TaskType :
           /\ q = Exchange(r, what, on) /\ ~q.plain /\ q.conn = on /\ q.doing = what
           /\ q.at = IF on = 0 THEN "connecting" ELSE "asked"
<1> DEFINE q == Exchange(r, what, on)
<1>1. /\ q \in TaskType /\ q.plain = r.plain /\ q.conn = on /\ q.doing = what
      /\ q.at = IF on = 0 THEN "connecting" ELSE "asked"
  BY Asking
<1>2. q = Exchange(r, what, on)
  OBVIOUS
<1> HIDE DEF q
<1>3. ~q.plain
  BY <1>1
<1> QED
  BY <1>1, <1>2, <1>3

\* There is no connection in the meantime.
LEMMA AloneAfter ==
  ASSUME TypeInv, AloneInv, NEW t \in Active, NEW then \in {"rebuild", "retry", "raise"}, After(t, then),
         stream = 0, UNCHANGED <<stream, conns, lastBind, startTLS>>
  PROVE  AloneInv'
<1>1. /\ t \in Tasks /\ task[t] \in TaskType /\ Active \subseteq {t} /\ ~task[t].plain /\ TasksType
  BY DEF AloneInv, Alone, Active, TypeInv, TasksType
<1>2. CASE then = "rebuild"
  <2>1. 0 \in 0..MaxConns
    BY ReconnectAssumption
  <2>2. PICK q \in TaskType : /\ Goes(t, q) /\ q.at = "connecting" /\ ~q.plain
                              /\ q.doing = IF startTLS THEN "tls" ELSE "bind"
    <3>1. Goes(t, Exchange(task[t], IF startTLS THEN "tls" ELSE "bind", 0))
      BY <1>2 DEF After, Rebuild
    <3> QED
      BY <1>1, <2>1, <3>1, AloneAsks
  <2>3. OnStream(q)' /\ KeptInUse(q)'
    BY <2>2 DEF OnStream, KeptInUse, Waiting
  <2> QED
    BY <1>1, <2>2, <2>3, AloneGoes
<1>3. CASE then = "retry"
  <2>1. PICK q \in TaskType : Goes(t, q) /\ q.at = "sleeping" /\ ~q.plain
    <3> DEFINE q == [task[t] EXCEPT !.at = "sleeping", !.conn = 0, !.said = "nothing",
                                    !.doing = "call", !.then = "end", !.counter = CountedDown(@)]
    <3>1. CountedDown(task[t].counter) \in Nat /\ 0 \in 0..MaxConns
      BY <1>1, ReconnectAssumption DEF CountedDown, TaskType
    <3>2. q \in TaskType /\ q.at = "sleeping" /\ ~q.plain
      BY <1>1, <3>1 DEF TaskType
    <3>3. Goes(t, q)
      BY <1>3 DEF After
    <3> HIDE DEF q
    <3> QED
      BY <3>2, <3>3
  <2>2. OnStream(q)' /\ KeptInUse(q)'
    BY <2>1 DEF OnStream, KeptInUse, Waiting
  <2> QED
    BY <1>1, <2>1, <2>2, AloneGoes
<1>4. CASE then = "raise"
  <2>1. PICK q : Goes(t, q) /\ q.at = "idle"
    BY <1>4, EndedIsIdle DEF After
  <2>2. KeptInUse(Idle("none"))'
    BY DEF KeptInUse
  <2> QED
    BY <1>1, <2>1, <2>2, AloneEnds
<1> QED
  BY <1>2, <1>3, <1>4

LEMMA AloneFails ==
  ASSUME TypeInv, AloneInv, NEW t \in Active, NEW why, Fails(t, why)
  PROVE  AloneInv'
<1>1. /\ t \in Tasks /\ task[t] \in TaskType /\ Active \subseteq {t} /\ ~task[t].plain /\ TasksType
      /\ OnStream(task[t]) /\ KeptInUse(task[t]) /\ task[t].call \notin Outcomes
  BY DEF AloneInv, Alone, Active, TypeInv, TasksType
<1>2. UNCHANGED <<lastBind, startTLS>>
  BY DEF Fails
<1>3. CASE FailsCall(t, why)
  <2>1. task[t].doing = "call" /\ UNCHANGED <<stream, conns>>
    BY <1>3 DEF FailsCall
  <2>2. CASE Ends(t, "none")
    <3>1. PICK q : Goes(t, q) /\ q.at = "idle"
      BY <2>2, EndedIsIdle
    <3>2. KeptInUse(Idle("none"))'
      BY <1>1, <1>2, <2>1 DEF KeptInUse, Kept, Idle
    <3> QED
      BY <1>1, <3>1, <3>2, AloneEnds
  <2>3. CASE ~Ends(t, "none")
    <3>1. PICK q \in TaskType : Goes(t, q) /\ q.at = "lock" /\ q.again /\ ~q.plain /\ q.doing = "call"
      <4> DEFINE q == [Idle(task[t].call) EXCEPT !.at = "lock", !.again = TRUE, !.times = task[t].times]
      <4>1. Idle(task[t].call) \in TaskType /\ task[t].times \in Nat
        BY <1>1, Idling DEF TaskType
      <4>2. q \in TaskType /\ q.at = "lock" /\ q.again /\ ~q.plain /\ q.doing = "call"
        BY <4>1 DEF TaskType, Idle
      <4>3. Goes(t, q)
        BY <1>3, <2>3 DEF FailsCall
      <4> HIDE DEF q
      <4> QED
        BY <4>2, <4>3
    <3>2. OnStream(q)' /\ KeptInUse(q)'
      BY <1>1, <1>2, <2>1, <3>1 DEF OnStream, KeptInUse, Kept, Waiting
    <3> QED
      BY <1>1, <3>1, <3>2, AloneGoes
  <2> QED
    BY <2>2, <2>3
<1>4. CASE FailsRebuild(t, why)
  <2>1. PICK then \in {"retry", "raise"} :
          \/ stream = 0 /\ After(t, then) /\ UNCHANGED <<stream, unbound, conns>>
          \/ /\ stream' = 0
             /\ GoesAndAllFail(t, [task[t] EXCEPT !.at = "closing", !.conn = 0, !.said = "nothing", !.then = then])
    BY <1>4 DEF FailsRebuild
  <2>2. CASE stream = 0 /\ After(t, then) /\ UNCHANGED <<stream, unbound, conns>>
    BY <1>2, <2>2, AloneAfter
  <2>3. CASE /\ stream' = 0
             /\ GoesAndAllFail(t, [task[t] EXCEPT !.at = "closing", !.conn = 0, !.said = "nothing", !.then = then])
    <3>1. PICK q \in TaskType : GoesAndAllFail(t, q) /\ q.at = "closing" /\ ~q.plain
      <4> DEFINE q == [task[t] EXCEPT !.at = "closing", !.conn = 0, !.said = "nothing", !.then = then]
      <4>1. 0 \in 0..MaxConns
        BY ReconnectAssumption
      <4>2. q \in TaskType /\ q.at = "closing" /\ ~q.plain
        BY <1>1, <4>1 DEF TaskType
      <4>3. GoesAndAllFail(t, q)
        BY <2>3
      <4> HIDE DEF q
      <4> QED
        BY <4>2, <4>3
    <3>2. OnStream(q)' /\ KeptInUse(q)'
      BY <2>3, <3>1 DEF OnStream, KeptInUse, Waiting
    <3> QED
      BY <1>1, <3>1, <3>2, AloneGoes
  <2> QED
    BY <2>1, <2>2, <2>3
<1> QED
  BY <1>3, <1>4 DEF Fails

LEMMA AloneStep ==
  ASSUME ~Interrupts, TypeInv, TypeInv', ~crossed => AloneInv, [Next]_vars, ~crossed'
  PROVE  AloneInv'
<1>1. AloneInv /\ ~crossed /\ TasksType
  <2>1. crossed \in BOOLEAN /\ TasksType
    BY DEF TypeInv, FlagsType
  <2>2. ~crossed
    <3> USE DEF Fails
    <3>1. ASSUME NEW t \in Tasks, Step(t) PROVE UNCHANGED crossed
      BY <3>1 DEF Step, Locked, Closed, Slept, Connects, CannotConnect, Down, Refused, Succeeds,
                  HandshakeFails
    <3>2. ASSUME NEW t \in Tasks, TimesOut(t) \/ Cancelled(t) \/ Serving(t) PROVE UNCHANGED crossed
      BY <3>2 DEF TimesOut, Cancelled, Serving, Serves
    <3>3. ASSUME NEW t \in Tasks, BeginUnbound(t) \/ \E call \in Calls : Begin(t, call)
          PROVE  crossed' = (crossed \/ retrying)
      BY <3>3 DEF BeginUnbound, Begin
    <3>4. ASSUME Lost \/ \E g \in Conns : Goes_away(g) PROVE UNCHANGED crossed
      BY <3>4 DEF Lost, Goes_away
    <3> QED
      BY <2>1, <3>1, <3>2, <3>3, <3>4 DEF Next, vars
  <2> QED
    BY <2>1, <2>2
<1>2. ASSUME NEW t \in Tasks, task[t].at # "idle"
      PROVE  /\ t \in Active /\ task[t] \in TaskType /\ Active \subseteq {t} /\ ~task[t].plain
             /\ OnStream(task[t]) /\ KeptInUse(task[t]) /\ task[t].call \notin Outcomes
  BY <1>1, <1>2 DEF AloneInv, Alone, Active, TasksType
<1>3. Active # {} => retrying
  BY <1>1 DEF AloneInv, Alone, TypeInv, OneMayReconnect
<1>4. stream \in 0..MaxConns /\ 0 \in 0..MaxConns /\ stream \in Conns \cup {0}
      /\ Conns \subseteq 1..MaxConns
  BY ReconnectAssumption DEF TypeInv, FlagsType, ConnsType
<1>5. ASSUME NEW t \in Tasks, NEW call \in Calls, Begin(t, call) PROVE AloneInv'
  <2>1. Active = {} /\ ~retrying
    BY <1>3, <1>5 DEF Begin
  <2>2. /\ UNCHANGED <<stream, conns, lastBind, startTLS>>
        /\ KeptInUse(Idle("none"))
    BY <1>1, <1>5, <2>1 DEF Begin, AloneInv
  <2> DEFINE r == [Idle("none") EXCEPT !.call = call, !.plain = retrying]
  <2>3. Idle("none") \in TaskType /\ retrying \in BOOLEAN
    BY Idling DEF Outcomes, TypeInv, FlagsType
  <2>4. r \in TaskType /\ ~r.plain /\ r.doing = "call"
    BY <2>1, <2>3 DEF TaskType, Calls, Outcomes, Idle
  <2>5. PICK q \in TaskType :
          /\ Goes(t, q) /\ ~q.plain /\ q.doing = "call"
          /\ \/ q.at = "lock" /\ stream = 0
             \/ q.at = "connecting" /\ stream = 0 /\ ~lastBind
             \/ q.at = "asked" /\ q.conn = stream
    <3>1. CASE stream = 0 /\ Goes(t, [r EXCEPT !.at = "lock"])
      <4> DEFINE q == [r EXCEPT !.at = "lock"]
      <4>1. q \in TaskType /\ q.at = "lock" /\ ~q.plain /\ q.doing = "call"
        <5> HIDE DEF r
        <5> QED
          BY <2>4 DEF TaskType
      <4>2. Goes(t, q)
        BY <3>1
      <4> HIDE DEF q
      <4> QED
        BY <3>1, <4>1, <4>2
    <3>2. CASE (stream # 0 \/ ~lastBind) /\ Goes(t, Exchange(r, "call", stream))
      <4> HIDE DEF r
      <4>1. PICK q \in TaskType :
              /\ q = Exchange(r, "call", stream) /\ ~q.plain /\ q.conn = stream /\ q.doing = "call"
              /\ q.at = IF stream = 0 THEN "connecting" ELSE "asked"
        BY <1>4, <2>4, AloneAsks
      <4> QED
        BY <3>2, <4>1
    <3> QED
      BY <1>5, <2>1, <3>1, <3>2 DEF Begin
  <2>6. OnStream(q)' /\ KeptInUse(q)'
    BY <2>2, <2>5 DEF OnStream, KeptInUse, Kept, Waiting, Idle
  <2> HIDE DEF r
  <2> QED
    BY <1>1, <2>1, <2>5, <2>6, AloneGoes
<1>6. ASSUME NEW t \in Tasks, BeginUnbound(t) PROVE AloneInv'
  <2>1. Active = {} /\ UNCHANGED <<stream, conns, lastBind, startTLS>> /\ Goes(t, Idle("none"))
    BY <1>3, <1>6 DEF BeginUnbound, object
  <2>2. KeptInUse(Idle("none"))' /\ Idle("none").at = "idle"
    BY <1>1, <2>1 DEF AloneInv, KeptInUse, Kept, Idle
  <2> QED
    BY <1>1, <2>1, <2>2, AloneEnds
<1>7. ASSUME NEW t \in Tasks, Locked(t) PROVE AloneInv'
  <2>1. task[t].at = "lock" /\ UNCHANGED <<lastBind, startTLS>>
    BY <1>7 DEF Locked
  <2> DEFINE r == [task[t] EXCEPT !.counter = RetryMax]
  <2>2. r \in TaskType /\ r.again = task[t].again /\ ~r.plain
    BY <1>2, <2>1, ReconnectAssumption DEF TaskType
  <2>3. PICK q \in TaskType :
          /\ Goes(t, q) \/ GoesAndAllFail(t, q)
          /\ ~q.plain /\ stream' = 0
          /\ \/ q.at = "connecting" /\ q.doing = IF startTLS THEN "tls" ELSE "bind"
             \/ q.at = "closing"
    <3>1. CASE stream = 0 /\ stream' = 0 /\ Goes(t, Rebuild(r, 0))
      <4>1. Goes(t, Exchange(r, IF startTLS THEN "tls" ELSE "bind", 0))
        BY <3>1 DEF Rebuild
      <4> HIDE DEF r
      <4>2. PICK what \in {"call", "tls", "bind"} : what = IF startTLS THEN "tls" ELSE "bind"
        OBVIOUS
      <4>3. PICK q \in TaskType : /\ q = Exchange(r, what, 0) /\ ~q.plain /\ q.doing = what
                                  /\ q.at = "connecting"
        <5>1. 0 \in 0..MaxConns
          BY <1>4
        <5>2. \E q \in TaskType : /\ q = Exchange(r, what, 0) /\ ~q.plain /\ q.conn = 0 /\ q.doing = what
                                 /\ q.at = IF 0 = 0 THEN "connecting" ELSE "asked"
          BY <2>2, <4>2, <5>1, AloneAsks, SMTT(60)
        <5> QED
          BY <5>2
      <4> QED
        BY <3>1, <4>1, <4>2, <4>3
    <3>2. CASE /\ stream' = 0
               /\ GoesAndAllFail(t, [r EXCEPT !.at = "closing", !.conn = 0, !.said = "nothing", !.then = "rebuild"])
      <4> DEFINE q == [r EXCEPT !.at = "closing", !.conn = 0, !.said = "nothing", !.then = "rebuild"]
      <4>1. q \in TaskType /\ q.at = "closing" /\ ~q.plain
        <5> HIDE DEF r
        <5> QED
          BY <1>4, <2>2 DEF TaskType
      <4>2. GoesAndAllFail(t, q)
        BY <3>2
      <4> HIDE DEF q, r
      <4> QED
        BY <3>2, <4>1, <4>2
    <3>3. CASE stream # 0 /\ ~r.again
      BY <1>2, <2>1, <2>2, <3>3 DEF OnStream
    <3> QED
      BY <1>7, <3>1, <3>2, <3>3 DEF Locked
  <2>4. OnStream(q)' /\ KeptInUse(q)'
    BY <2>1, <2>3 DEF OnStream, KeptInUse, Waiting
  <2> HIDE DEF r
  <2> QED
    BY <1>1, <1>2, <2>1, <2>3, <2>4, AloneGoes
<1>8. ASSUME NEW t \in Tasks, Closed(t) \/ Slept(t) PROVE AloneInv'
  <2>1. t \in Active /\ task[t] \in TaskType /\ task[t].at \in {"closing", "sleeping"} /\ stream = 0
    BY <1>2, <1>8 DEF Closed, Slept, OnStream
  <2>2. \E then \in {"rebuild", "retry", "raise"} : After(t, then)
    BY <1>1, <1>8, <2>1 DEF Closed, Slept, TasksType, TaskType
  <2>3. UNCHANGED <<stream, conns, lastBind, startTLS>>
    BY <1>8 DEF Closed, Slept
  <2> QED
    BY <1>1, <2>1, <2>2, <2>3, AloneAfter
<1>9. ASSUME NEW t \in Tasks, Connects(t) PROVE AloneInv'
  <2>1. /\ task[t].at = "connecting" /\ UNCHANGED <<lastBind, startTLS>>
        /\ stream' = Cardinality(Conns) + 1 /\ stream' \notin Conns /\ stream' \in 1..stream'
        /\ stream' \in 0..MaxConns
    BY <1>9, ReconnectAssumption DEF Connects, TypeInv, ConnsType
  <2>2. conns'[stream'] = [Fresh EXCEPT !.bare = startTLS /\ task[t].doing = "call"]
    BY <1>9, <2>1 DEF Connects
  <2>3. PICK q \in TaskType : Goes(t, q) /\ q.at = "asked" /\ q.conn = stream' /\ ~q.plain
                              /\ q.doing = task[t].doing
    <3> DEFINE q == [task[t] EXCEPT !.at = "asked", !.conn = stream']
    <3>1. q \in TaskType /\ q.at = "asked" /\ q.conn = stream' /\ ~q.plain /\ q.doing = task[t].doing
      <4>1. task[t] \in TaskType /\ ~task[t].plain
        BY <1>2, <2>1
      <4> QED
        BY <2>1, <4>1 DEF TaskType
    <3>2. Goes(t, q)
      BY <1>9 DEF Connects
    <3> HIDE DEF q
    <3> QED
      BY <3>1, <3>2
  <2>4. OnStream(q)'
    BY <2>1, <2>3 DEF OnStream, Waiting
  <2>5. KeptInUse(q)'
    <3>1. /\ conns'[stream'].bare = (startTLS /\ task[t].doing = "call")
      BY <2>2 DEF Fresh
    <3>2. task[t] \in TaskType /\ OnStream(task[t])
      BY <1>2, <2>1
    <3> QED
      BY <2>1, <2>3, <3>1, <3>2 DEF KeptInUse, Kept, OnStream, TaskType
  <2> QED
    BY <1>1, <1>2, <2>1, <2>3, <2>4, <2>5, AloneGoes
<1>10. CASE Lost
  <2>1. PICK t \in Tasks : task[t].at \in Waiting
    BY <1>10 DEF Lost
  <2>2. task[t].at # "idle"
    BY <2>1 DEF Waiting
  <2>3. PICK q \in TaskType : GoesAndAllFail(t, q) /\ q.at = "down" /\ ~q.plain
    <3> DEFINE q == [task[t] EXCEPT !.at = "down", !.conn = 0, !.said = "nothing"]
    <3>1. q \in TaskType /\ q.at = "down" /\ ~q.plain
      <4>1. task[t] \in TaskType /\ ~task[t].plain
        BY <1>2, <2>2
      <4> QED
        BY <1>4, <4>1 DEF TaskType
    <3>2. GoesAndAllFail(t, q)
      BY <1>10, <2>1 DEF Lost, GoesAndAllFail
    <3> HIDE DEF q
    <3> QED
      BY <3>1, <3>2
  <2>4. stream' = 0
    BY <1>10 DEF Lost
  <2>5. OnStream(q)' /\ KeptInUse(q)'
    BY <2>3, <2>4 DEF OnStream, KeptInUse, Waiting
  <2> QED
    BY <1>1, <1>2, <2>2, <2>3, <2>5, AloneGoes
<1>11. ASSUME NEW t \in Tasks, CannotConnect(t) \/ Down(t) \/ TimesOut(t) \/ Refused(t)
       PROVE  AloneInv'
  BY <1>1, <1>2, <1>11, AloneFails DEF CannotConnect, Down, TimesOut, Refused, Waiting
<1>12. ASSUME NEW t \in Tasks, Succeeds(t) PROVE AloneInv'
  <2>1. /\ task[t].at = "served" /\ task[t].said = "ok" /\ task[t].conn = stream
        /\ stream \in Conns /\ stream # 0 /\ UNCHANGED stream
    BY <1>1, <1>4, <1>12 DEF Succeeds, TasksType, Waiting
  <2>2. /\ conns'[stream].up = conns[stream].up /\ conns'[stream].bound = conns[stream].bound
        /\ conns'[stream].fell = conns[stream].fell /\ conns'[stream].bare = conns[stream].bare
        /\ conns'[stream].left = conns[stream].left
        /\ conns'[stream].tls = (conns[stream].tls \/ task[t].doing = "tls"
                                    \/ (task[t].doing = "call" /\ task[t].call = "tls"))
    <3>1. conns \in [Conns -> ConnType] /\ conns[stream] \in ConnType
      BY <2>1 DEF TypeInv, ConnsType
    <3>2. CASE conns' = [conns EXCEPT ![stream].tls = TRUE]
               /\ (task[t].doing = "tls" \/ (task[t].doing = "call" /\ task[t].call = "tls"))
      BY <2>1, <3>1, <3>2 DEF ConnType
    <3>3. CASE conns' = conns /\ ~(task[t].doing = "tls" \/ (task[t].doing = "call" /\ task[t].call = "tls"))
      BY <3>1, <3>3 DEF ConnType
    <3> QED
      BY <1>12, <3>2, <3>3 DEF Succeeds
  <2>3. task[t] \in TaskType /\ ~task[t].plain /\ KeptInUse(task[t]) /\ Active \subseteq {t}
    BY <1>2, <2>1
  <2>4. ASSUME NEW what \in {"bind", "call"}, Goes(t, Exchange(task[t], what, stream)),
               UNCHANGED <<lastBind, startTLS>>,
               \/ task[t].doing = "tls" /\ what = "bind"
               \/ task[t].doing = "bind" /\ what = "call"
        PROVE  AloneInv'
    <3>1. PICK q \in TaskType : Goes(t, q) /\ q.at = "asked" /\ q.conn = stream /\ ~q.plain /\ q.doing = what
      <4>0. what \in {"call", "tls", "bind"} /\ stream \in 0..MaxConns
        BY <1>4, <2>4
      <4>1. PICK q \in TaskType :
              /\ q = Exchange(task[t], what, stream) /\ ~q.plain /\ q.conn = stream /\ q.doing = what
              /\ q.at = IF stream = 0 THEN "connecting" ELSE "asked"
        BY <2>3, <4>0, AloneAsks
      <4> QED
        BY <2>1, <2>4, <4>1
    <3>2. OnStream(q)' /\ KeptInUse(q)'
      BY <2>1, <2>2, <2>3, <2>4, <3>1 DEF OnStream, KeptInUse, Kept, Waiting
    <3> QED
      BY <1>1, <2>3, <3>1, <3>2, AloneGoes
  <2>5. CASE task[t].doing = "call" /\ Ends(t, "returned") /\ Remembers(task[t].call)
    <3>1. PICK q : Goes(t, q) /\ q.at = "idle"
      BY <2>5, EndedIsIdle
    <3>2. KeptInUse(Idle("none"))'
      BY <2>1, <2>2, <2>3, <2>5 DEF KeptInUse, Kept, Idle, Remembers
    <3> QED
      BY <1>1, <2>3, <3>1, <3>2, AloneEnds
  <2> QED
    BY <1>12, <2>4, <2>5 DEF Succeeds
<1>13. ASSUME NEW t \in Tasks, HandshakeFails(t) PROVE AloneInv'
  <2>1. stream \in Conns /\ UNCHANGED stream /\ task[t].at # "idle"
    BY <1>1, <1>13 DEF HandshakeFails, TasksType, Waiting
  <2>2. /\ conns'[stream].up = conns[stream].up /\ conns'[stream].bound = conns[stream].bound
        /\ conns'[stream].tls = conns[stream].tls
        /\ conns'[stream].fell = conns[stream].fell /\ conns'[stream].bare = conns[stream].bare
        /\ conns'[stream].left = (conns[stream].left \/ task[t].doing = "tls")
    <3>1. conns \in [Conns -> ConnType] /\ conns[stream] \in ConnType
      BY <2>1 DEF TypeInv, ConnsType
    <3> QED
      BY <1>13, <2>1, <3>1 DEF HandshakeFails, ConnType
  <2>3. PICK q : Goes(t, q) /\ q.at = "idle"
    BY <1>13, EndedIsIdle DEF HandshakeFails
  <2>4. KeptInUse(Idle("none"))'
    <3>1. task[t].doing \in {"tls", "call"} /\ UNCHANGED <<stream, lastBind, startTLS>>
      BY <1>13 DEF HandshakeFails
    <3>2. KeptInUse(task[t])
      BY <1>2, <2>1
    <3> QED
      BY <2>2, <3>1, <3>2 DEF KeptInUse, Kept, Idle
  <2> QED
    BY <1>1, <1>2, <2>1, <2>3, <2>4, AloneEnds
<1>14. ASSUME NEW t \in Tasks, Cancelled(t) PROVE AloneInv'
  <2>1. task[t].at # "idle" /\ task[t].doing = "call" /\ UNCHANGED <<stream, conns, lastBind, startTLS>>
    BY <1>14 DEF Cancelled, Rebuilding
  <2>2. PICK q : Goes(t, q) /\ q.at = "idle"
    BY <1>14, EndedIsIdle DEF Cancelled
  <2>3. KeptInUse(Idle("none"))'
    BY <1>2, <2>1 DEF KeptInUse, Kept, Idle
  <2> QED
    BY <1>1, <1>2, <2>1, <2>2, <2>3, AloneEnds
<1>15. ASSUME NEW t \in Tasks, NEW answer \in {"ok", "refused", "unavailable"}, Serves(t, answer)
       PROVE  AloneInv'
  <2>1. /\ task[t].at = "asked" /\ task[t].conn = stream /\ stream \in Conns /\ stream # 0
        /\ UNCHANGED <<stream, lastBind, startTLS>> /\ conns[stream].up
        /\ task[t] \in TaskType /\ KeptInUse(task[t]) /\ conns[stream] \in ConnType
    BY <1>1, <1>2, <1>4, <1>15 DEF Serves, object, TasksType, Waiting, OnStream, TypeInv, ConnsType
  <2>2. PICK q \in TaskType :
          /\ Goes(t, q) /\ q.at = "served" /\ q.conn = stream /\ ~q.plain /\ q.said = answer
          /\ q.doing = task[t].doing /\ q.call = task[t].call
    <3> DEFINE n == IF answer = "ok" /\ task[t].doing = "call" THEN task[t].times + 1 ELSE task[t].times
               q == [task[t] EXCEPT !.at = "served", !.said = answer, !.times = n]
    <3>1. n \in Nat
      BY <2>1 DEF TaskType
    <3>2. Goes(t, q)
      BY <1>15 DEF Serves
    <3>3. /\ q \in TaskType /\ q.at = "served" /\ q.conn = stream /\ ~q.plain /\ q.said = answer
          /\ q.doing = task[t].doing /\ q.call = task[t].call
      <4> HIDE DEF n
      <4> QED
        BY <1>2, <2>1, <3>1 DEF TaskType
    <3> HIDE DEF q
    <3> QED
      BY <3>2, <3>3
  <2>3. OnStream(q)'
    BY <2>1, <2>2 DEF OnStream, Waiting
  <2>4. KeptInUse(q)'
    <3>1. CASE What(task[t]) # "bind"
      <4>1. conns' = conns
        BY <1>15, <3>1 DEF Serves
      <4> QED
        BY <2>1, <2>2, <3>1, <4>1 DEF KeptInUse, Kept, What
    <3>2. CASE What(task[t]) = "bind"
      <4>1. conns' = [conns EXCEPT ![stream].bound = (answer = "ok" /\ (task[t].doing = "call" \/ lastBind)),
                                   ![stream].fell = @ \/ (answer # "ok" /\ task[t].doing = "call")]
        BY <1>15, <2>1, <3>2 DEF Serves
      <4>2. /\ conns'[stream].tls = conns[stream].tls /\ conns'[stream].bare = conns[stream].bare
            /\ conns'[stream].left = conns[stream].left
            /\ conns'[stream].bound = (answer = "ok" /\ (task[t].doing = "call" \/ lastBind))
            /\ conns'[stream].fell = (conns[stream].fell \/ (answer # "ok" /\ task[t].doing = "call"))
        BY <2>1, <4>1 DEF ConnType, TypeInv, ConnsType
      <4> QED
        BY <2>1, <2>2, <3>2, <4>2 DEF KeptInUse, Kept, What
    <3> QED
      BY <3>1, <3>2
  <2> QED
    BY <1>1, <1>2, <2>1, <2>2, <2>3, <2>4, AloneGoes
<1>16. ASSUME NEW g \in Conns, Goes_away(g) PROVE AloneInv'
  <2>1. UNCHANGED <<object, task>> /\ conns' = Closes(g)
    BY <1>16 DEF Goes_away
  <2>2. stream # 0 => conns'[stream] = conns[stream] \/ ~conns'[stream].up
    BY <1>4, <2>1 DEF Closes, Fresh, TypeInv, ConnsType
  <2>3. Active' = Active
    BY <2>1 DEF Active
  <2> QED
    BY <1>1, <2>1, <2>2, <2>3 DEF AloneInv, Alone, OnStream, KeptInUse, Kept, object
<1>17. CASE UNCHANGED vars
  BY <1>1, <1>17 DEF vars, object, AloneInv, Alone, OnStream, KeptInUse, Kept, Active
<1> QED
  BY <1>5, <1>6, <1>7, <1>8, <1>9, <1>10, <1>11, <1>12, <1>13, <1>14, <1>15, <1>16, <1>17
  DEF Next, Step, Serving

-----------------------------------------------------------------------------
LEMMA InitInv == Init => TypeInv /\ TimesInv /\ AloneInv
<1> SUFFICES ASSUME Init PROVE TypeInv /\ TimesInv /\ AloneInv
  OBVIOUS
<1>1. Conns = {} /\ Cardinality(Conns) = 0 /\ 1..0 = {}
  BY FS_EmptySet DEF Init, Conns
<1>2. ConnsType
  BY <1>1, ReconnectAssumption DEF Init, ConnsType, Conns
<1>3. Idle("none") \in TaskType /\ Idle("none").at = "idle" /\ Idle("none").call = "none"
      /\ Idle("none").times = 0
  BY Idling DEF Outcomes, Idle
<1>4. \A t \in Tasks : task[t] = Idle("none")
  BY DEF Init
<1>5. TasksType
  BY <1>3, <1>4 DEF Init, TasksType, Waiting, Outcomes
<1>6. Active = {}
  BY <1>3, <1>4 DEF Active
<1>7. FlagsType /\ OneMayReconnect
  BY <1>6 DEF Init, FlagsType, OneMayReconnect
<1>8. TimesInv
  BY <1>3, <1>4 DEF TimesInv, Counted
<1>9. AloneInv
  BY <1>6 DEF AloneInv, Alone, KeptInUse, Init
<1> QED
  BY <1>2, <1>5, <1>7, <1>8, <1>9 DEF TypeInv

LEMMA TypeInvImplies == TypeInv => TypeOK
<1> SUFFICES ASSUME TypeInv PROVE TypeOK
  OBVIOUS
<1>1. stream \in 0..MaxConns /\ Conns = 1..Cardinality(Conns)
  BY ReconnectAssumption DEF TypeInv, FlagsType, ConnsType
<1>2. {unbound, lastBind, startTLS, retrying, crossed} \subseteq BOOLEAN
  BY DEF TypeInv, FlagsType
<1>3. \A t \in Tasks : task[t].conn \in 0..MaxConns /\ task[t].times \in Nat
  <2> TAKE t \in Tasks
  <2>1. task[t] \in TaskType
    BY DEF TypeInv, TasksType
  <2> QED
    BY <2>1 DEF TaskType
<1>4. Cardinality({t \in Active : ~task[t].plain}) <= 1
  <2> DEFINE S == {t \in Active : ~task[t].plain}
  <2>1. CASE S = {}
    BY <2>1, FS_EmptySet
  <2>2. ASSUME NEW t \in S PROVE Cardinality(S) <= 1
    <3>1. S = {t}
      BY DEF TypeInv, OneMayReconnect
    <3>2. Cardinality({t}) = 1
      BY FS_Singleton
    <3> QED
      BY <3>1, <3>2
  <2> QED
    BY <2>1, <2>2
<1> QED
  BY <1>1, <1>2, <1>3, <1>4 DEF TypeOK, TypeInv, OneMayReconnect

\* Every variable keeps its type, and _retrying is set exactly as long as one
\* operation, and one only, may reconnect (_apply_method_s).
THEOREM TypeCorrect == Spec => []TypeOK
<1>1. Init => TypeInv
  BY InitInv
<1>2. TypeInv /\ [Next]_vars => TypeInv'
  BY TypeStep
<1> QED
  BY <1>1, <1>2, TypeInvImplies, PTL DEF Spec

\* What returned was done by the server once or twice, and nothing oftener,
\* whoever else shares the connection, however often it is lost and whoever is
\* cancelled (_apply_method_s).
THEOREM NothingIsDoneThrice == Spec => []DoneOnceOrTwice
<1>1. Init => TypeInv /\ TimesInv
  BY InitInv
<1>2. TypeInv /\ TimesInv /\ [Next]_vars => (TypeInv /\ TimesInv)'
  BY TypeStep, TimesStep
<1>3. TypeInv /\ TimesInv => DoneOnceOrTwice
  <2> SUFFICES ASSUME TypeInv, TimesInv, NEW t \in Tasks
               PROVE  task[t].times <= 2 /\ (task[t].call = "returned" => task[t].times >= 1)
    BY TypeInvImplies DEF DoneOnceOrTwice
  <2>1. task[t] \in TaskType /\ Counted(task[t])
    BY DEF TypeInv, TasksType, TimesInv
  <2> QED
    BY <2>1 DEF Counted, Asked, TaskType
<1> QED
  BY <1>1, <1>2, <1>3, PTL DEF Spec

\* As long as no operation has begun in the middle of another's and no caller is
\* cancelled while it reconnects, nothing is asked after a bind as nobody, nor in
\* the clear once a reconnection could have raised TLS (reconnect), unless on the
\* connection on which the handshake of a reconnection has failed.
THEOREM AskedAsItWas == ASSUME ~Interrupts PROVE Spec => []AsItWas
<1>1. Init => AsItWasInv
  BY InitInv DEF AsItWasInv
<1>2. AsItWasInv /\ [Next]_vars => AsItWasInv'
  BY TypeStep, AloneStep DEF AsItWasInv
<1>3. AsItWasInv => AsItWas
  <2> SUFFICES ASSUME AsItWasInv, NEW t \in Tasks, AsksAfterBind(t), ~conns[task[t].conn].left
               PROVE  Restored(conns[task[t].conn])
    BY DEF AsItWas
  <2> USE DEF AsksAfterBind, Restored
  <2>1. t \in Active /\ task[t].conn \in Conns
    BY DEF Active, AsItWasInv, TypeInv, TasksType, Waiting
  <2>2. task[t].conn = stream /\ stream # 0
    BY <2>1, ReconnectAssumption DEF AsItWasInv, AloneInv, OnStream, Waiting, TypeInv, ConnsType
  <2>3. KeptInUse(task[t])
    BY <2>1 DEF AsItWasInv, AloneInv
  <2> QED
    BY <2>2, <2>3 DEF KeptInUse, Kept
<1> QED
  BY <1>1, <1>2, <1>3, PTL DEF Spec
=============================================================================
