----------------------------- MODULE LDAPObject -----------------------------
(***************************************************************************)
(* ldap/ldapobject.py, SimpleLDAPObject: one connection that the tasks of  *)
(* a program share, with nothing running in the background.                *)
(*                                                                         *)
(* An operation is started by writing its request and registering it in    *)
(* _pending once it has been written.  result4 reads the connection, one   *)
(* task at a time, and hands every answer to the operation it belongs to,  *)
(* until the one asked for is finished.  Whoever finds the connection gone *)
(* fails every pending operation; the next operation opens another one.    *)
(*                                                                         *)
(* Each operation has the task that started it, and stands for its own     *)
(* message id.  A step is what runs between two awaits.  Referrals are not *)
(* followed here (_chase with referrals off), and the answers are final    *)
(* ones and search entries.                                                *)
(***************************************************************************)
EXTENDS Naturals, Sequences, FiniteSets

CONSTANTS
    Ops,          \* the operations, each with the task that starts it
    Unbinders,    \* tasks that call unbind_ext
    Walks,        \* operations whose result is asked for one message at a time
    Abandoners,   \* operations whose caller may abandon them
    Timed,        \* operations whose result is asked for with a timeout
    Overtaking,   \* whether an answer can be read before the task that sent
                  \* the request runs again (trio does not promise otherwise)
    MaxConns,     \* bound: connections that can be opened
    MaxEntries,   \* bound: entries the server sends for one operation
    Nobody        \* no task

Tasks == Ops \cup Unbinders
Conns == 1..MaxConns

ASSUME TasksAssumption ==
    /\ Ops \cap Unbinders = {} /\ Nobody \notin Tasks
    /\ Walks \subseteq Ops /\ Abandoners \subseteq Ops /\ Timed \subseteq Ops

ASSUME BoundsAssumption ==
    MaxConns \in Nat /\ MaxEntries \in Nat /\ Overtaking \in BOOLEAN

VARIABLES
    stream,     \* self._stream: the connection in use, 0 when there is none
    unbound,    \* self._unbound
    pending,    \* self._pending: the operations on the wire
    writing,    \* self._writing: who holds it
    readers,    \* self._reading: who holds it, and behind it who waits
    done,       \* operations whose `done` is set
    down,       \* operations whose `error` is SERVER_DOWN
    buffer,     \* self._buffer: the connection of which it holds part of a message, or 0
    spoiled,    \* whether it has held that of one connection before the octets of another
    queue,      \* entries of each operation, arrived and not handed out
    handed,     \* entries of each operation handed to its caller
    pc,         \* where each task is
    doing,      \* what each task sends: its request, an abandon, an unbind
    local,      \* the local `stream` of each task in _send or _read_once
    expired,    \* operations whose one timeout has struck
    opened,     \* how many connections have been opened
    open,       \* connections this end has not closed
    alive,      \* connections the server has not closed
    wire,       \* messages on their way to the client on each connection
    asked,      \* requests the server has and has not answered
    said        \* entries the server has sent for each operation

bufferVars == <<buffer, spoiled>>
objectVars == <<stream, unbound, pending, done, down, queue, bufferVars>>
lockVars == <<writing, readers>>
taskVars == <<pc, doing, local, expired, handed>>
netVars == <<opened, open, alive, wire, asked, said>>
vars == <<objectVars, lockVars, taskVars, netVars>>

Message == [id : Ops, final : BOOLEAN]
Ended == {"returned", "failed", "unknown", "crashed"}
Reading == {"lockread", "reading"}
Active == {"connecting", "lockwrite", "sending", "sent", "wait"} \cup Reading

Init ==
    /\ stream = 0 /\ unbound = FALSE
    /\ pending = {} /\ done = {} /\ down = {} /\ buffer = 0 /\ spoiled = FALSE
    /\ queue = [o \in Ops |-> 0] /\ handed = [o \in Ops |-> 0]
    /\ writing = Nobody /\ readers = <<>>
    /\ pc = [t \in Tasks |-> "idle"]
    /\ doing = [t \in Tasks |-> IF t \in Ops THEN "request" ELSE "unbind"]
    /\ local = [t \in Tasks |-> 0]
    /\ expired = {}
    /\ opened = 0 /\ open = {} /\ alive = {}
    /\ wire = [g \in Conns |-> <<>>]
    /\ asked = [g \in Conns |-> {}]
    /\ said = [o \in Ops |-> 0]

\* A task between two awaits keeps every other task from running.
Running(t) == pc[t] = "wait" \/ (pc[t] = "sent" /\ ~Overtaking)
MayRun(t) == \A u \in Tasks \ {t} : ~Running(u)

MoveTo(t, where) == pc' = [pc EXCEPT ![t] = where]

\* _lost: it closes the connection in use, whichever that is by now, and
\* fails what is pending, what has been answered and not collected included.
\* What is in the buffer stays there.
Lost ==
    /\ stream' = 0
    /\ open' = open \ {stream}
    /\ done' = done \cup pending
    /\ down' = down \cup pending
    /\ pending' = {}

-----------------------------------------------------------------------------
(* Writing a request: _connected, _send and _start.                        *)

\* _connected, up to the await of the connection when there is none.
EnterSend(t) ==
    IF unbound THEN MoveTo(t, "failed") /\ UNCHANGED local
    ELSE IF stream = 0 THEN MoveTo(t, "connecting") /\ UNCHANGED local
    ELSE MoveTo(t, "lockwrite") /\ local' = [local EXCEPT ![t] = stream]

Start(o) ==
    /\ o \in Ops /\ pc[o] = "idle" /\ MayRun(o)
    /\ EnterSend(o)
    /\ UNCHANGED <<objectVars, lockVars, doing, expired, handed, netVars>>

\* What _connected does once the connection is open: it is the one in use,
\* whatever happened in the meantime.
Connected(t) ==
    /\ pc[t] = "connecting" /\ MayRun(t) /\ opened < MaxConns
    /\ opened' = opened + 1
    /\ open' = open \cup {opened'} /\ alive' = alive \cup {opened'}
    /\ stream' = opened'
    /\ local' = [local EXCEPT ![t] = opened']
    /\ MoveTo(t, "lockwrite")
    /\ UNCHANGED <<unbound, pending, done, down, queue, bufferVars, lockVars, doing, expired, handed,
                   wire, asked, said>>

ConnectFails(t) ==
    /\ pc[t] = "connecting" /\ MayRun(t)
    /\ MoveTo(t, "failed")
    /\ UNCHANGED <<objectVars, lockVars, doing, local, expired, handed, netVars>>

AcquireWrite(t) ==
    /\ pc[t] = "lockwrite" /\ MayRun(t) /\ writing = Nobody
    /\ writing' = t
    /\ MoveTo(t, "sending")
    /\ UNCHANGED <<objectVars, readers, doing, local, expired, handed, netVars>>

\* The bytes reach the server, which takes an abandon and an unbind at once.
Transmit(t) ==
    /\ pc[t] = "sending" /\ MayRun(t) /\ local[t] \in open
    /\ MoveTo(t, "sent")
    /\ IF local[t] \notin alive
       THEN UNCHANGED <<alive, asked>>
       ELSE CASE doing[t] = "request" ->
                   asked' = [asked EXCEPT ![local[t]] = @ \cup {t}] /\ UNCHANGED alive
              [] doing[t] = "abandon" ->
                   asked' = [asked EXCEPT ![local[t]] = @ \ {t}] /\ UNCHANGED alive
              [] doing[t] = "unbind" ->
                   alive' = alive \ {local[t]} /\ UNCHANGED asked
    /\ UNCHANGED <<objectVars, lockVars, doing, local, expired, handed,
                   opened, open, wire, said>>

\* unbind_ext's finally clause.
Unbound(t) == unbound' = TRUE /\ Lost

\* The task runs again: _start registers the operation only now.
Sent(t) ==
    /\ pc[t] = "sent" /\ MayRun(t)
    /\ writing' = Nobody
    /\ local' = [local EXCEPT ![t] = 0]
    /\ CASE doing[t] = "request" ->
              /\ pending' = pending \cup {t} /\ MoveTo(t, "started")
              /\ UNCHANGED <<stream, unbound, done, down, open>>
         [] doing[t] = "abandon" ->
              MoveTo(t, "returned")
              /\ UNCHANGED <<stream, unbound, pending, done, down, open>>
         [] doing[t] = "unbind" ->
              Unbound(t) /\ MoveTo(t, "returned")
    /\ UNCHANGED <<queue, bufferVars, readers, doing, expired, handed, opened, alive, wire,
                   asked, said>>

SendBroken(t) ==
    /\ pc[t] = "sending" /\ MayRun(t) /\ local[t] \notin open \cap alive
    /\ writing' = Nobody
    /\ local' = [local EXCEPT ![t] = 0]
    /\ Lost
    /\ unbound' = (unbound \/ doing[t] = "unbind")
    /\ MoveTo(t, IF doing[t] = "unbind" THEN "returned" ELSE "failed")
    /\ UNCHANGED <<queue, bufferVars, readers, doing, expired, handed, opened, alive, wire,
                   asked, said>>

\* Mutant of Abandon: the abandon is sent and the operation is not forgotten.
AbandonRemembers(o) ==
    /\ o \in Abandoners /\ pc[o] = "started" /\ MayRun(o)
    /\ doing' = [doing EXCEPT ![o] = "abandon"]
    /\ IF o \in pending
       THEN EnterSend(o)
       ELSE MoveTo(o, "returned") /\ UNCHANGED local
    /\ UNCHANGED <<objectVars, lockVars, expired, handed, netVars>>

\* abandon_ext, of an operation whose result nobody is waiting for.
Abandon(o) ==
    /\ o \in Abandoners /\ pc[o] = "started" /\ MayRun(o)
    /\ doing' = [doing EXCEPT ![o] = "abandon"]
    /\ pending' = pending \ {o}
    /\ IF o \in pending
       THEN EnterSend(o)
       ELSE MoveTo(o, "returned") /\ UNCHANGED local
    /\ UNCHANGED <<stream, unbound, done, down, queue, bufferVars, lockVars, expired, handed,
                   netVars>>

Unbind(t) ==
    /\ t \in Unbinders /\ pc[t] = "idle" /\ MayRun(t)
    /\ IF unbound
       THEN MoveTo(t, "returned") /\ UNCHANGED <<objectVars, local, open>>
       ELSE IF stream # 0
       THEN EnterSend(t) /\ UNCHANGED <<objectVars, open>>
       ELSE Unbound(t) /\ MoveTo(t, "returned") /\ UNCHANGED <<queue, bufferVars, local>>
    /\ UNCHANGED <<lockVars, doing, expired, handed, opened, alive, wire, asked, said>>

-----------------------------------------------------------------------------
(* Waiting for a result: result4 and _wait.                                *)

Enough(o) == o \in done \/ (o \in Walks /\ queue[o] > 0)

\* result4 of a message id that is not, or is no longer, pending.
Collect(o) ==
    /\ o \in Ops /\ pc[o] = "started" /\ MayRun(o)
    /\ MoveTo(o, IF o \in pending THEN "wait" ELSE "unknown")
    /\ UNCHANGED <<objectVars, lockVars, doing, local, expired, handed, netVars>>

\* The next entry of a search that is walked; the operation stays pending,
\* and its caller asks again.
HandOut(o) ==
    /\ pc[o] = "wait" /\ o \in Walks /\ queue[o] > 0
    /\ queue' = [queue EXCEPT ![o] = @ - 1]
    /\ handed' = [handed EXCEPT ![o] = @ + 1]
    /\ MoveTo(o, "started")
    /\ UNCHANGED <<stream, unbound, pending, done, down, bufferVars, lockVars, doing, local, expired,
                   netVars>>

\* The end of result4: the operation is forgotten, and its error raised or
\* everything found handed out.
Finish(o) ==
    /\ pc[o] = "wait" /\ o \in done /\ (o \in Walks => queue[o] = 0)
    /\ pending' = pending \ {o}
    /\ IF o \in down
       THEN MoveTo(o, "failed") /\ UNCHANGED handed
       ELSE MoveTo(o, "returned") /\ handed' = [handed EXCEPT ![o] = @ + queue[o]]
    /\ queue' = [queue EXCEPT ![o] = 0]
    /\ UNCHANGED <<stream, unbound, done, down, bufferVars, lockVars, doing, local, expired, netVars>>

\* The lock is a queue: giving it up hands it to whoever is next.
QueueToRead(o) ==
    /\ pc[o] = "wait" /\ ~Enough(o)
    /\ readers' = Append(readers, o)
    /\ MoveTo(o, "lockread")
    /\ UNCHANGED <<objectVars, writing, doing, local, expired, handed, netVars>>

StillNeeded(o) == ~Enough(o)

\* _read_once, up to the await, asserts that there is a connection.
BeginRead(o) ==
    /\ pc[o] = "lockread" /\ MayRun(o) /\ readers[1] = o
    /\ IF StillNeeded(o) /\ stream # 0
       THEN /\ local' = [local EXCEPT ![o] = stream]
            /\ MoveTo(o, "reading") /\ UNCHANGED readers
       ELSE /\ MoveTo(o, IF StillNeeded(o) THEN "crashed" ELSE "wait")
            /\ readers' = Tail(readers) /\ UNCHANGED local
    /\ UNCHANGED <<objectVars, writing, doing, expired, handed, netVars>>

\* Mutant of Dispatch: of what one receive brings, the first message is handed
\* on and the rest thrown away with the buffer.
DispatchFirst(messages, whole) ==
    LET first == Head(messages)
        Is(o, last) == messages # <<>> /\ 1 \in whole /\ first = [id |-> o, final |-> last]
    IN /\ queue' = [o \in Ops |-> IF o \in pending /\ Is(o, FALSE) THEN queue[o] + 1 ELSE queue[o]]
       /\ done' = done \cup {o \in pending : Is(o, TRUE)}

\* _dispatch of those of some messages that are read as they were sent: one nobody
\* waits for is dropped.
Dispatch(messages, whole) ==
    LET Entries(o) == {i \in whole : messages[i] = [id |-> o, final |-> FALSE]}
    IN /\ queue' = [o \in Ops |->
                      IF o \in pending THEN queue[o] + Cardinality(Entries(o)) ELSE queue[o]]
       /\ done' = done \cup {o \in pending : \E i \in whole :
                               messages[i] = [id |-> o, final |-> TRUE]}

ReadEnds(o, where) ==
    /\ readers' = Tail(readers)
    /\ local' = [local EXCEPT ![o] = 0]
    /\ MoveTo(o, where)

\* One receive brings n messages, and behind them perhaps part of the next.  Put
\* behind part of a message of an earlier connection they are not what was sent:
\* it swallows the first and any of those that follow, for good, or what is found
\* cannot be decoded.
Read(o) ==
    LET g == local[o]
        foreign == buffer \notin {0, g}
    IN /\ pc[o] = "reading" /\ MayRun(o)
       /\ g \in open /\ wire[g] # <<>>
       /\ spoiled' = (spoiled \/ foreign)
       /\ \E n \in 0..Len(wire[g]) :
            /\ \E whole \in SUBSET (1..n) :
                 /\ spoiled' \/ whole = 1..n
                 /\ foreign => 1 \notin whole
                 /\ Dispatch(SubSeq(wire[g], 1, n), whole)
            /\ \/ n > 0 /\ buffer' = 0
               \/ n < Len(wire[g]) /\ (n > 0 \/ buffer # g) /\ buffer' = g
            /\ wire' = [wire EXCEPT ![g] = SubSeq(@, n + 1, Len(@))]
       /\ ReadEnds(o, "wait") \/ (spoiled' /\ ReadEnds(o, "crashed"))
       /\ UNCHANGED <<stream, unbound, pending, down, writing, doing, expired, handed,
                      opened, open, alive, asked, said>>

\* A connection that is broken need not bring what was on its way.
ReadFails(o) ==
    /\ pc[o] = "reading" /\ MayRun(o)
    /\ local[o] \notin open \cap alive
    /\ Lost
    /\ ReadEnds(o, "wait")
    /\ UNCHANGED <<unbound, queue, bufferVars, writing, doing, expired, handed,
                   opened, alive, wire, asked, said>>

\* Who is cancelled holding the lock, or waiting for it, leaves its place.
LeaveQueue(o) ==
    \E i \in DOMAIN readers :
      /\ readers[i] = o
      /\ readers' = SubSeq(readers, 1, i - 1) \o SubSeq(readers, i + 1, Len(readers))

\* Mutant of Timeout: what timed out is forgotten as if it had finished.
TimeoutForgets(o) ==
    /\ o \in Timed \ expired /\ pc[o] \in Reading /\ MayRun(o)
    /\ expired' = expired \cup {o}
    /\ LeaveQueue(o)
    /\ local' = [local EXCEPT ![o] = 0]
    /\ pending' = pending \ {o}
    /\ MoveTo(o, "started")
    /\ UNCHANGED <<stream, unbound, done, down, queue, bufferVars, writing, doing, handed, netVars>>

\* Mutant of Timeout: the turn to read is not given up.
TimeoutKeepsTurn(o) ==
    /\ o \in Timed \ expired /\ pc[o] \in Reading /\ MayRun(o)
    /\ expired' = expired \cup {o}
    /\ local' = [local EXCEPT ![o] = 0]
    /\ MoveTo(o, "started")
    /\ UNCHANGED <<objectVars, lockVars, doing, handed, netVars>>

\* TIMEOUT leaves the operation pending, to be collected later.
Timeout(o) ==
    /\ o \in Timed \ expired /\ pc[o] \in Reading /\ MayRun(o)
    /\ expired' = expired \cup {o}
    /\ LeaveQueue(o)
    /\ local' = [local EXCEPT ![o] = 0]
    /\ MoveTo(o, "started")
    /\ UNCHANGED <<objectVars, writing, doing, handed, netVars>>

-----------------------------------------------------------------------------
(* The server.                                                             *)

ServerSends(g, m) ==
    /\ wire' = [wire EXCEPT ![g] = Append(@, m)]
    /\ UNCHANGED <<objectVars, lockVars, taskVars, opened, open, alive>>

ServerAnswers(g, o) ==
    /\ g \in alive /\ o \in asked[g]
    /\ \/ /\ asked' = [asked EXCEPT ![g] = @ \ {o}]
          /\ ServerSends(g, [id |-> o, final |-> TRUE]) /\ UNCHANGED said
       \/ /\ said[o] < MaxEntries
          /\ said' = [said EXCEPT ![o] = @ + 1]
          /\ ServerSends(g, [id |-> o, final |-> FALSE]) /\ UNCHANGED asked

ServerCloses(g) ==
    /\ g \in alive
    /\ alive' = alive \ {g}
    /\ UNCHANGED <<objectVars, lockVars, taskVars, opened, open, wire, asked, said>>

-----------------------------------------------------------------------------
\* What a task does of its own accord: to send, and to wait for a result.
SendProgress(t) ==
    \/ Connected(t) \/ ConnectFails(t) \/ AcquireWrite(t)
    \/ Transmit(t) \/ Sent(t) \/ SendBroken(t)

WaitProgress(o) ==
    \/ HandOut(o) \/ Finish(o) \/ QueueToRead(o) \/ BeginRead(o)
    \/ Read(o) \/ ReadFails(o)

Next ==
    \/ \E t \in Tasks : SendProgress(t)
    \/ \E o \in Ops : WaitProgress(o)
    \/ \E o \in Ops : Start(o) \/ Collect(o) \/ Abandon(o) \/ Timeout(o)
    \/ \E t \in Unbinders : Unbind(t)
    \/ \E g \in Conns : ServerCloses(g) \/ \E o \in Ops : ServerAnswers(g, o)

\* Every task that can run is run.  The server owes no answer, and a caller
\* that has a message id need never ask for the result.
Fairness ==
    /\ \A o \in Ops : WF_vars(SendProgress(o) \/ WaitProgress(o))
    /\ \A t \in Unbinders : WF_vars(SendProgress(t))

Spec == Init /\ [][Next]_vars
FairSpec == Spec /\ Fairness

-----------------------------------------------------------------------------
\* The types of the state, which CanStillFinish has with it.
TypeOK ==
    /\ stream \in 0..MaxConns /\ opened \in 0..MaxConns
    /\ unbound \in BOOLEAN
    /\ pending \subseteq Ops /\ done \subseteq Ops /\ down \subseteq done
    /\ buffer \in 0..MaxConns /\ spoiled \in BOOLEAN
    /\ queue \in [Ops -> 0..MaxEntries] /\ handed \in [Ops -> 0..MaxEntries]
    /\ writing \in Tasks \cup {Nobody}
    /\ readers \in Seq(Ops)
    /\ pc \in [Tasks -> {"idle", "started"} \cup Active \cup Ended]
    /\ doing \in [Tasks -> {"request", "abandon", "unbind"}]
    /\ local \in [Tasks -> 0..MaxConns]
    /\ expired \subseteq Timed
    /\ open \subseteq Conns /\ alive \subseteq Conns
    /\ wire \in [Conns -> Seq(Message)]
    /\ asked \in [Conns -> SUBSET Ops]
    /\ said \in [Ops -> 0..MaxEntries]

\* An operation that is not done can still be: while its caller has its
\* message id, waits for it or was timed out of waiting for it ("leaves the
\* operation to be collected later"), it is in _pending.
CanStillFinish ==
    /\ TypeOK
    /\ \A o \in Ops : pc[o] \in {"started", "wait"} \cup Reading /\ o \notin done => o \in pending

\* What result4 hands out of a search that succeeds is all that the server
\* found, whichever task read it and however it was asked for, unless part of a
\* message of a lost connection was put before the octets of another (_lost,
\* _read_once): with one connection that cannot be.
SearchIsComplete ==
    \A o \in Ops :
        pc[o] = "returned" /\ doing[o] = "request" /\ ~spoiled => handed[o] = said[o]

\* What has been abandoned is nobody's any more: no later answer, and no loss
\* of the connection, gives it a result.
AbandonIsFinal ==
    [][\A o \in Ops : doing[o] = "abandon" =>
         o \notin pending' /\ (o \in done' <=> o \in done)]_vars

\* An operation whose answer has been read, by whichever task, is finished
\* with no need for the server to say anything more.
AnswerIsNotHeldUp ==
    \A o \in Ops : (pc[o] \in Reading /\ o \in done) ~> (pc[o] \notin Reading)

\* With every connection gone and none to be had, there comes a time when every
\* task has ended or is back at its caller (_lost, the lock, the turn to read).
LossEndsOperations ==
    (alive = {} /\ opened = MaxConns) ~> (\A t \in Tasks : pc[t] \notin Active)
=============================================================================
