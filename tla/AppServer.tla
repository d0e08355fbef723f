----------------------------- MODULE AppServer ------------------------------
(***************************************************************************)
(* app.py, ApplicationServer, over protocols/ldap/ldapserver.py,           *)
(* BaseLDAPServer: one connection of a server whose operations are calls   *)
(* of an application.                                                      *)
(*                                                                         *)
(* The reader decodes requests and starts a task for each; it acts on an   *)
(* Abandon and a Cancel itself, and runs StartTLS to its end before it     *)
(* reads on.  Everybody writes through one lock, which is a queue.  The    *)
(* connection is lost through the reader, a write that fails, or an        *)
(* operation that asks for it; every operation registered is then told.    *)
(*                                                                         *)
(* A step is what runs between two awaits.  The application is outside:    *)
(* one that behaves sends entries and then one final answer, or raises     *)
(* before it, and stops once it has been refused or told.                  *)
(***************************************************************************)
EXTENDS Naturals, Sequences, FiniteSets

CONSTANTS
    Ordinary,     \* requests answered by an application, in a task of its own
    StartTLS,     \* StartTLS requests
    Unbinds,      \* unbind requests: the application closes the connection
    Cancels,      \* Cancel requests
    Listening,    \* requests whose application calls receive
    Raising,      \* requests whose application may raise
    MaxId,        \* bound: the message ids are 1..MaxId
    Reuse,        \* whether a message id is used again once it was answered
    MaxEntries,   \* bound: entries sent for one request
    Nobody,       \* no operation
    Reader        \* the task of the reader, as a writer

Ops == Ordinary \cup StartTLS \cup Unbinds
Writers == Ops \cup {Reader}
Requests == Ops \cup Cancels
Ids == 1..MaxId

ASSUME RequestsAssumption ==
    /\ Ordinary \cap StartTLS = {} /\ Unbinds \cap (Ordinary \cup StartTLS) = {}
    /\ Cancels \cap Ops = {}
    /\ Nobody \notin Ops \cup Cancels /\ Reader \notin Ops
    /\ Listening \subseteq Ops /\ Raising \subseteq Ops

ASSUME ChoicesAssumption == MaxEntries \in Nat /\ MaxId \in Nat /\ Reuse \in BOOLEAN

VARIABLES
    stream,      \* self._anyio_stream is not None
    connected,   \* self.connected; the task group and the lock go with it
    open,        \* this end has not closed the transport
    tls,         \* self._tls_upgrade is not None
    operations,  \* self._operations
    abandoned,   \* operations whose `abandoned` is set
    posts,       \* events each operation has still to be handed
    msgid,       \* the message id of each operation, 0 before it has one
    pc,          \* where the task of each operation is
    told,        \* operations whose application has been handed an event
    reader,      \* where the reader is
    owed,        \* the operation whose `canceled` the reader writes
    current,     \* the Cancel the reader answers
    at,          \* where each writer is in its write
    writers,     \* the write lock: who holds it, and behind it who waits
    closer,      \* the task _start_anyio_close starts
    peer,        \* the client has not closed the connection
    entries,     \* entries written for each operation
    finals,      \* final answers written for each request
    late,        \* messages written for each operation once it was given up
    unwanted     \* operations the client has abandoned

connVars == <<stream, connected, open, tls>>
taskVars == <<operations, posts, pc, reader>>
markVars == <<abandoned, msgid, told, owed, current>>
lockVars == <<at, writers>>
wireVars == <<entries, finals, late>>
clientVars == <<peer, unwanted>>
envVars == <<closer, clientVars, wireVars>>
vars == <<connVars, taskVars, markVars, lockVars, envVars>>

Writing == {"entry", "final", "fail"}
Live == {"app", "asked", "receiving", "answered", "refused", "raised", "broken"} \cup Writing

Init ==
    /\ stream = TRUE /\ connected = TRUE /\ open = TRUE /\ tls = FALSE
    /\ operations = [i \in Ids |-> Nobody]
    /\ abandoned = {}
    /\ posts = [o \in Ops |-> {}]
    /\ msgid = [o \in Ops |-> 0]
    /\ pc = [o \in Ops |-> "absent"] /\ told = {}
    /\ reader = "idle" /\ owed = Nobody /\ current = Nobody
    /\ at = [w \in Writers |-> "out"] /\ writers = <<>>
    /\ closer = "none"
    /\ peer = TRUE /\ unwanted = {}
    /\ entries = [o \in Ops |-> 0]
    /\ finals = [r \in Requests |-> 0]
    /\ late = [o \in Ops |-> 0]

\* A task between two awaits keeps every other task from running.
Busy ==
    \/ reader \in {"more", "raised"}
    \/ reader = "replying" /\ at[Reader] = "out"
    \/ \E o \in Ops : pc[o] \in {"raised", "broken"}

MoveTo(o, where) == pc' = [pc EXCEPT ![o] = where]

Registered(o) == \E i \in Ids : operations[i] = o

-----------------------------------------------------------------------------
(* Losing the connection.                                                  *)

\* Mutant of TellDisconnect: the task group is let go of first.
TellNobody == UNCHANGED posts

\* connectionLost tells every operation of it while it can.
TellDisconnect ==
    posts' = [o \in Ops |-> IF connected /\ Registered(o)
                            THEN posts[o] \cup {"disconnect"} ELSE posts[o]]

Aclose ==
    /\ stream' = FALSE /\ open' = FALSE /\ connected' = FALSE /\ tls' = FALSE
    /\ TellDisconnect

\* _run_operation's finally clause; the reader waits for a StartTLS.
End(o) ==
    /\ operations' = [operations EXCEPT ![msgid[o]] = Nobody]
    /\ posts' = [posts EXCEPT ![o] = {}]
    /\ MoveTo(o, "returned")
    /\ reader' = IF o \in StartTLS THEN "more" ELSE reader

-----------------------------------------------------------------------------
(* Writing one response: _respond, _send_anyio_write and _upgrade_to_tls.  *)

\* With a pending upgrade, whoever writes next takes it along.
Respond(w) ==
    /\ tls' = FALSE
    /\ at' = [at EXCEPT ![w] = IF tls THEN "tlslock" ELSE "lock"]
    /\ writers' = Append(writers, w)

\* What the writer does once its await returns, or raises.
SendReturns(w) ==
    IF w = Reader
    THEN /\ reader' = IF reader = "canceling" THEN "replying" ELSE "more"
         /\ UNCHANGED <<operations, posts, pc>>
    ELSE IF pc[w] = "fail" THEN End(w)
    ELSE /\ MoveTo(w, IF pc[w] = "final" THEN "answered" ELSE "app")
         /\ UNCHANGED <<operations, posts, reader>>

SendRaises(w) ==
    IF w = Reader THEN reader' = "raised" /\ UNCHANGED pc
    ELSE MoveTo(w, IF pc[w] = "fail" THEN "broken" ELSE "raised") /\ UNCHANGED reader

HasTurn(w) == ~Busy /\ writers # <<>> /\ writers[1] = w

Leave(w) ==
    /\ at' = [at EXCEPT ![w] = "out"]
    /\ writers' = Tail(writers)

\* Under the lock, with no connection any more: nothing is written, which a
\* write does not report and an upgrade does.
BeginWrite(w) ==
    /\ HasTurn(w) /\ at[w] \in {"lock", "tlslock"}
    /\ IF stream
       THEN /\ at' = [at EXCEPT ![w] = IF @ = "lock" THEN "sending" ELSE "tlssending"]
            /\ UNCHANGED <<taskVars, writers>>
       ELSE /\ Leave(w)
            /\ IF at[w] = "lock" THEN SendReturns(w)
               ELSE SendRaises(w) /\ UNCHANGED <<operations, posts>>
    /\ UNCHANGED <<connVars, markVars, envVars>>

Deliver(w) ==
    LET answered == IF w \in Ops THEN w
                    ELSE IF reader = "canceling" THEN owed
                    ELSE current
    IN IF w \in Ops /\ pc[w] = "entry"
       THEN entries' = [entries EXCEPT ![w] = @ + 1] /\ UNCHANGED finals
       ELSE finals' = [finals EXCEPT ![answered] = @ + 1] /\ UNCHANGED entries

CountLate(w) ==
    late' = IF w \in abandoned THEN [late EXCEPT ![w] = @ + 1] ELSE late

Write(w) ==
    /\ HasTurn(w) /\ at[w] = "sending" /\ open
    /\ Deliver(w) /\ CountLate(w)
    /\ Leave(w) /\ SendReturns(w)
    /\ UNCHANGED <<connVars, markVars, closer, clientVars>>

\* A write that fails closes the connection, still under the lock.
WriteBroken(w) ==
    /\ HasTurn(w) /\ at[w] = "sending" /\ ~(open /\ peer)
    /\ Aclose
    /\ at' = [at EXCEPT ![w] = "closing"]
    /\ UNCHANGED <<operations, pc, reader, markVars, writers, envVars>>

WriteClosed(w) ==
    /\ HasTurn(w) /\ at[w] = "closing"
    /\ Leave(w) /\ SendReturns(w)
    /\ UNCHANGED <<connVars, markVars, envVars>>

UpgradeSends(w) ==
    /\ HasTurn(w) /\ at[w] = "tlssending" /\ open
    /\ Deliver(w) /\ CountLate(w)
    /\ at' = [at EXCEPT ![w] = "shaking"]
    /\ UNCHANGED <<connVars, taskVars, markVars, writers, closer, clientVars>>

\* The client shakes hands once it has been answered that it may.
HandshakeDone(w) ==
    /\ HasTurn(w) /\ at[w] = "shaking" /\ open /\ peer
    /\ \E s \in StartTLS : finals[s] > 0
    /\ Leave(w) /\ SendReturns(w)
    /\ UNCHANGED <<connVars, markVars, envVars>>

\* Mutant of UpgradeFails: the lock is not given up.
UpgradeFailsHolding(w) ==
    /\ HasTurn(w) /\ at[w] \in {"tlssending", "shaking"}
    /\ at[w] = "tlssending" => ~(open /\ peer)
    /\ at' = [at EXCEPT ![w] = "out"] /\ UNCHANGED writers
    /\ SendRaises(w)
    /\ UNCHANGED <<connVars, operations, posts, markVars, envVars>>

\* A response that cannot be written, or a handshake that fails.
UpgradeFails(w) ==
    /\ HasTurn(w) /\ at[w] \in {"tlssending", "shaking"}
    /\ at[w] = "tlssending" => ~(open /\ peer)
    /\ Leave(w) /\ SendRaises(w)
    /\ UNCHANGED <<connVars, operations, posts, markVars, envVars>>

\* The failure of a StartTLS is answered by the reader's own task.  When a
\* broken stream stops that answer, it leaves the StartTLS and the reader, which
\* takes it for the end of the connection.
UpgradeEndsReader(s) ==
    /\ HasTurn(s) /\ pc[s] = "fail" /\ at[s] \in {"tlssending", "shaking"}
    /\ at[s] = "tlssending" => ~(open /\ peer)
    /\ Leave(s)
    /\ operations' = [operations EXCEPT ![msgid[s]] = Nobody]
    /\ posts' = [posts EXCEPT ![s] = {}]
    /\ MoveTo(s, "returned")
    /\ reader' = IF connected THEN "closing" ELSE "ended"
    /\ stream' = FALSE /\ open' = FALSE
    /\ UNCHANGED <<connected, tls, markVars, envVars>>

-----------------------------------------------------------------------------
(* What an application does, and what becomes of it.                       *)

AppReceives(o) ==
    /\ ~Busy /\ o \in Listening \ told /\ pc[o] = "app"
    /\ MoveTo(o, "receiving")
    /\ UNCHANGED <<connVars, operations, posts, reader, markVars, lockVars, envVars>>

\* _Operation.post: an event is handed over once it is asked for.
Post(o) ==
    /\ ~Busy /\ pc[o] = "receiving"
    /\ \E event \in posts[o] : posts' = [posts EXCEPT ![o] = @ \ {event}]
    /\ told' = told \cup {o}
    /\ MoveTo(o, "app")
    /\ UNCHANGED <<connVars, operations, reader, abandoned, msgid, owed, current, lockVars,
                   envVars>>

\* _send_event's first two checks.
Refused(o) == o \in abandoned \/ ~stream

AppSends(o) ==
    /\ ~Busy /\ o \notin Unbinds /\ pc[o] \in {"app", "asked"}
    /\ \E kind \in {"entry", "final"} :
         /\ kind = "entry" => entries[o] < MaxEntries /\ pc[o] = "app" /\ o \notin StartTLS
         /\ IF Refused(o)
            THEN MoveTo(o, "refused") /\ UNCHANGED <<tls, lockVars>>
            ELSE MoveTo(o, kind) /\ Respond(o)
    /\ UNCHANGED <<stream, connected, open, operations, posts, reader, markVars, envVars>>

\* The event that asks for TLS once the next response is out.
AppAsksTLS(o) ==
    /\ ~Busy /\ o \in StartTLS /\ pc[o] = "app"
    /\ MoveTo(o, IF Refused(o) THEN "refused" ELSE "asked")
    /\ tls' = (tls \/ ~Refused(o))
    /\ UNCHANGED <<stream, connected, open, operations, posts, reader, markVars, lockVars,
                   envVars>>

\* The event that closes the connection, which an unbind is answered with.
AppCloses(o) ==
    /\ ~Busy /\ o \in Unbinds /\ pc[o] = "app"
    /\ MoveTo(o, IF Refused(o) THEN "refused" ELSE "answered")
    /\ closer' = IF closer = "none" /\ ~Refused(o) THEN "started" ELSE closer
    /\ UNCHANGED <<connVars, operations, posts, reader, markVars, lockVars, clientVars,
                   wireVars>>

Close ==
    /\ ~Busy /\ closer = "started"
    /\ closer' = "done"
    /\ Aclose
    /\ UNCHANGED <<operations, pc, reader, markVars, lockVars, clientVars, wireVars>>

AppRaises(o) ==
    /\ ~Busy /\ o \in Raising /\ pc[o] \in {"app", "asked"}
    /\ MoveTo(o, "raised")
    /\ UNCHANGED <<connVars, operations, posts, reader, markVars, lockVars, envVars>>

\* _fail answers for an application that raised, if an answer is owed.
Fail(o) ==
    /\ pc[o] = "raised"
    /\ IF o \in Unbinds \/ Refused(o)
       THEN End(o) /\ UNCHANGED <<tls, lockVars>>
       ELSE /\ MoveTo(o, "fail") /\ Respond(o)
            /\ UNCHANGED <<operations, posts, reader>>
    /\ UNCHANGED <<stream, connected, open, markVars, envVars>>

AppReturns(o) ==
    /\ ~Busy /\ (pc[o] \in {"answered", "refused"} \/ (pc[o] = "app" /\ o \in told))
    /\ End(o)
    /\ UNCHANGED <<connVars, markVars, lockVars, envVars>>

-----------------------------------------------------------------------------
(* The reader: data_received_async, handle_async, abandon and cancel.      *)

\* The next request: decoded from what was received, or received first.
HasRequest ==
    \/ reader = "more"
    \/ ~Busy /\ reader = "idle" /\ open /\ peer

\* The client numbers its requests upwards; an id whose request it has been
\* given a final answer to it may use again.
Numbered(i) == {o \in Ops : msgid[o] = i}

Usable(i) ==
    IF Numbered(i) = {}
    THEN \A j \in 1..(i - 1) : Numbered(j) # {}
    ELSE Reuse /\ \A o \in Numbered(i) : finals[o] > 0

\* An operation is registered before its task runs.  There is no task group
\* to run it in once the connection has been lost.
HandleRequest(o, i) ==
    /\ HasRequest /\ pc[o] = "absent" /\ Usable(i)
    /\ IF connected
       THEN /\ operations' = [operations EXCEPT ![i] = o]
            /\ msgid' = [msgid EXCEPT ![o] = i]
            /\ MoveTo(o, "app")
            /\ reader' = IF o \in StartTLS THEN "inline" ELSE "more"
       ELSE reader' = "raised" /\ UNCHANGED <<operations, pc, msgid>>
    /\ UNCHANGED <<connVars, posts, abandoned, told, owed, current, lockVars, envVars>>

\* Mutant of Abandon: the operation is not marked as given up.
AbandonUnmarked(i) ==
    /\ operations' = [operations EXCEPT ![i] = Nobody]
    /\ posts' = [o \in Ops |-> IF connected /\ o = operations[i]
                               THEN posts[o] \cup {"abandon"} ELSE posts[o]]
    /\ UNCHANGED abandoned

\* abandon: what ends is the message id, not the work.
Abandon(i) ==
    /\ operations' = [operations EXCEPT ![i] = Nobody]
    /\ abandoned' = abandoned \cup ({operations[i]} \ {Nobody})
    /\ posts' = [o \in Ops |-> IF connected /\ o = operations[i]
                               THEN posts[o] \cup {"abandon"} ELSE posts[o]]

HandleAbandon(i) ==
    /\ HasRequest /\ operations[i] # Nobody
    /\ Abandon(i)
    /\ unwanted' = unwanted \cup {operations[i]}
    /\ reader' = "more"
    /\ UNCHANGED <<connVars, pc, msgid, told, owed, current, lockVars, closer, peer, wireVars>>

\* Mutant of Cancel: only the Cancel is answered.
CancelUnanswered(i) ==
    /\ Abandon(i)
    /\ owed' = operations[i]
    /\ reader' = "replying"
    /\ UNCHANGED <<tls, lockVars>>

\* cancel, up to its await: an operation that is stopped is answered first.
\* Without a connection there is no lock, and nothing to wait for.
Cancel(i) ==
    /\ Abandon(i)
    /\ owed' = operations[i]
    /\ IF operations[i] # Nobody /\ connected
       THEN reader' = "canceling" /\ Respond(Reader)
       ELSE reader' = "replying" /\ UNCHANGED <<tls, lockVars>>

HandleCancel(c, i) ==
    /\ HasRequest /\ current # c /\ finals[c] = 0
    /\ Numbered(i) # {}
    /\ IF connected
       THEN Cancel(i) /\ current' = c
       ELSE /\ reader' = "raised"
            /\ UNCHANGED <<tls, operations, posts, abandoned, owed, current, lockVars>>
    /\ UNCHANGED <<stream, connected, open, pc, msgid, told, envVars>>

\* The answer of the Cancel itself.
Reply ==
    /\ reader = "replying" /\ at[Reader] = "out"
    /\ IF connected
       THEN Respond(Reader) /\ UNCHANGED reader
       ELSE reader' = "more" /\ UNCHANGED <<tls, lockVars>>
    /\ UNCHANGED <<stream, connected, open, operations, posts, pc, markVars, envVars>>

\* Nothing whole is left of what was received.
ReadOn ==
    /\ reader = "more"
    /\ reader' = "idle"
    /\ UNCHANGED <<connVars, operations, posts, pc, markVars, lockVars, envVars>>

\* _read_from_stream's finally clause, up to its await and after it.
ReaderEnds ==
    /\ ~Busy /\ reader = "idle" /\ ~(open /\ peer)
    /\ reader' = IF connected THEN "closing" ELSE "ended"
    /\ stream' = FALSE /\ open' = FALSE
    /\ UNCHANGED <<connected, tls, operations, posts, pc, markVars, lockVars, envVars>>

ReaderLoses ==
    /\ ~Busy /\ reader = "closing"
    /\ reader' = "ended"
    /\ Aclose
    /\ UNCHANGED <<operations, pc, markVars, lockVars, envVars>>

\* An exception that leaves a task of the connection's task group cancels
\* every other: serve_stream ends, and its finally clause closes the stream.
Crash ==
    /\ reader = "raised" \/ \E o \in Ops : pc[o] = "broken"
    /\ stream' = FALSE /\ open' = FALSE /\ connected' = FALSE /\ tls' = FALSE
    /\ operations' = [i \in Ids |-> Nobody]
    /\ posts' = [o \in Ops |-> {}]
    /\ pc' = [o \in Ops |-> IF pc[o] \in Live THEN "cancelled" ELSE pc[o]]
    /\ reader' = "crashed" /\ closer' = "done"
    /\ at' = [w \in Writers |-> "out"] /\ writers' = <<>>
    /\ UNCHANGED <<markVars, clientVars, wireVars>>

PeerCloses ==
    /\ peer /\ peer' = FALSE
    /\ UNCHANGED <<connVars, taskVars, markVars, lockVars, closer, unwanted, wireVars>>

-----------------------------------------------------------------------------
\* What the event loop runs of its own accord.
WriteProgress(w) ==
    \/ BeginWrite(w) \/ Write(w) \/ WriteBroken(w) \/ WriteClosed(w)
    \/ UpgradeSends(w) \/ HandshakeDone(w)

ServerProgress == Reply \/ ReadOn \/ ReaderEnds \/ ReaderLoses \/ Close \/ Crash

AppProgress(o) == AppSends(o) \/ AppReturns(o) \/ AppCloses(o) \/ AppAsksTLS(o)

Next ==
    \/ \E w \in Writers : WriteProgress(w) \/ UpgradeFails(w)
    \/ \E s \in StartTLS : UpgradeEndsReader(s)
    \/ ServerProgress
    \/ \E o \in Ops : AppProgress(o) \/ AppReceives(o) \/ AppRaises(o) \/ Fail(o) \/ Post(o)
    \/ \E o \in Ops, i \in Ids : HandleRequest(o, i)
    \/ \E i \in Ids : HandleAbandon(i)
    \/ \E c \in Cancels, i \in Ids : HandleCancel(c, i)
    \/ PeerCloses

\* Tasks that can run are run, and a handshake with a client that has gone
\* fails.  An application may take for ever, but for one that is asked for
\* StartTLS: the reader waits for that one.
Fairness ==
    /\ \A w \in Writers : /\ WF_vars(WriteProgress(w))
                          /\ WF_vars(~(open /\ peer) /\ UpgradeFails(w))
    /\ WF_vars(ServerProgress)
    /\ \A o \in Ops : WF_vars(Fail(o)) /\ WF_vars(Post(o))
    /\ \A s \in StartTLS : WF_vars(AppProgress(s))

Spec == Init /\ [][Next]_vars
FairSpec == Spec /\ Fairness

-----------------------------------------------------------------------------
\* The types of the state, which Answered has with it.
TypeOK ==
    /\ stream \in BOOLEAN /\ connected \in BOOLEAN /\ open \in BOOLEAN /\ tls \in BOOLEAN
    /\ stream => connected /\ open
    /\ operations \in [Ids -> Ops \cup {Nobody}]
    /\ abandoned \subseteq Ops /\ told \subseteq Ops
    /\ posts \in [Ops -> SUBSET {"abandon", "disconnect"}]
    /\ msgid \in [Ops -> 0..MaxId]
    /\ pc \in [Ops -> {"absent", "returned", "cancelled"} \cup Live]
    /\ reader \in {"idle", "more", "inline", "canceling", "replying", "closing", "ended",
                   "raised", "crashed"}
    /\ owed \in Ops \cup {Nobody} /\ current \in Cancels \cup {Nobody}
    /\ at \in [Writers -> {"out", "lock", "tlslock", "sending", "tlssending", "shaking",
                           "closing"}]
    /\ writers \in Seq(Writers)
    /\ closer \in {"none", "started", "done"} /\ peer \in BOOLEAN /\ unwanted \subseteq abandoned
    /\ entries \in [Ops -> 0..MaxEntries]
    /\ finals \in [Requests -> Nat] /\ late \in [Ops -> Nat]

\* "Registered before the task runs, so an abandon that arrives first still
\* finds it" (handle_async): an operation that has been neither answered nor
\* given up is the one its message id finds, so that an abandon, a cancel and
\* the loss of the connection reach it.
Reachable ==
    \A o \in Ops :
        pc[o] \in Live /\ o \notin abandoned /\ finals[o] = 0 => operations[msgid[o]] = o

\* Nobody is left waiting: an operation whose application is done with it,
\* and that was not abandoned, has been answered, by the application, by
\* _fail or by a Cancel, or the connection is going, or the reader has
\* the answer in hand.
Answered ==
    /\ TypeOK
    /\ \A o \in Ordinary \cup StartTLS :
           pc[o] = "returned" /\ o \notin unwanted =>
               \/ finals[o] > 0
               \/ ~stream
               \/ reader = "canceling" /\ owed = o

\* No longer one this connection will write for (abandon): at most the one
\* message that was on its way through the lock is written for it still.
LateWritesAreOver == \A o \in Ops : late[o] <= 1

\* RFC 3909 and RFC 4511, as the cookbook reads them: a request is answered
\* once, whether by its application or by the Cancel that stopped it.
OneFinalAnswer == \A r \in Requests : finals[r] <= 1

\* What holds of that without StartTLS: only an operation that a Cancel has
\* stopped has a second final answer, the Cancel's (cancel), and never a third.
OnceUnlessCancelled ==
    \A r \in Requests : finals[r] <= IF r \in abandoned \ unwanted THEN 2 ELSE 1

\* "Nothing here cancels an application" (ApplicationServer).
NothingCancels == \A o \in Ops : pc[o] # "cancelled"

\* An application that waits for an event is handed one when its operation
\* is given up or the connection is lost.
ReceiverIsTold ==
    \A o \in Ops : (pc[o] = "receiving" /\ (o \in abandoned \/ ~connected)) ~> pc[o] # "receiving"

\* Whatever the reader is in the middle of (a Cancel waiting for the lock, a
\* StartTLS with its handshake) a client that has gone is noticed.
GoneIsNoticed == (~peer) ~> (~connected)
=============================================================================
