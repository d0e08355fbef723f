----------------------------- MODULE LDAPClient -----------------------------
(***************************************************************************)
(* protocols/ldap/ldapclient.py: one connection shared by many callers.    *)
(*                                                                         *)
(* Every caller registers its request in onwire, queues for the write      *)
(* lock, writes, and waits on a one-shot slot.  One background reader      *)
(* decodes what arrives and fills the slots; on the answer to StartTLS it  *)
(* swaps the stream for a TLS one under the same write lock.  Losing the   *)
(* connection fails whatever is left in onwire.                            *)
(*                                                                         *)
(* A call stands for its own request, so a call is also its message id.    *)
(* A step is what runs between two awaits.  The server, the handlers that  *)
(* callers pass in and the transport are the environment.                  *)
(***************************************************************************)
EXTENDS Naturals, Sequences

CONSTANTS
    Plain,        \* calls of send: answered once, no handler
    Multi,        \* calls of send_multiResponse: a handler sees each answer
    StartTLS,     \* calls of startTLS
    NoAnswer,     \* calls of send_noResponse: Unbind and Abandon
    Cancellable,  \* the calls whose caller may be cancelled while it waits
    MayClose,     \* whether the application may call aclose
    MaxEntries,   \* bound: partial answers the server sends to a Multi call
    Nobody,       \* no call: the free lock, no upgrade, message id 0
    Reader        \* the background reader, as a holder of the write lock

Calls == Plain \cup Multi \cup StartTLS \cup NoAnswer
Answered == Plain \cup Multi \cup StartTLS

ASSUME CallsAssumption ==
    /\ Plain \cap Multi = {} /\ Plain \cap StartTLS = {} /\ Multi \cap StartTLS = {}
    /\ NoAnswer \cap Answered = {}
    /\ Nobody \notin Calls /\ Reader \notin Calls /\ Nobody # Reader

ASSUME BoundAssumption == MaxEntries \in Nat

ASSUME ChoicesAssumption == MayClose \in BOOLEAN /\ Cancellable \subseteq Calls

VARIABLES
    connected,  \* self.connected
    stream,     \* self._anyio_stream: what it writes to, if anything
    lock,       \* self._anyio_write_lock: who holds it
    onwire,     \* self.onwire: the calls waiting for an answer
    slot,       \* the ResultSlot of each call
    upgrade,    \* self._tls_upgrade: the startTLS call it belongs to
    received,   \* the startTLS calls whose response_received is set
    errored,    \* the startTLS calls whose upgrade has an error
    told,       \* the startTLS calls whose upgrade's event is set
    pc,         \* where each call is
    wstream,    \* the local `stream` of a call inside _send_anyio_write
    rpc,        \* where the reader is
    rup,        \* the reader's local `tls_upgrade`
    cur,        \* the message whose handler the reader awaits
    buffer,     \* self.buffer, decoded
    died,       \* how the reader ended
    open,       \* whether this end has left its transport open
    wire,       \* messages on their way to the client
    asked,      \* the server's: requests it has and has not answered
    entries,    \* the server's: partial answers sent to each Multi call
    phase,      \* the server's: in the clear, expecting a handshake, in TLS
    peer        \* whether the server still holds the connection

callVars   == <<pc, wstream>>
tls == <<received, errored, told>>
stateVars  == <<connected, stream, onwire, slot, upgrade, tls>>
readerVars == <<rpc, rup, cur, buffer, died>>
netVars    == <<wire, asked, entries, phase, peer>>
vars == <<stateVars, lock, callVars, readerVars, open, netVars>>

Streams == {"none", "clear", "tls"}
Kinds == {"entry", "done", "refused", "notice"}
Message == [id : Calls \cup {Nobody}, kind : Kinds]
NoMessage == [id |-> Nobody, kind |-> "notice"]

Ended == {"returned", "failed", "cancelled"}
Active == {"locking", "writing", "waiting", "event"}

\* What runs without an await in between is one step: while the reader is in
\* the middle of one, no other task of the program moves.
Suspended == rpc \notin {"decode", "check"}

Init ==
    /\ connected = FALSE /\ stream = "none" /\ open = FALSE
    /\ lock = Nobody /\ onwire = {} /\ upgrade = Nobody
    /\ slot = [c \in Calls |-> "unset"]
    /\ received = {} /\ errored = {} /\ told = {}
    /\ pc = [c \in Calls |-> "idle"]
    /\ wstream = [c \in Calls |-> "none"]
    /\ rpc = "unattached" /\ rup = Nobody /\ cur = NoMessage
    /\ buffer = <<>> /\ died = "no"
    /\ wire = <<>> /\ asked = {} /\ phase = "clear" /\ peer = TRUE
    /\ entries = [c \in Multi |-> 0]

-----------------------------------------------------------------------------
(* Losing the connection.                                                  *)

\* Mutant of LoseConnection: a pending upgrade is dropped without being told.
LoseConnectionSilently ==
    /\ connected' = FALSE /\ stream' = "none"
    /\ upgrade' = Nobody
    /\ slot' = [c \in Calls |-> IF c \in onwire THEN "exception" ELSE slot[c]]
    /\ onwire' = {}
    /\ UNCHANGED tls

\* Mutant of LoseConnection: onwire is emptied and no slot is told.
LoseConnectionForgets ==
    /\ connected' = FALSE /\ stream' = "none"
    /\ upgrade' = Nobody
    /\ told' = told \cup ({upgrade} \ {Nobody})
    /\ UNCHANGED <<received, errored>>
    /\ onwire' = {}
    /\ UNCHANGED slot

\* connectionLost: set_exception on a slot that is set would raise and leave
\* the rest of onwire waiting; OneAnswerEach says that it never is.
LoseConnection ==
    /\ connected' = FALSE /\ stream' = "none"
    /\ upgrade' = Nobody
    /\ told' = told \cup ({upgrade} \ {Nobody})
    /\ UNCHANGED <<received, errored>>
    /\ slot' = [c \in Calls |-> IF c \in onwire THEN "exception" ELSE slot[c]]
    /\ onwire' = {}

\* aclose, up to its only await: that of the stream it has taken for itself.
CloseConnection ==
    /\ open' = (open /\ stream = "none")
    /\ IF connected
       THEN LoseConnection
       ELSE stream' = "none" /\ UNCHANGED <<connected, onwire, slot, upgrade, tls>>

Attach ==
    /\ rpc = "unattached"
    /\ connected' = TRUE /\ stream' = "clear" /\ open' = TRUE
    /\ rpc' = "receive"
    /\ UNCHANGED <<lock, onwire, slot, upgrade, tls, callVars, rup, cur, buffer, died, netVars>>

Close ==
    /\ MayClose /\ Suspended /\ stream # "none"
    /\ CloseConnection
    /\ UNCHANGED <<lock, callVars, readerVars, netVars>>

-----------------------------------------------------------------------------
(* The callers.                                                            *)

MoveTo(c, where) == pc' = [pc EXCEPT ![c] = where]

Refuse(c) ==
    /\ pc[c] = "idle" /\ Suspended
    /\ \/ ~connected
       \/ c \in StartTLS /\ onwire # {}
    /\ MoveTo(c, "failed")
    /\ UNCHANGED <<stateVars, lock, wstream, readerVars, open, netVars>>

\* _send_and_wait: registered before the first await, so that no answer can
\* find the call missing.
Send(c) ==
    /\ c \in Plain \cup Multi
    /\ pc[c] = "idle" /\ Suspended /\ connected
    /\ onwire' = onwire \cup {c}
    /\ MoveTo(c, "locking")
    /\ UNCHANGED <<connected, stream, slot, upgrade, tls, lock, wstream,
                   readerVars, open, netVars>>

\* Mutant of SendNoResponse: registered like a request that is answered.
SendNoResponseRegisters(c) ==
    /\ c \in NoAnswer
    /\ pc[c] = "idle" /\ Suspended /\ connected
    /\ onwire' = onwire \cup {c}
    /\ MoveTo(c, "locking")
    /\ UNCHANGED <<connected, stream, slot, upgrade, tls, lock, wstream,
                   readerVars, open, netVars>>

SendNoResponse(c) ==
    /\ c \in NoAnswer
    /\ pc[c] = "idle" /\ Suspended /\ connected
    /\ MoveTo(c, "locking")
    /\ UNCHANGED <<stateVars, lock, wstream, readerVars, open, netVars>>

BeginStartTLS(s) ==
    /\ s \in StartTLS
    /\ pc[s] = "idle" /\ Suspended /\ connected /\ onwire = {}
    /\ onwire' = {s}
    /\ upgrade' = s
    /\ MoveTo(s, "locking")
    /\ UNCHANGED <<connected, stream, slot, tls, lock, wstream, readerVars, open, netVars>>

\* _send_anyio_write once it has the lock: without a stream it raises.
Acquire(c) ==
    /\ pc[c] = "locking" /\ Suspended /\ lock = Nobody
    /\ IF stream = "none"
       THEN MoveTo(c, "failed") /\ UNCHANGED <<lock, wstream>>
       ELSE /\ lock' = c
            /\ wstream' = [wstream EXCEPT ![c] = stream]
            /\ MoveTo(c, "writing")
    /\ UNCHANGED <<stateVars, readerVars, open, netVars>>

\* The lock goes, and with it the local variables of the write.
WriteEnds(c, where) ==
    /\ lock' = Nobody
    /\ wstream' = [wstream EXCEPT ![c] = "none"]
    /\ MoveTo(c, where)

\* Bytes in the clear reach a server that awaits a handshake as garbage.
Transmit(c) ==
    IF ~peer \/ c \in NoAnswer
    THEN UNCHANGED netVars
    ELSE IF phase = "awaiting" /\ wstream[c] = "clear"
    THEN peer' = FALSE /\ UNCHANGED <<wire, asked, entries, phase>>
    ELSE asked' = asked \cup {c} /\ UNCHANGED <<wire, entries, phase, peer>>

Write(c) ==
    /\ pc[c] = "writing" /\ Suspended /\ open
    /\ Transmit(c)
    /\ WriteEnds(c, IF c \in NoAnswer THEN "returned" ELSE "waiting")
    /\ UNCHANGED <<stateVars, readerVars, open>>

\* A broken write closes the connection and raises nothing: the caller goes
\* on to wait on its slot, which connectionLost has failed.
WriteBroken(c) ==
    /\ pc[c] = "writing" /\ Suspended /\ ~(open /\ peer)
    /\ CloseConnection
    /\ WriteEnds(c, IF c \in NoAnswer THEN "returned" ELSE "waiting")
    /\ UNCHANGED <<readerVars, netVars>>

\* slot.wait() returns or raises what is in the slot.
Return(c) ==
    /\ pc[c] = "waiting" /\ Suspended /\ slot[c] # "unset"
    /\ MoveTo(c, IF slot[c] = "exception" THEN "failed"
                 ELSE IF c \in StartTLS THEN "event" ELSE "returned")
    /\ UNCHANGED <<stateVars, lock, wstream, readerVars, open, netVars>>

\* startTLS after `await event.wait()`.
EndStartTLS(s) ==
    /\ s \in StartTLS
    /\ pc[s] = "event" /\ Suspended /\ s \in told
    /\ upgrade' = Nobody
    /\ MoveTo(s, IF s \in errored THEN "failed" ELSE "returned")
    /\ UNCHANGED <<connected, stream, onwire, slot, tls, lock, wstream,
                   readerVars, open, netVars>>

\* The caller is cancelled: its entry stays in onwire, and its upgrade where
\* it is.  A write it was in may or may not have gone.
Cancel(c) ==
    /\ c \in Cancellable
    /\ pc[c] \in Active /\ Suspended
    /\ IF pc[c] = "writing"
       THEN WriteEnds(c, "cancelled") /\ (UNCHANGED netVars \/ (open /\ Transmit(c)))
       ELSE MoveTo(c, "cancelled") /\ UNCHANGED <<lock, wstream, netVars>>
    /\ UNCHANGED <<stateVars, readerVars, open>>

-----------------------------------------------------------------------------
(* The background reader.                                                  *)

\* Mutant of ReaderFinally: the reader ends without connectionLost.
ReaderFinallyForgets(why) ==
    /\ died' = why /\ rpc' = "stopped" /\ open' = FALSE /\ stream' = "none"
    /\ UNCHANGED <<connected, onwire, slot, upgrade, tls>>

\* The finally clause of _read_from_stream, up to `await closing.aclose()`.
ReaderFinally(why) ==
    /\ died' = why
    /\ stream' = IF connected THEN "none" ELSE stream
    /\ open' = (open /\ ~connected)
    /\ rpc' = IF connected THEN "closing" ELSE "stopped"
    /\ UNCHANGED <<connected, onwire, slot, upgrade, tls>>

ReaderClosed ==
    /\ rpc = "closing"
    /\ LoseConnection
    /\ rpc' = "stopped"
    /\ UNCHANGED <<lock, callVars, rup, cur, buffer, died, open, netVars>>

\* One receive yields one or more whole messages; a partial one only waits
\* in the buffer for the rest.
Receive ==
    /\ rpc = "receive" /\ open /\ wire # <<>>
    /\ \E n \in 1..Len(wire) :
         /\ buffer' = buffer \o SubSeq(wire, 1, n)
         /\ wire' = SubSeq(wire, n + 1, Len(wire))
    /\ rup' = upgrade
    /\ rpc' = "decode"
    /\ UNCHANGED <<stateVars, lock, callVars, cur, died, open, asked, entries, phase, peer>>

ReceiveEnds ==
    /\ rpc = "receive" /\ (~open \/ (wire = <<>> /\ ~peer))
    /\ ReaderFinally("ended")
    /\ UNCHANGED <<lock, callVars, rup, cur, buffer, netVars>>

\* dataReceived_async goes on until the buffer is empty; with an upgrade
\* under way the reader decodes one message and then looks at the upgrade.
AfterMessage == IF rup = Nobody THEN "decode" ELSE "check"

DecodeEnds ==
    /\ rpc = "decode" /\ buffer = <<>>
    /\ rpc' = "receive"
    /\ UNCHANGED <<stateVars, lock, callVars, rup, cur, buffer, died, open, netVars>>

\* handle of message id 0.
HandleNotice ==
    /\ rpc = "decode" /\ buffer # <<>> /\ Head(buffer).id = Nobody
    /\ buffer' = Tail(buffer)
    /\ rpc' = AfterMessage
    /\ UNCHANGED <<stateVars, lock, callVars, rup, cur, died, open, netVars>>

\* handle of an answer nobody waits for: a KeyError, which ends the reader.
HandleUnknown ==
    /\ rpc = "decode" /\ buffer # <<>>
    /\ Head(buffer).id # Nobody /\ Head(buffer).id \notin onwire
    /\ buffer' = Tail(buffer)
    /\ ReaderFinally("KeyError")
    /\ UNCHANGED <<lock, callVars, rup, cur, netVars>>

\* Mutant of Answer: the slot is set and the entry stays in onwire.
AnswerKeepingEntry(c) == slot' = [slot EXCEPT ![c] = "value"] /\ onwire' = onwire

\* slot.set_value and `del self.onwire[msg.id]`.
Answer(c) == slot' = [slot EXCEPT ![c] = "value"] /\ onwire' = onwire \ {c}

\* handle of the answer to a call without a handler.
HandlePlain ==
    /\ rpc = "decode" /\ buffer # <<>>
    /\ LET m == Head(buffer) IN
         /\ m.id \in onwire \ Multi
         /\ IF m.id = upgrade
            THEN /\ received' = received \cup {m.id}
                 /\ errored' = IF m.kind = "refused" THEN errored \cup {m.id} ELSE errored
            ELSE UNCHANGED <<received, errored>>
         /\ Answer(m.id)
    /\ buffer' = Tail(buffer)
    /\ rpc' = AfterMessage
    /\ UNCHANGED <<connected, stream, upgrade, told, lock, callVars, rup, cur, died, open, netVars>>

\* handle of an answer to a call with a handler, up to the handler's await.
HandleMulti ==
    /\ rpc = "decode" /\ buffer # <<>> /\ Head(buffer).id \in onwire \cap Multi
    /\ cur' = Head(buffer)
    /\ buffer' = Tail(buffer)
    /\ rpc' = "handler"
    /\ UNCHANGED <<stateVars, lock, callVars, rup, died, open, netVars>>

\* The handler is back.  It claims the final answer and no other; if the
\* connection went while it ran, the slot is set already and set_value raises.
HandlerReturns ==
    /\ rpc = "handler"
    /\ cur' = NoMessage
    /\ IF cur.kind = "entry"
       THEN rpc' = AfterMessage /\ UNCHANGED <<stateVars, died, open>>
       ELSE IF slot[cur.id] = "unset"
       THEN /\ Answer(cur.id) /\ rpc' = AfterMessage
            /\ UNCHANGED <<connected, stream, upgrade, tls, died, open>>
       ELSE ReaderFinally("RuntimeError")
    /\ UNCHANGED <<lock, callVars, rup, buffer, netVars>>

HandlerRaises ==
    /\ rpc = "handler"
    /\ cur' = NoMessage
    /\ ReaderFinally("handler")
    /\ UNCHANGED <<lock, callVars, rup, buffer, netVars>>

\* The end of the upgrade: the event is set, and a stream must be left.
UpgradeEnds(failed, left) ==
    /\ told' = told \cup {rup}
    /\ errored' = IF failed THEN errored \cup {rup} ELSE errored
    /\ UNCHANGED received
    /\ rup' = Nobody
    /\ IF left # "none"
       THEN rpc' = "receive" /\ stream' = left /\ UNCHANGED <<connected, died, open>>
       ELSE /\ rpc' = IF connected THEN "closing" ELSE "stopped"
            /\ died' = "AssertionError"
            /\ UNCHANGED <<connected, stream, open>>

\* After a message read with an upgrade in hand: go on, end the upgrade that
\* the server refused, or that finds the lock gone, or start the handshake.
CheckUpgrade ==
    /\ rpc = "check"
    /\ \/ /\ rup \notin received
          /\ rpc' = "receive" /\ rup' = Nobody
          /\ UNCHANGED <<connected, stream, tls, died, open>>
       \/ /\ rup \in received /\ (rup \in errored \/ ~connected)
          /\ UpgradeEnds(~connected, stream)
       \/ /\ rup \in received /\ rup \notin errored /\ connected
          /\ rpc' = "locking" /\ UNCHANGED <<connected, stream, tls, rup, died, open>>
    /\ UNCHANGED <<onwire, slot, upgrade, lock, callVars, cur, buffer, netVars>>

\* Mutant of LockFree: the upgrade does not wait for the write under way.
LockIgnored(who) == who = Reader \/ lock = Nobody

LockFree(who) == lock = Nobody

\* _upgrade_to_tls once it has the write lock.
BeginHandshake ==
    /\ rpc = "locking" /\ LockFree(Reader)
    /\ IF stream = "none"
       THEN UpgradeEnds(TRUE, "none") /\ UNCHANGED lock
       ELSE lock' = Reader /\ rpc' = "handshake"
            /\ UNCHANGED <<connected, stream, tls, rup, died, open>>
    /\ UNCHANGED <<onwire, slot, upgrade, callVars, cur, buffer, netVars>>

\* What is left in the buffer is fed to the handshake, which needs none of it.
HandshakeDone ==
    /\ rpc = "handshake"
    /\ open /\ peer /\ phase = "awaiting" /\ buffer = <<>>
    /\ phase' = "tls"
    /\ UpgradeEnds(FALSE, "tls")
    /\ lock' = Nobody
    /\ UNCHANGED <<onwire, slot, upgrade, callVars, cur, buffer, wire, asked, entries, peer>>

\* The handshake fails: the connection is left with the stream it had.
HandshakeFails ==
    /\ rpc = "handshake"
    /\ UpgradeEnds(TRUE, stream)
    /\ lock' = Nobody
    /\ UNCHANGED <<onwire, slot, upgrade, callVars, cur, buffer, netVars>>

-----------------------------------------------------------------------------
(* The server: it answers what it was asked, each request once, in any     *)
(* order; having accepted StartTLS it says nothing until the handshake.    *)

ServerSends(c, kind) == wire' = Append(wire, [id |-> c, kind |-> kind])

ServerAnswers(c) ==
    /\ peer /\ Suspended /\ phase # "awaiting" /\ c \in asked
    /\ \/ c \notin StartTLS /\ ServerSends(c, "done") /\ UNCHANGED phase
       \/ c \in StartTLS /\ ServerSends(c, "refused") /\ UNCHANGED phase
       \/ c \in StartTLS /\ phase = "clear" /\ ServerSends(c, "done") /\ phase' = "awaiting"
    /\ asked' = asked \ {c}
    /\ UNCHANGED <<stateVars, lock, callVars, readerVars, open, entries, peer>>

ServerSendsEntry(c) ==
    /\ peer /\ Suspended /\ phase # "awaiting" /\ c \in asked \cap Multi
    /\ entries[c] < MaxEntries
    /\ entries' = [entries EXCEPT ![c] = @ + 1]
    /\ ServerSends(c, "entry")
    /\ UNCHANGED <<stateVars, lock, callVars, readerVars, open, asked, phase, peer>>

\* The server goes, with or without a Notice of Disconnection.
PeerCloses ==
    /\ peer /\ Suspended
    /\ peer' = FALSE
    /\ UNCHANGED wire \/ (phase # "awaiting" /\ ServerSends(Nobody, "notice"))
    /\ UNCHANGED <<stateVars, lock, callVars, readerVars, open, asked, entries, phase>>

-----------------------------------------------------------------------------
CallStep(c) ==
    \/ Refuse(c) \/ Send(c) \/ SendNoResponse(c) \/ BeginStartTLS(c)
    \/ Acquire(c) \/ Write(c) \/ WriteBroken(c) \/ Return(c) \/ EndStartTLS(c)

ReaderStep ==
    \/ Receive \/ ReceiveEnds \/ DecodeEnds
    \/ HandleNotice \/ HandleUnknown \/ HandlePlain \/ HandleMulti
    \/ HandlerReturns \/ HandlerRaises
    \/ CheckUpgrade \/ BeginHandshake \/ HandshakeDone \/ HandshakeFails
    \/ ReaderClosed

ServerStep ==
    \/ PeerCloses
    \/ \E c \in Calls : ServerAnswers(c)
    \/ \E c \in Multi : ServerSendsEntry(c)

Next ==
    \/ Attach \/ Close
    \/ \E c \in Calls : CallStep(c) \/ Cancel(c)
    \/ ReaderStep
    \/ ServerStep

\* The event loop runs every task that can run, and the lock is a queue; the
\* server owes nothing, neither an answer nor an end to a handshake it began.
Progress(c) == Acquire(c) \/ Write(c) \/ WriteBroken(c) \/ Return(c) \/ EndStartTLS(c)

Fairness ==
    /\ \A c \in Calls : WF_vars(Progress(c))
    /\ WF_vars(ReaderStep)

Spec == Init /\ [][Next]_vars
FairSpec == Spec /\ Fairness

-----------------------------------------------------------------------------
ConnectionType ==
    /\ connected \in BOOLEAN /\ open \in BOOLEAN
    /\ stream \in Streams
    /\ lock \in Calls \cup {Nobody, Reader}
    /\ onwire \subseteq Answered
    /\ slot \in [Calls -> {"unset", "value", "exception"}]

UpgradeType ==
    /\ upgrade \in StartTLS \cup {Nobody}
    /\ received \subseteq StartTLS /\ errored \subseteq StartTLS /\ told \subseteq StartTLS

CallType ==
    /\ pc \in [Calls -> {"idle"} \cup Active \cup Ended]
    /\ wstream \in [Calls -> Streams]

ReaderType ==
    /\ rpc \in {"unattached", "receive", "decode", "handler", "check",
                "locking", "handshake", "closing", "stopped"}
    /\ rup \in StartTLS \cup {Nobody}
    /\ (rpc \in {"check", "locking", "handshake"} => rup \in StartTLS)
    /\ cur \in Message
    /\ buffer \in Seq(Message)
    /\ died \in {"no", "ended", "KeyError", "RuntimeError", "AssertionError", "handler"}

ServerType ==
    /\ wire \in Seq(Message)
    /\ asked \subseteq Answered
    /\ entries \in [Multi -> 0..MaxEntries]
    /\ phase \in {"clear", "awaiting", "tls"}
    /\ peer \in BOOLEAN

TypeOK == ConnectionType /\ UpgradeType /\ CallType /\ ReaderType /\ ServerType

\* A slot is set by whichever comes first, the answer or the loss of the
\* connection (ldapclient.py handle and connectionLost): an entry of onwire
\* is one whose slot is unset, on a connection that is up, so connectionLost
\* never trips over a slot half way through failing the others.
OneAnswerEach == \A c \in onwire : slot[c] = "unset" /\ connected

\* A caller that still waits for its answer is known to whoever must wake
\* it: it is in onwire, where an answer or connectionLost will find it.
AnswerWillCome ==
    \A c \in Calls : pc[c] = "waiting" /\ slot[c] = "unset" => c \in onwire

\* A startTLS call that still waits for the end of its upgrade is known too:
\* _tls_upgrade is its own, so that the reader or connectionLost will tell it.
UpgradeWillEnd ==
    \A s \in StartTLS : pc[s] = "event" /\ s \notin told => upgrade = s

\* No request goes out on a stream that the upgrade has replaced, and none
\* in the clear into the middle of a handshake (_upgrade_to_tls takes the
\* write lock for both).
WriteOnCurrentStream ==
    \A c \in Calls : pc[c] = "writing" =>
      /\ stream \in {"none", wstream[c]}
      /\ rpc # "handshake"

\* Once the server has gone, every call that was under way comes to an end,
\* wherever it was: in the queue for the lock, in a write, on its slot, or
\* on the event of an upgrade.
PeerLossEndsCalls ==
    \A c \in Calls : (~peer /\ pc[c] \in Active) ~> (pc[c] \in Ended)
=============================================================================
