----------------------------- MODULE Reconnect ------------------------------
(***************************************************************************)
(* ldap/ldapobject.py, ReconnectLDAPObject: a connection that is opened    *)
(* again when the server goes away, raised to TLS and bound as it was, and *)
(* asked again what had failed.                                            *)
(*                                                                         *)
(* What an operation does to its connection is an exchange: it connects if *)
(* nothing is open, asks, and waits for the answer.  A reconnection makes  *)
(* one for StartTLS and one for the bind before the operation makes its    *)
(* own.  How an exchange reads and writes is module LDAPObject.            *)
(***************************************************************************)
EXTENDS Naturals, FiniteSets

CONSTANTS
    Tasks,      \* tasks of the program that share the connection
    RetryMax,   \* retry_max
    MaxConns,   \* bound: connections the server accepts
    MaxCalls,   \* bound: operations of the program
    Interrupts  \* whether a caller may be cancelled while it reconnects

ASSUME ReconnectAssumption ==
    RetryMax \in Nat /\ MaxConns \in Nat /\ MaxCalls \in Nat /\ Interrupts \in BOOLEAN

VARIABLES
    stream,     \* self._stream, 0 for None
    unbound,    \* self._unbound
    lastBind,   \* whether self._last_bind is set
    startTLS,   \* self._start_tls
    retrying,   \* self._retrying
    task,       \* what each task is at, and how often the server has done its operation
    conns,      \* each connection: whether it is up, over TLS, bound, whether the
                \* server has refused a bind of the program on it, whether an
                \* operation opened it for itself once StartTLS had been asked for,
                \* and whether a reconnection has left it in a failed handshake
    calls,      \* operations begun
    crossed     \* whether an operation has begun while another was retrying; bound:
                \* no more are begun then

object == <<stream, unbound, lastBind, startTLS, retrying>>
vars == <<object, task, conns, calls, crossed>>

Conns == DOMAIN conns
Calls == {"bind", "tls", "modify"}
Idle(outcome) == [at |-> "idle", call |-> outcome, doing |-> "call", again |-> FALSE,
                  plain |-> FALSE, counter |-> 0, conn |-> 0, said |-> "nothing", then |-> "end", times |-> 0]
Waiting == {"asked", "served"}
Active == {t \in Tasks : task[t].at # "idle"}
Rebuilding(r) == r.doing # "call" \/ r.at \in {"lock", "closing", "sleeping"}

Init ==
    /\ stream = 0 /\ unbound = FALSE /\ lastBind = FALSE /\ startTLS = FALSE /\ retrying = FALSE
    /\ task = [t \in Tasks |-> Idle("none")]
    /\ conns = <<>> /\ calls = 0 /\ crossed = FALSE

-----------------------------------------------------------------------------
(* The control of one task; each operator says where it goes from r.       *)

\* Up to the first await of an exchange.
Exchange(r, what, on) ==
    [r EXCEPT !.doing = what, !.at = IF on = 0 THEN "connecting" ELSE "asked", !.conn = on,
              !.said = "nothing", !.then = "end"]

\* Mutant of Rebuild: the bind only.
RebuildBind(r, on) == Exchange(r, "bind", on)

\* reconnect's loop: the options, StartTLS if it had been asked for, the bind.
Rebuild(r, on) == Exchange(r, IF startTLS THEN "tls" ELSE "bind", on)

Goes(t, r) == task' = [task EXCEPT ![t] = r]

\* _lost: whatever is pending fails.
GoesAndAllFail(t, r) ==
    task' = [u \in Tasks |-> IF u = t THEN r
                             ELSE IF task[u].at \in Waiting THEN [task[u] EXCEPT !.at = "down", !.conn = 0, !.said = "nothing"]
                             ELSE task[u]]

\* The operation is over; whoever set _retrying clears it.
Ends(t, outcome) ==
    /\ Goes(t, [Idle(outcome) EXCEPT !.times = IF outcome = "returned" THEN task[t].times ELSE 0])
    /\ retrying' = (retrying /\ task[t].plain)

\* What the program remembers of an operation that succeeded.
Remembers(call) ==
    /\ lastBind' = (lastBind \/ call = "bind")
    /\ startTLS' = (startTLS \/ call = "tls")

\* Of a connection that is closed nothing is left.
Fresh == [up |-> TRUE, tls |-> FALSE, bound |-> FALSE, fell |-> FALSE, bare |-> FALSE,
          left |-> FALSE]
Closes(g) == [conns EXCEPT ![g] = [Fresh EXCEPT !.up = FALSE]]

\* _apply_method_s, up to its first await.
Begin(t, call) ==
    /\ task[t].at = "idle" /\ calls < MaxCalls /\ ~crossed
    /\ calls' = calls + 1
    /\ retrying' = TRUE /\ crossed' = (crossed \/ retrying)
    /\ LET r == [Idle("none") EXCEPT !.call = call, !.plain = retrying]
       IN \/ /\ ~retrying /\ ~unbound /\ stream = 0 /\ lastBind
             /\ Goes(t, [r EXCEPT !.at = "lock"])
          \/ /\ retrying \/ (~unbound /\ (stream # 0 \/ ~lastBind))
             /\ ~unbound
             /\ Goes(t, Exchange(r, "call", stream))
    /\ UNCHANGED <<stream, unbound, lastBind, startTLS, conns>>

\* _connected: the connection was said goodbye to.
BeginUnbound(t) ==
    /\ task[t].at = "idle" /\ calls < MaxCalls /\ unbound /\ ~crossed
    /\ calls' = calls + 1
    /\ crossed' = (crossed \/ retrying)
    /\ Goes(t, Idle("none"))
    /\ UNCHANGED <<object, conns>>

\* reconnect, with the lock: a connection that is open is closed first when it
\* has failed, and left alone otherwise.
Locked(t) ==
    /\ task[t].at = "lock"
    /\ LET r == [task[t] EXCEPT !.counter = RetryMax]
       IN \/ /\ stream = 0 /\ unbound' = FALSE
             /\ Goes(t, Rebuild(r, 0))
             /\ UNCHANGED <<stream, conns>>
          \/ /\ stream # 0 /\ ~r.again
             /\ Goes(t, Exchange(r, "call", stream))
             /\ UNCHANGED <<stream, unbound, conns>>
          \/ /\ stream # 0 /\ r.again
             /\ stream' = 0 /\ unbound' = TRUE /\ conns' = Closes(stream)
             /\ GoesAndAllFail(t, [r EXCEPT !.at = "closing", !.conn = 0, !.said = "nothing", !.then = "rebuild"])
    /\ UNCHANGED <<lastBind, startTLS, retrying, calls, crossed>>

\* Mutant of CountedDown: a try is not counted.
NotCounted(counter) == counter

\* How many tries are left; 0 is what none of them ever comes back to.
CountedDown(counter) == IF counter = 0 THEN 0 ELSE counter - 1

\* Where a task goes once unbind_ext has returned.
After(t, then) ==
    CASE then = "rebuild" -> Goes(t, Rebuild(task[t], stream)) /\ UNCHANGED retrying
      [] then = "retry" -> Goes(t, [task[t] EXCEPT !.at = "sleeping", !.conn = 0, !.said = "nothing",
                                                   !.doing = "call", !.then = "end",
                                                   !.counter = CountedDown(@)])
                           /\ UNCHANGED retrying
      [] then = "raise" -> Ends(t, "none")

Closed(t) ==
    /\ task[t].at = "closing"
    /\ unbound' = FALSE
    /\ After(t, task[t].then)
    /\ UNCHANGED <<stream, lastBind, startTLS, conns, calls, crossed>>

Slept(t) ==
    /\ task[t].at = "sleeping"
    /\ After(t, "rebuild")
    /\ UNCHANGED <<stream, unbound, lastBind, startTLS, conns, calls, crossed>>

-----------------------------------------------------------------------------
(* What becomes of an exchange.                                            *)

Reconnectable == {"down", "unavailable", "timeout"}

\* Mutant of FailsCall: what has been tried again is tried again.
FailsCallAgain(t, why) ==
    /\ task[t].doing = "call"
    /\ IF why \in Reconnectable /\ ~task[t].plain
       THEN Goes(t, [Idle(task[t].call) EXCEPT !.at = "lock", !.again = TRUE, !.times = task[t].times]) /\ UNCHANGED retrying
       ELSE Ends(t, "none")
    /\ UNCHANGED <<stream, unbound, conns>>

\* _apply_method_s: an operation is tried once more, on another connection.
FailsCall(t, why) ==
    /\ task[t].doing = "call"
    /\ IF why \in Reconnectable /\ ~task[t].plain /\ ~task[t].again
       THEN Goes(t, [Idle(task[t].call) EXCEPT !.at = "lock", !.again = TRUE, !.times = task[t].times]) /\ UNCHANGED retrying
       ELSE Ends(t, "none")
    /\ UNCHANGED <<stream, unbound, conns>>

\* reconnect: the connection is closed; a server that is gone or silent is tried
\* again until the counter, which is counted down first, is 0.
FailsRebuild(t, why) ==
    /\ task[t].doing # "call"
    /\ LET then == IF why \in {"down", "timeout"} /\ (RetryMax = 0 \/ CountedDown(task[t].counter) # 0) THEN "retry" ELSE "raise"
       IN \/ /\ stream = 0 /\ After(t, then) /\ UNCHANGED <<stream, unbound, conns>>
          \/ /\ stream # 0
             /\ stream' = 0 /\ unbound' = TRUE /\ conns' = Closes(stream)
             /\ GoesAndAllFail(t, [task[t] EXCEPT !.at = "closing", !.conn = 0, !.said = "nothing", !.then = then])
             /\ UNCHANGED retrying

Fails(t, why) ==
    /\ FailsCall(t, why) \/ FailsRebuild(t, why)
    /\ UNCHANGED <<lastBind, startTLS, calls, crossed>>

\* _connected: whichever connection is made last is the one in use.
Connects(t) ==
    /\ task[t].at = "connecting" /\ Cardinality(Conns) < MaxConns
    /\ stream' = Cardinality(Conns) + 1
    /\ conns' = [g \in 1..stream' |->
                   IF g \in Conns THEN conns[g]
                   ELSE [Fresh EXCEPT !.bare = startTLS /\ task[t].doing = "call"]]
    /\ Goes(t, [task[t] EXCEPT !.at = "asked", !.conn = stream'])
    /\ UNCHANGED <<unbound, lastBind, startTLS, retrying, calls, crossed>>

CannotConnect(t) == task[t].at = "connecting" /\ Fails(t, "down")

\* _lost, by whoever reads or writes: all that is pending fails.
Lost ==
    /\ stream # 0 /\ ~conns[stream].up /\ \E t \in Tasks : task[t].at \in Waiting
    /\ stream' = 0
    /\ task' = [t \in Tasks |-> IF task[t].at \in Waiting THEN [task[t] EXCEPT !.at = "down", !.conn = 0, !.said = "nothing"]
                                ELSE task[t]]
    /\ UNCHANGED <<unbound, lastBind, startTLS, retrying, conns, calls, crossed>>

Down(t) == task[t].at = "down" /\ Fails(t, "down")

TimesOut(t) == task[t].at \in Waiting /\ Fails(t, "timeout")

Refused(t) ==
    /\ task[t].at = "served" /\ task[t].said \in {"refused", "unavailable"} /\ task[t].conn = stream
    /\ Fails(t, task[t].said)

\* The answer to the operation itself, or, after StartTLS, the handshake.
Succeeds(t) ==
    /\ task[t].at = "served" /\ task[t].said = "ok" /\ task[t].conn = stream
    /\ conns' = IF task[t].doing = "tls" \/ (task[t].doing = "call" /\ task[t].call = "tls")
                THEN [conns EXCEPT ![stream].tls = TRUE] ELSE conns
    /\ \/ /\ task[t].doing = "tls" /\ Goes(t, Exchange(task[t], "bind", stream))
          /\ UNCHANGED <<lastBind, startTLS, retrying>>
       \/ /\ task[t].doing = "bind" /\ Goes(t, Exchange(task[t], "call", stream))
          /\ UNCHANGED <<lastBind, startTLS, retrying>>
       \/ /\ task[t].doing = "call" /\ Ends(t, "returned") /\ Remembers(task[t].call)
    /\ UNCHANGED <<stream, unbound, calls, crossed>>

\* TLSStream.wrap raises what is no LDAPError: nothing is tried again and nothing
\* closed. The connection stays in the clear, and in use.
HandshakeFails(t) ==
    /\ task[t].at = "served" /\ task[t].said = "ok" /\ task[t].conn = stream
    /\ task[t].doing = "tls" \/ (task[t].doing = "call" /\ task[t].call = "tls")
    /\ Ends(t, "none")
    /\ conns' = [conns EXCEPT ![stream].left = @ \/ task[t].doing = "tls"]
    /\ UNCHANGED <<stream, unbound, lastBind, startTLS, calls, crossed>>

\* The caller is cancelled at an await.
Cancelled(t) ==
    /\ task[t].at # "idle" /\ (Interrupts \/ ~Rebuilding(task[t]))
    /\ Ends(t, "none")
    /\ UNCHANGED <<stream, unbound, lastBind, startTLS, conns, calls, crossed>>

-----------------------------------------------------------------------------
(* The server.                                                             *)

What(r) == IF r.doing = "call" THEN r.call ELSE r.doing

\* It does what it is asked, on a connection that is up, or refuses.
Serves(t, answer) ==
    LET r == task[t]
        g == r.conn
    IN /\ r.at = "asked" /\ conns[g].up
       /\ What(r) = "tls" /\ conns[g].tls => answer # "ok"
       /\ Goes(t, [r EXCEPT !.at = "served", !.said = answer,
                            !.times = IF answer = "ok" /\ r.doing = "call" THEN @ + 1 ELSE @])
       /\ conns' = IF What(r) # "bind" THEN conns
                   ELSE [conns EXCEPT ![g].bound = (answer = "ok" /\ (r.doing = "call" \/ lastBind)),
                                      ![g].fell = @ \/ (answer # "ok" /\ r.doing = "call")]
       /\ UNCHANGED <<object, calls, crossed>>

Goes_away(g) ==
    /\ g \in Conns /\ conns[g].up
    /\ conns' = Closes(g)
    /\ UNCHANGED <<object, task, calls, crossed>>

-----------------------------------------------------------------------------
Step(t) ==
    \/ Locked(t) \/ Closed(t) \/ Slept(t)
    \/ Connects(t) \/ CannotConnect(t) \/ Down(t)
    \/ Refused(t) \/ Succeeds(t) \/ HandshakeFails(t)

Serving(t) == \E answer \in {"ok", "refused", "unavailable"} : Serves(t, answer)

Next ==
    \/ \E t \in Tasks : Step(t) \/ BeginUnbound(t) \/ TimesOut(t) \/ Cancelled(t) \/ Serving(t)
    \/ \E t \in Tasks, call \in Calls : Begin(t, call)
    \/ \E g \in Conns : Goes_away(g)
    \/ Lost

\* The event loop runs every task that can run; a server that is up answers.
Fairness == WF_vars(Lost) /\ \A t \in Tasks : WF_vars(Step(t)) /\ WF_vars(Serving(t))

Spec == Init /\ [][Next]_vars /\ Fairness

-----------------------------------------------------------------------------
\* The types of the state, which DoneOnceOrTwice has with it.
TypeOK ==
    /\ stream \in 0..MaxConns /\ Conns = 1..Cardinality(Conns)
    /\ {unbound, lastBind, startTLS, retrying, crossed} \subseteq BOOLEAN
    /\ \A t \in Tasks : task[t].conn \in 0..MaxConns /\ task[t].times \in Nat
    \* _retrying is set as long as an operation that may reconnect is under way
    /\ retrying = (\E t \in Active : ~task[t].plain)
    /\ Cardinality({t \in Active : ~task[t].plain}) <= 1

\* What is asked of the server after the program has bound, as long as no operation
\* has begun in the middle of another's.
AsksAfterBind(t) ==
    /\ ~crossed /\ lastBind
    /\ task[t].at = "asked" /\ task[t].doing = "call" /\ task[t].call = "modify"
    /\ conns[task[t].conn].up

\* As it was: bound, and over TLS once that was asked for, unless an operation has
\* opened it for itself before there was a bind to make again.
Restored(c) == (c.bound \/ c.fell) /\ (c.tls \/ c.bare \/ ~startTLS)

\* "Reconnecting replays what was done to the connection before: the options that
\* were set, StartTLS if it was raised, and the last bind that was made"
\* (ReconnectLDAPObject): what the program asks goes over a connection as it was,
\* unless the handshake of a reconnection has failed on it: that one stays open, in
\* the clear and unbound (_apply_method_s, reconnect, start_tls_s).
AsItWas ==
    \A t \in Tasks :
        AsksAfterBind(t) => conns[task[t].conn].left \/ Restored(conns[task[t].conn])

\* The server has done what returned, once or, when an answer was lost, twice,
\* and nothing oftener, whatever crossed it (_apply_method_s).
DoneOnceOrTwice ==
    /\ TypeOK
    /\ \A t \in Tasks : task[t].times <= 2 /\ (task[t].call = "returned" => task[t].times >= 1)

\* An operation ends, with the server there or not, unless another has begun in
\* the middle of it (the counter of reconnect, the deadlines).
CallsEnd == \A t \in Tasks : task[t].at # "idle" ~> (task[t].at = "idle" \/ crossed)
=============================================================================
