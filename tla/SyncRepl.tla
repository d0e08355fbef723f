------------------------------ MODULE SyncRepl ------------------------------
(***************************************************************************)
(* ldap/syncrepl.py: a program that keeps a copy of what a server holds.   *)
(*                                                                         *)
(* syncrepl_search asks the server what has changed since the cookie that  *)
(* was stored; syncrepl_poll hands on what it says, one message at a time  *)
(* and without an await within, to the methods a subclass overrides.  The  *)
(* subclass is the one their docstrings describe.  The connection may be   *)
(* lost between two messages, and the program may die within one; copy and *)
(* cookie outlive both, the record of what is present only the first.      *)
(*                                                                         *)
(* What the server holds is told by its history: the contents after every  *)
(* change.  An entry is the number of the change that made it what it is,  *)
(* 0 when it is not there, and a cookie the number of the last change.     *)
(***************************************************************************)
EXTENDS Naturals, Sequences, FiniteSets

CONSTANTS
    Uuids,        \* entries
    MaxChanges,   \* bound: changes on the server
    MaxSearches   \* bound: searches of the program

ASSUME SyncReplAssumption == MaxChanges \in Nat /\ MaxSearches \in Nat

VARIABLES
    history,      \* the contents of the server after each change
    mode,         \* of the search that is running, or "none"
    owed,         \* messages the server has to send, in any order, and then
    ending,       \* the one that ends the phase
    told,         \* the change up to which the search has been told
    consumer,     \* the copy, the cookie, the record of what is present, and
                  \* refreshDone
    left,         \* what is recorded since an earlier search only
    stale,        \* what was not deleted for that reason
    searches

server == <<mode, owed, ending, told>>
vars == <<history, server, consumer, left, stale, searches>>

Now == Len(history)
Empty == [u \in Uuids |-> 0]
At(version) == IF version = 0 THEN Empty ELSE history[version]

Nothing == [kind |-> "nothing"]
NoCookie == 0
Cookies(version) == {NoCookie, version}

Init ==
    /\ history \in {<<[u \in Uuids |-> IF u \in S THEN 1 ELSE 0]>> : S \in SUBSET Uuids}
    /\ mode = "none" /\ owed = {} /\ ending = Nothing /\ told = 0
    /\ consumer = [copy |-> Empty, cookie |-> NoCookie, present |-> {}, refreshDone |-> FALSE]
    /\ left = {} /\ stale = {} /\ searches = 0

-----------------------------------------------------------------------------
(* The methods a subclass overrides, after their docstrings.               *)

SetCookie(c, cookie) == IF cookie = NoCookie THEN c ELSE [c EXCEPT !.cookie = cookie]
Present(c, uuids) == [c EXCEPT !.present = @ \cup uuids]
PresentNone(c, refreshDeletes) ==
    [c EXCEPT !.present = {},
              !.copy = IF refreshDeletes THEN @
                       ELSE [u \in Uuids |-> IF u \in c.present THEN @[u] ELSE 0]]
DeleteAll(c, uuids) == [c EXCEPT !.copy = [u \in Uuids |-> IF u \in uuids THEN 0 ELSE @[u]]]
Entry(c, uuid, value) == [c EXCEPT !.copy[uuid] = value]

-----------------------------------------------------------------------------
(* What is read out of a message: a part that was left out has a default.  *)

Read(part, default) == IF part = "absent" THEN default ELSE part = "true"
RefreshDone(m) == Read(m.done, TRUE)
RefreshDeletes(m) == Read(m.deletes, FALSE)

\* What a message means for the copy, but for its cookie.
\* syncrepl_poll, of an entry and its Sync State control.
OfEntry(c, m) ==
    CASE m.state = "present" -> Present(c, {m.uuid})
      [] m.state = "delete" -> DeleteAll(c, {m.uuid})
      [] m.state \in {"add", "modify"} ->
            LET stored == Entry(c, m.uuid, m.value)
            IN IF c.refreshDone THEN stored ELSE Present(stored, {m.uuid})

\* _syncrepl_info, of a Sync Info message.
OfInfo(c, m) ==
    CASE m.kind = "newcookie" -> c
      [] m.kind = "refreshPresent" -> PresentNone(c, FALSE)
      [] m.kind = "refreshDelete" -> PresentNone(c, TRUE)
      [] m.kind = "idset" -> IF RefreshDeletes(m) THEN DeleteAll(c, m.uuids) ELSE Present(c, m.uuids)

\* syncrepl_poll, of the Sync Done control.
OfDone(c, m) == PresentNone(c, RefreshDeletes(m))

Meant(c, m) ==
    CASE m.kind = "entry" -> OfEntry(c, m)
      [] m.kind = "done" -> OfDone(c, m)
      [] OTHER -> OfInfo(c, m)

\* _syncrepl_refresh.
Refreshed(c, m) ==
    IF m.kind \in {"refreshPresent", "refreshDelete"} /\ RefreshDone(m)
    THEN [c EXCEPT !.refreshDone = TRUE] ELSE c

\* Mutant of Handled: the cookie is stored for every message that has one, and
\* what the message says of those present is not.
HandledUnrecorded(c, m) ==
    LET meant == [Meant(c, m) EXCEPT !.present = IF m.kind = "entry" THEN c.present ELSE @]
    IN Refreshed(SetCookie(meant, m.cookie), m)

\* The cookie is stored last.
Handled(c, m) == Refreshed(SetCookie(Meant(c, m), m.cookie), m)

-----------------------------------------------------------------------------
(* What the server says.                                                   *)

EntryMessage(u, state, value, cookie) ==
    [kind |-> "entry", uuid |-> u, state |-> state, value |-> value, cookie |-> cookie]
IdSet(uuids, deletes) == [kind |-> "idset", uuids |-> uuids, deletes |-> deletes, cookie |-> NoCookie]

\* What is there at `to` and was not, or not as it is, at `from`; what is as it
\* was; and what has gone since, if it came in between too.
Changed(from, to) == {u \in Uuids : At(to)[u] \notin {0, At(from)[u]}}
Same(from, to) == {u \in Uuids : At(to)[u] # 0 /\ At(to)[u] = At(from)[u]}
Gone(from, to) == {u \in Uuids : At(to)[u] = 0 /\ \E v \in from..to : At(v)[u] # 0}

Changes(from, to) ==
    {EntryMessage(u, IF At(from)[u] = 0 THEN "add" ELSE "modify", At(to)[u], NoCookie) :
        u \in Changed(from, to)}

\* One by one, or all at once.
Told(uuids, state, deletes) ==
    {{EntryMessage(u, state, 0, NoCookie) : u \in uuids}}
        \cup (IF uuids = {} THEN {} ELSE {{IdSet(uuids, deletes)}})

\* A present phase names what is still there, a delete phase what has gone.
PresentPhase(from, to, messages) ==
    \E same \in Told(Same(from, to), "present", "absent") : messages = Changes(from, to) \cup same
DeletePhase(from, to, messages) ==
    \E gone \in Told(Gone(from, to), "delete", "true") : messages = Changes(from, to) \cup gone

Ends(phase, to, done) ==
    IF mode' = "refreshOnly"
    THEN [kind |-> "done", cookie |-> to, deletes |-> IF phase = "delete" THEN "true" ELSE "absent"]
    ELSE [kind |-> IF phase = "delete" THEN "refreshDelete" ELSE "refreshPresent",
          cookie |-> to, done |-> done]

Messages(from, to) ==
    {m \in SUBSET (Changes(from, to)
                   \cup UNION Told(Same(from, to), "present", "absent")
                   \cup UNION Told(Gone(from, to), "delete", "true")) :
        PresentPhase(from, to, m) \/ DeletePhase(from, to, m)}

\* syncrepl_search: from the cookie that was stored.
Search(how) ==
    /\ mode = "none" /\ searches < MaxSearches
    /\ searches' = searches + 1 /\ mode' = how
    /\ consumer' = [consumer EXCEPT !.refreshDone = FALSE]
    /\ told' = Now
    /\ LET from == consumer.cookie
       IN \E phase \in {"present", "delete"} :
            \E messages \in Messages(from, Now) :
              /\ phase = "present" => PresentPhase(from, Now, messages)
              /\ phase = "delete" => from # NoCookie /\ DeletePhase(from, Now, messages)
              /\ owed' = messages
              /\ \E done \in (IF phase = "present" THEN {"absent", "false"} ELSE {"absent"}) :
                    ending' = Ends(phase, Now, done)
    /\ UNCHANGED <<history, left, stale>>

\* The phase is over, and what is not recorded as present is deleted.
Sweeps(m) == m.kind = "refreshPresent" \/ (m.kind = "done" /\ ~RefreshDeletes(m))

\* What is recorded anew is no longer left over; what was left over when the
\* record was gone by is kept for no good reason.
Accounts(m, c) ==
    LET restarts == Sweeps(m) \/ m.kind \in {"refreshDelete", "done"}
        named == CASE m.kind = "entry" -> {m.uuid} [] m.kind = "idset" -> m.uuids [] OTHER -> {}
        written == {u \in named : m.kind # "entry" \/ m.state # "present"}
    IN /\ left' = IF restarts THEN {} ELSE left \ named
       /\ stale' = IF Sweeps(m) THEN {u \in left : c.copy[u] # 0} ELSE stale \ written

\* syncrepl_poll, of one message: of the refresh in any order, its end last.
Poll ==
    /\ mode # "none"
    /\ \E m \in owed :
          /\ owed' = owed \ {m}
          /\ consumer' = Handled(consumer, m) /\ Accounts(m, consumer')
    /\ UNCHANGED <<history, mode, ending, told, searches>>

\* The end of a phase; a present phase may have a delete phase behind it.
PollEnd ==
    /\ mode # "none" /\ owed = {} /\ ending # Nothing
    /\ consumer' = Handled(consumer, ending) /\ Accounts(ending, consumer')
    /\ mode' = IF ending.kind = "done" THEN "none" ELSE mode
    /\ IF ending.kind = "refreshPresent" /\ ~RefreshDone(ending)
       THEN /\ told' = Now
            /\ \E messages \in Messages(told, Now) : DeletePhase(told, Now, messages) /\ owed' = messages
            /\ ending' = Ends("delete", Now, "absent")
       ELSE ending' = Nothing /\ UNCHANGED <<owed, told>>
    /\ UNCHANGED <<history, searches>>

\* After the refresh: the next change as it is made, or a cookie on its own.
PollChange ==
    /\ mode = "refreshAndPersist" /\ ending = Nothing /\ owed = {}
    /\ \/ /\ told < Now /\ told' = told + 1
          /\ \E u \in Uuids, cookie \in Cookies(told') :
                LET m == EntryMessage(u, CASE At(told')[u] = 0 -> "delete"
                                           [] At(told)[u] = 0 -> "add"
                                           [] OTHER -> "modify", At(told')[u], cookie)
                IN /\ At(told')[u] # At(told)[u]
                   /\ consumer' = Handled(consumer, m) /\ Accounts(m, consumer')
       \/ /\ consumer.cookie # told
          /\ consumer' = Handled(consumer, [kind |-> "newcookie", cookie |-> told])
          /\ UNCHANGED <<told, left, stale>>
    /\ UNCHANGED <<history, mode, owed, ending, searches>>

Stops == mode' = "none" /\ owed' = {} /\ ending' = Nothing /\ told' = 0

\* The connection is lost, or the server ends the search with an error.
LoseConnection ==
    /\ mode # "none" /\ Stops
    /\ left' = consumer.present
    /\ UNCHANGED <<history, consumer, stale, searches>>

\* The program dies with what a message says stored, and its cookie not.
Die ==
    /\ mode # "none" /\ Stops
    /\ \E m \in owed \cup (IF owed = {} THEN {ending} ELSE {}) :
          LET meant == IF m = Nothing THEN consumer ELSE Meant(consumer, m)
          IN /\ consumer' = [meant EXCEPT !.present = {}]
             /\ IF m = Nothing THEN stale' = stale
                ELSE stale' = {u \in stale \cup (IF Sweeps(m) THEN left ELSE {}) :
                                 meant.copy[u] # 0}
    /\ left' = {}
    /\ UNCHANGED <<history, searches>>

\* A change of the server: an entry is added, changed or deleted.
Change(u, there) ==
    /\ Now <= MaxChanges
    /\ there \/ At(Now)[u] # 0
    /\ history' = Append(history, [At(Now) EXCEPT ![u] = IF there THEN Now + 1 ELSE 0])
    /\ UNCHANGED <<server, consumer, left, stale, searches>>

Next ==
    \/ \E how \in {"refreshOnly", "refreshAndPersist"} : Search(how)
    \/ Poll \/ PollEnd \/ PollChange \/ LoseConnection \/ Die
    \/ \E u \in Uuids, there \in BOOLEAN : Change(u, there)

Spec == Init /\ [][Next]_vars

-----------------------------------------------------------------------------
\* The types of the state, which CookieIsHonest has with it.
TypeOK ==
    /\ mode \in {"none", "refreshOnly", "refreshAndPersist"}
    /\ consumer.copy \in [Uuids -> 0..Now] /\ consumer.cookie \in 0..Now /\ told \in 0..Now
    /\ consumer.present \subseteq Uuids /\ left \subseteq consumer.present /\ stale \subseteq Uuids

\* The cookie "says where the search has got to": what has not changed on the
\* server since then is in the copy as the server has it, and what was not there
\* since is not, however searches were cut off; but what a search that was cut off
\* had recorded may be kept past its deletion (syncrepl_poll, _syncrepl_info).
CookieIsHonest ==
    LET c == consumer
        still(u) == \A v \in c.cookie..Now : history[v][u] = history[c.cookie][u]
    IN /\ TypeOK
       /\ c.cookie # NoCookie =>
            \A u \in Uuids \ stale : still(u) => c.copy[u] = history[c.cookie][u]
=============================================================================
