----------------------------- MODULE LDAPEntry ------------------------------
(***************************************************************************)
(* protocols/ldap/ldapsyntax.py, LDAPEntryWithClient: an entry of a server *)
(* as a program holds it.                                                  *)
(*                                                                         *)
(* What the program changes is kept in _attributes and, as modifications,  *)
(* in _journal; _remoteData is what the server was last known to have.     *)
(* commit sends the journal, undo goes back to _remoteData, fetch reads    *)
(* the server again.  A request is a step, its answer another; between     *)
(* the two the server does it or refuses, others write to it, and the      *)
(* connection may be lost, before or after it was done.                    *)
(*                                                                         *)
(* An entry is what EntryChanges takes for one.                            *)
(***************************************************************************)
EXTENDS Naturals, Sequences, FiniteSets

CONSTANTS
    Keys,        \* attribute types
    RDN,         \* the one the name of the entry has
    Password,    \* the one setPassword_Samba writes
    Values,      \* values of each
    Strings,     \* "str" or "bytes": in which the program gives types
    MaxJournal,  \* bound: modifications in the journal
    MaxOthers,   \* bound: writes of other clients
    MaxPast,     \* bound: of past
    Overlap      \* whether the program goes on while a request of it is under way

ASSUME EntryAssumption ==
    /\ RDN \in Keys /\ Password \in Keys \ {RDN} /\ Values # {} /\ Strings \subseteq {"str", "bytes"}
    /\ MaxJournal \in Nat /\ MaxOthers \in Nat /\ MaxPast \in Nat /\ Overlap \in BOOLEAN
    /\ "raised" \notin Keys  \* of which EntryChanges makes an exception

VARIABLES
    state,       \* _state: "ready" or "deleted"
    name,        \* the value of RDN in self.dn
    attributes,  \* _attributes
    journal,     \* _journal
    remote,      \* _remoteData
    flight,      \* the request under way: its operation, and what came of it
    server,      \* the entry the server has
    there,       \* the value of RDN in its name there
    stale,       \* attributes others have written, or that are not known since
    others,      \* writes of other clients
    astray,      \* history: types whose sets and modifications may have come apart
    past         \* changes past the journal, and what was found in two kinds

program == <<state, name, attributes, journal, remote>>
entryVars == <<program, flight, server, there, stale, others, astray, past>>

\* A type stands for all its spellings; where an entry has it in two, see astray.
Spelled(key) == key
Delta == INSTANCE EntryChanges WITH Fold <- Spelled, Text <- Spelled, Bytes <- Spelled

Of(entry, key) == IF key \in DOMAIN entry THEN entry[key] ELSE {}
With(entry, key, values) ==
    [k \in DOMAIN entry \cup {key} |-> IF k = key THEN values ELSE entry[k]]
Without(entry, key) == [k \in DOMAIN entry \ {key} |-> entry[k]]
Shown(entry) == [k \in {k \in DOMAIN entry : entry[k] # {}} |-> entry[k]]

None == [op |-> "none"]
Flight(op) == [op |-> op, at |-> "sent", mods |-> <<>>, keys |-> {}, to |-> name, found |-> <<>>,
               since |-> {}]

EntryInit ==
    /\ state = "ready" /\ name \in Values
    /\ server \in {e \in UNION {[ks -> {{v} : v \in Values}] : ks \in SUBSET Keys} : Of(e, RDN) = {name}}
    /\ attributes = server /\ remote = server /\ journal = <<>>
    /\ flight = None /\ there = name /\ stale = {} /\ others = 0 /\ astray = {} /\ past = 0

-----------------------------------------------------------------------------
(* Changes of the program.                                                 *)

\* A program that waits for its requests does nothing meanwhile.
Idle == Overlap \/ flight = None
\* _checkState.
MayGoOn == state = "ready" /\ Idle

\* _canRemoveAll, _canRemove: the types of the name are str, and those of an
\* entry that was read are bytes, which are not compared with them.
CanRemoveAll(key, kind) == state = "ready" /\ (kind = "str" => key # RDN)
CanRemove(key, value, kind) == state = "ready" /\ (kind = "str" => <<key, value>> # <<RDN, name>>)

\* What is changed is journalled.
Edit(entry, modification) ==
    /\ Idle /\ Len(journal) < MaxJournal
    /\ attributes' = entry
    /\ journal' = Append(journal, modification)
    /\ UNCHANGED <<state, name, remote, flight, server, there, stale, others>>

\* What goes past the journal.
PastJournal(keys) ==
    /\ past < MaxPast /\ past' = past + 1
    /\ astray' = astray \cup keys

\* A type or a value that is str is not told from one that is bytes, though the
\* entry or the set may have room for both: then the type goes astray.
MayBeTwofold(keys) == UNCHANGED <<astray, past>> \/ PastJournal(keys)

\* JournaledLDAPAttributeSet.add and update; a set asks for no state.
AddValue(key, value) ==
    /\ key \in DOMAIN attributes
    /\ Edit(With(attributes, key, attributes[key] \cup {value}), <<"Add", key, {value}>>)
    /\ IF value \in attributes[key] THEN MayBeTwofold({key}) ELSE UNCHANGED <<astray, past>>

RemoveValue(key, value, kind) ==
    /\ value \in Of(attributes, key) /\ CanRemove(key, value, kind)
    /\ Edit(With(attributes, key, attributes[key] \ {value}), <<"Delete", key, {value}>>)
    /\ UNCHANGED <<astray, past>>

Clear(key, kind) ==
    /\ key \in DOMAIN attributes /\ CanRemoveAll(key, kind)
    /\ Edit(With(attributes, key, {}), <<"Delete", key, {}>>)
    /\ UNCHANGED <<astray, past>>

\* Mutant of SetItem: the values are journalled as an addition.
SetItemAdds(key, values, kind) ==
    /\ CanRemoveAll(key, kind)
    /\ Edit(With(attributes, key, values), <<"Add", key, values>>)
    /\ MayBeTwofold({key})

\* __setitem__.
SetItem(key, values, kind) ==
    /\ CanRemoveAll(key, kind)
    /\ Edit(With(attributes, key, values), <<"Replace", key, values>>)
    /\ MayBeTwofold({key})

\* __delitem__.
DelItem(key, kind) ==
    /\ key \in DOMAIN attributes /\ CanRemoveAll(key, kind)
    /\ Edit(Without(attributes, key), <<"Delete", key, {}>>)
    /\ UNCHANGED <<astray, past>>

-----------------------------------------------------------------------------
(* Changes past the journal: the documentation asks for lists and for none  *)
(* of them to be modified in place (interfaces.py, __setitem__).            *)

\* discard, pop, -=, |= and the other methods the set inherits.
ChangeUnjournalled(key, values) ==
    /\ Idle /\ key \in DOMAIN attributes
    /\ attributes' = With(attributes, key, values)
    /\ PastJournal({key})
    /\ UNCHANGED <<state, name, journal, remote, flight, server, there, stale, others>>

\* A set that was kept when undo, fetch, __setitem__ or __delitem__ put another
\* in its place; and update of an iterator, which its modification uses up.
ChangeUnseen(key, class, values) ==
    /\ class = "Add" \/ (class = "Delete" /\ state = "ready")
    /\ Edit(attributes, <<class, key, values>>)
    /\ PastJournal({key})

\* __setitem__ of an iterator, which the set uses up.
SetIterator(key, values, kind) ==
    /\ CanRemoveAll(key, kind)
    /\ Edit(With(attributes, key, values), <<"Replace", key, {}>>)
    /\ PastJournal({key})

\* A change of one of two sets of a type; which of them is shown is left open.
ChangeAstray(key, class, values, shown) ==
    /\ key \in astray /\ (class # "Add" => state = "ready")
    /\ \/ Edit(With(attributes, key, shown), <<class, key, values>>)
       \/ Edit(Without(attributes, key), <<class, key, values>>)
    /\ PastJournal({key})

Undone(data) == attributes' = data /\ journal' = <<>>

Undo ==
    /\ MayGoOn /\ Undone(remote)
    /\ UNCHANGED <<state, name, remote, flight, server, there, stale, others, astray, past>>

-----------------------------------------------------------------------------
(* Requests.                                                               *)

Sends(request) ==
    /\ MayGoOn /\ flight = None
    /\ flight' = request
    /\ UNCHANGED <<name, attributes, journal, remote, server, there, stale, others, astray, past>>

Commit ==
    /\ journal # <<>>
    /\ Sends([Flight("modify") EXCEPT !.mods = journal]) /\ UNCHANGED state

\* All attributes, or one.
Fetch(keys) == journal = <<>> /\ Sends([Flight("fetch") EXCEPT !.keys = keys]) /\ UNCHANGED state

Move(value) == Sends([Flight("move") EXCEPT !.to = value]) /\ UNCHANGED state

\* The entry is taken for deleted before the server has answered.
Delete == Sends(Flight("delete")) /\ state' = "deleted"

\* setPassword: by the extended operation first, which changes nothing here.
SetPassword == Sends(Flight("password")) /\ UNCHANGED state

\* setPasswordMaybe_Samba once that has succeeded: the hashes of an account are
\* set and committed, with whatever else is in the journal. Their types are str.
SetSambaPassword(value) ==
    /\ flight.op = "password" /\ flight.at = "done" /\ state = "ready"
    /\ Len(journal) < MaxJournal
    /\ attributes' = With(attributes, Password, {value})
    /\ journal' = Append(journal, <<"Replace", Password, {value}>>)
    /\ flight' = [Flight("modify") EXCEPT !.mods = journal']
    /\ MayBeTwofold({Password})
    /\ UNCHANGED <<state, name, remote, server, there, stale, others>>

-----------------------------------------------------------------------------
(* Answers.                                                                *)

HasCome(op, at) == flight.op = op /\ flight.at = at
Over == flight' = None /\ UNCHANGED <<server, there, others>>

\* _commit_success: the server is taken to have what the entry has.
CommitDone ==
    /\ HasCome("modify", "done")
    /\ remote' = attributes /\ journal' = <<>>
    /\ Over /\ UNCHANGED <<state, name, attributes, stale, astray, past>>

\* Of what is kept of _remoteData, what was asked for in the other kind is twofold.
Fetched(kept) ==
    /\ HasCome("fetch", "done") /\ journal = <<>>
    /\ LET found == flight.found
           asked == IF flight.keys = {} THEN DOMAIN found ELSE flight.keys \cap DOMAIN found
       IN /\ remote' = [k \in asked \cup kept |-> IF k \in asked THEN found[k] ELSE remote[k]]
          /\ stale' = flight.since \cup (IF flight.keys = {} THEN {} ELSE stale \ asked)
          /\ IF flight.keys = {} THEN astray' = {} /\ UNCHANGED past
             ELSE \E twofold \in SUBSET (asked \cap kept) : MayBeTwofold(twofold)
    /\ Undone(remote')
    /\ Over /\ UNCHANGED <<state, name>>

\* Mutant of FetchDone: what is not there any more is kept.
FetchDoneKeeps == Fetched(DOMAIN remote)

\* _cbFetch: what was not asked for is kept, and what was and is not there any
\* more. What was changed meanwhile fails its assertion, and the answer with it.
FetchDone == Fetched(IF flight.keys = {} THEN {} ELSE DOMAIN remote)

\* _cbMoveDone: the attributes keep the value of the old name.
MoveDone ==
    /\ HasCome("move", "done")
    /\ name' = flight.to
    /\ Over /\ UNCHANGED <<state, attributes, journal, remote, stale, astray, past>>

\* _cbDeleteDone, a setPassword of what is no samba account, and a fetch whose
\* assertion fails.
OtherDone ==
    /\ HasCome("delete", "done") \/ HasCome("password", "done")
       \/ (HasCome("fetch", "done") /\ journal # <<>>)
    /\ Over /\ UNCHANGED <<program, stale, astray, past>>

\* The server has refused: the call raises, and the entry stays as it is.
Refused ==
    /\ flight # None /\ flight.at = "refused"
    /\ Over /\ UNCHANGED <<program, stale, astray, past>>

\* The connection is lost before the answer comes.
ConnectionLost ==
    /\ flight # None
    /\ Over
    /\ stale' = stale \cup {flight.mods[i][2] : i \in DOMAIN flight.mods}
                      \cup (IF flight.op = "move" THEN {RDN} ELSE {})
    /\ UNCHANGED <<program, astray, past>>

-----------------------------------------------------------------------------
(* The server and its other clients.                                       *)

ServerModifies ==
    /\ HasCome("modify", "sent")
    /\ LET after == Delta!Patched(server, flight.mods)
       IN /\ after # Delta!Raised
          /\ server' = Shown(after)
    /\ flight' = [flight EXCEPT !.at = "done"]
    /\ UNCHANGED <<program, there, stale, others, astray, past>>

ServerReads ==
    /\ HasCome("fetch", "sent")
    /\ flight' = [flight EXCEPT !.at = "done",
                                !.found = server]
    /\ UNCHANGED <<program, server, there, stale, others, astray, past>>

\* The value of the old name is deleted.
ServerMoves ==
    /\ HasCome("move", "sent")
    /\ server' = With(server, RDN, (Of(server, RDN) \ {there}) \cup {flight.to})
    /\ there' = flight.to /\ stale' = stale \cup {RDN}
    /\ flight' = [flight EXCEPT !.at = "done"]
    /\ UNCHANGED <<program, others, astray, past>>

ServerDoes ==
    /\ HasCome("delete", "sent") \/ HasCome("password", "sent")
    /\ flight' = [flight EXCEPT !.at = "done"]
    /\ UNCHANGED <<program, server, there, stale, others, astray, past>>

ServerRefuses ==
    /\ flight # None /\ flight.at = "sent"
    /\ flight' = [flight EXCEPT !.at = "refused"]
    /\ UNCHANGED <<program, server, there, stale, others, astray, past>>

OthersWrite(key, values) ==
    /\ others < MaxOthers /\ others' = others + 1
    /\ key # RDN /\ server' = Shown(With(server, key, values))
    /\ stale' = stale \cup {key}
    /\ flight' = IF flight = None THEN None
                 ELSE [flight EXCEPT !.since = IF flight.at = "done" THEN @ \cup {key} ELSE @]
    /\ UNCHANGED <<program, there, astray, past>>

-----------------------------------------------------------------------------
Sets == {{}} \cup {{v} : v \in Values}

EntryNext ==
    \/ \E k \in Keys, v \in Values : AddValue(k, v)
    \/ \E k \in Keys, v \in Values, kind \in Strings : RemoveValue(k, v, kind)
    \/ \E k \in Keys, vs \in Sets, kind \in Strings : SetItem(k, vs, kind) \/ SetIterator(k, vs, kind)
    \/ \E k \in Keys, kind \in Strings : Clear(k, kind) \/ DelItem(k, kind)
    \/ \E k \in Keys, vs \in Sets : OthersWrite(k, vs) \/ ChangeUnjournalled(k, vs)
    \/ \E k \in Keys, class \in {"Add", "Delete", "Replace"}, vs, shown \in Sets :
          ChangeUnseen(k, class, vs) \/ ChangeAstray(k, class, vs, shown)
    \/ Undo \/ Commit \/ Delete \/ SetPassword
    \/ \E keys \in {{}} \cup {{k} : k \in Keys} : Fetch(keys)
    \/ \E v \in Values : Move(v) \/ SetSambaPassword(v)
    \/ CommitDone \/ FetchDone \/ MoveDone \/ OtherDone \/ Refused \/ ConnectionLost
    \/ ServerModifies \/ ServerReads \/ ServerMoves \/ ServerDoes \/ ServerRefuses

EntrySpec == EntryInit /\ [][EntryNext]_entryVars

-----------------------------------------------------------------------------
\* The types of the state, which JournalMakesAttributes has with it.
EntryTypeOK ==
    /\ state \in {"ready", "deleted"} /\ {name, there} \subseteq Values
    /\ \A e \in {attributes, remote, server} : \A k \in DOMAIN e : k \in Keys /\ e[k] \subseteq Values
    /\ Len(journal) <= MaxJournal /\ stale \cup astray \subseteq Keys /\ others \in 0..MaxOthers

\* The journal, done to what the server had, makes what the program sees of each
\* attribute it has changed by journalled methods and in one kind, from lists, as
\* the documentation asks; only a deletion of an attribute that has no values any
\* more, or a change past the journal, may be refused (the journalled changes, undo
\* and the handlers of the answers).
JournalMakesAttributes ==
    LET after == Delta!Patched(remote, journal)
    IN /\ EntryTypeOK
       /\ IF after = Delta!Raised
          THEN \E i \in DOMAIN journal :
                  (journal[i][1] = "Delete" /\ journal[i][3] = {}) \/ journal[i][2] \in astray
          ELSE \A k \in Keys \ astray : Of(after, k) = Of(attributes, k)

\* "Send all pending changes to the LDAP server." (interfaces.py, commit): while
\* nothing is under way an entry knows what the server has of each attribute,
\* unless others have written it, a commit of it was lost, the entry has moved or
\* the attribute was changed past the journal or read in two kinds, since it was
\* last fetched (_commit_success, _cbFetch).
RemoteIsTheServers ==
    (flight = None /\ state = "ready") => \A k \in Keys \ (stale \cup astray) : Of(remote, k) = Of(server, k)
=============================================================================
