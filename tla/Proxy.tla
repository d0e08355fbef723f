------------------------------- MODULE Proxy --------------------------------
(***************************************************************************)
(* protocols/ldap/proxybase.py, proxy.py, svcbindproxy.py and merger.py,   *)
(* over BaseLDAPServer of ldapserver.py: one connection of a client to a   *)
(* server that forwards its requests to one server, or to several whose    *)
(* answers it merges.                                                      *)
(*                                                                         *)
(* The connections to the proxied servers are made before the reader       *)
(* starts.  The reader handles one request at a time: it sends it on and   *)
(* waits until a handler, which the reader of the proxied connection       *)
(* calls for each response, has called one of them the last.               *)
(*                                                                         *)
(* An LDAPClient connection is what the handlers and the waiting see of    *)
(* it: requests on the wire, a slot each, and their loss.  A write is one  *)
(* step.  The proxied servers are outside.                                 *)
(***************************************************************************)
EXTENDS Naturals, Sequences, FiniteSets

CONSTANTS
    Variants,     \* of {"base", "proxy", "binding", "merged"}: the class that serves
    N,            \* proxied servers of the merging proxy; the others have one
    Kinds,        \* what the client requests
    MaxRequests,  \* bound: requests of the client
    MaxEntries,   \* bound: entries a proxied server sends for a search
    Services,     \* how many services the binding proxy tries
    Fallback,     \* ServiceBindingProxy.fallback
    Endless,      \* whether the client asks for what no answer is the last of
    TLSOffered    \* whether the factory has `options`

ASSUME ProxyAssumption ==
    /\ Variants \subseteq {"base", "proxy", "binding", "merged"}
    /\ Kinds \subseteq {"bind", "badbind", "search", "update", "starttls", "unbind"}
    /\ N \in Nat \ {0} /\ MaxRequests \in Nat /\ MaxEntries \in Nat /\ Services \in Nat
    /\ {Fallback, Endless, TLSOffered} \subseteq BOOLEAN

Servers == 1..N
Ids == 1..MaxRequests

VARIABLES
    variant,     \* which class serves the connection
    phase,       \* connectionMade_async: "connecting", "up", "failed" or "raised"
    stream,      \* self._anyio_stream is not None
    connected,   \* self.connected
    secure,      \* self.startTLS_initiated
    held,        \* self.client, or self.clients
    link,        \* the connection to each proxied server: "none", "open" or "lost"
    closing,     \* those whose aclose the loss of the client has started
    onwire,      \* <<server, id>> : the requests in onwire of each LDAPClient
    slot,        \* what the handling of the current request waits for
    finals,      \* final_responses of the merging proxy, by request
    rpc,         \* where the reader is
    current,     \* the request it handles
    services,    \* services it has still to try
    requests,    \* what the client has sent
    next,        \* the first of them the reader has not read
    peer,        \* the client has not closed the connection
    got,         \* what was written to the client for each request
    todo,        \* requests each proxied server has still to answer
    coming,      \* responses on their way from it
    accepted     \* binds a proxied server has accepted

connection == <<stream, connected, held, closing, got>>
upstream == <<link, onwire, todo, coming, accepted>>
reader == <<rpc, current, services, slot, next>>
client == <<requests, peer>>
vars == <<variant, phase, secure, finals, connection, upstream, reader, client>>

Used == IF variant = "merged" THEN Servers ELSE {1}
Init ==
    /\ variant \in Variants /\ phase = "connecting"
    /\ stream = TRUE /\ connected = TRUE /\ secure = FALSE
    /\ held = {} /\ closing = {}
    /\ link = [u \in Servers |-> "none"]
    /\ onwire = {} /\ slot = [u \in Servers |-> "none"]
    /\ finals = [i \in Ids |-> <<>>]
    /\ rpc = "off" /\ current = 0 /\ services = 0
    /\ requests = <<>> /\ next = 1 /\ peer = TRUE
    /\ got = [i \in Ids |-> <<>>]
    /\ todo = [u \in Servers |-> {}] /\ coming = [u \in Servers |-> <<>>]
    /\ accepted = {}

Answerable(id) == requests[id] # "unbind"

-----------------------------------------------------------------------------
(* The connection with the client.                                         *)

\* Mutant of ConnectionLost: the proxied servers are let go of unclosed.
ConnectionLostKeepsOpen == connected' = FALSE /\ held' = {} /\ closing' = closing

\* connectionLost: the proxied connections that are up are closed by tasks of
\* their own.
ConnectionLost ==
    /\ connected' = FALSE /\ held' = {}
    /\ closing' = closing \cup {u \in held : link[u] = "open"}

\* Proxy.connectionLost asserts that there is a client.
LossRaises == connected /\ variant \in {"proxy", "binding"} /\ held = {}

\* aclose.
StreamCloses ==
    /\ stream' = FALSE
    /\ IF connected THEN ConnectionLost ELSE UNCHANGED <<connected, held, closing>>
Aclose == StreamCloses /\ UNCHANGED got

\* A response is written, to nobody when the connection is gone; or the write
\* finds out that the client has closed it.
Reply(id, response) ==
    \/ /\ got' = IF stream THEN [got EXCEPT ![id] = Append(@, response)] ELSE got
       /\ UNCHANGED <<stream, connected, held, closing>>
    \/ stream /\ ~peer /\ ~LossRaises /\ Aclose

-----------------------------------------------------------------------------
(* connectionMade_async, which attach_stream awaits before it starts the   *)
(* reader.                                                                 *)

\* One after the other; the reader starts once all are connected.
Connect(u) ==
    /\ phase = "connecting" /\ u \in Used
    /\ link[u] = "none" /\ \A w \in Used : w < u => link[w] # "none"
    /\ link' = [link EXCEPT ![u] = "open"]
    /\ held' = held \cup {u}
    /\ IF held' = Used THEN phase' = "up" /\ rpc' = "receive" ELSE UNCHANGED <<phase, rpc>>
    /\ UNCHANGED <<variant, stream, connected, secure, closing, onwire, slot, finals, current,
                   services, next, client, got, todo, coming, accepted>>

\* ProxyBase closes the connection: nothing can have been queued yet.
BaseConnectFails ==
    /\ phase = "connecting" /\ variant = "base"
    /\ phase' = "failed" /\ rpc' = "ended" /\ Aclose
    /\ UNCHANGED <<variant, secure, finals, upstream, current, services, slot, next, client>>

\* Proxy serves on without a proxied server.
ProxyConnectFails ==
    /\ phase = "connecting" /\ variant \in {"proxy", "binding"}
    /\ phase' = "failed" /\ rpc' = "receive"
    /\ UNCHANGED <<variant, secure, finals, connection, upstream, current, services, slot, next,
                   client>>

\* The merging proxy closes the connection and raises.
MergedConnectFails ==
    /\ phase = "connecting" /\ variant = "merged"
    /\ phase' = "raised" /\ rpc' = "ended" /\ Aclose
    /\ UNCHANGED <<variant, secure, finals, upstream, current, services, slot, next, client>>

ConnectFails == BaseConnectFails \/ ProxyConnectFails \/ MergedConnectFails

-----------------------------------------------------------------------------
(* The reader.                                                             *)

\* What the merging proxy is unwilling to perform, a bind whose version or
\* controls the binding proxy refuses, and what a class answers itself.
Unwilling(kind) == variant = "merged" /\ kind \in {"update", "starttls"}
BadBind(kind) == variant = "binding" /\ kind = "badbind"
OwnTLS(kind) == variant = "base" /\ kind = "starttls"
Own(kind) == Unwilling(kind) \/ BadBind(kind) \/ OwnTLS(kind)

\* Requests whose answers are a search result or a bind response.
HasLast(kind) == kind \in {"bind", "badbind", "search"}

Reading == rpc = "receive" /\ next <= Len(requests)

\* Behind what was said of it a request is answered with an error: _cbOtherError.
ErrorBehind(id, said) ==
    \/ /\ got' = [got EXCEPT ![id] = @ \o said \o IF stream THEN <<"error">> ELSE <<>>]
       /\ UNCHANGED <<stream, connected, held, closing>>
    \/ stream /\ ~peer /\ StreamCloses /\ got' = [got EXCEPT ![id] = @ \o said]

\* A StartTLS is answered and TLS raised behind the answer. A handshake that fails
\* raises, which is answered for once more, on the stream in the clear, and the
\* reader goes on with it; so is an answer that could not be written.
RaiseTLS(id) ==
    \/ /\ stream /\ peer /\ secure' = TRUE
       /\ got' = [got EXCEPT ![id] = Append(@, "ok")]
       /\ UNCHANGED <<stream, connected, held, closing>>
    \/ stream /\ ErrorBehind(id, <<"ok">>) /\ UNCHANGED secure
    \/ (~stream \/ ~peer) /\ ErrorBehind(id, <<>>) /\ UNCHANGED secure

\* Once TLS is raised, or without a context for it, a StartTLS is refused.
HandleStartTLS ==
    /\ Reading /\ OwnTLS(requests[next])
    /\ next' = next + 1
    /\ IF TLSOffered /\ ~secure THEN RaiseTLS(next)
       ELSE Reply(next, "no") /\ UNCHANGED secure
    /\ UNCHANGED <<variant, phase, finals, upstream, rpc, current, services, slot, client>>

\* handle_async: a handler that raises is answered for.
Refuse ==
    /\ Reading /\ (Unwilling(requests[next]) \/ BadBind(requests[next]))
    /\ next' = next + 1
    /\ Reply(next, "no")
    /\ UNCHANGED <<variant, phase, secure, finals, upstream, rpc, current, services, slot, client>>

\* Without a proxied server: Proxy waits until there is one; when the client is
\* gone ProxyBase queues the request, and the others have nobody to ask.
NobodyToAsk ==
    /\ Reading /\ held = {} /\ ~Own(requests[next])
    /\ next' = next + 1
    /\ rpc' = IF phase = "failed" THEN "waiting" ELSE rpc
    /\ UNCHANGED <<variant, phase, secure, finals, connection, upstream, current, services,
                   slot, client>>

Sends(to, id) ==
    /\ onwire' = onwire \cup (to \X {id})
    /\ todo' = [u \in Servers |-> IF u \in to THEN todo[u] \cup {id} ELSE todo[u]]
    /\ UNCHANGED <<link, coming, accepted>>

\* The request is sent on, to every server, and waited for.
Forwarded(id) ==
    /\ \A u \in held : link[u] = "open"
    /\ IF Answerable(id)
       THEN /\ Sends(held, id)
            /\ slot' = [u \in Servers |-> IF u \in held THEN "unset" ELSE "none"]
            /\ rpc' = "awaiting" /\ current' = id
       ELSE rpc' = "receive" /\ UNCHANGED <<upstream, slot, current>>
    /\ UNCHANGED connection

\* A proxied connection that is lost raises: the sending to the others is
\* cancelled, and what was sent of it stays on the wire.
NotForwarded(id) ==
    /\ \E u \in held : link[u] # "open"
    /\ \E sent \in SUBSET {u \in held : link[u] = "open"} :
          IF Answerable(id) THEN Sends(sent, id) ELSE UNCHANGED upstream
    /\ Reply(id, "error")
    /\ rpc' = "receive" /\ UNCHANGED <<slot, current>>

\* An anonymous bind too: its name is bytes, and compared with a str.
OnServices(kind) == variant = "binding" /\ kind = "bind"

Forward ==
    /\ Reading /\ held # {} /\ ~Own(requests[next]) /\ ~OnServices(requests[next])
    /\ next' = next + 1
    /\ Forwarded(next) \/ NotForwarded(next)
    /\ UNCHANGED <<variant, phase, secure, finals, services, client>>

\* Mutant of Fail: the failure is not answered.
FailSilently ==
    /\ rpc' = "receive" /\ slot' = [u \in Servers |-> "none"]
    /\ UNCHANGED connection

\* A proxied connection was lost while the request waited for it.
Fail ==
    /\ Reply(current, "error")
    /\ rpc' = "receive" /\ slot' = [u \in Servers |-> "none"]

Resume ==
    /\ rpc = "awaiting"
    /\ IF \E u \in Used : slot[u] = "error" THEN Fail
       ELSE /\ \A u \in Used : slot[u] # "unset"
            /\ rpc' = "receive" /\ slot' = [u \in Servers |-> "none"]
            /\ UNCHANGED connection
    /\ UNCHANGED <<variant, phase, secure, finals, upstream, current, services, next, client>>

\* The end of the stream, or a stream closed from here.
ReaderEnds ==
    /\ rpc = "receive" /\ next > Len(requests) /\ (~peer \/ ~stream)
    /\ IF LossRaises THEN rpc' = "raised" /\ UNCHANGED connection ELSE rpc' = "ended" /\ Aclose
    /\ UNCHANGED <<variant, phase, secure, finals, upstream, current, services, slot, next,
                   client>>

-----------------------------------------------------------------------------
(* ServiceBindingProxy: a bind is tried as one of an entry of each service *)
(* in turn, found by a search.                                             *)

TryServices ==
    /\ Reading /\ held # {} /\ OnServices(requests[next])
    /\ next' = next + 1 /\ current' = next
    /\ services' = Services
    /\ rpc' = "searching"
    /\ UNCHANGED <<variant, phase, secure, finals, connection, upstream, slot, client>>

\* The answer to the search for an entry of the next service.
SearchEnds(found) ==
    /\ rpc = "searching" /\ services > 0 /\ link[1] = "open"
    /\ services' = services - 1
    /\ rpc' = IF found THEN "binding" ELSE "searching"
    /\ UNCHANGED <<variant, phase, secure, finals, connection, upstream, current, slot, next,
                   client>>

\* The password is not that of the entry of this service.
BindRefused ==
    /\ rpc = "binding" /\ link[1] = "open"
    /\ rpc' = "searching"
    /\ UNCHANGED <<variant, phase, secure, finals, connection, upstream, current, services, slot,
                   next, client>>

BindAccepted ==
    /\ rpc = "binding" /\ link[1] = "open"
    /\ accepted' = accepted \cup {current}
    /\ Reply(current, "ok") /\ rpc' = "receive"
    /\ UNCHANGED <<variant, phase, secure, finals, link, onwire, todo, coming, current, services,
                   slot, next, client>>

\* The connection is lost, or the server answers with another error.
ServiceFails ==
    /\ rpc = "binding" \/ (rpc = "searching" /\ services > 0)
    /\ Reply(current, "error") /\ rpc' = "receive"
    /\ UNCHANGED <<variant, phase, secure, finals, upstream, current, services, slot, next, client>>

\* _maybeFallback_async: no service has accepted the bind.
FallBack ==
    /\ rpc = "searching" /\ services = 0
    /\ IF Fallback /\ held # {}
       THEN Forwarded(current) \/ NotForwarded(current)
       ELSE /\ rpc' = "receive" /\ Reply(current, IF Fallback THEN "error" ELSE "no")
            /\ UNCHANGED <<upstream, slot, current>>
    /\ UNCHANGED <<variant, phase, secure, finals, services, next, client>>

-----------------------------------------------------------------------------
(* The readers of the proxied connections.                                 *)

\* Mutant of IsLast: a bind response is not taken for the last.
IsLastOfSearch(id, response) == response # "entry" /\ requests[id] = "search"

\* _gotResponse and got_response: what they take for the last response.
IsLast(id, response) == response # "entry" /\ HasLast(requests[id])

\* Mutant of Merge: the last answer counts, whatever the others were.
MergeLast(responses) == responses[Len(responses)]

\* The last success, or the last answer when there is none.
Merge(responses) ==
    IF \E i \in DOMAIN responses : responses[i] = "ok" THEN "ok" ELSE responses[Len(responses)]

\* got_response: the answer of a proxied server is kept until all have answered.
Collect(id, response) ==
    /\ finals' = [finals EXCEPT ![id] = Append(@, response)]
    /\ IF Len(finals'[id]) = Cardinality(held) THEN Reply(id, Merge(finals'[id]))
       ELSE UNCHANGED connection

\* LDAPClient.handle calls the handler; one that has claimed the last response
\* ends the waiting.
HandleResponse(u) ==
    /\ coming[u] # <<>> /\ link[u] = "open"
    /\ coming' = [coming EXCEPT ![u] = Tail(@)]
    /\ LET id == Head(coming[u])[1]
           response == Head(coming[u])[2]
       IN /\ IF variant = "merged" /\ IsLast(id, response) THEN Collect(id, response)
             ELSE Reply(id, response) /\ UNCHANGED finals
          /\ IF IsLast(id, response)
             THEN /\ onwire' = onwire \ {<<u, id>>}
                  /\ slot' = IF id = current /\ slot[u] = "unset"
                             THEN [slot EXCEPT ![u] = "value"] ELSE slot
             ELSE UNCHANGED <<onwire, slot>>
    /\ UNCHANGED <<variant, phase, secure, link, todo, accepted, rpc, current, services, next,
                   client>>

\* Mutant of LinkLost: what is on the wire stays there.
LinkLostSilently(u) ==
    /\ link' = [link EXCEPT ![u] = "lost"]
    /\ todo' = [todo EXCEPT ![u] = {}] /\ coming' = [coming EXCEPT ![u] = <<>>]
    /\ UNCHANGED <<variant, phase, secure, finals, connection, onwire, accepted, reader, client>>

\* LDAPClient.connectionLost fails what is on the wire.
LinkLost(u) ==
    /\ link' = [link EXCEPT ![u] = "lost"]
    /\ onwire' = {w \in onwire : w[1] # u}
    /\ slot' = IF slot[u] = "unset" THEN [slot EXCEPT ![u] = "error"] ELSE slot
    /\ todo' = [todo EXCEPT ![u] = {}] /\ coming' = [coming EXCEPT ![u] = <<>>]
    /\ UNCHANGED <<variant, phase, secure, finals, connection, accepted, rpc, current, services,
                   next, client>>

ServerLost(u) == link[u] = "open" /\ coming[u] = <<>> /\ LinkLost(u)

\* The task that connectionLost started.
CloseLink(u) == u \in closing /\ link[u] = "open" /\ LinkLost(u)

-----------------------------------------------------------------------------
(* Outside: the client and the proxied servers.                            *)

ClientSends(kind) ==
    /\ peer /\ Len(requests) < MaxRequests
    /\ Endless \/ Own(kind) \/ HasLast(kind) \/ kind = "unbind"
    /\ requests' = Append(requests, kind)
    /\ UNCHANGED <<variant, phase, secure, finals, connection, upstream, reader, peer>>

ClientCloses ==
    /\ peer /\ peer' = FALSE
    /\ UNCHANGED <<variant, phase, secure, finals, connection, upstream, reader, requests>>

Sent(u, id, response) ==
    /\ link[u] = "open" /\ id \in todo[u]
    /\ coming' = [coming EXCEPT ![u] = Append(@, <<id, response>>)]
    /\ UNCHANGED <<variant, phase, secure, finals, connection, link, onwire, reader, client>>

ServerSendsEntry(u, id) ==
    /\ id \in todo[u] /\ requests[id] = "search"
    /\ Len(SelectSeq(coming[u] \o [i \in 1..Len(got[id]) |-> <<id, got[id][i]>>],
                     LAMBDA m : m = <<id, "entry">>)) < MaxEntries
    /\ Sent(u, id, "entry") /\ UNCHANGED <<todo, accepted>>

ServerAnswers(u, id) ==
    /\ \E response \in {"ok", "no"} :
         /\ Sent(u, id, response)
         /\ accepted' = IF response = "ok" THEN accepted \cup {id} ELSE accepted
    /\ todo' = [todo EXCEPT ![u] = @ \ {id}]

-----------------------------------------------------------------------------
ReaderStep ==
    \/ HandleStartTLS \/ Refuse \/ NobodyToAsk \/ Forward \/ Resume \/ ReaderEnds
    \/ TryServices \/ (\E found \in BOOLEAN : SearchEnds(found))
    \/ BindRefused \/ BindAccepted \/ ServiceFails \/ FallBack

Next ==
    \/ \E u \in Servers : Connect(u) \/ HandleResponse(u) \/ ServerLost(u) \/ CloseLink(u)
    \/ ConnectFails
    \/ ReaderStep
    \/ \E kind \in Kinds : ClientSends(kind)
    \/ ClientCloses
    \/ \E u \in Servers, id \in Ids : ServerSendsEntry(u, id) \/ ServerAnswers(u, id)

\* Tasks of the program run when they can; a proxied server answers what it is
\* asked, or the connection with it is lost.
Fairness ==
    /\ WF_vars((\E u \in Servers : Connect(u)) \/ ConnectFails)
    /\ WF_vars(ReaderStep)
    /\ \A u \in Servers : /\ WF_vars(HandleResponse(u)) /\ WF_vars(CloseLink(u))
                          /\ \A id \in Ids : WF_vars(ServerAnswers(u, id))

Spec == Init /\ [][Next]_vars
FairSpec == Spec /\ Fairness

-----------------------------------------------------------------------------
\* The types of the state, which AnsweredOnce has with it.
TypeOK ==
    /\ variant \in Variants /\ phase \in {"connecting", "up", "failed", "raised"}
    /\ {stream, connected, secure, peer} \subseteq BOOLEAN
    /\ held \subseteq Servers /\ closing \subseteq Servers
    /\ link \in [Servers -> {"none", "open", "lost"}]
    /\ onwire \subseteq Servers \X Ids
    /\ slot \in [Servers -> {"none", "unset", "value", "error"}]
    /\ rpc \in {"off", "receive", "waiting", "awaiting", "searching", "binding", "ended", "raised"}
    /\ current \in 0..MaxRequests /\ services \in 0..Services /\ next \in 1..MaxRequests + 1
    /\ requests \in Seq(Kinds) /\ todo \in [Servers -> SUBSET Ids] /\ accepted \subseteq Ids

\* The places of the answers in what was written for a request.
Answers(id) == {i \in DOMAIN got[id] : got[id][i] # "entry"}

\* A StartTLS whose handshake failed has two answers.
AnsweredTwice(id) ==
    id \in DOMAIN requests /\ requests[id] = "starttls" /\ got[id] = <<"ok", "error">>

\* A request gets one answer, whatever is lost meanwhile, and from a proxy of one
\* server nothing behind it (Resume against the handlers' replies); but for a
\* StartTLS whose handshake failed, which is told so behind its answer.
AnsweredOnce ==
    /\ TypeOK
    /\ \A id \in Ids :
           \/ AnsweredTwice(id)
           \/ /\ \A i, j \in Answers(id) : i = j
              /\ variant # "merged" => \A i \in Answers(id) : i = Len(got[id])

\* A client is told that it is bound only when a proxied server has accepted the
\* bind, and that it is not only when none has or a connection was lost.
BindAnswerIsTrue ==
    \A id \in 1..Len(requests) :
        requests[id] = "bind" =>
            \A i \in Answers(id) : /\ got[id][i] = "ok" => id \in accepted
                                   /\ got[id][i] = "no" => id \notin accepted

\* "Returns True if this is the last response to the request." (proxybase.py,
\* _gotResponseFromProxiedServer): nobody waits for more of a request than the
\* proxied server sends.
LastResponseIsTold ==
    \A u \in Servers, id \in Ids :
        (<<u, id>> \in onwire /\ id \notin todo[u])
        => \E i \in DOMAIN coming[u] : coming[u][i][1] = id /\ coming[u][i][2] # "entry"

\* Every request that is read while there is a proxied server is answered, unless
\* the connection with the client is lost (handle_async, one request at a time).
RequestsAreAnswered ==
    \A id \in Ids :
        (phase = "up" /\ id <= Len(requests) /\ Answerable(id))
        ~> (Answers(id) # {} \/ ~connected)

\* Once the client is gone no connection with a proxied server is kept
\* (connectionLost).
ServersAreLetGo == ~peer ~> (\A u \in Servers : link[u] # "open")
=============================================================================
