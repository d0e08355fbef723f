----------------------------- MODULE ProxyProofs -----------------------------
(***************************************************************************)
(* What a proxy answers, for any number of proxied servers and requests.   *)
(***************************************************************************)
EXTENDS Proxy, SequenceTheorems, FiniteSetTheorems, TLAPS

Responses == {"entry", "ok", "no", "error"}
Message == Ids \X (Responses \ {"error"})

\* The types that TypeOK has no use for, and what bounds the requests.
TypeInv ==
    /\ TypeOK
    /\ Len(requests) <= MaxRequests
    /\ got \in [Ids -> Seq(Responses)]
    /\ finals \in [Ids -> Seq(Responses \ {"error", "entry"})]
    /\ coming \in [Servers -> Seq(Message)]
    /\ next <= Len(requests) + 1
    /\ rpc \in {"awaiting", "searching", "binding"} => current \in 1..next - 1

\* What a proxied server has still to answer, or whose answer is on its way.
Answering(u) ==
    {id \in Ids : \E i \in DOMAIN coming[u] : coming[u][i][1] = id /\ coming[u][i][2] # "entry"}
Owed(u) == todo[u] \cup Answering(u)
Owing(id) == {u \in Servers : id \in Owed(u)}

\* The acceptances on their way from a proxied server.
Oks(u) == {id \in Ids : \E i \in DOMAIN coming[u] : coming[u][i] = <<id, "ok">>}

\* The proxied servers are all held, or none is, once the reader runs.
HeldInv ==
    /\ held \subseteq Used /\ (held = {} \/ held = Used \/ phase = "connecting")
    /\ phase = "connecting" <=> rpc = "off"
    /\ phase = "connecting" => next = 1 /\ connected

\* Nothing has come of a request that was not read, or whose bind is still tried
\* on the services.
Untouched(id) ==
    /\ got[id] = <<>> /\ finals[id] = <<>> /\ id \notin accepted
    /\ Owing(id) = {} /\ \A u \in Servers : <<u, id>> \notin onwire

Current ==
    /\ rpc \in {"searching", "binding"} =>
          variant = "binding" /\ Untouched(current) /\ requests[current] = "bind"
    /\ \A id \in Ids : id >= next => Untouched(id)

\* The answer to a request ends what a proxied server sends for it.
Orderly(u) ==
    /\ \A i, j \in DOMAIN coming[u] :
          i < j /\ coming[u][i][1] = coming[u][j][1] => coming[u][i][2] = "entry"
    /\ \A i \in DOMAIN coming[u] : coming[u][i][1] \in Owed(u)
    /\ todo[u] \cap Answering(u) = {}
ComingInv == \A u \in Servers : Orderly(u)

\* Who is asked, and of what.
AskedInv ==
    /\ \A i \in DOMAIN requests : requests[i] = "unbind" \/ Own(requests[i]) \/ HasLast(requests[i])
    /\ \A u \in Servers : \A id \in Owed(u) : u \in Used /\ id < next /\ HasLast(requests[id])

FrameInv == HeldInv /\ Current /\ ComingInv /\ AskedInv

\* Whose answer the reader has still to wait for, or never gets.
Undecided == {u \in Servers : slot[u] \in {"unset", "error"}}

SlotInv ==
    /\ rpc = "awaiting" => /\ \A u \in Servers : current \in Owed(u) => slot[u] = "unset"
                           /\ Undecided \subseteq Used
    /\ rpc # "awaiting" => Undecided = {}

\* A server whose answer was collected does not answer again.
CollectedInv ==
    /\ \A id \in Ids : Len(finals[id]) + Cardinality(Owing(id)) <= N
    /\ rpc = "awaiting" => Len(finals[current]) + Cardinality(Undecided) <= N
    /\ variant # "merged" => \A id \in Ids : finals[id] = <<>>

\* Nobody waits for the request, and nothing can make another answer: not all will
\* answer, or all have.
Closed(id) ==
    /\ rpc = "awaiting" /\ id = current => Undecided = {}
    /\ Owing(id) = {} \/ (variant = "merged" /\ Len(finals[id]) + Cardinality(Owing(id)) < N)

Once(id) == \A i, j \in Answers(id) : i = j /\ (variant # "merged" => i = Len(got[id]))

AnsweredOf(id) ==
    /\ \A i \in Answers(id) : Closed(id)
    /\ got[id] = <<"ok", "error">> => Owing(id) = {}
    /\ AnsweredTwice(id) \/ Once(id)

AnsweredInv == \A id \in Ids : AnsweredOf(id)

\* What was written to the client, and what the merging proxy keeps.
Told(id, response) == \E i \in DOMAIN got[id] : got[id][i] = response
Kept(id) == \E i \in DOMAIN finals[id] : finals[id][i] = "ok"

\* An acceptance is on its way or kept, or the answers will not be complete; a
\* refusal is told when nobody can accept any more.
AcceptedInv ==
    /\ \A u \in Servers : Oks(u) \subseteq accepted
    /\ \A id \in Ids : Kept(id) => id \in accepted
    /\ \A id \in accepted :
          \/ \E u \in Servers : id \in Oks(u)
          \/ Kept(id)
          \/ IF variant = "merged" THEN Len(finals[id]) + Cardinality(Owing(id)) < N ELSE Owing(id) = {}
    /\ \A id \in Ids : Told(id, "no") => Owing(id) = {}

ToldInv ==
    \A id \in DOMAIN requests :
        requests[id] = "bind" => /\ Told(id, "ok") => id \in accepted
                                 /\ Told(id, "no") => id \notin accepted

LastInv == \A u \in Servers, id \in Ids : <<u, id>> \in onwire => id \in Owed(u)

-----------------------------------------------------------------------------
(* What the parts of a step do.                                            *)

\* The parts of TypeInv, each of variables that the actions change together.
ConnectionTypes ==
    /\ {stream, connected} \subseteq BOOLEAN /\ held \subseteq Servers /\ closing \subseteq Servers
    /\ got \in [Ids -> Seq(Responses)]

UpstreamTypes ==
    /\ link \in [Servers -> {"none", "open", "lost"}]
    /\ onwire \subseteq Servers \X Ids /\ todo \in [Servers -> SUBSET Ids]
    /\ coming \in [Servers -> Seq(Message)] /\ accepted \subseteq Ids

SlotTypes == slot \in [Servers -> {"none", "unset", "value", "error"}]

PlaceTypes ==
    /\ rpc \in {"off", "receive", "waiting", "awaiting", "searching", "binding", "ended", "raised"}
    /\ current \in 0..MaxRequests /\ services \in 0..Services /\ next \in 1..MaxRequests + 1
    /\ requests \in Seq(Kinds) /\ Len(requests) <= MaxRequests /\ next <= Len(requests) + 1
    /\ rpc \in {"awaiting", "searching", "binding"} => current \in 1..next - 1

OtherTypes ==
    /\ variant \in Variants /\ phase \in {"connecting", "up", "failed", "raised"}
    /\ {secure, peer} \subseteq BOOLEAN
    /\ finals \in [Ids -> Seq(Responses \ {"error", "entry"})]

LEMMA TypeParts ==
  TypeInv => ConnectionTypes /\ UpstreamTypes /\ SlotTypes /\ PlaceTypes /\ OtherTypes
BY DEF TypeInv, TypeOK, ConnectionTypes, UpstreamTypes, SlotTypes, PlaceTypes, OtherTypes

LEMMA PartsType ==
  ConnectionTypes' /\ UpstreamTypes' /\ SlotTypes' /\ PlaceTypes' /\ OtherTypes' => TypeInv'
BY DEF TypeInv, TypeOK, ConnectionTypes, UpstreamTypes, SlotTypes, PlaceTypes, OtherTypes

\* A part stays when its variables do.
LEMMA PartsStay ==
  ASSUME TypeInv
  PROVE  /\ UNCHANGED connection => ConnectionTypes'
         /\ UNCHANGED upstream => UpstreamTypes'
         /\ UNCHANGED slot => SlotTypes'
         /\ UNCHANGED <<rpc, current, services, next, requests>> => PlaceTypes'
         /\ UNCHANGED <<variant, phase, secure, finals, peer>> => OtherTypes'
<1>1. ConnectionTypes /\ UpstreamTypes /\ SlotTypes /\ PlaceTypes /\ OtherTypes
  BY TypeParts
<1>2. UNCHANGED connection => ConnectionTypes'
  BY <1>1 DEF ConnectionTypes, connection
<1>3. UNCHANGED upstream => UpstreamTypes'
  BY <1>1 DEF UpstreamTypes, upstream
<1>4. UNCHANGED slot => SlotTypes'
  BY <1>1 DEF SlotTypes
<1>5. UNCHANGED <<rpc, current, services, next, requests>> => PlaceTypes'
  BY <1>1 DEF PlaceTypes
<1>6. UNCHANGED <<variant, phase, secure, finals, peer>> => OtherTypes'
  BY <1>1 DEF OtherTypes
<1> QED
  BY <1>2, <1>3, <1>4, <1>5, <1>6

\* A response is written or it is not, and the loss of the client that may be
\* found then lets go of the proxied servers.
LEMMA Replying ==
  ASSUME TypeInv, NEW id \in Ids, NEW r \in Responses, Reply(id, r)
  PROVE  /\ got' = got \/ got' = [got EXCEPT ![id] = Append(@, r)]
         /\ held' = held \/ held' = {}
         /\ ConnectionTypes'
<1>1. got' = got \/ got' = [got EXCEPT ![id] = Append(@, r)]
  BY DEF Reply, Aclose
<1>2. ConnectionTypes
  BY TypeParts
<1>3. got' \in [Ids -> Seq(Responses)]
  <2>1. Append(got[id], r) \in Seq(Responses)
    BY <1>2 DEF ConnectionTypes
  <2> QED
    BY <1>1, <1>2, <2>1 DEF ConnectionTypes
<1>4. /\ held' = held \/ held' = {}
      /\ {stream', connected'} \subseteq BOOLEAN /\ held' \subseteq Servers /\ closing' \subseteq Servers
  BY <1>2 DEF Reply, Aclose, StreamCloses, ConnectionLost, ConnectionTypes
<1> QED
  BY <1>1, <1>3, <1>4 DEF ConnectionTypes

\* What raising TLS writes: an answer, an error, or both.
Raised == {<<>>, <<"ok">>, <<"error">>, <<"ok", "error">>}

LEMMA Raising ==
  ASSUME TypeInv, NEW id \in Ids, RaiseTLS(id)
  PROVE  /\ \E w \in Raised : got' = [got EXCEPT ![id] = @ \o w]
         /\ held' = held \/ held' = {}
         /\ ConnectionTypes' /\ secure' \in BOOLEAN
<1>1. ConnectionTypes /\ secure \in BOOLEAN
  BY TypeParts DEF OtherTypes
<1>2. got[id] \in Seq(Responses)
  BY <1>1 DEF ConnectionTypes
<1>3. /\ Append(got[id], "ok") = got[id] \o <<"ok">>
      /\ (got[id] \o <<"ok">>) \o <<"error">> = got[id] \o <<"ok", "error">>
      /\ (got[id] \o <<"ok">>) \o <<>> = got[id] \o <<"ok">>
      /\ (got[id] \o <<>>) \o <<"error">> = got[id] \o <<"error">>
      /\ (got[id] \o <<>>) \o <<>> = got[id] \o <<>>
  BY <1>2
<1>4. PICK w \in Raised : got' = [got EXCEPT ![id] = @ \o w]
  <2>1. CASE got' = [got EXCEPT ![id] = Append(@, "ok")]
    BY <1>3, <2>1 DEF Raised
  <2>2. CASE ErrorBehind(id, <<"ok">>)
    BY <1>3, <2>2 DEF ErrorBehind, Raised
  <2>3. CASE ErrorBehind(id, <<>>)
    BY <1>3, <2>3 DEF ErrorBehind, Raised
  <2> QED
    BY <2>1, <2>2, <2>3 DEF RaiseTLS
<1>5. got[id] \o w \in Seq(Responses)
  <2>1. /\ got[id] \o <<>> \in Seq(Responses) /\ got[id] \o <<"ok">> \in Seq(Responses)
        /\ got[id] \o <<"error">> \in Seq(Responses) /\ got[id] \o <<"ok", "error">> \in Seq(Responses)
    <3>1. /\ <<>> \in Seq(Responses) /\ <<"ok">> \in Seq(Responses)
          /\ <<"error">> \in Seq(Responses) /\ <<"ok", "error">> \in Seq(Responses)
      BY DEF Responses
    <3> QED
      BY <1>2, <3>1
  <2> QED
    BY <1>4, <2>1 DEF Raised
<1>6. /\ held' = held \/ held' = {}
      /\ {stream', connected'} \subseteq BOOLEAN /\ held' \subseteq Servers /\ closing' \subseteq Servers
  <2>1. CASE UNCHANGED <<stream, connected, held, closing>>
    BY <1>1, <2>1 DEF ConnectionTypes
  <2>2. CASE StreamCloses
    BY <1>1, <2>2 DEF StreamCloses, ConnectionLost, ConnectionTypes
  <2> QED
    BY <2>1, <2>2 DEF RaiseTLS, ErrorBehind
<1>8. secure' \in {secure, TRUE}
  BY DEF RaiseTLS
<1>7. got' \in [Ids -> Seq(Responses)]
  BY <1>1, <1>4, <1>5 DEF ConnectionTypes
<1> QED
  BY <1>1, <1>4, <1>6, <1>7, <1>8 DEF ConnectionTypes

LEMMA Closing ==
  ASSUME TypeInv, Aclose
  PROVE  got' = got /\ (held' = held \/ held' = {}) /\ ConnectionTypes'
<1>1. ConnectionTypes
  BY TypeParts
<1> QED
  BY <1>1 DEF Aclose, StreamCloses, ConnectionLost, ConnectionTypes

\* The reader takes the next request.
LEMMA Reads ==
  ASSUME TypeInv, Reading
  PROVE  next \in Ids /\ next < next + 1 /\ next + 1 \in 1..MaxRequests + 1 /\ next + 1 <= Len(requests) + 1
<1>1. PlaceTypes
  BY TypeParts
<1> QED
  BY <1>1, ProxyAssumption DEF PlaceTypes, Reading, Ids

LEMMA Further ==
  ASSUME NEW m \in Nat, NEW n \in Nat, m <= n, NEW i \in 1..m - 1
  PROVE  i \in 1..n - 1
OBVIOUS

\* It goes on, and what it waited for is over.
LEMMA Moves ==
  ASSUME TypeInv, next' = next \/ (Reading /\ next' = next + 1), UNCHANGED requests,
         \/ UNCHANGED current
         \/ current' \in Ids /\ current' < next',
         UNCHANGED services \/ services' = Services \/ (services > 0 /\ services' = services - 1),
         \/ UNCHANGED rpc
         \/ rpc' \in {"receive", "waiting", "ended", "raised"}
         \/ rpc' \in {"awaiting", "searching", "binding"} /\ current' \in Ids /\ current' < next'
  PROVE  PlaceTypes'
<1>1. PlaceTypes
  BY TypeParts
<1>2. next' \in 1..MaxRequests + 1 /\ next' <= Len(requests) + 1 /\ next <= next' /\ next \in Nat
      /\ next' \in Nat
  BY <1>1, Reads, ProxyAssumption DEF PlaceTypes
<1>3. services' \in 0..Services
  BY <1>1, ProxyAssumption DEF PlaceTypes
<1>4. current' \in 0..MaxRequests /\ (current' \in Ids /\ current' < next' => current' \in 1..next' - 1)
  BY <1>1, <1>2, ProxyAssumption DEF PlaceTypes, Ids
<1>5. rpc' \in {"off", "receive", "waiting", "awaiting", "searching", "binding", "ended", "raised"}
  BY <1>1 DEF PlaceTypes
<1>6. rpc' \in {"awaiting", "searching", "binding"} => current' \in 1..next' - 1
  <2>1. CASE current' \in Ids /\ current' < next'
    BY <1>4, <2>1
  <2>2. CASE UNCHANGED <<current, rpc>>
    <3>1. rpc \in {"awaiting", "searching", "binding"} => current \in 1..next - 1
      BY <1>1 DEF PlaceTypes
    <3>2. current \in 1..next - 1 => current \in 1..next' - 1
      BY <1>2, Further
    <3> QED
      BY <2>2, <3>1, <3>2
  <2>3. CASE rpc' \in {"receive", "waiting", "ended", "raised"}
    BY <2>3
  <2> QED
    BY <2>1, <2>2, <2>3
<1> QED
  BY <1>1, <1>2, <1>3, <1>4, <1>5, <1>6 DEF PlaceTypes

LEMMA Waits ==
  ASSUME TypeInv, rpc \in {"awaiting", "searching", "binding"}
  PROVE  current \in Ids /\ current < next
<1>1. PlaceTypes
  BY TypeParts
<1> QED
  BY <1>1, ProxyAssumption DEF PlaceTypes, Ids

LEMMA Asking ==
  ASSUME TypeInv, NEW to \in SUBSET Servers, NEW id \in Ids, Sends(to, id)
  PROVE  UpstreamTypes'
<1>1. UpstreamTypes
  BY TypeParts
<1> QED
  BY <1>1 DEF Sends, UpstreamTypes

LEMMA TypeStep == TypeInv /\ [Next]_vars => TypeInv'
<1> SUFFICES ASSUME TypeInv, [Next]_vars PROVE TypeInv'
  OBVIOUS
<1> USE DEF connection, upstream, reader, client
<1>0. ConnectionTypes /\ UpstreamTypes /\ SlotTypes /\ PlaceTypes /\ OtherTypes
  BY TypeParts
<1>1. ASSUME NEW u \in Servers, Connect(u) PROVE TypeInv'
  <2>1. ConnectionTypes' /\ UpstreamTypes'
    BY <1>0, <1>1 DEF Connect, ConnectionTypes, UpstreamTypes
  <2>2. PlaceTypes'
    BY <1>1, Moves DEF Connect
  <2>3. SlotTypes' /\ OtherTypes'
    BY <1>0, <1>1 DEF Connect, SlotTypes, OtherTypes
  <2> QED
    BY <2>1, <2>2, <2>3, PartsType
<1>2. CASE ConnectFails
  <2>1. ConnectionTypes'
    BY <1>2, Closing, PartsStay DEF ConnectFails, BaseConnectFails, ProxyConnectFails, MergedConnectFails
  <2>2. UpstreamTypes' /\ SlotTypes'
    BY <1>2, PartsStay DEF ConnectFails, BaseConnectFails, ProxyConnectFails, MergedConnectFails
  <2>3. PlaceTypes'
    BY <1>2, Moves DEF ConnectFails, BaseConnectFails, ProxyConnectFails, MergedConnectFails
  <2>4. OtherTypes'
    BY <1>0, <1>2 DEF ConnectFails, BaseConnectFails, ProxyConnectFails, MergedConnectFails, OtherTypes
  <2> QED
    BY <2>1, <2>2, <2>3, <2>4, PartsType
<1>3. ASSUME Reading, next' = next + 1, UNCHANGED <<rpc, current, services, requests>>
      PROVE  PlaceTypes'
  BY <1>3, Moves
<1>4. CASE HandleStartTLS
  <2>1. next \in Ids
    BY <1>4, Reads DEF HandleStartTLS
  <2>2. ConnectionTypes' /\ secure' \in BOOLEAN
    <3>1. CASE Reply(next, "no") /\ UNCHANGED secure
      BY <1>0, <2>1, <3>1, Replying DEF Responses, OtherTypes
    <3>2. CASE RaiseTLS(next)
      BY <2>1, <3>2, Raising
    <3> QED
      BY <1>4, <3>1, <3>2 DEF HandleStartTLS
  <2>3. UpstreamTypes' /\ SlotTypes' /\ PlaceTypes'
    BY <1>3, <1>4, PartsStay DEF HandleStartTLS
  <2>4. OtherTypes'
    BY <1>0, <1>4, <2>2 DEF HandleStartTLS, OtherTypes
  <2> QED
    BY <2>2, <2>3, <2>4, PartsType
<1>5. CASE Refuse
  <2>1. Reply(next, "no") /\ next \in Ids
    BY <1>5, Reads DEF Refuse
  <2>2. ConnectionTypes'
    BY <2>1, Replying DEF Responses
  <2>3. PlaceTypes'
    BY <1>3, <1>5 DEF Refuse
  <2> QED
    BY <1>5, <2>2, <2>3, PartsStay, PartsType DEF Refuse
<1>6. CASE NobodyToAsk
  <2>1. PlaceTypes'
    BY <1>6, Moves DEF NobodyToAsk
  <2> QED
    BY <1>6, <2>1, PartsStay, PartsType DEF NobodyToAsk
<1>8. ASSUME NEW id \in Ids, id < next', next' = next \/ (Reading /\ next' = next + 1), Forwarded(id),
             UNCHANGED <<variant, phase, secure, finals, services, client>>
      PROVE  TypeInv'
  <2>1. CASE Answerable(id)
    <3>1. Sends(held, id) /\ current' = id /\ rpc' = "awaiting" /\ UNCHANGED connection
          /\ slot' = [u \in Servers |-> IF u \in held THEN "unset" ELSE "none"]
      BY <1>8, <2>1 DEF Forwarded
    <3>2. held \in SUBSET Servers
      BY <1>0 DEF ConnectionTypes
    <3>3. UpstreamTypes'
      BY <3>1, <3>2, Asking
    <3>4. SlotTypes'
      BY <3>1 DEF SlotTypes
    <3>5. PlaceTypes'
      BY <1>8, <3>1, Moves
    <3> QED
      BY <1>8, <3>1, <3>3, <3>4, <3>5, PartsStay, PartsType
  <2>2. CASE ~Answerable(id)
    <3>1. rpc' = "receive" /\ UNCHANGED <<upstream, slot, current, connection>>
      BY <1>8, <2>2 DEF Forwarded
    <3>2. PlaceTypes'
      BY <1>8, <3>1, Moves
    <3> QED
      BY <1>8, <3>1, <3>2, PartsStay, PartsType
  <2> QED
    BY <2>1, <2>2
<1>9. ASSUME NEW id \in Ids, next' = next \/ (Reading /\ next' = next + 1), NotForwarded(id),
             UNCHANGED <<variant, phase, secure, finals, services, client>>
      PROVE  TypeInv'
  <2>1. UpstreamTypes'
    BY <1>0, <1>9, Asking, PartsStay DEF NotForwarded, ConnectionTypes
  <2>2. ConnectionTypes'
    BY <1>9, Replying DEF NotForwarded, Responses
  <2>3. rpc' = "receive" /\ UNCHANGED <<slot, current>>
    BY <1>9 DEF NotForwarded
  <2>4. PlaceTypes'
    BY <1>9, <2>3, Moves
  <2> QED
    BY <1>9, <2>1, <2>2, <2>3, <2>4, PartsStay, PartsType
<1>10. CASE Forward
  <2>1. Reading /\ next \in Ids /\ next' = next + 1 /\ next < next'
    BY <1>10, Reads DEF Forward
  <2> QED
    BY <1>8, <1>9, <1>10, <2>1 DEF Forward
<1>11. CASE Resume
  <2>1. current \in Ids
    BY <1>11, Waits DEF Resume
  <2>2. ConnectionTypes'
    BY <1>11, <2>1, Replying, PartsStay DEF Resume, Fail, Responses
  <2>3. SlotTypes' /\ rpc' = "receive"
    BY <1>11 DEF Resume, Fail, SlotTypes
  <2>4. PlaceTypes'
    BY <1>11, <2>3, Moves DEF Resume
  <2> QED
    BY <1>11, <2>2, <2>3, <2>4, PartsStay, PartsType DEF Resume
<1>12. CASE ReaderEnds
  <2>1. ConnectionTypes' /\ rpc' \in {"raised", "ended"}
    BY <1>12, Closing, PartsStay DEF ReaderEnds
  <2>2. PlaceTypes'
    BY <1>12, <2>1, Moves DEF ReaderEnds
  <2> QED
    BY <1>12, <2>1, <2>2, PartsStay, PartsType DEF ReaderEnds
<1>13. CASE TryServices
  <2>1. next \in Ids /\ next < next'
    BY <1>13, Reads DEF TryServices
  <2>2. PlaceTypes'
    BY <1>13, <2>1, Moves DEF TryServices
  <2> QED
    BY <1>13, <2>2, PartsStay, PartsType DEF TryServices
<1>14. ASSUME NEW found \in BOOLEAN, SearchEnds(found) PROVE TypeInv'
  <2>1. current \in Ids /\ current < next
    BY <1>14, Waits DEF SearchEnds
  <2>2. PlaceTypes'
    BY <1>14, <2>1, Moves DEF SearchEnds
  <2> QED
    BY <1>14, <2>2, PartsStay, PartsType DEF SearchEnds
<1>15. CASE BindRefused
  <2>1. current \in Ids /\ current < next
    BY <1>15, Waits DEF BindRefused
  <2>2. PlaceTypes'
    BY <1>15, <2>1, Moves DEF BindRefused
  <2> QED
    BY <1>15, <2>2, PartsStay, PartsType DEF BindRefused
<1>16. ASSUME rpc \in {"searching", "binding"} PROVE current \in Ids /\ current < next
  BY <1>16, Waits
<1>17. CASE BindAccepted
  <2>1. ConnectionTypes'
    BY <1>16, <1>17, Replying DEF BindAccepted, Responses
  <2>2. PlaceTypes'
    BY <1>17, Moves DEF BindAccepted
  <2>3. UpstreamTypes'
    BY <1>0, <1>16, <1>17 DEF BindAccepted, UpstreamTypes
  <2> QED
    BY <1>17, <2>1, <2>2, <2>3, PartsStay, PartsType DEF BindAccepted
<1>18. CASE ServiceFails
  <2>1. ConnectionTypes'
    BY <1>16, <1>18, Replying DEF ServiceFails, Responses
  <2>2. PlaceTypes'
    BY <1>18, Moves DEF ServiceFails
  <2> QED
    BY <1>18, <2>1, <2>2, PartsStay, PartsType DEF ServiceFails
<1>19. CASE FallBack
  <2>1. current \in Ids /\ current < next /\ next' = next
    BY <1>16, <1>19 DEF FallBack
  <2>2. CASE Forwarded(current) \/ NotForwarded(current)
    BY <1>8, <1>9, <1>19, <2>1, <2>2 DEF FallBack
  <2>3. CASE /\ rpc' = "receive" /\ Reply(current, IF Fallback THEN "error" ELSE "no")
             /\ UNCHANGED <<upstream, slot, current>>
    <3>1. ConnectionTypes'
      BY <2>1, <2>3, Replying DEF Responses
    <3>2. PlaceTypes'
      BY <1>19, <2>1, <2>3, Moves DEF FallBack
    <3> QED
      BY <1>19, <2>3, <3>1, <3>2, PartsStay, PartsType DEF FallBack
  <2> QED
    BY <1>19, <2>2, <2>3 DEF FallBack
<1>20. ASSUME NEW u \in Servers, HandleResponse(u) PROVE TypeInv'
  <2> DEFINE id == Head(coming[u])[1]
             response == Head(coming[u])[2]
  <2>1. /\ Head(coming[u]) \in Message /\ Tail(coming[u]) \in Seq(Message)
        /\ id \in Ids /\ response \in Responses \ {"error"}
    BY <1>0, <1>20, HeadTailProperties DEF HandleResponse, Message, UpstreamTypes
  <2>2. UpstreamTypes'
    <3>1. coming' = [coming EXCEPT ![u] = Tail(@)]
      BY <1>20 DEF HandleResponse
    <3>2. coming' \in [Servers -> Seq(Message)]
      BY <1>0, <2>1, <3>1 DEF UpstreamTypes
    <3>3. onwire' \subseteq onwire /\ UNCHANGED <<link, todo, accepted>>
      BY <1>20 DEF HandleResponse
    <3> QED
      BY <1>0, <3>2, <3>3 DEF UpstreamTypes
  <2>3. SlotTypes'
    <3>1. slot' = slot \/ slot' = [slot EXCEPT ![u] = "value"]
      BY <1>20 DEF HandleResponse
    <3> QED
      BY <1>0, <3>1 DEF SlotTypes
  <2>4. ConnectionTypes' /\ finals' \in [Ids -> Seq(Responses \ {"error", "entry"})]
    <3>1. CASE variant = "merged" /\ IsLast(id, response) /\ Collect(id, response)
      <4>1. /\ finals' = [finals EXCEPT ![id] = Append(@, response)]
            /\ response \in Responses \ {"error", "entry"}
        BY <2>1, <3>1 DEF Collect, IsLast
      <4>2. /\ finals' \in [Ids -> Seq(Responses \ {"error", "entry"})]
            /\ finals'[id] = Append(finals[id], response)
        BY <1>0, <2>1, <4>1 DEF OtherTypes
      <4>3. Merge(finals'[id]) \in Responses
        <5> DEFINE f == finals'[id]
        <5>1. f \in Seq(Responses \ {"error", "entry"}) /\ Len(f) \in 1..Len(f)
          BY <1>0, <2>1, <4>1, <4>2, SMTT(60) DEF OtherTypes
        <5> HIDE DEF f
        <5>2. f[Len(f)] \in Responses
          BY <5>1
        <5>3. Merge(f) \in Responses
          BY <5>2 DEF Merge, Responses
        <5> QED
          BY <5>3 DEF f
      <4>4. Reply(id, Merge(finals'[id])) \/ UNCHANGED connection
        BY <3>1 DEF Collect
      <4> HIDE DEF id, response
      <4> QED
        BY <2>1, <4>2, <4>3, <4>4, Replying, PartsStay
    <3>2. CASE Reply(id, response) /\ UNCHANGED finals
      <4> HIDE DEF id, response
      <4> QED
        BY <1>0, <2>1, <3>2, Replying DEF OtherTypes
    <3> QED
      BY <1>20, <3>1, <3>2 DEF HandleResponse
  <2>5. PlaceTypes'
    BY <1>20, PartsStay DEF HandleResponse
  <2>6. OtherTypes'
    BY <1>0, <1>20, <2>4 DEF HandleResponse, OtherTypes
  <2> QED
    BY <2>2, <2>3, <2>4, <2>5, <2>6, PartsType
<1>21. ASSUME NEW u \in Servers, LinkLost(u) PROVE TypeInv'
  <2>1. <<>> \in Seq(Message)
    OBVIOUS
  <2>2. UpstreamTypes'
    BY <1>0, <1>21, <2>1 DEF LinkLost, UpstreamTypes
  <2>3. SlotTypes'
    BY <1>0, <1>21 DEF LinkLost, SlotTypes
  <2> QED
    BY <1>21, <2>2, <2>3, PartsStay, PartsType DEF LinkLost
<1>22. ASSUME NEW kind \in Kinds, ClientSends(kind) PROVE TypeInv'
  <2>1. /\ requests' = Append(requests, kind) /\ Len(requests) < MaxRequests
        /\ UNCHANGED <<variant, phase, secure, finals, connection, upstream, reader, peer>>
    BY <1>22 DEF ClientSends
  <2>2. requests' \in Seq(Kinds) /\ Len(requests') = Len(requests) + 1 /\ Len(requests) \in Nat
    BY <1>0, <2>1 DEF PlaceTypes
  <2>3. PlaceTypes'
    BY <1>0, <2>1, <2>2, ProxyAssumption DEF PlaceTypes
  <2> QED
    BY <2>1, <2>3, PartsStay, PartsType
<1>23. CASE ClientCloses
  <2>1. OtherTypes'
    BY <1>0, <1>23 DEF ClientCloses, OtherTypes
  <2> QED
    BY <1>23, <2>1, PartsStay, PartsType DEF ClientCloses
<1>24. ASSUME NEW u \in Servers, NEW id \in Ids, NEW r \in Responses \ {"error"}, Sent(u, id, r),
              todo' \in [Servers -> SUBSET Ids], accepted' \subseteq Ids
       PROVE  TypeInv'
  <2>1. Append(coming[u], <<id, r>>) \in Seq(Message)
    BY <1>0 DEF Message, UpstreamTypes
  <2>2. UpstreamTypes'
    BY <1>0, <1>24, <2>1 DEF Sent, UpstreamTypes
  <2> QED
    BY <1>24, <2>2, PartsStay, PartsType DEF Sent
<1>25. ASSUME NEW u \in Servers, NEW id \in Ids, ServerSendsEntry(u, id) PROVE TypeInv'
  BY <1>0, <1>24, <1>25 DEF ServerSendsEntry, Responses, UpstreamTypes
<1>26. ASSUME NEW u \in Servers, NEW id \in Ids, ServerAnswers(u, id) PROVE TypeInv'
  <2>1. PICK r \in {"ok", "no"} : /\ Sent(u, id, r)
                                 /\ accepted' = IF r = "ok" THEN accepted \cup {id} ELSE accepted
    BY <1>26 DEF ServerAnswers
  <2>2. todo' \in [Servers -> SUBSET Ids] /\ accepted' \subseteq Ids
    BY <1>0, <1>26, <2>1 DEF ServerAnswers, UpstreamTypes
  <2> QED
    BY <1>24, <2>1, <2>2 DEF Responses
<1>27. CASE UNCHANGED vars
  BY <1>27, PartsStay, PartsType DEF vars
<1> QED
  BY <1>1, <1>2, <1>4, <1>5, <1>6, <1>10, <1>11, <1>12, <1>13, <1>14, <1>15, <1>17, <1>18, <1>19, <1>20,
     <1>21, <1>22, <1>23, <1>25, <1>26, <1>27 DEF Next, ReaderStep, ServerLost, CloseLink
-----------------------------------------------------------------------------
(* What the proxied servers owe.                                           *)

LEMMA Few ==
  ASSUME NEW S \in SUBSET Servers, NEW T \in SUBSET Servers
  PROVE  /\ Cardinality(S) \in 0..N /\ (Cardinality(S) = 0 <=> S = {})
         /\ S \subseteq T => Cardinality(S) <= Cardinality(T)
         /\ S \subseteq T /\ S # T => Cardinality(S) < Cardinality(T)
         /\ \A u \in S : Cardinality(S \ {u}) = Cardinality(S) - 1
         /\ Cardinality(Servers) = N /\ (S # Servers => Cardinality(S) < N)
<1>1. IsFiniteSet(Servers) /\ Cardinality(Servers) = N
  BY FS_Interval, ProxyAssumption DEF Servers
<1>2. IsFiniteSet(S) /\ IsFiniteSet(T) /\ Cardinality(S) <= N
  BY <1>1, FS_Subset
<1>3. Cardinality(S) \in Nat /\ Cardinality(T) \in Nat
  BY <1>2, FS_CardinalityType
<1>4. S \subseteq T => Cardinality(S) <= Cardinality(T) /\ (S # T => Cardinality(S) < Cardinality(T))
  BY <1>2, <1>3, FS_Subset
<1>5. Cardinality(S) = 0 <=> S = {}
  BY <1>2, FS_EmptySet
<1>6. \A u \in S : Cardinality(S \ {u}) = Cardinality(S) - 1
  BY <1>2, FS_RemoveElement
<1>7. S # Servers => Cardinality(S) < N
  BY <1>1, <1>2, <1>3, FS_Subset, ProxyAssumption
<1> QED
  BY <1>1, <1>2, <1>3, <1>4, <1>5, <1>6, <1>7, ProxyAssumption

LEMMA SendsOwes ==
  ASSUME TypeInv, NEW to \in SUBSET Servers, NEW id \in Ids, Sends(to, id)
  PROVE  /\ \A u \in Servers : Owed(u)' = IF u \in to THEN Owed(u) \cup {id} ELSE Owed(u)
         /\ \A u \in Servers : Oks(u)' = Oks(u)
         /\ (ComingInv /\ \A u \in to : id \notin Owed(u)) => ComingInv'
<1>1. \A u \in Servers : todo'[u] = IF u \in to THEN todo[u] \cup {id} ELSE todo[u]
  BY DEF Sends
<1>2. coming' = coming /\ \A u \in Servers : Answering(u)' = Answering(u) /\ Oks(u)' = Oks(u)
  BY DEF Sends, Answering, Oks
<1>3. \A u \in Servers : Owed(u)' = IF u \in to THEN Owed(u) \cup {id} ELSE Owed(u)
  BY <1>1, <1>2 DEF Owed
<1>4. ASSUME ComingInv, \A u \in to : id \notin Owed(u), NEW u \in Servers PROVE Orderly(u)'
  <2>1. Orderly(u) /\ (u \in to => id \notin Answering(u))
    BY <1>4 DEF ComingInv, Owed
  <2> QED
    BY <1>1, <1>2, <1>3, <2>1 DEF Orderly
<1> QED
  BY <1>2, <1>3, <1>4 DEF ComingInv

\* What a server is asked and sends does not change for the others.
LEMMA OthersOwe ==
  ASSUME NEW w, todo'[w] = todo[w], coming'[w] = coming[w]
  PROVE  Owed(w)' = Owed(w) /\ Answering(w)' = Answering(w) /\ Oks(w)' = Oks(w) /\ (Orderly(w) => Orderly(w)')
BY DEF Owed, Answering, Oks, Orderly

LEMMA LostOwes ==
  ASSUME TypeInv, ComingInv, NEW u \in Servers, LinkLost(u)
  PROVE  /\ \A w \in Servers : Owed(w)' = IF w = u THEN {} ELSE Owed(w)
         /\ \A w \in Servers : Oks(w)' = IF w = u THEN {} ELSE Oks(w)
         /\ ComingInv'
<1>1. \A w \in Servers : w # u => todo'[w] = todo[w] /\ coming'[w] = coming[w]
  BY DEF LinkLost, TypeInv, TypeOK
<1>2. todo'[u] = {} /\ coming'[u] = <<>>
  BY DEF LinkLost, TypeInv, TypeOK
<1>3. Owed(u)' = {} /\ Oks(u)' = {} /\ Orderly(u)'
  BY <1>2 DEF Owed, Answering, Oks, Orderly
<1> QED
  BY <1>1, <1>3, OthersOwe DEF ComingInv

\* A server that sends changes only where what it owes is.
LEMMA SentOwes ==
  ASSUME TypeInv, ComingInv, NEW u \in Servers, NEW id \in Ids,
         ServerSendsEntry(u, id) \/ ServerAnswers(u, id)
  PROVE  /\ \A w \in Servers : Owed(w)' = Owed(w)
         /\ \E new \in SUBSET Owed(u) :
              /\ accepted' = accepted \cup new
              /\ \A w \in Servers : Oks(w)' = IF w = u THEN Oks(w) \cup new ELSE Oks(w)
         /\ ComingInv'
<1>1. PICK r \in {"entry", "ok", "no"} :
        /\ Sent(u, id, r)
        /\ accepted' = IF r = "ok" THEN accepted \cup {id} ELSE accepted
        /\ r = "entry" => todo' = todo
        /\ r # "entry" => todo' = [todo EXCEPT ![u] = @ \ {id}]
  BY DEF ServerSendsEntry, ServerAnswers
<1>2. /\ \A w \in Servers : w # u => todo'[w] = todo[w] /\ coming'[w] = coming[w]
      /\ id \in todo[u] /\ coming'[u] = Append(coming[u], <<id, r>>)
      /\ todo'[u] = IF r = "entry" THEN todo[u] ELSE todo[u] \ {id}
  BY <1>1 DEF Sent, TypeInv, TypeOK
<1>3. /\ Len(coming[u]) \in Nat /\ DOMAIN coming[u] = 1..Len(coming[u])
      /\ DOMAIN coming'[u] = 1..Len(coming[u]) + 1
      /\ coming'[u][Len(coming[u]) + 1] = <<id, r>>
      /\ \A i \in DOMAIN coming[u] : coming'[u][i] = coming[u][i]
  <2>1. coming[u] \in Seq(Message)
    BY DEF TypeInv
  <2>2. <<id, r>> \in Message
    BY DEF Message, Responses
  <2> QED
    BY <1>2, <2>1, <2>2, AppendProperties
<1>4. Answering(u)' = IF r = "entry" THEN Answering(u) ELSE Answering(u) \cup {id}
  <2>1. ASSUME NEW i \in Ids PROVE i \in Answering(u)' <=> i \in Answering(u) \/ (i = id /\ r # "entry")
    BY <1>3 DEF Answering
  <2> QED
    BY <2>1 DEF Answering
<1>5. Owed(u)' = Owed(u)
  BY <1>2, <1>4 DEF Owed
<1>6. Orderly(u)'
  <2>1. Orderly(u) /\ id \notin Answering(u) /\ id \in Owed(u)
    BY <1>2 DEF ComingInv, Orderly, Owed
  <2>2. \A i \in DOMAIN coming[u] : coming[u][i][1] = id => coming[u][i][2] = "entry"
    BY <2>1 DEF Answering
  <2>3. \A i, j \in DOMAIN coming'[u] :
          i < j /\ coming'[u][i][1] = coming'[u][j][1] => coming'[u][i][2] = "entry"
    BY <1>3, <2>1, <2>2 DEF Orderly
  <2>4. \A i \in DOMAIN coming'[u] : coming'[u][i][1] \in Owed(u)'
    BY <1>3, <1>5, <2>1 DEF Orderly
  <2>5. todo'[u] \cap Answering(u)' = {}
    BY <1>2, <1>4, <2>1 DEF Orderly
  <2> QED
    BY <2>3, <2>4, <2>5 DEF Orderly
<1>7. \E new \in SUBSET Owed(u) :
        /\ accepted' = accepted \cup new
        /\ \A w \in Servers : Oks(w)' = IF w = u THEN Oks(w) \cup new ELSE Oks(w)
  <2> DEFINE new == IF r = "ok" THEN {id} ELSE {}
  <2>1. \A i \in Ids : i \in Oks(u)' <=> i \in Oks(u) \/ i \in new
    BY <1>3 DEF Oks
  <2>2. Oks(u)' = Oks(u) \cup new
    BY <2>1 DEF Oks
  <2>3. new \in SUBSET Owed(u) /\ accepted' = accepted \cup new
    BY <1>1, <1>2 DEF Owed
  <2> HIDE DEF new
  <2> QED
    BY <1>2, <2>2, <2>3, OthersOwe
<1> QED
  BY <1>2, <1>5, <1>6, <1>7, OthersOwe DEF ComingInv

\* The answer that is handled is owed no longer; an entry leaves it owed.
LEMMA HandledOwes ==
  ASSUME TypeInv, ComingInv, NEW u \in Servers, HandleResponse(u),
         NEW id, id = Head(coming[u])[1], NEW r, r = Head(coming[u])[2]
  PROVE  /\ id \in Ids /\ r \in {"entry", "ok", "no"} /\ id \in Owed(u)
         /\ \A w \in Servers : Owed(w)' = IF w = u /\ r # "entry" THEN Owed(w) \ {id} ELSE Owed(w)
         /\ \A w \in Servers : Oks(w)' = IF w = u /\ r # "entry" THEN Oks(w) \ {id} ELSE Oks(w)
         /\ r # "entry" => (r = "ok" <=> id \in Oks(u))
         /\ ComingInv'
<1>1. /\ Len(coming[u]) \in Nat /\ DOMAIN coming[u] = 1..Len(coming[u])
      /\ Len(coming[u]) > 0 /\ coming[u][1] \in Message /\ Head(coming[u]) = coming[u][1]
      /\ DOMAIN Tail(coming[u]) = 1..Len(coming[u]) - 1
      /\ \A i \in 1..Len(coming[u]) - 1 : Tail(coming[u])[i] = coming[u][i + 1]
  <2>1. coming[u] \in Seq(Message) /\ coming[u] # <<>>
    BY DEF HandleResponse, TypeInv
  <2> QED
    BY <2>1, HeadTailProperties
<1>2. /\ \A w \in Servers : todo'[w] = todo[w] /\ (w # u => coming'[w] = coming[w])
      /\ coming'[u] = Tail(coming[u])
  BY DEF HandleResponse, TypeInv
<1>3. id = coming[u][1][1] /\ r = coming[u][1][2] /\ 1 \in DOMAIN coming[u] /\ Orderly(u)
  BY <1>1 DEF ComingInv
<1>4. id \in Ids /\ r \in {"entry", "ok", "no"} /\ id \in Owed(u)
  BY <1>1, <1>3 DEF Message, Responses, Orderly
<1>5. DOMAIN coming'[u] = 1..Len(coming[u]) - 1
      /\ \A i \in 1..Len(coming[u]) - 1 : coming'[u][i] = coming[u][i + 1] /\ i + 1 \in DOMAIN coming[u]
  BY <1>1, <1>2
<1>6. \A i \in DOMAIN coming[u] : coming[u][i][1] = id /\ i # 1 => r = "entry"
  BY <1>1, <1>3 DEF Orderly
<1>7. Answering(u)' = IF r = "entry" THEN Answering(u) ELSE Answering(u) \ {id}
  <2>1. ASSUME NEW i \in Answering(u)'
        PROVE  i \in Answering(u) /\ (r # "entry" => i # id)
    <3>1. PICK k \in 1..Len(coming[u]) - 1 : coming[u][k + 1][1] = i /\ coming[u][k + 1][2] # "entry"
      BY <1>5, <2>1 DEF Answering
    <3>2. k + 1 \in DOMAIN coming[u] /\ k + 1 # 1
      BY <1>5
    <3> QED
      BY <1>6, <2>1, <3>1, <3>2 DEF Answering
  <2>2. ASSUME NEW i \in Answering(u), r # "entry" => i # id
        PROVE  i \in Answering(u)'
    <3>1. PICK k \in DOMAIN coming[u] : coming[u][k][1] = i /\ coming[u][k][2] # "entry"
      BY <2>2 DEF Answering
    <3>2. k # 1
      BY <1>3, <2>2, <3>1
    <3>3. k - 1 \in 1..Len(coming[u]) - 1 /\ (k - 1) + 1 = k
      BY <1>1, <3>2
    <3> QED
      BY <1>5, <2>2, <3>1, <3>3 DEF Answering
  <2> QED
    BY <2>1, <2>2
<1>8. r # "entry" => id \notin todo[u]
  BY <1>3, <1>4 DEF Orderly, Answering
<1>9. Owed(u)' = IF r # "entry" THEN Owed(u) \ {id} ELSE Owed(u)
  BY <1>2, <1>7, <1>8 DEF Owed
<1>10. Orderly(u)'
  <2>1. \A i, j \in DOMAIN coming'[u] :
          i < j /\ coming'[u][i][1] = coming'[u][j][1] => coming'[u][i][2] = "entry"
    <3> SUFFICES ASSUME NEW i \in 1..Len(coming[u]) - 1, NEW j \in 1..Len(coming[u]) - 1, i < j,
                        coming[u][i + 1][1] = coming[u][j + 1][1]
                 PROVE  coming[u][i + 1][2] = "entry"
      BY <1>5
    <3>1. i + 1 < j + 1 /\ i + 1 \in DOMAIN coming[u] /\ j + 1 \in DOMAIN coming[u]
      BY <1>1, <1>5
    <3> QED
      BY <1>3, <3>1 DEF Orderly
  <2>2. \A i \in DOMAIN coming'[u] : coming'[u][i][1] \in Owed(u)'
    <3> SUFFICES ASSUME NEW i \in 1..Len(coming[u]) - 1 PROVE coming[u][i + 1][1] \in Owed(u)'
      BY <1>5
    <3>1. i + 1 \in DOMAIN coming[u] /\ i + 1 # 1
      BY <1>1, <1>5
    <3>2. coming[u][i + 1][1] \in Owed(u) /\ (coming[u][i + 1][1] = id => r = "entry")
      BY <1>3, <1>6, <3>1 DEF Orderly
    <3> QED
      BY <1>9, <3>2
  <2>3. todo'[u] \cap Answering(u)' = {}
    BY <1>2, <1>3, <1>7 DEF Orderly
  <2> QED
    BY <2>1, <2>2, <2>3 DEF Orderly
<1>11. coming[u][1] = <<id, r>>
  BY <1>1, <1>3 DEF Message
<1>12. \A i \in Oks(u) : i = id => r = "ok"  \/ r = "entry"
  BY <1>1, <1>3, <1>6, <1>11 DEF Oks
<1>13. r = "ok" => id \in Oks(u)
  BY <1>3, <1>4, <1>11 DEF Oks
<1>14. Oks(u)' = IF r # "entry" THEN Oks(u) \ {id} ELSE Oks(u)
  <2>1. ASSUME NEW i \in Oks(u)' PROVE i \in Oks(u) /\ (r # "entry" => i # id)
    <3>1. PICK k \in 1..Len(coming[u]) - 1 : coming[u][k + 1] = <<i, "ok">>
      BY <1>5, <2>1 DEF Oks
    <3>2. k + 1 \in DOMAIN coming[u] /\ k + 1 # 1
      BY <1>5
    <3> QED
      BY <1>6, <2>1, <3>1, <3>2 DEF Oks
  <2>2. ASSUME NEW i \in Oks(u), r # "entry" => i # id PROVE i \in Oks(u)'
    <3>1. PICK k \in DOMAIN coming[u] : coming[u][k] = <<i, "ok">>
      BY <2>2 DEF Oks
    <3>2. k # 1
      BY <1>11, <2>2, <3>1
    <3>3. k - 1 \in 1..Len(coming[u]) - 1 /\ (k - 1) + 1 = k
      BY <1>1, <3>2
    <3>4. k - 1 \in DOMAIN coming'[u] /\ coming'[u][k - 1] = <<i, "ok">>
      BY <1>5, <3>1, <3>3
    <3>5. i \in Ids
      BY <2>2 DEF Oks
    <3> QED
      BY <3>4, <3>5 DEF Oks
  <2> QED
    BY <2>1, <2>2
<1> QED
  BY <1>2, <1>4, <1>9, <1>10, <1>12, <1>13, <1>14, OthersOwe DEF ComingInv
-----------------------------------------------------------------------------
(* The kinds of steps, by what they do to the requests that are owed.      *)

\* The same acceptances, made and on their way.
OksSame == accepted' = accepted /\ \A u \in Servers : Oks(u)' = Oks(u)

\* Nothing is done about any request but, it may be, to read it.
Quiet ==
    /\ \A u \in Servers : Owed(u)' = Owed(u)
    /\ \E u \in Servers : \E new \in SUBSET Owed(u) :
         /\ accepted' = accepted \cup new
         /\ \A w \in Servers : Oks(w)' = IF w = u THEN Oks(w) \cup new ELSE Oks(w)
    /\ UNCHANGED <<variant, onwire, finals, got, slot>>
    /\ \/ rpc' # "awaiting" /\ rpc # "awaiting"
       \/ UNCHANGED <<rpc, current>>

\* The proxy answers a request that no proxied server has or all have: only some
\* were asked before the sending failed.
Itself(id, response) ==
    /\ Untouched(id) /\ id \in DOMAIN requests /\ id < next' /\ rpc # "awaiting" /\ rpc' = "receive"
    /\ \E sent \in SUBSET Used :
         /\ sent # Used /\ (sent # {} => HasLast(requests[id]) /\ response = "error")
         /\ \A u \in Servers : Owed(u)' = IF u \in sent THEN Owed(u) \cup {id} ELSE Owed(u)
         /\ onwire' = onwire \cup (sent \X {id})
    /\ got' = got \/ got' = [got EXCEPT ![id] = Append(@, response)]
    /\ UNCHANGED <<variant, finals, slot>> /\ \A u \in Servers : Oks(u)' = Oks(u)
    /\ \/ accepted' = accepted /\ (response = "ok" => requests[id] = "starttls")
       \/ accepted' = accepted \cup {id} /\ response = "ok" /\ variant = "binding"

\* A StartTLS is answered and then told that TLS could not be raised.
Retracts(id) ==
    /\ Untouched(id) /\ id \in DOMAIN requests /\ id < next' /\ requests[id] = "starttls"
    /\ rpc # "awaiting" /\ rpc' = "receive"
    /\ \A u \in Servers : Owed(u)' = Owed(u)
    /\ got' = [got EXCEPT ![id] = <<"ok", "error">>]
    /\ UNCHANGED <<variant, onwire, finals, slot>> /\ OksSame

\* The request is sent on and waited for.
Asks(id) ==
    /\ Untouched(id) /\ id \in DOMAIN requests /\ id < next' /\ HasLast(requests[id])
    /\ rpc # "awaiting" /\ rpc' = "awaiting" /\ current' = id
    /\ \A u \in Servers : Owed(u)' = IF u \in Used THEN Owed(u) \cup {id} ELSE Owed(u)
    /\ onwire' = onwire \cup (Used \X {id})
    /\ slot' = [u \in Servers |-> IF u \in Used THEN "unset" ELSE "none"]
    /\ UNCHANGED <<variant, finals, got>> /\ OksSame

\* The waiting ends, with an error when a connection was lost.
Wakes ==
    /\ rpc = "awaiting" /\ rpc' = "receive"
    /\ \A u \in Servers : Owed(u)' = Owed(u)
    /\ slot' = [u \in Servers |-> "none"]
    /\ \/ got' = got
       \/ /\ \E u \in Used : slot[u] = "error"
          /\ got' = [got EXCEPT ![current] = Append(@, "error")]
    /\ UNCHANGED <<variant, onwire, finals>> /\ OksSame

\* An entry or an answer of a proxied server is handled.
Relays(u, id) ==
    /\ id \in Owed(u) /\ \A w \in Servers : Owed(w)' = Owed(w)
    /\ got' = got \/ got' = [got EXCEPT ![id] = Append(@, "entry")]
    /\ UNCHANGED <<variant, onwire, finals, slot, rpc, current>> /\ OksSame

Takes(u, id, response) ==
    /\ id \in Owed(u)
    /\ \A w \in Servers : Owed(w)' = IF w = u THEN Owed(w) \ {id} ELSE Owed(w)
    /\ onwire' = onwire \ {<<u, id>>}
    /\ slot' = IF id = current /\ slot[u] = "unset" THEN [slot EXCEPT ![u] = "value"] ELSE slot
    /\ \/ /\ variant # "merged" /\ UNCHANGED finals
          /\ got' = got \/ got' = [got EXCEPT ![id] = Append(@, response)]
       \/ /\ variant = "merged" /\ finals' = [finals EXCEPT ![id] = Append(@, response)]
          /\ \/ got' = got
             \/ /\ Len(finals[id]) + 1 = N
                /\ got' = [got EXCEPT ![id] = Append(@, Merge(Append(finals[id], response)))]
    /\ UNCHANGED <<variant, rpc, current, accepted>>
    /\ response = "ok" <=> id \in Oks(u)
    /\ \A w \in Servers : Oks(w)' = IF w = u THEN Oks(w) \ {id} ELSE Oks(w)

\* The connection with a proxied server is lost.
Loses(u) ==
    /\ \A w \in Servers : Owed(w)' = IF w = u THEN {} ELSE Owed(w)
    /\ onwire' = {w \in onwire : w[1] # u}
    /\ slot' = IF slot[u] = "unset" THEN [slot EXCEPT ![u] = "error"] ELSE slot
    /\ UNCHANGED <<variant, finals, got, rpc, current, accepted>>
    /\ \A w \in Servers : Oks(w)' = IF w = u THEN {} ELSE Oks(w)

StepKind ==
    \/ Quiet
    \/ \E id \in Ids, response \in {"ok", "no", "error"} : Itself(id, response)
    \/ \E id \in Ids : Retracts(id) \/ Asks(id)
    \/ Wakes
    \/ \E u \in Servers, id \in Ids : Relays(u, id)
    \/ \E u \in Servers, id \in Ids, response \in {"ok", "no"} : Takes(u, id, response)
    \/ \E u \in Servers : Loses(u)

LEMMA ReadsNext ==
  ASSUME TypeInv, FrameInv, Reading
  PROVE  /\ next \in Ids /\ next \in DOMAIN requests /\ next < next + 1 /\ Untouched(next)
         /\ requests[next] \in Kinds
<1>1. next \in Ids /\ next \in DOMAIN requests /\ next < next + 1
  BY ProxyAssumption DEF TypeInv, TypeOK, Reading, Ids
<1>2. requests[next] \in Kinds
  BY <1>1 DEF TypeInv, TypeOK
<1>3. Untouched(next)
  BY <1>1 DEF FrameInv, Current, TypeInv, TypeOK
<1> QED
  BY <1>1, <1>2, <1>3

LEMMA TriesCurrent ==
  ASSUME TypeInv, FrameInv, rpc \in {"searching", "binding"}
  PROVE  /\ current \in Ids /\ current \in DOMAIN requests /\ current < next
         /\ Untouched(current) /\ requests[current] = "bind" /\ variant = "binding"
<1>1. Untouched(current) /\ requests[current] = "bind" /\ variant = "binding"
  BY DEF FrameInv, Current
<1>2. current \in 1..next - 1 /\ next \in 1..MaxRequests + 1 /\ next <= Len(requests) + 1
      /\ Len(requests) \in Nat /\ DOMAIN requests = 1..Len(requests)
  BY DEF TypeInv, TypeOK
<1> QED
  BY <1>1, <1>2, ProxyAssumption DEF Ids

\* Whom the running reader sends to.
LEMMA AllHeld ==
  ASSUME FrameInv, rpc # "off", held # {}
  PROVE  held = Used
BY DEF FrameInv, HeldInv

\* An answer of the proxy itself, with the proxied servers left alone.
LEMMA OwnAnswer ==
  ASSUME TypeInv, FrameInv, NEW id \in Ids, NEW r \in {"ok", "no", "error"}, Untouched(id),
         rpc # "awaiting", rpc' = "receive", UNCHANGED <<variant, finals, slot, onwire, todo, coming>>,
         \/ accepted' = accepted /\ (r = "ok" => requests[id] = "starttls")
         \/ accepted' = accepted \cup {id} /\ r = "ok" /\ variant = "binding",
         id \in DOMAIN requests, id < next', got' = got \/ got' = [got EXCEPT ![id] = Append(@, r)]
  PROVE  Itself(id, r) /\ ComingInv'
<1>1. \A u \in Servers : Owed(u)' = Owed(u) /\ Oks(u)' = Oks(u) /\ Orderly(u)'
  BY OthersOwe DEF FrameInv, ComingInv
<1>2. {} # Used
  BY ProxyAssumption DEF Used, Servers
<1>3. {} \in SUBSET Used /\ onwire' = onwire \cup ({} \X {id})
  OBVIOUS
<1> QED
  BY <1>1, <1>2, <1>3 DEF Itself, ComingInv

LEMMA QuietStep ==
  ASSUME FrameInv, UNCHANGED <<variant, onwire, todo, coming, finals, got, slot, accepted>>,
         (rpc' # "awaiting" /\ rpc # "awaiting") \/ UNCHANGED <<rpc, current>>
  PROVE  Quiet /\ ComingInv'
<1>1. \A u \in Servers : Owed(u)' = Owed(u) /\ Oks(u)' = Oks(u) /\ Orderly(u)'
  BY OthersOwe DEF FrameInv, ComingInv
<1>2. 1 \in Servers /\ {} \in SUBSET Owed(1) /\ accepted' = accepted \cup {}
  BY ProxyAssumption DEF Servers
<1>3. \A w \in Servers : Oks(w)' = IF w = 1 THEN Oks(w) \cup {} ELSE Oks(w)
  BY <1>1
<1> QED
  BY <1>1, <1>2, <1>3 DEF Quiet, ComingInv

LEMMA SentOn ==
  ASSUME TypeInv, FrameInv, NEW id \in Ids, Untouched(id), rpc \in {"receive", "searching"}, held # {},
         id \in DOMAIN requests, id < next', requests[id] = "unbind" \/ HasLast(requests[id]),
         Forwarded(id) \/ NotForwarded(id), UNCHANGED <<variant, finals>>
  PROVE  /\ Quiet \/ Itself(id, "error") \/ Asks(id)
         /\ ComingInv'
<1>1. held = Used /\ ComingInv /\ (\A u \in Servers : id \notin Owed(u)) /\ Used \subseteq Servers
  BY AllHeld DEF FrameInv, Untouched, Owing, Used, HeldInv, TypeInv, TypeOK
<1>2. CASE Forwarded(id) /\ Answerable(id)
  <2>1. /\ Sends(Used, id) /\ current' = id /\ rpc' = "awaiting" /\ UNCHANGED connection
        /\ slot' = [u \in Servers |-> IF u \in Used THEN "unset" ELSE "none"]
    BY <1>1, <1>2 DEF Forwarded
  <2>2. /\ \A u \in Servers : Owed(u)' = IF u \in Used THEN Owed(u) \cup {id} ELSE Owed(u)
        /\ ComingInv'
    <3>1. Used \in SUBSET Servers /\ \A u \in Used : id \notin Owed(u)
      BY <1>1
    <3> QED
      BY <1>1, <2>1, <3>1, SendsOwes
  <2>3. OksSame
    BY <1>1, <2>1, SendsOwes DEF OksSame, Sends
  <2> QED
    BY <1>2, <2>1, <2>2, <2>3 DEF Asks, Sends, connection, Answerable
<1>3. CASE Forwarded(id) /\ ~Answerable(id)
  <2>1. rpc' = "receive" /\ UNCHANGED <<upstream, slot, current, connection>>
    BY <1>3 DEF Forwarded
  <2> QED
    BY <2>1, QuietStep DEF upstream, connection
<1>4. CASE NotForwarded(id)
  <2>1. got' = got \/ got' = [got EXCEPT ![id] = Append(@, "error")]
    BY <1>4, Replying DEF NotForwarded, Responses
  <2>2. rpc' = "receive" /\ UNCHANGED <<slot, current>> /\ \E u \in held : link[u] # "open"
    BY <1>4 DEF NotForwarded
  <2>3. CASE Answerable(id)
    <3>1. PICK sent \in SUBSET {u \in held : link[u] = "open"} : Sends(sent, id)
      BY <1>4, <2>3 DEF NotForwarded
    <3>2. sent \in SUBSET Used /\ sent # Used /\ sent \in SUBSET Servers
      BY <1>1, <2>2, <3>1
    <3>3. /\ \A u \in Servers : Owed(u)' = IF u \in sent THEN Owed(u) \cup {id} ELSE Owed(u)
          /\ ComingInv' /\ \A u \in Servers : Oks(u)' = Oks(u)
      BY <1>1, <3>1, <3>2, SendsOwes
    <3>4. onwire' = onwire \cup (sent \X {id}) /\ accepted' = accepted
      BY <3>1 DEF Sends
    <3> QED
      BY <2>1, <2>2, <2>3, <3>2, <3>3, <3>4 DEF Itself, Answerable
  <2>4. CASE ~Answerable(id)
    <3>1. UNCHANGED upstream
      BY <1>4, <2>4 DEF NotForwarded
    <3> QED
      BY <2>1, <2>2, <3>1, OwnAnswer DEF upstream
  <2> QED
    BY <2>3, <2>4
<1> QED
  BY <1>2, <1>3, <1>4

LEMMA EveryStep ==
  ASSUME TypeInv, FrameInv, [Next]_vars
  PROVE  StepKind /\ ComingInv'
<1> USE DEF connection, upstream, reader, client
<1>1. ASSUME NEW u \in Servers, Connect(u) PROVE Quiet /\ ComingInv'
  <2>1. rpc = "off" /\ rpc' # "awaiting"
    BY <1>1 DEF Connect, FrameInv, HeldInv
  <2> QED
    BY <1>1, <2>1, QuietStep DEF Connect
<1>2. CASE ConnectFails
  <2>1. rpc = "off" /\ rpc' # "awaiting"
    BY <1>2 DEF ConnectFails, BaseConnectFails, ProxyConnectFails, MergedConnectFails, FrameInv, HeldInv
  <2>2. UNCHANGED <<variant, onwire, todo, coming, finals, got, slot, accepted>>
    BY <1>2 DEF ConnectFails, BaseConnectFails, ProxyConnectFails, MergedConnectFails, Aclose
  <2> QED
    BY <2>1, <2>2, QuietStep DEF StepKind
<1>3. CASE HandleStartTLS
  <2>1. /\ Reading /\ next' = next + 1 /\ rpc = "receive"
        /\ UNCHANGED <<variant, finals, slot, onwire, todo, coming, rpc>>
    BY <1>3 DEF HandleStartTLS, Reading
  <2>2. requests[next] = "starttls" /\ accepted' = accepted
    BY <1>3 DEF HandleStartTLS, OwnTLS
  <2>3. next \in Ids /\ Untouched(next) /\ next \in DOMAIN requests /\ next < next'
    BY <2>1, ReadsNext
  <2>4. got[next] = <<>>
    BY <2>3 DEF Untouched
  <2>5. CASE Reply(next, "no")
    BY <2>1, <2>2, <2>3, <2>5, Replying, OwnAnswer DEF Responses, StepKind
  <2>6. CASE RaiseTLS(next)
    <3>1. PICK w \in Raised : got' = [got EXCEPT ![next] = @ \o w]
      BY <2>3, <2>6, Raising
    <3>2. <<>> \o w = w
      BY <3>1 DEF Raised
    <3>3. got' = [got EXCEPT ![next] = w]
      BY <2>4, <3>1, <3>2
    <3>4. CASE w = <<"ok", "error">>
      BY <2>1, <2>2, <2>3, <3>3, <3>4, OthersOwe DEF FrameInv, ComingInv, Retracts, OksSame, StepKind
    <3>5. CASE w = <<>>
      <4>1. got' = got
        BY <2>3, <2>4, <3>3, <3>5 DEF TypeInv
      <4> QED
        BY <2>1, <2>2, <2>3, <4>1, OwnAnswer DEF StepKind
    <3>6. ASSUME NEW r \in {"ok", "error"}, w = <<r>> PROVE StepKind /\ ComingInv'
      <4>1. got' = [got EXCEPT ![next] = Append(@, r)]
        <5>1. Append(<<>>, r) = <<r>>
          OBVIOUS
        <5> QED
          BY <2>4, <3>3, <3>6, <5>1
      <4>2. /\ accepted' = accepted /\ (r = "ok" => requests[next] = "starttls")
            /\ rpc # "awaiting" /\ rpc' = "receive"
        BY <2>1, <2>2
      <4> QED
        BY <2>1, <2>3, <4>1, <4>2, OwnAnswer DEF StepKind
    <3> QED
      BY <3>1, <3>4, <3>5, <3>6 DEF Raised
  <2> QED
    BY <1>3, <2>5, <2>6 DEF HandleStartTLS
<1>4. CASE Refuse
  <2>1. /\ Reading /\ next' = next + 1 /\ rpc = "receive"
        /\ UNCHANGED <<variant, finals, slot, onwire, todo, coming, rpc, accepted>>
    BY <1>4 DEF Refuse, Reading
  <2>2. got' = got \/ got' = [got EXCEPT ![next] = Append(@, "no")]
    BY <1>4 DEF Refuse, Reply, Aclose
  <2> QED
    BY <2>1, <2>2, ReadsNext, OwnAnswer DEF StepKind
<1>5. CASE NobodyToAsk
  BY <1>5, QuietStep DEF NobodyToAsk, Reading, StepKind
<1>6. CASE Forward
  <2>1. /\ next \in Ids /\ Untouched(next) /\ rpc \in {"receive", "searching"} /\ held # {}
        /\ Forwarded(next) \/ NotForwarded(next)
        /\ UNCHANGED <<variant, finals>> /\ next \in DOMAIN requests /\ next < next'
        /\ requests[next] = "unbind" \/ HasLast(requests[next])
    BY <1>6, ReadsNext DEF Forward, Reading, FrameInv, AskedInv
  <2>2. (Quiet \/ Itself(next, "error") \/ Asks(next)) /\ ComingInv'
    BY <2>1, SentOn
  <2> QED
    BY <2>1, <2>2 DEF StepKind
<1>7. CASE Resume
  <2>1. /\ rpc = "awaiting" /\ rpc' = "receive"
        /\ slot' = [u \in Servers |-> "none"]
        /\ UNCHANGED <<variant, onwire, todo, coming, finals, accepted>>
    BY <1>7 DEF Resume, Fail
  <2>2. \A u \in Servers : Owed(u)' = Owed(u) /\ Oks(u)' = Oks(u) /\ Orderly(u)'
    BY <2>1, OthersOwe DEF FrameInv, ComingInv
  <2>3. \/ got' = got
        \/ /\ \E u \in Used : slot[u] = "error"
           /\ got' = [got EXCEPT ![current] = Append(@, "error")]
    BY <1>7 DEF Resume, Fail, Reply, Aclose
  <2> QED
    BY <2>1, <2>2, <2>3 DEF StepKind, Wakes, OksSame, ComingInv
<1>8. CASE ReaderEnds
  <2>1. rpc # "awaiting" /\ rpc' # "awaiting" /\ UNCHANGED <<variant, onwire, todo, coming, finals, got, slot, accepted>>
    BY <1>8 DEF ReaderEnds, Aclose
  <2> QED
    BY <2>1, QuietStep DEF StepKind
<1>9. CASE TryServices
  BY <1>9, QuietStep DEF TryServices, Reading, StepKind
<1>10. ASSUME NEW found \in BOOLEAN, SearchEnds(found) PROVE Quiet /\ ComingInv'
  BY <1>10, QuietStep DEF SearchEnds
<1>11. CASE BindRefused
  BY <1>11, QuietStep DEF BindRefused, StepKind
<1>12. CASE BindAccepted \/ ServiceFails
  <2>1. /\ rpc \in {"searching", "binding"} /\ rpc' = "receive"
        /\ UNCHANGED <<next, variant, finals, slot, onwire, todo, coming>>
    BY <1>12 DEF BindAccepted, ServiceFails
  <2>2. PICK r \in {"ok", "no", "error"} :
          /\ got' = got \/ got' = [got EXCEPT ![current] = Append(@, r)]
          /\ \/ accepted' = accepted /\ r # "ok"
             \/ accepted' = accepted \cup {current} /\ r = "ok"
    <3>1. CASE BindAccepted
      BY <3>1 DEF BindAccepted, Reply, Aclose
    <3>2. CASE ServiceFails
      BY <3>2 DEF ServiceFails, Reply, Aclose
    <3> QED
      BY <1>12, <3>1, <3>2
  <2> QED
    BY <2>1, <2>2, TriesCurrent, OwnAnswer DEF StepKind
<1>13. CASE FallBack
  <2>1. /\ rpc = "searching" /\ current \in Ids /\ Untouched(current) /\ UNCHANGED <<variant, finals>>
        /\ current \in DOMAIN requests /\ current < next' /\ HasLast(requests[current])
    BY <1>13, TriesCurrent DEF FallBack, HasLast
  <2>2. CASE held # {} /\ (Forwarded(current) \/ NotForwarded(current))
    <3>1. (Quiet \/ Itself(current, "error") \/ Asks(current)) /\ ComingInv'
      BY <2>1, <2>2, SentOn
    <3> QED
      BY <2>1, <3>1 DEF StepKind
  <2>3. CASE /\ rpc' = "receive" /\ Reply(current, IF Fallback THEN "error" ELSE "no")
             /\ UNCHANGED <<upstream, slot, current>>
    <3>1. PICK r \in {"no", "error"} : got' = got \/ got' = [got EXCEPT ![current] = Append(@, r)]
      BY <2>3 DEF Reply, Aclose
    <3>2. Itself(current, r) /\ ComingInv'
      BY <2>1, <2>3, <3>1, OwnAnswer
    <3> QED
      BY <2>1, <3>2 DEF StepKind
  <2> QED
    BY <1>13, <2>2, <2>3 DEF FallBack
<1>14. ASSUME NEW u \in Servers, HandleResponse(u) PROVE StepKind /\ ComingInv'
  <2> DEFINE id == Head(coming[u])[1]
             r == Head(coming[u])[2]
  <2>1. /\ id \in Ids /\ r \in {"entry", "ok", "no"} /\ id \in Owed(u)
        /\ \A w \in Servers : Owed(w)' = IF w = u /\ r # "entry" THEN Owed(w) \ {id} ELSE Owed(w)
        /\ \A w \in Servers : Oks(w)' = IF w = u /\ r # "entry" THEN Oks(w) \ {id} ELSE Oks(w)
        /\ r # "entry" => (r = "ok" <=> id \in Oks(u))
        /\ ComingInv'
    BY <1>14, HandledOwes DEF FrameInv
  <2>2. u \in Used /\ id < next /\ HasLast(requests[id])
    BY <2>1 DEF FrameInv, AskedInv
  <2>3. held = {} \/ held = Used
    <3>1. id >= 1 /\ next # 1
      BY <2>1, <2>2 DEF Ids
    <3> QED
      BY <3>1 DEF FrameInv, HeldInv
  <2>4. UNCHANGED <<variant, rpc, current, accepted>>
    BY <1>14 DEF HandleResponse
  <2>5. CASE r = "entry"
    <3>1. Reply(id, "entry") /\ UNCHANGED <<finals, onwire, slot>>
      BY <1>14, <2>5 DEF HandleResponse, IsLast
    <3>2. got' = got \/ got' = [got EXCEPT ![id] = Append(@, "entry")]
      BY <3>1 DEF Reply, Aclose
    <3>3. (\A w \in Servers : Owed(w)' = Owed(w)) /\ OksSame
      BY <2>1, <2>4, <2>5 DEF OksSame
    <3>4. Relays(u, id)
      BY <2>1, <2>4, <3>1, <3>2, <3>3 DEF Relays
    <3> QED
      BY <2>1, <3>4 DEF StepKind
  <2>6. CASE r # "entry"
    <3>1. IsLast(id, r)
      BY <2>2, <2>6 DEF IsLast
    <3>2. /\ onwire' = onwire \ {<<u, id>>}
          /\ slot' = IF id = current /\ slot[u] = "unset" THEN [slot EXCEPT ![u] = "value"] ELSE slot
      BY <1>14, <3>1 DEF HandleResponse
    <3>3. /\ \A w \in Servers : Owed(w)' = IF w = u THEN Owed(w) \ {id} ELSE Owed(w)
          /\ \A w \in Servers : Oks(w)' = IF w = u THEN Oks(w) \ {id} ELSE Oks(w)
          /\ r = "ok" <=> id \in Oks(u)
      BY <2>1, <2>6
    <3>4. CASE variant # "merged"
      <4>1. Reply(id, r) /\ UNCHANGED finals
        BY <1>14, <3>4 DEF HandleResponse
      <4>2. got' = got \/ got' = [got EXCEPT ![id] = Append(@, r)]
        BY <4>1 DEF Reply, Aclose
      <4>3. Takes(u, id, r)
        BY <2>1, <2>4, <3>2, <3>3, <3>4, <4>1, <4>2 DEF Takes
      <4> QED
        BY <2>1, <2>6, <4>3 DEF StepKind
    <3>5. CASE variant = "merged"
      <4>1. Collect(id, r)
        BY <1>14, <3>1, <3>5 DEF HandleResponse
      <4> HIDE DEF id, r
      <4>2. finals' = [finals EXCEPT ![id] = Append(@, r)]
        BY <4>1 DEF Collect
      <4>3. finals'[id] = Append(finals[id], r) /\ finals[id] \in Seq(Responses \ {"error", "entry"})
        BY <2>1, <4>2 DEF TypeInv
      <4>4. Len(finals'[id]) = Len(finals[id]) + 1 /\ Len(finals[id]) \in Nat
        BY <2>1, <2>6, <4>3 DEF Responses
      <4>5. CASE Len(finals'[id]) = Cardinality(held)
        <5>1. held = Used
          <6>1. Len(finals'[id]) # 0
            BY <4>4
          <6>2. held # {}
            BY <4>5, <6>1, FS_EmptySet
          <6> QED
            BY <2>3, <6>2
        <5>2. Len(finals[id]) + 1 = N
          BY <3>5, <4>4, <4>5, <5>1, Few DEF Used
        <5>3. got' = got \/ got' = [got EXCEPT ![id] = Append(@, Merge(Append(finals[id], r)))]
          BY <4>1, <4>3, <4>5 DEF Collect, Reply, Aclose
        <5>4. Takes(u, id, r)
          BY <2>1, <2>4, <3>2, <3>3, <3>5, <4>2, <5>2, <5>3 DEF Takes
        <5> QED
          BY <2>1, <2>6, <5>4 DEF StepKind
      <4>6. CASE Len(finals'[id]) # Cardinality(held)
        <5>1. got' = got
          BY <4>1, <4>6 DEF Collect
        <5>2. Takes(u, id, r)
          BY <2>1, <2>4, <3>2, <3>3, <3>5, <4>2, <5>1 DEF Takes
        <5> QED
          BY <2>1, <2>6, <5>2 DEF StepKind
      <4> QED
        BY <4>5, <4>6
    <3> QED
      BY <3>4, <3>5
  <2> QED
    BY <2>5, <2>6
<1>15. ASSUME NEW u \in Servers, LinkLost(u) PROVE StepKind /\ ComingInv'
  <2>1. /\ \A w \in Servers : Owed(w)' = IF w = u THEN {} ELSE Owed(w)
        /\ \A w \in Servers : Oks(w)' = IF w = u THEN {} ELSE Oks(w)
        /\ ComingInv'
    BY <1>15, LostOwes DEF FrameInv
  <2>2. Loses(u)
    BY <1>15, <2>1 DEF LinkLost, Loses
  <2> QED
    BY <2>1, <2>2 DEF StepKind
<1>16. ASSUME NEW kind \in Kinds, ClientSends(kind) PROVE Quiet /\ ComingInv'
  BY <1>16, QuietStep DEF ClientSends
<1>17. CASE ClientCloses
  BY <1>17, QuietStep DEF ClientCloses, StepKind
<1>18. ASSUME NEW u \in Servers, NEW id \in Ids, ServerSendsEntry(u, id) \/ ServerAnswers(u, id)
       PROVE  Quiet /\ ComingInv'
  <2>1. UNCHANGED <<variant, onwire, finals, got, slot, rpc, current>>
    BY <1>18 DEF ServerSendsEntry, ServerAnswers, Sent
  <2>2. /\ \A w \in Servers : Owed(w)' = Owed(w)
        /\ \E new \in SUBSET Owed(u) :
              /\ accepted' = accepted \cup new
              /\ \A w \in Servers : Oks(w)' = IF w = u THEN Oks(w) \cup new ELSE Oks(w)
        /\ ComingInv'
    BY <1>18, SentOwes DEF FrameInv
  <2> QED
    BY <2>1, <2>2 DEF Quiet
<1>19. CASE UNCHANGED vars
  BY <1>19, QuietStep DEF vars, StepKind
<1> QED
  BY <1>1, <1>2, <1>3, <1>4, <1>5, <1>6, <1>7, <1>8, <1>9, <1>10, <1>11, <1>12, <1>13, <1>14, <1>15, <1>16,
     <1>17, <1>18, <1>19 DEF Next, ReaderStep, ServerLost, CloseLink, StepKind

-----------------------------------------------------------------------------
(* The frame.                                                              *)

LEMMA HeldStep ==
  ASSUME TypeInv, FrameInv, [Next]_vars
  PROVE  HeldInv'
<1> USE DEF connection, upstream, reader, client, HeldInv
<1> HeldInv
  BY DEF FrameInv
<1>1. ASSUME NEW u \in Servers, Connect(u) PROVE HeldInv'
  BY <1>1 DEF Connect, Used
<1>2. ASSUME held' = held \/ held' = {}, UNCHANGED <<variant, phase>>, rpc # "off", rpc' # "off" PROVE HeldInv'
  BY <1>2 DEF Used
<1>3. CASE ConnectFails
  <2>1. held' = held \/ held' = {}
    BY <1>3, Closing DEF ConnectFails, BaseConnectFails, ProxyConnectFails, MergedConnectFails
  <2>2. phase = "connecting" /\ phase' # "connecting" /\ rpc' # "off" /\ variant' = variant
    BY <1>3 DEF ConnectFails, BaseConnectFails, ProxyConnectFails, MergedConnectFails
  <2>3. held' \subseteq Used' /\ (held' = {} \/ held' = Used')
    <3>1. CASE ProxyConnectFails
      BY <2>2, <3>1 DEF Used, ProxyConnectFails
    <3>2. CASE Aclose
      BY <2>2, <3>2 DEF Aclose, StreamCloses, ConnectionLost
    <3> QED
      BY <1>3, <3>1, <3>2 DEF ConnectFails, BaseConnectFails, MergedConnectFails
  <2> QED
    BY <2>2, <2>3
<1>4. CASE HandleStartTLS
  BY <1>2, <1>4 DEF HandleStartTLS, RaiseTLS, ErrorBehind, Reply, Aclose, StreamCloses, ConnectionLost, Reading
<1>5. CASE Refuse
  BY <1>2, <1>5 DEF Refuse, Reply, Aclose, StreamCloses, ConnectionLost, Reading
<1>6. CASE NobodyToAsk \/ TryServices \/ BindRefused \/ \E found \in BOOLEAN : SearchEnds(found)
  BY <1>2, <1>6 DEF NobodyToAsk, Reading, TryServices, BindRefused, SearchEnds
<1>7. CASE Forward
  BY <1>2, <1>7 DEF Forward, Reading, Forwarded, NotForwarded, Reply, Aclose, StreamCloses, ConnectionLost
<1>8. CASE Resume
  BY <1>2, <1>8 DEF Resume, Fail, Reply, Aclose, StreamCloses, ConnectionLost
<1>9. CASE ReaderEnds
  BY <1>2, <1>9 DEF ReaderEnds, Aclose, StreamCloses, ConnectionLost
<1>10. CASE BindAccepted \/ ServiceFails
  BY <1>2, <1>10 DEF BindAccepted, ServiceFails, Reply, Aclose, StreamCloses, ConnectionLost
<1>11. CASE FallBack
  BY <1>2, <1>11 DEF FallBack, Forwarded, NotForwarded, Reply, Aclose, StreamCloses, ConnectionLost
<1>12. ASSUME NEW u \in Servers, HandleResponse(u) PROVE HeldInv'
  <2>1. held' = held \/ held' = {}
    BY <1>12 DEF HandleResponse, Collect, Reply, Aclose, StreamCloses, ConnectionLost
  <2>2. rpc # "off"
    <3>1. Head(coming[u])[1] \in Owed(u) /\ Head(coming[u])[1] \in Ids
      BY <1>12, HandledOwes DEF FrameInv
    <3>2. Head(coming[u])[1] < next
      BY <3>1 DEF FrameInv, AskedInv
    <3> QED
      BY <3>1, <3>2 DEF Ids
  <2>3. UNCHANGED <<variant, phase, rpc>>
    BY <1>12 DEF HandleResponse
  <2> QED
    BY <1>2, <2>1, <2>2, <2>3
<1>13. CASE UNCHANGED <<variant, phase, rpc, held, next, connected>>
  BY <1>13 DEF Used
<1>14. ASSUME NEW u \in Servers, LinkLost(u) PROVE HeldInv'
  BY <1>13, <1>14 DEF LinkLost
<1>15. ASSUME NEW kind \in Kinds, ClientSends(kind) PROVE HeldInv'
  BY <1>13, <1>15 DEF ClientSends
<1>16. CASE ClientCloses \/ UNCHANGED vars
  BY <1>13, <1>16 DEF ClientCloses, vars
<1>17. ASSUME NEW u \in Servers, NEW id \in Ids, ServerSendsEntry(u, id) \/ ServerAnswers(u, id) PROVE HeldInv'
  BY <1>13, <1>17 DEF ServerSendsEntry, ServerAnswers, Sent
<1> QED
  BY <1>1, <1>3, <1>4, <1>5, <1>6, <1>7, <1>8, <1>9, <1>10, <1>11, <1>12, <1>14, <1>15, <1>16, <1>17
     DEF Next, ReaderStep, ServerLost, CloseLink

\* What a step reads and accepts.
LEMMA Going ==
  ASSUME TypeInv, FrameInv, [Next]_vars, ~Endless
  PROVE  /\ next' \in {next, next + 1} /\ variant' = variant
         /\ requests' = requests \/ next' = next
         /\ \A i \in DOMAIN requests : i \in DOMAIN requests' /\ requests'[i] = requests[i]
         /\ \A i \in DOMAIN requests' : i \in DOMAIN requests \/ requests'[i] = "unbind"
                                        \/ Own(requests'[i]) \/ HasLast(requests'[i])
         /\ \A id \in accepted' : id \in accepted \/ Owing(id) # {}
                                    \/ (rpc \in {"searching", "binding"} /\ rpc' = "receive" /\ id = current)
         /\ rpc' \in {"searching", "binding"} =>
              \/ rpc \in {"searching", "binding"} /\ current' = current
              \/ Reading /\ current' = next /\ next' = next + 1 /\ requests[next] = "bind" /\ variant = "binding"
<1> USE DEF connection, upstream, reader, client
<1>1. CASE \/ HandleStartTLS \/ Refuse \/ NobodyToAsk \/ Forward \/ Resume \/ ReaderEnds
           \/ TryServices \/ \E found \in BOOLEAN : SearchEnds(found)
           \/ BindRefused \/ BindAccepted \/ ServiceFails \/ FallBack
  <2>1. UNCHANGED <<variant, requests>>
    BY <1>1 DEF HandleStartTLS, Refuse, NobodyToAsk, Forward, Resume, ReaderEnds, TryServices, SearchEnds,
                BindRefused, BindAccepted, ServiceFails, FallBack
  <2>2. next' \in {next, next + 1}
    BY <1>1 DEF HandleStartTLS, Refuse, NobodyToAsk, Forward, Resume, ReaderEnds, TryServices, SearchEnds,
                BindRefused, BindAccepted, ServiceFails, FallBack
  <2>3. \/ accepted' = accepted
        \/ (rpc = "binding" /\ rpc' = "receive" /\ accepted' = accepted \cup {current})
    BY <1>1 DEF HandleStartTLS, Refuse, NobodyToAsk, Forward, Resume, ReaderEnds, TryServices, SearchEnds,
                BindRefused, BindAccepted, ServiceFails, FallBack, Forwarded, NotForwarded, Sends
  <2>4. rpc' \in {"searching", "binding"} =>
              \/ rpc \in {"searching", "binding"} /\ current' = current
              \/ Reading /\ current' = next /\ next' = next + 1 /\ requests[next] = "bind" /\ variant = "binding"
    <3>1. CASE HandleStartTLS \/ Refuse \/ NobodyToAsk \/ Forward
      BY <3>1 DEF HandleStartTLS, Refuse, NobodyToAsk, Forward, Forwarded, NotForwarded, Reading
    <3>2. CASE Resume \/ ReaderEnds \/ BindAccepted \/ ServiceFails \/ FallBack
      BY <3>2 DEF Resume, Fail, ReaderEnds, BindAccepted, ServiceFails, FallBack, Forwarded, NotForwarded
    <3>3. CASE TryServices
      BY <3>3 DEF TryServices, OnServices
    <3>4. CASE BindRefused \/ \E found \in BOOLEAN : SearchEnds(found)
      BY <3>4 DEF BindRefused, SearchEnds
    <3> QED
      BY <1>1, <3>1, <3>2, <3>3, <3>4
  <2> QED
    BY <2>1, <2>2, <2>3, <2>4
<1>2. ASSUME UNCHANGED <<variant, requests, next, accepted>>, rpc' = "searching" \/ rpc' = "binding" => UNCHANGED <<rpc, current>>
      PROVE  /\ next' \in {next, next + 1} /\ variant' = variant
             /\ \A i \in DOMAIN requests : i \in DOMAIN requests' /\ requests'[i] = requests[i]
             /\ \A i \in DOMAIN requests' : i \in DOMAIN requests
             /\ \A id \in accepted' : id \in accepted
             /\ rpc' \in {"searching", "binding"} => rpc \in {"searching", "binding"} /\ current' = current
  BY <1>2
<1>3. CASE ConnectFails
  BY <1>2, <1>3 DEF ConnectFails, BaseConnectFails, ProxyConnectFails, MergedConnectFails
<1>4. ASSUME NEW u \in Servers, Connect(u)
      PROVE  UNCHANGED <<variant, requests, next, accepted>>
             /\ (rpc' = "searching" \/ rpc' = "binding" => UNCHANGED <<rpc, current>>)
  BY <1>4 DEF Connect
<1>5. ASSUME NEW u \in Servers, HandleResponse(u) \/ LinkLost(u)
      PROVE  UNCHANGED <<variant, requests, next, accepted, rpc, current>>
  BY <1>5 DEF HandleResponse, LinkLost
<1>6. ASSUME NEW kind \in Kinds, ClientSends(kind)
      PROVE  /\ UNCHANGED <<variant, next, accepted, rpc, current>>
             /\ \A i \in DOMAIN requests : i \in DOMAIN requests' /\ requests'[i] = requests[i]
             /\ \A i \in DOMAIN requests' : i \in DOMAIN requests \/ requests'[i] = "unbind"
                                        \/ Own(requests'[i]) \/ HasLast(requests'[i])
  <2>1. requests' = Append(requests, kind) /\ (Own(kind) \/ HasLast(kind) \/ kind = "unbind")
        /\ UNCHANGED <<variant, next, accepted, rpc, current>>
    BY <1>6 DEF ClientSends
  <2>2. requests \in Seq(Kinds)
    BY DEF TypeInv, TypeOK
  <2>3. /\ DOMAIN requests' = 1..Len(requests) + 1 /\ DOMAIN requests = 1..Len(requests) /\ Len(requests) \in Nat
        /\ requests'[Len(requests) + 1] = kind
        /\ \A i \in DOMAIN requests : requests'[i] = requests[i]
    BY <2>1, <2>2, AppendProperties
  <2>4. \A i \in DOMAIN requests' : i \in DOMAIN requests \/ requests'[i] = kind
    BY <2>3
  <2> QED
    BY <2>1, <2>3, <2>4
<1>7. CASE ClientCloses \/ UNCHANGED vars
  BY <1>2, <1>7 DEF ClientCloses, vars
<1>8. ASSUME NEW u \in Servers, NEW id \in Ids, ServerSendsEntry(u, id) \/ ServerAnswers(u, id)
      PROVE  /\ UNCHANGED <<variant, requests, next, rpc, current>>
             /\ \A i \in accepted' : i \in accepted \/ Owing(i) # {}
  <2>1. id \in todo[u] /\ UNCHANGED <<variant, requests, next, rpc, current>>
    BY <1>8 DEF ServerSendsEntry, ServerAnswers, Sent
  <2>2. Owing(id) # {}
    BY <2>1 DEF Owing, Owed
  <2>3. accepted' \subseteq accepted \cup {id}
    BY <1>8 DEF ServerSendsEntry, ServerAnswers
  <2> QED
    BY <2>1, <2>2, <2>3
<1> QED
  BY <1>1, <1>2, <1>3, <1>4, <1>5, <1>6, <1>7, <1>8 DEF Next, ReaderStep, ServerLost, CloseLink

\* What nothing has come of stays so, unless the step answers or asks it.
LEMMA UntouchedStays ==
  ASSUME TypeInv, StepKind, NEW id \in Ids, Untouched(id), id \notin accepted', next' \in Int,
         rpc = "awaiting" => id # current, rpc' \in {"awaiting", "receive"} => id >= next'
  PROVE  Untouched(id)'
<1> USE DEF Untouched, Owing
<1>0. ~(id < next' /\ id >= next')
  BY DEF Ids
<1>1. CASE Quiet
  BY <1>1 DEF Quiet
<1>2. ASSUME NEW i \in Ids, NEW r, Itself(i, r) PROVE Untouched(id)'
  <2>1. i # id
    BY <1>0, <1>2 DEF Itself
  <2>2. got'[id] = got[id] /\ finals' = finals
    BY <1>2, <2>1 DEF Itself, TypeInv
  <2>4. Owing(id)' = {}
    BY <1>2, <2>1 DEF Itself
  <2>3. \A u \in Servers : <<u, id>> \notin onwire'
    BY <1>2, <2>1 DEF Itself
  <2> QED
    BY <2>2, <2>3, <2>4
<1>3. ASSUME NEW i \in Ids, Asks(i) PROVE Untouched(id)'
  <2>1. i # id
    BY <1>0, <1>3 DEF Asks
  <2> QED
    BY <1>3, <2>1 DEF Asks
<1>4. CASE Wakes
  BY <1>4 DEF Wakes, TypeInv
<1>5. ASSUME NEW u \in Servers, NEW i \in Ids, Relays(u, i) PROVE Untouched(id)'
  BY <1>5 DEF Relays, TypeInv
<1>6. ASSUME NEW u \in Servers, NEW i \in Ids, NEW r, Takes(u, i, r) PROVE Untouched(id)'
  <2>1. i # id
    BY <1>6 DEF Takes
  <2>2. got'[id] = got[id] /\ finals'[id] = finals[id]
    BY <1>6, <2>1 DEF Takes, TypeInv
  <2> QED
    BY <1>6, <2>2 DEF Takes
<1>7. ASSUME NEW u \in Servers, Loses(u) PROVE Untouched(id)'
  BY <1>7 DEF Loses
<1>8. ASSUME NEW i \in Ids, Retracts(i) PROVE Untouched(id)'
  <2>1. i # id
    BY <1>0, <1>8 DEF Retracts
  <2> QED
    BY <1>8, <2>1 DEF Retracts, OksSame, TypeInv
<1> QED
  BY <1>1, <1>2, <1>3, <1>4, <1>5, <1>6, <1>7, <1>8 DEF StepKind

LEMMA FrameStep ==
  ASSUME TypeInv, FrameInv, [Next]_vars, ~Endless
  PROVE  FrameInv'
<1>1. StepKind /\ ComingInv' /\ HeldInv'
  BY EveryStep, HeldStep
<1>2. next \in Nat /\ current \in Nat /\ next' \in {next, next + 1} /\ variant' = variant
  BY Going DEF TypeInv, TypeOK
<1>3. ASSUME NEW id \in Ids, id >= next' PROVE Untouched(id)'
  <2>1. id >= next /\ Untouched(id)
    BY <1>2, <1>3 DEF FrameInv, Current, Ids
  <2>2. rpc = "awaiting" => id # current
    BY <2>1, <1>2 DEF TypeInv, Ids
  <2>3. id \notin accepted'
    <3>1. rpc \in {"searching", "binding"} => current < next
      BY TriesCurrent
    <3>2. id \notin accepted /\ Owing(id) = {}
      BY <2>1 DEF Untouched
    <3> QED
      BY <1>2, <2>1, <3>1, <3>2, Going DEF Ids
  <2> QED
    BY <1>1, <1>2, <1>3, <2>1, <2>2, <2>3, UntouchedStays
<1>4. ASSUME rpc' \in {"searching", "binding"}
      PROVE  variant' = "binding" /\ Untouched(current)' /\ requests'[current'] = "bind"
  <2>1. CASE rpc \in {"searching", "binding"} /\ current' = current
    <3>1. current \in Ids /\ Untouched(current) /\ requests'[current] = "bind" /\ variant = "binding"
      BY <2>1, TriesCurrent, Going
    <3>2. current \notin accepted'
      BY <1>4, <3>1, Going DEF Untouched
    <3>3. PICK id \in Ids : id = current
      BY <3>1
    <3>4. Untouched(id)'
      BY <1>1, <1>2, <1>4, <2>1, <3>1, <3>2, <3>3, UntouchedStays
    <3> QED
      BY <1>2, <2>1, <3>1, <3>3, <3>4 DEF Untouched, Owing
  <2>2. CASE Reading /\ current' = next /\ next' = next + 1 /\ requests[next] = "bind" /\ variant = "binding"
    <3>1. next \in Ids /\ Untouched(next) /\ requests'[next] = "bind"
      BY <2>2, ReadsNext, Going
    <3>2. next \notin accepted'
      BY <1>4, <3>1, Going DEF Untouched
    <3>3. PICK id \in Ids : id = next
      BY <3>1
    <3>4. Untouched(id)'
      BY <1>1, <1>2, <1>4, <2>2, <3>1, <3>2, <3>3, UntouchedStays DEF Reading
    <3> QED
      BY <1>2, <2>2, <3>1, <3>3, <3>4 DEF Untouched, Owing
  <2> QED
    BY <1>4, <2>1, <2>2, Going
<1>5. Current'
  BY <1>3, <1>4 DEF Current
<1>6. (\A i \in DOMAIN requests : requests[i] = "unbind" \/ Own(requests[i]) \/ HasLast(requests[i]))'
  <2>1. \A i \in DOMAIN requests' : requests'[i] = "unbind" \/ Own(requests'[i]) \/ HasLast(requests'[i])
    BY Going DEF FrameInv, AskedInv
  <2> QED
    BY <1>2, <2>1 DEF Own, Unwilling, BadBind, OwnTLS
<1>7. ASSUME NEW u \in Servers, NEW id \in Owed(u)' PROVE u \in Used /\ id < next' /\ HasLast(requests'[id])
  <2>1. id \in Ids
    BY <1>7, TypeStep DEF Owed, Answering, TypeInv, TypeOK
  <2>2. CASE id \in Owed(u)
    <3>1. u \in Used /\ id < next /\ HasLast(requests[id])
      BY <2>2 DEF FrameInv, AskedInv
    <3>2. id \in DOMAIN requests
      BY <2>1, <3>1 DEF Ids, TypeInv, TypeOK
    <3> QED
      BY <1>2, <2>1, <3>1, <3>2, Going DEF Ids
  <2>3. CASE id \notin Owed(u)
    <3>1. u \in Used /\ id < next' /\ HasLast(requests[id]) /\ id \in DOMAIN requests
      BY <1>1, <1>7, <2>3 DEF StepKind, Quiet, Itself, Retracts, Asks, Wakes, Relays, Takes, Loses
    <3> QED
      BY <3>1, Going
  <2> QED
    BY <2>2, <2>3
<1>8. AskedInv'
  BY <1>2, <1>6, <1>7 DEF AskedInv, Used
<1> QED
  BY <1>1, <1>5, <1>8 DEF FrameInv

-----------------------------------------------------------------------------
(* The answers.                                                            *)

LEMMA SlotStep ==
  ASSUME TypeInv, SlotInv, StepKind
  PROVE  SlotInv'
<1> USE DEF SlotInv, Undecided
<1> slot \in [Servers -> {"none", "unset", "value", "error"}] /\ Used \subseteq Servers
  BY ProxyAssumption DEF TypeInv, TypeOK, Used, Servers
<1>1. CASE Quiet
  BY <1>1 DEF Quiet, Used
<1>2. ASSUME NEW id \in Ids, NEW r, Itself(id, r) PROVE SlotInv'
  BY <1>2 DEF Itself, Used
<1>3. ASSUME NEW id \in Ids, Asks(id) PROVE SlotInv'
  BY <1>3 DEF Asks, Used, Untouched, Owing
<1>4. CASE Wakes
  BY <1>4 DEF Wakes
<1>5. ASSUME NEW u \in Servers, NEW id \in Ids, Relays(u, id) PROVE SlotInv'
  BY <1>5 DEF Relays, Used
<1>6. ASSUME NEW u \in Servers, NEW id \in Ids, NEW r, Takes(u, id, r) PROVE SlotInv'
  BY <1>6 DEF Takes, Used
<1>7. ASSUME NEW u \in Servers, Loses(u) PROVE SlotInv'
  BY <1>7 DEF Loses, Used
<1>8. ASSUME NEW id \in Ids, Retracts(id) PROVE SlotInv'
  BY <1>8 DEF Retracts, Used
<1> QED
  BY <1>1, <1>2, <1>3, <1>4, <1>5, <1>6, <1>7, <1>8 DEF StepKind

LEMMA LastStep ==
  ASSUME TypeInv, LastInv, StepKind
  PROVE  LastInv'
<1> USE DEF LastInv
<1> Used \subseteq Servers
  BY ProxyAssumption DEF TypeInv, TypeOK, Used, Servers
<1>1. CASE Quiet
  BY <1>1 DEF Quiet
<1>2. ASSUME NEW id \in Ids, NEW r, Itself(id, r) PROVE LastInv'
  BY <1>2 DEF Itself
<1>3. ASSUME NEW id \in Ids, Asks(id) PROVE LastInv'
  BY <1>3 DEF Asks
<1>4. CASE Wakes
  BY <1>4 DEF Wakes
<1>5. ASSUME NEW u \in Servers, NEW id \in Ids, Relays(u, id) PROVE LastInv'
  BY <1>5 DEF Relays
<1>6. ASSUME NEW u \in Servers, NEW id \in Ids, NEW r, Takes(u, id, r) PROVE LastInv'
  BY <1>6 DEF Takes
<1>7. ASSUME NEW u \in Servers, Loses(u) PROVE LastInv'
  BY <1>7 DEF Loses
<1>8. ASSUME NEW id \in Ids, Retracts(id) PROVE LastInv'
  BY <1>8 DEF Retracts
<1> QED
  BY <1>1, <1>2, <1>3, <1>4, <1>5, <1>6, <1>7, <1>8 DEF StepKind

\* How many have answered and how many have still to.
LEMMA CollectedStep ==
  ASSUME TypeInv, SlotInv, CollectedInv, StepKind
  PROVE  CollectedInv'
<1> USE DEF Owing, Undecided
<1>0. /\ slot \in [Servers -> {"none", "unset", "value", "error"}] /\ Used \subseteq Servers /\ N \in Nat
      /\ \A id \in Ids : finals[id] \in Seq(Responses \ {"error", "entry"}) /\ Len(finals[id]) \in Nat
  BY ProxyAssumption DEF TypeInv, TypeOK, Used, Servers
<1>1. ASSUME \A u \in Servers : Owed(u)' \subseteq Owed(u), UNCHANGED <<variant, finals>>,
             rpc' = "awaiting" => rpc = "awaiting" /\ current' = current /\ Undecided' \subseteq Undecided
      PROVE  CollectedInv'
  <2>1. ASSUME NEW id \in Ids PROVE Len(finals'[id]) + Cardinality(Owing(id)') <= N
    <3>1. Owing(id)' \subseteq Owing(id) /\ Owing(id) \in SUBSET Servers /\ Owing(id)' \in SUBSET Servers
      BY <1>1
    <3>2. Cardinality(Owing(id)') <= Cardinality(Owing(id)) /\ Cardinality(Owing(id)') \in 0..N
          /\ Cardinality(Owing(id)) \in 0..N
      BY <3>1, Few
    <3>3. /\ Len(finals[id]) + Cardinality(Owing(id)) <= N /\ Len(finals[id]) \in Nat
          /\ finals'[id] = finals[id]
      BY <1>0, <1>1 DEF CollectedInv
    <3> HIDE DEF Owing
    <3> QED
      BY <1>0, <3>2, <3>3
  <2>2. ASSUME rpc' = "awaiting" PROVE Len(finals'[current']) + Cardinality(Undecided') <= N
    <3>1. Cardinality(Undecided') <= Cardinality(Undecided) /\ Cardinality(Undecided') \in 0..N
          /\ Cardinality(Undecided) \in 0..N
      BY <1>1, <2>2, Few
    <3>2. Len(finals[current]) + Cardinality(Undecided) <= N /\ Len(finals[current]) \in Nat
      BY <1>0, <1>1, <2>2 DEF CollectedInv, TypeInv, TypeOK, Ids
    <3> QED
      BY <1>0, <1>1, <2>2, <3>1, <3>2
  <2> QED
    BY <1>1, <2>1, <2>2 DEF CollectedInv
<1>2. CASE Quiet
  BY <1>1, <1>2 DEF Quiet
<1>3. ASSUME NEW id \in Ids, finals[id] = <<>>, UNCHANGED <<variant, finals>>,
             \A u \in Servers : Owed(u)' \subseteq Owed(u) \cup {id},
             rpc' = "awaiting" => current' = id
      PROVE  CollectedInv'
  <2>1. ASSUME NEW i \in Ids, i # id PROVE Len(finals'[i]) + Cardinality(Owing(i)') <= N
    <3>1. Owing(i)' \subseteq Owing(i) /\ Owing(i) \in SUBSET Servers /\ Owing(i)' \in SUBSET Servers
      BY <1>3, <2>1
    <3>2. Cardinality(Owing(i)') <= Cardinality(Owing(i)) /\ Cardinality(Owing(i)') \in 0..N
          /\ Cardinality(Owing(i)) \in 0..N
      BY <3>1, Few
    <3> QED
      BY <1>0, <1>3, <3>2 DEF CollectedInv
  <2>2. ASSUME NEW S \in SUBSET Servers PROVE Len(finals'[id]) + Cardinality(S) <= N
    BY <1>0, <1>3, Few
  <2>3. Owing(id)' \in SUBSET Servers /\ Undecided' \in SUBSET Servers
    OBVIOUS
  <2> QED
    BY <1>3, <2>1, <2>2, <2>3 DEF CollectedInv
<1>4. ASSUME NEW id \in Ids, NEW r, Itself(id, r) PROVE CollectedInv'
  BY <1>3, <1>4 DEF Itself, Untouched
<1>10. ASSUME NEW id \in Ids, Retracts(id) PROVE CollectedInv'
  BY <1>3, <1>10 DEF Retracts, Untouched
<1>5. ASSUME NEW id \in Ids, Asks(id) PROVE CollectedInv'
  BY <1>3, <1>5 DEF Asks, Untouched
<1>6. CASE Wakes
  BY <1>1, <1>6 DEF Wakes
<1>7. ASSUME NEW u \in Servers, NEW id \in Ids, Relays(u, id) PROVE CollectedInv'
  BY <1>1, <1>7 DEF Relays
<1>8. ASSUME NEW u \in Servers, NEW id \in Ids, NEW r \in {"ok", "no"}, Takes(u, id, r) PROVE CollectedInv'
  <2>1. Undecided' = IF rpc = "awaiting" /\ id = current THEN Undecided \ {u} ELSE Undecided
    BY <1>0, <1>8 DEF Takes, SlotInv
  <2>2. CASE variant # "merged"
    BY <1>1, <1>8, <2>1, <2>2 DEF Takes
  <2>3. CASE variant = "merged"
    <3>1. finals' = [finals EXCEPT ![id] = Append(@, r)] /\ UNCHANGED <<variant, rpc, current>> /\ id \in Owed(u)
          /\ \A w \in Servers : Owed(w)' = IF w = u THEN Owed(w) \ {id} ELSE Owed(w)
      BY <1>8, <2>3 DEF Takes
    <3>2. Len(finals'[id]) = Len(finals[id]) + 1 /\ \A i \in Ids \ {id} : finals'[i] = finals[i]
      BY <1>0, <3>1 DEF TypeInv
    <3>3. u \in Owing(id) /\ Owing(id)' = Owing(id) \ {u} /\ \A i \in Ids \ {id} : Owing(i)' = Owing(i)
      BY <3>1
    <3>4. ASSUME NEW i \in Ids PROVE Len(finals'[i]) + Cardinality(Owing(i)') <= N
      <4>1. Cardinality(Owing(i)) \in 0..N /\ Len(finals[i]) + Cardinality(Owing(i)) <= N
        BY Few DEF CollectedInv
      <4>2. i = id => Cardinality(Owing(i)') = Cardinality(Owing(i)) - 1
        <5>1. PICK S \in SUBSET Servers : S = Owing(id)
          OBVIOUS
        <5> HIDE DEF Owing
        <5>2. u \in S /\ Owing(id)' = S \ {u}
          BY <3>3, <5>1
        <5>3. Cardinality(S \ {u}) = Cardinality(S) - 1
          BY <5>2, Few
        <5> QED
          BY <5>1, <5>2, <5>3
      <4>3. CASE i = id
        BY <1>0, <3>2, <4>1, <4>2, <4>3
      <4>4. CASE i # id
        <5>1. finals'[i] = finals[i] /\ Owing(i)' = Owing(i)
          BY <3>2, <3>3, <4>4
        <5> QED
          BY <4>1, <5>1
      <4> QED
        BY <4>3, <4>4
    <3>5. ASSUME rpc' = "awaiting" PROVE Len(finals'[current']) + Cardinality(Undecided') <= N
      <4>1. current \in Ids /\ rpc = "awaiting" /\ current' = current
        BY <3>1, <3>5, ProxyAssumption DEF TypeInv, TypeOK, Ids
      <4>5. Cardinality(Undecided) \in 0..N /\ Len(finals[current]) + Cardinality(Undecided) <= N
        BY <4>1, Few DEF CollectedInv
      <4>2. id = current => u \in Undecided /\ Cardinality(Undecided') = Cardinality(Undecided) - 1
        BY <2>1, <3>1, <3>5, Few DEF SlotInv
      <4>3. CASE id = current
        BY <1>0, <3>2, <4>1, <4>2, <4>3, <4>5
      <4>4. CASE id # current
        <5>1. finals'[current] = finals[current] /\ Undecided' = Undecided
          BY <2>1, <3>2, <4>1, <4>4
        <5> QED
          BY <4>1, <4>5, <5>1
      <4> QED
        BY <4>3, <4>4
    <3> QED
      BY <2>3, <3>1, <3>4, <3>5 DEF CollectedInv
  <2> QED
    BY <2>2, <2>3
<1>9. ASSUME NEW u \in Servers, Loses(u) PROVE CollectedInv'
  <2>1. Undecided' = Undecided
    BY <1>0, <1>9 DEF Loses
  <2> QED
    BY <1>1, <1>9, <2>1 DEF Loses
<1> QED
  BY <1>2, <1>4, <1>5, <1>6, <1>7, <1>8, <1>9, <1>10 DEF StepKind

\* What is written for a request.
LEMMA Writes ==
  ASSUME TypeInv, NEW id \in Ids, NEW r \in Responses, got' = [got EXCEPT ![id] = Append(@, r)]
  PROVE  /\ got[id] \in Seq(Responses) /\ Len(got[id]) \in Nat
         /\ got'[id] = Append(got[id], r) /\ Len(got'[id]) = Len(got[id]) + 1
         /\ Answers(id)' = IF r = "entry" THEN Answers(id) ELSE Answers(id) \cup {Len(got[id]) + 1}
         /\ \A i \in Ids \ {id} : got'[i] = got[i] /\ Answers(i)' = Answers(i)
<1>1. got[id] \in Seq(Responses) /\ Len(got[id]) \in Nat /\ DOMAIN got[id] = 1..Len(got[id])
      /\ got'[id] = Append(got[id], r) /\ \A i \in Ids \ {id} : got'[i] = got[i]
  BY DEF TypeInv
<1>2. /\ Len(got'[id]) = Len(got[id]) + 1 /\ DOMAIN got'[id] = 1..Len(got[id]) + 1
      /\ got'[id][Len(got[id]) + 1] = r
      /\ \A i \in 1..Len(got[id]) : got'[id][i] = got[id][i]
  BY <1>1, AppendProperties
<1>3. Answers(id)' = IF r = "entry" THEN Answers(id) ELSE Answers(id) \cup {Len(got[id]) + 1}
  BY <1>1, <1>2 DEF Answers
<1>4. ASSUME NEW i \in Ids \ {id} PROVE Answers(i)' = Answers(i)
  BY <1>1 DEF Answers
<1> QED
  BY <1>1, <1>2, <1>3, <1>4

LEMMA StaysAnswered ==
  ASSUME NEW id \in Ids, AnsweredOf(id), got'[id] = got[id], variant' = variant,
         rpc' = "awaiting" /\ id = current' => rpc = "awaiting" /\ id = current /\ Undecided' \subseteq Undecided,
         Owing(id)' \subseteq Owing(id),
         variant = "merged" => Len(finals'[id]) + Cardinality(Owing(id)') <= Len(finals[id]) + Cardinality(Owing(id)),
         Len(finals[id]) \in Nat, Len(finals'[id]) \in Nat, N \in Nat,
         \A i \in DOMAIN requests : i \in DOMAIN requests' /\ requests'[i] = requests[i]
  PROVE  AnsweredOf(id)'
<1>1. Answers(id)' = Answers(id)
  BY DEF Answers
<1>2. Cardinality(Owing(id)') \in 0..N /\ Cardinality(Owing(id)) \in 0..N
  BY Few DEF Owing
<1>3. Closed(id) => Closed(id)'
  BY <1>2 DEF Closed
<1>4. AnsweredTwice(id) => AnsweredTwice(id)'
  BY DEF AnsweredTwice
<1>5. Once(id) => Once(id)'
  BY <1>1 DEF Once
<1> QED
  BY <1>1, <1>3, <1>4, <1>5 DEF AnsweredOf

LEMMA FirstAnswer ==
  ASSUME TypeInv, NEW id \in Ids, Answers(id) = {}, Closed(id)', NEW r \in Responses,
         got' = [got EXCEPT ![id] = Append(@, r)]
  PROVE  AnsweredOf(id)'
<1>1. Answers(id)' = IF r = "entry" THEN {} ELSE {Len(got'[id])}
  BY Writes
<1>2. got'[id] # <<"ok", "error">>
  <2> SUFFICES ASSUME got'[id] = <<"ok", "error">> PROVE FALSE
    OBVIOUS
  <2> DEFINE both == <<"ok", "error">>
  <2>1. DOMAIN got'[id] = 1..2 /\ got'[id][1] = "ok" /\ got'[id][2] = "error"
    <3>1. DOMAIN both = 1..2 /\ both[1] = "ok" /\ both[2] = "error"
      OBVIOUS
    <3> QED
      BY <3>1
  <2>2. 1 \in Answers(id)' /\ 2 \in Answers(id)'
    BY <2>1 DEF Answers
  <2> QED
    BY <1>1, <2>2
<1>3. Once(id)'
  BY <1>1 DEF Once
<1> QED
  BY <1>2, <1>3 DEF AnsweredOf

\* Nothing was written to it.
LEMMA Unanswered ==
  ASSUME NEW id \in Ids, Answers(id)' = {}
  PROVE  AnsweredOf(id)'
<1>1. got'[id] # <<"ok", "error">>
  <2> SUFFICES ASSUME got'[id] = <<"ok", "error">> PROVE FALSE
    OBVIOUS
  <2>1. 1 \in Answers(id)'
    BY DEF Answers
  <2> QED
    BY <2>1
<1> QED
  BY <1>1 DEF AnsweredOf, Once

\* A merged answer is a success when one of the answers was.
LEMMA Merged ==
  ASSUME NEW s \in Seq(Responses \ {"error", "entry"}), NEW r \in {"ok", "no"}
  PROVE  /\ Merge(Append(s, r)) \in {"ok", "no"}
         /\ Merge(Append(s, r)) = "ok" <=> r = "ok" \/ \E i \in DOMAIN s : s[i] = "ok"
<1> DEFINE t == Append(s, r)
<1>1. /\ Len(s) \in Nat /\ DOMAIN s = 1..Len(s) /\ DOMAIN t = 1..Len(s) + 1 /\ Len(t) = Len(s) + 1
      /\ t[Len(s) + 1] = r /\ \A i \in 1..Len(s) : t[i] = s[i]
  BY AppendProperties DEF Responses
<1> HIDE DEF t
<1>2. (\E i \in DOMAIN t : t[i] = "ok") <=> r = "ok" \/ \E i \in DOMAIN s : s[i] = "ok"
  BY <1>1
<1>3. t[Len(t)] = r
  BY <1>1
<1>4. Merge(t) = IF r = "ok" \/ (\E i \in DOMAIN s : s[i] = "ok") THEN "ok" ELSE r
  BY <1>2, <1>3 DEF Merge
<1> QED
  BY <1>4 DEF t

LEMMA AnsweredStep ==
  ASSUME TypeInv, TypeInv', FrameInv, SlotInv, SlotInv', CollectedInv, AnsweredInv, StepKind,
         \A i \in DOMAIN requests : i \in DOMAIN requests' /\ requests'[i] = requests[i]
  PROVE  AnsweredInv'
<1>0. /\ slot \in [Servers -> {"none", "unset", "value", "error"}] /\ Used \subseteq Servers /\ N \in Nat
      /\ \A id \in Ids : Len(finals[id]) \in Nat /\ Len(finals'[id]) \in Nat
      /\ Used # {}
  <2>1. slot \in [Servers -> {"none", "unset", "value", "error"}] /\ Used \subseteq Servers /\ N \in Nat /\ Used # {}
    <3>1. 1 \in Servers /\ N \in Nat
      BY ProxyAssumption DEF Servers
    <3> QED
      BY <3>1 DEF TypeInv, TypeOK, Used
  <2>2. ASSUME NEW id \in Ids PROVE Len(finals[id]) \in Nat /\ Len(finals'[id]) \in Nat
    <3>1. finals[id] \in Seq(Responses \ {"error", "entry"}) /\ finals'[id] \in Seq(Responses \ {"error", "entry"})
      BY DEF TypeInv
    <3> QED
      BY <3>1
  <2> QED
    BY <2>1, <2>2
<1>1. ASSUME NEW id \in Ids, got'[id] = got[id], UNCHANGED <<variant, finals>>,
             rpc' = "awaiting" /\ id = current' => rpc = "awaiting" /\ id = current /\ Undecided' \subseteq Undecided,
             Owing(id)' \subseteq Owing(id)
      PROVE  AnsweredOf(id)'
  <2>1. Cardinality(Owing(id)') <= Cardinality(Owing(id)) /\ Cardinality(Owing(id)') \in 0..N
        /\ Cardinality(Owing(id)) \in 0..N
    BY <1>1, Few DEF Owing
  <2> QED
    BY <1>0, <1>1, <2>1, StaysAnswered DEF AnsweredInv
<1>2. CASE Quiet
  <2>1. ASSUME NEW id \in Ids PROVE AnsweredOf(id)'
    BY <1>1, <1>2 DEF Quiet, Owing, Undecided
  <2> QED
    BY <2>1 DEF AnsweredInv
<1>3. ASSUME NEW id \in Ids, NEW r \in {"ok", "no", "error"}, Itself(id, r) PROVE AnsweredInv'
  <2>1. ASSUME NEW i \in Ids, i # id PROVE AnsweredOf(i)'
    <3>1. got'[i] = got[i]
      BY <1>3, <2>1 DEF Itself, TypeInv
    <3>2. \A u \in Servers : i \in Owed(u)' => i \in Owed(u)
      BY <1>3, <2>1 DEF Itself
    <3>3. Owing(i)' \subseteq Owing(i)
      BY <3>2 DEF Owing
    <3> QED
      BY <1>1, <1>3, <2>1, <3>1, <3>3 DEF Itself
  <2>2. Answers(id) = {} /\ finals[id] = <<>> /\ Owing(id) = {}
    BY <1>3 DEF Itself, Untouched, Answers
  <2>3. Closed(id)'
    <3>0. PICK sent \in SUBSET Used :
            /\ sent # Used
            /\ \A u \in Servers : Owed(u)' = IF u \in sent THEN Owed(u) \cup {id} ELSE Owed(u)
      BY <1>3 DEF Itself
    <3>1. sent # Used /\ Owing(id)' = sent
      BY <1>0, <2>2, <3>0 DEF Owing
    <3>2. variant' = variant /\ rpc' # "awaiting" /\ finals' = finals
      BY <1>3 DEF Itself
    <3>3. CASE variant = "merged"
      <4>1. sent \in SUBSET Servers /\ sent # Servers
        BY <1>0, <3>1, <3>3 DEF Used
      <4>2. Cardinality(sent) < N /\ Len(finals'[id]) = 0
        BY <2>2, <3>2, <4>1, Few
      <4>3. Cardinality(sent) \in 0..N
        BY <4>1, Few
      <4>4. Len(finals'[id]) + Cardinality(sent) < N
        BY <1>0, <4>2, <4>3
      <4> QED
        BY <3>1, <3>2, <3>3, <4>4 DEF Closed
    <3>4. CASE variant # "merged"
      <4>1. sent = {}
        BY <3>1, <3>4 DEF Used
      <4> QED
        BY <3>1, <3>2, <4>1 DEF Closed
    <3> QED
      BY <3>3, <3>4
  <2>4. CASE got' = got
    <3>1. Answers(id)' = {}
      BY <2>2, <2>4 DEF Answers
    <3> QED
      BY <2>1, <3>1, Unanswered DEF AnsweredInv
  <2>5. CASE got' = [got EXCEPT ![id] = Append(@, r)]
    <3>1. AnsweredOf(id)'
      BY <2>2, <2>3, <2>5, FirstAnswer DEF Responses
    <3> QED
      BY <2>1, <3>1 DEF AnsweredInv
  <2> QED
    BY <1>3, <2>4, <2>5 DEF Itself
<1>4. ASSUME NEW id \in Ids, Asks(id) PROVE AnsweredInv'
  <2>1. ASSUME NEW i \in Ids, i # id PROVE AnsweredOf(i)'
    <3>1. got'[i] = got[i] /\ Owing(i)' \subseteq Owing(i)
      BY <1>4, <2>1 DEF Asks, TypeInv, Owing
    <3> QED
      BY <1>1, <1>4, <2>1, <3>1 DEF Asks
  <2>2. Answers(id)' = {}
    BY <1>4 DEF Asks, Untouched, Answers
  <2> QED
    BY <2>1, <2>2, Unanswered DEF AnsweredInv
<1>5. CASE Wakes
  <2>1. rpc = "awaiting" /\ rpc' # "awaiting" /\ UNCHANGED <<variant, finals>> /\ current \in Ids
        /\ \A id \in Ids : Owing(id)' = Owing(id)
    BY <1>5, ProxyAssumption DEF Wakes, Owing, TypeInv, TypeOK, Ids
  <2>2. CASE got' = got
    BY <1>1, <2>1, <2>2 DEF AnsweredInv
  <2>3. CASE (\E u \in Used : slot[u] = "error") /\ got' = [got EXCEPT ![current] = Append(@, "error")]
    <3>1. PICK u \in Used : slot[u] = "error"
      BY <2>3
    <3>2. PICK id \in Ids : id = current
      BY <2>1
    <3>3. u \in Undecided /\ Owing(id) \subseteq Undecided \ {u}
      BY <1>0, <2>1, <3>1, <3>2 DEF Undecided, SlotInv, Owing
    <3>4. Answers(id) = {}
      BY <2>1, <3>2, <3>3 DEF AnsweredInv, AnsweredOf, Closed
    <3>5. Closed(id)'
      <4>1. CASE variant = "merged"
        <5>1. Cardinality(Owing(id)) < Cardinality(Undecided) /\ Cardinality(Owing(id)) \in 0..N
              /\ Cardinality(Undecided) \in 0..N
          BY <3>3, Few DEF Owing, Undecided
        <5>2. Len(finals[id]) + Cardinality(Undecided) <= N
          BY <2>1, <3>2 DEF CollectedInv
        <5>3. Len(finals[id]) + Cardinality(Owing(id)) < N
          BY <1>0, <5>1, <5>2
        <5> QED
          BY <2>1, <4>1, <5>3 DEF Closed
      <4>2. CASE variant # "merged"
        <5>1. Owing(id) = {}
          BY <2>1, <3>1, <3>3, <4>2 DEF SlotInv, Used
        <5> QED
          BY <2>1, <5>1 DEF Closed
      <4> QED
        BY <4>1, <4>2
    <3>6. AnsweredOf(id)'
      BY <2>3, <3>2, <3>4, <3>5, FirstAnswer DEF Responses
    <3>7. ASSUME NEW i \in Ids, i # id PROVE AnsweredOf(i)'
      BY <1>1, <2>1, <2>3, <3>2, <3>7
    <3> QED
      BY <3>6, <3>7 DEF AnsweredInv
  <2> QED
    BY <1>5, <2>2, <2>3 DEF Wakes
<1>6. ASSUME NEW u \in Servers, NEW id \in Ids, Relays(u, id) PROVE AnsweredInv'
  <2>1. UNCHANGED <<variant, finals, rpc, current, slot>> /\ Undecided' = Undecided
        /\ \A i \in Ids : Owing(i)' = Owing(i)
    BY <1>6 DEF Relays, Owing, Undecided
  <2>2. CASE got' = got
    BY <1>1, <2>1, <2>2 DEF AnsweredInv
  <2>3. CASE got' = [got EXCEPT ![id] = Append(@, "entry")]
    <3>1. ASSUME NEW i \in Ids, i # id PROVE AnsweredOf(i)'
      BY <1>1, <2>1, <2>3, <3>1
    <3>2. Answers(id)' = Answers(id)
      BY <2>3, Writes DEF Responses
    <3>3. Answers(id) # {} => variant = "merged"
      BY <1>6 DEF AnsweredInv, AnsweredOf, Closed, Relays, Owing
    <3>4. Closed(id)' <=> Closed(id)
      BY <2>1 DEF Closed
    <3>6. got[id] \in Seq(Responses) /\ got'[id] = Append(got[id], "entry") /\ Owing(id) # {}
      BY <1>6, <2>3 DEF Relays, Owing, TypeInv
    <3>7. got'[id] # <<"ok", "error">>
      <4>1. got'[id][Len(got'[id])] = "entry"
        BY <3>6
      <4>2. <<"ok", "error">>[Len(<<"ok", "error">>)] = "error"
        OBVIOUS
      <4> QED
        BY <4>1, <4>2
    <3>8. Once(id)
      BY <3>6 DEF AnsweredInv, AnsweredOf, AnsweredTwice
    <3>9. Once(id)'
      BY <2>1, <3>2, <3>3, <3>8 DEF Once
    <3>5. AnsweredOf(id)'
      BY <3>2, <3>4, <3>7, <3>9 DEF AnsweredInv, AnsweredOf
    <3> QED
      BY <3>1, <3>5 DEF AnsweredInv
  <2> QED
    BY <1>6, <2>2, <2>3 DEF Relays
<1>7. ASSUME NEW u \in Servers, NEW id \in Ids, NEW r \in {"ok", "no"}, Takes(u, id, r) PROVE AnsweredInv'
  <2>1. /\ Undecided' \subseteq Undecided
        /\ rpc = "awaiting" /\ id = current => u \in Undecided /\ Undecided' = Undecided \ {u}
    BY <1>0, <1>7 DEF Takes, SlotInv, Undecided
  <2>2. UNCHANGED <<variant, rpc, current>> /\ u \in Owing(id) /\ Owing(id)' = Owing(id) \ {u}
        /\ \A i \in Ids \ {id} : Owing(i)' = Owing(i)
    BY <1>7 DEF Takes, Owing
  <2>3. \A i \in Ids \ {id} : got'[i] = got[i] /\ finals'[i] = finals[i]
    BY <1>7 DEF Takes, TypeInv
  <2>4. ASSUME NEW i \in Ids, i # id PROVE AnsweredOf(i)'
    <3>1. got'[i] = got[i] /\ finals'[i] = finals[i] /\ Owing(i)' = Owing(i)
      BY <2>2, <2>3, <2>4
    <3>2. Cardinality(Owing(i)) \in 0..N
      BY Few DEF Owing
    <3> QED
      BY <1>0, <2>1, <2>2, <3>1, <3>2, StaysAnswered DEF AnsweredInv
  <2>5. CASE variant # "merged"
    <3>1. Answers(id) = {}
      BY <2>2, <2>5 DEF AnsweredInv, AnsweredOf, Closed
    <3>2. Owing(id)' = {}
      BY <2>2, <2>5 DEF FrameInv, AskedInv, Owing, Used
    <3>3. rpc = "awaiting" /\ id = current => Undecided' = {}
      BY <2>1, <2>5 DEF SlotInv, Used
    <3>4. Closed(id)'
      BY <2>2, <3>2, <3>3 DEF Closed
    <3>5. got' = got \/ got' = [got EXCEPT ![id] = Append(@, r)]
      BY <1>7, <2>5 DEF Takes
    <3>6. CASE got' = got
      <4>1. Answers(id)' = {}
        BY <3>1, <3>6 DEF Answers
      <4> QED
        BY <2>4, <4>1, Unanswered DEF AnsweredInv
    <3>7. CASE got' = [got EXCEPT ![id] = Append(@, r)]
      <4>1. AnsweredOf(id)'
        BY <3>1, <3>4, <3>7, FirstAnswer DEF Responses
      <4> QED
        BY <2>4, <4>1 DEF AnsweredInv
    <3> QED
      BY <3>5, <3>6, <3>7
  <2>6. CASE variant = "merged"
    <3>1. Cardinality(Owing(id)') = Cardinality(Owing(id)) - 1 /\ Cardinality(Owing(id)) \in 0..N
          /\ Owing(id) \in SUBSET Servers /\ Owing(id)' \in SUBSET Servers
      BY <2>2, Few DEF Owing
    <3>2. Len(finals'[id]) = Len(finals[id]) + 1
      BY <1>7, <2>6 DEF Takes, TypeInv
    <3>3. CASE got' = got
      <4>1. rpc = "awaiting" /\ id = current => Undecided' \subseteq Undecided
        BY <2>1
      <4>2. Len(finals'[id]) + Cardinality(Owing(id)') = Len(finals[id]) + Cardinality(Owing(id))
        BY <1>0, <3>1, <3>2
      <4>4. /\ AnsweredOf(id) /\ got'[id] = got[id] /\ Owing(id)' \subseteq Owing(id)
            /\ Len(finals'[id]) + Cardinality(Owing(id)') <= Len(finals[id]) + Cardinality(Owing(id))
        BY <1>0, <2>2, <3>1, <3>3, <4>2 DEF AnsweredInv
      <4>3. AnsweredOf(id)'
        BY <1>0, <2>2, <4>1, <4>4, StaysAnswered
      <4> QED
        BY <2>4, <4>3 DEF AnsweredInv
    <3>4. CASE /\ Len(finals[id]) + 1 = N
               /\ got' = [got EXCEPT ![id] = Append(@, Merge(Append(finals[id], r)))]
      <4>1. Len(finals[id]) + Cardinality(Owing(id)) <= N
        BY DEF CollectedInv
      <4>2. Cardinality(Owing(id)') = 0 /\ Cardinality(Owing(id)) = 1
        <5>1. Cardinality(Owing(id)') \in 0..N
          BY <3>1, Few
        <5> QED
          BY <1>0, <3>1, <3>4, <4>1, <5>1
      <4>3. Owing(id)' = {}
        BY <3>1, <4>2, Few
      <4>4. Answers(id) = {}
        <5>1. ~(Len(finals[id]) + Cardinality(Owing(id)) < N) /\ Owing(id) # {}
          BY <1>0, <2>2, <3>4, <4>2
        <5> QED
          BY <5>1 DEF AnsweredInv, AnsweredOf, Closed
      <4>5. rpc = "awaiting" /\ id = current => Undecided' = {}
        <5> SUFFICES ASSUME rpc = "awaiting", id = current PROVE Undecided' = {}
          OBVIOUS
        <5>1. Undecided \in SUBSET Servers /\ Undecided' \in SUBSET Servers /\ u \in Undecided
              /\ Undecided' = Undecided \ {u}
          BY <2>1 DEF Undecided
        <5>2. Len(finals[id]) + Cardinality(Undecided) <= N /\ Cardinality(Undecided) \in 0..N
              /\ Cardinality(Undecided') = Cardinality(Undecided) - 1 /\ Cardinality(Undecided') \in 0..N
          BY <5>1, Few DEF CollectedInv
        <5>3. Cardinality(Undecided') = 0
          BY <1>0, <3>4, <5>2
        <5> QED
          BY <5>1, <5>3, Few
      <4>6. Closed(id)'
        BY <2>2, <4>3, <4>5 DEF Closed
      <4>7. Merge(Append(finals[id], r)) \in Responses
        BY Merged DEF TypeInv, Responses
      <4>8. AnsweredOf(id)'
        BY <3>4, <4>4, <4>6, <4>7, FirstAnswer
      <4> QED
        BY <2>4, <4>8 DEF AnsweredInv
    <3> QED
      BY <1>7, <2>6, <3>3, <3>4 DEF Takes
  <2> QED
    BY <2>5, <2>6
<1>8. ASSUME NEW u \in Servers, Loses(u) PROVE AnsweredInv'
  <2>1. Undecided' = Undecided
    BY <1>0, <1>8 DEF Loses, Undecided
  <2>2. ASSUME NEW id \in Ids PROVE AnsweredOf(id)'
    <3>1. Owing(id)' \subseteq Owing(id)
      BY <1>8 DEF Loses, Owing
    <3> QED
      BY <1>1, <1>8, <2>1, <3>1 DEF Loses
  <2> QED
    BY <2>2 DEF AnsweredInv
<1>9. ASSUME NEW id \in Ids, Retracts(id) PROVE AnsweredInv'
  <2>1. UNCHANGED <<variant, finals>> /\ rpc' # "awaiting" /\ \A i \in Ids : Owing(i)' = Owing(i)
    BY <1>9 DEF Retracts, Owing
  <2>2. got' = [got EXCEPT ![id] = <<"ok", "error">>]
    BY <1>9 DEF Retracts
  <2>3. ASSUME NEW i \in Ids, i # id PROVE AnsweredOf(i)'
    BY <1>1, <2>1, <2>2, <2>3
  <2>4. Owing(id)' = {} /\ Closed(id)'
    BY <1>9, <2>1 DEF Retracts, Untouched, Closed
  <2>5. AnsweredTwice(id)'
    BY <1>9, <2>2 DEF Retracts, AnsweredTwice, TypeInv
  <2> QED
    BY <2>3, <2>4, <2>5 DEF AnsweredInv, AnsweredOf
<1> QED
  BY <1>2, <1>3, <1>4, <1>5, <1>6, <1>7, <1>8, <1>9 DEF StepKind

-----------------------------------------------------------------------------
(* The truth of what a client is told of its bind.                         *)

LEMMA Tells ==
  ASSUME TypeInv, NEW id \in Ids, NEW r \in Responses, got' = [got EXCEPT ![id] = Append(@, r)]
  PROVE  /\ \A response : Told(id, response)' <=> Told(id, response) \/ response = r
         /\ \A i \in Ids \ {id} : got'[i] = got[i]
<1>1. got[id] \in Seq(Responses) /\ Len(got[id]) \in Nat /\ DOMAIN got[id] = 1..Len(got[id])
      /\ got'[id] = Append(got[id], r) /\ \A i \in Ids \ {id} : got'[i] = got[i]
  BY DEF TypeInv
<1>2. /\ DOMAIN got'[id] = 1..Len(got[id]) + 1 /\ got'[id][Len(got[id]) + 1] = r
      /\ \A i \in 1..Len(got[id]) : got'[id][i] = got[id][i]
  BY <1>1, AppendProperties
<1> QED
  BY <1>1, <1>2 DEF Told

LEMMA SameTold ==
  ASSUME NEW id, got'[id] = got[id]
  PROVE  \A response : Told(id, response)' <=> Told(id, response)
BY DEF Told

\* When the last of the proxied servers has answered, none has still to.
LEMMA LastAnswer ==
  ASSUME TypeInv, CollectedInv, NEW u \in Servers, NEW id \in Ids, u \in Owing(id), Len(finals[id]) + 1 = N
  PROVE  Owing(id) = {u} /\ ~(Len(finals[id]) + Cardinality(Owing(id)) < N)
<1>1. Owing(id) \in SUBSET Servers /\ Owing(id) \ {u} \in SUBSET Servers /\ N \in Nat /\ Len(finals[id]) \in Nat
  BY ProxyAssumption DEF Owing, TypeInv
<1>2. /\ Cardinality(Owing(id)) \in 0..N /\ Cardinality(Owing(id) \ {u}) \in 0..N
      /\ Cardinality(Owing(id) \ {u}) = Cardinality(Owing(id)) - 1
      /\ Cardinality(Owing(id) \ {u}) = 0 => Owing(id) \ {u} = {}
  BY <1>1, Few
<1>3. Len(finals[id]) + Cardinality(Owing(id)) <= N
  BY DEF CollectedInv
<1>4. Cardinality(Owing(id) \ {u}) = 0 /\ ~(Len(finals[id]) + Cardinality(Owing(id)) < N)
  BY <1>1, <1>2, <1>3
<1> QED
  BY <1>2, <1>4

\* The answer a proxied server gave last is a refusal only when none accepted.
LEMMA RefusalIsTrue ==
  ASSUME TypeInv, FrameInv, CollectedInv, AcceptedInv, NEW u \in Servers, NEW id \in Ids, id \in accepted,
         u \in Owing(id), id \notin Oks(u), ~Kept(id), variant = "merged" => Len(finals[id]) + 1 = N
  PROVE  FALSE
<1>1. Owing(id) = {u}
  BY LastAnswer DEF FrameInv, AskedInv, Owing, Used
<1>2. \A w \in Servers : id \in Oks(w) => w \in Owing(id)
  BY DEF Oks, Owing, Owed, Answering
<1>3. \A w \in Servers : id \notin Oks(w)
  BY <1>1, <1>2
<1>4. variant = "merged" /\ Len(finals[id]) + Cardinality(Owing(id)) < N
  BY <1>1, <1>3 DEF AcceptedInv
<1> QED
  BY <1>4, LastAnswer

\* What a proxied server's answer tells the client of a bind.
LEMMA TakesTells ==
  ASSUME TypeInv, FrameInv, CollectedInv, AcceptedInv, NEW u \in Servers, NEW id \in Ids, NEW r \in {"ok", "no"},
         Takes(u, id, r)
  PROVE  /\ \A i \in Ids \ {id} : \A response : Told(i, response)' <=> Told(i, response)
         /\ Told(id, "ok")' => Told(id, "ok") \/ id \in accepted
         /\ Told(id, "no")' => Told(id, "no") \/ (id \notin accepted /\ Owing(id)' = {})
<1>1. u \in Owing(id) /\ (r = "ok" <=> id \in Oks(u)) /\ Owing(id)' = Owing(id) \ {u}
  BY DEF Takes, Owing
<1>2. r = "ok" \/ Kept(id) => id \in accepted
  BY <1>1 DEF AcceptedInv
<1>3. CASE got' = got
  BY <1>3 DEF Told
<1>4. ASSUME NEW t \in {"ok", "no"}, got' = [got EXCEPT ![id] = Append(@, t)],
             t = "ok" => id \in accepted, t = "no" => r = "no" /\ ~Kept(id),
             variant = "merged" => Len(finals[id]) + 1 = N
      PROVE  /\ \A i \in Ids \ {id} : \A response : Told(i, response)' <=> Told(i, response)
             /\ Told(id, "ok")' => Told(id, "ok") \/ id \in accepted
             /\ Told(id, "no")' => Told(id, "no") \/ (id \notin accepted /\ Owing(id)' = {})
  <2>1. (\A response : Told(id, response)' <=> Told(id, response) \/ response = t)
        /\ \A i \in Ids \ {id} : got'[i] = got[i]
    BY <1>4, Tells DEF Responses
  <2>2. t = "no" => id \notin accepted
    BY <1>1, <1>4, RefusalIsTrue
  <2>3. Owing(id)' = {}
    <3>1. Owing(id) = {u}
      BY <1>1, <1>4, LastAnswer DEF FrameInv, AskedInv, Owing, Used
    <3> QED
      BY <1>1, <3>1
  <2> QED
    BY <1>4, <2>1, <2>2, <2>3, SameTold
<1>5. CASE variant # "merged" /\ got' = [got EXCEPT ![id] = Append(@, r)]
  <2>1. ~Kept(id)
    BY <1>5 DEF CollectedInv, Kept
  <2> QED
    BY <1>2, <1>4, <1>5, <2>1
<1>6. CASE /\ Len(finals[id]) + 1 = N
           /\ got' = [got EXCEPT ![id] = Append(@, Merge(Append(finals[id], r)))]
  <2>1. PICK t \in {"ok", "no"} : t = Merge(Append(finals[id], r)) /\ (t = "ok" <=> r = "ok" \/ Kept(id))
    BY Merged DEF TypeInv, Kept
  <2> QED
    BY <1>2, <1>4, <1>6, <2>1
<1> QED
  BY <1>3, <1>5, <1>6 DEF Takes

LEMMA AcceptedStep ==
  ASSUME TypeInv, TypeInv', FrameInv, CollectedInv, AcceptedInv, StepKind
  PROVE  AcceptedInv'
<1> DEFINE Sound(id) == \/ \E u \in Servers : id \in Oks(u)
                        \/ Kept(id)
                        \/ IF variant = "merged" THEN Len(finals[id]) + Cardinality(Owing(id)) < N
                           ELSE Owing(id) = {}
<1>0. AcceptedInv <=> /\ \A u \in Servers : Oks(u) \subseteq accepted
                      /\ \A id \in Ids : Kept(id) => id \in accepted
                      /\ \A id \in accepted : Sound(id)
                      /\ \A id \in Ids : Told(id, "no") => Owing(id) = {}
  BY DEF AcceptedInv
<1>00. AcceptedInv' <=> /\ \A u \in Servers : Oks(u)' \subseteq accepted'
                        /\ \A id \in Ids : Kept(id)' => id \in accepted'
                        /\ \A id \in accepted' : Sound(id)'
                        /\ \A id \in Ids : Told(id, "no")' => Owing(id)' = {}
  BY DEF AcceptedInv
<1>1. accepted \subseteq Ids /\ accepted' \subseteq Ids /\ N \in Nat
  BY ProxyAssumption DEF TypeInv, TypeOK
<1>2. ASSUME NEW id \in Ids, finals'[id] = finals[id], Owing(id)' = Owing(id), variant' = variant, Sound(id),
             \A u \in Servers : id \in Oks(u) => id \in Oks(u)'
      PROVE  Sound(id)'
  BY <1>2 DEF Kept
<1>3. CASE Quiet
  <2>0. PICK u \in Servers :
          \E new \in SUBSET Owed(u) :
            /\ accepted' = accepted \cup new
            /\ \A w \in Servers : Oks(w)' = IF w = u THEN Oks(w) \cup new ELSE Oks(w)
    BY <1>3 DEF Quiet
  <2>1. PICK new \in SUBSET Owed(u) :
          /\ accepted' = accepted \cup new
          /\ \A w \in Servers : Oks(w)' = IF w = u THEN Oks(w) \cup new ELSE Oks(w)
    BY <2>0
  <2>2. UNCHANGED <<variant, finals, got>> /\ \A id \in Ids : Owing(id)' = Owing(id)
    BY <1>3 DEF Quiet, Owing
  <2>3. ASSUME NEW id \in accepted' PROVE Sound(id)'
    <3>1. CASE id \in new
      BY <2>1, <3>1
    <3>2. CASE id \in accepted
      BY <1>0, <1>1, <1>2, <2>1, <2>2, <3>2
    <3> QED
      BY <2>1, <3>1, <3>2
  <2>4. \A id \in Ids : (Told(id, "no")' <=> Told(id, "no")) /\ (Kept(id)' <=> Kept(id))
    BY <2>2 DEF Told, Kept
  <2>5. \A w \in Servers : Oks(w)' \subseteq accepted'
    BY <1>0, <2>1
  <2> HIDE DEF Sound
  <2> QED
    BY <1>0, <1>00, <2>1, <2>2, <2>3, <2>4, <2>5
<1>4. ASSUME NEW id \in Ids, NEW r \in {"ok", "no", "error"}, Itself(id, r) PROVE AcceptedInv'
  <2>1. /\ UNCHANGED <<variant, finals>> /\ \A u \in Servers : Oks(u)' = Oks(u)
        /\ \A i \in Ids \ {id} : Owing(i)' = Owing(i)
        /\ r # "error" => Owing(id)' = Owing(id)
        /\ Owing(id) = {} /\ id \notin accepted /\ got[id] = <<>>
    BY <1>4 DEF Itself, Untouched, Owing
  <2>2. accepted' = accepted \/ (accepted' = accepted \cup {id} /\ r = "ok" /\ variant = "binding")
    BY <1>4 DEF Itself
  <2>3. ASSUME NEW i \in accepted' PROVE Sound(i)'
    <3>1. CASE i = id
      BY <2>1, <2>2, <3>1
    <3>2. CASE i # id
      BY <1>0, <1>1, <1>2, <2>1, <2>2, <3>2
    <3> QED
      BY <3>1, <3>2
  <2>4. \A i \in Ids : Kept(i)' <=> Kept(i)
    BY <2>1 DEF Kept
  <2>5. \A i \in Ids : Told(i, "no")' => Told(i, "no") \/ (i = id /\ r = "no")
    <3>1. CASE got' = got
      BY <3>1 DEF Told
    <3>2. CASE got' = [got EXCEPT ![id] = Append(@, r)]
      BY <3>2, Tells, SameTold DEF Responses
    <3> QED
      BY <1>4, <3>1, <3>2 DEF Itself
  <2>6. \A i \in Ids : Told(i, "no")' => Owing(i)' = {}
    BY <1>0, <2>1, <2>5 DEF Told
  <2>7. \A u \in Servers : Oks(u)' \subseteq accepted'
    BY <1>0, <2>1, <2>2
  <2> HIDE DEF Sound
  <2> QED
    BY <1>0, <1>00, <2>2, <2>3, <2>4, <2>6, <2>7
<1>11. ASSUME NEW id \in Ids, Retracts(id) PROVE AcceptedInv'
  <2>1. UNCHANGED <<variant, finals>> /\ OksSame /\ (\A i \in Ids : Owing(i)' = Owing(i))
        /\ got' = [got EXCEPT ![id] = <<"ok", "error">>]
    BY <1>11 DEF Retracts, Owing
  <2>2. ASSUME NEW i \in accepted' PROVE Sound(i)'
    BY <1>0, <1>1, <1>2, <2>1 DEF OksSame
  <2>3. \A i \in Ids : (Kept(i)' <=> Kept(i)) /\ (Told(i, "no")' => Told(i, "no"))
    BY <2>1 DEF Kept, Told, TypeInv
  <2>4. (\A u \in Servers : Oks(u)' \subseteq accepted') /\ accepted' = accepted
    BY <1>0, <2>1 DEF OksSame
  <2> HIDE DEF Sound
  <2> QED
    BY <1>0, <1>00, <2>1, <2>2, <2>3, <2>4
<1>5. ASSUME NEW id \in Ids, Asks(id) PROVE AcceptedInv'
  <2>1. /\ UNCHANGED <<variant, finals, got>> /\ OksSame
        /\ \A i \in Ids \ {id} : Owing(i)' = Owing(i)
        /\ id \notin accepted /\ got[id] = <<>>
    BY <1>5 DEF Asks, Untouched, Owing
  <2>2. ASSUME NEW i \in accepted' PROVE Sound(i)'
    BY <1>0, <1>1, <1>2, <2>1 DEF OksSame
  <2>3. \A i \in Ids : (Told(i, "no")' <=> Told(i, "no") /\ i # id) /\ (Kept(i)' <=> Kept(i))
    BY <2>1 DEF Told, Kept
  <2>4. \A i \in Ids : Told(i, "no")' => Owing(i)' = {}
    BY <1>0, <2>1, <2>3
  <2> HIDE DEF Sound
  <2> QED
    BY <1>0, <1>00, <2>1, <2>2, <2>3, <2>4 DEF OksSame
<1>6. ASSUME UNCHANGED <<variant, finals>>, OksSame, \A id \in Ids : Owing(id)' = Owing(id),
             \A id \in Ids : Told(id, "no")' => Told(id, "no")
      PROVE  AcceptedInv'
  <2>1. ASSUME NEW i \in accepted' PROVE Sound(i)'
    BY <1>0, <1>1, <1>2, <1>6, <2>1 DEF OksSame
  <2>2. \A i \in Ids : Kept(i)' <=> Kept(i)
    BY <1>6 DEF Kept
  <2> HIDE DEF Sound
  <2> QED
    BY <1>0, <1>00, <1>6, <2>1, <2>2 DEF OksSame
<1>7. CASE Wakes
  <2>1. UNCHANGED <<variant, finals>> /\ OksSame /\ current \in Ids /\ \A id \in Ids : Owing(id)' = Owing(id)
    BY <1>7, ProxyAssumption DEF Wakes, Owing, TypeInv, TypeOK, Ids
  <2>2. \A id \in Ids : Told(id, "no")' => Told(id, "no")
    <3>1. CASE got' = got
      BY <3>1 DEF Told
    <3>2. CASE got' = [got EXCEPT ![current] = Append(@, "error")]
      BY <2>1, <3>2, Tells, SameTold DEF Responses
    <3> QED
      BY <1>7, <3>1, <3>2 DEF Wakes
  <2> QED
    BY <1>6, <2>1, <2>2
<1>8. ASSUME NEW u \in Servers, NEW id \in Ids, Relays(u, id) PROVE AcceptedInv'
  <2>1. UNCHANGED <<variant, finals>> /\ OksSame /\ \A i \in Ids : Owing(i)' = Owing(i)
    BY <1>8 DEF Relays, Owing
  <2>2. \A i \in Ids : Told(i, "no")' => Told(i, "no")
    <3>1. CASE got' = got
      BY <3>1 DEF Told
    <3>2. CASE got' = [got EXCEPT ![id] = Append(@, "entry")]
      BY <3>2, Tells, SameTold DEF Responses
    <3> QED
      BY <1>8, <3>1, <3>2 DEF Relays
  <2> QED
    BY <1>6, <2>1, <2>2
<1>9. ASSUME NEW u \in Servers, NEW id \in Ids, NEW r \in {"ok", "no"}, Takes(u, id, r) PROVE AcceptedInv'
  <2>1. /\ UNCHANGED <<variant, accepted>> /\ u \in Owing(id) /\ Owing(id)' = Owing(id) \ {u}
        /\ \A i \in Ids \ {id} : Owing(i)' = Owing(i)
        /\ \A w \in Servers : Oks(w)' = IF w = u THEN Oks(w) \ {id} ELSE Oks(w)
        /\ r = "ok" <=> id \in Oks(u)
    BY <1>9 DEF Takes, Owing
  <2>2. finals[id] \in Seq(Responses \ {"error", "entry"}) /\ Len(finals[id]) \in Nat
        /\ DOMAIN finals[id] = 1..Len(finals[id])
    BY DEF TypeInv
  <2>3. /\ \A i \in Ids \ {id} : finals'[i] = finals[i]
        /\ variant # "merged" => finals'[id] = finals[id]
        /\ variant = "merged" => finals'[id] = Append(finals[id], r) /\ Len(finals'[id]) = Len(finals[id]) + 1
    BY <1>9, <2>2 DEF Takes, TypeInv
  <2>4. Kept(id)' <=> Kept(id) \/ (variant = "merged" /\ r = "ok")
    <3>1. CASE variant = "merged"
      <4>1. /\ DOMAIN finals'[id] = 1..Len(finals[id]) + 1 /\ finals'[id][Len(finals[id]) + 1] = r
            /\ \A i \in 1..Len(finals[id]) : finals'[id][i] = finals[id][i]
        <5>1. r \in Responses \ {"error", "entry"}
          BY DEF Responses
        <5> QED
          BY <2>2, <2>3, <3>1, <5>1, AppendProperties
      <4> QED
        BY <2>2, <3>1, <4>1 DEF Kept
    <3> QED
      BY <2>3, <3>1 DEF Kept
  <2>5. \A i \in Ids \ {id} : Kept(i)' <=> Kept(i)
    BY <2>3 DEF Kept
  <2>6. \A i \in Ids : Kept(i)' => i \in accepted'
    BY <1>0, <2>1, <2>4, <2>5
  <2>7. ASSUME NEW i \in accepted' PROVE Sound(i)'
    <3>1. CASE i # id
      BY <1>0, <1>1, <1>2, <2>1, <2>3, <3>1
    <3>2. CASE i = id
      <4>1. CASE \E w \in Servers \ {u} : id \in Oks(w)
        BY <2>1, <3>2, <4>1
      <4>2. CASE Kept(id) \/ (variant = "merged" /\ r = "ok")
        BY <2>4, <3>2, <4>2
      <4>3. CASE variant # "merged"
        <5>1. Owing(id)' = {}
          BY <2>1, <4>3 DEF FrameInv, AskedInv, Owing, Used
        <5> QED
          BY <2>1, <3>2, <4>3, <5>1
      <4>4. CASE variant = "merged" /\ Len(finals[id]) + Cardinality(Owing(id)) < N
        <5>1. Cardinality(Owing(id)') = Cardinality(Owing(id)) - 1 /\ Cardinality(Owing(id)) \in 0..N
          BY <2>1, Few DEF Owing
        <5>2. Len(finals'[id]) + Cardinality(Owing(id)') < N
          BY <1>1, <2>2, <2>3, <4>4, <5>1
        <5> QED
          BY <2>1, <3>2, <4>4, <5>2
      <4> QED
        BY <1>0, <2>1, <3>2, <4>1, <4>2, <4>3, <4>4
    <3> QED
      BY <3>1, <3>2
  <2>8. \A i \in Ids : Told(i, "no")' => Owing(i)' = {}
    BY <1>0, <1>9, <2>1, TakesTells
  <2>9. \A w \in Servers : Oks(w)' \subseteq accepted'
    BY <1>0, <2>1
  <2> HIDE DEF Sound
  <2> QED
    BY <1>00, <2>6, <2>7, <2>8, <2>9
<1>10. ASSUME NEW u \in Servers, Loses(u) PROVE AcceptedInv'
  <2>1. /\ UNCHANGED <<variant, accepted, finals, got>>
        /\ \A i \in Ids : Owing(i)' = Owing(i) \ {u}
        /\ \A w \in Servers : Oks(w)' = IF w = u THEN {} ELSE Oks(w)
    BY <1>10 DEF Loses, Owing
  <2>2. \A i \in Ids : (Told(i, "no")' <=> Told(i, "no")) /\ (Kept(i)' <=> Kept(i))
    BY <2>1 DEF Told, Kept
  <2>3. ASSUME NEW i \in accepted' PROVE Sound(i)'
    <3>1. CASE \E w \in Servers \ {u} : i \in Oks(w)
      BY <2>1, <3>1
    <3>2. CASE Kept(i)
      BY <1>1, <2>2, <3>2
    <3>3. CASE variant = "merged"
      <4>1. i \in Ids /\ Len(finals[i]) \in Nat /\ Cardinality(Owing(i)) \in 0..N /\ Cardinality(Owing(i)') \in 0..N
            /\ Len(finals[i]) + Cardinality(Owing(i)) <= N /\ Cardinality(Owing(i)') <= Cardinality(Owing(i))
            /\ (u \in Owing(i) => Cardinality(Owing(i)') = Cardinality(Owing(i)) - 1)
        <5>1. i \in Ids /\ Owing(i) \in SUBSET Servers /\ Owing(i)' \in SUBSET Servers
              /\ Owing(i)' = Owing(i) \ {u}
          BY <1>1, <2>1, <2>3 DEF Owing
        <5>2. finals[i] \in Seq(Responses \ {"error", "entry"})
          BY <5>1 DEF TypeInv
        <5>3. Len(finals[i]) \in Nat /\ Len(finals[i]) + Cardinality(Owing(i)) <= N
          BY <5>1, <5>2 DEF CollectedInv
        <5>4. /\ Cardinality(Owing(i)) \in 0..N /\ Cardinality(Owing(i)') \in 0..N
              /\ Cardinality(Owing(i)') <= Cardinality(Owing(i))
              /\ (u \in Owing(i) => Cardinality(Owing(i)') = Cardinality(Owing(i)) - 1)
          BY <5>1, Few
        <5> QED
          BY <5>1, <5>3, <5>4
      <4>2. i \in Oks(u) => u \in Owing(i)
        BY DEF Oks, Owing, Owed, Answering
      <4>3. (\E w \in Servers \ {u} : i \in Oks(w)) \/ Kept(i) \/ Len(finals[i]) + Cardinality(Owing(i)') < N
        BY <1>0, <1>1, <2>1, <3>3, <4>1, <4>2
      <4> QED
        BY <2>1, <3>1, <3>2, <3>3, <4>3
    <3>4. CASE variant # "merged"
      <4>1. Owing(i) \subseteq {1}
        BY <1>1, <3>4 DEF FrameInv, AskedInv, Owing, Used
      <4>2. \A w \in Servers : i \in Oks(w) => w \in Owing(i)
        BY DEF Oks, Owing, Owed, Answering
      <4>3. (\E w \in Servers \ {u} : i \in Oks(w)) \/ Kept(i) \/ Owing(i)' = {}
        BY <1>0, <1>1, <2>1, <3>4, <4>1, <4>2
      <4> QED
        BY <2>1, <3>1, <3>2, <3>4, <4>3
    <3> QED
      BY <3>3, <3>4
  <2>4. \A i \in Ids : Told(i, "no")' => Owing(i)' = {}
    BY <1>0, <2>1, <2>2
  <2> HIDE DEF Sound
  <2> QED
    BY <1>0, <1>00, <2>1, <2>2, <2>3, <2>4
<1> QED
  BY <1>3, <1>4, <1>5, <1>7, <1>8, <1>9, <1>10, <1>11 DEF StepKind

LEMMA ToldStep ==
  ASSUME TypeInv, TypeInv', FrameInv, FrameInv', CollectedInv, AcceptedInv, ToldInv, [Next]_vars, ~Endless
  PROVE  ToldInv'
<1> DEFINE True(id) == (Told(id, "ok") => id \in accepted) /\ (Told(id, "no") => id \notin accepted)
<1>1. SUFFICES ASSUME NEW id \in DOMAIN requests', requests'[id] = "bind"
               PROVE  True(id)'
  BY DEF ToldInv
<1>2. id \in Ids
  <2>1. requests' \in Seq(Kinds) /\ Len(requests') <= MaxRequests
    BY DEF TypeInv, TypeOK
  <2>2. DOMAIN requests' = 1..Len(requests') /\ Len(requests') \in Nat
    BY <2>1
  <2> QED
    BY <1>1, <2>1, <2>2, ProxyAssumption DEF Ids
<1>3. CASE id \notin DOMAIN requests
  <2>1. next' = next /\ next <= Len(requests) + 1 /\ Len(requests) \in Nat /\ DOMAIN requests = 1..Len(requests)
        /\ next \in Nat
    <3>1. next' = next
      BY <1>1, <1>3, Going
    <3>2. requests \in Seq(Kinds) /\ next <= Len(requests) + 1 /\ next \in 1..MaxRequests + 1
      BY DEF TypeInv, TypeOK
    <3> QED
      BY <3>1, <3>2, ProxyAssumption
  <2>2. id >= next'
    BY <1>2, <1>3, <2>1 DEF Ids
  <2>3. got'[id] = <<>>
    BY <1>2, <2>2 DEF FrameInv, Current, Untouched
  <2> QED
    BY <2>3 DEF Told
<1>4. CASE id \in DOMAIN requests
  <2>1. requests[id] = "bind" /\ True(id)
    BY <1>1, <1>4, Going DEF ToldInv
  <2>2. Told(id, "no") => Owing(id) = {}
    BY <1>2 DEF AcceptedInv
  <2>3. StepKind
    BY EveryStep
  <2>4. ASSUME Told(id, "ok")' => Told(id, "ok"), Told(id, "no")' => Told(id, "no"), accepted' = accepted
        PROVE  True(id)'
    BY <2>1, <2>4
  <2>5. CASE Quiet
    <3>1. PICK u \in Servers :
            \E new \in SUBSET Owed(u) : accepted' = accepted \cup new
      BY <2>5 DEF Quiet
    <3>2. PICK new \in SUBSET Owed(u) : accepted' = accepted \cup new
      BY <3>1
    <3>3. Told(id, "no") => id \notin new
      BY <2>2, <3>2 DEF Owing
    <3>4. got' = got
      BY <2>5 DEF Quiet
    <3> QED
      BY <2>1, <3>2, <3>3, <3>4, SameTold
  <2>6. ASSUME NEW i \in Ids, NEW r \in {"ok", "no", "error"}, Itself(i, r) PROVE True(id)'
    <3>1. /\ got' = got \/ got' = [got EXCEPT ![i] = Append(@, r)]
          /\ \/ accepted' = accepted /\ (r = "ok" => requests[i] = "starttls")
             \/ accepted' = accepted \cup {i} /\ r = "ok"
          /\ got[i] = <<>> /\ i \notin accepted
      BY <2>6 DEF Itself, Untouched
    <3>2. CASE i # id
      <4>1. got'[id] = got[id]
        BY <1>2, <3>1, <3>2 DEF TypeInv
      <4> QED
        BY <2>1, <3>1, <3>2, <4>1, SameTold
    <3>3. CASE i = id
      <4>1. \A x : Told(id, x)' => x = r
        <5>1. CASE got' = got
          BY <3>1, <3>3, <5>1 DEF Told
        <5>2. CASE got' = [got EXCEPT ![i] = Append(@, r)]
          BY <1>2, <3>1, <3>3, <5>2, Tells DEF Responses, Told
        <5> QED
          BY <3>1, <5>1, <5>2
      <4> QED
        BY <2>1, <3>1, <3>3, <4>1
    <3> QED
      BY <3>2, <3>3
  <2>12. ASSUME NEW i \in Ids, Retracts(i) PROVE True(id)'
    <3>1. i # id /\ accepted' = accepted
      BY <2>1, <2>12 DEF Retracts, OksSame
    <3>2. got'[id] = got[id]
      BY <1>2, <2>12, <3>1 DEF Retracts, TypeInv
    <3> QED
      BY <2>4, <3>1, <3>2, SameTold
  <2>7. ASSUME NEW i \in Ids, Asks(i) PROVE True(id)'
    BY <2>4, <2>7, SameTold DEF Asks, OksSame
  <2>8. CASE Wakes
    <3>1. current \in Ids /\ accepted' = accepted
      BY <2>8, ProxyAssumption DEF Wakes, OksSame, TypeInv, TypeOK, Ids
    <3>2. CASE got' = got
      BY <2>4, <3>1, <3>2, SameTold
    <3>3. CASE got' = [got EXCEPT ![current] = Append(@, "error")]
      BY <1>2, <2>4, <3>1, <3>3, SameTold, Tells DEF Responses
    <3> QED
      BY <2>8, <3>2, <3>3 DEF Wakes
  <2>9. ASSUME NEW u \in Servers, NEW i \in Ids, Relays(u, i) PROVE True(id)'
    <3>1. accepted' = accepted
      BY <2>9 DEF Relays, OksSame
    <3>2. CASE got' = got
      BY <2>4, <3>1, <3>2, SameTold
    <3>3. CASE got' = [got EXCEPT ![i] = Append(@, "entry")]
      BY <1>2, <2>4, <3>1, <3>3, SameTold, Tells DEF Responses
    <3> QED
      BY <2>9, <3>2, <3>3 DEF Relays
  <2>10. ASSUME NEW u \in Servers, NEW i \in Ids, NEW r \in {"ok", "no"}, Takes(u, i, r) PROVE True(id)'
    <3>1. accepted' = accepted
      BY <2>10 DEF Takes
    <3>2. /\ Told(id, "ok")' => Told(id, "ok") \/ id \in accepted
          /\ Told(id, "no")' => Told(id, "no") \/ id \notin accepted
      BY <1>2, <2>10, TakesTells
    <3> QED
      BY <2>1, <3>1, <3>2
  <2>11. ASSUME NEW u \in Servers, Loses(u) PROVE True(id)'
    BY <2>4, <2>11, SameTold DEF Loses
  <2> QED
    BY <2>3, <2>5, <2>6, <2>7, <2>8, <2>9, <2>10, <2>11, <2>12 DEF StepKind
<1> QED
  BY <1>3, <1>4

-----------------------------------------------------------------------------
(* The theorems.                                                           *)

ProxyInv == TypeInv /\ FrameInv /\ SlotInv /\ CollectedInv /\ AnsweredInv /\ AcceptedInv /\ ToldInv /\ LastInv

LEMMA Starting == Init => ProxyInv
<1> SUFFICES ASSUME Init PROVE ProxyInv
  OBVIOUS
<1> USE DEF Init
<1>1. TypeInv
  <2>1. <<>> \in Seq(Responses) /\ <<>> \in Seq(Responses \ {"error", "entry"}) /\ <<>> \in Seq(Message)
        /\ <<>> \in Seq(Kinds)
    OBVIOUS
  <2>2. 0 \in 0..MaxRequests /\ 0 \in 0..Services /\ 1 \in 1..MaxRequests + 1 /\ Len(requests) = 0 /\ 0 <= MaxRequests
    BY ProxyAssumption
  <2>3. TypeOK
    BY <2>1, <2>2 DEF TypeOK
  <2> QED
    BY <2>1, <2>2, <2>3 DEF TypeInv
<1>2. \A u \in Servers : Owed(u) = {} /\ Oks(u) = {} /\ Orderly(u)
  BY DEF Owed, Answering, Oks, Orderly
<1>3. \A id \in Ids : Untouched(id) /\ Owing(id) = {}
  BY <1>2 DEF Untouched, Owing
<1>4. FrameInv
  BY <1>2, <1>3 DEF FrameInv, HeldInv, Used, Current, ComingInv, AskedInv
<1>5. SlotInv
  BY DEF SlotInv, Undecided
<1>6. CollectedInv
  <2>1. \A id \in Ids : Len(finals[id]) = 0 /\ Cardinality(Owing(id)) = 0
    BY <1>3, FS_EmptySet
  <2> QED
    BY <2>1, ProxyAssumption DEF CollectedInv
<1>7. AnsweredInv
  BY DEF AnsweredInv, AnsweredOf, Once, Answers
<1>8. AcceptedInv
  BY <1>2 DEF AcceptedInv, Kept, Told
<1>9. ToldInv /\ LastInv
  BY DEF ToldInv, LastInv
<1> QED
  BY <1>1, <1>4, <1>5, <1>6, <1>7, <1>8, <1>9 DEF ProxyInv

LEMMA ProxyStep ==
  ASSUME ~Endless
  PROVE  ProxyInv /\ [Next]_vars => ProxyInv'
<1> SUFFICES ASSUME ProxyInv, [Next]_vars PROVE ProxyInv'
  OBVIOUS
<1> USE DEF ProxyInv
<1>1. TypeInv'
  BY TypeStep
<1>2. FrameInv' /\ StepKind
  BY FrameStep, EveryStep
<1>3. SlotInv' /\ CollectedInv' /\ LastInv'
  BY <1>2, SlotStep, CollectedStep, LastStep
<1>4. AnsweredInv'
  BY <1>1, <1>2, <1>3, AnsweredStep, Going
<1>5. AcceptedInv'
  BY <1>1, <1>2, AcceptedStep
<1>6. ToldInv'
  BY <1>1, <1>2, ToldStep
<1> QED
  BY <1>1, <1>2, <1>3, <1>4, <1>5, <1>6

\* The types of the state, whatever the client requests.
THEOREM TypeCorrect == Spec => []TypeOK
<1>1. Init => TypeInv
  BY Starting DEF ProxyInv
<1>2. TypeInv => TypeOK
  BY DEF TypeInv
<1> QED
  BY <1>1, <1>2, TypeStep, PTL DEF Spec

\* The client gets one answer to each request, from a proxy of one server the last
\* response: whatever the number of proxied servers and the connections lost, if
\* the client asks only for what some answer is the last of. A StartTLS whose
\* handshake fails has a second one, and nothing else behind it.
THEOREM OneAnswer ==
  ASSUME ~Endless
  PROVE  Spec => []AnsweredOnce
<1>1. Init => ProxyInv
  BY Starting
<1>2. ProxyInv /\ [Next]_vars => ProxyInv'
  BY ProxyStep
<1>3. ProxyInv => AnsweredOnce
  BY DEF ProxyInv, TypeInv, AnsweredInv, AnsweredOf, Once, AnsweredOnce
<1> QED
  BY <1>1, <1>2, <1>3, PTL DEF Spec

\* A client is told that its bind succeeded only when a proxied server accepted
\* it, and that it was refused only when none did, each with the answers that
\* are merged.
THEOREM BindsAreTrue ==
  ASSUME ~Endless
  PROVE  Spec => []BindAnswerIsTrue
<1>1. Init => ProxyInv
  BY Starting
<1>2. ProxyInv /\ [Next]_vars => ProxyInv'
  BY ProxyStep
<1>3. ProxyInv => BindAnswerIsTrue
  BY DEF ProxyInv, TypeInv, TypeOK, ToldInv, Told, Answers, BindAnswerIsTrue
<1> QED
  BY <1>1, <1>2, <1>3, PTL DEF Spec

\* Nobody waits on a proxied server for what it does not owe.
THEOREM LastIsTold ==
  ASSUME ~Endless
  PROVE  Spec => []LastResponseIsTold
<1>1. Init => ProxyInv
  BY Starting
<1>2. ProxyInv /\ [Next]_vars => ProxyInv'
  BY ProxyStep
<1>3. ProxyInv => LastResponseIsTold
  BY DEF ProxyInv, LastInv, Owed, Answering, LastResponseIsTold
<1> QED
  BY <1>1, <1>2, <1>3, PTL DEF Spec
=============================================================================
