-------------------------- MODULE LDAPClientProofs --------------------------
(***************************************************************************)
(* What LDAPClient promises for any number of calls of any kind, and what  *)
(* LDAPEntry, an entry of its server, promises for any number of           *)
(* attributes, values, changes and requests.                               *)
(***************************************************************************)
EXTENDS LDAPClient, LDAPEntry, SequenceTheorems, WellFoundedInduction, NaturalsInduction, TLAPS

Waiting == {"locking", "writing", "waiting"}

\* A call that has not begun has left nothing behind it, and none begins
\* before the client has its stream.
Fresh ==
    /\ \A c \in Calls : pc[c] = "idle" => slot[c] = "unset" /\ c \notin onwire
    /\ rpc = "handler" => cur.id \in Calls /\ pc[cur.id] # "idle"

\* AnswerWillCome, from the moment the request is registered.
Registered ==
    \A c \in Calls : pc[c] \in Waiting /\ slot[c] = "unset" =>
      \/ c \in onwire
      \/ c \in NoAnswer /\ pc[c] # "waiting"

AnswerInv == TypeOK /\ OneAnswerEach /\ Fresh /\ Registered

\* The write lock is held by the one write, or by the one handshake.
LockHeld ==
    /\ \A c \in Calls : pc[c] = "writing" <=> lock = c
    /\ rpc = "handshake" <=> lock = Reader
    /\ rpc = "unattached" => ~connected /\ \A c \in Calls : pc[c] \notin Active

LockInv == TypeOK /\ LockHeld /\ WriteOnCurrentStream

\* UpgradeWillEnd, from the moment startTLS registers its upgrade.
UpgradeKept ==
    \A s \in StartTLS : pc[s] \in Active /\ s \notin told => upgrade = s

-----------------------------------------------------------------------------
\* LDAPClient keeps every variable within its type (ldapclient.py LDAPClient).
THEOREM TypeCorrect == Spec => []TypeOK
<1>1. Init => TypeOK
  <2> SUFFICES ASSUME Init PROVE TypeOK
    OBVIOUS
  <2>1. ConnectionType /\ UpgradeType /\ CallType
    BY DEF Init, ConnectionType, UpgradeType, CallType, Streams, Active, Ended
  <2>2. ReaderType /\ ServerType
    BY BoundAssumption DEF Init, ReaderType, ServerType, Message, NoMessage, Kinds
  <2> QED
    BY <2>1, <2>2 DEF TypeOK
<1>2. TypeOK /\ [Next]_vars => TypeOK'
  <2> SUFFICES ASSUME TypeOK, [Next]_vars PROVE TypeOK'
    OBVIOUS
  <2> USE DEF TypeOK, ConnectionType, UpgradeType, CallType, ReaderType, ServerType,
        Streams, Active, Ended, stateVars, tls, callVars, readerVars, netVars
  <2>1. CASE Attach
    BY <2>1 DEF Attach
  <2>2. CASE Close
    <3>1. ConnectionType'
      BY <2>2 DEF Close, CloseConnection, LoseConnection
    <3>2. UpgradeType'
      BY <2>2 DEF Close, CloseConnection, LoseConnection
    <3>3. CallType' /\ ReaderType' /\ ServerType'
      BY <2>2 DEF Close
    <3> QED
      BY <3>1, <3>2, <3>3
  <2>3. ASSUME NEW c \in Calls, CallStep(c) PROVE TypeOK'
    <3> USE DEF MoveTo
    <3>1. CASE Refuse(c)
      BY <2>3, <3>1 DEF Refuse
    <3>2. CASE Send(c)
      <4>1. c \in Answered
        BY <3>2 DEF Send, Answered
      <4> QED
        BY <2>3, <3>2, <4>1 DEF Send
    <3>3. CASE SendNoResponse(c)
      BY <2>3, <3>3 DEF SendNoResponse
    <3>4. CASE BeginStartTLS(c)
      <4>1. c \in Answered
        BY <3>4 DEF BeginStartTLS, Answered
      <4> QED
        BY <2>3, <3>4, <4>1 DEF BeginStartTLS
    <3>5. CASE Acquire(c)
      BY <2>3, <3>5 DEF Acquire
    <3>6. CASE Write(c)
      <4>1. ConnectionType' /\ UpgradeType' /\ CallType' /\ ReaderType'
        BY <2>3, <3>6 DEF Write, WriteEnds
      <4>2. ServerType'
        BY <2>3, <3>6 DEF Write, Transmit, Calls, Answered
      <4> QED
        BY <4>1, <4>2
    <3>7. CASE WriteBroken(c)
      <4>1. ConnectionType' /\ UpgradeType'
        BY <2>3, <3>7 DEF WriteBroken, WriteEnds, CloseConnection, LoseConnection
      <4>2. CallType'
        BY <2>3, <3>7 DEF WriteBroken, WriteEnds, CloseConnection, LoseConnection
      <4>3. ReaderType' /\ ServerType'
        BY <2>3, <3>7 DEF WriteBroken, WriteEnds, CloseConnection, LoseConnection
      <4> QED
        BY <4>1, <4>2, <4>3
    <3>8. CASE Return(c)
      BY <2>3, <3>8 DEF Return
    <3>9. CASE EndStartTLS(c)
      BY <2>3, <3>9 DEF EndStartTLS
    <3> QED
      BY <2>3, <3>1, <3>2, <3>3, <3>4, <3>5, <3>6, <3>7, <3>8, <3>9 DEF CallStep
  <2>4. ASSUME NEW c \in Calls, Cancel(c) PROVE TypeOK'
    <3>1. ConnectionType' /\ UpgradeType' /\ ReaderType'
      BY <2>4 DEF Cancel, WriteEnds
    <3>2. CallType'
      BY <2>4 DEF Cancel, WriteEnds, MoveTo
    <3>3. ServerType'
      BY <2>4 DEF Cancel, Transmit, Calls, Answered
    <3> QED
      BY <3>1, <3>2, <3>3
  <2>5. CASE ReaderStep
    <3> USE DEF ReaderFinally
    <3>1. CASE Receive
      <4>1. PICK n \in 1..Len(wire) :
              /\ buffer' = buffer \o SubSeq(wire, 1, n)
              /\ wire' = SubSeq(wire, n + 1, Len(wire))
        BY <3>1 DEF Receive
      <4>2. /\ SubSeq(wire, 1, n) \in Seq(Message)
            /\ wire' \in Seq(Message)
        BY <4>1, SubSeqProperties
      <4>3. buffer' \in Seq(Message)
        BY <4>1, <4>2, ConcatProperties
      <4> QED
        BY <3>1, <4>2, <4>3 DEF Receive
    <3>2. CASE ReceiveEnds
      BY <3>2 DEF ReceiveEnds
    <3>3. CASE DecodeEnds
      BY <3>3 DEF DecodeEnds
    <3>4. ASSUME buffer # <<>> PROVE Head(buffer) \in Message /\ Tail(buffer) \in Seq(Message)
      BY <3>4, HeadTailProperties
    <3>5. CASE HandleNotice
      BY <3>4, <3>5 DEF HandleNotice, AfterMessage
    <3>6. CASE HandleUnknown
      BY <3>4, <3>6 DEF HandleUnknown
    <3>7. CASE HandlePlain
      <4> DEFINE id == Head(buffer).id
      <4>1. id \in onwire /\ Answer(id)
        BY <3>7 DEF HandlePlain
      <4>2. ConnectionType' /\ CallType' /\ ServerType'
        BY <3>7, <4>1 DEF HandlePlain, Answer
      <4>3. UpgradeType'
        BY <3>7, <4>1, CallsAssumption DEF HandlePlain, Answer, Calls, Answered
      <4>4. ReaderType'
        BY <3>4, <3>7 DEF HandlePlain, AfterMessage
      <4> QED
        BY <4>2, <4>3, <4>4
    <3>8. CASE HandleMulti
      BY <3>4, <3>8 DEF HandleMulti
    <3>9. CASE HandlerReturns
      <4>1. UpgradeType' /\ CallType' /\ ServerType'
        BY <3>9 DEF HandlerReturns
      <4>2. ConnectionType'
        BY <3>9 DEF HandlerReturns, Answer
      <4>3. ReaderType'
        BY <3>9 DEF HandlerReturns, Answer, AfterMessage, NoMessage, Message, Kinds
      <4> QED
        BY <4>1, <4>2, <4>3
    <3>10. CASE HandlerRaises
      BY <3>10 DEF HandlerRaises, NoMessage, Message, Kinds
    <3>11. CASE CheckUpgrade
      BY <3>11 DEF CheckUpgrade, UpgradeEnds
    <3>12. CASE BeginHandshake
      <4>1. ConnectionType' /\ CallType' /\ ServerType'
        BY <3>12 DEF BeginHandshake, UpgradeEnds
      <4>2. UpgradeType' /\ ReaderType'
        BY <3>12 DEF BeginHandshake, UpgradeEnds
      <4> QED
        BY <4>1, <4>2
    <3>13. CASE HandshakeDone
      BY <3>13 DEF HandshakeDone, UpgradeEnds
    <3>14. CASE HandshakeFails
      BY <3>14 DEF HandshakeFails, UpgradeEnds
    <3>15. CASE ReaderClosed
      BY <3>15 DEF ReaderClosed, LoseConnection
    <3> QED
      BY <2>5, <3>1, <3>2, <3>3, <3>5, <3>6, <3>7, <3>8, <3>9, <3>10, <3>11,
         <3>12, <3>13, <3>14, <3>15 DEF ReaderStep
  <2>6. CASE ServerStep
    <3>1. ASSUME NEW c \in Calls \cup {Nobody}, NEW kind \in Kinds, ServerSends(c, kind)
          PROVE wire' \in Seq(Message)
      BY <3>1, AppendProperties DEF ServerSends, Message
    <3>2. CASE PeerCloses
      <4>1. wire' \in Seq(Message)
        BY <3>1, <3>2 DEF PeerCloses, Kinds
      <4>2. ServerType'
        BY <3>2, <4>1 DEF PeerCloses
      <4> QED
        BY <3>2, <4>2 DEF PeerCloses
    <3>3. ASSUME NEW c \in Calls, ServerAnswers(c) PROVE TypeOK'
      BY <3>1, <3>3 DEF ServerAnswers, Kinds
    <3>4. ASSUME NEW c \in Multi, ServerSendsEntry(c) PROVE TypeOK'
      <4>1. wire' \in Seq(Message)
        BY <3>1, <3>4 DEF ServerSendsEntry, Kinds, Calls
      <4>2. entries' \in [Multi -> 0..MaxEntries]
        BY <3>4, BoundAssumption DEF ServerSendsEntry
      <4> QED
        BY <3>4, <4>1, <4>2 DEF ServerSendsEntry
    <3> QED
      BY <2>6, <3>2, <3>3, <3>4 DEF ServerStep
  <2>7. CASE UNCHANGED vars
    BY <2>7 DEF vars
  <2> QED
    BY <2>1, <2>2, <2>3, <2>4, <2>5, <2>6, <2>7 DEF Next
<1> QED
  BY <1>1, <1>2, PTL DEF Spec

\* connectionLost leaves nobody in onwire and every slot that was in it set.
LEMMA LossSettles ==
  ASSUME TypeOK, LoseConnection
  PROVE  /\ onwire' = {}
         /\ \A c \in Calls : slot'[c] = IF c \in onwire THEN "exception" ELSE slot[c]
  BY DEF LoseConnection

\* So does aclose, which calls it whenever the client is connected.
LEMMA CloseSettles ==
  ASSUME TypeOK, OneAnswerEach, CloseConnection
  PROVE  /\ onwire' = {}
         /\ \A c \in Calls : slot'[c] = IF c \in onwire THEN "exception" ELSE slot[c]
  <1>1. CASE connected
    BY <1>1, LossSettles DEF CloseConnection
  <1>2. CASE ~connected
    BY <1>2 DEF CloseConnection, OneAnswerEach
  <1> QED
    BY <1>1, <1>2

\* Whoever loses the connection keeps the three facts about slots.
LEMMA LossKeepsAnswers ==
  ASSUME AnswerInv, onwire' = {},
         \A c \in Calls : slot'[c] = IF c \in onwire THEN "exception" ELSE slot[c],
         \A c \in Calls : pc'[c] = pc[c] \/ (pc[c] = "writing" /\ pc'[c] \in {"waiting", "returned"}
                                             /\ (c \in NoAnswer => pc'[c] = "returned")),
         rpc' = "handler" => rpc = "handler" /\ cur' = cur
  PROVE  OneAnswerEach' /\ Fresh' /\ Registered'
  <1>1. OneAnswerEach'
    BY DEF OneAnswerEach
  <1>2. Fresh'
    BY DEF Fresh, AnswerInv
  <1>3. Registered'
    BY DEF Registered, AnswerInv, Waiting
  <1> QED
    BY <1>1, <1>2, <1>3

\* Filling the slot of a call and forgetting it keeps them too, for a call
\* that has begun.
LEMMA AnswerKeepsAnswers ==
  ASSUME AnswerInv, NEW id \in Calls, pc[id] # "idle", Answer(id),
         UNCHANGED <<pc, connected>>,
         rpc' # "handler"
  PROVE  OneAnswerEach' /\ Fresh' /\ Registered'
  <1> USE DEF AnswerInv, TypeOK, ConnectionType, CallType, Answer
  <1>1. OneAnswerEach'
    BY DEF OneAnswerEach
  <1>2. Fresh'
    BY DEF Fresh
  <1>3. Registered'
    BY DEF Registered
  <1> QED
    BY <1>1, <1>2, <1>3

LEMMA AnswerInvInit == Init => OneAnswerEach /\ Fresh /\ Registered
  BY DEF Init, OneAnswerEach, Fresh, Registered, Waiting

LEMMA AnswerInvNext ==
  AnswerInv /\ [Next]_vars => OneAnswerEach' /\ Fresh' /\ Registered'
<1> SUFFICES ASSUME AnswerInv, [Next]_vars
             PROVE  OneAnswerEach' /\ Fresh' /\ Registered'
  OBVIOUS
<1> USE DEF stateVars, tls, callVars, readerVars, netVars
<1>1. CASE Attach
  BY <1>1 DEF Attach, AnswerInv, OneAnswerEach, Fresh, Registered
<1>2. CASE Close
  BY <1>2, CloseSettles, LossKeepsAnswers DEF Close, AnswerInv
<1>3. ASSUME NEW c \in Calls, CallStep(c)
      PROVE  OneAnswerEach' /\ Fresh' /\ Registered'
  <2> USE DEF AnswerInv, TypeOK, ConnectionType, CallType, OneAnswerEach, Fresh, Registered,
        MoveTo, Waiting
  <2>1. CASE Refuse(c)
    BY <1>3, <2>1 DEF Refuse
  <2>2. CASE Send(c)
    BY <1>3, <2>2 DEF Send
  <2>3. CASE SendNoResponse(c)
    BY <1>3, <2>3 DEF SendNoResponse
  <2>4. CASE BeginStartTLS(c)
    BY <1>3, <2>4 DEF BeginStartTLS
  <2>5. CASE Acquire(c)
    BY <1>3, <2>5 DEF Acquire
  <2>6. CASE Write(c)
    BY <1>3, <2>6 DEF Write, WriteEnds
  <2>7. CASE WriteBroken(c)
    <3>1. /\ pc[c] = "writing"
          /\ pc' = [pc EXCEPT ![c] = IF c \in NoAnswer THEN "returned" ELSE "waiting"]
          /\ UNCHANGED <<rpc, cur>>
      BY <2>7 DEF WriteBroken, WriteEnds
    <3>2. /\ onwire' = {}
          /\ \A d \in Calls : slot'[d] = IF d \in onwire THEN "exception" ELSE slot[d]
      BY <2>7, CloseSettles DEF WriteBroken
    <3> QED
      BY <1>3, <3>1, <3>2, LossKeepsAnswers
  <2>8. CASE Return(c)
    BY <1>3, <2>8 DEF Return
  <2>9. CASE EndStartTLS(c)
    BY <1>3, <2>9 DEF EndStartTLS
  <2> QED
    BY <1>3, <2>1, <2>2, <2>3, <2>4, <2>5, <2>6, <2>7, <2>8, <2>9 DEF CallStep
<1>4. ASSUME NEW c \in Calls, Cancel(c)
      PROVE  OneAnswerEach' /\ Fresh' /\ Registered'
  BY <1>4 DEF Cancel, WriteEnds, MoveTo, AnswerInv, TypeOK, ConnectionType, CallType,
     OneAnswerEach, Fresh, Registered, Waiting, Active
<1>5. CASE ReaderStep
  <2>1. ASSUME UNCHANGED <<connected, onwire, slot, pc>>, rpc' # "handler"
        PROVE  OneAnswerEach' /\ Fresh' /\ Registered'
    BY <2>1 DEF AnswerInv, OneAnswerEach, Fresh, Registered
  <2> USE DEF ReaderFinally
  <2>2. CASE Receive
    BY <2>1, <2>2 DEF Receive
  <2>3. CASE ReceiveEnds
    BY <2>1, <2>3 DEF ReceiveEnds
  <2>4. CASE DecodeEnds
    BY <2>1, <2>4 DEF DecodeEnds
  <2>5. CASE HandleNotice
    BY <2>1, <2>5 DEF HandleNotice, AfterMessage
  <2>6. CASE HandleUnknown
    BY <2>1, <2>6 DEF HandleUnknown
  <2>7. CASE HandlePlain
    <3>1. /\ Head(buffer).id \in onwire /\ Answer(Head(buffer).id)
          /\ UNCHANGED <<pc, connected>> /\ rpc' # "handler"
      BY <2>7 DEF HandlePlain, AfterMessage
    <3>2. Head(buffer).id \in Calls /\ pc[Head(buffer).id] # "idle"
      BY <3>1 DEF AnswerInv, TypeOK, ConnectionType, Fresh, Calls, Answered
    <3> QED
      BY <3>1, <3>2, AnswerKeepsAnswers
  <2>8. CASE HandleMulti
    <3>1. /\ cur' = Head(buffer) /\ Head(buffer).id \in onwire
          /\ UNCHANGED <<connected, onwire, slot, pc>>
      BY <2>8 DEF HandleMulti
    <3>2. cur'.id \in Calls /\ pc[cur'.id] # "idle"
      BY <3>1 DEF AnswerInv, TypeOK, ConnectionType, Fresh, Calls, Answered
    <3> QED
      BY <3>1, <3>2 DEF AnswerInv, OneAnswerEach, Fresh, Registered
  <2>9. CASE HandlerReturns
    <3>1. cur.id \in Calls /\ pc[cur.id] # "idle"
      BY <2>9 DEF HandlerReturns, AnswerInv, Fresh
    <3>2. rpc' # "handler"
      BY <2>9 DEF HandlerReturns, AfterMessage
    <3>3. CASE UNCHANGED <<connected, onwire, slot>>
      BY <2>1, <2>9, <3>2, <3>3 DEF HandlerReturns
    <3>4. CASE Answer(cur.id) /\ UNCHANGED connected
      BY <2>9, <3>1, <3>2, <3>4, AnswerKeepsAnswers DEF HandlerReturns
    <3> QED
      BY <2>9, <3>3, <3>4 DEF HandlerReturns
  <2>10. CASE HandlerRaises
    BY <2>1, <2>10 DEF HandlerRaises
  <2>11. CASE CheckUpgrade
    BY <2>1, <2>11 DEF CheckUpgrade, UpgradeEnds
  <2>12. CASE BeginHandshake
    BY <2>1, <2>12 DEF BeginHandshake, UpgradeEnds
  <2>13. CASE HandshakeDone
    BY <2>1, <2>13 DEF HandshakeDone, UpgradeEnds
  <2>14. CASE HandshakeFails
    BY <2>1, <2>14 DEF HandshakeFails, UpgradeEnds
  <2>15. CASE ReaderClosed
    BY <2>15, LossSettles, LossKeepsAnswers DEF ReaderClosed, AnswerInv
  <2> QED
    BY <1>5, <2>2, <2>3, <2>4, <2>5, <2>6, <2>7, <2>8, <2>9, <2>10, <2>11,
       <2>12, <2>13, <2>14, <2>15 DEF ReaderStep
<1>6. CASE ServerStep
  BY <1>6 DEF ServerStep, PeerCloses, ServerAnswers, ServerSendsEntry,
     AnswerInv, OneAnswerEach, Fresh, Registered
<1>7. CASE UNCHANGED vars
  BY <1>7 DEF vars, AnswerInv, OneAnswerEach, Fresh, Registered
<1> QED
  BY <1>1, <1>2, <1>3, <1>4, <1>5, <1>6, <1>7 DEF Next

-----------------------------------------------------------------------------
LEMMA LockInvInit == Init => LockHeld /\ WriteOnCurrentStream
  BY CallsAssumption DEF Init, LockHeld, WriteOnCurrentStream, Active

\* Nothing happens to the lock, to a write or to the handshake, and the stream
\* is at most taken away.
LEMMA LockKept ==
  ASSUME LockInv, UNCHANGED <<pc, lock, wstream>>,
         rpc' = "handshake" <=> rpc = "handshake", rpc' # "unattached",
         stream' \in {stream, "none"}
  PROVE  LockHeld' /\ WriteOnCurrentStream'
  BY DEF LockInv, LockHeld, WriteOnCurrentStream

LEMMA LockInvNext ==
  LockInv /\ [Next]_vars => LockHeld' /\ WriteOnCurrentStream'
<1> SUFFICES ASSUME LockInv, [Next]_vars
             PROVE  LockHeld' /\ WriteOnCurrentStream'
  OBVIOUS
<1> USE DEF stateVars, tls, callVars, readerVars, netVars
<1>1. CASE Attach
  BY <1>1 DEF Attach, LockInv, LockHeld, WriteOnCurrentStream, Active
<1>2. CASE Close
  <2>1. stream' = "none" /\ UNCHANGED <<pc, lock, wstream, rpc>>
    BY <1>2 DEF Close, CloseConnection, LoseConnection
  <2>2. rpc # "unattached" \/ (connected' = connected)
    BY <1>2 DEF Close, CloseConnection, LockInv, LockHeld
  <2> QED
    BY <2>1, <2>2 DEF LockInv, LockHeld, WriteOnCurrentStream
<1>3. ASSUME NEW c \in Calls, CallStep(c)
      PROVE  LockHeld' /\ WriteOnCurrentStream'
  <2> USE CallsAssumption
      DEF LockInv, TypeOK, ConnectionType, CallType, LockHeld, WriteOnCurrentStream,
          MoveTo, Active
  <2>1. CASE Refuse(c)
    BY <1>3, <2>1 DEF Refuse
  <2>2. CASE Send(c)
    BY <1>3, <2>2 DEF Send
  <2>3. CASE SendNoResponse(c)
    BY <1>3, <2>3 DEF SendNoResponse
  <2>4. CASE BeginStartTLS(c)
    BY <1>3, <2>4 DEF BeginStartTLS
  <2>5. CASE Acquire(c)
    BY <1>3, <2>5 DEF Acquire
  <2>6. CASE Write(c)
    BY <1>3, <2>6 DEF Write, WriteEnds
  <2>7. CASE WriteBroken(c)
    <3>1. stream' = "none" /\ lock = c /\ rpc # "unattached" /\ UNCHANGED rpc
      BY <1>3, <2>7 DEF WriteBroken, CloseConnection, LoseConnection
    <3> QED
      BY <1>3, <2>7, <3>1 DEF WriteBroken, WriteEnds
  <2>8. CASE Return(c)
    BY <1>3, <2>8 DEF Return
  <2>9. CASE EndStartTLS(c)
    BY <1>3, <2>9 DEF EndStartTLS
  <2> QED
    BY <1>3, <2>1, <2>2, <2>3, <2>4, <2>5, <2>6, <2>7, <2>8, <2>9 DEF CallStep
<1>4. ASSUME NEW c \in Calls, Cancel(c)
      PROVE  LockHeld' /\ WriteOnCurrentStream'
  BY <1>4, CallsAssumption DEF Cancel, WriteEnds, MoveTo, LockInv, TypeOK, ConnectionType,
     CallType, LockHeld, WriteOnCurrentStream, Active
<1>5. CASE ReaderStep
  <2> USE DEF ReaderFinally, AfterMessage
  <2>1. CASE Receive
    BY <2>1, LockKept DEF Receive
  <2>2. CASE ReceiveEnds
    BY <2>2, LockKept DEF ReceiveEnds
  <2>3. CASE DecodeEnds
    BY <2>3, LockKept DEF DecodeEnds
  <2>4. CASE HandleNotice
    BY <2>4, LockKept DEF HandleNotice
  <2>5. CASE HandleUnknown
    BY <2>5, LockKept DEF HandleUnknown
  <2>6. CASE HandlePlain
    BY <2>6, LockKept DEF HandlePlain
  <2>7. CASE HandleMulti
    BY <2>7, LockKept DEF HandleMulti
  <2>8. CASE HandlerReturns
    BY <2>8, LockKept DEF HandlerReturns
  <2>9. CASE HandlerRaises
    BY <2>9, LockKept DEF HandlerRaises
  <2>10. CASE CheckUpgrade
    <3>1. UNCHANGED <<pc, lock, wstream, stream>> /\ rpc = "check"
          /\ rpc' \in {"receive", "locking", "closing", "stopped"}
      BY <2>10 DEF CheckUpgrade, UpgradeEnds
    <3> QED
      BY <3>1, LockKept
  <2>11. CASE BeginHandshake
    BY <2>11, CallsAssumption DEF BeginHandshake, LockFree, UpgradeEnds, LockInv, TypeOK,
       ConnectionType, LockHeld, WriteOnCurrentStream
  <2>12. CASE HandshakeDone
    BY <2>12, CallsAssumption DEF HandshakeDone, UpgradeEnds, LockInv, LockHeld,
       WriteOnCurrentStream
  <2>13. CASE HandshakeFails
    BY <2>13, CallsAssumption DEF HandshakeFails, UpgradeEnds, LockInv, LockHeld,
       WriteOnCurrentStream
  <2>14. CASE ReaderClosed
    BY <2>14, LockKept DEF ReaderClosed, LoseConnection
  <2> QED
    BY <1>5, <2>1, <2>2, <2>3, <2>4, <2>5, <2>6, <2>7, <2>8, <2>9, <2>10, <2>11,
       <2>12, <2>13, <2>14 DEF ReaderStep
<1>6. CASE ServerStep
  BY <1>6 DEF ServerStep, PeerCloses, ServerAnswers, ServerSendsEntry,
     LockInv, LockHeld, WriteOnCurrentStream
<1>7. CASE UNCHANGED vars
  BY <1>7 DEF vars, LockInv, LockHeld, WriteOnCurrentStream
<1> QED
  BY <1>1, <1>2, <1>3, <1>4, <1>5, <1>6, <1>7 DEF Next

-----------------------------------------------------------------------------
LEMMA UpgradeKeptNext ==
  ASSUME \A s, t \in StartTLS : s = t
  PROVE  TypeOK /\ UpgradeKept /\ [Next]_vars => UpgradeKept'
<1> SUFFICES ASSUME TypeOK, UpgradeKept, [Next]_vars PROVE UpgradeKept'
  OBVIOUS
<1> USE DEF stateVars, tls, callVars, readerVars, netVars, UpgradeKept
<1>1. ASSUME UNCHANGED <<pc, upgrade>>, told \subseteq told' PROVE UpgradeKept'
  BY <1>1
<1>2. ASSUME \A s \in StartTLS : pc'[s] \in Active => pc[s] \in Active, LoseConnection
      PROVE  UpgradeKept'
  BY <1>2, CallsAssumption DEF LoseConnection, Calls
<1>3. CASE Attach
  BY <1>1, <1>3 DEF Attach
<1>4. CASE Close
  BY <1>1, <1>2, <1>4 DEF Close, CloseConnection
<1>5. ASSUME NEW c \in Calls, CallStep(c) PROVE UpgradeKept'
  <2> USE DEF TypeOK, CallType, MoveTo, Active
  <2>1. StartTLS \subseteq Calls
    BY DEF Calls
  <2>2. CASE Refuse(c)
    BY <1>5, <2>1, <2>2 DEF Refuse
  <2>3. CASE Send(c)
    BY <1>5, <2>1, <2>3, CallsAssumption DEF Send
  <2>4. CASE SendNoResponse(c)
    BY <1>5, <2>1, <2>4, CallsAssumption DEF SendNoResponse, Answered
  <2>5. CASE BeginStartTLS(c)
    BY <1>5, <2>1, <2>5 DEF BeginStartTLS
  <2>6. CASE Acquire(c)
    BY <1>5, <2>1, <2>6 DEF Acquire
  <2>7. CASE Write(c)
    BY <1>5, <2>1, <2>7 DEF Write, WriteEnds
  <2>8. CASE WriteBroken(c)
    <3>1. \A s \in StartTLS : pc'[s] \in Active => pc[s] \in Active
      BY <1>5, <2>1, <2>8 DEF WriteBroken, WriteEnds
    <3>2. CASE connected
      BY <1>2, <2>8, <3>1, <3>2 DEF WriteBroken, CloseConnection
    <3>3. CASE ~connected
      BY <2>8, <3>1, <3>3 DEF WriteBroken, CloseConnection
    <3> QED
      BY <3>2, <3>3
  <2>9. CASE Return(c)
    BY <1>5, <2>1, <2>9 DEF Return
  <2>10. CASE EndStartTLS(c)
    BY <1>5, <2>1, <2>10 DEF EndStartTLS
  <2> QED
    BY <1>5, <2>2, <2>3, <2>4, <2>5, <2>6, <2>7, <2>8, <2>9, <2>10 DEF CallStep
<1>6. ASSUME NEW c \in Calls, Cancel(c) PROVE UpgradeKept'
  BY <1>6 DEF Cancel, WriteEnds, MoveTo, TypeOK, CallType, Active, Calls
<1>7. CASE ReaderStep
  BY <1>1, <1>2, <1>7 DEF ReaderStep, Receive, ReceiveEnds, DecodeEnds, HandleNotice,
     HandleUnknown, HandlePlain, HandleMulti, HandlerReturns, HandlerRaises, CheckUpgrade,
     BeginHandshake, HandshakeDone, HandshakeFails, ReaderClosed, ReaderFinally, UpgradeEnds
<1>8. CASE ServerStep
  BY <1>1, <1>8 DEF ServerStep, PeerCloses, ServerAnswers, ServerSendsEntry
<1>9. CASE UNCHANGED vars
  BY <1>1, <1>9 DEF vars
<1> QED
  BY <1>3, <1>4, <1>5, <1>6, <1>7, <1>8, <1>9 DEF Next

-----------------------------------------------------------------------------
LEMMA Answers == Spec => []AnswerInv
<1>1. Init /\ TypeOK => AnswerInv
  BY AnswerInvInit DEF AnswerInv
<1>2. AnswerInv /\ TypeOK' /\ [Next]_vars => AnswerInv'
  BY AnswerInvNext DEF AnswerInv
<1> QED
  BY <1>1, <1>2, TypeCorrect, PTL DEF Spec

\* A slot is set once: whatever is in onwire has an unset slot, on a connection
\* that is up, so neither handle nor connectionLost meets one already set there.
THEOREM SlotsAreSetOnce == Spec => []OneAnswerEach
<1>1. AnswerInv => OneAnswerEach
  BY DEF AnswerInv
<1> QED
  BY <1>1, Answers, PTL

\* No caller waits on a slot that nobody is going to fill: until its answer or
\* the loss of the connection, its request is in onwire.
THEOREM NoCallIsForgotten == Spec => []AnswerWillCome
<1>1. AnswerInv => AnswerWillCome
  BY DEF AnswerInv, Registered, Waiting, AnswerWillCome
<1> QED
  BY <1>1, Answers, PTL

\* The write lock keeps a request off a stream that StartTLS is replacing.
THEOREM WritesKeepToTheStream == Spec => []WriteOnCurrentStream
<1>1. Init /\ TypeOK => LockInv
  BY LockInvInit DEF LockInv
<1>2. LockInv /\ TypeOK' /\ [Next]_vars => LockInv'
  BY LockInvNext DEF LockInv
<1>3. LockInv => WriteOnCurrentStream
  BY DEF LockInv
<1> QED
  BY <1>1, <1>2, <1>3, TypeCorrect, PTL DEF Spec

\* As long as one call of startTLS is made on the client, its upgrade stays
\* where the reader and connectionLost look for it until it has been told.
THEOREM OneUpgradeIsKept ==
  ASSUME \A s, t \in StartTLS : s = t
  PROVE  Spec => []UpgradeWillEnd
<1>1. Init => UpgradeKept
  BY DEF Init, UpgradeKept, Active, Calls
<1>2. TypeOK /\ UpgradeKept /\ [Next]_vars => UpgradeKept'
  BY UpgradeKeptNext
<1>3. UpgradeKept => UpgradeWillEnd
  BY DEF UpgradeKept, UpgradeWillEnd, Active
<1> QED
  BY <1>1, <1>2, <1>3, TypeCorrect, PTL DEF Spec

-----------------------------------------------------------------------------
(***************************************************************************)
(* LDAPEntry.                                                              *)
(***************************************************************************)
Entries == UNION {[ks -> SUBSET Values] : ks \in SUBSET Keys}
Modifications == {"Add", "Delete", "Replace"} \X Keys \X SUBSET Values
Flights ==
    [op : {"modify", "fetch", "move", "delete", "password"}, at : {"sent", "done", "refused"},
     mods : Seq(Modifications), keys : SUBSET Keys, to : Values, found : Entries,
     since : SUBSET Keys]

EntryTypes ==
    /\ state \in {"ready", "deleted"} /\ name \in Values /\ there \in Values
    /\ astray \subseteq Keys
    /\ attributes \in Entries /\ remote \in Entries /\ server \in Entries
    /\ journal \in Seq(Modifications) /\ Len(journal) <= MaxJournal
    /\ stale \subseteq Keys /\ others \in 0..MaxOthers
    /\ flight \in Flights \cup {None}

Touched(mods) == {mods[i][2] : i \in DOMAIN mods}

\* What the journal makes of an entry that has of an attribute not astray what
\* _remoteData has is what the program sees of it; what it does not name stays.
JournalDoes(entry) ==
    LET after == Delta!Patched(entry, journal)
    IN after # Delta!Raised =>
         /\ after \in Entries
         /\ \A k \in Keys :
              /\ k \notin astray /\ Of(entry, k) = Of(remote, k) => Of(after, k) = Of(attributes, k)
              /\ k \notin Touched(journal) => Of(after, k) = Of(entry, k)

\* A modification that clears an attribute, or one of an attribute astray.
May(m) == (m[1] = "Delete" /\ m[3] = {}) \/ m[2] \in astray
MayRaise == \E i \in DOMAIN journal : May(journal[i])

JournalInv ==
    /\ \A entry \in Entries : JournalDoes(entry)
    /\ Delta!Patched(remote, journal) = Delta!Raised => MayRaise

\* What is known of the server while a request is under way.
Known(key, entry) == Of(entry, key) = Of(server, key)
FlightInv ==
    state = "ready" =>
      /\ flight.op = "modify" => flight.mods = journal
      /\ HasCome("modify", "done") =>
           \A k \in Keys \ (stale \cup astray) :
             /\ Known(k, attributes)
             /\ k \notin Touched(journal) => Known(k, remote)
      /\ ~HasCome("modify", "done") => \A k \in Keys \ (stale \cup astray) : Known(k, remote)
      /\ HasCome("fetch", "done") => \A k \in Keys \ flight.since : Known(k, flight.found)

EntryInv == EntryTypes /\ JournalInv

-----------------------------------------------------------------------------
(* Journals.                                                               *)

\* Of natural numbers there is a least.
LEMMA LeastNumber ==
    ASSUME NEW T, T \subseteq Nat, T # {}
    PROVE  \E n \in T : \A m \in T : n <= m
<1>1. PICK R : R = OpToRel(<, Nat)
  OBVIOUS
<1>2. \E x \in T : \A y \in T : ~(<<y, x>> \in R)
  <2>1. IsWellFoundedOn(R, Nat)
    BY <1>1, NatLessThanWellFounded
  <2> QED
    BY <2>1, WFMin
<1>3. R = {pair \in Nat \X Nat : pair[1] < pair[2]}
  BY <1>1 DEF OpToRel
<1>4. ASSUME NEW x \in T, NEW y \in T, ~(<<y, x>> \in R) PROVE x <= y
  <2>1. x \in Nat /\ y \in Nat /\ <<y, x>> \in Nat \X Nat
    OBVIOUS
  <2>2. ~(y < x)
    BY <1>3, <1>4, <2>1
  <2> QED
    BY <2>1, <2>2
<1> QED
  BY <1>2, <1>4

\* The fold of a journal over an entry, for every part of the journal.
Folded(f, entry, mods, n) ==
    f = [s \in SUBSET (1..n) |->
           IF s = {} THEN entry
           ELSE Delta!Modified(f[s \ {Delta!Max(s)}], mods[Delta!Max(s)])]

\* The greatest of a part that has the last number is that number.
LEMMA LastIsMax ==
    ASSUME NEW n \in Nat, NEW s \in SUBSET (1..n), n \in s
    PROVE  Delta!Max(s) = n
<1>1. \A x \in s : x <= n
  OBVIOUS
<1>2. \A x : x \in s /\ (\A y \in s : x >= y) => x = n
  BY <1>1
<1> QED
  BY <1>1, <1>2 DEF Delta!Max

LEMMA FoldExists == \A entry, mods : \A n \in Nat : \E f : Folded(f, entry, mods, n)
<1> TAKE entry, mods
<1> DEFINE T == {n \in Nat : ~ \E f : Folded(f, entry, mods, n)}
<1> SUFFICES ASSUME T # {} PROVE FALSE
  OBVIOUS
<1>1. PICK n \in T : \A m \in T : n <= m
  BY LeastNumber
<1>2. n \in Nat /\ ~ \E f : Folded(f, entry, mods, n)
  OBVIOUS
<1>3. CASE n = 0
  <2>1. PICK f : f = [s \in SUBSET (1..0) |-> entry]
    OBVIOUS
  <2>2. \A s \in SUBSET (1..0) : s = {}
    OBVIOUS
  <2>3. f = [s \in SUBSET (1..0) |->
               IF s = {} THEN entry
               ELSE Delta!Modified(f[s \ {Delta!Max(s)}], mods[Delta!Max(s)])]
    BY <2>1, <2>2
  <2> QED
    BY <1>2, <1>3, <2>3 DEF Folded
<1>4. CASE n # 0
  <2>1. n - 1 \in Nat /\ ~(n <= n - 1)
    BY <1>2, <1>4
  <2>2. PICK g : Folded(g, entry, mods, n - 1)
    BY <1>1, <2>1
  <2> DEFINE Whole(s) == Delta!Modified(g[s \ {n}], mods[n])
  <2>3. PICK f : f = [s \in SUBSET (1..n) |-> IF n \in s THEN Whole(s) ELSE g[s]]
    OBVIOUS
  <2> DEFINE Step(s) == Delta!Modified(f[s \ {Delta!Max(s)}], mods[Delta!Max(s)])
  <2>4. ASSUME NEW s \in SUBSET (1..n) PROVE f[s] = IF s = {} THEN entry ELSE Step(s)
    <3>1. CASE n \in s
      <4>1. Delta!Max(s) = n
        BY <1>2, <3>1, LastIsMax
      <4>2. s \ {n} \in SUBSET (1..n) /\ n \notin s \ {n}
        OBVIOUS
      <4>3. f[s] = Whole(s) /\ f[s \ {n}] = g[s \ {n}]
        BY <2>3, <3>1, <4>2
      <4> QED
        BY <3>1, <4>1, <4>3
    <3>2. CASE n \notin s
      <4>1. s \in SUBSET (1..n - 1)
        BY <1>2, <3>2
      <4>2. s \ {Delta!Max(s)} \in SUBSET (1..n) /\ n \notin s \ {Delta!Max(s)}
        BY <3>2
      <4>3. f[s] = g[s] /\ f[s \ {Delta!Max(s)}] = g[s \ {Delta!Max(s)}]
        BY <2>3, <3>2, <4>2
      <4>4. g[s] = IF s = {} THEN entry
                   ELSE Delta!Modified(g[s \ {Delta!Max(s)}], mods[Delta!Max(s)])
        BY <2>2, <4>1 DEF Folded
      <4> QED
        BY <4>3, <4>4
    <3> QED
      BY <3>1, <3>2
  <2> HIDE DEF Whole
  <2>5. f = [s \in SUBSET (1..n) |-> IF s = {} THEN entry ELSE Step(s)]
    BY <2>3, <2>4
  <2> QED
    BY <1>2, <2>5 DEF Folded
<1> QED
  BY <1>3, <1>4

LEMMA PatchedIsFold ==
    ASSUME NEW entry, NEW mods, Len(mods) \in Nat, DOMAIN mods = 1..Len(mods)
    PROVE  \E f : Folded(f, entry, mods, Len(mods)) /\ Delta!Patched(entry, mods) = f[1..Len(mods)]
<1> DEFINE f == CHOOSE f : Folded(f, entry, mods, Len(mods))
<1>1. Folded(f, entry, mods, Len(mods))
  BY FoldExists
<1>2. Delta!Patched(entry, mods) = f[1..Len(mods)]
  BY DEF Folded, Delta!Patched, Delta!FoldLeft, Delta!MapThenFoldSet
<1> QED
  BY <1>1, <1>2

\* A step of the fold.
LEMMA FoldedStep ==
    \A entry, mods, f : \A n \in Nat : Folded(f, entry, mods, n) =>
      \A i \in 0..n : f[1..i] = IF i = 0 THEN entry ELSE Delta!Modified(f[1..i - 1], mods[i])
<1> SUFFICES ASSUME NEW entry, NEW mods, NEW f, NEW n \in Nat, Folded(f, entry, mods, n), NEW i \in 0..n
             PROVE  f[1..i] = IF i = 0 THEN entry ELSE Delta!Modified(f[1..i - 1], mods[i])
  OBVIOUS
<1>1. 1..i \in SUBSET (1..n)
  OBVIOUS
<1>2. f[1..i] = IF 1..i = {} THEN entry
                ELSE Delta!Modified(f[(1..i) \ {Delta!Max(1..i)}], mods[Delta!Max(1..i)])
  BY <1>1 DEF Folded
<1>3. CASE i = 0
  BY <1>2, <1>3
<1>4. CASE i # 0
  <2>1. 1..i \in SUBSET (1..i) /\ i \in 1..i /\ i \in Nat
    BY <1>4
  <2>2. Delta!Max(1..i) = i
    BY <2>1, LastIsMax
  <2>3. (1..i) \ {i} = 1..i - 1
    BY <1>4
  <2> QED
    BY <1>2, <1>4, <2>1, <2>2, <2>3
<1> QED
  BY <1>3, <1>4

LEMMA PatchedNot == ASSUME NEW entry PROVE Delta!Patched(entry, <<>>) = entry
<1>1. Len(<<>>) = 0 /\ DOMAIN <<>> = 1..0
  OBVIOUS
<1>2. PICK f : Folded(f, entry, <<>>, 0) /\ Delta!Patched(entry, <<>>) = f[1..0]
  BY <1>1, PatchedIsFold
<1>3. 0 \in Nat /\ 0 \in 0..0
  OBVIOUS
<1>4. f[1..0] = IF 0 = 0 THEN entry ELSE Delta!Modified(f[1..0 - 1], <<>>[0])
  BY <1>2, <1>3, FoldedStep
<1> QED
  BY <1>2, <1>4

LEMMA PatchedFurther ==
    ASSUME NEW entry, NEW mods \in Seq(Modifications), NEW m \in Modifications
    PROVE  Delta!Patched(entry, Append(mods, m)) = Delta!Modified(Delta!Patched(entry, mods), m)
<1> DEFINE n == Len(mods)
           more == Append(mods, m)
<1>1. n \in Nat /\ DOMAIN mods = 1..n /\ Len(more) = n + 1 /\ DOMAIN more = 1..n + 1
      /\ more[n + 1] = m /\ \A i \in 1..n : more[i] = mods[i]
  OBVIOUS
<1>2. PICK f : Folded(f, entry, mods, n) /\ Delta!Patched(entry, mods) = f[1..n]
  BY <1>1, PatchedIsFold
<1>3. PICK g : Folded(g, entry, more, n + 1) /\ Delta!Patched(entry, more) = g[1..n + 1]
  <2>1. Len(more) \in Nat /\ DOMAIN more = 1..Len(more) /\ Len(more) = n + 1
    BY <1>1
  <2> HIDE DEF n, more
  <2> QED
    BY <2>1, PatchedIsFold
<1> HIDE DEF n, more
<1> DEFINE T == {i \in 0..n : f[1..i] # g[1..i]}
<1>4. T = {}
  <2> SUFFICES ASSUME T # {} PROVE FALSE
    OBVIOUS
  <2>1. PICK i \in T : \A j \in T : i <= j
    <3>1. T \subseteq Nat
      OBVIOUS
    <3> HIDE DEF T
    <3> QED
      BY <3>1, LeastNumber
  <2>2. i \in 0..n /\ i \in 0..n + 1 /\ n + 1 \in Nat
    BY <1>1
  <2>3. f[1..i] = IF i = 0 THEN entry ELSE Delta!Modified(f[1..i - 1], mods[i])
    <3> HIDE DEF T
    <3> QED
      BY <1>1, <1>2, <2>2, FoldedStep
  <2>4. g[1..i] = IF i = 0 THEN entry ELSE Delta!Modified(g[1..i - 1], more[i])
    <3> HIDE DEF T
    <3> QED
      BY <1>3, <2>2, FoldedStep
  <2>5. i # 0 => i - 1 \in 0..n /\ ~(i <= i - 1) /\ more[i] = mods[i]
    BY <1>1, <2>2
  <2>6. i # 0 => f[1..i - 1] = g[1..i - 1]
    BY <2>1, <2>5
  <2>7. f[1..i] = g[1..i]
    BY <2>3, <2>4, <2>5, <2>6
  <2> QED
    BY <2>7
<1>5. f[1..n] = g[1..n]
  BY <1>1, <1>4
<1>6. n + 1 \in 0..n + 1 /\ n + 1 \in Nat /\ n + 1 # 0 /\ n + 1 - 1 = n
  BY <1>1
<1>7. g[1..n + 1] = Delta!Modified(g[1..n], more[n + 1])
  <2> HIDE DEF T
  <2>1. PICK k : k = n + 1
    OBVIOUS
  <2>2. Folded(g, entry, more, k) /\ k \in Nat /\ k \in 0..k /\ k # 0 /\ k - 1 = n
    BY <1>1, <1>3, <1>6, <2>1
  <2>3. g[1..k] = IF k = 0 THEN entry ELSE Delta!Modified(g[1..k - 1], more[k])
    BY <2>2, FoldedStep
  <2>4. g[1..k] = Delta!Modified(g[1..n], more[k])
    BY <2>2, <2>3
  <2> QED
    BY <2>1, <2>4
<1> QED
  BY <1>1, <1>2, <1>3, <1>5, <1>7 DEF more

\* What a modification does to the values of an attribute.
Effect(values, m, key) ==
    IF m[2] # key THEN values
    ELSE IF m[1] = "Add" THEN values \cup m[3]
    ELSE IF m[1] = "Replace" THEN m[3]
    ELSE IF m[3] = {} THEN {} ELSE values \ m[3]

LEMMA EntryFacts ==
    ASSUME NEW e
    PROVE  e \in Entries <=> e = [k \in DOMAIN e |-> e[k]] /\ DOMAIN e \subseteq Keys
                             /\ \A k \in DOMAIN e : e[k] \in SUBSET Values
<1>1. ASSUME e \in Entries
      PROVE  e = [k \in DOMAIN e |-> e[k]] /\ DOMAIN e \subseteq Keys
             /\ \A k \in DOMAIN e : e[k] \in SUBSET Values
  <2>1. PICK ks \in SUBSET Keys : e \in [ks -> SUBSET Values]
    BY <1>1 DEF Entries
  <2> QED
    BY <2>1
<1>2. ASSUME e = [k \in DOMAIN e |-> e[k]], DOMAIN e \subseteq Keys,
             \A k \in DOMAIN e : e[k] \in SUBSET Values
      PROVE  e \in Entries
  <2>1. e \in [DOMAIN e -> SUBSET Values] /\ DOMAIN e \in SUBSET Keys
    BY <1>2
  <2> QED
    BY <2>1 DEF Entries
<1> QED
  BY <1>1, <1>2

LEMMA NoEntryIsRaised == Delta!Raised \notin Entries
<1>1. DOMAIN Delta!Raised = {"raised"}
  BY DEF Delta!Raised
<1> QED
  BY <1>1, EntryFacts, EntryAssumption

LEMMA ModifiedDoes ==
    ASSUME NEW e \in Entries, NEW m \in Modifications
    PROVE  \/ /\ Delta!Modified(e, m) = Delta!Raised
              /\ m[1] = "Delete" /\ (m[3] = {} \/ ~(m[3] \subseteq Of(e, m[2])))
           \/ /\ Delta!Modified(e, m) \in Entries
              /\ \A k \in Keys : Of(Delta!Modified(e, m), k) = Effect(Of(e, k), m, k)
<1>1. /\ e = [k \in DOMAIN e |-> e[k]] /\ DOMAIN e \subseteq Keys
      /\ \A k \in DOMAIN e : e[k] \in SUBSET Values
  BY EntryFacts
<1>2. m[1] \in {"Add", "Delete", "Replace"} /\ m[2] \in Keys /\ m[3] \in SUBSET Values
  BY DEF Modifications
<1>3. /\ Delta!Spellings(e, m[2]) = {k \in DOMAIN e : k = m[2]}
      /\ Delta!Has(e, m[2]) <=> m[2] \in DOMAIN e
      /\ m[2] \in DOMAIN e => Delta!Spelling(e, m[2]) = m[2]
      /\ Delta!Own(e, m[2]) = {} <=> m[2] \notin DOMAIN e
  <2>1. Delta!Spellings(e, m[2]) = {k \in DOMAIN e : k = m[2]}
    BY DEF Delta!Spellings, Delta!Own, Delta!Other, Spelled
  <2>2. m[2] \in DOMAIN e => Delta!Spellings(e, m[2]) = {m[2]}
    BY <2>1
  <2> QED
    BY <2>1, <2>2 DEF Delta!Has, Delta!Spelling, Delta!Own, Spelled
<1>4. Delta!Removed(e, m[2]) = [k \in DOMAIN e \ {m[2]} |-> e[k]]
  BY DEF Delta!Removed, Spelled
<1>5. \A values \in SUBSET Values : LET s == Delta!Stored(e, m[2], values) IN
         /\ s \in Entries
         /\ \A k \in Keys : Of(s, k) = IF k = m[2] THEN values ELSE Of(e, k)
  <2> SUFFICES ASSUME NEW values \in SUBSET Values, NEW s, s = Delta!Stored(e, m[2], values)
               PROVE  /\ s \in Entries
                      /\ \A k \in Keys : Of(s, k) = IF k = m[2] THEN values ELSE Of(e, k)
    OBVIOUS
  <2>1. s = [k \in DOMAIN e \cup {m[2]} |-> IF k = m[2] THEN values ELSE e[k]]
    <3>1. DOMAIN Delta!Removed(e, m[2]) \cup {m[2]} = DOMAIN e \cup {m[2]}
      BY <1>4
    <3> QED
      BY <3>1 DEF Delta!Stored
  <2>2. DOMAIN s = DOMAIN e \cup {m[2]} /\ \A k \in DOMAIN s : s[k] = IF k = m[2] THEN values ELSE e[k]
    BY <2>1
  <2>3. s \in Entries
    BY <1>1, <1>2, <2>1, <2>2, EntryFacts
  <2> QED
    BY <2>2, <2>3 DEF Of
<1>6. LET s == Delta!Removed(e, m[2]) IN
         /\ s \in Entries
         /\ \A k \in Keys : Of(s, k) = IF k = m[2] THEN {} ELSE Of(e, k)
  <2> SUFFICES ASSUME NEW s, s = Delta!Removed(e, m[2])
               PROVE  /\ s \in Entries
                      /\ \A k \in Keys : Of(s, k) = IF k = m[2] THEN {} ELSE Of(e, k)
    OBVIOUS
  <2>1. DOMAIN s = DOMAIN e \ {m[2]} /\ \A k \in DOMAIN s : s[k] = e[k]
    BY <1>4
  <2>2. s \in Entries
    BY <1>1, <1>4, <2>1, EntryFacts
  <2> QED
    BY <2>1, <2>2 DEF Of
<1>7. \A values \in SUBSET Values : m[2] \in DOMAIN e =>
        LET s == [e EXCEPT ![m[2]] = values] IN
         /\ s \in Entries
         /\ \A k \in Keys : Of(s, k) = IF k = m[2] THEN values ELSE Of(e, k)
  <2> SUFFICES ASSUME NEW values \in SUBSET Values, m[2] \in DOMAIN e,
                      NEW s, s = [e EXCEPT ![m[2]] = values]
               PROVE  /\ s \in Entries
                      /\ \A k \in Keys : Of(s, k) = IF k = m[2] THEN values ELSE Of(e, k)
    OBVIOUS
  <2>1. s = [k \in DOMAIN e |-> IF k = m[2] THEN values ELSE e[k]]
    BY <1>1
  <2>2. DOMAIN s = DOMAIN e /\ \A k \in DOMAIN s : s[k] = IF k = m[2] THEN values ELSE e[k]
    BY <2>1
  <2>3. s \in Entries
    <3>1. s = [k \in DOMAIN s |-> s[k]]
      BY <2>1
    <3> QED
      BY <1>1, <2>2, <3>1, EntryFacts
  <2> QED
    BY <2>2, <2>3 DEF Of
<1>8. e # Delta!Raised
  BY NoEntryIsRaised
<1>9. CASE m[1] = "Add"
  <2>1. Delta!Modified(e, m) = Delta!Add(e, m[2], m[3])
    BY <1>8, <1>9 DEF Delta!Modified
  <2>2. CASE m[2] \in DOMAIN e
    <3>1. Delta!Add(e, m[2], m[3]) = [e EXCEPT ![m[2]] = e[m[2]] \cup m[3]]
      BY <1>3, <2>2 DEF Delta!Add
    <3>2. e[m[2]] \cup m[3] \in SUBSET Values /\ Of(e, m[2]) = e[m[2]]
      BY <1>1, <1>2, <2>2 DEF Of
    <3>3. /\ Delta!Modified(e, m) \in Entries
          /\ \A k \in Keys : Of(Delta!Modified(e, m), k)
                             = IF k = m[2] THEN e[m[2]] \cup m[3] ELSE Of(e, k)
      <4>1. PICK values \in SUBSET Values : values = e[m[2]] \cup m[3]
        BY <3>2
      <4>2. Delta!Modified(e, m) = [e EXCEPT ![m[2]] = values]
        BY <2>1, <3>1, <4>1
      <4>3. PICK s : s = [e EXCEPT ![m[2]] = values]
        OBVIOUS
      <4>4. s \in Entries /\ \A k \in Keys : Of(s, k) = IF k = m[2] THEN values ELSE Of(e, k)
        BY <1>7, <2>2, <4>3
      <4> QED
        BY <4>1, <4>2, <4>3, <4>4
    <3> QED
      BY <1>9, <3>2, <3>3 DEF Effect
  <2>3. CASE m[2] \notin DOMAIN e
    <3>1. Delta!Add(e, m[2], m[3]) = Delta!Stored(e, m[2], m[3]) /\ Of(e, m[2]) = {}
      BY <1>3, <2>3 DEF Delta!Add, Of
    <3> QED
      BY <1>2, <1>5, <1>9, <2>1, <3>1 DEF Effect
  <2> QED
    BY <2>2, <2>3
<1>10. CASE m[1] = "Replace"
  <2>1. Delta!Modified(e, m) = Delta!Replace(e, m[2], m[3])
    BY <1>8, <1>10 DEF Delta!Modified
  <2>2. CASE m[3] = {}
    BY <1>6, <1>10, <2>1, <2>2 DEF Delta!Replace, Effect
  <2>3. CASE m[3] # {}
    BY <1>2, <1>5, <1>10, <2>1, <2>3 DEF Delta!Replace, Effect
  <2> QED
    BY <2>2, <2>3
<1>11. CASE m[1] = "Delete"
  <2>1. Delta!Modified(e, m) = Delta!Delete(e, m[2], m[3])
    BY <1>8, <1>11 DEF Delta!Modified
  <2>2. CASE m[2] \notin DOMAIN e
    <3>1. Delta!Delete(e, m[2], m[3]) = Delta!Raised /\ Of(e, m[2]) = {}
      BY <1>3, <2>2 DEF Delta!Delete, Of
    <3> QED
      BY <1>11, <2>1, <3>1
  <2>3. CASE m[2] \in DOMAIN e /\ m[3] = {}
    BY <1>3, <1>6, <1>11, <2>1, <2>3 DEF Delta!Delete, Effect
  <2>4. CASE m[2] \in DOMAIN e /\ m[3] # {}
    <3>1. Of(e, m[2]) = e[m[2]] /\ e[m[2]] \ m[3] \in SUBSET Values
      BY <1>1, <2>4 DEF Of
    <3>2. CASE m[3] \subseteq e[m[2]]
      <4>1. Delta!Delete(e, m[2], m[3]) = [e EXCEPT ![m[2]] = e[m[2]] \ m[3]]
        BY <1>3, <2>4, <3>2 DEF Delta!Delete
      <4>2. /\ Delta!Modified(e, m) \in Entries
            /\ \A k \in Keys : Of(Delta!Modified(e, m), k)
                               = IF k = m[2] THEN e[m[2]] \ m[3] ELSE Of(e, k)
        <5>1. PICK values \in SUBSET Values : values = e[m[2]] \ m[3]
          BY <3>1
        <5>2. Delta!Modified(e, m) = [e EXCEPT ![m[2]] = values]
          BY <2>1, <4>1, <5>1
        <5> QED
          BY <1>7, <2>4, <5>1, <5>2
      <4> QED
        BY <1>11, <2>4, <3>1, <4>2 DEF Effect
    <3>3. CASE ~(m[3] \subseteq e[m[2]])
      <4>1. Delta!Delete(e, m[2], m[3]) = Delta!Raised
        BY <1>3, <2>4, <3>3 DEF Delta!Delete
      <4> QED
        BY <1>11, <2>1, <3>1, <3>3, <4>1
    <3> QED
      BY <3>2, <3>3
  <2> QED
    BY <2>2, <2>3, <2>4
<1> QED
  BY <1>2, <1>9, <1>10, <1>11

\* A modification of what raised raises.
LEMMA RaisedStays == ASSUME NEW m PROVE Delta!Modified(Delta!Raised, m) = Delta!Raised
BY DEF Delta!Modified

-----------------------------------------------------------------------------
(* Entries and journals.                                                   *)

LEMMA OfValues == ASSUME NEW e \in Entries, NEW k PROVE Of(e, k) \in SUBSET Values
BY EntryFacts DEF Of

LEMMA WithDoes ==
    ASSUME NEW e \in Entries, NEW key \in Keys, NEW held \in SUBSET Values
    PROVE  /\ With(e, key, held) \in Entries
           /\ \A k \in Keys : Of(With(e, key, held), k) = IF k = key THEN held ELSE Of(e, k)
<1>1. PICK s : s = With(e, key, held)
  OBVIOUS
<1>2. s = [k \in DOMAIN e \cup {key} |-> IF k = key THEN held ELSE e[k]]
  BY <1>1 DEF With
<1>3. /\ s = [k \in DOMAIN s |-> s[k]] /\ DOMAIN s = DOMAIN e \cup {key}
      /\ \A k \in DOMAIN s : s[k] = IF k = key THEN held ELSE e[k]
  BY <1>2
<1>4. s \in Entries
  BY <1>3, EntryFacts
<1>5. \A k \in Keys : Of(s, k) = IF k = key THEN held ELSE Of(e, k)
  BY <1>3 DEF Of
<1> QED
  BY <1>1, <1>4, <1>5

LEMMA WithoutDoes ==
    ASSUME NEW e \in Entries, NEW key \in Keys
    PROVE  /\ Without(e, key) \in Entries
           /\ \A k \in Keys : Of(Without(e, key), k) = IF k = key THEN {} ELSE Of(e, k)
<1>1. PICK s : s = Without(e, key)
  OBVIOUS
<1>2. s = [k \in DOMAIN e \ {key} |-> e[k]]
  BY <1>1 DEF Without
<1>3. /\ s = [k \in DOMAIN s |-> s[k]] /\ DOMAIN s = DOMAIN e \ {key}
      /\ \A k \in DOMAIN s : s[k] = e[k]
  BY <1>2
<1>4. s \in Entries
  BY <1>3, EntryFacts
<1>5. \A k \in Keys : Of(s, k) = IF k = key THEN {} ELSE Of(e, k)
  BY <1>3 DEF Of
<1> QED
  BY <1>1, <1>4, <1>5

LEMMA ShownDoes ==
    ASSUME NEW e \in Entries
    PROVE  Shown(e) \in Entries /\ \A k \in Keys : Of(Shown(e), k) = Of(e, k)
<1>1. PICK s : s = Shown(e)
  OBVIOUS
<1>2. s = [k \in {k \in DOMAIN e : e[k] # {}} |-> e[k]]
  BY <1>1 DEF Shown
<1>3. /\ s = [k \in DOMAIN s |-> s[k]] /\ DOMAIN s = {k \in DOMAIN e : e[k] # {}}
      /\ \A k \in DOMAIN s : s[k] = e[k]
  BY <1>2
<1>4. s \in Entries
  BY <1>3, EntryFacts
<1>5. \A k \in Keys : Of(s, k) = Of(e, k)
  BY <1>3 DEF Of
<1> QED
  BY <1>1, <1>4, <1>5

LEMMA TouchedFurther ==
    ASSUME NEW mods \in Seq(Modifications), NEW m \in Modifications
    PROVE  Touched(Append(mods, m)) = Touched(mods) \cup {m[2]}
<1> DEFINE more == Append(mods, m)
<1>1. /\ Len(mods) \in Nat /\ DOMAIN mods = 1..Len(mods) /\ DOMAIN more = 1..Len(mods) + 1
      /\ more[Len(mods) + 1] = m /\ \A i \in 1..Len(mods) : more[i] = mods[i]
  OBVIOUS
<1> HIDE DEF more
<1>2. DOMAIN more = DOMAIN mods \cup {Len(mods) + 1}
  BY <1>1
<1>3. Touched(more) = {more[i][2] : i \in DOMAIN mods} \cup {more[Len(mods) + 1][2]}
  BY <1>2 DEF Touched
<1>4. {more[i][2] : i \in DOMAIN mods} = {mods[i][2] : i \in DOMAIN mods}
  BY <1>1
<1> QED
  BY <1>1, <1>3, <1>4 DEF Touched, more

\* A journal that is empty.
LEMMA JournalEmpty ==
    ASSUME journal' = <<>>, attributes' = remote', remote' \in Entries
    PROVE  JournalInv'
<1>1. \A entry : Delta!Patched(entry, journal') = entry
  BY PatchedNot
<1>2. ASSUME NEW entry \in Entries PROVE JournalDoes(entry)'
  BY <1>1 DEF JournalDoes
<1>3. Delta!Patched(remote', journal') # Delta!Raised
  BY <1>1, NoEntryIsRaised
<1> QED
  BY <1>2, <1>3 DEF JournalInv

\* One more change of the program and its modification in the journal.
LEMMA JournalFurther ==
    ASSUME EntryInv, NEW m \in Modifications, NEW e \in Entries,
           \A k \in Keys \ astray' : Of(e, k) = Effect(Of(attributes, k), m, k),
           m[1] = "Delete" /\ m[2] \notin astray' => m[3] \subseteq Of(attributes, m[2]),
           attributes' = e, journal' = Append(journal, m), UNCHANGED remote,
           astray \subseteq astray'
    PROVE  JournalInv'
<1>1. journal \in Seq(Modifications) /\ remote \in Entries /\ \A entry \in Entries : JournalDoes(entry)
  BY DEF EntryInv, EntryTypes, JournalInv
<1>2. \A entry : Delta!Patched(entry, journal') = Delta!Modified(Delta!Patched(entry, journal), m)
  BY <1>1, PatchedFurther
<1>3. Touched(journal') = Touched(journal) \cup {m[2]} /\ m[2] \in Keys
  BY <1>1, TouchedFurther DEF Modifications
<1>4. ASSUME NEW entry \in Entries PROVE JournalDoes(entry)'
  <2>1. PICK before : before = Delta!Patched(entry, journal)
    OBVIOUS
  <2>2. PICK after : after = Delta!Patched(entry, journal')
    OBVIOUS
  <2>3. after = Delta!Modified(before, m)
    BY <1>2, <2>1, <2>2
  <2>4. SUFFICES ASSUME after # Delta!Raised
                 PROVE  /\ after \in Entries
                        /\ \A k \in Keys :
                             /\ k \notin astray' /\ Of(entry, k) = Of(remote, k) => Of(after, k) = Of(e, k)
                             /\ k \notin Touched(journal') => Of(after, k) = Of(entry, k)
    BY <2>2 DEF JournalDoes
  <2>5. before # Delta!Raised
    BY <2>3, <2>4, RaisedStays
  <2>6. /\ before \in Entries
        /\ \A k \in Keys :
             /\ k \notin astray /\ Of(entry, k) = Of(remote, k) => Of(before, k) = Of(attributes, k)
             /\ k \notin Touched(journal) => Of(before, k) = Of(entry, k)
    BY <1>1, <1>4, <2>1, <2>5 DEF JournalDoes
  <2>7. /\ after \in Entries
        /\ \A k \in Keys : Of(after, k) = Effect(Of(before, k), m, k)
    BY <2>3, <2>4, <2>6, ModifiedDoes
  <2>8. ASSUME NEW k \in Keys, k \notin astray', Of(entry, k) = Of(remote, k)
        PROVE  Of(after, k) = Of(e, k)
    <3>1. Of(before, k) = Of(attributes, k)
      BY <2>6, <2>8
    <3> QED
      BY <2>7, <2>8, <3>1
  <2>9. ASSUME NEW k \in Keys, k \notin Touched(journal') PROVE Of(after, k) = Of(entry, k)
    BY <1>3, <2>6, <2>7, <2>9 DEF Effect
  <2> QED
    BY <2>7, <2>8, <2>9
<1>5. ASSUME Delta!Patched(remote, journal') = Delta!Raised PROVE MayRaise'
  <2>1. PICK before : before = Delta!Patched(remote, journal)
    OBVIOUS
  <2>2. Delta!Modified(before, m) = Delta!Raised
    BY <1>2, <1>5, <2>1
  <2>3. /\ Len(journal) \in Nat /\ DOMAIN journal' = 1..Len(journal) + 1 /\ DOMAIN journal = 1..Len(journal)
        /\ journal'[Len(journal) + 1] = m /\ \A i \in 1..Len(journal) : journal'[i] = journal[i]
    BY <1>1
  <2>4. CASE before = Delta!Raised
    <3>1. PICK i \in DOMAIN journal : May(journal[i])
      BY <2>1, <2>4 DEF EntryInv, JournalInv, MayRaise
    <3>2. i \in DOMAIN journal' /\ journal'[i] = journal[i]
      BY <2>3
    <3> QED
      BY <3>1, <3>2 DEF MayRaise, May
  <2>5. CASE before # Delta!Raised
    <3>1. before \in Entries /\ \A k \in Keys : k \notin astray => Of(before, k) = Of(attributes, k)
      BY <1>1, <2>1, <2>5 DEF JournalDoes
    <3>2. m[1] = "Delete" /\ (m[3] = {} \/ ~(m[3] \subseteq Of(before, m[2])))
      BY <2>2, <3>1, ModifiedDoes, NoEntryIsRaised
    <3>3. m[3] = {} \/ m[2] \in astray'
      BY <1>3, <3>1, <3>2
    <3>4. Len(journal) + 1 \in DOMAIN journal'
      BY <2>3
    <3> QED
      BY <2>3, <3>2, <3>3, <3>4 DEF MayRaise, May
  <2> QED
    BY <2>4, <2>5
<1> QED
  BY <1>4, <1>5 DEF JournalInv

-----------------------------------------------------------------------------
(* The program.                                                            *)

\* What the program changes is journalled, and does what the journal says.
LEMMA EditKeeps ==
    ASSUME EntryInv, NEW m \in Modifications, NEW e \in Entries,
           \A k \in Keys \ astray' : Of(e, k) = Effect(Of(attributes, k), m, k),
           m[1] = "Delete" /\ m[2] \notin astray' => m[3] \subseteq Of(attributes, m[2]),
           Edit(e, m), astray \subseteq astray', astray' \subseteq Keys
    PROVE  EntryInv'
<1>1. JournalInv'
  BY JournalFurther DEF Edit
<1>2. journal' \in Seq(Modifications) /\ Len(journal') = Len(journal) + 1 /\ Len(journal') <= MaxJournal
  BY EntryAssumption DEF Edit, EntryInv, EntryTypes
<1> QED
  BY <1>1, <1>2 DEF Edit, EntryInv, EntryTypes

\* A change past the journal, of attributes that are astray from then on.
LEMMA PastKeeps ==
    ASSUME EntryInv, NEW key \in Keys, UNCHANGED <<astray, past>> \/ PastJournal({key}) \/ MayBeTwofold({key})
    PROVE  astray \subseteq astray' /\ astray' \subseteq Keys
BY DEF PastJournal, MayBeTwofold, EntryInv, EntryTypes

LEMMA AddValueStep ==
    ASSUME EntryInv, NEW k \in Keys, NEW v \in Values, AddValue(k, v) PROVE EntryInv'
<1>1. attributes \in Entries /\ attributes[k] = Of(attributes, k) /\ Of(attributes, k) \in SUBSET Values
  BY OfValues DEF AddValue, EntryInv, EntryTypes, Of
<1>2. PICK held \in SUBSET Values : held = attributes[k] \cup {v}
  BY <1>1
<1>3. PICK m : m = <<"Add", k, {v}>>
  OBVIOUS
<1>4. m \in Modifications /\ m[1] = "Add" /\ m[2] = k /\ m[3] = {v}
  BY <1>3 DEF Modifications
<1>5. PICK e : e = With(attributes, k, held)
  OBVIOUS
<1>6. e \in Entries /\ \A l \in Keys : Of(e, l) = IF l = k THEN held ELSE Of(attributes, l)
  BY <1>1, <1>5, WithDoes
<1>7. \A l \in Keys : Of(e, l) = Effect(Of(attributes, l), m, l)
  BY <1>1, <1>2, <1>4, <1>6 DEF Effect
<1>8. Edit(e, m)
  BY <1>2, <1>3, <1>5 DEF AddValue
<1>9. astray \subseteq astray' /\ astray' \subseteq Keys
  BY PastKeeps DEF AddValue
<1> QED
  BY <1>4, <1>6, <1>7, <1>8, <1>9, EditKeeps

LEMMA RemoveValueStep ==
    ASSUME EntryInv, NEW k \in Keys, NEW v \in Values, NEW kind, RemoveValue(k, v, kind) PROVE EntryInv'
<1>1. /\ attributes \in Entries /\ attributes[k] = Of(attributes, k) /\ Of(attributes, k) \in SUBSET Values
      /\ v \in Of(attributes, k)
  BY OfValues DEF RemoveValue, EntryInv, EntryTypes, Of
<1>2. PICK held \in SUBSET Values : held = attributes[k] \ {v}
  BY <1>1
<1>3. PICK m : m = <<"Delete", k, {v}>>
  OBVIOUS
<1>4. m \in Modifications /\ m[1] = "Delete" /\ m[2] = k /\ m[3] = {v}
  BY <1>3 DEF Modifications
<1>5. PICK e : e = With(attributes, k, held)
  OBVIOUS
<1>6. e \in Entries /\ \A l \in Keys : Of(e, l) = IF l = k THEN held ELSE Of(attributes, l)
  BY <1>1, <1>5, WithDoes
<1>7. \A l \in Keys : Of(e, l) = Effect(Of(attributes, l), m, l)
  BY <1>1, <1>2, <1>4, <1>6 DEF Effect
<1>8. Edit(e, m) /\ m[3] \subseteq Of(attributes, m[2])
  BY <1>1, <1>2, <1>3, <1>5 DEF RemoveValue
<1>9. astray \subseteq astray' /\ astray' \subseteq Keys
  BY PastKeeps DEF RemoveValue
<1> QED
  BY <1>4, <1>6, <1>7, <1>8, <1>9, EditKeeps

LEMMA ClearStep == ASSUME EntryInv, NEW k \in Keys, NEW kind, Clear(k, kind) PROVE EntryInv'
<1>1. attributes \in Entries
  BY DEF EntryInv, EntryTypes
<1>2. PICK m : m = <<"Delete", k, {}>>
  OBVIOUS
<1>3. m \in Modifications /\ m[1] = "Delete" /\ m[2] = k /\ m[3] = {}
  BY <1>2 DEF Modifications
<1>4. PICK e : e = With(attributes, k, {})
  OBVIOUS
<1>5. e \in Entries /\ \A l \in Keys : Of(e, l) = IF l = k THEN {} ELSE Of(attributes, l)
  BY <1>1, <1>4, WithDoes
<1>6. \A l \in Keys : Of(e, l) = Effect(Of(attributes, l), m, l)
  BY <1>3, <1>5 DEF Effect
<1>7. Edit(e, m)
  BY <1>2, <1>4 DEF Clear
<1>8. astray \subseteq astray' /\ astray' \subseteq Keys
  BY PastKeeps DEF Clear
<1> QED
  BY <1>3, <1>5, <1>6, <1>7, <1>8, EditKeeps

LEMMA SetItemStep ==
    ASSUME EntryInv, NEW k \in Keys, NEW held \in SUBSET Values, NEW kind, SetItem(k, held, kind) PROVE EntryInv'
<1>1. attributes \in Entries
  BY DEF EntryInv, EntryTypes
<1>2. PICK m : m = <<"Replace", k, held>>
  OBVIOUS
<1>3. m \in Modifications /\ m[1] = "Replace" /\ m[2] = k /\ m[3] = held
  BY <1>2 DEF Modifications
<1>4. PICK e : e = With(attributes, k, held)
  OBVIOUS
<1>5. e \in Entries /\ \A l \in Keys : Of(e, l) = IF l = k THEN held ELSE Of(attributes, l)
  BY <1>1, <1>4, WithDoes
<1>6. \A l \in Keys : Of(e, l) = Effect(Of(attributes, l), m, l)
  BY <1>3, <1>5 DEF Effect
<1>7. Edit(e, m)
  BY <1>2, <1>4 DEF SetItem
<1>8. astray \subseteq astray' /\ astray' \subseteq Keys
  BY PastKeeps DEF SetItem
<1> QED
  BY <1>3, <1>5, <1>6, <1>7, <1>8, EditKeeps

LEMMA DelItemStep == ASSUME EntryInv, NEW k \in Keys, NEW kind, DelItem(k, kind) PROVE EntryInv'
<1>1. attributes \in Entries
  BY DEF EntryInv, EntryTypes
<1>2. PICK m : m = <<"Delete", k, {}>>
  OBVIOUS
<1>3. m \in Modifications /\ m[1] = "Delete" /\ m[2] = k /\ m[3] = {}
  BY <1>2 DEF Modifications
<1>4. PICK e : e = Without(attributes, k)
  OBVIOUS
<1>5. e \in Entries /\ \A l \in Keys : Of(e, l) = IF l = k THEN {} ELSE Of(attributes, l)
  BY <1>1, <1>4, WithoutDoes
<1>6. \A l \in Keys : Of(e, l) = Effect(Of(attributes, l), m, l)
  BY <1>3, <1>5 DEF Effect
<1>7. Edit(e, m)
  BY <1>2, <1>4 DEF DelItem
<1>8. astray \subseteq astray' /\ astray' \subseteq Keys
  BY PastKeeps DEF DelItem
<1> QED
  BY <1>3, <1>5, <1>6, <1>7, <1>8, EditKeeps

\* Changes past the journal, and of what is astray: whatever the entry shows of
\* the attribute, it is one of those that are astray.
LEMMA AstrayKeeps ==
    ASSUME EntryInv, NEW k \in Keys, NEW m \in Modifications, NEW e \in Entries, Edit(e, m),
           k \in astray', m[2] = k, \A l \in Keys \ {k} : Of(e, l) = Of(attributes, l),
           UNCHANGED <<astray, past>> \/ PastJournal({k})
    PROVE  EntryInv'
<1>1. astray \subseteq astray' /\ astray' \subseteq Keys
  BY PastKeeps
<1>2. \A l \in Keys \ astray' : Of(e, l) = Effect(Of(attributes, l), m, l)
  BY DEF Effect
<1> QED
  BY <1>1, <1>2, EditKeeps

LEMMA ChangeUnseenStep ==
    ASSUME EntryInv, NEW k \in Keys, NEW class \in {"Add", "Delete", "Replace"},
           NEW held \in SUBSET Values, ChangeUnseen(k, class, held)
    PROVE  EntryInv'
<1>1. PICK m : m = <<class, k, held>>
  OBVIOUS
<1>2. m \in Modifications /\ m[2] = k
  BY <1>1 DEF Modifications
<1>3. attributes \in Entries
  BY DEF EntryInv, EntryTypes
<1>4. Edit(attributes, m) /\ PastJournal({k}) /\ k \in astray'
  BY <1>1 DEF ChangeUnseen, PastJournal
<1> QED
  BY <1>2, <1>3, <1>4, AstrayKeeps

LEMMA SetIteratorStep ==
    ASSUME EntryInv, NEW k \in Keys, NEW held \in SUBSET Values, NEW kind, SetIterator(k, held, kind)
    PROVE  EntryInv'
<1>1. PICK m : m = <<"Replace", k, {}>>
  OBVIOUS
<1>2. m \in Modifications /\ m[2] = k
  BY <1>1 DEF Modifications
<1>3. PICK e : e = With(attributes, k, held)
  OBVIOUS
<1>4. e \in Entries /\ \A l \in Keys \ {k} : Of(e, l) = Of(attributes, l)
  BY <1>3, WithDoes DEF EntryInv, EntryTypes
<1>5. Edit(e, m) /\ PastJournal({k}) /\ k \in astray'
  BY <1>1, <1>3 DEF SetIterator, PastJournal
<1> QED
  BY <1>2, <1>4, <1>5, AstrayKeeps

LEMMA ChangeAstrayStep ==
    ASSUME EntryInv, NEW k \in Keys, NEW class \in {"Add", "Delete", "Replace"},
           NEW held \in SUBSET Values, NEW shown \in SUBSET Values, ChangeAstray(k, class, held, shown)
    PROVE  EntryInv'
<1>1. PICK m : m = <<class, k, held>>
  OBVIOUS
<1>2. m \in Modifications /\ m[2] = k
  BY <1>1 DEF Modifications
<1>3. attributes \in Entries /\ k \in astray' /\ PastJournal({k})
  BY DEF ChangeAstray, PastJournal, EntryInv, EntryTypes
<1>4. CASE Edit(With(attributes, k, shown), m)
  <2>1. PICK e : e = With(attributes, k, shown)
    OBVIOUS
  <2>2. e \in Entries /\ \A l \in Keys \ {k} : Of(e, l) = Of(attributes, l)
    BY <1>3, <2>1, WithDoes
  <2> QED
    BY <1>2, <1>3, <1>4, <2>1, <2>2, AstrayKeeps
<1>5. CASE Edit(Without(attributes, k), m)
  <2>1. PICK e : e = Without(attributes, k)
    OBVIOUS
  <2>2. e \in Entries /\ \A l \in Keys \ {k} : Of(e, l) = Of(attributes, l)
    BY <1>3, <2>1, WithoutDoes
  <2> QED
    BY <1>2, <1>3, <1>5, <2>1, <2>2, AstrayKeeps
<1> QED
  BY <1>1, <1>4, <1>5 DEF ChangeAstray

LEMMA ChangeUnjournalledStep ==
    ASSUME EntryInv, NEW k \in Keys, NEW held \in SUBSET Values, ChangeUnjournalled(k, held)
    PROVE  EntryInv'
<1>1. attributes \in Entries /\ astray' = astray \cup {k} /\ UNCHANGED <<journal, remote>>
  BY DEF ChangeUnjournalled, PastJournal, EntryInv, EntryTypes
<1>2. PICK e : e = With(attributes, k, held) /\ attributes' = e
  BY DEF ChangeUnjournalled
<1>3. e \in Entries /\ \A l \in Keys \ {k} : Of(e, l) = Of(attributes, l)
  BY <1>1, <1>2, WithDoes
<1>4. ASSUME NEW entry \in Entries PROVE JournalDoes(entry)'
  <2>1. PICK after : after = Delta!Patched(entry, journal)
    OBVIOUS
  <2>2. after # Delta!Raised =>
          /\ after \in Entries
          /\ \A l \in Keys :
               /\ l \notin astray /\ Of(entry, l) = Of(remote, l) => Of(after, l) = Of(attributes, l)
               /\ l \notin Touched(journal) => Of(after, l) = Of(entry, l)
    BY <1>4, <2>1 DEF EntryInv, JournalInv, JournalDoes
  <2>3. after # Delta!Raised =>
          /\ after \in Entries
          /\ \A l \in Keys :
               /\ l \notin astray' /\ Of(entry, l) = Of(remote, l) => Of(after, l) = Of(e, l)
               /\ l \notin Touched(journal) => Of(after, l) = Of(entry, l)
    BY <1>1, <1>3, <2>2
  <2>4. after = Delta!Patched(entry, journal') /\ Touched(journal') = Touched(journal)
    BY <1>1, <2>1
  <2> QED
    BY <1>1, <1>2, <2>3, <2>4 DEF JournalDoes
<1>5. Delta!Patched(remote, journal)' = Delta!Raised => MayRaise'
  BY <1>1 DEF EntryInv, JournalInv, MayRaise, May
<1>6. JournalInv'
  BY <1>4, <1>5 DEF JournalInv
<1>7. /\ attributes' \in Entries /\ astray' \subseteq Keys
      /\ UNCHANGED <<state, name, journal, remote, flight, server, there, stale, others>>
  BY <1>1, <1>2, <1>3 DEF ChangeUnjournalled, EntryInv, EntryTypes
<1> QED
  BY <1>6, <1>7 DEF EntryInv, EntryTypes

\* The journal is about what the program has, and nothing else.
LEMMA SameJournal ==
    ASSUME JournalInv, UNCHANGED <<attributes, journal, remote, astray>> PROVE JournalInv'
<1>1. ASSUME NEW entry \in Entries PROVE JournalDoes(entry)'
  BY DEF JournalInv, JournalDoes
<1>2. Delta!Patched(remote, journal)' = Delta!Raised => MayRaise'
  BY DEF JournalInv, MayRaise, May
<1> QED
  BY <1>1, <1>2 DEF JournalInv

LEMMA UndoStep == EntryInv /\ Undo => EntryInv'
<1> SUFFICES ASSUME EntryInv, Undo PROVE EntryInv'
  OBVIOUS
<1>1. /\ attributes' = remote /\ journal' = <<>>
      /\ UNCHANGED <<state, name, remote, flight, server, there, stale, others, astray>>
  BY DEF Undo, Undone
<1>2. EntryTypes'
  BY <1>1, EntryAssumption DEF EntryInv, EntryTypes
<1>3. JournalInv'
  BY <1>1, JournalEmpty DEF EntryInv, EntryTypes
<1> QED
  BY <1>2, <1>3 DEF EntryInv

\* Requests.
LEMMA Requests ==
    ASSUME EntryInv, NEW op \in {"modify", "fetch", "move", "delete", "password"}
    PROVE  Flight(op) \in Flights
<1>1. <<>> \in Entries
  <2>1. PICK e : e = <<>>
    OBVIOUS
  <2>2. DOMAIN e = {} /\ e = [k \in DOMAIN e |-> e[k]]
    BY <2>1
  <2> QED
    BY <2>1, <2>2, EntryFacts
<1>2. <<>> \in Seq(Modifications) /\ name \in Values
  BY DEF EntryInv, EntryTypes
<1> QED
  BY <1>1, <1>2 DEF Flight, Flights

LEMMA SendsKeeps ==
    ASSUME EntryInv, NEW request \in Flights, Sends(request), state' \in {state, "deleted"}
    PROVE  EntryInv'
<1>1. JournalInv'
  BY SameJournal DEF Sends, EntryInv
<1>2. EntryTypes'
  BY DEF Sends, EntryInv, EntryTypes
<1> QED
  BY <1>1, <1>2 DEF EntryInv

LEMMA RequestStep ==
    ASSUME EntryInv,
           \/ Commit \/ Delete \/ SetPassword
           \/ \E keys \in SUBSET Keys : Fetch(keys)
           \/ \E v \in Values : Move(v)
    PROVE  EntryInv'
<1>1. CASE Commit
  <2>1. PICK request : request = [Flight("modify") EXCEPT !.mods = journal]
    OBVIOUS
  <2>2. request \in Flights
    BY <2>1, Requests DEF EntryInv, EntryTypes, Flights
  <2> QED
    BY <1>1, <2>1, <2>2, SendsKeeps DEF Commit
<1>2. CASE Delete
  BY <1>2, Requests, SendsKeeps DEF Delete
<1>3. CASE SetPassword
  BY <1>3, Requests, SendsKeeps DEF SetPassword
<1>4. ASSUME NEW keys \in SUBSET Keys, Fetch(keys) PROVE EntryInv'
  <2>1. PICK request : request = [Flight("fetch") EXCEPT !.keys = keys]
    OBVIOUS
  <2>2. request \in Flights
    BY <2>1, Requests DEF Flights
  <2> QED
    BY <1>4, <2>1, <2>2, SendsKeeps DEF Fetch
<1>5. ASSUME NEW v \in Values, Move(v) PROVE EntryInv'
  <2>1. PICK request : request = [Flight("move") EXCEPT !.to = v]
    OBVIOUS
  <2>2. request \in Flights
    BY <2>1, Requests DEF Flights
  <2> QED
    BY <1>5, <2>1, <2>2, SendsKeeps DEF Move
<1> QED
  BY <1>1, <1>2, <1>3, <1>4, <1>5

LEMMA SambaStep ==
    ASSUME EntryInv, NEW v \in Values, SetSambaPassword(v) PROVE EntryInv'
<1>1. attributes \in Entries /\ Password \in Keys /\ journal \in Seq(Modifications)
  BY EntryAssumption DEF EntryInv, EntryTypes
<1>2. PICK m : m = <<"Replace", Password, {v}>>
  OBVIOUS
<1>3. m \in Modifications /\ m[1] = "Replace" /\ m[2] = Password /\ m[3] = {v}
  BY <1>1, <1>2 DEF Modifications
<1>4. PICK e : e = With(attributes, Password, {v})
  OBVIOUS
<1>5. e \in Entries /\ \A k \in Keys : Of(e, k) = IF k = Password THEN {v} ELSE Of(attributes, k)
  BY <1>1, <1>4, WithDoes
<1>6. \A k \in Keys : Of(e, k) = Effect(Of(attributes, k), m, k)
  BY <1>3, <1>5 DEF Effect
<1>7. /\ attributes' = e /\ journal' = Append(journal, m) /\ Len(journal) < MaxJournal
      /\ flight' = [Flight("modify") EXCEPT !.mods = journal']
      /\ UNCHANGED <<state, name, remote, server, there, stale, others>>
  BY <1>2, <1>4 DEF SetSambaPassword
<1>11. astray \subseteq astray' /\ astray' \subseteq Keys
  BY <1>1, PastKeeps DEF SetSambaPassword
<1>8. JournalInv'
  BY <1>3, <1>5, <1>6, <1>7, <1>11, JournalFurther
<1>9. journal' \in Seq(Modifications) /\ Len(journal') = Len(journal) + 1 /\ Len(journal') <= MaxJournal
  BY <1>1, <1>3, <1>7, EntryAssumption
<1>10. flight' \in Flights
  BY <1>7, <1>9, Requests DEF Flights
<1> QED
  BY <1>5, <1>7, <1>8, <1>9, <1>10, <1>11 DEF EntryInv, EntryTypes

-----------------------------------------------------------------------------
(* Answers, the server and its other clients.                              *)

LEMMA NoFlight == None.op = "none" /\ None \notin Flights
BY DEF None, Flights

\* What the server has after a modification that it does.
LEMMA ServerHas ==
    ASSUME EntryInv, NEW after, after = Delta!Patched(server, journal), after # Delta!Raised
    PROVE  /\ Shown(after) \in Entries
           /\ \A k \in Keys :
                /\ k \notin astray /\ Of(server, k) = Of(remote, k) => Of(Shown(after), k) = Of(attributes, k)
                /\ k \notin Touched(journal) => Of(Shown(after), k) = Of(server, k)
<1>1. server \in Entries /\ JournalDoes(server)
  BY DEF EntryInv, EntryTypes, JournalInv
<1>2. /\ after \in Entries
      /\ \A k \in Keys :
           /\ k \notin astray /\ Of(server, k) = Of(remote, k) => Of(after, k) = Of(attributes, k)
           /\ k \notin Touched(journal) => Of(after, k) = Of(server, k)
  BY <1>1 DEF JournalDoes
<1> QED
  BY <1>2, ShownDoes

\* A modification makes of an entry an entry, or nothing.
LEMMA PatchedIsEntry ==
    ASSUME NEW e \in Entries, NEW mods \in Seq(Modifications)
    PROVE  Delta!Patched(e, mods) \in Entries \cup {Delta!Raised}
<1> DEFINE T == {n \in 0..Len(mods) :
                   Delta!Patched(e, SubSeq(mods, 1, n)) \notin Entries \cup {Delta!Raised}}
<1>1. Len(mods) \in Nat
  OBVIOUS
<1>2. T = {}
  <2> SUFFICES ASSUME T # {} PROVE FALSE
    OBVIOUS
  <2>1. PICK n \in T : \A i \in T : n <= i
    <3>1. T \subseteq Nat
      OBVIOUS
    <3> HIDE DEF T
    <3> QED
      BY <3>1, LeastNumber
  <2>2. n \in 0..Len(mods) /\ Delta!Patched(e, SubSeq(mods, 1, n)) \notin Entries \cup {Delta!Raised}
    OBVIOUS
  <2>3. CASE n = 0
    <3>1. SubSeq(mods, 1, 0) = <<>>
      OBVIOUS
    <3> QED
      BY <2>2, <2>3, <3>1, PatchedNot
  <2>4. CASE n # 0
    <3>1. n - 1 \in 0..Len(mods) /\ n \in 1..Len(mods) /\ ~(n <= n - 1)
      BY <2>2, <2>4
    <3>2. Delta!Patched(e, SubSeq(mods, 1, n - 1)) \in Entries \cup {Delta!Raised}
      BY <2>1, <3>1
    <3>3. /\ SubSeq(mods, 1, n - 1) \in Seq(Modifications) /\ mods[n] \in Modifications
          /\ SubSeq(mods, 1, n) = Append(SubSeq(mods, 1, n - 1), mods[n])
      BY <3>1
    <3> HIDE DEF T
    <3>4. Delta!Patched(e, SubSeq(mods, 1, n))
            = Delta!Modified(Delta!Patched(e, SubSeq(mods, 1, n - 1)), mods[n])
      BY <3>3, PatchedFurther
    <3> QED
      BY <2>2, <3>2, <3>3, <3>4, ModifiedDoes, RaisedStays
  <2> QED
    BY <2>3, <2>4
<1>3. Len(mods) \in 0..Len(mods) /\ SubSeq(mods, 1, Len(mods)) = mods
  BY <1>1
<1> QED
  BY <1>2, <1>3

LEMMA FetchedDoes ==
    ASSUME EntryInv, FetchDone
    PROVE  /\ remote' \in Entries /\ flight \in Flights
           /\ astray' \subseteq Keys
           /\ flight.keys # {} => astray \subseteq astray'
           /\ flight.keys = {} => /\ stale' = flight.since
                                  /\ \A k \in Keys : Of(remote', k) = Of(flight.found, k)
           /\ flight.keys # {} =>
                /\ stale' = flight.since \cup (stale \ (flight.keys \cap DOMAIN flight.found))
                /\ \A k \in Keys : Of(remote', k) = IF k \in flight.keys \cap DOMAIN flight.found
                                                    THEN Of(flight.found, k) ELSE Of(remote, k)
<1>1. flight \in Flights /\ flight.found \in Entries /\ remote \in Entries
  BY NoFlight DEF EntryInv, EntryTypes, FetchDone, Fetched, HasCome, Flights
<1>2. PICK found : found = flight.found
  OBVIOUS
<1>3. PICK wanted : wanted = IF flight.keys = {} THEN DOMAIN found ELSE flight.keys \cap DOMAIN found
  OBVIOUS
<1>4. PICK kept : kept = IF flight.keys = {} THEN {} ELSE DOMAIN remote
  OBVIOUS
<1>5. /\ remote' = [k \in wanted \cup kept |-> IF k \in wanted THEN found[k] ELSE remote[k]]
      /\ stale' = flight.since \cup (IF flight.keys = {} THEN {} ELSE stale \ wanted)
  BY <1>2, <1>3, <1>4 DEF FetchDone, Fetched
<1>11. /\ flight.keys = {} => astray' = {}
       /\ flight.keys # {} => \E twofold \in SUBSET (wanted \cap kept) : MayBeTwofold(twofold)
  BY <1>2, <1>3, <1>4 DEF FetchDone, Fetched
<1>6. /\ remote' = [k \in DOMAIN remote' |-> remote'[k]] /\ DOMAIN remote' = wanted \cup kept
      /\ \A k \in DOMAIN remote' : remote'[k] = IF k \in wanted THEN found[k] ELSE remote[k]
  BY <1>5
<1>7. /\ DOMAIN found \subseteq Keys /\ \A k \in DOMAIN found : found[k] \in SUBSET Values
      /\ DOMAIN remote \subseteq Keys /\ \A k \in DOMAIN remote : remote[k] \in SUBSET Values
  BY <1>1, <1>2, EntryFacts
<1>8. remote' \in Entries
  <2>1. \A k \in DOMAIN remote' : k \in Keys /\ remote'[k] \in SUBSET Values
    BY <1>3, <1>4, <1>6, <1>7
  <2> QED
    BY <1>6, <2>1, EntryFacts
<1>12. astray' \subseteq Keys /\ (flight.keys # {} => astray \subseteq astray')
  <2>1. wanted \cap kept \subseteq Keys /\ astray \subseteq Keys
    BY <1>3, <1>4, <1>7 DEF EntryInv, EntryTypes
  <2> QED
    BY <1>11, <2>1 DEF MayBeTwofold, PastJournal
<1>9. CASE flight.keys = {}
  <2>1. \A k \in Keys : Of(remote', k) = Of(found, k)
    BY <1>3, <1>4, <1>6, <1>9 DEF Of
  <2> QED
    BY <1>1, <1>2, <1>5, <1>8, <1>9, <1>12, <2>1
<1>10. CASE flight.keys # {}
  <2>1. \A k \in Keys : Of(remote', k) = IF k \in wanted THEN Of(found, k) ELSE Of(remote, k)
    BY <1>3, <1>4, <1>6, <1>10 DEF Of
  <2> QED
    BY <1>1, <1>2, <1>3, <1>5, <1>8, <1>10, <1>12, <2>1
<1> QED
  BY <1>9, <1>10

LEMMA AnswerStep ==
    EntryInv /\ (CommitDone \/ FetchDone \/ MoveDone \/ OtherDone \/ Refused \/ ConnectionLost)
      => EntryInv'
<1> SUFFICES ASSUME EntryInv,
                    CommitDone \/ FetchDone \/ MoveDone \/ OtherDone \/ Refused \/ ConnectionLost
             PROVE  EntryInv'
  OBVIOUS
<1>1. CASE CommitDone
  <2>1. JournalInv'
    BY <1>1, JournalEmpty DEF CommitDone, EntryInv, EntryTypes
  <2> QED
    BY <1>1, <2>1, EntryAssumption DEF CommitDone, Over, EntryInv, EntryTypes
<1>2. CASE FetchDone
  <2>1. remote' \in Entries /\ stale' \subseteq Keys /\ astray' \subseteq Keys
    BY <1>2, FetchedDoes DEF EntryInv, EntryTypes, Flights
  <2>2. attributes' = remote' /\ journal' = <<>>
    BY <1>2 DEF FetchDone, Fetched, Undone
  <2>3. JournalInv'
    BY <2>1, <2>2, JournalEmpty
  <2> QED
    BY <1>2, <2>1, <2>2, <2>3, EntryAssumption DEF FetchDone, Fetched, Over, EntryInv, EntryTypes
<1>3. CASE MoveDone
  <2>1. flight \in Flights
    BY <1>3, NoFlight DEF MoveDone, HasCome, EntryInv, EntryTypes
  <2>2. flight.to \in Values
    BY <2>1 DEF Flights
  <2>3. JournalInv'
    BY <1>3, SameJournal DEF MoveDone, EntryInv
  <2> QED
    BY <1>3, <2>2, <2>3 DEF MoveDone, Over, EntryInv, EntryTypes
<1>4. CASE OtherDone \/ Refused
  <2>1. UNCHANGED <<program, stale, server, there, others, astray>> /\ flight' = None
    BY <1>4 DEF OtherDone, Refused, Over
  <2>2. JournalInv'
    BY <2>1, SameJournal DEF EntryInv, program
  <2> QED
    BY <2>1, <2>2 DEF EntryInv, EntryTypes, program
<1>5. CASE ConnectionLost
  <2>1. UNCHANGED <<program, server, there, others, astray>> /\ flight' = None
    BY <1>5 DEF ConnectionLost, Over
  <2>2. flight \in Flights
    BY <1>5 DEF ConnectionLost, EntryInv, EntryTypes
  <2>3. flight.mods \in Seq(Modifications)
    BY <2>2 DEF Flights
  <2>4. \A i \in DOMAIN flight.mods : flight.mods[i][2] \in Keys
    BY <2>3 DEF Modifications
  <2>5. stale' \subseteq Keys
    BY <1>5, <2>4, EntryAssumption DEF ConnectionLost, EntryInv, EntryTypes
  <2>6. JournalInv'
    BY <2>1, SameJournal DEF EntryInv, program
  <2> QED
    BY <2>1, <2>5, <2>6 DEF EntryInv, EntryTypes, program
<1> QED
  BY <1>1, <1>2, <1>3, <1>4, <1>5

\* What happens to the server and to the request leaves the program alone.
LEMMA ServerKeeps ==
    ASSUME EntryInv, UNCHANGED <<program, astray>>, server' \in Entries, there' \in Values,
           flight' \in Flights \cup {None}, stale' \subseteq Keys, others' \in 0..MaxOthers
    PROVE  EntryInv'
<1>1. JournalInv'
  BY SameJournal DEF EntryInv, program
<1> QED
  BY <1>1 DEF EntryInv, EntryTypes, program

LEMMA ServesStep ==
    ASSUME EntryInv,
           \/ ServerModifies \/ ServerReads \/ ServerMoves \/ ServerDoes \/ ServerRefuses
           \/ \E k \in Keys, held \in SUBSET Values : OthersWrite(k, held)
    PROVE  EntryInv'
<1>1. /\ server \in Entries /\ there \in Values /\ stale \subseteq Keys /\ others \in 0..MaxOthers
      /\ flight # None => flight \in Flights
  BY DEF EntryInv, EntryTypes
<1>2. CASE ServerModifies
  <2>1. flight \in Flights
    BY <1>1, <1>2, NoFlight DEF ServerModifies, HasCome
  <2>2. PICK after : after = Delta!Patched(server, flight.mods) /\ after # Delta!Raised /\ server' = Shown(after)
    BY <1>2 DEF ServerModifies
  <2>3. after \in Entries
    BY <1>1, <2>1, <2>2, PatchedIsEntry DEF Flights
  <2>4. server' \in Entries
    BY <2>2, <2>3, ShownDoes
  <2>5. flight' \in Flights
    BY <1>2, <2>1 DEF ServerModifies, Flights
  <2> QED
    BY <1>1, <1>2, <2>4, <2>5, ServerKeeps DEF ServerModifies
<1>3. CASE ServerReads
  <2>1. flight \in Flights
    BY <1>1, <1>3, NoFlight DEF ServerReads, HasCome
  <2>2. flight' \in Flights
    BY <1>1, <1>3, <2>1 DEF ServerReads, Flights
  <2> QED
    BY <1>1, <1>3, <2>2, ServerKeeps DEF ServerReads
<1>4. CASE ServerMoves
  <2>1. flight \in Flights
    BY <1>1, <1>4, NoFlight DEF ServerMoves, HasCome
  <2>2. flight' \in Flights /\ flight.to \in Values
    BY <1>4, <2>1 DEF ServerMoves, Flights
  <2>3. PICK held : held = (Of(server, RDN) \ {there}) \cup {flight.to}
    OBVIOUS
  <2>4. held \in SUBSET Values /\ RDN \in Keys
    BY <1>1, <2>2, <2>3, OfValues, EntryAssumption
  <2>5. server' \in Entries
    BY <1>1, <1>4, <2>3, <2>4, WithDoes DEF ServerMoves
  <2> QED
    BY <1>1, <1>4, <2>2, <2>4, <2>5, ServerKeeps DEF ServerMoves
<1>5. CASE ServerDoes
  <2>1. flight \in Flights
    BY <1>1, <1>5, NoFlight DEF ServerDoes, HasCome
  <2>2. flight' \in Flights
    BY <1>5, <2>1 DEF ServerDoes, Flights
  <2> QED
    BY <1>1, <1>5, <2>2, ServerKeeps DEF ServerDoes
<1>6. CASE ServerRefuses
  <2>1. flight \in Flights
    BY <1>1, <1>6 DEF ServerRefuses
  <2>2. flight' \in Flights
    BY <1>6, <2>1 DEF ServerRefuses, Flights
  <2> QED
    BY <1>1, <1>6, <2>2, ServerKeeps DEF ServerRefuses
<1>7. ASSUME NEW k \in Keys, NEW held \in SUBSET Values, OthersWrite(k, held) PROVE EntryInv'
  <2>1. server' \in Entries
    BY <1>1, <1>7, WithDoes, ShownDoes DEF OthersWrite
  <2>2. others' \in 0..MaxOthers /\ stale' \subseteq Keys
    BY <1>1, <1>7, EntryAssumption DEF OthersWrite
  <2>3. flight' \in Flights \cup {None}
    <3>1. CASE flight = None
      BY <1>7, <3>1 DEF OthersWrite
    <3>2. CASE flight # None
      <4>1. PICK s : s = IF flight.at = "done" THEN flight.since \cup {k} ELSE flight.since
        OBVIOUS
      <4>2. flight' = [flight EXCEPT !.since = s]
        BY <1>7, <3>2, <4>1 DEF OthersWrite
      <4>3. s \in SUBSET Keys /\ flight \in Flights
        BY <1>1, <3>2, <4>1 DEF Flights
      <4> QED
        BY <4>2, <4>3 DEF Flights
    <3> QED
      BY <3>1, <3>2
  <2> QED
    BY <1>1, <1>7, <2>1, <2>2, <2>3, ServerKeeps DEF OthersWrite
<1> QED
  BY <1>2, <1>3, <1>4, <1>5, <1>6, <1>7

LEMMA EntryStep == EntryInv /\ [EntryNext]_entryVars => EntryInv'
<1> SUFFICES ASSUME EntryInv, [EntryNext]_entryVars PROVE EntryInv'
  OBVIOUS
<1>1. Sets \subseteq SUBSET Values
  BY DEF Sets
<1>2. CASE UNCHANGED entryVars
  BY <1>2, ServerKeeps DEF entryVars, EntryInv, EntryTypes
<1>3. ASSUME NEW k \in Keys, NEW v \in Values, NEW kind,
             AddValue(k, v) \/ RemoveValue(k, v, kind) \/ Clear(k, kind) \/ DelItem(k, kind)
      PROVE  EntryInv'
  BY <1>3, AddValueStep, RemoveValueStep, ClearStep, DelItemStep
<1>4. ASSUME NEW k \in Keys, NEW held \in Sets, NEW kind,
             \/ SetItem(k, held, kind) \/ SetIterator(k, held, kind)
             \/ OthersWrite(k, held) \/ ChangeUnjournalled(k, held)
      PROVE  EntryInv'
  BY <1>1, <1>4, SetItemStep, SetIteratorStep, ServesStep, ChangeUnjournalledStep
<1>5. ASSUME NEW k \in Keys, NEW class \in {"Add", "Delete", "Replace"},
             NEW held \in Sets, NEW shown \in Sets,
             ChangeUnseen(k, class, held) \/ ChangeAstray(k, class, held, shown)
      PROVE  EntryInv'
  BY <1>1, <1>5, ChangeUnseenStep, ChangeAstrayStep
<1>6. ASSUME NEW keys \in {{}} \cup {{k} : k \in Keys}, Fetch(keys) PROVE EntryInv'
  <2>1. keys \in SUBSET Keys
    OBVIOUS
  <2> QED
    BY <1>6, <2>1, RequestStep
<1>7. ASSUME NEW v \in Values, Move(v) \/ SetSambaPassword(v) PROVE EntryInv'
  BY <1>7, RequestStep, SambaStep
<1>8. CASE \/ \E k \in Keys, v \in Values : AddValue(k, v)
           \/ \E k \in Keys, v \in Values, kind \in Strings : RemoveValue(k, v, kind)
           \/ \E k \in Keys, kind \in Strings : Clear(k, kind) \/ DelItem(k, kind)
  BY <1>3, <1>8, EntryAssumption
<1>11. CASE \/ \E k \in Keys, vs \in Sets, kind \in Strings : SetItem(k, vs, kind) \/ SetIterator(k, vs, kind)
            \/ \E k \in Keys, vs \in Sets : OthersWrite(k, vs) \/ ChangeUnjournalled(k, vs)
  BY <1>4, <1>11
<1>12. CASE \E k \in Keys, class \in {"Add", "Delete", "Replace"}, vs, shown \in Sets :
              ChangeUnseen(k, class, vs) \/ ChangeAstray(k, class, vs, shown)
  BY <1>5, <1>12
<1>9. CASE \/ Undo \/ Commit \/ Delete \/ SetPassword
           \/ \E keys \in {{}} \cup {{k} : k \in Keys} : Fetch(keys)
           \/ \E v \in Values : Move(v) \/ SetSambaPassword(v)
  BY <1>6, <1>7, <1>9, UndoStep, RequestStep
<1>10. CASE \/ CommitDone \/ FetchDone \/ MoveDone \/ OtherDone \/ Refused \/ ConnectionLost
            \/ ServerModifies \/ ServerReads \/ ServerMoves \/ ServerDoes \/ ServerRefuses
  BY <1>10, AnswerStep, ServesStep
<1> QED
  BY <1>2, <1>8, <1>9, <1>10, <1>11, <1>12 DEF EntryNext

LEMMA InitEntry == EntryInit => EntryInv
<1> SUFFICES ASSUME EntryInit PROVE EntryInv
  OBVIOUS
<1>1. server \in Entries
  BY DEF EntryInit, Entries
<1>2. EntryTypes
  BY <1>1, EntryAssumption DEF EntryInit, EntryTypes
<1>3. \A entry : Delta!Patched(entry, journal) = entry
  BY PatchedNot DEF EntryInit
<1>4. ASSUME NEW entry \in Entries PROVE JournalDoes(entry)
  BY <1>3 DEF JournalDoes, EntryInit
<1>5. Delta!Patched(remote, journal) # Delta!Raised
  BY <1>1, <1>3, NoEntryIsRaised DEF EntryInit
<1> QED
  BY <1>2, <1>4, <1>5 DEF EntryInv, JournalInv

\* The journal, done to what the server had, makes what the program sees, of
\* every attribute but those it has changed past the journal or has in two kinds
\* since they were last fetched, however many changes and requests there are and
\* whether or not the program waits for them (every change of the program, undo,
\* and what is done when an answer comes).
THEOREM JournalsAreTrue == EntrySpec => []JournalMakesAttributes
<1>1. EntryInv => JournalMakesAttributes
  <2> SUFFICES ASSUME EntryInv PROVE JournalMakesAttributes
    OBVIOUS
  <2>1. EntryTypeOK
    <3>1. \A e \in {attributes, remote, server} : \A k \in DOMAIN e : k \in Keys /\ e[k] \subseteq Values
      BY EntryFacts DEF EntryInv, EntryTypes
    <3> QED
      BY <3>1 DEF EntryInv, EntryTypes, EntryTypeOK
  <2>2. remote \in Entries /\ JournalDoes(remote)
    BY DEF EntryInv, EntryTypes, JournalInv
  <2>3. Delta!Patched(remote, journal) # Delta!Raised =>
          \A k \in Keys \ astray : Of(Delta!Patched(remote, journal), k) = Of(attributes, k)
    BY <2>2 DEF JournalDoes
  <2> QED
    BY <2>1, <2>3 DEF JournalMakesAttributes, EntryInv, JournalInv, MayRaise, May
<1> QED
  BY <1>1, InitEntry, EntryStep, PTL DEF EntrySpec

-----------------------------------------------------------------------------
(* What is known of the server.                                            *)

\* While nothing is under way.
LEMMA Rests ==
    ASSUME FlightInv, flight = None, state = "ready"
    PROVE  \A k \in Keys \ (stale \cup astray) : Of(remote, k) = Of(server, k)
BY NoFlight DEF FlightInv, HasCome, Known

LEMMA RestsThen ==
    ASSUME flight' = None,
           state' = "ready" => \A k \in Keys \ (stale' \cup astray') : Of(remote', k) = Of(server', k)
    PROVE  FlightInv'
BY NoFlight DEF FlightInv, HasCome, Known

\* While a request is under way that does nothing to the attributes, or has not
\* come to the server.
LEMMA GoesOn ==
    ASSUME FlightInv, ~HasCome("modify", "done"), flight'.op # "none",
           state' = "ready" => state = "ready",
           state' = "ready" =>
              /\ \A k \in Keys : Of(remote', k) = Of(remote, k)
              /\ \A k \in Keys \ (stale' \cup astray') : k \notin stale \cup astray /\ Of(server', k) = Of(server, k),
           flight'.op = "modify" => flight'.at # "done" /\ flight'.mods = journal',
           ~(flight'.op = "fetch" /\ flight'.at = "done")
    PROVE  FlightInv'
BY DEF FlightInv, HasCome, Known

\* A change of the program that has nothing under way, or that goes astray.
LEMMA StaysFlight ==
    ASSUME FlightInv, flight = None, UNCHANGED <<state, remote, flight, server, stale>>,
           astray \subseteq astray'
    PROVE  FlightInv'
<1>1. state = "ready" => \A k \in Keys \ (stale \cup astray) : Of(remote, k) = Of(server, k)
  BY Rests
<1>2. state' = "ready" => \A k \in Keys \ (stale' \cup astray') : Of(remote', k) = Of(server', k)
  BY <1>1
<1> QED
  BY <1>2, RestsThen

LEMMA EditFlight ==
    ASSUME ~Overlap, FlightInv, NEW e, NEW m, Edit(e, m), astray \subseteq astray'
    PROVE  FlightInv'
BY StaysFlight DEF Edit, Idle

LEMMA UndoFlight == ASSUME ~Overlap, FlightInv, Undo PROVE FlightInv'
BY StaysFlight DEF Undo, MayGoOn, Idle

LEMMA SendsFlight ==
    ASSUME FlightInv, NEW request, Sends(request), request.op # "none", request.at = "sent",
           request.op = "modify" => request.mods = journal, state' \in {state, "deleted"}
    PROVE  FlightInv'
<1>1. state = "ready" /\ flight = None /\ flight' = request
      /\ UNCHANGED <<remote, journal, server, stale, astray>>
  BY DEF Sends, MayGoOn
<1>2. ~HasCome("modify", "done")
  BY <1>1, NoFlight DEF HasCome
<1>3. /\ \A k \in Keys : Of(remote', k) = Of(remote, k)
      /\ \A k \in Keys \ (stale' \cup astray') : k \notin stale \cup astray /\ Of(server', k) = Of(server, k)
  BY <1>1
<1> QED
  BY <1>1, <1>2, <1>3, GoesOn

LEMMA RequestFlight ==
    ASSUME FlightInv,
           \/ Commit \/ Delete \/ SetPassword
           \/ \E keys \in SUBSET Keys : Fetch(keys)
           \/ \E v \in Values : Move(v)
    PROVE  FlightInv'
<1>1. CASE Commit
  <2>1. PICK request : request = [Flight("modify") EXCEPT !.mods = journal]
    OBVIOUS
  <2>2. request.op = "modify" /\ request.at = "sent" /\ request.mods = journal
    BY <2>1 DEF Flight
  <2> QED
    BY <1>1, <2>1, <2>2, SendsFlight DEF Commit
<1>2. CASE Delete
  <2>1. Flight("delete").op = "delete" /\ Flight("delete").at = "sent"
    BY DEF Flight
  <2> QED
    BY <1>2, <2>1, SendsFlight DEF Delete
<1>3. CASE SetPassword
  <2>1. Flight("password").op = "password" /\ Flight("password").at = "sent"
    BY DEF Flight
  <2> QED
    BY <1>3, <2>1, SendsFlight DEF SetPassword
<1>4. ASSUME NEW keys \in SUBSET Keys, Fetch(keys) PROVE FlightInv'
  <2>1. PICK request : request = [Flight("fetch") EXCEPT !.keys = keys]
    OBVIOUS
  <2>2. request.op = "fetch" /\ request.at = "sent"
    BY <2>1 DEF Flight
  <2> QED
    BY <1>4, <2>1, <2>2, SendsFlight DEF Fetch
<1>5. ASSUME NEW v \in Values, Move(v) PROVE FlightInv'
  <2>1. PICK request : request = [Flight("move") EXCEPT !.to = v]
    OBVIOUS
  <2>2. request.op = "move" /\ request.at = "sent"
    BY <2>1 DEF Flight
  <2> QED
    BY <1>5, <2>1, <2>2, SendsFlight DEF Move
<1> QED
  BY <1>1, <1>2, <1>3, <1>4, <1>5

\* Once the password has been changed, the hashes are committed.
LEMMA SambaFlight == ASSUME EntryInv, FlightInv, NEW v \in Values, SetSambaPassword(v) PROVE FlightInv'
<1>1. /\ ~HasCome("modify", "done") /\ UNCHANGED <<state, remote, server, stale>>
      /\ flight'.op = "modify" /\ flight'.at = "sent" /\ flight'.mods = journal'
      /\ astray \subseteq astray'
  BY EntryAssumption, PastKeeps DEF SetSambaPassword, HasCome, Flight
<1>2. /\ \A k \in Keys : Of(remote', k) = Of(remote, k)
      /\ \A k \in Keys \ (stale' \cup astray') : k \notin stale \cup astray /\ Of(server', k) = Of(server, k)
  BY <1>1
<1> QED
  BY <1>1, <1>2, GoesOn

\* When an answer comes, or does not any more.
LEMMA AnswerFlight ==
    ASSUME EntryInv, FlightInv,
           CommitDone \/ FetchDone \/ MoveDone \/ OtherDone \/ Refused \/ ConnectionLost
    PROVE  FlightInv'
<1>1. flight' = None /\ UNCHANGED <<state, server>>
  BY DEF CommitDone, FetchDone, Fetched, MoveDone, OtherDone, Refused, ConnectionLost, Over, program
<1> SUFFICES ASSUME state = "ready", NEW k \in Keys \ (stale' \cup astray')
             PROVE  Of(remote', k) = Of(server', k)
  BY <1>1, RestsThen
<1>2. CASE CommitDone
  <2>1. /\ HasCome("modify", "done") /\ remote' = attributes /\ UNCHANGED <<stale, astray, server>>
        /\ k \in Keys \ (stale \cup astray)
    BY <1>1, <1>2 DEF CommitDone
  <2>2. Known(k, attributes)
    BY <2>1 DEF FlightInv
  <2> QED
    BY <2>1, <2>2 DEF Known
<1>3. CASE FetchDone
  <2>1. \A l \in Keys \ flight.since : Of(flight.found, l) = Of(server, l)
    BY <1>3 DEF FetchDone, Fetched, FlightInv, Known
  <2>2. \A l \in Keys \ (stale \cup astray) : Of(remote, l) = Of(server, l)
    BY <1>3 DEF FetchDone, Fetched, FlightInv, HasCome, Known
  <2>3. CASE flight.keys = {}
    BY <1>1, <1>3, <2>1, <2>3, FetchedDoes
  <2>4. CASE flight.keys # {}
    <3>1. /\ k \notin flight.since
          /\ k \notin flight.keys \cap DOMAIN flight.found => k \notin stale \cup astray
      BY <1>3, <2>4, FetchedDoes
    <3> QED
      BY <1>1, <1>3, <2>1, <2>2, <2>4, <3>1, FetchedDoes
  <2> QED
    BY <2>3, <2>4
<1>4. CASE MoveDone \/ OtherDone \/ Refused
  <2>1. UNCHANGED <<remote, stale, astray>> /\ ~HasCome("modify", "done")
    BY <1>4 DEF MoveDone, OtherDone, Refused, HasCome, program
  <2> QED
    BY <1>1, <2>1 DEF FlightInv, Known
<1>5. CASE ConnectionLost
  <2>1. /\ UNCHANGED remote /\ k \notin stale \cup astray
        /\ k \notin {flight.mods[i][2] : i \in DOMAIN flight.mods}
    BY <1>5 DEF ConnectionLost, program
  <2>2. CASE HasCome("modify", "done")
    <3>1. flight.mods = journal
      BY <2>2 DEF FlightInv, HasCome
    <3>2. k \notin Touched(journal)
      BY <2>1, <3>1 DEF Touched
    <3>3. Known(k, remote)
      BY <2>1, <2>2, <3>2 DEF FlightInv
    <3> QED
      BY <1>1, <2>1, <3>3 DEF Known
  <2>3. CASE ~HasCome("modify", "done")
    BY <1>1, <2>1, <2>3 DEF FlightInv, Known
  <2> QED
    BY <2>2, <2>3
<1> QED
  BY <1>2, <1>3, <1>4, <1>5

LEMMA ModifiesFlight == ASSUME EntryInv, FlightInv, ServerModifies PROVE FlightInv'
<1>1. flight \in Flights
  BY NoFlight DEF ServerModifies, HasCome, EntryInv, EntryTypes
<1>2. /\ flight.op = "modify" /\ flight.at = "sent" /\ UNCHANGED <<program, stale, astray>>
      /\ flight'.op = "modify" /\ flight'.at = "done" /\ flight'.mods = flight.mods
  BY <1>1 DEF ServerModifies, HasCome, Flights
<1> SUFFICES ASSUME state = "ready" PROVE FlightInv'
  BY <1>2 DEF FlightInv, program
<1>3. flight.mods = journal /\ \A k \in Keys \ (stale \cup astray) : Of(remote, k) = Of(server, k)
  BY <1>2 DEF FlightInv, HasCome, Known
<1>4. PICK after : after = Delta!Patched(server, journal) /\ after # Delta!Raised /\ server' = Shown(after)
  BY <1>3 DEF ServerModifies
<1>5. \A k \in Keys :
        /\ k \notin astray /\ Of(server, k) = Of(remote, k) => Of(server', k) = Of(attributes, k)
        /\ k \notin Touched(journal) => Of(server', k) = Of(server, k)
  BY <1>4, ServerHas
<1>6. UNCHANGED <<attributes, remote, journal, stale, astray>>
  BY <1>2 DEF program
<1>7. \A k \in Keys \ (stale' \cup astray') :
        /\ Of(attributes', k) = Of(server', k)
        /\ k \notin Touched(journal)' => Of(remote', k) = Of(server', k)
  BY <1>3, <1>5, <1>6 DEF Touched
<1> QED
  BY <1>2, <1>3, <1>6, <1>7 DEF FlightInv, HasCome, Known

LEMMA ServerFlight ==
    ASSUME EntryInv, FlightInv,
           ServerReads \/ ServerMoves \/ ServerDoes \/ ServerRefuses
    PROVE  FlightInv'
<1>1. flight \in Flights
  BY NoFlight DEF ServerReads, ServerMoves, ServerDoes, ServerRefuses, HasCome, EntryInv, EntryTypes
<1>2. UNCHANGED <<program, astray>> /\ ~HasCome("modify", "done")
  BY <1>1 DEF ServerReads, ServerMoves, ServerDoes, ServerRefuses, HasCome
<1>3. UNCHANGED <<state, remote, journal, astray>>
  BY <1>2 DEF program
<1>4. CASE ServerReads
  <2>1. /\ flight'.op = "fetch" /\ flight'.at = "done" /\ flight'.found = server
        /\ UNCHANGED <<server, stale>>
    BY <1>1, <1>4 DEF ServerReads, HasCome, Flights
  <2> QED
    BY <1>2, <1>3, <2>1 DEF FlightInv, HasCome, Known
<1>5. CASE ServerMoves
  <2>1. /\ flight'.op = "move" /\ stale' = stale \cup {RDN}
        /\ server' = With(server, RDN, (Of(server, RDN) \ {there}) \cup {flight.to})
    BY <1>1, <1>5 DEF ServerMoves, HasCome, Flights
  <2>2. PICK held : held = (Of(server, RDN) \ {there}) \cup {flight.to}
    OBVIOUS
  <2>3. held \in SUBSET Values /\ RDN \in Keys /\ server \in Entries
    BY <1>1, <2>2, OfValues, EntryAssumption DEF EntryInv, EntryTypes, Flights
  <2>4. \A k \in Keys : Of(server', k) = IF k = RDN THEN held ELSE Of(server, k)
    BY <2>1, <2>2, <2>3, WithDoes
  <2>5. /\ \A k \in Keys : Of(remote', k) = Of(remote, k)
        /\ \A k \in Keys \ (stale' \cup astray') : k \notin stale \cup astray /\ Of(server', k) = Of(server, k)
    BY <1>3, <2>1, <2>4
  <2> QED
    BY <1>2, <1>3, <2>1, <2>5, GoesOn
<1>6. CASE ServerDoes \/ ServerRefuses
  <2>1. /\ flight'.op # "none" /\ UNCHANGED <<server, stale>>
        /\ flight'.op = "modify" => flight'.at # "done"
        /\ flight'.op = flight.op /\ flight'.mods = flight.mods
        /\ ~(flight'.op = "fetch" /\ flight'.at = "done")
    BY <1>1, <1>6 DEF ServerDoes, ServerRefuses, HasCome, Flights
  <2>2. /\ \A k \in Keys : Of(remote', k) = Of(remote, k)
        /\ \A k \in Keys \ (stale' \cup astray') : k \notin stale \cup astray /\ Of(server', k) = Of(server, k)
    BY <1>3, <2>1
  <2> QED
    BY <1>2, <1>3, <2>1, <2>2 DEF FlightInv, HasCome, Known
<1> QED
  BY <1>4, <1>5, <1>6

\* What others write is not known any more.
LEMMA OthersFlight ==
    ASSUME EntryInv, FlightInv, NEW key \in Keys, NEW held \in SUBSET Values, OthersWrite(key, held)
    PROVE  FlightInv'
<1>1. /\ UNCHANGED <<program, astray>> /\ stale' = stale \cup {key} /\ server \in Entries
      /\ server' = Shown(With(server, key, held))
  BY DEF OthersWrite, EntryInv, EntryTypes
<1>2. UNCHANGED <<state, attributes, remote, journal, astray>>
  BY <1>1 DEF program
<1>3. \A k \in Keys : k # key => Of(server', k) = Of(server, k)
  BY <1>1, WithDoes, ShownDoes
<1>4. CASE flight = None
  <2>1. flight' = None
    BY <1>4 DEF OthersWrite
  <2>2. state' = "ready" => \A k \in Keys \ (stale' \cup astray') : Of(remote', k) = Of(server', k)
    BY <1>1, <1>2, <1>3, <1>4, Rests
  <2> QED
    BY <2>1, <2>2, RestsThen
<1>5. CASE flight # None
  <2>1. flight \in Flights
    BY <1>5 DEF EntryInv, EntryTypes
  <2>2. PICK s : s = IF flight.at = "done" THEN flight.since \cup {key} ELSE flight.since
    OBVIOUS
  <2>3. flight' = [flight EXCEPT !.since = s]
    BY <1>5, <2>2 DEF OthersWrite
  <2>4. /\ flight'.op = flight.op /\ flight'.at = flight.at /\ flight'.mods = flight.mods
        /\ flight'.found = flight.found /\ flight'.since = s
    BY <2>1, <2>3 DEF Flights
  <2> SUFFICES ASSUME state = "ready" PROVE FlightInv'
    BY <1>2 DEF FlightInv
  <2>5. flight'.op = "modify" => flight'.mods = journal'
    BY <1>2, <2>4 DEF FlightInv
  <2>6. HasCome("modify", "done")' =>
           \A k \in Keys \ (stale' \cup astray') :
             /\ Of(attributes', k) = Of(server', k)
             /\ k \notin Touched(journal)' => Of(remote', k) = Of(server', k)
    BY <1>1, <1>2, <1>3, <2>4 DEF FlightInv, HasCome, Known, Touched
  <2>7. ~HasCome("modify", "done")' => \A k \in Keys \ (stale' \cup astray') : Of(remote', k) = Of(server', k)
    BY <1>1, <1>2, <1>3, <2>4 DEF FlightInv, HasCome, Known
  <2>8. HasCome("fetch", "done")' =>
           \A k \in Keys \ flight'.since : Of(flight'.found, k) = Of(server', k)
    BY <1>3, <2>2, <2>4 DEF FlightInv, HasCome, Known
  <2> QED
    BY <2>5, <2>6, <2>7, <2>8 DEF FlightInv, Known
<1> QED
  BY <1>4, <1>5

LEMMA FlightStep == ASSUME ~Overlap, EntryInv, FlightInv, [EntryNext]_entryVars PROVE FlightInv'
<1>1. Sets \subseteq SUBSET Values
  BY DEF Sets
<1>2. CASE UNCHANGED entryVars
  BY <1>2 DEF entryVars, program, FlightInv, HasCome, Known, Touched
<1>3. ASSUME NEW k \in Keys, NEW v \in Values, NEW kind,
             AddValue(k, v) \/ RemoveValue(k, v, kind) \/ Clear(k, kind) \/ DelItem(k, kind)
      PROVE  FlightInv'
  BY <1>3, EditFlight, PastKeeps DEF AddValue, RemoveValue, Clear, DelItem
<1>4. ASSUME NEW k \in Keys, NEW held \in Sets, NEW kind,
             \/ SetItem(k, held, kind) \/ SetIterator(k, held, kind)
             \/ OthersWrite(k, held) \/ ChangeUnjournalled(k, held)
      PROVE  FlightInv'
  <2>1. CASE SetItem(k, held, kind) \/ SetIterator(k, held, kind)
    BY <2>1, EditFlight, PastKeeps DEF SetItem, SetIterator
  <2>2. CASE OthersWrite(k, held)
    BY <1>1, <2>2, OthersFlight
  <2>3. CASE ChangeUnjournalled(k, held)
    BY <2>3, PastKeeps, StaysFlight DEF ChangeUnjournalled, Idle
  <2> QED
    BY <1>4, <2>1, <2>2, <2>3
<1>5. ASSUME NEW k \in Keys, NEW class \in {"Add", "Delete", "Replace"},
             NEW held \in Sets, NEW shown \in Sets,
             ChangeUnseen(k, class, held) \/ ChangeAstray(k, class, held, shown)
      PROVE  FlightInv'
  BY <1>5, EditFlight, PastKeeps DEF ChangeUnseen, ChangeAstray
<1>6. ASSUME NEW keys \in {{}} \cup {{k} : k \in Keys}, Fetch(keys) PROVE FlightInv'
  <2>1. keys \in SUBSET Keys
    OBVIOUS
  <2> QED
    BY <1>6, <2>1, RequestFlight
<1>7. ASSUME NEW v \in Values, Move(v) \/ SetSambaPassword(v) PROVE FlightInv'
  BY <1>7, RequestFlight, SambaFlight
<1>8. CASE \/ \E k \in Keys, v \in Values : AddValue(k, v)
           \/ \E k \in Keys, v \in Values, kind \in Strings : RemoveValue(k, v, kind)
           \/ \E k \in Keys, kind \in Strings : Clear(k, kind) \/ DelItem(k, kind)
  BY <1>3, <1>8, EntryAssumption
<1>11. CASE \/ \E k \in Keys, vs \in Sets, kind \in Strings : SetItem(k, vs, kind) \/ SetIterator(k, vs, kind)
            \/ \E k \in Keys, vs \in Sets : OthersWrite(k, vs) \/ ChangeUnjournalled(k, vs)
  BY <1>4, <1>11
<1>12. CASE \E k \in Keys, class \in {"Add", "Delete", "Replace"}, vs, shown \in Sets :
              ChangeUnseen(k, class, vs) \/ ChangeAstray(k, class, vs, shown)
  BY <1>5, <1>12
<1>9. CASE \/ Undo \/ Commit \/ Delete \/ SetPassword
           \/ \E keys \in {{}} \cup {{k} : k \in Keys} : Fetch(keys)
           \/ \E v \in Values : Move(v) \/ SetSambaPassword(v)
  BY <1>6, <1>7, <1>9, UndoFlight, RequestFlight
<1>10. CASE \/ CommitDone \/ FetchDone \/ MoveDone \/ OtherDone \/ Refused \/ ConnectionLost
            \/ ServerModifies \/ ServerReads \/ ServerMoves \/ ServerDoes \/ ServerRefuses
  BY <1>10, AnswerFlight, ModifiesFlight, ServerFlight
<1> QED
  BY <1>2, <1>8, <1>9, <1>10, <1>11, <1>12 DEF EntryNext

\* While nothing is under way a program that waits for its requests knows what
\* the server has of each attribute, unless others have written it, a commit of
\* it was lost, the entry has moved or the program has changed it past the
\* journal or has it in two kinds, since it was last fetched
\* (_commit_success, _cbFetch, _cbMoveDone, a connection that is lost). One that
\* does not wait may not: run entry's Overlap is FALSE for that reason.
THEOREM CopiesAreTrue == ASSUME ~Overlap PROVE EntrySpec => []RemoteIsTheServers
<1>1. EntryInit => FlightInv
  <2> SUFFICES ASSUME EntryInit PROVE FlightInv
    OBVIOUS
  <2>1. flight = None /\ remote = server
    BY DEF EntryInit
  <2> QED
    BY <2>1, NoFlight DEF FlightInv, HasCome, Known
<1>2. FlightInv => RemoteIsTheServers
  BY Rests DEF RemoteIsTheServers
<1>3. EntryInv /\ FlightInv /\ [EntryNext]_entryVars => FlightInv'
  BY FlightStep
<1> QED
  BY <1>1, <1>2, <1>3, InitEntry, EntryStep, PTL DEF EntrySpec
=============================================================================
