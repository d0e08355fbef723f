-------------------------- MODULE AppServerProofs --------------------------
(***************************************************************************)
(* What ApplicationServer promises for any number of requests, message ids *)
(* and entries: an operation that nobody has given up is found by its id,  *)
(* and nobody is left without an answer.                                   *)
(***************************************************************************)
EXTENDS AppServer, SequenceTheorems, TLAPS

ConnType ==
    /\ stream \in BOOLEAN /\ connected \in BOOLEAN /\ open \in BOOLEAN /\ tls \in BOOLEAN
    /\ stream => connected /\ open

OpsType ==
    /\ operations \in [Ids -> Ops \cup {Nobody}]
    /\ abandoned \subseteq Ops /\ told \subseteq Ops
    /\ posts \in [Ops -> SUBSET {"abandon", "disconnect"}]
    /\ msgid \in [Ops -> 0..MaxId]
    /\ pc \in [Ops -> {"absent", "returned", "cancelled"} \cup Live]

ReaderType ==
    /\ reader \in {"idle", "more", "inline", "canceling", "replying", "closing", "ended",
                   "raised", "crashed"}
    /\ owed \in Ops \cup {Nobody} /\ current \in Cancels \cup {Nobody}

LockType ==
    /\ at \in [Writers -> {"out", "lock", "tlslock", "sending", "tlssending", "shaking",
                           "closing"}]
    /\ writers \in Seq(Writers)

EnvType ==
    /\ closer \in {"none", "started", "done"} /\ peer \in BOOLEAN /\ unwanted \subseteq abandoned
    /\ entries \in [Ops -> 0..MaxEntries]
    /\ finals \in [Requests -> Nat] /\ late \in [Ops -> Nat]

TypeInv == ConnType /\ OpsType /\ ReaderType /\ LockType /\ EnvType

\* An operation writes while its application waits for that, and an entry that
\* is not yet out is one that it may still write.
WriteInv(p) ==
    /\ at[p] # "out" <=> pc[p] \in Writing
    /\ pc[p] = "entry" /\ at[p] \in {"lock", "tlslock", "sending", "tlssending"} =>
         entries[p] < MaxEntries
    /\ at[p] = "closing" => ~stream
    /\ at[p] = "shaking" /\ pc[p] # "entry" => finals[p] > 0

\* It is registered under its own id, while it runs.
RegisteredInv(p) == \A i \in Ids : operations[i] = p => msgid[p] = i /\ pc[p] \in Live

\* What is posted, told or refused is so for a reason.
ReasonInv(p) ==
    /\ "abandon" \in posts[p] => p \in abandoned
    /\ "disconnect" \in posts[p] => ~stream
    /\ p \in told => p \in abandoned \/ ~stream
    /\ pc[p] = "refused" => p \in abandoned \/ ~stream

\* What is over has been answered, or was given up, or the connection is going;
\* and one given up by a Cancel is answered, or is about to be.
OverInv(p) ==
    /\ p \notin Unbinds /\ pc[p] = "answered" => finals[p] > 0 \/ ~stream
    /\ p \notin Unbinds /\ pc[p] = "returned" => finals[p] > 0 \/ ~stream \/ p \in abandoned
    /\ p \in abandoned \ unwanted =>
         finals[p] > 0 \/ ~stream \/ (reader = "canceling" /\ owed = p)

\* The reader waits for a StartTLS, which nothing can give up therefore.
InlineInv(p) ==
    p \in StartTLS =>
      /\ p \notin abandoned
      /\ pc[p] \in Live => reader = "inline" /\ \A q \in StartTLS : pc[q] \in Live => q = p

\* Only what was on its way through the lock is written late.
LateInv(p) ==
    /\ late[p] <= 1
    /\ late[p] > 0 => p \in abandoned /\ at[p] \notin {"lock", "tlslock", "sending", "tlssending"}

OpInv ==
    \A p \in Ops : /\ WriteInv(p) /\ RegisteredInv(p) /\ ReasonInv(p)
                   /\ OverInv(p) /\ InlineInv(p) /\ LateInv(p)

\* What the reader writes is never held up by an upgrade: one is pending only
\* while the reader waits for the StartTLS that asked for it.
ReaderInv ==
    /\ reader = "canceling" => at[Reader] # "out" /\ owed \in Ops
    /\ at[Reader] # "out" => reader \in {"canceling", "replying"}
    /\ at[Reader] \in {"out", "lock", "sending", "closing"}
    /\ at[Reader] = "closing" => ~stream
    /\ connected /\ ~stream => reader = "closing"
    /\ tls /\ stream => \E s \in StartTLS : pc[s] \in {"asked", "raised"}

ServerInv == TypeInv /\ OpInv /\ ReaderInv

-----------------------------------------------------------------------------
\* With no id used twice, an operation that runs is the one its id finds until
\* it is given up.
FoundInv ==
    /\ \A p \in Ops : pc[p] = "absent" <=> msgid[p] = 0
    /\ \A p, q \in Ops : msgid[p] = msgid[q] /\ msgid[p] # 0 => p = q
    /\ \A p \in Ops : pc[p] \in Live /\ p \notin abandoned => operations[msgid[p]] = p

-----------------------------------------------------------------------------
(* The steps.                                                                *)

LEMMA InitServer == Init => ServerInv
<1> SUFFICES ASSUME Init PROVE ServerInv
  OBVIOUS
<1> USE DEF Init
<1>1. ConnType /\ ReaderType
  BY DEF ConnType, ReaderType
<1>2. OpsType
  BY ChoicesAssumption DEF OpsType
<1>3. LockType
  BY DEF LockType
<1>4. EnvType
  BY ChoicesAssumption DEF EnvType
<1>5. OpInv
  BY RequestsAssumption DEF OpInv, WriteInv, RegisteredInv, ReasonInv, OverInv, InlineInv,
     LateInv,
       Live, Writing, Writers
<1>6. ReaderInv
  BY DEF ReaderInv, Writers
<1> QED
  BY <1>1, <1>2, <1>3, <1>4, <1>5, <1>6 DEF ServerInv, TypeInv

\* Everything about one operation.
Fine(p) ==
    /\ WriteInv(p) /\ RegisteredInv(p) /\ ReasonInv(p) /\ OverInv(p) /\ InlineInv(p)
    /\ LateInv(p)

LEMMA FineIsOpInv == OpInv <=> \A p \in Ops : Fine(p)
BY DEF OpInv, Fine

\* The reader is no operation.
LEMMA ReaderIsApart == Reader \in Writers /\ Reader \notin Ops /\ Ops \subseteq Writers
BY RequestsAssumption DEF Writers

\* Whoever wants to write queues, and takes a pending upgrade along.
LEMMA Responding ==
    ASSUME TypeInv, NEW w \in Writers, Respond(w)
    PROVE  /\ LockType' /\ tls' = FALSE
           /\ at'[w] \in {"lock", "tlslock"} /\ (~tls => at'[w] = "lock")
           /\ \A v \in Writers \ {w} : at'[v] = at[v]
<1>1. LockType /\ ConnType
  BY DEF TypeInv
<1>2. writers' \in Seq(Writers)
  BY <1>1, AppendProperties DEF LockType, Respond
<1> QED
  BY <1>1, <1>2 DEF LockType, ConnType, Respond

\* Whoever has the lock gives it up.
LEMMA Leaving ==
    ASSUME TypeInv, NEW w \in Writers, HasTurn(w), Leave(w)
    PROVE  /\ LockType' /\ at'[w] = "out"
           /\ \A v \in Writers \ {w} : at'[v] = at[v]
<1>1. LockType /\ writers # <<>>
  BY DEF TypeInv, HasTurn
<1>2. writers' \in Seq(Writers)
  BY <1>1, HeadTailProperties DEF LockType, Leave
<1> QED
  BY <1>1, <1>2 DEF LockType, Leave

\* An operation that ends is registered no more, and a StartTLS lets the reader go.
LEMMA Ending ==
    ASSUME TypeInv, NEW o \in Ops, End(o), RegisteredInv(o),
           UNCHANGED <<abandoned, msgid, told, owed, current>>
    PROVE  /\ OpsType' /\ ReaderType'
           /\ pc'[o] = "returned" /\ \A p \in Ops \ {o} : pc'[p] = pc[p]
           /\ posts'[o] = {} /\ \A p \in Ops \ {o} : posts'[p] = posts[p]
           /\ \A i \in Ids : /\ operations'[i] # o
                             /\ operations'[i] \in {operations[i], Nobody}
           /\ o \in StartTLS => reader' = "more"
           /\ o \notin StartTLS => reader' = reader
<1>1. OpsType /\ ReaderType
  BY DEF TypeInv
<1>2. /\ operations' = [operations EXCEPT ![msgid[o]] = Nobody]
      /\ posts' = [posts EXCEPT ![o] = {}] /\ pc' = [pc EXCEPT ![o] = "returned"]
      /\ reader' = IF o \in StartTLS THEN "more" ELSE reader
  BY DEF End, MoveTo
<1>3. operations' \in [Ids -> Ops \cup {Nobody}]
  BY <1>1, <1>2 DEF OpsType
<1>4. /\ posts' \in [Ops -> SUBSET {"abandon", "disconnect"}]
      /\ posts'[o] = {} /\ \A p \in Ops \ {o} : posts'[p] = posts[p]
  BY <1>1, <1>2 DEF OpsType
<1>5. /\ pc' \in [Ops -> {"absent", "returned", "cancelled"} \cup Live]
      /\ pc'[o] = "returned" /\ \A p \in Ops \ {o} : pc'[p] = pc[p]
  BY <1>1, <1>2 DEF OpsType
<1>6. \A i \in Ids : operations'[i] # o /\ operations'[i] \in {operations[i], Nobody}
  BY <1>1, <1>2, RequestsAssumption DEF OpsType, RegisteredInv
<1> QED
  BY <1>1, <1>2, <1>3, <1>4, <1>5, <1>6 DEF OpsType, ReaderType

\* A message that is out counts as an entry or as somebody's final answer.
LEMMA Delivering ==
    ASSUME TypeInv, NEW w \in Writers, Deliver(w), CountLate(w),
           UNCHANGED <<closer, peer, unwanted, abandoned>>,
           w \in Ops => (pc[w] = "entry" => entries[w] < MaxEntries),
           reader = "canceling" => owed \in Ops
    PROVE  /\ EnvType'
           /\ \A p \in Ops : finals'[p] >= finals[p]
           /\ w \in Ops => (pc[w] # "entry" => finals'[w] > 0)
           /\ w = Reader /\ reader = "canceling" => finals'[owed] > 0
           /\ \A p \in Ops \ {w} : entries'[p] = entries[p] /\ late'[p] = late[p]
           /\ w \in Ops => late'[w] = IF w \in abandoned THEN late[w] + 1 ELSE late[w]
<1>1. /\ EnvType /\ abandoned \subseteq Ops /\ Ops \subseteq Requests
      /\ finals \in [Requests -> Nat] /\ late \in [Ops -> Nat]
  BY DEF TypeInv, OpsType, EnvType, Requests
<1>2. /\ late' \in [Ops -> Nat] /\ \A p \in Ops \ {w} : late'[p] = late[p]
      /\ w \in Ops => late'[w] = IF w \in abandoned THEN late[w] + 1 ELSE late[w]
  <2>1. CASE w \in abandoned
    <3>1. late' = [late EXCEPT ![w] = @ + 1] /\ w \in Ops
      BY <1>1, <2>1 DEF CountLate
    <3> QED
      BY <1>1, <2>1, <3>1
  <2>2. CASE w \notin abandoned
    BY <1>1, <2>2 DEF CountLate
  <2> QED
    BY <2>1, <2>2
<1>3. CASE w \in Ops /\ pc[w] = "entry"
  <2>1. entries' = [entries EXCEPT ![w] = @ + 1] /\ finals' = finals
    BY <1>3 DEF Deliver
  <2>2. entries[w] + 1 \in 0..MaxEntries
    BY <1>1, <1>3, ChoicesAssumption DEF EnvType
  <2>3. entries' \in [Ops -> 0..MaxEntries] /\ \A p \in Ops \ {w} : entries'[p] = entries[p]
    BY <1>1, <2>1, <2>2 DEF EnvType
  <2> QED
    BY <1>1, <1>2, <1>3, <2>1, <2>3, ReaderIsApart DEF EnvType
<1>4. CASE ~(w \in Ops /\ pc[w] = "entry")
  <2>1. entries' = entries
    BY <1>4 DEF Deliver
  <2>2. PICK r : /\ finals' = [finals EXCEPT ![r] = @ + 1]
                 /\ w \in Ops => r = w
                 /\ w = Reader /\ reader = "canceling" => r = owed
    <3>1. CASE w \in Ops
      BY <1>4, <3>1, ReaderIsApart DEF Deliver
    <3>2. CASE w \notin Ops /\ reader = "canceling"
      BY <3>2 DEF Deliver
    <3>3. CASE w \notin Ops /\ reader # "canceling"
      BY <3>3 DEF Deliver
    <3> QED
      BY <3>1, <3>2, <3>3
  <2>3. /\ finals' \in [Requests -> Nat]
        /\ \A p \in Requests : finals'[p] = IF p = r THEN finals[p] + 1 ELSE finals[p]
    <3>1. finals' = [finals EXCEPT ![r] = @ + 1]
      BY <2>2
    <3>2. finals' = [p \in Requests |-> IF p = r THEN finals[p] + 1 ELSE finals[p]]
      BY <1>1, <3>1
    <3> QED
      BY <1>1, <3>2
  <2>4. \A p \in Ops : finals'[p] >= finals[p] /\ (p = r => finals'[p] > 0)
    BY <1>1, <2>3
  <2> QED
    BY <1>1, <1>2, <1>4, <2>1, <2>2, <2>3, <2>4 DEF EnvType
<1> QED
  BY <1>3, <1>4

\* A writer whose await returns: its message is out, or the connection is going.
LEMMA Returning ==
    ASSUME ServerInv, NEW w \in Writers, at[w] # "out", HasTurn(w), Leave(w), SendReturns(w),
           UNCHANGED <<connVars, markVars, clientVars>>, EnvType',
           \A p \in Ops : finals'[p] >= finals[p],
           w \in Ops /\ pc[w] # "entry" => finals'[w] > 0 \/ ~stream,
           w = Reader /\ reader = "canceling" => finals'[owed] > 0 \/ ~stream,
           \A p \in Ops \ {w} : entries'[p] = entries[p] /\ late'[p] = late[p],
           w \in Ops => late'[w] <= 1 /\ (late'[w] > 0 => w \in abandoned)
    PROVE  ServerInv'
<1>1. /\ TypeInv /\ OpInv /\ ReaderInv /\ \A p \in Ops : Fine(p)
      /\ ConnType /\ OpsType /\ ReaderType
  BY FineIsOpInv DEF ServerInv, TypeInv
<1>2. LockType' /\ at'[w] = "out" /\ \A v \in Writers \ {w} : at'[v] = at[v]
  BY <1>1, Leaving
<1>3. /\ UNCHANGED <<stream, connected, open, tls, abandoned, msgid, told, owed, current, peer,
                     unwanted>>
      /\ ConnType'
  BY <1>1 DEF connVars, markVars, clientVars, ConnType
<1>4. \A p \in Ops : finals[p] \in Nat /\ finals'[p] \in Nat
  BY <1>1 DEF TypeInv, EnvType, Requests
<1>5. CASE w = Reader
  <2>1. /\ reader \in {"canceling", "replying"} /\ reader' \in {"replying", "more"}
        /\ UNCHANGED <<operations, posts, pc>>
    BY <1>1, <1>5 DEF SendReturns, ReaderInv
  <2>2. OpsType' /\ ReaderType'
    BY <1>1, <1>3, <2>1 DEF OpsType, ReaderType
  <2>3. \A p \in Ops : p \in Writers \ {w}
    BY <1>5, ReaderIsApart
  <2>4. ASSUME NEW p \in Ops PROVE Fine(p)'
    <3>1. Fine(p) /\ at'[p] = at[p] /\ entries'[p] = entries[p] /\ late'[p] = late[p]
      BY <1>1, <1>2, <2>3, <1>5, ReaderIsApart
    <3>2. p \in StartTLS => pc[p] \notin Live
      BY <1>1, <2>1 DEF Fine, InlineInv
    <3>3. WriteInv(p)' /\ LateInv(p)' /\ RegisteredInv(p)' /\ ReasonInv(p)' /\ InlineInv(p)'
      BY <1>3, <1>4, <2>1, <3>1, <3>2 DEF Fine, WriteInv, LateInv, RegisteredInv, ReasonInv,
         InlineInv
    <3>4. OverInv(p)'
      BY <1>3, <1>4, <1>5, <2>1, <3>1 DEF Fine, OverInv
    <3> QED
      BY <3>3, <3>4 DEF Fine
  <2>5. ReaderInv'
    BY <1>1, <1>2, <1>3, <1>5, <2>1 DEF ReaderInv
  <2> QED
    BY <1>2, <1>3, <2>2, <2>4, <2>5, FineIsOpInv DEF ServerInv, TypeInv, OpInv, Fine
<1>6. CASE w \in Ops
  <2>1. /\ pc[w] \in Writing /\ w # Reader /\ at'[Reader] = at[Reader]
        /\ \A p \in Ops \ {w} : at'[p] = at[p]
    BY <1>1, <1>2, <1>6, ReaderIsApart DEF Fine, WriteInv
  <2>2. /\ OpsType' /\ ReaderType'
        /\ \A p \in Ops \ {w} : pc'[p] = pc[p] /\ posts'[p] = posts[p]
        /\ posts'[w] \subseteq posts[w]
        /\ pc'[w] \in {"app", "answered", "returned"}
        /\ pc'[w] \in {"answered", "returned"} => pc[w] # "entry"
        /\ \A i \in Ids : /\ operations'[i] \in {operations[i], Nobody}
                          /\ pc'[w] = "returned" => operations'[i] # w
        /\ w \in StartTLS /\ pc'[w] = "returned" => reader' = "more"
        /\ ~(w \in StartTLS /\ pc'[w] = "returned") => reader' = reader
    <3>1. CASE pc[w] = "fail"
      <4>1. End(w)
        BY <1>6, <2>1, <3>1 DEF SendReturns
      <4> QED
        BY <1>1, <1>3, <1>6, <3>1, <4>1, Ending DEF Fine
    <3>2. CASE pc[w] # "fail"
      <4>1. /\ pc' = [pc EXCEPT ![w] = IF pc[w] = "final" THEN "answered" ELSE "app"]
            /\ UNCHANGED <<operations, posts, reader>>
        BY <1>6, <2>1, <3>2 DEF SendReturns, MoveTo
      <4>2. OpsType'
        BY <1>1, <1>3, <1>6, <4>1 DEF OpsType, Live
      <4>3. /\ \A p \in Ops \ {w} : pc'[p] = pc[p]
            /\ pc'[w] = IF pc[w] = "final" THEN "answered" ELSE "app"
        BY <1>1, <1>6, <4>1 DEF OpsType
      <4> QED
        BY <1>1, <1>3, <4>1, <4>2, <4>3 DEF ReaderType
    <3> QED
      BY <3>1, <3>2
  <2>3. pc'[w] \notin Writing /\ pc[w] \in Live
    BY <2>1, <2>2 DEF Writing, Live
  <2>4. Fine(w)'
    <3>1. Fine(w)
      BY <1>1, <1>6
    <3>2. WriteInv(w)' /\ LateInv(w)'
      BY <1>2, <1>3, <1>6, <2>3 DEF WriteInv, LateInv, Writing
    <3>3. RegisteredInv(w)'
      BY <1>3, <1>6, <2>2, <3>1, RequestsAssumption DEF Fine, RegisteredInv, Live
    <3>4. ReasonInv(w)'
      BY <1>3, <2>2, <3>1 DEF Fine, ReasonInv
    <3>5. OverInv(w)'
      BY <1>3, <1>4, <1>6, <2>2, <3>1, ReaderIsApart DEF Fine, OverInv, InlineInv
    <3>6. InlineInv(w)'
      <4> SUFFICES ASSUME w \in StartTLS PROVE InlineInv(w)'
        BY DEF InlineInv
      <4>1. w \notin abandoned' /\ reader = "inline"
        BY <1>3, <2>3, <3>1 DEF Fine, InlineInv
      <4>2. \A q \in StartTLS : q # w => pc'[q] \notin Live
        BY <2>2, <2>3, <3>1 DEF Fine, InlineInv, Ops
      <4>3. pc'[w] \in Live => reader' = "inline"
        BY <2>2, <4>1 DEF Live, Writing
      <4> QED
        BY <4>1, <4>2, <4>3 DEF InlineInv
    <3> QED
      BY <3>2, <3>3, <3>4, <3>5, <3>6 DEF Fine
  <2>5. ASSUME NEW p \in Ops \ {w} PROVE Fine(p)'
    <3>1. /\ Fine(p) /\ at'[p] = at[p] /\ entries'[p] = entries[p] /\ late'[p] = late[p]
          /\ pc'[p] = pc[p] /\ posts'[p] = posts[p]
          /\ finals'[p] >= finals[p] /\ finals[p] \in Nat /\ finals'[p] \in Nat
      BY <1>1, <1>4, <2>1, <2>2
    <3>2. WriteInv(p)' /\ LateInv(p)' /\ ReasonInv(p)'
      BY <1>3, <3>1 DEF Fine, WriteInv, LateInv, ReasonInv
    <3>3. RegisteredInv(p)'
      BY <1>3, <2>2, <3>1, RequestsAssumption DEF Fine, RegisteredInv
    <3>4. InlineInv(p)'
      <4> SUFFICES ASSUME p \in StartTLS PROVE InlineInv(p)'
        BY DEF InlineInv
      <4>1. p \notin abandoned'
        BY <1>3, <3>1 DEF Fine, InlineInv
      <4>2. ASSUME pc[p] \in Live
            PROVE  reader' = "inline" /\ \A q \in StartTLS : pc'[q] \in Live => q = p
        <5>1. reader = "inline" /\ \A q \in StartTLS : pc[q] \in Live => q = p
          BY <3>1, <4>2 DEF Fine, InlineInv
        <5>2. w \notin StartTLS
          BY <2>3, <5>1
        <5> QED
          BY <2>2, <5>1, <5>2 DEF Ops
      <4> QED
        BY <3>1, <4>1, <4>2 DEF InlineInv
    <3>5. OverInv(p)'
      <4>1. reader = "canceling" => reader' = reader
        BY <1>1, <1>6, <2>2, <2>3 DEF Fine, InlineInv
      <4> QED
        BY <1>3, <3>1, <4>1 DEF Fine, OverInv
    <3> QED
      BY <3>2, <3>3, <3>4, <3>5 DEF Fine
  <2>6. ReaderInv'
    <3>1. w \in StartTLS /\ pc'[w] = "returned" => reader = "inline"
      BY <1>1, <1>6, <2>3 DEF Fine, InlineInv
    <3>2. tls /\ stream => \E s \in StartTLS : pc'[s] \in {"asked", "raised"}
      <4> SUFFICES ASSUME tls, stream PROVE \E s \in StartTLS : pc'[s] \in {"asked", "raised"}
        OBVIOUS
      <4>1. PICK s \in StartTLS : pc[s] \in {"asked", "raised"}
        BY <1>1 DEF ReaderInv
      <4>2. s # w /\ s \in Ops
        BY <2>1, <4>1 DEF Writing, Ops
      <4> QED
        BY <2>2, <4>1, <4>2
    <3> QED
      BY <1>1, <1>3, <2>1, <2>2, <3>1, <3>2 DEF ReaderInv
  <2> QED
    BY <1>2, <1>3, <2>2, <2>4, <2>5, <2>6, FineIsOpInv DEF ServerInv, TypeInv, OpInv, Fine
<1> QED
  BY <1>5, <1>6 DEF Writers

\* An upgrade that fails raises in the operation that took it along.
LEMMA GivingUp ==
    ASSUME ServerInv, NEW w \in Writers, at[w] \in {"tlslock", "tlssending", "shaking"},
           HasTurn(w), Leave(w), SendRaises(w),
           UNCHANGED <<connVars, operations, posts, markVars, envVars>>
    PROVE  ServerInv'
<1>1. /\ TypeInv /\ OpInv /\ ReaderInv /\ \A p \in Ops : Fine(p)
      /\ ConnType /\ OpsType /\ ReaderType /\ EnvType
  BY FineIsOpInv DEF ServerInv, TypeInv
<1>2. LockType' /\ at'[w] = "out" /\ \A v \in Writers \ {w} : at'[v] = at[v]
  BY <1>1, Leaving
<1>3. w \in Ops /\ w # Reader /\ pc[w] \in Writing
  BY <1>1, ReaderIsApart DEF ReaderInv, Fine, WriteInv, Writers
<1>4. /\ pc' = [pc EXCEPT ![w] = IF pc[w] = "fail" THEN "broken" ELSE "raised"]
      /\ reader' = reader
      /\ UNCHANGED <<stream, connected, open, tls, operations, posts, abandoned, msgid, told,
                     owed,
                     current, closer, peer, unwanted, entries, finals, late>>
  BY <1>3 DEF SendRaises, MoveTo, connVars, markVars, envVars, clientVars, wireVars
<1>5. pc'[w] \in {"broken", "raised"} /\ \A p \in Ops \ {w} : pc'[p] = pc[p]
  BY <1>1, <1>3, <1>4 DEF OpsType
<1>6. ConnType' /\ OpsType' /\ ReaderType' /\ EnvType'
  BY <1>1, <1>3, <1>4 DEF ConnType, OpsType, ReaderType, EnvType, Live
<1>7. pc[w] \in Live /\ pc'[w] \in Live \ Writing
  BY <1>3, <1>5 DEF Live, Writing
<1>8. ASSUME NEW p \in Ops PROVE Fine(p)'
  <2>1. Fine(p)
    BY <1>1
  <2>2. WriteInv(p)' /\ LateInv(p)'
    BY <1>2, <1>4, <1>5, <1>7, <2>1, ReaderIsApart DEF Fine, WriteInv, LateInv, Writing
  <2>3. RegisteredInv(p)' /\ ReasonInv(p)' /\ OverInv(p)'
    BY <1>4, <1>5, <1>7, <2>1 DEF Fine, RegisteredInv, ReasonInv, OverInv
  <2>4. InlineInv(p)'
    BY <1>3, <1>4, <1>5, <1>7, <2>1 DEF Fine, InlineInv, Ops
  <2> QED
    BY <2>2, <2>3, <2>4 DEF Fine
<1>9. ReaderInv'
  <2>1. at'[Reader] = at[Reader]
    BY <1>2, <1>3, ReaderIsApart
  <2>2. tls /\ stream => \E t \in StartTLS : pc'[t] \in {"asked", "raised"}
    <3> SUFFICES ASSUME tls, stream PROVE \E t \in StartTLS : pc'[t] \in {"asked", "raised"}
      OBVIOUS
    <3>1. PICK t \in StartTLS : pc[t] \in {"asked", "raised"}
      BY <1>1 DEF ReaderInv
    <3>2. t # w /\ t \in Ops
      BY <1>3, <3>1 DEF Writing, Ops
    <3> QED
      BY <1>5, <3>1, <3>2
  <2> QED
    BY <1>1, <1>4, <2>1, <2>2 DEF ReaderInv
<1> QED
  BY <1>2, <1>6, <1>8, <1>9 DEF ServerInv, TypeInv, OpInv, Fine

\* An operation that nobody is owed an answer for any more ends.
LEMMA Finishing ==
    ASSUME ServerInv, NEW o \in Ops, pc[o] \in Live \ Writing, End(o),
           o \in Unbinds \/ finals[o] > 0 \/ ~stream \/ o \in abandoned,
           o \in StartTLS /\ pc[o] \in {"asked", "raised"} => ~stream,
           UNCHANGED <<connVars, markVars, lockVars, envVars>>
    PROVE  ServerInv'
<1>1. /\ TypeInv /\ OpInv /\ ReaderInv /\ \A p \in Ops : Fine(p)
      /\ ConnType /\ LockType /\ EnvType
  BY FineIsOpInv DEF ServerInv, TypeInv
<1>2. UNCHANGED <<stream, connected, open, tls, abandoned, msgid, told, owed, current, at,
                  writers,
                  closer, peer, unwanted, entries, finals, late>>
  BY DEF connVars, markVars, lockVars, envVars, clientVars, wireVars
<1>3. /\ OpsType' /\ ReaderType'
      /\ pc'[o] = "returned" /\ \A p \in Ops \ {o} : pc'[p] = pc[p]
      /\ posts'[o] = {} /\ \A p \in Ops \ {o} : posts'[p] = posts[p]
      /\ \A i \in Ids : operations'[i] # o /\ operations'[i] \in {operations[i], Nobody}
      /\ o \in StartTLS => reader' = "more"
      /\ o \notin StartTLS => reader' = reader
  BY <1>1, <1>2, Ending DEF Fine
<1>4. ConnType' /\ LockType' /\ EnvType'
  BY <1>1, <1>2 DEF ConnType, LockType, EnvType
<1>5. o \in StartTLS => reader = "inline"
  BY <1>1 DEF Fine, InlineInv
<1>6. Fine(o)'
  <2>1. Fine(o) /\ pc'[o] \notin Live /\ pc'[o] \notin Writing
    BY <1>1, <1>3 DEF Live, Writing
  <2>2. WriteInv(o)' /\ LateInv(o)' /\ RegisteredInv(o)' /\ ReasonInv(o)' /\ InlineInv(o)'
    BY <1>2, <1>3, <2>1 DEF Fine, WriteInv, LateInv, RegisteredInv, ReasonInv, InlineInv
  <2>3. OverInv(o)'
    BY <1>2, <1>3, <1>5, <2>1 DEF Fine, OverInv
  <2> QED
    BY <2>2, <2>3 DEF Fine
<1>7. ASSUME NEW p \in Ops \ {o} PROVE Fine(p)'
  <2>1. Fine(p) /\ p \in Ops /\ pc'[p] = pc[p] /\ posts'[p] = posts[p]
    BY <1>1, <1>3
  <2>2. WriteInv(p)' /\ LateInv(p)' /\ ReasonInv(p)' /\ OverInv(p)'
    BY <1>2, <1>3, <1>5, <2>1 DEF Fine, WriteInv, LateInv, ReasonInv, OverInv
  <2>3. RegisteredInv(p)'
    BY <1>2, <1>3, <2>1, RequestsAssumption DEF Fine, RegisteredInv
  <2>4. InlineInv(p)'
    <3> SUFFICES ASSUME p \in StartTLS PROVE InlineInv(p)'
      BY DEF InlineInv
    <3>1. p \notin abandoned'
      BY <1>2, <2>1 DEF Fine, InlineInv
    <3>2. ASSUME pc[p] \in Live
          PROVE  reader' = "inline" /\ \A q \in StartTLS : pc'[q] \in Live => q = p
      <4>1. reader = "inline" /\ \A q \in StartTLS : pc[q] \in Live => q = p
        BY <2>1, <3>2 DEF Fine, InlineInv
      <4>2. o \notin StartTLS
        BY <4>1
      <4> QED
        BY <1>3, <4>1, <4>2 DEF Ops
    <3> QED
      BY <2>1, <3>1, <3>2 DEF InlineInv
  <2> QED
    BY <2>2, <2>3, <2>4 DEF Fine
<1>8. ReaderInv'
  <2>1. tls /\ stream => \E t \in StartTLS : pc'[t] \in {"asked", "raised"}
    <3> SUFFICES ASSUME tls, stream PROVE \E t \in StartTLS : pc'[t] \in {"asked", "raised"}
      OBVIOUS
    <3>1. PICK t \in StartTLS : pc[t] \in {"asked", "raised"}
      BY <1>1 DEF ReaderInv
    <3>2. t # o /\ t \in Ops
      BY <3>1 DEF Ops
    <3> QED
      BY <1>3, <3>1, <3>2
  <2> QED
    BY <1>1, <1>2, <1>3, <1>5, <2>1 DEF ReaderInv
<1> QED
  BY <1>3, <1>4, <1>6, <1>7, <1>8 DEF ServerInv, TypeInv, OpInv, Fine

\* An operation that is not given up, of a connection that is up, queues a
\* message, and takes a pending upgrade along.
LEMMA Queueing ==
    ASSUME ServerInv, NEW o \in Ops, NEW kind \in Writing, pc[o] \in Live \ Writing,
           ~Refused(o), MoveTo(o, kind), Respond(o),
           kind = "entry" => entries[o] < MaxEntries,
           UNCHANGED <<stream, connected, open, operations, posts, reader, markVars, envVars>>
    PROVE  ServerInv'
<1>1. /\ TypeInv /\ OpInv /\ ReaderInv /\ \A p \in Ops : Fine(p)
      /\ ConnType /\ OpsType /\ ReaderType /\ EnvType
  BY FineIsOpInv DEF ServerInv, TypeInv
<1>2. UNCHANGED <<stream, connected, open, operations, posts, reader, abandoned, msgid, told,
                  owed,
                  current, closer, peer, unwanted, entries, finals, late>>
  BY DEF markVars, envVars, clientVars, wireVars
<1>3. /\ LockType' /\ tls' = FALSE /\ at'[o] \in {"lock", "tlslock"}
      /\ \A v \in Writers \ {o} : at'[v] = at[v]
  BY <1>1, Responding, ReaderIsApart
<1>4. pc'[o] = kind /\ \A p \in Ops \ {o} : pc'[p] = pc[p]
  BY <1>1 DEF OpsType, MoveTo
<1>5. /\ OpsType'
      /\ ConnType' /\ ReaderType' /\ EnvType'
  <2>1. pc' \in [Ops -> {"absent", "returned", "cancelled"} \cup Live]
    BY <1>1 DEF OpsType, MoveTo, Live
  <2>2. OpsType'
    BY <1>1, <1>2, <2>1 DEF OpsType
  <2>3. ConnType' /\ ReaderType'
    <3>1. ConnType'
      <4>1. tls' \in BOOLEAN
        BY <1>3
      <4> QED
        BY <1>1, <1>2, <4>1 DEF ConnType
    <3>2. ReaderType'
      BY <1>1, <1>2 DEF ReaderType
    <3> QED
      BY <3>1, <3>2
  <2>4. EnvType'
    BY <1>1, <1>2 DEF EnvType
  <2> QED
    BY <2>2, <2>3, <2>4
<1>6. pc'[o] \in Live /\ stream /\ o \notin abandoned
  BY <1>4 DEF Live, Refused
<1>7. ASSUME NEW p \in Ops PROVE Fine(p)'
  <2>1. Fine(p)
    BY <1>1
  <2>2. WriteInv(p)' /\ LateInv(p)'
    BY <1>2, <1>3, <1>4, <1>6, <2>1, ReaderIsApart DEF Fine, WriteInv, LateInv
  <2>3. ReasonInv(p)' /\ OverInv(p)' /\ RegisteredInv(p)'
    BY <1>2, <1>4, <1>6, <2>1 DEF Fine, ReasonInv, OverInv, RegisteredInv, Writing
  <2>4. InlineInv(p)'
    BY <1>2, <1>4, <1>6, <2>1 DEF Fine, InlineInv, Ops
  <2> QED
    BY <2>2, <2>3, <2>4 DEF Fine
<1>8. ReaderInv'
  BY <1>1, <1>2, <1>3, ReaderIsApart DEF ReaderInv
<1> QED
  BY <1>3, <1>5, <1>7, <1>8 DEF ServerInv, TypeInv, OpInv, Fine

\* While the reader acts on a request, nothing it writes can meet an upgrade.
LEMMA ReaderRuns ==
    ASSUME ServerInv, reader \notin {"inline", "closing"}
    PROVE  /\ connected <=> stream
           /\ connected => ~tls
           /\ \A s \in StartTLS : pc[s] \notin Live
<1>1. /\ ConnType /\ ReaderInv /\ \A p \in Ops : Fine(p)
  BY FineIsOpInv DEF ServerInv, TypeInv
<1>2. \A s \in StartTLS : pc[s] \notin Live
  BY <1>1 DEF Fine, InlineInv, Ops
<1> QED
  BY <1>1, <1>2 DEF ConnType, ReaderInv, Live

LEMMA BeginWriteStep ==
    ASSUME ServerInv, NEW w \in Writers, BeginWrite(w)
    PROVE  ServerInv'
<1>1. /\ TypeInv /\ OpInv /\ ReaderInv /\ \A p \in Ops : Fine(p)
      /\ ConnType /\ OpsType /\ ReaderType /\ LockType /\ EnvType
  BY FineIsOpInv DEF ServerInv, TypeInv
<1>2. /\ UNCHANGED <<connVars, markVars, envVars, clientVars, stream, connected, open, tls,
                     abandoned, msgid, told, owed, current, closer, peer, unwanted, entries,
                     finals, late>>
      /\ HasTurn(w) /\ at[w] \in {"lock", "tlslock"}
  BY DEF BeginWrite, connVars, markVars, envVars, clientVars, wireVars
<1>3. CASE stream
  <2>1. /\ at' = [at EXCEPT ![w] = IF @ = "lock" THEN "sending" ELSE "tlssending"]
        /\ UNCHANGED <<operations, posts, pc, reader, writers>>
    BY <1>3 DEF BeginWrite, taskVars
  <2>2. /\ at'[w] = IF at[w] = "lock" THEN "sending" ELSE "tlssending"
        /\ \A v \in Writers \ {w} : at'[v] = at[v]
    BY <1>1, <2>1 DEF LockType
  <2>3. LockType'
    BY <1>1, <2>1 DEF LockType
  <2>4. ConnType' /\ OpsType' /\ ReaderType' /\ EnvType'
    BY <1>1, <1>2, <2>1 DEF ConnType, OpsType, ReaderType, EnvType
  <2>5. ASSUME NEW p \in Ops PROVE Fine(p)'
    <3>1. Fine(p) /\ p \in Writers
      BY <1>1, ReaderIsApart
    <3>2. WriteInv(p)' /\ LateInv(p)'
      BY <1>2, <2>1, <2>2, <3>1 DEF Fine, WriteInv, LateInv
    <3>3. ReasonInv(p)' /\ OverInv(p)' /\ RegisteredInv(p)' /\ InlineInv(p)'
      BY <1>2, <2>1, <3>1 DEF Fine, ReasonInv, OverInv, RegisteredInv, InlineInv
    <3> QED
      BY <3>2, <3>3 DEF Fine
  <2>6. ReaderInv'
    BY <1>1, <1>2, <2>1, <2>2, ReaderIsApart DEF ReaderInv
  <2> QED
    BY <2>3, <2>4, <2>5, <2>6 DEF ServerInv, TypeInv, OpInv, Fine
<1>4. CASE ~stream /\ at[w] = "lock"
  <2>1. Leave(w) /\ SendReturns(w)
    BY <1>4 DEF BeginWrite
  <2>2. EnvType'
    BY <1>1, <1>2 DEF EnvType
  <2>3. \A p \in Ops : finals[p] \in Nat /\ late[p] \in Nat
    BY <1>1 DEF EnvType, Requests
  <2>4. w \in Ops => late'[w] <= 1 /\ (late'[w] > 0 => w \in abandoned)
    BY <1>1, <1>2 DEF Fine, LateInv
  <2>5. \A p \in Ops : finals'[p] >= finals[p]
    BY <1>2, <2>3
  <2> QED
    BY <1>2, <1>4, <2>1, <2>2, <2>4, <2>5, Returning
<1>5. CASE ~stream /\ at[w] = "tlslock"
  BY <1>2, <1>5, GivingUp DEF BeginWrite
<1> QED
  BY <1>2, <1>3, <1>4, <1>5

LEMMA WriteStep ==
    ASSUME ServerInv, NEW w \in Writers, Write(w)
    PROVE  ServerInv'
<1>1. /\ TypeInv /\ OpInv /\ ReaderInv /\ \A p \in Ops : Fine(p)
  BY FineIsOpInv DEF ServerInv
<1>2. /\ UNCHANGED <<connVars, markVars, clientVars, closer, abandoned, peer, unwanted>>
      /\ HasTurn(w) /\ at[w] = "sending" /\ Leave(w) /\ SendReturns(w)
      /\ Deliver(w) /\ CountLate(w)
  BY DEF Write, connVars, markVars, clientVars
<1>3. w \in Ops => (pc[w] = "entry" => entries[w] < MaxEntries)
  BY <1>1, <1>2 DEF Fine, WriteInv
<1>4. reader = "canceling" => owed \in Ops
  BY <1>1 DEF ReaderInv
<1>5. /\ EnvType'
      /\ \A p \in Ops : finals'[p] >= finals[p]
      /\ w \in Ops => (pc[w] # "entry" => finals'[w] > 0)
      /\ w = Reader /\ reader = "canceling" => finals'[owed] > 0
      /\ \A p \in Ops \ {w} : entries'[p] = entries[p] /\ late'[p] = late[p]
      /\ w \in Ops => late'[w] = IF w \in abandoned THEN late[w] + 1 ELSE late[w]
  BY <1>1, <1>2, <1>3, <1>4, Delivering
<1>6. w \in Ops => late[w] \in Nat /\ ~(late[w] > 0)
  BY <1>1, <1>2 DEF Fine, LateInv, TypeInv, EnvType
<1>7. w \in Ops => late'[w] <= 1 /\ (late'[w] > 0 => w \in abandoned)
  BY <1>5, <1>6
<1> QED
  BY <1>2, <1>5, <1>7, Returning

\* What goes on at the same time is left alone by a writer that only returns.
LEMMA ReturningOnly ==
    ASSUME ServerInv, NEW w \in Writers, at[w] \in {"shaking", "closing"},
           HasTurn(w), Leave(w), SendReturns(w), UNCHANGED <<connVars, markVars, envVars>>
    PROVE  ServerInv'
<1>1. /\ TypeInv /\ OpInv /\ ReaderInv /\ EnvType
      /\ \A p \in Ops : Fine(p)
  BY FineIsOpInv DEF ServerInv, TypeInv
<1>2. UNCHANGED <<connVars, markVars, clientVars, closer, peer, unwanted, abandoned, entries,
                  finals, late>>
  BY DEF connVars, markVars, envVars, clientVars, wireVars
<1>3. EnvType'
  <2>1. UNCHANGED <<closer, peer, unwanted, abandoned, entries, finals, late>>
    BY <1>2 DEF clientVars
  <2> QED
    BY <1>1, <2>1 DEF EnvType
<1>4. \A p \in Ops : finals[p] \in Nat
  BY <1>1 DEF EnvType, Requests
<1>5. \A p \in Ops : finals'[p] >= finals[p]
  BY <1>2, <1>4
<1>6. /\ w \in Ops /\ pc[w] # "entry" => finals'[w] > 0 \/ ~stream
      /\ w = Reader => ~stream
  BY <1>1, <1>2 DEF Fine, WriteInv, ReaderInv
<1>7. w \in Ops => late'[w] <= 1 /\ (late'[w] > 0 => w \in abandoned)
  BY <1>1, <1>2 DEF Fine, LateInv
<1> QED
  BY <1>2, <1>3, <1>5, <1>6, <1>7, Returning

LEMMA WriteClosedStep ==
    ASSUME ServerInv, NEW w \in Writers, WriteClosed(w)
    PROVE  ServerInv'
BY ReturningOnly DEF WriteClosed

LEMMA HandshakeDoneStep ==
    ASSUME ServerInv, NEW w \in Writers, HandshakeDone(w)
    PROVE  ServerInv'
BY ReturningOnly DEF HandshakeDone

LEMMA UpgradeFailsStep ==
    ASSUME ServerInv, NEW w \in Writers, UpgradeFails(w)
    PROVE  ServerInv'
BY GivingUp DEF UpgradeFails

\* The reader takes a StartTLS's failure for the end of the connection, of which
\* nothing is owed any more.
LEMMA UpgradeEndsReaderStep ==
    ASSUME ServerInv, NEW s \in StartTLS, UpgradeEndsReader(s)
    PROVE  ServerInv'
<1>1. /\ TypeInv /\ OpInv /\ ReaderInv /\ \A p \in Ops : Fine(p)
      /\ ConnType /\ OpsType /\ ReaderType /\ EnvType
  BY FineIsOpInv DEF ServerInv, TypeInv
<1>2. s \in Ops /\ s \in Writers /\ s # Reader /\ s \notin Unbinds
  BY ReaderIsApart, RequestsAssumption DEF Ops
<1>3. LockType' /\ at'[s] = "out" /\ \A v \in Writers \ {s} : at'[v] = at[v]
  BY <1>1, <1>2, Leaving DEF UpgradeEndsReader
<1>4. /\ pc[s] \in Live /\ reader = "inline" /\ s \notin abandoned
      /\ \A q \in StartTLS : pc[q] \in Live => q = s
  BY <1>1, <1>2 DEF UpgradeEndsReader, Fine, InlineInv, Live, Writing
<1>5. /\ operations' = [operations EXCEPT ![msgid[s]] = Nobody]
      /\ posts' = [posts EXCEPT ![s] = {}] /\ pc' = [pc EXCEPT ![s] = "returned"]
      /\ reader' = IF connected THEN "closing" ELSE "ended"
      /\ stream' = FALSE /\ open' = FALSE
      /\ UNCHANGED <<connected, tls, abandoned, msgid, told, owed, current, closer, peer,
                     unwanted, entries, finals, late>>
  BY DEF UpgradeEndsReader, MoveTo, markVars, envVars, clientVars, wireVars
<1>6. /\ pc'[s] = "returned" /\ posts'[s] = {}
      /\ \A p \in Ops \ {s} : pc'[p] = pc[p] /\ posts'[p] = posts[p]
  BY <1>1, <1>2, <1>5 DEF OpsType
<1>7. \A i \in Ids : operations'[i] # s /\ operations'[i] \in {operations[i], Nobody}
  BY <1>1, <1>2, <1>5, RequestsAssumption DEF OpsType, Fine, RegisteredInv
<1>8. ConnType' /\ OpsType' /\ ReaderType' /\ EnvType'
  <2>1. operations' \in [Ids -> Ops \cup {Nobody}]
    BY <1>1, <1>5 DEF OpsType
  <2>2. posts' \in [Ops -> SUBSET {"abandon", "disconnect"}]
    BY <1>1, <1>5 DEF OpsType
  <2>3. pc' \in [Ops -> {"absent", "returned", "cancelled"} \cup Live]
    BY <1>1, <1>5 DEF OpsType
  <2> QED
    BY <1>1, <1>5, <2>1, <2>2, <2>3 DEF ConnType, OpsType, ReaderType, EnvType
<1>9. ASSUME NEW p \in Ops PROVE Fine(p)'
  <2>1. Fine(p)
    BY <1>1
  <2>2. WriteInv(p)' /\ LateInv(p)'
    BY <1>2, <1>3, <1>5, <1>6, <2>1, ReaderIsApart
       DEF Fine, WriteInv, LateInv, Writing, UpgradeEndsReader
  <2>3. RegisteredInv(p)'
    BY <1>2, <1>5, <1>6, <1>7, <2>1, RequestsAssumption DEF Fine, RegisteredInv
  <2>4. ReasonInv(p)' /\ OverInv(p)'
    BY <1>5, <1>6, <2>1 DEF Fine, ReasonInv, OverInv
  <2>5. InlineInv(p)'
    BY <1>2, <1>4, <1>5, <1>6, <2>1 DEF Fine, InlineInv, Live, Writing
  <2> QED
    BY <2>2, <2>3, <2>4, <2>5 DEF Fine
<1>10. ReaderInv'
  BY <1>1, <1>2, <1>3, <1>4, <1>5, ReaderIsApart DEF ReaderInv
<1> QED
  BY <1>3, <1>8, <1>9, <1>10 DEF ServerInv, TypeInv, OpInv, Fine

LEMMA UpgradeSendsStep ==
    ASSUME ServerInv, NEW w \in Writers, UpgradeSends(w)
    PROVE  ServerInv'
<1>1. /\ TypeInv /\ OpInv /\ ReaderInv /\ \A p \in Ops : Fine(p)
      /\ ConnType /\ OpsType /\ ReaderType /\ LockType /\ EnvType
  BY FineIsOpInv DEF ServerInv, TypeInv
<1>2. /\ UNCHANGED <<stream, connected, open, tls, operations, posts, pc, reader, abandoned,
                     msgid,
                     told, owed, current, writers, closer, peer, unwanted>>
      /\ at[w] = "tlssending" /\ Deliver(w) /\ CountLate(w)
      /\ at' = [at EXCEPT ![w] = "shaking"]
  BY DEF UpgradeSends, connVars, taskVars, markVars, clientVars
<1>3. w \in Ops /\ w # Reader /\ (pc[w] = "entry" => entries[w] < MaxEntries)
  BY <1>1, <1>2, ReaderIsApart DEF Fine, WriteInv, ReaderInv, Writers
<1>4. reader = "canceling" => owed \in Ops
  BY <1>1 DEF ReaderInv
<1>5. /\ EnvType'
      /\ \A p \in Ops : finals'[p] >= finals[p]
      /\ pc[w] # "entry" => finals'[w] > 0
      /\ \A p \in Ops \ {w} : entries'[p] = entries[p] /\ late'[p] = late[p]
      /\ late'[w] = IF w \in abandoned THEN late[w] + 1 ELSE late[w]
  BY <1>1, <1>2, <1>3, <1>4, Delivering
<1>6. /\ at'[w] = "shaking" /\ \A v \in Writers \ {w} : at'[v] = at[v]
      /\ LockType'
  BY <1>1, <1>2 DEF LockType
<1>7. ConnType' /\ OpsType' /\ ReaderType'
  BY <1>1, <1>2 DEF ConnType, OpsType, ReaderType
<1>8. \A p \in Ops : finals[p] \in Nat /\ finals'[p] \in Nat /\ late[p] \in Nat
  BY <1>1, <1>5 DEF EnvType, Requests
<1>9. ASSUME NEW p \in Ops PROVE Fine(p)'
  <2>1. Fine(p) /\ p \in Writers
    BY <1>1, ReaderIsApart
  <2>2. WriteInv(p)' /\ LateInv(p)'
    <3>1. CASE p = w
      BY <1>2, <1>3, <1>5, <1>6, <1>8, <2>1, <3>1 DEF Fine, WriteInv, LateInv
    <3>2. CASE p # w
      <4>1. at'[p] = at[p] /\ entries'[p] = entries[p] /\ late'[p] = late[p]
            /\ finals'[p] >= finals[p]
        BY <1>5, <1>6, <2>1, <3>2
      <4> QED
        BY <1>2, <1>8, <2>1, <4>1 DEF Fine, WriteInv, LateInv
    <3> QED
      BY <3>1, <3>2
  <2>3. ReasonInv(p)' /\ RegisteredInv(p)' /\ InlineInv(p)'
    BY <1>2, <2>1 DEF Fine, ReasonInv, RegisteredInv, InlineInv
  <2>4. OverInv(p)'
    BY <1>2, <1>5, <1>8, <2>1 DEF Fine, OverInv
  <2> QED
    BY <2>2, <2>3, <2>4 DEF Fine
<1>10. ReaderInv'
  <2>1. at'[Reader] = at[Reader]
    BY <1>3, <1>6, ReaderIsApart
  <2> QED
    BY <1>1, <1>2, <2>1 DEF ReaderInv
<1> QED
  BY <1>5, <1>6, <1>7, <1>9, <1>10 DEF ServerInv, TypeInv, OpInv, Fine

LEMMA AppReturnsStep ==
    ASSUME ServerInv, NEW o \in Ops, AppReturns(o)
    PROVE  ServerInv'
<1>1. Fine(o)
  BY FineIsOpInv DEF ServerInv
<1>2. o \in Unbinds \/ finals[o] > 0 \/ ~stream \/ o \in abandoned
  BY <1>1 DEF AppReturns, Fine, OverInv, ReasonInv
<1> QED
  BY <1>2, Finishing DEF AppReturns, Live, Writing

LEMMA FailStep ==
    ASSUME ServerInv, NEW o \in Ops, Fail(o)
    PROVE  ServerInv'
<1>1. pc[o] = "raised" /\ pc[o] \in Live \ Writing
  BY DEF Fail, Live, Writing
<1>2. /\ Fine(o) /\ ReaderInv /\ OpsType /\ \A p \in Ops : Fine(p)
  BY FineIsOpInv DEF ServerInv, TypeInv
<1>3. CASE o \in Unbinds \/ Refused(o)
  <2>1. End(o) /\ UNCHANGED <<connVars, markVars, lockVars, envVars>>
    BY <1>3 DEF Fail, connVars
  <2>2. o \in StartTLS => ~stream
    BY <1>2, <1>3, RequestsAssumption DEF Refused, Fine, InlineInv
  <2> QED
    BY <1>1, <1>3, <2>1, <2>2, Finishing DEF Refused
<1>4. CASE ~(o \in Unbinds \/ Refused(o))
  <2>1. "fail" \in Writing
    BY DEF Writing
  <2> QED
    BY <1>1, <1>4, <2>1, Queueing DEF Fail
<1> QED
  BY <1>3, <1>4

\* An application does something else than to write: it waits for an event,
\* is refused, raises, asks for TLS, or lets an unbind close the connection.
LEMMA Moving ==
    ASSUME ServerInv, NEW o \in Ops, pc[o] \in {"app", "asked"},
           NEW where \in {"receiving", "refused", "raised", "asked", "answered"}, MoveTo(o,
           where),
           where = "refused" => Refused(o),
           where = "answered" => o \in Unbinds,
           where = "asked" => o \in StartTLS,
           pc[o] = "asked" => where \in {"refused", "raised"},
           tls' = (tls \/ where = "asked"), closer' \in {"none", "started", "done"},
           UNCHANGED <<stream, connected, open, lockVars, operations, posts, reader, markVars,
                       clientVars, wireVars>>
    PROVE  ServerInv'
<1>1. /\ TypeInv /\ OpInv /\ ReaderInv /\ \A p \in Ops : Fine(p)
      /\ ConnType /\ OpsType /\ ReaderType /\ LockType /\ EnvType
  BY FineIsOpInv DEF ServerInv, TypeInv
<1>2. UNCHANGED <<stream, connected, open, operations, posts, reader, abandoned, msgid, told,
                  owed, current, at, writers, peer, unwanted, entries, finals, late>>
  BY DEF markVars, lockVars, clientVars, wireVars
<1>3. pc'[o] = where /\ \A p \in Ops \ {o} : pc'[p] = pc[p]
  BY <1>1 DEF OpsType, MoveTo
<1>4. OpsType'
  BY <1>1, <1>2 DEF OpsType, MoveTo, Live
<1>5. ConnType' /\ ReaderType' /\ LockType' /\ EnvType'
  <2>1. ConnType'
    BY <1>1, <1>2 DEF ConnType
  <2>2. ReaderType' /\ LockType' /\ EnvType'
    BY <1>1, <1>2 DEF ReaderType, LockType, EnvType
  <2> QED
    BY <2>1, <2>2
<1>6. pc[o] \in Live \ Writing /\ pc'[o] \in Live \ Writing
  BY <1>3 DEF Live, Writing
<1>7. ASSUME NEW p \in Ops PROVE Fine(p)'
  <2>1. Fine(p)
    BY <1>1
  <2>2. WriteInv(p)' /\ LateInv(p)' /\ RegisteredInv(p)'
    BY <1>2, <1>3, <1>6, <2>1 DEF Fine, WriteInv, LateInv, RegisteredInv
  <2>3. ReasonInv(p)' /\ OverInv(p)'
    BY <1>2, <1>3, <1>6, <2>1 DEF Fine, ReasonInv, OverInv, Refused
  <2>4. InlineInv(p)'
    BY <1>2, <1>3, <1>6, <2>1 DEF Fine, InlineInv, Ops
  <2> QED
    BY <2>2, <2>3, <2>4 DEF Fine
<1>8. ReaderInv'
  <2>1. ASSUME tls', stream PROVE \E t \in StartTLS : pc'[t] \in {"asked", "raised"}
    <3>1. CASE where = "asked"
      BY <1>3, <3>1
    <3>2. CASE where # "asked"
      <4>1. PICK t \in StartTLS : pc[t] \in {"asked", "raised"}
        BY <1>1, <2>1, <3>2 DEF ReaderInv
      <4>2. CASE t = o
        <5>1. where \in {"refused", "raised"} /\ t \notin abandoned
          BY <1>1, <4>1, <4>2 DEF Fine, InlineInv
        <5> QED
          BY <1>3, <2>1, <4>2, <5>1 DEF Refused
      <4>3. CASE t # o
        BY <1>3, <4>1, <4>3 DEF Ops
      <4> QED
        BY <4>2, <4>3
    <3> QED
      BY <3>1, <3>2
  <2> QED
    BY <1>1, <1>2, <2>1 DEF ReaderInv
<1> QED
  BY <1>4, <1>5, <1>7, <1>8 DEF ServerInv, TypeInv, OpInv, Fine

LEMMA AppSendsStep ==
    ASSUME ServerInv, NEW o \in Ops, AppSends(o)
    PROVE  ServerInv'
<1>1. PICK kind \in {"entry", "final"} :
         /\ kind = "entry" => entries[o] < MaxEntries /\ pc[o] = "app" /\ o \notin StartTLS
         /\ IF Refused(o)
            THEN MoveTo(o, "refused") /\ UNCHANGED <<tls, lockVars>>
            ELSE MoveTo(o, kind) /\ Respond(o)
  BY DEF AppSends
<1>2. /\ pc[o] \in {"app", "asked"} /\ pc[o] \in Live \ Writing /\ kind \in Writing
      /\ UNCHANGED <<stream, connected, open, operations, posts, reader, markVars, envVars>>
  BY DEF AppSends, Live, Writing
<1>3. CASE ~Refused(o)
  BY <1>1, <1>2, <1>3, Queueing
<1>4. CASE Refused(o)
  <2>1. MoveTo(o, "refused") /\ UNCHANGED <<tls, lockVars, clientVars, wireVars, closer>>
    BY <1>1, <1>2, <1>4 DEF envVars
  <2>2. tls' = (tls \/ "refused" = "asked") /\ closer' \in {"none", "started", "done"}
    BY <2>1 DEF ServerInv, TypeInv, ConnType, EnvType
  <2> QED
    BY <1>2, <1>4, <2>1, <2>2, Moving
<1> QED
  BY <1>3, <1>4

LEMMA PostStep ==
    ASSUME ServerInv, NEW o \in Ops, Post(o)
    PROVE  ServerInv'
<1>1. PICK event \in posts[o] : posts' = [posts EXCEPT ![o] = @ \ {event}]
  BY DEF Post
<1>2. /\ TypeInv /\ OpInv /\ ReaderInv /\ \A p \in Ops : Fine(p)
      /\ ConnType /\ OpsType /\ ReaderType /\ LockType /\ EnvType
  BY FineIsOpInv DEF ServerInv, TypeInv
<1>3. /\ pc[o] = "receiving" /\ pc' = [pc EXCEPT ![o] = "app"] /\ told' = told \cup {o}
      /\ UNCHANGED <<stream, connected, open, tls, operations, reader, abandoned, msgid, owed,
                     current, at, writers, closer, peer, unwanted, entries, finals, late>>
  BY DEF Post, MoveTo, connVars, lockVars, envVars, clientVars, wireVars
<1>4. /\ pc'[o] = "app" /\ \A p \in Ops \ {o} : pc'[p] = pc[p]
      /\ posts'[o] \subseteq posts[o] /\ \A p \in Ops \ {o} : posts'[p] = posts[p]
      /\ event \in {"abandon", "disconnect"}
  BY <1>1, <1>2, <1>3 DEF OpsType
<1>5. OpsType'
  BY <1>1, <1>2, <1>3 DEF OpsType, Live
<1>6. ConnType' /\ ReaderType' /\ LockType' /\ EnvType'
  BY <1>2, <1>3 DEF ConnType, ReaderType, LockType, EnvType
<1>7. pc[o] \in Live \ Writing /\ pc'[o] \in Live \ Writing
  BY <1>3, <1>4 DEF Live, Writing
<1>8. o \in abandoned \/ ~stream
  BY <1>2, <1>4 DEF Fine, ReasonInv
<1>9. ASSUME NEW p \in Ops PROVE Fine(p)'
  <2>1. Fine(p)
    BY <1>2
  <2>2. WriteInv(p)' /\ LateInv(p)' /\ RegisteredInv(p)'
    BY <1>3, <1>4, <1>7, <2>1 DEF Fine, WriteInv, LateInv, RegisteredInv
  <2>3. ReasonInv(p)' /\ OverInv(p)'
    BY <1>3, <1>4, <1>8, <2>1 DEF Fine, ReasonInv, OverInv
  <2>4. InlineInv(p)'
    BY <1>3, <1>4, <1>7, <2>1 DEF Fine, InlineInv, Ops
  <2> QED
    BY <2>2, <2>3, <2>4 DEF Fine
<1>10. ReaderInv'
  <2>1. \A s \in StartTLS : pc[s] \in {"asked", "raised"} => pc'[s] = pc[s]
    BY <1>3, <1>4 DEF Ops
  <2> QED
    BY <1>2, <1>3, <2>1 DEF ReaderInv
<1> QED
  BY <1>5, <1>6, <1>9, <1>10 DEF ServerInv, TypeInv, OpInv, Fine

LEMMA HandleRequestStep ==
    ASSUME ServerInv, NEW o \in Ops, NEW i \in Ids, HandleRequest(o, i)
    PROVE  ServerInv'
<1>1. /\ TypeInv /\ OpInv /\ ReaderInv /\ \A p \in Ops : Fine(p)
      /\ ConnType /\ OpsType /\ ReaderType /\ LockType /\ EnvType
  BY FineIsOpInv DEF ServerInv, TypeInv
<1>2. /\ pc[o] = "absent" /\ reader \in {"more", "idle"}
      /\ UNCHANGED <<stream, connected, open, tls, posts, abandoned, told, owed, current, at,
                     writers, closer, peer, unwanted, entries, finals, late>>
  BY DEF HandleRequest, HasRequest, connVars, lockVars, envVars, clientVars, wireVars
<1>3. ConnType' /\ LockType' /\ EnvType'
  BY <1>1, <1>2 DEF ConnType, LockType, EnvType
<1>4. CASE ~connected
  <2>1. reader' = "raised" /\ UNCHANGED <<operations, pc, msgid>>
    BY <1>4 DEF HandleRequest
  <2>2. OpsType' /\ ReaderType'
    BY <1>1, <1>2, <2>1 DEF OpsType, ReaderType
  <2>3. ASSUME NEW p \in Ops PROVE Fine(p)'
    <3>1. Fine(p)
      BY <1>1
    <3>2. WriteInv(p)' /\ LateInv(p)' /\ RegisteredInv(p)' /\ ReasonInv(p)' /\ InlineInv(p)'
      BY <1>2, <2>1, <3>1 DEF Fine, WriteInv, LateInv, RegisteredInv, ReasonInv, InlineInv
    <3>3. OverInv(p)'
      BY <1>2, <2>1, <3>1 DEF Fine, OverInv
    <3> QED
      BY <3>2, <3>3 DEF Fine
  <2>4. ReaderInv'
    BY <1>1, <1>2, <1>4, <2>1 DEF ReaderInv, ConnType
  <2> QED
    BY <1>3, <2>2, <2>3, <2>4 DEF ServerInv, TypeInv, OpInv, Fine
<1>5. CASE connected
  <2>1. /\ operations' = [operations EXCEPT ![i] = o] /\ msgid' = [msgid EXCEPT ![o] = i]
        /\ pc' = [pc EXCEPT ![o] = "app"]
        /\ reader' = IF o \in StartTLS THEN "inline" ELSE "more"
    BY <1>5 DEF HandleRequest, MoveTo
  <2>2. /\ pc'[o] = "app" /\ \A p \in Ops \ {o} : pc'[p] = pc[p]
        /\ msgid'[o] = i /\ \A p \in Ops \ {o} : msgid'[p] = msgid[p]
        /\ operations'[i] = o /\ \A j \in Ids \ {i} : operations'[j] = operations[j]
    BY <1>1, <2>1 DEF OpsType
  <2>3. OpsType'
    <3>1. i \in 0..MaxId
      BY ChoicesAssumption DEF Ids
    <3>2. operations' \in [Ids -> Ops \cup {Nobody}]
      BY <1>1, <2>1 DEF OpsType
    <3>3. msgid' \in [Ops -> 0..MaxId]
      BY <1>1, <2>1, <3>1 DEF OpsType
    <3>4. pc' \in [Ops -> {"absent", "returned", "cancelled"} \cup Live]
      BY <1>1, <2>1 DEF OpsType, Live
    <3> QED
      BY <1>1, <1>2, <3>2, <3>3, <3>4 DEF OpsType
  <2>4. ReaderType'
    BY <1>1, <1>2, <2>1 DEF ReaderType
  <2>5. /\ pc'[o] \in Live \ Writing /\ pc[o] \notin Live /\ pc[o] \notin Writing
        /\ \A s \in StartTLS : pc[s] \notin Live
    BY <1>2, <2>2, ReaderRuns DEF Live, Writing
  <2>6. ASSUME NEW p \in Ops PROVE Fine(p)'
    <3>1. Fine(p)
      BY <1>1
    <3>2. WriteInv(p)' /\ LateInv(p)'
      BY <1>2, <2>2, <2>5, <3>1 DEF Fine, WriteInv, LateInv
    <3>3. RegisteredInv(p)'
      BY <2>2, <2>5, <3>1 DEF Fine, RegisteredInv
    <3>4. ReasonInv(p)' /\ OverInv(p)'
      BY <1>2, <2>2, <3>1 DEF Fine, ReasonInv, OverInv
    <3>5. InlineInv(p)'
      BY <1>2, <2>1, <2>2, <2>5, <3>1 DEF Fine, InlineInv, Ops
    <3> QED
      BY <3>2, <3>3, <3>4, <3>5 DEF Fine
  <2>7. ReaderInv'
    BY <1>1, <1>2, <1>5, <2>1, <2>5, ReaderRuns DEF ReaderInv, Live
  <2> QED
    BY <1>3, <2>3, <2>4, <2>6, <2>7 DEF ServerInv, TypeInv, OpInv, Fine
<1> QED
  BY <1>4, <1>5

LEMMA HandleCancelStep ==
    ASSUME ServerInv, NEW c \in Cancels, NEW i \in Ids, HandleCancel(c, i)
    PROVE  ServerInv'
<1>1. /\ TypeInv /\ OpInv /\ ReaderInv /\ \A p \in Ops : Fine(p)
      /\ ConnType /\ OpsType /\ ReaderType /\ LockType /\ EnvType
  BY FineIsOpInv DEF ServerInv, TypeInv
<1>2. /\ reader \in {"more", "idle"}
      /\ UNCHANGED <<stream, connected, open, pc, msgid, told, closer, peer, unwanted, entries,
                     finals, late>>
  BY DEF HandleCancel, HasRequest, envVars, clientVars, wireVars
<1>3. EnvType /\ unwanted \subseteq abandoned
  BY <1>1 DEF EnvType
<1>4. CASE ~connected
  <2>1. reader' = "raised" /\ UNCHANGED <<tls, operations, posts, abandoned, owed, current, at,
                                          writers>>
    BY <1>4 DEF HandleCancel, lockVars
  <2>2. ConnType' /\ OpsType' /\ ReaderType' /\ LockType' /\ EnvType'
    BY <1>1, <1>2, <2>1 DEF ConnType, OpsType, ReaderType, LockType, EnvType
  <2>3. ASSUME NEW p \in Ops PROVE Fine(p)'
    <3>1. Fine(p)
      BY <1>1
    <3>2. WriteInv(p)' /\ LateInv(p)' /\ RegisteredInv(p)' /\ ReasonInv(p)' /\ InlineInv(p)'
      BY <1>2, <2>1, <3>1 DEF Fine, WriteInv, LateInv, RegisteredInv, ReasonInv, InlineInv
    <3>3. OverInv(p)'
      BY <1>2, <2>1, <3>1 DEF Fine, OverInv
    <3> QED
      BY <3>2, <3>3 DEF Fine
  <2>4. ReaderInv'
    BY <1>1, <1>2, <1>4, <2>1 DEF ReaderInv, ConnType
  <2> QED
    BY <2>2, <2>3, <2>4 DEF ServerInv, TypeInv, OpInv, Fine
<1>5. CASE connected
  <2>1. /\ Abandon(i) /\ current' = c /\ owed' = operations[i] /\ tls' = FALSE
        /\ operations[i] # Nobody => reader' = "canceling" /\ Respond(Reader)
        /\ operations[i] = Nobody => reader' = "replying" /\ UNCHANGED <<at, writers>>
    BY <1>2, <1>5, ReaderRuns DEF HandleCancel, Cancel, Respond, lockVars
  <2>2. ~tls /\ stream /\ \A s \in StartTLS : pc[s] \notin Live
    BY <1>2, <1>5, ReaderRuns
  <2>3. /\ LockType' /\ \A p \in Ops : at'[p] = at[p]
        /\ operations[i] # Nobody => at'[Reader] = "lock"
        /\ operations[i] = Nobody => at'[Reader] = at[Reader]
    BY <1>1, <2>1, <2>2, Responding, ReaderIsApart DEF LockType
  <2>4. operations[i] \in Ops \cup {Nobody} /\ Nobody \notin Ops
    BY <1>1, RequestsAssumption DEF OpsType
  <2>5. /\ \A j \in Ids : operations'[j] \in {operations[j], Nobody}
        /\ abandoned' = abandoned \cup ({operations[i]} \ {Nobody})
        /\ \A p \in Ops : posts'[p] = IF p = operations[i] THEN posts[p] \cup {"abandon"}
                                                           ELSE posts[p]
    BY <1>1, <1>5, <2>1 DEF Abandon, OpsType
  <2>6. OpsType'
    <3>1. operations' \in [Ids -> Ops \cup {Nobody}]
      BY <1>1, <2>1 DEF OpsType, Abandon
    <3>2. abandoned' \subseteq Ops
      BY <1>1, <2>4, <2>5 DEF OpsType
    <3>3. posts' \in [Ops -> SUBSET {"abandon", "disconnect"}]
      BY <1>1, <2>1 DEF OpsType, Abandon
    <3> QED
      BY <1>1, <1>2, <3>1, <3>2, <3>3 DEF OpsType
  <2>7. ConnType' /\ ReaderType' /\ EnvType'
    <3>1. ConnType'
      BY <1>1, <1>2, <2>1 DEF ConnType
    <3>2. ReaderType'
      BY <1>1, <2>1, <2>4 DEF ReaderType
    <3>3. EnvType'
      BY <1>1, <1>2, <2>5 DEF EnvType
    <3> QED
      BY <3>1, <3>2, <3>3
  <2>8. ASSUME NEW p \in Ops PROVE Fine(p)'
    <3>1. Fine(p) /\ (p = operations[i] => pc[p] \in Live)
      BY <1>1 DEF Fine, RegisteredInv
    <3>2. WriteInv(p)' /\ LateInv(p)'
      BY <1>2, <2>3, <2>5, <3>1 DEF Fine, WriteInv, LateInv
    <3>3. RegisteredInv(p)' /\ ReasonInv(p)'
      <4>1. RegisteredInv(p)'
        BY <1>2, <2>4, <2>5, <3>1 DEF Fine, RegisteredInv
      <4>2. ReasonInv(p)'
        <5>1. "abandon" \in posts'[p] => p \in abandoned'
          BY <2>4, <2>5, <3>1 DEF Fine, ReasonInv
        <5>2. "disconnect" \in posts'[p] => "disconnect" \in posts[p]
          <6>1. CASE p = operations[i]
            <7>1. posts'[p] = posts[p] \cup {"abandon"}
              BY <2>5, <6>1
            <7> QED
              BY <7>1
          <6>2. CASE p # operations[i]
            BY <2>5, <6>2
          <6> QED
            BY <6>1, <6>2
        <5> QED
          BY <1>2, <2>5, <3>1, <5>1, <5>2 DEF Fine, ReasonInv
      <4> QED
        BY <4>1, <4>2
    <3>4. InlineInv(p)'
      BY <1>2, <2>2, <2>4, <2>5, <3>1 DEF Fine, InlineInv, Ops
    <3>5. OverInv(p)'
      <4>1. p \in abandoned' \ unwanted' =>
              finals'[p] > 0 \/ (reader' = "canceling" /\ owed' = p)
        BY <1>2, <2>1, <2>2, <2>4, <2>5, <3>1 DEF Fine, OverInv
      <4> QED
        BY <1>2, <2>5, <3>1, <4>1 DEF Fine, OverInv
    <3> QED
      BY <3>2, <3>3, <3>4, <3>5 DEF Fine
  <2>9. ReaderInv'
    BY <1>1, <1>2, <2>1, <2>2, <2>3, <2>4 DEF ReaderInv
  <2> QED
    BY <2>3, <2>6, <2>7, <2>8, <2>9 DEF ServerInv, TypeInv, OpInv, Fine
<1> QED
  BY <1>4, <1>5

LEMMA WriteBrokenStep ==
    ASSUME ServerInv, NEW w \in Writers, WriteBroken(w)
    PROVE  ServerInv'
<1> USE RequestsAssumption, ChoicesAssumption DEF WriteBroken, MoveTo, Registered, Busy,
        connVars, taskVars, markVars, lockVars, wireVars, clientVars, envVars, HasTurn, Aclose,
        TellDisconnect
<1>1. TypeInv /\ OpInv /\ ReaderInv
  BY DEF ServerInv
<1> USE DEF ConnType, OpsType, ReaderType, LockType, EnvType
<1>2. ConnType'
  BY <1>1 DEF TypeInv
<1>3. OpsType'
  BY <1>1 DEF TypeInv, Live, Writing
<1>4. ReaderType'
  BY <1>1 DEF TypeInv
<1>5. LockType'
  BY <1>1 DEF TypeInv, Writers
<1>6. EnvType'
  BY <1>1 DEF TypeInv, Requests
<1>7. ASSUME NEW p \in Ops PROVE Fine(p)'
  <2>1. Fine(p)
    BY <1>1 DEF OpInv, Fine
  <2>2. WriteInv(p)'
    BY <1>1, <2>1 DEF TypeInv, Fine, WriteInv, ReaderInv, Writing, Writers, Live, Requests
  <2>3. RegisteredInv(p)'
    BY <1>1, <2>1 DEF TypeInv, Fine, RegisteredInv, Writing, Live
  <2>4. ReasonInv(p)'
    BY <1>1, <2>1 DEF TypeInv, Fine, ReasonInv, Writing, Live
  <2>5. OverInv(p)'
    BY <1>1, <2>1 DEF TypeInv, OpInv, Fine, OverInv, WriteInv, ReasonInv, ReaderInv, Writing,
       Live, Requests, Writers
  <2>6. InlineInv(p)'
    BY <1>1, <2>1 DEF TypeInv, OpInv, Fine, InlineInv, RegisteredInv, ReaderInv, Live, Writing,
       Ops
  <2>7. LateInv(p)'
    BY <1>1, <2>1 DEF TypeInv, Fine, LateInv, WriteInv, Writing, Writers
  <2> QED
    BY <2>2, <2>3, <2>4, <2>5, <2>6, <2>7 DEF Fine
<1>8. ReaderInv'
  BY <1>1 DEF TypeInv, OpInv, InlineInv, RegisteredInv, WriteInv, ReaderInv, Live, Writing,
     Writers, Ops
<1> QED
  BY <1>2, <1>3, <1>4, <1>5, <1>6, <1>7, <1>8 DEF ServerInv, TypeInv, OpInv, Fine

LEMMA ReplyStep ==
    ASSUME ServerInv, Reply
    PROVE  ServerInv'
<1> USE RequestsAssumption, ChoicesAssumption DEF Reply, MoveTo, Registered, Busy, connVars,
        taskVars, markVars, lockVars, wireVars, clientVars, envVars, Respond
<1>1. TypeInv /\ OpInv /\ ReaderInv
  BY DEF ServerInv
<1> USE DEF ConnType, OpsType, ReaderType, LockType, EnvType
<1>2. ConnType'
  BY <1>1 DEF TypeInv
<1>3. OpsType'
  BY <1>1 DEF TypeInv, Live, Writing
<1>4. ReaderType'
  BY <1>1 DEF TypeInv
<1>5. LockType'
  <2>1. CASE connected
    BY <1>1, <2>1, Responding, ReaderIsApart
  <2>2. CASE ~connected
    BY <1>1, <2>2 DEF TypeInv
  <2> QED
    BY <2>1, <2>2
<1>6. EnvType'
  BY <1>1 DEF TypeInv, Requests
<1>7. ASSUME NEW p \in Ops PROVE Fine(p)'
  <2>1. Fine(p)
    BY <1>1 DEF OpInv, Fine
  <2>2. WriteInv(p)'
    BY <1>1, <2>1 DEF TypeInv, Fine, WriteInv, ReaderInv, Writing, Writers, Live, Requests
  <2>3. RegisteredInv(p)'
    BY <1>1, <2>1 DEF TypeInv, Fine, RegisteredInv, Writing, Live
  <2>4. ReasonInv(p)'
    BY <1>1, <2>1 DEF TypeInv, Fine, ReasonInv, Writing, Live
  <2>5. OverInv(p)'
    BY <1>1, <2>1 DEF TypeInv, OpInv, Fine, OverInv, WriteInv, ReasonInv, ReaderInv, Writing,
       Live, Requests, Writers
  <2>6. InlineInv(p)'
    BY <1>1, <2>1 DEF TypeInv, OpInv, Fine, InlineInv, RegisteredInv, ReaderInv, Live, Writing,
       Ops
  <2>7. LateInv(p)'
    BY <1>1, <2>1 DEF TypeInv, Fine, LateInv, WriteInv, Writing, Writers
  <2> QED
    BY <2>2, <2>3, <2>4, <2>5, <2>6, <2>7 DEF Fine
<1>8. ReaderInv'
  BY <1>1 DEF TypeInv, OpInv, InlineInv, RegisteredInv, WriteInv, ReaderInv, Live, Writing,
     Writers, Ops
<1> QED
  BY <1>2, <1>3, <1>4, <1>5, <1>6, <1>7, <1>8 DEF ServerInv, TypeInv, OpInv, Fine

LEMMA ReadOnStep ==
    ASSUME ServerInv, ReadOn
    PROVE  ServerInv'
<1> USE RequestsAssumption, ChoicesAssumption DEF ReadOn, MoveTo, Registered, Busy, connVars,
        taskVars, markVars, lockVars, wireVars, clientVars, envVars
<1>1. TypeInv /\ OpInv /\ ReaderInv
  BY DEF ServerInv
<1> USE DEF ConnType, OpsType, ReaderType, LockType, EnvType
<1>2. ConnType'
  BY <1>1 DEF TypeInv
<1>3. OpsType'
  BY <1>1 DEF TypeInv, Live, Writing
<1>4. ReaderType'
  BY <1>1 DEF TypeInv
<1>5. LockType'
  BY <1>1 DEF TypeInv, Writers
<1>6. EnvType'
  BY <1>1 DEF TypeInv, Requests
<1>7. ASSUME NEW p \in Ops PROVE Fine(p)'
  <2>1. Fine(p)
    BY <1>1 DEF OpInv, Fine
  <2>2. WriteInv(p)'
    BY <1>1, <2>1 DEF TypeInv, Fine, WriteInv, ReaderInv, Writing, Writers, Live, Requests
  <2>3. RegisteredInv(p)'
    BY <1>1, <2>1 DEF TypeInv, Fine, RegisteredInv, Writing, Live
  <2>4. ReasonInv(p)'
    BY <1>1, <2>1 DEF TypeInv, Fine, ReasonInv, Writing, Live
  <2>5. OverInv(p)'
    BY <1>1, <2>1 DEF TypeInv, OpInv, Fine, OverInv, WriteInv, ReasonInv, ReaderInv, Writing,
       Live, Requests, Writers
  <2>6. InlineInv(p)'
    BY <1>1, <2>1 DEF TypeInv, OpInv, Fine, InlineInv, RegisteredInv, ReaderInv, Live, Writing,
       Ops
  <2>7. LateInv(p)'
    BY <1>1, <2>1 DEF TypeInv, Fine, LateInv, WriteInv, Writing, Writers
  <2> QED
    BY <2>2, <2>3, <2>4, <2>5, <2>6, <2>7 DEF Fine
<1>8. ReaderInv'
  BY <1>1 DEF TypeInv, OpInv, InlineInv, RegisteredInv, WriteInv, ReaderInv, Live, Writing,
     Writers, Ops
<1> QED
  BY <1>2, <1>3, <1>4, <1>5, <1>6, <1>7, <1>8 DEF ServerInv, TypeInv, OpInv, Fine

LEMMA ReaderEndsStep ==
    ASSUME ServerInv, ReaderEnds
    PROVE  ServerInv'
<1> USE RequestsAssumption, ChoicesAssumption DEF ReaderEnds, MoveTo, Registered, Busy, connVars,
        taskVars, markVars, lockVars, wireVars, clientVars, envVars
<1>1. TypeInv /\ OpInv /\ ReaderInv
  BY DEF ServerInv
<1> USE DEF ConnType, OpsType, ReaderType, LockType, EnvType
<1>2. ConnType'
  BY <1>1 DEF TypeInv
<1>3. OpsType'
  BY <1>1 DEF TypeInv, Live, Writing
<1>4. ReaderType'
  BY <1>1 DEF TypeInv
<1>5. LockType'
  BY <1>1 DEF TypeInv, Writers
<1>6. EnvType'
  BY <1>1 DEF TypeInv, Requests
<1>7. ASSUME NEW p \in Ops PROVE Fine(p)'
  <2>1. Fine(p)
    BY <1>1 DEF OpInv, Fine
  <2>2. WriteInv(p)'
    BY <1>1, <2>1 DEF TypeInv, Fine, WriteInv, ReaderInv, Writing, Writers, Live, Requests
  <2>3. RegisteredInv(p)'
    BY <1>1, <2>1 DEF TypeInv, Fine, RegisteredInv, Writing, Live
  <2>4. ReasonInv(p)'
    BY <1>1, <2>1 DEF TypeInv, Fine, ReasonInv, Writing, Live
  <2>5. OverInv(p)'
    BY <1>1, <2>1 DEF TypeInv, OpInv, Fine, OverInv, WriteInv, ReasonInv, ReaderInv, Writing,
       Live, Requests, Writers
  <2>6. InlineInv(p)'
    BY <1>1, <2>1 DEF TypeInv, OpInv, Fine, InlineInv, RegisteredInv, ReaderInv, Live, Writing,
       Ops
  <2>7. LateInv(p)'
    BY <1>1, <2>1 DEF TypeInv, Fine, LateInv, WriteInv, Writing, Writers
  <2> QED
    BY <2>2, <2>3, <2>4, <2>5, <2>6, <2>7 DEF Fine
<1>8. ReaderInv'
  BY <1>1 DEF TypeInv, OpInv, InlineInv, RegisteredInv, WriteInv, ReaderInv, Live, Writing,
     Writers, Ops
<1> QED
  BY <1>2, <1>3, <1>4, <1>5, <1>6, <1>7, <1>8 DEF ServerInv, TypeInv, OpInv, Fine

LEMMA ReaderLosesStep ==
    ASSUME ServerInv, ReaderLoses
    PROVE  ServerInv'
<1> USE RequestsAssumption, ChoicesAssumption DEF ReaderLoses, MoveTo, Registered, Busy,
        connVars, taskVars, markVars, lockVars, wireVars, clientVars, envVars, Aclose,
        TellDisconnect
<1>1. TypeInv /\ OpInv /\ ReaderInv
  BY DEF ServerInv
<1> USE DEF ConnType, OpsType, ReaderType, LockType, EnvType
<1>2. ConnType'
  BY <1>1 DEF TypeInv
<1>3. OpsType'
  BY <1>1 DEF TypeInv, Live, Writing
<1>4. ReaderType'
  BY <1>1 DEF TypeInv
<1>5. LockType'
  BY <1>1 DEF TypeInv, Writers
<1>6. EnvType'
  BY <1>1 DEF TypeInv, Requests
<1>7. ASSUME NEW p \in Ops PROVE Fine(p)'
  <2>1. Fine(p)
    BY <1>1 DEF OpInv, Fine
  <2>2. WriteInv(p)'
    BY <1>1, <2>1 DEF TypeInv, Fine, WriteInv, ReaderInv, Writing, Writers, Live, Requests
  <2>3. RegisteredInv(p)'
    BY <1>1, <2>1 DEF TypeInv, Fine, RegisteredInv, Writing, Live
  <2>4. ReasonInv(p)'
    BY <1>1, <2>1 DEF TypeInv, Fine, ReasonInv, Writing, Live
  <2>5. OverInv(p)'
    BY <1>1, <2>1 DEF TypeInv, OpInv, Fine, OverInv, WriteInv, ReasonInv, ReaderInv, Writing,
       Live, Requests, Writers
  <2>6. InlineInv(p)'
    BY <1>1, <2>1 DEF TypeInv, OpInv, Fine, InlineInv, RegisteredInv, ReaderInv, Live, Writing,
       Ops
  <2>7. LateInv(p)'
    BY <1>1, <2>1 DEF TypeInv, Fine, LateInv, WriteInv, Writing, Writers
  <2> QED
    BY <2>2, <2>3, <2>4, <2>5, <2>6, <2>7 DEF Fine
<1>8. ReaderInv'
  BY <1>1 DEF TypeInv, OpInv, InlineInv, RegisteredInv, WriteInv, ReaderInv, Live, Writing,
     Writers, Ops
<1> QED
  BY <1>2, <1>3, <1>4, <1>5, <1>6, <1>7, <1>8 DEF ServerInv, TypeInv, OpInv, Fine

LEMMA CloseStep ==
    ASSUME ServerInv, Close
    PROVE  ServerInv'
<1> USE RequestsAssumption, ChoicesAssumption DEF Close, MoveTo, Registered, Busy, connVars,
        taskVars, markVars, lockVars, wireVars, clientVars, envVars, Aclose, TellDisconnect
<1>1. TypeInv /\ OpInv /\ ReaderInv
  BY DEF ServerInv
<1> USE DEF ConnType, OpsType, ReaderType, LockType, EnvType
<1>2. ConnType'
  BY <1>1 DEF TypeInv
<1>3. OpsType'
  BY <1>1 DEF TypeInv, Live, Writing
<1>4. ReaderType'
  BY <1>1 DEF TypeInv
<1>5. LockType'
  BY <1>1 DEF TypeInv, Writers
<1>6. EnvType'
  BY <1>1 DEF TypeInv, Requests
<1>7. ASSUME NEW p \in Ops PROVE Fine(p)'
  <2>1. Fine(p)
    BY <1>1 DEF OpInv, Fine
  <2>2. WriteInv(p)'
    BY <1>1, <2>1 DEF TypeInv, Fine, WriteInv, ReaderInv, Writing, Writers, Live, Requests
  <2>3. RegisteredInv(p)'
    BY <1>1, <2>1 DEF TypeInv, Fine, RegisteredInv, Writing, Live
  <2>4. ReasonInv(p)'
    BY <1>1, <2>1 DEF TypeInv, Fine, ReasonInv, Writing, Live
  <2>5. OverInv(p)'
    BY <1>1, <2>1 DEF TypeInv, OpInv, Fine, OverInv, WriteInv, ReasonInv, ReaderInv, Writing,
       Live, Requests, Writers
  <2>6. InlineInv(p)'
    BY <1>1, <2>1 DEF TypeInv, OpInv, Fine, InlineInv, RegisteredInv, ReaderInv, Live, Writing,
       Ops
  <2>7. LateInv(p)'
    BY <1>1, <2>1 DEF TypeInv, Fine, LateInv, WriteInv, Writing, Writers
  <2> QED
    BY <2>2, <2>3, <2>4, <2>5, <2>6, <2>7 DEF Fine
<1>8. ReaderInv'
  BY <1>1 DEF TypeInv, OpInv, InlineInv, RegisteredInv, WriteInv, ReaderInv, Live, Writing,
     Writers, Ops
<1> QED
  BY <1>2, <1>3, <1>4, <1>5, <1>6, <1>7, <1>8 DEF ServerInv, TypeInv, OpInv, Fine

LEMMA CrashStep ==
    ASSUME ServerInv, Crash
    PROVE  ServerInv'
<1> USE RequestsAssumption, ChoicesAssumption DEF Crash, MoveTo, Registered, Busy, connVars,
        taskVars, markVars, lockVars, wireVars, clientVars, envVars
<1>1. TypeInv /\ OpInv /\ ReaderInv
  BY DEF ServerInv
<1> USE DEF ConnType, OpsType, ReaderType, LockType, EnvType
<1>2. ConnType'
  BY <1>1 DEF TypeInv
<1>3. OpsType'
  BY <1>1 DEF TypeInv, Live, Writing
<1>4. ReaderType'
  BY <1>1 DEF TypeInv
<1>5. LockType'
  BY <1>1 DEF TypeInv, Writers
<1>6. EnvType'
  BY <1>1 DEF TypeInv, Requests
<1>7. ASSUME NEW p \in Ops PROVE Fine(p)'
  <2>1. Fine(p)
    BY <1>1 DEF OpInv, Fine
  <2>2. WriteInv(p)'
    BY <1>1, <2>1 DEF TypeInv, Fine, WriteInv, ReaderInv, Writing, Writers, Live, Requests
  <2>3. RegisteredInv(p)'
    BY <1>1, <2>1 DEF TypeInv, Fine, RegisteredInv, Writing, Live
  <2>4. ReasonInv(p)'
    BY <1>1, <2>1 DEF TypeInv, Fine, ReasonInv, Writing, Live
  <2>5. OverInv(p)'
    BY <1>1, <2>1 DEF TypeInv, OpInv, Fine, OverInv, WriteInv, ReasonInv, ReaderInv, Writing,
       Live, Requests, Writers
  <2>6. InlineInv(p)'
    BY <1>1, <2>1 DEF TypeInv, OpInv, Fine, InlineInv, RegisteredInv, ReaderInv, Live, Writing,
       Ops
  <2>7. LateInv(p)'
    BY <1>1, <2>1 DEF TypeInv, Fine, LateInv, WriteInv, Writing, Writers
  <2> QED
    BY <2>2, <2>3, <2>4, <2>5, <2>6, <2>7 DEF Fine
<1>8. ReaderInv'
  BY <1>1 DEF TypeInv, OpInv, InlineInv, RegisteredInv, WriteInv, ReaderInv, Live, Writing,
     Writers, Ops
<1> QED
  BY <1>2, <1>3, <1>4, <1>5, <1>6, <1>7, <1>8 DEF ServerInv, TypeInv, OpInv, Fine

LEMMA AppClosesStep ==
    ASSUME ServerInv, NEW o \in Ops, AppCloses(o)
    PROVE  ServerInv'
<1> DEFINE where == IF Refused(o) THEN "refused" ELSE "answered"
<1>1. closer' \in {"none", "started", "done"} /\ tls' = (tls \/ where = "asked")
  BY DEF ServerInv, TypeInv, ConnType, EnvType, AppCloses, connVars
<1>2. /\ pc[o] = "app" /\ o \in Unbinds /\ MoveTo(o, where)
      /\ UNCHANGED <<stream, connected, open, lockVars, operations, posts, reader, markVars,
                     clientVars, wireVars>>
  BY DEF AppCloses, connVars
<1> QED
  BY <1>1, <1>2, Moving

LEMMA AppAsksTLSStep ==
    ASSUME ServerInv, NEW o \in Ops, AppAsksTLS(o)
    PROVE  ServerInv'
<1> DEFINE where == IF Refused(o) THEN "refused" ELSE "asked"
<1>1. closer' \in {"none", "started", "done"} /\ tls' = (tls \/ where = "asked")
  BY DEF ServerInv, TypeInv, ConnType, EnvType, AppAsksTLS, envVars
<1>2. /\ pc[o] = "app" /\ o \in StartTLS /\ MoveTo(o, where)
      /\ UNCHANGED <<stream, connected, open, lockVars, operations, posts, reader, markVars,
                     clientVars, wireVars>>
  BY DEF AppAsksTLS, envVars
<1> QED
  BY <1>1, <1>2, Moving

LEMMA AppReceivesStep ==
    ASSUME ServerInv, NEW o \in Ops, AppReceives(o)
    PROVE  ServerInv'
<1>1. closer \in {"none", "started", "done"} /\ tls' = (tls \/ "receiving" = "asked")
  BY DEF ServerInv, TypeInv, ConnType, EnvType, AppReceives, connVars
<1> QED
  BY <1>1, Moving DEF AppReceives, connVars, envVars

LEMMA AppRaisesStep ==
    ASSUME ServerInv, NEW o \in Ops, AppRaises(o)
    PROVE  ServerInv'
<1>1. closer \in {"none", "started", "done"} /\ tls' = (tls \/ "raised" = "asked")
  BY DEF ServerInv, TypeInv, ConnType, EnvType, AppRaises, connVars
<1> QED
  BY <1>1, Moving DEF AppRaises, connVars, envVars

LEMMA HandleAbandonStep ==
    ASSUME ServerInv, NEW i \in Ids, HandleAbandon(i)
    PROVE  ServerInv'
<1> USE RequestsAssumption, ChoicesAssumption DEF HandleAbandon, MoveTo, Registered, Busy,
        connVars, taskVars, markVars, lockVars, wireVars, clientVars, envVars, HasRequest, Abandon
<1>1. TypeInv /\ OpInv /\ ReaderInv
  BY DEF ServerInv
<1> USE DEF ConnType, OpsType, ReaderType, LockType, EnvType
<1>2. ConnType'
  BY <1>1 DEF TypeInv
<1>3. OpsType'
  BY <1>1 DEF TypeInv, Live, Writing
<1>4. ReaderType'
  BY <1>1 DEF TypeInv
<1>5. LockType'
  BY <1>1 DEF TypeInv, Writers
<1>6. EnvType'
  BY <1>1 DEF TypeInv, Requests
<1>7. ASSUME NEW p \in Ops PROVE Fine(p)'
  <2>1. Fine(p)
    BY <1>1 DEF OpInv, Fine
  <2>2. WriteInv(p)'
    BY <1>1, <2>1 DEF TypeInv, Fine, WriteInv, ReaderInv, Writing, Writers, Live, Requests
  <2>3. RegisteredInv(p)'
    BY <1>1, <2>1 DEF TypeInv, Fine, RegisteredInv, Writing, Live
  <2>4. ReasonInv(p)'
    BY <1>1, <2>1 DEF TypeInv, Fine, ReasonInv, Writing, Live
  <2>5. OverInv(p)'
    BY <1>1, <2>1 DEF TypeInv, OpInv, Fine, OverInv, WriteInv, ReasonInv, ReaderInv, Writing,
       Live, Requests, Writers
  <2>6. InlineInv(p)'
    BY <1>1, <2>1 DEF TypeInv, OpInv, Fine, InlineInv, RegisteredInv, ReaderInv, Live, Writing,
       Ops
  <2>7. LateInv(p)'
    BY <1>1, <2>1 DEF TypeInv, Fine, LateInv, WriteInv, Writing, Writers
  <2> QED
    BY <2>2, <2>3, <2>4, <2>5, <2>6, <2>7 DEF Fine
<1>8. ReaderInv'
  BY <1>1 DEF TypeInv, OpInv, InlineInv, RegisteredInv, WriteInv, ReaderInv, Live, Writing,
     Writers, Ops
<1> QED
  BY <1>2, <1>3, <1>4, <1>5, <1>6, <1>7, <1>8 DEF ServerInv, TypeInv, OpInv, Fine

LEMMA PeerClosesStep ==
    ASSUME ServerInv, PeerCloses
    PROVE  ServerInv'
<1> USE RequestsAssumption, ChoicesAssumption DEF PeerCloses, MoveTo, Registered, Busy, connVars,
        taskVars, markVars, lockVars, wireVars, clientVars, envVars
<1>1. TypeInv /\ OpInv /\ ReaderInv
  BY DEF ServerInv
<1> USE DEF ConnType, OpsType, ReaderType, LockType, EnvType
<1>2. ConnType'
  BY <1>1 DEF TypeInv
<1>3. OpsType'
  BY <1>1 DEF TypeInv, Live, Writing
<1>4. ReaderType'
  BY <1>1 DEF TypeInv
<1>5. LockType'
  BY <1>1 DEF TypeInv, Writers
<1>6. EnvType'
  BY <1>1 DEF TypeInv, Requests
<1>7. ASSUME NEW p \in Ops PROVE Fine(p)'
  <2>1. Fine(p)
    BY <1>1 DEF OpInv, Fine
  <2>2. WriteInv(p)'
    BY <1>1, <2>1 DEF TypeInv, Fine, WriteInv, ReaderInv, Writing, Writers, Live, Requests
  <2>3. RegisteredInv(p)'
    BY <1>1, <2>1 DEF TypeInv, Fine, RegisteredInv, Writing, Live
  <2>4. ReasonInv(p)'
    BY <1>1, <2>1 DEF TypeInv, Fine, ReasonInv, Writing, Live
  <2>5. OverInv(p)'
    BY <1>1, <2>1 DEF TypeInv, OpInv, Fine, OverInv, WriteInv, ReasonInv, ReaderInv, Writing,
       Live, Requests, Writers
  <2>6. InlineInv(p)'
    BY <1>1, <2>1 DEF TypeInv, OpInv, Fine, InlineInv, RegisteredInv, ReaderInv, Live, Writing,
       Ops
  <2>7. LateInv(p)'
    BY <1>1, <2>1 DEF TypeInv, Fine, LateInv, WriteInv, Writing, Writers
  <2> QED
    BY <2>2, <2>3, <2>4, <2>5, <2>6, <2>7 DEF Fine
<1>8. ReaderInv'
  BY <1>1 DEF TypeInv, OpInv, InlineInv, RegisteredInv, WriteInv, ReaderInv, Live, Writing,
     Writers, Ops
<1> QED
  BY <1>2, <1>3, <1>4, <1>5, <1>6, <1>7, <1>8 DEF ServerInv, TypeInv, OpInv, Fine

LEMMA ServerStep ==
    ASSUME ServerInv, [Next]_vars
    PROVE  ServerInv'
<1>1. CASE UNCHANGED vars
  <2>1. UNCHANGED <<stream, connected, open, tls, operations, posts, pc, reader, abandoned, msgid,
                    told, owed, current, at, writers, closer, peer, unwanted, entries, finals,
                    late>>
    BY <1>1 DEF vars, connVars, taskVars, markVars, lockVars, envVars, clientVars, wireVars
  <2>2. TypeInv'
    BY <2>1 DEF ServerInv, TypeInv, ConnType, OpsType, ReaderType, LockType, EnvType
  <2>3. ASSUME NEW p \in Ops PROVE Fine(p)'
    <3>1. Fine(p)
      BY FineIsOpInv DEF ServerInv
    <3> QED
      BY <2>1, <3>1 DEF Fine, WriteInv, RegisteredInv, ReasonInv, OverInv, InlineInv, LateInv
  <2>4. ReaderInv'
    BY <2>1 DEF ServerInv, ReaderInv
  <2> QED
    BY <2>2, <2>3, <2>4 DEF ServerInv, OpInv, Fine
<1>2. CASE \/ \E w \in Writers : WriteProgress(w) \/ UpgradeFails(w)
           \/ \E s \in StartTLS : UpgradeEndsReader(s)
  BY <1>2, BeginWriteStep, WriteStep, WriteBrokenStep, WriteClosedStep, UpgradeSendsStep,
     HandshakeDoneStep, UpgradeFailsStep, UpgradeEndsReaderStep DEF WriteProgress
<1>3. CASE ServerProgress
  BY <1>3, ReplyStep, ReadOnStep, ReaderEndsStep, ReaderLosesStep, CloseStep, CrashStep
     DEF ServerProgress
<1>4. CASE \E o \in Ops : AppProgress(o) \/ AppReceives(o) \/ AppRaises(o) \/ Fail(o) \/ Post(o)
  BY <1>4, AppSendsStep, AppReturnsStep, AppClosesStep, AppAsksTLSStep, AppReceivesStep,
     AppRaisesStep, FailStep, PostStep DEF AppProgress
<1>5. CASE \/ \E o \in Ops, i \in Ids : HandleRequest(o, i)
           \/ \E i \in Ids : HandleAbandon(i)
           \/ \E c \in Cancels, i \in Ids : HandleCancel(c, i)
           \/ PeerCloses
  BY <1>5, HandleRequestStep, HandleAbandonStep, HandleCancelStep, PeerClosesStep
<1> QED
  BY <1>1, <1>2, <1>3, <1>4, <1>5 DEF Next

LEMMA ServerInvariant == Spec => []ServerInv
<1>1. Init => ServerInv
  BY InitServer
<1>2. ServerInv /\ [Next]_vars => ServerInv'
  BY ServerStep
<1> QED
  BY <1>1, <1>2, PTL DEF Spec

\* Nobody is left waiting: an operation that is over and that the client has
\* not abandoned was answered, whoever had to (_send_event, _fail, cancel), or
\* the connection is going.  For any requests, with ids used again or not.
THEOREM EverybodyIsAnswered == Spec => []Answered
<1>1. ServerInv => Answered
  <2> SUFFICES ASSUME ServerInv PROVE Answered
    OBVIOUS
  <2>1. TypeOK
    BY DEF ServerInv, TypeInv, ConnType, OpsType, ReaderType, LockType, EnvType, TypeOK
  <2>2. ASSUME NEW o \in Ordinary \cup StartTLS, pc[o] = "returned", o \notin unwanted
        PROVE  finals[o] > 0 \/ ~stream \/ (reader = "canceling" /\ owed = o)
    <3>1. o \in Ops /\ o \notin Unbinds
      BY RequestsAssumption DEF Ops
    <3>2. Fine(o)
      BY <3>1, FineIsOpInv DEF ServerInv
    <3> QED
      BY <2>2, <3>1, <3>2 DEF Fine, OverInv
  <2> QED
    BY <2>1, <2>2 DEF Answered
<1> QED
  BY <1>1, ServerInvariant, PTL

\* What abandon promises of an operation it has given up: of the messages its
\* application sends, only one that was on its way through the lock is written.
THEOREM LateWritesEnd == Spec => []LateWritesAreOver
<1>1. ServerInv => LateWritesAreOver
  BY FineIsOpInv DEF ServerInv, LateWritesAreOver, Fine, LateInv
<1> QED
  BY <1>1, ServerInvariant, PTL

-----------------------------------------------------------------------------
(* Who runs is found by its id.                                            *)

\* A step that hands out no id and starts nobody, and after which an operation
\* that still runs, and is not given up, is registered as it was.
Keeps ==
    /\ msgid' = msgid /\ abandoned \subseteq abandoned'
    /\ \A p \in Ops : /\ pc'[p] = "absent" <=> pc[p] = "absent"
                      /\ pc'[p] \in Live => pc[p] \in Live
                      /\ pc'[p] \in Live /\ p \notin abandoned' /\ operations[msgid[p]] = p
                           => operations'[msgid[p]] = p

LEMMA KeepsFound ==
    ASSUME FoundInv, Keeps
    PROVE  FoundInv'
<1>1. \A p \in Ops : msgid'[p] = msgid[p]
  BY DEF Keeps
<1>2. (\A p \in Ops : pc[p] = "absent" <=> msgid[p] = 0)'
  BY <1>1 DEF FoundInv, Keeps
<1>3. (\A p, q \in Ops : msgid[p] = msgid[q] /\ msgid[p] # 0 => p = q)'
  BY <1>1 DEF FoundInv
<1>4. ASSUME NEW p \in Ops, pc'[p] \in Live, p \notin abandoned'
      PROVE  operations'[msgid'[p]] = p
  <2>1. pc[p] \in Live /\ p \notin abandoned
    BY <1>4 DEF Keeps
  <2>2. operations[msgid[p]] = p
    BY <2>1 DEF FoundInv
  <2> QED
    BY <1>1, <1>4, <2>2 DEF Keeps
<1> QED
  BY <1>2, <1>3, <1>4 DEF FoundInv

\* The end of one operation leaves the others where they are registered.
LEMMA EndKeeps ==
    ASSUME TypeInv, FoundInv, NEW o \in Ops, pc[o] \in Live, End(o),
           UNCHANGED <<abandoned, msgid>>
    PROVE  Keeps
<1>1. /\ operations \in [Ids -> Ops \cup {Nobody}] /\ msgid \in [Ops -> 0..MaxId]
      /\ operations' = [operations EXCEPT ![msgid[o]] = Nobody]
      /\ pc' = [pc EXCEPT ![o] = "returned"]
      /\ pc \in [Ops -> {"absent", "returned", "cancelled"} \cup Live]
  BY DEF TypeInv, OpsType, End, MoveTo
<1>2. pc'[o] = "returned" /\ \A p \in Ops \ {o} : pc'[p] = pc[p]
  BY <1>1
<1>3. ASSUME NEW p \in Ops, pc'[p] \in Live, operations[msgid[p]] = p
      PROVE  operations'[msgid[p]] = p
  <2>1. p # o /\ pc[p] \in Live
    BY <1>2, <1>3 DEF Live, Writing
  <2>2. msgid[p] # 0 /\ msgid[p] # msgid[o]
    BY <2>1 DEF FoundInv, Live, Writing
  <2>3. msgid[p] \in Ids /\ msgid[o] \in 0..MaxId
    BY <1>1, <2>2, ChoicesAssumption DEF Ids
  <2> QED
    BY <1>1, <1>3, <2>2, <2>3
<1> QED
  BY <1>2, <1>3 DEF Keeps, Live, Writing

\* So does whatever moves one operation on.
LEMMA MoveKeeps ==
    ASSUME TypeInv, NEW o \in Ops, NEW where \in Live, pc[o] \in Live, MoveTo(o, where),
           UNCHANGED <<operations, abandoned, msgid>>
    PROVE  Keeps
<1>1. /\ pc \in [Ops -> {"absent", "returned", "cancelled"} \cup Live]
      /\ pc' = [pc EXCEPT ![o] = where]
  BY DEF TypeInv, OpsType, MoveTo
<1>2. pc'[o] = where /\ \A p \in Ops \ {o} : pc'[p] = pc[p]
  BY <1>1
<1>3. where # "absent" /\ pc[o] # "absent"
  BY DEF Live, Writing
<1> QED
  BY <1>2, <1>3 DEF Keeps

LEMMA StayKeeps ==
    ASSUME UNCHANGED <<pc, operations, abandoned, msgid>>
    PROVE  Keeps
BY DEF Keeps

\* And the end of an id that is given up with its operation.
LEMMA AbandonKeeps ==
    ASSUME TypeInv, FoundInv, NEW i \in Ids, Abandon(i), UNCHANGED <<pc, msgid>>
    PROVE  Keeps
<1>1. /\ operations \in [Ids -> Ops \cup {Nobody}] /\ msgid \in [Ops -> 0..MaxId]
      /\ operations' = [operations EXCEPT ![i] = Nobody]
      /\ abandoned' = abandoned \cup ({operations[i]} \ {Nobody})
  BY DEF TypeInv, OpsType, Abandon
<1>2. ASSUME NEW p \in Ops, pc[p] \in Live, p \notin abandoned', operations[msgid[p]] = p
      PROVE  operations'[msgid[p]] = p
  <2>1. p # Nobody /\ msgid[p] # 0
    BY <1>2, RequestsAssumption DEF FoundInv, Live, Writing
  <2>2. msgid[p] # i /\ msgid[p] \in Ids
    BY <1>1, <1>2, <2>1, ChoicesAssumption DEF Ids
  <2> QED
    BY <1>1, <1>2, <2>2
<1> QED
  BY <1>1, <1>2 DEF Keeps

LEMMA WritersKeep ==
    ASSUME ServerInv, FoundInv, NEW w \in Writers, WriteProgress(w) \/ UpgradeFails(w)
    PROVE  Keeps
<1>1. /\ TypeInv /\ ReaderInv
      /\ \A p \in Ops : Fine(p)
  BY FineIsOpInv DEF ServerInv
<1>2. UNCHANGED <<abandoned, msgid>>
  BY DEF WriteProgress, BeginWrite, Write, WriteBroken, WriteClosed, UpgradeSends, HandshakeDone,
         UpgradeFails, markVars
<1>3. at[w] # "out" /\ (w \in Ops => pc[w] \in Writing)
  BY <1>1 DEF WriteProgress, BeginWrite, Write, WriteBroken, WriteClosed, UpgradeSends,
              HandshakeDone, UpgradeFails, Fine, WriteInv
<1>4. CASE UNCHANGED <<pc, operations>>
  BY <1>2, <1>4, StayKeeps
<1>5. CASE SendReturns(w)
  <2>1. CASE w = Reader
    BY <1>2, <1>5, <2>1, StayKeeps DEF SendReturns
  <2>2. CASE w # Reader /\ pc[w] = "fail"
    BY <1>1, <1>2, <1>3, <1>5, <2>2, EndKeeps DEF SendReturns, Writers, Live
  <2>3. CASE w # Reader /\ pc[w] # "fail"
    <3>1. /\ MoveTo(w, IF pc[w] = "final" THEN "answered" ELSE "app") /\ UNCHANGED operations
          /\ w \in Ops /\ pc[w] \in Live
          /\ (IF pc[w] = "final" THEN "answered" ELSE "app") \in Live
      BY <1>3, <1>5, <2>3 DEF SendReturns, Writers, Live
    <3> QED
      BY <1>1, <1>2, <3>1, MoveKeeps
  <2> QED
    BY <2>1, <2>2, <2>3
<1>6. CASE SendRaises(w) /\ UNCHANGED operations
  <2>1. CASE w = Reader
    BY <1>2, <1>6, <2>1, StayKeeps DEF SendRaises
  <2>2. CASE w # Reader
    <3>1. /\ MoveTo(w, IF pc[w] = "fail" THEN "broken" ELSE "raised")
          /\ w \in Ops /\ pc[w] \in Live
          /\ (IF pc[w] = "fail" THEN "broken" ELSE "raised") \in Live
      BY <1>3, <1>6, <2>2 DEF SendRaises, Writers, Live
    <3> QED
      BY <1>1, <1>2, <1>6, <3>1, MoveKeeps
  <2> QED
    BY <2>1, <2>2
<1> QED
  BY <1>4, <1>5, <1>6 DEF WriteProgress, BeginWrite, Write, WriteBroken, WriteClosed,
     UpgradeSends,
                          HandshakeDone, UpgradeFails, taskVars

LEMMA ReaderEndedKeeps ==
    ASSUME ServerInv, FoundInv, NEW s \in StartTLS, UpgradeEndsReader(s)
    PROVE  Keeps
<1>1. s \in Ops /\ TypeInv
  BY DEF Ops, ServerInv
<1>2. /\ operations \in [Ids -> Ops \cup {Nobody}] /\ msgid \in [Ops -> 0..MaxId]
      /\ operations' = [operations EXCEPT ![msgid[s]] = Nobody]
      /\ pc' = [pc EXCEPT ![s] = "returned"] /\ pc[s] = "fail"
      /\ pc \in [Ops -> {"absent", "returned", "cancelled"} \cup Live]
      /\ UNCHANGED <<abandoned, msgid>>
  BY <1>1 DEF TypeInv, OpsType, UpgradeEndsReader, MoveTo, markVars
<1>3. pc'[s] = "returned" /\ \A p \in Ops \ {s} : pc'[p] = pc[p]
  BY <1>1, <1>2
<1>4. ASSUME NEW p \in Ops, pc'[p] \in Live, operations[msgid[p]] = p
      PROVE  operations'[msgid[p]] = p
  <2>1. p # s /\ pc[p] \in Live
    BY <1>3, <1>4 DEF Live, Writing
  <2>2. msgid[p] # 0 /\ msgid[p] # msgid[s]
    BY <1>1, <2>1 DEF FoundInv, Live, Writing
  <2>3. msgid[p] \in Ids /\ msgid[s] \in 0..MaxId
    BY <1>1, <1>2, <2>2, ChoicesAssumption DEF Ids
  <2> QED
    BY <1>2, <1>4, <2>2, <2>3
<1> QED
  BY <1>2, <1>3, <1>4 DEF Keeps, Live, Writing

LEMMA ReaderKeeps ==
    ASSUME ServerInv, FoundInv, ServerProgress
    PROVE  Keeps
<1>1. CASE Crash
  <2>1. pc \in [Ops -> {"absent", "returned", "cancelled"} \cup Live] /\ "absent" \notin Live
    BY DEF ServerInv, TypeInv, OpsType, Live, Writing
  <2>2. \A p \in Ops : pc'[p] = IF pc[p] \in Live THEN "cancelled" ELSE pc[p]
    BY <1>1 DEF Crash
  <2>3. "cancelled" \notin Live
    BY DEF Live, Writing
  <2>4. UNCHANGED <<msgid, abandoned>>
    BY <1>1 DEF Crash, markVars
  <2> QED
    BY <2>1, <2>2, <2>3, <2>4 DEF Keeps
<1>2. CASE Reply \/ ReadOn \/ ReaderEnds \/ ReaderLoses \/ Close
  BY <1>2, StayKeeps DEF Reply, ReadOn, ReaderEnds, ReaderLoses, Close, markVars
<1> QED
  BY <1>1, <1>2 DEF ServerProgress

LEMMA AppsKeep ==
    ASSUME ServerInv, FoundInv, NEW o \in Ops,
           AppProgress(o) \/ AppReceives(o) \/ AppRaises(o) \/ Fail(o) \/ Post(o)
    PROVE  Keeps
<1>1. TypeInv
  BY DEF ServerInv
<1>2. UNCHANGED <<abandoned, msgid>>
  BY DEF AppProgress, AppSends, AppReturns, AppCloses, AppAsksTLS, AppReceives, AppRaises, Fail,
         Post, markVars
<1>3. pc[o] \in Live
  BY DEF AppProgress, AppSends, AppReturns, AppCloses, AppAsksTLS, AppReceives, AppRaises, Fail,
         Post, Live
<1>4. CASE End(o)
  BY <1>1, <1>2, <1>3, <1>4, EndKeeps
<1>5. CASE UNCHANGED operations /\ \E where \in Live : MoveTo(o, where)
  BY <1>1, <1>2, <1>3, <1>5, MoveKeeps
<1>6. {"entry", "final", "fail", "refused", "asked", "answered", "raised", "receiving", "app"}
        \subseteq Live
  BY DEF Live, Writing
<1>7. ~End(o) => UNCHANGED operations /\ \E where \in Live : MoveTo(o, where)
  <2>1. CASE AppSends(o)
    BY <1>6, <2>1 DEF AppSends
  <2>2. CASE AppReturns(o)
    BY <2>2 DEF AppReturns
  <2>3. CASE AppCloses(o) \/ AppAsksTLS(o)
    BY <1>6, <2>3 DEF AppCloses, AppAsksTLS
  <2>4. CASE AppReceives(o) \/ AppRaises(o) \/ Post(o)
    BY <1>6, <2>4 DEF AppReceives, AppRaises, Post
  <2>5. CASE Fail(o)
    BY <1>6, <2>5 DEF Fail
  <2> QED
    BY <2>1, <2>2, <2>3, <2>4, <2>5 DEF AppProgress
<1> QED
  BY <1>4, <1>5, <1>7

\* A request with an id of its own is registered under it.
LEMMA RequestFound ==
    ASSUME ~Reuse, ServerInv, FoundInv, NEW o \in Ops, NEW i \in Ids, HandleRequest(o, i)
    PROVE  FoundInv'
<1>1. /\ operations \in [Ids -> Ops \cup {Nobody}] /\ msgid \in [Ops -> 0..MaxId]
      /\ pc \in [Ops -> {"absent", "returned", "cancelled"} \cup Live]
      /\ UNCHANGED abandoned /\ pc[o] = "absent"
  BY DEF ServerInv, TypeInv, OpsType, HandleRequest
<1>2. CASE ~connected
  BY <1>1, <1>2, StayKeeps, KeepsFound DEF HandleRequest
<1>3. CASE connected
  <2>1. /\ operations' = [operations EXCEPT ![i] = o] /\ msgid' = [msgid EXCEPT ![o] = i]
        /\ pc' = [pc EXCEPT ![o] = "app"]
    BY <1>3 DEF HandleRequest, MoveTo
  <2>2. /\ pc'[o] = "app" /\ \A p \in Ops \ {o} : pc'[p] = pc[p]
        /\ msgid'[o] = i /\ \A p \in Ops \ {o} : msgid'[p] = msgid[p]
        /\ operations'[i] = o /\ \A j \in Ids \ {i} : operations'[j] = operations[j]
    BY <1>1, <2>1
  <2>3. \A p \in Ops : msgid[p] # i
    BY DEF HandleRequest, Usable, Numbered
  <2>4. i # 0 /\ "app" # "absent" /\ msgid[o] = 0
    BY <1>1, ChoicesAssumption DEF Ids, FoundInv
  <2>5. (\A p \in Ops : pc[p] = "absent" <=> msgid[p] = 0)'
    BY <2>2, <2>4 DEF FoundInv
  <2>6. (\A p, q \in Ops : msgid[p] = msgid[q] /\ msgid[p] # 0 => p = q)'
    BY <2>2, <2>3, <2>4 DEF FoundInv
  <2>7. ASSUME NEW p \in Ops, pc'[p] \in Live, p \notin abandoned'
        PROVE  operations'[msgid'[p]] = p
    <3>1. CASE p = o
      BY <2>2, <3>1
    <3>2. CASE p # o
      <4>1. pc[p] \in Live /\ operations[msgid[p]] = p /\ msgid'[p] = msgid[p]
        BY <1>1, <2>2, <2>7, <3>2 DEF FoundInv
      <4>2. msgid[p] # 0 /\ msgid[p] # i
        BY <2>3, <4>1 DEF FoundInv, Live, Writing
      <4>3. msgid[p] \in Ids
        BY <1>1, <4>2, ChoicesAssumption DEF Ids
      <4> QED
        BY <2>2, <4>1, <4>2, <4>3
    <3> QED
      BY <3>1, <3>2
  <2> QED
    BY <2>5, <2>6, <2>7 DEF FoundInv
<1> QED
  BY <1>2, <1>3

LEMMA FoundStep ==
    ASSUME ~Reuse, ServerInv, FoundInv, [Next]_vars
    PROVE  FoundInv'
<1>1. CASE UNCHANGED vars
  BY <1>1, StayKeeps, KeepsFound DEF vars, taskVars, markVars
<1>2. CASE \E w \in Writers : WriteProgress(w) \/ UpgradeFails(w)
  BY <1>2, WritersKeep, KeepsFound
<1>3. CASE ServerProgress \/ \E s \in StartTLS : UpgradeEndsReader(s)
  BY <1>3, ReaderKeeps, ReaderEndedKeeps, KeepsFound
<1>4. CASE \E o \in Ops : AppProgress(o) \/ AppReceives(o) \/ AppRaises(o) \/ Fail(o) \/ Post(o)
  BY <1>4, AppsKeep, KeepsFound
<1>5. CASE \E o \in Ops, i \in Ids : HandleRequest(o, i)
  BY <1>5, RequestFound
<1>6. CASE \E i \in Ids : HandleAbandon(i)
  BY <1>6, AbandonKeeps, KeepsFound DEF HandleAbandon, ServerInv
<1>7. CASE \E c \in Cancels, i \in Ids : HandleCancel(c, i)
  <2>1. PICK c \in Cancels, i \in Ids : HandleCancel(c, i)
    BY <1>7
  <2>2. CASE connected
    BY <2>1, <2>2, AbandonKeeps, KeepsFound DEF HandleCancel, Cancel, ServerInv
  <2>3. CASE ~connected
    BY <2>1, <2>3, StayKeeps, KeepsFound DEF HandleCancel
  <2> QED
    BY <2>2, <2>3
<1>8. CASE PeerCloses
  BY <1>8, StayKeeps, KeepsFound DEF PeerCloses, taskVars, markVars
<1> QED
  BY <1>1, <1>2, <1>3, <1>4, <1>5, <1>6, <1>7, <1>8 DEF Next

\* "Registered before the task runs, so an abandon that arrives first still
\* finds it": with a client that does not use a message id twice, as long as an
\* operation runs and is not given up its id finds it, so that an Abandon, a
\* Cancel and the loss of the connection reach it.
THEOREM FoundByItsId ==
    ASSUME ~Reuse
    PROVE  Spec => []Reachable
<1>1. Init => FoundInv
  BY DEF Init, FoundInv, Live, Writing
<1>2. ServerInv /\ FoundInv /\ [Next]_vars => FoundInv'
  BY FoundStep
<1>3. FoundInv => Reachable
  BY DEF FoundInv, Reachable
<1> QED
  BY <1>1, <1>2, <1>3, ServerInvariant, PTL DEF Spec

-----------------------------------------------------------------------------
(* Who is answered twice.                                                  *)

NoUpgrade ==
    ~tls /\ \A w \in Writers : at[w] \notin {"tlslock", "tlssending", "shaking"}

Over == {"answered", "returned", "cancelled"}

\* An operation has one final answer of its own once it is over, and one of the
\* Cancel that stopped it once the reader has written that.
OwnAnswer(p) == IF pc[p] \in Over THEN 1 ELSE 0

CancelAnswer(p) ==
    IF p \in abandoned \ unwanted /\ ~(reader = "canceling" /\ owed = p) THEN 1 ELSE 0

Counted(p) == finals[p] <= OwnAnswer(p) + CancelAnswer(p)

\* The Cancel itself is answered last, and once.
CancelInv(c) ==
    /\ finals[c] <= 1
    /\ reader \in {"canceling", "replying"} /\ current = c => finals[c] = 0

OnceInv ==
    /\ NoUpgrade
    /\ \A i \in Ids : operations[i] \notin abandoned
    /\ \A p \in abandoned : pc[p] # "absent"
    /\ reader = "canceling" => owed \in abandoned \ unwanted
    /\ \A p \in Ops : Counted(p)
    /\ \A c \in Cancels : CancelInv(c)

\* A step that answers and gives up nothing, and after which the reader has no
\* more to answer than before.
AnswersNothing ==
    /\ NoUpgrade'
    /\ UNCHANGED <<abandoned, unwanted, finals, owed>>
    /\ \A i \in Ids : operations'[i] = operations[i] \/ operations'[i] \notin abandoned
    /\ \A p \in Ops : /\ pc[p] \in Over => pc'[p] \in Over
                      /\ pc'[p] = "absent" => pc[p] = "absent"
    /\ reader' = "canceling" => reader = "canceling"
    /\ reader' \in {"canceling", "replying"} =>
         reader \in {"canceling", "replying"} /\ UNCHANGED current

LEMMA NothingAnswered ==
    ASSUME TypeInv, OnceInv, AnswersNothing
    PROVE  OnceInv'
<1>1. /\ abandoned \subseteq Ops /\ finals \in [Requests -> Nat]
      /\ UNCHANGED <<abandoned, unwanted, finals, owed>>
  BY DEF TypeInv, OpsType, EnvType, AnswersNothing
<1>2. NoUpgrade'
  BY DEF AnswersNothing
<1>3. (\A i \in Ids : operations[i] \notin abandoned)'
  BY <1>1 DEF OnceInv, AnswersNothing
<1>4. (\A p \in abandoned : pc[p] # "absent")'
  BY <1>1 DEF OnceInv, AnswersNothing
<1>5. (reader = "canceling" => owed \in abandoned \ unwanted)'
  BY <1>1 DEF OnceInv, AnswersNothing
<1>6. ASSUME NEW p \in Ops PROVE Counted(p)'
  <2>1. finals[p] \in Nat /\ finals[p] <= OwnAnswer(p) + CancelAnswer(p)
    BY <1>1 DEF OnceInv, Counted, Requests
  <2>2. OwnAnswer(p) \in {0, 1} /\ OwnAnswer(p)' \in {0, 1} /\ OwnAnswer(p) <= OwnAnswer(p)'
    BY DEF OwnAnswer, AnswersNothing
  <2>3. /\ CancelAnswer(p) \in {0, 1} /\ CancelAnswer(p)' \in {0, 1}
        /\ CancelAnswer(p) <= CancelAnswer(p)'
    BY <1>1 DEF CancelAnswer, AnswersNothing
  <2> QED
    BY <1>1, <2>1, <2>2, <2>3 DEF Counted
<1>7. ASSUME NEW c \in Cancels PROVE CancelInv(c)'
  BY <1>1 DEF OnceInv, CancelInv, AnswersNothing
<1> QED
  BY <1>2, <1>3, <1>4, <1>5, <1>6, <1>7 DEF OnceInv

\* Without an upgrade whoever wants to write just queues.
LEMMA QueueingOnly ==
    ASSUME TypeInv, NoUpgrade, NEW w \in Writers, Respond(w)
    PROVE  NoUpgrade'
BY Responding DEF NoUpgrade

\* One operation is moved on, by its application or its task, and its id may
\* be let go of.
LEMMA OneMovesOn ==
    ASSUME TypeInv, OnceInv, NoUpgrade', NEW o \in Ops, o \notin StartTLS,
           pc[o] # "absent",
           \/ End(o)
           \/ pc[o] \notin Over /\ (\E where \in Live : MoveTo(o, where))
                /\ UNCHANGED <<operations, reader>>,
           UNCHANGED <<abandoned, unwanted, finals, owed, current>>
    PROVE  AnswersNothing
<1>1. /\ operations \in [Ids -> Ops \cup {Nobody}] /\ abandoned \subseteq Ops
      /\ msgid \in [Ops -> 0..MaxId]
      /\ pc \in [Ops -> {"absent", "returned", "cancelled"} \cup Live]
      /\ Nobody \notin Ops
  BY RequestsAssumption DEF TypeInv, OpsType
<1>2. /\ \A i \in Ids : operations'[i] = operations[i] \/ operations'[i] = Nobody
      /\ UNCHANGED reader
  BY <1>1 DEF End
<1>3. /\ \A p \in Ops \ {o} : pc'[p] = pc[p]
      /\ pc[o] \in Over => pc'[o] \in Over
      /\ pc'[o] # "absent"
  <2>1. CASE End(o)
    BY <1>1, <2>1 DEF End, MoveTo, Over
  <2>2. CASE pc[o] \notin Over /\ \E where \in Live : MoveTo(o, where)
    BY <1>1, <2>2 DEF MoveTo, Live, Writing
  <2> QED
    BY <2>1, <2>2
<1> QED
  BY <1>1, <1>2, <1>3 DEF AnswersNothing

-----------------------------------------------------------------------------
LEMMA NoWriterUpgrades ==
    ASSUME OnceInv, NEW w \in Writers
    PROVE  ~UpgradeSends(w) /\ ~HandshakeDone(w) /\ ~UpgradeFails(w)
BY DEF OnceInv, NoUpgrade, UpgradeSends, HandshakeDone, UpgradeFails

\* A writer that gives up the lock, having written no final answer.
LEMMA LockGivenUp ==
    ASSUME StartTLS = {}, ServerInv, OnceInv, NEW w \in Writers, at[w] # "out",
           Leave(w), SendReturns(w),
           UNCHANGED <<tls, abandoned, unwanted, finals, owed, current>>
    PROVE  AnswersNothing
<1>1. TypeInv /\ ReaderInv /\ \A p \in Ops : Fine(p)
  BY FineIsOpInv DEF ServerInv
<1>2. at \in [Writers -> {"out", "lock", "tlslock", "sending", "tlssending", "shaking",
                          "closing"}]
  BY <1>1 DEF TypeInv, LockType
<1>3. NoUpgrade'
  BY <1>2 DEF OnceInv, NoUpgrade, Leave
<1>4. CASE w = Reader
  <2>1. /\ UNCHANGED <<operations, pc>>
        /\ reader' = IF reader = "canceling" THEN "replying" ELSE "more"
    BY <1>4 DEF SendReturns
  <2> QED
    BY <1>3, <2>1 DEF AnswersNothing
<1>5. CASE w \in Ops
  <2>1. pc[w] \in Writing /\ w # Reader
    BY <1>1, <1>5, ReaderIsApart DEF Fine, WriteInv
  <2>2. \/ End(w)
        \/ (\E where \in Live : MoveTo(w, where)) /\ UNCHANGED <<operations, reader>>
    BY <2>1 DEF SendReturns, Live
  <2>3. pc[w] \notin Over /\ pc[w] # "absent"
    BY <2>1 DEF Writing, Over
  <2> QED
    BY <1>1, <1>3, <1>5, <2>2, <2>3, OneMovesOn
<1> QED
  BY <1>4, <1>5 DEF Writers

\* An operation writes its one final answer as it ends.
LEMMA AnswersItself ==
    ASSUME StartTLS = {}, ServerInv, OnceInv, NEW w \in Ops, Write(w), pc[w] # "entry"
    PROVE  OnceInv'
<1>1. TypeInv /\ ReaderInv /\ Fine(w)
  BY FineIsOpInv DEF ServerInv
<1>2. /\ finals \in [Requests -> Nat] /\ abandoned \subseteq Ops /\ Nobody \notin Ops
      /\ operations \in [Ids -> Ops \cup {Nobody}] /\ msgid \in [Ops -> 0..MaxId]
      /\ pc \in [Ops -> {"absent", "returned", "cancelled"} \cup Live]
      /\ at \in [Writers -> {"out", "lock", "tlslock", "sending", "tlssending", "shaking",
                             "closing"}]
  BY <1>1, RequestsAssumption DEF TypeInv, OpsType, EnvType, LockType
<1>3. w # Reader /\ w \in Writers /\ w \in Requests /\ w \notin Cancels
  BY ReaderIsApart, RequestsAssumption DEF Requests
<1>4. pc[w] \in {"final", "fail"}
  BY <1>1 DEF Fine, WriteInv, Write, Writing
<1>5. finals' = [finals EXCEPT ![w] = @ + 1]
  BY <1>4 DEF Write, Deliver
<1>6. /\ UNCHANGED <<abandoned, unwanted, owed, current, tls, reader>>
      /\ \A i \in Ids : operations'[i] = operations[i] \/ operations'[i] = Nobody
      /\ \A p \in Ops \ {w} : pc'[p] = pc[p]
      /\ pc'[w] \in {"answered", "returned"}
  <2>1. UNCHANGED <<abandoned, unwanted, owed, current, tls>>
    BY DEF Write, markVars, clientVars, connVars
  <2>2. CASE pc[w] = "final"
    BY <1>2, <1>3, <2>1, <2>2 DEF Write, SendReturns, MoveTo
  <2>3. CASE pc[w] = "fail"
    BY <1>2, <1>3, <2>1, <2>3 DEF Write, SendReturns, MoveTo, End
  <2> QED
    BY <1>4, <2>2, <2>3, <2>1
<1>7. NoUpgrade'
  BY <1>2, <1>6 DEF OnceInv, NoUpgrade, Write, Leave
<1>8. (\A i \in Ids : operations[i] \notin abandoned)' /\ (\A p \in abandoned : pc[p] # "absent")'
  BY <1>2, <1>6 DEF OnceInv
<1>9. (reader = "canceling" => owed \in abandoned \ unwanted)'
  BY <1>6 DEF OnceInv
<1>10. ASSUME NEW p \in Ops PROVE Counted(p)'
  <2>1. finals[p] \in Nat /\ finals[p] <= OwnAnswer(p) + CancelAnswer(p) /\ p \in Requests
    BY <1>2 DEF OnceInv, Counted, Requests
  <2>2. CancelAnswer(p)' = CancelAnswer(p) /\ CancelAnswer(p) \in {0, 1}
    BY <1>6 DEF CancelAnswer
  <2>3. CASE p = w
    <3>1. OwnAnswer(p) = 0 /\ OwnAnswer(p)' = 1
      BY <1>4, <1>6, <2>3 DEF OwnAnswer, Over
    <3>2. finals'[p] = finals[p] + 1
      BY <1>2, <1>5, <2>1, <2>3
    <3> QED
      BY <2>1, <2>2, <3>1, <3>2 DEF Counted
  <2>4. CASE p # w
    <3>1. OwnAnswer(p)' = OwnAnswer(p)
      BY <1>6, <2>4 DEF OwnAnswer
    <3>2. finals'[p] = finals[p]
      BY <1>2, <1>5, <2>1, <2>4
    <3> QED
      BY <2>1, <2>2, <3>1, <3>2 DEF Counted
  <2> QED
    BY <2>3, <2>4
<1>11. ASSUME NEW c \in Cancels PROVE CancelInv(c)'
  <2>1. finals'[c] = finals[c]
    BY <1>2, <1>3, <1>5 DEF Requests
  <2> QED
    BY <1>6, <2>1 DEF OnceInv, CancelInv
<1> QED
  BY <1>7, <1>8, <1>9, <1>10, <1>11 DEF OnceInv

\* The reader answers first the operation a Cancel stopped, then the Cancel.
LEMMA ReaderAnswers ==
    ASSUME ServerInv, OnceInv, Write(Reader)
    PROVE  OnceInv'
<1>1. TypeInv /\ ReaderInv
  BY DEF ServerInv
<1>2. /\ finals \in [Requests -> Nat] /\ abandoned \subseteq Ops
      /\ current \in Cancels \cup {Nobody} /\ Nobody \notin Requests
      /\ Ops \cap Cancels = {}
      /\ at \in [Writers -> {"out", "lock", "tlslock", "sending", "tlssending", "shaking",
                             "closing"}]
  BY <1>1, RequestsAssumption DEF TypeInv, OpsType, ReaderType, EnvType, LockType, Requests
<1>3. /\ UNCHANGED <<abandoned, unwanted, owed, current, tls, operations, pc>>
      /\ reader' = IF reader = "canceling" THEN "replying" ELSE "more"
      /\ finals' = [finals EXCEPT ![IF reader = "canceling" THEN owed ELSE current] = @ + 1]
      /\ reader \in {"canceling", "replying"}
  BY <1>1, ReaderIsApart DEF Write, markVars, clientVars, connVars, SendReturns, Deliver, ReaderInv
<1>4. NoUpgrade'
  BY <1>2, <1>3, ReaderIsApart DEF OnceInv, NoUpgrade, Write, Leave
<1>5. (\A i \in Ids : operations[i] \notin abandoned)' /\ (\A p \in abandoned : pc[p] # "absent")'
  BY <1>3 DEF OnceInv
<1>6. (reader = "canceling" => owed \in abandoned \ unwanted)'
  BY <1>3
<1>7. ASSUME NEW p \in Ops PROVE Counted(p)'
  <2>1. finals[p] \in Nat /\ finals[p] <= OwnAnswer(p) + CancelAnswer(p) /\ p \in Requests
    BY <1>2 DEF OnceInv, Counted, Requests
  <2>2. OwnAnswer(p)' = OwnAnswer(p) /\ OwnAnswer(p) \in {0, 1}
    BY <1>3 DEF OwnAnswer
  <2>3. CASE reader = "canceling" /\ owed = p
    <3>1. CancelAnswer(p) = 0 /\ CancelAnswer(p)' = 1
      BY <1>3, <2>3 DEF CancelAnswer, OnceInv
    <3>2. finals'[p] = finals[p] + 1
      BY <1>2, <1>3, <2>1, <2>3
    <3> QED
      BY <2>1, <2>2, <3>1, <3>2 DEF Counted
  <2>4. CASE ~(reader = "canceling" /\ owed = p)
    <3>1. CancelAnswer(p)' = CancelAnswer(p)
      BY <1>3, <2>4 DEF CancelAnswer
    <3>2. finals'[p] = finals[p]
      BY <1>2, <1>3, <2>1, <2>4
    <3> QED
      BY <2>1, <2>2, <3>1, <3>2 DEF Counted
  <2> QED
    BY <2>3, <2>4
<1>8. ASSUME NEW c \in Cancels PROVE CancelInv(c)'
  <2>1. finals[c] \in Nat /\ CancelInv(c) /\ c \in Requests
    BY <1>2 DEF OnceInv, Requests
  <2>2. CASE reader = "canceling"
    <3>1. owed # c
      BY <1>2, <2>2 DEF OnceInv
    <3>2. finals'[c] = finals[c]
      BY <1>2, <1>3, <2>1, <2>2, <3>1
    <3> QED
      BY <1>3, <2>1, <2>2, <3>2 DEF CancelInv
  <2>3. CASE reader = "replying"
    <3>1. CASE current = c
      <4>1. finals[c] = 0 /\ finals'[c] = finals[c] + 1
        BY <1>2, <1>3, <2>1, <2>3, <3>1 DEF CancelInv
      <4> QED
        BY <1>3, <2>3, <4>1 DEF CancelInv
    <3>2. CASE current # c
      <4>1. finals'[c] = finals[c]
        BY <1>2, <1>3, <2>1, <2>3, <3>2
      <4> QED
        BY <1>3, <2>1, <2>3, <4>1 DEF CancelInv
    <3> QED
      BY <3>1, <3>2
  <2> QED
    BY <1>3, <2>2, <2>3
<1> QED
  BY <1>4, <1>5, <1>6, <1>7, <1>8 DEF OnceInv

LEMMA WritersAnswerOnce ==
    ASSUME StartTLS = {}, ServerInv, OnceInv, NEW w \in Writers,
           WriteProgress(w) \/ UpgradeFails(w)
    PROVE  OnceInv'
<1>1. TypeInv /\ NoUpgrade /\ \A p \in Ops : Fine(p)
  BY FineIsOpInv DEF ServerInv, OnceInv
<1>2. at \in [Writers -> {"out", "lock", "tlslock", "sending", "tlssending", "shaking",
                          "closing"}]
  BY <1>1 DEF TypeInv, LockType
<1>3. CASE BeginWrite(w)
  <2>1. UNCHANGED <<tls, abandoned, unwanted, finals, owed, current>> /\ at[w] = "lock"
    BY <1>1, <1>3 DEF BeginWrite, connVars, markVars, envVars, clientVars, wireVars, NoUpgrade
  <2>2. CASE stream
    <3>1. at' = [at EXCEPT ![w] = "sending"] /\ UNCHANGED <<operations, pc, reader>>
      BY <1>3, <2>1, <2>2 DEF BeginWrite, taskVars
    <3>2. NoUpgrade'
      BY <1>1, <1>2, <2>1, <3>1 DEF NoUpgrade
    <3> QED
      BY <1>1, <2>1, <3>1, <3>2, NothingAnswered DEF AnswersNothing
  <2>3. CASE ~stream
    <3>1. Leave(w) /\ SendReturns(w)
      BY <1>3, <2>1, <2>3 DEF BeginWrite
    <3> QED
      BY <1>1, <2>1, <3>1, LockGivenUp, NothingAnswered
  <2> QED
    BY <2>2, <2>3
<1>4. CASE Write(w)
  <2>1. CASE w = Reader
    BY <1>4, <2>1, ReaderAnswers
  <2>2. CASE w \in Ops /\ pc[w] # "entry"
    BY <1>4, <2>2, AnswersItself
  <2>3. CASE w \in Ops /\ pc[w] = "entry"
    <3>1. UNCHANGED <<tls, abandoned, unwanted, finals, owed, current>>
      BY <1>4, <2>3 DEF Write, Deliver, connVars, markVars, clientVars
    <3>2. at[w] # "out" /\ Leave(w) /\ SendReturns(w)
      BY <1>4 DEF Write
    <3> QED
      BY <1>1, <3>1, <3>2, LockGivenUp, NothingAnswered
  <2> QED
    BY <2>1, <2>2, <2>3 DEF Writers
<1>5. CASE WriteBroken(w)
  <2>1. /\ UNCHANGED <<abandoned, unwanted, finals, owed, current, operations, pc, reader>>
        /\ at' = [at EXCEPT ![w] = "closing"] /\ tls' = FALSE
    BY <1>5 DEF WriteBroken, Aclose, markVars, envVars, clientVars, wireVars
  <2>2. NoUpgrade'
    BY <1>1, <1>2, <2>1 DEF NoUpgrade
  <2> QED
    BY <1>1, <2>1, <2>2, NothingAnswered DEF AnswersNothing
<1>6. CASE WriteClosed(w)
  <2>1. UNCHANGED <<tls, abandoned, unwanted, finals, owed, current>>
    BY <1>6 DEF WriteClosed, connVars, markVars, envVars, clientVars, wireVars
  <2>2. at[w] # "out" /\ Leave(w) /\ SendReturns(w)
    BY <1>6 DEF WriteClosed
  <2> QED
    BY <1>1, <2>1, <2>2, LockGivenUp, NothingAnswered
<1> QED
  BY <1>3, <1>4, <1>5, <1>6, NoWriterUpgrades DEF WriteProgress

LEMMA ServerAnswersNothing ==
    ASSUME ServerInv, OnceInv, ServerProgress
    PROVE  OnceInv'
<1>1. TypeInv /\ NoUpgrade
  BY DEF ServerInv, OnceInv
<1>2. /\ abandoned \subseteq Ops /\ Nobody \notin Ops
      /\ pc \in [Ops -> {"absent", "returned", "cancelled"} \cup Live]
  BY <1>1, RequestsAssumption DEF TypeInv, OpsType
<1>3. UNCHANGED <<abandoned, unwanted, finals, owed, current>>
  BY DEF ServerProgress, Reply, ReadOn, ReaderEnds, ReaderLoses, Close, Crash, markVars, envVars,
         clientVars, wireVars
<1>4. CASE Reply
  <2>1. UNCHANGED <<operations, pc>> /\ (reader' = reader \/ reader' = "more")
    BY <1>4 DEF Reply
  <2>2. NoUpgrade'
    <3>1. CASE connected
      BY <1>1, <1>4, <3>1, QueueingOnly, ReaderIsApart DEF Reply
    <3>2. CASE ~connected
      BY <1>1, <1>4, <3>2 DEF Reply, lockVars, NoUpgrade
    <3> QED
      BY <3>1, <3>2
  <2> QED
    BY <1>1, <1>3, <2>1, <2>2, NothingAnswered DEF AnswersNothing
<1>5. CASE ReadOn \/ ReaderEnds \/ ReaderLoses \/ Close
  <2>1. /\ UNCHANGED <<operations, pc, at>> /\ (tls' = tls \/ tls' = FALSE)
        /\ reader' = reader \/ reader' \in {"idle", "closing", "ended"}
    BY <1>5 DEF ReadOn, ReaderEnds, ReaderLoses, Close, Aclose, lockVars, connVars
  <2>2. NoUpgrade'
    BY <1>1, <2>1 DEF NoUpgrade
  <2> QED
    BY <1>1, <1>3, <2>1, <2>2, NothingAnswered DEF AnswersNothing
<1>6. CASE Crash
  <2>1. /\ \A i \in Ids : operations'[i] = Nobody
        /\ reader' = "crashed" /\ tls' = FALSE /\ \A v \in Writers : at'[v] = "out"
        /\ \A p \in Ops : pc'[p] = IF pc[p] \in Live THEN "cancelled" ELSE pc[p]
    BY <1>6 DEF Crash
  <2>2. NoUpgrade'
    BY <2>1 DEF NoUpgrade
  <2>3. \A p \in Ops : /\ pc[p] \in Over => pc'[p] \in Over
                       /\ pc'[p] = "absent" => pc[p] = "absent"
    BY <1>2, <2>1 DEF Over
  <2> QED
    BY <1>1, <1>2, <1>3, <2>1, <2>2, <2>3, NothingAnswered DEF AnswersNothing
<1> QED
  BY <1>4, <1>5, <1>6 DEF ServerProgress

LEMMA AppsAnswerNothing ==
    ASSUME StartTLS = {}, ServerInv, OnceInv, NEW o \in Ops,
           AppProgress(o) \/ AppReceives(o) \/ AppRaises(o) \/ Fail(o) \/ Post(o)
    PROVE  OnceInv'
<1>1. TypeInv /\ NoUpgrade /\ o \in Writers /\ o \notin StartTLS
  BY ReaderIsApart DEF ServerInv, OnceInv
<1>2. UNCHANGED <<abandoned, unwanted, finals, owed, current>>
  BY DEF AppProgress, AppSends, AppReturns, AppCloses, AppAsksTLS, AppReceives, AppRaises, Fail,
         Post, markVars, envVars, clientVars, wireVars
<1>3. pc[o] # "absent"
  BY DEF AppProgress, AppSends, AppReturns, AppCloses, AppAsksTLS, AppReceives, AppRaises, Fail,
         Post
<1>4. ~AppAsksTLS(o)
  BY <1>1 DEF AppAsksTLS
<1>5. NoUpgrade'
  <2>1. CASE UNCHANGED <<tls, at>>
    BY <1>1, <2>1 DEF NoUpgrade
  <2>2. CASE Respond(o)
    BY <1>1, <2>2, QueueingOnly
  <2>3. UNCHANGED <<tls, at>> \/ Respond(o)
    BY <1>4 DEF AppProgress, AppSends, AppReturns, AppCloses, AppReceives, AppRaises, Fail, Post,
                connVars, lockVars
  <2> QED
    BY <2>1, <2>2, <2>3
<1>6. {"entry", "final", "fail", "refused", "answered", "raised", "receiving", "app"} \subseteq Live
  BY DEF Live, Writing
<1>7. \/ End(o)
      \/ pc[o] \notin Over /\ (\E where \in Live : MoveTo(o, where))
           /\ UNCHANGED <<operations, reader>>
  <2>1. CASE AppSends(o)
    BY <1>6, <2>1 DEF AppSends, Over
  <2>2. CASE AppReturns(o)
    BY <2>2 DEF AppReturns
  <2>3. CASE AppCloses(o)
    BY <1>6, <2>3 DEF AppCloses, Over
  <2>4. CASE AppReceives(o) \/ AppRaises(o) \/ Post(o)
    BY <1>6, <2>4 DEF AppReceives, AppRaises, Post, Over
  <2>5. CASE Fail(o)
    BY <1>6, <2>5 DEF Fail, Over
  <2> QED
    BY <1>4, <2>1, <2>2, <2>3, <2>4, <2>5 DEF AppProgress
<1> QED
  BY <1>1, <1>2, <1>3, <1>5, <1>7, OneMovesOn, NothingAnswered

\* What is new has not been given up.
LEMMA RequestAnswersNothing ==
    ASSUME StartTLS = {}, ServerInv, OnceInv, NEW o \in Ops, NEW i \in Ids, HandleRequest(o, i)
    PROVE  OnceInv'
<1>1. TypeInv /\ NoUpgrade
  BY DEF ServerInv, OnceInv
<1>2. /\ operations \in [Ids -> Ops \cup {Nobody}]
      /\ pc \in [Ops -> {"absent", "returned", "cancelled"} \cup Live]
      /\ o \notin abandoned /\ pc[o] = "absent"
  BY <1>1 DEF TypeInv, OpsType, HandleRequest, OnceInv
<1>3. UNCHANGED <<tls, at, abandoned, unwanted, finals, owed, current>>
  BY DEF HandleRequest, connVars, lockVars, envVars, clientVars, wireVars
<1>4. NoUpgrade'
  BY <1>1, <1>3 DEF NoUpgrade
<1>5. reader' \in {"more", "raised"}
  BY DEF HandleRequest
<1>6. \A j \in Ids : operations'[j] = operations[j] \/ operations'[j] = o
  BY <1>2 DEF HandleRequest
<1>7. \A p \in Ops : /\ pc[p] \in Over => pc'[p] \in Over
                     /\ pc'[p] = "absent" => pc[p] = "absent"
  BY <1>2 DEF HandleRequest, MoveTo, Over
<1> QED
  BY <1>1, <1>2, <1>3, <1>4, <1>5, <1>6, <1>7, NothingAnswered DEF AnswersNothing

\* What is given up was not given up before, and has not been answered by a Cancel.
LEMMA GivenUpOnce ==
    ASSUME ServerInv, OnceInv, NEW i \in Ids, Abandon(i), UNCHANGED <<pc, finals>>,
           NoUpgrade', reader # "canceling",
           \/ unwanted' = unwanted /\ reader' = "canceling" /\ owed' = operations[i]
                /\ operations[i] # Nobody
           \/ unwanted' = unwanted /\ operations[i] = Nobody /\ reader' # "canceling"
           \/ unwanted' = unwanted \cup {operations[i]} /\ reader' # "canceling",
           \A c \in Cancels : CancelInv(c)'
    PROVE  OnceInv'
<1>1. TypeInv /\ \A p \in Ops : Fine(p)
  BY FineIsOpInv DEF ServerInv
<1>2. /\ operations \in [Ids -> Ops \cup {Nobody}] /\ abandoned \subseteq Ops
      /\ Nobody \notin Ops /\ finals \in [Requests -> Nat] /\ unwanted \subseteq abandoned
  BY <1>1, RequestsAssumption DEF TypeInv, OpsType, EnvType
<1>3. /\ operations' = [operations EXCEPT ![i] = Nobody]
      /\ abandoned' = abandoned \cup ({operations[i]} \ {Nobody})
  BY DEF Abandon
<1>4. (\A j \in Ids : operations[j] \notin abandoned)'
  <2> SUFFICES ASSUME NEW j \in Ids PROVE operations'[j] \notin abandoned'
    OBVIOUS
  <2>1. CASE j = i
    BY <1>2, <1>3, <2>1
  <2>2. CASE j # i
    <3>1. operations'[j] = operations[j] /\ operations[j] \notin abandoned
      BY <1>2, <1>3, <2>2 DEF OnceInv
    <3>2. operations[j] = operations[i] => operations[i] = Nobody
      BY <1>1, <1>2, <2>2 DEF Fine, RegisteredInv
    <3> QED
      BY <1>3, <3>1, <3>2
  <2> QED
    BY <2>1, <2>2
<1>5. (\A p \in abandoned : pc[p] # "absent")'
  <2>1. operations[i] # Nobody => pc[operations[i]] # "absent"
    BY <1>1, <1>2 DEF Fine, RegisteredInv, Live, Writing
  <2> QED
    BY <1>3, <2>1 DEF OnceInv
<1>6. (reader = "canceling" => owed \in abandoned \ unwanted)'
  BY <1>2, <1>3 DEF OnceInv
<1>7. ASSUME NEW p \in Ops PROVE Counted(p)'
  <2>1. finals[p] \in Nat /\ finals[p] <= OwnAnswer(p) + CancelAnswer(p)
    BY <1>2 DEF OnceInv, Counted, Requests
  <2>2. OwnAnswer(p)' = OwnAnswer(p) /\ OwnAnswer(p) \in {0, 1}
    BY DEF OwnAnswer
  <2>3. operations[i] \notin abandoned
    BY DEF OnceInv
  <2>4. CancelAnswer(p)' = CancelAnswer(p) /\ CancelAnswer(p) \in {0, 1}
    <3>1. CASE p = operations[i]
      <4>1. CancelAnswer(p) = 0
        BY <2>3, <3>1 DEF CancelAnswer
      <4>2. CancelAnswer(p)' = 0
        BY <1>2, <3>1 DEF CancelAnswer
      <4> QED
        BY <4>1, <4>2
    <3>2. CASE p # operations[i]
      <4>1. p \in abandoned' \ unwanted' <=> p \in abandoned \ unwanted
        BY <1>3, <3>2
      <4>2. ~(reader = "canceling" /\ owed = p) /\ ~(reader' = "canceling" /\ owed' = p)
        BY <3>2
      <4> QED
        BY <4>1, <4>2 DEF CancelAnswer
    <3> QED
      BY <3>1, <3>2
  <2> QED
    BY <2>1, <2>2, <2>4 DEF Counted
<1> QED
  BY <1>4, <1>5, <1>6, <1>7 DEF OnceInv

LEMMA AbandonAnswersNothing ==
    ASSUME ServerInv, OnceInv, NEW i \in Ids, HandleAbandon(i)
    PROVE  OnceInv'
<1>1. /\ Abandon(i) /\ UNCHANGED <<pc, finals, tls, at>>
      /\ unwanted' = unwanted \cup {operations[i]}
      /\ reader' = "more" /\ reader # "canceling"
  BY DEF HandleAbandon, HasRequest, connVars, lockVars, wireVars
<1>2. NoUpgrade'
  BY <1>1 DEF OnceInv, NoUpgrade
<1>3. \A c \in Cancels : CancelInv(c)'
  BY <1>1 DEF OnceInv, CancelInv
<1> QED
  BY <1>1, <1>2, <1>3, GivenUpOnce

LEMMA CancelAnswersNothing ==
    ASSUME ServerInv, OnceInv, NEW c \in Cancels, NEW i \in Ids, HandleCancel(c, i)
    PROVE  OnceInv'
<1>1. TypeInv /\ NoUpgrade
  BY DEF ServerInv, OnceInv
<1>2. UNCHANGED <<pc, finals, unwanted>> /\ reader # "canceling" /\ finals[c] = 0
  BY DEF HandleCancel, HasRequest, envVars, clientVars, wireVars
<1>3. CASE connected
  <2>1. Cancel(i) /\ current' = c
    BY <1>3 DEF HandleCancel
  <2>2. NoUpgrade'
    <3>1. CASE operations[i] # Nobody
      BY <1>1, <1>3, <2>1, <3>1, QueueingOnly, ReaderIsApart DEF Cancel
    <3>2. CASE operations[i] = Nobody
      BY <1>1, <2>1, <3>2 DEF Cancel, lockVars, NoUpgrade
    <3> QED
      BY <3>1, <3>2
  <2>3. \A d \in Cancels : CancelInv(d)'
    BY <1>2, <2>1 DEF OnceInv, CancelInv
  <2>4. \/ reader' = "canceling" /\ owed' = operations[i] /\ operations[i] # Nobody
        \/ operations[i] = Nobody /\ reader' # "canceling"
    BY <1>3, <2>1 DEF Cancel
  <2> QED
    BY <1>2, <2>1, <2>2, <2>3, <2>4, GivenUpOnce DEF Cancel
<1>4. CASE ~connected
  <2>1. /\ UNCHANGED <<tls, at, operations, abandoned, owed, current>> /\ reader' = "raised"
    BY <1>4 DEF HandleCancel, lockVars
  <2>2. NoUpgrade'
    BY <1>1, <2>1 DEF NoUpgrade
  <2> QED
    BY <1>1, <1>2, <2>1, <2>2, NothingAnswered DEF AnswersNothing
<1> QED
  BY <1>3, <1>4

LEMMA OnceStep ==
    ASSUME StartTLS = {}, ServerInv, OnceInv, [Next]_vars
    PROVE  OnceInv'
<1>1. TypeInv /\ NoUpgrade
  BY DEF ServerInv, OnceInv
<1>2. CASE UNCHANGED vars \/ PeerCloses
  <2>1. UNCHANGED <<tls, at, operations, pc, reader, abandoned, unwanted, finals, owed, current>>
    BY <1>2 DEF vars, PeerCloses, connVars, taskVars, markVars, lockVars, envVars, clientVars,
                wireVars
  <2>2. NoUpgrade'
    BY <1>1, <2>1 DEF NoUpgrade
  <2> QED
    BY <1>1, <2>1, <2>2, NothingAnswered DEF AnswersNothing
<1>3. CASE \E w \in Writers : WriteProgress(w) \/ UpgradeFails(w)
  BY <1>3, WritersAnswerOnce
<1>4. CASE ServerProgress
  BY <1>4, ServerAnswersNothing
<1>5. CASE \E o \in Ops : AppProgress(o) \/ AppReceives(o) \/ AppRaises(o) \/ Fail(o) \/ Post(o)
  BY <1>5, AppsAnswerNothing
<1>6. CASE \E o \in Ops, i \in Ids : HandleRequest(o, i)
  BY <1>6, RequestAnswersNothing
<1>7. CASE \E i \in Ids : HandleAbandon(i)
  BY <1>7, AbandonAnswersNothing
<1>8. CASE \E c \in Cancels, i \in Ids : HandleCancel(c, i)
  BY <1>8, CancelAnswersNothing
<1> QED
  BY <1>2, <1>3, <1>4, <1>5, <1>6, <1>7, <1>8 DEF Next

\* RFC 3909 and RFC 4511, as the cookbook reads them, want one final answer for
\* a request.  Of a connection without StartTLS it holds but for one thing: an
\* operation that a Cancel stops while its own final answer is on its way, or
\* is out, has the Cancel's as well (cancel), and never a third.
THEOREM OnlyCancelsAnswerAgain ==
    ASSUME StartTLS = {}
    PROVE  Spec => []OnceUnlessCancelled
<1>1. Init => OnceInv
  <2> SUFFICES ASSUME Init PROVE OnceInv
    OBVIOUS
  <2>1. \A r \in Requests : finals[r] = 0
    BY DEF Init
  <2>2. \A p \in Ops : Counted(p)
    BY <2>1 DEF Init, Counted, OwnAnswer, CancelAnswer, Over, Requests
  <2>3. \A c \in Cancels : CancelInv(c)
    BY <2>1 DEF CancelInv, Requests
  <2> QED
    BY <2>2, <2>3, RequestsAssumption DEF Init, OnceInv, NoUpgrade
<1>2. ServerInv /\ OnceInv /\ [Next]_vars => OnceInv'
  BY OnceStep
<1>3. ServerInv /\ OnceInv => OnceUnlessCancelled
  <2> SUFFICES ASSUME ServerInv, OnceInv, NEW r \in Requests
               PROVE  finals[r] <= IF r \in abandoned \ unwanted THEN 2 ELSE 1
    BY DEF OnceUnlessCancelled
  <2>1. finals[r] \in Nat
    BY DEF ServerInv, TypeInv, EnvType
  <2>2. CASE r \in Ops
    <3>1. finals[r] <= OwnAnswer(r) + CancelAnswer(r)
      BY <2>2 DEF OnceInv, Counted
    <3>2. OwnAnswer(r) \in {0, 1} /\ CancelAnswer(r) \in {0, 1}
      BY DEF OwnAnswer, CancelAnswer
    <3>3. r \notin abandoned \ unwanted => CancelAnswer(r) = 0
      BY DEF CancelAnswer
    <3> QED
      BY <2>1, <3>1, <3>2, <3>3
  <2>3. CASE r \in Cancels
    BY <2>1, <2>3 DEF OnceInv, CancelInv
  <2> QED
    BY <2>2, <2>3 DEF Requests
<1> QED
  BY <1>1, <1>2, <1>3, ServerInvariant, PTL DEF Spec

=============================================================================
