--------------------------------- MODULE PDU ---------------------------------
(***************************************************************************)
(* protocols/pureldap.py: LDAP messages, what they look like on the wire   *)
(* and how they are read back.                                             *)
(*                                                                         *)
(* On the wire a message is a tree of elements, each with a tag and a      *)
(* content: <<"int", i>>, <<"bool", i>>, <<"str", s>>, <<"null">> or       *)
(* <<"seq", elements>>.  The tag alone does not say what an element is:    *)
(* [3] is a referral in a result and the SASL credentials of a bind, [0] a *)
(* password, the controls, a new superior or the conjunction of filters.   *)
(* The decoder's context says which class a tag stands for.  How numbers   *)
(* and lengths are written is module BER's.                                *)
(*                                                                         *)
(* An optional field is a sequence of none or one value.                   *)
(***************************************************************************)
EXTENDS Naturals, Sequences, SequencesExt, TLC

App(n) == 64 + n
Ctx(n) == 128 + n

BOOLEAN_ == 1
INTEGER == 2
OCTETSTRING == 4
NULL_ == 5
ENUMERATED == 10
SEQUENCE == 16
SET_ == 17

Num(t, i) == [tag |-> t, content |-> <<"int", i>>]
Bool(t, i) == [tag |-> t, content |-> <<"bool", i>>]
Str(t, s) == [tag |-> t, content |-> <<"str", s>>]
Node(t, kids) == [tag |-> t, content |-> <<"seq", kids>>]

Strs(ss) == [i \in DOMAIN ss |-> Str(OCTETSTRING, ss[i])]
Opt(Op(_), field) == [i \in DOMAIN field |-> Op(field[i])]

-----------------------------------------------------------------------------
(* The contexts: what the tags stand for.  A context that does not know a  *)
(* tag asks its fallback; what is inside an element is decoded with the    *)
(* context it inherits, which is itself unless another is given.           *)

Results == {"LDAPSearchResultDone", "LDAPModifyResponse", "LDAPAddResponse",
            "LDAPDelResponse", "LDAPModifyDNResponse", "LDAPCompareResponse"}

OpTag ==
    [LDAPBindRequest |-> App(0), LDAPBindResponse |-> App(1), LDAPUnbindRequest |-> App(2),
     LDAPSearchRequest |-> App(3), LDAPSearchResultEntry |-> App(4),
     LDAPSearchResultDone |-> App(5), LDAPModifyRequest |-> App(6),
     LDAPModifyResponse |-> App(7), LDAPAddRequest |-> App(8), LDAPAddResponse |-> App(9),
     LDAPDelRequest |-> App(10), LDAPDelResponse |-> App(11), LDAPModifyDNRequest |-> App(12),
     LDAPModifyDNResponse |-> App(13), LDAPCompareRequest |-> App(14),
     LDAPCompareResponse |-> App(15), LDAPAbandonRequest |-> App(16),
     LDAPSearchResultReference |-> App(19), LDAPExtendedRequest |-> App(23),
     LDAPExtendedResponse |-> App(24)]

\* What a context adds to its fallback.
Base == (BOOLEAN_ :> "BERBoolean" @@ INTEGER :> "BERInteger" @@ OCTETSTRING :> "BEROctetString"
         @@ NULL_ :> "BERNull" @@ ENUMERATED :> "BEREnumerated" @@ SEQUENCE :> "BERSequence"
         @@ SET_ :> "BERSet")

Operations ==
    [t \in {OpTag[c] : c \in DOMAIN OpTag} |-> CHOOSE c \in DOMAIN OpTag : OpTag[c] = t]
    @@ (Ctx(3) :> "LDAPReferral")

InMessage == (Ctx(0) :> "LDAPControls" @@ App(19) :> "LDAPSearchResultReference"
              @@ App(25) :> "LDAPIntermediateResponse")
TopLevel == (SEQUENCE :> "LDAPMessage")
InControls == (SEQUENCE :> "LDAPControl")
InBindRequest == (Ctx(0) :> "BEROctetString" @@ Ctx(3) :> "BERSequence")
InReference == (OCTETSTRING :> "LDAPString")

\* Mutant of InBindResponse: a referral in the answer to a bind is not known.
InBindResponseNoReferral == (Ctx(7) :> "serverSaslCreds" @@ Ctx(3) :> "BERSequence")

InBindResponse == (Ctx(7) :> "serverSaslCreds" @@ Ctx(3) :> "LDAPReferral")
InResult == (Ctx(3) :> "LDAPReferral")
InModifyDN == (Ctx(0) :> "newSuperior")
InCompare == (SEQUENCE :> "LDAPAttributeValueAssertion")
InExtendedRequest == (Ctx(0) :> "BEROctetString" @@ Ctx(1) :> "BEROctetString")
InExtendedResponse == (Ctx(10) :> "LDAPResponseName" @@ Ctx(11) :> "LDAPResponse"
                       @@ Ctx(3) :> "LDAPReferral")
InIntermediate == (Ctx(0) :> "responseName" @@ Ctx(1) :> "responseValue")
InFilter == (Ctx(0) :> "and" @@ Ctx(1) :> "or" @@ Ctx(2) :> "not" @@ Ctx(3) :> "equalityMatch"
             @@ Ctx(4) :> "substrings" @@ Ctx(5) :> "greaterOrEqual" @@ Ctx(6) :> "lessOrEqual"
             @@ Ctx(7) :> "present" @@ Ctx(8) :> "approxMatch" @@ Ctx(9) :> "extensibleMatch")
InSubstrings == (Ctx(0) :> "initial" @@ Ctx(1) :> "any" @@ Ctx(2) :> "final")
InMatchingRule == (Ctx(1) :> "matchingRule" @@ Ctx(2) :> "type" @@ Ctx(3) :> "matchValue"
                   @@ Ctx(4) :> "dnAttributes")

\* A chain of tables, the first to be asked first; and what is inherited, if not
\* the chain itself.
Context(chain, inherit) == [chain |-> chain, inherit |-> inherit]
Within(table, b) == Context(<<table>> \o b.chain, <<>>)
WithinOnce(table, b) == Context(<<table>> \o b.chain, <<b>>)
Inherited(context) == IF context.inherit = <<>> THEN context ELSE context.inherit[1]

LDAPContext == Context(<<Operations, Base>>, <<>>)
MessageContext == Context(<<InMessage, Operations, Base>>, <<LDAPContext>>)
TopContext == Context(<<TopLevel>>, <<MessageContext>>)

Known(context, tag) == \E i \in DOMAIN context.chain : tag \in DOMAIN context.chain[i]
LookupId(context, tag) ==
    context.chain[Min({i \in DOMAIN context.chain : tag \in DOMAIN context.chain[i]})][tag]

-----------------------------------------------------------------------------
(* toWire.                                                                 *)

RECURSIVE Wire(_)
Wires(objects) == [i \in DOMAIN objects |-> Wire(objects[i])]

ReferralOf(m) == IF m.referral = <<>> THEN <<>> ELSE <<Node(Ctx(3), Strs(m.referral))>>
ResultFields(m) ==
    <<Num(ENUMERATED, m.resultCode), Str(OCTETSTRING, m.matchedDN),
      Str(OCTETSTRING, m.errorMessage)>> \o ReferralOf(m)

WireMessage(m) ==
    LET control(c) == Node(SEQUENCE,
            <<Str(OCTETSTRING, c.controlType)>> \o Opt(LAMBDA v : Bool(BOOLEAN_, v), c.criticality)
            \o Opt(LAMBDA v : Str(OCTETSTRING, v), c.controlValue))
        controls(cs) == Node(Ctx(0), [i \in DOMAIN cs |-> control(cs[i])])
    IN Node(SEQUENCE, <<Num(INTEGER, m.id), Wire(m.value)>> \o Opt(controls, m.controls))

\* Credentials that are empty are not the same as none.
WireBindRequest(m) ==
    Node(App(0), <<Num(INTEGER, m.version), Str(OCTETSTRING, m.dn),
        IF m.auth[1] = "simple" THEN Str(Ctx(0), m.auth[2])
        ELSE Node(Ctx(3), Strs(<<m.auth[2]>> \o m.auth[3]))>>)

\* Empty credentials of the server are left out.
WireBindResponse(m) ==
    Node(App(1), ResultFields(m)
        \o Opt(LAMBDA v : Str(Ctx(7), v), SelectSeq(m.serverSaslCreds, LAMBDA v : v # "")))

WireSearchRequest(m) ==
    Node(App(3), <<Str(OCTETSTRING, m.baseObject), Num(ENUMERATED, m.scope),
        Num(ENUMERATED, m.derefAliases), Num(INTEGER, m.sizeLimit), Num(INTEGER, m.timeLimit),
        Bool(BOOLEAN_, m.typesOnly), Wire(m.filter), Node(SEQUENCE, Strs(m.attributes))>>)

WireSearchResultEntry(m) ==
    LET pair(p) == Node(SEQUENCE, <<Str(OCTETSTRING, p[1]), Node(SET_, Strs(p[2]))>>)
    IN Node(App(4), <<Str(OCTETSTRING, m.objectName),
                      Node(SEQUENCE, [i \in DOMAIN m.attributes |-> pair(m.attributes[i])])>>)

WireUnbindRequest == [tag |-> App(2), content |-> <<"null">>]
WireReference(m) == Node(App(19), Strs(m.uris))
WireResult(m) == Node(OpTag[m.cls], ResultFields(m))
WireModifyRequest(m) ==
    Node(App(6), <<Str(OCTETSTRING, m.object), Node(SEQUENCE, Wires(m.modification))>>)
WireAddRequest(m) ==
    Node(App(8), <<Str(OCTETSTRING, m.entry), Node(SEQUENCE, Wires(m.attributes))>>)
WireDelRequest(m) == Str(App(10), m.entry)
WireAssertion(t, ava) == Node(t, Strs(ava))
WireCompareRequest(m) == Node(App(14), <<Str(OCTETSTRING, m.entry), WireAssertion(SEQUENCE, m.ava)>>)
WireAbandonRequest(m) == Num(App(16), m.id)

WireModifyDNRequest(m) ==
    Node(App(12), Strs(<<m.entry, m.newrdn>>) \o <<Bool(BOOLEAN_, m.deleteoldrdn)>>
                  \o Opt(LAMBDA v : Str(Ctx(0), v), m.newSuperior))

WireExtendedRequest(m) ==
    Node(App(23), <<Str(Ctx(0), m.requestName)>> \o Opt(LAMBDA v : Str(Ctx(1), v), m.requestValue))

WireExtendedResponse(m) ==
    Node(App(24), ResultFields(m) \o Opt(LAMBDA v : Str(Ctx(10), v), m.responseName)
                                  \o Opt(LAMBDA v : Str(Ctx(11), v), m.response))

WireIntermediateResponse(m) ==
    Node(App(25), Opt(LAMBDA v : Str(Ctx(0), v), m.responseName)
                  \o Opt(LAMBDA v : Str(Ctx(1), v), m.responseValue))

FilterTag == [and |-> Ctx(0), or |-> Ctx(1), equalityMatch |-> Ctx(3),
              greaterOrEqual |-> Ctx(5), lessOrEqual |-> Ctx(6), approxMatch |-> Ctx(8)]
PartTag == [initial |-> Ctx(0), any |-> Ctx(1), final |-> Ctx(2)]

WireSubstrings(f) ==
    Node(Ctx(4), <<Str(OCTETSTRING, f.attr),
        Node(SEQUENCE, [i \in DOMAIN f.parts |-> Str(PartTag[f.parts[i][1]], f.parts[i][2])])>>)

WireExtensibleMatch(f) ==
    Node(Ctx(9), Opt(LAMBDA v : Str(Ctx(1), v), f.matchingRule)
                 \o Opt(LAMBDA v : Str(Ctx(2), v), f.type)
                 \o <<Str(Ctx(3), f.matchValue)>>
                 \o Opt(LAMBDA v : Bool(Ctx(4), v), f.dnAttributes))

WireFilter(f) ==
    CASE f.cls \in {"and", "or"} -> Node(FilterTag[f.cls], Wires(f.members))
      [] f.cls = "not" -> Node(Ctx(2), <<Wire(f.value)>>)
      [] f.cls = "present" -> Str(Ctx(7), f.attr)
      [] f.cls = "substrings" -> WireSubstrings(f)
      [] f.cls = "extensibleMatch" -> WireExtensibleMatch(f)
      [] OTHER -> WireAssertion(FilterTag[f.cls], <<f.attr, f.value>>)

Wire(o) ==
    CASE o.cls = "LDAPMessage" -> WireMessage(o)
      [] o.cls = "LDAPBindRequest" -> WireBindRequest(o)
      [] o.cls = "LDAPBindResponse" -> WireBindResponse(o)
      [] o.cls = "LDAPUnbindRequest" -> WireUnbindRequest
      [] o.cls = "LDAPSearchRequest" -> WireSearchRequest(o)
      [] o.cls = "LDAPSearchResultEntry" -> WireSearchResultEntry(o)
      [] o.cls = "LDAPSearchResultReference" -> WireReference(o)
      [] o.cls \in Results -> WireResult(o)
      [] o.cls = "LDAPModifyRequest" -> WireModifyRequest(o)
      [] o.cls = "LDAPAddRequest" -> WireAddRequest(o)
      [] o.cls = "LDAPDelRequest" -> WireDelRequest(o)
      [] o.cls = "LDAPModifyDNRequest" -> WireModifyDNRequest(o)
      [] o.cls = "LDAPCompareRequest" -> WireCompareRequest(o)
      [] o.cls = "LDAPAbandonRequest" -> WireAbandonRequest(o)
      [] o.cls = "LDAPExtendedRequest" -> WireExtendedRequest(o)
      [] o.cls = "LDAPExtendedResponse" -> WireExtendedResponse(o)
      [] o.cls = "LDAPIntermediateResponse" -> WireIntermediateResponse(o)
      [] o.cls \in {"BERInteger", "BEREnumerated"} ->
           Num(IF o.cls = "BERInteger" THEN INTEGER ELSE ENUMERATED, o.val)
      [] o.cls = "BEROctetString" -> Str(OCTETSTRING, o.val)
      [] o.cls \in {"BERSequence", "BERSet"} ->
           Node(IF o.cls = "BERSet" THEN SET_ ELSE SEQUENCE, Wires(o.data))
      [] OTHER -> WireFilter(o)

-----------------------------------------------------------------------------
(* fromBER.  What an assertion refuses is Bad.                             *)

Bad == [cls |-> "Bad"]

RECURSIVE Decode(_, _)

\* berDecodeMultiple: elements whose tag nobody knows are passed over.
DecodeAll(context, kids) ==
    LET known == SelectSeq(kids, LAMBDA k : Known(context, k.tag))
    IN [i \in DOMAIN known |-> Decode(context, known[i])]

OctetStrings == {"BEROctetString", "LDAPString"}
IsStr(o) == o.cls \in OctetStrings
Lists == {"BERSequence", "BERSet"}
Vals(objects) == [i \in DOMAIN objects |-> objects[i].val]

\* The value of the one object of a class among objects, if there is one.
Of(objects, class) == Vals(SelectSeq(objects, LAMBDA o : o.cls = class))
Referral(objects) ==
    LET found == SelectSeq(objects, LAMBDA o : o.cls = "LDAPReferral")
    IN IF found = <<>> THEN <<>> ELSE Vals(Last(found).data)

ReadMessage(l) ==
    LET control(o) ==
          [controlType |-> o.data[1].val,
           criticality |-> Of(Tail(o.data), "BERBoolean"),
           controlValue |-> Of(Tail(o.data), "BEROctetString")]
    IN IF Len(l) \in 2..3 /\ l[1].cls = "BERInteger" /\ (Len(l) = 3 => l[3].cls = "LDAPControls")
       THEN [cls |-> "LDAPMessage", id |-> l[1].val, value |-> l[2],
             controls |-> IF Len(l) = 2 THEN <<>>
                          ELSE <<[i \in DOMAIN l[3].data |-> control(l[3].data[i])]>>]
       ELSE Bad

ReadBindRequest(l) ==
    [cls |-> "LDAPBindRequest", version |-> l[1].val, dn |-> l[2].val,
     auth |-> IF IsStr(l[3]) THEN <<"simple", l[3].val>>
              ELSE <<"sasl", l[3].data[1].val, Vals(Tail(l[3].data))>>]

\* The fields results begin with; rest is what follows them.
ReadResult(class, l, most) ==
    IF Len(l) \in 3..most /\ l[1].cls \in {"BERInteger", "BEREnumerated"} /\ IsStr(l[2]) /\ IsStr(l[3])
       /\ \A i \in 4..Len(l) : l[i].cls # "BERSequence"
    THEN [cls |-> class, resultCode |-> l[1].val, matchedDN |-> l[2].val,
          errorMessage |-> l[3].val, referral |-> Referral(SubSeq(l, 4, Len(l)))]
    ELSE Bad

ReadSearchRequest(l) ==
    IF Len(l) # 8 THEN Bad
    ELSE [cls |-> "LDAPSearchRequest", baseObject |-> l[1].val, scope |-> l[2].val,
          derefAliases |-> l[3].val, sizeLimit |-> l[4].val, timeLimit |-> l[5].val,
          typesOnly |-> l[6].val, filter |-> l[7], attributes |-> Vals(l[8].data)]

ReadSearchResultEntry(l) ==
    [cls |-> "LDAPSearchResultEntry", objectName |-> l[1].val,
     attributes |-> [i \in DOMAIN l[2].data |->
                       LET pair == l[2].data[i].data IN <<pair[1].val, Vals(pair[2].data)>>]]

ReadModifyDNRequest(l) ==
    [cls |-> "LDAPModifyDNRequest", entry |-> l[1].val, newrdn |-> l[2].val,
     deleteoldrdn |-> l[3].val, newSuperior |-> Vals(SubSeq(l, 4, Len(l)))]

ReadBindResponse(l) ==
    LET r == ReadResult("LDAPBindResponse", l, 5)
    IN IF r = Bad THEN Bad ELSE r @@ [serverSaslCreds |-> Of(l, "serverSaslCreds")]

ReadReference(l) == [cls |-> "LDAPSearchResultReference", uris |-> Vals(l)]
ReadModifyRequest(l) ==
    IF Len(l) = 2 /\ l[2].cls \in Lists
    THEN [cls |-> "LDAPModifyRequest", object |-> l[1].val, modification |-> l[2].data] ELSE Bad
ReadAddRequest(l) == [cls |-> "LDAPAddRequest", entry |-> l[1].val, attributes |-> l[2].data]
ReadCompareRequest(l) ==
    [cls |-> "LDAPCompareRequest", entry |-> l[1].val, ava |-> <<l[2].attr, l[2].value>>]
ReadExtendedRequest(l) ==
    [cls |-> "LDAPExtendedRequest", requestName |-> l[1].val, requestValue |-> Vals(Tail(l))]

ReadExtendedResponse(l) ==
    LET r == ReadResult("LDAPExtendedResponse", l, 6)
    IN IF r = Bad THEN Bad
       ELSE r @@ [responseName |-> Of(l, "LDAPResponseName"), response |-> Of(l, "LDAPResponse")]

ReadIntermediateResponse(l) ==
    [cls |-> "LDAPIntermediateResponse", responseName |-> Of(l, "responseName"),
     responseValue |-> Of(l, "responseValue")]

\* A filter of an attribute and a value, and the parts of a substring filter.
ReadAssertion(class, l) ==
    IF Len(l) = 2 /\ IsStr(l[1]) /\ IsStr(l[2])
    THEN [cls |-> class, attr |-> l[1].val, value |-> l[2].val] ELSE Bad

ReadSubstrings(l) ==
    IF Len(l) = 2 /\ l[2].cls \in Lists /\ l[2].data # <<>>
    THEN [cls |-> "substrings", attr |-> l[1].val,
          parts |-> [i \in DOMAIN l[2].data |-> <<l[2].data[i].cls, l[2].data[i].val>>]]
    ELSE Bad

\* The members come in one order; one out of it is not taken.
ReadExtensibleMatch(l) ==
    LET taken(rest, class) == IF rest # <<>> /\ Head(rest).cls = class THEN 1 ELSE 0
        Drop(rest, n) == SubSeq(rest, n + 1, Len(rest))
        afterRule == Drop(l, taken(l, "matchingRule"))
        afterType == Drop(afterRule, taken(afterRule, "type"))
        afterValue == Drop(afterType, taken(afterType, "matchValue"))
    IN IF Len(l) \in 1..4 /\ taken(afterType, "matchValue") = 1
       THEN [cls |-> "extensibleMatch",
             matchingRule |-> Vals(SubSeq(l, 1, taken(l, "matchingRule"))),
             type |-> Vals(SubSeq(afterRule, 1, taken(afterRule, "type"))),
             matchValue |-> afterType[1].val,
             dnAttributes |-> Vals(SubSeq(afterValue, 1, taken(afterValue, "dnAttributes")))]
       ELSE Bad

\* berDecodeObject: the class the context gives the tag, with the context it inherits.
Decode(context, node) ==
    LET class == LookupId(context, node.tag)
        b == Inherited(context)
        c == node.content
        kids(inner) == DecodeAll(inner, c[2])
    IN CASE class = "LDAPMessage" -> ReadMessage(kids(b))
         [] class = "LDAPControls" -> [cls |-> class, data |-> kids(Context(<<InControls>>, <<b>>))]
         [] class = "LDAPBindRequest" -> ReadBindRequest(kids(Within(InBindRequest, b)))
         [] class = "LDAPBindResponse" -> ReadBindResponse(kids(Within(InBindResponse, b)))
         [] class = "LDAPUnbindRequest" -> [cls |-> class]
         [] class = "LDAPSearchRequest" -> ReadSearchRequest(kids(WithinOnce(InFilter, b)))
         [] class = "LDAPSearchResultEntry" -> ReadSearchResultEntry(kids(WithinOnce(InFilter, b)))
         [] class = "LDAPSearchResultReference" -> ReadReference(kids(Within(InReference, b)))
         [] class \in Results -> ReadResult(class, kids(Within(InResult, b)), 4)
         [] class = "LDAPModifyRequest" -> ReadModifyRequest(kids(b))
         [] class = "LDAPAddRequest" -> ReadAddRequest(kids(b))
         [] class = "LDAPDelRequest" -> [cls |-> class, entry |-> c[2]]
         [] class = "LDAPModifyDNRequest" -> ReadModifyDNRequest(kids(Within(InModifyDN, b)))
         [] class = "LDAPCompareRequest" -> ReadCompareRequest(kids(WithinOnce(InCompare, b)))
         [] class = "LDAPAbandonRequest" -> [cls |-> class, id |-> c[2]]
         [] class = "LDAPExtendedRequest" -> ReadExtendedRequest(kids(Within(InExtendedRequest, b)))
         [] class = "LDAPExtendedResponse" ->
              ReadExtendedResponse(kids(Within(InExtendedResponse, b)))
         [] class = "LDAPIntermediateResponse" ->
              ReadIntermediateResponse(kids(Within(InIntermediate, b)))
         [] class \in {"and", "or"} -> [cls |-> class, members |-> kids(Within(InFilter, b))]
         [] class = "not" -> [cls |-> class, value |-> kids(WithinOnce(InFilter, b))[1]]
         [] class = "present" -> [cls |-> class, attr |-> c[2]]
         [] class = "substrings" -> ReadSubstrings(kids(Within(InSubstrings, b)))
         [] class = "extensibleMatch" -> ReadExtensibleMatch(kids(WithinOnce(InMatchingRule, b)))
         [] class \in {"equalityMatch", "greaterOrEqual", "lessOrEqual", "approxMatch",
                       "LDAPAttributeValueAssertion"} -> ReadAssertion(class, kids(b))
         [] class \in {"BERSequence", "BERSet", "LDAPReferral", "LDAPControl"} ->
              [cls |-> class, data |-> kids(b)]
         [] OTHER -> [cls |-> class, val |-> c[2]]

-----------------------------------------------------------------------------
(* Extended requests whose value is BER again.                             *)

Request(oid, value) == [cls |-> "LDAPExtendedRequest", requestName |-> oid, requestValue |-> value]
StartTLSRequest == Request("1.3.6.1.4.1.1466.20037", <<>>)
CancelRequest(id) == Request("1.3.6.1.1.8", <<Node(SEQUENCE, <<Num(INTEGER, id)>>)>>)
PasswordModifyRequest(user, old, new) ==
    Request("1.3.6.1.4.1.4203.1.11.1",
            <<Node(SEQUENCE, Opt(LAMBDA v : Str(Ctx(0), v), user)
                             \o Opt(LAMBDA v : Str(Ctx(1), v), old)
                             \o Opt(LAMBDA v : Str(Ctx(2), v), new))>>)

InPasswordModify == (Ctx(0) :> "userIdentity" @@ Ctx(1) :> "oldPasswd" @@ Ctx(2) :> "newPasswd")
PasswordContext ==
    Context(<<Base>>, <<Context(<<InPasswordModify>>, <<Context(<<Base>>, <<>>)>>)>>)

\* What the server makes of the value: none of the fields may come twice.
ReadPasswordModify(m) ==
    LET fields == Decode(PasswordContext, m.requestValue[1]).data
        user == Of(fields, "userIdentity")
        old == Of(fields, "oldPasswd")
        new == Of(fields, "newPasswd")
    IN IF Len(user) > 1 \/ Len(old) > 1 \/ Len(new) > 1 THEN Bad
       ELSE [user |-> user, old |-> old, new |-> new]

-----------------------------------------------------------------------------
Sent(m) == Wire(m)
Received(node) == Decode(TopContext, node)

\* The same elements, and at the end of the message and of its operation one more
\* that nobody knows.
Stranger == Str(Ctx(30), "new")
Extended(node) ==
    LET more(n) == IF n.content[1] = "seq" THEN Node(n.tag, Append(n.content[2], Stranger)) ELSE n
        kids == node.content[2]
    IN more(Node(node.tag, [kids EXCEPT ![2] = more(@)]))

\* What is read is what was sent.
RoundTrip(m) == Received(Sent(m)) = m

\* The value of a request in a request is read as it was sent.
PasswordsComeBack(user, old, new) ==
    LET m == [cls |-> "LDAPMessage", id |-> 1, value |-> PasswordModifyRequest(user, old, new),
              controls |-> <<>>]
    IN ReadPasswordModify(Received(Sent(m)).value) = [user |-> user, old |-> old, new |-> new]

\* What a later version of the protocol adds to a message does not disturb the rest.
Tolerant(m) == Received(Extended(Sent(m))) = m
=============================================================================
