------------------------ MODULE CoapExchange_proofs ------------------------
(***************************************************************************)
(* Proofs about CoapExchange, for every modulus of the message identifier, *)
(* every lifetime up to one turn of it, every set of tokens and codes, and *)
(* every number of requests.                                               *)
(*                                                                         *)
(* StatusSound and ResponseSound are not inductive: they speak of an       *)
(* answer that was accepted because its identifier, or its token, is the   *)
(* current one.  MidInv, RequestInv and AnswerInv say what an identifier   *)
(* stands for (the number of calls of net_coap_send, modulo MidMod), and   *)
(* TokenInv that no other live request has the current token.              *)
(*                                                                         *)
(* ResponseKept rests on what the server does, and in which order: Ordered *)
(* says that it gives one response to a request, after its acknowledgement *)
(* if it gives one, and that the response in the context has been taken.   *)
(***************************************************************************)
EXTENDS CoapExchange, Arithmetic, FiniteSetTheorems

(* last_messageid counts the calls of net_coap_send.                       *)
MidInv == coap.last_messageid = sent % MidMod

(* A request carries the identifier of the call that made it.              *)
RequestInv ==
  \A r \in requests : r.n \in 1 .. sent /\ r.mid = r.n % MidMod

(* An answer belongs to a request that the server has heard.               *)
AnswerInv ==
  \A m \in answers :
    /\ m.n \in heard
    /\ \E r \in requests :
         /\ r.n = m.n
         /\ r.token = m.token
         /\ m.type \in {ACK, RST} => m.mid = r.mid
         /\ m.type = ACK => r.type = CON

(* Of the requests that may still be answered, only the last one can have  *)
(* the token of the context.                                               *)
TokenInv ==
  \A r \in requests : Live(r) /\ r.token = coap.token => r.n = sent

IInv ==
  /\ TypeOK
  /\ IsFiniteSet(answers)
  /\ MidInv
  /\ RequestInv
  /\ AnswerInv
  /\ TokenInv
  /\ StatusSound
  /\ ResponseSound

-----------------------------------------------------------------------------
(* The identifier that net_coap_send computes is the one of the new call.  *)
LEMMA NextMidValue ==
  ASSUME sent \in Nat, MidInv
  PROVE  NextMid = (sent + 1) % MidMod /\ NextMid \in 0 .. MidMod - 1
<1>1. ((sent % MidMod) + 1) % MidMod = (sent + 1) % MidMod
  BY ModOfSum, LifetimeAssumption
<1>2. sent + 1 \in Nat /\ (sent + 1) % MidMod \in 0 .. MidMod - 1
  BY DivMod, LifetimeAssumption
<1> QED BY <1>1, <1>2 DEF MidInv, NextMid

(* An acknowledgement or reset still alive with the current identifier     *)
(* belongs to the request sent last, and that request was heard.           *)
LEMMA CurrentIdentifier ==
  ASSUME IInv, NEW m \in answers, Live(m), m.type \in {ACK, RST},
         m.mid = coap.last_messageid
  PROVE  /\ m.n = sent
         /\ \E r \in requests : /\ r.n = sent
                                /\ r.n \in heard
                                /\ m.type = ACK => r.type = CON
<1>1. PICK r \in requests : /\ r.n = m.n
                            /\ m.mid = r.mid
                            /\ m.type = ACK => r.type = CON
  BY DEF IInv, AnswerInv
<1>2. r.n \in 1 .. sent /\ r.mid = r.n % MidMod
  BY DEF IInv, RequestInv
<1>3. sent \in Nat /\ r.n \in Nat /\ r.n <= sent /\ sent - r.n < MidMod
  BY <1>1, <1>2, LifetimeAssumption DEF IInv, TypeOK, Live
<1>4. sent % MidMod = r.n % MidMod
  BY <1>1, <1>2 DEF IInv, MidInv
<1>5. sent = r.n
  BY <1>3, <1>4, ModEq, LifetimeAssumption
<1>6. r.n \in heard
  BY <1>1 DEF IInv, AnswerInv
<1> QED BY <1>1, <1>5, <1>6

(* A response still alive with the current token answers the last request. *)
LEMMA CurrentToken ==
  ASSUME IInv, NEW m \in answers, Live(m), m.token = coap.token
  PROVE  m.n = sent
<1>1. PICK r \in requests : r.n = m.n /\ r.token = m.token
  BY DEF IInv, AnswerInv
<1>2. Live(r)
  BY <1>1 DEF Live
<1> QED BY <1>1, <1>2 DEF IInv, TokenInv

-----------------------------------------------------------------------------
LEMMA InitInv == Init => IInv
<1> SUFFICES ASSUME Init PROVE IInv
  OBVIOUS
<1>1. TypeOK
  BY LifetimeAssumption DEF Init, TypeOK, Statuses
<1>2. IsFiniteSet(answers)
  BY FS_EmptySet DEF Init
<1>3. MidInv
  <2>1. 0 % MidMod = 0
    BY LifetimeAssumption
  <2> QED BY <2>1 DEF Init, MidInv
<1>4. RequestInv /\ AnswerInv /\ TokenInv
  BY DEF Init, RequestInv, AnswerInv, TokenInv
<1>5. StatusSound /\ ResponseSound
  BY DEF Init, StatusSound, ResponseSound, ACK, RST
<1> QED BY <1>1, <1>2, <1>3, <1>4, <1>5 DEF IInv

(* The setters.                                                            *)
LEMMA SetMethodInv ==
  ASSUME IInv, NEW type \in {CON, NON}, SetMethod(type)
  PROVE  IInv'
<1>1. /\ coap'.last_messageid = coap.last_messageid
      /\ coap'.token = coap.token
      /\ coap'.response_code = coap.response_code
  BY DEF SetMethod, IInv, TypeOK
<1>2. TypeOK'
  BY DEF SetMethod, IInv, TypeOK
<1> QED BY <1>1, <1>2 DEF SetMethod, IInv, MidInv, RequestInv, AnswerInv, TokenInv,
                          StatusSound, ResponseSound, Live

LEMMA SetTokenInv ==
  ASSUME IInv, NEW token \in Tokens, SetToken(token)
  PROVE  IInv'
<1>1. /\ coap'.last_messageid = coap.last_messageid
      /\ coap'.token = token
      /\ coap'.response_code = coap.response_code
  BY DEF SetToken, IInv, TypeOK
<1>2. TypeOK'
  BY DEF SetToken, IInv, TypeOK
<1>3. TokenInv'
  BY <1>1 DEF SetToken, IInv, TokenInv, Unused, Live
<1> QED BY <1>1, <1>2, <1>3 DEF SetToken, IInv, MidInv, RequestInv, AnswerInv,
                                StatusSound, ResponseSound

(* The call of net_coap_send.                                              *)
LEMMA SendInv ==
  ASSUME IInv, NEW accepted \in BOOLEAN, Send(accepted)
  PROVE  IInv'
<1> DEFINE new == [n |-> sent + 1, type |-> coap.type,
                   mid |-> NextMid, token |-> coap.token]
<1>1. NextMid = (sent + 1) % MidMod /\ NextMid \in 0 .. MidMod - 1
  BY NextMidValue DEF IInv, TypeOK
<1>2. /\ coap'.last_messageid = NextMid
      /\ coap'.token = coap.token
      /\ coap'.response_code = EMPTY
      /\ coap'.type = coap.type
  BY DEF Send, IInv, TypeOK
<1>3. sent \in Nat /\ sent' = sent + 1
  BY DEF Send, IInv, TypeOK
<1>4. requests \subseteq requests' /\ requests' \subseteq requests \union {new}
  BY DEF Send
<1>5. TypeOK'
  <2>1. new \in Request
    BY <1>1, <1>3 DEF IInv, TypeOK, Request
  <2>2. requests' \subseteq Request
    BY <2>1, <1>4 DEF IInv, TypeOK
  <2>3. coap' \in [type : {CON, NON}, token : Tokens,
                   last_messageid : 0 .. MidMod - 1,
                   response_code : Codes \union {EMPTY}]
    BY <1>1 DEF Send, IInv, TypeOK
  <2> QED BY <2>2, <2>3, <1>3 DEF Send, IInv, TypeOK, Statuses
<1>6. MidInv'
  BY <1>1, <1>2, <1>3 DEF MidInv
<1>7. RequestInv'
  BY <1>1, <1>3, <1>4 DEF IInv, RequestInv
<1>8. AnswerInv'
  BY <1>4 DEF Send, IInv, AnswerInv
<1>9. TokenInv'
  <2> SUFFICES ASSUME NEW r \in requests', Live(r)', r.token = coap.token
               PROVE  r.n = sent + 1
    BY <1>2, <1>3 DEF TokenInv
  <2>1. r = new \/ r \in requests
    BY <1>4
  <2>2. CASE r \in requests
    <3>1. r.n \in Nat
      BY <2>2, <1>3 DEF IInv, RequestInv
    <3>2. Live(r)
      BY <3>1, <1>3, LifetimeAssumption DEF Live
    <3> QED BY <2>2, <3>2 DEF Send, Unused
  <2> QED BY <2>1, <2>2
<1>10. StatusSound' /\ ResponseSound'
  BY <1>2 DEF Send, StatusSound, ResponseSound, ACK, RST
<1> QED BY <1>5, <1>6, <1>7, <1>8, <1>9, <1>10 DEF Send, IInv

-----------------------------------------------------------------------------
(* A step of net_coap_recv changes the context and the status only.        *)
LEMMA RecvFrame ==
  ASSUME IInv,
         UNCHANGED <<sent, heard, requests, answers, reorder>>,
         coap' = coap \/ \E code \in Codes \union {EMPTY} :
                           coap' = [coap EXCEPT !.response_code = code],
         status' \in Statuses, cursor' \in Nat,
         StatusSound', ResponseSound'
  PROVE  IInv'
<1>1. /\ coap'.last_messageid = coap.last_messageid
      /\ coap'.token = coap.token
      /\ coap' \in [type : {CON, NON}, token : Tokens,
                    last_messageid : 0 .. MidMod - 1,
                    response_code : Codes \union {EMPTY}]
  BY DEF IInv, TypeOK
<1>2. TypeOK'
  BY <1>1 DEF IInv, TypeOK
<1> QED BY <1>1, <1>2 DEF IInv, MidInv, RequestInv, AnswerInv, TokenInv, Live

LEMMA RecvAckOrResetInv ==
  ASSUME IInv, NEW m \in answers, RecvAckOrReset(m)
  PROVE  IInv'
<1>1. /\ m \in AnswerMsg
      /\ coap \in [type : {CON, NON}, token : Tokens,
                   last_messageid : 0 .. MidMod - 1,
                   response_code : Codes \union {EMPTY}]
  BY DEF IInv, TypeOK
<1>2. UNCHANGED <<sent, heard, requests, answers, reorder>> /\ Live(m)
  BY DEF RecvAckOrReset, Take, Deliverable
<1>3. cursor' \in Nat
  BY <1>1 DEF RecvAckOrReset, Take, AnswerMsg, IInv, TypeOK
<1>4. CASE m.mid = coap.last_messageid /\ m.code = EMPTY
  <2>1. status' = m.type /\ m.type \in {ACK, RST}
    BY <1>4 DEF RecvAckOrReset
  <2>2. coap' = coap \/ coap' = [coap EXCEPT !.response_code = EMPTY]
    BY <1>4 DEF RecvAckOrReset
  <2>3. StatusSound'
    BY <1>2, <1>4, <2>1, CurrentIdentifier DEF StatusSound
  <2>4. ResponseSound'
    BY <1>1, <1>2, <2>2 DEF IInv, ResponseSound
  <2> QED BY <1>2, <1>3, <2>1, <2>2, <2>3, <2>4, RecvFrame DEF Statuses
<1>5. CASE ~ (m.mid = coap.last_messageid /\ m.code = EMPTY)
  <2>1. status' = "EAGAIN" /\ coap' = coap
    BY <1>5 DEF RecvAckOrReset
  <2>2. StatusSound' /\ ResponseSound'
    BY <1>2, <2>1 DEF IInv, StatusSound, ResponseSound, ACK, RST
  <2> QED BY <1>2, <1>3, <2>1, <2>2, RecvFrame DEF Statuses
<1> QED BY <1>4, <1>5

LEMMA RecvResponseInv ==
  ASSUME IInv, NEW m \in answers, RecvResponse(m)
  PROVE  IInv'
<1>1. /\ m \in AnswerMsg
      /\ coap \in [type : {CON, NON}, token : Tokens,
                   last_messageid : 0 .. MidMod - 1,
                   response_code : Codes \union {EMPTY}]
  BY DEF IInv, TypeOK
<1>2. UNCHANGED <<sent, heard, requests, answers, reorder>> /\ Live(m)
  BY DEF RecvResponse, Take, Deliverable
<1>3. cursor' \in Nat
  BY <1>1 DEF RecvResponse, Take, AnswerMsg, IInv, TypeOK
<1>4. CASE m.token = coap.token
  <2>1. status' = "OK" /\ coap' = [coap EXCEPT !.response_code = m.code]
    BY <1>4 DEF RecvResponse
  <2>2. m.code \in Codes \union {EMPTY}
    BY <1>1 DEF AnswerMsg
  <2>3. StatusSound'
    BY <2>1 DEF StatusSound, ACK, RST
  <2>4. ResponseSound'
    <3>1. m.n = sent
      BY <1>2, <1>4, CurrentToken
    <3> QED BY <1>1, <1>2, <2>1, <3>1 DEF ResponseSound
  <2> QED BY <1>2, <1>3, <2>1, <2>2, <2>3, <2>4, RecvFrame DEF Statuses
<1>5. CASE m.token # coap.token
  <2>1. status' = "EAGAIN" /\ coap' = coap
    BY <1>5 DEF RecvResponse
  <2>2. StatusSound' /\ ResponseSound'
    BY <1>2, <2>1 DEF IInv, StatusSound, ResponseSound, ACK, RST
  <2> QED BY <1>2, <1>3, <2>1, <2>2, RecvFrame DEF Statuses
<1> QED BY <1>4, <1>5

(* The refusals: a confirmable message, and the errors.                    *)
LEMMA RecvRefusalInv ==
  ASSUME IInv,
         \/ \E m \in answers : RecvConfirmable(m)
         \/ \E errno \in {"EAGAIN", "EPROTO", "EOVERFLOW"} : RecvError(errno)
  PROVE  IInv'
<1>1. /\ UNCHANGED <<coap, sent, heard, requests, answers, reorder>>
      /\ status' \in {"EINVAL", "EAGAIN", "EPROTO", "EOVERFLOW"}
      /\ cursor' \in Nat
  BY DEF RecvConfirmable, RecvError, Take, IInv, TypeOK, AnswerMsg
<1>2. StatusSound' /\ ResponseSound'
  BY <1>1 DEF IInv, StatusSound, ResponseSound, ACK, RST
<1> QED BY <1>1, <1>2, RecvFrame DEF Statuses

-----------------------------------------------------------------------------
(* The server adds an answer to a request it hears.                        *)
LEMMA AnswerInvStep ==
  ASSUME IInv, NEW r \in requests, NEW type \in {CON, NON, ACK, RST},
         NEW mid \in 0 .. MidMod - 1, NEW code \in Codes \union {EMPTY},
         type \in {ACK, RST} => mid = r.mid,
         type = ACK => r.type = CON,
         Answer(r, type, mid, code)
  PROVE  IInv'
<1> DEFINE new == [n |-> r.n, type |-> type, mid |-> mid, token |-> r.token,
                   code |-> code,
                   stamp |-> IF reorder THEN 0 ELSE Cardinality(answers) + 1]
<1>1. /\ answers' = answers \union {new}
      /\ heard' = heard \union {r.n}
      /\ UNCHANGED <<coap, status, sent, requests, reorder, cursor>>
  BY DEF Answer
<1>2. Cardinality(answers) \in Nat /\ IsFiniteSet(answers')
  BY <1>1, FS_CardinalityType, FS_AddElement DEF IInv
<1>3. TypeOK'
  <2>1. r \in Request
    BY DEF IInv, TypeOK
  <2>2. new \in AnswerMsg
    BY <1>2, <2>1 DEF Request, AnswerMsg
  <2>3. answers' \subseteq AnswerMsg /\ heard' \subseteq Nat
    BY <1>1, <2>1, <2>2 DEF IInv, TypeOK, Request
  <2> QED BY <1>1, <2>3 DEF IInv, TypeOK
<1>4. AnswerInv'
  <2> SUFFICES ASSUME NEW m \in answers'
               PROVE  /\ m.n \in heard'
                      /\ \E s \in requests :
                           /\ s.n = m.n
                           /\ s.token = m.token
                           /\ m.type \in {ACK, RST} => m.mid = s.mid
                           /\ m.type = ACK => s.type = CON
    BY <1>1 DEF AnswerInv
  <2>1. CASE m \in answers
    BY <1>1, <2>1 DEF IInv, AnswerInv
  <2>2. CASE m = new
    BY <1>1, <2>2
  <2> QED BY <1>1, <2>1, <2>2
<1>5. StatusSound' /\ ResponseSound'
  BY <1>1 DEF IInv, StatusSound, ResponseSound
<1> QED BY <1>1, <1>2, <1>3, <1>4, <1>5
        DEF IInv, MidInv, RequestInv, TokenInv, Live

LEMMA ServerInv ==
  ASSUME IInv, Server
  PROVE  IInv'
<1>1. PICK r \in requests :
        \/ ServerAck(r)
        \/ \E code \in Codes : ServerPiggyback(r, code)
        \/ \E type \in {CON, NON}, code \in Codes : ServerRespond(r, type, code)
        \/ ServerReset(r)
  BY DEF Server
<1>2. r.mid \in 0 .. MidMod - 1 /\ 0 \in 0 .. MidMod - 1
  BY LifetimeAssumption DEF IInv, TypeOK, Request
<1>3. CASE ServerAck(r)
  BY <1>2, <1>3, AnswerInvStep DEF ServerAck, ACK
<1>4. CASE \E code \in Codes : ServerPiggyback(r, code)
  BY <1>2, <1>4, AnswerInvStep DEF ServerPiggyback, ACK
<1>5. CASE \E type \in {CON, NON}, code \in Codes : ServerRespond(r, type, code)
  BY <1>2, <1>5, AnswerInvStep DEF ServerRespond, CON, NON, ACK, RST
<1>6. CASE ServerReset(r)
  BY <1>2, <1>6, AnswerInvStep DEF ServerReset, ACK, RST
<1> QED BY <1>1, <1>3, <1>4, <1>5, <1>6

-----------------------------------------------------------------------------
LEMMA NextInv == IInv /\ [Next]_vars => IInv'
<1> SUFFICES ASSUME IInv, [Next]_vars PROVE IInv'
  OBVIOUS
<1>1. CASE \E type \in {CON, NON} : SetMethod(type)
  BY <1>1, SetMethodInv
<1>2. CASE \E token \in Tokens : SetToken(token)
  BY <1>2, SetTokenInv
<1>3. CASE \E accepted \in BOOLEAN : Send(accepted)
  BY <1>3, SendInv
<1>4. CASE Recv
  BY <1>4, RecvAckOrResetInv, RecvResponseInv, RecvRefusalInv DEF Recv
<1>5. CASE Server
  BY <1>5, ServerInv
<1>6. CASE UNCHANGED vars
  BY <1>6 DEF vars, IInv, TypeOK, MidInv, RequestInv, AnswerInv, TokenInv,
              StatusSound, ResponseSound, Live
<1> QED BY <1>1, <1>2, <1>3, <1>4, <1>5, <1>6 DEF Next

LEMMA Invariance == Spec => []IInv
<1> QED BY InitInv, NextInv, PTL DEF Spec

(* Every variable of the exchange keeps its type: in particular the        *)
(* message identifier stays within its width however many requests are     *)
(* sent.                                                                   *)
THEOREM TypeCorrect == Spec => []TypeOK
<1>1. IInv => TypeOK
  BY DEF IInv
<1> QED BY <1>1, Invariance, PTL

(* net_coap_recv reports ACK or RST only for the request sent last, for    *)
(* every MidMod, as long as no datagram outlives a turn of the identifier. *)
THEOREM StatusIsSound == Spec => []StatusSound
<1>1. IInv => StatusSound
  BY DEF IInv
<1> QED BY <1>1, Invariance, PTL

(* The response code of the context is one given to the last request.      *)
THEOREM ResponseIsSound == Spec => []ResponseSound
<1>1. IInv => ResponseSound
  BY DEF IInv
<1> QED BY <1>1, Invariance, PTL

-----------------------------------------------------------------------------
(* A request has one answer that is not an acknowledgement, and that one   *)
(* comes last; the response in the context is behind the cursor.           *)
OneResponse ==
  \A a, b \in answers : a.n = b.n /\ a.type # ACK /\ b.type # ACK => a = b

Stamped ==
  ~ reorder =>
    /\ \A m \in answers : m.stamp <= Cardinality(answers)
    /\ \A a, b \in answers :
         a.n = b.n /\ a.type = ACK /\ b.type # ACK => a.stamp < b.stamp

CodeTaken ==
  coap.response_code # EMPTY =>
    \E m \in answers : /\ m.n = sent /\ m.type = NON
                       /\ m.code = coap.response_code
                       /\ ~ reorder => m.stamp <= cursor

Ordered == OneResponse /\ Stamped /\ CodeTaken

LEMMA SendOrdered ==
  ASSUME IInv, Ordered, NEW accepted \in BOOLEAN, Send(accepted)
  PROVE  Ordered'
<1>1. coap'.response_code = EMPTY
  BY DEF Send, IInv, TypeOK
<1> QED BY <1>1 DEF Send, Ordered, OneResponse, Stamped, CodeTaken

(* What is taken of an ordered network is newer than the cursor was.       *)
LEMMA TakeOrdered ==
  ASSUME IInv, NEW m \in answers, Take(m), ~ reorder
  PROVE  m.stamp > cursor /\ cursor' = m.stamp /\ cursor \in Nat /\ m.stamp \in Nat
BY DEF IInv, TypeOK, AnswerMsg, Take, Deliverable

(* Taking an answer without storing its code.                              *)
LEMMA SkipOrdered ==
  ASSUME IInv, Ordered, NEW m \in answers, Take(m), UNCHANGED coap
  PROVE  Ordered'
<1>1. UNCHANGED <<answers, sent, reorder>>
  BY DEF Take
<1>2. CodeTaken'
  <2> SUFFICES ASSUME coap.response_code # EMPTY
               PROVE  \E a \in answers : /\ a.n = sent /\ a.type = NON
                                         /\ a.code = coap.response_code
                                         /\ ~ reorder => a.stamp <= cursor'
    BY <1>1 DEF CodeTaken
  <2>1. PICK a \in answers : /\ a.n = sent /\ a.type = NON
                             /\ a.code = coap.response_code
                             /\ ~ reorder => a.stamp <= cursor
    BY DEF Ordered, CodeTaken
  <2>2. a.stamp \in Nat
    BY DEF IInv, TypeOK, AnswerMsg
  <2>3. ASSUME ~ reorder PROVE a.stamp <= cursor'
    <3>1. m.stamp > cursor /\ cursor' = m.stamp /\ cursor \in Nat /\ m.stamp \in Nat
      BY <2>3, TakeOrdered
    <3>2. a.stamp <= cursor
      BY <2>1, <2>3
    <3> QED BY <2>2, <3>1, <3>2
  <2> QED BY <2>1, <2>3
<1> QED BY <1>1, <1>2 DEF Ordered, OneResponse, Stamped

LEMMA RecvOrdered ==
  ASSUME IInv, Ordered, Recv
  PROVE  Ordered'
<1>1. ASSUME NEW m \in answers, RecvAckOrReset(m) PROVE Ordered'
  <2>1. Take(m) /\ UNCHANGED <<answers, sent, reorder>>
    BY <1>1 DEF RecvAckOrReset, Take
  <2>2. CASE UNCHANGED coap
    BY <2>1, <2>2, SkipOrdered
  <2>3. CASE coap' # coap
    <3>1. coap'.response_code = EMPTY
      BY <1>1, <2>3 DEF RecvAckOrReset, IInv, TypeOK
    <3> QED BY <2>1, <3>1 DEF Ordered, OneResponse, Stamped, CodeTaken
  <2> QED BY <2>2, <2>3
<1>2. ASSUME NEW m \in answers, RecvResponse(m) PROVE Ordered'
  <2>1. Take(m) /\ UNCHANGED <<answers, sent, reorder>> /\ m.type = NON
    BY <1>2 DEF RecvResponse, Take
  <2>2. CASE m.token # coap.token
    BY <1>2, <2>1, <2>2, SkipOrdered DEF RecvResponse
  <2>3. CASE m.token = coap.token
    <3>1. coap'.response_code = m.code
      BY <1>2, <2>3 DEF RecvResponse, IInv, TypeOK
    <3>2. m.n = sent
      BY <2>1, <2>3, CurrentToken DEF Take, Deliverable
    <3>3. ~ reorder => m.stamp <= cursor'
      BY <2>1, TakeOrdered
    <3> QED BY <2>1, <3>1, <3>2, <3>3 DEF Ordered, OneResponse, Stamped, CodeTaken
  <2> QED BY <2>2, <2>3
<1>3. ASSUME NEW m \in answers, RecvConfirmable(m) PROVE Ordered'
  BY <1>3, SkipOrdered DEF RecvConfirmable
<1>4. ASSUME NEW errno, RecvError(errno) PROVE Ordered'
  BY <1>4 DEF RecvError, Ordered, OneResponse, Stamped, CodeTaken
<1> QED BY <1>1, <1>2, <1>3, <1>4 DEF Recv

(* The server answers a request it has not answered, or has acknowledged.  *)
LEMMA AnswerOrdered ==
  ASSUME IInv, Ordered, NEW r \in requests, NEW type, NEW mid, NEW code,
         Answer(r, type, mid, code),
         \A a \in answers : a.n = r.n => a.type = ACK /\ type # ACK
  PROVE  Ordered'
<1> DEFINE stamp == IF reorder THEN 0 ELSE Cardinality(answers) + 1
           new == [n |-> r.n, type |-> type, mid |-> mid, token |-> r.token,
                   code |-> code, stamp |-> stamp]
<1>1. /\ answers' = answers \union {new}
      /\ UNCHANGED <<coap, sent, reorder, cursor>>
  BY DEF Answer
<1>2. new.n = r.n /\ new.type = type /\ new.stamp = stamp
  OBVIOUS
<1> HIDE DEF new
<1>3. OneResponse'
  BY <1>1, <1>2 DEF Ordered, OneResponse
<1>4. Stamped'
  <2> SUFFICES ASSUME ~ reorder PROVE Stamped'
    BY <1>1 DEF Stamped
  <2>1. IsFiniteSet(answers) /\ Cardinality(answers) \in Nat
    BY FS_CardinalityType DEF IInv
  <2>2. \A m \in answers : m.stamp \in Nat /\ m.stamp <= Cardinality(answers)
    BY DEF Ordered, Stamped, IInv, TypeOK, AnswerMsg
  <2>3. new.stamp = Cardinality(answers) + 1
    BY <1>2
  <2>4. new \notin answers
    BY <2>1, <2>2, <2>3
  <2>5. Cardinality(answers') = Cardinality(answers) + 1
    BY <1>1, <2>1, <2>4, FS_AddElement
  <2>6. \A m \in answers' : m.stamp <= Cardinality(answers')
    BY <1>1, <2>1, <2>2, <2>3, <2>5
  <2>7. ASSUME NEW a \in answers', NEW b \in answers', a.n = b.n, a.type = ACK, b.type # ACK
        PROVE  a.stamp < b.stamp
    <3>1. CASE a \in answers /\ b \in answers
      BY <2>7, <3>1 DEF Ordered, Stamped
    <3>2. CASE a \in answers /\ b = new
      BY <2>1, <2>2, <2>3, <3>2
    <3>3. CASE a = new
      BY <1>1, <1>2, <2>7, <3>3
    <3> QED BY <1>1, <3>1, <3>2, <3>3
  <2> QED BY <1>1, <2>6, <2>7 DEF Stamped
<1>5. CodeTaken'
  BY <1>1 DEF Ordered, CodeTaken
<1> QED BY <1>3, <1>4, <1>5 DEF Ordered

LEMMA ServerOrdered ==
  ASSUME IInv, Ordered, Server
  PROVE  Ordered'
<1>1. PICK r \in requests :
        \/ ServerAck(r)
        \/ \E code \in Codes : ServerPiggyback(r, code)
        \/ \E type \in {CON, NON}, code \in Codes : ServerRespond(r, type, code)
        \/ ServerReset(r)
  BY DEF Server
<1>2. CASE ServerAck(r)
  BY <1>2, AnswerOrdered DEF ServerAck, Answered
<1>3. CASE \E code \in Codes : ServerPiggyback(r, code)
  BY <1>3, AnswerOrdered DEF ServerPiggyback, Answered
<1>4. CASE \E type \in {CON, NON}, code \in Codes : ServerRespond(r, type, code)
  <2>1. PICK type \in {CON, NON}, code \in Codes : ServerRespond(r, type, code)
    BY <1>4
  <2>2. \A a \in answers : a.n = r.n => a.type = ACK /\ type # ACK
    BY <2>1 DEF ServerRespond, Answered, CON, NON, ACK
  <2> QED BY <2>1, <2>2, AnswerOrdered DEF ServerRespond
<1>5. CASE ServerReset(r)
  BY <1>5, AnswerOrdered DEF ServerReset, Answered
<1> QED BY <1>1, <1>2, <1>3, <1>4, <1>5

LEMMA OrderedInvariance == Spec => [](IInv /\ Ordered)
<1>1. Init => Ordered
  BY DEF Init, Ordered, OneResponse, Stamped, CodeTaken
<1>2. ASSUME IInv, Ordered, [Next]_vars PROVE Ordered'
  <2>1. CASE \E type \in {CON, NON} : SetMethod(type)
    <3>1. coap'.response_code = coap.response_code
      BY <1>2, <2>1 DEF SetMethod, IInv, TypeOK
    <3> QED BY <1>2, <2>1, <3>1 DEF SetMethod, Ordered, OneResponse, Stamped, CodeTaken
  <2>2. CASE \E token \in Tokens : SetToken(token)
    <3>1. coap'.response_code = coap.response_code
      BY <1>2, <2>2 DEF SetToken, IInv, TypeOK
    <3> QED BY <1>2, <2>2, <3>1 DEF SetToken, Ordered, OneResponse, Stamped, CodeTaken
  <2>3. CASE \E accepted \in BOOLEAN : Send(accepted)
    BY <1>2, <2>3, SendOrdered
  <2>4. CASE Recv
    BY <1>2, <2>4, RecvOrdered
  <2>5. CASE Server
    BY <1>2, <2>5, ServerOrdered
  <2>6. CASE UNCHANGED vars
    BY <1>2, <2>6 DEF vars, Ordered, OneResponse, Stamped, CodeTaken
  <2> QED BY <1>2, <2>1, <2>2, <2>3, <2>4, <2>5, <2>6 DEF Next
<1> QED BY <1>1, <1>2, InitInv, NextInv, PTL DEF Spec

(* A response code stays until the next net_coap_send, for every loss of   *)
(* datagrams: no other response takes its place, and only a network that   *)
(* reorders brings the acknowledgement of the request after the response.  *)
THEOREM ResponseIsKept == Spec => ResponseKept
<1> DEFINE Kept == (/\ coap.response_code # EMPTY /\ sent' = sent
                    /\ coap'.response_code # coap.response_code)
                      => reorder /\ coap'.response_code = EMPTY /\ status' = ACK
<1>1. ASSUME IInv, Ordered, Next, coap.response_code # EMPTY, sent' = sent,
             coap'.response_code # coap.response_code
      PROVE  reorder /\ coap'.response_code = EMPTY /\ status' = ACK
  <2> DEFINE Lost == reorder /\ coap'.response_code = EMPTY /\ status' = ACK
  <2>1. PICK taken \in answers : /\ taken.n = sent /\ taken.type = NON
                                 /\ taken.code = coap.response_code
                                 /\ ~ reorder => taken.stamp <= cursor
                                 /\ taken.stamp \in Nat
    BY <1>1 DEF Ordered, CodeTaken, IInv, TypeOK, AnswerMsg
  <2>0. taken.n = sent /\ taken.type = NON /\ taken.code = coap.response_code /\ taken.stamp \in Nat
    BY <2>1
  <2>2. CASE (\E type \in {CON, NON} : SetMethod(type)) \/ (\E token \in Tokens : SetToken(token))
    BY <1>1, <2>2 DEF SetMethod, SetToken, IInv, TypeOK
  <2>3. CASE \E accepted \in BOOLEAN : Send(accepted)
    <3>1. sent' = sent + 1 /\ sent \in Nat
      BY <1>1, <2>3 DEF Send, IInv, TypeOK
    <3> QED BY <1>1, <3>1
  <2>4. CASE Server
    BY <1>1, <2>4 DEF Server, ServerAck, ServerPiggyback, ServerRespond, ServerReset, Answer
  <2>5. ASSUME NEW m \in answers, RecvAckOrReset(m)
        PROVE  Lost
    <3>1. coap' # coap
      BY <1>1
    <3>2. Take(m) /\ Live(m) /\ m.type = ACK /\ m.mid = coap.last_messageid
      BY <2>5, <3>1 DEF RecvAckOrReset, Take, Deliverable
    <3>3. coap'.response_code = EMPTY /\ status' = ACK
      BY <1>1, <2>5, <3>1, <3>2 DEF RecvAckOrReset, IInv, TypeOK
    <3>4. m.n = sent
      BY <1>1, <3>2, CurrentIdentifier
    <3>5. ASSUME ~ reorder PROVE FALSE
      <4>1. \A a, b \in answers : a.n = b.n /\ a.type = ACK /\ b.type # ACK
                                    => a.stamp < b.stamp
        BY <1>1, <3>5 DEF Ordered, Stamped
      <4>2. m.stamp < taken.stamp
        BY <2>0, <3>2, <3>4, <4>1 DEF NON, ACK
      <4>3. m.stamp > cursor /\ cursor \in Nat /\ m.stamp \in Nat
        BY <1>1, <3>2, <3>5, TakeOrdered
      <4>4. taken.stamp <= cursor
        BY <2>1, <3>5
      <4> QED BY <2>0, <4>2, <4>3, <4>4
    <3> QED BY <3>3, <3>5
  <2>6. ASSUME NEW m \in answers, RecvResponse(m)
        PROVE  Lost
    <3>1. CASE m.token # coap.token
      BY <1>1, <2>6, <3>1 DEF RecvResponse
    <3>2. CASE m.token = coap.token
      <4>1. Take(m) /\ Live(m) /\ m.type = NON
        BY <2>6 DEF RecvResponse, Take, Deliverable
      <4>2. m.n = sent
        BY <1>1, <3>2, <4>1, CurrentToken
      <4>3. m = taken
        BY <1>1, <2>0, <4>1, <4>2 DEF Ordered, OneResponse, NON, ACK
      <4>4. coap'.response_code = m.code
        BY <1>1, <2>6, <3>2 DEF RecvResponse, IInv, TypeOK
      <4> QED BY <1>1, <2>0, <4>3, <4>4
    <3> QED BY <3>1, <3>2
  <2>7. ASSUME NEW m \in answers, RecvConfirmable(m)
        PROVE  Lost
    BY <1>1, <2>7 DEF RecvConfirmable
  <2>8. ASSUME NEW errno, RecvError(errno)
        PROVE  Lost
    BY <1>1, <2>8 DEF RecvError
  <2> QED BY <1>1, <2>2, <2>3, <2>4, <2>5, <2>6, <2>7, <2>8 DEF Next, Recv
<1>2. IInv /\ Ordered /\ [Next]_vars => [Kept]_vars
  BY <1>1
<1> QED BY <1>2, OrderedInvariance, PTL DEF Spec, ResponseKept
=============================================================================
