---------------------------- MODULE CoapExchange ----------------------------
(***************************************************************************)
(* The CoAP client of proto_coap.c exchanging requests and answers with a  *)
(* server over a network that may lose, duplicate and reorder datagrams.   *)
(*                                                                         *)
(* Three parties act: the application, which calls the net_coap_*          *)
(* functions one at a time (the library is single threaded and never calls *)
(* back), the network, and the server, which is the test controller of     *)
(* tester.py.  A datagram is a record; the header fields that decide what  *)
(* net_coap_recv does are kept, the options and the payload are not (they  *)
(* are the subject of CoapParse and CoapOptions).                          *)
(***************************************************************************)
EXTENDS Naturals, FiniteSets

CONSTANTS
  MidMod,     \* last_messageid is a uint16_t: 65536 in the code
  Lifetime,   \* number of later sends a datagram, or its answer, can outlive
  Tokens,     \* token values the application gives to net_coap_set_token
  Codes,      \* response codes of the server, all different from EMPTY
  MaxSends    \* bound on the number of calls of net_coap_send

EMPTY == 0    \* NET_COAP_CODE_EMPTY

(* A datagram lives for less than one turn of the message identifier.      *)
ASSUME LifetimeAssumption ==
  /\ MidMod \in Nat \ {0}
  /\ Lifetime \in 0 .. MidMod
ASSUME CodesAssumption == EMPTY \notin Codes
ASSUME BoundsAssumption == MaxSends \in Nat

CON == "CON"  \* NET_COAP_TYPE_CONFIRMABLE
NON == "NON"  \* NET_COAP_TYPE_NONCONFIRMABLE
ACK == "ACK"  \* NET_COAP_TYPE_ACKNOWLEDGE
RST == "RST"  \* NET_COAP_TYPE_RESET

VARIABLES
  coap,       \* struct net_coap_ctx: type, token, last_messageid, response_code
  status,     \* what the last net_coap_recv since the last send returned
  sent,       \* history: calls of net_coap_send, each stamps its request
  heard,      \* history: the requests that reached the server
  requests,   \* every request handed to the network
  answers,    \* every answer handed to the network
  reorder,    \* the kind of network; TRUE: it also reorders and duplicates
  cursor      \* stamp of the newest answer taken from an ordered network

vars == <<coap, status, sent, heard, requests, answers, reorder, cursor>>

(* The tests zero the context by static initialisation (tests.c, coap).    *)
Init ==
  /\ coap \in [type : {CON}, token : Tokens,
               last_messageid : {0}, response_code : {EMPTY}]
  /\ status = "NONE"
  /\ sent = 0
  /\ heard = {}
  /\ requests = {}
  /\ answers = {}
  /\ reorder \in BOOLEAN
  /\ cursor = 0

Live(m) == sent - m.n < Lifetime

(* An ordered network still loses: it delivers any newer answer.           *)
Deliverable(m) == Live(m) /\ (reorder \/ m.stamp > cursor)

-----------------------------------------------------------------------------
(* The application.                                                        *)

SetMethod(type) ==
  /\ coap' = [coap EXCEPT !.type = type]
  /\ UNCHANGED <<status, sent, heard, requests, answers, reorder, cursor>>

(* The application never takes the token of a request that may still be    *)
(* answered: every test of tests.c sets a token of its own.                *)
Unused(token) == \A r \in requests : Live(r) => r.token # token

SetToken(token) ==
  /\ token = coap.token \/ Unused(token)
  /\ coap' = [coap EXCEPT !.token = token]
  /\ UNCHANGED <<status, sent, heard, requests, answers, reorder, cursor>>

(* Mutant: the identifier does not wrap.                                   *)
NextMidUnwrapped == coap.last_messageid + 1

NextMid == (coap.last_messageid + 1) % MidMod

(* Mutant: the response code of the previous exchange is left in place.    *)
SendKeepingCode(accepted) ==
  /\ sent < MaxSends
  /\ Unused(coap.token)
  /\ coap' = [coap EXCEPT !.last_messageid = NextMid]
  /\ sent' = sent + 1
  /\ status' = "NONE"
  /\ requests' = IF accepted
                 THEN requests \union {[n |-> sent + 1, type |-> coap.type,
                                        mid |-> NextMid, token |-> coap.token]}
                 ELSE requests
  /\ UNCHANGED <<heard, answers, reorder, cursor>>

(* The identifier is consumed and the response code cleared before the     *)
(* lower layer is called, so also when that layer refuses the datagram.    *)
Send(accepted) ==
  /\ sent < MaxSends
  /\ Unused(coap.token)
  /\ coap' = [coap EXCEPT !.last_messageid = NextMid, !.response_code = EMPTY]
  /\ sent' = sent + 1
  /\ status' = "NONE"
  /\ requests' = IF accepted
                 THEN requests \union {[n |-> sent + 1, type |-> coap.type,
                                        mid |-> NextMid, token |-> coap.token]}
                 ELSE requests
  /\ UNCHANGED <<heard, answers, reorder, cursor>>

Take(m) ==
  /\ Deliverable(m)
  /\ cursor' = IF reorder THEN cursor ELSE m.stamp
  /\ UNCHANGED <<sent, heard, requests, answers, reorder>>

(* Mutant: any empty acknowledgement counts, whatever its identifier.      *)
RecvAckOrResetOfAny(m) ==
  /\ m.type \in {ACK, RST}
  /\ Take(m)
  /\ IF m.code = EMPTY
     THEN /\ status' = m.type
          /\ coap' = IF m.type = ACK THEN [coap EXCEPT !.response_code = m.code]
                                     ELSE coap
     ELSE /\ status' = "EAGAIN"
          /\ UNCHANGED coap

(* Types ACK and RST: only the empty message with the identifier of the    *)
(* last request counts.  An acknowledgement stores its (empty) code.       *)
RecvAckOrReset(m) ==
  /\ m.type \in {ACK, RST}
  /\ Take(m)
  /\ IF m.mid = coap.last_messageid /\ m.code = EMPTY
     THEN /\ status' = m.type
          /\ coap' = IF m.type = ACK THEN [coap EXCEPT !.response_code = m.code]
                                     ELSE coap
     ELSE /\ status' = "EAGAIN"
          /\ UNCHANGED coap

(* Mutant: the token is not compared.                                      *)
RecvResponseOfAny(m) ==
  /\ m.type = NON
  /\ Take(m)
  /\ status' = "OK"
  /\ coap' = [coap EXCEPT !.response_code = m.code]

(* Type NON: the token decides; the type of the request does not matter.   *)
RecvResponse(m) ==
  /\ m.type = NON
  /\ Take(m)
  /\ IF m.token = coap.token
     THEN /\ status' = "OK"
          /\ coap' = [coap EXCEPT !.response_code = m.code]
     ELSE /\ status' = "EAGAIN"
          /\ UNCHANGED coap

(* Type CON: refused, whatever its token.                                  *)
RecvConfirmable(m) ==
  /\ m.type = CON
  /\ Take(m)
  /\ status' = "EINVAL"
  /\ UNCHANGED coap

(* The lower layer failed, or the datagram did not parse.                  *)
RecvError(errno) ==
  /\ status' = errno
  /\ UNCHANGED <<coap, sent, heard, requests, answers, reorder, cursor>>

Recv ==
  \/ \E m \in answers : RecvAckOrReset(m) \/ RecvResponse(m) \/ RecvConfirmable(m)
  \/ \E errno \in {"EAGAIN", "EPROTO", "EOVERFLOW"} : RecvError(errno)

-----------------------------------------------------------------------------
(* The server.                                                             *)

Answered(r) == \E a \in answers : a.n = r.n

Answer(r, type, mid, code) ==
  /\ Live(r)
  /\ heard' = heard \union {r.n}
  /\ answers' = answers \union
       {[n |-> r.n, type |-> type, mid |-> mid, token |-> r.token, code |-> code,
         stamp |-> IF reorder THEN 0 ELSE Cardinality(answers) + 1]}
  /\ UNCHANGED <<coap, status, sent, requests, reorder, cursor>>

(* An empty acknowledgement of a confirmable request.                      *)
ServerAck(r) ==
  /\ r.type = CON /\ ~ Answered(r)
  /\ Answer(r, ACK, r.mid, EMPTY)

(* The response carried by the acknowledgement itself.                     *)
ServerPiggyback(r, code) ==
  /\ r.type = CON /\ ~ Answered(r)
  /\ Answer(r, ACK, r.mid, code)

(* A response of its own, confirmable or not; a confirmable request is     *)
(* acknowledged first.  Its message identifier is the server's: the client *)
(* does not look at it.                                                    *)
ServerRespond(r, type, code) ==
  /\ IF r.type = CON
     THEN /\ \E a \in answers : a.n = r.n /\ a.type = ACK /\ a.code = EMPTY
          /\ \A a \in answers : a.n = r.n => a.type = ACK
     ELSE ~ Answered(r) /\ type = NON
  /\ Answer(r, type, 0, code)

ServerReset(r) ==
  /\ ~ Answered(r)
  /\ Answer(r, RST, r.mid, EMPTY)

Server ==
  \E r \in requests :
    \/ ServerAck(r)
    \/ \E code \in Codes : ServerPiggyback(r, code)
    \/ \E type \in {CON, NON}, code \in Codes : ServerRespond(r, type, code)
    \/ ServerReset(r)

-----------------------------------------------------------------------------
Next ==
  \/ \E type \in {CON, NON} : SetMethod(type)
  \/ \E token \in Tokens : SetToken(token)
  \/ \E accepted \in BOOLEAN : Send(accepted)
  \/ Recv
  \/ Server

Spec == Init /\ [][Next]_vars

-----------------------------------------------------------------------------
(* The type invariant.                                                     *)
Request == [n : Nat, type : {CON, NON}, mid : 0 .. MidMod - 1, token : Tokens]
AnswerMsg == [n : Nat, type : {CON, NON, ACK, RST}, mid : 0 .. MidMod - 1,
              token : Tokens, code : Codes \union {EMPTY}, stamp : Nat]
Statuses == {"NONE", "OK", ACK, RST, "EAGAIN", "EINVAL", "EPROTO", "EOVERFLOW"}

TypeOK ==
  /\ coap \in [type : {CON, NON}, token : Tokens,
               last_messageid : 0 .. MidMod - 1,
               response_code : Codes \union {EMPTY}]
  /\ status \in Statuses
  /\ sent \in Nat
  /\ heard \in SUBSET Nat
  /\ requests \in SUBSET Request
  /\ answers \in SUBSET AnswerMsg
  /\ reorder \in BOOLEAN
  /\ cursor \in Nat

(* When net_coap_recv reports ACK or RST, the request sent last did reach  *)
(* the server, and ACK is reported for a confirmable request only: no late *)
(* or repeated answer to an earlier request is mistaken for it, although   *)
(* the message identifier wraps around.                                    *)
StatusSound ==
  status \in {ACK, RST} =>
    \E r \in requests : /\ r.n = sent
                        /\ r.n \in heard
                        /\ status = ACK => r.type = CON

(* The response code that net_coap_get_responsecode shows, unless it is    *)
(* EMPTY, is one the server gave for the request sent last.                *)
ResponseSound ==
  coap.response_code # EMPTY =>
    \E m \in answers : /\ m.n = sent
                       /\ m.code = coap.response_code

(* A response code, once received, is never replaced by another one before *)
(* the next net_coap_send, and it is lost in one case only: the empty      *)
(* acknowledgement that its response overtook arrives, net_coap_recv       *)
(* writes its EMPTY over the code and reports ACK.  A network that only    *)
(* loses datagrams never does that, so there the code stays.               *)
ResponseKept ==
  [][(/\ coap.response_code # EMPTY /\ sent' = sent
      /\ coap'.response_code # coap.response_code)
        => reorder /\ coap'.response_code = EMPTY /\ status' = ACK]_vars

(* What tests.c says of test 0x67: the piggybacked response to the last    *)
(* request is reported as its acknowledgement and its code is kept.        *)
PiggybackTaken ==
  [][\A m \in answers :
       /\ m.type = ACK /\ m.code # EMPTY /\ m.n = sent
       /\ RecvAckOrReset(m)
       => status' = ACK /\ coap'.response_code = m.code]_vars
=============================================================================
