---------------------------- MODULE CoapOptions ----------------------------
(***************************************************************************)
(* The message that net_coap_send builds.  The application keeps its       *)
(* payload in the buffer the message is sent from: it asks                 *)
(* net_coap_pload_pos where the payload goes, and net_coap_send later puts *)
(* the header in front of it.  Both use the size of the header, which is   *)
(* computed in advance and kept in the context until a setter resets it,   *)
(* while the header itself is written byte after byte.                     *)
(*                                                                         *)
(* Strings are known by their lengths, and positions count from where the  *)
(* CoAP header starts.                                                     *)
(***************************************************************************)
EXTENDS Integers, Sequences, FiniteSets

CONSTANTS
  TokenLens,    \* lengths given to net_coap_set_token
  Uris,         \* lists of lengths given to set_uripath and set_uriquery
  ContentTypes, \* given to net_coap_set_contenttype; 0 stands for none
  DataLens      \* datalen of net_coap_send

URIPATH == 11        \* NET_COAP_OPTION_URIPATH
CONTENTFORMAT == 12  \* NET_COAP_OPTION_CONTENTFORMAT
URIQUERY == 15       \* NET_COAP_OPTION_URIQUERY
BaseHdrSize == 4     \* NET_COAP_BASEHDRSIZE
MaxLen == 65535      \* of a buffer, for buflen is a uint16_t

ASSUME InputsAssumption ==
  /\ TokenLens \subseteq 0 .. 8 /\ ContentTypes \subseteq 0 .. 255
  /\ \A uri \in Uris : uri \in Seq(Nat) /\ Len(uri) <= 255
  /\ 0 \in TokenLens /\ <<>> \in Uris /\ 0 \in ContentTypes
  /\ DataLens \subseteq Nat /\ 0 \in DataLens

VARIABLES
  coap,      \* struct net_coap_ctx, as far as the header depends on it
  sizedFor,  \* history: coap.tokenlen when coap.hdrsize was computed
  placed     \* history: the last answer of net_coap_pload_pos, 0 after a setter

vars == <<coap, sizedFor, placed>>

(* The context is static, all zero (tests.c, coap).                        *)
Init ==
  /\ coap = [tokenlen |-> 0, uripath |-> <<>>, uriquery |-> <<>>, contenttype |-> 0,
             hdrsize |-> 0]
  /\ sizedFor = 0 /\ placed = 0

(* The sums of the first k lengths, and of all of them.                    *)
TotalUpTo(lens) ==
  LET upTo[k \in 0 .. Len(lens)] == IF k = 0 THEN 0 ELSE upTo[k - 1] + lens[k]
  IN  upTo

Total(lens) == TotalUpTo(lens)[Len(lens)]

(* NET_COAP_OPTLEN: what an option is expected to take.                    *)
OptLen(n) == 1 + (IF n >= 13 THEN 1 ELSE 0) + n

UriSize(uri) == Total([i \in DOMAIN uri |-> OptLen(uri[i])])

(* Buffers have a length of 16 bits, and a message fits in its buffer.     *)
ASSUME FitAssumption ==
  \A path, query \in Uris, datalen \in DataLens :
    BaseHdrSize + 8 + UriSize(path) + UriSize(query) + OptLen(1) + 1 + datalen <= MaxLen

(* Mutant: the fixed header is not counted.                                *)
ComputeHdrSizeBare ==
  coap.tokenlen
  + UriSize(coap.uripath) + UriSize(coap.uriquery)
  + (IF coap.contenttype # 0 THEN OptLen(1) ELSE 0) + 1

(* _net_coap_compute_hdrsize, with the byte of the payload marker.         *)
ComputeHdrSize ==
  BaseHdrSize + coap.tokenlen
  + UriSize(coap.uripath) + UriSize(coap.uriquery)
  + (IF coap.contenttype # 0 THEN OptLen(1) ELSE 0) + 1

-----------------------------------------------------------------------------
(* The setters.  The application asks for the payload's place after them.  *)

SetToken(n) ==
  /\ coap' = [coap EXCEPT !.tokenlen = n]
  /\ placed' = 0
  /\ UNCHANGED sizedFor

SetUriPath(uri) ==
  /\ coap' = [coap EXCEPT !.uripath = uri, !.hdrsize = 0]
  /\ placed' = 0
  /\ UNCHANGED sizedFor

SetUriQuery(uri) ==
  /\ coap' = [coap EXCEPT !.uriquery = uri, !.hdrsize = 0]
  /\ placed' = 0
  /\ UNCHANGED sizedFor

(* Mutant: the size is kept.                                               *)
SetContentTypeKeepingSize(type) ==
  /\ coap' = [coap EXCEPT !.contenttype = type]
  /\ placed' = 0
  /\ UNCHANGED sizedFor

(* Only the first content type, or its removal, changes the size.          *)
SetContentType(type) ==
  /\ coap' = [coap EXCEPT !.contenttype = type,
                          !.hdrsize = IF (type = 0) # (coap.contenttype = 0)
                                      THEN 0 ELSE @]
  /\ placed' = 0
  /\ UNCHANGED sizedFor

(* The size that net_coap_pload_pos and net_coap_send go by.               *)
HdrSize == IF coap.hdrsize = 0 THEN ComputeHdrSize ELSE coap.hdrsize

KeepHdrSize ==
  /\ coap' = [coap EXCEPT !.hdrsize = HdrSize]
  /\ sizedFor' = IF coap.hdrsize = 0 THEN coap.tokenlen ELSE sizedFor

PloadPos == KeepHdrSize /\ placed' = HdrSize

-----------------------------------------------------------------------------
(* net_coap_send.                                                          *)

OptionsOf(number, lens) ==
  [i \in DOMAIN lens |-> [number |-> number, len |-> lens[i]]]

(* Mutant: the content type is put in front of the path.                   *)
OptionsByUse ==
  (IF coap.contenttype # 0 THEN OptionsOf(CONTENTFORMAT, <<1>>) ELSE <<>>)
  \o OptionsOf(URIPATH, coap.uripath)
  \o OptionsOf(URIQUERY, coap.uriquery)

(* The options in the order they are put.                                  *)
Options ==
  OptionsOf(URIPATH, coap.uripath)
  \o (IF coap.contenttype # 0 THEN OptionsOf(CONTENTFORMAT, <<1>>) ELSE <<>>)
  \o OptionsOf(URIQUERY, coap.uriquery)

(* options_delta, a uint8_t, after each option: it is the number less the  *)
(* delta before, not less the number before.                               *)
OptionsDelta ==
  LET delta[i \in 0 .. Len(Options)] ==
        IF i = 0 THEN 0 ELSE (256 + Options[i].number - delta[i - 1]) % 256
  IN  delta

(* NET_COAP_PUT_OPTION: the two halves of the first byte, and how many     *)
(* bytes are written.                                                      *)
Put(i) ==
  LET n == Options[i].len
  IN  [high |-> OptionsDelta[i] % 16,
       low |-> IF n < 13 THEN n ELSE IF n < 269 THEN 13 ELSE 14,
       size |-> 1 + (IF n < 13 THEN 0 ELSE IF n < 269 THEN 1 ELSE 2) + n]

(* How many bytes the header takes in the buffer.                          *)
HeaderWritten(datalen) ==
  BaseHdrSize + coap.tokenlen
  + Total([i \in DOMAIN Options |-> Put(i).size])
  + (IF datalen > 0 THEN 1 ELSE 0)

(* How long a message the lower layer is given.                            *)
LengthSent(datalen) == HdrSize - (IF datalen > 0 THEN 0 ELSE 1) + datalen

(* The message is described by the operators above; of the context, only   *)
(* the size may change (the rest is the subject of CoapExchange).          *)
Send == KeepHdrSize /\ UNCHANGED placed

Next ==
  \/ \E n \in TokenLens : SetToken(n)
  \/ \E uri \in Uris : SetUriPath(uri) \/ SetUriQuery(uri)
  \/ \E type \in ContentTypes : SetContentType(type)
  \/ PloadPos
  \/ Send

Spec == Init /\ [][Next]_vars

-----------------------------------------------------------------------------
TypeOK ==
  /\ coap \in [tokenlen : TokenLens, uripath : Uris, uriquery : Uris,
               contenttype : ContentTypes, hdrsize : {0} \union (BaseHdrSize + 1 .. MaxLen)]
  /\ sizedFor \in TokenLens
  /\ placed \in {0} \union (BaseHdrSize + 1 .. MaxLen)

(* The bytes that the kept size does not count: those the token has grown  *)
(* by since, for net_coap_set_token keeps the size, and one of each string *)
(* from 269 bytes on, which NET_COAP_OPTLEN counts wrong.                  *)
Uncounted ==
  (IF coap.hdrsize = 0 THEN 0 ELSE coap.tokenlen - sizedFor)
  + Cardinality({i \in DOMAIN Options : Options[i].len >= 269})

(* The header that is written ends exactly where the application put its   *)
(* payload ("we assume that the caller already placed the payload at this  *)
(* position"), and the message that goes down is the header and the        *)
(* payload, although the size may have been kept over any setters: up to   *)
(* the bytes above, and no others.                                         *)
PayloadInPlace ==
  \A datalen \in DataLens :
    /\ placed # 0 /\ datalen > 0 => HeaderWritten(datalen) = placed + Uncounted
    /\ HeaderWritten(datalen) + datalen = LengthSent(datalen) + Uncounted

(* The numbers a reader finds, each delta added to the number before.      *)
NumberRead ==
  LET number[i \in 0 .. Len(Options)] ==
        IF i = 0 THEN 0 ELSE number[i - 1] + Put(i).high
  IN  number

(* However many options a message has, a reader finds the first two as     *)
(* they were set, unless the first is a query: their deltas are not among  *)
(* the reserved values from 13 on, and they add up.  It never finds the    *)
(* third as it was set, for OptionsDelta subtracts the delta of the second *)
(* where it should subtract the number.                                    *)
OptionsReadBack ==
  \A i \in DOMAIN Options :
    /\ i <= 2 /\ Head(Options).number # URIQUERY
         => Put(i).high < 13 /\ NumberRead[i] = Options[i].number
    /\ i = 3 => NumberRead[i] # Options[i].number

(* What proto_coap.c says of the value 15 where net_coap_recv reads it:    *)
(* "0xFx is reserved for payload marker".                                  *)
MarkerReserved == \A i \in DOMAIN Options : Put(i).high # 15
=============================================================================
