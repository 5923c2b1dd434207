----------------------------- MODULE CoapParse -----------------------------
(***************************************************************************)
(* How net_coap_recv walks over a received CoAP message: fixed header,     *)
(* token, options, payload marker.  The function keeps two counts by hand, *)
(* the cursor that every NET_GET/NET_SKIP macro advances and *datalen that *)
(* every branch decreases, and checks only the second before it reads.     *)
(* One action stands for one stage of the loop body, so that the two       *)
(* counts can be compared between any two reads.                           *)
(*                                                                         *)
(* A message is the sequence of bytes that net_udp_recv delivers.          *)
(***************************************************************************)
EXTENDS Naturals, Sequences

CONSTANTS
  Messages,       \* the messages that may arrive
  Token,          \* coap->token, of length coap->tokenlen
  LastMessageId   \* coap->last_messageid

Byte == 0 .. 255
Uint16Max == 65535
Uint16 == 0 .. Uint16Max

(* The lower layers never deliver more than the 1514 bytes of a frame.     *)
ASSUME MessagesAssumption ==
  \A m \in Messages : m \in Seq(Byte) /\ Len(m) \in Uint16
ASSUME TokenAssumption == Token \in Seq(Byte)

BaseHdrSize == 4      \* NET_COAP_BASEHDRSIZE
Version == 1          \* NET_COAP_VERSION
Empty == 0            \* NET_COAP_CODE_EMPTY
Marker == 255         \* the payload marker

VARIABLES
  pc,           \* the stage the call of net_coap_recv is in
  msg,          \* the message being parsed
  cursor,       \* bytes of msg behind the cursor
  datalen,      \* *datalen
  opttypelen,   \* first byte of the option being skipped
  optlen,       \* length of its value
  status,       \* what the call returned
  dataoffset,   \* *dataoffset on return, relative to the message
  response_code \* coap->response_code

vars == <<pc, msg, cursor, datalen, opttypelen, optlen, status, dataoffset,
          response_code>>

(* One call; net_coap_send cleared the response code before it.            *)
Init ==
  /\ pc = "called"
  /\ msg = <<>>
  /\ cursor = 0 /\ datalen = 0 /\ opttypelen = 0 /\ optlen = 0
  /\ status = "NONE" /\ dataoffset = 0 /\ response_code = Empty

(* The byte n places after the cursor.  The buffer goes on behind the      *)
(* message: what is there is left over from an earlier frame.              *)
ByteAfter(n) == IF cursor + n + 1 \in DOMAIN msg THEN msg[cursor + n + 1] ELSE 0

ShortAfter(n) == 256 * ByteAfter(n) + ByteAfter(n + 1)

HighNibble(byte) == byte \div 16
LowNibble(byte) == byte % 16

(* Mutant: the count is not reduced to its width.                          *)
DecreasedUnwrapped(n) == 65536 + datalen - n

(* *datalen is a uint16_t.                                                 *)
Decreased(n) == (65536 + datalen - n) % 65536

-----------------------------------------------------------------------------
(* The two exits of the function.                                          *)
ReturnZeroData(errno) ==
  /\ pc' = "returned"
  /\ status' = errno
  /\ dataoffset' = 0 /\ datalen' = 0
  /\ UNCHANGED <<msg, cursor, opttypelen, optlen>>

ReturnData(consumed) ==
  /\ pc' = "returned"
  /\ status' = "OK"
  /\ cursor' = consumed
  /\ dataoffset' = consumed
  /\ response_code' = msg[2]
  /\ UNCHANGED <<msg, datalen, opttypelen, optlen>>

(* The lower layer delivers a message, or fails.                           *)
ReceiveMessage ==
  /\ pc = "called"
  /\ msg' \in Messages
  /\ pc' = "header" /\ datalen' = Len(msg')
  /\ UNCHANGED <<cursor, opttypelen, optlen, status, dataoffset, response_code>>

ReceiveNothing ==
  /\ pc = "called"
  /\ ReturnZeroData("EAGAIN")
  /\ UNCHANGED response_code

-----------------------------------------------------------------------------
(* The fixed header.                                                       *)
MsgVersion == msg[1] \div 64
MsgType == (msg[1] \div 16) % 4
MsgTokenLen == LowNibble(msg[1])
MsgCode == msg[2]
MsgId == 256 * msg[3] + msg[4]

HeaderTooShort ==
  /\ pc = "header" /\ datalen < BaseHdrSize
  /\ ReturnZeroData("EOVERFLOW")
  /\ UNCHANGED response_code

HeaderOfVersion ==
  pc = "header" /\ datalen >= BaseHdrSize /\ MsgVersion = Version

HeaderBadVersion ==
  /\ pc = "header" /\ datalen >= BaseHdrSize /\ MsgVersion # Version
  /\ ReturnZeroData("EPROTO")
  /\ UNCHANGED response_code

HeaderAckOrReset ==
  /\ HeaderOfVersion /\ MsgType \in {2, 3}
  /\ IF MsgId = LastMessageId /\ MsgCode = Empty
     THEN /\ ReturnZeroData(IF MsgType = 2 THEN "ACK" ELSE "RST")
          /\ response_code' = IF MsgType = 2 THEN MsgCode ELSE response_code
     ELSE /\ ReturnZeroData("EAGAIN")
          /\ UNCHANGED response_code

HeaderConfirmable ==
  /\ HeaderOfVersion /\ MsgType = 0
  /\ ReturnZeroData("EINVAL")
  /\ UNCHANGED response_code

HeaderResponse ==
  /\ HeaderOfVersion /\ MsgType = 1
  /\ pc' = "token" /\ cursor' = BaseHdrSize
  /\ UNCHANGED <<msg, datalen, opttypelen, optlen, status, dataoffset, response_code>>

(* The token.                                                              *)
TokenTooShort ==
  /\ pc = "token" /\ datalen < BaseHdrSize + MsgTokenLen
  /\ ReturnZeroData("EOVERFLOW")
  /\ UNCHANGED response_code

SameToken ==
  /\ MsgTokenLen = Len(Token)
  /\ \A i \in 1 .. Len(Token) : ByteAfter(i - 1) = Token[i]

TokenOfAnother ==
  /\ pc = "token" /\ datalen >= BaseHdrSize + MsgTokenLen /\ ~ SameToken
  /\ ReturnZeroData("EAGAIN")
  /\ UNCHANGED response_code

TokenOfOurs ==
  /\ pc = "token" /\ datalen >= BaseHdrSize + MsgTokenLen /\ SameToken
  /\ pc' = "type"
  /\ cursor' = cursor + MsgTokenLen
  /\ datalen' = Decreased(BaseHdrSize + MsgTokenLen)
  /\ UNCHANGED <<msg, opttypelen, optlen, status, dataoffset, response_code>>

-----------------------------------------------------------------------------
(* The loop over the options.                                              *)
NoOptionLeft ==
  /\ pc = "type" /\ datalen = 0
  /\ ReturnData(cursor)

MarkerOnly ==
  /\ pc = "type" /\ datalen = 1 /\ ByteAfter(0) = Marker
  /\ ReturnZeroData("EOVERFLOW")
  /\ UNCHANGED response_code

(* The break: the cursor is past the marker, *datalen still counts it.     *)
MarkerFound ==
  /\ pc = "type" /\ datalen > 1 /\ ByteAfter(0) = Marker
  /\ ReturnData(cursor + 1)

OptionReserved ==
  /\ pc = "type" /\ datalen > 0
  /\ ByteAfter(0) # Marker /\ HighNibble(ByteAfter(0)) = 15
  /\ ReturnZeroData("EPROTO")
  /\ UNCHANGED response_code

(* Bytes of the extended option type: 0xD0 announces one, 0xE0 two.        *)
TypeExtension(byte) == CASE HighNibble(byte) = 13 -> 1
                         [] HighNibble(byte) = 14 -> 2
                         [] OTHER -> 0

OptionTypeTooShort ==
  /\ pc = "type" /\ datalen > 0
  /\ TypeExtension(ByteAfter(0)) > 0 /\ datalen <= TypeExtension(ByteAfter(0))
  /\ ReturnZeroData("EOVERFLOW")
  /\ UNCHANGED response_code

(* Mutant: an option without extended type is looked at, not consumed.     *)
OptionTypePeeking ==
  /\ pc = "type" /\ datalen > 0 /\ HighNibble(ByteAfter(0)) # 15
  /\ LET extension == TypeExtension(ByteAfter(0))
         skipped == IF extension = 0 THEN 0 ELSE 1 + extension
     IN  /\ extension = 0 \/ datalen > extension
         /\ cursor' = cursor + skipped
         /\ datalen' = Decreased(skipped)
  /\ opttypelen' = ByteAfter(0)
  /\ pc' = "length"
  /\ UNCHANGED <<msg, optlen, status, dataoffset, response_code>>

OptionType ==
  /\ pc = "type" /\ datalen > 0 /\ HighNibble(ByteAfter(0)) # 15
  /\ LET extension == TypeExtension(ByteAfter(0))
     IN  /\ extension = 0 \/ datalen > extension
         /\ cursor' = cursor + 1 + extension
         /\ datalen' = Decreased(1 + extension)
  /\ opttypelen' = ByteAfter(0)
  /\ pc' = "length"
  /\ UNCHANGED <<msg, optlen, status, dataoffset, response_code>>

(* Bytes of the extended option length: 0x0D announces one, 0x0E two.      *)
LengthExtension == CASE LowNibble(opttypelen) = 13 -> 1
                     [] LowNibble(opttypelen) = 14 -> 2
                     [] OTHER -> 0

OptionLengthReserved ==
  /\ pc = "length" /\ LowNibble(opttypelen) = 15
  /\ ReturnZeroData("EPROTO")
  /\ UNCHANGED response_code

OptionLengthTooShort ==
  /\ pc = "length"
  /\ LengthExtension > 0 /\ datalen <= LengthExtension
  /\ ReturnZeroData("EOVERFLOW")
  /\ UNCHANGED response_code

(* optlen is a uint16_t: an extended length of 65267 or more wraps.        *)
OptionValueLen ==
  CASE LengthExtension = 1 -> ByteAfter(0) + 13
    [] LengthExtension = 2 -> (ShortAfter(0) + 269) % 65536
    [] OTHER -> LowNibble(opttypelen)

(* Mutant: the room for the extended length is not checked.                *)
OptionLengthUnchecked ==
  /\ pc = "length" /\ LowNibble(opttypelen) # 15
  /\ optlen' = OptionValueLen
  /\ cursor' = cursor + LengthExtension
  /\ datalen' = Decreased(LengthExtension)
  /\ pc' = "value"
  /\ UNCHANGED <<msg, opttypelen, status, dataoffset, response_code>>

OptionLength ==
  /\ pc = "length" /\ LowNibble(opttypelen) # 15
  /\ LengthExtension = 0 \/ datalen > LengthExtension
  /\ optlen' = OptionValueLen
  /\ cursor' = cursor + LengthExtension
  /\ datalen' = Decreased(LengthExtension)
  /\ pc' = "value"
  /\ UNCHANGED <<msg, opttypelen, status, dataoffset, response_code>>

OptionValueTooShort ==
  /\ pc = "value" /\ datalen < optlen
  /\ ReturnZeroData("EOVERFLOW")
  /\ UNCHANGED response_code

(* Mutant: the length of the extended form is taken for the whole length.  *)
OptionValueOfShortForm ==
  /\ pc = "value" /\ datalen >= optlen
  /\ LET skipped == IF optlen >= 13 THEN optlen - 13 ELSE optlen
     IN  /\ cursor' = cursor + skipped
         /\ datalen' = Decreased(skipped)
  /\ pc' = "type"
  /\ UNCHANGED <<msg, opttypelen, optlen, status, dataoffset, response_code>>

OptionValue ==
  /\ pc = "value" /\ datalen >= optlen
  /\ cursor' = cursor + optlen
  /\ datalen' = Decreased(optlen)
  /\ pc' = "type"
  /\ UNCHANGED <<msg, opttypelen, optlen, status, dataoffset, response_code>>

-----------------------------------------------------------------------------
Receive == ReceiveMessage \/ ReceiveNothing

Header == \/ HeaderTooShort
          \/ HeaderBadVersion
          \/ HeaderAckOrReset
          \/ HeaderConfirmable
          \/ HeaderResponse

TokenField == TokenTooShort \/ TokenOfAnother \/ TokenOfOurs

Options == \/ NoOptionLeft
           \/ MarkerOnly
           \/ MarkerFound
           \/ OptionReserved
           \/ OptionTypeTooShort
           \/ OptionType
           \/ OptionLengthReserved
           \/ OptionLengthTooShort
           \/ OptionLength
           \/ OptionValueTooShort
           \/ OptionValue

Next == Receive \/ Header \/ TokenField \/ Options

(* The call runs to its return: nothing preempts it.                       *)
Spec == Init /\ [][Next]_vars /\ WF_vars(Next)

-----------------------------------------------------------------------------
TypeOK ==
  /\ pc \in {"called", "returned", "header", "token", "type", "length", "value"}
  /\ msg \in Seq(Byte) /\ Len(msg) \in Uint16
  /\ cursor \in Nat /\ dataoffset \in Nat
  /\ datalen \in Uint16
  /\ opttypelen \in Byte
  /\ optlen \in Uint16
  /\ status \in {"NONE", "OK", "ACK", "RST",
                 "EAGAIN", "EPROTO", "EOVERFLOW", "EINVAL"}
  /\ response_code \in Byte

(* No read of net_coap_recv goes past the end of the message, whatever the *)
(* lengths in it say: *datalen, which the code checks, never promises more *)
(* bytes than there are behind the cursor, which the code reads from.      *)
NoOverread ==
  /\ cursor <= Len(msg)
  /\ pc \in {"type", "length", "value"} => cursor + datalen <= Len(msg)

(* The call returns: every turn of the loop makes progress.                *)
Terminates == <>(pc = "returned")

(* The stages a call may still go through at most: three for each byte    *)
(* behind the cursor, and a few for what comes before the loop and after.  *)
StagesLeft ==
  LET perByte == 3 * (Len(msg) - cursor)
  IN  CASE pc = "called" -> 3 * Uint16Max + 6
        [] pc \in {"header", "length"} -> perByte + 5
        [] pc \in {"token", "value"} -> perByte + 4
        [] pc = "type" -> perByte + 3
        [] pc = "returned" -> 0

(* Why it returns: every stage of net_coap_recv leaves fewer stages to go, *)
(* for each turn of the loop moves the cursor by a byte at least and never *)
(* past the end, whatever lengths the message announces.                   *)
Progress == [][StagesLeft' \in Nat /\ StagesLeft' < StagesLeft]_vars

(* What the diagrams of the header say of a message: the token, then       *)
(* options that follow one another, then a marker and a payload of at      *)
(* least one byte, or the end.  Payload[i] is the index of the first byte  *)
(* of the payload (one more than Len(m) when there is none) if options     *)
(* start at index i, and 0 when they are malformed.                        *)
OptionSize(m, i) ==
  LET ext(nibble) == CASE nibble = 13 -> 1 [] nibble = 14 -> 2 [] OTHER -> 0
      delta == HighNibble(m[i])
      len   == LowNibble(m[i])
      j     == i + 1 + ext(delta)
      value == CASE len = 13 -> m[j] + 13
                 [] len = 14 -> 256 * m[j] + m[j + 1] + 269
                 [] OTHER -> len
  IN  IF 15 \in {delta, len} \/ j + ext(len) > Len(m) + 1
      THEN Len(m) + 1
      ELSE 1 + ext(delta) + ext(len) + value

PayloadStart(m, first) ==
  LET Payload[i \in 1 .. Len(m) + 1] ==
        CASE i = Len(m) + 1 -> i
          [] i <= Len(m) /\ m[i] = Marker -> IF i < Len(m) THEN i + 1 ELSE 0
          [] OTHER -> IF i + OptionSize(m, i) <= Len(m) + 1
                      THEN Payload[i + OptionSize(m, i)] ELSE 0
  IN  IF first <= Len(m) + 1 THEN Payload[first] ELSE 0

ForUs(m) ==
  /\ Len(Token) <= 15 /\ Len(m) >= BaseHdrSize + Len(Token)
  /\ m[1] = 64 * Version + 16 + Len(Token)
  /\ SubSeq(m, BaseHdrSize + 1, BaseHdrSize + Len(Token)) = Token

(* A byte that would announce, as an option, a length of 65536 or more.    *)
WideLength(m) ==
  \E i \in DOMAIN m :
    LET j == i + 1 + TypeExtension(m[i])
    IN  /\ LowNibble(m[i]) = 14 /\ j + 1 \in DOMAIN m
        /\ 256 * m[j] + m[j + 1] + 269 \notin Uint16

(* A response with our token that is well formed is delivered, from the    *)
(* place where its payload starts, and nothing else is (a message with a   *)
(* length that wraps optlen, which ends beyond any message, set aside).    *)
DeliversPayload ==
  pc = "returned" =>
    LET start == IF ForUs(msg) THEN PayloadStart(msg, BaseHdrSize + Len(Token) + 1)
                               ELSE 0
    IN  /\ start # 0 => status = "OK" /\ dataoffset = start - 1
        /\ start = 0 /\ status = "OK" => WideLength(msg)

(* What is delivered ends where the message ends, as in the diagram of the *)
(* header: the marker is not part of the payload.                          *)
DeliveredInside == status = "OK" => dataoffset + datalen <= Len(msg)
=============================================================================
