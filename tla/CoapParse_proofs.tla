-------------------------- MODULE CoapParse_proofs --------------------------
(***************************************************************************)
(* Proof that net_coap_recv never reads past the message, for every set of *)
(* messages of at most 65535 bytes and every token.                        *)
(*                                                                         *)
(* NoOverread says nothing of the stages before the loop, and only bounds  *)
(* the two counts of the code.  InSync is stronger: until the marker is    *)
(* found, the bytes behind the cursor and *datalen always make up the      *)
(* message (the header is skipped before *datalen is decreased).           *)
(***************************************************************************)
EXTENDS CoapParse, Arithmetic, SequenceTheorems, TLAPS

InSync ==
  /\ pc \in {"called", "header"} => cursor = 0
  /\ pc = "header" => datalen = Len(msg)
  /\ pc = "token" => /\ cursor = BaseHdrSize
                     /\ datalen = Len(msg) /\ Len(msg) >= BaseHdrSize
  /\ pc \in {"type", "length", "value"} => /\ cursor >= BaseHdrSize
                                           /\ cursor + datalen = Len(msg)
  /\ pc = "returned" => cursor <= Len(msg)

IInv == TypeOK /\ InSync

-----------------------------------------------------------------------------
(* The widths of the code's integers.                                      *)
LEMMA Widths ==
  /\ \A x \in Uint16 : x \in Nat /\ x <= 65535
  /\ \A x \in Nat : x <= 65535 => x \in Uint16
  /\ \A x \in Byte : x \in Nat /\ x <= 255
<1>1. Uint16Max \in Nat
  BY DEF Uint16Max
<1>2. \A x \in Int : x \in Byte <=> 0 <= x /\ x <= 255
  BY DEF Byte
<1>3. \A x \in Int : x \in Uint16 <=> 0 <= x /\ x <= Uint16Max
  BY <1>1 DEF Uint16
<1>4. Uint16 \subseteq Int
  BY <1>1 DEF Uint16
<1>5. Byte \subseteq Int
  BY DEF Byte
<1>6. Uint16Max = 65535
  BY DEF Uint16Max
<1> QED BY <1>2, <1>3, <1>4, <1>5, <1>6

(* What the buffer holds behind the cursor is bytes, in the message or not.*)
LEMMA Bytes ==
  ASSUME TypeOK
  PROVE  /\ \A n \in Nat : ByteAfter(n) \in Byte
         /\ \A n \in Nat : ShortAfter(n) \in Uint16
<1>1. ASSUME NEW n \in Nat PROVE ByteAfter(n) \in Byte
  <2>1. \A i \in DOMAIN msg : msg[i] \in Byte
    BY DEF TypeOK
  <2> QED BY <2>1 DEF ByteAfter, Byte
<1>2. ASSUME NEW n \in Nat PROVE ShortAfter(n) \in Uint16
  <2>1. ByteAfter(n) \in Byte /\ ByteAfter(n + 1) \in Byte
    BY <1>1
  <2> QED BY <2>1, Widths DEF ShortAfter
<1> QED BY <1>1, <1>2

(* As long as no more is taken than is left, *datalen does not wrap.       *)
LEMMA Decrease ==
  ASSUME TypeOK, NEW n \in Nat, n <= datalen
  PROVE  Decreased(n) = datalen - n /\ Decreased(n) \in Uint16
<1>1. datalen \in Nat /\ datalen <= 65535
  BY Widths DEF TypeOK
<1>2. (65536 + datalen - n) % 65536 = datalen - n
  BY <1>1
<1> QED BY <1>1, <1>2, Widths DEF Decreased

(* Either exit keeps the invariant, and so does every early return.        *)
LEMMA ReturnZeroDataInv ==
  ASSUME IInv, pc # "called" \/ cursor = 0, cursor <= Len(msg),
         NEW errno \in {"ACK", "RST", "EAGAIN", "EPROTO", "EOVERFLOW", "EINVAL"},
         ReturnZeroData(errno), response_code' \in Byte
  PROVE  IInv'
<1>1. 0 \in Uint16 /\ 0 \in Nat
  BY DEF Uint16, Uint16Max
<1>2. TypeOK'
  BY <1>1 DEF IInv, TypeOK, ReturnZeroData
<1>3. InSync'
  BY DEF ReturnZeroData, InSync
<1> QED BY <1>2, <1>3 DEF IInv

LEMMA ReturnDataInv ==
  ASSUME IInv, NEW consumed \in Nat, consumed <= Len(msg), 1 < Len(msg),
         ReturnData(consumed)
  PROVE  IInv'
<1>1. response_code' \in Byte
  <2>1. 2 \in DOMAIN msg
    BY DEF IInv, TypeOK
  <2> QED BY <2>1 DEF ReturnData, IInv, TypeOK
<1>2. TypeOK'
  BY <1>1 DEF IInv, TypeOK, ReturnData
<1>3. InSync'
  BY DEF ReturnData, InSync
<1> QED BY <1>2, <1>3 DEF IInv

-----------------------------------------------------------------------------
LEMMA InitInv == Init => IInv
  BY DEF Init, IInv, TypeOK, InSync, Byte, Uint16, Uint16Max, Empty

LEMMA ReceiveInv ==
  ASSUME IInv, Receive
  PROVE  IInv'
<1>1. CASE ReceiveMessage
  <2>1. msg' \in Seq(Byte) /\ Len(msg') \in Uint16
    BY <1>1, MessagesAssumption DEF ReceiveMessage
  <2> QED BY <1>1, <2>1 DEF ReceiveMessage, IInv, TypeOK, InSync
<1>2. CASE ReceiveNothing
  <2>1. cursor = 0 /\ cursor <= Len(msg)
    BY <1>2 DEF ReceiveNothing, IInv, InSync, TypeOK
  <2> QED BY <1>2, <2>1, ReturnZeroDataInv DEF ReceiveNothing, IInv, TypeOK
<1> QED BY <1>1, <1>2 DEF Receive

LEMMA HeaderInv ==
  ASSUME IInv, Header
  PROVE  IInv'
<1>1. pc = "header" /\ cursor = 0 /\ datalen = Len(msg) /\ cursor <= Len(msg)
  BY DEF Header, HeaderTooShort, HeaderBadVersion, HeaderAckOrReset, HeaderConfirmable,
         HeaderResponse, HeaderOfVersion, IInv, InSync, TypeOK
<1>2. CASE HeaderTooShort \/ HeaderBadVersion \/ HeaderConfirmable
  BY <1>1, <1>2, ReturnZeroDataInv
     DEF HeaderTooShort, HeaderBadVersion, HeaderConfirmable, IInv, TypeOK
<1>3. CASE HeaderAckOrReset
  <2>1. response_code' \in Byte
    <3>1. 2 \in DOMAIN msg
      BY <1>1, <1>3 DEF HeaderAckOrReset, HeaderOfVersion, BaseHdrSize, IInv, TypeOK
    <3>2. msg[2] \in Byte
      BY <3>1 DEF IInv, TypeOK
    <3> QED BY <1>3, <3>2 DEF HeaderAckOrReset, MsgCode, IInv, TypeOK
  <2>2. \E errno \in {"ACK", "RST", "EAGAIN"} : ReturnZeroData(errno)
    BY <1>3 DEF HeaderAckOrReset
  <2> QED BY <1>1, <2>1, <2>2, ReturnZeroDataInv
<1>4. CASE HeaderResponse
  <2>1. TypeOK'
    BY <1>4 DEF HeaderResponse, IInv, TypeOK, BaseHdrSize
  <2>2. InSync'
    BY <1>1, <1>4 DEF HeaderResponse, HeaderOfVersion, InSync
  <2> QED BY <2>1, <2>2 DEF IInv
<1> QED BY <1>2, <1>3, <1>4 DEF Header

LEMMA TokenFieldInv ==
  ASSUME IInv, TokenField
  PROVE  IInv'
<1>1. /\ pc = "token" /\ cursor = BaseHdrSize
      /\ datalen = Len(msg) /\ Len(msg) >= BaseHdrSize
  BY DEF TokenField, TokenTooShort, TokenOfAnother, TokenOfOurs, IInv, InSync
<1>2. CASE TokenTooShort \/ TokenOfAnother
  BY <1>1, <1>2, ReturnZeroDataInv
     DEF TokenTooShort, TokenOfAnother, IInv, TypeOK, BaseHdrSize
<1>3. CASE TokenOfOurs
  <2>1. MsgTokenLen \in Nat
    <3>1. 1 \in DOMAIN msg
      BY <1>1 DEF IInv, TypeOK, BaseHdrSize
    <3>2. msg[1] \in Byte
      BY <3>1 DEF IInv, TypeOK
    <3> QED BY <3>2 DEF MsgTokenLen, LowNibble, Byte
  <2>2. BaseHdrSize + MsgTokenLen \in Nat /\ BaseHdrSize + MsgTokenLen <= datalen
    BY <1>3, <2>1 DEF TokenOfOurs, BaseHdrSize
  <2>3. /\ datalen' = datalen - (BaseHdrSize + MsgTokenLen) /\ datalen' \in Uint16
        /\ cursor' = BaseHdrSize + MsgTokenLen
    BY <1>1, <1>3, <2>2, Decrease DEF TokenOfOurs, IInv
  <2>4. TypeOK'
    BY <1>3, <2>2, <2>3 DEF TokenOfOurs, IInv, TypeOK
  <2>5. InSync'
    <3>1. Len(msg) \in Nat /\ BaseHdrSize \in Nat
      BY Widths DEF IInv, TypeOK, BaseHdrSize
    <3>2. cursor' + datalen' = Len(msg) /\ cursor' >= BaseHdrSize
      BY <1>1, <2>1, <2>3, <3>1
    <3> QED BY <1>3, <3>2 DEF TokenOfOurs, InSync
  <2> QED BY <2>4, <2>5 DEF IInv
<1> QED BY <1>2, <1>3 DEF TokenField

-----------------------------------------------------------------------------
(* The part all stages of the loop share: n bytes are taken, n is at most  *)
(* *datalen, and both counts move by n.                                    *)
LEMMA Advance ==
  ASSUME IInv, pc \in {"type", "length", "value"}, NEW n \in Nat, n <= datalen,
         pc' \in {"type", "length", "value"},
         cursor' = cursor + n, datalen' = Decreased(n),
         opttypelen' \in Byte, optlen' \in Uint16,
         UNCHANGED <<msg, status, dataoffset, response_code>>
  PROVE  IInv'
<1>1. datalen' = datalen - n /\ datalen' \in Uint16
  BY Decrease DEF IInv
<1>2. TypeOK'
  BY <1>1 DEF IInv, TypeOK
<1>3. InSync'
  <2>1. cursor \in Nat /\ datalen \in Nat /\ Len(msg) \in Nat
    BY Widths DEF IInv, TypeOK
  <2>2. cursor >= BaseHdrSize /\ cursor + datalen = Len(msg)
    BY DEF IInv, InSync
  <2>3. cursor' >= BaseHdrSize /\ cursor' + datalen' = Len(msg)
    BY <1>1, <2>1, <2>2 DEF BaseHdrSize
  <2> QED BY <2>3 DEF InSync
<1> QED BY <1>2, <1>3 DEF IInv

LEMMA OptionsInv ==
  ASSUME IInv, Options
  PROVE  IInv'
<1>1. pc \in {"type", "length", "value"}
  BY DEF Options, NoOptionLeft, MarkerOnly, MarkerFound, OptionReserved, OptionTypeTooShort,
         OptionType, OptionLengthReserved, OptionLengthTooShort, OptionLength,
         OptionValueTooShort, OptionValue
<1>2. /\ cursor \in Nat /\ datalen \in Nat /\ Len(msg) \in Nat
      /\ cursor + datalen = Len(msg)
      /\ cursor <= Len(msg)
  BY <1>1, Widths DEF IInv, InSync, TypeOK, BaseHdrSize
<1>3. ByteAfter(0) \in Byte /\ ShortAfter(0) \in Uint16 /\ opttypelen \in Byte
  BY Bytes DEF IInv, TypeOK
<1>4. CASE \/ MarkerOnly \/ OptionReserved \/ OptionTypeTooShort
           \/ OptionLengthReserved \/ OptionLengthTooShort \/ OptionValueTooShort
  <2>1. response_code' \in Byte /\ \E errno \in {"EPROTO", "EOVERFLOW"} : ReturnZeroData(errno)
    BY <1>4 DEF MarkerOnly, OptionReserved, OptionTypeTooShort, OptionLengthReserved,
                OptionLengthTooShort, OptionValueTooShort, IInv, TypeOK
  <2> QED BY <1>1, <1>2, <2>1, ReturnZeroDataInv
<1>5. CASE NoOptionLeft
  BY <1>1, <1>2, <1>5, ReturnDataInv DEF NoOptionLeft, IInv, InSync, BaseHdrSize
<1>6. CASE MarkerFound
  <2>1. cursor + 1 \in Nat /\ cursor + 1 <= Len(msg) /\ 1 < Len(msg)
    BY <1>2, <1>6 DEF MarkerFound
  <2> QED BY <1>6, <2>1, ReturnDataInv DEF MarkerFound
<1>7. CASE OptionType
  <2> DEFINE extension == TypeExtension(ByteAfter(0))
  <2>1. extension \in {0, 1, 2}
    BY DEF TypeExtension
  <2>2. 1 + extension \in Nat /\ 1 + extension <= datalen
    BY <1>2, <1>7, <2>1 DEF OptionType
  <2>3. cursor' = cursor + (1 + extension)
    BY <1>2, <1>7, <2>1 DEF OptionType
  <2> QED BY <1>1, <1>3, <1>7, <2>2, <2>3, Advance DEF OptionType, IInv, TypeOK
<1>8. CASE OptionLength
  <2>1. LengthExtension \in {0, 1, 2}
    BY DEF LengthExtension
  <2>2. LengthExtension \in Nat /\ LengthExtension <= datalen
    BY <1>2, <1>8, <2>1 DEF OptionLength
  <2>3. OptionValueLen \in Uint16
    BY <1>3, <2>1, Widths DEF OptionValueLen, LowNibble
  <2> QED BY <1>1, <1>3, <1>8, <2>2, <2>3, Advance DEF OptionLength, IInv, TypeOK
<1>9. CASE OptionValue
  <2>1. optlen \in Nat /\ optlen \in Uint16
    BY Widths DEF IInv, TypeOK
  <2> QED BY <1>1, <1>3, <1>9, <2>1, Advance DEF OptionValue, IInv, TypeOK
<1> QED BY <1>4, <1>5, <1>6, <1>7, <1>8, <1>9 DEF Options

-----------------------------------------------------------------------------
LEMMA NextInv == IInv /\ [Next]_vars => IInv'
<1> SUFFICES ASSUME IInv, [Next]_vars PROVE IInv'
  OBVIOUS
<1>1. CASE UNCHANGED vars
  BY <1>1 DEF vars, IInv, TypeOK, InSync
<1> QED BY <1>1, ReceiveInv, HeaderInv, TokenFieldInv, OptionsInv DEF Next

LEMMA Invariance == Spec => []IInv
<1> QED BY InitInv, NextInv, PTL DEF Spec

(* The cursor, *datalen and the locals keep their types, for messages of   *)
(* any bytes.                                                              *)
THEOREM TypeCorrect == Spec => []TypeOK
<1>1. IInv => TypeOK
  BY DEF IInv
<1> QED BY <1>1, Invariance, PTL

(* net_coap_recv never reads past the end of the message it was given,     *)
(* whatever lengths the message announces; *datalen, an unsigned count     *)
(* decreased by lengths taken from the message, never wraps below zero.    *)
THEOREM NeverOverreads == Spec => []NoOverread
<1>1. IInv => NoOverread
  <2> SUFFICES ASSUME IInv PROVE NoOverread
    OBVIOUS
  <2>1. cursor \in Nat /\ datalen \in Nat /\ Len(msg) \in Nat
    BY Widths DEF IInv, TypeOK
  <2> QED BY <2>1 DEF IInv, TypeOK, InSync, NoOverread, BaseHdrSize
<1> QED BY <1>1, Invariance, PTL

-----------------------------------------------------------------------------
(* The loop ends.                                                          *)
Left == Len(msg) - cursor
LeftInRange == Left \in Nat /\ Left <= 65535

LEMMA LeftRange == IInv => LeftInRange
<1> SUFFICES ASSUME IInv PROVE LeftInRange
  OBVIOUS
<1>1. /\ cursor \in Nat /\ datalen \in Nat
      /\ Len(msg) \in Nat /\ Len(msg) <= 65535
  BY Widths DEF IInv, TypeOK
<1>2. cursor <= Len(msg)
  BY <1>1 DEF IInv, TypeOK, InSync, BaseHdrSize
<1> QED BY <1>1, <1>2 DEF Left, LeftInRange

LEMMA LeftRangeNext == IInv' => LeftInRange'
BY LeftRange, PTL

(* How far a step moves the cursor.                                        *)
LEMMA Stages ==
  ASSUME IInv, Next
  PROVE  \/ pc # "returned" /\ pc' = "returned"
         \/ pc = "called" /\ pc' = "header"
         \/ pc = "header" /\ pc' = "token" /\ msg' = msg /\ cursor' >= cursor
         \/ pc = "token" /\ pc' = "type" /\ msg' = msg /\ cursor' >= cursor
         \/ pc = "type" /\ pc' = "length" /\ msg' = msg /\ cursor' > cursor
         \/ pc = "length" /\ pc' = "value" /\ msg' = msg /\ cursor' >= cursor
         \/ pc = "value" /\ pc' = "type" /\ msg' = msg /\ cursor' >= cursor
<1>1. cursor \in Nat /\ optlen \in Nat
  BY Widths DEF IInv, TypeOK
<1>2. CASE Receive
  BY <1>2 DEF Receive, ReceiveMessage, ReceiveNothing, ReturnZeroData
<1>3. CASE Header
  <2>1. CASE HeaderResponse
    <3>1. pc = "header" /\ pc' = "token" /\ msg' = msg /\ cursor' = BaseHdrSize
      BY <2>1 DEF HeaderResponse, HeaderOfVersion
    <3>2. cursor = 0
      BY <3>1 DEF IInv, InSync
    <3> QED BY <3>1, <3>2 DEF BaseHdrSize
  <2>2. CASE ~ HeaderResponse
    BY <1>3, <2>2 DEF Header, HeaderTooShort, HeaderBadVersion, HeaderAckOrReset,
                      HeaderConfirmable, HeaderOfVersion, ReturnZeroData
  <2> QED BY <2>1, <2>2
<1>4. CASE TokenField
  <2>1. CASE TokenOfOurs
    <3>1. pc = "token" /\ pc' = "type" /\ msg' = msg /\ cursor' = cursor + MsgTokenLen
      BY <2>1 DEF TokenOfOurs
    <3>2. 1 \in DOMAIN msg
      BY <3>1 DEF IInv, TypeOK, InSync, BaseHdrSize
    <3>3. msg[1] \in Byte
      BY <3>2 DEF IInv, TypeOK
    <3>4. MsgTokenLen \in Nat
      BY <3>3 DEF MsgTokenLen, LowNibble, Byte
    <3> QED BY <1>1, <3>1, <3>4
  <2>2. CASE ~ TokenOfOurs
    BY <1>4, <2>2 DEF TokenField, TokenTooShort, TokenOfAnother, ReturnZeroData
  <2> QED BY <2>1, <2>2
<1>5. CASE OptionType
  <2> DEFINE extension == TypeExtension(ByteAfter(0))
  <2>1. extension \in Nat
    BY DEF TypeExtension
  <2>2. pc = "type" /\ pc' = "length" /\ msg' = msg /\ cursor' = cursor + 1 + extension
    BY <1>5 DEF OptionType
  <2> HIDE DEF extension
  <2> QED BY <1>1, <2>1, <2>2
<1>6. CASE OptionLength
  <2>1. LengthExtension \in Nat
    BY DEF LengthExtension
  <2> QED BY <1>1, <1>6, <2>1 DEF OptionLength
<1>7. CASE OptionValue
  BY <1>1, <1>7 DEF OptionValue
<1>8. CASE Options /\ ~ OptionType /\ ~ OptionLength /\ ~ OptionValue
  BY <1>8 DEF Options, NoOptionLeft, MarkerOnly, MarkerFound, OptionReserved,
              OptionTypeTooShort, OptionLengthReserved, OptionLengthTooShort,
              OptionValueTooShort, ReturnZeroData, ReturnData
<1> QED BY <1>2, <1>3, <1>4, <1>5, <1>6, <1>7, <1>8 DEF Next

(* Every stage of net_coap_recv leaves fewer stages to go, and never less  *)
(* than none: the walk over a message ends, whatever lengths it announces. *)
THEOREM MakesProgress == Spec => Progress
<1> DEFINE Goal == StagesLeft' \in Nat /\ StagesLeft' < StagesLeft
<1>1. ASSUME IInv, IInv', Next PROVE Goal
  <2>1. /\ Left \in Nat /\ Left <= 65535
        /\ Left' \in Nat /\ Left' <= 65535
    BY <1>1, LeftRange, LeftRangeNext DEF LeftInRange
  <2>2. msg' = msg /\ cursor' >= cursor => Left' <= Left
    <3>1. cursor \in Nat /\ cursor' \in Nat /\ Len(msg) \in Nat
      BY <1>1 DEF IInv, TypeOK
    <3> QED BY <3>1 DEF Left
  <2>3. msg' = msg /\ cursor' > cursor => Left' < Left
    <3>1. cursor \in Nat /\ cursor' \in Nat /\ Len(msg) \in Nat
      BY <1>1 DEF IInv, TypeOK
    <3> QED BY <3>1 DEF Left
  <2>4. /\ pc = "called" => StagesLeft = 3 * Uint16Max + 6
        /\ pc \in {"header", "length"} => StagesLeft = 3 * Left + 5
        /\ pc \in {"token", "value"} => StagesLeft = 3 * Left + 4
        /\ pc = "type" => StagesLeft = 3 * Left + 3
    BY DEF StagesLeft, Left
  <2>5. /\ pc' \in {"header", "length"} => StagesLeft' = 3 * Left' + 5
        /\ pc' \in {"token", "value"} => StagesLeft' = 3 * Left' + 4
        /\ pc' = "type" => StagesLeft' = 3 * Left' + 3
        /\ pc' = "returned" => StagesLeft' = 0
    BY DEF StagesLeft, Left
  <2> HIDE DEF Goal
  <2>6. pc \in {"called", "returned", "header", "token", "type", "length", "value"}
    BY <1>1 DEF IInv, TypeOK
  <2>7. PICK n \in Nat, m \in Nat : n = Left /\ m = Left' /\ m <= 65535
    BY <2>1
  <2>8. StagesLeft' \in Nat /\ StagesLeft' < StagesLeft
    <3>1. CASE pc # "returned" /\ pc' = "returned"
      <4>1. StagesLeft' = 0
        BY <2>5, <3>1
      <4>2. StagesLeft \in Nat /\ StagesLeft > 0
        BY <2>1, <2>4, <2>6, <3>1 DEF Uint16Max
      <4> QED BY <4>1, <4>2
    <3>2. CASE pc = "called" /\ pc' = "header"
      <4>1. StagesLeft = 3 * Uint16Max + 6 /\ StagesLeft' = 3 * m + 5
        BY <2>4, <2>5, <2>7, <3>2
      <4>2. m <= 65535 /\ Uint16Max = 65535
        BY <2>7 DEF Uint16Max
      <4> QED BY <4>1, <4>2
    <3>3. CASE pc = "header" /\ pc' = "token" /\ msg' = msg /\ cursor' >= cursor
      <4>1. StagesLeft = 3 * n + 5 /\ StagesLeft' = 3 * m + 4 /\ m <= n
        BY <2>2, <2>4, <2>5, <2>7, <3>3
      <4> QED BY <4>1
    <3>4. CASE pc \in {"token", "value"} /\ pc' = "type" /\ msg' = msg /\ cursor' >= cursor
      <4>1. StagesLeft = 3 * n + 4 /\ StagesLeft' = 3 * m + 3 /\ m <= n
        BY <2>2, <2>4, <2>5, <2>7, <3>4
      <4> QED BY <4>1
    <3>5. CASE pc = "type" /\ pc' = "length" /\ msg' = msg /\ cursor' > cursor
      <4>1. StagesLeft = 3 * n + 3 /\ StagesLeft' = 3 * m + 5 /\ m < n
        BY <2>3, <2>4, <2>5, <2>7, <3>5
      <4> QED BY <4>1
    <3>6. CASE pc = "length" /\ pc' = "value" /\ msg' = msg /\ cursor' >= cursor
      <4>1. StagesLeft = 3 * n + 5 /\ StagesLeft' = 3 * m + 4 /\ m <= n
        BY <2>2, <2>4, <2>5, <2>7, <3>6
      <4> QED BY <4>1
    <3> QED BY <1>1, <3>1, <3>2, <3>3, <3>4, <3>5, <3>6, Stages
  <2> QED BY <2>8 DEF Goal
<1>2. IInv /\ [Next]_vars => [Goal]_vars
  <2> SUFFICES ASSUME IInv, Next PROVE Goal
    BY DEF Goal
  <2>1. IInv'
    BY NextInv
  <2> QED BY <1>1, <2>1
<1> QED BY <1>2, Invariance, PTL DEF Spec, Progress

-----------------------------------------------------------------------------
(* The nibbles of a byte.                                                  *)
LEMMA Nibbles ==
  ASSUME NEW b \in Byte
  PROVE  /\ HighNibble(b) \in 0 .. 15 /\ LowNibble(b) \in 0 .. 15
         /\ TypeExtension(b) \in {0, 1, 2}
         /\ b = Marker => HighNibble(b) = 15
<1>1. b \in Int /\ 0 <= b /\ b <= 255
  BY Widths DEF Byte
<1>2. HighNibble(b) \in 0 .. 15 /\ LowNibble(b) \in 0 .. 15
  BY <1>1 DEF HighNibble, LowNibble
<1>3. TypeExtension(b) \in {0, 1, 2}
  BY DEF TypeExtension
<1>4. b = Marker => HighNibble(b) = 15
  BY <1>1 DEF HighNibble, Marker
<1> QED BY <1>2, <1>3, <1>4

(* The bytes of the extended length, as TypeExtension those of the type.   *)
Extension(nibble) == CASE nibble = 13 -> 1 [] nibble = 14 -> 2 [] OTHER -> 0

(* Where the length of the option at i is, and the value it announces.     *)
LengthAt(m, i) == i + 1 + TypeExtension(m[i])
ValueLen(m, i) ==
  CASE LowNibble(m[i]) = 13 -> m[LengthAt(m, i)] + 13
    [] LowNibble(m[i]) = 14 -> 256 * m[LengthAt(m, i)] + m[LengthAt(m, i) + 1] + 269
    [] OTHER -> LowNibble(m[i])

(* What OptionSize comes to.                                               *)
LEMMA SizeOfOption ==
  ASSUME NEW m \in Seq(Byte), NEW i \in 1 .. Len(m)
  PROVE  LET ext == Extension(LowNibble(m[i]))
         IN  /\ ext \in {0, 1, 2} /\ LengthAt(m, i) \in Nat
             /\ OptionSize(m, i) \in Nat \ {0}
             /\ IF \/ HighNibble(m[i]) = 15 \/ LowNibble(m[i]) = 15
                   \/ LengthAt(m, i) + ext > Len(m) + 1
                THEN OptionSize(m, i) = Len(m) + 1
                ELSE /\ ValueLen(m, i) \in Nat
                     /\ OptionSize(m, i) =
                          1 + TypeExtension(m[i]) + ext + ValueLen(m, i)
<1>1. m[i] \in Byte /\ Len(m) \in Nat /\ i \in Nat
  OBVIOUS
<1> DEFINE low == LowNibble(m[i])
           ext == Extension(low)
           at == LengthAt(m, i)
<1>2. low \in 0 .. 15 /\ TypeExtension(m[i]) \in {0, 1, 2}
  BY <1>1, Nibbles
<1>3. ext \in {0, 1, 2} /\ (low = 13 => ext = 1) /\ (low = 14 => ext = 2)
  BY DEF Extension
<1>4. at \in Nat /\ at >= 1
  BY <1>1, <1>2 DEF LengthAt
<1>5. CASE HighNibble(m[i]) = 15 \/ low = 15 \/ at + ext > Len(m) + 1
  <2>1. OptionSize(m, i) = Len(m) + 1
    BY <1>5 DEF OptionSize, Extension, LengthAt, TypeExtension
  <2> QED BY <1>1, <1>3, <1>4, <1>5, <2>1
<1>6. CASE ~ (HighNibble(m[i]) = 15 \/ low = 15 \/ at + ext > Len(m) + 1)
  <2>1. low = 13 => m[at] \in Nat
    <3>1. low = 13 => at \in 1 .. Len(m)
      BY <1>1, <1>3, <1>4, <1>6
    <3> QED BY <3>1, Widths
  <2>2. low = 14 => m[at] \in Nat /\ m[at + 1] \in Nat
    <3>1. low = 14 => at \in 1 .. Len(m) /\ at + 1 \in 1 .. Len(m)
      BY <1>1, <1>3, <1>4, <1>6
    <3> QED BY <3>1, Widths, SMTT(30)
  <2>3. ValueLen(m, i) \in Nat
    <3> HIDE DEF at
    <3> QED BY <1>2, <2>1, <2>2, SMTT(30) DEF ValueLen, at
  <2>4. OptionSize(m, i) = 1 + TypeExtension(m[i]) + ext + ValueLen(m, i)
    BY <1>6 DEF OptionSize, Extension, LengthAt, TypeExtension, ValueLen
  <2>5. OptionSize(m, i) \in Nat \ {0}
    BY <1>2, <1>3, <2>3, <2>4
  <2> QED BY <1>3, <1>4, <1>6, <2>3, <2>4, <2>5
<1> QED BY <1>5, <1>6

(* The recursive function of PayloadStart is defined: every option takes a *)
(* byte at least.                                                          *)
LEMMA PayloadStep ==
  ASSUME NEW m \in Seq(Byte), NEW i \in 1 .. Len(m) + 1
  PROVE  PayloadStart(m, i) =
           CASE i = Len(m) + 1 -> i
             [] i <= Len(m) /\ m[i] = Marker -> IF i < Len(m) THEN i + 1 ELSE 0
             [] OTHER -> IF i + OptionSize(m, i) <= Len(m) + 1
                         THEN PayloadStart(m, i + OptionSize(m, i)) ELSE 0
<1> DEFINE n == Len(m) + 1
           Stop(j) == j = n \/ m[j] = Marker \/ j + OptionSize(m, j) > n
           Value(j) == CASE j = n -> j
                         [] j <= Len(m) /\ m[j] = Marker -> IF j < Len(m) THEN j + 1 ELSE 0
                         [] OTHER -> 0
           Eq(P) == [j \in 1 .. n |->
                       CASE j = n -> j
                         [] j <= Len(m) /\ m[j] = Marker -> IF j < Len(m) THEN j + 1 ELSE 0
                         [] OTHER -> IF j + OptionSize(m, j) <= n
                                     THEN P[j + OptionSize(m, j)] ELSE 0]
           Payload == CHOOSE P : P = Eq(P)
<1>1. Len(m) \in Nat /\ n \in Nat
  OBVIOUS
<1>2. \A j \in 1 .. Len(m) : OptionSize(m, j) \in Nat \ {0}
  BY SizeOfOption
<1>3. \E P : P = Eq(P)
  <2> DEFINE stops == {j \in 0 .. n : j = 0 \/ Stop(j)}
             value == [j \in stops |-> IF j = 0 THEN 0 ELSE Value(j)]
             next == [j \in (0 .. n) \ stops |-> j + OptionSize(m, j)]
  <2>1. n \in stops /\ stops \in SUBSET (0 .. n)
    BY <1>1
  <2>2. value \in [stops -> Nat]
    BY <1>1
  <2>3. \A j \in (0 .. n) \ stops : /\ j \in 1 .. Len(m) /\ m[j] # Marker
                                    /\ j + OptionSize(m, j) <= n
    <3> TAKE j \in (0 .. n) \ stops
    <3>1. j # 0 /\ j # n /\ m[j] # Marker /\ ~ (j + OptionSize(m, j) > n)
      OBVIOUS
    <3>2. j \in 1 .. Len(m)
      BY <1>1, <3>1
    <3>3. OptionSize(m, j) \in Nat
      BY <1>2, <3>2
    <3> HIDE DEF stops
    <3> QED BY <1>1, <3>1, <3>2, <3>3
  <2>4. /\ next \in [(0 .. n) \ stops -> 0 .. n]
        /\ \A j \in (0 .. n) \ stops : next[j] > j
    <3> HIDE DEF stops
    <3> QED BY <1>1, <1>2, <2>3
  <2>5. PICK f \in [0 .. n -> Nat] :
          \A j \in 0 .. n : f[j] = IF j \in stops THEN value[j] ELSE f[next[j]]
    <3>1. Downward(n, Nat, stops, value, next) # {}
      <4> HIDE DEF n, stops, value, next
      <4> QED BY <1>1, <2>1, <2>2, <2>4, RecursionDown
    <3> HIDE DEF n, stops, value, next
    <3> QED BY <3>1 DEF Downward
  <2> DEFINE P == [j \in 1 .. n |-> f[j]]
  <2>6. ASSUME NEW j \in 1 .. n
        PROVE  P[j] = CASE j = n -> j
                        [] j <= Len(m) /\ m[j] = Marker -> IF j < Len(m) THEN j + 1 ELSE 0
                        [] OTHER -> IF j + OptionSize(m, j) <= n
                                    THEN P[j + OptionSize(m, j)] ELSE 0
    <3>1. j \in 0 .. n /\ j # 0 /\ P[j] = f[j]
      BY <1>1
    <3>2. CASE Stop(j)
      <4>1. f[j] = Value(j)
        BY <2>5, <3>1, <3>2
      <4>2. j # n /\ m[j] # Marker => ~ (j + OptionSize(m, j) <= n)
        <5>1. j # n => j \in 1 .. Len(m)
          BY <1>1
        <5> QED BY <1>1, <1>2, <3>2, <5>1
      <4>3. j # n => j <= Len(m)
        BY <1>1
      <4> QED BY <3>1, <4>1, <4>2, <4>3
    <3>3. CASE ~ Stop(j)
      <4>1. j \in (0 .. n) \ stops
        BY <3>1, <3>3
      <4>2. j \in 1 .. Len(m) /\ m[j] # Marker /\ j + OptionSize(m, j) <= n
        BY <2>3, <4>1
      <4>3. f[j] = f[j + OptionSize(m, j)]
        <5>1. next[j] = j + OptionSize(m, j)
          BY <4>1
        <5> HIDE DEF stops, next
        <5> QED BY <2>5, <3>1, <4>1, <5>1
      <4>4. j + OptionSize(m, j) \in 1 .. n /\ j # n
        BY <1>1, <1>2, <4>2
      <4>5. P[j + OptionSize(m, j)] = f[j + OptionSize(m, j)]
        BY <4>4
      <4> HIDE DEF P
      <4> QED BY <3>1, <4>2, <4>3, <4>4, <4>5
    <3> QED BY <3>2, <3>3
  <2>7. P = Eq(P)
    <3>1. DOMAIN P = 1 .. n
      OBVIOUS
    <3>2. P = [j \in 1 .. n |-> P[j]]
      OBVIOUS
    <3> HIDE DEF P
    <3> QED BY <2>6, <3>2
  <2> HIDE DEF P, Eq
  <2> QED BY <2>7
<1>4. Payload = Eq(Payload)
  <2> HIDE DEF Eq
  <2> QED BY <1>3
<1>5. ASSUME NEW j \in 1 .. n PROVE PayloadStart(m, j) = Payload[j]
  BY <1>1, <1>5 DEF PayloadStart
<1> HIDE DEF Payload
<1>6. Payload[i] = CASE i = n -> i
                     [] i <= Len(m) /\ m[i] = Marker -> IF i < Len(m) THEN i + 1 ELSE 0
                     [] OTHER -> IF i + OptionSize(m, i) <= n
                                 THEN Payload[i + OptionSize(m, i)] ELSE 0
  BY <1>4
<1>7. i # n => i \in 1 .. Len(m)
  BY <1>1
<1>8. i # n /\ i + OptionSize(m, i) <= n => i + OptionSize(m, i) \in 1 .. n
  BY <1>1, <1>2, <1>7
<1>9. /\ PayloadStart(m, i) = Payload[i]
      /\ i # n /\ i + OptionSize(m, i) <= n
           => PayloadStart(m, i + OptionSize(m, i)) = Payload[i + OptionSize(m, i)]
  BY <1>5, <1>8
<1> HIDE DEF n
<1>10. CASE i = n
  BY <1>6, <1>9, <1>10 DEF n
<1>11. CASE i # n
  BY <1>6, <1>9, <1>11 DEF n
<1> QED BY <1>10, <1>11

-----------------------------------------------------------------------------
(* Where the payload of a message starts, 0 if there is nothing to deliver.*)
Delivery(m) ==
  IF ForUs(m) THEN PayloadStart(m, BaseHdrSize + Len(Token) + 1) ELSE 0

(* The message is for us, and its payload is found from the option at i on.*)
OnTheWay(i) ==
  ForUs(msg) /\ i \in 1 .. Len(msg) + 1 /\ PayloadStart(msg, i) = Delivery(msg)

(* A length that wraps sends the walk astray; nothing is to be delivered.  *)
Astray == Delivery(msg) = 0 /\ WideLength(msg)

(* The option being skipped starts at i.                                   *)
OptionAt(i) ==
  /\ OnTheWay(i) /\ i <= Len(msg)
  /\ msg[i] = opttypelen /\ HighNibble(opttypelen) # 15

(* What the call knows of the message at each stage: the header is a       *)
(* response, the cursor is in front of an option, of its length or of its  *)
(* value.                                                                  *)
Walk ==
  /\ pc = "token" => MsgVersion = Version /\ MsgType = 1
  /\ ~ Astray =>
       /\ pc = "type" => OnTheWay(cursor + 1)
       /\ pc = "length" => \E i \in DOMAIN msg :
                             OptionAt(i) /\ cursor = i + TypeExtension(opttypelen)
       /\ pc = "value" => \E i \in DOMAIN msg :
                            OptionAt(i) /\ cursor + optlen + 1 = i + OptionSize(msg, i)
       /\ pc = "returned" => DeliversPayload

(* The first byte of a message for us.                                     *)
LEMMA HeaderForUs ==
  ASSUME TypeOK, Len(msg) >= BaseHdrSize
  PROVE  /\ msg[1] \in Byte /\ MsgTokenLen \in 0 .. 15
         /\ ForUs(msg) => MsgVersion = Version /\ MsgType = 1 /\ MsgTokenLen = Len(Token)
         /\ MsgVersion = Version /\ MsgType = 1 => msg[1] = 64 * Version + 16 + MsgTokenLen
<1>1. msg[1] \in Byte
  <2>1. 1 \in DOMAIN msg
    BY DEF TypeOK, BaseHdrSize
  <2> QED BY <2>1 DEF TypeOK
<1>2. msg[1] \in Int /\ 0 <= msg[1] /\ msg[1] <= 255
  BY <1>1, Widths
<1>3. Len(Token) \in Nat
  BY TokenAssumption
<1>4. MsgTokenLen \in 0 .. 15
  BY <1>1, Nibbles DEF MsgTokenLen
<1>5. ForUs(msg) => MsgVersion = Version /\ MsgType = 1 /\ MsgTokenLen = Len(Token)
  <2> SUFFICES ASSUME ForUs(msg)
               PROVE  MsgVersion = Version /\ MsgType = 1 /\ MsgTokenLen = Len(Token)
    OBVIOUS
  <2>1. msg[1] = 80 + Len(Token) /\ Len(Token) <= 15
    BY DEF ForUs, Version
  <2> QED BY <1>3, <2>1 DEF MsgVersion, MsgType, MsgTokenLen, LowNibble, Version
<1>6. MsgVersion = Version /\ MsgType = 1 => msg[1] = 64 * Version + 16 + MsgTokenLen
  BY <1>2 DEF MsgVersion, MsgType, MsgTokenLen, LowNibble, Version
<1> QED BY <1>1, <1>4, <1>5, <1>6

(* The token that follows the header is ours.                              *)
LEMMA TokenForUs ==
  ASSUME TypeOK, cursor = BaseHdrSize, Len(msg) >= BaseHdrSize,
         Len(msg) >= BaseHdrSize + MsgTokenLen, MsgVersion = Version, MsgType = 1
  PROVE  SameToken <=> ForUs(msg)
<1>1. /\ Len(msg) \in Nat /\ Len(Token) \in Nat /\ msg \in Seq(Byte) /\ Token \in Seq(Byte)
      /\ BaseHdrSize \in Nat
  BY TokenAssumption DEF TypeOK, BaseHdrSize
<1>2. MsgTokenLen \in 0 .. 15 /\ msg[1] = 64 * Version + 16 + MsgTokenLen
  BY HeaderForUs
<1> DEFINE first == BaseHdrSize + 1
           last == BaseHdrSize + Len(Token)
           field == SubSeq(msg, first, last)
<1>3. SUFFICES ASSUME MsgTokenLen = Len(Token)
               PROVE  SameToken <=> ForUs(msg)
  <2>1. MsgTokenLen # Len(Token) => ~ SameToken
    BY DEF SameToken
  <2>2. MsgTokenLen # Len(Token) => ~ ForUs(msg)
    BY HeaderForUs
  <2> QED BY <2>1, <2>2
<1>4. /\ field \in Seq(Byte) /\ Len(field) = Len(Token)
      /\ \A j \in 1 .. Len(Token) : field[j] = msg[BaseHdrSize + j]
  <2>1. first \in 1 .. Len(msg) + 1 /\ last \in first - 1 .. Len(msg)
    BY <1>1, <1>3 DEF BaseHdrSize
  <2>2. /\ field \in Seq(Byte) /\ Len(field) = last - first + 1
        /\ \A j \in 1 .. last - first + 1 : field[j] = msg[first + j - 1]
    <3> HIDE DEF first, last
    <3> QED BY <1>1, <2>1, SubSeqProperties
  <2>3. last - first + 1 = Len(Token) /\ \A j \in Nat : first + j - 1 = BaseHdrSize + j
    BY <1>1
  <2> HIDE DEF first, last, field
  <2> QED BY <1>1, <2>2, <2>3
<1>5. \A j \in 1 .. Len(Token) : ByteAfter(j - 1) = field[j]
  <2> TAKE j \in 1 .. Len(Token)
  <2>1. cursor + (j - 1) + 1 = BaseHdrSize + j
    BY <1>1
  <2>2. BaseHdrSize + j \in DOMAIN msg
    BY <1>1, <1>3
  <2> HIDE DEF field
  <2> QED BY <1>4, <2>1, <2>2 DEF ByteAfter
<1>6. SameToken <=> \A j \in 1 .. Len(Token) : field[j] = Token[j]
  <2> HIDE DEF field
  <2> QED BY <1>3, <1>5 DEF SameToken
<1>7. field = Token <=> \A j \in 1 .. Len(Token) : field[j] = Token[j]
  <2> HIDE DEF field
  <2> QED BY <1>1, <1>4, SeqEqual
<1>8. ForUs(msg) <=> field = Token
  <2>1. /\ Len(Token) <= 15 /\ Len(msg) >= BaseHdrSize + Len(Token)
        /\ msg[1] = 64 * Version + 16 + Len(Token)
    <3> HIDE DEF first, last, field
    <3>1. Len(Token) <= 15
      <4>1. MsgTokenLen \in Nat /\ MsgTokenLen <= 15
        BY <1>2
      <4> QED BY <4>1, <1>3
    <3>2. Len(msg) >= BaseHdrSize + Len(Token)
      BY <1>3
    <3>3. msg[1] = 64 * Version + 16 + Len(Token)
      BY <1>2, <1>3
    <3> QED BY <3>1, <3>2, <3>3
  <2> QED BY <2>1 DEF ForUs
<1> QED BY <1>6, <1>7, <1>8

-----------------------------------------------------------------------------
(* An early return is right when there is nothing to deliver.              *)
LEMMA ReturnZeroDataWalk ==
  ASSUME ReturnZeroData("EAGAIN") \/ ReturnZeroData("EPROTO") \/ ReturnZeroData("EOVERFLOW")
           \/ ReturnZeroData("EINVAL") \/ ReturnZeroData("ACK") \/ ReturnZeroData("RST"),
         Delivery(msg) = 0
  PROVE  Walk'
<1>1. pc' = "returned" /\ msg' = msg /\ status' # "OK"
  BY DEF ReturnZeroData
<1>2. Delivery(msg') = 0
  BY <1>1
<1>3. DeliversPayload'
  BY <1>1, <1>2 DEF DeliversPayload, Delivery
<1> QED BY <1>1, <1>3 DEF Walk

LEMMA ReceiveWalk ==
  ASSUME IInv, pc = "called" => msg = <<>>, Receive
  PROVE  Walk'
<1>1. CASE ReceiveMessage
  BY <1>1 DEF ReceiveMessage, Walk
<1>2. CASE ReceiveNothing
  <2>1. ~ ForUs(msg)
    <3>1. Len(msg) = 0 /\ Len(Token) \in Nat
      BY <1>2, TokenAssumption DEF ReceiveNothing
    <3> QED BY <3>1 DEF ForUs, BaseHdrSize
  <2> QED BY <1>2, <2>1, ReturnZeroDataWalk DEF ReceiveNothing, Delivery
<1> QED BY <1>1, <1>2 DEF Receive

LEMMA HeaderWalk ==
  ASSUME IInv, Header
  PROVE  Walk'
<1>1. pc = "header" /\ cursor = 0 /\ datalen = Len(msg) /\ Len(msg) \in Nat
  BY DEF Header, HeaderTooShort, HeaderBadVersion, HeaderAckOrReset, HeaderConfirmable,
         HeaderResponse, HeaderOfVersion, IInv, InSync, TypeOK
<1>2. CASE HeaderTooShort
  <2>1. ~ ForUs(msg)
    BY <1>1, <1>2, TokenAssumption DEF HeaderTooShort, ForUs, BaseHdrSize
  <2> QED BY <1>2, <2>1, ReturnZeroDataWalk DEF HeaderTooShort, Delivery
<1>3. CASE HeaderBadVersion \/ HeaderAckOrReset \/ HeaderConfirmable
  <2>1. ~ (MsgVersion = Version /\ MsgType = 1) /\ Len(msg) >= BaseHdrSize
    BY <1>1, <1>3 DEF HeaderBadVersion, HeaderAckOrReset, HeaderConfirmable, HeaderOfVersion
  <2>2. ~ ForUs(msg)
    BY <2>1, HeaderForUs DEF IInv
  <2>3. ReturnZeroData("EAGAIN") \/ ReturnZeroData("EPROTO") \/ ReturnZeroData("EINVAL")
          \/ ReturnZeroData("ACK") \/ ReturnZeroData("RST")
    BY <1>3 DEF HeaderBadVersion, HeaderAckOrReset, HeaderConfirmable
  <2> QED BY <2>2, <2>3, ReturnZeroDataWalk DEF Delivery
<1>4. CASE HeaderResponse
  <2>1. pc' = "token" /\ msg' = msg /\ MsgVersion = Version /\ MsgType = 1
    BY <1>4 DEF HeaderResponse, HeaderOfVersion
  <2>2. MsgVersion' = Version /\ MsgType' = 1
    BY <2>1 DEF MsgVersion, MsgType
  <2> QED BY <2>1, <2>2 DEF Walk
<1> QED BY <1>2, <1>3, <1>4 DEF Header

LEMMA TokenFieldWalk ==
  ASSUME IInv, Walk, TokenField
  PROVE  Walk'
<1>1. /\ pc = "token" /\ cursor = BaseHdrSize
      /\ datalen = Len(msg) /\ Len(msg) >= BaseHdrSize
  BY DEF TokenField, TokenTooShort, TokenOfAnother, TokenOfOurs, IInv, InSync
<1>2. MsgVersion = Version /\ MsgType = 1 /\ TypeOK
  BY <1>1 DEF Walk, IInv
<1>3. /\ Len(msg) \in Nat /\ MsgTokenLen \in 0 .. 15
      /\ ForUs(msg) => MsgTokenLen = Len(Token)
  BY <1>1, <1>2, HeaderForUs DEF TypeOK
<1>4. CASE TokenTooShort
  <2>1. ~ ForUs(msg)
    BY <1>1, <1>3, <1>4 DEF TokenTooShort, ForUs, BaseHdrSize
  <2> QED BY <1>4, <2>1, ReturnZeroDataWalk DEF TokenTooShort, Delivery
<1>5. CASE TokenOfAnother
  <2>1. ~ ForUs(msg)
    BY <1>1, <1>2, <1>5, TokenForUs DEF TokenOfAnother
  <2> QED BY <1>5, <2>1, ReturnZeroDataWalk DEF TokenOfAnother, Delivery
<1>6. CASE TokenOfOurs
  <2>1. ForUs(msg) /\ MsgTokenLen = Len(Token) /\ Len(msg) >= BaseHdrSize + MsgTokenLen
    BY <1>1, <1>2, <1>6, TokenForUs DEF TokenOfOurs, SameToken
  <2>2. pc' = "type" /\ msg' = msg /\ cursor' + 1 = BaseHdrSize + Len(Token) + 1
    BY <1>1, <1>6, <2>1 DEF TokenOfOurs
  <2>3. cursor' + 1 \in 1 .. Len(msg) + 1
    BY <1>3, <2>1, <2>2 DEF BaseHdrSize
  <2>4. PayloadStart(msg, cursor' + 1) = Delivery(msg)
    BY <2>1, <2>2 DEF Delivery
  <2>5. OnTheWay(cursor + 1)'
    BY <2>1, <2>2, <2>3, <2>4 DEF OnTheWay
  <2> QED BY <2>2, <2>5 DEF Walk
<1> QED BY <1>4, <1>5, <1>6 DEF TokenField

(* The type of an option: the payload is found from here, or there is an   *)
(* end to the walk.                                                        *)
LEMMA TypeWalk ==
  ASSUME IInv, Walk, pc = "type",
         \/ NoOptionLeft \/ MarkerOnly \/ MarkerFound
         \/ OptionReserved \/ OptionTypeTooShort \/ OptionType
  PROVE  Walk'
<1>0. PICK i : i = cursor + 1
  OBVIOUS
<1>1. /\ cursor \in Nat /\ datalen \in Nat /\ Len(msg) \in Nat /\ msg \in Seq(Byte)
      /\ cursor + datalen = Len(msg)
  BY Widths DEF IInv, InSync, TypeOK
<1>2. SUFFICES ASSUME ~ Astray
               PROVE  Walk'
  <2>1. pc' # "token" /\ msg' = msg
    BY DEF NoOptionLeft, MarkerOnly, MarkerFound, OptionReserved, OptionTypeTooShort,
           OptionType, ReturnData, ReturnZeroData
  <2>2. CASE Astray
    BY <2>1, <2>2 DEF Walk, Astray, Delivery, DeliversPayload
  <2> QED BY <1>2, <2>2
<1>3. /\ ForUs(msg) /\ i \in 1 .. Len(msg) + 1
      /\ PayloadStart(msg, i) = Delivery(msg)
  BY <1>0, <1>2 DEF Walk, OnTheWay
<1>4. datalen > 0 => i \in 1 .. Len(msg) /\ ByteAfter(0) = msg[i] /\ msg[i] \in Byte
  BY <1>0, <1>1 DEF ByteAfter
<1>5. PayloadStart(msg, i) =
        CASE i = Len(msg) + 1 -> i
          [] i <= Len(msg) /\ msg[i] = Marker -> IF i < Len(msg) THEN i + 1 ELSE 0
          [] OTHER -> IF i + OptionSize(msg, i) <= Len(msg) + 1
                      THEN PayloadStart(msg, i + OptionSize(msg, i)) ELSE 0
  BY <1>0, <1>1, <1>3, PayloadStep
<1>6. CASE NoOptionLeft
  <2>1. i = Len(msg) + 1 /\ Delivery(msg) = i
    BY <1>0, <1>1, <1>3, <1>5, <1>6 DEF NoOptionLeft
  <2>2. dataoffset' = cursor /\ msg' = msg /\ pc' = "returned" /\ status' = "OK"
    BY <1>6 DEF NoOptionLeft, ReturnData
  <2>3. DeliversPayload'
    BY <1>0, <1>1, <2>1, <2>2 DEF DeliversPayload, Delivery
  <2> QED BY <2>2, <2>3 DEF Walk
<1>7. CASE MarkerFound
  <2>1. i < Len(msg) /\ Delivery(msg) = i + 1
    BY <1>0, <1>1, <1>3, <1>4, <1>5, <1>7 DEF MarkerFound
  <2>2. dataoffset' = cursor + 1 /\ msg' = msg /\ pc' = "returned" /\ status' = "OK"
    BY <1>7 DEF MarkerFound, ReturnData
  <2>3. DeliversPayload'
    BY <1>0, <1>1, <2>1, <2>2 DEF DeliversPayload, Delivery
  <2> QED BY <2>2, <2>3 DEF Walk
<1>8. CASE MarkerOnly
  <2>1. Delivery(msg) = 0
    BY <1>0, <1>1, <1>3, <1>4, <1>5, <1>8 DEF MarkerOnly
  <2> QED BY <1>8, <2>1, ReturnZeroDataWalk DEF MarkerOnly
<1>9. CASE OptionReserved \/ OptionTypeTooShort
  <2>1. datalen > 0 /\ msg[i] # Marker
    <3>1. CASE OptionReserved
      BY <1>0, <1>4, <3>1 DEF OptionReserved
    <3>2. CASE OptionTypeTooShort
      <4>1. datalen > 0 /\ TypeExtension(msg[i]) > 0
        BY <1>0, <1>4, <3>2 DEF OptionTypeTooShort
      <4>2. msg[i] = Marker => TypeExtension(msg[i]) = 0
        BY DEF TypeExtension, HighNibble, Marker
      <4> QED BY <4>1, <4>2
    <3> QED BY <1>9, <3>1, <3>2
  <2>2. OptionSize(msg, i) = Len(msg) + 1
    <3>1. /\ TypeExtension(msg[i]) \in {0, 1, 2}
          /\ HighNibble(msg[i]) = 15 \/ LengthAt(msg, i) > Len(msg) + 1
      <4>1. CASE OptionReserved
        BY <1>0, <1>4, <2>1, <4>1, Nibbles DEF OptionReserved
      <4>2. CASE OptionTypeTooShort
        <5>1. TypeExtension(msg[i]) \in {0, 1, 2} /\ datalen <= TypeExtension(msg[i])
          BY <1>0, <1>4, <2>1, <4>2, Nibbles DEF OptionTypeTooShort
        <5> QED BY <1>0, <1>1, <5>1 DEF LengthAt
      <4> QED BY <1>9, <4>1, <4>2
    <3>2. i \in 1 .. Len(msg)
      BY <1>0, <1>4, <2>1
    <3>3. /\ Extension(LowNibble(msg[i])) \in {0, 1, 2} /\ LengthAt(msg, i) \in Nat
          /\ \/ HighNibble(msg[i]) = 15 \/ LowNibble(msg[i]) = 15
             \/ LengthAt(msg, i) + Extension(LowNibble(msg[i])) > Len(msg) + 1
             => OptionSize(msg, i) = Len(msg) + 1
      <4> QED BY <1>0, <1>1, <3>2, SizeOfOption
    <3> QED BY <1>0, <1>1, <3>1, <3>3
  <2>3. Delivery(msg) = 0
    BY <1>0, <1>1, <1>3, <1>4, <1>5, <2>1, <2>2
  <2> QED BY <1>9, <2>3, ReturnZeroDataWalk DEF OptionReserved, OptionTypeTooShort
<1>10. CASE OptionType
  <2>1. /\ pc' = "length" /\ msg' = msg /\ opttypelen' = msg[i] /\ i \in 1 .. Len(msg)
        /\ HighNibble(msg[i]) # 15
        /\ cursor' = cursor + 1 + TypeExtension(msg[i])
    BY <1>0, <1>1, <1>4, <1>10 DEF OptionType
  <2>2. OptionAt(i)'
    BY <1>0, <1>1, <1>3, <2>1 DEF OptionAt, OnTheWay, Delivery
  <2> QED BY <1>0, <1>1, <2>1, <2>2 DEF Walk
<1> QED BY <1>6, <1>7, <1>8, <1>9, <1>10

(* The length of an option, found where OptionSize looks for it.           *)
LEMMA LengthWalk ==
  ASSUME IInv, Walk, pc = "length",
         OptionLengthReserved \/ OptionLengthTooShort \/ OptionLength
  PROVE  Walk'
<1>1. /\ cursor \in Nat /\ datalen \in Nat /\ Len(msg) \in Nat /\ msg \in Seq(Byte)
      /\ cursor + datalen = Len(msg) /\ opttypelen \in Byte
  BY Widths DEF IInv, InSync, TypeOK
<1>2. SUFFICES ASSUME ~ Astray
               PROVE  Walk'
  <2>1. pc' # "token" /\ msg' = msg
    BY DEF OptionLengthReserved, OptionLengthTooShort, OptionLength, ReturnZeroData
  <2>2. CASE Astray
    BY <2>1, <2>2 DEF Walk, Astray, Delivery, DeliversPayload
  <2> QED BY <1>2, <2>2
<1>3. PICK i \in DOMAIN msg : OptionAt(i) /\ cursor = i + TypeExtension(opttypelen)
  BY <1>2 DEF Walk
<1> DEFINE ext == Extension(LowNibble(opttypelen))
           at == LengthAt(msg, i)
<1>4. /\ i \in 1 .. Len(msg) /\ msg[i] = opttypelen /\ HighNibble(opttypelen) # 15
      /\ opttypelen # Marker /\ LowNibble(opttypelen) \in 0 .. 15
      /\ TypeExtension(opttypelen) \in {0, 1, 2} /\ at = cursor + 1
  BY <1>1, <1>3, Nibbles, SMTT(30) DEF OptionAt, LengthAt
<1>5. ForUs(msg) /\ i \in 1 .. Len(msg) + 1 /\ PayloadStart(msg, i) = Delivery(msg)
  BY <1>3 DEF OptionAt, OnTheWay
<1>6. LengthExtension = ext /\ ext \in {0, 1, 2}
  BY DEF LengthExtension, Extension
<1>7. /\ IF LowNibble(opttypelen) = 15 \/ at + ext > Len(msg) + 1
         THEN OptionSize(msg, i) = Len(msg) + 1
         ELSE /\ ValueLen(msg, i) \in Nat
              /\ OptionSize(msg, i) =
                   1 + TypeExtension(opttypelen) + ext + ValueLen(msg, i)
  <2> HIDE DEF at
  <2> QED BY <1>1, <1>4, SizeOfOption DEF at
<1>8. Delivery(msg) = IF i + OptionSize(msg, i) <= Len(msg) + 1
                      THEN PayloadStart(msg, i + OptionSize(msg, i)) ELSE 0
  BY <1>1, <1>4, <1>5, PayloadStep
<1>9. CASE OptionLengthReserved
  <2>1. Delivery(msg) = 0
    BY <1>1, <1>4, <1>7, <1>8, <1>9 DEF OptionLengthReserved
  <2> QED BY <1>9, <2>1, ReturnZeroDataWalk DEF OptionLengthReserved
<1>10. CASE OptionLengthTooShort
  <2>1. ext > 0 /\ at + ext >= Len(msg) + 1
    BY <1>1, <1>4, <1>6, <1>10 DEF OptionLengthTooShort
  <2>2. i + OptionSize(msg, i) > Len(msg) + 1
    <3>1. CASE LowNibble(opttypelen) = 15 \/ at + ext > Len(msg) + 1
      BY <1>1, <1>4, <1>7, <3>1
    <3>2. CASE LowNibble(opttypelen) # 15 /\ at + ext = Len(msg) + 1
      <4>1. at \in 1 .. Len(msg) /\ (ext = 2 => at + 1 \in 1 .. Len(msg))
        BY <1>1, <1>4, <1>6, <2>1, <3>2
      <4>2. msg[at] \in Nat /\ (ext = 2 => msg[at + 1] \in Nat)
        <5> HIDE DEF at, ext
        <5> QED BY <1>1, <4>1, Widths
      <4>3. LowNibble(opttypelen) \in {13, 14} /\ (LowNibble(opttypelen) = 14 => ext = 2)
        BY <2>1 DEF Extension
      <4>4. ValueLen(msg, i) > 0
        <5> HIDE DEF at, ext
        <5> QED BY <1>4, <4>2, <4>3, SMTT(30) DEF ValueLen, at
      <4>5. /\ ValueLen(msg, i) \in Nat
            /\ OptionSize(msg, i) = 1 + TypeExtension(opttypelen) + ext + ValueLen(msg, i)
        <5>1. ~ (LowNibble(opttypelen) = 15 \/ at + ext > Len(msg) + 1)
          BY <1>1, <1>4, <1>6, <3>2
        <5> QED BY <1>7, <5>1
      <4>6. i + OptionSize(msg, i) = at + ext + ValueLen(msg, i)
        <5>1. i \in Nat /\ at = cursor + 1 /\ cursor = i + TypeExtension(opttypelen)
          BY <1>3, <1>4
        <5>2. TypeExtension(opttypelen) \in Nat /\ ext \in Nat
          BY <1>4, <1>6
        <5> HIDE DEF at, ext
        <5> QED BY <4>5, <5>1, <5>2
      <4> HIDE DEF at, ext
      <4> QED BY <1>1, <3>2, <4>4, <4>5, <4>6
    <3> QED BY <1>1, <1>4, <1>6, <2>1, <3>1, <3>2
  <2>3. Delivery(msg) = 0
    <3>1. i + OptionSize(msg, i) \in Int
      BY <1>1, <1>4, <1>6, <1>7, SMTT(30)
    <3> QED BY <1>1, <1>8, <2>2, <3>1
  <2> QED BY <1>10, <2>3, ReturnZeroDataWalk DEF OptionLengthTooShort
<1>11. CASE OptionLength
  <2>1. /\ LowNibble(opttypelen) # 15 /\ (ext = 0 \/ datalen > ext)
        /\ pc' = "value" /\ msg' = msg /\ opttypelen' = opttypelen
        /\ cursor' = cursor + ext /\ optlen' = OptionValueLen
    BY <1>6, <1>11 DEF OptionLength
  <2>2. at + ext <= Len(msg) + 1 /\ (ext > 0 => at + ext <= Len(msg))
    BY <1>1, <1>4, <1>6, <2>1
  <2>3. /\ ValueLen(msg, i) \in Nat
        /\ OptionSize(msg, i) = 1 + TypeExtension(opttypelen) + ext + ValueLen(msg, i)
    <3>1. ~ (LowNibble(opttypelen) = 15 \/ at + ext > Len(msg) + 1)
      BY <1>1, <1>4, <1>6, <2>1, <2>2
    <3> QED BY <1>7, <3>1
  <2>4. /\ ext > 0 => at \in 1 .. Len(msg) /\ ByteAfter(0) = msg[at]
        /\ ext = 2 => at + 1 \in 1 .. Len(msg) /\ ByteAfter(1) = msg[at + 1]
    BY <1>1, <1>4, <1>6, <2>2 DEF ByteAfter
  <2>5. OptionValueLen = ValueLen(msg, i)
    <3>1. CASE LowNibble(opttypelen) = 13
      <4>1. ext = 1
        BY <3>1 DEF Extension
      <4> HIDE DEF at, ext
      <4> QED BY <1>4, <1>6, <2>4, <3>1, <4>1 DEF OptionValueLen, ValueLen, at
    <3>2. CASE LowNibble(opttypelen) = 14
      <4>1. ext = 2
        BY <3>2 DEF Extension
      <4>2. ShortAfter(0) + 269 = ValueLen(msg, i)
        <5>1. ByteAfter(0 + 1) = ByteAfter(1)
          OBVIOUS
        <5> HIDE DEF at, ext
        <5> QED BY <1>4, <2>4, <3>2, <4>1, <5>1 DEF ShortAfter, ValueLen, at
      <4>3. ValueLen(msg, i) = 256 * msg[at] + msg[at + 1] + 269
        <5> HIDE DEF at
        <5> QED BY <1>4, <3>2 DEF ValueLen, at
      <4>4. ValueLen(msg, i) \in Uint16
        <5>1. SUFFICES ASSUME ValueLen(msg, i) \notin Uint16 PROVE FALSE
          OBVIOUS
        <5>2. at = i + 1 + TypeExtension(msg[i])
          BY DEF LengthAt
        <5>3. i \in DOMAIN msg /\ LowNibble(msg[i]) = 14 /\ at + 1 \in DOMAIN msg
          BY <1>1, <1>4, <2>4, <3>2, <4>1
        <5>4. WideLength(msg)
          <6> HIDE DEF at
          <6> QED BY <4>3, <5>1, <5>2, <5>3 DEF WideLength
        <5>5. ValueLen(msg, i) > Len(msg)
          <6>1. Len(msg) <= 65535
            BY Widths DEF IInv, TypeOK
          <6> QED BY <1>1, <2>3, <5>1, <6>1, Widths
        <5>6. Delivery(msg) = 0
          <6>1. i \in Nat /\ i >= 1 /\ TypeExtension(opttypelen) \in Nat /\ ext \in Nat
            BY <1>1, <1>4, <1>6
          <6>2. i + OptionSize(msg, i) > Len(msg) + 1 /\ i + OptionSize(msg, i) \in Nat
            <7> HIDE DEF ext
            <7> QED BY <1>1, <2>3, <5>5, <6>1
          <6> QED BY <1>1, <1>8, <6>2
        <5> QED BY <1>2, <5>4, <5>6 DEF Astray
      <4>5. (ShortAfter(0) + 269) % 65536 = ValueLen(msg, i)
        BY <4>2, <4>4, Widths
      <4>6. LengthExtension = 2
        BY <1>6, <4>1
      <4> QED BY <4>5, <4>6 DEF OptionValueLen
    <3>3. CASE LowNibble(opttypelen) \notin {13, 14}
      <4>1. LengthExtension = 0
        BY <3>3 DEF LengthExtension
      <4> QED BY <1>4, <3>3, <4>1 DEF OptionValueLen, ValueLen
    <3> QED BY <3>1, <3>2, <3>3
  <2>6. cursor' + optlen' + 1 = i + OptionSize(msg, i)
    <3>1. i \in Nat /\ cursor = i + TypeExtension(opttypelen) /\ ext \in Nat
      BY <1>3, <1>4, <1>6
    <3>2. TypeExtension(opttypelen) \in Nat
      BY <1>4
    <3>3. cursor' = i + TypeExtension(opttypelen) + ext /\ optlen' = ValueLen(msg, i)
      BY <2>1, <2>5, <3>1
    <3> HIDE DEF ext
    <3> QED BY <2>3, <3>1, <3>2, <3>3
  <2>7. OptionAt(i)'
    BY <1>3, <2>1 DEF OptionAt, OnTheWay, Delivery
  <2> QED BY <1>3, <2>1, <2>6, <2>7 DEF Walk
<1> QED BY <1>9, <1>10, <1>11

(* The value of an option is inside the message, and the next option       *)
(* starts behind it, or there is nothing to deliver.                       *)
LEMMA ValueWalk ==
  ASSUME IInv, Walk, pc = "value", OptionValueTooShort \/ OptionValue
  PROVE  Walk'
<1>1. /\ cursor \in Nat /\ datalen \in Nat /\ Len(msg) \in Nat /\ msg \in Seq(Byte)
      /\ cursor + datalen = Len(msg) /\ opttypelen \in Byte /\ optlen \in Nat
  BY Widths DEF IInv, InSync, TypeOK
<1>2. SUFFICES ASSUME ~ Astray
               PROVE  Walk'
  <2>1. pc' # "token" /\ msg' = msg
    BY DEF OptionValueTooShort, OptionValue, ReturnZeroData
  <2>2. CASE Astray
    BY <2>1, <2>2 DEF Walk, Astray, Delivery, DeliversPayload
  <2> QED BY <1>2, <2>2
<1>3. PICK i \in DOMAIN msg :
        OptionAt(i) /\ cursor + optlen + 1 = i + OptionSize(msg, i)
  BY <1>2 DEF Walk
<1>4. /\ i \in 1 .. Len(msg) /\ msg[i] # Marker
      /\ ForUs(msg) /\ i \in 1 .. Len(msg) + 1 /\ PayloadStart(msg, i) = Delivery(msg)
  BY <1>1, <1>3, Nibbles DEF OptionAt, OnTheWay
<1>5. Delivery(msg) = IF cursor + optlen + 1 <= Len(msg) + 1
                      THEN PayloadStart(msg, cursor + optlen + 1) ELSE 0
  <2>1. i # Len(msg) + 1
    BY <1>1, <1>4
  <2>2. PayloadStart(msg, i) = IF i + OptionSize(msg, i) <= Len(msg) + 1
                               THEN PayloadStart(msg, i + OptionSize(msg, i)) ELSE 0
    BY <1>1, <1>4, <2>1, PayloadStep
  <2> QED BY <1>3, <1>4, <2>2
<1>6. CASE OptionValueTooShort
  <2>1. Delivery(msg) = 0
    BY <1>1, <1>5, <1>6 DEF OptionValueTooShort
  <2> QED BY <1>6, <2>1, ReturnZeroDataWalk DEF OptionValueTooShort
<1>7. CASE OptionValue
  <2>1. pc' = "type" /\ msg' = msg /\ cursor' = cursor + optlen /\ optlen <= datalen
    BY <1>1, <1>7 DEF OptionValue
  <2>2. OnTheWay(cursor + 1)'
    <3>1. cursor' + 1 \in 1 .. Len(msg) + 1 /\ PayloadStart(msg, cursor' + 1) = Delivery(msg)
      BY <1>1, <1>5, <2>1
    <3> QED BY <1>4, <2>1, <3>1 DEF OnTheWay, Delivery
  <2> QED BY <2>1, <2>2 DEF Walk
<1> QED BY <1>6, <1>7

-----------------------------------------------------------------------------
(* Before a message is there, there is none.                               *)
Blank == pc = "called" => msg = <<>>

WInv == IInv /\ Walk /\ Blank

LEMMA WalkInit == Init => WInv
  BY InitInv DEF Init, WInv, Walk, Blank

LEMMA WalkNext == WInv /\ [Next]_vars => WInv'
<1> SUFFICES ASSUME WInv, [Next]_vars PROVE WInv'
  OBVIOUS
<1>1. IInv'
  BY NextInv DEF WInv
<1>2. CASE UNCHANGED vars
  <2>1. Walk'
    BY <1>2 DEF WInv, Walk, vars, Astray, OnTheWay, OptionAt, Delivery, MsgVersion, MsgType,
                DeliversPayload
  <2>2. Blank'
    BY <1>2 DEF WInv, Blank, vars
  <2> QED BY <1>1, <2>1, <2>2 DEF WInv
<1>3. CASE Next
  <2>1. Blank'
    BY <1>3 DEF Next, Receive, Header, TokenField, Options, ReceiveMessage, ReceiveNothing,
                HeaderTooShort, HeaderBadVersion, HeaderAckOrReset, HeaderConfirmable,
                HeaderResponse, TokenTooShort, TokenOfAnother, TokenOfOurs, NoOptionLeft,
                MarkerOnly, MarkerFound, OptionReserved, OptionTypeTooShort, OptionType,
                OptionLengthReserved, OptionLengthTooShort, OptionLength,
                OptionValueTooShort, OptionValue, ReturnData, ReturnZeroData, Blank
  <2>2. Walk'
    <3>1. CASE Receive
      BY <3>1, ReceiveWalk DEF WInv, Blank
    <3>2. CASE Header
      BY <3>2, HeaderWalk DEF WInv
    <3>3. CASE TokenField
      BY <3>3, TokenFieldWalk DEF WInv
    <3>4. CASE Options
      <4>1. CASE \/ NoOptionLeft \/ MarkerOnly \/ MarkerFound
                 \/ OptionReserved \/ OptionTypeTooShort \/ OptionType
        <5>1. pc = "type"
          BY <4>1 DEF NoOptionLeft, MarkerOnly, MarkerFound, OptionReserved,
                      OptionTypeTooShort, OptionType
        <5> QED BY <4>1, <5>1, TypeWalk DEF WInv
      <4>2. CASE OptionLengthReserved \/ OptionLengthTooShort \/ OptionLength
        <5>1. pc = "length"
          BY <4>2 DEF OptionLengthReserved, OptionLengthTooShort, OptionLength
        <5> QED BY <4>2, <5>1, LengthWalk DEF WInv
      <4>3. CASE OptionValueTooShort \/ OptionValue
        <5>1. pc = "value"
          BY <4>3 DEF OptionValueTooShort, OptionValue
        <5> QED BY <4>3, <5>1, ValueWalk DEF WInv
      <4> QED BY <3>4, <4>1, <4>2, <4>3 DEF Options
    <3> QED BY <1>3, <3>1, <3>2, <3>3, <3>4 DEF Next
  <2> QED BY <1>1, <2>1, <2>2 DEF WInv
<1> QED BY <1>2, <1>3

(* net_coap_recv delivers every well-formed response with our token, and   *)
(* tells where its payload starts, for every message and token; it delivers*)
(* nothing else, but for a length that wraps optlen.  The stages of the    *)
(* loop go from option to option as the definition of the message does.    *)
THEOREM DeliveryIsRight == Spec => []DeliversPayload
<1>1. WInv => DeliversPayload
  BY DEF WInv, Walk, Astray, Delivery, DeliversPayload
<1> QED BY <1>1, WalkInit, WalkNext, PTL DEF Spec
=============================================================================
