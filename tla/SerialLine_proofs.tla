-------------------------- MODULE SerialLine_proofs --------------------------
(***************************************************************************)
(* Proof that serial_read returns whole frames and serial_wait_for_signal  *)
(* whole numbers only, for every set of frames and signals, every length   *)
(* of the buffer, every timeout and every number of lines.                 *)
(*                                                                         *)
(* FrameRight and SignalRight speak of the moment a call returns.  Reading *)
(* and Counting say what a call that runs has matched and stored: of a     *)
(* frame or a signal read from its start, the bytes, or the number its     *)
(* digits make, up to the column; of a line whose rest it reads, nothing,  *)
(* because no character but the first of a line is a P or a T.             *)
(***************************************************************************)
EXTENDS SerialLine, SequenceTheorems, TLAPS

(* The bytes stored are the first ones of the frame.                       *)
Prefix(data) ==
  /\ Len(buffer) <= Len(data)
  /\ \A i \in 1 .. Len(buffer) : buffer[i] = data[i]

(* What serial_read has done of a frame it reads from its first character. *)
ReadingFrame(data) ==
  \/ column = 1 /\ state = 0 /\ buffer = <<>>
  \/ column = 2 /\ state = 1 /\ buffer = <<>>
  \/ column = 3 /\ state = 2 /\ buffer = <<>>
  \/ /\ column = 2 * Len(buffer) + 4
     /\ state = (IF Len(buffer) = 0 THEN 2 ELSE 4)
     /\ Prefix(data)
  \/ /\ column = 2 * Len(buffer) + 5 /\ state = 3
     /\ Prefix(data) /\ Len(buffer) < Len(data)
     /\ current_byte = 16 * (data[Len(buffer) + 1] \div 16)

Reading ==
  pc = "frame" =>
    /\ ~ fresh => column > 1 /\ state \in {0, 255} /\ buffer = <<>>
    /\ fresh /\ column = 1 => state = 0 /\ buffer = <<>>
    /\ fresh /\ column > 1 /\ lines[line].kind = "T" => state = 255 /\ buffer = <<>>
    /\ fresh /\ column > 1 /\ lines[line].kind = "P" => ReadingFrame(lines[line].data)

(* A first digit leaves room for the second.                               *)
HighDigit == pc = "frame" /\ state = 3 => current_byte <= 240

IInv == TypeOK /\ Reading /\ HighDigit

(* The digits of a number, and the number its first k digits make.         *)
DigitCount(n) == IF n >= 100 THEN 3 ELSE IF n >= 10 THEN 2 ELSE 1
Leading(n, k) ==
  CASE k = 0 -> 0
    [] k > 0 /\ k = DigitCount(n) -> n
    [] k > 0 /\ k + 1 = DigitCount(n) -> n \div 10
    [] OTHER -> n \div 100
Digit(n, k) == Leading(n, k) - 10 * Leading(n, k - 1)

(* What serial_wait_for_signal has done of a signal it reads from its      *)
(* first character.                                                        *)
ReadingSignal(n) ==
  \/ column = 2 /\ state = 1 /\ current_byte = 0
  \/ column \in {3, 4} /\ state = 2 /\ current_byte = 0
  \/ \E k \in 1 .. DigitCount(n) :
       column = 4 + k /\ state = 3 /\ current_byte = Leading(n, k)

Counting ==
  pc = "signal" =>
    /\ ~ fresh => column > 1 /\ state \in {0, 255} /\ current_byte = 0
    /\ fresh /\ column = 1 => state = 0 /\ current_byte = 0
    /\ fresh /\ column > 1 /\ lines[line].kind = "P" => state = 255 /\ current_byte = 0
    /\ fresh /\ column > 1 /\ lines[line].kind = "T" => ReadingSignal(lines[line].data[1])

-----------------------------------------------------------------------------
(* A digit is read as it was written, and is no P, no T and no LF.          *)
LEMMA Digits ==
  ASSUME NEW n \in 0 .. 15
  PROVE  /\ HexDigit(n) \in Nat
         /\ IsHex(HexDigit(n)) /\ Value(HexDigit(n)) = n
         /\ HexDigit(n) \notin {LF, Space, Colon, UpperP, UpperT}
<1>1. n \in Int /\ 0 <= n /\ n <= 15
  OBVIOUS
<1>2. CASE n < 10
  BY <1>1, <1>2 DEF HexDigit, IsHex, IsDecimal, Value, LF, Space, Colon, UpperP, UpperT,
                     UpperA, Zero
<1>3. CASE n >= 10
  BY <1>1, <1>3 DEF HexDigit, IsHex, IsDecimal, Value, LF, Space, Colon, UpperP, UpperT,
                     UpperA, Zero
<1> QED BY <1>1, <1>2, <1>3

(* The two halves of a byte.                                               *)
LEMMA Halves ==
  ASSUME NEW b \in Byte
  PROVE  /\ b \div 16 \in 0 .. 15 /\ b % 16 \in 0 .. 15
         /\ 16 * (b \div 16) + (b % 16) = b
<1>1. b \in Int /\ 0 <= b /\ b <= 255
  BY DEF Byte
<1> QED BY <1>1

(* The characters of a frame's line.                                       *)
LEMMA FrameChars ==
  ASSUME NEW data \in Seq(Byte)
  PROVE  /\ Len(FrameText(data)) = 2 * Len(data) + 4
         /\ FrameText(data)[1] = UpperP
         /\ FrameText(data)[2] = Colon
         /\ FrameText(data)[3] = Space
         /\ FrameText(data)[2 * Len(data) + 4] = LF
         /\ \A k \in 0 .. Len(data) - 1 :
              /\ FrameText(data)[2 * k + 4] = HexDigit(data[k + 1] \div 16)
              /\ FrameText(data)[2 * k + 5] = HexDigit(data[k + 1] % 16)
<1> DEFINE n == 2 * Len(data) + 4
<1>1. Len(data) \in Nat /\ n \in Nat
  OBVIOUS
<1>2. Len(FrameText(data)) = n
  BY <1>1 DEF FrameText
<1>3. /\ FrameText(data)[1] = UpperP
      /\ FrameText(data)[2] = Colon
      /\ FrameText(data)[3] = Space
      /\ FrameText(data)[n] = LF
  BY <1>1 DEF FrameText
<1>4. ASSUME NEW k \in 0 .. Len(data) - 1
      PROVE  /\ FrameText(data)[2 * k + 4] = HexDigit(data[k + 1] \div 16)
             /\ FrameText(data)[2 * k + 5] = HexDigit(data[k + 1] % 16)
  <2>1. k \in Nat /\ k < Len(data)
    BY <1>1
  <2>2. /\ (2 * k + 4) % 2 = 0 /\ (2 * k + 5) % 2 = 1
        /\ (2 * k + 4 - 2) \div 2 = k + 1 /\ (2 * k + 5 - 2) \div 2 = k + 1
    BY <2>1
  <2>3. FrameText(data)[2 * k + 4] = HexDigit(data[k + 1] \div 16)
    BY <1>1, <2>1, <2>2 DEF FrameText
  <2>4. FrameText(data)[2 * k + 5] = HexDigit(data[k + 1] % 16)
    BY <1>1, <2>1, <2>2 DEF FrameText
  <2> QED BY <2>3, <2>4
<1> QED BY <1>2, <1>3, <1>4

(* Another digit makes ten times the number, and its value.                *)
LEMMA LeadingDigits ==
  ASSUME NEW n \in Byte
  PROVE  /\ DigitCount(n) \in 1 .. 3
         /\ Leading(n, 0) = 0 /\ Leading(n, DigitCount(n)) = n
         /\ \A k \in 0 .. DigitCount(n) : Leading(n, k) \in Byte
         /\ \A k \in 0 .. DigitCount(n) - 1 : Leading(n, k) < 26
         /\ \A k \in 1 .. DigitCount(n) : Digit(n, k) \in 0 .. 9
<1>1. n \in Int /\ 0 <= n /\ n <= 255
  BY DEF Byte
<1>2. CASE n >= 100
  <2>1. DigitCount(n) = 3
    BY <1>2 DEF DigitCount
  <2>2. /\ Leading(n, 0) = 0 /\ Leading(n, 1) = n \div 100
        /\ Leading(n, 2) = n \div 10 /\ Leading(n, 3) = n
    BY <2>1 DEF Leading
  <2>3. /\ n \div 100 \in 0 .. 9 /\ n \div 10 \in 0 .. 25
        /\ (n \div 10) - 10 * (n \div 100) \in 0 .. 9
        /\ n - 10 * (n \div 10) \in 0 .. 9
    BY <1>1
  <2>4. Digit(n, 1) \in 0 .. 9 /\ Digit(n, 2) \in 0 .. 9 /\ Digit(n, 3) \in 0 .. 9
    BY <2>2, <2>3 DEF Digit
  <2> QED BY <1>1, <2>1, <2>2, <2>3, <2>4 DEF Byte
<1>3. CASE n < 100 /\ n >= 10
  <2>1. DigitCount(n) = 2
    BY <1>1, <1>3 DEF DigitCount
  <2>2. /\ Leading(n, 0) = 0 /\ Leading(n, 1) = n \div 10 /\ Leading(n, 2) = n
    BY <2>1 DEF Leading
  <2>3. /\ n \div 10 \in 0 .. 9
        /\ n - 10 * (n \div 10) \in 0 .. 9
    BY <1>1, <1>3
  <2>4. Digit(n, 1) \in 0 .. 9 /\ Digit(n, 2) \in 0 .. 9
    BY <2>2, <2>3 DEF Digit
  <2> QED BY <1>1, <2>1, <2>2, <2>3, <2>4 DEF Byte
<1>4. CASE n < 10
  <2>1. DigitCount(n) = 1
    BY <1>1, <1>4 DEF DigitCount
  <2>2. Leading(n, 0) = 0 /\ Leading(n, 1) = n
    BY <2>1 DEF Leading
  <2>3. Digit(n, 1) \in 0 .. 9
    BY <1>1, <1>4, <2>2 DEF Digit
  <2> QED BY <1>1, <1>4, <2>1, <2>2, <2>3 DEF Byte
<1> QED BY <1>1, <1>2, <1>3, <1>4

(* A sequence with one element more.                                       *)
LEMMA OneMore ==
  ASSUME NEW s \in Seq(Int), NEW x \in Int
  PROVE  /\ s \o <<x>> \in Seq(Int) /\ Len(s \o <<x>>) = Len(s) + 1
         /\ \A i \in 1 .. Len(s) : (s \o <<x>>)[i] = s[i]
         /\ (s \o <<x>>)[Len(s) + 1] = x
<1>1. s \o <<x>> = Append(s, x)
  OBVIOUS
<1> QED BY <1>1

(* Serial.print writes the digits of a number.                             *)
LEMMA DecimalDigits ==
  ASSUME NEW n \in Byte
  PROVE  /\ Decimal(n) \in Seq(Int) /\ Len(Decimal(n)) = DigitCount(n)
         /\ \A k \in 1 .. DigitCount(n) : Decimal(n)[k] = Zero + Digit(n, k)
<1>1. n \in Int /\ 0 <= n /\ n <= 255
  BY DEF Byte
<1> DEFINE hundreds == Zero + (n \div 100)
           tens     == Zero + ((n \div 10) % 10)
           units    == Zero + (n % 10)
<1>2. hundreds \in Int /\ tens \in Int /\ units \in Int
  BY <1>1 DEF Zero
<1>3. CASE n >= 100
  <2>1. DigitCount(n) = 3
    BY <1>3 DEF DigitCount
  <2>2. /\ Leading(n, 0) = 0 /\ Leading(n, 1) = n \div 100
        /\ Leading(n, 2) = n \div 10 /\ Leading(n, 3) = n
    BY <2>1 DEF Leading
  <2>3. /\ hundreds = Zero + Digit(n, 1)
        /\ tens = Zero + Digit(n, 2)
        /\ units = Zero + Digit(n, 3)
    <3>1. /\ n % 10 = n - 10 * (n \div 10)
          /\ (n \div 10) % 10 = (n \div 10) - 10 * (n \div 100)
          /\ n \div 100 = n \div 100 - 10 * 0
      BY <1>1
    <3> QED BY <2>2, <3>1 DEF Digit
  <2>4. Decimal(n) = <<hundreds>> \o <<tens>> \o <<units>>
    BY <1>1, <1>3 DEF Decimal
  <2> HIDE DEF hundreds, tens, units
  <2>5. /\ <<hundreds>> \in Seq(Int) /\ Len(<<hundreds>>) = 1
        /\ <<hundreds>>[1] = hundreds
    BY <1>2
  <2> DEFINE two == <<hundreds>> \o <<tens>>
  <2>6. two \in Seq(Int) /\ Len(two) = 2 /\ two[1] = hundreds /\ two[2] = tens
    BY <1>2, <2>5, OneMore
  <2> HIDE DEF two
  <2>7. /\ two \o <<units>> \in Seq(Int)
        /\ Len(two \o <<units>>) = Len(two) + 1
        /\ \A i \in 1 .. Len(two) : (two \o <<units>>)[i] = two[i]
        /\ (two \o <<units>>)[Len(two) + 1] = units
    BY <1>2, <2>6, OneMore
  <2> QED BY <2>1, <2>3, <2>4, <2>6, <2>7 DEF two
<1>4. CASE n < 100 /\ n >= 10
  <2>1. DigitCount(n) = 2
    BY <1>1, <1>4 DEF DigitCount
  <2>2. /\ Leading(n, 0) = 0 /\ Leading(n, 1) = n \div 10 /\ Leading(n, 2) = n
    BY <2>1 DEF Leading
  <2>3. tens = Zero + Digit(n, 1) /\ units = Zero + Digit(n, 2)
    <3>1. /\ n % 10 = n - 10 * (n \div 10)
          /\ (n \div 10) % 10 = n \div 10
          /\ n \div 10 = n \div 10 - 10 * 0
      BY <1>1, <1>4
    <3> QED BY <2>2, <3>1 DEF Digit
  <2>4. Decimal(n) = <<>> \o <<tens>> \o <<units>>
    BY <1>1, <1>4 DEF Decimal
  <2> HIDE DEF tens, units
  <2>5. <<>> \o <<tens>> = <<tens>>
    BY <1>2
  <2>6. <<tens>> \in Seq(Int) /\ Len(<<tens>>) = 1 /\ <<tens>>[1] = tens
    BY <1>2
  <2>7. /\ <<tens>> \o <<units>> \in Seq(Int) /\ Len(<<tens>> \o <<units>>) = 2
        /\ (<<tens>> \o <<units>>)[1] = tens
        /\ (<<tens>> \o <<units>>)[2] = units
    BY <1>2, <2>6, OneMore
  <2> QED BY <2>1, <2>3, <2>4, <2>5, <2>7
<1>5. CASE n < 10
  <2>1. DigitCount(n) = 1
    BY <1>1, <1>5 DEF DigitCount
  <2>2. Leading(n, 0) = 0 /\ Leading(n, 1) = n
    BY <2>1 DEF Leading
  <2>3. units = Zero + Digit(n, 1)
    BY <1>1, <1>5, <2>2 DEF Digit
  <2>4. Decimal(n) = <<>> \o <<>> \o <<units>>
    <3>1. ~ (n >= 100) /\ ~ (n >= 10)
      BY <1>1, <1>5
    <3> QED BY <3>1, Zenon DEF Decimal
  <2> HIDE DEF units
  <2>5. <<>> \o <<>> = <<>> /\ <<>> \o <<units>> = <<units>>
    BY <1>2
  <2> QED BY <1>2, <2>1, <2>3, <2>4, <2>5
<1> QED BY <1>1, <1>3, <1>4, <1>5

(* The line of a signal, character by character.                           *)
LEMMA SignalLayout ==
  ASSUME NEW n \in Byte
  PROVE  /\ Len(SignalText(n)) = 4 + DigitCount(n)
         /\ SignalText(n)[1] = UpperT
         /\ SignalText(n)[2] = Colon
         /\ SignalText(n)[3] = Space
         /\ SignalText(n)[4 + DigitCount(n)] = LF
         /\ \A k \in 1 .. DigitCount(n) : SignalText(n)[3 + k] = Zero + Digit(n, k)
<1> DEFINE head == <<UpperT, Colon, Space>>
           body == head \o Decimal(n)
<1>1. /\ Decimal(n) \in Seq(Int) /\ Len(Decimal(n)) = DigitCount(n)
      /\ DigitCount(n) \in 1 .. 3
  BY DecimalDigits, LeadingDigits
<1>2. /\ head \in Seq(Int) /\ Len(head) = 3
      /\ head[1] = UpperT /\ head[2] = Colon /\ head[3] = Space /\ LF \in Int
  BY DEF UpperT, Colon, Space, LF
<1>3. SignalText(n) = body \o <<LF>>
  BY DEF SignalText
<1> HIDE DEF head
<1>4. /\ body \in Seq(Int) /\ Len(body) = Len(head) + Len(Decimal(n))
      /\ \A i \in 1 .. Len(head) + Len(Decimal(n)) :
           body[i] = IF i <= Len(head) THEN head[i] ELSE Decimal(n)[i - Len(head)]
  BY <1>1, <1>2, ConcatProperties
<1> HIDE DEF body
<1>5. /\ Len(body) = 3 + DigitCount(n)
      /\ body[1] = UpperT /\ body[2] = Colon /\ body[3] = Space
  BY <1>1, <1>2, <1>4
<1>6. \A k \in 1 .. DigitCount(n) : body[3 + k] = Zero + Digit(n, k)
  <2>1. ASSUME NEW k \in 1 .. DigitCount(n) PROVE body[3 + k] = Decimal(n)[k]
    BY <1>1, <1>2, <1>4, SMTT(30)
  <2> QED BY <2>1, DecimalDigits
<1>7. /\ Len(body \o <<LF>>) = Len(body) + 1
      /\ \A i \in 1 .. Len(body) : (body \o <<LF>>)[i] = body[i]
      /\ (body \o <<LF>>)[Len(body) + 1] = LF
  BY <1>2, <1>4, OneMore
<1> QED BY <1>1, <1>3, <1>5, <1>6, <1>7

(* Its first character is its only T, and none is a P.                     *)
LEMMA SignalChars ==
  ASSUME NEW n \in Byte
  PROVE  /\ Len(SignalText(n)) \in Nat /\ Len(SignalText(n)) > 3
         /\ SignalText(n)[1] = UpperT
         /\ SignalText(n)[Len(SignalText(n))] = LF
         /\ \A c \in 2 .. Len(SignalText(n)) : SignalText(n)[c] \notin {UpperP, UpperT}
<1>1. DigitCount(n) \in 1 .. 3
  BY LeadingDigits
<1>2. ASSUME NEW c \in 2 .. Len(SignalText(n))
      PROVE  SignalText(n)[c] \notin {UpperP, UpperT}
  <2>1. CASE c \in {2, 3} \/ c = 4 + DigitCount(n)
    BY <2>1, SignalLayout DEF UpperP, UpperT, Colon, Space, LF
  <2>2. CASE c > 3 /\ c < 4 + DigitCount(n)
    <3>1. PICK k \in 1 .. DigitCount(n) : c = 3 + k
      <4>1. c - 3 \in 1 .. DigitCount(n) /\ c = 3 + (c - 3)
        BY <1>1, <2>2, SignalLayout
      <4> QED BY <4>1
    <3>2. Digit(n, k) \in 0 .. 9
      BY LeadingDigits
    <3>3. Zero + Digit(n, k) \notin {UpperP, UpperT}
      BY <3>2, SMTT(30) DEF Zero, UpperP, UpperT
    <3> QED BY <3>1, <3>3, SignalLayout
  <2> QED BY <1>1, <2>1, <2>2, SignalLayout
<1> QED BY <1>1, <1>2, SignalLayout
-----------------------------------------------------------------------------
(* A line of either kind: it is not empty, it ends with its only LF as far *)
(* as serial_read is concerned, and only the first character may be a P    *)
(* or a T.                                                                 *)
LEMMA LineChars ==
  ASSUME NEW l \in Lines
  PROVE  /\ l.kind \in {"P", "T"}
         /\ Len(Text(l)) \in Nat /\ Len(Text(l)) > 3
         /\ Text(l)[Len(Text(l))] = LF
         /\ \A c \in 2 .. Len(Text(l)) : Text(l)[c] \notin {UpperP, UpperT}
         /\ l.kind = "T" => /\ l.data[1] \in Byte /\ Text(l) = SignalText(l.data[1])
                            /\ Text(l)[1] = UpperT
         /\ l.kind = "P" => Text(l) = FrameText(l.data) /\ l.data \in Seq(Byte)
<1>1. CASE l.kind = "T"
  <2>1. \E n \in Byte : l.data = <<n>>
    BY <1>1, SignalsAssumption DEF Lines
  <2>2. PICK n \in Byte : l.data = <<n>>
    BY <2>1
  <2>3. Text(l) = SignalText(n)
    BY <1>1, <2>2 DEF Text
  <2>4. l.data[1] = n
    BY <2>2
  <2> QED BY <1>1, <2>3, <2>4, SignalChars
<1>2. CASE l.kind = "P"
  <2> DEFINE data == l.data
  <2>1. data \in Seq(Byte) /\ Text(l) = FrameText(data)
    BY <1>2, DatasAssumption DEF Lines, Text
  <2>2. Len(data) \in Nat /\ \A k \in 0 .. Len(data) - 1 : data[k + 1] \in Byte
    BY <2>1
  <2> HIDE DEF data
  <2>3. ASSUME NEW c \in 2 .. Len(Text(l)) PROVE Text(l)[c] \notin {UpperP, UpperT}
    <3>1. c \in Int /\ 2 <= c /\ c <= 2 * Len(data) + 4
      BY <2>1, <2>2, FrameChars
    <3>2. CASE c \in {2, 3} \/ c = 2 * Len(data) + 4
      BY <2>1, <3>2, FrameChars DEF UpperP, UpperT, Colon, Space, LF
    <3>3. CASE c > 3 /\ c < 2 * Len(data) + 4
      <4> DEFINE k == (c - 4) \div 2
      <4>1. k \in 0 .. Len(data) - 1 /\ (c = 2 * k + 4 \/ c = 2 * k + 5)
        BY <2>2, <3>1, <3>3
      <4>2. data[k + 1] \in Byte
        BY <2>2, <4>1
      <4>3. /\ HexDigit(data[k + 1] \div 16) \notin {UpperP, UpperT}
            /\ HexDigit(data[k + 1] % 16) \notin {UpperP, UpperT}
        BY <4>2, Halves, Digits
      <4> HIDE DEF k
      <4> QED BY <2>1, <4>1, <4>3, FrameChars
    <3> QED BY <2>2, <3>1, <3>2, <3>3
  <2> QED BY <1>2, <2>1, <2>2, <2>3, FrameChars DEF data
<1> QED BY <1>1, <1>2 DEF Lines

(* Where the port stands after a character other than LF, and after LF.    *)
LEMMA Taken ==
  ASSUME TypeOK, Take, UNCHANGED lines
  PROVE  /\ line \in 1 .. Len(lines) /\ lines[line] \in Lines
         /\ column \in 1 .. Len(Text(lines[line]))
         /\ line' \in 1 .. Len(lines) + 1
         /\ line' <= Len(lines) => column' \in 1 .. Len(Text(lines[line']))
         /\ line' > Len(lines) => column' = 1
         /\ Chr # LF => line' = line /\ column' = column + 1
         /\ line' # line \/ column' # column
<1>1. /\ line \in Nat /\ line >= 1 /\ line <= Len(lines) /\ lines \in Seq(Lines)
      /\ Len(lines) \in Nat
  BY DEF TypeOK, Take
<1>2. lines[line] \in Lines
  BY <1>1
<1>3. column \in 1 .. Len(Text(lines[line])) /\ Len(Text(lines[line])) \in Nat
  BY <1>1, <1>2, LineChars DEF TypeOK
<1>4. CASE column < Len(Text(lines[line]))
  BY <1>1, <1>2, <1>3, <1>4 DEF Take
<1>5. CASE column >= Len(Text(lines[line]))
  <2>1. Chr = LF
    BY <1>2, <1>3, <1>5, LineChars DEF Chr
  <2>2. column' = 1 /\ line' = line + 1
    BY <1>3, <1>5 DEF Take
  <2>3. line + 1 <= Len(lines) => /\ lines[line + 1] \in Lines
                                  /\ 1 \in 1 .. Len(Text(lines[line + 1]))
    BY <1>1, LineChars
  <2> QED BY <1>1, <1>2, <1>3, <2>1, <2>2, <2>3
<1> QED BY <1>3, <1>4, <1>5

-----------------------------------------------------------------------------
(* What the states of serial_read say of the character just taken.         *)
LEMMA FrameStates ==
  ASSUME NEW c
  PROVE  /\ FrameState(c) \in 0 .. 4 \union {255}
         /\ FrameState(c) = 3 => IsHex(c) /\ state \in {2, 4}
         /\ FrameState(c) = 4 => IsHex(c) /\ state = 3
         /\ state = 0 /\ c # UpperP => FrameState(c) = 255
         /\ state = 255 => FrameState(c) = 255
         /\ state = 0 /\ c = UpperP => FrameState(c) = 1
         /\ state = 1 /\ c = Colon => FrameState(c) = 2
         /\ state = 2 /\ c = Space => FrameState(c) = 2
         /\ state \in {2, 4} /\ IsHex(c) => FrameState(c) = 3
         /\ state = 3 /\ IsHex(c) => FrameState(c) = 4
<1>1. IsHex(c) => c # Space
  BY DEF IsHex, IsDecimal, Space, Zero, UpperA
<1> QED BY <1>1 DEF FrameState

LEMMA SignalStates ==
  ASSUME NEW c
  PROVE  /\ SignalState(c) \in 0 .. 4 \union {255}
         /\ SignalState(c) = 3 => IsDecimal(c)
         /\ state = 0 /\ c # UpperT => SignalState(c) = 255
         /\ state = 255 => SignalState(c) = 255
         /\ state = 0 /\ c = UpperT => SignalState(c) = 1
         /\ state = 1 /\ c = Colon => SignalState(c) = 2
         /\ state = 2 /\ c = Space => SignalState(c) = 2
         /\ state \in {2, 3} /\ IsDecimal(c) => SignalState(c) = 3
<1>1. IsDecimal(c) => c # Space
  BY DEF IsDecimal, Space, Zero
<1> QED BY <1>1 DEF SignalState

LEMMA Values ==
  ASSUME NEW c, IsHex(c)
  PROVE  Value(c) \in 0 .. 15 /\ (IsDecimal(c) => Value(c) \in 0 .. 9)
BY DEF IsHex, IsDecimal, Value, Zero, UpperA

-----------------------------------------------------------------------------
LEMMA InitInv == Init => IInv
<1> SUFFICES ASSUME Init PROVE IInv
  OBVIOUS
<1>1. TypeOK
  BY BoundsAssumption DEF Init, TypeOK, Byte
<1> QED BY <1>1 DEF Init, IInv, Reading, HighDigit

(* Writing adds a line and changes none.                                   *)
LEMMA WriteInv ==
  ASSUME IInv, NEW l \in Lines, Write(l)
  PROVE  IInv'
<1>1. lines \in Seq(Lines) /\ line \in 1 .. Len(lines) + 1
  BY DEF IInv, TypeOK
<1>2. /\ lines' \in Seq(Lines) /\ Len(lines') = Len(lines) + 1
      /\ \A i \in 1 .. Len(lines) : lines'[i] = lines[i]
      /\ lines'[Len(lines) + 1] = l
  BY <1>1 DEF Write
<1>3. 1 \in 1 .. Len(Text(l))
  BY LineChars
<1>4. TypeOK'
  <2>1. /\ line' \in 1 .. Len(lines') + 1
        /\ line' <= Len(lines') => column' \in 1 .. Len(Text(lines'[line']))
        /\ line' > Len(lines') => column' = 1
    <3>1. CASE line <= Len(lines)
      BY <1>1, <1>2, <3>1 DEF IInv, TypeOK, Write
    <3>2. CASE line = Len(lines) + 1
      BY <1>1, <1>2, <1>3, <3>2 DEF IInv, TypeOK, Write
    <3> QED BY <1>1, <3>1, <3>2
  <2> QED BY <1>2, <2>1 DEF IInv, TypeOK, Write
<1>5. column > 1 => line <= Len(lines)
  BY <1>1 DEF IInv, TypeOK
<1>6. column > 1 => lines'[line'] = lines[line]
  BY <1>1, <1>2, <1>5 DEF Write
<1>7. Reading'
  <2>1. UNCHANGED <<column, pc, state, current_byte, buffer, fresh>>
    BY DEF Write
  <2>2. CASE column > 1
    <3>1. lines'[line'] = lines[line]
      BY <1>6, <2>2
    <3> QED BY <2>1, <2>2, <3>1 DEF IInv, Reading, ReadingFrame, Prefix
  <2>3. CASE ~ (column > 1)
    BY <2>1, <2>3 DEF IInv, Reading
  <2> QED BY <2>2, <2>3
<1>8. HighDigit'
  BY DEF IInv, HighDigit, Write
<1> QED BY <1>4, <1>7, <1>8 DEF IInv

LEMMA CallInv ==
  ASSUME IInv, NEW function \in {"frame", "signal"}, Call(function)
  PROVE  IInv'
<1>1. TypeOK'
  BY BoundsAssumption DEF IInv, TypeOK, Call, Byte
<1>2. column \in Nat /\ column >= 1
  <2>1. lines \in Seq(Lines) /\ line \in 1 .. Len(lines) + 1
    BY DEF IInv, TypeOK
  <2>2. line <= Len(lines) => Len(Text(lines[line])) \in Nat
    BY <2>1, LineChars
  <2> QED BY <2>1, <2>2 DEF IInv, TypeOK
<1>3. Reading'
  <2>1. column' = column /\ state' = 0 /\ buffer' = <<>>
    BY DEF Call
  <2>2. (fresh' => column' = 1) /\ (~ fresh' => column' # 1)
    BY <2>1 DEF Call
  <2>3. column' = 1 \/ column' > 1
    BY <1>2, <2>1
  <2>4. ~ (1 > 1)
    OBVIOUS
  <2> QED BY <2>1, <2>2, <2>3, <2>4 DEF Reading
<1>4. HighDigit'
  BY DEF HighDigit, Call
<1> QED BY <1>1, <1>3, <1>4 DEF IInv

(* A return leaves the line where it is, or behind an LF.                  *)
LEMMA ReturnInv ==
  ASSUME IInv, NEW frame \in Seq(Byte), NEW signal \in Byte, Return(frame, signal),
         Take \/ UNCHANGED <<line, column>>
  PROVE  IInv'
<1>1. TypeOK'
  <2>1. /\ line' \in 1 .. Len(lines) + 1
        /\ line' <= Len(lines) => column' \in 1 .. Len(Text(lines[line']))
        /\ line' > Len(lines) => column' = 1
    <3>1. CASE Take
      BY <3>1, Taken DEF IInv, Return
    <3>2. CASE UNCHANGED <<line, column>>
      BY <3>2 DEF IInv, TypeOK
    <3> QED BY <3>1, <3>2
  <2> QED BY <2>1 DEF IInv, TypeOK, Return
<1> QED BY <1>1 DEF IInv, Reading, HighDigit, Return

LEMMA WaitInv ==
  ASSUME IInv, Wait
  PROVE  IInv'
<1>1. elapsed \in Nat /\ Timeout \in Nat
  BY BoundsAssumption DEF IInv, TypeOK
<1>2. CASE elapsed + 1 < Timeout
  <2>1. TypeOK'
    BY <1>1, <1>2 DEF IInv, TypeOK, Wait
  <2> QED BY <1>2, <2>1 DEF IInv, Reading, ReadingFrame, Prefix, HighDigit, Wait
<1>3. CASE ~ (elapsed + 1 < Timeout)
  <2>1. <<>> \in Seq(Byte) /\ 0 \in Byte
    BY DEF Byte
  <2> QED BY <1>3, <2>1, ReturnInv DEF Wait
<1> QED BY <1>2, <1>3

LEMMA EndOfLineInv ==
  ASSUME IInv, EndOfLine
  PROVE  IInv'
<1>1. /\ <<>> \in Seq(Byte) /\ 0 \in Byte
      /\ buffer \in Seq(Byte) /\ current_byte \in Byte
  BY DEF IInv, TypeOK, Byte
<1> QED BY <1>1, ReturnInv DEF EndOfLine

LEMMA FullInv ==
  ASSUME IInv, Full
  PROVE  IInv'
<1>1. /\ <<>> \in Seq(Byte) /\ 0 \in Byte
      /\ buffer \in Seq(Byte) /\ current_byte \in Byte
  BY DEF IInv, TypeOK, Byte
<1> QED BY <1>1, ReturnInv DEF Full

LEMMA SignalCharInv ==
  ASSUME IInv, SignalChar
  PROVE  IInv'
<1>1. Take /\ UNCHANGED lines /\ Chr # LF /\ pc = "signal" /\ pc' = "signal"
  BY DEF SignalChar
<1>2. state' \in 0 .. 4 \union {255} /\ (state' = 3 => IsDecimal(Chr))
  BY SignalStates DEF SignalChar
<1>3. current_byte' \in Byte
  <2>1. current_byte \in Byte
    BY DEF IInv, TypeOK
  <2>2. CASE state' = 3
    <3>1. Value(Chr) \in 0 .. 9
      BY <1>2, <2>2, Values DEF IsHex
    <3>2. 10 * current_byte + Value(Chr) \in Nat
      BY <2>1, <3>1 DEF Byte
    <3>3. \A x \in Nat : (x % 256) \in 0 .. 255
      OBVIOUS
    <3>4. ((10 * current_byte + Value(Chr)) % 256) \in Byte
      BY <3>2, <3>3 DEF Byte
    <3> QED BY <2>2, <3>4 DEF SignalChar
  <2>3. CASE state' # 3
    BY <2>1, <2>3 DEF SignalChar
  <2> QED BY <2>2, <2>3
<1>4. TypeOK'
  BY <1>1, <1>2, <1>3, Taken DEF IInv, TypeOK, SignalChar
<1> QED BY <1>1, <1>4 DEF IInv, Reading, HighDigit

(* The types after a character of a frame.                                 *)
LEMMA FrameCharType ==
  ASSUME IInv, FrameChar
  PROVE  TypeOK' /\ HighDigit'
<1>1. /\ Take /\ UNCHANGED lines /\ Chr # LF
      /\ pc = "frame" /\ pc' = "frame" /\ Len(buffer) < BufLen
  BY DEF FrameChar, Running
<1>2. /\ state' = FrameState(Chr) /\ state' \in 0 .. 4 \union {255}
      /\ state' = 3 => IsHex(Chr)
      /\ state' = 4 => IsHex(Chr) /\ state = 3
  BY FrameStates DEF FrameChar
<1>3. current_byte \in Byte /\ (state = 3 => current_byte <= 240)
  BY <1>1 DEF IInv, TypeOK, HighDigit
<1>4. current_byte' \in Byte /\ (state' = 3 => current_byte' <= 240)
  <2>1. CASE state' = 3
    <3>1. Value(Chr) \in 0 .. 15 /\ current_byte' = 16 * Value(Chr)
      BY <1>2, <2>1, Values DEF FrameChar
    <3> QED BY <3>1 DEF Byte
  <2>2. CASE state' = 4
    <3>1. Value(Chr) \in 0 .. 15 /\ current_byte' = current_byte + Value(Chr)
      BY <1>2, <2>2, Values DEF FrameChar
    <3> QED BY <1>2, <1>3, <2>2, <3>1 DEF Byte
  <2>3. CASE state' \notin {3, 4}
    <3>1. current_byte' = current_byte
      BY <2>3 DEF FrameChar
    <3> QED BY <1>3, <2>3, <3>1
  <2> QED BY <2>1, <2>2, <2>3
<1>5. buffer' \in Seq(Byte) /\ Len(buffer') <= BufLen
  <2>1. buffer \in Seq(Byte) /\ BufLen \in Nat
    BY BoundsAssumption DEF IInv, TypeOK
  <2> QED BY <1>1, <1>4, <2>1 DEF FrameChar
<1>6. TypeOK'
  BY <1>1, <1>2, <1>4, <1>5, Taken DEF IInv, TypeOK, FrameChar
<1> QED BY <1>4, <1>6 DEF HighDigit

(* A character more of a frame that is read from its start.                *)
LEMMA FrameCharOfFrame ==
  ASSUME IInv, FrameChar, fresh, lines[line].kind = "P", column > 1,
         ReadingFrame(lines[line].data)
  PROVE  ReadingFrame(lines[line].data)'
<1> DEFINE data == lines[line].data
<1>1. /\ Take /\ UNCHANGED lines /\ Chr # LF
      /\ line' = line /\ column' = column + 1 /\ lines[line] \in Lines
      /\ column \in 1 .. Len(Text(lines[line]))
  BY Taken DEF FrameChar, IInv
<1>2. /\ data \in Seq(Byte) /\ Chr = FrameText(data)[column]
      /\ Len(data) \in Nat /\ column \in 1 .. 2 * Len(data) + 4
  <2>1. data \in Seq(Byte) /\ Text(lines[line]) = FrameText(data)
    BY <1>1, LineChars
  <2>2. Len(Text(lines[line])) = 2 * Len(data) + 4
    BY <2>1, FrameChars
  <2> QED BY <1>1, <2>1, <2>2 DEF Chr
<1>3. data' = data
  BY <1>1
<1>4. buffer \in Seq(Byte) /\ Len(buffer) \in Nat
  BY DEF IInv, TypeOK
<1>5. state' = FrameState(Chr)
  BY DEF FrameChar
<1> SUFFICES /\ ReadingFrame(data)
             => \/ /\ column' = 3 /\ state' = 2 /\ buffer' = <<>>
                \/ /\ column' = 2 * Len(buffer') + 4
                   /\ state' = (IF Len(buffer') = 0 THEN 2 ELSE 4)
                   /\ Len(buffer') <= Len(data)
                   /\ \A i \in 1 .. Len(buffer') : buffer'[i] = data[i]
                \/ /\ column' = 2 * Len(buffer') + 5 /\ state' = 3
                   /\ Len(buffer') <= Len(data)
                   /\ \A i \in 1 .. Len(buffer') : buffer'[i] = data[i]
                   /\ Len(buffer') < Len(data)
                   /\ current_byte' = 16 * (data[Len(buffer') + 1] \div 16)
  BY <1>3 DEF ReadingFrame, Prefix
<1> HIDE DEF data
<1>6. CASE column = 2 /\ state = 1 /\ buffer = <<>>
  <2>1. Chr = Colon
    BY <1>2, <1>6, FrameChars
  <2>2. state' = 2
    BY <1>5, <1>6, <2>1, FrameStates
  <2>3. buffer' = <<>> /\ column' = 3
    BY <1>1, <1>6, <2>2 DEF FrameChar
  <2> QED BY <2>2, <2>3
<1>7. CASE column = 3 /\ state = 2 /\ buffer = <<>>
  <2>1. Chr = Space
    BY <1>2, <1>7, FrameChars
  <2>2. state' = 2
    BY <1>5, <1>7, <2>1, FrameStates
  <2>3. buffer' = <<>> /\ column' = 4
    BY <1>1, <1>7, <2>2 DEF FrameChar
  <2> QED BY <1>2, <2>2, <2>3
<1>8. CASE /\ column = 2 * Len(buffer) + 4
           /\ state = (IF Len(buffer) = 0 THEN 2 ELSE 4)
           /\ Prefix(data)
  <2>1. Len(buffer) < Len(data)
    <3>1. column # 2 * Len(data) + 4
      BY <1>1, <1>2, FrameChars
    <3> QED BY <1>2, <1>4, <1>8, <3>1 DEF Prefix
  <2>2. data[Len(buffer) + 1] \in Byte /\ Len(buffer) \in 0 .. Len(data) - 1
    BY <1>2, <1>4, <2>1
  <2>3. Chr = HexDigit(data[Len(buffer) + 1] \div 16)
    BY <1>2, <1>8, <2>2, FrameChars
  <2>4. IsHex(Chr) /\ Value(Chr) = data[Len(buffer) + 1] \div 16
    BY <2>2, <2>3, Halves, Digits
  <2>5. state' = 3
    BY <1>5, <1>8, <2>4, FrameStates
  <2>6. buffer' = buffer /\ current_byte' = 16 * (data[Len(buffer) + 1] \div 16)
    BY <2>4, <2>5 DEF FrameChar
  <2> QED BY <1>1, <1>4, <1>8, <2>1, <2>5, <2>6 DEF Prefix
<1>9. CASE /\ column = 2 * Len(buffer) + 5 /\ state = 3
           /\ Prefix(data) /\ Len(buffer) < Len(data)
           /\ current_byte = 16 * (data[Len(buffer) + 1] \div 16)
  <2> DEFINE b == data[Len(buffer) + 1]
  <2>1. b \in Byte /\ Len(buffer) \in 0 .. Len(data) - 1
    BY <1>2, <1>4, <1>9
  <2>2. Chr = HexDigit(b % 16)
    BY <1>2, <1>9, <2>1, FrameChars
  <2>3. IsHex(Chr) /\ Value(Chr) = b % 16
    BY <2>1, <2>2, Halves, Digits
  <2>4. state' = 4
    BY <1>5, <1>9, <2>3, FrameStates
  <2>5. current_byte' = 16 * (b \div 16) + (b % 16)
    BY <1>9, <2>3, <2>4 DEF FrameChar
  <2>6. current_byte' = b
    BY <2>1, <2>5, Halves
  <2>7. buffer' = Append(buffer, b)
    BY <2>4, <2>6 DEF FrameChar
  <2>8. /\ Len(buffer') = Len(buffer) + 1
        /\ \A i \in 1 .. Len(buffer) + 1 : buffer'[i] = data[i]
    BY <1>4, <1>9, <2>1, <2>7 DEF Prefix
  <2> QED BY <1>1, <1>2, <1>4, <1>9, <2>4, <2>8
<1> QED BY <1>6, <1>7, <1>8, <1>9 DEF ReadingFrame

LEMMA FrameCharInv ==
  ASSUME IInv, FrameChar
  PROVE  IInv'
<1>1. /\ Take /\ UNCHANGED <<lines, pc, fresh>> /\ Chr # LF /\ pc = "frame"
      /\ state' = FrameState(Chr)
      /\ state' # 4 => buffer' = buffer
  BY DEF FrameChar
<1>2. /\ line' = line /\ column' = column + 1 /\ lines[line] \in Lines
      /\ column \in 1 .. Len(Text(lines[line]))
      /\ Len(Text(lines[line])) \in Nat
      /\ column > 1 => Chr # UpperP
  BY <1>1, Taken, LineChars DEF IInv, Chr
<1>3. lines[line].kind \in {"P", "T"}
  BY <1>2, LineChars
<1>4. ~ fresh => state' = 255 /\ buffer' = <<>>
  BY <1>1, <1>2, FrameStates DEF IInv, Reading
<1>5. fresh /\ lines[line].kind = "T" => state' = 255 /\ buffer' = <<>>
  <2>1. lines[line].kind = "T" /\ column = 1 => Chr # UpperP
    BY <1>2, LineChars DEF Chr, UpperT, UpperP
  <2> QED BY <1>1, <1>2, <2>1, FrameStates DEF IInv, Reading
<1>6. fresh /\ lines[line].kind = "P" => ReadingFrame(lines[line].data)'
  <2>1. CASE column = 1 /\ fresh /\ lines[line].kind = "P"
    <3>1. Chr = UpperP
      BY <1>2, <2>1, LineChars, FrameChars DEF Chr
    <3>2. state = 0 /\ buffer = <<>>
      BY <1>1, <2>1 DEF IInv, Reading
    <3>3. state' = 1
      BY <1>1, <3>1, <3>2, FrameStates
    <3>4. column' = 2 /\ buffer' = <<>>
      BY <1>1, <1>2, <2>1, <3>2, <3>3
    <3> QED BY <3>3, <3>4 DEF ReadingFrame
  <2>2. CASE column > 1 /\ fresh /\ lines[line].kind = "P"
    BY <1>1, <2>2, FrameCharOfFrame DEF IInv, Reading
  <2> QED BY <1>2, <2>1, <2>2
<1>7. Reading'
  BY <1>1, <1>2, <1>3, <1>4, <1>5, <1>6 DEF Reading
<1> QED BY <1>7, FrameCharType DEF IInv

LEMMA NextInv == IInv /\ [Next]_vars => IInv'
<1> SUFFICES ASSUME IInv, [Next]_vars PROVE IInv'
  OBVIOUS
<1>1. CASE \E l \in Lines : Write(l)
  BY <1>1, WriteInv
<1>2. CASE Call("frame") \/ Call("signal")
  BY <1>2, CallInv
<1>3. CASE Read
  BY <1>3, WaitInv, EndOfLineInv, FrameCharInv, SignalCharInv, FullInv DEF Read
<1>4. CASE UNCHANGED vars
  <2>1. TypeOK'
    BY <1>4 DEF IInv, TypeOK, vars
  <2> QED BY <1>4, <2>1 DEF IInv, Reading, ReadingFrame, Prefix, HighDigit, vars
<1> QED BY <1>1, <1>2, <1>3, <1>4 DEF Next

LEMMA Invariance == Spec => []IInv
BY InitInv, NextInv, PTL DEF Spec

-----------------------------------------------------------------------------
(* The typing of the port and the call, for every parameter.               *)
THEOREM TypeCorrect == Spec => []TypeOK
<1>1. IInv => TypeOK
  BY DEF IInv
<1> QED BY <1>1, Invariance, PTL

(* What serial_read returns is FirstBytes of a frame whose line it read    *)
(* from the start, and nothing in every other case, for every frame.       *)
THEOREM FrameIsRight == Spec => FrameRight
<1> DEFINE Returned ==
      ret'.frame = IF fresh /\ ~ GaveUp /\ lines[line].kind = "P"
                   THEN FirstBytes(lines[line].data) ELSE <<>>
<1>1. ASSUME IInv, [Next]_vars, pc = "frame", pc' = "idle"
      PROVE  Returned
  <2>1. Wait \/ EndOfLine \/ Full
    BY <1>1 DEF Next, Read, Write, Call, FrameChar, SignalChar, vars
  <2>2. /\ buffer \in Seq(Byte) /\ Len(buffer) \in Nat /\ Len(buffer) <= BufLen
        /\ BufLen \in Nat /\ BufLen > 0
    BY <1>1, BoundsAssumption DEF IInv, TypeOK
  <2>3. CASE Wait
    <3>1. GaveUp
      BY <2>3 DEF Wait, GaveUp
    <3>2. ret' = [frame |-> <<>>, signal |-> 0]
      BY <1>1, <2>3 DEF Wait, Return
    <3> QED BY <3>1, <3>2
  <2>4. CASE EndOfLine
    <3>1. /\ Take /\ UNCHANGED lines /\ Chr = LF /\ ret'.frame = buffer
          /\ Len(buffer) < BufLen
      BY <1>1, <2>4 DEF EndOfLine, Return, Running
    <3>2. /\ lines[line] \in Lines
          /\ column \in 1 .. Len(Text(lines[line]))
          /\ ~ GaveUp
      BY <1>1, <3>1, Taken DEF IInv, GaveUp
    <3>3. column \in Nat /\ column > 1 /\ lines[line].kind \in {"P", "T"}
      <4>1. Text(lines[line])[1] \in {UpperP, UpperT}
        BY <3>2, LineChars, FrameChars
      <4>2. column # 1
        BY <3>1, <4>1 DEF Chr, LF, UpperP, UpperT
      <4> QED BY <3>2, <4>2, LineChars
    <3>4. CASE fresh /\ lines[line].kind = "P"
      <4> DEFINE data == lines[line].data
      <4>1. /\ data \in Seq(Byte) /\ Len(data) \in Nat
            /\ FrameText(data)[column] = LF
        BY <3>1, <3>2, <3>4, LineChars DEF Chr
      <4>2. ReadingFrame(data)
        BY <1>1, <3>3, <3>4 DEF IInv, Reading
      <4> HIDE DEF data
      <4>3. \A k \in 0 .. Len(data) - 1 :
              FrameText(data)[2 * k + 4] # LF /\ FrameText(data)[2 * k + 5] # LF
        <5>1. ASSUME NEW k \in 0 .. Len(data) - 1
              PROVE  FrameText(data)[2 * k + 4] # LF /\ FrameText(data)[2 * k + 5] # LF
          <6>1. data[k + 1] \in Byte
            BY <4>1
          <6>2. /\ HexDigit(data[k + 1] \div 16) # LF
                /\ HexDigit(data[k + 1] % 16) # LF
            BY <6>1, Halves, Digits
          <6> QED BY <4>1, <6>2, FrameChars
        <5> QED BY <5>1
      <4>4. FrameText(data)[2] # LF /\ FrameText(data)[3] # LF
        BY <4>1, FrameChars DEF Colon, Space, LF
      <4>5. Len(buffer) = Len(data) /\ Prefix(data)
        <5>1. column \notin {1, 2, 3}
          BY <3>3, <4>1, <4>4
        <5>2. Len(buffer) < Len(data) => FALSE
          BY <2>2, <4>1, <4>2, <4>3, <5>1 DEF ReadingFrame
        <5> QED BY <2>2, <4>1, <4>2, <5>1, <5>2 DEF ReadingFrame, Prefix
      <4>6. buffer = data
        BY <2>2, <4>1, <4>5 DEF Prefix
      <4>7. FirstBytes(data) = data
        BY <2>2, <3>1, <4>5 DEF FirstBytes
      <4> QED BY <3>1, <3>2, <3>4, <4>6, <4>7 DEF data
    <3>5. CASE ~ (fresh /\ lines[line].kind = "P")
      <4>1. buffer = <<>>
        BY <1>1, <3>3, <3>5 DEF IInv, Reading
      <4> QED BY <3>1, <3>5, <4>1
    <3> QED BY <3>4, <3>5
  <2>5. CASE Full
    <3>1. ret'.frame = buffer /\ Len(buffer) = BufLen /\ ~ GaveUp
      BY <1>1, <2>2, <2>5 DEF Full, Return, Running, GaveUp
    <3>2. buffer # <<>>
      BY <2>2, <3>1
    <3>3. lines \in Seq(Lines) /\ line \in 1 .. Len(lines) + 1
      BY <1>1 DEF IInv, TypeOK
    <3>4. fresh /\ column # 1
      BY <1>1, <3>2 DEF IInv, Reading
    <3>5. line <= Len(lines) /\ lines[line] \in Lines
      BY <1>1, <3>3, <3>4 DEF IInv, TypeOK
    <3>6. column \in Nat /\ column > 1
      BY <1>1, <3>4, <3>5, LineChars DEF IInv, TypeOK
    <3> DEFINE data == lines[line].data
    <3>7. lines[line].kind = "P" /\ ReadingFrame(data)
      BY <1>1, <3>2, <3>4, <3>5, <3>6, LineChars DEF IInv, Reading
    <3>8. data \in Seq(Byte) /\ Len(data) \in Nat
      BY <3>5, <3>7, LineChars
    <3> HIDE DEF data
    <3>9. Prefix(data)
      BY <3>2, <3>7 DEF ReadingFrame
    <3>10. FirstBytes(data) = buffer
      <4>1. CASE Len(data) <= BufLen
        <5>1. buffer = data
          BY <2>2, <3>1, <3>8, <3>9, <4>1 DEF Prefix
        <5> QED BY <4>1, <5>1 DEF FirstBytes
      <4>2. CASE Len(data) > BufLen
        <5>1. /\ SubSeq(data, 1, BufLen) \in Seq(Byte)
              /\ Len(SubSeq(data, 1, BufLen)) = BufLen
              /\ \A i \in 1 .. BufLen : SubSeq(data, 1, BufLen)[i] = data[i]
          BY <2>2, <3>8, <4>2
        <5>2. SubSeq(data, 1, BufLen) = buffer
          BY <2>2, <3>1, <3>9, <5>1 DEF Prefix
        <5> QED BY <2>2, <3>8, <4>2, <5>2 DEF FirstBytes
      <4> QED BY <2>2, <3>8, <4>1, <4>2
    <3> QED BY <3>1, <3>4, <3>7, <3>10 DEF data
  <2> QED BY <2>1, <2>3, <2>4, <2>5
<1>2. IInv /\ [Next]_vars => [pc = "frame" /\ pc' = "idle" => Returned]_vars
  BY <1>1
<1> QED BY <1>2, Invariance, PTL DEF Spec, FrameRight

-----------------------------------------------------------------------------
(* A character more of a signal that is read from its start.               *)
LEMMA SignalCharOfSignal ==
  ASSUME IInv, SignalChar, lines[line].kind = "T", column > 1,
         ReadingSignal(lines[line].data[1])
  PROVE  ReadingSignal(lines[line].data[1])'
<1> DEFINE n == lines[line].data[1]
<1>1. /\ Take /\ UNCHANGED lines /\ Chr # LF
      /\ line' = line /\ column' = column + 1 /\ lines[line] \in Lines
  BY Taken DEF SignalChar, IInv
<1>2. n \in Byte /\ Chr = SignalText(n)[column]
  BY <1>1, LineChars DEF Chr
<1>3. n' = n
  BY <1>1
<1>4. /\ state' = SignalState(Chr)
      /\ current_byte' = IF state' = 3 THEN (10 * current_byte + Value(Chr)) % 256
                                       ELSE current_byte
  BY DEF SignalChar
<1> SUFFICES ReadingSignal(n)
             => \/ column' \in {3, 4} /\ state' = 2 /\ current_byte' = 0
                \/ \E k \in 1 .. DigitCount(n) :
                     column' = 4 + k /\ state' = 3 /\ current_byte' = Leading(n, k)
  BY <1>3 DEF ReadingSignal
<1> HIDE DEF n
<1>5. DigitCount(n) \in 1 .. 3
  BY <1>2, LeadingDigits
<1>6. CASE column = 2 /\ state = 1 /\ current_byte = 0
  <2>1. Chr = Colon
    BY <1>2, <1>6, SignalLayout
  <2>2. state' = 2
    BY <1>4, <1>6, <2>1, SignalStates
  <2> QED BY <1>1, <1>4, <1>6, <2>2
<1>7. CASE column = 3 /\ state = 2 /\ current_byte = 0
  <2>1. Chr = Space
    BY <1>2, <1>7, SignalLayout
  <2>2. state' = 2
    BY <1>4, <1>7, <2>1, SignalStates
  <2> QED BY <1>1, <1>4, <1>7, <2>2
<1>8. ASSUME NEW k \in 1 .. DigitCount(n), column = 3 + k, state \in {2, 3},
             current_byte = Leading(n, k - 1)
      PROVE  /\ column' = 4 + k /\ state' = 3 /\ current_byte' = Leading(n, k)
  <2>1. Chr = Zero + Digit(n, k)
    BY <1>2, <1>8, SignalLayout
  <2>2. /\ Digit(n, k) \in 0 .. 9 /\ Leading(n, k) \in Byte
        /\ Leading(n, k - 1) \in Byte
    <3>1. k \in 0 .. DigitCount(n) /\ k - 1 \in 0 .. DigitCount(n)
      BY <1>5
    <3> QED BY <1>2, <3>1, LeadingDigits
  <2>3. IsDecimal(Chr) /\ Value(Chr) = Digit(n, k)
    BY <2>1, <2>2 DEF IsDecimal, Value, Zero
  <2>4. state' = 3
    BY <1>4, <1>8, <2>3, SignalStates
  <2>5. 10 * current_byte + Value(Chr) = Leading(n, k)
    <3>1. \A a, b \in Byte : 10 * b + (a - 10 * b) = a
      BY DEF Byte
    <3>2. Value(Chr) = Leading(n, k) - 10 * Leading(n, k - 1)
      BY <2>3 DEF Digit
    <3> QED BY <1>8, <2>2, <3>1, <3>2
  <2>6. \A x \in Byte : x % 256 = x
    BY DEF Byte
  <2> QED BY <1>1, <1>4, <1>8, <2>2, <2>4, <2>5, <2>6
<1>9. CASE column = 4 /\ state = 2 /\ current_byte = 0
  <2>1. 1 \in 1 .. DigitCount(n) /\ 1 - 1 = 0 /\ 3 + 1 = 4 /\ Leading(n, 0) = 0
    BY <1>2, <1>5, LeadingDigits
  <2> QED BY <1>8, <1>9, <2>1
<1>10. CASE \E k \in 1 .. DigitCount(n) :
              column = 4 + k /\ state = 3 /\ current_byte = Leading(n, k)
  <2>1. PICK k \in 1 .. DigitCount(n) :
               column = 4 + k /\ state = 3 /\ current_byte = Leading(n, k)
    BY <1>10
  <2>2. k # DigitCount(n)
    BY <1>1, <1>2, <2>1, SignalLayout
  <2>3. k + 1 \in 1 .. DigitCount(n) /\ k + 1 - 1 = k /\ 3 + (k + 1) = 4 + k
    BY <1>5, <2>2
  <2> QED BY <1>8, <2>1, <2>3
<1> QED BY <1>6, <1>7, <1>9, <1>10 DEF ReadingSignal

LEMMA SignalCharCounting ==
  ASSUME IInv, Counting, SignalChar
  PROVE  Counting'
<1>1. /\ Take /\ UNCHANGED <<lines, pc, fresh>> /\ Chr # LF /\ pc = "signal"
      /\ state' = SignalState(Chr)
      /\ state' # 3 => current_byte' = current_byte
  BY DEF SignalChar
<1>2. /\ line' = line /\ column' = column + 1 /\ lines[line] \in Lines
      /\ column \in 1 .. Len(Text(lines[line]))
      /\ Len(Text(lines[line])) \in Nat
      /\ column > 1 => Chr # UpperT
  BY <1>1, Taken, LineChars DEF IInv, Chr
<1>3. lines[line].kind \in {"P", "T"}
  BY <1>2, LineChars
<1>4. ~ fresh => state' = 255 /\ current_byte' = 0
  BY <1>1, <1>2, SignalStates DEF Counting
<1>5. fresh /\ lines[line].kind = "P" => state' = 255 /\ current_byte' = 0
  <2>1. lines[line].kind = "P" /\ column = 1 => Chr # UpperT
    BY <1>2, LineChars, FrameChars DEF Chr, UpperT, UpperP
  <2> QED BY <1>1, <1>2, <2>1, SignalStates DEF Counting
<1>6. fresh /\ lines[line].kind = "T" => ReadingSignal(lines[line].data[1])'
  <2>1. CASE column = 1 /\ fresh /\ lines[line].kind = "T"
    <3>1. Chr = UpperT
      BY <1>2, <2>1, LineChars DEF Chr
    <3>2. state = 0 /\ current_byte = 0
      BY <1>1, <2>1 DEF Counting
    <3>3. state' = 1 /\ current_byte' = 0
      BY <1>1, <3>1, <3>2, SignalStates
    <3>4. column' = 2
      BY <1>2, <2>1
    <3> QED BY <3>3, <3>4 DEF ReadingSignal
  <2>2. CASE column > 1 /\ fresh /\ lines[line].kind = "T"
    BY <1>1, <2>2, SignalCharOfSignal DEF Counting
  <2> QED BY <1>2, <2>1, <2>2
<1>7. column' > 1 /\ column' # 1
  BY <1>2
<1> QED BY <1>1, <1>2, <1>3, <1>4, <1>5, <1>6, <1>7 DEF Counting

LEMMA NextCounting ==
  ASSUME IInv, Counting, [Next]_vars
  PROVE  Counting'
<1>1. ASSUME NEW l \in Lines, Write(l) PROVE Counting'
  <2>1. /\ lines \in Seq(Lines) /\ line \in 1 .. Len(lines) + 1
        /\ UNCHANGED <<line, column, pc, state, current_byte, fresh>>
        /\ lines' = Append(lines, l)
    BY <1>1 DEF IInv, TypeOK, Write
  <2>2. CASE column > 1
    <3>1. line \in 1 .. Len(lines)
      BY <2>1, <2>2 DEF IInv, TypeOK
    <3>2. lines'[line'] = lines[line]
      BY <2>1, <3>1
    <3> QED BY <2>1, <2>2, <3>2 DEF Counting, ReadingSignal
  <2>3. CASE ~ (column > 1)
    BY <2>1, <2>3 DEF Counting
  <2> QED BY <2>2, <2>3
<1>2. CASE Call("frame")
  BY <1>2 DEF Call, Counting
<1>3. CASE Call("signal")
  <2>1. column' = column /\ state' = 0 /\ current_byte' = 0
        /\ fresh' = (column = 1)
    BY <1>3 DEF Call
  <2>2. column = 1 \/ column > 1
    <3>1. lines \in Seq(Lines) /\ line \in 1 .. Len(lines) + 1
      BY DEF IInv, TypeOK
    <3>2. line <= Len(lines) => Len(Text(lines[line])) \in Nat
      BY <3>1, LineChars
    <3> QED BY <3>1, <3>2 DEF IInv, TypeOK
  <2>3. ~ (1 > 1)
    OBVIOUS
  <2> QED BY <2>1, <2>2, <2>3 DEF Counting
<1>4. CASE Wait \/ EndOfLine \/ Full
  <2>1. CASE pc' = "idle"
    BY <2>1 DEF Counting
  <2>2. CASE pc' # "idle"
    <3>1. Wait /\ UNCHANGED <<lines, line, column, pc, state, current_byte, fresh>>
      BY <1>4, <2>2 DEF Wait, EndOfLine, Full, Return
    <3> QED BY <3>1 DEF Counting, ReadingSignal
  <2> QED BY <2>1, <2>2
<1>5. CASE FrameChar
  BY <1>5 DEF FrameChar, Counting
<1>6. CASE SignalChar
  BY <1>6, SignalCharCounting
<1>7. CASE UNCHANGED vars
  BY <1>7 DEF vars, Counting, ReadingSignal
<1> QED BY <1>1, <1>2, <1>3, <1>4, <1>5, <1>6, <1>7 DEF Next, Read

LEMMA CountingInvariance == Spec => [](IInv /\ Counting)
<1>1. Init => Counting
  BY DEF Init, Counting
<1>2. IInv /\ Counting /\ [Next]_vars => IInv' /\ Counting'
  BY NextInv, NextCounting
<1> QED BY <1>1, <1>2, InitInv, PTL DEF Spec

(* What serial_wait_for_signal returns is the number of a signal whose     *)
(* line it read from the start, and 0 in every other case, for every byte. *)
THEOREM SignalIsRight == Spec => SignalRight
<1> DEFINE Returned ==
      ret'.signal = IF fresh /\ ~ GaveUp /\ lines[line].kind = "T"
                    THEN lines[line].data[1] ELSE 0
<1>1. ASSUME IInv, Counting, [Next]_vars, pc = "signal", pc' = "idle"
      PROVE  Returned
  <2>1. Wait \/ EndOfLine \/ Full
    BY <1>1 DEF Next, Read, Write, Call, FrameChar, SignalChar, vars
  <2>2. CASE Wait
    <3>1. GaveUp
      BY <2>2 DEF Wait, GaveUp
    <3>2. ret' = [frame |-> <<>>, signal |-> 0]
      BY <1>1, <2>2 DEF Wait, Return
    <3> QED BY <3>1, <3>2
  <2>3. CASE EndOfLine
    <3>1. Take /\ UNCHANGED lines /\ Chr = LF /\ ret'.signal = current_byte
      BY <1>1, <2>3 DEF EndOfLine, Return
    <3>2. /\ lines[line] \in Lines
          /\ column \in 1 .. Len(Text(lines[line]))
          /\ ~ GaveUp
      BY <1>1, <3>1, Taken DEF IInv, GaveUp
    <3>3. column \in Nat /\ column > 1 /\ lines[line].kind \in {"P", "T"}
      <4>1. Text(lines[line])[1] \in {UpperP, UpperT}
        BY <3>2, LineChars, FrameChars
      <4>2. column # 1
        BY <3>1, <4>1 DEF Chr, LF, UpperP, UpperT
      <4> QED BY <3>2, <4>2, LineChars
    <3>4. CASE fresh /\ lines[line].kind = "T"
      <4> DEFINE n == lines[line].data[1]
      <4>1. n \in Byte /\ SignalText(n)[column] = LF
        BY <3>1, <3>2, <3>4, LineChars DEF Chr
      <4>2. ReadingSignal(n)
        BY <1>1, <3>3, <3>4 DEF Counting
      <4> HIDE DEF n
      <4>3. ASSUME NEW k \in 1 .. DigitCount(n) PROVE SignalText(n)[3 + k] # LF
        <5>1. Digit(n, k) \in 0 .. 9
          BY <4>1, LeadingDigits
        <5> QED BY <4>1, <5>1, SignalLayout, SMTT(30) DEF Zero, LF
      <4>4. SignalText(n)[2] # LF /\ SignalText(n)[3] # LF
        BY <4>1, SignalLayout DEF Colon, Space, LF
      <4>5. DigitCount(n) \in 1 .. 3
        BY <4>1, LeadingDigits
      <4>6. PICK k \in 1 .. DigitCount(n) : column = 4 + k /\ current_byte = Leading(n, k)
        <5>1. 1 \in 1 .. DigitCount(n) /\ 3 + 1 = 4
          BY <4>5
        <5>2. column \notin {2, 3, 4}
          BY <4>1, <4>3, <4>4, <5>1
        <5> QED BY <4>2, <5>2 DEF ReadingSignal
      <4>7. k = DigitCount(n)
        <5>1. CASE k # DigitCount(n)
          <6>1. k + 1 \in 1 .. DigitCount(n) /\ 3 + (k + 1) = 4 + k
            BY <4>5, <5>1
          <6> QED BY <4>1, <4>3, <4>6, <6>1
        <5> QED BY <5>1
      <4>8. current_byte = n
        BY <4>1, <4>6, <4>7, LeadingDigits
      <4> QED BY <3>1, <3>2, <3>4, <4>8 DEF n
    <3>5. CASE ~ (fresh /\ lines[line].kind = "T")
      <4>1. current_byte = 0
        BY <1>1, <3>3, <3>5 DEF Counting
      <4> QED BY <3>1, <3>5, <4>1
    <3> QED BY <3>4, <3>5
  <2>4. CASE Full
    <3>1. /\ ret'.signal = current_byte /\ ~ (current_byte < 26)
          /\ ~ GaveUp
      BY <1>1, <2>4 DEF Full, Return, Running, GaveUp
    <3>2. current_byte # 0
      BY <3>1
    <3>3. lines \in Seq(Lines) /\ line \in 1 .. Len(lines) + 1
      BY <1>1 DEF IInv, TypeOK
    <3>4. fresh /\ column # 1
      BY <1>1, <3>2 DEF Counting
    <3>5. line <= Len(lines) /\ lines[line] \in Lines
      BY <1>1, <3>3, <3>4 DEF IInv, TypeOK
    <3>6. column \in Nat /\ column > 1
      BY <1>1, <3>4, <3>5, LineChars DEF IInv, TypeOK
    <3> DEFINE n == lines[line].data[1]
    <3>7. lines[line].kind = "T" /\ ReadingSignal(n)
      BY <1>1, <3>2, <3>4, <3>5, <3>6, LineChars DEF Counting
    <3>8. n \in Byte
      BY <3>5, <3>7, LineChars
    <3> HIDE DEF n
    <3>9. PICK k \in 1 .. DigitCount(n) : current_byte = Leading(n, k)
      BY <3>2, <3>7 DEF ReadingSignal
    <3>10. k = DigitCount(n)
      <4>1. DigitCount(n) \in 1 .. 3
        BY <3>8, LeadingDigits
      <4>2. CASE k # DigitCount(n)
        <5>1. k \in 0 .. DigitCount(n) - 1
          BY <4>1, <4>2
        <5> QED BY <3>1, <3>8, <3>9, <5>1, LeadingDigits
      <4> QED BY <4>2
    <3>11. current_byte = n
      BY <3>8, <3>9, <3>10, LeadingDigits
    <3> QED BY <3>1, <3>4, <3>7, <3>11 DEF n
  <2> QED BY <2>1, <2>2, <2>3, <2>4
<1>2. IInv /\ Counting /\ [Next]_vars
        => [pc = "signal" /\ pc' = "idle" => Returned]_vars
  BY <1>1
<1> QED BY <1>2, CountingInvariance, PTL DEF Spec, SignalRight
=============================================================================
