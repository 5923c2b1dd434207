----------------------------- MODULE SerialLine -----------------------------
(***************************************************************************)
(* The serial port of platform.cpp: frames and test signals travel as      *)
(* lines of text, "P: " and hexadecimal digits, or "T: " and a decimal     *)
(* number.  A call reads one character after the other and gives up when   *)
(* it has waited too long; the rest of the line is then read by a later    *)
(* call, which need not be a call of the same function.                    *)
(*                                                                         *)
(* Whoever writes to the port (tester.py, or another board) writes whole   *)
(* lines, in the format of serial_write and serial_signal.  Characters     *)
(* arrive in order and none is lost, at any speed: at every poll the next  *)
(* one may be there or not.  Characters are their codes.                   *)
(***************************************************************************)
EXTENDS Integers, Sequences

CONSTANTS
  Datas,     \* the frames that may be written
  Signals,   \* the numbers given to serial_signal
  BufLen,    \* buflen of every call of serial_read
  Timeout,   \* PACKET_TIMEOUT, and timeout of serial_wait_for_signal
  MaxLines   \* bound on the number of lines written

Byte == 0 .. 255

ASSUME DatasAssumption == \A data \in Datas : data \in Seq(Byte)
ASSUME SignalsAssumption == Signals \subseteq Byte
ASSUME BoundsAssumption ==
  BufLen \in Nat \ {0} /\ Timeout \in Nat \ {0} /\ MaxLines \in Nat

LF == 10
Space == 32
Zero == 48
Colon == 58
UpperA == 65
UpperP == 80
UpperT == 84

VARIABLES
  lines,         \* the lines written so far
  line, column,  \* where the next character to be read is
  pc,            \* "idle", "frame" (serial_read) or "signal"
  state,         \* local to the call: what was matched of the line,
  current_byte,  \*   the byte or number being put together,
  buffer,        \*   the bytes stored so far,
  elapsed,       \*   how long it has waited
  fresh,         \* history: the call started at the start of a line
  ret            \* what the last call returned; a frame, or a number

vars == <<lines, line, column, pc, state, current_byte, buffer, elapsed, fresh, ret>>

Init ==
  /\ lines = <<>> /\ line = 1 /\ column = 1
  /\ pc = "idle" /\ state = 0 /\ current_byte = 0 /\ buffer = <<>> /\ elapsed = 0
  /\ fresh = TRUE
  /\ ret = [frame |-> <<>>, signal |-> 0]

-----------------------------------------------------------------------------
(* Writing.                                                                *)

HexDigit(n) == IF n < 10 THEN Zero + n ELSE UpperA + n - 10

(* Serial.print of a byte.                                                 *)
Decimal(n) ==
  (IF n >= 100 THEN <<Zero + (n \div 100)>> ELSE <<>>)
  \o (IF n >= 10 THEN <<Zero + ((n \div 10) % 10)>> ELSE <<>>)
  \o <<Zero + (n % 10)>>

(* serial_write: two digits for a byte, the high one first.                *)
FrameText(data) ==
  [c \in 1 .. 2 * Len(data) + 4 |->
     IF c <= 3 THEN <<UpperP, Colon, Space>>[c]
     ELSE IF c = 2 * Len(data) + 4 THEN LF
     ELSE LET byte == data[(c - 2) \div 2]
          IN  HexDigit(IF c % 2 = 0 THEN byte \div 16 ELSE byte % 16)]

(* serial_signal.                                                          *)
SignalText(n) == <<UpperT, Colon, Space>> \o Decimal(n) \o <<LF>>

Text(l) == IF l.kind = "P" THEN FrameText(l.data) ELSE SignalText(l.data[1])

(* A frame, or a signal of one byte.                                       *)
Lines == [kind : {"P"}, data : Datas] \union [kind : {"T"}, data : {<<n>> : n \in Signals}]

Write(l) ==
  /\ Len(lines) < MaxLines
  /\ lines' = Append(lines, l)
  /\ UNCHANGED <<line, column, pc, state, current_byte, buffer, elapsed, fresh, ret>>

-----------------------------------------------------------------------------
(* Reading.                                                                *)

Call(function) ==
  /\ pc = "idle"
  /\ pc' = function
  /\ state' = 0 /\ current_byte' = 0 /\ buffer' = <<>> /\ elapsed' = 0
  /\ fresh' = (column = 1)
  /\ UNCHANGED <<lines, line, column, ret>>

(* The conditions of the two loops: room for a byte, and a number that     *)
(* another digit does not take past 259.                                   *)
Running == \/ pc = "frame" /\ Len(buffer) < BufLen
           \/ pc = "signal" /\ current_byte < 26

Return(frame, signal) ==
  /\ pc' = "idle"
  /\ ret' = [frame |-> frame, signal |-> signal]
  /\ UNCHANGED <<lines, state, current_byte, buffer, elapsed, fresh>>

(* Mutant: a call that gives up returns what it has.                       *)
WaitReturningPart ==
  /\ Running
  /\ IF elapsed + 1 < Timeout
     THEN /\ elapsed' = elapsed + 1
          /\ UNCHANGED <<lines, pc, state, current_byte, buffer, fresh, ret>>
     ELSE Return(buffer, current_byte)
  /\ UNCHANGED <<line, column>>

(* Mutant: it waits once more.                                             *)
WaitOnceMore ==
  /\ Running
  /\ IF elapsed < Timeout
     THEN /\ elapsed' = elapsed + 1
          /\ UNCHANGED <<lines, pc, state, current_byte, buffer, fresh, ret>>
     ELSE Return(<<>>, 0)
  /\ UNCHANGED <<line, column>>

(* Mutant: the wait is not counted.                                        *)
WaitForever ==
  /\ Running
  /\ IF elapsed < Timeout
     THEN UNCHANGED <<lines, pc, state, current_byte, buffer, elapsed, fresh, ret>>
     ELSE Return(<<>>, 0)
  /\ UNCHANGED <<line, column>>

(* No character is there: delay, and give up in the end.                   *)
Wait ==
  /\ Running
  /\ IF elapsed + 1 < Timeout
     THEN /\ elapsed' = elapsed + 1
          /\ UNCHANGED <<lines, pc, state, current_byte, buffer, fresh, ret>>
     ELSE Return(<<>>, 0)
  /\ UNCHANGED <<line, column>>

(* The next character, chr of the code, is there and is taken.             *)
Chr == Text(lines[line])[column]

Take ==
  /\ line <= Len(lines)
  /\ IF column < Len(Text(lines[line]))
     THEN column' = column + 1 /\ line' = line
     ELSE column' = 1 /\ line' = line + 1

EndOfLine ==
  /\ Running
  /\ Take /\ Chr = LF
  /\ IF pc = "frame" THEN Return(buffer, 0) ELSE Return(<<>>, current_byte)

IsDecimal(c) == c \in Zero .. Zero + 9
IsHex(c) == IsDecimal(c) \/ c \in UpperA .. UpperA + 5
Value(c) == IF IsDecimal(c) THEN c - Zero ELSE c - UpperA + 10

(* In either function 255 skips the rest of the line.                      *)
FrameState(c) ==
  CASE state = 0 /\ c = UpperP -> 1
    [] state = 1 /\ c = Colon -> 2
    [] state = 2 /\ c = Space -> 2
    [] state \in {2, 4} /\ IsHex(c) -> 3
    [] state = 3 /\ IsHex(c) -> 4
    [] OTHER -> 255

SignalState(c) ==
  CASE state = 0 /\ c = UpperT -> 1
    [] state = 1 /\ c = Colon -> 2
    [] state = 2 /\ c = Space -> 2
    [] state \in {2, 3} /\ IsDecimal(c) -> 3
    [] OTHER -> 255

(* The first digit of a byte, and the second, which stores it.             *)
FrameChar ==
  /\ Running /\ pc = "frame"
  /\ Take /\ Chr # LF
  /\ state' = FrameState(Chr)
  /\ current_byte' = CASE state' = 3 -> 16 * Value(Chr)
                       [] state' = 4 -> current_byte + Value(Chr)
                       [] OTHER -> current_byte
  /\ buffer' = IF state' = 4 THEN Append(buffer, current_byte') ELSE buffer
  /\ UNCHANGED <<lines, pc, elapsed, fresh, ret>>

(* Mutant: a first digit over an earlier one.                              *)
SignalCharLast ==
  /\ Running /\ pc = "signal"
  /\ Take /\ Chr # LF
  /\ state' = SignalState(Chr)
  /\ current_byte' = IF state' = 3 THEN Value(Chr) ELSE current_byte
  /\ UNCHANGED <<lines, pc, buffer, elapsed, fresh, ret>>

(* current_byte is a uint8_t.                                              *)
SignalChar ==
  /\ Running /\ pc = "signal"
  /\ Take /\ Chr # LF
  /\ state' = SignalState(Chr)
  /\ current_byte' = IF state' = 3 THEN (10 * current_byte + Value(Chr)) % 256
                                   ELSE current_byte
  /\ UNCHANGED <<lines, pc, buffer, elapsed, fresh, ret>>

(* The loop ends before the line does, the end of the line is left.        *)
Full ==
  /\ pc # "idle" /\ ~ Running
  /\ IF pc = "frame" THEN Return(buffer, 0) ELSE Return(<<>>, current_byte)
  /\ UNCHANGED <<line, column>>

Read ==
  \/ Wait
  \/ EndOfLine
  \/ FrameChar
  \/ SignalChar
  \/ Full

Next ==
  \/ \E l \in Lines : Write(l)
  \/ Call("frame")
  \/ Call("signal")
  \/ Read

(* A call, once made, runs on.                                             *)
Spec == Init /\ [][Next]_vars /\ WF_vars(Read)

-----------------------------------------------------------------------------
TypeOK ==
  /\ lines \in Seq(Lines)
  /\ line \in 1 .. Len(lines) + 1
  /\ line <= Len(lines) => column \in 1 .. Len(Text(lines[line]))
  /\ line > Len(lines) => column = 1
  /\ pc \in {"idle", "frame", "signal"}
  /\ state \in 0 .. 4 \union {255}
  /\ current_byte \in Byte
  /\ buffer \in Seq(Byte) /\ Len(buffer) <= BufLen
  /\ elapsed \in 0 .. Timeout - 1
  /\ fresh \in BOOLEAN
  /\ ret \in [frame : Seq(Byte), signal : Byte]

(* The call gave up: it returned without a character, yet not full.        *)
GaveUp == Running /\ UNCHANGED <<line, column>>

FirstBytes(data) == IF Len(data) <= BufLen THEN data ELSE SubSeq(data, 1, BufLen)

(* serial_read returns a frame exactly when it read its line from the      *)
(* first character on, the first BufLen bytes of it; what is left of a     *)
(* line by a call that gave up, that was full or that waited for a signal  *)
(* is never taken for a frame, nor does it spoil the next one.             *)
FrameRight ==
  [][pc = "frame" /\ pc' = "idle" =>
       ret'.frame = IF fresh /\ ~ GaveUp /\ lines[line].kind = "P"
                    THEN FirstBytes(lines[line].data) ELSE <<>>]_vars

(* serial_wait_for_signal returns the number of a signal, for every byte,  *)
(* exactly when it read its line from the first character on; 0 otherwise. *)
SignalRight ==
  [][pc = "signal" /\ pc' = "idle" =>
       ret'.signal = IF fresh /\ ~ GaveUp /\ lines[line].kind = "T"
                     THEN lines[line].data[1] ELSE 0]_vars

(* A call returns, although nobody may write, or a line may stop midway.   *)
CallReturns == pc # "idle" ~> pc = "idle"
=============================================================================
