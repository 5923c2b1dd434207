------------------------------ MODULE W5500Rx ------------------------------
(***************************************************************************)
(* Reception through the W5500: the chip puts the frames it receives into  *)
(* a ring memory, each behind two bytes of length, while hw_w5500_recv     *)
(* fetches them.                                                           *)
(*                                                                         *)
(* The driver never sees an index of the ring: it computes with 16-bit     *)
(* pointers, which wrap around at PtrMod and which the chip reduces to the *)
(* size of its memory.  The history variables log and taken, and the       *)
(* positions in log, count without wrapping.                               *)
(*                                                                         *)
(* The chip is external.  Modelled from how the driver uses it: the two    *)
(* bytes of the size are read one after the other and may belong to two    *)
(* values; a frame is stored at once, or dropped when there is no room;    *)
(* the RECV command takes effect before the next register is read.         *)
(***************************************************************************)
EXTENDS W5500Spi

VARIABLES
  ring,          \* the RX memory
  wr,            \* where the chip stores next
  rd,            \* how far the memory is released
  snrxrd,        \* register Sn_RX_RD
  log,           \* history: the frames stored, each with its position
  taken,         \* history: how many of them were released by RECV
  rxrsr,         \* locals of hw_w5500_recv: the two bytes of the size register,
  rxrd,          \*   the read pointer,
  frame_length,  \*   the length of the frame
  buffer,        \* what was copied to the caller
  out            \* the frame returned last

rxChip == <<ring, wr, rd, snrxrd, log, taken>>
rxVars == <<rxChip, rxrsr, rxrd, frame_length, buffer, out>>

RxInit ==
  /\ ring = [p \in 0 .. RingSize - 1 |-> 0]
  /\ wr = 0 /\ rd = 0 /\ snrxrd = 0
  /\ log = <<>> /\ taken = 0
  /\ rxrsr = <<0, 0>> /\ rxrd = 0 /\ frame_length = 0
  /\ buffer = <<>> /\ out = <<>>

-----------------------------------------------------------------------------
(* The chip.                                                               *)

(* Sn_RX_RSR.                                                              *)
ReceivedSize == (PtrMod + wr - rd) % PtrMod

(* A frame as it lies in the memory: its length counts the two bytes.      *)
Image(data) ==
  <<(Len(data) + 2) \div Base, (Len(data) + 2) % Base>> \o data

Arrive(data) ==
  /\ ReceivedSize + Len(data) + 2 <= RingSize
  /\ ring' = Stored(ring, wr, Image(data))
  /\ wr' = Plus(wr, Len(data) + 2)
  /\ log' = Append(log, [at |-> Behind(log, 2), data |-> data])
  /\ UNCHANGED <<spi, rd, snrxrd, taken, rxrsr, rxrd, frame_length, buffer, out>>

-----------------------------------------------------------------------------
(* hw_w5500_recv.                                                          *)

ReadSizeHigh ==
  /\ Transfer("idle", "size")
  /\ rxrsr' = <<ReceivedSize \div Base, 0>>
  /\ UNCHANGED <<rxChip, rxrd, frame_length, buffer, out>>

(* Mutant: the early return is forgotten.                                  *)
SizeTooSmallNever == FALSE

(* There are not even the two bytes of a length.                           *)
SizeTooSmall == rxrsr'[1] = 0 /\ rxrsr'[2] < 2

(* Returns 0 unless there is something.                                    *)
ReadSizeLow ==
  /\ rxrsr' = [rxrsr EXCEPT ![2] = ReceivedSize % Base]
  /\ Transfer("size", IF SizeTooSmall THEN "idle" ELSE "pointer")
  /\ UNCHANGED <<rxChip, rxrd, frame_length, buffer, out>>

ReadPointer ==
  /\ Transfer("pointer", "length")
  /\ rxrd' = snrxrd
  /\ UNCHANGED <<rxChip, rxrsr, frame_length, buffer, out>>

(* Mutant: a frame that just fits is taken for one that does not.          *)
TooLongStrict(n) == n >= BufLen

TooLong(n) == n > BufLen

(* Mutant: a frame that does not fit is skipped.                           *)
AfterLengthSkipping(n) == IF TooLong(n) THEN "update" ELSE "frame"

(* A frame that does not fit is left where it is.                          *)
AfterLength(n) == IF TooLong(n) THEN "idle" ELSE "frame"

ReadLength ==
  /\ frame_length' = LET bytes == Fetched(ring, rxrd, 2)
                     IN  (PtrMod + Base * bytes[1] + bytes[2] - 2) % PtrMod
  /\ buffer' = <<>>
  /\ Transfer("length", AfterLength(frame_length'))
  /\ UNCHANGED <<rxChip, rxrsr, rxrd, out>>

(* Mutant: the frame is read from where its length is.                     *)
FrameAtLength == rxrd

FrameAt == Plus(rxrd, 2)

ReadFrame ==
  /\ Transfer("frame", "update")
  /\ buffer' = Fetched(ring, FrameAt, frame_length)
  /\ UNCHANGED <<rxChip, rxrsr, rxrd, frame_length, out>>

PastFrame == Plus(rxrd, 2 + frame_length)

WritePointer ==
  /\ Transfer("update", "command")
  /\ snrxrd' = PastFrame
  /\ UNCHANGED <<ring, wr, rd, log, taken, rxrsr, rxrd, frame_length, buffer, out>>

(* The RECV command, and the return.                                       *)
CommandRecv ==
  /\ Transfer("command", "idle")
  /\ rd' = snrxrd
  /\ taken' = taken + 1
  /\ out' = buffer
  /\ UNCHANGED <<ring, wr, snrxrd, log, rxrsr, rxrd, frame_length, buffer>>

Recv ==
  \/ ReadSizeHigh
  \/ ReadSizeLow
  \/ ReadPointer
  \/ ReadLength
  \/ ReadFrame
  \/ WritePointer
  \/ CommandRecv

-----------------------------------------------------------------------------
RxSteps == {"size", "pointer", "length", "frame", "update", "command"}

RxTypeOK ==
  /\ ring \in [0 .. RingSize - 1 -> 0 .. Base - 1]
  /\ wr \in 0 .. PtrMod - 1 /\ rd \in 0 .. PtrMod - 1
  /\ snrxrd \in 0 .. PtrMod - 1 /\ rxrd \in 0 .. PtrMod - 1
  /\ log \in Seq([at : Nat, data : RxFrames])
  /\ taken \in Nat
  /\ rxrsr \in Seq(0 .. Base - 1) /\ Len(rxrsr) = 2
  /\ frame_length \in 0 .. PtrMod - 1
  /\ buffer \in Seq(0 .. Base - 1)
  /\ out \in Seq(0 .. Base - 1)

(* Once past its check of the size, hw_w5500_recv has a whole frame before *)
(* it, although the two bytes it checked may come from two values of the   *)
(* register: the comment that there is no need to read it reliably holds.  *)
FramePresent == pc \in RxSteps \ {"size"} => taken < Len(log)

(* The frames are handed over whole, once each and in order, through a     *)
(* memory and pointers that wrap around.                                   *)
Received == INSTANCE FrameQueue
              WITH Payloads <- RxFrames, log <- [i \in DOMAIN log |-> log[i].data]
InOrder == Received!Spec

(* A frame is handed over in the end if it and every frame before it fit   *)
(* the buffer.                                                             *)
EachTaken ==
  \A n \in 1 .. MaxFrames :
    (Len(log) >= n /\ \A i \in 1 .. n : Len(log[i].data) <= BufLen) ~> taken >= n

(* A frame that does not fit the buffer is never removed: reception is     *)
(* stuck behind it for good, for every later call with the same buffer.    *)
HeadTooLong == taken < Len(log) /\ Len(log[taken + 1].data) > BufLen
StuckBehindTooLong == [][HeadTooLong => UNCHANGED <<taken, out>>]_<<taken, out>>
=============================================================================
