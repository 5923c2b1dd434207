------------------------------ MODULE W5500Tx ------------------------------
(***************************************************************************)
(* Transmission through the W5500: hw_w5500_send puts a frame into the TX  *)
(* memory if the chip has room for it, moves the write pointer, and gives  *)
(* the SEND command.                                                       *)
(*                                                                         *)
(* The chip is external.  Modelled from how the driver uses it: SEND makes *)
(* one frame of what was written since the last SEND, and may be given     *)
(* while earlier frames wait; the chip sends them in order, when it likes, *)
(* and the free size, read one byte after the other, only grows meanwhile. *)
(***************************************************************************)
EXTENDS W5500Spi

VARIABLES
  txring,   \* the TX memory
  sntxwr,   \* register Sn_TX_WR
  sntxrd,   \* register Sn_TX_RD
  ends,     \* where the frames end that wait in the memory
  txlog,    \* history: the frames accepted, each with its position
  sent,     \* history: how many of them were sent
  wire,     \* the frame sent last
  txfsr,    \* locals of hw_w5500_send: the two bytes of the free size,
  txwr,     \*   the write pointer,
  frame     \*   the caller's buffer

txChip == <<txring, sntxwr, sntxrd, ends, txlog, sent, wire>>
txVars == <<txChip, txfsr, txwr, frame>>

TxInit ==
  /\ txring = [p \in 0 .. RingSize - 1 |-> 0]
  /\ sntxwr = 0 /\ sntxrd = 0 /\ ends = <<>>
  /\ txlog = <<>> /\ sent = 0 /\ wire = <<>>
  /\ txfsr = <<0, 0>> /\ txwr = 0 /\ frame = <<>>

-----------------------------------------------------------------------------
(* The chip.                                                               *)

Waiting(end) == (PtrMod + end - sntxrd) % PtrMod

(* Sn_TX_FSR.                                                              *)
FreeSize == RingSize - (IF ends = <<>> THEN 0 ELSE Waiting(ends[Len(ends)]))

Transmit ==
  /\ ends # <<>>
  /\ wire' = Fetched(txring, sntxrd, Waiting(Head(ends)))
  /\ sntxrd' = Head(ends)
  /\ ends' = Tail(ends)
  /\ sent' = sent + 1
  /\ UNCHANGED <<spi, txring, sntxwr, txlog, txfsr, txwr, frame>>

-----------------------------------------------------------------------------
(* hw_w5500_send.                                                          *)

ReadFreeHigh(data) ==
  /\ Transfer("idle", "free")
  /\ txfsr' = <<FreeSize \div Base, 0>>
  /\ frame' = data
  /\ UNCHANGED <<txChip, txwr>>

(* Mutant: the two bytes are not counted.                                  *)
NoRoomBare == Base * txfsr'[1] + txfsr'[2] < Len(frame)

(* Mutant: two bytes more than are checked for.                            *)
NoRoomStrict == Base * txfsr'[1] + txfsr'[2] <= Len(frame) + 2

(* The two bytes of length it counts are not written any more.             *)
NoRoom == Base * txfsr'[1] + txfsr'[2] < Len(frame) + 2

(* Returns 0 if there is no room.                                          *)
ReadFreeLow ==
  /\ txfsr' = [txfsr EXCEPT ![2] = FreeSize % Base]
  /\ Transfer("free", IF NoRoom THEN "idle" ELSE "txpointer")
  /\ UNCHANGED <<txChip, txwr, frame>>

ReadWritePointer ==
  /\ Transfer("txpointer", "txframe")
  /\ txwr' = sntxwr
  /\ UNCHANGED <<txChip, txfsr, frame>>

WriteFrame ==
  /\ Transfer("txframe", "txupdate")
  /\ txring' = Stored(txring, txwr, frame)
  /\ UNCHANGED <<sntxwr, sntxrd, ends, txlog, sent, wire, txfsr, txwr, frame>>

(* Mutant: the length of a prefix that is not written is added.            *)
BehindPrefix == Plus(txwr, Len(frame) + 2)

BehindFrame == Plus(txwr, Len(frame))

UpdateWritePointer ==
  /\ Transfer("txupdate", "txcommand")
  /\ sntxwr' = BehindFrame
  /\ UNCHANGED <<txring, sntxrd, ends, txlog, sent, wire, txfsr, txwr, frame>>

(* The SEND command, and the return.                                       *)
CommandSend ==
  /\ Transfer("txcommand", "idle")
  /\ ends' = Append(ends, sntxwr)
  /\ txlog' = Append(txlog, [at |-> Behind(txlog, 0), data |-> frame])
  /\ UNCHANGED <<txring, sntxwr, sntxrd, sent, wire, txfsr, txwr, frame>>

Send ==
  \/ \E data \in TxFrames : ReadFreeHigh(data)
  \/ ReadFreeLow
  \/ ReadWritePointer
  \/ WriteFrame
  \/ UpdateWritePointer
  \/ CommandSend

-----------------------------------------------------------------------------
TxSteps == {"free", "txpointer", "txframe", "txupdate", "txcommand"}

TxTypeOK ==
  /\ txring \in [0 .. RingSize - 1 -> 0 .. Base - 1]
  /\ sntxwr \in 0 .. PtrMod - 1 /\ sntxrd \in 0 .. PtrMod - 1
  /\ txwr \in 0 .. PtrMod - 1
  /\ ends \in Seq(0 .. PtrMod - 1)
  /\ txlog \in Seq([at : Nat, data : TxFrames]) /\ sent \in Nat
  /\ wire \in Seq(0 .. Base - 1)
  /\ txfsr \in Seq(0 .. Base - 1) /\ Len(txfsr) = 2
  /\ frame \in TxFrames \union {<<>>}

(* Once past its check, hw_w5500_send has the room it asked for, although  *)
(* the chip goes on sending while the size is read: the comment that there *)
(* is no need to read it reliably holds.                                   *)
RoomThere == pc \in TxSteps \ {"free"} => FreeSize >= Len(frame) + 2

(* What the check may get wrong is to refuse: a frame that there is room   *)
(* for, only if the high byte of the free size changed between the reads.  *)
RefusedRightly ==
  [][pc = "free" /\ pc' = "idle" /\ FreeSize >= Len(frame) + 2
       => FreeSize \div Base # txfsr[1]]_<<spi, txVars>>

(* Every frame accepted goes out whole, once and in order: none overwrites *)
(* another that still waits in the memory.                                 *)
Sending == INSTANCE FrameQueue
             WITH Payloads <- TxFrames, log <- [i \in DOMAIN txlog |-> txlog[i].data],
                  taken <- sent, out <- wire
SentInOrder == Sending!Spec

(* A caller that tries again is not refused for ever.                      *)
RefusedFinitely == <>[][~ (pc = "free" /\ pc' = "idle")]_<<spi, txVars>>
=============================================================================
