------------------------------ MODULE W5500Spi ------------------------------
(***************************************************************************)
(* What the parts of the W5500 driver share: the SPI bus, which a call     *)
(* takes when it starts and releases when it returns, and the 16-bit       *)
(* pointers into the ring memories of the chip.                            *)
(*                                                                         *)
(* There is one thread: pc is "idle" between two calls of the driver, and  *)
(* else names the transfer that comes next.  Every action of the driver is *)
(* one transfer, from its chip select to its release.                      *)
(***************************************************************************)
EXTENDS Integers, Sequences

CONSTANTS
  Base,       \* values of a byte: 256
  RingSize,   \* bytes of a socket's RX or TX memory
  RxFrames,   \* the frames that may arrive
  BufLen,     \* buflen of every call of hw_w5500_recv
  TxFrames,   \* the frames that may be sent
  MaxFrames   \* bound on the number of frames that pass, in both directions

PtrMod == Base * Base   \* pointers and lengths are uint16_t

ASSUME BaseAssumption == Base \in Nat /\ Base > 2
ASSUME RingAssumption ==
  /\ RingSize \in 1 .. PtrMod - 1
  /\ \E turns \in 1 .. PtrMod : RingSize * turns = PtrMod
ASSUME FramesAssumption ==
  /\ \A data \in RxFrames \union TxFrames :
       data \in Seq(0 .. Base - 1) /\ Len(data) > 0
  /\ \A data \in RxFrames : Len(data) + 2 <= RingSize
ASSUME BoundsAssumption == BufLen \in 0 .. PtrMod - 1 /\ MaxFrames \in Nat

VARIABLES
  pc,    \* "idle", or the next transfer of the call
  held   \* spi_start_transaction called more often than spi_stop_transaction

spi == <<pc, held>>

SpiInit == pc = "idle" /\ held = 0

(* Mutant: a return for want of a frame forgets spi_stop_transaction.      *)
TransferKept(from, to) ==
  /\ pc = from /\ pc' = to
  /\ held' = held + (IF from = "idle" THEN 1 ELSE 0)
                  - (IF to = "idle" /\ from # "size" THEN 1 ELSE 0)

(* A transfer: the first of a call comes after spi_start_transaction, and  *)
(* the last before spi_stop_transaction.                                   *)
Transfer(from, to) ==
  /\ pc = from /\ pc' = to
  /\ held' = held + (IF from = "idle" THEN 1 ELSE 0) - (IF to = "idle" THEN 1 ELSE 0)

(* A return that leaves the bus taken.                                     *)
ReturnHolding(from) == pc = from /\ pc' = "idle" /\ UNCHANGED held

(* Mutant: the pointers do not wrap.                                       *)
PlusUnwrapped(pointer, n) == pointer + n

Plus(pointer, n) == (pointer + n) % PtrMod

(* Where frames end that lie one behind the other, each behind prefix      *)
(* bytes of its own, if the memory were endless.                           *)
Behind(frames, prefix) ==
  IF frames = <<>> THEN 0
  ELSE frames[Len(frames)].at + prefix + Len(frames[Len(frames)].data)

(* How far position p of a memory lies behind a pointer, in the ring.      *)
Distance(p, pointer) == (p + RingSize - (pointer % RingSize)) % RingSize

(* The memory with bytes written from a pointer on.                        *)
Stored(memory, pointer, bytes) ==
  [p \in 0 .. RingSize - 1 |->
     IF Distance(p, pointer) < Len(bytes)
     THEN bytes[Distance(p, pointer) + 1] ELSE memory[p]]

(* The n bytes of it that start at a pointer.                              *)
Fetched(memory, pointer, n) ==
  [j \in 1 .. n |-> memory[(pointer + j - 1) % RingSize]]
=============================================================================
