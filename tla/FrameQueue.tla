----------------------------- MODULE FrameQueue -----------------------------
(***************************************************************************)
(* What a network interface promises to the layer above it: the frames it  *)
(* has accepted are handed over whole, once each and in order.  Nothing is *)
(* said of the frames it refuses.                                          *)
(***************************************************************************)
EXTENDS Naturals, Sequences

CONSTANT Payloads   \* the frames

VARIABLES
  log,     \* every frame accepted so far, oldest first
  taken,   \* how many of them have been handed over
  out      \* the frame handed over last

vars == <<log, taken, out>>

Init == log = <<>> /\ taken = 0 /\ out = <<>>

Accept(data) == log' = Append(log, data) /\ UNCHANGED <<taken, out>>

HandOver ==
  /\ taken < Len(log)
  /\ taken' = taken + 1
  /\ out' = log[taken + 1]
  /\ UNCHANGED log

Next == HandOver \/ \E data \in Payloads : Accept(data)

Spec == Init /\ [][Next]_vars
=============================================================================
