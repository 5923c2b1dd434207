------------------------------- MODULE W5500 -------------------------------
(***************************************************************************)
(* The W5500 driver and its chip: reception, transmission and              *)
(* configuration over one SPI bus, called by one thread.                   *)
(***************************************************************************)
EXTENDS W5500Rx, W5500Tx, W5500Ctl

vars == <<spi, rxVars, txVars, ctlVars>>

Init == SpiInit /\ RxInit /\ TxInit /\ CtlInit

Passed == Len(log) + Len(txlog)

(* The application configures the chip before it receives or sends, as the *)
(* samples do.  Bound: what passes is looked at in one configuration, for  *)
(* the registers of configuration play no part in it.                      *)
Fresh == Passed = 0 /\ pc \notin RxSteps \union TxSteps
Ready ==
  /\ chip = [resets |-> FALSE, phy |-> "all", link |-> "100FD", mac |-> given,
             sock |-> "MACRAW"]
  /\ app = [speed |-> "100FD", opened |-> TRUE, mac |-> given]
  /\ given # NoMac /\ asked.speed = "100FD" /\ pc \notin CtlSteps /\ lost = 0

ReceiveStep ==
  /\ Recv /\ (pc = "idle" => Ready)
  /\ UNCHANGED <<txVars, ctlVars>>

SendStep ==
  /\ Send /\ (pc = "idle" => Ready /\ Passed < MaxFrames)
  /\ UNCHANGED <<rxVars, ctlVars>>

ArriveStep ==
  /\ Ready /\ Passed < MaxFrames /\ \E data \in RxFrames : Arrive(data)
  /\ UNCHANGED <<txVars, ctlVars>>

TransmitStep == Transmit /\ UNCHANGED <<rxVars, ctlVars>>

ConfigureStep ==
  /\ Fresh /\ (Configure \/ Configuring)
  /\ UNCHANGED <<rxVars, txVars>>

ChipStep == Fresh /\ ChipChanges /\ UNCHANGED <<rxVars, txVars>>

Next ==
  \/ ReceiveStep
  \/ SendStep
  \/ ArriveStep
  \/ TransmitStep
  \/ ConfigureStep
  \/ ChipStep

Spec == Init /\ [][Next]_vars

(* A call, once made, runs on; the application receives again and again;   *)
(* the chip sends what waits.                                              *)
FairSpec ==
  /\ Spec
  /\ WF_vars(pc # "idle" /\ (ReceiveStep \/ SendStep \/ ConfigureStep))
  /\ SF_vars(pc = "idle" /\ ReceiveStep)
  /\ WF_vars(TransmitStep)

TypeOK ==
  /\ pc \in {"idle"} \union RxSteps \union TxSteps \union CtlSteps
  /\ held \in Nat
  /\ RxTypeOK /\ TxTypeOK /\ CtlTypeOK

(* Every call of the driver returns: its waits end.                        *)
CallReturns == pc # "idle" ~> pc = "idle"
=============================================================================
