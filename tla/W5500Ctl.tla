------------------------------ MODULE W5500Ctl ------------------------------
(***************************************************************************)
(* Configuration of the W5500: reset, PHY, MAC address, and opening the    *)
(* socket.                                                                 *)
(*                                                                         *)
(* Three calls wait for a register.  _hw_w5500_spi_wait passes the array   *)
(* of its command to spi_write at every turn, and SPI.transfer leaves in   *)
(* it what came back: only the first turn reads the register that is asked *)
(* for.  What a later turn reads may be anything.                          *)
(*                                                                         *)
(* The chip is external: it completes a reset, opens a socket, and brings  *)
(* the link up or down, when it likes.                                     *)
(***************************************************************************)
EXTENDS W5500Spi

CONSTANTS
  Macs,       \* MAC addresses the application sets
  Timeout,    \* turns of _hw_w5500_spi_wait
  MaxLost     \* bound on the calls that leave the bus taken

NoMac == "00:00:00:00:00:00"
Overwritten == "what came back"

(* HW_SPEED_*, and a number that is none of them.                          *)
LinkSpeeds == {"10HD", "10FD", "100HD", "100FD"}
Speeds == LinkSpeeds \union {"NONE", "OTHER"}
Requests == [up : BOOLEAN, autoneg : BOOLEAN, speed : Speeds]

ASSUME CtlAssumption == Timeout \in Nat \ {0} /\ MaxLost \in Nat

VARIABLES
  chip,   \* registers: MR (resets), PHYCFGR (phy: "reset" or the mode it is in;
          \*   link: its speed, or "NONE"), SHAR (mac), Sn_SR (sock)
  turns,  \* local of _hw_w5500_spi_wait: the turns made
  app,    \* what the application has: the speed that was reported, "NONE" if not
          \*   up, what hw_w5500_open returned, the array with its MAC address
  asked,  \* history: the arguments of the last hw_w5500_set_phycfg
  given,  \* history: the MAC address set since the last reset
  lost    \* history: the number of calls that left the bus taken

ctlVars == <<chip, turns, app, asked, given, lost>>

PowerUp == [resets |-> FALSE, phy |-> "pins", link |-> "NONE", mac |-> NoMac,
            sock |-> "closed"]
NotAsked == [up |-> TRUE, autoneg |-> TRUE, speed |-> "NONE"]

CtlInit ==
  /\ chip = PowerUp /\ turns = 0
  /\ \E mac \in Macs : app = [speed |-> "NONE", opened |-> FALSE, mac |-> mac]
  /\ asked = NotAsked /\ given = NoMac /\ lost = 0

-----------------------------------------------------------------------------
(* The chip.                                                               *)

(* The speeds a PHY in a mode may come to.                                 *)
Reachable(phy) ==
  CASE phy \in LinkSpeeds        -> {phy}
    [] phy = "100HD_AN"          -> {"100HD"}
    [] phy \in {"all", "pins"}   -> LinkSpeeds
    [] phy \in {"reset", "down"} -> {}

ChipChanges ==
  /\ \/ chip.resets /\ chip' = [chip EXCEPT !.resets = FALSE]
     \/ chip.sock = "opening" /\ chip' = [chip EXCEPT !.sock = "MACRAW"]
     \/ \E speed \in Reachable(chip.phy) \union {"NONE"} :
          chip' = [chip EXCEPT !.link = speed]
  /\ UNCHANGED <<spi, turns, app, asked, given, lost>>

-----------------------------------------------------------------------------
(* _hw_w5500_spi_wait.                                                     *)

(* What a turn may see.                                                    *)
Seen(reached) == IF turns = 0 THEN {reached} ELSE BOOLEAN

Over(seen) == seen \/ turns + 1 = Timeout

(* Mutant: the turns are not counted.                                      *)
WaitTurnUncounted(step, seen, next) ==
  Transfer(step, IF seen THEN next ELSE step) /\ turns' = 0

(* One turn of it, in the call whose next transfer is given.               *)
WaitTurn(step, seen, next) ==
  /\ Transfer(step, IF Over(seen) THEN next ELSE step)
  /\ turns' = IF Over(seen) THEN 0 ELSE turns + 1

-----------------------------------------------------------------------------
(* hw_w5500_init.                                                          *)

ResetChip ==
  /\ Transfer("idle", "mr")
  /\ chip' = [PowerUp EXCEPT !.resets = TRUE]
  /\ asked' = NotAsked /\ given' = NoMac
  /\ UNCHANGED <<turns, app, lost>>

WaitReset ==
  /\ \E seen \in Seen(~ chip.resets) : WaitTurn("mr", seen, "mode")
  /\ UNCHANGED <<chip, app, asked, given, lost>>

WriteMode == Transfer("mode", "idle") /\ UNCHANGED ctlVars

-----------------------------------------------------------------------------
(* hw_w5500_set_phycfg.                                                    *)

(* Mutant: a speed without a mode of its own is left to negotiation.       *)
ModeDefault(r) ==
  CASE ~ r.up -> "down"
    [] r.up /\ r.autoneg -> IF r.speed = "100HD" THEN "100HD_AN" ELSE "all"
    [] OTHER -> IF r.speed \in LinkSpeeds THEN r.speed ELSE "down"

(* The mode it sets, "unknown" where it returns instead.                   *)
Mode(r) ==
  CASE ~ r.up -> "down"
    [] r.up /\ r.autoneg /\ r.speed = "100HD" -> "100HD_AN"
    [] r.up /\ r.autoneg /\ r.speed \in {"100FD", "NONE"} -> "all"
    [] r.up /\ ~ r.autoneg /\ r.speed = "NONE" -> "down"
    [] r.up /\ ~ r.autoneg /\ r.speed \in LinkSpeeds -> r.speed
    [] OTHER -> "unknown"

ResetPhy(request) ==
  /\ lost < MaxLost \/ Mode(request) # "unknown"
  /\ Transfer("idle", "phy")
  /\ chip' = [chip EXCEPT !.phy = "reset", !.link = "NONE"]
  /\ asked' = request
  /\ UNCHANGED <<turns, app, given, lost>>

(* Whether the PHY leaves its reset by itself is up to the chip.           *)
WaitPhy ==
  /\ \E reached \in BOOLEAN : \E seen \in Seen(reached) :
       IF Over(seen) /\ Mode(asked) = "unknown"
       THEN /\ ReturnHolding("phy") /\ turns' = 0 /\ lost' = lost + 1
       ELSE WaitTurn("phy", seen, "phycfg") /\ UNCHANGED lost
  /\ UNCHANGED <<chip, app, asked, given>>

WritePhycfg ==
  /\ Transfer("phycfg", "idle")
  /\ chip' = [chip EXCEPT !.phy = Mode(asked)]
  /\ UNCHANGED <<turns, app, asked, given, lost>>

-----------------------------------------------------------------------------
(* hw_w5500_get_phycfg, and the MAC address.                               *)

(* 100 Mbps half duplex is taken for full.                                 *)
ReadPhycfg ==
  /\ Transfer("idle", "idle")
  /\ app' = [app EXCEPT !.speed = IF chip.link = "100HD" THEN "100FD" ELSE chip.link]
  /\ UNCHANGED <<chip, turns, asked, given, lost>>

(* Mutant: the application's array is sent, not a copy.                    *)
SetMacUncopied(mac) ==
  /\ Transfer("idle", "idle")
  /\ chip' = [chip EXCEPT !.mac = mac]
  /\ app' = [app EXCEPT !.mac = Overwritten]
  /\ given' = mac
  /\ UNCHANGED <<turns, asked, lost>>

SetMac(mac) ==
  /\ Transfer("idle", "idle")
  /\ chip' = [chip EXCEPT !.mac = mac]
  /\ app' = [app EXCEPT !.mac = mac]
  /\ given' = mac
  /\ UNCHANGED <<turns, asked, lost>>

GetMac ==
  /\ Transfer("idle", "idle")
  /\ app' = [app EXCEPT !.mac = chip.mac]
  /\ UNCHANGED <<chip, turns, asked, given, lost>>

-----------------------------------------------------------------------------
(* hw_w5500_open.                                                          *)

SetMacraw == Transfer("idle", "open") /\ UNCHANGED ctlVars

CommandOpen ==
  /\ Transfer("open", "status")
  /\ chip' = [chip EXCEPT !.sock = "opening"]
  /\ UNCHANGED <<turns, app, asked, given, lost>>

(* The status is what the wait returns.                                    *)
WaitOpen ==
  /\ \E seen \in Seen(chip.sock = "MACRAW") :
       /\ WaitTurn("status", seen, "idle")
       /\ app' = [app EXCEPT !.opened = IF Over(seen) THEN seen ELSE @]
  /\ UNCHANGED <<chip, asked, given, lost>>

(* The calls of the application; hw_w5500_read_version changes nothing.    *)
Configure ==
  \/ ResetChip
  \/ \E request \in Requests : ResetPhy(request)
  \/ ReadPhycfg
  \/ \E mac \in Macs : SetMac(mac)
  \/ GetMac
  \/ SetMacraw

Configuring ==
  \/ WaitReset
  \/ WriteMode
  \/ WaitPhy
  \/ WritePhycfg
  \/ CommandOpen
  \/ WaitOpen

-----------------------------------------------------------------------------
CtlSteps == {"mr", "mode", "phy", "phycfg", "open", "status"}

CtlTypeOK ==
  /\ chip \in [resets : BOOLEAN, link : LinkSpeeds \union {"NONE"},
               phy : LinkSpeeds \union {"100HD_AN", "all", "pins", "reset", "down"},
               mac : Macs \union {NoMac}, sock : {"closed", "opening", "MACRAW"}]
  /\ turns \in 0 .. Timeout - 1
  /\ app \in [speed : LinkSpeeds \union {"NONE"}, opened : BOOLEAN, mac : Macs \union {NoMac, Overwritten}]
  /\ asked \in Requests /\ given \in Macs \union {NoMac}
  /\ lost \in Nat

(* Between calls the bus is released, but for the calls of set_phycfg that *)
(* return early: each leaves it taken for good.                            *)
BusReleased == held = lost + (IF pc = "idle" THEN 0 ELSE 1)

(* What get_phycfg reports agrees with the last set_phycfg, except that    *)
(* half duplex at 100 Mbps is reported as full.  With negotiation, a limit *)
(* of 10 Mbps is not understood, and the link is never up.                 *)
SpeedReported ==
  [][app'.speed \notin {app.speed, "NONE"} =>
       /\ asked.up
       /\ IF asked.speed = "100HD" THEN app'.speed = "100FD"
          ELSE IF asked.autoneg THEN asked.speed \in {"NONE", "100FD"}
          ELSE app'.speed = asked.speed]_app

(* The MAC address the application set is in the chip and still in the     *)
(* application's array, although every transfer overwrites what it sends.  *)
AddressKept == given # NoMac => chip.mac = given /\ app.mac = given
=============================================================================
