------------------------------- MODULE Cksum -------------------------------
(***************************************************************************)
(* The Internet checksum: _net_cksum_sum adds 16-bit words with an         *)
(* end-around carry, and is called piece by piece over a pseudo header and *)
(* a packet, each call starting from what the last one returned.  UDP sums *)
(* the addresses once, at connect, and every send goes on from there;      *)
(* ICMPv6 sums everything at once.                                         *)
(*                                                                         *)
(* One turn of the loop is one action.  The history variable total adds    *)
(* the same words in full.                                                 *)
(***************************************************************************)
EXTENDS Integers, Sequences

CONSTANTS
  Base,       \* values of a byte: 256
  Addresses,  \* contents of an address
  NextHeader, \* the next header
  Heads,      \* ports, or type and code
  Payloads    \* what is behind length and checksum

WordMod == Base * Base
AllOnes == WordMod - 1    \* 0xFFFF, and the modulus of the sum

ASSUME BaseAssumption == Base \in Nat /\ Base > 2
ASSUME BytesAssumption ==
  /\ Addresses \union Heads \union Payloads \subseteq Seq(0 .. Base - 1)
  /\ NextHeader \in 0 .. Base - 1
  /\ \A s \in Addresses \union Heads : Len(s) % 2 = 0 /\ Len(s) > 0
  /\ \A s \in Heads, t \in Payloads : Len(s) + 4 + Len(t) < WordMod

VARIABLES
  src, dst,   \* the addresses
  packet,     \* the packet in the buffer
  pre,        \* cksum_pre_compute
  pc,         \* whom the sum is for: "connect", "udp", "icmpv6", or "idle"
  data, rest, \* the bytes of this call of _net_cksum_sum, and of those to come
  i, sum,     \* its locals
  total,      \* history: the words added, without any carry
  preTotal,   \* history: the words that pre is the sum of, 0 if not connected
  covered     \* history: the words that the checksum of the packet is for

vars == <<src, dst, packet, pre, pc, data, rest, i, sum, total, preTotal, covered>>

Word(n) == <<n \div Base, n % Base>>

(* A packet, its checksum where UDP and ICMPv6 have it: behind the length, *)
(* which only UDP puts there.                                              *)
PacketLen(p) == Len(p.head) + (IF p.by = "udp" THEN 4 ELSE 2) + Len(p.data)
PacketBytes(p) ==
  p.head \o (IF p.by = "udp" THEN Word(PacketLen(p)) ELSE <<>>)
  \o Word(p.cksum) \o p.data

Init ==
  /\ src \in Addresses /\ dst \in Addresses
  /\ packet \in [by : {"udp", "icmpv6"}, head : Heads, data : Payloads, cksum : {0}]
  /\ pre = 0 /\ preTotal = 0
  /\ pc = "idle" /\ data = <<>> /\ rest = <<>> /\ i = 0 /\ sum = 0
  /\ total = 0 /\ covered = 0

-----------------------------------------------------------------------------
(* _net_cksum_sum.                                                         *)

(* Mutant: it is left for the end.                                         *)
CarryLater(n) == n

(* Mutant: the carry is dropped.                                           *)
CarryDropped(n) == n % WordMod

Carry(n) == IF n >= WordMod THEN (n % WordMod) + 1 ELSE n

Add(word) == sum' = Carry(sum + word) /\ total' = total + word

AddWord ==
  /\ pc # "idle" /\ i < Len(data) - 1
  /\ Add(Base * data[i + 1] + data[i + 2])
  /\ i' = i + 2
  /\ UNCHANGED <<src, dst, packet, pre, pc, data, rest, preTotal, covered>>

(* Mutant: the last byte is added as it is.                                *)
AddLastByteLow ==
  /\ pc # "idle" /\ i = Len(data) - 1
  /\ Add(data[i + 1])
  /\ i' = i + 1
  /\ UNCHANGED <<src, dst, packet, pre, pc, data, rest, preTotal, covered>>

(* "datalen was odd".                                                      *)
AddLastByte ==
  /\ pc # "idle" /\ i = Len(data) - 1
  /\ Add(Base * data[i + 1])
  /\ i' = i + 1
  /\ UNCHANGED <<src, dst, packet, pre, pc, data, rest, preTotal, covered>>

-----------------------------------------------------------------------------
(* Its callers.                                                            *)

(* They call it once for each of the pieces.                               *)
Start(purpose, pieces, init, words) ==
  /\ pc = "idle" /\ pc' = purpose
  /\ data' = Head(pieces) /\ rest' = Tail(pieces) /\ i' = 0
  /\ sum' = init /\ total' = words
  /\ UNCHANGED <<src, dst, pre, preTotal>>

NextCall ==
  /\ pc # "idle" /\ i >= Len(data) /\ rest # <<>>
  /\ data' = Head(rest) /\ rest' = Tail(rest) /\ i' = 0
  /\ UNCHANGED <<src, dst, packet, pre, pc, sum, total, preTotal, covered>>

(* net_udp_connect: net_ip6_get_l3_cksum.                                  *)
Connect ==
  /\ Start("connect", <<src, dst, <<0, NextHeader>>>>, 0, 0)
  /\ UNCHANGED <<packet, covered>>

Connected ==
  /\ pc = "connect" /\ i >= Len(data) /\ rest = <<>>
  /\ pre' = sum /\ preTotal' = total
  /\ pc' = "idle"
  /\ UNCHANGED <<src, dst, packet, data, rest, i, sum, total, covered>>

(* The checksum is cleared before it is computed.                          *)
Cleared == packet' = [packet EXCEPT !.cksum = 0] /\ covered' = 0

(* _net_udp_fix_cksum.                                                     *)
SendUdp ==
  /\ packet.by = "udp"
  /\ Cleared
  /\ Start("udp", <<Word(PacketLen(packet)), PacketBytes(packet')>>, pre, preTotal)

(* _net_icmpv6_fix_cksum.                                                  *)
SendIcmpv6 ==
  /\ packet.by = "icmpv6"
  /\ Cleared
  /\ Start("icmpv6", <<src \o dst, Word(PacketLen(packet)), <<0, NextHeader>>,
                       PacketBytes(packet')>>, 0, 0)

(* Mutant: the complement of all ones is left at zero.                     *)
FinalizeZero(n) == AllOnes - n

(* _net_cksum_finalize, whose loop never runs, for sum is a uint16_t; zero *)
(* would mean that there is no checksum.                                   *)
Finalize(n) == IF AllOnes - n = 0 THEN AllOnes ELSE AllOnes - n

Fixed ==
  /\ pc \in {"udp", "icmpv6"} /\ i >= Len(data) /\ rest = <<>>
  /\ packet' = [packet EXCEPT !.cksum = Finalize(sum)]
  /\ covered' = total
  /\ pc' = "idle"
  /\ UNCHANGED <<src, dst, pre, data, rest, i, sum, total, preTotal>>

Next ==
  \/ AddWord
  \/ AddLastByte
  \/ NextCall
  \/ Connect
  \/ Connected
  \/ SendUdp
  \/ SendIcmpv6
  \/ Fixed

Spec == Init /\ [][Next]_vars

-----------------------------------------------------------------------------
ByteSeq == Seq(0 .. Base - 1)

TypeOK ==
  /\ src \in Addresses /\ dst \in Addresses
  /\ packet \in [by : {"udp", "icmpv6"}, head : Heads, data : Payloads, cksum : 0 .. AllOnes]
  /\ pre \in 0 .. AllOnes /\ sum \in 0 .. AllOnes
  /\ pc \in {"idle", "connect", "udp", "icmpv6"}
  /\ data \in ByteSeq /\ rest \in Seq(ByteSeq)
  /\ i \in 0 .. Len(data)
  /\ total \in Nat /\ preTotal \in Nat /\ covered \in Nat

(* The 16 bits of the sum stand for the whole of it, at every turn and     *)
(* over all calls: they agree modulo AllOnes, and the sum is zero only if  *)
(* nothing but zeros was added.  No piece is empty: the bound of the loop  *)
(* would be below zero, or 65535 where an int has 16 bits.                 *)
Represents(n, words) ==
  (n % AllOnes) = (words % AllOnes) /\ (n = 0 <=> words = 0)
SumRight ==
  /\ Represents(sum, total) /\ Represents(pre, preTotal)
  /\ pc # "idle" => data # <<>>

(* A checksum that was computed is never zero, and completes the words it  *)
(* is for to a multiple of AllOnes.                                        *)
Completed ==
  [][(pc \in {"udp", "icmpv6"} /\ pc' = "idle") =>
       packet'.cksum # 0 /\ ((covered' + packet'.cksum) % AllOnes) = 0]_vars

(* The words of a string of bytes, as RFC 1071 adds them: padded with a    *)
(* zero byte if it is odd.                                                 *)
WordsUpTo(bytes) ==
  LET upTo[k \in 0 .. Len(bytes)] ==
        IF k = 0 THEN 0
        ELSE upTo[k - 1] + (IF k % 2 = 1 THEN Base * bytes[k] ELSE bytes[k])
  IN  upTo

WordSum(bytes) == WordsUpTo(bytes)[Len(bytes)]

(* What a receiver adds up: the pseudo header and the packet, in one go.   *)
ReceiverSum(p) ==
  WordSum(src \o dst \o Word(PacketLen(p)) \o <<0, NextHeader>> \o PacketBytes(p))

(* A receiver finds all ones: the pieces may be summed one by one, and at  *)
(* two times, for none but the last is odd.  For UDP, after a connect.     *)
ForReceiver == pc = "icmpv6" \/ (pc = "udp" /\ preTotal # 0)
ReceiverAccepts ==
  [][(ForReceiver /\ pc' = "idle") => (ReceiverSum(packet') % AllOnes) = 0]_vars
=============================================================================
