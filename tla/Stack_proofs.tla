---------------------------- MODULE Stack_proofs ----------------------------
(***************************************************************************)
(* Proofs about the layers, for every set of hosts, ports and frames, every*)
(* buffer and every number of frames.  Only the checksum needs an invariant*)
(* of its own: while no setter of the IPv6 layer was called since          *)
(* net_udp_connect, the sum it kept is that of the present addresses.  The *)
(* other results follow from the checks one receive makes.                 *)
(***************************************************************************)
EXTENDS Stack, TLAPS

SumFresh == connected = "udp" => udp.sum = PseudoHeader

IInv == TypeOK /\ SumFresh

-----------------------------------------------------------------------------
(* The frame a receive works on is one of those that may arrive.           *)
LEMMA HandedOver ==
  ASSUME TypeOK, Nic!HandOver
  PROVE  /\ out' \in Frames /\ out' = log[taken'] /\ log' = log
         /\ taken' = taken + 1 /\ taken' \in 0 .. Len(log)
<1>1. taken \in Nat /\ taken < Len(log) /\ log \in Seq(Frames)
  BY DEF TypeOK, Nic!HandOver
<1>2. taken + 1 \in DOMAIN log /\ log[taken + 1] \in Frames
  BY <1>1
<1> QED BY <1>1, <1>2 DEF Nic!HandOver

(* What a layer returns is a status and a region behind its header.        *)
LEMMA MacReturns ==
  ASSUME NEW f \in Frames
  PROVE  /\ MacRecv(f).status \in {"OK", "EAGAIN"}
         /\ MacRecv(f).offset \in {0, MacHdr}
         /\ MacRecv(f).len \in Nat
         /\ MacRecv(f) \in [status : {"OK", "EAGAIN"}, offset : {0, MacHdr}, len : Nat]
         /\ MacRecv(f).status = "OK" => /\ MacRecv(f).offset = MacHdr
                                        /\ MacRecv(f).len = f.len - MacHdr
                                        /\ f.len >= MacHdr
                                        /\ f.ethertype = mac.ethertype /\ ToUs(f.dmac)
<1>1. f.len \in Nat
  BY FramesAssumption
<1>2. CASE f.len >= MacHdr /\ f.ethertype = mac.ethertype /\ ToUs(f.dmac)
  BY <1>1, <1>2 DEF MacRecv, MacHdr
<1>3. CASE ~ (f.len >= MacHdr /\ f.ethertype = mac.ethertype /\ ToUs(f.dmac))
  BY <1>3 DEF MacRecv, Failed
<1> QED BY <1>2, <1>3

LEMMA Ip6Returns ==
  ASSUME NEW f \in Frames
  PROVE  /\ Ip6Recv(f) \in [status : {"OK", "EAGAIN", "EPROTO", "EOVERFLOW"},
                            offset : {0, MacHdr + IpHdr}, len : Nat]
         /\ Ip6Recv(f).status = "OK" =>
              /\ Ip6Recv(f).offset = MacHdr + IpHdr
              /\ Ip6Recv(f).len = f.iplen
              /\ MacHdr + IpHdr + f.iplen <= f.len
              /\ f.ethertype = mac.ethertype /\ ToUs(f.dmac) /\ f.version = 6
              /\ f.nh = ip6.nh /\ f.nh # ICMPV6
              /\ f.src = ip6.dst /\ f.dst = Global(ip6.src)
<1>1. Ip6Status(f) \in {"OK", "EAGAIN", "EPROTO", "EOVERFLOW"}
  BY MacReturns DEF Ip6Status, Icmpv6Status
<1>2. f.iplen \in Nat /\ f.len \in Nat
  BY FramesAssumption
<1>3. CASE Ip6Status(f) = "OK"
  <2>1. MacRecv(f).status = "OK"
    BY <1>3, MacReturns DEF Ip6Status
  <2>2. /\ f.iplen <= MacRecv(f).len - IpHdr /\ f.version = 6
        /\ f.nh = ip6.nh /\ f.nh # ICMPV6
        /\ f.src = ip6.dst /\ f.dst = Global(ip6.src)
    BY <1>2, <1>3, <2>1, MacReturns DEF Ip6Status, Icmpv6Status, IpHdr
  <2>3. MacHdr + IpHdr + f.iplen <= f.len
    BY <1>2, <2>1, <2>2, MacReturns DEF MacHdr, IpHdr
  <2>4. Ip6Recv(f) = [status |-> "OK", offset |-> MacHdr + IpHdr, len |-> f.iplen]
    BY <1>3, <2>1, MacReturns DEF Ip6Recv
  <2>5. f.ethertype = mac.ethertype /\ ToUs(f.dmac)
    BY <2>1, MacReturns
  <2> QED BY <1>2, <2>2, <2>3, <2>4, <2>5
<1>4. CASE Ip6Status(f) # "OK"
  BY <1>1, <1>4 DEF Ip6Recv, Failed
<1> QED BY <1>3, <1>4

LEMMA UdpReturns ==
  ASSUME NEW f \in Frames
  PROVE  /\ UdpRecv(f) \in [status : {"OK", "EAGAIN", "EPROTO", "EOVERFLOW"},
                            offset : {0, MacHdr + IpHdr, MacHdr + IpHdr + UdpHdr}, len : Nat]
         /\ UdpRecv(f).status = "OK" =>
              /\ UdpRecv(f).offset = MacHdr + IpHdr + UdpHdr
              /\ UdpRecv(f).len = f.iplen - 8
              /\ DatagramForUs(f)
<1> DEFINE lower == Ip6Recv(f)
<1>1. /\ lower \in [status : {"OK", "EAGAIN", "EPROTO", "EOVERFLOW"},
                    offset : {0, MacHdr + IpHdr}, len : Nat]
      /\ f.iplen \in Nat /\ f.len \in Nat /\ f.udplen \in Nat
  BY Ip6Returns, FramesAssumption
<1>2. CASE lower.status # "OK"
  BY <1>1, <1>2 DEF UdpRecv
<1>3. CASE lower.status = "OK" /\ (lower.len < UdpHdr \/ f.sport # udp.dport \/ f.dport # udp.sport)
  BY <1>3 DEF UdpRecv, Failed
<1>4. CASE /\ lower.status = "OK" /\ lower.len >= UdpHdr
           /\ f.sport = udp.dport /\ f.dport = udp.sport /\ lower.len < f.udplen
  <2>1. UdpRecv(f) = [lower EXCEPT !.status = "EOVERFLOW"]
    BY <1>1, <1>4 DEF UdpRecv, UdpHdr
  <2> QED BY <1>1, <2>1
<1>5. CASE /\ lower.status = "OK" /\ lower.len >= UdpHdr
           /\ f.sport = udp.dport /\ f.dport = udp.sport /\ lower.len >= f.udplen
  <2>1. UdpRecv(f) = [status |-> "OK", offset |-> lower.offset + UdpHdr,
                      len |-> lower.len - UdpHdr]
    BY <1>1, <1>5 DEF UdpRecv, UdpHdr
  <2>2. /\ lower.offset = MacHdr + IpHdr /\ lower.len = f.iplen
        /\ MacHdr + IpHdr + f.iplen <= f.len
        /\ f.ethertype = mac.ethertype /\ ToUs(f.dmac) /\ f.version = 6
        /\ f.nh = ip6.nh /\ f.nh # ICMPV6
        /\ f.src = ip6.dst /\ f.dst = Global(ip6.src)
    BY <1>5, Ip6Returns
  <2>3. f.iplen >= 8 /\ f.udplen <= f.iplen /\ f.len >= 54 + f.iplen
    BY <1>1, <1>5, <2>2 DEF MacHdr, IpHdr, UdpHdr
  <2>4. DatagramForUs(f)
    BY <1>5, <2>2, <2>3 DEF DatagramForUs, ToUs
  <2>5. UdpRecv(f) = [status |-> "OK", offset |-> MacHdr + IpHdr + UdpHdr, len |-> f.iplen - 8]
    BY <2>1, <2>2 DEF UdpHdr
  <2> QED BY <1>1, <2>3, <2>4, <2>5
<1> QED BY <1>1, <1>2, <1>3, <1>4, <1>5 DEF UdpHdr

(* No layer refuses a whole datagram for us.                               *)
LEMMA NoneRefuses ==
  ASSUME NEW f \in Frames, DatagramForUs(f)
  PROVE  MacRecv(f).status = "OK" /\ Ip6Recv(f).status = "OK" /\ UdpRecv(f).status = "OK"
<1>1. /\ f.iplen \in Nat /\ f.len \in Nat /\ f.udplen \in Nat
      /\ f.iplen >= 8 /\ f.udplen <= f.iplen /\ f.len >= 54 + f.iplen
  BY FramesAssumption DEF DatagramForUs
<1>2. f.ethertype = mac.ethertype /\ ToUs(f.dmac)
  BY DEF DatagramForUs, ToUs
<1>3. MacRecv(f) = [status |-> "OK", offset |-> MacHdr, len |-> f.len - MacHdr]
  BY <1>1, <1>2 DEF MacRecv, MacHdr
<1>4. MacRecv(f).len >= IpHdr /\ f.iplen <= MacRecv(f).len - IpHdr
  BY <1>1, <1>3 DEF MacHdr, IpHdr
<1>5. Ip6Status(f) = "OK"
  BY <1>1, <1>3, <1>4 DEF Ip6Status, DatagramForUs, MacHdr, IpHdr
<1>6. Ip6Recv(f) = [status |-> "OK", offset |-> MacHdr + IpHdr, len |-> f.iplen]
  BY <1>3, <1>5 DEF Ip6Recv
<1>7. f.sport = udp.dport /\ f.dport = udp.sport
  BY DEF DatagramForUs
<1>8. UdpRecv(f).status = "OK"
  BY <1>1, <1>6, <1>7 DEF UdpRecv, UdpHdr
<1> QED BY <1>3, <1>6, <1>8

Returns == [status : {"NONE", "OK", "EAGAIN", "EPROTO", "EOVERFLOW"},
            offset : {0, MacHdr, MacHdr + IpHdr, MacHdr + IpHdr + UdpHdr}, len : Nat]

LEMMA LayersReturn ==
  ASSUME NEW layer \in {"mac", "ip6", "udp"}, NEW f \in Frames
  PROVE  LayerRecv(layer, f) \in Returns
<1>1. CASE layer = "mac"
  BY <1>1, MacReturns DEF LayerRecv, Returns
<1>2. CASE layer = "ip6"
  BY <1>2, Ip6Returns DEF LayerRecv, Returns
<1>3. CASE layer = "udp"
  BY <1>3, UdpReturns DEF LayerRecv, Returns
<1> QED BY <1>1, <1>2, <1>3

-----------------------------------------------------------------------------
(* The invariant is kept by every action.                                  *)
LEMMA InitInv == Init => IInv
<1> SUFFICES ASSUME Init PROVE IInv
  OBVIOUS
<1>1. PICK h \in Locals, p \in Peers :
        /\ mac = [src |-> h, dst |-> p, ethertype |-> IPV6, mcast |-> Suffixes(h)]
        /\ ip6 = [src |-> h, dst |-> Global(p), nh |-> UDP]
  BY DEF Init
<1>2. /\ mac \in [src : Locals, dst : Peers, ethertype : {IPV6, LB},
                  mcast : {Suffixes(g) : g \in Locals}]
      /\ ip6 \in [src : Locals, dst : {Global(q) : q \in Peers}, nh : NextHeaders \union {UDP}]
  BY <1>1
<1>3. udp \in [sport : Ports, dport : Ports, sum : Sums] /\ buflen \in BufLens /\ layers \in Uses /\ connected = "none" /\ calls = 0
  BY DEF Init, Sums
<1>4. log = <<>> /\ taken = 0 /\ log \in Seq(Frames) /\ taken \in 0 .. Len(log)
  BY DEF Init, Nic!Init
<1>5. tx.by = "none" /\ answered = {} /\ high = 0 /\ ret \in Returns
  BY DEF Init, Failed, Returns
<1> QED BY <1>2, <1>3, <1>4, <1>5 DEF IInv, TypeOK, SumFresh, Returns

LEMMA SettersInv ==
  ASSUME IInv, SetMac \/ SetIp6 \/ SetPort \/ UdpConnect \/ CoapConnect
  PROVE  IInv'
<1> USE DEF IInv
<1>1. /\ calls' \in Nat
      /\ UNCHANGED <<log, taken, out, buflen, layers, tx, answered, high, ret>>
  BY DEF TypeOK, SetMac, SetIp6, SetPort, UdpConnect, CoapConnect, Call, nic
<1>2. CASE SetMac
  <2>1. PICK h \in Locals, p \in Peers, e \in {IPV6, LB} :
          mac' \in {[mac EXCEPT !.src = h], [mac EXCEPT !.dst = p],
                   [mac EXCEPT !.ethertype = e], [mac EXCEPT !.mcast = Suffixes(h)]}
    BY <1>2 DEF SetMac
  <2>2. mac' \in [src : Locals, dst : Peers, ethertype : {IPV6, LB},
                 mcast : {Suffixes(g) : g \in Locals}]
    BY <2>1 DEF TypeOK
  <2> QED BY <1>1, <1>2, <2>2 DEF SetMac, TypeOK, SumFresh, PseudoHeader
<1>3. CASE SetIp6
  <2>1. PICK h \in Locals, p \in Peers, nh \in NextHeaders :
          ip6' \in {[ip6 EXCEPT !.src = h], [ip6 EXCEPT !.dst = Global(p)],
                   [ip6 EXCEPT !.nh = nh]}
    BY <1>3 DEF SetIp6
  <2>2. ip6' \in [src : Locals, dst : {Global(q) : q \in Peers},
                 nh : NextHeaders \union {UDP}]
    BY <2>1 DEF TypeOK
  <2> QED BY <1>1, <1>3, <2>2 DEF SetIp6, TypeOK, SumFresh
<1>4. CASE SetPort
  <2>1. PICK p \in Ports : udp' \in {[udp EXCEPT !.sport = p], [udp EXCEPT !.dport = p]}
    BY <1>4 DEF SetPort
  <2>2. udp' \in [sport : Ports, dport : Ports, sum : Sums] /\ udp'.sum = udp.sum
    BY <2>1 DEF TypeOK
  <2>3. ip6' = ip6 /\ connected' = connected
    BY <1>4 DEF SetPort
  <2> QED BY <1>1, <1>4, <2>2, <2>3 DEF SetPort, TypeOK, SumFresh, PseudoHeader
<1>5. CASE UdpConnect
  <2>1. PICK p \in Peers : ip6.dst = Global(p)
    BY DEF TypeOK
  <2>2. ip6.src \in Locals /\ ip6.nh \in NextHeaders \union {UDP}
    BY DEF TypeOK
  <2>3. PseudoHeader \in Sums
    BY <2>1, <2>2 DEF PseudoHeader, Sums
  <2>4. udp' \in [sport : Ports, dport : Ports, sum : Sums] /\ udp'.sum = PseudoHeader
    BY <1>5, <2>3 DEF UdpConnect, TypeOK
  <2> QED BY <1>1, <1>5, <2>4 DEF UdpConnect, TypeOK, SumFresh, PseudoHeader
<1>6. CASE CoapConnect
  BY <1>1, <1>6 DEF CoapConnect, TypeOK, SumFresh, PseudoHeader
<1> QED BY <1>2, <1>3, <1>4, <1>5, <1>6

(* The layers the application may call.                                    *)
LEMMA RecvInv ==
  ASSUME IInv, NEW layer \in {"mac", "ip6", "udp"}, NEW accepted \in BOOLEAN,
         Recv(layer, accepted)
  PROVE  IInv'
<1>1. /\ out' \in Frames /\ log' = log /\ log \in Seq(Frames)
      /\ taken' = taken + 1 /\ taken \in Nat /\ taken' \in 0 .. Len(log)
  BY HandedOver DEF IInv, TypeOK, Recv
<1>2. ret' \in Returns
  BY <1>1, LayersReturn DEF Recv
<1>3. high' \in Nat
  BY <1>1, FramesAssumption DEF Recv, MacHdr, IpHdr, AdvertisementSize, IcmpHdr, NaHdr, LlaHdr
<1>4. answered' \subseteq 1 .. taken'
  <2>1. answered \subseteq 1 .. taken
    BY DEF IInv, TypeOK
  <2>2. answered' = answered \/ answered' = answered \union {taken'}
    BY DEF Recv
  <2>3. 1 .. taken \subseteq 1 .. taken' /\ taken' \in 1 .. taken'
    BY <1>1
  <2> QED BY <2>1, <2>2, <2>3
<1>5. tx'.by \in {"none", "mac", "ip6", "udp", "nd"}
  BY DEF Recv, Transmit, IInv, TypeOK
<1>6. UNCHANGED <<mac, ip6, udp, buflen, layers, connected, calls>>
  BY DEF Recv, config
<1>7. TypeOK'
  <2>1. /\ mac' \in [src : Locals, dst : Peers, ethertype : {IPV6, LB},
                    mcast : {Suffixes(h) : h \in Locals}]
        /\ ip6' \in [src : Locals, dst : {Global(p) : p \in Peers},
                    nh : NextHeaders \union {UDP}]
        /\ udp' \in [sport : Ports, dport : Ports, sum : Sums]
        /\ connected' \in {"none", "udp", "coap"} /\ calls' \in Nat
        /\ buflen' \in BufLens /\ layers' \in Uses
    BY <1>6 DEF IInv, TypeOK
  <2>2. log' \in Seq(Frames) /\ taken' \in 0 .. Len(log')
    BY <1>1
  <2> QED BY <1>2, <1>3, <1>4, <1>5, <2>1, <2>2 DEF TypeOK, Returns
<1>8. SumFresh'
  BY <1>6 DEF IInv, SumFresh, PseudoHeader
<1> QED BY <1>7, <1>8 DEF IInv

LEMMA OthersInv ==
  ASSUME IInv, \/ Arrive \/ RecvNothing \/ UNCHANGED vars
               \/ \E accepted \in BOOLEAN : Send(DataLen, accepted)
  PROVE  IInv'
<1> USE DEF IInv, config, nic
<1>1. CASE Arrive
  <2>1. PICK f \in Frames : Nic!Accept(f)
    BY <1>1, FramesAssumption DEF Arrive
  <2>2. log' \in Seq(Frames) /\ Len(log') = Len(log) + 1 /\ taken' = taken
    BY <2>1 DEF Nic!Accept, TypeOK
  <2>3. taken' \in 0 .. Len(log')
    BY <2>2 DEF TypeOK
  <2> QED BY <1>1, <2>2, <2>3 DEF Arrive, TypeOK, SumFresh, PseudoHeader
<1>2. CASE RecvNothing
  BY <1>2 DEF RecvNothing, Failed, TypeOK, SumFresh, PseudoHeader
<1>3. CASE UNCHANGED vars
  BY <1>3 DEF vars, TypeOK, SumFresh, PseudoHeader
<1>4. CASE \E accepted \in BOOLEAN : Send(DataLen, accepted)
  <2>1. PICK accepted \in BOOLEAN : Send(DataLen, accepted)
    BY <1>4
  <2>2. tx'.by \in {"none", "mac", "ip6", "udp", "nd"}
    BY <2>1 DEF Send, MacSend, Ip6Send, UdpSend, Transmit, TypeOK
  <2>3. UNCHANGED <<config, nic, answered, high, ret>>
    BY <2>1 DEF Send, MacSend, Ip6Send, UdpSend
  <2> QED BY <2>2, <2>3 DEF TypeOK, SumFresh, PseudoHeader
<1> QED BY <1>1, <1>2, <1>3, <1>4


LEMMA NextInv ==
  IInv /\ [Next]_vars => IInv'
<1> SUFFICES ASSUME IInv, [Next]_vars PROVE IInv'
  OBVIOUS
<1>1. layers \subseteq {"mac", "ip6", "udp"}
  BY UsesAssumption DEF IInv, TypeOK
<1>2. CASE SetMac \/ SetIp6 \/ SetPort \/ UdpConnect \/ CoapConnect
  BY <1>2, SettersInv
<1>3. CASE Receive
  BY <1>1, <1>3, RecvInv DEF Receive
<1>4. CASE \E accepted \in BOOLEAN : Send(DataLen, accepted)
  BY <1>1, <1>4, OthersInv
<1>5. CASE Arrive \/ RecvNothing \/ UNCHANGED vars
  BY <1>5, OthersInv
<1> QED BY <1>2, <1>3, <1>4, <1>5 DEF Next

(* The typing of the three contexts, the interface and what is returned.   *)
THEOREM TypeCorrect == Spec => []TypeOK
<1>1. IInv => TypeOK
  BY DEF IInv
<1> QED BY <1>1, InitInv, NextInv, PTL DEF Spec

-----------------------------------------------------------------------------
(* Only a receive sends an advertisement, and only for a solicitation.     *)
LEMMA Advertised ==
  ASSUME TypeOK, Next, tx' # tx, tx'.by = "nd"
  PROVE  /\ Solicits(log[taken']) /\ log[taken'] \in Frames
         /\ \E accepted \in BOOLEAN : Transmit("nd", Advertisement(log[taken']), accepted)
         /\ tx'.frame = [Advertisement(log[taken']) EXCEPT
                           !.dmac = Station(mac.dst), !.smac = Station(mac.src),
                           !.ethertype = mac.ethertype]
<1>1. ~ (SetMac \/ SetIp6 \/ SetPort \/ UdpConnect \/ CoapConnect \/ Arrive \/ RecvNothing)
  BY DEF SetMac, SetIp6, SetPort, UdpConnect, CoapConnect, Call, Arrive, RecvNothing
<1>2. ~ \E accepted \in BOOLEAN : Send(DataLen, accepted)
  BY DEF Send, MacSend, Ip6Send, UdpSend, Transmit
<1>3. PICK layer \in layers, accepted \in BOOLEAN : Recv(layer, accepted)
  BY <1>1, <1>2 DEF Next, Receive
<1>4. out' = log[taken'] /\ out' \in Frames
  BY <1>3, HandedOver DEF Recv
<1>5. Solicits(out') /\ Transmit("nd", Advertisement(out'), accepted) /\ accepted \in BOOLEAN
  BY <1>3 DEF Recv
<1> QED BY <1>4, <1>5 DEF Transmit


(* A neighbor advertisement answers the solicitation just received, goes   *)
(* to who asked, and tells of the address that was asked for, ours.        *)
THEOREM AdvertisementIsRight == Spec => AdvertisementRight
<1> DEFINE Right ==
      tx' # tx /\ tx'.by = "nd" =>
        LET ns == log[taken']
            na == tx'.frame
        IN  /\ ns.nh = ICMPV6 /\ ns.type = "NS"
            /\ ns.target \in {Global(ip6.src), LinkLocal(ip6.src)}
            /\ na.nh = ICMPV6 /\ na.type = "NA"
            /\ na.target = ns.target
            /\ na.lladdr = Station(mac.src)
            /\ na.src = LinkLocal(ip6.src)
            /\ na.dst = IF ns.src = Unspecified THEN AllNodes ELSE ns.src
<1>1. ASSUME TypeOK, [Next]_vars PROVE Right
  <2> SUFFICES ASSUME tx' # tx, tx'.by = "nd" PROVE Right
    OBVIOUS
  <2>1. Next
    BY <1>1 DEF vars
  <2> DEFINE ns == log[taken']
  <2>2. Solicits(ns) /\ ns \in Frames
    BY <1>1, <2>1, Advertised
  <2>3. tx'.frame = [Advertisement(ns) EXCEPT
                      !.dmac = Station(mac.dst), !.smac = Station(mac.src),
                      !.ethertype = mac.ethertype]
    BY <1>1, <2>1, Advertised
  <2>4. /\ ns.nh = ICMPV6 /\ ns.type = "NS"
        /\ ns.target \in {Global(ip6.src), LinkLocal(ip6.src)}
    BY <2>2 DEF Solicits
  <2>5. DOMAIN ns = {"len", "dmac", "smac", "ethertype", "version", "iplen", "nh", "src",
                     "dst", "type", "target", "lladdr", "sport", "dport", "udplen", "sum"}
    BY <2>2, FramesAssumption DEF Blank
  <2>6. LET na == tx'.frame
        IN  /\ na.nh = ns.nh /\ na.type = "NA" /\ na.target = ns.target
            /\ na.lladdr = Station(mac.src) /\ na.src = LinkLocal(ip6.src)
            /\ na.dst = IF ns.src = Unspecified THEN AllNodes ELSE ns.src
    BY <2>3, <2>5 DEF Advertisement, SourceWritten
  <2> QED BY <2>4, <2>6
<1> QED BY <1>1, TypeCorrect, PTL DEF Spec, AdvertisementRight


-----------------------------------------------------------------------------
(* A datagram that is sent has the present addresses and the sum that the  *)
(* last net_udp_connect kept.                                              *)
LEMMA DatagramSent ==
  ASSUME TypeOK, Next, tx' # tx, tx'.by = "udp"
  PROVE  /\ tx'.frame.sum = udp.sum
         /\ tx'.frame.src = Global(ip6.src) /\ tx'.frame.dst = ip6.dst
         /\ tx'.frame.nh = ip6.nh
<1>1. ~ (SetMac \/ SetIp6 \/ SetPort \/ UdpConnect \/ CoapConnect \/ Arrive \/ RecvNothing)
  BY DEF SetMac, SetIp6, SetPort, UdpConnect, CoapConnect, Call, Arrive, RecvNothing
<1>2. ~ Receive
  BY DEF Receive, Recv, Transmit
<1>3. PICK accepted \in BOOLEAN : UdpSend(DataLen, accepted)
  BY <1>1, <1>2 DEF Next, Send, MacSend, Ip6Send, Transmit
<1> QED BY <1>3 DEF UdpSend, Transmit, Ip6Frame, Blank

(* The checksum of an advertisement, and of a datagram sent after          *)
(* net_udp_connect with no setter of the IPv6 layer between, was computed  *)
(* over the addresses and the protocol of its IPv6 header.                 *)
THEOREM ChecksumIsRight == Spec => ChecksumRight
<1> DEFINE Right ==
      tx' # tx /\ (tx'.by = "nd" \/ (tx'.by = "udp" /\ connected = "udp")) =>
        tx'.frame.sum = Sum(tx'.frame.src, tx'.frame.dst, tx'.frame.nh)
<1>1. ASSUME IInv, [Next]_vars PROVE Right
  <2>1. TypeOK /\ (tx' # tx => Next)
    BY <1>1 DEF IInv, vars
  <2>2. CASE tx' # tx /\ tx'.by = "nd"
    <3> DEFINE ns == log[taken']
    <3>1. Solicits(ns) /\ ns \in Frames
      BY <2>1, <2>2, Advertised
    <3>2. tx'.frame = [Advertisement(ns) EXCEPT
                        !.dmac = Station(mac.dst), !.smac = Station(mac.src),
                        !.ethertype = mac.ethertype]
      BY <2>1, <2>2, Advertised
    <3>3. DOMAIN ns = {"len", "dmac", "smac", "ethertype", "version", "iplen", "nh", "src",
                       "dst", "type", "target", "lladdr", "sport", "dport", "udplen", "sum"}
      BY <3>1, FramesAssumption DEF Blank
    <3>4. ns.nh = ICMPV6
      BY <3>1 DEF Solicits
    <3> QED BY <3>2, <3>3, <3>4 DEF Advertisement, SourceWritten
  <2>3. CASE tx' # tx /\ tx'.by = "udp" /\ connected = "udp"
    BY <1>1, <2>1, <2>3, DatagramSent DEF IInv, SumFresh, PseudoHeader
  <2> QED BY <2>2, <2>3
<1> QED BY <1>1, InitInv, NextInv, PTL DEF Spec, ChecksumRight

-----------------------------------------------------------------------------
(* What is handed to the application are the whole datagrams for it, and   *)
(* nothing else.  The region begins behind the UDP header and ends with the*)
(* IPv6 packet, whatever the UDP length is.                                *)
THEOREM DeliveredIsRight == Spec => Delivered
<1> DEFINE Right ==
      taken' # taken =>
        /\ ret'.status = "OK" /\ ret'.offset = 62
             => DatagramForUs(out') /\ ret'.len = out'.iplen - 8
        /\ DatagramForUs(out') => ret'.status = "OK"
<1>1. ASSUME TypeOK, [Next]_vars PROVE Right
  <2> SUFFICES ASSUME taken' # taken PROVE Right
    OBVIOUS
  <2>1. Next
    BY <1>1 DEF vars, nic
  <2>2. ~ (SetMac \/ SetIp6 \/ SetPort \/ UdpConnect \/ CoapConnect \/ Arrive \/ RecvNothing)
    BY DEF SetMac, SetIp6, SetPort, UdpConnect, CoapConnect, Call, Arrive, RecvNothing, nic,
           Nic!Accept
  <2>3. ~ \E accepted \in BOOLEAN : Send(DataLen, accepted)
    BY DEF Send, MacSend, Ip6Send, UdpSend, nic
  <2>4. PICK layer \in layers, accepted \in BOOLEAN : Recv(layer, accepted)
    BY <2>1, <2>2, <2>3 DEF Next, Receive
  <2>5. out' \in Frames /\ ret' = LayerRecv(layer, out')
    BY <1>1, <2>4, HandedOver DEF Recv
  <2>6. layer \in {"mac", "ip6", "udp"}
    BY <1>1, <2>4, UsesAssumption DEF TypeOK
  <2>7. ASSUME ret'.status = "OK", ret'.offset = 62
        PROVE  DatagramForUs(out') /\ ret'.len = out'.iplen - 8
    <3>1. MacRecv(out').offset # 62 /\ Ip6Recv(out').offset # 62
      BY <2>5, MacReturns, Ip6Returns DEF MacHdr, IpHdr
    <3>2. ret' = UdpRecv(out')
      BY <2>5, <2>6, <2>7, <3>1 DEF LayerRecv
    <3> QED BY <2>5, <2>7, <3>2, UdpReturns
  <2>8. ASSUME DatagramForUs(out') PROVE ret'.status = "OK"
    BY <2>5, <2>6, <2>8, NoneRefuses DEF LayerRecv
  <2> QED BY <2>7, <2>8
<1> QED BY <1>1, TypeCorrect, PTL DEF Spec, Delivered

-----------------------------------------------------------------------------
(* For every buffer but those of 82 to 85 bytes: what the check before an  *)
(* advertisement lets through fits.                                        *)
THEOREM BufferIsRespected ==
  ASSUME BufLens \cap 82 .. 85 = {}
  PROVE  Spec => []BufferRespected
<1>1. Init => BufferRespected
  BY FramesAssumption DEF Init, BufferRespected
<1>2. ASSUME TypeOK, BufferRespected, [Next]_vars PROVE BufferRespected'
  <2>1. CASE UNCHANGED <<high, buflen>>
    BY <1>2, <2>1 DEF BufferRespected
  <2>2. CASE Receive
    <3>1. PICK layer \in layers, accepted \in BOOLEAN : Recv(layer, accepted)
      BY <2>2 DEF Receive
    <3>2. out' \in Frames /\ buflen' = buflen
      BY <1>2, <3>1, HandedOver DEF Recv, config
    <3>3. /\ \/ AdvertisementFits /\ high' = MacHdr + IpHdr + AdvertisementSize
             \/ high' = out'.len
          /\ out'.len <= buflen
      BY <3>1 DEF Recv
    <3>4. buflen \in Nat /\ buflen \notin 82 .. 85 /\ out'.len \in Nat
      BY <1>2, <3>2, FramesAssumption DEF TypeOK
    <3> QED
      BY <3>2, <3>3, <3>4 DEF BufferRespected, AdvertisementFits, AdvertisementSize,
                              MacHdr, IpHdr, IcmpHdr, NaHdr, LlaHdr
  <2> QED
    BY <1>2, <2>1, <2>2
    DEF Next, vars, config, SetMac, SetIp6, SetPort, UdpConnect, CoapConnect, Call, Arrive,
        RecvNothing, Send, MacSend, Ip6Send, UdpSend
<1> QED BY <1>1, <1>2, TypeCorrect, PTL DEF Spec
=============================================================================
