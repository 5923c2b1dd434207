------------------------------- MODULE Stack -------------------------------
(***************************************************************************)
(* The MAC, IPv6 and UDP layers: three contexts, one buffer of the         *)
(* application that every frame is received into and sent from, and below  *)
(* them a network interface that keeps the promise of FrameQueue.          *)
(*                                                                         *)
(* The layers call one another downwards and nothing calls back, so a      *)
(* whole net_udp_recv is one step.  It may send: a neighbor solicitation   *)
(* is answered from inside net_ip6_recv, in the buffer it arrived in.      *)
(*                                                                         *)
(* A frame is a record of the header fields the code looks at; bytes are   *)
(* kept only as lengths.  An Ethernet or IPv6 address is a pair of its     *)
(* scope and the host, or the low 24 bits of the host, that it names.      *)
(***************************************************************************)
EXTENDS Naturals, Sequences

CONSTANTS
  Locals,     \* the hosts the application may configure itself as
  Peers,      \* the hosts it may configure as its peer
  Low,        \* function from hosts to the low 24 bits of their addresses
  Ports,      \* UDP ports, 0 for one that is not configured
  NextHeaders,\* what net_ip6_set_nexthdr is given
  Frames,     \* the frames that may arrive
  Later,      \* bound: those of them that may arrive after another
  BufLens,    \* lengths the application's buffer may have
  MaxFrames,  \* bound on the number of frames that arrive
  Uses,       \* the sets of layers an application may call, of "mac", "ip6", "udp"
  MaxCalls,   \* bound on the number of setters and connects called,
  MaxEvents   \*   and on that of calls and frames together

MacHdr == 14      \* NET_MAC_HDRSIZE
IpHdr == 40       \* NET_IP6_HDRSIZE
IcmpHdr == 4      \* NET_ICMPV6_HDRSIZE
NsHdr == 20       \* NET_ICMPV6_NS_HDRSIZE
NaHdr == 20       \* NET_ICMPV6_NA_HDRSIZE
LlaHdr == 8       \* NET_ICMPV6_NDP_OPT_LLA_HDRSIZE
UdpHdr == 8       \* NET_UDP_HDRSIZE

DataLen == 4      \* bytes the tests and the samples send

UDP == 17         \* NET_IP6_NH_UDP
ICMPV6 == 58      \* NET_IP6_NH_ICMPV6
IPV6 == "86DD"    \* NET_MAC_ETHERTYPE_IPV6
LB == "9000"      \* NET_MAC_ETHERTYPE_LB

(* A frame with none of its fields set.                                    *)
Blank == [len |-> 0, dmac |-> <<>>, smac |-> <<>>, ethertype |-> IPV6,
          version |-> 6, iplen |-> 0, nh |-> 0, src |-> <<>>, dst |-> <<>>,
          type |-> "none", target |-> <<>>, lladdr |-> <<>>,
          sport |-> 0, dport |-> 0, udplen |-> 0, sum |-> <<>>]

Hosts == DOMAIN Low

ASSUME HostsAssumption == Locals \subseteq Hosts /\ Peers \subseteq Hosts
ASSUME UsesAssumption == Uses \subseteq SUBSET {"mac", "ip6", "udp"}
ASSUME PortsAssumption == Ports \subseteq Nat
ASSUME FramesAssumption ==
  /\ \A f \in Frames : /\ DOMAIN f = DOMAIN Blank
                       /\ f.len \in Nat /\ f.iplen \in Nat /\ f.udplen \in Nat
  /\ Later \subseteq Frames /\ BufLens \subseteq Nat /\ MaxFrames \in Nat /\ MaxCalls \in Nat /\ MaxEvents \in Nat

Station(host) == <<"station", host>>
Multicast(suffix) == <<"33:33", suffix>>
AllNodesSuffix == <<"all">>
SolicitedSuffix(host) == <<"ff", Low[host]>>

Global(host) == <<"global", host>>
LinkLocal(host) == <<"link", host>>
SolicitedNode(host) == <<"solicited", Low[host]>>
AllNodes == <<"all", "nodes">>
Unspecified == <<"unspecified", "::">>

VARIABLES
  mac,       \* struct net_mac_ctx
  ip6,       \* struct net_ip6_ctx; its source is Global(host)
  udp,       \* struct net_udp_ctx
  buflen,    \* the length of its buffer, buflen of every call
  layers,    \* the layers the application calls
  connected, \* history: the connect called since the last setter of the IPv6 layer
  calls,     \* history: the number of setters and connects called
  log,       \* the interface: frames that arrived,
  taken,     \*   how many were received,
  out,       \*   the one received last
  tx,        \* the frame sent last, and the layer that was asked to send it
  answered,  \* history: numbers of the frames an answer was given to the interface for
  high,      \* the end of what the last receive wrote to the buffer
  ret        \* what the last receive returned

config == <<mac, ip6, udp, buflen, layers, connected, calls>>
nic == <<log, taken, out>>
vars == <<config, nic, tx, answered, high, ret>>

Nic == INSTANCE FrameQueue WITH Payloads <- Frames

Failed(errno) == [status |-> errno, offset |-> 0, len |-> 0]

(* NET_IP6_L2_MCSUFFIXES.                                                  *)
Suffixes(host) == {AllNodesSuffix, SolicitedSuffix(host)}

(* net_ip6_get_l3_cksum: a sum is known by what it was computed over.      *)
Sum(src, dst, nh) == <<src, dst, nh>>
NoSum == <<>>

(* The setters, one after the other, as the samples and the tests call     *)
(* them before anything else.                                              *)
Init ==
  /\ \E h \in Locals, p \in Peers :
       /\ mac = [src |-> h, dst |-> p, ethertype |-> IPV6, mcast |-> Suffixes(h)]
       /\ ip6 = [src |-> h, dst |-> Global(p), nh |-> UDP]
  /\ udp \in [sport : Ports \ {0}, dport : Ports \ {0}, sum : {NoSum}]
  /\ buflen \in BufLens /\ layers \in Uses
  /\ connected = "none" /\ calls = 0
  /\ Nic!Init
  /\ tx = [by |-> "none", frame |-> Blank]
  /\ answered = {} /\ high = 0
  /\ ret = Failed("NONE")

-----------------------------------------------------------------------------
(* The setters and the connects.                                           *)

Call ==
  /\ calls < MaxCalls /\ calls + Len(log) < MaxEvents
  /\ calls' = calls + 1
  /\ UNCHANGED <<nic, buflen, layers, tx, answered, high, ret>>

SetMac ==
  /\ Call
  /\ \E h \in Locals, p \in Peers, e \in {IPV6, LB} :
       mac' \in {[mac EXCEPT !.src = h], [mac EXCEPT !.dst = p],
                 [mac EXCEPT !.ethertype = e], [mac EXCEPT !.mcast = Suffixes(h)]}
  /\ UNCHANGED <<ip6, udp, connected>>

SetIp6 ==
  /\ Call
  /\ \E h \in Locals, p \in Peers, nh \in NextHeaders :
       ip6' \in {[ip6 EXCEPT !.src = h], [ip6 EXCEPT !.dst = Global(p)],
                 [ip6 EXCEPT !.nh = nh]}
  /\ connected' = "none"
  /\ UNCHANGED <<mac, udp>>

SetPort ==
  /\ Call
  /\ \E p \in Ports : udp' \in {[udp EXCEPT !.sport = p], [udp EXCEPT !.dport = p]}
  /\ UNCHANGED <<mac, ip6, connected>>

(* Mutant: the sum is taken for the protocol that is expected above.       *)
PseudoHeaderOfUdp == Sum(Global(ip6.src), ip6.dst, UDP)

PseudoHeader == Sum(Global(ip6.src), ip6.dst, ip6.nh)

(* net_udp_connect: the sum over the addresses is computed once.           *)
UdpConnect ==
  /\ Call
  /\ udp.sport # 0 /\ udp.dport # 0
  /\ udp' = [udp EXCEPT !.sum = PseudoHeader]
  /\ connected' = "udp"
  /\ UNCHANGED <<mac, ip6>>

(* net_coap_connect, which answers OK.                                     *)
CoapConnect ==
  /\ Call
  /\ connected' = IF connected = "none" THEN "coap" ELSE connected
  /\ UNCHANGED <<mac, ip6, udp>>

-----------------------------------------------------------------------------
(* Receiving: each layer calls the one below and looks at its own header.  *)

ToUs(dmac) ==
  \/ dmac = Station(mac.src)
  \/ \E suffix \in mac.mcast : dmac = Multicast(suffix)

(* Mutant: the length of the frame is not checked.                         *)
MacRecvUnchecked(f) ==
  IF f.ethertype = mac.ethertype /\ ToUs(f.dmac)
  THEN [status |-> "OK", offset |-> MacHdr, len |-> f.len - MacHdr]
  ELSE Failed("EAGAIN")

MacRecv(f) ==
  IF f.len >= MacHdr /\ f.ethertype = mac.ethertype /\ ToUs(f.dmac)
  THEN [status |-> "OK", offset |-> MacHdr, len |-> f.len - MacHdr]
  ELSE Failed("EAGAIN")

(* The checks every IPv6 packet goes through.                              *)
Ip6Accepts(f) ==
  /\ MacRecv(f).status = "OK"
  /\ MacRecv(f).len >= IpHdr
  /\ f.version = 6
  /\ f.iplen <= MacRecv(f).len - IpHdr

(* Mutant: the group of the address is not one of its destinations.        *)
MatchAddrNoGroup(dst) == dst \in {Global(ip6.src), LinkLocal(ip6.src), AllNodes}

(* _net_icmpv6_match_addr.                                                 *)
MatchAddr(dst) ==
  dst \in {Global(ip6.src), LinkLocal(ip6.src), AllNodes, SolicitedNode(ip6.src)}

(* A neighbor solicitation that is answered.                               *)
Solicits(f) ==
  /\ Ip6Accepts(f) /\ f.nh = ICMPV6
  /\ f.iplen >= IcmpHdr + NsHdr
  /\ f.type = "NS"
  /\ MatchAddr(f.dst)
  /\ f.target \in {Global(ip6.src), LinkLocal(ip6.src)}

(* _net_ip6_process_icmpv6 never hands anything to the upper layer.        *)
Icmpv6Status(f) ==
  IF \/ f.iplen < IcmpHdr
     \/ (f.type = "NS" /\ MatchAddr(f.dst) /\ f.iplen < IcmpHdr + NsHdr)
  THEN "EOVERFLOW" ELSE "EAGAIN"

Ip6Status(f) ==
  LET lower == MacRecv(f)
  IN  IF lower.status # "OK" THEN lower.status
      ELSE IF lower.len < IpHdr THEN "EOVERFLOW"
      ELSE IF f.version # 6 THEN "EPROTO"
      ELSE IF f.iplen > lower.len - IpHdr THEN "EOVERFLOW"
      ELSE IF f.nh = ICMPV6 THEN Icmpv6Status(f)
      ELSE IF f.nh = ip6.nh /\ f.src = ip6.dst /\ f.dst = Global(ip6.src) THEN "OK"
      ELSE "EAGAIN"

(* Mutant: what is behind the IPv6 packet in the frame is delivered too.   *)
Ip6RecvPadded(f) ==
  IF Ip6Status(f) = "OK"
  THEN [status |-> "OK", offset |-> MacRecv(f).offset + IpHdr,
        len |-> MacRecv(f).len - IpHdr]
  ELSE Failed(Ip6Status(f))

Ip6Recv(f) ==
  IF Ip6Status(f) = "OK"
  THEN [status |-> "OK", offset |-> MacRecv(f).offset + IpHdr, len |-> f.iplen]
  ELSE Failed(Ip6Status(f))

(* A length that does not fit is refused, but the region is not cleared.   *)
UdpRecv(f) ==
  LET lower == Ip6Recv(f)
  IN  IF lower.status # "OK" THEN lower
      ELSE IF lower.len < UdpHdr THEN Failed("EOVERFLOW")
      ELSE IF f.sport # udp.dport \/ f.dport # udp.sport THEN Failed("EAGAIN")
      ELSE IF lower.len < f.udplen THEN [lower EXCEPT !.status = "EOVERFLOW"]
      ELSE [status |-> "OK", offset |-> lower.offset + UdpHdr, len |-> lower.len - UdpHdr]

(* net_ip6_recv is called by net_udp_recv, and by the tests.               *)
LayerRecv(layer, f) ==
  CASE layer = "mac" -> MacRecv(f)
    [] layer = "ip6" -> Ip6Recv(f)
    [] layer = "udp" -> UdpRecv(f)

-----------------------------------------------------------------------------
(* _net_icmpv6_send_na: the advertisement takes the place of the           *)
(* solicitation in the buffer, field after field.                          *)

AdvertisementSize == IcmpHdr + NaHdr + LlaHdr

(* Mutant: the option is not counted.                                      *)
AdvertisementFitsBare == buflen >= MacHdr + IpHdr + NaHdr

(* The check adds up the headers and forgets one.                          *)
AdvertisementFits == buflen >= MacHdr + IpHdr + NaHdr + LlaHdr

(* The new source address lies where the one of the solicitation was.      *)
SourceWritten(ns) == [ns EXCEPT !.src = LinkLocal(ip6.src)]

(* Mutant: the soliciting address is not copied before that.               *)
AdvertisementUncopied(ns) ==
  LET src_addr_copy == SourceWritten(ns).src
      dst == IF ns.src = Unspecified THEN AllNodes ELSE src_addr_copy
  IN  [SourceWritten(ns) EXCEPT
         !.dst = dst, !.type = "NA", !.lladdr = Station(mac.src),
         !.iplen = AdvertisementSize, !.len = MacHdr + IpHdr + AdvertisementSize,
         !.sum = Sum(LinkLocal(ip6.src), dst, ICMPV6)]

Advertisement(ns) ==
  LET src_addr_copy == ns.src
      dst == IF src_addr_copy = Unspecified THEN AllNodes ELSE src_addr_copy
  IN  [SourceWritten(ns) EXCEPT
         !.dst = dst, !.type = "NA", !.lladdr = Station(mac.src),
         !.iplen = AdvertisementSize, !.len = MacHdr + IpHdr + AdvertisementSize,
         !.sum = Sum(LinkLocal(ip6.src), dst, ICMPV6)]

(* net_mac_send: the interface takes the whole frame, or does not.         *)
Transmit(layer, frame, accepted) ==
  tx' = IF accepted
        THEN [by |-> layer,
              frame |-> [frame EXCEPT !.dmac = Station(mac.dst), !.smac = Station(mac.src),
                                      !.ethertype = mac.ethertype]]
        ELSE tx

Arrive ==
  /\ Len(log) < MaxFrames /\ calls + Len(log) < MaxEvents
  /\ \E f \in IF log = <<>> THEN Frames ELSE Later : Nic!Accept(f)
  /\ UNCHANGED <<config, tx, answered, high, ret>>

(* A receive that finds no frame.                                          *)
RecvNothing ==
  /\ ret' = Failed("EAGAIN")
  /\ UNCHANGED <<config, nic, tx, answered, high>>

(* A receive of the given layer that finds one that fits the buffer.  What *)
(* becomes of the advertisement is not reported to the caller.             *)
Recv(layer, accepted) ==
  /\ Nic!HandOver /\ out'.len <= buflen
  /\ ret' = LayerRecv(layer, out')
  /\ IF layer # "mac" /\ Solicits(out') /\ AdvertisementFits
     THEN /\ Transmit("nd", Advertisement(out'), accepted)
          /\ answered' = answered \union {taken'}
          /\ high' = MacHdr + IpHdr + AdvertisementSize
     ELSE /\ high' = out'.len
          /\ UNCHANGED <<tx, answered>>
  /\ UNCHANGED config

-----------------------------------------------------------------------------
(* Sending, from the payload position the layer names.  Each layer writes  *)
(* its header in front of what it was given.                               *)

Ip6Frame(nh, datalen) ==
  [Blank EXCEPT !.version = 6, !.iplen = datalen, !.nh = nh,
                !.src = Global(ip6.src), !.dst = ip6.dst,
                !.len = MacHdr + IpHdr + datalen]

MacSend(datalen, accepted) ==
  /\ Transmit("mac", [Blank EXCEPT !.len = MacHdr + datalen], accepted)
  /\ UNCHANGED <<config, nic, answered, high, ret>>

Ip6Send(datalen, accepted) ==
  /\ Transmit("ip6", Ip6Frame(ip6.nh, datalen), accepted)
  /\ UNCHANGED <<config, nic, answered, high, ret>>

(* net_udp_send, also for net_coap_send: the sum of the last connect.      *)
UdpSend(datalen, accepted) ==
  /\ Transmit("udp", [Ip6Frame(ip6.nh, UdpHdr + datalen) EXCEPT
                        !.sport = udp.sport, !.dport = udp.dport,
                        !.udplen = UdpHdr + datalen, !.sum = udp.sum], accepted)
  /\ UNCHANGED <<config, nic, answered, high, ret>>

Send(datalen, accepted) ==
  \/ ("mac" \in layers /\ MacSend(datalen, accepted))
  \/ ("ip6" \in layers /\ Ip6Send(datalen, accepted))
  \/ ("udp" \in layers /\ UdpSend(datalen, accepted))

Receive == \E layer \in layers, accepted \in BOOLEAN : Recv(layer, accepted)

Next ==
  \/ SetMac
  \/ SetIp6
  \/ SetPort
  \/ UdpConnect
  \/ CoapConnect
  \/ Arrive
  \/ RecvNothing
  \/ Receive
  \/ \E accepted \in BOOLEAN : Send(DataLen, accepted)

Spec == Init /\ [][Next]_vars

(* The application goes on polling, and a poll finds a frame that is there *)
(* in the end (W5500Rx, EachTaken).                                        *)
FairSpec == Spec /\ WF_vars(Receive)

-----------------------------------------------------------------------------
Sums == {NoSum} \union {Sum(Global(h), Global(p), nh) :
                          h \in Locals, p \in Peers, nh \in NextHeaders \union {UDP}}

TypeOK ==
  /\ mac \in [src : Locals, dst : Peers, ethertype : {IPV6, LB},
              mcast : {Suffixes(h) : h \in Locals}]
  /\ ip6 \in [src : Locals, dst : {Global(p) : p \in Peers}, nh : NextHeaders \union {UDP}]
  /\ udp \in [sport : Ports, dport : Ports, sum : Sums]
  /\ buflen \in BufLens /\ layers \in Uses
  /\ connected \in {"none", "udp", "coap"}
  /\ calls \in Nat
  /\ log \in Seq(Frames)
  /\ taken \in 0 .. Len(log)
  /\ tx.by \in {"none", "mac", "ip6", "udp", "nd"}
  /\ answered \subseteq 1 .. taken
  /\ high \in Nat
  /\ ret \in [status : {"NONE", "OK", "EAGAIN", "EPROTO", "EOVERFLOW"},
              offset : {0, MacHdr, MacHdr + IpHdr, MacHdr + IpHdr + UdpHdr}, len : Nat]

(* A neighbor advertisement answers the solicitation just received: it     *)
(* goes to who asked (to all nodes if that has no address yet), tells of   *)
(* the address that was asked for, which is ours, and gives our station,   *)
(* although it is written over the solicitation.                           *)
AdvertisementRight ==
  [][tx' # tx /\ tx'.by = "nd" =>
       LET ns == log[taken']
           na == tx'.frame
       IN  /\ ns.nh = ICMPV6 /\ ns.type = "NS"
           /\ ns.target \in {Global(ip6.src), LinkLocal(ip6.src)}
           /\ na.nh = ICMPV6 /\ na.type = "NA"
           /\ na.target = ns.target
           /\ na.lladdr = Station(mac.src)
           /\ na.src = LinkLocal(ip6.src)
           /\ na.dst = IF ns.src = Unspecified THEN AllNodes ELSE ns.src]_vars

(* What the checksum of a datagram or advertisement was computed over is   *)
(* what its IPv6 header says: of an advertisement always, of a datagram if *)
(* net_udp_connect was called after the last setter of the IPv6 layer,     *)
(* whatever setters of the other two were called since.                    *)
ChecksumRight ==
  [][tx' # tx /\ (tx'.by = "nd" \/ (tx'.by = "udp" /\ connected = "udp")) =>
       tx'.frame.sum = Sum(tx'.frame.src, tx'.frame.dst, tx'.frame.nh)]_vars

(* What net_coap_connect and the comment of net_udp_send promise: when the *)
(* connection was made by net_coap_connect, the checksum is set as well.   *)
CoapChecksumRight ==
  [][tx' # tx /\ tx'.by = "udp" /\ connected = "coap" =>
       tx'.frame.sum = Sum(tx'.frame.src, tx'.frame.dst, tx'.frame.nh)]_vars

(* A whole datagram from the peer's port to ours, in a frame we listen to. *)
(* The lengths nest: UDP in IPv6, IPv6 in the frame, each perhaps shorter. *)
DatagramForUs(f) ==
  /\ f.ethertype = mac.ethertype
  /\ f.dmac \in {Station(mac.src)} \union {Multicast(suffix) : suffix \in mac.mcast}
  /\ f.version = 6 /\ f.nh = ip6.nh /\ f.nh # ICMPV6
  /\ f.src = ip6.dst /\ f.dst = Global(ip6.src)
  /\ f.sport = udp.dport /\ f.dport = udp.sport
  /\ f.iplen >= 8 /\ f.udplen <= f.iplen /\ f.len >= 54 + f.iplen

(* Such datagrams and no others are handed to the application, and none is *)
(* refused by a layer it was received through.  What is handed over begins *)
(* behind the UDP header and ends with the IPv6 packet: the whole payload, *)
(* none of the frame's padding, but also what the packet holds behind a    *)
(* datagram whose UDP length is the shorter one.                           *)
Delivered ==
  [][taken' # taken =>
       /\ ret'.status = "OK" /\ ret'.offset = 62
            => DatagramForUs(out') /\ ret'.len = out'.iplen - 8
       /\ DatagramForUs(out') => ret'.status = "OK"]_vars

(* The station is on the group of its address, and the frame is a whole    *)
(* solicitation of one of its two addresses, sent to a place it listens to.*)
Solicitation(f) ==
  LET h == ip6.src
  IN  /\ mac.src = h /\ mac.mcast = Suffixes(h) /\ mac.ethertype = IPV6
      /\ f.ethertype = IPV6 /\ f.version = 6 /\ f.nh = ICMPV6 /\ f.type = "NS"
      /\ f.iplen >= 24 /\ f.len >= 54 + f.iplen
      /\ f.dmac \in {Station(h), Multicast(AllNodesSuffix), Multicast(SolicitedSuffix(h))}
      /\ f.dst \in {Global(h), LinkLocal(h), AllNodes, SolicitedNode(h)}
      /\ f.target \in {Global(h), LinkLocal(h)}

(* If the application polls the IPv6 layer or one above it, with a buffer  *)
(* that frames and advertisement fit, each solicitation is answered in the *)
(* end, unless the application changes its addresses before.               *)
SolicitationAnswered ==
  \A n \in 1 .. MaxFrames :
    (/\ n > taken /\ n <= Len(log) /\ Solicitation(log[n])
     /\ "mac" \notin layers /\ buflen >= 86)
      ~> (n \in answered \/ (n <= Len(log) /\ ~ Solicitation(log[n])))

(* No receive writes past the buffer: what arrives fits, and so does the   *)
(* advertisement ("Check that buffer is big enough").                      *)
BufferRespected == high <= buflen
=============================================================================
