------------------------------ MODULE MCStack ------------------------------
(* Small instances of Stack for TLC.  The station may be "own" or "own2";  *)
(* the low 24 bits of "twin" are those of "own", so that its frames come   *)
(* to the same group.                                                      *)
EXTENDS Stack, TLC

MCLow == ("own" :> 1) @@ ("own2" :> 2) @@ ("peer" :> 3) @@ ("twin" :> 1)

(* A datagram of four bytes from the peer, behind it two bytes of padding. *)
Datagram ==
  [Blank EXCEPT !.len = 68, !.dmac = Station("own"), !.smac = Station("peer"),
                !.iplen = 12, !.nh = UDP, !.src = Global("peer"), !.dst = Global("own"),
                !.sport = 1, !.dport = 1, !.udplen = 12]

(* One of its fields changed, or cut off: in front of each header, at its  *)
(* end, and where a length does not fit by one.                            *)
Datagrams ==
  {Datagram}
  \union {[Datagram EXCEPT !.len = n] : n \in {13, 14, 53, 54, 65, 66}}
  \union {[Datagram EXCEPT !.iplen = n, !.udplen = n] : n \in {7, 8, 14, 15}}
  \union {[Datagram EXCEPT !.udplen = n] : n \in {8, 13}}
  \union {[Datagram EXCEPT !.dmac = a] :
            a \in {Station("own2"), Station("twin"), Multicast(AllNodesSuffix),
                   Multicast(SolicitedSuffix("own")), Multicast(SolicitedSuffix("peer"))}}
  \union {[Datagram EXCEPT !.ethertype = LB], [Datagram EXCEPT !.version = 4],
          [Datagram EXCEPT !.nh = 253], [Datagram EXCEPT !.src = Global("twin")],
          [Datagram EXCEPT !.dst = Global("own2")], [Datagram EXCEPT !.sport = 0],
          [Datagram EXCEPT !.dport = 0]}

(* A solicitation with the option that gives the source's station, and one *)
(* without; the shortest.                                                  *)
NeighborSolicitation ==
  [Blank EXCEPT !.len = 86, !.dmac = Multicast(SolicitedSuffix("own")),
                !.smac = Station("twin"), !.iplen = 32, !.nh = ICMPV6,
                !.src = LinkLocal("twin"), !.dst = SolicitedNode("own"),
                !.type = "NS", !.target = Global("own")]
ShortSolicitation == [NeighborSolicitation EXCEPT !.len = 78, !.iplen = 24]

Varied(ns) ==
  {ns}
  \union {[ns EXCEPT !.smac = Station("peer"), !.src = a] :
            a \in {Global("peer"), LinkLocal("peer"), Unspecified}}
  \union {[ns EXCEPT !.dst = a, !.dmac = Station("own")] :
            a \in {Global("own"), LinkLocal("own"), AllNodes, Global("peer"),
                   SolicitedNode("peer"), Global("own2")}}
  \union {[ns EXCEPT !.dmac = Multicast(AllNodesSuffix)]}
  \union {[ns EXCEPT !.target = a] :
            a \in {LinkLocal("own"), Global("twin"), LinkLocal("twin"), Global("own2")}}
  \union {[ns EXCEPT !.type = t] : t \in {"NA", "RA"}}
  \union {[ns EXCEPT !.iplen = n] : n \in {3, 4, 23}}

(* One for the other address the station may change to.                    *)
Solicitation2 ==
  [NeighborSolicitation EXCEPT !.dmac = Multicast(SolicitedSuffix("own2")),
                               !.dst = SolicitedNode("own2"), !.target = LinkLocal("own2")]

MCFrames ==
  Datagrams \union Varied(NeighborSolicitation)
  \union {Solicitation2, ShortSolicitation, [ShortSolicitation EXCEPT !.iplen = 23],
          [ShortSolicitation EXCEPT !.src = Unspecified]}

(* Those that may arrive after another.                                    *)
MCLater == {Datagram, NeighborSolicitation, Solicitation2}
=============================================================================
