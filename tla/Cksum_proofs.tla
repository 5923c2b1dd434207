---------------------------- MODULE Cksum_proofs ----------------------------
(***************************************************************************)
(* The sum with the end-around carry stands for the full sum of the words, *)
(* for every width of a byte, every packet and every order of calls; hence *)
(* a computed checksum is never zero and completes its words.              *)
(***************************************************************************)
EXTENDS Cksum, Arithmetic, SequenceTheorems, TLAPS

(* The modulus and the words.                                              *)
LEMMA Words ==
  /\ WordMod \in Nat /\ AllOnes \in Nat /\ AllOnes > 0 /\ WordMod = AllOnes + 1
  /\ \A x, y \in 0 .. Base - 1 : Base * x + y \in 0 .. AllOnes
  /\ \A x \in 0 .. Base - 1 : Base * x \in 0 .. AllOnes
<1>1. Base \in Nat /\ Base > 2
  BY BaseAssumption
<1>2. Base * Base \in Nat /\ Base * Base > 2
  BY <1>1
<1>3. \A x \in 0 .. Base - 1 : Base * x =< Base * (Base - 1) /\ Base * x >= 0
  BY <1>1
<1>4. Base * (Base - 1) = Base * Base - Base
  BY <1>1
<1>5. \A x, y \in 0 .. Base - 1 : Base * x + y =< Base * Base - 1
  BY <1>1, <1>2, <1>3, <1>4
<1> QED
  BY <1>1, <1>2, <1>3, <1>4, <1>5 DEF WordMod, AllOnes

(* One turn of the loop keeps the sum within 16 bits, and standing for the *)
(* words.                                                                  *)
LEMMA CarryRepresents ==
  ASSUME NEW n \in 0 .. AllOnes, NEW words \in Nat, NEW w \in 0 .. AllOnes,
         Represents(n, words)
  PROVE  Carry(n + w) \in 0 .. AllOnes /\ Represents(Carry(n + w), words + w)
<1>0. AllOnes \in Nat /\ AllOnes > 0 /\ WordMod = AllOnes + 1
  BY Words
<1>6. AllOnes \in Nat \ {0}
  BY <1>0
<1>1. n \in Nat /\ w \in Nat /\ n + w \in Nat /\ n =< AllOnes /\ w =< AllOnes
  BY <1>0
<1>2. ((n + w) % AllOnes) = ((words + w) % AllOnes)
  <2>1. (((n % AllOnes) + w) % AllOnes) = ((n + w) % AllOnes)
    BY <1>6, <1>1, ModOfSum, Zenon
  <2>2. (((words % AllOnes) + w) % AllOnes) = ((words + w) % AllOnes)
    BY <1>6, <1>1, ModOfSum, Zenon
  <2> QED
    BY <2>1, <2>2 DEF Represents
<1>3. n = 0 <=> words = 0
  BY DEF Represents
<1>4. CASE n + w < WordMod
  <2>1. Carry(n + w) = n + w
    BY <1>0, <1>1, <1>4 DEF Carry
  <2>2. n + w \in 0 .. AllOnes
    BY <1>0, <1>1, <1>4
  <2>3. n + w = 0 <=> words + w = 0
    BY <1>1, <1>3
  <2> QED
    BY <2>1, <2>2, <2>3, <1>2 DEF Represents
<1>5. CASE n + w >= WordMod
  <2>1. ((n + w) % WordMod) = n + w - WordMod
    <3>1. n + w = 1 * WordMod + (n + w - WordMod) /\ n + w - WordMod \in 0 .. WordMod - 1
      BY <1>0, <1>1, <1>5
    <3> QED
      BY <1>0, <1>1, <3>1, ModByQuotient
  <2>2. Carry(n + w) = n + w - AllOnes
    BY <1>0, <1>1, <1>5, <2>1 DEF Carry
  <2>3. n + w - AllOnes \in 0 .. AllOnes /\ n + w - AllOnes > 0
    BY <1>0, <1>1, <1>5
  <2>4. ((n + w - AllOnes) % AllOnes) = ((n + w) % AllOnes)
    <3>1. n + w - AllOnes \in Nat /\ AllOnes \in Nat
      BY <2>3, <1>0
    <3>2. (((n + w - AllOnes) + AllOnes) % AllOnes) = ((n + w - AllOnes) % AllOnes)
      BY <3>1, <1>6, ModOfWhole, Zenon
    <3>3. (n + w - AllOnes) + AllOnes = n + w
      BY <1>0, <1>1
    <3> QED
      BY <3>2, <3>3
  <2>5. words + w # 0
    BY <1>0, <1>1, <1>5, <1>3
  <2> QED
    BY <2>2, <2>3, <2>4, <2>5, <1>2 DEF Represents
<1> QED
  BY <1>0, <1>1, <1>4, <1>5


-----------------------------------------------------------------------------
(* The calls to come have something to add.                                *)
Pieces == rest \in Seq(ByteSeq \ {<<>>})

IInv == TypeOK /\ SumRight /\ Pieces

(* The two bytes of a number.                                              *)
LEMMA WordBytes ==
  ASSUME NEW n \in 0 .. AllOnes
  PROVE  Word(n) \in ByteSeq \ {<<>>}
<1>1. Base \in Nat \ {0} /\ Base * Base \in Nat
  BY BaseAssumption
<1>2. n \in Nat /\ n < Base * Base
  BY <1>1, Words DEF WordMod, AllOnes
<1> DEFINE q == n \div Base
           r == n % Base
<1>3. r \in 0 .. Base - 1 /\ q \in Nat /\ n = Base * q + r
  BY <1>1, <1>2, DivMod
<1> HIDE DEF q, r
<1>4. q < Base
  <2>1. CASE q >= Base
    <3>1. Base * q >= Base * Base
      BY <1>1, <1>3, <2>1
    <3> QED
      BY <3>1, <1>1, <1>2, <1>3
  <2> QED
    BY <2>1, <1>1, <1>3
<1>5. q \in 0 .. Base - 1
  BY <1>1, <1>3, <1>4
<1>6. <<q, r>> \in Seq(0 .. Base - 1) /\ <<q, r>> # <<>>
  BY <1>3, <1>5
<1> QED
  BY <1>6 DEF Word, ByteSeq, q, r

(* The first of four pieces, and the rest.                                 *)
LEMMA FirstOfFour ==
  ASSUME NEW a, NEW b, NEW c, NEW d
  PROVE  <<a, b, c, d>> = <<a>> \o <<b, c, d>>
OBVIOUS

(* A packet is a string of bytes, and its length a 16-bit number.          *)
LEMMA PacketOfBytes ==
  ASSUME NEW by \in {"udp", "icmpv6"}, NEW head \in Heads, NEW body \in Payloads,
         NEW ck \in 0 .. AllOnes,
         NEW p, p = [by |-> by, head |-> head, data |-> body, cksum |-> ck]
  PROVE  PacketLen(p) \in 0 .. AllOnes /\ PacketBytes(p) \in ByteSeq \ {<<>>}
<1>1. head \in ByteSeq /\ body \in ByteSeq /\ Len(head) > 0
  BY BytesAssumption DEF ByteSeq
<1>2. Len(head) \in Nat /\ Len(body) \in Nat /\ Len(head) + 4 + Len(body) < WordMod
  BY <1>1, BytesAssumption DEF ByteSeq
<1>3. p.by = by /\ p.head = head /\ p.data = body /\ p.cksum = ck
  OBVIOUS
<1>4. PacketLen(p) \in 0 .. AllOnes
  BY <1>2, <1>3, Words DEF PacketLen
<1> DEFINE L == IF p.by = "udp" THEN Word(PacketLen(p)) ELSE <<>>
           C == Word(ck)
<1>5. L \in ByteSeq /\ C \in ByteSeq
  <2>1. Word(PacketLen(p)) \in ByteSeq /\ C \in ByteSeq
    BY <1>4, WordBytes
  <2>2. <<>> \in ByteSeq
    BY DEF ByteSeq
  <2> QED
    BY <2>1, <2>2
<1> HIDE DEF L, C
<1>6. head \o L \in ByteSeq /\ Len(head \o L) = Len(head) + Len(L)
  BY <1>1, <1>5, ConcatProperties DEF ByteSeq
<1>7. (head \o L) \o C \in ByteSeq /\ Len((head \o L) \o C) = Len(head \o L) + Len(C)
  BY <1>5, <1>6, ConcatProperties DEF ByteSeq
<1>8. ((head \o L) \o C) \o body \in ByteSeq
      /\ Len(((head \o L) \o C) \o body) = Len((head \o L) \o C) + Len(body)
  BY <1>1, <1>7, ConcatProperties DEF ByteSeq
<1>9. Len(L) \in Nat /\ Len(C) \in Nat
  BY <1>5 DEF ByteSeq
<1>10. ((head \o L) \o C) \o body # <<>>
  <2>1. Len(((head \o L) \o C) \o body) > 0
    BY <1>1, <1>2, <1>6, <1>7, <1>8, <1>9
  <2> QED
    BY <2>1
<1>11. PacketBytes(p) = ((head \o L) \o C) \o body
  BY <1>3 DEF PacketBytes, L, C
<1> QED
  BY <1>4, <1>8, <1>10, <1>11

LEMMA InitIInv == Init => IInv
<1> SUFFICES ASSUME Init PROVE IInv
  OBVIOUS
<1>1. 0 \in 0 .. AllOnes
  BY Words
<1>2. TypeOK
  BY <1>1 DEF Init, TypeOK, ByteSeq
<1>3. Represents(0, 0)
  BY DEF Represents
<1> QED
  BY <1>2, <1>3 DEF Init, IInv, SumRight, Pieces

(* What a sum is started with: pieces that are not empty.                  *)
LEMMA StartKeeps ==
  ASSUME IInv, NEW purpose \in {"connect", "udp", "icmpv6"}, NEW first \in ByteSeq \ {<<>>},
         NEW others \in Seq(ByteSeq \ {<<>>}), NEW n \in 0 .. AllOnes, NEW words \in Nat,
         Represents(n, words),
         packet' \in [by : {"udp", "icmpv6"}, head : Heads, data : Payloads, cksum : 0 .. AllOnes],
         covered' \in Nat,
         Start(purpose, <<first>> \o others, n, words)
  PROVE  IInv'
<1>1. Head(<<first>> \o others) = first /\ Tail(<<first>> \o others) = others
  OBVIOUS
<1>2. data' = first /\ rest' = others
  BY <1>1 DEF Start
<1>3. TypeOK'
  <2>1. Len(first) \in Nat
    BY DEF ByteSeq
  <2>2. others \in Seq(ByteSeq)
    OBVIOUS
  <2> QED
    BY <1>2, <2>1, <2>2 DEF IInv, TypeOK, Start
<1>4. SumRight'
  BY <1>2 DEF IInv, SumRight, Start, Represents
<1> QED
  BY <1>2, <1>3, <1>4 DEF IInv, Pieces

LEMMA NextIInv == IInv /\ [Next]_vars => IInv'
<1> SUFFICES ASSUME IInv, [Next]_vars PROVE IInv'
  OBVIOUS
<1> USE DEF IInv
<1>0. /\ src \in ByteSeq \ {<<>>} /\ dst \in ByteSeq \ {<<>>}
      /\ Len(data) \in Nat /\ rest \in Seq(ByteSeq \ {<<>>}) /\ data \in ByteSeq
  <2>1. src \in ByteSeq /\ dst \in ByteSeq /\ Len(src) > 0 /\ Len(dst) > 0
    BY BytesAssumption DEF TypeOK, ByteSeq
  <2> QED
    BY <2>1 DEF TypeOK, ByteSeq, Pieces
<1>1. \A words \in Nat, w \in 0 .. AllOnes :
        Represents(sum, words) =>
          Carry(sum + w) \in 0 .. AllOnes /\ Represents(Carry(sum + w), words + w)
  BY CarryRepresents DEF TypeOK
<1>2. ASSUME NEW w \in 0 .. AllOnes, Add(w)
      PROVE  sum' \in 0 .. AllOnes /\ total' \in Nat /\ Represents(sum', total')
  <2>1. w \in Nat
    BY Words
  <2> QED
    BY <1>1, <1>2, <2>1 DEF Add, TypeOK, SumRight
<1>13. \A k \in 1 .. Len(data) : data[k] \in 0 .. Base - 1
  <2> DEFINE S == 0 .. Base - 1
  <2>1. data \in Seq(S)
    BY <1>0 DEF ByteSeq
  <2> HIDE DEF S
  <2>2. \A k \in 1 .. Len(data) : data[k] \in S
    BY <2>1
  <2> QED
    BY <2>2 DEF S
<1>14. i \in Nat /\ i =< Len(data)
  BY <1>0 DEF TypeOK
<1>3. CASE AddWord
  <2>0. i + 1 \in 1 .. Len(data) /\ i + 2 \in 1 .. Len(data)
    BY <1>0, <1>14, <1>3 DEF AddWord
  <2>1. data[i + 1] \in 0 .. Base - 1 /\ data[i + 2] \in 0 .. Base - 1
    BY <1>13, <2>0, Zenon
  <2>2. Base * data[i + 1] + data[i + 2] \in 0 .. AllOnes
    BY <2>1, Words
  <2>3. sum' \in 0 .. AllOnes /\ total' \in Nat /\ Represents(sum', total')
    BY <1>2, <1>3, <2>2 DEF AddWord
  <2>4. i' \in 0 .. Len(data)
    BY <1>0, <1>3 DEF AddWord, TypeOK
  <2>5. TypeOK'
    BY <1>3, <2>3, <2>4 DEF AddWord, TypeOK
  <2> QED
    BY <1>3, <2>3, <2>5 DEF AddWord, SumRight, Pieces, Represents
<1>4. CASE AddLastByte
  <2>0. i + 1 \in 1 .. Len(data)
    BY <1>0, <1>14, <1>4 DEF AddLastByte
  <2>1. data[i + 1] \in 0 .. Base - 1
    BY <1>13, <2>0, Zenon
  <2>2. Base * data[i + 1] \in 0 .. AllOnes
    BY <2>1, Words
  <2>3. sum' \in 0 .. AllOnes /\ total' \in Nat /\ Represents(sum', total')
    BY <1>2, <1>4, <2>2 DEF AddLastByte
  <2>4. i' \in 0 .. Len(data)
    BY <1>0, <1>4 DEF AddLastByte, TypeOK
  <2>5. TypeOK'
    BY <1>4, <2>3, <2>4 DEF AddLastByte, TypeOK
  <2> QED
    BY <1>4, <2>3, <2>5 DEF AddLastByte, SumRight, Pieces, Represents
<1>5. CASE NextCall
  <2>1. Head(rest) \in ByteSeq \ {<<>>} /\ Tail(rest) \in Seq(ByteSeq \ {<<>>})
    BY <1>0, <1>5 DEF NextCall
  <2>2. Len(Head(rest)) \in Nat /\ Tail(rest) \in Seq(ByteSeq)
    BY <2>1 DEF ByteSeq
  <2>3. TypeOK'
    BY <1>5, <2>1, <2>2 DEF NextCall, TypeOK
  <2> QED
    BY <1>5, <2>1, <2>3 DEF NextCall, SumRight, Pieces, Represents
<1>6. CASE Connect
  <2>1. <<dst, <<0, NextHeader>>>> \in Seq(ByteSeq \ {<<>>})
    <3>1. <<0, NextHeader>> \in ByteSeq \ {<<>>}
      BY BaseAssumption, BytesAssumption DEF ByteSeq
    <3> QED
      BY <1>0, <3>1
  <2>2. <<src, dst, <<0, NextHeader>>>> = <<src>> \o <<dst, <<0, NextHeader>>>>
    OBVIOUS
  <2>3. Represents(0, 0) /\ 0 \in 0 .. AllOnes
    BY Words DEF Represents
  <2>4. packet' = packet /\ covered' = covered
    BY <1>6 DEF Connect
  <2>5. packet' \in [by : {"udp", "icmpv6"}, head : Heads, data : Payloads, cksum : 0 .. AllOnes]
        /\ covered' \in Nat
    BY <2>4 DEF TypeOK
  <2>6. Start("connect", <<src>> \o <<dst, <<0, NextHeader>>>>, 0, 0)
    BY <1>6, <2>2 DEF Connect
  <2> QED
    BY <1>0, <2>1, <2>3, <2>5, <2>6, StartKeeps
<1>7. CASE Connected
  <2>1. TypeOK'
    BY <1>7 DEF Connected, TypeOK
  <2> QED
    BY <1>7, <2>1 DEF Connected, SumRight, Pieces, Represents
<1>8. ASSUME Cleared
      PROVE  /\ packet' \in [by : {"udp", "icmpv6"}, head : Heads, data : Payloads, cksum : 0 .. AllOnes]
             /\ covered' \in Nat
             /\ Word(PacketLen(packet)) \in ByteSeq \ {<<>>}
             /\ PacketBytes(packet') \in ByteSeq \ {<<>>}
  <2>1. PICK by \in {"udp", "icmpv6"}, head \in Heads, body \in Payloads, ck \in 0 .. AllOnes :
          packet = [by |-> by, head |-> head, data |-> body, cksum |-> ck]
    BY DEF TypeOK
  <2>2. packet' = [by |-> by, head |-> head, data |-> body, cksum |-> 0]
    BY <1>8, <2>1 DEF Cleared
  <2>3. 0 \in 0 .. AllOnes
    BY Words
  <2>4. PacketLen(packet) \in 0 .. AllOnes
    BY <2>1, PacketOfBytes
  <2>5. PacketBytes(packet') \in ByteSeq \ {<<>>}
    <3> DEFINE cleared == [by |-> by, head |-> head, data |-> body, cksum |-> 0]
    <3>1. PacketBytes(cleared) \in ByteSeq \ {<<>>}
      BY <2>1, <2>3, PacketOfBytes
    <3> QED
      BY <2>2, <3>1, Zenon
  <2>6. packet' \in [by : {"udp", "icmpv6"}, head : Heads, data : Payloads, cksum : 0 .. AllOnes]
    BY <2>2, <2>3
  <2>7. covered' \in Nat
    BY <1>8 DEF Cleared
  <2>8. Word(PacketLen(packet)) \in ByteSeq \ {<<>>}
    BY <2>4, WordBytes
  <2> QED
    BY <2>5, <2>6, <2>7, <2>8, Zenon
<1>9. CASE SendUdp
  <2>1. Start("udp", <<Word(PacketLen(packet))>> \o <<PacketBytes(packet')>>, pre, preTotal)
    <3>1. <<Word(PacketLen(packet)), PacketBytes(packet')>>
            = <<Word(PacketLen(packet))>> \o <<PacketBytes(packet')>>
      OBVIOUS
    <3> QED
      BY <1>9, <3>1 DEF SendUdp
  <2>2. Cleared
    BY <1>9 DEF SendUdp
  <2>3. <<PacketBytes(packet')>> \in Seq(ByteSeq \ {<<>>})
    BY <1>8, <2>2
  <2>4. pre \in 0 .. AllOnes /\ preTotal \in Nat /\ Represents(pre, preTotal)
    BY DEF TypeOK, SumRight
  <2> QED
    BY <1>8, <2>1, <2>2, <2>3, <2>4, StartKeeps
<1>10. CASE SendIcmpv6
  <2> DEFINE nh == <<0, NextHeader>>
             length == Word(PacketLen(packet))
             bytes == PacketBytes(packet')
  <2>1. Cleared
    BY <1>10 DEF SendIcmpv6
  <2>2. length \in ByteSeq \ {<<>>} /\ bytes \in ByteSeq \ {<<>>}
    BY <1>8, <2>1
  <2>3. nh \in ByteSeq \ {<<>>}
    BY BaseAssumption, BytesAssumption DEF ByteSeq
  <2>4. Start("icmpv6", <<src \o dst, length, nh, bytes>>, 0, 0)
    BY <1>10 DEF SendIcmpv6
  <2> HIDE DEF nh, length, bytes
  <2>5. <<length, nh, bytes>> \in Seq(ByteSeq \ {<<>>})
    BY <2>2, <2>3
  <2>6. <<src \o dst, length, nh, bytes>> = <<src \o dst>> \o <<length, nh, bytes>>
    BY FirstOfFour
  <2>7. src \o dst \in ByteSeq \ {<<>>}
    <3>1. src \o dst \in ByteSeq /\ Len(src \o dst) = Len(src) + Len(dst)
      BY <1>0, ConcatProperties DEF ByteSeq
    <3>2. Len(src) > 0 /\ Len(dst) >= 0
      BY <1>0 DEF ByteSeq
    <3>3. Len(src \o dst) # 0
      BY <1>0, <3>1, <3>2 DEF ByteSeq
    <3> QED
      BY <3>1, <3>3
  <2>8. Represents(0, 0) /\ 0 \in 0 .. AllOnes /\ 0 \in Nat
    BY Words DEF Represents
  <2>9. Start("icmpv6", <<src \o dst>> \o <<length, nh, bytes>>, 0, 0)
    BY <2>4, <2>6
  <2> QED
    BY <1>8, <2>1, <2>5, <2>7, <2>8, <2>9, StartKeeps
<1>11. CASE Fixed
  <2>1. Finalize(sum) \in 0 .. AllOnes
    BY Words DEF Finalize, TypeOK
  <2>2. TypeOK'
    BY <1>11, <2>1 DEF Fixed, TypeOK
  <2> QED
    BY <1>11, <2>2 DEF Fixed, SumRight, Pieces, Represents
<1>12. CASE UNCHANGED vars
  BY <1>12 DEF vars, TypeOK, SumRight, Pieces, Represents
<1> QED
  BY <1>3, <1>4, <1>5, <1>6, <1>7, <1>9, <1>10, <1>11, <1>12 DEF Next

LEMMA Invariance == Spec => []IInv
BY InitIInv, NextIInv, PTL DEF Spec

(* The sum, the kept sum and the packet have 16-bit values.                *)
THEOREM TypeCorrect == Spec => []TypeOK
BY Invariance, PTL DEF IInv

(* After every turn of the loop of _net_cksum_sum, the 16 bits stand for   *)
(* all the words added so far.                                             *)
THEOREM SumIsRight == Spec => []SumRight
BY Invariance, PTL DEF IInv

(* A checksum computed by _net_udp_fix_cksum or _net_icmpv6_fix_cksum is   *)
(* not zero, and completes its words to a multiple of AllOnes.             *)
THEOREM ChecksumCompletes == Spec => Completed
<1> DEFINE Computed == (pc \in {"udp", "icmpv6"} /\ pc' = "idle") =>
                          packet'.cksum # 0 /\ ((covered' + packet'.cksum) % AllOnes) = 0
<1>1. IInv /\ [Next]_vars => [Computed]_vars
  <2> SUFFICES ASSUME IInv, Next, pc \in {"udp", "icmpv6"}, pc' = "idle"
               PROVE  packet'.cksum # 0 /\ ((covered' + packet'.cksum) % AllOnes) = 0
    OBVIOUS
  <2>1. Fixed
    BY DEF Next, AddWord, AddLastByte, NextCall, Connect, Connected, SendUdp, SendIcmpv6, Start
  <2>2. packet'.cksum = Finalize(sum) /\ covered' = total
    BY <2>1 DEF Fixed, IInv, TypeOK
  <2>3. AllOnes \in Nat \ {0} /\ sum \in 0 .. AllOnes /\ total \in Nat
        /\ Represents(sum, total)
    BY Words DEF IInv, TypeOK, SumRight
  <2>4. CASE sum = AllOnes
    <3>1. Finalize(sum) = AllOnes
      BY <2>3, <2>4 DEF Finalize
    <3>2. ((total + AllOnes) % AllOnes) = (total % AllOnes)
      BY <2>3, ModOfWhole, Zenon
    <3>3. ((0 + AllOnes) % AllOnes) = (0 % AllOnes) /\ 0 + AllOnes = AllOnes
      BY <2>3, ModOfWhole
    <3>4. (0 % AllOnes) = 0
      BY <2>3
    <3> QED
      BY <2>2, <2>3, <2>4, <3>1, <3>2, <3>3, <3>4 DEF Represents
  <2>5. CASE sum # AllOnes
    <3>1. Finalize(sum) = AllOnes - sum /\ AllOnes - sum \in Nat /\ AllOnes - sum # 0
      BY <2>3, <2>5 DEF Finalize
    <3>2. (((total % AllOnes) + (AllOnes - sum)) % AllOnes) = ((total + (AllOnes - sum)) % AllOnes)
      BY <2>3, <3>1, ModOfSum, Zenon
    <3>3. (((sum % AllOnes) + (AllOnes - sum)) % AllOnes) = ((sum + (AllOnes - sum)) % AllOnes)
      <4>1. sum \in Nat
        BY <2>3
      <4> QED
        BY <2>3, <4>1, <3>1, ModOfSum, Zenon
    <3>4. sum + (AllOnes - sum) = 0 + AllOnes
      BY <2>3
    <3>5. ((0 + AllOnes) % AllOnes) = (0 % AllOnes)
      BY <2>3, ModOfWhole
    <3>6. (0 % AllOnes) = 0
      BY <2>3
    <3>7. (total % AllOnes) = (sum % AllOnes)
      BY <2>3 DEF Represents
    <3>8. ((total + (AllOnes - sum)) % AllOnes) = 0
      BY <3>2, <3>3, <3>4, <3>5, <3>6, <3>7, Zenon
    <3> QED
      BY <2>2, <3>1, <3>8
  <2> QED
    BY <2>4, <2>5
<1> QED
  BY <1>1, Invariance, PTL DEF Spec, Completed

-----------------------------------------------------------------------------
(* WordsUpTo is defined by its equation, and adds up to a number.          *)
LEMMA WordsDefined ==
  ASSUME NEW bytes \in ByteSeq
  PROVE  /\ WordsUpTo(bytes) \in [0 .. Len(bytes) -> Nat]
         /\ WordsUpTo(bytes)[0] = 0
         /\ \A k \in 1 .. Len(bytes) :
              WordsUpTo(bytes)[k] = WordsUpTo(bytes)[k - 1]
                                    + (IF k % 2 = 1 THEN Base * bytes[k] ELSE bytes[k])
<1> DEFINE n == Len(bytes)
           word(k) == IF k % 2 = 1 THEN Base * bytes[k] ELSE bytes[k]
           Eq(u) == [k \in 0 .. n |-> IF k = 0 THEN 0
                                      ELSE u[k - 1] + (IF k % 2 = 1 THEN Base * bytes[k]
                                                                    ELSE bytes[k])]
           step == [c \in (1 .. n) \X Nat |-> c[2] + word(c[1])]
<1>1. n \in Nat
  BY DEF ByteSeq
<1>2. \A k \in 1 .. n : word(k) \in Nat
  <2> TAKE k \in 1 .. n
  <2>1. bytes[k] \in Nat
    BY BaseAssumption DEF ByteSeq
  <2>2. Base * bytes[k] \in Nat
    BY <2>1, BaseAssumption
  <2> QED BY <2>1, <2>2
<1>3. step \in [(1 .. n) \X Nat -> Nat]
  <2> HIDE DEF word, n
  <2> QED BY <1>2
<1>4. PICK f \in [0 .. n -> Nat] : f[0] = 0 /\ \A k \in 1 .. n : f[k] = step[<<k, f[k - 1]>>]
  <2>1. Upward(n, Nat, 0, step) # {}
    <3> HIDE DEF n, step
    <3> QED BY <1>1, <1>3, RecursionUp
  <2> HIDE DEF n, step
  <2> QED BY <2>1 DEF Upward
<1>5. \A k \in 1 .. n : f[k] = f[k - 1] + word(k)
  <2> TAKE k \in 1 .. n
  <2>1. f[k - 1] \in Nat
    <3>1. k - 1 \in 0 .. n
      BY <1>1
    <3> HIDE DEF n, step
    <3> QED BY <1>4, <3>1
  <2>2. step[<<k, f[k - 1]>>] = f[k - 1] + word(k)
    <3> HIDE DEF word, n
    <3> QED BY <2>1
  <2> QED BY <1>4, <2>2
<1>6. f = Eq(f)
  <2> HIDE DEF n
  <2>1. \A k \in 0 .. n : k # 0 => k \in 1 .. n
    BY <1>1
  <2>2. \A k \in 0 .. n : f[k] = Eq(f)[k]
    BY <1>4, <1>5, <2>1
  <2>3. f = [k \in 0 .. n |-> f[k]]
    OBVIOUS
  <2> QED BY <2>2, <2>3
<1> DEFINE u == CHOOSE g : g = Eq(g)
<1>7. u = Eq(u)
  <2> HIDE DEF Eq
  <2> QED BY <1>6
<1>8. WordsUpTo(bytes) = u
  BY DEF WordsUpTo
<1> HIDE DEF u
<1>9. u[0] = 0 /\ \A k \in 1 .. n : u[k] = u[k - 1] + word(k)
  <2>1. 0 \in 0 .. n /\ \A k \in 1 .. n : k \in 0 .. n /\ k # 0
    BY <1>1
  <2> HIDE DEF n
  <2>2. \A k \in 0 .. n : u[k] = IF k = 0 THEN 0 ELSE u[k - 1] + word(k)
    BY <1>7
  <2> QED BY <2>1, <2>2
<1>10. \A k \in 0 .. n : u[k] \in Nat
  <2> DEFINE P == {k \in 0 .. n : u[k] \in Nat}
  <2>1. 0 \in P
    BY <1>1, <1>9
  <2>2. \A k \in P : k < n => k + 1 \in P
    <3> TAKE k \in P
    <3> HAVE k < n
    <3>1. k + 1 \in 1 .. n /\ (k + 1) - 1 = k /\ k + 1 \in 0 .. n
      BY <1>1
    <3>2. u[k + 1] = u[k] + word(k + 1) /\ word(k + 1) \in Nat
      <4> HIDE DEF word, n
      <4> QED BY <1>2, <1>9, <3>1
    <3> HIDE DEF word, n
    <3> QED BY <3>1, <3>2
  <2>3. P = 0 .. n
    <3> HIDE DEF n
    <3>1. P \in SUBSET (0 .. n)
      OBVIOUS
    <3> HIDE DEF P
    <3> QED BY <1>1, <2>1, <2>2, <3>1, BoundedInduction
  <2> QED BY <2>3
<1>11. u \in [0 .. n -> Nat]
  <2> HIDE DEF n, word
  <2>1. u = [k \in 0 .. n |-> u[k]]
    BY <1>7
  <2> QED BY <1>10, <2>1
<1> QED BY <1>8, <1>9, <1>11

LEMMA WordSumType ==
  ASSUME NEW bytes \in ByteSeq
  PROVE  WordSum(bytes) \in Nat
<1>1. Len(bytes) \in 0 .. Len(bytes)
  BY DEF ByteSeq
<1> QED BY <1>1, WordsDefined DEF WordSum

(* Pieces may be summed one by one if the first has a whole number of      *)
(* words.                                                                  *)
LEMMA WordSumConcat ==
  ASSUME NEW a \in ByteSeq, NEW b \in ByteSeq, Len(a) % 2 = 0
  PROVE  a \o b \in ByteSeq /\ WordSum(a \o b) = WordSum(a) + WordSum(b)
<1> DEFINE ab == a \o b
           la == Len(a)
           lb == Len(b)
           u == WordsUpTo(ab)
           ua == WordsUpTo(a)
           ub == WordsUpTo(b)
<1>1. /\ la \in Nat /\ lb \in Nat /\ ab \in ByteSeq /\ Len(ab) = la + lb
      /\ \A k \in 1 .. la : ab[k] = a[k]
      /\ \A k \in 1 .. lb : ab[la + k] = b[k]
  BY ConcatProperties DEF ByteSeq
<1>2. /\ u \in [0 .. la + lb -> Nat] /\ u[0] = 0
      /\ \A k \in 1 .. la + lb : u[k] = u[k - 1] + (IF k % 2 = 1 THEN Base * ab[k] ELSE ab[k])
  <2> HIDE DEF ab
  <2> QED BY <1>1, WordsDefined
<1>3. /\ ua \in [0 .. la -> Nat] /\ ua[0] = 0
      /\ \A k \in 1 .. la : ua[k] = ua[k - 1] + (IF k % 2 = 1 THEN Base * a[k] ELSE a[k])
  BY WordsDefined
<1>4. /\ ub \in [0 .. lb -> Nat] /\ ub[0] = 0
      /\ \A k \in 1 .. lb : ub[k] = ub[k - 1] + (IF k % 2 = 1 THEN Base * b[k] ELSE b[k])
  BY WordsDefined
<1>7. la % 2 = 0
  OBVIOUS
<1> HIDE DEF ab, la, lb, u, ua, ub
<1>5. u[la] = ua[la]
  <2> DEFINE P == {k \in 0 .. la : u[k] = ua[k]}
  <2>1. 0 \in P
    BY <1>1, <1>2, <1>3
  <2>2. \A k \in P : k < la => k + 1 \in P
    <3> TAKE k \in P
    <3> HAVE k < la
    <3>1. k + 1 \in 1 .. la /\ k + 1 \in 1 .. la + lb /\ (k + 1) - 1 = k /\ k + 1 \in 0 .. la
      BY <1>1
    <3>2. u[k + 1] = u[k] + (IF (k + 1) % 2 = 1 THEN Base * ab[k + 1] ELSE ab[k + 1])
      BY <1>2, <3>1
    <3>3. ua[k + 1] = ua[k] + (IF (k + 1) % 2 = 1 THEN Base * a[k + 1] ELSE a[k + 1])
      BY <1>3, <3>1
    <3>4. ab[k + 1] = a[k + 1]
      BY <1>1, <3>1
    <3> QED BY <3>1, <3>2, <3>3, <3>4
  <2>3. P \in SUBSET (0 .. la)
    OBVIOUS
  <2>4. P = 0 .. la
    <3> HIDE DEF P
    <3> QED BY <1>1, <2>1, <2>2, <2>3, BoundedInduction
  <2> QED BY <1>1, <2>4
<1>6. u[la + lb] = ua[la] + ub[lb]
  <2> DEFINE P == {k \in 0 .. lb : u[la + k] = ua[la] + ub[k]}
  <2>1. 0 \in P
    BY <1>1, <1>3, <1>4, <1>5
  <2>2. \A k \in P : k < lb => k + 1 \in P
    <3> TAKE k \in P
    <3> HAVE k < lb
    <3>1. /\ k \in Nat /\ k + 1 \in 1 .. lb /\ k + 1 \in 0 .. lb /\ (k + 1) - 1 = k
          /\ la + (k + 1) \in 1 .. la + lb /\ (la + (k + 1)) - 1 = la + k
      BY <1>1
    <3>2. u[la + (k + 1)] = u[la + k] + (IF (la + (k + 1)) % 2 = 1
                                         THEN Base * ab[la + (k + 1)] ELSE ab[la + (k + 1)])
      BY <1>2, <3>1
    <3>3. ub[k + 1] = ub[k] + (IF (k + 1) % 2 = 1 THEN Base * b[k + 1] ELSE b[k + 1])
      BY <1>4, <3>1
    <3>4. ab[la + (k + 1)] = b[k + 1]
      BY <1>1, <3>1
    <3>5. (la + (k + 1)) % 2 = (k + 1) % 2
      <4>1. ((la % 2) + (k + 1)) % 2 = (la + (k + 1)) % 2
        BY <1>1, <3>1, ModOfSum
      <4> QED BY <1>7, <3>1, <4>1
    <3>6. u[la + k] = ua[la] + ub[k]
      OBVIOUS
    <3>7. ua[la] \in Nat /\ ub[k] \in Nat /\ b[k + 1] \in Nat /\ Base * b[k + 1] \in Nat
      <4>1. b[k + 1] \in Nat
        BY <3>1, BaseAssumption DEF ByteSeq, lb
      <4>2. Base * b[k + 1] \in Nat
        BY <4>1, BaseAssumption
      <4>3. ua[la] \in Nat
        BY <1>1, <1>3
      <4>4. ub[k] \in Nat
        BY <1>4
      <4> QED BY <4>1, <4>2, <4>3, <4>4
    <3>8. u[la + (k + 1)] = ua[la] + ub[k + 1]
      <4> DEFINE w == IF (k + 1) % 2 = 1 THEN Base * b[k + 1] ELSE b[k + 1]
      <4>1. u[la + (k + 1)] = u[la + k] + w /\ ub[k + 1] = ub[k] + w
        BY <3>2, <3>3, <3>4, <3>5
      <4>2. w \in Nat
        BY <3>7
      <4> HIDE DEF w
      <4> QED BY <3>6, <3>7, <4>1, <4>2
    <3> QED BY <3>1, <3>8
  <2>3. P \in SUBSET (0 .. lb)
    OBVIOUS
  <2>4. P = 0 .. lb
    <3> HIDE DEF P
    <3> QED BY <1>1, <2>1, <2>2, <2>3, BoundedInduction
  <2> QED BY <1>1, <2>4, SMTT(30)
<1> QED BY <1>1, <1>6 DEF WordSum, u, ua, ub, ab, la, lb

(* The two bytes of a number add up to it.                                 *)
LEMMA WordSumOfWord ==
  ASSUME NEW n \in 0 .. AllOnes
  PROVE  WordSum(Word(n)) = n /\ Len(Word(n)) = 2
<1>1. Base \in Nat \ {0} /\ n \in Nat
  BY BaseAssumption, Words
<1>2. n = Base * (n \div Base) + (n % Base)
  BY <1>1, DivMod
<1>3. Word(n) \in ByteSeq
  BY WordBytes
<1> DEFINE w == Word(n)
<1>4. Len(w) = 2 /\ w[1] = n \div Base /\ w[2] = n % Base
  BY DEF Word
<1> HIDE DEF w
<1>5. WordsUpTo(w)[0] = 0
      /\ \A k \in 1 .. 2 : WordsUpTo(w)[k] = WordsUpTo(w)[k - 1]
                                             + (IF k % 2 = 1 THEN Base * w[k] ELSE w[k])
  BY <1>3, <1>4, WordsDefined DEF w
<1>6. WordsUpTo(w)[1] = WordsUpTo(w)[0] + Base * w[1]
  BY <1>5
<1>7. WordsUpTo(w)[2] = WordsUpTo(w)[1] + w[2]
  BY <1>5
<1>8. n \div Base \in Nat /\ n % Base \in Nat /\ Base * (n \div Base) \in Nat
  <2>1. n \div Base \in Nat /\ n % Base \in 0 .. Base - 1
    BY <1>1, DivMod
  <2> QED BY <1>1, <2>1
<1>9. WordSum(w) = (0 + Base * (n \div Base)) + (n % Base)
  BY <1>4, <1>5, <1>6, <1>7 DEF WordSum
<1> QED BY <1>2, <1>4, <1>8, <1>9 DEF w
-----------------------------------------------------------------------------
(* Which words have been added: those of the pieces before this one, and   *)
(* those of this one up to i.  TLC finds Added an invariant of the run, and *)
(* it is inductive with IInv.                                              *)
LastOfPseudo == <<0, NextHeader>>
PseudoSum == WordSum(src) + WordSum(dst) + WordSum(LastOfPseudo)

Stage(piece, others, before) ==
  data = piece /\ rest = others /\ total = before + WordsUpTo(piece)[i]

ConnectStage ==
  \/ Stage(src, <<dst, LastOfPseudo>>, 0)
  \/ Stage(dst, <<LastOfPseudo>>, WordSum(src))
  \/ Stage(LastOfPseudo, <<>>, WordSum(src) + WordSum(dst))

UdpStage(length, bytes) ==
  \/ Stage(length, <<bytes>>, preTotal)
  \/ Stage(bytes, <<>>, preTotal + WordSum(length))

Icmpv6Stage(addresses, length, bytes) ==
  \/ Stage(addresses, <<length, LastOfPseudo, bytes>>, 0)
  \/ Stage(length, <<LastOfPseudo, bytes>>, WordSum(addresses))
  \/ Stage(LastOfPseudo, <<bytes>>, WordSum(addresses) + WordSum(length))
  \/ Stage(bytes, <<>>, WordSum(addresses) + WordSum(length) + WordSum(LastOfPseudo))

Added ==
  /\ pc = "connect" => ConnectStage
  /\ pc = "udp" => UdpStage(Word(PacketLen(packet)), PacketBytes(packet))
  /\ pc = "icmpv6" => Icmpv6Stage(src \o dst, Word(PacketLen(packet)), PacketBytes(packet))
  /\ pc \in {"udp", "icmpv6"} => packet.cksum = 0
  /\ preTotal \in {0, PseudoSum}
  /\ i % 2 = 0 \/ i = Len(data)

(* Lengths add up.                                                         *)
LEMMA LenOfConcat ==
  ASSUME NEW a \in ByteSeq, NEW b \in ByteSeq
  PROVE  Len(a \o b) = Len(a) + Len(b) /\ Len(a) \in Nat /\ Len(b) \in Nat
<1> DEFINE S == 0 .. Base - 1
<1>1. a \in Seq(S) /\ b \in Seq(S)
  BY DEF ByteSeq
<1> HIDE DEF S
<1> QED BY <1>1, ConcatProperties

(* The pieces of a pseudo header.                                          *)
LEMMA PseudoBytes ==
  ASSUME IInv
  PROVE  /\ src \in ByteSeq /\ dst \in ByteSeq /\ LastOfPseudo \in ByteSeq
         /\ Len(src) % 2 = 0 /\ Len(dst) % 2 = 0 /\ Len(LastOfPseudo) = 2
         /\ src \o dst \in ByteSeq /\ Len(src \o dst) % 2 = 0
         /\ WordSum(src \o dst) = WordSum(src) + WordSum(dst)
         /\ WordSum(src) \in Nat /\ WordSum(dst) \in Nat /\ WordSum(LastOfPseudo) \in Nat
<1>1. src \in ByteSeq /\ dst \in ByteSeq /\ Len(src) % 2 = 0 /\ Len(dst) % 2 = 0
  BY BytesAssumption DEF IInv, TypeOK, ByteSeq
<1>2. LastOfPseudo \in ByteSeq /\ Len(LastOfPseudo) = 2
  BY BaseAssumption, BytesAssumption DEF LastOfPseudo, ByteSeq
<1>3. src \o dst \in ByteSeq /\ WordSum(src \o dst) = WordSum(src) + WordSum(dst)
  BY <1>1, WordSumConcat
<1>4. Len(src \o dst) % 2 = 0
  <2>1. Len(src \o dst) = Len(src) + Len(dst) /\ Len(src) \in Nat /\ Len(dst) \in Nat
    BY <1>1, LenOfConcat
  <2> QED BY <1>1, <2>1
<1> QED BY <1>1, <1>2, <1>3, <1>4, WordSumType

(* A turn of the loop adds the next word of the piece.                     *)
LEMMA StageAdds ==
  ASSUME IInv, NEW piece \in ByteSeq, NEW others, NEW before \in Nat,
         AddWord \/ AddLastByte, i % 2 = 0 \/ i = Len(data),
         Stage(piece, others, before)
  PROVE  Stage(piece, others, before)' /\ (i' % 2 = 0 \/ i' = Len(data'))
<1> DEFINE n == Len(piece)
           upTo == WordsUpTo(piece)
<1>1. /\ upTo \in [0 .. n -> Nat]
      /\ \A k \in 1 .. n : upTo[k] = upTo[k - 1]
                                     + (IF k % 2 = 1 THEN Base * piece[k] ELSE piece[k])
  BY WordsDefined
<1>2. data = piece /\ rest = others /\ total = before + upTo[i] /\ data' = data /\ rest' = rest
  BY DEF Stage, AddWord, AddLastByte
<1>3. n \in Nat /\ i \in 0 .. n /\ Base \in Nat
  BY <1>2, BaseAssumption DEF IInv, TypeOK, ByteSeq
<1>4. \A k \in 1 .. n : piece[k] \in Nat /\ Base * piece[k] \in Nat
  <2> TAKE k \in 1 .. n
  <2>1. piece[k] \in Nat
    BY BaseAssumption DEF ByteSeq
  <2> QED BY <1>3, <2>1
<1>5. CASE AddWord
  <2>1. i < n - 1 /\ i' = i + 2 /\ total' = total + (Base * piece[i + 1] + piece[i + 2])
    BY <1>2, <1>5 DEF AddWord, Add
  <2> HIDE DEF n, upTo
  <2>2. i % 2 = 0 /\ (i + 1) % 2 = 1 /\ (i + 2) % 2 = 0
    BY <1>2, <1>3, <2>1 DEF n
  <2>3. i + 1 \in 1 .. n /\ i + 2 \in 1 .. n /\ (i + 1) - 1 = i /\ (i + 2) - 1 = i + 1
    BY <1>3, <2>1
  <2>4. upTo[i + 1] = upTo[i] + Base * piece[i + 1]
    BY <1>1, <2>2, <2>3
  <2>5. upTo[i + 2] = upTo[i + 1] + piece[i + 2]
    <3>1. upTo[i + 2] = upTo[i + 1] + (IF (i + 2) % 2 = 1 THEN Base * piece[i + 2]
                                                          ELSE piece[i + 2])
      BY <1>1, <2>3
    <3> QED BY <2>2, <3>1
  <2>6. upTo[i] \in Nat /\ piece[i + 2] \in Nat /\ Base * piece[i + 1] \in Nat
    BY <1>1, <1>3, <1>4, <2>3
  <2>7. total' = before + upTo[i']
    BY <1>2, <2>1, <2>4, <2>5, <2>6, SMTT(30)
  <2> QED BY <1>2, <2>1, <2>2, <2>7 DEF Stage, upTo
<1>6. CASE AddLastByte
  <2>1. i = n - 1 /\ i' = i + 1 /\ total' = total + Base * piece[i + 1]
    BY <1>2, <1>6 DEF AddLastByte, Add
  <2> HIDE DEF n, upTo
  <2>2. i % 2 = 0 /\ (i + 1) % 2 = 1
    BY <1>2, <1>3, <2>1 DEF n
  <2>3. i + 1 \in 1 .. n /\ (i + 1) - 1 = i /\ i' = n
    BY <1>3, <2>1
  <2>4. upTo[i + 1] = upTo[i] + Base * piece[i + 1]
    BY <1>1, <2>2, <2>3
  <2>5. upTo[i] \in Nat /\ Base * piece[i + 1] \in Nat
    BY <1>1, <1>3, <1>4, <2>3
  <2>6. total' = before + upTo[i']
    BY <1>2, <2>1, <2>4, <2>5
  <2> QED BY <1>2, <2>3, <2>6 DEF Stage, upTo, n
<1> QED BY <1>5, <1>6

(* What has been added when a piece is done.                               *)
LEMMA StageDone ==
  ASSUME IInv, NEW piece \in ByteSeq, NEW others, NEW before \in Nat,
         Stage(piece, others, before), i >= Len(data)
  PROVE  total = before + WordSum(piece)
<1>1. Len(piece) \in Nat /\ i \in 0 .. Len(piece) /\ data = piece
  BY DEF IInv, TypeOK, Stage, ByteSeq
<1>2. i = Len(piece)
  BY <1>1
<1> QED BY <1>2 DEF Stage, WordSum

(* The words of a packet: its checksum is one of them.                     *)
LEMMA PacketSum ==
  ASSUME NEW by \in {"udp", "icmpv6"}, NEW head \in Heads, NEW body \in Payloads,
         NEW ck \in 0 .. AllOnes,
         NEW cleared, cleared = [by |-> by, head |-> head, data |-> body, cksum |-> 0],
         NEW fixed, fixed = [by |-> by, head |-> head, data |-> body, cksum |-> ck]
  PROVE  /\ PacketLen(fixed) = PacketLen(cleared)
         /\ PacketBytes(fixed) \in ByteSeq
         /\ WordSum(PacketBytes(fixed)) = WordSum(PacketBytes(cleared)) + ck
<1>0. 0 \in 0 .. AllOnes /\ ck \in Nat
  BY Words
<1>1. head \in ByteSeq /\ body \in ByteSeq /\ Len(head) % 2 = 0
  BY BytesAssumption DEF ByteSeq
<1>2. /\ fixed.by = by /\ fixed.head = head /\ fixed.data = body /\ fixed.cksum = ck
      /\ cleared.by = by /\ cleared.head = head /\ cleared.data = body /\ cleared.cksum = 0
  OBVIOUS
<1>3. PacketLen(fixed) = PacketLen(cleared)
  BY <1>2 DEF PacketLen
<1>4. PacketLen(cleared) \in 0 .. AllOnes /\ PacketBytes(fixed) \in ByteSeq
  BY <1>0, PacketOfBytes
<1> DEFINE len == IF by = "udp" THEN Word(PacketLen(cleared)) ELSE <<>>
           front == head \o len
<1>5. len \in ByteSeq /\ Len(len) \in {0, 2}
  <2>1. Word(PacketLen(cleared)) \in ByteSeq /\ Len(Word(PacketLen(cleared))) = 2
    BY <1>4, WordBytes, WordSumOfWord
  <2>2. <<>> \in ByteSeq /\ Len(<<>>) = 0
    BY DEF ByteSeq
  <2> QED BY <2>1, <2>2
<1>6. PacketBytes(cleared) = (front \o Word(0)) \o body
      /\ PacketBytes(fixed) = (front \o Word(ck)) \o body
  BY <1>2, <1>3 DEF PacketBytes
<1> HIDE DEF len
<1>7. front \in ByteSeq /\ Len(front) % 2 = 0
  <2>1. front \in ByteSeq
    BY <1>1, <1>5, WordSumConcat
  <2>3. Len(front) = Len(head) + Len(len) /\ Len(head) \in Nat
    BY <1>1, <1>5, LenOfConcat
  <2>2. (Len(head) + 0) % 2 = 0 /\ (Len(head) + 2) % 2 = 0
    BY <1>1, <2>3
  <2>4. CASE Len(len) = 0
    BY <2>1, <2>2, <2>3, <2>4
  <2>5. CASE Len(len) = 2
    BY <2>1, <2>2, <2>3, <2>5
  <2> QED BY <1>5, <2>4, <2>5
<1> HIDE DEF front
<1>8. ASSUME NEW c \in 0 .. AllOnes
      PROVE  WordSum((front \o Word(c)) \o body) = (WordSum(front) + c) + WordSum(body)
  <2>1. Word(c) \in ByteSeq /\ Len(Word(c)) = 2 /\ WordSum(Word(c)) = c
    BY WordBytes, WordSumOfWord
  <2>2. front \o Word(c) \in ByteSeq /\ WordSum(front \o Word(c)) = WordSum(front) + c
    BY <1>7, <2>1, WordSumConcat
  <2>3. Len(front \o Word(c)) % 2 = 0
    <3>1. Len(front \o Word(c)) = Len(front) + 2 /\ Len(front) \in Nat
      BY <1>7, <2>1, LenOfConcat
    <3> QED BY <1>7, <3>1
  <2> QED BY <1>1, <2>2, <2>3, WordSumConcat
<1>9. WordSum(front) \in Nat /\ WordSum(body) \in Nat
  BY <1>1, <1>7, WordSumType
<1>10. /\ WordSum(PacketBytes(fixed)) = (WordSum(front) + ck) + WordSum(body)
       /\ WordSum(PacketBytes(cleared)) = (WordSum(front) + 0) + WordSum(body)
  BY <1>0, <1>6, <1>8
<1> QED BY <1>0, <1>3, <1>4, <1>9, <1>10

(* What a receiver adds up, piece by piece.                                *)
LEMMA ReceiverPieces ==
  ASSUME IInv, NEW p, PacketLen(p) \in 0 .. AllOnes, PacketBytes(p) \in ByteSeq
  PROVE  ReceiverSum(p) = WordSum(src) + WordSum(dst) + PacketLen(p)
                          + WordSum(LastOfPseudo) + WordSum(PacketBytes(p))
<1> DEFINE len == Word(PacketLen(p))
           addresses == src \o dst
           bytes == PacketBytes(p)
<1>1. len \in ByteSeq /\ Len(len) = 2 /\ WordSum(len) = PacketLen(p)
  BY WordBytes, WordSumOfWord
<1>2. addresses \in ByteSeq /\ Len(addresses) % 2 = 0
      /\ WordSum(addresses) = WordSum(src) + WordSum(dst)
      /\ LastOfPseudo \in ByteSeq /\ Len(LastOfPseudo) = 2
  BY PseudoBytes
<1>3. bytes \in ByteSeq
  OBVIOUS
<1>4. ReceiverSum(p) = WordSum(((addresses \o len) \o LastOfPseudo) \o bytes)
  BY DEF ReceiverSum, LastOfPseudo
<1> HIDE DEF len, addresses, bytes
<1>5. addresses \o len \in ByteSeq /\ WordSum(addresses \o len) = WordSum(addresses) + WordSum(len)
  BY <1>1, <1>2, WordSumConcat
<1>6. ASSUME NEW a \in ByteSeq, NEW b \in ByteSeq, Len(a) % 2 = 0, Len(b) = 2
      PROVE  Len(a \o b) % 2 = 0
  <2>1. Len(a \o b) = Len(a) + 2 /\ Len(a) \in Nat
    BY <1>6, LenOfConcat
  <2> QED BY <1>6, <2>1
<1>7. Len(addresses \o len) % 2 = 0
  BY <1>1, <1>2, <1>6
<1>8. (addresses \o len) \o LastOfPseudo \in ByteSeq
      /\ WordSum((addresses \o len) \o LastOfPseudo)
           = WordSum(addresses \o len) + WordSum(LastOfPseudo)
  BY <1>2, <1>5, <1>7, WordSumConcat
<1>9. Len((addresses \o len) \o LastOfPseudo) % 2 = 0
  BY <1>2, <1>5, <1>6, <1>7
<1>10. WordSum(((addresses \o len) \o LastOfPseudo) \o bytes)
         = WordSum((addresses \o len) \o LastOfPseudo) + WordSum(bytes)
  BY <1>3, <1>8, <1>9, WordSumConcat
<1> QED BY <1>1, <1>2, <1>4, <1>5, <1>8, <1>10 DEF bytes

LEMMA InitAdded == Init => Added
BY DEF Init, Added

(* Added survives each step.                                               *)
LEMMA NextAdded == IInv /\ Added /\ [Next]_vars => Added'
<1> SUFFICES ASSUME IInv, Added, [Next]_vars PROVE Added'
  OBVIOUS
<1>0. IInv'
  BY NextIInv
<1>1. /\ src \in ByteSeq /\ dst \in ByteSeq /\ LastOfPseudo \in ByteSeq
      /\ src \o dst \in ByteSeq
      /\ WordSum(src) \in Nat /\ WordSum(dst) \in Nat /\ WordSum(LastOfPseudo) \in Nat
      /\ WordSum(src \o dst) \in Nat
  BY PseudoBytes
<1>2. PICK by \in {"udp", "icmpv6"}, head \in Heads, body \in Payloads, ck \in 0 .. AllOnes :
        packet = [by |-> by, head |-> head, data |-> body, cksum |-> ck]
  BY DEF IInv, TypeOK
<1>3. /\ Word(PacketLen(packet)) \in ByteSeq /\ PacketBytes(packet) \in ByteSeq
      /\ WordSum(Word(PacketLen(packet))) \in Nat
  <2>1. PacketLen(packet) \in 0 .. AllOnes /\ PacketBytes(packet) \in ByteSeq
    BY <1>2, PacketOfBytes
  <2> QED BY <2>1, WordBytes, WordSumType
<1>4. preTotal \in Nat
  BY DEF IInv, TypeOK
<1>5. i \in Nat /\ Len(data) \in Nat /\ i =< Len(data)
  BY DEF IInv, TypeOK, ByteSeq
<1>6. CASE AddWord \/ AddLastByte
  <2>1. UNCHANGED <<src, dst, packet, pre, pc, preTotal>>
    BY <1>6 DEF AddWord, AddLastByte
  <2>2. i % 2 = 0 \/ i = Len(data)
    BY DEF Added
  <2>3. ASSUME NEW piece \in ByteSeq, NEW others, NEW before \in Nat,
               Stage(piece, others, before)
        PROVE  Stage(piece, others, before)' /\ (i' % 2 = 0 \/ i' = Len(data'))
    BY <1>6, <2>2, <2>3, StageAdds
  <2>7. 0 \in Nat /\ \A m, n \in Nat : m + n \in Nat
    OBVIOUS
  <2>4. CASE pc = "connect"
    <3>1. ConnectStage
      BY <2>4 DEF Added
    <3>2. ConnectStage' /\ (i' % 2 = 0 \/ i' = Len(data'))
      BY <1>1, <2>1, <2>3, <2>7, <3>1 DEF ConnectStage, Stage
    <3> QED BY <2>1, <2>4, <3>2 DEF Added, PseudoSum, LastOfPseudo
  <2>5. CASE pc = "udp"
    <3> DEFINE len == Word(PacketLen(packet))
               bytes == PacketBytes(packet)
    <3>1. UdpStage(len, bytes) /\ packet.cksum = 0
      BY <2>5 DEF Added
    <3>2. len' = len /\ bytes' = bytes
      BY <2>1
    <3>3. len \in ByteSeq /\ bytes \in ByteSeq /\ preTotal + WordSum(len) \in Nat
      BY <1>3, <1>4
    <3> HIDE DEF len, bytes
    <3>4. UdpStage(len, bytes)' /\ (i' % 2 = 0 \/ i' = Len(data'))
      BY <1>4, <2>1, <2>3, <3>1, <3>2, <3>3 DEF UdpStage, Stage
    <3> QED BY <2>1, <2>5, <3>1, <3>4 DEF Added, PseudoSum, LastOfPseudo, len, bytes
  <2>6. CASE pc = "icmpv6"
    <3> DEFINE addresses == src \o dst
               len == Word(PacketLen(packet))
               bytes == PacketBytes(packet)
    <3>1. Icmpv6Stage(addresses, len, bytes) /\ packet.cksum = 0
      BY <2>6 DEF Added
    <3>2. addresses' = addresses /\ len' = len /\ bytes' = bytes
      BY <2>1
    <3>3. /\ addresses \in ByteSeq /\ len \in ByteSeq /\ bytes \in ByteSeq
          /\ WordSum(addresses) \in Nat /\ WordSum(len) \in Nat /\ WordSum(LastOfPseudo) \in Nat
      BY <1>1, <1>3
    <3> HIDE DEF addresses, len, bytes
    <3>4. /\ WordSum(addresses) + WordSum(len) \in Nat
          /\ WordSum(addresses) + WordSum(len) + WordSum(LastOfPseudo) \in Nat
      BY <3>3
    <3>5. Icmpv6Stage(addresses, len, bytes)' /\ (i' % 2 = 0 \/ i' = Len(data'))
      BY <1>1, <2>3, <2>7, <3>1, <3>2, <3>3, <3>4, SMTT(30) DEF Icmpv6Stage, Stage
    <3> QED BY <2>1, <2>6, <3>1, <3>5 DEF Added, PseudoSum, LastOfPseudo, addresses, len, bytes
  <2> QED BY <1>6, <2>4, <2>5, <2>6 DEF AddWord, AddLastByte, IInv, TypeOK
<1>7. CASE NextCall
  <2>1. UNCHANGED <<src, dst, packet, pc, preTotal>> /\ i' = 0 /\ i' % 2 = 0
    BY <1>7 DEF NextCall
  <2>2. i >= Len(data) /\ rest # <<>> /\ pc # "idle"
    BY <1>7 DEF NextCall
  <2>3. ASSUME NEW piece \in ByteSeq, NEW next \in ByteSeq, NEW before \in Nat,
               data = piece, total = before + WordsUpTo(piece)[i], next = Head(rest)
        PROVE  data' = next /\ total' = (before + WordSum(piece)) + WordsUpTo(next)[i']
    <3>1. total = before + WordSum(piece)
      BY <2>2, <2>3, StageDone DEF Stage
    <3>2. before + WordSum(piece) \in Nat /\ WordsUpTo(next)[0] = 0
      BY WordSumType, WordsDefined
    <3> QED BY <1>7, <2>1, <2>3, <3>1, <3>2 DEF NextCall
  <2>4. /\ \A x : rest = <<x>> => Head(rest) = x /\ rest' = <<>>
        /\ \A x, y : rest = <<x, y>> => Head(rest) = x /\ rest' = <<y>>
        /\ \A x, y, z : rest = <<x, y, z>> => Head(rest) = x /\ rest' = <<y, z>>
    <3>1. rest' = Tail(rest)
      BY <1>7 DEF NextCall
    <3>2. /\ \A x : Head(<<x>>) = x /\ Tail(<<x>>) = <<>>
          /\ \A x, y : Head(<<x, y>>) = x /\ Tail(<<x, y>>) = <<y>>
          /\ \A x, y, z : Head(<<x, y, z>>) = x /\ Tail(<<x, y, z>>) = <<y, z>>
      OBVIOUS
    <3>3. ASSUME NEW x, rest = <<x>> PROVE Head(rest) = x /\ rest' = <<>>
      BY <3>1, <3>2, <3>3
    <3>4. ASSUME NEW x, NEW y, rest = <<x, y>> PROVE Head(rest) = x /\ rest' = <<y>>
      BY <3>1, <3>2, <3>4
    <3>5. ASSUME NEW x, NEW y, NEW z, rest = <<x, y, z>>
          PROVE  Head(rest) = x /\ rest' = <<y, z>>
      BY <3>1, <3>2, <3>5
    <3> QED BY <3>3, <3>4, <3>5
  <2>5. 0 \in Nat /\ (\A m, n \in Nat : m + n \in Nat) /\ (\A m \in Nat : 0 + m = m)
    OBVIOUS
  <2>6. CASE pc = "connect"
    <3>1. ConnectStage
      BY <2>6 DEF Added
    <3>2. ASSUME Stage(src, <<dst, LastOfPseudo>>, 0)
         PROVE  ConnectStage'
      <4>1. rest' = <<LastOfPseudo>> /\ Head(rest) = dst
        BY <2>4, <3>2 DEF Stage
      <4>2. data' = dst /\ total' = (0 + WordSum(src)) + WordsUpTo(dst)[i']
        BY <1>1, <2>3, <2>5, <3>2, <4>1 DEF Stage
      <4> QED BY <1>1, <2>1, <2>5, <4>1, <4>2 DEF ConnectStage, Stage
    <3>3. ASSUME Stage(dst, <<LastOfPseudo>>, WordSum(src))
         PROVE  ConnectStage'
      <4>1. rest' = <<>> /\ Head(rest) = LastOfPseudo
        BY <2>4, <3>3 DEF Stage
      <4>2. data' = LastOfPseudo
            /\ total' = (WordSum(src) + WordSum(dst)) + WordsUpTo(LastOfPseudo)[i']
        BY <1>1, <2>3, <2>5, <3>3, <4>1 DEF Stage
      <4> QED BY <2>1, <4>1, <4>2 DEF ConnectStage, Stage
    <3>4. ASSUME rest = <<>>
         PROVE  ConnectStage'
      BY <2>2, <3>4
    <3>5. ConnectStage'
      BY <3>1, <3>2, <3>3, <3>4 DEF ConnectStage, Stage
    <3> QED BY <2>1, <2>6, <3>5 DEF Added, PseudoSum, LastOfPseudo
  <2>7. CASE pc = "udp"
    <3> DEFINE len == Word(PacketLen(packet))
               bytes == PacketBytes(packet)
    <3>1. UdpStage(len, bytes) /\ packet.cksum = 0
      BY <2>7 DEF Added
    <3>2. len' = len /\ bytes' = bytes
      BY <2>1
    <3>3. len \in ByteSeq /\ bytes \in ByteSeq
      BY <1>3
    <3> HIDE DEF len, bytes
    <3>4. ASSUME Stage(len, <<bytes>>, preTotal)
         PROVE  UdpStage(len, bytes)'
      <4>1. rest' = <<>> /\ Head(rest) = bytes
        BY <2>4, <3>4 DEF Stage
      <4>2. data' = bytes /\ total' = (preTotal + WordSum(len)) + WordsUpTo(bytes)[i']
        BY <1>4, <2>3, <3>3, <3>4, <4>1 DEF Stage
      <4> QED BY <2>1, <3>2, <4>1, <4>2 DEF UdpStage, Stage
    <3>5. ASSUME rest = <<>>
         PROVE  UdpStage(len, bytes)'
      BY <2>2, <3>5
    <3>6. UdpStage(len, bytes)'
      BY <3>1, <3>4, <3>5 DEF UdpStage, Stage
    <3> QED BY <2>1, <2>7, <3>1, <3>6 DEF Added, PseudoSum, LastOfPseudo, len, bytes
  <2>8. CASE pc = "icmpv6"
    <3> DEFINE addresses == src \o dst
               len == Word(PacketLen(packet))
               bytes == PacketBytes(packet)
    <3>1. Icmpv6Stage(addresses, len, bytes) /\ packet.cksum = 0
      BY <2>8 DEF Added
    <3>2. addresses' = addresses /\ len' = len /\ bytes' = bytes
      BY <2>1
    <3>3. /\ addresses \in ByteSeq /\ len \in ByteSeq /\ bytes \in ByteSeq
          /\ WordSum(addresses) \in Nat /\ WordSum(len) \in Nat /\ WordSum(LastOfPseudo) \in Nat
          /\ WordSum(addresses) + WordSum(len) \in Nat
      BY <1>1, <1>3
    <3> HIDE DEF addresses, len, bytes
    <3>4. ASSUME Stage(addresses, <<len, LastOfPseudo, bytes>>, 0)
         PROVE  Icmpv6Stage(addresses, len, bytes)'
      <4>1. rest' = <<LastOfPseudo, bytes>> /\ Head(rest) = len
        BY <2>4, <3>4 DEF Stage
      <4>2. data' = len /\ total' = (0 + WordSum(addresses)) + WordsUpTo(len)[i']
        BY <2>3, <2>5, <3>3, <3>4, <4>1 DEF Stage
      <4> QED BY <2>5, <3>2, <3>3, <4>1, <4>2 DEF Icmpv6Stage, Stage
    <3>5. ASSUME Stage(len, <<LastOfPseudo, bytes>>, WordSum(addresses))
         PROVE  Icmpv6Stage(addresses, len, bytes)'
      <4>1. rest' = <<bytes>> /\ Head(rest) = LastOfPseudo
        BY <2>4, <3>5 DEF Stage
      <4>2. data' = LastOfPseudo
            /\ total' = (WordSum(addresses) + WordSum(len)) + WordsUpTo(LastOfPseudo)[i']
        BY <1>1, <2>3, <3>3, <3>5, <4>1 DEF Stage
      <4> QED BY <3>2, <4>1, <4>2 DEF Icmpv6Stage, Stage
    <3>6. ASSUME Stage(LastOfPseudo, <<bytes>>, WordSum(addresses) + WordSum(len))
         PROVE  Icmpv6Stage(addresses, len, bytes)'
      <4>1. rest' = <<>> /\ Head(rest) = bytes
        BY <2>4, <3>6 DEF Stage
      <4>2. data' = bytes /\ total' = (WordSum(addresses) + WordSum(len) + WordSum(LastOfPseudo))
                                      + WordsUpTo(bytes)[i']
        BY <1>1, <2>3, <3>3, <3>6, <4>1 DEF Stage
      <4> QED BY <3>2, <4>1, <4>2 DEF Icmpv6Stage, Stage
    <3>7. ASSUME rest = <<>>
         PROVE  Icmpv6Stage(addresses, len, bytes)'
      BY <2>2, <3>7
    <3>8. Icmpv6Stage(addresses, len, bytes)'
      BY <3>1, <3>4, <3>5, <3>6, <3>7 DEF Icmpv6Stage, Stage
    <3> QED BY <2>1, <2>8, <3>1, <3>8 DEF Added, PseudoSum, LastOfPseudo, addresses, len, bytes
  <2> QED BY <1>7, <2>6, <2>7, <2>8 DEF NextCall, IInv, TypeOK
<1>8. ASSUME NEW first \in ByteSeq, NEW words \in Nat
      PROVE  words = words + WordsUpTo(first)[0] /\ 0 % 2 = 0
  BY WordsDefined
<1>9. CASE Connect
  <2>1. UNCHANGED <<src, dst, packet, preTotal>> /\ pc' = "connect" /\ i' = 0
        /\ data' = src /\ rest' = <<dst, LastOfPseudo>> /\ total' = 0
    BY <1>9 DEF Connect, Start, LastOfPseudo
  <2>2. ConnectStage'
    BY <1>1, <1>8, <2>1 DEF ConnectStage, Stage
  <2> QED BY <1>8, <2>1, <2>2 DEF Added, PseudoSum, LastOfPseudo
<1>10. CASE Connected
  <2>1. UNCHANGED <<src, dst, packet, data, rest, i, total>> /\ pc' = "idle" /\ preTotal' = total
    BY <1>10 DEF Connected
  <2>2. pc = "connect" /\ i >= Len(data) /\ rest = <<>>
    BY <1>10 DEF Connected
  <2>3. Stage(LastOfPseudo, <<>>, WordSum(src) + WordSum(dst))
    BY <2>2 DEF Added, ConnectStage, Stage
  <2>4. total = PseudoSum
    BY <1>1, <2>2, <2>3, StageDone DEF PseudoSum
  <2>5. PseudoSum' = PseudoSum
    BY <2>1 DEF PseudoSum, LastOfPseudo
  <2> QED BY <2>1, <2>4, <2>5 DEF Added
<1>11. ASSUME Cleared
       PROVE  /\ packet'.cksum = 0 /\ PacketLen(packet') = PacketLen(packet)
              /\ PacketBytes(packet') \in ByteSeq
  <2>1. packet' = [by |-> by, head |-> head, data |-> body, cksum |-> 0]
    BY <1>2, <1>11 DEF Cleared
  <2>2. 0 \in 0 .. AllOnes
    BY Words
  <2> QED BY <1>2, <2>1, <2>2, PacketOfBytes DEF PacketLen
<1>12. CASE SendUdp
  <2> DEFINE len == Word(PacketLen(packet))
             bytes == PacketBytes(packet)
  <2>1. UNCHANGED <<src, dst, preTotal>> /\ pc' = "udp" /\ i' = 0
        /\ data' = len /\ rest' = <<bytes'>> /\ total' = preTotal
    BY <1>12 DEF SendUdp, Start
  <2>2. packet'.cksum = 0 /\ len' = len /\ len \in ByteSeq
    BY <1>3, <1>11, <1>12 DEF SendUdp
  <2> HIDE DEF len, bytes
  <2>3. UdpStage(len, bytes)'
    BY <1>4, <1>8, <2>1, <2>2 DEF UdpStage, Stage
  <2> QED BY <1>8, <2>1, <2>2, <2>3 DEF Added, PseudoSum, LastOfPseudo, len, bytes
<1>15. CASE SendIcmpv6
  <2> DEFINE addresses == src \o dst
             len == Word(PacketLen(packet))
             bytes == PacketBytes(packet)
  <2>1. UNCHANGED <<src, dst, preTotal>> /\ pc' = "icmpv6" /\ i' = 0
        /\ data' = addresses /\ rest' = <<len, LastOfPseudo, bytes'>> /\ total' = 0
    BY <1>15 DEF SendIcmpv6, Start, LastOfPseudo
  <2>2. packet'.cksum = 0 /\ len' = len /\ addresses' = addresses /\ addresses \in ByteSeq
    BY <1>1, <1>11, <1>15, <2>1 DEF SendIcmpv6
  <2> HIDE DEF addresses, len, bytes
  <2>3. Icmpv6Stage(addresses, len, bytes)'
    BY <1>8, <2>1, <2>2 DEF Icmpv6Stage, Stage
  <2> QED BY <1>8, <2>1, <2>2, <2>3 DEF Added, PseudoSum, LastOfPseudo, addresses, len, bytes
<1>13. CASE Fixed
  BY <1>13 DEF Fixed, Added, PseudoSum, LastOfPseudo
<1>14. CASE UNCHANGED vars
  <2> DEFINE len == Word(PacketLen(packet))
             bytes == PacketBytes(packet)
  <2>1. UNCHANGED <<src, dst, packet, pc, data, rest, i, total, preTotal>> /\ len' = len /\ bytes' = bytes
    BY <1>14 DEF vars
  <2> HIDE DEF len, bytes
  <2> QED BY <2>1 DEF Added, ConnectStage, UdpStage, Icmpv6Stage, Stage, PseudoSum, LastOfPseudo, len, bytes
<1> QED BY <1>6, <1>7, <1>9, <1>10, <1>12, <1>13, <1>14, <1>15 DEF Next

LEMMA AddedInvariance == Spec => [](IInv /\ Added)
BY InitIInv, InitAdded, NextIInv, NextAdded, PTL DEF Spec

(* A receiver that adds up the pseudo header and the packet, checksum      *)
(* included, finds all ones: in whatever pieces _net_udp_fix_cksum and     *)
(* _net_icmpv6_fix_cksum summed them, and although UDP summed the          *)
(* addresses long before.                                                  *)
THEOREM ReceiverAcceptsIt == Spec => ReceiverAccepts
<1> DEFINE Accepted == (ForReceiver /\ pc' = "idle") => (ReceiverSum(packet') % AllOnes) = 0
           Complete == (pc \in {"udp", "icmpv6"} /\ pc' = "idle") =>
                         packet'.cksum # 0 /\ ((covered' + packet'.cksum) % AllOnes) = 0
<1>1. IInv /\ Added /\ [Next]_vars /\ [Complete]_vars => [Accepted]_vars
  <2> SUFFICES ASSUME IInv, Added, Next, [Complete]_vars, ForReceiver, pc' = "idle"
               PROVE  (ReceiverSum(packet') % AllOnes) = 0
    OBVIOUS
  <2>1. Fixed /\ pc \in {"udp", "icmpv6"}
    BY DEF Next, AddWord, AddLastByte, NextCall, Connect, Connected, SendUdp, SendIcmpv6,
           Start, ForReceiver
  <2>2. i >= Len(data) /\ rest = <<>> /\ covered' = total /\ Finalize(sum) \in 0 .. AllOnes
    BY <2>1, Words, SMTT(30) DEF Fixed, Finalize, IInv, TypeOK
  <2>3. ((total + packet'.cksum) % AllOnes) = 0
    BY <2>1, <2>2 DEF Fixed, vars
  <2>4. PICK by \in {"udp", "icmpv6"}, head \in Heads, body \in Payloads, ck \in 0 .. AllOnes :
          packet = [by |-> by, head |-> head, data |-> body, cksum |-> ck]
    BY DEF IInv, TypeOK
  <2>5. packet = [by |-> by, head |-> head, data |-> body, cksum |-> 0]
    BY <2>1, <2>4 DEF Added
  <2>6. packet' = [by |-> by, head |-> head, data |-> body, cksum |-> Finalize(sum)]
        /\ packet'.cksum = Finalize(sum)
    BY <2>1, <2>5 DEF Fixed
  <2>7. /\ PacketLen(packet') = PacketLen(packet)
        /\ PacketBytes(packet') \in ByteSeq
        /\ WordSum(PacketBytes(packet')) = WordSum(PacketBytes(packet)) + Finalize(sum)
    BY <2>2, <2>5, <2>6, PacketSum
  <2>8. PacketLen(packet) \in 0 .. AllOnes /\ PacketBytes(packet) \in ByteSeq
    BY <2>4, PacketOfBytes
  <2> DEFINE len == Word(PacketLen(packet))
             bytes == PacketBytes(packet)
  <2>9. len \in ByteSeq /\ WordSum(len) = PacketLen(packet)
    BY <2>8, WordBytes, WordSumOfWord
  <2>10. /\ WordSum(src) \in Nat /\ WordSum(dst) \in Nat /\ WordSum(LastOfPseudo) \in Nat
         /\ WordSum(src \o dst) = WordSum(src) + WordSum(dst)
         /\ WordSum(bytes) \in Nat /\ PacketLen(packet) \in Nat /\ Finalize(sum) \in Nat
         /\ preTotal \in Nat
    BY <2>2, <2>8, PseudoBytes, WordSumType, Words DEF IInv, TypeOK
  <2>11. total = WordSum(src) + WordSum(dst) + PacketLen(packet) + WordSum(LastOfPseudo)
                 + WordSum(bytes)
    <3> HIDE DEF len, bytes
    <3>1. CASE pc = "udp"
      <4>1. UdpStage(len, bytes) /\ preTotal = PseudoSum
        BY <3>1 DEF Added, ForReceiver, len, bytes
      <4>2. Stage(bytes, <<>>, preTotal + WordSum(len))
        BY <2>2, <4>1 DEF UdpStage, Stage
      <4>3. preTotal + WordSum(len) \in Nat /\ bytes \in ByteSeq
        BY <2>8, <2>9, <2>10 DEF bytes
      <4>4. total = (preTotal + WordSum(len)) + WordSum(bytes)
        BY <2>2, <4>2, <4>3, StageDone
      <4> QED BY <2>9, <2>10, <4>1, <4>4 DEF PseudoSum
    <3>2. CASE pc = "icmpv6"
      <4> DEFINE before == WordSum(src \o dst) + WordSum(len) + WordSum(LastOfPseudo)
      <4>1. Icmpv6Stage(src \o dst, len, bytes)
        BY <3>2 DEF Added, len, bytes
      <4>2. Stage(bytes, <<>>, before)
        BY <2>2, <4>1 DEF Icmpv6Stage, Stage
      <4>3. before \in Nat /\ bytes \in ByteSeq
        BY <2>8, <2>9, <2>10 DEF bytes
      <4>4. total = before + WordSum(bytes)
        <5> HIDE DEF before
        <5> QED BY <2>2, <4>2, <4>3, StageDone
      <4> QED BY <2>9, <2>10, <4>4
    <3> QED BY <2>1, <3>1, <3>2
  <2>12. ReceiverSum(packet')
           = WordSum(src) + WordSum(dst) + PacketLen(packet) + WordSum(LastOfPseudo)
             + (WordSum(bytes) + Finalize(sum))
    <3>1. ASSUME NEW p, PacketLen(p) \in 0 .. AllOnes, PacketBytes(p) \in ByteSeq
          PROVE  ReceiverSum(p) = WordSum(src) + WordSum(dst) + PacketLen(p)
                                  + WordSum(LastOfPseudo) + WordSum(PacketBytes(p))
      BY <3>1, ReceiverPieces
    <3> QED BY <2>7, <2>8, <3>1
  <2>13. ReceiverSum(packet') = total + packet'.cksum
    <3> HIDE DEF bytes
    <3> QED BY <2>6, <2>10, <2>11, <2>12
  <2> QED BY <2>3, <2>13
<1> QED
  BY <1>1, AddedInvariance, ChecksumCompletes, PTL DEF Spec, ReceiverAccepts, Completed
=============================================================================
