---------------------------- MODULE W5500_proofs ----------------------------
(***************************************************************************)
(* Proof that the W5500 driver hands frames over and sends them whole,     *)
(* once each and in order, for every size of a byte, of the ring memories  *)
(* and of the buffer, and every set of frames and addresses.               *)
(*                                                                         *)
(* RxInv and TxInv say what the registers and the memory mean: a pointer   *)
(* is the position of a frame modulo PtrMod, the frames that wait lie in   *)
(* the memory byte by byte, and what a call has read is what lies there.   *)
(***************************************************************************)
EXTENDS W5500, Arithmetic, SequenceTheorems, TLAPS

-----------------------------------------------------------------------------
(* Facts about the ring memories and the 16-bit pointers into them, for    *)
(* every size of the ring that divides the range of the pointers.          *)
(*                                                                         *)
(* A position counts as if the memory were endless.  What the driver and   *)
(* the chip compute with pointers is right because a pointer is a position *)
(* modulo PtrMod, and an index of the ring a position modulo RingSize.     *)

LEMMA Moduli ==
  /\ Base \in Nat \ {0} /\ Base > 2
  /\ PtrMod \in Nat \ {0} /\ RingSize \in Nat \ {0} /\ RingSize < PtrMod
<1>1. Base \in Nat /\ Base > 2
  BY BaseAssumption
<1>2. Base * Base \in Nat /\ Base * Base > 2
  BY <1>1
<1> QED
  BY <1>1, <1>2, RingAssumption DEF PtrMod

(* The chip finds the index of a position from its pointer.                *)
LEMMA ModOfMod ==
  ASSUME NEW x \in Nat
  PROVE  ((x % PtrMod) % RingSize) = (x % RingSize)
<1>1. PICK t \in 1 .. PtrMod : RingSize * t = PtrMod
  BY RingAssumption
<1> DEFINE r == x % PtrMod
           q == x \div PtrMod
           s == r % RingSize
           u == r \div RingSize
<1>2. r \in 0 .. PtrMod - 1 /\ q \in Nat /\ x = PtrMod * q + r
  BY Moduli, DivMod
<1>3. r \in Nat
  BY <1>2, Moduli
<1>4. s \in 0 .. RingSize - 1 /\ u \in Nat /\ r = RingSize * u + s
  <2> HIDE DEF r
  <2> QED
    BY <1>3, Moduli, DivMod
<1> HIDE DEF r, q, s, u
<1>5. t \in Nat
  BY <1>1, Moduli
<1>6. PtrMod * q = RingSize * (t * q)
  BY <1>1, <1>2, <1>5, Moduli, SMT
<1>7. x = RingSize * (t * q + u) + s
  BY <1>2, <1>4, <1>5, <1>6, Moduli, SMT
<1>8. t * q + u \in Nat
  BY <1>2, <1>4, <1>5, SMT
<1>9. ((RingSize * (t * q + u) + s) % RingSize) = s
  BY <1>4, <1>8, Moduli, ModByQuotient
<1> QED
  BY <1>7, <1>9 DEF s, r

LEMMA FunctionSeq ==
  ASSUME NEW S, NEW n \in Nat, NEW f \in [1 .. n -> S]
  PROVE  f \in Seq(S) /\ Len(f) = n
<1>1. f \in Seq(S) /\ DOMAIN f = 1 .. n
  OBVIOUS
<1> QED
  BY <1>1

LEMMA PointerType ==
  ASSUME NEW x \in Nat
  PROVE  (x % PtrMod) \in 0 .. PtrMod - 1 /\ (x % PtrMod) \in Nat
<1>1. (x % PtrMod) \in 0 .. PtrMod - 1
  BY Moduli, DivMod
<1> QED
  BY <1>1, Moduli

LEMMA PlusOfPosition ==
  ASSUME NEW x \in Nat, NEW n \in Nat
  PROVE  Plus(x % PtrMod, n) = (x + n) % PtrMod
BY Moduli, ModOfSum DEF Plus

(* The difference of two pointers, as the chip's size registers show it.   *)
LEMMA DifferenceOfPointers ==
  ASSUME NEW w \in Nat, NEW s \in Nat, s =< w, w - s < PtrMod
  PROVE  ((PtrMod + (w % PtrMod) - (s % PtrMod)) % PtrMod) = w - s
<1> DEFINE r == s % PtrMod
           q == s \div PtrMod
           a == w % PtrMod
<1>1. r \in 0 .. PtrMod - 1 /\ q \in Nat /\ s = PtrMod * q + r
  BY Moduli, DivMod
<1>2. PtrMod - r \in Nat
  BY <1>1, Moduli
<1>3. ((a + (PtrMod - r)) % PtrMod) = ((w + (PtrMod - r)) % PtrMod)
  <2> HIDE DEF r
  <2> QED
    BY <1>2, Moduli, ModOfSum
<1>4. a \in Nat
  BY Moduli, DivMod
<1> HIDE DEF r, q, a
<1>5. w + (PtrMod - r) = PtrMod * (q + 1) + (w - s)
  BY <1>1, Moduli, SMT
<1>6. ((PtrMod * (q + 1) + (w - s)) % PtrMod) = w - s
  <2>1. q + 1 \in Nat /\ w - s \in 0 .. PtrMod - 1
    BY <1>1, Moduli
  <2> QED
    BY <2>1, Moduli, ModByQuotient
<1>7. PtrMod + a - r = a + (PtrMod - r)
  BY <1>1, <1>4, Moduli
<1> QED
  BY <1>3, <1>5, <1>6, <1>7 DEF a, r

(* A position that lies d behind another, in the ring.                     *)
LEMMA DistanceOfPositions ==
  ASSUME NEW x \in Nat, NEW w \in Nat, NEW d \in 0 .. RingSize - 1,
         x = w + d \/ x + RingSize = w + d
  PROVE  Distance(x % RingSize, w % PtrMod) = d
<1> DEFINE a == x % RingSize
           b == w % RingSize
           q == w \div RingSize
<1>1. b \in 0 .. RingSize - 1 /\ q \in Nat /\ w = RingSize * q + b
  BY Moduli, DivMod
<1>2. ((w % PtrMod) % RingSize) = b
  BY ModOfMod
<1>3. RingSize - b \in Nat /\ RingSize - b =< RingSize
  BY <1>1, Moduli
<1>4. ((a + (RingSize - b)) % RingSize) = ((x + (RingSize - b)) % RingSize)
  <2> HIDE DEF b
  <2> QED
    BY <1>3, Moduli, ModOfSum
<1>5. a \in Nat
  BY Moduli, DivMod
<1>9. a + RingSize - b = a + (RingSize - b)
  <2> HIDE DEF a, b
  <2> QED
    BY <1>1, <1>5, Moduli
<1>10. Distance(a, w % PtrMod) = ((a + (RingSize - b)) % RingSize)
  BY <1>2, <1>9 DEF Distance
<1> HIDE DEF a, b, q
<1>6. CASE x = w + d
  <2>1. x + (RingSize - b) = RingSize * (q + 1) + d
    BY <1>1, <1>6, Moduli, SMT
  <2>2. ((RingSize * (q + 1) + d) % RingSize) = d
    <3>1. q + 1 \in Nat
      BY <1>1
    <3> QED
      BY <3>1, Moduli, ModByQuotient
  <2> QED
    BY <1>4, <1>10, <2>1, <2>2 DEF a
<1>7. CASE x + RingSize = w + d
  <2>1. x + (RingSize - b) = RingSize * q + d
    BY <1>1, <1>7, Moduli, SMT
  <2>2. ((RingSize * q + d) % RingSize) = d
    BY <1>1, Moduli, ModByQuotient
  <2> QED
    BY <1>4, <1>10, <2>1, <2>2 DEF a
<1> QED
  BY <1>6, <1>7

LEMMA IndexInRing ==
  ASSUME NEW x \in Nat
  PROVE  (x % RingSize) \in 0 .. RingSize - 1
BY Moduli, DivMod

(* What is written is there.                                               *)
LEMMA StoredNew ==
  ASSUME NEW memory, NEW w \in Nat, NEW bytes \in Seq(0 .. Base - 1), Len(bytes) =< RingSize,
         NEW j \in 1 .. Len(bytes)
  PROVE  Stored(memory, w % PtrMod, bytes)[(w + j - 1) % RingSize] = bytes[j]
<1> DEFINE x == w + j - 1
           d == j - 1
<1>1. x \in Nat /\ d \in 0 .. RingSize - 1 /\ x = w + d /\ d < Len(bytes) /\ d + 1 = j
  BY Moduli
<1> HIDE DEF x, d
<1>2. Distance(x % RingSize, w % PtrMod) = d
  BY <1>1, DistanceOfPositions
<1>3. (x % RingSize) \in 0 .. RingSize - 1
  BY <1>1, IndexInRing
<1>4. Stored(memory, w % PtrMod, bytes)[x % RingSize] = bytes[d + 1]
  BY <1>1, <1>2, <1>3 DEF Stored
<1> QED
  BY <1>1, <1>4 DEF x

(* What was there is kept if there was room for both.                      *)
LEMMA StoredOld ==
  ASSUME NEW memory, NEW w \in Nat, NEW bytes, Len(bytes) \in Nat,
         NEW x \in Nat, x < w, w + Len(bytes) =< x + RingSize
  PROVE  Stored(memory, w % PtrMod, bytes)[x % RingSize] = memory[x % RingSize]
<1> DEFINE d == x + RingSize - w
<1>1. d \in 0 .. RingSize - 1 /\ x + RingSize = w + d /\ d >= Len(bytes)
  BY Moduli
<1> HIDE DEF d
<1>2. Distance(x % RingSize, w % PtrMod) = d
  BY <1>1, DistanceOfPositions
<1>3. (x % RingSize) \in 0 .. RingSize - 1
  BY IndexInRing
<1>4. ~ (d < Len(bytes))
  BY <1>1, Moduli
<1> QED
  BY <1>2, <1>3, <1>4 DEF Stored

(* What is written keeps the memory a memory.                              *)
LEMMA StoredType ==
  ASSUME NEW memory \in [0 .. RingSize - 1 -> 0 .. Base - 1], NEW pointer \in Nat,
         NEW bytes \in Seq(0 .. Base - 1)
  PROVE  Stored(memory, pointer, bytes) \in [0 .. RingSize - 1 -> 0 .. Base - 1]
<1> DEFINE S == 0 .. Base - 1
<1>1. Len(bytes) \in Nat /\ \A k \in 1 .. Len(bytes) : bytes[k] \in S
  <2>1. bytes \in Seq(S)
    OBVIOUS
  <2> HIDE DEF S
  <2> QED
    BY <2>1
<1>2. \A p \in 0 .. RingSize - 1 : Distance(p, pointer) \in Nat
  <2> TAKE p \in 0 .. RingSize - 1
  <2>1. (pointer % RingSize) \in 0 .. RingSize - 1
    BY IndexInRing
  <2>2. p + RingSize - (pointer % RingSize) \in Nat
    BY <2>1, Moduli
  <2>3. ((p + RingSize - (pointer % RingSize)) % RingSize) \in 0 .. RingSize - 1
    BY <2>2, IndexInRing
  <2> QED
    BY <2>3, Moduli DEF Distance
<1>3. \A p \in 0 .. RingSize - 1 :
        Distance(p, pointer) < Len(bytes) => Distance(p, pointer) + 1 \in 1 .. Len(bytes)
  BY <1>1, <1>2
<1>4. \A p \in 0 .. RingSize - 1 :
        (IF Distance(p, pointer) < Len(bytes)
         THEN bytes[Distance(p, pointer) + 1] ELSE memory[p]) \in S
  BY <1>1, <1>3
<1> QED
  BY <1>4 DEF Stored

(* What is read from a position is what lies there.                        *)
LEMMA FetchedAt ==
  ASSUME NEW memory, NEW x \in Nat, NEW n \in Nat, NEW j \in 1 .. n
  PROVE  Fetched(memory, x % PtrMod, n)[j] = memory[(x + j - 1) % RingSize]
<1> DEFINE r == x % PtrMod
           e == j - 1
<1>1. r \in Nat /\ e \in Nat
  BY Moduli, DivMod
<1>2. (r % RingSize) = (x % RingSize)
  BY ModOfMod
<1>3. (((r % RingSize) + e) % RingSize) = ((r + e) % RingSize)
  <2> HIDE DEF r, e
  <2> QED
    BY <1>1, Moduli, ModOfSum
<1>4. (((x % RingSize) + e) % RingSize) = ((x + e) % RingSize)
  <2> HIDE DEF e
  <2> QED
    BY <1>1, Moduli, ModOfSum
<1>5. r + j - 1 = r + e /\ x + j - 1 = x + e
  <2> HIDE DEF r
  <2> QED
    BY <1>1
<1>6. Fetched(memory, r, n)[j] = memory[(r + j - 1) % RingSize]
  BY DEF Fetched
<1> QED
  BY <1>2, <1>3, <1>4, <1>5, <1>6

LEMMA FetchedType ==
  ASSUME NEW memory \in [0 .. RingSize - 1 -> 0 .. Base - 1], NEW pointer \in Nat, NEW n \in Nat
  PROVE  /\ Fetched(memory, pointer, n) \in Seq(0 .. Base - 1)
         /\ Len(Fetched(memory, pointer, n)) = n
         /\ DOMAIN Fetched(memory, pointer, n) = 1 .. n
<1>1. \A j \in 1 .. n : ((pointer + j - 1) % RingSize) \in 0 .. RingSize - 1
  <2> TAKE j \in 1 .. n
  <2>1. pointer + j - 1 \in Nat
    OBVIOUS
  <2> QED
    BY <2>1, IndexInRing
<1>2. Fetched(memory, pointer, n) \in [1 .. n -> 0 .. Base - 1]
  BY <1>1 DEF Fetched
<1> DEFINE S == 0 .. Base - 1
           f == Fetched(memory, pointer, n)
<1>3. f \in [1 .. n -> S]
  BY <1>2
<1> HIDE DEF S, f
<1>4. f \in Seq(S) /\ DOMAIN f = 1 .. n
  BY <1>3
<1>5. Len(f) = n
  BY <1>3, <1>4
<1> QED
  BY <1>4, <1>5 DEF S, f

-----------------------------------------------------------------------------
(* Frames that lie one behind the other, each behind prefix bytes.         *)
FramesOf(D) == Seq([at : Nat, data : D])

EndOf(f, prefix) == f.at + prefix + Len(f.data)

Chained(frames, prefix) ==
  /\ frames # <<>> => frames[1].at = 0
  /\ \A k \in 1 .. Len(frames) - 1 : frames[k + 1].at = EndOf(frames[k], prefix)
  /\ \A j, k \in 1 .. Len(frames) : j < k => EndOf(frames[j], prefix) =< frames[k].at

(* Where the first frame behind the first n starts, or would.              *)
Start(frames, prefix, n) ==
  IF n < Len(frames) THEN frames[n + 1].at ELSE Behind(frames, prefix)

(* A frame accepted is laid behind the others.                             *)
Extended(frames, prefix, d) ==
  Append(frames, [at |-> Behind(frames, prefix), data |-> d])

LEMMA FrameType ==
  ASSUME NEW D, \A d \in D : Len(d) \in Nat, NEW frames \in FramesOf(D),
         NEW prefix \in Nat, NEW k \in 1 .. Len(frames)
  PROVE  /\ frames[k].at \in Nat /\ frames[k].data \in D /\ Len(frames[k].data) \in Nat
         /\ EndOf(frames[k], prefix) \in Nat
         /\ frames[k].at + prefix + Len(frames[k].data) = EndOf(frames[k], prefix)
<1> DEFINE R == [at : Nat, data : D]
<1>1. frames \in Seq(R)
  BY DEF FramesOf
<1>2. frames[k] \in R
  <2> HIDE DEF R
  <2> QED
    BY <1>1
<1> QED
  BY <1>2 DEF EndOf

LEMMA BehindType ==
  ASSUME NEW D, \A d \in D : Len(d) \in Nat, NEW frames \in FramesOf(D), NEW prefix \in Nat
  PROVE  /\ Len(frames) \in Nat
         /\ frames = <<>> <=> Len(frames) = 0
         /\ Behind(frames, prefix) \in Nat
         /\ frames # <<>> => Behind(frames, prefix) = EndOf(frames[Len(frames)], prefix)
<1>1. Len(frames) \in Nat /\ (frames = <<>> <=> Len(frames) = 0)
  BY DEF FramesOf
<1>2. CASE frames = <<>>
  BY <1>1, <1>2 DEF Behind
<1>3. CASE frames # <<>>
  <2>1. Len(frames) \in 1 .. Len(frames)
    BY <1>1, <1>3
  <2> QED
    BY <1>1, <1>3, <2>1, FrameType DEF Behind, EndOf
<1> QED
  BY <1>2, <1>3

LEMMA StartType ==
  ASSUME NEW D, \A d \in D : Len(d) \in Nat, NEW frames \in FramesOf(D), NEW prefix \in Nat,
         NEW n \in 0 .. Len(frames)
  PROVE  Start(frames, prefix, n) \in Nat
<1>1. n < Len(frames) => n + 1 \in 1 .. Len(frames)
  BY BehindType
<1> QED
  BY <1>1, FrameType, BehindType DEF Start

(* The next frame starts where this one ends.                              *)
LEMMA StartOfNext ==
  ASSUME NEW D, \A d \in D : Len(d) \in Nat, NEW frames \in FramesOf(D), NEW prefix \in Nat,
         Chained(frames, prefix), NEW n \in Nat, n < Len(frames)
  PROVE  /\ Start(frames, prefix, n) = frames[n + 1].at
         /\ Start(frames, prefix, n + 1) = EndOf(frames[n + 1], prefix)
<1>1. Len(frames) \in Nat /\ frames # <<>>
      /\ Behind(frames, prefix) = EndOf(frames[Len(frames)], prefix)
  BY BehindType
<1>2. CASE n + 1 < Len(frames)
  <2>1. n + 1 \in 1 .. Len(frames) - 1
    BY <1>1, <1>2
  <2> QED
    BY <1>1, <1>2, <2>1 DEF Start, Chained
<1>3. CASE n + 1 = Len(frames)
  BY <1>1, <1>3 DEF Start
<1> QED
  BY <1>1, <1>2, <1>3

(* All that is not yet released lies between where the next frame starts   *)
(* and where the last one ends.                                            *)
LEMMA FrameBetween ==
  ASSUME NEW D, \A d \in D : Len(d) \in Nat, NEW frames \in FramesOf(D), NEW prefix \in Nat,
         Chained(frames, prefix), NEW n \in Nat, n =< Len(frames),
         NEW k \in n + 1 .. Len(frames)
  PROVE  /\ k \in 1 .. Len(frames)
         /\ Start(frames, prefix, n) =< frames[k].at
         /\ EndOf(frames[k], prefix) =< Behind(frames, prefix)
<1>1. Len(frames) \in Nat /\ k \in 1 .. Len(frames) /\ n < Len(frames) /\ n + 1 \in 1 .. Len(frames)
  BY BehindType
<1>2. /\ frames[k].at \in Nat /\ frames[n + 1].at \in Nat
      /\ EndOf(frames[k], prefix) \in Nat /\ EndOf(frames[n + 1], prefix) \in Nat
      /\ frames[n + 1].at =< EndOf(frames[n + 1], prefix)
  <2>1. /\ frames[k].at \in Nat /\ Len(frames[k].data) \in Nat
        /\ frames[n + 1].at \in Nat /\ Len(frames[n + 1].data) \in Nat
    BY <1>1, FrameType
  <2>2. EndOf(frames[k], prefix) \in Nat
    BY <1>1, FrameType
  <2>3. EndOf(frames[n + 1], prefix) \in Nat
    BY <1>1, FrameType
  <2>4. frames[n + 1].at + prefix + Len(frames[n + 1].data) = EndOf(frames[n + 1], prefix)
    BY DEF EndOf
  <2> QED
    BY <2>1, <2>2, <2>3, <2>4
<1>3. Start(frames, prefix, n) =< frames[k].at
  <2>1. CASE k = n + 1
    BY <1>1, <1>2, <2>1 DEF Start
  <2>2. CASE n + 1 < k
    <3>1. EndOf(frames[n + 1], prefix) =< frames[k].at
      BY <1>1, <2>2 DEF Chained
    <3> QED
      BY <1>1, <1>2, <3>1 DEF Start
  <2> QED
    BY <1>1, <2>1, <2>2
<1>4. EndOf(frames[k], prefix) =< Behind(frames, prefix)
  <2>1. frames # <<>> /\ Behind(frames, prefix) = EndOf(frames[Len(frames)], prefix)
        /\ Len(frames) \in 1 .. Len(frames)
    BY <1>1, BehindType
  <2>2. CASE k = Len(frames)
    BY <1>2, <2>1, <2>2
  <2>3. CASE k < Len(frames)
    <3>1. EndOf(frames[k], prefix) =< frames[Len(frames)].at
      BY <1>1, <2>1, <2>3 DEF Chained
    <3>2. frames[Len(frames)].at \in Nat /\ Len(frames[Len(frames)].data) \in Nat
      BY <2>1, FrameType
    <3>3. /\ EndOf(frames[Len(frames)], prefix) \in Nat
          /\ frames[Len(frames)].at + prefix + Len(frames[Len(frames)].data)
             = EndOf(frames[Len(frames)], prefix)
      BY <2>1, FrameType
    <3>4. \A b, at, len, e \in Nat : b =< at /\ at + prefix + len = e => b =< e
      OBVIOUS
    <3> QED
      BY <1>2, <2>1, <3>1, <3>2, <3>3, <3>4, SMTT(30)
  <2> QED
    BY <1>1, <2>2, <2>3
<1> QED
  BY <1>1, <1>3, <1>4

(* One frame more keeps the chain, and the start of every earlier one.     *)
LEMMA ExtendedChain ==
  ASSUME NEW D, \A d \in D : Len(d) \in Nat, NEW frames \in FramesOf(D), NEW prefix \in Nat,
         Chained(frames, prefix), NEW d \in D
  PROVE  /\ Extended(frames, prefix, d) \in FramesOf(D)
         /\ Len(Extended(frames, prefix, d)) = Len(frames) + 1
         /\ \A k \in 1 .. Len(frames) : Extended(frames, prefix, d)[k] = frames[k]
         /\ Extended(frames, prefix, d)[Len(frames) + 1]
              = [at |-> Behind(frames, prefix), data |-> d]
         /\ Chained(Extended(frames, prefix, d), prefix)
         /\ Behind(Extended(frames, prefix, d), prefix) = Behind(frames, prefix) + prefix + Len(d)
         /\ \A n \in 0 .. Len(frames) :
              Start(Extended(frames, prefix, d), prefix, n) = Start(frames, prefix, n)
<1> DEFINE new == [at |-> Behind(frames, prefix), data |-> d]
           more == Append(frames, new)
           R == [at : Nat, data : D]
<1>1. Behind(frames, prefix) \in Nat /\ Len(frames) \in Nat /\ Len(d) \in Nat
  BY BehindType
<1>2. new \in R /\ new.at = Behind(frames, prefix) /\ new.data = d
  BY <1>1
<1>3. frames \in Seq(R)
  BY DEF FramesOf
<1> HIDE DEF new, R
<1>4. more \in Seq(R) /\ Len(more) = Len(frames) + 1 /\ more # <<>>
      /\ (\A k \in 1 .. Len(frames) : more[k] = frames[k]) /\ more[Len(frames) + 1] = new
  BY <1>2, <1>3, AppendProperties
<1> HIDE DEF more
<1>5. Behind(more, prefix) = Behind(frames, prefix) + prefix + Len(d)
  BY <1>2, <1>4 DEF Behind
<1>6. frames # <<>> => frames[1].at = 0 /\ 1 \in 1 .. Len(frames)
  BY <1>1, BehindType DEF Chained
<1>7. frames = <<>> => Len(frames) = 0 /\ Behind(frames, prefix) = 0
  BY DEF Behind
<1>8. more[1].at = 0
  BY <1>2, <1>4, <1>6, <1>7
<1>9. \A k \in 1 .. Len(frames) : EndOf(frames[k], prefix) =< Behind(frames, prefix)
  <2> TAKE k \in 1 .. Len(frames)
  <2>1. k \in 0 + 1 .. Len(frames) /\ 0 =< Len(frames)
    BY <1>1
  <2> QED
    BY <2>1, FrameBetween
<1>10. ASSUME NEW k \in 1 .. Len(frames)
       PROVE  more[k + 1].at = EndOf(more[k], prefix)
  <2>1. CASE k = Len(frames)
    <3>1. frames # <<>> /\ Behind(frames, prefix) = EndOf(frames[Len(frames)], prefix)
      BY <1>1, BehindType
    <3> QED
      BY <1>2, <1>4, <2>1, <3>1
  <2>2. CASE k # Len(frames)
    <3>1. k \in 1 .. Len(frames) - 1 /\ k + 1 \in 1 .. Len(frames)
      BY <1>1, <2>2
    <3> QED
      BY <1>4, <3>1 DEF Chained
  <2> QED
    BY <2>1, <2>2
<1>11. ASSUME NEW j \in 1 .. Len(more), NEW k \in 1 .. Len(more), j < k
       PROVE  EndOf(more[j], prefix) =< more[k].at
  <2>1. j \in 1 .. Len(frames)
    BY <1>1, <1>4, <1>11
  <2>2. CASE k = Len(frames) + 1
    BY <1>2, <1>4, <1>9, <2>1, <2>2
  <2>3. CASE k # Len(frames) + 1
    <3>1. k \in 1 .. Len(frames)
      BY <1>1, <1>4, <2>3
    <3> QED
      BY <1>4, <1>11, <2>1, <3>1 DEF Chained
  <2> QED
    BY <2>2, <2>3
<1>12. Chained(more, prefix)
  <2>1. \A k \in 1 .. Len(more) - 1 : k \in 1 .. Len(frames)
    BY <1>1, <1>4
  <2> QED
    BY <1>8, <1>10, <1>11, <2>1 DEF Chained
<1>13. ASSUME NEW n \in 0 .. Len(frames)
       PROVE  Start(more, prefix, n) = Start(frames, prefix, n)
  <2>1. CASE n = Len(frames)
    BY <1>1, <1>2, <1>4, <2>1 DEF Start
  <2>2. CASE n < Len(frames)
    <3>1. n + 1 \in 1 .. Len(frames)
      BY <1>1, <2>2
    <3> QED
      BY <1>1, <1>4, <2>2, <3>1 DEF Start
  <2> QED
    BY <1>1, <2>1, <2>2
<1> QED
  BY <1>4, <1>5, <1>12, <1>13 DEF Extended, FramesOf, more, new, R

-----------------------------------------------------------------------------
RxHead == Start(log, 2, taken)

RxMemory ==
  \A k \in taken + 1 .. Len(log) : \A j \in 1 .. Len(log[k].data) + 2 :
    ring[(log[k].at + j - 1) % RingSize] = Image(log[k].data)[j]

(* What hw_w5500_recv has read so far.                                     *)
RxLocals ==
  /\ pc = "size" => Base * rxrsr[1] =< Behind(log, 2) - RxHead
  /\ pc \in RxSteps \ {"size"} => taken < Len(log)
  /\ pc \in {"length", "frame", "update", "command"} => rxrd = rd
  /\ pc \in {"frame", "update", "command"} =>
       frame_length = Len(log[taken + 1].data) /\ frame_length =< BufLen
  /\ pc \in {"update", "command"} => buffer = log[taken + 1].data

RxInv ==
  /\ Chained(log, 2) /\ taken =< Len(log)
  /\ wr = Behind(log, 2) % PtrMod
  /\ rd = RxHead % PtrMod
  /\ snrxrd = (IF pc = "command" THEN Start(log, 2, taken + 1) ELSE RxHead) % PtrMod
  /\ Behind(log, 2) =< RxHead + RingSize
  /\ RxMemory
  /\ RxLocals

-----------------------------------------------------------------------------
TxHead == Start(txlog, 0, sent)
TxEnd == Behind(txlog, 0)
TxRoom == RingSize - (TxEnd - TxHead)

TxMemory ==
  \A k \in sent + 1 .. Len(txlog) : \A j \in 1 .. Len(txlog[k].data) :
    txring[(txlog[k].at + j - 1) % RingSize] = txlog[k].data[j]

TxEnds ==
  /\ Len(ends) = Len(txlog) - sent
  /\ \A i \in 1 .. Len(txlog) - sent : ends[i] = Start(txlog, 0, sent + i) % PtrMod

(* What hw_w5500_send has read and written so far.                         *)
TxLocals ==
  /\ pc \in TxSteps => frame \in TxFrames
  /\ pc = "free" => Base * txfsr[1] =< TxRoom
  /\ pc \in TxSteps \ {"free"} => TxRoom >= Len(frame) + 2
  /\ pc \in {"txframe", "txupdate", "txcommand"} => txwr = TxEnd % PtrMod
  /\ pc \in {"txupdate", "txcommand"} =>
       \A j \in 1 .. Len(frame) : txring[(TxEnd + j - 1) % RingSize] = frame[j]

TxInv ==
  /\ Chained(txlog, 0) /\ sent =< Len(txlog)
  /\ sntxrd = TxHead % PtrMod
  /\ sntxwr = (IF pc = "txcommand" THEN TxEnd + Len(frame) ELSE TxEnd) % PtrMod
  /\ TxEnd =< TxHead + RingSize
  /\ TxEnds
  /\ TxMemory
  /\ TxLocals

-----------------------------------------------------------------------------
LEMMA Frames ==
  /\ \A d \in RxFrames \union TxFrames :
       d \in Seq(0 .. Base - 1) /\ Len(d) \in Nat /\ Len(d) > 0
  /\ \A d \in RxFrames : Len(d) + 2 =< RingSize
BY FramesAssumption

(* A number below PtrMod has two bytes.                                    *)
LEMMA TwoBytes ==
  ASSUME NEW n \in Nat, n < PtrMod
  PROVE  /\ n \div Base \in 0 .. Base - 1
         /\ (n % Base) \in 0 .. Base - 1
         /\ n = Base * (n \div Base) + (n % Base)
<1> DEFINE q == n \div Base
           r == n % Base
<1>1. r \in 0 .. Base - 1 /\ q \in Nat /\ n = Base * q + r
  BY Moduli, DivMod
<1> HIDE DEF q, r
<1>2. q < Base
  <2>1. CASE q >= Base
    <3>1. Base * q >= Base * Base
      BY <1>1, <2>1, Moduli
    <3> QED
      BY <3>1, <1>1, Moduli DEF PtrMod
  <2> QED
    BY <2>1, <1>1, Moduli
<1> QED
  BY <1>1, <1>2, Moduli DEF q, r

(* A frame as the chip stores it.                                          *)
LEMMA ImageOfFrame ==
  ASSUME NEW d \in RxFrames
  PROVE  /\ Image(d) \in Seq(0 .. Base - 1)
         /\ Len(Image(d)) = Len(d) + 2
         /\ Base * Image(d)[1] + Image(d)[2] = Len(d) + 2
         /\ \A j \in 1 .. Len(d) : Image(d)[j + 2] = d[j]
<1>1. d \in Seq(0 .. Base - 1) /\ Len(d) \in Nat /\ Len(d) + 2 < PtrMod
  BY Frames, Moduli
<1> DEFINE n == Len(d) + 2
           h == n \div Base
           l == n % Base
           S == 0 .. Base - 1
<1>2. h \in S /\ l \in S /\ n = Base * h + l
  BY <1>1, TwoBytes
<1> DEFINE two == <<h, l>>
<1>3. Image(d) = two \o d
  BY DEF Image
<1> HIDE DEF h, l, n, S
<1>4. two \in Seq(S) /\ Len(two) = 2 /\ two[1] = h /\ two[2] = l
  BY <1>2
<1>5. d \in Seq(S)
  BY <1>1 DEF S
<1> HIDE DEF two
<1>6. /\ two \o d \in Seq(S)
      /\ Len(two \o d) = Len(d) + 2
      /\ \A i \in 1 .. Len(two) + Len(d) :
           (two \o d)[i] = IF i <= Len(two) THEN two[i] ELSE d[i - Len(two)]
  <2>1. /\ two \o d \in Seq(S)
        /\ Len(two \o d) = Len(two) + Len(d)
        /\ \A i \in 1 .. Len(two) + Len(d) :
             (two \o d)[i] = IF i <= Len(two) THEN two[i] ELSE d[i - Len(two)]
    BY <1>4, <1>5, ConcatProperties
  <2>2. Len(two) + Len(d) = Len(d) + 2
    BY <1>1, <1>4
  <2> QED
    BY <2>1, <2>2
<1>7. (two \o d)[1] = h /\ (two \o d)[2] = l
  BY <1>1, <1>4, <1>6
<1>8. \A j \in 1 .. Len(d) : (two \o d)[j + 2] = d[j]
  <2> TAKE j \in 1 .. Len(d)
  <2>1. j + 2 \in 1 .. Len(two) + Len(d) /\ ~ (j + 2 =< Len(two)) /\ j + 2 - Len(two) = j
    BY <1>1, <1>4
  <2> QED
    BY <1>6, <2>1
<1>9. Base * (two \o d)[1] + (two \o d)[2] = Len(d) + 2
  BY <1>2, <1>7 DEF n
<1>10. two \o d \in Seq(0 .. Base - 1)
  BY <1>6 DEF S
<1>11. Len(two \o d) = Len(d) + 2
  BY <1>6
<1> QED
  BY <1>3, <1>8, <1>9, <1>10, <1>11

-----------------------------------------------------------------------------
(* What RxInv says in terms of positions.                                  *)
LEMMA RxFacts ==
  ASSUME RxTypeOK, RxInv
  PROVE  /\ \A d \in RxFrames : Len(d) \in Nat
         /\ log \in FramesOf(RxFrames) /\ Len(log) \in Nat
         /\ Behind(log, 2) \in Nat /\ RxHead \in Nat /\ taken \in Nat
         /\ RxHead =< Behind(log, 2)
         /\ (taken < Len(log)) <=> (RxHead < Behind(log, 2))
         /\ ReceivedSize = Behind(log, 2) - RxHead
         /\ taken < Len(log) =>
              /\ taken + 1 \in taken + 1 .. Len(log)
              /\ log[taken + 1].data \in RxFrames
              /\ RxHead = log[taken + 1].at
              /\ Start(log, 2, taken + 1) = RxHead + 2 + Len(log[taken + 1].data)
              /\ Start(log, 2, taken + 1) =< Behind(log, 2)
<1>1. /\ \A d \in RxFrames : Len(d) \in Nat
      /\ log \in FramesOf(RxFrames) /\ Len(log) \in Nat /\ Behind(log, 2) \in Nat
  BY Frames, BehindType DEF RxTypeOK, FramesOf
<1>2. taken \in Nat /\ taken =< Len(log) /\ RxHead \in Nat
  <2>1. taken \in Nat /\ taken =< Len(log)
    BY DEF RxTypeOK, RxInv
  <2>2. taken \in 0 .. Len(log)
    BY <1>1, <2>1
  <2> QED
    BY <1>1, <2>1, <2>2, StartType DEF RxHead
<1>5. taken = Len(log) \/ taken < Len(log)
  BY <1>1, <1>2
<1>3. CASE taken = Len(log)
  <2>1. RxHead = Behind(log, 2)
    BY <1>1, <1>3 DEF RxHead, Start
  <2>2. ReceivedSize = Behind(log, 2) - RxHead
    BY <1>1, <1>2, <2>1, Moduli, DifferenceOfPointers DEF RxInv, ReceivedSize
  <2> QED
    BY <1>1, <1>2, <1>3, <2>1, <2>2
<1>4. CASE taken < Len(log)
  <2>1. taken + 1 \in taken + 1 .. Len(log) /\ taken + 1 \in 1 .. Len(log)
    BY <1>1, <1>2, <1>4
  <2>2. RxHead = log[taken + 1].at /\ Start(log, 2, taken + 1) = EndOf(log[taken + 1], 2)
    BY <1>1, <1>2, <1>4, StartOfNext DEF RxInv, RxHead
  <2>3. EndOf(log[taken + 1], 2) =< Behind(log, 2)
    BY <1>1, <1>2, <2>1, FrameBetween DEF RxInv
  <2>4. log[taken + 1].data \in RxFrames /\ Len(log[taken + 1].data) \in Nat
        /\ log[taken + 1].at + 2 + Len(log[taken + 1].data) = EndOf(log[taken + 1], 2)
    BY <1>1, <2>1, FrameType, ZenonT(30)
  <2>5. RxHead < Behind(log, 2)
    BY <1>1, <1>2, <2>2, <2>3, <2>4, SMTT(30)
  <2>6. ReceivedSize = Behind(log, 2) - RxHead
    <3>1. Behind(log, 2) - RxHead < PtrMod
      BY <1>1, <1>2, Moduli DEF RxInv
    <3> QED
      BY <1>1, <1>2, <2>5, <3>1, DifferenceOfPointers DEF RxInv, ReceivedSize
  <2> QED
    BY <1>1, <1>2, <1>4, <2>1, <2>2, <2>3, <2>4, <2>5, <2>6
<1> QED
  BY <1>3, <1>4, <1>5, Zenon

(* The two bytes of the size.                                              *)
LEMMA SizeBytes ==
  ASSUME NEW S, NEW s \in Seq(S), Len(s) = 2
  PROVE  s[1] \in S /\ s[2] \in S
<1>1. 1 \in 1 .. Len(s) /\ 2 \in 1 .. Len(s)
  OBVIOUS
<1> QED
  BY <1>1, ElementOfSeq

LEMMA SecondByte ==
  ASSUME NEW S, NEW s \in Seq(S), Len(s) = 2, NEW l \in S, NEW t, t = [s EXCEPT ![2] = l]
  PROVE  t \in Seq(S) /\ Len(t) = 2 /\ t[1] = s[1] /\ t[2] = l
<1>1. 1 \in 1 .. Len(s) /\ 2 \in 1 .. Len(s)
  OBVIOUS
<1> DEFINE u == [s EXCEPT ![2] = l]
<1>2. u \in Seq(S) /\ Len(u) = Len(s)
      /\ \A j \in 1 .. Len(s) : u[j] = IF j = 2 THEN l ELSE s[j]
  <2>1. s \in [1 .. 2 -> S]
    <3>1. s \in [1 .. Len(s) -> S]
      BY LenProperties
    <3> QED
      BY <3>1
  <2>2. u \in [1 .. 2 -> S] /\ \A j \in 1 .. 2 : u[j] = IF j = 2 THEN l ELSE s[j]
    BY <2>1
  <2> HIDE DEF u
  <2>3. u \in Seq(S) /\ Len(u) = 2
    BY <2>2, FunctionSeq
  <2> QED
    BY <2>2, <2>3
<1> HIDE DEF u
<1> QED
  BY <1>1, <1>2 DEF u

(* A frame that arrives is laid behind those that wait, and disturbs none  *)
(* of them, at whichever transfer of a call it arrives.                    *)
LEMMA ArriveKeeps ==
  ASSUME RxTypeOK, RxInv, NEW d \in RxFrames, Arrive(d)
  PROVE  RxTypeOK' /\ RxInv'
<1> DEFINE W == Behind(log, 2)
           more == Extended(log, 2, d)
<1>0. /\ \A f \in RxFrames : Len(f) \in Nat
      /\ log \in FramesOf(RxFrames) /\ Chained(log, 2)
  BY RxFacts DEF RxInv
<1>1. /\ Len(log) \in Nat /\ W \in Nat /\ Len(d) \in Nat
      /\ RxHead \in Nat /\ taken \in Nat /\ taken =< Len(log) /\ RxHead =< W
  BY RxFacts DEF RxInv
<1>17. ReceivedSize = W - RxHead
  BY RxFacts
<1>2. W + Len(d) + 2 =< RxHead + RingSize
  BY <1>1, <1>17, Moduli, SMTT(30) DEF Arrive
<1>3. log' = more
  BY DEF Arrive, Extended
<1>4. /\ more \in FramesOf(RxFrames) /\ Len(more) = Len(log) + 1
      /\ \A k \in 1 .. Len(log) : more[k] = log[k]
      /\ more[Len(log) + 1] = [at |-> W, data |-> d]
      /\ Chained(more, 2)
      /\ Behind(more, 2) = W + 2 + Len(d)
      /\ \A n \in 0 .. Len(log) : Start(more, 2, n) = Start(log, 2, n)
  BY <1>0, ExtendedChain
<1> HIDE DEF more
<1>5. UNCHANGED <<pc, held, rd, snrxrd, taken, rxrsr, rxrd, frame_length, buffer, out>>
  BY DEF Arrive, spi
<1>6. Behind(log', 2) = W + 2 + Len(d) /\ RxHead' = RxHead
  BY <1>1, <1>3, <1>4, <1>5 DEF RxHead
<1>7. wr' = Behind(log', 2) % PtrMod
  <2>1. wr = W % PtrMod /\ Len(d) + 2 \in Nat
    BY <1>1 DEF RxInv
  <2>2. Plus(W % PtrMod, Len(d) + 2) = (W + (Len(d) + 2)) % PtrMod
    BY <1>1, <2>1, PlusOfPosition
  <2>3. W + (Len(d) + 2) = W + 2 + Len(d)
    BY <1>1
  <2> QED
    BY <1>6, <2>1, <2>2, <2>3 DEF Arrive
<1>8. /\ Image(d) \in Seq(0 .. Base - 1) /\ Len(Image(d)) = Len(d) + 2
      /\ Len(Image(d)) \in Nat /\ Len(Image(d)) =< RingSize
  BY <1>1, ImageOfFrame, Frames
<1>9. ring' = Stored(ring, W % PtrMod, Image(d))
  BY DEF Arrive, RxInv
<1>10. ASSUME NEW k \in taken + 1 .. Len(log'), NEW j \in 1 .. Len(log'[k].data) + 2
       PROVE  ring'[(log'[k].at + j - 1) % RingSize] = Image(log'[k].data)[j]
  <2>1. CASE k = Len(log) + 1
    <3>1. log'[k].at = W /\ log'[k].data = d
      BY <1>3, <1>4, <2>1
    <3>2. j \in 1 .. Len(Image(d))
      BY <1>8, <3>1
    <3>3. Stored(ring, W % PtrMod, Image(d))[(W + j - 1) % RingSize] = Image(d)[j]
      BY <1>1, <1>8, <3>2, StoredNew, SMTT(30)
    <3> QED
      BY <1>9, <3>1, <3>3
  <2>2. CASE k # Len(log) + 1
    <3>0. Len(log') = Len(log) + 1
      BY <1>3, <1>4
    <3>1. k \in taken + 1 .. Len(log) /\ k \in 1 .. Len(log)
      BY <1>1, <2>2, <3>0
    <3>2. log'[k] = log[k]
      BY <1>3, <1>4, <3>1
    <3>3. /\ log[k].at \in Nat /\ Len(log[k].data) \in Nat
          /\ log[k].at + 2 + Len(log[k].data) = EndOf(log[k], 2)
      BY <1>0, <3>1, FrameType
    <3>4. RxHead =< log[k].at /\ EndOf(log[k], 2) =< W
      BY <1>0, <1>1, <3>1, FrameBetween DEF RxHead
    <3> DEFINE x == log[k].at + j - 1
    <3>8. j \in Nat /\ j >= 1 /\ j =< Len(log[k].data) + 2
      BY <3>2, <3>3
    <3>5. x \in Nat /\ x < W /\ W + Len(Image(d)) =< x + RingSize
      <4>1. Len(Image(d)) = Len(d) + 2
        BY <1>8
      <4> DEFINE a == log[k].at
                 l == Len(log[k].data)
      <4>2. a \in Nat /\ l \in Nat /\ RxHead =< a /\ a + 2 + l =< W /\ j =< l + 2
        BY <3>3, <3>4, <3>8
      <4>3. x = a + j - 1
        OBVIOUS
      <4> HIDE DEF a, l, x
      <4>4. x \in Nat /\ x < W /\ a =< x
        BY <1>1, <3>8, <4>2, <4>3
      <4>5. W + Len(d) + 2 =< x + RingSize
        BY <1>1, <1>2, <4>2, <4>4, Moduli
      <4> QED
        BY <1>1, <4>1, <4>4, <4>5
    <3>6. ring[x % RingSize] = Image(log[k].data)[j]
      BY <3>1, <3>2 DEF RxInv, RxMemory
    <3>7. Stored(ring, W % PtrMod, Image(d))[x % RingSize] = ring[x % RingSize]
      <4> DEFINE b == Image(d)
      <4>1. Len(b) \in Nat /\ W + Len(b) =< x + RingSize
        BY <1>8, <3>5
      <4> HIDE DEF x, b
      <4>2. Stored(ring, W % PtrMod, b)[x % RingSize] = ring[x % RingSize]
        BY <1>1, <3>5, <4>1, StoredOld, SMTT(30)
      <4> QED
        BY <4>2 DEF b
    <3> QED
      BY <1>9, <3>2, <3>6, <3>7
  <2> QED
    BY <2>1, <2>2
<1>11. RxMemory'
  BY <1>5, <1>10 DEF RxMemory
<1>12. taken < Len(log) => taken + 1 \in 1 .. Len(log) /\ taken + 1 \in 0 .. Len(log)
  BY <1>1
<1>13. pc \in RxSteps \ {"size"} => taken < Len(log)
  BY DEF RxInv, RxLocals
<1>14. RxLocals'
  <2>1. pc = "size" => Base * rxrsr[1] =< W - RxHead
    BY DEF RxInv, RxLocals
  <2>2. pc' = "size" => Base * rxrsr'[1] =< Behind(log', 2) - RxHead'
    <3>1. rxrsr[1] \in 0 .. Base - 1
      BY SizeBytes DEF RxTypeOK
    <3>2. Base * rxrsr[1] \in Nat
      BY <3>1, Moduli
    <3> QED
      BY <1>1, <1>5, <1>6, <2>1, <3>2
  <2>3. pc' \in RxSteps \ {"size"} => taken' < Len(log')
    BY <1>1, <1>3, <1>4, <1>5, <1>13
  <2>4. pc \in RxSteps \ {"size"} => log'[taken' + 1] = log[taken + 1]
    BY <1>3, <1>4, <1>5, <1>12, <1>13
  <2>5. pc' \in {"length", "frame", "update", "command"} => rxrd' = rd'
    BY <1>5 DEF RxInv, RxLocals
  <2>6. pc' \in {"frame", "update", "command"} =>
          frame_length' = Len(log'[taken' + 1].data) /\ frame_length' =< BufLen
    BY <1>5, <2>4 DEF RxInv, RxLocals, RxSteps
  <2>7. pc' \in {"update", "command"} => buffer' = log'[taken' + 1].data
    BY <1>5, <2>4 DEF RxInv, RxLocals, RxSteps
  <2> QED
    BY <2>2, <2>3, <2>5, <2>6, <2>7 DEF RxLocals
<1>15. RxInv'
  <2>1. snrxrd' = (IF pc' = "command" THEN Start(log', 2, taken' + 1) ELSE RxHead') % PtrMod
    <3>1. CASE pc = "command"
      <4>1. Start(log', 2, taken' + 1) = Start(log, 2, taken + 1)
        BY <1>3, <1>4, <1>5, <1>12, <1>13, <3>1 DEF RxSteps
      <4> QED
        BY <1>5, <3>1, <4>1 DEF RxInv
    <3>2. CASE pc # "command"
      BY <1>5, <1>6, <3>2 DEF RxInv
    <3> QED
      BY <3>1, <3>2
  <2>2. rd' = RxHead' % PtrMod
    BY <1>5, <1>6 DEF RxInv
  <2>3. Behind(log', 2) =< RxHead' + RingSize
    BY <1>1, <1>2, <1>6, Moduli
  <2>4. Chained(log', 2) /\ taken' =< Len(log')
    BY <1>1, <1>3, <1>4, <1>5
  <2> QED
    BY <1>7, <1>11, <1>14, <2>1, <2>2, <2>3, <2>4 DEF RxInv
<1>16. RxTypeOK'
  <2>1. ring' \in [0 .. RingSize - 1 -> 0 .. Base - 1]
    <3>1. (W % PtrMod) \in Nat
      BY <1>1, PointerType
    <3> QED
      BY <1>8, <1>9, <3>1, StoredType DEF RxTypeOK
  <2>2. wr' \in 0 .. PtrMod - 1
    <3>1. Behind(log', 2) \in Nat
      BY <1>1, <1>6
    <3> QED
      BY <1>7, <3>1, PointerType
  <2>3. log' \in Seq([at : Nat, data : RxFrames])
    BY <1>3, <1>4 DEF FramesOf
  <2> QED
    BY <1>5, <2>1, <2>2, <2>3 DEF RxTypeOK
<1> QED
  BY <1>15, <1>16

(* A transfer that reads leaves the chip as it is.                         *)
LEMMA ReadKeeps ==
  ASSUME RxTypeOK, RxInv, UNCHANGED <<rxChip, out>>, pc = "command" <=> pc' = "command",
         rxrsr' \in Seq(0 .. Base - 1), Len(rxrsr') = 2,
         rxrd' \in 0 .. PtrMod - 1, frame_length' \in 0 .. PtrMod - 1,
         buffer' \in Seq(0 .. Base - 1),
         RxLocals'
  PROVE  RxTypeOK' /\ RxInv'
<1>1. UNCHANGED <<ring, wr, rd, snrxrd, log, taken, out>>
  BY DEF rxChip
<1>2. RxTypeOK'
  BY <1>1 DEF RxTypeOK
<1>3. RxMemory' /\ RxHead' = RxHead
  BY <1>1 DEF RxInv, RxMemory, RxHead
<1>4. RxInv'
  BY <1>1, <1>3 DEF RxInv
<1> QED
  BY <1>2, <1>4

LEMMA RecvKeeps ==
  ASSUME RxTypeOK, RxInv, Recv
  PROVE  RxTypeOK' /\ RxInv'
<1> DEFINE W == Behind(log, 2)
           data == log[taken + 1].data
<1>1. /\ W \in Nat /\ RxHead \in Nat /\ taken \in Nat /\ Len(log) \in Nat
      /\ RxHead =< W /\ taken =< Len(log)
      /\ ReceivedSize = W - RxHead
      /\ (taken < Len(log)) <=> (RxHead < W)
  BY RxFacts DEF RxInv
<1>2. taken < Len(log) =>
        /\ taken + 1 \in taken + 1 .. Len(log)
        /\ data \in RxFrames
        /\ RxHead = log[taken + 1].at
        /\ Start(log, 2, taken + 1) = RxHead + 2 + Len(data)
        /\ Start(log, 2, taken + 1) =< W
  BY RxFacts
<1>3. ReceivedSize \in Nat /\ ReceivedSize < PtrMod
  BY <1>1, Moduli DEF RxInv
<1>4. /\ rxrsr \in Seq(0 .. Base - 1) /\ Len(rxrsr) = 2
      /\ rxrsr[1] \in 0 .. Base - 1 /\ rxrsr[2] \in 0 .. Base - 1
      /\ rxrd \in 0 .. PtrMod - 1 /\ frame_length \in 0 .. PtrMod - 1
      /\ buffer \in Seq(0 .. Base - 1)
      /\ ring \in [0 .. RingSize - 1 -> 0 .. Base - 1]
  BY SizeBytes DEF RxTypeOK
<1>5. ASSUME NEW k \in Nat, k < Len(data) + 2, taken < Len(log)
      PROVE  ring[(RxHead + k) % RingSize] = Image(data)[k + 1]
  <2>1. Len(data) \in Nat
    BY <1>2, <1>5, Frames
  <2>2. k + 1 \in 1 .. Len(data) + 2
    BY <1>5, <2>1
  <2>3. ring[(log[taken + 1].at + (k + 1) - 1) % RingSize] = Image(data)[k + 1]
    BY <1>2, <1>5, <2>2 DEF RxInv, RxMemory
  <2>4. RxHead + (k + 1) - 1 = RxHead + k
    BY <1>1, <1>5
  <2> QED
    BY <1>2, <1>5, <2>3, <2>4
<1> HIDE DEF data
<1>6. CASE ReadSizeHigh
  <2>1. /\ pc = "idle" /\ pc' = "size" /\ UNCHANGED <<rxChip, rxrd, frame_length, buffer, out>>
        /\ rxrsr' = <<ReceivedSize \div Base, 0>>
    BY <1>6 DEF ReadSizeHigh, Transfer
  <2>2. /\ ReceivedSize \div Base \in 0 .. Base - 1
        /\ (ReceivedSize % Base) \in 0 .. Base - 1
        /\ ReceivedSize = Base * (ReceivedSize \div Base) + (ReceivedSize % Base)
    BY <1>3, TwoBytes
  <2>8. 0 \in 0 .. Base - 1
    BY Moduli
  <2> DEFINE h == ReceivedSize \div Base
  <2> HIDE DEF h
  <2>3. rxrsr' = <<h, 0>> /\ h \in 0 .. Base - 1
    BY <2>1, <2>2 DEF h
  <2>4. rxrsr' \in Seq(0 .. Base - 1) /\ Len(rxrsr') = 2 /\ rxrsr'[1] = h
    BY <2>3, <2>8
  <2>5. Base * h =< ReceivedSize
    BY <1>3, <2>2, Moduli DEF h
  <2>6. Behind(log', 2) = W /\ RxHead' = RxHead
    BY <2>1 DEF rxChip, RxHead
  <2>7. RxLocals'
    BY <1>1, <2>1, <2>4, <2>5, <2>6 DEF RxLocals, RxSteps
  <2> QED
    BY <1>4, <2>1, <2>4, <2>7, ReadKeeps
<1>7. CASE ReadSizeLow
  <2>1. /\ pc = "size" /\ pc' = (IF SizeTooSmall THEN "idle" ELSE "pointer")
        /\ UNCHANGED <<rxChip, rxrd, frame_length, buffer, out>>
        /\ rxrsr' = [rxrsr EXCEPT ![2] = ReceivedSize % Base]
    BY <1>7 DEF ReadSizeLow, Transfer
  <2>2. (ReceivedSize % Base) \in 0 .. Base - 1
    BY <1>3, TwoBytes
  <2> DEFINE l == ReceivedSize % Base
             S == 0 .. Base - 1
  <2>3. rxrsr \in Seq(S) /\ l \in S
    BY <1>4, <2>2
  <2>4. 2 \in 1 .. Len(rxrsr)
    BY <1>4
  <2>5. rxrsr' \in Seq(S) /\ Len(rxrsr') = 2 /\ rxrsr'[1] = rxrsr[1] /\ rxrsr'[2] = l
    <3> HIDE DEF S, l
    <3>1. rxrsr' = [rxrsr EXCEPT ![2] = l]
      BY <2>1 DEF l
    <3> QED
      BY <1>4, <2>3, <3>1, SecondByte
  <2>6. ~ SizeTooSmall => taken < Len(log)
    <3>1. Base * rxrsr[1] =< W - RxHead
      BY <2>1 DEF RxInv, RxLocals
    <3>2. rxrsr[1] # 0 => Base * rxrsr[1] > 0
      BY <1>4, Moduli
    <3>3. W - RxHead = 0 => l = 0
      <4>1. (0 % Base) = 0
        BY Moduli
      <4> QED
        BY <1>1, <4>1
    <3> HIDE DEF l
    <3>4. ~ SizeTooSmall => rxrsr[1] # 0 \/ ~ (l < 2)
      BY <2>5 DEF SizeTooSmall
    <3>5. ~ SizeTooSmall => W - RxHead # 0
      <4>1. Base * rxrsr[1] \in Nat
        BY <1>4, Moduli
      <4> QED
        BY <1>1, <3>1, <3>2, <3>3, <3>4, <4>1
    <3> QED
      BY <1>1, <3>5
  <2>7. pc' = "pointer" => taken' < Len(log')
    BY <2>1, <2>6 DEF rxChip
  <2>8. RxLocals'
    BY <2>1, <2>7 DEF RxLocals, RxSteps
  <2> QED
    BY <1>4, <2>1, <2>5, <2>8, ReadKeeps
<1>8. CASE ReadPointer
  <2>1. /\ pc = "pointer" /\ pc' = "length" /\ rxrd' = snrxrd
        /\ UNCHANGED <<rxChip, rxrsr, frame_length, buffer, out>>
    BY <1>8 DEF ReadPointer, Transfer
  <2>2. snrxrd = rd /\ snrxrd \in 0 .. PtrMod - 1
    BY <2>1 DEF RxInv, RxTypeOK
  <2>3. taken < Len(log)
    BY <2>1 DEF RxInv, RxLocals, RxSteps
  <2>4. RxLocals'
    BY <2>1, <2>2, <2>3 DEF RxLocals, RxSteps, rxChip
  <2> QED
    BY <1>4, <2>1, <2>2, <2>4, ReadKeeps
<1>9. CASE ReadLength
  <2>1. /\ pc = "length" /\ pc' = AfterLength(frame_length') /\ buffer' = <<>>
        /\ frame_length' = LET bytes == Fetched(ring, rxrd, 2)
                           IN  (PtrMod + Base * bytes[1] + bytes[2] - 2) % PtrMod
        /\ UNCHANGED <<rxChip, rxrsr, rxrd, out>>
    BY <1>9 DEF ReadLength, Transfer
  <2>2. taken < Len(log) /\ rxrd = RxHead % PtrMod
    BY <2>1 DEF RxInv, RxLocals, RxSteps
  <2>3. Len(data) \in Nat /\ Len(data) > 0 /\ Len(data) + 2 < PtrMod
    BY <1>2, <2>2, Frames, Moduli
  <2>13. \A j \in 1 .. 2 : Fetched(ring, RxHead % PtrMod, 2)[j] = ring[(RxHead + j - 1) % RingSize]
    <3> TAKE j \in 1 .. 2
    <3>1. 2 \in Nat /\ RxHead \in Nat
      BY <1>1
    <3> QED
      BY <3>1, FetchedAt
  <2>4. Fetched(ring, rxrd, 2)[1] = Image(data)[1]
    <3>1. Fetched(ring, RxHead % PtrMod, 2)[1] = ring[(RxHead + 1 - 1) % RingSize]
      BY <2>13
    <3>2. RxHead + 1 - 1 = RxHead + 0
      BY <1>1
    <3>3. ring[(RxHead + 0) % RingSize] = Image(data)[0 + 1]
      BY <1>5, <2>2, <2>3
    <3> QED
      BY <2>2, <3>1, <3>2, <3>3
  <2>5. Fetched(ring, rxrd, 2)[2] = Image(data)[2]
    <3>1. Fetched(ring, RxHead % PtrMod, 2)[2] = ring[(RxHead + 2 - 1) % RingSize]
      BY <2>13
    <3>2. RxHead + 2 - 1 = RxHead + 1
      BY <1>1
    <3>3. ring[(RxHead + 1) % RingSize] = Image(data)[1 + 1]
      BY <1>5, <2>2, <2>3
    <3> QED
      BY <2>2, <3>1, <3>2, <3>3
  <2>6. frame_length' = Len(data)
    <3> DEFINE a == Base * Image(data)[1]
               b == Image(data)[2]
    <3>1. a + b = Len(data) + 2 /\ a \in Int /\ b \in Int
      <4>1. Image(data) \in Seq(0 .. Base - 1) /\ Len(Image(data)) = Len(data) + 2
            /\ a + b = Len(data) + 2
        BY <1>2, <2>2, ImageOfFrame
      <4>2. 1 \in 1 .. Len(Image(data)) /\ 2 \in 1 .. Len(Image(data))
        BY <2>3, <4>1
      <4>3. Image(data)[1] \in 0 .. Base - 1 /\ Image(data)[2] \in 0 .. Base - 1
        BY <4>1, <4>2, ElementOfSeq
      <4> QED
        BY <4>1, <4>3, Moduli
    <3>2. frame_length' = (PtrMod + a + b - 2) % PtrMod
      BY <2>1, <2>4, <2>5
    <3> HIDE DEF a, b
    <3>3. PtrMod + a + b - 2 = PtrMod * 1 + Len(data)
      BY <2>3, <3>1, Moduli
    <3>4. ((PtrMod * 1 + Len(data)) % PtrMod) = Len(data)
      BY <2>3, Moduli, ModByQuotient
    <3> QED
      BY <3>2, <3>3, <3>4
  <2>7. frame_length' \in 0 .. PtrMod - 1
    BY <2>3, <2>6, Moduli
  <2>8. pc' = "frame" => frame_length' =< BufLen
    <3>1. pc' = "frame" => ~ (frame_length' > BufLen)
      BY <2>1 DEF AfterLength, TooLong
    <3> QED
      BY <2>7, <3>1, BoundsAssumption, Moduli
  <2>9. pc' \in {"idle", "frame"}
    BY <2>1 DEF AfterLength
  <2>10. /\ log' = log /\ taken' = taken /\ rd' = rd /\ rxrd' = rd
    BY <2>1 DEF rxChip, RxInv, RxLocals
  <2>11. RxLocals'
    BY <2>2, <2>6, <2>8, <2>9, <2>10 DEF RxLocals, RxSteps, data
  <2>12. buffer' \in Seq(0 .. Base - 1)
    BY <2>1
  <2> QED
    BY <1>4, <2>1, <2>7, <2>9, <2>11, <2>12, ReadKeeps
<1>10. CASE ReadFrame
  <2>1. /\ pc = "frame" /\ pc' = "update"
        /\ buffer' = Fetched(ring, Plus(rxrd, 2), frame_length)
        /\ UNCHANGED <<rxChip, rxrsr, rxrd, frame_length, out>>
    BY <1>10 DEF ReadFrame, Transfer, FrameAt
  <2>2. /\ taken < Len(log) /\ rxrd = rd /\ rd = RxHead % PtrMod
        /\ frame_length = Len(data) /\ frame_length =< BufLen
    BY <2>1 DEF RxInv, RxLocals, RxSteps, data
  <2>3. data \in Seq(0 .. Base - 1) /\ Len(data) \in Nat
    BY <1>2, <2>2, Frames
  <2>4. Plus(rxrd, 2) = (RxHead + 2) % PtrMod
    BY <1>1, <2>2, PlusOfPosition
  <2>5. buffer' = Fetched(ring, (RxHead + 2) % PtrMod, Len(data))
    BY <2>1, <2>2, <2>4
  <2>6. buffer' \in Seq(0 .. Base - 1) /\ Len(buffer') = Len(data)
    <3>0. RxHead + 2 \in Nat
      BY <1>1
    <3>1. (RxHead + 2) % PtrMod \in Nat
      BY <3>0, PointerType
    <3> QED
      BY <1>4, <2>3, <2>5, <3>1, FetchedType
  <2>7. ASSUME NEW j \in 1 .. Len(data)
        PROVE  buffer'[j] = data[j]
    <3>1. RxHead + 2 \in Nat
      BY <1>1
    <3>2. buffer'[j] = ring[(RxHead + 2 + j - 1) % RingSize]
      BY <2>3, <2>5, <3>1, FetchedAt
    <3>3. RxHead + 2 + j - 1 = RxHead + (j + 1) /\ j + 1 \in Nat /\ j + 1 < Len(data) + 2
          /\ (j + 1) + 1 = j + 2
      BY <1>1, <2>3
    <3>4. ring[(RxHead + (j + 1)) % RingSize] = Image(data)[(j + 1) + 1]
      BY <1>5, <2>2, <3>3
    <3>5. Image(data)[j + 2] = data[j]
      BY <1>2, <2>2, ImageOfFrame
    <3> QED
      BY <3>2, <3>3, <3>4, <3>5
  <2>8. buffer' = data
    BY <2>3, <2>6, <2>7, SeqEqual
  <2>9. RxLocals'
    BY <2>1, <2>2, <2>8 DEF RxLocals, RxSteps, rxChip, data
  <2> QED
    BY <1>4, <2>1, <2>6, <2>9, ReadKeeps
<1>11. CASE WritePointer
  <2>1. /\ pc = "update" /\ pc' = "command" /\ snrxrd' = Plus(rxrd, 2 + frame_length)
        /\ UNCHANGED <<ring, wr, rd, log, taken, rxrsr, rxrd, frame_length, buffer, out>>
    BY <1>11 DEF WritePointer, Transfer, PastFrame
  <2>2. /\ taken < Len(log) /\ rxrd = rd /\ rd = RxHead % PtrMod
        /\ frame_length = Len(data) /\ frame_length =< BufLen /\ buffer = data
    BY <2>1 DEF RxInv, RxLocals, RxSteps, data
  <2>3. Len(data) \in Nat
    BY <1>2, <2>2, Frames
  <2>4. snrxrd' = (RxHead + (2 + Len(data))) % PtrMod
    BY <1>1, <2>1, <2>2, <2>3, PlusOfPosition
  <2>5. RxHead + (2 + Len(data)) = Start(log, 2, taken + 1)
    BY <1>1, <1>2, <2>2, <2>3
  <2>6. snrxrd' = Start(log', 2, taken' + 1) % PtrMod
    BY <2>1, <2>4, <2>5
  <2>7. snrxrd' \in 0 .. PtrMod - 1
    <3>1. RxHead + (2 + Len(data)) \in Nat
      BY <1>1, <2>3
    <3> QED
      BY <2>4, <3>1, PointerType
  <2>8. RxHead' = RxHead /\ RxMemory'
    BY <2>1 DEF RxHead, RxInv, RxMemory
  <2>9. RxLocals'
    BY <2>1, <2>2 DEF RxLocals, RxSteps, data
  <2>10. RxInv'
    BY <2>1, <2>6, <2>8, <2>9 DEF RxInv
  <2>11. RxTypeOK'
    BY <2>1, <2>7 DEF RxTypeOK
  <2> QED
    BY <2>10, <2>11
<1>12. CASE CommandRecv
  <2>1. /\ pc = "command" /\ pc' = "idle" /\ rd' = snrxrd /\ taken' = taken + 1 /\ out' = buffer
        /\ UNCHANGED <<ring, wr, snrxrd, log, rxrsr, rxrd, frame_length, buffer>>
    BY <1>12 DEF CommandRecv, Transfer
  <2>2. taken < Len(log) /\ snrxrd = Start(log, 2, taken + 1) % PtrMod
    BY <2>1 DEF RxInv, RxLocals, RxSteps
  <2>3. RxHead' = Start(log, 2, taken + 1)
    BY <2>1 DEF RxHead
  <2>4. Len(data) \in Nat
    BY <1>2, <2>2, Frames
  <2>5. RxHead' \in Nat /\ RxHead =< RxHead'
    BY <1>1, <1>2, <2>2, <2>3, <2>4
  <2>6. Behind(log', 2) =< RxHead' + RingSize
    BY <1>1, <2>1, <2>5, Moduli, SMTT(30) DEF RxInv
  <2>7. RxMemory'
    <3>1. \A k \in taken + 2 .. Len(log) : k \in taken + 1 .. Len(log)
      BY <1>1
    <3>2. taken' + 1 = taken + 2
      BY <1>1, <2>1
    <3> QED
      BY <2>1, <3>1, <3>2 DEF RxInv, RxMemory
  <2>8. taken' =< Len(log') /\ taken' \in Nat
    BY <1>1, <2>1, <2>2
  <2>9. RxLocals'
    BY <2>1 DEF RxLocals, RxSteps
  <2>10. RxInv'
    BY <2>1, <2>2, <2>3, <2>6, <2>7, <2>8, <2>9 DEF RxInv
  <2>11. RxTypeOK'
    BY <2>1, <2>8 DEF RxTypeOK
  <2> QED
    BY <2>10, <2>11
<1> QED
  BY <1>6, <1>7, <1>8, <1>9, <1>10, <1>11, <1>12 DEF Recv

-----------------------------------------------------------------------------
(* What TxInv says in terms of positions.                                  *)
LEMMA TxFacts ==
  ASSUME TxTypeOK, TxInv
  PROVE  /\ \A d \in TxFrames : Len(d) \in Nat
         /\ txlog \in FramesOf(TxFrames) /\ Len(txlog) \in Nat
         /\ TxEnd \in Nat /\ TxHead \in Nat /\ sent \in Nat /\ sent =< Len(txlog)
         /\ TxHead =< TxEnd /\ TxRoom \in Nat /\ TxRoom =< RingSize
         /\ FreeSize = TxRoom
         /\ sent < Len(txlog) =>
              /\ sent + 1 \in sent + 1 .. Len(txlog)
              /\ txlog[sent + 1].data \in TxFrames
              /\ TxHead = txlog[sent + 1].at
              /\ Start(txlog, 0, sent + 1) = TxHead + Len(txlog[sent + 1].data)
              /\ Start(txlog, 0, sent + 1) =< TxEnd
<1>1. /\ \A d \in TxFrames : Len(d) \in Nat
      /\ txlog \in FramesOf(TxFrames) /\ Len(txlog) \in Nat /\ TxEnd \in Nat
  BY Frames, BehindType DEF TxTypeOK, FramesOf, TxEnd
<1>2. sent \in Nat /\ sent =< Len(txlog) /\ TxHead \in Nat
  <2>1. sent \in Nat /\ sent =< Len(txlog)
    BY DEF TxTypeOK, TxInv
  <2>2. sent \in 0 .. Len(txlog)
    BY <1>1, <2>1
  <2> QED
    BY <1>1, <2>1, <2>2, StartType DEF TxHead
<1>3. Len(ends) = Len(txlog) - sent /\ (ends = <<>> <=> sent = Len(txlog))
  <2>1. Len(ends) = Len(txlog) - sent /\ ends \in Seq(0 .. PtrMod - 1)
    BY DEF TxInv, TxEnds, TxTypeOK
  <2>2. ends = <<>> <=> Len(ends) = 0
    BY <2>1
  <2> QED
    BY <1>1, <1>2, <2>1, <2>2
<1>4. TxEnd =< TxHead + RingSize
  BY DEF TxInv
<1>5. CASE sent = Len(txlog)
  <2>1. TxHead = TxEnd
    BY <1>1, <1>5 DEF TxHead, TxEnd, Start
  <2>2. FreeSize = RingSize
    BY <1>3, <1>5, Moduli DEF FreeSize
  <2>3. TxRoom = RingSize
    BY <1>1, <2>1, Moduli DEF TxRoom
  <2>4. ~ (sent < Len(txlog))
    BY <1>1, <1>5
  <2>5. TxHead =< TxEnd /\ TxRoom \in Nat /\ TxRoom =< RingSize
    BY <1>1, <2>1, <2>3, Moduli
  <2> QED
    BY <1>1, <1>2, <2>2, <2>3, <2>4, <2>5, Zenon
<1>6. CASE sent < Len(txlog)
  <2>1. sent + 1 \in sent + 1 .. Len(txlog) /\ sent + 1 \in 1 .. Len(txlog)
    BY <1>1, <1>2, <1>6
  <2>2. TxHead = txlog[sent + 1].at /\ Start(txlog, 0, sent + 1) = EndOf(txlog[sent + 1], 0)
    BY <1>1, <1>2, <1>6, StartOfNext DEF TxInv, TxHead
  <2>3. EndOf(txlog[sent + 1], 0) =< TxEnd
    BY <1>1, <1>2, <2>1, FrameBetween DEF TxInv, TxEnd
  <2>4. txlog[sent + 1].data \in TxFrames /\ Len(txlog[sent + 1].data) \in Nat
        /\ txlog[sent + 1].at + 0 + Len(txlog[sent + 1].data) = EndOf(txlog[sent + 1], 0)
    BY <1>1, <2>1, FrameType, ZenonT(30)
  <2>5. TxHead =< TxEnd /\ TxRoom \in Nat /\ TxRoom =< RingSize
    <3>1. TxHead =< TxEnd
      BY <1>1, <1>2, <2>2, <2>3, <2>4
    <3> QED
      BY <1>1, <1>2, <1>4, <3>1, Moduli DEF TxRoom
  <2>6. ends[Len(ends)] = TxEnd % PtrMod
    <3>1. Len(txlog) - sent \in 1 .. Len(txlog) - sent /\ sent + (Len(txlog) - sent) = Len(txlog)
      BY <1>1, <1>2, <1>6
    <3>2. Start(txlog, 0, Len(txlog)) = TxEnd
      BY <1>1 DEF Start, TxEnd
    <3>3. ends[Len(txlog) - sent] = Start(txlog, 0, sent + (Len(txlog) - sent)) % PtrMod
      BY <3>1 DEF TxInv, TxEnds
    <3> QED
      BY <1>3, <3>1, <3>2, <3>3
  <2>7. Waiting(ends[Len(ends)]) = TxEnd - TxHead
    <3>1. TxEnd - TxHead < PtrMod
      BY <1>1, <1>2, <1>4, Moduli
    <3> QED
      BY <1>1, <1>2, <2>5, <2>6, <3>1, DifferenceOfPointers DEF TxInv, Waiting
  <2>8. FreeSize = TxRoom
    BY <1>3, <1>6, <2>7 DEF FreeSize, TxRoom
  <2>9. Start(txlog, 0, sent + 1) = TxHead + Len(txlog[sent + 1].data)
    BY <1>2, <2>2, <2>4
  <2> QED
    BY <1>1, <1>2, <2>1, <2>2, <2>3, <2>4, <2>5, <2>8, <2>9, Zenon
<1>7. sent = Len(txlog) \/ sent < Len(txlog)
  BY <1>1, <1>2
<1> QED
  BY <1>5, <1>6, <1>7, Zenon

(* The chip sends the oldest frame as it was accepted, at whichever        *)
(* transfer of a call.                                                     *)
LEMMA TransmitKeeps ==
  ASSUME TxTypeOK, TxInv, Transmit
  PROVE  /\ TxTypeOK' /\ TxInv'
         /\ sent < Len(txlog) /\ sent' = sent + 1 /\ txlog' = txlog
         /\ wire' = txlog[sent + 1].data
<1> DEFINE data == txlog[sent + 1].data
           next == Start(txlog, 0, sent + 1)
<1>0. \A d \in TxFrames : d \in Seq(0 .. Base - 1) /\ Len(d) \in Nat
  BY Frames
<1>1. /\ Len(txlog) \in Nat /\ TxEnd \in Nat /\ TxHead \in Nat /\ sent \in Nat
      /\ sent =< Len(txlog) /\ TxHead =< TxEnd
  BY TxFacts
<1>2. ends \in Seq(0 .. PtrMod - 1) /\ ends # <<>> /\ Len(ends) = Len(txlog) - sent
  BY DEF Transmit, TxTypeOK, TxInv, TxEnds
<1>3. sent < Len(txlog)
  <2>1. Len(ends) # 0
    BY <1>2
  <2> QED
    BY <1>1, <1>2, <2>1
<1>4. /\ data \in TxFrames /\ TxHead = txlog[sent + 1].at
      /\ next = TxHead + Len(data) /\ next =< TxEnd /\ sent + 1 \in sent + 1 .. Len(txlog)
  BY <1>3, TxFacts
<1>5. data \in Seq(0 .. Base - 1) /\ Len(data) \in Nat
  BY <1>0, <1>4
<1>6. \A j \in 1 .. Len(data) : txring[(TxHead + j - 1) % RingSize] = data[j]
  BY <1>4 DEF TxInv, TxMemory
<1> HIDE DEF data, next
<1>7. UNCHANGED <<pc, held, txring, sntxwr, txlog, txfsr, txwr, frame>>
      /\ sntxrd' = Head(ends) /\ ends' = Tail(ends) /\ sent' = sent + 1
      /\ wire' = Fetched(txring, sntxrd, Waiting(Head(ends)))
  BY DEF Transmit, spi
<1>8. Head(ends) = next % PtrMod
  <2>1. Head(ends) = ends[1]
    BY <1>2
  <2>2. 1 \in 1 .. Len(txlog) - sent
    BY <1>1, <1>3
  <2> QED
    BY <2>1, <2>2 DEF TxInv, TxEnds, next
<1>9. next \in Nat /\ TxHead =< next /\ next - TxHead = Len(data)
  BY <1>1, <1>4, <1>5, SMTT(30)
<1>10. TxEnd =< TxHead + RingSize /\ sntxrd = TxHead % PtrMod
  BY DEF TxInv
<1>11. Waiting(Head(ends)) = Len(data)
  <2>1. next - TxHead < PtrMod
    <3>1. RingSize \in Nat /\ PtrMod \in Nat /\ RingSize < PtrMod
      BY Moduli
    <3>2. \A n, h, e, r, m \in Nat :
            n =< e /\ e =< h + r /\ r < m => n - h < m
      OBVIOUS
    <3> QED
      BY <1>1, <1>4, <1>9, <1>10, <3>1, <3>2
  <2> QED
    BY <1>1, <1>8, <1>9, <1>10, <2>1, DifferenceOfPointers DEF Waiting
<1>12. wire' = data
  <2>1. (TxHead % PtrMod) \in Nat /\ txring \in [0 .. RingSize - 1 -> 0 .. Base - 1]
    BY <1>1, PointerType DEF TxTypeOK
  <2>2. wire' = Fetched(txring, TxHead % PtrMod, Len(data))
    BY <1>7, <1>10, <1>11
  <2>3. wire' \in Seq(0 .. Base - 1) /\ Len(wire') = Len(data)
    BY <1>5, <2>1, <2>2, FetchedType
  <2>4. ASSUME NEW j \in 1 .. Len(data)
        PROVE  wire'[j] = data[j]
    <3>1. Fetched(txring, TxHead % PtrMod, Len(data))[j] = txring[(TxHead + j - 1) % RingSize]
      BY <1>1, <1>5, FetchedAt
    <3> QED
      BY <1>6, <2>2, <3>1
  <2> QED
    BY <1>5, <2>3, <2>4, SeqEqual
<1>13. TxHead' = next /\ TxEnd' = TxEnd /\ TxRoom' >= TxRoom /\ TxRoom \in Nat /\ TxRoom' \in Nat
  <2>1. TxHead' = next /\ TxEnd' = TxEnd
    BY <1>7 DEF TxHead, TxEnd, next
  <2>2. TxRoom = RingSize - (TxEnd - TxHead) /\ TxRoom' = RingSize - (TxEnd - next)
    BY <2>1 DEF TxRoom
  <2>3. RingSize \in Nat
    BY Moduli
  <2>4. next =< TxEnd
    BY <1>4
  <2> HIDE DEF TxHead, TxEnd, TxRoom
  <2>5. TxRoom' >= TxRoom /\ TxRoom \in Nat /\ TxRoom' \in Nat
    BY <1>1, <1>9, <1>10, <2>2, <2>3, <2>4
  <2> QED
    BY <2>1, <2>5
<1>14. TxEnds'
  <2>1. Tail(ends) \in Seq(0 .. PtrMod - 1) /\ Len(Tail(ends)) = Len(ends) - 1
        /\ \A i \in 1 .. Len(Tail(ends)) : Tail(ends)[i] = ends[i + 1]
    BY <1>2, HeadTailProperties
  <2>2. Len(ends') = Len(txlog') - sent'
    BY <1>1, <1>2, <1>7, <2>1
  <2>3. ASSUME NEW i \in 1 .. Len(txlog') - sent'
        PROVE  ends'[i] = Start(txlog', 0, sent' + i) % PtrMod
    <3>1. i + 1 \in 1 .. Len(txlog) - sent /\ sent' + i = sent + (i + 1) /\ i \in 1 .. Len(Tail(ends))
      BY <1>1, <1>2, <1>7, <2>1
    <3>2. ends[i + 1] = Start(txlog, 0, sent + (i + 1)) % PtrMod
      BY <3>1 DEF TxInv, TxEnds
    <3> QED
      BY <1>7, <2>1, <3>1, <3>2
  <2> QED
    BY <2>2, <2>3 DEF TxEnds
<1>15. TxMemory'
  <2>1. \A k \in sent' + 1 .. Len(txlog') : k \in sent + 1 .. Len(txlog)
    BY <1>1, <1>7
  <2> QED
    BY <1>7, <2>1 DEF TxInv, TxMemory
<1>16. TxLocals'
  <2>1. pc = "free" => Base * txfsr[1] =< TxRoom
    BY DEF TxInv, TxLocals
  <2>2. Base * txfsr[1] \in Nat
    <3>1. txfsr[1] \in 0 .. Base - 1
      BY SizeBytes DEF TxTypeOK
    <3> QED
      BY <3>1, Moduli
  <2>3. pc' = "free" => Base * txfsr'[1] =< TxRoom'
    BY <1>7, <1>13, <2>1, <2>2
  <2>4. pc \in TxSteps => frame \in TxFrames /\ Len(frame) \in Nat
    BY <1>0 DEF TxInv, TxLocals
  <2>5. pc \in TxSteps \ {"free"} => TxRoom >= Len(frame) + 2
    BY DEF TxInv, TxLocals
  <2>6. pc' \in TxSteps \ {"free"} => TxRoom' >= Len(frame') + 2
    BY <1>7, <1>13, <2>4, <2>5
  <2>7. /\ pc' \in {"txframe", "txupdate", "txcommand"} => txwr' = TxEnd' % PtrMod
        /\ pc' \in {"txupdate", "txcommand"} =>
             \A j \in 1 .. Len(frame') : txring'[(TxEnd' + j - 1) % RingSize] = frame'[j]
    BY <1>7, <1>13 DEF TxInv, TxLocals
  <2> QED
    BY <1>7, <2>3, <2>4, <2>6, <2>7 DEF TxLocals
<1>17. TxInv'
  <2>1. TxEnd' =< TxHead' + RingSize
    BY <1>1, <1>9, <1>10, <1>13, Moduli
  <2>2. sntxrd' = TxHead' % PtrMod
    BY <1>7, <1>8, <1>13
  <2>3. sntxwr' = (IF pc' = "txcommand" THEN TxEnd' + Len(frame') ELSE TxEnd') % PtrMod
    BY <1>7, <1>13 DEF TxInv
  <2>4. sent' =< Len(txlog') /\ Chained(txlog', 0)
    BY <1>1, <1>3, <1>7 DEF TxInv
  <2> QED
    BY <1>14, <1>15, <1>16, <2>1, <2>2, <2>3, <2>4 DEF TxInv
<1>18. TxTypeOK'
  <2>1. wire' \in Seq(0 .. Base - 1)
    BY <1>5, <1>12
  <2>2. sntxrd' \in 0 .. PtrMod - 1 /\ ends' \in Seq(0 .. PtrMod - 1)
    BY <1>2, <1>7, HeadTailProperties
  <2>3. sent' \in Nat
    BY <1>1, <1>7
  <2> QED
    BY <1>7, <2>1, <2>2, <2>3 DEF TxTypeOK
<1> QED
  BY <1>3, <1>7, <1>12, <1>17, <1>18 DEF data

(* A byte count below another one, of whole multiples of Base.             *)
LEMMA HighByteBelow ==
  ASSUME NEW h \in Nat, NEW n \in Nat, n < PtrMod, Base * h =< n
  PROVE  Base * h + (n % Base) =< n
<1> DEFINE q == n \div Base
           l == n % Base
<1>1. q \in Nat /\ l \in 0 .. Base - 1 /\ n = Base * q + l
  BY TwoBytes, Moduli
<1> HIDE DEF q, l
<1>2. CASE h > q
  <2>1. Base * (q + 1) =< Base * h
    BY <1>1, <1>2, Moduli
  <2>2. Base * (q + 1) = Base * q + Base /\ Base * q \in Nat /\ Base * h \in Nat
    BY <1>1, Moduli
  <2> QED
    BY <1>1, <2>1, <2>2, Moduli
<1>3. CASE h =< q
  <2>1. Base * h =< Base * q /\ Base * q \in Nat /\ Base * h \in Nat
    BY <1>1, <1>3, Moduli
  <2>2. Base * h + l =< n
    BY <1>1, <2>1, Moduli
  <2> QED
    BY <2>2 DEF l
<1> QED
  BY <1>1, <1>2, <1>3

(* A transfer of hw_w5500_send before the last one that writes.            *)
LEMMA TxReadKeeps ==
  ASSUME TxTypeOK, TxInv, UNCHANGED txChip, pc # "txcommand", pc' # "txcommand",
         txfsr' \in Seq(0 .. Base - 1), Len(txfsr') = 2,
         txwr' \in 0 .. PtrMod - 1, frame' \in TxFrames \union {<<>>},
         TxLocals'
  PROVE  TxTypeOK' /\ TxInv'
<1>1. UNCHANGED <<txring, sntxwr, sntxrd, ends, txlog, sent, wire>>
  BY DEF txChip
<1>2. TxTypeOK'
  BY <1>1 DEF TxTypeOK
<1>3. TxMemory' /\ TxHead' = TxHead /\ TxEnd' = TxEnd /\ TxEnds'
  BY <1>1 DEF TxInv, TxMemory, TxHead, TxEnd, TxEnds
<1>4. TxInv'
  BY <1>1, <1>3 DEF TxInv
<1> QED
  BY <1>2, <1>4

LEMMA SendKeeps ==
  ASSUME TxTypeOK, TxInv, Send
  PROVE  TxTypeOK' /\ TxInv'
<1>0. \A d \in TxFrames : d \in Seq(0 .. Base - 1) /\ Len(d) \in Nat
  BY Frames
<1>1. /\ txlog \in FramesOf(TxFrames) /\ Len(txlog) \in Nat
      /\ TxEnd \in Nat /\ TxHead \in Nat /\ sent \in Nat /\ sent =< Len(txlog)
      /\ TxHead =< TxEnd /\ TxRoom \in Nat /\ TxRoom =< RingSize /\ FreeSize = TxRoom
  BY TxFacts
<1>2. TxRoom < PtrMod /\ TxEnd =< TxHead + RingSize /\ TxRoom = RingSize - (TxEnd - TxHead)
  BY <1>1, Moduli DEF TxInv, TxRoom
<1>3. /\ txfsr \in Seq(0 .. Base - 1) /\ Len(txfsr) = 2 /\ txfsr[1] \in 0 .. Base - 1
      /\ txwr \in 0 .. PtrMod - 1 /\ frame \in TxFrames \union {<<>>}
      /\ txring \in [0 .. RingSize - 1 -> 0 .. Base - 1]
  BY SizeBytes DEF TxTypeOK
<1>4. pc \in TxSteps => /\ frame \in TxFrames /\ frame \in Seq(0 .. Base - 1)
                        /\ Len(frame) \in Nat
  BY <1>0 DEF TxInv, TxLocals
<1>5. CASE \E data \in TxFrames : ReadFreeHigh(data)
  <2>0. PICK data \in TxFrames : ReadFreeHigh(data)
    BY <1>5
  <2>1. /\ pc = "idle" /\ pc' = "free" /\ UNCHANGED <<txChip, txwr>>
        /\ txfsr' = <<TxRoom \div Base, 0>> /\ frame' = data
    BY <1>1, <2>0 DEF ReadFreeHigh, Transfer
  <2> DEFINE h == TxRoom \div Base
             l == TxRoom % Base
  <2>2. h \in 0 .. Base - 1 /\ TxRoom = Base * h + l /\ l \in 0 .. Base - 1
    BY <1>1, <1>2, TwoBytes
  <2>3. txfsr' = <<h, 0>>
    BY <2>1
  <2> HIDE DEF h, l
  <2>4. 0 \in 0 .. Base - 1
    BY Moduli
  <2>5. txfsr' \in Seq(0 .. Base - 1) /\ Len(txfsr') = 2 /\ txfsr'[1] = h
    BY <2>2, <2>3, <2>4
  <2>6. Base * h =< TxRoom
    <3>1. Base * h \in Nat /\ l \in Nat
      BY <2>2, Moduli
    <3> QED
      BY <1>1, <2>2, <3>1
  <2>7. TxRoom' = TxRoom
    BY <2>1 DEF TxRoom, TxEnd, TxHead, txChip
  <2>8. TxLocals'
    BY <2>1, <2>5, <2>6, <2>7 DEF TxLocals, TxSteps
  <2>9. frame' \in TxFrames \union {<<>>} /\ txwr' \in 0 .. PtrMod - 1
    BY <1>3, <2>1
  <2> QED
    BY <2>1, <2>5, <2>8, <2>9, TxReadKeeps
<1>6. CASE ReadFreeLow
  <2>1. /\ pc = "free" /\ pc' = (IF NoRoom THEN "idle" ELSE "txpointer")
        /\ txfsr' = [txfsr EXCEPT ![2] = TxRoom % Base]
        /\ UNCHANGED <<txChip, txwr, frame>>
    BY <1>1, <1>6 DEF ReadFreeLow, Transfer
  <2> DEFINE l == TxRoom % Base
             S == 0 .. Base - 1
  <2>2. l \in 0 .. Base - 1
    BY <1>1, <1>2, TwoBytes
  <2>3. txfsr \in Seq(S) /\ l \in S
    BY <1>3, <2>2
  <2>4. txfsr' \in Seq(S) /\ Len(txfsr') = 2 /\ txfsr'[1] = txfsr[1] /\ txfsr'[2] = l
    <3> HIDE DEF S, l
    <3>1. txfsr' = [txfsr EXCEPT ![2] = l]
      BY <2>1 DEF l
    <3> QED
      BY <1>3, <2>3, <3>1, SecondByte
  <2>5. Base * txfsr[1] + l =< TxRoom
    <3>1. Base * txfsr[1] =< TxRoom /\ txfsr[1] \in Nat
      BY <1>3, <2>1 DEF TxInv, TxLocals
    <3> QED
      BY <1>1, <1>2, <3>1, HighByteBelow
  <2>6. Base * txfsr[1] \in Nat /\ l \in Nat /\ Len(frame) \in Nat /\ frame \in TxFrames
    BY <1>3, <1>4, <2>1, <2>2, Moduli DEF TxSteps
  <2>7. pc' # "idle" => TxRoom >= Len(frame) + 2
    <3>1. NoRoom <=> Base * txfsr[1] + l < Len(frame) + 2
      BY <2>4 DEF NoRoom
    <3> HIDE DEF l
    <3> QED
      BY <1>1, <2>1, <2>5, <2>6, <3>1
  <2>8. TxRoom' = TxRoom
    BY <2>1 DEF TxRoom, TxEnd, TxHead, txChip
  <2>9. TxLocals'
    BY <2>1, <2>6, <2>7, <2>8 DEF TxLocals, TxSteps
  <2>10. txfsr' \in Seq(0 .. Base - 1) /\ Len(txfsr') = 2
    BY <2>4
  <2>11. pc # "txcommand" /\ pc' # "txcommand"
    BY <2>1
  <2>12. txwr' \in 0 .. PtrMod - 1 /\ frame' \in TxFrames \union {<<>>} /\ UNCHANGED txChip
    BY <1>3, <2>1
  <2> QED
    BY <2>9, <2>10, <2>11, <2>12, TxReadKeeps
<1>7. CASE ReadWritePointer
  <2>1. /\ pc = "txpointer" /\ pc' = "txframe" /\ txwr' = sntxwr
        /\ UNCHANGED <<txChip, txfsr, frame>>
    BY <1>7 DEF ReadWritePointer, Transfer
  <2>2. txwr' = TxEnd % PtrMod /\ txwr' \in 0 .. PtrMod - 1
    BY <2>1 DEF TxInv, TxTypeOK
  <2>3. TxRoom' = TxRoom /\ TxEnd' = TxEnd
    BY <2>1 DEF TxRoom, TxEnd, TxHead, txChip
  <2>4. TxLocals'
    BY <1>4, <2>1, <2>2, <2>3 DEF TxInv, TxLocals, TxSteps
  <2> QED
    BY <1>3, <2>1, <2>2, <2>4, TxReadKeeps
<1>8. CASE WriteFrame
  <2>1. /\ pc = "txframe" /\ pc' = "txupdate" /\ txring' = Stored(txring, txwr, frame)
        /\ UNCHANGED <<sntxwr, sntxrd, ends, txlog, sent, wire, txfsr, txwr, frame>>
    BY <1>8 DEF WriteFrame, Transfer
  <2>2. /\ frame \in TxFrames /\ frame \in Seq(0 .. Base - 1) /\ Len(frame) \in Nat
        /\ txwr = TxEnd % PtrMod /\ TxRoom >= Len(frame) + 2
    BY <1>4, <2>1 DEF TxInv, TxLocals, TxSteps
  <2>3. Len(frame) =< RingSize /\ TxEnd + Len(frame) =< TxHead + RingSize
    BY <1>1, <1>2, <2>2, Moduli
  <2>4. txring' = Stored(txring, TxEnd % PtrMod, frame)
    BY <2>1, <2>2
  <2>5. TxHead' = TxHead /\ TxEnd' = TxEnd /\ TxRoom' = TxRoom
    BY <2>1 DEF TxRoom, TxHead, TxEnd
  <2>6. \A j \in 1 .. Len(frame) : txring'[(TxEnd + j - 1) % RingSize] = frame[j]
    <3> TAKE j \in 1 .. Len(frame)
    <3>1. TxEnd \in Nat /\ frame \in Seq(0 .. Base - 1) /\ Len(frame) =< RingSize
      BY <1>1, <2>2, <2>3
    <3>2. Stored(txring, TxEnd % PtrMod, frame)[(TxEnd + j - 1) % RingSize] = frame[j]
      BY <3>1, StoredNew
    <3> QED
      BY <2>4, <3>2
  <2>7. ASSUME NEW k \in sent + 1 .. Len(txlog), NEW j \in 1 .. Len(txlog[k].data)
        PROVE  txring'[(txlog[k].at + j - 1) % RingSize] = txlog[k].data[j]
    <3>1. k \in 1 .. Len(txlog)
      BY <1>1
    <3>2. /\ txlog[k].at \in Nat /\ Len(txlog[k].data) \in Nat
          /\ txlog[k].at + 0 + Len(txlog[k].data) = EndOf(txlog[k], 0)
      BY <1>0, <1>1, <3>1, FrameType
    <3>3. TxHead =< txlog[k].at /\ EndOf(txlog[k], 0) =< TxEnd
      BY <1>0, <1>1, FrameBetween DEF TxInv, TxHead, TxEnd
    <3> DEFINE a == txlog[k].at
               n == Len(txlog[k].data)
               x == a + j - 1
    <3>4. a \in Nat /\ n \in Nat /\ TxHead =< a /\ a + n =< TxEnd /\ j \in Nat /\ 1 =< j /\ j =< n
      BY <3>2, <3>3
    <3>5. x = a + j - 1
      OBVIOUS
    <3>6. txring[x % RingSize] = txlog[k].data[j]
      BY DEF TxInv, TxMemory
    <3> HIDE DEF a, n, x
    <3>7. x \in Nat /\ x < TxEnd /\ a =< x
      BY <1>1, <3>4, <3>5
    <3>8. TxEnd + Len(frame) =< x + RingSize
      BY <1>1, <2>2, <2>3, <3>4, <3>7, Moduli
    <3>9. Stored(txring, TxEnd % PtrMod, frame)[x % RingSize] = txring[x % RingSize]
      BY <1>1, <2>2, <3>7, <3>8, StoredOld
    <3> QED
      BY <2>4, <3>6, <3>9 DEF x, a
  <2>8. TxMemory'
    BY <2>1, <2>7 DEF TxMemory
  <2>9. TxLocals'
    BY <2>1, <2>2, <2>5, <2>6 DEF TxLocals, TxSteps
  <2>10. TxEnds'
    BY <2>1 DEF TxInv, TxEnds
  <2>11. TxInv'
    BY <2>1, <2>5, <2>8, <2>9, <2>10 DEF TxInv
  <2>12. txring' \in [0 .. RingSize - 1 -> 0 .. Base - 1]
    <3>1. (TxEnd % PtrMod) \in Nat
      BY <1>1, PointerType
    <3> QED
      BY <1>3, <2>2, <2>4, <3>1, StoredType
  <2>13. TxTypeOK'
    BY <2>1, <2>12 DEF TxTypeOK
  <2> QED
    BY <2>11, <2>13
<1>9. CASE UpdateWritePointer
  <2>1. /\ pc = "txupdate" /\ pc' = "txcommand" /\ sntxwr' = Plus(txwr, Len(frame))
        /\ UNCHANGED <<txring, sntxrd, ends, txlog, sent, wire, txfsr, txwr, frame>>
    BY <1>9 DEF UpdateWritePointer, Transfer, BehindFrame
  <2>2. /\ frame \in TxFrames /\ Len(frame) \in Nat
        /\ txwr = TxEnd % PtrMod /\ TxRoom >= Len(frame) + 2
        /\ \A j \in 1 .. Len(frame) : txring[(TxEnd + j - 1) % RingSize] = frame[j]
    BY <1>4, <2>1 DEF TxInv, TxLocals, TxSteps
  <2>3. sntxwr' = (TxEnd + Len(frame)) % PtrMod
    BY <1>1, <2>1, <2>2, PlusOfPosition
  <2>4. TxHead' = TxHead /\ TxEnd' = TxEnd /\ TxRoom' = TxRoom
    BY <2>1 DEF TxRoom, TxHead, TxEnd
  <2>5. TxEnds' /\ TxMemory'
    BY <2>1 DEF TxInv, TxEnds, TxMemory
  <2>6. TxLocals'
    BY <2>1, <2>2, <2>4 DEF TxLocals, TxSteps
  <2>7. TxInv'
    BY <2>1, <2>3, <2>4, <2>5, <2>6 DEF TxInv
  <2>8. sntxwr' \in 0 .. PtrMod - 1
    <3>1. TxEnd + Len(frame) \in Nat
      BY <1>1, <2>2
    <3> QED
      BY <2>3, <3>1, PointerType
  <2>9. TxTypeOK'
    BY <2>1, <2>8 DEF TxTypeOK
  <2> QED
    BY <2>7, <2>9
<1>10. CASE CommandSend
  <2> DEFINE more == Extended(txlog, 0, frame)
  <2>1. /\ pc = "txcommand" /\ pc' = "idle" /\ ends' = Append(ends, sntxwr) /\ txlog' = more
        /\ UNCHANGED <<txring, sntxwr, sntxrd, sent, wire, txfsr, txwr, frame>>
    BY <1>10 DEF CommandSend, Transfer, Extended
  <2>2. /\ frame \in TxFrames /\ Len(frame) \in Nat /\ TxRoom >= Len(frame) + 2
        /\ sntxwr = (TxEnd + Len(frame)) % PtrMod
        /\ \A j \in 1 .. Len(frame) : txring[(TxEnd + j - 1) % RingSize] = frame[j]
    BY <1>4, <2>1 DEF TxInv, TxLocals, TxSteps
  <2>3. /\ more \in FramesOf(TxFrames) /\ Len(more) = Len(txlog) + 1
        /\ \A k \in 1 .. Len(txlog) : more[k] = txlog[k]
        /\ more[Len(txlog) + 1] = [at |-> TxEnd, data |-> frame]
        /\ Chained(more, 0)
        /\ Behind(more, 0) = TxEnd + 0 + Len(frame)
        /\ \A n \in 0 .. Len(txlog) : Start(more, 0, n) = Start(txlog, 0, n)
    <3>1. /\ Chained(txlog, 0) /\ (\A d \in TxFrames : Len(d) \in Nat) /\ 0 \in Nat
      BY <1>0 DEF TxInv
    <3> QED
      BY <1>1, <2>2, <3>1, ExtendedChain, SMTT(30) DEF TxEnd
  <2> HIDE DEF more
  <2>4. TxEnd' = TxEnd + Len(frame)
    BY <1>1, <2>1, <2>2, <2>3 DEF TxEnd
  <2>5. TxHead' = TxHead
    <3>1. sent \in 0 .. Len(txlog)
      BY <1>1
    <3> QED
      BY <2>1, <2>3, <3>1 DEF TxHead
  <2>6. TxEnd' =< TxHead' + RingSize
    BY <1>1, <1>2, <2>2, <2>4, <2>5, Moduli
  <2>7. TxEnds'
    <3>1. ends \in Seq(0 .. PtrMod - 1) /\ Len(ends) = Len(txlog) - sent /\ sntxwr \in 0 .. PtrMod - 1
      BY DEF TxTypeOK, TxInv, TxEnds
    <3>2. Len(ends') = Len(txlog') - sent'
      BY <1>1, <2>1, <2>3, <3>1
    <3>3. ASSUME NEW i \in 1 .. Len(txlog') - sent'
          PROVE  ends'[i] = Start(txlog', 0, sent' + i) % PtrMod
      <4>1. CASE i = Len(ends) + 1
        <5>1. ends'[i] = sntxwr
          BY <2>1, <3>1, <4>1
        <5>2. sent' + i = Len(txlog) + 1 /\ Len(txlog') = Len(txlog) + 1
          BY <1>1, <2>1, <2>3, <3>1, <4>1
        <5>3. Start(txlog', 0, sent' + i) = TxEnd'
          BY <1>1, <5>2 DEF Start, TxEnd
        <5> QED
          BY <2>2, <2>4, <5>1, <5>3
      <4>2. CASE i # Len(ends) + 1
        <5>1. i \in 1 .. Len(ends) /\ i \in 1 .. Len(txlog) - sent /\ sent + i \in 0 .. Len(txlog)
          BY <1>1, <2>1, <2>3, <3>1, <4>2
        <5>2. ends'[i] = ends[i]
          BY <2>1, <3>1, <5>1
        <5>3. ends[i] = Start(txlog, 0, sent + i) % PtrMod
          BY <5>1 DEF TxInv, TxEnds
        <5>4. Start(txlog', 0, sent' + i) = Start(txlog, 0, sent + i)
          BY <2>1, <2>3, <5>1
        <5> QED
          BY <5>2, <5>3, <5>4
      <4> QED
        BY <4>1, <4>2
    <3> QED
      BY <3>2, <3>3 DEF TxEnds
  <2>8. TxMemory'
    <3>1. ASSUME NEW k \in sent' + 1 .. Len(txlog'), NEW j \in 1 .. Len(txlog'[k].data)
          PROVE  txring'[(txlog'[k].at + j - 1) % RingSize] = txlog'[k].data[j]
      <4>1. CASE k = Len(txlog) + 1
        <5>1. txlog'[k].at = TxEnd /\ txlog'[k].data = frame
          BY <2>1, <2>3, <4>1
        <5>2. j \in 1 .. Len(frame)
          BY <5>1
        <5> QED
          BY <2>1, <2>2, <5>1, <5>2
      <4>2. CASE k # Len(txlog) + 1
        <5>1. k \in sent + 1 .. Len(txlog) /\ k \in 1 .. Len(txlog)
          BY <1>1, <2>1, <2>3, <4>2
        <5>2. txlog'[k] = txlog[k]
          BY <2>1, <2>3, <5>1
        <5> QED
          BY <2>1, <5>1, <5>2 DEF TxInv, TxMemory
      <4> QED
        BY <4>1, <4>2
    <3> QED
      BY <3>1 DEF TxMemory
  <2>9. TxLocals'
    BY <2>1 DEF TxLocals, TxSteps
  <2>10. sent' =< Len(txlog') /\ Len(txlog') \in Nat
    BY <1>1, <2>1, <2>3
  <2>11. sntxwr' = (IF pc' = "txcommand" THEN TxEnd' + Len(frame') ELSE TxEnd') % PtrMod
    BY <2>1, <2>2, <2>4
  <2>12. sntxrd' = TxHead' % PtrMod /\ Chained(txlog', 0)
    BY <2>1, <2>3, <2>5 DEF TxInv
  <2>13. TxInv'
    BY <2>6, <2>7, <2>8, <2>9, <2>10, <2>11, <2>12 DEF TxInv
  <2>14. ends' \in Seq(0 .. PtrMod - 1) /\ txlog' \in Seq([at : Nat, data : TxFrames])
    BY <2>1, <2>3 DEF TxTypeOK, FramesOf
  <2>15. TxTypeOK'
    BY <2>1, <2>14 DEF TxTypeOK
  <2> QED
    BY <2>13, <2>15
<1> QED
  BY <1>5, <1>6, <1>7, <1>8, <1>9, <1>10 DEF Send

-----------------------------------------------------------------------------
(* The calls take turns at the bus.                                        *)
RxPlaces == {"idle"} \union RxSteps
TxPlaces == {"idle"} \union TxSteps
CtlPlaces == {"idle"} \union CtlSteps

LEMMA TransferKeeps ==
  ASSUME BusReleased, lost \in Nat, lost' = lost, NEW from, NEW to, Transfer(from, to)
  PROVE  BusReleased' /\ held' \in Nat /\ pc = from /\ pc' = to
<1>1. /\ pc = from /\ pc' = to
      /\ held' = held + (IF from = "idle" THEN 1 ELSE 0) - (IF to = "idle" THEN 1 ELSE 0)
  BY DEF Transfer
<1>2. held = lost + (IF pc = "idle" THEN 0 ELSE 1)
  BY DEF BusReleased
<1>3. held' = lost' + (IF pc' = "idle" THEN 0 ELSE 1) /\ held' \in Nat
  BY <1>1, <1>2
<1> QED
  BY <1>1, <1>3 DEF BusReleased

LEMMA RecvTransfer ==
  ASSUME Recv
  PROVE  \E from, to \in RxPlaces : Transfer(from, to)
BY DEF Recv, ReadSizeHigh, ReadSizeLow, ReadPointer, ReadLength, ReadFrame, WritePointer,
       CommandRecv, AfterLength, RxPlaces, RxSteps

LEMMA SendTransfer ==
  ASSUME Send
  PROVE  \E from, to \in TxPlaces : Transfer(from, to)
BY DEF Send, ReadFreeHigh, ReadFreeLow, ReadWritePointer, WriteFrame, UpdateWritePointer,
       CommandSend, TxPlaces, TxSteps

(* A step of another part leaves reception and transmission as they are.   *)
LEMMA RxUntouched ==
  ASSUME RxTypeOK, RxInv, UNCHANGED rxVars,
         pc' = pc \/ (pc \notin RxSteps /\ pc' \notin RxSteps)
  PROVE  RxTypeOK' /\ RxInv'
<1>1. UNCHANGED <<ring, wr, rd, snrxrd, log, taken, rxrsr, rxrd, frame_length, buffer, out>>
  BY DEF rxVars, rxChip
<1>2. RxTypeOK'
  BY <1>1 DEF RxTypeOK
<1>3. RxMemory' /\ RxHead' = RxHead
  BY <1>1 DEF RxInv, RxMemory, RxHead
<1>4. RxLocals'
  BY <1>1, <1>3 DEF RxInv, RxLocals, RxSteps
<1>5. pc' = "command" <=> pc = "command"
  BY DEF RxSteps
<1>6. RxInv'
  BY <1>1, <1>3, <1>4, <1>5 DEF RxInv
<1> QED
  BY <1>2, <1>6

LEMMA TxUntouched ==
  ASSUME TxTypeOK, TxInv, UNCHANGED txVars,
         pc' = pc \/ (pc \notin TxSteps /\ pc' \notin TxSteps)
  PROVE  TxTypeOK' /\ TxInv'
<1>1. UNCHANGED <<txring, sntxwr, sntxrd, ends, txlog, sent, wire, txfsr, txwr, frame>>
  BY DEF txVars, txChip
<1>2. TxTypeOK'
  BY <1>1 DEF TxTypeOK
<1>3. TxMemory' /\ TxHead' = TxHead /\ TxEnd' = TxEnd /\ TxEnds' /\ TxRoom' = TxRoom
  BY <1>1 DEF TxInv, TxMemory, TxHead, TxEnd, TxEnds, TxRoom
<1>4. TxLocals'
  BY <1>1, <1>3 DEF TxInv, TxLocals, TxSteps
<1>5. pc' = "txcommand" <=> pc = "txcommand"
  BY DEF TxSteps
<1>6. TxInv'
  BY <1>1, <1>3, <1>4, <1>5 DEF TxInv
<1> QED
  BY <1>2, <1>6

-----------------------------------------------------------------------------
(* What the registers of configuration mean.                               *)
PhyInv ==
  /\ chip.link \in Reachable(chip.phy) \union {"NONE"}
  /\ chip.phy = "pins" => asked = NotAsked
  /\ chip.phy \notin {"pins", "reset"} => chip.phy = Mode(asked)
  /\ pc \in {"phy", "phycfg"} => chip.phy = "reset"
  /\ pc = "phycfg" => Mode(asked) # "unknown"

CtlInv == BusReleased /\ AddressKept /\ PhyInv

Phys == LinkSpeeds \union {"100HD_AN", "all", "pins", "reset", "down"}

LEMMA ModeOfRequest ==
  ASSUME NEW r \in Requests
  PROVE  /\ Mode(r) \in LinkSpeeds \union {"100HD_AN", "all", "down", "unknown"}
         /\ Mode(r) \in LinkSpeeds => r.up /\ ~ r.autoneg /\ r.speed = Mode(r)
         /\ Mode(r) = "100HD_AN" => r.up /\ r.autoneg /\ r.speed = "100HD"
         /\ Mode(r) = "all" => r.up /\ r.autoneg /\ r.speed \in {"100FD", "NONE"}
<1>1. r.up \in BOOLEAN /\ r.autoneg \in BOOLEAN /\ r.speed \in Speeds
  BY DEF Requests
<1>2. CASE ~ r.up
  BY <1>1, <1>2 DEF Mode, LinkSpeeds
<1>3. CASE r.up /\ r.autoneg
  BY <1>1, <1>3 DEF Mode, LinkSpeeds, Speeds
<1>4. CASE r.up /\ ~ r.autoneg
  BY <1>1, <1>4 DEF Mode, LinkSpeeds, Speeds
<1> QED
  BY <1>1, <1>2, <1>3, <1>4

LEMMA ReachableOfPhy ==
  /\ \A phy \in LinkSpeeds : Reachable(phy) = {phy}
  /\ Reachable("100HD_AN") = {"100HD"}
  /\ Reachable("all") = LinkSpeeds /\ Reachable("pins") = LinkSpeeds
  /\ Reachable("reset") = {} /\ Reachable("down") = {}
BY DEF Reachable, LinkSpeeds

LEMMA ReachableType ==
  ASSUME NEW phy \in Phys
  PROVE  Reachable(phy) \subseteq LinkSpeeds
BY ReachableOfPhy DEF Phys, LinkSpeeds

(* A turn of a wait.                                                       *)
LEMMA TurnKeeps ==
  ASSUME CtlTypeOK, BusReleased, lost' = lost, NEW step, NEW seen \in BOOLEAN, NEW next,
         WaitTurn(step, seen, next)
  PROVE  /\ BusReleased' /\ held' \in Nat /\ pc = step /\ pc' \in {step, next}
         /\ turns' \in 0 .. Timeout - 1
         /\ pc' # step => Over(seen)
<1>1. turns \in 0 .. Timeout - 1 /\ lost \in Nat /\ Timeout \in Nat \ {0}
  BY CtlAssumption DEF CtlTypeOK
<1>2. Transfer(step, IF Over(seen) THEN next ELSE step)
  BY DEF WaitTurn
<1>3. /\ BusReleased' /\ held' \in Nat /\ pc = step
      /\ pc' = (IF Over(seen) THEN next ELSE step)
  BY <1>1, <1>2, TransferKeeps
<1>4. turns' \in 0 .. Timeout - 1
  <2>1. turns' = (IF Over(seen) THEN 0 ELSE turns + 1)
    BY DEF WaitTurn
  <2>2. ~ Over(seen) => turns + 1 # Timeout
    BY DEF Over
  <2> HIDE DEF Over
  <2> QED
    BY <1>1, <2>1, <2>2
<1> QED
  BY <1>3, <1>4

(* A step that leaves the registers of the chip, what was asked and what   *)
(* was given as they are.                                                  *)
LEMMA ChipAsItIs ==
  ASSUME CtlTypeOK, CtlInv, UNCHANGED <<chip, asked, given>>,
         app' \in [speed : LinkSpeeds \union {"NONE"}, opened : BOOLEAN,
                   mac : Macs \union {NoMac, Overwritten}],
         app'.mac = app.mac \/ app'.mac = chip.mac,
         turns' \in 0 .. Timeout - 1, lost' \in Nat, BusReleased',
         pc' \in {"phy", "phycfg"} => pc \in {"phy", "phycfg"},
         pc' = "phycfg" => pc = "phycfg" \/ Mode(asked) # "unknown"
  PROVE  CtlTypeOK' /\ CtlInv'
<1>1. CtlTypeOK'
  BY DEF CtlTypeOK
<1>2. AddressKept'
  BY DEF CtlInv, AddressKept
<1>3. PhyInv'
  BY DEF CtlInv, PhyInv
<1> QED
  BY <1>1, <1>2, <1>3 DEF CtlInv

LEMMA ConfigureKeeps ==
  ASSUME CtlTypeOK, CtlInv, Configure
  PROVE  /\ CtlTypeOK' /\ CtlInv' /\ held' \in Nat
         /\ pc \in CtlPlaces /\ pc' \in CtlPlaces
<1> DEFINE Chips == [resets : BOOLEAN, link : LinkSpeeds \union {"NONE"}, phy : Phys,
                     mac : Macs \union {NoMac}, sock : {"closed", "opening", "MACRAW"}]
           Apps == [speed : LinkSpeeds \union {"NONE"}, opened : BOOLEAN,
                    mac : Macs \union {NoMac, Overwritten}]
<1>1. /\ chip \in Chips /\ app \in Apps /\ turns \in 0 .. Timeout - 1
      /\ asked \in Requests /\ given \in Macs \union {NoMac} /\ lost \in Nat
  BY DEF CtlTypeOK, Phys
<1>2. BusReleased /\ AddressKept /\ PhyInv
  BY DEF CtlInv
<1>3. ASSUME NEW to, Transfer("idle", to), lost' = lost
      PROVE  BusReleased' /\ held' \in Nat /\ pc = "idle" /\ pc' = to
  BY <1>1, <1>2, <1>3, TransferKeeps
<1>4. CASE ResetChip
  <2>1. /\ Transfer("idle", "mr") /\ UNCHANGED <<turns, app, lost>>
        /\ chip' = [PowerUp EXCEPT !.resets = TRUE]
        /\ asked' = NotAsked /\ given' = NoMac
    BY <1>4 DEF ResetChip
  <2>2. BusReleased' /\ held' \in Nat /\ pc = "idle" /\ pc' = "mr"
    BY <1>3, <2>1
  <2>3. chip' \in Chips /\ chip'.phy = "pins" /\ chip'.link = "NONE"
    BY <2>1 DEF PowerUp, Phys
  <2>4. asked' \in Requests
    BY <2>1 DEF NotAsked, Requests, Speeds
  <2>5. CtlTypeOK'
    BY <1>1, <2>1, <2>3, <2>4 DEF CtlTypeOK, Phys
  <2>6. AddressKept'
    BY <2>1 DEF AddressKept
  <2>7. PhyInv'
    BY <2>1, <2>2, <2>3 DEF PhyInv
  <2> QED
    BY <2>2, <2>5, <2>6, <2>7 DEF CtlInv, CtlPlaces, CtlSteps
<1>5. CASE \E request \in Requests : ResetPhy(request)
  <2>0. PICK request \in Requests : ResetPhy(request)
    BY <1>5
  <2>1. /\ Transfer("idle", "phy") /\ UNCHANGED <<turns, app, given, lost>>
        /\ chip' = [chip EXCEPT !.phy = "reset", !.link = "NONE"] /\ asked' = request
    BY <2>0 DEF ResetPhy
  <2>2. BusReleased' /\ held' \in Nat /\ pc = "idle" /\ pc' = "phy"
    BY <1>3, <2>1
  <2>3. chip' \in Chips /\ chip'.phy = "reset" /\ chip'.link = "NONE" /\ chip'.mac = chip.mac
    BY <1>1, <2>1 DEF Phys
  <2>4. CtlTypeOK'
    BY <1>1, <2>1, <2>3 DEF CtlTypeOK, Phys
  <2>5. AddressKept'
    BY <1>2, <2>1, <2>3 DEF AddressKept
  <2>6. PhyInv'
    BY <2>1, <2>2, <2>3 DEF PhyInv
  <2> QED
    BY <2>2, <2>4, <2>5, <2>6 DEF CtlInv, CtlPlaces, CtlSteps
<1>6. CASE ReadPhycfg
  <2>1. /\ Transfer("idle", "idle") /\ UNCHANGED <<chip, turns, asked, given, lost>>
        /\ app' = [app EXCEPT !.speed = IF chip.link = "100HD" THEN "100FD" ELSE chip.link]
    BY <1>6 DEF ReadPhycfg
  <2>2. BusReleased' /\ held' \in Nat /\ pc = "idle" /\ pc' = "idle"
    BY <1>3, <2>1
  <2>3. app' \in Apps /\ app'.mac = app.mac
    BY <1>1, <2>1 DEF LinkSpeeds
  <2>4. CtlTypeOK' /\ CtlInv'
    BY <1>1, <2>1, <2>2, <2>3, ChipAsItIs
  <2> QED
    BY <2>2, <2>4 DEF CtlPlaces
<1>7. CASE \E mac \in Macs : SetMac(mac)
  <2>0. PICK mac \in Macs : SetMac(mac)
    BY <1>7
  <2>1. /\ Transfer("idle", "idle") /\ UNCHANGED <<turns, asked, lost>>
        /\ chip' = [chip EXCEPT !.mac = mac] /\ app' = [app EXCEPT !.mac = mac]
        /\ given' = mac
    BY <2>0 DEF SetMac
  <2>2. BusReleased' /\ held' \in Nat /\ pc = "idle" /\ pc' = "idle"
    BY <1>3, <2>1
  <2>3. chip' \in Chips /\ app' \in Apps /\ chip'.mac = mac /\ app'.mac = mac
        /\ chip'.phy = chip.phy /\ chip'.link = chip.link
    BY <1>1, <2>1
  <2>4. CtlTypeOK'
    BY <1>1, <2>1, <2>3 DEF CtlTypeOK, Phys
  <2>5. AddressKept'
    BY <2>1, <2>3 DEF AddressKept
  <2>6. PhyInv'
    BY <1>2, <2>1, <2>2, <2>3 DEF PhyInv
  <2> QED
    BY <2>2, <2>4, <2>5, <2>6 DEF CtlInv, CtlPlaces
<1>8. CASE GetMac
  <2>1. /\ Transfer("idle", "idle") /\ UNCHANGED <<chip, turns, asked, given, lost>>
        /\ app' = [app EXCEPT !.mac = chip.mac]
    BY <1>8 DEF GetMac
  <2>2. BusReleased' /\ held' \in Nat /\ pc = "idle" /\ pc' = "idle"
    BY <1>3, <2>1
  <2>3. app' \in Apps /\ app'.mac = chip.mac
    BY <1>1, <2>1
  <2>4. CtlTypeOK' /\ CtlInv'
    BY <1>1, <2>1, <2>2, <2>3, ChipAsItIs
  <2> QED
    BY <2>2, <2>4 DEF CtlPlaces
<1>9. CASE SetMacraw
  <2>1. Transfer("idle", "open") /\ UNCHANGED <<chip, turns, app, asked, given, lost>>
    BY <1>9 DEF SetMacraw, ctlVars
  <2>2. BusReleased' /\ held' \in Nat /\ pc = "idle" /\ pc' = "open"
    BY <1>3, <2>1
  <2>3. CtlTypeOK' /\ CtlInv'
    BY <1>1, <2>1, <2>2, ChipAsItIs
  <2> QED
    BY <2>2, <2>3 DEF CtlPlaces, CtlSteps
<1> QED
  BY <1>4, <1>5, <1>6, <1>7, <1>8, <1>9 DEF Configure

LEMMA ConfiguringKeeps ==
  ASSUME CtlTypeOK, CtlInv, held \in Nat, Configuring
  PROVE  /\ CtlTypeOK' /\ CtlInv' /\ held' \in Nat
         /\ pc \in CtlPlaces /\ pc' \in CtlPlaces
<1> DEFINE Chips == [resets : BOOLEAN, link : LinkSpeeds \union {"NONE"}, phy : Phys,
                     mac : Macs \union {NoMac}, sock : {"closed", "opening", "MACRAW"}]
           Apps == [speed : LinkSpeeds \union {"NONE"}, opened : BOOLEAN,
                    mac : Macs \union {NoMac, Overwritten}]
<1>1. /\ chip \in Chips /\ app \in Apps /\ turns \in 0 .. Timeout - 1
      /\ asked \in Requests /\ given \in Macs \union {NoMac} /\ lost \in Nat
  BY DEF CtlTypeOK, Phys
<1>2. BusReleased /\ AddressKept /\ PhyInv
  BY DEF CtlInv
<1>3. ASSUME NEW from, NEW to, Transfer(from, to), lost' = lost
      PROVE  BusReleased' /\ held' \in Nat /\ pc = from /\ pc' = to
  BY <1>1, <1>2, <1>3, TransferKeeps
<1>4. \A reached \in BOOLEAN : Seen(reached) \subseteq BOOLEAN
  BY DEF Seen
<1>5. CASE WaitReset
  <2>1. UNCHANGED <<chip, app, asked, given, lost>>
    BY <1>5 DEF WaitReset
  <2>2. PICK seen \in BOOLEAN : WaitTurn("mr", seen, "mode")
    BY <1>1, <1>4, <1>5 DEF WaitReset
  <2>3. /\ BusReleased' /\ held' \in Nat /\ pc = "mr" /\ pc' \in {"mr", "mode"}
        /\ turns' \in 0 .. Timeout - 1
    BY <1>2, <2>1, <2>2, TurnKeeps
  <2>4. CtlTypeOK' /\ CtlInv'
    BY <1>1, <2>1, <2>3, ChipAsItIs
  <2> QED
    BY <2>3, <2>4 DEF CtlPlaces, CtlSteps
<1>6. CASE WriteMode
  <2>1. Transfer("mode", "idle") /\ UNCHANGED <<chip, turns, app, asked, given, lost>>
    BY <1>6 DEF WriteMode, ctlVars
  <2>2. BusReleased' /\ held' \in Nat /\ pc = "mode" /\ pc' = "idle"
    BY <1>3, <2>1
  <2>3. CtlTypeOK' /\ CtlInv'
    BY <1>1, <2>1, <2>2, ChipAsItIs
  <2> QED
    BY <2>2, <2>3 DEF CtlPlaces, CtlSteps
<1>7. CASE WaitPhy
  <2>1. UNCHANGED <<chip, app, asked, given>>
    BY <1>7 DEF WaitPhy
  <2>2. PICK seen \in BOOLEAN :
          IF Over(seen) /\ Mode(asked) = "unknown"
          THEN /\ ReturnHolding("phy") /\ turns' = 0 /\ lost' = lost + 1
          ELSE WaitTurn("phy", seen, "phycfg") /\ UNCHANGED lost
    BY <1>4, <1>7 DEF WaitPhy
  <2>3. CASE Over(seen) /\ Mode(asked) = "unknown"
    <3>1. pc = "phy" /\ pc' = "idle" /\ held' = held /\ turns' = 0 /\ lost' = lost + 1
      BY <2>2, <2>3 DEF ReturnHolding
    <3>2. BusReleased'
      BY <1>1, <1>2, <3>1 DEF BusReleased
    <3>3. turns' \in 0 .. Timeout - 1 /\ lost' \in Nat
      BY <1>1, <3>1, CtlAssumption
    <3>4. CtlTypeOK' /\ CtlInv'
      BY <1>1, <2>1, <3>1, <3>2, <3>3, ChipAsItIs
    <3> QED
      BY <3>1, <3>4 DEF CtlPlaces, CtlSteps
  <2>4. CASE ~ (Over(seen) /\ Mode(asked) = "unknown")
    <3>1. WaitTurn("phy", seen, "phycfg") /\ lost' = lost
      BY <2>2, <2>4
    <3>2. /\ BusReleased' /\ held' \in Nat /\ pc = "phy" /\ pc' \in {"phy", "phycfg"}
          /\ turns' \in 0 .. Timeout - 1
          /\ pc' # "phy" => Over(seen)
      BY <1>2, <3>1, TurnKeeps
    <3>3. CtlTypeOK' /\ CtlInv'
      BY <1>1, <2>1, <2>4, <3>1, <3>2, ChipAsItIs
    <3> QED
      BY <3>2, <3>3 DEF CtlPlaces, CtlSteps
  <2> QED
    BY <2>3, <2>4
<1>8. CASE WritePhycfg
  <2>1. /\ Transfer("phycfg", "idle") /\ UNCHANGED <<turns, app, asked, given, lost>>
        /\ chip' = [chip EXCEPT !.phy = Mode(asked)]
    BY <1>8 DEF WritePhycfg
  <2>2. BusReleased' /\ held' \in Nat /\ pc = "phycfg" /\ pc' = "idle"
    BY <1>3, <2>1
  <2>3. Mode(asked) \in Phys \ {"pins", "reset"}
    BY <1>1, <1>2, <2>2, ModeOfRequest DEF PhyInv, Phys, LinkSpeeds
  <2>4. chip' \in Chips /\ chip'.phy = Mode(asked) /\ chip'.link = chip.link /\ chip'.mac = chip.mac
    BY <1>1, <2>1, <2>3
  <2>5. chip.link = "NONE"
    BY <1>2, <2>2, ReachableOfPhy DEF PhyInv
  <2>6. CtlTypeOK'
    BY <1>1, <2>1, <2>4 DEF CtlTypeOK, Phys
  <2>7. AddressKept'
    BY <1>2, <2>1, <2>4 DEF AddressKept
  <2>8. Mode(asked') = Mode(asked)
    BY <2>1
  <2>9. PhyInv'
    BY <2>1, <2>2, <2>3, <2>4, <2>5, <2>8 DEF PhyInv
  <2> QED
    BY <2>2, <2>6, <2>7, <2>9 DEF CtlInv, CtlPlaces, CtlSteps
<1>9. CASE CommandOpen
  <2>1. /\ Transfer("open", "status") /\ UNCHANGED <<turns, app, asked, given, lost>>
        /\ chip' = [chip EXCEPT !.sock = "opening"]
    BY <1>9 DEF CommandOpen
  <2>2. BusReleased' /\ held' \in Nat /\ pc = "open" /\ pc' = "status"
    BY <1>3, <2>1
  <2>3. chip' \in Chips /\ chip'.phy = chip.phy /\ chip'.link = chip.link /\ chip'.mac = chip.mac
    BY <1>1, <2>1
  <2>4. CtlTypeOK'
    BY <1>1, <2>1, <2>3 DEF CtlTypeOK, Phys
  <2>5. AddressKept'
    BY <1>2, <2>1, <2>3 DEF AddressKept
  <2>6. PhyInv'
    BY <1>2, <2>1, <2>2, <2>3 DEF PhyInv
  <2> QED
    BY <2>2, <2>4, <2>5, <2>6 DEF CtlInv, CtlPlaces, CtlSteps
<1>10. CASE WaitOpen
  <2>1. UNCHANGED <<chip, asked, given, lost>>
    BY <1>10 DEF WaitOpen
  <2>2. PICK seen \in BOOLEAN :
          /\ WaitTurn("status", seen, "idle")
          /\ app' = [app EXCEPT !.opened = IF Over(seen) THEN seen ELSE @]
    BY <1>4, <1>10 DEF WaitOpen
  <2>3. /\ BusReleased' /\ held' \in Nat /\ pc = "status" /\ pc' \in {"status", "idle"}
        /\ turns' \in 0 .. Timeout - 1
    BY <1>2, <2>1, <2>2, TurnKeeps
  <2>4. app' \in Apps /\ app'.mac = app.mac
    BY <1>1, <2>2
  <2>5. CtlTypeOK' /\ CtlInv'
    BY <1>1, <2>1, <2>3, <2>4, ChipAsItIs
  <2> QED
    BY <2>3, <2>5 DEF CtlPlaces, CtlSteps
<1> QED
  BY <1>5, <1>6, <1>7, <1>8, <1>9, <1>10 DEF Configuring

LEMMA ChipChangesKeeps ==
  ASSUME CtlTypeOK, CtlInv, ChipChanges
  PROVE  CtlTypeOK' /\ CtlInv'
<1> DEFINE Chips == [resets : BOOLEAN, link : LinkSpeeds \union {"NONE"}, phy : Phys,
                     mac : Macs \union {NoMac}, sock : {"closed", "opening", "MACRAW"}]
<1>1. chip \in Chips /\ BusReleased /\ AddressKept /\ PhyInv
  BY DEF CtlTypeOK, CtlInv, Phys
<1>2. UNCHANGED <<pc, held, turns, app, asked, given, lost>>
  BY DEF ChipChanges, spi
<1>3. Reachable(chip.phy) \subseteq LinkSpeeds
  BY <1>1, ReachableType
<1>4. /\ chip' \in Chips /\ chip'.phy = chip.phy /\ chip'.mac = chip.mac
      /\ chip'.link \in Reachable(chip.phy) \union {"NONE"}
  <2>1. CASE chip' = [chip EXCEPT !.resets = FALSE]
    BY <1>1, <2>1 DEF PhyInv
  <2>2. CASE chip' = [chip EXCEPT !.sock = "MACRAW"]
    BY <1>1, <2>2 DEF PhyInv
  <2>3. ASSUME NEW speed \in Reachable(chip.phy) \union {"NONE"},
               chip' = [chip EXCEPT !.link = speed]
        PROVE  /\ chip' \in Chips /\ chip'.phy = chip.phy /\ chip'.mac = chip.mac
               /\ chip'.link \in Reachable(chip.phy) \union {"NONE"}
    BY <1>1, <1>3, <2>3
  <2> QED
    BY <2>1, <2>2, <2>3 DEF ChipChanges
<1>5. CtlTypeOK'
  BY <1>2, <1>4 DEF CtlTypeOK, Phys
<1>6. BusReleased' /\ AddressKept'
  BY <1>1, <1>2, <1>4 DEF BusReleased, AddressKept
<1>7. PhyInv'
  BY <1>1, <1>2, <1>4 DEF PhyInv
<1> QED
  BY <1>5, <1>6, <1>7 DEF CtlInv

(* A step of another part leaves the configuration as it is.               *)
LEMMA CtlUntouched ==
  ASSUME CtlTypeOK, CtlInv, UNCHANGED ctlVars, BusReleased',
         pc' = pc \/ pc' \notin CtlSteps
  PROVE  CtlTypeOK' /\ CtlInv'
<1>1. UNCHANGED <<chip, turns, app, asked, given, lost>>
  BY DEF ctlVars
<1>2. turns \in 0 .. Timeout - 1 /\ lost \in Nat
      /\ app \in [speed : LinkSpeeds \union {"NONE"}, opened : BOOLEAN,
                   mac : Macs \union {NoMac, Overwritten}]
  BY DEF CtlTypeOK
<1> QED
  BY <1>1, <1>2, ChipAsItIs DEF CtlSteps

-----------------------------------------------------------------------------
(* The inductive invariant of the whole driver.                            *)
IInv == TypeOK /\ RxInv /\ TxInv /\ CtlInv

Places == {"idle"} \union RxSteps \union TxSteps \union CtlSteps

LEMMA InitHolds == Init => IInv
<1> SUFFICES ASSUME Init PROVE IInv
  OBVIOUS
<1>1. /\ pc = "idle" /\ held = 0 /\ ring = [p \in 0 .. RingSize - 1 |-> 0]
      /\ wr = 0 /\ rd = 0 /\ snrxrd = 0 /\ log = <<>> /\ taken = 0
      /\ rxrsr = <<0, 0>> /\ rxrd = 0 /\ frame_length = 0 /\ buffer = <<>> /\ out = <<>>
      /\ txring = [p \in 0 .. RingSize - 1 |-> 0] /\ sntxwr = 0 /\ sntxrd = 0 /\ ends = <<>>
      /\ txlog = <<>> /\ sent = 0 /\ wire = <<>> /\ txfsr = <<0, 0>> /\ txwr = 0 /\ frame = <<>>
  BY DEF Init, SpiInit, RxInit, TxInit
<1>2. 0 \in 0 .. Base - 1 /\ 0 \in 0 .. PtrMod - 1 /\ (0 % PtrMod) = 0
  BY Moduli
<1>3. <<0, 0>> \in Seq(0 .. Base - 1) /\ Len(<<0, 0>>) = 2
  BY <1>2
<1>4. [p \in 0 .. RingSize - 1 |-> 0] \in [0 .. RingSize - 1 -> 0 .. Base - 1]
  BY <1>2
<1>5. RxTypeOK
  BY <1>1, <1>2, <1>3, <1>4 DEF RxTypeOK
<1>6. TxTypeOK
  BY <1>1, <1>2, <1>3, <1>4 DEF TxTypeOK
<1>7. Len(log) = 0 /\ Len(txlog) = 0 /\ Len(ends) = 0
  BY <1>1
<1>8. Behind(log, 2) = 0 /\ RxHead = 0 /\ TxEnd = 0 /\ TxHead = 0
  BY <1>1, <1>7 DEF Behind, RxHead, TxEnd, TxHead, Start
<1>9. Chained(log, 2) /\ Chained(txlog, 0)
  <2>1. \A k \in 1 .. 0 : FALSE
    OBVIOUS
  <2>2. \A k \in 1 .. 0 - 1 : FALSE
    OBVIOUS
  <2> QED
    BY <1>1, <1>7, <2>1, <2>2 DEF Chained
<1>10. RxMemory /\ TxMemory /\ TxEnds
  BY <1>1, <1>7 DEF RxMemory, TxMemory, TxEnds
<1>11. RxLocals /\ TxLocals
  BY <1>1 DEF RxLocals, TxLocals, RxSteps, TxSteps
<1>12. RxInv
  BY <1>1, <1>2, <1>7, <1>8, <1>9, <1>10, <1>11, Moduli DEF RxInv
<1>13. TxInv
  BY <1>1, <1>2, <1>7, <1>8, <1>9, <1>10, <1>11, Moduli DEF TxInv
<1>14. /\ chip = PowerUp /\ turns = 0 /\ asked = NotAsked /\ given = NoMac /\ lost = 0
       /\ \E mac \in Macs : app = [speed |-> "NONE", opened |-> FALSE, mac |-> mac]
  BY DEF Init, CtlInit
<1>15. CtlTypeOK
  <2>1. turns \in 0 .. Timeout - 1
    BY <1>14, CtlAssumption
  <2>2. asked \in Requests
    BY <1>14 DEF NotAsked, Requests, Speeds
  <2> QED
    BY <1>14, <2>1, <2>2 DEF CtlTypeOK, PowerUp
<1>16. CtlInv
  <2>1. BusReleased /\ AddressKept
    BY <1>1, <1>14 DEF BusReleased, AddressKept
  <2>2. PhyInv
    BY <1>1, <1>14 DEF PhyInv, PowerUp
  <2> QED
    BY <2>1, <2>2 DEF CtlInv
<1> QED
  BY <1>1, <1>5, <1>6, <1>12, <1>13, <1>15, <1>16 DEF IInv, TypeOK

LEMMA NextKeeps == IInv /\ [Next]_vars => IInv'
<1> SUFFICES ASSUME IInv, [Next]_vars PROVE IInv'
  OBVIOUS
<1>1. /\ RxTypeOK /\ RxInv /\ TxTypeOK /\ TxInv /\ CtlTypeOK /\ CtlInv /\ BusReleased
      /\ held \in Nat /\ pc \in Places
  BY DEF IInv, TypeOK, CtlInv, Places
<1>2. lost \in Nat
  BY <1>1 DEF CtlTypeOK
<1>3. RxPlaces \subseteq Places /\ TxPlaces \subseteq Places /\ CtlPlaces \subseteq Places
      /\ (\A p \in RxPlaces : p \notin TxSteps /\ p \notin CtlSteps)
      /\ (\A p \in TxPlaces : p \notin RxSteps /\ p \notin CtlSteps)
      /\ (\A p \in CtlPlaces : p \notin RxSteps /\ p \notin TxSteps)
  BY DEF RxPlaces, TxPlaces, CtlPlaces, Places, RxSteps, TxSteps, CtlSteps
<1>4. CASE ReceiveStep
  <2>1. Recv /\ UNCHANGED <<txVars, ctlVars>> /\ lost' = lost
    BY <1>4 DEF ReceiveStep, ctlVars
  <2>2. PICK from \in RxPlaces, to \in RxPlaces : Transfer(from, to)
    BY <2>1, RecvTransfer
  <2>3. BusReleased' /\ held' \in Nat /\ pc \in RxPlaces /\ pc' \in RxPlaces
    BY <1>1, <1>2, <2>1, <2>2, TransferKeeps
  <2>4. RxTypeOK' /\ RxInv'
    BY <1>1, <2>1, RecvKeeps
  <2>5. TxTypeOK' /\ TxInv'
    BY <1>1, <1>3, <2>1, <2>3, TxUntouched
  <2>6. CtlTypeOK' /\ CtlInv'
    BY <1>1, <1>3, <2>1, <2>3, CtlUntouched
  <2> QED
    BY <1>3, <2>3, <2>4, <2>5, <2>6 DEF IInv, TypeOK, Places
<1>5. CASE SendStep
  <2>1. Send /\ UNCHANGED <<rxVars, ctlVars>> /\ lost' = lost
    BY <1>5 DEF SendStep, ctlVars
  <2>2. PICK from \in TxPlaces, to \in TxPlaces : Transfer(from, to)
    BY <2>1, SendTransfer
  <2>3. BusReleased' /\ held' \in Nat /\ pc \in TxPlaces /\ pc' \in TxPlaces
    BY <1>1, <1>2, <2>1, <2>2, TransferKeeps
  <2>4. TxTypeOK' /\ TxInv'
    BY <1>1, <2>1, SendKeeps
  <2>5. RxTypeOK' /\ RxInv'
    BY <1>1, <1>3, <2>1, <2>3, RxUntouched
  <2>6. CtlTypeOK' /\ CtlInv'
    BY <1>1, <1>3, <2>1, <2>3, CtlUntouched
  <2> QED
    BY <1>3, <2>3, <2>4, <2>5, <2>6 DEF IInv, TypeOK, Places
<1>6. CASE ArriveStep
  <2>1. PICK data \in RxFrames : Arrive(data)
    BY <1>6 DEF ArriveStep
  <2>2. UNCHANGED <<pc, held, txVars, ctlVars>> /\ lost' = lost
    BY <1>6, <2>1 DEF ArriveStep, Arrive, spi, ctlVars
  <2>3. RxTypeOK' /\ RxInv'
    BY <1>1, <2>1, ArriveKeeps
  <2>4. TxTypeOK' /\ TxInv'
    BY <1>1, <2>2, TxUntouched
  <2>5. BusReleased'
    BY <1>1, <2>2 DEF BusReleased
  <2>6. CtlTypeOK' /\ CtlInv'
    BY <1>1, <2>2, <2>5, CtlUntouched
  <2> QED
    BY <1>1, <2>2, <2>3, <2>4, <2>6 DEF IInv, TypeOK, Places
<1>7. CASE TransmitStep
  <2>1. Transmit /\ UNCHANGED <<pc, held, rxVars, ctlVars>> /\ lost' = lost
    BY <1>7 DEF TransmitStep, Transmit, spi, ctlVars
  <2>2. TxTypeOK' /\ TxInv'
    BY <1>1, <2>1, TransmitKeeps
  <2>3. RxTypeOK' /\ RxInv'
    BY <1>1, <2>1, RxUntouched
  <2>4. BusReleased'
    BY <1>1, <2>1 DEF BusReleased
  <2>5. CtlTypeOK' /\ CtlInv'
    BY <1>1, <2>1, <2>4, CtlUntouched
  <2> QED
    BY <1>1, <2>1, <2>2, <2>3, <2>5 DEF IInv, TypeOK, Places
<1>8. CASE ConfigureStep
  <2>1. (Configure \/ Configuring) /\ UNCHANGED <<rxVars, txVars>>
    BY <1>8 DEF ConfigureStep
  <2>2. /\ CtlTypeOK' /\ CtlInv' /\ held' \in Nat
        /\ pc \in CtlPlaces /\ pc' \in CtlPlaces
    BY <1>1, <2>1, ConfigureKeeps, ConfiguringKeeps
  <2>3. RxTypeOK' /\ RxInv'
    BY <1>1, <1>3, <2>1, <2>2, RxUntouched
  <2>4. TxTypeOK' /\ TxInv'
    BY <1>1, <1>3, <2>1, <2>2, TxUntouched
  <2> QED
    BY <1>3, <2>2, <2>3, <2>4 DEF IInv, TypeOK, Places
<1>9. CASE ChipStep
  <2>1. ChipChanges /\ UNCHANGED <<pc, held, rxVars, txVars>>
    BY <1>9 DEF ChipStep, ChipChanges, spi
  <2>2. CtlTypeOK' /\ CtlInv'
    BY <1>1, <2>1, ChipChangesKeeps
  <2>3. RxTypeOK' /\ RxInv'
    BY <1>1, <2>1, RxUntouched
  <2>4. TxTypeOK' /\ TxInv'
    BY <1>1, <2>1, TxUntouched
  <2> QED
    BY <1>1, <2>1, <2>2, <2>3, <2>4 DEF IInv, TypeOK, Places
<1>10. CASE UNCHANGED vars
  <2>1. UNCHANGED <<pc, held, rxVars, txVars, ctlVars>> /\ lost' = lost
    BY <1>10 DEF vars, spi, ctlVars
  <2>2. RxTypeOK' /\ RxInv'
    BY <1>1, <2>1, RxUntouched
  <2>3. TxTypeOK' /\ TxInv'
    BY <1>1, <2>1, TxUntouched
  <2>4. BusReleased'
    BY <1>1, <2>1 DEF BusReleased
  <2>5. CtlTypeOK' /\ CtlInv'
    BY <1>1, <2>1, <2>4, CtlUntouched
  <2> QED
    BY <1>1, <2>1, <2>2, <2>3, <2>5 DEF IInv, TypeOK, Places
<1> QED
  BY <1>4, <1>5, <1>6, <1>7, <1>8, <1>9, <1>10 DEF Next

LEMMA Invariant == Spec => []IInv
<1> QED
  BY InitHolds, NextKeeps, PTL DEF Spec

-----------------------------------------------------------------------------
(* The frames of a list, without their positions.                          *)
Data(frames) == [i \in DOMAIN frames |-> frames[i].data]

LEMMA DataType ==
  ASSUME NEW D, \A d \in D : Len(d) \in Nat, NEW frames \in FramesOf(D)
  PROVE  /\ Data(frames) \in Seq(D) /\ Len(Data(frames)) = Len(frames)
         /\ \A i \in 1 .. Len(frames) : Data(frames)[i] = frames[i].data
<1>1. DOMAIN frames = 1 .. Len(frames) /\ Len(frames) \in Nat
  BY DEF FramesOf
<1>2. \A i \in 1 .. Len(frames) : frames[i].data \in D
  <2> TAKE i \in 1 .. Len(frames)
  <2>1. 0 \in Nat
    OBVIOUS
  <2> QED
    BY <2>1, FrameType
<1> DEFINE n == Len(frames)
           f == [i \in 1 .. n |-> frames[i].data]
<1>3. f \in [1 .. n -> D]
  BY <1>2
<1>4. f \in Seq(D) /\ Len(f) = n
  <2>1. n \in Nat
    BY <1>1
  <2> HIDE DEF n, f
  <2> QED
    BY <1>3, <2>1, FunctionSeq
<1>5. Data(frames) = f
  BY <1>1 DEF Data
<1> QED
  BY <1>4, <1>5

LEMMA DataOfExtended ==
  ASSUME NEW D, \A d \in D : Len(d) \in Nat, NEW frames \in FramesOf(D), NEW prefix \in Nat,
         Chained(frames, prefix), NEW d \in D
  PROVE  Data(Extended(frames, prefix, d)) = Append(Data(frames), d)
<1> DEFINE more == Extended(frames, prefix, d)
           s == Data(frames)
           t == Append(s, d)
<1>1. /\ more \in FramesOf(D) /\ Len(more) = Len(frames) + 1 /\ Len(frames) \in Nat
      /\ \A k \in 1 .. Len(frames) : more[k] = frames[k]
      /\ more[Len(frames) + 1] = [at |-> Behind(frames, prefix), data |-> d]
  <2>1. Len(frames) \in Nat
    BY DEF FramesOf
  <2> QED
    BY <2>1, ExtendedChain
<1> HIDE DEF more
<1>2. /\ Data(more) \in Seq(D) /\ Len(Data(more)) = Len(frames) + 1
      /\ \A i \in 1 .. Len(frames) + 1 : Data(more)[i] = more[i].data
  BY <1>1, DataType
<1>3. /\ s \in Seq(D) /\ Len(s) = Len(frames)
      /\ \A i \in 1 .. Len(frames) : s[i] = frames[i].data
  BY DataType
<1> HIDE DEF s
<1>4. t \in Seq(D) /\ Len(t) = Len(frames) + 1
  BY <1>3
<1>5. ASSUME NEW i \in 1 .. Len(frames) + 1
      PROVE  Data(more)[i] = t[i]
  <2>1. Data(more)[i] = more[i].data
    BY <1>2
  <2>2. CASE i = Len(frames) + 1
    BY <1>1, <1>3, <2>1, <2>2
  <2>3. CASE i # Len(frames) + 1
    <3>1. i \in 1 .. Len(frames)
      BY <1>1, <2>3
    <3> QED
      BY <1>1, <1>3, <2>1, <3>1
  <2> QED
    BY <2>2, <2>3
<1> HIDE DEF t
<1>6. Data(more) = t
  BY <1>2, <1>4, <1>5, SeqEqual
<1> QED
  BY <1>6 DEF more, s, t

LEMMA DataOfNone == Data(<<>>) = <<>>
<1>1. Data(<<>>) \in Seq({}) /\ Len(Data(<<>>)) = 0
  <2>1. <<>> \in FramesOf({}) /\ Len(<<>>) = 0 /\ (\A d \in {} : Len(d) \in Nat)
    BY DEF FramesOf
  <2> QED
    BY <2>1, DataType
<1> QED
  BY <1>1

-----------------------------------------------------------------------------
(* Every variable keeps its type.                                          *)
THEOREM TypeCorrect == Spec => []TypeOK
<1>1. IInv => TypeOK
  BY DEF IInv
<1> QED
  BY <1>1, Invariant, PTL

(* hw_w5500_recv has a whole frame before it once it has checked the size, *)
(* whatever arrives between the two reads of its bytes.                    *)
THEOREM FrameIsPresent == Spec => []FramePresent
<1>1. IInv => FramePresent
  BY DEF IInv, RxInv, RxLocals, FramePresent
<1> QED
  BY <1>1, Invariant, PTL

(* hw_w5500_send has the room it needs once it has checked for it,         *)
(* whatever is sent between the two reads of the free size.                *)
THEOREM RoomIsThere == Spec => []RoomThere
<1>1. IInv => RoomThere
  <2> SUFFICES ASSUME IInv PROVE RoomThere
    OBVIOUS
  <2>1. TxTypeOK /\ TxInv
    BY DEF IInv, TypeOK
  <2>2. FreeSize = TxRoom
    BY <2>1, TxFacts
  <2> QED
    BY <2>1, <2>2 DEF TxInv, TxLocals, RoomThere
<1> QED
  BY <1>1, Invariant, PTL

(* No call keeps the bus but those of hw_w5500_set_phycfg that return      *)
(* early.                                                                  *)
THEOREM BusIsReleased == Spec => []BusReleased
<1>1. IInv => BusReleased
  BY DEF IInv, CtlInv
<1> QED
  BY <1>1, Invariant, PTL

(* The MAC address set is in the chip and still in the array passed.       *)
THEOREM AddressIsKept == Spec => []AddressKept
<1>1. IInv => AddressKept
  BY DEF IInv, CtlInv
<1> QED
  BY <1>1, Invariant, PTL

(* The chip hands every frame over through hw_w5500_recv as FrameQueue     *)
(* promises: whole, once and in order.                                     *)
THEOREM DeliversInOrder == Spec => InOrder
<1>1. Init => Received!Init
  BY DataOfNone DEF Init, RxInit, Received!Init, Data
<1>2. IInv /\ [Next]_vars => [Received!Next]_(Received!vars)
  <2> SUFFICES ASSUME IInv, [Next]_vars PROVE [Received!Next]_(Received!vars)
    OBVIOUS
  <2>1. RxTypeOK /\ RxInv
    BY DEF IInv, TypeOK
  <2>2. /\ \A d \in RxFrames : Len(d) \in Nat
        /\ log \in FramesOf(RxFrames) /\ Chained(log, 2) /\ taken \in Nat /\ Len(log) \in Nat
    BY <2>1, RxFacts DEF RxInv
  <2>3. Len(Data(log)) = Len(log) /\ \A i \in 1 .. Len(log) : Data(log)[i] = log[i].data
    BY <2>2, DataType
  <2>4. CASE ArriveStep
    <3>1. PICK data \in RxFrames : Arrive(data)
      BY <2>4 DEF ArriveStep
    <3>2. log' = Extended(log, 2, data) /\ taken' = taken /\ out' = out
      BY <3>1 DEF Arrive, Extended
    <3>3. Data(log') = Append(Data(log), data)
      BY <2>2, <3>2, DataOfExtended
    <3>4. Received!Accept(data)
      BY <3>2, <3>3 DEF Received!Accept, Data
    <3> QED
      BY <3>4 DEF Received!Next
  <2>5. CASE CommandRecv /\ ReceiveStep
    <3>1. pc = "command" /\ log' = log /\ taken' = taken + 1 /\ out' = buffer
      BY <2>5 DEF CommandRecv, Transfer
    <3>2. taken < Len(log) /\ buffer = log[taken + 1].data
      BY <2>1, <3>1 DEF RxInv, RxLocals, RxSteps
    <3>3. taken + 1 \in 1 .. Len(log)
      BY <2>2, <3>2
    <3>4. taken < Len(Data(log)) /\ buffer = Data(log)[taken + 1]
      BY <2>3, <3>2, <3>3
    <3>5. Received!HandOver
      BY <3>1, <3>4 DEF Received!HandOver, Data
    <3> QED
      BY <3>5 DEF Received!Next
  <2>6. CASE UNCHANGED <<log, taken, out>>
    BY <2>6 DEF Received!vars
  <2>7. ReceiveStep /\ ~ CommandRecv => UNCHANGED <<log, taken, out>>
    BY DEF ReceiveStep, Recv, ReadSizeHigh, ReadSizeLow, ReadPointer, ReadLength, ReadFrame,
           WritePointer, rxChip
  <2>8. SendStep \/ TransmitStep \/ ConfigureStep \/ ChipStep \/ UNCHANGED vars
          => UNCHANGED <<log, taken, out>>
    BY DEF SendStep, TransmitStep, ConfigureStep, ChipStep, vars, rxVars, rxChip
  <2> QED
    BY <2>4, <2>5, <2>6, <2>7, <2>8 DEF Next
<1> QED
  BY <1>1, <1>2, Invariant, PTL DEF Spec, InOrder, Received!Spec

(* The frames hw_w5500_send accepts go out as FrameQueue promises.         *)
THEOREM SendsInOrder == Spec => SentInOrder
<1>1. Init => Sending!Init
  BY DataOfNone DEF Init, TxInit, Sending!Init, Data
<1>2. IInv /\ [Next]_vars => [Sending!Next]_(Sending!vars)
  <2> SUFFICES ASSUME IInv, [Next]_vars PROVE [Sending!Next]_(Sending!vars)
    OBVIOUS
  <2>1. TxTypeOK /\ TxInv
    BY DEF IInv, TypeOK
  <2>2. /\ \A d \in TxFrames : Len(d) \in Nat
        /\ txlog \in FramesOf(TxFrames) /\ Chained(txlog, 0) /\ sent \in Nat /\ Len(txlog) \in Nat
    BY <2>1, TxFacts DEF TxInv
  <2>3. Len(Data(txlog)) = Len(txlog) /\ \A i \in 1 .. Len(txlog) : Data(txlog)[i] = txlog[i].data
    BY <2>2, DataType
  <2>4. CASE CommandSend /\ SendStep
    <3>1. pc = "txcommand" /\ sent' = sent /\ wire' = wire /\ txlog' = Extended(txlog, 0, frame)
      BY <2>4 DEF CommandSend, Transfer, Extended
    <3>2. PICK data \in TxFrames : data = frame
      BY <2>1, <3>1 DEF TxInv, TxLocals, TxSteps
    <3>3. Data(txlog') = Append(Data(txlog), data)
      BY <2>2, <3>1, <3>2, DataOfExtended
    <3>4. Sending!Accept(data)
      BY <3>1, <3>3 DEF Sending!Accept, Data
    <3> QED
      BY <3>4 DEF Sending!Next
  <2>5. CASE TransmitStep
    <3>1. sent < Len(txlog) /\ sent' = sent + 1 /\ txlog' = txlog /\ wire' = txlog[sent + 1].data
      BY <2>1, <2>5, TransmitKeeps DEF TransmitStep
    <3>2. sent + 1 \in 1 .. Len(txlog)
      BY <2>2, <3>1
    <3>3. sent < Len(Data(txlog)) /\ wire' = Data(txlog)[sent + 1]
      BY <2>3, <3>1, <3>2
    <3>4. Sending!HandOver
      BY <3>1, <3>3 DEF Sending!HandOver, Data
    <3> QED
      BY <3>4 DEF Sending!Next
  <2>6. CASE UNCHANGED <<txlog, sent, wire>>
    BY <2>6 DEF Sending!vars
  <2>7. SendStep /\ ~ CommandSend => UNCHANGED <<txlog, sent, wire>>
    BY DEF SendStep, Send, ReadFreeHigh, ReadFreeLow, ReadWritePointer, WriteFrame,
           UpdateWritePointer, txChip
  <2>8. ReceiveStep \/ ArriveStep \/ ConfigureStep \/ ChipStep \/ UNCHANGED vars
          => UNCHANGED <<txlog, sent, wire>>
    BY DEF ReceiveStep, ArriveStep, ConfigureStep, ChipStep, vars, txVars, txChip
  <2> QED
    BY <2>4, <2>5, <2>6, <2>7, <2>8 DEF Next
<1> QED
  BY <1>1, <1>2, Invariant, PTL DEF Spec, SentInOrder, Sending!Spec

(* A frame larger than the buffer blocks reception for good.               *)
THEOREM StuckForGood == Spec => StuckBehindTooLong
<1>1. IInv /\ [Next]_vars => [HeadTooLong => UNCHANGED <<taken, out>>]_<<taken, out>>
  <2> SUFFICES ASSUME IInv, [Next]_vars, HeadTooLong PROVE UNCHANGED <<taken, out>>
    OBVIOUS
  <2>1. RxTypeOK /\ RxInv
    BY DEF IInv, TypeOK
  <2>2. pc # "command"
    <3>1. taken < Len(log) /\ Len(log[taken + 1].data) > BufLen
      BY DEF HeadTooLong
    <3>2. pc = "command" => frame_length = Len(log[taken + 1].data) /\ frame_length =< BufLen
      BY <2>1 DEF RxInv, RxLocals
    <3>3. frame_length \in Nat /\ BufLen \in Nat
      BY <2>1, Moduli, BoundsAssumption DEF RxTypeOK
    <3> QED
      BY <3>1, <3>2, <3>3
  <2>3. ~ CommandRecv
    BY <2>2 DEF CommandRecv, Transfer
  <2>4. ReceiveStep => UNCHANGED <<taken, out>>
    BY <2>3 DEF ReceiveStep, Recv, ReadSizeHigh, ReadSizeLow, ReadPointer, ReadLength, ReadFrame,
                WritePointer, rxChip
  <2>5. ArriveStep => UNCHANGED <<taken, out>>
    BY DEF ArriveStep, Arrive
  <2>6. SendStep \/ TransmitStep \/ ConfigureStep \/ ChipStep \/ UNCHANGED vars
          => UNCHANGED <<taken, out>>
    BY DEF SendStep, TransmitStep, ConfigureStep, ChipStep, vars, rxVars, rxChip
  <2> QED
    BY <2>4, <2>5, <2>6 DEF Next
<1> QED
  BY <1>1, Invariant, PTL DEF Spec, StuckBehindTooLong

(* A frame there is room for is refused only if the free size changed its  *)
(* high byte between the two reads.                                        *)
THEOREM RefusalIsRight == Spec => RefusedRightly
<1> DEFINE A == pc = "free" /\ pc' = "idle" /\ FreeSize >= Len(frame) + 2
                  => FreeSize \div Base # txfsr[1]
<1>1. IInv /\ [Next]_vars => [A]_<<spi, txVars>>
  <2> SUFFICES ASSUME IInv, [Next]_vars, pc = "free", pc' = "idle", FreeSize >= Len(frame) + 2,
                      FreeSize \div Base = txfsr[1]
               PROVE  FALSE
    BY DEF A
  <2>1. TxTypeOK /\ TxInv
    BY DEF IInv, TypeOK
  <2>2. ReadFreeLow
    <3>1. ~ (Recv \/ Configure \/ Configuring)
      <4>1. \A p \in RxPlaces \union CtlPlaces : p # "free"
        BY DEF RxPlaces, CtlPlaces, RxSteps, CtlSteps
      <4>2. ~ Recv
        <5> SUFFICES ASSUME Recv PROVE FALSE
          OBVIOUS
        <5>1. PICK from \in RxPlaces, to \in RxPlaces : Transfer(from, to)
          BY RecvTransfer
        <5> QED
          BY <4>1, <5>1 DEF Transfer
      <4>3. CtlTypeOK /\ CtlInv /\ held \in Nat
        BY DEF IInv, TypeOK
      <4>4. ~ (Configure \/ Configuring)
        BY <4>1, <4>3, ConfigureKeeps, ConfiguringKeeps
      <4> QED
        BY <4>2, <4>4
    <3>2. pc' # pc
      OBVIOUS
    <3>3. Send
      BY <3>1, <3>2 DEF Next, ReceiveStep, SendStep, ArriveStep, Arrive, TransmitStep, Transmit,
                        ConfigureStep, ChipStep, ChipChanges, vars, spi
    <3> QED
      BY <3>3 DEF Send, ReadFreeHigh, ReadWritePointer, WriteFrame, UpdateWritePointer,
                  CommandSend, Transfer
  <2>3. FreeSize = TxRoom /\ TxRoom \in Nat /\ TxRoom < PtrMod
    BY <2>1, TxFacts, Moduli
  <2> DEFINE h == TxRoom \div Base
             l == TxRoom % Base
             S == 0 .. Base - 1
  <2>4. TxRoom = Base * h + l /\ h \in S /\ l \in S
    BY <2>3, TwoBytes
  <2>5. txfsr[1] = h /\ txfsr \in Seq(S) /\ Len(txfsr) = 2
    BY <2>1, <2>3 DEF TxTypeOK
  <2>6. txfsr'[1] = h /\ txfsr'[2] = l
    <3>1. txfsr' = [txfsr EXCEPT ![2] = l]
      BY <2>2, <2>3 DEF ReadFreeLow
    <3> HIDE DEF h, l, S
    <3> QED
      BY <2>4, <2>5, <3>1, SecondByte
  <2>7. Base * txfsr'[1] + txfsr'[2] < Len(frame) + 2
    BY <2>2 DEF ReadFreeLow, NoRoom, Transfer
  <2>8. TxRoom >= Len(frame) + 2 /\ Len(frame) \in Nat
    <3>1. frame \in TxFrames
      BY <2>1 DEF TxInv, TxLocals, TxSteps
    <3> QED
      BY <2>3, <3>1, Frames
  <2>9. TxRoom < Len(frame) + 2
    BY <2>4, <2>6, <2>7
  <2> HIDE DEF h, l
  <2> QED
    BY <2>3, <2>8, <2>9
<1> QED
  BY <1>1, Invariant, PTL DEF Spec, RefusedRightly

(* The speed reported agrees with the speed asked for, but for 100 Mbps    *)
(* half duplex, and is none where the request was not understood.          *)
THEOREM SpeedIsReported == Spec => SpeedReported
<1> DEFINE A == app'.speed \notin {app.speed, "NONE"} =>
                  /\ asked.up
                  /\ IF asked.speed = "100HD" THEN app'.speed = "100FD"
                     ELSE IF asked.autoneg THEN asked.speed \in {"NONE", "100FD"}
                     ELSE app'.speed = asked.speed
<1>1. IInv /\ [Next]_vars => [A]_app
  <2> SUFFICES ASSUME IInv, [Next]_vars, app'.speed \notin {app.speed, "NONE"} PROVE A
    OBVIOUS
  <2>1. CtlTypeOK /\ PhyInv
    BY DEF IInv, TypeOK, CtlInv
  <2>2. /\ app \in [speed : LinkSpeeds \union {"NONE"}, opened : BOOLEAN,
                    mac : Macs \union {NoMac, Overwritten}]
        /\ asked \in Requests /\ chip.phy \in Phys
    BY <2>1 DEF CtlTypeOK, Phys
  <2>3. ReadPhycfg
    <3>1. app' # app
      OBVIOUS
    <3>2. ConfigureStep
      BY <3>1 DEF Next, ReceiveStep, SendStep, ArriveStep, TransmitStep, ChipStep, ChipChanges,
                  vars, ctlVars
    <3>3. Configure \/ Configuring
      BY <3>2 DEF ConfigureStep
    <3>4. ~ Configuring
      <4>1. \A seen : app' # [app EXCEPT !.opened = seen]
        BY <2>2
      <4>2. ~ WaitOpen
        BY <4>1 DEF WaitOpen
      <4> QED
        BY <3>1, <4>2 DEF Configuring, WaitReset, WriteMode, WaitPhy, WritePhycfg, CommandOpen, ctlVars
    <3>5. \A mac : app' # [app EXCEPT !.mac = mac]
      BY <2>2
    <3> QED
      BY <3>1, <3>3, <3>4, <3>5 DEF Configure, ResetChip, ResetPhy, SetMac, GetMac, SetMacraw, ctlVars
  <2>4. app'.speed = (IF chip.link = "100HD" THEN "100FD" ELSE chip.link)
    BY <2>2, <2>3 DEF ReadPhycfg
  <2>5. chip.link \in Reachable(chip.phy)
    BY <2>1, <2>4 DEF PhyInv
  <2>6. CASE chip.phy = "pins"
    BY <2>1, <2>6 DEF PhyInv, NotAsked
  <2>7. CASE chip.phy \in {"reset", "down"}
    BY <2>5, <2>7, ReachableOfPhy
  <2>8. CASE chip.phy \notin {"pins", "reset", "down"}
    <3>1. chip.phy = Mode(asked) /\ Mode(asked) \in LinkSpeeds \union {"100HD_AN", "all"}
      BY <2>1, <2>2, <2>8 DEF PhyInv, Phys
    <3>2. CASE Mode(asked) \in LinkSpeeds
      <4>1. asked.up /\ ~ asked.autoneg /\ asked.speed = Mode(asked)
        BY <2>2, <3>2, ModeOfRequest
      <4>2. chip.link = asked.speed
        BY <2>5, <3>1, <3>2, <4>1, ReachableOfPhy
      <4> QED
        BY <2>4, <4>1, <4>2
    <3>3. CASE Mode(asked) = "100HD_AN"
      <4>1. asked.up /\ asked.speed = "100HD"
        BY <2>2, <3>3, ModeOfRequest
      <4>2. chip.link = "100HD"
        BY <2>5, <3>1, <3>3, ReachableOfPhy
      <4> QED
        BY <2>4, <4>1, <4>2
    <3>4. CASE Mode(asked) = "all"
      <4>1. asked.up /\ asked.autoneg /\ asked.speed \in {"100FD", "NONE"}
        BY <2>2, <3>4, ModeOfRequest
      <4> QED
        BY <4>1
    <3> QED
      BY <3>1, <3>2, <3>3, <3>4
  <2> QED
    BY <2>6, <2>7, <2>8
<1> QED
  BY <1>1, Invariant, PTL DEF Spec, SpeedReported
=============================================================================
