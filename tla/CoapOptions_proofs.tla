------------------------- MODULE CoapOptions_proofs -------------------------
(***************************************************************************)
(* The size that is computed in advance is the size that is written, up to *)
(* the bytes of Uncounted, for every list of strings and every order of    *)
(* the setters; and what is read back is what was set.                     *)
(***************************************************************************)
EXTENDS CoapOptions, Arithmetic, SequenceTheorems, TLAPS

(* TotalUpTo is defined by its equation, and adds up to a number.          *)
LEMMA TotalsDefined ==
  ASSUME NEW lens \in Seq(Nat)
  PROVE  /\ TotalUpTo(lens) \in [0 .. Len(lens) -> Nat]
         /\ TotalUpTo(lens)[0] = 0
         /\ \A k \in 1 .. Len(lens) :
              TotalUpTo(lens)[k] = TotalUpTo(lens)[k - 1] + lens[k]
<1> DEFINE n == Len(lens)
           Eq(u) == [k \in 0 .. n |-> IF k = 0 THEN 0 ELSE u[k - 1] + lens[k]]
           step == [c \in (1 .. n) \X Nat |-> c[2] + lens[c[1]]]
<1>1. n \in Nat /\ \A k \in 1 .. n : lens[k] \in Nat
  OBVIOUS
<1>2. step \in [(1 .. n) \X Nat -> Nat]
  <2> HIDE DEF n
  <2> QED BY <1>1
<1>3. PICK f \in [0 .. n -> Nat] : f[0] = 0 /\ \A k \in 1 .. n : f[k] = step[<<k, f[k - 1]>>]
  <2>1. Upward(n, Nat, 0, step) # {}
    <3> HIDE DEF n, step
    <3> QED BY <1>1, <1>2, RecursionUp
  <2> HIDE DEF n, step
  <2> QED BY <2>1 DEF Upward
<1>4. \A k \in 1 .. n : k - 1 \in 0 .. n /\ f[k] = f[k - 1] + lens[k]
  <2> TAKE k \in 1 .. n
  <2>1. k - 1 \in 0 .. n
    BY <1>1
  <2>2. f[k - 1] \in Nat
    BY <1>3, <2>1
  <2> QED BY <1>3, <2>1, <2>2
<1>5. f = Eq(f)
  <2> HIDE DEF n
  <2>1. \A k \in 0 .. n : k # 0 => k \in 1 .. n
    BY <1>1
  <2>2. \A k \in 0 .. n : f[k] = Eq(f)[k]
    BY <1>3, <1>4, <2>1
  <2>3. f = [k \in 0 .. n |-> f[k]]
    OBVIOUS
  <2> QED BY <2>2, <2>3
<1> DEFINE u == CHOOSE g : g = Eq(g)
<1>6. u = Eq(u)
  <2> HIDE DEF Eq
  <2> QED BY <1>5
<1>7. TotalUpTo(lens) = u
  BY DEF TotalUpTo
<1> HIDE DEF u
<1>8. u[0] = 0 /\ \A k \in 1 .. n : u[k] = u[k - 1] + lens[k]
  <2>1. 0 \in 0 .. n /\ \A k \in 1 .. n : k \in 0 .. n /\ k # 0
    BY <1>1
  <2> HIDE DEF n
  <2> QED BY <1>6, <2>1
<1>9. \A k \in 0 .. n : u[k] \in Nat
  <2> DEFINE P == {k \in 0 .. n : u[k] \in Nat}
  <2>1. 0 \in P
    BY <1>1, <1>8
  <2>2. \A k \in P : k < n => k + 1 \in P
    <3> TAKE k \in P
    <3> HAVE k < n
    <3>1. k + 1 \in 1 .. n /\ (k + 1) - 1 = k /\ k + 1 \in 0 .. n
      BY <1>1
    <3>2. u[k + 1] = u[k] + lens[k + 1] /\ lens[k + 1] \in Nat
      <4> HIDE DEF n
      <4> QED BY <1>1, <1>8, <3>1
    <3> HIDE DEF n
    <3> QED BY <3>1, <3>2
  <2>3. P = 0 .. n
    <3> HIDE DEF n
    <3>1. P \in SUBSET (0 .. n)
      OBVIOUS
    <3> HIDE DEF P
    <3> QED BY <1>1, <2>1, <2>2, <3>1, BoundedInduction
  <2> QED BY <2>3
<1>10. u \in [0 .. n -> Nat]
  <2> HIDE DEF n
  <2>1. u = [k \in 0 .. n |-> u[k]]
    BY <1>6
  <2> QED BY <1>9, <2>1
<1> QED BY <1>7, <1>8, <1>10

LEMMA TotalType ==
  ASSUME NEW lens \in Seq(Nat)
  PROVE  Total(lens) \in Nat
<1>1. Len(lens) \in 0 .. Len(lens)
  OBVIOUS
<1> QED BY <1>1, TotalsDefined DEF Total

(* The lengths of two lists one after the other.                           *)
LEMMA TotalConcat ==
  ASSUME NEW a \in Seq(Nat), NEW b \in Seq(Nat)
  PROVE  Total(a \o b) = Total(a) + Total(b)
<1> DEFINE ab == a \o b
           la == Len(a)
           lb == Len(b)
           u == TotalUpTo(ab)
           ua == TotalUpTo(a)
           ub == TotalUpTo(b)
<1>1. /\ la \in Nat /\ lb \in Nat /\ ab \in Seq(Nat) /\ Len(ab) = la + lb
      /\ \A k \in 1 .. la : ab[k] = a[k]
      /\ \A k \in 1 .. lb : ab[la + k] = b[k] /\ b[k] \in Nat
  BY ConcatProperties
<1>2. u[0] = 0 /\ \A k \in 1 .. la + lb : u[k] = u[k - 1] + ab[k]
  <2> HIDE DEF ab
  <2> QED BY <1>1, TotalsDefined
<1>3. ua \in [0 .. la -> Nat] /\ ua[0] = 0 /\ \A k \in 1 .. la : ua[k] = ua[k - 1] + a[k]
  BY TotalsDefined
<1>4. ub \in [0 .. lb -> Nat] /\ ub[0] = 0 /\ \A k \in 1 .. lb : ub[k] = ub[k - 1] + b[k]
  BY TotalsDefined
<1> HIDE DEF ab, la, lb, u, ua, ub
<1>5. u[la] = ua[la]
  <2> DEFINE P == {k \in 0 .. la : u[k] = ua[k]}
  <2>1. 0 \in P
    BY <1>1, <1>2, <1>3
  <2>2. \A k \in P : k < la => k + 1 \in P
    <3> TAKE k \in P
    <3> HAVE k < la
    <3>1. k + 1 \in 1 .. la /\ k + 1 \in 1 .. la + lb /\ (k + 1) - 1 = k /\ k + 1 \in 0 .. la
      BY <1>1
    <3>2. u[k + 1] = u[k] + ab[k + 1] /\ ua[k + 1] = ua[k] + a[k + 1] /\ ab[k + 1] = a[k + 1]
      BY <1>1, <1>2, <1>3, <3>1
    <3> QED BY <3>1, <3>2
  <2>3. P \in SUBSET (0 .. la)
    OBVIOUS
  <2>4. la \in P
    <3> HIDE DEF P
    <3>1. P = 0 .. la
      BY <1>1, <2>1, <2>2, <2>3, BoundedInduction
    <3>2. la \in 0 .. la
      BY <1>1
    <3> QED BY <3>1, <3>2
  <2> QED BY <2>4
<1>6. u[la + lb] = ua[la] + ub[lb]
  <2> DEFINE P == {k \in 0 .. lb : u[la + k] = ua[la] + ub[k]}
  <2>1. 0 \in P
    BY <1>1, <1>3, <1>4, <1>5
  <2>2. \A k \in P : k < lb => k + 1 \in P
    <3> TAKE k \in P
    <3> HAVE k < lb
    <3>1. /\ k \in 0 .. lb /\ k + 1 \in 1 .. lb /\ k + 1 \in 0 .. lb /\ (k + 1) - 1 = k
          /\ la + (k + 1) \in 1 .. la + lb /\ (la + (k + 1)) - 1 = la + k
      BY <1>1
    <3>2. u[la + (k + 1)] = u[la + k] + ab[la + (k + 1)]
      BY <1>2, <3>1
    <3>3. ub[k + 1] = ub[k] + b[k + 1] /\ ab[la + (k + 1)] = b[k + 1] /\ b[k + 1] \in Nat
      BY <1>1, <1>4, <3>1
    <3>4. ua[la] \in Nat /\ ub[k] \in Nat /\ u[la + k] = ua[la] + ub[k]
      BY <1>1, <1>3, <1>4, <3>1
    <3>5. u[la + (k + 1)] = ua[la] + ub[k + 1]
      BY <3>2, <3>3, <3>4
    <3> QED BY <3>1, <3>5
  <2>3. P \in SUBSET (0 .. lb)
    OBVIOUS
  <2>4. lb \in P
    <3> HIDE DEF P
    <3>1. P = 0 .. lb
      BY <1>1, <2>1, <2>2, <2>3, BoundedInduction
    <3>2. lb \in 0 .. lb
      BY <1>1
    <3> QED BY <3>1, <3>2
  <2> QED BY <2>4
<1> QED BY <1>1, <1>6 DEF Total, u, ua, ub, ab, la, lb

-----------------------------------------------------------------------------
(* The sizes of a list of options: as foreseen and as written.             *)
Opts == [number : {URIPATH, CONTENTFORMAT, URIQUERY}, len : Nat]
Wide(n) == n >= 269
Foreseen(opts) == [i \in DOMAIN opts |-> OptLen(opts[i].len)]
Written(opts) == [i \in DOMAIN opts |-> OptLen(opts[i].len) + (IF Wide(opts[i].len) THEN 1 ELSE 0)]
WideOnes(opts) == {i \in DOMAIN opts : opts[i].len >= 269}

LEMMA OptLenType ==
  ASSUME NEW n \in Nat
  PROVE  OptLen(n) \in Nat
BY DEF OptLen

LEMMA OptsOf ==
  ASSUME NEW opts \in Seq(Opts)
  PROVE  Len(opts) \in Nat /\ DOMAIN opts = 1 .. Len(opts)
         /\ \A i \in 1 .. Len(opts) : opts[i] \in Opts /\ opts[i].len \in Nat
<1>1. Len(opts) \in Nat /\ DOMAIN opts = 1 .. Len(opts)
      /\ \A i \in 1 .. Len(opts) : opts[i] \in Opts
  OBVIOUS
<1>2. \A o \in Opts : o.len \in Nat
  BY DEF Opts
<1> QED BY <1>1, <1>2

LEMMA SizesType ==
  ASSUME NEW opts \in Seq(Opts)
  PROVE  /\ Foreseen(opts) \in Seq(Nat) /\ Len(Foreseen(opts)) = Len(opts)
         /\ Written(opts) \in Seq(Nat) /\ Len(Written(opts)) = Len(opts)
<1>1. Len(opts) \in Nat /\ DOMAIN opts = 1 .. Len(opts)
      /\ \A i \in 1 .. Len(opts) : opts[i].len \in Nat
  BY OptsOf
<1>2. \A i \in 1 .. Len(opts) : OptLen(opts[i].len) \in Nat
  BY <1>1, OptLenType
<1>3. \A i \in 1 .. Len(opts) :
        OptLen(opts[i].len) + (IF Wide(opts[i].len) THEN 1 ELSE 0) \in Nat
  BY <1>2
<1> QED BY <1>1, <1>2, <1>3 DEF Foreseen, Written

LEMMA ForeseenConcat ==
  ASSUME NEW p \in Seq(Opts), NEW q \in Seq(Opts)
  PROVE  p \o q \in Seq(Opts) /\ Total(Foreseen(p \o q)) = Total(Foreseen(p)) + Total(Foreseen(q))
<1> DEFINE n == Len(p) + Len(q)
<1>1. /\ p \o q \in Seq(Opts) /\ Len(p \o q) = n
      /\ \A i \in 1 .. n : (p \o q)[i] = IF i <= Len(p) THEN p[i] ELSE q[i - Len(p)]
      /\ Len(p) \in Nat /\ Len(q) \in Nat
      /\ DOMAIN p = 1 .. Len(p) /\ DOMAIN q = 1 .. Len(q) /\ DOMAIN (p \o q) = 1 .. n
  BY ConcatProperties
<1>2. /\ Foreseen(p) \in Seq(Nat) /\ Len(Foreseen(p)) = Len(p)
      /\ Foreseen(q) \in Seq(Nat) /\ Len(Foreseen(q)) = Len(q)
  BY SizesType
<1>3. /\ Foreseen(p) \o Foreseen(q) \in Seq(Nat) /\ Len(Foreseen(p) \o Foreseen(q)) = n
      /\ \A i \in 1 .. n : (Foreseen(p) \o Foreseen(q))[i]
                             = IF i <= Len(p) THEN Foreseen(p)[i] ELSE Foreseen(q)[i - Len(p)]
  <2> DEFINE a == Foreseen(p)
             b == Foreseen(q)
  <2>1. a \in Seq(Nat) /\ Len(a) = Len(p) /\ b \in Seq(Nat) /\ Len(b) = Len(q)
    BY <1>2
  <2> HIDE DEF a, b
  <2>2. /\ a \o b \in Seq(Nat) /\ Len(a \o b) = Len(a) + Len(b)
        /\ \A i \in 1 .. Len(a) + Len(b) :
             (a \o b)[i] = IF i <= Len(a) THEN a[i] ELSE b[i - Len(a)]
    BY <2>1, ConcatProperties
  <2> QED BY <2>1, <2>2 DEF a, b
<1>4. \A i \in 1 .. n : Foreseen(p \o q)[i] = (Foreseen(p) \o Foreseen(q))[i]
  <2> TAKE i \in 1 .. n
  <2>1. Foreseen(p \o q)[i] = OptLen((p \o q)[i].len)
    BY <1>1 DEF Foreseen
  <2>2. CASE i <= Len(p)
    <3>1. i \in 1 .. Len(p)
      BY <1>1, <2>2
    <3> QED BY <1>1, <1>3, <2>1, <2>2, <3>1 DEF Foreseen
  <2>3. CASE ~ (i <= Len(p))
    <3>1. i - Len(p) \in 1 .. Len(q)
      BY <1>1, <2>3
    <3> QED BY <1>1, <1>3, <2>1, <2>3, <3>1 DEF Foreseen
  <2> QED BY <2>2, <2>3
<1>5. Foreseen(p \o q) = Foreseen(p) \o Foreseen(q)
  <2>1. Foreseen(p \o q) \in Seq(Nat) /\ Len(Foreseen(p \o q)) = n
    BY <1>1, SizesType
  <2> DEFINE a == Foreseen(p \o q)
             b == Foreseen(p) \o Foreseen(q)
  <2>2. a \in Seq(Nat) /\ b \in Seq(Nat) /\ Len(a) = Len(b) /\ \A i \in 1 .. Len(a) : a[i] = b[i]
    BY <1>3, <1>4, <2>1
  <2> HIDE DEF a, b
  <2>3. a = b
    BY <2>2, SeqEqual
  <2> QED BY <2>3 DEF a, b
<1> QED BY <1>1, <1>2, <1>5, TotalConcat

(* What is written exceeds what was foreseen by a byte for each long       *)
(* string.                                                                 *)
LEMMA WrittenExceeds ==
  ASSUME NEW opts \in Seq(Opts)
  PROVE  /\ IsFiniteSet(WideOnes(opts)) /\ Cardinality(WideOnes(opts)) \in Nat
         /\ Total(Written(opts)) = Total(Foreseen(opts)) + Cardinality(WideOnes(opts))
<1> DEFINE n == Len(opts)
           ones(k) == {i \in 1 .. k : opts[i].len >= 269}
           w == TotalUpTo(Written(opts))
           f == TotalUpTo(Foreseen(opts))
<1>1. n \in Nat /\ DOMAIN opts = 1 .. n /\ \A i \in 1 .. n : opts[i].len \in Nat
  BY OptsOf
<1>2. /\ Written(opts) \in Seq(Nat) /\ Len(Written(opts)) = n
      /\ Foreseen(opts) \in Seq(Nat) /\ Len(Foreseen(opts)) = n
  BY SizesType
<1>3. w[0] = 0 /\ \A k \in 1 .. n : w[k] = w[k - 1] + Written(opts)[k]
  BY <1>2, TotalsDefined
<1>4. f \in [0 .. n -> Nat] /\ f[0] = 0
      /\ \A k \in 1 .. n : f[k] = f[k - 1] + Foreseen(opts)[k] /\ Foreseen(opts)[k] \in Nat
  BY <1>2, TotalsDefined
<1>5. \A k \in 1 .. n : Written(opts)[k] = Foreseen(opts)[k]
                                           + (IF opts[k].len >= 269 THEN 1 ELSE 0)
  BY <1>1 DEF Written, Foreseen, Wide
<1> HIDE DEF n, w, f
<1> DEFINE P == {k \in 0 .. n : /\ IsFiniteSet(ones(k)) /\ Cardinality(ones(k)) \in Nat
                                /\ w[k] = f[k] + Cardinality(ones(k))}
<1>6. 0 \in P
  <2>1. ones(0) = {}
    OBVIOUS
  <2> HIDE DEF ones
  <2> QED BY <1>1, <1>3, <1>4, <2>1, FS_EmptySet
<1>7. \A k \in P : k < n => k + 1 \in P
  <2> TAKE k \in P
  <2> HAVE k < n
  <2>1. k + 1 \in 1 .. n /\ (k + 1) - 1 = k /\ k + 1 \in 0 .. n /\ k \in 0 .. n
    BY <1>1
  <2>2. w[k + 1] = w[k] + Written(opts)[k + 1] /\ f[k + 1] = f[k] + Foreseen(opts)[k + 1]
        /\ f[k] \in Nat /\ Foreseen(opts)[k + 1] \in Nat
    BY <1>3, <1>4, <2>1
  <2>3. IsFiniteSet(ones(k)) /\ Cardinality(ones(k)) \in Nat /\ w[k] = f[k] + Cardinality(ones(k))
    OBVIOUS
  <2>4. CASE opts[k + 1].len >= 269
    <3>1. ones(k + 1) = ones(k) \union {k + 1} /\ k + 1 \notin ones(k)
      BY <2>1, <2>4
    <3>2. Written(opts)[k + 1] = Foreseen(opts)[k + 1] + 1
      BY <1>5, <2>1, <2>4
    <3> HIDE DEF ones
    <3>3. IsFiniteSet(ones(k + 1)) /\ Cardinality(ones(k + 1)) = Cardinality(ones(k)) + 1
      BY <2>3, <3>1, FS_AddElement
    <3>4. w[k + 1] = f[k + 1] + Cardinality(ones(k + 1))
      <4> DEFINE c == Cardinality(ones(k))
                 x == Foreseen(opts)[k + 1]
                 y == f[k]
      <4>1. /\ c \in Nat /\ x \in Nat /\ y \in Nat
            /\ w[k + 1] = (y + c) + (x + 1) /\ f[k + 1] = y + x
        BY <2>2, <2>3, <3>2
      <4> HIDE DEF c, x, y
      <4>2. w[k + 1] = f[k + 1] + (c + 1)
        BY <4>1
      <4> QED BY <3>3, <4>2 DEF c
    <3> QED BY <2>1, <2>3, <3>3, <3>4
  <2>5. CASE ~ (opts[k + 1].len >= 269)
    <3>1. ones(k + 1) = ones(k)
      BY <2>1, <2>5
    <3>2. Written(opts)[k + 1] = Foreseen(opts)[k + 1]
      BY <1>5, <2>1, <2>2, <2>5
    <3> HIDE DEF ones
    <3> QED BY <2>1, <2>2, <2>3, <3>1, <3>2
  <2> QED BY <2>4, <2>5
<1>8. P \in SUBSET (0 .. n)
  OBVIOUS
<1>9. n \in P
  <2> HIDE DEF P
  <2>1. P = 0 .. n /\ n \in 0 .. n
    BY <1>1, <1>6, <1>7, <1>8, BoundedInduction
  <2> QED BY <2>1
<1>10. WideOnes(opts) = ones(n)
  BY <1>1 DEF WideOnes
<1> QED BY <1>2, <1>9, <1>10 DEF Total, w, f

-----------------------------------------------------------------------------
(* What the kept size is: that of the header for the token at that time,   *)
(* for the setters of all the rest reset it when they change it.  The last *)
(* answer of net_coap_pload_pos is the kept size.                          *)
TypeSize(type) == IF type # 0 THEN OptLen(1) ELSE 0

SizeFor(n) ==
  BaseHdrSize + n + UriSize(coap.uripath) + UriSize(coap.uriquery) + TypeSize(coap.contenttype) + 1

Kept ==
  /\ coap.hdrsize # 0 => coap.hdrsize = SizeFor(sizedFor)
  /\ placed # 0 => placed = coap.hdrsize

IInv == TypeOK /\ Kept

(* The options of a list of strings, and their sizes.                      *)
LEMMA UriOptions ==
  ASSUME NEW number \in {URIPATH, CONTENTFORMAT, URIQUERY}, NEW uri \in Seq(Nat)
  PROVE  /\ OptionsOf(number, uri) \in Seq(Opts) /\ Len(OptionsOf(number, uri)) = Len(uri)
         /\ \A i \in 1 .. Len(uri) : OptionsOf(number, uri)[i].number = number
         /\ Total(Foreseen(OptionsOf(number, uri))) = UriSize(uri)
         /\ UriSize(uri) \in Nat
<1> DEFINE opts == OptionsOf(number, uri)
<1>1. Len(uri) \in Nat /\ DOMAIN uri = 1 .. Len(uri) /\ \A i \in 1 .. Len(uri) : uri[i] \in Nat
  OBVIOUS
<1>2. opts = [i \in 1 .. Len(uri) |-> [number |-> number, len |-> uri[i]]]
  BY <1>1 DEF OptionsOf
<1>3. \A i \in 1 .. Len(uri) : [number |-> number, len |-> uri[i]] \in Opts
  BY <1>1 DEF Opts
<1>4. opts \in Seq(Opts) /\ Len(opts) = Len(uri) /\ DOMAIN opts = 1 .. Len(uri)
  BY <1>1, <1>2, <1>3
<1>5. \A i \in 1 .. Len(uri) : opts[i].number = number /\ opts[i].len = uri[i]
  BY <1>2
<1> HIDE DEF opts
<1>6. Foreseen(opts) = [i \in DOMAIN uri |-> OptLen(uri[i])]
  BY <1>1, <1>4, <1>5 DEF Foreseen
<1>7. Total(Foreseen(opts)) = UriSize(uri)
  BY <1>6 DEF UriSize
<1>8. Total(Foreseen(opts)) \in Nat
  BY <1>4, SizesType, TotalType
<1> QED BY <1>4, <1>5, <1>7, <1>8 DEF opts

(* The size for each token is a 16-bit number.                             *)
LEMMA SizeFits ==
  ASSUME TypeOK, NEW n \in TokenLens
  PROVE  /\ SizeFor(n) \in BaseHdrSize + 1 .. MaxLen
         /\ UriSize(coap.uripath) \in Nat /\ UriSize(coap.uriquery) \in Nat
         /\ TypeSize(coap.contenttype) \in Nat
<1>1. coap.uripath \in Uris /\ coap.uriquery \in Uris /\ coap.uripath \in Seq(Nat)
      /\ coap.uriquery \in Seq(Nat) /\ n \in 0 .. 8 /\ 0 \in DataLens
  BY InputsAssumption DEF TypeOK
<1>0. MaxLen \in Nat
  BY DEF MaxLen
<1> DEFINE a == UriSize(coap.uripath)
           b == UriSize(coap.uriquery)
           c == TypeSize(coap.contenttype)
<1>2. a \in Nat /\ b \in Nat
  BY <1>1, UriOptions
<1>3. OptLen(1) = 2 /\ c \in 0 .. 2
  BY DEF OptLen, TypeSize
<1>4. BaseHdrSize + 8 + a + b + OptLen(1) + 1 + 0 <= MaxLen
  BY <1>1, FitAssumption
<1>5. SizeFor(n) = BaseHdrSize + n + a + b + c + 1
  BY DEF SizeFor
<1> HIDE DEF a, b, c
<1>6. SizeFor(n) \in BaseHdrSize + 1 .. MaxLen
  <2>1. n \in Nat /\ n <= 8 /\ c \in Nat /\ c <= 2
    BY <1>1, <1>3
  <2>2. SizeFor(n) = 4 + n + a + b + c + 1
    BY <1>5 DEF BaseHdrSize
  <2>3. 4 + 8 + a + b + 2 + 1 + 0 <= MaxLen
    BY <1>3, <1>4 DEF BaseHdrSize
  <2> QED BY <1>0, <1>2, <2>1, <2>2, <2>3 DEF BaseHdrSize
<1> QED BY <1>2, <1>3, <1>6 DEF a, b, c

LEMMA Computed ==
  ASSUME TypeOK
  PROVE  ComputeHdrSize = SizeFor(coap.tokenlen) /\ coap.tokenlen \in TokenLens
         /\ HdrSize \in BaseHdrSize + 1 .. MaxLen /\ HdrSize # 0
<1>1. coap.tokenlen \in TokenLens
  BY DEF TypeOK
<1>2. ComputeHdrSize = SizeFor(coap.tokenlen)
  BY DEF ComputeHdrSize, SizeFor, TypeSize
<1>3. ComputeHdrSize \in BaseHdrSize + 1 .. MaxLen
  BY <1>1, <1>2, SizeFits
<1>4. coap.hdrsize # 0 => coap.hdrsize \in BaseHdrSize + 1 .. MaxLen
  BY DEF TypeOK
<1>5. HdrSize \in BaseHdrSize + 1 .. MaxLen
  BY <1>3, <1>4 DEF HdrSize
<1>6. HdrSize # 0
  <2> DEFINE h == HdrSize
  <2>1. h \in BaseHdrSize + 1 .. MaxLen
    BY <1>5
  <2>2. MaxLen \in Nat
    BY DEF MaxLen
  <2> HIDE DEF h
  <2>3. h # 0
    BY <2>1, <2>2 DEF BaseHdrSize
  <2> QED BY <2>3 DEF h
<1> QED BY <1>1, <1>2, <1>5, <1>6

LEMMA InitIInv == Init => IInv
BY InputsAssumption DEF Init, IInv, TypeOK, Kept

LEMMA NextIInv == IInv /\ [Next]_vars => IInv'
<1> SUFFICES ASSUME IInv, [Next]_vars PROVE IInv'
  OBVIOUS
<1> DEFINE Ctx == [tokenlen : TokenLens, uripath : Uris, uriquery : Uris,
                   contenttype : ContentTypes, hdrsize : {0} \union (BaseHdrSize + 1 .. MaxLen)]
<1>1. coap \in Ctx /\ sizedFor \in TokenLens /\ placed \in {0} \union (BaseHdrSize + 1 .. MaxLen)
  BY DEF IInv, TypeOK
<1>2. Kept
  BY DEF IInv
<1>3. CASE \E n \in TokenLens : SetToken(n)
  <2>1. PICK n \in TokenLens : SetToken(n)
    BY <1>3
  <2>2. TypeOK'
    BY <1>1, <2>1 DEF SetToken, TypeOK
  <2>3. Kept'
    BY <1>1, <1>2, <2>1 DEF SetToken, Kept, SizeFor
  <2> QED BY <2>2, <2>3 DEF IInv
<1>8. 0 \in {0} \union (BaseHdrSize + 1 .. MaxLen)
  OBVIOUS
<1>9. ASSUME coap' \in Ctx, coap'.hdrsize = 0, placed' = 0, sizedFor' = sizedFor
      PROVE  IInv'
  BY <1>1, <1>8, <1>9 DEF IInv, TypeOK, Kept
<1>4. CASE \E uri \in Uris : SetUriPath(uri) \/ SetUriQuery(uri)
  <2>1. PICK uri \in Uris : SetUriPath(uri) \/ SetUriQuery(uri)
    BY <1>4
  <2>2. CASE SetUriPath(uri)
    <3>1. coap' = [coap EXCEPT !.uripath = uri, !.hdrsize = 0] /\ placed' = 0 /\ sizedFor' = sizedFor
      BY <2>2 DEF SetUriPath
    <3>2. coap' \in Ctx /\ coap'.hdrsize = 0
      BY <1>1, <1>8, <3>1
    <3> HIDE DEF Ctx
    <3> QED BY <1>9, <3>1, <3>2
  <2>3. CASE SetUriQuery(uri)
    <3>1. coap' = [coap EXCEPT !.uriquery = uri, !.hdrsize = 0] /\ placed' = 0 /\ sizedFor' = sizedFor
      BY <2>3 DEF SetUriQuery
    <3>2. coap' \in Ctx /\ coap'.hdrsize = 0
      BY <1>1, <1>8, <3>1
    <3> HIDE DEF Ctx
    <3> QED BY <1>9, <3>1, <3>2
  <2> QED BY <2>1, <2>2, <2>3
<1>5. CASE \E type \in ContentTypes : SetContentType(type)
  <2>1. PICK type \in ContentTypes : SetContentType(type)
    BY <1>5
  <2> DEFINE size == IF (type = 0) # (coap.contenttype = 0) THEN 0 ELSE coap.hdrsize
  <2>6. coap' = [coap EXCEPT !.contenttype = type, !.hdrsize = size]
    BY <2>1 DEF SetContentType
  <2>7. size \in {0} \union (BaseHdrSize + 1 .. MaxLen)
    BY <1>1
  <2>8. coap' \in Ctx
    <3> HIDE DEF size
    <3> QED BY <1>1, <2>6, <2>7
  <2>2. TypeOK'
    <3>1. placed' = 0 /\ sizedFor' = sizedFor
      BY <2>1 DEF SetContentType
    <3> QED BY <1>1, <2>8, <3>1 DEF TypeOK
  <2>3. placed' = 0 /\ sizedFor' = sizedFor
    BY <2>1 DEF SetContentType
  <2>4. CASE (type = 0) # (coap.contenttype = 0)
    <3>1. coap'.hdrsize = 0
      BY <1>1, <2>1, <2>4 DEF SetContentType
    <3> QED BY <2>2, <2>3, <3>1 DEF IInv, Kept
  <2>5. CASE ~ ((type = 0) # (coap.contenttype = 0))
    <3>1. /\ coap'.hdrsize = coap.hdrsize /\ coap'.contenttype = type
          /\ coap'.uripath = coap.uripath /\ coap'.uriquery = coap.uriquery
      BY <1>1, <2>1, <2>5 DEF SetContentType
    <3>2. TypeSize(coap.contenttype)' = TypeSize(coap.contenttype)
      BY <2>5, <3>1 DEF TypeSize
    <3>3. Kept'
      BY <1>2, <2>3, <3>1, <3>2 DEF Kept, SizeFor
    <3> QED BY <2>2, <3>3 DEF IInv
  <2> QED BY <2>4, <2>5
<1>6. CASE KeepHdrSize /\ (placed' = HdrSize \/ placed' = placed)
  <2>1. HdrSize \in BaseHdrSize + 1 .. MaxLen /\ HdrSize # 0
        /\ ComputeHdrSize = SizeFor(coap.tokenlen) /\ coap.tokenlen \in TokenLens
    BY Computed DEF IInv
  <2>2. coap' = [coap EXCEPT !.hdrsize = HdrSize]
    BY <1>6 DEF KeepHdrSize
  <2>3. /\ coap' \in Ctx /\ coap'.hdrsize = HdrSize /\ coap'.contenttype = coap.contenttype
        /\ coap'.uripath = coap.uripath /\ coap'.uriquery = coap.uriquery
    BY <1>1, <2>1, <2>2
  <2>4. TypeOK'
    BY <1>1, <1>6, <2>1, <2>3 DEF TypeOK, KeepHdrSize
  <2>5. HdrSize = SizeFor(sizedFor)'
    <3>1. CASE coap.hdrsize = 0
      <4>1. sizedFor' = coap.tokenlen /\ HdrSize = SizeFor(coap.tokenlen)
        BY <1>6, <2>1, <3>1 DEF KeepHdrSize, HdrSize
      <4> QED BY <2>3, <4>1 DEF SizeFor
    <3>2. CASE coap.hdrsize # 0
      <4>1. sizedFor' = sizedFor /\ HdrSize = SizeFor(sizedFor)
        BY <1>2, <1>6, <3>2 DEF KeepHdrSize, HdrSize, Kept
      <4> QED BY <2>3, <4>1 DEF SizeFor
    <3> QED BY <3>1, <3>2
  <2>6. placed' # 0 => placed' = HdrSize
    BY <1>2, <1>6 DEF Kept, HdrSize
  <2> QED BY <2>3, <2>4, <2>5, <2>6 DEF IInv, Kept
<1>7. CASE UNCHANGED vars
  BY <1>7 DEF vars, IInv, TypeOK, Kept, SizeFor
<1> QED BY <1>3, <1>4, <1>5, <1>6, <1>7 DEF Next, PloadPos, Send

LEMMA Invariance == Spec => []IInv
BY InitIInv, NextIInv, PTL DEF Spec

(* The size that _net_coap_compute_hdrsize adds up is that of a header,    *)
(* and the context holds what its setters are given.                       *)
THEOREM TypeCorrect == Spec => []TypeOK
BY Invariance, PTL DEF IInv

-----------------------------------------------------------------------------
(* Sums of none and of one.                                                *)
LEMMA TotalOfFew ==
  /\ Total(<<>>) = 0
  /\ \A n \in Nat : Total(<<n>>) = n
<1>1. Total(<<>>) = 0
  <2>1. <<>> \in Seq(Nat) /\ Len(<<>>) = 0
    OBVIOUS
  <2>2. TotalUpTo(<<>>)[0] = 0
    BY <2>1, TotalsDefined, Zenon
  <2> QED BY <2>1, <2>2 DEF Total
<1>2. ASSUME NEW n \in Nat PROVE Total(<<n>>) = n
  <2> DEFINE l == <<n>>
  <2>1. l \in Seq(Nat) /\ Len(l) = 1 /\ l[1] = n
    OBVIOUS
  <2> HIDE DEF l
  <2>2. TotalUpTo(l)[0] = 0 /\ TotalUpTo(l)[1] = TotalUpTo(l)[1 - 1] + l[1]
    <3>1. 1 \in 1 .. Len(l)
      BY <2>1
    <3> QED BY <2>1, <3>1, TotalsDefined
  <2>3. Total(l) = n
    BY <2>1, <2>2 DEF Total
  <2> QED BY <2>3 DEF l
<1> QED BY <1>1, <1>2

(* The options of a message: how many bytes they are foreseen to take, and *)
(* which numbers they have.                                                *)
TypeOptions(type) == IF type # 0 THEN OptionsOf(CONTENTFORMAT, <<1>>) ELSE <<>>

LEMMA OptionsForeseen ==
  ASSUME TypeOK
  PROVE  /\ Options \in Seq(Opts)
         /\ Total(Foreseen(Options)) = UriSize(coap.uripath) + TypeSize(coap.contenttype)
                                       + UriSize(coap.uriquery)
<1> DEFINE a == OptionsOf(URIPATH, coap.uripath)
           b == TypeOptions(coap.contenttype)
           c == OptionsOf(URIQUERY, coap.uriquery)
<1>1. coap.uripath \in Seq(Nat) /\ coap.uriquery \in Seq(Nat)
  BY InputsAssumption DEF TypeOK
<1>2. a \in Seq(Opts) /\ Total(Foreseen(a)) = UriSize(coap.uripath)
  BY <1>1, UriOptions
<1>3. c \in Seq(Opts) /\ Total(Foreseen(c)) = UriSize(coap.uriquery)
  BY <1>1, UriOptions
<1>4. b \in Seq(Opts) /\ Total(Foreseen(b)) = TypeSize(coap.contenttype)
  <2>1. CASE coap.contenttype # 0
    <3> DEFINE one == <<1>>
    <3>1. one \in Seq(Nat) /\ Len(one) = 1 /\ one[1] = 1 /\ DOMAIN one = {1}
      OBVIOUS
    <3>2. OptionsOf(CONTENTFORMAT, one) \in Seq(Opts)
          /\ Total(Foreseen(OptionsOf(CONTENTFORMAT, one))) = UriSize(one)
      <4> HIDE DEF one
      <4> QED BY <3>1, UriOptions
    <3>3. UriSize(one) = OptLen(1)
      <4>1. [i \in DOMAIN one |-> OptLen(one[i])] = <<OptLen(1)>>
        OBVIOUS
      <4>2. OptLen(1) \in Nat
        BY OptLenType
      <4> QED BY <4>1, <4>2, TotalOfFew DEF UriSize
    <3> QED BY <2>1, <3>2, <3>3 DEF TypeOptions, TypeSize
  <2>2. CASE coap.contenttype = 0
    <3>1. b = <<>> /\ TypeSize(coap.contenttype) = 0
      BY <2>2 DEF TypeOptions, TypeSize
    <3>2. Foreseen(<<>>) = <<>>
      BY DEF Foreseen
    <3>3. <<>> \in Seq(Opts)
      OBVIOUS
    <3> HIDE DEF b
    <3> QED BY <3>1, <3>2, <3>3, TotalOfFew
  <2> QED BY <2>1, <2>2
<1>5. Options = (a \o b) \o c
  BY DEF Options, TypeOptions
<1> HIDE DEF a, b, c
<1>6. a \o b \in Seq(Opts) /\ Total(Foreseen(a \o b)) = Total(Foreseen(a)) + Total(Foreseen(b))
  BY <1>2, <1>4, ForeseenConcat
<1>7. /\ (a \o b) \o c \in Seq(Opts)
      /\ Total(Foreseen((a \o b) \o c)) = Total(Foreseen(a \o b)) + Total(Foreseen(c))
  BY <1>3, <1>6, ForeseenConcat
<1> QED BY <1>2, <1>3, <1>4, <1>5, <1>6, <1>7

(* The header that net_coap_send writes ends where the application was     *)
(* told to put its payload, and as long as the lower layer is told, but    *)
(* for the uncounted bytes: for any strings and any order of the setters.  *)
THEOREM PayloadIsInPlace == Spec => []PayloadInPlace
<1>1. IInv => PayloadInPlace
  <2> SUFFICES ASSUME IInv, NEW datalen \in DataLens
               PROVE  /\ placed # 0 /\ datalen > 0 => HeaderWritten(datalen) = placed + Uncounted
                      /\ HeaderWritten(datalen) + datalen = LengthSent(datalen) + Uncounted
    BY DEF PayloadInPlace
  <2>0. TypeOK /\ Kept
    BY DEF IInv
  <2>1. PICK opts \in Seq(Opts) : opts = Options
    BY <2>0, OptionsForeseen
  <2>2. DOMAIN opts = 1 .. Len(opts) /\ \A i \in 1 .. Len(opts) : opts[i].len \in Nat
    BY OptsOf
  <2>3. [i \in DOMAIN Options |-> Put(i).size] = Written(opts)
    <3>1. \A i \in DOMAIN opts :
            Put(i).size = OptLen(opts[i].len) + (IF Wide(opts[i].len) THEN 1 ELSE 0)
      <4> TAKE i \in DOMAIN opts
      <4>1. Put(i).size = 1 + (IF opts[i].len < 13 THEN 0 ELSE IF opts[i].len < 269 THEN 1 ELSE 2)
                          + opts[i].len
        BY <2>1 DEF Put
      <4>2. opts[i].len \in Nat
        BY <2>2
      <4> QED BY <4>1, <4>2 DEF OptLen, Wide
    <3> QED BY <2>1, <3>1 DEF Written
  <2> DEFINE s == UriSize(coap.uripath) + UriSize(coap.uriquery) + TypeSize(coap.contenttype)
             c == Cardinality(WideOnes(opts))
             tok == coap.tokenlen
             m == IF datalen > 0 THEN 1 ELSE 0
  <2>4. tok \in Nat /\ sizedFor \in Nat /\ datalen \in Nat /\ tok \in TokenLens
        /\ sizedFor \in TokenLens
    <3>1. tok \in TokenLens /\ sizedFor \in TokenLens /\ datalen \in DataLens
      BY <2>0 DEF TypeOK
    <3>2. TokenLens \subseteq 0 .. 8 /\ DataLens \subseteq Nat
      BY InputsAssumption
    <3>3. \A t \in TokenLens : t \in Nat
      BY <3>2
    <3>4. datalen \in Nat
      BY <3>1, <3>2
    <3> HIDE DEF tok
    <3> QED BY <3>1, <3>3, <3>4
  <2>5. /\ UriSize(coap.uripath) \in Nat /\ UriSize(coap.uriquery) \in Nat
        /\ TypeSize(coap.contenttype) \in Nat
    BY <2>0, <2>4, SizeFits
  <2>6. s \in Nat /\ c \in Nat /\ Total(Written(opts)) = s + c
    <3>1. Total(Foreseen(opts)) = UriSize(coap.uripath) + TypeSize(coap.contenttype)
                                  + UriSize(coap.uriquery)
      BY <2>0, <2>1, OptionsForeseen
    <3>2. c \in Nat /\ Total(Written(opts)) = Total(Foreseen(opts)) + c
      BY WrittenExceeds
    <3> HIDE DEF c
    <3> QED BY <2>5, <3>1, <3>2
  <2>7. HeaderWritten(datalen) = BaseHdrSize + tok + (s + c) + m
    BY <2>3, <2>6 DEF HeaderWritten
  <2>8. Uncounted = (IF coap.hdrsize = 0 THEN 0 ELSE tok - sizedFor) + c
    BY <2>1 DEF Uncounted, WideOnes
  <2>9. HdrSize = BaseHdrSize + (IF coap.hdrsize = 0 THEN tok ELSE sizedFor) + s + 1
    <3>1. ComputeHdrSize = SizeFor(tok)
      BY <2>0, Computed
    <3>2. HdrSize = SizeFor(IF coap.hdrsize = 0 THEN tok ELSE sizedFor)
      BY <2>0, <3>1 DEF HdrSize, Kept
    <3>3. \A t \in Nat : SizeFor(t) = BaseHdrSize + t + s + 1
      <4>1. \A b, t, x, y, z \in Nat : b + t + x + y + z + 1 = b + t + (x + y + z) + 1
        OBVIOUS
      <4>2. BaseHdrSize \in Nat
        BY DEF BaseHdrSize
      <4> QED BY <2>5, <4>1, <4>2 DEF SizeFor
    <3>4. (IF coap.hdrsize = 0 THEN tok ELSE sizedFor) \in Nat
      BY <2>4
    <3> HIDE DEF s, tok
    <3> QED BY <3>2, <3>3, <3>4
  <2>10. LengthSent(datalen) = HdrSize - (1 - m) + datalen
    BY <2>4 DEF LengthSent
  <2>11. placed # 0 => coap.hdrsize # 0 /\ placed = HdrSize
    BY <2>0 DEF Kept, HdrSize
  <2>12. (m = 0 \/ m = 1) /\ (datalen > 0 => m = 1)
    OBVIOUS
  <2> HIDE DEF s, c, tok, m
  <2>13. CASE coap.hdrsize = 0
    BY <2>4, <2>6, <2>7, <2>8, <2>9, <2>10, <2>11, <2>12, <2>13 DEF BaseHdrSize
  <2>14. CASE coap.hdrsize # 0
    BY <2>4, <2>6, <2>7, <2>8, <2>9, <2>10, <2>11, <2>12, <2>14 DEF BaseHdrSize
  <2> QED BY <2>13, <2>14
<1> QED BY <1>1, Invariance, PTL

-----------------------------------------------------------------------------
(* The options are put in the order of their numbers.                      *)
LEMMA OptionsInOrder ==
  ASSUME TypeOK
  PROVE  /\ \A i \in DOMAIN Options : Options[i].number \in {URIPATH, CONTENTFORMAT, URIQUERY}
         /\ \A i, j \in DOMAIN Options : i < j => Options[i].number <= Options[j].number
<1> DEFINE a == OptionsOf(URIPATH, coap.uripath)
           b == TypeOptions(coap.contenttype)
           c == OptionsOf(URIQUERY, coap.uriquery)
<1>1. coap.uripath \in Seq(Nat) /\ coap.uriquery \in Seq(Nat)
  BY InputsAssumption DEF TypeOK
<1>2. a \in Seq(Opts) /\ Len(a) \in Nat /\ \A i \in 1 .. Len(a) : a[i].number = URIPATH
  BY <1>1, UriOptions
<1>3. c \in Seq(Opts) /\ Len(c) \in Nat /\ \A i \in 1 .. Len(c) : c[i].number = URIQUERY
  BY <1>1, UriOptions
<1>4. b \in Seq(Opts) /\ Len(b) \in Nat /\ \A i \in 1 .. Len(b) : b[i].number = CONTENTFORMAT
  <2> DEFINE one == <<1>>
  <2>1. one \in Seq(Nat)
    OBVIOUS
  <2> HIDE DEF one
  <2>2. /\ OptionsOf(CONTENTFORMAT, one) \in Seq(Opts) /\ Len(OptionsOf(CONTENTFORMAT, one)) \in Nat
        /\ Len(OptionsOf(CONTENTFORMAT, one)) = Len(one)
        /\ \A i \in 1 .. Len(one) : OptionsOf(CONTENTFORMAT, one)[i].number = CONTENTFORMAT
    BY <2>1, UriOptions
  <2>3. <<>> \in Seq(Opts) /\ Len(<<>>) = 0
    OBVIOUS
  <2>4. CASE coap.contenttype # 0
    BY <2>2, <2>4 DEF TypeOptions, one
  <2>5. CASE coap.contenttype = 0
    BY <2>3, <2>5 DEF TypeOptions
  <2> QED BY <2>4, <2>5
<1>5. Options = (a \o b) \o c
  BY DEF Options, TypeOptions
<1> DEFINE la == Len(a)
           lb == Len(b)
           n == la + lb + Len(c)
<1> HIDE DEF a, b, c
<1>6. /\ a \o b \in Seq(Opts) /\ Len(a \o b) = la + lb
      /\ \A i \in 1 .. la + lb : (a \o b)[i] = IF i <= la THEN a[i] ELSE b[i - la]
  BY <1>2, <1>4, ConcatProperties
<1>7. /\ (a \o b) \o c \in Seq(Opts) /\ Len((a \o b) \o c) = n
      /\ \A i \in 1 .. n : ((a \o b) \o c)[i]
                             = IF i <= la + lb THEN (a \o b)[i] ELSE c[i - (la + lb)]
  <2> DEFINE ab == a \o b
  <2>1. ab \in Seq(Opts) /\ Len(ab) = la + lb
    BY <1>6
  <2> HIDE DEF ab, la, lb
  <2>2. /\ ab \o c \in Seq(Opts) /\ Len(ab \o c) = Len(ab) + Len(c)
        /\ \A i \in 1 .. Len(ab) + Len(c) :
             (ab \o c)[i] = IF i <= Len(ab) THEN ab[i] ELSE c[i - Len(ab)]
    BY <1>3, <2>1, ConcatProperties
  <2> QED BY <2>1, <2>2 DEF ab
<1>8. DOMAIN Options = 1 .. n
  BY <1>5, <1>7
<1>9. \A i \in 1 .. n : Options[i].number = IF i <= la THEN URIPATH
                                            ELSE IF i <= la + lb THEN CONTENTFORMAT ELSE URIQUERY
  <2> TAKE i \in 1 .. n
  <2>0. i \in Nat /\ la \in Nat /\ lb \in Nat /\ Len(c) \in Nat /\ i >= 1 /\ i <= n
    BY <1>2, <1>3, <1>4
  <2>1. CASE i <= la
    <3>1. i \in 1 .. la /\ i \in 1 .. la + lb /\ i <= la + lb
      BY <2>0, <2>1
    <3>2. Options[i] = a[i]
      BY <1>5, <1>6, <1>7, <2>1, <3>1
    <3> QED BY <1>2, <2>1, <3>1, <3>2
  <2>2. CASE ~ (i <= la) /\ i <= la + lb
    <3>1. i - la \in 1 .. lb /\ i \in 1 .. la + lb
      BY <2>0, <2>2
    <3>2. Options[i] = b[i - la]
      BY <1>5, <1>6, <1>7, <2>2, <3>1
    <3> QED BY <1>4, <2>2, <3>1, <3>2
  <2>3. CASE ~ (i <= la + lb)
    <3>1. i - (la + lb) \in 1 .. Len(c) /\ ~ (i <= la)
      BY <2>0, <2>3
    <3>2. Options[i] = c[i - (la + lb)]
      BY <1>5, <1>7, <2>3
    <3> QED BY <1>3, <2>3, <3>1, <3>2
  <2> QED BY <2>1, <2>2, <2>3
<1>10. la \in Nat /\ lb \in Nat /\ n \in Nat
  BY <1>2, <1>3, <1>4
<1> HIDE DEF la, lb, n
<1>11. \A i \in 1 .. n : Options[i].number \in {URIPATH, CONTENTFORMAT, URIQUERY}
  BY <1>9
<1>12. \A i, j \in 1 .. n : i < j => Options[i].number <= Options[j].number
  BY <1>9, <1>10 DEF URIPATH, CONTENTFORMAT, URIQUERY
<1> QED BY <1>8, <1>11, <1>12

(* OptionsDelta is defined by its equation, and fits a byte.               *)
LEMMA DeltasDefined ==
  ASSUME TypeOK
  PROVE  /\ OptionsDelta[0] = 0
         /\ \A k \in 1 .. Len(Options) :
              /\ OptionsDelta[k] \in 0 .. 255
              /\ OptionsDelta[k] = (256 + Options[k].number - OptionsDelta[k - 1]) % 256
<1> DEFINE n == Len(Options)
           number(i) == Options[i].number
           Eq(d) == [i \in 0 .. Len(Options) |->
                       IF i = 0 THEN 0 ELSE (256 + Options[i].number - d[i - 1]) % 256]
           B == 0 .. 255
           step == [c \in (1 .. n) \X (B) |-> (256 + number(c[1]) - c[2]) % 256]
<1>0. 0 \in B
  OBVIOUS
<1>1. n \in Nat /\ \A k \in 1 .. n : number(k) \in {11, 12, 15}
  <2>1. PICK opts \in Seq(Opts) : opts = Options
    BY OptionsForeseen
  <2> QED BY <2>1, OptionsInOrder DEF URIPATH, CONTENTFORMAT, URIQUERY
<1>2. \A x \in {11, 12, 15}, y \in B : (256 + x - y) % 256 \in B
  OBVIOUS
<1> HIDE DEF n, number, B
<1>3. step \in [(1 .. n) \X (B) -> B]
  <2>1. \A c \in (1 .. n) \X (B) : c[1] \in 1 .. n /\ c[2] \in B
    OBVIOUS
  <2>2. \A c \in (1 .. n) \X (B) : (256 + number(c[1]) - c[2]) % 256 \in B
    <3> TAKE c \in (1 .. n) \X (B)
    <3> DEFINE x == number(c[1])
               y == c[2]
    <3>1. x \in {11, 12, 15} /\ y \in B
      BY <1>1, <2>1
    <3> HIDE DEF x, y
    <3>2. (256 + x - y) % 256 \in B
      BY <1>2, <3>1
    <3> QED BY <3>2 DEF x, y
  <2> QED BY <2>2
<1>4. PICK f \in [0 .. n -> B] :
        f[0] = 0 /\ \A k \in 1 .. n : f[k] = step[<<k, f[k - 1]>>]
  <2> HIDE DEF step
  <2>1. Upward(n, B, 0, step) # {}
    BY <1>0, <1>1, <1>3, RecursionUp
  <2> QED BY <2>1 DEF Upward
<1>5. \A k \in 1 .. n : f[k] = (256 + number(k) - f[k - 1]) % 256
  <2> TAKE k \in 1 .. n
  <2>1. k - 1 \in 0 .. n
    BY <1>1
  <2> DEFINE y == f[k - 1]
  <2> HIDE DEF step
  <2>2. y \in B /\ f[k] = step[<<k, y>>]
    BY <1>4, <2>1
  <2> HIDE DEF y
  <2>3. <<k, y>> \in (1 .. n) \X B /\ <<k, y>>[1] = k /\ <<k, y>>[2] = y
    BY <2>2
  <2>4. step[<<k, y>>] = (256 + number(k) - y) % 256
    BY <2>3 DEF step
  <2> QED BY <2>2, <2>4 DEF y
<1>6. f = Eq(f)
  <2> HIDE DEF step
  <2>1. \A k \in 0 .. n : k # 0 => k \in 1 .. n
    BY <1>1
  <2>2. f = [k \in 0 .. n |-> f[k]]
    BY <1>4
  <2> DEFINE e(k) == IF k = 0 THEN 0 ELSE (256 + Options[k].number - f[k - 1]) % 256
  <2>3. \A k \in 0 .. n : f[k] = e(k)
    BY <1>4, <1>5, <2>1, ZenonT(30) DEF number
  <2>4. Eq(f) = [k \in 0 .. n |-> e(k)]
    BY DEF n
  <2> HIDE DEF Eq, e
  <2> QED BY <2>2, <2>3, <2>4
<1> DEFINE u == CHOOSE d : d = Eq(d)
<1>7. u = Eq(u)
  <2> HIDE DEF Eq
  <2> QED BY <1>6
<1>8. OptionsDelta = u
  BY DEF OptionsDelta
<1> HIDE DEF u
<1>9. u[0] = 0 /\ \A k \in 1 .. n : u[k] = (256 + number(k) - u[k - 1]) % 256
  <2>1. 0 \in 0 .. n /\ \A k \in 1 .. n : k \in 0 .. n /\ k # 0
    BY <1>1
  <2> QED BY <1>7, <2>1 DEF n, number
<1>10. \A k \in 0 .. n : u[k] \in B
  <2> DEFINE P == {k \in 0 .. n : u[k] \in B}
  <2>1. 0 \in P
    BY <1>0, <1>1, <1>9
  <2>2. \A k \in P : k < n => k + 1 \in P
    <3> TAKE k \in P
    <3> HAVE k < n
    <3>1. k + 1 \in 1 .. n /\ (k + 1) - 1 = k /\ k + 1 \in 0 .. n
      BY <1>1
    <3>2. u[k + 1] = (256 + number(k + 1) - u[k]) % 256
      BY <1>9, <3>1
    <3>3. u[k + 1] \in B
      <4> DEFINE x == number(k + 1)
                 y == u[k]
      <4>1. x \in {11, 12, 15} /\ y \in B
        BY <1>1, <3>1
      <4> HIDE DEF x, y
      <4>2. (256 + x - y) % 256 \in B
        BY <1>2, <4>1
      <4> QED BY <3>2, <4>2 DEF x, y
    <3> QED BY <3>1, <3>3
  <2>3. P \in SUBSET (0 .. n)
    OBVIOUS
  <2> HIDE DEF P
  <2>4. P = 0 .. n
    BY <1>1, <2>1, <2>2, <2>3, BoundedInduction
  <2> QED BY <2>4 DEF P
<1> QED BY <1>1, <1>8, <1>9, <1>10 DEF n, number, B

(* So is NumberRead.                                                       *)
LEMMA NumbersDefined ==
  ASSUME TypeOK
  PROVE  /\ NumberRead[0] = 0
         /\ \A k \in 1 .. Len(Options) : NumberRead[k] = NumberRead[k - 1] + Put(k).high
<1> DEFINE n == Len(Options)
           high(k) == Put(k).high
           Eq(r) == [k \in 0 .. Len(Options) |-> IF k = 0 THEN 0 ELSE r[k - 1] + Put(k).high]
           step == [c \in (1 .. n) \X Nat |-> c[2] + high(c[1])]
<1>1. n \in Nat
  <2>1. PICK opts \in Seq(Opts) : opts = Options
    BY OptionsForeseen
  <2> QED BY <2>1
<1>2. \A k \in 1 .. n : high(k) \in Nat
  <2> TAKE k \in 1 .. n
  <2>1. OptionsDelta[k] \in 0 .. 255 /\ high(k) = OptionsDelta[k] % 16
    BY DeltasDefined DEF Put
  <2>2. \A d \in 0 .. 255 : d % 16 \in Nat
    OBVIOUS
  <2> HIDE DEF high
  <2> QED BY <2>1, <2>2, Zenon
<1> HIDE DEF n, high
<1>3. step \in [(1 .. n) \X Nat -> Nat]
  BY <1>2
<1>4. PICK f \in [0 .. n -> Nat] : f[0] = 0 /\ \A k \in 1 .. n : f[k] = step[<<k, f[k - 1]>>]
  <2> HIDE DEF step
  <2>1. Upward(n, Nat, 0, step) # {}
    BY <1>1, <1>3, RecursionUp
  <2> QED BY <2>1 DEF Upward
<1>5. \A k \in 1 .. n : f[k] = f[k - 1] + high(k)
  <2> TAKE k \in 1 .. n
  <2>1. k - 1 \in 0 .. n
    BY <1>1
  <2>2. f[k - 1] \in Nat
    BY <1>4, <2>1
  <2> QED BY <1>4, <2>2
<1>6. f = Eq(f)
  <2>1. \A k \in 0 .. n : k # 0 => k \in 1 .. n
    BY <1>1
  <2>2. f = [k \in 0 .. n |-> f[k]]
    BY <1>4
  <2>3. \A k \in 0 .. n : f[k] = IF k = 0 THEN 0 ELSE f[k - 1] + Put(k).high
    BY <1>4, <1>5, <2>1, ZenonT(30) DEF high
  <2> QED BY <2>2, <2>3 DEF n
<1> DEFINE u == CHOOSE r : r = Eq(r)
<1>7. u = Eq(u)
  <2> HIDE DEF Eq
  <2> QED BY <1>6
<1>8. NumberRead = u
  BY DEF NumberRead
<1> HIDE DEF u
<1>9. 0 \in 0 .. n /\ \A k \in 1 .. n : k \in 0 .. n /\ k # 0
  BY <1>1
<1>10. u[0] = 0 /\ \A k \in 1 .. n : u[k] = u[k - 1] + Put(k).high
  BY <1>7, <1>9 DEF n
<1> QED BY <1>8, <1>10 DEF n

(* The first two options of any message are read back as they were set, if *)
(* the first is not a query; the third never is, whatever the strings and  *)
(* the setters called before.                                              *)
THEOREM OptionsAreReadBack == Spec => []OptionsReadBack
<1>1. TypeOK => OptionsReadBack
  <2> SUFFICES ASSUME TypeOK, NEW i \in DOMAIN Options
               PROVE  /\ i <= 2 /\ Head(Options).number # URIQUERY
                           => Put(i).high < 13 /\ NumberRead[i] = Options[i].number
                      /\ i = 3 => NumberRead[i] # Options[i].number
    BY DEF OptionsReadBack
  <2> DEFINE n == Len(Options)
             number(k) == Options[k].number
             high(k) == Put(k).high
             delta(k) == OptionsDelta[k]
             read(k) == NumberRead[k]
  <2>1. /\ n \in Nat /\ DOMAIN Options = 1 .. n
        /\ n # 0 => Head(Options) = Options[1]
    <3>1. PICK opts \in Seq(Opts) : opts = Options
      BY OptionsForeseen
    <3> QED BY <3>1
  <2>2. /\ \A k \in 1 .. n : number(k) \in {11, 12, 15}
        /\ \A j, k \in 1 .. n : j < k => number(j) <= number(k)
    BY <2>1, OptionsInOrder DEF URIPATH, CONTENTFORMAT, URIQUERY
  <2>3. \A k \in 1 .. n : /\ delta(k) = (256 + number(k) - delta(k - 1)) % 256
                          /\ high(k) = delta(k) % 16
                          /\ read(k) = read(k - 1) + high(k)
    BY DeltasDefined, NumbersDefined DEF Put
  <2>4. delta(0) = 0 /\ read(0) = 0
    BY DeltasDefined, NumbersDefined
  <2>5. Head(Options).number = number(1)
    BY <2>1
  <2>6. 1 - 1 = 0 /\ 2 - 1 = 1 /\ 3 - 1 = 2
    OBVIOUS
  <2> DEFINE x == number(1)
             y == number(2)
             z == number(3)
  <2> HIDE DEF n, number, high, delta, read
  <2>7. i \in 1 .. n /\ 1 \in 1 .. n /\ (i # 1 => 2 \in 1 .. n) /\ (i = 3 => 3 \in 1 .. n)
    BY <2>1
  <2>8. /\ x \in {11, 12, 15} /\ delta(1) = (256 + x - 0) % 256 /\ high(1) = delta(1) % 16
        /\ read(1) = 0 + high(1)
    BY <2>2, <2>3, <2>4, <2>6, <2>7
  <2>9. ASSUME i # 1
        PROVE  /\ y \in {11, 12, 15} /\ x <= y
               /\ delta(2) = (256 + y - delta(1)) % 256 /\ high(2) = delta(2) % 16
               /\ read(2) = read(1) + high(2)
    BY <2>2, <2>3, <2>6, <2>7, <2>9
  <2>10. ASSUME i = 3
         PROVE  /\ z \in {11, 12, 15} /\ y <= z
                /\ delta(3) = (256 + z - delta(2)) % 256 /\ high(3) = delta(3) % 16
                /\ read(3) = read(2) + high(3)
    BY <2>2, <2>3, <2>6, <2>7, <2>10
  <2> HIDE DEF x, y, z
  <2>11. delta(1) = x /\ high(1) = x /\ read(1) = x
    BY <2>8
  <2>12. ASSUME i # 1
         PROVE  /\ delta(2) = y - x /\ high(2) = y - x /\ read(2) = y
                /\ high(2) < 13
    <3>1. (x = 11 \/ x = 12 \/ x = 15) /\ (y = 11 \/ y = 12 \/ y = 15) /\ x <= y
      BY <2>8, <2>9, <2>12
    <3>2. (256 + y - x) % 256 = y - x /\ (y - x) % 16 = y - x /\ x + (y - x) = y /\ y - x < 13
      BY <3>1
    <3> QED BY <2>9, <2>11, <2>12, <3>2
  <2>13. ASSUME i = 3 PROVE read(3) # z
    <3>1. /\ x = 11 \/ x = 12 \/ x = 15
          /\ y = 11 \/ y = 12 \/ y = 15
          /\ z = 11 \/ z = 12 \/ z = 15
          /\ x <= y /\ y <= z
      BY <2>8, <2>9, <2>10, <2>13
    <3>2. y + (((256 + z - (y - x)) % 256) % 16) # z
      <4> DEFINE w == z - (y - x)
      <4>1. w \in Nat /\ w < 16 /\ 256 + z - (y - x) = 256 + w /\ y + w # z
        BY <3>1
      <4>2. \A e \in Nat : e < 16 => (256 + e) % 256 = e /\ e % 16 = e
        OBVIOUS
      <4> HIDE DEF w
      <4>3. (256 + w) % 256 = w /\ w % 16 = w
        BY <4>1, <4>2
      <4> QED BY <4>1, <4>3
    <3>3. read(3) = y + (((256 + z - (y - x)) % 256) % 16)
      BY <2>10, <2>12, <2>13
    <3> QED BY <3>2, <3>3
  <2>14. CASE i = 1
    <3>1. Head(Options).number # URIQUERY => x = 11 \/ x = 12
      BY <2>5, <2>8 DEF x, URIQUERY
    <3>2. Put(i).high = x /\ NumberRead[i] = x /\ Options[i].number = x
      BY <2>11, <2>14 DEF x, number, high, read
    <3> QED BY <2>14, <3>1, <3>2
  <2>15. CASE i = 2
    BY <2>12, <2>15 DEF y, number, high, read
  <2>16. CASE i = 3
    BY <2>13, <2>16 DEF z, number, read
  <2>17. CASE i \notin {1, 2, 3}
    <3>1. ~ (i <= 2) /\ i # 3
      BY <2>7, <2>17
    <3> QED BY <3>1
  <2> QED BY <2>14, <2>15, <2>16, <2>17
<1> QED BY <1>1, Invariance, PTL DEF IInv
=============================================================================
