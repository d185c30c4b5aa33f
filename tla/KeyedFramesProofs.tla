------------------------- MODULE KeyedFramesProofs -------------------------
(***************************************************************************)
(* Theorems about KeyedFrames, for every size of a byte and of the fields, *)
(* every set of readers, cards and configurations, and any number of       *)
(* frames, changes to the bytes under way, rotations and restarts.         *)
(***************************************************************************)
EXTENDS KeyedFrames, SequenceTheorems, WellFoundedInduction, TLAPS

-----------------------------------------------------------------------------
(* Little-endian integers.                                                 *)

\* A nonempty set of numbers has a least one.  (Induction over a number is done
\* below by looking at the least counterexample.)
LEMMA LeastNumber ==
    ASSUME NEW T \in SUBSET Nat, T # {}
    PROVE  \E n \in T : \A k \in T : n <= k
<1> DEFINE R == OpToRel(<, Nat)
<1>1. \E n \in T : \A k \in T : ~ (<<k, n>> \in R)
  <2>1. IsWellFoundedOn(R, Nat)
    BY NatLessThanWellFounded
  <2> HIDE DEF R
  <2> QED
    BY <2>1, WFMin
<1>2. \A n, k \in Nat : ~ (<<k, n>> \in R) => n <= k
  BY DEF OpToRel
<1> HIDE DEF R
<1> QED
  BY <1>1, <1>2

\* The base of the digits.
LEMMA BaseType == Base \in Nat /\ Base > 1
  BY CodecAssumption

\* Quotient and remainder.
LEMMA DivMod ==
    ASSUME NEW x \in Nat
    PROVE  /\ x \div Base \in Nat /\ x % Base \in 0..(Base - 1)
           /\ x = Base * (x \div Base) + (x % Base)
  BY BaseType

\* They are the only ones.
LEMMA DivUnique ==
    ASSUME NEW b \in 0..(Base - 1), NEW q \in Nat
    PROVE  (b + Base * q) \div Base = q /\ (b + Base * q) % Base = b
<1> DEFINE x == b + Base * q
           p == x \div Base
           r == x % Base
<1>1. Base * q \in Nat /\ x \in Nat
  BY BaseType
<1>2. p \in Nat /\ r \in 0..(Base - 1) /\ x = Base * p + r
  BY <1>1, DivMod
<1> HIDE DEF p, r
<1>3. p = q
  <2>1. \A m, n \in Nat : m < n => Base * m + Base <= Base * n
    <3> SUFFICES ASSUME NEW m \in Nat, NEW n \in Nat, m < n
                 PROVE  Base * m + Base <= Base * n
      OBVIOUS
    <3>1. PICK d \in Nat : n = m + 1 + d
      <4>1. n - m - 1 \in Nat /\ n = m + 1 + (n - m - 1)
        OBVIOUS
      <4> QED
        BY <4>1
    <3>2. Base * n = Base * m + Base + Base * d
      BY <3>1, BaseType
    <3>3. Base * d \in Nat /\ Base * m \in Nat /\ Base * n \in Nat
      BY BaseType
    <3> QED
      BY <3>2, <3>3, BaseType
  <2>2. Base * p \in Nat /\ Base * q \in Nat
    BY <1>2, BaseType
  <2>3. CASE p < q
    BY <1>1, <1>2, <2>1, <2>2, <2>3, BaseType
  <2>4. CASE q < p
    BY <1>1, <1>2, <2>1, <2>2, <2>4, BaseType
  <2> QED
    BY <1>2, <2>3, <2>4
<1>4. r = b
  <2>1. Base * p = Base * q /\ Base * q \in Nat
    BY <1>1, <1>3
  <2> QED
    BY <1>2, <2>1, BaseType
<1> QED
  BY <1>3, <1>4 DEF p, r

IsShift(v, n, s) == s = [i \in 0..n |-> IF i = 0 THEN v ELSE s[i - 1] \div Base]

\* Shifting is well defined.
LEMMA ShiftExists ==
    ASSUME NEW v, NEW n \in Nat
    PROVE  \E s : IsShift(v, n, s)
<1> DEFINE T == {k \in Nat : ~ \E s : IsShift(v, k, s)}
<1> SUFFICES ASSUME T # {}
             PROVE  FALSE
  OBVIOUS
<1>1. PICK k \in T : \A j \in T : k <= j
  BY LeastNumber
<1>2. CASE k = 0
  <2>1. IsShift(v, 0, [i \in 0..0 |-> v])
    BY DEF IsShift
  <2> QED
    BY <1>1, <1>2, <2>1
<1>3. CASE k # 0
  <2>1. k \in Nat /\ k - 1 \in Nat /\ k - 1 \notin T
    BY <1>1, <1>3
  <2>2. PICK g : IsShift(v, k - 1, g)
    BY <2>1
  <2> DEFINE s == [i \in 0..k |-> IF i < k THEN g[i] ELSE g[k - 1] \div Base]
  <2>3. \A i \in 0..(k - 1) : g[i] = IF i = 0 THEN v ELSE g[i - 1] \div Base
    BY <2>2 DEF IsShift
  <2>4. s[k] = g[k - 1] \div Base /\ \A i \in 0..(k - 1) : s[i] = g[i]
    <3>1. k \in 0..k /\ ~ (k < k) /\ \A i \in 0..(k - 1) : i \in 0..k /\ i < k
      BY <2>1
    <3> QED
      BY <3>1
  <2>5. s = [i \in 0..k |-> s[i]]
    OBVIOUS
  <2> HIDE DEF s
  <2>6. \A i \in 0..k : s[i] = IF i = 0 THEN v ELSE s[i - 1] \div Base
    <3> SUFFICES ASSUME NEW i \in 0..k
                 PROVE  s[i] = IF i = 0 THEN v ELSE s[i - 1] \div Base
      OBVIOUS
    <3>1. i = k \/ i \in 0..(k - 1)
      BY <2>1
    <3>2. i # 0 => i - 1 \in 0..(k - 1)
      BY <2>1
    <3>3. i # 0 => s[i - 1] = g[i - 1]
      BY <2>4, <3>2
    <3> QED
      BY <1>3, <2>3, <2>4, <3>1, <3>3
  <2>7. IsShift(v, k, s)
    BY <2>5, <2>6 DEF IsShift
  <2> QED
    BY <1>1, <2>7
<1> QED
  BY <1>2, <1>3

\* The shift by i bytes drops them one by one.
LEMMA ShiftUnrolls ==
    ASSUME NEW v \in Nat, NEW w \in Nat
    PROVE  /\ Shifted(v, w)[0] = v
           /\ \A i \in 1..w : Shifted(v, w)[i] = Shifted(v, w)[i - 1] \div Base
<1> DEFINE P(s) == s = [i \in 0..w |-> IF i = 0 THEN v ELSE s[i - 1] \div Base]
           c == CHOOSE s : P(s)
<1>1. \E g : P(g)
  BY ShiftExists, ZenonT(40) DEF IsShift
<1>2. Shifted(v, w) = c
  BY DEF Shifted
<1> HIDE DEF P
<1>3. P(c)
  BY <1>1
<1> HIDE DEF c
<1>4. \A i \in 0..w : c[i] = IF i = 0 THEN v ELSE c[i - 1] \div Base
  BY <1>3 DEF P
<1>5. 0 \in 0..w /\ \A i \in 1..w : i \in 0..w /\ i # 0
  OBVIOUS
<1> QED
  BY <1>2, <1>4, <1>5

\* What is left is a number.
LEMMA ShiftType ==
    ASSUME NEW v \in Nat, NEW w \in Nat, NEW i \in 0..w
    PROVE  Shifted(v, w)[i] \in Nat
<1> DEFINE s == Shifted(v, w)
           T == {k \in 0..w : s[k] \notin Nat}
<1>0. s[0] = v /\ \A k \in 1..w : s[k] = s[k - 1] \div Base
  BY ShiftUnrolls
<1> HIDE DEF s
<1> SUFFICES ASSUME T # {}
             PROVE  FALSE
  BY DEF s
<1>1. PICK k \in T : \A j \in T : k <= j
  <2>1. T \in SUBSET Nat
    OBVIOUS
  <2> QED
    BY <2>1, LeastNumber
<1>2. k # 0 /\ k \in 1..w
  BY <1>0, <1>1
<1>3. k - 1 \in 0..w /\ k - 1 \notin T
  BY <1>1, <1>2
<1>4. s[k - 1] \in Nat
  BY <1>3
<1> QED
  BY <1>0, <1>1, <1>2, <1>4, DivMod

\* put_le writes w bytes.
LEMMA PutType ==
    ASSUME NEW v \in Nat, NEW w \in Nat
    PROVE  /\ put_le(v, w) \in Seq(Nat) /\ Len(put_le(v, w)) = w
           /\ \A i \in 1..w : /\ put_le(v, w)[i] \in 0..(Base - 1)
                              /\ put_le(v, w)[i] = Shifted(v, w)[i - 1] % Base
<1>1. \A i \in 1..w : Shifted(v, w)[i - 1] % Base \in 0..(Base - 1)
  <2> SUFFICES ASSUME NEW i \in 1..w
               PROVE  Shifted(v, w)[i - 1] % Base \in 0..(Base - 1)
    OBVIOUS
  <2>1. i - 1 \in 0..w
    OBVIOUS
  <2> QED
    BY <2>1, ShiftType, DivMod
<1> DEFINE p == [i \in 1..w |-> Shifted(v, w)[i - 1] % Base]
<1>2. p \in [1..w -> Nat]
  BY <1>1, BaseType
<1>3. p \in Seq(Nat) /\ Len(p) = w
  BY <1>2, LenProperties
<1> QED
  BY <1>1, <1>3 DEF put_le

IsHorner(bs, at, w, n, h) ==
    h = [j \in 0..n |-> IF j = 0 THEN 0 ELSE bs[at + w - j + 1] + Base * h[j - 1]]

\* Reading is well defined.
LEMMA HornerExists ==
    ASSUME NEW bs, NEW at, NEW w, NEW n \in Nat
    PROVE  \E h : IsHorner(bs, at, w, n, h)
<1> DEFINE T == {k \in Nat : ~ \E h : IsHorner(bs, at, w, k, h)}
           Byte(j) == bs[at + w - j + 1]
<1> SUFFICES ASSUME T # {}
             PROVE  FALSE
  OBVIOUS
<1>1. PICK k \in T : \A j \in T : k <= j
  BY LeastNumber
<1>2. CASE k = 0
  <2>1. IsHorner(bs, at, w, 0, [j \in 0..0 |-> 0])
    BY DEF IsHorner
  <2> QED
    BY <1>1, <1>2, <2>1
<1>3. CASE k # 0
  <2>1. k \in Nat /\ k - 1 \in Nat /\ k - 1 \notin T
    BY <1>1, <1>3
  <2>2. PICK g : IsHorner(bs, at, w, k - 1, g)
    BY <2>1
  <2>3. \A j \in 0..(k - 1) : g[j] = IF j = 0 THEN 0 ELSE Byte(j) + Base * g[j - 1]
    BY <2>2 DEF IsHorner
  <2> HIDE DEF Byte
  <2> DEFINE h == [j \in 0..k |-> IF j < k THEN g[j] ELSE Byte(k) + Base * g[k - 1]]
  <2>4. h[k] = Byte(k) + Base * g[k - 1] /\ \A j \in 0..(k - 1) : h[j] = g[j]
    <3>1. k \in 0..k /\ ~ (k < k) /\ \A j \in 0..(k - 1) : j \in 0..k /\ j < k
      BY <2>1
    <3> QED
      BY <3>1
  <2>5. h = [j \in 0..k |-> h[j]]
    OBVIOUS
  <2> HIDE DEF h
  <2>6. \A j \in 0..k : h[j] = IF j = 0 THEN 0 ELSE Byte(j) + Base * h[j - 1]
    <3> SUFFICES ASSUME NEW j \in 0..k
                 PROVE  h[j] = IF j = 0 THEN 0 ELSE Byte(j) + Base * h[j - 1]
      OBVIOUS
    <3>1. j = k \/ j \in 0..(k - 1)
      BY <2>1
    <3>2. j # 0 => j - 1 \in 0..(k - 1)
      BY <2>1
    <3>3. j # 0 => h[j - 1] = g[j - 1]
      BY <2>4, <3>2
    <3> QED
      BY <1>3, <2>3, <2>4, <3>1, <3>3
  <2>7. IsHorner(bs, at, w, k, h)
    BY <2>5, <2>6 DEF IsHorner, Byte
  <2> QED
    BY <1>1, <2>7
<1> QED
  BY <1>2, <1>3

\* get_le adds its bytes up from the highest to the lowest.
LEMMA GetUnrolls ==
    ASSUME NEW bs, NEW at, NEW w \in Nat
    PROVE  \E h : /\ get_le(bs, at, w) = h[w] /\ h[0] = 0
                  /\ \A j \in 1..w : h[j] = bs[at + w - j + 1] + Base * h[j - 1]
<1> DEFINE P(h) == h = [j \in 0..w |-> IF j = 0 THEN 0 ELSE bs[at + w - j + 1] + Base * h[j - 1]]
           c == CHOOSE h : P(h)
<1>1. \E g : P(g)
  <2>1. PICK g : IsHorner(bs, at, w, w, g)
    BY HornerExists
  <2>2. P(g)
    BY <2>1 DEF IsHorner
  <2> HIDE DEF P
  <2> QED
    BY <2>2
<1>2. get_le(bs, at, w) = c[w]
  BY DEF get_le
<1> HIDE DEF P
<1>3. P(c)
  BY <1>1
<1> HIDE DEF c
<1>4. \A j \in 0..w : c[j] = IF j = 0 THEN 0 ELSE bs[at + w - j + 1] + Base * c[j - 1]
  BY <1>3 DEF P
<1>5. 0 \in 0..w /\ \A i \in 1..w : i \in 0..w /\ i # 0
  OBVIOUS
<1> QED
  BY <1>2, <1>4, <1>5

\* Every position of a field, counted from its end.
LEMMA FromTheEnd ==
    ASSUME NEW at \in Nat, NEW w \in Nat, NEW j \in 1..w
    PROVE  /\ w - j \in 0..w /\ w - j + 1 \in 1..w /\ at + w - j + 1 = at + (w - j + 1)
           /\ j - 1 \in 0..w /\ j \in 0..w
  OBVIOUS

\* What is read from bytes is a number that fits, and writing it gives the bytes
\* back: the header a frame handler parses is the header on the wire.
LEMMA PutGet ==
    ASSUME NEW bs, NEW at \in Nat, NEW w \in Nat,
           \A i \in 1..w : bs[at + i] \in 0..(Base - 1)
    PROVE  /\ get_le(bs, at, w) \in Nat /\ Fits(get_le(bs, at, w), w)
           /\ \A i \in 1..w : put_le(get_le(bs, at, w), w)[i] = bs[at + i]
<1>1. PICK h : /\ get_le(bs, at, w) = h[w] /\ h[0] = 0
               /\ \A j \in 1..w : h[j] = bs[at + w - j + 1] + Base * h[j - 1]
  BY GetUnrolls
<1>2. \A j \in 1..w : h[j] = bs[at + (w - j + 1)] + Base * h[j - 1]
                      /\ bs[at + (w - j + 1)] \in 0..(Base - 1)
  <2> SUFFICES ASSUME NEW j \in 1..w
               PROVE  h[j] = bs[at + (w - j + 1)] + Base * h[j - 1]
                      /\ bs[at + (w - j + 1)] \in 0..(Base - 1)
    OBVIOUS
  <2>1. w - j + 1 \in 1..w /\ at + w - j + 1 = at + (w - j + 1)
    BY FromTheEnd
  <2> QED
    BY <1>1, <2>1
<1>3. ASSUME NEW j \in 0..w
      PROVE  h[j] \in Nat
  <2> DEFINE T == {k \in 0..w : h[k] \notin Nat}
  <2> SUFFICES ASSUME T # {}
               PROVE  FALSE
    OBVIOUS
  <2>1. PICK k \in T : \A i \in T : k <= i
    <3>1. T \in SUBSET Nat
      OBVIOUS
    <3> QED
      BY <3>1, LeastNumber
  <2>2. k # 0 /\ k \in 1..w
    BY <1>1, <2>1
  <2>3. k - 1 \in 0..w /\ k - 1 \notin T
    BY <2>1, <2>2
  <2>4. h[k - 1] \in Nat
    BY <2>3
  <2>5. Base * h[k - 1] \in Nat
    BY <2>4, BaseType
  <2> QED
    BY <1>2, <2>1, <2>2, <2>5, BaseType
<1>4. \A j \in 1..w : h[j] \div Base = h[j - 1] /\ h[j] % Base = bs[at + (w - j + 1)]
  <2> SUFFICES ASSUME NEW j \in 1..w
               PROVE  h[j] \div Base = h[j - 1] /\ h[j] % Base = bs[at + (w - j + 1)]
    OBVIOUS
  <2>1. j - 1 \in 0..w
    BY FromTheEnd
  <2> QED
    BY <1>2, <1>3, <2>1, DivUnique
<1> DEFINE s == Shifted(h[w], w)
<1>5. h[w] \in Nat
  BY <1>3
<1>6. s[0] = h[w] /\ \A i \in 1..w : s[i] = s[i - 1] \div Base
  BY <1>5, ShiftUnrolls
<1>7. \A i \in 1..w : put_le(h[w], w)[i] = s[i - 1] % Base
  BY <1>5, PutType
<1> HIDE DEF s
<1>8. ASSUME NEW i \in 0..w
      PROVE  s[i] = h[w - i]
  <2> DEFINE T == {k \in 0..w : s[k] # h[w - k]}
  <2> SUFFICES ASSUME T # {}
               PROVE  FALSE
    OBVIOUS
  <2>1. PICK k \in T : \A j \in T : k <= j
    <3>1. T \in SUBSET Nat
      OBVIOUS
    <3> QED
      BY <3>1, LeastNumber
  <2>2. w - 0 = w
    OBVIOUS
  <2>3. k # 0 /\ k \in 1..w
    BY <1>6, <2>1, <2>2
  <2>4. k - 1 \in 0..w /\ k - 1 \notin T /\ w - (k - 1) \in 1..w /\ w - (k - 1) - 1 = w - k
    BY <2>1, <2>3
  <2>5. s[k - 1] = h[w - (k - 1)]
    BY <2>4
  <2>6. h[w - (k - 1)] \div Base = h[w - k]
    BY <1>4, <2>4
  <2> QED
    BY <1>6, <2>1, <2>3, <2>5, <2>6
<1>9. \A i \in 1..w : put_le(h[w], w)[i] = bs[at + i]
  <2> SUFFICES ASSUME NEW i \in 1..w
               PROVE  put_le(h[w], w)[i] = bs[at + i]
    OBVIOUS
  <2>1. i - 1 \in 0..w /\ w - (i - 1) \in 1..w /\ w - (w - (i - 1)) + 1 = i
    OBVIOUS
  <2>2. s[i - 1] = h[w - (i - 1)]
    BY <1>8, <2>1
  <2>3. h[w - (i - 1)] % Base = bs[at + i]
    BY <1>4, <2>1
  <2> QED
    BY <1>7, <2>2, <2>3
<1>10. Fits(h[w], w)
  <2>1. w \in 0..w /\ w - w = 0
    OBVIOUS
  <2>2. s[w] = 0
    BY <1>1, <1>8, <2>1
  <2> QED
    BY <2>2 DEF Fits, s
<1> QED
  BY <1>1, <1>5, <1>9, <1>10

\* A value that fits is read back as it was written.
LEMMA GetPut ==
    ASSUME NEW v \in Nat, NEW w \in Nat, Fits(v, w), NEW bs, NEW at \in Nat,
           \A i \in 1..w : bs[at + i] = put_le(v, w)[i]
    PROVE  get_le(bs, at, w) = v
<1> DEFINE s == Shifted(v, w)
<1>1. PICK h : /\ get_le(bs, at, w) = h[w] /\ h[0] = 0
               /\ \A j \in 1..w : h[j] = bs[at + w - j + 1] + Base * h[j - 1]
  BY GetUnrolls
<1>2. /\ s[0] = v /\ \A i \in 1..w : s[i] = s[i - 1] \div Base
      /\ \A i \in 0..w : s[i] \in Nat
      /\ \A i \in 1..w : put_le(v, w)[i] = s[i - 1] % Base
      /\ s[w] = 0
  <2>1. s[0] = v /\ \A i \in 1..w : s[i] = s[i - 1] \div Base
    BY ShiftUnrolls
  <2>2. \A i \in 0..w : s[i] \in Nat
    BY ShiftType
  <2>3. \A i \in 1..w : put_le(v, w)[i] = s[i - 1] % Base
    BY PutType
  <2>4. s[w] = 0
    BY DEF Fits
  <2> QED
    BY <2>1, <2>2, <2>3, <2>4
<1> HIDE DEF s
<1>3. \A j \in 1..w : h[j] = (s[w - j] % Base) + Base * h[j - 1]
  <2> SUFFICES ASSUME NEW j \in 1..w
               PROVE  h[j] = (s[w - j] % Base) + Base * h[j - 1]
    OBVIOUS
  <2>1. w - j + 1 \in 1..w /\ at + w - j + 1 = at + (w - j + 1) /\ w - j + 1 - 1 = w - j
    OBVIOUS
  <2>2. bs[at + (w - j + 1)] = put_le(v, w)[w - j + 1]
    BY <2>1
  <2>3. put_le(v, w)[w - j + 1] = s[w - j] % Base
    BY <1>2, <2>1
  <2> QED
    BY <1>1, <2>1, <2>2, <2>3
<1>4. ASSUME NEW j \in 0..w
      PROVE  h[j] = s[w - j]
  <2> DEFINE T == {k \in 0..w : h[k] # s[w - k]}
  <2> SUFFICES ASSUME T # {}
               PROVE  FALSE
    OBVIOUS
  <2>1. PICK k \in T : \A i \in T : k <= i
    <3>1. T \in SUBSET Nat
      OBVIOUS
    <3> QED
      BY <3>1, LeastNumber
  <2>2. w - 0 = w
    OBVIOUS
  <2>3. k # 0 /\ k \in 1..w
    BY <1>1, <1>2, <2>1, <2>2
  <2>4. /\ k - 1 \in 0..w /\ k - 1 \notin T /\ w - k \in 0..w /\ w - (k - 1) \in 1..w
        /\ w - (k - 1) - 1 = w - k
    BY <2>1, <2>3
  <2>5. h[k - 1] = s[w - (k - 1)] /\ s[w - (k - 1)] = s[w - k] \div Base
    BY <1>2, <2>4
  <2>6. h[k] = (s[w - k] % Base) + Base * (s[w - k] \div Base)
    BY <1>3, <2>3, <2>5
  <2>7. s[w - k] = Base * (s[w - k] \div Base) + (s[w - k] % Base)
    BY <1>2, <2>4, DivMod
  <2>8. s[w - k] \div Base \in Nat /\ s[w - k] % Base \in Nat
    BY <1>2, <2>4, DivMod, BaseType
  <2>9. Base * (s[w - k] \div Base) \in Nat
    BY <2>8, BaseType
  <2> HIDE DEF T
  <2>10. h[k] = s[w - k]
    BY <2>6, <2>7, <2>8, <2>9
  <2> QED
    BY <2>1, <2>10 DEF T
<1>5. w \in 0..w /\ w - w = 0
  OBVIOUS
<1> QED
  BY <1>1, <1>2, <1>4, <1>5

\* Values that fit are told apart by their bytes.
LEMMA PutInjective ==
    ASSUME NEW u \in Nat, NEW v \in Nat, NEW w \in Nat, Fits(u, w), Fits(v, w),
           put_le(u, w) = put_le(v, w)
    PROVE  u = v
<1> DEFINE bs == put_le(u, w)
<1>1. \A i \in 1..w : bs[0 + i] = put_le(u, w)[i] /\ bs[0 + i] = put_le(v, w)[i]
  <2>1. \A i \in 1..w : 0 + i = i
    OBVIOUS
  <2> QED
    BY <2>1
<1> HIDE DEF bs
<1>2. get_le(bs, 0, w) = u
  BY <1>1, GetPut
<1>3. get_le(bs, 0, w) = v
  BY <1>1, GetPut
<1> QED
  BY <1>2, <1>3
-----------------------------------------------------------------------------
(* Byte strings: what serialize and to_bytes put where.                    *)

\* The sizes are positive numbers.
LEMMA Sizes ==
    /\ U32 \in Nat /\ U32 > 0 /\ U64 \in Nat /\ U64 > 0 /\ TagSize \in Nat /\ TagSize > 0
    /\ NonceSize \in Nat /\ NonceSize > 1
    /\ Magic \in Seq(Nat) /\ Len(Magic) \in Nat
    /\ Version \in Nat /\ Version \in 0..(Base - 1)
  BY CodecAssumption

\* Where the fields start.
LEMMA Places ==
    /\ ReaderAt \in Nat /\ DoorAt \in Nat /\ TsAt \in Nat /\ SeqAt \in Nat /\ KvAt \in Nat
    /\ NonceAt \in Nat /\ CtLenAt \in Nat /\ CtAt \in Nat
    /\ ReaderAt = Len(Magic) + 1 /\ DoorAt = ReaderAt + U32 /\ TsAt = DoorAt + U32
    /\ SeqAt = TsAt + U64 /\ KvAt = SeqAt + U64 /\ NonceAt = KvAt + U32
    /\ CtLenAt = NonceAt + NonceSize /\ CtAt = CtLenAt + U32
  BY Sizes DEF ReaderAt, DoorAt, TsAt, SeqAt, KvAt, NonceAt, CtLenAt, CtAt

\* The order of the fields, in a string that has room for them.
LEMMA PlacesOrder ==
    ASSUME NEW len \in Nat, CtAt + TagSize <= len
    PROVE  /\ ReaderAt + U32 <= NonceAt /\ DoorAt + U32 <= NonceAt /\ TsAt + U64 <= NonceAt
           /\ SeqAt + U64 <= NonceAt /\ KvAt + U32 <= NonceAt
           /\ DoorAt >= ReaderAt /\ TsAt >= ReaderAt /\ SeqAt >= ReaderAt /\ KvAt >= ReaderAt
           /\ CtLenAt + U32 <= CtAt
           /\ Len(Magic) + 1 <= len /\ NonceAt <= len /\ NonceAt + NonceSize <= len /\ CtAt <= len
<1> DEFINE a == ReaderAt   b == DoorAt   c == TsAt   d == SeqAt   e == KvAt   f == NonceAt
           g == CtLenAt    k == CtAt     m == Len(Magic)
<1>1. /\ a \in Nat /\ b \in Nat /\ c \in Nat /\ d \in Nat /\ e \in Nat /\ f \in Nat /\ g \in Nat
      /\ k \in Nat /\ m \in Nat /\ U32 \in Nat /\ U64 \in Nat /\ NonceSize \in Nat /\ TagSize \in Nat
      /\ a = m + 1
  BY Places, Sizes
<1>2. b = a + U32 /\ c = b + U32 /\ d = c + U64 /\ e = d + U64 /\ f = e + U32
  BY Places
<1>3. g = f + NonceSize /\ k = g + U32 /\ k + TagSize <= len
  BY Places
<1> HIDE DEF a, b, c, d, e, f, g, k, m
<1>4. a <= b /\ a <= c /\ a <= d /\ a <= e
  BY <1>1, <1>2
<1>5. e <= f /\ d <= f /\ c <= f /\ b <= f
  BY <1>1, <1>2
<1>6. f <= g /\ g <= k /\ k <= len
  BY <1>1, <1>3
<1>7. f <= len /\ g <= len /\ a <= len
  BY <1>1, <1>4, <1>5, <1>6
<1>8. /\ a + U32 <= f /\ b + U32 <= f /\ c + U64 <= f /\ d + U64 <= f /\ e + U32 <= f
      /\ g + U32 <= k /\ f + NonceSize <= len /\ m + 1 <= len
  BY <1>1, <1>2, <1>3, <1>5, <1>7
<1>9. b >= a /\ c >= a /\ d >= a /\ e >= a
  BY <1>1, <1>4
<1> QED
  BY <1>6, <1>7, <1>8, <1>9 DEF a, b, c, d, e, f, g, k, m

\* A concatenation, position by position.
LEMMA ConcatAt ==
    ASSUME NEW a \in Seq(Nat), NEW x \in Seq(Nat)
    PROVE  /\ a \o x \in Seq(Nat) /\ Len(a \o x) = Len(a) + Len(x)
           /\ Len(a) \in Nat /\ Len(x) \in Nat
           /\ \A k \in 1..Len(a) : (a \o x)[k] = a[k]
           /\ \A k \in 1..Len(x) : (a \o x)[Len(a) + k] = x[k]
<1>1. Len(a) \in Nat /\ Len(x) \in Nat
  OBVIOUS
<1>2. /\ a \o x \in Seq(Nat) /\ Len(a \o x) = Len(a) + Len(x)
      /\ \A k \in 1..(Len(a) + Len(x)) :
             (a \o x)[k] = IF k <= Len(a) THEN a[k] ELSE x[k - Len(a)]
  BY ConcatProperties
<1>3. \A k \in 1..Len(a) : k \in 1..(Len(a) + Len(x)) /\ k <= Len(a)
  BY <1>1
<1>4. \A k \in 1..Len(x) : /\ Len(a) + k \in 1..(Len(a) + Len(x)) /\ ~ (Len(a) + k <= Len(a))
                           /\ Len(a) + k - Len(a) = k
  BY <1>1
<1> QED
  BY <1>1, <1>2, <1>3, <1>4

\* Strings of the same length with the same bytes are the same.
LEMMA SameBytes ==
    ASSUME NEW a \in Seq(Nat), NEW b \in Seq(Nat), Len(a) = Len(b),
           \A k \in 1..Len(a) : a[k] = b[k]
    PROVE  a = b
  BY SeqEqual

\* A concatenation whose last part has a fixed length is taken apart in one way.
LEMMA ConcatSplit ==
    ASSUME NEW a \in Seq(Nat), NEW b \in Seq(Nat), NEW x \in Seq(Nat), NEW y \in Seq(Nat),
           Len(x) = Len(y), a \o x = b \o y
    PROVE  a = b
<1>1. /\ Len(a \o x) = Len(a) + Len(x) /\ Len(a) \in Nat /\ Len(x) \in Nat
      /\ \A k \in 1..Len(a) : (a \o x)[k] = a[k]
  BY ConcatAt
<1>2. /\ Len(b \o y) = Len(b) + Len(y) /\ Len(b) \in Nat
      /\ \A k \in 1..Len(b) : (b \o y)[k] = b[k]
  BY ConcatAt
<1>3. Len(a) = Len(b)
  <2>1. Len(a) + Len(x) = Len(b) + Len(x)
    BY <1>1, <1>2
  <2> QED
    BY <1>1, <1>2, <2>1
<1> QED
  BY <1>1, <1>2, <1>3, SameBytes

\* The last parts are the same.
LEMMA ConcatSplitLast ==
    ASSUME NEW a \in Seq(Nat), NEW b \in Seq(Nat), NEW x \in Seq(Nat), NEW y \in Seq(Nat),
           Len(x) = Len(y), a \o x = b \o y
    PROVE  x = y
<1>1. \A k \in 1..Len(x) : (a \o x)[Len(a) + k] = x[k]
  BY ConcatAt
<1>2. \A k \in 1..Len(y) : (b \o y)[Len(b) + k] = y[k]
  BY ConcatAt
<1>3. a = b
  BY ConcatSplit
<1> QED
  BY <1>1, <1>2, <1>3, SameBytes, SMTT(30)

\* q starts with p.
StartsWith(q, p) ==
    /\ p \in Seq(Nat) /\ q \in Seq(Nat) /\ Len(p) <= Len(q)
    /\ \A k \in 1..Len(p) : q[k] = p[k]

\* The w bytes of bs after the first at are those of f.
Has(bs, at, f, w) == \A i \in 1..w : bs[at + i] = f[i]

\* The lengths add up.
LEMMA Grows ==
    ASSUME NEW p \in Seq(Nat), NEW f \in Seq(Nat), NEW n, NEW w, Len(p) = n, Len(f) = w
    PROVE  p \o f \in Seq(Nat) /\ Len(p \o f) = n + w
  BY ConcatAt

\* A string that starts with a prefix and a field starts with the prefix ...
LEMMA StartBefore ==
    ASSUME NEW q, NEW p \in Seq(Nat), NEW f \in Seq(Nat), StartsWith(q, p \o f)
    PROVE  StartsWith(q, p)
<1>1. /\ Len(p \o f) = Len(p) + Len(f) /\ Len(p) \in Nat /\ Len(f) \in Nat
      /\ \A k \in 1..Len(p) : (p \o f)[k] = p[k]
  BY ConcatAt
<1>2. q \in Seq(Nat) /\ Len(q) \in Nat /\ Len(p \o f) <= Len(q)
      /\ \A k \in 1..Len(p \o f) : q[k] = (p \o f)[k]
  BY SMTT(30) DEF StartsWith
<1>3. \A k \in 1..Len(p) : k \in 1..Len(p \o f)
  BY <1>1
<1>4. \A k \in 1..Len(p) : q[k] = p[k]
  BY <1>1, <1>2, <1>3
<1>5. Len(p) <= Len(q)
  BY <1>1, <1>2
<1> QED
  BY <1>2, <1>4, <1>5 DEF StartsWith

\* ... and has the field after it.
LEMMA FieldAfter ==
    ASSUME NEW q, NEW p \in Seq(Nat), NEW f \in Seq(Nat), StartsWith(q, p \o f),
           NEW n, NEW w, Len(p) = n, Len(f) = w
    PROVE  Has(q, n, f, w)
<1>1. /\ Len(p \o f) = Len(p) + Len(f) /\ Len(p) \in Nat /\ Len(f) \in Nat
      /\ \A k \in 1..Len(f) : (p \o f)[Len(p) + k] = f[k]
  BY ConcatAt
<1>2. \A k \in 1..Len(p \o f) : q[k] = (p \o f)[k]
  BY DEF StartsWith
<1>3. \A k \in 1..Len(f) : Len(p) + k \in 1..Len(p \o f)
  BY <1>1
<1>4. \A i \in 1..Len(f) : q[Len(p) + i] = f[i]
  BY <1>1, <1>2, <1>3
<1> QED
  BY <1>4 DEF Has

\* Strings that have the same field agree on its bytes.
LEMMA SameField ==
    ASSUME NEW bs, NEW cs, NEW f, NEW at \in Nat, NEW w \in Nat,
           Has(bs, at, f, w), Has(cs, at, f, w), NEW k \in Nat, k > at, k <= at + w
    PROVE  bs[k] = cs[k]
<1>1. k - at \in 1..w /\ at + (k - at) = k
  OBVIOUS
<1> QED
  BY <1>1 DEF Has

HeaderType ==
    [reader_id : Nat, door_id : Nat, ts_unix_ms : Nat, seq : Nat, key_version : Nat,
     nonce : [1..NonceSize -> Nat]]

\* Every field of the header fits its place.
HeaderFits(h) ==
    /\ Fits(h.reader_id, U32) /\ Fits(h.door_id, U32) /\ Fits(h.ts_unix_ms, U64)
    /\ Fits(h.seq, U64) /\ Fits(h.key_version, U32)

\* The bytes of each field.
LEMMA FieldTypes ==
    ASSUME NEW h \in HeaderType
    PROVE  /\ put_le(h.reader_id, U32) \in Seq(Nat) /\ Len(put_le(h.reader_id, U32)) = U32
           /\ put_le(h.door_id, U32) \in Seq(Nat) /\ Len(put_le(h.door_id, U32)) = U32
           /\ put_le(h.ts_unix_ms, U64) \in Seq(Nat) /\ Len(put_le(h.ts_unix_ms, U64)) = U64
           /\ put_le(h.seq, U64) \in Seq(Nat) /\ Len(put_le(h.seq, U64)) = U64
           /\ put_le(h.key_version, U32) \in Seq(Nat) /\ Len(put_le(h.key_version, U32)) = U32
           /\ h.nonce \in Seq(Nat) /\ Len(h.nonce) = NonceSize
<1>1. /\ h.reader_id \in Nat /\ h.door_id \in Nat /\ h.ts_unix_ms \in Nat /\ h.seq \in Nat
      /\ h.key_version \in Nat /\ h.nonce \in [1..NonceSize -> Nat]
  BY DEF HeaderType
<1>2. h.nonce \in Seq(Nat) /\ Len(h.nonce) = NonceSize
  BY <1>1, Sizes, LenProperties, SMTT(30)
<1> QED
  BY <1>1, <1>2, Sizes, PutType

\* to_bytes writes every field: headers with the same bytes have the same bytes
\* field by field.
LEMMA ToBytesSame ==
    ASSUME NEW h \in HeaderType, NEW g \in HeaderType, to_bytes(h) = to_bytes(g)
    PROVE  /\ put_le(h.reader_id, U32) = put_le(g.reader_id, U32)
           /\ put_le(h.door_id, U32) = put_le(g.door_id, U32)
           /\ put_le(h.ts_unix_ms, U64) = put_le(g.ts_unix_ms, U64)
           /\ put_le(h.seq, U64) = put_le(g.seq, U64)
           /\ put_le(h.key_version, U32) = put_le(g.key_version, U32)
           /\ h.nonce = g.nonce
<1> DEFINE a1 == put_le(h.reader_id, U32)    b1 == put_le(g.reader_id, U32)
           a2 == put_le(h.door_id, U32)      b2 == put_le(g.door_id, U32)
           a3 == put_le(h.ts_unix_ms, U64)   b3 == put_le(g.ts_unix_ms, U64)
           a4 == put_le(h.seq, U64)          b4 == put_le(g.seq, U64)
           a5 == put_le(h.key_version, U32)  b5 == put_le(g.key_version, U32)
           a6 == h.nonce                     b6 == g.nonce
<1>1. /\ a1 \in Seq(Nat) /\ a2 \in Seq(Nat) /\ a3 \in Seq(Nat) /\ a4 \in Seq(Nat)
      /\ a5 \in Seq(Nat) /\ a6 \in Seq(Nat)
      /\ b1 \in Seq(Nat) /\ b2 \in Seq(Nat) /\ b3 \in Seq(Nat) /\ b4 \in Seq(Nat)
      /\ b5 \in Seq(Nat) /\ b6 \in Seq(Nat)
      /\ Len(a1) = Len(b1) /\ Len(a2) = Len(b2) /\ Len(a3) = Len(b3) /\ Len(a4) = Len(b4)
      /\ Len(a5) = Len(b5) /\ Len(a6) = Len(b6)
  BY FieldTypes
<1> DEFINE p2 == a1 \o a2   p3 == p2 \o a3   p4 == p3 \o a4   p5 == p4 \o a5
           q2 == b1 \o b2   q3 == q2 \o b3   q4 == q3 \o b4   q5 == q4 \o b5
<1>2. p5 \o a6 = q5 \o b6
  BY DEF to_bytes
<1> HIDE DEF a1, a2, a3, a4, a5, a6, b1, b2, b3, b4, b5, b6
<1>3. p2 \in Seq(Nat) /\ q2 \in Seq(Nat)
  BY <1>1, ConcatAt
<1> HIDE DEF p2, q2
<1>4. p3 \in Seq(Nat) /\ q3 \in Seq(Nat)
  BY <1>1, <1>3, ConcatAt
<1> HIDE DEF p3, q3
<1>5. p4 \in Seq(Nat) /\ q4 \in Seq(Nat)
  BY <1>1, <1>4, ConcatAt
<1> HIDE DEF p4, q4
<1>6. p5 \in Seq(Nat) /\ q5 \in Seq(Nat)
  BY <1>1, <1>5, ConcatAt
<1> HIDE DEF p5, q5
<1>7. p5 = q5 /\ a6 = b6
  <2>1. p5 = q5
    BY <1>1, <1>2, <1>6, ConcatSplit
  <2>2. a6 = b6
    BY <1>1, <1>2, <1>6, ConcatSplitLast
  <2> QED
    BY <2>1, <2>2
<1>8. p4 = q4 /\ a5 = b5
  <2>1. p4 = q4
    BY <1>1, <1>7, <1>5, ConcatSplit DEF p5, q5
  <2>2. a5 = b5
    BY <1>1, <1>7, <1>5, ConcatSplitLast DEF p5, q5
  <2> QED
    BY <2>1, <2>2
<1>9. p3 = q3 /\ a4 = b4
  <2>1. p3 = q3
    BY <1>1, <1>8, <1>4, ConcatSplit DEF p4, q4
  <2>2. a4 = b4
    BY <1>1, <1>8, <1>4, ConcatSplitLast DEF p4, q4
  <2> QED
    BY <2>1, <2>2
<1>10. p2 = q2 /\ a3 = b3
  <2>1. p2 = q2
    BY <1>1, <1>9, <1>3, ConcatSplit DEF p3, q3
  <2>2. a3 = b3
    BY <1>1, <1>9, <1>3, ConcatSplitLast DEF p3, q3
  <2> QED
    BY <2>1, <2>2
<1>11. a1 = b1 /\ a2 = b2
  <2>1. a1 = b1
    BY <1>1, <1>10, ConcatSplit DEF p2, q2
  <2>2. a2 = b2
    BY <1>1, <1>10, ConcatSplitLast DEF p2, q2
  <2> QED
    BY <2>1, <2>2
<1> QED
  BY <1>7, <1>8, <1>9, <1>10, <1>11 DEF a1, a2, a3, a4, a5, a6, b1, b2, b3, b4, b5, b6

\* A header is never written as nothing.
LEMMA ToBytesSome ==
    ASSUME NEW h \in HeaderType
    PROVE  to_bytes(h) # << >>
<1> DEFINE p == put_le(h.reader_id, U32) \o put_le(h.door_id, U32) \o put_le(h.ts_unix_ms, U64)
                \o put_le(h.seq, U64) \o put_le(h.key_version, U32)
<1>1. p \in Seq(Nat)
  BY FieldTypes, ConcatAt
<1>2. to_bytes(h) = p \o h.nonce
  BY DEF to_bytes
<1> HIDE DEF p
<1>3. Len(p \o h.nonce) = Len(p) + NonceSize /\ Len(p) \in Nat
  BY <1>1, FieldTypes, ConcatAt
<1>4. Len(p \o h.nonce) # 0
  BY <1>3, Sizes
<1> QED
  BY <1>2, <1>4

\* bs is the frame with this header, ciphertext and tag.
IsFrame(bs, h, ct, tag) ==
    /\ bs \in Seq(Nat) /\ Len(bs) = CtAt + Len(ct) + TagSize
    /\ Has(bs, 0, Magic, Len(Magic)) /\ Has(bs, Len(Magic), <<Version>>, 1)
    /\ Has(bs, ReaderAt, put_le(h.reader_id, U32), U32)
    /\ Has(bs, DoorAt, put_le(h.door_id, U32), U32)
    /\ Has(bs, TsAt, put_le(h.ts_unix_ms, U64), U64)
    /\ Has(bs, SeqAt, put_le(h.seq, U64), U64)
    /\ Has(bs, KvAt, put_le(h.key_version, U32), U32)
    /\ Has(bs, NonceAt, h.nonce, NonceSize)
    /\ Has(bs, CtLenAt, put_le(Len(ct), U32), U32)
    /\ Has(bs, CtAt, ct, Len(ct))
    /\ Has(bs, CtAt + Len(ct), tag, TagSize)

\* serialize writes that frame.
LEMMA SerializeLayout ==
    ASSUME NEW h \in HeaderType, NEW ct \in Seq(Nat), NEW tag \in Seq(Nat), Len(tag) = TagSize
    PROVE  IsFrame(serialize([header |-> h, ct |-> ct, tag |-> tag]), h, ct, tag)
<1> DEFINE f1 == put_le(h.reader_id, U32)
           f2 == put_le(h.door_id, U32)
           f3 == put_le(h.ts_unix_ms, U64)
           f4 == put_le(h.seq, U64)
           f5 == put_le(h.key_version, U32)
           f6 == h.nonce
           f7 == put_le(Len(ct), U32)
           p0 == Magic \o <<Version>>
           p1 == p0 \o f1   p2 == p1 \o f2   p3 == p2 \o f3   p4 == p3 \o f4   p5 == p4 \o f5
           p6 == p5 \o f6   p7 == p6 \o f7   p8 == p7 \o ct   p9 == p8 \o tag
<1>0. Len(ct) \in Nat
  OBVIOUS
<1>1. /\ f1 \in Seq(Nat) /\ Len(f1) = U32 /\ f2 \in Seq(Nat) /\ Len(f2) = U32
      /\ f3 \in Seq(Nat) /\ Len(f3) = U64 /\ f4 \in Seq(Nat) /\ Len(f4) = U64
      /\ f5 \in Seq(Nat) /\ Len(f5) = U32 /\ f6 \in Seq(Nat) /\ Len(f6) = NonceSize
  BY FieldTypes
<1>2. f7 \in Seq(Nat) /\ Len(f7) = U32
  BY <1>0, Sizes, PutType
<1>3. serialize([header |-> h, ct |-> ct, tag |-> tag]) = p9
  BY DEF serialize
<1>4. <<Version>> \in Seq(Nat) /\ Len(<<Version>>) = 1 /\ <<Version>>[1] = Version
  BY Sizes
<1> HIDE DEF f1, f2, f3, f4, f5, f6, f7
<1>5. p0 \in Seq(Nat) /\ Len(p0) = ReaderAt
  <2>1. p0 \in Seq(Nat) /\ Len(p0) = Len(Magic) + 1
    BY Sizes, <1>4, Grows
  <2> QED
    BY <2>1, Places
<1> HIDE DEF p0
<1>6. p1 \in Seq(Nat) /\ Len(p1) = DoorAt
  <2>1. p1 \in Seq(Nat) /\ Len(p1) = ReaderAt + U32
    BY <1>1, <1>5, Grows, SMTT(30)
  <2> QED
    BY <2>1, Places
<1> HIDE DEF p1
<1>7. p2 \in Seq(Nat) /\ Len(p2) = TsAt
  <2>1. p2 \in Seq(Nat) /\ Len(p2) = DoorAt + U32
    BY <1>1, <1>6, Grows, SMTT(30)
  <2> QED
    BY <2>1, Places
<1> HIDE DEF p2
<1>8. p3 \in Seq(Nat) /\ Len(p3) = SeqAt
  <2>1. p3 \in Seq(Nat) /\ Len(p3) = TsAt + U64
    BY <1>1, <1>7, Grows, SMTT(30)
  <2> QED
    BY <2>1, Places
<1> HIDE DEF p3
<1>9. p4 \in Seq(Nat) /\ Len(p4) = KvAt
  <2>1. p4 \in Seq(Nat) /\ Len(p4) = SeqAt + U64
    BY <1>1, <1>8, Grows, SMTT(30)
  <2> QED
    BY <2>1, Places
<1> HIDE DEF p4
<1>10. p5 \in Seq(Nat) /\ Len(p5) = NonceAt
  <2>1. p5 \in Seq(Nat) /\ Len(p5) = KvAt + U32
    BY <1>1, <1>9, Grows, SMTT(30)
  <2> QED
    BY <2>1, Places
<1> HIDE DEF p5
<1>11. p6 \in Seq(Nat) /\ Len(p6) = CtLenAt
  <2>1. p6 \in Seq(Nat) /\ Len(p6) = NonceAt + NonceSize
    BY <1>1, <1>10, Grows, SMTT(30)
  <2> QED
    BY <2>1, Places
<1> HIDE DEF p6
<1>12. p7 \in Seq(Nat) /\ Len(p7) = CtAt
  <2>1. p7 \in Seq(Nat) /\ Len(p7) = CtLenAt + U32
    BY <1>2, <1>11, Grows
  <2> QED
    BY <2>1, Places
<1> HIDE DEF p7
<1>13. p8 \in Seq(Nat) /\ Len(p8) = CtAt + Len(ct)
  BY <1>12, Grows
<1> HIDE DEF p8
<1>14. p9 \in Seq(Nat) /\ Len(p9) = CtAt + Len(ct) + TagSize
  BY <1>13, Grows
<1> HIDE DEF p9
<1>15. StartsWith(p9, p9)
  BY <1>14 DEF StartsWith
<1>16. StartsWith(p9, p8) /\ Has(p9, CtAt + Len(ct), tag, TagSize)
  <2>1. StartsWith(p9, p8 \o tag)
    BY <1>15 DEF p9
  <2>2. StartsWith(p9, p8)
    BY <1>13, <2>1, StartBefore
  <2>3. Has(p9, CtAt + Len(ct), tag, TagSize)
    BY <1>13, <2>1, FieldAfter
  <2> QED
    BY <2>2, <2>3
<1>17. StartsWith(p9, p7) /\ Has(p9, CtAt, ct, Len(ct))
  <2>1. StartsWith(p9, p7 \o ct)
    BY <1>16 DEF p8
  <2>2. StartsWith(p9, p7)
    BY <1>12, <2>1, StartBefore
  <2>3. Has(p9, CtAt, ct, Len(ct))
    BY <1>12, <2>1, FieldAfter
  <2> QED
    BY <2>2, <2>3
<1>18. StartsWith(p9, p6) /\ Has(p9, CtLenAt, f7, U32)
  <2>1. StartsWith(p9, p6 \o f7)
    BY <1>17 DEF p7
  <2>2. StartsWith(p9, p6)
    BY <1>2, <1>11, <2>1, StartBefore
  <2>3. Has(p9, CtLenAt, f7, U32)
    BY <1>2, <1>11, <2>1, FieldAfter
  <2> QED
    BY <2>2, <2>3
<1>19. StartsWith(p9, p5) /\ Has(p9, NonceAt, f6, NonceSize)
  <2>1. StartsWith(p9, p5 \o f6)
    BY <1>18 DEF p6
  <2>2. StartsWith(p9, p5)
    BY <1>1, <1>10, <2>1, StartBefore
  <2>3. Has(p9, NonceAt, f6, NonceSize)
    BY <1>1, <1>10, <2>1, FieldAfter
  <2> QED
    BY <2>2, <2>3
<1>20. StartsWith(p9, p4) /\ Has(p9, KvAt, f5, U32)
  <2>1. StartsWith(p9, p4 \o f5)
    BY <1>19 DEF p5
  <2>2. StartsWith(p9, p4)
    BY <1>1, <1>9, <2>1, StartBefore
  <2>3. Has(p9, KvAt, f5, U32)
    BY <1>1, <1>9, <2>1, FieldAfter
  <2> QED
    BY <2>2, <2>3
<1>21. StartsWith(p9, p3) /\ Has(p9, SeqAt, f4, U64)
  <2>1. StartsWith(p9, p3 \o f4)
    BY <1>20 DEF p4
  <2>2. StartsWith(p9, p3)
    BY <1>1, <1>8, <2>1, StartBefore
  <2>3. Has(p9, SeqAt, f4, U64)
    BY <1>1, <1>8, <2>1, FieldAfter
  <2> QED
    BY <2>2, <2>3
<1>22. StartsWith(p9, p2) /\ Has(p9, TsAt, f3, U64)
  <2>1. StartsWith(p9, p2 \o f3)
    BY <1>21 DEF p3
  <2>2. StartsWith(p9, p2)
    BY <1>1, <1>7, <2>1, StartBefore
  <2>3. Has(p9, TsAt, f3, U64)
    BY <1>1, <1>7, <2>1, FieldAfter
  <2> QED
    BY <2>2, <2>3
<1>23. StartsWith(p9, p1) /\ Has(p9, DoorAt, f2, U32)
  <2>1. StartsWith(p9, p1 \o f2)
    BY <1>22 DEF p2
  <2>2. StartsWith(p9, p1)
    BY <1>1, <1>6, <2>1, StartBefore
  <2>3. Has(p9, DoorAt, f2, U32)
    BY <1>1, <1>6, <2>1, FieldAfter
  <2> QED
    BY <2>2, <2>3
<1>24. StartsWith(p9, p0) /\ Has(p9, ReaderAt, f1, U32)
  <2>1. StartsWith(p9, p0 \o f1)
    BY <1>23 DEF p1
  <2>2. StartsWith(p9, p0)
    BY <1>1, <1>5, <2>1, StartBefore
  <2>3. Has(p9, ReaderAt, f1, U32)
    BY <1>1, <1>5, <2>1, FieldAfter
  <2> QED
    BY <2>2, <2>3
<1>25. StartsWith(p9, Magic) /\ Has(p9, Len(Magic), <<Version>>, 1)
  <2>1. StartsWith(p9, Magic \o <<Version>>)
    BY <1>24 DEF p0
  <2>2. StartsWith(p9, Magic)
    BY <1>4, Sizes, <2>1, StartBefore
  <2>3. Has(p9, Len(Magic), <<Version>>, 1)
    BY <1>4, Sizes, <2>1, FieldAfter
  <2> QED
    BY <2>2, <2>3
<1>26. Has(p9, 0, Magic, Len(Magic))
  <2>1. \A i \in 1..Len(Magic) : 0 + i = i
    BY Sizes
  <2> QED
    BY <1>25, <2>1 DEF StartsWith, Has
<1>27. IsFrame(p9, h, ct, tag)
  BY <1>14, <1>16, <1>17, <1>18, <1>19, <1>20, <1>21, <1>22, <1>23, <1>24, <1>25, <1>26, Zenon
     DEF IsFrame, f1, f2, f3, f4, f5, f6, f7
<1> QED
  BY <1>3, <1>27

\* There is one such frame.
LEMMA FrameUnique ==
    ASSUME NEW h, NEW ct \in Seq(Nat), NEW tag, NEW bs, NEW cs,
           IsFrame(bs, h, ct, tag), IsFrame(cs, h, ct, tag)
    PROVE  bs = cs
<1>0. bs \in Seq(Nat) /\ cs \in Seq(Nat)
      /\ Len(bs) = CtAt + Len(ct) + TagSize /\ Len(cs) = CtAt + Len(ct) + TagSize
  BY DEF IsFrame
<1> DEFINE c == Len(ct)
<1>1. c \in Nat
  OBVIOUS
<1> HIDE DEF c
<1>2. ASSUME NEW k \in 1..Len(bs)
      PROVE  bs[k] = cs[k]
  <2>0. k \in Nat /\ k > 0 /\ k <= CtAt + c + TagSize
    <3>1. Len(bs) = CtAt + c + TagSize
      BY <1>0 DEF c
    <3>2. CtAt \in Nat
      BY Places
    <3> QED
      BY <1>1, <3>1, <3>2, Sizes
  <2>1. CASE k > 0 /\ k <= 0 + Len(Magic)
    <3>1. Has(bs, 0, Magic, Len(Magic)) /\ Has(cs, 0, Magic, Len(Magic))
      BY DEF IsFrame
    <3>2. 0 \in Nat /\ Len(Magic) \in Nat
      BY <1>1, Places, Sizes
    <3> QED
      BY <2>0, <2>1, <3>1, <3>2, SameField
  <2>2. CASE k > Len(Magic) /\ k <= Len(Magic) + 1
    <3>1. Has(bs, Len(Magic), <<Version>>, 1) /\ Has(cs, Len(Magic), <<Version>>, 1)
      BY DEF IsFrame
    <3>2. Len(Magic) \in Nat /\ 1 \in Nat
      BY <1>1, Places, Sizes
    <3> QED
      BY <2>0, <2>2, <3>1, <3>2, SameField
  <2>3. CASE k > ReaderAt /\ k <= ReaderAt + U32
    <3>1. Has(bs, ReaderAt, put_le(h.reader_id, U32), U32) /\ Has(cs, ReaderAt, put_le(h.reader_id, U32), U32)
      BY DEF IsFrame
    <3>2. ReaderAt \in Nat /\ U32 \in Nat
      BY <1>1, Places, Sizes
    <3> QED
      BY <2>0, <2>3, <3>1, <3>2, SameField
  <2>4. CASE k > DoorAt /\ k <= DoorAt + U32
    <3>1. Has(bs, DoorAt, put_le(h.door_id, U32), U32) /\ Has(cs, DoorAt, put_le(h.door_id, U32), U32)
      BY DEF IsFrame
    <3>2. DoorAt \in Nat /\ U32 \in Nat
      BY <1>1, Places, Sizes
    <3> QED
      BY <2>0, <2>4, <3>1, <3>2, SameField
  <2>5. CASE k > TsAt /\ k <= TsAt + U64
    <3>1. Has(bs, TsAt, put_le(h.ts_unix_ms, U64), U64) /\ Has(cs, TsAt, put_le(h.ts_unix_ms, U64), U64)
      BY DEF IsFrame
    <3>2. TsAt \in Nat /\ U64 \in Nat
      BY <1>1, Places, Sizes
    <3> QED
      BY <2>0, <2>5, <3>1, <3>2, SameField
  <2>6. CASE k > SeqAt /\ k <= SeqAt + U64
    <3>1. Has(bs, SeqAt, put_le(h.seq, U64), U64) /\ Has(cs, SeqAt, put_le(h.seq, U64), U64)
      BY DEF IsFrame
    <3>2. SeqAt \in Nat /\ U64 \in Nat
      BY <1>1, Places, Sizes
    <3> QED
      BY <2>0, <2>6, <3>1, <3>2, SameField
  <2>7. CASE k > KvAt /\ k <= KvAt + U32
    <3>1. Has(bs, KvAt, put_le(h.key_version, U32), U32) /\ Has(cs, KvAt, put_le(h.key_version, U32), U32)
      BY DEF IsFrame
    <3>2. KvAt \in Nat /\ U32 \in Nat
      BY <1>1, Places, Sizes
    <3> QED
      BY <2>0, <2>7, <3>1, <3>2, SameField
  <2>8. CASE k > NonceAt /\ k <= NonceAt + NonceSize
    <3>1. Has(bs, NonceAt, h.nonce, NonceSize) /\ Has(cs, NonceAt, h.nonce, NonceSize)
      BY DEF IsFrame
    <3>2. NonceAt \in Nat /\ NonceSize \in Nat
      BY <1>1, Places, Sizes
    <3> QED
      BY <2>0, <2>8, <3>1, <3>2, SameField
  <2>9. CASE k > CtLenAt /\ k <= CtLenAt + U32
    <3>1. Has(bs, CtLenAt, put_le(Len(ct), U32), U32) /\ Has(cs, CtLenAt, put_le(Len(ct), U32), U32)
      BY DEF IsFrame
    <3>2. CtLenAt \in Nat /\ U32 \in Nat
      BY <1>1, Places, Sizes
    <3> QED
      BY <2>0, <2>9, <3>1, <3>2, SameField
  <2>10. CASE k > CtAt /\ k <= CtAt + c
    <3>1. Has(bs, CtAt, ct, c) /\ Has(cs, CtAt, ct, c)
      BY DEF IsFrame, c
    <3>2. CtAt \in Nat /\ c \in Nat
      BY <1>1, Places, Sizes
    <3> QED
      BY <2>0, <2>10, <3>1, <3>2, SameField
  <2>11. CASE k > CtAt + c /\ k <= CtAt + c + TagSize
    <3>1. Has(bs, CtAt + c, tag, TagSize) /\ Has(cs, CtAt + c, tag, TagSize)
      BY DEF IsFrame, c
    <3>2. CtAt + c \in Nat /\ TagSize \in Nat
      BY <1>1, Places, Sizes
    <3> QED
      BY <2>0, <2>11, <3>1, <3>2, SameField
  <2>12. CASE k <= ReaderAt
    BY <2>0, <2>1, <2>2, <2>12, Places, Sizes
  <2>13. CASE k > ReaderAt /\ k <= SeqAt
    <3>1. /\ ReaderAt \in Nat /\ DoorAt \in Nat /\ TsAt \in Nat /\ SeqAt \in Nat /\ k \in Nat
          /\ DoorAt = ReaderAt + U32 /\ TsAt = DoorAt + U32 /\ SeqAt = TsAt + U64
      BY <2>0, Places
    <3>2. k <= DoorAt \/ (k > DoorAt /\ k <= TsAt) \/ k > TsAt
      BY <3>1
    <3> QED
      BY <2>3, <2>4, <2>5, <2>13, <3>1, <3>2
  <2>14. CASE k > SeqAt /\ k <= NonceAt
    BY <2>0, <2>6, <2>7, <2>14, Places, Sizes
  <2>15. CASE k > NonceAt /\ k <= CtAt
    BY <2>0, <2>8, <2>9, <2>15, Places, Sizes
  <2>16. CASE k > CtAt
    BY <1>1, <2>0, <2>10, <2>11, <2>16, Places, Sizes
  <2>17. \/ k <= ReaderAt
         \/ (k > ReaderAt /\ k <= SeqAt)
         \/ (k > SeqAt /\ k <= NonceAt)
         \/ (k > NonceAt /\ k <= CtAt)
         \/ k > CtAt
    <3>1. ReaderAt \in Nat /\ SeqAt \in Nat /\ NonceAt \in Nat /\ CtAt \in Nat /\ k \in Nat
      BY <2>0, Places
    <3> QED
      BY <3>1
  <2> QED
    BY <2>12, <2>13, <2>14, <2>15, <2>16, <2>17
<1>3. Len(bs) = Len(cs)
  BY <1>0
<1> QED
  BY <1>0, <1>2, <1>3, SameBytes
-----------------------------------------------------------------------------
(* FrameParser.                                                            *)

\* The bytes of the integer fields are bytes.
IntBytes(bs) ==
    \A k \in 1..Len(bs) :
        (k > ReaderAt /\ k <= NonceAt) \/ (k > CtLenAt /\ k <= CtAt) => bs[k] \in 0..(Base - 1)

\* An integer field is read as the number whose bytes it has.
LEMMA IntField ==
    ASSUME NEW bs \in Seq(Nat), IntBytes(bs), NEW at \in Nat, NEW w \in Nat, at + w <= Len(bs),
           (at >= ReaderAt /\ at + w <= NonceAt) \/ (at >= CtLenAt /\ at + w <= CtAt)
    PROVE  /\ get_le(bs, at, w) \in Nat /\ Fits(get_le(bs, at, w), w)
           /\ Has(bs, at, put_le(get_le(bs, at, w), w), w)
<1>0. /\ ReaderAt \in Nat /\ NonceAt \in Nat /\ CtLenAt \in Nat /\ CtAt \in Nat /\ Len(bs) \in Nat
  BY Places
<1>1. \A i \in 1..w : bs[at + i] \in 0..(Base - 1)
  <2> SUFFICES ASSUME NEW i \in 1..w
               PROVE  bs[at + i] \in 0..(Base - 1)
    OBVIOUS
  <2>1. /\ at + i \in 1..Len(bs)
        /\ \/ (at + i > ReaderAt /\ at + i <= NonceAt)
           \/ (at + i > CtLenAt /\ at + i <= CtAt)
    BY <1>0
  <2> QED
    BY <2>1 DEF IntBytes
<1>2. /\ get_le(bs, at, w) \in Nat /\ Fits(get_le(bs, at, w), w)
      /\ \A i \in 1..w : put_le(get_le(bs, at, w), w)[i] = bs[at + i]
  BY <1>1, PutGet
<1>3. Has(bs, at, put_le(get_le(bs, at, w), w), w)
  BY <1>2 DEF Has
<1> QED
  BY <1>2, <1>3

\* A field of bytes is read as it is.
LEMMA SubSeqField ==
    ASSUME NEW bs \in Seq(Nat), NEW at \in Nat, NEW w \in Nat, at + w <= Len(bs)
    PROVE  /\ SubSeq(bs, at + 1, at + w) \in Seq(Nat) /\ Len(SubSeq(bs, at + 1, at + w)) = w
           /\ Has(bs, at, SubSeq(bs, at + 1, at + w), w)
<1>1. at + 1 \in Int /\ at + w \in Int /\ Len(bs) \in Nat
  OBVIOUS
<1>2. \A i \in (at + 1)..(at + w) : bs[i] \in Nat
  <2> SUFFICES ASSUME NEW i \in (at + 1)..(at + w)
               PROVE  bs[i] \in Nat
    OBVIOUS
  <2>1. i \in 1..Len(bs)
    BY <1>1
  <2> QED
    BY <2>1
<1> DEFINE s == SubSeq(bs, at + 1, at + w)
<1>3. /\ s \in Seq(Nat)
      /\ Len(s) = IF at + 1 <= at + w THEN at + w - (at + 1) + 1 ELSE 0
      /\ \A i \in 1..(at + w - (at + 1) + 1) : s[i] = bs[at + 1 + i - 1]
  BY <1>1, <1>2, SubSeqProperties
<1> HIDE DEF s
<1>4. Len(s) = w
  BY <1>3
<1>5. \A i \in 1..w : i \in 1..(at + w - (at + 1) + 1) /\ at + 1 + i - 1 = at + i
  OBVIOUS
<1>6. Has(bs, at, s, w)
  BY <1>3, <1>5 DEF Has
<1> QED
  BY <1>3, <1>4, <1>6 DEF s

\* A field that the bytes have is what is read.
LEMMA FieldSubSeq ==
    ASSUME NEW bs \in Seq(Nat), NEW at \in Nat, NEW w \in Nat, at + w <= Len(bs),
           NEW f \in Seq(Nat), Len(f) = w, Has(bs, at, f, w)
    PROVE  SubSeq(bs, at + 1, at + w) = f
<1> DEFINE s == SubSeq(bs, at + 1, at + w)
<1>1. s \in Seq(Nat) /\ Len(s) = w /\ Has(bs, at, s, w)
  BY SubSeqField
<1> HIDE DEF s
<1>2. \A i \in 1..Len(s) : s[i] = f[i]
  BY <1>1 DEF Has
<1>3. s = f
  BY <1>1, <1>2, SameBytes
<1> QED
  BY <1>3 DEF s

\* A sequence of known length is a function of its positions.
LEMMA SeqAsFcn ==
    ASSUME NEW s \in Seq(Nat), NEW n, Len(s) = n
    PROVE  s \in [1..n -> Nat]
  BY LenProperties

\* Bytes that pass the checks of the parser are the frame it returns.
LEMMA ParsedFrame ==
    ASSUME NEW bs \in Seq(Nat), IntBytes(bs), NEW m, parseError(bs, m) = "ok"
    PROVE  /\ parse(bs).header \in HeaderType /\ HeaderFits(parse(bs).header)
           /\ parse(bs).ct \in Seq(Nat) /\ parse(bs).tag \in Seq(Nat)
           /\ Len(parse(bs).tag) = TagSize
           /\ IsFrame(bs, parse(bs).header, parse(bs).ct, parse(bs).tag)
<1> DEFINE c == ctLen(bs)
           r == get_le(bs, ReaderAt, U32)
           d == get_le(bs, DoorAt, U32)
           t == get_le(bs, TsAt, U64)
           s == get_le(bs, SeqAt, U64)
           v == get_le(bs, KvAt, U32)
           n == SubSeq(bs, NonceAt + 1, NonceAt + NonceSize)
           ct == SubSeq(bs, CtAt + 1, CtAt + c)
           tag == SubSeq(bs, CtAt + c + 1, CtAt + c + TagSize)
           h == parse(bs).header
<1>1. /\ ~ (Len(bs) < kMinFrameSize) /\ SubSeq(bs, 1, Len(Magic)) = Magic
      /\ bs[ReaderAt] = Version
      /\ ~ (Len(bs) < CtAt + c + TagSize) /\ ~ (Len(bs) > CtAt + c + TagSize)
  BY DEF parseError
<1>2. /\ h.reader_id = r /\ h.door_id = d /\ h.ts_unix_ms = t /\ h.seq = s /\ h.key_version = v
      /\ h.nonce = n /\ parse(bs).ct = ct /\ parse(bs).tag = tag
      /\ h = [reader_id |-> r, door_id |-> d, ts_unix_ms |-> t, seq |-> s, key_version |-> v, nonce |-> n]
  BY DEF parse
<1>3. c = get_le(bs, CtLenAt, U32)
  BY DEF ctLen
<1> HIDE DEF c, r, d, t, s, v, n, ct, tag, h
<1>4. Len(bs) \in Nat /\ CtAt + TagSize <= Len(bs)
  <2>1. Len(bs) \in Nat
    OBVIOUS
  <2> QED
    BY <1>1, <2>1, Places, Sizes DEF kMinFrameSize
<1>a. /\ ReaderAt + U32 <= NonceAt /\ DoorAt + U32 <= NonceAt /\ TsAt + U64 <= NonceAt
      /\ SeqAt + U64 <= NonceAt /\ KvAt + U32 <= NonceAt
      /\ DoorAt >= ReaderAt /\ TsAt >= ReaderAt /\ SeqAt >= ReaderAt /\ KvAt >= ReaderAt
      /\ CtLenAt + U32 <= CtAt
      /\ Len(Magic) + 1 <= Len(bs) /\ NonceAt <= Len(bs) /\ NonceAt + NonceSize <= Len(bs)
      /\ CtAt <= Len(bs)
  BY <1>4, PlacesOrder
<1>5. c \in Nat /\ Has(bs, CtLenAt, put_le(c, U32), U32)
  <2>1. CtLenAt \in Nat /\ U32 \in Nat /\ CtLenAt \in Nat /\ CtAt \in Nat
    BY Places, Sizes
  <2>2. CtLenAt + U32 <= Len(bs) /\ CtLenAt >= CtLenAt /\ CtLenAt + U32 <= CtAt
    BY <1>4, <1>a, <2>1
  <2> QED
    BY <1>3, <2>1, <2>2, IntField
<1>6. Len(bs) = CtAt + c + TagSize
  <2>1. CtAt \in Nat /\ TagSize \in Nat
    BY Places, Sizes
  <2> QED
    BY <1>1, <1>4, <1>5, <2>1
<1>7. r \in Nat /\ Fits(r, U32) /\ Has(bs, ReaderAt, put_le(r, U32), U32)
  <2>1. ReaderAt \in Nat /\ U32 \in Nat /\ ReaderAt \in Nat /\ NonceAt \in Nat
    BY Places, Sizes
  <2>2. ReaderAt + U32 <= Len(bs) /\ ReaderAt >= ReaderAt /\ ReaderAt + U32 <= NonceAt
    BY <1>4, <1>a, <2>1
  <2> QED
    BY <2>1, <2>2, IntField DEF r
<1>8. d \in Nat /\ Fits(d, U32) /\ Has(bs, DoorAt, put_le(d, U32), U32)
  <2>1. DoorAt \in Nat /\ U32 \in Nat /\ ReaderAt \in Nat /\ NonceAt \in Nat
    BY Places, Sizes
  <2>2. DoorAt + U32 <= Len(bs) /\ DoorAt >= ReaderAt /\ DoorAt + U32 <= NonceAt
    BY <1>4, <1>a, <2>1
  <2> QED
    BY <2>1, <2>2, IntField DEF d
<1>9. t \in Nat /\ Fits(t, U64) /\ Has(bs, TsAt, put_le(t, U64), U64)
  <2>1. TsAt \in Nat /\ U64 \in Nat /\ ReaderAt \in Nat /\ NonceAt \in Nat
    BY Places, Sizes
  <2>2. TsAt + U64 <= Len(bs) /\ TsAt >= ReaderAt /\ TsAt + U64 <= NonceAt
    BY <1>4, <1>a, <2>1
  <2> QED
    BY <2>1, <2>2, IntField DEF t
<1>10. s \in Nat /\ Fits(s, U64) /\ Has(bs, SeqAt, put_le(s, U64), U64)
  <2>1. SeqAt \in Nat /\ U64 \in Nat /\ ReaderAt \in Nat /\ NonceAt \in Nat
    BY Places, Sizes
  <2>2. SeqAt + U64 <= Len(bs) /\ SeqAt >= ReaderAt /\ SeqAt + U64 <= NonceAt
    BY <1>4, <1>a, <2>1
  <2> QED
    BY <2>1, <2>2, IntField DEF s
<1>11. v \in Nat /\ Fits(v, U32) /\ Has(bs, KvAt, put_le(v, U32), U32)
  <2>1. KvAt \in Nat /\ U32 \in Nat /\ ReaderAt \in Nat /\ NonceAt \in Nat
    BY Places, Sizes
  <2>2. KvAt + U32 <= Len(bs) /\ KvAt >= ReaderAt /\ KvAt + U32 <= NonceAt
    BY <1>4, <1>a, <2>1
  <2> QED
    BY <2>1, <2>2, IntField DEF v
<1>12. n \in Seq(Nat) /\ Len(n) = NonceSize /\ Has(bs, NonceAt, n, NonceSize)
  <2>1. NonceAt \in Nat /\ NonceSize \in Nat /\ NonceAt + NonceSize <= Len(bs)
    BY <1>a, Places, Sizes
  <2> QED
    BY <2>1, SubSeqField DEF n
<1>13. ct \in Seq(Nat) /\ Len(ct) = c /\ Has(bs, CtAt, ct, c)
  <2>1. CtAt \in Nat /\ CtAt + c <= Len(bs)
    BY <1>5, <1>6, Places, Sizes
  <2> QED
    BY <1>5, <2>1, SubSeqField DEF ct
<1>14. tag \in Seq(Nat) /\ Len(tag) = TagSize /\ Has(bs, CtAt + c, tag, TagSize)
  <2>1. CtAt + c \in Nat /\ TagSize \in Nat /\ CtAt + c + TagSize <= Len(bs)
    BY <1>5, <1>6, Places, Sizes
  <2> QED
    BY <2>1, SubSeqField DEF tag
<1>15. Has(bs, 0, Magic, Len(Magic))
  <2>1. 0 \in Nat /\ Len(Magic) \in Nat /\ 0 + Len(Magic) <= Len(bs) /\ 0 + 1 = 1
        /\ 0 + Len(Magic) = Len(Magic)
    BY <1>4, <1>a, Sizes
  <2>2. Has(bs, 0, SubSeq(bs, 0 + 1, 0 + Len(Magic)), Len(Magic))
    BY <2>1, SubSeqField
  <2> QED
    BY <1>1, <2>1, <2>2
<1>16. Has(bs, Len(Magic), <<Version>>, 1)
  <2>1. Len(Magic) + 1 = ReaderAt /\ <<Version>>[1] = Version /\ \A i \in 1..1 : i = 1
    BY Places
  <2> QED
    BY <1>1, <2>1 DEF Has
<1>17. h \in HeaderType
  <2>1. n \in [1..NonceSize -> Nat]
    BY <1>12, SeqAsFcn
  <2> QED
    BY <1>2, <1>7, <1>8, <1>9, <1>10, <1>11, <2>1 DEF HeaderType
<1>18. HeaderFits(h)
  BY <1>2, <1>7, <1>8, <1>9, <1>10, <1>11 DEF HeaderFits
<1>19. Has(bs, CtLenAt, put_le(Len(ct), U32), U32) /\ Has(bs, CtAt, ct, Len(ct))
       /\ Has(bs, CtAt + Len(ct), tag, TagSize) /\ Len(bs) = CtAt + Len(ct) + TagSize
  BY <1>5, <1>6, <1>13, <1>14
<1>20. IsFrame(bs, h, ct, tag)
  BY <1>2, <1>7, <1>8, <1>9, <1>10, <1>11, <1>12, <1>15, <1>16, <1>19, Zenon DEF IsFrame
<1> QED
  BY <1>2, <1>13, <1>14, <1>17, <1>18, <1>20 DEF h

\* A field that the bytes have, and that fits, is read as it was written.
LEMMA GetField ==
    ASSUME NEW v \in Nat, NEW w \in Nat, Fits(v, w), NEW bs, NEW at \in Nat,
           Has(bs, at, put_le(v, w), w)
    PROVE  get_le(bs, at, w) = v
<1>1. \A i \in 1..w : bs[at + i] = put_le(v, w)[i]
  BY DEF Has
<1> QED
  BY <1>1, GetPut

\* The bytes of a frame pass the parser, and it returns the frame.
LEMMA FrameParses ==
    ASSUME NEW h \in HeaderType, HeaderFits(h), NEW ct \in Seq(Nat), Fits(Len(ct), U32),
           NEW tag \in Seq(Nat), Len(tag) = TagSize, NEW bs, IsFrame(bs, h, ct, tag),
           NEW m \in Nat, Len(ct) <= m
    PROVE  /\ parseError(bs, m) = "ok"
           /\ parse(bs) = [header |-> h, ct |-> ct, tag |-> tag]
<1> DEFINE c == Len(ct)
<1>0. c \in Nat /\ bs \in Seq(Nat) /\ Len(bs) = CtAt + c + TagSize /\ Len(bs) \in Nat
  BY DEF IsFrame
<1>1. /\ Has(bs, 0, Magic, Len(Magic)) /\ Has(bs, Len(Magic), <<Version>>, 1)
      /\ Has(bs, ReaderAt, put_le(h.reader_id, U32), U32)
      /\ Has(bs, DoorAt, put_le(h.door_id, U32), U32)
      /\ Has(bs, TsAt, put_le(h.ts_unix_ms, U64), U64)
      /\ Has(bs, SeqAt, put_le(h.seq, U64), U64)
      /\ Has(bs, KvAt, put_le(h.key_version, U32), U32)
      /\ Has(bs, NonceAt, h.nonce, NonceSize)
      /\ Has(bs, CtLenAt, put_le(c, U32), U32)
      /\ Has(bs, CtAt, ct, c)
      /\ Has(bs, CtAt + c, tag, TagSize)
  BY DEF IsFrame
<1>2. /\ h.reader_id \in Nat /\ h.door_id \in Nat /\ h.ts_unix_ms \in Nat /\ h.seq \in Nat
      /\ h.key_version \in Nat /\ h.nonce \in Seq(Nat) /\ Len(h.nonce) = NonceSize
      /\ Fits(h.reader_id, U32) /\ Fits(h.door_id, U32) /\ Fits(h.ts_unix_ms, U64)
      /\ Fits(h.seq, U64) /\ Fits(h.key_version, U32) /\ Fits(c, U32)
  <2>1. h.nonce \in Seq(Nat) /\ Len(h.nonce) = NonceSize
    BY FieldTypes
  <2> QED
    BY <2>1 DEF HeaderType, HeaderFits
<1>3. /\ ReaderAt \in Nat /\ DoorAt \in Nat /\ TsAt \in Nat /\ SeqAt \in Nat /\ KvAt \in Nat
      /\ NonceAt \in Nat /\ CtLenAt \in Nat /\ CtAt \in Nat /\ U32 \in Nat /\ U64 \in Nat
      /\ NonceSize \in Nat /\ TagSize \in Nat /\ Magic \in Seq(Nat) /\ Len(Magic) \in Nat
  BY Places, Sizes
<1>4. CtAt + TagSize <= Len(bs)
  BY <1>0, <1>3
<1>5. Len(Magic) + 1 <= Len(bs) /\ NonceAt + NonceSize <= Len(bs)
  BY <1>0, <1>4, PlacesOrder
<1>6. get_le(bs, ReaderAt, U32) = h.reader_id
  <2>1. /\ Has(bs, ReaderAt, put_le(h.reader_id, U32), U32) /\ h.reader_id \in Nat
        /\ Fits(h.reader_id, U32) /\ ReaderAt \in Nat /\ U32 \in Nat
    BY <1>1, <1>2, <1>3
  <2> QED
    BY <2>1, GetField
<1>7. get_le(bs, DoorAt, U32) = h.door_id
  BY <1>1, <1>2, <1>3, GetField
<1>8. get_le(bs, TsAt, U64) = h.ts_unix_ms
  BY <1>1, <1>2, <1>3, GetField, ZenonT(40)
<1>9. get_le(bs, SeqAt, U64) = h.seq
  BY <1>1, <1>2, <1>3, GetField, SMTT(30)
<1>10. get_le(bs, KvAt, U32) = h.key_version
  BY <1>1, <1>2, <1>3, GetField
<1>11. ctLen(bs) = c
  <2>1. get_le(bs, CtLenAt, U32) = c
    BY <1>0, <1>1, <1>2, <1>3, GetField
  <2> QED
    BY <2>1 DEF ctLen
<1>12. SubSeq(bs, NonceAt + 1, NonceAt + NonceSize) = h.nonce
  BY <1>0, <1>1, <1>2, <1>3, <1>5, FieldSubSeq
<1>13. SubSeq(bs, CtAt + 1, CtAt + c) = ct
  <2>1. CtAt + c <= Len(bs)
    BY <1>0, <1>3
  <2> QED
    BY <1>0, <1>1, <1>3, <2>1, FieldSubSeq
<1>14. SubSeq(bs, CtAt + c + 1, CtAt + c + TagSize) = tag
  <2>1. CtAt + c \in Nat /\ CtAt + c + TagSize <= Len(bs)
    BY <1>0, <1>3
  <2> QED
    BY <1>0, <1>1, <1>3, <2>1, FieldSubSeq
<1>15. SubSeq(bs, 1, Len(Magic)) = Magic
  <2>1. 0 \in Nat /\ 0 + Len(Magic) <= Len(bs) /\ 0 + 1 = 1 /\ 0 + Len(Magic) = Len(Magic)
    BY <1>0, <1>3, <1>5
  <2>2. SubSeq(bs, 0 + 1, 0 + Len(Magic)) = Magic
    BY <1>0, <1>1, <1>3, <2>1, FieldSubSeq
  <2> QED
    BY <2>1, <2>2
<1>16. bs[ReaderAt] = Version
  <2>1. Len(Magic) + 1 = ReaderAt /\ <<Version>>[1] = Version /\ 1 \in 1..1
    BY Places
  <2> QED
    BY <1>1, <2>1 DEF Has
<1>17. parseError(bs, m) = "ok"
  <2>1. ~ (Len(bs) < kMinFrameSize)
    BY <1>0, <1>3, <1>4 DEF kMinFrameSize
  <2>2. ~ (c > m)
    BY <1>0
  <2>3. ~ (Len(bs) < CtAt + c + TagSize) /\ ~ (Len(bs) > CtAt + c + TagSize)
    BY <1>0, <1>3
  <2> HIDE DEF c
  <2> QED
    BY <1>11, <1>15, <1>16, <2>1, <2>2, <2>3 DEF parseError
<1>18. parse(bs) = [header |-> h, ct |-> ct, tag |-> tag]
  <2>1. h = [reader_id |-> h.reader_id, door_id |-> h.door_id, ts_unix_ms |-> h.ts_unix_ms,
             seq |-> h.seq, key_version |-> h.key_version, nonce |-> h.nonce]
    BY DEF HeaderType
  <2> QED
    BY <1>6, <1>7, <1>8, <1>9, <1>10, <1>11, <1>12, <1>13, <1>14, <2>1, Zenon DEF parse
<1> QED
  BY <1>17, <1>18

\* The bytes of a frame hold bytes in their integer fields.
LEMMA FrameIntBytes ==
    ASSUME NEW h \in HeaderType, NEW ct \in Seq(Nat), NEW tag, NEW bs, IsFrame(bs, h, ct, tag)
    PROVE  IntBytes(bs)
<1>1. /\ Has(bs, ReaderAt, put_le(h.reader_id, U32), U32)
      /\ Has(bs, DoorAt, put_le(h.door_id, U32), U32)
      /\ Has(bs, TsAt, put_le(h.ts_unix_ms, U64), U64)
      /\ Has(bs, SeqAt, put_le(h.seq, U64), U64)
      /\ Has(bs, KvAt, put_le(h.key_version, U32), U32)
      /\ Has(bs, CtLenAt, put_le(Len(ct), U32), U32)
  BY DEF IsFrame
<1>2. /\ h.reader_id \in Nat /\ h.door_id \in Nat /\ h.ts_unix_ms \in Nat /\ h.seq \in Nat
      /\ h.key_version \in Nat /\ Len(ct) \in Nat
  BY DEF HeaderType
<1>3. /\ ReaderAt \in Nat /\ DoorAt \in Nat /\ TsAt \in Nat /\ SeqAt \in Nat /\ KvAt \in Nat
      /\ NonceAt \in Nat /\ CtLenAt \in Nat /\ CtAt \in Nat /\ U32 \in Nat /\ U64 \in Nat
      /\ DoorAt = ReaderAt + U32 /\ TsAt = DoorAt + U32
      /\ SeqAt = TsAt + U64 /\ KvAt = SeqAt + U64 /\ NonceAt = KvAt + U32 /\ CtAt = CtLenAt + U32
  BY Places, Sizes
<1>4. ASSUME NEW at \in Nat, NEW w \in Nat, NEW v \in Nat, Has(bs, at, put_le(v, w), w),
             NEW k \in Nat, k > at, k <= at + w
      PROVE  bs[k] \in 0..(Base - 1)
  <2>1. k - at \in 1..w /\ at + (k - at) = k
    BY <1>4
  <2>2. bs[k] = put_le(v, w)[k - at]
    BY <1>4, <2>1 DEF Has
  <2>3. put_le(v, w)[k - at] \in 0..(Base - 1)
    BY <1>4, <2>1, PutType
  <2> QED
    BY <2>2, <2>3
<1>5. ASSUME NEW k \in 1..Len(bs),
             (k > ReaderAt /\ k <= NonceAt) \/ (k > CtLenAt /\ k <= CtAt)
      PROVE  bs[k] \in 0..(Base - 1)
  <2>0. k \in Nat
    BY DEF IsFrame
  <2>1. CASE k > ReaderAt /\ k <= ReaderAt + U32
    BY <1>1, <1>2, <1>3, <1>4, <2>0, <2>1
  <2>2. CASE k > DoorAt /\ k <= DoorAt + U32
    BY <1>1, <1>2, <1>3, <1>4, <2>0, <2>2
  <2>3. CASE k > TsAt /\ k <= TsAt + U64
    BY <1>1, <1>2, <1>3, <1>4, <2>0, <2>3
  <2>4. CASE k > SeqAt /\ k <= SeqAt + U64
    BY <1>1, <1>2, <1>3, <1>4, <2>0, <2>4
  <2>5. CASE k > KvAt /\ k <= KvAt + U32
    BY <1>1, <1>2, <1>3, <1>4, <2>0, <2>5
  <2>6. CASE k > CtLenAt /\ k <= CtLenAt + U32
    BY <1>1, <1>2, <1>3, <1>4, <2>0, <2>6
  <2>7. CASE k > ReaderAt /\ k <= TsAt
    <3>1. k <= DoorAt \/ k > DoorAt
      BY <1>3, <2>0
    <3> QED
      BY <1>3, <2>1, <2>2, <2>7, <3>1
  <2>8. CASE k > TsAt /\ k <= NonceAt
    <3>1. k <= SeqAt \/ (k > SeqAt /\ k <= KvAt) \/ k > KvAt
      BY <1>3, <2>0
    <3> QED
      BY <1>3, <2>3, <2>4, <2>5, <2>8, <3>1
  <2>9. k <= TsAt \/ k > TsAt
    BY <1>3, <2>0
  <2> QED
    BY <1>3, <1>5, <2>6, <2>7, <2>8, <2>9
<1> QED
  BY <1>5 DEF IntBytes

\* FrameParser undoes serialize: every frame whose fields fit and whose ciphertext
\* is within the limit passes every check and comes back field for field.
THEOREM ParseSerialize ==
    ASSUME NEW h \in HeaderType, HeaderFits(h), NEW ct \in Seq(Nat), Fits(Len(ct), U32),
           NEW tag \in Seq(Nat), Len(tag) = TagSize, NEW m \in Nat, Len(ct) <= m
    PROVE  LET f == [header |-> h, ct |-> ct, tag |-> tag]
           IN  parseError(serialize(f), m) = "ok" /\ parse(serialize(f)) = f
<1> DEFINE bs == serialize([header |-> h, ct |-> ct, tag |-> tag])
<1>1. IsFrame(bs, h, ct, tag)
  BY SerializeLayout
<1> HIDE DEF bs
<1>2. parseError(bs, m) = "ok" /\ parse(bs) = [header |-> h, ct |-> ct, tag |-> tag]
  BY <1>1, FrameParses
<1> QED
  BY <1>2 DEF bs

\* serialize undoes FrameParser: bytes that pass its checks are exactly what the
\* frame it returns is written as.  No two byte strings are the same frame, and
\* nothing in an accepted string is ignored.
THEOREM SerializeParse ==
    ASSUME NEW bs \in Seq(Nat), IntBytes(bs), NEW m, parseError(bs, m) = "ok"
    PROVE  serialize(parse(bs)) = bs
<1> DEFINE h == parse(bs).header   ct == parse(bs).ct   tag == parse(bs).tag
<1>1. /\ h \in HeaderType /\ ct \in Seq(Nat) /\ tag \in Seq(Nat) /\ Len(tag) = TagSize
      /\ IsFrame(bs, h, ct, tag)
  BY ParsedFrame
<1>2. parse(bs) = [header |-> h, ct |-> ct, tag |-> tag]
  BY DEF parse
<1> HIDE DEF h, ct, tag
<1>3. IsFrame(serialize([header |-> h, ct |-> ct, tag |-> tag]), h, ct, tag)
  BY <1>1, SerializeLayout
<1>4. serialize([header |-> h, ct |-> ct, tag |-> tag]) = bs
  BY <1>1, <1>3, FrameUnique
<1> QED
  BY <1>2, <1>4

-----------------------------------------------------------------------------
(* Keys, nonces and fresh bytes.                                           *)

\* What the assumptions say of the constants.
LEMMA Bounds ==
    /\ MaxPtLen \in Nat /\ MaxKv \in Nat /\ MaxKv > 0 /\ MaxSeals \in Nat
    /\ \A c \in Cards : PtLen[c] \in 1..MaxPtLen
    /\ Readers \subseteq Nat /\ Doors = Readers /\ Times \subseteq Nat
    /\ \A n \in Readers \cup 0..MaxKv \cup 0..MaxPtLen : Fits(n, U32)
    /\ \A n \in Times : Fits(n, U64)
<1>1. /\ Readers = 0..(Base^U32 - 1) /\ Doors = Readers
      /\ \A n \in Readers \cup 0..MaxKv \cup 0..MaxPtLen : Fits(n, U32)
      /\ \A n \in Times : Fits(n, U64)
      /\ Times \subseteq Nat /\ MaxPtLen \in Nat
  BY KeyedAssumption
<1>2. PtLen \in [Cards -> 1..MaxPtLen] /\ MaxSeals \in Nat
  BY KeyedAssumption
<1>3. MaxKv \in Nat /\ MaxKv > 0
  BY StoreAssumption
<1>4. Readers \subseteq Nat
  <2>1. \A x : 0..x \subseteq Nat
    OBVIOUS
  <2> QED
    BY <1>1, <2>1
<1>5. \A c \in Cards : PtLen[c] \in 1..MaxPtLen
  BY <1>2
<1> QED
  BY <1>1, <1>2, <1>3, <1>4, <1>5, Zenon

\* A place in the bytes of one sealing is not the same place of another's.
LEMMA FreshInjective ==
    ASSUME NEW i \in Nat, NEW j \in Nat, NEW k \in Nat, Fresh(i, k) = Fresh(j, k)
    PROVE  i = j
<1> DEFINE K == MaxPtLen + TagSize + NonceSize
<1>1. K \in Nat /\ K > 0
  BY Sizes, Bounds
<1>2. Base + K * i + k = Base + K * j + k
  BY DEF Fresh
<1> HIDE DEF K
<1>3. \A m, n \in Nat : m < n => K * m + K <= K * n
  <2> SUFFICES ASSUME NEW m \in Nat, NEW n \in Nat, m < n
               PROVE  K * m + K <= K * n
    OBVIOUS
  <2>1. PICK d \in Nat : n = m + 1 + d
    <3>1. n - m - 1 \in Nat /\ n = m + 1 + (n - m - 1)
      OBVIOUS
    <3> QED
      BY <3>1
  <2>2. K * n = K * m + K + K * d
    BY <1>1, <2>1
  <2>3. K * d \in Nat /\ K * m \in Nat /\ K * n \in Nat
    BY <1>1
  <2> QED
    BY <1>1, <2>2, <2>3
<1>4. K * i \in Nat /\ K * j \in Nat
  BY <1>1
<1>5. K * i = K * j
  BY <1>2, <1>4, BaseType
<1> QED
  BY <1>1, <1>3, <1>4, <1>5

LEMMA FreshType ==
    ASSUME NEW i \in Nat, NEW k \in Nat
    PROVE  Fresh(i, k) \in Nat
<1> DEFINE K == MaxPtLen + TagSize + NonceSize
<1>1. K \in Nat
  BY Sizes, Bounds
<1> HIDE DEF K
<1>2. K * i \in Nat
  BY <1>1
<1>3. Fresh(i, k) = Base + K * i + k
  BY DEF Fresh, K
<1> QED
  BY <1>2, <1>3, BaseType

\* A cipher uses at least one byte of the nonce.
LEMMA NonceLen ==
    ASSUME NEW c
    PROVE  nonceLenFor(c) \in 1..NonceSize
  BY Sizes DEF nonceLenFor

LEMMA NonceUsedType ==
    ASSUME NEW c, NEW i \in Nat
    PROVE  NonceUsed(c, FreshNonce(i)) \in [1..NonceSize -> Nat]
<1>1. \A k \in 1..NonceSize : FreshNonce(i)[k] \in Nat
  <2> SUFFICES ASSUME NEW k \in 1..NonceSize
               PROVE  FreshNonce(i)[k] \in Nat
    OBVIOUS
  <2>1. MaxPtLen + TagSize + k - 1 \in Nat
    BY Sizes, Bounds
  <2> QED
    BY <2>1, FreshType DEF FreshNonce
<1> QED
  BY <1>1 DEF NonceUsed

\* Dropping the unused bytes twice drops them once.
LEMMA NonceUsedTwice ==
    ASSUME NEW c, NEW n
    PROVE  NonceUsed(c, NonceUsed(c, n)) = NonceUsed(c, n)
<1>1. \A k \in 1..NonceSize : NonceUsed(c, n)[k] = IF k <= nonceLenFor(c) THEN n[k] ELSE 0
  BY DEF NonceUsed
<1> QED
  BY <1>1 DEF NonceUsed

\* The nonces of two sealings differ in the bytes a cipher uses.
LEMMA NonceInjective ==
    ASSUME NEW c, NEW i \in Nat, NEW j \in Nat,
           NonceUsed(c, FreshNonce(i)) = NonceUsed(c, FreshNonce(j))
    PROVE  i = j
<1>1. 1 \in 1..NonceSize /\ 1 <= nonceLenFor(c)
  BY NonceLen, Sizes
<1>2. \A n : NonceUsed(c, n)[1] = n[1]
  BY <1>1 DEF NonceUsed
<1>3. FreshNonce(i)[1] = FreshNonce(j)[1]
  BY <1>2
<1>4. \A n : FreshNonce(n)[1] = Fresh(n, MaxPtLen + TagSize + 1 - 1)
  BY <1>1 DEF FreshNonce
<1>5. MaxPtLen + TagSize + 1 - 1 \in Nat
  BY Sizes, Bounds
<1> QED
  BY <1>3, <1>4, <1>5, FreshInjective

\* What sealing number i outputs for the card.
FreshCt(i, card) == [k \in 1..PtLen[card] |-> Fresh(i, k - 1)]
FreshTag(i) == [k \in 1..TagSize |-> Fresh(i, MaxPtLen + k - 1)]

LEMMA FreshOutputs ==
    ASSUME NEW i \in Nat, NEW card \in Cards
    PROVE  /\ FreshCt(i, card) \in Seq(Nat) /\ Len(FreshCt(i, card)) = PtLen[card]
           /\ FreshTag(i) \in Seq(Nat) /\ Len(FreshTag(i)) = TagSize
           /\ Fits(PtLen[card], U32) /\ PtLen[card] \in Nat
<1>1. PtLen[card] \in 1..MaxPtLen /\ MaxPtLen \in Nat /\ PtLen[card] \in 0..MaxPtLen /\ PtLen[card] \in Nat
  BY Bounds
<1>2. \A k \in 1..PtLen[card] : Fresh(i, k - 1) \in Nat
  <2> SUFFICES ASSUME NEW k \in 1..PtLen[card]
               PROVE  Fresh(i, k - 1) \in Nat
    OBVIOUS
  <2>1. k - 1 \in Nat
    BY <1>1
  <2> QED
    BY <2>1, FreshType
<1>3. \A k \in 1..TagSize : Fresh(i, MaxPtLen + k - 1) \in Nat
  <2> SUFFICES ASSUME NEW k \in 1..TagSize
               PROVE  Fresh(i, MaxPtLen + k - 1) \in Nat
    OBVIOUS
  <2>1. MaxPtLen + k - 1 \in Nat
    BY <1>1, Sizes
  <2> QED
    BY <2>1, FreshType
<1>4. FreshCt(i, card) \in [1..PtLen[card] -> Nat] /\ FreshTag(i) \in [1..TagSize -> Nat]
  BY <1>2, <1>3 DEF FreshCt, FreshTag
<1>5. FreshCt(i, card) \in Seq(Nat) /\ Len(FreshCt(i, card)) = PtLen[card]
  BY <1>1, <1>4, LenProperties
<1>6. FreshTag(i) \in Seq(Nat) /\ Len(FreshTag(i)) = TagSize
  BY <1>4, Sizes, LenProperties
<1>7. Fits(PtLen[card], U32)
  BY <1>1, Bounds
<1> QED
  BY <1>1, <1>5, <1>6, <1>7

\* Two sealings have different tags.
LEMMA TagInjective ==
    ASSUME NEW i \in Nat, NEW j \in Nat, FreshTag(i) = FreshTag(j)
    PROVE  i = j
<1>1. 1 \in 1..TagSize
  BY Sizes
<1>2. \A n : FreshTag(n)[1] = Fresh(n, MaxPtLen + 1 - 1)
  BY <1>1 DEF FreshTag
<1>3. MaxPtLen + 1 - 1 \in Nat
  BY Bounds
<1> QED
  BY <1>2, <1>3, FreshInjective

\* A key derived for a reader and a version is for no other.
LEMMA KeyInjective ==
    ASSUME NEW r \in Nat, NEW v \in Nat, NEW p \in Nat, NEW u \in Nat,
           Fits(r, U32), Fits(v, U32), Fits(p, U32), Fits(u, U32),
           deriveAeadKey(r, v) = deriveAeadKey(p, u)
    PROVE  r = p /\ v = u
<1> DEFINE a == put_le(r, U32)   x == put_le(v, U32)   b == put_le(p, U32)   y == put_le(u, U32)
<1>1. a \in Seq(Nat) /\ b \in Seq(Nat) /\ x \in Seq(Nat) /\ y \in Seq(Nat) /\ Len(x) = Len(y)
  BY PutType, Sizes
<1>2. deriveAeadKey(r, v).salt = a \o x /\ deriveAeadKey(p, u).salt = b \o y
  BY DEF deriveAeadKey, Hkdf
<1> HIDE DEF a, b, x, y
<1>3. a \o x = b \o y
  BY <1>2
<1>4. a = b
  BY <1>1, <1>3, ConcatSplit
<1>5. x = y
  BY <1>1, <1>3, ConcatSplitLast
<1> QED
  BY <1>4, <1>5, PutInjective, Sizes DEF a, b, x, y

\* The master key is no derived key.
LEMMA MasterKey ==
    ASSUME NEW r, NEW v
    PROVE  deriveAeadKey(r, v) # masterAsAeadKey
<1>1. deriveAeadKey(r, v).info = "access-aead-v1" /\ masterAsAeadKey.info = "master"
  BY DEF deriveAeadKey, masterAsAeadKey, Hkdf
<1> QED
  BY <1>1

\* The row of a card is named by the card and the version of the pepper.
LEMMA HmacName ==
    ASSUME NEW v \in 0..MaxKv, NEW card
    PROVE  hmacHex(deriveCardPepper(v), card) = <<card, v>>
<1>1. v \in Nat /\ Fits(v, U32)
  BY Bounds
<1>2. deriveCardPepper(v).salt = put_le(v, U32)
  BY DEF deriveCardPepper, Hkdf
<1>3. \A i \in 1..U32 : put_le(v, U32)[0 + i] = put_le(v, U32)[i]
  <2>1. \A i \in 1..U32 : 0 + i = i
    BY Sizes
  <2> QED
    BY <2>1
<1>4. get_le(put_le(v, U32), 0, U32) = v
  BY <1>1, <1>3, GetPut, Sizes
<1> QED
  BY <1>2, <1>4 DEF hmacHex

-----------------------------------------------------------------------------
(* The context of a nonce.                                                 *)

\* A header with another nonce.
LEMMA HeaderWithNonce ==
    ASSUME NEW h \in HeaderType, NEW n \in [1..NonceSize -> Nat]
    PROVE  LET g == [h EXCEPT !.nonce = n]
           IN  /\ g \in HeaderType /\ g.nonce = n
               /\ g.reader_id = h.reader_id /\ g.door_id = h.door_id
               /\ g.ts_unix_ms = h.ts_unix_ms /\ g.seq = h.seq /\ g.key_version = h.key_version
               /\ HeaderFits(g) <=> HeaderFits(h)
               /\ nonceContext(g) = nonceContext(h)
<1> DEFINE g == [h EXCEPT !.nonce = n]
<1>1. g \in HeaderType /\ g.nonce = n
  BY DEF HeaderType
<1>2. /\ g.reader_id = h.reader_id /\ g.door_id = h.door_id
      /\ g.ts_unix_ms = h.ts_unix_ms /\ g.seq = h.seq /\ g.key_version = h.key_version
  BY DEF HeaderType
<1>3. HeaderFits(g) <=> HeaderFits(h)
  <2> HIDE DEF g
  <2> QED
    BY <1>2 DEF HeaderFits
<1>4. [g EXCEPT !.nonce = ZeroNonce] = [h EXCEPT !.nonce = ZeroNonce]
  BY DEF HeaderType
<1>5. nonceContext(g) = nonceContext(h)
  <2> HIDE DEF g
  <2> QED
    BY <1>4 DEF nonceContext
<1> QED
  BY <1>1, <1>2, <1>3, <1>5

LEMMA ZeroNonceType == ZeroNonce \in [1..NonceSize -> Nat]
  BY DEF ZeroNonce

\* Headers with the same context are the same but for the nonce.
LEMMA ContextSame ==
    ASSUME NEW h \in HeaderType, NEW g \in HeaderType, HeaderFits(h), HeaderFits(g),
           nonceContext(h) = nonceContext(g)
    PROVE  /\ [h EXCEPT !.nonce = ZeroNonce] = [g EXCEPT !.nonce = ZeroNonce]
           /\ h.reader_id = g.reader_id /\ h.seq = g.seq
<1> DEFINE a == [h EXCEPT !.nonce = ZeroNonce]
           b == [g EXCEPT !.nonce = ZeroNonce]
<1>1. /\ a \in HeaderType /\ a.reader_id = h.reader_id /\ a.door_id = h.door_id
      /\ a.ts_unix_ms = h.ts_unix_ms /\ a.seq = h.seq /\ a.key_version = h.key_version
  BY HeaderWithNonce, ZeroNonceType
<1>2. /\ b \in HeaderType /\ b.reader_id = g.reader_id /\ b.door_id = g.door_id
      /\ b.ts_unix_ms = g.ts_unix_ms /\ b.seq = g.seq /\ b.key_version = g.key_version
  BY HeaderWithNonce, ZeroNonceType
<1>3. to_bytes(a) = to_bytes(b)
  BY DEF nonceContext
<1> HIDE DEF a, b
<1>4. /\ put_le(a.reader_id, U32) = put_le(b.reader_id, U32)
      /\ put_le(a.door_id, U32) = put_le(b.door_id, U32)
      /\ put_le(a.ts_unix_ms, U64) = put_le(b.ts_unix_ms, U64)
      /\ put_le(a.seq, U64) = put_le(b.seq, U64)
      /\ put_le(a.key_version, U32) = put_le(b.key_version, U32)
      /\ a.nonce = b.nonce
  BY <1>1, <1>2, <1>3, ToBytesSame
<1>5. /\ a.reader_id \in Nat /\ a.door_id \in Nat /\ a.ts_unix_ms \in Nat /\ a.seq \in Nat
      /\ a.key_version \in Nat
      /\ b.reader_id \in Nat /\ b.door_id \in Nat /\ b.ts_unix_ms \in Nat /\ b.seq \in Nat
      /\ b.key_version \in Nat
  BY <1>1, <1>2 DEF HeaderType
<1>6. /\ Fits(a.reader_id, U32) /\ Fits(a.door_id, U32) /\ Fits(a.ts_unix_ms, U64)
      /\ Fits(a.seq, U64) /\ Fits(a.key_version, U32)
  BY <1>1 DEF HeaderFits
<1>7. /\ Fits(b.reader_id, U32) /\ Fits(b.door_id, U32) /\ Fits(b.ts_unix_ms, U64)
      /\ Fits(b.seq, U64) /\ Fits(b.key_version, U32)
  BY <1>2 DEF HeaderFits
<1>8. a.reader_id = b.reader_id
  BY <1>4, <1>5, <1>6, <1>7, PutInjective, Sizes
<1>9. a.door_id = b.door_id
  BY <1>4, <1>5, <1>6, <1>7, PutInjective, Sizes
<1>10. a.ts_unix_ms = b.ts_unix_ms
  BY <1>4, <1>5, <1>6, <1>7, PutInjective, Sizes
<1>11. a.seq = b.seq
  BY <1>4, <1>5, <1>6, <1>7, PutInjective, Sizes
<1>12. a.key_version = b.key_version
  BY <1>4, <1>5, <1>6, <1>7, PutInjective, Sizes
<1>13. a = b
  BY <1>1, <1>2, <1>4, <1>8, <1>9, <1>10, <1>11, <1>12 DEF HeaderType
<1> QED
  BY <1>1, <1>2, <1>8, <1>11, <1>13 DEF a, b

-----------------------------------------------------------------------------
(* What is known of a sealing.                                             *)

\* The key, the associated data and the input of the nonce in the modes m.
SealKey(m, h) ==
    IF m.keyDerivationMode = "direct" THEN masterAsAeadKey
                                      ELSE deriveAeadKey(h.reader_id, h.key_version)

SealAad(m, h) == IF m.aadMode = "none" THEN << >> ELSE to_bytes(h)

NonceOf(h) == <<deriveNonceKey(h.reader_id, h.key_version), nonceContext(h)>>

\* What an entry of the history holds, whenever it was sealed.
SealOK(e) ==
    /\ e.header \in HeaderType /\ HeaderFits(e.header)
    /\ e.header.reader_id \in Readers /\ e.header.key_version \in 1..MaxKv
    /\ e.pt \in Cards
    /\ e.cipher = e.modes.cipherMode
    /\ e.key = SealKey(e.modes, e.header)
    /\ e.header.nonce = e.nonce
    /\ e.aad = SealAad(e.modes, e.header)
    /\ e.ct \in Seq(Nat) /\ Len(e.ct) = PtLen[e.pt] /\ e.tag \in Seq(Nat) /\ Len(e.tag) = TagSize
    /\ e.nonceOf = IF e.modes.nonceMode = "random" THEN << >> ELSE NonceOf(e.header)
    /\ e.bytes = serialize([header |-> e.header, ct |-> e.ct, tag |-> e.tag])

\* The nonce of entry e, which comes at i after those of s, was made for sealing
\* n: for itself if it is random, and otherwise for the first sealing whose
\* nonce has the same input.
NonceMadeAt(s, e, i, n) ==
    /\ n \in 1..i
    /\ e.nonce = NonceUsed(e.cipher, FreshNonce(n))
    /\ e.nonceOf = << >> => n = i
    /\ n # i => s[n].nonceOf = e.nonceOf
    /\ e.nonceOf # << >> => \A j \in 1..Len(s) : j < n => s[j].nonceOf # e.nonceOf

\* Its ciphertext and its tag were made for sealing m, of the same card.
TagMadeAt(s, e, i, m) ==
    /\ m \in 1..i
    /\ e.ct = FreshCt(m, e.pt) /\ e.tag = FreshTag(m)
    /\ m # i => s[m].pt = e.pt

\* A history of sealings.
IsHistory(s) == \E S : s \in Seq(S)
MadeOnce(s, e, i) == (\E n \in 1..i : NonceMadeAt(s, e, i, n)) /\ (\E m \in 1..i : TagMadeAt(s, e, i, m))
Numbered(s) == \A i \in 1..Len(s) : SealOK(s[i]) /\ MadeOnce(s, s[i], i)

SealedOK(s) == IsHistory(s) /\ Numbered(s)

LEMMA HistoryDomain ==
    ASSUME NEW s, IsHistory(s)
    PROVE  Len(s) \in Nat /\ DOMAIN s = 1..Len(s)
  BY DEF IsHistory

\* A sealing is a frame on the wire.
LEMMA SealIsFrame ==
    ASSUME NEW e, SealOK(e)
    PROVE  /\ Fits(Len(e.ct), U32)
           /\ IsFrame(e.bytes, e.header, e.ct, e.tag)
           /\ e.bytes \in Seq(Nat) /\ IntBytes(e.bytes)
<1>1. /\ e.header \in HeaderType /\ e.pt \in Cards
      /\ e.ct \in Seq(Nat) /\ e.tag \in Seq(Nat) /\ Len(e.tag) = TagSize /\ Len(e.ct) = PtLen[e.pt]
      /\ e.bytes = serialize([header |-> e.header, ct |-> e.ct, tag |-> e.tag])
  BY DEF SealOK
<1>2. Fits(Len(e.ct), U32)
  BY <1>1, FreshOutputs
<1>3. IsFrame(e.bytes, e.header, e.ct, e.tag)
  BY <1>1, <1>2, SerializeLayout
<1>4. e.bytes \in Seq(Nat)
  BY <1>3 DEF IsFrame
<1>5. IntBytes(e.bytes)
  BY <1>1, <1>2, <1>3, FrameIntBytes
<1> QED
  BY <1>2, <1>3, <1>4, <1>5

\* The input of a deterministic nonce is not that of a random one.
LEMMA InputSome ==
    ASSUME NEW e, SealOK(e)
    PROVE  /\ e.nonceOf # << >> => e.modes.nonceMode # "random" /\ e.nonceOf = NonceOf(e.header)
           /\ e.modes.nonceMode # "random" => e.nonceOf # << >>
<1>1. NonceOf(e.header) # << >>
  <2>1. \A x, y : <<x, y>> # << >>
    OBVIOUS
  <2> QED
    BY <2>1 DEF NonceOf
<1> QED
  BY <1>1 DEF SealOK

\* The least of a set of sealings.
LEMMA LeastSealing ==
    ASSUME NEW T, T \subseteq Nat, T # {}
    PROVE  LET n == CHOOSE i \in T : \A j \in T : i <= j
           IN  n \in T /\ \A j \in T : n <= j
<1>1. T \in SUBSET Nat
  OBVIOUS
<1>2. \E i \in T : \A j \in T : i <= j
  BY <1>1, LeastNumber
<1> QED
  BY <1>2

\* n is the first sealing whose nonce has this input, or the next one.
FirstWith(log, input, n) ==
    /\ n # Len(log) + 1 => log[n].nonceOf = input
    /\ \A j \in 1..Len(log) : j < n => log[j].nonceOf # input

\* A deterministic nonce is made for that sealing.
LEMMA HmacNonceOf ==
    ASSUME NEW log, IsHistory(log), NEW key, NEW ctx
    PROVE  \E n \in 1..(Len(log) + 1) :
             HmacNonce(log, key, ctx) = FreshNonce(n) /\ FirstWith(log, <<key, ctx>>, n)
<1> DEFINE Same == {i \in DOMAIN log : log[i].nonceOf = <<key, ctx>>}
           least == CHOOSE i \in Same : \A j \in Same : i <= j
<1>0. DOMAIN log = 1..Len(log) /\ Len(log) \in Nat
  BY HistoryDomain
<1>1. HmacNonce(log, key, ctx) = IF Same = {} THEN FreshNonce(Len(log) + 1) ELSE FreshNonce(least)
  BY Zenon DEF HmacNonce
<1>2. Same \subseteq 1..Len(log) /\ Same \subseteq Nat
  BY <1>0
<1>3. \A m \in 1..Len(log) : m \in Same <=> log[m].nonceOf = <<key, ctx>>
  BY <1>0
<1> HIDE DEF Same
<1>4. CASE Same = {}
  <2>1. Len(log) + 1 \in 1..(Len(log) + 1)
    BY <1>0
  <2> QED
    BY <1>1, <1>3, <1>4, <2>1 DEF FirstWith
<1>5. CASE Same # {}
  <2>1. least \in Same /\ \A j \in Same : least <= j
    BY <1>2, <1>5, LeastSealing
  <2> HIDE DEF least
  <2>2. least \in 1..(Len(log) + 1) /\ least \in 1..Len(log)
    BY <1>0, <1>2, <2>1
  <2>3. \A j \in 1..Len(log) : j < least => log[j].nonceOf # <<key, ctx>>
    BY <1>0, <1>3, <2>1, <2>2
  <2> QED
    BY <1>1, <1>3, <1>5, <2>1, <2>2, <2>3 DEF FirstWith
<1> QED
  BY <1>4, <1>5

\* A nonce of sealing j made for the cipher is recognised as such.
LEMMA NonceRecognised ==
    ASSUME NEW c, NEW n, NEW i \in Nat, NEW j \in Nat,
           nonceEqual(c, NonceUsed(c, FreshNonce(i)), n), nonceEqual(c, n, FreshNonce(j))
    PROVE  i = j
<1>1. NonceUsed(c, FreshNonce(i)) = NonceUsed(c, FreshNonce(j))
  BY NonceUsedTwice DEF nonceEqual
<1> QED
  BY <1>1, NonceInjective

-----------------------------------------------------------------------------
(* Sealing one more frame.                                                 *)

\* buildEncryptedFrameBytes: the nonce is new or that of the first sealing with
\* the same input, and so are the ciphertext and the tag.
LEMMA Builds ==
    ASSUME SealedOK(sealed), NEW header \in HeaderType, HeaderFits(header),
           header.reader_id \in Readers, header.key_version \in 1..MaxKv, NEW card \in Cards
    PROVE  LET e == buildEncryptedFrameBytes(header, card)
           IN  SealOK(e) /\ MadeOnce(sealed, e, Len(sealed) + 1)
<1> DEFINE c       == cfg.experiment.cipherMode
           next    == Len(sealed) + 1
           nonceOf == <<deriveNonceKey(header.reader_id, header.key_version), nonceContext(header)>>
           random  == cfg.experiment.nonceMode = "random"
           n       == NonceUsed(c, IF random THEN FreshNonce(Len(sealed) + 1)
                                             ELSE HmacNonce(sealed, nonceOf[1], nonceOf[2]))
           h       == [header EXCEPT !.nonce = n]
           key     == aeadKey(h.reader_id, h.key_version)
           box     == sealWithNonce(sealed, key, c, n, aad(h), card)
           e       == buildEncryptedFrameBytes(header, card)
<1>1. /\ Len(sealed) \in Nat /\ DOMAIN sealed = 1..Len(sealed) /\ next \in Nat /\ next \in 1..next
      /\ \A i \in 1..Len(sealed) : i \in Nat /\ i \in 1..next
  BY HistoryDomain DEF SealedOK
<1>2. e = [key |-> box.key, cipher |-> c, nonce |-> n, aad |-> box.aad, pt |-> card,
           ct |-> box.ct, tag |-> box.tag,
           nonceOf |-> IF random THEN << >> ELSE nonceOf,
           header |-> h, modes |-> cfg.experiment,
           bytes |-> serialize([header |-> h, ct |-> box.ct, tag |-> box.tag])]
  BY Zenon DEF buildEncryptedFrameBytes
<1>3. PICK a \in 1..next :
        /\ n = NonceUsed(c, FreshNonce(a))
        /\ random => a = next
        /\ ~ random => /\ a # next => sealed[a].nonceOf = nonceOf
                       /\ \A j \in 1..Len(sealed) : j < a => sealed[j].nonceOf # nonceOf
  <2>1. nonceOf = <<nonceOf[1], nonceOf[2]>>
    OBVIOUS
  <2> HIDE DEF nonceOf
  <2>2. CASE random
    BY <1>1, <2>2
  <2>3. CASE ~ random
    <3>0. PICK a \in 1..next :
            /\ HmacNonce(sealed, nonceOf[1], nonceOf[2]) = FreshNonce(a)
            /\ FirstWith(sealed, <<nonceOf[1], nonceOf[2]>>, a)
      BY HmacNonceOf DEF SealedOK
    <3>1. /\ HmacNonce(sealed, nonceOf[1], nonceOf[2]) = FreshNonce(a)
          /\ a # next => sealed[a].nonceOf = nonceOf
          /\ \A j \in 1..Len(sealed) : j < a => sealed[j].nonceOf # nonceOf
      BY <2>1, <3>0 DEF FirstWith
    <3>2. n = NonceUsed(c, FreshNonce(a))
      BY <2>3, <3>1
    <3> HIDE DEF n
    <3> QED
      BY <2>3, <3>1, <3>2
  <2> QED
    BY <2>2, <2>3
<1>4. n \in [1..NonceSize -> Nat]
  <2>1. a \in Nat
    BY <1>1
  <2> QED
    BY <1>3, <2>1, NonceUsedType
<1> HIDE DEF n
<1>5. /\ h \in HeaderType /\ HeaderFits(h) /\ h.nonce = n
      /\ h.reader_id = header.reader_id /\ h.key_version = header.key_version
      /\ nonceContext(h) = nonceContext(header)
  BY <1>4, HeaderWithNonce
<1> HIDE DEF h
<1>6. nonceOf = NonceOf(h)
  BY <1>5 DEF NonceOf
<1>7. /\ box.key = key /\ box.aad = aad(h)
      /\ \E m \in 1..next : /\ box.ct = FreshCt(m, card) /\ box.tag = FreshTag(m)
                            /\ m # next => sealed[m].pt = card
  <2> DEFINE Same == {i \in DOMAIN sealed : SameSealing(sealed[i], key, c, n, aad(h)) /\ sealed[i].pt = card}
             at   == IF Same = {} THEN next ELSE CHOOSE i \in Same : \A j \in Same : i <= j
  <2>1. /\ box.key = key /\ box.aad = aad(h)
        /\ box.ct = FreshCt(at, card) /\ box.tag = FreshTag(at)
    <3> HIDE DEF key, c
    <3>1. box = [key |-> key, cipher |-> c, nonce |-> n, aad |-> aad(h), pt |-> card,
                 ct |-> FreshCt(at, card), tag |-> FreshTag(at)]
      BY Zenon DEF sealWithNonce, FreshCt, FreshTag
    <3> HIDE DEF box, at
    <3> QED
      BY <3>1
  <2>2. at \in 1..next /\ (at # next => sealed[at].pt = card)
    <3>1. Same \subseteq Nat /\ \A i \in Same : i \in 1..next /\ sealed[i].pt = card
      BY <1>1
    <3> HIDE DEF Same
    <3>2. CASE Same = {}
      BY <1>1, <3>2
    <3>3. CASE Same # {}
      <4>1. (CHOOSE i \in Same : \A j \in Same : i <= j) \in Same
        BY <3>1, <3>3, LeastSealing
      <4> QED
        BY <3>1, <3>3, <4>1
    <3> QED
      BY <3>2, <3>3
  <2> HIDE DEF at, box, key, next
  <2> QED
    BY <2>1, <2>2
<1> HIDE DEF box
<1>8. /\ e.header = h /\ e.modes = cfg.experiment /\ e.pt = card /\ e.cipher = c
      /\ e.key = box.key /\ e.nonce = n /\ e.aad = box.aad /\ e.ct = box.ct /\ e.tag = box.tag
      /\ e.nonceOf = (IF random THEN << >> ELSE nonceOf)
      /\ e.bytes = serialize([header |-> h, ct |-> box.ct, tag |-> box.tag])
  <2> HIDE DEF e
  <2> QED
    BY <1>2
<1>9. nonceOf # << >>
  OBVIOUS
<1> HIDE DEF e, nonceOf
<1>10. e.key = SealKey(e.modes, e.header) /\ e.aad = SealAad(e.modes, e.header)
  BY <1>7, <1>8, Zenon DEF SealKey, SealAad, aeadKey, aad, key
<1>11. e.nonceOf = IF e.modes.nonceMode = "random" THEN << >> ELSE NonceOf(e.header)
  BY <1>6, <1>8
<1>12. e.bytes = serialize([header |-> e.header, ct |-> e.ct, tag |-> e.tag])
  BY <1>8
<1>13. e.header.nonce = e.nonce
  BY <1>5, <1>8
<1>14. PICK m \in 1..next : /\ e.ct = FreshCt(m, e.pt) /\ e.tag = FreshTag(m)
                            /\ m # next => sealed[m].pt = e.pt
  BY <1>7, <1>8
<1>15. /\ e.header \in HeaderType /\ HeaderFits(e.header)
       /\ e.header.reader_id \in Readers /\ e.header.key_version \in 1..MaxKv
       /\ e.pt \in Cards /\ e.cipher = e.modes.cipherMode
  BY <1>5, <1>8
<1>16. e.ct \in Seq(Nat) /\ Len(e.ct) = PtLen[e.pt] /\ e.tag \in Seq(Nat) /\ Len(e.tag) = TagSize
  <2>1. m \in Nat
    BY <1>1
  <2>2. e.pt \in Cards
    BY <1>15
  <2>3. /\ FreshCt(m, e.pt) \in Seq(Nat) /\ Len(FreshCt(m, e.pt)) = PtLen[e.pt]
        /\ FreshTag(m) \in Seq(Nat) /\ Len(FreshTag(m)) = TagSize
    BY <2>1, <2>2, FreshOutputs
  <2> QED
    BY <1>14, <2>3
<1>17. SealOK(e)
  BY <1>10, <1>11, <1>12, <1>13, <1>15, <1>16, Zenon DEF SealOK
<1>18. NonceMadeAt(sealed, e, next, a)
  <2> HIDE DEF next, c
  <2>1. e.nonce = NonceUsed(e.cipher, FreshNonce(a))
    BY <1>3, <1>8
  <2>2. CASE random
    BY <1>3, <1>8, <2>1, <2>2 DEF NonceMadeAt
  <2>3. CASE ~ random
    BY <1>3, <1>8, <1>9, <2>1, <2>3 DEF NonceMadeAt
  <2> QED
    BY <2>2, <2>3
<1>19. TagMadeAt(sealed, e, next, m)
  <2> HIDE DEF next
  <2> QED
    BY <1>14 DEF TagMadeAt
<1> QED
  BY <1>17, <1>18, <1>19 DEF e, next, MadeOnce

\* One more frame.
LEMMA AppendHistory ==
    ASSUME NEW s, SealedOK(s), NEW e, SealOK(e), MadeOnce(s, e, Len(s) + 1)
    PROVE  SealedOK(Append(s, e))
<1> DEFINE t == Append(s, e)   n == Len(s)
<1>1. n \in Nat /\ DOMAIN s = 1..n
  BY HistoryDomain DEF SealedOK
<1>2. /\ Len(t) = n + 1 /\ t[n + 1] = e /\ \A i \in 1..n : t[i] = s[i]
      /\ IsHistory(t)
  <2>1. PICK S : s \in Seq(S)
    BY DEF SealedOK, IsHistory
  <2>2. s \in Seq(S \cup {e}) /\ e \in S \cup {e}
    BY <2>1
  <2>3. t \in Seq(S \cup {e})
    BY <2>2
  <2>4. Len(t) = n + 1 /\ t[n + 1] = e /\ \A i \in 1..n : t[i] = s[i]
    BY <2>2
  <2>5. IsHistory(t)
    BY <2>3 DEF IsHistory
  <2> QED
    BY <2>4, <2>5
<1> HIDE DEF t
<1>3. \A i \in 1..(n + 1) : i \in Nat /\ (i \in 1..n \/ i = n + 1)
  BY <1>1
\* Entry i looks only at the entries before it, which are the same.
<1>4. ASSUME NEW i \in 1..(n + 1), NEW x, MadeOnce(s, x, i)
      PROVE  MadeOnce(t, x, i)
  <2>1. PICK a \in 1..i : NonceMadeAt(s, x, i, a)
    BY <1>4 DEF MadeOnce
  <2>2. PICK m \in 1..i : TagMadeAt(s, x, i, m)
    BY <1>4 DEF MadeOnce
  <2>3. \A k \in 1..i : k # i => k \in 1..n
    BY <1>1, <1>3
  <2>4. \A j \in 1..(n + 1) : j < a => j \in 1..n
    BY <1>1, <1>3
  <2>5. NonceMadeAt(t, x, i, a)
    BY <1>2, <2>1, <2>3, <2>4 DEF NonceMadeAt
  <2>6. TagMadeAt(t, x, i, m)
    BY <1>2, <2>2, <2>3 DEF TagMadeAt
  <2> QED
    BY <2>5, <2>6 DEF MadeOnce
<1>5. Numbered(t)
  <2> SUFFICES ASSUME NEW i \in 1..(n + 1)
               PROVE  SealOK(t[i]) /\ MadeOnce(t, t[i], i)
    BY <1>2 DEF Numbered
  <2>1. SealOK(t[i]) /\ MadeOnce(s, t[i], i)
    <3>1. CASE i \in 1..n
      BY <1>2, <3>1 DEF SealedOK, Numbered
    <3>2. CASE i = n + 1
      BY <1>2, <3>2
    <3> QED
      BY <1>3, <3>1, <3>2
  <2> QED
    BY <1>4, <2>1
<1> QED
  BY <1>2, <1>5 DEF SealedOK, t

-----------------------------------------------------------------------------
(* The bytes under way.                                                    *)

WireOK(w) == w \in Seq(Nat) /\ IntBytes(w)

\* A string whose bytes are, place by place, those of strings on the wire.
LEMMA WireFrom ==
    ASSUME NEW w \in Seq(Nat),
           \A k \in 1..Len(w) : \/ w[k] \in 0..(Base - 1)
                                \/ \E v : WireOK(v) /\ k \in 1..Len(v) /\ w[k] = v[k]
    PROVE  WireOK(w)
<1> SUFFICES ASSUME NEW k \in 1..Len(w),
                    (k > ReaderAt /\ k <= NonceAt) \/ (k > CtLenAt /\ k <= CtAt)
             PROVE  w[k] \in 0..(Base - 1)
  BY DEF WireOK, IntBytes
<1>1. CASE w[k] \in 0..(Base - 1)
  BY <1>1
<1>2. CASE \E v : WireOK(v) /\ k \in 1..Len(v) /\ w[k] = v[k]
  <2>1. PICK v : WireOK(v) /\ k \in 1..Len(v) /\ w[k] = v[k]
    BY <1>2
  <2> QED
    BY <2>1 DEF WireOK, IntBytes
<1> QED
  BY <1>1, <1>2

LEMMA WireTruncated ==
    ASSUME NEW w, WireOK(w), NEW n \in DOMAIN w
    PROVE  /\ WireOK(SubSeq(w, 1, n)) /\ Len(SubSeq(w, 1, n)) = n
           /\ \A k \in 1..n : SubSeq(w, 1, n)[k] = w[k]
<1>1. w \in Seq(Nat) /\ Len(w) \in Nat /\ n \in 1..Len(w) /\ n \in Nat /\ 0 + n <= Len(w)
  BY DEF WireOK
<1>2. SubSeq(w, 0 + 1, 0 + n) \in Seq(Nat) /\ Len(SubSeq(w, 0 + 1, 0 + n)) = n
      /\ Has(w, 0, SubSeq(w, 0 + 1, 0 + n), n)
  BY <1>1, SubSeqField
<1>3. 0 + 1 = 1 /\ 0 + n = n
  BY <1>1
<1>4. SubSeq(w, 1, n) \in Seq(Nat) /\ Len(SubSeq(w, 1, n)) = n /\ Has(w, 0, SubSeq(w, 1, n), n)
  BY <1>2, <1>3
<1>5. \A k \in 1..n : 0 + k = k /\ k \in 1..Len(w)
  BY <1>1
<1>6. \A k \in 1..n : SubSeq(w, 1, n)[k] = w[k]
  BY <1>4, <1>5 DEF Has
<1>7. WireOK(SubSeq(w, 1, n))
  BY <1>4, <1>5, <1>6, WireFrom
<1> QED
  BY <1>4, <1>6, <1>7

LEMMA WireExtended ==
    ASSUME NEW w, WireOK(w), NEW b \in 0..(Base - 1)
    PROVE  WireOK(Append(w, b))
<1>1. w \in Seq(Nat) /\ Len(w) \in Nat /\ b \in Nat
  BY BaseType DEF WireOK
<1>2. /\ Append(w, b) \in Seq(Nat) /\ Len(Append(w, b)) = Len(w) + 1
      /\ Append(w, b)[Len(w) + 1] = b /\ \A k \in 1..Len(w) : Append(w, b)[k] = w[k]
  BY <1>1
<1>3. \A k \in 1..(Len(w) + 1) : k \in 1..Len(w) \/ k = Len(w) + 1
  BY <1>1
<1> QED
  BY <1>2, <1>3, WireFrom

LEMMA WireChanged ==
    ASSUME NEW w, WireOK(w), NEW i \in DOMAIN w, NEW b \in 0..(Base - 1)
    PROVE  WireOK([w EXCEPT ![i] = b])
<1>1. w \in Seq(Nat) /\ Len(w) \in Nat /\ b \in Nat /\ DOMAIN w = 1..Len(w)
  BY BaseType DEF WireOK
<1> DEFINE u == [w EXCEPT ![i] = b]
<1>2. /\ u \in Seq(Nat) /\ Len(u) = Len(w) /\ u[i] = b
      /\ \A k \in 1..Len(w) : k # i => u[k] = w[k]
  BY <1>1
<1> HIDE DEF u
<1>3. WireOK(u)
  BY <1>1, <1>2, WireFrom
<1> QED
  BY <1>3 DEF u

LEMMA WireSpliced ==
    ASSUME NEW w, WireOK(w), NEW v, WireOK(v), NEW n \in DOMAIN w, n < Len(v)
    PROVE  WireOK(SubSeq(w, 1, n) \o SubSeq(v, n + 1, Len(v)))
<1> DEFINE a == SubSeq(w, 1, n)
           m == Len(v) - n
           x == SubSeq(v, n + 1, Len(v))
<1>1. w \in Seq(Nat) /\ v \in Seq(Nat) /\ Len(v) \in Nat /\ n \in Nat
      /\ n \in 1..Len(w) /\ Len(w) \in Nat
  BY DEF WireOK
<1>2. m \in Nat /\ n + m = Len(v) /\ n + m <= Len(v)
  BY <1>1
<1>3. a \in Seq(Nat) /\ Len(a) = n /\ \A k \in 1..n : a[k] = w[k]
  BY WireTruncated DEF WireOK
<1> HIDE DEF m
<1>4. x \in Seq(Nat) /\ Len(x) = m /\ Has(v, n, x, m)
  <2>1. SubSeq(v, n + 1, n + m) \in Seq(Nat) /\ Len(SubSeq(v, n + 1, n + m)) = m
        /\ Has(v, n, SubSeq(v, n + 1, n + m), m)
    BY <1>1, <1>2, SubSeqField
  <2> QED
    BY <1>2, <2>1
<1> HIDE DEF a, x
<1>5. /\ a \o x \in Seq(Nat) /\ Len(a \o x) = n + m
      /\ \A k \in 1..n : (a \o x)[k] = a[k]
      /\ \A k \in 1..m : (a \o x)[n + k] = x[k]
  BY <1>3, <1>4, ConcatAt
<1>6. ASSUME NEW k \in 1..(n + m)
      PROVE  \E z : WireOK(z) /\ k \in 1..Len(z) /\ (a \o x)[k] = z[k]
  <2>1. CASE k <= n
    <3>1. k \in 1..n /\ k \in 1..Len(w)
      BY <1>1, <1>2, <2>1
    <3> QED
      BY <1>3, <1>5, <3>1
  <2>2. CASE k > n
    <3>1. k - n \in 1..m /\ n + (k - n) = k /\ k \in 1..Len(v)
      BY <1>1, <1>2, <2>2, SMTT(30)
    <3>2. (a \o x)[n + (k - n)] = x[k - n] /\ v[n + (k - n)] = x[k - n]
      BY <1>4, <1>5, <3>1 DEF Has
    <3> QED
      BY <3>1, <3>2
  <2>3. k <= n \/ k > n
    BY <1>1, <1>2
  <2> QED
    BY <2>1, <2>2, <2>3
<1>7. WireOK(a \o x)
  BY <1>5, <1>6, WireFrom
<1> QED
  BY <1>7 DEF a, x

-----------------------------------------------------------------------------
(* The inductive invariant.                                                *)

\* The database and the configuration are ones that were loaded; a server that
\* runs has one it accepts.
StateOK(s, c, u) ==
    /\ s \in StoreType
    /\ \E y \in Yamls : c = loadFromYaml(y)
    /\ u => Starts(c)

\* The latest enrolment of a card has its row.
EnrolledOK(s, en) ==
    /\ DOMAIN en = Cards
    /\ \A c \in Cards : en[c] # Unenrolled =>
          /\ en[c].version \in 1..MaxKv /\ en[c].role # NoRole
          /\ roleForCardHmac(s, <<c, en[c].version>>) = en[c].role

KInv ==
    /\ StateOK(store, cfg, up)
    /\ SealedOK(sealed)
    /\ WireOK(wire)
    /\ EnrolledOK(store, enrolled)

LEMMA InitKInv == Init => KInv
<1> SUFFICES ASSUME Init
             PROVE  KInv
  OBVIOUS
<1>1. store \in InitStores /\ InitStores \subseteq StoreType
  BY KeyedAssumption DEF Init
<1>2. \E y \in Yamls : cfg = loadFromYaml(y)
  BY Zenon DEF Init
<1>3. up => Starts(cfg)
  BY Zenon DEF Init
<1>4. sealed = << >> /\ wire = << >> /\ Len(<< >>) = 0 /\ 1..0 = {} /\ << >> \in Seq(Nat)
  BY DEF Init
<1>5. SealedOK(sealed)
  BY <1>4 DEF SealedOK, IsHistory, Numbered
<1>6. WireOK(wire)
  BY <1>4 DEF WireOK, IntBytes
<1>7. EnrolledOK(store, enrolled)
  BY DEF Init, EnrolledOK
<1> QED
  BY <1>1, <1>2, <1>3, <1>5, <1>6, <1>7 DEF KInv, StateOK

\* processHwUid seals one more frame, under whatever number it is given.
LEMMA ScanStep ==
    ASSUME KInv, NEW s \in Scans, NEW ts \in Times, processHwUid(s[1], s[2], s[3], s[4], ts)
    PROVE  KInv'
<1> DEFINE kv     == currentKeyVersionForReader(store, s[1])
           header == [reader_id |-> s[1], door_id |-> s[2], ts_unix_ms |-> ts, seq |-> s[4],
                      key_version |-> kv, nonce |-> ZeroNonce]
           e      == buildEncryptedFrameBytes(header, s[3])
<1>1. /\ kv # 0
      /\ sealed' = Append(sealed, e) /\ wire' = sealed'[Len(sealed')].bytes
      /\ UNCHANGED <<cfg, up, store, enrolled>>
  BY Zenon DEF processHwUid
<1>2. s[1] \in Readers /\ s[2] \in Readers /\ s[3] \in Cards /\ s[4] \in Nat /\ Fits(s[4], U64)
  BY KeyedAssumption
<1>3. s[1] \in Nat /\ s[2] \in Nat /\ ts \in Nat /\ Fits(s[1], U32) /\ Fits(s[2], U32) /\ Fits(ts, U64)
  BY <1>2, Bounds
<1>4. kv \in 1..MaxKv /\ kv \in Nat /\ Fits(kv, U32)
  <2>1. kv \in 0..MaxKv
    BY <1>2 DEF KInv, StateOK, StoreType, currentKeyVersionForReader
  <2>2. Fits(kv, U32)
    BY <2>1, Bounds
  <2> HIDE DEF kv
  <2> QED
    BY <1>1, <2>1, <2>2, Bounds
<1> HIDE DEF kv
<1>5. /\ header \in HeaderType /\ HeaderFits(header)
      /\ header.reader_id = s[1] /\ header.key_version = kv
  <2>1. header \in HeaderType
    BY <1>2, <1>3, <1>4, ZeroNonceType DEF HeaderType
  <2>2. HeaderFits(header)
    BY <1>2, <1>3, <1>4 DEF HeaderFits
  <2> QED
    BY <2>1, <2>2
<1> HIDE DEF header
<1>6. SealOK(e) /\ MadeOnce(sealed, e, Len(sealed) + 1)
  BY <1>2, <1>4, <1>5, Builds DEF KInv
<1> HIDE DEF e
<1>7. SealedOK(sealed')
  BY <1>1, <1>6, AppendHistory DEF KInv
<1>8. WireOK(wire')
  <2>1. Len(sealed') \in 1..Len(sealed')
    <3>1. PICK S : sealed \in Seq(S)
      BY DEF KInv, SealedOK, IsHistory
    <3>2. sealed \in Seq(S \cup {e})
      BY <3>1
    <3>3. Len(Append(sealed, e)) = Len(sealed) + 1 /\ Len(sealed) \in Nat
      BY <3>2
    <3> QED
      BY <1>1, <3>3
  <2>2. SealOK(sealed'[Len(sealed')])
    BY <1>7, <2>1 DEF SealedOK, Numbered
  <2>3. WireOK(sealed'[Len(sealed')].bytes)
    BY <2>2, SealIsFrame DEF WireOK
  <2> QED
    BY <1>1, <2>3
<1>9. StateOK(store, cfg, up)' /\ EnrolledOK(store, enrolled)'
  BY <1>1 DEF KInv, StateOK, EnrolledOK
<1> QED
  BY <1>7, <1>8, <1>9 DEF KInv

\* The bytes under way change and nothing else.
LEMMA DamageStep ==
    ASSUME KInv, NEW bs, Damaged(bs), WireOK(bs)
    PROVE  KInv'
<1>1. wire' = bs /\ UNCHANGED <<cfg, up, store, sealed, enrolled>>
  BY DEF Damaged
<1> QED
  BY <1>1 DEF KInv, StateOK, EnrolledOK

LEMMA SealedBytes ==
    ASSUME KInv, NEW i \in DOMAIN sealed
    PROVE  WireOK(sealed[i].bytes)
<1>1. i \in Nat /\ i \in 1..Len(sealed)
  BY HistoryDomain DEF KInv, SealedOK
<1>2. SealOK(sealed[i])
  BY <1>1 DEF KInv, SealedOK, Numbered
<1> QED
  BY <1>2, SealIsFrame DEF WireOK

\* A card is enrolled.
LEMMA CardStep ==
    ASSUME KInv, NEW e \in Enrolments, NEW asked \in 0..MaxKv, UpsertCard(e[1], e[2], asked)
    PROVE  KInv'
<1> DEFINE v == IF asked = 0 THEN cfg.keyManagement.currentKeyVersion ELSE asked
           c == e[1]
           role == e[2]
<1>1. /\ up
      /\ store' = upsertCardHmac(store, hmacHex(deriveCardPepper(v), c), role)
      /\ enrolled' = [enrolled EXCEPT ![c] = [version |-> v, role |-> role]]
      /\ UNCHANGED <<cfg, up, sealed, wire>>
  BY DEF UpsertCard, Changed
<1>2. c \in Cards /\ role \in Roles /\ role # NoRole
  BY KeyedAssumption, StoreAssumption
<1>3. v \in 1..MaxKv /\ v \in 0..MaxKv
  <2>1. asked # 0 => asked \in 1..MaxKv
    BY Bounds
  <2>2. cfg.keyManagement.currentKeyVersion \in 0..MaxKv
    BY KeyedAssumption DEF KInv, StateOK
  <2>3. cfg.keyManagement.currentKeyVersion # 0
    BY <1>1 DEF KInv, StateOK, Starts
  <2> QED
    BY <2>1, <2>2, <2>3, Bounds
<1> HIDE DEF v
<1>4. store' = [store EXCEPT !.cards[<<c, v>>] = role]
  BY <1>1, <1>3, HmacName DEF upsertCardHmac
<1> HIDE DEF c, role
<1>5. <<c, v>> \in CardHmacs
  BY <1>2, <1>3 DEF CardHmacs
<1>6. store' \in StoreType
  BY <1>2, <1>4, <1>5 DEF KInv, StateOK, StoreType
<1>7. /\ store'.cards[<<c, v>>] = role
      /\ \A h \in CardHmacs : h # <<c, v>> => store'.cards[h] = store.cards[h]
  BY <1>4, <1>5 DEF KInv, StateOK, StoreType
<1>8. /\ DOMAIN enrolled' = Cards /\ enrolled'[c] = [version |-> v, role |-> role]
      /\ \A d \in Cards : d # c => enrolled'[d] = enrolled[d]
  BY <1>1, <1>2 DEF KInv, EnrolledOK
<1>9. ASSUME NEW d \in Cards, enrolled'[d] # Unenrolled
      PROVE  /\ enrolled'[d].version \in 1..MaxKv /\ enrolled'[d].role # NoRole
             /\ store'.cards[<<d, enrolled'[d].version>>] = enrolled'[d].role
  <2>1. CASE d = c
    BY <1>2, <1>3, <1>7, <1>8, <2>1
  <2>2. CASE d # c
    <3>1. /\ enrolled[d].version \in 1..MaxKv /\ enrolled[d].role # NoRole
          /\ store.cards[<<d, enrolled[d].version>>] = enrolled[d].role
      BY <1>8, <1>9, <2>2 DEF KInv, EnrolledOK, roleForCardHmac
    <3>2. <<d, enrolled[d].version>> \in CardHmacs /\ <<d, enrolled[d].version>> # <<c, v>>
      BY <2>2, <3>1 DEF CardHmacs
    <3> QED
      BY <1>7, <1>8, <2>2, <3>1, <3>2
  <2> QED
    BY <2>1, <2>2
<1>10. EnrolledOK(store, enrolled)'
  BY <1>8, <1>9 DEF EnrolledOK, roleForCardHmac
<1>11. StateOK(store, cfg, up)'
  BY <1>1, <1>6 DEF KInv, StateOK
<1> QED
  BY <1>1, <1>10, <1>11 DEF KInv

\* A row is deleted.
LEMMA DeleteStep ==
    ASSUME KInv, NEW h \in CardHmacs, DeleteCard(h)
    PROVE  KInv'
<1>1. /\ store' = [store EXCEPT !.cards[h] = NoRole]
      /\ enrolled' = [enrolled EXCEPT ![h[1]] =
                        IF @ # Unenrolled /\ @.version = h[2] THEN Unenrolled ELSE @]
      /\ UNCHANGED <<cfg, up, sealed, wire>>
  BY DEF DeleteCard, Changed, deleteCardHmac
<1>2. h[1] \in Cards /\ h = <<h[1], h[2]>>
  BY DEF CardHmacs
<1>3. store' \in StoreType
  BY <1>1 DEF KInv, StateOK, StoreType
<1>4. \A g \in CardHmacs : g # h => store'.cards[g] = store.cards[g]
  BY <1>1 DEF KInv, StateOK, StoreType
<1>5. DOMAIN enrolled' = Cards
  BY <1>1 DEF KInv, EnrolledOK
<1>6. \A d \in Cards : enrolled'[d] # Unenrolled =>
                          enrolled'[d] = enrolled[d] /\ (d = h[1] => enrolled[d].version # h[2])
  BY <1>1, <1>2 DEF KInv, EnrolledOK
<1>7. ASSUME NEW d \in Cards, enrolled'[d] # Unenrolled
      PROVE  /\ enrolled'[d].version \in 1..MaxKv /\ enrolled'[d].role # NoRole
             /\ store'.cards[<<d, enrolled'[d].version>>] = enrolled'[d].role
  <2>1. enrolled'[d] = enrolled[d] /\ (d = h[1] => enrolled[d].version # h[2])
    BY <1>6, <1>7
  <2>2. /\ enrolled[d].version \in 1..MaxKv /\ enrolled[d].role # NoRole
        /\ store.cards[<<d, enrolled[d].version>>] = enrolled[d].role
    BY <1>7, <2>1 DEF KInv, EnrolledOK, roleForCardHmac
  <2>3. <<d, enrolled[d].version>> \in CardHmacs /\ <<d, enrolled[d].version>> # h
    BY <1>2, <2>1, <2>2 DEF CardHmacs
  <2> QED
    BY <1>4, <2>1, <2>2, <2>3
<1>8. EnrolledOK(store, enrolled)'
  BY <1>5, <1>7 DEF EnrolledOK, roleForCardHmac
<1>9. StateOK(store, cfg, up)'
  BY <1>1, <1>3 DEF KInv, StateOK
<1> QED
  BY <1>1, <1>8, <1>9 DEF KInv

\* Every step keeps the invariant.
LEMMA StepKInv == KInv /\ [Next]_vars => KInv'
<1> SUFFICES ASSUME KInv, [Next]_vars
             PROVE  KInv'
  OBVIOUS
<1>0. WireOK(wire)
  BY DEF KInv
<1>1. ASSUME NEW s \in Scans, NEW ts \in Times, processHwUid(s[1], s[2], s[3], s[4], ts)
      PROVE  KInv'
  BY <1>1, ScanStep
<1>2. ASSUME NEW i \in DOMAIN sealed, Deliver(i)
      PROVE  KInv'
  <2>1. wire' = sealed[i].bytes /\ UNCHANGED <<cfg, up, store, sealed, enrolled>>
    BY <1>2 DEF Deliver
  <2>2. WireOK(wire')
    BY <1>2, <2>1, SealedBytes
  <2> QED
    BY <2>1, <2>2 DEF KInv, StateOK, EnrolledOK
<1>3. ASSUME NEW n \in DOMAIN wire, Truncate(n)
      PROVE  KInv'
  <2>1. Damaged(SubSeq(wire, 1, n))
    BY <1>3 DEF Truncate
  <2>2. WireOK(SubSeq(wire, 1, n))
    BY <1>0, <1>3, WireTruncated
  <2> QED
    BY <2>1, <2>2, DamageStep
<1>4. ASSUME NEW b \in 0..(Base - 1), Extend(b)
      PROVE  KInv'
  BY <1>0, <1>4, WireExtended, DamageStep DEF Extend
<1>5. ASSUME NEW b \in 0..(Base - 1), NEW i \in DOMAIN wire, Change(i, b)
      PROVE  KInv'
  BY <1>0, <1>5, WireChanged, DamageStep DEF Change
<1>6. ASSUME NEW i \in DOMAIN sealed, NEW n \in DOMAIN wire, Splice(i, n)
      PROVE  KInv'
  <2> DEFINE bs == SubSeq(wire, 1, n) \o SubSeq(sealed[i].bytes, n + 1, Len(sealed[i].bytes))
  <2>1. n < Len(sealed[i].bytes) /\ Damaged(bs)
    BY <1>6 DEF Splice
  <2>2. WireOK(sealed[i].bytes)
    BY <1>6, SealedBytes
  <2>3. WireOK(bs)
    BY <1>0, <1>6, <2>1, <2>2, WireSpliced
  <2> HIDE DEF bs
  <2> QED
    BY <2>1, <2>3, DamageStep
<1>7. CASE handleFrameBytes
  <2>1. UNCHANGED <<cfg, up, store, sealed, wire, enrolled>>
    BY <1>7 DEF handleFrameBytes
  <2> QED
    BY <2>1 DEF KInv, StateOK, EnrolledOK
<1>8. ASSUME NEW r \in Rotated, NEW v \in 0..MaxKv, UpsertReader(r, v)
      PROVE  KInv'
  <2>1. store' = upsertReader(store, r, v) /\ UNCHANGED <<cfg, up, sealed, wire, enrolled>>
    BY <1>8 DEF UpsertReader, Changed
  <2>2. r \in Readers
    BY <1>8, KeyedAssumption
  <2>3. store' \in StoreType /\ store'.cards = store.cards
    BY <1>8, <2>1, <2>2 DEF KInv, StateOK, StoreType, upsertReader
  <2>4. StateOK(store, cfg, up)' /\ EnrolledOK(store, enrolled)'
    BY <2>1, <2>3 DEF KInv, StateOK, EnrolledOK, roleForCardHmac
  <2> QED
    BY <2>1, <2>4 DEF KInv
<1>9. ASSUME NEW e \in Enrolments, NEW v \in 0..MaxKv, UpsertCard(e[1], e[2], v)
      PROVE  KInv'
  BY <1>9, CardStep
<1>10. ASSUME NEW h \in CardHmacs, DeleteCard(h)
       PROVE  KInv'
  BY <1>10, DeleteStep
<1>11. ASSUME NEW y \in Yamls, Restart(y)
       PROVE  KInv'
  <2>1. cfg' = loadFromYaml(y) /\ up' = Starts(cfg') /\ UNCHANGED <<store, sealed, wire, enrolled>>
    BY <1>11 DEF Restart, Changed
  <2>2. StateOK(store, cfg, up)'
    BY <1>11, <2>1, Zenon DEF KInv, StateOK
  <2>3. EnrolledOK(store, enrolled)'
    BY <2>1 DEF KInv, EnrolledOK
  <2> QED
    BY <2>1, <2>2, <2>3 DEF KInv
<1>12. CASE UNCHANGED vars
  BY <1>12 DEF KInv, StateOK, EnrolledOK, vars
<1>13. Idle => UNCHANGED vars
  BY DEF Idle
<1> QED
  BY <1>1, <1>2, <1>3, <1>4, <1>5, <1>6, <1>7, <1>8, <1>9, <1>10, <1>11, <1>12, <1>13 DEF Next

-----------------------------------------------------------------------------
(* Opening a frame.                                                        *)

\* What the endpoint has found out when it goes on to the card.
LEMMA VerdictOk ==
    ASSUME frameVerdict(wire) = "ok"
    PROVE  /\ parseError(wire, cfg.frameHandler.maxCtLen) = "ok"
           /\ ~ NonceMismatch(parse(wire).header)
           /\ opened(parse(wire)) # {}
<1> DEFINE p == parseError(wire, cfg.frameHandler.maxCtLen)
           q == NonceMismatch(IF p = "ok" THEN parse(wire).header ELSE ZeroHeader)
<1>1. frameVerdict(wire) = IF q THEN "quarantined" ELSE IF p # "ok" THEN p ELSE handleVerdict(parse(wire))
  BY Zenon DEF frameVerdict
<1> HIDE DEF p, q
<1>2. ~ q /\ p = "ok" /\ handleVerdict(parse(wire)) = "ok"
  BY <1>1
<1>3. ~ NonceMismatch(parse(wire).header)
  BY <1>2 DEF q
<1>4. opened(parse(wire)) # {}
  <2> DEFINE f == parse(wire)
             o == opened(f)
             k == keyVersionOk(f.header.key_version, currentKeyVersionForReader(store, f.header.reader_id))
             u == currentKeyVersionForReader(store, f.header.reader_id) = 0
             d == /\ cfg.frameHandler.enforceReaderDoorBinding
                  /\ ~ isReaderAllowedDoor(store, f.header.reader_id, f.header.door_id)
  <2>1. handleVerdict(f) = IF u THEN "unknown_reader" ELSE IF d THEN "reader_door_forbidden"
                           ELSE IF ~ k THEN "bad_key_version"
                           ELSE IF o = {} THEN "decrypt_failed" ELSE "ok"
    BY Zenon DEF handleVerdict
  <2> HIDE DEF f, o, k, u, d
  <2>2. o # {}
    BY <1>2, <2>1 DEF f
  <2> QED
    BY <2>2 DEF o, f
<1> QED
  BY <1>2, <1>3, <1>4 DEF p

\* A frame that opens was sealed, and how much of it is as it was sealed.
LEMMA OpenedAsSealed ==
    ASSUME KInv, frameVerdict(wire) = "ok", NEW card \in opened(parse(wire))
    PROVE  \E i \in DOMAIN sealed :
             LET s == sealed[i].header
                 h == parse(wire).header
             IN  /\ sealed[i].pt = card
                 /\ cfg.experiment.aadMode # "none" => sealed[i].bytes = wire
                 /\ cfg.experiment.keyDerivationMode # "direct" =>
                      s.reader_id = h.reader_id /\ s.key_version = h.key_version
                 /\ cfg.experiment.nonceMode = "deterministic"
                    /\ cfg.experiment.misuseDetectionEnabled =>
                      [s EXCEPT !.nonce = ZeroNonce] = [h EXCEPT !.nonce = ZeroNonce]
<1> DEFINE f == parse(wire)
           h == f.header
           c == cfg.experiment.cipherMode
<1>1. /\ Len(sealed) \in Nat /\ DOMAIN sealed = 1..Len(sealed)
      /\ \A i \in 1..Len(sealed) : i \in Nat
  BY HistoryDomain DEF KInv, SealedOK
<1>2. wire \in Seq(Nat) /\ IntBytes(wire)
  BY DEF KInv, WireOK
<1>3. /\ h \in HeaderType /\ HeaderFits(h) /\ f.ct \in Seq(Nat) /\ f.tag \in Seq(Nat)
      /\ IsFrame(wire, h, f.ct, f.tag)
  BY <1>2, VerdictOk, ParsedFrame
<1>4. ~ NonceMismatch(h)
  BY VerdictOk
<1>5. PICK i \in 1..Len(sealed) :
        /\ SameSealing(sealed[i], aeadKey(h.reader_id, h.key_version), c, h.nonce, aad(h))
        /\ sealed[i].ct = f.ct /\ sealed[i].tag = f.tag /\ sealed[i].pt = card
  BY <1>1 DEF opened, openWithNonce
<1> HIDE DEF f, h, c
<1> DEFINE e == sealed[i]
           s == e.header
<1>6. /\ e.key = aeadKey(h.reader_id, h.key_version) /\ e.cipher = c /\ e.aad = aad(h)
      /\ nonceEqual(c, e.nonce, h.nonce)
  BY <1>5 DEF SameSealing
<1>7. SealOK(e) /\ \E n \in 1..i : NonceMadeAt(sealed, e, i, n)
  BY DEF KInv, SealedOK, Numbered, MadeOnce
<1>8. e.ct = f.ct /\ e.tag = f.tag /\ e.pt = card
  BY <1>5
<1> HIDE DEF e
<1>9. /\ s \in HeaderType /\ HeaderFits(s) /\ e.key = SealKey(e.modes, s) /\ e.aad = SealAad(e.modes, s)
  BY <1>7 DEF SealOK
<1> HIDE DEF s
<1>10. ASSUME cfg.experiment.aadMode # "none"
       PROVE  e.bytes = wire
  <2>1. e.aad = to_bytes(h)
    BY <1>6, <1>10 DEF aad
  <2>2. e.aad = to_bytes(s)
    BY <1>3, <1>9, <2>1, ToBytesSome DEF SealAad
  <2>3. /\ put_le(s.reader_id, U32) = put_le(h.reader_id, U32)
        /\ put_le(s.door_id, U32) = put_le(h.door_id, U32)
        /\ put_le(s.ts_unix_ms, U64) = put_le(h.ts_unix_ms, U64)
        /\ put_le(s.seq, U64) = put_le(h.seq, U64)
        /\ put_le(s.key_version, U32) = put_le(h.key_version, U32)
        /\ s.nonce = h.nonce
    BY <1>3, <1>9, <2>1, <2>2, ToBytesSame
  <2>4. IsFrame(e.bytes, s, e.ct, e.tag)
    BY <1>7, SealIsFrame DEF s
  <2>5. IsFrame(wire, s, e.ct, e.tag)
    BY <1>3, <1>8, <2>3 DEF IsFrame
  <2> QED
    BY <1>3, <1>8, <2>4, <2>5, FrameUnique
<1>11. ASSUME cfg.experiment.keyDerivationMode # "direct"
       PROVE  s.reader_id = h.reader_id /\ s.key_version = h.key_version
  <2>1. e.key = deriveAeadKey(h.reader_id, h.key_version)
    BY <1>6, <1>11 DEF aeadKey
  <2>2. e.key = deriveAeadKey(s.reader_id, s.key_version)
    BY <1>9, <2>1, MasterKey DEF SealKey
  <2>3. /\ s.reader_id \in Nat /\ s.key_version \in Nat /\ h.reader_id \in Nat /\ h.key_version \in Nat
        /\ Fits(s.reader_id, U32) /\ Fits(s.key_version, U32)
        /\ Fits(h.reader_id, U32) /\ Fits(h.key_version, U32)
    BY <1>3, <1>9 DEF HeaderType, HeaderFits
  <2>4. deriveAeadKey(s.reader_id, s.key_version) = deriveAeadKey(h.reader_id, h.key_version)
    BY <2>1, <2>2, Zenon
  <2>5. s.reader_id = h.reader_id
    BY <2>3, <2>4, KeyInjective
  <2>6. s.key_version = h.key_version
    BY <2>3, <2>4, KeyInjective
  <2> QED
    BY <2>5, <2>6
<1>12. ASSUME cfg.experiment.nonceMode = "deterministic", cfg.experiment.misuseDetectionEnabled
       PROVE  [s EXCEPT !.nonce = ZeroNonce] = [h EXCEPT !.nonce = ZeroNonce]
  <2> DEFINE key  == deriveNonceKey(h.reader_id, h.key_version)
             ctx  == nonceContext(h)
  <2>1. nonceEqual(c, h.nonce, HmacNonce(sealed, key, ctx))
    BY <1>4, <1>12 DEF NonceMismatch, c
  <2> HIDE DEF key, ctx
  <2>2. PICK m \in 1..(Len(sealed) + 1) :
          HmacNonce(sealed, key, ctx) = FreshNonce(m) /\ FirstWith(sealed, <<key, ctx>>, m)
    BY HmacNonceOf DEF KInv, SealedOK
  <2>3. PICK n \in 1..i : NonceMadeAt(sealed, e, i, n)
    BY <1>7
  <2>4. n = m
    <3>1. nonceEqual(c, NonceUsed(c, FreshNonce(n)), h.nonce)
      BY <1>6, <2>3 DEF NonceMadeAt
    <3>2. nonceEqual(c, h.nonce, FreshNonce(m))
      BY <2>1, <2>2
    <3>3. n \in Nat /\ m \in Nat
      BY <1>1
    <3> QED
      BY <3>1, <3>2, <3>3, NonceRecognised
  <2>5. e.nonceOf = <<key, ctx>>
    <3>1. sealed[n].nonceOf = <<key, ctx>>
      BY <1>1, <2>2, <2>4 DEF FirstWith
    <3> QED
      BY <2>3, <3>1 DEF NonceMadeAt, e
  <2>6. e.nonceOf = NonceOf(s)
    <3>1. \A x, y : <<x, y>> # << >>
      OBVIOUS
    <3> QED
      BY <1>7, <2>5, <3>1, InputSome DEF s
  <2>7. nonceContext(s) = nonceContext(h)
    BY <2>5, <2>6 DEF NonceOf, ctx
  <2> QED
    BY <1>3, <1>9, <2>7, ContextSame
<1> QED
  BY <1>1, <1>8, <1>10, <1>11, <1>12 DEF e, s, f, h

\* What the endpoint answers.
LEMMA Answer ==
    ASSUME handleFrameBytes
    PROVE  LET h    == parse(wire).header
               card == CHOOSE c \in opened(parse(wire)) : TRUE
               role == resolveCardHmac(card, currentKeyVersionForReader(store, h.reader_id))
           IN  /\ UNCHANGED <<cfg, up, store, sealed, wire, enrolled>>
               /\ frameVerdict(wire) # "ok" => result' = [reason |-> frameVerdict(wire)]
               /\ frameVerdict(wire) = "ok" =>
                    /\ card \in opened(parse(wire))
                    /\ "card" \in DOMAIN result'
                    /\ result'.card = card /\ result'.role = role /\ result'.header = h
                    /\ role # NoRole => result'.reason \in {"ok", "forbidden"}
<1> DEFINE h    == parse(wire).header
           card == CHOOSE c \in opened(parse(wire)) : TRUE
           role == resolveCardHmac(card, currentKeyVersionForReader(store, h.reader_id))
           why  == IF role = NoRole THEN "unknown_card"
                   ELSE IF isAllowed(store, h.door_id, role) THEN "ok" ELSE "forbidden"
           v    == frameVerdict(wire)
<1>1. /\ result' = IF v # "ok" THEN [reason |-> v]
                   ELSE [card |-> card, role |-> role, header |-> h, reason |-> why]
      /\ UNCHANGED <<cfg, up, store, sealed, wire, enrolled>>
  BY Zenon DEF handleFrameBytes
<1>2. v = "ok" => card \in opened(parse(wire))
  BY VerdictOk
<1>3. role # NoRole => why \in {"ok", "forbidden"}
  <2> HIDE DEF role
  <2> QED
    OBVIOUS
<1> HIDE DEF h, card, role, why, v
<1>4. v = "ok" => /\ "card" \in DOMAIN result' /\ result'.card = card /\ result'.role = role
                  /\ result'.header = h /\ result'.reason = why
  BY <1>1
<1>5. v # "ok" => result' = [reason |-> v]
  BY <1>1
<1> QED
  BY <1>1, <1>2, <1>3, <1>4, <1>5 DEF h, card, role, v

-----------------------------------------------------------------------------
(* Resolving a card.                                                       *)

RoleUnder(v, card) == roleForCardHmac(store, hmacHex(deriveCardPepper(v), card))

\* The first pepper under which the card has a row decides.
LEMMA Resolves ==
    ASSUME NEW card, NEW cur, NEW k \in DOMAIN Peppers(cur),
           RoleUnder(Peppers(cur)[k], card) # NoRole
    PROVE  /\ resolveCardHmac(card, cur) # NoRole
           /\ k = 1 => resolveCardHmac(card, cur) = RoleUnder(Peppers(cur)[k], card)
<1> DEFINE role(i) == roleForCardHmac(store, hmacHex(deriveCardPepper(Peppers(cur)[i]), card))
           Found   == {i \in DOMAIN Peppers(cur) : role(i) # NoRole}
           least   == CHOOSE i \in Found : \A j \in Found : i <= j
<1>1. resolveCardHmac(card, cur) = IF Found = {} THEN NoRole ELSE role(least)
  BY Zenon DEF resolveCardHmac
<1>2. \A i : role(i) = RoleUnder(Peppers(cur)[i], card)
  BY Zenon DEF RoleUnder
<1>3. \A i \in DOMAIN Peppers(cur) : i \in Nat /\ i >= 1
  BY DEF Peppers
<1>4. k \in Found
  BY <1>2
<1>5. \A i \in Found : i \in DOMAIN Peppers(cur) /\ role(i) # NoRole
  OBVIOUS
<1> HIDE DEF role, Found
<1>6. Found \subseteq Nat
  BY <1>3, <1>5
<1>7. least \in Found /\ \A j \in Found : least <= j
  <2>1. Found \in SUBSET Nat /\ Found # {}
    BY <1>4, <1>6
  <2>2. \E i \in Found : \A j \in Found : i <= j
    BY <2>1, LeastNumber
  <2> QED
    BY <2>2
<1> HIDE DEF least
<1>8. resolveCardHmac(card, cur) = role(least)
  BY <1>1, <1>4
<1>9. k = 1 => least = 1
  BY <1>3, <1>4, <1>5, <1>6, <1>7
<1> QED
  BY <1>2, <1>5, <1>7, <1>8, <1>9

-----------------------------------------------------------------------------
(* Theorems.                                                               *)

\* What the theorems below rest on: of the state, of every frame sealed and of the
\* bytes under way.
THEOREM InvAlways == Spec => []KInv
<1>1. Init => KInv
  BY InitKInv
<1>2. KInv /\ [Next]_vars => KInv'
  BY StepKInv
<1> QED
  BY <1>1, <1>2, PTL DEF Spec

\* Two frames are sealed under the same key, cipher and nonce only if both nonces
\* are deterministic and the two headers are the same, in any mixture of modes,
\* rotations and restarts and whatever numbers the devices send:
\* buildEncryptedFrameBytes computes the nonce from the whole header, so that it
\* repeats when a number is used again for the same reader, door and millisecond
\* and in no other case.
THEOREM NoncesRepeatOnlyWithHeader == Spec => []NonceRepeatsOnlyWithHeader
<1>1. KInv => NonceRepeatsOnlyWithHeader
  <2> SUFFICES ASSUME KInv, NEW i \in DOMAIN sealed, NEW j \in DOMAIN sealed, i # j,
                      sealed[i].cipher = sealed[j].cipher,
                      nonceEqual(sealed[i].cipher, sealed[i].nonce, sealed[j].nonce)
               PROVE  /\ sealed[i].modes.nonceMode # "random" /\ sealed[j].modes.nonceMode # "random"
                      /\ sealed[i].header = sealed[j].header
    BY DEF NonceRepeatsOnlyWithHeader
  <2> DEFINE x == sealed[i]   y == sealed[j]
  <2>1. /\ i \in 1..Len(sealed) /\ j \in 1..Len(sealed) /\ Len(sealed) \in Nat
        /\ i \in Nat /\ j \in Nat
    BY HistoryDomain DEF KInv, SealedOK
  <2>2. SealOK(x) /\ MadeOnce(sealed, x, i) /\ SealOK(y) /\ MadeOnce(sealed, y, j)
    BY <2>1 DEF KInv, SealedOK, Numbered
  <2>3. PICK n \in 1..i : NonceMadeAt(sealed, x, i, n)
    BY <2>2 DEF MadeOnce
  <2>4. PICK m \in 1..j : NonceMadeAt(sealed, y, j, m)
    BY <2>2 DEF MadeOnce
  \* The nonces were made for the same sealing ...
  <2>5. n = m
    <3>1. NonceUsed(x.cipher, FreshNonce(n)) = NonceUsed(x.cipher, FreshNonce(m))
      BY <2>3, <2>4, NonceUsedTwice DEF nonceEqual, NonceMadeAt
    <3>2. n \in Nat /\ m \in Nat
      BY <2>1
    <3> QED
      BY <3>1, <3>2, NonceInjective
  \* ... which is not both of these, so that they have its input.
  <2>6. x.nonceOf = y.nonceOf /\ x.nonceOf # << >>
    <3>1. sealed[n].nonceOf = x.nonceOf /\ (x.nonceOf = << >> => n = i)
      BY <2>3 DEF NonceMadeAt
    <3>2. sealed[n].nonceOf = y.nonceOf /\ (y.nonceOf = << >> => n = j)
      BY <2>4, <2>5 DEF NonceMadeAt
    <3> QED
      BY <3>1, <3>2
  <2>7. /\ x.modes.nonceMode # "random" /\ x.nonceOf = NonceOf(x.header)
        /\ y.modes.nonceMode # "random" /\ y.nonceOf = NonceOf(y.header)
    BY <2>2, <2>6, InputSome
  <2>8. /\ x.header \in HeaderType /\ HeaderFits(x.header) /\ x.header.nonce = x.nonce
        /\ y.header \in HeaderType /\ HeaderFits(y.header) /\ y.header.nonce = y.nonce
    BY <2>2 DEF SealOK
  <2>9. [x.header EXCEPT !.nonce = ZeroNonce] = [y.header EXCEPT !.nonce = ZeroNonce]
    <3>1. nonceContext(x.header) = nonceContext(y.header)
      <4>1. NonceOf(x.header) = NonceOf(y.header)
        BY <2>6, <2>7
      <4> HIDE DEF x, y
      <4> QED
        BY <4>1 DEF NonceOf
    <3> QED
      BY <2>8, <3>1, ContextSame
  <2>10. x.header.nonce = y.header.nonce
    BY <2>3, <2>4, <2>5, <2>8 DEF NonceMadeAt
  <2> HIDE DEF x, y
  <2>11. x.header = y.header
    BY <2>8, <2>9, <2>10, SMTT(30) DEF HeaderType
  <2> QED
    BY <2>7, <2>11 DEF x, y
<1> QED
  BY <1>1, InvAlways, PTL

\* Every step but the endpoint's forgets the last answer or changes nothing.
LEMMA AnswerForgotten ==
    ASSUME [Next]_vars
    PROVE  handleFrameBytes \/ result' = NoResult \/ UNCHANGED vars
<1>1. ASSUME NEW s \in Scans, NEW ts \in Times, processHwUid(s[1], s[2], s[3], s[4], ts)
      PROVE  result' = NoResult
  BY <1>1, Zenon DEF processHwUid
<1>2. ASSUME NEW i \in DOMAIN sealed, Deliver(i)
      PROVE  result' = NoResult
  BY <1>2 DEF Deliver
<1>3. ASSUME NEW n \in DOMAIN wire, Truncate(n)
      PROVE  result' = NoResult
  BY <1>3 DEF Truncate, Damaged
<1>4. ASSUME NEW b \in 0..(Base - 1), Extend(b)
      PROVE  result' = NoResult
  BY <1>4 DEF Extend, Damaged
<1>5. ASSUME NEW b \in 0..(Base - 1), NEW i \in DOMAIN wire, Change(i, b)
      PROVE  result' = NoResult
  BY <1>5 DEF Change, Damaged
<1>6. ASSUME NEW i \in DOMAIN sealed, NEW n \in DOMAIN wire, Splice(i, n)
      PROVE  result' = NoResult
  BY <1>6 DEF Splice, Damaged
<1>7. ASSUME NEW r \in Rotated, NEW v \in 0..MaxKv, UpsertReader(r, v)
      PROVE  result' = NoResult
  BY <1>7 DEF UpsertReader, Changed
<1>8. ASSUME NEW e \in Enrolments, NEW v \in 0..MaxKv, UpsertCard(e[1], e[2], v)
      PROVE  result' = NoResult
  BY <1>8 DEF UpsertCard, Changed
<1>9. ASSUME NEW h \in CardHmacs, DeleteCard(h)
      PROVE  result' = NoResult
  BY <1>9 DEF DeleteCard, Changed
<1>10. ASSUME NEW y \in Yamls, Restart(y)
       PROVE  result' = NoResult
  BY <1>10 DEF Restart, Changed
<1>11. Idle => UNCHANGED vars
  BY DEF Idle
<1> QED
  BY <1>1, <1>2, <1>3, <1>4, <1>5, <1>6, <1>7, <1>8, <1>9, <1>10, <1>11 DEF Next

\* A frame that the endpoint opens was sealed by the hardware service for that
\* card: byte for byte with the associated data, for the same reader and key
\* version with derived keys, and with the same header with checked
\* deterministic nonces.  However the bytes were cut, lengthened, changed and
\* spliced on the way, and whatever else was sealed.
THEOREM AcceptedAlwaysSealed == Spec => []AcceptedAsSealed
<1>1. Init => AcceptedAsSealed
  BY DEF Init, AcceptedAsSealed, Opened
<1>2. ASSUME KInv, AcceptedAsSealed, [Next]_vars
      PROVE  AcceptedAsSealed'
  <2>1. CASE handleFrameBytes
    <3>1. CASE frameVerdict(wire) # "ok"
      <4>1. result' = [reason |-> frameVerdict(wire)]
        BY <2>1, <3>1, Answer, Zenon
      <4>2. "card" \notin DOMAIN result'
        BY <4>1
      <4> QED
        BY <4>2 DEF AcceptedAsSealed, Opened
    <3>2. CASE frameVerdict(wire) = "ok"
      <4> DEFINE card == CHOOSE c \in opened(parse(wire)) : TRUE
                 h == parse(wire).header
      <4>1. /\ cfg' = cfg /\ sealed' = sealed /\ wire' = wire
            /\ card \in opened(parse(wire)) /\ result'.card = card /\ result'.header = h
        BY <2>1, <3>2, Answer, Zenon
      <4> HIDE DEF card
      <4>2. PICK i \in DOMAIN sealed :
              /\ sealed[i].pt = card
              /\ cfg.experiment.aadMode # "none" => sealed[i].bytes = wire
              /\ cfg.experiment.keyDerivationMode # "direct" =>
                   sealed[i].header.reader_id = h.reader_id
                   /\ sealed[i].header.key_version = h.key_version
              /\ cfg.experiment.nonceMode = "deterministic"
                 /\ cfg.experiment.misuseDetectionEnabled =>
                   [sealed[i].header EXCEPT !.nonce = ZeroNonce] = [h EXCEPT !.nonce = ZeroNonce]
        BY <1>2, <3>2, <4>1, OpenedAsSealed, Zenon
      <4> HIDE DEF h
      <4> QED
        BY <4>1, <4>2, Zenon DEF AcceptedAsSealed, ZeroNonce
    <3> QED
      BY <3>1, <3>2
  <2>2. CASE result' = NoResult
    BY <2>2 DEF AcceptedAsSealed, Opened
  <2>3. CASE UNCHANGED vars
    BY <1>2, <2>3 DEF vars, AcceptedAsSealed, Opened
  <2> QED
    BY <1>2, <2>1, <2>2, <2>3, AnswerForgotten
<1> QED
  BY <1>1, <1>2, InvAlways, PTL DEF Spec

\* A card enrolled anew under the reader's current version gets its new role at
\* once, whatever rows it still has: resolveCardHmac tries the current pepper
\* first, and the row of the latest enrolment is the one under it.
THEOREM RoleAlwaysLatest == Spec => []RoleIsLatest
<1>1. Init => RoleIsLatest
  BY DEF Init, RoleIsLatest, Opened
<1>2. ASSUME KInv, RoleIsLatest, [Next]_vars
      PROVE  RoleIsLatest'
  <2>1. CASE handleFrameBytes
    <3>1. CASE frameVerdict(wire) # "ok"
      <4>1. result' = [reason |-> frameVerdict(wire)]
        BY <2>1, <3>1, Answer, Zenon
      <4>2. "card" \notin DOMAIN result'
        BY <4>1
      <4> QED
        BY <4>2 DEF RoleIsLatest, Opened
    <3>2. CASE frameVerdict(wire) = "ok"
      <4> DEFINE card == CHOOSE c \in opened(parse(wire)) : TRUE
                 h    == parse(wire).header
                 cur  == currentKeyVersionForReader(store, h.reader_id)
                 e    == enrolled[card]
      <4>1. /\ cfg' = cfg /\ store' = store /\ enrolled' = enrolled
            /\ card \in opened(parse(wire)) /\ result'.card = card /\ result'.header = h
            /\ result'.role = resolveCardHmac(card, cur)
        BY <2>1, <3>2, Answer, Zenon
      <4> HIDE DEF card
      <4>2. card \in Cards
        <5>1. PICK i \in DOMAIN sealed : sealed[i].pt = card
          BY <1>2, <3>2, <4>1, OpenedAsSealed, Zenon
        <5>2. i \in 1..Len(sealed)
          BY <1>2, HistoryDomain DEF KInv, SealedOK
        <5> QED
          BY <1>2, <5>1, <5>2 DEF KInv, SealedOK, Numbered, SealOK
      <4> HIDE DEF h, cur
      <4>3. ASSUME cfg.experiment.pepperMode # "static", e # Unenrolled, e.version = cur
            PROVE  resolveCardHmac(card, cur) = e.role
        <5>1. cur \in 1..MaxKv /\ e.role # NoRole /\ roleForCardHmac(store, <<card, cur>>) = e.role
          BY <1>2, <4>2, <4>3 DEF KInv, EnrolledOK
        <5>2. 1 \in DOMAIN Peppers(cur) /\ Peppers(cur)[1] = cur
          BY <4>3 DEF Peppers
        <5>3. cur \in 0..MaxKv
          BY <5>1, Bounds
        <5>4. RoleUnder(Peppers(cur)[1], card) = e.role
          BY <5>1, <5>2, <5>3, HmacName DEF RoleUnder
        <5> QED
          BY <5>1, <5>2, <5>4, Resolves
      <4>4. SUFFICES ASSUME cfg.experiment.pepperMode # "static", e # Unenrolled, e.version = cur
                     PROVE  result'.role = e.role
        BY <4>1, Zenon DEF RoleIsLatest, cur
      <4> QED
        BY <4>1, <4>3, <4>4
    <3> QED
      BY <3>1, <3>2
  <2>2. CASE result' = NoResult
    BY <2>2 DEF RoleIsLatest, Opened
  <2>3. CASE UNCHANGED vars
    BY <1>2, <2>3 DEF vars, RoleIsLatest, Opened
  <2> QED
    BY <1>2, <2>1, <2>2, <2>3, AnswerForgotten
<1> QED
  BY <1>1, <1>2, InvAlways, PTL DEF Spec

\* The endpoint opens a legitimate frame, and to the card it was sealed for.
LEMMA LegitimateOpens ==
    ASSUME KInv, NEW i \in DOMAIN sealed, Legitimate(sealed[i])
    PROVE  /\ frameVerdict(wire) = "ok"
           /\ parse(wire).header = sealed[i].header
           /\ opened(parse(wire)) = {sealed[i].pt}
<1> DEFINE e   == sealed[i]
           h   == e.header
           cur == currentKeyVersionForReader(store, h.reader_id)
           m   == cfg.frameHandler.maxCtLen
           c   == cfg.experiment.cipherMode
<1>1. /\ Len(sealed) \in Nat /\ DOMAIN sealed = 1..Len(sealed)
      /\ i \in 1..Len(sealed) /\ \A j \in 1..Len(sealed) : j \in Nat
  BY HistoryDomain DEF KInv, SealedOK
<1>2. \A j \in 1..Len(sealed) : SealOK(sealed[j]) /\ MadeOnce(sealed, sealed[j], j)
  BY DEF KInv, SealedOK, Numbered
<1>3. SealOK(e) /\ MadeOnce(sealed, e, i)
  BY <1>1, <1>2
<1>4. /\ e.bytes = wire /\ e.modes = cfg.experiment /\ PtLen[e.pt] <= m
      /\ isReaderAllowedDoor(store, h.reader_id, h.door_id)
      /\ cur = h.key_version \/ (cur = h.key_version + 1 /\ cfg.frameHandler.allowPreviousKeyVersion)
  <2>1. /\ e.bytes = wire /\ e.modes = cfg.experiment /\ PtLen[e.pt] <= m
        /\ isReaderAllowedDoor(store, h.reader_id, h.door_id)
        /\ cur \in {h.key_version, h.key_version + 1}
        /\ cur # h.key_version => cfg.frameHandler.allowPreviousKeyVersion
    BY Zenon DEF Legitimate
  <2> QED
    BY <2>1, Zenon
<1>5. m \in Nat
  BY KeyedAssumption DEF KInv, StateOK
<1> HIDE DEF e, m, c, cur
<1>6. /\ h \in HeaderType /\ HeaderFits(h) /\ h.key_version \in 1..MaxKv
      /\ e.cipher = c /\ e.key = SealKey(cfg.experiment, h) /\ e.aad = SealAad(cfg.experiment, h)
      /\ h.nonce = e.nonce
      /\ e.nonceOf = IF cfg.experiment.nonceMode = "random" THEN << >> ELSE NonceOf(h)
  BY <1>3, <1>4 DEF SealOK, c
<1>7. /\ parseError(wire, m) = "ok"
      /\ parse(wire) = [header |-> h, ct |-> e.ct, tag |-> e.tag]
  <2>1. /\ e.ct \in Seq(Nat) /\ e.tag \in Seq(Nat) /\ Len(e.tag) = TagSize
        /\ Len(e.ct) = PtLen[e.pt] /\ Fits(Len(e.ct), U32)
        /\ IsFrame(e.bytes, h, e.ct, e.tag)
    BY <1>3, SealIsFrame DEF SealOK
  <2>2. Len(e.ct) <= m /\ IsFrame(wire, h, e.ct, e.tag)
    BY <1>4, <2>1
  <2> HIDE DEF h
  <2> QED
    BY <1>5, <1>6, <2>1, <2>2, FrameParses
<1> DEFINE f == parse(wire)
<1>8. f.header = h /\ f.ct = e.ct /\ f.tag = e.tag
  BY <1>7
<1> HIDE DEF f, h
\* The nonce is the one computed for this header.
<1>9. ~ NonceMismatch(h)
  <2> SUFFICES ASSUME cfg.experiment.nonceMode = "deterministic"
               PROVE  nonceEqual(c, h.nonce,
                        HmacNonce(sealed, deriveNonceKey(h.reader_id, h.key_version), nonceContext(h)))
    BY DEF NonceMismatch, c
  <2> DEFINE key == deriveNonceKey(h.reader_id, h.key_version)
             ctx == nonceContext(h)
  <2>1. e.nonceOf = <<key, ctx>>
    BY <1>6 DEF NonceOf
  <2> HIDE DEF key, ctx
  <2>2. PICK n \in 1..i : NonceMadeAt(sealed, e, i, n)
    BY <1>3 DEF MadeOnce
  <2>3. PICK k \in 1..(Len(sealed) + 1) :
          HmacNonce(sealed, key, ctx) = FreshNonce(k) /\ FirstWith(sealed, <<key, ctx>>, k)
    BY HmacNonceOf DEF KInv, SealedOK
  <2>4. n \in 1..Len(sealed) /\ n \in Nat /\ k \in Nat
    BY <1>1
  \* Both are the first sealing with this input.
  <2>5. k = n
    <3>1. sealed[n].nonceOf = <<key, ctx>>
      BY <2>1, <2>2 DEF NonceMadeAt, e
    <3>2. \A j \in 1..Len(sealed) : j < n => sealed[j].nonceOf # <<key, ctx>>
      <4>1. <<key, ctx>> # << >>
        OBVIOUS
      <4> QED
        BY <2>1, <2>2, <4>1 DEF NonceMadeAt
    <3>3. ~ (n < k)
      BY <2>3, <2>4, <3>1 DEF FirstWith
    <3>4. ~ (k < n)
      <4> SUFFICES ASSUME k < n
                   PROVE  FALSE
        OBVIOUS
      <4>1. k \in 1..Len(sealed) /\ k # Len(sealed) + 1
        BY <1>1, <2>4
      <4> QED
        BY <2>3, <3>2, <4>1 DEF FirstWith
    <3> QED
      BY <2>4, <3>3, <3>4
  <2>6. nonceEqual(c, h.nonce, FreshNonce(n))
    BY <1>6, <2>2, NonceUsedTwice DEF nonceEqual, NonceMadeAt
  <2> QED
    BY <2>3, <2>5, <2>6 DEF key, ctx
\* A sealing with this tag is of the same card.
<1>10. opened(f) = {e.pt}
  <2> DEFINE key == aeadKey(h.reader_id, h.key_version)
             ad  == aad(h)
  <2>1. e.key = key /\ e.aad = ad
    BY <1>6, Zenon DEF SealKey, SealAad, aeadKey, aad
  <2> HIDE DEF key, ad
  <2>2. SameSealing(e, key, c, h.nonce, ad)
    BY <1>6, <2>1 DEF SameSealing, nonceEqual
  <2>3. \A j \in 1..Len(sealed) : sealed[j].tag = e.tag => sealed[j].pt = e.pt
    <3> SUFFICES ASSUME NEW j \in 1..Len(sealed), sealed[j].tag = e.tag
                 PROVE  sealed[j].pt = e.pt
      OBVIOUS
    <3>1. PICK p \in 1..i : TagMadeAt(sealed, e, i, p)
      BY <1>3 DEF MadeOnce
    <3>2. PICK q \in 1..j : TagMadeAt(sealed, sealed[j], j, q)
      BY <1>2 DEF MadeOnce
    <3>3. p = q
      <4>1. p \in Nat /\ q \in Nat /\ FreshTag(p) = FreshTag(q)
        BY <1>1, <3>1, <3>2 DEF TagMadeAt
      <4> QED
        BY <4>1, TagInjective
    <3>4. sealed[p].pt = e.pt
      BY <3>1 DEF TagMadeAt, e
    <3>5. sealed[q].pt = sealed[j].pt
      BY <3>2 DEF TagMadeAt
    <3> QED
      BY <3>3, <3>4, <3>5
  <2> DEFINE Same == {j \in DOMAIN sealed :
                        SameSealing(sealed[j], key, c, h.nonce, ad)
                        /\ sealed[j].ct = e.ct /\ sealed[j].tag = e.tag}
  <2>4. i \in Same /\ \A j \in Same : sealed[j].pt = e.pt
    BY <1>1, <2>2, <2>3 DEF e
  <2>5. opened(f) = {sealed[j].pt : j \in Same}
    BY <1>8, Zenon DEF opened, openWithNonce, key, ad, c
  <2> HIDE DEF Same
  <2> QED
    BY <2>4, <2>5 DEF e
<1>11. handleVerdict(f) = "ok"
  <2>1. h.key_version \in Nat /\ h.key_version > 0
    BY <1>6, Bounds
  <2>2. cur # 0
    BY <1>4, <2>1
  <2>3. keyVersionOk(h.key_version, cur)
    <3>1. CASE cur = h.key_version
      BY <3>1 DEF keyVersionOk
    <3>2. CASE cur = h.key_version + 1 /\ cfg.frameHandler.allowPreviousKeyVersion
      <4>1. cur > 1 /\ h.key_version + 1 = cur
        BY <2>1, <3>2
      <4> QED
        BY <3>2, <4>1 DEF keyVersionOk
    <3> QED
      BY <1>4, <3>1, <3>2
  <2>4. opened(f) # {}
    BY <1>10
  <2>5. isReaderAllowedDoor(store, h.reader_id, h.door_id)
    BY <1>4
  <2> QED
    BY <1>8, <2>2, <2>3, <2>4, <2>5, Zenon DEF handleVerdict, cur
<1>12. frameVerdict(wire) = "ok"
  <2>1. ~ NonceMismatch(IF parseError(wire, m) = "ok" THEN parse(wire).header ELSE ZeroHeader)
    BY <1>7, <1>8, <1>9, Zenon DEF f
  <2> QED
    BY <1>7, <1>11, <2>1, Zenon DEF frameVerdict, f, m
<1> QED
  BY <1>8, <1>10, <1>12 DEF f, h, e

\* ... and finds a role for it.
LEMMA LegitimateResolves ==
    ASSUME KInv, NEW i \in DOMAIN sealed, Legitimate(sealed[i])
    PROVE  LET e == sealed[i]
           IN  resolveCardHmac(e.pt, currentKeyVersionForReader(store, e.header.reader_id)) # NoRole
<1> DEFINE card == sealed[i].pt
           cur  == currentKeyVersionForReader(store, sealed[i].header.reader_id)
           prev == cfg.frameHandler.allowPreviousKeyVersion
           kv   == sealed[i].header.key_version
<1>1. SealOK(sealed[i])
  BY HistoryDomain DEF KInv, SealedOK, Numbered
<1>2. cur \in 0..MaxKv /\ cur \in Nat /\ MaxKv \in Nat /\ MaxKv > 0
  <2>1. sealed[i].header.reader_id \in Readers
    BY <1>1 DEF SealOK
  <2>2. store.keyVersion \in [Readers -> 0..MaxKv]
    BY DEF KInv, StateOK, StoreType
  <2>3. cur \in 0..MaxKv
    BY <2>1, <2>2 DEF currentKeyVersionForReader
  <2> HIDE DEF cur
  <2> QED
    BY <2>3, Bounds
<1>3. IF cfg.experiment.pepperMode = "static"
      THEN roleForCardHmac(store, <<card, 1>>) # NoRole
      ELSE \/ roleForCardHmac(store, <<card, cur>>) # NoRole
           \/ /\ prev
              /\ \E v \in 1..MaxKv : v + 1 = cur /\ roleForCardHmac(store, <<card, v>>) # NoRole
  BY Zenon DEF Legitimate
<1>4. \A v \in 0..MaxKv : RoleUnder(v, card) = roleForCardHmac(store, <<card, v>>)
  BY HmacName DEF RoleUnder
<1> HIDE DEF card, cur, prev, kv
<1>5. CASE cfg.experiment.pepperMode = "static"
  <2>1. 1 \in DOMAIN Peppers(cur) /\ Peppers(cur)[1] = 1 /\ 1 \in 0..MaxKv
    BY <1>2, <1>5 DEF Peppers
  <2>2. RoleUnder(Peppers(cur)[1], card) # NoRole
    BY <1>3, <1>4, <1>5, <2>1
  <2> QED
    BY <2>1, <2>2, Resolves DEF card, cur
<1>6. CASE cfg.experiment.pepperMode # "static" /\ roleForCardHmac(store, <<card, cur>>) # NoRole
  <2>1. 1 \in DOMAIN Peppers(cur) /\ Peppers(cur)[1] = cur
    BY <1>2, <1>6 DEF Peppers
  <2>2. RoleUnder(Peppers(cur)[1], card) # NoRole
    BY <1>2, <1>4, <1>6, <2>1
  <2> QED
    BY <2>1, <2>2, Resolves DEF card, cur
<1>7. ASSUME cfg.experiment.pepperMode # "static", prev, NEW v \in 1..MaxKv, v + 1 = cur,
             roleForCardHmac(store, <<card, v>>) # NoRole
      PROVE  resolveCardHmac(card, cur) # NoRole
  <2>1. cur > 1 /\ cur - 1 = v /\ v \in 0..MaxKv
    BY <1>2, <1>7
  <2>2. Peppers(cur) = <<cur, cur - 1>>
    BY <1>7, <2>1 DEF Peppers, prev
  <2>3. 2 \in DOMAIN Peppers(cur) /\ Peppers(cur)[2] = v
    BY <2>1, <2>2
  <2>4. RoleUnder(Peppers(cur)[2], card) # NoRole
    BY <1>4, <1>7, <2>1, <2>3
  <2> QED
    BY <2>3, <2>4, Resolves
<1> QED
  BY <1>3, <1>5, <1>6, <1>7, Zenon DEF card, cur

\* One rotation of a reader's key version is not noticed: a frame under way is
\* still opened, its nonce is still the expected one, and a card enrolled under
\* the version before is still known, so that it is refused only for its role.
\* In every configuration and with whatever else has been sealed and enrolled.
THEOREM RotationAlwaysKeepsCards == Spec => []RotationKeepsCards
<1>1. Init => RotationKeepsCards
  BY DEF Init, RotationKeepsCards
<1>2. ASSUME KInv, RotationKeepsCards, [Next]_vars
      PROVE  RotationKeepsCards'
  <2>1. CASE handleFrameBytes
    <3>0. cfg' = cfg /\ store' = store /\ sealed' = sealed /\ wire' = wire
      BY <2>1, Answer, Zenon
    <3> SUFFICES ASSUME NEW i \in DOMAIN sealed, Legitimate(sealed[i])
                 PROVE  result'.reason \in {"ok", "forbidden"}
      BY <3>0 DEF RotationKeepsCards, Legitimate
    <3> DEFINE card == CHOOSE c \in opened(parse(wire)) : TRUE
               h    == parse(wire).header
               role == resolveCardHmac(card, currentKeyVersionForReader(store, h.reader_id))
    <3>1. /\ frameVerdict(wire) = "ok" /\ h = sealed[i].header /\ opened(parse(wire)) = {sealed[i].pt}
      BY <1>2, LegitimateOpens
    <3>2. card = sealed[i].pt
      BY <3>1
    <3>3. role # NoRole
      BY <1>2, <3>1, <3>2, LegitimateResolves, Zenon
    <3> QED
      BY <2>1, <3>1, <3>3, Answer, Zenon
  <2>2. CASE result' = NoResult
    BY <2>2 DEF RotationKeepsCards
  <2>3. CASE UNCHANGED vars
    BY <1>2, <2>3 DEF vars, RotationKeepsCards, Legitimate
  <2> QED
    BY <1>2, <2>1, <2>2, <2>3, AnswerForgotten
<1> QED
  BY <1>1, <1>2, InvAlways, PTL DEF Spec
=============================================================================
