---------------------------- MODULE AmpduRxProofs ----------------------------
(***************************************************************************)
(* The reorder buffer for every range of sequence numbers, window and       *)
(* number of frames: the slots match the window, the window only moves      *)
(* forward, frames are passed up in order and once, and none is lost.       *)
(*                                                                          *)
(* The buffer only knows sequence numbers modulo SEQ_RANGE.  The proofs     *)
(* find the number S of the frame the window starts at, show that the       *)
(* peer's frames are never further from S than half of the range, and then  *)
(* reason about the numbers themselves.                                     *)
(***************************************************************************)
EXTENDS AmpduRx, FiniteSetTheorems, WellFoundedInduction, TLAPS

-----------------------------------------------------------------------------
(***************************************************************************)
(* Least and greatest elements.                                             *)
(***************************************************************************)
LEMMA SmallestOf ==
  ASSUME NEW T \in SUBSET Nat, T # {}
  PROVE  Min(T) \in T /\ \A k \in T : Min(T) <= k
<1> DEFINE R == OpToRel(<, Nat)
<1>1. IsWellFoundedOn(R, Nat)
  BY NatLessThanWellFounded
<1>2. PICK x \in T : \A y \in T : ~(<<y, x>> \in R)
  <2> HIDE DEF R
  <2> QED
    BY <1>1, WFMin
<1>3. ASSUME NEW y \in T, y < x
      PROVE  FALSE
  <2>1. <<y, x>> \in Nat \X Nat /\ <<y, x>>[1] = y /\ <<y, x>>[2] = x
    OBVIOUS
  <2>2. <<y, x>> \in R
    BY <1>3, <2>1 DEF OpToRel
  <2> HIDE DEF R
  <2> QED
    BY <1>2, <2>2
<1>4. \A y \in T : x <= y
  BY <1>3
<1> QED
  BY <1>4 DEF Min

LEMMA LargestOf ==
  ASSUME NEW n \in Nat, NEW T \in SUBSET (0 .. n), T # {}
  PROVE  Max(T) \in T /\ \A k \in T : k <= Max(T)
<1> DEFINE U == {k \in 0 .. n : n - k \in T}
<1>1. U \in SUBSET Nat /\ U # {}
  <2>1. PICK k \in T : TRUE
    OBVIOUS
  <2>2. n - k \in 0 .. n /\ n - (n - k) = k
    OBVIOUS
  <2>3. n - k \in U
    BY <2>1, <2>2
  <2>4. U \subseteq Nat
    OBVIOUS
  <2> HIDE DEF U
  <2> QED
    BY <2>3, <2>4
<1>2. Min(U) \in U /\ \A k \in U : Min(U) <= k
  BY <1>1, SmallestOf
<1>3. n - Min(U) \in T
  BY <1>2
<1>4. ASSUME NEW k \in T PROVE k <= n - Min(U)
  <2>1. n - k \in U
    OBVIOUS
  <2> QED
    BY <1>2, <2>1
<1> QED
  BY <1>3, <1>4 DEF Max

-----------------------------------------------------------------------------
(***************************************************************************)
(* Sequence numbers: what the macros compute on the remainders of frame     *)
(* numbers that are close to each other.                                    *)
(***************************************************************************)
LEMMA Quotient ==
  ASSUME NEW m \in Nat \ {0}, NEW a \in Int
  PROVE  a \div m \in Int /\ a % m \in 0 .. m - 1 /\ a = m * (a \div m) + (a % m)
OBVIOUS

LEMMA Remainder ==
  ASSUME NEW m \in Nat \ {0}, NEW d \in 0 .. m - 1, NEW z \in Int
  PROVE  (d + m * z) % m = d
<1> DEFINE x == d + m * z
           w == x \div m
           e == x % m
<1>1. x \in Int
  OBVIOUS
<1>2. w \in Int /\ e \in 0 .. m - 1 /\ x = m * w + e
  BY <1>1, Quotient
<1>3. x = d + m * z
  OBVIOUS
<1> HIDE DEF x, w, e
<1> DEFINE q == z - w
<1>4. q \in Int /\ m * q = e - d
  BY <1>2, <1>3
<1> HIDE DEF q
<1>5. q = 0
  <2>1. CASE q >= 1
    <3>1. m * q >= m
      BY <1>4, <2>1
    <3> QED
      BY <1>2, <1>4, <3>1
  <2>2. CASE q <= -1
    <3>1. m * q <= -m
      BY <1>4, <2>2
    <3> QED
      BY <1>2, <1>4, <3>1
  <2> QED
    BY <1>4, <2>1, <2>2
<1>6. e = d
  BY <1>2, <1>4, <1>5
<1> QED
  BY <1>6 DEF e, x

LEMMA RangePositive == SEQ_RANGE \in Nat \ {0} /\ SEQ_RANGE = 2 * BA_RANGE /\ BA_RANGE \in Nat \ {0}
BY WindowAssumption DEF SEQ_RANGE

LEMMA SeqQuotient ==
  ASSUME NEW a \in Int
  PROVE  a % SEQ_RANGE \in 0 .. SEQ_RANGE - 1 /\ \E q \in Int : a = SEQ_RANGE * q + (a % SEQ_RANGE)
<1>1. /\ a \div SEQ_RANGE \in Int /\ a % SEQ_RANGE \in 0 .. SEQ_RANGE - 1
      /\ a = SEQ_RANGE * (a \div SEQ_RANGE) + (a % SEQ_RANGE)
  BY Quotient, RangePositive
<1> QED
  BY <1>1

LEMMA SeqRemainder ==
  ASSUME NEW d \in 0 .. SEQ_RANGE - 1, NEW z \in Int
  PROVE  (d + SEQ_RANGE * z) % SEQ_RANGE = d
BY Remainder, RangePositive

LEMMA Distribute ==
  ASSUME NEW m \in Int, NEW p \in Int, NEW q \in Int, NEW k \in Int
  PROVE  m * (k + p - q) = m * k + m * p - m * q
OBVIOUS

\* The remainder of a difference.
LEMMA SeqDifference ==
  ASSUME NEW a \in Int, NEW b \in Int, NEW c \in Int
  PROVE  ((b % SEQ_RANGE) - (a % SEQ_RANGE) + c) % SEQ_RANGE = (b - a + c) % SEQ_RANGE
<1> DEFINE u == a % SEQ_RANGE
           v == b % SEQ_RANGE
           e == (b - a + c) % SEQ_RANGE
<1>0. SEQ_RANGE \in Int /\ b - a + c \in Int
  BY RangePositive
<1>1. PICK p \in Int : a = SEQ_RANGE * p + u
  BY SeqQuotient
<1>2. PICK q \in Int : b = SEQ_RANGE * q + v
  BY SeqQuotient
<1>3. PICK k \in Int : b - a + c = SEQ_RANGE * k + e
  BY <1>0, SeqQuotient
<1>4. u \in Int /\ v \in Int /\ e \in 0 .. SEQ_RANGE - 1 /\ e \in Int
  BY <1>0, SeqQuotient
<1> HIDE DEF u, v, e
<1>5. SEQ_RANGE * (k + p - q) = SEQ_RANGE * k + SEQ_RANGE * p - SEQ_RANGE * q
  BY <1>0, Distribute
<1>6. /\ SEQ_RANGE * p \in Int /\ SEQ_RANGE * q \in Int /\ SEQ_RANGE * k \in Int
      /\ SEQ_RANGE * (k + p - q) \in Int /\ k + p - q \in Int
  BY <1>0
<1>7. v - u + c = e + SEQ_RANGE * (k + p - q)
  BY <1>1, <1>2, <1>3, <1>4, <1>5, <1>6
<1>8. (v - u + c) % SEQ_RANGE = e
  BY <1>4, <1>6, <1>7, SeqRemainder
<1> QED
  BY <1>8 DEF u, v, e

LEMMA SeqNear ==
  ASSUME NEW d \in 0 .. SEQ_RANGE - 1
  PROVE  d % SEQ_RANGE = d /\ (d + SEQ_RANGE) % SEQ_RANGE = d
<1>1. SEQ_RANGE \in Int /\ d \in Int
  BY RangePositive
<1>2. d = d + SEQ_RANGE * 0 /\ d + SEQ_RANGE = d + SEQ_RANGE * 1
  BY <1>1
<1>3. (d + SEQ_RANGE * 0) % SEQ_RANGE = d /\ (d + SEQ_RANGE * 1) % SEQ_RANGE = d
  BY SeqRemainder
<1> QED
  BY <1>2, <1>3

\* The number of frames from a to b.
LEMMA SeqSubForward ==
  ASSUME NEW a \in Int, NEW b \in Int, a <= b, b - a < SEQ_RANGE
  PROVE  SeqSub(b % SEQ_RANGE, a % SEQ_RANGE) = b - a
<1>1. SEQ_RANGE \in Int /\ a % SEQ_RANGE \in Int /\ b % SEQ_RANGE \in Int
  BY RangePositive, SeqQuotient
<1>2. (b % SEQ_RANGE) + SEQ_RANGE - (a % SEQ_RANGE) = (b % SEQ_RANGE) - (a % SEQ_RANGE) + SEQ_RANGE
  BY <1>1
<1>3. (b - a + SEQ_RANGE) % SEQ_RANGE = b - a
  BY <1>1, SeqNear
<1> QED
  BY <1>1, <1>2, <1>3, SeqDifference DEF SeqSub

\* A frame b before a.
LEMMA SeqSubBackward ==
  ASSUME NEW a \in Int, NEW b \in Int, b < a, a - b <= SEQ_RANGE
  PROVE  SeqSub(b % SEQ_RANGE, a % SEQ_RANGE) = b - a + SEQ_RANGE
<1>1. SEQ_RANGE \in Int /\ a % SEQ_RANGE \in Int /\ b % SEQ_RANGE \in Int
  BY RangePositive, SeqQuotient
<1>2. (b % SEQ_RANGE) + SEQ_RANGE - (a % SEQ_RANGE) = (b % SEQ_RANGE) - (a % SEQ_RANGE) + SEQ_RANGE
  BY <1>1
<1>3. (b - a + SEQ_RANGE) % SEQ_RANGE = b - a + SEQ_RANGE
  BY <1>1, SeqNear
<1> QED
  BY <1>1, <1>2, <1>3, SeqDifference DEF SeqSub

\* k frames on, and k frames back.
LEMMA SeqShift ==
  ASSUME NEW a \in Int, NEW k \in Int
  PROVE  /\ SeqAdd(a % SEQ_RANGE, k) = (a + k) % SEQ_RANGE
         /\ SeqSub(a % SEQ_RANGE, k) = (a - k) % SEQ_RANGE
<1>1. SEQ_RANGE \in Int /\ a % SEQ_RANGE \in Int /\ 0 \in 0 .. SEQ_RANGE - 1
  BY RangePositive, SeqQuotient
<1>2. 0 % SEQ_RANGE = 0 /\ SEQ_RANGE % SEQ_RANGE = 0
  BY <1>1, SeqNear
<1>3. (a % SEQ_RANGE) + k = (a % SEQ_RANGE) - (0 % SEQ_RANGE) + k /\ a - 0 + k = a + k
  BY <1>1, <1>2
<1>4. ((a % SEQ_RANGE) + k) % SEQ_RANGE = (a + k) % SEQ_RANGE
  <2>1. ((a % SEQ_RANGE) - (0 % SEQ_RANGE) + k) % SEQ_RANGE = (a - 0 + k) % SEQ_RANGE
    BY SeqDifference
  <2> QED
    BY <1>3, <2>1, Zenon
<1>5. /\ (a % SEQ_RANGE) + SEQ_RANGE - k = (a % SEQ_RANGE) - (SEQ_RANGE % SEQ_RANGE) + (SEQ_RANGE - k)
      /\ a - SEQ_RANGE + (SEQ_RANGE - k) = a - k /\ SEQ_RANGE - k \in Int
  BY <1>1, <1>2
<1>6. ((a % SEQ_RANGE) + SEQ_RANGE - k) % SEQ_RANGE = (a - k) % SEQ_RANGE
  <2>1. PICK c \in Int : c = SEQ_RANGE - k
    BY <1>5
  <2>2. ((a % SEQ_RANGE) - (SEQ_RANGE % SEQ_RANGE) + c) % SEQ_RANGE = (a - SEQ_RANGE + c) % SEQ_RANGE
    <3>1. SEQ_RANGE \in Int
      BY <1>1
    <3> QED
      BY <3>1, SeqDifference, Zenon
  <2> QED
    BY <1>5, <2>1, <2>2, Zenon
<1> QED
  BY <1>4, <1>6 DEF SeqAdd, SeqSub

\* IEEE80211_SEQ_BA_BEFORE is "before" for frames less than half of the range apart.
LEMMA BaBeforeExact ==
  ASSUME NEW a \in Int, NEW b \in Int, b - a < BA_RANGE, a - b < BA_RANGE
  PROVE  BaBefore(a % SEQ_RANGE, b % SEQ_RANGE) <=> a < b
<1>1. SEQ_RANGE \in Int /\ a % SEQ_RANGE \in Int /\ b % SEQ_RANGE \in Int
  BY RangePositive, SeqQuotient
<1>2. SEQ_RANGE = 2 * BA_RANGE /\ BA_RANGE \in Nat
  BY RangePositive
<1> DEFINE x == (b % SEQ_RANGE) + SEQ_RANGE - ((a % SEQ_RANGE) + 1)
<1>3. x = (b % SEQ_RANGE) - (a % SEQ_RANGE) + (SEQ_RANGE - 1) /\ SEQ_RANGE - 1 \in Int
  BY <1>1
<1>4. x % SEQ_RANGE = (b - a + (SEQ_RANGE - 1)) % SEQ_RANGE
  <2>1. ((b % SEQ_RANGE) - (a % SEQ_RANGE) + (SEQ_RANGE - 1)) % SEQ_RANGE = (b - a + (SEQ_RANGE - 1)) % SEQ_RANGE
    BY <1>3, SeqDifference
  <2> QED
    BY <1>3, <2>1, Zenon
<1>5. CASE a < b
  <2>1. b - a - 1 \in 0 .. SEQ_RANGE - 1 /\ b - a + (SEQ_RANGE - 1) = (b - a - 1) + SEQ_RANGE
    BY <1>1, <1>2, <1>5
  <2>2. x % SEQ_RANGE = b - a - 1
    BY <1>4, <2>1, SeqNear
  <2> QED
    BY <1>2, <1>5, <2>2 DEF BaBefore
<1>6. CASE b <= a
  <2>1. b - a + (SEQ_RANGE - 1) \in 0 .. SEQ_RANGE - 1
    BY <1>1, <1>2, <1>6
  <2>2. x % SEQ_RANGE = b - a + (SEQ_RANGE - 1)
    BY <1>4, <2>1, SeqNear
  <2> QED
    BY <1>1, <1>2, <1>6, <2>2 DEF BaBefore
<1> QED
  BY <1>5, <1>6

-----------------------------------------------------------------------------
(***************************************************************************)
(* The buffer.  At(r, S): the window of r starts at frame S and its slots   *)
(* match; Ordered(r, l, S): what r passes up is in order, after l and       *)
(* before S.                                                                *)
(***************************************************************************)
Buffer(r) ==
  /\ DOMAIN r = {"start", "wnd", "m", "qframes", "xchgpend", "out"}
  /\ r.wnd \in Nat
  /\ r.m \in [0 .. r.wnd - 1 -> Int]
  /\ r.out \in Seq(Int)

At(r, S) ==
  /\ Buffer(r)
  /\ r.start = S % SEQ_RANGE
  /\ r.qframes = Cardinality(Held(r))
  /\ \A i \in Held(r) : r.m[i] = S + i

Ordered(r, l, S) == Increasing(r, l) /\ \A f \in Passed(r) : f < S

LEMMA HeldFinite ==
  ASSUME NEW r, Buffer(r)
  PROVE  /\ IsFiniteSet(Held(r)) /\ Cardinality(Held(r)) \in 0 .. r.wnd
         /\ Held(r) \subseteq 0 .. r.wnd - 1
<1>1. Held(r) \in SUBSET (0 .. r.wnd - 1) /\ r.wnd \in Nat
  BY DEF Buffer, Held, Slots
<1>2. IsFiniteSet(0 .. r.wnd - 1) /\ Cardinality(0 .. r.wnd - 1) = r.wnd
  <2>1. 0 \in Int /\ r.wnd - 1 \in Int
    BY <1>1
  <2>2. r.wnd = IF 0 > r.wnd - 1 THEN 0 ELSE r.wnd - 1 - 0 + 1
    BY <1>1
  <2> QED
    BY <2>1, <2>2, FS_Interval
<1>3. IsFiniteSet(Held(r)) /\ Cardinality(Held(r)) <= r.wnd
  BY <1>1, <1>2, FS_Subset
<1>4. Cardinality(Held(r)) \in Nat
  BY <1>3, FS_CardinalityType
<1> QED
  BY <1>1, <1>3, <1>4

\* What DispatchSlots passes up, leaves and takes out.
Run(r, a, b) == [k \in 1 .. b - a |-> r.m[a + k - 1]]
Cleared(r, a, b) == [i \in Slots(r) |-> IF a <= i /\ i < b THEN None ELSE r.m[i]]
Between(r, a, b) == {i \in Held(r) : a <= i /\ i < b}

\* The fields that PassUp, DispatchSlots and MoveWindow leave.
IsPassUp(r, n, q) ==
  /\ Buffer(q) /\ q.out = Append(r.out, n)
  /\ q.start = r.start /\ q.wnd = r.wnd /\ q.m = r.m /\ q.qframes = r.qframes
  /\ q.xchgpend = r.xchgpend

IsDispatch(r, a, b, q) ==
  /\ Buffer(q) /\ q.out = r.out \o Run(r, a, b)
  /\ q.start = r.start /\ q.wnd = r.wnd /\ q.xchgpend = r.xchgpend
  /\ q.m = Cleared(r, a, b)
  /\ q.qframes = r.qframes - Cardinality(Between(r, a, b))

IsMove(r, n, q) ==
  /\ Buffer(q) /\ q.out = r.out /\ q.start = SeqAdd(r.start, n) /\ q.wnd = r.wnd
  /\ q.xchgpend = r.xchgpend /\ q.qframes = r.qframes
  /\ q.m = IF r.qframes = 0 THEN r.m
           ELSE [i \in Slots(r) |-> IF n # 0 /\ i + n \in Slots(r) THEN r.m[i + n] ELSE None]

LEMMA PassUpFields ==
  ASSUME NEW r, Buffer(r), NEW n \in Int, NEW q, q = PassUp(r, n)
  PROVE  IsPassUp(r, n, q)
BY DEF PassUp, Buffer, IsPassUp

LEMMA DispatchFields ==
  ASSUME NEW r, Buffer(r), NEW a \in Nat, NEW b \in Nat, a <= b, b <= r.wnd,
         NEW q, q = DispatchSlots(r, a, b)
  PROVE  IsDispatch(r, a, b, q)
<1> DEFINE mm == Cleared(r, a, b)
           qq == r.qframes - Cardinality(Between(r, a, b))
           run == Run(r, a, b)
<1>1. mm \in [0 .. r.wnd - 1 -> Int]
  BY DEF Buffer, Slots, None, Cleared
<1>2. run \in Seq(Int)
  <2>1. b - a \in Nat /\ \A k \in 1 .. b - a : r.m[a + k - 1] \in Int
    BY DEF Buffer
  <2> QED
    BY <2>1 DEF Run
<1>3. r.out \o run \in Seq(Int)
  BY <1>2 DEF Buffer
<1>4. q = [r EXCEPT !.m = mm, !.qframes = qq, !.out = r.out \o run]
  BY DEF DispatchSlots, Run, Between, Cleared
<1> HIDE DEF mm, qq, run
<1>5. /\ DOMAIN q = DOMAIN r /\ q.m = mm /\ q.qframes = qq /\ q.out = r.out \o run
      /\ q.start = r.start /\ q.wnd = r.wnd /\ q.xchgpend = r.xchgpend
  BY <1>4 DEF Buffer
<1>6. Buffer(q)
  BY <1>1, <1>3, <1>5 DEF Buffer
<1> QED
  BY <1>5, <1>6 DEF mm, qq, run, IsDispatch

LEMMA MoveFields ==
  ASSUME NEW r, Buffer(r), NEW n \in Nat, NEW q, q = MoveWindow(r, n)
  PROVE  IsMove(r, n, q)
<1> DEFINE mm == IF r.qframes = 0 THEN r.m
                 ELSE [i \in Slots(r) |-> IF n # 0 /\ i + n \in Slots(r) THEN r.m[i + n] ELSE None]
<1>1. mm \in [0 .. r.wnd - 1 -> Int]
  BY DEF Buffer, Slots, None
<1>2. q = [r EXCEPT !.m = mm, !.start = SeqAdd(r.start, n)]
  BY DEF MoveWindow
<1> HIDE DEF mm
<1>3. /\ DOMAIN q = DOMAIN r /\ q.m = mm /\ q.qframes = r.qframes /\ q.out = r.out
      /\ q.start = SeqAdd(r.start, n) /\ q.wnd = r.wnd /\ q.xchgpend = r.xchgpend
  BY <1>2 DEF Buffer
<1>4. Buffer(q)
  BY <1>1, <1>3 DEF Buffer
<1> QED
  BY <1>3, <1>4 DEF mm, IsMove

LEMMA Concatenation ==
  ASSUME NEW s \in Seq(Int), NEW t \in Seq(Int)
  PROVE  /\ Len(s) \in Nat /\ Len(s \o t) = Len(s) + Len(t)
         /\ \A i \in 1 .. Len(s) : (s \o t)[i] = s[i] /\ s[i] \in Int
         /\ \A k \in 1 .. Len(t) : (s \o t)[Len(s) + k] = t[k]
OBVIOUS

\* One more frame is passed up.
LEMMA PassUpOrdered ==
  ASSUME NEW r, Buffer(r), NEW l \in Int, NEW S \in Int, NEW T \in Int, NEW n \in Nat,
         Ordered(r, l, S), l < n, S <= n, n < T, NEW q, q = PassUp(r, n)
  PROVE  Ordered(q, l, T) /\ Passed(q) = Passed(r) \cup {n}
<1> DEFINE L == Len(r.out)
<1>1. q.out = Append(r.out, n) /\ r.out \in Seq(Int)
  <2>1. r.out \in Seq(Int) /\ n \in Int
    BY DEF Buffer
  <2>2. IsPassUp(r, n, q)
    BY <2>1, PassUpFields
  <2> QED
    BY <2>1, <2>2 DEF IsPassUp
<1>2. /\ L \in Nat /\ Len(q.out) = L + 1 /\ q.out[L + 1] = n
      /\ \A i \in 1 .. L : q.out[i] = r.out[i] /\ r.out[i] \in Int
  BY <1>1
<1>3. n # None
  BY DEF None
<1> HIDE DEF L
<1>4. L + 1 \in Ups(q) /\ \A i : i \in Ups(q) <=> i \in Ups(r) \/ i = L + 1
  <2>1. 1 .. L + 1 = (1 .. L) \cup {L + 1} /\ L + 1 \notin 1 .. L
    BY <1>2
  <2>2. Ups(r) = {i \in 1 .. L : r.out[i] # None} /\ Ups(q) = {i \in 1 .. L + 1 : q.out[i] # None}
    BY <1>2 DEF Ups, L
  <2> QED
    BY <1>2, <1>3, <2>1, <2>2, Zenon
<1>5. \A i \in Ups(r) : i \in 1 .. L /\ q.out[i] = r.out[i] /\ r.out[i] \in Int
  BY <1>2 DEF Ups, L
<1>6. Passed(q) = Passed(r) \cup {n}
  BY <1>2, <1>4, <1>5 DEF Passed
<1>7. \A i \in Ups(r) : r.out[i] < S /\ r.out[i] > l
  BY DEF Ordered, Increasing, Passed
<1>8. Increasing(q, l)
  <2> SUFFICES ASSUME NEW i \in Ups(q)
               PROVE  q.out[i] > l /\ \A j \in Ups(q) : j < i => q.out[j] < q.out[i]
    BY DEF Increasing
  <2>1. CASE i = L + 1
    BY <1>2, <1>4, <1>5, <1>7, <2>1
  <2>2. CASE i \in Ups(r)
    <3>1. ASSUME NEW j \in Ups(q), j < i PROVE q.out[j] < q.out[i]
      <4>1. j \in Ups(r)
        BY <1>2, <1>4, <1>5, <2>2, <3>1
      <4> QED
        BY <1>5, <2>2, <3>1, <4>1 DEF Ordered, Increasing
    <3> QED
      BY <1>5, <1>7, <2>2, <3>1
  <2> QED
    BY <1>4, <2>1, <2>2
<1>9. \A f \in Passed(q) : f < T
  BY <1>5, <1>6, <1>7 DEF Passed
<1> QED
  BY <1>6, <1>8, <1>9 DEF Ordered

\* A run of slots is passed up.
LEMMA DispatchOrdered ==
  ASSUME NEW r, Buffer(r), NEW l \in Int, NEW S \in Nat, NEW a \in Nat, NEW b \in Nat,
         a <= b, b <= r.wnd, \A i \in Held(r) : r.m[i] = S + i,
         Ordered(r, l, S + a), l < S + a,
         NEW q, q = DispatchSlots(r, a, b)
  PROVE  /\ Ordered(q, l, S + b)
         /\ Passed(q) = Passed(r) \cup {S + i : i \in Between(r, a, b)}
<1> DEFINE L == Len(r.out)
           run == Run(r, a, b)
           X == {k \in Held(r) : a <= k /\ k < b}
<1>1. q.out = r.out \o run /\ r.out \in Seq(Int) /\ b - a \in Nat
  <2>1. r.out \in Seq(Int) /\ b - a \in Nat
    BY DEF Buffer
  <2>2. IsDispatch(r, a, b, q)
    BY DispatchFields
  <2> QED
    BY <2>1, <2>2 DEF IsDispatch
<1>2. /\ run \in Seq(Int) /\ Len(run) = b - a
      /\ \A k \in 1 .. b - a : run[k] = r.m[a + k - 1]
  <2>1. ASSUME NEW k \in 1 .. b - a PROVE r.m[a + k - 1] \in Int
    <3>1. a + k - 1 \in 0 .. r.wnd - 1
      BY DEF Buffer
    <3> QED
      BY <3>1 DEF Buffer
  <2> QED
    BY <1>1, <2>1 DEF Run
<1> HIDE DEF run
<1>3. /\ L \in Nat /\ Len(q.out) = L + (b - a)
      /\ \A i \in 1 .. L : q.out[i] = r.out[i] /\ r.out[i] \in Int
      /\ \A k \in 1 .. b - a : q.out[L + k] = run[k]
  <2>1. L \in Nat /\ Len(q.out) = L + (b - a)
    BY <1>1, <1>2, Concatenation
  <2>2. \A i \in 1 .. L : q.out[i] = r.out[i] /\ r.out[i] \in Int
    BY <1>1, <1>2, <2>1
  <2>3. ASSUME NEW k \in 1 .. b - a PROVE q.out[L + k] = run[k]
    <3>1. L + k \in 1 .. L + (b - a) /\ ~(L + k <= L) /\ (L + k) - L = k
      BY <1>1, <2>1
    <3> QED
      BY <1>1, <1>2, <2>1, <3>1
  <2> QED
    BY <2>1, <2>2, <2>3
<1> HIDE DEF L
<1>4. \A k \in 1 .. b - a : q.out[L + k] # None <=> a + k - 1 \in X
  <2> SUFFICES ASSUME NEW k \in 1 .. b - a PROVE q.out[L + k] # None <=> a + k - 1 \in X
    OBVIOUS
  <2>1. a + k - 1 \in 0 .. r.wnd - 1 /\ a <= a + k - 1 /\ a + k - 1 < b
    BY <1>1 DEF Buffer
  <2>2. q.out[L + k] = r.m[a + k - 1]
    BY <1>2, <1>3
  <2> QED
    BY <2>1, <2>2 DEF Held, Slots
<1>5. \A k \in 1 .. b - a : q.out[L + k] # None => q.out[L + k] = S + (a + k - 1)
  BY <1>2, <1>3, <1>4
<1>6. \A i \in Ups(r) : i \in 1 .. L /\ q.out[i] = r.out[i] /\ r.out[i] \in Int /\ r.out[i] # None
  BY <1>3 DEF Ups, L
<1>7. \A i \in Ups(q) : \/ i \in Ups(r)
                        \/ \E k \in 1 .. b - a : i = L + k /\ q.out[i] = S + (a + k - 1) /\ a + k - 1 \in X
  <2> SUFFICES ASSUME NEW i \in Ups(q), i \notin Ups(r)
               PROVE  \E k \in 1 .. b - a : i = L + k /\ q.out[i] = S + (a + k - 1) /\ a + k - 1 \in X
    OBVIOUS
  <2>1. i \in 1 .. L + (b - a) /\ q.out[i] # None
    BY <1>3 DEF Ups
  <2>2. ~(i \in 1 .. L)
    BY <1>3, <2>1 DEF Ups, L
  <2>3. i - L \in 1 .. b - a /\ i = L + (i - L)
    BY <1>1, <1>3, <2>1, <2>2
  <2> QED
    BY <1>4, <1>5, <2>1, <2>3
<1>8. Ups(r) \subseteq Ups(q) /\ \A k \in 1 .. b - a : a + k - 1 \in X => L + k \in Ups(q)
  <2>1. ASSUME NEW i \in Ups(r) PROVE i \in Ups(q)
    <3>1. i \in 1 .. L /\ q.out[i] # None
      BY <1>6, Zenon
    <3>2. i \in 1 .. L + (b - a) /\ Len(q.out) = L + (b - a)
      BY <1>1, <1>3, <3>1
    <3> QED
      BY <3>1, <3>2, Zenon DEF Ups
  <2>2. ASSUME NEW k \in 1 .. b - a, a + k - 1 \in X PROVE L + k \in Ups(q)
    <3>1. q.out[L + k] # None
      BY <1>4, <2>2, Zenon
    <3>2. L + k \in 1 .. L + (b - a) /\ Len(q.out) = L + (b - a)
      BY <1>1, <1>3
    <3> QED
      BY <3>1, <3>2, Zenon DEF Ups
  <2> QED
    BY <2>1, <2>2
<1>9. \A i \in Ups(r) : r.out[i] < S + a /\ r.out[i] > l
  BY DEF Ordered, Increasing, Passed
<1>10. Passed(q) = Passed(r) \cup {S + i : i \in X}
  <2>1. ASSUME NEW f \in Passed(q) PROVE f \in Passed(r) \cup {S + i : i \in X}
    <3>1. PICK i \in Ups(q) : f = q.out[i]
      BY DEF Passed
    <3> QED
      BY <1>6, <1>7, <3>1 DEF Passed
  <2>2. ASSUME NEW f \in Passed(r) PROVE f \in Passed(q)
    BY <1>6, <1>8 DEF Passed
  <2>3. ASSUME NEW i \in X PROVE S + i \in Passed(q)
    <3>1. i - a + 1 \in 1 .. b - a /\ a + (i - a + 1) - 1 = i
      BY DEF Held, Slots, Buffer
    <3>2. L + (i - a + 1) \in Ups(q) /\ q.out[L + (i - a + 1)] = S + i
      BY <1>4, <1>5, <1>8, <3>1
    <3> QED
      BY <3>2 DEF Passed
  <2> QED
    BY <2>1, <2>2, <2>3
<1>11. Increasing(q, l)
  <2> SUFFICES ASSUME NEW i \in Ups(q)
               PROVE  q.out[i] > l /\ \A j \in Ups(q) : j < i => q.out[j] < q.out[i]
    BY DEF Increasing
  <2>1. CASE i \in Ups(r)
    <3>1. ASSUME NEW j \in Ups(q), j < i PROVE j \in Ups(r)
      BY <1>3, <1>6, <1>7, <2>1, <3>1
    <3> QED
      BY <1>6, <1>9, <2>1, <3>1 DEF Ordered, Increasing
  <2>2. ASSUME NEW k \in 1 .. b - a, i = L + k, q.out[i] = S + (a + k - 1)
        PROVE  q.out[i] > l /\ \A j \in Ups(q) : j < i => q.out[j] < q.out[i]
    <3>1. ASSUME NEW j \in Ups(q), j < i PROVE q.out[j] < q.out[i]
      <4>1. CASE j \in Ups(r)
        BY <1>6, <1>9, <2>2, <4>1
      <4>2. ASSUME NEW h \in 1 .. b - a, j = L + h, q.out[j] = S + (a + h - 1)
            PROVE  q.out[j] < q.out[i]
        BY <1>3, <2>2, <3>1, <4>2
      <4> QED
        BY <1>7, <4>1, <4>2
    <3> QED
      BY <2>2, <3>1
  <2> QED
    BY <1>7, <2>1, <2>2
<1>12. \A f \in Passed(q) : f < S + b
  <2>1. ASSUME NEW f \in Passed(r) PROVE f < S + b
    BY <1>6, <1>9 DEF Passed
  <2>2. ASSUME NEW i \in X PROVE S + i < S + b
    BY DEF Held, Slots, Buffer
  <2> QED
    BY <1>10, <2>1, <2>2
<1> QED
  BY <1>10, <1>11, <1>12 DEF Ordered, Between

-----------------------------------------------------------------------------
(***************************************************************************)
(* Dispatching and moving, in terms of the frames that wait.                *)
(***************************************************************************)
LEMMA HeldAt ==
  ASSUME NEW r, NEW S \in Nat, At(r, S)
  PROVE  /\ \A i \in Held(r) : i \in 0 .. r.wnd - 1 /\ S + i \in HeldFrames(r)
         /\ \A f \in HeldFrames(r) : f \in S .. S + r.wnd - 1 /\ f - S \in Held(r)
         /\ r.wnd \in Nat /\ Buffer(r)
<1>1. r.wnd \in Nat /\ Held(r) \subseteq 0 .. r.wnd - 1 /\ \A i \in Held(r) : r.m[i] = S + i
  BY DEF At, Buffer, Held, Slots
<1>2. ASSUME NEW f \in HeldFrames(r) PROVE f \in S .. S + r.wnd - 1 /\ f - S \in Held(r)
  <2>1. PICK i \in Held(r) : f = r.m[i]
    BY DEF HeldFrames
  <2>2. f = S + i /\ i \in 0 .. r.wnd - 1
    BY <1>1, <2>1
  <2>3. f - S = i
    BY <2>2
  <2> QED
    BY <1>1, <2>1, <2>2, <2>3
<1>3. ASSUME NEW i \in Held(r) PROVE S + i \in HeldFrames(r)
  BY <1>1 DEF HeldFrames
<1> QED
  BY <1>1, <1>2, <1>3 DEF At

LEMMA NoneHeld ==
  ASSUME NEW r, Buffer(r), r.qframes = Cardinality(Held(r))
  PROVE  /\ r.qframes = 0 <=> Held(r) = {}
         /\ Held(r) = {} <=> HeldFrames(r) = {}
<1>1. IsFiniteSet(Held(r))
  BY HeldFinite
<1>2. r.qframes = 0 <=> Held(r) = {}
  BY <1>1, FS_EmptySet
<1> QED
  BY <1>2 DEF HeldFrames

LEMMA DispatchAt ==
  ASSUME NEW r, NEW S \in Nat, At(r, S), NEW a \in Nat, NEW b \in Nat, a <= b, b <= r.wnd,
         NEW q, q = DispatchSlots(r, a, b)
  PROVE  At(q, S) /\ Held(q) = Held(r) \ Between(r, a, b)
<1>1. /\ Buffer(r) /\ r.start = S % SEQ_RANGE /\ r.qframes = Cardinality(Held(r))
      /\ \A i \in Held(r) : r.m[i] = S + i
  BY DEF At
<1>2. /\ Buffer(q) /\ q.start = r.start /\ q.wnd = r.wnd /\ q.m = Cleared(r, a, b)
      /\ q.qframes = r.qframes - Cardinality(Between(r, a, b))
  <2>1. IsDispatch(r, a, b, q)
    BY <1>1, DispatchFields
  <2> QED
    BY <2>1 DEF IsDispatch
<1>3. \A i \in 0 .. r.wnd - 1 : q.m[i] = IF a <= i /\ i < b THEN None ELSE r.m[i]
  BY <1>2 DEF Cleared, Slots
<1>4. Held(q) = Held(r) \ Between(r, a, b)
  BY <1>2, <1>3 DEF Held, Slots, Between
<1>5. \A i \in Held(q) : q.m[i] = S + i
  <2> SUFFICES ASSUME NEW i \in Held(q) PROVE q.m[i] = S + i
    OBVIOUS
  <2>1. i \in Held(r) /\ i \in 0 .. r.wnd - 1 /\ ~(a <= i /\ i < b)
    BY <1>4 DEF Held, Slots, Between
  <2> QED
    BY <1>1, <1>3, <2>1
<1>6. q.qframes = Cardinality(Held(q))
  <2>1. IsFiniteSet(Held(r)) /\ Cardinality(Held(r)) \in Nat
    BY <1>1, HeldFinite
  <2>2. Between(r, a, b) \in SUBSET Held(r) /\ Held(r) \cap Between(r, a, b) = Between(r, a, b)
    BY DEF Between
  <2>3. IsFiniteSet(Between(r, a, b))
    BY <2>1, <2>2, FS_Subset
  <2>4. Cardinality(Held(r) \ Between(r, a, b)) = Cardinality(Held(r)) - Cardinality(Held(r) \cap Between(r, a, b))
    BY <2>1, FS_Difference
  <2> QED
    BY <1>1, <1>2, <1>4, <2>2, <2>4
<1> QED
  BY <1>1, <1>2, <1>4, <1>5, <1>6 DEF At

LEMMA MoveAt ==
  ASSUME NEW r, NEW S \in Nat, At(r, S), NEW n \in Nat \ {0}, \A i \in Held(r) : i >= n,
         NEW q, q = MoveWindow(r, n)
  PROVE  /\ At(q, S + n) /\ HeldFrames(q) = HeldFrames(r)
         /\ 0 \in Held(q) => n \in Held(r)
<1>1. /\ Buffer(r) /\ r.start = S % SEQ_RANGE /\ r.qframes = Cardinality(Held(r))
      /\ r.wnd \in Nat /\ \A i \in Held(r) : r.m[i] = S + i /\ i \in 0 .. r.wnd - 1
  BY DEF At, Buffer, Held, Slots
<1>2. /\ Buffer(q) /\ q.start = SeqAdd(r.start, n) /\ q.wnd = r.wnd /\ q.qframes = r.qframes
      /\ q.m = IF r.qframes = 0 THEN r.m
               ELSE [i \in Slots(r) |-> IF n # 0 /\ i + n \in Slots(r) THEN r.m[i + n] ELSE None]
  <2>1. IsMove(r, n, q)
    BY <1>1, MoveFields
  <2> QED
    BY <2>1 DEF IsMove
<1>3. q.start = (S + n) % SEQ_RANGE
  BY <1>1, <1>2, SeqShift
<1>4. \A i \in 0 .. r.wnd - 1 : /\ i + n \in Held(r) <=> i \in Held(q)
                                /\ i + n \in Held(r) => q.m[i] = r.m[i + n]
  <2>1. CASE r.qframes = 0
    <3>1. Held(r) = {}
      BY <1>1, <2>1, NoneHeld
    <3>2. Held(q) = {}
      BY <1>2, <2>1, <3>1 DEF Held, Slots
    <3> QED
      BY <3>1, <3>2
  <2>2. CASE r.qframes # 0
    <3>1. \A i \in 0 .. r.wnd - 1 : q.m[i] = IF i + n \in 0 .. r.wnd - 1 THEN r.m[i + n] ELSE None
      BY <1>2, <2>2 DEF Slots
    <3> QED
      BY <1>1, <1>2, <3>1 DEF Held, Slots
  <2> QED
    BY <2>1, <2>2
<1>5. Held(q) \subseteq 0 .. r.wnd - 1
  BY <1>2 DEF Held, Slots
<1>6. \A i \in Held(q) : i + n \in Held(r) /\ q.m[i] = (S + n) + i
  BY <1>1, <1>4, <1>5
<1>7. \A i \in Held(r) : i - n \in Held(q) /\ (i - n) + n = i
  <2> SUFFICES ASSUME NEW i \in Held(r) PROVE i - n \in Held(q) /\ (i - n) + n = i
    OBVIOUS
  <2>1. i - n \in 0 .. r.wnd - 1 /\ (i - n) + n = i
    BY <1>1
  <2> QED
    BY <1>4, <2>1
<1>8. HeldFrames(q) = HeldFrames(r)
  <2>1. ASSUME NEW f \in HeldFrames(q) PROVE f \in HeldFrames(r)
    <3>1. PICK i \in Held(q) : f = q.m[i]
      BY DEF HeldFrames
    <3>2. i + n \in Held(r) /\ f = r.m[i + n]
      BY <1>4, <1>5, <3>1
    <3> QED
      BY <3>2 DEF HeldFrames
  <2>2. ASSUME NEW f \in HeldFrames(r) PROVE f \in HeldFrames(q)
    <3>1. PICK i \in Held(r) : f = r.m[i]
      BY DEF HeldFrames
    <3>2. i - n \in Held(q) /\ f = q.m[i - n]
      BY <1>4, <1>5, <1>7, <3>1
    <3> QED
      BY <3>2 DEF HeldFrames
  <2> QED
    BY <2>1, <2>2
<1>9. Cardinality(Held(q)) = Cardinality(Held(r))
  <2> DEFINE g == [i \in Held(r) |-> i - n]
  <2>1. g \in Bijection(Held(r), Held(q))
    <3>1. g \in [Held(r) -> Held(q)]
      BY <1>7
    <3>2. \A i, j \in Held(r) : g[i] = g[j] => i = j
      BY <1>1
    <3>3. \A i \in Held(q) : \E j \in Held(r) : g[j] = i
      <4> SUFFICES ASSUME NEW i \in Held(q) PROVE \E j \in Held(r) : g[j] = i
        OBVIOUS
      <4>1. i + n \in Held(r) /\ (i + n) - n = i
        BY <1>5, <1>6
      <4> QED
        BY <4>1
    <3> HIDE DEF g
    <3>4. g \in Injection(Held(r), Held(q))
      BY <3>1, <3>2 DEF Injection, IsInjective
    <3>5. g \in Surjection(Held(r), Held(q))
      BY <3>1, <3>3 DEF Surjection
    <3> QED
      BY <3>4, <3>5 DEF Bijection
  <2>2. ExistsBijection(Held(r), Held(q))
    BY <2>1 DEF ExistsBijection
  <2>3. IsFiniteSet(Held(r))
    BY <1>1, HeldFinite
  <2> QED
    BY <2>2, <2>3, FS_Bijection
<1>10. At(q, S + n)
  BY <1>1, <1>2, <1>3, <1>6, <1>9 DEF At
<1>11. 0 \in Held(q) => n \in Held(r)
  BY <1>6
<1> QED
  BY <1>8, <1>10, <1>11

LEMMA SameOut ==
  ASSUME NEW r, NEW q, q.out = r.out, NEW l, NEW S
  PROVE  Passed(q) = Passed(r) /\ (Ordered(r, l, S) => Ordered(q, l, S))
BY DEF Passed, Ups, Ordered, Increasing

(***************************************************************************)
(* From r, a buffer whose window starts at frame S, to q, whose window      *)
(* starts at T, with the frames of new arriving: no frame is lost, and      *)
(* those passed over were in the buffer, are new, or come before V.         *)
(***************************************************************************)
Moved(r, S, q, T, new, V) ==
  /\ At(q, T) /\ T \in Nat /\ S <= T
  /\ q.wnd = r.wnd /\ q.xchgpend = r.xchgpend /\ 0 \notin Held(q)
  /\ HeldFrames(q) = {f \in HeldFrames(r) \cup new : f >= T}
  /\ Passed(q) = Passed(r) \cup {f \in HeldFrames(r) \cup new : f < T}
  /\ \A k \in S .. T - 1 : k < V \/ k \in HeldFrames(r) \cup new

\* What ampdu_rx_dispatch and ampdu_rx_flush_upto have in common.
LEMMA DispatchMove ==
  ASSUME NEW r, NEW S \in Nat, At(r, S), NEW a \in Nat, NEW i \in Nat \ {0}, a <= i, i <= r.wnd,
         \A k \in Held(r) : k >= a, i = r.wnd \/ i \notin Held(r),
         NEW l \in Int, Ordered(r, l, S + a), l < S + a,
         NEW q, q = MoveWindow(DispatchSlots(r, a, i), i)
  PROVE  /\ At(q, S + i) /\ q.wnd = r.wnd /\ q.xchgpend = r.xchgpend /\ 0 \notin Held(q)
         /\ HeldFrames(q) = {f \in HeldFrames(r) : f >= S + i}
         /\ Passed(q) = Passed(r) \cup {f \in HeldFrames(r) : f < S + i}
         /\ Ordered(q, l, S + i)
<1>1. PICK d : d = DispatchSlots(r, a, i)
  OBVIOUS
<1>2. /\ \A k \in Held(r) : k \in 0 .. r.wnd - 1 /\ S + k \in HeldFrames(r)
      /\ \A f \in HeldFrames(r) : f \in S .. S + r.wnd - 1 /\ f - S \in Held(r)
      /\ r.wnd \in Nat /\ Buffer(r)
  BY HeldAt, Zenon
<1>3. At(d, S) /\ Held(d) = Held(r) \ Between(r, a, i)
  <2>1. i \in Nat
    OBVIOUS
  <2> QED
    BY <1>1, <2>1, DispatchAt
<1>4. \A k : k \in Held(d) <=> k \in Held(r) /\ k >= i
  BY <1>2, <1>3 DEF Between
<1>5. q = MoveWindow(d, i)
  BY <1>1
<1>6. At(q, S + i) /\ HeldFrames(q) = HeldFrames(d) /\ (0 \in Held(q) => i \in Held(d))
  BY <1>3, <1>4, <1>5, MoveAt
<1>7. d.wnd = r.wnd /\ d.xchgpend = r.xchgpend /\ Buffer(d)
  <2>1. IsDispatch(r, a, i, d)
    BY <1>1, <1>2, DispatchFields
  <2> QED
    BY <2>1 DEF IsDispatch
<1>8. q.out = d.out /\ q.wnd = d.wnd /\ q.xchgpend = d.xchgpend
  <2>1. IsMove(d, i, q)
    BY <1>5, <1>7, MoveFields
  <2> QED
    BY <2>1 DEF IsMove
<1>9. /\ Ordered(d, l, S + i)
      /\ Passed(d) = Passed(r) \cup {S + k : k \in Between(r, a, i)}
  <2>1. \A k \in Held(r) : r.m[k] = S + k
    BY DEF At
  <2> QED
    BY <1>1, <1>2, <2>1, DispatchOrdered
<1>10. Ordered(q, l, S + i) /\ Passed(q) = Passed(d)
  BY <1>8, <1>9, SameOut
<1>11. HeldFrames(d) = {f \in HeldFrames(r) : f >= S + i}
  <2>1. /\ \A k \in Held(d) : S + k \in HeldFrames(d)
        /\ \A f \in HeldFrames(d) : f \in S .. S + d.wnd - 1 /\ f - S \in Held(d)
    BY <1>3, HeldAt, Zenon
  <2>2. ASSUME NEW f \in HeldFrames(d) PROVE f \in HeldFrames(r) /\ f >= S + i
    <3>1. f - S \in Held(r) /\ f - S >= i /\ f \in Int /\ S + (f - S) = f
      BY <1>2, <1>4, <1>7, <2>1
    <3>2. S + (f - S) \in HeldFrames(r)
      BY <1>2, <3>1
    <3> QED
      BY <3>1, <3>2
  <2>3. ASSUME NEW f \in HeldFrames(r), f >= S + i PROVE f \in HeldFrames(d)
    <3>1. f - S \in Held(r) /\ f - S >= i /\ S + (f - S) = f
      BY <1>2, <2>3
    <3>2. S + (f - S) \in HeldFrames(d)
      BY <1>4, <2>1, <3>1
    <3> QED
      BY <3>1, <3>2
  <2> QED
    BY <2>2, <2>3
<1>12. {S + k : k \in Between(r, a, i)} = {f \in HeldFrames(r) : f < S + i}
  <2>1. ASSUME NEW k \in Between(r, a, i) PROVE S + k \in HeldFrames(r) /\ S + k < S + i
    BY <1>2 DEF Between
  <2>2. ASSUME NEW f \in HeldFrames(r), f < S + i
        PROVE  f - S \in Between(r, a, i) /\ f = S + (f - S)
    BY <1>2, <2>2 DEF Between
  <2> QED
    BY <2>1, <2>2
<1>13. 0 \notin Held(q)
  BY <1>2, <1>4, <1>6
<1> QED
  BY <1>6, <1>7, <1>8, <1>9, <1>10, <1>11, <1>12, <1>13

LEMMA DispatchContract ==
  ASSUME NEW r, NEW S \in Nat, At(r, S), r.wnd # 0, 0 \notin Held(r),
         NEW l \in Int, Ordered(r, l, S + 1), l < S + 1,
         NEW q, q = ampdu_rx_dispatch(r)
  PROVE  \E T \in Nat : S + 1 <= T /\ Moved(r, S, q, T, {}, S + 1) /\ Ordered(q, l, T)
<1> DEFINE G == {k \in 1 .. r.wnd : k = r.wnd \/ r.m[k] = None}
           i == Min(G)
<1>1. r.wnd \in Nat \ {0} /\ \A k \in Held(r) : k \in 1 .. r.wnd - 1 /\ S + k \in HeldFrames(r)
  <2>1. r.wnd \in Nat /\ \A k \in Held(r) : k \in 0 .. r.wnd - 1 /\ S + k \in HeldFrames(r)
    BY HeldAt, Zenon
  <2> QED
    BY <2>1
<1>2. i \in G /\ \A k \in G : i <= k
  <2>1. G \in SUBSET Nat /\ r.wnd \in G
    BY <1>1
  <2> QED
    BY <2>1, SmallestOf
<1>3. q = MoveWindow(DispatchSlots(r, 1, i), i)
  BY DEF ampdu_rx_dispatch
<1>4. i \in 1 .. r.wnd /\ (i = r.wnd \/ i \notin Held(r))
  BY <1>2 DEF Held
<1>5. \A k \in 1 .. i - 1 : k \in Held(r)
  <2> SUFFICES ASSUME NEW k \in 1 .. i - 1 PROVE k \in Held(r)
    OBVIOUS
  <2>1. k \in 1 .. r.wnd /\ k # r.wnd /\ k \notin G /\ k \in 0 .. r.wnd - 1
    BY <1>1, <1>2, <1>4
  <2> QED
    BY <2>1 DEF Held, Slots
<1> HIDE DEF i, G
<1>6. /\ At(q, S + i) /\ q.wnd = r.wnd /\ q.xchgpend = r.xchgpend /\ 0 \notin Held(q)
      /\ HeldFrames(q) = {f \in HeldFrames(r) : f >= S + i}
      /\ Passed(q) = Passed(r) \cup {f \in HeldFrames(r) : f < S + i}
      /\ Ordered(q, l, S + i)
  <2>1. i \in Nat \ {0} /\ 1 <= i /\ i <= r.wnd /\ 1 \in Nat /\ \A k \in Held(r) : k >= 1
    BY <1>1, <1>4
  <2> QED
    BY <1>3, <1>4, <2>1, DispatchMove, Zenon
<1>7. \A k \in S .. (S + i) - 1 : k < S + 1 \/ k \in HeldFrames(r) \cup {}
  <2> SUFFICES ASSUME NEW k \in S .. (S + i) - 1, k >= S + 1 PROVE k \in HeldFrames(r)
    BY <1>4
  <2>1. k - S \in 1 .. i - 1 /\ S + (k - S) = k
    BY <1>4
  <2> QED
    BY <1>1, <1>5, <2>1
<1>8. S + i \in Nat /\ S + 1 <= S + i /\ S <= S + i
  BY <1>1, <1>4
<1>9. Moved(r, S, q, S + i, {}, S + 1)
  BY <1>6, <1>7, <1>8 DEF Moved
<1> QED
  BY <1>6, <1>8, <1>9

LEMMA WindowFits ==
  ASSUME NEW wnd \in Windows
  PROVE  /\ wnd \in Nat \ {0} /\ BA_RANGE \in Nat /\ PeerWindow \in Nat \ {0}
         /\ wnd + PeerWindow <= BA_RANGE /\ wnd < BA_RANGE
<1>1. /\ wnd \in Nat \ {0} /\ BA_RANGE \in Nat /\ PeerWindow \in Nat \ {0}
      /\ wnd + PeerWindow <= BA_RANGE
  BY WindowAssumption
<1> QED
  BY <1>1

LEMMA FlushContract ==
  ASSUME NEW r, NEW S \in Nat, At(r, S), r.wnd \in Windows,
         NEW W \in Nat, S < W, W < S + BA_RANGE,
         NEW l \in Int, Ordered(r, l, S), l < S,
         NEW q, q = ampdu_rx_flush_upto(r, W % SEQ_RANGE)
  PROVE  \E T \in Nat : /\ T <= S + r.wnd /\ (T >= W \/ T = S + r.wnd)
                        /\ Moved(r, S, q, T, {}, W) /\ Ordered(q, l, T)
<1> DEFINE G == {k \in 0 .. r.wnd : \/ k = r.wnd
                                    \/ r.m[k] = None /\ ~BaBefore(SeqAdd(r.start, k), W % SEQ_RANGE)}
           i == Min(G)
<1>1. r.wnd \in Nat \ {0} /\ \A k \in Held(r) : k \in 0 .. r.wnd - 1 /\ S + k \in HeldFrames(r)
  <2>1. r.wnd \in Nat /\ \A k \in Held(r) : k \in 0 .. r.wnd - 1 /\ S + k \in HeldFrames(r)
    BY HeldAt, Zenon
  <2> QED
    BY <2>1, WindowAssumption
<1>2. r.wnd < BA_RANGE /\ BA_RANGE \in Nat
  BY <1>1, WindowFits
<1>3. \A k \in 0 .. r.wnd : BaBefore(SeqAdd(r.start, k), W % SEQ_RANGE) <=> S + k < W
  <2> SUFFICES ASSUME NEW k \in 0 .. r.wnd
               PROVE  BaBefore(SeqAdd(r.start, k), W % SEQ_RANGE) <=> S + k < W
    OBVIOUS
  <2>1. SeqAdd(r.start, k) = (S + k) % SEQ_RANGE
    BY SeqShift DEF At
  <2>2. S + k \in Int /\ W - (S + k) < BA_RANGE /\ (S + k) - W < BA_RANGE
    BY <1>1, <1>2
  <2> QED
    BY <2>1, <2>2, BaBeforeExact
<1>4. i \in G /\ \A k \in G : i <= k
  <2>1. G \in SUBSET Nat /\ r.wnd \in G
    BY <1>1
  <2> QED
    BY <2>1, SmallestOf
<1>5. q = MoveWindow(DispatchSlots(r, 0, i), i)
  BY DEF ampdu_rx_flush_upto
<1>6. i \in 0 .. r.wnd /\ (i = r.wnd \/ (i \notin Held(r) /\ S + i >= W))
  <2>1. i \in 0 .. r.wnd /\ (i = r.wnd \/ (r.m[i] = None /\ ~(S + i < W)))
    BY <1>3, <1>4
  <2> HIDE DEF i, G
  <2> QED
    BY <1>1, <2>1 DEF Held
<1>7. \A k \in 0 .. i - 1 : k \in Held(r) \/ S + k < W
  <2> SUFFICES ASSUME NEW k \in 0 .. i - 1, ~(S + k < W) PROVE k \in Held(r)
    OBVIOUS
  <2>1. k \in 0 .. r.wnd /\ k # r.wnd /\ k \notin G /\ k \in 0 .. r.wnd - 1
    BY <1>1, <1>4, <1>6
  <2>2. r.m[k] # None
    BY <1>3, <2>1
  <2> QED
    BY <2>1, <2>2 DEF Held, Slots
<1> HIDE DEF i, G
<1>8. /\ At(q, S + i) /\ q.wnd = r.wnd /\ q.xchgpend = r.xchgpend /\ 0 \notin Held(q)
      /\ HeldFrames(q) = {f \in HeldFrames(r) : f >= S + i}
      /\ Passed(q) = Passed(r) \cup {f \in HeldFrames(r) : f < S + i}
      /\ Ordered(q, l, S + i)
  <2>1. i \in Nat \ {0} /\ 0 <= i /\ i <= r.wnd /\ 0 \in Nat /\ S + 0 = S /\ \A k \in Held(r) : k >= 0
    BY <1>1, <1>6
  <2>2. Ordered(r, l, S + 0) /\ l < S + 0
    BY <2>1
  <2> QED
    BY <1>5, <1>6, <2>1, <2>2, DispatchMove, Zenon
<1>9. \A k \in S .. (S + i) - 1 : k < W \/ k \in HeldFrames(r) \cup {}
  <2> SUFFICES ASSUME NEW k \in S .. (S + i) - 1, k >= W PROVE k \in HeldFrames(r)
    BY <1>6
  <2>1. k - S \in 0 .. i - 1 /\ S + (k - S) = k
    BY <1>6
  <2> QED
    BY <1>1, <1>7, <2>1
<1>10. S + i \in Nat /\ S <= S + i /\ S + i <= S + r.wnd /\ (S + i >= W \/ S + i = S + r.wnd)
  BY <1>1, <1>6
<1>11. Moved(r, S, q, S + i, {}, W)
  BY <1>8, <1>9, <1>10 DEF Moved
<1> QED
  BY <1>8, <1>10, <1>11

-----------------------------------------------------------------------------
(***************************************************************************)
(* The handlers.                                                            *)
(***************************************************************************)
IsStart(r, T, q) ==
  /\ At(q, T) /\ q.wnd = r.wnd /\ q.xchgpend = r.xchgpend /\ q.qframes = r.qframes
  /\ q.out = r.out /\ Held(q) = Held(r) /\ HeldFrames(q) = HeldFrames(r)

LEMMA SetStart ==
  ASSUME NEW r, Buffer(r), r.qframes = Cardinality(Held(r)),
         NEW T, \A i \in Held(r) : r.m[i] = T + i,
         NEW q, q = [r EXCEPT !.start = T % SEQ_RANGE]
  PROVE  IsStart(r, T, q)
<1>1. /\ DOMAIN q = DOMAIN r /\ q.m = r.m /\ q.qframes = r.qframes /\ q.out = r.out
      /\ q.start = T % SEQ_RANGE /\ q.wnd = r.wnd /\ q.xchgpend = r.xchgpend
  BY DEF Buffer
<1>2. Held(q) = Held(r) /\ HeldFrames(q) = HeldFrames(r)
  BY <1>1 DEF Held, Slots, HeldFrames
<1>3. Buffer(q)
  BY <1>1 DEF Buffer
<1> QED
  BY <1>1, <1>2, <1>3 DEF At, IsStart

SameSlots(r, S, q) ==
  /\ At(q, S) /\ q.wnd = r.wnd /\ q.xchgpend = r.xchgpend /\ q.qframes = r.qframes
  /\ Held(q) = Held(r) /\ HeldFrames(q) = HeldFrames(r)

LEMMA PassUpAt ==
  ASSUME NEW r, NEW S \in Nat, At(r, S), NEW n \in Int, NEW q, q = PassUp(r, n)
  PROVE  SameSlots(r, S, q)
<1>1. Buffer(r)
  BY DEF At
<1>2. IsPassUp(r, n, q)
  BY <1>1, PassUpFields
<1>3. Held(q) = Held(r) /\ HeldFrames(q) = HeldFrames(r)
  BY <1>2 DEF Held, Slots, HeldFrames, IsPassUp
<1> QED
  BY <1>2, <1>3 DEF IsPassUp, At, SameSlots

LEMMA FirstContract ==
  ASSUME NEW r, NEW S \in Nat, At(r, S), r.wnd # 0, 0 \notin Held(r),
         NEW l \in Int, Ordered(r, l, S), l < S,
         NEW q, q = FirstInWindow(r, S)
  PROVE  \E T \in Nat : S + 1 <= T /\ Moved(r, S, q, T, {S}, S) /\ Ordered(q, l, T)
<1>1. Buffer(r) /\ r.qframes = Cardinality(Held(r)) /\ r.start = S % SEQ_RANGE
  BY DEF At
<1>2. \A f \in HeldFrames(r) : f \in Nat
  <2>1. \A f \in HeldFrames(r) : f \in S .. S + r.wnd - 1 /\ r.wnd \in Nat
    BY HeldAt, Zenon
  <2> QED
    BY <2>1
<1>3. CASE r.qframes # 0
  <2>1. PICK p : p = PassUp(r, S)
    OBVIOUS
  <2>2. q = ampdu_rx_dispatch(p)
    BY <1>3, <2>1 DEF FirstInWindow
  <2>3. /\ At(p, S) /\ p.wnd = r.wnd /\ p.xchgpend = r.xchgpend
        /\ Held(p) = Held(r) /\ HeldFrames(p) = HeldFrames(r)
    <3>1. S \in Int
      OBVIOUS
    <3>2. SameSlots(r, S, p)
      BY <2>1, <3>1, PassUpAt, Zenon
    <3> QED
      BY <3>2 DEF SameSlots
  <2>4. Ordered(p, l, S + 1) /\ Passed(p) = Passed(r) \cup {S} /\ l < S + 1
    <3>1. S \in Int /\ S + 1 \in Int /\ S <= S /\ S < S + 1 /\ l < S + 1
      OBVIOUS
    <3> QED
      BY <1>1, <2>1, <3>1, PassUpOrdered
  <2>5. PICK T \in Nat : S + 1 <= T /\ Moved(p, S, q, T, {}, S + 1) /\ Ordered(q, l, T)
    BY <2>2, <2>3, <2>4, DispatchContract
  <2>6. /\ At(q, T) /\ S <= T /\ q.wnd = p.wnd /\ q.xchgpend = p.xchgpend /\ 0 \notin Held(q)
        /\ HeldFrames(q) = {f \in HeldFrames(p) : f >= T}
        /\ Passed(q) = Passed(p) \cup {f \in HeldFrames(p) : f < T}
        /\ \A k \in S .. T - 1 : k < S + 1 \/ k \in HeldFrames(p)
    BY <2>5 DEF Moved
  <2>7. HeldFrames(q) = {f \in HeldFrames(r) \cup {S} : f >= T}
    BY <2>3, <2>5, <2>6
  <2>8. Passed(q) = Passed(r) \cup {f \in HeldFrames(r) \cup {S} : f < T}
    BY <2>3, <2>4, <2>5, <2>6
  <2>9. \A k \in S .. T - 1 : k < S \/ k \in HeldFrames(r) \cup {S}
    BY <2>3, <2>6
  <2>10. Moved(r, S, q, T, {S}, S)
    BY <2>3, <2>6, <2>7, <2>8, <2>9 DEF Moved
  <2> QED
    BY <2>5, <2>10
<1>4. CASE r.qframes = 0
  <2>1. Held(r) = {} /\ HeldFrames(r) = {}
    BY <1>1, <1>4, NoneHeld
  <2>2. PICK p : p = [r EXCEPT !.start = (S + 1) % SEQ_RANGE]
    OBVIOUS
  <2>3. SeqAdd(r.start, 1) = (S + 1) % SEQ_RANGE
    BY <1>1, SeqShift
  <2>4. q = PassUp(p, S)
    BY <1>4, <2>2, <2>3 DEF FirstInWindow
  <2>5. /\ At(p, S + 1) /\ p.wnd = r.wnd /\ p.xchgpend = r.xchgpend
        /\ p.out = r.out /\ Held(p) = Held(r) /\ HeldFrames(p) = HeldFrames(r)
    <3>1. IsStart(r, S + 1, p)
      BY <1>1, <2>1, <2>2, SetStart
    <3> QED
      BY <3>1 DEF IsStart
  <2>6. Ordered(p, l, S) /\ Passed(p) = Passed(r)
    BY <2>5, SameOut
  <2>7. S \in Int /\ S + 1 \in Nat /\ S + 1 \in Int /\ S <= S /\ S < S + 1 /\ Buffer(p)
    BY <2>5 DEF At
  <2>8. Ordered(q, l, S + 1) /\ Passed(q) = Passed(p) \cup {S}
    BY <2>4, <2>6, <2>7, PassUpOrdered
  <2>9. /\ At(q, S + 1) /\ q.wnd = p.wnd /\ q.xchgpend = p.xchgpend
        /\ Held(q) = Held(p) /\ HeldFrames(q) = HeldFrames(p)
    <3>1. SameSlots(p, S + 1, q)
      BY <2>4, <2>5, <2>7, PassUpAt, Zenon
    <3> QED
      BY <3>1 DEF SameSlots
  <2>10. Moved(r, S, q, S + 1, {S}, S)
    BY <2>1, <2>5, <2>6, <2>7, <2>8, <2>9 DEF Moved
  <2> QED
    BY <2>7, <2>8, <2>10
<1> QED
  BY <1>3, <1>4

LEMMA SaveContract ==
  ASSUME NEW r, NEW S \in Nat, At(r, S), 0 \notin Held(r),
         NEW n \in Nat, S < n, n < S + r.wnd,
         NEW q, q = Save(r, n, n - S)
  PROVE  Moved(r, S, q, S, {n}, S) /\ q.out = r.out
<1> DEFINE o == n - S
<1>1. /\ Buffer(r) /\ r.start = S % SEQ_RANGE /\ r.qframes = Cardinality(Held(r))
      /\ r.wnd \in Nat /\ \A i \in Held(r) : r.m[i] = S + i
  BY DEF At, Buffer
<1>2. o \in 1 .. r.wnd - 1 /\ n = S + o /\ n # None
  BY <1>1 DEF None
<1>3. \A f \in HeldFrames(r) : f \in S .. S + r.wnd - 1
  BY HeldAt, Zenon
<1>4. CASE r.m[o] = None
  <2>1. q = [r EXCEPT !.m = [r.m EXCEPT ![o] = n], !.qframes = r.qframes + 1]
    BY <1>4 DEF Save
  <2>2. /\ DOMAIN q = DOMAIN r /\ q.m = [r.m EXCEPT ![o] = n] /\ q.qframes = r.qframes + 1
        /\ q.out = r.out /\ q.start = r.start /\ q.wnd = r.wnd /\ q.xchgpend = r.xchgpend
    BY <1>1, <2>1 DEF Buffer
  <2> HIDE DEF o
  <2>3. /\ q.m \in [0 .. r.wnd - 1 -> Int] /\ q.m[o] = n
        /\ \A i \in 0 .. r.wnd - 1 : i # o => q.m[i] = r.m[i]
    <3>1. r.m \in [0 .. r.wnd - 1 -> Int] /\ o \in 0 .. r.wnd - 1 /\ n \in Int
      BY <1>1, <1>2 DEF Buffer
    <3> QED
      BY <2>2, <3>1
  <2>4. Buffer(q)
    BY <1>1, <2>2, <2>3 DEF Buffer
  <2>5. Held(q) = Held(r) \cup {o} /\ o \notin Held(r)
    BY <1>2, <1>4, <2>2, <2>3 DEF Held, Slots
  <2>6. q.qframes = Cardinality(Held(q))
    <3>1. IsFiniteSet(Held(r))
      BY <1>1, HeldFinite
    <3>2. Cardinality(Held(r) \cup {o}) = Cardinality(Held(r)) + 1
      BY <2>5, <3>1, FS_AddElement
    <3> QED
      BY <1>1, <2>2, <2>5, <3>2
  <2>7. \A i \in Held(q) : q.m[i] = S + i
    <3>1. \A i \in Held(r) : i \in 0 .. r.wnd - 1
      BY DEF Held, Slots
    <3> QED
      BY <1>1, <1>2, <2>3, <2>5, <3>1
  <2>8. At(q, S)
    BY <1>1, <2>2, <2>4, <2>6, <2>7 DEF At
  <2>9. HeldFrames(q) = HeldFrames(r) \cup {n}
    <3>1. \A i \in Held(r) : q.m[i] = r.m[i]
      BY <1>1, <2>5, <2>7
    <3> QED
      BY <2>3, <2>5, <3>1 DEF HeldFrames
  <2>10. 0 \notin Held(q)
    BY <1>2, <2>5
  <2>11. Passed(q) = Passed(r)
    BY <2>2, SameOut
  <2> QED
    BY <1>3, <2>2, <2>8, <2>9, <2>10, <2>11 DEF Moved
<1>5. CASE r.m[o] # None
  <2>1. q = r
    BY <1>5 DEF Save
  <2>2. o \in Held(r) /\ n \in HeldFrames(r)
    BY <1>1, <1>2, <1>5 DEF Held, Slots, HeldFrames
  <2>0. HeldFrames(r) \cup {n} = HeldFrames(r) /\ \A f \in HeldFrames(r) : f >= S /\ ~(f < S)
    BY <1>1, <1>3, <2>2
  <2>3. HeldFrames(q) = {f \in HeldFrames(r) \cup {n} : f >= S}
    BY <2>1, <2>0
  <2>4. Passed(q) = Passed(r) \cup {f \in HeldFrames(r) \cup {n} : f < S}
    BY <2>1, <2>0
  <2> QED
    BY <2>1, <2>3, <2>4 DEF Moved
<1> QED
  BY <1>4, <1>5

\* FlushByAge passes everything up and starts the window after the new frame.
EmptiedTo(r, T, q) == At(q, T) /\ Held(q) = {} /\ q.wnd = r.wnd /\ q.xchgpend = r.xchgpend

LEMMA AgeContract ==
  ASSUME NEW r, NEW S \in Nat, At(r, S), NEW n \in Nat,
         NEW q, q = FlushByAge(r, n)
  PROVE  EmptiedTo(r, n + 1, q)
<1>1. PICK d : d = DispatchSlots(r, 0, r.wnd)
  OBVIOUS
<1>2. PICK p : p = [d EXCEPT !.start = (n + 1) % SEQ_RANGE]
  OBVIOUS
<1>3. SeqAdd(n % SEQ_RANGE, 1) = (n + 1) % SEQ_RANGE
  BY SeqShift
<1>4. q = PassUp(p, n)
  BY <1>1, <1>2, <1>3 DEF FlushByAge, ampdu_rx_flush
<1>5. Buffer(r) /\ r.wnd \in Nat /\ 0 \in Nat /\ 0 <= r.wnd /\ r.wnd <= r.wnd
  BY DEF At, Buffer
<1>6. At(d, S) /\ Held(d) = Held(r) \ Between(r, 0, r.wnd)
  BY <1>1, <1>5, DispatchAt
<1>7. Held(d) = {}
  <2>1. \A i \in Held(r) : 0 <= i /\ i < r.wnd
    BY <1>5 DEF Held, Slots
  <2> QED
    BY <1>6, <2>1 DEF Between
<1>8. d.wnd = r.wnd /\ d.xchgpend = r.xchgpend
  <2>1. IsDispatch(r, 0, r.wnd, d)
    BY <1>1, <1>5, DispatchFields
  <2> QED
    BY <2>1 DEF IsDispatch
<1>9. Buffer(d) /\ d.qframes = Cardinality(Held(d))
  BY <1>6 DEF At
<1>10. At(p, n + 1) /\ p.wnd = d.wnd /\ p.xchgpend = d.xchgpend /\ Held(p) = Held(d)
  <2>1. IsStart(d, n + 1, p)
    BY <1>2, <1>7, <1>9, SetStart
  <2> QED
    BY <2>1 DEF IsStart
<1>11. n \in Int /\ n + 1 \in Nat
  OBVIOUS
<1>12. At(q, n + 1) /\ q.wnd = p.wnd /\ q.xchgpend = p.xchgpend /\ Held(q) = Held(p)
  <2>1. SameSlots(p, n + 1, q)
    BY <1>4, <1>10, <1>11, PassUpAt, Zenon
  <2> QED
    BY <2>1 DEF SameSlots
<1> QED
  BY <1>7, <1>8, <1>10, <1>12 DEF EmptiedTo

\* A flush by age is an excuse; anything else moves the window over what came.
Aged(r, q, n, old) == old /\ r.qframes # 0 /\ EmptiedTo(r, n + 1, q)

LEMMA InWindowContract ==
  ASSUME NEW r, NEW S \in Nat, At(r, S), r.wnd \in Windows, 0 \notin Held(r),
         NEW n \in Nat, S <= n, n < S + r.wnd, NEW old,
         NEW l \in Int, Ordered(r, l, S), l < S,
         NEW q, q = InWindow(r, n, old)
  PROVE  \/ Aged(r, q, n, old)
         \/ \E T \in Nat : Moved(r, S, q, T, {n}, S) /\ Ordered(q, l, T) /\ n < T + r.wnd
<1>1. r.wnd \in Nat \ {0} /\ r.wnd < BA_RANGE /\ SEQ_RANGE = 2 * BA_RANGE /\ BA_RANGE \in Nat
  BY WindowFits, RangePositive
<1>2. SeqSub(n % SEQ_RANGE, r.start) = n - S
  <2>1. r.start = S % SEQ_RANGE
    BY DEF At
  <2>2. S \in Int /\ n \in Int /\ n - S < SEQ_RANGE
    BY <1>1
  <2> QED
    BY <2>1, <2>2, SeqSubForward
<1>3. CASE n = S
  <2>1. q = FirstInWindow(r, S)
    BY <1>2, <1>3 DEF InWindow
  <2>2. PICK T \in Nat : S + 1 <= T /\ Moved(r, S, q, T, {S}, S) /\ Ordered(q, l, T)
    BY <1>1, <2>1, FirstContract
  <2>3. n < T + r.wnd
    BY <1>1, <1>3, <2>2
  <2> QED
    BY <1>3, <2>2, <2>3
<1>4. CASE n # S /\ r.qframes # 0 /\ old
  <2>1. q = FlushByAge(r, n)
    BY <1>2, <1>4 DEF InWindow
  <2>2. EmptiedTo(r, n + 1, q)
    BY <2>1, AgeContract, Zenon
  <2> QED
    BY <1>4, <2>2 DEF Aged
<1>5. CASE n # S /\ ~(r.qframes # 0 /\ old)
  <2>1. n - S # 0 /\ S < n
    BY <1>5
  <2>2. q = Save(r, n, n - S)
    BY <1>2, <1>5, <2>1 DEF InWindow
  <2>3. Moved(r, S, q, S, {n}, S) /\ q.out = r.out
    BY <2>1, <2>2, SaveContract
  <2>4. Ordered(q, l, S)
    BY <2>3, SameOut
  <2> QED
    BY <2>3, <2>4
<1> QED
  BY <1>3, <1>4, <1>5

LEMMA WindowForContract ==
  ASSUME NEW r, NEW S \in Nat, At(r, S), r.wnd \in Windows,
         NEW n \in Nat, S + r.wnd <= n, n < S + BA_RANGE,
         NEW l \in Int, Ordered(r, l, S), l < S,
         NEW q, q = WindowFor(r, n)
  PROVE  \E T \in Nat : /\ T <= n /\ n < T + r.wnd
                        /\ Moved(r, S, q, T, {}, n - r.wnd + 1) /\ Ordered(q, l, T)
<1> DEFINE W == n - r.wnd + 1
<1>1. /\ r.wnd \in Nat \ {0} /\ r.wnd < BA_RANGE /\ SEQ_RANGE = 2 * BA_RANGE /\ BA_RANGE \in Nat
      /\ SEQ_RANGE \in Nat
  BY WindowFits, RangePositive
<1>2. W \in Nat /\ S < W /\ W < S + BA_RANGE /\ n - (r.wnd - 1) = W /\ W <= n /\ n < W + r.wnd
  BY <1>1
<1>3. SeqSub(n % SEQ_RANGE, r.wnd - 1) = W % SEQ_RANGE
  <2>1. n \in Int /\ r.wnd - 1 \in Int
    BY <1>1
  <2>2. SeqSub(n % SEQ_RANGE, r.wnd - 1) = (n - (r.wnd - 1)) % SEQ_RANGE
    BY <2>1, SeqShift
  <2> QED
    BY <1>2, <2>2, Zenon
<1> HIDE DEF W
<1>4. PICK p : p = ampdu_rx_flush_upto(r, W % SEQ_RANGE)
  OBVIOUS
<1>5. PICK T \in Nat : /\ T <= S + r.wnd /\ (T >= W \/ T = S + r.wnd)
                       /\ Moved(r, S, p, T, {}, W) /\ Ordered(p, l, T)
  BY <1>2, <1>4, FlushContract
<1>6. /\ At(p, T) /\ S <= T /\ p.wnd = r.wnd /\ p.xchgpend = r.xchgpend /\ 0 \notin Held(p)
      /\ HeldFrames(p) = {f \in HeldFrames(r) : f >= T}
      /\ Passed(p) = Passed(r) \cup {f \in HeldFrames(r) : f < T}
      /\ \A k \in S .. T - 1 : k < W \/ k \in HeldFrames(r)
  BY <1>5 DEF Moved
<1>7. SeqSub(n % SEQ_RANGE, p.start) = n - T
  <2>1. p.start = T % SEQ_RANGE
    BY <1>6 DEF At
  <2>2. T \in Int /\ n \in Int /\ T <= n /\ n - T < SEQ_RANGE
    BY <1>1, <1>5, <1>6
  <2> QED
    BY <2>1, <2>2, SeqSubForward
<1>8. CASE n - T < r.wnd
  <2>1. q = p
    BY <1>3, <1>4, <1>7, <1>8 DEF WindowFor
  <2>2. T <= n /\ n < T + r.wnd
    BY <1>1, <1>5, <1>8
  <2> QED
    BY <1>5, <2>1, <2>2 DEF W
<1>9. CASE ~(n - T < r.wnd)
  <2>1. q = [p EXCEPT !.start = W % SEQ_RANGE]
    BY <1>3, <1>4, <1>7, <1>9 DEF WindowFor
  <2>2. T = S + r.wnd /\ T <= W
    BY <1>1, <1>2, <1>5, <1>9
  <2>3. \A f \in HeldFrames(r) : f \in S .. S + r.wnd - 1
    BY HeldAt, Zenon
  <2>4. HeldFrames(p) = {}
    BY <1>1, <1>6, <2>2, <2>3
  <2>5. Buffer(p) /\ p.qframes = Cardinality(Held(p))
    BY <1>6 DEF At
  <2>6. Held(p) = {} /\ \A i \in Held(p) : p.m[i] = W + i
    BY <2>4 DEF HeldFrames
  <2>7. /\ At(q, W) /\ q.wnd = p.wnd /\ q.xchgpend = p.xchgpend
        /\ q.out = p.out /\ Held(q) = Held(p) /\ HeldFrames(q) = HeldFrames(p)
    <3>1. IsStart(p, W, q)
      BY <2>1, <2>5, <2>6, SetStart
    <3> QED
      BY <3>1 DEF IsStart
  <2>8. Ordered(q, l, T) /\ Passed(q) = Passed(p)
    BY <1>5, <2>7, SameOut
  <2>9. Ordered(q, l, W)
    <3>1. \A f \in Passed(q) : f < T
      BY <2>8 DEF Ordered
    <3>2. Passed(q) \subseteq Int
      BY <2>7 DEF At, Buffer, Passed, Ups
    <3>3. \A f \in Passed(q) : f < W
      BY <1>2, <1>5, <2>2, <3>1, <3>2
    <3> QED
      BY <2>8, <3>3 DEF Ordered
  <2>10. HeldFrames(q) = {f \in HeldFrames(r) : f >= W}
    BY <1>1, <1>2, <2>2, <2>3, <2>4, <2>7
  <2>11. Passed(q) = Passed(r) \cup {f \in HeldFrames(r) : f < W}
    BY <1>1, <1>2, <1>6, <2>2, <2>3, <2>8
  <2>12. \A k \in S .. W - 1 : k < W
    BY <1>2
  <2>13. Moved(r, S, q, W, {}, W)
    BY <1>2, <1>6, <2>6, <2>7, <2>10, <2>11, <2>12 DEF Moved
  <2> QED
    BY <1>2, <2>9, <2>13 DEF W
<1> QED
  BY <1>8, <1>9

LEMMA MovedTwice ==
  ASSUME NEW r, NEW S \in Nat, At(r, S), NEW p, NEW T \in Nat, NEW q, NEW U \in Nat, NEW n \in Nat, NEW V,
         Moved(r, S, p, T, {}, V), Moved(p, T, q, U, {n}, T), T <= n
  PROVE  Moved(r, S, q, U, {n}, V)
<1>1. /\ S <= T /\ p.wnd = r.wnd /\ p.xchgpend = r.xchgpend
      /\ HeldFrames(p) = {f \in HeldFrames(r) : f >= T}
      /\ Passed(p) = Passed(r) \cup {f \in HeldFrames(r) : f < T}
      /\ \A k \in S .. T - 1 : k < V \/ k \in HeldFrames(r)
  BY DEF Moved
<1>2. /\ At(q, U) /\ T <= U /\ q.wnd = p.wnd /\ q.xchgpend = p.xchgpend /\ 0 \notin Held(q)
      /\ HeldFrames(q) = {f \in HeldFrames(p) \cup {n} : f >= U}
      /\ Passed(q) = Passed(p) \cup {f \in HeldFrames(p) \cup {n} : f < U}
      /\ \A k \in T .. U - 1 : k < T \/ k \in HeldFrames(p) \cup {n}
  BY DEF Moved
<1>3. \A f \in HeldFrames(r) : f \in Int
  <2>1. \A f \in HeldFrames(r) : f \in S .. S + r.wnd - 1 /\ r.wnd \in Nat
    BY HeldAt, Zenon
  <2> QED
    BY <2>1
<1>4. \A f \in HeldFrames(r) : f >= U => f >= T
  BY <1>2, <1>3
<1>5. HeldFrames(q) = {f \in HeldFrames(r) \cup {n} : f >= U}
  BY <1>1, <1>2, <1>4
<1>6. \A f \in HeldFrames(r) \cup {n} : f < U <=> (f < T /\ f \in HeldFrames(r)) \/ (f < U /\ f \in HeldFrames(p) \cup {n})
  BY <1>1, <1>2, <1>3
<1>7. Passed(q) = Passed(r) \cup {f \in HeldFrames(r) \cup {n} : f < U}
  BY <1>1, <1>2, <1>6
<1>8. \A k \in S .. U - 1 : k < V \/ k \in HeldFrames(r) \cup {n}
  <2> SUFFICES ASSUME NEW k \in S .. U - 1, ~(k < V) PROVE k \in HeldFrames(r) \cup {n}
    OBVIOUS
  <2>1. CASE k < T
    BY <1>1, <2>1
  <2>2. CASE ~(k < T)
    <3>1. k \in T .. U - 1
      BY <2>2
    <3> QED
      BY <1>1, <1>2, <2>2, <3>1
  <2> QED
    BY <2>1, <2>2
<1> QED
  BY <1>1, <1>2, <1>5, <1>7, <1>8 DEF Moved

Reordered(r, S, q, n, old, l) ==
  \/ n < S /\ q = r
  \/ S <= n /\ Aged(r, q, n, old)
  \/ /\ S <= n
     /\ \E T \in Nat : /\ Moved(r, S, q, T, {n}, n - r.wnd + 1)
                       /\ Ordered(q, l, T) /\ n < T + r.wnd

(***************************************************************************)
(* A frame of the peer: a late one changes nothing, and of the others none  *)
(* is lost unless the buffer was flushed by age.                            *)
(***************************************************************************)
LEMMA ReorderContract ==
  ASSUME NEW r, NEW S \in Nat, At(r, S), r.wnd \in Windows, 0 \notin Held(r), r.xchgpend = TRUE,
         NEW n \in Nat, n < S + BA_RANGE, S <= n + BA_RANGE, NEW old,
         NEW l \in Int, Ordered(r, l, S), l < S,
         NEW q, q = ieee80211_ampdu_reorder(r, n, old)
  PROVE  Reordered(r, S, q, n, old, l)
<1> USE DEF Reordered
<1>1. /\ r.wnd \in Nat \ {0} /\ r.wnd < BA_RANGE /\ SEQ_RANGE = 2 * BA_RANGE /\ BA_RANGE \in Nat
      /\ SEQ_RANGE \in Nat
  BY WindowFits, RangePositive
<1>2. r.start = S % SEQ_RANGE
  BY DEF At
<1>3. CASE n < S
  <2>1. S \in Int /\ n \in Int /\ S - n <= SEQ_RANGE
    BY <1>1, <1>3
  <2>2. SeqSub(n % SEQ_RANGE, r.start) = n - S + SEQ_RANGE
    BY <1>2, <1>3, <2>1, SeqSubBackward
  <2>3. BA_RANGE <= n - S + SEQ_RANGE
    BY <1>1
  <2>4. ~(n - S + SEQ_RANGE < r.wnd) /\ ~(n - S + SEQ_RANGE < BA_RANGE)
    BY <1>1, <2>3
  <2>5. q = r
    BY <2>2, <2>3, <2>4 DEF ieee80211_ampdu_reorder
  <2> QED
    BY <1>3, <2>5
<1>4. CASE S <= n
  <2>1. S \in Int /\ n \in Int /\ n - S < SEQ_RANGE
    BY <1>1, <1>4
  <2>2. SeqSub(n % SEQ_RANGE, r.start) = n - S
    BY <1>2, <1>4, <2>1, SeqSubForward
  <2>3. CASE n - S < r.wnd
    <3>1. ~(r.wnd <= n - S) /\ ~(BA_RANGE <= n - S) /\ n < S + r.wnd
      BY <1>1, <2>3
    <3>2. q = InWindow(r, n, old)
      BY <2>2, <2>3, <3>1 DEF ieee80211_ampdu_reorder
    <3>3. \/ Aged(r, q, n, old)
          \/ \E T \in Nat : Moved(r, S, q, T, {n}, S) /\ Ordered(q, l, T) /\ n < T + r.wnd
      BY <1>4, <3>1, <3>2, InWindowContract
    <3>4. ASSUME NEW T \in Nat, Moved(r, S, q, T, {n}, S) PROVE Moved(r, S, q, T, {n}, n - r.wnd + 1)
      <4>1. \A k \in S .. T - 1 : k \in HeldFrames(r) \cup {n}
        BY <3>4 DEF Moved
      <4> QED
        BY <3>4, <4>1 DEF Moved
    <3> QED
      BY <1>4, <3>3, <3>4
  <2>4. CASE ~(n - S < r.wnd)
    <3>1. r.wnd <= n - S /\ n - S < BA_RANGE /\ ~(BA_RANGE <= n - S) /\ S + r.wnd <= n
      BY <1>1, <2>4
    <3>2. PICK p : p = WindowFor(r, n)
      OBVIOUS
    <3>3. q = InWindow(p, n, old)
      BY <2>2, <2>4, <3>1, <3>2 DEF ieee80211_ampdu_reorder
    <3>4. PICK T \in Nat : /\ T <= n /\ n < T + r.wnd
                           /\ Moved(r, S, p, T, {}, n - r.wnd + 1) /\ Ordered(p, l, T)
      BY <3>1, <3>2, WindowForContract
    <3>5. /\ At(p, T) /\ S <= T /\ p.wnd = r.wnd /\ p.xchgpend = r.xchgpend /\ 0 \notin Held(p)
          /\ HeldFrames(p) \subseteq HeldFrames(r)
      BY <3>4 DEF Moved
    <3>6. l < T
      BY <3>4, <3>5
    <3>7. \/ Aged(p, q, n, old)
          \/ \E U \in Nat : Moved(p, T, q, U, {n}, T) /\ Ordered(q, l, U) /\ n < U + p.wnd
      BY <3>3, <3>4, <3>5, <3>6, InWindowContract
    <3>8. p.qframes # 0 => r.qframes # 0
      <4>1. Buffer(p) /\ p.qframes = Cardinality(Held(p)) /\ Buffer(r) /\ r.qframes = Cardinality(Held(r))
        BY <3>5 DEF At
      <4>2. (p.qframes = 0 <=> Held(p) = {}) /\ (Held(p) = {} <=> HeldFrames(p) = {})
        BY <4>1, NoneHeld
      <4>3. (r.qframes = 0 <=> Held(r) = {}) /\ (Held(r) = {} <=> HeldFrames(r) = {})
        BY <4>1, NoneHeld
      <4> QED
        BY <3>5, <4>2, <4>3
    <3>9. Aged(p, q, n, old) => Aged(r, q, n, old)
      BY <3>5, <3>8 DEF Aged, EmptiedTo
    <3>10. ASSUME NEW U \in Nat, Moved(p, T, q, U, {n}, T) PROVE Moved(r, S, q, U, {n}, n - r.wnd + 1)
      BY <3>4, <3>10, MovedTwice
    <3> QED
      BY <1>4, <3>5, <3>7, <3>9, <3>10
  <2> QED
    BY <2>3, <2>4
<1> QED
  BY <1>3, <1>4

\* A BAR of the peer for its frame W.
LEMMA BarContract ==
  ASSUME NEW r, NEW S \in Nat, At(r, S), r.wnd \in Windows, r.xchgpend = TRUE,
         NEW W \in Nat, W < S + BA_RANGE, S <= W + BA_RANGE,
         NEW l \in Int, Ordered(r, l, S), l < S,
         NEW q, q = ieee80211_recv_bar(r, W % SEQ_RANGE)
  PROVE  \/ q = r
         \/ \E T \in Nat : Moved(r, S, q, T, {}, W) /\ Ordered(q, l, T)
<1>1. /\ r.wnd \in Nat \ {0} /\ r.wnd < BA_RANGE /\ SEQ_RANGE = 2 * BA_RANGE /\ BA_RANGE \in Nat
      /\ SEQ_RANGE \in Nat
  BY WindowFits, RangePositive
<1>2. r.start = S % SEQ_RANGE
  BY DEF At
<1>3. CASE W <= S
  <2>1. SeqSub(W % SEQ_RANGE, r.start) = 0 \/ ~(SeqSub(W % SEQ_RANGE, r.start) < BA_RANGE)
    <3>1. CASE W < S
      <4>1. S \in Int /\ W \in Int /\ S - W <= SEQ_RANGE
        BY <1>1
      <4>2. SeqSub(W % SEQ_RANGE, r.start) = W - S + SEQ_RANGE
        BY <1>2, <3>1, <4>1, SeqSubBackward
      <4> QED
        BY <1>1, <4>2
    <3>2. CASE W = S
      <4>1. S \in Int /\ W \in Int /\ S <= W /\ W - S < SEQ_RANGE /\ W - S = 0
        BY <1>1, <3>2
      <4>2. SeqSub(W % SEQ_RANGE, r.start) = W - S
        BY <1>2, <4>1, SeqSubForward
      <4> QED
        BY <4>1, <4>2
    <3> QED
      BY <1>3, <3>1, <3>2
  <2>2. q = r
    BY <2>1 DEF ieee80211_recv_bar
  <2> QED
    BY <2>2
<1>4. CASE S < W
  <2>1. S \in Int /\ W \in Int /\ S <= W /\ W - S < SEQ_RANGE /\ W - S # 0 /\ W - S < BA_RANGE
    BY <1>1, <1>4
  <2>2. SeqSub(W % SEQ_RANGE, r.start) = W - S
    BY <1>2, <2>1, SeqSubForward
  <2>3. PICK p : p = ampdu_rx_flush_upto(r, W % SEQ_RANGE)
    OBVIOUS
  <2>4. q = [p EXCEPT !.start = IF W - S < r.wnd THEN p.start ELSE W % SEQ_RANGE]
    BY <2>1, <2>2, <2>3 DEF ieee80211_recv_bar
  <2>5. PICK T \in Nat : /\ T <= S + r.wnd /\ (T >= W \/ T = S + r.wnd)
                         /\ Moved(r, S, p, T, {}, W) /\ Ordered(p, l, T)
    BY <1>4, <2>3, FlushContract
  <2>6. /\ At(p, T) /\ S <= T /\ p.wnd = r.wnd /\ p.xchgpend = r.xchgpend /\ 0 \notin Held(p)
        /\ HeldFrames(p) = {f \in HeldFrames(r) : f >= T}
        /\ Passed(p) = Passed(r) \cup {f \in HeldFrames(r) : f < T}
        /\ \A k \in S .. T - 1 : k < W \/ k \in HeldFrames(r)
    BY <2>5 DEF Moved
  <2>7. Buffer(p) /\ p.qframes = Cardinality(Held(p)) /\ p.start = T % SEQ_RANGE
        /\ \A i \in Held(p) : p.m[i] = T + i
    BY <2>6 DEF At
  <2>8. CASE W - S < r.wnd
    <3>1. q = [p EXCEPT !.start = T % SEQ_RANGE]
      BY <2>4, <2>7, <2>8
    <3>2. IsStart(p, T, q)
      BY <2>7, <3>1, SetStart
    <3>3. /\ At(q, T) /\ q.wnd = p.wnd /\ q.xchgpend = p.xchgpend
          /\ q.out = p.out /\ Held(q) = Held(p) /\ HeldFrames(q) = HeldFrames(p)
      BY <3>2 DEF IsStart
    <3>4. Ordered(q, l, T) /\ Passed(q) = Passed(p)
      BY <2>5, <3>3, SameOut
    <3>5. Moved(r, S, q, T, {}, W)
      BY <2>6, <3>3, <3>4 DEF Moved
    <3> QED
      BY <3>4, <3>5
  <2>9. CASE ~(W - S < r.wnd)
    <3>1. q = [p EXCEPT !.start = W % SEQ_RANGE]
      BY <2>4, <2>9
    <3>2. T = S + r.wnd /\ T <= W
      BY <1>1, <2>5, <2>9
    <3>3. \A f \in HeldFrames(r) : f \in S .. S + r.wnd - 1
      BY HeldAt, Zenon
    <3>4. HeldFrames(p) = {}
      BY <1>1, <2>6, <3>2, <3>3
    <3>5. Held(p) = {} /\ \A i \in Held(p) : p.m[i] = W + i
      BY <3>4 DEF HeldFrames
    <3>6. IsStart(p, W, q)
      BY <2>7, <3>1, <3>5, SetStart
    <3>7. /\ At(q, W) /\ q.wnd = p.wnd /\ q.xchgpend = p.xchgpend
          /\ q.out = p.out /\ Held(q) = Held(p) /\ HeldFrames(q) = HeldFrames(p)
      BY <3>6 DEF IsStart
    <3>8. Ordered(q, l, T) /\ Passed(q) = Passed(p)
      BY <2>5, <3>7, SameOut
    <3>9. Ordered(q, l, W)
      <4>1. \A f \in Passed(q) : f < T
        BY <3>8 DEF Ordered
      <4>2. Passed(q) \subseteq Int
        BY <3>7 DEF At, Buffer, Passed, Ups
      <4>3. \A f \in Passed(q) : f < W
        BY <2>5, <3>2, <4>1, <4>2
      <4> QED
        BY <3>8, <4>3 DEF Ordered
    <3>10. HeldFrames(q) = {f \in HeldFrames(r) : f >= W}
      BY <1>1, <3>2, <3>3, <3>4, <3>7
    <3>11. Passed(q) = Passed(r) \cup {f \in HeldFrames(r) : f < W}
      BY <1>1, <2>6, <3>2, <3>3, <3>8
    <3>12. S <= W /\ \A k \in S .. W - 1 : k < W
      BY <1>4
    <3>13. Moved(r, S, q, W, {}, W)
      BY <2>6, <3>5, <3>7, <3>10, <3>11, <3>12 DEF Moved
    <3> QED
      BY <3>9, <3>13
  <2> QED
    BY <2>8, <2>9
<1> QED
  BY <1>3, <1>4

-----------------------------------------------------------------------------
(***************************************************************************)
(* The invariant.  During an agreement there is a frame S the window starts *)
(* at: the peer's frames are close to S (PeerAt), and, unless the order was *)
(* cut, everything of the peer before S has arrived and been passed up, and *)
(* what arrived since waits in its slot (HistoryAt).                        *)
(***************************************************************************)
Arrived == acked \cup ackLost

PeerAt(S) ==
  /\ base + PeerWindow <= S + BA_RANGE
  /\ \A k \in Arrived : base <= k /\ k < base + PeerWindow /\ k < S + rap.wnd
  /\ \A f \in HeldFrames(rap) : f < base \/ f \in Arrived

HistoryAt(S) ==
  /\ rap.wnd >= PeerWindow
  /\ last < S
  /\ base .. S - 1 \subseteq Arrived
  /\ \A k \in Arrived : k < S \/ k \in HeldFrames(rap)
  /\ waiting = HeldFrames(rap)

Agreed ==
  /\ rap.wnd \in Windows
  /\ \E S \in 0 .. base + PeerWindow : At(rap, S) /\ PeerAt(S) /\ (~excused => HistoryAt(S))

NotAgreed ==
  /\ Held(rap) = {} /\ ackLost = {} /\ acked \subseteq {base}
  /\ ~excused => (last < base \/ last \in acked) /\ waiting = {}

\* The parts of the type invariant.
RapType ==
  /\ rap.wnd \in Windows \cup {0} /\ rap.start \in 0 .. SEQ_RANGE - 1
  /\ rap.m \in [Slots(rap) -> 0 .. MaxSeq \cup {None}]
  /\ rap.qframes \in 0 .. rap.wnd /\ rap.xchgpend \in BOOLEAN /\ rap.out = <<>>

PeerType ==
  base \in 0 .. MaxSeq + 1 /\ acked \subseteq 0 .. MaxSeq /\ ackLost \subseteq 0 .. MaxSeq

HistoryType ==
  /\ last \in 0 .. MaxSeq \cup {None} /\ waiting \subseteq 0 .. MaxSeq
  /\ inOrder \in BOOLEAN /\ excused \in BOOLEAN

RapInv ==
  RapType /\ Buffer(rap) /\ rap.qframes = Cardinality(Held(rap)) /\ 0 \notin Held(rap)

Inv ==
  /\ RapInv /\ PeerType /\ HistoryType
  /\ inOrder
  /\ excused => waiting = {}
  /\ rap.xchgpend => Agreed
  /\ ~rap.xchgpend => NotAgreed

LEMMA TypeParts == TypeOK <=> RapType /\ PeerType /\ HistoryType
BY DEF TypeOK, RapType, PeerType, HistoryType

LEMMA MaxSeqNat == MaxSeq \in Nat /\ PeerWindow \in Nat \ {0} /\ BA_RANGE \in Nat /\ Windows \subseteq Nat \ {0}
BY WindowAssumption

LEMMA HeldType ==
  ASSUME RapInv
  PROVE  HeldFrames(rap) \subseteq 0 .. MaxSeq /\ Passed(rap) = {} /\ Ups(rap) = {}
<1>1. \A i \in Held(rap) : rap.m[i] \in 0 .. MaxSeq
  BY DEF RapInv, RapType, Held
<1>2. rap.out = <<>>
  BY DEF RapInv, RapType
<1>3. Ups(rap) = {}
  BY <1>2 DEF Ups
<1> QED
  BY <1>1, <1>3 DEF HeldFrames, Passed

\* What a handler leaves once its frames are passed up.
LEMMA ResultFields ==
  ASSUME NEW q, Buffer(q), NEW e, Result(q, e)
  PROVE  /\ Buffer(rap') /\ rap'.start = q.start /\ rap'.wnd = q.wnd /\ rap'.m = q.m
         /\ rap'.qframes = q.qframes /\ rap'.xchgpend = q.xchgpend /\ rap'.out = <<>>
         /\ Held(rap') = Held(q) /\ HeldFrames(rap') = HeldFrames(q)
<1>1. /\ DOMAIN rap' = DOMAIN q /\ rap'.start = q.start /\ rap'.wnd = q.wnd /\ rap'.m = q.m
      /\ rap'.qframes = q.qframes /\ rap'.xchgpend = q.xchgpend /\ rap'.out = <<>>
  <2>1. rap' = [q EXCEPT !.out = <<>>]
    BY DEF Result
  <2> QED
    BY <2>1 DEF Buffer
<1>2. Buffer(rap')
  <2>1. <<>> \in Seq(Int)
    OBVIOUS
  <2> QED
    BY <1>1, <2>1 DEF Buffer
<1>3. Held(rap') = Held(q) /\ HeldFrames(rap') = HeldFrames(q)
  BY <1>1 DEF Held, Slots, HeldFrames
<1> QED
  BY <1>1, <1>2, <1>3

LEMMA RapStep ==
  ASSUME NEW q, Buffer(q), NEW e, Result(q, e), q.wnd \in Windows \cup {0},
         q.start \in 0 .. SEQ_RANGE - 1, q.xchgpend \in BOOLEAN,
         q.qframes = Cardinality(Held(q)), 0 \notin Held(q), HeldFrames(q) \subseteq 0 .. MaxSeq
  PROVE  RapInv'
<1>1. /\ Buffer(rap') /\ rap'.start = q.start /\ rap'.wnd = q.wnd /\ rap'.m = q.m
      /\ rap'.qframes = q.qframes /\ rap'.xchgpend = q.xchgpend /\ rap'.out = <<>>
      /\ Held(rap') = Held(q) /\ HeldFrames(rap') = HeldFrames(q)
  BY ResultFields, Zenon
<1>2. q.qframes \in 0 .. q.wnd
  BY HeldFinite
<1>3. q.m \in [Slots(q) -> 0 .. MaxSeq \cup {None}]
  <2>1. q.m \in [Slots(q) -> Int]
    BY DEF Buffer, Slots
  <2>2. \A i \in Slots(q) : q.m[i] \in 0 .. MaxSeq \cup {None}
    BY DEF Held, HeldFrames
  <2> QED
    BY <2>1, <2>2
<1>4. Slots(rap') = Slots(q)
  BY <1>1 DEF Slots
<1>5. RapType'
  BY <1>1, <1>2, <1>3, <1>4 DEF RapType
<1> QED
  BY <1>1, <1>5 DEF RapInv

(***************************************************************************)
(* The window and the peer after a step from S to T in which the frames of  *)
(* came have come.                                                          *)
(***************************************************************************)
LEMMA PositionStep ==
  ASSUME Inv, rap.wnd \in Windows, NEW S \in Nat, At(rap, S), PeerAt(S),
         NEW q, NEW T \in Nat, S <= T, T <= base + PeerWindow, At(q, T),
         q.wnd = rap.wnd, q.xchgpend = TRUE, 0 \notin Held(q),
         NEW came \in SUBSET (0 .. MaxSeq),
         \A k \in came : base <= k /\ k < base + PeerWindow /\ k < T + rap.wnd,
         HeldFrames(q) \subseteq HeldFrames(rap) \cup came,
         NEW e, Result(q, e), base' = base, Arrived' = Arrived \cup came
  PROVE  /\ RapInv' /\ rap'.wnd = rap.wnd /\ rap'.xchgpend = TRUE
         /\ T \in 0 .. base' + PeerWindow /\ At(rap', T) /\ PeerAt(T)'
         /\ HeldFrames(rap') = HeldFrames(q)
         /\ SeqSub(rap'.start, rap.start) <= BA_RANGE
<1>1. /\ MaxSeq \in Nat /\ PeerWindow \in Nat \ {0} /\ BA_RANGE \in Nat \ {0} /\ SEQ_RANGE = 2 * BA_RANGE
      /\ rap.wnd \in Nat
  BY MaxSeqNat, RangePositive
<1>2. base \in Nat /\ RapInv /\ Arrived \subseteq 0 .. MaxSeq
  BY MaxSeqNat DEF Inv, PeerType, Arrived
<1>3. /\ Buffer(q) /\ q.start = T % SEQ_RANGE /\ q.qframes = Cardinality(Held(q))
      /\ \A i \in Held(q) : q.m[i] = T + i
  BY DEF At
<1>4. HeldFrames(q) \subseteq 0 .. MaxSeq
  BY <1>2, HeldType
<1>5. RapInv'
  <2>1. q.start \in 0 .. SEQ_RANGE - 1
    BY <1>3, SeqQuotient
  <2>2. q.wnd \in Windows \cup {0} /\ q.xchgpend \in BOOLEAN
    OBVIOUS
  <2> QED
    BY <1>3, <1>4, <2>1, <2>2, RapStep
<1>6. /\ Buffer(rap') /\ rap'.start = q.start /\ rap'.wnd = q.wnd /\ rap'.m = q.m
      /\ rap'.qframes = q.qframes /\ rap'.xchgpend = q.xchgpend /\ rap'.out = <<>>
      /\ Held(rap') = Held(q) /\ HeldFrames(rap') = HeldFrames(q)
  BY <1>3, ResultFields, Zenon
<1>7. At(rap', T)
  BY <1>3, <1>6 DEF At
<1>8. PeerAt(T)'
  <2>1. base' + PeerWindow <= T + BA_RANGE
    BY <1>1, <1>2 DEF PeerAt
  <2>2. ASSUME NEW k \in Arrived' PROVE base' <= k /\ k < base' + PeerWindow /\ k < T + rap'.wnd
    <3>1. CASE k \in came
      BY <1>6, <3>1
    <3>2. CASE k \in Arrived
      <4>1. base <= k /\ k < base + PeerWindow /\ k < S + rap.wnd /\ k \in Nat
        BY <1>2, <3>2 DEF PeerAt
      <4> QED
        BY <1>1, <1>6, <4>1
    <3> QED
      BY <3>1, <3>2
  <2>3. ASSUME NEW f \in HeldFrames(rap') PROVE f < base' \/ f \in Arrived'
    BY <1>6 DEF PeerAt
  <2> QED
    BY <2>1, <2>2, <2>3 DEF PeerAt
<1>9. SeqSub(rap'.start, rap.start) <= BA_RANGE
  <2>1. rap.start = S % SEQ_RANGE /\ rap'.start = T % SEQ_RANGE
    BY <1>7 DEF At
  <2>2. T - S <= BA_RANGE
    BY <1>1, <1>2 DEF PeerAt
  <2>3. S \in Int /\ T \in Int /\ T - S < SEQ_RANGE
    BY <1>1, <2>2
  <2>4. SeqSub(T % SEQ_RANGE, S % SEQ_RANGE) = T - S
    BY <2>3, SeqSubForward
  <2> QED
    BY <2>1, <2>2, <2>4
<1>10. T \in 0 .. base' + PeerWindow
  BY <1>1, <1>2
<1> QED
  BY <1>5, <1>6, <1>7, <1>8, <1>9, <1>10

(***************************************************************************)
(* The histories after a step in which no frame was lost.                   *)
(***************************************************************************)
LEMMA HistoryStep ==
  ASSUME Inv, NEW S \in Nat, At(rap, S), PeerAt(S), HistoryAt(S),
         NEW q, NEW T \in Nat, NEW new, NEW V, Moved(rap, S, q, T, new, V), Ordered(q, last, T),
         V <= base, V \in Int, new \subseteq 0 .. MaxSeq,
         NEW came, new \subseteq came, \A k \in came : k < T \/ k \in new,
         Result(q, FALSE), base' = base, Arrived' = Arrived \cup came,
         waiting' = (HeldFrames(rap) \cup new) \ Passed(q)
  PROVE  HistoryAt(T)' /\ inOrder' = TRUE /\ HistoryType' /\ excused' = FALSE
<1>1. /\ MaxSeq \in Nat /\ PeerWindow \in Nat \ {0} /\ BA_RANGE \in Nat
  BY MaxSeqNat
<1>2. /\ base \in Nat /\ RapInv /\ Arrived \subseteq 0 .. MaxSeq /\ last \in Int
      /\ last \in 0 .. MaxSeq \cup {None} /\ inOrder = TRUE
  BY MaxSeqNat DEF Inv, PeerType, Arrived, HistoryType, None
<1>3. HeldFrames(rap) \subseteq 0 .. MaxSeq /\ Passed(rap) = {}
  BY <1>2, HeldType
<1>4. /\ At(q, T) /\ S <= T /\ q.wnd = rap.wnd
      /\ HeldFrames(q) = {f \in HeldFrames(rap) \cup new : f >= T}
      /\ Passed(q) = {f \in HeldFrames(rap) \cup new : f < T}
      /\ \A k \in S .. T - 1 : k < V \/ k \in HeldFrames(rap) \cup new
  BY <1>3 DEF Moved
<1>5. /\ rap.wnd >= PeerWindow /\ last < S /\ base .. S - 1 \subseteq Arrived
      /\ \A k \in Arrived : k < S \/ k \in HeldFrames(rap)
  BY DEF HistoryAt
<1>6. Buffer(q)
  BY <1>4 DEF At
<1>7. rap'.wnd = q.wnd /\ HeldFrames(rap') = HeldFrames(q)
  BY <1>6, ResultFields, Zenon
<1>8. \A f \in HeldFrames(rap) \cup new : f \in Int /\ (f >= T <=> ~(f < T))
  <2>1. \A f \in 0 .. MaxSeq : f \in Int /\ (f >= T <=> ~(f < T))
    BY <1>1
  <2> QED
    BY <1>3, <2>1
<1>9. waiting' = HeldFrames(rap') /\ waiting' \subseteq 0 .. MaxSeq
  <2>1. waiting' = HeldFrames(q)
    BY <1>4, <1>8
  <2> QED
    BY <1>3, <1>7, <2>1
<1>10. last' < T /\ last' \in 0 .. MaxSeq \cup {None}
  <2>1. last' = IF Ups(q) = {} THEN last ELSE q.out[Max(Ups(q))]
    BY DEF Result
  <2>2. CASE Ups(q) = {}
    BY <1>2, <1>4, <1>5, <2>1, <2>2
  <2>3. CASE Ups(q) # {}
    <3>1. Len(q.out) \in Nat
      BY <1>6 DEF Buffer
    <3>2. Ups(q) \in SUBSET (0 .. Len(q.out))
      BY <3>1 DEF Ups
    <3>3. Max(Ups(q)) \in Ups(q)
      BY <2>3, <3>1, <3>2, LargestOf
    <3>4. last' \in Passed(q)
      BY <2>1, <2>3, <3>3 DEF Passed
    <3> QED
      BY <1>3, <1>4, <3>4
  <2> QED
    BY <2>2, <2>3
<1>11. inOrder' = TRUE /\ excused' = FALSE
  BY <1>2 DEF Ordered, Result
<1>12. base' .. T - 1 \subseteq Arrived'
  <2> SUFFICES ASSUME NEW k \in base .. T - 1 PROVE k \in Arrived \cup came
    OBVIOUS
  <2>1. CASE k < S
    <3>1. k \in base .. S - 1
      BY <1>2, <2>1
    <3> QED
      BY <1>5, <3>1
  <2>2. CASE ~(k < S)
    <3>1. k \in S .. T - 1 /\ ~(k < V) /\ ~(k < base)
      BY <1>2, <2>2
    <3>2. k \in HeldFrames(rap) \cup new
      BY <1>4, <3>1
    <3> QED
      BY <3>1, <3>2 DEF PeerAt
  <2> QED
    BY <2>1, <2>2
<1>13. \A k \in Arrived' : k < T \/ k \in HeldFrames(rap')
  <2> SUFFICES ASSUME NEW k \in Arrived \cup came, ~(k < T) PROVE k \in HeldFrames(q)
    BY <1>7
  <2>1. k \in HeldFrames(rap) \cup new
    <3>1. CASE k \in came
      BY <3>1
    <3>2. CASE k \in Arrived
      BY <1>2, <1>4, <1>5, <3>2
    <3> QED
      BY <3>1, <3>2
  <2> QED
    BY <1>4, <1>8, <2>1
<1>14. HistoryAt(T)'
  BY <1>4, <1>5, <1>7, <1>9, <1>10, <1>12, <1>13 DEF HistoryAt
<1>15. HistoryType'
  BY <1>9, <1>10, <1>11 DEF HistoryType
<1> QED
  BY <1>11, <1>14, <1>15

-----------------------------------------------------------------------------
(***************************************************************************)
(* One lemma per action.                                                    *)
(***************************************************************************)
LEMMA AgreedStep ==
  ASSUME RapInv', PeerType', HistoryType', inOrder' = TRUE, excused' => waiting' = {},
         rap'.wnd \in Windows, rap'.xchgpend = TRUE,
         NEW T \in 0 .. base' + PeerWindow, At(rap', T), PeerAt(T)', ~excused' => HistoryAt(T)'
  PROVE  Inv'
<1>1. Agreed'
  BY DEF Agreed
<1> QED
  BY <1>1 DEF Inv

LEMMA ExcusedStep ==
  ASSUME Inv, NEW q, Result(q, TRUE), waiting' = {}
  PROVE  HistoryType' /\ inOrder' = TRUE /\ excused' = TRUE
<1>1. excused' = TRUE /\ last' = last
  BY DEF Result
<1>2. inOrder' = TRUE
  BY DEF Inv, Result
<1> QED
  BY <1>1, <1>2 DEF Inv, HistoryType

\* Nothing has been passed up before a handler runs.
LEMMA NothingOut ==
  ASSUME RapInv, NEW l, NEW S
  PROVE  Ordered(rap, l, S)
BY HeldType DEF Ordered, Increasing

LEMMA Unmoved ==
  ASSUME RapInv, NEW S \in Nat, At(rap, S), NEW V
  PROVE  Moved(rap, S, rap, S, {}, V)
<1>1. Passed(rap) = {} /\ 0 \notin Held(rap)
  BY HeldType DEF RapInv
<1>2. \A f \in HeldFrames(rap) : f \in S .. S + rap.wnd - 1 /\ rap.wnd \in Nat
  BY HeldAt, Zenon
<1>3. \A f \in HeldFrames(rap) : f >= S /\ ~(f < S)
  BY <1>2
<1>4. HeldFrames(rap) = {f \in HeldFrames(rap) \cup {} : f >= S}
  BY <1>3
<1>5. Passed(rap) = Passed(rap) \cup {f \in HeldFrames(rap) \cup {} : f < S}
  BY <1>1, <1>3
<1> QED
  BY <1>1, <1>4, <1>5 DEF Moved

LEMMA ReceiveInAgreement ==
  ASSUME Inv, rap.xchgpend = TRUE, NEW n \in 0 .. MaxSeq, NEW old \in BOOLEAN, NEW heard \in BOOLEAN,
         Receive(n, old, heard)
  PROVE  Inv' /\ SeqSub(rap'.start, rap.start) <= BA_RANGE
<1>1. /\ rap.wnd \in Windows /\ RapInv /\ Agreed /\ 0 \notin Held(rap)
  BY DEF Inv, Agreed, RapInv
<1>2. /\ base \in Nat /\ base \in 0 .. MaxSeq + 1 /\ Arrived \subseteq 0 .. MaxSeq /\ last \in Int
      /\ MaxSeq \in Nat
  BY MaxSeqNat DEF Inv, PeerType, Arrived, HistoryType, None
<1>3. PICK S \in 0 .. base + PeerWindow : At(rap, S) /\ PeerAt(S) /\ (~excused => HistoryAt(S))
  BY <1>1 DEF Agreed
<1>4. /\ PeerWindow \in Nat \ {0} /\ BA_RANGE \in Nat /\ rap.wnd \in Nat \ {0}
      /\ rap.wnd + PeerWindow <= BA_RANGE
  BY <1>1, WindowFits
<1>5. S \in Nat /\ S <= base + PeerWindow
  BY <1>2, <1>3, <1>4
<1>6. PICK q : q = ieee80211_ampdu_reorder(rap, n, old)
  OBVIOUS
<1>7. PICK e \in BOOLEAN : e <=> excused \/ (old /\ rap.qframes # 0)
  OBVIOUS
<1>8. e = (excused \/ (old /\ rap.xchgpend /\ rap.qframes # 0))
  BY <1>7 DEF Inv, HistoryType
<1>9. /\ n \in base .. base + PeerWindow - 1 /\ n \notin acked
      /\ Result(q, e)
      /\ waiting' = IF e THEN {} ELSE (waiting \cup ({n} \ ackLost)) \ Passed(q)
      /\ acked' = IF heard THEN acked \cup {n} ELSE acked
      /\ ackLost' = IF heard THEN ackLost \ {n} ELSE ackLost \cup {n}
      /\ base' = base
  <2>1. n \in base .. base + (IF rap.xchgpend THEN PeerWindow ELSE 1) - 1
    BY DEF Receive
  <2>2. n \in base .. base + PeerWindow - 1
    BY <2>1
  <2> QED
    BY <1>6, <1>8, <2>2 DEF Receive
<1>10. Arrived' = Arrived \cup {n}
  <2>1. CASE heard = TRUE
    BY <1>9, <2>1 DEF Arrived
  <2>2. CASE heard = FALSE
    BY <1>9, <2>2 DEF Arrived
  <2> QED
    BY <2>1, <2>2
<1>11. PeerType'
  <2>1. CASE heard = TRUE
    BY <1>9, <2>1 DEF Inv, PeerType
  <2>2. CASE heard = FALSE
    BY <1>9, <2>2 DEF Inv, PeerType
  <2> QED
    BY <2>1, <2>2
<1>12. n \in Nat /\ n < S + BA_RANGE /\ S <= n + BA_RANGE /\ n < base + PeerWindow /\ base <= n
  <2>1. base + PeerWindow <= S + BA_RANGE
    BY <1>3 DEF PeerAt
  <2> QED
    BY <1>2, <1>4, <1>5, <1>9, <2>1
<1>13. PICK l \in Int : l < S /\ (~excused => l = last)
  <2>1. CASE excused
    <3>1. S - 1 \in Int /\ S - 1 < S
      BY <1>5
    <3> QED
      BY <2>1, <3>1
  <2>2. CASE ~excused
    BY <1>2, <1>3, <2>2 DEF HistoryAt
  <2> QED
    BY <2>1, <2>2
<1>14. Ordered(rap, l, S)
  BY <1>1, NothingOut
<1>15. \/ n < S /\ q = rap
       \/ S <= n /\ Aged(rap, q, n, old)
       \/ /\ S <= n
          /\ \E T \in Nat : /\ Moved(rap, S, q, T, {n}, n - rap.wnd + 1)
                            /\ Ordered(q, l, T) /\ n < T + rap.wnd
  <2>1. Reordered(rap, S, q, n, old, l)
    BY <1>1, <1>3, <1>5, <1>6, <1>12, <1>13, <1>14, ReorderContract
  <2> QED
    BY <2>1 DEF Reordered
<1>16. {n} \in SUBSET (0 .. MaxSeq)
  OBVIOUS
<1>17. e = TRUE => HistoryType' /\ inOrder' = TRUE /\ excused' = TRUE /\ waiting' = {}
  BY <1>9, ExcusedStep
<1>18. e = FALSE => ~excused /\ HistoryAt(S) /\ l = last
  BY <1>3, <1>7, <1>13
<1>19. CASE n < S /\ q = rap
  <2>1. \A k \in {n} : base <= k /\ k < base + PeerWindow /\ k < S + rap.wnd
    BY <1>4, <1>5, <1>12, <1>19
  <2>2. HeldFrames(q) \subseteq HeldFrames(rap) \cup {n} /\ S <= S
    BY <1>5, <1>19
  <2>3. /\ RapInv' /\ rap'.wnd = rap.wnd /\ rap'.xchgpend = TRUE
        /\ S \in 0 .. base' + PeerWindow /\ At(rap', S) /\ PeerAt(S)'
        /\ HeldFrames(rap') = HeldFrames(q)
        /\ SeqSub(rap'.start, rap.start) <= BA_RANGE
    BY <1>1, <1>3, <1>5, <1>9, <1>10, <1>16, <1>19, <2>1, <2>2, PositionStep
  <2>4. CASE e = TRUE
    <3>1. HistoryType' /\ inOrder' = TRUE /\ excused' = TRUE /\ waiting' = {}
      BY <1>17, <2>4
    <3> QED
      BY <1>1, <1>11, <2>3, <3>1, AgreedStep
  <2>5. CASE e = FALSE
    <3>1. ~excused /\ HistoryAt(S) /\ l = last
      BY <1>18, <2>5
    <3>2. n \in ackLost
      <4>1. n \in base .. S - 1
        BY <1>2, <1>5, <1>12, <1>19
      <4> QED
        BY <1>9, <3>1, <4>1 DEF HistoryAt, Arrived
    <3>0. PICK new, came : new = {} /\ came = {n}
      OBVIOUS
    <3>3. waiting' = (HeldFrames(rap) \cup new) \ Passed(q) /\ Arrived' = Arrived \cup came
      BY <1>9, <1>10, <2>5, <3>0, <3>1, <3>2 DEF HistoryAt
    <3>4. Moved(rap, S, q, S, new, base) /\ Ordered(q, last, S)
      BY <1>1, <1>3, <1>5, <1>14, <1>19, <3>0, <3>1, Unmoved
    <3>5. /\ base <= base /\ base \in Int /\ new \subseteq 0 .. MaxSeq /\ new \subseteq came
          /\ \A k \in came : k < S \/ k \in new
      BY <1>2, <1>19, <3>0
    <3>6. Result(q, FALSE)
      BY <1>9, <2>5
    <3>7. HistoryAt(S)' /\ inOrder' = TRUE /\ HistoryType' /\ excused' = FALSE
      BY <1>3, <1>5, <1>9, <3>1, <3>3, <3>4, <3>5, <3>6, HistoryStep
    <3> QED
      BY <1>1, <1>11, <2>3, <3>7, AgreedStep
  <2> QED
    BY <2>3, <2>4, <2>5
<1>20. CASE S <= n /\ Aged(rap, q, n, old)
  <2>1. e = TRUE
    BY <1>7, <1>20 DEF Aged, EmptiedTo
  <2>2. At(q, n + 1) /\ Held(q) = {} /\ q.wnd = rap.wnd /\ q.xchgpend = TRUE
    BY <1>20 DEF Aged, EmptiedTo
  <2>3. n + 1 \in Nat /\ S <= n + 1 /\ n + 1 <= base + PeerWindow
    BY <1>2, <1>4, <1>5, <1>12, <1>20
  <2>4. HeldFrames(q) \subseteq HeldFrames(rap) \cup {n} /\ 0 \notin Held(q)
    BY <2>2 DEF HeldFrames
  <2>5. \A k \in {n} : base <= k /\ k < base + PeerWindow /\ k < n + 1 + rap.wnd
    BY <1>4, <1>12
  <2>6. /\ RapInv' /\ rap'.wnd = rap.wnd /\ rap'.xchgpend = TRUE
        /\ n + 1 \in 0 .. base' + PeerWindow /\ At(rap', n + 1) /\ PeerAt(n + 1)'
        /\ SeqSub(rap'.start, rap.start) <= BA_RANGE
    BY <1>1, <1>3, <1>5, <1>9, <1>10, <1>16, <2>2, <2>3, <2>4, <2>5, PositionStep
  <2>7. HistoryType' /\ inOrder' = TRUE /\ excused' = TRUE /\ waiting' = {}
    BY <1>17, <2>1
  <2> QED
    BY <1>1, <1>11, <2>6, <2>7, AgreedStep
<1>21. ASSUME S <= n, NEW T \in Nat, Moved(rap, S, q, T, {n}, n - rap.wnd + 1),
              Ordered(q, l, T), n < T + rap.wnd
       PROVE  Inv' /\ SeqSub(rap'.start, rap.start) <= BA_RANGE
  <2>1. /\ At(q, T) /\ S <= T /\ q.wnd = rap.wnd /\ q.xchgpend = TRUE /\ 0 \notin Held(q)
        /\ HeldFrames(q) \subseteq HeldFrames(rap) \cup {n}
        /\ Passed(q) = Passed(rap) \cup {f \in HeldFrames(rap) \cup {n} : f < T}
        /\ \A k \in S .. T - 1 : k < n - rap.wnd + 1 \/ k \in HeldFrames(rap) \cup {n}
    BY <1>21 DEF Moved
  <2>2. T <= base + PeerWindow
    <3>1. CASE T = S
      BY <1>5, <3>1
    <3>2. CASE S < T
      <4>1. T - 1 \in S .. T - 1
        BY <1>5, <3>2
      <4>2. T - 1 < n - rap.wnd + 1 \/ T - 1 \in HeldFrames(rap) \/ T - 1 = n
        BY <2>1, <4>1
      <4>3. ASSUME T - 1 \in HeldFrames(rap) PROVE T - 1 < base + PeerWindow
        <5>1. T - 1 < base \/ T - 1 \in Arrived
          BY <1>3, <4>3 DEF PeerAt
        <5>2. T - 1 \in Arrived => T - 1 < base + PeerWindow
          BY <1>3 DEF PeerAt
        <5> QED
          BY <1>2, <1>4, <5>1, <5>2
      <4> QED
        BY <1>2, <1>4, <1>12, <4>2, <4>3
    <3> QED
      BY <1>5, <2>1, <3>1, <3>2
  <2>3. \A k \in {n} : base <= k /\ k < base + PeerWindow /\ k < T + rap.wnd
    BY <1>12, <1>21
  <2>4. /\ RapInv' /\ rap'.wnd = rap.wnd /\ rap'.xchgpend = TRUE
        /\ T \in 0 .. base' + PeerWindow /\ At(rap', T) /\ PeerAt(T)'
        /\ SeqSub(rap'.start, rap.start) <= BA_RANGE
    BY <1>1, <1>3, <1>5, <1>9, <1>10, <1>16, <2>1, <2>2, <2>3, PositionStep
  <2>5. CASE e = TRUE
    <3>1. HistoryType' /\ inOrder' = TRUE /\ excused' = TRUE /\ waiting' = {}
      BY <1>17, <2>5
    <3> QED
      BY <1>1, <1>11, <2>4, <3>1, AgreedStep
  <2>6. CASE e = FALSE
    <3>1. ~excused /\ HistoryAt(S) /\ l = last
      BY <1>18, <2>6
    <3>2. waiting \cup ({n} \ ackLost) = HeldFrames(rap) \cup {n}
      <4>1. waiting = HeldFrames(rap)
        BY <3>1 DEF HistoryAt
      <4>2. n \in ackLost => n \in HeldFrames(rap)
        <5>1. n \in ackLost => n < S \/ n \in HeldFrames(rap)
          BY <3>1 DEF HistoryAt, Arrived
        <5> QED
          BY <1>5, <1>12, <1>21, <5>1
      <4> QED
        BY <4>1, <4>2
    <3>3. waiting' = (HeldFrames(rap) \cup {n}) \ Passed(q)
      BY <1>9, <2>6, <3>2
    <3>4. n - rap.wnd + 1 <= base /\ n - rap.wnd + 1 \in Int
      BY <1>2, <1>4, <1>12, <3>1 DEF HistoryAt
    <3>5. {n} \subseteq 0 .. MaxSeq /\ {n} \subseteq {n} /\ \A k \in {n} : k < T \/ k \in {n}
      OBVIOUS
    <3>6. Result(q, FALSE)
      BY <1>9, <2>6
    <3>7. Ordered(q, last, T)
      BY <1>21, <3>1
    <3>8. HistoryAt(T)' /\ inOrder' = TRUE /\ HistoryType' /\ excused' = FALSE
      BY <1>3, <1>5, <1>9, <1>10, <1>21, <3>1, <3>3, <3>4, <3>5, <3>6, <3>7, HistoryStep
    <3> QED
      BY <1>1, <1>11, <2>4, <3>8, AgreedStep
  <2> QED
    BY <2>4, <2>5, <2>6
<1> QED
  BY <1>15, <1>19, <1>20, <1>21

LEMMA NotAgreedStep ==
  ASSUME RapInv', PeerType', HistoryType', inOrder' = TRUE, excused' => waiting' = {},
         rap'.xchgpend = FALSE, NotAgreed'
  PROVE  Inv'
BY DEF Inv

LEMMA SeqSame ==
  ASSUME NEW s \in 0 .. SEQ_RANGE - 1
  PROVE  SeqSub(s, s) <= BA_RANGE
<1>1. s \in Int /\ s <= s /\ s - s = 0 /\ s - s < SEQ_RANGE /\ 0 <= BA_RANGE
  BY RangePositive
<1>2. s % SEQ_RANGE = s
  BY SeqNear
<1>3. SeqSub(s % SEQ_RANGE, s % SEQ_RANGE) = s - s
  BY <1>1, SeqSubForward
<1> QED
  BY <1>1, <1>2, <1>3

LEMMA ReceiveOutside ==
  ASSUME Inv, rap.xchgpend = FALSE, NEW n \in 0 .. MaxSeq, NEW old \in BOOLEAN, NEW heard \in BOOLEAN,
         Receive(n, old, heard)
  PROVE  Inv' /\ SeqSub(rap'.start, rap.start) <= BA_RANGE
<1>1. RapInv /\ NotAgreed /\ Buffer(rap)
  BY DEF Inv, RapInv
<1>2. base \in Nat /\ base \in 0 .. MaxSeq + 1 /\ last \in Int /\ MaxSeq \in Nat /\ n \in Nat
  BY MaxSeqNat DEF Inv, PeerType, HistoryType, None
<1>3. PICK q : q = PassUp(rap, n)
  OBVIOUS
<1>4. PICK e \in BOOLEAN : e <=> excused
  OBVIOUS
<1>5. e = excused /\ e = (excused \/ (old /\ rap.xchgpend /\ rap.qframes # 0))
  BY <1>4 DEF Inv, HistoryType
<1>6. q = ieee80211_ampdu_reorder(rap, n, old)
  BY <1>3 DEF ieee80211_ampdu_reorder
<1>7. /\ n = base /\ n \notin acked /\ Result(q, e)
      /\ waiting' = IF e THEN {} ELSE (waiting \cup ({n} \ ackLost)) \ Passed(q)
      /\ acked' = acked \cup {n} /\ ackLost' = ackLost \ {n} /\ base' = base
  <2>1. n \in base .. base + (IF rap.xchgpend THEN PeerWindow ELSE 1) - 1
    BY DEF Receive
  <2>2. n = base
    BY <1>2, <2>1
  <2>3. heard = TRUE
    BY DEF Receive
  <2> QED
    BY <1>5, <1>6, <2>2, <2>3 DEF Receive
<1>8. IsPassUp(rap, n, q)
  <2>1. n \in Int
    OBVIOUS
  <2> QED
    BY <1>1, <1>3, <2>1, PassUpFields
<1>9. Held(q) = Held(rap) /\ HeldFrames(q) = {} /\ Held(rap) = {} /\ HeldFrames(rap) = {}
  BY <1>1, <1>8 DEF IsPassUp, Held, Slots, HeldFrames, NotAgreed
<1>10. RapInv'
  <2>1. /\ Buffer(q) /\ q.wnd \in Windows \cup {0} /\ q.start \in 0 .. SEQ_RANGE - 1
        /\ q.qframes = Cardinality(Held(q)) /\ 0 \notin Held(q) /\ HeldFrames(q) \subseteq 0 .. MaxSeq
    BY <1>1, <1>8, <1>9 DEF IsPassUp, RapInv, RapType
  <2>2. q.xchgpend \in BOOLEAN
    BY <1>8 DEF IsPassUp
  <2> QED
    BY <1>7, <2>1, <2>2, RapStep
<1>11. Buffer(q)
  BY <1>8 DEF IsPassUp
<1>12. rap'.start = q.start /\ rap'.xchgpend = q.xchgpend /\ Held(rap') = Held(q)
  BY <1>7, <1>11, ResultFields, Zenon
<1>13. rap'.start = rap.start /\ rap'.xchgpend = FALSE /\ Held(rap') = {}
  BY <1>8, <1>9, <1>12 DEF IsPassUp
<1>14. SeqSub(rap'.start, rap.start) <= BA_RANGE
  BY <1>1, <1>13, SeqSame DEF RapInv, RapType
<1>15. PeerType' /\ acked' \subseteq {base'} /\ ackLost' = {} /\ n \in acked'
  BY <1>1, <1>7 DEF Inv, PeerType, NotAgreed
<1>16. CASE e = TRUE
  <2>1. waiting' = {} /\ Result(q, TRUE)
    BY <1>7, <1>16
  <2>2. HistoryType' /\ inOrder' = TRUE /\ excused' = TRUE
    BY <2>1, ExcusedStep
  <2>3. NotAgreed'
    BY <1>13, <1>15, <2>2 DEF NotAgreed
  <2> QED
    BY <1>10, <1>13, <1>14, <1>15, <2>1, <2>2, <2>3, NotAgreedStep
<1>17. CASE e = FALSE
  <2>1. last < n /\ waiting = {} /\ inOrder = TRUE /\ ackLost = {}
    BY <1>1, <1>5, <1>7, <1>17 DEF NotAgreed, Inv
  <2>2. Ordered(rap, last, n) /\ Passed(rap) = {}
    BY <1>1, NothingOut, HeldType
  <2>3. Ordered(q, last, n + 1) /\ Passed(q) = {n}
    <3>1. n \in Int /\ n + 1 \in Int /\ n <= n /\ n < n + 1
      OBVIOUS
    <3>2. Ordered(q, last, n + 1) /\ Passed(q) = Passed(rap) \cup {n}
      BY <1>1, <1>2, <1>3, <2>1, <2>2, <3>1, PassUpOrdered
    <3> QED
      BY <2>2, <3>2
  <2>4. last' = n
    <3>1. Ups(q) # {}
      BY <2>3 DEF Passed
    <3>2. Len(q.out) \in Nat
      BY <1>11 DEF Buffer
    <3>3. Ups(q) \in SUBSET (0 .. Len(q.out))
      BY <3>2 DEF Ups
    <3>4. Max(Ups(q)) \in Ups(q)
      BY <3>1, <3>2, <3>3, LargestOf
    <3>5. last' = q.out[Max(Ups(q))]
      BY <1>7, <1>17, <3>1 DEF Result
    <3>6. last' \in Passed(q)
      BY <3>4, <3>5 DEF Passed
    <3> QED
      BY <2>3, <3>6
  <2>5. inOrder' = TRUE /\ excused' = FALSE
    BY <1>7, <1>17, <2>1, <2>3 DEF Result, Ordered
  <2>6. waiting' = {}
    BY <1>7, <1>17, <2>1, <2>3
  <2>7. HistoryType'
    BY <2>4, <2>5, <2>6 DEF HistoryType
  <2>8. NotAgreed'
    BY <1>13, <1>15, <2>4, <2>6 DEF NotAgreed
  <2> QED
    BY <1>10, <1>13, <1>14, <1>15, <2>5, <2>6, <2>7, <2>8, NotAgreedStep
<1> QED
  BY <1>16, <1>17

LEMMA BarInAgreement ==
  ASSUME Inv, rap.xchgpend = TRUE, Bar
  PROVE  Inv' /\ SeqSub(rap'.start, rap.start) <= BA_RANGE
<1>1. /\ rap.wnd \in Windows /\ RapInv /\ Agreed /\ 0 \notin Held(rap)
  BY DEF Inv, Agreed, RapInv
<1>2. /\ base \in Nat /\ base \in 0 .. MaxSeq + 1 /\ Arrived \subseteq 0 .. MaxSeq /\ last \in Int
      /\ MaxSeq \in Nat
  BY MaxSeqNat DEF Inv, PeerType, Arrived, HistoryType, None
<1>3. PICK S \in 0 .. base + PeerWindow : At(rap, S) /\ PeerAt(S) /\ (~excused => HistoryAt(S))
  BY <1>1 DEF Agreed
<1>4. /\ PeerWindow \in Nat \ {0} /\ BA_RANGE \in Nat /\ rap.wnd \in Nat \ {0}
      /\ rap.wnd + PeerWindow <= BA_RANGE
  BY <1>1, WindowFits
<1>5. S \in Nat /\ S <= base + PeerWindow
  BY <1>2, <1>3, <1>4
<1>6. PICK q : q = ieee80211_recv_bar(rap, base % SEQ_RANGE)
  OBVIOUS
<1>7. Result(q, excused) /\ waiting' = waiting \ Passed(q) /\ base' = base /\ acked' = acked /\ ackLost' = ackLost
  BY <1>6 DEF Bar, peerVars
<1>8. PICK new : new = {}
  OBVIOUS
<1>9. Arrived' = Arrived \cup new /\ PeerType' /\ new \in SUBSET (0 .. MaxSeq)
  BY <1>7, <1>8 DEF Arrived, Inv, PeerType
<1>10. base < S + BA_RANGE /\ S <= base + BA_RANGE
  <2>1. base + PeerWindow <= S + BA_RANGE
    BY <1>3 DEF PeerAt
  <2> QED
    BY <1>2, <1>4, <1>5, <2>1
<1>11. PICK l \in Int : l < S /\ (~excused => l = last)
  <2>1. CASE excused
    <3>1. S - 1 \in Int /\ S - 1 < S
      BY <1>5
    <3> QED
      BY <2>1, <3>1
  <2>2. CASE ~excused
    BY <1>2, <1>3, <2>2 DEF HistoryAt
  <2> QED
    BY <2>1, <2>2
<1>12. Ordered(rap, l, S)
  BY <1>1, NothingOut
<1>13. PICK T \in Nat : Moved(rap, S, q, T, new, base) /\ Ordered(q, l, T)
  <2>1. q = rap \/ \E T \in Nat : Moved(rap, S, q, T, {}, base) /\ Ordered(q, l, T)
    BY <1>1, <1>2, <1>3, <1>5, <1>6, <1>10, <1>11, <1>12, BarContract
  <2>2. Moved(rap, S, rap, S, {}, base)
    BY <1>1, <1>3, <1>5, Unmoved
  <2> QED
    BY <1>5, <1>8, <1>12, <2>1, <2>2
<1>14. /\ At(q, T) /\ S <= T /\ q.wnd = rap.wnd /\ q.xchgpend = TRUE /\ 0 \notin Held(q)
       /\ HeldFrames(q) \subseteq HeldFrames(rap) \cup new
       /\ \A k \in S .. T - 1 : k < base \/ k \in HeldFrames(rap)
  BY <1>8, <1>13 DEF Moved
<1>15. T <= base + PeerWindow
  <2>1. CASE T = S
    BY <1>5, <2>1
  <2>2. CASE S < T
    <3>1. T - 1 \in S .. T - 1
      BY <1>5, <2>2
    <3>2. T - 1 < base \/ T - 1 \in HeldFrames(rap)
      BY <1>14, <3>1
    <3>3. T - 1 < base \/ T - 1 \in Arrived
      BY <1>3, <3>2 DEF PeerAt
    <3>4. T - 1 \in Arrived => T - 1 < base + PeerWindow
      BY <1>3 DEF PeerAt
    <3> QED
      BY <1>2, <1>4, <3>3, <3>4
  <2> QED
    BY <1>5, <1>14, <2>1, <2>2
<1>16. \A k \in new : base <= k /\ k < base + PeerWindow /\ k < T + rap.wnd
  BY <1>8
<1>17. /\ RapInv' /\ rap'.wnd = rap.wnd /\ rap'.xchgpend = TRUE
       /\ T \in 0 .. base' + PeerWindow /\ At(rap', T) /\ PeerAt(T)'
       /\ SeqSub(rap'.start, rap.start) <= BA_RANGE
  BY <1>1, <1>3, <1>5, <1>7, <1>9, <1>14, <1>15, <1>16, PositionStep
<1>18. CASE excused
  <2>1. waiting' = {}
    BY <1>7, <1>18 DEF Inv
  <2>2. excused = TRUE
    BY <1>18 DEF Inv, HistoryType
  <2>3. HistoryType' /\ inOrder' = TRUE /\ excused' = TRUE
    BY <1>7, <2>1, <2>2, ExcusedStep
  <2> QED
    BY <1>1, <1>9, <1>17, <2>1, <2>3, AgreedStep
<1>19. CASE ~excused
  <2>1. HistoryAt(S) /\ l = last /\ excused = FALSE
    BY <1>3, <1>11, <1>19 DEF Inv, HistoryType
  <2>2. waiting' = (HeldFrames(rap) \cup new) \ Passed(q)
    BY <1>7, <1>8, <2>1 DEF HistoryAt
  <2>3. /\ base <= base /\ base \in Int /\ new \subseteq 0 .. MaxSeq /\ new \subseteq new
        /\ \A k \in new : k < T \/ k \in new
    BY <1>2, <1>8
  <2>4. Result(q, FALSE) /\ Ordered(q, last, T)
    BY <1>7, <1>13, <2>1
  <2>5. HistoryAt(T)' /\ inOrder' = TRUE /\ HistoryType' /\ excused' = FALSE
    BY <1>3, <1>5, <1>7, <1>9, <1>13, <2>1, <2>2, <2>3, <2>4, HistoryStep
  <2> QED
    BY <1>1, <1>9, <1>17, <2>5, AgreedStep
<1> QED
  BY <1>18, <1>19

LEMMA BarOutside ==
  ASSUME Inv, rap.xchgpend = FALSE, Bar
  PROVE  Inv' /\ SeqSub(rap'.start, rap.start) <= BA_RANGE
<1>1. RapInv /\ NotAgreed /\ Buffer(rap)
  BY DEF Inv, RapInv
<1>2. Ups(rap) = {} /\ Passed(rap) = {} /\ HeldFrames(rap) \subseteq 0 .. MaxSeq
  BY <1>1, HeldType
<1>3. PICK q : q = rap
  OBVIOUS
<1>4. q = ieee80211_recv_bar(rap, base % SEQ_RANGE)
  BY <1>3 DEF ieee80211_recv_bar
<1>5. Result(q, excused) /\ waiting' = waiting \ Passed(q) /\ base' = base /\ acked' = acked /\ ackLost' = ackLost
  BY <1>4 DEF Bar, peerVars
<1>6. last' = last /\ excused' = excused /\ waiting' = waiting
  BY <1>2, <1>3, <1>5 DEF Result
<1>7. inOrder' = TRUE
  BY <1>2, <1>3, <1>5 DEF Result, Increasing, Inv
<1>8. RapInv'
  <2>1. /\ Buffer(q) /\ q.wnd \in Windows \cup {0} /\ q.start \in 0 .. SEQ_RANGE - 1
        /\ q.qframes = Cardinality(Held(q)) /\ 0 \notin Held(q) /\ HeldFrames(q) \subseteq 0 .. MaxSeq
    BY <1>1, <1>2, <1>3 DEF RapInv, RapType
  <2>2. q.xchgpend \in BOOLEAN
    BY <1>3
  <2> QED
    BY <1>5, <2>1, <2>2, RapStep
<1>9. rap'.start = rap.start /\ rap'.xchgpend = FALSE /\ Held(rap') = {}
  <2>1. rap'.start = q.start /\ rap'.xchgpend = q.xchgpend /\ Held(rap') = Held(q)
    BY <1>1, <1>3, <1>5, ResultFields, Zenon
  <2> QED
    BY <1>1, <1>3, <2>1 DEF NotAgreed
<1>10. SeqSub(rap'.start, rap.start) <= BA_RANGE
  BY <1>1, <1>9, SeqSame DEF RapInv, RapType
<1>11. PeerType' /\ HistoryType' /\ (excused' => waiting' = {})
  BY <1>5, <1>6, <1>7 DEF Inv, PeerType, HistoryType
<1>12. NotAgreed'
  BY <1>1, <1>5, <1>6, <1>9 DEF NotAgreed
<1> QED
  BY <1>7, <1>8, <1>9, <1>10, <1>11, <1>12, NotAgreedStep

\* The buffer of a new agreement.
IsNew(r, S, wnd, x) ==
  /\ At(r, S) /\ Held(r) = {} /\ HeldFrames(r) = {} /\ r.wnd = wnd /\ r.xchgpend = x
  /\ r.start \in 0 .. SEQ_RANGE - 1 /\ r.m \in [Slots(r) -> 0 .. MaxSeq \cup {None}]
  /\ r.qframes = Cardinality(Held(r)) /\ r.qframes \in 0 .. wnd /\ r.out = <<>> /\ Buffer(r)

LEMMA NewAgreement ==
  ASSUME NEW S \in Int, NEW wnd \in Nat, NEW x, NEW r, r = Agreement(S % SEQ_RANGE, wnd, x)
  PROVE  IsNew(r, S, wnd, x)
<1>1. /\ DOMAIN r = {"start", "wnd", "m", "qframes", "xchgpend", "out"}
      /\ r.wnd = wnd /\ r.xchgpend = x /\ r.start = S % SEQ_RANGE /\ r.out = <<>> /\ r.qframes = 0
      /\ r.m = EmptyWindow(wnd)
  BY DEF Agreement
<1>2. \A i \in 0 .. wnd - 1 : r.m[i] = None
  BY <1>1 DEF EmptyWindow
<1>3. Held(r) = {} /\ HeldFrames(r) = {}
  BY <1>1, <1>2 DEF Held, Slots, HeldFrames
<1>4. Buffer(r)
  <2>1. r.m \in [0 .. wnd - 1 -> Int]
    BY <1>1 DEF EmptyWindow, None
  <2>2. <<>> \in Seq(Int)
    OBVIOUS
  <2> QED
    BY <1>1, <2>1, <2>2 DEF Buffer
<1>5. r.qframes = Cardinality(Held(r)) /\ r.qframes \in 0 .. wnd
  <2>1. Cardinality(Held(r)) = 0
    BY <1>3, FS_EmptySet
  <2> QED
    BY <1>1, <2>1
<1>6. r.start \in 0 .. SEQ_RANGE - 1
  BY <1>1, SeqQuotient
<1>7. r.m \in [Slots(r) -> 0 .. MaxSeq \cup {None}]
  BY <1>1 DEF EmptyWindow, Slots
<1>8. At(r, S)
  BY <1>1, <1>3, <1>4, <1>5 DEF At
<1> QED
  BY <1>1, <1>3, <1>4, <1>5, <1>6, <1>7, <1>8 DEF IsNew

LEMMA StartStep ==
  ASSUME Inv, NEW wnd \in Windows, ampdu_rx_start(wnd)
  PROVE  Inv'
<1>1. /\ base \in Nat /\ base \in 0 .. MaxSeq + 1 /\ MaxSeq \in Nat /\ PeerWindow \in Nat \ {0}
      /\ BA_RANGE \in Nat /\ wnd \in Nat \ {0} /\ wnd + PeerWindow <= BA_RANGE
  BY MaxSeqNat, WindowFits DEF Inv, PeerType
<1>2. PICK S : S = base
  OBVIOUS
<1>3. /\ rap' = Agreement(S % SEQ_RANGE, wnd, TRUE) /\ waiting' = waiting \ HeldFrames(rap)
      /\ last' = S - 1 /\ excused' = (wnd < PeerWindow) /\ acked' = acked /\ ackLost' = ackLost
      /\ base' = S /\ inOrder' = inOrder /\ acked = {} /\ ackLost = {} /\ S \in Int
  BY <1>1, <1>2 DEF ampdu_rx_start, NothingOutstanding, peerVars
<1>4. IsNew(rap', S, wnd, TRUE)
  <2>1. PICK r : r = rap'
    OBVIOUS
  <2>2. wnd \in Nat /\ S \in Int /\ r = Agreement(S % SEQ_RANGE, wnd, TRUE)
    BY <1>1, <1>3, <2>1
  <2>3. IsNew(r, S, wnd, TRUE)
    BY <2>2, NewAgreement
  <2> QED
    BY <2>1, <2>3
<1>5. /\ At(rap', S) /\ Held(rap') = {} /\ HeldFrames(rap') = {} /\ rap'.wnd = wnd
      /\ rap'.xchgpend = TRUE
  BY <1>4 DEF IsNew
<1>6. RapInv'
  BY <1>4 DEF IsNew, RapInv, RapType
<1>7. waiting' = {}
  <2>1. excused \/ waiting = HeldFrames(rap) \/ waiting = {}
    BY DEF Inv, Agreed, NotAgreed, HistoryAt
  <2> QED
    BY <1>3, <2>1 DEF Inv
<1>8. PeerType' /\ inOrder' = TRUE /\ Arrived' = {}
  BY <1>2, <1>3 DEF Inv, PeerType, Arrived
<1>9. HistoryType'
  <2>1. last' \in 0 .. MaxSeq \cup {None}
    BY <1>1, <1>2, <1>3 DEF None
  <2>2. excused' \in BOOLEAN
    BY <1>3
  <2> QED
    BY <1>7, <1>8, <2>1, <2>2 DEF HistoryType
<1>10. PeerAt(S)'
  <2>1. base' + PeerWindow <= S + BA_RANGE
    BY <1>1, <1>2, <1>3
  <2> QED
    BY <1>5, <1>8, <2>1 DEF PeerAt
<1>11. ~excused' => HistoryAt(S)'
  <2> SUFFICES ASSUME ~excused' PROVE HistoryAt(S)'
    OBVIOUS
  <2>1. rap'.wnd >= PeerWindow
    <3>1. ~(wnd < PeerWindow)
      BY <1>3, Zenon
    <3> QED
      BY <1>1, <1>5, <3>1
  <2>2. last' < S /\ base' .. S - 1 = {}
    BY <1>1, <1>2, <1>3
  <2> QED
    BY <1>5, <1>7, <1>8, <2>1, <2>2 DEF HistoryAt
<1>12. S \in 0 .. base' + PeerWindow
  BY <1>1, <1>2, <1>3
<1> QED
  BY <1>5, <1>6, <1>7, <1>8, <1>9, <1>10, <1>11, <1>12, AgreedStep

LEMMA StopStep ==
  ASSUME Inv, ampdu_rx_stop
  PROVE  Inv' /\ SeqSub(rap'.start, rap.start) <= BA_RANGE
<1>1. RapInv /\ Buffer(rap) /\ rap.wnd \in Nat /\ base \in Nat /\ last \in Int
  BY MaxSeqNat DEF Inv, RapInv, Buffer, PeerType, HistoryType, None
<1>2. PICK mm : mm = EmptyWindow(rap.wnd)
  OBVIOUS
<1>3. /\ rap' = [rap EXCEPT !.m = mm, !.qframes = rap.qframes - Cardinality(Held(rap)), !.xchgpend = FALSE]
      /\ waiting' = waiting \ HeldFrames(rap)
      /\ acked' = acked /\ ackLost' = ackLost /\ base' = base /\ last' = last /\ inOrder' = inOrder
      /\ excused' = excused /\ acked = {} /\ ackLost = {}
  BY <1>2 DEF ampdu_rx_stop, NothingOutstanding, peerVars
<1>4. /\ DOMAIN rap' = DOMAIN rap /\ rap'.m = mm /\ rap'.xchgpend = FALSE
      /\ rap'.qframes = rap.qframes - Cardinality(Held(rap))
      /\ rap'.start = rap.start /\ rap'.wnd = rap.wnd /\ rap'.out = rap.out
  BY <1>1, <1>3 DEF Buffer
<1>5. mm \in [0 .. rap.wnd - 1 -> Int] /\ \A i \in 0 .. rap.wnd - 1 : mm[i] = None
  BY <1>2 DEF EmptyWindow, None
<1>6. Held(rap') = {} /\ rap'.qframes = 0
  <2>1. Held(rap') = {}
    BY <1>4, <1>5 DEF Held, Slots
  <2>2. rap.qframes = Cardinality(Held(rap)) /\ rap.qframes \in Int
    BY <1>1 DEF RapInv, RapType
  <2> QED
    BY <1>4, <2>1, <2>2
<1>7. RapInv'
  <2>1. Buffer(rap')
    BY <1>1, <1>4, <1>5 DEF Buffer
  <2>2. rap'.m \in [Slots(rap') -> 0 .. MaxSeq \cup {None}]
    BY <1>4, <1>5 DEF Slots
  <2>3. rap'.qframes = Cardinality(Held(rap'))
    BY <1>6, FS_EmptySet
  <2>4. rap'.qframes \in 0 .. rap'.wnd
    BY <1>1, <1>4, <1>6
  <2>5. rap'.wnd \in Windows \cup {0} /\ rap'.start \in 0 .. SEQ_RANGE - 1 /\ rap'.out = <<>>
    BY <1>1, <1>4 DEF RapInv, RapType
  <2>6. RapType'
    BY <1>4, <2>2, <2>4, <2>5 DEF RapType
  <2> QED
    BY <1>6, <2>1, <2>3, <2>6 DEF RapInv
<1>8. SeqSub(rap'.start, rap.start) <= BA_RANGE
  BY <1>1, <1>4, SeqSame DEF RapInv, RapType
<1>9. ~excused => last < base /\ waiting \subseteq HeldFrames(rap)
  <2> SUFFICES ASSUME ~excused PROVE last < base /\ waiting \subseteq HeldFrames(rap)
    OBVIOUS
  <2>1. CASE rap.xchgpend
    <3>1. PICK S \in 0 .. base + PeerWindow : HistoryAt(S)
      BY <2>1 DEF Inv, Agreed
    <3>2. S <= base
      <4>1. S \in Int
        OBVIOUS
      <4>2. base \notin base .. S - 1
        BY <1>3, <3>1 DEF HistoryAt, Arrived
      <4> QED
        BY <1>1, <4>1, <4>2
    <3> QED
      BY <1>1, <3>1, <3>2 DEF HistoryAt
  <2>2. CASE ~rap.xchgpend
    BY <1>3, <2>2 DEF Inv, NotAgreed
  <2> QED
    BY <2>1, <2>2
<1>10. ~excused => waiting' = {}
  BY <1>3, <1>9
<1>11. NotAgreed'
  BY <1>3, <1>6, <1>9, <1>10 DEF NotAgreed
<1>12. PeerType' /\ inOrder' = TRUE /\ (excused' => waiting' = {})
  BY <1>3 DEF Inv, PeerType
<1>13. HistoryType'
  BY <1>3 DEF Inv, HistoryType
<1> QED
  BY <1>4, <1>7, <1>8, <1>11, <1>12, <1>13, NotAgreedStep

LEMMA AdvanceStep ==
  ASSUME Inv, PeerAdvance
  PROVE  Inv' /\ SeqSub(rap'.start, rap.start) <= BA_RANGE
<1>1. /\ base \in Nat /\ base <= MaxSeq /\ base' = base + 1 /\ MaxSeq \in Nat /\ PeerWindow \in Nat \ {0}
      /\ acked' = acked \ {base} /\ ackLost' = ackLost \ {base}
      /\ rap' = rap /\ last' = last /\ inOrder' = inOrder /\ waiting' = waiting /\ excused' = excused
      /\ BA_RANGE \in Nat
  BY MaxSeqNat DEF PeerAdvance, historyVars, Inv, PeerType
<1>2. RapInv /\ RapInv'
  BY <1>1 DEF Inv, RapInv, RapType, Buffer, Held, Slots
<1>3. SeqSub(rap'.start, rap.start) <= BA_RANGE
  BY <1>1, <1>2, SeqSame DEF RapInv, RapType
<1>4. PeerType' /\ inOrder' = TRUE /\ (excused' => waiting' = {})
  BY <1>1 DEF Inv, PeerType
<1>5. HistoryType'
  BY <1>1 DEF Inv, HistoryType
<1>6. Arrived' = Arrived \ {base} /\ Arrived \subseteq 0 .. MaxSeq
  BY <1>1 DEF Arrived, Inv, PeerType
<1>7. CASE rap.xchgpend = TRUE
  <2>1. PICK S \in 0 .. base + PeerWindow : At(rap, S) /\ PeerAt(S) /\ (~excused => HistoryAt(S))
    BY <1>7 DEF Inv, Agreed
  <2>2. S \in Nat /\ rap.wnd \in Windows
    BY <1>7 DEF Inv, Agreed
  <2>3. rap.wnd + PeerWindow <= BA_RANGE /\ rap.wnd \in Nat \ {0} /\ SEQ_RANGE = 2 * BA_RANGE
    BY <2>2, WindowFits, RangePositive
  <2>4. base + PeerWindow <= S + BA_RANGE /\ S <= base + PeerWindow
    BY <2>1 DEF PeerAt
  <2>5. base' + PeerWindow <= S + BA_RANGE
    <3>1. CASE base \in acked
      <4>1. base < S + rap.wnd
        BY <2>1, <3>1 DEF PeerAt, Arrived
      <4> QED
        BY <1>1, <2>2, <2>3, <4>1
    <3>2. CASE SeqSub((base + PeerWindow) % SEQ_RANGE, rap.start) < BA_RANGE
      <4> DEFINE end == base + PeerWindow
      <4>1. S \in Int /\ end \in Int /\ end - S < SEQ_RANGE /\ S <= end
        BY <1>1, <2>2, <2>3, <2>4
      <4>2. rap.start = S % SEQ_RANGE /\ SeqSub(end % SEQ_RANGE, rap.start) < BA_RANGE
        BY <2>1, <3>2 DEF At
      <4>3. base' + PeerWindow = end + 1
        BY <1>1
      <4> HIDE DEF end
      <4>4. SeqSub(end % SEQ_RANGE, S % SEQ_RANGE) = end - S
        BY <4>1, SeqSubForward
      <4> QED
        BY <1>1, <4>1, <4>2, <4>3, <4>4
    <3> QED
      BY <3>1, <3>2 DEF PeerAdvance
  <2>6. PeerAt(S)'
    <3>1. ASSUME NEW k \in Arrived' PROVE base' <= k /\ k < base' + PeerWindow /\ k < S + rap'.wnd
      <4>1. k \in Arrived /\ k # base /\ k \in Nat
        BY <1>6
      <4>2. base <= k /\ k < base + PeerWindow /\ k < S + rap.wnd
        BY <2>1, <4>1 DEF PeerAt
      <4> QED
        BY <1>1, <4>1, <4>2
    <3>2. ASSUME NEW f \in HeldFrames(rap) PROVE f < base' \/ f \in Arrived'
      <4>1. f \in Int
        BY <1>2, HeldType
      <4>2. f < base \/ f = base \/ f \in Arrived'
        BY <1>6, <2>1 DEF PeerAt
      <4> QED
        BY <1>1, <4>1, <4>2
    <3>3. HeldFrames(rap') = HeldFrames(rap)
      BY <1>1
    <3> QED
      BY <2>5, <3>1, <3>2, <3>3 DEF PeerAt
  <2>7. ~excused' => HistoryAt(S)'
    <3> SUFFICES ASSUME ~excused' PROVE HistoryAt(S)'
      OBVIOUS
    <3>1. HistoryAt(S)
      BY <1>1, <2>1
    <3>2. base' .. S - 1 \subseteq Arrived'
      <4> SUFFICES ASSUME NEW k \in base' .. S - 1 PROVE k \in Arrived'
        OBVIOUS
      <4>1. k \in base .. S - 1 /\ k # base
        BY <1>1, <2>2
      <4> QED
        BY <1>6, <3>1, <4>1 DEF HistoryAt
    <3> QED
      BY <1>1, <1>6, <3>1, <3>2 DEF HistoryAt
  <2>8. S \in 0 .. base' + PeerWindow /\ At(rap', S) /\ rap'.wnd \in Windows /\ rap'.xchgpend = TRUE
    BY <1>1, <1>7, <2>1, <2>2, <2>4
  <2> QED
    BY <1>2, <1>3, <1>4, <1>5, <2>6, <2>7, <2>8, AgreedStep
<1>8. CASE rap.xchgpend = FALSE
  <2>1. NotAgreed /\ rap'.xchgpend = FALSE
    BY <1>1, <1>8 DEF Inv
  <2>2. acked' = {} /\ ackLost' = {}
    BY <1>1, <2>1 DEF NotAgreed
  <2>3. ~excused => last < base' /\ waiting = {}
    <3>1. ~excused => (last < base \/ last = base) /\ waiting = {}
      BY <2>1 DEF NotAgreed
    <3>2. last \in Int
      BY DEF Inv, HistoryType, None
    <3> QED
      BY <1>1, <3>1, <3>2
  <2>4. NotAgreed'
    BY <1>1, <2>1, <2>2, <2>3 DEF NotAgreed
  <2> QED
    BY <1>2, <1>3, <1>4, <1>5, <2>1, <2>4, NotAgreedStep
<1>9. rap.xchgpend \in BOOLEAN
  BY <1>2 DEF RapInv, RapType
<1> QED
  BY <1>7, <1>8, <1>9

-----------------------------------------------------------------------------
(***************************************************************************)
(* The theorems.                                                            *)
(***************************************************************************)
LEMMA InitInv == Init => Inv
<1> SUFFICES ASSUME Init PROVE Inv
  OBVIOUS
<1>1. rap = Agreement(0 % SEQ_RANGE, 0, FALSE)
  <2>1. 0 \in 0 .. SEQ_RANGE - 1
    BY RangePositive
  <2> QED
    BY <2>1, SeqNear DEF Init
<1>2. IsNew(rap, 0, 0, FALSE)
  <2>1. 0 \in Int /\ 0 \in Nat
    OBVIOUS
  <2> QED
    BY <1>1, <2>1, NewAgreement, Zenon
<1>3. RapInv /\ Held(rap) = {} /\ rap.xchgpend = FALSE
  BY <1>2 DEF IsNew, RapInv, RapType
<1>4. PeerType
  BY MaxSeqNat DEF Init, PeerType
<1>5. HistoryType /\ inOrder = TRUE /\ excused = FALSE
  BY DEF Init, HistoryType
<1>6. NotAgreed
  <2>1. last < base
    BY DEF Init, None
  <2> QED
    BY <1>3, <2>1 DEF NotAgreed, Init
<1> QED
  BY <1>3, <1>4, <1>5, <1>6 DEF Inv

Forward == SeqSub(rap'.start, rap.start) <= BA_RANGE

\* Every step keeps the invariant and moves the window forward, unless a new agreement starts.
LEMMA NextStep ==
  ASSUME Inv, Next
  PROVE  Inv' /\ (Forward \/ \E wnd \in Windows : ampdu_rx_start(wnd))
<1>1. rap.xchgpend \in BOOLEAN
  BY DEF Inv, RapInv, RapType
<1>2. ASSUME NEW n \in 0 .. MaxSeq, NEW old \in BOOLEAN, NEW heard \in BOOLEAN, Receive(n, old, heard)
      PROVE  Inv' /\ Forward
  BY <1>1, <1>2, ReceiveInAgreement, ReceiveOutside DEF Forward
<1>3. ASSUME Bar PROVE Inv' /\ Forward
  BY <1>1, <1>3, BarInAgreement, BarOutside DEF Forward
<1>5. ASSUME NEW wnd \in Windows, ampdu_rx_start(wnd) PROVE Inv'
  BY <1>5, StartStep
<1>6. ASSUME ampdu_rx_stop PROVE Inv' /\ Forward
  BY <1>6, StopStep DEF Forward
<1>7. ASSUME PeerAdvance PROVE Inv' /\ Forward
  BY <1>7, AdvanceStep DEF Forward
<1> QED
  BY <1>2, <1>3, <1>5, <1>6, <1>7 DEF Next

LEMMA StutterStep ==
  ASSUME Inv, UNCHANGED vars
  PROVE  Inv'
<1>1. /\ rap' = rap /\ base' = base /\ acked' = acked /\ ackLost' = ackLost
      /\ last' = last /\ inOrder' = inOrder /\ waiting' = waiting /\ excused' = excused
  BY DEF vars, peerVars, historyVars
<1>2. RapInv'
  BY <1>1 DEF Inv, RapInv, RapType
<1>3. PeerType' /\ HistoryType'
  BY <1>1 DEF Inv, PeerType, HistoryType
<1>4. Agreed => Agreed'
  BY <1>1 DEF Agreed, PeerAt, HistoryAt, Arrived
<1>5. NotAgreed => NotAgreed'
  BY <1>1 DEF NotAgreed
<1> QED
  BY <1>1, <1>2, <1>3, <1>4, <1>5 DEF Inv

(***************************************************************************)
(* The frame the window starts at exists, and the peer and the histories    *)
(* fit it, whatever the constants: the inductive invariant of the buffer.   *)
(***************************************************************************)
THEOREM BufferInvariant == Spec => []Inv
<1>1. Inv /\ [Next]_vars => Inv'
  BY NextStep, StutterStep
<1> QED
  BY InitInv, <1>1, PTL DEF Spec

(***************************************************************************)
(* The agreement, the peer and the histories keep their types: no handler   *)
(* writes a slot outside of the window, and rxa_qframes stays within it.    *)
(***************************************************************************)
THEOREM TypeCorrect == Spec => []TypeOK
<1>1. Inv => TypeOK
  BY TypeParts DEF Inv, RapInv
<1> QED
  BY BufferInvariant, <1>1, PTL

(***************************************************************************)
(* The assertions of ieee80211_ht.c hold: slot 0 is empty between frames,   *)
(* rxa_qframes counts the occupied slots, and slot i holds the frame i      *)
(* after the window start, for every range, window and order of arrival.    *)
(***************************************************************************)
THEOREM SlotsMatch == Spec => []SlotsMatchWindow
<1>1. Inv => SlotsMatchWindow
  <2> SUFFICES ASSUME Inv PROVE SlotsMatchWindow
    OBVIOUS
  <2>1. RapInv /\ rap.wnd \in Nat
    BY DEF Inv, RapInv, Buffer
  <2>2. rap.wnd > 0 => rap.m[0] = None
    BY <2>1 DEF RapInv, Held, Slots
  <2>3. ASSUME NEW i \in Held(rap) PROVE rap.m[i] % SEQ_RANGE = SeqAdd(rap.start, i)
    <3>1. rap.xchgpend
      BY <2>3 DEF Inv, NotAgreed
    <3>2. PICK S \in 0 .. base + PeerWindow : At(rap, S)
      BY <3>1 DEF Inv, Agreed
    <3>3. S \in Int /\ i \in Int
      BY <2>1, <2>3 DEF Held, Slots
    <3>4. SeqAdd(S % SEQ_RANGE, i) = (S + i) % SEQ_RANGE
      BY <3>3, SeqShift
    <3> QED
      BY <2>3, <3>2, <3>4 DEF At
  <2> QED
    BY <2>1, <2>2, <2>3 DEF SlotsMatchWindow, RapInv
<1> QED
  BY BufferInvariant, <1>1, PTL

(***************************************************************************)
(* For a peer that keeps within rxa_wnd, and until a flush by age, frames   *)
(* are passed up in the peer's order and each at most once.                 *)
(***************************************************************************)
THEOREM PassedUpInOrder == Spec => []InOrderOnce
<1>1. Inv => InOrderOnce
  BY DEF Inv, InOrderOnce
<1> QED
  BY BufferInvariant, <1>1, PTL

(***************************************************************************)
(* Under the same conditions no frame is lost: the handlers toss only       *)
(* copies of frames that were passed up or wait in a slot.                  *)
(***************************************************************************)
THEOREM NoFrameLost == Spec => []NothingLost
<1>1. Inv => NothingLost
  <2> SUFFICES ASSUME Inv, ~excused PROVE waiting = HeldFrames(rap)
    BY DEF NothingLost
  <2>1. CASE rap.xchgpend
    BY <2>1 DEF Inv, Agreed, HistoryAt
  <2>2. CASE ~rap.xchgpend
    BY <2>2 DEF Inv, NotAgreed, HeldFrames
  <2> QED
    BY <2>1, <2>2
<1> QED
  BY BufferInvariant, <1>1, PTL

(***************************************************************************)
(* Within an agreement the window start never moves back: an action         *)
(* property, from the invariant and the lemmas of the actions.              *)
(***************************************************************************)
THEOREM WindowForward == Spec => WindowMovesForward
<1>1. Inv /\ [Next]_vars => [\/ SeqSub(rap'.start, rap.start) <= BA_RANGE
                             \/ \E wnd \in Windows : ampdu_rx_start(wnd)]_vars
  BY NextStep DEF Forward
<1> QED
  BY BufferInvariant, <1>1, PTL DEF Spec, WindowMovesForward
=============================================================================
