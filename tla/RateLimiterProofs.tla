------------------------- MODULE RateLimiterProofs -------------------------
(***************************************************************************)
(* The limit of InMemoryRateLimiter, for any number of threads, any limit  *)
(* and any window.  Ages in the bucket are not ordered, so its prefix that *)
(* is dropped says nothing about what follows it; what holds is that the   *)
(* recent admissions and the end of the bucket correspond one to one       *)
(* (Covered, Backed), counted from the newest.                             *)
(***************************************************************************)
EXTENDS RateLimiter, FiniteSetTheorems, SequenceTheorems, TLAPS

Ages == 0..Horizon

\* The entry that stands for the last admission but j is at most MaxLag older than it.
Covered ==
  \A j \in Nat :
    j < Len(admitted) /\ admitted[Len(admitted) - j] < Window - MaxLag =>
      /\ j < Len(bucket)
      /\ bucket[Len(bucket) - j] <= admitted[Len(admitted) - j] + MaxLag

IInv == TypeOK /\ Covered

\* Admissions are kept in the order they happened, and no longer than an entry may live.
Kept ==
  /\ \A i \in 1..Len(admitted) : admitted[i] < Horizon
  /\ \A i, k \in 1..Len(admitted) : i <= k => admitted[k] <= admitted[i]

\* The last entry of the bucket but j stands for the last admission but j, which is no older,
\* unless the entry is too old for any clock.
Backed ==
  \A j \in Nat :
    j < Len(bucket) /\ bucket[Len(bucket) - j] < Horizon =>
      /\ j < Len(admitted)
      /\ admitted[Len(admitted) - j] <= bucket[Len(bucket) - j]

-----------------------------------------------------------------------------
\* Without drops from the front as many entries as the set has, and aligns the rest at the end.
LEMMA WithoutProperties ==
  ASSUME NEW seq \in Seq(Ages), NEW gone \in SUBSET (DOMAIN seq)
  PROVE  /\ IsFiniteSet(gone) /\ Cardinality(gone) \in 0..Len(seq)
         /\ Without(seq, gone) \in Seq(Ages)
         /\ Len(Without(seq, gone)) = Len(seq) - Cardinality(gone)
         /\ \A j \in Nat : j < Len(Without(seq, gone)) =>
              Without(seq, gone)[Len(Without(seq, gone)) - j] = seq[Len(seq) - j]
<1> DEFINE c == Cardinality(gone)
<1>1. DOMAIN seq = 1..Len(seq) /\ Len(seq) \in Nat /\ \A i \in 1..Len(seq) : seq[i] \in Ages
  BY LenProperties, ElementOfSeq
<1>2. IsFiniteSet(gone) /\ c \in 0..Len(seq)
  <2>1. IsFiniteSet(1..Len(seq)) /\ Cardinality(1..Len(seq)) = Len(seq)
    BY <1>1, FS_Interval
  <2>2. IsFiniteSet(gone) /\ c <= Len(seq)
    BY <1>1, <2>1, FS_Subset
  <2> QED
    BY <1>1, <2>2, FS_CardinalityType
<1> HIDE DEF c
<1>3. \A i \in (c + 1)..Len(seq) : seq[i] \in Ages
  BY <1>1, <1>2
<1>4. /\ SubSeq(seq, c + 1, Len(seq)) \in Seq(Ages)
      /\ Len(SubSeq(seq, c + 1, Len(seq)))
           = IF c + 1 <= Len(seq) THEN Len(seq) - (c + 1) + 1 ELSE 0
      /\ \A i \in 1..(Len(seq) - (c + 1) + 1) : SubSeq(seq, c + 1, Len(seq))[i] = seq[c + 1 + i - 1]
  BY <1>1, <1>2, <1>3, SubSeqProperties
<1>5. Without(seq, gone) = SubSeq(seq, c + 1, Len(seq))
  BY DEF Without, c
<1>6. Len(Without(seq, gone)) = Len(seq) - c
  <2>1. Len(Without(seq, gone)) = IF c + 1 <= Len(seq) THEN Len(seq) - (c + 1) + 1 ELSE 0
    BY <1>4, <1>5
  <2>2. Len(seq) \in Nat /\ c \in Nat /\ c <= Len(seq)
    BY <1>1, <1>2
  <2> QED
    BY <2>1, <2>2
<1>7. ASSUME NEW j \in Nat, j < Len(seq) - c
      PROVE  Without(seq, gone)[Len(seq) - c - j] = seq[Len(seq) - j]
  <2>1. Len(seq) - c - j \in 1..(Len(seq) - (c + 1) + 1)
    BY <1>1, <1>2, <1>7
  <2>2. Without(seq, gone)[Len(seq) - c - j] = seq[c + 1 + (Len(seq) - c - j) - 1]
    BY <1>4, <1>5, <2>1
  <2>3. c + 1 + (Len(seq) - c - j) - 1 = Len(seq) - j
    BY <1>1, <1>2
  <2> QED
    BY <2>2, <2>3
<1> QED
  BY <1>2, <1>4, <1>5, <1>6, <1>7 DEF c

LEMMA AgesOfEntries ==
  ASSUME TypeOK
  PROVE  /\ bucket \in Seq(Ages) /\ Len(bucket) \in Nat
         /\ \A i \in 1..Len(bucket) : bucket[i] \in Nat
         /\ admitted \in Seq(Ages) /\ Len(admitted) \in Nat
         /\ \A i \in 1..Len(admitted) : admitted[i] \in Nat
<1>1. bucket \in Seq(Ages) /\ admitted \in Seq(Ages) /\ Ages \subseteq Nat
  BY WindowAssumption DEF TypeOK, Ages, Horizon
<1> QED
  BY <1>1, LenProperties, ElementOfSeq

\* Pruning drops no entry that is younger than the window, however old the clock of t is.
LEMMA PrunedProperties ==
  ASSUME TypeOK, NEW t \in Threads
  PROVE  /\ Pruned(t) \in Seq(Ages) /\ Len(Pruned(t)) \in Nat /\ Len(Pruned(t)) <= Len(bucket)
         /\ \A j \in Nat : j < Len(bucket) /\ bucket[Len(bucket) - j] < Window =>
              /\ j < Len(Pruned(t))
              /\ Pruned(t)[Len(Pruned(t)) - j] = bucket[Len(bucket) - j]
<1> DEFINE c == Cardinality(Gone(t))
<1>1. bucket \in Seq(Ages) /\ Gone(t) \in SUBSET (DOMAIN bucket)
  BY DEF TypeOK, Ages, Gone
<1>2. DOMAIN bucket = 1..Len(bucket) /\ Len(bucket) \in Nat
  BY <1>1, LenProperties
<1>3. /\ IsFiniteSet(Gone(t)) /\ c \in 0..Len(bucket)
      /\ Pruned(t) \in Seq(Ages) /\ Len(Pruned(t)) = Len(bucket) - c
      /\ \A j \in Nat : j < Len(Pruned(t)) =>
           Pruned(t)[Len(Pruned(t)) - j] = bucket[Len(bucket) - j]
  BY <1>1, WithoutProperties DEF Pruned
<1>4. ASSUME NEW j \in Nat, j < Len(bucket), bucket[Len(bucket) - j] < Window
      PROVE  j < Len(bucket) - c
  <2> DEFINE n == Len(bucket) - j
  <2>1. n \in 1..Len(bucket) /\ lag[t] \in Nat /\ Window \in Nat /\ bucket[n] \in Nat
    <3>1. n \in 1..Len(bucket)
      BY <1>2, <1>4
    <3>2. bucket[n] \in Ages
      BY <1>1, <3>1, ElementOfSeq
    <3> QED
      BY <3>1, <3>2, WindowAssumption DEF TypeOK, Ages, Horizon
  <2>2. ~Outdated(bucket[n], t)
    BY <1>4, <2>1 DEF Outdated
  <2>3. Gone(t) \subseteq 1..(n - 1)
    <3>1. ASSUME NEW i \in Gone(t)
          PROVE  i \in 1..(n - 1)
      <4>1. i \in 1..Len(bucket) /\ (n \in 1..i => Outdated(bucket[n], t))
        BY <1>2 DEF Gone
      <4> HIDE DEF n
      <4> QED
        BY <1>2, <2>1, <2>2, <4>1
    <3> QED
      BY <3>1
  <2>4. IsFiniteSet(1..(n - 1)) /\ Cardinality(1..(n - 1)) = n - 1
    <3> HIDE DEF n
    <3>1. 1 \in Int /\ n - 1 \in Int /\ n - 1 - 1 + 1 = n - 1 /\ (1 > n - 1 => n - 1 = 0)
      BY <1>2, <2>1
    <3> QED
      BY <3>1, FS_Interval
  <2>5. c <= n - 1
    BY <2>3, <2>4, FS_Subset
  <2> QED
    BY <1>2, <1>3, <2>5
<1> HIDE DEF c
<1> QED
  BY <1>2, <1>3, <1>4

LEMMA AgedProperties ==
  ASSUME NEW seq \in Seq(Ages)
  PROVE  /\ Aged(seq) \in Seq(Ages) /\ Len(Aged(seq)) = Len(seq)
         /\ DOMAIN Aged(seq) = 1..Len(seq)
         /\ \A i \in 1..Len(seq) : Aged(seq)[i] = Older(seq[i])
<1>1. DOMAIN seq = 1..Len(seq) /\ Len(seq) \in Nat /\ \A i \in 1..Len(seq) : seq[i] \in Ages
  BY LenProperties, ElementOfSeq
<1>2. \A i \in 1..Len(seq) : Older(seq[i]) \in Ages
  BY <1>1, WindowAssumption DEF Older, Ages, Horizon
<1>3. Aged(seq) = [i \in 1..Len(seq) |-> Older(seq[i])]
  BY <1>1 DEF Aged
<1>4. Aged(seq) \in [1..Len(seq) -> Ages]
  BY <1>2, <1>3
<1>5. Aged(seq) \in Seq(Ages)
  BY <1>1, <1>4, SeqDef
<1>6. Len(Aged(seq)) = Len(seq)
  BY <1>1, <1>3, <1>5, LenProperties
<1> QED
  BY <1>3, <1>5, <1>6

-----------------------------------------------------------------------------
LEMMA InitIInv == Init => IInv
<1> SUFFICES ASSUME Init
             PROVE  IInv
  OBVIOUS
<1>1. bucket \in Seq(Ages) /\ admitted \in Seq(Ages) /\ Len(bucket) = 0 /\ Len(admitted) = 0
  BY EmptySeq DEF Init
<1> QED
  BY <1>1, LimitAssumption, WindowAssumption DEF Init, IInv, TypeOK, Covered, Ages

LEMMA PruneKeeps ==
  ASSUME IInv, NEW t \in Threads, bucket' = Pruned(t), admitted' = admitted,
         stage' = [stage EXCEPT ![t] = "idle"], lag' = lag
  PROVE  IInv'
<1>1. bucket' \in Seq(Ages) /\ Len(bucket') \in Nat /\ Len(bucket') <= Len(bucket)
  BY PrunedProperties DEF IInv
<1>2. TypeOK'
  <2>1. Len(bucket) \in Nat /\ Len(bucket) <= Limit
    BY LenProperties DEF IInv, TypeOK
  <2> QED
    BY <1>1, <2>1, LimitAssumption DEF IInv, TypeOK, Ages
<1>3. ASSUME NEW j \in Nat, j < Len(admitted), admitted[Len(admitted) - j] < Window - MaxLag
      PROVE  /\ j < Len(bucket')
             /\ bucket'[Len(bucket') - j] <= admitted[Len(admitted) - j] + MaxLag
  <2>1. /\ j < Len(bucket)
        /\ bucket[Len(bucket) - j] <= admitted[Len(admitted) - j] + MaxLag
    BY <1>3 DEF IInv, Covered
  <2>2. bucket[Len(bucket) - j] \in Nat /\ admitted[Len(admitted) - j] \in Nat
    <3>1. Len(bucket) - j \in 1..Len(bucket) /\ Len(admitted) - j \in 1..Len(admitted)
      BY <1>3, <2>1, AgesOfEntries DEF IInv
    <3> QED
      BY <3>1, AgesOfEntries DEF IInv
  <2>3. bucket[Len(bucket) - j] < Window
    BY <1>3, <2>1, <2>2, WindowAssumption
  <2> QED
    BY <2>1, <2>3, PrunedProperties DEF IInv
<1> QED
  BY <1>2, <1>3 DEF IInv, Covered

LEMMA AdmitKeeps ==
  ASSUME IInv, NEW t \in Threads, Admit(t)
  PROVE  IInv'
<1> DEFINE p == Pruned(t)
<1>1. p \in Seq(Ages) /\ Len(p) \in Nat /\ Len(p) < Limit
  BY PrunedProperties DEF IInv, Admit
<1>2. lag[t] \in Ages /\ lag[t] \in Nat /\ lag[t] <= MaxLag /\ 0 \in Ages /\ MaxLag \in Nat /\ Window \in Nat
  BY WindowAssumption DEF IInv, TypeOK, Ages, Horizon
<1>3. admitted \in Seq(Ages) /\ Len(admitted) \in Nat
  BY LenProperties DEF IInv, TypeOK, Ages
<1>4. bucket' = Append(p, lag[t]) /\ admitted' = Append(admitted, 0)
  BY DEF Admit
<1> HIDE DEF p
<1>5. /\ bucket' \in Seq(Ages) /\ Len(bucket') = Len(p) + 1
      /\ \A i \in 1..Len(p) : bucket'[i] = p[i]
      /\ bucket'[Len(p) + 1] = lag[t]
  BY <1>1, <1>2, <1>4, AppendProperties
<1>6. /\ admitted' \in Seq(Ages) /\ Len(admitted') = Len(admitted) + 1
      /\ \A i \in 1..Len(admitted) : admitted'[i] = admitted[i]
      /\ admitted'[Len(admitted) + 1] = 0
  BY <1>2, <1>3, <1>4, AppendProperties
<1>7. TypeOK'
  BY <1>1, <1>5, <1>6, LimitAssumption DEF IInv, TypeOK, Ages, Admit, Return
<1>8. ASSUME NEW j \in Nat, j < Len(admitted'), admitted'[Len(admitted') - j] < Window - MaxLag
      PROVE  /\ j < Len(bucket')
             /\ bucket'[Len(bucket') - j] <= admitted'[Len(admitted') - j] + MaxLag
  <2>1. CASE j = 0
    BY <1>1, <1>2, <1>3, <1>5, <1>6, <2>1
  <2>2. CASE j # 0
    <3> DEFINE k == j - 1
    <3>1. /\ k \in Nat /\ k < Len(admitted) /\ Len(admitted') - j = Len(admitted) - k
          /\ Len(admitted) - k \in 1..Len(admitted)
      BY <1>3, <1>6, <1>8, <2>2
    <3>2. admitted'[Len(admitted') - j] = admitted[Len(admitted) - k]
      BY <1>6, <3>1
    <3>3. /\ k < Len(bucket)
          /\ bucket[Len(bucket) - k] <= admitted[Len(admitted) - k] + MaxLag
      BY <1>8, <3>1, <3>2 DEF IInv, Covered
    <3>4. bucket[Len(bucket) - k] \in Nat /\ admitted[Len(admitted) - k] \in Nat
      <4>1. Len(bucket) - k \in 1..Len(bucket)
        BY <3>1, <3>3, AgesOfEntries DEF IInv
      <4> QED
        BY <3>1, <4>1, AgesOfEntries DEF IInv
    <3>5. bucket[Len(bucket) - k] < Window
      BY <1>2, <1>8, <3>2, <3>3, <3>4
    <3>6. k < Len(p) /\ p[Len(p) - k] = bucket[Len(bucket) - k]
      BY <3>1, <3>3, <3>5, PrunedProperties DEF IInv, p
    <3>7. Len(bucket') - j = Len(p) - k /\ Len(p) - k \in 1..Len(p)
      BY <1>1, <1>5, <3>1, <3>6
    <3>8. j < Len(bucket')
      BY <1>1, <1>5, <3>6
    <3>9. bucket'[Len(bucket') - j] = bucket[Len(bucket) - k]
      BY <1>5, <3>6, <3>7
    <3> QED
      BY <3>2, <3>3, <3>8, <3>9
  <2> QED
    BY <2>1, <2>2
<1> QED
  BY <1>7, <1>8 DEF IInv, Covered

LEMMA TickKeeps ==
  ASSUME IInv, Tick
  PROVE  IInv'
<1> DEFINE aged == Aged(admitted)
           old == {i \in DOMAIN aged : aged[i] = Horizon}
<1>0. MaxLag \in Nat /\ Window \in Nat /\ MaxLag < Window
  BY WindowAssumption
<1>1. /\ bucket \in Seq(Ages) /\ admitted \in Seq(Ages)
      /\ Len(bucket) \in Nat /\ Len(admitted) \in Nat
  BY LenProperties DEF IInv, TypeOK, Ages
<1>2. /\ bucket' \in Seq(Ages) /\ Len(bucket') = Len(bucket)
      /\ \A i \in 1..Len(bucket) : bucket'[i] = Older(bucket[i])
  BY <1>1, AgedProperties DEF Tick
<1>3. /\ aged \in Seq(Ages) /\ Len(aged) = Len(admitted)
      /\ \A i \in 1..Len(admitted) : aged[i] = Older(admitted[i])
  BY <1>1, AgedProperties
<1>4. admitted' = Without(aged, old) /\ old \in SUBSET (DOMAIN aged)
  BY DEF Tick
<1> HIDE DEF aged, old
<1>5. /\ admitted' \in Seq(Ages) /\ Len(admitted') \in Nat /\ Len(admitted') <= Len(aged)
      /\ \A j \in Nat : j < Len(admitted') => admitted'[Len(admitted') - j] = aged[Len(aged) - j]
  <2>1. Cardinality(old) \in 0..Len(aged) /\ Len(Without(aged, old)) = Len(aged) - Cardinality(old)
    BY <1>3, <1>4, WithoutProperties
  <2>2. Len(admitted') \in Nat /\ Len(admitted') <= Len(aged)
    BY <1>1, <1>3, <1>4, <2>1
  <2> QED
    BY <1>3, <1>4, <2>2, WithoutProperties
<1>6. TypeOK'
  <2>1. ASSUME NEW t \in Threads
        PROVE  (IF stage[t] # "idle" THEN lag[t] + 1 ELSE lag[t]) \in 0..MaxLag
    BY <1>0 DEF IInv, TypeOK, Tick
  <2>2. lag' \in [Threads -> 0..MaxLag]
    BY <2>1 DEF Tick
  <2> QED
    BY <1>2, <1>5, <2>2 DEF IInv, TypeOK, Ages, Tick
<1>7. ASSUME NEW j \in Nat, j < Len(admitted'), admitted'[Len(admitted') - j] < Window - MaxLag
      PROVE  /\ j < Len(bucket')
             /\ bucket'[Len(bucket') - j] <= admitted'[Len(admitted') - j] + MaxLag
  <2> DEFINE a == admitted[Len(admitted) - j]
             b == bucket[Len(bucket) - j]
  <2>1. j < Len(admitted) /\ Len(admitted) - j \in 1..Len(admitted)
    BY <1>1, <1>3, <1>5, <1>7
  <2>2. admitted'[Len(admitted') - j] = Older(a) /\ a \in Ages
    BY <1>1, <1>3, <1>5, <1>7, <2>1, ElementOfSeq
  <2>3. a < Window - MaxLag /\ a \in Nat /\ Older(a) = a + 1
    BY <1>0, <1>7, <2>2 DEF Older, Ages, Horizon
  <2>4. j < Len(bucket) /\ b <= a + MaxLag
    BY <2>1, <2>3 DEF IInv, Covered
  <2>5. Len(bucket) - j \in 1..Len(bucket) /\ b \in Ages
    BY <1>1, <2>4, ElementOfSeq
  <2>6. bucket'[Len(bucket') - j] = Older(b)
    BY <1>2, <2>5
  <2>7. b \in Nat /\ Older(b) <= b + 1 /\ Older(b) \in Nat
    BY <1>0, <2>5 DEF Older, Ages, Horizon
  <2> HIDE DEF a, b
  <2> QED
    BY <1>0, <1>2, <2>2, <2>3, <2>4, <2>6, <2>7
<1> QED
  BY <1>6, <1>7 DEF IInv, Covered

LEMMA NextIInv == IInv /\ [Next]_vars => IInv'
<1> SUFFICES ASSUME IInv, [Next]_vars
             PROVE  IInv'
  OBVIOUS
<1>1. CASE Tick
  BY <1>1, TickKeeps
<1>2. ASSUME NEW t \in Threads, Arrive(t)
      PROVE  IInv'
  BY <1>2, WindowAssumption DEF Arrive, IInv, TypeOK, Covered
<1>3. ASSUME NEW t \in Threads, Admit(t)
      PROVE  IInv'
  BY <1>3, AdmitKeeps
<1>4. ASSUME NEW t \in Threads, Refuse(t) \/ Snapshot(t)
      PROVE  IInv'
  BY <1>4, PruneKeeps DEF Refuse, Snapshot, Return
<1>5. CASE UNCHANGED vars
  BY <1>5 DEF vars, IInv, TypeOK, Covered
<1> QED
  BY <1>1, <1>2, <1>3, <1>4, <1>5 DEF Next

LEMMA Invariance == Spec => []IInv
BY InitIInv, NextIInv, PTL DEF Spec

-----------------------------------------------------------------------------
LEMMA IInvLimit == IInv => LimitHolds
<1> SUFFICES ASSUME IInv
             PROVE  LimitHolds
  OBVIOUS
<1> DEFINE recent == {i \in DOMAIN admitted : admitted[i] < Window - MaxLag}
           last == (Len(admitted) - Len(bucket) + 1)..Len(admitted)
<1>1. /\ DOMAIN admitted = 1..Len(admitted) /\ Len(admitted) \in Nat
      /\ Len(bucket) \in Nat /\ Len(bucket) <= Limit /\ Limit \in Nat
  BY LenProperties, LimitAssumption DEF IInv, TypeOK
<1>2. recent \subseteq last
  <2>1. ASSUME NEW i \in recent
        PROVE  i \in last
    <3> DEFINE j == Len(admitted) - i
    <3>1. i \in 1..Len(admitted) /\ j \in Nat /\ j < Len(admitted) /\ Len(admitted) - j = i
      BY <1>1, <2>1
    <3>2. admitted[Len(admitted) - j] < Window - MaxLag
      BY <2>1, <3>1
    <3> HIDE DEF j
    <3>3. j < Len(bucket)
      BY <3>1, <3>2 DEF IInv, Covered
    <3> QED
      BY <1>1, <3>1, <3>3 DEF j
  <2> QED
    BY <2>1
<1>3. IsFiniteSet(last) /\ Cardinality(last) = Len(bucket)
  <2> DEFINE a == Len(admitted) - Len(bucket) + 1
             b == Len(admitted)
  <2>1. /\ a \in Int /\ b \in Int /\ b - a + 1 = Len(bucket) /\ (a > b => Len(bucket) = 0)
        /\ last = a..b
    BY <1>1
  <2> HIDE DEF a, b, last
  <2> QED
    BY <2>1, FS_Interval
<1>4. Cardinality(recent) <= Len(bucket) /\ Cardinality(recent) \in Nat
  BY <1>2, <1>3, FS_Subset, FS_CardinalityType
<1> QED
  BY <1>1, <1>4 DEF LimitHolds, AdmittedWithin

\* The bucket never holds more entries than the limit, and the values keep their types.
THEOREM TypeCorrect == Spec => []TypeOK
<1>1. IInv => TypeOK
  BY DEF IInv
<1> QED
  BY <1>1, Invariance, PTL

\* Whatever the number of requests that check at once, and however long each of them waits for
\* the lock (MaxLag at most), no interval shorter than the window by that lag sees more
\* admissions than the limit.
THEOREM LimitKept == Spec => []LimitHolds
BY Invariance, IInvLimit, PTL

-----------------------------------------------------------------------------
\* The other direction: what is in the bucket was admitted

\* Only the front of the bucket is dropped, and the first entry that stays is not outdated.
LEMMA FrontStays ==
  ASSUME TypeOK, NEW t \in Threads, Pruned(t) # <<>>
  PROVE  /\ Len(Pruned(t)) \in 1..Len(bucket)
         /\ ~Outdated(bucket[Len(bucket) - Len(Pruned(t)) + 1], t)
<1> DEFINE c == Cardinality(Gone(t))
           n == c + 1
<1>1. bucket \in Seq(Ages) /\ Gone(t) \in SUBSET (DOMAIN bucket)
  BY DEF TypeOK, Ages, Gone
<1>2. DOMAIN bucket = 1..Len(bucket) /\ Len(bucket) \in Nat
  BY <1>1, LenProperties
<1>3. /\ IsFiniteSet(Gone(t)) /\ c \in 0..Len(bucket)
      /\ Pruned(t) \in Seq(Ages) /\ Len(Pruned(t)) = Len(bucket) - c
  BY <1>1, WithoutProperties DEF Pruned
<1>4. Len(Pruned(t)) # 0
  BY <1>3, EmptySeq
<1> HIDE DEF c
<1>5. n \in 1..Len(bucket) /\ n \in Nat
  <2>1. Len(bucket) \in Nat /\ c \in 0..Len(bucket)
    BY <1>2, <1>3
  <2>2. Len(bucket) - c # 0
    BY <1>3, <1>4
  <2> QED
    BY <2>1, <2>2
<1>6. n \notin Gone(t)
  <2>1. SUFFICES ASSUME n \in Gone(t) PROVE FALSE
    OBVIOUS
  <2>2. 1..n \subseteq Gone(t)
    <3>1. ASSUME NEW i \in 1..n PROVE i \in DOMAIN bucket /\ 1..i \subseteq 1..n
      BY <1>2, <1>5, <3>1
    <3> QED
      BY <2>1, <3>1 DEF Gone
  <2>3. Cardinality(1..n) = n
    <3> HIDE DEF n
    <3>1. 1 \in Int /\ n \in Int /\ n - 1 + 1 = n /\ ~(1 > n)
      BY <1>5
    <3> QED
      BY <3>1, FS_Interval
  <2>4. Cardinality(1..n) <= c
    BY <1>3, <2>2, FS_Subset DEF c
  <2> QED
    BY <1>3, <2>3, <2>4
<1>7. PICK k \in 1..n : ~Outdated(bucket[k], t)
  BY <1>2, <1>5, <1>6 DEF Gone
<1>8. Gone(t) \subseteq 1..(k - 1)
  <2>1. ASSUME NEW i \in Gone(t) PROVE i \in 1..(k - 1)
    <3>1. i \in 1..Len(bucket) /\ (k \in 1..i => Outdated(bucket[k], t))
      BY <1>2 DEF Gone
    <3> QED
      BY <1>2, <1>5, <1>7, <3>1
  <2> QED
    BY <2>1
<1>9. IsFiniteSet(1..(k - 1)) /\ Cardinality(1..(k - 1)) = k - 1
  <2>1. 1 \in Int /\ k - 1 \in Int /\ k - 1 - 1 + 1 = k - 1 /\ (1 > k - 1 => k - 1 = 0)
    BY <1>5, <1>7
  <2> QED
    BY <2>1, FS_Interval
<1>10. c <= k - 1
  BY <1>8, <1>9, FS_Subset DEF c
<1>11. k = n
  BY <1>3, <1>5, <1>7, <1>10
<1> QED
  BY <1>2, <1>3, <1>5, <1>7, <1>11

LEMMA PruneBacks ==
  ASSUME IInv, Kept, Backed, NEW t \in Threads, bucket' = Pruned(t), admitted' = admitted
  PROVE  Kept' /\ Backed'
<1>1. bucket \in Seq(Ages) /\ Gone(t) \in SUBSET (DOMAIN bucket) /\ Len(bucket) \in Nat
  BY LenProperties DEF IInv, TypeOK, Ages, Gone
<1>2. /\ Cardinality(Gone(t)) \in 0..Len(bucket)
      /\ Len(bucket') = Len(bucket) - Cardinality(Gone(t))
      /\ \A j \in Nat : j < Len(bucket') => bucket'[Len(bucket') - j] = bucket[Len(bucket) - j]
  BY <1>1, WithoutProperties DEF Pruned
<1>3. \A j \in Nat : j < Len(bucket') => j < Len(bucket)
  BY <1>1, <1>2
<1> QED
  BY <1>2, <1>3 DEF Kept, Backed

LEMMA AdmitBacks ==
  ASSUME IInv, Kept, Backed, NEW t \in Threads, Admit(t)
  PROVE  Kept' /\ Backed'
<1> DEFINE p == Pruned(t)
<1>1. bucket \in Seq(Ages) /\ Gone(t) \in SUBSET (DOMAIN bucket) /\ Len(bucket) \in Nat
  BY LenProperties DEF IInv, TypeOK, Ages, Gone
<1>2. /\ p \in Seq(Ages) /\ Len(p) \in Nat /\ Len(p) <= Len(bucket)
      /\ \A j \in Nat : j < Len(p) => p[Len(p) - j] = bucket[Len(bucket) - j]
  BY <1>1, PrunedProperties, WithoutProperties DEF IInv, Pruned
<1>3. lag[t] \in Ages /\ lag[t] \in Nat /\ 0 \in Ages /\ Horizon \in Nat /\ 0 < Horizon
  BY WindowAssumption DEF IInv, TypeOK, Ages, Horizon
<1>4. /\ admitted \in Seq(Ages) /\ Len(admitted) \in Nat
      /\ \A i \in 1..Len(admitted) : admitted[i] \in Nat
  BY AgesOfEntries DEF IInv
<1>5. bucket' = Append(p, lag[t]) /\ admitted' = Append(admitted, 0)
  BY DEF Admit
<1> HIDE DEF p
<1>6. /\ Len(bucket') = Len(p) + 1 /\ bucket'[Len(p) + 1] = lag[t]
      /\ \A i \in 1..Len(p) : bucket'[i] = p[i]
  BY <1>2, <1>3, <1>5, AppendProperties
<1>7. /\ Len(admitted') = Len(admitted) + 1 /\ admitted'[Len(admitted) + 1] = 0
      /\ \A i \in 1..Len(admitted) : admitted'[i] = admitted[i]
  BY <1>3, <1>4, <1>5, AppendProperties
<1>8. Kept'
  <2>1. \A i \in 1..Len(admitted') : i \in 1..Len(admitted) \/ i = Len(admitted) + 1
    BY <1>4, <1>7
  <2>2. \A i \in 1..Len(admitted') : admitted'[i] \in Nat /\ admitted'[i] < Horizon
    BY <1>3, <1>4, <1>7, <2>1 DEF Kept
  <2>3. ASSUME NEW i \in 1..Len(admitted'), NEW k \in 1..Len(admitted'), i <= k
        PROVE  admitted'[k] <= admitted'[i]
    <3>1. CASE k = Len(admitted) + 1
      BY <1>7, <2>2, <3>1
    <3>2. CASE k \in 1..Len(admitted)
      <4>1. i \in 1..Len(admitted)
        BY <1>4, <1>7, <2>3, <3>2
      <4> QED
        BY <1>7, <2>3, <3>2, <4>1 DEF Kept
    <3> QED
      BY <2>1, <3>1, <3>2
  <2> QED
    BY <2>2, <2>3 DEF Kept, Horizon
<1>9. ASSUME NEW j \in Nat, j < Len(bucket'), bucket'[Len(bucket') - j] < Horizon
      PROVE  /\ j < Len(admitted')
             /\ admitted'[Len(admitted') - j] <= bucket'[Len(bucket') - j]
  <2>1. CASE j = 0
    BY <1>2, <1>3, <1>4, <1>6, <1>7, <2>1
  <2>2. CASE j # 0
    <3> DEFINE k == j - 1
    <3>1. /\ k \in Nat /\ k < Len(p) /\ Len(bucket') - j = Len(p) - k /\ Len(p) - k \in 1..Len(p)
          /\ k < Len(bucket)
      BY <1>1, <1>2, <1>6, <1>9, <2>2
    <3>2. bucket'[Len(bucket') - j] = bucket[Len(bucket) - k]
      BY <1>2, <1>6, <3>1
    <3>3. k < Len(admitted) /\ admitted[Len(admitted) - k] <= bucket[Len(bucket) - k]
      BY <1>9, <3>1, <3>2 DEF Backed
    <3>4. /\ Len(admitted') - j = Len(admitted) - k /\ Len(admitted) - k \in 1..Len(admitted)
          /\ j < Len(admitted')
      BY <1>4, <1>7, <2>2, <3>3
    <3> QED
      BY <1>7, <3>2, <3>3, <3>4
  <2> QED
    BY <2>1, <2>2
<1> QED
  BY <1>8, <1>9 DEF Backed, Horizon

LEMMA TickBacks ==
  ASSUME IInv, Kept, Backed, Tick
  PROVE  Kept' /\ Backed'
<1> DEFINE aged == Aged(admitted)
           old == {i \in DOMAIN aged : aged[i] = Horizon}
           c == Cardinality(old)
<1>1. Horizon \in Nat /\ Horizon' = Horizon
  BY WindowAssumption DEF Horizon
<1>2. /\ bucket \in Seq(Ages) /\ Len(bucket) \in Nat /\ \A i \in 1..Len(bucket) : bucket[i] \in Nat
      /\ admitted \in Seq(Ages) /\ Len(admitted) \in Nat
      /\ \A i \in 1..Len(admitted) : admitted[i] \in Nat
  BY AgesOfEntries DEF IInv
<1>3. /\ Len(bucket') = Len(bucket)
      /\ \A i \in 1..Len(bucket) : bucket'[i] = Older(bucket[i])
  BY <1>2, AgedProperties DEF Tick
<1>4. /\ aged \in Seq(Ages) /\ Len(aged) = Len(admitted) /\ DOMAIN aged = 1..Len(admitted)
      /\ \A i \in 1..Len(admitted) : aged[i] = Older(admitted[i])
  BY <1>2, AgedProperties
<1>5. admitted' = Without(aged, old) /\ old \in SUBSET (DOMAIN aged)
  BY DEF Tick
<1>6. \A i \in 1..Len(admitted) : aged[i] = admitted[i] + 1
  BY <1>2, <1>4 DEF Kept, Older
<1>7. /\ IsFiniteSet(old) /\ c \in 0..Len(aged) /\ Len(admitted') = Len(aged) - c
      /\ \A j \in Nat : j < Len(admitted') => admitted'[Len(admitted') - j] = aged[Len(aged) - j]
  BY <1>4, <1>5, WithoutProperties
<1> HIDE DEF aged
\* What is dropped is a prefix.
<1>8. ASSUME NEW n \in 1..Len(admitted), aged[n] < Horizon
      PROVE  c < n
  <2>1. ASSUME NEW i \in old PROVE i \in 1..(n - 1)
    <3>1. i \in 1..Len(admitted) /\ aged[i] = Horizon
      BY <1>4
    <3>2. ~(n <= i)
      <4>1. n <= i => admitted[i] <= admitted[n]
        BY <3>1 DEF Kept
      <4> QED
        BY <1>1, <1>2, <1>6, <1>8, <3>1, <4>1
    <3> QED
      BY <1>2, <3>1, <3>2
  <2>2. old \subseteq 1..(n - 1)
    BY <2>1
  <2>3. IsFiniteSet(1..(n - 1)) /\ Cardinality(1..(n - 1)) = n - 1
    <3>1. 1 \in Int /\ n - 1 \in Int /\ n - 1 - 1 + 1 = n - 1 /\ (1 > n - 1 => n - 1 = 0)
      BY <1>2
    <3> QED
      BY <3>1, FS_Interval
  <2>4. c <= n - 1
    BY <2>2, <2>3, FS_Subset
  <2> QED
    BY <1>4, <1>7, <2>4
<1>9. ASSUME NEW n \in 1..Len(admitted), ~(aged[n] < Horizon)
      PROVE  n <= c
  <2>1. 1..n \subseteq old
    <3>1. ASSUME NEW i \in 1..n PROVE i \in old
      <4>1. i \in 1..Len(admitted) /\ i <= n /\ admitted[n] <= admitted[i]
        BY <1>2, <3>1 DEF Kept
      <4>2. aged[i] = Horizon
        BY <1>1, <1>2, <1>6, <1>9, <4>1 DEF Kept
      <4> QED
        BY <1>4, <4>1, <4>2
    <3> QED
      BY <3>1
  <2>2. Cardinality(1..n) = n
    <3>1. 1 \in Int /\ n \in Int /\ n - 1 + 1 = n /\ ~(1 > n)
      BY <1>2
    <3> QED
      BY <3>1, FS_Interval
  <2>3. Cardinality(1..n) <= c
    BY <1>7, <2>1, FS_Subset
  <2> QED
    BY <2>2, <2>3
<1> HIDE DEF old, c
<1>10. ASSUME NEW i \in 1..Len(admitted')
       PROVE  /\ i + c \in 1..Len(admitted) /\ admitted'[i] = admitted[i + c] + 1
              /\ admitted'[i] < Horizon
  <2> DEFINE j == Len(admitted') - i
  <2>1. /\ j \in Nat /\ j < Len(admitted') /\ Len(admitted') - j = i /\ Len(aged) - j = i + c
        /\ i + c \in 1..Len(admitted)
    BY <1>2, <1>4, <1>7, <1>10
  <2>2. admitted'[i] = aged[i + c]
    BY <1>7, <2>1
  <2>3. aged[i + c] < Horizon
    <3>1. ~(i + c <= c)
      BY <1>2, <1>4, <1>7, <1>10
    <3> QED
      BY <1>9, <2>1, <3>1
  <2> QED
    BY <1>6, <2>1, <2>2, <2>3
<1>11. Kept'
  <2>1. ASSUME NEW i \in 1..Len(admitted'), NEW k \in 1..Len(admitted'), i <= k
        PROVE  admitted'[k] <= admitted'[i]
    <3>1. admitted[k + c] <= admitted[i + c]
      <4>1. i + c <= k + c
        BY <1>2, <1>4, <1>7, <2>1
      <4> QED
        BY <1>10, <4>1 DEF Kept
    <3>2. admitted[k + c] \in Nat /\ admitted[i + c] \in Nat
      BY <1>2, <1>10
    <3> QED
      BY <1>10, <3>1, <3>2
  <2> QED
    BY <1>1, <1>10, <2>1 DEF Kept
<1>12. ASSUME NEW j \in Nat, j < Len(bucket'), bucket'[Len(bucket') - j] < Horizon
       PROVE  /\ j < Len(admitted')
              /\ admitted'[Len(admitted') - j] <= bucket'[Len(bucket') - j]
  <2> DEFINE b == bucket[Len(bucket) - j]
             n == Len(admitted) - j
  <2>1. Len(bucket) - j \in 1..Len(bucket) /\ b \in Nat /\ bucket'[Len(bucket') - j] = Older(b)
    BY <1>2, <1>3, <1>12
  <2>2. b < Horizon /\ Older(b) = b + 1 /\ b + 1 < Horizon
    BY <1>1, <1>12, <2>1 DEF Older
  <2>3. j < Len(admitted) /\ admitted[n] <= b
    BY <1>3, <1>12, <2>2 DEF Backed
  <2> HIDE DEF b
  <2>4. n \in 1..Len(admitted) /\ admitted[n] \in Nat
    BY <1>2, <2>3
  <2>5. aged[n] = admitted[n] + 1 /\ aged[n] < Horizon /\ aged[n] <= b + 1
    BY <1>1, <1>6, <2>1, <2>2, <2>3, <2>4
  <2>6. c < n
    BY <1>8, <2>4, <2>5
  <2>7. j < Len(admitted')
    BY <1>2, <1>4, <1>7, <2>6
  <2>8. admitted'[Len(admitted') - j] = aged[n]
    BY <1>4, <1>7, <2>7
  <2> QED
    BY <2>1, <2>2, <2>5, <2>7, <2>8
<1> QED
  BY <1>1, <1>11, <1>12 DEF Backed

LEMMA BackedInvariance == Spec => [](Kept /\ Backed)
<1>1. Init => Kept /\ Backed
  <2> SUFFICES ASSUME Init PROVE Kept /\ Backed
    OBVIOUS
  <2>1. Len(bucket) = 0 /\ Len(admitted) = 0
    BY EmptySeq DEF Init
  <2> QED
    BY <2>1 DEF Kept, Backed
<1>2. IInv /\ Kept /\ Backed /\ [Next]_vars => (Kept /\ Backed)'
  <2> SUFFICES ASSUME IInv, Kept, Backed, [Next]_vars
               PROVE  Kept' /\ Backed'
    OBVIOUS
  <2>1. CASE Tick
    BY <2>1, TickBacks
  <2>2. ASSUME NEW t \in Threads, Admit(t) PROVE Kept' /\ Backed'
    BY <2>2, AdmitBacks
  <2>3. ASSUME NEW t \in Threads, Refuse(t) \/ Snapshot(t) PROVE Kept' /\ Backed'
    BY <2>3, PruneBacks DEF Refuse, Snapshot
  <2>4. ASSUME NEW t \in Threads, Arrive(t) PROVE Kept' /\ Backed'
    BY <2>4 DEF Arrive, Kept, Backed, Horizon
  <2>5. CASE UNCHANGED vars
    BY <2>5 DEF vars, Kept, Backed, Horizon
  <2> QED
    BY <2>1, <2>2, <2>3, <2>4, <2>5 DEF Next
<1> QED
  BY <1>1, <1>2, Invariance, PTL DEF Spec

\* Nobody is refused because of entries that are stuck in the bucket: whenever a request is
\* refused, as many requests as the limit allows were admitted within the window and the lag.
THEOREM RefusedWithReason == Spec => RefusedForAReason
<1>1. IInv /\ Kept /\ Backed =>
        \A t \in Threads : Refuse(t) => AdmittedWithin(Window + MaxLag) >= Limit
  <2> SUFFICES ASSUME IInv, Kept, Backed, NEW t \in Threads, Refuse(t)
               PROVE  AdmittedWithin(Window + MaxLag) >= Limit
    OBVIOUS
  <2> DEFINE m == Len(Pruned(t))
             j == m - 1
  <2>1. m \in Nat /\ m >= Limit /\ Limit \in Nat \ {0}
    BY PrunedProperties, LimitAssumption DEF IInv, Refuse
  <2>2. m \in 1..Len(bucket) /\ ~Outdated(bucket[Len(bucket) - m + 1], t)
    <3>1. Pruned(t) # <<>>
      BY <2>1, EmptySeq
    <3> QED
      BY <3>1, FrontStays DEF IInv
  <2> HIDE DEF m
  <2>3. /\ Len(bucket) \in Nat /\ j \in Nat /\ j < Len(bucket)
        /\ Len(bucket) - j = Len(bucket) - m + 1 /\ Len(bucket) - j \in 1..Len(bucket)
    BY <2>1, <2>2, AgesOfEntries DEF IInv
  <2>4. bucket[Len(bucket) - j] < Horizon
    <3>1. bucket[Len(bucket) - j] \in Nat
      BY <2>3, AgesOfEntries DEF IInv
    <3>2. lag[t] \in 0..MaxLag
      BY DEF IInv, TypeOK
    <3> QED
      BY <2>2, <2>3, <3>1, <3>2, WindowAssumption DEF Outdated, Horizon
  <2>5. j < Len(admitted) /\ Len(admitted) \in Nat
    BY <2>3, <2>4, AgesOfEntries DEF IInv, Backed
  <2>6. Len(admitted) >= Limit
    BY <2>1, <2>5
  <2>7. {i \in DOMAIN admitted : admitted[i] < Window + MaxLag} = 1..Len(admitted)
    <3>1. DOMAIN admitted = 1..Len(admitted)
      BY AgesOfEntries, LenProperties DEF IInv
    <3> QED
      BY <3>1 DEF Kept, Horizon
  <2>8. Cardinality(1..Len(admitted)) = Len(admitted)
    <3>1. 1 \in Int /\ Len(admitted) \in Int /\ Len(admitted) - 1 + 1 = Len(admitted)
          /\ (1 > Len(admitted) => Len(admitted) = 0)
      BY <2>5
    <3> QED
      BY <3>1, FS_Interval
  <2> QED
    BY <2>6, <2>7, <2>8 DEF AdmittedWithin
<1> QED
  BY <1>1, Invariance, BackedInvariance, PTL DEF RefusedForAReason, Spec
=============================================================================
