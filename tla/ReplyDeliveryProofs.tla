------------------------ MODULE ReplyDeliveryProofs ------------------------
(***************************************************************************)
(* The replies of one claim for any number of operators, texts and         *)
(* requests.  A request is counted from its start to its end (Metered), so *)
(* that attempt numbers, replies and losses stay within the requests ever  *)
(* begun; time stamps are never shared (Stamped), so that the latest       *)
(* failure and the latest attempt are the same when the summary offers a   *)
(* retry; and what a request has read is true until another one changes    *)
(* the status (Unmoved).                                                   *)
(***************************************************************************)
EXTENDS ReplyDelivery, FiniteSetTheorems, WellFoundedInduction, TLAPS

Active == {o \in Operators : request[o].step # "idle"}
Reached == {o \in Operators : request[o].step = "reached"}

\* Requests that have read the claim.
Reading == {"sending", "reached", "deciding"}

\* Every request is under way, or has ended as one attempt at most and as one reply or one
\* unrecorded reply at most.
Metered ==
  /\ Len(deliveries) + Cardinality(Active) <= clock
  /\ messages + unrecorded + Cardinality(Active) <= clock
  /\ \A o \in Operators :
       request[o].step \in Reading => request[o].attempt \in 1..(Len(deliveries) + 1)
  /\ \A i \in DOMAIN deliveries : deliveries[i].attempt <= i

\* A request that calls the provider has a text, and is no status update.
Texted ==
  \A o \in Operators :
    /\ request[o].step \in {"sending", "reached"} => request[o].body \in Bodies
    /\ request[o].step # "idle" => request[o].began \in 1..clock

\* No two transactions have the same start.
Stamped ==
  /\ \A i \in DOMAIN deliveries : deliveries[i].began <= clock
  /\ \A i, k \in DOMAIN deliveries :
       i # k => deliveries[i].began # deliveries[k].began
  /\ \A i \in DOMAIN deliveries, o \in Active : deliveries[i].began # request[o].began
  /\ \A o, p \in Active : o # p => request[o].began # request[p].began

Unmoved ==
  \A o \in Operators :
    request[o].step \in Reading /\ ~moved[o] => request[o].seen = status

\* The number of a request under way, or of an attempt, follows one that is taken.
Following ==
  \A o \in Operators :
    request[o].step \in Reading /\ request[o].attempt > 1 =>
      \E k \in DOMAIN deliveries : deliveries[k].attempt = request[o].attempt - 1

\* Requests that do not overlap are numbered and stamped in the order they are stored in.
Alone ==
  ~overlapped =>
    /\ \A o, p \in Active : o = p
    /\ \A i, k \in DOMAIN deliveries : i < k => deliveries[i].began < deliveries[k].began
    /\ \A o \in Active :
         /\ \A i \in DOMAIN deliveries : deliveries[i].began < request[o].began
         /\ request[o].step \in Reading => request[o].attempt = Len(deliveries) + 1

IInv ==
  /\ TypeOK /\ SendsAccounted /\ NoNumberSkipped /\ NumbersCount
  /\ Metered /\ Texted /\ Stamped /\ Unmoved /\ Following /\ Alone

-----------------------------------------------------------------------------
\* Which attempt comes first

LEMMA StampType ==
  ASSUME TypeOK, NEW i \in DOMAIN deliveries
  PROVE  Stamp(i) \in Nat /\ deliveries[i] \in Attempts /\ i \in Nat /\ i <= Len(deliveries)
<1>1. deliveries[i] \in Attempts /\ i \in 1..Len(deliveries)
  BY DEF TypeOK
<1>2. deliveries[i].began \in Nat
  BY <1>1, BoundAssumption DEF Attempts
<1> QED
  BY <1>1, <1>2 DEF Stamp

LEMMA Least ==
  ASSUME NEW T, T \subseteq Nat, T # {}
  PROVE  \E x \in T : \A y \in T : x <= y
<1>1. PICK x \in T : \A y \in T : ~(<<y, x>> \in OpToRel(<, Nat))
  BY NatLessThanWellFounded, WFMin, Zenon
<1>2. \A a, b \in Nat : a < b => <<a, b>> \in OpToRel(<, Nat)
  <2>1. \A a, b \in Nat : a < b => <<a, b>> \in {ss \in Nat \X Nat : ss[1] < ss[2]}
    OBVIOUS
  <2> QED
    BY <2>1 DEF OpToRel
<1>3. ASSUME NEW y \in T PROVE ~(y < x)
  BY <1>1, <1>2, Zenon
<1>4. ASSUME NEW y \in T PROVE x <= y
  <2>1. x \in Nat /\ y \in Nat
    OBVIOUS
  <2> QED
    BY <1>3, <2>1
<1> QED
  BY <1>4

\* There is a latest one among any attempts.
LEMMA FirstOf ==
  ASSUME TypeOK, NEW S \in SUBSET (DOMAIN deliveries), S # {}
  PROVE  First(S) \in S /\ \A k \in S : Stamp(k) <= Stamp(First(S))
<1> DEFINE top == MaxRequests + Len(deliveries)
           T == {top - Stamp(i) : i \in S}
<1>1. top \in Nat
  BY BoundAssumption DEF TypeOK
<1>2. ASSUME NEW i \in S PROVE Stamp(i) \in Nat /\ Stamp(i) <= top
  <2>1. i \in 1..Len(deliveries) /\ deliveries[i] \in Attempts /\ Len(deliveries) \in Nat
    BY DEF TypeOK
  <2>2. deliveries[i].began \in 1..MaxRequests
    BY <2>1 DEF Attempts
  <2> QED
    BY <2>1, <2>2, BoundAssumption DEF Stamp
<1> HIDE DEF top
<1>3. T \subseteq Nat /\ T # {}
  BY <1>1, <1>2
<1>4. PICK x \in T : \A y \in T : x <= y
  BY <1>3, Least
<1>5. PICK i \in S : x = top - Stamp(i)
  BY <1>4
<1>6. ASSUME NEW k \in S PROVE Stamp(k) <= Stamp(i)
  <2>1. x <= top - Stamp(k)
    BY <1>4
  <2> QED
    BY <1>1, <1>2, <1>5, <2>1
<1> QED
  BY <1>6 DEF First

LEMMA NextNo ==
  ASSUME TypeOK, Metered
  PROVE  /\ NextAttemptNo \in 1..(Len(deliveries) + 1)
         /\ NextAttemptNo > 1 =>
              \E k \in DOMAIN deliveries : deliveries[k].attempt = NextAttemptNo - 1
<1>1. CASE deliveries = <<>>
  BY <1>1 DEF NextAttemptNo
<1>2. CASE deliveries # <<>>
  <2>1. DOMAIN deliveries # {}
    <3>1. deliveries \in Seq(Attempts)
      BY DEF TypeOK
    <3>2. Len(deliveries) \in Nat /\ DOMAIN deliveries = 1..Len(deliveries)
          /\ Len(deliveries) # 0
      BY <1>2, <3>1
    <3> QED
      BY <3>2
  <2>2. First(DOMAIN deliveries) \in DOMAIN deliveries
    BY <2>1, FirstOf
  <2> DEFINE k == First(DOMAIN deliveries)
  <2>3. deliveries[k].attempt <= k /\ deliveries[k] \in Attempts /\ k \in 1..Len(deliveries)
    BY <2>2 DEF Metered, TypeOK
  <2>4. deliveries[k].attempt \in Nat /\ deliveries[k].attempt >= 1
    BY <2>3 DEF Attempts
  <2>5. NextAttemptNo = deliveries[k].attempt + 1
    BY <1>2 DEF NextAttemptNo
  <2> HIDE DEF k
  <2> QED
    BY <2>2, <2>3, <2>4, <2>5 DEF TypeOK, k
<1> QED
  BY <1>1, <1>2

LEMMA ActiveFinite == IsFiniteSet(Active) /\ Cardinality(Active) \in Nat
                      /\ IsFiniteSet(Reached) /\ Cardinality(Reached) \in Nat
<1>1. Active \subseteq Operators /\ Reached \subseteq Operators
  BY DEF Active, Reached
<1> QED
  BY <1>1, OperatorAssumption, FS_Subset, FS_CardinalityType

LEMMA SentFinite ==
  ASSUME TypeOK
  PROVE  IsFiniteSet(Sent) /\ Cardinality(Sent) \in Nat /\ Len(deliveries) + 1 \notin Sent
<1>1. Sent \subseteq 1..Len(deliveries) /\ Len(deliveries) \in Nat
  BY DEF Sent, TypeOK
<1>2. IsFiniteSet(1..Len(deliveries))
  BY <1>1, FS_Interval
<1>3. Len(deliveries) + 1 \notin Sent
  BY <1>1
<1> QED
  BY <1>1, <1>2, <1>3, FS_Subset, FS_CardinalityType

-----------------------------------------------------------------------------
\* What several actions have in common

\* A request ends, whatever its outcome.
LEMMA EndsKeeps ==
  ASSUME IInv, NEW o \in Operators, request[o].step # "idle",
         request' = [request EXCEPT ![o] = Idle]
  PROVE  /\ request' \in [Operators -> Requests] /\ request'[o] = Idle
         /\ \A p \in Operators \ {o} : request'[p] = request[p]
         /\ Active' = Active \ {o} /\ o \in Active
         /\ Cardinality(Active') = Cardinality(Active) - 1 /\ Cardinality(Active) \in Nat \ {0}
         /\ Reached' = Reached \ {o}
         /\ Cardinality(Reached') = IF request[o].step = "reached" THEN Cardinality(Reached) - 1
                                                                  ELSE Cardinality(Reached)
         /\ Cardinality(Reached') \in Nat
<1>1. request \in [Operators -> Requests] /\ Idle \in Requests /\ Idle.step = "idle"
  BY BoundAssumption DEF IInv, TypeOK, Idle, Requests, Texts, Kinds, ClaimStatuses
<1>2. /\ request' \in [Operators -> Requests] /\ request'[o] = Idle
      /\ \A p \in Operators \ {o} : request'[p] = request[p]
  BY <1>1
<1>3. Active' = Active \ {o} /\ o \in Active
  BY <1>1, <1>2 DEF Active
<1>4. Reached' = Reached \ {o} /\ (o \in Reached <=> request[o].step = "reached")
  BY <1>1, <1>2 DEF Reached
<1>5. /\ Cardinality(Active') = Cardinality(Active) - 1 /\ Cardinality(Active) \in Nat
      /\ Cardinality(Active') \in Nat
  <2>1. IsFiniteSet(Active \ {o}) /\ Cardinality(Active \ {o}) = Cardinality(Active) - 1
    BY <1>3, ActiveFinite, FS_RemoveElement
  <2> QED
    BY <1>3, <2>1, ActiveFinite, FS_CardinalityType
<1>6. /\ Cardinality(Reached') = IF request[o].step = "reached" THEN Cardinality(Reached) - 1
                                                              ELSE Cardinality(Reached)
      /\ Cardinality(Reached') \in Nat
  <2>1. IsFiniteSet(Reached \ {o})
        /\ Cardinality(Reached \ {o}) = IF o \in Reached THEN Cardinality(Reached) - 1
                                                         ELSE Cardinality(Reached)
    BY ActiveFinite, FS_RemoveElement
  <2> QED
    BY <1>4, <2>1, FS_CardinalityType
<1> QED
  BY <1>2, <1>3, <1>4, <1>5, <1>6

\* An ending that stores no attempt keeps what is said of attempts and of requests under way.
LEMMA QuietEnd ==
  ASSUME IInv, NEW o \in Operators, request[o].step # "idle",
         request' = [request EXCEPT ![o] = Idle], UNCHANGED <<createdAt, deliveries, clock, overlapped>>
  PROVE  /\ NoNumberSkipped' /\ NumbersCount' /\ Texted' /\ Stamped' /\ Following' /\ Alone'
         /\ Len(deliveries') + Cardinality(Active') <= clock'
         /\ \A p \in Operators :
              request'[p].step \in Reading => request'[p].attempt \in 1..(Len(deliveries') + 1)
         /\ \A i \in DOMAIN deliveries' : deliveries'[i].attempt <= i
<1>1. /\ request'[o] = Idle /\ \A p \in Operators \ {o} : request'[p] = request[p]
      /\ Active' = Active \ {o} /\ Cardinality(Active') = Cardinality(Active) - 1
      /\ Cardinality(Active) \in Nat \ {0}
  BY EndsKeeps
<1>2. Idle.step = "idle"
  BY DEF Idle
<1>3. Len(deliveries) \in Nat /\ clock \in Nat
  BY BoundAssumption DEF IInv, TypeOK
<1>4. NoNumberSkipped' /\ NumbersCount'
  BY DEF IInv, NoNumberSkipped, NumbersCount
<1>5. Texted' /\ Following'
  BY <1>1, <1>2 DEF IInv, Texted, Following, Reading
<1>6. Stamped' /\ Alone'
  <2>1. \A p \in Active' : p \in Active /\ request'[p] = request[p]
    BY <1>1 DEF Active
  <2> QED
    BY <2>1 DEF IInv, Stamped, Alone
<1>7. Len(deliveries') + Cardinality(Active') <= clock'
  BY <1>1, <1>3 DEF IInv, Metered
<1> QED
  BY <1>1, <1>2, <1>4, <1>5, <1>6, <1>7 DEF IInv, Metered, Reading

\* What storing an attempt does to the list.
LEMMA Stores ==
  ASSUME IInv, NEW o \in Operators, request[o].step \in {"sending", "reached"},
         NEW outcome \in {"sent", "failed"}, deliveries' = Append(deliveries, Attempt(o, outcome))
  PROVE  /\ deliveries' \in Seq(Attempts) /\ Len(deliveries') = Len(deliveries) + 1
         /\ DOMAIN deliveries' = 1..(Len(deliveries) + 1) /\ DOMAIN deliveries = 1..Len(deliveries)
         /\ Len(deliveries) \in Nat
         /\ \A i \in DOMAIN deliveries : deliveries'[i] = deliveries[i]
         /\ deliveries'[Len(deliveries) + 1] = Attempt(o, outcome)
         /\ Sent' = IF outcome = "sent" THEN Sent \cup {Len(deliveries) + 1} ELSE Sent
         /\ Cardinality(Sent') = Cardinality(Sent) + (IF outcome = "sent" THEN 1 ELSE 0)
         /\ Cardinality(Sent) \in Nat
<1>1. deliveries \in Seq(Attempts) /\ Len(deliveries) \in Nat /\ clock \in 0..MaxRequests
  BY DEF IInv, TypeOK
<1>2. Cardinality(Active) \in Nat \ {0}
  <2>1. o \in Active
    BY DEF Active
  <2>2. Cardinality(Active) # 0
    BY <2>1, ActiveFinite, FS_EmptySet
  <2> QED
    BY <2>2, ActiveFinite
<1>3. Attempt(o, outcome) \in Attempts
  <2>1. request[o].attempt \in 1..(Len(deliveries) + 1)
    BY DEF IInv, Metered, Reading
  <2>2. Len(deliveries) + 1 <= MaxRequests
    BY <1>1, <1>2, BoundAssumption DEF IInv, Metered
  <2>3. request[o].attempt \in 1..MaxRequests
    BY <1>1, <2>1, <2>2, BoundAssumption
  <2>4. request[o].began \in 1..MaxRequests /\ request[o].body \in Bodies
    BY <1>1, BoundAssumption DEF IInv, Texted
  <2> QED
    BY <2>3, <2>4 DEF Attempt, Attempts
<1>4. /\ deliveries' \in Seq(Attempts) /\ Len(deliveries') = Len(deliveries) + 1
      /\ DOMAIN deliveries' = 1..(Len(deliveries) + 1) /\ DOMAIN deliveries = 1..Len(deliveries)
      /\ \A i \in DOMAIN deliveries : deliveries'[i] = deliveries[i]
      /\ deliveries'[Len(deliveries) + 1] = Attempt(o, outcome)
  BY <1>1, <1>3
<1>5. Attempt(o, outcome).status = outcome
  BY DEF Attempt
<1>6. Sent' = IF outcome = "sent" THEN Sent \cup {Len(deliveries) + 1} ELSE Sent
  BY <1>1, <1>4, <1>5 DEF Sent
<1>7. /\ IsFiniteSet(Sent) /\ Cardinality(Sent) \in Nat /\ Len(deliveries) + 1 \notin Sent
  BY SentFinite DEF IInv
<1>8. Cardinality(Sent \cup {Len(deliveries) + 1}) = Cardinality(Sent) + 1
  BY <1>7, FS_AddElement
<1> QED
  BY <1>1, <1>4, <1>6, <1>7, <1>8

LEMMA RecordKeeps ==
  ASSUME IInv, NEW o \in Operators, request[o].step \in {"sending", "reached"},
         NEW outcome \in {"sent", "failed"}, deliveries' = Append(deliveries, Attempt(o, outcome)),
         request' = [request EXCEPT ![o] = Idle], UNCHANGED <<createdAt, clock, overlapped>>
  PROVE  /\ NoNumberSkipped' /\ NumbersCount' /\ Texted' /\ Stamped' /\ Following' /\ Alone'
         /\ Len(deliveries') + Cardinality(Active') <= clock'
         /\ \A p \in Operators :
              request'[p].step \in Reading => request'[p].attempt \in 1..(Len(deliveries') + 1)
         /\ \A i \in DOMAIN deliveries' : deliveries'[i].attempt <= i
<1> DEFINE n == Len(deliveries) + 1
<1>1. /\ request'[o] = Idle /\ \A p \in Operators \ {o} : request'[p] = request[p]
      /\ Active' = Active \ {o} /\ Cardinality(Active') = Cardinality(Active) - 1
      /\ Cardinality(Active) \in Nat \ {0} /\ o \in Active
  BY EndsKeeps
<1>2. /\ Len(deliveries') = n /\ DOMAIN deliveries' = 1..n /\ DOMAIN deliveries = 1..(n - 1)
      /\ \A i \in 1..(n - 1) : deliveries'[i] = deliveries[i]
      /\ deliveries'[n] = Attempt(o, outcome) /\ n \in Nat \ {0}
  BY Stores
<1>3. /\ deliveries'[n].began = request[o].began /\ deliveries'[n].attempt = request[o].attempt
      /\ request[o].attempt \in 1..n
  BY <1>2 DEF Attempt, IInv, Metered, Reading
<1>4. Idle.step = "idle" /\ request[o].step \in Reading /\ clock \in Nat
  BY BoundAssumption DEF Idle, Reading, IInv, TypeOK
<1>5. \A p \in Active' : p \in Active /\ request'[p] = request[p] /\ p # o
  BY <1>1 DEF Active
<1>6. \A i \in 1..n : i \in 1..(n - 1) \/ i = n
  BY <1>2
<1> HIDE DEF n
<1>7. NoNumberSkipped'
  <2> SUFFICES ASSUME NEW i \in 1..n, deliveries'[i].attempt > 1
               PROVE  \E k \in 1..(i - 1) : deliveries'[k].attempt = deliveries'[i].attempt - 1
    BY <1>2 DEF NoNumberSkipped
  <2>1. CASE i \in 1..(n - 1)
    <3>1. PICK k \in 1..(i - 1) : deliveries[k].attempt = deliveries[i].attempt - 1
      BY <1>2, <2>1 DEF IInv, NoNumberSkipped
    <3>2. k \in 1..(n - 1)
      BY <1>2, <2>1
    <3> QED
      BY <1>2, <2>1, <3>1, <3>2
  <2>2. CASE i = n
    <3>1. PICK k \in DOMAIN deliveries : deliveries[k].attempt = request[o].attempt - 1
      BY <1>3, <1>4, <2>2 DEF IInv, Following
    <3> QED
      BY <1>2, <1>3, <2>2, <3>1
  <2> QED
    BY <1>6, <2>1, <2>2
<1>8. NumbersCount'
  <2> SUFFICES ASSUME ~overlapped, NEW i \in 1..n PROVE deliveries'[i].attempt = i
    BY <1>2 DEF NumbersCount
  <2>1. CASE i \in 1..(n - 1)
    BY <1>2, <2>1 DEF IInv, NumbersCount
  <2>2. CASE i = n
    BY <1>1, <1>3, <1>4, <2>2 DEF IInv, Alone, n
  <2> QED
    BY <1>6, <2>1, <2>2
<1>9. Texted'
  BY <1>1, <1>4 DEF IInv, Texted
<1>10. Stamped'
  <2>1. ASSUME NEW i \in 1..n, NEW k \in 1..n, i # k
        PROVE  deliveries'[i].began # deliveries'[k].began
    BY <1>1, <1>2, <1>3, <1>6, <2>1 DEF IInv, Stamped
  <2>2. ASSUME NEW i \in 1..n, NEW p \in Active'
        PROVE  deliveries'[i].began # request'[p].began
    BY <1>1, <1>2, <1>3, <1>5, <1>6 DEF IInv, Stamped
  <2>3. \A i \in 1..n : deliveries'[i].began <= clock
    BY <1>1, <1>2, <1>3, <1>4, <1>6 DEF IInv, Stamped, Texted
  <2> QED
    BY <1>2, <1>5, <2>1, <2>2, <2>3 DEF IInv, Stamped
<1>11. Following'
  <2> SUFFICES ASSUME NEW p \in Operators, request'[p].step \in Reading, request'[p].attempt > 1
               PROVE  \E k \in 1..n : deliveries'[k].attempt = request'[p].attempt - 1
    BY <1>2 DEF Following
  <2>1. p # o /\ request'[p] = request[p]
    BY <1>1, <1>4 DEF Reading
  <2>2. PICK k \in 1..(n - 1) : deliveries[k].attempt = request[p].attempt - 1
    BY <1>2, <2>1 DEF IInv, Following
  <2> QED
    BY <1>2, <2>1, <2>2
<1>12. Alone'
  <2> SUFFICES ASSUME ~overlapped PROVE Alone'
    BY DEF Alone
  <2>1. Active' = {}
    BY <1>1 DEF IInv, Alone
  <2>3. ASSUME NEW i \in 1..n, NEW k \in 1..n, i < k
        PROVE  deliveries'[i].began < deliveries'[k].began
    <3>1. i \in 1..(n - 1)
      BY <1>2, <2>3
    <3> QED
      BY <1>1, <1>2, <1>3, <1>6, <2>3, <3>1 DEF IInv, Alone
  <2> QED
    BY <1>2, <2>1, <2>3 DEF Alone
<1>13. Len(deliveries') + Cardinality(Active') <= clock'
  BY <1>1, <1>2, <1>4 DEF IInv, Metered, n
<1>14. ASSUME NEW p \in Operators, request'[p].step \in Reading
       PROVE  request'[p].attempt \in 1..(Len(deliveries') + 1)
  <2>1. p # o /\ request'[p] = request[p]
    BY <1>1, <1>4, <1>14 DEF Reading
  <2>2. request[p].attempt \in 1..n
    BY <1>14, <2>1 DEF IInv, Metered, n
  <2> QED
    BY <1>2, <2>1, <2>2
<1>15. ASSUME NEW i \in 1..n PROVE deliveries'[i].attempt <= i
  BY <1>2, <1>3, <1>6 DEF IInv, Metered
<1> QED
  BY <1>2, <1>7, <1>8, <1>9, <1>10, <1>11, <1>12, <1>13, <1>14, <1>15

\* An UPDATE of the status: the others learn that it has moved.
LEMMA WriteKeeps ==
  ASSUME IInv, NEW o \in Operators, WriteStatus(o), request' = [request EXCEPT ![o] = Idle]
  PROVE  status' \in ClaimStatuses /\ moved' \in [Operators -> BOOLEAN] /\ Unmoved'
<1>1. /\ status' = StatusWritten(o)
      /\ moved' = IF status' # status THEN [p \in Operators |-> p # o] ELSE moved
  BY DEF WriteStatus
<1>2. request \in [Operators -> Requests] /\ moved \in [Operators -> BOOLEAN]
      /\ status \in ClaimStatuses
  BY DEF IInv, TypeOK
<1>3. status' \in ClaimStatuses
  BY <1>1, <1>2 DEF StatusWritten, Requests
<1>4. moved' \in [Operators -> BOOLEAN]
  BY <1>1, <1>2
<1>5. Idle.step \notin Reading
  BY DEF Idle, Reading
<1>6. ASSUME NEW p \in Operators, request'[p].step \in Reading, ~moved'[p]
      PROVE  request'[p].seen = status'
  <2>1. p # o /\ request'[p] = request[p]
    BY <1>2, <1>5, <1>6
  <2>2. status' = status /\ moved' = moved
    BY <1>1, <1>6, <2>1
  <2> QED
    BY <1>6, <2>1, <2>2 DEF IInv, Unmoved
<1> QED
  BY <1>3, <1>4, <1>6 DEF Unmoved

\* Without one nothing moves.
LEMMA StatusKept ==
  ASSUME IInv, NEW o \in Operators, UNCHANGED <<status, moved>>,
         request' = [request EXCEPT ![o] = Idle]
  PROVE  status' \in ClaimStatuses /\ moved' \in [Operators -> BOOLEAN] /\ Unmoved'
<1>1. request \in [Operators -> Requests] /\ Idle.step \notin Reading
  BY DEF IInv, TypeOK, Idle, Reading
<1> QED
  BY <1>1 DEF IInv, TypeOK, Unmoved

LEMMA RecordSentIInv ==
  ASSUME IInv, NEW o \in Operators, RecordSent(o)
  PROVE  IInv'
<1>1. /\ request[o].step = "reached" /\ deliveries' = Append(deliveries, Attempt(o, "sent"))
      /\ messages' = messages + 1 /\ request' = [request EXCEPT ![o] = Idle]
      /\ UNCHANGED <<createdAt, clock, received, unrecorded, overlapped, lost>>
      /\ WriteStatus(o) \/ UNCHANGED <<status, moved>>
  BY DEF RecordSent
<1>2. status' \in ClaimStatuses /\ moved' \in [Operators -> BOOLEAN] /\ Unmoved'
  BY <1>1, WriteKeeps, StatusKept
<1>3. /\ NoNumberSkipped' /\ NumbersCount' /\ Texted' /\ Stamped' /\ Following' /\ Alone'
      /\ Len(deliveries') + Cardinality(Active') <= clock'
      /\ \A p \in Operators :
           request'[p].step \in Reading => request'[p].attempt \in 1..(Len(deliveries') + 1)
      /\ \A i \in DOMAIN deliveries' : deliveries'[i].attempt <= i
  BY <1>1, RecordKeeps
<1>4. /\ deliveries' \in Seq(Attempts) /\ Cardinality(Sent') = Cardinality(Sent) + 1
      /\ Cardinality(Sent) \in Nat
  BY <1>1, Stores
<1>5. /\ request' \in [Operators -> Requests]
      /\ Cardinality(Active') = Cardinality(Active) - 1 /\ Cardinality(Active) \in Nat \ {0}
      /\ Cardinality(Reached') = Cardinality(Reached) - 1 /\ Cardinality(Reached) \in Nat
  BY <1>1, EndsKeeps, ActiveFinite
<1>6. /\ messages \in 0..MaxRequests /\ unrecorded \in 0..MaxRequests
      /\ clock \in 0..MaxRequests /\ received = Cardinality(Sent) + unrecorded + Cardinality(Reached)
      /\ messages = Cardinality(Sent) /\ messages + unrecorded + Cardinality(Active) <= clock
  BY DEF IInv, TypeOK, SendsAccounted, Metered, Reached
<1>7. messages' + unrecorded' + Cardinality(Active') <= clock'
  BY <1>1, <1>5, <1>6
<1>8. messages' \in 0..MaxRequests
  <2>1. messages \in Nat /\ unrecorded \in Nat /\ clock \in Nat /\ clock <= MaxRequests
    BY <1>6, BoundAssumption
  <2>2. messages + 1 <= MaxRequests
    BY <1>5, <1>6, <2>1, BoundAssumption
  <2> QED
    BY <1>1, <2>1, <2>2, BoundAssumption
<1>9. SendsAccounted'
  <2>1. received' = Cardinality(Sent') + unrecorded' + Cardinality(Reached')
    BY <1>1, <1>4, <1>5, <1>6
  <2> QED
    BY <1>1, <1>4, <1>6, <2>1 DEF SendsAccounted, Reached
<1>10. TypeOK'
  BY <1>1, <1>2, <1>4, <1>5, <1>8 DEF IInv, TypeOK
<1>11. Metered'
  BY <1>3, <1>7 DEF Metered
<1> QED
  BY <1>2, <1>3, <1>9, <1>10, <1>11 DEF IInv

LEMMA RecordFailedIInv ==
  ASSUME IInv, NEW o \in Operators, RecordFailed(o)
  PROVE  IInv'
<1>1. /\ request[o].step \in {"sending", "reached"}
      /\ deliveries' = Append(deliveries, Attempt(o, "failed"))
      /\ unrecorded' = IF request[o].step = "reached" THEN unrecorded + 1 ELSE unrecorded
      /\ request' = [request EXCEPT ![o] = Idle]
      /\ UNCHANGED <<createdAt, messages, status, clock, received, overlapped, moved, lost>>
  BY DEF RecordFailed
<1>2. Unmoved'
  BY <1>1, StatusKept
<1>3. /\ NoNumberSkipped' /\ NumbersCount' /\ Texted' /\ Stamped' /\ Following' /\ Alone'
      /\ Len(deliveries') + Cardinality(Active') <= clock'
      /\ \A p \in Operators :
           request'[p].step \in Reading => request'[p].attempt \in 1..(Len(deliveries') + 1)
      /\ \A i \in DOMAIN deliveries' : deliveries'[i].attempt <= i
  BY <1>1, RecordKeeps
<1>4. /\ deliveries' \in Seq(Attempts) /\ Cardinality(Sent') = Cardinality(Sent)
      /\ Cardinality(Sent) \in Nat
  BY <1>1, Stores
<1>5. /\ request' \in [Operators -> Requests]
      /\ Cardinality(Active') = Cardinality(Active) - 1 /\ Cardinality(Active) \in Nat \ {0}
      /\ Cardinality(Reached') = IF request[o].step = "reached" THEN Cardinality(Reached) - 1
                                                               ELSE Cardinality(Reached)
      /\ Cardinality(Reached) \in Nat
  BY <1>1, EndsKeeps, ActiveFinite
<1>6. /\ messages \in 0..MaxRequests /\ unrecorded \in 0..MaxRequests
      /\ clock \in 0..MaxRequests /\ received = Cardinality(Sent) + unrecorded + Cardinality(Reached)
      /\ messages = Cardinality(Sent) /\ messages + unrecorded + Cardinality(Active) <= clock
  BY DEF IInv, TypeOK, SendsAccounted, Metered, Reached
<1>7. unrecorded' \in {unrecorded, unrecorded + 1} /\ messages' = messages /\ clock' = clock
  BY <1>1
<1>8. unrecorded' \in 0..MaxRequests /\ messages' + unrecorded' + Cardinality(Active') <= clock'
  <2>1. messages \in Nat /\ unrecorded \in Nat /\ clock \in Nat /\ clock <= MaxRequests
    BY <1>6, BoundAssumption
  <2>2. unrecorded + 1 <= MaxRequests
    BY <1>5, <1>6, <2>1, BoundAssumption
  <2>3. messages + (unrecorded + 1) + (Cardinality(Active) - 1) <= clock
    BY <1>5, <1>6, <2>1
  <2>4. messages + unrecorded + (Cardinality(Active) - 1) <= clock
    BY <1>5, <1>6, <2>1
  <2> QED
    BY <1>5, <1>7, <2>1, <2>2, <2>3, <2>4, BoundAssumption
<1>9. SendsAccounted'
  <2>1. received' = Cardinality(Sent') + unrecorded' + Cardinality(Reached')
    BY <1>1, <1>4, <1>5, <1>6
  <2> QED
    BY <1>1, <1>4, <1>6, <2>1 DEF SendsAccounted, Reached
<1>10. TypeOK'
  BY <1>1, <1>4, <1>5, <1>8 DEF IInv, TypeOK
<1>11. Metered'
  BY <1>3, <1>8 DEF Metered
<1> QED
  BY <1>2, <1>3, <1>9, <1>10, <1>11 DEF IInv

\* A refused retry, a status update, a loss: no attempt is stored.
LEMMA QuietEndIInv ==
  ASSUME IInv, NEW o \in Operators, request[o].step # "idle",
         request' = [request EXCEPT ![o] = Idle],
         UNCHANGED <<createdAt, deliveries, messages, clock, received, overlapped>>,
         unrecorded' = (IF request[o].step = "reached" THEN unrecorded + 1 ELSE unrecorded),
         lost' \in 0..MaxLost, WriteStatus(o) \/ UNCHANGED <<status, moved>>
  PROVE  IInv'
<1>1. status' \in ClaimStatuses /\ moved' \in [Operators -> BOOLEAN] /\ Unmoved'
  BY WriteKeeps, StatusKept
<1>2. /\ NoNumberSkipped' /\ NumbersCount' /\ Texted' /\ Stamped' /\ Following' /\ Alone'
      /\ Len(deliveries') + Cardinality(Active') <= clock'
      /\ \A p \in Operators :
           request'[p].step \in Reading => request'[p].attempt \in 1..(Len(deliveries') + 1)
      /\ \A i \in DOMAIN deliveries' : deliveries'[i].attempt <= i
  BY QuietEnd
<1>3. Sent' = Sent /\ Cardinality(Sent) \in Nat
  BY SentFinite DEF Sent, IInv
<1>4. /\ request' \in [Operators -> Requests]
      /\ Cardinality(Active') = Cardinality(Active) - 1 /\ Cardinality(Active) \in Nat \ {0}
      /\ Cardinality(Reached') = IF request[o].step = "reached" THEN Cardinality(Reached) - 1
                                                               ELSE Cardinality(Reached)
      /\ Cardinality(Reached) \in Nat
  BY EndsKeeps, ActiveFinite
<1>5. /\ messages \in 0..MaxRequests /\ unrecorded \in 0..MaxRequests
      /\ clock \in 0..MaxRequests /\ received = Cardinality(Sent) + unrecorded + Cardinality(Reached)
      /\ messages = Cardinality(Sent) /\ messages + unrecorded + Cardinality(Active) <= clock
  BY DEF IInv, TypeOK, SendsAccounted, Metered, Reached
<1>6. messages' + unrecorded' + Cardinality(Active') <= clock'
  BY <1>4, <1>5
<1>7. unrecorded' \in 0..MaxRequests
  BY <1>4, <1>5, BoundAssumption
<1>8. SendsAccounted'
  <2>1. received' = Cardinality(Sent') + unrecorded' + Cardinality(Reached')
    BY <1>3, <1>4, <1>5
  <2> QED
    BY <1>3, <1>5, <2>1 DEF SendsAccounted, Reached
<1>9. TypeOK'
  BY <1>1, <1>4, <1>7 DEF IInv, TypeOK
<1>10. Metered'
  BY <1>2, <1>6 DEF Metered
<1> QED
  BY <1>1, <1>2, <1>8, <1>9, <1>10 DEF IInv

LEMMA EndIInv ==
  ASSUME IInv, NEW o \in Operators, RetryRefused(o) \/ CommitStatus(o) \/ Lost(o)
  PROVE  IInv'
<1>1. lost \in 0..MaxLost
  BY DEF IInv, TypeOK
<1>2. CASE RetryRefused(o)
  BY <1>1, <1>2, QuietEndIInv DEF RetryRefused, claim, history
<1>3. CASE CommitStatus(o)
  BY <1>1, <1>3, QuietEndIInv DEF CommitStatus
<1>4. CASE Lost(o)
  <2>1. lost' \in 0..MaxLost
    BY <1>1, <1>4, BoundAssumption DEF Lost
  <2> QED
    BY <1>4, <2>1, QuietEndIInv DEF Lost, claim
<1> QED
  BY <1>2, <1>3, <1>4

LEMMA BeganType ==
  ASSUME IInv
  PROVE  \A i \in DOMAIN deliveries : deliveries[i].began \in Nat /\ deliveries[i].began <= clock
<1> SUFFICES ASSUME NEW i \in DOMAIN deliveries
             PROVE  deliveries[i].began \in Nat /\ deliveries[i].began <= clock
  OBVIOUS
<1>1. deliveries[i] \in Attempts
  BY StampType DEF IInv
<1>2. deliveries[i].began \in Nat
  BY <1>1, BoundAssumption DEF Attempts
<1> QED
  BY <1>2 DEF IInv, Stamped

LEMMA BeginIInv ==
  ASSUME IInv, NEW o \in Operators, Begin(o)
  PROVE  IInv'
<1>1. PICK k \in Kinds, s \in ClaimStatuses :
        request' = [request EXCEPT ![o] = [Idle EXCEPT !.step = "begun", !.kind = k,
                                           !.began = clock', !.target = s]]
  BY DEF Begin
<1> DEFINE begun == [Idle EXCEPT !.step = "begun", !.kind = k, !.began = clock', !.target = s]
<1>2. /\ request[o].step = "idle" /\ clock < MaxRequests /\ clock' = clock + 1
      /\ overlapped' = (overlapped \/ \E p \in Operators \ {o} : request[p].step # "idle")
      /\ UNCHANGED <<createdAt, deliveries, messages, status, received, unrecorded, moved, lost>>
  BY DEF Begin, claim
<1>3. clock \in Nat /\ clock' \in 1..MaxRequests /\ request \in [Operators -> Requests]
  BY <1>2, BoundAssumption DEF IInv, TypeOK
<1>4. begun \in Requests /\ begun.step = "begun" /\ begun.began = clock'
  <2>1. clock' \in 0..MaxRequests /\ 0 \in 0..MaxRequests
    BY <1>3, BoundAssumption
  <2>2. \A c \in 0..MaxRequests :
          /\ [Idle EXCEPT !.step = "begun", !.kind = k, !.began = c, !.target = s] \in Requests
          /\ [Idle EXCEPT !.step = "begun", !.kind = k, !.began = c, !.target = s].step = "begun"
          /\ [Idle EXCEPT !.step = "begun", !.kind = k, !.began = c, !.target = s].began = c
    BY <2>1 DEF Idle, Requests, Texts, ClaimStatuses
  <2> QED
    BY <2>1, <2>2
<1> HIDE DEF begun
<1>5. /\ request' \in [Operators -> Requests] /\ request'[o] = begun
      /\ \A p \in Operators \ {o} : request'[p] = request[p]
  BY <1>1, <1>3, <1>4 DEF begun
<1>6. Active' = Active \cup {o} /\ o \notin Active /\ Reached' = Reached
  BY <1>2, <1>4, <1>5 DEF Active, Reached
<1>7. Cardinality(Active') = Cardinality(Active) + 1 /\ Cardinality(Active) \in Nat
  <2>1. Cardinality(Active \cup {o}) = Cardinality(Active) + 1
    BY <1>6, ActiveFinite, FS_AddElement
  <2> QED
    BY <1>6, <2>1, ActiveFinite
<1>8. begun.step \notin Reading
  BY <1>4 DEF Reading
<1>9. TypeOK'
  BY <1>2, <1>3, <1>5 DEF IInv, TypeOK
<1>10. SendsAccounted'
  <2>1. Sent' = Sent
    BY <1>2 DEF Sent
  <2> QED
    BY <1>2, <1>6, <2>1 DEF IInv, SendsAccounted, Reached
<1>11. NoNumberSkipped' /\ NumbersCount'
  BY <1>2 DEF IInv, NoNumberSkipped, NumbersCount
<1>12. Metered'
  <2>1. Len(deliveries) \in Nat /\ messages \in Nat /\ unrecorded \in Nat
    BY BoundAssumption DEF IInv, TypeOK
  <2>2. /\ Len(deliveries') + Cardinality(Active') <= clock'
        /\ messages' + unrecorded' + Cardinality(Active') <= clock'
    BY <1>2, <1>3, <1>7, <2>1 DEF IInv, Metered
  <2> QED
    BY <1>2, <1>5, <1>8, <2>2 DEF IInv, Metered
<1>13. Texted'
  <2>1. \A p \in Operators \ {o} : request[p].step # "idle" => request[p].began \in 1..clock'
    BY <1>2, <1>3 DEF IInv, Texted
  <2> QED
    BY <1>3, <1>4, <1>5, <2>1 DEF IInv, Texted
<1>14. \A p \in Active : request'[p] = request[p] /\ request[p].began < clock'
  BY <1>2, <1>3, <1>5, <1>6 DEF IInv, Texted, Active
<1>15. Stamped' /\ Alone'
  <2>1. ASSUME NEW i \in DOMAIN deliveries PROVE deliveries[i].began # clock'
    <3>1. deliveries[i].began <= clock
      BY DEF IInv, Stamped
    <3>2. deliveries[i].began \in Nat
      BY BeganType
    <3> QED
      BY <1>2, <1>3, <3>1, <3>2
  <2>2. \A p \in Active' : p \in Active \/ p = o
    BY <1>6
  <2>3. Stamped'
    <3>1. \A i \in DOMAIN deliveries : deliveries[i].began <= clock'
      BY <1>2, <1>3, BeganType
    <3>2. \A p \in Active : request'[p].began = request[p].began /\ request[p].began # clock'
      <4>1. ASSUME NEW p \in Active PROVE request[p].began # clock'
        <5>1. request[p].began \in Nat
          BY <1>3, BoundAssumption DEF Active, Requests
        <5> QED
          BY <1>3, <1>14, <5>1
      <4> QED
        BY <1>14, <4>1
    <3>3. request'[o].began = clock'
      BY <1>4, <1>5
    <3>4. Stamped
      BY DEF IInv
    <3>5. ASSUME NEW i \in DOMAIN deliveries, NEW p \in Active'
          PROVE  deliveries[i].began # request'[p].began
      BY <2>1, <2>2, <3>2, <3>3, <3>4 DEF Stamped
    <3>6. ASSUME NEW p \in Active', NEW q \in Active', p # q
          PROVE  request'[p].began # request'[q].began
      BY <2>2, <3>2, <3>3, <3>4, <3>6 DEF Stamped
    <3>7. deliveries' = deliveries
      BY <1>2
    <3> QED
      BY <3>1, <3>4, <3>5, <3>6, <3>7 DEF Stamped
  <2>4. ASSUME ~overlapped' PROVE Active = {} /\ ~overlapped
    BY <1>2, <2>4 DEF Active
  <2>5. ASSUME NEW i \in DOMAIN deliveries PROVE deliveries[i].began < clock'
    <3>1. deliveries[i].began <= clock /\ deliveries[i].began \in Nat
      BY BeganType
    <3> QED
      BY <1>2, <1>3, <3>1
  <2>6. Alone'
    BY <1>2, <1>4, <1>5, <1>8, <2>2, <2>4, <2>5 DEF IInv, Alone
  <2> QED
    BY <2>3, <2>6
<1>16. Unmoved' /\ Following'
  BY <1>2, <1>5, <1>8 DEF IInv, Unmoved, Following
<1> QED
  BY <1>9, <1>10, <1>11, <1>12, <1>13, <1>15, <1>16 DEF IInv

\* The number that a request without competition takes is the next one.
LEMMA LastIsFirst ==
  ASSUME IInv, ~overlapped
  PROVE  NextAttemptNo = Len(deliveries) + 1
<1>1. /\ DOMAIN deliveries = 1..Len(deliveries) /\ Len(deliveries) \in Nat
      /\ deliveries = <<>> <=> Len(deliveries) = 0
  <2>1. deliveries \in Seq(Attempts)
    BY DEF IInv, TypeOK
  <2> QED
    BY <2>1
<1>2. CASE deliveries = <<>>
  BY <1>1, <1>2 DEF NextAttemptNo
<1>3. CASE deliveries # <<>>
  <2> DEFINE k == First(DOMAIN deliveries)
             n == Len(deliveries)
  <2>1. n \in DOMAIN deliveries
    BY <1>1, <1>3
  <2>2. k \in DOMAIN deliveries /\ Stamp(n) <= Stamp(k)
    BY <2>1, FirstOf DEF IInv
  <2> HIDE DEF k
  <2>3. k \in 1..n /\ n \in Nat
    BY <1>1, <2>2
  <2>4. ~(k < n)
    <3>1. CASE createdAt = "begin"
      <4>1. deliveries[n].began <= deliveries[k].began
        BY <2>2, <3>1 DEF Stamp
      <4>2. k < n => deliveries[k].began < deliveries[n].began
        BY <2>1, <2>2 DEF IInv, Alone
      <4> QED
        BY <2>1, <2>2, <4>1, <4>2, BeganType
    <3>2. CASE createdAt # "begin"
      <4>1. n <= k
        BY <2>2, <3>2 DEF Stamp
      <4> QED
        BY <2>3, <4>1
    <3> QED
      BY <3>1, <3>2
  <2>5. k = n
    BY <2>3, <2>4
  <2>6. deliveries[n].attempt = n
    BY <2>1 DEF IInv, NumbersCount
  <2> QED
    BY <1>3, <2>5, <2>6 DEF NextAttemptNo, k
<1> QED
  BY <1>2, <1>3

LEMMA ReadIInv ==
  ASSUME IInv, NEW o \in Operators, NEW body \in Texts, ReadClaim(o, body),
         request[o].kind # "status" => body \in Bodies
  PROVE  IInv'
<1> DEFINE next == [request[o] EXCEPT
                      !.step = IF request[o].kind = "status" THEN "deciding" ELSE "sending",
                      !.body = body, !.attempt = NextAttemptNo, !.seen = status]
<1>1. /\ request[o].step = "begun" /\ moved' = [moved EXCEPT ![o] = FALSE]
      /\ request' = [request EXCEPT
           ![o].step = IF request[o].kind = "status" THEN "deciding" ELSE "sending",
           ![o].body = body, ![o].attempt = NextAttemptNo, ![o].seen = status]
      /\ UNCHANGED <<createdAt, deliveries, messages, status, clock, received, unrecorded,
                     overlapped, lost>>
  BY DEF ReadClaim, claim
<1>2. request \in [Operators -> Requests] /\ moved \in [Operators -> BOOLEAN] /\ status \in ClaimStatuses
  BY DEF IInv, TypeOK
<1>3. NextAttemptNo \in 0..MaxRequests /\ NextAttemptNo \in 1..(Len(deliveries) + 1)
  <2>1. o \in Active
    BY <1>1 DEF Active
  <2>2. Cardinality(Active) \in Nat \ {0}
    BY <2>1, ActiveFinite, FS_EmptySet
  <2>3. Len(deliveries) \in Nat /\ clock \in Nat /\ clock <= MaxRequests
    BY BoundAssumption DEF IInv, TypeOK
  <2>4. Len(deliveries) + 1 <= MaxRequests
    BY <2>2, <2>3, BoundAssumption DEF IInv, Metered
  <2>5. NextAttemptNo \in 1..(Len(deliveries) + 1)
    BY NextNo DEF IInv
  <2> QED
    BY <2>3, <2>4, <2>5, BoundAssumption
<1>4. request'[o] = next /\ \A p \in Operators \ {o} : request'[p] = request[p]
  BY <1>1, <1>2
<1>5. /\ next \in Requests /\ next.step \in {"sending", "deciding"} /\ next.body = body
      /\ next.attempt = NextAttemptNo /\ next.seen = status /\ next.began = request[o].began
      /\ next.step = "sending" => request[o].kind # "status"
  <2>1. request[o] \in Requests
    BY <1>2
  <2>2. ASSUME NEW t \in {"sending", "deciding"}, NEW r,
               r = [request[o] EXCEPT !.step = t, !.body = body, !.attempt = NextAttemptNo,
                                      !.seen = status]
        PROVE  /\ r \in Requests /\ r.step = t /\ r.body = body /\ r.attempt = NextAttemptNo
               /\ r.seen = status /\ r.began = request[o].began
    BY <1>2, <1>3, <2>1, <2>2 DEF Requests
  <2> DEFINE st == IF request[o].kind = "status" THEN "deciding" ELSE "sending"
  <2>3. st \in {"sending", "deciding"} /\ (st = "sending" => request[o].kind # "status")
    OBVIOUS
  <2>4. next = [request[o] EXCEPT !.step = st, !.body = body, !.attempt = NextAttemptNo,
                                  !.seen = status]
    OBVIOUS
  <2> HIDE DEF st, next
  <2> QED
    BY <1>3, <2>2, <2>3, <2>4
<1> HIDE DEF next
<1>6. request' \in [Operators -> Requests]
  <2>1. \A p \in Operators : request'[p] \in Requests
    BY <1>2, <1>4, <1>5
  <2>2. request' = [p \in Operators |-> request'[p]]
    BY <1>1, <1>2
  <2> QED
    BY <2>1, <2>2
<1>7. Active' = Active /\ Reached' = Reached
  BY <1>1, <1>4, <1>5 DEF Active, Reached
<1>8. TypeOK'
  <2>1. moved' \in [Operators -> BOOLEAN]
    BY <1>1, <1>2
  <2> QED
    BY <1>1, <1>6, <2>1 DEF IInv, TypeOK
<1>9. SendsAccounted'
  <2>1. Sent' = Sent
    BY <1>1 DEF Sent
  <2> QED
    BY <1>1, <1>7, <2>1 DEF IInv, SendsAccounted, Reached
<1>10. NoNumberSkipped' /\ NumbersCount'
  BY <1>1 DEF IInv, NoNumberSkipped, NumbersCount
<1>11. Metered'
  BY <1>1, <1>3, <1>4, <1>5, <1>7 DEF IInv, Metered
<1>12. Texted'
  BY <1>1, <1>4, <1>5 DEF IInv, Texted
<1>13. Stamped'
  <2>1. \A p \in Active : request'[p].began = request[p].began
    BY <1>4, <1>5 DEF Active
  <2>2. Stamped /\ deliveries' = deliveries /\ clock' = clock
    BY <1>1 DEF IInv
  <2> QED
    BY <1>7, <2>1, <2>2 DEF Stamped
<1>14. Unmoved'
  BY <1>1, <1>2, <1>4, <1>5 DEF IInv, Unmoved
<1>15. Following'
  <2>1. NextAttemptNo > 1 =>
          \E k \in DOMAIN deliveries : deliveries[k].attempt = NextAttemptNo - 1
    BY NextNo DEF IInv
  <2>2. deliveries' = deliveries /\ Following
    BY <1>1 DEF IInv
  <2>3. ASSUME NEW p \in Operators, request'[p].step \in Reading, request'[p].attempt > 1
        PROVE  \E k \in DOMAIN deliveries : deliveries[k].attempt = request'[p].attempt - 1
    <3>1. CASE p = o
      BY <1>4, <1>5, <2>1, <2>3, <3>1
    <3>2. CASE p # o
      BY <1>4, <2>2, <2>3, <3>2 DEF Following
    <3> QED
      BY <3>1, <3>2
  <2> QED
    BY <2>2, <2>3 DEF Following
<1>16. Alone'
  <2>1. \A p \in Active : request'[p].began = request[p].began
    BY <1>4, <1>5 DEF Active
  <2>2. ~overlapped => NextAttemptNo = Len(deliveries) + 1
    BY LastIsFirst
  <2>3. \A p \in Active : p = o \/ request'[p] = request[p]
    BY <1>4 DEF Active
  <2> QED
    BY <1>1, <1>4, <1>5, <1>7, <2>1, <2>2, <2>3 DEF IInv, Alone
<1> QED
  BY <1>8, <1>9, <1>10, <1>11, <1>12, <1>13, <1>14, <1>15, <1>16 DEF IInv

LEMMA ReachIInv ==
  ASSUME IInv, NEW o \in Operators, Reach(o)
  PROVE  IInv'
<1> DEFINE next == [request[o] EXCEPT !.step = "reached"]
<1>1. /\ request[o].step = "sending" /\ request' = [request EXCEPT ![o].step = "reached"]
      /\ received' = received + 1
      /\ UNCHANGED <<createdAt, deliveries, messages, status, clock, unrecorded, overlapped, moved,
                     lost>>
  BY DEF Reach, claim
<1>2. request \in [Operators -> Requests]
  BY DEF IInv, TypeOK
<1>3. request'[o] = next /\ \A p \in Operators \ {o} : request'[p] = request[p]
  BY <1>1, <1>2
<1>4. /\ next \in Requests /\ next.step = "reached" /\ next.body = request[o].body
      /\ next.attempt = request[o].attempt /\ next.seen = request[o].seen
      /\ next.began = request[o].began
  BY <1>2 DEF Requests
<1> HIDE DEF next
<1>5. request' \in [Operators -> Requests]
  BY <1>1, <1>2, <1>3, <1>4
<1>6. Active' = Active /\ Reached' = Reached \cup {o} /\ o \notin Reached /\ o \in Active
  BY <1>1, <1>3, <1>4 DEF Active, Reached
<1>7. Cardinality(Reached') = Cardinality(Reached) + 1 /\ Cardinality(Reached) \in Nat
  BY <1>6, ActiveFinite, FS_AddElement
<1>8. Cardinality(Reached') <= Cardinality(Active)
  <2>1. Reached' \subseteq Active
    BY <1>6 DEF Reached, Active
  <2> QED
    BY <2>1, ActiveFinite, FS_Subset
<1>9. /\ messages \in Nat /\ unrecorded \in Nat /\ clock \in Nat /\ clock <= MaxRequests
      /\ received = messages + unrecorded + Cardinality(Reached) /\ messages = Cardinality(Sent)
      /\ messages + unrecorded + Cardinality(Active) <= clock
  BY BoundAssumption DEF IInv, TypeOK, SendsAccounted, Metered, Reached
<1>10. received' \in 0..MaxRequests
  <2>1. received' = messages + unrecorded + Cardinality(Reached')
    BY <1>1, <1>7, <1>9
  <2>2. messages + unrecorded + Cardinality(Reached') <= MaxRequests
    BY <1>7, <1>8, <1>9, ActiveFinite, BoundAssumption
  <2> QED
    BY <1>7, <1>9, <2>1, <2>2, BoundAssumption
<1>11. TypeOK'
  BY <1>1, <1>5, <1>10 DEF IInv, TypeOK
<1>12. SendsAccounted'
  <2>1. Sent' = Sent
    BY <1>1 DEF Sent
  <2>2. received' = messages + unrecorded + Cardinality(Reached')
    BY <1>1, <1>7, <1>9
  <2> QED
    BY <1>1, <1>9, <2>1, <2>2 DEF SendsAccounted, Reached
<1>13. NoNumberSkipped' /\ NumbersCount'
  BY <1>1 DEF IInv, NoNumberSkipped, NumbersCount
<1>14. Metered'
  BY <1>1, <1>3, <1>4, <1>6 DEF IInv, Metered, Reading
<1>15. Texted'
  BY <1>1, <1>3, <1>4 DEF IInv, Texted
<1>16. \A p \in Active : request'[p].began = request[p].began
  BY <1>3, <1>4 DEF Active
<1>17. Stamped'
  BY <1>1, <1>6, <1>16 DEF IInv, Stamped
<1>18. Unmoved' /\ Following'
  BY <1>1, <1>3, <1>4 DEF IInv, Unmoved, Following, Reading
<1>19. Alone'
  <2>1. \A p \in Active : p = o \/ request'[p] = request[p]
    BY <1>3 DEF Active
  <2> QED
    BY <1>1, <1>3, <1>4, <1>6, <1>16, <2>1 DEF IInv, Alone, Reading
<1> QED
  BY <1>11, <1>12, <1>13, <1>14, <1>15, <1>17, <1>18, <1>19 DEF IInv

LEMMA ReadsIInv ==
  ASSUME IInv, NEW o \in Operators, ReadToSend(o) \/ ReadToRetry(o) \/ ReadToSetStatus(o)
  PROVE  IInv'
<1>1. CASE ReadToSend(o)
  BY <1>1, ReadIInv DEF ReadToSend, Texts
<1>2. CASE ReadToRetry(o)
  <2>1. Failed # {} /\ ReadClaim(o, deliveries[FailedToRetry].body)
    BY <1>2 DEF ReadToRetry
  <2>2. FailedToRetry \in DOMAIN deliveries
    BY <2>1, FirstOf DEF FailedToRetry, Failed, IInv
  <2>3. deliveries[FailedToRetry] \in Attempts
    BY <2>2, StampType DEF IInv
  <2>4. deliveries[FailedToRetry].body \in Bodies
    BY <2>3 DEF Attempts
  <2> QED
    BY <2>1, <2>4, ReadIInv DEF Texts
<1>3. CASE ReadToSetStatus(o)
  BY <1>3, ReadIInv DEF ReadToSetStatus, Texts
<1> QED
  BY <1>1, <1>2, <1>3

LEMMA InitIInv == Init => IInv
<1> SUFFICES ASSUME Init PROVE IInv
  OBVIOUS
<1>1. /\ deliveries = <<>> /\ request = [o \in Operators |-> Idle] /\ clock = 0 /\ messages = 0
      /\ received = 0 /\ unrecorded = 0 /\ status = "in_review" /\ lost = 0 /\ overlapped = FALSE
      /\ moved = [o \in Operators |-> FALSE] /\ createdAt \in {"begin", "insert"}
  BY DEF Init
<1>2. Idle \in Requests /\ Idle.step = "idle"
  BY BoundAssumption DEF Idle, Requests, Texts, Kinds, ClaimStatuses
<1>3. Active = {} /\ Reached = {} /\ DOMAIN deliveries = {} /\ Sent = {} /\ Len(deliveries) = 0
  BY <1>1, <1>2 DEF Active, Reached, Sent
<1>4. Cardinality(Active) = 0 /\ Cardinality(Reached) = 0 /\ Cardinality(Sent) = 0
  BY <1>3, FS_EmptySet
<1>5. TypeOK
  <2>1. 0 \in 0..MaxRequests /\ 0 \in 0..MaxLost
    BY BoundAssumption
  <2>2. deliveries \in Seq(Attempts)
    BY <1>1
  <2>3. request \in [Operators -> Requests] /\ moved \in [Operators -> BOOLEAN]
    BY <1>1, <1>2
  <2> QED
    BY <1>1, <2>1, <2>2, <2>3 DEF TypeOK, ClaimStatuses
<1>6. SendsAccounted
  BY <1>1, <1>4 DEF SendsAccounted, Reached
<1>7. \A o \in Operators : request[o].step = "idle"
  BY <1>1, <1>2
<1> QED
  BY <1>1, <1>3, <1>4, <1>5, <1>6, <1>7 DEF IInv, NoNumberSkipped, NumbersCount, Metered, Texted,
     Stamped, Unmoved, Following, Alone, Reading

LEMMA StutterIInv ==
  ASSUME IInv, UNCHANGED vars
  PROVE  IInv'
<1>1. UNCHANGED <<createdAt, deliveries, messages, status, request, clock, received, unrecorded,
                  overlapped, moved, lost>>
  BY DEF vars, claim, history
<1> QED
  BY <1>1 DEF IInv, TypeOK, SendsAccounted, NoNumberSkipped, NumbersCount, Metered, Texted,
              Stamped, Unmoved, Following, Alone, Active, Sent

LEMMA Invariance == Spec => []IInv
<1>1. IInv /\ [Next]_vars => IInv'
  <2> SUFFICES ASSUME IInv, [Next]_vars PROVE IInv'
    OBVIOUS
  <2>1. ASSUME NEW o \in Operators, Begin(o) PROVE IInv'
    BY <2>1, BeginIInv
  <2>2. ASSUME NEW o \in Operators, ReadToSend(o) \/ ReadToRetry(o) \/ ReadToSetStatus(o)
        PROVE  IInv'
    BY <2>2, ReadsIInv
  <2>3. ASSUME NEW o \in Operators, Reach(o) PROVE IInv'
    BY <2>3, ReachIInv
  <2>4. ASSUME NEW o \in Operators, RecordSent(o) PROVE IInv'
    BY <2>4, RecordSentIInv
  <2>5. ASSUME NEW o \in Operators, RecordFailed(o) PROVE IInv'
    BY <2>5, RecordFailedIInv
  <2>6. ASSUME NEW o \in Operators, RetryRefused(o) \/ CommitStatus(o) \/ Lost(o) PROVE IInv'
    BY <2>6, EndIInv
  <2>7. CASE UNCHANGED vars
    BY <2>7, StutterIInv
  <2> QED
    BY <2>1, <2>2, <2>3, <2>4, <2>5, <2>6, <2>7 DEF Next
<1> QED
  BY <1>1, InitIInv, PTL DEF Spec

-----------------------------------------------------------------------------
\* Requests, attempts and counters keep their types, and no attempt number exceeds the number
\* of requests.
THEOREM TypeCorrect == Spec => []TypeOK
<1>1. IInv => TypeOK
  BY DEF IInv
<1> QED
  BY <1>1, Invariance, PTL

\* However operators race, fail and lose requests, every text that went out is shown as sent,
\* or is known to be unrecorded, or belongs to a request that has not ended.
THEOREM EverySendAccounted == Spec => []SendsAccounted
<1>1. IInv => SendsAccounted
  BY DEF IInv
<1> QED
  BY <1>1, Invariance, PTL

\* Racing operators may share attempt numbers, but never skip one.
THEOREM NumbersHaveNoGap == Spec => []NoNumberSkipped
<1>1. IInv => NoNumberSkipped
  BY DEF IInv
<1> QED
  BY <1>1, Invariance, PTL

\* One operator at a time gets the numbers 1, 2, 3 and so on, whatever fails in between.
THEOREM OneByOneTheyCount == Spec => []NumbersCount
<1>1. IInv => NumbersCount
  BY DEF IInv
<1> QED
  BY <1>1, Invariance, PTL

\* The retry that the summary offers sends the text of the attempt it shows as the latest.
THEOREM OfferIsKept == Spec => RetrySendsWhatIsOffered
<1>1. IInv =>
        \A o \in Operators :
          ReadToRetry(o) /\ CanRetryDelivery
            => request'[o].body = deliveries[First(DOMAIN deliveries)].body
  <2> SUFFICES ASSUME IInv, NEW o \in Operators, ReadToRetry(o), CanRetryDelivery
               PROVE  request'[o].body = deliveries[First(DOMAIN deliveries)].body
    OBVIOUS
  <2> DEFINE k == First(DOMAIN deliveries)
             j == First(Failed)
  <2>1. Failed # {} /\ Failed \subseteq DOMAIN deliveries
    BY DEF ReadToRetry, Failed
  <2>2. k \in DOMAIN deliveries /\ \A i \in DOMAIN deliveries : Stamp(i) <= Stamp(k)
    BY <2>1, FirstOf DEF IInv
  <2>3. j \in Failed /\ \A i \in Failed : Stamp(i) <= Stamp(j)
    BY <2>1, FirstOf DEF IInv
  <2> HIDE DEF k, j
  <2>4. k \in Failed
    BY <2>2 DEF CanRetryDelivery, Failed, k
  <2>5. Stamp(j) = Stamp(k)
    <3>1. Stamp(j) \in Nat /\ Stamp(k) \in Nat
      BY <2>1, <2>2, <2>3, StampType DEF IInv
    <3>2. Stamp(j) <= Stamp(k) /\ Stamp(k) <= Stamp(j)
      BY <2>1, <2>2, <2>3, <2>4
    <3> QED
      BY <3>1, <3>2
  <2>6. j = k
    <3>1. CASE createdAt = "begin"
      BY <2>1, <2>2, <2>3, <2>5, <3>1 DEF Stamp, IInv, Stamped
    <3>2. CASE createdAt # "begin"
      BY <2>5, <3>2 DEF Stamp
    <3> QED
      BY <3>1, <3>2
  <2>7. ReadClaim(o, deliveries[j].body)
    BY DEF ReadToRetry, FailedToRetry, j
  <2>8. request'[o].body = deliveries[j].body
    <3>1. request[o] \in Requests /\ request \in [Operators -> Requests]
      BY DEF IInv, TypeOK
    <3>2. request'[o] = [request[o] EXCEPT
            !.step = IF request[o].kind = "status" THEN "deciding" ELSE "sending",
            !.body = deliveries[j].body, !.attempt = NextAttemptNo, !.seen = status]
      BY <2>7, <3>1 DEF ReadClaim
    <3> QED
      BY <3>1, <3>2 DEF Requests
  <2> QED
    BY <2>6, <2>8 DEF k
<1> QED
  BY <1>1, Invariance, PTL DEF RetrySendsWhatIsOffered, Spec

\* A reply that closes the claim leaves it closed, unless another request has changed the
\* status since this one had read it.
THEOREM ClosedOrMoved == Spec => ClosedUnlessMoved
<1>1. IInv =>
        \A o \in Operators :
          RecordSent(o) /\ request[o].target = "done" => status' = "done" \/ moved[o]
  BY DEF IInv, Unmoved, Reading, RecordSent, WriteStatus, StatusWritten
<1> QED
  BY <1>1, Invariance, PTL DEF ClosedUnlessMoved, Spec

\* Where requests never overlap, nobody changes the status under one that has read it.
Undisturbed ==
  ~overlapped => \A o \in Operators : request[o].step \in Reading => ~moved[o]

LEMMA UndisturbedStep == IInv /\ Undisturbed /\ [Next]_vars => Undisturbed'
<1> SUFFICES ASSUME IInv, Undisturbed, [Next]_vars, ~overlapped',
                    NEW p \in Operators, request'[p].step \in Reading
             PROVE  ~moved'[p]
  BY DEF Undisturbed
<1>a. request \in [Operators -> Requests] /\ moved \in [Operators -> BOOLEAN]
  BY DEF IInv, TypeOK
<1>b. Idle.step \notin Reading
  BY DEF Idle, Reading
<1>1. ASSUME NEW o \in Operators, Begin(o) PROVE ~moved'[p]
  <2>1. ~overlapped /\ moved' = moved /\ request' = [request EXCEPT ![o] = request'[o]]
    BY <1>a, <1>1 DEF Begin
  <2>2. request'[o].step = "begun"
    BY <1>a, <1>1 DEF Begin, Idle
  <2>3. p # o /\ request'[p] = request[p]
    BY <1>a, <2>1, <2>2 DEF Reading
  <2> QED
    BY <2>1, <2>3 DEF Undisturbed
<1>2. ASSUME NEW o \in Operators, NEW b, ReadClaim(o, b) PROVE ~moved'[p]
  <2>1. moved' = [moved EXCEPT ![o] = FALSE] /\ \A q \in Operators : q # o => request'[q] = request[q]
    BY <1>a, <1>2 DEF ReadClaim
  <2> QED
    BY <1>a, <1>2, <2>1 DEF ReadClaim, Undisturbed
<1>3. ASSUME NEW o \in Operators, Reach(o) PROVE ~moved'[p]
  <2>1. request[p].step \in Reading
    BY <1>a, <1>3 DEF Reach, Reading, Requests
  <2> QED
    BY <1>3, <2>1 DEF Reach, Undisturbed
<1>4. ASSUME NEW o \in Operators, RecordSent(o) \/ RecordFailed(o) \/ RetryRefused(o)
                                  \/ CommitStatus(o) \/ Lost(o)
      PROVE  ~moved'[p]
  <2>1. ~overlapped /\ request' = [request EXCEPT ![o] = Idle] /\ request[o].step # "idle"
    BY <1>4 DEF RecordSent, RecordFailed, RetryRefused, CommitStatus, Lost, history
  <2>2. p # o /\ request'[p] = request[p]
    BY <1>a, <1>b, <2>1
  <2> QED
    BY <2>1, <2>2 DEF IInv, Alone, Active, Reading
<1>5. CASE UNCHANGED vars
  BY <1>5 DEF vars, history, Undisturbed
<1> QED
  BY <1>1, <1>2, <1>3, <1>4, <1>5 DEF Next, ReadToSend, ReadToRetry, ReadToSetStatus

\* The claim has the status that a request has asked for when it commits, and a reply sent with
\* mark_done leaves it closed, as the page reports, as long as no two requests for the claim have
\* overlapped: the finding of reply_closed needs a race (send_claim_reply, update_claim_status).
THEOREM SetAsAskedAlone ==
  Spec => [][\A o \in Operators :
               /\ CommitStatus(o) \/ (RecordSent(o) /\ request[o].target = "done")
               /\ ~overlapped
               => status' = request[o].target]_vars
<1>1. IInv /\ Undisturbed =>
        \A o \in Operators :
          /\ CommitStatus(o) \/ (RecordSent(o) /\ request[o].target = "done")
          /\ ~overlapped
          => status' = request[o].target
  <2> SUFFICES ASSUME IInv, Undisturbed, ~overlapped, NEW o \in Operators,
                      CommitStatus(o) \/ (RecordSent(o) /\ request[o].target = "done")
               PROVE  status' = request[o].target
    OBVIOUS
  <2>1. request[o].step \in Reading /\ WriteStatus(o)
    BY DEF CommitStatus, RecordSent, Reading
  <2>2. request[o].seen = status
    BY <2>1 DEF IInv, Unmoved, Undisturbed
  <2> QED
    BY <2>1, <2>2 DEF WriteStatus, StatusWritten
<1>2. Init => Undisturbed
  BY DEF Init, Undisturbed
<1> QED
  BY <1>1, <1>2, UndisturbedStep, Invariance, PTL DEF Spec
=============================================================================
