----------------------- MODULE Cafe24ConnectionProofs -----------------------
(***************************************************************************)
(* What the runs of Cafe24Connection show of four flows, for any number of *)
(* them.  The type invariant is strengthened by what a flow holds at each  *)
(* of its steps (Held) and by a count of the grants (Counted); the token   *)
(* invariant by the fact that a granted refresh token is nowhere else      *)
(* until it is stored (Fresh); the outcome by the facts that a flow which  *)
(* nobody has overtaken has an exact copy of the row (Exact) and that no   *)
(* copy has the batch of a sync that is still to end (Unused).             *)
(***************************************************************************)
EXTENDS Cafe24Connection, FiniteSetTheorems, TLAPS

RowType == [result : Results, batch : Batches, connected : BOOLEAN, access : Nat, refresh : Nat]
SyncType == [result : Outcomes \cup {"none"}, batch : Batches]
Steps == {"ready", "insert", "ask", "store", "orders", "claims", "mark", "done"}
Working == {"ask", "store", "orders", "claims", "mark"}
FlowType == [kind : AllKinds \cup {"none"}, step : Steps, copy : {NoRow} \cup RowType,
             access : Nat, refresh : Nat, expired : BOOLEAN, late : BOOLEAN]

Typed ==
  /\ service \in {"rotating", "reusable", "none"}
  /\ granted \in Nat
  /\ spent \subseteq Nat /\ expired \subseteq Nat /\ lost \subseteq Nat
  /\ row \in {NoRow} \cup RowType
  /\ flow \in [Flows -> FlowType]
  /\ latest \in SyncType /\ muddled \in BOOLEAN

\* What flow f has in hand at its step.
HeldBy(f) ==
  /\ flow[f].step \in Working => row # NoRow /\ flow[f].copy # NoRow
  /\ flow[f].step = "insert" => flow[f].copy = NoRow /\ ~flow[f].late
  /\ flow[f].step = "insert" => flow[f].kind \in {"callback", "mock", "page"}
  /\ flow[f].step \in {"ready", "insert", "ask"} => flow[f].access = 0 /\ flow[f].refresh = 0
  /\ flow[f].expired => flow[f].step = "claims"
  /\ flow[f].step \in {"ask", "store"} /\ flow[f].kind # "callback" => flow[f].copy.refresh # 0

Held == \A f \in Flows : HeldBy(f)

Served == {f \in Flows : flow[f].step \notin {"ready", "insert", "ask"}}
Counted == granted <= Cardinality(Served)

-----------------------------------------------------------------------------
\* Types

\* A commit leaves the types alone if what it writes and what the flow becomes have theirs.
LEMMA CommitTyped ==
  ASSUME Typed, NEW f \in Flows, NEW assigned, NEW next \in FlowType,
         Written(f, assigned) \in RowType, Commit(f, assigned, next)
  PROVE  row' \in RowType /\ flow' \in [Flows -> FlowType]
<1>1. row' \in RowType
  BY DEF Commit
<1>2. ASSUME NEW g \in Flows
      PROVE  flow'[g] \in FlowType
  <2> DEFINE l == flow[g].late \/ (Written(f, assigned) # row /\ flow[g].copy # NoRow)
  <2>1. l \in BOOLEAN
    OBVIOUS
  <2>2. flow'[g] = IF g = f THEN next ELSE [flow[g] EXCEPT !.late = l]
    BY DEF Commit
  <2>3. flow[g] \in FlowType
    BY DEF Typed
  <2> HIDE DEF l
  <2> QED
    BY <2>1, <2>2, <2>3 DEF FlowType
<1>3. DOMAIN flow' = Flows /\ flow' = [g \in Flows |-> flow'[g]]
  BY DEF Commit
<1> QED
  BY <1>1, <1>2, <1>3

\* What a sync may assign when it ends.
Endings(f) == {Completed(f), Mocked(f), [result |-> "live_failed"]}

LEMMA OwnBatch ==
  ASSUME NEW f \in Flows
  PROVE  /\ Batch("live", f) \in Batches /\ Batch("mock", f) \in Batches /\ NoBatch \in Batches
         /\ NoBatch # Batch("live", f) /\ NoBatch # Batch("mock", f)
BY DEF Batches, NoBatch, Batch

\* A row that is written from a real row and a real copy is a real row.
LEMMA WrittenTyped ==
  ASSUME Typed, NEW f \in Flows, row # NoRow, flow[f].copy # NoRow
  PROVE  /\ Written(f, Tokens(f)) \in RowType
         /\ \A assigned \in Endings(f) : Written(f, assigned) \in RowType
<1>1. row \in RowType /\ flow[f].copy \in RowType
  BY DEF Typed, FlowType
<1>2. flow[f].access \in Nat /\ flow[f].refresh \in Nat
  BY DEF Typed, FlowType
<1>3. Written(f, Tokens(f)) \in RowType
  BY <1>1, <1>2 DEF Written, Tokens, RowType, Results
<1>4. ASSUME NEW assigned \in Endings(f)
      PROVE  Written(f, assigned) \in RowType
  BY <1>1, <1>4, OwnBatch DEF Endings, Written, Completed, Mocked, RowType, Results
<1> QED
  BY <1>3, <1>4

LEMMA SyncEnds ==
  ASSUME NEW f \in Flows, SyncCompletes(f) \/ SyncFails(f) \/ MockMarks(f)
  PROVE  /\ flow[f].step \in {"orders", "claims", "mark"}
         /\ \E assigned \in Endings(f) : End(f, assigned)
BY DEF SyncCompletes, SyncFails, MockMarks, Endings

LEMMA EndTyped ==
  ASSUME Typed, NEW f \in Flows, row # NoRow, flow[f].copy # NoRow,
         NEW assigned \in Endings(f), End(f, assigned)
  PROVE  Typed'
<1>1. Ended \in FlowType
  BY DEF Ended, Waiting, FlowType, Steps, AllKinds
<1>2. row' \in RowType /\ flow' \in [Flows -> FlowType]
  BY <1>1, WrittenTyped, CommitTyped DEF End
<1>3. latest' \in SyncType
  BY OwnBatch DEF Typed, SyncType, End, Endings, Completed, Mocked, Outcomes
<1>4. muddled' \in BOOLEAN
  BY DEF End
<1> QED
  BY <1>2, <1>3, <1>4 DEF Typed, End, server

LEMMA StepTyped ==
  ASSUME Typed, Held, NEW f \in Flows, Step(f)
  PROVE  Typed'
<1> USE DEF Typed, FlowType, Steps, AllKinds, server
<1>a. Waiting \in FlowType /\ Ended \in FlowType /\ flow[f] \in FlowType /\ NewRow \in RowType
  BY OwnBatch DEF Waiting, Ended, NewRow, NoRow, RowType, Results
<1>b. ASSUME NEW next \in FlowType, Becomes(f, next)
      PROVE  flow' \in [Flows -> FlowType]
  BY <1>b DEF Becomes
<1>c. row # NoRow => row \in RowType /\ row.refresh \in Nat
  BY DEF RowType
<1>d. flow[f].step \in Working => row # NoRow /\ flow[f].copy # NoRow
  BY DEF Held, HeldBy
<1>1. CASE CallbackLookup(f) \/ MockLookup(f) \/ PageLookup(f)
  <2>1. PICK kind \in AllKinds, step \in Steps : Lookup(f, kind, step)
    BY <1>1 DEF CallbackLookup, MockLookup, PageLookup
  <2>2. [Waiting EXCEPT !.kind = kind] \in FlowType
    BY <1>a
  <2>3. /\ [[Waiting EXCEPT !.kind = kind] EXCEPT !.step = "insert"] \in FlowType
        /\ [[Waiting EXCEPT !.kind = kind] EXCEPT !.step = step, !.copy = row] \in FlowType
    BY <2>2
  <2>4. flow' \in [Flows -> FlowType]
    BY <1>b, <2>1, <2>3 DEF Lookup
  <2> QED
    BY <2>1, <2>4 DEF Lookup
<1>2. CASE RefreshLoad(f)
  BY <1>2, <1>a DEF RefreshLoad, Becomes
<1>3. CASE Insert(f)
  <2>1. row' \in RowType
    BY <1>3, <1>a DEF Insert
  <2>2. flow' \in [Flows -> FlowType]
    <3>1. After(flow[f].kind) \in Steps
      BY DEF After
    <3>2. [At(f, After(flow[f].kind)) EXCEPT !.copy = row'] \in FlowType
      BY <1>a, <2>1, <3>1 DEF At
    <3>3. row' = IF row = NoRow THEN NewRow ELSE row
      BY <1>3 DEF Insert
    <3> QED
      BY <1>3, <1>a, <1>b, <3>2, <3>3 DEF Insert
  <2> QED
    BY <1>3, <2>1, <2>2 DEF Insert
<1>4. CASE Grant(f)
  <2>1. spent' \subseteq Nat
    BY <1>4, <1>a, <1>d DEF Grant, Replaced, Working, RowType
  <2>2. flow' \in [Flows -> FlowType]
    <3>1. \E r \in {0, granted + 1} :
            Becomes(f, [At(f, "store") EXCEPT !.access = granted + 1, !.refresh = r])
      BY <1>4 DEF Grant
    <3>2. PICK r \in {0, granted + 1} :
            Becomes(f, [At(f, "store") EXCEPT !.access = granted + 1, !.refresh = r])
      BY <3>1
    <3>3. [At(f, "store") EXCEPT !.access = granted + 1, !.refresh = r] \in FlowType
      <4>1. r \in Nat /\ granted + 1 \in Nat
        OBVIOUS
      <4> QED
        BY <1>a, <4>1 DEF At
    <3> QED
      BY <1>b, <3>2, <3>3
  <2> QED
    BY <1>4, <2>1, <2>2 DEF Grant
<1>5. CASE StoreTokens(f)
  <2>1. Written(f, Tokens(f)) \in RowType
    BY <1>5, <1>d, WrittenTyped DEF StoreTokens, Working
  <2>2. [At(f, "orders") EXCEPT !.copy = Written(f, Tokens(f)), !.late = FALSE,
                                !.access = 0, !.refresh = 0] \in FlowType
    BY <1>a, <2>1 DEF At
  <2>3. PICK next \in FlowType : Commit(f, Tokens(f), next)
    BY <1>5, <1>a, <2>2 DEF StoreTokens
  <2>4. row' \in RowType /\ flow' \in [Flows -> FlowType]
    BY <2>1, <2>3, CommitTyped
  <2> QED
    BY <1>5, <2>4 DEF StoreTokens
<1>6. CASE SyncLoad(f)
  <2>1. row \in RowType
    BY <1>6, <1>c DEF SyncLoad, NoRow
  <2>2. PICK step \in Steps :
          Becomes(f, [Waiting EXCEPT !.kind = "sync", !.copy = row, !.step = step])
    BY <1>6 DEF SyncLoad
  <2>3. flow' \in [Flows -> FlowType]
    BY <1>a, <1>b, <2>1, <2>2
  <2> QED
    BY <1>6, <2>3 DEF SyncLoad
<1>7. CASE ListOrders(f)
  BY <1>7, <1>a DEF ListOrders, Becomes, At
<1>8. CASE SyncClaim(f)
  <2>1. [flow[f] EXCEPT !.expired = TRUE] \in FlowType
    BY <1>a
  <2> QED
    BY <1>8, <1>b, <2>1 DEF SyncClaim
<1>9. CASE SyncNextOrder(f)
  <2>1. Holding(f, "claims") \in FlowType
    BY <1>a DEF Holding, At
  <2> QED
    BY <1>9, <1>b, <2>1 DEF SyncNextOrder
<1>10. CASE SyncCompletes(f) \/ SyncFails(f) \/ MockMarks(f)
  <2>1. PICK assigned \in Endings(f) : End(f, assigned)
    BY <1>10, SyncEnds
  <2>2. row # NoRow /\ flow[f].copy # NoRow
    BY <1>10, <1>d, SyncEnds DEF Working
  <2> QED
    BY <2>1, <2>2, EndTyped
<1>11. CASE Fails(f)
  <2>1. flow' \in [Flows -> FlowType]
    BY <1>11, <1>a, <1>b DEF Fails
  <2>2. lost' \subseteq Nat
    BY <1>11, <1>a, <1>d DEF Fails, Replaced, Working, RowType
  <2> QED
    BY <1>11, <2>1, <2>2 DEF Fails
<1> QED
  BY <1>1, <1>2, <1>3, <1>4, <1>5, <1>6, <1>7, <1>8, <1>9, <1>10, <1>11 DEF Step

-----------------------------------------------------------------------------
\* What a step changes

\* Of the other flows a step changes nothing but late, which it sets for those whose copy it
\* has made out of date; and a row stays a row.
LEMMA OthersKept ==
  ASSUME Typed, NEW f \in Flows, Step(f), NEW g \in Flows, g # f
  PROVE  /\ flow'[g].kind = flow[g].kind /\ flow'[g].step = flow[g].step
         /\ flow'[g].copy = flow[g].copy /\ flow'[g].expired = flow[g].expired
         /\ flow'[g].access = flow[g].access /\ flow'[g].refresh = flow[g].refresh
         /\ flow[g].copy = NoRow => flow'[g].late = flow[g].late
         /\ ~flow'[g].late => /\ ~flow[g].late
                              /\ row' = row \/ row = NoRow \/ flow[g].copy = NoRow
<1> DEFINE Kept == /\ flow'[g].kind = flow[g].kind /\ flow'[g].step = flow[g].step
                   /\ flow'[g].copy = flow[g].copy /\ flow'[g].expired = flow[g].expired
                   /\ flow'[g].access = flow[g].access /\ flow'[g].refresh = flow[g].refresh
                   /\ flow[g].copy = NoRow => flow'[g].late = flow[g].late
                   /\ ~flow'[g].late => /\ ~flow[g].late
                                        /\ row' = row \/ row = NoRow \/ flow[g].copy = NoRow
<1>0. flow \in [Flows -> FlowType] /\ flow[g] \in FlowType
  BY DEF Typed
<1>1. ASSUME NEW next, Becomes(f, next), row' = row \/ row = NoRow
      PROVE  Kept
  <2>1. flow'[g] = flow[g]
    BY <1>1, <1>0 DEF Becomes
  <2> QED
    BY <1>1, <2>1
<1>2. ASSUME NEW assigned, NEW next, Commit(f, assigned, next)
      PROVE  Kept
  <2>1. flow'[g] = [flow[g] EXCEPT !.late = @ \/ (row' # row /\ flow[g].copy # NoRow)]
    BY <1>2 DEF Commit
  <2>2. flow'[g].late = (flow[g].late \/ (row' # row /\ flow[g].copy # NoRow))
    BY <1>0, <2>1 DEF FlowType
  <2>3. /\ flow'[g].kind = flow[g].kind /\ flow'[g].step = flow[g].step
        /\ flow'[g].copy = flow[g].copy /\ flow'[g].expired = flow[g].expired
        /\ flow'[g].access = flow[g].access /\ flow'[g].refresh = flow[g].refresh
    BY <1>0, <2>1 DEF FlowType
  <2>4. flow[g].late \in BOOLEAN
    BY <1>0 DEF FlowType
  <2> QED
    BY <2>2, <2>3, <2>4
<1> HIDE DEF Kept
<1>3. \/ \E next : Becomes(f, next) /\ (row' = row \/ row = NoRow)
      \/ \E assigned, next : Commit(f, assigned, next)
  <2>1. CASE CallbackLookup(f) \/ MockLookup(f) \/ PageLookup(f)
    BY <2>1 DEF CallbackLookup, MockLookup, PageLookup, Lookup
  <2>2. CASE RefreshLoad(f) \/ SyncLoad(f) \/ ListOrders(f) \/ SyncClaim(f) \/ SyncNextOrder(f)
    BY <2>2 DEF RefreshLoad, SyncLoad, ListOrders, SyncClaim, SyncNextOrder
  <2>3. CASE Insert(f)
    BY <2>3 DEF Insert
  <2>4. CASE Grant(f)
    BY <2>4 DEF Grant
  <2>5. CASE StoreTokens(f)
    BY <2>5 DEF StoreTokens
  <2>6. CASE SyncCompletes(f) \/ SyncFails(f) \/ MockMarks(f)
    BY <2>6 DEF SyncCompletes, SyncFails, MockMarks, End
  <2>7. CASE Fails(f)
    BY <2>7 DEF Fails
  <2> QED
    BY <2>1, <2>2, <2>3, <2>4, <2>5, <2>6, <2>7 DEF Step
<1> QED
  BY <1>1, <1>2, <1>3 DEF Kept

\* What the flow that takes the step becomes, and the row.
LEMMA OwnStep ==
  ASSUME Typed, Held, NEW f \in Flows, Step(f)
  PROVE  HeldBy(f)' /\ (row # NoRow => row' # NoRow)
<1> USE DEF HeldBy, Working
<1>a. flow \in [Flows -> FlowType] /\ flow[f] \in FlowType /\ flow' \in [Flows -> FlowType]
  BY StepTyped DEF Typed
<1>b. HeldBy(f)
  BY DEF Held
<1>c. ASSUME NEW next, Becomes(f, next)
      PROVE  flow'[f] = next
  BY <1>a, <1>c DEF Becomes
<1>d. ASSUME NEW assigned, NEW next, Commit(f, assigned, next)
      PROVE  flow'[f] = next /\ row' = Written(f, assigned)
  BY <1>d DEF Commit
<1>e. NewRow # NoRow /\ NoRow \notin RowType
  BY DEF NewRow, NoRow, RowType, Results
<1>1. CASE CallbackLookup(f) \/ MockLookup(f) \/ PageLookup(f)
  BY <1>1, <1>a, <1>c DEF CallbackLookup, MockLookup, PageLookup, Lookup, Waiting
<1>2. CASE RefreshLoad(f)
  <2>1. row # NoRow
    BY <1>2 DEF RefreshLoad, NoRow
  <2> QED
    BY <1>2, <1>c, <2>1 DEF RefreshLoad, Waiting
<1>3. CASE Insert(f)
  <2>1. row' # NoRow /\ row' = IF row = NoRow THEN NewRow ELSE row
    BY <1>3, <1>e DEF Insert
  <2>2. flow[f].step = "insert" /\ ~flow[f].expired /\ flow[f].kind \in {"callback", "mock", "page"}
    BY <1>3, <1>a, <1>b DEF Insert, FlowType
  <2>3. CASE flow[f].kind = "page"
    BY <1>3, <1>c, <2>1, <2>3 DEF Insert, Ended, Waiting
  <2>4. CASE flow[f].kind \in {"callback", "mock"}
    <3>1. flow'[f] = [At(f, After(flow[f].kind)) EXCEPT !.copy = row']
      BY <1>3, <1>c, <2>1, <2>4 DEF Insert
    <3>2. /\ flow'[f].copy = row' /\ flow'[f].step = After(flow[f].kind)
          /\ flow'[f].kind = flow[f].kind /\ flow'[f].expired = flow[f].expired
          /\ flow'[f].access = flow[f].access /\ flow'[f].refresh = flow[f].refresh
      BY <1>a, <3>1 DEF At, FlowType
    <3> QED
      BY <1>b, <2>1, <2>2, <2>4, <3>2 DEF After
  <2> QED
    BY <2>2, <2>3, <2>4
<1>4. CASE Grant(f)
  BY <1>4, <1>a, <1>b, <1>c DEF Grant, At, FlowType
<1>5. CASE StoreTokens(f)
  <2>1. Written(f, Tokens(f)) \in RowType
    BY <1>5, <1>b, WrittenTyped DEF StoreTokens
  <2>2. row' # NoRow /\ Written(f, Tokens(f)) # NoRow
    BY <1>5, <1>d, <1>e, <2>1 DEF StoreTokens
  <2>3. CASE flow[f].kind = "sync"
    <3>1. flow'[f] = [At(f, "orders") EXCEPT !.copy = Written(f, Tokens(f)), !.late = FALSE,
                                             !.access = 0, !.refresh = 0]
      BY <1>5, <1>d, <2>3 DEF StoreTokens
    <3>2. /\ flow'[f].copy = Written(f, Tokens(f)) /\ flow'[f].step = "orders"
          /\ flow'[f].expired = flow[f].expired
      BY <1>a, <3>1 DEF At, FlowType
    <3> QED
      BY <1>5, <1>a, <1>b, <2>2, <3>2 DEF StoreTokens, FlowType
  <2>4. CASE flow[f].kind # "sync"
    BY <1>5, <1>d, <2>2, <2>4 DEF StoreTokens, Ended, Waiting
  <2> QED
    BY <2>3, <2>4
<1>6. CASE SyncLoad(f)
  <2>1. row # NoRow
    BY <1>6 DEF SyncLoad, NoRow
  <2>2. flow'[f] = [Waiting EXCEPT !.kind = "sync", !.copy = row,
                                   !.step = IF row.access \in expired THEN "ask" ELSE "orders"]
    BY <1>6, <1>c DEF SyncLoad
  <2> QED
    BY <1>6, <2>1, <2>2 DEF SyncLoad, Waiting
<1>7. CASE ListOrders(f)
  BY <1>7, <1>a, <1>b, <1>c DEF ListOrders, At, FlowType
<1>8. CASE SyncClaim(f)
  BY <1>8, <1>a, <1>b, <1>c DEF SyncClaim, FlowType
<1>9. CASE SyncNextOrder(f)
  BY <1>9, <1>a, <1>b, <1>c DEF SyncNextOrder, Holding, At, FlowType
<1>10. CASE SyncCompletes(f) \/ SyncFails(f) \/ MockMarks(f)
  <2>1. PICK assigned : Commit(f, assigned, Ended) /\ Written(f, assigned) \in RowType
    BY <1>10, <1>b, SyncEnds, WrittenTyped DEF End
  <2> QED
    BY <1>a, <1>d, <1>e, <2>1 DEF Ended, Waiting
<1>11. CASE Fails(f)
  BY <1>11, <1>a, <1>c DEF Fails, Ended, Waiting
<1> QED
  BY <1>1, <1>2, <1>3, <1>4, <1>5, <1>6, <1>7, <1>8, <1>9, <1>10, <1>11 DEF Step

LEMMA StepHeld ==
  ASSUME Typed, Held, NEW f \in Flows, Step(f)
  PROVE  Held'
<1>1. HeldBy(f)' /\ (row # NoRow => row' # NoRow)
  BY OwnStep
<1>2. ASSUME NEW g \in Flows, g # f
      PROVE  HeldBy(g)'
  BY <1>1, <1>2, OthersKept DEF Held, HeldBy
<1> QED
  BY <1>1, <1>2 DEF Held

-----------------------------------------------------------------------------
\* Tokens: only a grant makes one, only store_tokens puts one into the row.

LEMMA ServerKept ==
  ASSUME NEW f \in Flows, Step(f)
  PROVE  /\ service' = service /\ expired' = expired
         /\ ~Grant(f) => granted' = granted /\ spent' = spent
         /\ ~Fails(f) => lost' = lost
<1> QED
  BY DEF Step, CallbackLookup, MockLookup, PageLookup, Lookup, RefreshLoad, Insert, Grant,
         StoreTokens, SyncLoad, ListOrders, SyncClaim, SyncNextOrder, SyncCompletes, SyncFails,
         MockMarks, End, Fails, server

LEMMA RowKept ==
  ASSUME Typed, Held, NEW f \in Flows, Step(f), ~StoreTokens(f)
  PROVE  row'.access = row.access /\ row'.refresh = row.refresh
<1>1. CASE CallbackLookup(f) \/ MockLookup(f) \/ PageLookup(f) \/ RefreshLoad(f) \/ SyncLoad(f)
           \/ ListOrders(f) \/ SyncClaim(f) \/ SyncNextOrder(f) \/ Grant(f) \/ Fails(f)
  BY <1>1 DEF CallbackLookup, MockLookup, PageLookup, Lookup, RefreshLoad, SyncLoad, ListOrders,
              SyncClaim, SyncNextOrder, Grant, Fails
<1>2. CASE Insert(f)
  BY <1>2 DEF Insert, NewRow, NoRow
<1>3. CASE SyncCompletes(f) \/ SyncFails(f) \/ MockMarks(f)
  <2>1. row \in RowType /\ flow[f].copy \in RowType
    BY <1>3, SyncEnds DEF Typed, FlowType, Held, HeldBy, Working
  <2>2. PICK assigned \in Endings(f) : row' = Written(f, assigned)
    BY <1>3, SyncEnds DEF End, Commit
  <2> QED
    BY <2>1, <2>2 DEF Written, Endings, Completed, Mocked, RowType
<1> QED
  BY <1>1, <1>2, <1>3 DEF Step

LEMMA RowStored ==
  ASSUME Typed, Held, NEW f \in Flows, StoreTokens(f)
  PROVE  /\ row'.access \in {flow[f].access, row.access}
         /\ row'.refresh = IF flow[f].refresh # 0 /\ flow[f].refresh # flow[f].copy.refresh
                           THEN flow[f].refresh ELSE row.refresh
<1>1. row \in RowType /\ flow[f].copy \in RowType /\ ~flow[f].expired
  BY DEF Typed, FlowType, Held, HeldBy, Working, StoreTokens
<1>2. row' = Written(f, Tokens(f))
  BY DEF StoreTokens, Commit
<1>3. row'.access \in {flow[f].access, row.access}
  BY <1>1, <1>2 DEF Written, Tokens, RowType
<1>4. row'.refresh = IF flow[f].refresh # 0 /\ flow[f].refresh # flow[f].copy.refresh
                     THEN flow[f].refresh ELSE row.refresh
  BY <1>1, <1>2 DEF Written, Tokens, RowType
<1> QED
  BY <1>3, <1>4

\* The flow ends up with no copy, its old one or the new row, and with tokens only by a grant.
LEMMA OwnTokens ==
  ASSUME Typed, Held, NEW f \in Flows, Step(f)
  PROVE  /\ flow'[f].copy \in {NoRow, flow[f].copy, row'}
         /\ ~Grant(f) => /\ flow'[f].access \in {0, flow[f].access}
                         /\ flow'[f].refresh \in {0, flow[f].refresh}
                         /\ flow'[f].step # "store"
<1>a. flow \in [Flows -> FlowType] /\ flow[f] \in FlowType
  BY DEF Typed
<1>c. ASSUME NEW next, Becomes(f, next)
      PROVE  flow'[f] = next
  BY <1>a, <1>c DEF Becomes
<1>d. ASSUME NEW assigned, NEW next, Commit(f, assigned, next)
      PROVE  flow'[f] = next /\ row' = Written(f, assigned)
  BY <1>d DEF Commit
<1>1. CASE CallbackLookup(f) \/ MockLookup(f) \/ PageLookup(f)
  BY <1>1, <1>c DEF CallbackLookup, MockLookup, PageLookup, Lookup, Waiting
<1>2. CASE RefreshLoad(f)
  BY <1>2, <1>c DEF RefreshLoad, Waiting
<1>3. CASE Insert(f)
  <2>1. row' = IF row = NoRow THEN NewRow ELSE row
    BY <1>3 DEF Insert
  <2>2. CASE flow[f].kind = "page"
    BY <1>3, <1>c, <2>2 DEF Insert, Ended, Waiting
  <2>3. CASE flow[f].kind # "page"
    <3>1. flow'[f] = [At(f, After(flow[f].kind)) EXCEPT !.copy = row']
      BY <1>3, <1>c, <2>1, <2>3 DEF Insert
    <3> QED
      BY <1>a, <3>1 DEF At, After, FlowType
  <2> QED
    BY <2>2, <2>3
<1>4. CASE Grant(f)
  BY <1>4, <1>a, <1>c DEF Grant, At, FlowType
<1>5. CASE StoreTokens(f)
  <2>1. CASE flow[f].kind = "sync"
    <3>1. flow'[f] = [At(f, "orders") EXCEPT !.copy = row', !.late = FALSE,
                                             !.access = 0, !.refresh = 0]
      BY <1>5, <1>d, <2>1 DEF StoreTokens
    <3> QED
      BY <1>a, <3>1 DEF At, FlowType
  <2>2. CASE flow[f].kind # "sync"
    BY <1>5, <1>d, <2>2 DEF StoreTokens, Ended, Waiting
  <2> QED
    BY <2>1, <2>2
<1>6. CASE SyncLoad(f)
  <2>1. flow'[f] = [Waiting EXCEPT !.kind = "sync", !.copy = row,
                                   !.step = IF row.access \in expired THEN "ask" ELSE "orders"]
    BY <1>6, <1>c DEF SyncLoad
  <2> QED
    BY <1>6, <2>1 DEF SyncLoad, Waiting
<1>7. CASE ListOrders(f)
  BY <1>7, <1>a, <1>c DEF ListOrders, At, FlowType
<1>8. CASE SyncClaim(f)
  BY <1>8, <1>a, <1>c DEF SyncClaim, FlowType
<1>9. CASE SyncNextOrder(f)
  BY <1>9, <1>a, <1>c DEF SyncNextOrder, Holding, At, FlowType
<1>10. CASE SyncCompletes(f) \/ SyncFails(f) \/ MockMarks(f)
  BY <1>10, <1>d DEF SyncCompletes, SyncFails, MockMarks, End, Ended, Waiting
<1>11. CASE Fails(f)
  BY <1>11, <1>c DEF Fails, Ended, Waiting
<1> QED
  BY <1>1, <1>2, <1>3, <1>4, <1>5, <1>6, <1>7, <1>8, <1>9, <1>10, <1>11 DEF Step

LEMMA GrantStep ==
  ASSUME Typed, Held, NEW f \in Flows, Grant(f)
  PROVE  /\ granted' = granted + 1 /\ spent' = spent \cup Replaced(f) /\ row' = row
         /\ flow[f].step = "ask" /\ flow'[f].step = "store"
         /\ flow'[f].kind = flow[f].kind /\ flow'[f].copy = flow[f].copy
         /\ flow'[f].access = granted + 1 /\ flow'[f].refresh \in {0, granted + 1}
         /\ service = "rotating" => flow'[f].refresh = granted + 1
<1>1. flow[f] \in FlowType /\ flow \in [Flows -> FlowType]
  BY DEF Typed
<1>2. \E r \in {0, granted + 1} :
         /\ flow'[f] = [At(f, "store") EXCEPT !.access = granted + 1, !.refresh = r]
         /\ service = "rotating" => r = granted + 1
  BY <1>1 DEF Grant, Becomes
<1> QED
  BY <1>1, <1>2 DEF Grant, At, FlowType

\* No token has a number that has not been granted.
Bounded ==
  /\ \A t \in spent \cup expired \cup lost : t # 0 /\ t <= granted
  /\ row.access <= granted /\ row.refresh <= granted
  /\ \A f \in Flows : /\ flow[f].access <= granted /\ flow[f].refresh <= granted
                      /\ flow[f].copy.access <= granted /\ flow[f].copy.refresh <= granted

\* The refresh token that a flow is about to store is nowhere else.
FreshOf(f) ==
  /\ service = "rotating" => flow[f].refresh # 0
  /\ flow[f].refresh # 0 =>
       /\ flow[f].refresh \notin spent /\ flow[f].refresh # row.refresh
       /\ \A g \in Flows : flow[g].copy.refresh # flow[f].refresh
       /\ \A g \in Flows \ {f} : flow[g].step = "store" => flow[g].refresh # flow[f].refresh

Fresh == \A f \in Flows : flow[f].step = "store" => FreshOf(f)

LEMMA RowNumbers ==
  ASSUME Typed
  PROVE  /\ row.access \in Nat /\ row.refresh \in Nat
         /\ \A f \in Flows : /\ flow[f].access \in Nat /\ flow[f].refresh \in Nat
                             /\ flow[f].copy.access \in Nat /\ flow[f].copy.refresh \in Nat
<1>1. \A r \in {NoRow} \cup RowType : r.access \in Nat /\ r.refresh \in Nat
  BY DEF NoRow, RowType
<1> QED
  BY <1>1 DEF Typed, FlowType

LEMMA StepBounded ==
  ASSUME Typed, Held, Bounded, NEW f \in Flows, Step(f)
  PROVE  Bounded'
<1>a. Typed'
  BY StepTyped
<1>b. granted \in Nat /\ granted' \in Nat /\ granted' >= granted
  BY <1>a, ServerKept, GrantStep DEF Typed
<1>c. /\ row.access \in Nat /\ row.refresh \in Nat
      /\ \A g \in Flows : /\ flow[g].access \in Nat /\ flow[g].refresh \in Nat
                          /\ flow[g].copy.access \in Nat /\ flow[g].copy.refresh \in Nat
  BY RowNumbers
<1>1. ASSUME NEW t \in Replaced(f), flow[f].step \in {"ask", "store"}
      PROVE  t # 0 /\ t <= granted'
  BY <1>b, <1>c, <1>1 DEF Replaced, Bounded, Held, HeldBy
<1>2. \A t \in spent' : t # 0 /\ t <= granted'
  <2>1. spent' \subseteq spent \cup (IF flow[f].step = "ask" THEN Replaced(f) ELSE {})
    BY ServerKept, GrantStep
  <2>2. \A t \in spent : t \in Nat /\ t # 0 /\ t <= granted
    BY DEF Typed, Bounded
  <2> QED
    BY <1>b, <1>1, <2>1, <2>2
<1>3. \A t \in expired' \cup lost' : t # 0 /\ t <= granted'
  <2>1. lost' \subseteq lost \cup (IF flow[f].step = "store" THEN Replaced(f) ELSE {})
    BY ServerKept DEF Fails
  <2>2. \A t \in expired \cup lost : t \in Nat /\ t # 0 /\ t <= granted
    BY DEF Typed, Bounded
  <2> QED
    BY <1>b, <1>1, <2>1, <2>2, ServerKept
<1>4. row'.access <= granted' /\ row'.refresh <= granted'
  <2>1. CASE StoreTokens(f)
    BY <1>b, <1>c, <2>1, RowStored DEF Bounded
  <2>2. CASE ~StoreTokens(f)
    BY <1>b, <1>c, <2>2, RowKept DEF Bounded
  <2> QED
    BY <2>1, <2>2
<1>5. ASSUME NEW g \in Flows
      PROVE  /\ flow'[g].access <= granted' /\ flow'[g].refresh <= granted'
             /\ flow'[g].copy.access <= granted' /\ flow'[g].copy.refresh <= granted'
  <2>1. CASE g # f
    BY <1>b, <1>c, <2>1, OthersKept DEF Bounded
  <2>2. CASE g = f
    <3>1. flow'[f].copy.access <= granted' /\ flow'[f].copy.refresh <= granted'
      BY <1>b, <1>c, <1>4, OwnTokens DEF Bounded, NoRow
    <3>2. CASE Grant(f)
      BY <1>b, <3>1, <3>2, <2>2, GrantStep
    <3>3. CASE ~Grant(f)
      BY <1>b, <1>c, <3>1, <3>3, <2>2, OwnTokens DEF Bounded
    <3> QED
      BY <3>2, <3>3
  <2> QED
    BY <2>1, <2>2
<1> QED
  BY <1>2, <1>3, <1>4, <1>5 DEF Bounded

LEMMA StepFresh ==
  ASSUME Typed, Held, Bounded, Fresh, NEW f \in Flows, Step(f)
  PROVE  Fresh'
<1>a. granted \in Nat
  BY DEF Typed
<1>c. /\ row.access \in Nat /\ row.refresh \in Nat
      /\ \A g \in Flows : /\ flow[g].access \in Nat /\ flow[g].refresh \in Nat
                          /\ flow[g].copy.access \in Nat /\ flow[g].copy.refresh \in Nat
  BY RowNumbers
<1>1. CASE Grant(f)
  <2>1. Replaced(f) \subseteq {flow[f].copy.refresh}
    BY DEF Replaced
  <2>2. ASSUME NEW g \in Flows, flow'[g].step = "store"
        PROVE  FreshOf(g)'
    <3>1. CASE g = f
      BY <1>a, <1>c, <1>1, <2>1, <3>1, GrantStep, OthersKept, ServerKept DEF FreshOf, Bounded
    <3>2. CASE g # f
      <4>1. flow[g].step = "store" /\ flow'[g].refresh = flow[g].refresh /\ FreshOf(g)
        BY <2>2, <3>2, OthersKept DEF Fresh
      <4> QED
        BY <1>a, <1>c, <1>1, <2>1, <3>2, <4>1, GrantStep, OthersKept, ServerKept DEF FreshOf, Bounded
    <3> QED
      BY <3>1, <3>2
  <2> QED
    BY <2>2 DEF Fresh
<1>2. CASE ~Grant(f)
  <2>1. ASSUME NEW g \in Flows, flow'[g].step = "store"
        PROVE  FreshOf(g)'
    <3>1. g # f
      BY <1>2, <2>1, OwnTokens
    <3>2. flow[g].step = "store" /\ flow'[g].refresh = flow[g].refresh /\ FreshOf(g)
      BY <2>1, <3>1, OthersKept DEF Fresh
    <3>3. row'.refresh \in {row.refresh, flow[f].refresh}
      BY RowKept, RowStored
    <3>4. row'.refresh # row.refresh => flow[f].step = "store"
      BY RowKept DEF StoreTokens
    <3>5. flow[g].refresh # 0 => row'.refresh # flow[g].refresh
      BY <3>1, <3>2, <3>3, <3>4 DEF FreshOf
    <3>6. flow[g].refresh # 0 => \A h \in Flows : flow'[h].copy.refresh # flow[g].refresh
      BY <3>2, <3>5, OthersKept, OwnTokens DEF FreshOf, NoRow
    <3> QED
      BY <1>2, <3>1, <3>2, <3>5, <3>6, OthersKept, OwnTokens, ServerKept DEF FreshOf
  <2> QED
    BY <2>1 DEF Fresh
<1> QED
  BY <1>1, <1>2

LEMMA StoreEnds ==
  ASSUME NEW f \in Flows, Step(f), flow[f].step = "store"
  PROVE  StoreTokens(f) \/ Fails(f)
BY DEF Step, CallbackLookup, MockLookup, PageLookup, Lookup, RefreshLoad, Insert, Grant, Waiting,
       SyncLoad, ListOrders, SyncClaim, SyncNextOrder, SyncCompletes, SyncFails, MockMarks

LEMMA StepUsable ==
  ASSUME Typed, Held, Bounded, Fresh, RefreshTokenUsable, NEW f \in Flows, Step(f)
  PROVE  RefreshTokenUsable'
<1>1. SUFFICES ASSUME row'.refresh \in spent'
               PROVE  \/ row'.refresh \in lost'
                      \/ \E g \in Flows : flow'[g].step = "store" /\ row'.refresh \in Replaced(g)'
  BY DEF RefreshTokenUsable
<1>2. ASSUME NEW g \in Flows, g # f, flow[g].step = "store"
      PROVE  flow'[g].step = "store" /\ Replaced(g)' = Replaced(g)
  BY <1>2, OthersKept, ServerKept DEF Replaced
<1>3. lost \subseteq lost'
  BY ServerKept DEF Fails
<1>4. CASE Grant(f)
  <2>1. row'.refresh = row.refresh /\ spent' = spent \cup Replaced(f)
    BY <1>4, GrantStep
  <2>2. flow'[f].step = "store" /\ Replaced(f)' = Replaced(f) /\ flow[f].step # "store"
    BY <1>4, GrantStep, ServerKept DEF Replaced
  <2> QED
    BY <1>1, <1>2, <1>3, <2>1, <2>2 DEF RefreshTokenUsable
<1>5. CASE StoreTokens(f)
  <2>1. spent' = spent
    BY <1>5, ServerKept DEF Grant, StoreTokens
  <2>2. FreshOf(f)
    BY <1>5 DEF Fresh, StoreTokens
  <2>3. row'.refresh = row.refresh /\ ~(flow[f].refresh # 0 /\ flow[f].refresh # flow[f].copy.refresh)
    BY <1>1, <1>5, <2>1, <2>2, RowStored DEF FreshOf
  <2>4. Replaced(f) = {}
    BY <2>2, <2>3 DEF FreshOf, Replaced
  <2> QED
    BY <1>1, <1>2, <1>3, <2>1, <2>3, <2>4 DEF RefreshTokenUsable
<1>6. CASE Fails(f)
  <2>1. row'.refresh = row.refresh /\ spent' = spent
    BY <1>6 DEF Fails, server
  <2>2. flow[f].step = "store" => lost' = lost \cup Replaced(f)
    BY <1>6 DEF Fails
  <2> QED
    BY <1>1, <1>2, <1>3, <2>1, <2>2 DEF RefreshTokenUsable
<1>7. CASE ~Grant(f) /\ ~StoreTokens(f) /\ ~Fails(f)
  <2>1. row'.refresh = row.refresh /\ spent' = spent
    BY <1>7, RowKept, ServerKept
  <2>2. flow[f].step # "store"
    BY <1>7, StoreEnds
  <2> QED
    BY <1>1, <1>2, <1>3, <2>1, <2>2 DEF RefreshTokenUsable
<1> QED
  BY <1>4, <1>5, <1>6, <1>7


-----------------------------------------------------------------------------
\* Each grant is that of another flow.

LEMMA StepCounted ==
  ASSUME Typed, Held, Counted, NEW f \in Flows, Step(f)
  PROVE  Counted'
<1> DEFINE Before == {"ready", "insert", "ask"}
<1>a. IsFiniteSet(Flows) /\ flow[f] \in FlowType /\ flow \in [Flows -> FlowType] /\ granted \in Nat
  BY FlowAssumption DEF Typed
<1>b. IsFiniteSet(Served) /\ IsFiniteSet(Served')
  BY <1>a, FS_Subset DEF Served
<1>1. flow[f].step \notin Before => flow'[f].step \notin Before
  <2>1. ASSUME NEW next, Becomes(f, next)
        PROVE  flow'[f] = next
    BY <1>a, <2>1 DEF Becomes
  <2>2. CASE CallbackLookup(f) \/ MockLookup(f) \/ PageLookup(f) \/ RefreshLoad(f) \/ SyncLoad(f)
             \/ Insert(f) \/ Grant(f)
    BY <2>2 DEF CallbackLookup, MockLookup, PageLookup, Lookup, RefreshLoad, SyncLoad, Insert, Grant,
                Waiting
  <2>3. CASE StoreTokens(f)
    BY <1>a, <2>3 DEF StoreTokens, Commit, At, Ended, Waiting, FlowType
  <2>4. CASE ListOrders(f) \/ SyncClaim(f) \/ SyncNextOrder(f)
    BY <1>a, <2>1, <2>4 DEF ListOrders, SyncClaim, SyncNextOrder, Holding, At, FlowType
  <2>5. CASE SyncCompletes(f) \/ SyncFails(f) \/ MockMarks(f)
    BY <2>5 DEF SyncCompletes, SyncFails, MockMarks, End, Commit, Ended, Waiting
  <2>6. CASE Fails(f)
    BY <2>1, <2>6 DEF Fails, Ended, Waiting
  <2> QED
    BY <2>2, <2>3, <2>4, <2>5, <2>6 DEF Step
<1>2. Served \subseteq Served'
  BY <1>1, OthersKept DEF Served
<1>3. CASE Grant(f)
  <2>1. f \notin Served /\ f \in Served' /\ granted' = granted + 1
    BY <1>3, GrantStep DEF Served
  <2>2. Cardinality(Served \cup {f}) = Cardinality(Served) + 1 /\ IsFiniteSet(Served \cup {f})
    BY <1>b, <2>1, FS_AddElement
  <2>3. Cardinality(Served \cup {f}) <= Cardinality(Served')
    BY <1>b, <1>2, <2>1, FS_Subset
  <2>4. Cardinality(Served) \in Nat /\ Cardinality(Served') \in Nat
    BY <1>b, FS_CardinalityType
  <2> QED
    BY <1>a, <2>1, <2>2, <2>3, <2>4 DEF Counted
<1>4. CASE ~Grant(f)
  <2>1. Cardinality(Served) <= Cardinality(Served')
    BY <1>b, <1>2, FS_Subset
  <2>2. Cardinality(Served) \in Nat /\ Cardinality(Served') \in Nat
    BY <1>b, FS_CardinalityType
  <2> QED
    BY <1>a, <1>4, <2>1, <2>2, ServerKept DEF Counted
<1> QED
  BY <1>3, <1>4

-----------------------------------------------------------------------------
\* Outcomes

\* The copy of a flow that nobody has overtaken is the row.
Exact == \A f \in Flows : flow[f].step \in Working /\ ~flow[f].late => flow[f].copy = row

\* The row says that a sync has run only after one has.
Marked == row.result \in Outcomes => latest # NoSync

\* The batch of a sync that is still to end is in no row and no copy.
Own(f) == {Batch("live", f), Batch("mock", f)}
UnusedBy(f) == row.batch \notin Own(f) /\ \A g \in Flows : flow[g].copy.batch \notin Own(f)
Unused == \A f \in Flows : flow[f].step # "done" => UnusedBy(f)

LEMMA StepExact ==
  ASSUME Typed, Held, Exact, NEW f \in Flows, Step(f)
  PROVE  Exact'
<1>a. flow[f] \in FlowType /\ flow \in [Flows -> FlowType]
  BY DEF Typed
<1>b. flow[f].step \in Working /\ ~flow[f].late => flow[f].copy = row
  BY DEF Exact
<1>c. ASSUME NEW next, Becomes(f, next)
      PROVE  flow'[f] = next
  BY <1>a, <1>c DEF Becomes
<1>1. ASSUME flow'[f].step \in Working, ~flow'[f].late
      PROVE  flow'[f].copy = row'
  <2> USE <1>1 DEF Working
  <2>1. CASE CallbackLookup(f) \/ MockLookup(f) \/ PageLookup(f)
    BY <1>c, <2>1 DEF CallbackLookup, MockLookup, PageLookup, Lookup, Waiting
  <2>2. CASE RefreshLoad(f) \/ SyncLoad(f)
    BY <1>c, <2>2 DEF RefreshLoad, SyncLoad, Waiting
  <2>3. CASE Insert(f)
    <3>1. flow[f].kind # "page"
      BY <1>c, <2>3 DEF Insert, Ended, Waiting
    <3>2. flow'[f] = [At(f, After(flow[f].kind)) EXCEPT !.copy = row']
      BY <1>c, <2>3, <3>1 DEF Insert
    <3> QED
      BY <1>a, <3>2 DEF At, FlowType
  <2>4. CASE Grant(f)
    <3>1. row' = row /\ \E r : flow'[f] = [At(f, "store") EXCEPT !.access = granted + 1, !.refresh = r]
      BY <1>c, <2>4 DEF Grant
    <3>2. flow'[f].late = flow[f].late /\ flow'[f].copy = flow[f].copy /\ flow[f].step = "ask"
      BY <1>a, <2>4, <3>1 DEF Grant, At, FlowType
    <3> QED
      BY <1>b, <3>1, <3>2
  <2>5. CASE StoreTokens(f)
    BY <1>a, <2>5 DEF StoreTokens, Commit, At, Ended, Waiting, FlowType
  <2>6. CASE ListOrders(f) \/ SyncClaim(f) \/ SyncNextOrder(f)
    BY <1>a, <1>b, <1>c, <2>6 DEF ListOrders, SyncClaim, SyncNextOrder, Holding, At, FlowType
  <2>7. CASE SyncCompletes(f) \/ SyncFails(f) \/ MockMarks(f)
    BY <2>7 DEF SyncCompletes, SyncFails, MockMarks, End, Commit, Ended, Waiting
  <2>8. CASE Fails(f)
    BY <1>c, <2>8 DEF Fails, Ended, Waiting
  <2> QED
    BY <2>1, <2>2, <2>3, <2>4, <2>5, <2>6, <2>7, <2>8 DEF Step
<1>2. ASSUME NEW g \in Flows, g # f, flow'[g].step \in Working, ~flow'[g].late
      PROVE  flow'[g].copy = row'
  <2>1. flow[g].step \in Working /\ flow'[g].copy = flow[g].copy
    BY <1>2, OthersKept
  <2>2. ~flow[g].late /\ (row' = row \/ row = NoRow \/ flow[g].copy = NoRow)
    BY <1>2, OthersKept
  <2> QED
    BY <2>1, <2>2 DEF Exact, Held, HeldBy
<1> QED
  BY <1>1, <1>2 DEF Exact

\* store_tokens writes no batch, and over an exact copy no result but the first one.
LEMMA TokensMark ==
  ASSUME Typed, Held, NEW f \in Flows, StoreTokens(f)
  PROVE  /\ row'.batch = row.batch /\ row'.result \in {row.result, "oauth_connected"}
         /\ flow[f].copy = row \/ flow[f].copy.result # "not_started" =>
              row'.result = IF flow[f].copy.result = "not_started" THEN "oauth_connected"
                            ELSE row.result
         /\ muddled' = (muddled \/ (flow[f].late /\ flow[f].copy.result = "not_started"))
         /\ latest' = latest
<1>1. row \in RowType /\ flow[f].copy \in RowType /\ ~flow[f].expired
  BY DEF Typed, FlowType, Held, HeldBy, Working, StoreTokens
<1>2. row' = Written(f, Tokens(f))
  BY DEF StoreTokens, Commit
<1>3. "result" \in DOMAIN Tokens(f) /\ "batch" \notin DOMAIN Tokens(f)
  BY DEF Tokens
<1>4. /\ muddled' = (muddled \/ (flow[f].late /\ flow[f].copy.result = "not_started"))
      /\ latest' = latest
  BY <1>1 DEF StoreTokens, Overtaken
<1>5. row'.batch = row.batch
  BY <1>1, <1>2, <1>3 DEF Written, RowType
<1>6. Tokens(f).result = IF flow[f].copy.result = "not_started" THEN "oauth_connected"
                         ELSE flow[f].copy.result
  BY DEF Tokens
<1>7. row'.result = IF Tokens(f).result # flow[f].copy.result THEN Tokens(f).result ELSE row.result
  BY <1>1, <1>2, <1>3 DEF Written, RowType
<1> QED
  BY <1>4, <1>5, <1>6, <1>7

\* The end of a sync writes the batch whatever the copy has, and the result unless it is
\* that of the copy.
LEMMA EndMarks ==
  ASSUME Typed, Held, Exact, Unused, NEW f \in Flows,
         SyncCompletes(f) \/ SyncFails(f) \/ MockMarks(f)
  PROVE  /\ latest' # NoSync /\ flow'[f].step = "done"
         /\ row'.batch \in {row.batch} \cup Own(f)
         /\ row.batch = latest.batch => row'.batch = latest'.batch
         /\ muddled' \/ row'.result = latest'.result
<1>1. row \in RowType /\ flow[f].copy \in RowType
  BY SyncEnds DEF Typed, FlowType, Held, HeldBy, Working
<1>2. ~flow[f].late => flow[f].copy = row
  BY SyncEnds DEF Exact, Working
<1>3. flow[f].late \in BOOLEAN /\ flow[f].expired \in BOOLEAN /\ latest \in SyncType
  BY DEF Typed, FlowType
<1>4. PICK assigned \in Endings(f) : End(f, assigned)
  BY SyncEnds
<1>5. flow[f].copy.batch \notin Own(f)
  BY SyncEnds DEF Unused, UnusedBy
<1>6. row' = Written(f, assigned) /\ flow'[f].step = "done"
  BY <1>4 DEF End, Commit, Ended, Waiting
<1>7. /\ "result" \in DOMAIN assigned /\ assigned.result \in Outcomes
      /\ "batch" \in DOMAIN assigned => assigned.batch \in Own(f)
  BY DEF Endings, Completed, Mocked, Outcomes, Own
<1>8. row'.batch = IF "batch" \in DOMAIN assigned THEN assigned.batch ELSE row.batch
  BY <1>1, <1>5, <1>6, <1>7 DEF Written, RowType
<1>9. /\ latest'.batch = IF "batch" \in DOMAIN assigned THEN assigned.batch ELSE latest.batch
      /\ latest'.result = assigned.result
  BY <1>3, <1>4, <1>7 DEF End, SyncType
<1>10. muddled' \/ row'.result = assigned.result
  BY <1>1, <1>2, <1>3, <1>4, <1>6, <1>7 DEF End, Overtaken, Written, RowType
<1> QED
  BY <1>6, <1>7, <1>8, <1>9, <1>10 DEF NoSync, Outcomes

LEMMA OutcomeUnmoved ==
  ASSUME Typed, NEW f \in Flows, Step(f), ~StoreTokens(f),
         ~SyncCompletes(f), ~SyncFails(f), ~MockMarks(f)
  PROVE  /\ latest' = latest /\ muddled' = muddled
         /\ row' = row \/ (row = NoRow /\ row' = NewRow)
BY DEF Step, CallbackLookup, MockLookup, PageLookup, Lookup, RefreshLoad, Insert, Grant,
       SyncLoad, ListOrders, SyncClaim, SyncNextOrder, Fails

LEMMA StepMarked ==
  ASSUME Typed, Held, Exact, Unused, Marked, NEW f \in Flows, Step(f)
  PROVE  Marked'
<1>1. CASE StoreTokens(f)
  BY <1>1, TokensMark DEF Marked, Outcomes
<1>2. CASE SyncCompletes(f) \/ SyncFails(f) \/ MockMarks(f)
  BY <1>2, EndMarks DEF Marked
<1>3. CASE ~StoreTokens(f) /\ ~SyncCompletes(f) /\ ~SyncFails(f) /\ ~MockMarks(f)
  BY <1>3, OutcomeUnmoved DEF Marked, Outcomes, NewRow, NoRow
<1> QED
  BY <1>1, <1>2, <1>3

LEMMA StepUnused ==
  ASSUME Typed, Held, Exact, Unused, NEW f \in Flows, Step(f)
  PROVE  Unused'
<1>1. flow[f].step # "done"
  BY DEF Step, CallbackLookup, MockLookup, PageLookup, Lookup, RefreshLoad, Insert, Grant,
         StoreTokens, SyncLoad, ListOrders, SyncClaim, SyncNextOrder, SyncCompletes, SyncFails,
         MockMarks, Fails, Waiting
<1>2. row'.batch = row.batch \/ (flow'[f].step = "done" /\ row'.batch \in Own(f))
  <2>1. CASE StoreTokens(f)
    BY <2>1, TokensMark
  <2>2. CASE SyncCompletes(f) \/ SyncFails(f) \/ MockMarks(f)
    BY <2>2, EndMarks
  <2>3. CASE ~StoreTokens(f) /\ ~SyncCompletes(f) /\ ~SyncFails(f) /\ ~MockMarks(f)
    BY <2>3, OutcomeUnmoved DEF NewRow, NoRow
  <2> QED
    BY <2>1, <2>2, <2>3
<1>3. ASSUME NEW g \in Flows, flow'[g].step # "done"
      PROVE  UnusedBy(g)'
  <2>1. UnusedBy(g)
    BY <1>1, <1>3, OthersKept DEF Unused
  <2>2. g # f => Own(f) \cap Own(g) = {}
    BY DEF Own, Batch
  <2>3. row'.batch \notin Own(g)
    BY <1>2, <1>3, <2>1, <2>2 DEF UnusedBy
  <2>4. ASSUME NEW h \in Flows
        PROVE  flow'[h].copy.batch \notin Own(g)
    <3>1. flow'[h].copy \in {NoRow, flow[h].copy, row'}
      BY OthersKept, OwnTokens
    <3>2. NoRow.batch \notin Own(g)
      BY OwnBatch DEF NoRow, Own
    <3> QED
      BY <2>1, <2>3, <3>1, <3>2 DEF UnusedBy
  <2> QED
    BY <2>3, <2>4 DEF UnusedBy, Own
<1> QED
  BY <1>3 DEF Unused

LEMMA StepOutcome ==
  ASSUME Typed, Held, Exact, Unused, OutcomeKept, NEW f \in Flows, Step(f)
  PROVE  OutcomeKept'
<1>1. CASE StoreTokens(f)
  <2>1. ~flow[f].late => flow[f].copy = row
    BY <1>1 DEF Exact, Working, StoreTokens
  <2>2. flow[f].late \in BOOLEAN /\ muddled \in BOOLEAN /\ latest \in SyncType
    BY DEF Typed, FlowType
  <2>3. flow[f].copy = row /\ row.result = "not_started" /\ ~muddled => latest = NoSync
    BY <2>2 DEF OutcomeKept, SyncType, Outcomes, NoSync
  <2> QED
    BY <1>1, <2>1, <2>2, <2>3, TokensMark DEF OutcomeKept, Outcomes
<1>2. CASE SyncCompletes(f) \/ SyncFails(f) \/ MockMarks(f)
  BY <1>2, EndMarks DEF OutcomeKept
<1>3. CASE ~StoreTokens(f) /\ ~SyncCompletes(f) /\ ~SyncFails(f) /\ ~MockMarks(f)
  <2>1. latest \in SyncType
    BY DEF Typed
  <2> QED
    BY <1>3, <2>1, OutcomeUnmoved DEF OutcomeKept, NewRow, NoRow, NoSync, Outcomes, SyncType
<1> QED
  BY <1>1, <1>2, <1>3

-----------------------------------------------------------------------------
\* The invariant

IInv ==
  /\ Typed /\ Held /\ Counted /\ Bounded /\ Fresh /\ RefreshTokenUsable
  /\ Exact /\ Unused /\ Marked /\ OutcomeKept

LEMMA InitIInv == Init => IInv
<1> SUFFICES ASSUME Init
             PROVE  IInv
  OBVIOUS
<1> USE DEF Init, Waiting, NoRow, NoSync
<1>1. Typed
  <2>1. latest \in SyncType
    BY DEF SyncType, Batches
  <2>2. NoRow \in {NoRow} \cup RowType
    OBVIOUS
  <2> QED
    BY <2>1, <2>2 DEF Typed, FlowType, Steps, AllKinds
<1>2. Held
  BY DEF Held, HeldBy, Working
<1>3. Counted
  <2>1. Cardinality(Served) \in Nat
    BY FlowAssumption, FS_Subset, FS_CardinalityType DEF Served
  <2> QED
    BY <2>1 DEF Counted
<1>4. Bounded
  BY DEF Bounded
<1>5. Fresh
  BY DEF Fresh
<1>6. RefreshTokenUsable /\ OutcomeKept /\ Marked
  BY DEF RefreshTokenUsable, OutcomeKept, Marked, Outcomes
<1>7. Exact /\ Unused
  BY OwnBatch DEF Exact, Working, Unused, UnusedBy, Own
<1> QED
  BY <1>1, <1>2, <1>3, <1>4, <1>5, <1>6, <1>7 DEF IInv

LEMMA NextIInv == IInv /\ [Next]_vars => IInv'
<1> SUFFICES ASSUME IInv, [Next]_vars
             PROVE  IInv'
  OBVIOUS
<1> USE DEF IInv
<1>1. ASSUME NEW f \in Flows, Step(f)
      PROVE  IInv'
  BY <1>1, StepTyped, StepHeld, StepCounted, StepBounded, StepFresh, StepUsable, StepExact,
     StepUnused, StepMarked, StepOutcome
<1>2. ASSUME NEW g \in Grants, AccessExpires(g)
      PROVE  IInv'
  <2>1. g \in Nat /\ g # 0 /\ g <= granted
    BY <1>2, FlowAssumption, FS_CardinalityType DEF AccessExpires, Grants
  <2>2. /\ expired' = expired \cup {g}
        /\ UNCHANGED <<service, granted, spent, row, flow, lost, latest, muddled>>
    BY <1>2 DEF AccessExpires
  <2>3. Typed' /\ Bounded'
    BY <2>1, <2>2 DEF Typed, Bounded
  <2>4. Held' /\ Counted' /\ Exact' /\ Unused' /\ Marked' /\ OutcomeKept'
    BY <2>2 DEF Held, HeldBy, Counted, Served, Exact, Unused, UnusedBy, Own, Marked, OutcomeKept
  <2>5. Fresh' /\ RefreshTokenUsable'
    BY <2>2 DEF Fresh, FreshOf, RefreshTokenUsable, Replaced
  <2> QED
    BY <2>3, <2>4, <2>5
<1>3. CASE UNCHANGED vars
  <2> USE <1>3 DEF vars, server
  <2>1. Typed' /\ Bounded'
    BY DEF Typed, Bounded
  <2>2. Held' /\ Counted' /\ Exact' /\ Unused' /\ Marked' /\ OutcomeKept'
    BY DEF Held, HeldBy, Counted, Served, Exact, Unused, UnusedBy, Own, Marked, OutcomeKept
  <2>3. Fresh' /\ RefreshTokenUsable'
    BY DEF Fresh, FreshOf, RefreshTokenUsable, Replaced
  <2> QED
    BY <2>1, <2>2, <2>3
<1> QED
  BY <1>1, <1>2, <1>3 DEF Next

LEMMA Invariance == Spec => []IInv
BY InitIInv, NextIInv, PTL DEF Spec

-----------------------------------------------------------------------------
LEMMA IInvTypeOK == IInv => TypeOK
<1> SUFFICES ASSUME IInv
             PROVE  TypeOK
  OBVIOUS
<1> USE DEF IInv
<1>1. granted \in Nat /\ granted <= Cardinality(Flows) /\ Cardinality(Flows) \in Nat
  <2>1. /\ Cardinality(Served) \in Nat /\ Cardinality(Flows) \in Nat
        /\ Cardinality(Served) <= Cardinality(Flows)
    BY FlowAssumption, FS_Subset, FS_CardinalityType DEF Served
  <2> QED
    BY <2>1 DEF Typed, Counted
<1>2. spent \cup expired \cup lost \subseteq 1..granted
  BY <1>1 DEF Typed, Bounded
<1>3. row \in {NoRow} \cup [result : Results, batch : Batches, connected : BOOLEAN,
                            access : 0..granted, refresh : 0..granted]
  <2>1. CASE row \in RowType
    <3>1. row.access \in 0..granted /\ row.refresh \in 0..granted
      BY <1>1, <2>1 DEF RowType, Bounded
    <3> QED
      BY <2>1, <3>1 DEF RowType
  <2> QED
    BY <2>1 DEF Typed
<1>4. ASSUME NEW f \in Flows
      PROVE  /\ flow[f].kind \in AllKinds \cup {"none"} /\ flow[f].step \in Steps
             /\ flow[f].access \in 0..granted /\ flow[f].refresh \in 0..granted
  <2>1. flow[f] \in FlowType
    BY DEF Typed
  <2>2. flow[f].access <= granted /\ flow[f].refresh <= granted
    BY DEF Bounded
  <2> QED
    BY <1>1, <2>1, <2>2 DEF FlowType
<1> QED
  BY <1>1, <1>2, <1>3, <1>4 DEF TypeOK, Typed, Steps, SyncType

LEMMA IInvHealthy == IInv => HealthyAfterSync
<1> SUFFICES ASSUME IInv, NEW w \in View, Advice(w) = "healthy"
             PROVE  row.connected /\ row.access \in Grants \ expired /\ latest # NoSync
  BY DEF HealthyAfterSync
<1> DEFINE G == Guards(w)
           Tried(i) == G[i][1] /\ \A k \in 1..(i - 1) : ~G[k][1]
           n == CHOOSE i \in DOMAIN G : Tried(i)
<1>1. DOMAIN G = 1..8 /\ G[8][1]
  BY DEF Guards
<1>2. n \in 1..8 /\ Tried(n)
  <2>1. \E i \in DOMAIN G : Tried(i)
    <3>1. \/ Tried(1) \/ Tried(2) \/ Tried(3) \/ Tried(4) \/ Tried(5) \/ Tried(6) \/ Tried(7)
          \/ Tried(8)
      <4> HIDE DEF G
      <4> QED
        BY <1>1
    <3> HIDE DEF Tried, G
    <3> QED
      BY <1>1, <3>1
  <2> HIDE DEF Tried, G
  <2> QED
    BY <1>1, <2>1
<1>3. n = 8
  <2>1. Advice(w) = G[n][2]
    BY DEF Advice
  <2>2. /\ G[1][2] # "healthy" /\ G[2][2] # "healthy" /\ G[3][2] # "healthy" /\ G[4][2] # "healthy"
        /\ G[5][2] # "healthy" /\ G[6][2] # "healthy" /\ G[7][2] # "healthy"
    BY DEF Guards
  <2> HIDE DEF G, n
  <2> QED
    BY <1>2, <2>1, <2>2
<1>4. ~G[1][1] /\ ~G[2][1] /\ ~G[3][1] /\ ~G[5][1]
  <2> HIDE DEF G, n
  <2> QED
    BY <1>2, <1>3
<1>5. /\ row.connected /\ row.access # 0 /\ row.access \notin expired
      /\ row.result \notin {"not_started", "oauth_connected"}
  BY <1>4 DEF Guards
<1>6. latest # NoSync
  BY <1>5 DEF IInv, Typed, RowType, NoRow, Results, Outcomes, Marked
<1>7. row.access \in 1..Cardinality(Flows)
  <2>1. TypeOK
    BY IInvTypeOK
  <2> QED
    BY <1>5, <2>1, FlowAssumption, FS_CardinalityType DEF TypeOK, NoRow
<1> QED
  BY <1>5, <1>6, <1>7 DEF Grants

\* The values keep their types, and no token has a number that the service has not granted.
THEOREM TypeCorrect == Spec => []TypeOK
BY Invariance, IInvTypeOK, PTL

\* However many flows refresh and connect at once, the refresh token that store_tokens has left
\* is of use, unless a flow has yet to store its replacement or that has been lost.
THEOREM TokenOfUse == Spec => []RefreshTokenUsable
<1>1. IInv => RefreshTokenUsable
  BY DEF IInv
<1> QED
  BY <1>1, Invariance, PTL

\* However syncs, connects and refreshes overtake each other, time and counts are those of the
\* sync that completed last; and the result is that of the sync that ended last, unless a sync
\* with a stale copy has left its own out or a connect with one has put its marker over it.
THEOREM OutcomeHolds == Spec => []OutcomeKept
<1>1. IInv => OutcomeKept
  BY DEF IInv
<1> QED
  BY <1>1, Invariance, PTL

\* build_live_status calls a connection healthy only with an access token that has not expired
\* and after a sync has left an outcome.
THEOREM HealthyAdvice == Spec => []HealthyAfterSync
BY Invariance, IInvHealthy, PTL

\* The refresh token of the connection is replaced only by the one that the storing flow was
\* granted itself: it is not spent and no session has ever read it.  In particular neither a
\* copy made before another flow's commit, nor the outcome of a sync, brings an old token back.
THEOREM NoTokenComesBack ==
  Spec => [][row'.refresh # row.refresh =>
               /\ row'.refresh # 0 /\ row'.refresh \notin spent
               /\ \E f \in Flows : flow[f].step = "store" /\ row'.refresh = flow[f].refresh
               /\ \A g \in Flows : flow[g].copy.refresh # row'.refresh]_vars
<1>1. ASSUME IInv, [Next]_vars, row'.refresh # row.refresh
      PROVE  /\ row'.refresh # 0 /\ row'.refresh \notin spent
             /\ \E f \in Flows : flow[f].step = "store" /\ row'.refresh = flow[f].refresh
             /\ \A g \in Flows : flow[g].copy.refresh # row'.refresh
  <2>1. PICK f \in Flows : Step(f)
    BY <1>1 DEF Next, AccessExpires, vars
  <2>2. StoreTokens(f)
    BY <1>1, <2>1, RowKept DEF IInv
  <2>3. flow[f].refresh # 0 /\ row'.refresh = flow[f].refresh
    BY <1>1, <2>2, RowStored DEF IInv
  <2>4. flow[f].step = "store" /\ FreshOf(f)
    BY <1>1, <2>2 DEF StoreTokens, IInv, Fresh
  <2> QED
    BY <2>3, <2>4 DEF FreshOf
<1> QED
  BY <1>1, Invariance, PTL DEF Spec
=============================================================================
