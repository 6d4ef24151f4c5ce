------------------------ MODULE DataLifecycleProofs ------------------------
(***************************************************************************)
(* Erasing data for any number of merchants, scripts, requests and claims, *)
(* on both databases.  What a script has listed or a request has loaded is *)
(* a claim that has existed (Dated), on PostgreSQL under the same id for   *)
(* ever (Named); what a script has listed may be erased by it (Listed);    *)
(* and on SQLite, where nobody else writes while one erases, the DELETEs   *)
(* have caught every row there is (Caught).  Nothing has an owner yet to   *)
(* come (Dated), and on PostgreSQL none that is gone (ErasedLeaveNoRows).  *)
(***************************************************************************)
EXTENDS DataLifecycle, FiniteSetTheorems, WellFoundedInduction, TLAPS

RequestKinds == {"note", "draft", "reply", "delete", "sync"}
DemoOwners == [mall : DemoMalls, gen : 0..MaxClaims]
ClaimType == [owner : Owners, late : BOOLEAN, life : Lives, gen : Nat]
RowType == [table : ClaimTables, claim : Ids, gen : Nat, late : BOOLEAN]
MallRowType == [table : MallTables, owner : Owners, late : BOOLEAN]
ListType == [id : Ids, gen : Nat]
\* A request that has no claim has a merchant.
RequestType == {q \in [kind : RequestKinds, owner : Owners \cup {NoOwner}, id : 0..MaxClaims,
                       gen : Nat] : q.id = 0 => q.owner \in Owners}
Tasks == {"none", "purge", "reset", "seed"}
Steps == {"idle", "listed", "deleting", "seeding", "unseeded"}
ScriptType == [task : Tasks, step : Steps, listed : SUBSET ListType, malls : SUBSET DemoOwners,
               gone : SUBSET (RowType \cup MallRowType)]

Typed ==
  /\ engine \in {"postgresql", "sqlite"}
  /\ merchants \subseteq Owners /\ \A m, k \in merchants : m.mall = k.mall => m = k
  /\ claims \in [Ids -> {None} \cup ClaimType]
  /\ claimRows \subseteq RowType
  /\ mallRows \subseteq MallRowType
  /\ script \in [Scripts -> ScriptType]
  /\ request \in [Requests -> {Quiet} \cup RequestType]
  /\ born \in 0..MaxClaims /\ ranOut \subseteq Nat /\ missed \subseteq Nat

\* Generations, and ids, are those of claims inserted so far, and of merchants.
Dated ==
  /\ \A m \in merchants : m.gen <= born
  /\ \A c \in Stored : c <= born /\ claims[c].gen \in 1..born /\ claims[c].owner.gen <= born
  /\ \A w \in claimRows : w.gen \in 1..born
  /\ \A w \in mallRows : w.owner.gen <= born
  /\ \A s \in Scripts : \A k \in script[s].listed : k.gen \in 1..born
  /\ \A r \in Requests : /\ request[r].owner.gen <= born /\ request[r].gen \in 0..born
                         /\ request[r].id # 0 => request[r].gen \in 1..born
  /\ ranOut \subseteq 1..born /\ missed \subseteq 1..born

\* On PostgreSQL the id of a claim tells its generation.
Named ==
  engine = "postgresql" =>
    /\ \A c \in Stored : claims[c].gen = c
    /\ \A s \in Scripts : \A k \in script[s].listed : k.gen = k.id
    /\ \A r \in Requests : request[r].id # 0 => request[r].gen = request[r].id

RanOut == \A c \in Stored : claims[c].life = "expired" => claims[c].gen \in ranOut

\* A purge has listed claims whose retention has run out, a reset those of demo merchants.
Listed ==
  \A s \in Scripts :
    /\ script[s].step \in {"listed", "deleting"} => script[s].task \in {"purge", "reset"}
    /\ script[s].task = "purge" => /\ script[s].malls = {}
                                   /\ \A k \in script[s].listed : k.gen \in ranOut
    /\ script[s].task = "reset" =>
         \A k \in script[s].listed :
           claims[k.id].gen = k.gen => Among(claims[k.id].owner, script[s].malls)

\* One script at a time is between its DELETEs and its commit.  What it has deleted is in one
\* of the tables it erases; on SQLite that is all there is.
Caught ==
  /\ \A s, t \in Erasing : s = t
  /\ \A s \in Scripts :
       /\ script[s].gone \subseteq claimRows \cup mallRows
       /\ script[s].step # "deleting" => script[s].gone = {}
       /\ \A w \in script[s].gone : w \in MallRowType \/ w.table \in ErasedClaimTables
       /\ script[s].step = "deleting" /\ engine = "sqlite" =>
            /\ \A w \in claimRows :
                 w.table \in ErasedClaimTables /\ w.claim \in ListedIds(s) => w \in script[s].gone
            /\ \A w \in mallRows, m \in script[s].malls :
                 w.owner.mall = m.mall => w \in script[s].gone

IInv == Typed /\ Dated /\ Named /\ RanOut /\ Listed /\ Caught /\ ErasedLeaveNoRows

-----------------------------------------------------------------------------
\* Initially

LEMMA InitIInv == Init => IInv
<1> SUFFICES ASSUME Init PROVE IInv
  OBVIOUS
<1>1. Idle \in ScriptType /\ Idle.step = "idle" /\ Idle.gone = {} /\ Idle.listed = {}
      /\ Idle.task = "none" /\ Idle.malls = {}
  BY DEF Idle, ScriptType, Tasks, Steps
<1>2. \A s \in Scripts : script[s] = Idle
  BY DEF Init
<1>3. Stored = {} /\ Erasing = {}
  BY <1>1, <1>2 DEF Init, Stored, Erasing
<1>7. Live \subseteq Owners /\ \A m \in Live : m.gen = 0
  BY BoundAssumption DEF Live, Owners
<1>4. Typed
  <2>1. mallRows \subseteq MallRowType /\ merchants \subseteq Owners
        /\ \A m, k \in merchants : m.mall = k.mall => m = k
    <3>1. [table : Integrations, owner : Live, late : {FALSE}] \subseteq MallRowType
      BY <1>7 DEF MallRowType, MallTables
    <3>2. \A m, k \in Live : m.mall = k.mall => m = k
      BY DEF Live
    <3> QED
      BY <1>7, <3>1, <3>2 DEF Init
  <2>2. script \in [Scripts -> ScriptType]
    BY <1>1 DEF Init
  <2>3. born \in 0..MaxClaims
    BY BoundAssumption DEF Init
  <2> QED
    BY <2>1, <2>2, <2>3 DEF Init, Typed
<1>5. Dated /\ Named /\ RanOut
  <2>1. \A r \in Requests : request[r].owner.gen = 0 /\ request[r].gen = 0 /\ request[r].id = 0
    BY DEF Init, Quiet, NoOwner
  <2>2. /\ \A m \in merchants : m.gen <= born
        /\ \A w \in mallRows : w.owner.gen <= born
    <3>1. \A w \in [table : Integrations, owner : Live, late : {FALSE}] : w.owner \in Live
      OBVIOUS
    <3>2. \A m \in Live : m.gen <= 0
      BY <1>7
    <3> QED
      BY <3>1, <3>2 DEF Init
  <2>3. claimRows = {} /\ born = 0 /\ ranOut = {} /\ missed = {}
    BY DEF Init
  <2>4. Dated
    BY <1>1, <1>2, <1>3, <2>1, <2>2, <2>3 DEF Dated
  <2> QED
    BY <1>1, <1>2, <1>3, <2>1, <2>4 DEF Named, RanOut
<1>6. Listed /\ Caught
  BY <1>1, <1>2, <1>3 DEF Listed, Caught
<1>8. ErasedLeaveNoRows
  BY <1>3 DEF Init, ErasedLeaveNoRows, Gone
<1> QED
  BY <1>4, <1>5, <1>6, <1>8 DEF IInv

-----------------------------------------------------------------------------
\* What is stored

LEMMA StoredClaim ==
  ASSUME IInv, NEW c \in Ids
  PROVE  /\ c \in Stored <=> claims[c].gen # 0
         /\ c \in Stored => claims[c] \in ClaimType /\ claims[c].gen \in 1..born
<1>1. claims[c] \in {None} \cup ClaimType
  BY DEF IInv, Typed
<1>2. c \in Stored => claims[c] \in ClaimType /\ claims[c].gen \in 1..born
  BY <1>1 DEF IInv, Dated, Stored
<1>3. born \in Nat
  BY BoundAssumption DEF IInv, Typed
<1>4. c \in Stored => claims[c].gen # 0
  BY <1>2, <1>3
<1>5. c \notin Stored => claims[c].gen = 0
  BY DEF Stored, None
<1> QED
  BY <1>2, <1>4, <1>5

\* Everybody else's state stays as it is if the rows and the claims do.
LEMMA Unwritten ==
  ASSUME IInv, UNCHANGED <<engine, tables, history>>,
         script' \in [Scripts -> ScriptType],
         request' \in [Requests -> {Quiet} \cup RequestType],
         Dated', Named', Listed', Caught'
  PROVE  IInv'
<1>1. Typed'
  BY DEF IInv, Typed, tables, history
<1>2. RanOut'
  BY DEF IInv, RanOut, Stored, tables, history
<1>3. ErasedLeaveNoRows'
  BY DEF IInv, ErasedLeaveNoRows, Gone, Stored, tables, history
<1> QED
  BY <1>1, <1>2, <1>3 DEF IInv

\* A script that begins, is refused or fails.
LEMMA ScriptStep ==
  ASSUME IInv, NEW s \in Scripts, UNCHANGED <<engine, tables, request, history>>,
         NEW next \in ScriptType, script' = [script EXCEPT ![s] = next],
         next.step # "deleting", next.gone = {},
         next.step = "listed" => next.task \in {"purge", "reset"},
         next.task = "purge" => next.malls = {},
         \A k \in next.listed :
           /\ k.gen \in 1..born /\ (engine = "postgresql" => k.gen = k.id)
           /\ next.task = "purge" => k.gen \in ranOut
           /\ next.task = "reset" /\ claims[k.id].gen = k.gen
                => Among(claims[k.id].owner, next.malls)
  PROVE  IInv'
<1>1. /\ script'[s] = next /\ \A t \in Scripts : t # s => script'[t] = script[t]
      /\ script' \in [Scripts -> ScriptType]
  BY DEF IInv, Typed
<1>2. /\ claims' = claims /\ claimRows' = claimRows /\ mallRows' = mallRows /\ engine' = engine
      /\ born' = born /\ ranOut' = ranOut /\ missed' = missed /\ Stored' = Stored
      /\ merchants' = merchants /\ request' = request
  BY DEF tables, history, Stored
<1>3. Dated'
  <2>1. \A t \in Scripts : \A k \in script'[t].listed : k.gen \in 1..born
    BY <1>1 DEF IInv, Dated
  <2> QED
    BY <1>2, <2>1 DEF IInv, Dated
<1>4. Named'
  <2>1. engine = "postgresql" => \A t \in Scripts : \A k \in script'[t].listed : k.gen = k.id
    BY <1>1 DEF IInv, Named
  <2> QED
    BY <1>2, <2>1 DEF IInv, Named
<1>5. Listed'
  BY <1>1, <1>2 DEF IInv, Listed, Among, SameId
<1>6. Caught'
  <2>1. Erasing' \subseteq Erasing
    BY <1>1 DEF Erasing
  <2>2. \A t \in Scripts : t # s => ListedIds(t)' = ListedIds(t)
    BY <1>1 DEF ListedIds
  <2> QED
    BY <1>1, <1>2, <2>1, <2>2 DEF IInv, Caught
<1>7. request' \in [Requests -> {Quiet} \cup RequestType]
  BY DEF IInv, Typed
<1> QED
  BY <1>1, <1>3, <1>4, <1>5, <1>6, <1>7, Unwritten

\* What a script takes down of a set of claims.
LEMMA ListOf ==
  ASSUME IInv, NEW ids \in SUBSET Stored
  PROVE  /\ List(ids) \subseteq ListType
         /\ \A k \in List(ids) : /\ k.id \in ids /\ k.gen = claims[k.id].gen
                                 /\ k.gen \in 1..born /\ (engine = "postgresql" => k.gen = k.id)
<1>1. ASSUME NEW c \in ids
      PROVE  c \in Ids /\ claims[c].gen \in Nat /\ claims[c].gen \in 1..born
             /\ (engine = "postgresql" => claims[c].gen = c)
  <2>1. c \in Ids /\ c \in Stored
    BY DEF Stored
  <2>2. claims[c].gen \in 1..born
    BY <2>1, StoredClaim
  <2> QED
    BY <2>1, <2>2 DEF IInv, Named
<1> QED
  BY <1>1 DEF List, ListType

LEMMA ReadKeeps ==
  ASSUME IInv, NEW s \in Scripts,
         PurgeRead(s) \/ ResetRead(s) \/ EraseFails(s) \/ SeedRead(s) \/ SeedSkipped(s)
  PROVE  IInv'
<1>1. UNCHANGED <<engine, tables, request, history>>
  BY DEF PurgeRead, ResetRead, EraseFails, SeedRead, SeedSkipped
<1>2. /\ Idle \in ScriptType /\ Idle.step = "idle" /\ Idle.gone = {} /\ Idle.listed = {}
      /\ Idle.malls = {}
  BY DEF Idle, ScriptType, Tasks, Steps
<1>3. script[s] \in ScriptType /\ script \in [Scripts -> ScriptType]
  BY DEF IInv, Typed
<1>4. CASE PurgeRead(s)
  <2> DEFINE next == [Idle EXCEPT !.task = "purge", !.step = "listed", !.listed = List(Purgeable)]
  <2>1. script' = [script EXCEPT ![s] = next]
    BY <1>3, <1>4 DEF PurgeRead
  <2>2. Purgeable \subseteq Stored /\ \A c \in Purgeable : claims[c].gen \in ranOut
    BY DEF Purgeable, IInv, RanOut
  <2>3. List(Purgeable) \subseteq ListType
    BY <2>2, ListOf
  <2>4. /\ next \in ScriptType /\ next.step = "listed" /\ next.task = "purge" /\ next.gone = {}
        /\ next.listed = List(Purgeable) /\ next.malls = {}
    BY <1>2, <2>3 DEF ScriptType, Idle, Tasks, Steps
  <2> HIDE DEF next
  <2>5. \A k \in next.listed : k.gen \in 1..born /\ (engine = "postgresql" => k.gen = k.id)
                               /\ k.gen \in ranOut
    BY <2>2, <2>4, ListOf
  <2> QED
    BY <1>1, <2>1, <2>4, <2>5, ScriptStep
<1>5. CASE ResetRead(s)
  <2> DEFINE demo == DemoMerchants
             ids == ClaimsOf(demo)
             st == IF demo = {} THEN "seeding" ELSE "listed"
             next == [Idle EXCEPT !.task = "reset", !.step = st, !.listed = List(ids), !.malls = demo]
  <2>1. script' = [script EXCEPT ![s] = next]
    BY <1>3, <1>5 DEF ResetRead
  <2>2. ids \subseteq Stored /\ \A c \in ids : Among(claims[c].owner, demo)
    BY DEF ClaimsOf
  <2>3. List(ids) \subseteq ListType
    BY <2>2, ListOf
  <2>4. st \in {"seeding", "listed"} /\ demo \subseteq DemoOwners
    BY DEF IInv, Typed, Owners, DemoOwners, DemoMerchants
  <2> HIDE DEF st, ids, demo
  <2>5. /\ next \in ScriptType /\ next.step = st /\ next.task = "reset" /\ next.gone = {}
        /\ next.listed = List(ids) /\ next.malls = demo
    BY <1>2, <2>3, <2>4 DEF ScriptType, Idle, Tasks, Steps
  <2> HIDE DEF next
  <2>6. \A k \in next.listed : k.gen \in 1..born /\ (engine = "postgresql" => k.gen = k.id)
                               /\ Among(claims[k.id].owner, demo)
    BY <2>2, <2>5, ListOf
  <2> QED
    BY <1>1, <2>1, <2>4, <2>5, <2>6, ScriptStep
<1>6. CASE EraseFails(s) \/ SeedSkipped(s)
  <2>1. script' = [script EXCEPT ![s] = Idle]
    BY <1>6 DEF EraseFails, SeedSkipped
  <2> QED
    BY <1>1, <1>2, <2>1, ScriptStep
<1>7. CASE SeedRead(s)
  <2> DEFINE next == [script[s] EXCEPT !.task = "seed", !.step = "unseeded"]
  <2>1. script' = [script EXCEPT ![s] = next]
    BY <1>3, <1>7 DEF SeedRead
  <2>2. /\ next \in ScriptType /\ next.step = "unseeded" /\ next.task = "seed"
        /\ next.gone = script[s].gone /\ next.listed = script[s].listed
    BY <1>3 DEF ScriptType, Tasks, Steps
  <2> HIDE DEF next
  <2>3. next.gone = {}
    BY <1>7, <2>2 DEF SeedRead, IInv, Caught
  <2>4. \A k \in next.listed : k.gen \in 1..born /\ (engine = "postgresql" => k.gen = k.id)
    BY <2>2 DEF IInv, Dated, Named
  <2> QED
    BY <1>1, <2>1, <2>2, <2>3, <2>4, ScriptStep
<1> QED
  BY <1>4, <1>5, <1>6, <1>7

\* The DELETEs of an eraser, which on SQLite nobody's rows can escape.
LEMMA DeleteRowsKeeps ==
  ASSUME IInv, NEW s \in Scripts, DeleteRows(s)
  PROVE  IInv'
<1> DEFINE g == {w \in claimRows : w.table \in ErasedClaimTables /\ w.claim \in ListedIds(s)}
                \cup RowsOfMalls(script[s].malls)
           next == [script[s] EXCEPT !.step = "deleting", !.gone = g]
<1>1. /\ script[s].step = "listed" /\ Erasing = {}
      /\ UNCHANGED <<engine, tables, request, history>>
      /\ script[s] \in ScriptType /\ script \in [Scripts -> ScriptType]
  BY DEF DeleteRows, IInv, Typed
<1>2. script' = [script EXCEPT ![s] = next]
  BY <1>1 DEF DeleteRows
<1>3. /\ g \subseteq claimRows \cup mallRows
      /\ \A w \in g : w \in MallRowType \/ w.table \in ErasedClaimTables
      /\ \A w \in claimRows : w.table \in ErasedClaimTables /\ w.claim \in ListedIds(s) => w \in g
      /\ engine = "sqlite" =>
           \A w \in mallRows, m \in script[s].malls : w.owner.mall = m.mall => w \in g
  BY DEF RowsOfMalls, Among, SameId, IInv, Typed
<1>4. g \in SUBSET (RowType \cup MallRowType)
  BY <1>3 DEF IInv, Typed
<1> HIDE DEF g
<1>5. /\ next \in ScriptType /\ next.step = "deleting" /\ next.gone = g
      /\ next.task = script[s].task /\ next.listed = script[s].listed
      /\ next.malls = script[s].malls
  BY <1>1, <1>4 DEF ScriptType, Tasks, Steps
<1> HIDE DEF next
<1>6. /\ script'[s] = next /\ \A t \in Scripts : t # s => script'[t] = script[t]
      /\ script' \in [Scripts -> ScriptType]
  BY <1>1, <1>2, <1>5
<1>7. /\ claims' = claims /\ claimRows' = claimRows /\ mallRows' = mallRows /\ engine' = engine
      /\ born' = born /\ ranOut' = ranOut /\ missed' = missed /\ request' = request
      /\ Stored' = Stored /\ merchants' = merchants
  BY <1>1 DEF tables, history, Stored
<1>8. \A t \in Scripts : /\ script'[t].listed = script[t].listed
                         /\ script'[t].malls = script[t].malls /\ script'[t].task = script[t].task
  BY <1>5, <1>6
<1>9. Dated' /\ Named'
  BY <1>7, <1>8 DEF IInv, Dated, Named
<1>10. Listed'
  BY <1>1, <1>5, <1>6, <1>7, <1>8 DEF IInv, Listed, Among, SameId
<1>11. Caught'
  <2>1. Erasing' = {s}
    BY <1>1, <1>5, <1>6 DEF Erasing
  <2>2. \A t \in Scripts : ListedIds(t)' = ListedIds(t)
    BY <1>8 DEF ListedIds
  <2>3. \A t \in Scripts : t # s => script'[t].step # "deleting" /\ script'[t].gone = {}
    BY <1>1, <1>6 DEF Erasing, IInv, Caught
  <2> QED
    BY <1>3, <1>5, <1>6, <1>7, <1>8, <2>1, <2>2, <2>3 DEF Caught
<1>12. request' \in [Requests -> {Quiet} \cup RequestType]
  BY <1>7 DEF IInv, Typed
<1> QED
  BY <1>1, <1>6, <1>9, <1>10, <1>11, <1>12, Unwritten

-----------------------------------------------------------------------------
\* Requests

LEMMA LoadKeeps ==
  ASSUME IInv, NEW r \in Requests, LoadMerchant(r) \/ Load(r) \/ CommitRefused(r)
  PROVE  IInv'
<1>1. UNCHANGED <<engine, tables, script, history>>
  BY DEF LoadMerchant, Load, CommitRefused
<1>2. /\ claims' = claims /\ claimRows' = claimRows /\ mallRows' = mallRows /\ engine' = engine
      /\ born' = born /\ ranOut' = ranOut /\ missed' = missed /\ script' = script
      /\ merchants' = merchants /\ Stored' = Stored /\ Erasing' = Erasing
  BY <1>1 DEF tables, history, Stored, Erasing
<1>3. PICK q : /\ request' = [request EXCEPT ![r] = q] /\ q \in {Quiet} \cup RequestType
               /\ q.owner.gen <= born /\ q.gen \in 0..born
               /\ q.id # 0 => q.gen \in 1..born /\ (engine = "postgresql" => q.gen = q.id)
  <2>1. /\ request \in [Requests -> {Quiet} \cup RequestType]
        /\ born \in Nat /\ MaxClaims \in Nat
    BY BoundAssumption DEF IInv, Typed
  <2>2. CASE Load(r)
    <3>1. PICK c \in Stored, k \in Kinds[r] :
            request' = [request EXCEPT ![r].kind = k, ![r].id = c, ![r].gen = claims[c].gen]
      BY <2>2 DEF Load
    <3>2. c \in Ids
      BY DEF Stored
    <3>3. claims[c].gen \in 1..born /\ claims[c].gen \in Nat /\ k \in RequestKinds
      BY <3>2, StoredClaim, KindAssumption DEF RequestKinds
    <3>4. engine = "postgresql" => claims[c].gen = c
      BY DEF IInv, Named
    <3> DEFINE q == [Quiet EXCEPT !.kind = k, !.id = c, !.gen = claims[c].gen]
    <3>5. request' = [request EXCEPT ![r] = q]
      BY <2>1, <2>2, <3>1 DEF Load
    <3>7. /\ Quiet \in [kind : RequestKinds \cup {"none"}, owner : Owners \cup {NoOwner},
                        id : 0..MaxClaims, gen : Nat]
          /\ Quiet.owner = NoOwner /\ Quiet.id = 0 /\ Quiet.gen = 0
      BY <2>1 DEF Quiet
    <3>9. c # 0 /\ c \in 0..MaxClaims /\ NoOwner.gen = 0
      BY <2>1, <3>2 DEF Ids, NoOwner
    <3>6. /\ q \in RequestType /\ q.gen = claims[c].gen /\ q.id = c /\ q.owner.gen = 0
      BY <3>3, <3>7, <3>9 DEF RequestType
    <3> HIDE DEF q
    <3>8. /\ q.owner.gen <= born /\ q.gen \in 0..born
          /\ q.id # 0 => q.gen \in 1..born /\ (engine = "postgresql" => q.gen = q.id)
      BY <2>1, <3>3, <3>4, <3>6
    <3> QED
      BY <3>5, <3>6, <3>8
  <2>3. CASE LoadMerchant(r)
    <3>1. PICK m \in merchants : request' = [request EXCEPT ![r].kind = "sync", ![r].owner = m]
      BY <2>3 DEF LoadMerchant
    <3>2. m \in Owners /\ m.gen <= born
      BY DEF IInv, Typed, Dated
    <3> DEFINE q == [Quiet EXCEPT !.kind = "sync", !.owner = m]
    <3>3. request' = [request EXCEPT ![r] = q]
      BY <2>1, <2>3, <3>1 DEF LoadMerchant
    <3>5. /\ Quiet \in [kind : RequestKinds \cup {"none"}, owner : Owners \cup {NoOwner},
                        id : 0..MaxClaims, gen : Nat]
          /\ Quiet.owner = NoOwner /\ Quiet.id = 0 /\ Quiet.gen = 0
      BY <2>1 DEF Quiet
    <3>4. q \in RequestType /\ q.gen = 0 /\ q.id = 0 /\ q.owner = m
      BY <3>2, <3>5 DEF RequestType, RequestKinds
    <3> HIDE DEF q
    <3>6. /\ q.owner.gen <= born /\ q.gen \in 0..born
          /\ q.id # 0 => q.gen \in 1..born /\ (engine = "postgresql" => q.gen = q.id)
      BY <2>1, <3>2, <3>4
    <3> QED
      BY <3>3, <3>4, <3>6
  <2>4. CASE CommitRefused(r)
    <3>1. Quiet.owner.gen <= born /\ Quiet.gen \in 0..born /\ Quiet.id = 0
      BY <2>1 DEF Quiet, NoOwner
    <3>2. request' = [request EXCEPT ![r] = Quiet]
      BY <2>4 DEF CommitRefused, Finished
    <3> QED
      BY <3>1, <3>2
  <2> QED
    BY <2>2, <2>3, <2>4
<1>4. /\ request' \in [Requests -> {Quiet} \cup RequestType] /\ request'[r] = q
      /\ \A p \in Requests : p # r => request'[p] = request[p]
  BY <1>3 DEF IInv, Typed
<1>5. Dated' /\ Named'
  BY <1>2, <1>3, <1>4 DEF IInv, Dated, Named
<1>6. Listed'
  BY <1>2 DEF IInv, Listed, Among, SameId
<1>7. Caught'
  BY <1>2 DEF IInv, Caught, ListedIds
<1>8. script' \in [Scripts -> ScriptType]
  BY <1>2 DEF IInv, Typed
<1> QED
  BY <1>1, <1>4, <1>5, <1>6, <1>7, <1>8, Unwritten

\* A write only takes rows out of what erasers have deleted.
LEMMA Escaped ==
  ASSUME IInv, NEW rows, script' = Escape(rows)
  PROVE  /\ script' \in [Scripts -> ScriptType] /\ Erasing' = Erasing
         /\ \A s \in Scripts :
              /\ script'[s].task = script[s].task /\ script'[s].step = script[s].step
              /\ script'[s].listed = script[s].listed /\ script'[s].malls = script[s].malls
              /\ script'[s].gone = script[s].gone \ rows /\ ListedIds(s)' = ListedIds(s)
<1>1. ASSUME NEW s \in Scripts
      PROVE  /\ script'[s] \in ScriptType
             /\ script'[s].task = script[s].task /\ script'[s].step = script[s].step
             /\ script'[s].listed = script[s].listed /\ script'[s].malls = script[s].malls
             /\ script'[s].gone = script[s].gone \ rows
  <2>1. script[s] \in ScriptType
    BY DEF IInv, Typed
  <2>2. script'[s] = [script[s] EXCEPT !.gone = script[s].gone \ rows]
    BY <2>1 DEF Escape, ScriptType
  <2> QED
    BY <2>1, <2>2 DEF ScriptType
<1>2. script' \in [Scripts -> ScriptType]
  <2>1. script' = [s \in Scripts |-> script'[s]]
    BY DEF Escape
  <2> QED
    BY <1>1, <2>1
<1>3. Erasing' = Erasing
  BY <1>1 DEF Erasing
<1> QED
  BY <1>1, <1>2, <1>3 DEF ListedIds

LEMMA RowsOf ==
  ASSUME NEW names \in SUBSET ClaimTables, NEW c \in Ids, NEW g \in Nat, NEW l \in BOOLEAN
  PROVE  /\ Rows(names, c, g, l) \subseteq RowType
         /\ \A w \in Rows(names, c, g, l) : w.claim = c /\ w.gen = g /\ w.late = l
BY DEF Rows, RowType

LEMMA CommitNewKeeps ==
  ASSUME IInv, NEW r \in Requests, CommitNew(r)
  PROVE  IInv'
<1> DEFINE q == request[r]
           late == claims[q.id].gen # q.gen
           new == Rows(Adds(q.kind), q.id, q.gen, late)
<1>1. /\ q.id # 0 /\ MayWrite
      /\ engine = "postgresql" => claims[q.id] # None
      /\ q.kind = "delete" => claims[q.id] # None
      /\ claims' = IF q.kind = "delete" THEN [claims EXCEPT ![q.id].life = "deleted"] ELSE claims
      /\ claimRows' = claimRows \cup new /\ script' = Escape(new)
      /\ request' = [request EXCEPT ![r] = Quiet]
      /\ UNCHANGED <<engine, merchants, mallRows, born, ranOut, missed>>
  BY DEF CommitNew, Finished, history
<1>2. /\ q \in RequestType /\ q.kind \in RequestKinds /\ q.id \in Ids /\ q.gen \in Nat
      /\ q.gen \in 1..born /\ (engine = "postgresql" => q.gen = q.id)
  <2>1. q # Quiet
    BY <1>1 DEF Quiet
  <2>2. q \in RequestType
    BY <2>1 DEF IInv, Typed
  <2>3. q.kind \in RequestKinds /\ q.id \in 0..MaxClaims /\ q.gen \in Nat
    BY <2>2 DEF RequestType
  <2>4. q.gen \in 1..born /\ (engine = "postgresql" => q.gen = q.id)
    BY <1>1 DEF IInv, Dated, Named
  <2> QED
    BY <1>1, <2>2, <2>3, <2>4, BoundAssumption DEF Ids
<1>3. /\ new \subseteq RowType
      /\ \A w \in new : w.claim = q.id /\ w.gen = q.gen /\ w.late = late
  <2>1. Adds(q.kind) \in SUBSET ClaimTables
    BY <1>2 DEF Adds, ClaimTables, RequestKinds
  <2>2. late \in BOOLEAN /\ new = Rows(Adds(q.kind), q.id, q.gen, late)
    OBVIOUS
  <2> HIDE DEF q, late, new
  <2>3. /\ Rows(Adds(q.kind), q.id, q.gen, late) \subseteq RowType
        /\ \A w \in Rows(Adds(q.kind), q.id, q.gen, late) :
             w.claim = q.id /\ w.gen = q.gen /\ w.late = late
    BY <1>2, <2>1, <2>2, RowsOf
  <2> QED
    BY <2>2, <2>3
<1> HIDE DEF new
<1>4. \A c \in Ids : /\ claims'[c].gen = claims[c].gen /\ claims'[c].owner = claims[c].owner
                     /\ claims'[c].late = claims[c].late
                     /\ claims'[c] = claims[c] \/ claims'[c].life = "deleted"
                     /\ claims'[c] # None <=> claims[c] # None
                     /\ claims'[c] \in {None} \cup ClaimType
  <2>1. claims \in [Ids -> {None} \cup ClaimType]
    BY DEF IInv, Typed
  <2>2. CASE q.kind # "delete"
    BY <1>1, <2>1, <2>2
  <2>3. CASE q.kind = "delete"
    <3>1. claims[q.id] \in ClaimType
      BY <1>1, <1>2, <2>1, <2>3
    <3>2. claims' = [claims EXCEPT ![q.id] = [claims[q.id] EXCEPT !.life = "deleted"]]
      BY <1>1, <2>3
    <3>3. /\ [claims[q.id] EXCEPT !.life = "deleted"] \in ClaimType
          /\ [claims[q.id] EXCEPT !.life = "deleted"].life = "deleted"
          /\ [claims[q.id] EXCEPT !.life = "deleted"].gen = claims[q.id].gen
          /\ [claims[q.id] EXCEPT !.life = "deleted"].owner = claims[q.id].owner
          /\ [claims[q.id] EXCEPT !.life = "deleted"].late = claims[q.id].late
      BY <3>1 DEF ClaimType, Lives
    <3>4. \A k \in ClaimType : k # None
      BY DEF ClaimType, None, Lives
    <3> HIDE DEF q
    <3> QED
      BY <1>1, <1>2, <2>1, <2>3, <3>1, <3>2, <3>3, <3>4
  <2> QED
    BY <2>2, <2>3
<1>5. /\ script' \in [Scripts -> ScriptType] /\ Erasing' = Erasing
      /\ \A s \in Scripts :
           /\ script'[s].task = script[s].task /\ script'[s].step = script[s].step
           /\ script'[s].listed = script[s].listed /\ script'[s].malls = script[s].malls
           /\ script'[s].gone = script[s].gone \ new /\ ListedIds(s)' = ListedIds(s)
  BY <1>1, Escaped
<1>6. Stored' = Stored /\ Stored \subseteq Ids
  BY <1>4 DEF Stored
<1>7. Typed'
  <2>1. claims' \in [Ids -> {None} \cup ClaimType]
    <3>1. claims' = [c \in Ids |-> claims'[c]]
      BY <1>1 DEF IInv, Typed
    <3> QED
      BY <1>4, <3>1
  <2>2. request' \in [Requests -> {Quiet} \cup RequestType]
    BY <1>1 DEF IInv, Typed
  <2> QED
    BY <1>1, <1>3, <1>5, <2>1, <2>2 DEF IInv, Typed
<1>8. \A p \in Requests : request'[p] = Quiet \/ request'[p] = request[p]
  BY <1>1 DEF IInv, Typed
<1>9. Dated'
  <2>1. \A w \in claimRows' : w.gen \in 1..born
    BY <1>1, <1>2, <1>3 DEF IInv, Dated
  <2>2. \A p \in Requests : /\ request'[p].owner.gen <= born /\ request'[p].gen \in 0..born
                            /\ request'[p].id # 0 => request'[p].gen \in 1..born
    <3>1. Quiet.owner.gen = 0 /\ Quiet.gen = 0 /\ Quiet.id = 0 /\ born \in Nat
      BY BoundAssumption DEF Quiet, NoOwner, IInv, Typed
    <3> QED
      BY <1>8, <3>1 DEF IInv, Dated
  <2> QED
    BY <1>1, <1>4, <1>5, <1>6, <2>1, <2>2 DEF IInv, Dated
<1>10. Named'
  BY <1>1, <1>4, <1>5, <1>6, <1>8 DEF IInv, Named, Quiet
<1>11. RanOut'
  BY <1>1, <1>4, <1>6 DEF IInv, RanOut
<1>12. Listed'
  <2>1. \A s \in Scripts : \A k \in script[s].listed : k.id \in Ids
    BY DEF IInv, Typed, ScriptType, ListType
  <2> QED
    BY <1>1, <1>4, <1>5, <2>1 DEF IInv, Listed, Among, SameId
<1>13. Caught'
  <2>1. engine = "sqlite" => \A s \in Scripts : script[s].step # "deleting"
    BY <1>1 DEF MayWrite, Erasing
  <2> QED
    BY <1>1, <1>5, <2>1 DEF IInv, Caught
<1>14. ErasedLeaveNoRows'
  <2>1. ASSUME NEW w \in claimRows', claims'[w.claim].gen # w.gen
        PROVE  engine = "sqlite" /\ (w.table = "ai_invocation_logs" \/ w.late \/ w.gen \in missed)
    <3>1. CASE w \in claimRows
      <4>1. w.claim \in Ids
        BY <3>1 DEF IInv, Typed, RowType
      <4> QED
        BY <1>4, <2>1, <3>1, <4>1 DEF IInv, ErasedLeaveNoRows
    <3>2. CASE w \in new
      <4>1. w.claim = q.id /\ w.gen = q.gen /\ w.late = late /\ claims[q.id].gen # q.gen
        BY <1>2, <1>3, <1>4, <2>1, <3>2
      <4>2. engine # "postgresql"
        <5>1. engine = "postgresql" => q.id \in Stored
          BY <1>1, <1>2 DEF Stored
        <5> QED
          BY <1>2, <4>1, <5>1 DEF IInv, Named
      <4> QED
        BY <4>1, <4>2 DEF IInv, Typed
    <3> QED
      BY <1>1, <3>1, <3>2
  <2>2. ASSUME NEW c \in Stored, claims'[c].owner \notin merchants
        PROVE  engine = "sqlite" /\ claims'[c].late
    BY <1>4, <1>6, <2>2 DEF IInv, ErasedLeaveNoRows, Gone
  <2>3. \A w \in mallRows : Gone(w.owner) => engine = "sqlite" /\ w.late
    BY DEF IInv, ErasedLeaveNoRows
  <2> QED
    BY <1>1, <1>6, <2>1, <2>2, <2>3 DEF ErasedLeaveNoRows, Gone
<1> QED
  BY <1>7, <1>9, <1>10, <1>11, <1>12, <1>13, <1>14 DEF IInv

-----------------------------------------------------------------------------
\* Merchants and time

LEMMA Holder ==
  ASSUME IInv, NEW r \in Requests, HoldsMerchant(r)
  PROVE  /\ MayWrite /\ request[r].owner \in Owners /\ request[r].owner.gen <= born
         /\ Gone(request[r].owner) => engine = "sqlite"
<1>1. request[r] \in RequestType /\ request[r].id = 0
  BY DEF HoldsMerchant, IInv, Typed
<1> QED
  BY <1>1 DEF HoldsMerchant, RequestType, IInv, Typed, Dated

LEMMA IntegrateKeeps ==
  ASSUME IInv, NEW r \in Requests, Integrate(r)
  PROVE  IInv'
<1> DEFINE m == request[r].owner
           connected == \E w \in mallRows : w.table = "cafe24_connections" /\ SameId(w.owner, m)
           new == [table : Integrations \ (IF connected THEN {"cafe24_connections"} ELSE {}),
                   owner : {m}, late : {Gone(m)}]
<1>1. /\ HoldsMerchant(r) /\ mallRows' = mallRows \cup new /\ script' = Escape(new)
      /\ claims' = claims /\ claimRows' = claimRows /\ engine' = engine /\ merchants' = merchants
      /\ born' = born /\ ranOut' = ranOut /\ missed' = missed /\ request' = request
      /\ Stored' = Stored
  BY DEF Integrate, history, Stored
<1>2. /\ MayWrite /\ m \in Owners /\ m.gen <= born /\ (Gone(m) => engine = "sqlite")
  BY <1>1, Holder
<1>3. new \subseteq MallRowType /\ \A w \in new : w.owner = m /\ w.late = Gone(m)
  <2>1. Gone(m) \in BOOLEAN
    BY DEF Gone
  <2> QED
    BY <1>2, <2>1 DEF MallRowType, MallTables
<1> HIDE DEF new, m
<1>4. /\ script' \in [Scripts -> ScriptType] /\ Erasing' = Erasing
      /\ \A s \in Scripts :
           /\ script'[s].task = script[s].task /\ script'[s].step = script[s].step
           /\ script'[s].listed = script[s].listed /\ script'[s].malls = script[s].malls
           /\ script'[s].gone = script[s].gone \ new /\ ListedIds(s)' = ListedIds(s)
  BY <1>1, Escaped
<1>5. Typed'
  BY <1>1, <1>3, <1>4 DEF IInv, Typed
<1>6. Dated'
  <2>1. \A w \in mallRows' : w.owner.gen <= born
    BY <1>1, <1>2, <1>3 DEF IInv, Dated
  <2> QED
    BY <1>1, <1>4, <2>1 DEF IInv, Dated
<1>7. Named' /\ RanOut'
  BY <1>1, <1>4 DEF IInv, Named, RanOut
<1>8. Listed'
  BY <1>1, <1>4 DEF IInv, Listed, Among, SameId
<1>9. Caught'
  <2>1. engine = "sqlite" => \A s \in Scripts : script[s].step # "deleting"
    BY <1>2 DEF MayWrite, Erasing
  <2> QED
    BY <1>1, <1>4, <2>1 DEF IInv, Caught
<1>10. ErasedLeaveNoRows'
  <2>1. \A w \in new : Gone(w.owner) => engine = "sqlite" /\ w.late
    BY <1>2, <1>3
  <2> QED
    BY <1>1, <2>1 DEF IInv, ErasedLeaveNoRows, Gone
<1> QED
  BY <1>5, <1>6, <1>7, <1>8, <1>9, <1>10 DEF IInv

LEMMA ExpireKeeps ==
  ASSUME IInv, NEW c \in Ids, Expire(c)
  PROVE  IInv'
<1>1. /\ claims[c].life = "deleted" /\ claims' = [claims EXCEPT ![c].life = "expired"]
      /\ ranOut' = ranOut \cup {claims[c].gen}
      /\ claimRows' = claimRows /\ mallRows' = mallRows /\ engine' = engine
      /\ merchants' = merchants /\ born' = born /\ missed' = missed /\ request' = request
      /\ script' = script /\ Erasing' = Erasing
  BY DEF Expire, Erasing
<1>2. claims \in [Ids -> {None} \cup ClaimType]
  BY DEF IInv, Typed
<1>3. claims[c] \in ClaimType /\ c \in Stored
  BY <1>1, <1>2 DEF None, Stored, ClaimType, Lives
<1>4. claims[c].gen \in 1..born /\ claims[c].gen \in Nat
  BY <1>3, StoredClaim DEF ClaimType
<1>5. \A d \in Ids : /\ claims'[d].gen = claims[d].gen /\ claims'[d].owner = claims[d].owner
                     /\ claims'[d].late = claims[d].late
                     /\ claims'[d] = claims[d] \/ d = c
                     /\ claims'[d] # None <=> claims[d] # None
                     /\ claims'[d] \in {None} \cup ClaimType
  <2> DEFINE k == [claims[c] EXCEPT !.life = "expired"]
  <2>1. claims' = [claims EXCEPT ![c] = k]
    BY <1>1
  <2>2. /\ k \in ClaimType /\ k.gen = claims[c].gen /\ k.owner = claims[c].owner
        /\ k.late = claims[c].late
    BY <1>3 DEF ClaimType, Lives
  <2>3. \A j \in ClaimType : j # None
    BY DEF ClaimType, None, Lives
  <2> HIDE DEF k
  <2> QED
    BY <1>2, <1>3, <2>1, <2>2, <2>3
<1>6. Stored' = Stored /\ Stored \subseteq Ids
  BY <1>5 DEF Stored
<1>7. Typed'
  <2>1. claims' \in [Ids -> {None} \cup ClaimType]
    <3>1. claims' = [d \in Ids |-> claims'[d]]
      BY <1>1, <1>2
    <3> QED
      BY <1>5, <3>1
  <2> QED
    BY <1>1, <1>4, <2>1 DEF IInv, Typed
<1>8. Dated'
  BY <1>1, <1>4, <1>5, <1>6 DEF IInv, Dated
<1>9. Named'
  BY <1>1, <1>5, <1>6 DEF IInv, Named
<1>10. RanOut'
  BY <1>1, <1>5, <1>6 DEF IInv, RanOut
<1>11. Listed'
  <2>1. \A s \in Scripts : \A k \in script[s].listed : k.id \in Ids
    BY DEF IInv, Typed, ScriptType, ListType
  <2> QED
    BY <1>1, <1>5, <2>1 DEF IInv, Listed, Among, SameId
<1>12. Caught'
  BY <1>1 DEF IInv, Caught, ListedIds
<1>13. ErasedLeaveNoRows'
  <2>1. \A w \in claimRows : w.claim \in Ids
    BY DEF IInv, Typed, RowType
  <2> QED
    <3>1. ASSUME NEW w \in claimRows, claims'[w.claim].gen # w.gen
          PROVE  engine = "sqlite" /\ (w.table = "ai_invocation_logs" \/ w.late \/ w.gen \in missed)
      BY <1>5, <2>1, <3>1 DEF IInv, ErasedLeaveNoRows
    <3>2. ASSUME NEW d \in Stored, claims'[d].owner \notin merchants
          PROVE  engine = "sqlite" /\ claims'[d].late
      BY <1>5, <1>6, <3>2 DEF IInv, ErasedLeaveNoRows, Gone
    <3>3. \A w \in mallRows : Gone(w.owner) => engine = "sqlite" /\ w.late
      BY DEF IInv, ErasedLeaveNoRows
    <3> QED
      BY <1>1, <1>6, <3>1, <3>2, <3>3 DEF ErasedLeaveNoRows, Gone
<1> QED
  BY <1>7, <1>8, <1>9, <1>10, <1>11, <1>12, <1>13 DEF IInv

-----------------------------------------------------------------------------
\* The commit of an eraser

LEMMA EraseKeeps ==
  ASSUME IInv, NEW s \in Scripts, EraseCommit(s)
  PROVE  IInv'
<1> DEFINE next == IF script[s].task = "reset"
                   THEN [Idle EXCEPT !.task = "reset", !.step = "seeding"] ELSE Idle
<1>1. /\ script[s].step = "deleting"
      /\ engine = "postgresql" => Left(s) = {}
      /\ claims' = [c \in Ids |-> IF c \in Matched(s) THEN None ELSE claims[c]]
      /\ claimRows' = claimRows \ script[s].gone /\ mallRows' = mallRows \ script[s].gone
      /\ merchants' = {m \in merchants : ~Among(m, script[s].malls)}
      /\ missed' = missed \cup {claims[c].gen : c \in Matched(s) \ ListedIds(s)}
      /\ engine' = engine /\ request' = request /\ born' = born /\ ranOut' = ranOut
  BY DEF EraseCommit, Erase
<1>2. script \in [Scripts -> ScriptType] /\ script[s] \in ScriptType
  BY DEF IInv, Typed
<1>3. script' = [script EXCEPT ![s] = next]
  BY <1>2 DEF EraseCommit, Erase
<1>4. /\ next \in ScriptType /\ next.step # "deleting" /\ next.step # "listed"
      /\ next.gone = {} /\ next.listed = {} /\ next.malls = {}
  BY DEF Idle, ScriptType, Tasks, Steps
<1> HIDE DEF next
<1>5. /\ script'[s] = next /\ \A t \in Scripts : t # s => script'[t] = script[t]
      /\ script' \in [Scripts -> ScriptType]
  BY <1>2, <1>3, <1>4
<1>6. Matched(s) \subseteq Stored /\ Stored \subseteq Ids
  BY DEF Matched, ClaimsOf, Stored
<1>7. \A c \in Matched(s) : claims[c].gen \in 1..born /\ claims[c].gen \in Nat
  BY <1>6, StoredClaim DEF ClaimType
<1>8. \A c \in Ids : claims'[c] = IF c \in Matched(s) THEN None ELSE claims[c]
  BY <1>1
<1>9. Stored' = Stored \ Matched(s)
  BY <1>8 DEF Stored
\* No other script is erasing, so nobody misses what is deleted.
<1>10. \A t \in Scripts : t # s => script[t].step # "deleting" /\ script[t].gone = {}
  BY <1>1 DEF Erasing, IInv, Caught
<1>11. \A w \in mallRows : Among(w.owner, script[s].malls) => w \in script[s].gone
  <2>1. CASE engine = "sqlite"
    BY <1>1, <2>1 DEF IInv, Caught, Among, SameId
  <2>2. CASE engine = "postgresql"
    BY <1>1, <2>2 DEF Left, RowsOfMalls
  <2> QED
    BY <2>1, <2>2 DEF IInv, Typed
<1>12. Typed'
  <2>1. claims' \in [Ids -> {None} \cup ClaimType]
    BY <1>1 DEF IInv, Typed
  <2>2. missed' \subseteq Nat
    BY <1>1, <1>7 DEF IInv, Typed
  <2>3. merchants' \subseteq Owners /\ \A m, k \in merchants' : m.mall = k.mall => m = k
    BY <1>1 DEF IInv, Typed
  <2> QED
    BY <1>1, <1>5, <2>1, <2>2, <2>3 DEF IInv, Typed
<1>13. Dated'
  <2>1. \A c \in Stored' : c \in Stored /\ claims'[c] = claims[c]
    BY <1>6, <1>8, <1>9
  <2>2. \A t \in Scripts : \A k \in script'[t].listed : k.gen \in 1..born
    BY <1>4, <1>5 DEF IInv, Dated
  <2>3. missed' \subseteq 1..born
    BY <1>1, <1>7 DEF IInv, Dated
  <2> QED
    BY <1>1, <2>1, <2>2, <2>3 DEF IInv, Dated
<1>14. Named'
  <2>1. \A c \in Stored' : c \in Stored /\ claims'[c] = claims[c]
    BY <1>6, <1>8, <1>9
  <2>2. engine = "postgresql" => \A t \in Scripts : \A k \in script'[t].listed : k.gen = k.id
    BY <1>4, <1>5 DEF IInv, Named
  <2> QED
    BY <1>1, <2>1, <2>2 DEF IInv, Named
<1>15. RanOut'
  <2>1. \A c \in Stored' : c \in Stored /\ claims'[c] = claims[c]
    BY <1>6, <1>8, <1>9
  <2> QED
    BY <1>1, <2>1 DEF IInv, RanOut
<1>16. Listed'
  <2>1. ASSUME NEW t \in Scripts, NEW k \in script[t].listed, claims'[k.id].gen = k.gen
        PROVE  claims[k.id].gen = k.gen /\ claims'[k.id].owner = claims[k.id].owner
    <3>1. k.id \in Ids /\ k.gen # 0
      BY BoundAssumption DEF IInv, Typed, Dated, ScriptType, ListType
    <3> QED
      BY <1>8, <2>1, <3>1 DEF None
  <2>2. ASSUME NEW t \in Scripts, t # s, script[t].task = "reset", NEW k \in script[t].listed,
               claims'[k.id].gen = k.gen
        PROVE  Among(claims[k.id].owner, script[t].malls)'
    <3>1. Among(claims[k.id].owner, script[t].malls)
      BY <2>1, <2>2 DEF IInv, Listed
    <3>2. script'[t].malls = script[t].malls
      BY <1>5, <2>2
    <3> QED
      BY <1>1, <2>1, <2>2, <3>1, <3>2 DEF Among, SameId
  <2> QED
    BY <1>1, <1>4, <1>5, <2>2 DEF IInv, Listed
<1>17. Caught'
  <2>1. \A t \in Scripts : script'[t].gone = {} /\ script'[t].step # "deleting"
    BY <1>4, <1>5, <1>10
  <2>2. Erasing' = {}
    BY <2>1 DEF Erasing
  <2> QED
    BY <2>1, <2>2 DEF Caught
<1>18. ErasedLeaveNoRows'
  <2>1. ASSUME NEW w \in claimRows', claims'[w.claim].gen # w.gen
        PROVE  engine = "sqlite" /\ (w.table = "ai_invocation_logs" \/ w.late \/ w.gen \in missed')
    <3>1. w \in claimRows \ script[s].gone /\ w \in RowType /\ w.claim \in Ids
      BY <1>1 DEF IInv, Typed, RowType
    <3>2. CASE claims[w.claim].gen # w.gen
      BY <1>1, <3>1, <3>2 DEF IInv, ErasedLeaveNoRows
    <3>3. CASE claims[w.claim].gen = w.gen
      <4>1. w.claim \in Matched(s)
        BY <1>8, <2>1, <3>1, <3>3
      <4>2. engine = "sqlite"
        <5>1. engine = "postgresql" => w \in Left(s)
          BY <3>1, <4>1 DEF Left
        <5> QED
          BY <1>1, <5>1 DEF IInv, Typed
      <4>3. CASE w.claim \notin ListedIds(s)
        BY <1>1, <3>3, <4>1, <4>2, <4>3
      <4>4. CASE w.claim \in ListedIds(s)
        <5>1. w.table \notin ErasedClaimTables
          BY <1>1, <3>1, <4>2, <4>4 DEF IInv, Caught
        <5> QED
          BY <3>1, <4>2, <5>1 DEF RowType, ClaimTables, ErasedClaimTables
      <4> QED
        BY <4>3, <4>4
    <3> QED
      BY <3>2, <3>3
  <2>2. ASSUME NEW m \in Owners, m \notin merchants', ~Gone(m)
        PROVE  Among(m, script[s].malls)
    BY <1>1, <2>2 DEF Gone
  <2>3. ASSUME NEW w \in mallRows', w.owner \notin merchants'
        PROVE  engine = "sqlite" /\ w.late
    <3>1. w \in mallRows \ script[s].gone /\ w.owner \in Owners
      BY <1>1 DEF IInv, Typed, MallRowType
    <3>2. Gone(w.owner)
      BY <1>11, <2>2, <2>3, <3>1
    <3> QED
      BY <3>1, <3>2 DEF IInv, ErasedLeaveNoRows
  <2>4. ASSUME NEW c \in Stored', claims'[c].owner \notin merchants'
        PROVE  engine = "sqlite" /\ claims'[c].late
    <3>1. c \in Stored /\ c \notin Matched(s) /\ claims'[c] = claims[c]
      BY <1>6, <1>8, <1>9
    <3>2. claims[c].owner \in Owners
      BY <1>6, <3>1, StoredClaim DEF ClaimType
    <3>3. CASE Gone(claims[c].owner)
      BY <3>1, <3>3 DEF IInv, ErasedLeaveNoRows
    <3>4. CASE ~Gone(claims[c].owner)
      <4>1. Among(claims[c].owner, script[s].malls)
        BY <2>2, <2>4, <3>1, <3>2, <3>4
      <4>2. script[s].task = "reset"
        BY <1>1, <4>1 DEF Among, IInv, Listed
      <4>3. c \in Matched(s)
        BY <3>1, <4>1, <4>2 DEF Matched, ClaimsOf
      <4> QED
        BY <3>1, <4>3
    <3> QED
      BY <3>3, <3>4
  <2> QED
    BY <1>1, <2>1, <2>3, <2>4 DEF ErasedLeaveNoRows, Gone
<1> QED
  BY <1>12, <1>13, <1>14, <1>15, <1>16, <1>17, <1>18 DEF IInv

-----------------------------------------------------------------------------
\* New claims

LEMMA Greatest ==
  ASSUME NEW T, T \subseteq Nat, T # {}, NEW top \in Nat, \A x \in T : x <= top
  PROVE  \E x \in T : \A y \in T : y <= x
<1> DEFINE D == {top - x : x \in T}
<1>1. D \subseteq Nat /\ D # {}
  <2>1. ASSUME NEW x \in T PROVE top - x \in Nat
    <3>1. x \in Nat /\ x <= top
      OBVIOUS
    <3> QED
      BY <3>1
  <2> QED
    BY <2>1
<1>2. PICK d \in D : \A e \in D : ~(<<e, d>> \in OpToRel(<, Nat))
  BY <1>1, NatLessThanWellFounded, WFMin, Zenon
<1>3. \A a, b \in Nat : a < b => <<a, b>> \in OpToRel(<, Nat)
  <2>1. \A a, b \in Nat : a < b => <<a, b>> \in {ss \in Nat \X Nat : ss[1] < ss[2]}
    OBVIOUS
  <2> QED
    BY <2>1 DEF OpToRel
<1>4. ASSUME NEW e \in D PROVE ~(e < d)
  BY <1>1, <1>2, <1>3, Zenon
<1>5. PICK x \in T : d = top - x
  OBVIOUS
<1>6. ASSUME NEW y \in T PROVE y <= x
  <2>1. top - y \in D
    OBVIOUS
  <2>2. ~(top - y < top - x)
    BY <1>4, <1>5, <2>1
  <2>3. x \in Int /\ y \in Int /\ top \in Int
    OBVIOUS
  <2> HIDE DEF D
  <2> QED
    BY <2>2, <2>3, SMT
<1> QED
  BY <1>6

LEMMA NewIdsOf ==
  ASSUME IInv, NEW n \in Nat
  PROVE  \E top \in 0..born : /\ NewIds(n) = (top + 1)..(top + n)
                              /\ \A c \in Stored : c <= top
                              /\ engine = "postgresql" => top = born
<1>1. born \in 0..MaxClaims /\ born \in Nat /\ MaxClaims \in Nat
  BY BoundAssumption DEF IInv, Typed
<1>2. Stored \subseteq 1..born
  BY <1>1 DEF IInv, Dated, Stored, Ids
<1>3. CASE engine = "postgresql"
  BY <1>1, <1>2, <1>3 DEF NewIds
<1>4. CASE engine # "postgresql"
  <2> DEFINE P(m) == m \in Stored \cup {0} /\ \A c \in Stored : c <= m
             top == CHOOSE m \in 0..MaxClaims : P(m)
  <2>1. PICK x \in Stored \cup {0} : \A y \in Stored \cup {0} : y <= x
    <3>1. Stored \cup {0} \subseteq Nat /\ \A y \in Stored \cup {0} : y <= born
      BY <1>1, <1>2
    <3> QED
      BY <1>1, <3>1, Greatest
  <2>2. x \in 0..MaxClaims /\ P(x)
    BY <1>1, <1>2, <2>1
  <2>3. top \in 0..MaxClaims /\ P(top)
    BY <2>2
  <2>4. NewIds(n) = (top + 1)..(top + n)
    BY <1>4 DEF NewIds
  <2> HIDE DEF top
  <2>5. top \in 0..born
    BY <1>1, <1>2, <2>3
  <2> QED
    BY <1>4, <2>3, <2>4, <2>5
<1> QED
  BY <1>3, <1>4

\* The claims that are inserted, with ids that no stored one has and generations that none has
\* had.
Fresh(C, owners, late) ==
  /\ \A c \in Ids \ C : claims'[c] = claims[c]
  /\ \A c \in C :
       /\ claims'[c] \in ClaimType /\ claims'[c].owner \in owners
       /\ claims'[c].life = "live" /\ claims'[c].late = late
       /\ claims'[c].gen \in (born + 1)..born' /\ c <= born'
       /\ engine = "postgresql" => claims'[c].gen = c
  /\ claims' = [c \in Ids |-> claims'[c]]
  /\ claimRows \subseteq claimRows'
  /\ \A w \in claimRows' \ claimRows :
       w \in RowType /\ w.claim \in C /\ w.gen = claims'[w.claim].gen

LEMMA Inserted ==
  ASSUME IInv, NEW owners \in SUBSET Owners, IsFiniteSet(owners),
         NEW names \in SUBSET ClaimTables, NEW late \in BOOLEAN,
         InsertClaims(owners, names, late)
  PROVE  /\ born' \in 0..MaxClaims /\ born <= born' /\ (owners # {} => born + 1 <= born')
         /\ \E C \in SUBSET (Ids \ Stored) : Fresh(C, owners, late)
<1> DEFINE n == Cardinality(owners)
           gen(c) == born + 1 + c - (CHOOSE i \in NewIds(n) : \A k \in NewIds(n) : i <= k)
<1>1. n \in Nat /\ (owners # {} => n # 0)
  BY FS_CardinalityType, FS_EmptySet
<1>2. PICK of \in [owners -> NewIds(n)] :
        /\ \A m1, m2 \in owners : m1 # m2 => of[m1] # of[m2]
        /\ claims' = [c \in Ids |-> IF \E m \in owners : of[m] = c
                                    THEN [owner |-> CHOOSE m \in owners : of[m] = c, late |-> late,
                                          life |-> "live", gen |-> gen(c)]
                                    ELSE claims[c]]
        /\ claimRows' = claimRows \cup UNION {Rows(names, of[m], gen(of[m]), FALSE) : m \in owners}
  BY DEF InsertClaims
<1>3. born + n <= MaxClaims /\ born' = born + n
  BY DEF InsertClaims
<1> HIDE DEF n
<1>4. /\ born \in Nat /\ MaxClaims \in Nat /\ born' \in 0..MaxClaims /\ born <= born'
      /\ owners # {} => born + 1 <= born'
  BY <1>1, <1>3, BoundAssumption DEF IInv, Typed
<1>5. PICK top \in 0..born : /\ NewIds(n) = (top + 1)..(top + n)
                             /\ \A c \in Stored : c <= top
                             /\ engine = "postgresql" => top = born
  BY <1>1, NewIdsOf
<1>6. ASSUME NEW c \in NewIds(n)
      PROVE  /\ c \in Ids /\ c \notin Stored /\ c <= born' /\ gen(c) \in (born + 1)..born'
             /\ gen(c) \in Nat /\ (engine = "postgresql" => gen(c) = c)
  <2>1. c \in (top + 1)..(top + n) /\ top \in Nat /\ top <= born
    BY <1>4, <1>5
  <2>2. c \in Ids /\ c \notin Stored /\ c <= born'
    BY <1>1, <1>3, <1>4, <1>5, <2>1 DEF Ids
  <2> DEFINE Q(i) == \A k \in NewIds(n) : i <= k
             first == CHOOSE i \in NewIds(n) : Q(i)
  <2>3. first = top + 1
    <3>1. top + 1 \in NewIds(n) /\ Q(top + 1)
      BY <1>1, <1>5, <2>1
    <3>2. first \in NewIds(n) /\ Q(first)
      BY <3>1
    <3>3. first <= top + 1 /\ top + 1 <= first
      BY <3>1, <3>2
    <3>4. first \in Nat
      BY <1>1, <1>5, <2>1, <3>2
    <3> HIDE DEF first
    <3> QED
      BY <2>1, <3>3, <3>4
  <2>4. gen(c) = born + 1 + c - first
    OBVIOUS
  <2> HIDE DEF first, gen
  <2>5. gen(c) = born + c - top
    BY <1>4, <2>1, <2>3, <2>4
  <2> QED
    BY <1>1, <1>3, <1>4, <1>5, <2>1, <2>2, <2>5
<1> HIDE DEF gen
<1> DEFINE C == {of[m] : m \in owners}
<1>7. C \subseteq NewIds(n) /\ C \in SUBSET (Ids \ Stored)
  BY <1>6
<1>8. \A c \in Ids \ C : claims'[c] = claims[c]
  BY <1>2
<1>9. ASSUME NEW c \in C
      PROVE  /\ claims'[c] \in ClaimType /\ claims'[c].owner \in owners
             /\ claims'[c].life = "live" /\ claims'[c].late = late /\ claims'[c].gen = gen(c)
  <2> DEFINE owner == CHOOSE m \in owners : of[m] = c
  <2>1. \E m \in owners : of[m] = c
    OBVIOUS
  <2>2. owner \in owners
    BY <2>1
  <2>3. claims'[c] = [owner |-> owner, late |-> late, life |-> "live", gen |-> gen(c)]
    BY <1>2, <1>7, <2>1
  <2>4. gen(c) \in Nat
    BY <1>6, <1>7
  <2> HIDE DEF owner
  <2> QED
    BY <2>2, <2>3, <2>4 DEF ClaimType, Lives
<1>10. \A c \in C : /\ claims'[c].gen \in (born + 1)..born' /\ c <= born'
                    /\ engine = "postgresql" => claims'[c].gen = c
  BY <1>6, <1>7, <1>9
<1>11. ASSUME NEW w \in claimRows' \ claimRows
       PROVE  w \in RowType /\ w.claim \in C /\ w.gen = claims'[w.claim].gen
  <2>1. PICK m \in owners : w \in Rows(names, of[m], gen(of[m]), FALSE)
    BY <1>2
  <2>2. of[m] \in C /\ of[m] \in Ids /\ gen(of[m]) \in Nat
    BY <1>6
  <2>3. names \in SUBSET ClaimTables
    OBVIOUS
  <2>4. w \in RowType /\ w.claim = of[m] /\ w.gen = gen(of[m])
    <3> DEFINE i == of[m]
               g == gen(i)
    <3>1. i \in Ids /\ g \in Nat /\ w \in Rows(names, i, g, FALSE)
      BY <2>1, <2>2
    <3> HIDE DEF i, g
    <3>2. /\ Rows(names, i, g, FALSE) \subseteq RowType
          /\ \A v \in Rows(names, i, g, FALSE) : v.claim = i /\ v.gen = g
      BY <2>3, <3>1, RowsOf
    <3>3. w \in RowType /\ w.claim = i /\ w.gen = g
      BY <3>1, <3>2
    <3> QED
      BY <3>3 DEF i, g
  <2> QED
    BY <1>9, <2>2, <2>4
<1>12. claims' = [c \in Ids |-> claims'[c]] /\ claimRows \subseteq claimRows'
  BY <1>2
<1>13. Fresh(C, owners, late)
  BY <1>8, <1>9, <1>10, <1>11, <1>12 DEF Fresh
<1> HIDE DEF C
<1> QED
  BY <1>4, <1>7, <1>13

\* The tables of merchants and of their rows when claims are inserted for the owners.
Placed(owners, late) ==
  /\ \A m \in owners : m.gen <= born' /\ (m \in merchants' \/ (engine = "sqlite" /\ late))
  /\ merchants \subseteq merchants' /\ merchants' \subseteq Owners
  /\ \A m, k \in merchants' : m.mall = k.mall => m = k
  /\ \A m \in merchants' \ merchants : m.gen <= born'
  /\ mallRows \subseteq mallRows' /\ mallRows' \subseteq MallRowType
  /\ \A w \in mallRows' \ mallRows : w.owner \in merchants' /\ w.owner.gen <= born'

\* A seeder is done.
Done == \E s \in Scripts : script[s].step = "unseeded" /\ script' = [script EXCEPT ![s] = Idle]

\* A sync takes down the claim it has stored.
TakenDown ==
  \E r \in Requests, c \in Ids :
    /\ request[r] # Quiet /\ claims'[c] # claims[c]
    /\ request' = [request EXCEPT ![r].id = c, ![r].gen = claims'[c].gen]

LEMMA InsertKeeps ==
  ASSUME IInv, NEW owners \in SUBSET Owners, IsFiniteSet(owners),
         NEW names \in SUBSET ClaimTables, NEW late \in BOOLEAN,
         InsertClaims(owners, names, late), MayWrite, Placed(owners, late),
         engine' = engine, ranOut' = ranOut, missed' = missed,
         script' = script \/ Done, request' = request \/ TakenDown
  PROVE  IInv'
<1> USE DEF Placed
<1>1. born' \in 0..MaxClaims /\ born <= born' /\ born \in Nat
  BY Inserted, BoundAssumption DEF IInv, Typed
<1>15. PICK C \in SUBSET (Ids \ Stored) : Fresh(C, owners, late)
  BY Inserted
<1>2. /\ \A c \in Ids \ C : claims'[c] = claims[c]
      /\ \A c \in C :
           /\ claims'[c] \in ClaimType /\ claims'[c].owner \in owners
           /\ claims'[c].life = "live" /\ claims'[c].late = late
           /\ claims'[c].gen \in (born + 1)..born' /\ c <= born'
           /\ engine = "postgresql" => claims'[c].gen = c
      /\ claims' = [c \in Ids |-> claims'[c]]
      /\ claimRows \subseteq claimRows'
      /\ \A w \in claimRows' \ claimRows :
           w \in RowType /\ w.claim \in C /\ w.gen = claims'[w.claim].gen
  BY <1>15 DEF Fresh
<1>3. /\ Idle \in ScriptType /\ Idle.step = "idle" /\ Idle.gone = {} /\ Idle.listed = {}
      /\ Idle.task = "none"
  BY DEF Idle, ScriptType, Tasks, Steps
<1>4. /\ script' \in [Scripts -> ScriptType]
      /\ \A s \in Scripts : script'[s] = script[s] \/ script'[s] = Idle
      /\ \A s \in Scripts : script[s].step = "deleting" => script'[s] = script[s]
  BY <1>3 DEF IInv, Typed, Done
<1>5. Stored' = Stored \cup C /\ Stored \subseteq Ids /\ \A c \in Stored : claims'[c] = claims[c]
  <2>1. \A c \in C : claims'[c] # None
    BY <1>2 DEF ClaimType, None, Lives
  <2> QED
    BY <1>2, <2>1 DEF Stored
<1>14. /\ request' \in [Requests -> {Quiet} \cup RequestType]
       /\ \A p \in Requests :
            \/ request'[p] = request[p]
            \/ /\ request'[p].id \in C /\ request'[p].gen = claims'[request'[p].id].gen
               /\ request'[p].owner = request[p].owner
  <2>1. CASE request' = request
    BY <2>1 DEF IInv, Typed
  <2>2. CASE request' # request
    <3>1. PICK r \in Requests, c \in Ids :
            /\ request[r] # Quiet /\ claims'[c] # claims[c]
            /\ request' = [request EXCEPT ![r].id = c, ![r].gen = claims'[c].gen]
      BY <2>2 DEF TakenDown
    <3> DEFINE q == [request[r] EXCEPT !.id = c, !.gen = claims'[c].gen]
    <3>2. c \in C /\ claims'[c].gen \in Nat /\ c # 0 /\ c \in 0..MaxClaims
      BY <1>2, <3>1, BoundAssumption DEF ClaimType, Ids
    <3>3. request[r] \in RequestType /\ request \in [Requests -> {Quiet} \cup RequestType]
      BY <3>1 DEF IInv, Typed
    <3>4. /\ q \in RequestType /\ q.id = c /\ q.gen = claims'[c].gen
          /\ q.owner = request[r].owner
      BY <3>2, <3>3 DEF RequestType
    <3>5. request' = [request EXCEPT ![r] = q]
      BY <3>1, <3>3
    <3> HIDE DEF q
    <3> QED
      BY <3>2, <3>3, <3>4, <3>5
  <2> QED
    BY <2>1, <2>2
<1>6. Typed'
  <2>1. claims' \in [Ids -> {None} \cup ClaimType]
    BY <1>2 DEF IInv, Typed
  <2>2. claimRows' \subseteq RowType
    BY <1>2 DEF IInv, Typed
  <2> QED
    BY <1>1, <1>4, <1>14, <2>1, <2>2 DEF IInv, Typed
<1>7. 1..born \subseteq 1..born' /\ (born + 1)..born' \subseteq 1..born'
  BY <1>1
<1>8. Dated'
  <2>5. \A m \in Owners \cup {NoOwner} : m.gen <= born => m.gen <= born'
    <3>1. \A m \in Owners \cup {NoOwner} : m.gen \in Nat
      BY BoundAssumption DEF Owners, NoOwner
    <3> QED
      BY <1>1, <3>1
  <2>1. \A c \in Stored' : /\ c <= born' /\ claims'[c].gen \in 1..born'
                           /\ claims'[c].owner.gen <= born'
    <3>1. ASSUME NEW c \in Stored PROVE c <= born' /\ claims[c].owner.gen <= born'
      <4>1. c \in Nat /\ c <= born
        BY <1>5 DEF IInv, Dated, Ids
      <4>2. claims[c].owner \in Owners /\ claims[c].owner.gen <= born
        BY <1>5, StoredClaim DEF IInv, Dated, ClaimType
      <4> QED
        BY <1>1, <2>5, <4>1, <4>2
    <3> QED
      BY <1>2, <1>5, <1>7, <3>1 DEF IInv, Dated
  <2>2. \A w \in claimRows' : w.gen \in 1..born'
    BY <1>2, <1>7 DEF IInv, Dated
  <2>3. \A s \in Scripts : \A k \in script'[s].listed : k.gen \in 1..born'
    BY <1>3, <1>4, <1>7 DEF IInv, Dated
  <2>4. \A m \in merchants' : m.gen <= born'
    BY <2>5 DEF IInv, Typed, Dated
  <2>6. \A w \in mallRows' : w.owner.gen <= born'
    BY <2>5 DEF IInv, Typed, Dated, MallRowType
  <2>7. ASSUME NEW p \in Requests
        PROVE  /\ request'[p].owner.gen <= born' /\ request'[p].gen \in 0..born'
               /\ request'[p].id # 0 => request'[p].gen \in 1..born'
    <3>1. request[p].owner \in Owners \cup {NoOwner} /\ request[p].owner.gen <= born
      <4>1. request[p] \in {Quiet} \cup RequestType
        BY DEF IInv, Typed
      <4> QED
        BY <4>1 DEF Quiet, RequestType, IInv, Dated
    <3>2. 0..born \subseteq 0..born' /\ (born + 1)..born' \subseteq 0..born'
      BY <1>1
    <3>3. CASE request'[p] = request[p]
      BY <1>7, <2>5, <3>1, <3>2, <3>3 DEF IInv, Dated
    <3>4. CASE request'[p] # request[p]
      BY <1>2, <1>7, <1>14, <2>5, <3>1, <3>2, <3>4
    <3> QED
      BY <3>3, <3>4
  <2> QED
    BY <1>7, <2>1, <2>2, <2>3, <2>4, <2>6, <2>7 DEF IInv, Dated
<1>9. Named'
  <2>1. engine = "postgresql" => \A s \in Scripts : \A k \in script'[s].listed : k.gen = k.id
    BY <1>3, <1>4 DEF IInv, Named
  <2>2. engine = "postgresql" =>
          \A p \in Requests : request'[p].id # 0 => request'[p].gen = request'[p].id
    BY <1>2, <1>14 DEF IInv, Named
  <2> QED
    BY <1>2, <1>5, <2>1, <2>2 DEF IInv, Named
<1>10. RanOut'
  BY <1>2, <1>5 DEF IInv, RanOut
<1>11. Listed'
  <2>1. ASSUME NEW s \in Scripts, NEW k \in script[s].listed, claims'[k.id].gen = k.gen
        PROVE  claims[k.id].gen = k.gen /\ claims'[k.id].owner = claims[k.id].owner
    <3>1. k.id \in Ids /\ k.gen \in 1..born
      BY DEF IInv, Typed, Dated, ScriptType, ListType
    <3>2. k.id \notin C
      <4>1. k.id \in C => k.gen \in (born + 1)..born'
        BY <1>2, <2>1
      <4> QED
        BY <1>1, <3>1, <4>1
    <3> QED
      BY <1>2, <2>1, <3>1, <3>2
  <2>2. ASSUME NEW s \in Scripts, script'[s] = script[s]
        PROVE  /\ script'[s].step \in {"listed", "deleting"} => script'[s].task \in {"purge", "reset"}
               /\ script'[s].task = "purge" => /\ script'[s].malls = {}
                                                /\ \A k \in script'[s].listed : k.gen \in ranOut'
               /\ script'[s].task = "reset" =>
                    \A k \in script'[s].listed :
                      claims'[k.id].gen = k.gen => Among(claims[k.id].owner, script[s].malls)'
    <3>1. ASSUME script[s].task = "reset", NEW k \in script[s].listed, claims'[k.id].gen = k.gen
          PROVE  Among(claims[k.id].owner, script[s].malls)'
      <4>1. /\ claims[k.id].gen = k.gen /\ claims'[k.id].owner = claims[k.id].owner
            /\ script'[s].malls = script[s].malls
        BY <2>1, <2>2, <3>1
      <4>2. Among(claims[k.id].owner, script[s].malls)
        BY <3>1, <4>1 DEF IInv, Listed
      <4> QED
        BY <4>1, <4>2 DEF Among, SameId
    <3> QED
      BY <2>2, <3>1 DEF IInv, Listed
  <2>3. \A s \in Scripts : script'[s] = Idle =>
          script'[s].step = "idle" /\ script'[s].task = "none" /\ script'[s].listed = {}
    BY <1>3
  <2> QED
    BY <1>4, <2>2, <2>3 DEF Listed
<1>12. Caught'
  <2>1. Erasing' = Erasing
    BY <1>3, <1>4 DEF Erasing
  <2>2. engine = "sqlite" => \A s \in Scripts : script[s].step # "deleting"
    BY DEF MayWrite, Erasing
  <2>3. \A s \in Scripts : script'[s].gone \subseteq script[s].gone
    BY <1>3, <1>4
  <2>4. \A s \in Scripts : script'[s].step # "deleting" => script'[s].gone = {}
    BY <1>3, <1>4 DEF IInv, Caught
  <2>5. \A s \in Scripts : script'[s].step = "deleting" => script[s].step = "deleting"
    BY <1>3, <1>4
  <2>6. claimRows \cup mallRows \subseteq claimRows' \cup mallRows'
    BY <1>2
  <2>7. Caught
    BY DEF IInv
  <2> QED
    BY <2>1, <2>2, <2>3, <2>4, <2>5, <2>6, <2>7 DEF Caught
<1>13. ErasedLeaveNoRows'
  <2>1. ASSUME NEW w \in claimRows', claims'[w.claim].gen # w.gen
        PROVE  engine = "sqlite" /\ (w.table = "ai_invocation_logs" \/ w.late \/ w.gen \in missed)
    <3>1. w \in claimRows /\ w.claim \in Ids
      BY <1>2, <2>1 DEF IInv, Typed, RowType
    <3>2. claims[w.claim].gen # w.gen
      <4>1. CASE w.claim \in C
        <5>1. claims[w.claim].gen = 0
          BY <1>2, <3>1, <4>1, StoredClaim
        <5> QED
          BY <1>1, <3>1, <5>1 DEF IInv, Dated
      <4>2. CASE w.claim \notin C
        BY <1>2, <2>1, <3>1, <4>2
      <4> QED
        BY <4>1, <4>2
    <3> QED
      BY <3>1, <3>2 DEF IInv, ErasedLeaveNoRows
  <2>2. ASSUME NEW c \in Stored', claims'[c].owner \notin merchants'
        PROVE  engine = "sqlite" /\ claims'[c].late
    <3>1. CASE c \in C
      BY <1>2, <2>2, <3>1
    <3>2. CASE c \in Stored
      BY <1>5, <2>2, <3>2 DEF IInv, ErasedLeaveNoRows, Gone
    <3> QED
      BY <1>5, <3>1, <3>2
  <2>3. ASSUME NEW w \in mallRows', w.owner \notin merchants'
        PROVE  engine = "sqlite" /\ w.late
    BY <2>3 DEF IInv, ErasedLeaveNoRows, Gone
  <2> QED
    BY <2>1, <2>2, <2>3 DEF ErasedLeaveNoRows, Gone
<1> QED
  BY <1>6, <1>8, <1>9, <1>10, <1>11, <1>12, <1>13 DEF IInv

LEMMA NewClaimKeeps ==
  ASSUME IInv, NEW r \in Requests, NewClaim(r)
  PROVE  IInv'
<1>1. PICK m : m = request[r].owner
  OBVIOUS
<1>2. PICK l : l = Gone(m)
  OBVIOUS
<1>3. /\ HoldsMerchant(r) /\ InsertClaims({m}, {}, l) /\ script' = script
      /\ mallRows' = mallRows /\ merchants' = merchants /\ engine' = engine
      /\ ranOut' = ranOut /\ missed' = missed
  BY <1>1, <1>2 DEF NewClaim
<1>4. MayWrite /\ m \in Owners /\ m.gen <= born /\ (Gone(m) => engine = "sqlite")
  BY <1>1, <1>3, Holder
<1>5. IsFiniteSet({m}) /\ {m} \in SUBSET Owners /\ {} \in SUBSET ClaimTables /\ l \in BOOLEAN
  BY <1>2, <1>4, FS_Singleton DEF Gone
<1>6. m.gen <= born'
  <2>1. born' \in 0..MaxClaims /\ born <= born'
    BY <1>3, <1>5, Inserted
  <2>2. m.gen \in Nat /\ born \in Nat
    BY <1>4, BoundAssumption DEF Owners, IInv, Typed
  <2> QED
    BY <1>4, <2>1, <2>2
<1>7. Placed({m}, l)
  <2>1. /\ mallRows \subseteq MallRowType /\ merchants \subseteq Owners
        /\ \A k, o \in merchants : k.mall = o.mall => k = o
    BY DEF IInv, Typed
  <2>2. m \in merchants \/ (engine = "sqlite" /\ l)
    BY <1>2, <1>4 DEF Gone
  <2> QED
    BY <1>3, <1>6, <2>1, <2>2 DEF Placed
<1>8. TakenDown
  BY <1>3 DEF NewClaim, HoldsMerchant, TakenDown
<1> QED
  BY <1>3, <1>4, <1>5, <1>7, <1>8, InsertKeeps

\* The merchants that a seed inserts.
LEMMA Seeded ==
  ASSUME IInv, NEW s \in Scripts, Seed(s)
  PROVE  /\ IsFiniteSet([mall : DemoMalls, gen : {born + 1}])
         /\ [mall : DemoMalls, gen : {born + 1}] \in SUBSET Owners
         /\ InsertClaims([mall : DemoMalls, gen : {born + 1}], {"claim_messages", "audit_logs"}, FALSE)
<1> DEFINE new == [mall : DemoMalls, gen : {born + 1}]
<1>1. InsertClaims(new, {"claim_messages", "audit_logs"}, FALSE)
  BY DEF Seed
<1>2. IsFiniteSet(new)
  <2> DEFINE f == [d \in DemoMalls |-> [mall |-> d, gen |-> born + 1]]
  <2>1. f \in [DemoMalls -> new] /\ \A m \in new : m.mall \in DemoMalls /\ f[m.mall] = m
    OBVIOUS
  <2> HIDE DEF f, new
  <2>2. f \in Surjection(DemoMalls, new)
    BY <2>1 DEF Surjection
  <2> QED
    BY <2>2, MallAssumption, FS_Surjection
<1>3. born + Cardinality(new) <= MaxClaims
  BY <1>1 DEF InsertClaims
<1>4. new # {} => born + 1 \in 0..MaxClaims
  <2> HIDE DEF new
  <2>1. new # {} => Cardinality(new) \in Nat /\ Cardinality(new) # 0
    BY <1>2, FS_CardinalityType, FS_EmptySet
  <2> QED
    BY <1>3, <2>1, BoundAssumption DEF IInv, Typed
<1>5. new \in SUBSET Owners
  BY <1>4 DEF Owners
<1> QED
  BY <1>1, <1>2, <1>5

LEMMA SeedCommitKeeps ==
  ASSUME IInv, NEW s \in Scripts, SeedCommit(s)
  PROVE  IInv'
<1> DEFINE new == [mall : DemoMalls, gen : {born + 1}]
           names == {"claim_messages", "audit_logs"}
           rows == [table : {"policies", "operator_users"}, owner : new, late : {FALSE}]
<1>1. /\ DemoMerchants = {} /\ MayWrite
      /\ script[s].step = "unseeded" /\ script' = [script EXCEPT ![s] = Idle]
      /\ mallRows' = mallRows \cup rows /\ merchants' = merchants \cup new
      /\ engine' = engine /\ request' = request /\ ranOut' = ranOut /\ missed' = missed
  BY DEF SeedCommit, Seed
<1>2. IsFiniteSet(new) /\ new \in SUBSET Owners /\ InsertClaims(new, names, FALSE)
  BY Seeded DEF SeedCommit
<1>3. names \in SUBSET ClaimTables
  BY DEF ClaimTables
<1>4. \A m \in new : m.mall \in DemoMalls /\ m.gen = born + 1
  OBVIOUS
<1>5. \A m, k \in new : m.mall = k.mall => m = k
  OBVIOUS
<1> HIDE DEF new, names
<1>6. \A m \in new : m.gen <= born'
  BY <1>2, <1>3, <1>4, Inserted
<1>7. rows \subseteq MallRowType /\ \A w \in rows : w.owner \in new
  BY <1>2 DEF MallRowType, MallTables
<1> HIDE DEF rows
<1>8. /\ mallRows \subseteq MallRowType /\ merchants \subseteq Owners
      /\ \A m, k \in merchants : m.mall = k.mall => m = k
      /\ \A m \in merchants : m.mall \notin DemoMalls
  BY <1>1 DEF IInv, Typed, DemoMerchants
<1>9. merchants' \subseteq Owners /\ \A m, k \in merchants' : m.mall = k.mall => m = k
  BY <1>1, <1>2, <1>4, <1>5, <1>8
<1>10. Placed(new, FALSE)
  BY <1>1, <1>6, <1>7, <1>8, <1>9 DEF Placed
<1>11. Done
  BY <1>1 DEF Done
<1> QED
  BY <1>1, <1>2, <1>3, <1>10, <1>11, InsertKeeps

-----------------------------------------------------------------------------
LEMMA Invariance == Spec => []IInv
<1>1. IInv /\ [Next]_vars => IInv'
  <2> SUFFICES ASSUME IInv, [Next]_vars PROVE IInv'
    OBVIOUS
  <2>1. ASSUME NEW r \in Requests, NewClaim(r) \/ Integrate(r) PROVE IInv'
    BY <2>1, NewClaimKeeps, IntegrateKeeps
  <2>2. ASSUME NEW r \in Requests,
               LoadMerchant(r) \/ Load(r) \/ CommitNew(r) \/ CommitRefused(r)
        PROVE  IInv'
    BY <2>2, LoadKeeps, CommitNewKeeps
  <2>3. ASSUME NEW c \in Ids, Expire(c) PROVE IInv'
    BY <2>3, ExpireKeeps
  <2>4. ASSUME NEW s \in Scripts,
               PurgeRead(s) \/ ResetRead(s) \/ EraseFails(s) \/ SeedRead(s) \/ SeedSkipped(s)
        PROVE  IInv'
    BY <2>4, ReadKeeps
  <2>5. ASSUME NEW s \in Scripts, DeleteRows(s) \/ EraseCommit(s) \/ SeedCommit(s) PROVE IInv'
    BY <2>5, DeleteRowsKeeps, EraseKeeps, SeedCommitKeeps
  <2>6. CASE UNCHANGED vars
    <3>1. UNCHANGED <<engine, tables, history>> /\ script' = script /\ request' = request
      BY <2>6 DEF vars
    <3>2. /\ claims' = claims /\ claimRows' = claimRows /\ mallRows' = mallRows
          /\ merchants' = merchants /\ engine' = engine /\ born' = born /\ ranOut' = ranOut /\ missed' = missed
          /\ Stored' = Stored /\ Erasing' = Erasing
      BY <3>1 DEF tables, history, Stored, Erasing
    <3>3. Dated' /\ Named' /\ Listed'
      BY <3>1, <3>2 DEF IInv, Dated, Named, Listed, Among, SameId
    <3>4. Caught'
      BY <3>1, <3>2 DEF IInv, Caught, ListedIds
    <3>5. script \in [Scripts -> ScriptType] /\ request \in [Requests -> {Quiet} \cup RequestType]
      BY DEF IInv, Typed
    <3> QED
      BY <3>1, <3>3, <3>4, <3>5, Unwritten
  <2> QED
    BY <2>1, <2>2, <2>3, <2>4, <2>5, <2>6 DEF Next
<1> QED
  BY <1>1, InitIInv, PTL DEF Spec

-----------------------------------------------------------------------------
\* Types; rows of both kinds name claims and merchants that have existed, and although two
\* scripts may seed at once no mall is there twice.
THEOREM TypeCorrect == Spec => []TypeOK
<1>1. IInv => TypeOK
  <2> SUFFICES ASSUME IInv PROVE TypeOK
    OBVIOUS
  <2>1. born \in 0..MaxClaims /\ MaxClaims \in Nat
    BY BoundAssumption DEF IInv, Typed
  <2>2. claims \in [Ids -> {None} \cup [owner : Owners, late : BOOLEAN, life : Lives, gen : 1..born]]
    <3>1. ASSUME NEW c \in Ids
          PROVE  claims[c] \in {None} \cup [owner : Owners, late : BOOLEAN, life : Lives, gen : 1..born]
      <4>1. CASE c \in Stored
        <5>1. claims[c] \in ClaimType /\ claims[c].gen \in 1..born
          BY <4>1, StoredClaim
        <5> QED
          BY <5>1 DEF ClaimType
      <4>2. CASE c \notin Stored
        BY <4>2 DEF Stored
      <4> QED
        BY <4>1, <4>2
    <3>2. claims = [c \in Ids |-> claims[c]]
      BY DEF IInv, Typed
    <3> QED
      BY <3>1, <3>2
  <2>3. claimRows \subseteq [table : ClaimTables, claim : Ids, gen : 1..born, late : BOOLEAN]
    <3>1. ASSUME NEW w \in claimRows
          PROVE  w \in [table : ClaimTables, claim : Ids, gen : 1..born, late : BOOLEAN]
      <4>1. w \in RowType /\ w.gen \in 1..born
        BY DEF IInv, Typed, Dated
      <4> QED
        BY <4>1 DEF RowType
    <3> QED
      BY <3>1
  <2>4. mallRows \subseteq [table : MallTables, owner : Owners, late : BOOLEAN]
    BY DEF IInv, Typed, MallRowType
  <2>5. request \in [Requests -> [kind : {"none", "note", "draft", "reply", "delete", "sync"},
                                  owner : Owners \cup {NoOwner}, id : 0..MaxClaims, gen : 0..born]]
    <3>1. ASSUME NEW r \in Requests
          PROVE  request[r] \in [kind : {"none", "note", "draft", "reply", "delete", "sync"},
                                 owner : Owners \cup {NoOwner}, id : 0..MaxClaims, gen : 0..born]
      <4>1. CASE request[r] = Quiet
        BY <2>1, <4>1 DEF Quiet
      <4>2. CASE request[r] # Quiet
        <5>1. request[r] \in RequestType /\ request[r].gen \in 0..born
          BY <4>2 DEF IInv, Typed, Dated
        <5> QED
          BY <5>1 DEF RequestType, RequestKinds
      <4> QED
        BY <4>1, <4>2
    <3>2. request = [r \in Requests |-> request[r]]
      BY DEF IInv, Typed
    <3> QED
      BY <3>1, <3>2
  <2>6. ASSUME NEW s \in Scripts
        PROVE  /\ script[s].task \in {"none", "purge", "reset", "seed"}
               /\ script[s].step \in {"idle", "listed", "deleting", "seeding", "unseeded"}
               /\ script[s].listed \subseteq [id : Ids, gen : 1..born]
               /\ script[s].gone \subseteq claimRows \cup mallRows
    <3>1. script[s] \in ScriptType /\ script[s].gone \subseteq claimRows \cup mallRows
      BY DEF IInv, Typed, Caught
    <3>2. ASSUME NEW k \in script[s].listed PROVE k \in [id : Ids, gen : 1..born]
      <4>1. k \in ListType /\ k.gen \in 1..born
        BY <3>1 DEF IInv, Dated, ScriptType
      <4> QED
        BY <4>1 DEF ListType
    <3> QED
      BY <3>1, <3>2 DEF ScriptType, Tasks, Steps
  <2>7. /\ engine \in {"postgresql", "sqlite"} /\ merchants \subseteq Owners
        /\ \A m, k \in merchants : m.mall = k.mall => m = k
        /\ ranOut \cup missed \subseteq 1..born
        /\ \A w \in mallRows \cup {claims[c] : c \in Stored} : w.owner.gen <= born
    BY DEF IInv, Typed, Dated
  <2> QED
    BY <2>1, <2>2, <2>3, <2>4, <2>5, <2>6, <2>7 DEF TypeOK
<1> QED
  BY <1>1, Invariance, PTL

\* A claim that has been erased leaves no row behind and none that shows up under another
\* claim, and an erased merchant neither rows nor claims, but for those that escape on SQLite.
THEOREM NothingLeft == Spec => []ErasedLeaveNoRows
<1>1. IInv => ErasedLeaveNoRows
  BY DEF IInv
<1> QED
  BY <1>1, Invariance, PTL

\* A claim disappears by the commit of an eraser only.
LEMMA WhoErases ==
  ASSUME IInv, [Next]_vars, NEW c \in Stored, claims'[c] = None
  PROVE  \E s \in Erasing : EraseCommit(s) /\ c \in Matched(s)
<1>1. c \in Ids /\ claims[c] # None /\ claims[c].life # "none"
  BY StoredClaim DEF Stored, ClaimType, Lives
<1>2. claims' # claims
  BY <1>1
<1>3. ASSUME NEW r \in Requests, CommitNew(r) PROVE FALSE
  <2>1. /\ request[r].kind = "delete" => claims[request[r].id] # None
        /\ claims' = IF request[r].kind = "delete"
                     THEN [claims EXCEPT ![request[r].id].life = "deleted"] ELSE claims
    BY <1>3 DEF CommitNew
  <2>2. claims'[c].life = claims[c].life \/ claims'[c].life = "deleted"
    <3>1. claims \in [Ids -> {None} \cup ClaimType]
      BY DEF IInv, Typed
    <3>2. claims[c] \in ClaimType
      BY <1>1, StoredClaim
    <3> QED
      BY <1>1, <2>1, <3>1, <3>2 DEF ClaimType
  <2> QED
    BY <1>1, <2>2 DEF None
<1>4. ASSUME NEW d \in Ids, Expire(d) PROVE FALSE
  <2>1. claims' = [claims EXCEPT ![d].life = "expired"]
    BY <1>4 DEF Expire
  <2>2. claims'[c].life = claims[c].life \/ claims'[c].life = "expired"
    <3>1. claims \in [Ids -> {None} \cup ClaimType]
      BY DEF IInv, Typed
    <3>2. claims[c] \in ClaimType
      BY <1>1, StoredClaim
    <3> QED
      BY <1>1, <2>1, <3>1, <3>2 DEF ClaimType
  <2> QED
    BY <1>1, <2>2 DEF None
<1>5. ASSUME NEW owners \in SUBSET Owners, IsFiniteSet(owners), NEW names \in SUBSET ClaimTables,
             NEW late \in BOOLEAN, InsertClaims(owners, names, late)
      PROVE  FALSE
  <2>1. PICK C \in SUBSET (Ids \ Stored) : \A d \in Ids \ C : claims'[d] = claims[d]
    BY <1>5, Inserted DEF Fresh
  <2> QED
    BY <1>1, <2>1
<1>6. ASSUME NEW r \in Requests, NewClaim(r) PROVE FALSE
  <2> DEFINE m == request[r].owner
  <2>1. HoldsMerchant(r) /\ InsertClaims({m}, {}, Gone(m))
    BY <1>6 DEF NewClaim
  <2>2. m \in Owners
    BY <2>1, Holder
  <2> HIDE DEF m
  <2>3. IsFiniteSet({m}) /\ {m} \in SUBSET Owners /\ {} \in SUBSET ClaimTables /\ Gone(m) \in BOOLEAN
    BY <2>2, FS_Singleton DEF Gone
  <2> QED
    BY <1>5, <2>1, <2>3
<1>7. ASSUME NEW s \in Scripts, SeedCommit(s) PROVE FALSE
  <2> DEFINE new == [mall : DemoMalls, gen : {born + 1}]
             names == {"claim_messages", "audit_logs"}
  <2>1. IsFiniteSet(new) /\ new \in SUBSET Owners /\ InsertClaims(new, names, FALSE)
    BY <1>7, Seeded DEF SeedCommit
  <2>2. names \in SUBSET ClaimTables
    BY DEF ClaimTables
  <2> HIDE DEF new, names
  <2> QED
    BY <1>5, <2>1, <2>2
<1>8. ASSUME NEW s \in Scripts, EraseCommit(s)
      PROVE  s \in Erasing /\ c \in Matched(s)
  <2>1. claims' = [d \in Ids |-> IF d \in Matched(s) THEN None ELSE claims[d]]
    BY <1>8 DEF EraseCommit, Erase
  <2> QED
    BY <1>1, <1>8, <2>1 DEF EraseCommit, Erasing
<1>9. PICK s \in Scripts : EraseCommit(s)
  BY <1>2, <1>3, <1>4, <1>6, <1>7
     DEF Next, Integrate, LoadMerchant, Load, CommitRefused, PurgeRead, ResetRead, DeleteRows, EraseFails,
         SeedRead, SeedSkipped, vars, tables
<1> QED
  BY <1>8, <1>9

\* Only a claim whose retention has run out is purged, and a reset touches demo claims only,
\* unless SQLite has handed a listed id out again.
THEOREM OnlyTheErasable == Spec => ErasedRightfully
<1>1. IInv /\ [Next]_vars =>
        \A c \in Stored : claims'[c] = None =>
          \/ claims[c].gen \in ranOut
          \/ claims[c].owner.mall \in DemoMalls /\ \E s \in Erasing : script[s].task = "reset"
          \/ /\ engine = "sqlite"
             /\ \E s \in Erasing : \E k \in script[s].listed : k.id = c /\ k.gen # claims[c].gen
  <2> SUFFICES ASSUME IInv, [Next]_vars, NEW c \in Stored, claims'[c] = None
               PROVE  \/ claims[c].gen \in ranOut
                      \/ claims[c].owner.mall \in DemoMalls /\ \E s \in Erasing : script[s].task = "reset"
                      \/ /\ engine = "sqlite"
                         /\ \E s \in Erasing : \E k \in script[s].listed :
                              k.id = c /\ k.gen # claims[c].gen
    OBVIOUS
  <2>1. PICK s \in Erasing : EraseCommit(s) /\ c \in Matched(s)
    BY WhoErases
  <2>2. s \in Scripts /\ script[s].step = "deleting" /\ script[s] \in ScriptType
        /\ script[s].task \in {"purge", "reset"}
    BY DEF Erasing, IInv, Typed, Listed
  <2>3. CASE script[s].task = "reset"
    <3>1. PICK m \in script[s].malls : claims[c].owner.mall = m.mall
      BY <2>1, <2>3 DEF Matched, ClaimsOf, Among, SameId
    <3> QED
      BY <2>2, <2>3, <3>1 DEF ScriptType, DemoOwners
  <2>4. CASE script[s].task = "purge"
    <3>1. PICK k \in script[s].listed : k.id = c
      BY <2>1, <2>4 DEF Matched, ListedIds
    <3>2. k.gen \in ranOut
      BY <2>2, <2>4 DEF IInv, Listed
    <3>3. engine = "postgresql" => k.gen = claims[c].gen
      BY <2>2, <3>1 DEF IInv, Named
    <3> QED
      BY <3>1, <3>2, <3>3 DEF IInv, Typed
  <2> QED
    BY <2>2, <2>3, <2>4
<1> QED
  BY <1>1, Invariance, PTL DEF ErasedRightfully, Spec

\* An eraser comes to its end by its commit or by a failure.
LEMMA HowErasingEnds ==
  ASSUME IInv, [Next]_vars, NEW s \in Erasing, script'[s].step # "deleting"
  PROVE  EraseCommit(s) \/ EraseFails(s)
<1>1. s \in Scripts /\ script[s].step = "deleting" /\ script \in [Scripts -> ScriptType]
  BY DEF Erasing, IInv, Typed
<1>2. script'[s] # script[s]
  BY <1>1
<1>3. ASSUME NEW r \in Requests, CommitNew(r) PROVE FALSE
  <2>1. PICK rows : script' = Escape(rows)
    BY <1>3 DEF CommitNew
  <2> QED
    BY <1>1, <2>1, Escaped
<1>4. ASSUME NEW r \in Requests, Integrate(r) PROVE FALSE
  <2>1. PICK rows : script' = Escape(rows)
    BY <1>4 DEF Integrate
  <2> QED
    BY <1>1, <2>1, Escaped
<1>5. ASSUME NEW t \in Scripts, t # s,
             \/ PurgeRead(t) \/ ResetRead(t) \/ DeleteRows(t) \/ EraseCommit(t)
             \/ EraseFails(t) \/ SeedRead(t) \/ SeedSkipped(t) \/ SeedCommit(t)
      PROVE  FALSE
  <2>1. \A u \in Scripts : u # t => script'[u] = script[u]
    BY <1>1, <1>5
       DEF PurgeRead, ResetRead, DeleteRows, EraseCommit, Erase, EraseFails, SeedRead, SeedSkipped,
           SeedCommit, Seed
  <2> QED
    BY <1>1, <1>2, <1>5, <2>1
<1>6. ~ (PurgeRead(s) \/ ResetRead(s) \/ DeleteRows(s) \/ SeedRead(s) \/ SeedSkipped(s)
         \/ SeedCommit(s))
  <2>1. script[s] # Idle
    BY <1>1 DEF Idle
  <2>2. ~PurgeRead(s) /\ ~ResetRead(s)
    BY <2>1 DEF PurgeRead, ResetRead
  <2>3. ~DeleteRows(s) /\ ~SeedSkipped(s) /\ ~SeedCommit(s)
    BY <1>1 DEF DeleteRows, SeedSkipped, SeedCommit, Seed
  <2>4. ~SeedRead(s)
    BY <1>1 DEF SeedRead
  <2> QED
    BY <2>2, <2>3, <2>4
<1>7. script' # script
  BY <1>2
<1>8. ~ (\/ UNCHANGED vars
         \/ \E r \in Requests : LoadMerchant(r) \/ NewClaim(r) \/ Load(r) \/ CommitRefused(r)
         \/ \E c \in Ids : Expire(c))
  BY <1>7 DEF vars, LoadMerchant, NewClaim, Load, CommitRefused, Expire
<1> QED
  BY <1>1, <1>3, <1>4, <1>5, <1>6, <1>8 DEF Next

\* A purge or reset erases everything it has listed or nothing, and with foreign keys nothing
\* as soon as one of the claims has an AI invocation.
THEOREM AllOrNothing == Spec => EraseAllOrNothing
<1>1. IInv /\ [Next]_vars =>
        \A s \in Erasing : script'[s].step # "deleting" =>
          LET same == {k \in script[s].listed : claims[k.id].gen = k.gen}
              erased == {k \in same : claims'[k.id].gen # k.gen}
          IN  /\ erased \in {{}, same}
              /\ (engine = "postgresql" /\ \E w \in claimRows, k \in same :
                                              w.table = "ai_invocation_logs" /\ w.claim = k.id)
                   => erased = {}
  <2> SUFFICES ASSUME IInv, [Next]_vars, NEW s \in Erasing, script'[s].step # "deleting"
               PROVE  LET same == {k \in script[s].listed : claims[k.id].gen = k.gen}
                          erased == {k \in same : claims'[k.id].gen # k.gen}
                      IN  /\ erased \in {{}, same}
                          /\ (engine = "postgresql" /\
                              \E w \in claimRows, k \in same :
                                 w.table = "ai_invocation_logs" /\ w.claim = k.id) => erased = {}
    OBVIOUS
  <2> DEFINE same == {k \in script[s].listed : claims[k.id].gen = k.gen}
             erased == {k \in same : claims'[k.id].gen # k.gen}
  <2>1. /\ s \in Scripts /\ script[s] \in ScriptType /\ script[s].step = "deleting"
        /\ script[s].task \in {"purge", "reset"}
    BY DEF Erasing, IInv, Typed, Listed
  <2>2. CASE EraseFails(s)
    <3>1. claims' = claims
      BY <2>2 DEF EraseFails, tables
    <3> QED
      BY <3>1
  <2>3. CASE EraseCommit(s)
    <3>1. \A k \in same : k.id \in Ids /\ k.gen # 0 /\ k.id \in Matched(s)
      <4>1. ASSUME NEW k \in same PROVE k.id \in Ids /\ k.gen # 0 /\ k.id \in Matched(s)
        <5>1. k \in ListType /\ k.gen \in 1..born /\ claims[k.id].gen = k.gen
          BY <2>1 DEF IInv, Dated, ScriptType
        <5>2. k.id \in Ids /\ k.gen # 0
          BY <5>1, BoundAssumption DEF ListType, IInv, Typed
        <5>3. k.id \in Stored
          BY <5>1, <5>2, StoredClaim
        <5>4. CASE script[s].task = "purge"
          BY <5>2, <5>3, <5>4 DEF Matched, ListedIds
        <5>5. CASE script[s].task = "reset"
          BY <2>1, <5>1, <5>2, <5>3, <5>5 DEF Matched, ClaimsOf, IInv, Listed
        <5> QED
          BY <2>1, <5>2, <5>4, <5>5
      <4> QED
        BY <4>1
    <3>2. claims' = [c \in Ids |-> IF c \in Matched(s) THEN None ELSE claims[c]]
      BY <2>3 DEF EraseCommit, Erase
    <3>3. erased = same
      BY <3>1, <3>2 DEF None
    <3>4. ASSUME engine = "postgresql", NEW w \in claimRows, NEW k \in same,
                 w.table = "ai_invocation_logs", w.claim = k.id
          PROVE  FALSE
      <4>1. w \in RowType
        BY DEF IInv, Typed
      <4>2. w \notin MallRowType
        BY <4>1 DEF RowType, MallRowType
      <4>3. w \notin script[s].gone
        BY <2>1, <3>4, <4>2 DEF IInv, Caught, ErasedClaimTables
      <4>4. w \in Left(s)
        BY <3>1, <3>4, <4>3 DEF Left
      <4> QED
        BY <2>3, <3>4, <4>4 DEF EraseCommit
    <3> HIDE DEF same, erased
    <3>5. erased \in {{}, same}
      BY <3>3
    <3>6. (engine = "postgresql" /\ \E w \in claimRows, k \in same :
             w.table = "ai_invocation_logs" /\ w.claim = k.id) => erased = {}
      BY <3>4
    <3> QED
      BY <3>5, <3>6 DEF same, erased
  <2> QED
    BY <2>2, <2>3, HowErasingEnds
<1> QED
  BY <1>1, Invariance, PTL DEF EraseAllOrNothing, Spec

-----------------------------------------------------------------------------
\* In production nobody resets

NoReset == \A s \in Scripts : script[s].task # "reset" /\ script[s].malls = {}

LEMMA NeverReset == ASSUME Production PROVE Spec => []NoReset
<1>1. Init => NoReset
  BY DEF Init, NoReset, Idle
<1>2. IInv /\ NoReset /\ [Next]_vars => NoReset'
  <2> SUFFICES ASSUME IInv, NoReset, [Next]_vars, NEW t \in Scripts
               PROVE  script'[t].task # "reset" /\ script'[t].malls = {}
    BY DEF NoReset
  <2>1. script \in [Scripts -> ScriptType] /\ script[t].task # "reset" /\ script[t].malls = {}
    BY DEF IInv, Typed, NoReset
  <2>2. ASSUME NEW rows, script' = Escape(rows) PROVE script'[t].task # "reset" /\ script'[t].malls = {}
    BY <2>1, <2>2, Escaped
  <2>3. ASSUME NEW s \in Scripts,
               \/ PurgeRead(s) \/ ResetRead(s) \/ DeleteRows(s) \/ EraseCommit(s)
               \/ EraseFails(s) \/ SeedRead(s) \/ SeedSkipped(s) \/ SeedCommit(s)
        PROVE  script'[t].task # "reset" /\ script'[t].malls = {}
    <3>1. script[s].task # "reset" /\ script[s] \in ScriptType /\ ~ResetRead(s)
      BY <2>1 DEF NoReset, ResetRead
    <3>2. Idle.task = "none" /\ Idle.malls = {}
      BY DEF Idle
    <3>3. CASE EraseCommit(s) \/ EraseFails(s) \/ SeedSkipped(s) \/ SeedCommit(s)
      <4>1. script' = [script EXCEPT ![s] = Idle]
        BY <2>1, <3>1, <3>3 DEF EraseCommit, Erase, EraseFails, SeedSkipped, SeedCommit, Seed
      <4> QED
        BY <2>1, <3>2, <4>1
    <3>4. CASE PurgeRead(s) \/ DeleteRows(s) \/ SeedRead(s)
      BY <2>1, <3>1, <3>4 DEF PurgeRead, DeleteRows, SeedRead, NoReset, ScriptType
    <3> QED
      BY <2>3, <3>1, <3>3, <3>4
  <2>4. ASSUME script' = script PROVE script'[t].task # "reset" /\ script'[t].malls = {}
    BY <2>1, <2>4
  <2> QED
    BY <2>2, <2>3, <2>4 DEF Next, vars, LoadMerchant, NewClaim, Integrate, Load, CommitNew,
                                CommitRefused, Expire
<1> QED
  BY <1>1, <1>2, Invariance, PTL DEF Spec

\* In production, whatever scripts are run and however they interleave with syncs and requests,
\* no merchant is ever deleted, and with PostgreSQL a claim goes only after its retention.
THEOREM ProductionKeepsRecords ==
  ASSUME Production
  PROVE  Spec => [][/\ merchants \subseteq merchants'
                    /\ engine = "postgresql" =>
                         \A c \in Stored : claims'[c] = None => claims[c].gen \in ranOut]_vars
<1>1. ASSUME IInv, NoReset, [Next]_vars
      PROVE  /\ merchants \subseteq merchants'
             /\ engine = "postgresql" =>
                  \A c \in Stored : claims'[c] = None => claims[c].gen \in ranOut
  <2>1. ASSUME NEW s \in Scripts, EraseCommit(s)
        PROVE  merchants' = merchants
    <3>1. script[s].malls = {}
      BY <1>1 DEF NoReset
    <3> QED
      BY <2>1, <3>1 DEF EraseCommit, Erase, Among
  <2>2. merchants \subseteq merchants'
    BY <1>1, <2>1
       DEF Next, vars, tables, LoadMerchant, NewClaim, Integrate, Load, CommitNew, CommitRefused,
           Expire, PurgeRead, ResetRead, DeleteRows, EraseFails, SeedRead, SeedSkipped, SeedCommit, Seed
  <2>3. ASSUME engine = "postgresql", NEW c \in Stored, claims'[c] = None
        PROVE  claims[c].gen \in ranOut
    <3>1. PICK s \in Erasing : EraseCommit(s) /\ c \in Matched(s)
      BY <1>1, <2>3, WhoErases
    <3>2. s \in Scripts /\ script[s].step = "deleting" /\ script[s].task = "purge"
      BY <1>1 DEF Erasing, NoReset, IInv, Typed, Listed
    <3>3. PICK k \in script[s].listed : k.id = c
      BY <3>1, <3>2 DEF Matched, ListedIds
    <3> QED
      BY <1>1, <2>3, <3>2, <3>3 DEF IInv, Listed, Named
  <2> QED
    BY <2>2, <2>3
<1> QED
  BY <1>1, Invariance, NeverReset, PTL DEF Spec
=============================================================================
