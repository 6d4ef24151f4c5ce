--------------------------- MODULE DataLifecycle ---------------------------
(***************************************************************************)
(* Erasing data: services/data_lifecycle.py (soft delete, retention purge, *)
(* demo reset), services/seed.py and the script that calls them, on the    *)
(* tables of models.py with their foreign keys, while the API goes on      *)
(* writing.  PostgreSQL enforces foreign keys and never hands out an id    *)
(* again; SQLite, as it is opened here, does neither.                      *)
(*                                                                         *)
(* A row that references a claim or a merchant carries, besides the id,    *)
(* the generation of the one it was written for (every inserted claim and  *)
(* merchant is a new one), so that a reused id shows; it is late when it   *)
(* was written for one that was gone.  Of the rows that are added to a     *)
(* table for a claim, or for a merchant, one of each kind is kept.         *)
(***************************************************************************)
EXTENDS Naturals, FiniteSets

CONSTANTS
  DemoMalls, LiveMalls,  \* merchants, by mall_name and data_origin
  Scripts,               \* processes that seed, reset or purge (bootstrap included)
  Requests,              \* requests, and jobs, that write to a claim or for a merchant
  Kinds,                 \* what each of them may be, see Adds
  Production,            \* app_env is "production"
  MaxClaims              \* bound: claims ever inserted

ASSUME MallAssumption == DemoMalls \cap LiveMalls = {} /\ IsFiniteSet(DemoMalls)
ASSUME BoundAssumption == MaxClaims \in Nat /\ Production \in BOOLEAN
ASSUME KindAssumption ==
  Kinds \in [Requests -> SUBSET {"note", "draft", "reply", "delete", "sync"}]

VARIABLES
  engine,      \* the database
  merchants,   \* the merchants table
  claims,      \* the claims table, by id
  claimRows,   \* rows of the tables that reference claims
  mallRows,    \* rows of the other tables that reference merchants
  script,      \* what each script is doing
  request,     \* the merchant or the claim each request has loaded
  born,        \* history: claims inserted so far
  ranOut,      \* history: claims whose retention has once run out
  missed       \* history: claims erased by a reset that had not listed them

tables == <<merchants, claims, claimRows, mallRows>>
history == <<born, ranOut, missed>>
vars == <<engine, tables, script, request, history>>

ClaimTables == {"claim_messages", "suggested_actions", "audit_logs", "reply_deliveries",
                "ai_invocation_logs"}
\* What enqueueing, connecting, webhooks and syncs leave.
Integrations == {"background_jobs", "cafe24_connections", "cafe24_webhook_deliveries",
                 "cafe24_integration_events"}
MallTables == Integrations \cup {"policies", "operator_users"}

Ids == 1..MaxClaims
\* The merchants that have existed: those that are there from the start, and after them those
\* of every seed, dated by the claims inserted until then.
Owners == [mall : DemoMalls \cup LiveMalls, gen : 0..MaxClaims]
Live == [mall : LiveMalls, gen : {0}]
NoOwner == [mall |-> "none", gen |-> 0]
None == [owner |-> NoOwner, late |-> FALSE, life |-> "none", gen |-> 0]
Lives == {"live", "deleted", "expired"}
Idle == [task |-> "none", step |-> "idle", listed |-> {}, malls |-> {}, gone |-> {}]
Quiet == [kind |-> "none", owner |-> NoOwner, id |-> 0, gen |-> 0]

Init ==
  /\ engine \in {"postgresql", "sqlite"}
  /\ merchants = Live
  /\ claims = [c \in Ids |-> None]
  /\ claimRows = {}
  /\ mallRows = [table : Integrations, owner : Live, late : {FALSE}]
  /\ script = [s \in Scripts |-> Idle]
  /\ request = [r \in Requests |-> Quiet]
  /\ born = 0 /\ ranOut = {} /\ missed = {}

Stored == {c \in Ids : claims[c] # None}

\* The same merchant id: SQLite gives a merchant that is seeded again the id it had before.
SameId(m, k) == m.mall = k.mall /\ (engine = "postgresql" => m.gen = k.gen)
Among(m, malls) == \E k \in malls : SameId(m, k)

ClaimsOf(malls) == {c \in Stored : Among(claims[c].owner, malls)}
DemoMerchants == {m \in merchants : m.mall \in DemoMalls}

\* SQLite has one writer at a time; PostgreSQL makes a second eraser wait for row locks.
Erasing == {s \in Scripts : script[s].step = "deleting"}
MayWrite == engine = "sqlite" => Erasing = {}

\* Rows added while an eraser is between its DELETEs and its commit are not among those it
\* has deleted.
Escape(rows) == [s \in Scripts |-> [script[s] EXCEPT !.gone = @ \ rows]]

-----------------------------------------------------------------------------
\* Requests and syncs

Rows(names, c, g, l) == {[table |-> t, claim |-> c, gen |-> g, late |-> l] : t \in names}

\* The next ids of the sequence, or those after the largest one in the table.
NewIds(n) ==
  LET top == IF engine = "postgresql" THEN born
             ELSE CHOOSE m \in 0..MaxClaims :
                    m \in Stored \cup {0} /\ \A c \in Stored : c <= m
  IN  (top + 1)..(top + n)

\* One new claim for each of the owners, with the rows that are committed with it.
InsertClaims(owners, names, late) ==
  LET n == Cardinality(owners)
  IN  /\ born + n <= MaxClaims
      /\ \E of \in [owners -> NewIds(n)] :
           /\ \A m1, m2 \in owners : m1 # m2 => of[m1] # of[m2]
           /\ LET gen(c) == born + 1 + c - (CHOOSE i \in NewIds(n) : \A k \in NewIds(n) : i <= k)
                  new == UNION {Rows(names, of[m], gen(of[m]), FALSE) : m \in owners}
              IN  /\ claims' = [c \in Ids |->
                                 IF \E m \in owners : of[m] = c
                                 THEN [owner |-> CHOOSE m \in owners : of[m] = c, late |-> late,
                                       life |-> "live", gen |-> gen(c)]
                                 ELSE claims[c]]
                  /\ claimRows' = claimRows \cup new
      /\ born' = born + n

\* A webhook, a sync or whoever enqueues a job loads the merchant first, and writes for it
\* later.
LoadMerchant(r) ==
  /\ request[r] = Quiet /\ "sync" \in Kinds[r]
  /\ \E m \in merchants : request' = [request EXCEPT ![r].kind = "sync", ![r].owner = m]
  /\ UNCHANGED <<engine, tables, script, history>>

Gone(m) == m \notin merchants

\* A row of a merchant that is gone violates the foreign key, where there is one.
HoldsMerchant(r) ==
  /\ request[r] # Quiet /\ request[r].id = 0 /\ MayWrite
  /\ engine = "postgresql" => ~Gone(request[r].owner)

\* The rows are those of the merchant loaded, except that there is one connection for an id
\* (get_or_create_connection).  A sync goes on with the merchant it holds.
Integrate(r) ==
  LET m == request[r].owner
      connected == \E w \in mallRows : w.table = "cafe24_connections" /\ SameId(w.owner, m)
      new == [table : Integrations \ (IF connected THEN {"cafe24_connections"} ELSE {}),
              owner : {m}, late : {Gone(m)}]
  IN  /\ HoldsMerchant(r) /\ ~ new \subseteq mallRows
      /\ mallRows' = mallRows \cup new
      /\ script' = Escape(new)
      /\ UNCHANGED <<engine, merchants, claims, claimRows, request, history>>

\* A live sync stores a claim; the message and the audit entry are a second commit.
NewClaim(r) ==
  LET m == request[r].owner
  IN  /\ HoldsMerchant(r)
      /\ InsertClaims({m}, {}, Gone(m))
      /\ \E c \in Ids : /\ claims'[c] # claims[c]
                         /\ request' = [request EXCEPT ![r].id = c, ![r].gen = claims'[c].gen]
      /\ UNCHANGED <<engine, merchants, mallRows, script, ranOut, missed>>

\* What a request adds: a note, a draft, a reply, the audit entry of a soft delete, or what a
\* live sync says of a claim that it has found or stored.
Adds(kind) ==
  CASE kind = "note"   -> {"audit_logs"}
    [] kind = "draft"  -> {"suggested_actions", "ai_invocation_logs", "audit_logs"}
    [] kind = "reply"  -> {"reply_deliveries", "claim_messages", "audit_logs"}
    [] kind = "delete" -> {"audit_logs"}
    [] kind = "sync"   -> {"claim_messages", "audit_logs"}

\* get_claim, the look-up of a soft delete and that of a sync see only claims that are not
\* deleted.
Load(r) ==
  /\ request[r] = Quiet
  /\ \E c \in Stored, k \in Kinds[r] :
       /\ claims[c].life = "live"
       /\ request' = [request EXCEPT ![r].kind = k, ![r].id = c, ![r].gen = claims[c].gen]
  /\ UNCHANGED <<engine, tables, script, history>>

Finished(r) == request' = [request EXCEPT ![r] = Quiet]

CommitNew(r) ==
  LET q == request[r]
      late == claims[q.id].gen # q.gen
      new == Rows(Adds(q.kind), q.id, q.gen, late)
  IN  /\ q.id # 0 /\ MayWrite
      /\ engine = "postgresql" => claims[q.id] # None
      /\ q.kind = "delete" => claims[q.id] # None
      /\ claims' = IF q.kind = "delete" THEN [claims EXCEPT ![q.id].life = "deleted"] ELSE claims
      /\ claimRows' = claimRows \cup new
      /\ script' = Escape(new)
      /\ Finished(r)
      /\ UNCHANGED <<engine, merchants, mallRows, history>>

\* The foreign key is violated, or the UPDATE of a soft delete matches no row; or the request
\* dies, or has nothing more to write.
CommitRefused(r) ==
  /\ request[r] # Quiet
  /\ Finished(r)
  /\ UNCHANGED <<engine, tables, script, history>>

\* The retention date passes.
Expire(c) ==
  /\ claims[c].life = "deleted"
  /\ claims' = [claims EXCEPT ![c].life = "expired"]
  /\ ranOut' = ranOut \cup {claims[c].gen}
  /\ UNCHANGED <<engine, merchants, claimRows, mallRows, script, request, born, missed>>

-----------------------------------------------------------------------------
\* Erasing: the ids are read, then the rows are deleted table by table, and everything is
\* committed at once.

\* Faulty variants: the purge does not look at the date, or forgets a table.
PurgeableSoon == {c \in Stored : claims[c].life # "live"}
ErasedClaimTablesFewer == {"claim_messages", "audit_logs", "reply_deliveries"}

Purgeable == {c \in Stored : claims[c].life = "expired"}

ErasedClaimTables == {"claim_messages", "suggested_actions", "audit_logs", "reply_deliveries"}

List(ids) == {[id |-> c, gen |-> claims[c].gen] : c \in ids}

PurgeRead(s) ==
  /\ script[s] = Idle /\ Purgeable # {}
  /\ script' = [script EXCEPT ![s].task = "purge", ![s].step = "listed",
                              ![s].listed = List(Purgeable)]
  /\ UNCHANGED <<engine, tables, request, history>>

\* With no demo merchant the reset goes on to seed them.
ResetRead(s) ==
  LET demo == DemoMerchants
  IN  /\ script[s] = Idle /\ ~Production
      /\ script' = [script EXCEPT ![s].task = "reset",
                                  ![s].step = IF demo = {} THEN "seeding" ELSE "listed",
                                  ![s].listed = List(ClaimsOf(demo)), ![s].malls = demo]
      /\ UNCHANGED <<engine, tables, request, history>>

RowsOfMalls(malls) == {w \in mallRows : Among(w.owner, malls)}

ListedIds(s) == {k.id : k \in script[s].listed}

DeleteRows(s) ==
  /\ script[s].step = "listed" /\ Erasing = {}
  /\ script' = [script EXCEPT
       ![s].step = "deleting",
       ![s].gone = {w \in claimRows : w.table \in ErasedClaimTables /\ w.claim \in ListedIds(s)}
                   \cup RowsOfMalls(script[s].malls)]
  /\ UNCHANGED <<engine, tables, request, history>>

\* The claims that the last DELETE on that table matches: by id, or by merchant.
Matched(s) == IF script[s].task = "reset" THEN ClaimsOf(script[s].malls)
              ELSE ListedIds(s) \cap Stored

Left(s) == {w \in claimRows \ script[s].gone : w.claim \in Matched(s)}
           \cup (RowsOfMalls(script[s].malls) \ script[s].gone)

Erase(s, erased) ==
  /\ claims' = [c \in Ids |-> IF c \in erased THEN None ELSE claims[c]]
  /\ claimRows' = claimRows \ script[s].gone
  /\ mallRows' = mallRows \ script[s].gone
  /\ merchants' = {m \in merchants : ~Among(m, script[s].malls)}
  /\ missed' = missed \cup {claims[c].gen : c \in erased \ ListedIds(s)}
  /\ script' = [script EXCEPT ![s] = IF @.task = "reset"
                                     THEN [Idle EXCEPT !.task = "reset", !.step = "seeding"]
                                     ELSE Idle]
  /\ UNCHANGED <<engine, request, born, ranOut>>

\* Faulty variant: claims that something still references are passed over.
EraseCommitPartial(s) ==
  /\ script[s].step = "deleting"
  /\ Erase(s, {c \in Matched(s) : \A w \in Left(s) \cap claimRows : w.claim # c})

EraseCommit(s) ==
  /\ script[s].step = "deleting"
  /\ engine = "postgresql" => Left(s) = {}
  /\ Erase(s, Matched(s))

\* The last DELETEs violate a foreign key and everything is rolled back, or the process dies.
EraseFails(s) ==
  /\ script[s].step # "idle"
  /\ script' = [script EXCEPT ![s] = Idle]
  /\ UNCHANGED <<engine, tables, request, history>>

-----------------------------------------------------------------------------
\* Seeding, alone or as the second half of a reset

SeedRead(s) ==
  /\ script[s].step \in {"idle", "seeding"} /\ DemoMerchants = {}
  /\ script' = [script EXCEPT ![s].task = "seed", ![s].step = "unseeded"]
  /\ UNCHANGED <<engine, tables, request, history>>

\* Somebody else has seeded.
SeedSkipped(s) ==
  /\ script[s].step = "seeding" /\ DemoMerchants # {}
  /\ script' = [script EXCEPT ![s] = Idle]
  /\ UNCHANGED <<engine, tables, request, history>>

Seed(s) ==
  LET new == [mall : DemoMalls, gen : {born + 1}]
  IN  /\ script[s].step = "unseeded" /\ MayWrite
      /\ InsertClaims(new, {"claim_messages", "audit_logs"}, FALSE)
      /\ merchants' = merchants \cup new
      /\ mallRows' = mallRows \cup [table : {"policies", "operator_users"}, owner : new,
                                   late : {FALSE}]
      /\ script' = [script EXCEPT ![s] = Idle]
      /\ UNCHANGED <<engine, request, ranOut, missed>>

\* Faulty variant: nothing keeps a second seeder from seeding as well.
SeedCommitTwice(s) == Seed(s)

\* mall_name is unique: the second of two seeders fails.
SeedCommit(s) == DemoMerchants = {} /\ Seed(s)

-----------------------------------------------------------------------------
Next ==
  \/ \E r \in Requests : \/ LoadMerchant(r) \/ Integrate(r) \/ NewClaim(r)
                         \/ Load(r) \/ CommitNew(r) \/ CommitRefused(r)
  \/ \E c \in Ids : Expire(c)
  \/ \E s \in Scripts : \/ PurgeRead(s) \/ ResetRead(s) \/ DeleteRows(s)
                        \/ EraseCommit(s) \/ EraseFails(s)
                        \/ SeedRead(s) \/ SeedSkipped(s) \/ SeedCommit(s)

Spec == Init /\ [][Next]_vars

-----------------------------------------------------------------------------
\* Types; rows of both kinds name claims and merchants that have existed, and although two
\* scripts may seed at once no mall is there twice.
TypeOK ==
  /\ engine \in {"postgresql", "sqlite"}
  /\ merchants \subseteq Owners /\ \A m, k \in merchants : m.mall = k.mall => m = k
  /\ claims \in [Ids -> {None} \cup [owner : Owners, late : BOOLEAN, life : Lives, gen : 1..born]]
  /\ claimRows \subseteq [table : ClaimTables, claim : Ids, gen : 1..born, late : BOOLEAN]
  /\ mallRows \subseteq [table : MallTables, owner : Owners, late : BOOLEAN]
  /\ request \in [Requests -> [kind : {"none", "note", "draft", "reply", "delete", "sync"},
                               owner : Owners \cup {NoOwner}, id : 0..MaxClaims, gen : 0..born]]
  /\ \A s \in Scripts : /\ script[s].task \in {"none", "purge", "reset", "seed"}
                        /\ script[s].step \in {"idle", "listed", "deleting", "seeding", "unseeded"}
                        /\ script[s].listed \subseteq [id : Ids, gen : 1..born]
                        /\ script[s].gone \subseteq claimRows \cup mallRows
  /\ born \in 0..MaxClaims /\ ranOut \cup missed \subseteq 1..born
  /\ \A w \in mallRows \cup {claims[c] : c \in Stored} : w.owner.gen <= born

\* A claim that has been erased leaves no row behind and no row that shows up under another
\* claim, and a merchant that has been erased leaves neither rows nor claims.  On SQLite some
\* escape: AI invocations, which no eraser deletes; what a request writes for a claim, or a
\* sync, a webhook or an enqueueing for a merchant, that it had loaded before; rows of a claim
\* that was stored while a reset was already under way.
ErasedLeaveNoRows ==
  /\ \A w \in claimRows :
       claims[w.claim].gen # w.gen =>
         /\ engine = "sqlite"
         /\ w.table = "ai_invocation_logs" \/ w.late \/ w.gen \in missed
  /\ \A w \in mallRows \cup {claims[c] : c \in Stored} :
       Gone(w.owner) => engine = "sqlite" /\ w.late

\* Only a claim whose retention has run out is purged, and a reset touches demo claims only,
\* except that on SQLite an id may have been handed out again since a script listed it.
ErasedRightfully ==
  [][\A c \in Stored : claims'[c] = None =>
       \/ claims[c].gen \in ranOut
       \/ claims[c].owner.mall \in DemoMalls /\ \E s \in Erasing : script[s].task = "reset"
       \/ /\ engine = "sqlite"
          /\ \E s \in Erasing : \E k \in script[s].listed : k.id = c /\ k.gen # claims[c].gen]_vars

\* A purge or reset erases everything it listed or nothing; with foreign keys it is nothing
\* as soon as one of the claims has an AI invocation, although the others have none.
EraseAllOrNothing ==
  [][\A s \in Erasing : script'[s].step # "deleting" =>
       LET same == {k \in script[s].listed : claims[k.id].gen = k.gen}
           erased == {k \in same : claims'[k.id].gen # k.gen}
       IN  /\ erased \in {{}, same}
           /\ (engine = "postgresql" /\ \E w \in claimRows, k \in same :
                                           w.table = "ai_invocation_logs" /\ w.claim = k.id)
                => erased = {}]_vars
=============================================================================
