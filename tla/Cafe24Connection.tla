-------------------------- MODULE Cafe24Connection --------------------------
(***************************************************************************)
(* The cafe24_connections row of one merchant, on which OAuth callbacks,   *)
(* token refreshes, live syncs, mock syncs and the console page work at    *)
(* the same time (integrations/cafe24/live_service.py, sync_service.py),   *)
(* and the token service behind it.                                        *)
(*                                                                         *)
(* Each job or request works on a copy of the row in its own session; an   *)
(* UPDATE writes those of the assigned columns that differ from the copy.  *)
(* A grant of the service is a number: that of its access token and of its *)
(* refresh token, 0 standing for none.                                     *)
(***************************************************************************)
EXTENDS Naturals, FiniteSets

CONSTANTS
  Flows,    \* bound: the jobs and requests that ever run
  Kinds     \* what they may be

AllKinds == {"callback", "refresh", "sync", "mock", "page"}
ASSUME FlowAssumption == IsFiniteSet(Flows) /\ Kinds \subseteq AllKinds

VARIABLES
  service,   \* whether a refresh token is for one use, for many, or is not given
  granted,   \* number of grants of the service
  spent,     \* refresh tokens that the service accepts no more
  expired,   \* access tokens that have expired
  row,       \* the connection
  flow,      \* the jobs and requests
  lost,      \* history: refresh tokens whose replacement has been lost
  latest,    \* history: the result of the sync that ended last, the batch of the last to complete
  muddled    \* history: since then a flow with a stale copy has left the result wrong

server == <<service, granted, spent, expired>>
vars == <<server, row, flow, lost, latest, muddled>>

Grants == 1..Cardinality(Flows)
Results == {"not_started", "oauth_connected", "live_completed", "live_failed", "mock_completed"}
Outcomes == {"live_completed", "live_failed", "mock_completed"}
\* The batch stands for the time, the batch id and the counts, which are new with each sync.
Batch(sync, f) == [sync |-> sync, of |-> f]
NoBatch == Batch("none", "none")
Batches == {NoBatch} \cup {Batch(sync, f) : sync \in {"live", "mock"}, f \in Flows}
NoRow == [result |-> "none", batch |-> NoBatch, connected |-> FALSE, access |-> 0, refresh |-> 0]
NoSync == [result |-> "none", batch |-> NoBatch]
NewRow == [NoRow EXCEPT !.result = "not_started"]
Waiting == [kind |-> "none", step |-> "ready", copy |-> NoRow, access |-> 0, refresh |-> 0,
            expired |-> FALSE, late |-> FALSE]
Ended == [Waiting EXCEPT !.step = "done"]

Init ==
  /\ service \in {"rotating", "reusable", "none"}
  /\ granted = 0 /\ spent = {} /\ expired = {}
  /\ row = NoRow
  /\ flow = [f \in Flows |-> Waiting]
  /\ lost = {} /\ latest = NoSync /\ muddled = FALSE

-----------------------------------------------------------------------------
\* Sessions

Becomes(f, next) == flow' = [flow EXCEPT ![f] = next]
At(f, step) == [flow[f] EXCEPT !.step = step]

\* Of the assigned columns an UPDATE writes those that differ from the copy; of an instance
\* that is expired (expire_all) it writes all.
Written(f, assigned) ==
  [k \in DOMAIN row |->
     IF k \in DOMAIN assigned /\ (flow[f].expired \/ assigned[k] # flow[f].copy[k])
     THEN assigned[k] ELSE row[k]]

\* Flow f commits its assignments and goes on; the copies of the others are out of date.
Commit(f, assigned, next) ==
  LET now == Written(f, assigned)
  IN  /\ row' = now
      /\ flow' = [g \in Flows |->
                    IF g = f THEN next
                    ELSE [flow[g] EXCEPT !.late = @ \/ (now # row /\ flow[g].copy # NoRow)]]

\* Others have changed the row since f read the copy that its assignments are compared with.
Overtaken(f) == flow[f].late /\ ~flow[f].expired

Holding(f, step) == [At(f, step) EXCEPT !.copy = row, !.late = FALSE, !.expired = FALSE]

\* get_or_create_connection
Lookup(f, kind, step) ==
  /\ kind \in Kinds /\ flow[f] = Waiting
  /\ LET begun == [Waiting EXCEPT !.kind = kind]
     IN  Becomes(f, IF row = NoRow THEN [begun EXCEPT !.step = "insert"]
                    ELSE [begun EXCEPT !.step = step, !.copy = row])
  /\ UNCHANGED <<server, row, lost, latest, muddled>>

After(kind) == CASE kind = "callback" -> "ask" [] kind = "mock" -> "mark" [] OTHER -> "done"

\* merchant_id is unique: the second of two inserts fails and the row is read again.
Insert(f) ==
  LET kind == flow[f].kind
      created == IF row = NoRow THEN NewRow ELSE row
  IN  /\ flow[f].step = "insert"
      /\ row' = created
      /\ Becomes(f, IF kind = "page" THEN Ended ELSE [At(f, After(kind)) EXCEPT !.copy = created])
      /\ UNCHANGED <<server, lost, latest, muddled>>

-----------------------------------------------------------------------------
\* Tokens

CallbackLookup(f) == Lookup(f, "callback", "ask")

\* refresh_connection_token of the endpoint; 409 without a refresh token.
RefreshLoad(f) ==
  /\ "refresh" \in Kinds /\ flow[f] = Waiting /\ row.refresh # 0
  /\ Becomes(f, [Waiting EXCEPT !.kind = "refresh", !.step = "ask", !.copy = row])
  /\ UNCHANGED <<server, row, lost, latest, muddled>>

Replaced(f) == IF flow[f].kind # "callback" /\ service = "rotating" THEN {flow[f].copy.refresh} ELSE {}

\* The service grants a code, or a refresh token that it still accepts.
Grant(f) ==
  LET exchange == flow[f].kind = "callback"
      gives == service = "rotating" \/ (exchange /\ service = "reusable")
  IN  /\ flow[f].step = "ask"
      /\ exchange \/ flow[f].copy.refresh \notin spent
      /\ granted' = granted + 1
      /\ spent' = spent \cup Replaced(f)
      /\ Becomes(f, [At(f, "store") EXCEPT !.access = granted + 1,
                                           !.refresh = IF gives THEN granted + 1 ELSE 0])
      /\ UNCHANGED <<service, expired, row, lost, latest, muddled>>

\* Faulty variants: the old refresh token wins; the marker of a connect overwrites an outcome.
TokensKept(f) ==
  LET copy == flow[f].copy
  IN  [access |-> flow[f].access,
       refresh |-> IF copy.refresh # 0 THEN copy.refresh ELSE flow[f].refresh,
       connected |-> copy.connected \/ flow[f].kind = "callback",
       result |-> IF copy.result = "not_started" THEN "oauth_connected" ELSE copy.result]

TokensReset(f) ==
  LET copy == flow[f].copy
  IN  [access |-> flow[f].access,
       refresh |-> IF flow[f].refresh # 0 THEN flow[f].refresh ELSE copy.refresh,
       connected |-> copy.connected \/ flow[f].kind = "callback",
       result |-> "oauth_connected"]

Tokens(f) ==
  LET copy == flow[f].copy
  IN  [access |-> flow[f].access,
       refresh |-> IF flow[f].refresh # 0 THEN flow[f].refresh ELSE copy.refresh,
       connected |-> copy.connected \/ flow[f].kind = "callback",
       result |-> IF copy.result = "not_started" THEN "oauth_connected" ELSE copy.result]

\* store_tokens, with the refresh of the copy that follows the commit.
StoreTokens(f) ==
  /\ flow[f].step = "store"
  /\ Commit(f, Tokens(f), IF flow[f].kind = "sync"
                          THEN [At(f, "orders") EXCEPT !.copy = Written(f, Tokens(f)),
                                  !.late = FALSE, !.access = 0, !.refresh = 0]
                          ELSE Ended)
  \* The marker of a first connect is written over a result it has not seen.
  /\ muddled' = (muddled \/ (Overtaken(f) /\ flow[f].copy.result = "not_started"))
  /\ UNCHANGED <<server, lost, latest>>

AccessExpires(g) ==
  /\ g <= granted /\ g \notin expired
  /\ expired' = expired \cup {g}
  /\ UNCHANGED <<service, granted, spent, row, flow, lost, latest, muddled>>

-----------------------------------------------------------------------------
\* run_live_sync.  Without an access token, or with an expired one and no refresh token, it
\* refuses (409) and leaves no trace here.

SyncLoad(f) ==
  /\ "sync" \in Kinds /\ flow[f] = Waiting /\ row.access # 0
  /\ row.access \in expired => row.refresh # 0
  /\ Becomes(f, [Waiting EXCEPT !.kind = "sync", !.copy = row,
                                !.step = IF row.access \in expired THEN "ask" ELSE "orders"])
  /\ UNCHANGED <<server, row, lost, latest, muddled>>

ListOrders(f) ==
  /\ flow[f].step = "orders" /\ flow[f].copy.access \notin expired
  /\ Becomes(f, At(f, "claims"))
  /\ UNCHANGED <<server, row, lost, latest, muddled>>

\* Storing a claim ends with expire_all; the next order's shipments read the row again.
SyncClaim(f) ==
  /\ flow[f].step = "claims" /\ ~flow[f].expired
  /\ Becomes(f, [flow[f] EXCEPT !.expired = TRUE])
  /\ UNCHANGED <<server, row, lost, latest, muddled>>

SyncNextOrder(f) ==
  /\ flow[f].step = "claims" /\ flow[f].expired
  /\ Becomes(f, Holding(f, "claims"))
  /\ UNCHANGED <<server, row, lost, latest, muddled>>

\* A sync ends.  Its result is left out if the copy has the same, whatever the row has now.
End(f, assigned) ==
  /\ Commit(f, assigned, Ended)
  /\ latest' = [k \in DOMAIN latest |-> IF k \in DOMAIN assigned THEN assigned[k] ELSE latest[k]]
  /\ muddled' = (Overtaken(f) /\ assigned.result = flow[f].copy.result)
  /\ UNCHANGED <<server, lost>>

\* Faulty variant: a word of its own.
CompletedAs(f) == [result |-> "completed", batch |-> Batch("live", f)]

Completed(f) == [result |-> "live_completed", batch |-> Batch("live", f)]

SyncCompletes(f) == flow[f].step = "claims" /\ End(f, Completed(f))

SyncFails(f) == flow[f].step \in {"orders", "claims"} /\ End(f, [result |-> "live_failed"])

\* run_mock_sync
MockLookup(f) == Lookup(f, "mock", "mark")

Mocked(f) == [result |-> "mock_completed", batch |-> Batch("mock", f)]

MockMarks(f) == flow[f].step = "mark" /\ End(f, Mocked(f))

\* build_live_status creates the row that is missing.
PageLookup(f) == row = NoRow /\ Lookup(f, "page", "done")

\* The service refuses or cannot be reached (after it has granted, too), the circuit is open,
\* or the process dies.
Fails(f) ==
  /\ flow[f].step \notin {"ready", "done"}
  /\ lost' = IF flow[f].step = "store" THEN lost \cup Replaced(f) ELSE lost
  /\ Becomes(f, Ended)
  /\ UNCHANGED <<server, row, latest, muddled>>

-----------------------------------------------------------------------------
Step(f) ==
  \/ CallbackLookup(f) \/ RefreshLoad(f) \/ Insert(f) \/ Grant(f) \/ StoreTokens(f)
  \/ SyncLoad(f) \/ ListOrders(f) \/ SyncClaim(f) \/ SyncNextOrder(f) \/ SyncCompletes(f)
  \/ SyncFails(f) \/ MockLookup(f) \/ MockMarks(f) \/ PageLookup(f) \/ Fails(f)

Next ==
  \/ \E f \in Flows : Step(f)
  \/ \E g \in Grants : AccessExpires(g)

Spec == Init /\ [][Next]_vars

-----------------------------------------------------------------------------
\* The console: what build_live_status advises, from the connection and the webhooks.

View == [soon : BOOLEAN, retryable : BOOLEAN, secret : BOOLEAN, backlog : BOOLEAN]

\* Faulty variant: only the refresh that is recommended is looked at, not one that is overdue.
GuardsSoonOnly(w) ==
  << <<~(row.connected /\ row.access # 0),             "Connect Cafe24">>,
     <<row.access \in expired /\ row.refresh = 0,      "Reconnect Cafe24">>,
     <<w.soon,                                         "Refresh Token">>,
     <<w.retryable,                                    "Retry Failed Webhooks">>,
     <<row.result \in {"not_started", "oauth_connected"}, "Run Live Sync">>,
     <<~w.secret,                                      "Review Webhook Setup">>,
     <<w.backlog,                                      "Webhook backlog">>,
     <<TRUE,                                           "healthy">> >>

\* The conditions in the order in which they are tried, each with the button it leads to.
Guards(w) ==
  << <<~(row.connected /\ row.access # 0),             "Connect Cafe24">>,
     <<row.access \in expired /\ row.refresh = 0,      "Reconnect Cafe24">>,
     <<row.access \in expired \/ w.soon,               "Refresh Token">>,
     <<w.retryable,                                    "Retry Failed Webhooks">>,
     <<row.result \in {"not_started", "oauth_connected"}, "Run Live Sync">>,
     <<~w.secret,                                      "Review Webhook Setup">>,
     <<w.backlog,                                      "Webhook backlog">>,
     <<TRUE,                                           "healthy">> >>

Advice(w) ==
  LET g == Guards(w)
  IN  g[CHOOSE i \in DOMAIN g : g[i][1] /\ \A k \in 1..(i - 1) : ~g[k][1]][2]

-----------------------------------------------------------------------------
\* Types, and tokens are those the service has granted.
TypeOK ==
  /\ service \in {"rotating", "reusable", "none"}
  /\ granted \in 0..Cardinality(Flows)
  /\ spent \cup expired \cup lost \subseteq 1..granted
  /\ row \in {NoRow} \cup [result : Results, batch : Batches, connected : BOOLEAN,
                           access : 0..granted, refresh : 0..granted]
  /\ \A f \in Flows :
       /\ flow[f].kind \in AllKinds \cup {"none"}
       /\ flow[f].step \in {"ready", "insert", "ask", "store", "orders", "claims", "mark", "done"}
       /\ flow[f].access \in 0..granted /\ flow[f].refresh \in 0..granted
  /\ latest \in [result : Outcomes \cup {"none"}, batch : Batches]

\* The stored refresh token is of use, however many flows refresh and connect at once: it has
\* been spent only while a flow is about to store its replacement, or if that was lost.
RefreshTokenUsable ==
  row.refresh \in spent =>
    \/ row.refresh \in lost
    \/ \E f \in Flows : flow[f].step = "store" /\ row.refresh \in Replaced(f)

\* However flows overtake each other, the time and the counts are those of the sync that
\* completed last.  The result is that of the sync that ended last, and nothing says "not yet
\* synced" after the first one, unless one of the two slips of a stale copy has happened since.
OutcomeKept ==
  /\ row.batch = latest.batch
  /\ muddled \/ (IF latest = NoSync THEN row.result \notin Outcomes
                               ELSE row.result = latest.result)

\* A connection is called healthy only with a token that has not expired and after a sync
\* has left an outcome, which need not be that of a live sync that completed.
HealthyAfterSync ==
  \A w \in View : Advice(w) = "healthy" =>
    row.connected /\ row.access \in Grants \ expired /\ latest # NoSync
=============================================================================
