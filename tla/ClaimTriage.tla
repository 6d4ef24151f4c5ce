---------------------------- MODULE ClaimTriage ----------------------------
(***************************************************************************)
(* The claims of one order: the live sync that stores them                 *)
(* (_upsert_claim_from_live_order), the webhooks that change them          *)
(* (apply_*_webhook_to_claim), the AI triage that follows (classify_claim, *)
(* generate_draft_reply, the review policy) and the operators' requests.   *)
(*                                                                         *)
(* Every job or request has a session of its own: it loads a row, works on *)
(* that copy through several commits, and an UPDATE writes the columns in  *)
(* which the copy was changed and no others.                               *)
(***************************************************************************)
EXTENDS Naturals, FiniteSets

CONSTANTS
  Flows,        \* bound: the jobs and requests that ever run
  Kinds,        \* what they may be
  Statuses,     \* what the order may say: the sets of categories that a status text names
  Product,      \* the categories that the product's name brings to mind
  Events,       \* the categories of the webhook events
  Answers,      \* the categories and urgencies that the external model may answer
  Decisions     \* the statuses that operators may set

SignalOrder == <<"exchange", "return", "cancellation", "refund", "delivery">>
Keywords == <<"defect", "misdelivery", "exchange", "return", "refund", "cancellation",
              "delivery", "other">>
Categories == {Keywords[i] : i \in 1..8}
Signals == {SignalOrder[i] : i \in 1..5}
Urgencies == {"low", "medium", "high"}
AllKinds == {"sync", "webhook", "decide", "classify", "draft", "delete"}

ASSUME FlowAssumption == IsFiniteSet(Flows) /\ Kinds \subseteq AllKinds
ASSUME WordAssumption ==
  /\ Statuses \subseteq (SUBSET Signals) \ {{}}
  /\ Product \subseteq Categories /\ Answers \subseteq [cat : Categories, urg : Urgencies]
  /\ Events \subseteq {"cancellation", "exchange", "return", "delivery"}
  /\ Decisions \subseteq {"open", "approved", "rejected", "done"}

VARIABLES
  provider,    \* AI_PROVIDER
  claims,      \* the rows of the order
  heard,       \* what the messages of each claim bring to mind
  flow,        \* the jobs and requests, with their copies; late: another one has written the
               \*   claim since, or has filed one where this one had found none (history)
  raced,       \* history: claims stored by such a flow
  moved,       \* history: claims whose category has changed
  undrafted    \* history: claims that an operator had classified, or whose triage was cut short

history == <<raced, moved, undrafted>>
vars == <<provider, claims, heard, flow, history>>

Ids == 1..Cardinality(Flows)
Columns == [cat : Categories, status : Decisions \cup {"in_review"}, urg : Urgencies,
            label : BOOLEAN, reason : SUBSET Categories]
\* No row, or one not yet flushed
Blank == [cat |-> "none", status |-> "none", urg |-> "none", label |-> FALSE, reason |-> {}]
NoClaim == [cols |-> Blank, draft |-> "none", logged |-> FALSE, deleted |-> FALSE,
            filed |-> "none"]
Waiting == [kind |-> "none", step |-> "ready", id |-> 0, copy |-> Blank, says |-> {},
            new |-> FALSE, late |-> FALSE]

Stored == {c \in Ids : claims[c] # NoClaim}
Current == {c \in Stored : ~claims[c].deleted}

Init ==
  /\ provider \in {"mock", "openai"}
  /\ claims = [c \in Ids |-> NoClaim]
  /\ heard = [c \in Ids |-> {}]
  /\ flow = [f \in Flows |-> Waiting]
  /\ raced = {} /\ moved = {} /\ undrafted = {}

-----------------------------------------------------------------------------
\* The data: signals, rules, answers, review

First(order, words) ==
  order[CHOOSE i \in DOMAIN order : order[i] \in words /\ \A k \in 1..(i - 1) : order[k] \notin words]

\* _extract_claim_signal
Signal(words) == First(SignalOrder, words)

Urgent(cat) == cat \in {"cancellation", "delivery"}

SignalUrgency(cat) == IF Urgent(cat) THEN "high" ELSE "medium"

\* MOCK_WEBHOOK_RULES
RuleColumns(cols, cat) == [cols EXCEPT !.cat = cat, !.status = "in_review",
                                       !.urg = SignalUrgency(cat)]

\* MockAIProvider: the first category of the list of which a keyword is in the text; words
\* of haste raise the urgency.  An external model may answer anything, and falls back on it.
MockUrgency(cat) == CASE cat \in {"defect", "misdelivery"} -> {"high"}
                      [] cat = "delivery" -> {"low", "high"}
                      [] cat = "other" -> {"low"}
                      [] OTHER -> {"medium", "high"}

MockAnswers(text) ==
  LET cat == IF text = {} THEN "other" ELSE First(Keywords, text)
  IN  {[cat |-> cat, urg |-> u] : u \in MockUrgency(cat)}

Answered(text) == MockAnswers(text) \cup
                  (IF provider = "openai" THEN Answers ELSE {})

\* apply_draft_review_policy
HighRisk(cols) == cols.cat \in {"defect", "misdelivery", "refund"} \/ cols.urg = "high"

\* A draft of the mock provider meets all the other criteria.
ReviewRequired(cols) ==
  IF HighRisk(cols) THEN {TRUE} ELSE IF provider = "mock" THEN {FALSE} ELSE BOOLEAN

-----------------------------------------------------------------------------
\* Sessions

\* Faulty variant: the UPDATE writes the whole copy.
MergedWhole(row, copy, cols) == cols

\* Of the columns, those that differ from the copy.
Merged(row, copy, cols) ==
  [k \in DOMAIN cols |-> IF cols[k] # copy[k] THEN cols[k] ELSE row[k]]

At(f, step) == [flow[f] EXCEPT !.step = step]
AtWith(f, step, cols) == [flow[f] EXCEPT !.step = step, !.copy = cols]
Ended == [Waiting EXCEPT !.step = "done"]
Becomes(f, next) == flow' = [flow EXCEPT ![f] = next]

\* Flow f goes on, and those for which the filing of claim c changes something are late.
Overtakes(f, c, cat, next) ==
  flow' = [g \in Flows |->
             IF g = f THEN next
             ELSE [flow[g] EXCEPT !.late =
                     \/ @
                     \/ flow[g].id = c
                     \/ flow[g].step = "store" /\ flow[g].new /\ Signal(flow[g].says) = cat]]

\* Flow f updates its claim, by way of its copy, and goes on.
Update(f, cols, next) ==
  LET c == flow[f].id
      row == claims[c].cols
      now == Merged(row, flow[f].copy, cols)
  IN  /\ claims' = [claims EXCEPT ![c].cols = now]
      /\ moved' = IF now.cat # row.cat THEN moved \cup {c} ELSE moved
      /\ IF now = row THEN Becomes(f, next) ELSE Overtakes(f, c, now.cat, next)

Silent == [c \in Ids |-> {}]

\* get_claim, or the query of a webhook: any claim of the order that is not deleted, with
\* what the flow has to say of it.
Load(f, kind, step, says) ==
  /\ kind \in Kinds /\ flow[f] = Waiting
  /\ \E c \in Current :
       Becomes(f, [Waiting EXCEPT !.kind = kind, !.step = step, !.id = c, !.says = says[c],
                                  !.copy = claims[c].cols])
  /\ UNCHANGED <<provider, claims, heard, history>>

-----------------------------------------------------------------------------
\* _upsert_claim_from_live_order

\* Faulty variant: only open claims are looked for.
FiledInReview(cat) == {c \in Current : /\ claims[c].cols.cat = cat
                                      /\ claims[c].cols.status = "in_review"}

FiledUnder(cat) == {c \in Current : claims[c].cols.cat = cat}

SyncLookup(f) ==
  /\ "sync" \in Kinds /\ flow[f] = Waiting
  /\ \E words \in Statuses :
       LET same == FiledUnder(Signal(words))
           found == [Waiting EXCEPT !.kind = "sync", !.step = "store", !.says = words]
       IN  \/ same = {} /\ Becomes(f, [found EXCEPT !.new = TRUE])
           \/ \E c \in same : Becomes(f, [found EXCEPT !.id = c, !.copy = claims[c].cols])
  /\ UNCHANGED <<provider, claims, heard, history>>

\* Faulty variant: the urgency is left out.
SyncedPartly(cols, words) == [cols EXCEPT !.cat = Signal(words), !.status = "in_review",
                                          !.reason = words \cup Product \cup {Signal(words)}]

Synced(cols, words) == [cols EXCEPT !.cat = Signal(words), !.status = "in_review",
                                    !.urg = SignalUrgency(Signal(words)),
                                    !.reason = words \cup Product \cup {Signal(words)}]

SyncInsert(f) ==
  LET words == flow[f].says
      c == Cardinality(Stored) + 1
  IN  /\ flow[f].kind = "sync" /\ flow[f].step = "store" /\ flow[f].new
      /\ claims' = [claims EXCEPT ![c] = [NoClaim EXCEPT !.cols = Synced(Blank, words),
                                                        !.filed = Signal(words)]]
      /\ raced' = IF flow[f].late THEN raced \cup {c} ELSE raced
      /\ Overtakes(f, c, Signal(words), [flow[f] EXCEPT !.step = "refresh", !.id = c])
      /\ UNCHANGED <<provider, heard, moved, undrafted>>

SyncUpdate(f) ==
  /\ flow[f].kind = "sync" /\ flow[f].step = "store" /\ ~flow[f].new
  /\ Update(f, Synced(flow[f].copy, flow[f].says), At(f, "refresh"))
  /\ UNCHANGED <<provider, heard, raced, undrafted>>

\* session.refresh, the message and the audit log of the sync, and should_auto_triage.  The
\* message names the category and the delivery.
SyncRefresh(f) ==
  LET c == flow[f].id
      row == claims[c].cols
      triage == flow[f].new \/ ~row.label
  IN  /\ flow[f].step = "refresh"
      /\ heard' = [heard EXCEPT ![c] = @ \cup {Signal(flow[f].says), "delivery"}]
      /\ Becomes(f, IF triage THEN [AtWith(f, "classify", row) EXCEPT !.late = FALSE] ELSE Ended)
      /\ UNCHANGED <<provider, claims, history>>

-----------------------------------------------------------------------------
\* apply_mock_webhook_to_claim, apply_live_webhook_to_claim

WebhookLoad(f) == \E cat \in Events : Load(f, "webhook", "store", [c \in Ids |-> {cat}])

\* The message of a mock event names its category, that of a live one does not.
WebhookStore(f) ==
  LET cat == CHOOSE k \in flow[f].says : TRUE
      cols == RuleColumns(flow[f].copy, cat)
  IN  /\ flow[f].kind = "webhook" /\ flow[f].step = "store"
      /\ Update(f, cols, AtWith(f, "classify", cols))
      /\ \E words \in {{}, {cat}} : heard' = [heard EXCEPT ![flow[f].id] = @ \cup words]
      /\ UNCHANGED <<provider, raced, undrafted>>

-----------------------------------------------------------------------------
\* Triage, of a sync or webhook or asked for by an operator

\* Faulty variants: the draft is made of the claim as it was before; there is no draft.
ClassifiedOld(f, cols) == AtWith(f, "draft", flow[f].copy)
ClassifiedOnly(f, cols) == AtWith(f, "log", cols)

Classified(f, cols) == AtWith(f, "draft", cols)

\* classify_claim: the answer is written, with its label, and an invocation log.
Classify(f) ==
  LET c == flow[f].id
      copy == flow[f].copy
      alone == flow[f].kind = "classify"
      messages == IF alone THEN flow[f].says ELSE heard[c]
  IN  /\ flow[f].step = "classify" /\ (alone \/ c \in Current)
      /\ \E a \in Answered(copy.reason \cup messages) :
           LET cols == [copy EXCEPT !.cat = a.cat, !.urg = a.urg, !.label = TRUE]
           IN  Update(f, cols, IF alone THEN Ended ELSE Classified(f, cols))
      /\ undrafted' = IF alone THEN undrafted \cup {c} ELSE undrafted
      /\ UNCHANGED <<provider, heard, raced>>

\* generate_draft_reply.  A triage looks its claim up again for each of the two; an operator's
\* request has found it already.
Draft(f) ==
  LET c == flow[f].id
  IN  /\ flow[f].step = "draft" /\ (flow[f].kind = "draft" \/ c \in Current)
      /\ \E flagged \in ReviewRequired(flow[f].copy) :
           claims' = [claims EXCEPT ![c].draft = IF flagged THEN "flagged" ELSE "plain"]
      /\ Becomes(f, IF flow[f].kind = "draft" THEN Ended ELSE At(f, "log"))
      /\ UNCHANGED <<provider, heard, history>>

\* The *_auto_triaged audit log
LogTriage(f) ==
  /\ flow[f].step = "log"
  /\ claims' = [claims EXCEPT ![flow[f].id].logged = TRUE]
  /\ Becomes(f, Ended)
  /\ UNCHANGED <<provider, heard, history>>

\* A deleted claim is not found any more (404), a database error, or the end of the process.
Abandon(f) ==
  /\ flow[f].step \notin {"ready", "done"}
  /\ Becomes(f, Ended)
  /\ undrafted' = IF flow[f].step = "draft" /\ flow[f].kind # "draft"
                  THEN undrafted \cup {flow[f].id} ELSE undrafted
  /\ UNCHANGED <<provider, claims, heard, raced, moved>>

-----------------------------------------------------------------------------
\* Operators

\* An operator's request has the messages that were there when it was made.
ClassifyLoad(f) == Load(f, "classify", "classify", heard)
DraftLoad(f) == Load(f, "draft", "draft", Silent)
DecideLoad(f) == Load(f, "decide", "decide", Silent)

\* update_claim_status
Decide(f) ==
  /\ flow[f].step = "decide"
  /\ \E d \in Decisions : Update(f, [flow[f].copy EXCEPT !.status = d], Ended)
  /\ UNCHANGED <<provider, heard, raced, undrafted>>

\* soft_delete_claim
Delete(f) ==
  /\ "delete" \in Kinds /\ flow[f] = Waiting
  /\ \E c \in Current : claims' = [claims EXCEPT ![c].deleted = TRUE]
  /\ Becomes(f, Ended)
  /\ UNCHANGED <<provider, heard, history>>

-----------------------------------------------------------------------------
Step(f) ==
  \/ SyncLookup(f) \/ SyncInsert(f) \/ SyncUpdate(f) \/ SyncRefresh(f)
  \/ WebhookLoad(f) \/ WebhookStore(f)
  \/ ClassifyLoad(f) \/ Classify(f)
  \/ DraftLoad(f) \/ Draft(f)
  \/ LogTriage(f) \/ Abandon(f)
  \/ DecideLoad(f) \/ Decide(f) \/ Delete(f)

Next == \E f \in Flows : Step(f)
Spec == Init /\ [][Next]_vars

-----------------------------------------------------------------------------
\* Types: what a sync, a rule, an answer or an operator writes is a complete set of columns.
TypeOK ==
  /\ provider \in {"mock", "openai"}
  /\ claims \in [Ids -> {NoClaim} \cup
                       [cols : Columns, draft : {"none", "plain", "flagged"}, logged : BOOLEAN,
                        deleted : BOOLEAN, filed : Signals]]
  /\ heard \in [Ids -> SUBSET Categories]
  /\ \A f \in Flows :
       /\ flow[f].kind \in AllKinds \cup {"none"}
       /\ flow[f].step \in {"ready", "store", "refresh", "classify", "draft", "log", "decide",
                            "done"}
       /\ flow[f].id \in {0} \cup Stored
       /\ flow[f].copy \in Columns \cup {Blank}
  /\ raced \cup moved \cup undrafted \subseteq Stored

\* A claim that is shown as auto-triaged has a label and a draft.  A claim with a label and
\* without a draft, which no later sync will draft, is being triaged, or an operator had it
\* classified, or its triage was cut short between the two commits.
TriageAccounted ==
  \A c \in Stored :
    /\ claims[c].logged => claims[c].cols.label /\ claims[c].draft # "none"
    /\ claims[c].cols.label /\ claims[c].draft = "none" =>
         c \in undrafted \/ \E f \in Flows : flow[f].id = c /\ flow[f].step = "draft"

\* The order has one claim for each category that its status has signalled: a second one is
\* stored only if the first was deleted, if a classification or a webhook has moved it to
\* another category, or if both syncs looked before either had stored.
OneClaimPerSignal ==
  \A c, d \in Current :
    c < d /\ claims[c].filed = claims[d].filed => c \in moved \/ d \in raced

\* The draft that a job or request leaves is marked for review whenever the claim is of high
\* risk, unless somebody else has written the claim since it was loaded.
RiskyDraftFlagged ==
  [][\A f \in Flows, c \in Stored :
       /\ flow[f].step = "draft" /\ flow[f].id = c /\ ~flow[f].late
       /\ flow'[f].step \in {"log", "done"} /\ claims'[c].draft = "plain"
       /\ claims'[c] # claims[c]
       => ~HighRisk(claims[c].cols)]_vars

\* An event does not undo a decision it has not seen: whoever puts a decided claim back in
\* review had loaded a decided claim, so an event whose look-up found it still in review
\* leaves the decision alone, however late it is.
DecisionUndoneKnowingly ==
  [][\A c \in Stored :
       claims[c].cols.status \in Decisions /\ claims'[c].cols.status = "in_review" =>
         \E f \in Flows : /\ flow[f].id = c /\ flow[f].step = "store"
                          /\ flow[f].copy.status \in Decisions]_vars
=============================================================================
