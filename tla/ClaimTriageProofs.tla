------------------------- MODULE ClaimTriageProofs -------------------------
(***************************************************************************)
(* The claims of one order for any number of jobs and requests, and any    *)
(* texts, answers and decisions.  Three things carry the proofs: ids are   *)
(* given out without gaps, so that a new claim is the youngest one (Num-   *)
(* bered, Counted); a label, once written, is never taken back, whoever    *)
(* writes an older copy of the claim, and the copy of a flow that nobody   *)
(* has overtaken is the claim as it is (Held); and a sync that found no    *)
(* claim of its category, and has not been overtaken, would still find     *)
(* none (Unfiled).                                                         *)
(***************************************************************************)
EXTENDS ClaimTriage, FiniteSetTheorems, TLAPS

Steps == {"ready", "store", "refresh", "classify", "draft", "log", "decide", "done"}
FlowType == [kind : AllKinds \cup {"none"}, step : Steps, id : Nat, copy : Columns \cup {Blank},
             says : SUBSET Categories, new : BOOLEAN, late : BOOLEAN]
ClaimType == [cols : Columns, draft : {"none", "plain", "flagged"}, logged : BOOLEAN,
              deleted : BOOLEAN, filed : Signals]

Typed ==
  /\ provider \in {"mock", "openai"}
  /\ claims \in [Ids -> {NoClaim} \cup ClaimType]
  /\ heard \in [Ids -> SUBSET Categories]
  /\ flow \in [Flows -> FlowType]
  /\ raced \subseteq Stored /\ moved \subseteq Stored /\ undrafted \subseteq Stored

\* A flow that has loaded a claim.
Loaded(f) ==
  \/ flow[f].step \in {"refresh", "classify", "draft", "log", "decide"}
  \/ flow[f].step = "store" /\ ~flow[f].new

\* What flow f has in hand at its step.
HeldBy(f) ==
  /\ flow[f].id \in {0} \cup Stored
  /\ flow[f].step = "ready" => flow[f].id = 0
  /\ Loaded(f) => flow[f].id \in Stored
  /\ flow[f].step \in {"classify", "draft", "decide"} \/ (flow[f].step = "store" /\ ~flow[f].new)
       => /\ flow[f].copy \in Columns /\ (flow[f].copy.label => claims[flow[f].id].cols.label)
          /\ ~flow[f].late => flow[f].copy = claims[flow[f].id].cols
  /\ flow[f].step = "store" /\ flow[f].new => flow[f].kind = "sync"
  /\ flow[f].step = "refresh" \/ (flow[f].step = "store" /\ flow[f].kind = "sync")
       => flow[f].says \in Statuses
  /\ flow[f].step = "store" /\ flow[f].kind # "sync" => \E cat \in Events : flow[f].says = {cat}
  /\ (flow[f].step = "draft" /\ flow[f].kind # "draft") \/ flow[f].step = "log"
       => claims[flow[f].id].cols.label
  /\ flow[f].step = "log" => claims[flow[f].id].draft # "none"
  /\ flow[f].step = "classify" => flow[f].kind # "draft"
  /\ flow[f].step = "refresh" => flow[f].kind = "sync"

Held == \A f \in Flows : HeldBy(f)

Numbered == Stored = 1..Cardinality(Stored)

Begun == {f \in Flows : flow[f].step \notin {"ready", "store"}}
Counted == Cardinality(Stored) <= Cardinality(Begun)

-----------------------------------------------------------------------------
\* The data

\* _extract_claim_signal takes a category that the text names.
LEMMA SignalOf ==
  ASSUME NEW words \in SUBSET Signals, words # {}
  PROVE  Signal(words) \in words
<1> DEFINE Hit(i) == SignalOrder[i] \in words /\ \A k \in 1..(i - 1) : SignalOrder[k] \notin words
           n == CHOOSE i \in DOMAIN SignalOrder : Hit(i)
<1>1. DOMAIN SignalOrder = 1..5
  BY DEF SignalOrder
<1>2. PICK j \in 1..5 : SignalOrder[j] \in words
  BY DEF Signals
<1>3. Hit(1) \/ Hit(2) \/ Hit(3) \/ Hit(4) \/ Hit(5)
  BY <1>2
<1> HIDE DEF Hit
<1>4. n \in 1..5 /\ Hit(n)
  BY <1>1, <1>3
<1>5. Signal(words) = SignalOrder[n]
  BY DEF Signal, First, Hit
<1> QED
  BY <1>4, <1>5 DEF Hit

\* The mock provider finds a category in every text that has one.
LEMMA KeywordOf ==
  ASSUME NEW text \in SUBSET Categories, text # {}
  PROVE  First(Keywords, text) \in Categories
<1> DEFINE Hit(i) == Keywords[i] \in text /\ \A k \in 1..(i - 1) : Keywords[k] \notin text
           n == CHOOSE i \in DOMAIN Keywords : Hit(i)
<1>1. DOMAIN Keywords = 1..8
  BY DEF Keywords
<1>2. PICK j \in 1..8 : Keywords[j] \in text
  BY DEF Categories
<1>3. Hit(1) \/ Hit(2) \/ Hit(3) \/ Hit(4) \/ Hit(5) \/ Hit(6) \/ Hit(7) \/ Hit(8)
  BY <1>2
<1> HIDE DEF Hit
<1>4. n \in 1..8 /\ Hit(n)
  BY <1>1, <1>3
<1>5. First(Keywords, text) = Keywords[n]
  BY DEF First, Hit
<1> QED
  BY <1>4, <1>5 DEF Hit

LEMMA Words ==
  /\ Signals \subseteq Categories /\ {"other", "delivery"} \subseteq Categories
  /\ \A words \in Statuses : Signal(words) \in Signals /\ words \subseteq Categories
  /\ Events \subseteq Categories
<1>1. Signals \subseteq Categories /\ {"other", "delivery"} \subseteq Categories
  <2>1. Signals = {SignalOrder[1], SignalOrder[2], SignalOrder[3], SignalOrder[4], SignalOrder[5]}
    BY DEF Signals
  <2>2. /\ Keywords[3] \in Categories /\ Keywords[4] \in Categories /\ Keywords[5] \in Categories
        /\ Keywords[6] \in Categories /\ Keywords[7] \in Categories /\ Keywords[8] \in Categories
    BY DEF Categories
  <2> QED
    BY <2>1, <2>2 DEF SignalOrder, Keywords
<1>2. Events \subseteq Signals
  <2>1. /\ SignalOrder[1] \in Signals /\ SignalOrder[2] \in Signals
        /\ SignalOrder[3] \in Signals /\ SignalOrder[5] \in Signals
    BY DEF Signals
  <2> QED
    BY <2>1, WordAssumption DEF SignalOrder
<1>3. ASSUME NEW words \in Statuses
      PROVE  Signal(words) \in Signals /\ words \subseteq Signals
  <2>1. words \in SUBSET Signals /\ words # {}
    <3>1. Statuses \subseteq (SUBSET Signals) \ {{}}
      BY WordAssumption
    <3>2. words \in (SUBSET Signals) \ {{}}
      BY <3>1
    <3> QED
      BY <3>2
  <2> QED
    BY <2>1, SignalOf
<1> QED
  BY <1>1, <1>2, <1>3

\* What is written is a complete set of columns, whose label is the old one or TRUE.
LEMMA AnswerType ==
  ASSUME NEW text \in SUBSET Categories, NEW a \in Answered(text)
  PROVE  a.cat \in Categories /\ a.urg \in Urgencies
<1>1. CASE a \in MockAnswers(text)
  <2> DEFINE cat == IF text = {} THEN "other" ELSE First(Keywords, text)
  <2>1. cat \in Categories
    BY KeywordOf, Words
  <2>2. MockUrgency(cat) \subseteq Urgencies
    BY DEF MockUrgency, Urgencies
  <2> QED
    BY <1>1, <2>1, <2>2 DEF MockAnswers
<1>2. CASE a \in Answers
  BY <1>2, WordAssumption
<1> QED
  BY <1>1, <1>2 DEF Answered

LEMMA WrittenColumns ==
  ASSUME NEW cols \in Columns
  PROVE  /\ \A words \in Statuses : /\ Synced(cols, words) \in Columns
                                    /\ Synced(cols, words).label = cols.label
                                    /\ Synced(cols, words).cat = Signal(words)
                                    /\ Synced(Blank, words) \in Columns
                                    /\ Synced(Blank, words).cat = Signal(words)
         /\ \A cat \in Events : /\ RuleColumns(cols, cat) \in Columns
                                /\ RuleColumns(cols, cat).label = cols.label
         /\ \A d \in Decisions : /\ [cols EXCEPT !.status = d] \in Columns
                                 /\ [cols EXCEPT !.status = d].label = cols.label
<1>1. \A cat : SignalUrgency(cat) \in Urgencies
  BY DEF SignalUrgency, Urgencies
<1>2. ASSUME NEW words \in Statuses
      PROVE  /\ Signal(words) \in Categories
             /\ words \cup Product \cup {Signal(words)} \in SUBSET Categories
  BY Words, WordAssumption
<1>3. ASSUME NEW words \in Statuses
      PROVE  /\ Synced(cols, words) \in Columns /\ Synced(cols, words).label = cols.label
             /\ Synced(cols, words).cat = Signal(words)
  BY <1>1, <1>2 DEF Synced, Columns
<1>4. ASSUME NEW words \in Statuses
      PROVE  Synced(Blank, words) \in Columns /\ Synced(Blank, words).cat = Signal(words)
  BY <1>1, <1>2 DEF Synced, Columns, Blank
<1>5. ASSUME NEW cat \in Events
      PROVE  RuleColumns(cols, cat) \in Columns /\ RuleColumns(cols, cat).label = cols.label
  BY <1>1, Words DEF RuleColumns, Columns
<1> QED
  BY <1>3, <1>4, <1>5 DEF Columns

-----------------------------------------------------------------------------
\* Steps

\* The others go on as they were, late at most; those that are not late have seen no claim
\* come into the category they look for.
OthersKept(f) ==
  \A g \in Flows \ {f} :
    /\ flow'[g].kind = flow[g].kind /\ flow'[g].step = flow[g].step /\ flow'[g].id = flow[g].id
    /\ flow'[g].copy = flow[g].copy /\ flow'[g].says = flow[g].says /\ flow'[g].new = flow[g].new
    /\ ~flow'[g].late => ~flow[g].late

\* Flow g, unless it is late, is not misled by what claim c has become.
Informed(g, c) ==
  ~flow'[g].late =>
    \/ claims'[c].cols = claims[c].cols
    \/ /\ flow[g].id # c
       /\ flow[g].step = "store" /\ flow[g].new => claims'[c].cols.cat # Signal(flow[g].says)

LEMMA BecomesKeeps ==
  ASSUME Typed, NEW f \in Flows, NEW next, Becomes(f, next)
  PROVE  flow'[f] = next /\ OthersKept(f) /\ (next \in FlowType => flow' \in [Flows -> FlowType])
         /\ \A g \in Flows \ {f} : flow'[g] = flow[g]
<1>1. flow' = [flow EXCEPT ![f] = next] /\ flow \in [Flows -> FlowType]
  BY DEF Becomes, Typed
<1>2. flow'[f] = next /\ \A g \in Flows \ {f} : flow'[g] = flow[g]
  BY <1>1
<1> QED
  BY <1>1, <1>2 DEF OthersKept

LEMMA OvertakesKeeps ==
  ASSUME Typed, NEW f \in Flows, NEW c, NEW cat, NEW next \in FlowType, Overtakes(f, c, cat, next)
  PROVE  /\ flow'[f] = next /\ OthersKept(f) /\ flow' \in [Flows -> FlowType]
         /\ \A g \in Flows \ {f} : ~flow'[g].late =>
              flow[g].id # c /\ (flow[g].step = "store" /\ flow[g].new => cat # Signal(flow[g].says))
<1> DEFINE l(g) == \/ flow[g].late \/ flow[g].id = c
                   \/ flow[g].step = "store" /\ flow[g].new /\ Signal(flow[g].says) = cat
<1>1. flow' = [g \in Flows |-> IF g = f THEN next ELSE [flow[g] EXCEPT !.late = l(g)]]
  BY DEF Overtakes
<1>2. ASSUME NEW g \in Flows \ {f}
      PROVE  /\ flow'[g] = [flow[g] EXCEPT !.late = l(g)] /\ flow[g] \in FlowType
             /\ l(g) \in BOOLEAN
  BY <1>1 DEF Typed
<1> HIDE DEF l
<1>3. ASSUME NEW g \in Flows \ {f}
      PROVE  /\ flow'[g].kind = flow[g].kind /\ flow'[g].step = flow[g].step
             /\ flow'[g].id = flow[g].id /\ flow'[g].copy = flow[g].copy
             /\ flow'[g].says = flow[g].says /\ flow'[g].new = flow[g].new
             /\ flow'[g].late = l(g) /\ flow'[g] \in FlowType
  <2>1. /\ flow'[g] = [flow[g] EXCEPT !.late = l(g)] /\ flow[g] \in FlowType
        /\ l(g) \in BOOLEAN
    BY <1>2
  <2> HIDE <1>2
  <2>2. flow'[g] \in FlowType
    BY <2>1 DEF FlowType
  <2>3. /\ flow'[g].kind = flow[g].kind /\ flow'[g].step = flow[g].step
        /\ flow'[g].id = flow[g].id /\ flow'[g].copy = flow[g].copy
        /\ flow'[g].says = flow[g].says /\ flow'[g].new = flow[g].new
        /\ flow'[g].late = l(g)
    BY <2>1 DEF FlowType
  <2> QED
    BY <2>2, <2>3
<1>4. flow'[f] = next
  BY <1>1
<1>5. flow' \in [Flows -> FlowType]
  BY <1>1, <1>3, <1>4
<1> QED
  BY <1>3, <1>4, <1>5 DEF OthersKept, l

LEMMA MergedColumns ==
  ASSUME NEW old \in Columns, NEW copy \in Columns, NEW cols \in Columns
  PROVE  /\ Merged(old, copy, cols) \in Columns
         /\ (copy.label => old.label) /\ (copy.label => cols.label) =>
              /\ old.label => Merged(old, copy, cols).label
              /\ cols.label => Merged(old, copy, cols).label
         /\ Merged(old, copy, cols).label => old.label \/ (cols.label /\ ~copy.label)
         /\ Merged(old, copy, cols).status \in {old.status, cols.status}
         /\ cols.status = copy.status => Merged(old, copy, cols).status = old.status
         /\ copy = old => Merged(old, copy, cols) = cols
<1>1. DOMAIN cols = {"cat", "status", "urg", "label", "reason"}
  BY DEF Columns
<1>2. Merged(old, copy, cols) =
        [k \in {"cat", "status", "urg", "label", "reason"} |->
           IF cols[k] # copy[k] THEN cols[k] ELSE old[k]]
  BY <1>1 DEF Merged
<1> DEFINE m == Merged(old, copy, cols)
<1>3. /\ m.cat = IF cols.cat # copy.cat THEN cols.cat ELSE old.cat
      /\ m.status = IF cols.status # copy.status THEN cols.status ELSE old.status
      /\ m.urg = IF cols.urg # copy.urg THEN cols.urg ELSE old.urg
      /\ m.label = IF cols.label # copy.label THEN cols.label ELSE old.label
      /\ m.reason = IF cols.reason # copy.reason THEN cols.reason ELSE old.reason
  BY <1>2
<1>4. m = [cat |-> m.cat, status |-> m.status, urg |-> m.urg, label |-> m.label,
           reason |-> m.reason]
  BY <1>2
<1>5. m \in Columns
  <2> HIDE DEF m
  <2> QED
    BY <1>3, <1>4 DEF Columns
<1>6. copy = old => m = cols
  <2> SUFFICES ASSUME copy = old PROVE m = cols
    OBVIOUS
  <2>1. /\ m.cat = cols.cat /\ m.status = cols.status /\ m.urg = cols.urg
        /\ m.label = cols.label /\ m.reason = cols.reason
    BY <1>3
  <2> HIDE DEF m
  <2> QED
    BY <1>5, <2>1 DEF Columns
<1> QED
  BY <1>3, <1>5, <1>6 DEF Columns

\* What an UPDATE by flow f does, whatever it assigns, as long as it keeps a label.
LEMMA UpdateKeeps ==
  ASSUME Typed, Held, NEW f \in Flows, flow[f].id \in Stored,
         flow[f].copy \in Columns, flow[f].copy.label => claims[flow[f].id].cols.label,
         NEW cols \in Columns, flow[f].copy.label => cols.label,
         NEW next \in FlowType, Update(f, cols, next)
  PROVE  /\ claims' \in [Ids -> {NoClaim} \cup ClaimType] /\ Stored' = Stored
         /\ \A c \in Ids \ {flow[f].id} : claims'[c] = claims[c]
         /\ claims'[flow[f].id] = [claims[flow[f].id] EXCEPT
                                     !.cols = Merged(claims[flow[f].id].cols, flow[f].copy, cols)]
         /\ claims[flow[f].id].cols.label \/ cols.label => claims'[flow[f].id].cols.label
         /\ claims'[flow[f].id].cols.label =>
              claims[flow[f].id].cols.label \/ (cols.label /\ ~flow[f].copy.label)
         /\ moved' \in {moved, moved \cup {flow[f].id}}
         /\ claims'[flow[f].id].cols.cat # claims[flow[f].id].cols.cat => flow[f].id \in moved'
         /\ flow' \in [Flows -> FlowType] /\ flow'[f] = next /\ OthersKept(f)
         /\ \A g \in Flows \ {f} : Informed(g, flow[f].id)
<1> DEFINE c == flow[f].id
           now == Merged(claims[c].cols, flow[f].copy, cols)
<1>1. claims \in [Ids -> {NoClaim} \cup ClaimType] /\ c \in Ids /\ claims[c] \in ClaimType
  BY DEF Typed, Stored
<1>2. claims[c].cols \in Columns
  BY <1>1 DEF ClaimType
<1>3. now \in Columns
  BY <1>2, MergedColumns
<1>4. claims' = [claims EXCEPT ![c].cols = now]
  BY DEF Update
<1>5. claims'[c] = [claims[c] EXCEPT !.cols = now]
  BY <1>1, <1>4
<1>6. claims'[c].cols = now /\ claims'[c] \in ClaimType /\ claims'[c] # NoClaim
  <2>1. claims'[c].cols = now /\ claims'[c] \in ClaimType
    BY <1>1, <1>3, <1>5 DEF ClaimType
  <2>2. now.cat # "none"
    BY <1>3 DEF Columns, Categories, Keywords
  <2> QED
    BY <2>1, <2>2 DEF NoClaim, Blank
<1>7. \A d \in Ids \ {c} : claims'[d] = claims[d]
  BY <1>1, <1>4
<1>8. claims' \in [Ids -> {NoClaim} \cup ClaimType]
  <2>1. \A d \in Ids : claims'[d] \in {NoClaim} \cup ClaimType
    BY <1>1, <1>6, <1>7
  <2> QED
    BY <1>1, <1>4, <2>1
<1>9. Stored' = Stored
  BY <1>1, <1>6, <1>7 DEF Stored, NoClaim, Ids
<1>10. /\ claims[c].cols.label \/ cols.label => now.label
       /\ now.label => claims[c].cols.label \/ (cols.label /\ ~flow[f].copy.label)
  BY <1>2, MergedColumns
<1>11. /\ moved' \in {moved, moved \cup {c}}
       /\ now.cat # claims[c].cols.cat => c \in moved'
  BY DEF Update
<1>12. /\ flow' \in [Flows -> FlowType] /\ flow'[f] = next /\ OthersKept(f)
       /\ \A g \in Flows \ {f} : Informed(g, c)
  <2>1. CASE now = claims[c].cols
    BY <1>6, <2>1, BecomesKeeps DEF Update, Informed
  <2>2. CASE now # claims[c].cols
    <3>1. Overtakes(f, c, now.cat, next)
      BY <2>2 DEF Update
    <3> HIDE DEF c, now
    <3> QED
      BY <1>6, <3>1, OvertakesKeeps DEF Informed
  <2> QED
    BY <2>1, <2>2
<1> QED
  BY <1>5, <1>6, <1>7, <1>8, <1>9, <1>10, <1>11, <1>12

\* What a step leaves as it was, or changes in one direction only.
Kept(f) ==
  /\ Stored \subseteq Stored'
  /\ \A c \in Stored :
       /\ claims[c].cols.label => claims'[c].cols.label
       /\ claims[c].draft # "none" => claims'[c].draft # "none"
       /\ claims[c].deleted => claims'[c].deleted
       /\ claims'[c].filed = claims[c].filed
       /\ claims'[c].cols.cat # claims[c].cols.cat => c \in moved'
       /\ \A g \in Flows \ {f} : Informed(g, c)
  /\ moved \subseteq moved' /\ raced \subseteq raced' /\ undrafted \subseteq undrafted'
  /\ OthersKept(f)

LEMMA WaitingType == Waiting \in FlowType /\ Ended \in FlowType
BY DEF Waiting, Ended, FlowType, Steps, AllKinds

\* A step that leaves the claims alone.
LEMMA IdleKeeps ==
  ASSUME Typed, NEW f \in Flows, NEW next \in FlowType, Becomes(f, next), claims' = claims,
         UNCHANGED <<provider, raced, moved>>, heard' \in [Ids -> SUBSET Categories],
         undrafted \subseteq undrafted', undrafted' \subseteq Stored
  PROVE  Typed' /\ Kept(f) /\ Stored' = Stored /\ flow'[f] = next
<1>1. flow'[f] = next /\ OthersKept(f) /\ flow' \in [Flows -> FlowType]
  BY BecomesKeeps
<1>2. Stored' = Stored
  BY DEF Stored
<1> QED
  BY <1>1, <1>2 DEF Typed, Kept, Informed

\* A step that marks claim c: its draft, its audit log, its deletion.
LEMMA MarkKeeps ==
  ASSUME Typed, NEW f \in Flows, NEW c \in Stored, NEW next \in FlowType, Becomes(f, next),
         \/ \E d \in {"plain", "flagged"} : claims' = [claims EXCEPT ![c].draft = d]
         \/ claims' = [claims EXCEPT ![c].logged = TRUE]
         \/ claims' = [claims EXCEPT ![c].deleted = TRUE],
         UNCHANGED <<provider, heard, raced, moved, undrafted>>
  PROVE  /\ Typed' /\ Kept(f) /\ Stored' = Stored /\ flow'[f] = next
         /\ \A d \in Stored : claims'[d].cols = claims[d].cols
<1>1. flow'[f] = next /\ OthersKept(f) /\ flow' \in [Flows -> FlowType]
  BY BecomesKeeps
<1>2. claims \in [Ids -> {NoClaim} \cup ClaimType] /\ c \in Ids /\ claims[c] \in ClaimType
  BY DEF Typed, Stored
<1>3. \E d \in {"plain", "flagged"} : \/ claims'[c] = [claims[c] EXCEPT !.draft = d]
                                      \/ claims'[c] = [claims[c] EXCEPT !.logged = TRUE]
                                      \/ claims'[c] = [claims[c] EXCEPT !.deleted = TRUE]
  BY <1>2
<1>4. /\ claims'[c] \in ClaimType
      /\ claims'[c].cols = claims[c].cols /\ claims'[c].filed = claims[c].filed
      /\ claims[c].draft # "none" => claims'[c].draft # "none"
      /\ claims[c].deleted => claims'[c].deleted
  BY <1>2, <1>3 DEF ClaimType
<1>5. claims'[c] # NoClaim
  BY <1>4 DEF ClaimType, NoClaim, Signals, SignalOrder
<1>6. \A d \in Ids \ {c} : claims'[d] = claims[d]
  BY <1>2
<1>7. claims' \in [Ids -> {NoClaim} \cup ClaimType]
  <2>1. \A d \in Ids : claims'[d] \in {NoClaim} \cup ClaimType
    BY <1>2, <1>4, <1>6
  <2>2. claims' = [d \in Ids |-> claims'[d]]
    BY <1>2
  <2> QED
    BY <2>1, <2>2
<1>8. Stored' = Stored
  BY <1>2, <1>5, <1>6 DEF Stored, Ids, NoClaim
<1>9. Stored \subseteq Ids
  BY DEF Stored
<1> QED
  BY <1>1, <1>4, <1>6, <1>7, <1>8, <1>9 DEF Typed, Kept, Informed

\* The insert of a live sync finds an id.
LEMMA InsertRoom ==
  ASSUME Typed, Numbered, Counted, NEW f \in Flows, flow[f].step = "store"
  PROVE  /\ Cardinality(Stored) \in Nat /\ Cardinality(Stored) + 1 \in Ids \ Stored
         /\ IsFiniteSet(Stored) /\ IsFiniteSet(Ids)
<1>1. IsFiniteSet(Flows) /\ Cardinality(Flows) \in Nat
  BY FlowAssumption, FS_CardinalityType
<1>2. IsFiniteSet(Begun) /\ f \notin Begun /\ Begun \cup {f} \subseteq Flows
  BY <1>1, FS_Subset DEF Begun
<1>3. /\ Cardinality(Begun \cup {f}) = Cardinality(Begun) + 1 /\ Cardinality(Begun) \in Nat
      /\ Cardinality(Begun \cup {f}) <= Cardinality(Flows)
  BY <1>1, <1>2, FS_AddElement, FS_Subset, FS_CardinalityType
<1>4. IsFiniteSet(Ids)
  BY <1>1, FS_Interval DEF Ids
<1>5. IsFiniteSet(Stored) /\ Cardinality(Stored) \in Nat
  BY <1>4, FS_Subset, FS_CardinalityType DEF Stored
<1> QED
  BY <1>1, <1>3, <1>4, <1>5 DEF Counted, Numbered, Ids

LEMMA InsertKeeps ==
  ASSUME Typed, Held, Numbered, Counted, NEW f \in Flows, SyncInsert(f),
         NEW c, c = Cardinality(Stored) + 1
  PROVE  /\ Typed' /\ Kept(f) /\ Stored' = Stored \cup {c} /\ c \notin Stored
         /\ \A d \in Stored : claims'[d] = claims[d]
         /\ claims'[c].cols.cat = Signal(flow[f].says) /\ claims'[c].filed = Signal(flow[f].says)
         /\ claims'[c].draft = "none" /\ ~claims'[c].logged /\ ~claims'[c].cols.label
         /\ flow'[f] = [flow[f] EXCEPT !.step = "refresh", !.id = c] /\ flow[f].says \in Statuses
         /\ flow[f].late => c \in raced'
         /\ \A g \in Flows \ {f} : flow[g].step = "store" /\ flow[g].new /\ ~flow'[g].late =>
              Signal(flow[f].says) # Signal(flow[g].says)
<1> DEFINE words == flow[f].says
           next == [flow[f] EXCEPT !.step = "refresh", !.id = c]
           new == [NoClaim EXCEPT !.cols = Synced(Blank, words), !.filed = Signal(words)]
<1>1. c \in Ids \ Stored /\ c \in Nat
  BY InsertRoom DEF SyncInsert, Ids
<1>2. words \in Statuses /\ flow[f] \in FlowType
  BY DEF Held, HeldBy, SyncInsert, Typed
<1>3. next \in FlowType
  BY <1>1, <1>2 DEF FlowType, Steps
<1>4. /\ Synced(Blank, words) \in Columns /\ Synced(Blank, words).cat = Signal(words)
      /\ Signal(words) \in Signals /\ ~Synced(Blank, words).label
  <2>1. \E cols : cols \in Columns
    <3>1. [cat |-> "other", status |-> "in_review", urg |-> "low", label |-> FALSE, reason |-> {}]
            \in Columns
      BY Words DEF Columns, Urgencies
    <3> QED
      BY <3>1
  <2>2. Signal(words) \in Signals
    BY <1>2, Words
  <2>3. ~Synced(Blank, words).label
    BY DEF Synced, Blank
  <2> QED
    BY <1>2, <2>1, <2>2, <2>3, WrittenColumns
<1>5. /\ new \in ClaimType /\ new.cols = Synced(Blank, words) /\ new.filed = Signal(words)
      /\ new.draft = "none" /\ ~new.logged
  BY <1>4 DEF NoClaim, ClaimType
<1>6. claims' = [claims EXCEPT ![c] = new] /\ Overtakes(f, c, Signal(words), next)
  BY DEF SyncInsert
<1>7. new # NoClaim
  BY <1>5 DEF ClaimType, NoClaim, Signals, SignalOrder
<1> HIDE DEF new, next
<1>8. claims' \in [Ids -> {NoClaim} \cup ClaimType] /\ claims'[c] = new
      /\ \A d \in Ids \ {c} : claims'[d] = claims[d]
  BY <1>1, <1>5, <1>6 DEF Typed
<1>9. Stored' = Stored \cup {c} /\ Stored \subseteq Ids
  BY <1>1, <1>7, <1>8 DEF Stored, Ids, NoClaim
<1>10. /\ flow'[f] = next /\ OthersKept(f) /\ flow' \in [Flows -> FlowType]
       /\ \A g \in Flows \ {f} : flow[g].step = "store" /\ flow[g].new /\ ~flow'[g].late =>
            Signal(words) # Signal(flow[g].says)
  BY <1>3, <1>6, OvertakesKeeps
<1>11. /\ provider' = provider /\ heard' = heard /\ moved' = moved /\ undrafted' = undrafted
       /\ raced' = IF flow[f].late THEN raced \cup {c} ELSE raced
  BY DEF SyncInsert
<1>12. \A d \in Stored : claims'[d] = claims[d]
  BY <1>1, <1>8, <1>9
<1>13. Typed'
  BY <1>8, <1>9, <1>10, <1>11 DEF Typed
<1>14. Kept(f)
  BY <1>9, <1>10, <1>11, <1>12 DEF Kept, Informed
<1> QED
  BY <1>1, <1>2, <1>4, <1>5, <1>8, <1>9, <1>10, <1>11, <1>12, <1>13, <1>14 DEF next

\* The audit log, the label and the draft that a step leaves on a claim come from the flow
\* that takes it.
Noted(f) ==
  \A c \in Stored :
    /\ claims'[c].logged => claims[c].logged \/ (flow[f].step = "log" /\ flow[f].id = c)
    /\ claims'[c].cols.label =>
         \/ claims[c].cols.label \/ c \in undrafted'
         \/ flow'[f].step = "draft" /\ flow'[f].kind # "draft" /\ flow'[f].id = c
    /\ flow[f].step = "draft" /\ flow[f].kind # "draft" /\ flow[f].id = c =>
         claims'[c].draft # "none" \/ c \in undrafted'

\* A step of flow f that inserts no claim.
Goes(f) ==
  /\ Typed' /\ Kept(f) /\ Stored' = Stored /\ Noted(f) /\ HeldBy(f)'
  /\ flow'[f].step \in {"ready", "store"} => flow[f].step \in {"ready", "store"}
  /\ flow'[f].step = "store" /\ flow'[f].new =>
       claims' = claims /\ FiledUnder(Signal(flow'[f].says)) = {}

LEMMA LoadGoes ==
  ASSUME Typed, Held, NEW f \in Flows, NEW kind \in AllKinds \ {"sync"},
         NEW step \in {"store", "classify", "draft", "decide"}, NEW says \in [Ids -> SUBSET Categories],
         step = "draft" <=> kind = "draft",
         step = "store" => \E cat \in Events : \A c \in Ids : says[c] = {cat},
         Load(f, kind, step, says)
  PROVE  Goes(f)
<1>1. PICK c \in Current :
        Becomes(f, [Waiting EXCEPT !.kind = kind, !.step = step, !.id = c, !.says = says[c],
                                   !.copy = claims[c].cols])
  BY DEF Load
<1> DEFINE next == [Waiting EXCEPT !.kind = kind, !.step = step, !.id = c, !.says = says[c],
                                   !.copy = claims[c].cols]
<1>2. c \in Stored /\ c \in Ids /\ claims[c] \in ClaimType /\ Ids \subseteq Nat
  BY DEF Current, Stored, Typed, Ids
<1>3. claims[c].cols \in Columns
  BY <1>2 DEF ClaimType
<1>4. /\ next.kind = kind /\ next.step = step /\ next.id = c /\ next.says = says[c]
      /\ next.copy = claims[c].cols /\ next.new = FALSE
  BY DEF Waiting
<1>5. next \in FlowType
  BY <1>2, <1>3 DEF Waiting, FlowType, Steps
<1>6. /\ claims' = claims /\ UNCHANGED <<provider, raced, moved>> /\ flow[f].step = "ready"
      /\ heard' = heard /\ undrafted' = undrafted
  BY DEF Load, history, Waiting
<1> HIDE DEF next
<1>7. Typed' /\ Kept(f) /\ Stored' = Stored /\ flow'[f] = next
  BY <1>1, <1>5, <1>6, IdleKeeps DEF Typed, next
<1>8. Noted(f)
  BY <1>6 DEF Noted
<1>9. HeldBy(f)'
  BY <1>2, <1>3, <1>4, <1>6, <1>7 DEF HeldBy, Loaded
<1> QED
  BY <1>4, <1>6, <1>7, <1>8, <1>9 DEF Goes

LEMMA LookupGoes ==
  ASSUME Typed, Held, NEW f \in Flows, SyncLookup(f)
  PROVE  Goes(f)
<1>1. PICK words \in Statuses :
        LET same == FiledUnder(Signal(words))
            found == [Waiting EXCEPT !.kind = "sync", !.step = "store", !.says = words]
        IN  \/ same = {} /\ Becomes(f, [found EXCEPT !.new = TRUE])
            \/ \E c \in same : Becomes(f, [found EXCEPT !.id = c, !.copy = claims[c].cols])
  BY DEF SyncLookup
<1>2. /\ claims' = claims /\ UNCHANGED <<provider, raced, moved>> /\ flow[f].step = "ready"
      /\ heard' = heard /\ undrafted' = undrafted
  <2>1. flow[f] = Waiting /\ UNCHANGED <<provider, claims, heard, history>>
    BY DEF SyncLookup
  <2> QED
    BY <2>1 DEF history, Waiting
<1>3. words \in SUBSET Categories
  BY Words
<1>4. Noted(f)
  BY <1>2 DEF Noted
<1>5. CASE FiledUnder(Signal(words)) = {} /\
           Becomes(f, [[Waiting EXCEPT !.kind = "sync", !.step = "store", !.says = words]
                         EXCEPT !.new = TRUE])
  <2> DEFINE next == [[Waiting EXCEPT !.kind = "sync", !.step = "store", !.says = words]
                        EXCEPT !.new = TRUE]
  <2>1. /\ next.kind = "sync" /\ next.step = "store" /\ next.says = words /\ next.new
        /\ next.id = 0
    BY DEF Waiting
  <2>2. next \in FlowType
    BY <1>3 DEF Waiting, FlowType, Steps, AllKinds
  <2> HIDE DEF next
  <2>3. Typed' /\ Kept(f) /\ Stored' = Stored /\ flow'[f] = next
    BY <1>2, <1>5, <2>2, IdleKeeps DEF Typed, next
  <2>4. HeldBy(f)'
    BY <2>1, <2>3 DEF HeldBy, Loaded
  <2> QED
    BY <1>2, <1>4, <1>5, <2>1, <2>3, <2>4 DEF Goes
<1>6. CASE \E c \in FiledUnder(Signal(words)) :
             Becomes(f, [[Waiting EXCEPT !.kind = "sync", !.step = "store", !.says = words]
                           EXCEPT !.id = c, !.copy = claims[c].cols])
  <2>1. PICK c \in FiledUnder(Signal(words)) :
             Becomes(f, [[Waiting EXCEPT !.kind = "sync", !.step = "store", !.says = words]
                           EXCEPT !.id = c, !.copy = claims[c].cols])
    BY <1>6
  <2> DEFINE next == [[Waiting EXCEPT !.kind = "sync", !.step = "store", !.says = words]
                        EXCEPT !.id = c, !.copy = claims[c].cols]
  <2>2. c \in Stored /\ c \in Ids /\ claims[c] \in ClaimType /\ Ids \subseteq Nat
    BY DEF FiledUnder, Current, Stored, Typed, Ids
  <2>3. claims[c].cols \in Columns
    BY <2>2 DEF ClaimType
  <2>4. /\ next.kind = "sync" /\ next.step = "store" /\ next.says = words /\ ~next.new
        /\ next.id = c /\ next.copy = claims[c].cols
    BY DEF Waiting
  <2>5. next \in FlowType
    BY <1>3, <2>2, <2>3 DEF Waiting, FlowType, Steps, AllKinds
  <2> HIDE DEF next
  <2>6. Typed' /\ Kept(f) /\ Stored' = Stored /\ flow'[f] = next
    BY <1>2, <2>1, <2>5, IdleKeeps DEF Typed, next
  <2>7. HeldBy(f)'
    BY <1>2, <2>2, <2>3, <2>4, <2>6 DEF HeldBy, Loaded
  <2> QED
    BY <1>2, <1>4, <2>4, <2>6, <2>7 DEF Goes
<1> QED
  BY <1>1, <1>5, <1>6

LEMMA RefreshGoes ==
  ASSUME Typed, Held, NEW f \in Flows, SyncRefresh(f)
  PROVE  Goes(f)
<1> DEFINE c == flow[f].id
           next == IF flow[f].new \/ ~claims[c].cols.label
                   THEN [AtWith(f, "classify", claims[c].cols) EXCEPT !.late = FALSE] ELSE Ended
<1>1. /\ flow[f].step = "refresh" /\ claims' = claims /\ Becomes(f, next)
      /\ UNCHANGED <<provider, raced, moved, undrafted>>
      /\ heard' = [heard EXCEPT ![c] = @ \cup {Signal(flow[f].says), "delivery"}]
  BY DEF SyncRefresh, history
<1>2. c \in Stored /\ c \in Ids /\ claims[c] \in ClaimType /\ flow[f] \in FlowType
      /\ flow[f].says \in Statuses /\ flow[f].kind = "sync"
  BY <1>1 DEF Held, HeldBy, Loaded, Stored, Typed
<1>3. claims[c].cols \in Columns
  BY <1>2 DEF ClaimType
<1>4. heard' \in [Ids -> SUBSET Categories] /\ undrafted' \subseteq Stored
  BY <1>1, <1>2, Words DEF Typed
<1>5. /\ next \in FlowType /\ next.step \in {"classify", "done"}
      /\ next.id \in {0, c}
      /\ next.step = "classify" =>
           next.id = c /\ next.copy = claims[c].cols /\ next.kind = flow[f].kind
  BY <1>2, <1>3, WaitingType DEF AtWith, FlowType, Steps, Ended, Waiting
<1> HIDE DEF next, c
<1>6. Typed' /\ Kept(f) /\ Stored' = Stored /\ flow'[f] = next
  BY <1>1, <1>4, <1>5, IdleKeeps
<1>7. Noted(f)
  BY <1>1 DEF Noted
<1>8. HeldBy(f)'
  BY <1>1, <1>2, <1>3, <1>5, <1>6 DEF HeldBy, Loaded
<1> QED
  BY <1>5, <1>6, <1>7, <1>8 DEF Goes

LEMMA AbandonGoes ==
  ASSUME Typed, Held, NEW f \in Flows, Abandon(f)
  PROVE  Goes(f)
<1>1. /\ claims' = claims /\ Becomes(f, Ended) /\ UNCHANGED <<provider, heard, raced, moved>>
      /\ undrafted' = IF flow[f].step = "draft" /\ flow[f].kind # "draft"
                      THEN undrafted \cup {flow[f].id} ELSE undrafted
  BY DEF Abandon
<1>2. heard' \in [Ids -> SUBSET Categories] /\ undrafted \subseteq undrafted'
      /\ undrafted' \subseteq Stored
  BY <1>1 DEF Typed, Held, HeldBy, Loaded
<1>3. Ended.step = "done" /\ Ended.id = 0
  BY DEF Ended, Waiting
<1>4. Typed' /\ Kept(f) /\ Stored' = Stored /\ flow'[f] = Ended
  BY <1>1, <1>2, WaitingType, IdleKeeps
<1>5. Noted(f)
  BY <1>1 DEF Noted
<1>6. HeldBy(f)'
  BY <1>3, <1>4 DEF HeldBy, Loaded
<1> QED
  BY <1>3, <1>4, <1>5, <1>6 DEF Goes

\* An UPDATE by flow f, and what it has in hand afterwards.
LEMMA UpdateGoes ==
  ASSUME Typed, Held, NEW f \in Flows,
         \/ flow[f].step \in {"classify", "decide"} \/ (flow[f].step = "store" /\ ~flow[f].new),
         NEW cols \in Columns, flow[f].copy.label => cols.label,
         NEW next \in FlowType, Update(f, cols, next),
         UNCHANGED <<provider, raced>>, heard' \in [Ids -> SUBSET Categories],
         undrafted \subseteq undrafted', undrafted' \subseteq Stored,
         next.step \in {"refresh", "classify", "draft", "done"}, next.id \in {0, flow[f].id},
         next.step # "done" => next.id = flow[f].id,
         next.step = "refresh" => next.says \in Statuses /\ next.kind = "sync",
         next.step = "classify" => next.kind # "draft",
         next.step \in {"classify", "draft"} =>
           next.copy = cols /\ (flow[f].late => next.late),
         next.step = "draft" => cols.label,
         cols.label /\ ~flow[f].copy.label =>
           flow[f].id \in undrafted' \/ (next.step = "draft" /\ next.kind # "draft")
  PROVE  Goes(f)
<1> DEFINE c == flow[f].id
<1>1. /\ c \in Stored /\ flow[f].copy \in Columns
      /\ flow[f].copy.label => claims[c].cols.label
  BY DEF Held, HeldBy, Loaded
<1>2. claims[c] \in ClaimType /\ claims \in [Ids -> {NoClaim} \cup ClaimType] /\ c \in Ids
  BY <1>1 DEF Typed, Stored
<1>3. /\ claims' \in [Ids -> {NoClaim} \cup ClaimType] /\ Stored' = Stored
      /\ \A d \in Ids \ {c} : claims'[d] = claims[d]
      /\ claims'[c] = [claims[c] EXCEPT !.cols = Merged(claims[c].cols, flow[f].copy, cols)]
      /\ claims[c].cols.label \/ cols.label => claims'[c].cols.label
      /\ claims'[c].cols.label => claims[c].cols.label \/ (cols.label /\ ~flow[f].copy.label)
      /\ moved' \in {moved, moved \cup {c}}
      /\ claims'[c].cols.cat # claims[c].cols.cat => c \in moved'
      /\ flow' \in [Flows -> FlowType] /\ flow'[f] = next /\ OthersKept(f)
      /\ \A g \in Flows \ {f} : Informed(g, c)
  BY <1>1, UpdateKeeps
<1> HIDE DEF c
<1>4. /\ claims'[c].draft = claims[c].draft /\ claims'[c].logged = claims[c].logged
      /\ claims'[c].deleted = claims[c].deleted /\ claims'[c].filed = claims[c].filed
  BY <1>2, <1>3 DEF ClaimType
<1>5. Typed'
  BY <1>1, <1>3 DEF Typed
<1>6. Kept(f)
  <2>1. \A d \in Stored : d # c => d \in Ids /\ claims'[d] = claims[d]
    BY <1>3 DEF Stored
  <2>2. \A d \in Stored : \A g \in Flows \ {f} : Informed(g, d)
    BY <1>3, <2>1 DEF Informed
  <2> QED
    BY <1>3, <1>4, <2>1, <2>2 DEF Kept
<1>7. Noted(f)
  <2>1. \A d \in Stored : d # c => d \in Ids /\ claims'[d] = claims[d]
    BY <1>3 DEF Stored
  <2> QED
    BY <1>3, <1>4, <2>1 DEF Noted, c
<1>8. ~flow[f].late => claims'[c].cols = cols
  <2>1. claims'[c].cols = Merged(claims[c].cols, flow[f].copy, cols)
    BY <1>2, <1>3 DEF ClaimType
  <2>2. ~flow[f].late => flow[f].copy = claims[c].cols
    BY DEF Held, HeldBy, c
  <2> QED
    BY <1>1, <2>1, <2>2, MergedColumns
<1>9. HeldBy(f)'
  BY <1>1, <1>3, <1>8 DEF HeldBy, Loaded, c
<1> QED
  BY <1>3, <1>5, <1>6, <1>7, <1>9 DEF Goes

LEMMA SyncUpdateGoes ==
  ASSUME Typed, Held, NEW f \in Flows, SyncUpdate(f)
  PROVE  Goes(f)
<1> DEFINE cols == Synced(flow[f].copy, flow[f].says)
           next == At(f, "refresh")
<1>1. /\ flow[f].kind = "sync" /\ flow[f].step = "store" /\ ~flow[f].new /\ Update(f, cols, next)
      /\ UNCHANGED <<provider, heard, raced, undrafted>>
  BY DEF SyncUpdate
<1>2. flow[f].copy \in Columns /\ flow[f].says \in Statuses /\ flow[f] \in FlowType
  BY <1>1 DEF Held, HeldBy, Typed
<1>3. cols \in Columns /\ cols.label = flow[f].copy.label
  BY <1>2, WrittenColumns
<1>4. /\ next \in FlowType /\ next.step = "refresh" /\ next.id = flow[f].id
      /\ next.says \in Statuses /\ next.kind = "sync"
  BY <1>1, <1>2 DEF At, FlowType, Steps
<1> HIDE DEF cols, next
<1>5. heard' \in [Ids -> SUBSET Categories] /\ undrafted' \subseteq Stored
  BY <1>1 DEF Typed
<1> QED
  BY <1>1, <1>3, <1>4, <1>5, UpdateGoes

LEMMA WebhookStoreGoes ==
  ASSUME Typed, Held, NEW f \in Flows, WebhookStore(f)
  PROVE  Goes(f)
<1> DEFINE chosen == CHOOSE k \in flow[f].says : TRUE
<1>1. PICK cat \in Events : flow[f].says = {cat}
  BY DEF WebhookStore, Held, HeldBy
<1>2. chosen = cat
  BY <1>1
<1> DEFINE cols == RuleColumns(flow[f].copy, cat)
           next == AtWith(f, "classify", cols)
<1>3. /\ flow[f].kind = "webhook" /\ flow[f].step = "store"
      /\ Update(f, RuleColumns(flow[f].copy, chosen),
                AtWith(f, "classify", RuleColumns(flow[f].copy, chosen)))
      /\ \E words \in {{}, {chosen}} : heard' = [heard EXCEPT ![flow[f].id] = @ \cup words]
      /\ UNCHANGED <<provider, raced, undrafted>>
  BY DEF WebhookStore
<1> HIDE DEF chosen
<1>4. Update(f, cols, next) /\ ~flow[f].new
  BY <1>2, <1>3 DEF Held, HeldBy
<1>5. flow[f].copy \in Columns /\ flow[f] \in FlowType
  BY <1>3, <1>4 DEF Held, HeldBy, Typed
<1>6. cols \in Columns /\ cols.label = flow[f].copy.label
  BY <1>5, WrittenColumns
<1> HIDE DEF cols
<1>7. /\ next \in FlowType /\ next.step = "classify" /\ next.id = flow[f].id
      /\ next.copy = cols /\ next.kind # "draft" /\ next.late = flow[f].late
  BY <1>3, <1>5, <1>6 DEF AtWith, FlowType, Steps
<1> HIDE DEF next
<1>8. heard' \in [Ids -> SUBSET Categories]
  <2>1. PICK words \in {{}, {cat}} : heard' = [heard EXCEPT ![flow[f].id] = @ \cup words]
    BY <1>2, <1>3
  <2>2. words \in SUBSET Categories
    BY Words
  <2> QED
    BY <2>1, <2>2 DEF Typed
<1>9. undrafted' \subseteq Stored
  BY <1>3 DEF Typed
<1> QED
  BY <1>3, <1>4, <1>6, <1>7, <1>8, <1>9, UpdateGoes

LEMMA DecideGoes ==
  ASSUME Typed, Held, NEW f \in Flows, Decide(f)
  PROVE  Goes(f)
<1>1. PICK d \in Decisions : Update(f, [flow[f].copy EXCEPT !.status = d], Ended)
  BY DEF Decide
<1>2. flow[f].step = "decide" /\ UNCHANGED <<provider, heard, raced, undrafted>>
  BY DEF Decide
<1>3. flow[f].copy \in Columns
  BY <1>2 DEF Held, HeldBy
<1> DEFINE cols == [flow[f].copy EXCEPT !.status = d]
<1>4. cols \in Columns /\ cols.label = flow[f].copy.label
  BY <1>3, WrittenColumns
<1> HIDE DEF cols
<1>5. Update(f, cols, Ended)
  BY <1>1 DEF cols
<1>6. Ended \in FlowType /\ Ended.step = "done" /\ Ended.id = 0
  BY WaitingType DEF Ended, Waiting
<1>7. heard' \in [Ids -> SUBSET Categories] /\ undrafted' \subseteq Stored
  BY <1>2 DEF Typed
<1> QED
  BY <1>2, <1>4, <1>5, <1>6, <1>7, UpdateGoes

LEMMA ClassifyGoes ==
  ASSUME Typed, Held, NEW f \in Flows, Classify(f)
  PROVE  Goes(f)
<1> DEFINE c == flow[f].id
           alone == flow[f].kind = "classify"
           text == flow[f].copy.reason \cup (IF alone THEN flow[f].says ELSE heard[c])
<1>1. PICK a \in Answered(text) :
        Update(f, [flow[f].copy EXCEPT !.cat = a.cat, !.urg = a.urg, !.label = TRUE],
               IF alone THEN Ended
               ELSE AtWith(f, "draft", [flow[f].copy EXCEPT !.cat = a.cat, !.urg = a.urg,
                                                            !.label = TRUE]))
  BY DEF Classify, Classified
<1>2. /\ flow[f].step = "classify" /\ UNCHANGED <<provider, heard, raced>>
      /\ undrafted' = IF alone THEN undrafted \cup {c} ELSE undrafted
  BY DEF Classify
<1>3. /\ flow[f].copy \in Columns /\ flow[f] \in FlowType /\ c \in Stored /\ c \in Ids
  BY <1>2 DEF Held, HeldBy, Loaded, Typed, Stored
<1>4. text \in SUBSET Categories
  BY <1>3 DEF Columns, FlowType, Typed
<1>5. a.cat \in Categories /\ a.urg \in Urgencies
  BY <1>4, AnswerType
<1> DEFINE cols == [flow[f].copy EXCEPT !.cat = a.cat, !.urg = a.urg, !.label = TRUE]
<1>6. cols \in Columns /\ cols.label
  BY <1>3, <1>5 DEF Columns
<1> DEFINE next == IF alone THEN Ended ELSE AtWith(f, "draft", cols)
<1>7. Update(f, cols, next)
  BY <1>1
<1> HIDE DEF cols
<1>8. AtWith(f, "draft", cols) \in FlowType /\ AtWith(f, "draft", cols).step = "draft"
      /\ AtWith(f, "draft", cols).id = c /\ AtWith(f, "draft", cols).copy = cols
      /\ AtWith(f, "draft", cols).kind = flow[f].kind
      /\ AtWith(f, "draft", cols).late = flow[f].late
  BY <1>3, <1>6 DEF AtWith, FlowType, Steps
<1>9. Ended \in FlowType /\ Ended.step = "done" /\ Ended.id = 0
  BY WaitingType DEF Ended, Waiting
<1>10. heard' \in [Ids -> SUBSET Categories] /\ undrafted' \subseteq Stored
       /\ undrafted \subseteq undrafted'
  BY <1>2, <1>3 DEF Typed
<1>11. flow[f].kind # "draft"
  BY <1>2 DEF Held, HeldBy
<1>12. /\ next \in FlowType /\ next.step \in {"draft", "done"} /\ next.id \in {0, c}
       /\ next.step = "draft" => next.id = c /\ next.copy = cols /\ next.late = flow[f].late
       /\ c \in undrafted' \/ (next.step = "draft" /\ next.kind # "draft")
  BY <1>2, <1>8, <1>9, <1>11
<1> HIDE DEF next, c
<1>13. next.id \in {0, flow[f].id} /\ (next.step # "done" => next.id = flow[f].id)
       /\ (flow[f].id \in undrafted' \/ (next.step = "draft" /\ next.kind # "draft"))
  BY <1>12 DEF c
<1> QED
  BY <1>2, <1>6, <1>7, <1>10, <1>12, <1>13, UpdateGoes

LEMMA DraftGoes ==
  ASSUME Typed, Held, NEW f \in Flows, Draft(f)
  PROVE  Goes(f)
<1> DEFINE c == flow[f].id
           next == IF flow[f].kind = "draft" THEN Ended ELSE At(f, "log")
<1>1. PICK flagged \in ReviewRequired(flow[f].copy) :
        claims' = [claims EXCEPT ![c].draft = IF flagged THEN "flagged" ELSE "plain"]
  BY DEF Draft
<1>2. /\ flow[f].step = "draft" /\ Becomes(f, next)
      /\ UNCHANGED <<provider, heard, raced, moved, undrafted>>
  BY DEF Draft, history
<1>3. c \in Stored /\ c \in Ids /\ claims[c] \in ClaimType /\ flow[f] \in FlowType
  BY <1>2 DEF Held, HeldBy, Loaded, Typed, Stored
<1>4. PICK d \in {"plain", "flagged"} : claims' = [claims EXCEPT ![c].draft = d]
  BY <1>1
<1>5. claims'[c].draft = d /\ claims'[c].logged = claims[c].logged
      /\ \A e \in Stored : e # c => claims'[e] = claims[e]
  BY <1>3, <1>4 DEF ClaimType, Typed, Stored
<1>6. /\ next \in FlowType /\ next.step \in {"log", "done"} /\ next.id \in {0, c}
      /\ next.step = "log" => next.id = c /\ flow[f].kind # "draft"
  BY <1>3, WaitingType DEF At, FlowType, Steps, Ended, Waiting
<1> HIDE DEF c, next
<1>7. /\ Typed' /\ Kept(f) /\ Stored' = Stored /\ flow'[f] = next
      /\ \A e \in Stored : claims'[e].cols = claims[e].cols
  BY <1>2, <1>3, <1>4, <1>6, MarkKeeps
<1>8. Noted(f)
  BY <1>5, <1>7 DEF Noted, c
<1>9. flow[f].kind # "draft" => claims[c].cols.label
  BY <1>2 DEF Held, HeldBy, c
<1>10. HeldBy(f)'
  BY <1>3, <1>5, <1>6, <1>7, <1>9 DEF HeldBy, Loaded
<1> QED
  BY <1>6, <1>7, <1>8, <1>10 DEF Goes

LEMMA LogTriageGoes ==
  ASSUME Typed, Held, NEW f \in Flows, LogTriage(f)
  PROVE  Goes(f)
<1> DEFINE c == flow[f].id
<1>1. /\ flow[f].step = "log" /\ claims' = [claims EXCEPT ![c].logged = TRUE]
      /\ Becomes(f, Ended) /\ UNCHANGED <<provider, heard, raced, moved, undrafted>>
  BY DEF LogTriage, history
<1>2. c \in Stored
  BY <1>1 DEF Held, HeldBy, Loaded
<1>3. Ended \in FlowType /\ Ended.step = "done" /\ Ended.id = 0
  BY WaitingType DEF Ended, Waiting
<1>4. \A d \in Stored : d # c => claims'[d] = claims[d]
  BY <1>1, <1>2 DEF Typed, Stored
<1> HIDE DEF c
<1>5. /\ Typed' /\ Kept(f) /\ Stored' = Stored /\ flow'[f] = Ended
      /\ \A d \in Stored : claims'[d].cols = claims[d].cols
  BY <1>1, <1>2, <1>3, MarkKeeps
<1>6. Noted(f)
  BY <1>1, <1>4, <1>5 DEF Noted, c
<1>7. HeldBy(f)'
  BY <1>3, <1>5 DEF HeldBy, Loaded
<1> QED
  BY <1>3, <1>5, <1>6, <1>7 DEF Goes

LEMMA DeleteGoes ==
  ASSUME Typed, Held, NEW f \in Flows, Delete(f)
  PROVE  Goes(f)
<1>1. PICK c \in Current : claims' = [claims EXCEPT ![c].deleted = TRUE]
  BY DEF Delete
<1>2. /\ flow[f].step = "ready" /\ Becomes(f, Ended)
      /\ UNCHANGED <<provider, heard, raced, moved, undrafted>>
  <2>1. flow[f] = Waiting /\ Becomes(f, Ended) /\ UNCHANGED <<provider, heard, history>>
    BY DEF Delete
  <2> QED
    BY <2>1 DEF history, Waiting
<1>3. c \in Stored /\ c \in Ids /\ claims[c] \in ClaimType
  BY DEF Current, Stored, Typed
<1>4. Ended \in FlowType /\ Ended.step = "done" /\ Ended.id = 0
  BY WaitingType DEF Ended, Waiting
<1>5. claims'[c].logged = claims[c].logged /\ \A d \in Stored : d # c => claims'[d] = claims[d]
  BY <1>1, <1>3 DEF Typed, Stored, ClaimType
<1>6. /\ Typed' /\ Kept(f) /\ Stored' = Stored /\ flow'[f] = Ended
      /\ \A d \in Stored : claims'[d].cols = claims[d].cols
  BY <1>1, <1>2, <1>3, <1>4, MarkKeeps
<1>7. Noted(f)
  BY <1>2, <1>5, <1>6 DEF Noted
<1>8. HeldBy(f)'
  BY <1>4, <1>6 DEF HeldBy, Loaded
<1> QED
  BY <1>4, <1>6, <1>7, <1>8 DEF Goes

\* Every step of flow f but the insert of a live sync.
LEMMA StepGoes ==
  ASSUME Typed, Held, NEW f \in Flows, Step(f), ~SyncInsert(f)
  PROVE  Goes(f)
<1>1. CASE WebhookLoad(f)
  <2>1. PICK cat \in Events : Load(f, "webhook", "store", [c \in Ids |-> {cat}])
    BY <1>1 DEF WebhookLoad
  <2> DEFINE says == [c \in Ids |-> {cat}]
  <2>2. says \in [Ids -> SUBSET Categories] /\ \A c \in Ids : says[c] = {cat}
    BY Words
  <2> HIDE DEF says
  <2>3. Load(f, "webhook", "store", says)
    BY <2>1 DEF says
  <2> QED
    BY <2>2, <2>3, LoadGoes DEF AllKinds
<1>2. CASE ClassifyLoad(f)
  BY <1>2, LoadGoes DEF ClassifyLoad, AllKinds, Typed
<1>3. Silent \in [Ids -> SUBSET Categories]
  BY DEF Silent
<1>4. CASE DraftLoad(f)
  BY <1>3, <1>4, LoadGoes DEF DraftLoad, AllKinds
<1>5. CASE DecideLoad(f)
  BY <1>3, <1>5, LoadGoes DEF DecideLoad, AllKinds
<1>6. CASE SyncLookup(f)
  BY <1>6, LookupGoes
<1>7. CASE SyncUpdate(f)
  BY <1>7, SyncUpdateGoes
<1>8. CASE SyncRefresh(f)
  BY <1>8, RefreshGoes
<1>9. CASE WebhookStore(f)
  BY <1>9, WebhookStoreGoes
<1>10. CASE Classify(f)
  BY <1>10, ClassifyGoes
<1>11. CASE Draft(f)
  BY <1>11, DraftGoes
<1>12. CASE LogTriage(f)
  BY <1>12, LogTriageGoes
<1>13. CASE Abandon(f)
  BY <1>13, AbandonGoes
<1>14. CASE Decide(f)
  BY <1>14, DecideGoes
<1>15. CASE Delete(f)
  BY <1>15, DeleteGoes
<1> QED
  BY <1>1, <1>2, <1>4, <1>5, <1>6, <1>7, <1>8, <1>9, <1>10, <1>11, <1>12, <1>13, <1>14, <1>15
     DEF Step

-----------------------------------------------------------------------------
\* The invariant

\* Whoever has a claim to draft after its classification is no operator's request.
Accounted ==
  \A c \in Stored :
    /\ claims[c].logged => claims[c].cols.label /\ claims[c].draft # "none"
    /\ claims[c].cols.label /\ claims[c].draft = "none" =>
         \/ c \in undrafted
         \/ \E f \in Flows : /\ flow[f].id = c /\ flow[f].step = "draft"
                             /\ flow[f].kind # "draft"

\* A claim whose category has not changed is still in the category it was filed in.
Unmoved == \A c \in Stored \ moved : claims[c].cols.cat = claims[c].filed

\* A sync that found no claim, and is not late, would find none now.
Unfiled ==
  \A f \in Flows :
    flow[f].step = "store" /\ flow[f].new /\ ~flow[f].late =>
      \A c \in Current : claims[c].cols.cat # Signal(flow[f].says)

IInv == Typed /\ Held /\ Numbered /\ Counted /\ Accounted /\ Unmoved /\ Unfiled
        /\ OneClaimPerSignal

LEMMA InitIInv == Init => IInv
<1> SUFFICES ASSUME Init PROVE IInv
  OBVIOUS
<1>1. /\ claims = [c \in Ids |-> NoClaim] /\ flow = [f \in Flows |-> Waiting]
      /\ heard = [c \in Ids |-> {}] /\ provider \in {"mock", "openai"}
      /\ raced = {} /\ moved = {} /\ undrafted = {}
  BY DEF Init
<1>2. Stored = {}
  BY <1>1 DEF Stored
<1>3. Cardinality(Stored) = 0
  BY <1>2, FS_EmptySet
<1>4. Typed
  BY <1>1, <1>2, WaitingType DEF Typed
<1>5. \A f \in Flows : flow[f].step = "ready" /\ flow[f].id = 0
  BY <1>1 DEF Waiting
<1>6. Held
  BY <1>5 DEF Held, HeldBy, Loaded
<1>7. Numbered
  BY <1>2, <1>3 DEF Numbered
<1>8. Begun = {}
  BY <1>5 DEF Begun
<1>9. Counted
  BY <1>3, <1>8, FS_EmptySet DEF Counted
<1>10. Accounted /\ Unmoved /\ Unfiled /\ OneClaimPerSignal
  BY <1>2, <1>5 DEF Accounted, Unmoved, Unfiled, OneClaimPerSignal, Current
<1> QED
  BY <1>4, <1>6, <1>7, <1>9, <1>10 DEF IInv

\* What the other flows have in hand is not taken from them.
LEMMA OthersHeld ==
  ASSUME Typed, Held, NEW f \in Flows, Kept(f), NEW g \in Flows \ {f}
  PROVE  HeldBy(g)'
<1>1. /\ flow'[g].kind = flow[g].kind /\ flow'[g].step = flow[g].step
      /\ flow'[g].id = flow[g].id /\ flow'[g].copy = flow[g].copy
      /\ flow'[g].says = flow[g].says /\ flow'[g].new = flow[g].new
      /\ ~flow'[g].late => ~flow[g].late
  BY DEF Kept, OthersKept
<1>2. HeldBy(g)
  BY DEF Held
<1>3. Stored \subseteq Stored'
  BY DEF Kept
<1>4. flow[g].id \in Stored =>
        /\ claims[flow[g].id].cols.label => claims'[flow[g].id].cols.label
        /\ claims[flow[g].id].draft # "none" => claims'[flow[g].id].draft # "none"
        /\ ~flow'[g].late => claims'[flow[g].id].cols = claims[flow[g].id].cols
  BY DEF Kept, Informed
<1>5. Loaded(g)' <=> Loaded(g)
  BY <1>1 DEF Loaded
<1>6. Loaded(g) => flow[g].id \in Stored
  BY <1>2 DEF HeldBy
<1> QED
  BY <1>1, <1>2, <1>3, <1>4, <1>5, <1>6 DEF HeldBy, Loaded

\* What the insert of a live sync has in hand afterwards.
LEMMA InsertHeld ==
  ASSUME Typed, Held, Numbered, Counted, NEW f \in Flows, SyncInsert(f)
  PROVE  HeldBy(f)'
<1> DEFINE c == Cardinality(Stored) + 1
           next == [flow[f] EXCEPT !.step = "refresh", !.id = c]
<1>1. Stored' = Stored \cup {c} /\ flow'[f] = next /\ flow[f].says \in Statuses
  BY InsertKeeps
<1>2. flow[f] \in FlowType /\ flow[f].kind = "sync"
  BY DEF Typed, SyncInsert
<1>3. next.step = "refresh" /\ next.id = c /\ next.says = flow[f].says /\ next.kind = "sync"
  BY <1>2 DEF FlowType
<1> HIDE DEF c, next
<1> QED
  BY <1>1, <1>3 DEF HeldBy, Loaded

LEMMA InsertIInv ==
  ASSUME IInv, NEW f \in Flows, SyncInsert(f)
  PROVE  IInv'
<1> DEFINE c == Cardinality(Stored) + 1
<1> USE DEF IInv
<1>1. /\ Typed' /\ Kept(f) /\ Stored' = Stored \cup {c} /\ c \notin Stored
      /\ \A d \in Stored : claims'[d] = claims[d]
      /\ claims'[c].cols.cat = Signal(flow[f].says) /\ claims'[c].filed = Signal(flow[f].says)
      /\ claims'[c].draft = "none" /\ ~claims'[c].logged /\ ~claims'[c].cols.label
      /\ flow'[f] = [flow[f] EXCEPT !.step = "refresh", !.id = c] /\ flow[f].says \in Statuses
      /\ flow[f].late => c \in raced'
      /\ \A g \in Flows \ {f} : flow[g].step = "store" /\ flow[g].new /\ ~flow'[g].late =>
           Signal(flow[f].says) # Signal(flow[g].says)
  BY InsertKeeps
<1>2. /\ flow[f].step = "store" /\ flow[f].new /\ flow[f] \in FlowType
      /\ moved' = moved /\ undrafted' = undrafted
      /\ flow'[f].step = "refresh"
  <2>1. flow[f].step = "store" /\ flow[f].new /\ moved' = moved /\ undrafted' = undrafted
    BY DEF SyncInsert
  <2>2. flow[f] \in FlowType
    BY DEF Typed
  <2> QED
    BY <1>1, <2>1, <2>2 DEF FlowType
<1>3. Cardinality(Stored) \in Nat /\ IsFiniteSet(Stored)
  BY <1>2, InsertRoom
<1>4. Cardinality(Stored') = c /\ c \in Nat
  <2>1. c \notin Stored /\ Stored' = Stored \cup {c}
    BY <1>1
  <2>2. Cardinality(Stored \cup {c}) = Cardinality(Stored) + 1
    BY ONLY <1>3, <2>1, FS_AddElement
  <2> QED
    BY <1>3, <2>1, <2>2
<1>5. Held'
  BY <1>1, OthersHeld, InsertHeld DEF Held
<1>6. Numbered'
  <2>1. 1..c = (1..Cardinality(Stored)) \cup {c}
    BY <1>3
  <2> QED
    BY <1>1, <1>4, <2>1 DEF Numbered
<1>7. Counted'
  <2>1. f \notin Begun /\ IsFiniteSet(Begun)
    BY <1>2, FlowAssumption, FS_Subset DEF Begun
  <2>2. \A g \in Flows \ {f} : flow'[g].step = flow[g].step
    BY <1>1 DEF Kept, OthersKept
  <2>3. Begun' = Begun \cup {f}
    BY <1>2, <2>2 DEF Begun
  <2>4. Cardinality(Begun') = Cardinality(Begun) + 1 /\ Cardinality(Begun) \in Nat
    BY <2>1, <2>3, FS_AddElement, FS_CardinalityType
  <2> QED
    BY <1>3, <1>4, <2>4 DEF Counted
<1>8. Accounted'
  <2>1. ASSUME NEW d \in Stored, NEW g \in Flows, flow[g].id = d, flow[g].step = "draft",
               flow[g].kind # "draft"
        PROVE  flow'[g].id = d /\ flow'[g].step = "draft" /\ flow'[g].kind # "draft"
    BY <1>1, <1>2, <2>1 DEF Kept, OthersKept
  <2> QED
    BY <1>1, <1>2, <2>1 DEF Accounted
<1>9. Unmoved'
  BY <1>1, <1>2 DEF Unmoved
<1>10. Unfiled'
  <2> SUFFICES ASSUME NEW g \in Flows, flow'[g].step = "store", flow'[g].new, ~flow'[g].late,
                      NEW d \in Current'
               PROVE  claims'[d].cols.cat # Signal(flow'[g].says)
    BY DEF Unfiled
  <2>1. g # f
    BY <1>2
  <2>2. flow[g].step = "store" /\ flow[g].new /\ ~flow[g].late /\ flow'[g].says = flow[g].says
    BY <1>1, <2>1 DEF Kept, OthersKept
  <2>3. CASE d = c
    BY <1>1, <2>1, <2>2, <2>3
  <2>4. CASE d # c
    BY <1>1, <2>2, <2>4 DEF Unfiled, Current
  <2> QED
    BY <2>3, <2>4
<1>11. OneClaimPerSignal'
  <2> SUFFICES ASSUME NEW d \in Current', NEW e \in Current', d < e,
                      claims'[d].filed = claims'[e].filed
               PROVE  d \in moved' \/ e \in raced'
    BY DEF OneClaimPerSignal
  <2>1. d \in Stored /\ d \in Current
    <3>1. d # c
      BY <1>1, <1>3, <1>4 DEF Current, Numbered
    <3> QED
      BY <1>1, <3>1 DEF Current
  <2>2. CASE e = c
    BY <1>1, <1>2, <2>1, <2>2 DEF Unfiled, Unmoved
  <2>3. CASE e # c
    BY <1>1, <1>2, <2>1, <2>3 DEF OneClaimPerSignal, Current, Kept
  <2> QED
    BY <2>2, <2>3
<1> QED
  BY <1>1, <1>5, <1>6, <1>7, <1>8, <1>9, <1>10, <1>11

LEMMA GoesIInv ==
  ASSUME IInv, NEW f \in Flows, Goes(f)
  PROVE  IInv'
<1> USE DEF IInv
<1>1. /\ Typed' /\ Kept(f) /\ Stored' = Stored /\ Noted(f) /\ HeldBy(f)'
      /\ flow'[f].step \in {"ready", "store"} => flow[f].step \in {"ready", "store"}
      /\ flow'[f].step = "store" /\ flow'[f].new =>
           claims' = claims /\ FiledUnder(Signal(flow'[f].says)) = {}
  BY DEF Goes
<1>2. \A c \in Stored :
        /\ claims[c].cols.label => claims'[c].cols.label
        /\ claims[c].draft # "none" => claims'[c].draft # "none"
        /\ claims[c].deleted => claims'[c].deleted
        /\ claims'[c].filed = claims[c].filed
        /\ claims'[c].cols.cat # claims[c].cols.cat => c \in moved'
        /\ \A g \in Flows \ {f} : Informed(g, c)
  BY <1>1 DEF Kept
<1>3. moved \subseteq moved' /\ raced \subseteq raced' /\ undrafted \subseteq undrafted'
  BY <1>1 DEF Kept
<1>4. \A g \in Flows \ {f} :
        /\ flow'[g].kind = flow[g].kind /\ flow'[g].step = flow[g].step
        /\ flow'[g].id = flow[g].id /\ flow'[g].says = flow[g].says /\ flow'[g].new = flow[g].new
        /\ ~flow'[g].late => ~flow[g].late
  BY <1>1 DEF Kept, OthersKept
<1>5. Held'
  BY <1>1, OthersHeld DEF Held
<1>6. Numbered'
  BY <1>1 DEF Numbered
<1>7. Counted'
  <2>1. Begun \subseteq Begun' /\ Begun' \subseteq Flows
    BY <1>1, <1>4 DEF Begun
  <2>2. Cardinality(Begun) <= Cardinality(Begun') /\ IsFiniteSet(Begun')
    BY <2>1, FlowAssumption, FS_Subset
  <2>3. Cardinality(Begun) \in Nat /\ Cardinality(Begun') \in Nat
    BY <2>1, <2>2, FS_Subset, FS_CardinalityType
  <2>4. IsFiniteSet(Stored)
    <3>1. IsFiniteSet(Ids)
      BY FlowAssumption, FS_CardinalityType, FS_Interval DEF Ids
    <3> QED
      BY <3>1, FS_Subset DEF Stored
  <2>5. Cardinality(Stored) \in Nat
    BY <2>4, FS_CardinalityType
  <2> QED
    BY <1>1, <2>2, <2>3, <2>5 DEF Counted
<1>8. Accounted'
  <2> SUFFICES ASSUME NEW c \in Stored
               PROVE  /\ claims'[c].logged => claims'[c].cols.label /\ claims'[c].draft # "none"
                      /\ claims'[c].cols.label /\ claims'[c].draft = "none" =>
                           \/ c \in undrafted'
                           \/ \E g \in Flows : /\ flow'[g].id = c /\ flow'[g].step = "draft"
                                               /\ flow'[g].kind # "draft"
    BY <1>1 DEF Accounted
  <2>1. ASSUME claims'[c].logged PROVE claims'[c].cols.label /\ claims'[c].draft # "none"
    <3>1. CASE claims[c].logged
      BY <1>2, <3>1 DEF Accounted
    <3>2. CASE flow[f].step = "log" /\ flow[f].id = c
      BY <1>2, <3>2 DEF Held, HeldBy
    <3> QED
      BY <1>1, <2>1, <3>1, <3>2 DEF Noted
  <2>2. ASSUME claims'[c].cols.label, claims'[c].draft = "none"
        PROVE  \/ c \in undrafted'
               \/ \E g \in Flows : /\ flow'[g].id = c /\ flow'[g].step = "draft"
                                   /\ flow'[g].kind # "draft"
    <3>1. CASE claims[c].cols.label
      <4>1. claims[c].draft = "none"
        BY <1>2, <2>2
      <4>2. CASE c \in undrafted
        BY <1>3, <4>2
      <4>3. ASSUME NEW g \in Flows, flow[g].id = c, flow[g].step = "draft", flow[g].kind # "draft"
            PROVE  c \in undrafted' \/ (/\ flow'[g].id = c /\ flow'[g].step = "draft"
                                        /\ flow'[g].kind # "draft")
        BY <1>1, <1>4, <2>2, <4>3 DEF Noted
      <4> QED
        BY <3>1, <4>1, <4>2, <4>3 DEF Accounted
    <3>2. CASE ~claims[c].cols.label
      BY <1>1, <2>2, <3>2 DEF Noted
    <3> QED
      BY <3>1, <3>2
  <2> QED
    BY <2>1, <2>2
<1>9. Unmoved'
  BY <1>1, <1>2, <1>3 DEF Unmoved
<1>10. Unfiled'
  <2> SUFFICES ASSUME NEW g \in Flows, flow'[g].step = "store", flow'[g].new, ~flow'[g].late,
                      NEW c \in Current'
               PROVE  claims'[c].cols.cat # Signal(flow'[g].says)
    BY DEF Unfiled
  <2>1. c \in Stored /\ c \in Current
    BY <1>1, <1>2 DEF Current
  <2>2. CASE g = f
    BY <1>1, <2>1, <2>2 DEF FiledUnder
  <2>3. CASE g # f
    <3>1. flow[g].step = "store" /\ flow[g].new /\ ~flow[g].late /\ flow'[g].says = flow[g].says
      BY <1>4, <2>3
    <3>2. \/ claims'[c].cols = claims[c].cols
          \/ claims'[c].cols.cat # Signal(flow[g].says)
      BY <1>2, <2>1, <2>3, <3>1 DEF Informed
    <3> QED
      BY <2>1, <3>1, <3>2 DEF Unfiled
  <2> QED
    BY <2>2, <2>3
<1>11. OneClaimPerSignal'
  BY <1>1, <1>2, <1>3 DEF OneClaimPerSignal, Current
<1> QED
  BY <1>1, <1>5, <1>6, <1>7, <1>8, <1>9, <1>10, <1>11

LEMMA StutterIInv ==
  ASSUME IInv, UNCHANGED vars
  PROVE  IInv'
<1>1. UNCHANGED <<provider, claims, heard, flow, raced, moved, undrafted>>
  BY DEF vars, history
<1> QED
  BY <1>1 DEF IInv, Typed, Held, HeldBy, Loaded, Numbered, Counted, Begun, Accounted, Unmoved,
              Unfiled, OneClaimPerSignal, Stored, Current

LEMMA Invariance == Spec => []IInv
<1>1. Init => IInv
  BY InitIInv
<1>2. IInv /\ [Next]_vars => IInv'
  <2> SUFFICES ASSUME IInv, [Next]_vars PROVE IInv'
    OBVIOUS
  <2>1. ASSUME NEW f \in Flows, Step(f) PROVE IInv'
    BY <2>1, InsertIInv, StepGoes, GoesIInv DEF IInv
  <2>2. CASE UNCHANGED vars
    BY <2>2, StutterIInv
  <2> QED
    BY <2>1, <2>2 DEF Next
<1> QED
  BY <1>1, <1>2, PTL DEF Spec

-----------------------------------------------------------------------------
\* What a sync, a rule, an answer or an operator writes is a complete set of columns, and
\* every job or request refers to a claim that is stored.
THEOREM TypeCorrect == Spec => []TypeOK
<1>1. IInv => TypeOK
  <2> SUFFICES ASSUME IInv PROVE TypeOK
    OBVIOUS
  <2>1. Typed /\ Held
    BY DEF IInv
  <2>2. \A f \in Flows : flow[f] \in FlowType /\ flow[f].id \in {0} \cup Stored
    BY <2>1 DEF Typed, Held, HeldBy
  <2>3. \A f \in Flows : /\ flow[f].kind \in AllKinds \cup {"none"} /\ flow[f].step \in Steps
                         /\ flow[f].copy \in Columns \cup {Blank}
    BY <2>2 DEF FlowType
  <2> QED
    BY <2>1, <2>2, <2>3 DEF Typed, ClaimType, Steps, TypeOK
<1> QED
  BY <1>1, Invariance, PTL

\* However syncs, webhooks and operators interleave, a claim shown as auto-triaged has a
\* label and a draft, and every label without a draft is accounted for.
THEOREM TriageComplete == Spec => []TriageAccounted
<1>1. IInv => TriageAccounted
  BY DEF IInv, Accounted, TriageAccounted
<1> QED
  BY <1>1, Invariance, PTL

\* A second claim of the same signal needs a deletion, a claim that was moved to another
\* category, or two syncs that both looked before either stored.
THEOREM NoOtherDuplicate == Spec => []OneClaimPerSignal
<1>1. IInv => OneClaimPerSignal
  BY DEF IInv
<1> QED
  BY <1>1, Invariance, PTL

\* What a step may do to the status of claim c, and to its draft.
LEMMA UpdateStatus ==
  ASSUME Typed, Held, NEW f \in Flows, NEW c \in Stored,
         flow[f].step \in {"classify", "decide"} \/ (flow[f].step = "store" /\ ~flow[f].new),
         NEW cols \in Columns, NEW next, Update(f, cols, next),
         claims[c].cols.status # "in_review", claims'[c].cols.status = "in_review"
  PROVE  flow[f].id = c /\ cols.status = "in_review" /\ flow[f].copy.status # "in_review"
<1>1. /\ flow[f].id \in Stored /\ flow[f].copy \in Columns /\ c \in Ids
      /\ claims \in [Ids -> {NoClaim} \cup ClaimType]
  BY DEF Held, HeldBy, Loaded, Typed, Stored
<1>2. claims[flow[f].id] \in ClaimType /\ flow[f].id \in Ids
  BY <1>1 DEF Stored
<1>3. claims' = [claims EXCEPT ![flow[f].id].cols =
                                 Merged(claims[flow[f].id].cols, flow[f].copy, cols)]
  BY DEF Update
<1>4. flow[f].id = c
  BY <1>1, <1>2, <1>3
<1>5. claims'[c].cols = Merged(claims[c].cols, flow[f].copy, cols) /\ claims[c].cols \in Columns
  BY <1>1, <1>2, <1>3, <1>4 DEF ClaimType
<1> QED
  BY <1>1, <1>4, <1>5, MergedColumns

LEMMA UndoneKnowingly ==
  ASSUME IInv, NEW f \in Flows, Step(f), NEW c \in Stored,
         claims[c].cols.status \in Decisions, claims'[c].cols.status = "in_review"
  PROVE  /\ flow[f].id = c /\ flow[f].step = "store"
         /\ flow[f].copy.status \in Decisions
<1>1. "in_review" \notin Decisions /\ Typed /\ Held /\ c \in Ids
  BY WordAssumption DEF IInv, Stored
<1>2. claims'[c] # claims[c]
  BY <1>1
<1>3. claims'[c].cols # claims[c].cols
  BY <1>1
<1>4. ASSUME NEW cols \in Columns, NEW next, Update(f, cols, next),
             flow[f].step \in {"classify", "decide"} \/ (flow[f].step = "store" /\ ~flow[f].new)
      PROVE  flow[f].id = c /\ cols.status = "in_review" /\ flow[f].copy.status # "in_review"
  <2>1. claims[c].cols.status # "in_review"
    BY <1>1
  <2> QED
    BY <1>1, <1>4, <2>1, UpdateStatus
<1>5. CASE SyncLookup(f) \/ SyncRefresh(f) \/ WebhookLoad(f) \/ ClassifyLoad(f) \/ DraftLoad(f)
           \/ DecideLoad(f) \/ Abandon(f)
  <2>1. claims' = claims
    BY <1>5 DEF SyncLookup, SyncRefresh, WebhookLoad, ClassifyLoad, DraftLoad, DecideLoad, Load,
                Abandon
  <2> QED
    BY <1>2, <2>1
<1>6. CASE SyncInsert(f)
  BY <1>2, <1>6, InsertKeeps DEF IInv
<1>7. CASE Draft(f) \/ LogTriage(f) \/ Delete(f)
  <2>1. flow[f].step \in {"draft", "log"} => flow[f].id \in Stored
    BY <1>1 DEF Held, HeldBy, Loaded
  <2>2. PICK d \in Stored : \/ \E k \in {"plain", "flagged"} :
                                 claims' = [claims EXCEPT ![d].draft = k]
                            \/ claims' = [claims EXCEPT ![d].logged = TRUE]
                            \/ claims' = [claims EXCEPT ![d].deleted = TRUE]
    <3>1. CASE Draft(f)
      BY <2>1, <3>1 DEF Draft
    <3>2. CASE LogTriage(f)
      BY <2>1, <3>2 DEF LogTriage
    <3>3. CASE Delete(f)
      BY <3>3 DEF Delete, Current
    <3> QED
      BY <1>7, <3>1, <3>2, <3>3
  <2>3. claims[c] \in ClaimType /\ claims[d] \in ClaimType /\ d \in Ids
    BY <1>1 DEF Typed, Stored
  <2>4. claims'[c].cols = claims[c].cols
    BY <1>1, <2>2, <2>3 DEF Typed, ClaimType
  <2> QED
    BY <1>3, <2>4
<1>8. CASE SyncUpdate(f)
  <2>1. /\ flow[f].kind = "sync" /\ flow[f].step = "store" /\ ~flow[f].new
        /\ Update(f, Synced(flow[f].copy, flow[f].says), At(f, "refresh"))
    BY <1>8 DEF SyncUpdate
  <2>2. flow[f].copy \in Columns /\ flow[f].says \in Statuses
    BY <1>1, <2>1 DEF Held, HeldBy
  <2>3. Synced(flow[f].copy, flow[f].says) \in Columns
    BY <2>2, WrittenColumns
  <2>4. flow[f].id = c /\ flow[f].copy.status # "in_review"
    BY <1>4, <2>1, <2>3
  <2> QED
    BY <2>1, <2>2, <2>4 DEF Columns
<1>9. CASE WebhookStore(f)
  <2>1. PICK cat \in Events : flow[f].says = {cat}
    BY <1>1, <1>9 DEF WebhookStore, Held, HeldBy
  <2>2. (CHOOSE k \in flow[f].says : TRUE) = cat
    BY <2>1
  <2>3. /\ flow[f].step = "store" /\ flow[f].kind = "webhook"
        /\ Update(f, RuleColumns(flow[f].copy, cat),
                  AtWith(f, "classify", RuleColumns(flow[f].copy, cat)))
    BY <1>9, <2>2 DEF WebhookStore
  <2>4. flow[f].copy \in Columns /\ ~flow[f].new
    BY <1>1, <2>3 DEF Held, HeldBy
  <2>5. RuleColumns(flow[f].copy, cat) \in Columns
    BY <2>4, WrittenColumns
  <2>6. flow[f].id = c /\ flow[f].copy.status # "in_review"
    BY <1>4, <2>3, <2>4, <2>5
  <2> QED
    BY <2>3, <2>4, <2>6 DEF Columns
<1>10. CASE Classify(f)
  <2> DEFINE text == flow[f].copy.reason \cup
                       (IF flow[f].kind = "classify" THEN flow[f].says ELSE heard[flow[f].id])
  <2>1. flow[f].step = "classify"
    BY <1>10 DEF Classify
  <2>2. PICK a \in Answered(text) :
          \E next : Update(f, [flow[f].copy EXCEPT !.cat = a.cat, !.urg = a.urg, !.label = TRUE],
                         next)
    BY <1>10 DEF Classify
  <2>3. flow[f].copy \in Columns /\ flow[f] \in FlowType /\ flow[f].id \in Ids
    BY <1>1, <2>1 DEF Held, HeldBy, Loaded, Typed, Stored
  <2>4. text \in SUBSET Categories
    BY <1>1, <2>3 DEF Columns, FlowType, Typed
  <2>5. a.cat \in Categories /\ a.urg \in Urgencies
    BY <2>4, AnswerType
  <2> DEFINE cols == [flow[f].copy EXCEPT !.cat = a.cat, !.urg = a.urg, !.label = TRUE]
  <2>6. cols \in Columns /\ cols.status = flow[f].copy.status
    BY <2>3, <2>5 DEF Columns
  <2> HIDE DEF cols
  <2>7. PICK next : Update(f, cols, next)
    BY <2>2 DEF cols
  <2> QED
    BY <1>4, <2>1, <2>6, <2>7
<1>11. CASE Decide(f)
  <2>1. PICK d \in Decisions : Update(f, [flow[f].copy EXCEPT !.status = d], Ended)
    BY <1>11 DEF Decide
  <2>2. flow[f].step = "decide" /\ flow[f].copy \in Columns
    BY <1>1, <1>11 DEF Decide, Held, HeldBy
  <2>3. /\ [flow[f].copy EXCEPT !.status = d] \in Columns
        /\ [flow[f].copy EXCEPT !.status = d].status = d
    BY <2>2, WrittenColumns DEF Columns
  <2> QED
    BY <1>1, <1>4, <2>1, <2>2, <2>3
<1> QED
  BY <1>5, <1>6, <1>7, <1>8, <1>9, <1>10, <1>11 DEF Step

\* Whoever puts a decided claim back in review had loaded a decided claim: the UPDATE leaves
\* out a status that the session found in review already.
THEOREM EventSparesDecision == Spec => DecisionUndoneKnowingly
<1>1. IInv /\ [Next]_vars =>
        \A c \in Stored :
          claims[c].cols.status \in Decisions /\ claims'[c].cols.status = "in_review" =>
            \E f \in Flows : /\ flow[f].id = c /\ flow[f].step = "store"
                             /\ flow[f].copy.status \in Decisions
  <2> SUFFICES ASSUME IInv, [Next]_vars, NEW c \in Stored,
                      claims[c].cols.status \in Decisions, claims'[c].cols.status = "in_review"
               PROVE  \E f \in Flows : /\ flow[f].id = c /\ flow[f].step = "store"
                                       /\ flow[f].copy.status \in Decisions
    OBVIOUS
  <2>1. claims' # claims
    BY WordAssumption
  <2>2. PICK f \in Flows : Step(f)
    BY <2>1 DEF Next, vars
  <2> QED
    BY <2>2, UndoneKnowingly
<1> QED
  BY <1>1, Invariance, PTL DEF DecisionUndoneKnowingly, Spec

\* A flow that nobody has overtaken drafts for the claim as it is, and so flags the draft of
\* a claim of high risk.
THEOREM RiskyFlagged == Spec => RiskyDraftFlagged
<1>1. IInv /\ [Next]_vars =>
        \A f \in Flows, c \in Stored :
          /\ flow[f].step = "draft" /\ flow[f].id = c /\ ~flow[f].late
          /\ flow'[f].step \in {"log", "done"} /\ claims'[c].draft = "plain"
          /\ claims'[c] # claims[c]
          => ~HighRisk(claims[c].cols)
  <2> SUFFICES ASSUME IInv, [Next]_vars, NEW f \in Flows, NEW c \in Stored,
                      flow[f].step = "draft", flow[f].id = c, ~flow[f].late,
                      flow'[f].step \in {"log", "done"}, claims'[c].draft = "plain",
                      claims'[c] # claims[c]
               PROVE  ~HighRisk(claims[c].cols)
    OBVIOUS
  <2>1. PICK g \in Flows : Step(g)
    BY DEF Next, vars
  <2>2. ~SyncInsert(g)
    BY <2>1, InsertKeeps DEF IInv
  <2>3. g = f
    BY <2>1, <2>2, StepGoes DEF Goes, Kept, OthersKept, IInv
  <2>4. Draft(f) \/ Abandon(f) \/ Delete(f)
    BY <2>1, <2>3 DEF Step, SyncLookup, SyncInsert, SyncUpdate, SyncRefresh, WebhookLoad,
         WebhookStore, ClassifyLoad, Classify, DraftLoad, LogTriage, DecideLoad, Decide, Load,
         Delete, Waiting
  <2>5. Draft(f)
    BY <2>4 DEF Abandon, Delete, Waiting
  <2>6. flow[f].copy = claims[c].cols /\ claims[c] \in ClaimType /\ c \in Ids
        /\ claims \in [Ids -> {NoClaim} \cup ClaimType]
    BY DEF IInv, Held, HeldBy, Typed, Stored
  <2>7. PICK flagged \in ReviewRequired(flow[f].copy) :
          claims' = [claims EXCEPT ![c].draft = IF flagged THEN "flagged" ELSE "plain"]
    BY <2>5 DEF Draft
  <2>8. claims'[c].draft = IF flagged THEN "flagged" ELSE "plain"
    BY <2>6, <2>7 DEF ClaimType
  <2>9. FALSE \in ReviewRequired(flow[f].copy)
    <3>1. ~flagged
      BY <2>8
    <3>2. ReviewRequired(flow[f].copy) \subseteq BOOLEAN
      BY DEF ReviewRequired
    <3> QED
      BY <2>7, <3>1, <3>2
  <2> QED
    BY <2>6, <2>9 DEF ReviewRequired
<1> QED
  BY <1>1, Invariance, PTL DEF RiskyDraftFlagged, Spec

\* What the triage has given a claim stays: the label of a classification survives every later
\* UPDATE, those of sessions whose copy is older included, and a draft is replaced only by
\* another one.
THEOREM TriageStays ==
  Spec => [][\A c \in Stored :
               /\ claims[c].cols.label => claims'[c].cols.label
               /\ claims[c].draft # "none" => claims'[c].draft # "none"]_vars
<1>1. IInv /\ [Next]_vars =>
        \A c \in Stored : /\ claims[c].cols.label => claims'[c].cols.label
                          /\ claims[c].draft # "none" => claims'[c].draft # "none"
  <2> SUFFICES ASSUME IInv, [Next]_vars, claims' # claims
               PROVE  \A c \in Stored : /\ claims[c].cols.label => claims'[c].cols.label
                                        /\ claims[c].draft # "none" => claims'[c].draft # "none"
    OBVIOUS
  <2>1. PICK f \in Flows : Step(f)
    BY DEF Next, vars
  <2>2. CASE SyncInsert(f)
    BY <2>2, InsertKeeps DEF IInv
  <2>3. CASE ~SyncInsert(f)
    BY <2>1, <2>3, StepGoes DEF Goes, Kept, IInv
  <2> QED
    BY <2>2, <2>3
<1> QED
  BY <1>1, Invariance, PTL DEF Spec
=============================================================================
