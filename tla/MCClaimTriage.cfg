SPECIFICATION Spec
CONSTANTS
  Flows = {f1, f2, f3}
  Kinds = {"sync", "webhook", "decide", "classify", "draft", "delete"}
  Statuses <- CancelledThenRefunded
  Product = {}
  Events = {"cancellation"}
  Answers <- OddAnswers
  Decisions = {"done"}
SYMMETRY FlowSymmetry
INVARIANTS TypeOK TriageAccounted OneClaimPerSignal
PROPERTIES RiskyDraftFlagged DecisionUndoneKnowingly
CHECK_DEADLOCK FALSE
