\* One loss, and an operator who keeps asking for a retry.
CONSTANTS
  first = first  again = again  other = other
  cancel = cancel  delay = delay
  Requests = {first, again}
  Events = {cancel}
  EventOf <- Twice
  MaxWebhookRetries = 3
  MaxJobRetries = 3
  MaxLost = 1
SPECIFICATION OperatorSpec
PROPERTY RetryDrainsPending
CHECK_DEADLOCK FALSE
