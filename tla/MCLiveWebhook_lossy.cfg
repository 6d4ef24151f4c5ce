\* One event delivered twice, the real retry limits, one loss anywhere.
CONSTANTS
  first = first  again = again  other = other
  cancel = cancel  delay = delay
  Requests = {first, again}
  Events = {cancel}
  EventOf <- Twice
  MaxWebhookRetries = 3
  MaxJobRetries = 3
  MaxLost = 1
SPECIFICATION FairSpec
INVARIANT TypeOK
INVARIANT ApplicationsAccounted
INVARIANT RepeatedOnlyByRetry
PROPERTY AcceptedSettles
CHECK_DEADLOCK FALSE
