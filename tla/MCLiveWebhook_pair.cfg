\* Two events, one of them delivered twice; nothing is lost.
CONSTANTS
  first = first  again = again  other = other
  cancel = cancel  delay = delay
  Requests = {first, again, other}
  Events = {cancel, delay}
  EventOf <- TwiceAndOnce
  MaxWebhookRetries = 2
  MaxJobRetries = 2
  MaxLost = 0
SPECIFICATION Spec
INVARIANT AcceptedOnce
INVARIANT JobAndDeliveryAgree
CHECK_DEADLOCK FALSE
