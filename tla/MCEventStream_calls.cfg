\* Two requests at a time on one webhook with two subscriptions.
CONSTANTS
  t1 = t1
  t2 = t2
  h1 = h1
  Threads = {t1, t2}
  HookOf <- OneWebhook
  Interests <- AnyInterest
  MaxRetries = 1
  MaxEvents = 1
  MaxCalls = 5
  MaxMishaps = 1
SPECIFICATION Spec
SYMMETRY ThreadSymmetry
INVARIANTS
  TypeOK
  SentOncePerWebhook
  CountersAddUp
  FanOutGoesThrough
  OverlapEndsWithDelivery
\* The bounds stop every call in the end.
CHECK_DEADLOCK FALSE
