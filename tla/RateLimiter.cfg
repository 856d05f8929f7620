CONSTANTS
  UserIds = {u1}
  GuestTokens = {t1}
  Addresses = {ip1}
  Nothing = Nothing
  Invalid = Invalid
  AuthenticatedLimit = 2
  AnonymousLimit = 1
  WindowSeconds = 2
  Tick = 2
  Horizon = 6
SPECIFICATION Spec
INVARIANTS
  WindowBound
  RetryAfterHonest
PROPERTY RefusedOnlyWhenFull
