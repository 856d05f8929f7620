----------------------------- MODULE RateLimiter -----------------------------
(***************************************************************************)
(* The HTTP rate limiter of backend-python/app/middleware/rate_limit.py:   *)
(* one process, a deque of grant times per caller bucket.                  *)
(*                                                                         *)
(* SlidingWindowRateLimiter.check suspends nowhere between reading the     *)
(* clock and appending, so a request is one step.  Time is counted in      *)
(* ticks, Tick of them to the second.  granted and retryAt are history.    *)
(***************************************************************************)
EXTENDS Integers, Sequences, FiniteSets

CONSTANTS
    UserIds, GuestTokens, Addresses,   \* what a request may identify itself by
    Nothing, Invalid,                  \* no credential; a bearer that fails to decode
    AuthenticatedLimit,                \* rate_limit_authenticated_per_minute
    AnonymousLimit,                    \* rate_limit_anonymous_per_minute
    WindowSeconds,                     \* WINDOW_SECONDS
    Tick,                              \* clock ticks in a second
    Horizon                            \* bound: the clock stops here

ASSUME LimitsAssumption ==
    /\ AuthenticatedLimit \in Nat \ {0}
    /\ AnonymousLimit \in Nat \ {0}
    /\ WindowSeconds \in Nat \ {0}
    /\ Tick \in Nat \ {0}
    /\ Horizon \in Nat

Request == [bearer : UserIds \cup {Nothing, Invalid},
            guest  : GuestTokens \cup {Nothing},
            ip     : Addresses]
Buckets == ({"auth"} \X UserIds) \cup ({"guest"} \X GuestTokens)
           \cup ({"ip"} \X Addresses)

VARIABLES
    now,       \* time.monotonic()
    events,    \* self._events: grant times still in the deque, oldest first
    granted,   \* every grant time of the bucket, oldest first
    retryAt    \* the time the last 429 since the last grant told to wait for

vars == <<now, events, granted, retryAt>>

Window == WindowSeconds * Tick

\* resolve_rate_limit_identity: a valid token, else the guest token, else the ip.
Bucket(q) ==
    IF q.bearer \in UserIds THEN <<"auth", q.bearer>>
    ELSE IF q.guest \in GuestTokens THEN <<"guest", q.guest>>
    ELSE <<"ip", q.ip>>

Limit(b) == IF b[1] = "auth" THEN AuthenticatedLimit ELSE AnonymousLimit

TypeOK ==
    /\ now \in Nat
    /\ events \in [Buckets -> Seq(Nat)]
    /\ granted \in [Buckets -> Seq(Nat)]
    /\ retryAt \in [Buckets -> Nat]

Init ==
    /\ now = 0
    /\ events = [b \in Buckets |-> <<>>]
    /\ granted = [b \in Buckets |-> <<>>]
    /\ retryAt = [b \in Buckets |-> 0]

\* mutant: the window is closed at its old end.
ExpiredLate(t) == t < now - Window
\* A timestamp the loop drops.
Expired(t) == t <= now - Window

\* The loop drops the first k timestamps of bucket b.
Drops(b, k) ==
    /\ \A i \in 1..k : Expired(events[b][i])
    /\ k < Len(events[b]) => ~ Expired(events[b][k + 1])
Kept(b, k) == SubSeq(events[b], k + 1, Len(events[b]))

\* mutant: the seconds are rounded down.
RetryAfterDown(oldest) == (Window - (now - oldest)) \div Tick
\* max(1, ceil(WINDOW_SECONDS - (now - oldest))), in seconds.
RetryAfter(oldest) ==
    LET seconds == (Window - (now - oldest) + Tick - 1) \div Tick
    IN  IF seconds < 1 THEN 1 ELSE seconds

\* mutant: the bucket is found full one request late.
RoomAndOne(b, k) == Len(Kept(b, k)) <= Limit(b)
Room(b, k) == Len(Kept(b, k)) < Limit(b)

\* check under the limit: the request is recorded and passed on.
Grant(b) ==
    /\ \E k \in 0..Len(events[b]) :
          /\ Drops(b, k)
          /\ Room(b, k)
          /\ events' = [events EXCEPT ![b] = Append(Kept(b, k), now)]
    /\ granted' = [granted EXCEPT ![b] = Append(@, now)]
    /\ retryAt' = [retryAt EXCEPT ![b] = 0]
    /\ UNCHANGED now

\* check at the limit: 429 with Retry-After.
Refuse(b) ==
    /\ \E k \in 0..Len(events[b]) :
          /\ Drops(b, k)
          /\ ~ Room(b, k)
          /\ events' = [events EXCEPT ![b] = Kept(b, k)]
          /\ retryAt' = [retryAt EXCEPT ![b] =
                            now + Tick * RetryAfter(Kept(b, k)[1])]
    /\ UNCHANGED <<now, granted>>

\* rate_limit_middleware, on a path that is not exempt.
Handle(q) == Grant(Bucket(q)) \/ Refuse(Bucket(q))

Advance == now < Horizon /\ now' = now + 1 /\ UNCHANGED <<events, granted, retryAt>>

Next == Advance \/ \E q \in Request : Handle(q)

Spec == Init /\ [][Next]_vars

-----------------------------------------------------------------------------
(* Properties.                                                             *)

\* In no window of WINDOW_SECONDS, wherever it begins, does a bucket get more
\* than its limit: request number n + limit comes a window after number n.
WindowBound ==
    \A b \in Buckets : \A i, j \in 1..Len(granted[b]) :
        j >= i + Limit(b) => granted[b][j] - granted[b][i] >= Window

\* A request is refused only when the window that ends with it really holds
\* limit grants: expired timestamps never count against a caller.
RefusedOnlyWhenFull ==
    [][\A b \in Buckets : Refuse(b) =>
          LET n == Len(granted[b])
          IN  n >= Limit(b) /\ granted[b][n + 1 - Limit(b)] > now - Window]_vars

\* Retry-After tells the truth: once that time has come the bucket has room,
\* unless other requests got through meanwhile; and it never makes a caller
\* wait a second more than needed.
Active(b) == {i \in 1..Len(events[b]) : ~ Expired(events[b][i])}
RetryAfterHonest ==
    \A b \in Buckets : retryAt[b] # 0 =>
        /\ now >= retryAt[b] => Cardinality(Active(b)) < Limit(b)
        /\ retryAt[b] - events[b][1] < Window + Tick

=============================================================================
