-------------------------- MODULE RateLimiterProofs --------------------------
(***************************************************************************)
(* The sliding window never lets a bucket exceed its limit, for every      *)
(* limit, window length and clock resolution.                              *)
(***************************************************************************)
EXTENDS RateLimiter, TLAPS, SequenceTheorems, FiniteSetTheorems

LEMMA LimitPositive == \A b \in Buckets : Limit(b) \in Nat \ {0}
BY LimitsAssumption DEF Limit

LEMMA WindowNat == Window \in Nat
BY LimitsAssumption DEF Window

LEMMA BucketOfRequest == \A q \in Request : Bucket(q) \in Buckets
BY DEF Bucket, Buckets, Request

\* The timestamps that survive the loop are a well-typed tail of the deque.
LEMMA KeptFacts ==
    ASSUME TypeOK, NEW b \in Buckets, NEW k \in 0..Len(events[b])
    PROVE  /\ Kept(b, k) \in Seq(Nat)
           /\ Len(Kept(b, k)) = Len(events[b]) - k
           /\ \A i \in 1..Len(Kept(b, k)) : Kept(b, k)[i] = events[b][k + i]
<1>1. events[b] \in Seq(Nat) /\ Len(events[b]) \in Nat
  BY DEF TypeOK
<1>2. /\ Kept(b, k) \in Seq(Nat)
      /\ Len(Kept(b, k)) = Len(events[b]) - k
  BY <1>1 DEF Kept
<1>3. ASSUME NEW i \in 1..Len(Kept(b, k))
      PROVE  Kept(b, k)[i] = events[b][k + i]
  <2>1. PICK n \in Nat : n = Len(events[b])
    BY <1>1
  <2>2. k + 1 \in 1..(n + 1) /\ i \in 1..(n - k)
    BY <1>2, <2>1
  <2>3. SubSeq(events[b], k + 1, n)[i] = events[b][(k + 1) + i - 1]
    BY <1>1, <2>1, <2>2, SubSeqProperties
  <2>4. (k + 1) + i - 1 = k + i
    BY <2>2
  <2> QED
    BY <2>1, <2>3, <2>4 DEF Kept
<1> QED
  BY <1>2, <1>3

\* Deque e is the tail of grants g behind the first d, which are no later than t.
IsTail(g, e, d, t) ==
    /\ Len(g) = d + Len(e)
    /\ \A i \in 1..Len(e) : e[i] = g[d + i]
    /\ \A i \in 1..d : g[i] <= t

\* The inductive invariant: what is no longer in a deque is expired.
WindowInv ==
    /\ TypeOK
    /\ WindowBound
    /\ \A b \in Buckets : \E d \in Nat : IsTail(granted[b], events[b], d, now - Window)

LEMMA InitInv == Init => WindowInv
<1> SUFFICES ASSUME Init PROVE WindowInv
  OBVIOUS
<1>1. TypeOK /\ WindowBound
  BY DEF Init, TypeOK, WindowBound
<1>2. \A b \in Buckets : IsTail(granted[b], events[b], 0, now - Window)
  BY DEF Init, IsTail
<1> QED
  BY <1>1, <1>2 DEF WindowInv

\* A tail stays a tail when it loses entries that are no later than t.
LEMMA DropTail ==
    ASSUME NEW g \in Seq(Nat), NEW e \in Seq(Nat), NEW d \in Nat, NEW t \in Int,
           IsTail(g, e, d, t), NEW k \in 0..Len(e),
           NEW kept \in Seq(Nat), Len(kept) = Len(e) - k,
           \A i \in 1..Len(kept) : kept[i] = e[k + i],
           \A i \in 1..k : e[i] <= t
    PROVE  IsTail(g, kept, d + k, t)
<1>1. PICK m \in Nat : m = Len(e)
  OBVIOUS
<1>2. Len(g) = (d + k) + Len(kept)
  BY <1>1 DEF IsTail
<1>3. ASSUME NEW i \in 1..Len(kept)
      PROVE  kept[i] = g[(d + k) + i]
  <2>1. k + i \in 1..m /\ d + (k + i) = (d + k) + i
    BY <1>1
  <2>2. kept[i] = e[k + i] /\ e[k + i] = g[d + (k + i)]
    BY <1>1, <2>1 DEF IsTail
  <2> QED
    BY <2>1, <2>2, Zenon
<1>4. ASSUME NEW i \in 1..(d + k)
      PROVE  g[i] <= t
  <2>1. CASE i \in 1..d
    BY <2>1 DEF IsTail
  <2>2. CASE i \notin 1..d
    <3>1. i - d \in 1..k /\ i - d \in 1..m /\ d + (i - d) = i
      BY <1>1, <2>2
    <3>2. e[i - d] = g[d + (i - d)] /\ e[i - d] <= t
      BY <1>1, <3>1 DEF IsTail
    <3> QED
      BY <3>1, <3>2, Zenon
  <2> QED
    BY <2>1, <2>2
<1> QED
  BY <1>2, <1>3, <1>4 DEF IsTail

\* A tail stays a tail when both sequences get the same entry.
LEMMA AppendTail ==
    ASSUME NEW g \in Seq(Nat), NEW e \in Seq(Nat), NEW d \in Nat, NEW t \in Int,
           IsTail(g, e, d, t), NEW x \in Nat
    PROVE  IsTail(Append(g, x), Append(e, x), d, t)
<1>1. PICK n \in Nat, m \in Nat : n = Len(g) /\ m = Len(e)
  OBVIOUS
<1>2. n = d + m
  BY <1>1 DEF IsTail
<1>3. /\ Len(Append(g, x)) = n + 1 /\ Append(g, x)[n + 1] = x
      /\ \A i \in 1..n : Append(g, x)[i] = g[i]
      /\ Len(Append(e, x)) = m + 1 /\ Append(e, x)[m + 1] = x
      /\ \A i \in 1..m : Append(e, x)[i] = e[i]
  BY <1>1, AppendProperties
<1>4. ASSUME NEW i \in 1..(m + 1)
      PROVE  Append(e, x)[i] = Append(g, x)[d + i]
  <2>1. CASE i = m + 1
    <3>1. d + i = n + 1
      BY <1>2, <2>1
    <3> QED
      BY <1>3, <2>1, <3>1, Zenon
  <2>2. CASE i # m + 1
    <3>1. i \in 1..m /\ d + i \in 1..n
      BY <1>2, <2>2
    <3>2. e[i] = g[d + i]
      BY <1>1, <3>1 DEF IsTail
    <3> QED
      BY <1>3, <3>1, <3>2, Zenon
  <2> QED
    BY <2>1, <2>2
<1>5. ASSUME NEW i \in 1..d
      PROVE  Append(g, x)[i] <= t
  <2>1. i \in 1..n
    BY <1>2
  <2>2. g[i] <= t
    BY DEF IsTail
  <2> QED
    BY <1>3, <2>1, <2>2
<1> QED
  <2>1. /\ Len(Append(g, x)) = d + Len(Append(e, x))
        /\ Len(Append(e, x)) = m + 1
    BY <1>2, <1>3
  <2>2. \A i \in 1..Len(Append(e, x)) : Append(e, x)[i] = Append(g, x)[d + i]
    BY <1>4, <2>1, Zenon
  <2>3. \A i \in 1..d : Append(g, x)[i] <= t
    BY <1>5
  <2> QED
    BY <2>1, <2>2, <2>3, Zenon DEF IsTail

\* What check keeps of the deque is a tail of the grants.
LEMMA KeptIsTail ==
    ASSUME WindowInv, NEW b \in Buckets, NEW k \in 0..Len(events[b]), Drops(b, k)
    PROVE  \E d \in Nat : IsTail(granted[b], Kept(b, k), d, now - Window)
<1>1. PICK d \in Nat : IsTail(granted[b], events[b], d, now - Window)
  BY DEF WindowInv
<1>2. /\ granted[b] \in Seq(Nat) /\ events[b] \in Seq(Nat)
      /\ now - Window \in Int /\ d + k \in Nat
  BY WindowNat DEF WindowInv, TypeOK
<1>3. \A i \in 1..k : events[b][i] <= now - Window
  BY DEF Drops, Expired
<1>4. /\ Kept(b, k) \in Seq(Nat)
      /\ Len(Kept(b, k)) = Len(events[b]) - k
      /\ \A i \in 1..Len(Kept(b, k)) : Kept(b, k)[i] = events[b][k + i]
  BY KeptFacts DEF WindowInv
<1>5. IsTail(granted[b], Kept(b, k), d + k, now - Window)
  BY <1>1, <1>2, <1>3, <1>4, DropTail
<1> QED
  BY <1>2, <1>5

LEMMA GrantInv ==
    ASSUME WindowInv, NEW b \in Buckets, Grant(b)
    PROVE  WindowInv'
<1>1. PICK k \in 0..Len(events[b]) :
         /\ Drops(b, k)
         /\ Room(b, k)
         /\ events' = [events EXCEPT ![b] = Append(Kept(b, k), now)]
  BY DEF Grant
<1>2. PICK kept \in Seq(Nat) : kept = Kept(b, k)
  BY KeptFacts DEF WindowInv
<1>3. /\ TypeOK /\ now \in Nat /\ granted[b] \in Seq(Nat)
      /\ Window \in Nat /\ now - Window \in Int
  BY WindowNat DEF WindowInv, TypeOK
<1>4. /\ granted' = [granted EXCEPT ![b] = Append(granted[b], now)]
      /\ events' = [events EXCEPT ![b] = Append(kept, now)]
      /\ retryAt' = [retryAt EXCEPT ![b] = 0]
      /\ now' = now /\ Window' = Window
  BY <1>1, <1>2 DEF Grant, Window
<1>5. TypeOK'
  BY <1>2, <1>3, <1>4 DEF TypeOK
<1>6. /\ granted'[b] = Append(granted[b], now) /\ events'[b] = Append(kept, now)
      /\ \A c \in Buckets \ {b} : granted'[c] = granted[c] /\ events'[c] = events[c]
  BY <1>3, <1>4 DEF TypeOK
<1>7. PICK d \in Nat : IsTail(granted[b], kept, d, now - Window)
  BY <1>1, <1>2, KeptIsTail
<1>8. ASSUME NEW c \in Buckets
      PROVE  \E dc \in Nat : IsTail(granted'[c], events'[c], dc, now' - Window')
  <2>1. CASE c # b
    <3>1. PICK dc \in Nat : IsTail(granted[c], events[c], dc, now - Window)
      BY DEF WindowInv
    <3> QED
      BY <1>4, <1>6, <2>1, <3>1, Zenon
  <2>2. CASE c = b
    <3>1. IsTail(Append(granted[b], now), Append(kept, now), d, now - Window)
      BY <1>2, <1>3, <1>7, AppendTail
    <3> QED
      BY <1>4, <1>6, <2>2, <3>1, Zenon
  <2> QED
    BY <2>1, <2>2
<1>9. PICK n \in Nat : n = Len(granted[b])
  BY <1>3
<1>10. /\ Len(granted'[b]) = n + 1 /\ granted'[b][n + 1] = now
       /\ \A i \in 1..n : granted'[b][i] = granted[b][i]
  BY <1>3, <1>6, <1>9, AppendProperties
\* The new grant comes a window after the grant its bucket's limit before it.
<1>11. ASSUME NEW i \in 1..n, n + 1 >= i + Limit(b)
       PROVE  now - granted[b][i] >= Window
  <2>1. PICK m \in Nat, lim \in Nat : m = Len(kept) /\ lim = Limit(b)
    BY <1>2, LimitPositive
  <2>2. m < lim /\ n = d + m /\ n + 1 >= i + lim
    BY <1>1, <1>2, <1>7, <1>9, <1>11, <2>1 DEF Room, IsTail
  <2>3. i \in 1..d
    BY <2>2
  <2>4. granted[b][i] \in Nat /\ granted[b][i] <= now - Window
    BY <1>3, <1>7, <1>9, <2>3 DEF IsTail
  <2> QED
    BY <1>3, <2>4
<1>12. WindowBound'
  <2>1. SUFFICES ASSUME NEW c \in Buckets,
                        NEW i \in 1..Len(granted'[c]), NEW j \in 1..Len(granted'[c]),
                        j >= i + Limit(c)
                 PROVE  granted'[c][j] - granted'[c][i] >= Window
    BY DEF WindowBound, Limit, Window
  <2>2. CASE c # b
    BY <1>6, <2>1, <2>2 DEF WindowInv, WindowBound
  <2>3. CASE c = b /\ j \in 1..n
    <3>1. i \in 1..n
      BY <1>10, <2>1, <2>3, LimitPositive
    <3> QED
      BY <1>9, <1>10, <2>1, <2>3, <3>1 DEF WindowInv, WindowBound
  <2>4. CASE c = b /\ j = n + 1
    <3>1. i \in 1..n
      BY <1>10, <2>1, <2>4, LimitPositive
    <3> QED
      BY <1>10, <1>11, <2>1, <2>4, <3>1
  <2> QED
    BY <1>10, <2>1, <2>2, <2>3, <2>4
<1> QED
  BY <1>5, <1>8, <1>12 DEF WindowInv

LEMMA RefuseInv ==
    ASSUME WindowInv, NEW b \in Buckets, Refuse(b)
    PROVE  WindowInv'
<1>1. PICK k \in 0..Len(events[b]) :
         /\ Drops(b, k)
         /\ ~ Room(b, k)
         /\ events' = [events EXCEPT ![b] = Kept(b, k)]
         /\ retryAt' = [retryAt EXCEPT ![b] = now + Tick * RetryAfter(Kept(b, k)[1])]
  BY DEF Refuse
<1>2. /\ Kept(b, k) \in Seq(Nat) /\ Kept(b, k)[1] \in Nat
      /\ Len(Kept(b, k)) \in Nat /\ now \in Nat
  <2>1. Kept(b, k) \in Seq(Nat) /\ Len(Kept(b, k)) \in Nat /\ now \in Nat
    <3>1. TypeOK
      BY DEF WindowInv
    <3>2. Kept(b, k) \in Seq(Nat)
      BY <3>1, KeptFacts
    <3> QED
      BY <3>1, <3>2 DEF TypeOK
  <2>2. Len(Kept(b, k)) >= 1
    BY <1>1, <2>1, LimitPositive DEF Room
  <2> QED
    BY <2>1, <2>2
<1>3. RetryAfter(Kept(b, k)[1]) \in Nat
  <2> DEFINE seconds == (Window - (now - Kept(b, k)[1]) + Tick - 1) \div Tick
  <2>1. seconds \in Int
    BY <1>2, WindowNat, LimitsAssumption
  <2> QED
    BY <2>1 DEF RetryAfter
<1>4. TypeOK'
  <2>1. now + Tick * RetryAfter(Kept(b, k)[1]) \in Nat
    BY <1>2, <1>3, LimitsAssumption
  <2> QED
    BY <1>1, <1>2, <2>1 DEF Refuse, WindowInv, TypeOK
<1>5. WindowBound'
  BY DEF Refuse, WindowInv, WindowBound, Limit, Window
<1>6. ASSUME NEW c \in Buckets
      PROVE  \E d \in Nat : IsTail(granted'[c], events'[c], d, now' - Window')
  <2>1. /\ granted'[c] = granted[c] /\ now' = now /\ Window' = Window
        /\ events'[c] = IF c = b THEN Kept(b, k) ELSE events[c]
    BY <1>1 DEF Refuse, WindowInv, TypeOK, Window
  <2>2. CASE c # b
    <3>1. PICK d \in Nat : IsTail(granted[c], events[c], d, now - Window)
      BY DEF WindowInv
    <3> QED
      BY <2>1, <2>2, <3>1, Zenon
  <2>3. CASE c = b
    <3>1. PICK d \in Nat : IsTail(granted[b], Kept(b, k), d, now - Window)
      BY <1>1, KeptIsTail
    <3> QED
      BY <2>1, <2>3, <3>1, Zenon
  <2> QED
    BY <2>2, <2>3
<1> QED
  BY <1>4, <1>5, <1>6 DEF WindowInv

LEMMA NextInv ==
    ASSUME WindowInv, [Next]_vars
    PROVE  WindowInv'
<1>1. CASE \E q \in Request : Handle(q)
  BY <1>1, BucketOfRequest, GrantInv, RefuseInv DEF Handle
<1>2. CASE Advance
  <2>1. now' = now + 1 /\ UNCHANGED <<events, granted, retryAt>>
    BY <1>2 DEF Advance
  <2>2. TypeOK' /\ WindowBound'
    BY <2>1 DEF WindowInv, TypeOK, WindowBound, Limit, Window
  <2>3. ASSUME NEW b \in Buckets
        PROVE  \E d \in Nat : IsTail(granted'[b], events'[b], d, now' - Window')
    <3>1. PICK d \in Nat : IsTail(granted[b], events[b], d, now - Window)
      BY DEF WindowInv
    <3>2. granted[b] \in Seq(Nat) /\ now \in Nat
      BY DEF WindowInv, TypeOK
    <3>3. PICK n \in Nat, m \in Nat : n = Len(granted[b]) /\ m = Len(events[b]) /\ n = d + m
      BY <3>1, <3>2 DEF IsTail, WindowInv, TypeOK
    <3>4. \A i \in 1..d : granted[b][i] \in Nat /\ granted[b][i] <= now - Window
      BY <3>1, <3>2, <3>3 DEF IsTail
    <3>5. \A i \in 1..d : granted[b][i] <= (now + 1) - Window
      BY <3>2, <3>4, WindowNat
    <3>6. IsTail(granted[b], events[b], d, (now + 1) - Window)
      BY <3>1, <3>5 DEF IsTail
    <3>7. Window' = Window
      BY DEF Window
    <3> QED
      BY <2>1, <3>6, <3>7, Zenon
  <2> QED
    BY <2>2, <2>3 DEF WindowInv
<1>3. CASE UNCHANGED vars
  BY <1>3 DEF vars, WindowInv, TypeOK, WindowBound, Limit, Window
<1> QED
  BY <1>1, <1>2, <1>3 DEF Next

\* No caller ever gets more than limit requests through in any window of
\* WINDOW_SECONDS, whatever the limits, the window and the clock resolution:
\* what check drops from its deque can no longer matter.
THEOREM WindowRespected == Spec => []WindowBound
<1>1. Init => WindowInv
  BY InitInv
<1>2. WindowInv /\ [Next]_vars => WindowInv'
  BY NextInv
<1>3. WindowInv => WindowBound
  BY DEF WindowInv
<1> QED
  BY <1>1, <1>2, <1>3, PTL DEF Spec

-----------------------------------------------------------------------------
(* What a refusal says.                                                    *)

\* Waiting RetryAfter seconds is waiting until the oldest grant has left the
\* window, and less than a second longer.
LEMMA RoundedUp ==
    ASSUME NEW x \in Nat \ {0}, NEW d \in Nat \ {0}
    PROVE  LET s == (x + d - 1) \div d IN s \in Nat \ {0} /\ x <= d * s /\ d * s <= x + d - 1
<1> DEFINE n == x + d - 1
           s == n \div d
<1>1. n \in Nat /\ n >= d
  OBVIOUS
<1> HIDE DEF n
<1>2. s \in Int /\ n = (d * s) + (n % d) /\ n % d \in 0 .. d - 1
  BY <1>1
<1> HIDE DEF s
<1>3. PICK r \in 0 .. d - 1 : n = d * s + r
  BY <1>2
<1>4. d * s <= n /\ n - d + 1 <= d * s
  BY <1>1, <1>2, <1>3
<1>5. s > 0
  <2>1. d * s > 0
    BY <1>1, <1>2, <1>4
  <2>2. s <= 0 => d * s <= 0
    BY <1>2
  <2> QED
    BY <1>2, <2>1, <2>2
<1> QED
  BY <1>2, <1>4, <1>5 DEF n, s

\* A deque never holds more than the limit, nothing in it is from the future,
\* and the last refusal waits for its oldest entry.
Waits(b) ==
    /\ Len(events[b]) >= 1
    /\ retryAt[b] - events[b][1] >= Window
    /\ retryAt[b] - events[b][1] < Window + Tick
DequeInv(b) ==
    /\ Len(events[b]) <= Limit(b)
    /\ \A i \in 1 .. Len(events[b]) : events[b][i] <= now
    /\ retryAt[b] # 0 => Waits(b)
RetryInv == WindowInv /\ \A b \in Buckets : DequeInv(b)

LEMMA GrantKeepsDeque ==
    ASSUME RetryInv, NEW b \in Buckets, Grant(b)
    PROVE  DequeInv(b)'
<1>1. PICK k \in 0..Len(events[b]) :
         /\ Room(b, k)
         /\ events' = [events EXCEPT ![b] = Append(Kept(b, k), now)]
  BY DEF Grant
<1>2. TypeOK /\ WindowInv
  BY DEF RetryInv, WindowInv
<1>3. PICK kept \in Seq(Nat), m \in Nat :
         /\ kept = Kept(b, k) /\ m = Len(kept) /\ m = Len(events[b]) - k
         /\ \A i \in 1 .. m : kept[i] = events[b][k + i]
  <2>1. Kept(b, k) \in Seq(Nat) /\ Len(Kept(b, k)) \in Nat
    BY <1>2, KeptFacts
  <2> QED
    BY <1>2, <2>1, KeptFacts
<1>4. PICK n \in Nat : n = Len(events[b])
  BY <1>2 DEF TypeOK
<1>5. \A i \in 1 .. m : kept[i] <= now
  <2>1. \A i \in 1 .. m : k + i \in 1 .. n
    BY <1>3, <1>4
  <2> QED
    BY <1>3, <1>4, <2>1 DEF RetryInv, DequeInv
<1>6. PICK e : e = events'[b]
  OBVIOUS
<1>7. e = Append(kept, now) /\ now' = now /\ now \in Nat
  BY <1>1, <1>2, <1>3, <1>6 DEF TypeOK, Grant
<1>8. /\ Len(e) = m + 1 /\ e[m + 1] = now
      /\ \A i \in 1 .. m : e[i] = kept[i]
  <2>1. kept \in Seq(Nat) /\ now \in Nat /\ m = Len(kept)
    BY <1>3, <1>7
  <2> QED
    BY <1>7, <2>1, AppendProperties
<1>9. Len(e) <= Limit(b)
  <2>1. PICK lim \in Nat : lim = Limit(b)
    BY LimitPositive
  <2>2. m < lim
    BY <1>1, <1>3, <2>1 DEF Room
  <2> QED
    BY <1>8, <2>1, <2>2
<1>10. \A i \in 1 .. Len(e) : e[i] <= now
  <2>1. \A i \in 1 .. m + 1 : i \in 1 .. m \/ i = m + 1
    BY <1>3
  <2> QED
    BY <1>5, <1>7, <1>8, <2>1
<1>11. retryAt'[b] = 0
  BY <1>2 DEF Grant, TypeOK
<1>12. Limit(b)' = Limit(b)
  BY DEF Limit
<1> QED
  BY <1>6, <1>7, <1>9, <1>10, <1>11, <1>12 DEF DequeInv

\* What a refusal keeps: a full deque whose oldest entry is in the window.
LEMMA RefuseKeeps ==
    ASSUME RetryInv, NEW b \in Buckets, Refuse(b)
    PROVE  \E kept \in Seq(Nat) :
              /\ events' = [events EXCEPT ![b] = kept]
              /\ retryAt' = [retryAt EXCEPT ![b] = now + Tick * RetryAfter(kept[1])]
              /\ Len(kept) = Limit(b)
              /\ \A i \in 1 .. Len(kept) : kept[i] <= now
              /\ kept[1] > now - Window
              /\ \E d \in Nat : IsTail(granted[b], kept, d, now - Window)
<1>1. PICK k \in 0..Len(events[b]) :
         /\ Drops(b, k) /\ ~ Room(b, k)
         /\ events' = [events EXCEPT ![b] = Kept(b, k)]
         /\ retryAt' = [retryAt EXCEPT ![b] = now + Tick * RetryAfter(Kept(b, k)[1])]
  BY DEF Refuse
<1>2. TypeOK /\ WindowInv /\ DequeInv(b)
  BY DEF RetryInv, WindowInv
<1>3. PICK kept \in Seq(Nat), m \in Nat :
         /\ kept = Kept(b, k) /\ m = Len(kept) /\ m = Len(events[b]) - k
         /\ \A i \in 1 .. m : kept[i] = events[b][k + i]
  <2>1. Kept(b, k) \in Seq(Nat) /\ Len(Kept(b, k)) \in Nat
    BY <1>2, KeptFacts
  <2> QED
    BY <1>2, <2>1, KeptFacts
<1>4. PICK n \in Nat, lim \in Nat \ {0} : n = Len(events[b]) /\ lim = Limit(b)
  BY <1>2, LimitPositive DEF TypeOK
<1>5. m = lim
  BY <1>1, <1>2, <1>3, <1>4 DEF Room, DequeInv
<1>6. \A i \in 1 .. m : kept[i] <= now
  <2>1. \A i \in 1 .. m : k + i \in 1 .. n
    BY <1>3, <1>4
  <2> QED
    BY <1>2, <1>3, <1>4, <2>1 DEF DequeInv
<1>7. kept[1] > now - Window
  <2>1. k < n /\ k + 1 \in 1 .. n /\ 1 \in 1 .. m
    BY <1>3, <1>4, <1>5
  <2>2. kept[1] = events[b][k + 1] /\ ~ Expired(events[b][k + 1])
    BY <1>1, <1>3, <1>4, <2>1 DEF Drops
  <2>3. kept[1] \in Nat /\ now \in Nat
    BY <1>2, <1>3, <2>1 DEF TypeOK
  <2> QED
    BY <2>2, <2>3, WindowNat DEF Expired
<1>8. \E d \in Nat : IsTail(granted[b], kept, d, now - Window)
  BY <1>1, <1>2, <1>3, KeptIsTail
<1> QED
  BY <1>1, <1>3, <1>4, <1>5, <1>6, <1>7, <1>8

LEMMA RefuseKeepsDeque ==
    ASSUME RetryInv, NEW b \in Buckets, Refuse(b)
    PROVE  DequeInv(b)'
<1>1. PICK kept \in Seq(Nat) :
         /\ events' = [events EXCEPT ![b] = kept]
         /\ retryAt' = [retryAt EXCEPT ![b] = now + Tick * RetryAfter(kept[1])]
         /\ Len(kept) = Limit(b)
         /\ \A i \in 1 .. Len(kept) : kept[i] <= now
         /\ kept[1] > now - Window
  BY RefuseKeeps
<1>2. TypeOK
  BY DEF RetryInv, WindowInv
<1>3. events'[b] = kept /\ retryAt'[b] = now + Tick * RetryAfter(kept[1]) /\ now' = now
  BY <1>1, <1>2 DEF TypeOK, Refuse
<1>4. Len(kept) >= 1 /\ kept[1] \in Nat /\ now \in Nat /\ kept[1] <= now
  <2>1. Len(kept) \in Nat \ {0}
    BY <1>1, LimitPositive
  <2> QED
    BY <1>1, <1>2, <2>1 DEF TypeOK
<1> DEFINE x == Window - (now - kept[1])
           s == (x + Tick - 1) \div Tick
<1>5. x \in Nat \ {0} /\ Tick \in Nat \ {0} /\ Window \in Nat
  BY <1>1, <1>4, WindowNat, LimitsAssumption
<1>6. s \in Nat \ {0} /\ x <= Tick * s /\ Tick * s <= x + Tick - 1
  <2> HIDE DEF x
  <2> QED
    BY <1>5, RoundedUp
<1>7. RetryAfter(kept[1]) = s
  BY <1>6 DEF RetryAfter
<1> HIDE DEF s
<1>8. PICK wait \in Nat : wait = Tick * s
  BY <1>5, <1>6
<1>9. retryAt'[b] - kept[1] >= Window /\ retryAt'[b] - kept[1] < Window + Tick
  BY <1>3, <1>4, <1>5, <1>6, <1>7, <1>8
<1>10. Limit(b)' = Limit(b) /\ Window' = Window
  BY DEF Limit, Window
<1>11. Len(kept) <= Limit(b)
  BY <1>1, LimitPositive
<1> QED
  BY <1>1, <1>3, <1>4, <1>9, <1>10, <1>11 DEF DequeInv, Waits

LEMMA RetryInvNext ==
    ASSUME RetryInv, [Next]_vars
    PROVE  RetryInv'
<1>1. WindowInv' /\ TypeOK
  BY NextInv DEF RetryInv, WindowInv
<1>2. ASSUME NEW c \in Buckets, events'[c] = events[c], retryAt'[c] = retryAt[c],
             now' \in Nat, now' >= now
      PROVE  DequeInv(c)'
  <2>1. Limit(c)' = Limit(c) /\ Window' = Window
    BY DEF Limit, Window
  <2>2. \A i \in 1 .. Len(events[c]) : events[c][i] \in Nat /\ events[c][i] <= now
    BY <1>1, <1>2 DEF RetryInv, DequeInv, TypeOK
  <2>3. now \in Nat
    BY <1>1 DEF TypeOK
  <2>4. \A i \in 1 .. Len(events[c]) : events[c][i] <= now'
    BY <1>2, <2>2, <2>3
  <2> QED
    BY <1>2, <2>1, <2>4 DEF RetryInv, DequeInv, Waits
<1>3. ASSUME NEW b \in Buckets, Grant(b) \/ Refuse(b)
      PROVE  \A c \in Buckets : DequeInv(c)'
  <2>1. DequeInv(b)'
    BY <1>3, GrantKeepsDeque, RefuseKeepsDeque
  <2>2. /\ now' \in Nat /\ now' >= now
        /\ \A c \in Buckets \ {b} : events'[c] = events[c] /\ retryAt'[c] = retryAt[c]
    BY <1>1, <1>3 DEF Grant, Refuse, TypeOK
  <2> QED
    BY <1>2, <2>1, <2>2
<1>4. CASE Advance \/ UNCHANGED vars
  <2>1. now' \in Nat /\ now' >= now /\ UNCHANGED <<events, retryAt>>
    BY <1>1, <1>4 DEF Advance, vars, TypeOK
  <2>2. \A c \in Buckets : DequeInv(c)'
    BY <1>2, <2>1
  <2> QED
    BY <1>1, <2>2 DEF RetryInv
<1>5. CASE \E q \in Request : Handle(q)
  <2>1. \A c \in Buckets : DequeInv(c)'
    BY <1>3, <1>5, BucketOfRequest DEF Handle
  <2> QED
    BY <1>1, <2>1 DEF RetryInv
<1> QED
  BY <1>4, <1>5 DEF Next

LEMMA RetryInvariant == Spec => []RetryInv
<1>1. Init => RetryInv
  <2> SUFFICES ASSUME Init PROVE RetryInv
    OBVIOUS
  <2>1. \A b \in Buckets : Limit(b) \in Nat /\ Len(<<>>) = 0
    BY LimitPositive
  <2>2. \A b \in Buckets : DequeInv(b)
    BY <2>1 DEF Init, DequeInv
  <2> QED
    BY <2>2, InitInv DEF RetryInv
<1>2. RetryInv /\ [Next]_vars => RetryInv'
  BY RetryInvNext
<1> QED
  BY <1>1, <1>2, PTL DEF Spec

\* Once the time a 429 told to wait for has come the bucket has room, unless
\* other requests got through; and it is less than a second too long: the
\* ceiling in SlidingWindowRateLimiter.check is right for every clock.
THEOREM RetryAfterIsHonest == Spec => []RetryAfterHonest
<1>1. ASSUME RetryInv PROVE RetryAfterHonest
  <2>1. SUFFICES ASSUME NEW b \in Buckets, retryAt[b] # 0, now >= retryAt[b]
                 PROVE  Cardinality(Active(b)) < Limit(b)
    BY <1>1 DEF RetryAfterHonest, RetryInv, DequeInv, Waits
  <2>2. PICK n \in Nat, lim \in Nat : n = Len(events[b]) /\ lim = Limit(b) /\ n >= 1 /\ n <= lim
    BY <1>1, <2>1, LimitPositive DEF RetryInv, DequeInv, Waits, WindowInv, TypeOK
  <2>3. Expired(events[b][1])
    <3>1. now \in Nat /\ events[b][1] \in Nat /\ retryAt[b] \in Nat
      BY <1>1, <2>2 DEF RetryInv, WindowInv, TypeOK
    <3>2. retryAt[b] - events[b][1] >= Window
      BY <1>1, <2>1 DEF RetryInv, DequeInv, Waits
    <3> QED
      BY <2>1, <3>1, <3>2, WindowNat DEF Expired
  <2>4. Active(b) \in SUBSET (2 .. n)
    BY <2>2, <2>3 DEF Active
  <2>5. IsFiniteSet(2 .. n) /\ Cardinality(2 .. n) = n - 1
    <3>1. 2 \in Int /\ n \in Int
      BY <2>2
    <3>2. /\ IsFiniteSet(2 .. n)
          /\ Cardinality(2 .. n) = IF 2 > n THEN 0 ELSE n - 2 + 1
      BY <3>1, FS_Interval, Zenon
    <3> QED
      BY <2>2, <3>2
  <2>6. Cardinality(Active(b)) <= n - 1 /\ Cardinality(Active(b)) \in Nat
    BY <2>4, <2>5, FS_Subset, FS_CardinalityType
  <2> QED
    BY <2>2, <2>6
<1> QED
  BY <1>1, RetryInvariant, PTL

\* Nobody is refused for a timestamp that has left the window: a 429 means the
\* window that ends now holds limit grants.
THEOREM OnlyFullBucketsRefuse == Spec => RefusedOnlyWhenFull
<1>1. ASSUME RetryInv, NEW b \in Buckets, Refuse(b)
      PROVE  LET n == Len(granted[b])
             IN  n >= Limit(b) /\ granted[b][n + 1 - Limit(b)] > now - Window
  <2>1. PICK kept \in Seq(Nat), d \in Nat :
           /\ Len(kept) = Limit(b) /\ kept[1] > now - Window
           /\ IsTail(granted[b], kept, d, now - Window)
    BY <1>1, RefuseKeeps
  <2>2. PICK lim \in Nat \ {0}, n \in Nat : lim = Limit(b) /\ n = Len(granted[b])
    BY <1>1, LimitPositive DEF RetryInv, WindowInv, TypeOK
  <2>3. n = d + lim /\ 1 \in 1 .. Len(kept)
    BY <2>1, <2>2 DEF IsTail
  <2>4. kept[1] = granted[b][d + 1] /\ d + 1 = n + 1 - lim
    BY <2>1, <2>3 DEF IsTail
  <2> QED
    BY <2>1, <2>2, <2>3, <2>4
<1>2. RetryInv => \A b \in Buckets : Refuse(b) =>
          LET n == Len(granted[b])
          IN  n >= Limit(b) /\ granted[b][n + 1 - Limit(b)] > now - Window
  BY <1>1
<1> QED
  BY <1>2, RetryInvariant, PTL DEF RefusedOnlyWhenFull
=============================================================================
