------------------------- MODULE StreamConsumerProofs -------------------------
(***************************************************************************)
(* Proofs about the chat page as the consumer of answers, for any number   *)
(* of turns, fetches and refusals.                                         *)
(*                                                                         *)
(* As long as no retry was made beside a running request, at most one      *)
(* fetch runs, the last one, and while it does the refs describe it.  When *)
(* none runs they may hold anything: a body that was cut short leaves the  *)
(* refs of its fetch behind, and the next request must not be taken in.    *)
(***************************************************************************)
EXTENDS StreamConsumer, TLAPS, SequenceTheorems

------------------------------------------------------------------------------
(* The invariant: the refs describe the one fetch that runs.               *)

Statuses == {"streaming", "complete", "error", "interrupted", "stopped"}
Places   == {"sent", "open", "ended", "aborted", "over"}
Bubble == [turn : Nat, status : Statuses, texts : SUBSET Nat]
Fetch  == [turn : Nat, via : Hooks, at : Places]

TypeOK ==
  /\ busy \in [Hooks -> BOOLEAN] /\ controller \in [Hooks -> Nat]
  /\ turns \in Nat /\ bubbles \in Seq(Bubble) /\ asked \in Seq(Fetch)
  /\ current \in Nat /\ pending \in Nat
  /\ requestOf \in [Bubbles -> Nat] /\ bubbleOf \in [Fetches -> Nat]

\* Every fetch adds one bubble at most, so the maps have room for all.
Bounded ==
  /\ Len(asked) <= MaxFetches /\ Len(bubbles) <= Len(asked)
  /\ \A b \in Bubbles : b > Len(bubbles) => requestOf[b] = 0

\* Texts and requests belong to the turn of their bubble.
OwnTurn ==
  \A b \in 1 .. Len(bubbles) :
    /\ bubbles[b].texts \subseteq {bubbles[b].turn}
    /\ requestOf[b] \in {0, bubbles[b].turn}

\* At most the last fetch runs, and its hook is busy with it.
OneFetch ==
  \A f \in 1 .. Len(asked) :
    asked[f].at # "over" =>
      f = Len(asked) /\ busy[asked[f].via] /\ controller[asked[f].via] = f

\* What the refs say while fetch f runs.
Served(f) ==
  /\ asked[f].at # "over"
  /\ asked[f].at \in {"ended", "aborted"} => transport = "none" /\ current = 0
  /\ asked[f].at = "sent" =>
       /\ transport = asked[f].via /\ pending = asked[f].turn
       /\ target \in {0, current}
       /\ current = 0 => asked[f].via = "streaming" /\ Len(bubbles) < Len(asked)
  /\ asked[f].at = "open" =>
       /\ asked[f].via = "streaming" /\ transport = "streaming" /\ stream = f
       /\ f \notin stopped /\ current = bubbleOf[f] /\ current # 0
  /\ current # 0 =>
       current \in 1 .. Len(bubbles) /\ bubbles[current].turn = asked[f].turn

\* A hook is busy with the last fetch only.
Serving ==
  \A h \in Hooks :
    busy[h] => /\ Len(asked) # 0 /\ asked[Len(asked)].via = h
               /\ Served(Len(asked))

\* No other bubble shows an answer in progress, but those that were not told.
NoneLeft ==
  \A b \in 1 .. Len(bubbles) :
    bubbles[b].status = "streaming" => b \in left \/ (Generating /\ b = current)

AloneInv == TypeOK /\ Bounded /\ OwnTurn /\ OneFetch /\ Serving /\ NoneLeft
ConsumerInv == Alone => AloneInv

------------------------------------------------------------------------------
(* Lemmas about transcripts and fetches.                                   *)

LEMMA RoomForAll ==
  ASSUME AloneInv
  PROVE  /\ Len(bubbles) \in Nat /\ Len(asked) \in Nat
         /\ DOMAIN bubbles = 1 .. Len(bubbles) /\ DOMAIN asked = 1 .. Len(asked)
         /\ \A b \in 1 .. Len(bubbles) : bubbles[b] \in Bubble
         /\ \A f \in 1 .. Len(asked) : asked[f] \in Fetch
         /\ 1 .. Len(bubbles) \subseteq Bubbles /\ 1 .. Len(asked) \subseteq Fetches
<1>1. PICK n \in Nat, m \in Nat : n = Len(bubbles) /\ m = Len(asked)
  BY DEF AloneInv, TypeOK
<1>2. n <= m /\ m <= MaxFetches /\ MaxFetches \in Nat
  BY <1>1, BoundsAssumption DEF AloneInv, Bounded
<1>3. 1 .. n \subseteq Bubbles /\ 1 .. m \subseteq Fetches
  BY <1>1, <1>2 DEF Bubbles, Fetches
<1>4. bubbles \in Seq(Bubble) /\ asked \in Seq(Fetch)
  BY DEF AloneInv, TypeOK
<1> QED
  BY <1>1, <1>3, <1>4, LenProperties, ElementOfSeq

\* A bubble is replaced, a fetch goes on, and one is added to either.
LEMMA Replaced ==
  ASSUME NEW S, NEW s \in Seq(S), NEW i \in 1 .. Len(s), NEW x \in S,
         NEW t, t = [s EXCEPT ![i] = x]
  PROVE  /\ t \in Seq(S) /\ Len(t) = Len(s) /\ t[i] = x
         /\ \A j \in 1 .. Len(s) : j # i => t[j] = s[j]
BY ExceptSeq

LEMMA Added ==
  ASSUME NEW S, NEW s \in Seq(S), NEW x \in S, NEW t, t = Append(s, x)
  PROVE  /\ t \in Seq(S) /\ Len(t) = Len(s) + 1 /\ t[Len(s) + 1] = x
         /\ \A j \in 1 .. Len(s) : t[j] = s[j]
BY AppendProperties

LEMMA GoesOn ==
  ASSUME AloneInv, NEW f \in 1 .. Len(asked),
         NEW at \in Places,
         asked' = [asked EXCEPT ![f].at = at]
  PROVE  /\ asked' \in Seq(Fetch) /\ Len(asked') = Len(asked)
         /\ asked'[f].turn = asked[f].turn /\ asked'[f].via = asked[f].via
         /\ asked'[f].at = at
         /\ \A g \in 1 .. Len(asked) : g # f => asked'[g] = asked[g]
<1>1. asked \in Seq(Fetch) /\ asked[f] \in Fetch
  BY RoomForAll DEF AloneInv, TypeOK
<1> DEFINE x == [asked[f] EXCEPT !.at = at]
<1>2. x \in Fetch /\ x.turn = asked[f].turn /\ x.via = asked[f].via /\ x.at = at
  BY <1>1 DEF Fetch
<1>3. asked' = [asked EXCEPT ![f] = x]
  OBVIOUS
<1> HIDE DEF x
<1> QED
  BY <1>1, <1>2, <1>3, Replaced

LEMMA BecomesIs ==
  ASSUME AloneInv, NEW b \in Nat, NEW status \in Statuses
  PROVE  /\ Becomes(b, status) \in Seq(Bubble)
         /\ Len(Becomes(b, status)) = Len(bubbles)
         /\ \A c \in 1 .. Len(bubbles) :
               /\ Becomes(b, status)[c].turn = bubbles[c].turn
               /\ Becomes(b, status)[c].texts = bubbles[c].texts
               /\ c # b => Becomes(b, status)[c] = bubbles[c]
               /\ c = b => Becomes(b, status)[c].status = status
<1>1. bubbles \in Seq(Bubble) /\ DOMAIN bubbles = 1 .. Len(bubbles)
  BY RoomForAll DEF AloneInv, TypeOK
<1>2. CASE b \notin DOMAIN bubbles
  <2>1. Becomes(b, status) = bubbles
    BY <1>2 DEF Becomes
  <2> QED
    BY <1>1, <1>2, <2>1
<1>3. CASE b \in DOMAIN bubbles
  <2> DEFINE x == [bubbles[b] EXCEPT !.status = status]
  <2>1. bubbles[b] \in Bubble
    BY <1>1, <1>3, RoomForAll
  <2>2. /\ x \in Bubble /\ x.turn = bubbles[b].turn /\ x.texts = bubbles[b].texts
        /\ x.status = status
    BY <2>1 DEF Bubble
  <2>3. Becomes(b, status) = [bubbles EXCEPT ![b] = x]
    BY <1>3 DEF Becomes
  <2> HIDE DEF x
  <2>4. b \in 1 .. Len(bubbles)
    BY <1>1, <1>3
  <2>5. PICK t : t = Becomes(b, status)
    OBVIOUS
  <2>6. /\ t \in Seq(Bubble) /\ Len(t) = Len(bubbles) /\ t[b] = x
        /\ \A j \in 1 .. Len(bubbles) : j # b => t[j] = bubbles[j]
    BY <1>1, <2>2, <2>3, <2>4, <2>5, Replaced
  <2> QED
    BY <2>2, <2>5, <2>6
<1> QED
  BY <1>2, <1>3

\* A change of status leaves turns and texts, and with them what was remembered.
LEMMA Marked ==
  ASSUME AloneInv, NEW b \in Nat, NEW status \in Statuses,
         bubbles' = Becomes(b, status)
  PROVE  /\ bubbles' \in Seq(Bubble) /\ Len(bubbles') = Len(bubbles)
         /\ \A c \in 1 .. Len(bubbles) :
               /\ bubbles'[c].turn = bubbles[c].turn
               /\ bubbles'[c].texts = bubbles[c].texts
               /\ c # b => bubbles'[c] = bubbles[c]
               /\ c = b => bubbles'[c].status = status
BY BecomesIs

LEMMA MarkedOwn ==
  ASSUME AloneInv, requestOf' = requestOf, Len(bubbles') = Len(bubbles),
         \A c \in 1 .. Len(bubbles) : /\ bubbles'[c].turn = bubbles[c].turn
                                      /\ bubbles'[c].texts = bubbles[c].texts
  PROVE  OwnTurn'
BY DEF AloneInv, OwnTurn

------------------------------------------------------------------------------
(* The fetch that runs is the last one, and the only one.                  *)

LEMMA Running ==
  ASSUME AloneInv, NEW f \in 1 .. Len(asked), asked[f].at # "over"
  PROVE  /\ f = Len(asked) /\ Served(f) /\ asked[f] \in Fetch /\ Generating
         /\ asked[f].via \in Hooks /\ busy[asked[f].via] /\ controller[asked[f].via] = f
         /\ \A h \in Hooks : busy[h] => h = asked[f].via
<1>1. asked[f] \in Fetch
  BY RoomForAll
<1>2. f = Len(asked) /\ asked[f].via \in Hooks /\ busy[asked[f].via]
      /\ controller[asked[f].via] = f
  BY <1>1 DEF AloneInv, OneFetch, Fetch
<1> QED
  BY <1>1, <1>2 DEF AloneInv, Serving, Generating

LEMMA Works ==
  ASSUME AloneInv, Generating
  PROVE  LET f == Len(asked) IN f \in 1 .. Len(asked) /\ asked[f].at # "over"
<1>1. PICK h \in Hooks : busy[h]
  BY DEF Generating
<1>2. Len(asked) # 0 /\ Served(Len(asked)) /\ Len(asked) \in Nat
  BY <1>1, RoomForAll DEF AloneInv, Serving
<1> QED
  BY <1>2 DEF Served

\* A change of place of the running fetch leaves its hook busy with it.
LEMMA StillServed ==
  ASSUME AloneInv, NEW f \in 1 .. Len(asked), asked[f].at # "over",
         UNCHANGED <<busy, controller>>, Served(f)',
         asked' = asked \/ (\E at \in Places : asked' = [asked EXCEPT ![f].at = at])
  PROVE  /\ asked' \in Seq(Fetch) /\ Len(asked') = Len(asked)
         /\ OneFetch' /\ Serving' /\ Generating'
<1>1. /\ f = Len(asked) /\ Generating /\ asked[f].via \in Hooks /\ busy[asked[f].via]
      /\ controller[asked[f].via] = f /\ \A h \in Hooks : busy[h] => h = asked[f].via
  BY Running
<1>2. /\ asked' \in Seq(Fetch) /\ Len(asked') = Len(asked) /\ asked'[f].via = asked[f].via
      /\ \A g \in 1 .. Len(asked) : g # f => asked'[g] = asked[g]
  <2>1. CASE asked' = asked
    BY <2>1 DEF AloneInv, TypeOK
  <2>2. CASE \E at \in Places : asked' = [asked EXCEPT ![f].at = at]
    BY <2>2, GoesOn
  <2> QED
    BY <2>1, <2>2
<1>3. OneFetch'
  BY <1>1, <1>2 DEF AloneInv, OneFetch
<1>4. Len(asked) # 0
  BY RoomForAll
<1>5. Serving'
  BY <1>1, <1>2, <1>4 DEF Serving
<1>6. Generating'
  BY <1>1 DEF Generating
<1> QED
  BY <1>2, <1>3, <1>5, <1>6

\* The request ends, and no hook is busy any more.
LEMMA Finishes ==
  ASSUME AloneInv, NEW f \in 1 .. Len(asked), asked[f].at # "over", Settles(f),
         bubbles' \in Seq(Bubble), Len(bubbles') = Len(bubbles),
         turns' = turns, current' \in Nat, pending' \in Nat,
         bubbleOf' \in [Fetches -> Nat], requestOf' \in [Bubbles -> Nat],
         \A b \in Bubbles : b > Len(bubbles) => requestOf'[b] = requestOf[b],
         OwnTurn',
         \A b \in 1 .. Len(bubbles) : bubbles'[b].status = "streaming" => b \in left'
  PROVE  AloneInv'
<1>1. f = Len(asked) /\ asked[f].via \in Hooks /\ \A h \in Hooks : busy[h] => h = asked[f].via
  BY Running
<1>2. /\ asked' = [asked EXCEPT ![f].at = "over"]
      /\ busy' = [busy EXCEPT ![asked[f].via] = FALSE]
      /\ controller' = [controller EXCEPT ![asked[f].via] = 0]
  BY DEF Settles
<1>3. /\ asked' \in Seq(Fetch) /\ Len(asked') = Len(asked) /\ asked'[f].at = "over"
      /\ \A g \in 1 .. Len(asked) : g # f => asked'[g] = asked[g]
  BY <1>2, GoesOn DEF Places
<1>4. busy' \in [Hooks -> BOOLEAN] /\ \A h \in Hooks : ~busy'[h]
  BY <1>1, <1>2 DEF AloneInv, TypeOK
<1>5. controller' \in [Hooks -> Nat]
  BY <1>2 DEF AloneInv, TypeOK
<1>6. TypeOK'
  BY <1>3, <1>4, <1>5 DEF AloneInv, TypeOK
<1>7. Bounded'
  BY <1>3 DEF AloneInv, Bounded, Bubbles
<1>8. OneFetch'
  BY <1>1, <1>3 DEF AloneInv, OneFetch
<1>9. Serving' /\ NoneLeft'
  BY <1>4 DEF Serving, NoneLeft
<1> QED
  BY <1>6, <1>7, <1>8, <1>9 DEF AloneInv

\* The request ends with a mark on its bubble, or without telling it.
LEMMA FinishesMarked ==
  ASSUME AloneInv, NEW f \in 1 .. Len(asked), asked[f].at # "over", Settles(f),
         NEW status \in Statuses \ {"streaming"}, left \subseteq left',
         \/ bubbles' = Becomes(current, status)
         \/ bubbles' = bubbles /\ (current = 0 \/ current \in left'),
         turns' = turns, requestOf' = requestOf, current' \in Nat, pending' \in Nat,
         bubbleOf' \in [Fetches -> Nat]
  PROVE  AloneInv'
<1>1. current \in Nat /\ status \in Statuses /\ bubbles \in Seq(Bubble)
      /\ requestOf \in [Bubbles -> Nat]
  BY DEF AloneInv, TypeOK
<1>2. /\ bubbles' \in Seq(Bubble) /\ Len(bubbles') = Len(bubbles)
      /\ \A c \in 1 .. Len(bubbles) :
            /\ bubbles'[c].turn = bubbles[c].turn
            /\ bubbles'[c].texts = bubbles[c].texts
            /\ c # current => bubbles'[c] = bubbles[c]
            /\ c = current => bubbles'[c].status = status \/ c \in left'
  <2>1. CASE bubbles' = Becomes(current, status)
    BY <1>1, <2>1, Marked
  <2>2. CASE bubbles' = bubbles /\ (current = 0 \/ current \in left')
    BY <1>1, <2>2
  <2> QED
    BY <2>1, <2>2
<1>3. OwnTurn'
  BY <1>2, MarkedOwn
<1>4. ASSUME NEW c \in 1 .. Len(bubbles), bubbles'[c].status = "streaming"
      PROVE  c \in left'
  <2>1. CASE c = current
    BY <1>2, <1>4, <2>1
  <2>2. CASE c # current
    BY <1>2, <1>4, <2>2 DEF AloneInv, NoneLeft
  <2> QED
    BY <2>1, <2>2
<1> QED
  BY <1>1, <1>2, <1>3, <1>4, Finishes
------------------------------------------------------------------------------
(* Each step keeps the invariant, while no retry overlaps a request.       *)

LEMMA ClosesKeeps ==
  ASSUME AloneInv, NEW f \in 1 .. Len(asked), Closes(f) \/ Aborted(f), left' = left
  PROVE  AloneInv'
<1>1. asked[f].at \in {"ended", "aborted"} /\ Served(f)
  BY Running DEF Closes, Aborted
<1>2. current = 0
  BY <1>1 DEF Served
<1>3. Settles(f) /\ UNCHANGED <<turns, bubbles, refs, requestOf, bubbleOf>>
  BY DEF Closes, Aborted
<1>4. current' \in Nat /\ pending' \in Nat /\ bubbleOf' \in [Fetches -> Nat]
  BY <1>3 DEF AloneInv, TypeOK, refs
<1>5. "error" \in Statuses \ {"streaming"} /\ asked[f].at # "over"
  BY <1>1 DEF Statuses
<1> QED
  BY <1>2, <1>3, <1>4, <1>5, FinishesMarked

LEMMA CutShortKeeps ==
  ASSUME AloneInv, NEW f \in 1 .. Len(asked), CutShort(f), left' = left \cup Untold
  PROVE  AloneInv'
<1>1. /\ asked[f].at # "over" /\ Settles(f)
      /\ UNCHANGED <<turns, bubbles, refs, requestOf, bubbleOf>>
  BY DEF CutShort
<1>2. current' \in Nat /\ pending' \in Nat /\ bubbleOf' \in [Fetches -> Nat]
  BY <1>1 DEF AloneInv, TypeOK, refs
<1>3. left \subseteq left' /\ (current = 0 \/ current \in left')
  BY DEF Untold
<1>4. "error" \in Statuses \ {"streaming"}
  BY DEF Statuses
<1> QED
  BY <1>1, <1>2, <1>3, <1>4, FinishesMarked

LEMMA OnErrorFrameKeeps ==
  ASSUME AloneInv, NEW f \in 1 .. Len(asked), OnErrorFrame(f), left' = left
  PROVE  AloneInv'
<1>1. asked[f].at = "open" /\ Served(f)
  BY Running DEF OnErrorFrame
<1>2. transport = "streaming" /\ f \notin stopped /\ current = bubbleOf[f] /\ current # 0
  BY <1>1 DEF Served
<1>3. /\ bubbles' = Becomes(current, "error") /\ ForgetsAll
      /\ bubbleOf' = [bubbleOf EXCEPT ![f] = 0]
      /\ Settles(f) /\ UNCHANGED <<turns, requestOf>>
  BY <1>2 DEF OnErrorFrame
<1>4. current' \in Nat /\ pending' \in Nat
  BY <1>3 DEF ForgetsAll, Forgets
<1>5. bubbleOf' \in [Fetches -> Nat]
  BY <1>3 DEF AloneInv, TypeOK
<1>6. "error" \in Statuses \ {"streaming"} /\ asked[f].at # "over"
  BY <1>1 DEF Statuses
<1> QED
  BY <1>3, <1>4, <1>5, <1>6, FinishesMarked

LEMMA OnExceptionKeeps ==
  ASSUME AloneInv, NEW f \in 1 .. Len(asked), asked[f].at \in {"sent", "open", "ended"},
         NEW status \in {"", "error", "interrupted"}, NEW quota,
         OnException(f, status, quota), left \subseteq left',
         status = "" => current = 0 \/ current \in left'
  PROVE  AloneInv'
<1>1. Served(f) /\ asked[f].at # "over" /\ asked[f].via \in Hooks
  BY Running
<1>2. Settles(f) /\ UNCHANGED <<turns, requestOf>>
  BY DEF OnException
<1>3. "error" \in Statuses \ {"streaming"}
  BY DEF Statuses
<1>4. CASE transport # asked[f].via
  <2>1. current = 0
    BY <1>1, <1>4 DEF Served
  <2>2. UNCHANGED <<refs, bubbleOf, bubbles>>
    BY <1>4 DEF OnException
  <2>3. current' \in Nat /\ pending' \in Nat /\ bubbleOf' \in [Fetches -> Nat]
    BY <2>2 DEF AloneInv, TypeOK, refs
  <2> QED
    BY <1>1, <1>2, <1>3, <2>1, <2>2, <2>3, FinishesMarked
<1>5. CASE transport = asked[f].via
  <2>1. /\ bubbles' = IF status = "" THEN bubbles ELSE Becomes(current, status)
        /\ Forgets
        /\ \/ bubbleOf' = bubbleOf
           \/ bubbleOf' = [bubbleOf EXCEPT ![stream] = 0]
    BY <1>5 DEF OnException
  <2>2. current' \in Nat /\ pending' \in Nat
    BY <2>1 DEF Forgets
  <2>3. bubbleOf' \in [Fetches -> Nat]
    <3>1. bubbleOf \in [Fetches -> Nat]
      BY DEF AloneInv, TypeOK
    <3>2. CASE bubbleOf' = [bubbleOf EXCEPT ![stream] = 0]
      BY <3>1, <3>2
    <3> QED
      BY <2>1, <3>1, <3>2
  <2>4. PICK mark \in Statuses \ {"streaming"} :
          \/ bubbles' = Becomes(current, mark)
          \/ bubbles' = bubbles /\ (current = 0 \/ current \in left')
    BY <2>1, <1>3 DEF Statuses
  <2> QED
    BY <1>1, <1>2, <2>2, <2>3, <2>4, FinishesMarked
<1> QED
  BY <1>4, <1>5


\* A request that still runs leaves the refs, with a mark on its bubble.
LEMMA GoesQuiet ==
  ASSUME AloneInv, NEW f \in 1 .. Len(asked), asked[f].at # "over",
         asked' = asked \/ (\E at \in Places : asked' = [asked EXCEPT ![f].at = at]),
         asked'[f].at \in {"ended", "aborted"},
         transport' = "none", current' = 0, pending' \in Nat,
         NEW status \in Statuses \ {"streaming"}, bubbles' = Becomes(current, status),
         left' = left, UNCHANGED <<turns, busy, controller, requestOf>>,
         bubbleOf' \in [Fetches -> Nat]
  PROVE  AloneInv'
<1>1. current \in Nat /\ status \in Statuses
  BY DEF AloneInv, TypeOK
<1>2. /\ bubbles' \in Seq(Bubble) /\ Len(bubbles') = Len(bubbles)
      /\ \A c \in 1 .. Len(bubbles) :
            /\ bubbles'[c].turn = bubbles[c].turn
            /\ bubbles'[c].texts = bubbles[c].texts
            /\ c # current => bubbles'[c] = bubbles[c]
            /\ c = current => bubbles'[c].status = status
  BY <1>1, Marked
<1>3. Served(f)'
  BY DEF Served
<1>4. /\ asked' \in Seq(Fetch) /\ Len(asked') = Len(asked)
      /\ OneFetch' /\ Serving'
  BY <1>3, StillServed
<1>5. TypeOK'
  BY <1>2, <1>4 DEF AloneInv, TypeOK
<1>6. Bounded'
  BY <1>2, <1>4 DEF AloneInv, Bounded, Bubbles
<1>7. OwnTurn'
  BY <1>2, MarkedOwn
<1>8. NoneLeft'
  BY <1>2 DEF AloneInv, NoneLeft
<1> QED
  BY <1>4, <1>5, <1>6, <1>7, <1>8 DEF AloneInv

\* Nothing changes that the invariant speaks of.
LEMMA UnchangedKeeps ==
  ASSUME AloneInv, left' = left,
         UNCHANGED <<turns, bubbles, asked, busy, controller, refs, requestOf,
                     bubbleOf, stopped>>
  PROVE  AloneInv'
<1>1. UNCHANGED <<transport, current, stream, pending, target>>
  BY DEF refs
<1>2. TypeOK' /\ Bounded' /\ OwnTurn' /\ OneFetch'
  BY <1>1 DEF AloneInv, TypeOK, Bounded, OwnTurn, OneFetch, Bubbles
<1>3. NoneLeft'
  BY <1>1 DEF AloneInv, NoneLeft, Generating
<1>4. Serving'
  BY <1>1 DEF AloneInv, Serving, Served
<1> QED
  BY <1>2, <1>3, <1>4 DEF AloneInv

LEMMA OnEndKeeps ==
  ASSUME AloneInv, NEW f \in 1 .. Len(asked), OnEnd(f), left' = left
  PROVE  AloneInv'
<1>1. asked[f].at = "open" /\ Served(f)
  BY Running DEF OnEnd
<1>2. transport = "streaming" /\ f \notin stopped /\ current = bubbleOf[f]
  BY <1>1 DEF Served
<1>3. /\ asked' = [asked EXCEPT ![f].at = "ended"]
      /\ bubbles' = Becomes(current, EndStatus(current, {}))
      /\ bubbleOf' = [bubbleOf EXCEPT ![f] = 0] /\ ForgetsAll
      /\ UNCHANGED <<turns, busy, controller, requestOf>>
  BY <1>2 DEF OnEnd
<1>4. "ended" \in Places /\ asked'[f].at = "ended"
  BY <1>3, GoesOn DEF Places
<1>5. bubbleOf' \in [Fetches -> Nat]
  BY <1>3 DEF AloneInv, TypeOK
<1>6. EndStatus(current, {}) \in Statuses \ {"streaming"} /\ asked[f].at # "over"
  BY <1>1 DEF EndStatus, Statuses
<1>7. transport' = "none" /\ current' = 0 /\ pending' \in Nat
  BY <1>3 DEF ForgetsAll, Forgets
<1> QED
  BY <1>3, <1>4, <1>5, <1>6, <1>7, GoesQuiet

LEMMA StopKeeps ==
  ASSUME AloneInv, Stop, left' = left
  PROVE  AloneInv'
<1> DEFINE f == Len(asked)
<1>1. f \in 1 .. Len(asked) /\ asked[f].at # "over" /\ DOMAIN asked = 1 .. Len(asked)
  BY Works, RoomForAll DEF Stop
<1>2. Served(f) /\ asked[f] \in Fetch /\ asked[f].via \in Hooks
      /\ controller[asked[f].via] = f
  BY <1>1, Running
<1>3. /\ bubbles' = Becomes(current, "stopped") /\ transport' = "none" /\ StopForgets
      /\ bubbleOf' = IF stream = 0 THEN bubbleOf ELSE [bubbleOf EXCEPT ![stream] = 0]
      /\ UNCHANGED <<turns, busy, controller, requestOf>>
  BY DEF Stop
<1>4. asked[f].at \in {"sent", "open", "ended", "aborted"} /\ "none" \notin Hooks
  BY <1>1, <1>2 DEF Fetch, Places, Hooks
<1>5. /\ asked' = asked \/ (\E at \in Places : asked' = [asked EXCEPT ![f].at = at])
      /\ asked'[f].at \in {"ended", "aborted"}
  <2>1. CASE asked[f].at \in {"ended", "aborted"}
    <3>1. asked' = asked
      BY <1>2, <2>1 DEF Stop, Served
    <3> QED
      BY <2>1, <3>1
  <2>2. CASE asked[f].at \in {"sent", "open"}
    <3>1. transport = asked[f].via
      BY <1>2, <2>2 DEF Served
    <3>2. transport # "none" /\ controller[transport] = f /\ f \in InFlight
      BY <1>1, <1>2, <1>4, <3>1 DEF InFlight
    <3>3. asked' = [asked EXCEPT ![f].at = "aborted"] /\ "aborted" \in Places
      BY <3>2 DEF Stop, Places
    <3> HIDE DEF f
    <3>4. asked'[f].at = "aborted"
      BY <1>1, <3>3, GoesOn
    <3> QED
      BY <3>3, <3>4
  <2> QED
    BY <1>4, <2>1, <2>2
<1>6. bubbleOf' \in [Fetches -> Nat]
  <2>1. bubbleOf \in [Fetches -> Nat]
    BY DEF AloneInv, TypeOK
  <2> QED
    BY <1>3, <2>1
<1>7. current' = 0 /\ pending' \in Nat /\ "stopped" \in Statuses \ {"streaming"}
  BY <1>3 DEF StopForgets, Statuses
<1> HIDE DEF f
<1> QED
  BY <1>1, <1>3, <1>5, <1>6, <1>7, GoesQuiet

LEMMA OnDeltaKeeps ==
  ASSUME AloneInv, NEW f \in 1 .. Len(asked), OnDelta(f), left' = left
  PROVE  AloneInv'
<1>1. asked[f].at = "open" /\ Served(f)
  BY Running DEF OnDelta
<1>2. /\ f \notin stopped /\ current = bubbleOf[f] /\ current \in 1 .. Len(bubbles)
      /\ bubbles[current].turn = asked[f].turn
  BY <1>1 DEF Served
<1> DEFINE t == asked[f].turn
           x == [bubbles[current] EXCEPT !.texts = @ \cup {t}]
<1>3. bubbles[current] \in Bubble /\ asked[f] \in Fetch /\ DOMAIN bubbles = 1 .. Len(bubbles)
      /\ bubbles \in Seq(Bubble)
  BY <1>2, RoomForAll DEF AloneInv, TypeOK
<1>4. /\ x \in Bubble /\ x.turn = bubbles[current].turn
      /\ x.status = bubbles[current].status
      /\ x.texts = bubbles[current].texts \cup {t}
  BY <1>2, <1>3 DEF Bubble, Fetch
<1>5. bubbles' = [bubbles EXCEPT ![current] = x]
  BY <1>2, <1>3 DEF OnDelta, Appended
<1>6. x.texts \subseteq {x.turn}
  BY <1>2, <1>4 DEF AloneInv, OwnTurn
<1> HIDE DEF x
<1>7. /\ bubbles' \in Seq(Bubble) /\ Len(bubbles') = Len(bubbles) /\ bubbles'[current] = x
      /\ \A j \in 1 .. Len(bubbles) : j # current => bubbles'[j] = bubbles[j]
  BY <1>2, <1>3, <1>4, <1>5, Replaced
<1>8. UNCHANGED <<turns, asked, busy, controller, transport, current, stream, pending,
                  target, requestOf, bubbleOf, stopped>>
  BY DEF OnDelta, refs
<1>9. TypeOK'
  BY <1>7, <1>8 DEF AloneInv, TypeOK
<1>10. Bounded'
  BY <1>7, <1>8 DEF AloneInv, Bounded, Bubbles
<1>11. OwnTurn'
  BY <1>4, <1>6, <1>7, <1>8 DEF AloneInv, OwnTurn
<1>12. Served(f)'
  BY <1>1, <1>2, <1>4, <1>7, <1>8 DEF Served
<1>13. OneFetch' /\ Serving' /\ Generating'
  BY <1>1, <1>8, <1>12, StillServed
<1>14. NoneLeft'
  BY <1>4, <1>7, <1>8, <1>13 DEF AloneInv, NoneLeft
<1> QED
  BY <1>9, <1>10, <1>11, <1>13, <1>14 DEF AloneInv

LEMMA OnCompleteKeeps ==
  ASSUME AloneInv, NEW f \in 1 .. Len(asked), NEW text \in BOOLEAN, OnComplete(f, text),
         left' = left
  PROVE  AloneInv'
<1>1. asked[f].at = "sent" /\ asked[f].via = "completion" /\ Served(f)
  BY Running DEF OnComplete
<1>2. /\ transport = "completion" /\ pending = asked[f].turn
      /\ current \in 1 .. Len(bubbles) /\ bubbles[current].turn = asked[f].turn
  BY <1>1 DEF Served
<1> DEFINE b == current
           t == IF text THEN {asked[f].turn} ELSE {}
           x == [bubbles[b] EXCEPT !.texts = @ \cup t, !.status = EndStatus(b, t)]
<1>3. bubbles[b] \in Bubble /\ asked[f] \in Fetch /\ bubbles \in Seq(Bubble) /\ b \in Bubbles
      /\ DOMAIN bubbles = 1 .. Len(bubbles) /\ Len(bubbles) \in Nat
  BY <1>2, RoomForAll DEF AloneInv, TypeOK
<1>4. EndStatus(b, t) \in Statuses /\ EndStatus(b, t) # "streaming"
  BY DEF EndStatus, Statuses
<1>5. /\ x \in Bubble /\ x.turn = bubbles[b].turn /\ x.status # "streaming"
      /\ x.texts = bubbles[b].texts \cup t
  BY <1>3, <1>4 DEF Bubble, Fetch
<1>6. /\ bubbles' = [bubbles EXCEPT ![b].texts = @ \cup t, ![b].status = EndStatus(b, t)]
      /\ requestOf' = Remembers(b) /\ Forgets
      /\ Settles(f) /\ UNCHANGED <<turns, bubbleOf>>
  BY <1>2 DEF OnComplete
<1>7. bubbles' = [bubbles EXCEPT ![b] = x]
  BY <1>2, <1>3, <1>6
<1>8. x.texts \subseteq {x.turn}
  BY <1>2, <1>3, <1>5 DEF AloneInv, OwnTurn
<1> HIDE DEF x
<1>9. /\ bubbles' \in Seq(Bubble) /\ Len(bubbles') = Len(bubbles) /\ bubbles'[b] = x
      /\ \A j \in 1 .. Len(bubbles) : j # b => bubbles'[j] = bubbles[j]
  BY <1>2, <1>3, <1>5, <1>7, Replaced
<1>10. /\ requestOf' \in [Bubbles -> Nat] /\ requestOf'[b] \in {requestOf[b], bubbles[b].turn}
       /\ \A c \in Bubbles : c # b => requestOf'[c] = requestOf[c]
  BY <1>2, <1>3, <1>6 DEF Remembers, AloneInv, TypeOK
<1>11. OwnTurn'
  <2>1. ASSUME NEW c \in 1 .. Len(bubbles)
        PROVE  /\ bubbles'[c].texts \subseteq {bubbles'[c].turn}
               /\ requestOf'[c] \in {0, bubbles'[c].turn}
    <3>1. c \in Bubbles
      BY RoomForAll
    <3>2. bubbles[c].texts \subseteq {bubbles[c].turn} /\ requestOf[c] \in {0, bubbles[c].turn}
      BY DEF AloneInv, OwnTurn
    <3> QED
      BY <1>5, <1>8, <1>9, <1>10, <3>1, <3>2
  <2> QED
    BY <2>1, <1>9 DEF OwnTurn
<1>12. \A c \in 1 .. Len(bubbles) : bubbles'[c].status = "streaming" => c \in left'
  BY <1>5, <1>9 DEF AloneInv, NoneLeft
<1>13. current' \in Nat /\ pending' \in Nat /\ asked[f].at # "over"
  BY <1>1, <1>6 DEF Forgets
<1>14. bubbleOf' \in [Fetches -> Nat]
  BY <1>6 DEF AloneInv, TypeOK
<1>15. \A c \in Bubbles : c > Len(bubbles) => requestOf'[c] = requestOf[c]
  BY <1>2, <1>3, <1>10
<1> QED
  BY <1>6, <1>9, <1>10, <1>11, <1>12, <1>13, <1>14, <1>15, Finishes

\* A bubble with no text that waits for an answer.
LEMMA StartedIs ==
  ASSUME NEW t \in Nat
  PROVE  /\ Started(t) \in Bubble /\ Started(t).turn = t /\ Started(t).texts = {}
         /\ Started(t).status = "streaming"
BY DEF Started, Bubble, Statuses


LEMMA OnStartKeeps ==
  ASSUME AloneInv, NEW f \in 1 .. Len(asked), OnStart(f), left' = left
  PROVE  AloneInv'
<1>1. asked[f].at = "sent" /\ asked[f].via = "streaming" /\ Served(f) /\ f = Len(asked)
  BY Running DEF OnStart
<1>2. /\ transport = "streaming" /\ pending = asked[f].turn
      /\ target \in {0, current}
      /\ current = 0 => Len(bubbles) < Len(asked)
      /\ current # 0 => /\ current \in 1 .. Len(bubbles)
                        /\ bubbles[current].turn = asked[f].turn
  BY <1>1 DEF Served
<1> DEFINE b == IF current # 0 THEN current ELSE Len(bubbles) + 1
           t == asked[f].turn
<1>3. /\ bubbles \in Seq(Bubble) /\ asked[f] \in Fetch /\ Len(bubbles) \in Nat
      /\ DOMAIN bubbles = 1 .. Len(bubbles) /\ Len(asked) \in Nat /\ MaxFetches \in Nat
      /\ Len(asked) <= MaxFetches /\ Len(bubbles) <= Len(asked)
  BY RoomForAll, BoundsAssumption DEF AloneInv, TypeOK, Bounded
<1>4. LocalBubble = b
  BY <1>2 DEF LocalBubble
<1>5. b \in Bubbles /\ b \in Nat /\ b # 0 /\ t \in Nat
  BY <1>2, <1>3 DEF Bubbles, Fetch
<1>6. /\ asked' = [asked EXCEPT ![f].at = "open"] /\ stopped' = stopped \ {f}
      /\ current' = b /\ stream' = f /\ bubbleOf' = [bubbleOf EXCEPT ![f] = b]
      /\ requestOf' = Remembers(b)
      /\ bubbles' = IF b \in DOMAIN bubbles THEN bubbles ELSE Append(bubbles, Started(t))
      /\ UNCHANGED <<turns, busy, controller, transport, pending>>
  BY <1>4 DEF OnStart
<1>7. /\ bubbles' \in Seq(Bubble) /\ b \in 1 .. Len(bubbles') /\ bubbles'[b].turn = t
      /\ Len(bubbles') \in {Len(bubbles), b} /\ Len(bubbles') >= Len(bubbles)
      /\ Len(bubbles') <= Len(asked)
      /\ \A j \in 1 .. Len(bubbles) : bubbles'[j] = bubbles[j]
      /\ \A j \in 1 .. Len(bubbles') :
            \/ j \in 1 .. Len(bubbles)
            \/ j = b /\ bubbles'[j].texts = {} /\ requestOf[j] = 0
  <2>1. CASE current # 0
    <3>1. bubbles' = bubbles /\ b \in 1 .. Len(bubbles)
      BY <1>2, <1>3, <1>6, <2>1
    <3> QED
      BY <1>2, <1>3, <3>1, <2>1
  <2>2. CASE current = 0
    <3> DEFINE x == Started(t)
    <3>1. x \in Bubble /\ x.turn = t /\ x.texts = {}
      BY <1>5, StartedIs
    <3>2. bubbles' = Append(bubbles, x)
      BY <1>3, <1>6, <2>2
    <3> HIDE DEF x
    <3>3. /\ bubbles' \in Seq(Bubble) /\ Len(bubbles') = Len(bubbles) + 1
          /\ bubbles'[Len(bubbles) + 1] = x
          /\ \A j \in 1 .. Len(bubbles) : bubbles'[j] = bubbles[j]
      BY <1>3, <3>1, <3>2, Added
    <3>4. requestOf[b] = 0
      BY <1>3, <1>5, <2>2 DEF AloneInv, Bounded
    <3> QED
      BY <1>2, <1>3, <2>2, <3>1, <3>3, <3>4
  <2> QED
    BY <2>1, <2>2
<1>8. /\ requestOf' \in [Bubbles -> Nat] /\ requestOf'[b] \in {requestOf[b], t}
      /\ \A c \in Bubbles : c # b => requestOf'[c] = requestOf[c]
  BY <1>2, <1>5, <1>6 DEF Remembers, AloneInv, TypeOK
<1>9. /\ asked' \in Seq(Fetch) /\ Len(asked') = Len(asked) /\ "open" \in Places
      /\ asked'[f].turn = t /\ asked'[f].at = "open" /\ asked'[f].via = "streaming"
  BY <1>1, <1>6, GoesOn DEF Places
<1>10. f \in Fetches /\ bubbleOf'[f] = b /\ bubbleOf' \in [Fetches -> Nat] /\ f \notin stopped'
  BY <1>5, <1>6, RoomForAll DEF AloneInv, TypeOK
<1>11. TypeOK'
  BY <1>5, <1>6, <1>7, <1>8, <1>9, <1>10 DEF AloneInv, TypeOK
<1>12. Bounded'
  <2>1. ASSUME NEW c \in Bubbles, c > Len(bubbles')
        PROVE  requestOf'[c] = 0
    <3>1. c # b /\ c > Len(bubbles)
      BY <1>3, <1>7, <2>1 DEF Bubbles
    <3>2. requestOf[c] = 0
      BY <3>1 DEF AloneInv, Bounded
    <3> QED
      BY <1>8, <3>1, <3>2
  <2>2. Len(asked') <= MaxFetches /\ Len(bubbles') <= Len(asked')
    BY <1>3, <1>7, <1>9
  <2> QED
    BY <2>1, <2>2 DEF Bounded, Bubbles
<1>13. OwnTurn'
  <2>1. ASSUME NEW c \in 1 .. Len(bubbles')
        PROVE  /\ bubbles'[c].texts \subseteq {bubbles'[c].turn}
               /\ requestOf'[c] \in {0, bubbles'[c].turn}
    <3>1. c \in Bubbles
      BY <1>12, <1>3, <1>7, BoundsAssumption DEF Bubbles
    <3>2. CASE c \in 1 .. Len(bubbles)
      <4>1. bubbles[c].texts \subseteq {bubbles[c].turn} /\ requestOf[c] \in {0, bubbles[c].turn}
        BY <3>2 DEF AloneInv, OwnTurn
      <4> QED
        BY <1>7, <1>8, <3>1, <3>2, <4>1
    <3>3. CASE c \notin 1 .. Len(bubbles)
      BY <1>7, <1>8, <3>1, <3>3
    <3> QED
      BY <3>2, <3>3
  <2> QED
    BY <2>1 DEF OwnTurn
<1>14. Served(f)'
  BY <1>5, <1>6, <1>7, <1>9, <1>10, <1>2 DEF Served
<1>15. OneFetch' /\ Serving' /\ Generating'
  BY <1>1, <1>6, <1>9, <1>14, StillServed
<1>16. NoneLeft'
  <2>1. ASSUME NEW c \in 1 .. Len(bubbles'), bubbles'[c].status = "streaming", c # b
        PROVE  c \in left
    <3>1. c \in 1 .. Len(bubbles) /\ bubbles[c].status = "streaming"
      BY <1>7, <2>1
    <3>2. c # current
      BY <2>1, RoomForAll, <3>1
    <3> QED
      BY <3>1, <3>2 DEF AloneInv, NoneLeft
  <2> QED
    BY <2>1, <1>6, <1>15 DEF NoneLeft
<1> QED
  BY <1>11, <1>12, <1>13, <1>15, <1>16 DEF AloneInv

\* A request made when none runs: its fetch is the only one.
LEMMA StartsOne ==
  ASSUME AloneInv, ~Generating, NEW t \in Nat, NEW b \in Nat, StartRequest(t, b),
         NEW f, f = Len(asked) + 1
  PROVE  /\ f \in Nat /\ asked' \in Seq(Fetch) /\ Len(asked') = f
         /\ asked'[f].turn = t /\ asked'[f].at = "sent" /\ asked'[f].via = Transport
         /\ Len(asked') <= MaxFetches /\ Transport \in Hooks
         /\ busy' \in [Hooks -> BOOLEAN] /\ controller' \in [Hooks -> Nat]
         /\ transport' = Transport /\ pending' = t /\ target' = b
         /\ requestOf' = requestOf /\ bubbleOf' = bubbleOf
         /\ \A c \in 1 .. Len(bubbles) : bubbles[c].status = "streaming" => c \in left
         /\ OneFetch' /\ Generating' /\ \A h \in Hooks : busy'[h] => h = Transport
<1>1. asked \in Seq(Fetch) /\ Len(asked) \in Nat /\ MaxFetches \in Nat /\ Transport \in Hooks
  BY RoomForAll, BoundsAssumption DEF AloneInv, TypeOK, Transport, Hooks
<1> DEFINE x == [turn |-> t, via |-> Transport, at |-> "sent"]
<1>2. x \in Fetch /\ x.turn = t /\ x.via = Transport /\ x.at = "sent"
  BY <1>1 DEF Fetch, Places
<1>3. /\ asked' = Append(asked, x) /\ Len(asked) < MaxFetches
      /\ busy' = [busy EXCEPT ![Transport] = TRUE]
      /\ controller' = [controller EXCEPT ![Transport] = f]
      /\ transport' = Transport /\ pending' = t /\ target' = b
      /\ requestOf' = requestOf /\ bubbleOf' = bubbleOf
  BY DEF StartRequest
<1> HIDE DEF x
<1>4. /\ asked' \in Seq(Fetch) /\ Len(asked') = Len(asked) + 1
      /\ asked'[Len(asked) + 1] = x
      /\ \A g \in 1 .. Len(asked) : asked'[g] = asked[g]
  BY <1>1, <1>2, <1>3, Added
<1>5. /\ busy' \in [Hooks -> BOOLEAN] /\ controller' \in [Hooks -> Nat]
      /\ busy'[Transport] /\ controller'[Transport] = f
      /\ \A h \in Hooks : busy'[h] => h = Transport
  BY <1>1, <1>3 DEF AloneInv, TypeOK, Generating
<1>6. \A g \in 1 .. Len(asked) : asked[g].at = "over"
  BY Running
<1>7. ASSUME NEW g \in 1 .. Len(asked'), asked'[g].at # "over"
      PROVE  g = f
  BY <1>1, <1>4, <1>6, <1>7
<1>8. OneFetch'
  BY <1>2, <1>4, <1>5, <1>7 DEF OneFetch
<1>9. Generating'
  BY <1>1, <1>5 DEF Generating
<1>10. \A c \in 1 .. Len(bubbles) : bubbles[c].status = "streaming" => c \in left
  BY DEF AloneInv, NoneLeft
<1> QED
  BY <1>1, <1>2, <1>3, <1>4, <1>5, <1>8, <1>9, <1>10

LEMMA SendKeeps ==
  ASSUME AloneInv, NEW toggled \in BOOLEAN, Send(toggled), left' = left
  PROVE  AloneInv'
<1> DEFINE n == Len(bubbles) + 1
           t == turns + 1
<1>1. /\ bubbles \in Seq(Bubble) /\ Len(bubbles) \in Nat /\ Len(asked) \in Nat
      /\ t \in Nat /\ 0 \in Nat /\ MaxFetches \in Nat /\ Len(bubbles) <= Len(asked)
  BY RoomForAll, BoundsAssumption DEF AloneInv, TypeOK, Bounded
<1>2. ~Generating /\ turns' = t /\ StartRequest(t, 0) /\ Shows(toggled)
  BY DEF Send
<1>3. PICK h : h = Len(asked) + 1
  OBVIOUS
<1>4. /\ h \in Nat /\ asked' \in Seq(Fetch) /\ Len(asked') = h
      /\ asked'[h].turn = t /\ asked'[h].at = "sent" /\ asked'[h].via = Transport
      /\ Len(asked') <= MaxFetches /\ Transport \in Hooks
      /\ busy' \in [Hooks -> BOOLEAN] /\ controller' \in [Hooks -> Nat]
      /\ transport' = Transport /\ pending' = t /\ target' = 0
      /\ requestOf' = requestOf /\ bubbleOf' = bubbleOf
      /\ \A c \in 1 .. Len(bubbles) : bubbles[c].status = "streaming" => c \in left
      /\ OneFetch' /\ Generating' /\ \A k \in Hooks : busy'[k] => k = Transport
  <2> HIDE DEF t
  <2> QED
    BY <1>1, <1>2, <1>3, StartsOne
<1>5. /\ bubbles' \in Seq(Bubble) /\ Len(bubbles') \in {Len(bubbles), n}
      /\ \A j \in 1 .. Len(bubbles) : bubbles'[j] = bubbles[j]
      /\ \/ Len(bubbles') = Len(bubbles) /\ current' = 0 /\ Transport = "streaming"
         \/ /\ Len(bubbles') = n /\ current' = n /\ bubbles'[n].turn = t
            /\ bubbles'[n].texts = {}
  <2>1. CASE ~Prestarted(toggled)
    BY <1>1, <1>2, <2>1 DEF Shows, Prestarted, Transport
  <2>2. CASE Prestarted(toggled)
    <3> DEFINE x == Started(t)
    <3>1. x \in Bubble /\ x.turn = t /\ x.texts = {}
      BY <1>1, StartedIs
    <3>2. bubbles' = Append(bubbles, x) /\ current' = n
      BY <1>2, <2>2 DEF Shows
    <3> HIDE DEF x
    <3>3. /\ bubbles' \in Seq(Bubble) /\ Len(bubbles') = Len(bubbles) + 1
          /\ bubbles'[Len(bubbles) + 1] = x
          /\ \A j \in 1 .. Len(bubbles) : bubbles'[j] = bubbles[j]
      BY <1>1, <3>1, <3>2, Added
    <3> QED
      BY <3>1, <3>2, <3>3
  <2> QED
    BY <2>1, <2>2
<1>6. TypeOK'
  BY <1>1, <1>2, <1>4, <1>5 DEF AloneInv, TypeOK
<1>7. Bounded'
  BY <1>1, <1>3, <1>4, <1>5 DEF AloneInv, Bounded, Bubbles
<1>8. OwnTurn'
  <2>1. ASSUME NEW c \in 1 .. Len(bubbles')
        PROVE  /\ bubbles'[c].texts \subseteq {bubbles'[c].turn}
               /\ requestOf'[c] \in {0, bubbles'[c].turn}
    <3>1. CASE c \in 1 .. Len(bubbles)
      BY <1>4, <1>5, <3>1 DEF AloneInv, OwnTurn
    <3>2. CASE c \notin 1 .. Len(bubbles)
      <4>1. c = n /\ c > Len(bubbles) /\ Len(bubbles') = n /\ n # Len(bubbles)
        BY <1>1, <1>5, <3>2
      <4>2. c \in Bubbles
        BY <1>1, <1>3, <1>4, <4>1 DEF Bubbles
      <4>3. requestOf[c] = 0
        BY <4>1, <4>2 DEF AloneInv, Bounded
      <4> QED
        BY <1>4, <1>5, <4>1, <4>3
    <3> QED
      BY <3>1, <3>2
  <2> QED
    BY <2>1 DEF OwnTurn
<1>9. NoneLeft'
  <2>1. ASSUME NEW c \in 1 .. Len(bubbles'), bubbles'[c].status = "streaming"
        PROVE  c \in left \/ c = current'
    <3>1. CASE c \in 1 .. Len(bubbles)
      BY <1>4, <1>5, <2>1, <3>1
    <3>2. CASE c \notin 1 .. Len(bubbles)
      BY <1>1, <1>5, <2>1, <3>2
    <3> QED
      BY <3>1, <3>2
  <2> QED
    BY <2>1, <1>4 DEF NoneLeft
<1>10. Serving'
  <2>1. Served(h)'
    BY <1>1, <1>3, <1>4, <1>5 DEF Served
  <2> QED
    BY <2>1, <1>1, <1>3, <1>4 DEF Serving
<1> QED
  BY <1>4, <1>6, <1>7, <1>8, <1>9, <1>10 DEF AloneInv

LEMMA RetryKeeps ==
  ASSUME AloneInv, NEW b \in 1 .. Len(bubbles), Retry(b), ~Generating, left' = left
  PROVE  AloneInv'
<1>1. /\ bubbles \in Seq(Bubble) /\ Len(bubbles) \in Nat /\ Len(asked) \in Nat
      /\ bubbles[b] \in Bubble /\ b \in Nat /\ b # 0
      /\ MaxFetches \in Nat /\ Len(bubbles) <= Len(asked)
  BY RoomForAll, BoundsAssumption DEF AloneInv, TypeOK, Bounded
<1>2. PICK t \in Nat : /\ t = bubbles[b].turn /\ t = requestOf[b]
                      /\ StartRequest(t, b)
  BY <1>1 DEF Retry, AloneInv, OwnTurn, Bubble
<1>3. PICK h : h = Len(asked) + 1
  OBVIOUS
<1> DEFINE x == Started(t)
<1>4. /\ h \in Nat /\ asked' \in Seq(Fetch) /\ Len(asked') = h
      /\ asked'[h].turn = t /\ asked'[h].at = "sent" /\ asked'[h].via = Transport
      /\ Len(asked') <= MaxFetches /\ Transport \in Hooks
      /\ busy' \in [Hooks -> BOOLEAN] /\ controller' \in [Hooks -> Nat]
      /\ transport' = Transport /\ pending' = t /\ target' = b
      /\ requestOf' = requestOf /\ bubbleOf' = bubbleOf
      /\ \A c \in 1 .. Len(bubbles) : bubbles[c].status = "streaming" => c \in left
      /\ OneFetch' /\ Generating' /\ \A k \in Hooks : busy'[k] => k = Transport
  <2> HIDE DEF x
  <2> QED
    BY <1>1, <1>2, <1>3, StartsOne
<1>5. x \in Bubble /\ x.turn = t /\ x.texts = {}
  BY <1>2, StartedIs
<1>6. bubbles' = [bubbles EXCEPT ![b] = x] /\ current' = b /\ turns' = turns
  BY <1>2 DEF Retry, Retried
<1> HIDE DEF x
<1>7. /\ bubbles' \in Seq(Bubble) /\ Len(bubbles') = Len(bubbles) /\ bubbles'[b] = x
      /\ \A j \in 1 .. Len(bubbles) : j # b => bubbles'[j] = bubbles[j]
  BY <1>1, <1>5, <1>6, Replaced
<1>8. TypeOK'
  BY <1>1, <1>2, <1>4, <1>6, <1>7 DEF AloneInv, TypeOK
<1>9. Bounded'
  BY <1>1, <1>3, <1>4, <1>7 DEF AloneInv, Bounded, Bubbles
<1>10. OwnTurn'
  BY <1>2, <1>4, <1>5, <1>7 DEF AloneInv, OwnTurn
<1>11. NoneLeft'
  BY <1>4, <1>6, <1>7 DEF NoneLeft
<1>12. Serving'
  <2>1. Served(h)'
    BY <1>1, <1>2, <1>4, <1>5, <1>6, <1>7 DEF Served
  <2> QED
    BY <2>1, <1>1, <1>3, <1>4 DEF Serving
<1> QED
  BY <1>4, <1>8, <1>9, <1>10, <1>11, <1>12 DEF AloneInv
------------------------------------------------------------------------------
(* The invariant, and what follows from it.                                *)

LEMMA InitGivesInv ==
  Init => ConsumerInv
<1> SUFFICES ASSUME Init PROVE AloneInv
  BY DEF ConsumerInv
<1>1. bubbles = <<>> /\ asked = <<>> /\ Len(bubbles) = 0 /\ Len(asked) = 0
  BY DEF Init
<1>2. bubbles \in Seq(Bubble) /\ asked \in Seq(Fetch)
  BY <1>1
<1>3. TypeOK
  BY <1>2 DEF Init, TypeOK
<1>4. Bounded
  BY <1>1, BoundsAssumption DEF Init, Bounded
<1>5. OwnTurn /\ OneFetch /\ NoneLeft
  BY <1>1 DEF OwnTurn, OneFetch, NoneLeft
<1>6. Serving
  BY DEF Init, Serving
<1> QED
  BY <1>3, <1>4, <1>5, <1>6 DEF AloneInv

LEMMA ResponseKeeps ==
  ASSUME AloneInv, Response
  PROVE  AloneInv'
<1>1. DOMAIN asked = 1 .. Len(asked)
  BY RoomForAll
<1>2. CASE \E f \in DOMAIN asked : Arrives(f) /\ UNCHANGED <<signedIn, left>>
  <2>1. PICK f \in 1 .. Len(asked) : Arrives(f) /\ left' = left
    BY <1>1, <1>2
  <2>2. CASE OnStart(f)
    BY <2>1, <2>2, OnStartKeeps
  <2>3. CASE OnEnd(f)
    BY <2>1, <2>3, OnEndKeeps
  <2>4. CASE Closes(f) \/ Aborted(f)
    BY <2>1, <2>4, ClosesKeeps
  <2>5. CASE OnErrorFrame(f)
    BY <2>1, <2>5, OnErrorFrameKeeps
  <2>6. CASE \E text \in BOOLEAN : OnComplete(f, text)
    BY <2>1, <2>6, OnCompleteKeeps
  <2>7. CASE Drops(f)
    <3>1. asked[f].at \in {"sent", "open", "ended"} /\ OnException(f, "interrupted", FALSE)
      BY <2>7 DEF Drops
    <3> QED
      BY <2>1, <3>1, OnExceptionKeeps
  <2> QED
    BY <2>1, <2>2, <2>3, <2>4, <2>5, <2>6, <2>7 DEF Arrives
<1>3. CASE \E f \in DOMAIN asked : CutShort(f) /\ left' = left \cup Untold
  BY <1>1, <1>3, CutShortKeeps
<1>4. CASE \E f \in DOMAIN asked, kind \in Refusals :
             /\ Refused(f, kind)
             /\ left' = IF kind = "other" THEN left ELSE left \cup Untold
  <2>1. PICK f \in 1 .. Len(asked), kind \in Refusals :
          /\ Refused(f, kind)
          /\ left' = IF kind = "other" THEN left ELSE left \cup Untold
    BY <1>1, <1>4
  <2> DEFINE status == IF kind = "other" THEN "error" ELSE ""
             quota == kind = "quota"
  <2>2. asked[f].at = "sent" /\ OnException(f, status, quota)
    BY <2>1 DEF Refused
  <2>3. /\ status \in {"", "error", "interrupted"} /\ left \subseteq left'
        /\ status = "" => current = 0 \/ current \in left'
    BY <2>1 DEF Untold
  <2> HIDE DEF status, quota
  <2> QED
    BY <2>2, <2>3, OnExceptionKeeps
<1> QED
  BY <1>2, <1>3, <1>4 DEF Response

LEMMA NextKeepsInv ==
  ConsumerInv /\ [Next]_all => ConsumerInv'
<1> SUFFICES ASSUME ConsumerInv, [Next]_all, Alone' PROVE AloneInv'
  BY DEF ConsumerInv
<1>1. Alone
  BY DEF Alone, Next, Response, User, all
<1>2. AloneInv
  BY <1>1 DEF ConsumerInv
<1>3. DOMAIN asked = 1 .. Len(asked) /\ DOMAIN bubbles = 1 .. Len(bubbles)
  BY <1>2, RoomForAll
<1>4. CASE Response
  BY <1>2, <1>4, ResponseKeeps
<1>5. CASE User /\ UNCHANGED left
  <2>1. CASE \E toggled \in BOOLEAN : Send(toggled)
    BY <1>2, <1>5, <2>1, SendKeeps
  <2>2. CASE Stop
    BY <1>2, <1>5, <2>2, StopKeeps
  <2>3. CASE (\E b \in DOMAIN bubbles : Retry(b)) /\ overlap' = (overlap \/ Generating)
    <3>1. ~Generating
      BY <2>3 DEF Alone
    <3> QED
      BY <1>2, <1>3, <1>5, <2>3, <3>1, RetryKeeps
  <2> QED
    BY <1>5, <2>1, <2>2, <2>3 DEF User
<1>6. CASE (\E f \in DOMAIN asked : OnDelta(f)) /\ UNCHANGED <<streaming, signedIn, overlap, left>>
  BY <1>2, <1>3, <1>6, OnDeltaKeeps
<1>7. CASE (SignsIn \/ HealthAnswers) /\ UNCHANGED <<overlap, left>>
  <2>1. UNCHANGED <<turns, bubbles, asked, busy, controller, refs, requestOf, bubbleOf,
                    stopped>>
    BY <1>7 DEF SignsIn, HealthAnswers, vars
  <2> QED
    BY <1>2, <1>7, <2>1, UnchangedKeeps
<1>8. CASE UNCHANGED all
  <2>1. UNCHANGED <<turns, bubbles, asked, busy, controller, refs, requestOf, bubbleOf,
                    stopped, left>>
    BY <1>8 DEF all, vars
  <2> QED
    BY <1>2, <2>1, UnchangedKeeps
<1> QED
  BY <1>4, <1>5, <1>6, <1>7, <1>8 DEF Next

(* While no retry has been made beside a running request, at most one fetch  *)
(* runs, the last one, and as long as it does the refs describe it.          *)
THEOREM ConsumerInvariant ==
  Spec => []ConsumerInv
<1>1. Init => ConsumerInv
  BY InitGivesInv
<1>2. ConsumerInv /\ [Next]_all => ConsumerInv'
  BY NextKeepsInv
<1> QED
  BY <1>1, <1>2, PTL DEF Spec

(* Text goes to the bubble of the turn it answers, whatever refs a request   *)
(* that was stopped, refused or cut short has left: as long as no retry was  *)
(* made beside a running request.                                            *)
THEOREM TextStaysInItsTurn ==
  Spec => []TextFromOwnTurn
<1>1. ConsumerInv => TextFromOwnTurn
  <2> SUFFICES ASSUME AloneInv PROVE TextFromOwnTurn
    BY DEF ConsumerInv, TextFromOwnTurn
  <2> QED
    BY RoomForAll DEF TextFromOwnTurn, AloneInv, OwnTurn
<1> QED
  BY <1>1, ConsumerInvariant, PTL

(* As long as no retry was made beside a running request, a bubble that      *)
(* shows an answer in progress has a request in flight that will tell it the *)
(* end, or is one of those whose own request was refused for the quota or    *)
(* the access token, or was cut short.                                       *)
THEOREM NoBubbleDangles ==
  Spec => []NoDanglingBubble
<1>1. ConsumerInv => NoDanglingBubble
  <2> SUFFICES ASSUME AloneInv, NEW b \in DOMAIN bubbles,
                      bubbles[b].status = "streaming", b \notin left
               PROVE  Awaits(b)
    BY DEF ConsumerInv, NoDanglingBubble
  <2>1. DOMAIN bubbles = 1 .. Len(bubbles) /\ DOMAIN asked = 1 .. Len(asked)
    BY RoomForAll
  <2>2. b = current /\ b # 0 /\ Generating
    BY <2>1 DEF AloneInv, NoneLeft
  <2>3. PICK f \in 1 .. Len(asked) : asked[f].at # "over"
    BY <2>2, Works
  <2>4. Served(f)
    BY <2>3, Running
  <2>5. f \in InFlight /\ asked[f].turn = bubbles[b].turn
    BY <2>1, <2>2, <2>3, <2>4 DEF InFlight, Served
  <2> QED
    BY <2>2, <2>5 DEF Awaits
<1> QED
  BY <1>1, ConsumerInvariant, PTL

(* The request kept for a bubble is the one of its own turn, so a retry asks *)
(* what the user had asked there; as long as no retry was made beside a      *)
(* running request.                                                          *)
THEOREM RetriesAreOfOwnTurn ==
  Spec => []RetryOfOwnTurn
<1>1. ConsumerInv => RetryOfOwnTurn
  <2> SUFFICES ASSUME AloneInv PROVE RetryOfOwnTurn
    BY DEF ConsumerInv, RetryOfOwnTurn
  <2> QED
    BY RoomForAll DEF RetryOfOwnTurn, AloneInv, OwnTurn
<1> QED
  BY <1>1, ConsumerInvariant, PTL
==============================================================================
