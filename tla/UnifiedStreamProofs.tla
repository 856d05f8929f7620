-------------------------- MODULE UnifiedStreamProofs --------------------------
(***************************************************************************)
(* What one response sends, stores and asks for, proved for any number of  *)
(* iterations, calls and chunks and any failing stores.                    *)
(*                                                                         *)
(* The heart of the invariant is Course: for every place of the generator, *)
(* what it still has in front of it, together with what the client has     *)
(* seen and what is stored.  An end frame lies in front only after the     *)
(* complete message, an error frame only when there is none.               *)
(***************************************************************************)
EXTENDS UnifiedStream, TLAPS

Before == {"routing", "retrieving", "looping", "asking", "calling", "handling"}
Places == Before \cup {"answering", "polling", "pulling", "finished", "torn"}

ToolFrames == [kind : {"tool_start", "tool_end"}, call : Calls]
Messages   == [status : {"complete", "interrupted", "error"}, size : Nat]
Entries    == [kind : {"assistant"}, calls : 0 .. MaxCalls]
                \cup [kind : {"result"}, call : 1 .. MaxCalls]

Types ==
  /\ req \in Requests /\ pc \in Places
  /\ iteration \in 0 .. MaxIterations /\ batch \in 0 .. MaxCalls
  /\ next \in 1 .. MaxCalls + 1
  /\ chunks \in Nat /\ collected \in Nat /\ shown \in Nat
  /\ view \in [phase : F!Phases, running : SUBSET Calls]
  /\ pad \in Seq(Entries) /\ frames \in Seq(ToolFrames) /\ rows \in Seq(Messages)
------------------------------------------------------------------------------
(* --- the conversation --- *)

(* Where the entry of the announcement in progress is, while calls are left. *)
Open(i) == pc \in {"calling", "handling"} /\ i = Len(pad) - (next - 1)

(* Every announcement has its results, the last one those of the calls made. *)
ResultsFollow ==
  \A i \in 1 .. Len(pad) : pad[i].kind = "assistant" =>
    \A c \in 1 .. pad[i].calls :
      \/ i + c \in 1 .. Len(pad) /\ pad[i + c] = ResultOf(c)
      \/ Open(i) /\ c >= next

AnnouncedFirst ==
  \A i \in 1 .. Len(pad) : pad[i].kind = "result" =>
    i > pad[i].call /\ pad[i - pad[i].call].kind = "assistant"

Announced(i) ==
  /\ i \in 1 .. Len(pad) /\ pad[i] = AssistantCalls(batch)
  /\ next <= batch + 1 /\ iteration >= 1

PadInv ==
  /\ pc \in Before \cup {"answering", "polling", "pulling"} =>
       ResultsFollow /\ AnnouncedFirst
  /\ pc \in {"calling", "handling"} => Announced(Len(pad) - (next - 1))
  /\ pc = "handling" => next <= batch
  /\ pc = "asking" => iteration >= 1
------------------------------------------------------------------------------
(* --- the frames of the loop --- *)

(* Every start is followed by its end; only the last may still be waited for. *)
Alternate(s, waiting) ==
  /\ \A i \in 1 .. Len(s) :
       /\ s[i].kind = "tool_start" =>
            IF i = Len(s) THEN s[i].call \in waiting
            ELSE s[i + 1].kind = "tool_end" /\ s[i + 1].call = s[i].call
       /\ s[i].kind = "tool_end" /\ i < Len(s) => s[i + 1].kind = "tool_start"
  /\ (s = <<>> \/ s[Len(s)].kind = "tool_end") => waiting = {}

(* What comes first of them fits what the client has seen. *)
Fits(v, s) ==
  /\ v.phase = "preparing"
  /\ IF s # <<>> /\ s[1].kind = "tool_end" THEN v.running = {s[1].call}
     ELSE v.running = {}

FramesInv ==
  pc \in Before =>
    /\ Alternate(frames, IF pc = "handling" THEN {Id(next)} ELSE {})
    /\ frames # <<>> => frames[1].kind = "tool_start"
------------------------------------------------------------------------------
(* --- the course of the response --- *)

Phase(p) == view.phase = p /\ view.running = {}

Stored   == \E i \in DOMAIN rows : rows[i].status = "complete"
Unstored == \A i \in DOMAIN rows : rows[i].status # "complete"

(* The frames of the loop are in front, and then rest. *)
ToolsBefore(rest) ==
  \E s \in Seq(ToolFrames) : Alternate(s, {}) /\ Fits(view, s) /\ todo = s \o rest

Replaying ==
  /\ rows = <<>>
  /\ \/ Phase("preparing") /\ todo \in {<<Frame("start"), Frame("end")>>,
                                        <<Frame("start"), Frame("delta"), Frame("end")>>}
     \/ Phase("answering") /\ todo \in {<<Frame("end")>>, <<Frame("delta"), Frame("end")>>}
     \/ Phase("ended") /\ todo = <<>>

(* Static content, before it is stored *)
Canned ==
  \E scope \in {"static", "denial"} :
    /\ IF scope = "static" THEN rows = <<>> /\ dbUp ELSE ~req.user
    /\ \/ ToolsBefore(Static(scope))
       \/ Phase("answering") /\ todo = Tail(Static(scope))
       \/ Phase("answering") /\ todo = Tail(Tail(Static(scope))) /\ shown >= 1

Told ==
  /\ Stored
  /\ \/ Phase("answering") /\ todo = <<Frame("end")>>
     \/ Phase("ended") /\ todo = <<>>

Refused ==
  /\ Unstored
  /\ \/ Phase("preparing") /\ todo = ErrorResponse
     \/ Phase("answering") /\ todo = <<Frame("error")>>
     \/ Phase("failed") /\ todo = <<>>

RefusedUnstored ==
  /\ Phase("preparing") /\ rows = <<>>
  /\ todo = <<Store("error", 0, "best_effort"), Frame("start"), Frame("error")>>

(* An outcome of the streamed answer, before it is stored *)
Answered ==
  /\ Phase("answering") /\ rows = <<>> /\ collected <= shown
  /\ todo \in {<<Store("interrupted", collected, "answer")>>,
               <<Store("error", 0, "answer"), Frame("error")>>,
               <<Store("complete", collected, "answer"), Frame("end")>>,
               Excuse}

Interrupted == Phase("answering") /\ todo = <<>>

(* A second start frame: only where static content could not be stored. *)
Doubled ==
  /\ "static" \in StoresMayFail
  /\ \/ Phase("answering") /\ todo = ErrorResponse
     \/ view.phase = "broken" /\ todo \in {<<Frame("error")>>, <<>>}

Closing ==
  IF req.replay THEN Replaying
  ELSE Canned \/ Told \/ Refused \/ RefusedUnstored \/ Answered \/ Interrupted \/ Doubled

Course ==
  /\ pc \in Before => rows = <<>> /\ dbUp /\ collected = 0 /\ Phase("preparing")
  /\ pc \in (Before \ {"routing"}) \cup {"answering", "polling", "pulling"} => ~req.replay
  /\ pc \in Before \ {"looping"} => todo = <<>>
  /\ pc = "looping" => todo \in {<<>>, <<Frame("retrieval_complete")>>}
  /\ pc = "answering" =>
       /\ rows = <<>> /\ dbUp /\ collected = 0
       /\ \/ Phase("preparing") /\ todo = <<Frame("retrieval_complete")>>
          \/ ToolsBefore(<<>>)
  /\ pc = "polling" =>
       /\ rows = <<>> /\ dbUp
       /\ \/ Phase("preparing") /\ todo = <<Frame("start")>> /\ collected = 0
          \/ Phase("answering") /\ todo = <<>> /\ collected <= shown
          \/ Phase("answering") /\ todo = <<Frame("delta")>> /\ collected <= shown + 1
  /\ pc = "pulling" =>
       rows = <<>> /\ dbUp /\ Phase("answering") /\ todo = <<>> /\ collected <= shown
  /\ pc = "finished" => Closing
  /\ pc = "torn" => todo = <<>>

NoticeInv == noticed => ~connected

StreamInv ==
  Types /\ PadInv /\ FramesInv /\ Course /\ NoticeInv
  /\ StoredWasShown /\ TerminalMatchesStore
------------------------------------------------------------------------------
(* --- sequences --- *)

(* Frames leave a sequence that starts with those of the loop one by one.    *)
LEMMA FirstOfJoin ==
  ASSUME NEW S, NEW s \in Seq(S), NEW rest \in Seq(S), s # <<>>
  PROVE  /\ s \o rest # <<>> /\ Head(s \o rest) = s[1] /\ Tail(s \o rest) = Tail(s) \o rest
         /\ Tail(s) \in Seq(S) /\ Len(Tail(s)) = Len(s) - 1
         /\ \A i \in 1 .. Len(Tail(s)) : Tail(s)[i] = s[i + 1]
OBVIOUS

LEMMA JoinedTriple ==
  ASSUME NEW a, NEW b, NEW c
  PROVE  <<a>> \o <<b, c>> = <<a, b, c>>
<1> DEFINE S == {a, b, c}  s == <<a>> \o <<b, c>>  t == <<a, b, c>>
<1>1. s \in Seq(S) /\ t \in Seq(S)
  OBVIOUS
<1>2. Len(s) = Len(t) /\ \A i \in 1 .. Len(s) :  s[i] = t[i]
  OBVIOUS
<1> HIDE DEF S, s, t
<1>3. s = t
  BY <1>1, <1>2
<1> QED
  BY <1>3 DEF s, t

LEMMA JoinedPair ==
  ASSUME NEW a, NEW b
  PROVE  <<a>> \o <<>> \o <<b>> = <<a, b>>
<1> DEFINE S == {a, b}  s == <<a>> \o <<>> \o <<b>>  t == <<a, b>>
<1>1. s \in Seq(S) /\ t \in Seq(S)
  OBVIOUS
<1>2. Len(s) = Len(t) /\ \A i \in 1 .. Len(s) :  s[i] = t[i]
  OBVIOUS
<1> HIDE DEF S, s, t
<1>3. s = t
  BY <1>1, <1>2
<1> QED
  BY <1>3 DEF s, t

LEMMA JoinedThree ==
  ASSUME NEW a, NEW b, NEW c
  PROVE  <<a>> \o <<b>> \o <<c>> = <<a, b, c>>
<1> DEFINE S == {a, b, c}  s == <<a>> \o <<b>> \o <<c>>  t == <<a, b, c>>
<1>1. s \in Seq(S) /\ t \in Seq(S)
  OBVIOUS
<1>2. Len(s) = Len(t) /\ \A i \in 1 .. Len(s) :  s[i] = t[i]
  OBVIOUS
<1> HIDE DEF S, s, t
<1>3. s = t
  BY <1>1, <1>2
<1> QED
  BY <1>3 DEF s, t

(* The frames of a call enter the frames of the loop. *)
LEMMA StartJoins ==
  ASSUME NEW s \in Seq(ToolFrames), NEW c \in Calls, Alternate(s, {}),
         s # <<>> => s[1].kind = "tool_start"
  PROVE  LET t == s \o <<ToolFrame("tool_start", c)>>
         IN  /\ t \in Seq(ToolFrames) /\ Alternate(t, {c}) /\ t # <<>>
             /\ t[1].kind = "tool_start"
<1> DEFINE f == ToolFrame("tool_start", c)  t == s \o <<f>>
<1>1. f \in ToolFrames /\ f.kind = "tool_start" /\ f.call = c
  BY DEF ToolFrame, ToolFrames
<1> HIDE DEF f
<1>2. /\ t \in Seq(ToolFrames) /\ Len(t) = Len(s) + 1 /\ t[Len(t)] = f
      /\ \A i \in 1 .. Len(s) : t[i] = s[i]
  BY <1>1
<1> HIDE DEF t
<1>3. Alternate(t, {c})
  <2>1. ASSUME NEW i \in 1 .. Len(t), t[i].kind = "tool_start", i # Len(t)
        PROVE  t[i + 1].kind = "tool_end" /\ t[i + 1].call = t[i].call
    <3>1. i \in 1 .. Len(s) /\ t[i] = s[i]
      BY <1>2, <2>1
    <3>2. i # Len(s)
      BY <2>1, <3>1 DEF Alternate
    <3> QED
      BY <1>2, <2>1, <3>1, <3>2 DEF Alternate
  <2>2. ASSUME NEW i \in 1 .. Len(t), t[i].kind = "tool_end", i < Len(t)
        PROVE  t[i + 1].kind = "tool_start"
    <3>1. i \in 1 .. Len(s) /\ t[i] = s[i]
      BY <1>2, <2>2
    <3>2. CASE i = Len(s)
      BY <1>1, <1>2, <3>2
    <3>3. CASE i # Len(s)
      BY <1>2, <2>2, <3>1, <3>3 DEF Alternate
    <3> QED
      BY <3>2, <3>3
  <2> QED
    BY <1>1, <1>2, <2>1, <2>2 DEF Alternate
<1>4. t # <<>> /\ t[1].kind = "tool_start"
  BY <1>1, <1>2
<1> QED
  BY <1>2, <1>3, <1>4 DEF t, f

LEMMA EndJoins ==
  ASSUME NEW s \in Seq(ToolFrames), NEW c \in Calls, Alternate(s, {c}),
         s # <<>> => s[1].kind = "tool_start"
  PROVE  LET t == s \o <<ToolFrame("tool_end", c)>>
         IN  /\ t \in Seq(ToolFrames) /\ Alternate(t, {})
             /\ t # <<>> => t[1].kind = "tool_start"
<1> DEFINE f == ToolFrame("tool_end", c)  t == s \o <<f>>
<1>1. f \in ToolFrames /\ f.kind = "tool_end" /\ f.call = c
  BY DEF ToolFrame, ToolFrames
<1>2. s # <<>> /\ s[Len(s)].kind = "tool_start" /\ s[Len(s)].call = c
  <2>1. s # <<>> /\ s[Len(s)].kind # "tool_end"
    BY DEF Alternate
  <2>2. Len(s) \in 1 .. Len(s) /\ s[Len(s)] \in ToolFrames
    BY <2>1
  <2> QED
    BY <2>1, <2>2 DEF Alternate, ToolFrames
<1> HIDE DEF f
<1>3. /\ t \in Seq(ToolFrames) /\ Len(t) = Len(s) + 1 /\ t[Len(t)] = f
      /\ \A i \in 1 .. Len(s) : t[i] = s[i]
  BY <1>1
<1> HIDE DEF t
<1>4. Alternate(t, {})
  <2>1. ASSUME NEW i \in 1 .. Len(t), t[i].kind = "tool_start"
        PROVE  i # Len(t) /\ t[i + 1].kind = "tool_end" /\ t[i + 1].call = t[i].call
    <3>1. i \in 1 .. Len(s) /\ t[i] = s[i]
      BY <1>1, <1>3, <2>1
    <3>2. CASE i = Len(s)
      BY <1>1, <1>2, <1>3, <3>1, <3>2
    <3>3. CASE i # Len(s)
      BY <1>3, <2>1, <3>1, <3>3 DEF Alternate
    <3> QED
      BY <3>2, <3>3, <3>1, <1>3
  <2>2. ASSUME NEW i \in 1 .. Len(t), t[i].kind = "tool_end", i < Len(t)
        PROVE  t[i + 1].kind = "tool_start"
    <3>1. i \in 1 .. Len(s) /\ t[i] = s[i] /\ i # Len(s)
      BY <1>2, <1>3, <2>2
    <3> QED
      BY <1>3, <2>2, <3>1 DEF Alternate
  <2> QED
    BY <2>1, <2>2 DEF Alternate
<1>5. t[1].kind = "tool_start"
  BY <1>2, <1>3
<1> QED
  BY <1>3, <1>4, <1>5 DEF t, f

(* What is left of alternating frames when the first has been sent. *)
LEMMA RestAlternates ==
  ASSUME NEW s \in Seq(ToolFrames), s # <<>>, Alternate(s, {})
  PROVE  /\ Tail(s) \in Seq(ToolFrames) /\ Alternate(Tail(s), {})
         /\ s[1] \in ToolFrames
         /\ s[1].kind = "tool_start" => /\ Tail(s) # <<>> /\ Tail(s)[1].kind = "tool_end"
                                        /\ Tail(s)[1].call = s[1].call
         /\ s[1].kind = "tool_end" /\ Tail(s) # <<>> => Tail(s)[1].kind = "tool_start"
<1> DEFINE t == Tail(s)
<1>1. /\ t \in Seq(ToolFrames) /\ Len(t) = Len(s) - 1 /\ Len(s) \in Nat /\ Len(s) >= 1
      /\ \A i \in 1 .. Len(t) : t[i] = s[i + 1]
  OBVIOUS
<1>2. s[1] \in ToolFrames
  BY <1>1
<1> HIDE DEF t
<1>3. Alternate(t, {})
  <2>1. ASSUME NEW i \in 1 .. Len(t), t[i].kind = "tool_start"
        PROVE  i # Len(t) /\ t[i + 1].kind = "tool_end" /\ t[i + 1].call = t[i].call
    <3>1. i + 1 \in 1 .. Len(s) /\ t[i] = s[i + 1] /\ i + 1 # Len(s)
      BY <1>1, <2>1 DEF Alternate
    <3> DEFINE k == i + 1
    <3>2. s[k + 1].kind = "tool_end" /\ s[k + 1].call = s[k].call
      BY <2>1, <3>1 DEF Alternate
    <3>3. i # Len(t) /\ k \in 1 .. Len(t) /\ t[k] = s[k + 1]
      BY <1>1, <3>1
    <3> QED
      BY <3>1, <3>2, <3>3
  <2>2. ASSUME NEW i \in 1 .. Len(t), t[i].kind = "tool_end", i < Len(t)
        PROVE  t[i + 1].kind = "tool_start"
    BY <1>1, <2>2 DEF Alternate
  <2> QED
    BY <2>1, <2>2 DEF Alternate
<1>4. s[1].kind = "tool_start" => t # <<>> /\ t[1].kind = "tool_end" /\ t[1].call = s[1].call
  <2> SUFFICES ASSUME s[1].kind = "tool_start"
               PROVE  t # <<>> /\ t[1].kind = "tool_end" /\ t[1].call = s[1].call
    OBVIOUS
  <2>1. Len(s) # 1
    BY <1>1 DEF Alternate
  <2> QED
    BY <1>1, <2>1 DEF Alternate
<1>5. s[1].kind = "tool_end" /\ t # <<>> => t[1].kind = "tool_start"
  BY <1>1 DEF Alternate
<1> QED
  BY <1>1, <1>2, <1>3, <1>4, <1>5 DEF t
------------------------------------------------------------------------------
(* --- what the client sees of a frame --- *)

Views == [phase : F!Phases, running : SUBSET Calls]

LEMMA SeesStart ==
  ASSUME NEW v \in Views, NEW f, f.kind = "start", v.phase = "preparing"
  PROVE  /\ F!Legal(v, f) /\ F!Receive(v, f) \in Views
         /\ F!Receive(v, f).phase = "answering" /\ F!Receive(v, f).running = v.running
BY DEF Views, F!Legal, F!Receive, F!Phases

LEMMA SeesDelta ==
  ASSUME NEW v \in Views, NEW f, f.kind = "delta", v.phase = "answering"
  PROVE  F!Legal(v, f) /\ F!Receive(v, f) = v
BY DEF Views, F!Legal, F!Receive, F!Phases

LEMMA SeesRetrieval ==
  ASSUME NEW v \in Views, NEW f, f.kind = "retrieval_complete",
         v.phase = "preparing", v.running = {}
  PROVE  F!Legal(v, f) /\ F!Receive(v, f) = v
BY DEF Views, F!Legal, F!Receive, F!Phases

LEMMA SeesEnd ==
  ASSUME NEW v \in Views, NEW f, f.kind = "end", v.phase = "answering", v.running = {}
  PROVE  /\ F!Legal(v, f) /\ F!Receive(v, f) \in Views
         /\ F!Receive(v, f).phase = "ended" /\ F!Receive(v, f).running = {}
BY DEF Views, F!Legal, F!Receive, F!Phases

LEMMA SeesError ==
  ASSUME NEW v \in Views, NEW f, f.kind = "error", v.phase = "answering"
  PROVE  /\ F!Legal(v, f) /\ F!Receive(v, f) \in Views
         /\ F!Receive(v, f).phase = "failed" /\ F!Receive(v, f).running = v.running
BY DEF Views, F!Legal, F!Receive, F!Phases

LEMMA SeesToolStart ==
  ASSUME NEW v \in Views, NEW f \in ToolFrames, f.kind = "tool_start",
         v.phase = "preparing", v.running = {}
  PROVE  /\ F!Legal(v, f) /\ F!Receive(v, f) \in Views
         /\ F!Receive(v, f).phase = "preparing" /\ F!Receive(v, f).running = {f.call}
<1> DEFINE w == v.running \cup {f.call}
<1>1. w \in SUBSET Calls /\ w = {f.call}
  BY DEF Views, ToolFrames
<1>2. F!Legal(v, f) /\ F!Receive(v, f) = [v EXCEPT !.running = w]
  BY DEF F!Legal, F!Receive
<1> HIDE DEF w
<1> QED
  BY <1>1, <1>2 DEF Views

LEMMA SeesToolEnd ==
  ASSUME NEW v \in Views, NEW f \in ToolFrames, f.kind = "tool_end",
         v.phase = "preparing", v.running = {f.call}
  PROVE  /\ F!Legal(v, f) /\ F!Receive(v, f) \in Views
         /\ F!Receive(v, f).phase = "preparing" /\ F!Receive(v, f).running = {}
<1> DEFINE w == v.running \ {f.call}
<1>1. w \in SUBSET Calls /\ w = {}
  BY DEF Views, ToolFrames
<1>2. F!Legal(v, f) /\ F!Receive(v, f) = [v EXCEPT !.running = w]
  BY DEF F!Legal, F!Receive
<1> HIDE DEF w
<1> QED
  BY <1>1, <1>2 DEF Views

(* A frame out of place *)
LEMMA SeesBroken ==
  ASSUME NEW v \in Views, NEW f, ~F!Legal(v, f)
  PROVE  F!Receive(v, f) \in Views /\ F!Receive(v, f).phase = "broken"
BY DEF Views, F!Receive, F!Phases

(* The first of the frames of the loop is sent. *)
LEMMA ToolFrameSent ==
  ASSUME view \in Views, NEW s \in Seq(ToolFrames), s # <<>>, Alternate(s, {}),
         Fits(view, s)
  PROVE  LET v == F!Receive(view, s[1])
         IN  /\ s[1] \in ToolFrames /\ F!Legal(view, s[1]) /\ v \in Views
             /\ Tail(s) \in Seq(ToolFrames) /\ Alternate(Tail(s), {}) /\ Fits(v, Tail(s))
<1>1. s[1] \in ToolFrames /\ s[1].kind \in {"tool_start", "tool_end"}
  BY RestAlternates DEF ToolFrames
<1>2. CASE s[1].kind = "tool_start"
  BY <1>1, <1>2, RestAlternates, SeesToolStart DEF Fits
<1>3. CASE s[1].kind = "tool_end"
  BY <1>1, <1>3, RestAlternates, SeesToolEnd DEF Fits
<1> QED
  BY <1>1, <1>2, <1>3
------------------------------------------------------------------------------
(* --- steps --- *)

LEMMA Numbers ==
  /\ MaxIterations \in Nat /\ MaxCalls \in Nat /\ MaxChunks \in Nat
  /\ MaxIterations >= 1 /\ MaxCalls >= 1
BY UnifiedAssumption

LEMMA CallNumber ==
  ASSUME iteration \in 0 .. MaxIterations, iteration >= 1, NEW c \in 1 .. MaxCalls
  PROVE  Id(c) \in Calls
<1>1. \A i, m, n \in Nat : \A k \in 1 .. m :
        1 <= i /\ i <= n => (i - 1) * m + k \in 1 .. n * m
  OBVIOUS
<1> QED
  BY <1>1, Numbers DEF Id, Calls

LEMMA InitInv == Init => StreamInv
<1> SUFFICES ASSUME Init PROVE StreamInv
  OBVIOUS
<1> USE DEF Init
<1>1. Types
  BY Numbers DEF Types, Places, Before, F!Nothing, F!Phases
<1>2. PadInv /\ FramesInv /\ NoticeInv
  BY DEF PadInv, FramesInv, NoticeInv, Alternate, ResultsFollow, AnnouncedFirst
<1>3. Course
  BY DEF Course, Before, Phase, F!Nothing
<1>4. StoredWasShown /\ TerminalMatchesStore
  BY DEF StoredWasShown, TerminalMatchesStore, F!Nothing
<1> QED
  BY <1>1, <1>2, <1>3, <1>4 DEF StreamInv

(* A round of calls is announced. *)
LEMMA AnnouncesKeepsPad ==
  ASSUME StreamInv, NEW n \in 0 .. MaxCalls, AskAnswers(n)
  PROVE  PadInv' /\ pad' \in Seq(Entries)
<1> USE DEF AskAnswers, At, Goes
<1>1. pc = "asking" /\ pad \in Seq(Entries) /\ next \in Nat
  BY DEF StreamInv, Types
<1>2. CASE n = 0
  BY <1>1, <1>2 DEF StreamInv, PadInv, Open, LeavesLoop, Before, ResultsFollow, AnnouncedFirst
<1>3. CASE n > 0
  <2>1. pc' = "calling" /\ pad' = Append(pad, AssistantCalls(n)) /\ next' = 1 /\ batch' = n
    BY <1>3
  <2>2. AssistantCalls(n) \in Entries /\ AssistantCalls(n).kind = "assistant"
        /\ AssistantCalls(n).calls = n
    BY Numbers DEF AssistantCalls, Entries
  <2>3. /\ pad' \in Seq(Entries) /\ Len(pad') = Len(pad) + 1
        /\ pad'[Len(pad')] = AssistantCalls(n) /\ \A i \in 1 .. Len(pad) : pad'[i] = pad[i]
    BY <1>1, <2>1, <2>2
  <2>4. iteration' >= 1
    BY <1>1, <1>3 DEF StreamInv, PadInv, Before
  <2>5. ASSUME NEW i \in 1 .. Len(pad'), pad'[i].kind = "assistant", NEW c \in 1 .. pad'[i].calls
        PROVE  \/ i + c \in 1 .. Len(pad') /\ pad'[i + c] = ResultOf(c)
               \/ Open(i)' /\ c >= next'
    <3>1. CASE i = Len(pad')
      BY <2>1, <2>2, <2>3, <2>5, <3>1 DEF Open
    <3>2. CASE i # Len(pad')
      <4>1. i \in 1 .. Len(pad) /\ pad'[i] = pad[i]
        BY <2>3, <3>2
      <4>2. i + c \in 1 .. Len(pad) /\ pad[i + c] = ResultOf(c)
        BY <1>1, <2>5, <4>1 DEF StreamInv, PadInv, ResultsFollow, Before, Open
      <4> QED
        BY <1>1, <2>3, <4>2
    <3> QED
      BY <3>1, <3>2
  <2>6. ASSUME NEW i \in 1 .. Len(pad'), pad'[i].kind = "result"
        PROVE  i > pad'[i].call /\ pad'[i - pad'[i].call].kind = "assistant"
    <3>1. i \in 1 .. Len(pad) /\ pad'[i] = pad[i]
      BY <2>2, <2>3, <2>6
    <3>2. i > pad[i].call /\ pad[i - pad[i].call].kind = "assistant"
      BY <1>1, <2>6, <3>1 DEF StreamInv, PadInv, AnnouncedFirst, Before
    <3>3. pad[i].call \in Nat /\ pad[i].call >= 1
      BY <1>1, <2>6, <3>1 DEF Entries
    <3>4. i - pad[i].call \in 1 .. Len(pad)
      BY <3>1, <3>2, <3>3
    <3> QED
      BY <2>3, <3>1, <3>2, <3>4
  <2>7. ResultsFollow'
    BY <2>5 DEF ResultsFollow
  <2>8. AnnouncedFirst'
    BY <2>6 DEF AnnouncedFirst
  <2>9. Announced(Len(pad) - (next - 1))'
    BY <2>1, <2>3, <2>4 DEF Announced
  <2> QED
    BY <2>1, <2>3, <2>7, <2>8, <2>9 DEF PadInv
<1> QED
  BY <1>2, <1>3

(* A result is recorded, of a call that ran or of one that did not.          *)
LEMMA ConcludesKeepsPad ==
  ASSUME StreamInv, NEW opening, pc \in {"calling", "handling"}, next <= batch,
         Concludes(next, opening), UNCHANGED <<iteration, batch>>
  PROVE  PadInv' /\ pad' \in Seq(Entries) /\ next' \in 1 .. MaxCalls + 1
<1> DEFINE j == Len(pad) - (next - 1)
<1>1. /\ pad \in Seq(Entries) /\ next \in Nat /\ batch \in Nat /\ batch <= MaxCalls
      /\ next >= 1 /\ iteration >= 1
      /\ j \in 1 .. Len(pad) /\ pad[j] = AssistantCalls(batch)
  BY Numbers DEF StreamInv, Types, PadInv, Before, Announced
<1>2. pc' = "calling" /\ pad' = Append(pad, ResultOf(next)) /\ next' = next + 1
  BY DEF Concludes, Goes
<1>3. ResultOf(next) \in Entries /\ ResultOf(next).kind = "result" /\ ResultOf(next).call = next
  BY <1>1, Numbers DEF ResultOf, Entries
<1>4. /\ pad' \in Seq(Entries) /\ Len(pad') = Len(pad) + 1
      /\ pad'[Len(pad')] = ResultOf(next) /\ \A i \in 1 .. Len(pad) : pad'[i] = pad[i]
  BY <1>1, <1>2, <1>3
<1>5. j = Len(pad') - (next' - 1) /\ j \in 1 .. Len(pad')
  BY <1>1, <1>2, <1>4
<1>6. AssistantCalls(batch).kind = "assistant" /\ AssistantCalls(batch).calls = batch
  BY DEF AssistantCalls
<1>7. ASSUME NEW i \in 1 .. Len(pad'), pad'[i].kind = "assistant", NEW c \in 1 .. pad'[i].calls
      PROVE  \/ i + c \in 1 .. Len(pad') /\ pad'[i + c] = ResultOf(c)
             \/ Open(i)' /\ c >= next'
  <2>1. i \in 1 .. Len(pad) /\ pad'[i] = pad[i]
    BY <1>3, <1>4, <1>7
  <2>2. \/ i + c \in 1 .. Len(pad) /\ pad[i + c] = ResultOf(c)
        \/ i = j /\ c >= next
    BY <1>7, <2>1 DEF StreamInv, PadInv, ResultsFollow, Before, Open
  <2>3. CASE i + c \in 1 .. Len(pad) /\ pad[i + c] = ResultOf(c)
    BY <1>4, <2>3
  <2>4. CASE i = j /\ c = next
    BY <1>1, <1>4, <2>4
  <2>5. CASE i = j /\ c > next
    BY <1>1, <1>2, <1>5, <2>5 DEF Open
  <2> QED
    BY <1>1, <2>2, <2>3, <2>4, <2>5
<1>8. ASSUME NEW i \in 1 .. Len(pad'), pad'[i].kind = "result"
      PROVE  i > pad'[i].call /\ pad'[i - pad'[i].call].kind = "assistant"
  <2>1. CASE i = Len(pad')
    BY <1>1, <1>3, <1>4, <1>6, <2>1
  <2>2. CASE i # Len(pad')
    <3>1. i \in 1 .. Len(pad) /\ pad'[i] = pad[i]
      BY <1>4, <2>2
    <3>2. i > pad[i].call /\ pad[i - pad[i].call].kind = "assistant"
      BY <1>8, <3>1 DEF StreamInv, PadInv, AnnouncedFirst, Before
    <3>3. pad[i].call \in Nat /\ pad[i].call >= 1
      BY <1>1, <1>8, <3>1 DEF Entries
    <3>4. i - pad[i].call \in 1 .. Len(pad)
      BY <3>1, <3>2, <3>3
    <3> QED
      BY <1>4, <3>1, <3>2, <3>4
  <2> QED
    BY <2>1, <2>2
<1>9. ResultsFollow'
  BY <1>7 DEF ResultsFollow
<1>10. AnnouncedFirst'
  BY <1>8 DEF AnnouncedFirst
<1>11. Announced(Len(pad) - (next - 1))'
  BY <1>1, <1>2, <1>4, <1>5 DEF Announced
<1>12. next' \in 1 .. MaxCalls + 1
  BY <1>1, <1>2, Numbers
<1> QED
  BY <1>2, <1>4, <1>9, <1>10, <1>11, <1>12 DEF PadInv

(* Every other step leaves the conversation alone or is out of the loop.     *)
LEMMA OthersKeepPad ==
  ASSUME StreamInv, UNCHANGED <<pad, batch, next>>,
         \/ pc' = pc /\ UNCHANGED iteration
         \/ pc' \in {"finished", "torn"}
         \/ /\ pc \notin {"calling", "handling"} /\ pc \in Places \ {"finished", "torn"}
            /\ pc' \notin {"calling", "handling", "asking"}
         \/ pc = "looping" /\ pc' = "asking" /\ iteration' = iteration + 1
         \/ pc = "calling" /\ pc' = "looping" /\ next > batch
         \/ pc = "calling" /\ pc' = "handling" /\ next <= batch /\ UNCHANGED iteration
  PROVE  PadInv'
<1> DEFINE going == Before \cup {"answering", "polling", "pulling"}
<1>0. StreamInv /\ Types /\ PadInv
  BY DEF StreamInv
<1>1. CASE pc' = pc /\ UNCHANGED iteration
  BY <1>0, <1>1 DEF PadInv, ResultsFollow, AnnouncedFirst, Announced, Open
<1>2. CASE pc' \in {"finished", "torn"}
  BY <1>2 DEF PadInv, Before
<1>3. ASSUME pc \in going \ {"calling", "handling"}, pc' \notin {"calling", "handling"},
             pc' = "asking" => iteration' >= 1
      PROVE  PadInv'
  <2>1. ResultsFollow'
    BY <1>0, <1>3 DEF PadInv, ResultsFollow, Open
  <2>2. AnnouncedFirst'
    BY <1>0, <1>3 DEF PadInv, AnnouncedFirst
  <2> QED
    BY <1>3, <2>1, <2>2 DEF PadInv
<1>4. CASE /\ pc \notin {"calling", "handling"} /\ pc \in Places \ {"finished", "torn"}
           /\ pc' \notin {"calling", "handling", "asking"}
  BY <1>3, <1>4 DEF Places
<1>5. CASE pc = "looping" /\ pc' = "asking" /\ iteration' = iteration + 1
  BY <1>0, <1>3, <1>5, Numbers DEF Types, Before
<1>6. CASE pc = "calling" /\ pc' = "looping" /\ next > batch
  <2>1. ResultsFollow /\ AnnouncedFirst /\ Announced(Len(pad) - (next - 1))
    BY <1>0, <1>6 DEF PadInv, Before
  <2>2. ResultsFollow'
    <3>1. ASSUME NEW i \in 1 .. Len(pad), pad[i].kind = "assistant", NEW c \in 1 .. pad[i].calls
          PROVE  i + c \in 1 .. Len(pad) /\ pad[i + c] = ResultOf(c)
      <4>1. ~(Open(i) /\ c >= next)
        BY <1>0, <1>6, <2>1, <3>1, Numbers DEF Types, Open, Announced, AssistantCalls
      <4> QED
        BY <2>1, <3>1, <4>1 DEF ResultsFollow
    <3> QED
      BY <3>1 DEF ResultsFollow
  <2>3. AnnouncedFirst'
    BY <2>1 DEF AnnouncedFirst
  <2> QED
    BY <1>6, <2>2, <2>3 DEF PadInv
<1>7. CASE pc = "calling" /\ pc' = "handling" /\ next <= batch /\ UNCHANGED iteration
  <2>1. ResultsFollow /\ AnnouncedFirst /\ Announced(Len(pad) - (next - 1))
    BY <1>0, <1>7 DEF PadInv, Before
  <2>2. ResultsFollow' /\ AnnouncedFirst'
    BY <1>7, <2>1 DEF ResultsFollow, AnnouncedFirst, Open
  <2>3. Announced(Len(pad) - (next - 1))'
    BY <1>7, <2>1 DEF Announced
  <2> QED
    BY <1>7, <2>2, <2>3 DEF PadInv
<1> QED
  BY <1>1, <1>2, <1>4, <1>5, <1>6, <1>7

(* The frames of the loop alternate, through calls that run and calls that   *)
(* do not.                                                                   *)
LEMMA ConcludesKeepsFrames ==
  ASSUME StreamInv, next <= batch, UNCHANGED <<iteration>>,
         NEW opening, Concludes(next, opening),
         \/ pc = "calling" /\ opening = <<ToolFrame("tool_start", Id(next))>>
         \/ pc = "handling" /\ opening = <<>>
  PROVE  FramesInv' /\ frames' \in Seq(ToolFrames)
<1>0. Types /\ PadInv /\ FramesInv /\ pc \in Before
  BY DEF StreamInv, Before
<1>1. frames \in Seq(ToolFrames) /\ next \in 1 .. MaxCalls
  BY <1>0, Numbers DEF Types
<1>2. Id(next) \in Calls
  BY <1>0, <1>1, CallNumber DEF PadInv, Types, Announced
<1>3. /\ frames' = frames \o opening \o <<ToolFrame("tool_end", Id(next))>>
      /\ pc' = "calling"
  BY DEF Concludes, Goes
<1> DEFINE s == frames \o opening
<1>4. /\ s \in Seq(ToolFrames) /\ Alternate(s, {Id(next)})
      /\ s # <<>> => s[1].kind = "tool_start"
  <2>1. CASE pc = "calling" /\ opening = <<ToolFrame("tool_start", Id(next))>>
    BY <1>0, <1>1, <1>2, <2>1, StartJoins DEF FramesInv
  <2>2. CASE pc = "handling" /\ opening = <<>>
    <3>1. s = frames
      BY <1>1, <2>2
    <3> QED
      BY <1>0, <1>1, <2>2, <3>1 DEF FramesInv
  <2> QED
    BY <2>1, <2>2
<1> HIDE DEF s
<1>5. /\ frames' \in Seq(ToolFrames) /\ Alternate(frames', {})
      /\ frames' # <<>> => frames'[1].kind = "tool_start"
  BY <1>2, <1>3, <1>4, EndJoins DEF s
<1> QED
  BY <1>3, <1>5 DEF FramesInv

LEMMA StartKeepsFrames ==
  ASSUME StreamInv, pc = "calling", pc' = "handling", next <= batch,
         UNCHANGED <<iteration, next>>,
         frames' = frames \o <<ToolFrame("tool_start", Id(next))>>
  PROVE  FramesInv' /\ frames' \in Seq(ToolFrames)
<1>0. Types /\ PadInv /\ FramesInv /\ pc \in Before
  BY DEF StreamInv, Before
<1>1. frames \in Seq(ToolFrames) /\ next \in 1 .. MaxCalls
  BY <1>0, Numbers DEF Types
<1>2. Id(next) \in Calls /\ Id(next)' = Id(next)
  BY <1>0, <1>1, CallNumber DEF PadInv, Types, Announced, Id
<1>3. /\ frames' \in Seq(ToolFrames) /\ Alternate(frames', {Id(next)})
      /\ frames'[1].kind = "tool_start"
  BY <1>0, <1>1, <1>2, StartJoins DEF FramesInv
<1> QED
  BY <1>2, <1>3 DEF FramesInv

LEMMA OthersKeepFrames ==
  ASSUME StreamInv,
         \/ UNCHANGED <<frames, pc, iteration, next>>
         \/ UNCHANGED frames /\ pc' \notin Before
         \/ UNCHANGED frames /\ pc \in Before \ {"handling"} /\ pc' \in Before \ {"handling"}
         \/ frames' = <<>> /\ pc' # "handling"
  PROVE  FramesInv' /\ frames' \in Seq(ToolFrames)
<1>0. Types /\ FramesInv /\ frames \in Seq(ToolFrames)
  BY DEF StreamInv, Types
<1>1. CASE UNCHANGED <<frames, pc, iteration, next>>
  BY <1>0, <1>1 DEF FramesInv, Id
<1>2. CASE UNCHANGED frames /\ pc' \notin Before
  BY <1>0, <1>2 DEF FramesInv
<1>3. CASE UNCHANGED frames /\ pc \in Before \ {"handling"} /\ pc' \in Before \ {"handling"}
  BY <1>0, <1>3 DEF FramesInv
<1>4. CASE frames' = <<>> /\ pc' # "handling"
  BY <1>4 DEF FramesInv, Alternate
<1> QED
  BY <1>1, <1>2, <1>3, <1>4
------------------------------------------------------------------------------
(* --- the paths of a response --- *)

Steps == ToolFrames
           \cup {Frame(kind) : kind \in {"retrieval_complete", "start", "delta", "end", "error"}}
           \cup {Store("complete", 1, scope) : scope \in {"static", "denial"}}

LEMMA StaticSteps ==
  ASSUME NEW scope \in {"static", "denial"}
  PROVE  Static(scope) \in Seq(Steps)
BY DEF Static, Steps

(* The frames of the loop, which are few or none, come before what closes.   *)
LEMMA ToolsGoFirst ==
  ASSUME StreamInv, pc \in Before \ {"handling"}, UNCHANGED view,
         NEW rest \in Seq(Steps), todo' = frames \o rest
  PROVE  ToolsBefore(rest)'
<1>1. Types /\ FramesInv /\ Phase("preparing")
  BY DEF StreamInv, Course
<1>2. frames \in Seq(ToolFrames) /\ Alternate(frames, {})
  BY <1>1 DEF Types, FramesInv
<1>3. Fits(view', frames)
  BY <1>1 DEF FramesInv, Fits, Phase
<1> QED
  BY <1>2, <1>3 DEF ToolsBefore

LEMMA NoToolsFirst ==
  ASSUME view'.phase = "preparing", view'.running = {}, NEW rest \in Seq(Steps), todo' = rest
  PROVE  ToolsBefore(rest)'
<1>1. /\ <<>> \in Seq(ToolFrames) /\ Alternate(<<>>, {}) /\ Fits(view', <<>>)
      /\ rest = <<>> \o rest
  BY DEF Alternate, Fits
<1> QED
  BY <1>1 DEF ToolsBefore

LEMMA ReplaysKeepsCourse ==
  ASSUME StreamInv, Replays
  PROVE  Course'
<1>1. /\ pc' = "finished" /\ req'.replay /\ UNCHANGED <<req, rows, view>>
      /\ rows = <<>> /\ Phase("preparing")
  BY DEF Replays, At, Goes, StreamInv, Course, Before
<1>2. todo' \in {<<Frame("start"), Frame("end")>>, <<Frame("start"), Frame("delta"), Frame("end")>>}
  BY JoinedPair, JoinedThree DEF Replays, Goes
<1>3. Replaying'
  BY <1>1, <1>2 DEF Replaying, Phase
<1> QED
  BY <1>1, <1>3 DEF Course, Closing, Before

LEMMA DeniesKeepsCourse ==
  ASSUME StreamInv, Denies
  PROVE  Course'
<1>1. CASE pc' = "torn" /\ todo' = <<>>
  BY <1>1 DEF Course, Before
<1>2. CASE pc' = "finished" /\ todo' = Static("denial")
  <2>1. /\ UNCHANGED <<req, view>> /\ ~req.user /\ ~req.replay /\ Phase("preparing")
    BY DEF Denies, At, StreamInv, Course, Before
  <2>2. ToolsBefore(Static("denial"))'
    BY <1>2, <2>1, NoToolsFirst, StaticSteps DEF Phase
  <2>3. Canned'
    BY <2>1, <2>2 DEF Canned
  <2> QED
    BY <1>2, <2>1, <2>3 DEF Course, Closing, Before
<1> QED
  BY <1>1, <1>2 DEF Denies, Goes

LEMMA ProceedsKeepsCourse ==
  ASSUME StreamInv, Proceeds
  PROVE  Course'
<1>1. /\ UNCHANGED <<req, rows, view, dbUp, collected>> /\ todo' = <<>>
      /\ pc' \in {"retrieving", "looping", "answering"}
      /\ rows = <<>> /\ dbUp /\ collected = 0 /\ Phase("preparing") /\ ~req.replay
  BY DEF Proceeds, At, Goes, StreamInv, Course, Before
<1>2. ToolsBefore(<<>>)'
  <2>1. <<>> \in Seq(Steps)
    OBVIOUS
  <2> QED
    BY <1>1, <2>1, NoToolsFirst DEF Phase
<1> QED
  BY <1>1, <1>2 DEF Course, Before, Phase

LEMMA RetrievalKeepsCourse ==
  ASSUME StreamInv, RetrievalFails \/ (\E found \in BOOLEAN : Retrieves(found))
  PROVE  Course'
<1>1. /\ UNCHANGED <<req, rows, view, dbUp, collected>>
      /\ rows = <<>> /\ dbUp /\ collected = 0 /\ Phase("preparing") /\ ~req.replay
  BY DEF RetrievalFails, Retrieves, At, StreamInv, Course, Before
<1>2. CASE RetrievalFails
  <2>1. todo' = <<Store("error", 0, "best_effort"), Frame("start"), Frame("error")>>
        /\ pc' = "finished"
    BY <1>2, JoinedTriple DEF RetrievalFails, Goes, ErrorResponse
  <2>2. RefusedUnstored'
    BY <1>1, <2>1 DEF RefusedUnstored, Phase
  <2> QED
    BY <1>1, <2>1, <2>2 DEF Course, Closing, Before
<1>3. CASE pc' = "finished" /\ todo' = Static("static")
  <2>1. ToolsBefore(Static("static"))'
    BY <1>1, <1>3, NoToolsFirst, StaticSteps DEF Phase
  <2>2. Canned'
    BY <1>1, <2>1 DEF Canned
  <2> QED
    BY <1>1, <1>3, <2>2 DEF Course, Closing, Before
<1>4. CASE pc' \in {"looping", "answering"} /\ todo' = <<Frame("retrieval_complete")>>
  BY <1>1, <1>4 DEF Course, Before, Phase
<1> QED
  BY <1>2, <1>3, <1>4 DEF Retrieves, Goes

LEMMA LeavesLoopKeepsCourse ==
  ASSUME StreamInv, pc \in Before \ {"handling", "routing"}, LeavesLoop,
         UNCHANGED <<req, rows, view, dbUp, collected>>
  PROVE  Course'
<1>1. /\ pc' = "answering" /\ rows = <<>> /\ dbUp /\ collected = 0 /\ ~req.replay
      /\ Phase("preparing")
  BY DEF LeavesLoop, StreamInv, Course, Before
<1>2. todo' = frames \o <<>>
  <2>1. frames \in Seq(ToolFrames)
    BY DEF StreamInv, Types
  <2> QED
    BY <2>1 DEF LeavesLoop
<1>3. ToolsBefore(<<>>)'
  <2>1. <<>> \in Seq(Steps)
    OBVIOUS
  <2> QED
    BY <1>2, <2>1, ToolsGoFirst
<1> QED
  BY <1>1, <1>3 DEF Course, Before

LEMMA LoopKeepsCourse ==
  ASSUME StreamInv, \/ LoopHead \/ (\E n \in 0 .. MaxCalls : AskAnswers(n)) \/ AskFails
                    \/ CallsTool \/ (\E refused \in BOOLEAN : ToolReturns(refused)) \/ BatchEnds
  PROVE  Course'
<1>1. /\ UNCHANGED <<req, rows, view, dbUp, collected>> /\ todo = <<>>
      /\ pc \in Before \ {"routing"}
      /\ rows = <<>> /\ dbUp /\ collected = 0 /\ Phase("preparing") /\ ~req.replay
  BY DEF LoopHead, AskAnswers, AskFails, CallsTool, ToolReturns, BatchEnds, At, StreamInv,
         Course, Before
<1>2. CASE pc' \in {"asking", "calling", "handling", "looping"} /\ todo' = <<>>
  BY <1>1, <1>2 DEF Course, Before, Phase
<1>3. CASE pc # "handling" /\ LeavesLoop
  BY <1>1, <1>3, LeavesLoopKeepsCourse
<1>4. CASE pc # "handling" /\ pc' = "finished" /\ todo' = frames \o Static("static")
  <2>1. ToolsBefore(Static("static"))'
    BY <1>1, <1>4, ToolsGoFirst, StaticSteps
  <2>2. Canned'
    BY <1>1, <2>1 DEF Canned
  <2> QED
    BY <1>1, <1>4, <2>2 DEF Course, Closing, Before
<1>5. CASE pc' = "finished" /\ todo' = ErrorResponse
  <2>1. Refused'
    BY <1>1, <1>5 DEF Refused, Unstored, Phase
  <2> QED
    BY <1>1, <1>5, <2>1 DEF Course, Closing, Before
<1>6. CASE LoopHead
  BY <1>2, <1>3, <1>4, <1>6 DEF LoopHead, At, Goes
<1>7. CASE \E n \in 0 .. MaxCalls : AskAnswers(n)
  BY <1>2, <1>3, <1>7 DEF AskAnswers, At, Goes
<1>8. CASE BatchEnds
  BY <1>2, <1>4, <1>8 DEF BatchEnds, At, Goes
<1> QED
  BY <1>2, <1>5, <1>6, <1>7, <1>8 DEF AskFails, CallsTool, Concludes, ToolReturns, Goes

LEMMA AnswerKeepsCourse ==
  ASSUME StreamInv, \/ StartsAnswer \/ Polls \/ (\E content \in BOOLEAN : Chunk(content))
                    \/ StreamEnds \/ StreamBreaks
  PROVE  Course'
<1>1. /\ UNCHANGED <<req, rows, view, dbUp, shown>> /\ rows = <<>> /\ dbUp /\ ~req.replay
      /\ todo = <<>> /\ pc \in {"answering", "polling", "pulling"}
      /\ collected \in Nat /\ shown \in Nat
  BY DEF StartsAnswer, Polls, Chunk, StreamEnds, StreamBreaks, At, StreamInv, Types, Course, Before
<1>2. CASE StartsAnswer
  <2>1. collected = 0 /\ Phase("preparing")
    <3>1. pc = "answering" /\ (ToolsBefore(<<>>) \/ Phase("preparing"))
      BY <1>1, <1>2 DEF StartsAnswer, At, StreamInv, Course
    <3>2. ASSUME ToolsBefore(<<>>) PROVE Phase("preparing")
      <4>1. PICK s \in Seq(ToolFrames) : Fits(view, s) /\ todo = s \o <<>>
        BY <3>2 DEF ToolsBefore
      <4>2. s = <<>>
        BY <1>1, <4>1
      <4> QED
        BY <4>1, <4>2 DEF Fits, Phase
    <3> QED
      BY <3>1, <3>2 DEF StreamInv, Course
  <2>2. pc' = "polling" /\ todo' = <<Frame("start")>> /\ UNCHANGED collected
    BY <1>2 DEF StartsAnswer, Goes
  <2> QED
    BY <1>1, <2>1, <2>2 DEF Course, Before, Phase
<1>3. CASE ~StartsAnswer
  <2>1. Phase("answering") /\ collected <= shown
    BY <1>1, <1>3 DEF Polls, Chunk, StreamEnds, StreamBreaks, At, StreamInv, Course
  <2>2. CASE Polls
    <3>1. CASE pc' = "pulling" /\ todo' = <<>> /\ UNCHANGED collected
      BY <1>1, <2>1, <3>1 DEF Course, Before, Phase
    <3>2. CASE /\ pc' = "finished" /\ UNCHANGED collected
               /\ todo' = <<Store("interrupted", collected, "answer")>>
      <4>1. Answered'
        BY <1>1, <2>1, <3>2 DEF Answered, Phase
      <4> QED
        BY <1>1, <3>2, <4>1 DEF Course, Closing, Before
    <3> QED
      BY <2>2, <3>1, <3>2 DEF Polls, Goes
  <2>3. ASSUME NEW content \in BOOLEAN, Chunk(content) PROVE Course'
    <3>1. /\ pc' = "polling" /\ todo' = Delta(content)
          /\ collected' = collected + (IF content THEN 1 ELSE 0)
      BY <2>3 DEF Chunk, Goes
    <3>2. CASE content
      BY <1>1, <2>1, <3>1, <3>2 DEF Delta, Course, Before, Phase
    <3>3. CASE ~content
      BY <1>1, <2>1, <3>1, <3>3 DEF Delta, Course, Before, Phase
    <3> QED
      BY <3>2, <3>3
  <2>4. CASE StreamEnds \/ StreamBreaks
    <3>1. pc' = "finished" /\ UNCHANGED collected
      BY <2>4 DEF StreamEnds, StreamBreaks, Goes
    <3>2. Answered'
      BY <1>1, <2>1, <2>4 DEF StreamEnds, StreamBreaks, Goes, Answered, Phase, Excuse
    <3> QED
      BY <1>1, <3>1, <3>2 DEF Course, Closing, Before
  <2> QED
    BY <1>3, <2>2, <2>3, <2>4
<1> QED
  BY <1>2, <1>3
------------------------------------------------------------------------------
(* --- frames leave --- *)

(* The frame is in its place. *)
Placed(f) == f \in F!Frames /\ F!Legal(view, f)

(* What is to be shown of the frame that leaves. *)
SentWell ==
  /\ Course' /\ TerminalMatchesStore' /\ view' \in Views
  /\ "static" \notin StoresMayFail => Placed(Head(todo))

LEMMA PlainFrames ==
  ASSUME NEW kind \in {"retrieval_complete", "start", "delta", "end", "error"}
  PROVE  /\ Frame(kind) \in F!Frames /\ Frame(kind).kind = kind
BY DEF Frame, F!Frames

LEMMA ToolFramesAreFrames == ToolFrames \subseteq F!Frames
BY DEF ToolFrames, F!Frames

LEMMA Sent ==
  ASSUME StreamInv, Yields
  PROVE  /\ todo # <<>> /\ view \in Views /\ view' = F!Receive(view, Head(todo))
         /\ todo' = Tail(todo) /\ Head(todo).kind # "store"
         /\ UNCHANGED <<req, pc, collected, rows, dbUp>>
         /\ shown \in Nat /\ shown' \in Nat /\ shown' >= shown
         /\ Head(todo).kind = "delta" => shown' = shown + 1
BY DEF Yields, StreamInv, Types, Views

(* One frame of the loop is sent, others or what closes are left. *)
LEMMA ToolFrameLeaves ==
  ASSUME StreamInv, Yields, NEW rest \in Seq(Steps), NEW s \in Seq(ToolFrames),
         s # <<>>, Alternate(s, {}), Fits(view, s), todo = s \o rest
  PROVE  /\ ToolsBefore(rest)' /\ view' \in Views /\ Placed(Head(todo))
         /\ view'.phase = "preparing"
<1>1. s \in Seq(Steps)
  BY DEF Steps
<1>2. Head(todo) = s[1] /\ todo' = Tail(s) \o rest
  BY <1>1, FirstOfJoin, Sent
<1>3. /\ s[1] \in ToolFrames /\ F!Legal(view, s[1]) /\ view' \in Views
      /\ Tail(s) \in Seq(ToolFrames) /\ Alternate(Tail(s), {}) /\ Fits(view', Tail(s))
  BY <1>2, Sent, ToolFrameSent
<1> QED
  BY <1>2, <1>3, ToolFramesAreFrames DEF ToolsBefore, Placed, Fits

LEMMA YieldsBeforeAnswer ==
  ASSUME StreamInv, Yields, pc \in {"looping", "answering"}
  PROVE  SentWell
<1>1. /\ UNCHANGED <<req, pc, collected, rows, dbUp>> /\ todo' = Tail(todo)
      /\ rows = <<>> /\ dbUp /\ collected = 0 /\ ~req.replay
  BY Sent DEF StreamInv, Course, Before
<1>2. CASE Phase("preparing") /\ todo = <<Frame("retrieval_complete")>>
  <2>1. Head(todo) = Frame("retrieval_complete") /\ todo' = <<>>
    BY <1>1, <1>2
  <2>2. Placed(Head(todo)) /\ view' = view
    BY <1>2, <2>1, PlainFrames, SeesRetrieval, Sent DEF Phase, Placed
  <2>3. ToolsBefore(<<>>)'
    <3>1. <<>> \in Seq(Steps)
      OBVIOUS
    <3> QED
      BY <1>2, <2>1, <2>2, <3>1, NoToolsFirst DEF Phase
  <2>4. Course'
    BY <1>1, <1>2, <2>1, <2>2, <2>3 DEF Course, Before, Phase
  <2> QED
    BY <1>2, <2>2, <2>4, Sent DEF SentWell, TerminalMatchesStore, Phase
<1>3. CASE pc = "answering" /\ ToolsBefore(<<>>)
  <2>1. PICK s \in Seq(ToolFrames) : Alternate(s, {}) /\ Fits(view, s) /\ todo = s \o <<>>
    BY <1>3 DEF ToolsBefore
  <2>2. s # <<>> /\ <<>> \in Seq(Steps)
    BY <2>1, Sent
  <2>3. ToolsBefore(<<>>)' /\ view' \in Views /\ Placed(Head(todo)) /\ view'.phase = "preparing"
    BY <2>1, <2>2, ToolFrameLeaves
  <2>4. Course'
    BY <1>1, <1>3, <2>3 DEF Course, Before
  <2> QED
    BY <2>3, <2>4 DEF SentWell, TerminalMatchesStore
<1> QED
  BY <1>2, <1>3, Sent DEF StreamInv, Course, Before

LEMMA YieldsPolling ==
  ASSUME StreamInv, Yields, pc = "polling"
  PROVE  SentWell
<1>1. /\ UNCHANGED <<req, pc, collected, rows, dbUp>> /\ todo' = Tail(todo)
      /\ rows = <<>> /\ dbUp /\ ~req.replay /\ collected \in Nat /\ shown \in Nat
  BY Sent DEF StreamInv, Course, Before, Types
<1>2. CASE Phase("preparing") /\ todo = <<Frame("start")>> /\ collected = 0
  <2>1. Head(todo) = Frame("start") /\ todo' = <<>>
    BY <1>1, <1>2
  <2>2. Placed(Head(todo)) /\ view' \in Views /\ Phase("answering")'
    BY <1>2, <2>1, PlainFrames, SeesStart, Sent DEF Phase, Placed
  <2>3. Course'
    BY <1>1, <1>2, <2>1, <2>2, Sent DEF Course, Before
  <2> QED
    BY <2>2, <2>3 DEF SentWell, TerminalMatchesStore, Phase
<1>3. CASE Phase("answering") /\ todo = <<Frame("delta")>> /\ collected <= shown + 1
  <2>1. Head(todo) = Frame("delta") /\ todo' = <<>>
    BY <1>1, <1>3
  <2>2. Placed(Head(todo)) /\ view' = view /\ shown' = shown + 1
    BY <1>3, <2>1, PlainFrames, SeesDelta, Sent DEF Phase, Placed
  <2>3. Course'
    BY <1>1, <1>3, <2>1, <2>2, Sent DEF Course, Before, Phase
  <2> QED
    BY <1>3, <2>2, <2>3, Sent DEF SentWell, TerminalMatchesStore, Phase
<1> QED
  BY <1>2, <1>3, Sent DEF StreamInv, Course

LEMMA YieldsReplay ==
  ASSUME StreamInv, Yields, pc = "finished", req.replay
  PROVE  SentWell
<1>1. /\ UNCHANGED <<req, pc, rows>> /\ todo' = Tail(todo) /\ Replaying
  BY Sent DEF StreamInv, Course, Closing
<1>2. ASSUME Replaying' PROVE Course' /\ TerminalMatchesStore'
  BY <1>1, <1>2 DEF Course, Closing, Before, TerminalMatchesStore
<1>3. CASE /\ Phase("preparing")
           /\ todo \in {<<Frame("start"), Frame("end")>>,
                        <<Frame("start"), Frame("delta"), Frame("end")>>}
  <2>1. Head(todo) = Frame("start")
        /\ todo' \in {<<Frame("end")>>, <<Frame("delta"), Frame("end")>>}
    <3>1. CASE todo = <<Frame("start"), Frame("end")>>
      BY <1>1, <3>1
    <3>2. CASE todo = <<Frame("start"), Frame("delta"), Frame("end")>>
      BY <1>1, <3>2
    <3> QED
      BY <1>3, <3>1, <3>2
  <2>2. Placed(Head(todo)) /\ view' \in Views /\ Phase("answering")'
    BY <1>3, <2>1, PlainFrames, SeesStart, Sent DEF Phase, Placed
  <2>3. Replaying'
    BY <1>1, <2>1, <2>2 DEF Replaying
  <2> QED
    BY <1>2, <2>2, <2>3 DEF SentWell
<1>4. CASE Phase("answering") /\ todo = <<Frame("end")>>
  <2>1. Head(todo) = Frame("end") /\ todo' = <<>>
    BY <1>1, <1>4
  <2>2. Placed(Head(todo)) /\ view' \in Views /\ Phase("ended")'
    BY <1>4, <2>1, PlainFrames, SeesEnd, Sent DEF Phase, Placed
  <2>3. Replaying'
    BY <1>1, <2>1, <2>2 DEF Replaying
  <2> QED
    BY <1>2, <2>2, <2>3 DEF SentWell
<1>5. CASE Phase("answering") /\ todo = <<Frame("delta"), Frame("end")>>
  <2>1. Head(todo) = Frame("delta") /\ todo' = <<Frame("end")>>
    BY <1>1, <1>5
  <2>2. Placed(Head(todo)) /\ view' = view
    BY <1>5, <2>1, PlainFrames, SeesDelta, Sent DEF Phase, Placed
  <2>3. Replaying'
    BY <1>1, <1>5, <2>1, <2>2 DEF Replaying, Phase
  <2> QED
    BY <1>2, <2>2, <2>3, Sent DEF SentWell
<1> QED
  BY <1>1, <1>3, <1>4, <1>5, Sent DEF Replaying

LEMMA ClosingSuffices ==
  ASSUME pc' = "finished", ~req.replay, UNCHANGED req,
         Canned' \/ Told' \/ Refused' \/ Answered' \/ Interrupted' \/ Doubled'
  PROVE  Course'
BY DEF Course, Closing, Before

LEMMA YieldsCanned ==
  ASSUME StreamInv, Yields, pc = "finished", ~req.replay, Canned
  PROVE  SentWell
<1>1. /\ UNCHANGED <<req, pc, rows, dbUp>> /\ todo' = Tail(todo)
      /\ shown \in Nat /\ shown' \in Nat /\ shown' >= shown
  BY Sent
<1>2. PICK scope \in {"static", "denial"} :
        /\ IF scope = "static" THEN rows = <<>> /\ dbUp ELSE ~req.user
        /\ \/ ToolsBefore(Static(scope))
           \/ Phase("answering") /\ todo = Tail(Static(scope))
           \/ Phase("answering") /\ todo = Tail(Tail(Static(scope))) /\ shown >= 1
  BY DEF Canned
<1>3. /\ Static(scope) \in Seq(Steps)
      /\ Head(Static(scope)) = Frame("start") /\ Static(scope) # <<>>
      /\ Head(Tail(Static(scope))) = Frame("delta")
      /\ Head(Tail(Tail(Static(scope)))).kind = "store"
  BY StaticSteps DEF Static, Store
<1>4. ASSUME \/ ToolsBefore(Static(scope))'
             \/ Phase("answering")' /\ todo' = Tail(Static(scope))
             \/ Phase("answering")' /\ todo' = Tail(Tail(Static(scope))) /\ shown' >= 1
      PROVE  Course'
  <2>1. Canned'
    BY <1>1, <1>2, <1>4 DEF Canned
  <2> QED
    BY <1>1, <2>1, ClosingSuffices
<1>5. CASE ToolsBefore(Static(scope))
  <2>1. PICK s \in Seq(ToolFrames) :
          Alternate(s, {}) /\ Fits(view, s) /\ todo = s \o Static(scope)
    BY <1>5 DEF ToolsBefore
  <2>2. CASE s = <<>>
    <3>1. todo = Static(scope)
      BY <1>3, <2>1, <2>2
    <3>2. Phase("preparing")
      BY <2>1, <2>2 DEF Fits, Phase
    <3>3. Placed(Head(todo)) /\ view' \in Views /\ Phase("answering")'
      BY <1>3, <3>1, <3>2, PlainFrames, SeesStart, Sent DEF Phase, Placed
    <3> QED
      BY <1>1, <1>4, <3>1, <3>3 DEF SentWell, TerminalMatchesStore, Phase
  <2>3. CASE s # <<>>
    <3>1. /\ ToolsBefore(Static(scope))' /\ view' \in Views /\ Placed(Head(todo))
          /\ view'.phase = "preparing"
      BY <1>3, <2>1, <2>3, ToolFrameLeaves
    <3> QED
      BY <1>4, <3>1 DEF SentWell, TerminalMatchesStore
  <2> QED
    BY <2>2, <2>3
<1>6. CASE Phase("answering") /\ todo = Tail(Static(scope))
  <2>1. Placed(Head(todo)) /\ view' = view /\ shown' = shown + 1
    BY <1>3, <1>6, PlainFrames, SeesDelta, Sent DEF Phase, Placed
  <2>2. Course'
    BY <1>1, <1>4, <1>6, <2>1 DEF Phase
  <2> QED
    BY <1>6, <2>1, <2>2, Sent DEF SentWell, TerminalMatchesStore, Phase
<1> QED
  BY <1>2, <1>3, <1>5, <1>6, Sent

LEMMA YieldsTold ==
  ASSUME StreamInv, Yields, pc = "finished", ~req.replay, Told
  PROVE  SentWell
<1>1. UNCHANGED <<req, pc, rows>> /\ todo' = Tail(todo)
  BY Sent
<1>2. Phase("answering") /\ todo = <<Frame("end")>> /\ Stored
  BY Sent DEF Told
<1>3. Head(todo) = Frame("end") /\ todo' = <<>>
  BY <1>1, <1>2
<1>4. Placed(Head(todo)) /\ view' \in Views /\ Phase("ended")'
  BY <1>2, <1>3, PlainFrames, SeesEnd, Sent DEF Phase, Placed
<1>5. Told'
  BY <1>1, <1>2, <1>3, <1>4 DEF Told, Stored
<1>6. TerminalMatchesStore'
  BY <1>4, <1>5 DEF Told, Stored, Phase, TerminalMatchesStore
<1> QED
  BY <1>1, <1>4, <1>5, <1>6, ClosingSuffices DEF SentWell

LEMMA YieldsRefused ==
  ASSUME StreamInv, Yields, pc = "finished", ~req.replay, Refused
  PROVE  SentWell
<1>1. UNCHANGED <<req, pc, rows>> /\ todo' = Tail(todo) /\ Unstored /\ Unstored'
  BY Sent DEF Refused, Unstored
<1>2. CASE Phase("preparing") /\ todo = ErrorResponse
  <2>1. Head(todo) = Frame("start") /\ todo' = <<Frame("error")>>
    BY <1>1, <1>2 DEF ErrorResponse
  <2>2. Placed(Head(todo)) /\ view' \in Views /\ Phase("answering")'
    BY <1>2, <2>1, PlainFrames, SeesStart, Sent DEF Phase, Placed
  <2>3. Refused' /\ TerminalMatchesStore'
    BY <1>1, <2>1, <2>2 DEF Refused, TerminalMatchesStore, Phase
  <2> QED
    BY <1>1, <2>2, <2>3, ClosingSuffices DEF SentWell
<1>3. CASE Phase("answering") /\ todo = <<Frame("error")>>
  <2>1. Head(todo) = Frame("error") /\ todo' = <<>>
    BY <1>1, <1>3
  <2>2. Placed(Head(todo)) /\ view' \in Views /\ Phase("failed")'
    BY <1>3, <2>1, PlainFrames, SeesError, Sent DEF Phase, Placed
  <2>3. Refused'
    BY <1>1, <2>1, <2>2 DEF Refused
  <2>4. TerminalMatchesStore'
    BY <1>1, <2>2 DEF Unstored, TerminalMatchesStore, Phase
  <2> QED
    BY <1>1, <2>2, <2>3, <2>4, ClosingSuffices DEF SentWell
<1> QED
  BY <1>2, <1>3, Sent DEF Refused

LEMMA YieldsDoubled ==
  ASSUME StreamInv, Yields, pc = "finished", ~req.replay, Doubled
  PROVE  SentWell
<1>1. UNCHANGED <<req, pc, rows>> /\ todo' = Tail(todo) /\ "static" \in StoresMayFail
  BY Sent DEF Doubled
<1>2. /\ todo' \in {<<Frame("error")>>, <<>>}
      /\ ~F!Legal(view, Head(todo))
  <2>1. CASE Phase("answering") /\ todo = ErrorResponse
    <3>1. Head(todo) = Frame("start") /\ todo' = <<Frame("error")>>
      BY <1>1, <2>1 DEF ErrorResponse
    <3>2. Head(todo).kind = "start" /\ view.phase = "answering"
      BY <2>1, <3>1, PlainFrames DEF Phase
    <3> QED
      BY <3>1, <3>2 DEF F!Legal
  <2>2. CASE view.phase = "broken" /\ todo = <<Frame("error")>>
    <3>1. Head(todo) = Frame("error") /\ todo' = <<>>
      BY <1>1, <2>2
    <3>2. Head(todo).kind = "error"
      BY <3>1, PlainFrames
    <3> QED
      BY <2>2, <3>1, <3>2 DEF F!Legal
  <2> QED
    BY <2>1, <2>2, Sent DEF Doubled
<1>3. view' \in Views /\ view'.phase = "broken"
  BY <1>2, Sent, SeesBroken
<1>4. Doubled'
  BY <1>1, <1>2, <1>3 DEF Doubled
<1> QED
  BY <1>1, <1>3, <1>4, ClosingSuffices DEF SentWell, TerminalMatchesStore

LEMMA YieldsWell ==
  ASSUME StreamInv, Yields
  PROVE  SentWell
<1>1. todo # <<>> /\ Head(todo).kind # "store" /\ pc \in Places
  BY Sent DEF StreamInv, Types
<1>2. pc \in {"looping", "answering", "polling", "finished"}
  BY <1>1 DEF StreamInv, Course, Places, Before
<1>3. CASE pc = "finished" /\ ~req.replay
  <2>1. ~RefusedUnstored /\ ~Answered /\ ~Interrupted
    BY <1>1 DEF RefusedUnstored, Answered, Interrupted, Store, Excuse
  <2> QED
    BY <1>3, <2>1, YieldsCanned, YieldsTold, YieldsRefused, YieldsDoubled
       DEF StreamInv, Course, Closing
<1> QED
  BY <1>2, <1>3, YieldsBeforeAnswer, YieldsPolling, YieldsReplay
------------------------------------------------------------------------------
(* --- results are stored, or are not --- *)

(* A store is in front only after the response has been decided. *)
LEMMA StorePlaces ==
  ASSUME StreamInv, todo # <<>>, Head(todo).kind = "store"
  PROVE  /\ pc = "finished" /\ ~req.replay
         /\ \/ /\ Phase("preparing") /\ rows = <<>>
               /\ todo = <<Store("error", 0, "best_effort"), Frame("start"), Frame("error")>>
            \/ Answered
            \/ \E scope \in {"static", "denial"} :
                 /\ IF scope = "static" THEN rows = <<>> /\ dbUp ELSE ~req.user
                 /\ Phase("answering") /\ shown >= 1
                 /\ todo = <<Store("complete", 1, scope), Frame("end")>>
<1>0. Types /\ Course
  BY DEF StreamInv
<1>1. ASSUME NEW rest \in Seq(Steps), ToolsBefore(rest), rest # <<>> => Head(rest).kind = "start"
      PROVE  FALSE
  <2>1. PICK s \in Seq(ToolFrames) : todo = s \o rest
    BY <1>1 DEF ToolsBefore
  <2>2. CASE s = <<>>
    BY <1>1, <2>1, <2>2
  <2>3. CASE s # <<>>
    <3>1. s \in Seq(Steps)
      BY DEF Steps
    <3>2. Head(todo) = s[1]
      BY <2>1, <2>3, <3>1, FirstOfJoin
    <3>3. s[1] \in ToolFrames
      BY <2>3
    <3> QED
      BY <3>2, <3>3 DEF ToolFrames
  <2> QED
    BY <2>2, <2>3
<1>2. pc = "finished"
  <2>1. ~ToolsBefore(<<>>)
    <3>1. <<>> \in Seq(Steps)
      OBVIOUS
    <3> QED
      BY <1>1, <3>1
  <2>2. /\ todo # <<Frame("retrieval_complete")>> /\ todo # <<Frame("start")>>
        /\ todo # <<Frame("delta")>>
    BY DEF Frame
  <2> QED
    BY <1>0, <2>1, <2>2 DEF Types, Course, Places, Before
<1>3. ~req.replay
  BY <1>0, <1>2 DEF Course, Closing, Replaying, Frame
<1>4. CASE Canned
  <2>1. PICK scope \in {"static", "denial"} :
          /\ IF scope = "static" THEN rows = <<>> /\ dbUp ELSE ~req.user
          /\ \/ ToolsBefore(Static(scope))
             \/ Phase("answering") /\ todo = Tail(Static(scope))
             \/ Phase("answering") /\ todo = Tail(Tail(Static(scope))) /\ shown >= 1
    BY <1>4 DEF Canned
  <2>2. /\ Static(scope) \in Seq(Steps) /\ Head(Static(scope)).kind = "start"
        /\ Head(Tail(Static(scope))).kind = "delta"
        /\ Tail(Tail(Static(scope))) = <<Store("complete", 1, scope), Frame("end")>>
    BY StaticSteps DEF Static, Store, Frame
  <2> QED
    BY <1>1, <1>2, <1>3, <2>1, <2>2
<1>5. ~Told /\ ~Refused /\ ~Interrupted /\ ~Doubled
  BY DEF Told, Refused, Interrupted, Doubled, Frame, ErrorResponse
<1> QED
  BY <1>0, <1>2, <1>3, <1>4, <1>5 DEF Course, Closing, RefusedUnstored

StoredWell == Course' /\ StoredWasShown' /\ TerminalMatchesStore' /\ rows' \in Seq(Messages)

LEMMA OneRow ==
  ASSUME rows = <<>>, NEW status \in {"complete", "interrupted", "error"}, NEW size \in Nat,
         size <= shown,
         rows' = Append(rows, [status |-> status, size |-> size]), UNCHANGED shown
  PROVE  /\ rows' \in Seq(Messages) /\ StoredWasShown'
         /\ status = "complete" => Stored'
         /\ status # "complete" => Unstored'
<1>1. [status |-> status, size |-> size] \in Messages
  BY DEF Messages
<1>2. /\ rows' = <<[status |-> status, size |-> size]>> /\ Len(rows') = 1
      /\ DOMAIN rows' = {1} /\ rows'[1].status = status /\ rows'[1].size = size
      /\ rows' \in Seq(Messages)
  BY <1>1
<1> QED
  BY <1>2 DEF StoredWasShown, Stored, Unstored

LEMMA StoresWell ==
  ASSUME StreamInv, Stores
  PROVE  StoredWell
<1>0. Types /\ shown \in Nat /\ collected \in Nat
  BY DEF StreamInv, Types
<1>1. /\ todo # <<>> /\ Head(todo).kind = "store" /\ todo' = Tail(todo)
      /\ rows' = Append(rows, [status |-> Head(todo).status, size |-> Head(todo).size])
      /\ UNCHANGED <<req, pc, collected, shown, view, dbUp>>
  BY DEF Stores
<1>2. pc' = "finished" /\ ~req.replay /\ UNCHANGED req
  BY <1>1, StorePlaces
<1>3. CASE /\ Phase("preparing") /\ rows = <<>>
           /\ todo = <<Store("error", 0, "best_effort"), Frame("start"), Frame("error")>>
  <2>1. Head(todo) = Store("error", 0, "best_effort") /\ todo' = ErrorResponse
    BY <1>1, <1>3 DEF ErrorResponse
  <2>2. rows' \in Seq(Messages) /\ StoredWasShown' /\ Unstored'
    BY <1>0, <1>1, <1>3, <2>1, OneRow DEF Store
  <2>3. Refused' /\ TerminalMatchesStore'
    BY <1>1, <1>3, <2>1, <2>2 DEF Refused, Phase, TerminalMatchesStore
  <2> QED
    BY <1>2, <2>2, <2>3, ClosingSuffices DEF StoredWell
<1>4. CASE Answered
  <2>1. Phase("answering") /\ Phase("answering")' /\ rows = <<>> /\ collected <= shown
    BY <1>1, <1>4 DEF Answered, Phase
  <2>2. TerminalMatchesStore'
    BY <2>1 DEF Phase, TerminalMatchesStore
  <2>3. CASE todo = <<Store("interrupted", collected, "answer")>>
    <3>1. Head(todo) = Store("interrupted", collected, "answer") /\ todo' = <<>>
      BY <1>1, <2>3
    <3>2. rows' \in Seq(Messages) /\ StoredWasShown'
      BY <1>0, <1>1, <2>1, <3>1, OneRow DEF Store
    <3>3. Interrupted'
      BY <2>1, <3>1 DEF Interrupted
    <3> QED
      BY <1>2, <2>2, <3>2, <3>3, ClosingSuffices DEF StoredWell
  <2>4. CASE todo = <<Store("complete", collected, "answer"), Frame("end")>>
    <3>1. Head(todo) = Store("complete", collected, "answer") /\ todo' = <<Frame("end")>>
      BY <1>1, <2>4
    <3>2. rows' \in Seq(Messages) /\ StoredWasShown' /\ Stored'
      BY <1>0, <1>1, <2>1, <3>1, OneRow DEF Store
    <3>3. Told'
      BY <2>1, <3>1, <3>2 DEF Told
    <3> QED
      BY <1>2, <2>2, <3>2, <3>3, ClosingSuffices DEF StoredWell
  <2>5. ASSUME NEW size \in Nat, size <= shown, NEW scope,
               todo = <<Store("error", size, scope), Frame("error")>>
        PROVE  StoredWell
    <3>1. Head(todo) = Store("error", size, scope) /\ todo' = <<Frame("error")>>
      BY <1>1, <2>5
    <3>2. rows' \in Seq(Messages) /\ StoredWasShown' /\ Unstored'
      BY <1>0, <1>1, <2>1, <2>5, <3>1, OneRow DEF Store
    <3>3. Refused'
      BY <2>1, <3>1, <3>2 DEF Refused
    <3> QED
      BY <1>2, <2>2, <3>2, <3>3, ClosingSuffices DEF StoredWell
  <2> QED
    BY <1>0, <1>4, <2>1, <2>3, <2>4, <2>5 DEF Answered, Excuse
<1>5. ASSUME NEW scope \in {"static", "denial"},
             IF scope = "static" THEN rows = <<>> /\ dbUp ELSE ~req.user,
             Phase("answering"), shown >= 1,
             todo = <<Store("complete", 1, scope), Frame("end")>>
      PROVE  StoredWell
  <2>1. Head(todo) = Store("complete", 1, scope) /\ todo' = <<Frame("end")>>
    BY <1>1, <1>5
  <2>2. rows' = Append(rows, [status |-> "complete", size |-> 1])
    BY <1>1, <2>1 DEF Store
  <2>3. rows' \in Seq(Messages) /\ Stored'
    <3>1. [status |-> "complete", size |-> 1] \in Messages /\ rows \in Seq(Messages)
      BY <1>0 DEF Messages, Types
    <3>2. /\ rows' \in Seq(Messages) /\ Len(rows') \in DOMAIN rows'
          /\ rows'[Len(rows')] = [status |-> "complete", size |-> 1]
      BY <2>2, <3>1
    <3> QED
      BY <3>2 DEF Stored
  <2>4. StoredWasShown'
    BY <1>0, <1>1, <1>5, <2>2, OneRow DEF StoredWasShown
  <2>5. Told' /\ TerminalMatchesStore'
    BY <1>1, <1>5, <2>1, <2>3 DEF Told, Phase, TerminalMatchesStore
  <2> QED
    BY <1>2, <2>3, <2>4, <2>5, ClosingSuffices DEF StoredWell
<1> QED
  BY <1>1, <1>3, <1>4, <1>5, StorePlaces

LEMMA StoreFailsWell ==
  ASSUME StreamInv, StoreFails
  PROVE  StoredWell
<1>1. /\ todo # <<>> /\ Head(todo).kind = "store" /\ todo' = Handler(Head(todo).scope)
      /\ pc' = IF Head(todo).scope = "denial" THEN "torn" ELSE pc
      /\ dbUp => Head(todo).scope \in StoresMayFail
      /\ UNCHANGED <<req, collected, rows, shown, view>>
  BY DEF StoreFails
<1>2. pc = "finished" /\ ~req.replay
  BY <1>1, StorePlaces
<1>3. StoredWasShown' /\ TerminalMatchesStore' /\ rows' \in Seq(Messages)
  BY <1>1 DEF StreamInv, Types, StoredWasShown, TerminalMatchesStore
<1>4. CASE /\ Phase("preparing") /\ rows = <<>>
           /\ todo = <<Store("error", 0, "best_effort"), Frame("start"), Frame("error")>>
  <2>1. pc' = "finished" /\ todo' = ErrorResponse
    BY <1>1, <1>2, <1>4 DEF Handler, Store, ErrorResponse
  <2>2. Refused'
    BY <1>1, <1>4, <2>1 DEF Refused, Unstored, Phase
  <2> QED
    BY <1>1, <1>2, <1>3, <2>1, <2>2, ClosingSuffices DEF StoredWell
<1>5. CASE Answered
  <2>1. Phase("answering")' /\ rows' = <<>> /\ collected' <= shown'
    BY <1>1, <1>5 DEF Answered, Phase
  <2>2. CASE todo = Excuse
    <3>1. pc' = "finished" /\ todo' = <<Frame("error")>>
      BY <1>1, <1>2, <2>2 DEF Handler, Store, Excuse
    <3>2. Refused'
      BY <2>1, <3>1 DEF Refused, Unstored
    <3> QED
      BY <1>1, <1>2, <1>3, <3>1, <3>2, ClosingSuffices DEF StoredWell
  <2>3. CASE Head(todo).scope = "answer"
    <3>1. pc' = "finished" /\ todo' = Excuse /\ Excuse' = Excuse
      BY <1>1, <1>2, <2>3 DEF Handler, Excuse
    <3>2. Answered'
      BY <2>1, <3>1 DEF Answered
    <3> QED
      BY <1>1, <1>2, <1>3, <3>1, <3>2, ClosingSuffices DEF StoredWell
  <2> QED
    BY <1>5, <2>2, <2>3 DEF Answered, Store
<1>6. ASSUME NEW scope \in {"static", "denial"},
             IF scope = "static" THEN rows = <<>> /\ dbUp ELSE ~req.user,
             Phase("answering"),
             todo = <<Store("complete", 1, scope), Frame("end")>>
      PROVE  StoredWell
  <2>1. Head(todo).scope = scope
    BY <1>6 DEF Store
  <2>2. CASE scope = "denial"
    <3>1. pc' = "torn" /\ todo' = <<>>
      BY <1>1, <2>1, <2>2 DEF Handler
    <3> QED
      BY <1>3, <3>1 DEF StoredWell, Course, Before
  <2>3. CASE scope = "static"
    <3>1. pc' = "finished" /\ todo' = ErrorResponse /\ "static" \in StoresMayFail
      BY <1>1, <1>2, <1>6, <2>1, <2>3 DEF Handler
    <3>2. Doubled'
      BY <1>1, <1>6, <3>1 DEF Doubled, Phase
    <3> QED
      BY <1>1, <1>2, <1>3, <3>1, <3>2, ClosingSuffices DEF StoredWell
  <2> QED
    BY <2>2, <2>3
<1> QED
  BY <1>1, <1>4, <1>5, <1>6, StorePlaces
------------------------------------------------------------------------------
(* --- the invariant --- *)

(* A step that shows and stores nothing, except a denial. *)
LEMMA QuietKeeps ==
  ASSUME StreamInv, UNCHANGED <<req, shown, view>>,
         UNCHANGED rows \/ Denies
  PROVE  StoredWasShown' /\ TerminalMatchesStore' /\ rows' \in Seq(Messages)
<1>1. CASE UNCHANGED rows
  BY <1>1 DEF StreamInv, Types, StoredWasShown, TerminalMatchesStore
<1>2. CASE Denies /\ rows' = Append(rows, [status |-> "complete", size |-> 1])
  <2>1. ~req.user /\ Phase("preparing") /\ rows \in Seq(Messages)
    BY <1>2 DEF Denies, At, StreamInv, Types, Course, Before
  <2>2. [status |-> "complete", size |-> 1] \in Messages
    BY DEF Messages
  <2> QED
    BY <1>2, <2>1, <2>2 DEF StoredWasShown, TerminalMatchesStore, Phase
<1> QED
  BY <1>1, <1>2 DEF Denies

LEMMA PathsKeep ==
  ASSUME StreamInv, \/ Replays \/ Denies \/ Proceeds
                    \/ RetrievalFails \/ (\E found \in BOOLEAN : Retrieves(found))
  PROVE  StreamInv'
<1>1. /\ UNCHANGED <<req, iteration, batch, next, pad, frames, chunks, collected, shown, view,
                     connected, noticed>>
      /\ pc \in {"routing", "retrieving"}
      /\ pc' \in {"finished", "torn", "retrieving", "looping", "answering"}
      /\ UNCHANGED rows \/ Denies
  BY DEF Replays, Denies, Proceeds, RetrievalFails, Retrieves, At, Goes, loop
<1>2. StoredWasShown' /\ TerminalMatchesStore' /\ rows' \in Seq(Messages)
  BY <1>1, QuietKeeps
<1>3. Types'
  BY <1>1, <1>2 DEF StreamInv, Types, Places, Before
<1>4. PadInv'
  BY <1>1, OthersKeepPad DEF Places, Before
<1>5. FramesInv'
  BY <1>1, OthersKeepFrames DEF Before
<1>6. Course'
  BY ReplaysKeepsCourse, DeniesKeepsCourse, ProceedsKeepsCourse, RetrievalKeepsCourse
<1>7. NoticeInv'
  BY <1>1 DEF StreamInv, NoticeInv
<1> QED
  BY <1>2, <1>3, <1>4, <1>5, <1>6, <1>7 DEF StreamInv

LEMMA LoopKeeps ==
  ASSUME StreamInv, \/ LoopHead \/ (\E n \in 0 .. MaxCalls : AskAnswers(n)) \/ AskFails
                    \/ CallsTool \/ (\E refused \in BOOLEAN : ToolReturns(refused)) \/ BatchEnds
  PROVE  StreamInv'
<1>0. Types /\ PadInv /\ NoticeInv /\ Course'
  BY LoopKeepsCourse DEF StreamInv
<1>1. /\ UNCHANGED <<req, rows, chunks, collected, shown, view, connected>>
      /\ pc \in {"looping", "asking", "calling", "handling"}
      /\ noticed' => noticed \/ ~connected
  BY DEF LoopHead, AskAnswers, AskFails, CallsTool, ToolReturns, BatchEnds, At, MayRun, loop
<1>2. StoredWasShown' /\ TerminalMatchesStore' /\ rows' \in Seq(Messages)
  BY <1>1, QuietKeeps
<1>3. NoticeInv'
  BY <1>0, <1>1 DEF NoticeInv
<1>4. ASSUME PadInv', FramesInv', pad' \in Seq(Entries), frames' \in Seq(ToolFrames),
             pc' \in Places, iteration' \in 0 .. MaxIterations, batch' \in 0 .. MaxCalls,
             next' \in 1 .. MaxCalls + 1
      PROVE  StreamInv'
  BY <1>0, <1>1, <1>2, <1>3, <1>4 DEF StreamInv, Types
<1>5. CASE LoopHead
  <2>1. /\ UNCHANGED <<batch, next, pad>> /\ pc = "looping"
        /\ \/ pc' = "asking" /\ iteration' = iteration + 1 /\ iteration < MaxIterations
              /\ UNCHANGED frames
           \/ pc' \in {"answering", "finished"} /\ UNCHANGED iteration /\ frames' = <<>>
    BY <1>5 DEF LoopHead, At, Goes, LeavesLoop, RoundLeft
  <2>2. PadInv'
    BY <2>1, OthersKeepPad DEF Places, Before
  <2>3. FramesInv' /\ frames' \in Seq(ToolFrames)
    BY <2>1, OthersKeepFrames DEF Before
  <2>4. iteration' \in 0 .. MaxIterations
    BY <1>0, <2>1, Numbers DEF Types
  <2> QED
    BY <1>0, <1>4, <2>1, <2>2, <2>3, <2>4 DEF Types, Places, Before
<1>6. ASSUME NEW n \in 0 .. MaxCalls, AskAnswers(n) PROVE StreamInv'
  <2>1. /\ pc = "asking" /\ UNCHANGED iteration
        /\ \/ pc' = "answering" /\ frames' = <<>> /\ UNCHANGED <<batch, next>>
           \/ pc' = "calling" /\ UNCHANGED frames /\ batch' = n /\ next' = 1
    BY <1>6 DEF AskAnswers, At, Goes, LeavesLoop
  <2>2. PadInv' /\ pad' \in Seq(Entries)
    BY <1>6, AnnouncesKeepsPad
  <2>3. FramesInv' /\ frames' \in Seq(ToolFrames)
    BY <2>1, OthersKeepFrames DEF Before
  <2>4. next' \in 1 .. MaxCalls + 1 /\ batch' \in 0 .. MaxCalls
    BY <1>0, <2>1, Numbers DEF Types
  <2> QED
    BY <1>0, <1>4, <2>1, <2>2, <2>3, <2>4 DEF Types, Places, Before
<1>7. CASE AskFails
  <2>1. /\ UNCHANGED <<iteration, batch, next, pad>> /\ frames' = <<>> /\ pc' = "finished"
    BY <1>7 DEF AskFails, Goes
  <2>2. PadInv'
    BY <2>1, OthersKeepPad
  <2>3. FramesInv' /\ frames' \in Seq(ToolFrames)
    BY <2>1, OthersKeepFrames
  <2> QED
    BY <1>0, <1>4, <2>1, <2>2, <2>3 DEF Types, Places
<1>8. CASE CallsTool /\ pc' = "handling"
  <2>1. /\ pc = "calling" /\ next <= batch /\ UNCHANGED <<iteration, batch, next, pad>>
        /\ frames' = frames \o <<ToolFrame("tool_start", Id(next))>>
    BY <1>8 DEF CallsTool, Concludes, At, Goes
  <2>2. PadInv'
    BY <1>8, <2>1, OthersKeepPad
  <2>3. FramesInv' /\ frames' \in Seq(ToolFrames)
    BY <1>8, <2>1, StartKeepsFrames
  <2> QED
    BY <1>0, <1>4, <1>8, <2>1, <2>2, <2>3 DEF Types, Places, Before
<1>9. ASSUME NEW opening, Concludes(next, opening), UNCHANGED <<iteration, batch>>,
             next <= batch,
             \/ pc = "calling" /\ opening = <<ToolFrame("tool_start", Id(next))>>
             \/ pc = "handling" /\ opening = <<>>
      PROVE  StreamInv'
  <2>1. PadInv' /\ pad' \in Seq(Entries) /\ next' \in 1 .. MaxCalls + 1
    BY <1>9, ConcludesKeepsPad
  <2>2. FramesInv' /\ frames' \in Seq(ToolFrames)
    BY <1>9, ConcludesKeepsFrames
  <2>3. pc' = "calling"
    BY <1>9 DEF Concludes, Goes
  <2> QED
    BY <1>0, <1>4, <1>9, <2>1, <2>2, <2>3 DEF Types, Places, Before
<1>10. CASE CallsTool /\ pc' # "handling"
  BY <1>9, <1>10 DEF CallsTool, At, Goes
<1>11. CASE \E refused \in BOOLEAN : ToolReturns(refused)
  BY <1>0, <1>9, <1>11 DEF ToolReturns, At, PadInv
<1>12. CASE BatchEnds
  <2>1. /\ pc = "calling" /\ next > batch /\ UNCHANGED <<iteration, batch, next, pad>>
        /\ \/ pc' = "looping" /\ UNCHANGED frames
           \/ pc' = "finished" /\ frames' = <<>>
    BY <1>12 DEF BatchEnds, At, Goes
  <2>2. PadInv'
    BY <2>1, OthersKeepPad
  <2>3. FramesInv' /\ frames' \in Seq(ToolFrames)
    BY <2>1, OthersKeepFrames DEF Before
  <2> QED
    BY <1>0, <1>4, <2>1, <2>2, <2>3 DEF Types, Places, Before
<1> QED
  BY <1>5, <1>6, <1>7, <1>8, <1>10, <1>11, <1>12

LEMMA AnswerKeeps ==
  ASSUME StreamInv, \/ StartsAnswer \/ Polls \/ (\E content \in BOOLEAN : Chunk(content))
                    \/ StreamEnds \/ StreamBreaks
  PROVE  StreamInv'
<1>0. Types /\ NoticeInv
  BY DEF StreamInv
<1>1. /\ UNCHANGED <<req, iteration, batch, next, pad, frames, rows, shown, view, connected>>
      /\ pc \in {"answering", "polling", "pulling"}
      /\ pc' \in {"polling", "pulling", "finished"}
      /\ noticed' => noticed \/ ~connected
  BY DEF StartsAnswer, Polls, Chunk, StreamEnds, StreamBreaks, At, Goes, loop
<1>2. chunks' \in Nat /\ collected' \in Nat
  BY <1>0 DEF Types, StartsAnswer, Polls, Chunk, StreamEnds, StreamBreaks
<1>3. StoredWasShown' /\ TerminalMatchesStore' /\ rows' \in Seq(Messages)
  BY <1>1, QuietKeeps
<1>4. Types'
  BY <1>0, <1>1, <1>2 DEF Types, Places
<1>5. PadInv'
  BY <1>1, OthersKeepPad DEF Places
<1>6. FramesInv'
  BY <1>1, OthersKeepFrames DEF Before
<1>7. NoticeInv'
  BY <1>0, <1>1 DEF NoticeInv
<1> QED
  BY <1>3, <1>4, <1>5, <1>6, <1>7, AnswerKeepsCourse DEF StreamInv

LEMMA LeavingKeeps ==
  ASSUME StreamInv, Yields \/ Stores \/ StoreFails
  PROVE  StreamInv'
<1>0. Types /\ NoticeInv
  BY DEF StreamInv
<1>1. /\ UNCHANGED <<req, iteration, batch, next, pad, frames, chunks, collected, connected,
                     noticed>>
      /\ pc' \in {pc, "torn"}
  BY DEF Yields, Stores, StoreFails, loop
<1>2. PadInv'
  BY <1>1, OthersKeepPad
<1>3. FramesInv' /\ NoticeInv'
  BY <1>0, <1>1, OthersKeepFrames DEF NoticeInv, Before
<1>4. /\ Course' /\ TerminalMatchesStore' /\ StoredWasShown' /\ rows' \in Seq(Messages)
      /\ view' \in Views /\ shown' \in Nat
  <2>1. CASE Yields
    <3>1. Course' /\ TerminalMatchesStore' /\ view' \in Views
      BY <2>1, YieldsWell DEF SentWell
    <3>2. /\ UNCHANGED <<rows, req>> /\ shown \in Nat /\ shown' \in Nat /\ shown' >= shown
          /\ rows \in Seq(Messages)
      BY <1>0, <2>1, Sent DEF Types
    <3>3. StoredWasShown'
      <4>1. ASSUME NEW i \in DOMAIN rows PROVE rows[i].size \in Nat
        <5>1. rows[i] \in Messages
          BY <3>2
        <5> QED
          BY <5>1 DEF Messages
      <4> QED
        BY <3>2, <4>1 DEF StreamInv, StoredWasShown
    <3> QED
      BY <3>1, <3>2, <3>3
  <2>2. CASE Stores \/ StoreFails
    <3>1. UNCHANGED <<view, shown>>
      BY <2>2 DEF Stores, StoreFails
    <3> QED
      BY <1>0, <2>2, <3>1, StoresWell, StoreFailsWell DEF StoredWell, Types, Views
  <2> QED
    BY <2>1, <2>2
<1>5. Types'
  BY <1>0, <1>1, <1>4 DEF Types, Places, Views
<1> QED
  BY <1>2, <1>3, <1>4, <1>5 DEF StreamInv

LEMMA LeavesAloneKeeps ==
  ASSUME StreamInv, Disconnects \/ Cancelled \/ UNCHANGED vars
  PROVE  StreamInv'
<1>0. Types /\ NoticeInv
  BY DEF StreamInv
<1>1. /\ UNCHANGED <<req, iteration, batch, next, pad, frames, chunks, collected, rows, shown,
                     view, noticed>>
      /\ pc' \in {pc, "torn"} /\ (connected' => connected)
  BY DEF Disconnects, Cancelled, Goes, loop, vars
<1>2. PadInv'
  BY <1>1, OthersKeepPad
<1>6. FramesInv'
  BY <1>1, OthersKeepFrames DEF Before
<1>7. NoticeInv'
  BY <1>0, <1>1 DEF NoticeInv
<1>3. Types'
  <2>1. pc' \in Places
    BY <1>0, <1>1 DEF Types, Places
  <2> QED
    BY <1>0, <1>1, <2>1 DEF Types
<1>4. StoredWasShown' /\ TerminalMatchesStore'
  BY <1>1, QuietKeeps
<1>5. Course'
  <2>1. CASE pc' = "torn" /\ todo' = <<>>
    BY <2>1 DEF Course, Before
  <2>2. CASE UNCHANGED <<req, pc, todo, collected, rows, shown, view, dbUp>>
    BY <2>2 DEF StreamInv, Course, Closing, Replaying, Canned, ToolsBefore, Told, Stored,
       Refused, Unstored, RefusedUnstored, Answered, Excuse, Interrupted, Doubled, Phase
  <2> QED
    BY <2>1, <2>2 DEF Disconnects, Cancelled, Goes, vars
<1> QED
  BY <1>2, <1>3, <1>4, <1>5, <1>6, <1>7 DEF StreamInv

THEOREM StreamInvariant == Spec => []StreamInv
<1>1. StreamInv /\ [Next]_vars => StreamInv'
  BY PathsKeep, LoopKeeps, AnswerKeeps, LeavingKeeps, LeavesAloneKeeps DEF Next, Step
<1> QED
  BY <1>1, InitInv, PTL DEF Spec
------------------------------------------------------------------------------
(* --- what the runs check, for all values of the constants --- *)

(* The provider is never sent a conversation with a tool call whose result is *)
(* missing or out of place (_run_stream_tool_loop).                           *)
THEOREM ConversationIsPaired == Spec => []LoopPaired
<1>1. StreamInv => LoopPaired
  <2> SUFFICES ASSUME StreamInv, pc \in {"asking", "polling", "pulling"},
                      NEW i \in DOMAIN pad
               PROVE  \/ /\ pad[i].kind = "assistant"
                         /\ \A c \in 1 .. pad[i].calls :
                              i + c \in DOMAIN pad /\ pad[i + c] = ResultOf(c)
                      \/ /\ pad[i].kind = "result" /\ i > pad[i].call
                         /\ pad[i - pad[i].call].kind = "assistant"
    BY DEF LoopPaired
  <2>1. /\ pad \in Seq(Entries) /\ DOMAIN pad = 1 .. Len(pad) /\ pad[i] \in Entries
        /\ ResultsFollow /\ AnnouncedFirst /\ ~Open(i)
    BY DEF StreamInv, Types, PadInv, Before, Open
  <2>2. pad[i].kind \in {"assistant", "result"}
    BY <2>1 DEF Entries
  <2> QED
    BY <2>1, <2>2 DEF ResultsFollow, AnnouncedFirst
<1> QED
  BY <1>1, StreamInvariant, PTL

(* The client is told end only of a stored answer, and error only without one *)
(* (_stream_provider_answer, _stream_static_content, stream_chat).            *)
THEOREM TerminalIsTrue == Spec => []TerminalMatchesStore
<1>1. StreamInv => TerminalMatchesStore
  BY DEF StreamInv
<1> QED
  BY <1>1, StreamInvariant, PTL

(* What a user's response stores was sent before, and it is one message.      *)
THEOREM StoredTextWasShown == Spec => []StoredWasShown
<1>1. StreamInv => StoredWasShown
  BY DEF StreamInv
<1> QED
  BY <1>1, StreamInvariant, PTL

(* No provider and no tool is asked for a client known to be gone.            *)
THEOREM GoneClientCostsNothing == Spec => NothingAskedAfterNotice
<1> DEFINE Quiet == noticed => pc' \notin {"asking", "handling", "pulling"} \/ pc' = pc
<1>1. StreamInv /\ [Next]_vars => [Quiet]_vars
  <2> SUFFICES ASSUME StreamInv, Next, noticed
               PROVE  pc' \notin {"asking", "handling", "pulling"} \/ pc' = pc
    OBVIOUS
  <2>1. ~connected
    BY DEF StreamInv, NoticeInv
  <2> QED
    BY <2>1 DEF Next, Step, Replays, Denies, Proceeds, RetrievalFails, Retrieves, LoopHead,
       LeavesLoop, AskAnswers, AskFails, CallsTool, MayRun, Concludes, ToolReturns, BatchEnds,
       StartsAnswer, Polls, Chunk, StreamEnds, StreamBreaks, Yields, Stores, StoreFails,
       Disconnects, Cancelled, Goes, At, vars
<1>2. Spec => [][Quiet]_vars
  BY <1>1, StreamInvariant, PTL DEF Spec
<1> QED
  BY <1>2, PTL DEF NothingAskedAfterNotice

(* Every frame has its place in the protocol, as long as canned answers can   *)
(* be stored: after a failure there the code sends a second start frame, see  *)
(* the README.                                                                *)
THEOREM StreamImplementsFrames ==
  ASSUME "static" \notin StoresMayFail
  PROVE  Spec => ImplementsFrames
<1>1. Init => F!Init
  BY DEF Init, F!Init
<1>2. StreamInv /\ [Next]_vars => [F!Next]_view
  <2> SUFFICES ASSUME StreamInv, Next, view' # view
               PROVE  F!Next
    BY DEF vars
  <2>1. Yields
    BY DEF Next, Step, Replays, Denies, Proceeds, RetrievalFails, Retrieves, LoopHead,
       AskAnswers, AskFails, CallsTool, ToolReturns, BatchEnds, StartsAnswer, Polls, Chunk,
       StreamEnds, StreamBreaks, Stores, StoreFails, Disconnects, Cancelled, vars
  <2>2. Placed(Head(todo)) /\ view' = F!Receive(view, Head(todo))
    BY <2>1, Sent, YieldsWell DEF SentWell
  <2> QED
    BY <2>2 DEF Placed, F!Next
<1> QED
  BY <1>1, <1>2, StreamInvariant, PTL DEF Spec, ImplementsFrames, F!Spec
==============================================================================
