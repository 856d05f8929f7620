---------------------------- MODULE AgentRunProofs -----------------------------
(***************************************************************************)
(* The agent's run and its stream, proved for any number of iterations,    *)
(* attempts, reflections, calls and chunks.                                *)
(*                                                                         *)
(* The executor and the adapter meet only in the queue.  What the client   *)
(* will see therefore depends on the order of the events that wait there:  *)
(* the invariant follows the open tool calls along the queue, from those   *)
(* the client has seen to those the executor is running.                   *)
(***************************************************************************)
EXTENDS AgentRun, TLAPS

Over    == {"completed", "failed", "cancelled"}
Working == {"created", "loop", "ask", "tools"}
Readers == {"reading", "handling", "interrupting", "raised", "ending", "failing",
            "finished", "gone"}

ToolTypes == {"tool_start", "tool_end"}
Terminal  == {"complete", "error"}
Spoken    == {"token"} \cup Terminal

Events ==
  [type : {"start", "planning", "reflection", "complete", "error", "closed"}]
    \cup [type : {"token"}, text : BOOLEAN] \cup [type : ToolTypes, call : Calls]
Entries ==
  [kind : {"turn", "thought"}] \cup [kind : {"assistant"}, calls : 1 .. MaxCalls]
    \cup [kind : {"result"}, call : 1 .. MaxCalls]
Views == [phase : F!Phases, running : SUBSET Calls]

Types ==
  /\ exec \in Running \cup Over /\ reader \in Readers
  /\ queue \in Seq(Events) /\ event \in Events /\ pad \in Seq(Entries) /\ view \in Views
  /\ plan.calls \in 0 .. MaxCalls
  /\ tool \in [Calls -> [st : {"waiting", "running", "done"}, tries : Nat, ok : BOOLEAN]]
------------------------------------------------------------------------------
(* --- the executor --- *)

(* AgentExecutionState.status follows the place of the run. *)
StatusInv ==
  /\ status # "refused"
  /\ exec = "created" => status = "created"
  /\ exec \in {"loop", "ask"} => status = "planning"
  /\ exec \in {"tools", "stream"} => status = "executing"

(* Every announcement in the conversation p has its results, the last entry   *)
(* perhaps not yet, and every result has its announcement.                    *)
Answered(p, i) ==
  \A c \in 1 .. p[i].calls : i + c \in 1 .. Len(p) /\ p[i + c] = ResultOf(c)

Announced(p, i) ==
  LET j == i - p[i].call
  IN  j \in 1 .. i - 1 /\ p[j].kind = "assistant" /\ p[i].call <= p[j].calls

Paired(p, open) ==
  \A i \in 1 .. Len(p) :
    /\ p[i].kind = "assistant" => (open /\ i = Len(p)) \/ Answered(p, i)
    /\ p[i].kind = "result" => Announced(p, i)

PadInv ==
  /\ exec # "tools" => Paired(pad, FALSE)
  /\ exec = "tools" => /\ Paired(pad, TRUE) /\ pad # <<>>
                       /\ pad[Len(pad)] = Assistant(plan.calls) /\ plan.calls >= 1

ToolInv ==
  exec = "tools" => \A c \in Calls : tool[c].st = "running" => c <= plan.calls
------------------------------------------------------------------------------
(* --- the queue between them --- *)

Listening == reader \in {"reading", "handling"}
Answering == \/ view.phase # "preparing"
             \/ reader = "handling" /\ event.type \in Spoken

(* The sentinel is not reached: the consumer stops, or has still to read the *)
(* terminal event before it.                                                 *)
Stops == ~Listening \/ (reader = "handling" /\ event.type \in Terminal)

ClosingInv ==
  \A i \in 1 .. Len(queue) : queue[i].type = "closed" =>
    Stops \/ (i >= 2 /\ queue[i - 1].type \in Terminal)

(* Nothing is told of tools once the answer has begun. *)
OrderInv ==
  /\ \A i, j \in 1 .. Len(queue) :
       i < j /\ queue[i].type \in Spoken => queue[j].type \notin ToolTypes
  /\ Listening /\ Answering => \A j \in 1 .. Len(queue) : queue[j].type \notin ToolTypes
  /\ exec \in Working =>
       /\ \A j \in 1 .. Len(queue) : queue[j].type \notin Spoken
       /\ Listening => ~Answering
  /\ reader = "handling" /\ event.type \in ToolTypes => view.phase = "preparing"

(* The tool calls open for the client once the event in hand is handled *)
Ahead ==
  IF reader = "handling" /\ event.type = "tool_start" THEN view.running \cup {event.call}
  ELSE IF reader = "handling" /\ event.type = "tool_end" THEN view.running \ {event.call}
  ELSE view.running

(* Those the executor is running *)
Executing == IF exec = "tools" THEN {c \in Calls : tool[c].st = "running"} ELSE {}

(* The event opens or closes calls as it should, given those open before it. *)
Turns(e, before, after) ==
  /\ e.type = "tool_start" => e.call \notin before /\ after = before \cup {e.call}
  /\ e.type = "tool_end" => e.call \in before /\ after = before \ {e.call}
  /\ e.type \notin ToolTypes => after = before
  /\ e.type = "complete" => before = {}

(* The calls open before each event of the queue, and after the last. *)
OpensAlong(o) ==
  /\ o \in [1 .. Len(queue) + 1 -> SUBSET Calls]
  /\ o[1] = Ahead
  /\ \A i \in 1 .. Len(queue) : Turns(queue[i], o[i], o[i + 1])
  /\ exec \in Running => o[Len(queue) + 1] = Executing

OpenInv == Listening => \E o : OpensAlong(o)
------------------------------------------------------------------------------
(* --- the adapter --- *)

ReaderInv ==
  /\ view.phase # "broken"
  /\ view.phase \in {"ended", "failed"} => reader \in {"finished", "gone"}
  /\ reader \in {"ending", "failing"} => view.phase = "answering"
  /\ reader = "ending" => view.running = {} /\ saved = "complete"
  /\ saved = "complete" => reader \in {"ending", "finished", "gone"}
  /\ reader = "handling" =>
       /\ event.type \in ToolTypes \cup Spoken
       /\ event.type = "tool_start" => event.call \notin view.running
       /\ event.type = "tool_end" => event.call \in view.running
       /\ event.type = "complete" => view.running = {}

AgentInv ==
  /\ Types /\ StatusInv /\ PadInv /\ ToolInv
  /\ ClosingInv /\ OrderInv /\ OpenInv /\ ReaderInv /\ TerminalMatchesStore
------------------------------------------------------------------------------
(* --- lemmas about the operators --- *)

LEMMA Numbers == MaxCalls \in Nat /\ MaxCalls >= 1 /\ MaxIterations \in Nat /\ MaxIterations >= 1
BY AgentAssumption

LEMMA Walks ==
  /\ status = "created" => Walk(<<"planning">>) = "planning"
  /\ status = "planning" => /\ Walk(<<"executing">>) = "executing"
                            /\ Walk(<<"executing", "completed">>) = "completed"
  /\ status = "executing" =>
       /\ Walk(<<"planning">>) = "planning" /\ Walk(<<"completed">>) = "completed"
       /\ Walk(<<"reflecting", "planning">>) = "planning"
       /\ Walk(<<"reflecting", "executing">>) = "executing"
       /\ Walk(<<"reflecting", "executing", "completed">>) = "completed"
BY DEF Walk, StandsAt, ValidTransitions

LEMMA EntryTypes ==
  /\ Turn \in Entries /\ Thought \in Entries
  /\ \A n \in 1 .. MaxCalls : Assistant(n) \in Entries /\ ResultOf(n) \in Entries
  /\ Turn.kind = "turn" /\ Thought.kind = "thought"
  /\ \A n : Assistant(n).kind = "assistant" /\ Assistant(n).calls = n
  /\ \A n : ResultOf(n).kind = "result" /\ ResultOf(n).call = n
<1>1. Turn \in Entries /\ Thought \in Entries
  BY DEF Turn, Thought, Entries
<1>2. \A n \in 1 .. MaxCalls : Assistant(n) \in Entries /\ ResultOf(n) \in Entries
  BY DEF Assistant, ResultOf, Entries
<1> QED
  BY <1>1, <1>2 DEF Turn, Thought, Assistant, ResultOf

(* More of the conversation than before, and as much as before at its head. *)
LEMMA PairedGrows ==
  ASSUME NEW p \in Seq(Entries), NEW t \in Seq(Entries), Paired(p, FALSE),
         Len(t) >= Len(p), \A i \in 1 .. Len(p) : t[i] = p[i],
         NEW i \in 1 .. Len(p)
  PROVE  /\ t[i].kind = "assistant" => Answered(t, i)
         /\ t[i].kind = "result" => Announced(t, i)
<1>1. t[i].kind = "assistant" => Answered(t, i)
  <2> SUFFICES ASSUME t[i].kind = "assistant", NEW c \in 1 .. t[i].calls
               PROVE  i + c \in 1 .. Len(t) /\ t[i + c] = ResultOf(c)
    BY DEF Answered
  <2>1. t[i] = p[i] /\ Answered(p, i)
    BY DEF Paired
  <2>2. i + c \in 1 .. Len(p) /\ p[i + c] = ResultOf(c)
    BY <2>1 DEF Answered
  <2> QED
    BY <2>2
<1>2. t[i].kind = "result" => Announced(t, i)
  <2> SUFFICES ASSUME t[i].kind = "result" PROVE Announced(t, i)
    OBVIOUS
  <2>1. t[i] = p[i] /\ Announced(p, i) /\ p[i].call \in Int
    BY Numbers DEF Paired, Entries
  <2> QED
    BY <2>1 DEF Announced
<1> QED
  BY <1>1, <1>2

LEMMA ThoughtsJoin ==
  ASSUME NEW p \in Seq(Entries), Paired(p, FALSE), NEW text \in Texts
  PROVE  p \o Thoughts(text) \in Seq(Entries) /\ Paired(p \o Thoughts(text), FALSE)
<1> DEFINE t == p \o Thoughts(text)
<1>1. CASE Thoughts(text) = <<>>
  <2> t = p
    BY <1>1
  <2> QED
    OBVIOUS
<1>2. CASE Thoughts(text) = <<Thought>>
  <2>1. /\ t \in Seq(Entries) /\ Len(t) = Len(p) + 1 /\ t[Len(t)] = Thought
        /\ \A i \in 1 .. Len(p) : t[i] = p[i]
    BY <1>2, EntryTypes
  <2> HIDE DEF t
  <2>2. Paired(t, FALSE)
    <3>1. ASSUME NEW i \in 1 .. Len(t)
          PROVE  /\ t[i].kind = "assistant" => Answered(t, i)
                 /\ t[i].kind = "result" => Announced(t, i)
      <4>1. CASE i = Len(t)
        <5> t[i] = Thought
          BY <2>1, <4>1
        <5> QED
          BY EntryTypes
      <4>2. CASE i # Len(t)
        <5>1. i \in 1 .. Len(p) /\ Len(t) >= Len(p)
          BY <2>1, <4>2
        <5> QED
          BY <2>1, <5>1, PairedGrows
      <4> QED
        BY <4>1, <4>2
    <3> QED
      BY <3>1 DEF Paired
  <2> QED
    BY <2>1, <2>2 DEF t
<1> QED
  BY <1>1, <1>2 DEF Thoughts

LEMMA AssistantJoins ==
  ASSUME NEW p \in Seq(Entries), Paired(p, FALSE), NEW n \in 1 .. MaxCalls
  PROVE  LET t == p \o <<Assistant(n)>>
         IN  t \in Seq(Entries) /\ Paired(t, TRUE) /\ t # <<>> /\ t[Len(t)] = Assistant(n)
<1> DEFINE t == p \o <<Assistant(n)>>
<1>1. /\ t \in Seq(Entries) /\ Len(t) = Len(p) + 1 /\ t[Len(t)] = Assistant(n) /\ t # <<>>
      /\ \A i \in 1 .. Len(p) : t[i] = p[i]
  BY EntryTypes
<1> HIDE DEF t
<1>2. ASSUME NEW i \in 1 .. Len(t)
      PROVE  /\ t[i].kind = "assistant" => i = Len(t) \/ Answered(t, i)
             /\ t[i].kind = "result" => Announced(t, i)
  <2>1. CASE i = Len(t)
    BY <1>1, <2>1, EntryTypes
  <2>2. CASE i # Len(t)
    <3>1. i \in 1 .. Len(p) /\ Len(t) >= Len(p)
      BY <1>1, <2>2
    <3> QED
      BY <1>1, <3>1, PairedGrows
  <2> QED
    BY <2>1, <2>2
<1>3. Paired(t, TRUE)
  BY <1>2 DEF Paired
<1> QED
  BY <1>1, <1>3 DEF t

LEMMA ResultsJoin ==
  ASSUME NEW p \in Seq(Entries), Paired(p, TRUE), NEW n \in 1 .. MaxCalls,
         p # <<>>, p[Len(p)] = Assistant(n)
  PROVE  p \o Results(n) \in Seq(Entries) /\ Paired(p \o Results(n), FALSE)
<1> DEFINE r == Results(n)  t == p \o r
<1>1. r \in Seq(Entries) /\ Len(r) = n /\ \A c \in 1 .. n : r[c] = ResultOf(c)
  BY Numbers, EntryTypes DEF Results
<1> HIDE DEF r
<1>2. /\ t \in Seq(Entries) /\ Len(t) = Len(p) + n /\ Len(p) \in Nat /\ Len(p) >= 1
      /\ \A i \in 1 .. Len(p) : t[i] = p[i]
      /\ \A c \in 1 .. n : t[Len(p) + c] = ResultOf(c)
  BY <1>1, Numbers
<1> HIDE DEF t
<1>3. ASSUME NEW i \in 1 .. Len(t)
      PROVE  /\ t[i].kind = "assistant" => Answered(t, i)
             /\ t[i].kind = "result" => Announced(t, i)
  <2>1. CASE i = Len(p)
    BY <1>2, <2>1, EntryTypes DEF Answered
  <2>2. CASE i < Len(p)
    <3>1. /\ i \in 1 .. Len(p) /\ t[i] = p[i]
          /\ (t[i].kind = "assistant" => Answered(p, i))
          /\ (t[i].kind = "result" => Announced(p, i) /\ p[i].call \in Int)
      <4>1. i \in 1 .. Len(p) /\ i # Len(p) /\ t[i] = p[i] /\ p[i] \in Entries
        BY <1>2, <2>2
      <4>2. p[i].kind = "assistant" => Answered(p, i)
        BY <4>1 DEF Paired
      <4>3. p[i].kind = "result" => Announced(p, i)
        BY <4>1 DEF Paired
      <4>4. p[i].kind = "result" => p[i].call \in Int
        BY <4>1, Numbers DEF Entries
      <4> QED
        BY <4>1, <4>2, <4>3, <4>4
    <3>2. ASSUME t[i].kind = "assistant", NEW c \in 1 .. t[i].calls
          PROVE  i + c \in 1 .. Len(t) /\ t[i + c] = ResultOf(c)
      <4>1. i + c \in 1 .. Len(p) /\ p[i + c] = ResultOf(c)
        BY <3>1, <3>2 DEF Answered
      <4> QED
        BY <1>2, <4>1
    <3>3. ASSUME t[i].kind = "result" PROVE Announced(t, i)
      <4> DEFINE j == i - p[i].call
      <4>1. j \in 1 .. i - 1 /\ p[j].kind = "assistant" /\ p[i].call <= p[j].calls
        BY <3>1, <3>3 DEF Announced
      <4>2. j \in 1 .. Len(p)
        BY <3>1, <4>1
      <4> QED
        BY <1>2, <3>1, <4>1, <4>2 DEF Announced
    <3> QED
      BY <3>2, <3>3 DEF Answered
  <2>3. CASE i > Len(p)
    <3> DEFINE c == i - Len(p)
    <3>1. c \in 1 .. n /\ t[i] = ResultOf(c) /\ i - c = Len(p)
      BY <1>2, <2>3
    <3>2. t[i].kind = "result" /\ t[i].call = c
      BY <3>1, EntryTypes
    <3>3. t[Len(p)].kind = "assistant" /\ t[Len(p)].calls = n
      BY <1>2, EntryTypes
    <3> QED
      BY <1>2, <3>1, <3>2, <3>3 DEF Announced
  <2> QED
    BY <1>2, <2>1, <2>2, <2>3
<1>4. Paired(t, FALSE)
  BY <1>3 DEF Paired
<1> QED
  BY <1>2, <1>4 DEF t, r
------------------------------------------------------------------------------
(* --- events enter the queue --- *)

LEMMA EventTypes ==
  /\ \A type \in {"start", "planning", "reflection", "complete", "error", "closed"} :
       Event(type) \in Events /\ Event(type).type = type
  /\ \A text \in BOOLEAN : Token(text) \in Events /\ Token(text).type = "token"
  /\ \A type \in ToolTypes, c \in Calls :
       /\ ToolEvent(type, c) \in Events
       /\ ToolEvent(type, c).type = type /\ ToolEvent(type, c).call = c
BY DEF Event, Token, ToolEvent, Events

LEMMA Joined ==
  ASSUME Types, NEW s \in Seq(Events), queue' = queue \o s
  PROVE  /\ queue' \in Seq(Events) /\ Len(queue') = Len(queue) + Len(s)
         /\ Len(queue) \in Nat /\ Len(s) \in Nat
         /\ \A i \in 1 .. Len(queue) : queue'[i] = queue[i]
         /\ \A i \in 1 .. Len(queue') :
              i > Len(queue) => i - Len(queue) \in 1 .. Len(s) /\ queue'[i] = s[i - Len(queue)]
BY DEF Types

(* The executor publishes what is not about tools. *)
LEMMA SpeaksKeepsQueue ==
  ASSUME AgentInv, exec \in Running, NEW s \in Seq(Events), queue' = queue \o s,
         UNCHANGED <<reader, event, view>>,
         \A i \in 1 .. Len(s) : s[i].type \notin ToolTypes,
         \A i \in 1 .. Len(s) : s[i].type = "closed" =>
           ~Listening \/ (i >= 2 /\ s[i - 1].type \in Terminal),
         \A i \in 1 .. Len(s) : s[i].type = "complete" => Executing = {},
         exec' \in Working => /\ exec \in Working
                              /\ \A i \in 1 .. Len(s) : s[i].type \notin Spoken,
         exec' \in Running => Executing' = Executing
  PROVE  queue' \in Seq(Events) /\ ClosingInv' /\ OrderInv' /\ OpenInv'
<1> DEFINE n == Len(queue)
<1>0. Types /\ ClosingInv /\ OrderInv /\ OpenInv
  BY DEF AgentInv
<1>1. /\ queue' \in Seq(Events) /\ Len(queue') = n + Len(s) /\ n \in Nat /\ Len(s) \in Nat
      /\ \A i \in 1 .. n : queue'[i] = queue[i]
      /\ \A i \in 1 .. Len(queue') : i > n => i - n \in 1 .. Len(s) /\ queue'[i] = s[i - n]
  BY <1>0, Joined
<1>2. ClosingInv'
  <2> SUFFICES ASSUME NEW i \in 1 .. Len(queue'), queue'[i].type = "closed", ~Stops'
               PROVE  i >= 2 /\ queue'[i - 1].type \in Terminal
    BY DEF ClosingInv
  <2>0. ~Stops /\ Listening
    BY DEF Stops, Listening
  <2>1. CASE i <= n
    <3>1. i \in 1 .. n /\ queue[i].type = "closed"
      BY <1>1, <2>1
    <3>2. i >= 2 /\ queue[i - 1].type \in Terminal
      BY <1>0, <2>0, <3>1 DEF ClosingInv
    <3> QED
      BY <1>1, <3>1, <3>2
  <2>2. CASE i > n
    <3> DEFINE k == i - n
    <3>1. k \in 1 .. Len(s) /\ queue'[i] = s[k]
      BY <1>1, <2>2
    <3>2. k >= 2 /\ s[k - 1].type \in Terminal
      BY <2>0, <3>1
    <3>3. i - 1 \in 1 .. Len(queue') /\ i - 1 > n /\ queue'[i - 1] = s[(i - 1) - n]
      BY <1>1, <3>1, <3>2
    <3>4. (i - 1) - n = k - 1
      BY <1>1
    <3> QED
      BY <1>1, <3>1, <3>2, <3>3, <3>4
  <2> QED
    BY <1>1, <2>1, <2>2
<1>3. ASSUME NEW j \in 1 .. Len(queue'), queue'[j].type \in ToolTypes
      PROVE  j \in 1 .. n /\ queue'[j] = queue[j]
  BY <1>1, <1>3
<1>4. OrderInv'
  <2>1. ASSUME NEW i \in 1 .. Len(queue'), NEW j \in 1 .. Len(queue'), i < j,
               queue'[i].type \in Spoken
        PROVE  queue'[j].type \notin ToolTypes
    BY <1>0, <1>1, <1>3, <2>1 DEF OrderInv
  <2>2. ASSUME Listening', Answering', NEW j \in 1 .. Len(queue')
        PROVE  queue'[j].type \notin ToolTypes
    BY <1>0, <1>3, <2>2 DEF OrderInv, Listening, Answering
  <2>3. ASSUME exec' \in Working, NEW j \in 1 .. Len(queue')
        PROVE  queue'[j].type \notin Spoken
    BY <1>0, <1>1, <2>3 DEF OrderInv
  <2>4. exec' \in Working => (Listening' => ~Answering')
    BY <1>0 DEF OrderInv, Listening, Answering
  <2>5. reader' = "handling" /\ event'.type \in ToolTypes => view'.phase = "preparing"
    BY <1>0 DEF OrderInv
  <2> QED
    BY <2>1, <2>2, <2>3, <2>4, <2>5 DEF OrderInv
<1>5. OpenInv'
  <2> SUFFICES ASSUME Listening' PROVE \E o : OpensAlong(o)'
    BY DEF OpenInv
  <2>1. PICK o : OpensAlong(o)
    BY <1>0 DEF OpenInv, Listening
  <2> DEFINE q == [i \in 1 .. Len(queue') + 1 |-> IF i <= n + 1 THEN o[i] ELSE o[n + 1]]
  <2>2. o \in [1 .. n + 1 -> SUBSET Calls] /\ o[n + 1] = Executing
    BY <2>1 DEF OpensAlong
  <2>3. q \in [1 .. Len(queue') + 1 -> SUBSET Calls]
    BY <1>1, <2>2
  <2>4. q[1] = Ahead' /\ q[Len(queue') + 1] = o[n + 1]
    BY <1>1, <2>1 DEF OpensAlong, Ahead
  <2>5. ASSUME NEW i \in 1 .. Len(queue') PROVE Turns(queue'[i], q[i], q[i + 1])
    <3>1. CASE i <= n
      <4>1. q[i] = o[i] /\ q[i + 1] = o[i + 1] /\ queue'[i] = queue[i] /\ i \in 1 .. n
        BY <1>1, <3>1
      <4> QED
        BY <2>1, <4>1 DEF OpensAlong
    <3>2. CASE i > n
      <4>1. q[i] = o[n + 1] /\ q[i + 1] = o[n + 1] /\ i - n \in 1 .. Len(s)
            /\ queue'[i] = s[i - n]
        BY <1>1, <3>2
      <4>2. s[i - n].type \notin ToolTypes /\ (s[i - n].type = "complete" => o[n + 1] = {})
        BY <2>2, <4>1
      <4> QED
        BY <4>1, <4>2 DEF Turns, ToolTypes
    <3> QED
      BY <1>1, <3>1, <3>2
  <2>6. exec' \in Running => q[Len(queue') + 1] = Executing'
    BY <2>2, <2>4
  <2> HIDE DEF q
  <2>7. PICK f : f = q
    OBVIOUS
  <2>8. OpensAlong(f)'
    BY <2>3, <2>4, <2>5, <2>6, <2>7 DEF OpensAlong
  <2> QED
    BY <2>8
<1> QED
  BY <1>1, <1>2, <1>4, <1>5

(* The executor publishes that a tool starts or ends. *)
LEMMA ToolEventKeepsQueue ==
  ASSUME AgentInv, exec = "tools", exec' = "tools", NEW e \in Events, e.type \in ToolTypes,
         queue' = queue \o <<e>>, UNCHANGED <<reader, event, view>>,
         Executing' \in SUBSET Calls, Turns(e, Executing, Executing')
  PROVE  queue' \in Seq(Events) /\ ClosingInv' /\ OrderInv' /\ OpenInv'
<1> DEFINE n == Len(queue)
<1>0. Types /\ ClosingInv /\ OrderInv /\ OpenInv
  BY DEF AgentInv
<1>1. /\ queue' \in Seq(Events) /\ Len(queue') = n + 1 /\ n \in Nat
      /\ \A i \in 1 .. n : queue'[i] = queue[i]
      /\ queue'[n + 1] = e
  BY <1>0 DEF Types
<1>2. ClosingInv'
  <2> SUFFICES ASSUME NEW i \in 1 .. Len(queue'), queue'[i].type = "closed", ~Stops'
               PROVE  i >= 2 /\ queue'[i - 1].type \in Terminal
    BY DEF ClosingInv
  <2>1. ~Stops /\ i \in 1 .. n /\ queue[i].type = "closed"
    BY <1>1 DEF Stops, Listening, ToolTypes
  <2>2. i >= 2 /\ queue[i - 1].type \in Terminal
    BY <1>0, <2>1 DEF ClosingInv
  <2> QED
    BY <1>1, <2>1, <2>2
<1>3. e.type \notin Spoken
  BY DEF ToolTypes, Spoken, Terminal
<1>4. OrderInv'
  <2>1. \A j \in 1 .. Len(queue') : queue'[j].type \notin Spoken
    BY <1>0, <1>1, <1>3 DEF OrderInv, Working
  <2>2. Listening' => ~Answering'
    BY <1>0 DEF OrderInv, Working, Listening, Answering
  <2>3. reader' = "handling" /\ event'.type \in ToolTypes => view'.phase = "preparing"
    BY <1>0 DEF OrderInv
  <2> QED
    BY <2>1, <2>2, <2>3 DEF OrderInv
<1>5. OpenInv'
  <2> SUFFICES ASSUME Listening' PROVE \E o : OpensAlong(o)'
    BY DEF OpenInv
  <2>1. PICK o : OpensAlong(o)
    BY <1>0 DEF OpenInv, Listening
  <2> DEFINE q == [i \in 1 .. n + 2 |-> IF i <= n + 1 THEN o[i] ELSE Executing']
  <2>2. o \in [1 .. n + 1 -> SUBSET Calls] /\ o[n + 1] = Executing
    BY <2>1 DEF OpensAlong, Running
  <2>3. q \in [1 .. Len(queue') + 1 -> SUBSET Calls]
    BY <1>1, <2>2
  <2>4. q[1] = Ahead' /\ q[Len(queue') + 1] = Executing'
    BY <1>1, <2>1 DEF OpensAlong, Ahead
  <2>5. ASSUME NEW i \in 1 .. Len(queue') PROVE Turns(queue'[i], q[i], q[i + 1])
    <3>1. CASE i <= n
      <4>1. q[i] = o[i] /\ q[i + 1] = o[i + 1] /\ queue'[i] = queue[i] /\ i \in 1 .. n
        BY <1>1, <3>1
      <4> QED
        BY <2>1, <4>1 DEF OpensAlong
    <3>2. CASE i = n + 1
      <4>1. q[i] = Executing /\ q[i + 1] = Executing' /\ queue'[i] = e
        BY <1>1, <2>2, <3>2
      <4> QED
        BY <4>1
    <3> QED
      BY <1>1, <3>1, <3>2
  <2> HIDE DEF q
  <2>6. PICK f : f = q
    OBVIOUS
  <2>7. OpensAlong(f)'
    BY <2>3, <2>4, <2>5, <2>6 DEF OpensAlong
  <2> QED
    BY <2>7
<1> QED
  BY <1>1, <1>2, <1>4, <1>5
------------------------------------------------------------------------------
(* --- the executor's steps --- *)

Tools == [Calls -> [st : {"waiting", "running", "done"}, tries : Nat, ok : BOOLEAN]]

LEMMA IdleTools ==
  /\ Idle \in Tools /\ \A c \in Calls : Idle[c].st = "waiting"
  /\ NoPlan.calls = 0
BY DEF Idle, Tools, NotStarted, NoPlan

LEMMA NothingExecutes == AgentInv /\ exec # "tools" => Executing = {}
BY DEF Executing

(* The adapter's part of the invariant does not depend on the executor. *)
LEMMA ExecutorKeeps ==
  ASSUME AgentInv, UNCHANGED <<mode, reader, event, saved, view>>,
         exec' \in Running \cup Over, pad' \in Seq(Entries), plan'.calls \in 0 .. MaxCalls,
         tool' \in Tools, StatusInv', PadInv', ToolInv',
         queue' \in Seq(Events), ClosingInv', OrderInv', OpenInv'
  PROVE  AgentInv'
<1>1. Types'
  BY DEF AgentInv, Types, Tools
<1>2. ReaderInv' /\ TerminalMatchesStore'
  BY DEF AgentInv, ReaderInv, TerminalMatchesStore
<1> QED
  BY <1>1, <1>2 DEF AgentInv

LEMMA EndsRun ==
  ASSUME AgentInv, exec \in Running, UNCHANGED <<mode, reader, event, saved, view>>,
         NEW how \in Over, NEW events \in Seq(Events), Ends(how, events),
         status' # "refused",
         \A i \in 1 .. Len(events) : events[i].type \notin ToolTypes \cup {"closed"},
         \A i \in 1 .. Len(events) : events[i].type = "complete" => Executing = {},
         Listening => events # <<>> /\ events[Len(events)].type \in Terminal
  PROVE  AgentInv'
<1> DEFINE s == events \o <<Event("closed")>>
<1>1. /\ s \in Seq(Events) /\ Len(s) = Len(events) + 1 /\ Len(events) \in Nat
      /\ s[Len(s)] = Event("closed") /\ \A i \in 1 .. Len(events) : s[i] = events[i]
  BY EventTypes
<1>2. queue' = queue \o s /\ exec' = how
  BY DEF Ends, Publish
<1> HIDE DEF s
<1>3. ASSUME NEW i \in 1 .. Len(s)
      PROVE  /\ s[i].type \notin ToolTypes
             /\ s[i].type = "closed" => i = Len(s)
             /\ s[i].type = "complete" => Executing = {}
  <2>1. CASE i = Len(s)
    BY <1>1, <2>1, EventTypes DEF ToolTypes
  <2>2. CASE i # Len(s)
    <3> i \in 1 .. Len(events) /\ s[i] = events[i]
      BY <1>1, <2>2
    <3> QED
      OBVIOUS
  <2> QED
    BY <2>1, <2>2
<1>4. ASSUME NEW i \in 1 .. Len(s), s[i].type = "closed"
      PROVE  ~Listening \/ (i >= 2 /\ s[i - 1].type \in Terminal)
  <2>1. i = Len(s)
    BY <1>3, <1>4
  <2>2. ASSUME Listening PROVE Len(events) \in 1 .. Len(events) /\ i - 1 = Len(events)
    BY <1>1, <2>1, <2>2
  <2> QED
    BY <1>1, <2>1, <2>2
<1>5. how \notin Running /\ how \notin Working
  BY DEF Over, Running, Working
<1>6. queue' \in Seq(Events) /\ ClosingInv' /\ OrderInv' /\ OpenInv'
  BY <1>1, <1>2, <1>3, <1>4, <1>5, SpeaksKeepsQueue
<1>7. pad' = <<>> /\ plan' = NoPlan /\ tool' = Idle
  BY DEF Ends
<1>8. PadInv' /\ ToolInv' /\ StatusInv'
  <2>1. exec' \notin {"created", "loop", "ask", "tools", "stream"}
    BY <1>2, <1>5 DEF Running
  <2>2. Paired(<<>>, FALSE)
    BY DEF Paired
  <2> QED
    BY <1>7, <2>1, <2>2 DEF PadInv, ToolInv, StatusInv
<1>10. pad' \in Seq(Entries) /\ plan'.calls \in 0 .. MaxCalls /\ tool' \in Tools
  BY <1>7, IdleTools, Numbers
<1> QED
  BY <1>2, <1>6, <1>8, <1>10, ExecutorKeeps

(* Words that wait in the queue without a tool call among them *)
Plain(s) == s \in Seq(Events) /\ \A i \in 1 .. Len(s) : s[i].type \notin ToolTypes \cup {"closed"}
Silent(s) == \A i \in 1 .. Len(s) : s[i].type \notin Spoken

LEMMA PlainEvents ==
  /\ Plain(<<>>) /\ Silent(<<>>)
  /\ \A type \in {"start", "planning", "reflection"} :
       /\ Plain(<<Event(type)>>) /\ Silent(<<Event(type)>>)
       /\ Plain(<<Event(type)>> \o <<Token(FALSE)>>)
  /\ Plain(<<Token(FALSE)>>) /\ Plain(<<Token(TRUE)>>)
<1>1. \A type \in {"start", "planning", "reflection"} :
        /\ Event(type) \in Events /\ Event(type).type \notin ToolTypes \cup {"closed"}
        /\ Event(type).type \notin Spoken
  BY EventTypes DEF ToolTypes, Spoken, Terminal
<1>2. \A text \in BOOLEAN : Token(text) \in Events /\ Token(text).type \notin ToolTypes \cup {"closed"}
  BY EventTypes DEF ToolTypes
<1>3. ASSUME NEW type \in {"start", "planning", "reflection"}
      PROVE  Plain(<<Event(type)>> \o <<Token(FALSE)>>)
  <2> DEFINE opening == Token(FALSE)  s == <<Event(type)>> \o <<opening>>
  <2>0. Event(type) \in Events /\ opening \in Events /\ opening.type \notin ToolTypes \cup {"closed"}
    BY <1>1, <1>2
  <2> HIDE DEF opening
  <2>1. s \in Seq(Events) /\ Len(s) = 2 /\ s[1] = Event(type) /\ s[2] = opening
    BY <2>0
  <2> HIDE DEF s
  <2>2. \A i \in 1 .. Len(s) : i = 1 \/ i = 2
    BY <2>1
  <2>3. Plain(s)
    BY <1>1, <2>0, <2>1, <2>2 DEF Plain
  <2> QED
    BY <2>3 DEF s, opening
<1>4. Plain(<<>>) /\ Silent(<<>>)
  BY DEF Plain, Silent
<1>5. \A type \in {"start", "planning", "reflection"} : Plain(<<Event(type)>>)
  BY <1>1 DEF Plain
<1>6. \A type \in {"start", "planning", "reflection"} : Silent(<<Event(type)>>)
  BY <1>1 DEF Silent
<1>7. ASSUME NEW e \in Events, e.type \notin ToolTypes \cup {"closed"} PROVE Plain(<<e>>)
  BY <1>7 DEF Plain
<1>8. Plain(<<Token(FALSE)>>) /\ Plain(<<Token(TRUE)>>)
  BY <1>2, <1>7
<1> QED
  BY <1>3, <1>4, <1>5, <1>6, <1>8

LEMMA TwoEvents ==
  ASSUME NEW type \in {"planning", "reflection"}
  PROVE  \A i \in 1 .. Len(<<Event(type)>> \o <<Token(FALSE)>>) :
           (<<Event(type)>> \o <<Token(FALSE)>>)[i].type # "complete"
<1> DEFINE a == Event(type)  b == Token(FALSE)  s == <<a>> \o <<b>>
<1>1. a \in Events /\ a.type # "complete"
  BY EventTypes
<1>2. b \in Events /\ b.type # "complete"
  BY EventTypes
<1> HIDE DEF a, b
<1>3. Len(s) = 2 /\ s[1] = a /\ s[2] = b
  BY <1>1, <1>2
<1> HIDE DEF s
<1>4. \A i \in 1 .. Len(s) : s[i].type # "complete"
  BY <1>1, <1>2, <1>3
<1> QED
  BY <1>4 DEF s, a, b

LEMMA Speaks ==
  ASSUME AgentInv, exec \in Running, UNCHANGED <<reader, event, view>>,
         NEW s, Plain(s), queue' = queue \o s,
         \A i \in 1 .. Len(s) : s[i].type # "complete",
         exec' \in Working => exec \in Working /\ Silent(s),
         exec' \in Running => Executing' = Executing
  PROVE  queue' \in Seq(Events) /\ ClosingInv' /\ OrderInv' /\ OpenInv'
<1>1. s \in Seq(Events) /\ \A i \in 1 .. Len(s) : s[i].type \notin ToolTypes /\ s[i].type # "closed"
  BY DEF Plain
<1>2. exec' \in Working => \A i \in 1 .. Len(s) : s[i].type \notin Spoken
  BY DEF Silent
<1> QED
  BY <1>1, <1>2, SpeaksKeepsQueue

LEMMA SaysNothing ==
  ASSUME AgentInv, exec \in Running, UNCHANGED <<reader, event, view, queue>>,
         exec' \in Working => exec \in Working,
         exec' \in Running => Executing' = Executing
  PROVE  queue' \in Seq(Events) /\ ClosingInv' /\ OrderInv' /\ OpenInv'
<1> DEFINE s == <<>>
<1>1. queue' = queue \o s /\ \A i \in 1 .. Len(s) : s[i].type # "complete"
  BY DEF AgentInv, Types
<1>2. Plain(s) /\ Silent(s)
  BY PlainEvents
<1> HIDE DEF s
<1> QED
  BY <1>1, <1>2, Speaks

LEMMA Reflects ==
  ASSUME AgentInv, exec \in Running, UNCHANGED <<reader, event, view>>,
         queue' = queue \o <<Event("reflection")>>, exec' \in Working => exec \in Working,
         exec' \in Running => Executing' = Executing
  PROVE  queue' \in Seq(Events) /\ ClosingInv' /\ OrderInv' /\ OpenInv'
<1> DEFINE e == Event("reflection")
<1>1. Plain(<<e>>) /\ Silent(<<e>>) /\ e.type # "complete"
  BY PlainEvents, EventTypes
<1>2. queue' = queue \o <<e>>
  OBVIOUS
<1> HIDE DEF e
<1>3. \A i \in 1 .. Len(<<e>>) : <<e>>[i].type # "complete"
  BY <1>1
<1> QED
  BY <1>1, <1>2, <1>3, Speaks

(* How a run ends that was not cancelled: with a terminal event *)
Closing(s) == Plain(s) /\ s # <<>> /\ s[Len(s)].type \in Terminal

LEMMA ClosingEvents ==
  /\ Closing(<<Event("error")>>) /\ Closing(<<Event("complete")>>)
  /\ Closing(<<Token(FALSE), Token(TRUE), Event("complete")>>)
  /\ Closing(<<Event("reflection"), Token(FALSE), Token(TRUE), Event("complete")>>)
<1> DEFINE a == Token(FALSE)  b == Token(TRUE)  z == Event("complete")  x == Event("error")
           r == Event("reflection")
           Fine(e) == e \in Events /\ e.type \notin ToolTypes \cup {"closed"}
<1>1. Fine(a) /\ Fine(b) /\ Fine(z) /\ Fine(x) /\ Fine(r) /\ {z.type, x.type} \subseteq Terminal
  BY EventTypes DEF ToolTypes, Terminal
<1> HIDE DEF a, b, z, x, r
<1>2. Closing(<<x>>) /\ Closing(<<z>>)
  BY <1>1 DEF Closing, Plain
<1>3. Closing(<<a, b, z>>)
  <2> DEFINE s == <<a, b, z>>
  <2>1. s \in Seq(Events) /\ Len(s) = 3 /\ s[1] = a /\ s[2] = b /\ s[3] = z /\ s # <<>>
    BY <1>1
  <2> HIDE DEF s
  <2>2. \A i \in 1 .. Len(s) : i = 1 \/ i = 2 \/ i = 3
    BY <2>1
  <2>3. Closing(s)
    BY <1>1, <2>1, <2>2 DEF Closing, Plain
  <2> QED
    BY <2>3 DEF s
<1>4. Closing(<<r, a, b, z>>)
  <2> DEFINE s == <<r, a, b, z>>
  <2>1. s \in Seq(Events) /\ Len(s) = 4 /\ s[1] = r /\ s[2] = a /\ s[3] = b /\ s[4] = z /\ s # <<>>
    BY <1>1
  <2> HIDE DEF s
  <2>2. \A i \in 1 .. Len(s) : i = 1 \/ i = 2 \/ i = 3 \/ i = 4
    BY <2>1
  <2>3. Closing(s)
    BY <1>1, <2>1, <2>2 DEF Closing, Plain
  <2> QED
    BY <2>3 DEF s
<1> QED
  BY <1>2, <1>3, <1>4 DEF a, b, z, x, r

LEMMA EndsTold ==
  ASSUME AgentInv, exec \in Running, UNCHANGED <<mode, reader, event, saved, view>>,
         NEW how \in Over, NEW events, Closing(events), Ends(how, events), Executing = {},
         status' # "refused"
  PROVE  AgentInv'
<1>1. /\ events \in Seq(Events) /\ events # <<>> /\ events[Len(events)].type \in Terminal
      /\ \A i \in 1 .. Len(events) : events[i].type \notin ToolTypes \cup {"closed"}
  BY DEF Closing, Plain
<1> QED
  BY <1>1, EndsRun

LEMMA StartsStep ==
  ASSUME AgentInv, mode' = mode, Starts
  PROVE  AgentInv'
<1>1. /\ exec = "created" /\ exec' = "loop" /\ status' = Walk(<<"planning">>) /\ pad' = <<Turn>>
      /\ queue' = queue \o <<Event("start")>> /\ plan' = plan /\ tool' = tool
      /\ UNCHANGED <<reader, event, saved, view>>
  BY DEF Starts, adapter, Publish
<1>2. exec \in Running /\ exec \in Working /\ Executing = {} /\ Executing' = {}
  BY <1>1 DEF Running, Working, Executing
<1>3. queue' \in Seq(Events) /\ ClosingInv' /\ OrderInv' /\ OpenInv'
  <2>1. \A i \in 1 .. Len(<<Event("start")>>) : <<Event("start")>>[i].type # "complete"
    BY EventTypes
  <2> QED
    BY <1>1, <1>2, <2>1, PlainEvents, Speaks
<1>4. StatusInv'
  BY <1>1, Walks DEF AgentInv, StatusInv
<1>5. pad' \in Seq(Entries) /\ PadInv'
  BY <1>1, EntryTypes DEF PadInv, Paired
<1>6. ToolInv'
  BY <1>1 DEF ToolInv
<1>7. plan'.calls \in 0 .. MaxCalls /\ tool' \in Tools
  BY <1>1 DEF AgentInv, Types, Tools
<1> QED
  BY <1>1, <1>3, <1>4, <1>5, <1>6, <1>7, ExecutorKeeps DEF Running

LEMMA PlansNextStep ==
  ASSUME AgentInv, mode' = mode, PlansNext
  PROVE  AgentInv'
<1>1. /\ exec = "loop" /\ plan' = plan /\ tool' = tool /\ pad' = pad
      /\ UNCHANGED <<reader, event, saved, view>>
  BY DEF PlansNext, adapter
<1>2. exec \in Running /\ exec \in Working /\ Executing = {}
  BY <1>1 DEF Running, Working, Executing
<1>3. plan'.calls \in 0 .. MaxCalls /\ tool' \in Tools /\ pad' \in Seq(Entries)
      /\ Paired(pad', FALSE) /\ status = "planning"
  BY <1>1 DEF AgentInv, Types, Tools, PadInv, StatusInv
<1>4. CASE exec' = "ask" /\ queue' = queue \o <<Event("planning")>> /\ status' = status
  <2>1. \A i \in 1 .. Len(<<Event("planning")>>) : <<Event("planning")>>[i].type # "complete"
    BY EventTypes
  <2>2. Executing' = {}
    BY <1>4 DEF Executing
  <2>3. queue' \in Seq(Events) /\ ClosingInv' /\ OrderInv' /\ OpenInv'
    BY <1>1, <1>2, <1>4, <2>1, <2>2, PlainEvents, Speaks
  <2>4. StatusInv' /\ PadInv' /\ ToolInv'
    BY <1>3, <1>4 DEF StatusInv, PadInv, ToolInv
  <2> QED
    BY <1>1, <1>3, <1>4, <2>3, <2>4, ExecutorKeeps DEF Running
<1>5. CASE /\ exec' = "stream" /\ queue' = queue \o (<<Event("planning")>> \o <<Token(FALSE)>>)
           /\ status' = Walk(<<"executing">>)
  <2> DEFINE s == <<Event("planning")>> \o <<Token(FALSE)>>
  <2>1. Plain(s) /\ \A i \in 1 .. Len(s) : s[i].type # "complete"
    BY PlainEvents, TwoEvents
  <2>2. Executing' = {} /\ exec' \notin Working
    BY <1>5 DEF Executing, Working
  <2> HIDE DEF s
  <2>3. queue' \in Seq(Events) /\ ClosingInv' /\ OrderInv' /\ OpenInv'
    <3>1. queue' = queue \o s
      BY <1>5 DEF s
    <3> QED
      BY <1>1, <1>2, <2>1, <2>2, <3>1, Speaks
  <2>4. StatusInv' /\ PadInv' /\ ToolInv'
    BY <1>3, <1>5, Walks DEF StatusInv, PadInv, ToolInv
  <2> QED
    BY <1>1, <1>3, <1>5, <2>3, <2>4, ExecutorKeeps DEF Running
<1> QED
  BY <1>4, <1>5 DEF PlansNext, AnswerStreams, Publish

LEMMA EndingSteps ==
  ASSUME AgentInv, mode' = mode,
         LimitReached \/ StreamFinishes \/ StreamBreaks \/ ConversionFails \/ Cancelled
  PROVE  AgentInv'
<1>0. status # "refused" /\ UNCHANGED <<reader, event, saved, view>>
  BY DEF AgentInv, StatusInv, adapter, LimitReached, StreamFinishes, StreamBreaks, ConversionFails,
         Cancelled
<1>1. CASE LimitReached
  <2>1. exec = "loop" /\ status' = Walk(<<"executing", "completed">>) /\ Executing = {}
        /\ Ends("completed", <<Token(FALSE), Token(TRUE), Event("complete")>>)
    BY <1>1 DEF LimitReached, AnswerWith, Executing
  <2>2. status' # "refused"
    BY <2>1, Walks DEF AgentInv, StatusInv
  <2>3. exec \in Running /\ "completed" \in Over
    BY <2>1 DEF Running, Over
  <2> QED
    BY <1>0, <2>1, <2>2, <2>3, ClosingEvents, EndsTold
<1>2. CASE StreamFinishes
  <2>1. exec = "stream" /\ status' = Walk(<<"completed">>) /\ Executing = {}
        /\ Ends("completed", <<Event("complete")>>)
    BY <1>2 DEF StreamFinishes, Executing
  <2>2. status' # "refused"
    BY <2>1, Walks DEF AgentInv, StatusInv
  <2>3. exec \in Running /\ "completed" \in Over
    BY <2>1 DEF Running, Over
  <2> QED
    BY <1>0, <2>1, <2>2, <2>3, ClosingEvents, EndsTold
<1>3. CASE StreamBreaks
  <2>1. exec = "stream" /\ status' = status /\ Executing = {} /\ faulty' = TRUE
        /\ Ends("failed", <<Event("error")>>)
    BY <1>3 DEF StreamBreaks, Fails, Executing
  <2>2. exec \in Running /\ "failed" \in Over
    BY <2>1 DEF Running, Over
  <2> QED
    BY <1>0, <2>1, <2>2, ClosingEvents, EndsTold
<1>4. CASE ConversionFails
  <2>1. exec = "stream" /\ status' = status /\ Executing = {} /\ ~mode.converts
        /\ Ends("failed", <<Event("error")>>)
    BY <1>4 DEF ConversionFails, Convertible, RejectsPadMessages, Fails, Executing
  <2>2. exec \in Running /\ "failed" \in Over
    BY <2>1 DEF Running, Over
  <2> QED
    BY <1>0, <2>1, <2>2, ClosingEvents, EndsTold
<1>5. CASE Cancelled
  <2>1. exec \in Running /\ status' = status /\ ~Listening /\ Ends("cancelled", <<>>)
    BY <1>5 DEF Cancelled, Listening
  <2> DEFINE s == <<>>
  <2>2. "cancelled" \in Over /\ s \in Seq(Events) /\ \A i \in 1 .. Len(s) : FALSE
    BY DEF Over
  <2>3. Ends("cancelled", s)
    BY <2>1
  <2> HIDE DEF s
  <2> QED
    BY <1>0, <2>1, <2>2, <2>3, EndsRun
<1> QED
  BY <1>1, <1>2, <1>3, <1>4, <1>5

LEMMA AskFailsStep ==
  ASSUME AgentInv, mode' = mode, NEW transient \in BOOLEAN, AskFails(transient)
  PROVE  AgentInv'
<1>1. exec = "ask" /\ exec \in Running /\ Executing = {} /\ status' = status
      /\ status # "refused" /\ UNCHANGED <<reader, event, saved, view>>
  BY DEF AskFails, adapter, Running, Executing, AgentInv, StatusInv
<1>2. CASE AsksAgain(transient)
  <2>1. UNCHANGED <<exec, plan, tool, pad, queue, faulty>> /\ Executing' = Executing
    BY <1>2 DEF AskFails, Executing
  <2>2. queue' \in Seq(Events) /\ ClosingInv' /\ OrderInv' /\ OpenInv'
    BY <1>1, <2>1, SaysNothing
  <2>3. StatusInv' /\ PadInv' /\ ToolInv'
    BY <1>1, <2>1 DEF AgentInv, StatusInv, PadInv, ToolInv
  <2>4. exec' \in Running \cup Over /\ pad' \in Seq(Entries) /\ plan'.calls \in 0 .. MaxCalls
        /\ tool' \in Tools
    BY <2>1 DEF AgentInv, Types, Tools
  <2> QED
    BY <1>1, <2>2, <2>3, <2>4, ExecutorKeeps
<1>3. CASE ~AsksAgain(transient)
  <2>1. Ends("failed", <<Event("error")>>) /\ faulty' = TRUE
    BY <1>3 DEF AskFails, Fails
  <2>2. "failed" \in Over
    BY DEF Over
  <2> QED
    BY <1>1, <2>1, <2>2, ClosingEvents, EndsTold
<1> QED
  BY <1>2, <1>3

LEMMA AskAnswersStep ==
  ASSUME AgentInv, mode' = mode, NEW text \in Texts, NEW n \in 0 .. MaxCalls, AskAnswers(text, n)
  PROVE  AgentInv'
<1>1. /\ exec = "ask" /\ exec \in Running /\ exec \in Working /\ Executing = {}
      /\ status = "planning" /\ Paired(pad, FALSE) /\ pad \in Seq(Entries)
      /\ UNCHANGED <<reader, event, saved, view, faulty>>
  BY DEF AskAnswers, adapter, Running, Working, Executing, AgentInv, StatusInv, PadInv, Types
<1>2. CASE n = 0 /\ text = "text" /\ Finalize(text)
  <2>1. status' = Walk(<<"executing", "completed">>)
        /\ Ends("completed", <<Token(FALSE), Token(TRUE), Event("complete")>>)
    BY <1>2 DEF Finalize, AnswerWith
  <2>2. status' # "refused" /\ "completed" \in Over
    BY <1>1, <2>1, Walks DEF Over
  <2> QED
    BY <1>1, <2>1, <2>2, ClosingEvents, EndsTold
<1>3. CASE n = 0 /\ text # "text" /\ Finalize(text)
  <2>1. /\ status' = Walk(<<"executing">>) /\ exec' = "stream" /\ pad' = pad \o Thoughts(text)
        /\ queue' = queue \o (<<>> \o <<Token(FALSE)>>) /\ plan' = plan /\ tool' = tool
    BY <1>3 DEF Finalize, AnswerStreams, Publish
  <2>2. queue' = queue \o <<Token(FALSE)>>
    <3> DEFINE b == Token(FALSE)
    <3>1. <<>> \o <<b>> = <<b>>
      OBVIOUS
    <3> QED
      BY <2>1, <3>1
  <2>3. Executing' = {} /\ exec' \notin Working
    BY <2>1 DEF Executing, Working
  <2>4. queue' \in Seq(Events) /\ ClosingInv' /\ OrderInv' /\ OpenInv'
    <3> DEFINE b == Token(FALSE)
    <3>1. Plain(<<b>>) /\ b.type # "complete"
      BY PlainEvents, EventTypes
    <3>2. queue' = queue \o <<b>>
      BY <2>2
    <3> HIDE DEF b
    <3>3. \A i \in 1 .. Len(<<b>>) : <<b>>[i].type # "complete"
      BY <3>1
    <3> QED
      BY <1>1, <2>3, <3>1, <3>2, <3>3, Speaks
  <2>5. pad' \in Seq(Entries) /\ Paired(pad', FALSE)
    BY <1>1, <2>1, ThoughtsJoin
  <2>6. StatusInv' /\ PadInv' /\ ToolInv'
    BY <1>1, <2>1, <2>5, Walks DEF StatusInv, PadInv, ToolInv
  <2>7. plan'.calls \in 0 .. MaxCalls /\ tool' \in Tools
    BY <2>1 DEF AgentInv, Types, Tools
  <2> QED
    BY <1>1, <2>1, <2>4, <2>5, <2>6, <2>7, ExecutorKeeps DEF Running
<1>4. CASE n > 0
  <2>1. /\ status' = Walk(<<"executing">>) /\ exec' = "tools" /\ queue' = queue
        /\ plan' = [calls |-> n, again |-> FALSE] /\ tool' = Idle
        /\ pad' = (pad \o Thoughts(text)) \o <<Assistant(n)>>
    BY <1>4 DEF AskAnswers, Execute
  <2>2. /\ pad' \in Seq(Entries) /\ Paired(pad', TRUE) /\ pad' # <<>>
        /\ pad'[Len(pad')] = Assistant(n) /\ n \in 1 .. MaxCalls
    <3>1. pad \o Thoughts(text) \in Seq(Entries) /\ Paired(pad \o Thoughts(text), FALSE)
      BY <1>1, ThoughtsJoin
    <3>2. n \in 1 .. MaxCalls
      BY <1>4, Numbers
    <3> QED
      BY <2>1, <3>1, <3>2, AssistantJoins
  <2>3. Executing' = {}
    BY <2>1, IdleTools DEF Executing
  <2>4. queue' \in Seq(Events) /\ ClosingInv' /\ OrderInv' /\ OpenInv'
    BY <1>1, <2>1, <2>3, SaysNothing
  <2>5. StatusInv' /\ PadInv' /\ ToolInv'
    <3>1. plan'.calls = n /\ n >= 1
      BY <1>4, <2>1, <2>2
    <3> QED
      BY <1>1, <2>1, <2>2, <3>1, IdleTools, Walks DEF StatusInv, PadInv, ToolInv
  <2> QED
    BY <1>1, <2>1, <2>2, <2>4, <2>5, IdleTools, ExecutorKeeps DEF Running
<1> QED
  BY <1>2, <1>3, <1>4 DEF AskAnswers, Finalize

LEMMA ToolStartsStep ==
  ASSUME AgentInv, mode' = mode, NEW c \in Calls, ToolStarts(c)
  PROVE  AgentInv'
<1> DEFINE e == ToolEvent("tool_start", c)
<1>1. /\ exec = "tools" /\ exec' = "tools" /\ c <= plan.calls /\ c \in 1 .. plan.calls
      /\ tool[c].st = "waiting" /\ tool' = [tool EXCEPT ![c].st = "running"]
      /\ queue' = queue \o <<e>>
      /\ UNCHANGED <<status, plan, pad, faulty, reader, event, saved, view>>
  BY DEF ToolStarts, adapter, Publish
<1>2. e \in Events /\ e.type = "tool_start" /\ e.call = c
  BY EventTypes DEF ToolTypes
<1>3. tool \in Tools
  BY DEF AgentInv, Types, Tools
<1>4. tool' \in Tools /\ tool'[c].st = "running" /\ \A d \in Calls : d # c => tool'[d] = tool[d]
  BY <1>1, <1>3 DEF Tools
<1>5. Executing' = Executing \cup {c} /\ c \notin Executing
  BY <1>1, <1>4 DEF Executing
<1> HIDE DEF e
<1>6. queue' \in Seq(Events) /\ ClosingInv' /\ OrderInv' /\ OpenInv'
  <2>1. Turns(e, Executing, Executing') /\ e.type \in ToolTypes
    BY <1>2, <1>5 DEF Turns, ToolTypes
  <2>2. Executing' \in SUBSET Calls
    BY DEF Executing
  <2> QED
    BY <1>1, <1>2, <2>1, <2>2, ToolEventKeepsQueue
<1>7. StatusInv' /\ PadInv'
  BY <1>1 DEF AgentInv, StatusInv, PadInv
<1>8. ToolInv'
  BY <1>1, <1>4 DEF AgentInv, ToolInv
<1> QED
  BY <1>1, <1>4, <1>6, <1>7, <1>8, ExecutorKeeps DEF AgentInv, Types, Running

LEMMA ToolAttemptStep ==
  ASSUME AgentInv, mode' = mode, NEW c \in Calls, NEW result, ToolAttempt(c, result)
  PROVE  AgentInv'
<1>1. /\ exec = "tools" /\ exec' = "tools" /\ exec \in Running /\ tool[c].st = "running"
      /\ UNCHANGED <<status, plan, pad, faulty, reader, event, saved, view>>
  BY DEF ToolAttempt, adapter, Running
<1>2. tool \in Tools
  BY DEF AgentInv, Types, Tools
<1>3. StatusInv' /\ PadInv'
  BY <1>1 DEF AgentInv, StatusInv, PadInv
<1>4. CASE result = "timeout" /\ MayRetry(c)
  <2>1. tool' = [tool EXCEPT ![c].tries = @ + 1] /\ queue' = queue
    BY <1>4 DEF ToolAttempt
  <2>2. tool' \in Tools /\ \A d \in Calls : tool'[d].st = tool[d].st
    BY <1>2, <2>1 DEF Tools
  <2>3. Executing' = Executing /\ ToolInv'
    BY <1>1, <2>2 DEF Executing, AgentInv, ToolInv
  <2>4. queue' \in Seq(Events) /\ ClosingInv' /\ OrderInv' /\ OpenInv'
    BY <1>1, <2>1, <2>3, SaysNothing
  <2> QED
    BY <1>1, <1>3, <2>2, <2>3, <2>4, ExecutorKeeps DEF AgentInv, Types, Running
<1>5. CASE ~(result = "timeout" /\ MayRetry(c))
  <2> DEFINE e == ToolEvent("tool_end", c)
  <2>1. /\ tool' = [tool EXCEPT ![c].st = "done", ![c].ok = (result = "ok")]
        /\ queue' = queue \o <<e>>
    BY <1>5 DEF ToolAttempt, Publish
  <2>2. e \in Events /\ e.type = "tool_end" /\ e.call = c
    BY EventTypes DEF ToolTypes
  <2>3. tool' \in Tools /\ tool'[c].st = "done" /\ \A d \in Calls : d # c => tool'[d] = tool[d]
    <3>1. PICK ok \in BOOLEAN : ok = (result = "ok")
      OBVIOUS
    <3>2. tool' = [tool EXCEPT ![c].st = "done", ![c].ok = ok]
      BY <2>1, <3>1
    <3>3. tool'[c] = [st |-> "done", tries |-> tool[c].tries, ok |-> ok]
      BY <1>2, <3>2 DEF Tools
    <3>4. \A d \in Calls : d # c => tool'[d] = tool[d]
      BY <1>2, <3>2 DEF Tools
    <3>5. tool' \in Tools
      BY <1>2, <3>2 DEF Tools
    <3> QED
      BY <3>3, <3>4, <3>5
  <2>4. Executing' = Executing \ {c} /\ c \in Executing /\ ToolInv'
    BY <1>1, <2>3 DEF Executing, AgentInv, ToolInv
  <2> HIDE DEF e
  <2>5. queue' \in Seq(Events) /\ ClosingInv' /\ OrderInv' /\ OpenInv'
    <3>1. Turns(e, Executing, Executing') /\ e.type \in ToolTypes
      BY <2>2, <2>4 DEF Turns, ToolTypes
    <3>2. Executing' \in SUBSET Calls
      BY DEF Executing
    <3> QED
      BY <1>1, <2>1, <2>2, <3>1, <3>2, ToolEventKeepsQueue
  <2> QED
    BY <1>1, <1>3, <2>3, <2>4, <2>5, ExecutorKeeps DEF AgentInv, Types, Running
<1> QED
  BY <1>4, <1>5

(* Once every call of the plan is done, its results join the conversation. *)
LEMMA ToolsFinishStep ==
  ASSUME AgentInv, mode' = mode, ToolsFinish
  PROVE  AgentInv'
<1> DEFINE n == plan.calls  padded == pad \o Results(n)
<1>1. /\ exec = "tools" /\ exec \in Running /\ exec \in Working /\ status = "executing"
      /\ \A c \in 1 .. n : tool[c].st = "done"
      /\ UNCHANGED <<faulty, reader, event, saved, view>>
  BY DEF ToolsFinish, adapter, Running, Working, AgentInv, StatusInv
<1>2. n \in 1 .. MaxCalls /\ pad \in Seq(Entries) /\ Paired(pad, TRUE) /\ pad # <<>>
      /\ pad[Len(pad)] = Assistant(n)
  <2>1. n \in 0 .. MaxCalls /\ pad \in Seq(Entries)
    BY DEF AgentInv, Types
  <2>2. Paired(pad, TRUE) /\ pad # <<>> /\ pad[Len(pad)] = Assistant(n) /\ n >= 1
    BY <1>1 DEF AgentInv, PadInv
  <2>3. n \in 1 .. MaxCalls
    BY <2>1, <2>2, Numbers
  <2> QED
    BY <2>1, <2>2, <2>3
<1>3. padded \in Seq(Entries) /\ Paired(padded, FALSE)
  BY <1>2, ResultsJoin
<1>4. Executing = {}
  <2> SUFFICES ASSUME NEW c \in Calls, tool[c].st = "running" PROVE FALSE
    BY DEF Executing
  <2>1. c \in 1 .. n
    BY <1>1, <1>2 DEF AgentInv, ToolInv, Calls
  <2> QED
    BY <1>1, <2>1
<1> HIDE DEF padded
<1>5. ASSUME exec' = "loop", pad' = padded, status' = "planning", plan' = NoPlan, tool' = Idle,
             queue' = queue \/ queue' = queue \o <<Event("reflection")>>
      PROVE  AgentInv'
  <2>1. Executing' = {} /\ exec' \in Running
    BY <1>5 DEF Executing, Running
  <2>2. queue' \in Seq(Events) /\ ClosingInv' /\ OrderInv' /\ OpenInv'
    BY <1>1, <1>4, <1>5, <2>1, SaysNothing, Reflects
  <2>3. StatusInv' /\ PadInv' /\ ToolInv'
    BY <1>3, <1>5 DEF StatusInv, PadInv, ToolInv
  <2> QED
    BY <1>1, <1>3, <1>5, <2>1, <2>2, <2>3, IdleTools, Numbers, ExecutorKeeps
<1>6. ASSUME exec' = "tools", plan' = [calls |-> n, again |-> TRUE], tool' = Idle,
             pad' = padded \o <<Assistant(n)>>, status' = "executing",
             queue' = queue \o <<Event("reflection")>>
      PROVE  AgentInv'
  <2>1. Executing' = {} /\ exec' \in Running
    BY <1>6, IdleTools DEF Executing, Running
  <2>2. queue' \in Seq(Events) /\ ClosingInv' /\ OrderInv' /\ OpenInv'
    BY <1>1, <1>4, <1>6, <2>1, Reflects
  <2>3. /\ pad' \in Seq(Entries) /\ Paired(pad', TRUE) /\ pad' # <<>>
        /\ pad'[Len(pad')] = Assistant(n)
    BY <1>2, <1>3, <1>6, AssistantJoins
  <2>4. plan'.calls = n /\ n >= 1 /\ n \in 0 .. MaxCalls
    BY <1>2, <1>6, Numbers
  <2>5. StatusInv' /\ PadInv' /\ ToolInv'
    BY <1>6, <2>3, <2>4, IdleTools DEF StatusInv, PadInv, ToolInv
  <2> QED
    BY <1>1, <1>6, <2>1, <2>2, <2>3, <2>4, <2>5, IdleTools, ExecutorKeeps
<1>7. ASSUME status' = "completed",
             Ends("completed", <<Event("reflection"), Token(FALSE), Token(TRUE), Event("complete")>>)
      PROVE  AgentInv'
  <2>1. status' # "refused" /\ "completed" \in Over
    BY <1>7 DEF Over
  <2> QED
    BY <1>1, <1>4, <1>7, <2>1, ClosingEvents, EndsTold
<1>8. ASSUME exec' = "stream", pad' = padded, plan' = NoPlan, tool' = Idle, status' = "executing",
             queue' = queue \o (<<Event("reflection")>> \o <<Token(FALSE)>>)
      PROVE  AgentInv'
  <2> DEFINE s == <<Event("reflection")>> \o <<Token(FALSE)>>
  <2>1. Plain(s) /\ \A i \in 1 .. Len(s) : s[i].type # "complete"
    BY PlainEvents, TwoEvents
  <2>2. Executing' = {} /\ exec' \notin Working /\ exec' \in Running
    BY <1>8 DEF Executing, Working, Running
  <2> HIDE DEF s
  <2>3. queue' \in Seq(Events) /\ ClosingInv' /\ OrderInv' /\ OpenInv'
    <3>1. queue' = queue \o s
      BY <1>8 DEF s
    <3> QED
      BY <1>1, <1>4, <2>1, <2>2, <3>1, Speaks
  <2>4. StatusInv' /\ PadInv' /\ ToolInv'
    BY <1>3, <1>8 DEF StatusInv, PadInv, ToolInv
  <2> QED
    BY <1>1, <1>3, <1>8, <2>2, <2>3, <2>4, IdleTools, Numbers, ExecutorKeeps
<1>9. CASE Decision = "none"
  <2>1. /\ exec' = "loop" /\ pad' = padded /\ status' = Walk(<<"planning">>)
        /\ plan' = NoPlan /\ tool' = Idle /\ queue' = queue
    BY <1>9 DEF ToolsFinish, padded
  <2> QED
    BY <1>1, <1>5, <2>1, Walks
<1>10. CASE Decision \in {"replan", "continue"}
  <2>1. /\ exec' = "loop" /\ pad' = padded /\ status' = Walk(<<"reflecting", "planning">>)
        /\ plan' = NoPlan /\ tool' = Idle /\ queue' = queue \o <<Event("reflection")>>
    BY <1>10 DEF ToolsFinish, padded, Publish
  <2> QED
    BY <1>1, <1>5, <2>1, Walks
<1>11. CASE Decision = "retry_step"
  <2>1. /\ exec' = "tools" /\ plan' = [calls |-> n, again |-> TRUE] /\ tool' = Idle
        /\ pad' = padded \o <<Assistant(n)>> /\ status' = Walk(<<"reflecting", "executing">>)
        /\ queue' = queue \o <<Event("reflection")>>
    BY <1>11 DEF ToolsFinish, padded, Publish, Execute
  <2> QED
    BY <1>1, <1>6, <2>1, Walks
<1>12. CASE Decision = "finish" /\ lastText = "text"
  <2>1. /\ status' = Walk(<<"reflecting", "executing", "completed">>)
        /\ Ends("completed", <<Event("reflection"), Token(FALSE), Token(TRUE), Event("complete")>>)
    BY <1>12 DEF ToolsFinish
  <2> QED
    BY <1>1, <1>7, <2>1, Walks
<1>13. CASE Decision = "finish" /\ lastText # "text"
  <2>1. /\ exec' = "stream" /\ pad' = padded /\ plan' = NoPlan /\ tool' = Idle
        /\ status' = Walk(<<"reflecting", "executing">>)
        /\ queue' = queue \o (<<Event("reflection")>> \o <<Token(FALSE)>>)
    BY <1>13 DEF ToolsFinish, padded, Publish, AnswerStreams
  <2> QED
    BY <1>1, <1>8, <2>1, Walks
<1> QED
  BY <1>9, <1>10, <1>11, <1>12, <1>13 DEF ToolsFinish

LEMMA ChunkStep ==
  ASSUME AgentInv, mode' = mode, NEW nonempty \in BOOLEAN, Chunk(nonempty)
  PROVE  AgentInv'
<1>1. /\ exec = "stream" /\ exec \in Running /\ Executing = {} /\ Executing' = {}
      /\ exec' \notin Working
      /\ UNCHANGED <<exec, status, plan, tool, pad, faulty, reader, event, saved, view>>
  BY DEF Chunk, adapter, Running, Working, Executing
<1>2. queue' \in Seq(Events) /\ ClosingInv' /\ OrderInv' /\ OpenInv'
  <2>1. CASE nonempty
    <3> DEFINE b == Token(TRUE)
    <3>1. Plain(<<b>>) /\ b.type # "complete"
      BY PlainEvents, EventTypes
    <3>2. queue' = queue \o <<b>>
      BY <2>1 DEF Chunk, Publish
    <3> HIDE DEF b
    <3>3. \A i \in 1 .. Len(<<b>>) : <<b>>[i].type # "complete"
      BY <3>1
    <3> QED
      BY <1>1, <3>1, <3>2, <3>3, Speaks
  <2>2. CASE ~nonempty
    <3>1. queue' = queue \o <<>>
      BY <2>2 DEF Chunk, Publish
    <3>2. queue' = queue
      BY <3>1 DEF AgentInv, Types
    <3> QED
      BY <1>1, <3>2, SaysNothing
  <2> QED
    BY <2>1, <2>2
<1>3. StatusInv' /\ PadInv' /\ ToolInv'
  BY <1>1 DEF AgentInv, StatusInv, PadInv, ToolInv
<1>4. exec' \in Running \cup Over /\ pad' \in Seq(Entries) /\ plan'.calls \in 0 .. MaxCalls
      /\ tool' \in Tools
  BY <1>1 DEF AgentInv, Types, Tools
<1> QED
  BY <1>1, <1>2, <1>3, <1>4, ExecutorKeeps

LEMMA ExecutorSteps ==
  ASSUME AgentInv, mode' = mode, ExecutorStep
  PROVE  AgentInv'
BY StartsStep, PlansNextStep, EndingSteps, AskFailsStep, AskAnswersStep, ToolStartsStep,
   ToolAttemptStep, ToolsFinishStep, ChunkStep DEF ExecutorStep
------------------------------------------------------------------------------
(* --- what the client sees of a frame --- *)

LEMMA SeesStart ==
  ASSUME NEW v \in Views, v.phase = "preparing"
  PROVE  LET f == [kind |-> "start"]
         IN  /\ F!Legal(v, f) /\ F!Receive(v, f) \in Views
             /\ F!Receive(v, f).phase = "answering" /\ F!Receive(v, f).running = v.running
BY DEF Views, F!Legal, F!Receive, F!Phases

LEMMA SeesDelta ==
  ASSUME NEW v \in Views, v.phase = "answering"
  PROVE  LET f == [kind |-> "delta"] IN F!Legal(v, f) /\ F!Receive(v, f) = v
BY DEF Views, F!Legal, F!Receive, F!Phases

LEMMA SeesEnd ==
  ASSUME NEW v \in Views, v.phase = "answering", v.running = {}
  PROVE  LET f == [kind |-> "end"]
         IN  /\ F!Legal(v, f) /\ F!Receive(v, f) \in Views
             /\ F!Receive(v, f).phase = "ended" /\ F!Receive(v, f).running = {}
BY DEF Views, F!Legal, F!Receive, F!Phases

LEMMA SeesError ==
  ASSUME NEW v \in Views, v.phase = "answering"
  PROVE  LET f == [kind |-> "error"]
         IN  /\ F!Legal(v, f) /\ F!Receive(v, f) \in Views
             /\ F!Receive(v, f).phase = "failed" /\ F!Receive(v, f).running = v.running
BY DEF Views, F!Legal, F!Receive, F!Phases

LEMMA SeesTool ==
  ASSUME NEW v \in Views, NEW type \in ToolTypes, NEW c \in Calls, v.phase = "preparing",
         type = "tool_start" => c \notin v.running, type = "tool_end" => c \in v.running
  PROVE  LET f == [kind |-> type, call |-> c]
         IN  /\ f \in F!Frames /\ F!Legal(v, f) /\ F!Receive(v, f) \in Views
             /\ F!Receive(v, f).phase = "preparing"
             /\ type = "tool_start" => F!Receive(v, f).running = v.running \cup {c}
             /\ type = "tool_end" => F!Receive(v, f).running = v.running \ {c}
<1> DEFINE f == [kind |-> type, call |-> c]
           w == IF type = "tool_start" THEN v.running \cup {c} ELSE v.running \ {c}
<1>1. w \in SUBSET Calls
  BY DEF Views
<1>2. f \in F!Frames /\ F!Legal(v, f) /\ F!Receive(v, f) = [v EXCEPT !.running = w]
  BY DEF ToolTypes, F!Frames, F!Legal, F!Receive
<1>3. (type = "tool_start" => w = v.running \cup {c}) /\ (type = "tool_end" => w = v.running \ {c})
  OBVIOUS
<1> HIDE DEF w
<1>4. [v EXCEPT !.running = w] \in Views /\ [v EXCEPT !.running = w].phase = "preparing"
      /\ [v EXCEPT !.running = w].running = w
  BY <1>1 DEF Views
<1> QED
  BY <1>2, <1>3, <1>4

LEMMA PlainFrames ==
  \A kind \in {"start", "delta", "end", "error"} : [kind |-> kind] \in F!Frames
BY DEF F!Frames
------------------------------------------------------------------------------
(* --- the adapter's steps --- *)

LEMMA AdapterKeeps ==
  ASSUME AgentInv, UNCHANGED <<mode, executor>>,
         queue' \in Seq(Events), reader' \in Readers, event' \in Events, view' \in Views,
         ClosingInv', OrderInv', OpenInv', ReaderInv', TerminalMatchesStore'
  PROVE  AgentInv'
<1>1. UNCHANGED <<exec, status, plan, tool, pad>>
  BY DEF executor
<1>2. Types'
  BY <1>1 DEF AgentInv, Types
<1>3. StatusInv' /\ PadInv' /\ ToolInv'
  BY <1>1 DEF AgentInv, StatusInv, PadInv, ToolInv
<1> QED
  BY <1>2, <1>3 DEF AgentInv

(* A reader that has stopped does not depend on what still waits. *)
LEMMA Deaf ==
  ASSUME AgentInv, UNCHANGED <<exec, queue>>, reader' \notin {"reading", "handling"}
  PROVE  queue' \in Seq(Events) /\ ClosingInv' /\ OrderInv' /\ OpenInv'
<1>1. ~Listening' /\ Stops'
  BY DEF Listening, Stops
<1>2. ClosingInv' /\ OpenInv'
  BY <1>1 DEF ClosingInv, OpenInv
<1>3. OrderInv'
  BY <1>1 DEF AgentInv, OrderInv
<1> QED
  BY <1>2, <1>3 DEF AgentInv, Types

(* A frame is sent of the event in hand, and the calls open stay the same. *)
LEMMA Handles ==
  ASSUME AgentInv, UNCHANGED <<executor, queue, event>>, Listening,
         reader' = reader \/ (reader' = "reading" /\ event.type \notin Terminal),
         Ahead' = Ahead, Answering' => Answering,
         reader' = "handling" /\ event.type \in ToolTypes => view'.phase = "preparing"
  PROVE  queue' \in Seq(Events) /\ ClosingInv' /\ OrderInv' /\ OpenInv'
<1>1. UNCHANGED <<exec, queue, event>> /\ Executing' = Executing
  BY DEF executor, Executing
<1>2. Stops => Stops'
  BY <1>1 DEF Stops, Listening, Terminal
<1>3. ClosingInv'
  BY <1>1, <1>2 DEF AgentInv, ClosingInv
<1>4. OrderInv'
  <2>1. Listening' /\ Answering' => \A j \in 1 .. Len(queue') : queue'[j].type \notin ToolTypes
    BY <1>1 DEF AgentInv, OrderInv
  <2>2. exec' \in Working => (\A j \in 1 .. Len(queue') : queue'[j].type \notin Spoken)
                             /\ (Listening' => ~Answering')
    BY <1>1 DEF AgentInv, OrderInv
  <2>3. \A i, j \in 1 .. Len(queue') :
          i < j /\ queue'[i].type \in Spoken => queue'[j].type \notin ToolTypes
    BY <1>1 DEF AgentInv, OrderInv
  <2>4. reader' = "handling" /\ event'.type \in ToolTypes => view'.phase = "preparing"
    BY <1>1
  <2> QED
    BY <2>1, <2>2, <2>3, <2>4 DEF OrderInv
<1>5. OpenInv'
  <2>1. PICK o : OpensAlong(o)
    BY DEF AgentInv, OpenInv
  <2>2. OpensAlong(o)'
    BY <1>1, <2>1 DEF OpensAlong
  <2> QED
    BY <2>2 DEF OpenInv
<1> QED
  BY <1>1, <1>3, <1>4, <1>5 DEF AgentInv, Types

Shows == view' = view \/ F!Next

LEMMA ReadsStep ==
  ASSUME AgentInv, mode' = mode, Reads
  PROVE  AgentInv' /\ Shows
<1> DEFINE h == Head(queue)
<1>0. /\ Types /\ ClosingInv /\ OrderInv /\ OpenInv /\ ReaderInv /\ TerminalMatchesStore
      /\ reader = "reading" /\ queue # <<>> /\ h.type # "closed"
      /\ queue' = Tail(queue) /\ event' = h
      /\ UNCHANGED <<executor, exec, faulty, saved, view, tool>>
      /\ reader' = "reading" => h.type \in Ignored
      /\ reader' = "handling" => h.type \notin Ignored
      /\ reader' \in {"reading", "handling", "interrupting"}
  BY DEF Reads, Quietly, executor, AgentInv
<1>1. /\ queue \in Seq(Events) /\ queue' \in Seq(Events) /\ h \in Events /\ h = queue[1]
      /\ Len(queue) \in Nat /\ Len(queue) >= 1 /\ Len(queue') = Len(queue) - 1
      /\ \A i \in 1 .. Len(queue') : queue'[i] = queue[i + 1] /\ i + 1 \in 1 .. Len(queue)
  BY <1>0 DEF Types
<1> HIDE DEF h
<1>2. Listening /\ ~Stops
  BY <1>0 DEF Listening, Stops
<1>3. h.type \in ToolTypes \cup Spoken \cup Ignored
  BY <1>0, <1>1 DEF Events, ToolTypes, Spoken, Terminal, Ignored
<1>4. ClosingInv'
  <2> SUFFICES ASSUME NEW i \in 1 .. Len(queue'), queue'[i].type = "closed", ~Stops'
               PROVE  i >= 2 /\ queue'[i - 1].type \in Terminal
    BY DEF ClosingInv
  <2> DEFINE k == i + 1
  <2>1. k \in 1 .. Len(queue) /\ queue[k].type = "closed" /\ k - 1 = i
    BY <1>1
  <2>2. queue[i].type \in Terminal
    BY <1>0, <1>2, <2>1 DEF ClosingInv
  <2>3. CASE i = 1
    <3>1. h.type \in Terminal /\ h.type \notin Ignored
      BY <1>1, <2>2, <2>3 DEF Terminal, Ignored
    <3> QED
      BY <1>0, <3>1 DEF Stops, Listening
  <2>4. CASE i # 1
    <3> DEFINE m == i - 1
    <3>1. m \in 1 .. Len(queue') /\ queue'[m] = queue[m + 1] /\ m + 1 = i
      BY <1>1, <2>4
    <3> QED
      BY <2>2, <2>4, <3>1
  <2> QED
    BY <2>3, <2>4
<1>5. Answering' => Answering \/ h.type \in Spoken
  BY <1>0 DEF Answering
<1>6. OrderInv'
  <2>1. ASSUME NEW i \in 1 .. Len(queue'), NEW j \in 1 .. Len(queue'), i < j,
               queue'[i].type \in Spoken
        PROVE  queue'[j].type \notin ToolTypes
    BY <1>0, <1>1, <2>1 DEF OrderInv
  <2>2. ASSUME Answering', NEW j \in 1 .. Len(queue') PROVE queue'[j].type \notin ToolTypes
    <3>1. j + 1 \in 1 .. Len(queue) /\ queue'[j] = queue[j + 1] /\ 1 < j + 1
          /\ 1 \in 1 .. Len(queue)
      BY <1>1
    <3> QED
      BY <1>0, <1>1, <1>2, <1>5, <2>2, <3>1 DEF OrderInv
  <2>3. ASSUME exec' \in Working
        PROVE  /\ \A j \in 1 .. Len(queue') : queue'[j].type \notin Spoken
               /\ ~Answering'
    <3>1. (\A j \in 1 .. Len(queue) : queue[j].type \notin Spoken) /\ ~Answering
      BY <1>0, <1>2, <2>3 DEF OrderInv
    <3>2. h.type \notin Spoken
      BY <1>1, <3>1
    <3> QED
      BY <1>1, <1>5, <3>1, <3>2
  <2>4. ASSUME h.type \in ToolTypes PROVE view'.phase = "preparing"
    BY <1>0, <1>1, <1>2, <2>4 DEF OrderInv, Answering
  <2> QED
    BY <1>0, <2>1, <2>2, <2>3, <2>4 DEF OrderInv
<1>7. PICK o : OpensAlong(o)
  BY <1>0, <1>2 DEF OpenInv
<1>8. Turns(h, o[1], o[2]) /\ o[1] = view.running
  BY <1>0, <1>1, <1>7 DEF OpensAlong, Ahead
<1>9. OpenInv'
  <2> SUFFICES ASSUME Listening' PROVE \E f : OpensAlong(f)'
    BY DEF OpenInv
  <2>1. o \in [1 .. Len(queue) + 1 -> SUBSET Calls]
    BY <1>7 DEF OpensAlong
  <2>2. PICK f : f = [i \in 1 .. Len(queue) |-> o[i + 1]]
    OBVIOUS
  <2>3. /\ f \in [1 .. Len(queue') + 1 -> SUBSET Calls] /\ f[1] = o[2]
        /\ f[Len(queue') + 1] = o[Len(queue) + 1]
    BY <1>1, <2>1, <2>2
  <2>4. f[1] = Ahead'
    <3>1. reader' \in {"reading", "handling"}
      BY DEF Listening
    <3>2. CASE reader' = "reading"
      <4>1. h.type \notin ToolTypes
        BY <1>0, <3>2 DEF Ignored, ToolTypes
      <4> QED
        BY <1>0, <1>8, <2>3, <3>2, <4>1 DEF Ahead, Turns
    <3>3. CASE reader' = "handling"
      BY <1>0, <1>8, <2>3, <3>3 DEF Ahead, Turns, ToolTypes
    <3> QED
      BY <3>1, <3>2, <3>3
  <2>5. ASSUME NEW i \in 1 .. Len(queue') PROVE Turns(queue'[i], f[i], f[i + 1])
    <3> DEFINE k == i + 1
    <3>1. /\ k \in 1 .. Len(queue) /\ queue'[i] = queue[k] /\ f[i] = o[k] /\ f[i + 1] = o[k + 1]
      BY <1>1, <2>2
    <3>2. Turns(queue[k], o[k], o[k + 1])
      BY <1>7, <3>1 DEF OpensAlong
    <3> QED
      BY <3>1, <3>2
  <2>6. exec' \in Running => f[Len(queue') + 1] = Executing'
    BY <1>0, <1>7, <2>3 DEF OpensAlong, Executing
  <2>7. OpensAlong(f)'
    BY <2>3, <2>4, <2>5, <2>6 DEF OpensAlong
  <2> QED
    BY <2>7
<1>10. ReaderInv'
  <2>1. view'.phase \notin {"broken", "ended", "failed"} /\ saved' # "complete"
    BY <1>0 DEF ReaderInv
  <2>2. ASSUME reader' = "handling"
        PROVE  /\ h.type \in ToolTypes \cup Spoken
               /\ h.type = "tool_start" => h.call \notin view.running
               /\ h.type = "tool_end" => h.call \in view.running
               /\ h.type = "complete" => view.running = {}
    BY <1>0, <1>3, <1>8, <2>2 DEF Turns
  <2> QED
    BY <1>0, <2>1, <2>2 DEF ReaderInv
<1>11. TerminalMatchesStore'
  BY <1>0 DEF TerminalMatchesStore
<1>12. reader' \in Readers /\ event' \in Events /\ view' \in Views
  BY <1>0, <1>1 DEF Readers, Types
<1>13. mode' = mode /\ executor' = executor
  BY <1>0
<1> QED
  BY <1>0, <1>1, <1>4, <1>6, <1>9, <1>10, <1>11, <1>12, <1>13, AdapterKeeps DEF Shows

LEMMA SendsToolFrameStep ==
  ASSUME AgentInv, mode' = mode, SendsToolFrame
  PROVE  AgentInv' /\ Shows
<1> DEFINE frame == [kind |-> event.type, call |-> event.call]
<1>1. /\ reader = "handling" /\ event.type \in ToolTypes /\ reader' = "reading"
      /\ view' = F!Receive(view, frame)
      /\ UNCHANGED <<executor, queue, event, saved, faulty>>
  BY DEF SendsToolFrame, Sends, Quietly, ToolTypes
<1>2. /\ view \in Views /\ event.call \in Calls /\ view.phase = "preparing" /\ saved # "complete"
      /\ (event.type = "tool_start" => event.call \notin view.running)
      /\ (event.type = "tool_end" => event.call \in view.running)
  <2>1. event.call \in Calls
    BY <1>1 DEF AgentInv, Types, Events, ToolTypes
  <2> QED
    BY <1>1, <2>1 DEF AgentInv, Types, OrderInv, ReaderInv
<1>3. /\ frame \in F!Frames /\ F!Legal(view, frame) /\ view' \in Views /\ view'.phase = "preparing"
      /\ (event.type = "tool_start" => view'.running = view.running \cup {event.call})
      /\ (event.type = "tool_end" => view'.running = view.running \ {event.call})
  BY <1>1, <1>2, SeesTool
<1>4. Shows
  BY <1>1, <1>3 DEF Shows, F!Next
<1> HIDE DEF frame
<1>5. Ahead' = Ahead /\ ~Answering'
  BY <1>1, <1>3 DEF Ahead, Answering, ToolTypes
<1>6. queue' \in Seq(Events) /\ ClosingInv' /\ OrderInv' /\ OpenInv'
  <2>1. Listening /\ event.type \notin Terminal
    BY <1>1 DEF Listening, Terminal, ToolTypes
  <2> QED
    BY <1>1, <1>5, <2>1, Handles
<1>7. ReaderInv' /\ TerminalMatchesStore'
  BY <1>1, <1>2, <1>3 DEF ReaderInv, TerminalMatchesStore
<1>8. event' \in Events /\ reader' \in Readers
  BY <1>1 DEF AgentInv, Types, Readers
<1> QED
  BY <1>1, <1>3, <1>4, <1>6, <1>7, <1>8, AdapterKeeps

LEMMA SendsStartStep ==
  ASSUME AgentInv, mode' = mode, SendsStart
  PROVE  AgentInv' /\ Shows
<1>1. /\ view.phase = "preparing" /\ view' = F!Receive(view, [kind |-> "start"])
      /\ (reader = "handling" /\ event.type \in Spoken) \/ reader = "raised"
      /\ reader' = reader \/ (reader = "handling" /\ reader' = "reading" /\ event.type = "token")
      /\ UNCHANGED <<executor, queue, event, saved, faulty>>
  BY DEF SendsStart, AnswerStarted, Frame, Sends, Quietly, Spoken, Terminal
<1>2. view \in Views /\ event \in Events /\ reader \in Readers /\ saved # "complete"
  BY <1>1 DEF AgentInv, Types, ReaderInv
<1>3. /\ F!Legal(view, [kind |-> "start"]) /\ view' \in Views /\ view'.phase = "answering"
      /\ view'.running = view.running
  BY <1>1, <1>2, SeesStart
<1>4. Shows
  BY <1>1, <1>3, PlainFrames DEF Shows, F!Next
<1>5. queue' \in Seq(Events) /\ ClosingInv' /\ OrderInv' /\ OpenInv'
  <2>1. CASE reader = "raised"
    <3>1. UNCHANGED <<exec, queue>> /\ reader' \notin {"reading", "handling"}
      BY <1>1, <2>1 DEF executor
    <3> QED
      BY <3>1, Deaf
  <2>2. CASE reader = "handling" /\ event.type \in Spoken
    <3>1. Listening /\ Answering /\ event.type \notin ToolTypes
      BY <2>2 DEF Listening, Answering, ToolTypes, Spoken, Terminal
    <3>2. Ahead' = Ahead
      BY <1>1, <1>3, <2>2, <3>1 DEF Ahead, ToolTypes
    <3>3. reader' = reader \/ (reader' = "reading" /\ event.type \notin Terminal)
      BY <1>1 DEF Terminal
    <3> QED
      BY <1>1, <3>1, <3>2, <3>3, Handles
  <2> QED
    BY <1>1, <2>1, <2>2
<1>6. ReaderInv'
  <2>1. reader' \in {"raised", "handling", "reading"}
    BY <1>1
  <2>2. reader' = "handling" =>
          /\ event.type \in ToolTypes \cup Spoken
          /\ event.type = "tool_start" => event.call \notin view'.running
          /\ event.type = "tool_end" => event.call \in view'.running
          /\ event.type = "complete" => view'.running = {}
    BY <1>1, <1>3 DEF AgentInv, ReaderInv
  <2> QED
    BY <1>1, <1>2, <1>3, <2>1, <2>2 DEF ReaderInv
<1>7. TerminalMatchesStore' /\ reader' \in Readers
  BY <1>1, <1>2, <1>3 DEF TerminalMatchesStore, Readers
<1> QED
  BY <1>1, <1>2, <1>3, <1>4, <1>5, <1>6, <1>7, AdapterKeeps

LEMMA SendsDeltaStep ==
  ASSUME AgentInv, mode' = mode, SendsDelta
  PROVE  AgentInv' /\ Shows
<1>1. /\ reader = "handling" /\ event.type = "token" /\ view.phase # "preparing"
      /\ reader' = "reading" /\ UNCHANGED <<executor, queue, event, saved, faulty>>
      /\ view' = view \/ view' = F!Receive(view, [kind |-> "delta"])
  BY DEF SendsDelta, AnswerStarted, Frame, Sends, Quietly
<1>2. view \in Views /\ event \in Events /\ saved # "complete" /\ view.phase = "answering"
  BY <1>1 DEF AgentInv, Types, ReaderInv, Views, F!Phases
<1>3. view' = view
  BY <1>1, <1>2, SeesDelta
<1>4. queue' \in Seq(Events) /\ ClosingInv' /\ OrderInv' /\ OpenInv'
  <2>1. Listening /\ Ahead' = Ahead /\ Answering /\ event.type \notin Terminal
    BY <1>1, <1>3 DEF Listening, Ahead, Answering, Terminal
  <2> QED
    BY <1>1, <2>1, Handles
<1>5. ReaderInv' /\ TerminalMatchesStore'
  BY <1>1, <1>2, <1>3 DEF ReaderInv, TerminalMatchesStore
<1>6. reader' \in Readers /\ event' \in Events /\ view' \in Views
  BY <1>1, <1>2, <1>3 DEF Readers
<1> QED
  BY <1>1, <1>3, <1>4, <1>5, <1>6, AdapterKeeps DEF Shows

(* A step that stores, or fails to, and stops listening *)
LEMMA StoringSteps ==
  ASSUME AgentInv, mode' = mode, Interrupts \/ Completes \/ StoresError \/ StoresRaised
  PROVE  AgentInv' /\ Shows
<1>0. /\ event \in Events /\ view \in Views /\ UNCHANGED <<executor, exec, queue, event, view>>
      /\ view.phase # "broken"
  BY DEF AgentInv, Types, ReaderInv, Interrupts, Completes, StoresError, StoresRaised, Persist,
         Quietly, executor
<1>1. /\ saved # "complete" /\ view.phase \notin {"ended", "failed"}
      /\ reader' \in {"finished", "raised", "ending", "failing"}
      /\ reader' \in {"ending", "failing"} => view.phase # "preparing"
      /\ reader' = "ending" => saved' = "complete" /\ view.running = {}
      /\ saved' = "complete" => reader' = "ending"
  <2>1. CASE Interrupts
    BY <2>1 DEF Interrupts, Persist, AgentInv, ReaderInv
  <2>2. CASE Completes
    BY <2>2 DEF Completes, Persist, AnswerStarted, AgentInv, ReaderInv
  <2>3. CASE StoresError
    BY <2>3 DEF StoresError, Persist, AnswerStarted, AgentInv, ReaderInv
  <2>4. CASE StoresRaised
    BY <2>4 DEF StoresRaised, AnswerStarted, AgentInv, ReaderInv
  <2> QED
    BY <2>1, <2>2, <2>3, <2>4
<1>2. view.phase \in {"preparing", "answering"}
  BY <1>0, <1>1 DEF Views, F!Phases
<1>3. queue' \in Seq(Events) /\ ClosingInv' /\ OrderInv' /\ OpenInv'
  BY <1>0, <1>1, Deaf
<1>4. ReaderInv' /\ TerminalMatchesStore'
  BY <1>0, <1>1, <1>2 DEF ReaderInv, TerminalMatchesStore
<1>5. reader' \in Readers /\ event' \in Events /\ view' \in Views
  BY <1>0, <1>1 DEF Readers
<1> QED
  BY <1>0, <1>3, <1>4, <1>5, AdapterKeeps DEF Shows

LEMMA TerminalSteps ==
  ASSUME AgentInv, mode' = mode, SendsEnd \/ SendsError
  PROVE  AgentInv' /\ Shows
<1>0. /\ event \in Events /\ view \in Views /\ reader' = "finished"
      /\ UNCHANGED <<executor, exec, queue, event, saved, faulty>>
  BY DEF AgentInv, Types, SendsEnd, SendsError, Quietly, executor
<1>1. CASE SendsEnd
  <2>1. /\ view' = F!Receive(view, [kind |-> "end"]) /\ view.phase = "answering"
        /\ view.running = {} /\ saved = "complete"
    BY <1>1 DEF SendsEnd, Frame, Sends, AgentInv, ReaderInv
  <2>2. F!Legal(view, [kind |-> "end"]) /\ view' \in Views /\ view'.phase = "ended"
    BY <1>0, <2>1, SeesEnd
  <2>3. Shows
    BY <2>1, <2>2, PlainFrames DEF Shows, F!Next
  <2>4. ReaderInv' /\ TerminalMatchesStore'
    BY <1>0, <2>1, <2>2 DEF ReaderInv, TerminalMatchesStore
  <2> QED
    BY <1>0, <2>2, <2>3, <2>4, Deaf, AdapterKeeps DEF Readers
<1>2. CASE SendsError
  <2>1. /\ view' = F!Receive(view, [kind |-> "error"]) /\ view.phase = "answering"
        /\ saved # "complete"
    BY <1>2 DEF SendsError, Frame, Sends, AgentInv, ReaderInv
  <2>2. F!Legal(view, [kind |-> "error"]) /\ view' \in Views /\ view'.phase = "failed"
    BY <1>0, <2>1, SeesError
  <2>3. Shows
    BY <2>1, <2>2, PlainFrames DEF Shows, F!Next
  <2>4. ReaderInv' /\ TerminalMatchesStore'
    BY <1>0, <2>1, <2>2 DEF ReaderInv, TerminalMatchesStore
  <2> QED
    BY <1>0, <2>2, <2>3, <2>4, Deaf, AdapterKeeps DEF Readers
<1> QED
  BY <1>1, <1>2

LEMMA TornStep ==
  ASSUME AgentInv, mode' = mode, Torn
  PROVE  AgentInv' /\ Shows
<1>1. /\ reader' = "gone" /\ UNCHANGED <<executor, exec, queue, event, saved, view, faulty>>
  BY DEF Torn, executor
<1>2. ReaderInv' /\ TerminalMatchesStore'
  BY <1>1 DEF AgentInv, ReaderInv, TerminalMatchesStore
<1>3. event' \in Events /\ view' \in Views /\ reader' \in Readers
  BY <1>1 DEF AgentInv, Types, Readers
<1> QED
  BY <1>1, <1>2, <1>3, Deaf, AdapterKeeps DEF Shows

(* A step that leaves all but connected and collected as they are *)
LEMMA Unmoved ==
  ASSUME AgentInv, UNCHANGED <<mode, executor, queue, adapter, faulty>>
  PROVE  AgentInv' /\ Shows
<1>1. UNCHANGED <<mode, exec, status, plan, tool, pad, queue, reader, event, saved, view, faulty>>
  BY DEF executor, adapter
<1>2. Types'
  BY <1>1 DEF AgentInv, Types
<1>3. StatusInv' /\ PadInv' /\ ToolInv'
  <2>1. StatusInv' /\ ToolInv'
    BY <1>1 DEF AgentInv, StatusInv, ToolInv
  <2>2. PadInv'
    BY <1>1 DEF AgentInv, PadInv
  <2> QED
    BY <2>1, <2>2
<1>4. /\ (Listening' <=> Listening) /\ (Answering' <=> Answering) /\ (Stops' <=> Stops)
      /\ Ahead' = Ahead /\ Executing' = Executing
  BY <1>1 DEF Listening, Answering, Stops, Ahead, Executing
<1>5. ClosingInv' /\ OrderInv'
  BY <1>1, <1>4 DEF AgentInv, ClosingInv, OrderInv
<1>6. OpenInv'
  <2> SUFFICES ASSUME Listening' PROVE \E o : OpensAlong(o)'
    BY DEF OpenInv
  <2>1. PICK o : OpensAlong(o)
    BY <1>4 DEF AgentInv, OpenInv
  <2>2. OpensAlong(o)'
    BY <1>1, <1>4, <2>1 DEF OpensAlong
  <2> QED
    BY <2>2
<1>7. ReaderInv' /\ TerminalMatchesStore'
  BY <1>1 DEF AgentInv, ReaderInv, TerminalMatchesStore
<1> QED
  BY <1>1, <1>2, <1>3, <1>5, <1>6, <1>7 DEF AgentInv, Shows

LEMMA Steps ==
  ASSUME AgentInv, [Next]_vars
  PROVE  AgentInv' /\ Shows
<1>1. CASE ExecutorStep /\ mode' = mode
  <2>1. view' = view
    BY <1>1 DEF ExecutorStep, Starts, PlansNext, LimitReached, AskFails, AskAnswers, ToolStarts,
       ToolAttempt, ToolsFinish, Chunk, StreamFinishes, StreamBreaks, ConversionFails, Cancelled,
       adapter
  <2> QED
    BY <1>1, <2>1, ExecutorSteps DEF Shows
<1>2. CASE AdapterStep /\ mode' = mode
  BY <1>2, ReadsStep, SendsToolFrameStep, SendsStartStep, SendsDeltaStep, StoringSteps,
     TerminalSteps DEF AdapterStep
<1>3. CASE Disconnects /\ mode' = mode
  BY <1>3, Unmoved DEF Disconnects
<1>4. CASE Torn /\ mode' = mode
  BY <1>4, TornStep
<1>5. CASE UNCHANGED vars
  <2> UNCHANGED <<mode, executor, queue, adapter, faulty>>
    BY <1>5 DEF vars
  <2> QED
    BY Unmoved
<1> QED
  BY <1>1, <1>2, <1>3, <1>4, <1>5 DEF Next

LEMMA InitInv == Init => AgentInv
<1> SUFFICES ASSUME Init PROVE AgentInv
  OBVIOUS
<1>1. /\ exec = "created" /\ status = "created" /\ plan = NoPlan /\ tool = Idle /\ pad = <<>>
      /\ queue = <<>> /\ reader = "reading" /\ event = Event("start") /\ saved = "nothing"
      /\ view = [phase |-> "preparing", running |-> {}]
  BY DEF Init, F!Nothing
<1>2. Types
  <2>1. event \in Events /\ tool \in Tools /\ plan.calls \in 0 .. MaxCalls
    BY <1>1, EventTypes, IdleTools, Numbers
  <2>2. view \in Views
    BY <1>1 DEF Views, F!Phases
  <2> QED
    BY <1>1, <2>1, <2>2 DEF Types, Tools, Running, Readers
<1>3. StatusInv /\ PadInv /\ ToolInv
  BY <1>1 DEF StatusInv, PadInv, Paired, ToolInv
<1>4. ClosingInv /\ OrderInv
  BY <1>1 DEF ClosingInv, OrderInv, Answering
<1>5. OpenInv
  <2>1. PICK o : o = [i \in 1 .. 1 |-> {}]
    OBVIOUS
  <2>2. Ahead = {} /\ Executing = {}
    BY <1>1 DEF Ahead, Executing
  <2>3. OpensAlong(o)
    BY <1>1, <2>1, <2>2 DEF OpensAlong
  <2> QED
    BY <2>3 DEF OpenInv
<1>6. ReaderInv /\ TerminalMatchesStore
  BY <1>1 DEF ReaderInv, TerminalMatchesStore
<1> QED
  BY <1>2, <1>3, <1>4, <1>5, <1>6 DEF AgentInv

(* In every reachable state of an agent's stream the invariant holds.         *)
THEOREM AgentInvariant == Spec => []AgentInv
<1>1. AgentInv /\ [Next]_vars => AgentInv'
  BY Steps
<1> QED
  BY <1>1, InitInv, PTL DEF Spec
------------------------------------------------------------------------------
(* --- what the runs check, for all values of the constants --- *)

(* The provider is never sent a conversation in which a tool call lacks its   *)
(* result or a result its call (_execute_tool_plan, _record_tool_results).    *)
THEOREM ConversationIsPaired == Spec => []ConversationPaired
<1>1. AgentInv => ConversationPaired
  <2> SUFFICES ASSUME AgentInv, exec \in {"ask", "stream"}, NEW i \in DOMAIN pad
               PROVE  /\ pad[i].kind = "assistant" =>
                           \A c \in 1 .. pad[i].calls :
                             i + c \in DOMAIN pad /\ pad[i + c] = ResultOf(c)
                      /\ pad[i].kind = "result" =>
                           \E j \in 1 .. i - 1 : /\ pad[j].kind = "assistant"
                                                /\ j + pad[i].call = i
                                                /\ pad[i].call <= pad[j].calls
    BY DEF ConversationPaired
  <2>0. Paired(pad, FALSE)
    BY DEF AgentInv, PadInv
  <2>1. DOMAIN pad = 1 .. Len(pad) /\ pad[i] \in Entries
    BY DEF AgentInv, Types
  <2>2. pad[i].kind = "assistant" => Answered(pad, i)
    BY <2>0, <2>1 DEF Paired
  <2>3. ASSUME pad[i].kind = "result"
        PROVE  \E j \in 1 .. i - 1 : /\ pad[j].kind = "assistant" /\ j + pad[i].call = i
                                     /\ pad[i].call <= pad[j].calls
    <3> DEFINE j == i - pad[i].call
    <3>1. j \in 1 .. i - 1 /\ pad[j].kind = "assistant" /\ pad[i].call <= pad[j].calls
      BY <2>0, <2>1, <2>3 DEF Paired, Announced
    <3>2. pad[i].call \in Int /\ i \in Int
      BY <2>1, <2>3, Numbers DEF Entries
    <3>3. j + pad[i].call = i
      BY <3>2
    <3> QED
      BY <3>1, <3>3
  <2> QED
    BY <2>1, <2>2, <2>3 DEF Answered
<1> QED
  BY <1>1, AgentInvariant, PTL

(* The consumer is told how the run ended before the queue is exhausted       *)
(* (AgentExecutor.run, default_agent._stream).                                *)
THEOREM AlwaysToldTheEnd == Spec => []TerminalBeforeClose
<1>1. AgentInv => TerminalBeforeClose
  <2> SUFFICES ASSUME AgentInv, reader = "reading", queue # <<>>, Head(queue).type = "closed"
               PROVE  FALSE
    BY DEF TerminalBeforeClose
  <2>1. 1 \in 1 .. Len(queue) /\ queue[1].type = "closed"
    BY DEF AgentInv, Types
  <2>2. ~Stops
    BY DEF Stops, Listening
  <2> QED
    BY <2>1, <2>2 DEF AgentInv, ClosingInv
<1> QED
  BY <1>1, AgentInvariant, PTL

(* AgentStateManager.transition never raises in a run.                        *)
THEOREM TransitionsAreValid == Spec => []NoRefusedTransition
<1>1. AgentInv => NoRefusedTransition
  BY DEF AgentInv, StatusInv, NoRefusedTransition
<1> QED
  BY <1>1, AgentInvariant, PTL

(* The client is told end only of an answer stored as complete, and error     *)
(* only of one that is not (stream_agent_chat).                               *)
THEOREM TerminalIsTrue == Spec => []TerminalMatchesStore
<1>1. AgentInv => TerminalMatchesStore
  BY DEF AgentInv
<1> QED
  BY <1>1, AgentInvariant, PTL

(* Whatever the executor publishes and wherever the stream is cut, the frames *)
(* the client gets follow the frame protocol (stream_agent_chat).             *)
THEOREM AgentImplementsFrames == Spec => ImplementsFrames
<1>1. Init => F!Init
  BY DEF Init, F!Init
<1>2. AgentInv /\ [Next]_vars => [F!Next]_view
  BY Steps DEF Shows
<1> QED
  BY <1>1, <1>2, AgentInvariant, PTL DEF Spec, ImplementsFrames, F!Spec
==============================================================================
