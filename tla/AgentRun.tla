------------------------------- MODULE AgentRun -------------------------------
(***************************************************************************)
(* One streamed run of the agent runtime: AgentExecutor.run as a task that *)
(* publishes events into an unbounded queue, and stream_agent_chat, which  *)
(* reads the queue, sends frames to the client and stores the outcome.     *)
(*                                                                         *)
(* The executor alternates planner calls and tool batches, keeps the       *)
(* conversation for the provider in a scratchpad, retries transient        *)
(* failures and finalises with precomputed or streamed text.  Publishing   *)
(* never suspends, so what the code does between two awaits on the outside *)
(* world is one step.  The client may go away, the server may cancel the   *)
(* response, the database may fail, providers and tools may fail.          *)
(*                                                                         *)
(* Text is abstracted to what the code tells apart: absent, blank, the     *)
(* phrase that selects the no-tools plan, or any other text.               *)
(***************************************************************************)
EXTENDS Integers, Sequences

CONSTANTS
  MaxIterations,     \* AgentConfig.max_iterations (3 for chat)
  LlmAttempts,       \* attempts of one provider call
  MaxReflections,    \* AgentConfig.max_reflections
  MaxCalls,          \* bound: tool calls in one plan
  MaxChunks          \* bound: chunks of a streamed answer

ASSUME AgentAssumption ==
  /\ {MaxIterations, LlmAttempts, MaxCalls} \subseteq Nat \ {0}
  /\ {MaxReflections, MaxChunks} \subseteq Nat

VARIABLES
  mode,        \* the configuration, the request's tools and the provider
  exec,        \* where AgentExecutor.run is
  status,      \* AgentExecutionState.status
  iteration,   \* AgentExecutionState.current_iteration
  reflections, \* AgentExecutionState.reflection_count
  tries,       \* failed attempts of the provider call in flight
  plan,        \* the tool plan being executed
  lastText,    \* last_planner_content
  tool,        \* progress of each call of the plan
  chunks,      \* chunks streamed so far
  pad,         \* the scratchpad, the conversation the provider is sent
  queue,       \* events published and not read; "closed" is the None sentinel
  reader,      \* where stream_agent_chat is
  event,       \* the event it is handling
  collected,   \* some text has been streamed to the client
  saved,       \* status of the stored assistant message
  view,        \* what the client has seen of the response (FrameProtocol)
  connected,   \* the client is still there
  dbUp,        \* the request's transaction is usable
  faulty       \* history: a provider, a database or a timeout failed the run

executor == <<exec, status, iteration, reflections, tries, plan, lastText,
              tool, chunks, pad>>
adapter  == <<reader, event, collected, saved, view>>
vars     == <<mode, executor, queue, adapter, connected, dbUp, faulty>>

(* What differs between runs: whether a tool is allowed, the switches of      *)
(* AgentConfig, the attempts of one tool call, and whether the provider       *)
(* converts AgentMessage objects.  Chat comes first, then an agent with every *)
(* switch on, then a request without tools.                                   *)
Mode(offered, switches, attempts, converts) ==
  [tools : {offered}, parallel : {switches}, reflection : {switches},
   attempts : {attempts}, converts : converts]
Modes ==
  UNION {Mode(TRUE, FALSE, 2, BOOLEAN), Mode(TRUE, TRUE, 1, {TRUE}),
         Mode(FALSE, FALSE, 1, BOOLEAN)}

ToolsOffered       == mode.tools
Parallel           == mode.parallel
Reflection         == mode.reflection
ToolAttempts       == mode.attempts
RejectsPadMessages == ~mode.converts

Texts    == {"none", "empty", "blank", "notools", "text"}
Calls    == 1 .. MaxCalls
Running  == {"created", "loop", "ask", "tools", "stream"}

F == INSTANCE FrameProtocol WITH CallIds <- Calls

NotStarted == [st |-> "waiting", tries |-> 0, ok |-> FALSE]

NoPlan == [calls |-> 0, again |-> FALSE]
Idle   == [c \in Calls |-> NotStarted]

NoReflectionWhileExecuting ==
  [created    |-> {"planning", "failed"},
   planning   |-> {"executing", "completed", "failed"},
   executing  |-> {"planning", "completed", "failed"},
   reflecting |-> {"planning", "executing", "completed", "failed"},
   completed  |-> {}, refused |-> {}]

(* VALID_TRANSITIONS, as far as run goes through them *)
ValidTransitions ==
  [created    |-> {"planning", "failed"},
   planning   |-> {"executing", "completed", "failed"},
   executing  |-> {"planning", "reflecting", "completed", "failed"},
   reflecting |-> {"planning", "executing", "completed", "failed"},
   completed  |-> {},
   refused    |-> {}]

(* AgentStateManager.transition along a path without an await.  A refused    *)
(* transition would raise; NoRefusedTransition says that it never happens.   *)
StandsAt(path, i) == IF i = 1 THEN status ELSE path[i - 1]
Walk(path) ==
  IF \A i \in DOMAIN path : path[i] \in ValidTransitions[StandsAt(path, i)]
    THEN path[Len(path)]
    ELSE "refused"

(* --- events and scratchpad entries --- *)
Event(type)     == [type |-> type]
Token(nonempty) == [type |-> "token", text |-> nonempty]
ToolEvent(type, c) == [type |-> type, call |-> c]

Turn          == [kind |-> "turn"]
Thought       == [kind |-> "thought"]
Assistant(n)  == [kind |-> "assistant", calls |-> n]
ResultOf(c)   == [kind |-> "result", call |-> c]

(* _record_reasoning: only content that is not empty becomes a thought *)
Thoughts(text) == IF text \in {"none", "empty"} THEN <<>> ELSE <<Thought>>
ResultsButLast(n) == [c \in 1 .. n - 1 |-> ResultOf(c)]
(* _record_tool_results: one entry per record, in the order of the calls *)
Results(n) == [c \in 1 .. n |-> ResultOf(c)]

Publish(events) == queue' = queue \o events
------------------------------------------------------------------------------
Init ==
  /\ mode \in Modes
  /\ exec = "created" /\ status = "created" /\ iteration = 0 /\ reflections = 0
  /\ tries = 0 /\ plan = NoPlan /\ lastText = "none"
  /\ tool = Idle /\ chunks = 0 /\ pad = <<>>
  /\ queue = <<>> /\ reader = "reading" /\ event = Event("start")
  /\ collected = FALSE /\ saved = "nothing" /\ view = F!Nothing
  /\ connected = TRUE /\ dbUp = TRUE /\ faulty = FALSE
------------------------------------------------------------------------------
(* --- AgentExecutor.run --- *)

(* The end of run: the events, the sentinel, the scratchpad is removed and  *)
(* the local variables are gone.                                            *)
Ends(how, events) ==
  /\ exec' = how
  /\ Publish(events \o <<Event("closed")>>)
  /\ pad' = <<>>
  /\ iteration' = 0 /\ reflections' = 0 /\ tries' = 0 /\ chunks' = 0
  /\ plan' = NoPlan /\ tool' = Idle /\ lastText' = "none"

FailsSilently == Ends("failed", <<>>)
Fails == Ends("failed", <<Event("error")>>)

(* finalize_execution for a text the executor already has, and complete *)
AnswerWith(nonempty) ==
  Ends("completed", <<Token(FALSE), Token(nonempty), Event("complete")>>)

(* finalize_execution with a provider call: stream_final_answer *)
AnswerStreams(events) ==
  /\ exec' = "stream" /\ chunks' = 0
  /\ Publish(events \o <<Token(FALSE)>>)

Starts ==
  /\ exec = "created"
  /\ exec' = "loop" /\ status' = Walk(<<"planning">>)
  /\ pad' = <<Turn>> /\ Publish(<<Event("start")>>)
  /\ UNCHANGED <<iteration, reflections, tries, plan, lastText, tool, chunks,
                 adapter, connected, dbUp, faulty>>

(* The head of the loop, and plan_next up to the provider call *)
PlansNext ==
  /\ exec = "loop" /\ iteration < MaxIterations
  /\ iteration' = iteration + 1
  /\ UNCHANGED <<reflections, tries, plan, tool, pad,
                 adapter, connected, dbUp, faulty>>
  /\ \/ /\ ToolsOffered
        /\ exec' = "ask" /\ Publish(<<Event("planning")>>)
        /\ UNCHANGED <<status, lastText, chunks>>
     \/ /\ ~ToolsOffered
        /\ status' = Walk(<<"executing">>) /\ lastText' = "notools"
        /\ AnswerStreams(<<Event("planning")>>)

(* The loop is exhausted: the last text of the planner is the answer. *)
LimitReached ==
  /\ exec = "loop" /\ iteration = MaxIterations
  /\ status' = Walk(<<"executing", "completed">>)
  /\ AnswerWith(TRUE)
  /\ UNCHANGED <<adapter, connected, dbUp, faulty>>

(* retry_async: attempts are counted, and only transient failures retried *)
AsksAgain(transient) == transient /\ tries + 1 < LlmAttempts

(* The planner's provider call fails. *)
AskFails(transient) ==
  /\ exec = "ask"
  /\ IF AsksAgain(transient)
       THEN /\ tries' = tries + 1
            /\ UNCHANGED <<exec, iteration, reflections, plan, lastText, tool,
                           chunks, pad, queue, faulty>>
       ELSE Fails /\ faulty' = TRUE
  /\ UNCHANGED <<status, adapter, connected, dbUp>>

(* The final plan: its text is the answer unless it is absent, blank or the *)
(* phrase that stands for "no tools".                                       *)
Finalize(text) ==
  \/ /\ text = "text"
     /\ status' = Walk(<<"executing", "completed">>)
     /\ AnswerWith(TRUE)
  \/ /\ text # "text"
     /\ status' = Walk(<<"executing">>) /\ lastText' = text
     /\ AnswerStreams(<<>>)
     /\ pad' = pad \o Thoughts(text)
     /\ UNCHANGED <<iteration, reflections, tries, plan, tool>>

(* The calls of a plan are announced to the provider before any result. *)
Execute(n, again, thoughts) ==
  /\ exec' = "tools"
  /\ plan' = [calls |-> n, again |-> again]
  /\ tool' = Idle
  /\ pad' = thoughts \o <<Assistant(n)>>

AskAnswers(text, n) ==
  /\ exec = "ask"
  /\ UNCHANGED <<adapter, connected, dbUp, faulty>>
  /\ \/ n = 0 /\ Finalize(text)
     \/ /\ n > 0
        /\ lastText' = text /\ status' = Walk(<<"executing">>) /\ tries' = 0
        /\ Execute(n, FALSE, pad \o Thoughts(text))
        /\ UNCHANGED <<iteration, reflections, chunks, queue>>

(* _run_single_step: in sequence, or all started in order by gather *)
MayStart(c) ==
  \A d \in 1 .. c - 1 :
    tool[d].st \in IF Parallel THEN {"running", "done"} ELSE {"done"}

ToolStarts(c) ==
  /\ exec = "tools" /\ c \in 1 .. plan.calls
  /\ tool[c].st = "waiting" /\ MayStart(c)
  /\ tool' = [tool EXCEPT ![c].st = "running"]
  /\ Publish(<<ToolEvent("tool_start", c)>>)
  /\ UNCHANGED <<exec, status, iteration, reflections, tries, plan, lastText,
                 chunks, pad, adapter, connected, dbUp, faulty>>

(* What ToolExecutor.execute may answer: it raises nothing, refusals by the   *)
(* registry, the validator or the authorizer are failures.                    *)
ToolResults == {"ok", "timeout", "failed"}

(* _execute_with_retry: one attempt; only a timeout is tried again *)
MayRetry(c) == tool[c].tries + 1 < ToolAttempts

ToolAttempt(c, result) ==
  /\ exec = "tools" /\ tool[c].st = "running"
  /\ IF result = "timeout" /\ MayRetry(c)
       THEN /\ tool' = [tool EXCEPT ![c].tries = @ + 1]
            /\ UNCHANGED queue
       ELSE /\ tool' = [tool EXCEPT ![c].st = "done", ![c].ok = (result = "ok")]
            /\ Publish(<<ToolEvent("tool_end", c)>>)
  /\ UNCHANGED <<exec, status, iteration, reflections, tries, plan, lastText,
                 chunks, pad, adapter, connected, dbUp, faulty>>

(* evaluate_rule_based, and when _maybe_reflect asks it at all *)
Succeeded == {c \in 1 .. plan.calls : tool[c].ok}
Decision ==
  IF ~Reflection \/ plan.again \/ reflections >= MaxReflections THEN "none"
  ELSE IF lastText \in {"empty", "blank"} THEN "retry_step"
  ELSE IF Succeeded = {} THEN "replan"
  ELSE IF Succeeded # 1 .. plan.calls THEN "continue"
  ELSE "finish"

(* The batch is finished: results enter the scratchpad, then reflection. *)
ToolsFinish ==
  /\ exec = "tools" /\ \A c \in 1 .. plan.calls : tool[c].st = "done"
  /\ UNCHANGED <<adapter, connected, dbUp, faulty>>
  /\ LET padded == pad \o Results(plan.calls)
     IN  \/ /\ Decision = "none"
            /\ exec' = "loop" /\ pad' = padded /\ status' = Walk(<<"planning">>)
            /\ plan' = NoPlan /\ tool' = Idle
            /\ UNCHANGED <<iteration, reflections, tries, lastText, chunks, queue>>
         \/ /\ Decision \in {"replan", "continue"}
            /\ exec' = "loop" /\ pad' = padded
            /\ status' = Walk(<<"reflecting", "planning">>)
            /\ Publish(<<Event("reflection")>>)
            /\ reflections' = reflections + 1 /\ plan' = NoPlan /\ tool' = Idle
            /\ UNCHANGED <<iteration, tries, lastText, chunks>>
         \/ /\ Decision = "retry_step"
            /\ status' = Walk(<<"reflecting", "executing">>)
            /\ Publish(<<Event("reflection")>>)
            /\ Execute(plan.calls, TRUE, padded)
            /\ reflections' = reflections + 1
            /\ UNCHANGED <<iteration, tries, lastText, chunks>>
         \/ /\ Decision = "finish" /\ lastText = "text"
            /\ status' = Walk(<<"reflecting", "executing", "completed">>)
            /\ Ends("completed", <<Event("reflection"), Token(FALSE), Token(TRUE),
                                   Event("complete")>>)
         \/ /\ Decision = "finish" /\ lastText # "text"
            /\ status' = Walk(<<"reflecting", "executing">>)
            /\ AnswerStreams(<<Event("reflection")>>)
            /\ pad' = padded /\ plan' = NoPlan /\ tool' = Idle
            /\ reflections' = reflections + 1
            /\ UNCHANGED <<iteration, tries, lastText>>

(* stream_final_answer hands the scratchpad's own messages to the provider. *)
Convertible == ~(RejectsPadMessages /\ \E i \in DOMAIN pad :
                                        pad[i].kind \in {"turn", "thought"})

Chunk(nonempty) ==
  /\ exec = "stream" /\ Convertible /\ chunks < MaxChunks
  /\ chunks' = chunks + 1
  /\ Publish(IF nonempty THEN <<Token(TRUE)>> ELSE <<>>)
  /\ UNCHANGED <<exec, status, iteration, reflections, tries, plan, lastText,
                 tool, pad, adapter, connected, dbUp, faulty>>

StreamFinishes ==
  /\ exec = "stream" /\ Convertible
  /\ status' = Walk(<<"completed">>)
  /\ Ends("completed", <<Event("complete")>>)
  /\ UNCHANGED <<adapter, connected, dbUp, faulty>>

(* The provider breaks off or the total time budget is used up. *)
StreamBreaks ==
  /\ exec = "stream" /\ Convertible
  /\ Fails /\ faulty' = TRUE
  /\ UNCHANGED <<status, adapter, connected, dbUp>>

(* The conversion raises AttributeError before anything is sent. *)
ConversionFails ==
  /\ exec = "stream" /\ ~Convertible
  /\ Fails
  /\ UNCHANGED <<status, adapter, connected, dbUp, faulty>>

(* The generator is closed while the task runs: task.cancel() and its finally *)
Cancelled ==
  /\ exec \in Running /\ reader \in {"finished", "gone"}
  /\ Ends("cancelled", <<>>)
  /\ UNCHANGED <<status, adapter, connected, dbUp, faulty>>
------------------------------------------------------------------------------
(* --- stream_agent_chat --- *)

StartedByText == collected
AnswerStarted == view.phase # "preparing"
Sends(frame)  == view' = F!Receive(view, frame)
Frame(kind)   == Sends([kind |-> kind])
Quietly       == UNCHANGED <<executor, connected, dbUp, faulty>>

PersistUnchecked(as, then) ==
  /\ reader' = then
  /\ \/ dbUp /\ saved' = as /\ UNCHANGED <<dbUp, faulty>>
     \/ dbUp' = FALSE /\ faulty' = TRUE /\ UNCHANGED saved

(* _persist_stream_result in the request's transaction; once a statement has *)
(* failed the transaction stays unusable                                     *)
Persist(as, then) ==
  \/ /\ dbUp /\ saved' = as /\ reader' = then
     /\ UNCHANGED <<dbUp, faulty>>
  \/ /\ dbUp' = FALSE /\ faulty' = TRUE /\ reader' = "raised"
     /\ UNCHANGED saved

Ignored == {"start", "planning", "reflection"}

(* The next event; the sentinel would end the generator, see               *)
(* TerminalBeforeClose.                                                      *)
Reads ==
  /\ reader = "reading" /\ queue # <<>> /\ Head(queue).type # "closed"
  /\ queue' = Tail(queue) /\ event' = Head(queue)
  /\ \/ connected /\ reader' = IF Head(queue).type \in Ignored
                                 THEN "reading" ELSE "handling"
     \/ ~connected /\ reader' = "interrupting"
  /\ UNCHANGED <<collected, saved, view>> /\ Quietly

Interrupts ==
  /\ reader = "interrupting"
  /\ Persist("interrupted", "finished")
  /\ UNCHANGED <<executor, queue, event, collected, view, connected>>

SendsToolFrame ==
  /\ reader = "handling" /\ event.type \in {"tool_start", "tool_end"}
  /\ Sends([kind |-> event.type, call |-> event.call])
  /\ reader' = "reading"
  /\ UNCHANGED <<queue, event, collected, saved>> /\ Quietly

(* _emit_start: before the first token, complete or error *)
SendsStart ==
  /\ ~AnswerStarted
  /\ \/ reader = "handling" /\ event.type \in {"token", "complete", "error"}
     \/ reader = "raised"
  /\ Frame("start")
  /\ reader' = IF event.type = "token" /\ ~event.text /\ reader = "handling"
               THEN "reading" ELSE reader
  /\ UNCHANGED <<queue, event, collected, saved>> /\ Quietly

SendsDelta ==
  /\ reader = "handling" /\ event.type = "token" /\ AnswerStarted
  /\ IF event.text THEN Frame("delta") ELSE UNCHANGED view
  /\ collected' = (collected \/ event.text)
  /\ reader' = "reading"
  /\ UNCHANGED <<queue, event, saved>> /\ Quietly

Completes ==
  /\ reader = "handling" /\ event.type = "complete" /\ AnswerStarted
  /\ IF collected THEN Persist("complete", "ending") ELSE Persist("error", "failing")
  /\ UNCHANGED <<executor, queue, event, collected, view, connected>>

StoresError ==
  /\ reader = "handling" /\ event.type = "error" /\ AnswerStarted
  /\ Persist("error", "failing")
  /\ UNCHANGED <<executor, queue, event, collected, view, connected>>

StoresAgain ==
  /\ reader = "raised" /\ AnswerStarted /\ dbUp
  /\ reader' = "failing"
  /\ UNCHANGED <<queue, event, collected, saved, view>> /\ Quietly

(* The except clause: storing the error fails again, then the error frame *)
StoresRaised ==
  /\ reader = "raised" /\ AnswerStarted
  /\ reader' = "failing"
  /\ UNCHANGED <<queue, event, collected, saved, view>> /\ Quietly

SendsEnd ==
  /\ reader = "ending" /\ Frame("end") /\ reader' = "finished"
  /\ UNCHANGED <<queue, event, collected, saved>> /\ Quietly

SendsError ==
  /\ reader = "failing" /\ Frame("error") /\ reader' = "finished"
  /\ UNCHANGED <<queue, event, collected, saved>> /\ Quietly

(* --- the client and the server --- *)
Disconnects ==
  /\ connected /\ connected' = FALSE
  /\ UNCHANGED <<executor, queue, adapter, dbUp, faulty>>

(* Starlette cancels the response after a disconnect: nothing is stored. *)
Torn ==
  /\ ~connected /\ reader \notin {"finished", "gone"}
  /\ reader' = "gone"
  /\ UNCHANGED <<executor, queue, event, collected, saved, view,
                 connected, dbUp, faulty>>
------------------------------------------------------------------------------
Done == exec \notin Running /\ reader \in {"finished", "gone"}

ExecutorStep ==
  \/ Starts \/ PlansNext \/ LimitReached
  \/ \E transient \in BOOLEAN : AskFails(transient)
  \/ \E text \in Texts, n \in 0 .. MaxCalls : AskAnswers(text, n)
  \/ \E c \in Calls : ToolStarts(c)
  \/ \E c \in Calls, result \in ToolResults : ToolAttempt(c, result)
  \/ ToolsFinish
  \/ \E nonempty \in BOOLEAN : Chunk(nonempty)
  \/ StreamFinishes \/ StreamBreaks \/ ConversionFails \/ Cancelled

AdapterStep ==
  \/ Reads \/ Interrupts \/ SendsToolFrame \/ SendsStart \/ SendsDelta
  \/ Completes \/ StoresError \/ StoresRaised \/ SendsEnd \/ SendsError

Next ==
  \/ (ExecutorStep \/ AdapterStep \/ Disconnects \/ Torn) /\ UNCHANGED mode
  \/ Done /\ UNCHANGED vars

(* Every call to the outside is under a timeout and retries are bounded; the *)
(* event loop runs both tasks.  Nobody has to disconnect.                     *)
Fairness == WF_vars(ExecutorStep /\ UNCHANGED mode) /\ WF_vars(AdapterStep /\ UNCHANGED mode)
Spec     == Init /\ [][Next]_vars /\ Fairness
------------------------------------------------------------------------------
(* Whenever the provider is sent the scratchpad, every announced tool call is *)
(* followed by its result and every result follows its announcement: also    *)
(* after retried steps, failed tools and parallel calls (agent_executor      *)
(* _execute_tool_plan, _record_tool_results).  Providers refuse anything else. *)
ConversationPaired ==
  exec \in {"ask", "stream"} =>
    \A i \in DOMAIN pad :
      /\ pad[i].kind = "assistant" =>
           \A c \in 1 .. pad[i].calls :
             i + c \in DOMAIN pad /\ pad[i + c] = ResultOf(c)
      /\ pad[i].kind = "result" =>
           \E j \in 1 .. i - 1 : /\ pad[j].kind = "assistant"
                                /\ j + pad[i].call = i
                                /\ pad[i].call <= pad[j].calls

(* The consumer never drains the queue to the sentinel: every way run ends   *)
(* publishes complete or error first, so _stream never falls silent          *)
(* (default_agent _stream, chat_stream_adapter).                             *)
TerminalBeforeClose ==
  ~(reader = "reading" /\ queue # <<>> /\ Head(queue).type = "closed")

(* run fails only when a provider call, a database or a deadline failed,      *)
(* whatever the provider (scratchpad.py calls its messages compatible with    *)
(* the inputs of the providers' tool loop).                                   *)
EveryProviderConverts == exec = "failed" => faulty

(* run never asks AgentStateManager.transition for a move that               *)
(* VALID_TRANSITIONS refuses, on any path through retries and reflection.    *)
NoRefusedTransition == status # "refused"

(* The client sees end only for an answer stored as complete, and error only *)
(* for one that is not.                                                      *)
TerminalMatchesStore ==
  /\ view.phase = "ended" => saved = "complete"
  /\ view.phase = "failed" => saved # "complete"

(* The frames of an agent stream follow the protocol of the chat stream.     *)
ImplementsFrames == F!Spec

(* Every run and every response come to an end, and the scratchpad is gone.  *)
EveryRunEnds == <>[](Done /\ pad = <<>>)
==============================================================================
