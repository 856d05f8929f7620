----------------------------- MODULE UnifiedStream -----------------------------
(***************************************************************************)
(* One response of POST /api/v1/chat/stream without the agent runtime:     *)
(* ChatService.stream_chat and UnifiedChatService.stream_execute, from the *)
(* choice of the path to the last frame, with document retrieval, the tool *)
(* loop, the streamed answer, canned answers, replays and guest denials.   *)
(*                                                                         *)
(* A generator suspends at every frame it yields and at every call to the  *)
(* outside.  Straight runs of frames and stores are kept in todo and leave *)
(* it one by one; everything else waits until todo is empty.  The client   *)
(* may go away and the server may cancel the response at any time.         *)
(***************************************************************************)
EXTENDS Integers, Sequences

CONSTANTS
  MaxIterations, \* max_tool_iterations
  MaxCalls,      \* bound: tool calls in one completion
  MaxChunks,     \* bound: chunks of a streamed answer
  StoresMayFail, \* where _persist_stream_result may fail: a subset of Scopes
  MayRefuse      \* whether ToolAuthorizer refuses some call of a user

Scopes == {"answer", "static", "best_effort", "denial"}

ASSUME UnifiedAssumption ==
  /\ {MaxIterations, MaxCalls, MaxChunks} \subseteq Nat \ {0}
  /\ StoresMayFail \subseteq Scopes
  /\ MayRefuse \in BOOLEAN

VARIABLES
  req,       \* the request: its toggles, its caller, whether it is a replay
  pc,        \* where the generator continues when todo is empty
  todo,      \* frames to yield and results to store, in this order
  iteration, \* rounds of the tool loop begun
  batch,     \* tool calls of the last completion
  next,      \* the call to execute next
  pad,       \* loop_messages: what the provider is sent
  denied,    \* guest_denied: a call of the batch was refused
  frames,    \* tool frames collected during the loop
  chunks,    \* chunks the provider has sent
  collected, \* those with content
  rows,      \* assistant messages stored by this response
  shown,     \* deltas sent
  view,      \* what the client has seen (FrameProtocol)
  connected, \* the client is there
  noticed,   \* is_disconnected has answered yes
  dbUp       \* the request's transaction is usable

loop == <<iteration, batch, next, denied, pad, frames>>
vars == <<req, pc, todo, loop, chunks, collected, rows, shown, view,
          connected, noticed, dbUp>>

Calls == 1 .. MaxIterations * MaxCalls
Id(c) == (iteration - 1) * MaxCalls + c

F == INSTANCE FrameProtocol WITH CallIds <- Calls

(* --- what a generator can have in front of it --- *)
Frame(kind)        == [kind |-> kind]
ToolFrame(kind, c) == [kind |-> kind, call |-> c]
Store(status, size, scope) ==
  [kind |-> "store", status |-> status, size |-> size, scope |-> scope]

(* _stream_static_content *)
Static(scope) ==
  <<Frame("start"), Frame("delta"), Store("complete", 1, scope), Frame("end")>>

ErrorResponse == <<Frame("start"), Frame("error")>>

AssistantCalls(n) == [kind |-> "assistant", calls |-> n]
ResultOf(c)       == [kind |-> "result", call |-> c]

At(place)          == pc = place /\ todo = <<>>
Goes(place, steps) == pc' = place /\ todo' = steps
------------------------------------------------------------------------------
Requests == [user : BOOLEAN, docs : BOOLEAN, web : BOOLEAN, replay : BOOLEAN]
Unified(r) == r.docs \/ r.web

Init ==
  /\ req \in Requests
  /\ pc = "routing" /\ todo = <<>>
  /\ iteration = 0 /\ batch = 0 /\ next = 1 /\ denied = FALSE
  /\ pad = <<>> /\ frames = <<>>
  /\ chunks = 0 /\ collected = 0
  /\ rows = <<>> /\ shown = 0 /\ view = F!Nothing
  /\ connected = TRUE /\ noticed = FALSE /\ dbUp = TRUE
------------------------------------------------------------------------------
(* --- the paths of a response --- *)

Replays ==
  /\ At("routing") /\ req.replay
  /\ \E text \in {<<>>, <<Frame("delta")>>} :
       Goes("finished", <<Frame("start")>> \o text \o <<Frame("end")>>)
  /\ UNCHANGED <<req, loop, chunks, collected, rows, shown, view, connected,
                 noticed, dbUp>>

(* _stream_guest_denial: the denial is stored and committed, outside the try, *)
(* then sent and stored as static content.                                    *)
Denies ==
  /\ At("routing") /\ ~req.replay /\ Unified(req) /\ ~req.user
  /\ \/ /\ Goes("finished", Static("denial"))
        /\ rows' = Append(rows, [status |-> "complete", size |-> 1])
        /\ UNCHANGED dbUp
     \/ /\ "denial" \in StoresMayFail
        /\ Goes("torn", <<>>) /\ dbUp' = FALSE /\ UNCHANGED rows
  /\ UNCHANGED <<req, loop, chunks, collected, shown, view, connected, noticed>>

Proceeds ==
  /\ At("routing") /\ ~req.replay /\ (Unified(req) => req.user)
  /\ Goes(IF req.docs THEN "retrieving" ELSE IF req.web THEN "looping"
          ELSE "answering", <<>>)
  /\ UNCHANGED <<req, loop, chunks, collected, rows, shown, view, connected,
                 noticed, dbUp>>

RetrievalFails ==
  /\ At("retrieving")
  /\ Goes("finished", <<Store("error", 0, "best_effort")>> \o ErrorResponse)
  /\ UNCHANGED <<req, loop, chunks, collected, rows, shown, view, connected,
                 noticed, dbUp>>

Retrieves(found) ==
  /\ At("retrieving")
  /\ \/ ~found /\ Goes("finished", Static("static"))
     \/ found /\ Goes(IF req.web THEN "looping" ELSE "answering",
                      <<Frame("retrieval_complete")>>)
  /\ UNCHANGED <<req, loop, chunks, collected, rows, shown, view, connected,
                 noticed, dbUp>>
------------------------------------------------------------------------------
(* --- _run_stream_tool_loop --- *)

StartsFirst ==
  /\ pc' = "polling" /\ todo' = <<Frame("start")>> \o frames
  /\ frames' = <<>>

(* The loop returns; only now are its frames yielded. *)
LeavesLoop ==
  /\ pc' = "answering" /\ todo' = frames
  /\ frames' = <<>>

RoundLeft == iteration < MaxIterations

LoopHead ==
  /\ At("looping")
  /\ \/ /\ RoundLeft /\ connected
        /\ Goes("asking", <<>>) /\ iteration' = iteration + 1
        /\ UNCHANGED <<frames, noticed>>
     \/ /\ RoundLeft /\ ~connected
        /\ noticed' = TRUE /\ LeavesLoop
        /\ UNCHANGED iteration
     \/ /\ ~RoundLeft
        /\ Goes("finished", frames \o Static("static")) /\ frames' = <<>>
        /\ UNCHANGED <<iteration, noticed>>
  /\ UNCHANGED <<req, batch, next, denied, pad, chunks, collected, rows, shown,
                 view, connected, dbUp>>

(* complete_chat_with_tools answers with n tool calls. *)
AskAnswers(n) ==
  /\ At("asking")
  /\ \/ /\ n = 0 /\ LeavesLoop
        /\ UNCHANGED <<batch, next, denied, pad>>
     \/ /\ n > 0 /\ Goes("calling", <<>>)
        /\ batch' = n /\ next' = 1 /\ denied' = FALSE
        /\ pad' = Append(pad, AssistantCalls(n))
        /\ UNCHANGED frames
  /\ UNCHANGED <<req, iteration, chunks, collected, rows, shown, view,
                 connected, noticed, dbUp>>

(* It fails: the outer except of stream_execute. *)
AskFails ==
  /\ At("asking")
  /\ Goes("finished", ErrorResponse) /\ frames' = <<>>
  /\ UNCHANGED <<req, iteration, batch, next, denied, pad, chunks, collected,
                 rows, shown, view, connected, noticed, dbUp>>

ConcludesUnrecorded(c, opening) ==
  /\ frames' = frames \o opening \o <<ToolFrame("tool_end", Id(c))>>
  /\ pad' = IF opening = <<>> THEN Append(pad, ResultOf(c)) ELSE pad
  /\ next' = c + 1
  /\ Goes("calling", <<>>)

(* The result of a call enters the conversation, its end the frames. *)
Concludes(c, opening) ==
  /\ frames' = frames \o opening \o <<ToolFrame("tool_end", Id(c))>>
  /\ pad' = Append(pad, ResultOf(c))
  /\ next' = c + 1
  /\ Goes("calling", <<>>)

PolledOnce == next > 1 \/ connected
MayRun     == connected

(* _execute_stream_tool_call polls the connection before it runs the tool. *)
CallsTool ==
  /\ At("calling") /\ next <= batch
  /\ LET opening == <<ToolFrame("tool_start", Id(next))>>
     IN  \/ /\ MayRun
            /\ Goes("handling", <<>>) /\ frames' = frames \o opening
            /\ UNCHANGED <<next, pad, noticed>>
         \/ /\ ~MayRun
            /\ noticed' = TRUE /\ Concludes(next, opening)
  /\ UNCHANGED <<req, iteration, batch, denied, chunks, collected, rows, shown,
                 view, connected, dbUp>>

(* The tool's result, or the refusal of the authorizer, whose policy is a      *)
(* parameter: the one in the source refuses no call of a user.                 *)
ToolReturns(refused) ==
  /\ At("handling") /\ Concludes(next, <<>>)
  /\ refused => MayRefuse
  /\ denied' = (denied \/ refused)
  /\ UNCHANGED <<req, iteration, batch, chunks, collected, rows, shown, view,
                 connected, noticed, dbUp>>

BatchEnds ==
  /\ At("calling") /\ next > batch
  /\ \/ ~denied /\ Goes("looping", <<>>) /\ UNCHANGED frames
     \/ denied /\ Goes("finished", frames \o Static("static")) /\ frames' = <<>>
  /\ UNCHANGED <<req, iteration, batch, next, denied, pad, chunks, collected,
                 rows, shown, view, connected, noticed, dbUp>>
------------------------------------------------------------------------------
(* --- _stream_provider_answer, stream_chat --- *)

StartsAnswer ==
  /\ At("answering") /\ Goes("polling", <<Frame("start")>>)
  /\ UNCHANGED <<req, loop, chunks, collected, rows, shown, view, connected,
                 noticed, dbUp>>

Polls ==
  /\ At("polling")
  /\ \/ connected /\ Goes("pulling", <<>>) /\ UNCHANGED noticed
     \/ ~connected /\ noticed' = TRUE
        /\ Goes("finished", <<Store("interrupted", collected, "answer")>>)
  /\ UNCHANGED <<req, loop, chunks, collected, rows, shown, view, connected, dbUp>>

DeltaOnce(content) == IF content /\ collected = 0 THEN <<Frame("delta")>> ELSE <<>>
(* The delta of a chunk *)
Delta(content) == IF content THEN <<Frame("delta")>> ELSE <<>>

Chunk(content) ==
  /\ At("pulling") /\ chunks < MaxChunks
  /\ chunks' = chunks + 1
  /\ collected' = collected + (IF content THEN 1 ELSE 0)
  /\ Goes("polling", Delta(content))
  /\ UNCHANGED <<req, loop, rows, shown, view, connected, noticed, dbUp>>

StreamEnds ==
  /\ At("pulling")
  /\ Goes("finished",
          IF collected = 0 THEN <<Store("error", 0, "answer"), Frame("error")>>
          ELSE <<Store("complete", collected, "answer"), Frame("end")>>)
  /\ UNCHANGED <<req, loop, chunks, collected, rows, shown, view, connected,
                 noticed, dbUp>>

(* The except clause: the error is stored if that is possible, then sent. *)
Excuse == <<Store("error", collected, "best_effort"), Frame("error")>>

StreamBreaks ==
  /\ At("pulling") /\ Goes("finished", Excuse)
  /\ UNCHANGED <<req, loop, chunks, collected, rows, shown, view, connected,
                 noticed, dbUp>>
------------------------------------------------------------------------------
(* --- frames and stores leave --- *)

Yields ==
  /\ todo # <<>> /\ Head(todo).kind # "store"
  /\ view' = F!Receive(view, Head(todo))
  /\ shown' = shown + (IF Head(todo).kind = "delta" THEN 1 ELSE 0)
  /\ todo' = Tail(todo)
  /\ UNCHANGED <<req, pc, loop, chunks, collected, rows, connected, noticed, dbUp>>

(* _persist_stream_result *)
Stores ==
  /\ todo # <<>> /\ Head(todo).kind = "store" /\ dbUp
  /\ rows' = Append(rows, [status |-> Head(todo).status, size |-> Head(todo).size])
  /\ todo' = Tail(todo)
  /\ UNCHANGED <<req, pc, loop, chunks, collected, shown, view, connected,
                 noticed, dbUp>>

Overlooked(scope) == Tail(todo)
TriedAgain(scope) == todo
(* What runs instead of the rest when a store has failed *)
Handler(scope) ==
  CASE scope = "best_effort" -> Tail(todo)
    [] scope = "answer"      -> Excuse
    [] scope = "static"      -> ErrorResponse
    [] scope = "denial"      -> <<>>

StoreFails ==
  /\ todo # <<>> /\ Head(todo).kind = "store"
  /\ dbUp => Head(todo).scope \in StoresMayFail
  /\ dbUp' = FALSE
  /\ todo' = Handler(Head(todo).scope)
  /\ pc' = IF Head(todo).scope = "denial" THEN "torn" ELSE pc
  /\ UNCHANGED <<req, loop, chunks, collected, rows, shown, view, connected, noticed>>

(* --- the client and the server --- *)
Disconnects ==
  /\ connected /\ connected' = FALSE
  /\ UNCHANGED <<req, pc, todo, loop, chunks, collected, rows, shown, view,
                 noticed, dbUp>>

Done == pc = "torn" \/ At("finished")

(* Starlette cancels the generator of a client that has gone. *)
Cancelled ==
  /\ ~connected /\ ~Done
  /\ Goes("torn", <<>>)
  /\ UNCHANGED <<req, loop, chunks, collected, rows, shown, view, connected,
                 noticed, dbUp>>
------------------------------------------------------------------------------
Step ==
  \/ Replays \/ Denies \/ Proceeds
  \/ RetrievalFails \/ \E found \in BOOLEAN : Retrieves(found)
  \/ LoopHead \/ \E n \in 0 .. MaxCalls : AskAnswers(n)
  \/ AskFails \/ CallsTool \/ BatchEnds
  \/ \E refused \in BOOLEAN : ToolReturns(refused)
  \/ StartsAnswer \/ Polls \/ \E content \in BOOLEAN : Chunk(content)
  \/ StreamEnds \/ StreamBreaks
  \/ Yields \/ Stores \/ StoreFails

Next == Step \/ Disconnects \/ Cancelled \/ (Done /\ UNCHANGED vars)

(* Every call to the outside is under asyncio.wait_for; the provider sends    *)
(* finitely many chunks (MaxChunks).                                          *)
Spec == Init /\ [][Next]_vars /\ WF_vars(Step)
------------------------------------------------------------------------------
(* What the provider is sent has, after every announcement of tool calls,    *)
(* the result of each, in order: also of calls that were not run because the *)
(* client had gone (_run_stream_tool_loop, _execute_stream_tool_call).       *)
LoopPaired ==
  pc \in {"asking", "polling", "pulling"} =>
    \A i \in DOMAIN pad :
      \/ /\ pad[i].kind = "assistant"
         /\ \A c \in 1 .. pad[i].calls :
              i + c \in DOMAIN pad /\ pad[i + c] = ResultOf(c)
      \/ /\ pad[i].kind = "result" /\ i > pad[i].call
         /\ pad[i - pad[i].call].kind = "assistant"

(* Once a poll has found the client gone, no provider or tool is called for  *)
(* this response any more, on whatever path it leaves the loop.              *)
NothingAskedAfterNotice ==
  [][noticed => \/ pc' \notin {"asking", "handling", "pulling"}
                \/ pc' = pc]_vars

(* The client is told end only for an answer that is stored as complete, and *)
(* error only if none is.                                                    *)
TerminalMatchesStore ==
  ~req.replay =>
    /\ view.phase = "ended" => \E i \in DOMAIN rows : rows[i].status = "complete"
    /\ view.phase = "failed" => \A i \in DOMAIN rows : rows[i].status # "complete"

(* A response of a user stores at most one assistant message, and never text *)
(* that was not sent before: what another tab loads is what this one saw.    *)
StoredWasShown ==
  req.user => /\ Len(rows) <= 1
              /\ \A i \in DOMAIN rows : rows[i].size <= shown

(* The frames of the response follow the protocol of the chat stream, as     *)
(* long as the store of a canned answer does not fail ("static" is no member *)
(* of StoresMayFail): where it does, the outer except of stream_execute sends *)
(* a second start frame (unified_chat_service.py:441).                        *)
ImplementsFrames == F!Spec

(* Every response ends.                                                       *)
EveryResponseEnds == <>Done
==============================================================================
