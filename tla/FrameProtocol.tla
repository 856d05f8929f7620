---------------------------- MODULE FrameProtocol ----------------------------
(***************************************************************************)
(* What a client of POST /api/v1/chat/stream may rely on: the order of the *)
(* frames of one response.  Tool and retrieval frames tell what happens    *)
(* before the answer; one start frame opens the answer, deltas follow, one *)
(* end or error frame closes it and nothing comes after.  A response may   *)
(* be cut off anywhere.                                                     *)
(*                                                                         *)
(* AgentRun and UnifiedStream are shown to implement it: they keep what    *)
(* the client has seen in a variable that Receive updates frame by frame,  *)
(* legal or not, and this module says which frames are legal when.         *)
(***************************************************************************)
EXTENDS Integers

CONSTANT CallIds          \* ids of tool calls

VARIABLE view             \* what the client has seen of the response

Phases  == {"preparing", "answering", "ended", "failed", "broken"}
Nothing == [phase |-> "preparing", running |-> {}]

Frames == [kind : {"retrieval_complete", "start", "delta", "end", "error"}]
            \cup [kind : {"tool_start", "tool_end"}, call : CallIds]

(* The frame has a place in a response of which v has been seen. *)
Legal(v, f) ==
  CASE f.kind = "retrieval_complete" -> v.phase = "preparing" /\ v.running = {}
    [] f.kind = "tool_start" -> v.phase = "preparing" /\ f.call \notin v.running
    [] f.kind = "tool_end"   -> v.phase = "preparing" /\ f.call \in v.running
    [] f.kind = "start"      -> v.phase = "preparing"
    [] f.kind = "delta"      -> v.phase = "answering"
    [] f.kind = "end"        -> v.phase = "answering" /\ v.running = {}
    [] f.kind = "error"      -> v.phase = "answering"

(* What has been seen after one more frame *)
Receive(v, f) ==
  IF ~Legal(v, f) THEN [v EXCEPT !.phase = "broken"]
  ELSE CASE f.kind = "tool_start" -> [v EXCEPT !.running = @ \cup {f.call}]
         [] f.kind = "tool_end"   -> [v EXCEPT !.running = @ \ {f.call}]
         [] f.kind = "start"      -> [v EXCEPT !.phase = "answering"]
         [] f.kind = "end"        -> [v EXCEPT !.phase = "ended"]
         [] f.kind = "error"      -> [v EXCEPT !.phase = "failed"]
         [] OTHER                 -> v
------------------------------------------------------------------------------
Init == view = Nothing
Next == \E f \in Frames : Legal(view, f) /\ view' = Receive(view, f)
Spec == Init /\ [][Next]_view
==============================================================================
