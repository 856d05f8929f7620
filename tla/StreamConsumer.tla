---------------------------- MODULE StreamConsumer ----------------------------
(***************************************************************************)
(* The chat page as the consumer of answers: send, retry and stop in       *)
(* ChatPage, the hooks useChatStream and useChatCompletion that run the    *)
(* fetch, and the bubbles of chatReducer.                                  *)
(*                                                                         *)
(* The page has one set of refs for the request it thinks is running, and  *)
(* every fetch reports to callbacks that read these refs.  A hook has one  *)
(* flag and one controller for all its fetches.  A bubble is its position  *)
(* in the transcript, a fetch its position in asked; a user message and    *)
(* the request made from it are the number of the turn; zero is null.      *)
(* Callbacks and event handlers run to completion.                         *)
(***************************************************************************)
EXTENDS Integers, Sequences

CONSTANTS
  MaxTurns,   \* bound: user messages sent
  MaxFetches, \* bound: requests made, retries included
  Refusals    \* the HTTP errors that occur, of "quota", "token" and "other"

ASSUME BoundsAssumption == MaxTurns \in Nat /\ MaxFetches \in Nat

VARIABLES
  streaming,  \* chatStreamingEnabled, which the answer of /api/health may clear
  signedIn,   \* status is authenticated
  turns,      \* user messages so far
  bubbles,    \* assistant messages of the transcript
  asked,      \* the fetches: their turn, the hook that runs them, how far they are
  busy,       \* isStreaming and isPending
  controller, \* abortControllerRef of either hook
  transport,  \* activeTransportRef
  current,    \* currentMessageIdRef
  stream,     \* currentStreamIdRef
  pending,    \* pendingRequestRef
  target,     \* retryTargetMessageIdRef
  requestOf,  \* messageRequestMapRef
  bubbleOf,   \* streamMessageMapRef
  stopped,    \* stoppedStreamIdsRef
  blocked,    \* quotaBlocked
  overlap,    \* history: a retry was made beside a running request
  left        \* history: bubbles whose request ended without telling them

refs == <<transport, current, stream, pending, target>>
vars == <<turns, bubbles, asked, busy, controller, refs, requestOf, bubbleOf,
          stopped, blocked>>
all  == <<streaming, signedIn, vars, overlap, left>>

Hooks == {"streaming", "completion"}
Bubbles  == 1 .. (2 * MaxFetches)  \* shown before the fetch, and at its start frame
Fetches  == 1 .. MaxFetches
CanRetry == {"interrupted", "error"}

InFlight   == {f \in DOMAIN asked : asked[f].at # "over"}
Generating == \E h \in Hooks : busy[h]
------------------------------------------------------------------------------
(* --- chatReducer --- *)

(* START_MESSAGE, for the turn that is being answered *)
Started(t) == [turn |-> t, status |-> "streaming", texts |-> {}]

Becomes(b, status) ==
  IF b \in DOMAIN bubbles THEN [bubbles EXCEPT ![b].status = status] ELSE bubbles

(* APPEND_DELTA *)
Appended(b, t) ==
  IF b \in DOMAIN bubbles THEN [bubbles EXCEPT ![b].texts = @ \cup {t}] ELSE bubbles

(* END_MESSAGE: an empty answer is an error that may be retried *)
EndStatus(b, extra) ==
  IF b \in DOMAIN bubbles /\ bubbles[b].texts \cup extra = {} THEN "error" ELSE "complete"

(* RETRY_MESSAGE *)
Retried(b) == [bubbles EXCEPT ![b] = Started(@.turn)]
------------------------------------------------------------------------------
Init ==
  /\ streaming = TRUE /\ signedIn \in BOOLEAN /\ overlap = FALSE /\ left = {}
  /\ turns = 0 /\ bubbles = <<>> /\ asked = <<>>
  /\ busy = [h \in Hooks |-> FALSE] /\ controller = [h \in Hooks |-> 0]
  /\ transport = "none" /\ current = 0 /\ stream = 0 /\ pending = 0 /\ target = 0
  /\ requestOf = [b \in Bubbles |-> 0] /\ bubbleOf = [f \in Fetches |-> 0]
  /\ stopped = {} /\ blocked = FALSE
------------------------------------------------------------------------------
(* --- startRequest, and the synchronous part of the hook's start --- *)

(* The bubble that is shown before anything has arrived *)
Prestarted(toggled) == ~streaming \/ toggled
Transport == IF streaming THEN "streaming" ELSE "completion"

StartRequest(t, b) ==
  /\ Len(asked) < MaxFetches
  /\ asked' = Append(asked, [turn |-> t, via |-> Transport, at |-> "sent"])
  /\ controller' = [controller EXCEPT ![Transport] = Len(asked) + 1]
  /\ busy' = [busy EXCEPT ![Transport] = TRUE]
  /\ transport' = Transport
  /\ pending' = t /\ target' = b
  /\ UNCHANGED <<stream, requestOf, bubbleOf, stopped, blocked>>

ShowsKeepingCurrent(toggled) ==
  \/ /\ Prestarted(toggled) /\ current' = Len(bubbles) + 1
     /\ bubbles' = Append(bubbles, Started(turns + 1))
  \/ ~Prestarted(toggled) /\ UNCHANGED <<current, bubbles>>
(* currentMessageIdRef is reset even if no bubble is shown. *)
Shows(toggled) ==
  \/ /\ Prestarted(toggled) /\ current' = Len(bubbles) + 1
     /\ bubbles' = Append(bubbles, Started(turns + 1))
  \/ ~Prestarted(toggled) /\ current' = 0 /\ UNCHANGED bubbles

(* The composer is disabled while an answer is generated or the quota is used up; *)
(* its toggles are for who is signed in.                                           *)
Send(toggled) ==
  /\ ~Generating /\ ~blocked /\ turns < MaxTurns
  /\ toggled => signedIn
  /\ turns' = turns + 1
  /\ StartRequest(turns + 1, 0) /\ Shows(toggled)

(* The button is on every bubble that can be retried, at any time.  Without  *)
(* the bubble's request the page only shows an error.                         *)
Retry(b) ==
  /\ bubbles[b].status \in CanRetry /\ requestOf[b] # 0
  /\ StartRequest(requestOf[b], b) /\ current' = b /\ bubbles' = Retried(b)
  /\ UNCHANGED turns

(* handleStop: the refs are reset *)
StopForgets == current' = 0 /\ stream' = 0 /\ pending' = 0 /\ target' = 0

Stop ==
  /\ Generating
  /\ asked' = IF transport # "none" /\ controller[transport] \in InFlight
                THEN [asked EXCEPT ![controller[transport]].at = "aborted"] ELSE asked
  /\ stopped' = IF stream = 0 THEN stopped ELSE stopped \cup {stream}
  /\ bubbleOf' = IF stream = 0 THEN bubbleOf ELSE [bubbleOf EXCEPT ![stream] = 0]
  /\ bubbles' = Becomes(current, "stopped")
  /\ transport' = "none" /\ StopForgets
  /\ UNCHANGED <<turns, busy, controller, requestOf, blocked>>
------------------------------------------------------------------------------
(* --- the fetch --- *)

SettlesQuietly(f) ==
  /\ asked' = [asked EXCEPT ![f].at = "over"]
  /\ controller' = [controller EXCEPT ![asked[f].via] = 0] /\ UNCHANGED busy
(* The finally clause of start: it clears the hook's controller and flag,     *)
(* also when a newer fetch of the hook owns them.                             *)
Settles(f) ==
  /\ asked' = [asked EXCEPT ![f].at = "over"]
  /\ busy' = [busy EXCEPT ![asked[f].via] = FALSE]
  /\ controller' = [controller EXCEPT ![asked[f].via] = 0]

Forgets == current' = 0 /\ pending' = 0 /\ target' = 0
ForgetsAll == transport' = "none" /\ stream' = 0 /\ Forgets

(* onStart: the bubble of a retry, else the current one, else a new one *)
LocalBubble ==
  IF target # 0 THEN target ELSE IF current # 0 THEN current ELSE Len(bubbles) + 1

RemembersLatest(b) == [requestOf EXCEPT ![b] = turns]
(* The request is kept for a retry of its bubble. *)
Remembers(b) == IF pending = 0 THEN requestOf ELSE [requestOf EXCEPT ![b] = pending]

OnStart(f) ==
  /\ asked[f].at = "sent" /\ asked[f].via = "streaming"
  /\ asked' = [asked EXCEPT ![f].at = "open"]
  /\ stopped' = stopped \ {f}
  /\ current' = LocalBubble /\ stream' = f
  /\ bubbleOf' = [bubbleOf EXCEPT ![f] = LocalBubble]
  /\ requestOf' = Remembers(LocalBubble)
  /\ target' = 0
  /\ bubbles' = IF LocalBubble \in DOMAIN bubbles THEN bubbles
                ELSE Append(bubbles, Started(asked[f].turn))
  /\ UNCHANGED <<turns, busy, controller, transport, pending, blocked>>

OnDelta(f) ==
  /\ asked[f].at = "open"
  /\ bubbles' = IF f \in stopped THEN bubbles ELSE Appended(bubbleOf[f], asked[f].turn)
  /\ UNCHANGED <<turns, asked, busy, controller, refs, requestOf, bubbleOf,
                 stopped, blocked>>

(* onEnd; the fetch ends when the body is closed *)
OnEnd(f) ==
  /\ asked[f].at = "open"
  /\ asked' = [asked EXCEPT ![f].at = "ended"]
  /\ \/ /\ f \in stopped
        /\ stopped' = stopped \ {f} /\ bubbleOf' = [bubbleOf EXCEPT ![f] = 0]
        /\ Forgets /\ stream' = 0
        /\ UNCHANGED <<transport, bubbles>>
     \/ /\ f \notin stopped /\ transport # "streaming"
        /\ UNCHANGED <<refs, stopped, bubbleOf, bubbles>>
     \/ /\ f \notin stopped /\ transport = "streaming"
        /\ bubbles' = Becomes(bubbleOf[f], EndStatus(bubbleOf[f], {}))
        /\ bubbleOf' = [bubbleOf EXCEPT ![f] = 0] /\ ForgetsAll
        /\ UNCHANGED stopped
  /\ UNCHANGED <<turns, busy, controller, requestOf, blocked>>

(* The body closes after the end frame. *)
Closes(f) ==
  /\ asked[f].at = "ended"
  /\ Settles(f)
  /\ UNCHANGED <<turns, bubbles, refs, requestOf, bubbleOf, stopped, blocked>>

(* The body closes without an end or error frame: no callback runs, the refs *)
(* stay as they are and the bubble keeps waiting.                             *)
CutShort(f) ==
  /\ asked[f].at \in {"sent", "open"} /\ asked[f].via = "streaming"
  /\ Settles(f)
  /\ UNCHANGED <<turns, bubbles, refs, requestOf, bubbleOf, stopped, blocked>>

(* The error frame, and the return that follows it *)
OnErrorFrame(f) ==
  /\ asked[f].at = "open"
  /\ Settles(f)
  /\ \/ transport # "streaming" /\ UNCHANGED <<refs, stopped, bubbleOf, bubbles>>
     \/ /\ transport = "streaming" /\ f \in stopped
        /\ stopped' = stopped \ {f} /\ bubbleOf' = [bubbleOf EXCEPT ![f] = 0]
        /\ Forgets /\ stream' = 0
        /\ UNCHANGED <<transport, bubbles>>
     \/ /\ transport = "streaming" /\ f \notin stopped
        /\ bubbles' = Becomes(IF bubbleOf[f] # 0 THEN bubbleOf[f] ELSE current, "error")
        /\ bubbleOf' = [bubbleOf EXCEPT ![f] = 0] /\ ForgetsAll
        /\ UNCHANGED stopped
  /\ UNCHANGED <<turns, requestOf, blocked>>

(* onError and handleCompletionError, for what the fetch itself threw.  The  *)
(* quota blocks guests: the page lifts it at once from who is signed in.      *)
OnException(f, status, quota) ==
  /\ Settles(f)
  /\ \/ transport # asked[f].via /\ UNCHANGED <<refs, bubbleOf, bubbles, blocked>>
     \/ /\ transport = asked[f].via
        /\ bubbles' = IF status = "" THEN bubbles ELSE Becomes(current, status)
        /\ blocked' = (blocked \/ (quota /\ ~signedIn))
        /\ transport' = "none" /\ Forgets
        /\ \/ /\ transport = "streaming"
              /\ stream' = 0
              /\ bubbleOf' = IF stream = 0 THEN bubbleOf ELSE [bubbleOf EXCEPT ![stream] = 0]
           \/ transport = "completion" /\ UNCHANGED <<stream, bubbleOf>>
  /\ UNCHANGED <<turns, requestOf, stopped>>

RefusedSilently(f, kind) == asked[f].at = "sent" /\ OnException(f, "", kind = "quota")
(* A response that is not ok: the bubble is told unless it is the quota or   *)
(* the access token, which both only change the page.                        *)
Refused(f, kind) ==
  /\ asked[f].at = "sent"
  /\ OnException(f, IF kind = "other" THEN "error" ELSE "", kind = "quota")

(* The connection fails before or during the answer. *)
Drops(f) ==
  /\ asked[f].at \in {"sent", "open", "ended"}
  /\ OnException(f, "interrupted", FALSE)

(* The AbortError of a stopped fetch is swallowed. *)
Aborted(f) ==
  /\ asked[f].at = "aborted"
  /\ Settles(f)
  /\ UNCHANGED <<turns, bubbles, refs, requestOf, bubbleOf, stopped, blocked>>

(* onComplete of the completion transport *)
OnComplete(f, text) ==
  /\ asked[f].at = "sent" /\ asked[f].via = "completion"
  /\ Settles(f)
  /\ \/ transport # "completion" /\ UNCHANGED <<refs, requestOf, bubbles>>
     \/ /\ transport = "completion"
        /\ LET b == current
               t == IF text THEN {asked[f].turn} ELSE {}
           IN  /\ requestOf' = Remembers(b)
               /\ bubbles' = [bubbles EXCEPT ![b].texts = @ \cup t,
                                             ![b].status = EndStatus(b, t)]
        /\ transport' = "none" /\ Forgets /\ UNCHANGED stream
  /\ UNCHANGED <<turns, bubbleOf, stopped, blocked>>

(* Signing in lifts the guest quota. *)
SignsIn ==
  /\ ~signedIn /\ signedIn' = TRUE /\ blocked' = FALSE
  /\ UNCHANGED <<streaming, turns, bubbles, asked, busy, controller, refs,
                 requestOf, bubbleOf, stopped>>

(* Until the server has told, the page takes streaming to be enabled. *)
HealthAnswers ==
  /\ streaming /\ streaming' = FALSE
  /\ UNCHANGED <<signedIn, vars>>
------------------------------------------------------------------------------
Arrives(f) ==
  \/ OnStart(f) \/ OnEnd(f) \/ Closes(f) \/ OnErrorFrame(f)
  \/ \E text \in BOOLEAN : OnComplete(f, text)
  \/ Drops(f) \/ Aborted(f)

Untold == {current} \ {0}

Response ==
  /\ UNCHANGED <<streaming, overlap>>
  /\ \/ \E f \in DOMAIN asked : Arrives(f) /\ UNCHANGED <<signedIn, left>>
     \/ \E f \in DOMAIN asked : /\ CutShort(f) /\ left' = left \cup Untold
                                /\ UNCHANGED signedIn
     \/ \E f \in DOMAIN asked, kind \in Refusals :
          /\ Refused(f, kind)
          /\ signedIn' = (signedIn /\ kind # "token")
          /\ left' = IF kind = "other" THEN left ELSE left \cup Untold

User ==
  /\ UNCHANGED <<streaming, signedIn>>
  /\ \/ /\ Stop \/ \E toggled \in BOOLEAN : Send(toggled)
        /\ UNCHANGED overlap
     \/ /\ \E b \in DOMAIN bubbles : Retry(b)
        /\ overlap' = (overlap \/ Generating)

Next ==
  \/ Response
  \/ User /\ UNCHANGED left
  \/ /\ \E f \in DOMAIN asked : OnDelta(f)
     /\ UNCHANGED <<streaming, signedIn, overlap, left>>
  \/ (SignsIn \/ HealthAnswers) /\ UNCHANGED <<overlap, left>>
  \/ (~Generating /\ InFlight = {} /\ UNCHANGED all)

(* The server ends every response, so each fetch goes on. *)
Spec == Init /\ [][Next]_all /\ WF_all(Response)
------------------------------------------------------------------------------
Alone == ~overlap

(* Text that arrives is put into the bubble of the turn it answers, whatever *)
(* was stopped, dropped or cut short before and whatever refs that left; as   *)
(* long as no retry was made beside a running request (with one, callbacks    *)
(* read the refs of the other fetch: ChatPage.tsx:288).                       *)
TextFromOwnTurn ==
  Alone => \A b \in DOMAIN bubbles : bubbles[b].texts \subseteq {bubbles[b].turn}

(* A request in flight that answers bubble b and will tell it how it ended    *)
Awaits(b) ==
  \E f \in InFlight : /\ asked[f].turn = bubbles[b].turn
                      /\ b \in {current, bubbleOf[f]}

(* A bubble that shows an answer in progress has a request in flight that     *)
(* will tell it the end.  Left out, bubble by bubble, are those the code does *)
(* leave waiting: of a request refused for the quota or the access token, and *)
(* of a body that closed without an end or error frame; and a page where a    *)
(* retry was made beside a running request.                                   *)
NoDanglingBubble ==
  Alone => \A b \in DOMAIN bubbles :
             bubbles[b].status = "streaming" => Awaits(b) \/ b \in left

(* The same without the exception for the guest quota: the comment in         *)
(* ChatPage's onError promises a login prompt instead of a dangling streaming *)
(* message.                                                                   *)
QuotaLeavesNoBubble ==
  Alone /\ streaming /\ blocked =>
    \A b \in DOMAIN bubbles : bubbles[b].status = "streaming" => Awaits(b)

(* Retry never sends the request of another turn into a bubble, as long as no *)
(* retry was made beside a running request.                                   *)
RetryOfOwnTurn ==
  Alone => \A b \in DOMAIN bubbles : requestOf[b] \in {0, bubbles[b].turn}

(* Generating ends, whatever the user does meanwhile.                        *)
GeneratingEnds == Generating ~> ~Generating
==============================================================================
