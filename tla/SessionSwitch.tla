---------------------------- MODULE SessionSwitch ----------------------------
(***************************************************************************)
(* The chat page of a signed-in user and its sessions: the auto-resume of  *)
(* the page's first list, selecting, creating and deleting a conversation, *)
(* and the stream whose start frame names the session it belongs to.       *)
(*                                                                         *)
(* Every handler awaits the server, so its parts are actions of their own. *)
(* A session is a number, a turn is a number, zero is null.  A transcript  *)
(* is the set of the turns whose question or answer it shows.              *)
(***************************************************************************)
EXTENDS Integers, FiniteSets

CONSTANTS
  Initial,     \* sessions the user has when the page is opened
  MaxSessions, \* bound: sessions ever made, the initial ones included
  MaxTurns,    \* bound: messages sent
  MaxClicks    \* bound: selections, new chats, deletions, retries

ASSUME BoundsAssumption ==
  /\ MaxSessions \in Nat /\ Initial \in 0 .. MaxSessions
  /\ MaxTurns \in Nat /\ MaxClicks \in Nat

Sessions == 1 .. MaxSessions
Turns    == 1 .. MaxTurns
None     == -1   \* no request is stored for a turn

VARIABLES
  world,                      \* how patient the user and how reliable the rest is
  made, exists, saved,        \* the server: ids used, sessions, turns of each
  active, shown,              \* activeSessionId and the transcript
  failed, requestOf,          \* bubbles that offer Retry, messageRequestMapRef
  listed, refreshing,         \* the sidebar, and a list nobody waits for
  seq, loads, loading,        \* sessionLoadSeqRef, getChatSession calls, isTranscriptLoading
  resume, creating, deleting, \* the handlers in flight
  dialog,                     \* sessionPendingDelete
  gen,                        \* the request being generated
  turns, clicks,
  split                       \* history: a first turn was sent again, without its session

server == <<made, exists, saved>>
page   == <<active, shown, failed>>
load   == <<seq, loads, loading>>
tasks  == <<resume, creating, deleting, dialog>>
vars   == <<world, server, page, requestOf, listed, refreshing, load, tasks, gen,
            turns, clicks, split>>

(* The user waits for what is in flight, or requests and other devices do.   *)
Worlds ==
  {[overlaps |-> FALSE, failures |-> TRUE], [overlaps |-> FALSE, failures |-> FALSE],
   [overlaps |-> TRUE, failures |-> FALSE]}
Overlaps  == world.overlaps
Failures  == world.failures
Elsewhere == world.failures

NoGen    == [at |-> "none", turn |-> 0, session |-> 0, seen |-> 0, got |-> 0]
NoDelete == [at |-> "no", session |-> 0, wasActive |-> FALSE, seq |-> 0]
------------------------------------------------------------------------------
Init ==
  /\ world \in Worlds
  /\ made = Initial /\ exists = 1 .. Initial /\ saved = [s \in Sessions |-> {}]
  /\ active = 0 /\ shown = {} /\ failed = {} /\ requestOf = [t \in Turns |-> None]
  /\ listed = {} /\ refreshing = FALSE
  /\ seq = 0 /\ loads = {} /\ loading = FALSE
  /\ resume = "listing" /\ creating = "no" /\ deleting = NoDelete /\ dialog = 0
  /\ gen = NoGen /\ turns = 0 /\ clicks = 0 /\ split = FALSE
------------------------------------------------------------------------------
IsGenerating == gen.at # "none"

ControlsOnlyLoading == loading
(* areSessionControlsDisabled *)
ControlsDisabled == loading \/ creating # "no" \/ IsGenerating

(* No transition is in flight; the controls do not wait for all of them.     *)
Quiet == resume = "done" /\ ~ControlsDisabled /\ deleting.at = "no"

Acts == dialog = 0 /\ (Overlaps \/ Quiet)

(* LOAD_SESSION *)
Shows(s, ts) == active' = s /\ shown' = ts /\ failed' = {}

(* createChatSession, and the page that shows the empty session *)
Created ==
  /\ made < MaxSessions
  /\ made' = made + 1 /\ exists' = exists \cup {made + 1} /\ UNCHANGED saved
  /\ Shows(made + 1, {})

Removed(s) ==
  /\ exists' = exists \ {s} /\ saved' = [saved EXCEPT ![s] = {}]
  /\ UNCHANGED made

(* loadSession up to its await; n numbers skipped by an invalidation *)
LoadSession(s, n) ==
  /\ seq' = seq + n + 1
  /\ loads' = loads \cup {[seq |-> seq + n + 1, session |-> s]}
  /\ loading' = TRUE
------------------------------------------------------------------------------
(* --- loadSession after its await --- *)

Current(l) == l.seq = seq

ClearsIfShown(l) == Current(l) /\ l.session \in exists
(* The finally clause *)
Clears(l) == Current(l)

LoadEnds(l) ==
  /\ loads' = loads \ {l} /\ UNCHANGED seq
  /\ loading' = (loading /\ ~Clears(l))
  /\ deleting' = IF deleting.at = "loading" /\ deleting.seq = l.seq
                   THEN NoDelete ELSE deleting
  /\ UNCHANGED <<server, requestOf, listed, resume, creating, dialog, gen,
                 turns, clicks>>

LoadArrives(l) ==
  /\ LoadEnds(l)
  /\ \/ ~Current(l) /\ UNCHANGED <<page, refreshing>>
     \/ /\ Current(l) /\ l.session \in exists
        /\ Shows(l.session, saved[l.session]) /\ UNCHANGED refreshing
     \/ /\ Current(l) /\ l.session \notin exists
        /\ Shows(0, {}) /\ refreshing' = TRUE

LoadFails(l) == Failures /\ LoadEnds(l) /\ UNCHANGED <<page, refreshing>>
------------------------------------------------------------------------------
(* --- the list --- *)

(* refreshSessions that nobody waits for *)
Refreshed ==
  /\ refreshing /\ refreshing' = FALSE
  /\ (listed' = exists \/ (Failures /\ listed' = listed))
  /\ UNCHANGED <<server, page, requestOf, load, tasks, gen, turns, clicks>>

(* The effect of the first render; the most recent session is any of them.  *)
Resumes ==
  /\ resume = "listing" /\ resume' = "done"
  /\ \/ /\ listed' = exists
        /\ \/ active = 0 /\ \E s \in exists : LoadSession(s, 0)
           \/ (active # 0 \/ exists = {}) /\ UNCHANGED load
     \/ Failures /\ UNCHANGED <<listed, load>>
  /\ UNCHANGED <<server, page, requestOf, refreshing, creating, deleting, dialog,
                 gen, turns, clicks>>
------------------------------------------------------------------------------
(* --- select, new chat, delete --- *)

Select(s) ==
  /\ Acts /\ ~ControlsDisabled /\ clicks < MaxClicks /\ clicks' = clicks + 1
  /\ s \in listed \ {active}
  /\ LoadSession(s, 0)
  /\ UNCHANGED <<server, page, requestOf, listed, refreshing, tasks, gen, turns>>

NewChat ==
  /\ Acts /\ ~ControlsDisabled /\ clicks < MaxClicks /\ clicks' = clicks + 1
  /\ creating' = "asked"
  /\ UNCHANGED <<server, page, requestOf, listed, refreshing, load, resume,
                 deleting, dialog, gen, turns>>

NewChatGoesOn ==
  /\ \/ /\ creating = "asked" /\ Created /\ creating' = "listing" /\ UNCHANGED listed
     \/ /\ creating = "listing" /\ creating' = "no" /\ listed' = exists
        /\ UNCHANGED <<server, page>>
     \/ /\ creating # "no" /\ Failures /\ creating' = "no"
        /\ UNCHANGED <<server, page, listed>>
  /\ UNCHANGED <<requestOf, refreshing, load, resume, deleting, dialog, gen,
                 turns, clicks>>

AsksDelete(s) ==
  /\ Acts /\ ~ControlsDisabled /\ deleting.at = "no"
  /\ clicks < MaxClicks /\ clicks' = clicks + 1
  /\ s \in (listed \cup {active}) \ {0}
  /\ dialog' = s
  /\ UNCHANGED <<server, page, requestOf, listed, refreshing, load, resume,
                 creating, deleting, gen, turns>>

ActiveAndShown(s) == s = active /\ shown # {}
(* wasActiveSession, taken before the deletion *)
WasActive(s) == s = active

(* handleConfirmDelete or handleCancelDelete *)
Confirms ==
  /\ dialog # 0 /\ dialog' = 0
  /\ \/ /\ deleting' = [at |-> "asked", session |-> dialog,
                        wasActive |-> WasActive(dialog), seq |-> 0]
        /\ gen' = NoGen
     \/ UNCHANGED <<deleting, gen>>
  /\ UNCHANGED <<server, page, requestOf, listed, refreshing, load, resume,
                 creating, turns, clicks>>

Deleted ==
  /\ deleting.at = "asked"
  /\ \/ /\ deleting.session \in exists
        /\ Removed(deleting.session) /\ deleting' = [deleting EXCEPT !.at = "listing"]
     \/ /\ deleting.session \notin exists \/ Failures
        /\ deleting' = NoDelete /\ UNCHANGED server
  /\ UNCHANGED <<page, requestOf, listed, refreshing, load, resume, creating,
                 dialog, gen, turns, clicks>>

(* refreshSessions gives the sessions, or null for none *)
DeletedListed ==
  /\ deleting.at = "listing"
  /\ \E list \in {exists} \cup (IF Failures THEN {{}} ELSE {}) :
       /\ listed' = IF list = exists THEN exists ELSE listed
       /\ \/ ~deleting.wasActive /\ deleting' = NoDelete /\ UNCHANGED load
          \/ /\ deleting.wasActive /\ list # {}
             /\ \E s \in list : LoadSession(s, 1)
             /\ deleting' = [deleting EXCEPT !.at = "loading", !.seq = seq + 2]
          \/ /\ deleting.wasActive /\ list = {}
             /\ deleting' = [deleting EXCEPT !.at = "creating"]
             /\ seq' = seq + 1 /\ UNCHANGED <<loads, loading>>
  /\ UNCHANGED <<server, page, requestOf, refreshing, resume, creating, dialog,
                 gen, turns, clicks>>

DeletedReplaced ==
  /\ \/ /\ deleting.at = "creating" /\ Created
        /\ deleting' = [deleting EXCEPT !.at = "relisting"] /\ UNCHANGED listed
     \/ /\ deleting.at = "creating" /\ Failures
        /\ deleting' = NoDelete /\ UNCHANGED <<server, page, listed>>
     \/ /\ deleting.at = "relisting" /\ deleting' = NoDelete
        /\ (listed' = exists \/ (Failures /\ listed' = listed))
        /\ UNCHANGED <<server, page>>
  /\ UNCHANGED <<requestOf, refreshing, load, resume, creating, dialog, gen,
                 turns, clicks>>
------------------------------------------------------------------------------
(* --- the answer --- *)

Asks(t, s) == gen' = [at |-> "sent", turn |-> t, session |-> s, seen |-> active, got |-> 0]

(* handleSend: only the quota and a loading transcript disable the composer *)
Send ==
  /\ Acts /\ ~IsGenerating /\ ~loading /\ turns < MaxTurns
  /\ turns' = turns + 1 /\ shown' = shown \cup {turns + 1}
  /\ Asks(turns + 1, active)
  /\ UNCHANGED <<server, active, failed, requestOf, listed, refreshing, load, tasks, clicks>>

(* handleRetry: the request as it was sent *)
Retry(t) ==
  /\ Acts /\ ~IsGenerating /\ t \in failed
  /\ clicks < MaxClicks /\ clicks' = clicks + 1
  /\ failed' = failed \ {t}
  /\ Asks(t, requestOf[t])
  /\ UNCHANGED <<server, active, shown, requestOf, listed, refreshing, load,
                 tasks, turns>>

(* The server resolves the session and stores the turn. *)
Accepted ==
  /\ gen.at = "sent"
  /\ \/ /\ gen.session = 0 /\ made < MaxSessions
        /\ made' = made + 1 /\ exists' = exists \cup {made + 1}
        /\ saved' = [saved EXCEPT ![made + 1] = {gen.turn}]
        /\ gen' = [gen EXCEPT !.at = "accepted", !.got = made + 1]
     \/ /\ gen.session \in exists /\ UNCHANGED <<made, exists>>
        /\ saved' = [saved EXCEPT ![gen.session] = @ \cup {gen.turn}]
        /\ gen' = [gen EXCEPT !.at = "accepted", !.got = gen.session]
  /\ UNCHANGED <<page, requestOf, listed, refreshing, load, tasks, turns, clicks>>

(* onStart: the session is compared with the one of the render that sent    *)
Started ==
  /\ gen.at = "accepted" /\ gen' = [gen EXCEPT !.at = "open"]
  /\ active' = IF gen.got # gen.seen THEN gen.got ELSE active
  /\ shown' = shown \cup {gen.turn}
  /\ requestOf' = [requestOf EXCEPT ![gen.turn] = gen.session]
  /\ UNCHANGED <<server, failed, listed, refreshing, load, tasks,
                 turns, clicks>>

Ended ==
  /\ gen.at = "open" /\ gen' = NoGen /\ refreshing' = TRUE
  /\ UNCHANGED <<server, page, requestOf, listed, load, tasks, turns, clicks>>

(* The session is gone, or the connection drops; Retry needs a start frame. *)
Broken ==
  /\ \/ gen.at = "sent" /\ (Failures \/ gen.session \notin exists \cup {0})
     \/ gen.at \in {"accepted", "open"} /\ Failures
  /\ gen' = NoGen
  /\ failed' = IF gen.at = "open" /\ gen.turn \in shown
                 THEN failed \cup {gen.turn} ELSE failed
  /\ UNCHANGED <<server, active, shown, requestOf, listed, refreshing, load,
                 tasks, turns, clicks>>

Stop ==
  /\ dialog = 0 /\ IsGenerating /\ gen' = NoGen
  /\ UNCHANGED <<server, page, requestOf, listed, refreshing, load, tasks,
                 turns, clicks>>
------------------------------------------------------------------------------
DeletedElsewhere(s) ==
  /\ Elsewhere /\ Removed(s)
  /\ clicks < MaxClicks /\ clicks' = clicks + 1
  /\ UNCHANGED <<page, requestOf, listed, refreshing, load, tasks, gen, turns>>

Responses ==
  \/ \E l \in loads : LoadArrives(l) \/ LoadFails(l)
  \/ Refreshed \/ Resumes \/ NewChatGoesOn
  \/ Deleted \/ DeletedListed \/ DeletedReplaced
  \/ Accepted \/ Started \/ Ended \/ Broken

User ==
  \/ \E s \in Sessions : Select(s) \/ AsksDelete(s)
  \/ NewChat \/ Confirms \/ Send \/ Stop

Pending ==
  \/ loads # {} \/ refreshing \/ resume = "listing" \/ creating # "no"
  \/ deleting.at # "no" \/ dialog # 0 \/ IsGenerating

Next ==
  \/ /\ Responses \/ User \/ \E s \in exists : DeletedElsewhere(s)
     /\ UNCHANGED <<world, split>>
  \/ /\ \E t \in Turns : Retry(t) /\ split' = (split \/ requestOf[t] = 0)
     /\ UNCHANGED world
  \/ (~Pending /\ UNCHANGED vars)

(* The server answers every request. *)
Spec == Init /\ [][Next]_vars /\ WF_vars(Responses /\ UNCHANGED <<world, split>>)
------------------------------------------------------------------------------
Stored(t) == {s \in Sessions : t \in saved[s]}

(* With a user who waits, every turn of the transcript whose answer the page *)
(* saw begin belongs to the active session, to which the next message is     *)
(* sent; a first turn that was retried has opened a second session.          *)
ShownIsActive ==
  ~Overlaps /\ ~split /\ active # 0 =>
    \A t \in shown :
      requestOf[t] # None /\ Stored(t) # {} => active \in Stored(t)

(* When a user who waits has deleted a session, and no request failed, the   *)
(* page is left on a session that exists.                                    *)
NotOnDeleted ==
  ~Overlaps /\ ~Failures /\ Quiet /\ active # 0 => active \in exists

(* The composer and the controls are disabled by a loading transcript: the   *)
(* flag is cleared in the end, if the user waits or no request fails.        *)
LoadingEnds == loading ~> ~loading
==============================================================================
