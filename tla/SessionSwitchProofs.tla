-------------------------- MODULE SessionSwitchProofs -------------------------
(***************************************************************************)
(* Proofs about the chat page and its sessions, for any number of sessions,*)
(* turns and clicks, when the user waits for what is in flight.            *)
(*                                                                         *)
(* One task runs at a time, a turn is stored in one session, and what the  *)
(* page shows as begun is of the session that is active.                   *)
(***************************************************************************)
EXTENDS SessionSwitch, TLAPS

------------------------------------------------------------------------------
(* The invariant: for a user who waits, one task runs at a time.           *)

Sess   == Sessions \cup {0}
Load   == [seq : Nat, session : Sessions]
Gen    == [at : {"none", "sent", "accepted", "open"}, turn : Turns \cup {0},
           session : Sess, seen : Sess, got : Sess]
Delete == [at : {"no", "asked", "listing", "loading", "creating", "relisting"},
           session : Sess, wasActive : BOOLEAN, seq : Nat]

TypeOK ==
  /\ world \in Worlds /\ split \in BOOLEAN
  /\ made \in Nat /\ exists \in SUBSET Sessions /\ saved \in [Sessions -> SUBSET Turns]
  /\ active \in Sess /\ shown \in SUBSET Turns /\ failed \in SUBSET Turns
  /\ requestOf \in [Turns -> Sess \cup {None}]
  /\ listed \in SUBSET Sessions
  /\ seq \in Nat /\ loads \in SUBSET Load /\ loading \in BOOLEAN
  /\ resume \in {"listing", "done"} /\ creating \in {"no", "asked", "listing"}
  /\ deleting \in Delete /\ dialog \in Sess /\ gen \in Gen /\ turns \in Nat

\* Numbers of sessions and turns are used once, and Retry has a request to send.
Fresh ==
  /\ \A s \in exists : s <= made
  /\ \A s \in Sessions : s > made => saved[s] = {}
  /\ \A t \in Turns : t > turns => /\ requestOf[t] = None
                                   /\ \A s \in Sessions : t \notin saved[s]
  /\ \A t \in failed : requestOf[t] # None
  /\ IsGenerating => gen.turn \in Turns /\ gen.turn <= turns
  /\ gen.at = "open" => requestOf[gen.turn] # None

OneLoad ==
  /\ loading <=> loads # {}
  /\ \A l \in loads : l.seq = seq /\ \A k \in loads : k = l

OneTask ==
  /\ resume = "listing" =>
       loads = {} /\ creating = "no" /\ deleting.at = "no" /\ dialog = 0 /\ ~IsGenerating
  /\ loads # {} =>
       creating = "no" /\ deleting.at \in {"no", "loading"} /\ dialog = 0 /\ ~IsGenerating
  /\ creating # "no" => deleting.at = "no" /\ dialog = 0 /\ ~IsGenerating
  /\ deleting.at # "no" => dialog = 0 /\ ~IsGenerating
  /\ dialog # 0 => ~IsGenerating

\* A turn is stored in one session, the one its request named.
OneHome ==
  \A t \in Turns, s \in Sessions :
    t \in saved[s] => /\ \A r \in Sessions : t \in saved[r] => r = s
                      /\ requestOf[t] \in {None, 0, s}

\* What was shown as begun, or as failed, is of the active session.
ShownHome ==
  /\ \A t \in shown : requestOf[t] # None =>
       active # 0 /\ \A s \in Sessions : t \in saved[s] => s = active
  /\ \A t \in failed : active # 0 /\ requestOf[t] \in {0, active}

\* The request was made from the active session.
Asked(t) ==
  /\ gen.session = active /\ gen.seen = active
  /\ requestOf[t] # None => requestOf[t] = active /\ active # 0
GenHome ==
  /\ gen.at = "sent" =>
       /\ Asked(gen.turn)
       /\ requestOf[gen.turn] = None => \A s \in Sessions : gen.turn \notin saved[s]
  /\ gen.at = "accepted" =>
       /\ Asked(gen.turn) /\ gen.got # 0 /\ gen.session \in {0, gen.got}
       /\ \A s \in Sessions : gen.turn \in saved[s] => s = gen.got
  /\ gen.at = "open" => active # 0 /\ requestOf[gen.turn] \in {0, active}

\* Without failures the active session exists, or is being replaced.
Alive ==
  /\ deleting.at = "asked" => deleting.wasActive = (deleting.session = active)
  /\ \/ active \in exists \cup {0}
     \/ deleting.at \in {"listing", "loading", "creating"} /\ deleting.wasActive
  /\ gen.at = "accepted" => gen.got \in exists

WaitInv ==
  /\ TypeOK /\ Fresh /\ OneLoad /\ OneTask
  /\ ~split => OneHome /\ ShownHome /\ GenHome
  /\ ~Failures => Alive
SwitchInv == ~Overlaps => WaitInv
------------------------------------------------------------------------------
(* Lemmas about what a step leaves alone.                                  *)

LEMMA NoTask ==
  /\ NoDelete \in Delete /\ NoDelete.at = "no"
  /\ NoGen \in Gen /\ NoGen.at = "none"
BY DEF NoDelete, NoGen, Delete, Gen, Sess

\* Nothing is in flight when the user acts.
LEMMA UserWaits ==
  ASSUME WaitInv, ~Overlaps, Acts
  PROVE  /\ resume = "done" /\ creating = "no" /\ deleting.at = "no" /\ dialog = 0
         /\ ~IsGenerating /\ ~loading /\ loads = {}
BY DEF WaitInv, Acts, Quiet, ControlsDisabled, OneLoad

LEMMA HomesKept ==
  ASSUME OneHome /\ ShownHome /\ GenHome,
         UNCHANGED <<saved, requestOf, active, shown, failed, gen, turns>>
  PROVE  (OneHome /\ ShownHome /\ GenHome)'
BY DEF OneHome, ShownHome, GenHome, Asked, IsGenerating

\* Where no answer is generated, a session may be shown as it is stored.
LEMMA HomesShown ==
  ASSUME WaitInv, OneHome, ~IsGenerating, NEW s \in Sessions \cup {0}, NEW ts,
         Shows(s, ts), s = 0 => ts = {}, s # 0 => ts \subseteq saved[s],
         UNCHANGED <<saved, requestOf, gen, turns>>
  PROVE  (OneHome /\ ShownHome /\ GenHome)'
<1>1. saved \in [Sessions -> SUBSET Turns]
  BY DEF WaitInv, TypeOK
<1>2. OneHome'
  BY DEF OneHome
<1>3. active' = s /\ shown' = ts /\ failed' = {}
  BY DEF Shows
<1>4. ShownHome'
  BY <1>1, <1>3 DEF ShownHome, OneHome
<1>5. GenHome'
  BY DEF GenHome, IsGenerating
<1> QED
  BY <1>2, <1>4, <1>5
------------------------------------------------------------------------------
(* --- loads and the list --- *)

LEMMA LoadArrivesKeeps ==
  ASSUME WaitInv, ~Overlaps, NEW l \in loads, LoadArrives(l) \/ LoadFails(l),
         UNCHANGED <<world, split>>
  PROVE  WaitInv'
<1>1. /\ Current(l) /\ loads = {l} /\ loading /\ l \in Load
      /\ resume = "done" /\ creating = "no" /\ deleting.at \in {"no", "loading"}
      /\ dialog = 0 /\ ~IsGenerating
  BY DEF WaitInv, TypeOK, OneLoad, OneTask, Current
<1>2. /\ loads' = {} /\ UNCHANGED seq /\ loading' = FALSE
      /\ deleting' \in {deleting, NoDelete}
      /\ UNCHANGED <<server, requestOf, listed, resume, creating, dialog, gen, turns>>
  BY <1>1 DEF LoadArrives, LoadFails, LoadEnds, Clears
<1>3. \/ UNCHANGED <<page, refreshing>> /\ Failures
      \/ l.session \in exists /\ Shows(l.session, saved[l.session])
      \/ l.session \notin exists /\ Shows(0, {})
  BY <1>1 DEF LoadArrives, LoadFails
<1>4. l.session \in Sessions /\ saved[l.session] \in SUBSET Turns
  BY <1>1 DEF WaitInv, TypeOK, Load
<1>5. TypeOK'
  <2>1. active' \in Sess /\ shown' \in SUBSET Turns /\ failed' \in SUBSET Turns
    BY <1>3, <1>4 DEF WaitInv, TypeOK, Shows, Sess, page
  <2>2. deleting' \in Delete
    BY <1>2, NoTask DEF WaitInv, TypeOK
  <2>3. loads' \in SUBSET Load /\ loading' \in BOOLEAN /\ seq' = seq
    BY <1>2
  <2> QED
    BY <1>2, <2>1, <2>2, <2>3 DEF WaitInv, TypeOK, server
<1>6. Fresh'
  BY <1>1, <1>2, <1>3 DEF WaitInv, Fresh, IsGenerating, Shows, server, page
<1>7. OneLoad'
  BY <1>2 DEF OneLoad
<1>8. OneTask'
  BY <1>1, <1>2 DEF OneTask, IsGenerating, NoDelete
<1>9. ~split' => (OneHome /\ ShownHome /\ GenHome)'
  <2> SUFFICES ASSUME ~split PROVE (OneHome /\ ShownHome /\ GenHome)'
    OBVIOUS
  <2>1. CASE UNCHANGED page
    BY <1>2, <2>1, HomesKept DEF WaitInv, page, server
  <2>2. CASE ~UNCHANGED page
    <3>1. PICK s \in Sessions \cup {0}, ts \in SUBSET Turns :
            /\ Shows(s, ts)
            /\ s = 0 => ts = {}
            /\ s # 0 => ts \subseteq saved[s]
      BY <1>3, <1>4, <2>2 DEF Sessions, page
    <3>2. OneHome /\ UNCHANGED <<saved, requestOf, gen, turns>>
      BY <1>2 DEF WaitInv, server
    <3> QED
      BY <1>1, <3>1, <3>2, HomesShown
  <2> QED
    BY <2>1, <2>2
<1>10. ~Failures' => Alive'
  BY <1>1, <1>2, <1>3 DEF WaitInv, Alive, Failures, Shows, IsGenerating, NoDelete, server
<1> QED
  BY <1>5, <1>6, <1>7, <1>8, <1>9, <1>10 DEF WaitInv

LEMMA RefreshedKeeps ==
  ASSUME WaitInv, ~Overlaps, Refreshed, UNCHANGED <<world, split>>
  PROVE  WaitInv'
<1>1. /\ listed' \in {exists, listed}
      /\ UNCHANGED <<server, page, requestOf, load, tasks, gen, turns>>
  BY DEF Refreshed
<1>2. TypeOK'
  BY <1>1 DEF WaitInv, TypeOK, server, page, load, tasks
<1>3. Fresh' /\ OneLoad' /\ OneTask'
  BY <1>1 DEF WaitInv, Fresh, OneLoad, OneTask, IsGenerating, server, page, load, tasks
<1>4. ~split' => (OneHome /\ ShownHome /\ GenHome)'
  BY <1>1, HomesKept DEF WaitInv, page, server
<1>5. ~Failures' => Alive'
  BY <1>1 DEF WaitInv, Alive, Failures, server, page, tasks
<1> QED
  BY <1>2, <1>3, <1>4, <1>5 DEF WaitInv

\* A load is the only one.
LEMMA LoadBegins ==
  ASSUME WaitInv, loads = {}, NEW s \in Sessions, NEW n \in {0, 1}, LoadSession(s, n)
  PROVE  /\ OneLoad' /\ loads' # {} /\ seq' \in Nat /\ loads' \in SUBSET Load
         /\ loading' \in BOOLEAN
<1>1. seq \in Nat
  BY DEF WaitInv, TypeOK
<1>2. /\ seq' = seq + n + 1 /\ loads' = {[seq |-> seq + n + 1, session |-> s]}
      /\ loading' = TRUE
  BY DEF LoadSession
<1> QED
  BY <1>1, <1>2 DEF OneLoad, Load

LEMMA ResumesKeeps ==
  ASSUME WaitInv, ~Overlaps, Resumes, UNCHANGED <<world, split>>
  PROVE  WaitInv'
<1>1. /\ resume' = "done" /\ listed' \in {exists, listed}
      /\ UNCHANGED <<server, page, requestOf, creating, deleting, dialog, gen, turns>>
      /\ (\E s \in exists : LoadSession(s, 0)) \/ UNCHANGED load
  BY DEF Resumes
<1>2. /\ loads = {} /\ creating = "no" /\ deleting.at = "no" /\ dialog = 0
      /\ ~IsGenerating
  BY DEF WaitInv, OneTask, Resumes
<1>3. OneLoad' /\ seq' \in Nat /\ loads' \in SUBSET Load /\ loading' \in BOOLEAN
  <2>1. CASE UNCHANGED load
    BY <2>1 DEF WaitInv, TypeOK, OneLoad, load
  <2>2. CASE \E s \in exists : LoadSession(s, 0)
    <3>1. PICK s \in Sessions : LoadSession(s, 0)
      BY <2>2 DEF WaitInv, TypeOK
    <3> QED
      BY <1>2, <3>1, LoadBegins
  <2> QED
    BY <1>1, <2>1, <2>2
<1>4. TypeOK'
  BY <1>1, <1>3 DEF WaitInv, TypeOK, server, page
<1>5. Fresh'
  BY <1>1 DEF WaitInv, Fresh, IsGenerating, server, page
<1>6. OneTask'
  BY <1>1, <1>2 DEF OneTask, IsGenerating
<1>7. ~split' => (OneHome /\ ShownHome /\ GenHome)'
  BY <1>1, HomesKept DEF WaitInv, page, server
<1>8. ~Failures' => Alive'
  BY <1>1 DEF WaitInv, Alive, Failures, server, page
<1> QED
  BY <1>3, <1>4, <1>5, <1>6, <1>7, <1>8 DEF WaitInv
------------------------------------------------------------------------------
(* --- select, new chat, delete --- *)

LEMMA ServerKept ==
  ASSUME WaitInv, UNCHANGED <<server, page, requestOf, gen, turns, split>>
  PROVE  Fresh' /\ (~split' => (OneHome /\ ShownHome /\ GenHome)')
<1>1. Fresh'
  BY DEF WaitInv, Fresh, IsGenerating, server, page
<1> QED
  BY <1>1, HomesKept DEF WaitInv, server, page

\* The page shows a session that was not there before.
LEMMA CreatedIs ==
  ASSUME WaitInv, ~IsGenerating, Created, UNCHANGED <<requestOf, gen, turns, split>>
  PROVE  /\ made' \in Nat /\ exists' \in SUBSET Sessions /\ saved' = saved
         /\ active' \in exists' /\ active' \in Sess /\ shown' = {} /\ failed' = {}
         /\ Fresh' /\ (~split' => (OneHome /\ ShownHome /\ GenHome)')
<1>1. /\ made < MaxSessions /\ made' = made + 1 /\ exists' = exists \cup {made + 1}
      /\ saved' = saved /\ Shows(made + 1, {})
  BY DEF Created
<1>2. made \in Nat /\ made + 1 \in Sessions /\ exists \in SUBSET Sessions
  BY <1>1, BoundsAssumption DEF WaitInv, TypeOK, Sessions
<1>3. active' = made + 1 /\ shown' = {} /\ failed' = {}
  BY <1>1 DEF Shows
<1>4. Fresh'
  BY <1>1, <1>2, <1>3 DEF WaitInv, Fresh, IsGenerating, Sessions
<1>5. ~split' => (OneHome /\ ShownHome /\ GenHome)'
  <2>1. PICK s \in Sessions \cup {0}, ts \in SUBSET Turns : s = made + 1 /\ ts = {}
    BY <1>2
  <2> QED
    BY <1>1, <2>1, HomesShown DEF WaitInv
<1> QED
  BY <1>1, <1>2, <1>3, <1>4, <1>5 DEF Sess

\* A session loses its turns.
LEMMA RemovedIs ==
  ASSUME WaitInv, NEW s \in Sessions, Removed(s),
         UNCHANGED <<page, requestOf, gen, turns, split>>
  PROVE  /\ made' = made /\ exists' \in SUBSET Sessions /\ exists' = exists \ {s}
         /\ saved' \in [Sessions -> SUBSET Turns]
         /\ Fresh' /\ (~split' => (OneHome /\ ShownHome /\ GenHome)')
<1>1. made' = made /\ exists' = exists \ {s} /\ saved' = [saved EXCEPT ![s] = {}]
  BY DEF Removed
<1>2. saved \in [Sessions -> SUBSET Turns] /\ exists \in SUBSET Sessions
  BY DEF WaitInv, TypeOK
<1>3. saved' \in [Sessions -> SUBSET Turns] /\ \A r \in Sessions : saved'[r] \subseteq saved[r]
  BY <1>1, <1>2
<1>4. Fresh'
  BY <1>1, <1>3 DEF WaitInv, Fresh, IsGenerating, page
<1>5. ASSUME ~split
      PROVE  (OneHome /\ ShownHome /\ GenHome)'
  <2>1. OneHome /\ ShownHome /\ GenHome
    BY <1>5 DEF WaitInv
  <2>2. OneHome'
    BY <1>3, <2>1 DEF OneHome
  <2>3. ShownHome'
    BY <1>3, <2>1 DEF ShownHome, page
  <2>4. GenHome'
    BY <1>3, <2>1 DEF GenHome, Asked, IsGenerating, page
  <2> QED
    BY <2>2, <2>3, <2>4
<1> QED
  BY <1>1, <1>2, <1>3, <1>4, <1>5

LEMMA SelectKeeps ==
  ASSUME WaitInv, ~Overlaps, NEW s \in Sessions, Select(s), UNCHANGED <<world, split>>
  PROVE  WaitInv'
<1>1. /\ resume = "done" /\ creating = "no" /\ deleting.at = "no" /\ dialog = 0
      /\ ~IsGenerating /\ loads = {}
  BY UserWaits DEF Select
<1>2. /\ LoadSession(s, 0)
      /\ UNCHANGED <<server, page, requestOf, listed, refreshing, tasks, gen, turns>>
  BY DEF Select
<1>3. OneLoad' /\ seq' \in Nat /\ loads' \in SUBSET Load /\ loading' \in BOOLEAN
  BY <1>1, <1>2, LoadBegins
<1>4. TypeOK'
  BY <1>2, <1>3 DEF WaitInv, TypeOK, server, page, tasks
<1>5. Fresh' /\ (~split' => (OneHome /\ ShownHome /\ GenHome)')
  BY <1>2, ServerKept
<1>6. OneTask'
  BY <1>1, <1>2 DEF OneTask, IsGenerating, tasks
<1>7. ~Failures' => Alive'
  BY <1>2 DEF WaitInv, Alive, Failures, server, page, tasks
<1> QED
  BY <1>3, <1>4, <1>5, <1>6, <1>7 DEF WaitInv

LEMMA NewChatKeeps ==
  ASSUME WaitInv, ~Overlaps, NewChat, UNCHANGED <<world, split>>
  PROVE  WaitInv'
<1>1. /\ resume = "done" /\ creating = "no" /\ deleting.at = "no" /\ dialog = 0
      /\ ~IsGenerating /\ loads = {}
  BY UserWaits DEF NewChat
<1>2. /\ creating' = "asked"
      /\ UNCHANGED <<server, page, requestOf, listed, refreshing, load, resume,
                     deleting, dialog, gen, turns>>
  BY DEF NewChat
<1>3. TypeOK'
  BY <1>2 DEF WaitInv, TypeOK, server, page, load
<1>4. Fresh' /\ (~split' => (OneHome /\ ShownHome /\ GenHome)')
  BY <1>2, ServerKept
<1>5. OneLoad' /\ OneTask'
  BY <1>1, <1>2 DEF WaitInv, OneLoad, OneTask, IsGenerating, load
<1>6. ~Failures' => Alive'
  BY <1>2 DEF WaitInv, Alive, Failures, server, page
<1> QED
  BY <1>3, <1>4, <1>5, <1>6 DEF WaitInv

LEMMA NewChatGoesOnKeeps ==
  ASSUME WaitInv, ~Overlaps, NewChatGoesOn, UNCHANGED <<world, split>>
  PROVE  WaitInv'
<1>1. creating # "no"
  BY DEF NewChatGoesOn
<1>2. deleting.at = "no" /\ dialog = 0 /\ ~IsGenerating /\ resume = "done" /\ loads = {}
  BY <1>1 DEF WaitInv, TypeOK, OneTask
<1>3. /\ creating' \in {"no", "listing"} /\ listed' \in {listed, exists}
      /\ UNCHANGED <<requestOf, refreshing, load, resume, deleting, dialog, gen, turns>>
      /\ Created \/ UNCHANGED <<server, page>>
  BY DEF NewChatGoesOn
<1>4. /\ made' \in Nat /\ exists' \in SUBSET Sessions /\ saved' \in [Sessions -> SUBSET Turns]
      /\ active' \in Sess /\ shown' \in SUBSET Turns /\ failed' \in SUBSET Turns
      /\ Fresh' /\ (~split' => (OneHome /\ ShownHome /\ GenHome)')
      /\ active' \in exists' \/ UNCHANGED <<server, page>>
  <2>1. CASE Created
    <3>1. /\ made' \in Nat /\ exists' \in SUBSET Sessions /\ saved' = saved
          /\ active' \in exists' /\ active' \in Sess /\ shown' = {} /\ failed' = {}
          /\ Fresh' /\ (~split' => (OneHome /\ ShownHome /\ GenHome)')
      BY <1>2, <1>3, <2>1, CreatedIs
    <3> QED
      BY <3>1 DEF WaitInv, TypeOK
  <2>2. CASE UNCHANGED <<server, page>>
    <3>1. Fresh' /\ (~split' => (OneHome /\ ShownHome /\ GenHome)')
      BY <1>3, <2>2, ServerKept
    <3> QED
      BY <2>2, <3>1 DEF WaitInv, TypeOK, server, page
  <2> QED
    BY <1>3, <2>1, <2>2
<1>5. TypeOK'
  BY <1>3, <1>4 DEF WaitInv, TypeOK, load
<1>6. OneLoad' /\ OneTask'
  BY <1>2, <1>3 DEF WaitInv, OneLoad, OneTask, IsGenerating, load
<1>7. ~Failures' => Alive'
  BY <1>2, <1>3, <1>4 DEF WaitInv, Alive, Failures, IsGenerating, server, page
<1> QED
  BY <1>4, <1>5, <1>6, <1>7 DEF WaitInv

LEMMA AsksDeleteKeeps ==
  ASSUME WaitInv, ~Overlaps, NEW s \in Sessions, AsksDelete(s), UNCHANGED <<world, split>>
  PROVE  WaitInv'
<1>1. /\ resume = "done" /\ creating = "no" /\ deleting.at = "no" /\ dialog = 0
      /\ ~IsGenerating /\ loads = {}
  BY UserWaits DEF AsksDelete
<1>2. /\ dialog' = s
      /\ UNCHANGED <<server, page, requestOf, listed, refreshing, load, resume,
                     creating, deleting, gen, turns>>
  BY DEF AsksDelete
<1>3. TypeOK'
  BY <1>2 DEF WaitInv, TypeOK, Sess, server, page, load
<1>4. Fresh' /\ (~split' => (OneHome /\ ShownHome /\ GenHome)')
  BY <1>2, ServerKept
<1>5. OneLoad' /\ OneTask'
  BY <1>1, <1>2 DEF WaitInv, OneLoad, OneTask, IsGenerating, load
<1>6. ~Failures' => Alive'
  BY <1>2 DEF WaitInv, Alive, Failures, server, page
<1> QED
  BY <1>3, <1>4, <1>5, <1>6 DEF WaitInv

LEMMA ConfirmsKeeps ==
  ASSUME WaitInv, ~Overlaps, Confirms, UNCHANGED <<world, split>>
  PROVE  WaitInv'
<1>1. dialog # 0 /\ ~IsGenerating /\ deleting.at = "no" /\ resume = "done"
      /\ creating = "no" /\ loads = {}
  BY DEF WaitInv, TypeOK, OneTask, Confirms
<1>2. /\ dialog' = 0
      /\ UNCHANGED <<server, page, requestOf, listed, refreshing, load, resume,
                     creating, turns>>
  BY DEF Confirms
<1> DEFINE d == [at |-> "asked", session |-> dialog, wasActive |-> WasActive(dialog),
                 seq |-> 0]
<1>3. (deleting' = d /\ gen' = NoGen) \/ UNCHANGED <<deleting, gen>>
  BY DEF Confirms
<1>4. d \in Delete /\ d.at = "asked" /\ d.wasActive = (d.session = active)
  BY DEF WaitInv, TypeOK, Delete, Sess, WasActive
<1> HIDE DEF d
<1>5. gen' \in Gen /\ deleting' \in Delete /\ ~IsGenerating'
  BY <1>1, <1>3, <1>4, NoTask DEF WaitInv, TypeOK, IsGenerating
<1>6. TypeOK'
  BY <1>2, <1>5 DEF WaitInv, TypeOK, Sess, server, page, load
<1>7. Fresh'
  BY <1>2, <1>5 DEF WaitInv, Fresh, IsGenerating, server, page
<1>8. ASSUME ~split
      PROVE  (OneHome /\ ShownHome /\ GenHome)'
  <2>1. OneHome' /\ ShownHome'
    BY <1>2, <1>8 DEF WaitInv, OneHome, ShownHome, server, page
  <2>2. GenHome'
    BY <1>5 DEF GenHome, IsGenerating
  <2> QED
    BY <2>1, <2>2
<1>9. OneLoad' /\ OneTask'
  BY <1>1, <1>2, <1>5 DEF WaitInv, OneLoad, OneTask, load
<1>10. ~Failures' => Alive'
  BY <1>1, <1>2, <1>3, <1>4, <1>5 DEF WaitInv, Alive, Failures, IsGenerating, server, page
<1> QED
  BY <1>6, <1>7, <1>8, <1>9, <1>10 DEF WaitInv

LEMMA DeletedKeeps ==
  ASSUME WaitInv, ~Overlaps, Deleted, UNCHANGED <<world, split>>
  PROVE  WaitInv'
<1>1. deleting.at = "asked" /\ deleting \in Delete /\ exists \in SUBSET Sessions
  BY DEF Deleted, WaitInv, TypeOK
<1>2. /\ resume = "done" /\ loads = {} /\ creating = "no" /\ dialog = 0 /\ ~IsGenerating
  BY <1>1 DEF WaitInv, TypeOK, OneTask
<1>3. UNCHANGED <<page, requestOf, listed, refreshing, load, resume, creating,
                  dialog, gen, turns>>
  BY DEF Deleted
<1>4. CASE /\ deleting.session \in exists /\ Removed(deleting.session)
           /\ deleting' = [deleting EXCEPT !.at = "listing"]
  <2>1. /\ deleting' \in Delete /\ deleting'.at = "listing"
        /\ deleting'.session = deleting.session /\ deleting'.wasActive = deleting.wasActive
    BY <1>1, <1>4 DEF Delete
  <2>2. PICK s \in Sessions : s = deleting.session /\ Removed(s)
    BY <1>1, <1>4
  <2>3. /\ made' = made /\ exists' \in SUBSET Sessions /\ exists' = exists \ {s}
        /\ saved' \in [Sessions -> SUBSET Turns]
        /\ Fresh' /\ (~split' => (OneHome /\ ShownHome /\ GenHome)')
    BY <1>3, <2>2, RemovedIs
  <2>4. TypeOK'
    BY <1>3, <2>1, <2>3 DEF WaitInv, TypeOK, page, load
  <2>5. OneLoad' /\ OneTask'
    BY <1>2, <1>3, <2>1 DEF WaitInv, OneLoad, OneTask, IsGenerating, load
  <2>6. ~Failures' => Alive'
    BY <1>1, <1>2, <1>3, <2>1, <2>2, <2>3 DEF WaitInv, Alive, Failures, IsGenerating, page
  <2> QED
    BY <2>3, <2>4, <2>5, <2>6 DEF WaitInv
<1>5. CASE /\ deleting.session \notin exists \/ Failures
           /\ deleting' = NoDelete /\ UNCHANGED server
  <2>1. TypeOK'
    BY <1>3, <1>5, NoTask DEF WaitInv, TypeOK, server, page, load
  <2>2. Fresh' /\ (~split' => (OneHome /\ ShownHome /\ GenHome)')
    BY <1>3, <1>5, ServerKept
  <2>3. OneLoad' /\ OneTask'
    BY <1>2, <1>3, <1>5, NoTask DEF WaitInv, OneLoad, OneTask, IsGenerating, load
  <2>4. ~Failures' => Alive'
    BY <1>1, <1>3, <1>5, NoTask DEF WaitInv, Alive, Failures, server, page
  <2> QED
    BY <2>1, <2>2, <2>3, <2>4 DEF WaitInv
<1> QED
  BY <1>4, <1>5 DEF Deleted

LEMMA DeletedListedKeeps ==
  ASSUME WaitInv, ~Overlaps, DeletedListed, UNCHANGED <<world, split>>
  PROVE  WaitInv'
<1>1. deleting.at = "listing" /\ deleting \in Delete /\ seq \in Nat
      /\ exists \in SUBSET Sessions
  BY DEF DeletedListed, WaitInv, TypeOK
<1>2. /\ resume = "done" /\ loads = {} /\ creating = "no" /\ dialog = 0 /\ ~IsGenerating
      /\ loading = FALSE
  BY <1>1 DEF WaitInv, TypeOK, OneTask, OneLoad
<1>3. UNCHANGED <<server, page, requestOf, refreshing, resume, creating, dialog, gen, turns>>
  BY DEF DeletedListed
<1>4. PICK list \in {exists} \cup (IF Failures THEN {{}} ELSE {}) :
        /\ listed' = IF list = exists THEN exists ELSE listed
        /\ \/ ~deleting.wasActive /\ deleting' = NoDelete /\ UNCHANGED load
           \/ /\ deleting.wasActive /\ list # {}
              /\ \E s \in list : LoadSession(s, 1)
              /\ deleting' = [deleting EXCEPT !.at = "loading", !.seq = seq + 2]
           \/ /\ deleting.wasActive /\ list = {}
              /\ deleting' = [deleting EXCEPT !.at = "creating"]
              /\ seq' = seq + 1 /\ UNCHANGED <<loads, loading>>
  BY DEF DeletedListed
<1>5. /\ deleting' \in Delete /\ listed' \in {exists, listed}
      /\ OneLoad' /\ seq' \in Nat /\ loads' \in SUBSET Load /\ loading' \in BOOLEAN
      /\ \/ ~deleting.wasActive /\ deleting'.at = "no" /\ loads' = {}
         \/ deleting'.wasActive /\ deleting'.at = "loading"
         \/ deleting'.wasActive /\ deleting'.at = "creating" /\ loads' = {}
  <2>1. CASE ~deleting.wasActive /\ deleting' = NoDelete /\ UNCHANGED load
    BY <1>1, <1>2, <1>4, <2>1, NoTask DEF WaitInv, TypeOK, OneLoad, load
  <2>2. CASE /\ deleting.wasActive /\ list # {}
             /\ \E s \in list : LoadSession(s, 1)
             /\ deleting' = [deleting EXCEPT !.at = "loading", !.seq = seq + 2]
    <3>1. PICK s \in Sessions : LoadSession(s, 1)
      BY <1>1, <2>2
    <3>2. OneLoad' /\ seq' \in Nat /\ loads' \in SUBSET Load /\ loading' \in BOOLEAN
      BY <1>2, <3>1, LoadBegins
    <3>3. deleting' \in Delete /\ deleting'.wasActive /\ deleting'.at = "loading"
      <4>1. PICK n \in Nat : n = seq + 2
        BY <1>1
      <4>2. deleting' = [deleting EXCEPT !.at = "loading", !.seq = n]
        BY <2>2, <4>1
      <4> QED
        BY <1>1, <2>2, <4>2 DEF Delete
    <3> QED
      BY <1>4, <3>2, <3>3
  <2>3. CASE /\ deleting.wasActive /\ list = {}
             /\ deleting' = [deleting EXCEPT !.at = "creating"]
             /\ seq' = seq + 1 /\ UNCHANGED <<loads, loading>>
    <3>1. deleting' \in Delete /\ deleting'.wasActive /\ deleting'.at = "creating"
      BY <1>1, <2>3 DEF Delete
    <3>2. loads' = {} /\ loading' = FALSE /\ seq' \in Nat
      BY <1>1, <1>2, <2>3
    <3> QED
      BY <1>4, <3>1, <3>2 DEF OneLoad
  <2> QED
    BY <1>4, <2>1, <2>2, <2>3
<1>6. TypeOK'
  BY <1>3, <1>5 DEF WaitInv, TypeOK, server, page
<1>7. Fresh' /\ (~split' => (OneHome /\ ShownHome /\ GenHome)')
  BY <1>3, ServerKept
<1>8. OneTask'
  BY <1>2, <1>3, <1>5 DEF OneTask, IsGenerating
<1>9. ~Failures' => Alive'
  BY <1>1, <1>2, <1>3, <1>5 DEF WaitInv, Alive, Failures, IsGenerating, server, page
<1> QED
  BY <1>5, <1>6, <1>7, <1>8, <1>9 DEF WaitInv

LEMMA DeletedReplacedKeeps ==
  ASSUME WaitInv, ~Overlaps, DeletedReplaced, UNCHANGED <<world, split>>
  PROVE  WaitInv'
<1>1. deleting.at \in {"creating", "relisting"} /\ deleting \in Delete
  BY DEF DeletedReplaced, WaitInv, TypeOK
<1>2. /\ resume = "done" /\ loads = {} /\ creating = "no" /\ dialog = 0 /\ ~IsGenerating
  BY <1>1 DEF WaitInv, TypeOK, OneTask
<1>3. /\ UNCHANGED <<requestOf, refreshing, load, resume, creating, dialog, gen, turns>>
      /\ listed' \in {listed, exists}
      /\ \/ Created /\ deleting' = [deleting EXCEPT !.at = "relisting"]
         \/ /\ deleting.at = "relisting" \/ Failures
            /\ deleting' = NoDelete /\ UNCHANGED <<server, page>>
  BY DEF DeletedReplaced
<1>4. CASE Created /\ deleting' = [deleting EXCEPT !.at = "relisting"]
  <2>1. /\ made' \in Nat /\ exists' \in SUBSET Sessions /\ saved' = saved
        /\ active' \in exists' /\ active' \in Sess /\ shown' = {} /\ failed' = {}
        /\ Fresh' /\ (~split' => (OneHome /\ ShownHome /\ GenHome)')
    BY <1>2, <1>3, <1>4, CreatedIs
  <2>2. deleting' \in Delete /\ deleting'.at = "relisting"
    BY <1>1, <1>4 DEF Delete
  <2>3. TypeOK'
    BY <1>3, <2>1, <2>2 DEF WaitInv, TypeOK, load
  <2>4. OneLoad' /\ OneTask'
    BY <1>2, <1>3, <2>2 DEF WaitInv, OneLoad, OneTask, IsGenerating, load
  <2>5. Alive'
    BY <1>2, <1>3, <2>1, <2>2 DEF Alive, IsGenerating
  <2> QED
    BY <2>1, <2>3, <2>4, <2>5 DEF WaitInv
<1>5. CASE /\ deleting.at = "relisting" \/ Failures
           /\ deleting' = NoDelete /\ UNCHANGED <<server, page>>
  <2>1. TypeOK'
    BY <1>3, <1>5, NoTask DEF WaitInv, TypeOK, server, page, load
  <2>2. Fresh' /\ (~split' => (OneHome /\ ShownHome /\ GenHome)')
    BY <1>3, <1>5, ServerKept
  <2>3. OneLoad' /\ OneTask'
    BY <1>2, <1>3, <1>5, NoTask DEF WaitInv, OneLoad, OneTask, IsGenerating, load
  <2>4. ~Failures' => Alive'
    BY <1>3, <1>5, NoTask DEF WaitInv, Alive, Failures, server, page
  <2> QED
    BY <2>1, <2>2, <2>3, <2>4 DEF WaitInv
<1> QED
  BY <1>3, <1>4, <1>5

LEMMA DeletedElsewhereKeeps ==
  ASSUME WaitInv, ~Overlaps, NEW s \in exists, DeletedElsewhere(s), UNCHANGED <<world, split>>
  PROVE  WaitInv'
<1>1. /\ Elsewhere /\ Removed(s) /\ s \in Sessions
      /\ UNCHANGED <<page, requestOf, listed, refreshing, load, tasks, gen, turns>>
  BY DEF DeletedElsewhere, WaitInv, TypeOK
<1>2. /\ made' = made /\ exists' \in SUBSET Sessions /\ exists' = exists \ {s}
      /\ saved' \in [Sessions -> SUBSET Turns]
      /\ Fresh' /\ (~split' => (OneHome /\ ShownHome /\ GenHome)')
  BY <1>1, RemovedIs
<1>3. TypeOK'
  BY <1>1, <1>2 DEF WaitInv, TypeOK, page, load, tasks
<1>4. OneLoad' /\ OneTask'
  BY <1>1 DEF WaitInv, OneLoad, OneTask, IsGenerating, load, tasks
<1>5. Failures'
  BY <1>1 DEF Elsewhere, Failures
<1> QED
  BY <1>2, <1>3, <1>4, <1>5 DEF WaitInv
------------------------------------------------------------------------------
(* --- the answer --- *)

\* No task but the answer runs while one is generated.
LEMMA OnlyAnswer ==
  ASSUME WaitInv, IsGenerating
  PROVE  /\ resume = "done" /\ creating = "no" /\ deleting.at = "no" /\ dialog = 0
         /\ loads = {}
BY DEF WaitInv, TypeOK, OneTask

LEMMA AsksIs ==
  ASSUME WaitInv, NEW t \in Turns, NEW s \in Sess, Asks(t, s)
  PROVE  /\ gen' \in Gen /\ gen'.at = "sent" /\ gen'.turn = t /\ gen'.session = s
         /\ gen'.seen = active
BY DEF Asks, WaitInv, TypeOK, Gen, Sess

LEMMA SendKeeps ==
  ASSUME WaitInv, ~Overlaps, Send, UNCHANGED <<world, split>>
  PROVE  WaitInv'
<1>1. /\ resume = "done" /\ creating = "no" /\ deleting.at = "no" /\ dialog = 0
      /\ ~IsGenerating /\ loads = {}
  BY UserWaits DEF Send
<1>2. PICK t \in Turns : t = turns + 1
  BY BoundsAssumption DEF Send, WaitInv, TypeOK, Turns
<1>3. /\ turns' = t /\ shown' = shown \cup {t} /\ Asks(t, active)
      /\ UNCHANGED <<server, active, failed, requestOf, listed, refreshing, load, tasks>>
  BY <1>2 DEF Send
<1>4. turns \in Nat /\ active \in Sess
  BY DEF WaitInv, TypeOK
<1>5. /\ gen' \in Gen /\ gen'.at = "sent" /\ gen'.turn = t /\ gen'.session = active
      /\ gen'.seen = active
  BY <1>3, <1>4, AsksIs
<1>6. /\ requestOf[t] = None /\ t <= turns' /\ t > turns
      /\ \A s \in Sessions : t \notin saved[s]
  BY <1>2, <1>3, <1>4 DEF WaitInv, Fresh
<1>7. TypeOK'
  <2>1. shown' \in SUBSET Turns /\ turns' \in Nat
    BY <1>2, <1>3, <1>4 DEF WaitInv, TypeOK
  <2> QED
    BY <1>3, <1>5, <2>1 DEF WaitInv, TypeOK, server, load, tasks
<1>8. Fresh'
  <2>1. /\ \A u \in Turns : u > turns' => u > turns
        /\ gen'.turn \in Turns /\ gen'.turn <= turns'
    BY <1>2, <1>3, <1>4, <1>5 DEF Turns
  <2> QED
    BY <1>3, <1>5, <2>1 DEF WaitInv, Fresh, server
<1>9. ASSUME ~split
      PROVE  (OneHome /\ ShownHome /\ GenHome)'
  <2>1. OneHome' /\ ShownHome'
    BY <1>3, <1>6, <1>9 DEF WaitInv, OneHome, ShownHome, server
  <2>2. GenHome'
    BY <1>3, <1>5, <1>6, <1>9 DEF GenHome, Asked, IsGenerating, server
  <2> QED
    BY <2>1, <2>2
<1>10. OneLoad' /\ OneTask'
  BY <1>1, <1>3 DEF WaitInv, OneLoad, OneTask, load, tasks
<1>11. ~Failures' => Alive'
  BY <1>3, <1>5 DEF WaitInv, Alive, Failures, server, tasks
<1> QED
  BY <1>7, <1>8, <1>9, <1>10, <1>11 DEF WaitInv

LEMMA RetryKeeps ==
  ASSUME WaitInv, ~Overlaps, NEW t \in Turns, Retry(t), world' = world,
         split' = (split \/ requestOf[t] = 0)
  PROVE  WaitInv'
<1>1. /\ resume = "done" /\ creating = "no" /\ deleting.at = "no" /\ dialog = 0
      /\ ~IsGenerating /\ loads = {}
  BY UserWaits DEF Retry
<1>2. /\ t \in failed /\ failed' = failed \ {t} /\ Asks(t, requestOf[t])
      /\ UNCHANGED <<server, active, shown, requestOf, listed, refreshing, load,
                     tasks, turns>>
  BY DEF Retry
<1>3. /\ split \in BOOLEAN /\ split' \in BOOLEAN
      /\ requestOf[t] \in Sess /\ t <= turns /\ turns \in Nat /\ t \in Nat
  BY <1>2 DEF WaitInv, TypeOK, Fresh, Turns
<1>4. /\ gen' \in Gen /\ gen'.at = "sent" /\ gen'.turn = t /\ gen'.session = requestOf[t]
      /\ gen'.seen = active
  BY <1>2, <1>3, AsksIs
<1>5. TypeOK'
  BY <1>2, <1>3, <1>4 DEF WaitInv, TypeOK, server, load, tasks
<1>6. Fresh'
  BY <1>2, <1>3, <1>4 DEF WaitInv, Fresh, server
<1>7. ASSUME ~split'
      PROVE  (OneHome /\ ShownHome /\ GenHome)'
  <2>1. OneHome /\ ShownHome /\ requestOf[t] # 0
    BY <1>3, <1>7 DEF WaitInv
  <2>2. requestOf[t] = active /\ active # 0
    BY <1>2, <2>1 DEF ShownHome
  <2>3. OneHome' /\ ShownHome'
    BY <1>2, <2>1 DEF OneHome, ShownHome, server
  <2>4. requestOf[t] # None
    BY <1>2 DEF WaitInv, Fresh
  <2>5. GenHome'
    BY <1>2, <1>4, <2>2, <2>4 DEF GenHome, Asked, server
  <2> QED
    BY <2>3, <2>5
<1>8. OneLoad' /\ OneTask'
  BY <1>1, <1>2 DEF WaitInv, OneLoad, OneTask, load, tasks
<1>9. ~Failures' => Alive'
  BY <1>2, <1>4 DEF WaitInv, Alive, Failures, server, tasks
<1> QED
  BY <1>5, <1>6, <1>7, <1>8, <1>9 DEF WaitInv

LEMMA AcceptedKeeps ==
  ASSUME WaitInv, ~Overlaps, Accepted, UNCHANGED <<world, split>>
  PROVE  WaitInv'
<1>1. /\ gen.at = "sent" /\ IsGenerating /\ gen \in Gen /\ gen.turn \in Turns
      /\ saved \in [Sessions -> SUBSET Turns] /\ exists \in SUBSET Sessions /\ made \in Nat
  BY DEF Accepted, IsGenerating, WaitInv, TypeOK, Fresh
<1>2. UNCHANGED <<page, requestOf, listed, refreshing, load, tasks, turns>>
  BY DEF Accepted
<1>3. PICK s \in Sessions :
        /\ gen' = [gen EXCEPT !.at = "accepted", !.got = s]
        /\ saved' = [saved EXCEPT ![s] = @ \cup {gen.turn}]
        /\ exists' = exists \cup {s} /\ made' \in Nat /\ made' >= made /\ s <= made'
        /\ gen.session \in {0, s}
  <2>1. CASE /\ gen.session = 0 /\ made < MaxSessions
             /\ made' = made + 1 /\ exists' = exists \cup {made + 1}
             /\ saved' = [saved EXCEPT ![made + 1] = {gen.turn}]
             /\ gen' = [gen EXCEPT !.at = "accepted", !.got = made + 1]
    <3>1. PICK s \in Sessions : s = made + 1
      BY <1>1, <2>1, BoundsAssumption DEF Sessions
    <3>2. saved[s] = {}
      BY <1>1, <3>1 DEF WaitInv, Fresh
    <3>3. saved' = [saved EXCEPT ![s] = @ \cup {gen.turn}]
      BY <2>1, <3>1, <3>2
    <3>4. gen' = [gen EXCEPT !.at = "accepted", !.got = s]
      BY <2>1, <3>1
    <3>5. /\ exists' = exists \cup {s} /\ made' \in Nat /\ made' >= made /\ s <= made'
          /\ gen.session \in {0, s}
      BY <1>1, <2>1, <3>1
    <3> QED
      BY <3>3, <3>4, <3>5
  <2>2. CASE /\ gen.session \in exists /\ UNCHANGED <<made, exists>>
             /\ saved' = [saved EXCEPT ![gen.session] = @ \cup {gen.turn}]
             /\ gen' = [gen EXCEPT !.at = "accepted", !.got = gen.session]
    <3>1. PICK s \in Sessions : s = gen.session
      BY <1>1, <2>2
    <3>2. s <= made /\ s \in exists
      BY <2>2, <3>1 DEF WaitInv, Fresh
    <3>3. /\ gen' = [gen EXCEPT !.at = "accepted", !.got = s]
          /\ saved' = [saved EXCEPT ![s] = @ \cup {gen.turn}]
      BY <2>2, <3>1
    <3>4. /\ exists' = exists \cup {s} /\ made' \in Nat /\ made' >= made /\ s <= made'
          /\ gen.session \in {0, s}
      BY <1>1, <2>2, <3>1, <3>2
    <3> QED
      BY <3>3, <3>4
  <2> QED
    BY <2>1, <2>2 DEF Accepted
<1>4. /\ gen' \in Gen /\ gen'.at = "accepted" /\ gen'.got = s /\ gen'.turn = gen.turn
      /\ gen'.session = gen.session /\ gen'.seen = gen.seen
  BY <1>1, <1>3 DEF Gen, Sess
<1>5. /\ saved' \in [Sessions -> SUBSET Turns] /\ saved'[s] = saved[s] \cup {gen.turn}
      /\ \A r \in Sessions : r # s => saved'[r] = saved[r]
  BY <1>1, <1>3
<1>6. TypeOK'
  BY <1>1, <1>2, <1>3, <1>4, <1>5 DEF WaitInv, TypeOK, page, load, tasks
<1>7. Fresh'
  <2>1. s \in Nat /\ gen.turn <= turns /\ gen.turn \in Nat /\ turns \in Nat
    BY <1>1 DEF WaitInv, TypeOK, Fresh, Sessions, Turns
  <2>2. \A r \in exists' : r <= made'
    BY <1>1, <1>3, <2>1 DEF WaitInv, Fresh, Sessions
  <2>3. \A r \in Sessions : r > made' => saved'[r] = {}
    BY <1>1, <1>3, <1>5, <2>1 DEF WaitInv, Fresh, Sessions
  <2>4. \A t \in Turns : t > turns' => /\ requestOf'[t] = None
                                       /\ \A r \in Sessions : t \notin saved'[r]
    BY <1>2, <1>5, <2>1 DEF WaitInv, Fresh, Turns
  <2>5. \A t \in failed' : requestOf'[t] # None
    BY <1>2 DEF WaitInv, Fresh, page
  <2> QED
    BY <1>1, <1>2, <1>4, <2>1, <2>2, <2>3, <2>4, <2>5 DEF Fresh
<1>8. ASSUME ~split'
      PROVE  (OneHome /\ ShownHome /\ GenHome)'
  <2>1. OneHome /\ ShownHome /\ GenHome
    BY <1>8 DEF WaitInv
  <2>2. /\ gen.session = active /\ gen.seen = active
        /\ requestOf[gen.turn] # None => requestOf[gen.turn] = active /\ active # 0
        /\ requestOf[gen.turn] = None => \A r \in Sessions : gen.turn \notin saved[r]
    BY <1>1, <2>1 DEF GenHome, Asked
  <2>3. active # 0 => s = active
    BY <1>3, <2>2
  <2>4. \A r \in Sessions : gen.turn \in saved[r] => r = s
    BY <1>1, <2>1, <2>2, <2>3 DEF OneHome
  <2>5. requestOf[gen.turn] \in {None, s}
    BY <2>2, <2>3
  <2>6. OneHome'
    BY <1>2, <1>5, <2>1, <2>4, <2>5 DEF OneHome
  <2>7. ShownHome'
    BY <1>2, <1>5, <2>1, <2>2, <2>3, <2>4 DEF ShownHome, page
  <2>8. s # 0 /\ \A r \in Sessions : gen.turn \in saved'[r] => r = s
    BY <1>5, <2>4 DEF Sessions
  <2>9. GenHome'
    BY <1>2, <1>3, <1>4, <2>2, <2>8 DEF GenHome, Asked, page
  <2> QED
    BY <2>6, <2>7, <2>9
<1>9. OneLoad' /\ OneTask'
  BY <1>1, <1>2, OnlyAnswer DEF OneLoad, OneTask, WaitInv, load, tasks
<1>10. ~Failures' => Alive'
  BY <1>1, <1>2, <1>3, <1>4, OnlyAnswer DEF WaitInv, Alive, Failures, page, tasks
<1> QED
  BY <1>6, <1>7, <1>8, <1>9, <1>10 DEF WaitInv

LEMMA StartedKeeps ==
  ASSUME WaitInv, ~Overlaps, Started, UNCHANGED <<world, split>>
  PROVE  WaitInv'
<1>1. /\ gen.at = "accepted" /\ IsGenerating /\ gen \in Gen /\ gen.turn \in Turns
      /\ requestOf \in [Turns -> Sess \cup {None}]
  BY DEF Started, IsGenerating, WaitInv, TypeOK, Fresh
<1>2. /\ gen' = [gen EXCEPT !.at = "open"]
      /\ active' = IF gen.got # gen.seen THEN gen.got ELSE active
      /\ shown' = shown \cup {gen.turn}
      /\ requestOf' = [requestOf EXCEPT ![gen.turn] = gen.session]
      /\ UNCHANGED <<server, failed, listed, refreshing, load, tasks, turns>>
  BY DEF Started
<1>3. gen' \in Gen /\ gen'.at = "open" /\ gen'.turn = gen.turn
  BY <1>1, <1>2 DEF Gen
<1>4. /\ requestOf' \in [Turns -> Sess \cup {None}] /\ requestOf'[gen.turn] = gen.session
      /\ gen.session \in Sess /\ gen.got \in Sess /\ gen.session # None
      /\ \A t \in Turns : t # gen.turn => requestOf'[t] = requestOf[t]
  BY <1>1, <1>2 DEF Gen, Sess, Sessions, None
<1>5. TypeOK'
  BY <1>1, <1>2, <1>3, <1>4 DEF WaitInv, TypeOK, server, load, tasks
<1>6. Fresh'
  <2>1. gen.turn <= turns /\ gen.turn \in Nat /\ turns \in Nat
    BY <1>1 DEF WaitInv, TypeOK, Fresh, Turns
  <2>2. \A t \in Turns : t > turns' => /\ requestOf'[t] = None
                                       /\ \A r \in Sessions : t \notin saved'[r]
    BY <1>2, <1>4, <2>1 DEF WaitInv, Fresh, Turns, server
  <2>3. \A t \in failed' : requestOf'[t] # None
    BY <1>2, <1>4 DEF WaitInv, TypeOK, Fresh
  <2> QED
    BY <1>1, <1>2, <1>3, <1>4, <2>1, <2>2, <2>3 DEF WaitInv, Fresh, server
<1>7. ASSUME ~split'
      PROVE  (OneHome /\ ShownHome /\ GenHome)'
  <2>1. OneHome /\ ShownHome /\ GenHome
    BY <1>7 DEF WaitInv
  <2>2. /\ gen.session = active /\ gen.seen = active /\ gen.got # 0
        /\ requestOf[gen.turn] # None => requestOf[gen.turn] = active /\ active # 0
        /\ active \in {0, gen.got}
        /\ \A r \in Sessions : gen.turn \in saved[r] => r = gen.got
    BY <1>1, <2>1 DEF GenHome, Asked
  <2>3. active' = gen.got
    BY <1>2, <2>2
  <2>4. OneHome'
    BY <1>1, <1>2, <1>4, <2>1, <2>2 DEF OneHome, server
  <2>5. ShownHome'
    <3>1. ASSUME NEW t \in shown', requestOf'[t] # None
          PROVE  active' # 0 /\ \A r \in Sessions : t \in saved'[r] => r = active'
      <4>1. CASE t = gen.turn
        BY <1>2, <2>2, <2>3, <4>1 DEF server
      <4>2. CASE t # gen.turn
        <5>1. t \in shown /\ t \in Turns /\ requestOf[t] # None
          BY <1>2, <1>4, <3>1, <4>2 DEF WaitInv, TypeOK
        <5>2. active # 0 /\ \A r \in Sessions : t \in saved[r] => r = active
          BY <2>1, <5>1 DEF ShownHome
        <5> QED
          BY <1>2, <2>2, <2>3, <5>2 DEF server
      <4> QED
        BY <4>1, <4>2
    <3>2. ASSUME NEW t \in failed'
          PROVE  active' # 0 /\ requestOf'[t] \in {0, active'}
      <4>1. t \in failed /\ t \in Turns
        BY <1>2 DEF WaitInv, TypeOK
      <4>2. active # 0 /\ requestOf[t] \in {0, active}
        BY <2>1, <4>1 DEF ShownHome
      <4> QED
        BY <1>4, <2>2, <2>3, <4>1, <4>2
    <3> QED
      BY <3>1, <3>2 DEF ShownHome
  <2>6. GenHome'
    BY <1>3, <1>4, <2>2, <2>3 DEF GenHome
  <2> QED
    BY <2>4, <2>5, <2>6
<1>8. OneLoad' /\ OneTask'
  BY <1>1, <1>2, OnlyAnswer DEF OneLoad, OneTask, WaitInv, load, tasks
<1>9. ~Failures' => Alive'
  BY <1>1, <1>2, <1>3, OnlyAnswer DEF WaitInv, Alive, Failures, server, tasks
<1> QED
  BY <1>5, <1>6, <1>7, <1>8, <1>9 DEF WaitInv

\* The request is over, and its bubble may offer Retry.
LEMMA GenEnds ==
  ASSUME WaitInv, ~Overlaps, IsGenerating, gen' = NoGen,
         \/ failed' = failed
         \/ gen.at = "open" /\ failed' = failed \cup {gen.turn},
         UNCHANGED <<server, active, shown, requestOf, listed, load, tasks, turns, world, split>>
  PROVE  WaitInv'
<1>1. ~IsGenerating' /\ gen' \in Gen /\ gen'.at = "none"
  BY NoTask DEF IsGenerating
<1>2. gen.turn \in Turns
  BY DEF WaitInv, Fresh
<1>3. TypeOK'
  BY <1>1, <1>2 DEF WaitInv, TypeOK, server, load, tasks
<1>4. Fresh'
  BY <1>1 DEF WaitInv, Fresh, server
<1>5. ASSUME ~split'
      PROVE  (OneHome /\ ShownHome /\ GenHome)'
  <2>1. OneHome /\ ShownHome /\ GenHome
    BY <1>5 DEF WaitInv
  <2>2. OneHome'
    BY <2>1 DEF OneHome, server
  <2>3. ShownHome'
    BY <2>1 DEF ShownHome, GenHome, server
  <2>4. GenHome'
    BY <1>1 DEF GenHome
  <2> QED
    BY <2>2, <2>3, <2>4
<1>6. OneLoad' /\ OneTask'
  BY <1>1, OnlyAnswer DEF OneLoad, OneTask, WaitInv, load, tasks
<1>7. ~Failures' => Alive'
  BY <1>1 DEF WaitInv, Alive, Failures, server, tasks
<1> QED
  BY <1>3, <1>4, <1>5, <1>6, <1>7 DEF WaitInv

LEMMA AnswerEndsKeeps ==
  ASSUME WaitInv, ~Overlaps, Ended \/ Broken \/ Stop, UNCHANGED <<world, split>>
  PROVE  WaitInv'
<1>1. IsGenerating /\ gen' = NoGen
  BY DEF Ended, Broken, Stop, IsGenerating
<1>2. UNCHANGED <<server, active, shown, requestOf, listed, load, tasks, turns>>
  BY DEF Ended, Broken, Stop, page
<1>3. \/ failed' = failed
      \/ gen.at = "open" /\ failed' = failed \cup {gen.turn}
  BY DEF Ended, Broken, Stop, page
<1> QED
  BY <1>1, <1>2, <1>3, GenEnds
------------------------------------------------------------------------------
(* The invariant, and what follows from it.                                *)

LEMMA InitGivesInv ==
  Init => SwitchInv
<1> SUFFICES ASSUME Init PROVE WaitInv
  BY DEF SwitchInv
<1>1. /\ 0 \in Sess /\ None \notin Sess /\ Initial \in Nat
      /\ 1 .. Initial \in SUBSET Sessions
  BY BoundsAssumption DEF Sess, None, Sessions
<1>2. TypeOK
  BY <1>1, NoTask DEF Init, TypeOK
<1>3. Fresh
  BY <1>1, NoTask DEF Init, Fresh, IsGenerating
<1>4. OneLoad /\ OneTask
  BY NoTask DEF Init, OneLoad, OneTask, IsGenerating
<1>5. OneHome /\ ShownHome /\ GenHome
  BY NoTask DEF Init, OneHome, ShownHome, GenHome, IsGenerating
<1>6. Alive
  BY NoTask DEF Init, Alive
<1> QED
  BY <1>2, <1>3, <1>4, <1>5, <1>6 DEF WaitInv

LEMMA NextKeepsInv ==
  SwitchInv /\ [Next]_vars => SwitchInv'
<1> SUFFICES ASSUME SwitchInv, [Next]_vars, ~Overlaps' PROVE WaitInv'
  BY DEF SwitchInv
<1>1. world' = world
  BY DEF Next, vars
<1>2. ~Overlaps /\ WaitInv
  BY <1>1 DEF SwitchInv, Overlaps
<1>3. CASE Responses /\ UNCHANGED <<world, split>>
  <2>1. CASE \E l \in loads : LoadArrives(l) \/ LoadFails(l)
    BY <1>2, <1>3, <2>1, LoadArrivesKeeps
  <2>2. CASE Refreshed \/ Resumes \/ NewChatGoesOn
    BY <1>2, <1>3, <2>2, RefreshedKeeps, ResumesKeeps, NewChatGoesOnKeeps
  <2>3. CASE Deleted \/ DeletedListed \/ DeletedReplaced
    BY <1>2, <1>3, <2>3, DeletedKeeps, DeletedListedKeeps, DeletedReplacedKeeps
  <2>4. CASE Accepted \/ Started
    BY <1>2, <1>3, <2>4, AcceptedKeeps, StartedKeeps
  <2>5. CASE Ended \/ Broken
    BY <1>2, <1>3, <2>5, AnswerEndsKeeps
  <2> QED
    BY <1>3, <2>1, <2>2, <2>3, <2>4, <2>5 DEF Responses
<1>4. CASE User /\ UNCHANGED <<world, split>>
  <2>1. CASE \E s \in Sessions : Select(s) \/ AsksDelete(s)
    BY <1>2, <1>4, <2>1, SelectKeeps, AsksDeleteKeeps
  <2>2. CASE NewChat \/ Confirms
    BY <1>2, <1>4, <2>2, NewChatKeeps, ConfirmsKeeps
  <2>3. CASE Send
    BY <1>2, <1>4, <2>3, SendKeeps
  <2>4. CASE Stop
    BY <1>2, <1>4, <2>4, AnswerEndsKeeps
  <2> QED
    BY <1>4, <2>1, <2>2, <2>3, <2>4 DEF User
<1>5. CASE (\E s \in exists : DeletedElsewhere(s)) /\ UNCHANGED <<world, split>>
  BY <1>2, <1>5, DeletedElsewhereKeeps
<1>6. CASE /\ \E t \in Turns : Retry(t) /\ split' = (split \/ requestOf[t] = 0)
           /\ UNCHANGED world
  BY <1>1, <1>2, <1>6, RetryKeeps
<1>7. CASE UNCHANGED vars
  <2>1. UNCHANGED <<world, server, page, requestOf, listed, refreshing, load, tasks, gen,
                    turns, split>>
    BY <1>7 DEF vars
  <2>2. TypeOK'
    BY <1>2, <2>1 DEF WaitInv, TypeOK, server, page, load, tasks
  <2>3. Fresh' /\ (~split' => (OneHome /\ ShownHome /\ GenHome)')
    BY <1>2, <2>1, ServerKept
  <2>4. OneLoad' /\ OneTask'
    BY <1>2, <2>1 DEF WaitInv, OneLoad, OneTask, IsGenerating, load, tasks
  <2>5. ~Failures' => Alive'
    BY <1>2, <2>1 DEF WaitInv, Alive, Failures, server, page, tasks
  <2> QED
    BY <2>2, <2>3, <2>4, <2>5 DEF WaitInv
<1> QED
  BY <1>3, <1>4, <1>5, <1>6, <1>7 DEF Next

(* For a user who waits, one task runs at a time, every turn is stored in    *)
(* one session, and what the page shows as begun is of the active one.       *)
THEOREM SwitchInvariant ==
  Spec => []SwitchInv
<1>1. Init => SwitchInv
  BY InitGivesInv
<1>2. SwitchInv /\ [Next]_vars => SwitchInv'
  BY NextKeepsInv
<1> QED
  BY <1>1, <1>2, PTL DEF Spec

(* The next message goes to the session whose turns the page shows: a load   *)
(* and an answer never overlap, and a request is stored where it was asked.  *)
THEOREM TranscriptIsOfActive ==
  Spec => []ShownIsActive
<1>1. SwitchInv => ShownIsActive
  <2> SUFFICES ASSUME WaitInv, ~split, active # 0, NEW t \in shown,
                      requestOf[t] # None, Stored(t) # {}
               PROVE  active \in Stored(t)
    BY DEF SwitchInv, ShownIsActive
  <2>1. \A s \in Sessions : t \in saved[s] => s = active
    BY DEF WaitInv, ShownHome
  <2> QED
    BY <2>1 DEF Stored
<1> QED
  BY <1>1, SwitchInvariant, PTL

(* A user who waits is never left on the session he has deleted, as long as  *)
(* no request fails: what was active is replaced before the page is quiet.   *)
THEOREM DeletedIsLeft ==
  Spec => []NotOnDeleted
<1>1. SwitchInv => NotOnDeleted
  BY DEF SwitchInv, NotOnDeleted, WaitInv, Alive, Quiet
<1> QED
  BY <1>1, SwitchInvariant, PTL
==============================================================================
