--------------------------- MODULE ChatTurnsProofs ---------------------------
(***************************************************************************)
(* Proofs about ChatTurns, for every set of requests, callers and keys and *)
(* every value of the bounds.                                              *)
(***************************************************************************)
EXTENDS ChatTurns, TLAPS, WellFoundedInduction, FiniteSetTheorems

-----------------------------------------------------------------------------
(* Lemmas about the operators the actions are built from.                  *)

\* The earliest session of a guest (ORDER BY created_at LIMIT 1) is one of
\* theirs, and there is none only if the guest owns no session.
LEMMA DefaultSessionFacts ==
    ASSUME NEW g \in Guests
    PROVE  /\ DefaultSession(g) \in Sids \cup {NoSid}
           /\ DefaultSession(g) = NoSid => \A s \in Sids : owner[s] # g
<1> DEFINE mine == {s \in Sids : owner[s] = g}
<1>1. CASE mine = {}
  BY <1>1 DEF DefaultSession
<1>2. CASE mine # {}
  <2>1. mine \subseteq Nat
    BY BoundsAssumption DEF Sids
  <2>2. PICK s \in mine : \A t \in mine : ~ (<<t, s>> \in OpToRel(<, Nat))
    BY <1>2, <2>1, WFMin, NatLessThanWellFounded, Zenon
  <2>3. \A t \in mine : ~ (t < s)
    BY <2>1, <2>2, Zenon DEF OpToRel
  <2>4. \A t \in mine : s <= t
    BY <2>1, <2>3
  <2>5. DefaultSession(g) \in mine
    BY <1>2, <2>4 DEF DefaultSession
  <2> QED
    BY <2>5, BoundsAssumption DEF Sids, NoSid
<1> QED
  BY <1>1, <1>2

LEMMA NoTxnType == NoTxn \in Txn
BY BoundsAssumption DEF NoTxn, Txn, NoSid

\* Releasing a request's locks keeps the lock tables well typed.
LEMMA ReleaseType ==
    ASSUME TypeOK, NEW r \in Requests, Release(r)
    PROVE  /\ guestHolder' \in [Guests -> Requests \cup {NoOne}]
           /\ rowHolder' \in [Sids -> Requests \cup {NoOne}]
BY DEF TypeOK, Release

\* A commit keeps the tables well typed, whatever transaction it installs.
LEMMA InstallType ==
    ASSUME TypeOK, NEW c \in Callers, NEW t \in Txn, Install(c, t)
    PROVE  /\ owner' \in [Sids -> Callers \cup {NoOne}]
           /\ nextSeq' \in [Sids -> Nat]
           /\ messages' \in SUBSET Message
           /\ summaries' \in SUBSET Summary
           /\ quota' \in [Guests -> [Windows -> Nat]]
<1>1. owner' \in [Sids -> Callers \cup {NoOne}]
  BY DEF TypeOK, Install, Charged
<1>2. nextSeq' \in [Sids -> Nat]
  BY DEF TypeOK, Install, Charged, Txn
<1>3. messages' \in SUBSET Message /\ summaries' \in SUBSET Summary
  BY DEF TypeOK, Install, Charged, Txn
<1>4. quota' \in [Guests -> [Windows -> Nat]]
  <2>1. CASE t.charge = 0
    BY <2>1 DEF TypeOK, Install, Charged
  <2>2. CASE t.charge # 0 /\ c \in Guests
    <3>1. t.charge \in Windows
      BY <2>2, BoundsAssumption DEF Txn, Windows
    <3> QED
      BY <2>2, <3>1 DEF TypeOK, Install, Charged
  <2>3. CASE t.charge # 0 /\ c \notin Guests
    BY <2>3 DEF TypeOK, Install, Charged
  <2> QED
    BY <2>1, <2>2, <2>3
<1> QED
  BY <1>1, <1>2, <1>3, <1>4

\* The reply a request appends is a well-typed row of its transaction.
LEMMA WithReplyType ==
    ASSUME TypeOK, NEW r \in Requests, NEW status \in Outcomes,
           pc[r] \in Resolved
    PROVE  /\ WithReply(r, status) \in Txn
           /\ WithReply(r, status).next >= 1
           /\ WithReply(r, status).session = txn[r].session
           /\ WithReply(r, status).session \in Sids
<1>1. txn[r] \in Txn /\ txn[r].session \in Sids
  BY DEF TypeOK, Txn
<1>2. Reply(r, txn[r].next, status) \in Message
  BY <1>1 DEF Reply, Message, Txn
<1>3. txn[r].writes \cup {Reply(r, txn[r].next, status)} \in SUBSET Message
  BY <1>1, <1>2 DEF Txn
<1>4. txn[r].next \in Nat /\ txn[r].next + 1 \in Nat /\ txn[r].next + 1 >= 1
  BY <1>1 DEF Txn
<1> QED
  BY <1>1, <1>3, <1>4 DEF WithReply, Txn

\* Whatever summary a transaction chooses is a well-typed row.
LEMMA SummaryChoicesType ==
    ASSUME TypeOK, NEW t \in Txn, t.session \in Sids, t.next >= 1,
           NEW sums \in SummaryChoices(t)
    PROVE  sums \subseteq Summary
<1>1. SUFFICES ASSUME NEW old \in Latest(t.session)
               PROVE  NextSummary(t, old) \in Summary
  BY DEF SummaryChoices
<1>2. old \in Summary
  BY DEF Latest, TypeOK, Summary
<1>3. t.next \in Nat
  BY DEF Txn
<1> QED
  BY <1>2, <1>3 DEF NextSummary, Summary

\* A request that has completed its answer holds a well-typed transaction.
LEMMA CompletedType ==
    ASSUME TypeOK, NEW r \in Requests, NEW t \in Txn, t.session \in Sids,
           t.next >= 1, Completed(r, t)
    PROVE  /\ txn' \in [Requests -> Txn]
           /\ txn'[r].session = t.session
           /\ \A q \in Requests \ {r} : txn'[q] = txn[q]
<1>1. PICK sums \in SummaryChoices(t) :
        txn' = [txn EXCEPT ![r] =
                 [t EXCEPT !.sums = sums,
                           !.charge = IF req[r].caller \in Guests
                                      THEN window ELSE 0]]
  BY DEF Completed
<1>2. sums \subseteq Summary
  BY SummaryChoicesType
<1>3. window \in 0..LastWindow /\ 0 \in 0..LastWindow
  BY BoundsAssumption DEF TypeOK, Windows
<1> QED
  BY <1>1, <1>2, <1>3 DEF TypeOK, Txn

\* Refusing a request that was admitted keeps every type.
LEMMA RefuseType ==
    ASSUME TypeOK, NEW r \in Requests, pc[r] # "idle", NEW result \in Results,
           Refuse(r, result)
    PROVE  TypeOK'
<1>1. /\ guestHolder' \in [Guests -> Requests \cup {NoOne}]
      /\ rowHolder' \in [Sids -> Requests \cup {NoOne}]
  BY ReleaseType DEF Refuse
<1> QED
  BY <1>1, NoTxnType DEF TypeOK, Refuse, Goto, Stages, Resolved, tables

-----------------------------------------------------------------------------
(* Type correctness.                                                       *)

LEMMA InitType == Init => TypeOK
BY BoundsAssumption, NoTxnType
   DEF Init, TypeOK, Windows, Stages, Resolved, Results

\* Every step of a request keeps the types.
LEMMA ProgressType ==
    ASSUME TypeOK, NEW r \in Requests, Progress(r)
    PROVE  TypeOK'
<1>0. pc[r] # "idle"
  BY DEF Progress, CheckQuota, ResolveSession, FindPrior, FindReply, AppendUser,
         AnswerComplete, AnswerFails, StreamCompletes, StreamStops,
         Abandoned, AnswerCanned, DenyStream, PersistStatic, Commit, Open,
         DeleteLookup,
         DeleteRow
<1>r. req[r] \in Request /\ req[r] \in Submissions
  BY <1>0, SubmissionsAssumption DEF TypeOK
<1>c. req[r].caller \in Callers
  BY <1>r DEF Request
<1>1. CASE CheckQuota(r)
  <2>1. CASE Refuse(r, "quota_exceeded")
    BY <1>0, <2>1, RefuseType DEF Results
  <2>2. CASE Goto(r, "checked") /\ UNCHANGED <<tables, locks, window, lastSid,
                                    req, txn, outcome, answer, announced>>
    BY <1>0, <2>2 DEF TypeOK, Goto, Stages, Resolved, tables, locks
  <2> QED
    BY <1>1, <2>1, <2>2 DEF CheckQuota
<1>2. CASE ResolveSession(r)
  <2>1. CASE Refuse(r, "session_not_found")
    BY <1>0, <2>1, RefuseType DEF Results
  <2>2. ASSUME NEW id \in Sids, NEW new \in BOOLEAN,
               txn' = [txn EXCEPT ![r] = [NoTxn EXCEPT !.session = id,
                                                       !.creates = new]],
               Goto(r, AfterResolve(r)), lastSid' \in 0..MaxSessions,
               UNCHANGED <<tables, locks, window, req, outcome, answer, announced>>
        PROVE  TypeOK'
    <3>1. [NoTxn EXCEPT !.session = id, !.creates = new] \in Txn
      BY NoTxnType DEF Txn
    <3>2. /\ txn' \in [Requests -> Txn]
          /\ txn'[r].session = id
          /\ \A q \in Requests \ {r} : txn'[q] = txn[q]
      BY <2>2, <3>1, NoTxnType DEF TypeOK, Txn
    <3>3. AfterResolve(r) \in {"lookup", "fresh"} /\ id # NoSid
      BY BoundsAssumption DEF AfterResolve, Sids, NoSid
    <3> QED
      BY <1>0, <2>2, <3>2, <3>3 DEF TypeOK, Goto, Stages, Resolved, tables, locks
  <2>3. CASE req[r].session # NoSid /\ ~ Refuse(r, "session_not_found")
    <3>1. req[r].session \in Sids
      BY <1>r, <2>3 DEF Request
    <3> QED
      BY <1>2, <2>2, <2>3, <3>1 DEF ResolveSession, TypeOK
  <2>4. CASE req[r].session = NoSid
    <3> DEFINE default == IF req[r].caller \in Guests
                          THEN DefaultSession(req[r].caller) ELSE NoSid
    <3>1. default \in Sids \cup {NoSid}
      BY DefaultSessionFacts
    <3>2. lastSid < MaxSessions => lastSid + 1 \in Sids /\ lastSid + 1 \in 0..MaxSessions
      BY BoundsAssumption DEF TypeOK, Sids
    <3> QED
      BY <1>2, <2>2, <2>4, <3>1, <3>2 DEF ResolveSession, TypeOK
  <2> QED
    BY <2>1, <2>3, <2>4
<1>3. CASE FindPrior(r)
  <2>1. ASSUME NEW m \in messages, txn' = [txn EXCEPT ![r].prior = m.seq]
        PROVE  /\ txn' \in [Requests -> Txn]
               /\ txn'[r].session = txn[r].session
               /\ \A q \in Requests \ {r} : txn'[q] = txn[q]
    <3>1. m.seq \in Nat /\ txn[r] \in Txn
      BY DEF TypeOK, Message
    <3>2. [txn[r] EXCEPT !.prior = m.seq] \in Txn
      BY <3>1 DEF Txn
    <3>3. [txn[r] EXCEPT !.prior = m.seq].session = txn[r].session
      BY <3>1 DEF Txn
    <3>4. txn'[r] = [txn[r] EXCEPT !.prior = m.seq] /\ txn \in [Requests -> Txn]
      BY <2>1 DEF TypeOK
    <3> QED
      BY <2>1, <3>2, <3>3, <3>4
  <2>2. pc[r] \in Resolved
    BY <1>3 DEF FindPrior, Resolved
  <2>3. /\ txn' \in [Requests -> Txn]
        /\ txn'[r].session = txn[r].session
        /\ \A q \in Requests \ {r} : txn'[q] = txn[q]
    BY <1>3, <2>1 DEF FindPrior, Stored, TypeOK
  <2> QED
    BY <1>0, <1>3, <2>2, <2>3
       DEF FindPrior, TypeOK, Goto, Stages, Resolved, tables, locks
<1>4. CASE FindReply(r)
  <2>1. answer' \in [Requests -> SUBSET Message] /\ outcome' \in [Requests -> Results]
    BY <1>4 DEF FindReply, MessageAfterPrior, Stored, TypeOK, Results
  <2> QED
    BY <1>0, <1>4, <2>1
       DEF FindReply, TypeOK, Goto, Stages, Resolved, tables, locks
<1>5. CASE AppendUser(r)
  <2> DEFINE s == txn[r].session
  <2>1. CASE Refuse(r, "database_error") \/ Refuse(r, "internal_error")
    BY <1>0, <2>1, RefuseType DEF Results
  <2>2. CASE ~ (Refuse(r, "database_error") \/ Refuse(r, "internal_error"))
    <3>1. pc[r] \in Resolved /\ s \in Sids /\ nextSeq[s] \in Nat
      BY <1>5 DEF AppendUser, Resolved, TypeOK, Txn
    <3>2. Question(r, nextSeq[s]) \in Message
      BY <1>r, <3>1 DEF Question, Message, Request, Outcomes
    <3>3. /\ txn' \in [Requests -> Txn]
          /\ txn'[r].session = s
          /\ \A q \in Requests \ {r} : txn'[q] = txn[q]
      <4> DEFINE t == [txn[r] EXCEPT !.next = nextSeq[s] + 1,
                                     !.writes = {Question(r, nextSeq[s])}]
      <4>1. txn' = [txn EXCEPT ![r] = t]
        BY <1>5, <2>2 DEF AppendUser
      <4>2. {Question(r, nextSeq[s])} \in SUBSET Message /\ nextSeq[s] + 1 \in Nat
        BY <3>1, <3>2
      <4>3. t \in Txn /\ t.session = s
        BY <3>1, <4>2 DEF TypeOK, Txn
      <4> HIDE DEF t
      <4> QED
        BY <4>1, <4>3 DEF TypeOK
    <3>4. announced' \in SUBSET (Callers \X Sids)
      BY <1>5, <1>c, <2>2, <3>1 DEF AppendUser, TypeOK
    <3>5. rowHolder' \in [Sids -> Requests \cup {NoOne}]
      <4>1. rowHolder' = [rowHolder EXCEPT ![s] = r]
        BY <1>5, <2>2 DEF AppendUser
      <4> QED
        BY <4>1 DEF TypeOK
    <3>6. /\ pc' = [pc EXCEPT ![r] = "generating"]
          /\ UNCHANGED <<tables, guestHolder, window, lastSid, req, outcome, answer>>
      BY <1>5, <2>2 DEF AppendUser, Goto
    <3> QED
      BY <1>0, <3>1, <3>3, <3>4, <3>5, <3>6 DEF TypeOK, Stages, Resolved, tables
  <2> QED
    BY <2>1, <2>2
<1>6. CASE AnswerComplete(r) \/ StreamCompletes(r)
  <2>1. pc[r] \in Resolved /\ "complete" \in Outcomes /\ Answered(r)
    BY <1>6 DEF AnswerComplete, StreamCompletes, Resolved, Outcomes
  <2>2. /\ txn' \in [Requests -> Txn]
        /\ txn'[r].session = txn[r].session
        /\ \A q \in Requests \ {r} : txn'[q] = txn[q]
    BY <2>1, WithReplyType, CompletedType DEF Answered
  <2>3. announced' \in SUBSET (Callers \X Sids)
    BY <1>c, <2>1 DEF Answered, TypeOK, Txn
  <2>4. /\ pc' = [pc EXCEPT ![r] = "closing"]
        /\ outcome' = [outcome EXCEPT ![r] = "ok"]
        /\ UNCHANGED <<tables, locks, window, lastSid, req, answer>>
    BY <2>1 DEF Answered, Goto
  <2> QED
    BY <1>0, <2>1, <2>2, <2>3, <2>4
       DEF TypeOK, Stages, Resolved, Results, tables, locks
<1>7. CASE AnswerFails(r)
  <2>1. WithReply(r, "error") \in Txn
    BY <1>7, WithReplyType DEF AnswerFails, Resolved, Outcomes
  <2>2. /\ owner' \in [Sids -> Callers \cup {NoOne}]
        /\ nextSeq' \in [Sids -> Nat]
        /\ messages' \in SUBSET Message
        /\ summaries' \in SUBSET Summary
        /\ quota' \in [Guests -> [Windows -> Nat]]
    BY <1>7, <1>c, <2>1, InstallType DEF AnswerFails
  <2> QED
    BY <1>0, <1>7, <2>2, ReleaseType, NoTxnType
       DEF AnswerFails, TypeOK, Goto, Stages, Resolved, Results
<1>8. CASE StreamStops(r)
  <2>1. PICK status \in AnswerEnds \cap {"interrupted", "error"} :
            /\ txn' = [txn EXCEPT ![r] = WithReply(r, status)]
            /\ outcome' = [outcome EXCEPT ![r] =
                  IF status = "error" THEN "provider_error" ELSE "interrupted"]
    BY <1>8 DEF StreamStops
  <2>2. WithReply(r, status) \in Txn /\ WithReply(r, status).session = txn[r].session
    BY <1>8, WithReplyType, SubmissionsAssumption DEF StreamStops, Resolved
  <2>3. /\ txn' \in [Requests -> Txn]
        /\ txn'[r].session = txn[r].session
        /\ \A q \in Requests \ {r} : txn'[q] = txn[q]
    BY <2>1, <2>2 DEF TypeOK
  <2> QED
    BY <1>0, <1>8, <2>1, <2>3
       DEF StreamStops, TypeOK, Goto, Stages, Resolved, Results, tables, locks
<1>9. CASE Abandoned(r)
  BY <1>0, <1>9
     DEF Abandoned, TypeOK, Goto, Stages, Resolved, Results, tables, locks
<1>10. CASE AnswerCanned(r)
  <2>1. WithReply(r, "complete") \in Txn /\ txn[r].session \in Sids
    BY <1>10, WithReplyType DEF AnswerCanned, Resolved, Outcomes
  <2>2. /\ owner' \in [Sids -> Callers \cup {NoOne}]
        /\ nextSeq' \in [Sids -> Nat]
        /\ messages' \in SUBSET Message
        /\ summaries' \in SUBSET Summary
        /\ quota' \in [Guests -> [Windows -> Nat]]
    BY <1>10, <1>c, <2>1, InstallType DEF AnswerCanned
  <2>3. announced' \in SUBSET (Callers \X Sids)
    BY <1>10, <1>c, <2>1 DEF AnswerCanned, TypeOK
  <2> QED
    BY <1>0, <1>10, <2>2, <2>3, ReleaseType, NoTxnType
       DEF AnswerCanned, TypeOK, Goto, Stages, Resolved, Results
<1>11. CASE DenyStream(r)
  <2>1. CASE Refuse(r, "quota_exceeded")
    BY <1>0, <2>1, RefuseType DEF Results
  <2>2. CASE ~ Refuse(r, "quota_exceeded")
    <3>1. WithReply(r, "complete") \in Txn /\ txn[r].session \in Sids
      BY <1>11, WithReplyType DEF DenyStream, Resolved, Outcomes
    <3>2. /\ owner' \in [Sids -> Callers \cup {NoOne}]
          /\ nextSeq' \in [Sids -> Nat]
          /\ messages' \in SUBSET Message
          /\ summaries' \in SUBSET Summary
          /\ quota' \in [Guests -> [Windows -> Nat]]
      BY <1>11, <1>c, <2>2, <3>1, InstallType DEF DenyStream
    <3>3. /\ txn' \in [Requests -> Txn]
          /\ txn'[r].session # NoSid
          /\ \A q \in Requests \ {r} : txn'[q] = txn[q]
      <4> DEFINE t == [NoTxn EXCEPT !.session = txn[r].session]
      <4>1. txn' = [txn EXCEPT ![r] = t]
        BY <1>11, <2>2 DEF DenyStream
      <4>2. t \in Txn /\ t.session # NoSid
        BY <3>1, NoTxnType, BoundsAssumption DEF Txn, Sids, NoSid
      <4> HIDE DEF t
      <4> QED
        BY <4>1, <4>2 DEF TypeOK
    <3> QED
      BY <1>0, <1>11, <2>2, <3>2, <3>3, ReleaseType
         DEF DenyStream, TypeOK, Goto, Stages, Resolved
  <2> QED
    BY <2>1, <2>2
<1>12. CASE PersistStatic(r)
  <2> DEFINE s == txn[r].session
             t == [txn[r] EXCEPT !.writes = {Reply(r, nextSeq[s], "complete")},
                                 !.next = nextSeq[s] + 1]
  <2>1. CASE Refuse(r, "internal_error")
    BY <1>0, <2>1, RefuseType DEF Results
  <2>2. CASE ~ Refuse(r, "internal_error")
    <3>1. s \in Sids /\ nextSeq[s] \in Nat /\ pc[r] \in Resolved
      BY <1>12 DEF PersistStatic, Resolved, TypeOK, Txn
    <3>2. Reply(r, nextSeq[s], "complete") \in Message
      BY <3>1 DEF Reply, Message, Outcomes
    <3>3. t \in Txn /\ t.session = s /\ t.next >= 1
      <4>1. {Reply(r, nextSeq[s], "complete")} \in SUBSET Message
        BY <3>2
      <4>2. nextSeq[s] + 1 \in Nat /\ nextSeq[s] + 1 >= 1
        BY <3>1
      <4> QED
        BY <4>1, <4>2 DEF TypeOK, Txn
    <3>4. Completed(r, t)
      BY <1>12, <2>2 DEF PersistStatic
    <3>5. /\ txn' \in [Requests -> Txn]
          /\ txn'[r].session = s
          /\ \A q \in Requests \ {r} : txn'[q] = txn[q]
      <4> HIDE DEF t
      <4> QED
        BY <3>1, <3>3, <3>4, CompletedType
    <3>6. announced' \in SUBSET (Callers \X Sids)
      BY <1>12, <1>c, <2>2, <3>1 DEF PersistStatic, TypeOK
    <3>7. rowHolder' \in [Sids -> Requests \cup {NoOne}]
      <4>1. rowHolder' = [rowHolder EXCEPT ![s] = r]
        BY <1>12, <2>2 DEF PersistStatic
      <4> QED
        BY <4>1 DEF TypeOK
    <3>8. /\ pc' = [pc EXCEPT ![r] = "closing"]
          /\ outcome' = [outcome EXCEPT ![r] = "ok"]
          /\ UNCHANGED <<tables, guestHolder, window, lastSid, req, answer>>
      BY <1>12, <2>2 DEF PersistStatic, Goto
    <3> HIDE DEF t
    <3> QED
      BY <1>0, <3>1, <3>5, <3>6, <3>7, <3>8
         DEF TypeOK, Stages, Resolved, Results, tables
  <2> QED
    BY <2>1, <2>2
<1>13. CASE Commit(r)
  <2>1. /\ owner' \in [Sids -> Callers \cup {NoOne}]
        /\ nextSeq' \in [Sids -> Nat]
        /\ messages' \in SUBSET Message
        /\ summaries' \in SUBSET Summary
        /\ quota' \in [Guests -> [Windows -> Nat]]
    BY <1>13, <1>c, InstallType DEF Commit, TypeOK
  <2> QED
    BY <1>0, <1>13, <2>1, ReleaseType, NoTxnType
       DEF Commit, TypeOK, Goto, Stages, Resolved
<1>14. CASE Open(r)
  <2>1. lastSid + 1 \in Sids /\ lastSid + 1 \in 0..MaxSessions
    BY <1>14, BoundsAssumption DEF Open, TypeOK, Sids
  <2> QED
    BY <1>0, <1>14, <1>c, <2>1
       DEF Open, TypeOK, Goto, Stages, Resolved, Results, locks
<1>15. CASE DeleteLookup(r)
  <2>1. CASE Refuse(r, "session_not_found")
    BY <1>0, <2>1, RefuseType DEF Results
  <2> QED
    BY <1>0, <1>15, <2>1
       DEF DeleteLookup, TypeOK, Goto, Stages, Resolved, tables, locks
<1>16. CASE DeleteRow(r)
  <2>1. messages' \in SUBSET Message /\ summaries' \in SUBSET Summary
    BY <1>16 DEF DeleteRow, TypeOK
  <2> QED
    BY <1>0, <1>16, <2>1
       DEF DeleteRow, TypeOK, Goto, Stages, Resolved, Results, locks
<1> QED
  BY <1>1, <1>2, <1>3, <1>4, <1>5, <1>6, <1>7, <1>8, <1>9, <1>10, <1>11, <1>12,
     <1>13, <1>14, <1>15, <1>16 DEF Progress

\* Every step of the system keeps the types.
LEMMA NextType ==
    ASSUME TypeOK, [Next]_vars
    PROVE  TypeOK'
<1>1. ASSUME NEW r \in Requests, Begin(r)
      PROVE  TypeOK'
  BY <1>1, SubmissionsAssumption
     DEF Begin, TypeOK, Goto, Stages, Resolved, tables
<1>2. ASSUME NEW r \in Requests, Abort(r)
      PROVE  TypeOK'
  BY <1>2, ReleaseType, NoTxnType
     DEF Abort, TypeOK, Goto, Stages, Resolved, Results, tables
<1>3. CASE Midnight
  BY <1>3, BoundsAssumption DEF Midnight, TypeOK, Windows, Resolved, tables, locks
<1>4. CASE UNCHANGED vars
  BY <1>4 DEF vars, TypeOK, Resolved, tables, locks
<1> QED
  BY <1>1, <1>2, <1>3, <1>4, ProgressType DEF Next, Finished

\* In every reachable state of every instance the tables, the locks and the
\* requests hold values of their types (the columns db/models.py declares).
THEOREM TypeCorrect == Spec => []TypeOK
<1>1. Init => TypeOK
  BY InitType
<1>2. TypeOK /\ [Next]_vars => TypeOK'
  BY NextType
<1> QED
  BY <1>1, <1>2, PTL DEF Spec

-----------------------------------------------------------------------------
(* Who holds the guest row.  A guest's request holds it from touch to the  *)
(* end of its transaction; only the second transaction of a denied stream  *)
(* runs without, and that one creates no session.                          *)

HoldsGuest(r) ==
    /\ pc[r] \in {"admitted", "checked", "lookup", "replying", "fresh",
                  "generating", "closing"}
    /\ req[r].caller \in Guests
    /\ pc[r] = "closing" /\ req[r].kind = "stream_denial" => txn[r].creates

StaticIsDenial ==
    \A r \in Requests : pc[r] = "static" =>
        req[r].kind = "stream_denial" /\ ~ txn[r].creates

GuestLocked ==
    \A r \in Requests : HoldsGuest(r) => guestHolder[req[r].caller] = r

LockInv == TypeOK /\ StaticIsDenial /\ GuestLocked

\* Two requests that hold the row of one guest are the same request.
LEMMA GuestLockExcludes ==
    ASSUME GuestLocked, NEW q \in Requests, NEW r \in Requests,
           HoldsGuest(q), HoldsGuest(r), req[q].caller = req[r].caller
    PROVE  q = r
BY DEF GuestLocked

\* What a step of a request does to other requests and to its guest row: it
\* leaves the others alone, and gives the row up only when it stops needing it.
LEMMA LockFootprint ==
    ASSUME LockInv, NEW r \in Requests, Progress(r) \/ Abort(r)
    PROVE  /\ UNCHANGED <<req, window>>
           /\ \A q \in Requests \ {r} :
                 pc'[q] = pc[q] /\ txn'[q] = txn[q] /\ outcome'[q] = outcome[q]
           /\ pc[r] # "idle" /\ pc'[r] # "idle"
           /\ pc'[r] = "static" =>
                 req[r].kind = "stream_denial" /\ ~ txn'[r].creates
           /\ HoldsGuest(r)' => HoldsGuest(r)
           /\ guestHolder' = guestHolder \/ (Release(r) /\ ~ HoldsGuest(r)')
<1> USE DEF LockInv, TypeOK
<1>1. ASSUME NEW result, Refuse(r, result), pc[r] # "idle"
      PROVE  /\ UNCHANGED <<req, window>>
             /\ \A q \in Requests \ {r} :
                   pc'[q] = pc[q] /\ txn'[q] = txn[q] /\ outcome'[q] = outcome[q]
             /\ pc'[r] = "done" /\ Release(r) /\ ~ HoldsGuest(r)'
  BY <1>1 DEF Refuse, Goto, HoldsGuest
<1>2. CASE CheckQuota(r)
  BY <1>1, <1>2 DEF CheckQuota, Goto, HoldsGuest, locks
<1>3. CASE ResolveSession(r)
  BY <1>1, <1>3 DEF ResolveSession, Goto, HoldsGuest, AfterResolve, locks
<1>4. CASE FindPrior(r)
  BY <1>4 DEF FindPrior, Goto, HoldsGuest, locks
<1>5. CASE FindReply(r)
  BY <1>5 DEF FindReply, Goto, HoldsGuest, locks
<1>6. CASE AppendUser(r)
  BY <1>1, <1>6 DEF AppendUser, Goto, HoldsGuest
<1>7. CASE AnswerComplete(r) \/ StreamCompletes(r)
  BY <1>7 DEF AnswerComplete, StreamCompletes, Answered, Completed, Goto, HoldsGuest, locks
<1>8. CASE AnswerFails(r)
  BY <1>8 DEF AnswerFails, Goto, HoldsGuest
<1>9. CASE StreamStops(r) \/ Abandoned(r)
  BY <1>9 DEF StreamStops, Abandoned, Goto, HoldsGuest, locks
<1>10. CASE AnswerCanned(r)
  BY <1>10 DEF AnswerCanned, Goto, HoldsGuest
<1>11. CASE DenyStream(r)
  <2>1. CASE Refuse(r, "quota_exceeded")
    BY <1>1, <1>11, <2>1 DEF DenyStream
  <2>2. CASE ~ Refuse(r, "quota_exceeded")
    BY <1>11, <2>2 DEF DenyStream, Goto, HoldsGuest, NoTxn, Txn
  <2> QED
    BY <2>1, <2>2
<1>12. CASE PersistStatic(r)
  <2>1. CASE Refuse(r, "internal_error")
    BY <1>1, <1>12, <2>1 DEF PersistStatic
  <2>2. CASE ~ Refuse(r, "internal_error")
    <3>1. PICK sums, charge :
            txn' = [txn EXCEPT ![r] =
                     [txn[r] EXCEPT !.writes = {Reply(r, nextSeq[txn[r].session], "complete")},
                                    !.next = nextSeq[txn[r].session] + 1,
                                    !.sums = sums, !.charge = charge]]
      BY <1>12, <2>2 DEF PersistStatic, Completed
    <3>2. /\ txn'[r].creates = txn[r].creates
          /\ \A q \in Requests \ {r} : txn'[q] = txn[q]
      BY <3>1 DEF Txn
    <3>3. /\ pc[r] = "static" /\ pc' = [pc EXCEPT ![r] = "closing"]
          /\ UNCHANGED <<req, window, guestHolder>>
          /\ \A q \in Requests \ {r} : outcome'[q] = outcome[q]
      BY <1>12, <2>2 DEF PersistStatic, Goto
    <3> QED
      BY <3>2, <3>3 DEF HoldsGuest, StaticIsDenial
  <2> QED
    BY <2>1, <2>2
<1>13. CASE Commit(r)
  BY <1>13 DEF Commit, Goto, HoldsGuest
<1>14. CASE Open(r) \/ DeleteRow(r)
  BY <1>14 DEF Open, DeleteRow, Goto, HoldsGuest, locks
<1>15. CASE DeleteLookup(r)
  BY <1>1, <1>15 DEF DeleteLookup, Goto, HoldsGuest, locks
<1>16. CASE Abort(r)
  BY <1>16 DEF Abort, Goto, HoldsGuest
<1> QED
  BY <1>2, <1>3, <1>4, <1>5, <1>6, <1>7, <1>8, <1>9, <1>10, <1>11, <1>12, <1>13,
     <1>14, <1>15, <1>16 DEF Progress

\* The lock invariant is inductive.
LEMMA LockInvInit == Init => LockInv
BY InitType DEF Init, LockInv, StaticIsDenial, GuestLocked, HoldsGuest

LEMMA LockInvNext ==
    ASSUME LockInv, [Next]_vars
    PROVE  LockInv'
<1>1. TypeOK'
  BY NextType DEF LockInv
<1> USE DEF LockInv, TypeOK
<1>2. ASSUME NEW r \in Requests, Begin(r)
      PROVE  StaticIsDenial' /\ GuestLocked'
  <2>1. /\ pc[r] = "idle" /\ pc' = [pc EXCEPT ![r] = "admitted"]
        /\ txn' = txn
        /\ \A q \in Requests \ {r} : req'[q] = req[q]
    BY <1>2 DEF Begin, Goto
  <2>2. StaticIsDenial'
    BY <2>1 DEF StaticIsDenial
  <2>3. ASSUME NEW q \in Requests, HoldsGuest(q)'
        PROVE  guestHolder'[req'[q].caller] = q
    <3>1. CASE q = r
      BY <1>2, <2>3, <3>1 DEF Begin, HoldsGuest
    <3>2. CASE q # r
      <4>1. HoldsGuest(q) /\ guestHolder[req[q].caller] = q /\ q # NoOne
        BY <2>1, <2>3, <3>2, CallersAssumption DEF HoldsGuest, GuestLocked
      <4> QED
        BY <1>2, <2>1, <3>2, <4>1 DEF Begin, GuestFree, HoldsGuest
    <3> QED
      BY <3>1, <3>2
  <2> QED
    BY <2>2, <2>3 DEF GuestLocked
<1>3. ASSUME NEW r \in Requests, Progress(r) \/ Abort(r)
      PROVE  StaticIsDenial' /\ GuestLocked'
  <2>1. StaticIsDenial'
    BY <1>3, LockFootprint DEF StaticIsDenial
  <2>2. ASSUME NEW q \in Requests, HoldsGuest(q)'
        PROVE  HoldsGuest(q) /\ (Release(r) => guestHolder' = guestHolder \/ q # r)
    BY <1>3, <2>2, LockFootprint DEF HoldsGuest
  <2>3. ASSUME NEW q \in Requests, HoldsGuest(q)'
        PROVE  guestHolder'[req'[q].caller] = q
    <3>1. HoldsGuest(q) /\ guestHolder[req[q].caller] = q /\ req' = req
      BY <1>3, <2>2, <2>3, LockFootprint DEF GuestLocked
    <3>2. CASE guestHolder' = guestHolder
      BY <3>1, <3>2
    <3>3. CASE Release(r) /\ ~ HoldsGuest(r)'
      BY <2>3, <3>1, <3>3 DEF Release, HoldsGuest
    <3> QED
      BY <1>3, <3>2, <3>3, LockFootprint
  <2> QED
    BY <2>1, <2>3 DEF GuestLocked
<1>4. ASSUME UNCHANGED vars \/ Midnight
      PROVE  StaticIsDenial' /\ GuestLocked'
  <2>1. UNCHANGED <<pc, req, txn, guestHolder>>
    BY <1>4 DEF vars, Midnight, locks
  <2> QED
    BY <2>1 DEF StaticIsDenial, GuestLocked, HoldsGuest
<1>5. StaticIsDenial' /\ GuestLocked'
  BY <1>2, <1>3, <1>4 DEF Next, Finished
<1> QED
  BY <1>1, <1>5

-----------------------------------------------------------------------------
(* A guest has one session.                                                *)

\* Session ids are handed out in order, and a request that is creating a
\* session alone knows its id; a guest who creates one owns none.
IdsInOrder == \A s \in Sids : owner[s] # NoOne => s <= lastSid

Apart(r) ==
    /\ pc[r] \in Resolved \ {"static"}
    /\ txn[r].session <= lastSid
    /\ owner[txn[r].session] = NoOne
    /\ req[r].caller \in Guests => \A s \in Sids : owner[s] # req[r].caller
    /\ \A q \in Requests :
          txn[q].creates /\ txn[q].session = txn[r].session => q = r
CreatorsApart == \A r \in Requests : txn[r].creates => Apart(r)

SessionInv == LockInv /\ IdsInOrder /\ CreatorsApart /\ OneSessionPerGuest

\* A step that inserts no session row keeps the invariant.
LEMMA NoNewSession ==
    ASSUME SessionInv, TypeOK', lastSid' >= lastSid,
           \A s \in Sids : owner'[s] \in {owner[s], NoOne},
           \A r \in Requests : txn'[r].creates =>
              /\ txn[r].creates /\ txn'[r].session = txn[r].session
              /\ req'[r] = req[r]
              /\ pc'[r] \in Resolved \ {"static"}
    PROVE  IdsInOrder' /\ CreatorsApart' /\ OneSessionPerGuest'
<1> USE DEF SessionInv, LockInv
<1>1. IdsInOrder'
  BY CallersAssumption, BoundsAssumption DEF IdsInOrder, TypeOK, Sids
<1>2. CreatorsApart'
  <2>1. SUFFICES ASSUME NEW r \in Requests, txn'[r].creates
                 PROVE  Apart(r)'
    BY DEF CreatorsApart
  <2>2. Apart(r) /\ txn[r].session \in Sids /\ txn'[r].session = txn[r].session
    BY <2>1 DEF CreatorsApart, Apart, TypeOK, Txn
  <2>3. \A s \in Sids : owner'[s] = owner[s] \/ owner'[s] = NoOne
    OBVIOUS
  <2> QED
    BY <2>1, <2>2, <2>3, CallersAssumption DEF Apart, TypeOK, Sids, Callers
<1>3. OneSessionPerGuest'
  BY CallersAssumption DEF OneSessionPerGuest, Callers
<1> QED
  BY <1>1, <1>2, <1>3

\* What a step of a request does to the session rows: it deletes at most one,
\* or inserts the one this request is creating, or, for a user, a new one; and
\* it starts creating a session only when its caller has none.
LEMMA OwnerFootprint ==
    ASSUME SessionInv, NEW r \in Requests, Progress(r) \/ Abort(r)
    PROVE  \/ \* nothing inserted, nothing begun
              /\ lastSid' = lastSid
              /\ \A s \in Sids : owner'[s] \in {owner[s], NoOne}
              /\ txn'[r].creates =>
                    /\ txn[r].creates /\ txn'[r].session = txn[r].session
                    /\ pc'[r] \in Resolved \ {"static"}
           \/ \* the session being created is inserted
              /\ lastSid' = lastSid
              /\ txn[r].creates /\ ~ txn'[r].creates
              /\ owner' = [owner EXCEPT ![txn[r].session] = req[r].caller]
              /\ req[r].caller \in Guests => HoldsGuest(r)
           \/ \* create_session
              /\ lastSid' = lastSid + 1
              /\ txn' = txn /\ ~ txn[r].creates
              /\ req[r].caller \in Users
              /\ owner' = [owner EXCEPT ![lastSid + 1] = req[r].caller]
           \/ \* a turn begins to create one
              /\ lastSid' = lastSid + 1
              /\ owner' = owner
              /\ txn'[r].creates /\ txn'[r].session = lastSid + 1
              /\ pc'[r] \in Resolved \ {"static"}
              /\ HoldsGuest(r)' \/ req[r].caller \notin Guests
              /\ req[r].caller \in Guests => \A s \in Sids : owner[s] # req[r].caller
<1> DEFINE Kept == /\ lastSid' = lastSid
                   /\ \A s \in Sids : owner'[s] \in {owner[s], NoOne}
                   /\ txn'[r].creates =>
                         /\ txn[r].creates /\ txn'[r].session = txn[r].session
                         /\ pc'[r] \in Resolved \ {"static"}
           Inserted == /\ lastSid' = lastSid
                       /\ txn[r].creates /\ ~ txn'[r].creates
                       /\ owner' = [owner EXCEPT ![txn[r].session] = req[r].caller]
                       /\ req[r].caller \in Guests => HoldsGuest(r)
<1> USE DEF SessionInv, LockInv, TypeOK
<1>1. ASSUME NEW result, Refuse(r, result)
      PROVE  Kept
  BY <1>1 DEF Refuse, NoTxn, tables
<1>2. CASE CheckQuota(r)
  BY <1>1, <1>2 DEF CheckQuota, tables, CreatorsApart, Apart, Resolved
<1>3. CASE ResolveSession(r)
  <2> DEFINE c == req[r].caller
             use(id, new) ==
               /\ txn' = [txn EXCEPT ![r] = [NoTxn EXCEPT !.session = id,
                                                          !.creates = new]]
               /\ Goto(r, AfterResolve(r))
               /\ UNCHANGED <<tables, locks, window, req, outcome, answer, announced>>
  <2>1. ASSUME NEW id, use(id, FALSE), lastSid' = lastSid
        PROVE  Kept
    BY <2>1 DEF tables, NoTxn
  <2>2. CASE /\ req[r].session = NoSid
             /\ (IF c \in Guests THEN DefaultSession(c) ELSE NoSid) = NoSid
             /\ use(lastSid + 1, TRUE) /\ lastSid' = lastSid + 1
    <3>1. owner' = owner /\ txn'[r].creates /\ txn'[r].session = lastSid + 1
      BY <2>2 DEF tables, NoTxn
    <3>2. pc'[r] \in {"lookup", "fresh"} /\ req' = req
      BY <2>2 DEF Goto, AfterResolve
    <3>3. HoldsGuest(r)' \/ c \notin Guests
      BY <3>2 DEF HoldsGuest
    <3>4. c \in Guests => \A s \in Sids : owner[s] # c
      BY <2>2, DefaultSessionFacts
    <3> QED
      BY <2>2, <3>1, <3>2, <3>3, <3>4 DEF Resolved
  <2> QED
    BY <1>1, <1>3, <2>1, <2>2 DEF ResolveSession
<1>4. CASE FindPrior(r)
  <2>1. txn'[r].creates = txn[r].creates /\ txn'[r].session = txn[r].session
    BY <1>4 DEF FindPrior, Txn
  <2> QED
    BY <1>4, <2>1 DEF FindPrior, Goto, tables, Resolved
<1>5. CASE FindReply(r)
  BY <1>5 DEF FindReply, Goto, tables, Resolved
<1>6. CASE AppendUser(r)
  <2>1. CASE Refuse(r, "database_error") \/ Refuse(r, "internal_error")
    BY <1>1, <2>1
  <2>2. CASE ~ (Refuse(r, "database_error") \/ Refuse(r, "internal_error"))
    <3>1. PICK next, writes :
            txn' = [txn EXCEPT ![r] = [txn[r] EXCEPT !.next = next, !.writes = writes]]
      BY <1>6, <2>2 DEF AppendUser
    <3>2. txn'[r].creates = txn[r].creates /\ txn'[r].session = txn[r].session
      BY <3>1 DEF Txn
    <3>3. lastSid' = lastSid /\ owner' = owner /\ pc'[r] = "generating"
      BY <1>6, <2>2 DEF AppendUser, Goto, tables
    <3> QED
      BY <3>2, <3>3 DEF Resolved
  <2> QED
    BY <2>1, <2>2
<1>7. CASE AnswerComplete(r) \/ StreamCompletes(r)
  <2>1. PICK sums, charge, seq, writes :
          txn' = [txn EXCEPT ![r] =
                   [txn[r] EXCEPT !.writes = writes, !.next = seq,
                                  !.sums = sums, !.charge = charge]]
    BY <1>7 DEF AnswerComplete, StreamCompletes, Answered, Completed, WithReply
  <2>2. txn'[r].creates = txn[r].creates /\ txn'[r].session = txn[r].session
    BY <2>1 DEF Txn
  <2> QED
    BY <1>7, <2>2 DEF AnswerComplete, StreamCompletes, Answered, Goto, tables, Resolved
<1>8. CASE StreamStops(r)
  <2>1. PICK seq, writes :
          txn' = [txn EXCEPT ![r] = [txn[r] EXCEPT !.writes = writes, !.next = seq]]
    BY <1>8 DEF StreamStops, WithReply
  <2>2. txn'[r].creates = txn[r].creates /\ txn'[r].session = txn[r].session
    BY <2>1 DEF Txn
  <2> QED
    BY <1>8, <2>2 DEF StreamStops, Goto, tables, Resolved
<1>9. CASE Abandoned(r)
  BY <1>9 DEF Abandoned, Goto, tables, Resolved
\* A commit inserts the session of the transaction, if it has one to insert.
<1>10. ASSUME NEW t, Install(req[r].caller, t), lastSid' = lastSid,
              t.creates = txn[r].creates, t.session = txn[r].session,
              ~ txn'[r].creates, req[r].caller \in Guests /\ txn[r].creates => HoldsGuest(r)
       PROVE  Kept \/ Inserted
  BY <1>10 DEF Install, Charged
<1>11. ASSUME pc[r] \in {"generating", "closing"}
       PROVE  req[r].caller \in Guests /\ txn[r].creates => HoldsGuest(r)
  BY <1>11 DEF HoldsGuest
<1>12. ASSUME NEW status
       PROVE  /\ WithReply(r, status).creates = txn[r].creates
              /\ WithReply(r, status).session = txn[r].session
  BY DEF WithReply, Txn
<1>13. CASE AnswerFails(r)
  BY <1>10, <1>11, <1>12, <1>13 DEF AnswerFails, NoTxn
<1>14. CASE AnswerCanned(r)
  BY <1>10, <1>11, <1>12, <1>14 DEF AnswerCanned, NoTxn
<1>15. CASE DenyStream(r)
  BY <1>1, <1>10, <1>11, <1>12, <1>15 DEF DenyStream, NoTxn
<1>16. CASE PersistStatic(r)
  <2>1. CASE Refuse(r, "internal_error")
    BY <1>1, <2>1
  <2>2. CASE ~ Refuse(r, "internal_error")
    <3>1. PICK sums, charge, seq, writes :
            txn' = [txn EXCEPT ![r] =
                     [txn[r] EXCEPT !.writes = writes, !.next = seq,
                                    !.sums = sums, !.charge = charge]]
      BY <1>16, <2>2 DEF PersistStatic, Completed
    <3>2. ~ txn'[r].creates
      BY <1>16, <3>1 DEF Txn, PersistStatic, StaticIsDenial
    <3>3. lastSid' = lastSid /\ owner' = owner
      BY <1>16, <2>2 DEF PersistStatic, tables
    <3> QED
      BY <3>2, <3>3
  <2> QED
    BY <2>1, <2>2
<1>17. CASE Commit(r)
  BY <1>10, <1>11, <1>17 DEF Commit, NoTxn
<1>18. CASE Open(r)
  <2>1. req[r] \in Submissions /\ req[r].kind = "open" /\ ~ txn[r].creates
    BY <1>18 DEF Open, CreatorsApart, Apart, Resolved
  <2> QED
    BY <1>18, <2>1, SubmissionsAssumption DEF Open
<1>19. CASE DeleteLookup(r)
  BY <1>1, <1>19 DEF DeleteLookup, tables, CreatorsApart, Apart, Resolved
<1>20. CASE DeleteRow(r)
  BY <1>20 DEF DeleteRow, CreatorsApart, Apart, Resolved
<1>21. CASE Abort(r)
  BY <1>21 DEF Abort, NoTxn, tables
<1> QED
  BY <1>2, <1>3, <1>4, <1>5, <1>6, <1>7, <1>8, <1>9, <1>13, <1>14, <1>15, <1>16,
     <1>17, <1>18, <1>19, <1>20, <1>21 DEF Progress

LEMMA SessionInvInit == Init => SessionInv
<1>1. ASSUME Init
      PROVE  /\ \A s \in Sids : owner[s] = NoOne
             /\ \A r \in Requests : ~ txn[r].creates
  BY <1>1 DEF Init, NoTxn
<1> QED
  BY <1>1, LockInvInit, CallersAssumption
     DEF SessionInv, IdsInOrder, CreatorsApart, OneSessionPerGuest, Callers

\* Each shape of step OwnerFootprint lists keeps the invariant.
LEMMA SessionInvProgress ==
    ASSUME SessionInv, TypeOK', NEW r \in Requests, Progress(r) \/ Abort(r)
    PROVE  IdsInOrder' /\ CreatorsApart' /\ OneSessionPerGuest'
<1> USE DEF SessionInv, LockInv, TypeOK
<1>f. /\ req' = req
      /\ \A q \in Requests \ {r} : pc'[q] = pc[q] /\ txn'[q] = txn[q]
  BY LockFootprint
<1>o. \A s \in Sids : \A c \in Callers : owner[s] = c => owner[s] # NoOne
  BY CallersAssumption
<1>c. pc[r] # "idle" /\ req[r].caller \in Callers
  BY LockFootprint, SubmissionsAssumption DEF Request
<1>a. ASSUME NEW q \in Requests, txn[q].creates
      PROVE  Apart(q) /\ txn[q].session \in Sids
  BY <1>a DEF CreatorsApart, Apart, Txn
<1>1. CASE /\ lastSid' = lastSid
           /\ \A s \in Sids : owner'[s] \in {owner[s], NoOne}
           /\ txn'[r].creates =>
                 /\ txn[r].creates /\ txn'[r].session = txn[r].session
                 /\ pc'[r] \in Resolved \ {"static"}
  <2>1. \A q \in Requests : txn'[q].creates =>
              /\ txn[q].creates /\ txn'[q].session = txn[q].session
              /\ req'[q] = req[q]
              /\ pc'[q] \in Resolved \ {"static"}
    BY <1>1, <1>f DEF CreatorsApart, Apart
  <2> QED
    BY <1>1, <2>1, NoNewSession
\* The session of transaction txn[r] is inserted.
<1>2. CASE /\ lastSid' = lastSid
           /\ txn[r].creates /\ ~ txn'[r].creates
           /\ owner' = [owner EXCEPT ![txn[r].session] = req[r].caller]
           /\ req[r].caller \in Guests => HoldsGuest(r)
  <2> DEFINE c == req[r].caller
             new == txn[r].session
  <2>1. Apart(r) /\ new \in Sids
    BY <1>2, <1>a
  <2>2. IdsInOrder'
    BY <1>2, <2>1 DEF IdsInOrder, Apart
  <2>3. ASSUME NEW q \in Requests, txn'[q].creates
        PROVE  Apart(q)'
    <3>1. q # r /\ txn'[q] = txn[q] /\ pc'[q] = pc[q] /\ Apart(q)
      BY <1>2, <1>f, <1>a, <2>3
    <3>2. txn[q].session # new /\ owner'[txn'[q].session] = NoOne
      BY <1>2, <1>a, <2>1, <2>3, <3>1 DEF Apart
    <3>3. req[q].caller \in Guests => req[q].caller # c
      <4>1. req[q].caller \in Guests => HoldsGuest(q)
        BY <1>a, <2>3, <3>1 DEF HoldsGuest, Apart, Resolved
      <4> QED
        BY <1>2, <3>1, <4>1, GuestLockExcludes
    <3> QED
      BY <1>2, <1>f, <2>3, <3>1, <3>2, <3>3 DEF Apart
  <2>4. OneSessionPerGuest'
    BY <1>2, <2>1, CallersAssumption DEF OneSessionPerGuest, Apart
  <2> QED
    BY <2>2, <2>3, <2>4 DEF CreatorsApart
\* create_session: a new id, a user's.
<1>3. CASE /\ lastSid' = lastSid + 1
           /\ txn' = txn /\ ~ txn[r].creates
           /\ req[r].caller \in Users
           /\ owner' = [owner EXCEPT ![lastSid + 1] = req[r].caller]
  <2>1. lastSid + 1 \in Sids
    BY <1>3, BoundsAssumption DEF Sids
  <2>2. IdsInOrder'
    BY <1>3, <2>1, BoundsAssumption DEF IdsInOrder, Sids
  <2>3. ASSUME NEW q \in Requests, txn'[q].creates
        PROVE  Apart(q)'
    <3>1. q # r /\ pc'[q] = pc[q] /\ Apart(q) /\ txn[q].session \in Sids
      BY <1>3, <1>f, <1>a, <2>3
    <3>2. txn[q].session # lastSid + 1
      BY <3>1 DEF Apart, Sids
    <3>3. owner'[txn'[q].session] = NoOne /\ txn'[q].session <= lastSid'
      BY <1>3, <3>1, <3>2 DEF Apart, Sids
    <3>4. req[q].caller \in Guests => \A s \in Sids : owner'[s] # req[q].caller
      BY <1>3, <2>1, <3>1, CallersAssumption DEF Apart
    <3> QED
      BY <1>3, <1>f, <3>1, <3>3, <3>4 DEF Apart
  <2>4. OneSessionPerGuest'
    BY <1>3, <2>1, CallersAssumption DEF OneSessionPerGuest
  <2> QED
    BY <2>2, <2>3, <2>4 DEF CreatorsApart
\* A turn begins to create a session: the id is new, the owner has none.
<1>4. CASE /\ lastSid' = lastSid + 1
           /\ owner' = owner
           /\ txn'[r].creates /\ txn'[r].session = lastSid + 1
           /\ pc'[r] \in Resolved \ {"static"}
           /\ HoldsGuest(r)' \/ req[r].caller \notin Guests
           /\ req[r].caller \in Guests => \A s \in Sids : owner[s] # req[r].caller
  <2>1. lastSid + 1 \in Sids
    BY <1>4, BoundsAssumption DEF Sids
  <2>2. IdsInOrder'
    BY <1>4, BoundsAssumption DEF IdsInOrder, Sids
  <2>3. \A q \in Requests \ {r} : txn[q].creates => txn[q].session # lastSid + 1
    BY <1>a DEF Apart, Sids
  <2>4. ASSUME NEW q \in Requests, txn'[q].creates
        PROVE  Apart(q)'
    <3>1. CASE q = r
      <4>1. owner[lastSid + 1] = NoOne
        BY <2>1 DEF IdsInOrder
      <4> QED
        BY <1>4, <1>f, <2>3, <3>1, <4>1 DEF Apart
    <3>2. CASE q # r
      <4>1. txn'[q] = txn[q] /\ pc'[q] = pc[q] /\ Apart(q) /\ txn[q].session \in Sids
        BY <1>f, <1>a, <2>4, <3>2
      <4>2. /\ txn[q].session # lastSid + 1 /\ txn[q].session <= lastSid'
            /\ txn'[q].session = txn[q].session
        BY <1>4, <2>3, <2>4, <3>2, <4>1 DEF Apart, Sids
      <4>3. \A p \in Requests :
               txn'[p].creates /\ txn'[p].session = txn'[q].session => p = q
        BY <1>4, <1>f, <3>2, <4>1, <4>2 DEF Apart
      <4> QED
        BY <1>4, <1>f, <4>1, <4>2, <4>3 DEF Apart
    <3> QED
      BY <3>1, <3>2
  <2>5. OneSessionPerGuest'
    BY <1>4 DEF OneSessionPerGuest
  <2> QED
    BY <2>2, <2>4, <2>5 DEF CreatorsApart
<1> QED
  BY <1>1, <1>2, <1>3, <1>4, OwnerFootprint

LEMMA SessionInvNext ==
    ASSUME SessionInv, [Next]_vars
    PROVE  SessionInv'
<1>1. LockInv' /\ TypeOK'
  BY LockInvNext DEF SessionInv, LockInv
<1>2. ASSUME NEW r \in Requests, Begin(r)
      PROVE  IdsInOrder' /\ CreatorsApart' /\ OneSessionPerGuest'
  <2>1. /\ pc[r] = "idle" /\ pc' = [pc EXCEPT ![r] = "admitted"]
        /\ UNCHANGED <<owner, lastSid, txn>>
        /\ \A q \in Requests \ {r} : req'[q] = req[q]
    BY <1>2 DEF Begin, Goto, tables, SessionInv, LockInv, TypeOK
  <2>2. \A q \in Requests : txn'[q].creates =>
              /\ txn[q].creates /\ txn'[q].session = txn[q].session
              /\ req'[q] = req[q]
              /\ pc'[q] \in Resolved \ {"static"}
    BY <2>1 DEF SessionInv, LockInv, TypeOK, CreatorsApart, Apart, Resolved
  <2>3. lastSid' >= lastSid /\ \A s \in Sids : owner'[s] \in {owner[s], NoOne}
    BY <2>1 DEF SessionInv, LockInv, TypeOK
  <2> QED
    BY <1>1, <2>2, <2>3, NoNewSession
<1>3. ASSUME NEW r \in Requests, Progress(r) \/ Abort(r)
      PROVE  IdsInOrder' /\ CreatorsApart' /\ OneSessionPerGuest'
  BY <1>1, <1>3, SessionInvProgress
<1>4. ASSUME UNCHANGED vars \/ Midnight
      PROVE  IdsInOrder' /\ CreatorsApart' /\ OneSessionPerGuest'
  <2>1. UNCHANGED <<owner, lastSid, pc, req, txn>>
    BY <1>4 DEF vars, Midnight, tables
  <2> QED
    BY <2>1 DEF SessionInv, IdsInOrder, CreatorsApart, Apart, OneSessionPerGuest
<1>5. IdsInOrder' /\ CreatorsApart' /\ OneSessionPerGuest'
  BY <1>2, <1>3, <1>4 DEF Next, Finished
<1> QED
  BY <1>1, <1>5 DEF SessionInv

\* However many first turns of a guest race, and however they fail, the guest
\* never owns two sessions: the row lock taken by touch, not any constraint of
\* the schema, makes get_default_guest_session-then-create_session atomic.
THEOREM GuestHasOneSession == Spec => []OneSessionPerGuest
<1>1. Init => SessionInv
  BY SessionInvInit
<1>2. SessionInv /\ [Next]_vars => SessionInv'
  BY SessionInvNext
<1>3. SessionInv => OneSessionPerGuest
  BY DEF SessionInv
<1> QED
  BY <1>1, <1>2, <1>3, PTL DEF Spec

-----------------------------------------------------------------------------
(* The daily quota, as long as no guest stream is denied.                  *)

NoDenials == \A q \in Submissions : q.kind # "stream_denial"

PastCheck(r) ==
    /\ pc[r] \in {"checked", "lookup", "replying", "fresh", "generating"}
    /\ req[r].caller \in Guests

\* Nothing is charged to a day that has not begun; a guest whose turn has
\* passed the check still has room today, and one whose turn is about to
\* commit has room on the day it was charged to.
FutureUncharged == \A g \in Guests, w \in Windows : w > window => quota[g][w] = 0
RoomAfterCheck ==
    \A r \in Requests : PastCheck(r) => quota[req[r].caller][window] < DailyQuota
RoomToCommit ==
    \A r \in Requests : txn[r].charge # 0 =>
        /\ pc[r] = "closing" /\ req[r].caller \in Guests
        /\ txn[r].charge <= window
        /\ quota[req[r].caller][txn[r].charge] < DailyQuota

QuotaInv == /\ LockInv /\ QuotaBound
            /\ FutureUncharged /\ RoomAfterCheck /\ RoomToCommit

\* What a step of a request does to the counters: nothing, or it commits the
\* charge this request holds; and a charge is for today and follows a check.
LEMMA ChargeFootprint ==
    ASSUME NoDenials, QuotaInv, NEW r \in Requests, Progress(r) \/ Abort(r)
    PROVE  \/ /\ quota' = quota
              /\ PastCheck(r)' =>
                    \/ PastCheck(r)
                    \/ quota[req[r].caller][window] < DailyQuota
              /\ txn'[r].charge # 0 =>
                    /\ PastCheck(r) /\ pc'[r] = "closing"
                    /\ txn'[r].charge = window
           \/ /\ txn[r].charge # 0 /\ txn'[r].charge = 0 /\ pc'[r] = "done"
              /\ quota' = [quota EXCEPT ![req[r].caller][txn[r].charge] = @ + 1]
<1> DEFINE Uncharged == /\ quota' = quota
                        /\ PastCheck(r)' =>
                              \/ PastCheck(r)
                              \/ quota[req[r].caller][window] < DailyQuota
                        /\ txn'[r].charge # 0 =>
                              /\ PastCheck(r) /\ pc'[r] = "closing"
                              /\ txn'[r].charge = window
<1> USE DEF QuotaInv, LockInv, TypeOK
<1>f. req' = req /\ window' = window
  BY LockFootprint
<1>s. pc[r] # "static" /\ (pc[r] # "idle" => req[r].kind # "stream_denial")
  BY DEF NoDenials, StaticIsDenial
<1>0. pc[r] # "closing" => txn[r].charge = 0
  BY DEF RoomToCommit
<1>1. ASSUME NEW result, Refuse(r, result)
      PROVE  Uncharged
  BY <1>1 DEF Refuse, Goto, NoTxn, tables, PastCheck
<1>2. CASE CheckQuota(r)
  BY <1>0, <1>1, <1>2 DEF CheckQuota, Goto, PastCheck, tables
<1>3. CASE ResolveSession(r)
  <2>1. ASSUME NEW id, NEW new,
               txn' = [txn EXCEPT ![r] = [NoTxn EXCEPT !.session = id,
                                                       !.creates = new]],
               quota' = quota
        PROVE  Uncharged
    BY <1>3, <1>f, <2>1 DEF ResolveSession, NoTxn, PastCheck
  <2> QED
    BY <1>1, <1>3, <2>1 DEF ResolveSession, tables
<1>4. CASE FindPrior(r)
  <2>1. txn'[r].charge = txn[r].charge
    BY <1>4 DEF FindPrior, Txn
  <2> QED
    BY <1>0, <1>4, <2>1 DEF FindPrior, Goto, PastCheck, tables
<1>5. CASE FindReply(r)
  BY <1>0, <1>5 DEF FindReply, Goto, PastCheck, tables
<1>6. CASE AppendUser(r)
  <2>1. CASE Refuse(r, "database_error") \/ Refuse(r, "internal_error")
    BY <1>1, <2>1
  <2>2. CASE ~ (Refuse(r, "database_error") \/ Refuse(r, "internal_error"))
    <3>1. PICK next, writes :
            txn' = [txn EXCEPT ![r] = [txn[r] EXCEPT !.next = next, !.writes = writes]]
      BY <1>6, <2>2 DEF AppendUser
    <3>2. txn'[r].charge = txn[r].charge
      BY <3>1 DEF Txn
    <3>3. quota' = quota /\ pc[r] = "fresh"
      BY <1>6, <2>2 DEF AppendUser, tables
    <3> QED
      BY <1>0, <1>f, <3>2, <3>3 DEF PastCheck
  <2> QED
    BY <2>1, <2>2
<1>7. CASE AnswerComplete(r) \/ StreamCompletes(r)
  <2>1. PICK sums, seq, writes :
          txn' = [txn EXCEPT ![r] =
                   [txn[r] EXCEPT !.writes = writes, !.next = seq, !.sums = sums,
                                  !.charge = IF req[r].caller \in Guests
                                             THEN window ELSE 0]]
    BY <1>7 DEF AnswerComplete, StreamCompletes, Answered, Completed, WithReply
  <2>2. txn'[r].charge = IF req[r].caller \in Guests THEN window ELSE 0
    BY <2>1 DEF Txn
  <2> QED
    BY <1>7, <2>2 DEF AnswerComplete, StreamCompletes, Answered, Goto, PastCheck, tables
<1>8. CASE StreamStops(r)
  <2>1. PICK seq, writes :
          txn' = [txn EXCEPT ![r] = [txn[r] EXCEPT !.writes = writes, !.next = seq]]
    BY <1>8 DEF StreamStops, WithReply
  <2>2. txn'[r].charge = txn[r].charge
    BY <2>1 DEF Txn
  <2> QED
    BY <1>0, <1>8, <2>2 DEF StreamStops, Goto, PastCheck, tables
<1>9. CASE Abandoned(r)
  BY <1>0, <1>9 DEF Abandoned, Goto, PastCheck, tables
<1>10. CASE AnswerFails(r) \/ AnswerCanned(r)
  <2>1. \A status : WithReply(r, status).charge = txn[r].charge
    BY DEF WithReply, Txn
  <2> QED
    BY <1>0, <1>10, <2>1 DEF AnswerFails, AnswerCanned, Install, Charged, Goto, NoTxn, PastCheck
<1>11. CASE Commit(r)
  BY <1>11 DEF Commit, Install, Charged, Goto, NoTxn, PastCheck
<1>12. CASE Open(r) \/ DeleteRow(r)
  BY <1>0, <1>12 DEF Open, DeleteRow, Goto, PastCheck
<1>13. CASE DeleteLookup(r)
  BY <1>0, <1>1, <1>13 DEF DeleteLookup, Goto, PastCheck, tables
<1>14. CASE Abort(r)
  BY <1>14 DEF Abort, Goto, NoTxn, PastCheck, tables
<1>15. ~ DenyStream(r) /\ ~ PersistStatic(r)
  BY <1>s DEF DenyStream, PersistStatic
<1> QED
  BY <1>2, <1>3, <1>4, <1>5, <1>6, <1>7, <1>8, <1>9, <1>10, <1>11, <1>12, <1>13,
     <1>14, <1>15 DEF Progress

LEMMA QuotaInvInit == Init => QuotaInv
<1>1. ASSUME Init
      PROVE  /\ \A g \in Guests, w \in Windows : quota[g][w] = 0
             /\ \A r \in Requests : txn[r].charge = 0 /\ pc[r] = "idle"
  BY <1>1 DEF Init, NoTxn
<1> QED
  BY <1>1, LockInvInit, BoundsAssumption
     DEF QuotaInv, QuotaBound, FutureUncharged, RoomAfterCheck, RoomToCommit, PastCheck

\* A request that commits a charge spends the room only it could see.
LEMMA QuotaInvProgress ==
    ASSUME NoDenials, QuotaInv, NEW r \in Requests, Progress(r) \/ Abort(r)
    PROVE  QuotaBound' /\ FutureUncharged' /\ RoomAfterCheck' /\ RoomToCommit'
<1> USE DEF QuotaInv, LockInv, TypeOK
<1>f. /\ req' = req /\ window' = window
      /\ \A q \in Requests \ {r} : pc'[q] = pc[q] /\ txn'[q] = txn[q]
  BY LockFootprint
<1>1. CASE /\ quota' = quota
           /\ PastCheck(r)' =>
                 \/ PastCheck(r)
                 \/ quota[req[r].caller][window] < DailyQuota
           /\ txn'[r].charge # 0 =>
                 /\ PastCheck(r) /\ pc'[r] = "closing"
                 /\ txn'[r].charge = window
  <2>1. QuotaBound' /\ FutureUncharged'
    BY <1>1, <1>f DEF QuotaBound, FutureUncharged
  <2>2. RoomAfterCheck'
    BY <1>1, <1>f DEF RoomAfterCheck, PastCheck
  <2>3. ASSUME NEW q \in Requests, txn'[q].charge # 0
        PROVE  /\ pc'[q] = "closing" /\ req'[q].caller \in Guests
               /\ txn'[q].charge <= window'
               /\ quota'[req'[q].caller][txn'[q].charge] < DailyQuota
    <3>1. CASE q = r
      BY <1>1, <1>f, <2>3, <3>1 DEF RoomAfterCheck, PastCheck, Windows
    <3>2. CASE q # r
      BY <1>1, <1>f, <2>3, <3>2 DEF RoomToCommit
    <3> QED
      BY <3>1, <3>2
  <2> QED
    BY <2>1, <2>2, <2>3 DEF RoomToCommit
<1>2. CASE /\ txn[r].charge # 0 /\ txn'[r].charge = 0 /\ pc'[r] = "done"
           /\ quota' = [quota EXCEPT ![req[r].caller][txn[r].charge] = @ + 1]
  <2> DEFINE c == req[r].caller
             day == txn[r].charge
  <2>1. /\ pc[r] = "closing" /\ c \in Guests /\ day <= window
        /\ quota[c][day] < DailyQuota
    BY <1>2 DEF RoomToCommit
  <2>2. day \in Windows /\ HoldsGuest(r)
    BY <1>2, <2>1, BoundsAssumption
       DEF Txn, Windows, HoldsGuest, NoDenials
  <2>3. \A g \in Guests, w \in Windows :
           quota'[g][w] = IF g = c /\ w = day THEN quota[g][w] + 1 ELSE quota[g][w]
    BY <1>2, <2>1, <2>2
  <2>4. QuotaBound'
    BY <2>1, <2>2, <2>3, BoundsAssumption DEF QuotaBound
  <2>5. FutureUncharged'
    BY <1>f, <2>1, <2>3 DEF FutureUncharged, Windows
  \* No other request of this guest is anywhere near its own commit.
  <2>6. ASSUME NEW q \in Requests, q # r, HoldsGuest(q)
        PROVE  req[q].caller # c
    BY <2>2, <2>6, GuestLockExcludes
  <2>7. ASSUME NEW q \in Requests, PastCheck(q)'
        PROVE  quota'[req'[q].caller][window'] < DailyQuota
    <3>1. q # r /\ PastCheck(q) /\ HoldsGuest(q)
      BY <1>2, <1>f, <2>7 DEF PastCheck, HoldsGuest
    <3> QED
      BY <1>f, <2>3, <2>6, <3>1 DEF RoomAfterCheck, PastCheck
  <2>8. ASSUME NEW q \in Requests, txn'[q].charge # 0
        PROVE  /\ pc'[q] = "closing" /\ req'[q].caller \in Guests
               /\ txn'[q].charge <= window'
               /\ quota'[req'[q].caller][txn'[q].charge] < DailyQuota
    <3>1. q # r /\ txn'[q] = txn[q] /\ pc'[q] = pc[q]
      BY <1>2, <1>f, <2>8
    <3>2. pc[q] = "closing" /\ req[q].caller \in Guests /\ txn[q].charge <= window
          /\ quota[req[q].caller][txn[q].charge] < DailyQuota
      BY <2>8, <3>1 DEF RoomToCommit
    <3>3. HoldsGuest(q) /\ txn[q].charge \in Windows
      BY <2>8, <3>1, <3>2, BoundsAssumption DEF Txn, Windows, HoldsGuest, NoDenials
    <3> QED
      BY <1>f, <2>3, <2>6, <3>1, <3>2, <3>3
  <2> QED
    BY <2>4, <2>5, <2>7, <2>8 DEF RoomAfterCheck, RoomToCommit
<1> QED
  BY <1>1, <1>2, ChargeFootprint

LEMMA QuotaInvNext ==
    ASSUME NoDenials, QuotaInv, [Next]_vars
    PROVE  QuotaInv'
<1>1. LockInv'
  BY LockInvNext DEF QuotaInv
<1> USE DEF QuotaInv, LockInv, TypeOK
<1>2. ASSUME NEW r \in Requests, Begin(r)
      PROVE  QuotaBound' /\ FutureUncharged' /\ RoomAfterCheck' /\ RoomToCommit'
  <2>1. /\ pc[r] = "idle" /\ pc' = [pc EXCEPT ![r] = "admitted"]
        /\ UNCHANGED <<quota, window, txn>>
        /\ \A q \in Requests \ {r} : req'[q] = req[q]
    BY <1>2 DEF Begin, Goto, tables
  <2> QED
    BY <2>1 DEF QuotaBound, FutureUncharged, RoomAfterCheck, RoomToCommit, PastCheck
<1>3. ASSUME NEW r \in Requests, Progress(r) \/ Abort(r)
      PROVE  QuotaBound' /\ FutureUncharged' /\ RoomAfterCheck' /\ RoomToCommit'
  BY <1>3, QuotaInvProgress
<1>4. ASSUME Midnight
      PROVE  QuotaBound' /\ FutureUncharged' /\ RoomAfterCheck' /\ RoomToCommit'
  <2>1. /\ window' = window + 1 /\ window' \in Windows
        /\ UNCHANGED <<quota, pc, req, txn>>
    BY <1>4, BoundsAssumption DEF Midnight, tables, Windows
  <2>2. QuotaBound' /\ FutureUncharged'
    BY <2>1 DEF QuotaBound, FutureUncharged, Windows
  <2>3. RoomAfterCheck'
    BY <2>1, BoundsAssumption DEF RoomAfterCheck, PastCheck, FutureUncharged, Windows
  <2>4. RoomToCommit'
    BY <2>1 DEF RoomToCommit, Txn, Windows
  <2> QED
    BY <2>2, <2>3, <2>4
<1>5. ASSUME UNCHANGED vars
      PROVE  QuotaBound' /\ FutureUncharged' /\ RoomAfterCheck' /\ RoomToCommit'
  <2>1. UNCHANGED <<quota, window, pc, req, txn>>
    BY <1>5 DEF vars, tables
  <2> QED
    BY <2>1 DEF QuotaBound, FutureUncharged, RoomAfterCheck, RoomToCommit, PastCheck
<1>6. QuotaBound' /\ FutureUncharged' /\ RoomAfterCheck' /\ RoomToCommit'
  BY <1>2, <1>3, <1>4, <1>5 DEF Next, Finished
<1> QED
  BY <1>1, <1>6

\* Unless a guest's stream is denied, no guest is ever charged more than the
\* daily quota in any window, across midnight included: check_message_quota
\* and record_message_usage run under the guest row lock of one transaction.
THEOREM QuotaRespected ==
    ASSUME NoDenials
    PROVE  Spec => []QuotaBound
<1>1. Init => QuotaInv
  BY QuotaInvInit
<1>2. QuotaInv /\ [Next]_vars => QuotaInv'
  BY QuotaInvNext
<1>3. QuotaInv => QuotaBound
  BY DEF QuotaInv
<1> QED
  BY <1>1, <1>2, <1>3, PTL DEF Spec

-----------------------------------------------------------------------------
(* Sums over the days.                                                     *)

\* Spent as a function of the counters of one guest.
UpTo(q) == CHOOSE f : f = [w \in 0 .. LastWindow |-> IF w = 0 THEN 0 ELSE f[w - 1] + q[w]]
SumsOver(n, f, q) ==
    /\ f \in [0 .. n -> Nat]
    /\ \A w \in 0 .. n : f[w] = IF w = 0 THEN 0 ELSE f[w - 1] + q[w]

LEMMA SpentIsSum ==
    ASSUME NEW g
    PROVE  Spent(g) = UpTo(quota[g])[LastWindow] /\ Spent(g)' = UpTo(quota'[g])[LastWindow]
BY DEF Spent, UpTo

\* A set of numbers has a least one.
LEMMA LeastNumber ==
    ASSUME NEW T \in SUBSET Nat, T # {}
    PROVE  \E n \in T : \A m \in T : n <= m
<1>1. PICK n \in T : \A m \in T : ~ (<<m, n>> \in OpToRel(<, Nat))
  BY NatLessThanWellFounded, WFMin
<1>2. \A m \in T : ~ (m < n)
  BY <1>1 DEF OpToRel
<1> QED
  BY <1>2

LEMMA SumsExist ==
    ASSUME NEW q \in [Windows -> Nat]
    PROVE  \A n \in 0 .. LastWindow : \E f : SumsOver(n, f, q)
<1> DEFINE Bad == {n \in 0 .. LastWindow : ~ \E f : SumsOver(n, f, q)}
<1>1. SUFFICES ASSUME Bad # {}
               PROVE  FALSE
  OBVIOUS
<1>2. PICK n \in Bad : \A m \in Bad : n <= m
  <2>1. Bad \in SUBSET Nat
    BY BoundsAssumption
  <2> HIDE DEF Bad
  <2> QED
    BY <1>1, <2>1, LeastNumber
<1>3. n \in 0 .. LastWindow /\ LastWindow \in Nat
  BY BoundsAssumption
<1>4. CASE n = 0
  <2>1. SumsOver(0, [w \in 0 .. 0 |-> 0], q)
    BY DEF SumsOver
  <2> QED
    BY <1>2, <1>4, <2>1
<1>5. CASE n # 0
  <2>1. n - 1 \in 0 .. LastWindow /\ n - 1 \notin Bad
    BY <1>2, <1>3, <1>5
  <2>2. PICK f : SumsOver(n - 1, f, q)
    BY <2>1
  <2> DEFINE h == [w \in 0 .. n |-> IF w = n THEN f[n - 1] + q[n] ELSE f[w]]
  <2>3. q[n] \in Nat /\ n \in Windows
    BY <1>3, <1>5 DEF Windows
  <2>4. h \in [0 .. n -> Nat]
    BY <1>3, <1>5, <2>2, <2>3 DEF SumsOver
  <2>5. \A w \in 0 .. n : h[w] = IF w = 0 THEN 0 ELSE h[w - 1] + q[w]
    <3>1. SUFFICES ASSUME NEW w \in 0 .. n
                   PROVE  h[w] = IF w = 0 THEN 0 ELSE h[w - 1] + q[w]
      OBVIOUS
    <3>2. CASE w = n
      BY <1>3, <1>5, <3>2
    <3>3. CASE w # n
      <4>1. w \in 0 .. n - 1 /\ h[w] = f[w]
        BY <1>3, <3>3
      <4>2. w # 0 => w - 1 \in 0 .. n /\ w - 1 # n /\ h[w - 1] = f[w - 1]
        BY <1>3, <4>1
      <4> QED
        BY <2>2, <4>1, <4>2 DEF SumsOver
    <3> QED
      BY <3>2, <3>3
  <2> HIDE DEF h
  <2>6. SumsOver(n, h, q)
    BY <2>4, <2>5 DEF SumsOver
  <2> QED
    BY <1>2, <2>6
<1> QED
  BY <1>4, <1>5

LEMMA UpToSums ==
    ASSUME NEW q \in [Windows -> Nat]
    PROVE  SumsOver(LastWindow, UpTo(q), q)
<1>1. LastWindow \in Nat /\ LastWindow \in 0 .. LastWindow
  BY BoundsAssumption
<1>2. PICK f : SumsOver(LastWindow, f, q)
  BY <1>1, SumsExist
<1>3. f = [w \in 0 .. LastWindow |-> IF w = 0 THEN 0 ELSE f[w - 1] + q[w]]
  BY <1>2 DEF SumsOver
<1>4. UpTo(q) = [w \in 0 .. LastWindow |-> IF w = 0 THEN 0 ELSE UpTo(q)[w - 1] + q[w]]
  BY <1>3 DEF UpTo
<1>5. \A w \in 0 .. LastWindow : UpTo(q)[w] = f[w]
  <2> DEFINE Bad == {w \in 0 .. LastWindow : UpTo(q)[w] # f[w]}
  <2>1. SUFFICES ASSUME Bad # {}
                 PROVE  FALSE
    OBVIOUS
  <2>2. PICK n \in Bad : \A m \in Bad : n <= m
    <3>1. Bad \in SUBSET Nat
      BY BoundsAssumption
    <3> HIDE DEF Bad
    <3> QED
      BY <2>1, <3>1, LeastNumber
  <2>3. n # 0
    BY <1>3, <1>4, <2>2
  <2>4. n - 1 \in 0 .. LastWindow /\ n - 1 \notin Bad
    BY <1>1, <2>2, <2>3
  <2>5. UpTo(q)[n] = UpTo(q)[n - 1] + q[n] /\ f[n] = f[n - 1] + q[n]
    BY <1>2, <1>4, <2>2, <2>3 DEF SumsOver
  <2> QED
    BY <2>2, <2>4, <2>5
<1>6. UpTo(q) \in [0 .. LastWindow -> Nat]
  BY <1>2, <1>4, <1>5 DEF SumsOver
<1> QED
  BY <1>4, <1>6 DEF SumsOver

\* One more turn in one window is one more in all.
LEMMA OneMoreSpent ==
    ASSUME NEW q \in [Windows -> Nat], NEW v \in Windows
    PROVE  UpTo([q EXCEPT ![v] = @ + 1])[LastWindow] = UpTo(q)[LastWindow] + 1
<1> DEFINE p == [q EXCEPT ![v] = @ + 1]
<1>1. p \in [Windows -> Nat] /\ p[v] = q[v] + 1 /\ \A w \in Windows \ {v} : p[w] = q[w]
  OBVIOUS
<1> HIDE DEF p
<1>2. SumsOver(LastWindow, UpTo(p), p) /\ SumsOver(LastWindow, UpTo(q), q)
  BY <1>1, UpToSums
<1>3. PICK a, b : a = UpTo(p) /\ b = UpTo(q)
  OBVIOUS
<1>4. /\ a \in [0 .. LastWindow -> Nat] /\ b \in [0 .. LastWindow -> Nat]
      /\ \A w \in 0 .. LastWindow : /\ a[w] = IF w = 0 THEN 0 ELSE a[w - 1] + p[w]
                                    /\ b[w] = IF w = 0 THEN 0 ELSE b[w - 1] + q[w]
  BY <1>2, <1>3 DEF SumsOver
<1> DEFINE Bad == {w \in 0 .. LastWindow : a[w] # b[w] + (IF w < v THEN 0 ELSE 1)}
<1>5. Bad = {}
  <2>1. SUFFICES ASSUME Bad # {}
                 PROVE  FALSE
    OBVIOUS
  <2>2. PICK n \in Bad : \A m \in Bad : n <= m
    <3>1. Bad \in SUBSET Nat
      BY BoundsAssumption
    <3> HIDE DEF Bad
    <3> QED
      BY <2>1, <3>1, LeastNumber
  <2>0. LastWindow \in Nat /\ v \in 1 .. LastWindow /\ n \in 0 .. LastWindow
    BY BoundsAssumption, <2>2 DEF Windows
  <2>3. n # 0
    BY <1>4, <2>0, <2>2
  <2>4. n - 1 \in 0 .. LastWindow /\ n - 1 \notin Bad /\ n \in Windows
    BY <2>0, <2>2, <2>3 DEF Windows
  <2>5. a[n] = a[n - 1] + p[n] /\ b[n] = b[n - 1] + q[n]
    BY <1>4, <2>0, <2>3
  <2>6. a[n - 1] = b[n - 1] + (IF n - 1 < v THEN 0 ELSE 1)
    BY <2>4
  <2>7. q[n] \in Nat /\ b[n - 1] \in Nat /\ p[n] = IF n = v THEN q[n] + 1 ELSE q[n]
    BY <1>1, <1>4, <2>4
  <2>8. a[n] = b[n] + (IF n < v THEN 0 ELSE 1)
    BY <2>0, <2>5, <2>6, <2>7
  <2> QED
    BY <2>2, <2>8
<1>6. LastWindow \in 0 .. LastWindow /\ ~ (LastWindow < v)
  BY BoundsAssumption DEF Windows
<1>7. a[LastWindow] = b[LastWindow] + 1
  BY <1>5, <1>6
<1> QED
  BY <1>3, <1>7 DEF p

-----------------------------------------------------------------------------
(* What a guest was charged is the turns it was answered.                  *)

\* A turn a guest is charged for.
Counted(r) ==
    /\ pc[r] = "done" /\ outcome[r] = "ok"
    /\ req[r].caller \in Guests /\ req[r].kind # "canned"

\* A transaction about to commit holds a charge exactly if the guest has been
\* told its turn is complete.
ChargeHeld(r) ==
    /\ txn[r].charge # 0 => /\ pc[r] = "closing" /\ outcome[r] = "ok"
                            /\ req[r].caller \in Guests /\ req[r].kind # "canned"
    /\ (/\ pc[r] = "closing" /\ outcome[r] = "ok"
        /\ req[r].caller \in Guests /\ req[r].kind # "canned") => txn[r].charge # 0
    /\ outcome[r] = "ok" => pc[r] \in {"closing", "done"}
    /\ pc[r] = "deleting" => req[r].caller \notin Guests

ChargesHeld == \A r \in Requests : ChargeHeld(r)
Begun   == {r \in Requests : pc[r] # "idle"}
BillInv == LockInv /\ IsFiniteSet(Begun) /\ ChargesHeld /\ ChargedExactlyOnce

\* A request that is over takes no step.
LEMMA StepsTaken ==
    ASSUME TypeOK, NEW r \in Requests, Progress(r) \/ Abort(r)
    PROVE  pc[r] # "done"
BY DEF Progress, CheckQuota, ResolveSession, FindPrior, FindReply, AppendUser,
       AnswerComplete, AnswerFails, StreamCompletes, StreamStops, Abandoned,
       AnswerCanned, DenyStream, PersistStatic, Commit, Open, DeleteLookup,
       DeleteRow, Abort

\* A step of a request either bills nothing, or commits the charge it holds and
\* makes it a turn to be charged for.
LEMMA BillFootprint ==
    ASSUME LockInv, NEW r \in Requests, ChargeHeld(r), Progress(r) \/ Abort(r)
    PROVE  /\ \A q \in Requests \ {r} : outcome'[q] = outcome[q]
           /\ ChargeHeld(r)'
           /\ \/ quota' = quota /\ ~ Counted(r)'
              \/ /\ txn[r].charge # 0 /\ req[r].caller \in Guests /\ Counted(r)'
                 /\ quota' = [quota EXCEPT ![req[r].caller][txn[r].charge] = @ + 1]
<1> DEFINE Others == \A q \in Requests \ {r} : outcome'[q] = outcome[q]
           Free   == Others /\ ChargeHeld(r)' /\ quota' = quota /\ ~ Counted(r)'
           Billed == /\ Others /\ ChargeHeld(r)'
                     /\ txn[r].charge # 0 /\ req[r].caller \in Guests /\ Counted(r)'
                     /\ quota' = [quota EXCEPT ![req[r].caller][txn[r].charge] = @ + 1]
<1> USE DEF LockInv, TypeOK
<1>f. req' = req /\ pc[r] # "idle"
  BY LockFootprint
<1>0. pc[r] # "closing" => txn[r].charge = 0
  BY DEF ChargeHeld
<1>k. /\ outcome \in [Requests -> Results] /\ pc \in [Requests -> Stages]
      /\ txn \in [Requests -> Txn] /\ txn[r] \in Txn
      /\ \A w \in Windows : w # 0
  BY DEF Windows
<1>c. req[r] \in Submissions /\ Guests \cap Users = {}
  BY <1>f, CallersAssumption
\* Three shapes of step: without an answer, with one, and without a charge.
<1>1. ASSUME NEW result, result # "ok", outcome' = [outcome EXCEPT ![r] = result],
             quota' = quota, txn'[r].charge = 0, pc'[r] # "deleting"
      PROVE  Free
  BY <1>1, <1>k, <1>f DEF ChargeHeld, Counted
<1>2. ASSUME outcome' = outcome, quota' = quota, txn'[r].charge = 0,
             pc[r] \notin {"closing", "done"}, pc'[r] \notin {"closing", "done"},
             pc'[r] = "deleting" => req[r].kind = "delete"
      PROVE  Free
  BY <1>2, <1>c, <1>k, <1>f, SubmissionsAssumption DEF ChargeHeld, Counted
<1>3. ASSUME NEW result, Refuse(r, result), result # "ok"
      PROVE  Free
  BY <1>1, <1>3, <1>k DEF Refuse, Goto, NoTxn, tables
<1>4. ASSUME NEW t \in Txn, Completed(r, t)
      PROVE  txn'[r].charge = IF req[r].caller \in Guests THEN window ELSE 0
  BY <1>4, <1>k DEF Completed, Txn
<1>5. CASE CheckQuota(r)
  BY <1>0, <1>2, <1>3, <1>5, <1>k DEF CheckQuota, Goto, tables
<1>6. CASE ResolveSession(r)
  <2>1. ASSUME NEW id, NEW new,
               txn' = [txn EXCEPT ![r] = [NoTxn EXCEPT !.session = id,
                                                       !.creates = new]]
        PROVE  txn'[r].charge = 0
    BY <1>k, <2>1 DEF NoTxn
  <2> QED
    BY <1>2, <1>3, <1>6, <1>k, <2>1 DEF ResolveSession, AfterResolve, Goto, tables
<1>7. CASE FindPrior(r)
  <2>1. txn'[r].charge = txn[r].charge
    BY <1>7, <1>k DEF FindPrior, Txn
  <2> QED
    BY <1>0, <1>2, <1>7, <1>k, <2>1 DEF FindPrior, Goto, tables
<1>8. CASE FindReply(r)
  BY <1>0, <1>1, <1>2, <1>8, <1>k DEF FindReply, Goto, tables, NoTxn
<1>9. CASE AppendUser(r)
  <2>1. CASE Refuse(r, "database_error") \/ Refuse(r, "internal_error")
    BY <1>3, <2>1
  <2>2. CASE ~ (Refuse(r, "database_error") \/ Refuse(r, "internal_error"))
    <3>1. PICK next, writes :
            txn' = [txn EXCEPT ![r] = [txn[r] EXCEPT !.next = next, !.writes = writes]]
      BY <1>9, <2>2 DEF AppendUser
    <3>2. txn'[r].charge = txn[r].charge
      BY <1>k, <3>1 DEF Txn
    <3>3. quota' = quota /\ outcome' = outcome /\ pc[r] = "fresh" /\ pc'[r] = "generating"
      BY <1>9, <1>k, <2>2 DEF AppendUser, Goto, tables
    <3> QED
      BY <1>0, <1>2, <3>2, <3>3
  <2> QED
    BY <2>1, <2>2
<1>10. ASSUME NEW t \in Txn, Completed(r, t), pc'[r] = "closing", req[r].kind # "canned",
              outcome' = [outcome EXCEPT ![r] = "ok"], quota' = quota
       PROVE  Free
  <2>1. txn'[r].charge = IF req[r].caller \in Guests THEN window ELSE 0
    BY <1>4, <1>10
  <2>2. window # 0
    BY <1>k
  <2> QED
    BY <1>10, <1>f, <1>k, <2>1, <2>2 DEF ChargeHeld, Counted
<1>11. CASE AnswerComplete(r) \/ StreamCompletes(r)
  <2>1. pc[r] \in Resolved /\ "complete" \in Outcomes
    BY <1>11 DEF AnswerComplete, StreamCompletes, Resolved, Outcomes
  <2>2. WithReply(r, "complete") \in Txn
    BY <2>1, WithReplyType
  <2> QED
    BY <1>10, <1>11, <1>k, <2>2 DEF AnswerComplete, StreamCompletes, Answered, Goto, tables
<1>12. CASE StreamStops(r)
  <2>1. PICK seq, writes :
          txn' = [txn EXCEPT ![r] = [txn[r] EXCEPT !.writes = writes, !.next = seq]]
    BY <1>12 DEF StreamStops, WithReply
  <2>2. txn'[r].charge = txn[r].charge
    BY <1>k, <2>1 DEF Txn
  <2> QED
    BY <1>0, <1>1, <1>12, <1>k, <2>2 DEF StreamStops, Goto, tables
<1>13. CASE Abandoned(r)
  BY <1>0, <1>1, <1>13, <1>k DEF Abandoned, Goto, tables
<1>14. CASE AnswerFails(r) \/ AnswerCanned(r)
  <2>1. \A status : WithReply(r, status).charge = txn[r].charge
    BY <1>k DEF WithReply, Txn
  <2>2. quota' = quota /\ txn'[r].charge = 0 /\ pc'[r] = "done"
    BY <1>0, <1>14, <1>k, <2>1 DEF AnswerFails, AnswerCanned, Install, Charged, NoTxn, Goto
  <2>3. CASE AnswerFails(r)
    BY <1>1, <2>2, <2>3 DEF AnswerFails
  <2>4. CASE AnswerCanned(r)
    BY <1>f, <1>k, <2>2, <2>4 DEF AnswerCanned, ChargeHeld, Counted
  <2> QED
    BY <1>14, <2>3, <2>4
<1>15. CASE DenyStream(r)
  <2>1. \A status : WithReply(r, status).charge = txn[r].charge
    BY <1>k DEF WithReply, Txn
  <2> QED
    BY <1>0, <1>2, <1>3, <1>15, <1>k, <2>1 DEF DenyStream, Install, Charged, NoTxn, Goto
<1>16. CASE PersistStatic(r)
  <2>1. CASE Refuse(r, "internal_error")
    BY <1>3, <2>1
  <2>2. CASE ~ Refuse(r, "internal_error")
    <3> DEFINE s == txn[r].session
               t == [txn[r] EXCEPT !.writes = {Reply(r, nextSeq[s], "complete")},
                                   !.next = nextSeq[s] + 1]
    <3>1. txn'[r].charge = IF req[r].caller \in Guests THEN window ELSE 0
      <4>1. PICK sums, writes, next :
               txn' = [txn EXCEPT ![r] =
                        [[txn[r] EXCEPT !.writes = writes, !.next = next] EXCEPT
                            !.sums = sums,
                            !.charge = IF req[r].caller \in Guests THEN window ELSE 0]]
        BY <1>16, <2>2 DEF PersistStatic, Completed
      <4> QED
        BY <1>k, <4>1 DEF Txn
    <3>2. req[r].kind # "canned"
      BY <1>16 DEF PersistStatic, StaticIsDenial
    <3>3. /\ pc'[r] = "closing" /\ outcome' = [outcome EXCEPT ![r] = "ok"]
          /\ quota' = quota /\ window # 0
      BY <1>16, <1>k, <2>2 DEF PersistStatic, Goto, tables
    <3> QED
      BY <1>f, <1>k, <3>1, <3>2, <3>3 DEF ChargeHeld, Counted
  <2> QED
    BY <2>1, <2>2
<1>17. CASE Commit(r)
  <2>1. /\ pc[r] = "closing" /\ pc'[r] = "done" /\ outcome' = outcome /\ txn'[r].charge = 0
        /\ quota' = IF txn[r].charge = 0 THEN quota
                    ELSE [quota EXCEPT ![req[r].caller][txn[r].charge] = @ + 1]
    BY <1>17, <1>k DEF Commit, Install, Charged, Goto, NoTxn
  <2>2. CASE txn[r].charge = 0
    <3>1. Free
      BY <1>f, <2>1, <2>2 DEF ChargeHeld, Counted
    <3> QED
      BY <3>1
  <2>3. CASE txn[r].charge # 0
    <3>1. Billed
      BY <1>f, <2>1, <2>3 DEF ChargeHeld, Counted
    <3> QED
      BY <3>1
  <2> QED
    BY <2>2, <2>3
<1>18. CASE Open(r) \/ DeleteRow(r)
  <2>1. req[r].caller \notin Guests
    BY <1>18, <1>c, SubmissionsAssumption DEF Open, DeleteRow, ChargeHeld
  <2> QED
    BY <1>0, <1>f, <1>18, <1>k, <2>1 DEF Open, DeleteRow, Goto, ChargeHeld, Counted
<1>19. CASE DeleteLookup(r)
  BY <1>0, <1>2, <1>3, <1>19, <1>k DEF DeleteLookup, Goto, tables
<1>20. CASE Abort(r)
  BY <1>1, <1>20, <1>k DEF Abort, Goto, NoTxn, tables
<1> QED
  BY <1>5, <1>6, <1>7, <1>8, <1>9, <1>11, <1>12, <1>13, <1>14, <1>15, <1>16, <1>17,
     <1>18, <1>19, <1>20 DEF Progress

\* The answered turns of guest g.
Bill(g) == {r \in Requests : Counted(r) /\ req[r].caller = g}

LEMMA BillIs ==
    /\ ChargedExactlyOnce <=>
          \A g \in Guests : UpTo(quota[g])[LastWindow] = Cardinality(Bill(g))
    /\ ChargedExactlyOnce' <=>
          \A g \in Guests : UpTo(quota'[g])[LastWindow] = Cardinality(Bill(g)')
<1>1. \A g \in Guests :
         /\ Bill(g) = {r \in Requests : /\ pc[r] = "done" /\ outcome[r] = "ok"
                                        /\ req[r].caller = g /\ req[r].kind # "canned"}
         /\ Bill(g)' = {r \in Requests : /\ pc'[r] = "done" /\ outcome'[r] = "ok"
                                         /\ req'[r].caller = g /\ req'[r].kind # "canned"}
  BY DEF Bill, Counted
<1> QED
  BY <1>1, SpentIsSum DEF ChargedExactlyOnce

LEMMA BillInvInit == Init => BillInv
<1> SUFFICES ASSUME Init
             PROVE  BillInv
  OBVIOUS
<1>1. Begun = {} /\ \A g \in Guests : Bill(g) = {}
  BY DEF Init, Begun, Bill, Counted
<1>2. ChargesHeld
  BY DEF Init, ChargesHeld, ChargeHeld, NoTxn
<1>3. ASSUME NEW g \in Guests
      PROVE  UpTo(quota[g])[LastWindow] = 0
  <2>1. quota[g] \in [Windows -> Nat] /\ \A w \in Windows : quota[g][w] = 0
    BY <1>3 DEF Init
  <2>2. PICK q \in [Windows -> Nat] : q = quota[g]
    BY <2>1
  <2>3. PICK f : f = UpTo(q) /\ SumsOver(LastWindow, f, q)
    BY UpToSums
  <2>4. LastWindow \in Nat /\ LastWindow \in 0 .. LastWindow
    BY BoundsAssumption
  <2> DEFINE Bad == {w \in 0 .. LastWindow : f[w] # 0}
  <2>5. Bad = {}
    <3>1. SUFFICES ASSUME Bad # {}
                   PROVE  FALSE
      OBVIOUS
    <3>2. PICK n \in Bad : \A m \in Bad : n <= m
      <4>1. Bad \in SUBSET Nat
        BY <2>4
      <4> HIDE DEF Bad
      <4> QED
        BY <3>1, <4>1, LeastNumber
    <3>3. n # 0
      BY <2>3, <3>2 DEF SumsOver
    <3>4. n - 1 \in 0 .. LastWindow /\ n - 1 \notin Bad /\ n \in Windows
      BY <2>4, <3>2, <3>3 DEF Windows
    <3>5. f[n] = f[n - 1] + q[n]
      BY <2>3, <3>2, <3>3 DEF SumsOver
    <3> QED
      BY <2>1, <2>2, <3>2, <3>4, <3>5
  <2> QED
    BY <2>2, <2>3, <2>4, <2>5
<1>4. ChargedExactlyOnce
  BY <1>1, <1>3, BillIs, FS_EmptySet
<1> QED
  BY <1>1, <1>2, <1>4, FS_EmptySet, LockInvInit DEF BillInv

LEMMA BillInvProgress ==
    ASSUME BillInv, NEW r \in Requests, Progress(r) \/ Abort(r)
    PROVE  IsFiniteSet(Begun)' /\ ChargesHeld' /\ ChargedExactlyOnce'
<1>0. LockInv /\ TypeOK /\ ChargeHeld(r)
  BY DEF BillInv, LockInv, ChargesHeld
<1>1. /\ req' = req /\ pc[r] # "idle" /\ pc'[r] # "idle" /\ pc[r] # "done"
      /\ \A q \in Requests \ {r} : pc'[q] = pc[q] /\ txn'[q] = txn[q]
  <2>1. pc[r] # "done"
    BY <1>0, StepsTaken
  <2> QED
    BY <1>0, <2>1, LockFootprint
<1>2. /\ \A q \in Requests \ {r} : outcome'[q] = outcome[q]
      /\ ChargeHeld(r)'
      /\ \/ quota' = quota /\ ~ Counted(r)'
         \/ /\ txn[r].charge # 0 /\ req[r].caller \in Guests /\ Counted(r)'
            /\ quota' = [quota EXCEPT ![req[r].caller][txn[r].charge] = @ + 1]
  BY <1>0, BillFootprint
<1>3. Begun' = Begun
  BY <1>1 DEF Begun
<1>4. ChargesHeld'
  BY <1>1, <1>2 DEF BillInv, ChargesHeld, ChargeHeld
<1>5. ASSUME NEW g \in Guests
      PROVE  Bill(g)' = IF Counted(r)' /\ req[r].caller = g THEN Bill(g) \cup {r} ELSE Bill(g)
  <2>1. \A q \in Requests \ {r} : Counted(q)' <=> Counted(q)
    BY <1>1, <1>2 DEF Counted
  <2>2. ~ Counted(r)
    BY <1>1 DEF Counted
  <2> QED
    BY <1>1, <2>1, <2>2 DEF Bill
<1>6. ASSUME NEW g \in Guests
      PROVE  /\ IsFiniteSet(Bill(g)) /\ r \notin Bill(g)
             /\ UpTo(quota[g])[LastWindow] = Cardinality(Bill(g))
  <2>1. Bill(g) \subseteq Begun
    BY DEF Bill, Begun, Counted
  <2>2. r \notin Bill(g)
    BY <1>1 DEF Bill, Counted
  <2> QED
    BY <2>1, <2>2, BillIs, FS_Subset DEF BillInv
<1>7. ASSUME NEW g \in Guests
      PROVE  UpTo(quota'[g])[LastWindow] = Cardinality(Bill(g)')
  <2>1. CASE quota' = quota /\ ~ Counted(r)'
    BY <1>5, <1>6, <2>1
  <2>2. CASE /\ txn[r].charge # 0 /\ req[r].caller \in Guests /\ Counted(r)'
             /\ quota' = [quota EXCEPT ![req[r].caller][txn[r].charge] = @ + 1]
    <3>1. quota \in [Guests -> [Windows -> Nat]]
      BY <1>0 DEF TypeOK
    <3>2. CASE req[r].caller # g
      <4>1. quota'[g] = quota[g]
        BY <2>2, <3>1, <3>2
      <4> QED
        BY <1>5, <1>6, <3>2, <4>1
    <3>3. CASE req[r].caller = g
      <4>1. PICK v \in Windows : v = txn[r].charge
        BY <1>0, <2>2 DEF TypeOK, Txn, Windows
      <4>2. PICK q \in [Windows -> Nat] : q = quota[g]
        BY <3>1
      <4>3. quota'[g] = [q EXCEPT ![v] = @ + 1]
        BY <2>2, <3>1, <3>3, <4>1, <4>2
      <4>4. UpTo(quota'[g])[LastWindow] = UpTo(q)[LastWindow] + 1
        BY <4>3, OneMoreSpent
      <4>5. Cardinality(Bill(g) \cup {r}) = Cardinality(Bill(g)) + 1
        BY <1>6, FS_AddElement
      <4>6. Bill(g)' = Bill(g) \cup {r}
        BY <1>5, <2>2, <3>3
      <4> QED
        BY <1>6, <4>2, <4>4, <4>5, <4>6
    <3> QED
      BY <3>2, <3>3
  <2> QED
    BY <1>2, <2>1, <2>2
<1>8. ChargedExactlyOnce'
  BY <1>7, BillIs
<1> QED
  BY <1>3, <1>4, <1>8 DEF BillInv

LEMMA BillInvNext ==
    ASSUME BillInv, [Next]_vars
    PROVE  BillInv'
<1>1. LockInv'
  BY LockInvNext DEF BillInv
<1>2. ASSUME quota' = quota, IsFiniteSet(Begun'), ChargesHeld',
             \A g \in Guests : Bill(g)' = Bill(g)
      PROVE  BillInv'
  <2>1. ChargedExactlyOnce'
    BY <1>2, BillIs DEF BillInv
  <2> QED
    BY <1>1, <1>2, <2>1 DEF BillInv
<1>3. ASSUME NEW r \in Requests, Progress(r) \/ Abort(r)
      PROVE  BillInv'
  BY <1>1, <1>3, BillInvProgress DEF BillInv
<1>4. ASSUME NEW r \in Requests, Begin(r)
      PROVE  BillInv'
  <2>1. /\ pc[r] = "idle" /\ pc'[r] = "admitted" /\ quota' = quota
        /\ outcome' = outcome /\ txn' = txn
        /\ \A q \in Requests \ {r} : pc'[q] = pc[q] /\ req'[q] = req[q]
    BY <1>4 DEF BillInv, LockInv, TypeOK, Begin, Goto, tables
  <2>2. Begun' = Begun \cup {r}
    BY <2>1 DEF Begun
  <2>3. ChargesHeld'
    BY <2>1 DEF BillInv, ChargesHeld, ChargeHeld
  <2>4. \A g \in Guests : Bill(g)' = Bill(g)
    BY <2>1 DEF Bill, Counted
  <2>5. IsFiniteSet(Begun')
    BY <2>2, FS_AddElement DEF BillInv
  <2> QED
    BY <1>2, <2>1, <2>3, <2>4, <2>5
<1>5. CASE Midnight \/ UNCHANGED vars
  <2>1. UNCHANGED <<quota, pc, req, txn, outcome>>
    BY <1>5 DEF Midnight, vars, tables
  <2>2. Begun' = Begun /\ ChargesHeld' /\ \A g \in Guests : Bill(g)' = Bill(g)
    BY <2>1 DEF BillInv, Begun, ChargesHeld, ChargeHeld, Bill, Counted
  <2> QED
    BY <1>2, <2>1, <2>2 DEF BillInv
<1> QED
  BY <1>3, <1>4, <1>5 DEF Next, Finished

\* What a guest was charged is exactly the turns it was answered, whatever
\* fails, is retried, denied or rolled back, on any number of days: routers/
\* chat.py commits the counter of _maybe_increment_quota with the answer.
THEOREM ChargedForAnswersOnly == Spec => []ChargedExactlyOnce
<1>1. BillInv /\ [Next]_vars => BillInv'
  BY BillInvNext
<1>2. BillInv => ChargedExactlyOnce
  BY DEF BillInv
<1> QED
  BY <1>1, <1>2, BillInvInit, PTL DEF Spec
=============================================================================
