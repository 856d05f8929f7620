-------------------------- MODULE ChatTurnsLogProofs --------------------------
(***************************************************************************)
(* Proofs about what a session stores: its numbering, its summaries, the   *)
(* replays answered from it, and that it is a log of turns.                *)
(*                                                                         *)
(* The rows a transaction has written continue the session as it is        *)
(* stored, because the session row stays locked until they are committed.  *)
(***************************************************************************)
EXTENDS ChatTurnsProofs, ChatTurnsLog, SequenceTheorems

-----------------------------------------------------------------------------
(* The invariant: uncommitted rows continue the committed ones.            *)

Extends(t) ==
    /\ nextSeq[t.session] < t.next
    /\ {m.seq : m \in t.writes} = nextSeq[t.session] .. t.next - 1
    /\ \A m \in t.writes : m.session = t.session
    /\ \A m, n \in t.writes : m.seq = n.seq => m = n

Continues(u, t) ==
    /\ u.session = t.session /\ u.version >= 1
    /\ \A v \in summaries : v.session = u.session => v.version < u.version
    /\ \A n \in 1 .. u.version - 1 :
          \E v \in summaries : v.session = u.session /\ v.version = n
    /\ \E m \in t.writes :
          m.seq = u.covers /\ m.role = "assistant" /\ m.status = "complete"

SumsContinue(t) == \A u, v \in t.sums : u = v /\ Continues(u, t)

\* A question alone, and a question with its reply.
Asked(r, w)  == \E n \in Nat : w = {Question(r, n)}
Turned(r, w) == \E n \in Nat, e \in Outcomes : w = {Question(r, n), Reply(r, n + 1, e)}
\* A denied stream behind its first commit.
Second(r) == req[r].kind = "stream_denial" /\ pc[r] # "generating"
\* What a request may commit: a whole turn, or once more the answer of a denied
\* stream, or the question alone if its answer was cut off.
Full(r, w) ==
    IF Second(r) THEN \E n \in Nat : w = {Reply(r, n, "complete")}
    ELSE Turned(r, w)
CutOff(r, w) ==
    Asked(r, w) /\ outcome[r] = "abandoned" /\ req[r].kind # "stream_denial"
Whole(r, w) == Full(r, w) \/ CutOff(r, w)

NewKey(r) == ~ Second(r) => ~ KeyTaken(r)

InOrder(r) ==
    /\ pc[r] \in {"generating", "closing"}
    /\ rowHolder[txn[r].session] = r
    /\ txn[r].creates \/ owner[txn[r].session] # NoOne
    /\ Extends(txn[r])
    /\ pc[r] = "generating" => Asked(r, txn[r].writes)
    /\ pc[r] = "closing" => Whole(r, txn[r].writes)
    /\ NewKey(r)

\* What request r has written is in order, and r answers only a question it
\* has written.
RequestInv(r) ==
    /\ txn[r].writes # {} => InOrder(r)
    /\ SumsContinue(txn[r])
    /\ pc[r] = "generating" => txn[r].writes # {}

StoreInv ==
    /\ \A s \in Sids : nextSeq[s] >= 1
    /\ \A u \in summaries : u.version >= 1
    /\ SeqIntegrity /\ SummariesChain

RequestsInv == \A r \in Requests : RequestInv(r)
LogInv == SessionInv /\ StoreInv /\ RequestsInv

-----------------------------------------------------------------------------
(* Lemmas about the rows and the locks.                                    *)

\* A step of a request takes only a free row lock and releases only its own.
LEMMA RowFootprint ==
    ASSUME LockInv, NEW r \in Requests, Progress(r) \/ Abort(r), NEW s \in Sids
    PROVE  \/ rowHolder'[s] = rowHolder[s]
           \/ rowHolder[s] = NoOne /\ rowHolder'[s] = r
           \/ rowHolder[s] = r /\ rowHolder'[s] = NoOne
<1> USE DEF LockInv, TypeOK
<1>1. ASSUME Release(r)
      PROVE  rowHolder'[s] = rowHolder[s] \/ (rowHolder[s] = r /\ rowHolder'[s] = NoOne)
  BY <1>1 DEF Release
<1>2. CASE CheckQuota(r) \/ DeleteLookup(r) \/ ResolveSession(r)
  BY <1>1, <1>2 DEF CheckQuota, DeleteLookup, ResolveSession, Refuse, locks
<1>3. CASE FindPrior(r) \/ FindReply(r)
  BY <1>3 DEF FindPrior, FindReply, locks
<1>4. CASE AppendUser(r)
  BY <1>1, <1>4 DEF AppendUser, RowFree, Refuse
<1>5. CASE AnswerComplete(r) \/ StreamCompletes(r) \/ StreamStops(r) \/ Abandoned(r)
  BY <1>5 DEF AnswerComplete, StreamCompletes, StreamStops, Abandoned, Answered, locks
<1>6. CASE AnswerFails(r) \/ AnswerCanned(r) \/ DenyStream(r) \/ Commit(r) \/ Abort(r)
  BY <1>1, <1>6 DEF AnswerFails, AnswerCanned, DenyStream, Commit, Abort, Refuse
<1>7. CASE PersistStatic(r)
  BY <1>1, <1>7 DEF PersistStatic, RowFree, Refuse
<1>8. CASE Open(r) \/ DeleteRow(r)
  BY <1>8 DEF Open, DeleteRow, locks
<1> QED
  BY <1>2, <1>3, <1>4, <1>5, <1>6, <1>7, <1>8 DEF Progress

\* The reply is the row after the last one written.
LEMMA ReplyExtends ==
    ASSUME LogInv, NEW r \in Requests, pc[r] = "generating", NEW status \in Outcomes
    PROVE  LET t == WithReply(r, status)
           IN  /\ t \in Txn /\ t.session = txn[r].session /\ t.session \in Sids
               /\ t.creates = txn[r].creates /\ t.charge = txn[r].charge
               /\ t.prior = txn[r].prior
               /\ t.writes = txn[r].writes \cup {Reply(r, txn[r].next, status)}
               /\ t.next = txn[r].next + 1 /\ Extends(t) /\ SumsContinue(t)
               /\ Turned(r, t.writes)
               /\ \E m \in t.writes :
                     m.seq = t.next - 1 /\ m.role = "assistant" /\ m.status = status
<1> DEFINE t == WithReply(r, status)
           m == Reply(r, txn[r].next, status)
<1>0. TypeOK /\ InOrder(r) /\ SumsContinue(txn[r]) /\ pc[r] \in Resolved
  BY DEF LogInv, RequestsInv, RequestInv, SessionInv, LockInv, Resolved
<1>1. t \in Txn /\ t.session = txn[r].session /\ t.session \in Sids
  BY <1>0, WithReplyType
<1>2. txn[r] \in Txn /\ txn[r].next \in Nat /\ nextSeq[txn[r].session] \in Nat
  BY <1>0, <1>1 DEF TypeOK, Txn
<1>3. /\ t.creates = txn[r].creates /\ t.charge = txn[r].charge /\ t.sums = txn[r].sums
      /\ t.prior = txn[r].prior
      /\ t.writes = txn[r].writes \cup {m} /\ t.next = txn[r].next + 1
  BY <1>2 DEF WithReply, Txn
<1>4. /\ m.seq = txn[r].next /\ m.session = txn[r].session
      /\ m.role = "assistant" /\ m.status = status
  BY DEF Reply
<1> HIDE DEF t, m
<1>5. {x.seq : x \in t.writes} = nextSeq[t.session] .. t.next - 1
  <2>1. {x.seq : x \in t.writes} = {x.seq : x \in txn[r].writes} \cup {txn[r].next}
    BY <1>3, <1>4
  <2>2. {x.seq : x \in txn[r].writes} = nextSeq[t.session] .. txn[r].next - 1
        /\ nextSeq[t.session] < txn[r].next
    BY <1>0, <1>1 DEF InOrder, Extends
  <2> DEFINE a == nextSeq[t.session]  b == txn[r].next
  <2>3. a \in Nat /\ b \in Nat /\ a < b /\ t.next - 1 = b
    BY <1>1, <1>2, <1>3, <2>2
  <2> HIDE DEF a, b
  <2>4. a .. b = (a .. b - 1) \cup {b}
    BY <2>3
  <2> QED
    BY <2>1, <2>2, <2>3, <2>4 DEF a, b
<1>6. \A x \in txn[r].writes : x.seq # txn[r].next
  <2>1. \A x \in txn[r].writes : x.seq \in nextSeq[txn[r].session] .. txn[r].next - 1
    BY <1>0 DEF InOrder, Extends
  <2> QED
    BY <1>2, <2>1
<1>7. Extends(t)
  BY <1>0, <1>1, <1>2, <1>3, <1>4, <1>5, <1>6 DEF InOrder, Extends
<1>8. SumsContinue(t)
  BY <1>0, <1>1, <1>3 DEF SumsContinue, Continues
<1>9. m \in t.writes /\ m.seq = t.next - 1 /\ m.role = "assistant" /\ m.status = status
  BY <1>2, <1>3, <1>4
<1>10. Turned(r, t.writes)
  <2>1. PICK n \in Nat : txn[r].writes = {Question(r, n)}
    BY <1>0 DEF InOrder, Asked
  <2>2. Question(r, n).seq = n
    BY DEF Question
  <2>3. {n} = nextSeq[txn[r].session] .. txn[r].next - 1
    BY <1>0, <2>1, <2>2 DEF InOrder, Extends
  <2>4. txn[r].next = n + 1
    <3> DEFINE a == nextSeq[txn[r].session]  b == txn[r].next
    <3>1. a \in Nat /\ b \in Nat /\ a < b /\ {n} = a .. b - 1
      BY <1>0, <1>2, <2>3 DEF InOrder, Extends
    <3> HIDE DEF a, b
    <3>2. a \in a .. b - 1 /\ b - 1 \in a .. b - 1
      BY <3>1
    <3>3. n = b - 1
      BY <3>1, <3>2
    <3> QED
      BY <3>1, <3>3 DEF b
  <2>5. t.writes = {Question(r, n), Reply(r, n + 1, status)}
    BY <1>3, <2>1, <2>4 DEF m
  <2> QED
    BY <2>5 DEF Turned
<1> QED
  BY <1>1, <1>3, <1>7, <1>8, <1>9, <1>10 DEF t, m

\* A summary is chosen that continues the session's summaries.
LEMMA SummaryContinues ==
    ASSUME LogInv, NEW t \in Txn, t.session \in Sids, t.next >= 1,
           \E m \in t.writes :
              m.seq = t.next - 1 /\ m.role = "assistant" /\ m.status = "complete",
           NEW sums \in SummaryChoices(t)
    PROVE  \A u, v \in sums : u = v /\ Continues(u, t)
<1>1. CASE sums = {}
  BY <1>1
<1>2. CASE sums # {}
  <2>1. PICK old \in Latest(t.session) : sums = {NextSummary(t, old)}
    BY <1>2 DEF SummaryChoices
  <2> DEFINE u == NextSummary(t, old)
  <2>2. u.session = t.session /\ u.version = old.version + 1 /\ u.covers = t.next - 1
    BY DEF NextSummary
  <2>3. /\ old.version \in Nat
        /\ \A v \in summaries : v.session = t.session => v.version <= old.version
        /\ (old \in summaries /\ old.session = t.session) \/ old.version = 0
    BY DEF Latest, LogInv, SessionInv, LockInv, TypeOK, Summary
  <2>4. \A v \in summaries : v.version \in Nat
    BY DEF LogInv, SessionInv, LockInv, TypeOK, Summary
  <2> HIDE DEF u
  <2>5. u.version >= 1 /\ \A v \in summaries : v.session = u.session => v.version < u.version
    BY <2>2, <2>3, <2>4
  <2>6. ASSUME NEW n \in 1 .. u.version - 1
        PROVE  \E v \in summaries : v.session = u.session /\ v.version = n
    <3>1. n \in 1 .. old.version /\ old \in summaries /\ old.session = t.session
      BY <2>2, <2>3
    <3> QED
      BY <2>2, <3>1 DEF LogInv, StoreInv, SummariesChain
  <2>7. Continues(u, t)
    BY <2>2, <2>5, <2>6 DEF Continues
  <2> QED
    BY <2>1, <2>7 DEF u
<1> QED
  BY <1>1, <1>2

-----------------------------------------------------------------------------
(* What a step of a request does to the stored rows.                       *)

\* Nothing.
Local == /\ UNCHANGED <<nextSeq, messages, summaries>>
         /\ \A s \in Sids : owner[s] # NoOne => owner'[s] # NoOne

\* It commits what it wrote, and its transaction is over.
Commits(r) ==
    \E t \in Txn :
        /\ Install(req[r].caller, t)
        /\ t.session \in Sids /\ t.session = txn[r].session /\ t.creates = txn[r].creates
        /\ SumsContinue(t)
        /\ t.writes # {} => /\ Extends(t) /\ NewKey(r)
                            /\ pc[r] \in {"generating", "closing"} /\ txn[r].writes # {}
                            /\ \/ Full(r, t.writes)
                               \/ CutOff(r, t.writes) /\ outcome'[r] = "abandoned"
                            /\ rowHolder[t.session] = r
                            /\ t.creates \/ owner[t.session] # NoOne
        /\ txn'[r].writes = {} /\ txn'[r].sums = {} /\ pc'[r] \in {"done", "static"}

\* It deletes a session that nobody has locked.
Deletes(r) ==
    \E s \in Sids :
        /\ RowFree(s)
        /\ owner' = [owner EXCEPT ![s] = NoOne]
        /\ nextSeq' = [nextSeq EXCEPT ![s] = 1]
        /\ messages' = messages \ Stored(s)
        /\ summaries' = {u \in summaries : u.session # s}
        /\ UNCHANGED <<rowHolder, txn>> /\ pc'[r] = "done" /\ txn[r].writes = {}

\* What the rows of a request are depends on its session and key only.
LEMMA SameRows ==
    ASSUME NEW r \in Requests, req' = req, txn'[r].session = txn[r].session,
           NEW w, txn'[r].writes = w
    PROVE  /\ Asked(r, w) => Asked(r, txn[r].writes)'
           /\ (Second(r)' <=> Second(r)) /\ Full(r, w) => Full(r, txn[r].writes)'
           /\ messages' = messages => (KeyTaken(r)' <=> KeyTaken(r))
<1>1. \A n : Question(r, n)' = Question(r, n)
  BY DEF Question
<1>2. \A n, e : Reply(r, n, e)' = Reply(r, n, e)
  BY DEF Reply
<1>3. Asked(r, w) => Asked(r, txn[r].writes)'
  BY <1>1 DEF Asked
<1>4. Turned(r, w) => Turned(r, txn[r].writes)'
  BY <1>1, <1>2 DEF Turned
<1>5. (Second(r)' <=> Second(r)) /\ Full(r, w) => Full(r, txn[r].writes)'
  BY <1>2, <1>4 DEF Full
<1>6. messages' = messages => (KeyTaken(r)' <=> KeyTaken(r))
  BY DEF KeyTaken, Stored
<1> QED
  BY <1>3, <1>5, <1>6

LEMMA LogFootprint ==
    ASSUME LogInv, NEW r \in Requests, Progress(r) \/ Abort(r)
    PROVE  \/ Local /\ RequestInv(r)'
           \/ Commits(r)
           \/ Deletes(r)
<1> DEFINE Kept == Local /\ RequestInv(r)'
<1>0. /\ TypeOK /\ StaticIsDenial /\ RequestInv(r) /\ SumsContinue(txn[r])
      /\ txn \in [Requests -> Txn] /\ pc \in [Requests -> Stages] /\ txn[r] \in Txn
      /\ NoOne \notin Requests
  BY CallersAssumption DEF LogInv, RequestsInv, RequestInv, SessionInv, LockInv, TypeOK
<1>f. req' = req
  BY LockFootprint DEF LogInv, SessionInv
<1>e. txn[r].writes = {} => txn[r].sums = {}
  BY <1>0 DEF SumsContinue, Continues
<1>n. pc[r] \notin {"generating", "closing"} => txn[r].writes = {} /\ txn[r].sums = {}
  BY <1>0, <1>e DEF RequestInv, InOrder
\* A step after which the request has written nothing.
<1>b. ASSUME Local, txn'[r].writes = {}, txn'[r].sums = {}, pc'[r] # "generating"
      PROVE  Kept
  BY <1>b DEF RequestInv, SumsContinue
\* A step that leaves what it has written alone.
<1>k. ASSUME Local, txn' = txn, UNCHANGED <<rowHolder, owner>>,
             pc[r] = "generating", pc'[r] = "closing",
             outcome'[r] = "abandoned", req[r].kind # "stream_denial"
      PROVE  Kept
  <2>1. UNCHANGED <<nextSeq, messages, summaries, owner, rowHolder, txn>>
    BY <1>k DEF Local
  <2>2. Extends(txn[r])' <=> Extends(txn[r])
    BY <2>1 DEF Extends
  <2>3. SumsContinue(txn[r])'
    BY <1>0, <2>1 DEF SumsContinue, Continues
  <2>5. /\ Asked(r, txn[r].writes) => Asked(r, txn[r].writes)'
        /\ KeyTaken(r)' <=> KeyTaken(r)
    BY <1>f, <2>1, SameRows
  <2>6. Asked(r, txn[r].writes) => Whole(r, txn[r].writes)'
    BY <1>f, <1>k, <2>5 DEF Whole, CutOff
  <2>7. NewKey(r) => NewKey(r)'
    BY <1>f, <1>k, <2>5 DEF NewKey, Second
  <2>4. txn[r].writes # {} => InOrder(r)'
    BY <1>0, <1>k, <2>1, <2>2, <2>6, <2>7 DEF RequestInv, InOrder
  <2> QED
    BY <1>k, <2>1, <2>3, <2>4 DEF RequestInv
<1>t. NoTxn.writes = {} /\ NoTxn.sums = {} /\ NoTxn \in Txn
  BY NoTxnType DEF NoTxn
<1>1. ASSUME NEW result, Refuse(r, result)
      PROVE  Kept
  <2>1. Local /\ txn'[r] = NoTxn /\ pc'[r] = "done"
    BY <1>0, <1>1 DEF Refuse, Goto, tables, Local
  <2> QED
    BY <1>b, <1>t, <2>1
<1>2. CASE CheckQuota(r)
  <2>1. CASE Goto(r, "checked") /\ pc[r] = "admitted" /\ UNCHANGED <<tables, locks, window, lastSid,
                                    req, txn, outcome, answer, announced>>
    <3>1. Local /\ txn'[r] = txn[r] /\ pc'[r] = "checked" /\ pc[r] = "admitted"
      BY <1>0, <2>1 DEF Goto, tables, Local
    <3> QED
      BY <1>b, <1>n, <3>1
  <2> QED
    BY <1>1, <1>2, <2>1 DEF CheckQuota
<1>3. CASE ResolveSession(r)
  <2>1. ASSUME NEW id, NEW new,
               txn' = [txn EXCEPT ![r] = [NoTxn EXCEPT !.session = id,
                                                       !.creates = new]],
               Goto(r, AfterResolve(r)),
               UNCHANGED <<tables, locks, window, req, outcome, answer, announced>>
        PROVE  Kept
    <3>1. Local /\ pc'[r] \in {"lookup", "fresh"}
      BY <1>0, <2>1 DEF Goto, AfterResolve, tables, Local
    <3>2. txn'[r].writes = {} /\ txn'[r].sums = {}
      BY <1>0, <2>1 DEF NoTxn
    <3> QED
      BY <1>b, <3>1, <3>2
  <2> QED
    BY <1>1, <1>3, <2>1 DEF ResolveSession
<1>4. CASE FindPrior(r)
  <2>1. Local /\ pc'[r] \in {"fresh", "replying"} /\ pc[r] = "lookup"
    BY <1>0, <1>4 DEF FindPrior, Goto, tables, Local
  <2>2. txn'[r].writes = txn[r].writes /\ txn'[r].sums = txn[r].sums
    BY <1>0, <1>4 DEF FindPrior, Txn
  <2> QED
    BY <1>b, <1>n, <2>1, <2>2
<1>5. CASE FindReply(r)
  <2>1. Local /\ pc'[r] \in {"fresh", "closing"} /\ pc[r] = "replying" /\ txn' = txn
    BY <1>0, <1>5 DEF FindReply, Goto, tables, Local
  <2> QED
    BY <1>b, <1>n, <2>1
<1>6. CASE AppendUser(r)
  <2>1. CASE Refuse(r, "database_error") \/ Refuse(r, "internal_error")
    BY <1>1, <2>1
  <2>2. CASE ~ (Refuse(r, "database_error") \/ Refuse(r, "internal_error"))
    <3> DEFINE s == txn[r].session
               n == nextSeq[s]
               m == Question(r, n)
    <3>1. s \in Sids /\ n \in Nat /\ pc[r] = "fresh"
      BY <1>0, <1>6 DEF AppendUser, TypeOK, Txn, Resolved
    <3>2. /\ txn' = [txn EXCEPT ![r] = [txn[r] EXCEPT !.next = n + 1, !.writes = {m}]]
          /\ rowHolder' = [rowHolder EXCEPT ![s] = r]
          /\ pc' = [pc EXCEPT ![r] = "generating"]
          /\ UNCHANGED tables /\ (txn[r].creates \/ owner[s] # NoOne)
      BY <1>6, <2>2 DEF AppendUser, Goto
    <3>3. m.seq = n /\ m.session = s
      BY DEF Question
    <3> HIDE DEF m
    <3>4. /\ txn'[r].writes = {m} /\ txn'[r].next = n + 1 /\ txn'[r].session = s
          /\ txn'[r].creates = txn[r].creates /\ txn'[r].sums = txn[r].sums
      BY <1>0, <3>2 DEF Txn
    <3>5. txn[r].sums = {} /\ pc'[r] = "generating" /\ rowHolder'[s] = r
      BY <1>0, <1>n, <3>1, <3>2 DEF TypeOK
    <3>6. nextSeq'[s] < n + 1 /\ {x.seq : x \in {m}} = nextSeq'[s] .. (n + 1) - 1
      BY <3>1, <3>2, <3>3 DEF tables
    <3>7. Extends(txn[r])'
      BY <3>3, <3>4, <3>6 DEF Extends
    <3>8. SumsContinue(txn[r])'
      BY <3>4, <3>5 DEF SumsContinue
    <3>11. Asked(r, {m}) /\ ~ KeyTaken(r) /\ messages' = messages
      BY <1>6, <2>2, <3>1, <3>2 DEF m, Asked, AppendUser, tables
    <3>12. Asked(r, txn[r].writes)' /\ NewKey(r)'
      BY <1>f, <3>4, <3>11, SameRows DEF NewKey
    <3>9. InOrder(r)'
      BY <3>2, <3>4, <3>5, <3>7, <3>12 DEF InOrder, tables
    <3>10. Local
      BY <3>2 DEF Local, tables
    <3> QED
      BY <3>4, <3>8, <3>9, <3>10 DEF RequestInv
  <2> QED
    BY <2>1, <2>2
\* Answering: the reply is written, and perhaps a summary.
<1>7. ASSUME NEW t \in Txn, pc[r] \in {"generating", "static"}, Goto(r, "closing"),
             UNCHANGED tables,
             t.session \in Sids, t.next >= 1, t.writes # {}, Extends(t),
             \E m \in t.writes :
                m.seq = t.next - 1 /\ m.role = "assistant" /\ m.status = "complete",
             rowHolder'[t.session] = r, t.creates \/ owner[t.session] # NoOne,
             t.session = txn[r].session, Full(r, t.writes), NewKey(r),
             Second(r)' <=> Second(r), Completed(r, t)
      PROVE  Kept
  <2>1. PICK sums \in SummaryChoices(t) : \E charge :
          txn' = [txn EXCEPT ![r] = [t EXCEPT !.sums = sums, !.charge = charge]]
    BY <1>7 DEF Completed
  <2>2. /\ txn'[r].sums = sums /\ txn'[r].writes = t.writes /\ txn'[r].next = t.next
        /\ txn'[r].session = t.session /\ txn'[r].creates = t.creates
    BY <1>0, <2>1 DEF Txn
  <2>3. \A u, v \in sums : u = v /\ Continues(u, t)
    BY <1>7, <2>1, SummaryContinues
  <2>4. UNCHANGED <<nextSeq, messages, summaries, owner>> /\ pc'[r] = "closing"
    BY <1>0, <1>7 DEF Goto, tables
  <2>5. SumsContinue(txn[r])'
    BY <2>2, <2>3, <2>4 DEF SumsContinue, Continues
  <2>6. Extends(txn[r])'
    BY <1>7, <2>2, <2>4 DEF Extends
  <2>8. Whole(r, txn[r].writes)' /\ NewKey(r)'
    BY <1>7, <1>f, <2>2, <2>4, SameRows DEF Whole, NewKey
  <2>7. InOrder(r)'
    BY <1>7, <2>2, <2>4, <2>6, <2>8 DEF InOrder
  <2> QED
    BY <2>4, <2>5, <2>7 DEF RequestInv, Local
<1>8. ASSUME pc[r] = "generating"
      PROVE  InOrder(r)
  BY <1>0, <1>8 DEF RequestInv
<1>9. CASE AnswerComplete(r) \/ StreamCompletes(r)
  <2> DEFINE t == WithReply(r, "complete")
  <2>1. pc[r] = "generating" /\ Answered(r) /\ "complete" \in Outcomes
    BY <1>9 DEF AnswerComplete, StreamCompletes, Outcomes
  <2>2. /\ t \in Txn /\ t.session = txn[r].session /\ t.session \in Sids
        /\ t.creates = txn[r].creates
        /\ t.writes = txn[r].writes \cup {Reply(r, txn[r].next, "complete")}
        /\ t.next = txn[r].next + 1 /\ Extends(t) /\ Turned(r, t.writes)
        /\ \E m \in t.writes :
              m.seq = t.next - 1 /\ m.role = "assistant" /\ m.status = "complete"
    BY <2>1, ReplyExtends
  <2>3. InOrder(r)
    BY <1>8, <2>1
  <2>6. ~ Second(r) /\ ~ Second(r)' /\ Full(r, t.writes)
    BY <1>f, <1>9, <2>2 DEF AnswerComplete, StreamCompletes, Second, Full
  <2>4. Goto(r, "closing") /\ UNCHANGED tables /\ rowHolder' = rowHolder /\ Completed(r, t)
    BY <2>1 DEF Answered, locks
  <2>5. t.next >= 1 /\ t.writes # {}
    BY <1>0, <2>2 DEF Txn
  <2> HIDE DEF t
  <2> QED
    BY <1>7, <2>1, <2>2, <2>3, <2>4, <2>5, <2>6 DEF InOrder
<1>10. CASE StreamStops(r)
  <2>1. PICK status \in AnswerEnds \cap {"interrupted", "error"} :
            txn' = [txn EXCEPT ![r] = WithReply(r, status)]
    BY <1>10 DEF StreamStops
  <2> DEFINE t == WithReply(r, status)
  <2>2. pc[r] = "generating" /\ status \in Outcomes
    BY <1>10, <2>1, SubmissionsAssumption DEF StreamStops
  <2>3. /\ t \in Txn /\ t.session = txn[r].session /\ t.creates = txn[r].creates
        /\ t.writes # {} /\ Extends(t) /\ SumsContinue(t) /\ Turned(r, t.writes)
    BY <2>2, ReplyExtends
  <2>4. /\ UNCHANGED <<nextSeq, messages, summaries, owner, rowHolder>>
        /\ pc'[r] = "closing"
    BY <1>0, <1>10 DEF StreamStops, Goto, tables, locks
  <2> HIDE DEF t
  <2>5. txn'[r] = t
    BY <1>0, <2>1 DEF t
  <2>6. Extends(txn[r])' /\ SumsContinue(txn[r])'
    BY <2>3, <2>4, <2>5 DEF Extends, SumsContinue, Continues
  <2>9. ~ Second(r) /\ ~ Second(r)' /\ Full(r, t.writes)
    BY <1>f, <1>10, <2>3 DEF StreamStops, Second, Full
  <2>8. Whole(r, txn[r].writes)' /\ (NewKey(r)' <=> NewKey(r))
    BY <1>f, <2>3, <2>4, <2>5, <2>9, SameRows DEF Whole, NewKey
  <2>7. InOrder(r)'
    BY <1>8, <2>2, <2>3, <2>4, <2>5, <2>6, <2>8 DEF InOrder
  <2> QED
    BY <2>4, <2>6, <2>7 DEF RequestInv, Local
<1>11. CASE Abandoned(r)
  <2>1. /\ pc[r] = "generating" /\ pc'[r] = "closing" /\ txn' = txn
        /\ UNCHANGED <<rowHolder, owner>> /\ Local
        /\ outcome'[r] = "abandoned" /\ req[r].kind # "stream_denial"
    BY <1>0, <1>11 DEF Abandoned, Goto, tables, locks, Local, TypeOK
  <2> QED
    BY <1>k, <2>1
\* Committing what was written, with the reply appended or as it is.
<1>12. ASSUME NEW t \in Txn, Install(req[r].caller, t), t.session \in Sids,
              t.session = txn[r].session, t.creates = txn[r].creates,
              t.writes # {} => InOrder(r) /\ txn[r].writes # {} /\ Extends(t),
              t.writes # {} => \/ Full(r, t.writes)
                               \/ CutOff(r, t.writes) /\ outcome'[r] = "abandoned",
              SumsContinue(t),
              txn'[r].writes = {}, txn'[r].sums = {}, pc'[r] \in {"done", "static"}
       PROVE  Commits(r)
  BY <1>12 DEF Commits, InOrder
<1>13. ASSUME pc[r] = "generating", NEW status \in Outcomes,
              Install(req[r].caller, WithReply(r, status)),
              txn'[r].writes = {}, txn'[r].sums = {}, pc'[r] \in {"done", "static"}
       PROVE  Commits(r)
  <2> DEFINE t == WithReply(r, status)
  <2>1. /\ t \in Txn /\ t.session = txn[r].session /\ t.session \in Sids
        /\ t.creates = txn[r].creates /\ Extends(t) /\ SumsContinue(t)
        /\ Full(r, t.writes)
    BY <1>13, ReplyExtends DEF Full, Second
  <2>2. InOrder(r) /\ txn[r].writes # {}
    BY <1>0, <1>8, <1>13 DEF RequestInv
  <2>3. Install(req[r].caller, t)
    BY <1>13
  <2> HIDE DEF t
  <2> QED
    BY <1>12, <1>13, <2>1, <2>2, <2>3
<1>14. CASE AnswerFails(r) \/ AnswerCanned(r)
  <2>1. txn'[r] = NoTxn /\ pc'[r] = "done" /\ pc[r] = "generating"
    BY <1>0, <1>14 DEF AnswerFails, AnswerCanned, Goto
  <2>2. PICK status \in Outcomes : Install(req[r].caller, WithReply(r, status))
    BY <1>14 DEF AnswerFails, AnswerCanned, Outcomes
  <2> QED
    BY <1>13, <1>t, <2>1, <2>2
<1>15. CASE DenyStream(r)
  <2>1. CASE Refuse(r, "quota_exceeded")
    BY <1>1, <2>1
  <2>2. CASE ~ Refuse(r, "quota_exceeded")
    <3>1. txn'[r].writes = {} /\ txn'[r].sums = {} /\ pc'[r] = "static"
      BY <1>0, <1>15, <2>2 DEF DenyStream, Goto, NoTxn
    <3>2. pc[r] = "generating" /\ Install(req[r].caller, WithReply(r, "complete"))
          /\ "complete" \in Outcomes
      BY <1>15, <2>2 DEF DenyStream, Outcomes
    <3> QED
      BY <1>13, <3>1, <3>2
  <2> QED
    BY <2>1, <2>2
<1>16. CASE PersistStatic(r)
  <2>1. CASE Refuse(r, "internal_error")
    BY <1>1, <2>1
  <2>2. CASE ~ Refuse(r, "internal_error")
    <3> DEFINE s == txn[r].session
               n == nextSeq[s]
               m == Reply(r, n, "complete")
               t == [txn[r] EXCEPT !.writes = {m}, !.next = n + 1]
    <3>1. /\ pc[r] = "static" /\ Goto(r, "closing") /\ UNCHANGED tables
          /\ owner[s] # NoOne /\ Completed(r, t)
          /\ rowHolder' = [rowHolder EXCEPT ![s] = r]
      BY <1>16, <2>2 DEF PersistStatic
    <3>2. s \in Sids /\ n \in Nat
      BY <1>0, <3>1 DEF TypeOK, Txn, Resolved
    <3>3. /\ m \in Message /\ m.seq = n /\ m.session = s
          /\ m.role = "assistant" /\ m.status = "complete"
      BY <3>2 DEF Reply, Message, Outcomes
    <3> HIDE DEF m
    <3>4. {m} \in SUBSET Message /\ n + 1 \in Nat
      BY <3>2, <3>3
    <3>5. t \in Txn /\ t.session = s /\ t.writes = {m} /\ t.next = n + 1
      BY <1>0, <3>4 DEF Txn
    <3>6. rowHolder'[s] = r
      BY <1>0, <3>1, <3>2 DEF TypeOK
    <3> HIDE DEF t
    <3>7. Extends(t)
      <4>1. {x.seq : x \in {m}} = n .. (n + 1) - 1
        BY <3>2, <3>3
      <4> QED
        BY <3>2, <3>3, <3>5, <4>1 DEF Extends
    <3>8. t.next >= 1 /\ t.next - 1 = n
      BY <3>2, <3>5
    <3>9. Second(r) /\ Second(r)'
      BY <1>0, <1>f, <3>1 DEF Second, StaticIsDenial, Goto
    <3>10. Full(r, t.writes) /\ NewKey(r)
      BY <3>2, <3>5, <3>9 DEF m, Full, NewKey
    <3> QED
      BY <1>7, <3>1, <3>2, <3>3, <3>5, <3>6, <3>7, <3>8, <3>9, <3>10
  <2> QED
    BY <2>1, <2>2
<1>17. CASE Commit(r)
  <2>1. /\ pc[r] = "closing" /\ Install(req[r].caller, txn[r])
        /\ txn'[r] = NoTxn /\ pc'[r] = "done" /\ outcome' = outcome
    BY <1>0, <1>17 DEF Commit, Goto
  <2>2. txn[r].session \in Sids
    BY <1>0, <2>1 DEF TypeOK, Txn, Resolved
  <2>3. txn[r].writes # {} =>
            /\ InOrder(r) /\ Extends(txn[r])
            /\ \/ Full(r, txn[r].writes)
               \/ CutOff(r, txn[r].writes) /\ outcome'[r] = "abandoned"
    BY <1>0, <2>1 DEF RequestInv, InOrder, Whole, CutOff
  <2> QED
    BY <1>0, <1>12, <1>t, <2>1, <2>2, <2>3
<1>18. CASE Open(r)
  <2>1. Local /\ txn' = txn /\ pc[r] = "admitted" /\ pc'[r] = "done"
    BY <1>0, <1>18, SubmissionsAssumption, CallersAssumption
       DEF Open, Goto, Local, TypeOK, Request, Callers
  <2> QED
    BY <1>b, <1>n, <2>1
<1>19. CASE DeleteLookup(r)
  <2>1. CASE Refuse(r, "session_not_found")
    BY <1>1, <2>1
  <2>2. CASE ~ Refuse(r, "session_not_found")
    <3>1. Local /\ txn' = txn /\ pc[r] = "admitted" /\ pc'[r] = "deleting"
      BY <1>0, <1>19, <2>2 DEF DeleteLookup, Goto, tables, Local
    <3> QED
      BY <1>b, <1>n, <3>1
  <2> QED
    BY <2>1, <2>2
<1>20. CASE DeleteRow(r)
  <2>1. req[r].session \in Sids \cup {NoSid}
    BY <1>0, <1>20, SubmissionsAssumption DEF DeleteRow, TypeOK, Request
  <2>2. txn[r].writes = {} /\ txn[r].sums = {} /\ txn' = txn /\ pc'[r] = "done"
    BY <1>0, <1>n, <1>20 DEF DeleteRow, Goto
  <2>3. CASE req[r].session \in Sids
    BY <1>20, <2>2, <2>3 DEF DeleteRow, Deletes, locks
  <2>4. CASE req[r].session \notin Sids
    <3>1. \A m \in messages : m.session # req[r].session
      BY <1>0, <2>4 DEF TypeOK, Message
    <3>2. \A u \in summaries : u.session # req[r].session
      BY <1>0, <2>4 DEF TypeOK, Summary
    <3>3. UNCHANGED <<nextSeq, owner>>
      BY <1>0, <1>20, <2>4 DEF DeleteRow, TypeOK
    <3>4. UNCHANGED <<messages, summaries>>
      BY <1>20, <3>1, <3>2 DEF DeleteRow, Stored
    <3> QED
      BY <1>b, <2>2, <3>3, <3>4 DEF Local
  <2> QED
    BY <2>1, <2>3, <2>4
<1>21. CASE Abort(r)
  <2>1. Local /\ txn'[r] = NoTxn /\ pc'[r] = "done"
    BY <1>0, <1>21 DEF Abort, Goto, tables, Local
  <2> QED
    BY <1>b, <1>t, <2>1
<1> QED
  BY <1>2, <1>3, <1>4, <1>5, <1>6, <1>9, <1>10, <1>11, <1>14, <1>15, <1>16,
     <1>17, <1>18, <1>19, <1>20, <1>21 DEF Progress

-----------------------------------------------------------------------------
(* The invariant is inductive.                                             *)

\* The rows a commit stores: those of its session are the old ones and the
\* new, the other sessions are as they were.
LEMMA CommitStores ==
    ASSUME LogInv, NEW r \in Requests, pc[r] # "idle", NEW t \in Txn,
           Install(req[r].caller, t), t.session \in Sids, SumsContinue(t),
           t.writes # {} => Extends(t)
    PROVE  /\ \A s \in Sids : Stored(s)' =
                 IF s = t.session THEN Stored(s) \cup t.writes ELSE Stored(s)
           /\ \A s \in Sids : nextSeq'[s] =
                 IF s = t.session /\ t.writes # {} THEN t.next ELSE nextSeq[s]
           /\ \A s \in Sids : owner'[s] =
                 IF s = t.session /\ t.creates THEN req[r].caller ELSE owner[s]
           /\ req[r].caller # NoOne
           /\ summaries' = summaries \cup t.sums
           /\ t.sums # {} => t.writes # {}
           /\ \A u \in t.sums : u.session = t.session
           /\ \A m \in t.writes : m.seq \in Nat /\ m.session = t.session
<1> USE DEF LogInv, SessionInv, LockInv
<1>1. \A m \in t.writes : m.session = t.session /\ m.seq \in Nat
  BY DEF Extends, Txn, Message
<1>2. messages' = messages \cup t.writes /\ summaries' = summaries \cup t.sums
  BY DEF Install, Charged
<1>3. \A s \in Sids : Stored(s)' =
         IF s = t.session THEN Stored(s) \cup t.writes ELSE Stored(s)
  BY <1>1, <1>2 DEF Stored
<1>4. \A s \in Sids : nextSeq'[s] =
         IF s = t.session /\ t.writes # {} THEN t.next ELSE nextSeq[s]
  BY DEF Install, Charged, TypeOK
<1>5. \A s \in Sids : owner'[s] =
         IF s = t.session /\ t.creates THEN req[r].caller ELSE owner[s]
  BY DEF Install, Charged, TypeOK
<1>6. req[r].caller # NoOne
  BY SubmissionsAssumption, CallersAssumption DEF TypeOK, Request
<1>7. (t.sums # {} => t.writes # {}) /\ \A u \in t.sums : u.session = t.session
  BY DEF SumsContinue, Continues
<1> QED
  BY <1>1, <1>2, <1>3, <1>4, <1>5, <1>6, <1>7

\* A session that is stored in order stays so when a commit extends it.
LEMMA CommitKeepsStore ==
    ASSUME LogInv, NEW r \in Requests, pc[r] # "idle", NEW t \in Txn,
           Install(req[r].caller, t), t.session \in Sids, SumsContinue(t),
           t.writes # {} => /\ Extends(t)
                            /\ t.creates \/ owner[t.session] # NoOne
    PROVE  StoreInv'
<1> DEFINE s0 == t.session
<1>0. StoreInv /\ TypeOK
  BY DEF LogInv, SessionInv, LockInv
<1>1. /\ \A s \in Sids : Stored(s)' =
            IF s = s0 THEN Stored(s) \cup t.writes ELSE Stored(s)
      /\ \A s \in Sids : nextSeq'[s] =
            IF s = s0 /\ t.writes # {} THEN t.next ELSE nextSeq[s]
      /\ \A s \in Sids : owner'[s] =
            IF s = s0 /\ t.creates THEN req[r].caller ELSE owner[s]
      /\ req[r].caller # NoOne
      /\ summaries' = summaries \cup t.sums
      /\ t.sums # {} => t.writes # {}
      /\ \A u \in t.sums : u.session = s0
      /\ \A m \in t.writes : m.seq \in Nat /\ m.session = s0
  BY CommitStores
<1>2. /\ \A s \in Sids : nextSeq[s] \in Nat /\ nextSeq[s] >= 1
      /\ t.next \in Nat
      /\ \A s \in Sids : \A m \in Stored(s) : m.seq \in Nat
  BY <1>0 DEF StoreInv, TypeOK, Txn, Stored, Message
<1>3. t.writes # {} =>
         /\ nextSeq[s0] < t.next
         /\ {m.seq : m \in t.writes} = nextSeq[s0] .. t.next - 1
         /\ \A m, n \in t.writes : m.seq = n.seq => m = n
  BY DEF Extends
<1>4. \A s \in Sids :
         /\ {m.seq : m \in Stored(s)} = 1 .. nextSeq[s] - 1
         /\ \A m, n \in Stored(s) : m.seq = n.seq => m = n
         /\ owner[s] = NoOne => Stored(s) = {} /\ \A u \in summaries : u.session # s
  BY <1>0 DEF StoreInv, SeqIntegrity
<1>5. \A s \in Sids : nextSeq'[s] >= 1
  BY <1>1, <1>2, <1>3
<1>6. \A m \in Stored(s0), n \in t.writes : m.seq < nextSeq[s0] /\ n.seq >= nextSeq[s0]
  <2>1. \A m \in Stored(s0) : m.seq \in 1 .. nextSeq[s0] - 1
    BY <1>4
  <2>2. \A n \in t.writes : n.seq \in nextSeq[s0] .. t.next - 1
    BY <1>3
  <2> QED
    BY <1>2, <2>1, <2>2
<1>7. SeqIntegrity'
  <2>1. SUFFICES ASSUME NEW s \in Sids
        PROVE  /\ {m.seq : m \in Stored(s)'} = 1 .. nextSeq'[s] - 1
               /\ \A m, n \in Stored(s)' : m.seq = n.seq => m = n
               /\ owner'[s] = NoOne =>
                     Stored(s)' = {} /\ \A u \in summaries' : u.session # s
    BY DEF SeqIntegrity
  <2>2. CASE s # s0 \/ t.writes = {}
    BY <1>1, <1>4, <2>2
  <2>3. CASE s = s0 /\ t.writes # {}
    <3>1. Stored(s)' = Stored(s) \cup t.writes /\ nextSeq'[s] = t.next
      BY <1>1, <2>3
    <3>2. {m.seq : m \in Stored(s)'} = {m.seq : m \in Stored(s)} \cup {m.seq : m \in t.writes}
      BY <3>1
    <3> DEFINE a == nextSeq[s]  b == t.next
    <3>3. a \in Nat /\ a >= 1 /\ b \in Nat /\ a < b
      BY <1>2, <1>3, <2>3
    <3>4. {m.seq : m \in Stored(s)} = 1 .. a - 1 /\ {m.seq : m \in t.writes} = a .. b - 1
      BY <1>3, <1>4, <2>3
    <3> HIDE DEF a, b
    <3>5. 1 .. b - 1 = (1 .. a - 1) \cup (a .. b - 1)
      BY <3>3
    <3>6. {m.seq : m \in Stored(s)'} = 1 .. nextSeq'[s] - 1
      BY <3>1, <3>2, <3>4, <3>5 DEF b
    <3>7. \A m, n \in Stored(s)' : m.seq = n.seq => m = n
      BY <1>2, <1>3, <1>4, <1>6, <2>3, <3>1
    <3>8. owner'[s] # NoOne
      BY <1>1, <2>3
    <3> QED
      BY <3>6, <3>7, <3>8
  <2> QED
    BY <2>2, <2>3
<1>8. SummariesChain' /\ \A u \in summaries' : u.version >= 1
  <2>1. CASE t.sums = {}
    <3>1. summaries' = summaries
      BY <1>1, <2>1
    <3>2. \A u \in summaries : u.session \in Sids
      BY <1>0 DEF TypeOK, Summary
    <3>3. \A s \in Sids : Stored(s) \subseteq Stored(s)'
      BY <1>1
    <3> QED
      BY <1>0, <3>1, <3>2, <3>3 DEF StoreInv, SummariesChain
  <2>2. CASE t.sums # {}
    <3>1. PICK u \in t.sums : t.sums = {u}
      BY <2>2 DEF SumsContinue
    <3>2. PICK last \in t.writes : last.seq = u.covers /\ last.role = "assistant"
      BY <3>1 DEF SumsContinue, Continues
    <3>3. /\ u.session = s0 /\ u.version >= 1
          /\ \A v \in summaries : v.session = s0 => v.version < u.version
          /\ \A n \in 1 .. u.version - 1 :
                \E v \in summaries : v.session = s0 /\ v.version = n
      BY <3>1 DEF SumsContinue, Continues
    <3>4. summaries' = summaries \cup {u} /\ u.version \in Nat
      BY <1>1, <3>1 DEF Txn, Summary
    <3>5. \A v \in summaries : v.version \in Nat /\ v.covers \in Nat /\ v.session \in Sids
      BY <1>0 DEF TypeOK, Summary
    <3>6. \A v \in summaries : v.session = s0 => v.covers < u.covers
      BY <1>0, <1>2, <1>6, <3>2, <1>1, <3>5 DEF StoreInv, SummariesChain
    <3>7. \A s \in Sids : Stored(s) \subseteq Stored(s)'
      BY <1>1
    <3>8. last \in Stored(s0)'
      BY <1>1, <3>2
    <3>9. ASSUME NEW w \in summaries'
          PROVE  /\ \E m \in Stored(w.session)' : m.seq = w.covers /\ m.role = "assistant"
                 /\ w.version >= 1
      <4>1. CASE w = u
        BY <3>2, <3>3, <3>8, <4>1
      <4>2. CASE w \in summaries
        BY <1>0, <3>5, <3>7, <4>2 DEF StoreInv, SummariesChain
      <4> QED
        BY <3>4, <4>1, <4>2
    <3>10. ASSUME NEW w \in summaries', NEW v \in summaries', v.session = w.session
           PROVE  /\ v.version = w.version => v = w
                  /\ v.version < w.version => v.covers < w.covers
      <4>1. CASE w \in summaries /\ v \in summaries
        BY <1>0, <3>10, <4>1 DEF StoreInv, SummariesChain
      <4>2. CASE w = u /\ v \in summaries
        BY <3>3, <3>4, <3>5, <3>6, <3>10, <4>2
      <4>3. CASE w \in summaries /\ v = u
        BY <3>3, <3>4, <3>5, <3>6, <3>10, <4>3
      <4>4. CASE w = u /\ v = u
        BY <3>4, <4>4
      <4> QED
        BY <3>4, <4>1, <4>2, <4>3, <4>4
    <3>11. ASSUME NEW w \in summaries', NEW n \in 1 .. w.version
           PROVE  \E v \in summaries' : v.session = w.session /\ v.version = n
      <4>1. CASE w \in summaries
        BY <1>0, <3>4, <3>11, <4>1 DEF StoreInv, SummariesChain
      <4>2. CASE w = u
        <5>1. n = u.version \/ n \in 1 .. u.version - 1
          BY <3>4, <4>2
        <5> QED
          BY <3>3, <3>4, <4>2, <5>1
      <4> QED
        BY <3>4, <4>1, <4>2
    <3> QED
      BY <3>9, <3>10, <3>11 DEF SummariesChain
  <2> QED
    BY <2>1, <2>2
<1> QED
  BY <1>5, <1>7, <1>8 DEF StoreInv

\* Deleting a session leaves the others as they are.
LEMMA DeleteKeepsStore ==
    ASSUME LogInv, NEW r \in Requests, Deletes(r)
    PROVE  StoreInv'
<1>0. StoreInv /\ TypeOK
  BY DEF LogInv, SessionInv, LockInv
<1>1. PICK s \in Sids :
          /\ owner' = [owner EXCEPT ![s] = NoOne]
          /\ nextSeq' = [nextSeq EXCEPT ![s] = 1]
          /\ messages' = messages \ Stored(s)
          /\ summaries' = {u \in summaries : u.session # s}
  BY DEF Deletes
<1>2. Stored(s)' = {} /\ nextSeq'[s] = 1 /\ owner'[s] = NoOne
  BY <1>0, <1>1 DEF Stored, TypeOK
<1>3. \A x \in Sids \ {s} : Stored(x)' = Stored(x) /\ nextSeq'[x] = nextSeq[x]
                            /\ owner'[x] = owner[x]
  BY <1>0, <1>1 DEF Stored, TypeOK
<1>4. \A x \in Sids : nextSeq'[x] >= 1
  BY <1>0, <1>2, <1>3 DEF StoreInv
<1>5. SeqIntegrity'
  <2>1. SUFFICES ASSUME NEW x \in Sids
        PROVE  /\ {m.seq : m \in Stored(x)'} = 1 .. nextSeq'[x] - 1
               /\ \A m, n \in Stored(x)' : m.seq = n.seq => m = n
               /\ owner'[x] = NoOne =>
                     Stored(x)' = {} /\ \A u \in summaries' : u.session # x
    BY DEF SeqIntegrity
  <2>2. CASE x = s
    BY <1>1, <1>2, <2>2
  <2>3. CASE x # s
    BY <1>0, <1>1, <1>3, <2>3 DEF StoreInv, SeqIntegrity
  <2> QED
    BY <2>2, <2>3
<1>6. SummariesChain' /\ \A u \in summaries' : u.version >= 1
  <2>1. \A u \in summaries' : u \in summaries /\ u.session \in Sids \ {s}
    BY <1>0, <1>1 DEF TypeOK, Summary
  <2>2. \A u \in summaries : u.session # s => u \in summaries'
    BY <1>1
  <2> QED
    BY <1>0, <1>3, <2>1, <2>2 DEF StoreInv, SummariesChain
<1> QED
  BY <1>4, <1>5, <1>6 DEF StoreInv

\* What another request has written still continues its session, because it
\* holds that session's row lock.
LEMMA OthersKeepOrder ==
    ASSUME LogInv, NEW r \in Requests, Progress(r) \/ Abort(r),
           Local \/ Commits(r) \/ Deletes(r), NEW q \in Requests \ {r}
    PROVE  RequestInv(q)'
<1>x. PICK x : x = txn[q].session
  OBVIOUS
<1>0. TypeOK /\ RequestInv(q) /\ NoOne \notin Requests
  BY CallersAssumption DEF LogInv, RequestsInv, SessionInv, LockInv
<1>1. pc'[q] = pc[q] /\ txn'[q] = txn[q] /\ outcome'[q] = outcome[q] /\ req' = req
  BY LockFootprint DEF LogInv, SessionInv
<1>2. CASE txn[q].writes = {}
  BY <1>0, <1>1, <1>2 DEF RequestInv, SumsContinue, Continues
<1>3. CASE txn[q].writes # {}
  <2>1. InOrder(q) /\ SumsContinue(txn[q]) /\ x \in Sids /\ rowHolder[x] = q
    BY <1>0, <1>x, <1>3 DEF RequestInv, InOrder, TypeOK, Txn, Resolved
  <2>2. rowHolder'[x] = q
    BY <1>0, <2>1, RowFootprint DEF LogInv, SessionInv
  <2>3. /\ nextSeq'[x] = nextSeq[x] /\ Stored(x)' = Stored(x)
        /\ owner[x] # NoOne => owner'[x] # NoOne
        /\ {v \in summaries' : v.session = x} = {v \in summaries : v.session = x}
    <3>1. CASE Local
      BY <2>1, <3>1 DEF Local, Stored
    <3>2. CASE Commits(r)
      <4>1. PICK t \in Txn :
              /\ Install(req[r].caller, t)
              /\ t.session \in Sids /\ SumsContinue(t)
              /\ t.writes # {} => Extends(t) /\ rowHolder[t.session] = r
        BY <3>2 DEF Commits
      <4>2. pc[r] # "idle"
        BY LockFootprint DEF LogInv, SessionInv
      <4>3. t.writes # {} => x # t.session
        BY <2>1, <4>1
      <4>4. /\ Stored(x)' = IF x = t.session THEN Stored(x) \cup t.writes ELSE Stored(x)
            /\ nextSeq'[x] = IF x = t.session /\ t.writes # {} THEN t.next ELSE nextSeq[x]
            /\ owner'[x] = IF x = t.session /\ t.creates THEN req[r].caller ELSE owner[x]
            /\ req[r].caller # NoOne
            /\ summaries' = summaries \cup t.sums
            /\ t.sums # {} => t.writes # {}
            /\ \A u \in t.sums : u.session = t.session
        BY <2>1, <4>1, <4>2, CommitStores
      <4>5. {v \in summaries' : v.session = x} = {v \in summaries : v.session = x}
        BY <4>3, <4>4
      <4> QED
        BY <4>3, <4>4, <4>5
    <3>3. CASE Deletes(r)
      <4>1. PICK s \in Sids :
              /\ RowFree(s)
              /\ owner' = [owner EXCEPT ![s] = NoOne]
              /\ nextSeq' = [nextSeq EXCEPT ![s] = 1]
              /\ messages' = messages \ Stored(s)
              /\ summaries' = {u \in summaries : u.session # s}
        BY <3>3 DEF Deletes
      <4>2. x # s
        BY <1>0, <2>1, <4>1 DEF RowFree
      <4> QED
        BY <1>0, <2>1, <4>1, <4>2 DEF TypeOK, Stored
    <3> QED
      BY <3>1, <3>2, <3>3
  <2>4. Extends(txn[q])'
    BY <1>1, <1>x, <2>1, <2>3 DEF InOrder, Extends
  <2>10. Second(q)' <=> Second(q)
    BY <1>1 DEF Second
  <2>8. /\ Asked(q, txn[q].writes) => Asked(q, txn[q].writes)'
        /\ Whole(q, txn[q].writes) => Whole(q, txn[q].writes)'
    BY <1>1, <2>10, SameRows DEF Whole, CutOff
  <2>9. NewKey(q)' <=> NewKey(q)
    BY <1>1, <1>x, <2>3, <2>10 DEF NewKey, KeyTaken
  <2>5. InOrder(q)'
    BY <1>1, <1>x, <2>1, <2>2, <2>3, <2>4, <2>8, <2>9 DEF InOrder
  <2>6. ASSUME NEW u \in txn[q].sums
        PROVE  Continues(u, txn[q])'
    <3>1. Continues(u, txn[q]) /\ u.session = x
      BY <1>x, <2>1 DEF SumsContinue, Continues
    <3>2. \A v : v \in summaries' /\ v.session = x <=> v \in summaries /\ v.session = x
      BY <2>3
    <3> QED
      BY <1>x, <1>1, <3>1, <3>2 DEF Continues
  <2>7. SumsContinue(txn[q])'
    BY <1>1, <2>1, <2>6 DEF SumsContinue
  <2> QED
    BY <1>1, <1>3, <2>5, <2>7 DEF RequestInv
<1> QED
  BY <1>2, <1>3

LEMMA LogInvInit == Init => LogInv
<1>1. ASSUME Init
      PROVE  /\ \A s \in Sids : nextSeq[s] = 1 /\ Stored(s) = {}
             /\ summaries = {}
             /\ \A r \in Requests : txn[r] = NoTxn /\ pc[r] = "idle"
  BY <1>1 DEF Init, Stored
<1>2. ASSUME Init
      PROVE  StoreInv
  BY <1>1, <1>2 DEF StoreInv, SeqIntegrity, SummariesChain
<1>3. ASSUME Init
      PROVE  \A r \in Requests : RequestInv(r)
  BY <1>1, <1>3 DEF RequestInv, SumsContinue, NoTxn
<1> QED
  BY <1>2, <1>3, SessionInvInit DEF LogInv, RequestsInv

LEMMA LogInvNext ==
    ASSUME LogInv, [Next]_vars
    PROVE  LogInv'
<1>1. SessionInv'
  BY SessionInvNext DEF LogInv
<1>2. ASSUME NEW r \in Requests, Progress(r) \/ Abort(r)
      PROVE  StoreInv' /\ RequestsInv'
  <2>0. pc[r] # "idle" /\ StoreInv
    BY <1>2, LockFootprint DEF LogInv, SessionInv
  <2>1. CASE Local /\ RequestInv(r)'
    <3>1. UNCHANGED <<nextSeq, messages, summaries>>
          /\ \A s \in Sids : owner'[s] = NoOne => owner[s] = NoOne
      BY <2>1 DEF Local
    <3>2. SeqIntegrity' /\ SummariesChain'
      BY <2>0, <3>1 DEF StoreInv, SeqIntegrity, SummariesChain, Stored
    <3>3. StoreInv'
      BY <2>0, <3>1, <3>2 DEF StoreInv
    <3> QED
      BY <1>2, <2>1, <3>3, OthersKeepOrder DEF RequestsInv
  <2>2. CASE Commits(r)
    <3>1. StoreInv'
      BY <2>0, <2>2, CommitKeepsStore DEF Commits
    <3>2. RequestInv(r)'
      BY <2>2 DEF Commits, RequestInv, SumsContinue
    <3> QED
      BY <1>2, <2>2, <3>1, <3>2, OthersKeepOrder DEF RequestsInv
  <2>3. CASE Deletes(r)
    <3>1. StoreInv'
      BY <2>3, DeleteKeepsStore
    <3>2. txn' = txn /\ txn[r].writes = {} /\ pc'[r] = "done" /\ SumsContinue(txn[r])
      BY <2>3 DEF Deletes, LogInv, RequestsInv, RequestInv
    <3>3. RequestInv(r)'
      BY <3>2 DEF RequestInv, SumsContinue, Continues
    <3> QED
      BY <1>2, <2>3, <3>1, <3>3, OthersKeepOrder DEF RequestsInv
  <2> QED
    BY <1>2, <2>1, <2>2, <2>3, LogFootprint
\* The steps that touch neither the stored rows nor any transaction.
<1> DEFINE Untouched ==
              /\ UNCHANGED <<owner, nextSeq, messages, summaries, rowHolder, txn, outcome>>
              /\ \A q \in Requests : \/ pc'[q] = pc[q] /\ req'[q] = req[q]
                                     \/ pc[q] = "idle" /\ pc'[q] = "admitted"
<1>3. ASSUME Untouched
      PROVE  StoreInv' /\ RequestsInv'
  <2>1. StoreInv'
    BY <1>3 DEF LogInv, StoreInv, SeqIntegrity, SummariesChain, Stored
  <2>2. ASSUME NEW q \in Requests
        PROVE  RequestInv(q)'
    <3>1. RequestInv(q)
      BY DEF LogInv, RequestsInv
    <3>2. SumsContinue(txn[q])' <=> SumsContinue(txn[q])
      BY <1>3 DEF SumsContinue, Continues
    <3>3. Extends(txn[q])' <=> Extends(txn[q])
      BY <1>3 DEF Extends
    <3>4. CASE pc[q] = "idle" /\ pc'[q] = "admitted"
      BY <1>3, <3>1, <3>2, <3>4 DEF RequestInv, InOrder
    <3>5. CASE pc'[q] = pc[q] /\ req'[q] = req[q]
      <4>1. \A n : Question(q, n)' = Question(q, n)
        BY <1>3, <3>5 DEF Question
      <4>2. \A n, e : Reply(q, n, e)' = Reply(q, n, e)
        BY <1>3, <3>5 DEF Reply
      <4>3. Asked(q, txn[q].writes)' <=> Asked(q, txn[q].writes)
        BY <1>3, <4>1 DEF Asked
      <4>6. Second(q)' <=> Second(q)
        BY <3>5 DEF Second
      <4>4. Whole(q, txn[q].writes)' <=> Whole(q, txn[q].writes)
        BY <1>3, <3>5, <4>1, <4>2, <4>3, <4>6 DEF Whole, Full, CutOff, Turned
      <4>5. NewKey(q)' <=> NewKey(q)
        BY <1>3, <3>5, <4>6 DEF NewKey, KeyTaken, Stored
      <4> QED
        BY <1>3, <3>1, <3>2, <3>3, <3>5, <4>3, <4>4, <4>5 DEF RequestInv, InOrder
    <3> QED
      BY <1>3, <3>4, <3>5
  <2> QED
    BY <2>1, <2>2 DEF RequestsInv
<1>4. ASSUME NEW r \in Requests, Begin(r)
      PROVE  StoreInv' /\ RequestsInv'
  <2>1. UNCHANGED <<owner, nextSeq, messages, summaries, rowHolder, txn, outcome>>
    BY <1>4 DEF Begin, tables
  <2>2. /\ pc[r] = "idle" /\ pc' = [pc EXCEPT ![r] = "admitted"]
        /\ pc \in [Requests -> Stages]
        /\ \A q \in Requests \ {r} : req'[q] = req[q]
    BY <1>4 DEF Begin, Goto, LogInv, SessionInv, LockInv, TypeOK
  <2>3. Untouched
    BY <2>1, <2>2
  <2> HIDE DEF Untouched
  <2> QED
    BY <1>3, <2>3
<1>5. ASSUME Midnight \/ UNCHANGED vars
      PROVE  StoreInv' /\ RequestsInv'
  <2>1. UNCHANGED <<owner, nextSeq, messages, summaries, rowHolder, txn, outcome, pc, req>>
    BY <1>5 DEF Midnight, vars, tables, locks
  <2>2. Untouched
    BY <2>1
  <2> HIDE DEF Untouched
  <2> QED
    BY <1>3, <2>2
<1>6. StoreInv' /\ RequestsInv'
  <2>1. CASE \E r \in Requests : Begin(r) \/ Progress(r) \/ Abort(r)
    <3>1. PICK r \in Requests : Begin(r) \/ Progress(r) \/ Abort(r)
      BY <2>1
    <3> QED
      BY <1>2, <1>4, <3>1
  <2>2. CASE Midnight \/ UNCHANGED vars
    BY <1>5, <2>2
  <2> QED
    BY <2>1, <2>2 DEF Next, Finished
<1> QED
  BY <1>1, <1>6 DEF LogInv

LEMMA LogInvariant == Spec => []LogInv
<1>1. Init => LogInv
  BY LogInvInit
<1>2. LogInv /\ [Next]_vars => LogInv'
  BY LogInvNext
<1> QED
  BY <1>1, <1>2, PTL DEF Spec

\* The messages of a session are numbered 1..next_seq-1 without gap or
\* repetition, through every race, refusal, abort and deletion: allocate_seq
\* reads next_seq under a row lock that lasts until the rows are committed.
THEOREM NumberedWithoutGaps == Spec => []SeqIntegrity
<1>1. LogInv => SeqIntegrity
  BY DEF LogInv, StoreInv
<1> QED
  BY <1>1, LogInvariant, PTL

\* The summaries of a session are versions 1..n, each covering more than the
\* one before, and each ends with a reply that is stored: _maybe_summarize
\* reads the latest version under the same row lock.
THEOREM SummariesAreAChain == Spec => []SummariesChain
<1>1. LogInv => SummariesChain
  BY DEF LogInv, StoreInv
<1> QED
  BY <1>1, LogInvariant, PTL

\* While a session lives its messages are only added to, behind the last one.
LEMMA StepsAppend ==
    ASSUME LogInv, [Next]_vars,
           NEW s \in Sids, owner[s] # NoOne, owner'[s] # NoOne
    PROVE  /\ Stored(s) \subseteq Stored(s)'
           /\ \A m \in Stored(s), n \in Stored(s)' \ Stored(s) : m.seq < n.seq
<1>1. ASSUME messages' = messages
      PROVE  Stored(s)' = Stored(s)
  BY <1>1 DEF Stored
<1>2. ASSUME NEW r \in Requests, Progress(r) \/ Abort(r)
      PROVE  /\ Stored(s) \subseteq Stored(s)'
             /\ \A m \in Stored(s), n \in Stored(s)' \ Stored(s) : m.seq < n.seq
  <2>1. CASE Local
    BY <1>1, <2>1 DEF Local
  <2>2. CASE Commits(r)
    <3>1. PICK t \in Txn :
            /\ Install(req[r].caller, t) /\ t.session \in Sids /\ SumsContinue(t)
            /\ t.writes # {} => Extends(t)
      BY <2>2 DEF Commits
    <3>2. pc[r] # "idle"
      BY <1>2, LockFootprint DEF LogInv, SessionInv
    <3>3. Stored(s)' = IF s = t.session THEN Stored(s) \cup t.writes ELSE Stored(s)
      BY <3>1, <3>2, CommitStores
    <3>4. ASSUME s = t.session, NEW m \in Stored(s), NEW n \in t.writes
          PROVE  m.seq < n.seq
      <4>1. m.seq \in 1 .. nextSeq[s] - 1
        BY DEF LogInv, StoreInv, SeqIntegrity
      <4>2. n.seq \in nextSeq[s] .. t.next - 1
        BY <3>1, <3>4 DEF Extends
      <4>3. nextSeq[s] \in Nat /\ t.next \in Nat
        BY DEF LogInv, SessionInv, LockInv, TypeOK, Txn
      <4> QED
        BY <4>1, <4>2, <4>3
    <3> QED
      BY <3>3, <3>4
  <2>3. CASE Deletes(r)
    <3>1. PICK x \in Sids : owner' = [owner EXCEPT ![x] = NoOne]
                            /\ messages' = messages \ Stored(x)
      BY <2>3 DEF Deletes
    <3>2. s # x
      BY <3>1 DEF LogInv, SessionInv, LockInv, TypeOK
    <3> QED
      BY <3>1, <3>2 DEF Stored
  <2> QED
    BY <1>2, <2>1, <2>2, <2>3, LogFootprint
<1>3. ASSUME NEW r \in Requests, Begin(r)
      PROVE  messages' = messages
  BY <1>3 DEF Begin, tables
<1>4. CASE Midnight \/ UNCHANGED vars
  BY <1>1, <1>4 DEF Midnight, vars, tables
<1> QED
  BY <1>1, <1>2, <1>3, <1>4 DEF Next, Finished

\* Stored messages are never changed, removed or overtaken while their session
\* lives, whatever races, fails or is deleted around it.
THEOREM OnlyAppended == Spec => AppendOnly
<1>1. ASSUME LogInv, [Next]_vars
      PROVE  \A s \in Sids : owner[s] # NoOne /\ owner'[s] # NoOne =>
                /\ Stored(s) \subseteq Stored(s)'
                /\ \A m \in Stored(s), n \in Stored(s)' \ Stored(s) : m.seq < n.seq
  BY <1>1, StepsAppend
<1> QED
  BY <1>1, LogInvariant, PTL DEF Spec, AppendOnly

-----------------------------------------------------------------------------
(* A row that has been seen stays for as long as its session lives, and a  *)
(* session does not come back under its id.                                *)

Known(s, rows) ==
    /\ s <= lastSid
    /\ \A q \in Requests : txn[q].creates => txn[q].session # s
    /\ owner[s] # NoOne => \E m \in Stored(s) : m \in rows

LEMMA KnownStays ==
    ASSUME LogInv, NEW r \in Requests, Progress(r) \/ Abort(r),
           NEW s \in Sids, NEW rows, Known(s, rows)
    PROVE  Known(s, rows)'
<1>0. TypeOK /\ LockInv /\ SessionInv
  BY DEF LogInv, SessionInv, LockInv
<1>1. \A p \in Requests \ {r} : pc'[p] = pc[p] /\ txn'[p] = txn[p]
  BY <1>0, LockFootprint
<1>2. \/ /\ lastSid' = lastSid
         /\ \A z \in Sids : owner'[z] \in {owner[z], NoOne}
         /\ txn'[r].creates => txn[r].creates /\ txn'[r].session = txn[r].session
      \/ /\ lastSid' = lastSid /\ txn[r].creates /\ ~ txn'[r].creates
         /\ owner' = [owner EXCEPT ![txn[r].session] = req[r].caller]
      \/ /\ lastSid' = lastSid + 1 /\ txn' = txn /\ ~ txn[r].creates
         /\ owner' = [owner EXCEPT ![lastSid + 1] = req[r].caller]
      \/ /\ lastSid' = lastSid + 1 /\ owner' = owner
         /\ txn'[r].session = lastSid + 1
  BY <1>0, OwnerFootprint
<1>3. s \in Nat /\ lastSid \in Nat /\ owner \in [Sids -> Callers \cup {NoOne}]
  BY <1>0, BoundsAssumption DEF TypeOK, Sids
<1>4. s <= lastSid' /\ \A p \in Requests : txn'[p].creates => txn'[p].session # s
  BY <1>1, <1>2, <1>3 DEF Known
<1>5. owner'[s] # NoOne => owner[s] # NoOne
  BY <1>1, <1>2, <1>3 DEF Known
<1>6. owner'[s] # NoOne => Stored(s) \subseteq Stored(s)'
  BY <1>5, StepsAppend DEF Next
<1> QED
  BY <1>4, <1>5, <1>6 DEF Known

-----------------------------------------------------------------------------
(* A replay answers the question it repeats, unless that question was cut  *)
(* off.                                                                    *)

\* A stored question has its reply behind it, or its request is over and was
\* cut off; only questions carry a key.
StoredPaired ==
    \A m \in messages :
        /\ m.cid # NoOne => m.role = "user"
        /\ m.role = "user" =>
              \/ pc[m.by] = "done" /\ outcome[m.by] = "abandoned"
              \/ \E n \in messages : /\ n.session = m.session /\ n.seq = m.seq + 1
                                     /\ n.role = "assistant" /\ n.by = m.by

\* The question a request has found is still there.
Priors(r) == {m \in Message : m.seq = txn[r].prior /\ m.cid = req[r].cid}
FoundInv(r) ==
    /\ pc[r] \in {"lookup", "replying"} => req[r].cid # NoOne
    /\ pc[r] = "replying" => Known(txn[r].session, Priors(r))

ReplayInv == LogInv /\ StoredPaired /\ \A r \in Requests : FoundInv(r)

LEMMA ReplayFootprint ==
    ASSUME TypeOK, NEW r \in Requests, Progress(r) \/ Abort(r)
    PROVE  /\ answer' = answer \/ FindReply(r)
           /\ pc'[r] = "lookup" => req[r].cid # NoOne
           /\ pc'[r] = "replying" => FindPrior(r)
<1> USE DEF TypeOK
<1>1. ASSUME NEW result, Refuse(r, result)
      PROVE  answer' = answer /\ pc'[r] = "done"
  BY <1>1 DEF Refuse, Goto
<1>2. CASE CheckQuota(r) \/ DeleteLookup(r)
  BY <1>1, <1>2 DEF CheckQuota, DeleteLookup, Goto
<1>3. CASE ResolveSession(r)
  BY <1>1, <1>3 DEF ResolveSession, AfterResolve, Goto
<1>4. CASE FindPrior(r)
  BY <1>4 DEF FindPrior, Goto
<1>5. CASE FindReply(r)
  BY <1>5 DEF FindReply, Goto
<1>6. CASE AppendUser(r)
  BY <1>1, <1>6 DEF AppendUser, Goto
<1>7. CASE AnswerComplete(r) \/ StreamCompletes(r) \/ StreamStops(r) \/ Abandoned(r)
  BY <1>7 DEF AnswerComplete, StreamCompletes, Answered, StreamStops, Abandoned, Goto
<1>8. CASE AnswerFails(r) \/ AnswerCanned(r) \/ Commit(r) \/ Open(r) \/ DeleteRow(r) \/ Abort(r)
  BY <1>8 DEF AnswerFails, AnswerCanned, Commit, Open, DeleteRow, Abort, Goto
<1>9. CASE DenyStream(r)
  BY <1>1, <1>9 DEF DenyStream, Goto
<1>10. CASE PersistStatic(r)
  BY <1>1, <1>10 DEF PersistStatic, Goto
<1> QED
  BY <1>2, <1>3, <1>4, <1>5, <1>6, <1>7, <1>8, <1>9, <1>10 DEF Progress

\* Turns are stored whole, but for those that were cut off.
LEMMA StoredPairedStep ==
    ASSUME ReplayInv, NEW r \in Requests, Progress(r) \/ Abort(r)
    PROVE  StoredPaired'
<1>0. TypeOK /\ LockInv /\ LogInv /\ StoredPaired
  BY DEF ReplayInv, LogInv, SessionInv, LockInv
<1>1. /\ pc[r] # "done"
      /\ \A q \in Requests \ {r} : pc'[q] = pc[q] /\ outcome'[q] = outcome[q]
  BY <1>0, LockFootprint, StepsTaken
<1>2. \A m \in messages : m.by \in Requests
  BY <1>0 DEF TypeOK, Message
<1>3. ASSUME NEW m \in messages, pc[m.by] = "done", outcome[m.by] = "abandoned"
      PROVE  pc'[m.by] = "done" /\ outcome'[m.by] = "abandoned"
  BY <1>1, <1>2, <1>3
<1>4. CASE Local
  BY <1>0, <1>3, <1>4 DEF Local, StoredPaired
<1>5. CASE Commits(r)
  <2>1. PICK t \in Txn :
           /\ messages' = messages \cup t.writes
           /\ pc'[r] \in {"done", "static"}
           /\ t.writes # {} => \/ Full(r, t.writes)
                               \/ CutOff(r, t.writes) /\ outcome'[r] = "abandoned"
    BY <1>5 DEF Commits, Install, Charged
  <2>2. ASSUME NEW m \in t.writes
        PROVE  /\ m.cid # NoOne => m.role = "user"
               /\ m.role = "user" =>
                     \/ pc'[m.by] = "done" /\ outcome'[m.by] = "abandoned"
                     \/ \E n \in t.writes : /\ n.session = m.session /\ n.seq = m.seq + 1
                                            /\ n.role = "assistant" /\ n.by = m.by
    <3>1. CASE Turned(r, t.writes)
      <4>1. PICK n \in Nat, e \in Outcomes :
                t.writes = {Question(r, n), Reply(r, n + 1, e)}
        BY <3>1 DEF Turned
      <4> DEFINE a == Question(r, n)
                 b == Reply(r, n + 1, e)
      <4>2. /\ a.by = r /\ a.role = "user" /\ a.seq = n
            /\ b.by = r /\ b.role = "assistant" /\ b.cid = NoOne /\ b.seq = n + 1
            /\ b.session = a.session
        BY DEF Question, Reply
      <4> HIDE DEF a, b
      <4> QED
        BY <2>2, <4>1, <4>2 DEF a, b
    <3>2. CASE \E n \in Nat : t.writes = {Reply(r, n, "complete")}
      BY <2>2, <3>2 DEF Reply
    <3>3. CASE CutOff(r, t.writes) /\ outcome'[r] = "abandoned"
      <4>1. PICK n \in Nat : m = Question(r, n)
        BY <2>2, <3>3 DEF CutOff, Asked
      <4>2. m.role = "user" /\ m.by = r
        BY <4>1 DEF Question
      <4>3. pc'[r] = "done"
        BY <1>0, <2>1, <3>3, LockFootprint DEF CutOff
      <4> QED
        BY <3>3, <4>2, <4>3
    <3> QED
      BY <2>1, <2>2, <3>1, <3>2, <3>3 DEF Full
  <2> QED
    BY <1>0, <1>3, <2>1, <2>2 DEF StoredPaired
<1>6. CASE Deletes(r)
  <2>1. PICK s \in Sids : messages' = messages \ Stored(s)
    BY <1>6 DEF Deletes
  <2>2. \A m : m \in messages' <=> m \in messages /\ m.session # s
    BY <2>1 DEF Stored
  <2> QED
    BY <1>0, <1>3, <2>2 DEF StoredPaired
<1> QED
  BY <1>0, <1>4, <1>5, <1>6, LogFootprint

\* A found question is found again.
LEMMA FoundStep ==
    ASSUME ReplayInv, NEW r \in Requests, Progress(r) \/ Abort(r), NEW q \in Requests
    PROVE  FoundInv(q)'
<1>0. TypeOK /\ LockInv /\ SessionInv /\ LogInv /\ FoundInv(q)
  BY DEF ReplayInv, LogInv, SessionInv, LockInv
<1>1. req' = req /\ \A p \in Requests \ {r} : pc'[p] = pc[p] /\ txn'[p] = txn[p]
  BY <1>0, LockFootprint
<1>2. pc'[q] \in {"lookup", "replying"} => req'[q].cid # NoOne
  BY <1>0, <1>1, ReplayFootprint DEF FoundInv, FindPrior
<1>3. CASE pc'[q] = "replying" /\ pc[q] = "replying" /\ txn'[q] = txn[q]
  <2>1. PICK x, rows : x = txn[q].session /\ rows = Priors(q)
    OBVIOUS
  <2>2. x \in Sids /\ Known(x, rows)
    BY <1>0, <1>3, <2>1 DEF FoundInv, TypeOK, Txn, Resolved
  <2>3. Known(x, rows)'
    BY <1>0, <2>2, KnownStays
  <2>4. txn'[q].session = x /\ Priors(q)' = rows
    BY <1>1, <1>3, <2>1 DEF Priors
  <2> QED
    BY <1>2, <2>3, <2>4 DEF FoundInv
<1>4. CASE pc'[q] = "replying" /\ q = r
  <2>1. FindPrior(r)
    BY <1>0, <1>4, ReplayFootprint
  <2>2. PICK x : x = txn[r].session
    OBVIOUS
  <2>3. x \in Sids
    BY <1>0, <2>1, <2>2 DEF FindPrior, TypeOK, Txn, Resolved
  <2>4. PICK m \in Stored(x) : m.cid = req[r].cid /\ txn' = [txn EXCEPT ![r].prior = m.seq]
    BY <1>0, <1>4, <2>1, <2>2 DEF FindPrior, Goto, TypeOK
  <2>5. /\ txn'[r].prior = m.seq /\ txn'[r].session = x
        /\ \A p \in Requests : txn'[p].creates = txn[p].creates
                               /\ txn'[p].session = txn[p].session
    BY <1>0, <2>2, <2>4 DEF TypeOK, Txn
  <2>6. owner[x] # NoOne
    BY <1>0, <2>3, <2>4 DEF LogInv, StoreInv, SeqIntegrity
  <2>7. x <= lastSid /\ \A p \in Requests : txn[p].creates => txn[p].session # x
    BY <1>0, <2>3, <2>6 DEF SessionInv, IdsInOrder, CreatorsApart, Apart
  <2>8. m \in Priors(r)' /\ m \in Stored(x)'
    BY <1>0, <1>1, <2>1, <2>4, <2>5 DEF Priors, Stored, TypeOK, FindPrior, tables
  <2>9. Known(x, Priors(r))'
    BY <2>1, <2>5, <2>7, <2>8 DEF Known, FindPrior
  <2> QED
    BY <1>2, <1>4, <2>5, <2>9 DEF FoundInv
<1>5. CASE pc'[q] # "replying"
  BY <1>2, <1>5 DEF FoundInv
<1> QED
  BY <1>1, <1>3, <1>4, <1>5

\* What a step sends back belongs to the question that was looked up.
LEMMA AnswerStep ==
    ASSUME ReplayInv, NEW r \in Requests, Progress(r) \/ Abort(r),
           NEW q \in Requests, NEW m \in answer'[q] \ answer[q]
    PROVE  \E asked \in Stored(m.session) :
              /\ asked.role = "user" /\ asked.cid = req[q].cid
              /\ \/ m.role = "assistant" /\ m.by = asked.by
                 \/ outcome[asked.by] = "abandoned"
<1>0. TypeOK /\ LogInv /\ StoredPaired /\ FoundInv(r)
  BY DEF ReplayInv, LogInv, SessionInv, LockInv
<1>1. FindReply(r)
  BY <1>0, ReplayFootprint
<1>2. PICK s : s = txn[r].session
  OBVIOUS
<1>3. s \in Sids /\ pc[r] = "replying"
  BY <1>0, <1>1, <1>2 DEF FindReply, TypeOK, Txn, Resolved
<1>4. q = r /\ m \in Stored(s) /\ m.seq = txn[r].prior + 1
  BY <1>0, <1>1, <1>2 DEF FindReply, TypeOK, MessageAfterPrior
<1>5. owner[s] # NoOne
  BY <1>0, <1>3, <1>4 DEF LogInv, StoreInv, SeqIntegrity
<1>6. PICK asked \in Stored(s) : asked.seq = txn[r].prior /\ asked.cid = req[r].cid
  BY <1>0, <1>2, <1>3, <1>5 DEF FoundInv, Known, Priors
<1>7. asked \in messages /\ asked.session = s /\ asked.role = "user"
  BY <1>0, <1>3, <1>6 DEF FoundInv, StoredPaired, Stored
<1>8. CASE outcome[asked.by] = "abandoned"
  BY <1>4, <1>6, <1>7, <1>8 DEF Stored
<1>9. CASE \E reply \in messages : /\ reply.session = asked.session
                                   /\ reply.seq = asked.seq + 1
                                   /\ reply.role = "assistant" /\ reply.by = asked.by
  <2>1. PICK reply \in Stored(s) : /\ reply.seq = asked.seq + 1
                                   /\ reply.role = "assistant" /\ reply.by = asked.by
    BY <1>7, <1>9 DEF Stored
  <2>2. m = reply
    BY <1>0, <1>3, <1>4, <1>6, <2>1 DEF LogInv, StoreInv, SeqIntegrity
  <2> QED
    BY <1>4, <1>6, <1>7, <2>1, <2>2 DEF Stored
<1> QED
  BY <1>0, <1>7, <1>8, <1>9 DEF StoredPaired

LEMMA ReplayInvInit == Init => ReplayInv
<1>1. ASSUME Init
      PROVE  messages = {} /\ \A r \in Requests : pc[r] = "idle"
  BY <1>1 DEF Init
<1> QED
  BY <1>1, LogInvInit DEF ReplayInv, StoredPaired, FoundInv

LEMMA ReplayInvNext ==
    ASSUME ReplayInv, [Next]_vars
    PROVE  ReplayInv'
<1> DEFINE AllFound == \A q \in Requests : FoundInv(q)
<1>0. TypeOK /\ LogInv /\ StoredPaired /\ AllFound
  BY DEF ReplayInv, LogInv, SessionInv, LockInv
<1>1. LogInv'
  BY LogInvNext DEF ReplayInv
<1>2. ASSUME NEW r \in Requests, Progress(r) \/ Abort(r)
      PROVE  StoredPaired' /\ AllFound'
  BY <1>2, StoredPairedStep, FoundStep
\* A step after which the rows and the transactions are the same, and at most
\* a request that was idle has been admitted.
<1> DEFINE Untouched ==
              /\ UNCHANGED <<owner, messages, lastSid, txn, outcome>>
              /\ \A q \in Requests : \/ pc'[q] = pc[q] /\ req'[q] = req[q]
                                     \/ pc[q] = "idle" /\ pc'[q] = "admitted"
<1>3. ASSUME Untouched
      PROVE  StoredPaired' /\ AllFound'
  <2>1. \A m \in messages : m.by \in Requests
    BY <1>0 DEF TypeOK, Message
  <2>2. StoredPaired'
    BY <1>0, <1>3, <2>1 DEF StoredPaired
  <2>3. ASSUME NEW q \in Requests
        PROVE  FoundInv(q)'
    <3>1. FoundInv(q)
      BY <1>0
    <3>2. CASE pc[q] = "idle" /\ pc'[q] = "admitted"
      BY <3>2 DEF FoundInv
    <3>3. CASE pc'[q] = pc[q] /\ req'[q] = req[q]
      <4>1. Priors(q)' = Priors(q)
        BY <1>3, <3>3 DEF Priors
      <4> QED
        BY <1>3, <3>1, <3>3, <4>1 DEF FoundInv, Known, Stored
    <3> QED
      BY <1>3, <3>2, <3>3
  <2> QED
    BY <2>2, <2>3
<1>4. ASSUME NEW r \in Requests, Begin(r)
      PROVE  Untouched
  BY <1>0, <1>4 DEF Begin, Goto, tables, TypeOK
<1>5. ASSUME Midnight \/ UNCHANGED vars
      PROVE  Untouched
  BY <1>5 DEF Midnight, vars, tables, locks
<1> HIDE DEF Untouched, AllFound
<1>6. StoredPaired' /\ AllFound'
  <2>1. CASE \E r \in Requests : Begin(r) \/ Progress(r) \/ Abort(r)
    BY <1>2, <1>3, <1>4, <2>1
  <2>2. CASE Midnight \/ UNCHANGED vars
    BY <1>3, <1>5, <2>2
  <2> QED
    BY <2>1, <2>2 DEF Next, Finished
<1> QED
  BY <1>1, <1>6 DEF ReplayInv, AllFound

\* A retry with a client_message_id is answered with the reply to the very
\* question that id names, through any race, deletion, refusal or abort; the
\* one exception is a question whose answer was cut off, by a client that left
\* a stream or an NDJSON completion or by a failing tool loop.
THEOREM ReplaysAreOwnReplies == Spec => ReplayOwnUnlessCut
<1>1. Init => ReplayInv
  BY ReplayInvInit
<1>2. ReplayInv /\ [Next]_vars => ReplayInv'
  BY ReplayInvNext
<1>3. ASSUME ReplayInv, [Next]_vars
      PROVE  \A r \in Requests : \A m \in answer'[r] \ answer[r] :
                \E asked \in Stored(m.session) :
                    /\ asked.role = "user" /\ asked.cid = req[r].cid
                    /\ \/ m.role = "assistant" /\ m.by = asked.by
                       \/ outcome[asked.by] = "abandoned"
  <2>1. CASE \E r \in Requests : Progress(r) \/ Abort(r)
    BY <1>3, <2>1, AnswerStep
  <2>2. CASE (\E r \in Requests : Begin(r)) \/ Midnight \/ UNCHANGED vars
    <3>1. answer' = answer
      BY <2>2 DEF Begin, Midnight, vars
    <3> QED
      BY <3>1
  <2> QED
    BY <1>3, <2>1, <2>2 DEF Next, Finished
<1> QED
  BY <1>1, <1>2, <1>3, PTL DEF Spec, ReplayOwnUnlessCut

-----------------------------------------------------------------------------
(* A session is a log of turns.                                            *)

\* What EntriesOf and covered read, as functions of the rows alone.
Numbers(rows) == {m.seq : m \in rows}
At(rows, n) == CHOOSE m \in rows : m.seq = n
EntryOf(m) == [by |-> m.by, role |-> m.role, key |-> m.cid, ending |-> m.status]
EntriesIn(rows, next) == [i \in 1..(next - 1) |-> EntryOf(At(rows, i))]
Newest(sums, s) ==
    {u \in sums \cup {[session |-> s, version |-> 0, covers |-> 0]} :
        \A v \in sums : v.version <= u.version}
Covered(sums, s) == (CHOOSE u \in Newest(sums, s) : TRUE).covers
SumsOf(s) == {u \in summaries : u.session = s}

LEMMA LogOfRows ==
    ASSUME NEW s
    PROVE  /\ EntriesOf(s) = EntriesIn(Stored(s), nextSeq[s])
           /\ EntriesOf(s)' = EntriesIn(Stored(s)', nextSeq'[s])
           /\ (CHOOSE u \in Latest(s) : TRUE).covers = Covered(SumsOf(s), s)
           /\ ((CHOOSE u \in Latest(s) : TRUE).covers)' = Covered(SumsOf(s)', s)
BY DEF EntriesOf, MessageAt, EntriesIn, EntryOf, At, Latest, Newest, Covered, SumsOf

LEMMA AtIs ==
    ASSUME NEW rows, \A m, n \in rows : m.seq = n.seq => m = n, NEW m \in rows
    PROVE  At(rows, m.seq) = m
BY DEF At

\* The entries of a session form a sequence, one for each row.
LEMMA RowsAreASequence ==
    ASSUME NEW rows \in SUBSET Message, NEW k \in Nat, Numbers(rows) = 1 .. k
    PROVE  /\ EntriesIn(rows, k + 1) \in Seq(Log!Entry)
           /\ Len(EntriesIn(rows, k + 1)) = k
           /\ \A i \in 1 .. k : /\ At(rows, i) \in rows /\ At(rows, i).seq = i
                                /\ EntriesIn(rows, k + 1)[i] = EntryOf(At(rows, i))
<1>1. ASSUME NEW i \in 1 .. k
      PROVE  At(rows, i) \in rows /\ At(rows, i).seq = i
  <2>1. PICK m \in rows : m.seq = i
    BY DEF Numbers
  <2> QED
    BY <2>1 DEF At
<1>2. (k + 1) - 1 = k
  OBVIOUS
<1>3. EntriesIn(rows, k + 1) = [i \in 1 .. k |-> EntryOf(At(rows, i))]
  BY <1>2 DEF EntriesIn
<1>4. \A m \in rows : EntryOf(m) \in Log!Entry
  BY DEF EntryOf, Message, Log!Entry
<1>5. EntriesIn(rows, k + 1) \in [1 .. k -> Log!Entry]
  BY <1>1, <1>3, <1>4
<1>6. EntriesIn(rows, k + 1) \in Seq(Log!Entry) /\ Len(EntriesIn(rows, k + 1)) = k
  BY <1>5, SeqDef, LenProperties
<1> QED
  BY <1>1, <1>3, <1>6

\* A row behind the last one is one more entry.
LEMMA RowAppended ==
    ASSUME NEW rows \in SUBSET Message, NEW k \in Nat, Numbers(rows) = 1 .. k,
           NEW a \in Message, a.seq = k + 1,
           \A m, n \in rows \cup {a} : m.seq = n.seq => m = n
    PROVE  /\ EntriesIn(rows \cup {a}, k + 2) = Append(EntriesIn(rows, k + 1), EntryOf(a))
           /\ Numbers(rows \cup {a}) = 1 .. k + 1
<1> DEFINE more == rows \cup {a}
           j    == k + 1
           old  == EntriesIn(rows, k + 1)
           new  == EntriesIn(more, j + 1)
<1>1. more \in SUBSET Message /\ j \in Nat
  OBVIOUS
<1>2. Numbers(more) = 1 .. j
  <2>1. Numbers(more) = (1 .. k) \cup {k + 1}
    BY DEF Numbers
  <2>2. 1 .. k + 1 = (1 .. k) \cup {k + 1}
    OBVIOUS
  <2> QED
    BY <2>1, <2>2
<1>3. /\ old \in Seq(Log!Entry) /\ Len(old) = k
      /\ \A i \in 1 .. k : At(rows, i) \in rows /\ old[i] = EntryOf(At(rows, i))
                           /\ At(rows, i).seq = i
  BY RowsAreASequence
<1>4. \A m \in more : At(more, m.seq) = m
  BY AtIs
<1>5. \A i \in 1 .. k : At(more, i) = At(rows, i)
  BY <1>3, <1>4
<1>6. At(more, j) = a
  BY <1>4
<1> HIDE DEF more, j
<1>7. /\ new \in Seq(Log!Entry) /\ Len(new) = j
      /\ \A i \in 1 .. j : new[i] = EntryOf(At(more, i))
  BY <1>1, <1>2, RowsAreASequence
<1>8. EntryOf(a) \in Log!Entry
  BY DEF EntryOf, Message, Log!Entry
<1> HIDE DEF old, new
<1>9. /\ Append(old, EntryOf(a)) \in Seq(Log!Entry)
      /\ Len(Append(old, EntryOf(a))) = j
      /\ \A i \in 1 .. k : Append(old, EntryOf(a))[i] = old[i]
      /\ Append(old, EntryOf(a))[j] = EntryOf(a)
  BY <1>3, <1>8, AppendProperties DEF j
<1>10. \A i \in 1 .. j : i \in 1 .. k \/ i = j
  BY DEF j
<1>11. \A i \in 1 .. j : new[i] = Append(old, EntryOf(a))[i]
  BY <1>3, <1>5, <1>6, <1>7, <1>9, <1>10
<1>12. new = Append(old, EntryOf(a))
  BY <1>7, <1>9, <1>11, SeqEqual
<1>13. j + 1 = k + 2
  BY DEF j
<1> QED
  BY <1>2, <1>12, <1>13 DEF new, old, more, j

\* The latest summary is the one just added, and there is none at first.
LEMMA NothingCovered ==
    ASSUME NEW s
    PROVE  Covered({}, s) = 0
<1> DEFINE zero == [session |-> s, version |-> 0, covers |-> 0]
<1>1. Newest({}, s) = {zero} /\ zero.covers = 0
  BY DEF Newest
<1> HIDE DEF zero
<1>2. (CHOOSE u \in Newest({}, s) : TRUE) = zero
  BY <1>1
<1> QED
  BY <1>1, <1>2 DEF Covered

LEMMA CoveredByNew ==
    ASSUME NEW s, NEW sums, NEW u, u.version \in Nat, u.version >= 1,
           \A v \in sums : v.version \in Nat /\ v.version < u.version
    PROVE  Covered(sums \cup {u}, s) = u.covers
<1>1. Newest(sums \cup {u}, s) = {u}
  <2> DEFINE zero == [session |-> s, version |-> 0, covers |-> 0]
  <2>1. zero.version = 0
    OBVIOUS
  <2> HIDE DEF zero
  <2>2. \A w \in sums \cup {u} \cup {zero} :
           (\A v \in sums \cup {u} : v.version <= w.version) <=> w = u
    BY <2>1
  <2> QED
    BY <2>2 DEF Newest, zero
<1>2. (CHOOSE x \in Newest(sums \cup {u}, s) : TRUE) = u
  BY <1>1
<1> QED
  BY <1>2 DEF Covered

-----------------------------------------------------------------------------
(* A denied stream's answer is stored once until it is stored again.       *)

\* A denied stream between its two transactions.
Waits(r) ==
    \/ pc[r] = "static"
    \/ pc[r] = "closing" /\ req[r].kind = "stream_denial" /\ txn[r].writes # {}

Answers(r) == {m \in Message : /\ m.by = r /\ m.role = "assistant"
                               /\ m.status = "complete" /\ m.cid = NoOne}
AnswersOnce(r) ==
    \A m, n \in messages :
        m.by = r /\ n.by = r /\ m.role = "assistant" /\ n.role = "assistant" => m = n

DenialInv(r) ==
    Waits(r) => AnswersOnce(r) /\ Known(txn[r].session, Answers(r))
\* Who has stored something has nothing to do any more, or repeats its answer.
WritersDone == \A m \in messages : pc[m.by] = "done" \/ Waits(m.by)

TurnsInv == LogInv /\ WritersDone /\ \A r \in Requests : DenialInv(r)

\* How a request comes to wait, goes on waiting and stops.
LEMMA WaitsFootprint ==
    ASSUME LogInv, NEW r \in Requests, Progress(r) \/ Abort(r)
    PROVE  /\ Waits(r) => pc'[r] = "done" \/ Waits(r)'
           /\ Waits(r)' => \/ Waits(r) /\ txn'[r].session = txn[r].session
                              /\ UNCHANGED tables
                           \/ DenyStream(r) /\ pc'[r] = "static"
<1>0. /\ TypeOK /\ RequestInv(r) /\ StaticIsDenial /\ txn[r] \in Txn
      /\ txn \in [Requests -> Txn] /\ pc \in [Requests -> Stages]
  BY DEF LogInv, RequestsInv, SessionInv, LockInv, TypeOK
<1>f. req' = req
  BY LockFootprint DEF LogInv, SessionInv
<1>w. pc[r] \notin {"generating", "closing"} => txn[r].writes = {}
  BY <1>0 DEF RequestInv, InOrder
<1> DEFINE Done == pc'[r] = "done"
           Idle == ~ Waits(r) /\ ~ Waits(r)'
<1>1. ASSUME NEW result, Refuse(r, result)
      PROVE  Done
  BY <1>0, <1>1 DEF Refuse, Goto
<1>2. ASSUME pc[r] \notin {"static", "closing"}, pc'[r] \notin {"static", "closing"}
      PROVE  Idle
  BY <1>2 DEF Waits
<1>d. ASSUME Done
      PROVE  ~ Waits(r)'
  BY <1>d DEF Waits
<1>3. CASE CheckQuota(r) \/ DeleteLookup(r) \/ ResolveSession(r)
  <2>1. Done \/ Idle
    BY <1>0, <1>1, <1>2, <1>3
       DEF CheckQuota, DeleteLookup, ResolveSession, AfterResolve, Goto
  <2> QED
    BY <1>d, <2>1
<1>4. CASE FindPrior(r) \/ AppendUser(r)
  <2>1. Done \/ Idle
    BY <1>0, <1>1, <1>2, <1>4 DEF FindPrior, AppendUser, Goto
  <2> QED
    BY <1>d, <2>1
<1>5. CASE FindReply(r)
  <2>1. pc[r] = "replying" /\ txn' = txn /\ pc'[r] \in {"fresh", "closing"}
    BY <1>0, <1>5 DEF FindReply, Goto
  <2> QED
    BY <1>w, <2>1 DEF Waits
<1>6. CASE AnswerComplete(r) \/ StreamCompletes(r) \/ StreamStops(r) \/ Abandoned(r)
  <2>1. pc[r] = "generating" /\ req[r].kind # "stream_denial" /\ pc'[r] = "closing"
    BY <1>0, <1>6 DEF AnswerComplete, StreamCompletes, StreamStops, Abandoned, Answered, Goto
  <2> QED
    BY <1>f, <2>1 DEF Waits
<1>7. CASE AnswerFails(r) \/ AnswerCanned(r) \/ Commit(r) \/ Open(r) \/ DeleteRow(r) \/ Abort(r)
  <2>1. Done
    BY <1>0, <1>7 DEF AnswerFails, AnswerCanned, Commit, Open, DeleteRow, Abort, Goto
  <2> QED
    BY <1>d, <2>1
<1>8. CASE DenyStream(r)
  <2>1. pc[r] = "generating" /\ (Done \/ pc'[r] = "static")
    BY <1>0, <1>1, <1>8 DEF DenyStream, Goto
  <2> QED
    BY <1>8, <1>d, <2>1 DEF Waits
<1>9. CASE PersistStatic(r)
  <2>1. CASE Refuse(r, "internal_error")
    BY <1>1, <1>d, <2>1
  <2>2. CASE ~ Refuse(r, "internal_error")
    <3>1. /\ pc[r] = "static" /\ pc'[r] = "closing" /\ UNCHANGED tables
      BY <1>0, <1>9, <2>2 DEF PersistStatic, Goto
    <3> DEFINE n == nextSeq[txn[r].session]
               t == [txn[r] EXCEPT !.writes = {Reply(r, n, "complete")}, !.next = n + 1]
    <3>2. Completed(r, t)
      BY <1>9, <2>2 DEF PersistStatic
    <3>5. t.session = txn[r].session /\ t.writes = {Reply(r, n, "complete")}
          /\ t = [t EXCEPT !.next = n + 1]
      BY <1>0 DEF Txn
    <3>6. DOMAIN t = DOMAIN NoTxn
      BY <1>0 DEF Txn, NoTxn
    <3> HIDE DEF t
    <3>3. txn'[r].session = txn[r].session /\ txn'[r].writes # {}
      BY <1>0, <3>2, <3>5, <3>6 DEF Completed, NoTxn
    <3>4. req'[r].kind = "stream_denial"
      BY <1>0, <1>f, <3>1 DEF StaticIsDenial
    <3> QED
      BY <3>1, <3>3, <3>4 DEF Waits
  <2> QED
    BY <2>1, <2>2
<1> QED
  BY <1>3, <1>4, <1>5, <1>6, <1>7, <1>8, <1>9 DEF Progress

\* A step that leaves every session but s as it is, and what it may store in s.
TouchesOnly(s) ==
    \A x \in Sids \ {s} :
        /\ Stored(x)' = Stored(x) /\ nextSeq'[x] = nextSeq[x]
        /\ SumsOf(x)' = SumsOf(x) /\ (owner'[x] = NoOne <=> owner[x] = NoOne)

NotSummed(s) == SumsOf(s)' = SumsOf(s)
SummedUp(s) ==
    \E u : /\ SumsOf(s)' = SumsOf(s) \cup {u}
           /\ u.version \in Nat /\ u.version >= 1 /\ u.covers = nextSeq'[s] - 1
           /\ \A v \in SumsOf(s) : v.version < u.version

StoresNothing(s) ==
    /\ Stored(s)' = Stored(s) /\ nextSeq'[s] = nextSeq[s] /\ NotSummed(s)
    /\ owner'[s] = NoOne => owner[s] = NoOne

Stores(s, rows, k) ==
    Stored(s)' = Stored(s) \cup rows /\ nextSeq'[s] = nextSeq[s] + k /\ owner'[s] # NoOne
StoresTurn(r, s, e) ==
    /\ Stores(s, {Question(r, nextSeq[s]), Reply(r, nextSeq[s] + 1, e)}, 2)
    /\ NotSummed(s) \/ (SummedUp(s) /\ e = "complete")
StoresCutOff(r, s) ==
    Stores(s, {Question(r, nextSeq[s])}, 1) /\ NotSummed(s)
StoresAgain(r, s) ==
    /\ Stores(s, {Reply(r, nextSeq[s], "complete")}, 1)
    /\ NotSummed(s) \/ SummedUp(s)
    /\ owner[s] # NoOne

Drops(s) ==
    Stored(s)' = {} /\ nextSeq'[s] = 1 /\ SumsOf(s)' = {} /\ owner'[s] = NoOne

\* What a request r adds to its session s.
Adds(r, s) ==
    \/ /\ ~ Waits(r) /\ ~ KeyTaken(r)
       /\ StoresCutOff(r, s) \/ \E e \in Outcomes : StoresTurn(r, s, e)
    \/ Waits(r) /\ StoresAgain(r, s)

\* A request commits a turn, a question cut off, an answer again, or nothing.
LEMMA CommitsABlock ==
    ASSUME TurnsInv, NEW r \in Requests, Progress(r) \/ Abort(r), Commits(r)
    PROVE  /\ \A m \in messages' : m \in messages \/ m.by = r
           /\ \E s \in Sids : /\ s = txn[r].session /\ TouchesOnly(s)
                              /\ StoresNothing(s) \/ Adds(r, s)
<1>0. TypeOK /\ LockInv /\ LogInv /\ txn[r] \in Txn
  BY DEF TurnsInv, LogInv, SessionInv, LockInv, TypeOK
<1>1. pc[r] # "idle"
  BY <1>0, LockFootprint
<1>3. PICK t \in Txn :
        /\ Install(req[r].caller, t)
        /\ t.session \in Sids /\ t.session = txn[r].session /\ t.creates = txn[r].creates
        /\ SumsContinue(t)
        /\ t.writes # {} => /\ Extends(t) /\ NewKey(r)
                            /\ pc[r] \in {"generating", "closing"} /\ txn[r].writes # {}
                            /\ \/ Full(r, t.writes)
                               \/ CutOff(r, t.writes) /\ outcome'[r] = "abandoned"
                            /\ t.creates \/ owner[t.session] # NoOne
  BY DEF Commits
<1>s. PICK s \in Sids : s = t.session
  BY <1>3
<1>4. /\ \A x \in Sids : Stored(x)' =
            IF x = s THEN Stored(x) \cup t.writes ELSE Stored(x)
      /\ \A x \in Sids : nextSeq'[x] =
            IF x = s /\ t.writes # {} THEN t.next ELSE nextSeq[x]
      /\ \A x \in Sids : owner'[x] =
            IF x = s /\ t.creates THEN req[r].caller ELSE owner[x]
      /\ req[r].caller # NoOne
      /\ summaries' = summaries \cup t.sums
      /\ t.sums # {} => t.writes # {}
      /\ \A u \in t.sums : u.session = s
      /\ \A m \in t.writes : m.seq \in Nat /\ m.session = s
  BY <1>0, <1>1, <1>3, <1>s, CommitStores
<1>5. \A x \in Sids \ {s} : SumsOf(x)' = SumsOf(x)
  BY <1>4 DEF SumsOf
<1>6. SumsOf(s)' = SumsOf(s) \cup t.sums
  BY <1>4 DEF SumsOf
<1>7. TouchesOnly(s)
  BY <1>4, <1>5 DEF TouchesOnly
<1>m. messages' = messages \cup t.writes
  BY <1>3 DEF Install, Charged
<1>8. CASE t.writes = {}
  BY <1>3, <1>4, <1>6, <1>7, <1>8, <1>m, <1>s DEF StoresNothing, NotSummed
<1>9. CASE t.writes # {}
  <2>1. PICK lo \in Nat, hi \in Nat :
           /\ lo = nextSeq[s] /\ hi = t.next /\ lo < hi
           /\ {m.seq : m \in t.writes} = lo .. hi - 1
    BY <1>0, <1>3, <1>9, <1>s DEF TypeOK, Txn, Extends
  <2>2. nextSeq'[s] = hi /\ owner'[s] # NoOne /\ Stored(s)' = Stored(s) \cup t.writes
    BY <1>3, <1>4, <1>9, <1>s, <2>1
  \* A summary ends with a complete answer, which is the last row written.
  <2>3. \/ NotSummed(s)
        \/ \E m \in t.writes :
              /\ m.role = "assistant" /\ m.status = "complete"
              /\ m.seq = hi - 1 => SummedUp(s)
    <3>1. CASE t.sums = {}
      BY <1>6, <3>1 DEF NotSummed
    <3>2. CASE t.sums # {}
      <4>1. PICK u \in t.sums : t.sums = {u} /\ Continues(u, t)
        BY <1>3, <3>2 DEF SumsContinue
      <4>2. PICK m \in t.writes :
               m.seq = u.covers /\ m.role = "assistant" /\ m.status = "complete"
        BY <4>1 DEF Continues
      <4>3. u.version \in Nat /\ u.version >= 1
        BY <4>1 DEF Continues, Txn, Summary
      <4>4. \A v \in SumsOf(s) : v.version < u.version
        BY <1>s, <4>1 DEF Continues, SumsOf
      <4>5. SumsOf(s)' = SumsOf(s) \cup {u}
        BY <1>6, <4>1
      <4> QED
        BY <2>2, <4>2, <4>3, <4>4, <4>5 DEF SummedUp
    <3> QED
      BY <3>1, <3>2
  <2>4. CASE Turned(r, t.writes) /\ ~ Second(r)
    <3>1. PICK n \in Nat, e \in Outcomes : t.writes = {Question(r, n), Reply(r, n + 1, e)}
      BY <2>4 DEF Turned
    <3> DEFINE a == Question(r, n)
               b == Reply(r, n + 1, e)
    <3>2. /\ a.seq = n /\ a.by = r /\ a.role = "user"
          /\ b.seq = n + 1 /\ b.by = r /\ b.role = "assistant" /\ b.status = e
      BY DEF Question, Reply
    <3> HIDE DEF a, b
    <3>3. {n, n + 1} = lo .. hi - 1
      BY <2>1, <3>1, <3>2 DEF a, b
    <3>4. lo = n /\ hi = n + 2
      <4>1. lo \in {n, n + 1} /\ hi - 1 \in {n, n + 1} /\ n \in lo .. hi - 1 /\ n + 1 \in lo .. hi - 1
        BY <2>1, <3>3
      <4> QED
        BY <4>1
    <3>5. Stores(s, {Question(r, nextSeq[s]), Reply(r, nextSeq[s] + 1, e)}, 2)
      BY <2>1, <2>2, <3>1, <3>4 DEF Stores
    <3>6. NotSummed(s) \/ (SummedUp(s) /\ e = "complete")
      BY <2>3, <3>1, <3>2, <3>4 DEF a, b
    <3>7. ~ Waits(r) /\ ~ KeyTaken(r)
      BY <1>3, <1>9, <2>4 DEF NewKey, Second, Waits
    <3>8. \A m \in messages' : m \in messages \/ m.by = r
      BY <1>m, <3>1, <3>2 DEF a, b
    <3> QED
      BY <1>3, <1>7, <1>s, <3>5, <3>6, <3>7, <3>8 DEF Adds, StoresTurn
  <2>5. CASE CutOff(r, t.writes)
    <3>1. PICK n \in Nat : t.writes = {Question(r, n)}
      BY <2>5 DEF CutOff, Asked
    <3>2. /\ Question(r, n).seq = n /\ Question(r, n).by = r
          /\ Question(r, n).role = "user"
      BY DEF Question
    <3>3. {n} = lo .. hi - 1
      BY <2>1, <3>1, <3>2
    <3>4. lo = n /\ hi = n + 1
      <4>1. lo \in {n} /\ hi - 1 \in {n}
        BY <2>1, <3>3
      <4> QED
        BY <4>1
    <3>5. Stores(s, {Question(r, nextSeq[s])}, 1) /\ NotSummed(s)
      BY <2>1, <2>2, <2>3, <3>1, <3>2, <3>4 DEF Stores
    <3>6. ~ Waits(r) /\ ~ KeyTaken(r)
      BY <1>3, <1>9, <2>5 DEF NewKey, Second, Waits, CutOff
    <3>7. \A m \in messages' : m \in messages \/ m.by = r
      BY <1>m, <3>1, <3>2
    <3> QED
      BY <1>3, <1>7, <1>s, <3>5, <3>6, <3>7 DEF Adds, StoresCutOff
  <2>6. CASE Full(r, t.writes) /\ Second(r)
    <3>1. PICK n \in Nat : t.writes = {Reply(r, n, "complete")}
      BY <2>6 DEF Full
    <3>2. Reply(r, n, "complete").seq = n /\ Reply(r, n, "complete").by = r
      BY DEF Reply
    <3>3. {n} = lo .. hi - 1
      BY <2>1, <3>1, <3>2
    <3>4. lo = n /\ hi = n + 1
      <4>1. lo \in {n} /\ hi - 1 \in {n}
        BY <2>1, <3>3
      <4> QED
        BY <4>1
    <3>5. Stores(s, {Reply(r, nextSeq[s], "complete")}, 1) /\ (NotSummed(s) \/ SummedUp(s))
      BY <2>1, <2>2, <2>3, <3>1, <3>2, <3>4 DEF Stores
    <3>6. Waits(r)
      BY <1>3, <1>9, <2>6 DEF Second, Waits
    <3>7. owner[s] # NoOne
      BY <1>3, <1>9, <1>s, <3>6 DEF TurnsInv, DenialInv, Known
    <3>8. \A m \in messages' : m \in messages \/ m.by = r
      BY <1>m, <3>1, <3>2
    <3> QED
      BY <1>3, <1>7, <1>s, <3>5, <3>6, <3>7, <3>8 DEF Adds, StoresAgain
  <2> QED
    BY <1>3, <1>9, <2>4, <2>5, <2>6 DEF Full
<1> QED
  BY <1>8, <1>9

\* The first commit of a denied stream.
LEMMA DenialStored ==
    ASSUME TurnsInv, SessionInv', NEW r \in Requests, DenyStream(r), pc'[r] = "static"
    PROVE  DenialInv(r)'
<1>0. TypeOK /\ LogInv /\ txn[r] \in Txn /\ pc[r] = "generating"
  BY DEF TurnsInv, LogInv, SessionInv, LockInv, TypeOK, DenyStream
<1>1. InOrder(r)
  BY <1>0 DEF LogInv, RequestsInv, RequestInv
<1> DEFINE t == WithReply(r, "complete")
           b == Reply(r, txn[r].next, "complete")
<1>2. PICK s : s = txn[r].session
  OBVIOUS
<1>3. /\ t \in Txn /\ t.session = s /\ s \in Sids /\ t.creates = txn[r].creates
      /\ t.writes = txn[r].writes \cup {b}
  <2>1. "complete" \in Outcomes
    BY DEF Outcomes
  <2> QED
    BY <1>0, <1>2, <2>1, ReplyExtends
<1>4. b.by = r /\ b.role = "assistant" /\ b.status = "complete" /\ b.cid = NoOne
      /\ b.session = s
  BY <1>2 DEF Reply
<1>5. Install(req[r].caller, t) /\ txn'[r].session = s
  <2>1. ~ Refuse(r, "quota_exceeded")
    BY <1>0 DEF Refuse, Goto, TypeOK
  <2>2. Install(req[r].caller, t)
    BY <2>1 DEF DenyStream
  <2>3. txn' = [txn EXCEPT ![r] = [NoTxn EXCEPT !.session = txn[r].session]]
    BY <2>1 DEF DenyStream
  <2>4. txn'[r].session = s
    BY <1>0, <1>2, <2>3 DEF TypeOK, NoTxn
  <2> QED
    BY <2>2, <2>4
<1> HIDE DEF t, b
<1>6. b \in Answers(r) /\ messages' = messages \cup txn[r].writes \cup {b}
  <2>1. b \in Message
    BY <1>3 DEF Txn
  <2>2. messages' = messages \cup t.writes
    BY <1>5 DEF Install, Charged
  <2> QED
    BY <1>3, <1>4, <2>1, <2>2 DEF Answers
<1>7. owner'[s] # NoOne
  <2>1. req[r].caller # NoOne
    BY <1>0, SubmissionsAssumption, CallersAssumption DEF TypeOK, Request
  <2>2. t.creates \/ owner[s] # NoOne
    BY <1>1, <1>2, <1>3 DEF InOrder
  <2>3. owner' = IF t.creates THEN [owner EXCEPT ![s] = req[r].caller] ELSE owner
    BY <1>3, <1>5 DEF Install
  <2> QED
    BY <1>0, <1>3, <2>1, <2>2, <2>3 DEF TypeOK
<1>8. s <= lastSid' /\ \A q \in Requests : txn'[q].creates => txn'[q].session # s
  BY <1>3, <1>7 DEF SessionInv, IdsInOrder, CreatorsApart, Apart
<1>9. Known(txn[r].session, Answers(r))'
  <2>1. b \in Stored(s)'
    BY <1>4, <1>6 DEF Stored
  <2>2. Answers(r)' = Answers(r)
    BY DEF Answers
  <2> QED
    BY <1>5, <1>6, <1>8, <2>1, <2>2 DEF Known
<1>10. AnswersOnce(r)'
  <2>1. \A m \in messages : m.by # r
    BY <1>0 DEF TurnsInv, WritersDone, Waits
  <2>2. \A m \in txn[r].writes : m.role = "user"
    BY <1>0, <1>1 DEF InOrder, Asked, Question
  <2> QED
    BY <1>6, <2>1, <2>2 DEF AnswersOnce
<1> QED
  BY <1>9, <1>10 DEF DenialInv

LEMMA TurnsInvInit == Init => TurnsInv
<1>1. ASSUME Init
      PROVE  messages = {} /\ \A r \in Requests : pc[r] = "idle"
  BY <1>1 DEF Init
<1> QED
  BY <1>1, LogInvInit DEF TurnsInv, WritersDone, DenialInv, Waits

LEMMA TurnsInvStep ==
    ASSUME TurnsInv, SessionInv', NEW r \in Requests, Progress(r) \/ Abort(r)
    PROVE  WritersDone' /\ \A q \in Requests : DenialInv(q)'
<1>0. TypeOK /\ LockInv /\ SessionInv /\ LogInv
  BY DEF TurnsInv, LogInv, SessionInv, LockInv
<1>1. /\ req' = req /\ pc[r] # "done"
      /\ \A q \in Requests \ {r} : pc'[q] = pc[q] /\ txn'[q] = txn[q]
  BY <1>0, LockFootprint, StepsTaken
<1>2. \A q \in Requests \ {r} : Waits(q)' <=> Waits(q)
  BY <1>1 DEF Waits
<1>3. \A m \in messages : m.by \in Requests
  BY <1>0 DEF TypeOK, Message
<1>4. \A m \in messages : pc'[m.by] = "done" \/ Waits(m.by)'
  BY <1>0, <1>1, <1>2, <1>3, WaitsFootprint DEF TurnsInv, WritersDone
\* Only a commit stores anything, and it stores rows of r.
<1>5. \A m \in messages' : m \in messages \/ (m.by = r /\ pc'[r] \in {"done", "static"})
  <2>1. CASE Local
    BY <2>1 DEF Local
  <2>2. CASE Commits(r)
    <3>1. \A m \in messages' : m \in messages \/ m.by = r
      BY <2>2, CommitsABlock
    <3>2. pc'[r] \in {"done", "static"}
      BY <2>2 DEF Commits
    <3> QED
      BY <3>1, <3>2
  <2>3. CASE Deletes(r)
    BY <2>3 DEF Deletes
  <2> QED
    BY <1>0, <2>1, <2>2, <2>3, LogFootprint
<1>6. WritersDone'
  BY <1>4, <1>5 DEF WritersDone, Waits
\* A session that a denied stream waits for, before and after the step.
<1>7. ASSUME NEW q \in Requests, Waits(q), txn'[q].session = txn[q].session,
             \A m \in messages' : m \in messages \/ m.by # q
      PROVE  DenialInv(q)'
  <2>1. PICK x, rows : x = txn[q].session /\ rows = Answers(q)
    OBVIOUS
  <2>2. Known(x, rows) /\ AnswersOnce(q)
    BY <1>7, <2>1 DEF TurnsInv, DenialInv
  <2>3. x \in Sids
    BY <1>0, <1>7, <2>1 DEF TypeOK, Txn, Resolved, Waits
  <2>4. Known(x, rows)'
    BY <1>0, <2>2, <2>3, KnownStays
  <2>5. txn'[q].session = x /\ Answers(q)' = rows
    BY <1>7, <2>1 DEF Answers
  <2>6. AnswersOnce(q)'
    BY <1>7, <2>2 DEF AnswersOnce
  <2> QED
    BY <2>4, <2>5, <2>6 DEF DenialInv
<1>8. ASSUME NEW q \in Requests \ {r}
      PROVE  DenialInv(q)'
  <2>1. CASE Waits(q)
    BY <1>1, <1>5, <1>7, <2>1
  <2>2. CASE ~ Waits(q)
    BY <1>2, <2>2 DEF DenialInv
  <2> QED
    BY <2>1, <2>2
<1>9. DenialInv(r)'
  <2>1. CASE ~ Waits(r)'
    BY <2>1 DEF DenialInv
  <2>2. CASE Waits(r) /\ txn'[r].session = txn[r].session /\ UNCHANGED tables
    BY <1>7, <2>2 DEF tables
  <2>3. CASE DenyStream(r) /\ pc'[r] = "static"
    BY <2>3, DenialStored
  <2> QED
    BY <1>0, <2>1, <2>2, <2>3, WaitsFootprint
<1> QED
  BY <1>6, <1>8, <1>9

LEMMA TurnsInvNext ==
    ASSUME TurnsInv, [Next]_vars
    PROVE  TurnsInv'
<1> DEFINE AllDenials == \A q \in Requests : DenialInv(q)
<1>0. TypeOK /\ LogInv /\ WritersDone /\ AllDenials
  BY DEF TurnsInv, LogInv, SessionInv, LockInv
<1>1. LogInv' /\ SessionInv'
  BY <1>0, LogInvNext DEF LogInv
<1>2. ASSUME NEW r \in Requests, Progress(r) \/ Abort(r)
      PROVE  WritersDone' /\ AllDenials'
  BY <1>1, <1>2, TurnsInvStep
<1> DEFINE Untouched ==
              /\ UNCHANGED <<owner, messages, lastSid, txn>>
              /\ \A q \in Requests : \/ pc'[q] = pc[q] /\ req'[q] = req[q]
                                     \/ pc[q] = "idle" /\ pc'[q] = "admitted"
<1>3. ASSUME Untouched
      PROVE  WritersDone' /\ AllDenials'
  <2>1. \A m \in messages : m.by \in Requests
    BY <1>0 DEF TypeOK, Message
  <2>2. \A q \in Requests : Waits(q)' <=> Waits(q)
    BY <1>3 DEF Waits
  <2>3. WritersDone'
    BY <1>0, <1>3, <2>1, <2>2 DEF WritersDone, Waits
  <2>4. ASSUME NEW q \in Requests
        PROVE  DenialInv(q)'
    <3>1. DenialInv(q)
      BY <1>0
    <3>2. Answers(q)' = Answers(q)
      BY DEF Answers
    <3>3. AnswersOnce(q)' <=> AnswersOnce(q)
      BY <1>3 DEF AnswersOnce
    <3>4. Known(txn[q].session, Answers(q)) => Known(txn[q].session, Answers(q))'
      BY <1>3, <3>2 DEF Known, Stored
    <3> QED
      BY <2>2, <3>1, <3>3, <3>4 DEF DenialInv
  <2> QED
    BY <2>3, <2>4
<1>4. ASSUME NEW r \in Requests, Begin(r)
      PROVE  Untouched
  BY <1>0, <1>4 DEF Begin, Goto, tables, TypeOK
<1>5. ASSUME Midnight \/ UNCHANGED vars
      PROVE  Untouched
  BY <1>5 DEF Midnight, vars, tables, locks
<1> HIDE DEF Untouched, AllDenials
<1>6. WritersDone' /\ AllDenials'
  <2>1. CASE \E r \in Requests : Begin(r) \/ Progress(r) \/ Abort(r)
    BY <1>2, <1>3, <1>4, <2>1
  <2>2. CASE Midnight \/ UNCHANGED vars
    BY <1>3, <1>5, <2>2
  <2> QED
    BY <2>1, <2>2 DEF Next, Finished
<1> QED
  BY <1>1, <1>6 DEF TurnsInv, AllDenials

-----------------------------------------------------------------------------
(* The state of the log a state of the tables stands for.                  *)

LiveNow    == {s \in Sids : owner[s] # NoOne}
LogNow     == [s \in Sids |-> EntriesOf(s)]
CoveredNow == [s \in Sids |-> (CHOOSE u \in Latest(s) : TRUE).covers]
LogVars    == <<LiveNow, LogNow, CoveredNow>>

\* Sessions whose rows are the same have the same entries.
LEMMA SameRowsSameLog ==
    ASSUME NEW s, Stored(s)' = Stored(s), nextSeq'[s] = nextSeq[s], SumsOf(s)' = SumsOf(s)
    PROVE  /\ EntriesOf(s)' = EntriesOf(s)
           /\ ((CHOOSE u \in Latest(s) : TRUE).covers)'
                 = (CHOOSE u \in Latest(s) : TRUE).covers
BY LogOfRows

\* Rows that only one session gets: what the step does to the log.
LEMMA OneSessionChanges ==
    ASSUME NEW s \in Sids, TouchesOnly(s)
    PROVE  /\ LogNow' = [LogNow EXCEPT ![s] = EntriesOf(s)']
           /\ CoveredNow' = [CoveredNow EXCEPT ![s] = Covered(SumsOf(s)', s)]
           /\ LiveNow' = IF owner'[s] = NoOne THEN LiveNow \ {s} ELSE LiveNow \cup {s}
<1>1. \A x \in Sids \ {s} :
         /\ EntriesOf(x)' = EntriesOf(x)
         /\ ((CHOOSE u \in Latest(x) : TRUE).covers)'
               = (CHOOSE u \in Latest(x) : TRUE).covers
  BY SameRowsSameLog DEF TouchesOnly
<1>2. LogNow' = [LogNow EXCEPT ![s] = EntriesOf(s)']
  BY <1>1 DEF LogNow
<1>3. ((CHOOSE u \in Latest(s) : TRUE).covers)' = Covered(SumsOf(s)', s)
  BY LogOfRows
<1>4. CoveredNow' = [CoveredNow EXCEPT ![s] = Covered(SumsOf(s)', s)]
  BY <1>1, <1>3 DEF CoveredNow
<1>5. \A x \in Sids \ {s} : x \in LiveNow' <=> x \in LiveNow
  BY DEF TouchesOnly, LiveNow
<1>6. s \in LiveNow' <=> owner'[s] # NoOne
  BY DEF LiveNow
<1>7. LiveNow \subseteq Sids /\ LiveNow' \subseteq Sids
  BY DEF LiveNow
<1>8. LiveNow' = IF owner'[s] = NoOne THEN LiveNow \ {s} ELSE LiveNow \cup {s}
  BY <1>5, <1>6, <1>7
<1> QED
  BY <1>2, <1>4, <1>8

-----------------------------------------------------------------------------
(* Every step of the tables is a step of the log, or none.                 *)

\* The entries of a session, and the rows they come from.
LEMMA EntriesComeFromRows ==
    ASSUME LogInv, NEW s \in Sids
    PROVE  \E k \in Nat :
              /\ nextSeq[s] = k + 1 /\ Numbers(Stored(s)) = 1 .. k
              /\ EntriesOf(s) = EntriesIn(Stored(s), k + 1) /\ Len(EntriesOf(s)) = k
              /\ \A i \in 1 .. k : \E m \in Stored(s) :
                    m.seq = i /\ EntriesOf(s)[i] = EntryOf(m)
              /\ \A m \in Stored(s) :
                    m.seq \in 1 .. k /\ EntriesOf(s)[m.seq] = EntryOf(m)
<1>1. PICK k \in Nat : nextSeq[s] = k + 1
  <2>1. nextSeq[s] \in Nat /\ nextSeq[s] >= 1
    BY DEF LogInv, StoreInv, SessionInv, LockInv, TypeOK
  <2>2. nextSeq[s] - 1 \in Nat /\ nextSeq[s] = (nextSeq[s] - 1) + 1
    BY <2>1
  <2> QED
    BY <2>2
<1>2. Stored(s) \in SUBSET Message
  BY DEF LogInv, SessionInv, LockInv, TypeOK, Stored
<1>3. Numbers(Stored(s)) = 1 .. nextSeq[s] - 1
      /\ \A m, n \in Stored(s) : m.seq = n.seq => m = n
  BY DEF LogInv, StoreInv, SeqIntegrity, Numbers
<1>4. nextSeq[s] - 1 = k
  BY <1>1
<1>5. Numbers(Stored(s)) = 1 .. k
  BY <1>3, <1>4
<1>6. EntriesOf(s) = EntriesIn(Stored(s), k + 1)
  BY <1>1, LogOfRows
<1>7. /\ Len(EntriesOf(s)) = k
      /\ \A i \in 1 .. k : /\ At(Stored(s), i) \in Stored(s) /\ At(Stored(s), i).seq = i
                           /\ EntriesOf(s)[i] = EntryOf(At(Stored(s), i))
  BY <1>2, <1>5, <1>6, RowsAreASequence
<1>8. \A m \in Stored(s) : m.seq \in 1 .. k /\ At(Stored(s), m.seq) = m
  BY <1>3, <1>5, AtIs DEF Numbers
<1>9. \A m \in Stored(s) : m.seq \in 1 .. k /\ EntriesOf(s)[m.seq] = EntryOf(m)
  BY <1>7, <1>8
<1> QED
  BY <1>1, <1>5, <1>6, <1>7, <1>9

\* One row behind the last one, and two.
LEMMA OneEntryMore ==
    ASSUME LogInv, LogInv', NEW s \in Sids, NEW a, a.seq = nextSeq[s],
           Stored(s)' = Stored(s) \cup {a}, nextSeq'[s] = nextSeq[s] + 1
    PROVE  /\ EntriesOf(s)' = Append(EntriesOf(s), EntryOf(a))
           /\ Len(EntriesOf(s)') = nextSeq'[s] - 1
<1>1. PICK k \in Nat : /\ nextSeq[s] = k + 1 /\ Numbers(Stored(s)) = 1 .. k
                       /\ EntriesOf(s) = EntriesIn(Stored(s), k + 1)
                       /\ Len(EntriesOf(s)) = k
  BY EntriesComeFromRows
<1>2. Stored(s) \in SUBSET Message /\ Stored(s)' \in SUBSET Message
  BY DEF LogInv, SessionInv, LockInv, TypeOK, Stored
<1>3. \A m, n \in Stored(s)' : m.seq = n.seq => m = n
  BY DEF LogInv, StoreInv, SeqIntegrity
<1>8. /\ a \in Message /\ a.seq = k + 1
      /\ \A m, n \in Stored(s) \cup {a} : m.seq = n.seq => m = n
  <2>1. a \in Message
    BY <1>2
  <2> QED
    BY <1>1, <1>3, <2>1
<1>4. /\ EntriesIn(Stored(s) \cup {a}, k + 2) =
            Append(EntriesIn(Stored(s), k + 1), EntryOf(a))
      /\ Numbers(Stored(s) \cup {a}) = 1 .. k + 1
  BY <1>1, <1>2, <1>8, RowAppended
<1>5. nextSeq'[s] = k + 2
  BY <1>1
<1>6. EntriesOf(s)' = EntriesIn(Stored(s) \cup {a}, k + 2)
  BY <1>5, LogOfRows
<1>7. Len(EntriesIn(Stored(s) \cup {a}, k + 2)) = k + 1
  <2>1. PICK j \in Nat, rows \in SUBSET Message :
           j = k + 1 /\ j + 1 = k + 2 /\ rows = Stored(s) \cup {a}
    BY <1>2
  <2>2. Len(EntriesIn(rows, j + 1)) = j
    BY <1>4, <2>1, RowsAreASequence
  <2> QED
    BY <2>1, <2>2
<1>9. nextSeq'[s] - 1 = k + 1
  BY <1>5
<1> QED
  BY <1>1, <1>4, <1>6, <1>7, <1>9

LEMMA TwoEntriesMore ==
    ASSUME LogInv, LogInv', NEW s \in Sids, NEW a, NEW b,
           a.seq = nextSeq[s], b.seq = nextSeq[s] + 1,
           Stored(s)' = Stored(s) \cup {a, b}, nextSeq'[s] = nextSeq[s] + 2
    PROVE  /\ EntriesOf(s)' = Append(Append(EntriesOf(s), EntryOf(a)), EntryOf(b))
           /\ Len(EntriesOf(s)') = nextSeq'[s] - 1
<1>1. PICK k \in Nat : /\ nextSeq[s] = k + 1 /\ Numbers(Stored(s)) = 1 .. k
                       /\ EntriesOf(s) = EntriesIn(Stored(s), k + 1)
                       /\ Len(EntriesOf(s)) = k
  BY EntriesComeFromRows
<1>2. Stored(s) \in SUBSET Message /\ Stored(s)' \in SUBSET Message
  BY DEF LogInv, SessionInv, LockInv, TypeOK, Stored
<1>3. \A m, n \in Stored(s)' : m.seq = n.seq => m = n
  BY DEF LogInv, StoreInv, SeqIntegrity
<1>4. PICK j \in Nat, rows \in SUBSET Message :
         /\ j = k + 1 /\ j + 1 = k + 2 /\ j + 2 = k + 3
         /\ rows = Stored(s) \cup {a} /\ rows \cup {b} = Stored(s)'
  <2>1. Stored(s) \cup {a} \in SUBSET Message
    BY <1>2
  <2>2. (Stored(s) \cup {a}) \cup {b} = Stored(s)'
    OBVIOUS
  <2>3. k + 1 \in Nat /\ (k + 1) + 1 = k + 2 /\ (k + 1) + 2 = k + 3
    BY <1>1
  <2> QED
    BY <2>1, <2>2, <2>3
<1>b. /\ a \in Message /\ a.seq = k + 1 /\ b \in Message /\ b.seq = j + 1
      /\ \A m, n \in Stored(s) \cup {a} : m.seq = n.seq => m = n
      /\ \A m, n \in rows \cup {b} : m.seq = n.seq => m = n
  <2>1. a \in Message /\ b \in Message
    BY <1>2
  <2>2. a.seq = k + 1 /\ b.seq = j + 1
    BY <1>1, <1>4
  <2> QED
    BY <1>3, <1>4, <2>1, <2>2
<1>5. /\ EntriesIn(Stored(s) \cup {a}, k + 2) =
            Append(EntriesIn(Stored(s), k + 1), EntryOf(a))
      /\ Numbers(rows) = 1 .. j
  <2>1. Numbers(Stored(s) \cup {a}) = 1 .. k + 1
        /\ EntriesIn(Stored(s) \cup {a}, k + 2) =
              Append(EntriesIn(Stored(s), k + 1), EntryOf(a))
    BY <1>1, <1>2, <1>b, RowAppended
  <2> QED
    BY <1>4, <2>1
<1>6. /\ EntriesIn(rows \cup {b}, j + 2) = Append(EntriesIn(rows, j + 1), EntryOf(b))
      /\ Numbers(rows \cup {b}) = 1 .. j + 1
  <2>1. rows \in SUBSET Message /\ j \in Nat /\ Numbers(rows) = 1 .. j
    BY <1>4, <1>5
  <2> QED
    BY <1>b, <2>1, RowAppended
<1>7. nextSeq'[s] = j + 2
  BY <1>1, <1>4
<1>8. EntriesOf(s)' = EntriesIn(rows \cup {b}, j + 2)
  BY <1>4, <1>7, LogOfRows
<1>9. Len(EntriesIn(rows \cup {b}, j + 2)) = j + 1
  <2>1. PICK i \in Nat, all \in SUBSET Message :
           i = j + 1 /\ i + 1 = j + 2 /\ all = rows \cup {b}
    BY <1>2, <1>4
  <2>2. Len(EntriesIn(all, i + 1)) = i
    BY <1>6, <2>1, RowsAreASequence
  <2> QED
    BY <2>1, <2>2
<1>10. (j + 2) - 1 = j + 1
  BY <1>4
<1> QED
  BY <1>1, <1>4, <1>5, <1>6, <1>7, <1>8, <1>9, <1>10

\* A summary that was added covers the whole log.
LEMMA SummaryCovers ==
    ASSUME LogInv, NEW s \in Sids, TouchesOnly(s),
           Len(EntriesOf(s)') = nextSeq'[s] - 1
    PROVE  /\ NotSummed(s) => CoveredNow' = CoveredNow
           /\ SummedUp(s) => CoveredNow' = [CoveredNow EXCEPT ![s] = Len(LogNow'[s])]
<1>1. CoveredNow' = [CoveredNow EXCEPT ![s] = Covered(SumsOf(s)', s)]
  BY OneSessionChanges
<1>2. LogNow'[s] = EntriesOf(s)'
  BY DEF LogNow
<1>3. CASE NotSummed(s)
  <2>1. CoveredNow[s] = Covered(SumsOf(s)', s)
    BY <1>3, LogOfRows DEF CoveredNow, NotSummed
  <2>2. CoveredNow = [x \in Sids |-> CoveredNow[x]]
    BY DEF CoveredNow
  <2>3. CoveredNow = [CoveredNow EXCEPT ![s] = CoveredNow[s]]
    BY <2>2
  <2>4. SummedUp(s) => FALSE
    <3>1. SUFFICES ASSUME NEW u, u \in SumsOf(s), u.version \in Nat,
                          \A v \in SumsOf(s) : v.version < u.version
                   PROVE  FALSE
      BY <1>3 DEF SummedUp, NotSummed
    <3> QED
      BY <3>1
  <2> QED
    BY <1>1, <2>1, <2>3, <2>4
<1>4. CASE SummedUp(s) /\ ~ NotSummed(s)
  <2>1. PICK u : /\ SumsOf(s)' = SumsOf(s) \cup {u}
                 /\ u.version \in Nat /\ u.version >= 1 /\ u.covers = nextSeq'[s] - 1
                 /\ \A v \in SumsOf(s) : v.version < u.version
    BY <1>4 DEF SummedUp
  <2>2. \A v \in SumsOf(s) : v.version \in Nat /\ v.version < u.version
    BY <2>1 DEF LogInv, SessionInv, LockInv, TypeOK, Summary, SumsOf
  <2>3. Covered(SumsOf(s) \cup {u}, s) = u.covers
    BY <2>1, <2>2, CoveredByNew
  <2>4. Covered(SumsOf(s)', s) = u.covers
    BY <2>1, <2>3
  <2> QED
    BY <1>1, <1>2, <1>4, <2>1, <2>4
<1> QED
  BY <1>3, <1>4

LEMMA NothingIsCreateOrStutter ==
    ASSUME NEW s \in Sids, TouchesOnly(s), StoresNothing(s)
    PROVE  Log!Create(s) \/ UNCHANGED LogVars
<1>1. EntriesOf(s)' = EntriesOf(s) /\ Covered(SumsOf(s)', s) = Covered(SumsOf(s), s)
  BY SameRowsSameLog DEF StoresNothing, NotSummed
<1>2. LogNow[s] = EntriesOf(s) /\ CoveredNow[s] = Covered(SumsOf(s), s)
  BY LogOfRows DEF LogNow, CoveredNow
<1>3. LogNow' = LogNow /\ CoveredNow' = CoveredNow
  <2>1. /\ LogNow' = [LogNow EXCEPT ![s] = LogNow[s]]
        /\ CoveredNow' = [CoveredNow EXCEPT ![s] = CoveredNow[s]]
    BY <1>1, <1>2, OneSessionChanges
  <2>2. LogNow = [LogNow EXCEPT ![s] = LogNow[s]]
    BY DEF LogNow
  <2>3. CoveredNow = [CoveredNow EXCEPT ![s] = CoveredNow[s]]
    <3>1. DOMAIN CoveredNow = Sids /\ CoveredNow = [x \in Sids |-> CoveredNow[x]]
      BY DEF CoveredNow
    <3> QED
      BY <3>1
  <2> QED
    BY <2>1, <2>2, <2>3
<1>4. LiveNow' = LiveNow \/ (s \notin LiveNow /\ LiveNow' = LiveNow \cup {s})
  <2>1. LiveNow' = IF owner'[s] = NoOne THEN LiveNow \ {s} ELSE LiveNow \cup {s}
    BY OneSessionChanges
  <2>2. owner'[s] = NoOne => s \notin LiveNow
    BY DEF StoresNothing, LiveNow
  <2> QED
    BY <2>1, <2>2
<1> QED
  BY <1>3, <1>4 DEF Log!Create, LogVars, LiveNow, LogNow, CoveredNow

LEMMA DropIsDeleteOrStutter ==
    ASSUME LogInv, NEW s \in Sids, TouchesOnly(s), Drops(s)
    PROVE  Log!Delete(s) \/ UNCHANGED LogVars
<1>1. EntriesIn({}, 1) = <<>>
  BY DEF EntriesIn
<1>2. EntriesOf(s)' = <<>>
  BY <1>1, LogOfRows DEF Drops
<1>3. Covered(SumsOf(s)', s) = 0
  BY NothingCovered DEF Drops
<1>4. /\ LogNow' = [LogNow EXCEPT ![s] = <<>>]
      /\ CoveredNow' = [CoveredNow EXCEPT ![s] = 0]
      /\ LiveNow' = LiveNow \ {s}
  BY <1>2, <1>3, OneSessionChanges DEF Drops
<1>5. CASE owner[s] # NoOne
  BY <1>4, <1>5 DEF Log!Delete, LiveNow, LogNow, CoveredNow
<1>6. CASE owner[s] = NoOne
  <2>1. Stored(s) = {} /\ SumsOf(s) = {}
    BY <1>6 DEF LogInv, StoreInv, SeqIntegrity, SumsOf
  <2>2. PICK k \in Nat : nextSeq[s] = k + 1 /\ Numbers(Stored(s)) = 1 .. k
    BY EntriesComeFromRows
  <2>3. k = 0
    <3>1. 1 .. k = {}
      BY <2>1, <2>2 DEF Numbers
    <3>2. k > 0 => 1 \in 1 .. k
      OBVIOUS
    <3> QED
      BY <3>1, <3>2
  <2>4. nextSeq[s] = 1
    BY <2>2, <2>3
  <2>5. EntriesOf(s) = <<>> /\ Covered(SumsOf(s), s) = 0
    BY <1>1, <2>1, <2>4, LogOfRows, NothingCovered
  <2>6. LogNow[s] = <<>> /\ CoveredNow[s] = 0
    BY <2>5, LogOfRows DEF LogNow, CoveredNow
  <2>7. LogNow' = LogNow
    BY <1>4, <2>6 DEF LogNow
  <2>8. CoveredNow' = CoveredNow
    BY <1>4, <2>6 DEF CoveredNow
  <2>9. LiveNow' = LiveNow
    BY <1>4, <1>6 DEF LiveNow
  <2> QED
    BY <2>7, <2>8, <2>9 DEF LogVars
<1> QED
  BY <1>5, <1>6

\* Who writes a question is new to the log, and so is its key.
LEMMA WriterIsNew ==
    ASSUME TurnsInv, NEW r \in Requests, NEW s \in Sids, s = txn[r].session,
           pc[r] # "done", ~ Waits(r), ~ KeyTaken(r),
           req[r].cid \in Cids \cup {NoOne}
    PROVE  r \in Log!NewAuthors /\ req[r].cid \in Log!NewKeys(s)
<1>0. LogInv
  BY DEF TurnsInv
<1>1. \A x \in Sids : LogNow[x] = EntriesOf(x)
  BY DEF LogNow
<1>2. \A x \in Sids : \A i \in 1 .. Len(LogNow[x]) : LogNow[x][i].by # r
  <2>1. SUFFICES ASSUME NEW x \in Sids, NEW i \in 1 .. Len(EntriesOf(x))
                 PROVE  EntriesOf(x)[i].by # r
    BY <1>1
  <2>2. PICK m \in Stored(x) : EntriesOf(x)[i] = EntryOf(m)
    BY <1>0, EntriesComeFromRows
  <2> QED
    BY <2>2 DEF TurnsInv, WritersDone, Stored, EntryOf
<1>3. ASSUME req[r].cid # NoOne, NEW i \in 1 .. Len(LogNow[s])
      PROVE  LogNow[s][i].key # req[r].cid
  <2>1. PICK m \in Stored(s) : EntriesOf(s)[i] = EntryOf(m)
    BY <1>0, <1>1, EntriesComeFromRows
  <2> QED
    BY <1>1, <1>3, <2>1 DEF KeyTaken, EntryOf
<1>4. r \in Log!NewAuthors
  BY <1>2 DEF Log!NewAuthors, Log!Written, Log!Entries, LogNow
<1>5. req[r].cid \in Log!NewKeys(s)
  BY <1>3 DEF Log!NewKeys, Log!Entries, LogNow
<1> QED
  BY <1>4, <1>5

LEMMA KeyType ==
    ASSUME LogInv, NEW r \in Requests, pc[r] # "idle"
    PROVE  req[r].cid \in Cids \cup {NoOne}
BY SubmissionsAssumption DEF LogInv, SessionInv, LockInv, TypeOK, Request

LEMMA TurnIsAppend ==
    ASSUME TurnsInv, TurnsInv', NEW r \in Requests, NEW s \in Sids, NEW e \in Outcomes,
           TouchesOnly(s), StoresTurn(r, s, e), s = txn[r].session,
           r \in Log!NewAuthors, req[r].cid \in Log!NewKeys(s)
    PROVE  Log!AppendTurn(s)
<1> DEFINE a == Question(r, nextSeq[s])
           b == Reply(r, nextSeq[s] + 1, e)
           q == Log!Question(r, req[r].cid)
           p == Log!Answer(r, e)
<1>1. a.seq = nextSeq[s] /\ EntryOf(a) = q
  BY DEF Question, EntryOf, Log!Question
<1>2. b.seq = nextSeq[s] + 1 /\ EntryOf(b) = p
  BY DEF Reply, EntryOf, Log!Answer
<1>3. Stored(s)' = Stored(s) \cup {a, b} /\ nextSeq'[s] = nextSeq[s] + 2 /\ owner'[s] # NoOne
  BY DEF StoresTurn, Stores
<1> HIDE DEF a, b, q, p
<1>4. /\ EntriesOf(s)' = Append(Append(EntriesOf(s), q), p)
      /\ Len(EntriesOf(s)') = nextSeq'[s] - 1
  BY <1>1, <1>2, <1>3, TwoEntriesMore DEF TurnsInv
<1>5. LogNow[s] = EntriesOf(s)
  BY DEF LogNow
<1>6. LogNow' = [LogNow EXCEPT ![s] = Append(Append(@, q), p)]
  BY <1>4, <1>5, OneSessionChanges
<1>7. LiveNow' = LiveNow \cup {s}
  BY <1>3, OneSessionChanges
<1>8. IF e = "complete" THEN CoveredNow' \in {CoveredNow, [CoveredNow EXCEPT ![s] = Len(LogNow'[s])]}
      ELSE CoveredNow' = CoveredNow
  BY <1>4, SummaryCovers DEF TurnsInv, StoresTurn
<1>9. IF e = "complete" THEN Log!Summarises(s) ELSE UNCHANGED CoveredNow
  BY <1>8 DEF Log!Summarises, CoveredNow, LogNow
<1>10. LogNow' = [LogNow EXCEPT ![s] =
                    Append(Append(@, Log!Question(r, req[r].cid)), Log!Answer(r, e))]
  BY <1>6 DEF q, p
<1> QED
  BY <1>7, <1>9, <1>10 DEF Log!AppendTurn, LiveNow, LogNow, CoveredNow

LEMMA CutOffIsAppend ==
    ASSUME TurnsInv, TurnsInv', NEW r \in Requests, NEW s \in Sids,
           TouchesOnly(s), StoresCutOff(r, s), s = txn[r].session,
           r \in Log!NewAuthors, req[r].cid \in Log!NewKeys(s)
    PROVE  Log!AppendCutOff(s)
<1> DEFINE a == Question(r, nextSeq[s])
           q == Log!Question(r, req[r].cid)
<1>1. a.seq = nextSeq[s] /\ EntryOf(a) = q
  BY DEF Question, EntryOf, Log!Question
<1>2. Stored(s)' = Stored(s) \cup {a} /\ nextSeq'[s] = nextSeq[s] + 1 /\ owner'[s] # NoOne
      /\ NotSummed(s)
  BY DEF StoresCutOff, Stores
<1> HIDE DEF a, q
<1>3. /\ EntriesOf(s)' = Append(EntriesOf(s), q)
      /\ Len(EntriesOf(s)') = nextSeq'[s] - 1
  BY <1>1, <1>2, OneEntryMore DEF TurnsInv
<1>4. LogNow[s] = EntriesOf(s)
  BY DEF LogNow
<1>5. LogNow' = [LogNow EXCEPT ![s] = Append(@, Log!Question(r, req[r].cid))]
  BY <1>3, <1>4, OneSessionChanges DEF q
<1>6. LiveNow' = LiveNow \cup {s}
  BY <1>2, OneSessionChanges
<1>7. CoveredNow' = CoveredNow
  BY <1>2, <1>3, SummaryCovers DEF TurnsInv
<1> QED
  BY <1>5, <1>6, <1>7 DEF Log!AppendCutOff, LiveNow, LogNow, CoveredNow

LEMMA AgainIsRepeat ==
    ASSUME TurnsInv, TurnsInv', NEW r \in Requests, NEW s \in Sids,
           TouchesOnly(s), StoresAgain(r, s), s = txn[r].session, Waits(r)
    PROVE  Log!RepeatAnswer(s)
<1> DEFINE b == Reply(r, nextSeq[s], "complete")
           p == Log!Answer(r, "complete")
<1>1. b.seq = nextSeq[s] /\ EntryOf(b) = p
  BY DEF Reply, EntryOf, Log!Answer
<1>2. Stored(s)' = Stored(s) \cup {b} /\ nextSeq'[s] = nextSeq[s] + 1 /\ owner'[s] # NoOne
      /\ (NotSummed(s) \/ SummedUp(s)) /\ owner[s] # NoOne
  BY DEF StoresAgain, Stores
<1> HIDE DEF b, p
<1>3. /\ EntriesOf(s)' = Append(EntriesOf(s), p)
      /\ Len(EntriesOf(s)') = nextSeq'[s] - 1
  BY <1>1, <1>2, OneEntryMore DEF TurnsInv
<1>4. LogNow[s] = EntriesOf(s)
  BY DEF LogNow
<1>5. LogNow' = [LogNow EXCEPT ![s] = Append(@, p)]
  BY <1>3, <1>4, OneSessionChanges
<1>6. LiveNow' = LiveNow /\ s \in LiveNow
  <2>1. s \in LiveNow
    BY <1>2 DEF LiveNow
  <2>2. LiveNow' = LiveNow \cup {s}
    BY <1>2, OneSessionChanges
  <2> QED
    BY <2>1, <2>2
<1>7. CoveredNow' \in {CoveredNow, [CoveredNow EXCEPT ![s] = Len(LogNow'[s])]}
  BY <1>2, <1>3, SummaryCovers DEF TurnsInv
<1>8. \E i \in 1 .. Len(LogNow[s]) : \A j \in 1 .. Len(LogNow[s]) :
         LogNow[s][j] = p <=> j = i
  <2>1. AnswersOnce(r) /\ \E m \in Stored(s) : m \in Answers(r)
    BY <1>2 DEF TurnsInv, DenialInv, Known
  <2>2. PICK m \in Stored(s) : m \in Answers(r)
    BY <2>1
  <2>3. PICK k \in Nat :
           /\ Len(EntriesOf(s)) = k
           /\ \A i \in 1 .. k : \E n \in Stored(s) :
                 n.seq = i /\ EntriesOf(s)[i] = EntryOf(n)
           /\ \A n \in Stored(s) : n.seq \in 1 .. k /\ EntriesOf(s)[n.seq] = EntryOf(n)
    BY EntriesComeFromRows DEF TurnsInv
  <2>4. EntryOf(m) = p
    BY <2>2 DEF p, Answers, EntryOf, Log!Answer
  <2>5. ASSUME NEW j \in 1 .. k, EntriesOf(s)[j] = p
        PROVE  j = m.seq
    <3>1. PICK n \in Stored(s) : n.seq = j /\ EntryOf(n) = p
      BY <2>3, <2>5
    <3>2. n.by = r /\ n.role = "assistant"
      BY <3>1 DEF p, EntryOf, Log!Answer
    <3>3. m.by = r /\ m.role = "assistant" /\ m \in messages /\ n \in messages
      BY <2>2 DEF Answers, Stored
    <3> QED
      BY <2>1, <3>1, <3>2, <3>3 DEF AnswersOnce
  <2>6. m.seq \in 1 .. k /\ \A j \in 1 .. k : EntriesOf(s)[j] = p <=> j = m.seq
    BY <2>3, <2>4, <2>5
  <2>7. Len(LogNow[s]) = k /\ \A j \in 1 .. k : LogNow[s][j] = EntriesOf(s)[j]
    BY <1>4, <2>3
  <2> QED
    BY <2>6, <2>7
<1>9. Log!AnsweredOnce(s, r)
  BY <1>8 DEF Log!AnsweredOnce, LogNow, p
<1>10. LogNow' = [LogNow EXCEPT ![s] = Append(@, Log!Answer(r, "complete"))]
  BY <1>5 DEF p
<1> QED
  BY <1>6, <1>7, <1>9, <1>10
     DEF Log!RepeatAnswer, Log!Summarises, LiveNow, LogNow, CoveredNow

LEMMA StepIsLogStep ==
    ASSUME TurnsInv, TurnsInv', [Next]_vars
    PROVE  [Log!Next]_LogVars
<1>0. SessionInv /\ TypeOK /\ LogInv
  BY DEF TurnsInv, LogInv, SessionInv, LockInv
<1>1. ASSUME NEW s \in Sids, TouchesOnly(s), StoresNothing(s)
      PROVE  [Log!Next]_LogVars
  BY <1>1, NothingIsCreateOrStutter DEF Log!Next
<1>2. ASSUME UNCHANGED tables
      PROVE  [Log!Next]_LogVars
  <2>1. \A x \in Sids : /\ Stored(x)' = Stored(x) /\ SumsOf(x)' = SumsOf(x)
                        /\ nextSeq' = nextSeq /\ owner' = owner
    BY <1>2 DEF tables, Stored, SumsOf
  <2>2. 1 \in Sids
    BY BoundsAssumption DEF Sids
  <2>3. TouchesOnly(1) /\ StoresNothing(1)
    BY <2>1, <2>2 DEF TouchesOnly, StoresNothing, NotSummed
  <2> QED
    BY <1>1, <2>2, <2>3
<1>3. ASSUME NEW r \in Requests, Progress(r) \/ Abort(r)
      PROVE  [Log!Next]_LogVars
  <2>1. CASE Local
    <3>1. \A x \in Sids : Stored(x)' = Stored(x) /\ SumsOf(x)' = SumsOf(x) /\ nextSeq' = nextSeq
      BY <2>1 DEF Local, Stored, SumsOf
    <3>2. \E s \in Sids : \A x \in Sids \ {s} : owner'[x] = NoOne <=> owner[x] = NoOne
      <4>1. PICK y : \A x \in Sids \ {y} : owner'[x] = NoOne <=> owner[x] = NoOne
        <5>1. owner \in [Sids -> Callers \cup {NoOne}]
          BY <1>0 DEF TypeOK
        <5>2. \A y, c : owner' = [owner EXCEPT ![y] = c] =>
                 \A x \in Sids \ {y} : owner'[x] = owner[x]
          BY <5>1
        <5>3. \/ \A x \in Sids : owner'[x] \in {owner[x], NoOne}
              \/ \E y, c : owner' = [owner EXCEPT ![y] = c]
          BY <1>0, <1>3, OwnerFootprint
        <5> QED
          BY <2>1, <5>2, <5>3 DEF Local
      <4>2. 1 \in Sids
        BY BoundsAssumption DEF Sids
      <4> QED
        BY <4>1, <4>2
    <3>3. PICK s \in Sids : \A x \in Sids \ {s} : owner'[x] = NoOne <=> owner[x] = NoOne
      BY <3>2
    <3>4. TouchesOnly(s)
      BY <3>1, <3>3 DEF TouchesOnly
    <3>5. StoresNothing(s)
      BY <2>1, <3>1 DEF StoresNothing, NotSummed, Local
    <3> QED
      BY <1>1, <3>4, <3>5
  <2>2. CASE Commits(r)
    <3>1. PICK s \in Sids : /\ s = txn[r].session /\ TouchesOnly(s)
                            /\ StoresNothing(s) \/ Adds(r, s)
      BY <1>3, <2>2, CommitsABlock
    <3>2. pc[r] # "done" /\ pc[r] # "idle"
      BY <1>0, <1>3, StepsTaken, LockFootprint DEF SessionInv
    <3>3. CASE ~ Waits(r) /\ ~ KeyTaken(r)
               /\ (StoresCutOff(r, s) \/ \E e \in Outcomes : StoresTurn(r, s, e))
      <4>1. r \in Log!NewAuthors /\ req[r].cid \in Log!NewKeys(s)
        BY <1>0, <3>1, <3>2, <3>3, KeyType, WriterIsNew
      <4>2. Log!AppendTurn(s) \/ Log!AppendCutOff(s)
        BY <3>1, <3>3, <4>1, TurnIsAppend, CutOffIsAppend
      <4> QED
        BY <4>2 DEF Log!Next
    <3>4. CASE Waits(r) /\ StoresAgain(r, s)
      <4>1. Log!RepeatAnswer(s)
        BY <3>1, <3>4, AgainIsRepeat
      <4> QED
        BY <4>1 DEF Log!Next
    <3>5. CASE StoresNothing(s)
      BY <1>1, <3>1, <3>5
    <3> QED
      BY <3>1, <3>3, <3>4, <3>5 DEF Adds
  <2>3. CASE Deletes(r)
    <3>1. PICK s \in Sids : /\ owner' = [owner EXCEPT ![s] = NoOne]
                            /\ nextSeq' = [nextSeq EXCEPT ![s] = 1]
                            /\ messages' = messages \ Stored(s)
                            /\ summaries' = {u \in summaries : u.session # s}
      BY <2>3 DEF Deletes
    <3>2. Stored(s)' = {} /\ SumsOf(s)' = {}
          /\ \A x \in Sids \ {s} : Stored(x)' = Stored(x) /\ SumsOf(x)' = SumsOf(x)
      BY <3>1 DEF Stored, SumsOf
    <3>3. nextSeq'[s] = 1 /\ owner'[s] = NoOne
          /\ \A x \in Sids \ {s} : nextSeq'[x] = nextSeq[x] /\ owner'[x] = owner[x]
      BY <1>0, <3>1 DEF TypeOK
    <3>4. TouchesOnly(s) /\ Drops(s)
      BY <3>2, <3>3 DEF TouchesOnly, Drops
    <3> QED
      BY <1>0, <3>4, DropIsDeleteOrStutter DEF Log!Next
  <2> QED
    BY <1>0, <1>3, <2>1, <2>2, <2>3, LogFootprint
<1>4. ASSUME NEW r \in Requests, Begin(r)
      PROVE  [Log!Next]_LogVars
  BY <1>2, <1>4 DEF Begin
<1>5. CASE Midnight \/ UNCHANGED vars
  BY <1>2, <1>5 DEF Midnight, vars, tables
<1> QED
  BY <1>3, <1>4, <1>5 DEF Next, Finished

LEMMA InitIsEmptyLog ==
    ASSUME Init
    PROVE  LiveNow = {} /\ LogNow = [s \in Sids |-> <<>>] /\ CoveredNow = [s \in Sids |-> 0]
<1>1. \A s \in Sids : Stored(s) = {} /\ SumsOf(s) = {} /\ nextSeq[s] = 1 /\ owner[s] = NoOne
  BY DEF Init, Stored, SumsOf
<1>2. EntriesIn({}, 1) = <<>>
  BY DEF EntriesIn
<1>3. \A s \in Sids : EntriesOf(s) = <<>> /\ Covered(SumsOf(s), s) = 0
  BY <1>1, <1>2, LogOfRows, NothingCovered
<1>4. LogNow = [s \in Sids |-> <<>>]
  BY <1>3 DEF LogNow
<1>5. CoveredNow = [s \in Sids |-> 0]
  <2>1. \A s \in Sids : (CHOOSE u \in Latest(s) : TRUE).covers = 0
    BY <1>3, LogOfRows
  <2> QED
    BY <2>1 DEF CoveredNow
<1> QED
  BY <1>1, <1>4, <1>5 DEF LiveNow

\* Every run of the transactions is a run of the log, for any number of
\* requests, guests and users and any workload: a turn of routers/chat.py and
\* chat_service.py appears at the end of its session in one step or not at
\* all, whatever waits, crashes, retries and deletions come between.  The two
\* other things the code stores are steps of the log too: a question whose
\* answer was cut off, and the text of a denied stream once more.
THEOREM TurnsAreALog == Spec => ImplementsTurnLog
<1>1. Init => Log!Init
  BY InitIsEmptyLog DEF Log!Init, LiveNow, LogNow, CoveredNow
<1>2. TurnsInv /\ [Next]_vars => TurnsInv'
  BY TurnsInvNext
<1>3. TurnsInv /\ TurnsInv' /\ [Next]_vars => [Log!Next]_LogVars
  BY StepIsLogStep
<1> QED
  BY <1>1, <1>2, <1>3, TurnsInvInit, PTL
     DEF Spec, ImplementsTurnLog, Log!Spec, LogVars, LiveNow, LogNow, CoveredNow
=============================================================================
