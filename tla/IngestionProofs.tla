---------------------------- MODULE IngestionProofs ---------------------------
(***************************************************************************)
(* Uploads and deletions implement UploadLedger, and no reader ever sees   *)
(* part of a document, for any users, requests, quota, days and chunks.    *)
(*                                                                         *)
(* Neither is inductive.  What carries a request from its reservation to   *)
(* its commit is the lock on the counter row: nobody else of its user      *)
(* changes the count it has read, so the slot is still free when the       *)
(* transaction ends, however many days later that is.                      *)
(*                                                                         *)
(* And the chunks of every text cover it, for any size and overlap.        *)
(***************************************************************************)
EXTENDS Ingestion, TLAPS, NaturalsInduction, WellFoundedInduction

OneSlot(d) == [NoSpending EXCEPT ![d] = 1]

(* The request holds a counter row with room for the slot it has taken.      *)
HoldsSlot(r) ==
  /\ req[r].target = {} /\ req[r].row.owner = req[r].user
  /\ \E d \in Days : /\ req[r].spent = OneSlot(d) /\ d \in req[r].locks
                     /\ used[req[r].user][d] < Quota

Deleting(r) ==
  /\ req[r].spent = NoSpending
  /\ \E d \in Requests : req[r].target = {d}

Whole(row) == row.status = "ready" /\ row.embedded = row.chunks

(* What a request has done so far, by the place it has reached.              *)
Progress(r) ==
  /\ req[r].at # "done" => docs[r].status = "absent"
  /\ req[r].at = "reserving" => req[r].target = {} /\ req[r].spent = NoSpending
  /\ req[r].at \in {"parsing", "embedding", "persisting", "releasing"} => HoldsSlot(r)
  /\ req[r].at = "parsing" => req[r].row.embedded = 0
  /\ req[r].at \in {"embedding", "persisting"} => req[r].row.embedded <= req[r].row.chunks
  /\ req[r].at = "deleting" => Deleting(r)
  /\ req[r].at = "answered" => Deleting(r) \/ (HoldsSlot(r) /\ Whole(req[r].row))

LocksExclude ==
  \A r, q \in Requests :
    r # q /\ req[r].user = req[q].user => req[r].locks \cap req[q].locks = {}

DocsWhole ==
  \A d \in Requests :
    IF docs[d].status = "absent" THEN docs[d].embedded = 0 ELSE Whole(docs[d])

IngestionInv ==
  /\ TypeOK /\ LocksExclude /\ DocsWhole
  /\ \A r \in Requests : Progress(r)
------------------------------------------------------------------------------
LEMMA Values ==
  /\ AnyUser \in Users
  /\ NoSpending \in [Days -> {-1, 0, 1}] /\ \A d \in Days : OneSlot(d) \in [Days -> {-1, 0, 1}]
  /\ \A u \in Users : Absent(u) \in Row /\ Idle(u) \in Transactions
<1>1. AnyUser \in Users
  BY IngestionAssumption DEF AnyUser
<1>2. NoSpending \in [Days -> {-1, 0, 1}]
  BY DEF NoSpending
<1>3. \A d \in Days : OneSlot(d) \in [Days -> {-1, 0, 1}]
  BY <1>2 DEF OneSlot
<1>4. \A u \in Users : Absent(u) \in Row
  BY IngestionAssumption DEF Absent, Row
<1>5. \A u \in Users : Idle(u) \in Transactions
  BY <1>2, <1>4 DEF Idle, Transactions
<1> QED
  BY <1>1, <1>2, <1>3, <1>4, <1>5

(* A step of one request that leaves the tables alone.                       *)
LEMMA OwnStep ==
  ASSUME IngestionInv, NEW r \in Requests, NEW new \in Transactions,
         Becomes(r, new), UNCHANGED tables, today' \in Days, Progress(r)',
         \A q \in Requests \ {r} : req[q].user = new.user => new.locks \cap req[q].locks = {}
  PROVE  IngestionInv'
<1> USE DEF tables
<1>1. req' = [req EXCEPT ![r] = new] /\ req' \in [Requests -> Transactions]
  BY DEF Becomes, IngestionInv, TypeOK
<1>2. req'[r] = new /\ \A q \in Requests \ {r} : req'[q] = req[q]
  BY <1>1 DEF IngestionInv, TypeOK
<1>3. TypeOK'
  BY <1>1 DEF IngestionInv, TypeOK
<1>4. LocksExclude'
  BY <1>2 DEF IngestionInv, LocksExclude
<1>5. DocsWhole'
  BY DEF IngestionInv, DocsWhole, Whole
<1>6. ASSUME NEW q \in Requests PROVE Progress(q)'
  <2>1. CASE q = r
    BY <2>1
  <2>2. CASE q # r
    <3>1. req'[q] = req[q] /\ Progress(q)
      BY <1>2, <2>2 DEF IngestionInv
    <3> QED
      BY <3>1 DEF Progress, HoldsSlot, Deleting, Whole
  <2> QED
    BY <2>1, <2>2
<1> QED
  BY <1>3, <1>4, <1>5, <1>6 DEF IngestionInv

LEMMA InitInv == Init => IngestionInv
<1> SUFFICES ASSUME Init PROVE IngestionInv
  OBVIOUS
<1>1. TypeOK
  BY Values, IngestionAssumption DEF Init, TypeOK, Days
<1>2. LocksExclude /\ DocsWhole
  BY DEF Init, LocksExclude, DocsWhole, Idle, Absent
<1>3. ASSUME NEW r \in Requests PROVE Progress(r)
  BY DEF Init, Progress, Idle, Absent
<1> QED
  BY <1>1, <1>2, <1>3 DEF IngestionInv

(* What is known of the transaction of a request.                            *)
LEMMA Shape ==
  ASSUME IngestionInv, NEW r \in Requests
  PROVE  /\ req[r] \in Transactions /\ today \in Days /\ Progress(r)
         /\ req[r].user \in Users /\ req[r].row \in Row
         /\ req[r].row.embedded \in Nat /\ req[r].row.chunks \in Nat
         /\ req[r].spent \in [Days -> {-1, 0, 1}] /\ req[r].locks \subseteq Days
         /\ \A q \in Requests \ {r} :
              req[q].user = req[r].user => req[r].locks \cap req[q].locks = {}
BY DEF IngestionInv, TypeOK, Transactions, Row, LocksExclude

(* A transaction that ends by rollback is gone without a trace.              *)
LEMMA RollbackKeeps ==
  ASSUME IngestionInv, NEW r \in Requests, RollsBack(r)
  PROVE  IngestionInv'
<1>1. PICK new \in Transactions :
        /\ new = [Idle(AnyUser) EXCEPT !.at = "done", !.reply = "error"]
        /\ Becomes(r, new) /\ new.locks = {} /\ new.at = "done"
  <2> DEFINE new == [Idle(AnyUser) EXCEPT !.at = "done", !.reply = "error"]
  <2>1. new \in Transactions
    BY Values DEF Transactions, Idle
  <2>2. new.locks = {} /\ new.at = "done"
    BY DEF Idle
  <2> QED
    BY <2>1, <2>2 DEF RollsBack, Finished
<1>2. req'[r] = new
  BY <1>1 DEF Becomes, IngestionInv, TypeOK
<1>3. Progress(r)'
  BY <1>1, <1>2 DEF Progress
<1> QED
  BY <1>1, <1>3, OwnStep, Shape DEF RollsBack, Discards

(* A step that keeps the user, and with it the locks' meaning.               *)
LEMMA NextPlace ==
  ASSUME IngestionInv, NEW r \in Requests, NEW new \in Transactions,
         Becomes(r, new), UNCHANGED <<today, tables>>, Progress(r)',
         new.user = req[r].user, new.locks = req[r].locks
  PROVE  IngestionInv'
BY OwnStep, Shape

(* A transaction adds to a counter and holds its row. *)
LEMMA Spent ==
  ASSUME IngestionInv, NEW r \in Requests, NEW n \in Int,
         NEW sp \in [Days -> {-1, 0, 1}], sp = Adds(req[r].spent, n)
  PROVE  /\ Spends(r, n) \in Transactions /\ Spends(r, n).user = req[r].user
         /\ Spends(r, n).spent = sp /\ Spends(r, n).locks = req[r].locks \cup {today}
         /\ Spends(r, n).target = req[r].target /\ Spends(r, n).row = req[r].row
<1> DEFINE lk == req[r].locks \cup {today}
<1>1. req[r] \in Transactions /\ lk \in SUBSET Days
  BY Shape
<1>2. Spends(r, n) = [req[r] EXCEPT !.spent = sp, !.locks = lk]
  BY DEF Spends
<1> HIDE DEF lk
<1>3. /\ Spends(r, n) \in Transactions /\ Spends(r, n).spent = sp /\ Spends(r, n).locks = lk
      /\ Spends(r, n).user = req[r].user /\ Spends(r, n).target = req[r].target
      /\ Spends(r, n).row = req[r].row
  BY <1>1, <1>2 DEF Transactions
<1> QED
  BY <1>3 DEF lk

LEMMA UploadsKeeps ==
  ASSUME IngestionInv, NEW r \in Requests, NEW u \in Users, Uploads(r, u)
  PROVE  IngestionInv'
<1>1. docs[r].status = "absent"
  BY Shape DEF Uploads, Arriving, Progress
<1>2. ASSUME NEW new \in Transactions, Becomes(r, new), new.locks = {}, new.target = {},
             new.spent = NoSpending, new.at \in {"reserving", "done"}
      PROVE  IngestionInv'
  <2>1. req'[r] = new
    BY <1>2 DEF Becomes, IngestionInv, TypeOK
  <2>2. docs' = docs /\ UNCHANGED <<today, tables>>
    BY DEF Uploads, tables
  <2>3. Progress(r)'
    BY <1>1, <1>2, <2>1, <2>2 DEF Progress
  <2> QED
    BY <1>2, <2>2, <2>3, OwnStep, Shape
<1>3. CASE Becomes(r, [Idle(u) EXCEPT !.at = "reserving"])
  <2> DEFINE new == [Idle(u) EXCEPT !.at = "reserving"]
  <2>1. new \in Transactions
    BY Values DEF Transactions, Idle, Ingesting
  <2> QED
    BY <1>2, <1>3, <2>1 DEF Idle
<1>4. CASE Becomes(r, [Idle(AnyUser) EXCEPT !.at = "done", !.reply = "error"])
  <2> DEFINE new == [Idle(AnyUser) EXCEPT !.at = "done", !.reply = "error"]
  <2>1. new \in Transactions
    BY Values DEF Transactions, Idle
  <2> QED
    BY <1>2, <1>4, <2>1 DEF Idle
<1> QED
  BY <1>3, <1>4 DEF Uploads

LEMMA ReservesKeeps ==
  ASSUME IngestionInv, NEW r \in Requests, Reserves(r)
  PROVE  IngestionInv'
<1> DEFINE new == [Spends(r, 1) EXCEPT !.at = "parsing", !.row = Pending(req[r].user)]
<1>1. CASE Count(r, today) < Quota /\ Becomes(r, new) /\ UNCHANGED <<today, tables>>
  <2>1. /\ req[r].at = "reserving" /\ req[r].target = {} /\ req[r].spent = NoSpending
        /\ docs[r].status = "absent"
    BY Shape DEF Reserves, Progress
  <2>2. /\ 1 \in Int /\ OneSlot(today) = Adds(req[r].spent, 1)
        /\ used[req[r].user][today] \in Nat
        /\ used[req[r].user][today] < Quota
    BY <1>1, <2>1, Shape DEF OneSlot, Adds, NoSpending, Count, IngestionInv, TypeOK
  <2>3. Pending(req[r].user) \in Row /\ Pending(req[r].user).owner = req[r].user
        /\ Pending(req[r].user).embedded = 0
    BY Shape, Values DEF Pending, Absent, Row
  <2>4. /\ new \in Transactions /\ new.user = req[r].user /\ new.at = "parsing"
        /\ new.spent = OneSlot(today) /\ new.locks = req[r].locks \cup {today}
        /\ new.row = Pending(req[r].user) /\ new.target = {}
    <3>1. OneSlot(today) \in [Days -> {-1, 0, 1}]
      BY Values, Shape
    <3>2. /\ Spends(r, 1) \in Transactions /\ Spends(r, 1).user = req[r].user
          /\ Spends(r, 1).spent = OneSlot(today) /\ Spends(r, 1).target = {}
          /\ Spends(r, 1).locks = req[r].locks \cup {today}
      BY <2>1, <2>2, <3>1, Spent, Zenon
    <3> HIDE DEF new
    <3>3. /\ new = [Spends(r, 1) EXCEPT !.at = "parsing", !.row = Pending(req[r].user)]
          /\ Pending(req[r].user) \in Row
      BY <2>3 DEF new
    <3> QED
      BY <3>2, <3>3 DEF Transactions, Ingesting
  <2>5. req'[r] = new
    BY <1>1 DEF Becomes, IngestionInv, TypeOK
  <2>6. docs' = docs /\ used' = used /\ today' = today
    BY <1>1 DEF tables
  <2>7. HoldsSlot(r)'
    BY <2>2, <2>3, <2>4, <2>5, <2>6, Shape DEF HoldsSlot
  <2>8. Progress(r)'
    BY <2>1, <2>3, <2>4, <2>5, <2>6, <2>7 DEF Progress
  <2>9. \A q \in Requests \ {r} : req[q].user = new.user => new.locks \cap req[q].locks = {}
    BY <2>4, Shape DEF Reserves, CounterFree
  <2> QED
    BY <1>1, <2>4, <2>8, <2>9, OwnStep, Shape, <2>6
<1>2. CASE RollsBack(r)
  BY <1>2, RollbackKeeps
<1> QED
  BY <1>1, <1>2 DEF Reserves

LEMMA WorksKeeps ==
  ASSUME IngestionInv, NEW r \in Requests, NEW row \in Row,
         NEW from \in {"parsing", "embedding", "persisting"},
         NEW to \in {"embedding", "persisting", "answered"},
         Works(r, from, to, row), row.owner = req[r].row.owner,
         IF to = "answered" THEN Whole(row) ELSE row.embedded <= row.chunks
  PROVE  IngestionInv'
<1>1. HoldsSlot(r) /\ docs[r].status = "absent" /\ UNCHANGED <<today, tables>>
  BY Shape DEF Works, Progress
<1>2. ASSUME NEW new \in Transactions, Becomes(r, new), new.user = req[r].user,
             new.locks = req[r].locks, new.spent = req[r].spent, new.target = req[r].target,
             \/ new.at = to /\ new.row = row
             \/ new.at = "releasing" /\ new.row = req[r].row
      PROVE  IngestionInv'
  <2>1. req'[r] = new /\ docs' = docs /\ used' = used
    BY <1>1, <1>2 DEF Becomes, IngestionInv, TypeOK, tables
  <2>2. HoldsSlot(r)'
    BY <1>1, <1>2, <2>1 DEF HoldsSlot
  <2>3. Progress(r)'
    BY <1>1, <1>2, <2>1, <2>2 DEF Progress
  <2> QED
    BY <1>1, <1>2, <2>3, NextPlace
<1>3. CASE Becomes(r, [req[r] EXCEPT !.at = to, !.row = row])
  <2> DEFINE new == [req[r] EXCEPT !.at = to, !.row = row]
  <2>1. /\ new \in Transactions /\ new.user = req[r].user /\ new.locks = req[r].locks
        /\ new.spent = req[r].spent /\ new.target = req[r].target
        /\ new.at = to /\ new.row = row
    <3>1. req[r] \in Transactions
      BY Shape
    <3> QED
      BY <3>1 DEF Transactions, Ingesting
  <2> QED
    BY <1>2, <1>3, <2>1
<1>4. CASE Becomes(r, [req[r] EXCEPT !.at = "releasing"])
  <2> DEFINE new == [req[r] EXCEPT !.at = "releasing"]
  <2>1. /\ new \in Transactions /\ new.user = req[r].user /\ new.locks = req[r].locks
        /\ new.spent = req[r].spent /\ new.target = req[r].target
        /\ new.at = "releasing" /\ new.row = req[r].row
    BY Shape DEF Transactions, Ingesting
  <2> QED
    BY <1>2, <1>4, <2>1
<1> QED
  BY <1>3, <1>4 DEF Works

LEMMA PipelineKeeps ==
  ASSUME IngestionInv, NEW r \in Requests, Parses(r) \/ Embeds(r) \/ Persists(r)
  PROVE  IngestionInv'
<1>1. ASSUME NEW n \in {0, MaxChunks},
             Works(r, "parsing", "embedding", [req[r].row EXCEPT !.chunks = n])
      PROVE  IngestionInv'
  <2> DEFINE row == [req[r].row EXCEPT !.chunks = n]
  <2>1. req[r].row \in Row /\ n \in 0 .. MaxChunks /\ req[r].row.embedded = 0
    BY <1>1, IngestionAssumption, Shape DEF Works, Progress
  <2>2. row \in Row /\ row.owner = req[r].row.owner /\ row.embedded <= row.chunks
    BY <2>1 DEF Row
  <2> QED
    BY <1>1, <2>2, WorksKeeps
<1>2. CASE Embeds(r)
  <2>1. req[r].row \in Row /\ req[r].row.embedded <= req[r].row.chunks
    BY <1>2, Shape DEF Embeds, Works, Progress
  <2> QED
    BY <1>2, <2>1, WorksKeeps DEF Embeds
<1>3. CASE Persists(r)
  <2>1. req[r].at = "persisting"
    BY <1>3 DEF Persists, Works
  <2>2. req[r].row \in Row /\ req[r].row.embedded <= req[r].row.chunks
    BY <2>1, Shape DEF Progress
  <2>3. CASE req[r].row.embedded < req[r].row.chunks
    <3> DEFINE row == [req[r].row EXCEPT !.embedded = @ + 1]
    <3>1. row \in Row /\ row.owner = req[r].row.owner /\ row.embedded <= row.chunks
      BY <2>2, <2>3, IngestionAssumption DEF Row
    <3>2. Works(r, "persisting", "persisting", row)
      BY <1>3, <2>3 DEF Persists
    <3> QED
      BY <3>1, <3>2, WorksKeeps
  <2>4. CASE ~(req[r].row.embedded < req[r].row.chunks)
    <3> DEFINE row == [req[r].row EXCEPT !.status = "ready"]
    <3>1. row \in Row /\ row.owner = req[r].row.owner /\ Whole(row)
      BY <2>2, <2>4 DEF Row, Whole
    <3>2. Works(r, "persisting", "answered", row)
      BY <1>3, <2>4 DEF Persists
    <3> QED
      BY <3>1, <3>2, WorksKeeps
  <2> QED
    BY <2>3, <2>4
<1> QED
  BY <1>1, <1>2, <1>3 DEF Parses

LEMMA FailedRow == ASSUME NEW row \in Row PROVE Failed(row) \in Row
<1>1. 0 \in 0 .. MaxChunks
  BY IngestionAssumption
<1> QED
  BY <1>1 DEF Failed, Row

LEMMA ReleasesKeeps ==
  ASSUME IngestionInv, NEW r \in Requests, Releases(r)
  PROVE  IngestionInv'
<1>1. /\ HoldsSlot(r) /\ docs[r].status = "absent" /\ UNCHANGED <<today, tables>>
  BY Shape DEF Releases, Progress
<1>2. ASSUME NEW tr \in Transactions, tr.user = req[r].user, tr.row = req[r].row,
             Becomes(r, [tr EXCEPT !.at = "raising", !.row = Failed(@)]),
             \A q \in Requests \ {r} :
               req[q].user = req[r].user => tr.locks \cap req[q].locks = {}
      PROVE  IngestionInv'
  <2>1. Failed(tr.row) \in Row
    <3>1. tr.row \in Row
      BY DEF Transactions
    <3> QED
      BY <3>1, FailedRow
  <2>2. PICK new : new = [tr EXCEPT !.at = "raising", !.row = Failed(@)]
    OBVIOUS
  <2>3. /\ new \in Transactions /\ new.at = "raising"
        /\ new.user = tr.user /\ new.locks = tr.locks
    BY <2>1, <2>2 DEF Transactions
  <2>4. req'[r] = new /\ docs' = docs
    BY <1>1, <1>2, <2>2 DEF Becomes, IngestionInv, TypeOK, tables
  <2>5. Progress(r)'
    BY <1>1, <2>3, <2>4 DEF Progress
  <2> QED
    BY <1>1, <1>2, <2>2, <2>3, <2>5, OwnStep, Shape
<1>3. CASE Becomes(r, [req[r] EXCEPT !.at = "raising", !.row = Failed(@)])
  BY <1>2, <1>3, Shape
<1>4. CASE /\ CounterFree(r)
           /\ Becomes(r, [Spends(r, -1) EXCEPT !.at = "raising", !.row = Failed(@)])
  <2>1. Adds(req[r].spent, -1) \in [Days -> {-1, 0, 1}]
    BY <1>1, Shape DEF HoldsSlot, OneSlot, NoSpending, Adds
  <2>2. /\ Spends(r, -1) \in Transactions /\ Spends(r, -1).user = req[r].user
        /\ Spends(r, -1).row = req[r].row
        /\ Spends(r, -1).locks = req[r].locks \cup {today}
    BY <2>1, Spent
  <2>3. \A q \in Requests \ {r} :
          req[q].user = req[r].user => Spends(r, -1).locks \cap req[q].locks = {}
    BY <1>4, <2>2, Shape DEF CounterFree
  <2> QED
    BY <1>2, <1>4, <2>2, <2>3
<1> QED
  BY <1>3, <1>4 DEF Releases

LEMMA DeletionKeeps ==
  ASSUME IngestionInv, NEW r \in Requests,
         Deletes(r) \/ \E u \in Users, d \in Requests : AsksDelete(r, u, d)
  PROVE  IngestionInv'
<1>1. ASSUME NEW u \in Users, NEW d \in Requests, Arriving(r), UNCHANGED <<today, tables>>,
             Becomes(r, [Idle(u) EXCEPT !.at = "deleting", !.target = {d}])
      PROVE  IngestionInv'
  <2>1. PICK new : new = [Idle(u) EXCEPT !.at = "deleting", !.target = {d}]
    OBVIOUS
  <2>2. /\ new \in Transactions /\ new.at = "deleting" /\ new.target = {d}
        /\ new.locks = {} /\ new.spent = NoSpending
    BY <2>1, Values DEF Transactions, Idle
  <2>3. req'[r] = new /\ docs' = docs /\ docs[r].status = "absent"
    BY <1>1, <2>1, Shape DEF Becomes, IngestionInv, TypeOK, tables, Arriving, Progress
  <2>4. Progress(r)'
    BY <2>2, <2>3 DEF Progress, Deleting
  <2> QED
    BY <1>1, <2>1, <2>2, <2>4, OwnStep, Shape
<1>2. CASE Deletes(r)
  <2>1. PICK new : new = [req[r] EXCEPT !.at = "answered"]
    OBVIOUS
  <2>2. /\ new \in Transactions /\ new.at = "answered" /\ new.target = req[r].target
        /\ new.locks = req[r].locks /\ new.spent = req[r].spent /\ new.user = req[r].user
    <3>1. req[r] \in Transactions
      BY Shape
    <3> QED
      BY <2>1, <3>1 DEF Transactions
  <2>3. req'[r] = new /\ docs' = docs /\ UNCHANGED <<today, tables>>
    BY <1>2, <2>1 DEF Deletes, Becomes, IngestionInv, TypeOK, tables
  <2>4. Deleting(r) /\ docs[r].status = "absent"
    BY <1>2, Shape DEF Deletes, Progress
  <2>5. Progress(r)'
    BY <2>2, <2>3, <2>4 DEF Progress, Deleting
  <2> QED
    BY <1>2, <2>1, <2>2, <2>3, <2>5, NextPlace DEF Deletes
<1> QED
  BY <1>1, <1>2, RollbackKeeps DEF AsksDelete

(* What the commit of an answered request does to the tables: the whole      *)
(* document and its slot, or the removal of a document.                      *)
LEMMA CommitCases ==
  ASSUME IngestionInv, NEW r \in Requests, req[r].at = "answered", Installs(r)
  PROVE  \/ /\ HoldsSlot(r) /\ Whole(req[r].row) /\ docs' = [docs EXCEPT ![r] = req[r].row]
            /\ \E d \in req[r].locks \cap Days :
                 /\ used[req[r].user][d] < Quota
                 /\ used' = [used EXCEPT ![req[r].user][d] = @ + 1]
         \/ \E d \in Requests :
              docs' = [docs EXCEPT ![d] = Absent(docs[d].owner)] /\ used' = used
<1>1. /\ docs \in [Requests -> Row] /\ used \in [Users -> [Days -> Nat]]
      /\ req[r].user \in Users /\ Progress(r)
  BY Shape DEF IngestionInv, TypeOK
<1>2. CASE Deleting(r)
  <2>1. PICK d \in Requests : req[r].target = {d}
    BY <1>2 DEF Deleting
  <2>2. docs' = [docs EXCEPT ![d] = Absent(docs[d].owner)]
    BY <1>1, <2>1 DEF Installs
  <2>3. \A e \in Days : used[req[r].user][e] + req[r].spent[e] = used[req[r].user][e]
    BY <1>1, <1>2 DEF Deleting, NoSpending
  <2>4. [e \in Days |-> used[req[r].user][e] + req[r].spent[e]] = used[req[r].user]
    BY <1>1, <2>3
  <2>5. used' = used
    BY <1>1, <2>4 DEF Installs
  <2> QED
    BY <2>2, <2>5
<1>3. CASE HoldsSlot(r) /\ Whole(req[r].row)
  <2>1. docs' = [docs EXCEPT ![r] = req[r].row]
    BY <1>1, <1>3 DEF HoldsSlot, Installs
  <2>2. PICK d \in Days : /\ req[r].spent = OneSlot(d) /\ d \in req[r].locks
                          /\ used[req[r].user][d] < Quota
    BY <1>3 DEF HoldsSlot
  <2>3. [e \in Days |-> used[req[r].user][e] + req[r].spent[e]]
          = [used[req[r].user] EXCEPT ![d] = @ + 1]
    BY <1>1, <2>2 DEF OneSlot, NoSpending
  <2>4. used' = [used EXCEPT ![req[r].user] = [used[req[r].user] EXCEPT ![d] = @ + 1]]
    BY <1>1, <2>3 DEF Installs
  <2>5. used' = [used EXCEPT ![req[r].user][d] = @ + 1]
    BY <1>1, <2>4
  <2> QED
    BY <1>3, <2>1, <2>2, <2>5
<1> QED
  BY <1>1, <1>2, <1>3 DEF Progress

(* The part of the invariant that a commit can disturb: the other requests. *)
LEMMA OthersKeep ==
  ASSUME IngestionInv, NEW r \in Requests, NEW q \in Requests \ {r},
         req'[q] = req[q], docs'[q] = docs[q] \/ docs'[q].status = "absent",
         NEW u \in Users, u = req[r].user,
         \A d \in Days : used'[req[q].user][d] # used[req[q].user][d] =>
                          d \in req[r].locks /\ req[q].user = u
  PROVE  Progress(q)'
<1>1. Progress(q) /\ (req[q].user = u => req[r].locks \cap req[q].locks = {})
  BY Shape
<1>2. HoldsSlot(q) => HoldsSlot(q)'
  BY <1>1 DEF HoldsSlot
<1>3. Deleting(q) => Deleting(q)'
  BY DEF Deleting
<1> QED
  BY <1>1, <1>2, <1>3 DEF Progress, Whole

LEMMA CommitsKeeps ==
  ASSUME IngestionInv, NEW r \in Requests, Commits(r)
  PROVE  IngestionInv'
<1> DEFINE new == [Idle(AnyUser) EXCEPT !.at = "done", !.reply = "success"]
<1>1. /\ new \in Transactions /\ new.at = "done" /\ new.locks = {}
  BY Values DEF Transactions, Idle
<1> HIDE DEF new
<1>2. Becomes(r, new) /\ UNCHANGED today /\ today \in Days
  BY Shape DEF new, Commits, Finished
<1>3. /\ req' = [req EXCEPT ![r] = new] /\ req' \in [Requests -> Transactions]
      /\ req'[r] = new /\ \A q \in Requests \ {r} : req'[q] = req[q]
  BY <1>1, <1>2 DEF Becomes, IngestionInv, TypeOK
<1>4. Progress(r)'
  BY <1>1, <1>3 DEF Progress
<1>5. CASE UNCHANGED tables
  BY <1>1, <1>2, <1>4, <1>5, OwnStep
<1>6. LocksExclude'
  BY <1>1, <1>3 DEF IngestionInv, LocksExclude
<1>7. /\ docs \in [Requests -> Row] /\ used \in [Users -> [Days -> Nat]] /\ DocsWhole
      /\ req[r].user \in Users /\ req[r].row \in Row
  BY Shape DEF IngestionInv, TypeOK
<1>8. \A q \in Requests : req[q].user \in Users
  BY Shape
<1>9. CASE /\ HoldsSlot(r) /\ Whole(req[r].row) /\ docs' = [docs EXCEPT ![r] = req[r].row]
           /\ \E d \in req[r].locks \cap Days :
                /\ used[req[r].user][d] < Quota
                /\ used' = [used EXCEPT ![req[r].user][d] = @ + 1]
  <2>1. PICK d \in req[r].locks \cap Days : used' = [used EXCEPT ![req[r].user][d] = @ + 1]
    BY <1>9
  <2>2. TypeOK'
    BY <1>2, <1>3, <1>7, <1>9, <2>1 DEF TypeOK
  <2>3. DocsWhole'
    BY <1>7, <1>9 DEF DocsWhole, Whole
  <2>4. ASSUME NEW q \in Requests \ {r} PROVE Progress(q)'
    <3>1. docs'[q] = docs[q]
      BY <1>7, <1>9
    <3>2. \A e \in Days : used'[req[q].user][e] # used[req[q].user][e] =>
                           e \in req[r].locks /\ req[q].user = req[r].user
      BY <1>7, <1>8, <2>1
    <3> QED
      BY <1>3, <1>7, <3>1, <3>2, OthersKeep
  <2> QED
    BY <1>4, <1>6, <2>2, <2>3, <2>4 DEF IngestionInv
<1>10. ASSUME NEW d \in Requests, used' = used,
              docs' = [docs EXCEPT ![d] = Absent(docs[d].owner)]
       PROVE  IngestionInv'
  <2>1. Absent(docs[d].owner) \in Row
    BY <1>7, Values DEF Row
  <2>2. Absent(docs[d].owner).status = "absent" /\ Absent(docs[d].owner).embedded = 0
    BY DEF Absent
  <2>3. TypeOK'
    BY <1>2, <1>3, <1>7, <1>10, <2>1 DEF TypeOK
  <2>4. DocsWhole'
    BY <1>7, <1>10, <2>2 DEF DocsWhole, Whole
  <2>5. ASSUME NEW q \in Requests \ {r} PROVE Progress(q)'
    <3>1. docs'[q] = docs[q] \/ docs'[q].status = "absent"
      BY <1>7, <1>10, <2>2
    <3> QED
      BY <1>3, <1>7, <1>10, <3>1, OthersKeep
  <2> QED
    BY <1>4, <1>6, <2>3, <2>4, <2>5 DEF IngestionInv
<1> QED
  BY <1>5, <1>9, <1>10, CommitCases DEF Commits

------------------------------------------------------------------------------
LEMMA NextKeeps == IngestionInv /\ [Next]_vars => IngestionInv'
<1> SUFFICES ASSUME IngestionInv, [Next]_vars PROVE IngestionInv'
  OBVIOUS
<1>1. ASSUME NEW r \in Requests, Arrives(r) PROVE IngestionInv'
  BY <1>1, UploadsKeeps, DeletionKeeps DEF Arrives
<1>2. ASSUME NEW r \in Requests, Proceeds(r) PROVE IngestionInv'
  BY <1>2, ReservesKeeps, PipelineKeeps, ReleasesKeeps, RollbackKeeps, DeletionKeeps,
     CommitsKeeps DEF Proceeds, Raises
<1>3. ASSUME NEW r \in Requests, TimesOut(r) PROVE IngestionInv'
  BY <1>3, RollbackKeeps DEF TimesOut
<1>4. ASSUME UNCHANGED <<tables, req>>, today' \in Days PROVE IngestionInv'
  <2>1. TypeOK'
    BY <1>4 DEF IngestionInv, TypeOK, tables
  <2>2. LocksExclude' /\ DocsWhole' /\ \A r \in Requests : Progress(r)'
    BY <1>4 DEF IngestionInv, tables, LocksExclude, DocsWhole, Whole, Progress, HoldsSlot, Deleting
  <2> QED
    BY <2>1, <2>2 DEF IngestionInv
<1>5. today \in Days
  BY DEF IngestionInv, TypeOK
<1>6. CASE Midnight
  <2>1. today' \in Days
    BY <1>5, <1>6, IngestionAssumption DEF Midnight, Days
  <2> QED
    BY <1>4, <1>6, <2>1 DEF Midnight
<1>7. CASE UNCHANGED vars
  BY <1>4, <1>5, <1>7 DEF vars, tables
<1> QED
  BY <1>1, <1>2, <1>3, <1>6, <1>7 DEF Next

THEOREM InvariantHolds == Spec => []IngestionInv
<1> QED
  BY InitInv, NextKeeps, PTL DEF Spec

(* Every document a reader sees is ready and has all its embeddings, and a   *)
(* search finds nothing else: for any users, requests, quota and days.       *)
THEOREM CorpusAlwaysWhole == Spec => []CorpusWhole
<1>1. IngestionInv => CorpusWhole
  BY DEF IngestionInv, DocsWhole, Whole, CorpusWhole, Searchable, Owns, TypeOK, Row
<1> QED
  BY <1>1, InvariantHolds, PTL

------------------------------------------------------------------------------
(* The tables change only when an answered request commits.                  *)
LEMMA OnlyCommits ==
  ASSUME NEW r \in Requests, Arrives(r) \/ Proceeds(r) \/ TimesOut(r)
  PROVE  UNCHANGED tables \/ (req[r].at = "answered" /\ Installs(r))
BY DEF Arrives, Proceeds, TimesOut, Uploads, AsksDelete, RollsBack, Discards, Reserves, Parses,
       Embeds, Persists, Works, Releases, Raises, Deletes, Commits

Shelf == {<<docs[d].owner, d>> : d \in {e \in Requests : docs[e].status # "absent"}}

LEMMA CommitIsLedgerStep ==
  ASSUME IngestionInv, NEW r \in Requests, req[r].at = "answered", Installs(r)
  PROVE  [Ledger!Next]_<<Shelf, used>>
<1>1. /\ docs \in [Requests -> Row] /\ docs[r].status = "absent"
      /\ \A d \in Requests : docs[d].owner \in Users
      /\ req[r].user \in Users /\ req[r].row \in Row
  BY Shape DEF IngestionInv, TypeOK, Progress, Row
<1>2. CASE /\ HoldsSlot(r) /\ Whole(req[r].row) /\ docs' = [docs EXCEPT ![r] = req[r].row]
           /\ \E d \in req[r].locks \cap Days :
                /\ used[req[r].user][d] < Quota
                /\ used' = [used EXCEPT ![req[r].user][d] = @ + 1]
  <2>1. PICK d \in Days : /\ used[req[r].user][d] < Quota
                          /\ used' = [used EXCEPT ![req[r].user][d] = @ + 1]
    BY <1>2
  <2>2. \A v \in Users : <<v, r>> \notin Shelf
    BY <1>1 DEF Shelf
  <2>3. Shelf' = Shelf \cup {<<req[r].user, r>>}
    <3>1. /\ docs'[r].status # "absent" /\ docs'[r].owner = req[r].user
          /\ \A e \in Requests \ {r} : docs'[e] = docs[e]
      BY <1>1, <1>2 DEF HoldsSlot, Whole
    <3> QED
      BY <1>1, <3>1 DEF Shelf
  <2>4. Ledger!Store(req[r].user, r, d)
    BY <2>1, <2>2, <2>3 DEF Ledger!Store, Shelf
  <2> QED
    BY <1>1, <2>4 DEF Ledger!Next
<1>3. ASSUME NEW d \in Requests, used' = used,
             docs' = [docs EXCEPT ![d] = Absent(docs[d].owner)]
      PROVE  [Ledger!Next]_<<Shelf, used>>
  <2>1. docs'[d].status = "absent" /\ \A e \in Requests \ {d} : docs'[e] = docs[e]
    BY <1>1, <1>3 DEF Absent
  <2>2. CASE docs[d].status = "absent"
    <3>1. Shelf' = Shelf
      BY <2>1, <2>2 DEF Shelf
    <3> QED
      BY <1>3, <3>1
  <2>3. CASE docs[d].status # "absent"
    <3>1. <<docs[d].owner, d>> \in Shelf
      BY <2>3 DEF Shelf
    <3>2. Shelf' = Shelf \ {<<docs[d].owner, d>>}
      BY <2>1, <2>3 DEF Shelf
    <3>3. Ledger!Remove(docs[d].owner, d)
      BY <1>3, <3>1, <3>2 DEF Ledger!Remove, Shelf
    <3> QED
      BY <1>1, <3>3 DEF Ledger!Next
  <2> QED
    BY <2>2, <2>3
<1> QED
  BY <1>2, <1>3, CommitCases

(* Uploads and deletions implement the ledger: each takes place in one step  *)
(* or not at all, and no user is charged more than the quota on any day.     *)
THEOREM UploadsAreAtomic == Spec => ImplementsLedger
<1>1. Init => Ledger!Init
  <2> SUFFICES ASSUME Init PROVE Ledger!Init
    OBVIOUS
  <2>1. \A d \in Requests : docs[d].status = "absent"
    BY DEF Init, Absent
  <2> QED
    BY <2>1 DEF Init, Ledger!Init
<1>2. IngestionInv /\ [Next]_vars => [Ledger!Next]_<<Shelf, used>>
  <2> SUFFICES ASSUME IngestionInv, [Next]_vars PROVE [Ledger!Next]_<<Shelf, used>>
    OBVIOUS
  <2>1. CASE UNCHANGED tables
    BY <2>1 DEF tables, Shelf
  <2>2. ASSUME NEW r \in Requests, Arrives(r) \/ Proceeds(r) \/ TimesOut(r)
        PROVE  [Ledger!Next]_<<Shelf, used>>
    BY <2>1, <2>2, OnlyCommits, CommitIsLedgerStep
  <2>3. CASE Midnight \/ UNCHANGED vars
    BY <2>1, <2>3 DEF Midnight, vars, tables
  <2> QED
    BY <2>2, <2>3 DEF Next
<1> QED
  BY <1>1, <1>2, InvariantHolds, PTL DEF Spec, ImplementsLedger, Ledger!Spec, Shelf
------------------------------------------------------------------------------
(* Where a text is cut: what Chunks returns for every text.                *)

\* A set of numbers has a least one.
LEMMA LeastNumber ==
  ASSUME NEW T \in SUBSET Nat, T # {}
  PROVE  \E n \in T : \A m \in T : n <= m
<1>1. PICK n \in T : \A m \in T : ~ (<<m, n>> \in OpToRel(<, Nat))
  BY NatLessThanWellFounded, WFMin
<1>2. \A m \in T : ~ (m < n)
  BY <1>1 DEF OpToRel
<1> QED
  BY <1>2

\* From the end of a text back to its beginning.
LEMMA Backwards ==
  ASSUME NEW n \in Nat, NEW Good \in SUBSET Nat,
         \A s \in Nat : s >= n => s \in Good,
         \A s \in Nat : s < n /\ (\A u \in Nat : u > s => u \in Good) => s \in Good
  PROVE  \A s \in Nat : s \in Good
<1> DEFINE Far == {k \in 0 .. n : n - k \notin Good}
<1>1. SUFFICES ASSUME Far # {} PROVE FALSE
  <2>1. ASSUME Far = {}, NEW s \in Nat, s < n PROVE s \in Good
    <3>1. n - s \in 0 .. n /\ n - (n - s) = s
      BY <2>1
    <3> QED
      BY <2>1, <3>1
  <2> QED
    BY <2>1
<1>2. PICK k \in Far : \A m \in Far : k <= m
  <2>1. Far \in SUBSET Nat
    OBVIOUS
  <2> HIDE DEF Far
  <2> QED
    BY <1>1, <2>1, LeastNumber
<1>3. k \in 0 .. n /\ n - k \in Nat /\ n - k \notin Good
  BY <1>2
<1>4. n - k < n
  BY <1>3
<1>5. ASSUME NEW u \in Nat, u > n - k PROVE u \in Good
  <2>1. CASE u >= n
    BY <2>1
  <2>2. CASE u < n
    <3>1. n - u \in 0 .. n /\ n - (n - u) = u /\ n - u < k
      BY <1>3, <1>5, <2>2
    <3>2. n - u \notin Far
      BY <1>2, <1>3, <3>1
    <3> QED
      BY <3>1, <3>2
  <2> QED
    BY <2>1, <2>2
<1> QED
  BY <1>3, <1>4, <1>5

LEMMA MaxIs ==
  ASSUME NEW n \in Nat, NEW S \in SUBSET (0 .. n), S # {}
  PROVE  Max(S) \in S
<1> DEFINE Below == {k \in 0 .. n : n - k \in S}
<1>1. Below # {}
  <2>1. PICK x \in S : TRUE
    OBVIOUS
  <2>2. n - x \in 0 .. n /\ n - (n - x) = x
    OBVIOUS
  <2> QED
    BY <2>2
<1>2. PICK k \in Below : \A m \in Below : k <= m
  <2>1. Below \in SUBSET Nat
    OBVIOUS
  <2> HIDE DEF Below
  <2> QED
    BY <1>1, <2>1, LeastNumber
<1>3. k \in 0 .. n /\ n - k \in S
  BY <1>2
<1>4. \A y \in S : n - k >= y
  <2>1. ASSUME NEW y \in S PROVE n - k >= y
    <3>1. n - y \in Below /\ y \in 0 .. n
      OBVIOUS
    <3> QED
      BY <1>2, <1>3, <3>1
  <2> QED
    BY <2>1
<1> QED
  BY <1>3, <1>4 DEF Max

Text == Seq({"w", "n"})

\* The chunk that begins at start, and what the chunks from start on are when f
\* gives those from later places on.
Piece(t, size, start) ==
  <<start, IF start + size < Len(t) THEN SplitEnd(Segments(t), start, start + size)
           ELSE Len(t)>>
After(t, c, overlap) == IF Blank(t, c) THEN AfterBlank(c) ELSE AfterChunk(c, overlap)
Pieces(f, t, size, overlap, start) ==
  LET c == Piece(t, size, start)
  IN  IF start >= Len(t) THEN {}
      ELSE (IF Blank(t, c) THEN {} ELSE {c})
           \cup (IF c[2] >= Len(t) THEN {} ELSE f[After(t, c, overlap)])
Cutting(f, t, size, overlap) == f = [start \in Nat |-> Pieces(f, t, size, overlap, start)]

\* A piece is not empty and within its budget, and the next begins inside or after it.
LEMMA PieceIs ==
  ASSUME NEW t \in Text, NEW size \in Nat \ {0}, NEW overlap \in 0 .. size - 1,
         NEW start \in Nat, start < Len(t), NEW c, c = Piece(t, size, start)
  PROVE  /\ c \in Nat \X Nat /\ c[1] = start /\ start < c[2]
         /\ c[2] <= Len(t) /\ c[2] <= start + size
         /\ After(t, c, overlap) \in Nat /\ After(t, c, overlap) > start
         /\ After(t, c, overlap) <= c[2] /\ c[2] <= After(t, c, overlap) + overlap
<1>1. Len(t) \in Nat
  BY DEF Text
<1> DEFINE e == IF start + size < Len(t) THEN SplitEnd(Segments(t), start, start + size)
                ELSE Len(t)
<1>2. c = <<start, e>>
  BY DEF Piece
<1>3. e \in Nat /\ start < e /\ e <= Len(t) /\ e <= start + size
  <2>1. CASE ~(start + size < Len(t))
    BY <1>1, <2>1
  <2>2. CASE start + size < Len(t)
    <3> DEFINE budget == start + size
               fitting == {s \in Segments(t) : start < s[1] /\ s[1] < budget /\ s[2] <= budget}
               Ends == {s[2] : s \in fitting}
    <3>1. e = IF fitting = {} THEN budget ELSE Max(Ends)
      BY <2>2 DEF SplitEnd
    <3>2. ASSUME NEW s \in fitting
          PROVE  s[2] \in 0 .. budget /\ start < s[2]
      <4>1. s \in (0 .. Len(t)) \X (0 .. Len(t)) /\ (s[1] < s[2] \/ s[1] = s[2])
        BY DEF Segments
      <4> QED
        BY <1>1, <3>2, <4>1
    <3>3. CASE fitting = {}
      BY <1>1, <2>2, <3>1, <3>3
    <3>4. CASE fitting # {}
      <4>1. Ends # {} /\ Ends \in SUBSET (0 .. budget) /\ \A x \in Ends : start < x
        BY <3>2, <3>4
      <4>2. budget \in Nat
        OBVIOUS
      <4>3. Max(Ends) \in Ends
        <5> HIDE DEF Ends, budget
        <5> QED
          BY <4>1, <4>2, MaxIs
      <4>4. e \in Ends
        BY <3>1, <3>4, <4>3
      <4> QED
        BY <1>1, <2>2, <4>1, <4>4
    <3> QED
      BY <3>3, <3>4
  <2> QED
    BY <2>1, <2>2
<1> HIDE DEF e
<1>4. c \in Nat \X Nat /\ c[1] = start /\ c[2] = e
  BY <1>2, <1>3
<1>5. AfterBlank(c) = e
  <2>1. {c[1] + 1, c[2]} = {start + 1, e} /\ start + 1 <= e
    BY <1>3, <1>4
  <2>2. e \in {start + 1, e} /\ \A y \in {start + 1, e} : e >= y
    BY <1>3, <2>1
  <2>3. \A x \in {start + 1, e} : (\A y \in {start + 1, e} : x >= y) => x = e
    BY <1>3, <2>1
  <2> QED
    BY <2>1, <2>2, <2>3 DEF AfterBlank, Max
<1>6. /\ AfterChunk(c, overlap) \in Nat /\ AfterChunk(c, overlap) > start
      /\ AfterChunk(c, overlap) <= e /\ e <= AfterChunk(c, overlap) + overlap
  BY <1>3, <1>4 DEF AfterChunk
<1> QED
  BY <1>3, <1>4, <1>5, <1>6 DEF After

\* Pieces reads f after start only.
LEMMA ReadsOn ==
  ASSUME NEW t \in Text, NEW size \in Nat \ {0}, NEW overlap \in 0 .. size - 1,
         NEW start \in Nat, NEW f, NEW g, \A u \in Nat : u > start => f[u] = g[u]
  PROVE  Pieces(f, t, size, overlap, start) = Pieces(g, t, size, overlap, start)
<1>1. CASE start >= Len(t)
  BY <1>1 DEF Pieces
<1>2. CASE ~(start >= Len(t))
  <2>1. PICK c : c = Piece(t, size, start)
    OBVIOUS
  <2>2. start < Len(t)
    BY <1>2 DEF Text
  <2>3. After(t, c, overlap) \in Nat /\ After(t, c, overlap) > start
    BY <2>1, <2>2, PieceIs
  <2>4. f[After(t, c, overlap)] = g[After(t, c, overlap)]
    BY <2>3
  <2> QED
    BY <2>1, <2>4 DEF Pieces
<1> QED
  BY <1>1, <1>2

\* The recursion is well founded, so Chunks is the value of such an f.
LEMMA CuttingExists ==
  ASSUME NEW t \in Text, NEW size \in Nat \ {0}, NEW overlap \in 0 .. size - 1
  PROVE  \E f : Cutting(f, t, size, overlap)
<1> DEFINE Ok(f, s) == f[s] = Pieces(f, t, size, overlap, s)
           Good == {n \in Nat : \E f : /\ f = [s \in Nat |-> f[s]]
                                       /\ \A s \in Nat : s >= n => Ok(f, s)}
<1>1. Len(t) \in Nat
  BY DEF Text
<1>2. ASSUME NEW n \in Nat, n >= Len(t) PROVE n \in Good
  <2> DEFINE f == [s \in Nat |-> {}]
  <2>1. \A s \in Nat : s >= n => Ok(f, s)
    BY <1>1, <1>2 DEF Pieces
  <2>2. f = [s \in Nat |-> f[s]]
    OBVIOUS
  <2> HIDE DEF f
  <2> QED
    BY <2>1, <2>2
<1>3. ASSUME NEW n \in Nat, n < Len(t), \A u \in Nat : u > n => u \in Good
      PROVE  n \in Good
  <2>1. n + 1 \in Good
    BY <1>3
  <2>2. PICK f : f = [s \in Nat |-> f[s]] /\ \A s \in Nat : s >= n + 1 => Ok(f, s)
    BY <2>1
  <2>3. PICK g : g = [f EXCEPT ![n] = Pieces(f, t, size, overlap, n)]
    OBVIOUS
  <2>4. /\ g = [s \in Nat |-> g[s]] /\ g[n] = Pieces(f, t, size, overlap, n)
        /\ \A s \in Nat : s > n => g[s] = f[s]
    BY <2>2, <2>3
  <2>5. ASSUME NEW s \in Nat, s >= n PROVE Ok(g, s)
    <3>1. \A u \in Nat : u > s => f[u] = g[u]
      BY <2>4, <2>5
    <3>2. Pieces(f, t, size, overlap, s) = Pieces(g, t, size, overlap, s)
      BY <3>1, ReadsOn
    <3>3. g[s] = Pieces(f, t, size, overlap, s)
      BY <2>2, <2>4, <2>5
    <3> QED
      BY <3>2, <3>3
  <2> QED
    BY <2>4, <2>5
<1>4. 0 \in Good
  <2>1. Good \in SUBSET Nat
    OBVIOUS
  <2> HIDE DEF Good
  <2>2. \A s \in Nat : s \in Good
    BY <1>1, <1>2, <1>3, <2>1, Backwards
  <2> QED
    BY <2>2
<1>5. PICK f : f = [s \in Nat |-> f[s]] /\ \A s \in Nat : s >= 0 => Ok(f, s)
  BY <1>4
<1>6. f = [s \in Nat |-> Pieces(f, t, size, overlap, s)]
  BY <1>5
<1> QED
  BY <1>6 DEF Cutting

LEMMA ChunksAreCut ==
  ASSUME NEW t \in Text, NEW size \in Nat \ {0}, NEW overlap \in 0 .. size - 1
  PROVE  \E f : Cutting(f, t, size, overlap) /\ Chunks(t, size, overlap) = f[0]
<1> DEFINE Cut(f, start) ==
      LET budget == start + size
          c      == <<start, IF budget < Len(t) THEN SplitEnd(Segments(t), start, budget)
                             ELSE Len(t)>>
          rest(next) == IF c[2] >= Len(t) THEN {} ELSE f[next]
      IN  IF start >= Len(t) THEN {}
          ELSE IF Blank(t, c) THEN rest(AfterBlank(c))
          ELSE {c} \cup rest(AfterChunk(c, overlap))
<1>1. ASSUME NEW f, NEW start PROVE Cut(f, start) = Pieces(f, t, size, overlap, start)
  BY DEF Pieces, Piece, After
<1>2. PICK f : f = [start \in Nat |-> Pieces(f, t, size, overlap, start)]
  BY CuttingExists DEF Cutting
<1>3. f = [start \in Nat |-> Cut(f, start)]
  <2> HIDE DEF Cut
  <2> QED
    BY <1>1, <1>2
<1>4. \E g : g = [start \in Nat |-> Cut(g, start)] /\ Chunks(t, size, overlap) = g[0]
  BY <1>3 DEF Chunks
<1>5. PICK g : g = [start \in Nat |-> Cut(g, start)] /\ Chunks(t, size, overlap) = g[0]
  BY <1>4
<1>6. g = [start \in Nat |-> Pieces(g, t, size, overlap, start)]
  <2> HIDE DEF Cut
  <2> QED
    BY <1>1, <1>5
<1> QED
  BY <1>5, <1>6 DEF Cutting

\* What Chunks promises of the chunks from start on.
Fair(f, t, size, overlap, start) ==
  /\ \A i \in 1 .. Len(t) : i > start /\ t[i] = "w" =>
       \E c \in f[start] : i \in c[1] + 1 .. c[2]
  /\ \A c \in f[start] : /\ c \in Nat \X Nat /\ c[1] >= start
                         /\ c[2] - c[1] <= size /\ ~Blank(t, c)
  /\ \A c, e \in f[start] : c[1] < e[1] => c[2] <= e[1] + overlap

LEMMA PiecesAreFair ==
  ASSUME NEW t \in Text, NEW size \in Nat \ {0}, NEW overlap \in 0 .. size - 1,
         NEW f, Cutting(f, t, size, overlap)
  PROVE  \A start \in Nat : Fair(f, t, size, overlap, start)
<1> DEFINE Good == {start \in Nat : Fair(f, t, size, overlap, start)}
<1>1. Len(t) \in Nat /\ \A s \in Nat : f[s] = Pieces(f, t, size, overlap, s)
  BY DEF Text, Cutting
<1>2. ASSUME NEW s \in Nat, s >= Len(t) PROVE s \in Good
  <2>1. f[s] = {}
    BY <1>1, <1>2 DEF Pieces
  <2> QED
    BY <1>1, <1>2, <2>1 DEF Fair
<1>3. ASSUME NEW s \in Nat, s < Len(t), \A u \in Nat : u > s => u \in Good
      PROVE  s \in Good
  <2>1. PICK c : c = Piece(t, size, s)
    OBVIOUS
  <2>2. PICK next : next = After(t, c, overlap)
    OBVIOUS
  <2>3. /\ c \in Nat \X Nat /\ c[1] = s /\ s < c[2]
        /\ c[2] <= Len(t) /\ c[2] <= s + size
        /\ next \in Nat /\ next > s /\ next <= c[2] /\ c[2] <= next + overlap
    BY <1>3, <2>1, <2>2, PieceIs
  <2>4. Fair(f, t, size, overlap, next)
    BY <1>3, <2>3
  <2> DEFINE first == IF Blank(t, c) THEN {} ELSE {c}
             rest  == IF c[2] >= Len(t) THEN {} ELSE f[next]
  <2>5. f[s] = first \cup rest
    <3>1. ~(s >= Len(t)) /\ f[s] = Pieces(f, t, size, overlap, s)
      BY <1>1, <1>3
    <3>2. Pieces(f, t, size, overlap, s) =
            (IF Blank(t, c) THEN {} ELSE {c}) \cup (IF c[2] >= Len(t) THEN {} ELSE f[next])
      <4> HIDE DEF first, rest
      <4> QED
        BY <3>1, <2>1, <2>2, Zenon DEF Pieces
    <3> QED
      BY <3>1, <3>2
  <2>6. \A i \in 1 .. Len(t) : i > s /\ t[i] = "w" =>
          \E d \in f[s] : i \in d[1] + 1 .. d[2]
    <3> SUFFICES ASSUME NEW i \in 1 .. Len(t), i > s, t[i] = "w"
                 PROVE  \E d \in f[s] : i \in d[1] + 1 .. d[2]
      OBVIOUS
    <3>1. CASE i <= c[2]
      <4>1. i \in c[1] + 1 .. c[2]
        BY <2>3, <3>1
      <4>2. ~Blank(t, c)
        BY <4>1 DEF Blank
      <4> QED
        BY <2>5, <4>1, <4>2
    <3>2. CASE i > c[2]
      <4>1. i > next /\ ~(c[2] >= Len(t))
        BY <1>1, <2>3, <3>2
      <4>2. \E d \in f[next] : i \in d[1] + 1 .. d[2]
        BY <2>4, <4>1 DEF Fair
      <4> QED
        BY <2>5, <4>1, <4>2
    <3> QED
      BY <2>3, <3>1, <3>2
  <2>7. ASSUME NEW d \in f[s]
        PROVE  /\ d \in Nat \X Nat /\ d[1] >= s /\ d[2] - d[1] <= size /\ ~Blank(t, d)
               /\ d = c \/ (d \in f[next] /\ d[1] >= next)
    <3>1. CASE d \in first
      BY <2>3, <3>1
    <3>2. CASE d \in rest
      <4>1. d \in f[next]
        BY <3>2
      <4>2. d \in Nat \X Nat /\ d[1] >= next /\ d[2] - d[1] <= size /\ ~Blank(t, d)
        BY <2>4, <4>1 DEF Fair
      <4> QED
        BY <2>3, <4>1, <4>2
    <3> QED
      BY <2>5, <3>1, <3>2
  <2>8. ASSUME NEW d \in f[s], NEW e \in f[s], d[1] < e[1]
        PROVE  d[2] <= e[1] + overlap
    <3>1. e \in f[next] /\ e[1] >= next /\ e[1] \in Nat
      BY <2>3, <2>7, <2>8
    <3>2. CASE d = c
      BY <2>3, <3>1, <3>2
    <3>3. CASE d \in f[next]
      BY <2>4, <2>8, <3>1, <3>3 DEF Fair
    <3> QED
      BY <2>7, <3>2, <3>3
  <2>9. Fair(f, t, size, overlap, s)
    BY <2>6, <2>7, <2>8 DEF Fair
  <2> QED
    BY <2>9
<1>4. Good \in SUBSET Nat
  OBVIOUS
<1>5. \A s \in Nat : s \in Good
  <2> HIDE DEF Good
  <2> QED
    BY <1>1, <1>2, <1>3, <1>4, Backwards
<1> QED
  BY <1>5

(* Every text, of any length, is cut as it should be for every size and      *)
(* overlap the settings allow: no character of a sentence is lost, no chunk  *)
(* is blank or too long, and neighbours share at most the overlap.           *)
THEOREM EveryTextIsCovered ==
  ASSUME NEW length \in Nat, NEW sizes \in SUBSET (Nat \ {0})
  PROVE  ChunksCoverText(length, sizes)
<1> SUFFICES ASSUME NEW t \in Texts(length), NEW size \in sizes, NEW overlap \in 0 .. size - 1,
                    NEW chunks, chunks = Chunks(t, size, overlap)
             PROVE  /\ \A i \in 1 .. Len(t) : t[i] = "w" =>
                         \E c \in chunks : i \in c[1] + 1 .. c[2]
                    /\ \A c \in chunks : c[2] - c[1] <= size /\ ~Blank(t, c)
                    /\ \A c, e \in chunks : c[1] < e[1] => c[2] <= e[1] + overlap
  BY DEF ChunksCoverText
<1>1. t \in Text /\ size \in Nat \ {0}
  <2>1. PICK k \in 0 .. length : t \in [1 .. k -> {"w", "n"}]
    BY DEF Texts
  <2> QED
    BY <2>1 DEF Text
<1>2. PICK f : Cutting(f, t, size, overlap) /\ chunks = f[0]
  BY <1>1, ChunksAreCut
<1>3. Fair(f, t, size, overlap, 0)
  BY <1>1, <1>2, PiecesAreFair
<1>4. Len(t) \in Nat
  BY <1>1 DEF Text
<1> QED
  BY <1>2, <1>3, <1>4 DEF Fair

(* A document is cut before it is embedded, so what is embedded is all of it. *)
THEOREM WholeTextsAreEmbedded == Spec => []ChunksCover
<1>1. ChunksCover
  <2>1. 1 .. 3 \in SUBSET (Nat \ {0}) /\ 7 \in Nat
    OBVIOUS
  <2> QED
    BY <2>1, EveryTextIsCovered DEF ChunksCover, ShortTextsCovered
<1> QED
  BY <1>1, PTL
==============================================================================
