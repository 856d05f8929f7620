------------------------------ MODULE Ingestion ------------------------------
(***************************************************************************)
(* Uploads and deletions of documents.  A request is one transaction:      *)
(* its rows, and what it added to its user's upload counters, are its own  *)
(* until get_db_session commits or rolls back, after the response was      *)
(* sent.  A counter row it wrote stays locked for as long, through parsing *)
(* and embedding.                                                          *)
(* A document is named by the request that uploads it; of its chunks the   *)
(* tables keep how many there are and how many have their embedding.       *)
(***************************************************************************)
EXTENDS Chunking

CONSTANTS
  Users,
  MaxRequests,         \* bound: requests, named in the order they arrive
  Quota,               \* effective_authenticated_daily_upload_quota, set
  LastDay,             \* bound: the days of the run
  MaxChunks            \* bound: the chunks of a document

ASSUME IngestionAssumption ==
  /\ Quota \in Nat /\ LastDay \in Nat \ {0}
  /\ MaxRequests \in Nat /\ MaxChunks \in Nat /\ Users # {}

Days     == 1 .. LastDay
Requests == 1 .. MaxRequests

VARIABLES
  today, \* the UTC window
  docs,  \* committed: documents with their chunks
  used,  \* committed: upload_count of each user and window
  req    \* the requests and their transactions

tables == <<docs, used>>
vars   == <<today, docs, used, req>>
------------------------------------------------------------------------------
Absent(u) == [owner |-> u, status |-> "absent", chunks |-> 0, embedded |-> 0]

NoSpending == [d \in Days |-> 0]

Idle(u) ==
  [at |-> "idle", user |-> u, row |-> Absent(u), target |-> {},
   spent |-> NoSpending, locks |-> {}, reply |-> "none"]

AnyUser == CHOOSE u \in Users : TRUE

Init ==
  /\ today = 1
  /\ docs = [r \in Requests |-> Absent(AnyUser)]
  /\ used = [u \in Users |-> [d \in Days |-> 0]]
  /\ req = [r \in Requests |-> Idle(AnyUser)]

Becomes(r, new) == req' = [req EXCEPT ![r] = new]

(* The request's view of a counter: committed rows and its own.              *)
Count(r, d) == used[req[r].user][d] + req[r].spent[d]

NobodyWaits(r) == TRUE

(* The row of the user's counter is not locked by another transaction.      *)
CounterFree(r) ==
  \A q \in Requests \ {r} : req[q].user = req[r].user => today \notin req[q].locks

Adds(spent, n) == [spent EXCEPT ![today] = @ + n]

Spends(r, n) ==
  [req[r] EXCEPT !.spent = Adds(req[r].spent, n), !.locks = req[r].locks \cup {today}]
------------------------------------------------------------------------------
(* --- the end of a transaction --- *)

Installs(r) ==
  /\ docs' = [d \in Requests |->
                IF d \in req[r].target THEN Absent(docs[d].owner)
                ELSE IF d = r /\ req[r].target = {} THEN req[r].row ELSE docs[d]]
  /\ used' = [used EXCEPT ![req[r].user] =
                [d \in Days |-> used[req[r].user][d] + req[r].spent[d]]]

Discards(r) == UNCHANGED tables

FinishedHolding(r, reply) ==
  Becomes(r, [Idle(req[r].user) EXCEPT !.at = "done", !.reply = reply, !.locks = req[r].locks])
Finished(r, reply) == Becomes(r, [Idle(AnyUser) EXCEPT !.at = "done", !.reply = reply])

(* The exception leaves the endpoint: rollback, then the error response.     *)
RollsBack(r) == Finished(r, "error") /\ Discards(r) /\ UNCHANGED today

Commits(r) ==
  /\ req[r].at = "answered"
  /\ Finished(r, "success")
  /\ Installs(r) \/ UNCHANGED tables  \* the commit fails
  /\ UNCHANGED today
------------------------------------------------------------------------------
(* --- ingest_document --- *)

Arriving(r) == req[r].at = "idle" /\ \A q \in 1 .. r - 1 : req[q].at # "idle"

(* validate_document_upload refuses before anything is written.              *)
Uploads(r, u) ==
  /\ Arriving(r)
  /\ \/ Becomes(r, [Idle(u) EXCEPT !.at = "reserving"])
     \/ Becomes(r, [Idle(AnyUser) EXCEPT !.at = "done", !.reply = "error"])
  /\ UNCHANGED <<today, tables>>

Pending(u) == [Absent(u) EXCEPT !.status = "processing"]

Reserves(r) ==
  /\ req[r].at = "reserving" /\ CounterFree(r)
  /\ \/ /\ Count(r, today) < Quota
        /\ Becomes(r, [Spends(r, 1) EXCEPT !.at = "parsing", !.row = Pending(req[r].user)])
        /\ UNCHANGED <<today, tables>>
     \/ Count(r, today) >= Quota /\ RollsBack(r)

(* A step of the pipeline does its work or raises. *)
Works(r, from, to, row) ==
  /\ req[r].at = from
  /\ \/ Becomes(r, [req[r] EXCEPT !.at = to, !.row = row])
     \/ Becomes(r, [req[r] EXCEPT !.at = "releasing"])
  /\ UNCHANGED <<today, tables>>

(* parse, chunk and add_chunks; a text without sentences has no chunks *)
Parses(r) ==
  \E n \in {0, MaxChunks} :
    Works(r, "parsing", "embedding", [req[r].row EXCEPT !.chunks = n])

Embeds(r) == Works(r, "embedding", "persisting", req[r].row)

PersistsOne(r) ==
  Works(r, "persisting", "answered",
        [req[r].row EXCEPT !.status = "ready", !.embedded = Min({1, req[r].row.chunks})])

(* upsert, chunk by chunk, then the status and the answer *)
Persists(r) ==
  LET row == req[r].row
  IN  IF row.embedded < row.chunks
        THEN Works(r, "persisting", "persisting", [row EXCEPT !.embedded = @ + 1])
        ELSE Works(r, "persisting", "answered", [row EXCEPT !.status = "ready"])

Failed(row) == [row EXCEPT !.status = "failed", !.chunks = 0, !.embedded = 0]

(* release_upload, in the window of the moment, and _cleanup_failed_ingest.  *)
(* A counter row is seen, and waited for, if it is committed or the          *)
(* request's own.                                                            *)
Releases(r) ==
  /\ req[r].at = "releasing"
  /\ LET cleaned(tr) == [tr EXCEPT !.at = "raising", !.row = Failed(@)]
     IN  \/ Count(r, today) = 0 /\ Becomes(r, cleaned(req[r]))
         \/ Count(r, today) > 0 /\ CounterFree(r) /\ Becomes(r, cleaned(Spends(r, -1)))
  /\ UNCHANGED <<today, tables>>

Raises(r) == req[r].at = "raising" /\ RollsBack(r)

Ingesting == {"reserving", "parsing", "embedding", "persisting", "releasing"}

(* wait_for cancels the coroutine wherever it is; nothing handles that.      *)
TimesOut(r) == req[r].at \in Ingesting /\ RollsBack(r)
------------------------------------------------------------------------------
(* --- delete_document --- *)

Owns(u, d) == docs[d].status # "absent" /\ docs[d].owner = u

AsksDelete(r, u, d) ==
  /\ Arriving(r)
  /\ \/ /\ Owns(u, d) /\ UNCHANGED <<today, tables>>
        /\ Becomes(r, [Idle(u) EXCEPT !.at = "deleting", !.target = {d}])
     \/ ~Owns(u, d) /\ RollsBack(r)

(* Chunks and document; the rows wait for another deletion of theirs.       *)
Deletes(r) ==
  /\ req[r].at = "deleting"
  /\ \A q \in Requests \ {r} : req[q].at = "answered" => req[q].target # req[r].target
  /\ Becomes(r, [req[r] EXCEPT !.at = "answered"])
  /\ UNCHANGED <<today, tables>>

Midnight == today < LastDay /\ today' = today + 1 /\ UNCHANGED <<tables, req>>
------------------------------------------------------------------------------
Proceeds(r) ==
  \/ Reserves(r) \/ Parses(r) \/ Embeds(r) \/ Persists(r)
  \/ Releases(r) \/ Raises(r)
  \/ Deletes(r) \/ Commits(r)

Arrives(r) ==
  \E u \in Users : Uploads(r, u) \/ \E d \in Requests : AsksDelete(r, u, d)

AllDone == \A r \in Requests : req[r].at = "done"

Next ==
  \/ \E r \in Requests : Arrives(r) \/ Proceeds(r) \/ TimesOut(r)
  \/ Midnight
  \/ AllDone /\ UNCHANGED vars

(* The steps of a request go on; what waits for the provider is bounded by   *)
(* wait_for.                                                                 *)
Spec == Init /\ [][Next]_vars /\ \A r \in Requests : WF_vars(Proceeds(r))
------------------------------------------------------------------------------
Row ==
  [owner : Users, status : {"absent", "processing", "ready", "failed"},
   chunks : 0 .. MaxChunks, embedded : 0 .. MaxChunks]

Transactions ==
  [at : Ingesting \cup {"idle", "raising", "deleting", "answered", "done"},
   user : Users, row : Row, target : SUBSET Requests,
   spent : [Days -> {-1, 0, 1}], locks : SUBSET Days,
   reply : {"none", "success", "error"}]

TypeOK ==
  /\ today \in Days
  /\ docs \in [Requests -> Row]
  /\ used \in [Users -> [Days -> Nat]]
  /\ req \in [Requests -> Transactions]

(* The documents similarity_search looks at: it does not ask for a status.   *)
Searchable(u) == {d \in Requests : docs[d].owner = u /\ docs[d].embedded > 0}

(* Every document of a user is ready and has all its embeddings, and a       *)
(* search, which looks at embeddings only, finds chunks of no other.         *)
CorpusWhole ==
  \A u \in Users :
    /\ Searchable(u) \subseteq {d \in Requests : Owns(u, d)}
    /\ \A d \in Requests :
         Owns(u, d) => docs[d].status = "ready" /\ docs[d].embedded = docs[d].chunks

(* What has been parsed is cut without losing a sentence: shown for every    *)
(* text of up to seven characters and every setting with chunks of up to     *)
(* three.                                                                    *)
ShortTextsCovered == ChunksCoverText(7, 1 .. 3)
ChunksCover ==
  \A r \in Requests : req[r].at = "embedding" => ShortTextsCovered

(* Uploads and deletions look atomic to every reader: a slot is taken with   *)
(* the document, in the window of its reservation, within the quota.         *)
Ledger ==
  INSTANCE UploadLedger WITH
    Ids <- Requests,
    shelf <- {<<docs[d].owner, d>> : d \in {e \in Requests : docs[e].status # "absent"}}
ImplementsLedger == Ledger!Spec

(* No request waits for ever for a counter or a document that another holds: *)
(* the bounded number of requests that arrive are all done in the end.       *)
EveryRequestEnds == <>[](\A r \in Requests : req[r].at \in {"idle", "done"})
==============================================================================
