------------------------------ MODULE ChatTurns ------------------------------
(***************************************************************************)
(* How a chat turn is persisted: backend-python/app/services/chat_service, *)
(* unified_chat_service and tool_chat_service over db/chat and             *)
(* db/identity, one PostgreSQL READ COMMITTED transaction per HTTP request *)
(* (routers/chat.get_optional_session).                                    *)
(*                                                                         *)
(* Committed tables are the variables owner, nextSeq, messages, summaries  *)
(* and quota.  What a request has written but not committed is private to  *)
(* it, in txn[r].  Two row locks order requests: the guest row, taken by   *)
(* touch while the caller is resolved, and the session row, taken by       *)
(* SELECT ... FOR UPDATE in allocate_seq.  Both are held until the         *)
(* transaction ends.                                                       *)
(*                                                                         *)
(* Each request is handled once; a client's retry is another request with  *)
(* the same client_message_id.                                             *)
(***************************************************************************)
EXTENDS Integers, FiniteSets

CONSTANTS
    Requests,         \* identities of HTTP requests
    Guests, Users,    \* resolved callers (CallerContext.kind)
    LinkedUser,       \* [Guests -> Users \cup {NoOne}]: linked_user_id
    NoOne,            \* no caller, no lock holder, no client_message_id
    Cids,             \* client_message_id values
    MaxSessions,      \* how many session rows may ever be inserted
    DailyQuota,       \* guest_daily_message_quota
    Threshold,        \* summary_trigger_message_count
    LastWindow,       \* UTC quota windows 1..LastWindow
    AnswerEnds,       \* how an answer may end, a subset of Outcomes; that a
                      \* completion completes or fails is always possible
    Submissions       \* the requests clients may send, a subset of Request

Callers == Guests \cup Users
Sids    == 1..MaxSessions
NoSid   == 0
Windows == 1..LastWindow

Outcomes == {"complete", "interrupted", "error", "abandoned"}

\* "complete" is complete_chat in its three variants; "canned" is the answer
\* that calls no provider (_guest_denial_response, _empty_corpus_response);
\* "stream_denial" is a guest's stream with a toggle on (_stream_guest_denial).
TurnKinds == {"complete", "stream", "canned", "stream_denial"}
Request == [kind    : TurnKinds \cup {"delete", "open"},
            caller  : Callers,
            session : Sids \cup {NoSid},
            cid     : Cids \cup {NoOne}]

ASSUME CallersAssumption ==
    /\ Guests \cap Users = {}
    /\ NoOne \notin Callers \cup Requests \cup Cids
    /\ LinkedUser \in [Guests -> Users \cup {NoOne}]
ASSUME BoundsAssumption ==
    /\ MaxSessions \in Nat \ {0}
    /\ DailyQuota \in Nat \ {0}
    /\ Threshold \in Nat \ {0}
    /\ LastWindow \in Nat \ {0}
\* create_session, delete_session and (streams only) the guest denial are for
\* one kind of caller; the other kind is refused before anything is touched.
ASSUME SubmissionsAssumption ==
    /\ AnswerEnds \subseteq Outcomes
    /\ Submissions \subseteq Request
    /\ \A q \in Submissions :
          /\ q.kind \in {"delete", "open"} => q.caller \in Users
          /\ q.kind = "stream_denial"      => q.caller \in Guests
          /\ q.kind = "delete"             => q.session # NoSid

VARIABLES
    \* ---- committed tables
    owner,        \* chat_sessions: the owner of each row, NoOne for no row
    nextSeq,      \* chat_sessions.next_seq
    messages,     \* chat_messages, a set of rows
    summaries,    \* session_summaries, a set of rows
    quota,        \* guest_quota_counters.message_count per guest and window
    \* ---- locks, clock, key generator
    guestHolder,  \* who holds the row lock of each guest identity
    rowHolder,    \* who holds the row lock of each session
    window,       \* the current UTC day
    lastSid,      \* session ids generated so far
    \* ---- requests
    pc,           \* where each request is
    req,          \* what it asks
    txn,          \* its open transaction
    outcome,      \* how it ended
    answer,       \* the stored message a replay sent back, {} for none
    announced     \* <<caller, session>>: ids already sent to a client

tables == <<owner, nextSeq, messages, summaries, quota>>
locks  == <<guestHolder, rowHolder>>
vars   == <<tables, locks, window, lastSid,
            pc, req, txn, outcome, answer, announced>>

Message == [session : Sids, seq : Nat, role : {"user", "assistant"},
            status : Outcomes, cid : Cids \cup {NoOne}, by : Requests]
Summary == [session : Sids, version : Nat, covers : Nat]
Txn     == [session : Sids \cup {NoSid}, creates : BOOLEAN, next : Nat,
            prior : Nat, writes : SUBSET Message, sums : SUBSET Summary,
            charge : 0..LastWindow]
Stages  == {"idle", "admitted", "checked", "lookup", "replying", "fresh",
            "generating", "closing", "static", "deleting", "done"}
\* Where a request knows the session it writes to.
Resolved == {"lookup", "replying", "fresh", "generating", "closing", "static"}
Results == {"none", "ok", "replayed", "interrupted", "abandoned",
            "provider_error", "quota_exceeded", "session_not_found",
            "database_error", "internal_error", "aborted"}

NoTxn == [session |-> NoSid, creates |-> FALSE, next |-> 0, prior |-> 0,
          writes |-> {}, sums |-> {}, charge |-> 0]

TypeOK ==
    /\ owner \in [Sids -> Callers \cup {NoOne}]
    /\ nextSeq \in [Sids -> Nat]
    /\ messages \in SUBSET Message
    /\ summaries \in SUBSET Summary
    /\ quota \in [Guests -> [Windows -> Nat]]
    /\ guestHolder \in [Guests -> Requests \cup {NoOne}]
    /\ rowHolder \in [Sids -> Requests \cup {NoOne}]
    /\ window \in Windows
    /\ lastSid \in 0..MaxSessions
    /\ pc \in [Requests -> Stages]
    /\ req \in [Requests -> Request \cup {NoOne}]
    /\ \A r \in Requests : pc[r] # "idle" => req[r] \in Submissions
    /\ txn \in [Requests -> Txn]
    /\ \A r \in Requests : pc[r] \in Resolved => txn[r].session # NoSid
    /\ outcome \in [Requests -> Results]
    /\ answer \in [Requests -> SUBSET Message]
    /\ announced \in SUBSET (Callers \X Sids)

Init ==
    /\ owner = [s \in Sids |-> NoOne]
    /\ nextSeq = [s \in Sids |-> 1]
    /\ messages = {}
    /\ summaries = {}
    /\ quota = [g \in Guests |-> [w \in Windows |-> 0]]
    /\ guestHolder = [g \in Guests |-> NoOne]
    /\ rowHolder = [s \in Sids |-> NoOne]
    /\ window = 1
    /\ lastSid = 0
    /\ pc = [r \in Requests |-> "idle"]
    /\ req = [r \in Requests |-> NoOne]
    /\ txn = [r \in Requests |-> NoTxn]
    /\ outcome = [r \in Requests |-> "none"]
    /\ answer = [r \in Requests |-> {}]
    /\ announced = {}

-----------------------------------------------------------------------------
(* What a request can see, and how it ends.                                *)

\* get_owned_session: a user also owns the sessions of guests linked to them.
Owns(c, s) ==
    \/ owner[s] = c
    \/ owner[s] \in Guests /\ LinkedUser[owner[s]] = c

\* mutant: the lookup is forgotten and every first turn creates a session.
NoDefaultSession(g) == NoSid
\* get_default_guest_session: the earliest session of a guest, or none.
DefaultSession(g) ==
    LET mine == {s \in Sids : owner[s] = g}
    IN  IF mine = {} THEN NoSid
        ELSE CHOOSE s \in mine : \A other \in mine : s <= other

\* A guest may address only its default session.
Addressable(c, s) ==
    /\ Owns(c, s)
    /\ c \in Guests => DefaultSession(c) \in {s, NoSid}

Stored(s) == {m \in messages : m.session = s}

\* mutants: touch and allocate_seq read the row without locking it.
GuestUnlocked(g) == TRUE
RowUnlocked(s)   == TRUE
GuestFree(g) == guestHolder[g] = NoOne
RowFree(s)   == rowHolder[s] = NoOne

\* mutant: a transaction ends and its session row stays locked.
ReleaseGuestOnly(r) ==
    /\ guestHolder' = [g \in Guests |->
                          IF guestHolder[g] = r THEN NoOne ELSE guestHolder[g]]
    /\ UNCHANGED rowHolder
Release(r) ==
    /\ guestHolder' = [g \in Guests |->
                          IF guestHolder[g] = r THEN NoOne ELSE guestHolder[g]]
    /\ rowHolder'   = [s \in Sids |->
                          IF rowHolder[s] = r THEN NoOne ELSE rowHolder[s]]

Goto(r, stage) == pc' = [pc EXCEPT ![r] = stage]

\* The handler raises: the dependency rolls back and the locks go.
Refuse(r, result) ==
    /\ Goto(r, "done")
    /\ outcome' = [outcome EXCEPT ![r] = result]
    /\ txn' = [txn EXCEPT ![r] = NoTxn]
    /\ Release(r)
    /\ UNCHANGED <<tables, window, lastSid, req, answer, announced>>

\* mutant: the counter is decremented.
InstallRefund(c, t) ==
    /\ owner'     = IF t.creates THEN [owner EXCEPT ![t.session] = c] ELSE owner
    /\ nextSeq'   = IF t.writes = {} THEN nextSeq
                    ELSE [nextSeq EXCEPT ![t.session] = t.next]
    /\ messages'  = messages \cup t.writes
    /\ summaries' = summaries \cup t.sums
    /\ quota'     = IF t.charge = 0 THEN quota
                    ELSE [quota EXCEPT ![c][t.charge] = @ - 1]
\* increment: one more message in the window the turn was charged to.
Charged(g, w) == [quota EXCEPT ![g][w] = @ + 1]
\* COMMIT of transaction t on behalf of caller c.
Install(c, t) ==
    /\ owner'     = IF t.creates THEN [owner EXCEPT ![t.session] = c] ELSE owner
    /\ nextSeq'   = IF t.writes = {} THEN nextSeq
                    ELSE [nextSeq EXCEPT ![t.session] = t.next]
    /\ messages'  = messages \cup t.writes
    /\ summaries' = summaries \cup t.sums
    /\ quota'     = IF t.charge = 0 THEN quota
                    ELSE Charged(c, t.charge)

-----------------------------------------------------------------------------
(* Admission: caller, quota, session, idempotency lookup, user message.    *)

\* get_current_caller: a guest's row is updated (touch), hence locked, for the
\* rest of the transaction; a user's token is only decoded.  Session ids are
\* random: a client sends one it was told, or one that is listed somewhere.
Begin(r) ==
    /\ pc[r] = "idle"
    /\ \E q \in Submissions :
          /\ q.session # NoSid => \/ owner[q.session] # NoOne
                                  \/ <<q.caller, q.session>> \in announced
          /\ q.caller \in Guests => GuestFree(q.caller)
          /\ req' = [req EXCEPT ![r] = q]
          /\ guestHolder' = [g \in Guests |->
                                IF g = q.caller THEN r ELSE guestHolder[g]]
    /\ Goto(r, "admitted")
    /\ UNCHANGED <<tables, rowHolder, window, lastSid, txn, outcome, answer,
                   announced>>

\* _maybe_check_quota: reads the committed count of the current window.
CheckQuota(r) ==
    LET c == req[r].caller IN
    /\ pc[r] = "admitted"
    /\ req[r].kind \in TurnKinds
    /\ \/ /\ c \in Guests => quota[c][window] < DailyQuota
          /\ Goto(r, "checked")
          /\ UNCHANGED <<tables, locks, window, lastSid, req, txn, outcome,
                         answer, announced>>
       \/ /\ c \in Guests /\ quota[c][window] >= DailyQuota
          /\ Refuse(r, "quota_exceeded")

\* Where a turn goes once its session is known: only the paths through
\* find_by_client_message_id look the key up.
AfterResolve(r) ==
    IF req[r].cid # NoOne /\ req[r].kind # "canned" THEN "lookup" ELSE "fresh"

\* _resolve_session.
ResolveSession(r) ==
    LET c == req[r].caller
        s == req[r].session
        default == IF c \in Guests THEN DefaultSession(c) ELSE NoSid
        use(id, new) ==
            /\ txn' = [txn EXCEPT ![r] = [NoTxn EXCEPT !.session = id,
                                                       !.creates = new]]
            /\ Goto(r, AfterResolve(r))
            /\ UNCHANGED <<tables, locks, window, req, outcome, answer, announced>>
    IN
    /\ pc[r] = "checked"
    /\ \/ /\ s # NoSid /\ Addressable(c, s)
          /\ use(s, FALSE) /\ UNCHANGED lastSid
       \/ /\ s # NoSid /\ ~Addressable(c, s)
          /\ Refuse(r, "session_not_found")
       \/ /\ s = NoSid /\ default # NoSid
          /\ use(default, FALSE) /\ UNCHANGED lastSid
       \/ /\ s = NoSid /\ default = NoSid /\ lastSid < MaxSessions
          /\ use(lastSid + 1, TRUE) /\ lastSid' = lastSid + 1

\* find_by_client_message_id.
FindPrior(r) ==
    LET prior == {m \in Stored(txn[r].session) : m.cid = req[r].cid} IN
    /\ pc[r] = "lookup"
    /\ \/ /\ prior = {}
          /\ Goto(r, "fresh")
          /\ UNCHANGED txn
       \/ \E m \in prior :
             /\ txn' = [txn EXCEPT ![r].prior = m.seq]
             /\ Goto(r, "replying")
    /\ UNCHANGED <<tables, locks, window, lastSid, req, outcome, answer, announced>>

\* mutant: the message found is sent back itself.
PriorItself(r) == {m \in Stored(txn[r].session) : m.seq = txn[r].prior}
\* get_message_by_seq(prior.seq + 1): whatever message is stored there.
MessageAfterPrior(r) == {m \in Stored(txn[r].session) : m.seq = txn[r].prior + 1}

\* The message after the prior one is the reply.  A stream answers even when
\* there is none; complete_chat falls through to the append.
FindReply(r) ==
    LET reply == MessageAfterPrior(r) IN
    /\ pc[r] = "replying"
    /\ \/ /\ req[r].kind # "complete" \/ reply # {}
          /\ answer' = [answer EXCEPT ![r] = reply]
          /\ outcome' = [outcome EXCEPT ![r] = "replayed"]
          /\ Goto(r, "closing")
       \/ /\ req[r].kind = "complete" /\ reply = {}
          /\ Goto(r, "fresh")
          /\ UNCHANGED <<answer, outcome>>
    /\ UNCHANGED <<tables, locks, window, lastSid, req, txn, announced>>

\* mutant: no unique index.
KeyNeverTaken(r) == FALSE
\* uq_chat_messages_session_client_message_id.
KeyTaken(r) ==
    /\ req[r].cid # NoOne
    /\ \E m \in Stored(txn[r].session) : m.cid = req[r].cid

Question(r, seq) ==
    [session |-> txn[r].session, seq |-> seq, role |-> "user",
     status |-> "complete", cid |-> req[r].cid, by |-> r]

\* allocate_seq then add_message(role="user"): waits for the session row,
\* which may have gone meanwhile (ValueError), and may hit the unique index
\* (IntegrityError).  A stream announces its session id in the start frame.
AppendUser(r) ==
    LET s     == txn[r].session
        there == txn[r].creates \/ owner[s] # NoOne
    IN
    /\ pc[r] = "fresh"
    /\ RowFree(s)
    /\ \/ /\ there /\ ~KeyTaken(r)
          /\ rowHolder' = [rowHolder EXCEPT ![s] = r]
          /\ txn' = [txn EXCEPT ![r] =
                [@ EXCEPT !.next = nextSeq[s] + 1,
                          !.writes = {Question(r, nextSeq[s])}]]
          /\ announced' = IF req[r].kind = "stream"
                          THEN announced \cup {<<req[r].caller, s>>} ELSE announced
          /\ Goto(r, "generating")
          /\ UNCHANGED <<tables, guestHolder, window, lastSid, req, outcome, answer>>
       \/ there /\ KeyTaken(r) /\ Refuse(r, "database_error")
       \/ ~there /\ Refuse(r, "internal_error")

-----------------------------------------------------------------------------
(* The answer: provider call, assistant message, quota, summary, commit.   *)

Reply(r, seq, status) ==
    [session |-> txn[r].session, seq |-> seq, role |-> "assistant",
     status |-> status, cid |-> NoOne, by |-> r]

\* mutants: next_seq is not advanced; every reply is charged.
WithReplyNotCounted(r, status) ==
    [txn[r] EXCEPT !.writes = @ \cup {Reply(r, txn[r].next, status)}]
WithReplyCharged(r, status) ==
    [txn[r] EXCEPT !.writes = @ \cup {Reply(r, txn[r].next, status)},
                   !.next = @ + 1,
                   !.charge = IF req[r].caller \in Guests THEN window ELSE 0]
\* The transaction with the assistant message appended at its next_seq.
WithReply(r, status) ==
    [txn[r] EXCEPT !.writes = @ \cup {Reply(r, txn[r].next, status)},
                   !.next = @ + 1]

\* get_latest_summary: ORDER BY version DESC LIMIT 1, as the set of rows it
\* may return; version 0 covering nothing stands for no row.
Latest(s) ==
    LET rows == {u \in summaries : u.session = s}
    IN  {u \in rows \cup {[session |-> s, version |-> 0, covers |-> 0]} :
            \A v \in rows : v.version <= u.version}

\* _maybe_summarize after the transaction wrote t.writes: nothing below the
\* threshold; above it a summary of all pending messages, or nothing when the
\* provider fails (best effort).
Pending(t, old) == {m \in Stored(t.session) \cup t.writes : m.seq > old.covers}
\* mutant: off by one.
NextSummaryAhead(t, old) ==
    [session |-> t.session, version |-> old.version + 1, covers |-> t.next]
NextSummary(t, old) ==
    [session |-> t.session, version |-> old.version + 1, covers |-> t.next - 1]
SummaryChoices(t) ==
    {{}} \cup {{NextSummary(t, old)} :
        old \in {u \in Latest(t.session) : Cardinality(Pending(t, u)) >= Threshold}}

\* A complete answer: message, usage, quota (guests), summary.
Completed(r, t) ==
    \E sums \in SummaryChoices(t) :
        txn' = [txn EXCEPT ![r] =
                  [t EXCEPT !.sums = sums,
                            !.charge = IF req[r].caller \in Guests
                                       THEN window ELSE 0]]

\* The client has its answer before the transaction commits.
Answered(r) ==
    /\ Completed(r, WithReply(r, "complete"))
    /\ announced' = announced \cup {<<req[r].caller, txn[r].session>>}
    /\ outcome' = [outcome EXCEPT ![r] = "ok"]
    /\ Goto(r, "closing")
    /\ UNCHANGED <<tables, locks, window, lastSid, req, answer>>

\* complete_chat, in ChatService, ToolChatService or ChatAgentAdapter.
AnswerComplete(r) ==
    /\ pc[r] = "generating"
    /\ req[r].kind = "complete"
    /\ Answered(r)

\* A stream that runs to its end: stream_chat, _stream_provider_answer or
\* stream_agent_chat.
StreamCompletes(r) ==
    /\ pc[r] = "generating"
    /\ req[r].kind = "stream"
    /\ "complete" \in AnswerEnds
    /\ Answered(r)

\* complete_chat when the provider fails or answers nothing: an error message
\* is stored and committed before the error is raised.
AnswerFails(r) ==
    /\ pc[r] = "generating"
    /\ req[r].kind = "complete"
    /\ Install(req[r].caller, WithReply(r, "error"))
    /\ txn' = [txn EXCEPT ![r] = NoTxn]
    /\ outcome' = [outcome EXCEPT ![r] = "provider_error"]
    /\ Goto(r, "done")
    /\ Release(r)
    /\ UNCHANGED <<window, lastSid, req, answer, announced>>

\* A stream whose end is persisted with the partial text: the disconnect was
\* polled, or the provider failed or sent nothing.
StreamStops(r) ==
    /\ pc[r] = "generating"
    /\ req[r].kind = "stream"
    /\ \E status \in AnswerEnds \cap {"interrupted", "error"} :
          /\ txn' = [txn EXCEPT ![r] = WithReply(r, status)]
          /\ outcome' = [outcome EXCEPT ![r] =
                IF status = "error" THEN "provider_error" ELSE "interrupted"]
    /\ Goto(r, "closing")
    /\ UNCHANGED <<tables, locks, window, lastSid, req, answer, announced>>

\* An answer that is cut off with nothing stored and nothing raised to the
\* handler: a stream or an NDJSON completion is cancelled when its client
\* leaves (run_chat catches Exception only, and the response swallows the
\* cancellation), or a stream fails in the tool loop (stream_execute's outer
\* except sends an error frame).  The question is still committed.
Abandoned(r) ==
    /\ pc[r] = "generating"
    /\ req[r].kind \in {"complete", "stream"}
    /\ "abandoned" \in AnswerEnds
    /\ outcome' = [outcome EXCEPT ![r] = "abandoned"]
    /\ Goto(r, "closing")
    /\ UNCHANGED <<tables, locks, window, lastSid, req, txn, answer, announced>>

\* _guest_denial_response and _empty_corpus_response: a fixed text, committed
\* on the spot; no quota, no summary.
AnswerCanned(r) ==
    /\ pc[r] = "generating"
    /\ req[r].kind = "canned"
    /\ Install(req[r].caller, WithReply(r, "complete"))
    /\ txn' = [txn EXCEPT ![r] = NoTxn]
    /\ outcome' = [outcome EXCEPT ![r] = "ok"]
    /\ announced' = announced \cup {<<req[r].caller, txn[r].session>>}
    /\ Goto(r, "done")
    /\ Release(r)
    /\ UNCHANGED <<window, lastSid, req, answer>>

\* _stream_guest_denial, up to its commit.  It resolves the session again,
\* which the row lock makes the same one, and checks the quota again, which
\* another denial's second transaction may have used up meanwhile.
DenyStream(r) ==
    LET used == quota[req[r].caller][window] IN
    /\ pc[r] = "generating"
    /\ req[r].kind = "stream_denial"
    /\ \/ /\ used < DailyQuota
          /\ Install(req[r].caller, WithReply(r, "complete"))
          /\ txn' = [txn EXCEPT ![r] = [NoTxn EXCEPT !.session = txn[r].session]]
          /\ Goto(r, "static")
          /\ Release(r)
          /\ UNCHANGED <<window, lastSid, req, outcome, answer, announced>>
       \/ used >= DailyQuota /\ Refuse(r, "quota_exceeded")

\* _stream_static_content -> _persist_stream_result, in a second transaction
\* that holds no guest row lock: the same text is appended once more, and
\* this time the quota is charged.
PersistStatic(r) ==
    LET s == txn[r].session IN
    /\ pc[r] = "static"
    /\ RowFree(s)
    /\ \/ /\ owner[s] # NoOne
          /\ Completed(r, [txn[r] EXCEPT
                  !.writes = {Reply(r, nextSeq[s], "complete")},
                  !.next = nextSeq[s] + 1])
          /\ rowHolder' = [rowHolder EXCEPT ![s] = r]
          /\ announced' = announced \cup {<<req[r].caller, s>>}
          /\ outcome' = [outcome EXCEPT ![r] = "ok"]
          /\ Goto(r, "closing")
          /\ UNCHANGED <<tables, guestHolder, window, lastSid, req, answer>>
       \/ owner[s] = NoOne /\ Refuse(r, "internal_error")

\* get_optional_session leaves: session.commit().
Commit(r) ==
    /\ pc[r] = "closing"
    /\ Install(req[r].caller, txn[r])
    /\ txn' = [txn EXCEPT ![r] = NoTxn]
    /\ Goto(r, "done")
    /\ Release(r)
    /\ UNCHANGED <<window, lastSid, req, outcome, answer, announced>>

\* A database error, a crash or a cancellation inside a statement: rollback.
Abort(r) ==
    /\ pc[r] \notin {"idle", "done"}
    /\ Goto(r, "done")
    /\ outcome' = [outcome EXCEPT ![r] = "aborted"]
    /\ announced' = IF txn[r].creates
                    THEN {a \in announced : a[2] # txn[r].session} ELSE announced
    /\ txn' = [txn EXCEPT ![r] = NoTxn]
    /\ Release(r)
    /\ UNCHANGED <<tables, window, lastSid, req, answer>>

-----------------------------------------------------------------------------
(* Sessions created and deleted explicitly (users only), and the clock.    *)

\* create_session: insert and commit.
Open(r) ==
    LET c == req[r].caller IN
    /\ pc[r] = "admitted"
    /\ req[r].kind = "open"
    /\ lastSid < MaxSessions
    /\ lastSid' = lastSid + 1
    /\ owner' = [owner EXCEPT ![lastSid + 1] = c]
    /\ announced' = announced \cup {<<c, lastSid + 1>>}
    /\ outcome' = [outcome EXCEPT ![r] = "ok"]
    /\ Goto(r, "done")
    /\ UNCHANGED <<nextSeq, messages, summaries, quota, locks, window, req, txn,
                   answer>>

\* delete_session, ownership check.
DeleteLookup(r) ==
    /\ pc[r] = "admitted"
    /\ req[r].kind = "delete"
    /\ \/ /\ Owns(req[r].caller, req[r].session)
          /\ Goto(r, "deleting")
          /\ UNCHANGED <<tables, locks, window, lastSid, req, txn, outcome,
                         answer, announced>>
       \/ /\ ~Owns(req[r].caller, req[r].session)
          /\ Refuse(r, "session_not_found")

\* DELETE waits for the row lock, cascades and commits; a row already gone
\* is no error.
DeleteRow(r) ==
    LET s == req[r].session IN
    /\ pc[r] = "deleting"
    /\ RowFree(s)
    /\ owner' = [owner EXCEPT ![s] = NoOne]
    /\ nextSeq' = [nextSeq EXCEPT ![s] = 1]
    /\ messages' = messages \ Stored(s)
    /\ summaries' = {u \in summaries : u.session # s}
    /\ announced' = {a \in announced : a[2] # s}
    /\ outcome' = [outcome EXCEPT ![r] = "ok"]
    /\ Goto(r, "done")
    /\ UNCHANGED <<quota, locks, window, lastSid, req, txn, answer>>

\* _utc_window(): midnight.
Midnight ==
    /\ window < LastWindow
    /\ window' = window + 1
    /\ UNCHANGED <<tables, locks, lastSid, pc, req, txn, outcome, answer, announced>>

\* Every request has been handled.
Finished ==
    /\ \A r \in Requests : pc[r] = "done"
    /\ UNCHANGED vars

\* What a request does once admitted, faults apart.
Progress(r) ==
    \/ CheckQuota(r) \/ ResolveSession(r) \/ FindPrior(r) \/ FindReply(r)
    \/ AppendUser(r)
    \/ AnswerComplete(r) \/ AnswerFails(r)
    \/ StreamCompletes(r) \/ StreamStops(r) \/ Abandoned(r) \/ AnswerCanned(r)
    \/ DenyStream(r) \/ PersistStatic(r)
    \/ Commit(r)
    \/ Open(r) \/ DeleteLookup(r) \/ DeleteRow(r)

Next ==
    \/ \E r \in Requests : Begin(r) \/ Progress(r) \/ Abort(r)
    \/ Midnight
    \/ Finished

Spec == Init /\ [][Next]_vars

\* Every provider call is under asyncio.wait_for and every lock is held by one
\* transaction that ends, so an admitted request keeps taking steps.  Nothing
\* makes a client send a request, a transaction fail or midnight come.
FairSpec == Spec /\ \A r \in Requests : WF_vars(Progress(r))

-----------------------------------------------------------------------------
(* Properties.                                                             *)

\* Sequence numbers of a stored session are 1..next_seq-1, each used once, and
\* a session row that is gone takes its messages and summaries with it
\* (allocate_seq's promise of gap-free numbers, and the cascades).
SeqIntegrity ==
    \A s \in Sids :
        /\ {m.seq : m \in Stored(s)} = 1..(nextSeq[s] - 1)
        /\ \A m, n \in Stored(s) : m.seq = n.seq => m = n
        /\ owner[s] = NoOne =>
              Stored(s) = {} /\ \A u \in summaries : u.session # s

\* A guest is never charged more turns in a window than the daily quota: the
\* check and the increment are two statements, and only the guest row lock
\* taken by touch keeps them together.
QuotaBound ==
    \A g \in Guests, w \in Windows : quota[g][w] <= DailyQuota

\* A guest never has two sessions, however many first turns race
\* ("Guests are restricted to exactly one session", db/chat.py).
OneSessionPerGuest ==
    \A s, t \in Sids : owner[s] \in Guests /\ owner[s] = owner[t] => s = t

\* Summaries of a session are versions 1..n, each covering more than the one
\* before, and each ends with a stored reply: no turn is cut in two and
\* nothing not yet stored is covered.
SummariesChain ==
    \A u \in summaries :
        /\ \E m \in Stored(u.session) : m.seq = u.covers /\ m.role = "assistant"
        /\ \A v \in summaries : v.session = u.session =>
              /\ v.version = u.version => v = u
              /\ v.version < u.version => v.covers < u.covers
        /\ \A n \in 1..u.version :
              \E v \in summaries : v.session = u.session /\ v.version = n

\* Messages are append-only: while a session lives, a step only adds rows
\* behind every stored one (class ChatMessage, db/models.py).
AppendOnly ==
    [][\A s \in Sids : owner[s] # NoOne /\ owner'[s] # NoOne =>
          /\ Stored(s) \subseteq Stored(s)'
          /\ \A m \in Stored(s), n \in Stored(s)' \ Stored(s) : m.seq < n.seq]_vars

\* What a guest was charged is exactly the turns it was answered: never for a
\* refusal, a replay, a failure or a rollback, never twice, never for free.
Spent(g) ==
    LET upto[w \in 0..LastWindow] ==
            IF w = 0 THEN 0 ELSE upto[w - 1] + quota[g][w]
    IN  upto[LastWindow]
ChargedExactlyOnce ==
    \A g \in Guests :
        Spent(g) = Cardinality({r \in Requests :
            /\ pc[r] = "done" /\ outcome[r] = "ok"
            /\ req[r].caller = g /\ req[r].kind # "canned"})

\* A replayed answer is the reply of the very turn the client_message_id
\* names ("makes the append idempotent", schemas/chat.py and types/chat.ts).
ReplayIsOwnReply ==
    \A r \in Requests : \A m \in answer[r] :
        m.role = "assistant" /\ req[m.by].cid = req[r].cid

\* What a replay sends back belongs to a stored question with the key of the
\* retry, and is the reply to that question, whatever turns, deletions and
\* rollbacks lie between the two look-ups; only a question whose answer was
\* cut off can be answered with something else.
ReplayOwnUnlessCut ==
    [][\A r \in Requests : \A m \in answer'[r] \ answer[r] :
          \E asked \in Stored(m.session) :
              /\ asked.role = "user" /\ asked.cid = req[r].cid
              /\ \/ m.role = "assistant" /\ m.by = asked.by
                 \/ outcome[asked.by] = "abandoned"]_vars

\* Every request that was admitted ends, whatever it waits for.
EveryRequestFinishes ==
    \A r \in Requests : pc[r] = "admitted" ~> pc[r] = "done"

=============================================================================
