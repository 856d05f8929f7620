------------------------------- MODULE TurnLog -------------------------------
(***************************************************************************)
(* What chat persistence promises its clients: a session is a log that     *)
(* turns are added to.  A turn joins the end of one session's log in one   *)
(* step: question and answer together, or the question alone when its      *)
(* answer was cut off.  Nothing comes between the two, and an answer may   *)
(* be repeated later in the same log, once.  A client key is in a log      *)
(* once; a summary covers a prefix that ends with a complete answer and    *)
(* only grows; a session disappears with all it holds.                     *)
(***************************************************************************)
EXTENDS Integers, Sequences

CONSTANTS Sessions, Authors, Keys, NoKey, Endings

VARIABLES
    live,      \* the sessions that exist
    log,       \* the entries of each session, oldest first
    covered    \* how many of them the latest summary covers

Question(a, k) == [by |-> a, role |-> "user", key |-> k, ending |-> "complete"]
Answer(a, e)   == [by |-> a, role |-> "assistant", key |-> NoKey, ending |-> e]
Entry == [by : Authors, role : {"user", "assistant"},
          key : Keys \cup {NoKey}, ending : Endings]

TypeOK ==
    /\ live \in SUBSET Sessions
    /\ log \in [Sessions -> Seq(Entry)]
    /\ covered \in [Sessions -> Nat]

Init ==
    /\ live = {}
    /\ log = [s \in Sessions |-> <<>>]
    /\ covered = [s \in Sessions |-> 0]

Entries(s) == {log[s][i] : i \in 1..Len(log[s])}
Written    == UNION {Entries(s) : s \in Sessions}

\* Who has written nothing yet, and the keys that are not in a log.
NewAuthors == Authors \ {x.by : x \in Written}
NewKeys(s) == {NoKey} \cup (Keys \ {x.key : x \in Entries(s)})

\* After a complete answer the whole log may be summarised.
Summarises(s) == covered' \in {covered, [covered EXCEPT ![s] = Len(log'[s])]}

\* A turn joins a session, existing or new.
AppendTurn(s) ==
    /\ live' = live \cup {s}
    /\ \E a \in NewAuthors, k \in NewKeys(s), e \in Endings :
          /\ log' = [log EXCEPT ![s] = Append(Append(@, Question(a, k)), Answer(a, e))]
          /\ IF e = "complete" THEN Summarises(s) ELSE UNCHANGED covered

\* A question whose answer was cut off joins a session.
AppendCutOff(s) ==
    /\ live' = live \cup {s}
    /\ \E a \in NewAuthors, k \in NewKeys(s) :
          log' = [log EXCEPT ![s] = Append(@, Question(a, k))]
    /\ UNCHANGED covered

\* An answer that is in the log once is repeated behind whatever came since.
AnsweredOnce(s, a) ==
    \E i \in 1..Len(log[s]) : \A j \in 1..Len(log[s]) :
        log[s][j] = Answer(a, "complete") <=> j = i
RepeatAnswer(s) ==
    /\ s \in live
    /\ \E a \in Authors :
          /\ AnsweredOnce(s, a)
          /\ log' = [log EXCEPT ![s] = Append(@, Answer(a, "complete"))]
    /\ Summarises(s)
    /\ UNCHANGED live

Create(s) ==
    /\ s \notin live
    /\ live' = live \cup {s}
    /\ UNCHANGED <<log, covered>>

Delete(s) ==
    /\ s \in live
    /\ live' = live \ {s}
    /\ log' = [log EXCEPT ![s] = <<>>]
    /\ covered' = [covered EXCEPT ![s] = 0]

Next == \E s \in Sessions :
    AppendTurn(s) \/ AppendCutOff(s) \/ RepeatAnswer(s) \/ Create(s) \/ Delete(s)

Spec == Init /\ [][Next]_<<live, log, covered>>
=============================================================================
