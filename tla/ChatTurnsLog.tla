----------------------------- MODULE ChatTurnsLog ----------------------------
(***************************************************************************)
(* ChatTurns implements TurnLog: the entries of a session are its stored   *)
(* messages in the order of their numbers.                                 *)
(***************************************************************************)
EXTENDS ChatTurns

MessageAt(s, n) == CHOOSE m \in Stored(s) : m.seq = n

EntriesOf(s) ==
    [i \in 1..(nextSeq[s] - 1) |->
        LET m == MessageAt(s, i)
        IN  [by |-> m.by, role |-> m.role, key |-> m.cid, ending |-> m.status]]

Log == INSTANCE TurnLog WITH
          Sessions <- Sids,
          Authors  <- Requests,
          Keys     <- Cids,
          NoKey    <- NoOne,
          Endings  <- Outcomes,
          live     <- {s \in Sids : owner[s] # NoOne},
          log      <- [s \in Sids |-> EntriesOf(s)],
          covered  <- [s \in Sids |-> (CHOOSE u \in Latest(s) : TRUE).covers]

\* Every run of the transactions is a run of the log: through waiting, crashes,
\* retries and deletions, a reader of committed rows sees a question with its
\* answer right behind it, or cut off, and a denied stream's answer once more.
ImplementsTurnLog == Log!Spec
=============================================================================
