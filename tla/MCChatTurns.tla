----------------------------- MODULE MCChatTurns -----------------------------
(***************************************************************************)
(* Small instances of ChatTurns.                                           *)
(***************************************************************************)
EXTENDS ChatTurnsLog, TLC

CONSTANTS r1, r2, r3, g1, u1, k1, None

\* One guest, linked to the one user.
MCLinked == g1 :> u1

Turn(kinds, callers, keys) ==
    [kind : kinds, caller : callers, session : {0, 1}, cid : keys]
Removal(callers) ==
    [kind : {"delete"}, caller : callers, session : {1}, cid : {None}]

\* turns_core: every kind of turn of a guest and a user, with retries under
\* one key, a session the user opens, and deletion by the user.
CoreSubmissions ==
    Turn({"stream"}, {g1, u1}, {None, k1}) \cup Turn({"complete"}, {g1, u1}, {k1})
    \cup Turn({"canned"}, {g1}, {k1})
    \cup [kind : {"open"}, caller : {u1}, session : {0}, cid : {None}]
    \cup Removal({u1})

\* turns_denial: a guest's turns when documents or web search are switched on.
DenialSubmissions ==
    [kind : {"complete", "stream_denial"}, caller : {g1}, session : {0},
     cid : {None, k1}]
    \cup Removal({u1})

\* turns_replay: a question, the next one, and a retry of the first.
ReplaySubmissions == Turn({"complete"}, {u1}, {None, k1})

RequestSymmetry == Permutations(Requests)
=============================================================================
