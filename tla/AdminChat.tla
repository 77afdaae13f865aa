----------------------------- MODULE AdminChat ------------------------------
(***************************************************************************)
(* The admin assistant's service (app/ai/admin/service.py).  It repeats the  *)
(* tutor's on a table and a hub of its own, with three differences: a        *)
(* message answered within its request is refused while a reply runs, an     *)
(* empty reply falls back on an earlier text instead of a second run of the  *)
(* graph, and no stream makes its thread.                                  *)
(***************************************************************************)
EXTENDS Chat

AdminPost(r, p) == Post(r, p, Rejected(p))
AdminStart(r, p) == Check(r, p)

\* _last_assistant_text, or "I couldn't put that into a reply."
LastText(r) == [live[r] EXCEPT !.at = "commit", !.ending = "answer"]
AdminConclude(r) == Conclude(r, LastText(r))

AdminDelete == Delete
AdminLook(p) == Look(p)
AdminStop(p, stream) == Stop(p, stream)
AdminJoin(p, r) == Join(p, r)
AdminResume(p, approved) == Resume(p, approved)

Admin ==
    \/ AdminDelete
    \/ \E p \in Procs : \/ AdminLook(p)
                        \/ \E approved \in BOOLEAN : AdminResume(p, approved)
                        \/ \E stream \in Runs \cup {AnyRun} : AdminStop(p, stream)
    \/ \E r \in Runs : \/ AdminConclude(r)
                      \/ \E p \in Procs : AdminStart(r, p) \/ AdminPost(r, p) \/ AdminJoin(p, r)

Next == Shared \/ ("tutor" \in mix /\ Tutor) \/ ("admin" \in mix /\ Admin)

-----------------------------------------------------------------------------

\* A producer, a decision and a follower go on, and time passes; requests are not
\* owed to anyone.
Fairness ==
    /\ \A r \in Runs : WF_vars(Spawn(r) \/ Produce(r) \/ Conclude(r, Again(r)) \/ AdminConclude(r))
    /\ \A p \in Procs : WF_vars(Proceed(p) \/ Settle(p) \/ FailResume(p)) /\ WF_vars(Materialise(p))
    /\ WF_vars(Follow) /\ WF_vars(Poll) /\ WF_vars(Age(FALSE) /\ Time)
Spec == Init /\ [][Next]_vars /\ Fairness

\* Whatever was begun comes to an end: a run by its end, a refusal or its process's
\* death, a decision, a client's stream; and a row that says a run is going on either
\* says so no more or is known to be stale, so that nobody is refused for ever.
ComesToRest ==
    /\ \A r \in Runs : live[r].at # "unused" ~> Over(r)
    /\ \A p \in Procs : resume[p].at # "idle" ~> resume[p].at = "idle"
    /\ rider.at \in {"live", "poll"} ~> rider.at \in {"ended", "broken"}
    /\ row.status = "running" ~> row.status # "running" \/ IsStale
=============================================================================
