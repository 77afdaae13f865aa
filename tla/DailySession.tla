---------------------------- MODULE DailySession ----------------------------
(***************************************************************************)
(* Today's session (app/services/learning/session_store.py, session.py, the  *)
(* dashboard of app/services/pages.py): composed by the first dashboard of   *)
(* the day and stored, then read back, re-pointed after a replan and stamped *)
(* as items are finished.  The list is one JSON column.                     *)
(*                                                                         *)
(* The plan's items are for one topic and activity; of what the engine adds, *)
(* a lesson and a practice block.                                           *)
(***************************************************************************)
EXTENDS Rewards

CONSTANT PlanIds    \* StudyPlanItem ids

VARIABLE plan       \* the first day's items of the study plan: "new", "PENDING", "COMPLETED", "deleted"

Today(d) == <<"session", d>>
Engine == {"LEARN", "PRACTICE"}

\* The engine's items, the plan's by the ids they point at, and those with a doneAt.
SessionRow == [there : BOOLEAN, engine : SUBSET Engine, plan : SUBSET PlanIds,
               done : SUBSET (Engine \cup PlanIds)]
NoSession == [there |-> FALSE, engine |-> {}, plan |-> {}, done |-> {}]

Live(items) == {p \in PlanIds : items[p] \in {"PENDING", "COMPLETED"}}

\* GetDashboardService reads the plan's items of the day first ...
Dashboard(w) ==
    /\ Begin(w, "dashboard",
             [plan |-> IF Day = 1 THEN plan ELSE [p \in PlanIds |-> "new"], day |-> Day],
             "compose")
    /\ UNCHANGED <<db, tx>>

\* reconcile_plan: an unfinished item whose plan item is gone follows one that no other
\* item points at, or is dropped.
Reconciled(items, live) ==
    LET kept == items.plan \cap (live \cup items.done)
        gone == items.plan \ kept
        free == live \ kept
    IN {[items EXCEPT !.plan = kept \cup follow] :
           follow \in {S \in SUBSET free :
                         Cardinality(S) = IF Cardinality(gone) < Cardinality(free)
                                          THEN Cardinality(gone) ELSE Cardinality(free)}}

LessonOn(d) ==
    \E e \in BagToSet(log) :
        e.kind \in {"LESSON_COMPLETED", "LESSON_BLOCK_COMPLETED"} /\ e.day = d

\* item_is_done, mark_done: a stamp is never taken back.
Marked(items, d, status) ==
    [items EXCEPT !.done = @ \cup {p \in items.plan : status[p] = "COMPLETED"}
                             \cup {e \in items.engine : IF e = "LEARN" THEN LessonOn(d)
                                                        ELSE AnsweredOn(d)}]

\* ... then todays_session: the stored items or composed ones, and what is to be saved.
Compose(w) ==
    /\ at[w] = "compose"
    /\ LET row == db[Today(job[w].day)]
           status == job[w].plan
           found == IF row.there THEN Reconciled(row, Live(status))
                    ELSE {[there |-> TRUE, engine |-> engine, plan |-> Live(status),
                           done |-> {}] : engine \in SUBSET Engine}
       IN \E items \in found :
             IF items.engine \cup items.plan = {} /\ ~row.there
             THEN UNCHANGED tx
             ELSE Put(w, Today(job[w].day) :> Marked(items, job[w].day, status))
    /\ Goto(w, "save")
    /\ UNCHANGED <<db, job>>

\* _save: in a savepoint of its own.
Saved(w) ==
    /\ at[w] = "save" /\ ~Flushing(w)
    /\ Goto(w, "commit")
    /\ UNCHANGED <<db, tx, job>>

\* A first dashboard that lost is logged, and shows what it composed.
SaveFails(w) ==
    /\ at[w] = "save" /\ Flushing(w)
    /\ tx' = [tx EXCEPT ![w].dirty = <<>>]
    /\ Goto(w, "commit")
    /\ UNCHANGED <<db, job>>

-----------------------------------------------------------------------------
(* The study plan (app/services/planner) *)

FinishPlanItem(p) ==
    /\ "dashboard" \in mix /\ plan[p] = "PENDING"
    /\ plan' = [plan EXCEPT ![p] = "COMPLETED"]
    /\ UNCHANGED <<db, session, mix, now, midnight, log, finished>>

\* A replan deletes what is pending and inserts anew.
Replan(p, q) ==
    /\ "dashboard" \in mix /\ plan[p] = "PENDING" /\ plan[q] = "new"
    /\ plan' = [plan EXCEPT ![p] = "deleted", ![q] = "PENDING"]
    /\ UNCHANGED <<db, session, mix, now, midnight, log, finished>>

Session(w) == Dashboard(w) \/ Compose(w) \/ Saved(w) \/ SaveFails(w)
=============================================================================
