----------------------------- MODULE StudyPlan -----------------------------
(***************************************************************************)
(* A student's study plans and their requests (app/services/planner/         *)
(* service.py): reading a plan, which replans it once a day, making one,     *)
(* changing its settings or where the class is, ticking sessions off by      *)
(* hand and after an activity.                                              *)
(*                                                                         *)
(* A replan keeps what is settled, turns past sessions to missed ones,       *)
(* deletes the rest and lays the window out again (PlanWindow).  Times are   *)
(* days.  The columns of a plan are its settings and what the last replan    *)
(* found.                                                                   *)
(***************************************************************************)
EXTENDS Requests, PlanWindow

CONSTANTS
    PlanIds,        \* 1 .. n, in the order they are made
    ItemIds,        \* 1 .. n; an id is used again once its item is deleted
    Settings,       \* ["plain", "rich" -> what a student may ask for]
    Knowledge,      \* ["plain", "rich" -> what the student may have learned: [knows, due]]
    MANUAL_LOOKBACK_DAYS, CARRY_OVER_DAYS,
    MaxDay          \* bound: days that pass

VARIABLES
    today,      \* the day in Lagos
    learned     \* what the student has learned: the same throughout

Plan(p) == <<"plan", p>>
Item(n) == <<"item", n>>
Position(p, s) == <<"position", p, s>>

Subjects == {Topics[t].subject : t \in DOMAIN Topics}
Statuses == {"PENDING", "COMPLETED", "SKIPPED", "MISSED"}
Replanning == {"get", "create", "update", "positions"}

NoSettings == [subjects |-> <<>>, scope |-> 0, target |-> 0, force |-> FALSE, days |-> {},
               weekday |-> 0, weekend |-> 0,
               timetable |-> [minutes |-> <<>>, sessions |-> {}]]
NoPlan == [there |-> FALSE, active |-> FALSE, start |-> 0, replanned |-> 0,
           unmet |-> <<>>] @@ NoSettings
NoItem == [there |-> FALSE, plan |-> 0, date |-> 0, subject |-> 0, topic |-> 0,
           activity |-> "none", minutes |-> 0, status |-> "none"]
NoPosition == [there |-> FALSE, topic |-> 0]
NothingKnown == [knows |-> [t \in DOMAIN Topics |-> [mastery |-> 0, mastered |-> FALSE,
                                                    passed |-> FALSE]],
                 due |-> {}]

NewPlan(settings, day) ==
    settings @@ [there |-> TRUE, active |-> TRUE, start |-> day, replanned |-> 0, unmet |-> <<>>]
NewItem(p, placed) == placed @@ [there |-> TRUE, plan |-> p, status |-> "PENDING"]

Richness == IF "window" \in mix THEN "rich" ELSE "plain"

-----------------------------------------------------------------------------
(* What a replan reads *)

ItemsSeen(w, p, statuses) ==
    {n \in ItemIds : LET item == See(w, Item(n))
                     IN item.there /\ item.plan = p /\ item.status \in statuses}
ByDate(seen, ids) ==
    Sorted(ids, LAMBDA m, n : Before(<<seen[m].date, m>>, <<seen[n].date, n>>))
Placed(item) == [date |-> item.date, subject |-> item.subject, minutes |-> item.minutes]

\* build_input; only topics of the plan's scope or an earlier one are revised.
InputFor(row, day, learning, positions, carry, fixed, done) ==
    [settings |-> row, today |-> day, start |-> row.start, knows |-> learning.knows,
     due |-> {t \in learning.due : Topics[t].scope <= row.scope},
     positions |-> positions, carry |-> carry, fixed |-> fixed, done |-> done]

PlanRows == {Plan(p) : p \in PlanIds} \cup {Item(n) : n \in ItemIds}
            \cup {Position(p, s) : p \in PlanIds, s \in Subjects}
NoPlans == [r \in PlanRows |-> CASE r \in {Plan(p) : p \in PlanIds} -> NoPlan
                                 [] r \in {Item(n) : n \in ItemIds} -> NoItem
                                 [] OTHER -> NoPosition]

MadeOnDay1(row, window) ==
    [r \in {Item(n) : n \in DOMAIN window.items} |-> NewItem(1, window.items[r[2]])]
    @@ (Plan(1) :> [row EXCEPT !.unmet = window.unmet, !.replanned = 1]) @@ NoPlans
\* Plans that were made on day 1; when no request makes one there is one to begin with.
PlanStarts ==
    IF mix \cap (Replanning \cup {"delete", "status", "mark"}) = {} \/ "create" \in mix
    THEN {NoPlans}
    ELSE {MadeOnDay1(NewPlan(settings, 1),
                     Layout(InputFor(NewPlan(settings, 1), 1, learned, [s \in Subjects |-> 0],
                                     <<>>, <<>>, [t \in DOMAIN Topics |-> 0])))
             : settings \in {s \in Settings[Richness] : Valid(s, 1)}}

-----------------------------------------------------------------------------
(* ReplanStudyPlanService *)

\* Mutant: the plan's row is not locked.
LockSkipped(w) ==
    /\ at[w] = "lock plan" /\ ~Flushing(w)
    /\ Goto(w, IF job[w].kind = "delete" THEN "close" ELSE "settled")
    /\ UNCHANGED <<db, tx, job>>

\* SELECT ... FOR UPDATE; the attributes of the plan stay as they were loaded.
LockPlan(w) ==
    /\ at[w] = "lock plan" /\ ~Flushing(w) /\ FreeFor(w, Plan(job[w].plan))
    /\ Write(w, Plan(job[w].plan) :> See(w, Plan(job[w].plan)))
    /\ Goto(w, IF job[w].kind = "delete" THEN "close" ELSE "settled")
    /\ UNCHANGED <<db, job>>

\* _settled_items
Settled(w) ==
    /\ at[w] = "settled"
    /\ LET seen == [n \in ItemIds |-> See(w, Item(n))]
           settled == {n \in ItemsSeen(w, job[w].plan, {"COMPLETED", "SKIPPED"}) :
                          seen[n].date >= today}
           order == ByDate(seen, settled)
       IN Keep(w, [day |-> today, fixed |-> [i \in DOMAIN order |-> Placed(seen[order[i]])]]
                  @@ job[w])
    /\ Goto(w, "clear")
    /\ UNCHANGED <<db, tx>>

PendingOf(w, p) == ItemsSeen(w, p, {"PENDING"})

\* _miss_and_clear: flushed by the next query, whatever became of the items since.  The
\* query names no order.
Clear(w) ==
    /\ at[w] = "clear"
    /\ LET seen == [n \in ItemIds |-> See(w, Item(n))]
           pending == PendingOf(w, job[w].plan)
           past == {n \in pending : seen[n].date < job[w].day}
       IN /\ Put(w, [r \in {Item(n) : n \in pending} |->
                        IF r[2] \in past THEN [See(w, r) EXCEPT !.status = "MISSED"]
                        ELSE NoItem])
          /\ \E carried \in SetToSeqs({n \in past : seen[n].topic # 0}) :
                Keep(w, [carry |-> [i \in DOMAIN carried |-> seen[carried[i]].topic]] @@ job[w])
    /\ Goto(w, "build")
    /\ UNCHANGED db

\* Ids no row has, and no request has read.
FreshItems ==
    {n \in ItemIds : /\ ~db[Item(n)].there
                     /\ \A v \in Workers : /\ Item(n) \notin Holds(v) \cup Dirty(v)
                                           /\ "items" \in DOMAIN job[v] => n \notin job[v].items}

\* build_input, plan_window and _persist_output.  What was learned may fail to load.
InputOf(w, learning) ==
    LET p == job[w].plan
        lessons(t) == Cardinality({n \in ItemsSeen(w, p, {"COMPLETED"}) :
                         See(w, Item(n)).activity = "LESSON" /\ See(w, Item(n)).topic = t})
    IN InputFor(job[w].row, job[w].day, learning, [s \in Subjects |-> See(w, Position(p, s)).topic],
                job[w].carry, job[w].fixed, [t \in DOMAIN Topics |-> lessons(t)])
Persist(w, window, ids, stamp) ==
    LET p == job[w].plan
        rows == {Item(ids[i]) : i \in DOMAIN window.items}
        placed(r) == window.items[CHOOSE i \in DOMAIN window.items : r = Item(ids[i])]
    IN /\ Len(window.items) <= Len(ids)
       /\ PutLoaded(w, [r \in rows |-> NoItem] @@ (Plan(p) :> job[w].row),
                    [r \in rows |-> NewItem(p, placed(r))]
                    @@ (Plan(p) :> [job[w].row EXCEPT !.unmet = window.unmet,
                                                      !.replanned = stamp]))
Build(w) ==
    /\ at[w] = "build" /\ ~Flushing(w)
    /\ \E learning \in {learned} \cup {k \in {NothingKnown} : "fail" \in mix},
          stamp \in {today} \cup {d \in {today - 1} : "midnight" \in mix},
          ids \in {InOrder(FreshItems)} :
          \E window \in {Layout(InputOf(w, learning))} : Persist(w, window, ids, stamp)
    /\ Goto(w, "commit")
    /\ UNCHANGED <<db, job>>

-----------------------------------------------------------------------------
(* The student's requests *)

ActivePlans == {p \in PlanIds : db[Plan(p)].there /\ db[Plan(p)].active}

\* GetStudyPlanService: the first read of a day replans.
GetPlan(w, p) ==
    /\ p \in ActivePlans /\ db[Plan(p)].replanned < today
    /\ Begin(w, "get", [plan |-> p, row |-> db[Plan(p)]], "lock plan")
    /\ UNCHANGED <<db, tx>>

\* CreateStudyPlanService: the active ones are put away.
CreatePlan(w, p, settings) ==
    /\ Valid(settings, today)
    /\ ~db[Plan(p)].there /\ \A v \in Workers : Plan(p) \notin Holds(v) \cup Dirty(v)
    /\ Begin(w, "create", [plan |-> p, row |-> NewPlan(settings, today)], "lock plan")
    /\ Put(w, [r \in {Plan(q) : q \in ActivePlans} |-> [db[r] EXCEPT !.active = FALSE]]
              @@ (Plan(p) :> NewPlan(settings, today)))
    /\ UNCHANGED db

\* UpdateStudyPlanSettingsService, of any of the student's plans; an omitted timetable
\* is kept.
UpdatePlan(w, p, settings) ==
    /\ db[Plan(p)].there
    /\ \E kept \in BOOLEAN :
          LET asked == IF kept THEN [settings EXCEPT !.timetable = db[Plan(p)].timetable]
                       ELSE settings
              row == asked @@ db[Plan(p)]
          IN /\ Valid(asked, today)
             /\ Begin(w, "update", [plan |-> p, row |-> row], "scope")
             /\ Put(w, Plan(p) :> row)
    /\ UNCHANGED db

\* _drop_positions_outside_scope
DropPositions(w) ==
    /\ at[w] = "scope" /\ ~Flushing(w)
    /\ LET p == job[w].plan
           outside == {r \in {Position(p, s) : s \in Subjects} :
                          See(w, r).there /\ Topics[See(w, r).topic].scope # job[w].row.scope}
       IN Put(w, [r \in outside |-> NoPosition])
    /\ Goto(w, "lock plan")
    /\ UNCHANGED <<db, job>>

\* SetStudyPlanPositionsService: "my class is here", or as the calendar has it.
SetPosition(w, p, s, topic) ==
    /\ p \in ActivePlans /\ s \in Range(db[Plan(p)].subjects)
    /\ topic # 0 => Topics[topic].subject = s /\ Topics[topic].scope = db[Plan(p)].scope
    /\ Begin(w, "positions", [plan |-> p, row |-> db[Plan(p)]], "lock plan")
    /\ Put(w, Position(p, s) :> [there |-> topic # 0, topic |-> topic])
    /\ UNCHANGED db

\* DeleteStudyPlanService
DeletePlan(w, p) ==
    /\ db[Plan(p)].there
    /\ Begin(w, "delete", [plan |-> p, row |-> db[Plan(p)]], "lock plan")
    /\ UNCHANGED <<db, tx>>

ClosePlan(w) ==
    /\ at[w] = "close"
    /\ PutLoaded(w, Plan(job[w].plan) :> job[w].row,
                 Plan(job[w].plan) :> [job[w].row EXCEPT !.active = FALSE])
    /\ Goto(w, "commit")
    /\ UNCHANGED <<db, job>>

\* SetStudyPlanItemStatusService
SetItemStatus(w, n, status) ==
    /\ db[Item(n)].there /\ db[Item(n)].date <= today
    /\ status \in {"COMPLETED", "SKIPPED"} => db[Item(n)].date >= today - MANUAL_LOOKBACK_DAYS
    /\ "undo" \in mix \/ status \in {"COMPLETED", "SKIPPED"}
    /\ Begin(w, "status", <<>>, "commit")
    /\ Put(w, Item(n) :> [db[Item(n)] EXCEPT !.status = status])
    /\ UNCHANGED db

\* MarkStudyPlanItemService: after an activity, whatever its subject (no caller names
\* one), the pending sessions are tried in turn ...
MarkItems(p, activity) ==
    {n \in ItemIds : LET item == db[Item(n)]
                     IN /\ item.there /\ item.plan = p /\ item.status = "PENDING"
                        /\ item.activity = activity
                        /\ item.date \in today - CARRY_OVER_DAYS .. today}
MarkItem(w, p, activity) ==
    /\ p \in ActivePlans
    /\ Begin(w, "mark", [items |-> MarkItems(p, activity)], "mark")
    /\ UNCHANGED <<db, tx>>

Markable(w, n) == See(w, Item(n)).there /\ See(w, Item(n)).status = "PENDING"

\* ... until one is still pending.
TryItem(w) ==
    /\ at[w] = "mark"
    /\ IF job[w].items = {} THEN Goto(w, "commit") /\ UNCHANGED <<tx, job>>
       ELSE \E n \in job[w].items :
               /\ \A m \in job[w].items : db[Item(n)].date <= db[Item(m)].date
               /\ FreeFor(w, Item(n))
               /\ IF Markable(w, n)
                  THEN /\ Write(w, Item(n) :> [See(w, Item(n)) EXCEPT !.status = "COMPLETED"])
                       /\ Goto(w, "commit") /\ UNCHANGED job
                  ELSE /\ Keep(w, [job[w] EXCEPT !.items = @ \ {n}])
                       /\ UNCHANGED <<tx, at>>
    /\ UNCHANGED db

Planning(w) ==
    \/ \E p \in PlanIds :
          \/ GetPlan(w, p) \/ DeletePlan(w, p)
          \/ \E settings \in Settings[Richness] :
                CreatePlan(w, p, settings) \/ UpdatePlan(w, p, settings)
          \/ \E s \in Subjects, t \in DOMAIN Topics \cup {0} : SetPosition(w, p, s, t)
    \/ \E n \in ItemIds, status \in Statuses : SetItemStatus(w, n, status)
    \/ LockPlan(w) \/ Settled(w) \/ Clear(w) \/ Build(w) \/ DropPositions(w) \/ ClosePlan(w)
    \/ TryItem(w)
=============================================================================
