------------------------------ MODULE PlanInput ------------------------------
(***************************************************************************)
(* What the study planner lays out (app/services/planner): the settings and  *)
(* the slots of the days ahead (mode.py, timetable.py, slots.py), and the    *)
(* topics that are due, with the work each needs (topics.py), as functions   *)
(* of what a replan has read.                                               *)
(*                                                                         *)
(* A day is a number, Day1 the weekday of day 1.  A topic is a number, and   *)
(* the numbers follow the curriculum; so does a subject.  The exam's share   *)
(* of the slots is counted in percent.                                      *)
(***************************************************************************)
EXTENDS Integers, Sequences, FiniteSets, SequencesExt

CONSTANTS
    Topics,         \* [topic -> [subject, scope, minutes, weight]]; a scope is one of nine terms
    Edges,          \* prerequisites, pairs of topics
    HOME,           \* the class of the student
    TERM_NOW, WEEK, WEEKS,  \* the school calendar: the term that runs, its week, of how many
                            \* (one more in the holiday after it)
    Day1, WINDOW_DAYS, RUNWAY_MIN_DAYS, RUNWAY_MAX_DAYS, REVISION_OFFSETS,
    RAMP_START_DAYS, RAMP_END_DAYS

SESSION_MINUTES == 30
SHORT_SESSION_MIN == 15
MOCK_COUNT == 2
MOCK_MINUTES_CAP == 180
PAST_QUESTIONS_EVERY == 3
GAP_FILL_PERCENT == 20
REVISION_PERCENT == 20
GATE == 60
WEAK_MASTERY == 50

Least(S) == CHOOSE m \in S : \A n \in S : m <= n
Greatest(S) == CHOOSE m \in S : \A n \in S : m >= n
\* A set in a strict order.
Sorted(S, before(_, _)) == SortSeq(FoldSet(LAMBDA x, seq : Append(seq, x), <<>>, S), before)
InOrder(S) == Sorted(S, LAMBDA m, n : m < n)
TotalOf(S, f(_)) == FoldSet(LAMBDA i, sum : f(i) + sum, 0, S)

\* The first by a tuple of numbers.
Before(a, b) == \E i \in DOMAIN a : a[i] < b[i] /\ \A j \in 1 .. i - 1 : a[j] = b[j]
FirstBy(S, key(_)) == CHOOSE x \in S : \A y \in S \ {x} : Before(key(x), key(y))

-----------------------------------------------------------------------------
(* Settings and slots (mode.py, slots.py, timetable.py) *)

Weekday(d) == ((Day1 + d - 2) % 7) + 1
Monday(d) == d - Weekday(d) + 1
Weekend(d) == Weekday(d) >= 6
Class(scope) == scope \div 3

Mode(s) == IF Class(s.scope) # 2 \/ s.target = 0 THEN "TERM"
           ELSE IF s.force THEN "EXAM" ELSE "BLENDED"

DayBudget(s, weekday) ==
    IF weekday \notin s.days THEN 0
    ELSE IF weekday \in DOMAIN s.timetable.minutes THEN s.timetable.minutes[weekday]
    ELSE IF weekday >= 6 THEN s.weekend ELSE s.weekday

\* plan_settings_problem, timetable_issues: what create and update refuse.
Valid(s, today) ==
    /\ s.target # 0 => Class(s.scope) = 2 /\ s.target > today
    /\ s.force => s.target # 0
    /\ \E day \in s.days : DayBudget(s, day) >= SESSION_MINUTES
    /\ DOMAIN s.timetable.minutes \subseteq s.days
    /\ \A a \in s.timetable.sessions : a.day \in s.days /\ a.subject \in Range(s.subjects)
    /\ \A day \in s.days :
          TotalOf({a \in s.timetable.sessions : a.day = day}, LAMBDA a : a.sessions)
             <= DayBudget(s, day) \div SESSION_MINUTES

Runway(s, start) ==
    LET total == Greatest({1, s.target - start + 1})
        days == Least({RUNWAY_MAX_DAYS, total,
                       Greatest({RUNWAY_MIN_DAYS, (total + 2) \div 5})})
    IN s.target - days + 1

WindowOf(s, today) ==
    today .. today - 1 + (IF Mode(s) = "TERM" THEN WINDOW_DAYS
                          ELSE Greatest({0, Least({WINDOW_DAYS, s.target - today + 1})}))

\* build_slots; a week's catch-up slot is the first of its last day with a full one.
FullOn(s, d) == DayBudget(s, Weekday(d)) \div SESSION_MINUTES
CatchUpDays(s, window) ==
    {d \in window : FullOn(s, d) > 0 /\ \A e \in window : Monday(e) = Monday(d) /\ e > d
                                                            => FullOn(s, e) = 0}
SlotsOn(s, window, d) ==
    LET rest == DayBudget(s, Weekday(d)) % SESSION_MINUTES
        slot == [minutes |-> SESSION_MINUTES, short |-> FALSE, catchUp |-> FALSE,
                 subject |-> 0, pinned |-> FALSE]
    IN [i \in 1 .. FullOn(s, d) |->
           [slot EXCEPT !.catchUp = i = 1 /\ d \in CatchUpDays(s, window)]]
       \o IF rest >= SHORT_SESSION_MIN
          THEN <<[slot EXCEPT !.minutes = rest, !.short = TRUE]>> ELSE <<>>

\* _free_days: what is settled keeps its time, the last slots of its kind first.
WithoutOne(slots, short) ==
    LET same == {i \in DOMAIN slots : slots[i].short = short}
    IN IF slots = <<>> THEN slots
       ELSE RemoveAt(slots, Greatest(IF same = {} THEN DOMAIN slots ELSE same))
FreeOn(slots, settled) ==
    FoldLeft(LAMBDA free, item :
                FoldLeft(LAMBDA left, i : WithoutOne(left, item.minutes < SESSION_MINUTES), free,
                         [i \in 1 .. Greatest({1, item.minutes \div SESSION_MINUTES}) |-> i]),
             slots, settled)

\* reserve_slots, for one day: the subjects in the order they reserve, pinned ones first;
\* what settled work has served is not reserved again.
Wanted(s, d, settled) ==
    LET rows == {a \in s.timetable.sessions : a.day = Weekday(d)}
        served(a) == TotalOf({i \in DOMAIN settled : settled[i].subject = a.subject},
                             LAMBDA i : settled[i].minutes \div SESSION_MINUTES)
        pinnedFirst == Sorted(rows, LAMBDA a, b :
                          Before(<<IF a.pinned THEN 0 ELSE 1, a.subject>>,
                                 <<IF b.pinned THEN 0 ELSE 1, b.subject>>))
    IN FlattenSeq([i \in DOMAIN pinnedFirst |->
           [n \in 1 .. Greatest({0, pinnedFirst[i].sessions - served(pinnedFirst[i])})
               |-> pinnedFirst[i]]])
\* Full slots in the order they are reserved: the catch-up slot last.
Reservable(slots) ==
    InOrder({i \in DOMAIN slots : ~slots[i].short /\ ~slots[i].catchUp})
    \o InOrder({i \in DOMAIN slots : ~slots[i].short /\ slots[i].catchUp})
Reserved(slots, wanted) ==
    LET order == Reservable(slots)
    IN [i \in DOMAIN slots |->
          IF \E n \in DOMAIN wanted \cap DOMAIN order : order[n] = i
          THEN LET a == wanted[CHOOSE n \in DOMAIN order : order[n] = i]
               IN [slots[i] EXCEPT !.subject = a.subject, !.pinned = a.pinned, !.catchUp = FALSE]
          ELSE slots[i]]

-----------------------------------------------------------------------------
(* Topics (topics.py) *)

TopicsOf(subject, scopes) ==
    {t \in DOMAIN Topics : Topics[t].subject = subject /\ Topics[t].scope \in scopes}

\* _locate: the position the student gave, or where the calendar is.
ClassIndex(s, term, position) ==
    LET count == Len(term)
    IN IF position \in Range(term) THEN CHOOSE i \in DOMAIN term : term[i] = position
       ELSE IF term = <<>> THEN 0
       ELSE IF Class(s.scope) = HOME /\ s.scope % 3 = TERM_NOW
       THEN 1 + Least({count - 1, ((WEEK - 1) * count) \div WEEKS})
       ELSE 1

\* _gaps_for: unmet prerequisites of earlier terms, foundations first.
RECURSIVE Visit(_, _, _, _)
Visit(found, t, earlier, met) ==
    FoldLeft(LAMBDA acc, q :
                IF q \in acc.visited THEN acc
                ELSE LET seen == [acc EXCEPT !.visited = @ \cup {q}]
                     IN IF q \notin earlier \/ q \in met THEN seen
                        ELSE LET below == Visit(seen, q, earlier, met)
                             IN [below EXCEPT !.out = Append(@, q)],
             found, InOrder({q \in DOMAIN Topics : <<q, t>> \in Edges}))
Gaps(t, earlier, met) == Visit([visited |-> {}, out |-> <<>>], t, earlier, met).out

FirstOnly(candidates) ==
    FoldLeft(LAMBDA kept, c : IF \E i \in DOMAIN kept : kept[i].topic = c.topic
                              THEN kept ELSE Append(kept, c),
             <<>>, candidates)
Because(reason, topics) == [i \in DOMAIN topics |-> [topic |-> topics[i], reason |-> reason]]

Unmastered(x, topics) == SelectSeq(topics, LAMBDA t : ~x.knows[t].mastered)

\* select_term_topics, of one subject.
TermCandidates(x, subject) ==
    LET s == x.settings
        term == InOrder(TopicsOf(subject, {s.scope}))
        earlier == TopicsOf(subject, 0 .. s.scope - 1)
        index == ClassIndex(s, term, x.positions[subject])
        current == Unmastered(x, IF index = 0 THEN <<>> ELSE <<term[index]>>)
        behind == Unmastered(x, SubSeq(term, 1, index - 1))
        met == {t \in earlier : x.knows[t].mastery >= GATE \/ x.knows[t].passed}
        gaps == FlattenSeq([i \in 1 .. Len(current \o behind) |->
                              Gaps((current \o behind)[i], earlier, met)])
        carried == SelectSeq(x.carry, LAMBDA t : t \in earlier \cup Range(term))
    IN FirstOnly(
          Because("CARRY_OVER", Unmastered(x, carried))
          \o IF Mode(s) = "EXAM" THEN <<>>
             ELSE Because("GAP_FILL", gaps) \o Because("CURRENT", current)
                  \o Because("CATCH_UP", behind)
                  \o Because("PREVIEW", Unmastered(x, IF index < Len(term) THEN <<term[index + 1]>> ELSE <<>>)))

BehindBy(x, subject) ==
    LET term == InOrder(TopicsOf(subject, {x.settings.scope}))
        index == ClassIndex(x.settings, term, x.positions[subject])
        open == {i \in DOMAIN term : ~x.knows[term[i]].mastered}
    IN IF open = {} THEN 0 ELSE Greatest({0, index - Least(open)})

\* select_exam_topics
ExamCandidates(x) ==
    LET s == x.settings
        topics == {t \in DOMAIN Topics : /\ Topics[t].subject \in Range(s.subjects)
                                         /\ Class(Topics[t].scope) <= Class(s.scope)
                                         /\ ~x.knows[t].mastered}
        key(t) == <<-Topics[t].weight, x.knows[t].mastery, t>>
    IN IF Mode(s) = "TERM" THEN <<>>
       ELSE Because("EXAM", Sorted(topics, LAMBDA a, b : Before(key(a), key(b))))

\* add_queue: the units of work a topic still needs.  Lessons the student finished in
\* this plan are not taught again.
Lessons(x, t) ==
    IF x.knows[t].passed THEN 0
    ELSE Greatest({0, Greatest({1, (Topics[t].minutes + SESSION_MINUTES - 1) \div SESSION_MINUTES})
                      - x.done[t]})
Units(x, c) ==
    IF c.reason = "EXAM" THEN <<"PRACTICE">>
    ELSE [i \in 1 .. Lessons(x, c.topic) |-> "LESSON"]
         \o [i \in 1 .. (IF x.knows[c.topic].mastery < WEAK_MASTERY THEN 2 ELSE 1) |-> "PRACTICE"]
Queues(x) ==
    LET all == FirstOnly(FlattenSeq([i \in DOMAIN x.settings.subjects |->
                                       TermCandidates(x, x.settings.subjects[i])])
                         \o ExamCandidates(x))
    IN FoldLeft(LAMBDA queues, c : Append(queues, [topic |-> c.topic, reason |-> c.reason,
                                                   units |-> Units(x, c)]), <<>>, all)
=============================================================================
