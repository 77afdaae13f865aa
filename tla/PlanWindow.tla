----------------------------- MODULE PlanWindow -----------------------------
(***************************************************************************)
(* How the study planner fills its window (app/services/planner/layout.py,   *)
(* term_plan.py): slot after slot, with the next unit of a topic, a          *)
(* revision, past questions or a mock.                                      *)
(*                                                                         *)
(* The layout's bookkeeping - what a topic has had, how often a subject was  *)
(* served this week, which revisions were taken - is read off the items it   *)
(* has placed so far.                                                       *)
(***************************************************************************)
EXTENDS PlanInput, TLC

UnitKinds == {"LESSON", "PRACTICE"}

\* plan_window: `x' is what was read; the slots that are left and who reserved them.
ByDay(window, of(_)) == FoldLeft(LAMBDA f, d : f @@ (d :> of(d)), <<>>, InOrder(window))
LaidSlots(x, window) ==
    ByDay(window, LAMBDA d :
        LET on == SelectSeq(x.fixed, LAMBDA i : i.date = d)
            wanted == Wanted(x.settings, d, on)
        IN [slots |-> Reserved(FreeOn(SlotsOn(x.settings, window, d), on), wanted),
            wanted |-> wanted])
ContextOf(x, window, laid) ==
    LET full == TotalOf(window, LAMBDA d : Len(SelectSeq(laid[d].slots, LAMBDA z : ~z.short)))
        first == {d \in window : DayBudget(x.settings, Weekday(d)) >= SHORT_SESSION_MIN}
    IN [window |-> window, laid |-> laid, queues |-> Queues(x),
        slots |-> ByDay(window, LAMBDA d : laid[d].slots),
        reserved |-> ByDay(window, LAMBDA d : {z.subject : z \in Range(laid[d].slots)} \ {0}),
        gap |-> (full * SESSION_MINUTES * GAP_FILL_PERCENT) \div 100,
        first |-> IF first = {} THEN 0 ELSE Least(first),
        runway |-> IF Mode(x.settings) = "TERM" THEN 0 ELSE Runway(x.settings, x.start)] @@ x
ContextIn(x, window) == ContextOf(x, window, LaidSlots(x, window))
Context(x) == ContextIn(x, WindowOf(x.settings, x.today))

InRunway(c, d) == c.runway # 0 /\ d >= c.runway
MockDays(c) ==
    IF c.runway = 0 THEN <<>>
    ELSE [i \in 1 .. MOCK_COUNT |->
             c.runway + ((c.settings.target - c.runway + 1) * (i - 1)) \div MOCK_COUNT]

\* share_for, in percent: 10 far from the exam, 50 near it.
Share(c, d) ==
    CASE Mode(c.settings) = "TERM" -> 0
      [] Mode(c.settings) = "EXAM" -> 100
      [] OTHER ->
           LET left == c.settings.target - d
               ramp == RAMP_START_DAYS - RAMP_END_DAYS
           IN IF left >= RAMP_START_DAYS THEN 10
              ELSE IF left <= RAMP_END_DAYS THEN 50
              ELSE 10 + (40 * (RAMP_START_DAYS - left)) \div ramp

Empty == [items |-> <<>>, unmet |-> <<>>, turn |-> 0, credit |-> 0, exams |-> 0, mocks |-> 0]
Grew(w, next) == Len(next.items) > Len(w.items)

Add(w, slot, d, subject, topic, activity) ==
    [w EXCEPT !.items = Append(@, [date |-> d, subject |-> subject, topic |-> topic,
                                   activity |-> activity, minutes |-> slot.minutes])]

ItemsOf(w, topic, kinds) ==
    {i \in DOMAIN w.items : w.items[i].topic = topic /\ w.items[i].activity \in kinds}
LessonsLeft(w, q) ==
    Cardinality({i \in DOMAIN q.units : q.units[i] = "LESSON"})
       - Cardinality(ItemsOf(w, q.topic, {"LESSON"}))
Left(w, q) ==
    SubSeq(q.units, Cardinality(ItemsOf(w, q.topic, UnitKinds)) + 1, Len(q.units))

\* allow_subject: a day has so many subjects, or as many as the student put on it.
SubjectsOn(c, w, d) ==
    {c.fixed[i].subject : i \in {i \in DOMAIN c.fixed : c.fixed[i].date = d}}
    \cup {w.items[i].subject : i \in {i \in DOMAIN w.items : w.items[i].date = d}}
Cap(c, d) == Greatest({IF Weekend(d) THEN 3 ELSE 2, Cardinality(c.reserved[d])})
Allowed(c, w, d, subject) ==
    LET chosen == SubjectsOn(c, w, d)
    IN subject \in chosen \/ Cardinality(chosen) < Cap(c, d)

-----------------------------------------------------------------------------
(* Revision *)

\* The revisions of a topic, by when they fall due: it is fading, or it has been taught
\* in this window.  Ties go by who came first.
Pool(c, w, t) ==
    LET q == {i \in DOMAIN c.queues : c.queues[i].topic = t}
        taught == ItemsOf(w, t, {"LESSON"})
        subject == CHOOSE i \in DOMAIN c.settings.subjects :
                      c.settings.subjects[i] = Topics[t].subject
    IN (IF t \in c.due THEN {<<c.first, 0, subject, t>>} ELSE {})
       \cup IF \E i \in q : taught # {} /\ LessonsLeft(w, c.queues[i]) = 0
            THEN LET last == Greatest(taught)
                 IN {<<w.items[last].date + offset, last, offset, t>> :
                       offset \in REVISION_OFFSETS}
            ELSE {}

\* Those a topic has had are gone, in their order; one topic is revised once a day.
Untaken(c, w, t) ==
    LET entries == Sorted(Pool(c, w, t), Before)
        had == Cardinality(ItemsOf(w, t, {"REVISION"}))
    IN Range(SubSeq(entries, had + 1, Len(entries)))

\* take_revision and place_revision; subject 0 is any.
Revise(c, w, slot, d, subject) ==
    LET open == {t \in DOMAIN Topics :
                    /\ subject \in {0, Topics[t].subject}
                    /\ Topics[t].subject \in Range(c.settings.subjects)
                    /\ \A i \in ItemsOf(w, t, {"REVISION"}) : w.items[i].date # d
                    /\ Allowed(c, w, d, Topics[t].subject)}
        due == {e \in UNION {Untaken(c, w, t) : t \in open} : e[1] <= d}
    IN IF due = {} THEN w
       ELSE LET e == FirstBy(due, LAMBDA f : f)
            IN Add(w, slot, d, Topics[e[4]].subject, e[4], "REVISION")

-----------------------------------------------------------------------------
(* Units *)

\* Mutant: a prerequisite that is planned counts as done.
ReadyWhenPlanned(c, w, q, d) ==
    \A p \in DOMAIN Topics : <<p, q.topic>> \in Edges =>
        \/ \E i \in DOMAIN c.queues : c.queues[i].topic = p
        \/ c.knows[p].mastery >= GATE \/ c.knows[p].passed

\* prereqs_ready: a planned prerequisite has been taught, on an earlier day.
Ready(c, w, q, d) ==
    \A p \in DOMAIN Topics : <<p, q.topic>> \in Edges =>
        LET planned == {i \in DOMAIN c.queues : c.queues[i].topic = p
                                                /\ c.queues[i].reason # "EXAM"}
        IN IF planned = {} THEN c.knows[p].mastery >= GATE \/ c.knows[p].passed
           ELSE \A i \in planned :
                   /\ LessonsLeft(w, c.queues[i]) = 0
                   /\ \A l \in ItemsOf(w, p, {"LESSON"}) : w.items[l].date < d

GapLeft(c, w) ==
    c.gap - TotalOf({i \in DOMAIN w.items :
                        /\ w.items[i].activity \in UnitKinds
                        /\ \E q \in Range(c.queues) : q.topic = w.items[i].topic
                                                      /\ q.reason = "GAP_FILL"},
                    LAMBDA i : w.items[i].minutes)

\* eligible
Eligible(c, w, slot, d, q) ==
    LET left == Left(w, q)
    IN /\ left # <<>>
       /\ Allowed(c, w, d, Topics[q.topic].subject)
       /\ q.reason = "GAP_FILL" => GapLeft(c, w) >= slot.minutes
       /\ ItemsOf(w, q.topic, UnitKinds) = {} => Ready(c, w, q, d)
       /\ left[1] = "PRACTICE" =>
             \A l \in ItemsOf(w, q.topic, {"LESSON"}) : w.items[l].date < d

\* pick_topic and place_unit: of the queues for the exam or for the term, or carried over
\* alone; what was carried over waits for a catch-up slot ahead.
Unit(c, w, slot, d, exam, only, subject) ==
    LET ahead == ~slot.catchUp /\ \E e \in c.window :
                    /\ e >= d /\ Monday(e) = Monday(d)
                    /\ \E z \in Range(c.slots[e]) : z.catchUp
        may(q) == /\ (q.reason = "EXAM") = exam
                  /\ subject \in {0, Topics[q.topic].subject}
                  /\ IF only THEN q.reason = "CARRY_OVER" ELSE q.reason # "CARRY_OVER" \/ ~ahead
                  /\ Eligible(c, w, slot, d, q)
        served(s) == Cardinality({i \in DOMAIN w.items :
                        /\ w.items[i].subject = s /\ w.items[i].activity \in UnitKinds
                        /\ Monday(w.items[i].date) = Monday(d)})
        key(i) == LET q == c.queues[i]
                      s == Topics[q.topic].subject
                  IN <<IF q.reason = "PREVIEW" THEN 1 ELSE 0, served(s), -BehindBy(c, s), s,
                       IF ItemsOf(w, q.topic, UnitKinds) = {} THEN 1 ELSE 0, i>>
        options == {i \in DOMAIN c.queues : may(c.queues[i])}
    IN IF options = {} THEN w
       ELSE LET q == c.queues[FirstBy(options, key)]
            IN Add(w, slot, d, Topics[q.topic].subject, q.topic, Left(w, q)[1])

\* place_past_questions: the plan's subjects take turns.
PastQuestions(c, w, slot, d, only) ==
    LET subjects == c.settings.subjects
        at(offset) == subjects[((w.turn + offset) % Len(subjects)) + 1]
        open == {o \in 0 .. Len(subjects) - 1 :
                    only \in {0, at(o)} /\ Allowed(c, w, d, at(o))}
    IN IF open = {} THEN w
       ELSE LET o == Least(open)
            IN Add([w EXCEPT !.turn = (w.turn + o + 1) % Len(subjects)],
                   slot, d, at(o), 0, "PAST_QUESTIONS")

-----------------------------------------------------------------------------
(* Slots: what is tried in turn until something is placed; subject 0 is any *)

Attempts(kinds, subject) == [i \in DOMAIN kinds |-> [kind |-> kinds[i], subject |-> subject]]

\* place_work: the one kind first, then the other, then any revision.  Every third session
\* for the exam is past questions; revision comes before units of the term as long as it
\* has had less than its share.
Work(c, exam, subject) ==
    LET forExam == IF Mode(c.settings) = "TERM" THEN <<>> ELSE <<"turn", "exam", "past">>
        forTerm == <<"share", "term">>
    IN Attempts((IF exam THEN forExam \o forTerm ELSE forTerm \o forExam) \o <<"revision">>,
                subject)

\* Whose turn it is, the exam's or the term's.
Turn(c, w, d) == w.credit + Share(c, d) >= 100

\* Revision has had less than its part of the week's slots so far.
RevisionOwed(c, w, slot, d) ==
    LET week == {e \in c.window : Monday(e) = Monday(d) /\ e <= d}
        full == {<<e, i>> \in week \X (1 .. 20) :
                    i \in DOMAIN c.slots[e] /\ ~c.slots[e][i].short /\ ~InRunway(c, e)}
        seen == Cardinality({k \in full : k[1] < d \/ k[2] <= slot.at})
        had == Cardinality({i \in DOMAIN w.items : w.items[i].activity = "REVISION"
                                                   /\ Monday(w.items[i].date) = Monday(d)})
    IN (had + 1) * 100 <= seen * REVISION_PERCENT

Attempt(c, w, slot, d, a) ==
    LET counted == IF a.kind = "turn" THEN [w EXCEPT !.exams = @ + 1] ELSE w
    IN CASE a.kind = "credit" ->
              [w EXCEPT !.credit = IF Turn(c, w, d) THEN @ + Share(c, d) - 100 ELSE @ + Share(c, d)]
         [] a.kind = "revision" \/ (a.kind = "share" /\ RevisionOwed(c, w, slot, d)) ->
              Revise(c, w, slot, d, a.subject)
         [] a.kind = "past" \/ (a.kind = "turn" /\ counted.exams % PAST_QUESTIONS_EVERY = 0) ->
              PastQuestions(c, counted, slot, d, a.subject)
         [] a.kind \in {"exam", "term", "carried"} ->
              Unit(c, w, slot, d, a.kind = "exam", a.kind = "carried", a.subject)
         [] OTHER -> counted
Try(c, w, slot, d, attempts) ==
    FoldLeft(LAMBDA v, a : IF Grew(w, v) THEN v ELSE Attempt(c, v, slot, d, a), w, attempts)

\* place_reserved: a pinned slot is its subject's or nobody's; a preferred one tries the
\* day's other chosen subjects, then anything.  Who was not served is reported.
Serve(c, w, slot, d) ==
    LET exam == Turn(c, w, d)
        others == IF slot.pinned THEN <<>> ELSE InOrder(c.reserved[d] \ {slot.subject})
        work == FlattenSeq([i \in 1 .. Len(others) + 1 |->
                               Work(c, exam, (<<slot.subject>> \o others)[i])])
        anything == IF slot.pinned THEN <<>> ELSE Work(c, exam, 0)
        tried == Try(c, w, slot, d, Attempts(<<"credit">>, 0) \o work \o anything)
        served == Grew(w, tried) /\ Last(tried.items).subject = slot.subject
    IN IF served THEN tried
       ELSE [tried EXCEPT !.unmet = Append(@, [date |-> d, subject |-> slot.subject])]

\* What a slot that nobody reserved is for; in the exam's runway it is revision, then
\* past questions.
ForSlot(c, w, slot, d) ==
    LET exam == Turn(c, w, d)
    IN CASE InRunway(c, d) ->
              Attempts(IF slot.short THEN <<"revision">> ELSE <<"revision", "past">>, 0)
         [] slot.short -> Attempts(<<"revision">>, 0)
         [] slot.catchUp -> Attempts(<<"carried", "revision", "credit">>, 0) \o Work(c, exam, 0)
         [] OTHER -> Attempts(<<"credit">>, 0) \o Work(c, exam, 0)

InSlot(c, w, slot, d) ==
    IF slot.subject # 0 /\ ~InRunway(c, d) THEN Serve(c, w, slot, d)
    ELSE Try(c, w, slot, d, ForSlot(c, w, slot, d))

\* In the runway a mock takes a whole day.
Mock(c, w, slots, d) ==
    LET minutes == TotalOf(DOMAIN slots, LAMBDA i : slots[i].minutes)
    IN Add([w EXCEPT !.mocks = @ + 1],
           [minutes |-> Least({MOCK_MINUTES_CAP, minutes})], d, c.settings.subjects[1], 0, "MOCK_EXAM")

OnDay(c, w, d) ==
    LET slots == [i \in DOMAIN c.slots[d] |-> c.slots[d][i] @@ [at |-> i]]
    IN IF /\ slots # <<>> /\ InRunway(c, d) /\ w.mocks < MOCK_COUNT
          /\ MockDays(c)[w.mocks + 1] <= d
       THEN Mock(c, w, slots, d)
       ELSE FoldLeft(LAMBDA v, slot : InSlot(c, v, slot, d), w, slots)

\* Sessions that found no slot are reported too; nothing is owed in the runway.
Unreserved(c) ==
    FlattenSeq([n \in 1 .. Cardinality(c.window) |->
        LET d == c.today + n - 1
            room == Len(Reservable(c.slots[d]))
        IN [i \in 1 .. Greatest({0, Len(c.laid[d].wanted) - room}) |->
              [date |-> d, subject |-> c.laid[d].wanted[room + i].subject]]])

\* layout_window: the items, and the sessions that were not served.
Filled(c) ==
    FoldLeft(LAMBDA v, d : OnDay(c, v, d), [Empty EXCEPT !.unmet = Unreserved(c)],
             InOrder(c.window))
Report(c, w) ==
    [items |-> w.items, unmet |-> SelectSeq(w.unmet, LAMBDA u : ~InRunway(c, u.date))]
LayoutOf(c) == Report(c, Filled(c))
Layout(x) == LayoutOf(Context(x))
=============================================================================
