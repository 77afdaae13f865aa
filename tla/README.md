# ScholarScrib backend: TLA+ models, checks and proofs

ScholarScrib is a FastAPI service over PostgreSQL and Redis. Students take
quizzes, mocks, past papers and pretests; every graded answer feeds a ledger of
learning events from which mastery, plans, XP and reviews are derived; Paystack
payments unlock tiers; cron jobs push announcements. This directory holds TLA+
models of the parts whose correctness depends on what runs at the same time, the
TLC runs that check them and the TLAPS proofs of what matters most.

Paths below are relative to the repository root (`src/` here).

## 1. The system

### Execution model

* One process may run many requests at once (asyncio), and several processes may
  run. A request is one transaction (`app/database/db.py:58-65`): commit after
  the handler and before the response, rollback on any exception. Background
  work uses its own session. PostgreSQL runs at READ COMMITTED.
* An attribute assigned on an ORM object becomes an unguarded `UPDATE ... WHERE
  pk = ...` of the *changed* columns at the flush. `update_where`
  (`app/database/repositories/base.py:370-381`) is a guarded UPDATE whose
  rowcount tells who won. `lock` (`base.py:358-363`) is `SELECT ... FOR UPDATE`.
* So the hazards are those of read-then-write: state read, another request
  commits, the write lands on what is no longer there.

### Components

| Component | State | Operations | Hard part | What makes it correct |
|---|---|---|---|---|
| Assessment attempts (`services/assessments`) | attempts, responses, events | generate/resume, reap, submit, pretest grading, past paper pages | submits, timeouts and generates of one attempt race; row locks and deadlocks | one outcome per attempt, evidence written once and agreeing with it |
| Learning evidence (`services/learning`) | append-only event ledger, one `TopicMastery` row per topic | append, attribute, fold on read | fold and persist race; events appear late or below the cursor | each event weighed once |
| Billing (`services/billing`) | subscriptions, Paystack events, `User.tier` | checkout, callback, webhook, comp, revoke, tier refresh | redelivery, callback against webhook, concurrent settlements | a paid charge is granted once, terms stack, tier follows the live rows |
| Practice exit (`services/practice_exit.py`) | checkpoint JSON | start, complete | JSON read-modify-write from two tabs | the open marker is the attempt that counts |
| Provider papers (`services/provider`) | Redis cache and fill lock, `ProviderFetch` leases | fill, publish, wait, ingest | lock expiry, unfenced publish | one filler at a time, no partial paper served |
| Push (`services/push.py`) | announcements, deliveries, reminder logs | drain, expire, remind | crash after send, cancellation during a drain | each delivery ends once |
| Auth and devices (`services/auth`) | devices, tokens, rate limits | login, reset, revoke | device cap, token reuse | at most two devices for paid tiers |
| Gamification | XP ledger | award, quests | caps counted before the award | one award per key |
| Daily session, SRS, planner | session, reviews, plan | build, review, replan | conflicting inserts, plan lock | one session per day, one plan item outcome |
| AI tutor and assistant (`app/ai`) | threads, run records, stop tokens, checkpoints | message, stop, approve, follow | processes that share a thread; dead runs; decisions over four stores | one reply to a message, an action once and as decided |
| Console (`services/console.py`, `admin.py`, `catalogue.py`) | subjects, levels, topics, lessons, questions, terms; audit rows; a cached subject list | create, change, delete, import, list | checks on rows that nothing locks; cascades; the cache dropped before the commit | references and keys stay, what is gone is audited |

The hazards, each at its line, are in `PROJECT.json` ("hazards").

## 2. Modules

Each module's header says which files it translates; `PROJECT.json` "map" gives
the lines of every definition. Definitions whose comment begins with "Mutant"
are wrong on purpose: they are the plausible bugs each property is known to catch
and are used by nothing else.

### Attempts, AttemptLedger, MCAttempts, Attempts_proofs

`Attempts` models one student's attempts and the concurrent requests that move
them. A request is a record: where it is, its target, the stale attempts still to
time out (`todo`) and the rows it has updated and not committed (`wrote`).

| Code | Action |
|---|---|
| `reap_stale` then `_resume`, `_select_questions`, `_persist` (`service.py:127-160, 287-317, 377-480, 223-284`) | `Generate`, `Reap`, `Resume`, `Pick`, `Create`, `NoQuestions` |
| start of a pretest or scoped mock | `StartPaper` |
| `/submit`: load, guarded UPDATE, events and responses, or refresh and replay (`service.py:483-700`) | `Submit`, `Grade`, `GradeLost`, `CommitGrade` |
| pretest grading (`service.py:1043-1153`) | `LoadPretest`, `WritePretest`, `CommitPretest` |
| exception, crash, lost connection | `Rollback`; a deadlock's victim: `BreakDeadlock` |

`AttemptLedger` is the abstract promise: a paper is opened, goes late, and is
graded or abandoned in one step, with its evidence. `Attempts` implements it
(`ImplementsLedger`, `Ledger == INSTANCE AttemptLedger WITH ...`) for the papers
`/submit` grades; pretests are outside because the code does not guard them.

Run: `attempts_races` (two requests over a quiz, a past paper and a pretest;
two requests suffice because every guard compares one request with the rows
others hold). A scoped mock is started like a pretest and submitted like a quiz.

`OutcomesRight` is three invariants in one (`EvidenceMatchesStatus`,
`EvidenceAtMostOnce`, `AnswersHold`). `NobodyStuck` says that of any requests under
way one can go on, or waits for a row of another: reapers lock rows in any order, and a
deadlock is broken by the database (`BreakDeadlock`). It is about ENABLED, so TLC
alone checks it.

Proved in `Attempts_proofs`, for all finite sets of attempts and requests: type
correctness, `OutcomesRight` and its three parts, both action properties, and the
refinement. The inductive invariant adds what the transactions rely on: at most
one request holds an attempt's lock (`RowLocks`), a locked attempt is still
IN_PROGRESS as committed (`ClaimedOpen`), an open attempt has no evidence yet
(`OpenIsClean`). Without `RowLocks` two transactions could both write the
evidence of one attempt at commit; without `ClaimedOpen` the commit of one could
overwrite a terminal status.

`attempts_races` needs a pretest beside the quizzes because `_resume` can hand out
an open pretest; the properties speak of the papers `/submit` grades.

### MasteryFold, MCMasteryFold

One `TopicMastery` row of one student. An event's `seq` is drawn at INSERT and
the event is visible at COMMIT (`Append`, `CommitAppend`, `RollbackAppend`);
attribution gives an event its topic later (`Attribute`). A page read loads the
row, then the events, folds them (`Load`, `Fold`), and writes the row back
(`FetchRow`, `Persist`) or fails to (`Forget`). `Merge` is the UPDATE of the
columns that differ from the loaded ones: decay changes the mass of every
non-empty channel on every read, the other columns only when an event was folded.
`Deploy` is a release with a new `SCORING_VERSION`.

A sum is abstracted to how often each event is in it (0, 1, 2: two is enough to
see a double count). Weights, decay factors and the scores computed from the sums
are left out.

Run: `fold_reads`, one reader at a time. `orderly` behaviours (events committed in
order and mapped when appended) have exact sums and a cursor that only moves forward;
in the others (two writers at once, late attribution, abandons) no event is ever
weighed twice. `MaxSeq` = 4 events are enough to have one on each side of a cursor,
a gap, a rolled back append and a late one, with two folds and a release.

Proved in `MasteryFold_proofs`, for any number of events, kinds and writers: the types
with any number of readers (`FoldTyped`); with one reader (`OneReader`, the hypothesis
of these two theorems) `FoldExact` and `CursorForward`. The hypothesis is needed: with
two readers `SumsMatchCursor` fails (section 3). The invariant, `IInv`, adds to the
property what a read in progress holds: every sum counts an event at most once and none
beyond the cursor (`Clean`); in an orderly ledger the cursor is a visible scored event
and the sums are those up to it (`Exact`); the event being appended is the last
(`LedgerSound`); and the reader's copy of the row is the stored one (`ReadSound`), so
that `Merge` writes exactly what was folded (`MergeIsNew`). `FoldEffect` says what
`FoldEvents` returns: the new sums and the cursor, the greatest of the old one and the
scored new events. TLC checked `IInv` on the constants of `fold_reads` first.

### Billing, MCBilling

The subscriptions of one student. Each request in progress is a record with the
row it is about, Paystack's answer, the rows it has written (`dirty`, whose locks
it holds) and the `User.tier` it will write. `View` is what its statements see.

| Code | Action |
|---|---|
| `CheckoutService` (`billing/service.py:27-102`) | `Checkout` (abandon and insert), `Initialize`, `Commit` |
| callback, webhook routes (`api/student/billing.py:39-90`) | `Callback`, `Webhook`, `Verify`, `Commit`, `Rollback` |
| `ApplyChargeSuccessService` (`service.py:166-221`) | `Decide`, `Fail`, `Quote`, `Apply`, `Resolve` |
| admin tier route (`services/admin.py:332-371`) | `Comp`, `Quote`, `InsertComp`, `Revoke`, `RevokeActive`, `Resolve` |
| sign-in | `Login`, `Resolve` |
| Paystack (external) | `Pay`, `Decline`, and redelivery: `Webhook` may start at any time after a success |

Months are the unit of time; a request that has read the clock commits in the
same month (the code's requests last seconds). Amount and currency are one flag,
whether they are the row's.

Runs: `billing_settlement` (two concurrent requests, two references, all
interleavings and failures) and `billing_serial` (three references, so that a third
term must stack on a future one; two tiers; a month passes).

Fairness, for `PaidSettles` in `billing_settlement`: a request goes on or fails
(weak), Paystack delivers an event again until it is answered 200 (strong, per
reference), and deliveries do not fail for ever.

Proved in `Billing_proofs`, for any references, requests, tiers, terms and months, from
`BillingAssumption` alone: the types, `ChargesSettle` and `TermFixed`, whatever races.
Neither is inductive; `IInv` says of each request (`Sound`) where its operation can be
and which rows it has written (`Shape`), that no two requests hold one row's lock
(`Free`), what the committed status of the written rows still is (`Claim`), that a row
being made exists nowhere yet (`Making`), that a successful answer is still Paystack's
(`Knows`), and that a webhook reaches its commit without a write only when nothing is
left to grant (`Delivers`). `ChargesHaveRows` and `EndsBounded` tie the rows to the
charges and give `Max` in `TermStart` a greatest element. `Commit` and `Fail` share one
lemma about publishing written rows (`CommitKeepsIInv`). With one request at a time
(`OneAtATime`) also `TermsDisjoint` and `TierFollowsRows`, from `SerialInv`: a quoted
start lies after every active end, and the tier loaded is the one stored. Both fail
with two requests (section 3), so the hypothesis is part of the theorems.

### PaperCache, MCPaperCache, PaperCache_proofs

One provider paper in Redis (`services/provider/cache.py`): the hash (`paper`), the
fill lock (`lock`) and the requests that read, fill or wait for it. Each await is a
step.

| Code (`cache.py`) | Action |
|---|---|
| first read (242-244) | `Start`, `Read` |
| `SET NX EX` (246-256) | `Acquire`; the reply is lost: `AcquireLost` |
| second read under the lock (259-261) | `Reread` |
| loader and merge of a sampled pool (262-290) | `Load`, with `Fetched`, `Merged` |
| publish script | `Publish`; release script in `finally`: `Release` |
| waiters (297-315) | `Poll`, `Check` |
| `PaperCacheError`, a process that stops | `Outage`, `Crash` |
| key expiry and eviction | `LockExpires`, `PaperExpires` |

A page walk is up to twenty HTTP calls of up to thirty seconds between two bytes,
so the ten minutes of the lock may pass under its holder: `LockExpires` may happen
at any time, and `overran` records that it happened to a live fill. Nothing fences
the publish script, so the properties about one filler hold *until* that happens;
`OthersKeepTheLock` holds always. Enrichment (`enrich_sample`) is a parameter of
`EnsureProviderQuestionsService` and of `get_or_fill_paper`; no route passes it today.

Run: `cache_fill` (two requests, two questions, sampled batches; two requests make
every race of the lock, two questions make a merge lose or keep one; one poll is
enough to wait, look and give up). Fairness: a request goes on (weak).
Nothing is assumed of key expiry: a waiter is answered even if a lock nobody will
release stays for ever.

Proved in `PaperCache_proofs`, for any requests and questions: type correctness,
`OneFiller`, `SnapshotCurrent`, `PoolGrows`, `OthersKeepTheLock`. The inductive
invariant adds `Held` (a filler holds the lock until a lock expires under its
holder), which excludes a second filler, and `Extends` (a publication contains the
pool it was merged with); without `Held` nothing stops a publication between the
second look and the merge.

### OrmSession

What every request does to the database, for the modules below: an SQLAlchemy session
over PostgreSQL at READ COMMITTED. A row is a record of columns; a session holds the
rows it has locked with their values (`own`) and the assignments it has not flushed
(`dirty`, with the values loaded before). A flush writes, row by row, the columns that
differ from the loaded ones: an assignment that changes nothing writes nothing, and a
column another transaction has committed in between survives unless it was assigned.
Module by module, every query flushes first (autoflush), as in the code.

### ProviderBank, MCProviderBank

One paper of the question provider: the fetch row (`ProviderFetch`: status, lease,
checkpoint, promoted count), the circuit (`ProviderState`), the staged items, and a
student's past-paper attempt with its questions. `job` is what a request has loaded:
the fetch row comes from SQLAlchemy's identity map and is not read again.

| Code | Action |
|---|---|
| `AdvanceProviderBankPageService`, scheduled by each visit | `Visit`, `CheckCircuit`, `Search` or `NoAnswer`, `GetRow`, `Store`, `PageStored` |
| `EnsureProviderQuestionsService` (no route calls it today) | `Visit`, `CheckCircuit`, `Draw`, `Store`, `AllStored` |
| backfill: clear, reset, `SaturateProviderService` | `Backfill`, `NextPage`, and a visit's steps in one transaction |
| `SyncJambPaperService` for one subject | `Sync`, `GetRow`, `Walk`, `Store`, `AllStored` |
| `StartPastPaperService`, `ContinuePastPaperService` | `Start` or `Continue`, a page's steps, `Append` or `NotFound` |
| unique keys, savepoints | `Flush` and `Store`: an insert waits for another session's, then fails or adopts |

Run `bank_paper`: two requests at a time over a paper of three pages of one item, the
second rejected by the mapper (three pages, so that a stale request can fall two pages
behind and a retried page can be skipped for the next). `Mixes` lists which kinds of
requests meet in a behaviour: a visit meets the other bank requests and a student who starts,
two students' requests meet, and a student meets a sync; the proofs are for any mix. Deadlock is off: when
the paper is in and the attempt submitted nothing need happen. `PaperComes` assumes that
visits recur (every page view schedules one), that leases and cooldowns run out, and
that failures and silence of the provider end at some point.

What the flush of the lease does matters more than the lease: a visit's lease is
released in the transaction that took it, so others never see it unless the provider
gave no answer; the row lock it takes is what `OneAsksAtATime` rests on. A visit that
waited for that lock goes on with the cursor it had read before, so the checkpoint may
move backwards and a page may be fetched twice; `NoPageMissed` says that none is skipped.

Proved in `ProviderBank_proofs`, for any requests, pages, items, rejections and mixes:
`TypeOK`, `BankSafe` and its part `PaperWhole`. Assumed (`BankAssumption`): what the rows are, that the
items are finitely many and each is on one of the pages, and that a mix holds kinds of
requests. The three are not inductive: a checkpoint or a page is committed that was worked
out from rows loaded long before. `IInv` (TLC: 735,092 states, over mixes in which
a visit meets every other kind, and a sync or a backfill a student) says of every transaction `w`:

* `Session`, `Stepwise`: rows it holds or has assigned are of their table; its step belongs
  to its kind; a bank request that asks the provider holds the fetch row, and no two
  transactions hold the same row (`Locks`), which gives `OneAsksAtATime`.
* `Stages`: the items it has staged are new, and its questions are of exactly these, so a
  commit gives no item a second question.
* `Fetches`: the fetch row as loaded, as written and as assigned passes over no item and
  counts no question but those stored or staged by itself (`Fits`). Stored items never
  vanish, so a copy fits however old it is, and a stale cursor may move the
  checkpoint back but not past a page. Columns are written one by one, so the row that a
  flush makes may be nobody's copy; each of its columns fits all the same (`FitsAlso`).
* `Pageful`: of the page in hand, or of a complete walk, what is not yet stored is left to
  store; `Advanced` and `AllStored` may then pass over it.
* `Sits`, `Appends`: a student's request knows a paper that had every page before its own
  and adds the rest of its page, in the places that follow. Of two that append the same
  page the second finds the first one's row and fails as a whole: the page is not empty, so
  they have a row in common.

`Paper` says the same of the stored rows: the paper holds whole pages, in order, and a page
given to the student to ask for follows them. That the places have no gap is a count: the
ranks of the added items are the numbers below how many they are, an injection between
two finite sets of one size.

### Push, MCPush

Announcements, their deliveries, the subscriptions and the reminder log
(`services/push.py`, `services/console.py:1085-1213`, `repositories/notification.py`),
on the sessions of `OrmSession`. A worker is a drain, a reminder run or the
administrator's request; `todo` is what it has still to go through, `pushed` counts the
pushes the service accepted and remembers those of rolled back transactions as not sent.

| Code | Action |
|---|---|
| `CreateAnnouncementService`: the announcement with a delivery per subscription | `Create` |
| `CancelAnnouncementService` | `Cancel`, `CancelPending`, `Commit` |
| `DrainPushService`: expire, claim (SKIP LOCKED), deliver, complete | `Drain`, `Expire`, `Claim`, `Deliver`, `Finish`, `Complete` |
| `_apply` | `Outcome` |
| `SendRemindersService` with the log's ON CONFLICT DO NOTHING | `Remind`, `RemindOne` |
| subscription removed by its owner | `Unsubscribe` |

Each student has one subscription, so `Subs` also stands for students. The send is a
blocking call inside the transaction; the claim of 100 and the forty seconds are
abstracted to "some of the claimed deliveries are left" (`Finish`). `claimed_at` is never
committed beside PENDING, so the reclaim after five minutes has nothing to reclaim and
is left out. Retries and failure limits are 2 instead of 3 and 5: one attempt below the
limit and one at it.

Run `push_drains`: one announcement, two subscriptions, two workers. `Mixes` lists what
meets the drains in a behaviour (a cancel, an expiry, reminders, an unsubscription,
retryable failures), one at a time. Fairness: cron starts drains again and again, a
transaction ends, work is not lost for ever, and a claimed delivery is not always cut
off by the forty seconds (`AnnouncementsEnd`). "Lost" (`Failure`) excludes a rollback
with nothing to lose: that would be a commit.

Proved in `Push_proofs`, for any workers, announcements, students, limits and mixes:
`TypeOK`, `PushSafe` and `NoPushAfterEnd`. Assumed (`PushAssumption`): rows of different
tables are different, the subscriptions are finitely many (they are counted), and both
limits are at least one. None of the four parts of `PushSafe` is inductive, for each
depends on what the open transactions will still write. `IInv` (checked by TLC on 210,506
states with two subscriptions and 509,102 with two announcements, before it was proved)
says of every transaction `w`:

* `Session`, `Working`: it holds and has assigned values of the right table, and works on
  announcements that exist and on deliveries it has claimed and not yet answered.
* `HeldPairs`: a delivery it holds is cancelled or still PENDING for everyone else; one it
  has assigned was PENDING when loaded, and is either cancelled or one it holds. So a
  cancel may overwrite, and nothing else can.
* `Closes`: if it has ended an announcement, it has ended each delivery that is PENDING as
  committed. At the commit this gives `NothingStranded`; a creation cannot break it,
  because only an announcement that does not exist yet is created.
* `SendsPending`: what it has sent is PENDING as committed and was pushed once (`Pushes`:
  what was pushed has ended or is in some open transaction). As no two transactions hold
  the same row (`Locks`), this gives `PushedOnce` and `NoPushAfterEnd`.
* `CountsSent`: the count it will write is at most the number of deliveries it has sent or
  others have committed as sent (`Told`, `Kept`). The lost increment of two drains keeps
  the bound and breaks equality.

`LocalKeeps` handles the steps that change one session, `StageKeeps` those that assign to
loaded rows, `OthersKeep` what a commit, a rollback or a creation means to everyone else.
`AnnouncementsEnd` is liveness and is only checked.
### Requests

A request of the web API as a worker on an `OrmSession`: it begins, takes its steps, and
ends with `CommitSession` or `RollbackSession` (`db_session`, `database/db.py:58`). What
it has assigned is flushed together, before its next query or with its commit. A module
that extends it says which rows there are and adds one action per step of each handler.
`mix` is the set of kinds of requests that meet in a behaviour; with `"serial"` in it,
a request begins only when the other has ended, which states what the handlers promise
by themselves.

### Accounts, MCAccounts

One student's account (`services/auth/service.py`, `auth/rules.py`, `api/deps.py`, the
routes of `api/student/auth.py`, `user.py`, `push.py` and the administrator's
suspension and forced sign-out).

| Code | Action |
|---|---|
| `RegisterStudentService`, `LoginStudentService`, `GoogleSignInService` | `Register`, `Login`, `Google` |
| `RegisterDeviceService`: lock the user, insert the device, revoke the overflow | `Lock`, `NewDevice`, `Overflow`, `Purge` |
| `optional_student`, with the device's last_seen_at | `Accepts`, `Enter`, `Touch` |
| `RevokeDevicesService`, `logout` | `RevokeDevices`, `Targets`, `Logout`, `Leave`, `Purge` |
| `CompleteProfileService` (a new token for the device) | `Renew` |
| `ChangePasswordService` | `ChangePassword`, `SetPassword`, `Targets` |
| `StudentForgotPasswordService`, `StudentResetPasswordService` | `Forgot`, `CreateToken`, `ResetPassword`, `Targets`, `Spend` |
| `SetStudentStatusService`, `ForceSignOutService` | `SetStatus`, `ForceSignOut` |
| `PushSubscriptionRepository.subscribe`, `delete_for_devices` | `Subscribe`, `Endpoint`, `Purge` |

`held` is the set of access tokens given out, as their claims (device, second of issue);
each carries the password that obtained it, for checking only. Time passes in whole
seconds (`MaxTime`), because `is_session_revoked` compares seconds. A password is a
model value: hashing is left out.

Run `accounts_devices`: three devices (one above the cap), two reset tokens, two
passwords, two seconds, two requests. `Mixes` pairs the requests that touch the same
rows; two of the mixes are serial and hold the rest together. `AccountSafe` asks of all
mixes that a paid account keeps two devices at most, and of the serial ones that the
subscription belongs to an active device, only the last reset token works and once, and
no session outlives its password. `SignOutsHold` is about every step: a revoked device
stays revoked whatever stale row another request writes, and the commit of a new password
leaves no other active device. It leans on a detail of the code: the password is flushed,
which takes the user's row lock, before the devices are listed; a sign-in that has the
lock finishes first, and one that has not registers its device afterwards.

Proved in `Accounts_proofs`, for any requests, devices, tokens, passwords, seconds and
mixes: `TypeOK`, `AccountSafe` (its part about the cap alone is `AtMostTwoDevices`) and
`SignOutsHold`. Assumed (`AccountsAssumption`): what the rows are, that devices are numbers,
and that a mix holds kinds of requests. None of them is inductive: what a commit stores was
decided steps before, from rows that others may have written since. `IInv` (TLC: 419,572
states) says of every transaction `w`:

* `Session`, `Carries`: rows it holds or has assigned are of their table; its step and its
  local values belong to its kind.
* `Changes`: from what was loaded to what is assigned, nobody's tier changes, no user and no
  device vanishes, no device comes back, and only the kinds that may change a password or a
  cut-off do (`Makes`). Columns are written one by one (`Changed`), so this survives a
  stale load: it is the half of `SignOutsHold` about revoked devices.
* `Existing`, `Guards`: it works on stored devices or with the one it has inserted, which
  no one else sees; who registers a device holds the user's row; who changes the password
  has flushed it, and so holds the user's row, before the devices are listed.
* `Leaves`: the devices active once it commits (`Written`) are at most two for a sign-in,
  the changing one for a new password, none for a reset. No two transactions hold the user
  (`Locks`), and only a sign-in that holds it adds a device, so what others commit
  cannot make that set grow (`OthersLeave`).

The serial part of `AccountSafe` needs a second invariant, `Serial`: only one request is
open (`Alone`); until it deletes the revoked devices' subscription it has not touched it
and only they leave (`Follows`); the reset token it works with is unused (`Spends`) and
replaces or removes every other (`Replaces`); the session it opens is the student's
(`Opens`). `LocalKeeps` and `SerialKeeps` handle every step that changes one session;
`PutEffect`, `WriteEffect`, `FlushEffect` and `ReputEffect` say once what each kind of
statement does to it.
### Lessons, Rewards, DailySession, Learner, MCLearner

What one student's lesson, its rewards and the day's session do to each other. The three
parts extend one another (the evidence one part writes is what the next one reads);
`Learner` composes them over one database and one bag `log` of learning events.

| Code | Action |
|---|---|
| `SaveLessonProgressService`, `RecordTopicAnswersService` | `SaveProgress` (`Applied`, `Settled`), `QuickQuiz` |
| `StartPracticeExitService`: cooldown, `_resume`, create and mark | `StartExit` (`Waits`), `Resume`, `Persist` |
| submit: guarded update, answers, `CompletePracticeExitService` | `Submit`, `Complete`, `Judge` (`Recorded`, `Best`, `Judged`) |
| `reap_stale` | `Reap` |
| `_after_submit`: achievements, XP, quests, corrections, mastery XP | `AfterSubmit`, `Achieve`, `Insert`, `AwardAttempt`, `Quests`, `Bonus`, `Correct`, `AwardMastery`; a step whose savepoint fails is `StepFails`, a restart before the task is `Lose` |
| the quests endpoint | `ReadQuests`, `Quests`, `Bonus` |
| `GetDashboardService`, `todays_session`, `_save` | `Dashboard`, `Compose` (`Reconciled`, `Marked`), `Saved`, `SaveFails` |
| the planner's tick and replan, a card review | `FinishPlanItem`, `Replan`, `ReviewCards` (surroundings; `Study` has the code) |

The checkpoint, the session's items and a quest set are JSON columns: what a request
assigns replaces all of the column. An assignment becomes an `UPDATE` only if the session
sees a change, which is why `Persist` after a forgotten marker writes nothing. A tick of
`now` is both longer than an exit's time limit and as long as the wait after a failed
exit; `midnight` is the tick the second day begins with. Left out: prompts and question
selection, the mastery the attribution step writes (it is `MasteryFold`'s), scores other
than passed or failed.

Run `learner_study`: two workers, two exits, two practice sets, one question, one
knowledge check, two plan items, two ticks, at most two events when a request that adds
some begins; a cap of one award per day and two kept records, so that a third submit
meets both. `Mixes` names ten sets of requests with what may happen around them (`time`,
`night` with midnight, `fail`, `restart`, `reap`, `cards`, a replan); three are serial and
hold what the handlers promise by themselves. `LearnerSound` relates the lesson, its
checkpoint, the attempts, the XP rows and the log; `DayStable` is about every step.
### PlanInput, PlanWindow, StudyPlan, Flashcards, Study, MCStudy

What a student studies by. `PlanInput` and `PlanWindow` are the planner's pure part:
what a replan reads (settings, timetable, topics, what is known of them) and the window
it lays out. `StudyPlan` has the requests about a plan, `Flashcards` those about a
lesson's shared deck, and `Study` composes them: a review's background task ticks the
day's revision session off.

| Code | Action or operator |
|---|---|
| `timetable_issues`, `plan_settings_problem` | `Valid` |
| `day_budget`, `build_slots`, `reserve_slots`, `_free_days` | `DayBudget`, `SlotsOn`, `Reserved`, `FreeOn` |
| `select_term_topics`, `select_exam_topics` | `TermCandidates`, `BehindBy`, `ExamCandidates`, `Gaps` |
| `layout_window`: `add_queue`; `place_unit`, `place_revision`, `place_past_questions`; `serve`; mocks | `Queues`; `Unit`, `Revise`, `PastQuestions`; `Serve`, `ForSlot`; `Mock`, `OnDay` |
| `GetStudyPlanService` and the day's replan | `GetPlan`, then `LockPlan`, `Clear`, `Build`, `Persist` |
| create, change of settings, positions, delete | `CreatePlan`, `UpdatePlan`, `SetPosition`, `DeletePlan`/`ClosePlan` |
| a tick by hand; the tick after an activity | `SetItemStatus`; `MarkItem`, `TryItem`, `Mark` |
| `GenerateFlashcardsService`, `_sync_cards` | `Generate`, `FindDeck`, `Sync`, `InsertCard`, `DropCards`, `Enrol` |
| `adopt_shared_deck`, `ensure_enrolled` | `Adopt`, `InsertOnce` |
| follow, unfollow, leave a deck | `Follow`, `Unfollow`, `Leave`, `RemoveFollow` |
| `ReviewFlashcardService` | `ReviewCard`, `StoreReview`, `Scheduled` (`Steps`) |
| commit and rollback of a session; a restart; the author's save | `Commit`, `Rollback`; `Restart`; `Edit` |

A session's rows are written at its flush and column by column, as in `Requests`. The
layout is a fold over the days of the window and over the slots of a day; a subject's
turn and a unit's choice follow the code's order, ties included. Where the code has no
order (`pending_for_plan` has no `ORDER BY`) every order is taken. What is taken as
given: the outline is one list of topics with a subject, a position and a size; an edge
between topics has strength one; mastery is one of the few values that the planner's
thresholds tell apart; ease, stability and times of a card's schedule are left out.

Run `study_plans`: two workers; two plans and twelve sessions; day 1 is a Friday, the
window is three days, so that it holds a weekday and both kinds of weekend; four topics
of two subjects in two classes with a chain of two prerequisites, one of them of two
sessions; two flashcard blocks and three cards, so that a rebuild may add one while an
old one goes. At most two reviews of a student and card (one when the deck is built in
the same mix). `MCMixes` are twenty sets of what meets, each with what happens around it:
`time` (day 2), `midnight` (the UTC stamp still shows the day before), `fail` (a
savepoint or the commit fails), `undo` (a student puts a session back), `window` (rich
settings: two subjects, chosen sessions, exam modes, three states of knowledge), `legacy`
(decks of older code), `edit`, `restart`. With `serial` requests meet one at a time: what
the handlers promise by themselves. Without it, what holds whoever meets.

`StudySound` is two invariants: `PlanSound` about the time of a day, `DeckSound` about
cards. `StepsSound` is about what steps may do: `RecordsKept` about what a student ticked (`HistoryKept`) and remembers (`StudyKept`), `WindowSound` about every
window a replan commits: lessons after what they build on, practice on a later day,
no topic revised twice a day, no lesson taught again, chosen sessions there or reported.

### TutorGraph, AdminGraph, AgentRuns, Chat, AdminChat, MCChat

A chat with the AI tutor or the admin's assistant. A message is answered by a *run*: a
task of the process that took it, which walks the product's graph, publishes frames to
the clients that follow it and copies them onto the thread's row, so that other processes
can serve, stop or replace it. `TutorGraph` and `AdminGraph` are the graphs, a node an
operator; `AgentRuns` is what the products share (hub, row, heartbeat, stop tokens);
`Chat` is the tutor's service on one thread; `AdminChat` is the admin's, which repeats it
but for three differences, and composes the two.

| Code | Action or operator |
|---|---|
| `tutor/graph.py`, `core/action/nodes.py`; `admin/graph.py` | `TutorStep`; `AdminStep` |
| `RunHub`, `RunLog.flush`, `beat_loop`, `is_stale_run`, `should_clear` | `ForThread`, `Flushed`, `Beat`, `IsStale`, `ShouldClear` |
| `begin_stream`, `end_stream`, `request_stop`, `should_stop` | `BeginStream`, `EndStream`, `RequestStop`, `MayStop`/`LocalStop` |
| `start_message_run`: checks, then the run | `Check`, then `Spawn` |
| `prepare_new_thread_stream`, `start_new_thread_run` | `StartThread` |
| a message answered within its request | `Post`, `Invoke`, `Commit` (`AdminPost`) |
| `_produce_tutor_run`, in its order | `Accept`, `Begin`, `Stream`, `Stopped` or `Conclude`, `Commit`, `Publish`, `Seal`, `Clear`, `End`; `Fail`, `Salvage` |
| an empty reply | `Again` (tutor), `LastText` (admin) |
| `_materialise_stale_run`, by a GET or a stop | `Look`, then `Materialise` |
| `resume`, `_resume_graph`, `_settle_proposal_message` | `Resume`, `Proceed`, `Settle`, `FailResume` |
| `open_run_replay`; in the process; over the row | `Join`; `Follow`; `Poll` |
| a process dies; forty-five seconds without a beat | `Crash`; `Age` |

Abstractions: texts are left out, only whether a reply has any; frames are four kinds; the
row's copy of a run's frames is their number; models, guards, searches and decision
services answer as they like; the checkpoint is whose action waits in it. LangGraph's
checkpointer is external: it saves an interrupt at once, and a new input drops it. Its
recursion limit stands as `MaxTurns` calls of tools. Redis may miss a command.
Taken as given: one decision at a time, on a card that is stored; a client sends its next
message when the last one has been accepted (not in `race`); a poller that looks every
0.3 seconds reads within the second a finished run leaves (not in `late`).

Run `chat_runs`: two processes, two messages, one stop, one crash, two rewrites, one turn
of tools. `MixesValue` names eighteen sets of what may happen: the route (`chitchat`,
`sql`, `rag`, `action`, `guarded`), the product, and `stop`, `crash`, `fail`, `stall` (a
process that does not get to its heartbeat), `race`, `sync`, `new`, `delete`, `resume`,
`follow`, `late`, `readers` (two at once). Two processes and two messages suffice for what
the code distinguishes: this process or another, this run or the one before; the first
message goes to a fixed process because processes are alike. In `one` there is one
message, in `brief` the second takes the shortest route: both only bound the run.

`RepliesSound`: a message is answered once, one reply at a time is made, no stop hits
another run or an earlier time, a stop that reaches the run stops it, a follower gets the
frames of its run up to `done`. `DecisionsSound`: an action is carried out at most
once, and only if approved (an approved one that is refused, as when its arguments no
longer pass, has a card that says `executed` as well); an action that waits has a card, a
card an action that waits. Each part
names the events under which the code does not keep it; section 3 says what happens then.
`ComesToRest` is liveness: runs, decisions and followers end, and a row that says a run
is going on stops saying so or goes stale. Fairness: weak for each run's producer, a
decision's request, a reader's request, a follower and the passing of time; none for what
clients send.

### Requests, Console, MCConsole, Console_proofs

What administrators write: the tree of subjects, levels, topics and lessons, the question
bank, materials, academic terms, students and administrators, each change with its audit
row; and the subject list that a process keeps for an hour. Every handler is a request
of `Requests`: it reads committed rows that nothing locks, assigns, flushes, writes the
audit row in a savepoint, and commits. Between its steps other requests commit.

| Code | Action or operator |
|---|---|
| `services/console.py`, `services/admin.py`: the `Create…`, `Update…`, `Delete…` services | the action of that name; its checks are guards on `db` as read |
| tables and their constraints (migration `d30a7d28fe0a`) | `RowOf`, `Claims`, `Refs`; checked by `RefsHold` and `KeysFree` in `Flushes` |
| ON DELETE CASCADE | `Owns`, `Swept` |
| a statement waits for another session's row | `Unblocked`, `FreeAll` |
| `UpdateQuestionService`: assign, then validate | `UpdateQuestion`, `Validate` |
| `DeleteQuestionsService._delete_each`, `usage_counts` | `DeleteQuestions`, `DeleteOne`, `Deletable` |
| `ImportQuestionsService`, `duplicate_id` | `ImportQuestions`, `ImportRow`, `Duplicate` |
| `ImportLessonService`, `latest_for_topic` | `ImportLesson` |
| `validate_term_ranges` | `TermsValid` |
| `RecordAuditService`, then the deletion, then `bust_catalogue` | `Audit` |
| `ListSubjectsService`, `_get`, `_set`, `CATALOGUE_TTL` | `ListSubjects`, `StoreSubjects`, `Expire` |

Abstractions: all rows are records of the same columns (two foreign keys, what is unique,
what a check compares); other columns are left out. The lesson's subtopic "Core Concepts"
is part of the lesson. The audit row is followed for deletions only, with the rows it
stands for (the code stores their number and the action for several questions; the rows
are the model's history). A flush that a savepoint makes may fail like any other; the
request is then rolled back. The counts of a listing are read in one step, and topic
counts are left out: writes to topics never drop the list, so it may show an old
count for an hour by design. Processes do not drop each other's lists, so one process is
what `CatalogueCurrent` (part of `SerialSound`) is checked for. A student's work (`DoWork`) is any row that refers
to a student and a question, lesson or topic.

Run `console_writes`: two requests, two subjects with a level each (and a third to create), a topic with a question.
`TreeMixes` lets the kinds that add a reference meet those that delete what they may refer to, and names
the other meetings; `OneAtATime` lets requests follow each other in any order, where
`SerialSound` is checked. Two requests suffice for what the code reads without a lock: one
that checks and one that changes what was checked. An import has two rows (`MaxImport`), the
least in which one follows another.

`TreeSound` (foreign keys, unique keys, levels of the topic's subject) holds whatever meets,
because a level never changes its subject and a deleted level takes no topics with it: the
foreign key refuses. `AuditTells`: what is gone while its owner stands was deleted by
name, and no audit row names what stands. `SerialSound` is what the handlers check and
nothing enforces, so it is stated for one request at a time.

Proof: `IInv` says that rows keep to their columns (`Typed`), that the database is a
catalogue (`Catalogued`) and `AuditTells` holds of it, that no two sessions hold one row, nor
rows that would not stand together (`Apart`): one does not delete what another's new row refers
to, nor claim its key. For each session it says that what it holds laid over the database is
again a catalogue, and for each request that what its list names is what its session has
deleted, or still has to delete. A commit then writes rows that were a catalogue over the database
of now, whatever was committed since they were flushed. Without `Apart` the step of
the commit cannot be proved: two flushes that are each sound over the database they saw could
commit a row and the deletion of what it refers to.

`SerialSound` is proved for every set of rows and any number of sessions, on two
conditions: its parts hold of every database the requests start from (`Legal`), as they do
in the run, and there is one process (`SerialIsSound`). `SerialRows` is the part about rows, which needs no such
limit on processes. Neither part is inductive: `UpdateQuestionService` assigns first and
validates in a later step, so that between the two the session holds a question that may
break the rule. `SerialInv` says where each request is: one is under way (`InTurn`); what it will have
written over the database agrees, and has to until it commits, except that a question being
updated is all that has changed while it waits for its validation (`Awaits`); and a request that
changes what is listed has dropped the list when it commits, where a deletion or an import that
has changed nothing need not have (`Drops`). `CacheInv` follows: a list is the stored one,
also while a request is under way. Between `Audit`, which drops the list, and
the commit nobody else fills it again, which is all that "one at a time" gives.
## 3. What is proved, what is only checked

Proved by TLAPS, for every value of the constants that the named assumptions of the
modules allow: the theorems listed in `PROJECT.json`.

| Module | Safety proved | Hypothesis besides the assumptions |
|---|---|---|
| `Attempts_proofs` | types, evidence, terminal states, the refinement of `AttemptLedger` | |
| `PaperCache_proofs` | types, one fetcher, what readers get | |
| `Billing_proofs` | `TypeOK`, `ChargesSettle`, `TermFixed` | |
| | `TermsDisjoint`, `TierFollowsRows` | one request at a time (`OneAtATime`), as in run `billing_serial` |
| `MasteryFold_proofs` | `TypeOK` | |
| | `FoldExact`, `CursorForward` | one reader at a time (`OneReader`) |
| `Push_proofs` | `TypeOK`, `PushSafe`, `NoPushAfterEnd` | |
| `Accounts_proofs` | `TypeOK`, `AccountSafe`, `SignOutsHold` | |
| `ProviderBank_proofs` | `TypeOK`, `BankSafe`, `PaperWhole` | |
| `Console_proofs` | `TypeOK`, `TreeSound`, `AuditTells` | |
| | `SerialSound` | one request at a time, as the property says; one process; a start where it holds |

Each module's section
above names the inductive invariant and why it is needed.

Only model-checked: liveness (`RequestsEnd`, `PaperComes`, `PaidSettles`, `AnnouncementsEnd`,
`ComesToRest`), since the prover has no rule for fairness; `NobodyStuck`, which is about
ENABLED; and everything about `Learner` and its parts, `Study` and
`Chat`. `PlanInput`
declares a RECURSIVE operator (the walk through prerequisites), so no theorem may reach
`StudyPlan` or `Study`. `Learner` writes rows with TLC's `@@` and `:>`,
whose definitions the prover does not expand; `OrmSession` and the modules proved about
write functions instead (`Only`), and `Learner` would follow before it is proved about.
`Chat` is within the prover's reach and is not proved: what it promises depends on which
events a behaviour mixes, and an inductive invariant has to relate each run's step, the frames
on the thread's row, the checkpoint and the stop tokens for each of them, which has not been
worked out.

### Known disagreements with the documents

These were met while modelling. Most are stated in the modules, and adding the definition
to a configuration makes TLC show the trace. They are in no run.

* `Learner!StartedIsMarked`: `StartPracticeExitService` writes the new exit's marker into
  the dictionary it has assigned with the expired marker taken out
  (`practice_exit.py:214-218`); the session has already flushed that dictionary and sees
  no change, so the marker is not stored. The new exit is then submitted as an ordinary
  attempt and cannot complete the lesson ("the only thing that marks a lesson
  complete", `practice_exit.py:4-6`).
* An exit that expired and was not reaped is still marked, and completes the lesson when
  it is submitted late ("Abandoned or expired: it earns nothing", `practice_exit.py:242`).
* A knowledge check may count twice: a save replaces the whole of the client's `checks`
  (`learning/service.py:157-160`), so a check left out once settles again.
* A blank submit of enough questions counts as answered (`repositories/learning.py:392`)
  and earns a practice award (`gamification/rules.py:15`).
* `Learner!CapsHold` and the serial part of `LearnerSound` and `DayStable` without
  "serial": a save that loaded the row earlier overwrites a completion, a marker or a
  record committed since; two tasks exceed a day's cap; a dashboard that read the session
  before another stamped it takes the stamp back; an award is dated when its transaction
  began, so at midnight it counts for no cap.
* `Attempts!PretestGradedLikeQuiz`: a pretest's grading is not guarded
  (`services/assessments/service.py:1139`), so it completes a paper another request
  has timed out or graded since it was loaded; "Grading completes the attempt like
  any other quiz" (`07-learning.md:184`), and any other quiz is completed by a guarded
  UPDATE.
* `MasteryFold!AbandonCountsOnce`: `apply_event` returns for an abandon before it moves
  the cursor (`mastery.py:98`), so every read counts it again; only events past the
  cursor are folded (`07-learning.md:67`).
* `MasteryFold!SumsMatchCursor` with two readers: a read that folded nothing rewrites
  the decayed mass and not the cursor (`mastery_store.py:85`), over a read that folded.
* `Billing!OnlyPendingFails`: FAILED is decided on a loaded row and written over an
  activation committed since (`billing/service.py:178`, `10-billing.md:94`).
* `PaperCache!RefusedMeansAbsent`: a waiter that reads the cache just before the paper
  is published and asks for the lock just after its release is refused
  (`provider/cache.py:303`).
* The bank's checkpoint may move backwards: a request that waited for the fetch row's
  lock writes a cursor it had read before (`provider/ingest.py:138` says "Advance the
  paper checkpoint only when this page is the next expected one").
* A past paper's page is appended although the attempt was submitted while the provider
  answered (`assessments/past_paper.py:257` checks before, nothing after).
* `Push!DeliveriesFinal`: a cancel or an expiry that read PENDING writes CANCELLED over
  a SENT committed since; "the implementation guards the final update on `status =
  PENDING`" (`11-push-and-cron.md`). `Push!SentCounted`: of two drains that loaded the
  same count one increment is lost (`push.py:158`).

* `Accounts!SessionsCurrent`, `TokensSingle` and `SubsFollowDevices` without "serial": a
  sign-in that checked the old password before a reset committed registers its device
  after it and stays in, two resets use one token, two forgotten-password requests leave
  two live tokens, and a subscription is stored on a device revoked since it was checked.
  `Accounts!SignOutsMoveOn`: of two resets or forced sign-outs the later commit may
  carry the earlier moment.
* `Attempts!GradedAnswersLeaveEvents`: grading a pretest writes responses and no
  answered event, while `07-learning.md` has every graded answer append one.
* `MasteryFold!AttributedCounts`: an answer attributed after a later answer of the
  topic was folded lies below the cursor and never counts.
* `Billing!WebhookIsAuthoritative`: a callback that verifies before the charge
  succeeds marks the row FAILED, and the webhook then ignores the success
  (`10-billing.md:60-63`).
* `Billing!TermsDisjoint` and `TierFollowsRows` with two handlers: two references
  settling at once start from the same end, and each resolves the tier without
  the other's row. The runs check them one request at a time.
* `Billing!CompMasks`: a comp is stacked after the live term, so it masks nothing
  until that ends (`10-billing.md:110`).
* Two plans are active after two creates at once: each closes the plans it has read
  (`planner/service.py:478`).
* A replan flushes "missed" or deletes the sessions it has read as pending, and a session
  completed since is lost (`planner/service.py:1053`); the row lock is taken on a row
  whose attributes were loaded before, so it may lay out the settings of before a change
  (`planner/service.py:942`).
* Two changes of settings are merged column by column, and the merged settings may be a
  pair that neither `_check` would have passed.
* The replan's stamp is a UTC day, the plan's a Lagos day: in the hour after midnight
  every read replans again.
* The carried-over sessions are said to come "in plan order", but `pending_for_plan`
  (`repositories/planner.py:46`) does not order them.
* A missed or completed session put back to pending by the student is planned on top of
  the day until the next replan (`PlanSound` leaves `undo` out).
* A settled mock longer than one session frees the day's short slot again
  (`planner/layout.py:118`).
* Two reviews of one card are merged column by column, so a schedule need not follow from
  its log; a rebuild of an older edition that ends last drops the newer edition's cards
  (`srs/sync.py:57`).
* A stop seen after the graph's interrupt ends the run without a card, and the checkpoint
  keeps the interrupt: every later message is refused ("Approve or dismiss") with nothing
  to approve, while `api/student/tutor.py:171` has a stop "so the student can ask a
  different question". The same after a crash or a failure between interrupt and card
  (`Chat!WaitingIsShown` without its exceptions).
* A stop asked between a predecessor's row clear and its `end_stream` is swept away
  (`StopHeeded`); two requests may both pass the checks and start a run, and the tutor's
  message within a request does not ask whether a reply runs (`OneReply`).
* A stalled process's reply is stored by another, then by itself; a dead run's reply is
  stored again when a GET elsewhere comes between the next message and its first flush
  (`AnsweredOnce`).
* `prepare_new_thread_stream` does not ask whether an action waits: its run drops the
  interrupt and leaves a card that cannot be dismissed. A resumption that fails leaves
  one too (`CardIsWaiting`).
* A polled follower of a run that pauses ends before its card's frames; `_iter_persisted_run`
  sends whatever lies beyond its cursor before it looks whose it is, and a paused run's last
  flush may overwrite the row of the next (`FollowerServed`).
* A listing between the dropping of the subject list and the commit stores the old list
  again (`admin.py:446`, `console.py:147` and six more; `Console!CatalogueCurrent` with the mix
  of "question.create" and "list"), while the documents have mutations "invalidate it"
  (`docs/backend-port/README.md:66`).
* Two requests that meet may leave a question under another subject's topic, two terms that
  overlap, a topic with two lessons, or an imported question twice: the checks are on
  rows that nothing locks (`console.py:170`, `:1297`, `:480`, `:307`), and the database has
  no constraint for them. `SerialSound` is stated for one request at a time.
* `User.tier` outlives the term it came from: nothing refreshes it when a term
  ends (`03-auth-and-access.md:50` has every token refresh resolve it).

## 4. What is not modelled

Components with status `not_modelled` in `PROJECT.json`, each with its reason.
Data the properties do not tell apart: question texts, options, scores and marks,
prices, messages, formatting, logging and analytics events.

## 5. Plan

Done: the attempts and the evidence, billing, the provider's cache and bank, push, devices
and tokens, the lesson with its exit, rewards and the day's session, the planner and the
deck, the tutor's runs, the console's writes; theorems about attempts, the cache, billing,
mastery, push, accounts, the bank and the console. Open, in order: (1) an abstract delivery
that ends once, refined by `Push`, and proved; (2) theorems about `Learner`, on function
constructors instead of `@@`.
