-------------------------------- MODULE Chat --------------------------------
(***************************************************************************)
(* A tutor chat thread (app/ai/tutor/service.py): messages answered by a     *)
(* run in the background or within their request, stops, cards that ask for *)
(* an approval and its resumption, replies of dead runs stored by whoever    *)
(* looks next, and a client that follows a run.                            *)
(*                                                                         *)
(* `pending' is the interrupt in LangGraph's checkpoint, which is saved at   *)
(* once and by itself; messages and the row are PostgreSQL's.  A run is one  *)
(* message and what answers it.  The admin's service is in AdminChat.       *)
(***************************************************************************)
EXTENDS AgentRuns, AdminGraph, FiniteSets

CONSTANTS
    MaxStops,       \* stop requests
    MaxCrashes,     \* processes that die
    Mixes           \* what happens in a behaviour, several sets of such events

Events == {"tutor", "admin", "stop", "crash", "fail", "stall", "race", "sync", "new", "delete",
           "late", "follow", "one", "readers", "resume", "guarded", "brief", "chitchat", "sql", "action", "rag"}
ASSUME ChatAssumption == MaxStops \in Nat /\ MaxCrashes \in Nat /\ Mixes \subseteq SUBSET Events

VARIABLES
    messages,   \* the thread's, by created_at
    pending,    \* whose action waits for approval in the checkpoint
    resume,     \* [Procs -> a resumption]
    reader,     \* [Procs -> a request that stores what a dead run has shown]
    rider,      \* a client that follows a run
    applied,    \* history: [Runs -> how often its action was carried out]
    stops, crashes,
    mix

vars == <<row, live, hub, local, remote, messages, pending, resume, reader, rider, applied,
          stops, crashes, mix>>
client == <<rider, stops, crashes, mix>>

Message == [role : {"user", "assistant", "outcome"}, run : Runs, act : Runs \cup {None},
            card : {"none", "pending", "executed", "rejected"}]

Steps == {"unused", "checked", "start", "begin", "graph", "invoke", "commit", "failing",
          "message", "done", "seal", "grace", "ending", "over", "refused", "dead"}
\* asked, heard: history - a stop that meant it was asked for since it began; it came
\* to its process while its graph ran, and no other run.
Run == [at : Steps, proc : Procs, kind : {"stream", "create", "sync"}, walk : Walk,
        status : {"running", "paused", "finished"}, events : Seq(Frames), held : BOOLEAN,
        ending : {"none", "answer", "card", "stopped", "failed"}, act : Runs \cup {None},
        asked : BOOLEAN, heard : BOOLEAN]

NewRun(p, kind) ==
    [at |-> "start", proc |-> p, kind |-> kind, walk |-> Fresh, status |-> "running",
     events |-> <<>>, held |-> kind # "sync", ending |-> "none", act |-> None, asked |-> FALSE, heard |-> FALSE]

First == CHOOSE p \in Procs : TRUE

NoResume == [at |-> "idle", run |-> None, approved |-> FALSE, had |-> FALSE, applied |-> FALSE,
             walk |-> Fresh]
NoReader == [at |-> "idle", run |-> None, partial |-> FALSE]
NoRider == [at |-> "idle", proc |-> First, run |-> None, cursor |-> 0,
            done |-> FALSE, foreign |-> FALSE]

Init ==
    /\ mix \in Mixes
    /\ row = [there |-> "new" \notin mix, archived |-> FALSE, run |-> None, status |-> "none",
              seen |-> 0, fresh |-> TRUE]
    /\ live = [r \in Runs |-> [NewRun(First, "stream")
                                 EXCEPT !.at = "unused", !.held = FALSE]]
    /\ hub = [p \in Procs |-> None]
    /\ local = [p \in Procs |-> {}] /\ remote = None
    /\ messages = <<>> /\ pending = None
    /\ resume = [p \in Procs |-> NoResume]
    /\ reader = [p \in Procs |-> NoReader]
    /\ rider = NoRider
    /\ applied = [r \in Runs |-> 0]
    /\ stops = 0 /\ crashes = 0

-----------------------------------------------------------------------------
(* Sending a message *)

Owned == row.there /\ ~row.archived
Over(r) == live[r].at \in {"unused", "over", "refused", "dead"}

\* A client sends its next message after the last one's stream has begun or its
\* request has ended.  Processes are alike, so the first one is First's.
MaySend(r, p) ==
    /\ r = 1 => p = First
    /\ live[r].at = "unused" /\ \A q \in 1 .. r - 1 : live[q].at # "unused"
    /\ "one" \in mix => r = 1
    /\ \/ "race" \in mix
       \/ /\ \A q \in Runs : IF live[q].kind = "sync" THEN Over(q)
                             ELSE live[q].at \notin {"checked", "start", "begin"}
          /\ \A q \in Procs : resume[q].at = "idle"

\* Mutant: only what this process runs counts.
RejectedHere(p) == ForThread(p) # None /\ live[ForThread(p)].status = "running"

\* _reject_if_running: what the process holds counts, and the row if it holds nothing.
Rejected(p) ==
    \/ ForThread(p) # None /\ live[ForThread(p)].status = "running"
    \/ ForThread(p) = None /\ row.status = "running" /\ ~IsStale

At(r, step) == [live EXCEPT ![r].at = step]

\* The checks ...
Check(r, p) ==
    /\ MaySend(r, p) /\ Owned /\ ~Rejected(p)
    /\ live' = [live EXCEPT ![r] = [NewRun(p, "stream") EXCEPT !.at = "checked", !.held = FALSE]]
    /\ UNCHANGED <<row, hub, local, remote, messages, pending, resume, reader, applied, client>>

\* Mutant: whether an action waits is not asked.
SpawnUnasked(r) ==
    /\ live[r].at = "checked"
    /\ live' = [live EXCEPT ![r].at = "start", ![r].held = TRUE]
    /\ hub' = Bound(live[r].proc, r)
    /\ UNCHANGED <<row, local, remote, messages, pending, resume, reader, applied, client>>

\* ... and, when the checkpoint has been read, the run.
Spawn(r) ==
    /\ live[r].at = "checked"
    /\ IF pending = None
       THEN /\ live' = [live EXCEPT ![r].at = "start", ![r].held = TRUE]
            /\ hub' = Bound(live[r].proc, r)
       ELSE live' = At(r, "refused") /\ UNCHANGED hub
    /\ UNCHANGED <<row, local, remote, messages, pending, resume, reader, applied, client>>

\* "Ask about this question": the thread for it is taken up, without a look at its
\* checkpoint, or there is none and the run will make one.
StartThread(r, p) ==
    /\ MaySend(r, p) /\ "new" \in mix
    /\ IF Owned
       THEN /\ ~Rejected(p)
            /\ live' = [live EXCEPT ![r] = NewRun(p, "stream")]
            /\ hub' = Bound(p, r)
       ELSE /\ ~row.there /\ \A q \in Runs : Over(q)
            /\ live' = [live EXCEPT ![r] = NewRun(p, "create")]
            /\ UNCHANGED hub
    /\ UNCHANGED <<row, local, remote, messages, pending, resume, reader, applied, client>>

\* Answered within the request: the first message of a new thread, or one more.
Post(r, p, refused) ==
    /\ MaySend(r, p) /\ "sync" \in mix /\ ~row.archived
    /\ IF row.there THEN ~refused ELSE "new" \in mix /\ \A q \in Runs : Over(q)
    /\ live' = [live EXCEPT ![r] = [NewRun(p, "sync") EXCEPT !.at = "invoke"]]
    /\ UNCHANGED <<row, hub, local, remote, messages, pending, resume, reader, applied, client>>

Said(role, r, act) ==
    [role |-> role, run |-> r, act |-> act, card |-> IF act = None THEN "none" ELSE "pending"]

-----------------------------------------------------------------------------
(* Producing the reply *)

\* The thread is looked up again, or made; the user's message is committed.  Without
\* a thread the run fails, with no row to write to.
Accept(r) ==
    /\ live[r].at = "start"
    /\ IF live[r].kind = "create" \/ Owned
       THEN /\ live' = At(r, "begin")
            /\ row' = [row EXCEPT !.there = TRUE]
            /\ messages' = Append(messages, Said("user", r, None))
            /\ hub' = IF live[r].kind = "create" THEN Bound(live[r].proc, r) ELSE hub
       ELSE /\ live' = [live EXCEPT ![r].at = "seal", ![r].ending = "failed",
                                    ![r].events = <<"done">>]
            /\ UNCHANGED <<row, messages, hub>>
    /\ UNCHANGED <<local, remote, pending, resume, reader, applied, client>>

\* A guard lets pass or blocks as its classifier finds, and lets pass when there is none.
Blocked == IF "guarded" \in mix THEN BOOLEAN ELSE {FALSE}

\* begin_stream; streamStarted and userMessage count as one frame.  A message that the
\* guard rejects is answered without the graph.
Begin(r) ==
    /\ live[r].at = "begin"
    /\ BeginStream(live[r].proc, r)
    /\ row' = Flushed(r, <<"started">>)
    /\ \E blocked \in Blocked :
          live' = [live EXCEPT ![r].at = IF blocked THEN "commit" ELSE "graph",
                               ![r].ending = IF blocked THEN "answer" ELSE @,
                               ![r].events = <<"started">>]
    /\ UNCHANGED <<hub, messages, pending, resume, reader, applied, client>>

GraphStep(r, walk) ==
    LET routes == IF "brief" \in mix /\ r > 1 THEN {"chitchat"} ELSE mix
    IN  IF "admin" \in mix THEN AdminStep(walk, routes) ELSE TutorStep(walk, routes)
Halted(walk) == walk.node \in {"END", "paused", "failed"}

\* The checkpoint after one more node: a new input drops an old interrupt.
Checkpoint(r, walk, next) ==
    IF next.node = "paused" THEN r ELSE IF walk.node = "classify_intent" THEN None ELSE pending

\* One node of the graph, its events read before the next.  The reply's first text is
\* published; more of it makes no difference.
Stream(r) ==
    LET walk == live[r].walk
    IN  /\ live[r].at = "graph" /\ ~Halted(walk) /\ ~LocalStop(r)
        /\ \E next \in GraphStep(r, walk) :
              /\ pending' = Checkpoint(r, walk, next)
              /\ IF next.text /\ ~walk.text
                 THEN /\ live' = [live EXCEPT ![r].walk = next,
                                              ![r].events = Append(@, "token")]
                      /\ row' \in Emitted(r, "token")
                 ELSE live' = [live EXCEPT ![r].walk = next] /\ UNCHANGED row
        /\ UNCHANGED <<hub, local, remote, messages, resume, reader, applied, client>>

Kept(r) == live[r].walk.text

\* A stop is seen at an event, or after the last one.  The graph may be a node ahead.
Stopped(r) ==
    LET walk == live[r].walk
    IN  /\ live[r].at = "graph" /\ MayStop(r)
        /\ pending' \in {pending} \cup
              {Checkpoint(r, walk, next) : next \in IF Halted(walk) THEN {} ELSE GraphStep(r, walk)}
        /\ local' = [local EXCEPT ![live[r].proc] =
                        IF remote \in {AnyRun, r} THEN @ \cup {r} ELSE @]
        /\ live' = [live EXCEPT ![r].at = IF Kept(r) THEN "commit" ELSE "done",
                                ![r].ending = "stopped"]
        /\ UNCHANGED <<row, hub, remote, messages, resume, reader, applied, client>>

\* The graph is through and so are its events.  The snapshot is the thread's: an
\* interrupt in it makes the reply a card.
Conclude(r, empty) ==
    /\ live[r].at = "graph" /\ live[r].walk.node \in {"END", "paused"} /\ ~LocalStop(r)
    /\ live' = IF pending # None
               THEN [live EXCEPT ![r].at = "commit", ![r].ending = "card", ![r].act = pending,
                                  ![r].status = "paused"]
               ELSE IF Kept(r) THEN [live EXCEPT ![r].at = "commit", ![r].ending = "answer"]
               ELSE [live EXCEPT ![r] = empty]
    /\ UNCHANGED <<row, hub, local, remote, messages, pending, resume, reader, applied, client>>

\* An empty reply: the graph is run again, without a stream.
Again(r) == [live[r] EXCEPT !.at = "invoke", !.walk = Fresh]

\* ainvoke: refused while an action is pending; node by node, unseen until its end.
Invoke(r) ==
    LET walk == live[r].walk
    IN  /\ live[r].at = "invoke"
        /\ \/ /\ walk.node = "classify_intent" /\ pending # None
              /\ live' = At(r, IF live[r].kind = "sync" THEN "refused" ELSE "failing")
              /\ UNCHANGED pending
           \/ /\ ~Halted(walk) /\ (walk.node = "classify_intent" => pending = None)
              /\ \E next \in GraphStep(r, walk) : /\ live' = [live EXCEPT ![r].walk = next]
                                               /\ pending' = Checkpoint(r, walk, next)
           \/ /\ walk.node \in {"END", "paused"}
              /\ live' = [live EXCEPT ![r].at = "commit",
                                      ![r].ending = IF pending = None THEN "answer" ELSE "card",
                                      ![r].act = pending]
              /\ UNCHANGED pending
        /\ UNCHANGED <<row, hub, local, remote, messages, resume, reader, applied, client>>

\* The assistant's message: what is kept of a reply, or the card of the action that
\* waits.  A request commits both its messages, and its thread.
Commit(r) ==
    LET reply == Said("assistant", r, live[r].act)
    IN  /\ live[r].at = "commit"
        /\ messages' = messages \o (IF live[r].kind = "sync"
                                    THEN <<Said("user", r, None), reply>> ELSE <<reply>>)
        /\ row' = [row EXCEPT !.there = TRUE]
        /\ live' = At(r, IF live[r].kind = "sync" THEN "over" ELSE "message")
        /\ UNCHANGED <<hub, local, remote, pending, resume, reader, applied, client>>

\* A model, the database or the recursion limit gives up.
Fail(r) ==
    /\ \/ "fail" \in mix /\ live[r].at \in {"graph", "invoke", "commit"}
       \/ live[r].at \in {"graph", "invoke"} /\ live[r].walk.node = "failed"
    /\ live' = [live EXCEPT ![r].at = IF live[r].kind = "sync" THEN "refused" ELSE "failing",
                            ![r].ending = "failed"]
    /\ UNCHANGED <<row, hub, local, remote, messages, pending, resume, reader, applied, client>>

\* What was said is kept if that can still be committed.
Salvage(r) ==
    /\ live[r].at = "failing"
    /\ \/ Kept(r) /\ messages' = Append(messages, Said("assistant", r, None))
       \/ (Kept(r) => "fail" \in mix) /\ UNCHANGED messages
    /\ live' = At(r, "done")
    /\ UNCHANGED <<row, hub, local, remote, pending, resume, reader, applied, client>>

Publish(r, frame, step) ==
    /\ live[r].at = frame
    /\ live' = [live EXCEPT ![r].events = Append(@, frame), ![r].at = step]
    /\ row' = Flushed(r, Append(live[r].events, frame))
    /\ UNCHANGED <<hub, local, remote, messages, pending, resume, reader, applied, client>>

\* A paused run stays in the hub and on the row.
Seal(r) ==
    /\ live[r].at = "seal"
    /\ live' = IF live[r].status = "paused" THEN At(r, "ending")
               ELSE [live EXCEPT ![r].at = "grace", ![r].status = "finished"]
    /\ UNCHANGED <<row, hub, local, remote, messages, pending, resume, reader, applied, client>>

\* A follower of the row polls every 0.3 seconds of the second for which a finished
\* run's frames are left: unless it is late, it has read them.
Followed(r) == /\ "late" \notin mix /\ rider.at = "poll" /\ ~rider.done
               /\ rider.run = r /\ row.run = r

\* Whatever run the row now tells of.
Clear(r) ==
    /\ live[r].at = "grace" /\ ~Followed(r)
    /\ live' = At(r, "ending")
    /\ row' = IF "started" \in ToSet(live[r].events) THEN Cleared ELSE row
    /\ UNCHANGED <<hub, local, remote, messages, pending, resume, reader, applied, client>>

End(r) ==
    LET p == live[r].proc
    IN  /\ live[r].at = "ending"
        /\ live' = [live EXCEPT ![r].at = "over", ![r].held = live[r].status = "paused"]
        /\ hub' = IF live[r].status = "paused" THEN hub ELSE Unbound(p, r)
        /\ IF "started" \in ToSet(live[r].events) THEN EndStream(p, r)
           ELSE UNCHANGED <<local, remote>>
        /\ UNCHANGED <<row, messages, pending, resume, reader, applied, client>>

Produce(r) ==
    \/ Accept(r) \/ Begin(r) \/ Stream(r) \/ Stopped(r) \/ Invoke(r) \/ Commit(r)
    \/ Fail(r) \/ Salvage(r) \/ Publish(r, "message", "done") \/ Publish(r, "done", "seal")
    \/ Seal(r) \/ Clear(r) \/ End(r)

-----------------------------------------------------------------------------
(* Stopping, deleting, looking *)

\* The client knows the stream's id from its first frame.
Begun(r) == live[r].at \in {"graph", "invoke", "commit", "failing", "message", "done", "seal",
                            "grace", "ending"} /\ live[r].kind # "sync"

Stop(p, stream) ==
    /\ "stop" \in mix /\ Owned /\ stops < MaxStops
    /\ \E r \in Runs : Begun(r) /\ stream \in {AnyRun, r}
    /\ RequestStop(p, stream)
    /\ stops' = stops + 1
    /\ live' = [r \in Runs |->
                  IF Begun(r) /\ stream \in {AnyRun, r}
                  THEN [live[r] EXCEPT !.asked = TRUE,
                                       !.heard = @ \/ (live[r].at = "graph" /\ live[r].proc = p
                                                       /\ \A q \in Runs \ {r} : Over(q))]
                  ELSE live[r]]
    /\ UNCHANGED <<row, hub, messages, pending, resume, reader, rider, applied, crashes, mix>>

Delete ==
    /\ "delete" \in mix /\ Owned
    /\ row' = [row EXCEPT !.archived = TRUE]
    /\ UNCHANGED <<live, hub, local, remote, messages, pending, resume, reader, applied, client>>

\* GET of the thread, or a stop of what no longer runs: the frames a dead run has left
\* are read ...
LastUser == LET users == {i \in DOMAIN messages : messages[i].role = "user"}
            IN  IF users = {} THEN 0 ELSE CHOOSE i \in users : \A j \in users : j <= i
Answered == \E i \in DOMAIN messages : i > LastUser /\ messages[i].role # "user"

Look(p) ==
    /\ reader[p].at = "idle" /\ Owned /\ ShouldClear(p)
    /\ "readers" \in mix \/ \A q \in Procs : reader[q].at = "idle"
    /\ reader' = [reader EXCEPT ![p] =
          [at |-> "store", run |-> row.run,
           partial |-> ~Answered /\ {"token", "message"} \cap ToSet(Logged) # {}]]
    /\ UNCHANGED <<row, live, hub, local, remote, messages, pending, resume, applied, client>>

\* ... and stored as its reply, unless the last message has one.
Materialise(p) ==
    /\ reader[p].at = "store"
    /\ messages' = IF reader[p].partial
                   THEN Append(messages, Said("assistant", reader[p].run, None)) ELSE messages
    /\ row' = Cleared
    /\ reader' = [reader EXCEPT ![p] = NoReader]
    /\ UNCHANGED <<live, hub, local, remote, pending, resume, applied, client>>

-----------------------------------------------------------------------------
(* Approving and dismissing *)

Card(i, act) == messages[i].act = act /\ messages[i].card = "pending"

\* One decision at a time, on a card the client has been shown.
Resume(p, approved) ==
    /\ "resume" \in mix /\ Owned /\ \A q \in Procs : resume[q].at = "idle"
    /\ pending # None /\ \E i \in DOMAIN messages : Card(i, pending)
    /\ resume' = [resume EXCEPT ![p] =
          [at |-> "graph", run |-> pending, approved |-> approved, had |-> row.run # None,
           applied |-> FALSE, walk |-> Go(Fresh, "await_action_approval")]]
    /\ UNCHANGED <<row, live, hub, local, remote, messages, pending, reader, applied, client>>

\* The graph goes on from the interrupt, which the next checkpoint no longer has.
Proceed(p) ==
    LET walk == resume[p].walk
    IN  /\ resume[p].at = "graph"
        /\ IF walk.node = "await_action_approval"
           THEN /\ pending' = None
                /\ resume' = [resume EXCEPT ![p].walk = AfterApproval(walk, resume[p].approved)]
           ELSE /\ UNCHANGED pending
                /\ \E next \in GraphStep(resume[p].run, walk), done \in CarriesOut(walk) :
                      resume' = [resume EXCEPT ![p].walk = next,
                                   ![p].at = IF Halted(next) THEN "settle" ELSE "graph",
                                   ![p].applied = @ \/ done]
        /\ UNCHANGED <<row, live, hub, local, remote, messages, reader, applied, client>>

\* The last card of the action.
Settled(act, status) ==
    LET cards == {i \in DOMAIN messages : Card(i, act)}
        last == CHOOSE i \in cards : \A j \in cards : j <= i
    IN  IF cards = {} THEN messages ELSE [messages EXCEPT ![last].card = status]

\* The card, the action's own changes, the outcome and the row are one transaction.
Settle(p) ==
    LET act == resume[p].run
        paused == ForThread(p) # None /\ live[ForThread(p)].status = "paused"
    IN  /\ resume[p].at = "settle"
        /\ messages' = Append(Settled(act, IF resume[p].approved THEN "executed" ELSE "rejected"),
                              Said("outcome", act, None))
        /\ applied' = [applied EXCEPT ![act] = IF resume[p].applied THEN @ + 1 ELSE @]
        /\ row' = IF resume[p].had THEN Cleared ELSE row
        /\ IF paused THEN /\ live' = [live EXCEPT ![hub[p]].status = "finished",
                                                  ![hub[p]].held = FALSE]
                          /\ hub' = [hub EXCEPT ![p] = None]
           ELSE UNCHANGED <<live, hub>>
        /\ resume' = [resume EXCEPT ![p] = NoResume]
        /\ UNCHANGED <<local, remote, pending, reader, client>>

\* The action or its commit fails; the checkpoint keeps what it has.
FailResume(p) ==
    /\ "fail" \in mix /\ resume[p].at # "idle"
    /\ resume' = [resume EXCEPT ![p] = NoResume]
    /\ UNCHANGED <<row, live, hub, local, remote, messages, pending, reader, applied, client>>

-----------------------------------------------------------------------------
(* Following a run *)

\* From any frame on: in the run's process from its buffer, elsewhere from the row.  A
\* paused run that the row has lost is dropped.
Join(p, r) ==
    LET stale == Held(p, r) /\ live[r].status = "paused" /\ row.run # r
        near == Held(p, r) /\ live[r].status # "finished" /\ ~stale
        far == row.run = r /\ ~IsStale
    IN  /\ "follow" \in mix /\ Owned /\ rider.at = "idle" /\ Begun(r)
        /\ live' = IF stale THEN [live EXCEPT ![r].held = FALSE] ELSE live
        /\ hub' = IF stale THEN Unbound(p, r) ELSE hub
        /\ \/ /\ near
              /\ rider' = [NoRider EXCEPT !.at = "live", !.proc = p, !.run = r]
           \/ /\ ~near /\ far
              /\ \E cursor \in 0 .. row.seen :
                    rider' = [NoRider EXCEPT !.at = "poll", !.proc = p, !.run = r, !.cursor = cursor,
                                             !.done = cursor > 0 /\ Logged[cursor] = "done"]
        /\ UNCHANGED <<row, local, remote, messages, pending, resume, reader, applied,
                       stops, crashes, mix>>

Read(frames) == {frames[i] : i \in rider.cursor + 1 .. Len(frames)}

\* Mutant: a run that pauses leaves its followers waiting.
ClosedWhenFinished(r) == live[r].status = "finished"

\* A run that pauses closes its followers' streams too.
Closed(r) == live[r].status = "finished" \/ live[r].at \in {"ending", "over"}

Follow ==
    LET run == live[rider.run]
    IN  /\ rider.at = "live" /\ (rider.cursor < Len(run.events) \/ Closed(rider.run))
        /\ rider' = [rider EXCEPT !.cursor = Len(run.events),
                        !.done = @ \/ "done" \in Read(run.events),
                        !.at = IF rider.cursor < Len(run.events) THEN "live" ELSE "ended"]
        /\ UNCHANGED <<row, live, hub, local, remote, messages, pending, resume, reader, applied,
                       stops, crashes, mix>>

\* Whatever the row has beyond the cursor is sent before its run is looked at.
Poll ==
    LET done == "done" \in Read(Logged)
        over == done \/ row.run # rider.run \/ row.status = "paused" \/ IsStale
    IN  /\ rider.at = "poll"
        /\ rider' = [rider EXCEPT !.cursor = IF row.seen > @ THEN row.seen ELSE @,
                        !.done = @ \/ done,
                        !.foreign = @ \/ (~rider.done /\ row.run # rider.run /\ Read(Logged) # {}),
                        !.at = IF over THEN "ended" ELSE "poll"]
        /\ rider' # rider
        /\ UNCHANGED <<row, live, hub, local, remote, messages, pending, resume, reader, applied,
                       stops, crashes, mix>>

-----------------------------------------------------------------------------
(* Crashes and time *)

\* What a process held is gone; what it was doing is dropped.
Crash(p) ==
    /\ "crash" \in mix /\ crashes < MaxCrashes
    /\ crashes' = crashes + 1
    /\ live' = [r \in Runs |->
                  IF live[r].proc # p THEN live[r]
                  ELSE [live[r] EXCEPT !.held = FALSE,
                          !.at = IF @ \in {"unused", "over", "refused"} THEN @ ELSE "dead"]]
    /\ hub' = [hub EXCEPT ![p] = None]
    /\ local' = [local EXCEPT ![p] = {}]
    /\ resume' = [resume EXCEPT ![p] = NoResume]
    /\ reader' = [reader EXCEPT ![p] = NoReader]
    /\ rider' = IF rider.at \in {"live", "poll"} /\ rider.proc = p
                THEN [rider EXCEPT !.at = "broken"] ELSE rider
    /\ UNCHANGED <<row, remote, messages, pending, applied, stops, mix>>

Time ==
    /\ Age("stall" \in mix) \/ \E r \in Runs : Beat(r)
    /\ UNCHANGED <<live, hub, local, remote, messages, pending, resume, reader, applied, client>>

Shared ==
    \/ Follow \/ Poll \/ Time
    \/ \E p \in Procs : Crash(p) \/ Materialise(p) \/ Proceed(p) \/ Settle(p) \/ FailResume(p)
    \/ \E r \in Runs : Spawn(r) \/ Produce(r)

Tutor ==
    \/ Delete
    \/ \E p \in Procs : \/ Look(p)
                        \/ \E approved \in BOOLEAN : Resume(p, approved)
                        \/ \E stream \in Runs \cup {AnyRun} : Stop(p, stream)
    \/ \E r \in Runs : \/ Conclude(r, Again(r))
                      \/ \E p \in Procs : \/ Check(r, p) \/ StartThread(r, p)
                                          \/ Post(r, p, FALSE) \/ Join(p, r)

-----------------------------------------------------------------------------
(* What holds *)

\* Every process, thread row, message and request is in a state the code can store, and no
\* search is rewritten more than MaxRewrites times.
TypeOK ==
    /\ row \in Thread /\ live \in [Runs -> Run]
    /\ hub \in [Procs -> Runs \cup {None}]
    /\ local \in [Procs -> SUBSET (Runs \cup {AnyRun})] /\ remote \in Runs \cup {None, AnyRun}
    /\ messages \in Seq(Message) /\ pending \in Runs \cup {None}
    /\ \A r \in Runs : Len(live[r].events) <= 4
    /\ \A p \in Procs : resume[p].at \in {"idle", "graph", "settle"} /\ resume[p].walk \in Walk
                         /\ reader[p].at \in {"idle", "store"}
    /\ rider.at \in {"idle", "live", "poll", "ended", "broken"} /\ rider.cursor \in 0 .. 4

\* Two requests may pass the checks together; and the tutor does not keep a message
\* answered within its request from a thread on which a reply runs.
Overlapping == "race" \in mix \/ ({"tutor", "sync"} \subseteq mix /\ "one" \notin mix)

\* A message is answered once, by its run or by what a dead run has shown; but for
\* what a dead run had stored and showed again after the next message.
Reply(i, r) == messages[i].role = "assistant" /\ messages[i].run = r
AnsweredOnce == {"stall", "readers"} \cap mix = {} =>
    \A r \in Runs : \A i, j \in DOMAIN messages :
        Reply(i, r) /\ Reply(j, r) /\ i < j =>
            live[r].at = "dead" /\ \E k \in i + 1 .. j - 1 : messages[k].role = "user"

\* One reply at a time is made on a thread, whichever process takes the message.
Producing(r) == live[r].at \in {"graph", "invoke", "commit", "failing"} /\ live[r].status = "running"
OneReply == {"stall", "crash"} \cap mix = {} /\ ~Overlapping =>
    \A q, r \in Runs : Producing(q) /\ Producing(r) => q = r

\* No run is stopped by a request made before it began, or for another run ...
NoStrayStop == \A r \in Runs : live[r].ending = "stopped" => live[r].asked
\* ... and a stop that reaches the run's process while its graph runs stops it.
StopHeeded == "race" \notin mix =>
    \A r \in Runs : live[r].heard /\ live[r].at \notin {"graph", "dead"} =>
        live[r].ending \in {"stopped", "failed"}

\* A client that follows a run, in its process or over the row, gets its frames and no
\* other's until its "done", as long as no run of the thread has paused.
FollowerServed ==
    {"late", "stall", "race"} \cap mix = {} /\ (\A r \in Runs : live[r].ending # "card") =>
        /\ ~rider.foreign
        /\ rider.at = "ended" => rider.done \/ live[rider.run].at = "dead"

\* All of these: what a student is answered, on every process and after every stop.
RepliesSound == AnsweredOnce /\ OneReply /\ NoStrayStop /\ StopHeeded /\ FollowerServed

\* An action is carried out at most once, after an approval, with its card to show; a
\* dismissed one is not.
ActedOnce == ~Overlapping =>
    \A r \in Runs :
        /\ applied[r] <= 1
        /\ applied[r] = 1 => \E i \in DOMAIN messages : messages[i].act = r /\ messages[i].card = "executed"
        /\ \A i \in DOMAIN messages : messages[i].act = r /\ messages[i].card = "rejected" => applied[r] = 0

\* An action that waits has a card, or its run is about to store it: a thread that
\* refuses messages until a decision shows what is to be decided.
WaitingIsShown ==
    {"stop", "crash", "fail", "stall", "race"} \cap mix = {} /\ pending # None =>
        \/ \E i \in DOMAIN messages : Card(i, pending)
        \/ live[pending].at \in {"graph", "invoke", "commit"}

\* A card asks for an action that waits, or that is being decided.
CardIsWaiting ==
    {"fail", "race", "crash", "new"} \cap mix = {} =>
        \A i \in DOMAIN messages : messages[i].card = "pending" =>
            \/ pending = messages[i].act
            \/ \E p \in Procs : resume[p].run = messages[i].act

\* All of these: what a student has approved or dismissed, and is asked.
DecisionsSound == ActedOnce /\ WaitingIsShown /\ CardIsWaiting
=============================================================================
