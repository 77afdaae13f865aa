----------------------------- MODULE AgentRuns ------------------------------
(***************************************************************************)
(* Agent runs that outlive the request that started them (app/ai/core:       *)
(* runs.py, streaming.py, stream_control.py, stream_events.py;              *)
(* app/ai/tutor/runs.py, app/ai/admin/runs.py), on one chat thread and the   *)
(* processes that serve it.                                                *)
(*                                                                         *)
(* A run publishes frames in its process and copies them onto the thread's   *)
(* row, where another process can read them.  As the copy is always the      *)
(* first frames of one run, the row is modelled as whose they are and how     *)
(* many.  A run is numbered by its start; its frames' texts are left out.    *)
(* Redis may miss a command, but not the deletion in begin_stream.          *)
(***************************************************************************)
EXTENDS Naturals, Sequences, SequencesExt

CONSTANTS
    Procs,      \* server processes
    MaxRuns     \* messages sent to the thread

ASSUME RunsAssumption == MaxRuns \in Nat \ {0}

Runs == 1 .. MaxRuns
None == 0
AnyRun == MaxRuns + 1      \* the stop that names no stream

VARIABLES
    row,        \* the thread's row: there, archived, activeRun, runEvents
    live,       \* [Runs -> the run as its process holds it, and its producer]
    hub,        \* [Procs -> RunHub._by_thread of the thread]
    local,      \* [Procs -> stream_control._cancelled]
    remote      \* the cancel key in Redis

Frames == {"started", "token", "message", "done"}
Thread == [there : BOOLEAN, archived : BOOLEAN, run : Runs \cup {None},
           status : {"none", "running", "paused"}, seen : 0 .. 4, fresh : BOOLEAN]

\* The row's frames.
Logged == IF row.run = None THEN <<>> ELSE SubSeq(live[row.run].events, 1, row.seen)

-----------------------------------------------------------------------------
(* The hub *)

\* A finished run is as good as none.
ForThread(p) ==
    IF hub[p] = None THEN None
    ELSE IF live[hub[p]].status = "finished" THEN None ELSE hub[p]

\* _runs[r] of process p.
Held(p, r) == live[r].held /\ live[r].proc = p

Bound(p, r) == [hub EXCEPT ![p] = r]
Unbound(p, r) == [hub EXCEPT ![p] = IF @ = r THEN None ELSE @]

-----------------------------------------------------------------------------
(* The row *)

IsStale == row.status = "running" /\ ~row.fresh

\* Frames with whether the run is paused.  A run that was "finished" meanwhile is
\* written as running.
Flushed(r, events) ==
    [row EXCEPT !.run = r, !.seen = Len(events), !.fresh = TRUE,
                !.status = IF live[r].status = "paused" THEN "paused" ELSE "running"]
Cleared == [row EXCEPT !.run = None, !.status = "none", !.seen = 0, !.fresh = TRUE]

\* publish, then note: a token alone may wait for the next flush.
Emitted(r, frame) ==
    LET events == Append(live[r].events, frame)
    IN  {Flushed(r, events)} \cup (IF frame = "token" THEN {row} ELSE {})

\* Whether a run has a task that beats.
Beating(r) == /\ live[r].at \in {"graph", "invoke", "commit", "failing", "message", "done"}
              /\ live[r].status = "running" /\ live[r].kind = "stream"

\* UPDATE ... WHERE activeRun->>'runId' = :run_id.
Beat(r) == /\ Beating(r) /\ row.run = r /\ row.status = "running" /\ ~row.fresh
           /\ row' = [row EXCEPT !.fresh = TRUE]

\* Forty-five seconds without a beat.  A producer that is alive misses them only when
\* its process stalls.
Age(stalls) ==
    /\ row.status = "running" /\ row.fresh
    /\ stalls \/ live[row.run].at \in {"dead", "over"}
    /\ row' = [row EXCEPT !.fresh = FALSE]

ShouldClear(p) == IsStale /\ ForThread(p) = None

-----------------------------------------------------------------------------
(* Stop tokens *)

BeginStream(p, r) ==
    /\ local' = [local EXCEPT ![p] = @ \ {AnyRun, r}]
    /\ remote' = None
EndStream(p, r) ==
    /\ local' = [local EXCEPT ![p] = @ \ {AnyRun, r}]
    /\ remote' = None

\* `stream' is a run or AnyRun.
RequestStop(p, stream) ==
    /\ local' = [local EXCEPT ![p] = @ \cup {stream}]
    /\ remote' \in {remote, stream}

\* A token of this process is always seen, Redis is asked now and then.
LocalStop(r) == local[live[r].proc] \cap {AnyRun, r} # {}
MayStop(r) == LocalStop(r) \/ remote \in {AnyRun, r}
=============================================================================
