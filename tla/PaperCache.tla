------------------------------ MODULE PaperCache ------------------------------
(***************************************************************************)
(* One provider paper in Redis: get_or_fill_paper of                       *)
(* app/services/provider/cache.py, with the fetch that fills it and the    *)
(* lock (the `fill' key, SET NX EX) that is meant to let one request fetch *)
(* while the others wait.                                                  *)
(*                                                                         *)
(* Every await is a step of its own, so that other requests run between    *)
(* any two Redis commands.  A command is atomic, and so are the two Lua    *)
(* scripts; its reply may be lost after it has taken effect.  Question     *)
(* payloads are their identities (sample_item_identity).                   *)
(***************************************************************************)
EXTENDS Naturals

CONSTANTS
    Requests,   \* requests for the paper that may be in progress at once
    Nobody,     \* the lock's value when its key is absent
    Items,      \* the questions the provider has
    Mode,       \* paper_fetch_mode: one COMPLETE walk, or random SAMPLED batches
    MaxPolls    \* polls before PAPER_FILL_WAIT_SECONDS have passed

ASSUME CacheAssumption ==
    /\ Nobody \notin Requests
    /\ Mode \in {"COMPLETE", "SAMPLED"}
    /\ MaxPolls \in Nat \ {0}

\* A paper as stored or as fetched: complete, a sampled pool, a confirmed 404, or
\* (fetched only) a failure.  A 404 is a complete answer.
Paper == [kind : {"none", "complete", "sampled", "missing", "failed"}, items : SUBSET Items]
NoPaper == [kind |-> "none", items |-> {}]
Stored == [kind : {"none", "complete", "sampled", "missing"}, items : SUBSET Items]

VARIABLES
    paper,      \* the hash at the data key; NoPaper when it is absent
    lock,       \* the token at the fill key, named by the request that drew it
    request,    \* [Requests -> Request]
    overran     \* history: the lock has expired under a request still filling

vars == <<paper, lock, request, overran>>

Labels == {"idle", "read", "acquire", "reread", "load", "publish", "release", "poll", "check"}
Request == [at : Labels,
            enrich : BOOLEAN,       \* enrich_sample
            cached : Stored,        \* the pool read under the lock
            result : Paper,         \* what it will publish
            polls : 0 .. MaxPolls,
            refused : BOOLEAN]      \* it ended with "could not be fully cached"

\* A request with nothing read yet.
Blank(at, enrich, refused) ==
    [at |-> at, enrich |-> enrich, cached |-> NoPaper, result |-> NoPaper,
     polls |-> 0, refused |-> refused]
Idle == Blank("idle", FALSE, FALSE)

TypeOK ==
    /\ paper \in Stored
    /\ lock \in Requests \cup {Nobody}
    /\ request \in [Requests -> Request]
    /\ overran \in BOOLEAN

Init ==
    /\ paper = NoPaper
    /\ lock = Nobody
    /\ request = [r \in Requests |-> Idle]
    /\ overran = FALSE

-----------------------------------------------------------------------------
(* What the loader returns, and what of it is stored *)

\* fetch_provider_paper: a failure stands for an error status, a page walk cut
\* short, an empty batch, an open circuit.
Fetched ==
    {[kind |-> "missing", items |-> {}], [kind |-> "failed", items |-> {}]} \cup
    IF Mode = "COMPLETE" THEN {[kind |-> "complete", items |-> Items]}
    ELSE {[kind |-> "sampled", items |-> S] : S \in (SUBSET Items) \ {{}}}

\* A cached paper ends the request, unless it is a pool to be enriched.
Serves(p, enrich) == p.kind # "none" /\ (enrich => p.kind # "sampled")

\* Enrichment appends what the batch adds to the pool that was read.
Merged(cached, answer) ==
    IF cached.kind = "sampled" /\ answer.kind \in {"complete", "sampled"}
    THEN [kind |-> "sampled", items |-> cached.items \cup answer.items]
    ELSE answer

-----------------------------------------------------------------------------
(* A request *)

Become(r, x) == request' = [request EXCEPT ![r] = x]
Goto(r, label) == request' = [request EXCEPT ![r].at = label]

Start(r) ==
    /\ request[r].at = "idle"
    /\ \E enrich \in (IF Mode = "SAMPLED" THEN BOOLEAN ELSE {FALSE}) :
          Become(r, Blank("read", enrich, FALSE))
    /\ UNCHANGED <<paper, lock, overran>>

Read(r) ==
    /\ request[r].at = "read"
    /\ IF Serves(paper, request[r].enrich) THEN Become(r, Idle) ELSE Goto(r, "acquire")
    /\ UNCHANGED <<paper, lock, overran>>

\* Mutant: SET without NX.
AcquireAlways(r) ==
    /\ request[r].at = "acquire"
    /\ lock' = r /\ Goto(r, "reread")
    /\ UNCHANGED <<paper, overran>>

\* SET NX EX with a fresh token.
Acquire(r) ==
    /\ request[r].at = "acquire"
    /\ \/ lock = Nobody /\ lock' = r /\ Goto(r, "reread")
       \/ lock # Nobody /\ Goto(r, "poll") /\ UNCHANGED lock
    /\ UNCHANGED <<paper, overran>>

\* Mutant: the answer from before the lock is taken to be current.
RereadSkipped(r) ==
    /\ request[r].at = "reread"
    /\ Goto(r, "load")
    /\ UNCHANGED <<paper, lock, overran>>

\* The cache is read again under the lock.
Reread(r) ==
    /\ request[r].at = "reread"
    /\ IF Serves(paper, request[r].enrich) THEN Goto(r, "release")
       ELSE Become(r, [request[r] EXCEPT !.at = "load", !.cached = paper])
    /\ UNCHANGED <<paper, lock, overran>>

\* Mutant: whatever came back is stored.
LoadKeepsFailure(r) ==
    /\ request[r].at = "load"
    /\ \E answer \in Fetched :
          Become(r, [request[r] EXCEPT !.at = "publish",
                                       !.result = Merged(request[r].cached, answer)])
    /\ UNCHANGED <<paper, lock, overran>>

\* loader() and the merge.  A failure is answered and not stored.
Load(r) ==
    /\ request[r].at = "load"
    /\ \E answer \in Fetched :
          LET result == Merged(request[r].cached, answer)
          IN IF result.kind = "failed" THEN Goto(r, "release")
             ELSE Become(r, [request[r] EXCEPT !.at = "publish", !.result = result])
    /\ UNCHANGED <<paper, lock, overran>>

\* The publish script: whatever the key holds is replaced, whoever has the lock.
Publish(r) ==
    /\ request[r].at = "publish"
    /\ paper' = request[r].result
    /\ Goto(r, "release")
    /\ UNCHANGED <<lock, overran>>

\* The release script compares the token.
Release(r) ==
    /\ request[r].at = "release"
    /\ lock' = IF lock = r THEN Nobody ELSE lock
    /\ Become(r, Idle)
    /\ UNCHANGED <<paper, overran>>

\* Mutant: the wait has no deadline.
PollForever(r) ==
    /\ request[r].at = "poll"
    /\ IF paper # NoPaper THEN Become(r, Idle)
       ELSE Become(r, [request[r] EXCEPT !.at = "check", !.polls = 0])
    /\ UNCHANGED <<paper, lock, overran>>

\* A waiter looks for the paper until its deadline; it takes any paper, even
\* the pool it was to enrich.
Poll(r) ==
    /\ request[r].at = "poll"
    /\ IF request[r].polls = MaxPolls \/ paper # NoPaper
       THEN Become(r, Idle) ELSE Goto(r, "check")
    /\ UNCHANGED <<paper, lock, overran>>

\* ... and gives up once the lock is gone.
Check(r) ==
    /\ request[r].at = "check"
    /\ \/ lock = Nobody /\ Become(r, Blank("idle", FALSE, TRUE))
       \/ /\ lock # Nobody /\ request[r].polls < MaxPolls
          /\ Become(r, [request[r] EXCEPT !.at = "poll", !.polls = request[r].polls + 1])
    /\ UNCHANGED <<paper, lock, overran>>

-----------------------------------------------------------------------------
(* What fails *)

Filling(r) == request[r].at \in {"reread", "load", "publish", "release"}

\* A Redis command or the loader raises: the request answers 503.  Under the
\* lock, `finally' releases it first (and swallows a release that fails).
Outage(r) ==
    /\ request[r].at # "idle"
    /\ IF request[r].at \in {"reread", "load", "publish"} THEN Goto(r, "release")
       ELSE Become(r, Idle)
    /\ UNCHANGED <<paper, lock, overran>>

\* The process stops in the middle of a fill: nothing is released.
Crash(r) ==
    /\ Filling(r)
    /\ Become(r, Idle)
    /\ UNCHANGED <<paper, lock, overran>>

\* The lock is taken and the reply lost: no request will release it.
AcquireLost(r) ==
    /\ request[r].at = "acquire" /\ lock = Nobody
    /\ lock' = r
    /\ Become(r, Idle)
    /\ UNCHANGED <<paper, overran>>

\* PAPER_FILL_LOCK_TTL_SECONDS have passed.  A page walk may take longer.
LockExpires ==
    /\ lock # Nobody
    /\ lock' = Nobody
    /\ overran' = (overran \/ Filling(lock))
    /\ UNCHANGED <<paper, request>>

\* PAPER_CACHE_TTL_SECONDS have passed, or Redis evicts the key.
PaperExpires ==
    /\ paper # NoPaper
    /\ paper' = NoPaper
    /\ UNCHANGED <<lock, request, overran>>

Step(r) ==
    \/ Read(r) \/ Acquire(r) \/ Reread(r) \/ Load(r) \/ Publish(r) \/ Release(r)
    \/ Poll(r) \/ Check(r)

Next ==
    \/ \E r \in Requests : Start(r) \/ Step(r) \/ Outage(r) \/ Crash(r) \/ AcquireLost(r)
    \/ LockExpires \/ PaperExpires

Spec == Init /\ [][Next]_vars

\* A request in progress goes on (the loop sleeps a quarter of a second between
\* polls, the loader's HTTP client has a timeout).  Nothing says that a key expires
\* in time: nobody may depend on it.
FairSpec == Spec /\ \A r \in Requests : WF_vars(Step(r))

-----------------------------------------------------------------------------
(* Safety *)

\* "share one provider fill": as long as no fill has outlived its lock, one
\* request at a time is between taking the lock and releasing it.
OneFiller ==
    ~overran => \A r, s \in Requests : Filling(r) /\ Filling(s) => r = s

\* The second look at the cache counts: as long as no fill has outlived its lock,
\* nothing is published between that look and the request's own publication, so
\* no fetch is paid for a paper already there and no merge is of a stale pool.
SnapshotCurrent ==
    ~overran => \A r \in Requests :
        request[r].at \in {"load", "publish"} => paper \in {NoPaper, request[r].cached}

\* "append additional random batches to the same pool": a pool in place only
\* grows, as long as no fill has outlived its lock.
PoolGrows ==
    [][~overran /\ paper.kind = "sampled" /\ paper'.kind = "sampled"
         => paper.items \subseteq paper'.items]_vars

\* Not even a request that outlived its lock takes away the lock of another:
\* while s acts, the lock of r # s stays.
OthersKeepTheLock ==
    [][\A r, s \in Requests :
         r # s /\ lock = r /\ request'[s] # request[s] => lock' = r]_vars

-----------------------------------------------------------------------------
(* Liveness *)

\* Every request is answered, also the waiter whose filler stopped without
\* releasing the lock.
RequestsEnd == \A r \in Requests : request[r].at # "idle" ~> request[r].at = "idle"

-----------------------------------------------------------------------------
(* What the messages say, refuted by the run that checks it *)

\* "The question paper could not be fully cached": a waiter is told so only when
\* there is no paper.
RefusedMeansAbsent ==
    [][\A r \in Requests :
         ~request[r].refused /\ request'[r].refused => paper = NoPaper]_vars
=============================================================================
