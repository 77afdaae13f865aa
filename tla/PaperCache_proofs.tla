--------------------------- MODULE PaperCache_proofs ---------------------------
(***************************************************************************)
(* Proofs about PaperCache, for any requests, questions and fetch mode.    *)
(*                                                                         *)
(* The argument: as long as no lock has expired under its holder, being    *)
(* between the lock and its release means holding the lock (Held), so one  *)
(* filler excludes the others, nobody else publishes after its second look *)
(* at the cache (SnapshotCurrent), and what it publishes contains the pool *)
(* it replaces (Extends).                                                  *)
(***************************************************************************)
EXTENDS PaperCache, TLAPS

\* Before any lock has expired under its holder, a filler holds the lock.
Held == ~overran => \A r \in Requests : Filling(r) => lock = r

\* What is about to be published contains the pool it was merged with.
Extends ==
    \A r \in Requests :
        request[r].at = "publish" =>
            /\ request[r].result \in Stored
            /\ request[r].cached.kind = "sampled" /\ request[r].result.kind = "sampled"
                 => request[r].cached.items \subseteq request[r].result.items

\* Load with the loader's answer.
LoadWith(r, answer) ==
    LET result == Merged(request[r].cached, answer)
    IN IF result.kind = "failed" THEN Goto(r, "release")
       ELSE Become(r, [request[r] EXCEPT !.at = "publish", !.result = result])

IInv == TypeOK /\ Held /\ SnapshotCurrent /\ Extends

LEMMA NoPaperTyped == NoPaper \in Stored /\ NoPaper \in Paper
  BY DEF NoPaper, Stored, Paper

\* The ways in which a step changes one request keep the types.
LEMMA BlankTyped ==
    \A at \in Labels, enrich, refused \in BOOLEAN : Blank(at, enrich, refused) \in Request
  BY CacheAssumption, NoPaperTyped DEF Blank, Request

LEMMA Replaced ==
    TypeOK => \A r \in Requests, x \in Request :
                 [request EXCEPT ![r] = x] \in [Requests -> Request]
  BY DEF TypeOK

LEMMA Moved ==
    TypeOK => \A r \in Requests, label \in Labels :
                 [request EXCEPT ![r].at = label] \in [Requests -> Request]
  BY DEF TypeOK, Request

LEMMA FetchedTyped == Fetched \subseteq Paper
  BY DEF Fetched, Paper

\* A merge contains the pool it started from, and only a failure is not stored.
LEMMA MergedExtends ==
    ASSUME NEW cached \in Stored, NEW answer \in Fetched,
           Merged(cached, answer).kind # "failed"
    PROVE  /\ Merged(cached, answer) \in Stored
           /\ cached.kind = "sampled" /\ Merged(cached, answer).kind = "sampled"
                => cached.items \subseteq Merged(cached, answer).items
  <1>1. answer \in Paper  BY FetchedTyped
  <1>2. answer.kind \in {"missing", "failed", "complete", "sampled"}
    BY DEF Fetched
  <1>3. CASE cached.kind = "sampled" /\ answer.kind \in {"complete", "sampled"}
    BY <1>1, <1>3 DEF Merged, Stored, Paper
  <1>4. CASE ~(cached.kind = "sampled" /\ answer.kind \in {"complete", "sampled"})
    BY <1>1, <1>2, <1>4 DEF Merged, Stored, Paper
  <1> QED  BY <1>3, <1>4

-----------------------------------------------------------------------------
(* Every step preserves the types *)

\* The loader's answer either ends the fill or is to be published, with all of
\* the pool it was merged with.
LEMMA Loaded ==
    ASSUME TypeOK, NEW r \in Requests, Load(r)
    PROVE  \/ request' = [request EXCEPT ![r].at = "release"]
           \/ \E result \in Stored :
                /\ request[r].cached.kind = "sampled" /\ result.kind = "sampled"
                     => request[r].cached.items \subseteq result.items
                /\ request' = [request EXCEPT ![r] = [request[r] EXCEPT !.at = "publish",
                                                                         !.result = result]]
  <1>1. PICK answer \in Fetched : LoadWith(r, answer)
    BY DEF Load, LoadWith
  <1>2. request[r].cached \in Stored  BY DEF TypeOK, Request
  <1>3. PICK result : result = Merged(request[r].cached, answer)  OBVIOUS
  <1>4. CASE result.kind = "failed"
    BY <1>1, <1>3, <1>4 DEF LoadWith, Goto
  <1>5. CASE result.kind # "failed"
    <2>1. /\ result \in Stored
          /\ request[r].cached.kind = "sampled" /\ result.kind = "sampled"
               => request[r].cached.items \subseteq result.items
      BY <1>2, <1>3, <1>5, MergedExtends
    <2>2. request' = [request EXCEPT ![r] = [request[r] EXCEPT !.at = "publish",
                                                               !.result = result]]
      BY <1>1, <1>3, <1>5 DEF LoadWith, Become
    <2> QED  BY <2>1, <2>2
  <1> QED  BY <1>4, <1>5

\* The requests, first.
LEMMA RequestsTyped ==
    ASSUME TypeOK, Extends, NEW r \in Requests,
           Start(r) \/ Step(r) \/ Outage(r) \/ Crash(r) \/ AcquireLost(r)
    PROVE  request' \in [Requests -> Request]
  <1>a. Idle \in Request  BY BlankTyped DEF Idle, Labels
  <1>b. {"acquire", "reread", "poll", "release", "check"} \subseteq Labels  BY DEF Labels
  <1>1. CASE Start(r)
    <2>1. PICK enrich \in BOOLEAN :
            request' = [request EXCEPT ![r] = Blank("read", enrich, FALSE)]
      BY <1>1 DEF Start, Become
    <2>2. Blank("read", enrich, FALSE) \in Request  BY BlankTyped DEF Labels
    <2> QED  BY <2>1, <2>2, Replaced
  <1>2. CASE Read(r)
    <2>1. \/ request' = [request EXCEPT ![r] = Idle]
          \/ request' = [request EXCEPT ![r].at = "acquire"]
      BY <1>2 DEF Read, Become, Goto
    <2> QED  BY <2>1, <1>a, <1>b, Moved, Replaced
  <1>3. CASE Acquire(r)
    <2>1. \/ request' = [request EXCEPT ![r].at = "reread"]
          \/ request' = [request EXCEPT ![r].at = "poll"]
      BY <1>3 DEF Acquire, Become, Goto
    <2> QED  BY <2>1, <1>a, <1>b, Moved, Replaced
  <1>4. CASE Reread(r)
    <2>1. \/ request' = [request EXCEPT ![r].at = "release"]
          \/ request' = [request EXCEPT ![r] =
                [request[r] EXCEPT !.at = "load", !.cached = paper]]
      BY <1>4 DEF Reread, Become, Goto
    <2>2. [request[r] EXCEPT !.at = "load", !.cached = paper] \in Request
      BY DEF TypeOK, Request, Labels
    <2> QED  BY <2>1, <2>2, <1>b, Moved, Replaced
  <1>5. CASE Load(r)
    <2>1. CASE request' = [request EXCEPT ![r].at = "release"]
      BY <2>1, <1>b, Moved
    <2>2. ASSUME NEW result \in Stored,
                 request' = [request EXCEPT ![r] = [request[r] EXCEPT !.at = "publish",
                                                                      !.result = result]]
          PROVE  request' \in [Requests -> Request]
      <3>1. result \in Paper  BY DEF Stored, Paper
      <3>2. [request[r] EXCEPT !.at = "publish", !.result = result] \in Request
        BY <3>1 DEF TypeOK, Request, Labels
      <3> QED  BY <2>2, <3>2, Replaced
    <2> QED  BY <1>5, <2>1, <2>2, Loaded
  <1>6. CASE Publish(r)
    <2>1. request' = [request EXCEPT ![r].at = "release"]
      BY <1>6 DEF Publish, Become, Goto
    <2> QED  BY <2>1, <1>a, <1>b, Moved, Replaced
  <1>7. CASE Release(r)
    <2>1. request' = [request EXCEPT ![r] = Idle]
      BY <1>7 DEF Release, Become, Goto
    <2> QED  BY <2>1, <1>a, <1>b, Moved, Replaced
  <1>8. CASE Poll(r)
    <2>1. \/ request' = [request EXCEPT ![r] = Idle]
          \/ request' = [request EXCEPT ![r].at = "check"]
      BY <1>8 DEF Poll, Become, Goto
    <2> QED  BY <2>1, <1>a, <1>b, Moved, Replaced
  <1>9. CASE Check(r)
    <2>1. CASE request' = [request EXCEPT ![r] = Blank("idle", FALSE, TRUE)]
      <3>1. Blank("idle", FALSE, TRUE) \in Request  BY BlankTyped DEF Labels
      <3> QED  BY <2>1, <3>1, Replaced
    <2>2. CASE /\ request[r].polls < MaxPolls
               /\ request' = [request EXCEPT ![r] =
                     [request[r] EXCEPT !.at = "poll", !.polls = request[r].polls + 1]]
      <3>1. request[r].polls \in 0 .. MaxPolls  BY DEF TypeOK, Request
      <3>2. request[r].polls + 1 \in 0 .. MaxPolls
        BY <2>2, <3>1, CacheAssumption DEF CacheAssumption
      <3>3. [request[r] EXCEPT !.at = "poll", !.polls = request[r].polls + 1] \in Request
        BY <3>2 DEF TypeOK, Request, Labels
      <3> QED  BY <2>2, <3>3, Replaced
    <2> QED  BY <1>9, <2>1, <2>2 DEF Check, Become
  <1>10. CASE Outage(r)
    <2>1. \/ request' = [request EXCEPT ![r] = Idle]
          \/ request' = [request EXCEPT ![r].at = "release"]
      BY <1>10 DEF Outage, Become, Goto
    <2> QED  BY <2>1, <1>a, <1>b, Moved, Replaced
  <1>11. CASE Crash(r)
    <2>1. request' = [request EXCEPT ![r] = Idle]
      BY <1>11 DEF Crash, Become, Goto
    <2> QED  BY <2>1, <1>a, <1>b, Moved, Replaced
  <1>12. CASE AcquireLost(r)
    <2>1. request' = [request EXCEPT ![r] = Idle]
      BY <1>12 DEF AcquireLost, Become, Goto
    <2> QED  BY <2>1, <1>a, <1>b, Moved, Replaced
  <1> QED
    BY <1>1, <1>2, <1>3, <1>4, <1>5, <1>6, <1>7, <1>8, <1>9, <1>10, <1>11, <1>12 DEF Step

LEMMA TypeStep ==
    ASSUME TypeOK, Extends, [Next]_vars
    PROVE  TypeOK'
  <1>1. request' \in [Requests -> Request]
    <2>1. CASE LockExpires  BY <2>1 DEF LockExpires, TypeOK
    <2>2. CASE PaperExpires  BY <2>2 DEF PaperExpires, TypeOK
    <2>3. CASE UNCHANGED vars  BY <2>3 DEF vars, TypeOK
    <2> QED  BY <2>1, <2>2, <2>3, RequestsTyped DEF Next
  <1>2. paper' \in Stored
    <2>1. ASSUME NEW r \in Requests, Publish(r)  PROVE paper' \in Stored
      BY <2>1 DEF Publish, Extends
    <2>2. CASE PaperExpires  BY <2>2, NoPaperTyped DEF PaperExpires
    <2>3. CASE UNCHANGED paper  BY <2>3 DEF TypeOK
    <2> QED
      BY <2>1, <2>2, <2>3 DEF Next, vars, Step, Start, Read, Acquire, Reread, Load,
         Release, Poll, Check, Outage, Crash, AcquireLost, LockExpires
  <1>3. lock' \in Requests \cup {Nobody}
    BY DEF TypeOK, Next, vars, Step, Start, Read, Acquire, Reread, Load, Publish, Release,
       Poll, Check, Outage, Crash, AcquireLost, LockExpires, PaperExpires
  <1>4. overran' \in BOOLEAN
    BY DEF TypeOK, Next, vars, Step, Start, Read, Acquire, Reread, Load, Publish, Release,
       Poll, Check, Outage, Crash, AcquireLost, LockExpires, PaperExpires, Filling
  <1> QED  BY <1>1, <1>2, <1>3, <1>4 DEF TypeOK

-----------------------------------------------------------------------------
(* ... that fillers hold the lock *)

LEMMA HeldStep ==
    ASSUME IInv, [Next]_vars
    PROVE  Held'
  <1> USE CacheAssumption DEF IInv
  <1>1. ASSUME NEW r \in Requests, Start(r)  PROVE Held'
    BY <1>1 DEF Held, Filling, TypeOK, Request, Start, Become, Blank, Idle
  <1>2. ASSUME NEW r \in Requests, Read(r)  PROVE Held'
    BY <1>2 DEF Held, Filling, TypeOK, Request, Read, Become, Blank, Idle, Goto
  <1>3. ASSUME NEW r \in Requests, Acquire(r)  PROVE Held'
    BY <1>3 DEF Held, Filling, TypeOK, Request, Acquire, Goto
  <1>4. ASSUME NEW r \in Requests, Reread(r)  PROVE Held'
    BY <1>4 DEF Held, Filling, TypeOK, Request, Reread, Become, Blank, Idle, Goto
  <1>5. ASSUME NEW r \in Requests, Load(r)  PROVE Held'
    BY <1>5 DEF Held, Filling, TypeOK, Request, Load, Become, Blank, Idle, Goto
  <1>6. ASSUME NEW r \in Requests, Publish(r)  PROVE Held'
    BY <1>6 DEF Held, Filling, TypeOK, Request, Publish, Goto
  <1>7. ASSUME NEW r \in Requests, Release(r)  PROVE Held'
    BY <1>7 DEF Held, Filling, TypeOK, Request, Release, Become, Blank, Idle
  <1>8. ASSUME NEW r \in Requests, Poll(r)  PROVE Held'
    BY <1>8 DEF Held, Filling, TypeOK, Request, Poll, Become, Blank, Idle, Goto
  <1>9. ASSUME NEW r \in Requests, Check(r)  PROVE Held'
    <2>1. /\ request'[r].at \in {"idle", "poll"}
          /\ \A s \in Requests \ {r} : request'[s] = request[s]
          /\ UNCHANGED <<paper, lock, overran>>
      <3>1. CASE request' = [request EXCEPT ![r] = Blank("idle", FALSE, TRUE)]
        BY <1>9, <3>1 DEF TypeOK, Check, Blank, Request
      <3>2. CASE request' = [request EXCEPT ![r] =
                   [request[r] EXCEPT !.at = "poll", !.polls = request[r].polls + 1]]
        BY <1>9, <3>2 DEF TypeOK, Check, Request
      <3> QED  BY <1>9, <3>1, <3>2 DEF Check, Become
    <2> QED  BY <2>1 DEF Held, Filling
  <1>10. ASSUME NEW r \in Requests, Outage(r)  PROVE Held'
    BY <1>10 DEF Held, Filling, TypeOK, Request, Outage, Become, Blank, Idle, Goto
  <1>11. ASSUME NEW r \in Requests, Crash(r)  PROVE Held'
    BY <1>11 DEF Held, Filling, TypeOK, Request, Crash, Become, Blank, Idle
  <1>12. ASSUME NEW r \in Requests, AcquireLost(r)  PROVE Held'
    BY <1>12 DEF Held, Filling, TypeOK, Request, AcquireLost, Become, Blank, Idle
  <1>13. CASE LockExpires
    BY <1>13 DEF Held, Filling, TypeOK, Request, LockExpires
  <1>14. CASE PaperExpires
    BY <1>14 DEF Held, Filling, TypeOK, Request, PaperExpires
  <1>15. CASE UNCHANGED vars
    BY <1>15 DEF Held, Filling, TypeOK, Request, vars
  <1> QED
    BY <1>1, <1>2, <1>3, <1>4, <1>5, <1>6, <1>7, <1>8, <1>9, <1>10, <1>11, <1>12, <1>13, <1>14, <1>15 DEF Next, Step

-----------------------------------------------------------------------------
(* ... that nobody publishes behind a filler's back *)

LEMMA SnapshotStep ==
    ASSUME IInv, [Next]_vars
    PROVE  SnapshotCurrent'
  <1> USE CacheAssumption DEF IInv
  <1>1. ASSUME NEW r \in Requests, Start(r)  PROVE SnapshotCurrent'
    BY <1>1 DEF SnapshotCurrent, Held, Filling, TypeOK, Request, Start, Become, Blank, Idle
  <1>2. ASSUME NEW r \in Requests, Read(r)  PROVE SnapshotCurrent'
    BY <1>2 DEF SnapshotCurrent, Held, Filling, TypeOK, Request, Read, Become, Blank, Idle, Goto
  <1>3. ASSUME NEW r \in Requests, Acquire(r)  PROVE SnapshotCurrent'
    BY <1>3 DEF SnapshotCurrent, Held, Filling, TypeOK, Request, Acquire, Goto
  <1>4. ASSUME NEW r \in Requests, Reread(r)  PROVE SnapshotCurrent'
    <2>1. /\ request'[r].at = "load" => request'[r].cached = paper
          /\ request'[r].at \in {"load", "release"}
          /\ \A s \in Requests \ {r} : request'[s] = request[s]
          /\ UNCHANGED <<paper, lock, overran>>
      BY <1>4 DEF TypeOK, Reread, Become, Goto, Request
    <2> QED  BY <2>1 DEF SnapshotCurrent, Held, Filling
  <1>5. ASSUME NEW r \in Requests, Load(r)  PROVE SnapshotCurrent'
    <2>1. /\ request[r].at = "load"
          /\ UNCHANGED <<paper, lock, overran>>
      BY <1>5 DEF Load
    <2>2. /\ request'[r].cached = request[r].cached
          /\ \A s \in Requests \ {r} : request'[s] = request[s]
      <3>1. CASE request' = [request EXCEPT ![r].at = "release"]
        BY <3>1 DEF TypeOK, Request
      <3>2. ASSUME NEW result,
                   request' = [request EXCEPT ![r] = [request[r] EXCEPT !.at = "publish",
                                                                        !.result = result]]
            PROVE  /\ request'[r].cached = request[r].cached
                   /\ \A s \in Requests \ {r} : request'[s] = request[s]
        BY <3>2 DEF TypeOK, Request
      <3> QED  BY <1>5, <3>1, <3>2, Loaded
    <2> QED  BY <2>1, <2>2 DEF SnapshotCurrent, Held, Filling
  <1>6. ASSUME NEW r \in Requests, Publish(r)  PROVE SnapshotCurrent'
    BY <1>6 DEF SnapshotCurrent, Held, Filling, TypeOK, Request, Publish, Goto
  <1>7. ASSUME NEW r \in Requests, Release(r)  PROVE SnapshotCurrent'
    BY <1>7 DEF SnapshotCurrent, Held, Filling, TypeOK, Request, Release, Become, Blank, Idle
  <1>8. ASSUME NEW r \in Requests, Poll(r)  PROVE SnapshotCurrent'
    BY <1>8 DEF SnapshotCurrent, Held, Filling, TypeOK, Request, Poll, Become, Blank, Idle, Goto
  <1>9. ASSUME NEW r \in Requests, Check(r)  PROVE SnapshotCurrent'
    <2>1. /\ request'[r].at \in {"idle", "poll"}
          /\ \A s \in Requests \ {r} : request'[s] = request[s]
          /\ UNCHANGED <<paper, lock, overran>>
      <3>1. CASE request' = [request EXCEPT ![r] = Blank("idle", FALSE, TRUE)]
        BY <1>9, <3>1 DEF TypeOK, Check, Blank, Request
      <3>2. CASE request' = [request EXCEPT ![r] =
                   [request[r] EXCEPT !.at = "poll", !.polls = request[r].polls + 1]]
        BY <1>9, <3>2 DEF TypeOK, Check, Request
      <3> QED  BY <1>9, <3>1, <3>2 DEF Check, Become
    <2> QED  BY <2>1 DEF SnapshotCurrent, Held, Filling
  <1>10. ASSUME NEW r \in Requests, Outage(r)  PROVE SnapshotCurrent'
    BY <1>10 DEF SnapshotCurrent, Held, Filling, TypeOK, Request, Outage, Become, Blank, Idle, Goto
  <1>11. ASSUME NEW r \in Requests, Crash(r)  PROVE SnapshotCurrent'
    BY <1>11 DEF SnapshotCurrent, Held, Filling, TypeOK, Request, Crash, Become, Blank, Idle
  <1>12. ASSUME NEW r \in Requests, AcquireLost(r)  PROVE SnapshotCurrent'
    BY <1>12 DEF SnapshotCurrent, Held, Filling, TypeOK, Request, AcquireLost, Become, Blank, Idle
  <1>13. CASE LockExpires
    BY <1>13 DEF SnapshotCurrent, Held, Filling, TypeOK, Request, LockExpires
  <1>14. CASE PaperExpires
    BY <1>14 DEF SnapshotCurrent, Held, Filling, TypeOK, Request, PaperExpires
  <1>15. CASE UNCHANGED vars
    BY <1>15 DEF SnapshotCurrent, Held, Filling, TypeOK, Request, vars
  <1> QED
    BY <1>1, <1>2, <1>3, <1>4, <1>5, <1>6, <1>7, <1>8, <1>9, <1>10, <1>11, <1>12, <1>13, <1>14, <1>15 DEF Next, Step

-----------------------------------------------------------------------------
(* ... and that a publication contains the pool it was merged with *)

LEMMA ExtendsStep ==
    ASSUME IInv, [Next]_vars
    PROVE  Extends'
  <1> USE CacheAssumption DEF IInv
  <1>1. ASSUME NEW r \in Requests, Start(r)  PROVE Extends'
    BY <1>1 DEF Extends, TypeOK, Request, Start, Become, Blank, Idle
  <1>2. ASSUME NEW r \in Requests, Read(r)  PROVE Extends'
    BY <1>2 DEF Extends, TypeOK, Request, Read, Become, Blank, Idle, Goto
  <1>3. ASSUME NEW r \in Requests, Acquire(r)  PROVE Extends'
    BY <1>3 DEF Extends, TypeOK, Request, Acquire, Goto
  <1>4. ASSUME NEW r \in Requests, Reread(r)  PROVE Extends'
    BY <1>4 DEF Extends, TypeOK, Request, Reread, Become, Blank, Idle, Goto
  <1>5. ASSUME NEW r \in Requests, Load(r)  PROVE Extends'
    <2>1. CASE request' = [request EXCEPT ![r].at = "release"]
      BY <2>1 DEF Extends, TypeOK, Request
    <2>2. ASSUME NEW result \in Stored,
                 request[r].cached.kind = "sampled" /\ result.kind = "sampled"
                   => request[r].cached.items \subseteq result.items,
                 request' = [request EXCEPT ![r] = [request[r] EXCEPT !.at = "publish",
                                                                      !.result = result]]
          PROVE  Extends'
      <3>1. /\ request'[r].cached = request[r].cached
            /\ request'[r].result = result
            /\ \A s \in Requests \ {r} : request'[s] = request[s]
        BY <2>2 DEF TypeOK, Request
      <3> QED  BY <2>2, <3>1 DEF Extends
    <2> QED  BY <1>5, <2>1, <2>2, Loaded
  <1>6. ASSUME NEW r \in Requests, Publish(r)  PROVE Extends'
    BY <1>6 DEF Extends, TypeOK, Request, Publish, Goto
  <1>7. ASSUME NEW r \in Requests, Release(r)  PROVE Extends'
    BY <1>7 DEF Extends, TypeOK, Request, Release, Become, Blank, Idle
  <1>8. ASSUME NEW r \in Requests, Poll(r)  PROVE Extends'
    BY <1>8 DEF Extends, TypeOK, Request, Poll, Become, Blank, Idle, Goto
  <1>9. ASSUME NEW r \in Requests, Check(r)  PROVE Extends'
    <2>1. /\ request'[r].at \in {"idle", "poll"}
          /\ \A s \in Requests \ {r} : request'[s] = request[s]
          /\ UNCHANGED <<paper, lock, overran>>
      <3>1. CASE request' = [request EXCEPT ![r] = Blank("idle", FALSE, TRUE)]
        BY <1>9, <3>1 DEF TypeOK, Check, Blank, Request
      <3>2. CASE request' = [request EXCEPT ![r] =
                   [request[r] EXCEPT !.at = "poll", !.polls = request[r].polls + 1]]
        BY <1>9, <3>2 DEF TypeOK, Check, Request
      <3> QED  BY <1>9, <3>1, <3>2 DEF Check, Become
    <2> QED  BY <2>1 DEF Extends
  <1>10. ASSUME NEW r \in Requests, Outage(r)  PROVE Extends'
    BY <1>10 DEF Extends, TypeOK, Request, Outage, Become, Blank, Idle, Goto
  <1>11. ASSUME NEW r \in Requests, Crash(r)  PROVE Extends'
    BY <1>11 DEF Extends, TypeOK, Request, Crash, Become, Blank, Idle
  <1>12. ASSUME NEW r \in Requests, AcquireLost(r)  PROVE Extends'
    BY <1>12 DEF Extends, TypeOK, Request, AcquireLost, Become, Blank, Idle
  <1>13. CASE LockExpires
    BY <1>13 DEF Extends, TypeOK, Request, LockExpires
  <1>14. CASE PaperExpires
    BY <1>14 DEF Extends, TypeOK, Request, PaperExpires
  <1>15. CASE UNCHANGED vars
    BY <1>15 DEF Extends, TypeOK, Request, vars
  <1> QED
    BY <1>1, <1>2, <1>3, <1>4, <1>5, <1>6, <1>7, <1>8, <1>9, <1>10, <1>11, <1>12, <1>13, <1>14, <1>15 DEF Next, Step

-----------------------------------------------------------------------------
(* The theorems *)

LEMMA Inductive == Spec => []IInv
  <1>1. ASSUME Init  PROVE IInv
    <2>1. \A r \in Requests : request[r] = Idle  BY <1>1 DEF Init
    <2>2. Idle \in Request  BY BlankTyped DEF Idle, Labels
    <2>3. Idle.at = "idle"  BY DEF Idle, Blank
    <2>4. TypeOK  BY <1>1, <2>2, NoPaperTyped DEF Init, TypeOK
    <2>5. Held /\ SnapshotCurrent /\ Extends
      BY <2>1, <2>3 DEF Held, Filling, SnapshotCurrent, Extends
    <2> QED  BY <2>4, <2>5 DEF IInv
  <1>2. IInv /\ [Next]_vars => IInv'
    BY TypeStep, HeldStep, SnapshotStep, ExtendsStep DEF IInv
  <1> QED  BY <1>1, <1>2, PTL DEF Spec

\* The variables keep their types.
THEOREM TypeCorrect == Spec => []TypeOK
  <1>1. IInv => TypeOK  BY DEF IInv
  <1> QED  BY <1>1, Inductive, PTL

\* While no fill has outlived its lock, one request at a time fills the paper.
THEOREM FillsAlone == Spec => []OneFiller
  <1>1. IInv => OneFiller  BY DEF IInv, Held, OneFiller
  <1> QED  BY <1>1, Inductive, PTL

\* While no fill has outlived its lock, a filler's second look stays current.
THEOREM SnapshotsStayCurrent == Spec => []SnapshotCurrent
  <1>1. IInv => SnapshotCurrent  BY DEF IInv
  <1> QED  BY <1>1, Inductive, PTL

\* While no fill has outlived its lock, the sampled pool loses no question.
THEOREM PoolOnlyGrows == Spec => PoolGrows
  <1> DEFINE Grows == ~overran /\ paper.kind = "sampled" /\ paper'.kind = "sampled"
                        => paper.items \subseteq paper'.items
  <1>1. ASSUME IInv, [Next]_vars  PROVE Grows
    <2>1. ASSUME NEW r \in Requests, Publish(r)  PROVE Grows
      <3>1. request[r].at = "publish" /\ paper' = request[r].result
        BY <2>1 DEF Publish
      <3>2. ~overran => paper \in {NoPaper, request[r].cached}
        BY <1>1, <3>1 DEF IInv, SnapshotCurrent
      <3> QED  BY <1>1, <3>1, <3>2 DEF IInv, Extends, NoPaper
    <2>2. CASE PaperExpires  BY <2>2 DEF PaperExpires, NoPaper
    <2>3. CASE UNCHANGED paper  BY <2>3
    <2> QED
      BY <1>1, <2>1, <2>2, <2>3 DEF Next, vars, Step, Start, Read, Acquire, Reread, Load,
         Release, Poll, Check, Outage, Crash, AcquireLost, LockExpires
  <1>2. Grows => [~overran /\ paper.kind = "sampled" /\ paper'.kind = "sampled"
                    => paper.items \subseteq paper'.items]_vars
    OBVIOUS
  <1> QED  BY <1>1, <1>2, Inductive, PTL DEF Spec, PoolGrows

\* No request takes away the lock of another, not even one that outlived its own.
THEOREM LocksAreOnesOwn == Spec => OthersKeepTheLock
  <1> DEFINE Keeps == \A r, s \in Requests :
                 r # s /\ lock = r /\ request'[s] # request[s] => lock' = r
  <1>1. ASSUME IInv, [Next]_vars  PROVE Keeps
    <2> SUFFICES ASSUME NEW r \in Requests, NEW s \in Requests, r # s, lock = r,
                        request'[s] # request[s]
                 PROVE  lock' = r
      OBVIOUS
    <2>1. r # Nobody  BY CacheAssumption DEF CacheAssumption
    <2>2. PICK q \in Requests : Start(q) \/ Step(q) \/ Outage(q) \/ Crash(q) \/ AcquireLost(q)
      BY <1>1 DEF Next, vars, LockExpires, PaperExpires
    <2>3. CASE Release(q)
      <3>1. request' = [request EXCEPT ![q] = Idle]  BY <2>3 DEF Release, Become
      <3>2. q = s  BY <1>1, <3>1 DEF IInv, TypeOK
      <3> QED  BY <2>3, <3>2 DEF Release
    <2>4. CASE ~Release(q)
      BY <2>1, <2>2, <2>4 DEF Step, Start, Read, Acquire, Reread, Load, Publish, Poll,
         Check, Outage, Crash, AcquireLost
    <2> QED  BY <2>3, <2>4
  <1>2. Keeps => [\A r, s \in Requests :
                    r # s /\ lock = r /\ request'[s] # request[s] => lock' = r]_vars
    OBVIOUS
  <1> QED  BY <1>1, <1>2, Inductive, PTL DEF Spec, OthersKeepTheLock
=============================================================================
