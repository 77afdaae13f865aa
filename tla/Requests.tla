------------------------------ MODULE Requests ------------------------------
(***************************************************************************)
(* A request as a worker: one transaction of an OrmSession, committed when   *)
(* its handler returns and rolled back on any exception (app/database/db.py, *)
(* db_session).                                                             *)
(*                                                                         *)
(* The rows a request has assigned to are flushed together, before its next *)
(* query or by its commit.  Deadlocks between the rows of two flushes are    *)
(* not modelled apart: their victim is rolled back, which any request may   *)
(* be at any time.                                                         *)
(***************************************************************************)
EXTENDS OrmSession

VARIABLES
    at,         \* [Workers -> the step it takes next]
    job,        \* [Workers -> what it works with]
    mix         \* what meets in this behaviour: kinds of requests, and "serial"
                \* when one begins only after the other has ended

NoJob == [kind |-> "none"]
session == <<tx, at, job>>

RequestsInit(committed) ==
    /\ db = committed
    /\ tx = [w \in Workers |-> Closed]
    /\ at = [w \in Workers |-> "idle"]
    /\ job = [w \in Workers |-> NoJob]

\* A record or function over another.
Merge(f, g) == [x \in DOMAIN f \cup DOMAIN g |-> IF x \in DOMAIN f THEN f[x] ELSE g[x]]

Goto(w, step) == at' = [at EXCEPT ![w] = step]
Keep(w, values) == job' = [job EXCEPT ![w] = values]

\* A request of this kind may begin.
MayBegin(w, kind) ==
    /\ at[w] = "idle" /\ kind \in mix
    /\ "serial" \in mix => \A v \in Workers : at[v] = "idle"

\* A request that only reads or fails its checks changes nothing and is not begun.
Begin(w, kind, values, step) ==
    /\ MayBegin(w, kind)
    /\ Keep(w, Merge(values, [kind |-> kind]))
    /\ Goto(w, step)

\* Rows as loaded now, and what is assigned to them.
Put(w, values) ==
    tx' = [tx EXCEPT ![w] = Assign(tx[w], [r \in DOMAIN values |-> See(w, r)], values)]
\* The same for rows that were loaded before.
PutLoaded(w, loaded, values) == tx' = [tx EXCEPT ![w] = Assign(tx[w], loaded, values)]
\* A statement that writes at once: SELECT ... FOR UPDATE, UPDATE, DELETE, ON CONFLICT.
Write(w, values) == tx' = [tx EXCEPT ![w] = Locked(tx[w], values)]

Flushing(w) == Dirty(w) # {}
FreeAll(w, rows) == \A r \in rows : FreeFor(w, r)

\* An INSERT finds the key taken, an UPDATE finds the row gone; deleting what is
\* gone is no error.
Conflicts(w) ==
    \E r \in Dirty(w) : /\ tx[w].dirty[r].loaded.there # See(w, r).there
                        /\ tx[w].dirty[r].assigned.there

\* The rows as w will have them once it has flushed.
Written(w) ==
    [r \in Rows |-> IF r \in Dirty(w)
                    THEN Changed(See(w, r), tx[w].dirty[r].loaded, tx[w].dirty[r].assigned)
                    ELSE See(w, r)]

FlushedAll(w) == [own |-> [r \in Holds(w) \cup Dirty(w) |-> Written(w)[r]], dirty |-> <<>>]

\* Autoflush, or session.flush().
Flush(w) ==
    /\ Flushing(w) /\ at[w] # "commit"
    /\ FreeAll(w, Dirty(w)) /\ ~Conflicts(w)
    /\ tx' = [tx EXCEPT ![w] = FlushedAll(w)]
    /\ UNCHANGED <<db, at, job>>

Ended(w) ==
    /\ tx' = [tx EXCEPT ![w] = Closed]
    /\ Goto(w, "idle") /\ Keep(w, NoJob)

CommitSession(w) ==
    /\ at[w] = "commit"
    /\ FreeAll(w, Dirty(w)) /\ ~Conflicts(w)
    /\ db' = Written(w)
    /\ Ended(w)

\* An exception, a failed statement, a lost connection, a crash.
RollbackSession(w) == at[w] # "idle" /\ Ended(w) /\ UNCHANGED db
=============================================================================
