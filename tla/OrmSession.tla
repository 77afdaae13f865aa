----------------------------- MODULE OrmSession -----------------------------
(***************************************************************************)
(* The database as one request sees it: an SQLAlchemy session over          *)
(* PostgreSQL at READ COMMITTED (app/database/db.py,                        *)
(* app/database/repositories/base.py).                                     *)
(*                                                                         *)
(* A row is a record of columns, one of them `there': whether the row      *)
(* exists.  A session loads rows, assigns to their attributes, and flushes *)
(* before its next query and before its commit.  A flush writes, row by     *)
(* row, the columns that differ from the loaded ones, and takes the row's   *)
(* lock; what it wrote is visible to itself until it commits.               *)
(***************************************************************************)
EXTENDS Naturals, TLC

CONSTANTS
    Workers,    \* requests, cron runs, background tasks
    Rows        \* row identities

VARIABLES
    db,         \* [Rows -> record]: what is committed
    tx          \* [Workers -> session]

\* A session: the rows it has locked with their values as it sees them, and the
\* loaded and assigned values not yet flushed.
Closed == [own |-> <<>>, dirty |-> <<>>]

Holds(w) == DOMAIN tx[w].own
Dirty(w) == DOMAIN tx[w].dirty

\* What a statement of w reads.
See(w, r) == IF r \in Holds(w) THEN tx[w].own[r] ELSE db[r]

\* A row is free for w to write unless another session has written or locked it.
FreeFor(w, r) == \A v \in Workers \ {w} : r \notin Holds(v)

\* The columns that were assigned, over what the row holds when the lock is had.
Changed(now, loaded, assigned) ==
    [c \in DOMAIN now |-> IF assigned[c] # loaded[c] THEN assigned[c] ELSE now[c]]

\* Assign to the attributes of loaded rows: `seen' and `values' map them to what they
\* were and to what they become.  What is not flushed yet differs from what was loaded
\* at first.
Assign(session, seen, values) ==
    LET assigned == {r \in DOMAIN values : values[r] # seen[r]}
    IN [session EXCEPT !.dirty =
          [r \in assigned \cup DOMAIN session.dirty |->
             IF r \notin assigned THEN session.dirty[r]
             ELSE [loaded |-> IF r \in DOMAIN session.dirty THEN session.dirty[r].loaded
                              ELSE seen[r],
                   assigned |-> values[r]]]]

\* UPDATE or DELETE ... WHERE pk: one row of a flush.
Flushed(session, r, now) ==
    [own |-> [q \in DOMAIN session.own \cup {r} |->
                IF q = r THEN Changed(now, session.dirty[r].loaded, session.dirty[r].assigned)
                ELSE session.own[q]],
     dirty |-> [q \in DOMAIN session.dirty \ {r} |-> session.dirty[q]]]

\* SELECT ... FOR UPDATE, or a statement that writes at once.
Locked(session, values) ==
    [session EXCEPT !.own = [r \in DOMAIN session.own \cup DOMAIN values |->
                               IF r \in DOMAIN values THEN values[r] ELSE session.own[r]]]

\* One row and its value.
Only(r, value) == [q \in {r} |-> value]

CommittedBy(w) == [r \in Rows |-> See(w, r)]
=============================================================================
