---------------------------- MODULE Console_proofs ----------------------------
(***************************************************************************)
(* What TLAPS proves of Console, for any tables, rows, requests and          *)
(* processes.                                                               *)
(***************************************************************************)
EXTENDS Console, TLAPS

\* Another value of the row: but for a question's, its owner stays.
Fixed(r, old, new) == r \notin Questions => new.owner = old.owner
Finished(row) == row.used /\ ~row.there

\* What a row refers to has existed.
UsedRefs(rows) == \A r \in Rows : rows[r].used => \A p \in Refs(rows[r]) : rows[p].used
Catalogued(rows) == IsCatalogue(rows) /\ UsedRefs(rows)

Deletes(w, r) == job[w].kind \in Deletions /\ r \in job[w].rows

\* What w has flushed: it holds the row's lock, so nobody else has changed it; it inserted
\* it, updated it, or deleted it by name or with what it belongs to.
Held(w, r) ==
    LET own == tx[w].own[r]
    IN /\ own \in RowOf(r) /\ own.used
       /\ db[r].used => Fixed(r, db[r], own)
       /\ Finished(db[r]) => own = db[r]
       /\ ~db[r].used => \A v \in Workers \ {w} : r \notin Dirty(v)
       /\ ~own.there /\ ~Finished(db[r]) =>
             Deletes(w, r) \/ \E p \in Refs(own) : ~See(w, p).there

\* What w has assigned to a row: an update or a deletion of what it found there, or an
\* insertion under an id that is its alone.
Assigned(w, r) ==
    LET old == tx[w].dirty[r].loaded
        new == tx[w].dirty[r].assigned
    IN /\ old \in RowOf(r) /\ new \in RowOf(r) /\ new.used
       /\ old.used => old.there /\ db[r].used /\ Fixed(r, db[r], old) /\ Fixed(r, old, new)
       /\ ~old.used => /\ new.there /\ db[r] = Blank /\ r \notin Holds(w)
                       /\ \A v \in Workers \ {w} : r \notin Holds(v) \cup Dirty(v)
       /\ ~new.there => new = Gone(old) /\ Deletes(w, r)
       /\ r \notin Questions => \A p \in Refs(new) : db[p].used
       /\ r \in Topics /\ new.parent # None => db[new.parent].owner = new.owner

Session(w) ==
    /\ tx[w] = [own |-> tx[w].own, dirty |-> tx[w].dirty]
    /\ Holds(w) \subseteq Rows /\ \A r \in Holds(w) : Held(w, r)
    /\ Dirty(w) \subseteq Rows /\ \A r \in Dirty(w) : Assigned(w, r)
    /\ Catalogued(Seen(w))

\* What is deleted by name: gone, or about to be flushed.
Doomed(w, r) ==
    /\ See(w, r).used
    /\ See(w, r).there => r \in Dirty(w) /\ ~tx[w].dirty[r].assigned.there

Steps == {"audit", "commit", "validate", "each", "import", "store"}
Catalogues == [subjects : SUBSET (Subjects \X (Keys["Subject"] \cup {None}) \X Codes),
               questions : SUBSET (Questions \X Subjects)]

Job(w) ==
    /\ at[w] = "idle" => tx[w] = Closed /\ job[w] = NoJob
    /\ at[w] # "idle" =>
          /\ {"kind", "rows", "audit"} \subseteq DOMAIN job[w]
          /\ at[w] \in Steps /\ job[w].kind \in Kinds /\ job[w].rows \subseteq Rows
          /\ job[w].audit \in {"none", "written", "logged"}
    /\ at[w] = "validate" => job[w].kind = "question.update"
    /\ at[w] = "each" => /\ job[w].kind = "question.delete"
                         /\ "left" \in DOMAIN job[w] /\ job[w].left \subseteq Questions
                         /\ \A r \in Holds(w) : ~tx[w].own[r].there
                         /\ \A r \in Dirty(w) : ~tx[w].dirty[r].assigned.there
    /\ at[w] = "import" => job[w].kind = "question.import"
    /\ at[w] = "store" => /\ job[w].kind = "list"
                          /\ "payload" \in DOMAIN job[w] /\ job[w].payload \in Catalogues
    /\ job[w].kind \in Removals /\ at[w] = "audit" =>
          tx[w] = Closed /\ \A r \in job[w].rows : db[r].used
    /\ job[w].kind \in Deletions /\ (at[w] = "commit" \/ job[w].kind = "question.delete") =>
          \A r \in job[w].rows : Doomed(w, r)
    /\ job[w].kind \in Deletions /\ at[w] = "commit" => job[w].audit # "none" \/ job[w].rows = {}

\* No two sessions hold a row, claim a key, or have one refer to what the other deleted.
Apart ==
    \A v, w \in Workers : v # w =>
        \A r \in Holds(v), q \in Holds(w) :
            LET mine == tx[v].own[r] other == tx[w].own[q]
            IN /\ r # q
               /\ mine.there /\ ~other.there => q \notin Refs(mine)
               /\ mine.there /\ other.there => Claims(r, mine) \cap Claims(q, other) = {}

Typed ==
    /\ TypeOK
    /\ DOMAIN tx = Workers /\ DOMAIN at = Workers /\ DOMAIN job = Workers

IInv ==
    /\ Typed /\ Catalogued(db) /\ AuditTells /\ Apart
    /\ \A w \in Workers : Session(w) /\ Job(w)

-----------------------------------------------------------------------------
(* Rows *)

LEMMA TablesApart ==
    /\ \A table \in {Subjects, Levels, Topics, Lessons, Questions, Materials, Terms, Students,
                     Admins, Works} : table \subseteq Rows
    /\ \A r \in Rows : Owners(r) \subseteq Rows \cup {None} /\ Parents(r) \subseteq Rows \cup {None}
    BY DEF Subjects, Levels, Topics, Lessons, Questions, Materials, Terms, Students, Admins,
           Works, Owners, Parents

\* The columns of a row, and a row that has never been.
LEMMA RowColumns ==
    ASSUME NEW r \in Rows, NEW row \in RowOf(r)
    PROVE  /\ DOMAIN row = {"there", "used", "owner", "parent", "key", "mark"}
           /\ row = [there |-> row.there, used |-> row.used, owner |-> row.owner,
                     parent |-> row.parent, key |-> row.key, mark |-> row.mark]
           /\ row.there \in BOOLEAN /\ row.used \in BOOLEAN
           /\ row.there => row.used
           /\ ~row.used => row = Blank
           /\ row.used => /\ row.owner \in Owners(r) /\ row.parent \in Parents(r)
                          /\ row.key \in Keys[Table[r]] \cup {None} /\ row.mark \in MarksOf(r)
           /\ Refs(row) \subseteq Rows
<1>1. CASE row = Blank
    <2>1. Refs(row) = {}
        BY <1>1 DEF Blank, Refs
    <2>2. QED
        BY <1>1, <2>1 DEF Blank
<1>2. CASE row \in [there : BOOLEAN, used : {TRUE}, owner : Owners(r), parent : Parents(r),
                    key : Keys[Table[r]] \cup {None}, mark : MarksOf(r)]
    <2>1. Refs(row) \subseteq Rows
        BY <1>2, TablesApart DEF Refs
    <2>2. QED
        BY <1>2, <2>1
<1>3. QED
    BY <1>1, <1>2 DEF RowOf

LEMMA RowMade ==
    ASSUME NEW r \in Rows, NEW row, DOMAIN row = {"there", "used", "owner", "parent", "key", "mark"},
           row = [there |-> row.there, used |-> row.used, owner |-> row.owner,
                  parent |-> row.parent, key |-> row.key, mark |-> row.mark],
           row.there \in BOOLEAN, row.used = TRUE, row.owner \in Owners(r),
           row.parent \in Parents(r), row.key \in Keys[Table[r]] \cup {None},
           row.mark \in MarksOf(r)
    PROVE  row \in RowOf(r)
    BY DEF RowOf

LEMMA GoneRow ==
    ASSUME NEW r \in Rows, NEW row \in RowOf(r), row.used
    PROVE  /\ Gone(row) \in RowOf(r) /\ ~Gone(row).there /\ Gone(row).used
           /\ Gone(row).owner = row.owner /\ Gone(row).parent = row.parent
           /\ Refs(Gone(row)) = Refs(row)
           /\ Gone(row) = [there |-> FALSE, used |-> row.used, owner |-> row.owner,
                           parent |-> row.parent, key |-> row.key, mark |-> row.mark]
           /\ ~row.there => Gone(row) = row
<1>1. row \in [there : BOOLEAN, used : {TRUE}, owner : Owners(r), parent : Parents(r),
               key : Keys[Table[r]] \cup {None}, mark : MarksOf(r)]
    <2>1. row # Blank
        BY DEF Blank
    <2>2. QED
        BY <2>1 DEF RowOf
<1>2. Gone(row) = [there |-> FALSE, used |-> row.used, owner |-> row.owner,
                   parent |-> row.parent, key |-> row.key, mark |-> row.mark]
    <2>1. Gone(row) \in [there : {FALSE}, used : {TRUE}, owner : {row.owner},
                        parent : {row.parent}, key : {row.key}, mark : {row.mark}]
        BY <1>1 DEF Gone
    <2>2. row.used = TRUE
        BY <1>1
    <2>3. QED
        BY <2>1, <2>2
<1>3. row = [there |-> row.there, used |-> row.used, owner |-> row.owner,
             parent |-> row.parent, key |-> row.key, mark |-> row.mark]
    BY <1>1
<1>4. Gone(row) \in RowOf(r) /\ Refs(Gone(row)) = Refs(row)
    BY <1>1, <1>2 DEF RowOf, Refs
<1>5. ASSUME ~row.there PROVE Gone(row) = row
    <2>1. row.there = FALSE
        BY <1>1, <1>5
    <2>2. QED
        BY <1>2, <1>3, <2>1
<1>6. QED
    BY <1>1, <1>2, <1>4, <1>5

\* What UPDATE, DELETE and INSERT leave of a row.
LEMMA ChangedRow ==
    ASSUME NEW r \in Rows, NEW o \in RowOf(r), NEW old \in RowOf(r), NEW new \in RowOf(r),
           new.used, old.used \/ o = old, old.used => o.used,
           NEW v, v = Changed(o, old, new)
    PROVE  /\ v \in RowOf(r) /\ v.used
           /\ v.there = IF new.there # old.there THEN new.there ELSE o.there
           /\ v.owner = IF new.owner # old.owner THEN new.owner ELSE o.owner
           /\ v.parent = IF new.parent # old.parent THEN new.parent ELSE o.parent
           /\ o = old => v = new
           /\ old.there /\ new = Gone(old) => v = Gone(o)
<1>1. /\ DOMAIN o = {"there", "used", "owner", "parent", "key", "mark"}
      /\ v = [c \in DOMAIN o |-> IF new[c] # old[c] THEN new[c] ELSE o[c]]
    BY RowColumns DEF Changed
<1>2. /\ DOMAIN v = {"there", "used", "owner", "parent", "key", "mark"}
      /\ \A c \in DOMAIN v : v[c] = IF new[c] # old[c] THEN new[c] ELSE o[c]
      /\ v = [there |-> v.there, used |-> v.used, owner |-> v.owner,
              parent |-> v.parent, key |-> v.key, mark |-> v.mark]
    BY <1>1
<1>3. /\ o.there \in BOOLEAN /\ new.there \in BOOLEAN /\ o.used \in BOOLEAN /\ old.used \in BOOLEAN
      /\ new.used = TRUE /\ old.there \in BOOLEAN
    BY RowColumns
<1>4. o = old => v = new
    <2>1. DOMAIN new = {"there", "used", "owner", "parent", "key", "mark"}
          /\ new = [there |-> new.there, used |-> new.used, owner |-> new.owner,
                    parent |-> new.parent, key |-> new.key, mark |-> new.mark]
        BY RowColumns
    <2>2. QED
        BY <1>2, <2>1
<1>5. CASE old.used
    <2>1. o.used = TRUE /\ old.used = TRUE
        BY <1>3, <1>5
    <2>2. v.used = TRUE /\ v.there \in BOOLEAN
        BY <1>2, <1>3, <2>1
    <2>3. /\ v.owner \in Owners(r) /\ v.parent \in Parents(r)
          /\ v.key \in Keys[Table[r]] \cup {None} /\ v.mark \in MarksOf(r)
        BY <1>2, <1>3, <2>1, RowColumns
    <2>4. v \in RowOf(r)
        BY <1>2, <2>2, <2>3, RowMade
    <2>5. ASSUME old.there, new = Gone(old) PROVE v = Gone(o)
        <3>1. /\ new.there = FALSE /\ new.used = old.used /\ new.owner = old.owner
              /\ new.parent = old.parent /\ new.key = old.key /\ new.mark = old.mark
            BY <2>5, RowColumns DEF Gone
        <3>2. Gone(o) = [there |-> FALSE, used |-> o.used, owner |-> o.owner,
                         parent |-> o.parent, key |-> o.key, mark |-> o.mark]
            BY <2>1, GoneRow
        <3>3. QED
            BY <1>2, <1>3, <2>5, <3>1, <3>2
    <2>6. QED
        BY <1>2, <1>4, <2>2, <2>4, <2>5
<1>6. CASE ~old.used
    <2>1. v = new /\ ~old.there
        BY <1>4, <1>6, RowColumns
    <2>2. QED
        BY <1>2, <1>3, <2>1
<1>7. QED
    BY <1>5, <1>6

-----------------------------------------------------------------------------
(* What a session sees, and what it will have written *)

LEMMA SeeRow ==
    ASSUME IInv, NEW w \in Workers, NEW r \in Rows
    PROVE  /\ db[r] \in RowOf(r) /\ See(w, r) \in RowOf(r) /\ Seen(w)[r] = See(w, r)
           /\ db[r].used => See(w, r).used /\ Fixed(r, db[r], See(w, r))
           /\ Finished(db[r]) => See(w, r) = db[r]
           /\ r \notin Holds(w) => See(w, r) = db[r]
           /\ r \in Holds(w) => See(w, r) = tx[w].own[r]
<1>1. db[r] \in RowOf(r) /\ \A q \in Holds(w) : Held(w, q)
    BY DEF IInv, Typed, TypeOK, Session
<1>2. /\ Seen(w)[r] = See(w, r)
      /\ r \notin Holds(w) => See(w, r) = db[r]
      /\ r \in Holds(w) => See(w, r) = tx[w].own[r]
    BY DEF Seen, See
<1>3. CASE r \in Holds(w)
    BY <1>1, <1>2, <1>3 DEF Held
<1>4. CASE r \notin Holds(w)
    BY <1>1, <1>2, <1>4 DEF Fixed
<1>5. QED
    BY <1>3, <1>4

LEMMA HeldRow ==
    ASSUME IInv, NEW w \in Workers, NEW r \in Holds(w)
    PROVE  /\ r \in Rows /\ Held(w, r) /\ See(w, r).used
           /\ ~See(w, r).there /\ ~Finished(db[r]) =>
                 Deletes(w, r) \/ \E p \in Refs(See(w, r)) : ~See(w, p).there
<1>1. r \in Rows /\ Held(w, r) /\ See(w, r) = tx[w].own[r]
    BY DEF IInv, Session, See
<1>2. QED
    BY <1>1 DEF Held

LEMMA WrittenIs ==
    ASSUME NEW w \in Workers, NEW r \in Rows
    PROVE  /\ r \notin Dirty(w) => Written(w)[r] = See(w, r)
           /\ r \in Dirty(w) =>
                 Written(w)[r] = Changed(See(w, r), tx[w].dirty[r].loaded, tx[w].dirty[r].assigned)
    BY DEF Written

LEMMA DirtyRow ==
    ASSUME IInv, NEW w \in Workers, NEW r \in Dirty(w)
    PROVE  /\ r \in Rows /\ Assigned(w, r)
           /\ tx[w].dirty[r].loaded \in RowOf(r) /\ tx[w].dirty[r].assigned \in RowOf(r)
           /\ tx[w].dirty[r].assigned.used
           /\ tx[w].dirty[r].loaded.used => See(w, r).used
           /\ ~tx[w].dirty[r].loaded.used => See(w, r) = tx[w].dirty[r].loaded
<1>1. r \in Rows /\ Assigned(w, r)
    BY DEF IInv, Session
<1>2. ~tx[w].dirty[r].loaded.used => See(w, r) = tx[w].dirty[r].loaded
    BY <1>1, SeeRow, RowColumns DEF Assigned
<1>3. QED
    BY <1>1, <1>2, SeeRow DEF Assigned

LEMMA WrittenRow ==
    ASSUME IInv, NEW w \in Workers, NEW r \in Rows, NEW v, v = Written(w)[r],
           NEW o, o = See(w, r)
    PROVE  /\ v \in RowOf(r)
           /\ o.used => v.used /\ Fixed(r, o, v)
           /\ r \in Dirty(w) => v.used
           /\ ~Conflicts(w) /\ Finished(o) => v = o
           /\ ~Conflicts(w) /\ v.there /\ ~o.there =>
                 r \in Dirty(w) /\ ~tx[w].dirty[r].loaded.used /\ v = tx[w].dirty[r].assigned
           /\ o.there /\ ~v.there => r \in Deleted(w) /\ v = Gone(o)
           /\ r \in Deleted(w) => Deletes(w, r) /\ v = Gone(o)
           /\ r \notin Questions => \A p \in Refs(v) : p \in Refs(o) \/ db[p].used
<1> DEFINE old == tx[w].dirty[r].loaded
           new == tx[w].dirty[r].assigned
<1>1. o \in RowOf(r) /\ o.there \in BOOLEAN /\ o.used \in BOOLEAN /\ (o.there => o.used)
    BY SeeRow, RowColumns
<1>2. CASE r \notin Dirty(w)
    BY <1>1, <1>2, WrittenIs DEF Fixed, Finished, Deleted
<1>3. CASE r \in Dirty(w)
    <2>1. Assigned(w, r) /\ old \in RowOf(r) /\ new \in RowOf(r) /\ new.used
        BY <1>3, DirtyRow
    <2>2. (old.used => o.used) /\ (~old.used => o = old)
        BY <1>3, DirtyRow
    <2>3. v = Changed(o, old, new)
        BY <1>3, WrittenIs
    <2>4. /\ old.there \in BOOLEAN /\ new.there \in BOOLEAN /\ old.used \in BOOLEAN
          /\ (old.there => old.used) /\ (~old.used => old = Blank)
        BY <2>1, RowColumns
    <2>5. /\ v \in RowOf(r) /\ v.used
          /\ v.there = IF new.there # old.there THEN new.there ELSE o.there
          /\ v.owner = IF new.owner # old.owner THEN new.owner ELSE o.owner
          /\ v.parent = IF new.parent # old.parent THEN new.parent ELSE o.parent
          /\ o = old => v = new
          /\ old.there /\ new = Gone(old) => v = Gone(o)
        BY <1>1, <2>1, <2>2, <2>3, ChangedRow
    <2>6. o.used => Fixed(r, o, v)
        <3>1. CASE old.used
            BY <2>1, <2>5, <3>1 DEF Assigned, Fixed
        <3>2. CASE ~old.used
            <4>1. o = Blank /\ Blank.used = FALSE
                BY <2>2, <2>4, <3>2 DEF Blank
            <4>2. QED
                BY <4>1
        <3>3. QED
            BY <3>1, <3>2
    <2>7. old.used => old.there
        BY <2>1 DEF Assigned
    <2>8. ~new.there => new = Gone(old) /\ old.there /\ Deletes(w, r)
        BY <2>1, <2>4, <2>7 DEF Assigned
    <2>9. ~Conflicts(w) => ~(old.there # o.there /\ new.there)
        BY <1>3 DEF Conflicts
    <2>10. ASSUME ~Conflicts(w), Finished(o) PROVE v = o
        <3>1. o.used /\ ~o.there /\ old.used
            BY <2>2, <2>4, <2>10 DEF Finished, Blank
        <3>2. ~new.there
            BY <2>7, <2>9, <2>10, <3>1
        <3>3. v = Gone(o)
            BY <2>5, <2>8, <3>2
        <3>4. QED
            BY <1>1, <3>1, <3>3, GoneRow
    <2>11. ASSUME ~Conflicts(w), v.there, ~o.there PROVE ~old.used /\ v = new
        <3>1. new.there /\ ~old.there
            BY <2>4, <2>5, <2>8, <2>9, <2>11, <1>1
        <3>2. QED
            BY <2>2, <2>5, <2>7, <3>1
    <2>12. r \in Deleted(w) <=> old.there /\ ~new.there
        BY <1>3 DEF Deleted
    <2>13. o.there /\ ~v.there => old.there /\ ~new.there
        BY <2>4, <2>5, <2>8, <1>1
    <2>14. r \in Deleted(w) => Deletes(w, r) /\ v = Gone(o)
        BY <2>5, <2>8, <2>12
    <2>15. r \notin Questions => \A p \in Refs(v) : p \in Refs(o) \/ db[p].used
        <3>1. Refs(v) \subseteq Refs(new) \cup Refs(o)
            BY <2>5 DEF Refs
        <3>2. QED
            BY <2>1, <3>1 DEF Assigned
    <2>16. QED
        BY <1>3, <2>5, <2>6, <2>10, <2>11, <2>12, <2>13, <2>14, <2>15
<1>4. QED
    BY <1>2, <1>3

LEMMA SweepIs ==
    ASSUME IInv, NEW w \in Workers
    PROVE  /\ Deleted(w) \subseteq Sweep(w) /\ Sweep(w) \subseteq Rows /\ Deleted(w) \subseteq Dirty(w)
           /\ Dirty(w) \subseteq Rows /\ Holds(w) \subseteq Rows
           /\ \A r \in Sweep(w) \ Deleted(w) :
                 /\ Written(w)[r].there /\ Refs(Written(w)[r]) \cap Sweep(w) # {}
                 /\ r \notin Questions
<1>1. /\ Dirty(w) \subseteq Rows /\ Deleted(w) \subseteq Dirty(w) /\ Holds(w) \subseteq Rows
    BY DEF Deleted, IInv, Session
<1>2. None \notin Rows /\ (Levels \cup Topics \cup Materials \cup Works \cup Lessons) \cap Questions = {}
    BY ConsoleAssumption DEF Levels, Topics, Materials, Works, Lessons, Questions
<1>3. QED
    BY <1>1, <1>2, TablesApart DEF Sweep, Swept, Owns, Refs

LEMMA AfterIs ==
    ASSUME NEW w \in Workers, NEW r \in Rows
    PROVE  After(w)[r] = IF r \in Sweep(w) THEN Gone(Written(w)[r]) ELSE Written(w)[r]
    BY DEF After, AfterSweep

LEMMA AfterRow ==
    ASSUME IInv, NEW w \in Workers, ~Conflicts(w), NEW r \in Rows,
           NEW a, a = After(w)[r], NEW o, o = See(w, r)
    PROVE  /\ a \in RowOf(r)
           /\ o.used => a.used /\ Fixed(r, o, a)
           /\ r \in Dirty(w) \cup Sweep(w) => a.used
           /\ Finished(o) => a = o
           /\ r \in Sweep(w) => ~a.there
           /\ a.there => a = Written(w)[r]
           /\ a.there /\ ~o.there =>
                 r \in Dirty(w) /\ ~tx[w].dirty[r].loaded.used /\ a = tx[w].dirty[r].assigned
           /\ ~a.there /\ o.there => r \in Sweep(w)
           /\ r \notin Dirty(w) \cup Sweep(w) => a = o
           /\ r \in Sweep(w) => Deletes(w, r) \/ Refs(a) \cap Sweep(w) # {}
           /\ ~a.there => \A p \in Refs(a) : p \in Refs(o) \/ db[p].used
<1> DEFINE v == Written(w)[r]
<1>1. /\ v \in RowOf(r) /\ v.there \in BOOLEAN /\ (v.there => v.used)
      /\ o \in RowOf(r) /\ o.there \in BOOLEAN /\ (o.there => o.used)
    BY WrittenRow, SeeRow, RowColumns
<1>2. /\ o.used => v.used /\ Fixed(r, o, v)
      /\ r \in Dirty(w) => v.used
      /\ Finished(o) => v = o
      /\ v.there /\ ~o.there =>
            r \in Dirty(w) /\ ~tx[w].dirty[r].loaded.used /\ v = tx[w].dirty[r].assigned
      /\ o.there /\ ~v.there => r \in Deleted(w) /\ v = Gone(o)
      /\ r \in Deleted(w) => Deletes(w, r) /\ v = Gone(o)
      /\ r \notin Questions => \A p \in Refs(v) : p \in Refs(o) \/ db[p].used
      /\ r \notin Dirty(w) => v = o
    BY WrittenRow, WrittenIs
<1>3. /\ Deleted(w) \subseteq Sweep(w) /\ Deleted(w) \subseteq Dirty(w)
      /\ r \in Sweep(w) \ Deleted(w) =>
            v.there /\ Refs(v) \cap Sweep(w) # {} /\ r \notin Questions
    BY SweepIs
<1>4. CASE r \notin Sweep(w)
    <2>1. a = v /\ r \notin Deleted(w)
        BY <1>3, <1>4, AfterIs
    <2>2. ~v.there => v = o \/ \A p \in Refs(v) : p \in Refs(o) \/ db[p].used
        <3>1. CASE r \notin Dirty(w)
            BY <1>2, <3>1
        <3>2. CASE r \in Dirty(w) /\ ~v.there
            <4>1. ~o.there
                BY <1>2, <2>1, <3>2
            <4>2. CASE o.used
                BY <1>2, <4>1, <4>2 DEF Finished
            <4>3. CASE ~o.used
                <5>1. ~tx[w].dirty[r].loaded.used /\ tx[w].dirty[r].assigned.there
                      /\ v = Changed(o, tx[w].dirty[r].loaded, tx[w].dirty[r].assigned)
                      /\ o = tx[w].dirty[r].loaded
                    BY <3>2, <4>3, DirtyRow, WrittenIs DEF Assigned
                <5>2. v = tx[w].dirty[r].assigned
                    BY <1>1, <3>2, <5>1, ChangedRow, DirtyRow
                <5>3. QED
                    BY <3>2, <5>1, <5>2
            <4>4. QED
                BY <4>2, <4>3
        <3>3. QED
            BY <3>1, <3>2
    <2>3. QED
        BY <1>1, <1>2, <1>4, <2>1, <2>2
<1>5. CASE r \in Deleted(w)
    <2>1. r \in Sweep(w) /\ v = Gone(o) /\ r \in Dirty(w)
        BY <1>2, <1>3, <1>5
    <2>2. tx[w].dirty[r].loaded.used
        BY <1>5, <2>1, DirtyRow, RowColumns DEF Deleted
    <2>3. o.used
        BY <2>1, <2>2, DirtyRow
    <2>4. /\ v \in RowOf(r) /\ ~v.there /\ v.used /\ v.owner = o.owner
          /\ Refs(v) = Refs(o) /\ Gone(v) = v /\ (~o.there => v = o)
        BY <1>1, <2>1, <2>3, GoneRow
    <2>5. a = v
        BY <2>1, <2>4, AfterIs
    <2>6. QED
        BY <1>1, <1>2, <1>5, <2>1, <2>3, <2>4, <2>5 DEF Fixed, Finished
<1>6. CASE r \in Sweep(w) \ Deleted(w)
    <2>1. a = Gone(v) /\ v.there /\ v.used /\ r \notin Questions
        BY <1>1, <1>3, <1>6, AfterIs
    <2>2. /\ a \in RowOf(r) /\ ~a.there /\ a.used /\ a.owner = v.owner /\ Refs(a) = Refs(v)
        BY <1>1, <2>1, GoneRow
    <2>3. ~Finished(o)
        BY <1>2, <2>1 DEF Finished
    <2>4. QED
        BY <1>1, <1>2, <1>3, <1>6, <2>1, <2>2, <2>3 DEF Fixed
<1>7. QED
    BY <1>3, <1>4, <1>5, <1>6

-----------------------------------------------------------------------------
(* The rows once a session has flushed are a catalogue again *)

LEMMA StandingIs ==
    ASSUME NEW rows, NEW r
    PROVE  r \in Standing(rows) <=> r \in Rows /\ rows[r].there
    BY DEF Standing

\* What stood and is not gone, or is inserted, stands.
LEMMA AfterStands ==
    ASSUME IInv, NEW w \in Workers, ~Conflicts(w), NEW r \in Rows, r \notin Sweep(w),
           See(w, r).there
    PROVE  After(w)[r].there
<1>1. After(w)[r].there \in BOOLEAN
    BY AfterRow, RowColumns
<1>2. QED
    BY <1>1, AfterRow

LEMMA AfterRefs ==
    ASSUME IInv, NEW w \in Workers, Flushes(w)
    PROVE  RefsThere(After(w))
<1> SUFFICES ASSUME NEW r \in Rows, After(w)[r].there, NEW p \in Refs(After(w)[r])
             PROVE  After(w)[p].there
    BY StandingIs DEF RefsThere
<1>1. ~Conflicts(w) /\ RefsHold(w, After(w), Sweep(w)) /\ IsCatalogue(Seen(w))
    BY DEF Flushes, IInv, Session, Catalogued
<1>2. CASE r \in Dirty(w) \/ Refs(After(w)[r]) \cap Sweep(w) # {}
    BY <1>1, <1>2, StandingIs DEF RefsHold
<1>3. CASE r \notin Dirty(w) /\ Refs(After(w)[r]) \cap Sweep(w) = {}
    <2>1. r \notin Sweep(w) /\ After(w)[r] = Seen(w)[r] /\ p \in Rows
        BY <1>1, <1>3, AfterRow, SeeRow, RowColumns
    <2>2. Seen(w)[p].there
        BY <1>1, <2>1, StandingIs DEF IsCatalogue, RefsThere
    <2>3. QED
        BY <1>1, <1>3, <2>1, <2>2, AfterStands, SeeRow
<1>4. QED
    BY <1>2, <1>3

LEMMA AfterKeys ==
    ASSUME IInv, NEW w \in Workers, Flushes(w)
    PROVE  KeysUnique(After(w))
<1> SUFFICES ASSUME NEW r \in Rows, NEW q \in Rows, r # q, After(w)[r].there, After(w)[q].there
             PROVE  Claims(r, After(w)[r]) \cap Claims(q, After(w)[q]) = {}
    BY StandingIs DEF KeysUnique
<1>1. ~Conflicts(w) /\ KeysFree(w, After(w)) /\ IsCatalogue(Seen(w))
    BY DEF Flushes, IInv, Session, Catalogued
<1>2. CASE r \in Dirty(w)
    BY <1>1, <1>2, StandingIs DEF KeysFree
<1>3. CASE q \in Dirty(w)
    <2>1. Claims(q, After(w)[q]) \cap Claims(r, After(w)[r]) = {}
        BY <1>1, <1>3, StandingIs DEF KeysFree
    <2>2. QED
        BY <2>1
<1>4. CASE r \notin Dirty(w) /\ q \notin Dirty(w)
    <2>1. After(w)[r] = Seen(w)[r] /\ After(w)[q] = Seen(w)[q]
        BY <1>1, <1>4, AfterRow, SeeRow
    <2>2. QED
        BY <1>1, <2>1, StandingIs DEF IsCatalogue, KeysUnique
<1>5. QED
    BY <1>2, <1>3, <1>4

\* A level's owner is the same for whoever sees it.
LEMMA LevelsKeep ==
    ASSUME NEW l \in Levels, NEW old, NEW new, Fixed(l, old, new)
    PROVE  l \in Rows /\ new.owner = old.owner
    BY DEF Fixed, Levels, Questions

LEMMA AfterLevels ==
    ASSUME IInv, NEW w \in Workers, Flushes(w)
    PROVE  LevelsMatch(After(w))
<1> DEFINE after == After(w)
<1> SUFFICES ASSUME NEW t \in Topics, after[t].there, after[t].parent # None
             PROVE  after[after[t].parent].owner = after[t].owner
    BY StandingIs DEF LevelsMatch
<1> DEFINE l == after[t].parent
           o == See(w, t)
           old == tx[w].dirty[t].loaded
           new == tx[w].dirty[t].assigned
<1>1. ~Conflicts(w) /\ IsCatalogue(Seen(w)) /\ t \in Rows /\ t \notin Questions
    BY TablesApart DEF Flushes, IInv, Session, Catalogued, Topics, Questions
<1>2. after[t] = Written(w)[t] /\ after[t] \in RowOf(t) /\ after[t].used
    BY <1>1, AfterRow, RowColumns
<1>3. l \in Levels /\ l \in Rows
    <2>1. Parents(t) = Levels \cup {None}
        BY DEF Parents
    <2>2. QED
        BY <1>1, <1>2, <2>1, RowColumns, TablesApart
\* a level that this one saw, or that is stored
<1>4. ASSUME See(w, l).used PROVE after[l].owner = See(w, l).owner
    BY <1>1, <1>3, <1>4, AfterRow, LevelsKeep
<1>5. ASSUME db[l].used PROVE after[l].owner = db[l].owner
    <2>1. See(w, l).used /\ See(w, l).owner = db[l].owner
        BY <1>3, <1>5, SeeRow, LevelsKeep
    <2>2. QED
        BY <1>4, <2>1
<1>6. ASSUME o.there, o.parent = l PROVE after[l].owner = o.owner
    <2>1. Seen(w)[t] = o /\ Seen(w)[l] = See(w, l)
        BY <1>1, <1>3, SeeRow
    <2>2. See(w, l).owner = o.owner
        BY <1>1, <1>6, <2>1, StandingIs DEF IsCatalogue, LevelsMatch
    <2>3. None \notin Rows
        BY ConsoleAssumption
    <2>4. l \in Refs(o)
        BY <1>3, <1>6, <2>3 DEF Refs
    <2>5. See(w, l).there
        BY <1>1, <1>6, <2>1, <2>4, StandingIs DEF IsCatalogue, RefsThere
    <2>6. See(w, l).used
        BY <1>3, <2>5, SeeRow, RowColumns
    <2>7. QED
        BY <1>4, <2>2, <2>6
<1>7. CASE t \notin Dirty(w)
    <2>1. after[t] = o
        BY <1>2, <1>7, WrittenIs, <1>1
    <2>2. QED
        BY <1>6, <2>1
<1>8. CASE t \in Dirty(w)
    <2>1. /\ Assigned(w, t) /\ old \in RowOf(t) /\ new \in RowOf(t) /\ new.used
          /\ (old.used => o.used) /\ (~old.used => o = old) /\ o \in RowOf(t)
          /\ after[t] = Changed(o, old, new)
        BY <1>1, <1>2, <1>8, DirtyRow, WrittenIs, SeeRow
    <2>2. ASSUME new.parent = l PROVE after[l].owner = new.owner
        <3>1. db[l].owner = new.owner /\ db[l].used
            <4>1. None \notin Rows
                BY ConsoleAssumption
            <4>2. l \in Refs(new)
                BY <1>3, <2>2, <4>1 DEF Refs
            <4>3. QED
                BY <1>1, <2>1, <2>2, <4>2 DEF Assigned
        <3>2. QED
            BY <1>5, <3>1
    <2>3. CASE old.used
        <3>1. /\ after[t].owner = IF new.owner # old.owner THEN new.owner ELSE o.owner
              /\ after[t].parent = IF new.parent # old.parent THEN new.parent ELSE o.parent
            <4> HIDE DEF after, o, old, new
            <4>1. QED
                BY <1>1, <2>1, <2>3, ChangedRow
        <3>2. new.owner = old.owner /\ after[t].owner = o.owner
            BY <1>1, <2>1, <2>3, <3>1 DEF Assigned, Fixed
        <3>3. o.owner = old.owner
            <4>1. db[t].used /\ Fixed(t, db[t], old) /\ Fixed(t, db[t], o)
                BY <1>1, <2>1, <2>3, SeeRow DEF Assigned
            <4>2. QED
                BY <1>1, <4>1 DEF Fixed
        <3>4. CASE new.parent # old.parent
            BY <2>2, <3>1, <3>2, <3>3, <3>4
        <3>5. CASE new.parent = old.parent
            <4>1. o.there
                <5>1. ~(~o.there /\ after[t].there)
                    BY <1>1, <2>3, AfterRow
                <5>2. QED
                    BY <5>1
            <4>2. QED
                BY <1>6, <3>1, <3>2, <3>5, <4>1
        <3>6. QED
            BY <3>4, <3>5
    <2>4. CASE ~old.used
        <3>1. after[t] = new
            BY <1>1, <2>1, <2>4, ChangedRow
        <3>2. QED
            BY <2>2, <3>1
    <2>5. QED
        BY <2>3, <2>4
<1>9. QED
    BY <1>7, <1>8

LEMMA AfterUsed ==
    ASSUME IInv, NEW w \in Workers, Flushes(w)
    PROVE  UsedRefs(After(w))
<1> SUFFICES ASSUME NEW r \in Rows, After(w)[r].used, NEW p \in Refs(After(w)[r])
             PROVE  After(w)[p].used
    BY DEF UsedRefs
<1>1. ~Conflicts(w) /\ UsedRefs(Seen(w)) /\ RefsThere(After(w))
    BY AfterRefs DEF Flushes, IInv, Session, Catalogued
<1>2. After(w)[r] \in RowOf(r) /\ p \in Rows
    BY <1>1, AfterRow, RowColumns
<1>3. CASE After(w)[r].there
    <2>1. After(w)[p].there
        BY <1>1, <1>3, StandingIs DEF RefsThere
    <2>2. QED
        BY <1>1, <1>2, <2>1, AfterRow, RowColumns
<1>4. CASE ~After(w)[r].there
    <2>1. CASE p \in Refs(See(w, r))
        <3>1. See(w, r) \in RowOf(r) /\ Seen(w)[r] = See(w, r) /\ Seen(w)[p] = See(w, p)
            BY <1>2, SeeRow
        <3>2. See(w, r).used
            <4>1. Refs(Blank) = {}
                BY DEF Refs, Blank
            <4>2. QED
                BY <2>1, <3>1, <4>1, RowColumns
        <3>3. See(w, p).used
            BY <1>1, <2>1, <3>1, <3>2 DEF UsedRefs
        <3>4. QED
            BY <1>1, <1>2, <3>3, AfterRow
    <2>2. CASE db[p].used
        BY <1>1, <1>2, <2>2, SeeRow, AfterRow
    <2>3. QED
        BY <1>1, <1>4, <2>1, <2>2, AfterRow
<1>5. QED
    BY <1>3, <1>4

LEMMA AfterCatalogued ==
    ASSUME IInv, NEW w \in Workers, Flushes(w)
    PROVE  Catalogued(After(w))
    BY AfterRefs, AfterKeys, AfterLevels, AfterUsed DEF Catalogued, IsCatalogue

\* What it has written and what another has are apart.
LEMMA AfterApart ==
    ASSUME IInv, NEW w \in Workers, Flushes(w), NEW v \in Workers \ {w},
           NEW r \in Holds(w) \cup Dirty(w) \cup Sweep(w), NEW q \in Holds(v)
    PROVE  LET mine == After(w)[r] other == tx[v].own[q]
           IN /\ r # q
              /\ mine.there /\ ~other.there => q \notin Refs(mine)
              /\ other.there /\ ~mine.there => r \notin Refs(other)
              /\ mine.there /\ other.there => Claims(r, mine) \cap Claims(q, other) = {}
<1> DEFINE mine == After(w)[r]
           other == tx[v].own[q]
<1>1. /\ ~Conflicts(w) /\ FreeAll(w, Dirty(w) \cup Sweep(w)) /\ Unblocked(w, After(w), Sweep(w))
      /\ r \in Rows /\ q \in Rows /\ Apart
    BY SweepIs DEF Flushes, IInv
<1>2. CASE r \in Dirty(w) \cup Sweep(w)
    <2>1. r # q
        BY <1>1, <1>2 DEF FreeAll, FreeFor
    <2>2. mine.there => r \in Dirty(w) /\ r \notin Sweep(w)
        BY <1>1, <1>2, AfterRow
    <2>3. mine.there /\ ~other.there => q \notin Refs(mine)
        BY <1>1, <2>2, StandingIs DEF Unblocked
    <2>4. mine.there /\ other.there => Claims(r, mine) \cap Claims(q, other) = {}
        BY <1>1, <2>2, StandingIs DEF Unblocked
    <2>5. ASSUME other.there, ~mine.there PROVE r \notin Refs(other)
        <3>1. CASE r \in Sweep(w)
            BY <1>1, <2>5, <3>1 DEF Unblocked
        <3>2. CASE r \notin Sweep(w)
            <4>1. r \in Dirty(w) /\ ~See(w, r).there
                BY <1>1, <1>2, <2>5, <3>2, AfterStands
            <4>2. Finished(See(w, r)) \/ ~tx[w].dirty[r].loaded.used
                BY <4>1, DirtyRow DEF Finished
            <4>3. CASE Finished(See(w, r))
                <5>1. See(w, r) = tx[w].own[r] \/ (r \notin Holds(w) /\ See(w, r) = db[r])
                    BY <1>1, SeeRow
                <5>2. CASE r \in Holds(w)
                    BY <1>1, <2>5, <4>3, <5>2, SeeRow DEF Apart, Finished
                <5>3. CASE r \notin Holds(w)
                    <6>1. Finished(db[r]) /\ Finished(See(v, r))
                        BY <1>1, <4>3, <5>3, SeeRow
                    <6>2. IsCatalogue(Seen(v))
                        BY DEF IInv, Session, Catalogued
                    <6>3. Seen(v)[q] = other /\ Seen(v)[r] = See(v, r)
                        BY <1>1, SeeRow
                    <6>4. QED
                        BY <6>3, <1>1, <2>5, <6>1, <6>2, StandingIs DEF IsCatalogue, RefsThere, Finished
                <5>4. QED
                    BY <5>2, <5>3
            <4>4. CASE ~tx[w].dirty[r].loaded.used
                <5>1. tx[w].dirty[r].assigned.there /\ See(w, r) = tx[w].dirty[r].loaded
                      /\ tx[w].dirty[r].loaded \in RowOf(r) /\ tx[w].dirty[r].assigned \in RowOf(r)
                      /\ tx[w].dirty[r].assigned.used
                    BY <4>1, <4>4, DirtyRow DEF Assigned
                <5>2. Written(w)[r] = tx[w].dirty[r].assigned
                    BY <1>1, <4>1, <5>1, WrittenIs, ChangedRow
                <5>3. QED
                    BY <1>1, <2>5, <3>2, <5>1, <5>2, AfterIs
            <4>5. QED
                BY <4>2, <4>3, <4>4
        <3>3. QED
            BY <3>1, <3>2
    <2>6. QED
        BY <2>1, <2>3, <2>4, <2>5
<1>3. CASE r \in Holds(w) /\ r \notin Dirty(w) \cup Sweep(w)
    <2>1. mine = tx[w].own[r]
        BY <1>1, <1>3, AfterRow, SeeRow
    <2>2. /\ r # q
          /\ mine.there /\ ~other.there => q \notin Refs(mine)
          /\ mine.there /\ other.there => Claims(r, mine) \cap Claims(q, other) = {}
        BY <1>1, <1>3, <2>1 DEF Apart
    <2>3. other.there /\ ~mine.there => r \notin Refs(other)
        BY <1>1, <1>3, <2>1 DEF Apart
    <2>4. QED
        BY <2>2, <2>3
<1>4. QED
    BY <1>2, <1>3

-----------------------------------------------------------------------------
(* Two sets of changes to the same rows, that are apart *)

\* The rows `now', some of them changed: what `stored' had is kept.
Over(base, F, f) ==
    /\ \A r \in Rows : base[r] \in RowOf(r) /\ f[r] \in RowOf(r)
    /\ \A r \in Rows \ F : f[r] = base[r]
    /\ \A r \in F : f[r].used
    /\ \A r \in Rows : base[r].used => Fixed(r, base[r], f[r])
    /\ Catalogued(f)

\* Changes f of the rows F and g of G, to the same rows.
Overlaid(F, f, G, g) ==
    \A r \in F, q \in G :
        /\ r # q
        /\ f[r].there /\ ~g[q].there => q \notin Refs(f[r])
        /\ g[q].there /\ ~f[r].there => r \notin Refs(g[q])
        /\ f[r].there /\ g[q].there => Claims(r, f[r]) \cap Claims(q, g[q]) = {}

LEMMA Overlay ==
    ASSUME NEW base, NEW f, NEW g, NEW F, NEW G, Over(base, F, f), Over(base, G, g),
           Overlaid(F, f, G, g), NEW h, \A r \in Rows : h[r] = IF r \in F THEN f[r] ELSE g[r]
    PROVE  Catalogued(h)
<1>1. RefsThere(h)
    <2> SUFFICES ASSUME NEW r \in Rows, h[r].there, NEW p \in Refs(h[r])
                 PROVE  h[p].there
        BY StandingIs DEF RefsThere
    <2>1. p \in Rows
        BY RowColumns DEF Over
    <2>2. RefsThere(f) /\ RefsThere(g)
        BY DEF Over, Catalogued, IsCatalogue
    <2>3. CASE r \in F
        <3>1. f[r].there /\ p \in Refs(f[r]) /\ f[p].there
            BY <2>2, <2>3, StandingIs DEF RefsThere
        <3>2. QED
            BY <2>1, <2>3, <3>1 DEF Over, Overlaid
    <2>4. CASE r \notin F
        <3>1. g[r].there /\ p \in Refs(g[r]) /\ g[p].there
            BY <2>2, <2>4, StandingIs DEF RefsThere
        <3>2. CASE r \in G
            BY <2>1, <3>1, <3>2 DEF Over, Overlaid
        <3>3. CASE r \notin G
            <4>1. f[r] = g[r]
                BY <2>4, <3>3 DEF Over
            <4>2. f[p].there
                BY <2>2, <3>1, <4>1, StandingIs DEF RefsThere
            <4>3. QED
                BY <2>1, <3>1, <4>2
        <3>4. QED
            BY <3>2, <3>3
    <2>5. QED
        BY <2>3, <2>4
<1>2. KeysUnique(h)
    <2> SUFFICES ASSUME NEW r \in Rows, NEW q \in Rows, r # q, h[r].there, h[q].there
                 PROVE  Claims(r, h[r]) \cap Claims(q, h[q]) = {}
        BY StandingIs DEF KeysUnique
    <2>1. /\ \A a, b \in Rows : a # b /\ f[a].there /\ f[b].there =>
                                   Claims(a, f[a]) \cap Claims(b, f[b]) = {}
          /\ \A a, b \in Rows : a # b /\ g[a].there /\ g[b].there =>
                                   Claims(a, g[a]) \cap Claims(b, g[b]) = {}
        BY StandingIs DEF Over, Catalogued, IsCatalogue, KeysUnique
    <2>2. CASE r \in F /\ q \in F
        BY <2>1, <2>2
    <2>3. CASE r \notin F /\ q \notin F
        BY <2>1, <2>3
    <2>4. ASSUME NEW a \in Rows, NEW b \in Rows, a \in F, b \notin F, h[a].there, h[b].there, a # b
          PROVE  Claims(a, h[a]) \cap Claims(b, h[b]) = {}
        <3>1. CASE b \in G
            BY <2>4, <3>1 DEF Overlaid
        <3>2. CASE b \notin G
            <4>1. f[b] = g[b]
                BY <2>4, <3>2 DEF Over
            <4>2. QED
                BY <2>1, <2>4, <4>1
        <3>3. QED
            BY <3>1, <3>2
    <2>5. QED
        BY <2>2, <2>3, <2>4
<1>3. LevelsMatch(h)
    <2> SUFFICES ASSUME NEW t \in Topics, h[t].there, h[t].parent # None
                 PROVE  h[h[t].parent].owner = h[t].owner
        BY StandingIs DEF LevelsMatch
    <2> DEFINE l == h[t].parent
    <2>1. /\ LevelsMatch(f) /\ LevelsMatch(g) /\ RefsThere(f) /\ RefsThere(g)
          /\ t \in Rows /\ t \notin Questions
        BY TablesApart DEF Over, Catalogued, IsCatalogue, Topics, Questions
    <2>2. h[t] \in RowOf(t) /\ Parents(t) = Levels \cup {None} /\ None \notin Rows
        BY <2>1, ConsoleAssumption DEF Over, Parents
    <2>3. l \in Levels /\ l \in Rows /\ l \in Refs(h[t])
        BY <2>1, <2>2, RowColumns, TablesApart DEF Refs
    <2>4. ASSUME base[l].there PROVE f[l].owner = base[l].owner /\ g[l].owner = base[l].owner
        <3>1. base[l].used
            BY <2>3, <2>4, RowColumns DEF Over
        <3>2. QED
            BY <2>3, <3>1, LevelsKeep DEF Over
    <2>5. CASE t \in F
        <3>1. f[l].owner = f[t].owner /\ f[l].there
            BY <2>1, <2>3, <2>5, StandingIs DEF LevelsMatch, RefsThere
        <3>2. h[t] = f[t] /\ h[l] = IF l \in F THEN f[l] ELSE g[l]
            BY <2>1, <2>3, <2>5
        <3>3. l \notin F => f[l] = base[l]
            BY <2>3 DEF Over
        <3>4. l \notin F => g[l].owner = f[l].owner
            BY <2>4, <3>1, <3>3
        <3>5. h[l].owner = f[l].owner
            BY <3>2, <3>4
        <3>6. QED
            BY <3>1, <3>2, <3>5
    <2>6. CASE t \notin F
        <3>1. g[l].owner = g[t].owner /\ g[l].there
            BY <2>1, <2>3, <2>6, StandingIs DEF LevelsMatch, RefsThere
        <3>2. l \in F => g[l] = base[l]
            BY <2>3 DEF Over, Overlaid
        <3>3. h[t] = g[t] /\ h[l] = IF l \in F THEN f[l] ELSE g[l]
            BY <2>1, <2>3, <2>6
        <3>4. l \in F => f[l].owner = g[l].owner
            BY <2>4, <3>1, <3>2
        <3>5. h[l].owner = g[l].owner
            BY <3>3, <3>4
        <3>6. QED
            BY <3>1, <3>3, <3>5
    <2>7. QED
        BY <2>5, <2>6
<1>4. UsedRefs(h)
    <2> SUFFICES ASSUME NEW r \in Rows, h[r].used, NEW p \in Refs(h[r])
                 PROVE  h[p].used
        BY DEF UsedRefs
    <2>1. p \in Rows /\ UsedRefs(f) /\ UsedRefs(g)
        BY RowColumns DEF Over, Catalogued
    <2>2. CASE p \in F
        BY <2>1, <2>2 DEF Over
    <2>3. CASE p \notin F /\ r \notin F
        BY <2>1, <2>3 DEF UsedRefs
    <2>4. CASE p \notin F /\ r \in F
        <3>1. base[p].used
            BY <2>1, <2>4 DEF UsedRefs, Over
        <3>2. QED
            BY <2>1, <2>4, <3>1 DEF Over
    <2>5. QED
        BY <2>2, <2>3, <2>4
<1>5. QED
    BY <1>1, <1>2, <1>3, <1>4 DEF Catalogued, IsCatalogue

-----------------------------------------------------------------------------
(* A flush, a commit and a rollback *)

\* The rows that w will hold once it has flushed.
Reach(w) == Holds(w) \cup Dirty(w) \cup Sweep(w)

LEMMA AfterIsOver ==
    ASSUME IInv, NEW w \in Workers, Flushes(w)
    PROVE  /\ Over(db, Reach(w), After(w))
           /\ \A r \in Rows : Finished(db[r]) => After(w)[r] = db[r]
           /\ \A r \in Rows : See(w, r).used => After(w)[r].used
           /\ Reach(w) \subseteq Rows
<1>1. ~Conflicts(w) /\ Catalogued(After(w)) /\ Reach(w) \subseteq Rows
    BY AfterCatalogued, SweepIs DEF Flushes, Reach
<1>2. ASSUME NEW r \in Rows
      PROVE  /\ db[r] \in RowOf(r) /\ After(w)[r] \in RowOf(r)
             /\ See(w, r).used => After(w)[r].used
             /\ r \in Reach(w) => After(w)[r].used
             /\ r \notin Reach(w) => After(w)[r] = db[r]
             /\ db[r].used => Fixed(r, db[r], After(w)[r])
             /\ Finished(db[r]) => After(w)[r] = db[r]
    <2>1. /\ db[r] \in RowOf(r) /\ After(w)[r] \in RowOf(r)
          /\ See(w, r).used => After(w)[r].used /\ Fixed(r, See(w, r), After(w)[r])
          /\ db[r].used => See(w, r).used /\ Fixed(r, db[r], See(w, r))
        BY <1>1, SeeRow, AfterRow
    <2>2. r \in Holds(w) => See(w, r).used
        BY HeldRow
    <2>3. r \in Reach(w) => After(w)[r].used
        BY <1>1, <2>1, <2>2, AfterRow DEF Reach
    <2>4. r \notin Reach(w) => After(w)[r] = db[r]
        BY <1>1, SeeRow, AfterRow DEF Reach
    <2>5. Finished(db[r]) => After(w)[r] = db[r]
        BY <1>1, SeeRow, AfterRow
    <2>6. QED
        BY <2>1, <2>3, <2>4, <2>5 DEF Fixed
<1>3. QED
    BY <1>1, <1>2 DEF Over

LEMMA SeenIsOver ==
    ASSUME IInv, NEW w \in Workers
    PROVE  Over(db, Holds(w), Seen(w)) /\ \A r \in Holds(w) : r \in Rows
<1>1. Catalogued(Seen(w)) /\ Holds(w) \subseteq Rows /\ \A r \in Holds(w) : Held(w, r)
    BY DEF IInv, Session
<1>2. \A r \in Rows : /\ db[r] \in RowOf(r) /\ Seen(w)[r] \in RowOf(r)
                      /\ r \notin Holds(w) => Seen(w)[r] = db[r]
                      /\ r \in Holds(w) => Seen(w)[r] = tx[w].own[r]
                      /\ db[r].used => Fixed(r, db[r], Seen(w)[r])
    BY SeeRow
<1>3. \A r \in Holds(w) : Seen(w)[r].used
    BY <1>1, <1>2 DEF Held
<1>4. QED
    BY <1>1, <1>2, <1>3 DEF Over

LEMMA InsertStands ==
    ASSUME IInv, NEW w \in Workers, NEW r \in Dirty(w), r \notin Sweep(w),
           ~tx[w].dirty[r].loaded.used
    PROVE  After(w)[r].there
<1>1. /\ r \in Rows /\ Assigned(w, r) /\ See(w, r) = tx[w].dirty[r].loaded
      /\ tx[w].dirty[r].loaded \in RowOf(r) /\ tx[w].dirty[r].assigned \in RowOf(r)
      /\ tx[w].dirty[r].assigned.used /\ tx[w].dirty[r].assigned.there
    BY DirtyRow DEF Assigned
<1>2. Written(w)[r] = tx[w].dirty[r].assigned
    BY <1>1, WrittenIs, ChangedRow
<1>3. QED
    BY <1>1, <1>2, AfterIs

\* A row that is gone then is named by a deletion, or gone with what it belonged to.
LEMMA AfterExplained ==
    ASSUME IInv, NEW w \in Workers, ~Conflicts(w), NEW r \in Rows,
           Finished(After(w)[r]), ~Finished(db[r])
    PROVE  Deletes(w, r) \/ \E p \in Refs(After(w)[r]) : ~After(w)[p].there
<1> DEFINE a == After(w)[r]
           o == See(w, r)
<1>1. a \in RowOf(r) /\ a.used /\ ~a.there /\ Refs(a) \subseteq Rows
    BY AfterRow, RowColumns DEF Finished
<1>2. CASE r \in Sweep(w)
    <2>1. Deletes(w, r) \/ \E p \in Refs(a) : p \in Sweep(w)
        BY <1>2, AfterRow
    <2>2. \A p \in Rows : p \in Sweep(w) => ~After(w)[p].there
        BY AfterRow
    <2>3. QED
        BY <1>1, <2>1, <2>2
<1>3. CASE r \notin Sweep(w)
    <2>1. ~o.there
        BY <1>1, <1>3, AfterStands
    <2>2. Finished(o) /\ a = o
        <3>1. CASE r \in Dirty(w)
            <4>1. o.used
                BY <1>1, <1>3, <3>1, InsertStands, DirtyRow
            <4>2. QED
                BY <2>1, <4>1, AfterRow DEF Finished
        <3>2. CASE r \notin Dirty(w)
            BY <1>1, <1>3, <3>2, AfterRow DEF Finished
        <3>3. QED
            BY <3>1, <3>2
    <2>3. r \in Holds(w) /\ o = tx[w].own[r]
        BY <2>2, SeeRow
    <2>4. Deletes(w, r) \/ \E p \in Refs(o) : ~See(w, p).there
        BY <2>1, <2>3, HeldRow
    <2>5. ASSUME NEW p \in Refs(o), ~See(w, p).there PROVE ~After(w)[p].there
        <3>1. p \in Rows /\ Seen(w)[r] = o /\ Seen(w)[p] = See(w, p)
            BY <1>1, <2>2, SeeRow
        <3>2. See(w, p).used
            BY <2>2, <2>5, <3>1 DEF IInv, Session, Catalogued, UsedRefs, Finished
        <3>3. ~(p \in Dirty(w) /\ ~tx[w].dirty[p].loaded.used)
            BY <3>2, DirtyRow
        <3>4. QED
            BY <2>5, <3>1, <3>3, AfterRow
    <2>6. QED
        BY <2>2, <2>4, <2>5
<1>4. QED
    BY <1>2, <1>3

LEMMA AfterDoomed ==
    ASSUME IInv, NEW w \in Workers, ~Conflicts(w), NEW r \in Rows, Doomed(w, r)
    PROVE  Finished(After(w)[r])
<1>1. See(w, r).used /\ After(w)[r].used
    BY AfterRow DEF Doomed
<1>2. CASE See(w, r).there
    <2>1. r \in Dirty(w) /\ ~tx[w].dirty[r].assigned.there
        BY <1>2 DEF Doomed
    <2>2. r \in Deleted(w)
        BY <2>1, DirtyRow DEF Assigned, Deleted
    <2>3. QED
        BY <1>1, <2>2, SweepIs, AfterRow DEF Finished
<1>3. CASE ~See(w, r).there
    BY <1>1, <1>3, AfterRow DEF Finished
<1>4. QED
    BY <1>2, <1>3

\* Where v's own rows and unflushed ones are out of w's reach.
LEMMA OutOfReach ==
    ASSUME IInv, NEW w \in Workers, Flushes(w), NEW v \in Workers \ {w}
    PROVE  /\ \A r \in Holds(v) : r \notin Reach(w)
           /\ \A r \in Dirty(v) : ~tx[v].dirty[r].loaded.used => r \notin Reach(w)
<1>1. ~Conflicts(w)
    BY DEF Flushes
<1>2. \A r \in Holds(v) : r \notin Reach(w)
    BY AfterApart DEF Reach
<1>3. ASSUME NEW r \in Dirty(v), ~tx[v].dirty[r].loaded.used PROVE r \notin Reach(w)
    <2>1. r \in Rows /\ db[r] = Blank /\ r \notin Holds(w) \cup Dirty(w)
        BY <1>3, DirtyRow DEF Assigned
    <2>2. Written(w)[r] = Blank
        BY <2>1, SeeRow, WrittenIs
    <2>3. r \notin Sweep(w)
        BY <2>1, <2>2, SweepIs DEF Blank
    <2>4. QED
        BY <2>1, <2>3 DEF Reach
<1>4. QED
    BY <1>2, <1>3

\* The other sessions and requests.
Others(w) ==
    /\ DOMAIN tx' = Workers /\ DOMAIN at' = Workers /\ DOMAIN job' = Workers
    /\ \A v \in Workers \ {w} : tx'[v] = tx[v] /\ at'[v] = at[v] /\ job'[v] = job[v]

LEMMA OthersStay ==
    ASSUME NEW w \in Workers, Others(w), NEW v \in Workers \ {w}
    PROVE  /\ Holds(v)' = Holds(v) /\ Dirty(v)' = Dirty(v)
           /\ \A r : Deletes(v, r)' <=> Deletes(v, r)
           /\ UNCHANGED db => /\ \A r : See(v, r)' = See(v, r) /\ Seen(v)' = Seen(v)
                              /\ \A r : Doomed(v, r)' <=> Doomed(v, r)
                              /\ Job(v)' <=> Job(v)
<1>1. tx'[v] = tx[v] /\ at'[v] = at[v] /\ job'[v] = job[v]
    BY DEF Others
<1>2. /\ Holds(v)' = Holds(v) /\ Dirty(v)' = Dirty(v) /\ \A r : Deletes(v, r)' <=> Deletes(v, r)
    BY <1>1 DEF Holds, Dirty, Deletes
<1>3. ASSUME UNCHANGED db
      PROVE  /\ \A r : See(v, r)' = See(v, r) /\ Seen(v)' = Seen(v)
             /\ \A r : Doomed(v, r)' <=> Doomed(v, r)
    BY <1>1, <1>2, <1>3 DEF See, Seen, Doomed
<1>4. ASSUME UNCHANGED db PROVE Job(v)' <=> Job(v)
    BY <1>1, <1>2, <1>3, <1>4 DEF Job
<1>5. QED
    BY <1>2, <1>3, <1>4

LEMMA OthersSession ==
    ASSUME IInv, NEW w \in Workers, Others(w), UNCHANGED db, NEW v \in Workers \ {w},
           \A r \in Dirty(v) : ~tx[v].dirty[r].loaded.used => r \notin Holds(w)' \cup Dirty(w)',
           \A r \in Holds(v) : ~db[r].used => r \notin Dirty(w)'
    PROVE  Session(v)'
<1>1. /\ Session(v) /\ tx'[v] = tx[v] /\ Holds(v)' = Holds(v) /\ Dirty(v)' = Dirty(v)
      /\ \A r : (Deletes(v, r)' <=> Deletes(v, r)) /\ See(v, r)' = See(v, r)
      /\ Seen(v)' = Seen(v)
    BY OthersStay DEF IInv, Others
<1>2. \A x \in Workers \ {w} : Holds(x)' = Holds(x) /\ Dirty(x)' = Dirty(x)
    BY OthersStay
<1>3. ASSUME NEW r \in Holds(v) PROVE Held(v, r)'
    <2>1. Held(v, r)
        BY <1>1 DEF Session
    <2>2. ~db[r].used => \A x \in Workers \ {v} : r \notin Dirty(x)'
        BY <1>2, <2>1 DEF Held
    <2>3. QED
        BY <1>1, <2>1, <2>2 DEF Held
<1>4. ASSUME NEW r \in Dirty(v) PROVE Assigned(v, r)'
    <2>1. Assigned(v, r)
        BY <1>1 DEF Session
    <2>2. ~tx[v].dirty[r].loaded.used =>
             \A x \in Workers \ {v} : r \notin Holds(x)' \cup Dirty(x)'
        BY <1>2, <2>1 DEF Assigned
    <2>3. QED
        BY <1>1, <2>1, <2>2 DEF Assigned
<1>5. Catalogued(Seen(v))'
    <2>1. Catalogued(Seen(v))' <=> Catalogued(Seen(v)')
        BY DEF Catalogued, IsCatalogue, RefsThere, KeysUnique, LevelsMatch, UsedRefs, Standing
    <2>2. QED
        BY <1>1, <2>1 DEF Session
<1>6. QED
    BY <1>1, <1>3, <1>4, <1>5 DEF Session

\* What a flush makes of the session.
LEMMA FlushEffect ==
    ASSUME IInv, NEW w \in Workers, FlushRows(w)
    PROVE  /\ Others(w) /\ UNCHANGED <<db, at, job, cache, trail, lost, mix>> /\ Flushes(w)
           /\ tx'[w] = [own |-> tx'[w].own, dirty |-> tx'[w].dirty]
           /\ Holds(w)' = Reach(w) /\ Dirty(w)' = {}
           /\ \A r \in Reach(w) : tx'[w].own[r] = After(w)[r]
           /\ \A r \in Rows : See(w, r)' = After(w)[r]
           /\ Seen(w)' = After(w)
<1>1. /\ Flushes(w) /\ UNCHANGED <<db, at, job, cache, trail, lost, mix>>
      /\ tx' = [tx EXCEPT ![w] = [own |-> [r \in Reach(w) |-> After(w)[r]], dirty |-> <<>>]]
    BY DEF FlushRows, Quiet, world, Reach
<1>2. DOMAIN tx = Workers /\ DOMAIN at = Workers /\ DOMAIN job = Workers
    BY DEF IInv, Typed
<1>3. tx'[w] = [own |-> [r \in Reach(w) |-> After(w)[r]], dirty |-> <<>>] /\ Others(w)
    BY <1>1, <1>2 DEF Others
<1>4. /\ Holds(w)' = Reach(w) /\ Dirty(w)' = {}
      /\ \A r \in Reach(w) : tx'[w].own[r] = After(w)[r]
    BY <1>3 DEF Holds, Dirty
<1>5. ASSUME NEW r \in Rows PROVE See(w, r)' = After(w)[r]
    <2>1. r \notin Reach(w) => After(w)[r] = db[r]
        BY <1>1, AfterIsOver DEF Over
    <2>2. QED
        BY <1>1, <1>4, <2>1 DEF See
<1>6. Seen(w)' = After(w)
    <2>1. Seen(w)' = [r \in Rows |-> See(w, r)']
        BY DEF Seen
    <2>2. After(w) = [r \in Rows |-> After(w)[r]]
        BY DEF After, AfterSweep
    <2>3. QED
        BY <1>5, <2>1, <2>2
<1>7. QED
    BY <1>1, <1>3, <1>4, <1>5, <1>6

LEMMA CataloguedPrime ==
    ASSUME NEW w \in Workers
    PROVE  /\ Catalogued(Seen(w))' <=> Catalogued(Seen(w)')
           /\ Catalogued(db)' <=> Catalogued(db')
    BY DEF Catalogued, IsCatalogue, RefsThere, KeysUnique, LevelsMatch, UsedRefs, Standing

LEMMA FlushSession ==
    ASSUME IInv, NEW w \in Workers, FlushRows(w)
    PROVE  Session(w)'
<1>1. /\ Others(w) /\ UNCHANGED <<db, at, job, cache, trail, lost, mix>> /\ Flushes(w)
      /\ tx'[w] = [own |-> tx'[w].own, dirty |-> tx'[w].dirty]
      /\ Holds(w)' = Reach(w) /\ Dirty(w)' = {}
      /\ \A r \in Reach(w) : tx'[w].own[r] = After(w)[r]
      /\ \A r \in Rows : See(w, r)' = After(w)[r]
      /\ Seen(w)' = After(w)
    BY FlushEffect
<1>2. /\ ~Conflicts(w) /\ Reach(w) \subseteq Rows /\ Over(db, Reach(w), After(w))
      /\ \A r \in Rows : Finished(db[r]) => After(w)[r] = db[r]
    BY <1>1, AfterIsOver DEF Flushes
<1>3. Catalogued(Seen(w))'
    BY <1>1, AfterCatalogued, CataloguedPrime
<1>4. ASSUME NEW r \in Reach(w) PROVE Held(w, r)'
    <2>1. /\ r \in Rows /\ After(w)[r] \in RowOf(r) /\ After(w)[r].used
          /\ db[r].used => Fixed(r, db[r], After(w)[r])
          /\ Finished(db[r]) => After(w)[r] = db[r]
        BY <1>2 DEF Over
    <2>2. ASSUME ~db[r].used, NEW v \in Workers \ {w} PROVE r \notin Dirty(v)'
        <3>1. Dirty(v)' = Dirty(v)
            BY <1>1, OthersStay
        <3>2. CASE r \in Holds(w)
            BY <2>2, <3>1, <3>2, HeldRow DEF Held
        <3>3. CASE r \in Dirty(w)
            BY <2>2, <3>1, <3>3, DirtyRow DEF Assigned
        <3>4. CASE r \in Sweep(w) /\ r \notin Holds(w) \cup Dirty(w)
            <4>1. Written(w)[r] = db[r] /\ Written(w)[r].there
                BY <2>1, <3>4, SeeRow, WrittenIs, SweepIs
            <4>2. QED
                BY <2>1, <2>2, <4>1, SeeRow, RowColumns
        <3>5. QED
            BY <3>2, <3>3, <3>4 DEF Reach
    <2>3. ASSUME ~After(w)[r].there, ~Finished(db[r])
          PROVE  Deletes(w, r)' \/ \E p \in Refs(After(w)[r]) : ~See(w, p)'.there
        <3>1. Deletes(w, r) \/ \E p \in Refs(After(w)[r]) : ~After(w)[p].there
            BY <1>2, <2>1, <2>3, AfterExplained DEF Finished
        <3>2. Deletes(w, r)' <=> Deletes(w, r)
            BY <1>1 DEF Deletes
        <3>3. Refs(After(w)[r]) \subseteq Rows
            BY <2>1, RowColumns
        <3>4. QED
            BY <1>1, <3>1, <3>2, <3>3
    <2>4. tx'[w].own[r] = After(w)[r] /\ db' = db
        BY <1>1
    <2>5. QED
        BY <2>1, <2>2, <2>3, <2>4 DEF Held
<1>5. QED
    BY <1>1, <1>2, <1>3, <1>4 DEF Session

LEMMA FlushApart ==
    ASSUME IInv, NEW w \in Workers, FlushRows(w)
    PROVE  Apart'
<1>1. /\ Others(w) /\ Flushes(w) /\ Holds(w)' = Reach(w)
      /\ \A r \in Reach(w) : tx'[w].own[r] = After(w)[r]
    BY FlushEffect
<1>2. \A v \in Workers \ {w} : Holds(v)' = Holds(v) /\ tx'[v] = tx[v]
    BY <1>1, OthersStay DEF Others
<1>3. ASSUME NEW u \in Workers, NEW v \in Workers, u # v, NEW r \in Holds(u)', NEW q \in Holds(v)'
      PROVE  LET mine == tx'[u].own[r] other == tx'[v].own[q]
             IN /\ r # q
                /\ mine.there /\ ~other.there => q \notin Refs(mine)
                /\ mine.there /\ other.there => Claims(r, mine) \cap Claims(q, other) = {}
    <2>1. CASE u # w /\ v # w
        BY <1>2, <1>3, <2>1 DEF IInv, Apart
    <2>2. CASE u = w
        <3>1. r \in Reach(w) /\ q \in Holds(v) /\ tx'[v] = tx[v] /\ tx'[u].own[r] = After(w)[r]
            BY <1>1, <1>2, <1>3, <2>2
        <3>2. QED
            BY <1>1, <1>3, <2>2, <3>1, AfterApart DEF Reach
    <2>3. CASE v = w
        <3>1. q \in Reach(w) /\ r \in Holds(u) /\ tx'[u] = tx[u] /\ tx'[v].own[q] = After(w)[q]
            BY <1>1, <1>2, <1>3, <2>3
        <3>2. LET mine == After(w)[q] other == tx[u].own[r]
              IN /\ q # r
                 /\ other.there /\ ~mine.there => q \notin Refs(other)
                 /\ mine.there /\ other.there => Claims(q, mine) \cap Claims(r, other) = {}
            BY <1>1, <1>3, <2>3, <3>1, AfterApart DEF Reach
        <3>3. QED
            BY <2>3, <3>1, <3>2
    <2>4. QED
        BY <2>1, <2>2, <2>3
<1>4. QED
    BY <1>3 DEF Apart

\* Until the ids of a bulk deletion are done, nothing is written but deletions.
LEMMA EachDeletes ==
    ASSUME IInv, NEW w \in Workers, at[w] = "each",
           NEW r \in Rows, r \in Holds(w) \cup Dirty(w) \cup Sweep(w)
    PROVE  ~After(w)[r].there
<1>1. /\ \A q \in Holds(w) : ~tx[w].own[q].there
      /\ \A q \in Dirty(w) : ~tx[w].dirty[q].assigned.there
    BY DEF IInv, Job
<1>2. After(w)[r] = IF r \in Sweep(w) THEN Gone(Written(w)[r]) ELSE Written(w)[r]
    BY DEF After, AfterSweep
<1>3. CASE r \in Sweep(w)
    <2>1. Written(w)[r] \in RowOf(r)
        BY WrittenRow
    <2>2. DOMAIN Written(w)[r] = {"there", "used", "owner", "parent", "key", "mark"}
        BY <2>1, RowColumns
    <2>3. QED
        BY <1>2, <1>3, <2>2 DEF Gone
<1>4. CASE r \notin Sweep(w) /\ r \in Dirty(w)
    <2>1. Assigned(w, r) /\ ~tx[w].dirty[r].assigned.there
        BY <1>1, <1>4, DirtyRow
    <2>2. tx[w].dirty[r].loaded.there
        BY <2>1 DEF Assigned
    <2>3. r \in Deleted(w)
        BY <1>4, <2>1, <2>2 DEF Deleted
    <2>4. QED
        BY <1>4, <2>3 DEF Sweep, Swept
<1>5. CASE r \notin Sweep(w) /\ r \notin Dirty(w)
    <2>1. r \in Holds(w) /\ Written(w)[r] = tx[w].own[r]
        BY <1>5, WrittenIs, SeeRow
    <2>2. QED
        BY <1>1, <1>2, <1>5, <2>1
<1>6. QED
    BY <1>3, <1>4, <1>5

LEMMA FlushKeeps ==
    ASSUME IInv, NEW w \in Workers, FlushRows(w)
    PROVE  IInv'
<1>1. /\ Others(w) /\ UNCHANGED <<db, at, job, cache, trail, lost, mix>> /\ Flushes(w)
      /\ Holds(w)' = Reach(w) /\ Dirty(w)' = {}
      /\ \A r \in Rows : See(w, r)' = After(w)[r]
    BY FlushEffect
<1>2. ASSUME NEW v \in Workers \ {w} PROVE Session(v)' /\ Job(v)'
    <2>1. Session(v)'
        BY <1>1, OthersSession, OutOfReach
    <2>2. QED
        BY <1>1, <2>1, OthersStay DEF IInv
<1>3. Job(w)'
    <2>1. Job(w) /\ Dirty(w) # {} /\ ~Conflicts(w) /\ at'[w] = at[w] /\ job'[w] = job[w]
        BY <1>1 DEF IInv, FlushRows, Flushing, Flushes
    <2>2. tx[w] # Closed
        BY <2>1 DEF Closed, Dirty
    <2>3. ASSUME NEW r \in Rows, Doomed(w, r) PROVE Doomed(w, r)'
        BY <1>1, <2>1, <2>3, AfterDoomed DEF Finished, Doomed
    <2>4. at[w] # "idle" /\ job[w].rows \subseteq Rows
        BY <2>1, <2>2 DEF Job
    <2>5. ASSUME at[w] = "each", NEW r \in Holds(w)' PROVE ~tx'[w].own[r].there
        <3>1. r \in Reach(w)
            BY <1>1, <2>5
        <3>2. tx'[w].own[r] = After(w)[r]
            BY <3>1, FlushEffect
        <3>3. r \in Rows
            BY <1>1, <3>1, AfterIsOver DEF Over
        <3>4. QED
            BY <2>5, <3>1, <3>2, <3>3, EachDeletes DEF Reach
    <2>6. QED
        BY <1>1, <2>1, <2>2, <2>3, <2>4, <2>5 DEF Job
<1>4. Typed' /\ AuditTells' /\ Catalogued(db)'
    BY <1>1, CataloguedPrime DEF IInv, Typed, TypeOK, AuditTells, Others
<1>5. QED
    BY <1>2, <1>3, <1>4, FlushSession, FlushApart DEF IInv

LEMMA SameRows ==
    ASSUME NEW f, NEW g, \A r \in Rows : f[r] = g[r] /\ g[r] \in RowOf(r), Catalogued(g)
    PROVE  Catalogued(f)
<1>1. Standing(f) = Standing(g)
    BY DEF Standing
<1>2. \A r \in Rows : Refs(f[r]) = Refs(g[r]) /\ Refs(g[r]) \subseteq Rows
    BY RowColumns
<1>3. RefsThere(f) /\ UsedRefs(f)
    BY <1>1, <1>2, StandingIs DEF Catalogued, IsCatalogue, RefsThere, UsedRefs
<1>4. KeysUnique(f)
    BY <1>1, StandingIs DEF Catalogued, IsCatalogue, KeysUnique
<1>5. LevelsMatch(f)
    <2> SUFFICES ASSUME NEW t \in Topics, f[t].there, f[t].parent # None
                 PROVE  f[f[t].parent].owner = f[t].owner
        BY StandingIs DEF LevelsMatch
    <2>1. t \in Rows /\ f[t] = g[t] /\ f[t].parent \in Refs(f[t])
        BY TablesApart DEF Refs
    <2>2. f[t].parent \in Rows /\ g[g[t].parent].owner = g[t].owner
        BY <1>2, <2>1, StandingIs DEF Catalogued, IsCatalogue, LevelsMatch
    <2>3. QED
        BY <2>1, <2>2
<1>6. QED
    BY <1>3, <1>4, <1>5 DEF Catalogued, IsCatalogue

\* A request has ended.
EndedOf(w) == Others(w) /\ tx'[w] = Closed /\ at'[w] = "idle" /\ job'[w] = NoJob

LEMMA EndedEffect ==
    ASSUME IInv, NEW w \in Workers, Ended(w)
    PROVE  /\ EndedOf(w) /\ Holds(w)' = {} /\ Dirty(w)' = {}
           /\ tx'[w] = [own |-> tx'[w].own, dirty |-> tx'[w].dirty]
           /\ Seen(w)' = [r \in Rows |-> db'[r]]
<1>1. EndedOf(w)
    BY DEF Ended, Goto, Keep, EndedOf, Others, IInv, Typed
<1>2. Holds(w)' = {} /\ Dirty(w)' = {}
    BY <1>1 DEF EndedOf, Holds, Dirty, Closed
<1>3. Seen(w)' = [r \in Rows |-> db'[r]]
    BY <1>2 DEF Seen, See
<1>4. QED
    BY <1>1, <1>2, <1>3 DEF EndedOf, Closed

LEMMA EndedJob ==
    ASSUME NEW w \in Workers, EndedOf(w)
    PROVE  Job(w)'
<1>1. "none" \notin Deletions /\ "none" \notin Removals
    BY DEF Deletions, Removals
<1>2. QED
    BY <1>1 DEF EndedOf, Job, NoJob

LEMMA RollbackKeeps ==
    ASSUME IInv, NEW w \in Workers, Rollback(w)
    PROVE  IInv'
<1>1. Ended(w) /\ UNCHANGED <<db, cache, trail, lost, mix>>
    BY DEF Rollback, RollbackSession, Quiet, world
<1>2. /\ EndedOf(w) /\ Others(w) /\ Holds(w)' = {} /\ Dirty(w)' = {}
      /\ tx'[w] = [own |-> tx'[w].own, dirty |-> tx'[w].dirty]
      /\ Seen(w)' = [r \in Rows |-> db[r]]
    BY <1>1, EndedEffect DEF EndedOf
<1>3. ASSUME NEW v \in Workers \ {w} PROVE Session(v)' /\ Job(v)'
    <2>1. Session(v)'
        BY <1>1, <1>2, OthersSession
    <2>2. QED
        BY <1>1, <1>2, <2>1, OthersStay DEF IInv
<1>4. Session(w)' /\ Job(w)'
    <2>1. Catalogued([r \in Rows |-> db[r]])
        BY SameRows, SeeRow DEF IInv
    <2>2. QED
        BY <1>2, <2>1, EndedJob, CataloguedPrime DEF Session
<1>5. Apart'
    <2>1. \A v \in Workers \ {w} : Holds(v)' = Holds(v) /\ tx'[v] = tx[v]
        BY <1>2, OthersStay DEF Others
    <2>2. QED
        BY <1>2, <2>1 DEF IInv, Apart
<1>6. Typed' /\ AuditTells' /\ Catalogued(db)'
    BY <1>1, <1>2, CataloguedPrime DEF IInv, Typed, TypeOK, AuditTells, Others
<1>7. QED
    BY <1>3, <1>4, <1>5, <1>6 DEF IInv

LEMMA CommitEffect ==
    ASSUME IInv, NEW w \in Workers, CommitRows(w)
    PROVE  /\ EndedOf(w) /\ Others(w) /\ Flushes(w) /\ ~Conflicts(w) /\ at[w] = "commit"
           /\ Holds(w)' = {} /\ Dirty(w)' = {}
           /\ db' = After(w) /\ DOMAIN db' = Rows /\ db' = [r \in Rows |-> db'[r]]
           /\ UNCHANGED <<cache, mix>>
           /\ tx'[w] = [own |-> tx'[w].own, dirty |-> tx'[w].dirty] /\ Seen(w)' = db'
           /\ Over(db, Reach(w), db') /\ Catalogued(db)'
           /\ \A r \in Rows : Finished(db[r]) => db'[r] = db[r]
           /\ \A r \in Rows : db[r].used => db'[r].used
           /\ \A r \in Rows : See(w, r).used => db'[r].used
<1>1. /\ Ended(w) /\ Flushes(w) /\ db' = After(w) /\ at[w] = "commit" /\ UNCHANGED <<cache, mix>>
    BY DEF CommitRows
<1>2. DOMAIN db' = Rows /\ db' = [r \in Rows |-> db'[r]]
    BY <1>1 DEF After, AfterSweep
<1>3. /\ EndedOf(w) /\ Holds(w)' = {} /\ Dirty(w)' = {} /\ Seen(w)' = db'
      /\ tx'[w] = [own |-> tx'[w].own, dirty |-> tx'[w].dirty]
    BY <1>1, <1>2, EndedEffect
<1>4. Catalogued(db)'
    BY <1>1, AfterCatalogued, CataloguedPrime
<1>5. \A r \in Rows : db[r].used => See(w, r).used
    BY SeeRow
<1>6. QED
    BY <1>1, <1>2, <1>3, <1>4, <1>5, AfterIsOver DEF EndedOf, Flushes

\* Another session goes on over what w has committed.
LEMMA CommitSees ==
    ASSUME IInv, NEW w \in Workers, CommitRows(w), NEW v \in Workers \ {w}
    PROVE  /\ Catalogued(Seen(v))'
           /\ \A r \in Holds(v) : db'[r] = db[r]
           /\ \A r \in Rows : See(v, r).used =>
                 See(v, r)'.used /\ (~See(v, r).there => ~See(v, r)'.there)
<1>1. /\ Others(w) /\ Flushes(w) /\ db' = After(w) /\ Over(db, Reach(w), db')
      /\ \A r \in Rows : Finished(db[r]) => db'[r] = db[r]
      /\ \A r \in Rows : db[r].used => db'[r].used
    BY CommitEffect
<1>2. Holds(v)' = Holds(v) /\ tx'[v] = tx[v] /\ \A r \in Holds(v) : r \in Rows /\ r \notin Reach(w)
    BY <1>1, OthersStay, OutOfReach, SeenIsOver DEF Others
<1>3. \A r \in Rows : Seen(v)'[r] = See(v, r)'
                      /\ See(v, r)' = IF r \in Holds(v) THEN Seen(v)[r] ELSE db'[r]
    BY <1>2, SeeRow DEF Seen, See
<1>4. \A r \in Holds(v) : db'[r] = db[r]
    BY <1>1, <1>2 DEF Over
<1>5. ASSUME NEW r \in Rows, See(v, r).used
      PROVE  See(v, r)'.used /\ (~See(v, r).there => ~See(v, r)'.there)
    <2>1. CASE r \in Holds(v)
        BY <1>3, <1>5, <2>1, SeeRow
    <2>2. CASE r \notin Holds(v)
        BY <1>1, <1>3, <1>5, <2>2, SeeRow DEF Finished
    <2>3. QED
        BY <2>1, <2>2
<1>6. Overlaid(Holds(v), Seen(v), Reach(w), db')
    <2> SUFFICES ASSUME NEW q \in Holds(v), NEW r \in Reach(w)
                 PROVE  /\ q # r
                        /\ Seen(v)[q].there /\ ~db'[r].there => r \notin Refs(Seen(v)[q])
                        /\ db'[r].there /\ ~Seen(v)[q].there => q \notin Refs(db'[r])
                        /\ Seen(v)[q].there /\ db'[r].there =>
                              Claims(q, Seen(v)[q]) \cap Claims(r, db'[r]) = {}
        BY DEF Overlaid
    <2>1. Seen(v)[q] = tx[v].own[q] /\ db'[r] = After(w)[r]
        BY <1>1, <1>2, SeeRow
    <2>2. LET mine == After(w)[r] other == tx[v].own[q]
          IN /\ r # q
             /\ mine.there /\ ~other.there => q \notin Refs(mine)
             /\ other.there /\ ~mine.there => r \notin Refs(other)
             /\ mine.there /\ other.there => Claims(r, mine) \cap Claims(q, other) = {}
        BY <1>1, AfterApart DEF Reach
    <2>3. QED
        BY <2>1, <2>2
<1>7. Catalogued(Seen(v)')
    BY <1>1, <1>3, <1>6, SeenIsOver, Overlay
<1>8. QED
    BY <1>4, <1>5, <1>7, CataloguedPrime

LEMMA CommitOthers ==
    ASSUME IInv, NEW w \in Workers, CommitRows(w), NEW v \in Workers \ {w}
    PROVE  Session(v)' /\ Job(v)'
<1>1. /\ Others(w) /\ Flushes(w) /\ Over(db, Reach(w), db') /\ Holds(w)' = {} /\ Dirty(w)' = {}
      /\ \A r \in Rows : db[r].used => db'[r].used
    BY CommitEffect
<1>2. /\ Session(v) /\ Job(v) /\ tx'[v] = tx[v] /\ Holds(v)' = Holds(v) /\ Dirty(v)' = Dirty(v)
      /\ at'[v] = at[v] /\ job'[v] = job[v]
      /\ \A r : (Deletes(v, r)' <=> Deletes(v, r))
    BY <1>1, OthersStay DEF IInv, Others
<1>3. /\ Catalogued(Seen(v))' /\ \A r \in Holds(v) : db'[r] = db[r]
      /\ \A r \in Rows : See(v, r).used =>
            See(v, r)'.used /\ (~See(v, r).there => ~See(v, r)'.there)
    BY CommitSees
<1>4. \A x \in Workers \ {w} : Holds(x)' = Holds(x) /\ Dirty(x)' = Dirty(x)
    BY <1>1, OthersStay
<1>5. ASSUME NEW r \in Holds(v) PROVE Held(v, r)'
    <2>1. r \in Rows /\ Held(v, r) /\ db'[r] = db[r] /\ tx'[v].own[r] = tx[v].own[r]
          /\ See(v, r) = tx[v].own[r]
        BY <1>2, <1>3, HeldRow, SeeRow
    <2>2. ~db[r].used => \A x \in Workers \ {v} : r \notin Dirty(x)'
        BY <1>1, <1>4, <2>1 DEF Held
    <2>3. ASSUME NEW p \in Refs(tx[v].own[r]), ~See(v, p).there PROVE ~See(v, p)'.there
        <3>1. p \in Rows /\ Seen(v)[r] = See(v, r) /\ Seen(v)[p] = See(v, p) /\ See(v, r).used
            BY <2>1, <2>3, SeeRow, RowColumns, HeldRow
        <3>2. See(v, p).used
            BY <1>2, <2>1, <2>3, <3>1 DEF Session, Catalogued, UsedRefs
        <3>3. QED
            BY <1>3, <2>3, <3>1, <3>2
    <2>4. QED
        BY <1>2, <2>1, <2>2, <2>3 DEF Held
<1>6. ASSUME NEW r \in Dirty(v) PROVE Assigned(v, r)'
    <2> DEFINE old == tx[v].dirty[r].loaded
               new == tx[v].dirty[r].assigned
    <2>1. r \in Rows /\ Assigned(v, r) /\ tx'[v].dirty[r] = tx[v].dirty[r] /\ new \in RowOf(r)
          /\ new.used
        BY <1>2, DirtyRow
    <2>2. old.used => db'[r].used /\ Fixed(r, db'[r], old)
        <3>1. ASSUME old.used PROVE db[r].used /\ Fixed(r, db[r], old) /\ Fixed(r, db[r], db'[r])
            BY <1>1, <2>1, <3>1 DEF Assigned, Over
        <3>2. QED
            BY <1>1, <2>1, <3>1 DEF Fixed
    <2>3. ~old.used => db'[r] = Blank
        <3>1. ASSUME ~old.used PROVE r \notin Reach(w) /\ db[r] = Blank
            BY <1>1, <2>1, <3>1, OutOfReach DEF Assigned
        <3>2. QED
            BY <1>1, <2>1, <3>1 DEF Over
    <2>4. ~old.used => \A x \in Workers \ {v} : r \notin Holds(x)' \cup Dirty(x)'
        BY <1>1, <1>4, <2>1 DEF Assigned
    <2>5. r \notin Questions => \A p \in Refs(new) : db'[p].used
        <3>1. Refs(new) \subseteq Rows
            BY <2>1, RowColumns
        <3>2. QED
            BY <1>1, <2>1, <3>1 DEF Assigned
    <2>6. ASSUME r \in Topics, new.parent # None PROVE db'[new.parent].owner = new.owner
        <3>1. r \notin Questions /\ Parents(r) = Levels \cup {None} /\ None \notin Rows
            BY <2>6, ConsoleAssumption DEF Topics, Questions, Parents
        <3>2. new.parent \in Levels /\ new.parent \in Rows /\ new.parent \in Refs(new)
            BY <2>1, <2>6, <3>1, RowColumns, TablesApart DEF Refs
        <3>3. db[new.parent].used /\ db[new.parent].owner = new.owner
            BY <2>1, <2>6, <3>1, <3>2 DEF Assigned
        <3>4. db'[new.parent].owner = db[new.parent].owner
            BY <1>1, <3>2, <3>3, LevelsKeep DEF Over
        <3>5. QED
            BY <3>3, <3>4
    <2>7. QED
        BY <1>2, <2>1, <2>2, <2>3, <2>4, <2>5, <2>6 DEF Assigned
<1>7. Session(v)'
    BY <1>2, <1>3, <1>5, <1>6 DEF Session
<1>8. Job(v)'
    <2>1. ASSUME NEW r \in Rows, Doomed(v, r) PROVE Doomed(v, r)'
        <3>1. See(v, r).there \in BOOLEAN
            BY SeeRow, RowColumns
        <3>2. QED
            BY <1>2, <1>3, <2>1, <3>1 DEF Doomed
    <2>2. at[v] # "idle" => job[v].rows \subseteq Rows
        BY <1>2 DEF Job
    <2>3. at[v] = "idle" => job[v] = NoJob
        BY <1>2 DEF Job
    <2>4. job[v].kind \in Deletions \/ job[v].kind \in Removals => job[v].rows \subseteq Rows
        BY <2>2, <2>3 DEF NoJob, Deletions, Removals
    <2>5. QED
        BY <1>1, <1>2, <2>1, <2>4 DEF Job
<1>9. QED
    BY <1>7, <1>8

LEMMA CommitApart ==
    ASSUME IInv, NEW w \in Workers, Others(w), Holds(w)' = {}
    PROVE  Apart'
<1>1. \A v \in Workers \ {w} : Holds(v)' = Holds(v) /\ tx'[v] = tx[v]
    BY OthersStay DEF Others
<1>2. QED
    BY <1>1 DEF IInv, Apart

\* The audit of what was committed, and of what was gone before.
LEMMA CommitTells ==
    ASSUME IInv, NEW w \in Workers, CommitRows(w)
    PROVE  AuditTells' /\ trail' \cup lost' \subseteq [action : Deletions, rows : SUBSET Rows]
<1> DEFINE old == trail \cup lost
           new == trail' \cup lost'
<1>1. /\ Flushes(w) /\ ~Conflicts(w) /\ at[w] = "commit" /\ db' = After(w)
      /\ \A r \in Rows : Finished(db[r]) => db'[r] = db[r]
      /\ \A r \in Rows : db[r].used => db'[r].used
    BY CommitEffect
<1>2. /\ trail' = IF Audited(w, "written") THEN trail \cup {Entry(w)} ELSE trail
      /\ lost' = IF Audited(w, "logged") THEN lost \cup {Entry(w)} ELSE lost
    BY DEF CommitRows
<1>3. Job(w) /\ job[w].rows \subseteq Rows /\ job[w].audit \in {"none", "written", "logged"}
    BY <1>1 DEF IInv, Job
<1>4. \A e \in new : e \in old \/ (e = Entry(w) /\ job[w].kind \in Deletions)
    BY <1>2 DEF Audited
<1>5. Entry(w).rows = job[w].rows /\ Entry(w).action = job[w].kind
    BY DEF Entry
<1>6. /\ old \subseteq [action : Deletions, rows : SUBSET Rows]
      /\ \A e \in old, r \in Rows : r \in e.rows => Finished(db[r])
      /\ \A r \in Rows : Finished(db[r]) /\ (\A p \in Refs(db[r]) : db[p].there) =>
            \E e \in old : r \in e.rows
    BY DEF IInv, Typed, TypeOK, AuditTells, Finished
<1>7. new \subseteq [action : Deletions, rows : SUBSET Rows]
    <2>1. job[w].kind \in Deletions => Entry(w) \in [action : Deletions, rows : SUBSET Rows]
        BY <1>3 DEF Entry
    <2>2. QED
        BY <1>4, <1>6, <2>1
<1>8. ASSUME NEW e \in new, NEW r \in Rows, r \in e.rows PROVE Finished(db'[r])
    <2>1. CASE e \in old
        BY <1>1, <1>6, <1>8, <2>1
    <2>2. CASE e = Entry(w) /\ job[w].kind \in Deletions
        <3>1. Doomed(w, r)
            BY <1>1, <1>3, <1>5, <1>8, <2>2 DEF Job
        <3>2. QED
            BY <1>1, <3>1, AfterDoomed
    <2>3. QED
        BY <1>4, <2>1, <2>2
<1>9. ASSUME NEW r \in Rows, Finished(db'[r]), \A p \in Refs(db'[r]) : db'[p].there
      PROVE  \E e \in new : r \in e.rows
    <2>1. old \subseteq new
        BY <1>2
    <2>2. CASE Finished(db[r])
        <3>1. db'[r] = db[r] /\ Refs(db[r]) \subseteq Rows
            BY <1>1, <2>2, SeeRow, RowColumns
        <3>2. ASSUME NEW p \in Refs(db[r]) PROVE db[p].there
            <4>1. p \in Rows /\ db[p].used
                BY <2>2, <3>1 DEF IInv, Catalogued, UsedRefs, Finished
            <4>2. db'[p].there
                BY <1>9, <3>1
            <4>3. QED
                BY <1>1, <4>1, <4>2 DEF Finished
        <3>3. QED
            BY <1>6, <2>1, <2>2, <3>2
    <2>3. CASE ~Finished(db[r])
        <3>1. Deletes(w, r)
            BY <1>1, <1>9, <2>3, AfterExplained
        <3>2. job[w].kind \in Deletions /\ r \in job[w].rows /\ job[w].audit \in {"written", "logged"}
            BY <1>1, <1>3, <3>1 DEF Deletes, Job
        <3>3. Entry(w) \in new
            BY <1>2, <3>2 DEF Audited
        <3>4. QED
            BY <1>5, <3>2, <3>3
    <2>4. QED
        BY <2>2, <2>3
<1>10. AuditTells'
    BY <1>8, <1>9 DEF AuditTells, Finished
<1>11. QED
    BY <1>7, <1>10

LEMMA CommitKeeps ==
    ASSUME IInv, NEW w \in Workers, CommitRows(w)
    PROVE  IInv'
<1>1. /\ EndedOf(w) /\ Others(w) /\ Holds(w)' = {} /\ Dirty(w)' = {}
      /\ DOMAIN db' = Rows /\ UNCHANGED <<cache, mix>>
      /\ tx'[w] = [own |-> tx'[w].own, dirty |-> tx'[w].dirty] /\ Seen(w)' = db'
      /\ Over(db, Reach(w), db') /\ Catalogued(db)'
    BY CommitEffect
<1>2. Session(w)' /\ Job(w)'
    BY <1>1, EndedJob, CataloguedPrime DEF Session
<1>3. Typed'
    <2>1. TypeOK'
        BY <1>1, CommitTells DEF TypeOK, IInv, Typed, Over
    <2>2. QED
        BY <1>1, <2>1 DEF Typed, Others
<1>4. QED
    BY <1>1, <1>2, <1>3, CommitOthers, CommitApart, CommitTells DEF IInv

-----------------------------------------------------------------------------
(* What a request assigns *)

\* A value that w may give to the row, that it reads as it is now.
Writable(w, r, new) ==
    /\ r \in Rows /\ new \in RowOf(r) /\ new.used
    /\ See(w, r).used => See(w, r).there /\ db[r].used /\ Fixed(r, See(w, r), new)
    /\ ~See(w, r).used => new.there /\ \A v \in Workers : r \notin Holds(v) \cup Dirty(v)
    /\ ~new.there => new = Gone(See(w, r))
    /\ r \notin Questions => \A p \in Refs(new) : db[p].used
    /\ r \in Topics /\ new.parent # None => db[new.parent].owner = new.owner

Sessions == Apart /\ \A w \in Workers : Session(w)

\* w's request goes on: it stays of its kind, and what it has deleted stays named.
GoesOn(w) ==
    \/ tx[w] = Closed
    \/ job'[w].kind = job[w].kind /\ job[w].rows \subseteq job'[w].rows

LEMMA PutEffect ==
    ASSUME IInv, NEW w \in Workers, NEW V, Dirty(w) = {}, Put(w, V)
    PROVE  /\ DOMAIN tx' = Workers /\ \A v \in Workers \ {w} : tx'[v] = tx[v]
           /\ tx'[w] = [own |-> tx'[w].own, dirty |-> tx'[w].dirty]
           /\ tx'[w].own = tx[w].own /\ Holds(w)' = Holds(w)
           /\ Dirty(w)' = {r \in DOMAIN V : V[r] # See(w, r)}
           /\ \A r \in Dirty(w)' : /\ tx'[w].dirty[r].loaded = See(w, r)
                                   /\ tx'[w].dirty[r].assigned = V[r]
<1> DEFINE seen == [r \in DOMAIN V |-> See(w, r)]
           changed == {r \in DOMAIN V : V[r] # See(w, r)}
           y == tx'[w]
<1>1. /\ DOMAIN tx = Workers /\ tx[w] = [own |-> tx[w].own, dirty |-> tx[w].dirty]
      /\ DOMAIN tx[w].dirty = {}
    BY DEF IInv, Typed, Session, Dirty
<1>2. y = Assign(tx[w], seen, V) /\ DOMAIN tx' = Workers /\ \A v \in Workers \ {w} : tx'[v] = tx[v]
    BY <1>1 DEF Put
<1>3. {r \in DOMAIN V : V[r] # seen[r]} = changed
    OBVIOUS
<1>4. y = [tx[w] EXCEPT !.dirty = [r \in changed |-> [loaded |-> seen[r], assigned |-> V[r]]]]
    <2>1. changed \cup DOMAIN tx[w].dirty = changed
        BY <1>1
    <2>2. [r \in changed |-> IF r \notin changed THEN tx[w].dirty[r]
                             ELSE [loaded |-> IF r \in DOMAIN tx[w].dirty
                                              THEN tx[w].dirty[r].loaded ELSE seen[r],
                                   assigned |-> V[r]]]
          = [r \in changed |-> [loaded |-> seen[r], assigned |-> V[r]]]
        BY <1>1
    <2> HIDE DEF changed, seen
    <2>3. QED
        BY <1>2, <1>3, <2>1, <2>2 DEF Assign
<1>5. /\ y = [own |-> y.own, dirty |-> y.dirty] /\ y.own = tx[w].own
      /\ y.dirty = [r \in changed |-> [loaded |-> seen[r], assigned |-> V[r]]]
    <2> HIDE DEF changed, seen
    <2>1. QED
        BY <1>1, <1>4
<1>6. QED
    BY <1>2, <1>5 DEF Holds, Dirty

\* Where it assigns only such values, the sessions stay sound.
LEMMA PutKeeps ==
    ASSUME IInv, NEW w \in Workers, NEW V, Dirty(w) = {}, UNCHANGED db, Put(w, V),
           Others(w), GoesOn(w),
           \A r \in DOMAIN V : V[r] # See(w, r) =>
              Writable(w, r, V[r]) /\ (~V[r].there => Deletes(w, r)')
    PROVE  Sessions'
<1>1. /\ tx'[w] = [own |-> tx'[w].own, dirty |-> tx'[w].dirty]
      /\ tx'[w].own = tx[w].own /\ Holds(w)' = Holds(w)
      /\ Dirty(w)' = {r \in DOMAIN V : V[r] # See(w, r)}
      /\ \A r \in Dirty(w)' : /\ tx'[w].dirty[r].loaded = See(w, r)
                              /\ tx'[w].dirty[r].assigned = V[r]
    BY PutEffect
<1>2. \A r \in Dirty(w)' : Writable(w, r, V[r]) /\ (~V[r].there => Deletes(w, r)')
    BY <1>1
<1>3. ASSUME NEW v \in Workers \ {w} PROVE Session(v)'
    <2>1. ASSUME NEW r \in Dirty(w)', ~db[r].used PROVE r \notin Holds(v) \cup Dirty(v)
        <3>1. ~(See(w, r).used /\ db[r].used) /\ (See(w, r).used => db[r].used)
            BY <1>2, <2>1 DEF Writable
        <3>2. QED
            BY <1>2, <2>1, <3>1 DEF Writable
    <2>2. ASSUME NEW r \in Dirty(v), ~tx[v].dirty[r].loaded.used
          PROVE  r \notin Holds(w)' \cup Dirty(w)'
        <3>1. db[r] = Blank /\ r \notin Holds(w)
            BY <2>2, DirtyRow DEF Assigned
        <3>2. QED
            BY <1>1, <2>1, <2>2, <3>1 DEF Blank
    <2>3. QED
        BY <2>1, <2>2, OthersSession
<1>4. \A r : See(w, r)' = See(w, r)
    BY <1>1 DEF See
<1>5. Seen(w)' = Seen(w)
    BY <1>4 DEF Seen
<1>6. ASSUME NEW r \in Holds(w) PROVE Held(w, r)'
    <2>1. Held(w, r)
        BY DEF IInv, Session
    <2>2. tx[w] # Closed
        BY DEF Closed, Holds
    <2>3. Deletes(w, r) => Deletes(w, r)'
        BY <2>2 DEF GoesOn, Deletes
    <2>4. \A x \in Workers \ {w} : Dirty(x)' = Dirty(x)
        BY OthersStay
    <2>5. QED
        BY <1>1, <1>4, <2>1, <2>3, <2>4 DEF Held
<1>7. ASSUME NEW r \in Dirty(w)' PROVE Assigned(w, r)'
    <2>1. /\ Writable(w, r, V[r]) /\ (~V[r].there => Deletes(w, r)')
          /\ tx'[w].dirty[r].loaded = See(w, r) /\ tx'[w].dirty[r].assigned = V[r]
        BY <1>1, <1>2
    <2>2. r \in Rows /\ See(w, r) \in RowOf(r) /\ db[r] \in RowOf(r)
          /\ (db[r].used => See(w, r).used /\ Fixed(r, db[r], See(w, r)))
        BY <2>1, SeeRow DEF Writable
    <2>3. ASSUME ~See(w, r).used
          PROVE  /\ db[r] = Blank /\ r \notin Holds(w)'
                 /\ \A v \in Workers \ {w} : r \notin Holds(v)' \cup Dirty(v)'
        <3>1. db[r] = Blank
            BY <2>2, <2>3, RowColumns
        <3>2. \A v \in Workers \ {w} : Holds(v)' = Holds(v) /\ Dirty(v)' = Dirty(v)
            BY OthersStay
        <3>3. QED
            BY <1>1, <2>1, <2>3, <3>1, <3>2 DEF Writable
    <2>4. See(w, r).used => /\ See(w, r).there /\ db[r].used /\ Fixed(r, db[r], See(w, r))
                            /\ Fixed(r, See(w, r), V[r])
        BY <2>1, <2>2 DEF Writable
    <2>5. QED
        BY <2>1, <2>2, <2>3, <2>4 DEF Assigned, Writable
<1>8. Session(w)'
    <2>1. Catalogued(Seen(w))'
        BY <1>5, CataloguedPrime DEF IInv, Session
    <2>2. Dirty(w)' \subseteq Rows /\ Holds(w)' \subseteq Rows
        BY <1>1, <1>2 DEF Writable, IInv, Session
    <2>3. QED
        BY <1>1, <1>6, <1>7, <2>1, <2>2 DEF Session
<1>9. Apart'
    <2>1. \A v \in Workers : Holds(v)' = Holds(v) /\ tx'[v].own = tx[v].own
        BY <1>1, OthersStay DEF Others
    <2>2. QED
        BY <2>1 DEF IInv, Apart
<1>10. QED
    BY <1>3, <1>8, <1>9 DEF Sessions

\* And where it assigns nothing.
LEMMA StandKeeps ==
    ASSUME IInv, NEW w \in Workers, UNCHANGED <<db, tx>>, Others(w), GoesOn(w)
    PROVE  Sessions'
<1>1. \A v \in Workers : Holds(v)' = Holds(v) /\ Dirty(v)' = Dirty(v)
    BY DEF Holds, Dirty
<1>2. \A v \in Workers : Seen(v)' = Seen(v) /\ \A r : See(v, r)' = See(v, r)
    BY <1>1 DEF See, Seen
<1>3. ASSUME NEW v \in Workers, tx[v] # Closed, NEW r PROVE Deletes(v, r) => Deletes(v, r)'
    BY <1>3 DEF GoesOn, Deletes, Others
<1>4. ASSUME NEW v \in Workers PROVE Session(v)'
    <2>1. Catalogued(Seen(v))'
        BY <1>2, CataloguedPrime DEF IInv, Session
    <2>2. ASSUME NEW r \in Holds(v) PROVE Held(v, r)'
        <3>1. Held(v, r)
            BY DEF IInv, Session
        <3>2. tx[v] # Closed
            BY DEF Closed, Holds
        <3>3. Deletes(v, r) => Deletes(v, r)'
            BY <1>3, <3>2
        <3>4. QED
            BY <1>1, <1>2, <3>1, <3>3 DEF Held
    <2>3. ASSUME NEW r \in Dirty(v) PROVE Assigned(v, r)'
        <3>1. Assigned(v, r)
            BY DEF IInv, Session
        <3>2. tx[v] # Closed
            BY DEF Closed, Dirty
        <3>3. Deletes(v, r) => Deletes(v, r)'
            BY <1>3, <3>2
        <3>4. QED
            BY <1>1, <3>1, <3>3 DEF Assigned
    <2>4. QED
        BY <1>1, <2>1, <2>2, <2>3 DEF IInv, Session
<1>5. Apart'
    BY <1>1 DEF IInv, Apart
<1>6. QED
    BY <1>4, <1>5 DEF Sessions

\* The rest of the invariant, where nothing is committed.
LEMMA RestKeeps ==
    ASSUME IInv, NEW w \in Workers, UNCHANGED <<db, trail, lost>>, Others(w), Sessions', Job(w)',
           cache' \in [Procs -> {None} \cup Catalogues]
    PROVE  IInv'
<1>1. Typed' /\ AuditTells' /\ Catalogued(db)'
    BY CataloguedPrime DEF IInv, Typed, TypeOK, AuditTells, Others, Catalogues
<1>2. \A v \in Workers \ {w} : Job(v)'
    BY OthersStay DEF IInv
<1>3. QED
    BY <1>1, <1>2 DEF IInv, Sessions

-----------------------------------------------------------------------------
(* A request begins *)

LEMMA MergeIs ==
    ASSUME NEW values, NEW kind, "kind" \notin DOMAIN values
    PROVE  /\ DOMAIN Merge(values, [kind |-> kind]) = DOMAIN values \cup {"kind"}
           /\ Merge(values, [kind |-> kind]).kind = kind
           /\ \A x \in DOMAIN values : Merge(values, [kind |-> kind])[x] = values[x]
    BY DEF Merge

LEMMA BeginEffect ==
    ASSUME IInv, NEW w \in Workers, NEW kind, NEW values, NEW step, "kind" \notin DOMAIN values,
           Begin(w, kind, values, step)
    PROVE  /\ at[w] = "idle" /\ tx[w] = Closed /\ Holds(w) = {} /\ Dirty(w) = {}
           /\ \A r : See(w, r) = db[r]
           /\ DOMAIN at' = Workers /\ DOMAIN job' = Workers /\ at'[w] = step
           /\ \A v \in Workers \ {w} : at'[v] = at[v] /\ job'[v] = job[v]
           /\ DOMAIN job'[w] = DOMAIN values \cup {"kind"} /\ job'[w].kind = kind
           /\ \A x \in DOMAIN values : job'[w][x] = values[x]
           /\ GoesOn(w)
<1>1. at[w] = "idle" /\ job' = [job EXCEPT ![w] = Merge(values, [kind |-> kind])]
      /\ at' = [at EXCEPT ![w] = step]
    BY DEF Begin, MayBegin, Keep, Goto
<1>2. tx[w] = Closed /\ DOMAIN at = Workers /\ DOMAIN job = Workers
    BY <1>1 DEF IInv, Job, Typed
<1>3. Holds(w) = {} /\ Dirty(w) = {}
    BY <1>2 DEF Holds, Dirty, Closed
<1>4. job'[w] = Merge(values, [kind |-> kind])
    BY <1>1, <1>2
<1>5. /\ DOMAIN job'[w] = DOMAIN values \cup {"kind"} /\ job'[w].kind = kind
      /\ \A x \in DOMAIN values : job'[w][x] = values[x]
    BY <1>4, MergeIs
<1>6. \A r : See(w, r) = db[r]
    BY <1>3 DEF See
<1>7. QED
    BY <1>1, <1>2, <1>3, <1>5, <1>6 DEF GoesOn

\* It assigns to rows, of which it deletes none.
LEMMA ChangeKeeps ==
    ASSUME IInv, NEW w \in Workers, NEW kind \in Kinds \ Deletions, NEW V,
           NEW step \in {"audit", "commit"}, Change(w, kind, V, step),
           \A r \in DOMAIN V : Writable(w, r, V[r]) /\ V[r].there
    PROVE  IInv'
<1> DEFINE values == [rows |-> DOMAIN V, audit |-> "none"]
<1>1. Begin(w, kind, values, step) /\ Put(w, V) /\ UNCHANGED <<db, cache, trail, lost, mix>>
    BY DEF Change, Quiet, world
<1>2. DOMAIN values = {"rows", "audit"} /\ values.rows = DOMAIN V /\ values.audit = "none"
    OBVIOUS
<1> HIDE DEF values
<1>3. /\ at[w] = "idle" /\ Dirty(w) = {}
      /\ DOMAIN at' = Workers /\ DOMAIN job' = Workers /\ at'[w] = step
      /\ \A v \in Workers \ {w} : at'[v] = at[v] /\ job'[v] = job[v]
      /\ DOMAIN job'[w] = {"rows", "audit", "kind"} /\ job'[w].kind = kind
      /\ job'[w].rows = DOMAIN V /\ job'[w].audit = "none" /\ GoesOn(w)
    BY <1>1, <1>2, BeginEffect
<1>4. Others(w)
    BY <1>1, <1>3, PutEffect DEF Others
<1>5. Sessions'
    BY <1>1, <1>3, <1>4, PutKeeps
<1>6. DOMAIN V \subseteq Rows
    BY DEF Writable
<1>7. Job(w)'
    BY <1>3, <1>6 DEF Job, Steps, Deletions
<1>8. QED
    BY <1>1, <1>4, <1>5, <1>7, RestKeeps DEF IInv, Typed, TypeOK, Catalogues

\* The same of one row.
LEMMA ChangeOne ==
    ASSUME IInv, NEW w \in Workers, NEW kind \in Kinds \ Deletions, NEW r, NEW new,
           NEW step \in {"audit", "commit"}, Change(w, kind, Only(r, new), step),
           Writable(w, r, new), new.there
    PROVE  IInv'
<1>1. DOMAIN Only(r, new) = {r} /\ Only(r, new)[r] = new
    BY DEF Only
<1>2. QED
    BY <1>1, ChangeKeeps

\* It will delete one row.
LEMMA RemoveKeeps ==
    ASSUME IInv, NEW w \in Workers, NEW kind \in Removals, NEW r \in Rows, db[r].used,
           Remove(w, kind, r)
    PROVE  IInv'
<1> DEFINE values == [rows |-> {r}, audit |-> "none"]
<1>1. Begin(w, kind, values, "audit") /\ UNCHANGED <<db, tx, cache, trail, lost, mix>>
    BY DEF Remove, Quiet, world
<1>2. DOMAIN values = {"rows", "audit"} /\ values.rows = {r} /\ values.audit = "none"
    OBVIOUS
<1> HIDE DEF values
<1>3. /\ at[w] = "idle" /\ tx[w] = Closed
      /\ DOMAIN at' = Workers /\ DOMAIN job' = Workers /\ at'[w] = "audit"
      /\ \A v \in Workers \ {w} : at'[v] = at[v] /\ job'[v] = job[v]
      /\ DOMAIN job'[w] = {"rows", "audit", "kind"} /\ job'[w].kind = kind
      /\ job'[w].rows = {r} /\ job'[w].audit = "none" /\ GoesOn(w)
    BY <1>1, <1>2, BeginEffect
<1>4. Others(w)
    BY <1>1, <1>3 DEF Others, IInv, Typed
<1>5. Sessions'
    BY <1>1, <1>3, <1>4, StandKeeps
<1>6. kind \in Kinds /\ kind # "question.delete"
    BY DEF Removals, Kinds
<1>7. Job(w)'
    BY <1>1, <1>3, <1>6 DEF Job, Steps
<1>8. QED
    BY <1>1, <1>4, <1>5, <1>7, RestKeeps DEF IInv, Typed, TypeOK, Catalogues

\* Assignments to columns leave a row of the same columns.
LEMMA ColumnsAre ==
    ASSUME NEW new, DOMAIN new = {"there", "used", "owner", "parent", "key", "mark"},
           new = [c \in DOMAIN new |-> new[c]]
    PROVE  new = [there |-> new.there, used |-> new.used, owner |-> new.owner,
                  parent |-> new.parent, key |-> new.key, mark |-> new.mark]
    OBVIOUS

\* At its beginning a request may insert a row under a new id,
LEMMA NewWritable ==
    ASSUME IInv, NEW w \in Workers, NEW table, table \subseteq Rows, NEW r \in Fresh(table),
           NEW owner \in Owners(r), NEW parent \in Parents(r), NEW key \in Keys[Table[r]] \cup {None},
           NEW mark \in MarksOf(r),
           \A p \in {owner, parent} : r \notin Questions /\ p # None => db[p].used,
           r \in Topics /\ parent # None => db[parent].owner = owner
    PROVE  /\ Writable(w, r, New(owner, parent, key, mark)) /\ New(owner, parent, key, mark).there
           /\ See(w, r) = db[r] /\ ~db[r].used
<1> DEFINE new == New(owner, parent, key, mark)
<1>1. r \in Rows /\ ~db[r].used /\ \A v \in Workers : r \notin Holds(v) \cup Dirty(v)
    BY DEF Fresh
<1>2. new.there = TRUE /\ new.used = TRUE /\ new.owner = owner /\ new.parent = parent
    BY DEF New
<1>3. new \in RowOf(r)
    BY DEF New, RowOf
<1>4. Refs(new) = {owner, parent} \ {None}
    BY <1>2 DEF Refs
<1>5. See(w, r) = db[r]
    BY <1>1 DEF See
<1> HIDE DEF new
<1>6. QED
    BY <1>1, <1>2, <1>3, <1>4, <1>5 DEF Writable, new

\* and update a row that is there.
LEMMA OldWritable ==
    ASSUME IInv, NEW w \in Workers, NEW table, table \subseteq Rows, NEW r \in There(table),
           See(w, r) = db[r],
           NEW new, DOMAIN new = DOMAIN db[r], new = [c \in DOMAIN new |-> new[c]],
           new.there = db[r].there, new.used = db[r].used,
           new.owner \in Owners(r), new.parent \in Parents(r),
           new.key \in Keys[Table[r]] \cup {None}, new.mark \in MarksOf(r),
           r \notin Questions =>
              new.owner = db[r].owner /\ (new.parent # None => db[new.parent].used),
           r \in Topics /\ new.parent # None => db[new.parent].owner = new.owner
    PROVE  Writable(w, r, new) /\ new.there
<1>1. r \in Rows /\ db[r].there /\ db[r] \in RowOf(r)
    BY DEF There, IInv, Typed, TypeOK
<1>2. db[r].there = TRUE /\ db[r].used = TRUE
    BY <1>1, RowColumns
<1>3. DOMAIN new = {"there", "used", "owner", "parent", "key", "mark"}
      /\ new.there = TRUE /\ new.used = TRUE
    BY <1>1, <1>2, RowColumns
<1>4. new \in RowOf(r)
    <2>1. new = [there |-> new.there, used |-> new.used, owner |-> new.owner,
                 parent |-> new.parent, key |-> new.key, mark |-> new.mark]
        BY <1>3, ColumnsAre
    <2>2. QED
        BY <1>1, <1>3, <2>1, RowMade
<1>5. r \notin Questions => \A p \in Refs(new) : db[p].used
    <2>1. \A p \in Refs(db[r]) : db[p].used
        BY <1>1, <1>2 DEF IInv, Catalogued, UsedRefs
    <2>2. QED
        BY <2>1 DEF Refs
<1>6. QED
    BY <1>1, <1>2, <1>3, <1>4, <1>5 DEF Writable, Fixed

\* The columns of a row that is there, and what it refers to.
LEMMA StandingRow ==
    ASSUME IInv, NEW table, table \subseteq Rows, NEW r \in There(table)
    PROVE  /\ r \in table /\ r \in Rows /\ db[r].there /\ db[r].used /\ db[r] \in RowOf(r)
           /\ db[r].owner \in Owners(r) /\ db[r].parent \in Parents(r)
           /\ db[r].key \in Keys[Table[r]] \cup {None} /\ db[r].mark \in MarksOf(r)
           /\ db[r].owner # None => db[db[r].owner].used
           /\ db[r].parent # None => db[db[r].parent].used
           /\ r \in Topics /\ db[r].parent # None => db[db[r].parent].owner = db[r].owner
           /\ DOMAIN db[r] = {"there", "used", "owner", "parent", "key", "mark"}
<1>1. r \in table /\ r \in Rows /\ db[r].there /\ db[r] \in RowOf(r)
    BY DEF There, IInv, Typed, TypeOK
<1>2. \A p \in Refs(db[r]) : db[p].used
    BY <1>1, RowColumns DEF IInv, Catalogued, UsedRefs
<1>3. r \in Topics /\ db[r].parent # None => db[db[r].parent].owner = db[r].owner
    BY <1>1 DEF IInv, Catalogued, IsCatalogue, LevelsMatch, Standing
<1>4. QED
    BY <1>1, <1>2, <1>3, RowColumns DEF Refs

\* The columns of each table.
LEMMA TableColumns ==
    /\ \A r \in Subjects \cup Terms \cup Students \cup Admins :
          /\ Owners(r) = {None} /\ Parents(r) = {None} /\ r \notin Questions /\ r \notin Topics
    /\ \A r \in Subjects : Table[r] = "Subject" /\ MarksOf(r) = Codes
    /\ \A r \in Levels \cup Materials :
          /\ Owners(r) = Subjects /\ Parents(r) = {None} /\ MarksOf(r) = {None}
          /\ r \notin Questions /\ r \notin Topics
    /\ \A r \in Levels : Table[r] = "CurriculumLevel"
    /\ \A r \in Materials : Table[r] = "SubjectResource"
    /\ \A r \in Topics : /\ Owners(r) = Subjects /\ Parents(r) = Levels \cup {None}
                         /\ MarksOf(r) = {None} /\ Table[r] = "Topic" /\ r \notin Questions
    /\ \A r \in Lessons : /\ Owners(r) = {None} /\ Parents(r) = Topics /\ MarksOf(r) = {None}
                          /\ Table[r] = "Lesson" /\ r \notin Questions /\ r \notin Topics
    /\ \A r \in Questions : /\ Owners(r) = Subjects /\ Parents(r) = Topics \cup {None}
                            /\ MarksOf(r) = {None} /\ Table[r] = "Question" /\ r \notin Topics
    /\ \A r \in Terms : Table[r] = "AcademicTerm" /\ MarksOf(r) = Ranges
    /\ \A r \in Students : Table[r] = "User" /\ MarksOf(r) = {None}
    /\ \A r \in Admins : Table[r] = "Admin" /\ MarksOf(r) = Standings
    /\ \A r \in Works : /\ Owners(r) = Students /\ Parents(r) = Lessons \cup Topics \cup Questions
                        /\ MarksOf(r) = {None} /\ r \notin Questions /\ r \notin Topics
    BY DEF Subjects, Levels, Topics, Lessons, Questions, Materials, Terms, Students, Admins,
           Works, Owners, Parents, MarksOf

LEMMA ChangeSees ==
    ASSUME IInv, NEW w \in Workers, NEW kind, NEW V, NEW step, Change(w, kind, V, step)
    PROVE  \A r : See(w, r) = db[r]
<1>1. at[w] = "idle"
    BY DEF Change, Begin, MayBegin
<1>2. tx[w] = Closed
    BY <1>1 DEF IInv, Job
<1>3. QED
    BY <1>2 DEF See, Holds, Closed

LEMMA FreshRow ==
    ASSUME NEW table, NEW r \in Fresh(table)
    PROVE  r \in table
    BY DEF Fresh

-----------------------------------------------------------------------------
(* The requests *)

LEMMA CreateSubjectKeeps ==
    ASSUME IInv, NEW w \in Workers, CreateSubject(w)
    PROVE  IInv'
<1>1. PICK s \in Fresh(Subjects), name \in Keys["Subject"], code \in Codes :
           Change(w, "subject.create", Only(s, New(None, None, name, code)), "audit")
    BY DEF CreateSubject
<1>2. s \in Subjects /\ Subjects \subseteq Rows
    BY FreshRow, TablesApart
<1>3. Writable(w, s, New(None, None, name, code)) /\ New(None, None, name, code).there
    BY <1>2, NewWritable, TableColumns
<1>4. QED
    BY <1>1, <1>3, ChangeOne DEF Kinds, Deletions, Removals

LEMMA UpdateSubjectKeeps ==
    ASSUME IInv, NEW w \in Workers, UpdateSubject(w)
    PROVE  IInv'
<1>1. PICK s \in There(Subjects), name \in Keys["Subject"], code \in Codes :
           Change(w, "subject.update", Only(s, [db[s] EXCEPT !.key = name, !.mark = code]), "audit")
    BY DEF UpdateSubject
<1> DEFINE new == [db[s] EXCEPT !.key = name, !.mark = code]
<1>2. /\ Subjects \subseteq Rows /\ s \in Subjects /\ See(w, s) = db[s]
      /\ db[s].owner \in Owners(s) /\ db[s].parent \in Parents(s)
      /\ DOMAIN db[s] = {"there", "used", "owner", "parent", "key", "mark"}
    BY <1>1, TablesApart, StandingRow, ChangeSees
<1>3. /\ DOMAIN new = DOMAIN db[s] /\ new = [c \in DOMAIN new |-> new[c]]
      /\ new.there = db[s].there /\ new.used = db[s].used /\ new.owner = db[s].owner
      /\ new.parent = db[s].parent /\ new.key = name /\ new.mark = code
    BY <1>2
<1> HIDE DEF new
<1>4. /\ new.owner = None /\ db[s].owner = None /\ new.parent = None /\ s \notin Topics
      /\ new.owner \in Owners(s) /\ new.parent \in Parents(s)
      /\ new.key \in Keys[Table[s]] /\ new.mark \in MarksOf(s)
    BY <1>2, <1>3, TableColumns
<1>5. Writable(w, s, new) /\ new.there
    BY <1>2, <1>3, <1>4, OldWritable
<1>6. QED
    BY <1>1, <1>5, ChangeOne DEF new, Kinds, Deletions, Removals

LEMMA CreateCurriculumKeeps ==
    ASSUME IInv, NEW w \in Workers, CreateCurriculum(w)
    PROVE  IInv'
<1>1. PICK l \in Fresh(Levels), s \in There(Subjects), slot \in Keys["CurriculumLevel"] :
           Change(w, "curriculum.create", Only(l, New(s, None, slot, None)), "audit")
    BY DEF CreateCurriculum
<1>2. l \in Levels /\ Levels \subseteq Rows /\ Subjects \subseteq Rows
    BY FreshRow, TablesApart
<1>3. s \in Subjects /\ db[s].used
    BY <1>2, StandingRow
<1>4. Writable(w, l, New(s, None, slot, None)) /\ New(s, None, slot, None).there
    BY <1>2, <1>3, NewWritable, TableColumns
<1>5. QED
    BY <1>1, <1>4, ChangeOne DEF Kinds, Deletions, Removals

LEMMA UpdateCurriculumKeeps ==
    ASSUME IInv, NEW w \in Workers, UpdateCurriculum(w)
    PROVE  IInv'
<1>1. PICK l \in There(Levels), slot \in Keys["CurriculumLevel"] :
           Change(w, "curriculum.update", Only(l, [db[l] EXCEPT !.key = slot]), "audit")
    BY DEF UpdateCurriculum
<1> DEFINE new == [db[l] EXCEPT !.key = slot]
<1>2. /\ Levels \subseteq Rows /\ l \in Levels /\ See(w, l) = db[l]
      /\ db[l].owner \in Owners(l) /\ db[l].parent \in Parents(l) /\ db[l].mark \in MarksOf(l)
      /\ db[l].parent # None => db[db[l].parent].used
      /\ DOMAIN db[l] = {"there", "used", "owner", "parent", "key", "mark"}
    BY <1>1, TablesApart, StandingRow, ChangeSees
<1>3. /\ DOMAIN new = DOMAIN db[l] /\ new = [c \in DOMAIN new |-> new[c]]
      /\ new.there = db[l].there /\ new.used = db[l].used /\ new.owner = db[l].owner
      /\ new.parent = db[l].parent /\ new.key = slot /\ new.mark = db[l].mark
    BY <1>2
<1> HIDE DEF new
<1>4. Writable(w, l, new) /\ new.there
    BY <1>2, <1>3, OldWritable, TableColumns
<1>5. QED
    BY <1>1, <1>4, ChangeOne DEF new, Kinds, Deletions, Removals

LEMMA CreateTopicKeeps ==
    ASSUME IInv, NEW w \in Workers, CreateTopic(w)
    PROVE  IInv'
<1>1. PICK t \in Fresh(Topics), l \in There(Levels), slug \in Keys["Topic"] :
           Change(w, "topic.create", Only(t, New(db[l].owner, l, slug, None)), "audit")
    BY DEF CreateTopic
<1>2. t \in Topics /\ Levels \subseteq Rows /\ Topics \subseteq Rows /\ Subjects \subseteq Rows
    BY FreshRow, TablesApart
<1>3. l \in Levels /\ db[l].used /\ db[l].owner \in Owners(l)
    BY <1>2, StandingRow
<1>4. db[l].owner # None => db[db[l].owner].used
    BY <1>2, StandingRow
<1> DEFINE new == New(db[l].owner, l, slug, None)
<1>5. Writable(w, t, new) /\ new.there
    <2>1. db[l].owner \in Owners(t) /\ l \in Parents(t)
        BY <1>2, <1>3, TableColumns
    <2>2. QED
        BY <1>2, <1>3, <1>4, <2>1, NewWritable, TableColumns
<1>6. QED
    BY <1>1, <1>5, ChangeOne DEF Kinds, Deletions, Removals

LEMMA UpdateTopicKeeps ==
    ASSUME IInv, NEW w \in Workers, UpdateTopic(w)
    PROVE  IInv'
<1>1. PICK t \in There(Topics), slug \in Keys["Topic"], l \in There(Levels) \cup {None} :
           /\ l # None => db[l].owner = db[t].owner
           /\ Change(w, "topic.update",
                     Only(t, [db[t] EXCEPT !.key = slug, !.parent = IF l = None THEN @ ELSE l]),
                     "audit")
    BY DEF UpdateTopic
<1> DEFINE new == [db[t] EXCEPT !.key = slug, !.parent = IF l = None THEN @ ELSE l]
<1>2. /\ Topics \subseteq Rows /\ Levels \subseteq Rows /\ t \in Topics /\ See(w, t) = db[t]
      /\ l # None => l \in Levels /\ db[l].used
      /\ DOMAIN db[t] = {"there", "used", "owner", "parent", "key", "mark"}
    BY <1>1, TablesApart, StandingRow, ChangeSees
<1>3. /\ db[t].owner \in Owners(t) /\ db[t].parent \in Parents(t) /\ db[t].mark \in MarksOf(t)
      /\ db[t].parent # None => db[db[t].parent].used /\ db[db[t].parent].owner = db[t].owner
    BY <1>1, <1>2, StandingRow
<1>4. /\ DOMAIN new = DOMAIN db[t] /\ new = [c \in DOMAIN new |-> new[c]]
      /\ new.there = db[t].there /\ new.used = db[t].used /\ new.owner = db[t].owner
      /\ new.parent = (IF l = None THEN db[t].parent ELSE l)
      /\ new.key = slug /\ new.mark = db[t].mark
    BY <1>2
<1> HIDE DEF new
<1>5. /\ new.parent \in Parents(t)
      /\ new.parent # None => db[new.parent].used /\ db[new.parent].owner = new.owner
    BY <1>1, <1>2, <1>3, <1>4, TableColumns
<1>6. Writable(w, t, new) /\ new.there
    BY <1>1, <1>2, <1>3, <1>4, <1>5, OldWritable, TableColumns
<1>7. QED
    BY <1>1, <1>6, ChangeOne DEF new, Kinds, Deletions, Removals

LEMMA ImportLessonKeeps ==
    ASSUME IInv, NEW w \in Workers, ImportLesson(w)
    PROVE  IInv'
<1>1. PICK t \in There(Topics), note \in Keys["Lesson"] :
           \/ \E l \in LessonsOf(t) :
                 Change(w, "lesson.import", Only(l, [db[l] EXCEPT !.key = note]), "audit")
           \/ \E l \in Fresh(Lessons) :
                 Change(w, "lesson.import", Only(l, New(None, t, note, None)), "audit")
    BY DEF ImportLesson
<1>2. Topics \subseteq Rows /\ Lessons \subseteq Rows /\ t \in Topics /\ db[t].used
    BY <1>1, TablesApart, StandingRow
<1>3. CASE \E l \in LessonsOf(t) :
              Change(w, "lesson.import", Only(l, [db[l] EXCEPT !.key = note]), "audit")
    <2>1. PICK l \in LessonsOf(t) :
              Change(w, "lesson.import", Only(l, [db[l] EXCEPT !.key = note]), "audit")
        BY <1>3
    <2> DEFINE new == [db[l] EXCEPT !.key = note]
    <2>2. l \in There(Lessons)
        BY DEF LessonsOf
    <2>3. /\ l \in Lessons /\ See(w, l) = db[l]
          /\ db[l].owner \in Owners(l) /\ db[l].parent \in Parents(l) /\ db[l].mark \in MarksOf(l)
          /\ db[l].parent # None => db[db[l].parent].used
          /\ DOMAIN db[l] = {"there", "used", "owner", "parent", "key", "mark"}
        BY <1>2, <2>1, <2>2, StandingRow, ChangeSees
    <2>4. /\ DOMAIN new = DOMAIN db[l] /\ new = [c \in DOMAIN new |-> new[c]]
          /\ new.there = db[l].there /\ new.used = db[l].used /\ new.owner = db[l].owner
          /\ new.parent = db[l].parent /\ new.key = note /\ new.mark = db[l].mark
        BY <2>3
    <2> HIDE DEF new
    <2>5. Writable(w, l, new) /\ new.there
        BY <1>1, <1>2, <2>2, <2>3, <2>4, OldWritable, TableColumns
    <2>6. QED
        BY <2>1, <2>5, ChangeOne DEF new, Kinds, Deletions, Removals
<1>4. CASE \E l \in Fresh(Lessons) :
              Change(w, "lesson.import", Only(l, New(None, t, note, None)), "audit")
    <2>1. PICK l \in Fresh(Lessons) :
              Change(w, "lesson.import", Only(l, New(None, t, note, None)), "audit")
        BY <1>4
    <2>2. l \in Lessons
        BY FreshRow
    <2>3. Writable(w, l, New(None, t, note, None)) /\ New(None, t, note, None).there
        BY <1>1, <1>2, <2>2, NewWritable, TableColumns
    <2>4. QED
        BY <2>1, <2>3, ChangeOne DEF Kinds, Deletions, Removals
<1>5. QED
    BY <1>1, <1>3, <1>4

LEMMA CreateMaterialKeeps ==
    ASSUME IInv, NEW w \in Workers, CreateMaterial(w)
    PROVE  IInv'
<1>1. PICK m \in Fresh(Materials), s \in There(Subjects), title \in Keys["SubjectResource"] :
           Change(w, "material.create", Only(m, New(s, None, title, None)), "audit")
    BY DEF CreateMaterial
<1>2. m \in Materials /\ Materials \subseteq Rows /\ Subjects \subseteq Rows
    BY FreshRow, TablesApart
<1>3. s \in Subjects /\ db[s].used
    BY <1>2, StandingRow
<1>4. Writable(w, m, New(s, None, title, None)) /\ New(s, None, title, None).there
    BY <1>2, <1>3, NewWritable, TableColumns
<1>5. QED
    BY <1>1, <1>4, ChangeOne DEF Kinds, Deletions, Removals

LEMMA UpdateMaterialKeeps ==
    ASSUME IInv, NEW w \in Workers, UpdateMaterial(w)
    PROVE  IInv'
<1>1. PICK m \in There(Materials), title \in Keys["SubjectResource"] :
           Change(w, "material.update", Only(m, [db[m] EXCEPT !.key = title]), "audit")
    BY DEF UpdateMaterial
<1> DEFINE new == [db[m] EXCEPT !.key = title]
<1>2. /\ Materials \subseteq Rows /\ m \in Materials /\ See(w, m) = db[m]
      /\ db[m].owner \in Owners(m) /\ db[m].parent \in Parents(m) /\ db[m].mark \in MarksOf(m)
      /\ db[m].parent # None => db[db[m].parent].used
      /\ DOMAIN db[m] = {"there", "used", "owner", "parent", "key", "mark"}
    BY <1>1, TablesApart, StandingRow, ChangeSees
<1>3. /\ DOMAIN new = DOMAIN db[m] /\ new = [c \in DOMAIN new |-> new[c]]
      /\ new.there = db[m].there /\ new.used = db[m].used /\ new.owner = db[m].owner
      /\ new.parent = db[m].parent /\ new.key = title /\ new.mark = db[m].mark
    BY <1>2
<1> HIDE DEF new
<1>4. Writable(w, m, new) /\ new.there
    BY <1>2, <1>3, OldWritable, TableColumns
<1>5. QED
    BY <1>1, <1>4, ChangeOne DEF new, Kinds, Deletions, Removals

LEMMA CreateQuestionKeeps ==
    ASSUME IInv, NEW w \in Workers, CreateQuestion(w)
    PROVE  IInv'
<1>1. PICK q \in Fresh(Questions), s \in There(Subjects), text \in Keys["Question"] :
           \E t \in TopicsOf(s) :
              Change(w, "question.create", Only(q, New(s, t, text, None)), "audit")
    BY DEF CreateQuestion
<1>2. PICK t \in TopicsOf(s) :
           Change(w, "question.create", Only(q, New(s, t, text, None)), "audit")
    BY <1>1
<1>3. q \in Questions /\ Questions \subseteq Rows /\ s \in Subjects /\ t \in Topics \cup {None}
    BY FreshRow, TablesApart DEF There, TopicsOf
<1>4. Writable(w, q, New(s, t, text, None)) /\ New(s, t, text, None).there
    BY <1>3, NewWritable, TableColumns
<1>5. QED
    BY <1>2, <1>4, ChangeOne DEF Kinds, Deletions, Removals

LEMMA CreateTermKeeps ==
    ASSUME IInv, NEW w \in Workers, CreateTerm(w)
    PROVE  IInv'
<1>1. PICK r \in Fresh(Terms), key \in Keys["AcademicTerm"], range \in Ranges :
           Change(w, "academic-term.create", Only(r, New(None, None, key, range)), "audit")
    BY DEF CreateTerm
<1>2. r \in Terms /\ Terms \subseteq Rows
    BY FreshRow, TablesApart
<1>3. Writable(w, r, New(None, None, key, range)) /\ New(None, None, key, range).there
    BY <1>2, NewWritable, TableColumns
<1>4. QED
    BY <1>1, <1>3, ChangeOne DEF Kinds, Deletions, Removals

LEMMA UpdateTermKeeps ==
    ASSUME IInv, NEW w \in Workers, UpdateTerm(w)
    PROVE  IInv'
<1>1. PICK r \in There(Terms), key \in Keys["AcademicTerm"], range \in Ranges :
           Change(w, "academic-term.update",
                  Only(r, [db[r] EXCEPT !.key = key, !.mark = range]), "audit")
    BY DEF UpdateTerm
<1> DEFINE new == [db[r] EXCEPT !.key = key, !.mark = range]
<1>2. /\ Terms \subseteq Rows /\ r \in Terms /\ See(w, r) = db[r]
      /\ db[r].owner \in Owners(r) /\ db[r].parent \in Parents(r)
      /\ DOMAIN db[r] = {"there", "used", "owner", "parent", "key", "mark"}
    BY <1>1, TablesApart, StandingRow, ChangeSees
<1>3. /\ DOMAIN new = DOMAIN db[r] /\ new = [c \in DOMAIN new |-> new[c]]
      /\ new.there = db[r].there /\ new.used = db[r].used /\ new.owner = db[r].owner
      /\ new.parent = db[r].parent /\ new.key = key /\ new.mark = range
    BY <1>2
<1> HIDE DEF new
<1>4. /\ new.owner = None /\ db[r].owner = None /\ new.parent = None /\ r \notin Topics
      /\ new.owner \in Owners(r) /\ new.parent \in Parents(r)
      /\ new.key \in Keys[Table[r]] /\ new.mark \in MarksOf(r)
    BY <1>2, <1>3, TableColumns
<1>5. Writable(w, r, new) /\ new.there
    BY <1>2, <1>3, <1>4, OldWritable
<1>6. QED
    BY <1>1, <1>5, ChangeOne DEF new, Kinds, Deletions, Removals

LEMMA UpdateStudentKeeps ==
    ASSUME IInv, NEW w \in Workers, UpdateStudent(w)
    PROVE  IInv'
<1>1. PICK u \in There(Students), contact \in Keys["User"] :
           Change(w, "student.update", Only(u, [db[u] EXCEPT !.key = contact]), "audit")
    BY DEF UpdateStudent
<1> DEFINE new == [db[u] EXCEPT !.key = contact]
<1>2. /\ Students \subseteq Rows /\ u \in Students /\ See(w, u) = db[u]
      /\ db[u].owner \in Owners(u) /\ db[u].parent \in Parents(u) /\ db[u].mark \in MarksOf(u)
      /\ DOMAIN db[u] = {"there", "used", "owner", "parent", "key", "mark"}
    BY <1>1, TablesApart, StandingRow, ChangeSees
<1>3. /\ DOMAIN new = DOMAIN db[u] /\ new = [c \in DOMAIN new |-> new[c]]
      /\ new.there = db[u].there /\ new.used = db[u].used /\ new.owner = db[u].owner
      /\ new.parent = db[u].parent /\ new.key = contact /\ new.mark = db[u].mark
    BY <1>2
<1> HIDE DEF new
<1>4. new.owner = None /\ new.parent = None /\ u \notin Topics /\ new.key \in Keys[Table[u]]
    BY <1>2, <1>3, TableColumns
<1>5. Writable(w, u, new) /\ new.there
    BY <1>2, <1>3, <1>4, OldWritable
<1>6. QED
    BY <1>1, <1>5, ChangeOne DEF new, Kinds, Deletions, Removals

LEMMA CreateAdminKeeps ==
    ASSUME IInv, NEW w \in Workers, CreateAdmin(w)
    PROVE  IInv'
<1>1. PICK a \in Fresh(Admins), ident \in Keys["Admin"] :
           Change(w, "admin.create", Only(a, New(None, None, ident, "active")), "audit")
    BY DEF CreateAdmin
<1>2. a \in Admins /\ Admins \subseteq Rows /\ "active" \in Standings
    BY FreshRow, TablesApart DEF Standings
<1>3. Writable(w, a, New(None, None, ident, "active")) /\ New(None, None, ident, "active").there
    BY <1>2, NewWritable, TableColumns
<1>4. QED
    BY <1>1, <1>3, ChangeOne DEF Kinds, Deletions, Removals

LEMMA SetAdminStatusKeeps ==
    ASSUME IInv, NEW w \in Workers, SetAdminStatus(w)
    PROVE  IInv'
<1>1. PICK a \in There(Admins), standing \in {"active", "inactive"} :
           Change(w, "admin.status",
                  Only(a, [db[a] EXCEPT !.mark = IF @ = "owner" THEN @ ELSE standing]), "audit")
    BY DEF SetAdminStatus
<1> DEFINE new == [db[a] EXCEPT !.mark = IF @ = "owner" THEN @ ELSE standing]
<1>2. /\ Admins \subseteq Rows /\ a \in Admins /\ See(w, a) = db[a]
      /\ db[a].owner \in Owners(a) /\ db[a].parent \in Parents(a)
      /\ db[a].key \in Keys[Table[a]] \cup {None} /\ db[a].mark \in MarksOf(a)
      /\ DOMAIN db[a] = {"there", "used", "owner", "parent", "key", "mark"}
    BY <1>1, TablesApart, StandingRow, ChangeSees
<1>3. /\ DOMAIN new = DOMAIN db[a] /\ new = [c \in DOMAIN new |-> new[c]]
      /\ new.there = db[a].there /\ new.used = db[a].used /\ new.owner = db[a].owner
      /\ new.parent = db[a].parent /\ new.key = db[a].key
      /\ new.mark = IF db[a].mark = "owner" THEN db[a].mark ELSE standing
    BY <1>2
<1> HIDE DEF new
<1>4. new.owner = None /\ new.parent = None /\ a \notin Topics /\ new.mark \in MarksOf(a)
    BY <1>2, <1>3, TableColumns DEF Standings
<1>5. Writable(w, a, new) /\ new.there
    BY <1>2, <1>3, <1>4, OldWritable
<1>6. QED
    BY <1>1, <1>5, ChangeOne DEF new, Kinds, Deletions, Removals

LEMMA DoWorkKeeps ==
    ASSUME IInv, NEW w \in Workers, DoWork(w)
    PROVE  IInv'
<1>1. PICK r \in Fresh(Works), u \in There(Students),
           on \in There(Lessons) \cup There(Topics) \cup There(Questions) :
           Change(w, "work", Only(r, New(u, on, None, None)), "commit")
    BY DEF DoWork
<1>2. r \in Works /\ Works \subseteq Rows /\ Students \subseteq Rows /\ Lessons \subseteq Rows
      /\ Topics \subseteq Rows /\ Questions \subseteq Rows
    BY FreshRow, TablesApart
<1>3. u \in Students /\ db[u].used /\ on \in Lessons \cup Topics \cup Questions /\ db[on].used
    BY <1>2, StandingRow
<1>4. Writable(w, r, New(u, on, None, None)) /\ New(u, on, None, None).there
    BY <1>2, <1>3, NewWritable, TableColumns
<1>5. QED
    BY <1>1, <1>4, ChangeOne DEF Kinds, Deletions, Removals

LEMMA DeletesKeep ==
    ASSUME IInv, NEW w \in Workers,
           \/ DeleteSubject(w) \/ DeleteCurriculum(w) \/ DeleteTopic(w) \/ DeleteMaterial(w)
           \/ DeleteTerm(w) \/ DeleteStudent(w)
    PROVE  IInv'
<1>1. PICK kind \in Removals, r \in There(Rows) : Remove(w, kind, r)
    BY TablesApart DEF DeleteSubject, DeleteCurriculum, DeleteTopic, DeleteMaterial, DeleteTerm,
       DeleteStudent, Removals, There
<1>2. r \in Rows /\ db[r].used
    BY StandingRow
<1>3. QED
    BY <1>1, <1>2, RemoveKeeps

\* The fields are assigned before they are validated.
LEMMA UpdateQuestionKeeps ==
    ASSUME IInv, NEW w \in Workers, UpdateQuestion(w)
    PROVE  IInv'
<1>1. PICK q \in There(Questions), s \in Subjects, t \in Topics \cup {None},
           text \in Keys["Question"] :
           LET row == [db[q] EXCEPT !.owner = s, !.parent = t, !.key = text]
           IN /\ Begin(w, "question.update", [rows |-> {q}, audit |-> "none", row |-> row], "validate")
              /\ Put(w, Only(q, row))
              /\ UNCHANGED db /\ Quiet
    BY DEF UpdateQuestion
<1> DEFINE row == [db[q] EXCEPT !.owner = s, !.parent = t, !.key = text]
           values == [rows |-> {q}, audit |-> "none", row |-> row]
<1>2. Begin(w, "question.update", values, "validate") /\ Put(w, Only(q, row))
      /\ UNCHANGED <<db, cache, trail, lost, mix>>
    BY <1>1 DEF Quiet, world
<1>3. DOMAIN values = {"rows", "audit", "row"} /\ values.rows = {q} /\ values.audit = "none"
    OBVIOUS
<1>4. /\ Questions \subseteq Rows /\ q \in Questions /\ q \in Rows /\ db[q].mark \in MarksOf(q)
      /\ DOMAIN db[q] = {"there", "used", "owner", "parent", "key", "mark"}
    BY <1>1, TablesApart, StandingRow
<1>5. /\ DOMAIN row = DOMAIN db[q] /\ row = [c \in DOMAIN row |-> row[c]]
      /\ row.there = db[q].there /\ row.used = db[q].used /\ row.owner = s
      /\ row.parent = t /\ row.key = text /\ row.mark = db[q].mark
    BY <1>4
<1> HIDE DEF values, row
<1>6. /\ at[w] = "idle" /\ Dirty(w) = {} /\ \A r : See(w, r) = db[r]
      /\ DOMAIN at' = Workers /\ DOMAIN job' = Workers /\ at'[w] = "validate"
      /\ \A v \in Workers \ {w} : at'[v] = at[v] /\ job'[v] = job[v]
      /\ DOMAIN job'[w] = {"rows", "audit", "row", "kind"} /\ job'[w].kind = "question.update"
      /\ job'[w].rows = {q} /\ job'[w].audit = "none" /\ GoesOn(w)
    BY <1>2, <1>3, BeginEffect
<1>7. Writable(w, q, row) /\ row.there
    <2>1. /\ row.owner \in Owners(q) /\ row.parent \in Parents(q) /\ row.mark \in MarksOf(q)
          /\ row.key \in Keys[Table[q]] /\ q \notin Topics
        BY <1>4, <1>5, TableColumns
    <2>2. QED
        BY <1>4, <1>5, <1>6, <2>1, OldWritable
<1>8. DOMAIN Only(q, row) = {q} /\ Only(q, row)[q] = row
    BY DEF Only
<1>9. Others(w)
    BY <1>2, <1>6, PutEffect DEF Others
<1>10. Sessions'
    BY <1>2, <1>6, <1>7, <1>8, <1>9, PutKeeps
<1>11. Job(w)'
    BY <1>4, <1>6 DEF Job, Steps, Kinds, Deletions, Removals
<1>12. QED
    BY <1>2, <1>9, <1>10, <1>11, RestKeeps DEF IInv, Typed, TypeOK, Catalogues

LEMMA DeleteQuestionsKeeps ==
    ASSUME IInv, NEW w \in Workers, DeleteQuestions(w)
    PROVE  IInv'
<1>1. PICK ids \in SUBSET Questions :
           /\ Begin(w, "question.delete", [rows |-> {}, audit |-> "none", left |-> ids], "each")
           /\ UNCHANGED <<db, tx>> /\ Quiet
    BY DEF DeleteQuestions
<1> DEFINE values == [rows |-> {}, audit |-> "none", left |-> ids]
<1>2. Begin(w, "question.delete", values, "each") /\ UNCHANGED <<db, tx, cache, trail, lost, mix>>
    BY <1>1 DEF Quiet, world
<1>3. /\ DOMAIN values = {"rows", "audit", "left"}
      /\ values.rows = {} /\ values.audit = "none" /\ values.left = ids
    OBVIOUS
<1> HIDE DEF values
<1>4. /\ at[w] = "idle" /\ tx[w] = Closed /\ Holds(w) = {} /\ Dirty(w) = {}
      /\ DOMAIN at' = Workers /\ DOMAIN job' = Workers /\ at'[w] = "each"
      /\ \A v \in Workers \ {w} : at'[v] = at[v] /\ job'[v] = job[v]
      /\ DOMAIN job'[w] = {"rows", "audit", "left", "kind"} /\ job'[w].kind = "question.delete"
      /\ job'[w].rows = {} /\ job'[w].audit = "none" /\ job'[w].left = ids /\ GoesOn(w)
    BY <1>2, <1>3, BeginEffect
<1>5. Others(w) /\ Holds(w)' = {} /\ Dirty(w)' = {}
    BY <1>2, <1>4 DEF Others, IInv, Typed, Holds, Dirty
<1>6. Sessions'
    BY <1>2, <1>4, <1>5, StandKeeps
<1>7. Job(w)'
    BY <1>4, <1>5 DEF Job, Steps, Kinds, Deletions, Removals
<1>8. QED
    BY <1>2, <1>5, <1>6, <1>7, RestKeeps DEF IInv, Typed, TypeOK, Catalogues

LEMMA ImportQuestionsKeeps ==
    ASSUME IInv, NEW w \in Workers, ImportQuestions(w)
    PROVE  IInv'
<1>1. PICK n \in 1 .. MaxImport, skip \in BOOLEAN :
           /\ Begin(w, "question.import",
                    [rows |-> {}, audit |-> "none", left |-> n, skip |-> skip], "import")
           /\ UNCHANGED <<db, tx>> /\ Quiet
    BY DEF ImportQuestions
<1> DEFINE values == [rows |-> {}, audit |-> "none", left |-> n, skip |-> skip]
<1>2. Begin(w, "question.import", values, "import") /\ UNCHANGED <<db, tx, cache, trail, lost, mix>>
    BY <1>1 DEF Quiet, world
<1>3. /\ DOMAIN values = {"rows", "audit", "left", "skip"}
      /\ values.rows = {} /\ values.audit = "none"
    OBVIOUS
<1> HIDE DEF values
<1>4. /\ at[w] = "idle" /\ tx[w] = Closed
      /\ DOMAIN at' = Workers /\ DOMAIN job' = Workers /\ at'[w] = "import"
      /\ \A v \in Workers \ {w} : at'[v] = at[v] /\ job'[v] = job[v]
      /\ DOMAIN job'[w] = {"rows", "audit", "left", "skip", "kind"}
      /\ job'[w].kind = "question.import"
      /\ job'[w].rows = {} /\ job'[w].audit = "none" /\ GoesOn(w)
    BY <1>2, <1>3, BeginEffect
<1>5. Others(w)
    BY <1>2, <1>4 DEF Others, IInv, Typed
<1>6. Sessions'
    BY <1>2, <1>4, <1>5, StandKeeps
<1>7. Job(w)'
    BY <1>4 DEF Job, Steps, Kinds, Deletions, Removals
<1>8. QED
    BY <1>2, <1>5, <1>6, <1>7, RestKeeps DEF IInv, Typed, TypeOK, Catalogues

LEMMA CatalogueTyped ==
    ASSUME IInv
    PROVE  Catalogue(db) \in Catalogues
<1>1. \A s \in Subjects : /\ s \in Rows /\ db[s] \in RowOf(s) /\ Table[s] = "Subject"
                          /\ MarksOf(s) = Codes
    BY TablesApart, TableColumns DEF IInv, Typed, TypeOK
<1>2. \A q \in Questions : q \in Rows /\ db[q] \in RowOf(q) /\ Owners(q) = Subjects
    BY TablesApart, TableColumns DEF IInv, Typed, TypeOK
<1>3. ASSUME NEW s \in Subjects, db[s].there PROVE db[s].key \in Keys["Subject"] \cup {None} /\ db[s].mark \in Codes
    BY <1>1, <1>3, RowColumns
<1>4. ASSUME NEW q \in Questions, db[q].there PROVE db[q].owner \in Subjects
    BY <1>2, <1>4, RowColumns
<1>5. QED
    BY <1>3, <1>4 DEF Catalogue, Catalogues

LEMMA ListSubjectsKeeps ==
    ASSUME IInv, NEW w \in Workers, ListSubjects(w)
    PROVE  IInv'
<1> DEFINE values == [rows |-> {}, audit |-> "none", payload |-> Catalogue(db)]
<1>1. Begin(w, "list", values, "store") /\ UNCHANGED <<db, tx, cache, trail, lost, mix>>
    BY DEF ListSubjects, Quiet, world
<1>2. /\ DOMAIN values = {"rows", "audit", "payload"}
      /\ values.rows = {} /\ values.audit = "none" /\ values.payload = Catalogue(db)
    OBVIOUS
<1> HIDE DEF values
<1>3. /\ at[w] = "idle" /\ tx[w] = Closed
      /\ DOMAIN at' = Workers /\ DOMAIN job' = Workers /\ at'[w] = "store"
      /\ \A v \in Workers \ {w} : at'[v] = at[v] /\ job'[v] = job[v]
      /\ DOMAIN job'[w] = {"rows", "audit", "payload", "kind"} /\ job'[w].kind = "list"
      /\ job'[w].rows = {} /\ job'[w].audit = "none" /\ job'[w].payload = Catalogue(db)
      /\ GoesOn(w)
    BY <1>1, <1>2, BeginEffect
<1>4. Others(w)
    BY <1>1, <1>3 DEF Others, IInv, Typed
<1>5. Sessions'
    BY <1>1, <1>3, <1>4, StandKeeps
<1>6. Job(w)'
    BY <1>3, CatalogueTyped DEF Job, Steps, Kinds, Deletions, Removals, Catalogues
<1>7. QED
    BY <1>1, <1>4, <1>5, <1>6, RestKeeps DEF IInv, Typed, TypeOK, Catalogues

LEMMA ValidateKeeps ==
    ASSUME IInv, NEW w \in Workers, Validate(w)
    PROVE  IInv'
<1>1. /\ at[w] = "validate" /\ at' = [at EXCEPT ![w] = "audit"]
      /\ UNCHANGED <<db, tx, job, cache, trail, lost, mix>>
    BY DEF Validate, Goto, Quiet, world
<1>2. Others(w) /\ GoesOn(w) /\ at'[w] = "audit"
    BY <1>1 DEF Others, GoesOn, IInv, Typed
<1>3. Sessions'
    BY <1>1, <1>2, StandKeeps
<1>4. Job(w)'
    BY <1>1, <1>2 DEF IInv, Job, Steps, Deletions, Removals
<1>5. QED
    BY <1>1, <1>2, <1>3, <1>4, RestKeeps DEF IInv, Typed, TypeOK, Catalogues

LEMMA StoreSubjectsKeeps ==
    ASSUME IInv, NEW w \in Workers, StoreSubjects(w)
    PROVE  IInv'
<1>1. /\ at[w] = "store" /\ at' = [at EXCEPT ![w] = "commit"]
      /\ cache' = [cache EXCEPT ![Home[w]] = job[w].payload]
      /\ UNCHANGED <<db, tx, job, trail, lost>>
    BY DEF StoreSubjects, Goto
<1>2. Others(w) /\ GoesOn(w) /\ at'[w] = "commit"
    BY <1>1 DEF Others, GoesOn, IInv, Typed
<1>3. Sessions'
    BY <1>1, <1>2, StandKeeps
<1>4. Job(w) /\ job[w].kind = "list" /\ job[w].payload \in Catalogues
    BY <1>1 DEF IInv, Job
<1>5. Job(w)'
    BY <1>1, <1>2, <1>4 DEF Job, Steps, Deletions, Removals
<1>6. cache' \in [Procs -> {None} \cup Catalogues]
    BY <1>1, <1>4 DEF IInv, Typed, TypeOK, Catalogues
<1>7. QED
    BY <1>1, <1>2, <1>3, <1>5, <1>6, RestKeeps

LEMMA DeleteOneKeeps ==
    ASSUME IInv, NEW w \in Workers, DeleteOne(w)
    PROVE  IInv'
<1>1. /\ at[w] = "each" /\ Dirty(w) = {} /\ UNCHANGED <<db, cache, trail, lost, mix>>
    BY DEF DeleteOne, Flushing, Quiet, world
<1>2. PICK q \in job[w].left :
          LET deletes == Deletable(w, q)
              rows == IF deletes THEN job[w].rows \cup {q} ELSE job[w].rows
              left == job[w].left \ {q}
          IN /\ IF deletes THEN Put(w, Only(q, Gone(See(w, q)))) ELSE UNCHANGED tx
             /\ Keep(w, [job[w] EXCEPT !.rows = rows, !.left = left])
             /\ Goto(w, IF left # {} THEN "each" ELSE IF rows = {} THEN "commit" ELSE "audit")
    BY DEF DeleteOne
<1> DEFINE deletes == Deletable(w, q)
           rows == IF deletes THEN job[w].rows \cup {q} ELSE job[w].rows
<1>3. /\ Job(w) /\ job[w].kind = "question.delete" /\ job[w].left \subseteq Questions
      /\ {"kind", "rows", "audit", "left"} \subseteq DOMAIN job[w] /\ job[w].rows \subseteq Rows
      /\ job[w].audit \in {"none", "written", "logged"}
      /\ \A r \in Holds(w) : ~tx[w].own[r].there
      /\ \A r \in job[w].rows : Doomed(w, r)
    BY <1>1 DEF IInv, Job, Deletions
<1>4. q \in Questions /\ q \in Rows /\ q \notin Topics
    BY <1>3, TablesApart, TableColumns
<1>5. /\ DOMAIN at' = Workers /\ DOMAIN job' = Workers
      /\ \A v \in Workers \ {w} : at'[v] = at[v] /\ job'[v] = job[v]
      /\ at'[w] \in {"each", "audit"} \/ (at'[w] = "commit" /\ rows = {})
      /\ job'[w] = [job[w] EXCEPT !.rows = rows, !.left = job[w].left \ {q}]
    BY <1>2 DEF Keep, Goto, IInv, Typed
<1>6. /\ DOMAIN job'[w] = DOMAIN job[w] /\ job'[w].kind = "question.delete"
      /\ job'[w].rows = rows /\ job'[w].audit = job[w].audit
      /\ job'[w].left = job[w].left \ {q}
    BY <1>3, <1>5
<1>7. GoesOn(w) /\ rows \subseteq Rows
    BY <1>3, <1>4, <1>6 DEF GoesOn
<1>8. CASE deletes
    <2> DEFINE V == Only(q, Gone(See(w, q)))
    <2>0. Put(w, V)
        BY <1>2, <1>8
    <2>1. See(w, q).there /\ rows = job[w].rows \cup {q}
        BY <1>8 DEF Deletable
    <2> HIDE DEF V
    <2>2. /\ DOMAIN tx' = Workers /\ \A v \in Workers \ {w} : tx'[v] = tx[v]
          /\ tx'[w].own = tx[w].own /\ Holds(w)' = Holds(w)
          /\ tx'[w] = [own |-> tx'[w].own, dirty |-> tx'[w].dirty]
          /\ Dirty(w)' = {r \in DOMAIN V : V[r] # See(w, r)}
          /\ \A r \in Dirty(w)' : /\ tx'[w].dirty[r].loaded = See(w, r)
                                  /\ tx'[w].dirty[r].assigned = V[r]
        BY <1>1, <2>0, PutEffect
    <2>3. Others(w)
        BY <1>5, <2>2 DEF Others
    <2>4. DOMAIN V = {q} /\ V[q] = Gone(See(w, q))
        BY DEF Only, V
    <2>5. /\ See(w, q) \in RowOf(q) /\ See(w, q).used /\ See(w, q) = db[q] /\ db[q].used
        BY <1>3, <1>4, <2>1, SeeRow, RowColumns
    <2>6. /\ Gone(See(w, q)) \in RowOf(q) /\ ~Gone(See(w, q)).there /\ Gone(See(w, q)).used
          /\ Gone(See(w, q)).owner = See(w, q).owner
        BY <1>4, <2>5, GoneRow
    <2>7. Writable(w, q, V[q]) /\ Deletes(w, q)'
        BY <1>4, <1>6, <2>1, <2>4, <2>5, <2>6 DEF Writable, Fixed, Deletes, Deletions
    <2>8. Sessions'
        BY <1>1, <1>7, <2>0, <2>3, <2>4, <2>7, PutKeeps
    <2>9. \A r \in Dirty(w)' : r = q /\ ~tx'[w].dirty[r].assigned.there
        BY <2>2, <2>4, <2>6
    <2>10. q \in Dirty(w)'
        BY <2>1, <2>2, <2>4, <2>6
    <2>11. \A r : See(w, r)' = See(w, r)
        BY <1>1, <2>2 DEF See
    <2>12. \A r \in rows : Doomed(w, r)'
        BY <1>1, <1>3, <2>1, <2>5, <2>9, <2>10, <2>11 DEF Doomed
    <2>13. Job(w)'
        BY <1>3, <1>5, <1>6, <1>7, <2>2, <2>9, <2>12 DEF Job, Steps, Kinds, Deletions, Removals
    <2>14. QED
        BY <1>1, <2>3, <2>8, <2>13, RestKeeps DEF IInv, Typed, TypeOK, Catalogues
<1>9. CASE ~deletes
    <2>1. UNCHANGED tx /\ rows = job[w].rows
        BY <1>2, <1>9
    <2>2. Others(w) /\ Holds(w)' = Holds(w) /\ Dirty(w)' = {}
        BY <1>1, <1>5, <2>1 DEF Others, Holds, Dirty, IInv, Typed
    <2>3. Sessions'
        BY <1>1, <1>7, <2>1, <2>2, StandKeeps
    <2>4. \A r : See(w, r)' = See(w, r)
        BY <1>1, <2>1, <2>2 DEF See
    <2>5. \A r \in rows : Doomed(w, r)'
        BY <1>1, <1>3, <2>1, <2>2, <2>4 DEF Doomed
    <2>6. Job(w)'
        BY <1>3, <1>5, <1>6, <1>7, <2>1, <2>2, <2>5 DEF Job, Steps, Kinds, Deletions, Removals
    <2>7. QED
        BY <1>1, <2>2, <2>3, <2>6, RestKeeps DEF IInv, Typed, TypeOK, Catalogues
<1>10. QED
    BY <1>8, <1>9

LEMMA ImportRowKeeps ==
    ASSUME IInv, NEW w \in Workers, ImportRow(w)
    PROVE  IInv'
<1>1. /\ at[w] = "import" /\ Dirty(w) = {} /\ UNCHANGED <<db, cache, trail, lost, mix>>
    BY DEF ImportRow, Flushing, Quiet, world
<1>2. /\ Job(w) /\ job[w].kind = "question.import" /\ {"kind", "rows", "audit"} \subseteq DOMAIN job[w]
      /\ job[w].rows \subseteq Rows /\ job[w].audit \in {"none", "written", "logged"}
    BY <1>1 DEF IInv, Job
<1>3. ASSUME NEW rows, job[w].rows \subseteq rows, rows \subseteq Rows, Imported(w, rows)
      PROVE  /\ DOMAIN at' = Workers /\ DOMAIN job' = Workers /\ GoesOn(w) /\ Job(w)'
             /\ \A v \in Workers \ {w} : at'[v] = at[v] /\ job'[v] = job[v]
    <2>1. /\ job' = [job EXCEPT ![w] = [job[w] EXCEPT !.rows = rows, !.left = @ - 1]]
          /\ \E step \in {"import", "commit", "audit"} : at' = [at EXCEPT ![w] = step]
        BY <1>3 DEF Imported, Keep, Goto
    <2>2. DOMAIN at = Workers /\ DOMAIN job = Workers
        BY DEF IInv, Typed
    <2>3. /\ DOMAIN job'[w] = DOMAIN job[w] /\ job'[w].kind = "question.import"
          /\ job'[w].rows = rows /\ job'[w].audit = job[w].audit
        BY <1>2, <2>1, <2>2
    <2>4. at'[w] \in {"import", "commit", "audit"}
        BY <2>1, <2>2
    <2>5. GoesOn(w)
        BY <1>2, <1>3, <2>3 DEF GoesOn
    <2>6. Job(w)'
        BY <1>2, <1>3, <2>3, <2>4 DEF Job, Steps, Kinds, Deletions, Removals
    <2>7. QED
        BY <2>1, <2>2, <2>5, <2>6
<1>4. CASE Imported(w, job[w].rows) /\ UNCHANGED tx
    <2>1. /\ DOMAIN at' = Workers /\ DOMAIN job' = Workers /\ GoesOn(w) /\ Job(w)'
          /\ \A v \in Workers \ {w} : at'[v] = at[v] /\ job'[v] = job[v]
        BY <1>2, <1>3, <1>4
    <2>2. Others(w)
        BY <1>4, <2>1 DEF Others, IInv, Typed
    <2>3. Sessions'
        BY <1>1, <1>4, <2>1, <2>2, StandKeeps
    <2>4. QED
        BY <1>1, <2>1, <2>2, <2>3, RestKeeps DEF IInv, Typed, TypeOK, Catalogues
<1>5. CASE ~(Imported(w, job[w].rows) /\ UNCHANGED tx)
    <2>1. PICK s \in There(Subjects), text \in Keys["Question"] :
              \E t \in TopicsOf(s) : \E q \in Fresh(Questions) :
                 /\ Put(w, Only(q, New(s, t, text, None)))
                 /\ Imported(w, job[w].rows \cup {q})
        BY <1>5 DEF ImportRow
    <2>2. PICK t \in TopicsOf(s) : \E q \in Fresh(Questions) :
                 /\ Put(w, Only(q, New(s, t, text, None)))
                 /\ Imported(w, job[w].rows \cup {q})
        BY <2>1
    <2>3. PICK q \in Fresh(Questions) :
                 /\ Put(w, Only(q, New(s, t, text, None)))
                 /\ Imported(w, job[w].rows \cup {q})
        BY <2>2
    <2> DEFINE new == New(s, t, text, None)
    <2>4. /\ q \in Questions /\ Questions \subseteq Rows /\ s \in Subjects
          /\ t \in Topics \cup {None}
        BY FreshRow, TablesApart DEF There, TopicsOf
    <2>5. Writable(w, q, new) /\ new.there
        BY <2>4, NewWritable, TableColumns
    <2>6. /\ DOMAIN at' = Workers /\ DOMAIN job' = Workers /\ GoesOn(w) /\ Job(w)'
          /\ \A v \in Workers \ {w} : at'[v] = at[v] /\ job'[v] = job[v]
        BY <1>2, <1>3, <2>3, <2>4
    <2> HIDE DEF new
    <2>7. Put(w, Only(q, new)) /\ DOMAIN Only(q, new) = {q} /\ Only(q, new)[q] = new
        BY <2>3 DEF Only, new
    <2>8. Others(w)
        BY <1>1, <2>6, <2>7, PutEffect DEF Others
    <2>9. Sessions'
        BY <1>1, <2>5, <2>6, <2>7, <2>8, PutKeeps
    <2>10. QED
        BY <1>1, <2>6, <2>8, <2>9, RestKeeps DEF IInv, Typed, TypeOK, Catalogues
<1>6. QED
    BY <1>4, <1>5

\* The audit, the removal, and the catalogue.
LEMMA AuditKeeps ==
    ASSUME IInv, NEW w \in Workers, Audit(w)
    PROVE  IInv'
<1>1. /\ at[w] = "audit" /\ Dirty(w) = {} /\ UNCHANGED <<db, trail, lost, mix>>
      /\ at' = [at EXCEPT ![w] = "commit"]
      /\ cache' = IF job[w].kind \in Busting THEN [cache EXCEPT ![Home[w]] = None] ELSE cache
    BY DEF Audit, Flushing, Goto
<1>2. PICK audit \in {"written", "logged"} :
          job' = [job EXCEPT ![w] =
                    IF job[w].kind \in Deletions THEN [job[w] EXCEPT !.audit = audit] ELSE job[w]]
    BY DEF Audit, Keep
<1>3. /\ Job(w) /\ {"kind", "rows", "audit"} \subseteq DOMAIN job[w] /\ job[w].kind \in Kinds
      /\ job[w].rows \subseteq Rows /\ job[w].audit \in {"none", "written", "logged"}
    BY <1>1 DEF IInv, Job
<1>4. /\ DOMAIN at' = Workers /\ DOMAIN job' = Workers /\ at'[w] = "commit"
      /\ \A v \in Workers \ {w} : at'[v] = at[v] /\ job'[v] = job[v]
    BY <1>1, <1>2 DEF IInv, Typed
<1>5. job'[w] = IF job[w].kind \in Deletions THEN [job[w] EXCEPT !.audit = audit] ELSE job[w]
    BY <1>2 DEF IInv, Typed
<1>6. /\ DOMAIN job'[w] = DOMAIN job[w] /\ job'[w].kind = job[w].kind /\ job'[w].rows = job[w].rows
      /\ job'[w].audit \in {"none", "written", "logged"}
      /\ job[w].kind \in Deletions => job'[w].audit \in {"written", "logged"}
    BY <1>3, <1>5
<1>7. GoesOn(w)
    BY <1>6 DEF GoesOn
<1>8. cache' \in [Procs -> {None} \cup Catalogues]
    BY <1>1 DEF IInv, Typed, TypeOK, Catalogues
<1>9. ASSUME \A r \in job[w].rows : job[w].kind \in Deletions => Doomed(w, r)'
      PROVE  Job(w)'
    BY <1>3, <1>4, <1>6, <1>9 DEF Job, Steps
<1>10. CASE job[w].kind \in Removals
    <2> DEFINE V == [r \in job[w].rows |-> Gone(See(w, r))]
    <2>1. Put(w, V)
        BY <1>10 DEF Audit
    <2>2. DOMAIN V = job[w].rows /\ \A r \in job[w].rows : V[r] = Gone(See(w, r))
        OBVIOUS
    <2> HIDE DEF V
    <2>3. tx[w] = Closed /\ \A r \in job[w].rows : db[r].used
        BY <1>1, <1>3, <1>10 DEF Job
    <2>4. \A r : See(w, r) = db[r]
        BY <2>3 DEF See, Holds, Closed
    <2>5. /\ DOMAIN tx' = Workers /\ \A v \in Workers \ {w} : tx'[v] = tx[v]
          /\ tx'[w].own = tx[w].own /\ Holds(w)' = Holds(w)
          /\ tx'[w] = [own |-> tx'[w].own, dirty |-> tx'[w].dirty]
          /\ Dirty(w)' = {r \in DOMAIN V : V[r] # See(w, r)}
          /\ \A r \in Dirty(w)' : /\ tx'[w].dirty[r].loaded = See(w, r)
                                  /\ tx'[w].dirty[r].assigned = V[r]
        BY <1>1, <2>1, PutEffect
    <2>6. Others(w)
        BY <1>4, <2>5 DEF Others
    <2>7. ASSUME NEW r \in job[w].rows
          PROVE  /\ r \in Rows /\ db[r] \in RowOf(r) /\ db[r].used
                 /\ Gone(db[r]) \in RowOf(r) /\ ~Gone(db[r]).there /\ Gone(db[r]).used
                 /\ Gone(db[r]).owner = db[r].owner /\ Gone(db[r]).parent = db[r].parent
                 /\ Refs(Gone(db[r])) = Refs(db[r])
                 /\ ~db[r].there => Gone(db[r]) = db[r]
        BY <1>3, <2>3, SeeRow, GoneRow
    <2>8. ASSUME NEW r \in job[w].rows, V[r] # See(w, r)
          PROVE  Writable(w, r, V[r]) /\ Deletes(w, r)'
        <3>1. V[r] = Gone(db[r]) /\ See(w, r) = db[r] /\ db[r].there
            BY <2>2, <2>4, <2>7, <2>8
        <3>2. \A p \in Refs(db[r]) : db[p].used
            BY <2>7 DEF IInv, Catalogued, UsedRefs
        <3>3. r \in Topics /\ db[r].parent # None => db[db[r].parent].owner = db[r].owner
            BY <2>7, <3>1 DEF IInv, Catalogued, IsCatalogue, LevelsMatch, Standing
        <3>4. Deletes(w, r)'
            BY <1>6, <1>10 DEF Deletes, Deletions
        <3>5. QED
            BY <2>7, <3>1, <3>2, <3>3, <3>4 DEF Writable, Fixed
    <2>9. Sessions'
        BY <1>1, <1>7, <2>1, <2>2, <2>6, <2>8, PutKeeps
    <2>10. ASSUME NEW r \in job[w].rows PROVE Doomed(w, r)'
        <3>1. See(w, r)' = db[r]
            BY <1>1, <2>4, <2>5 DEF See
        <3>2. db[r].there => r \in Dirty(w)'
            BY <2>2, <2>4, <2>5, <2>7
        <3>3. QED
            BY <2>2, <2>4, <2>5, <2>7, <3>1, <3>2 DEF Doomed
    <2>11. QED
        BY <1>1, <1>8, <1>9, <2>6, <2>9, <2>10, RestKeeps
<1>11. CASE job[w].kind \notin Removals
    <2>1. UNCHANGED tx
        BY <1>11 DEF Audit
    <2>2. Others(w)
        BY <1>4, <2>1 DEF Others, IInv, Typed
    <2>3. Sessions'
        BY <1>1, <1>7, <2>1, <2>2, StandKeeps
    <2>4. ASSUME NEW r \in job[w].rows, job[w].kind \in Deletions PROVE Doomed(w, r)'
        <3>1. Doomed(w, r)
            BY <1>3, <1>11, <2>4 DEF Job, Deletions
        <3>2. QED
            BY <1>1, <2>1, <3>1 DEF Doomed, See, Dirty, Holds
    <2>5. QED
        BY <1>1, <1>8, <1>9, <2>2, <2>3, <2>4, RestKeeps
<1>12. QED
    BY <1>10, <1>11

\* Where only a process's catalogue changes.
LEMMA CacheKeeps ==
    ASSUME IInv, UNCHANGED <<db, tx, at, job, trail, lost>>,
           cache' \in [Procs -> {None} \cup Catalogues]
    PROVE  IInv'
<1>1. Typed'
    BY DEF IInv, Typed, TypeOK, Catalogues
<1>2. AuditTells'
    BY DEF IInv, AuditTells
<1>3. Catalogued(db)'
    BY DEF IInv, Catalogued, IsCatalogue, RefsThere, KeysUnique, LevelsMatch, UsedRefs, Standing
<1>4. ASSUME NEW w \in Workers
      PROVE  /\ Holds(w)' = Holds(w) /\ Dirty(w)' = Dirty(w)
             /\ \A r : /\ See(w, r)' = See(w, r) /\ (Deletes(w, r)' <=> Deletes(w, r))
                      /\ (Doomed(w, r)' <=> Doomed(w, r))
    BY DEF Holds, Dirty, See, Deletes, Doomed
<1>5. ASSUME NEW w \in Workers PROVE Session(w)' /\ Job(w)'
    <2>1. Seen(w)' = Seen(w)
        BY <1>4 DEF Seen
    <2>2. Catalogued(Seen(w))'
        BY <2>1, CataloguedPrime DEF IInv, Session
    <2>3. ASSUME NEW r \in Holds(w) PROVE Held(w, r)'
        <3>1. Held(w, r)
            BY DEF IInv, Session
        <3>2. QED
            BY <1>4, <3>1 DEF Held
    <2>4. ASSUME NEW r \in Dirty(w) PROVE Assigned(w, r)'
        <3>1. Assigned(w, r)
            BY DEF IInv, Session
        <3>2. QED
            BY <1>4, <3>1 DEF Assigned
    <2>5. Session(w)'
        BY <1>4, <2>2, <2>3, <2>4 DEF IInv, Session
    <2>6. Job(w)'
        BY <1>4 DEF IInv, Job
    <2>7. QED
        BY <2>5, <2>6
<1>6. Apart'
    BY <1>4 DEF IInv, Apart
<1>7. QED
    BY <1>1, <1>2, <1>3, <1>5, <1>6 DEF IInv

LEMMA ExpireKeeps ==
    ASSUME IInv, NEW p \in Procs, Expire(p)
    PROVE  IInv'
<1>1. UNCHANGED <<db, tx, at, job, trail, lost>> /\ cache' = [cache EXCEPT ![p] = None]
    BY DEF Expire, session
<1>2. cache' \in [Procs -> {None} \cup Catalogues]
    BY <1>1 DEF IInv, Typed, TypeOK, Catalogues
<1>3. QED
    BY <1>1, <1>2, CacheKeeps

-----------------------------------------------------------------------------
(* The specification *)

LEMMA InitIsSound ==
    ASSUME Init
    PROVE  IInv
<1>1. PICK rows \in Starts : RequestsInit(rows)
    BY DEF Init
<1>2. /\ db = rows /\ tx = [w \in Workers |-> Closed] /\ at = [w \in Workers |-> "idle"]
      /\ job = [w \in Workers |-> NoJob]
    BY <1>1 DEF RequestsInit
<1>3. /\ DOMAIN db = Rows /\ IsCatalogue(db)
      /\ \A r \in Rows : db[r] \in RowOf(r) /\ (db[r].used => db[r].there)
    BY <1>2, ConsoleAssumption
<1>4. cache = [p \in Procs |-> None] /\ trail = {} /\ lost = {}
    BY DEF Init
<1>5. Typed
    BY <1>2, <1>3, <1>4 DEF Typed, TypeOK
<1>6. UsedRefs(db)
    <2> SUFFICES ASSUME NEW r \in Rows, db[r].used, NEW p \in Refs(db[r])
                 PROVE  db[p].used
        BY DEF UsedRefs
    <2>1. r \in Standing(db)
        BY <1>3, StandingIs
    <2>2. p \in Rows /\ db[p].there
        BY <1>3, <2>1, RowColumns DEF IsCatalogue, RefsThere
    <2>3. QED
        BY <1>3, <2>2, RowColumns
<1>7. Catalogued(db) /\ AuditTells
    BY <1>3, <1>4, <1>6 DEF Catalogued, AuditTells
<1>8. ASSUME NEW w \in Workers
      PROVE  tx[w] = Closed /\ at[w] = "idle" /\ job[w] = NoJob /\ Holds(w) = {} /\ Dirty(w) = {}
    <2>1. tx[w] = Closed /\ at[w] = "idle" /\ job[w] = NoJob
        BY <1>2
    <2>2. QED
        BY <2>1 DEF Holds, Dirty, Closed
<1>9. Apart
    BY <1>8 DEF Apart
<1>10. ASSUME NEW w \in Workers PROVE Session(w) /\ Job(w)
    <2>1. \A r \in Rows : Seen(w)[r] = db[r]
        BY <1>8 DEF Seen, See
    <2>2. Catalogued(Seen(w))
        BY <1>3, <1>7, <2>1, SameRows
    <2>3. tx[w] = [own |-> tx[w].own, dirty |-> tx[w].dirty]
        BY <1>8 DEF Closed
    <2>4. Session(w)
        BY <1>8, <2>2, <2>3 DEF Session
    <2>5. Job(w)
        BY <1>8 DEF Job, NoJob, Deletions, Removals
    <2>6. QED
        BY <2>4, <2>5
<1>11. QED
    BY <1>5, <1>7, <1>9, <1>10 DEF IInv

LEMMA NextKeeps ==
    ASSUME IInv, Next
    PROVE  IInv'
<1>1. CASE \E p \in Procs : Expire(p)
    BY <1>1, ExpireKeeps
<1>2. CASE ~\E p \in Procs : Expire(p)
    <2>1. PICK w \in Workers :
              \/ CreateSubject(w) \/ UpdateSubject(w) \/ DeleteSubject(w)
              \/ CreateCurriculum(w) \/ UpdateCurriculum(w) \/ DeleteCurriculum(w)
              \/ CreateTopic(w) \/ UpdateTopic(w) \/ DeleteTopic(w) \/ ImportLesson(w)
              \/ CreateMaterial(w) \/ UpdateMaterial(w) \/ DeleteMaterial(w)
              \/ CreateQuestion(w) \/ UpdateQuestion(w) \/ DeleteQuestions(w) \/ ImportQuestions(w)
              \/ CreateTerm(w) \/ UpdateTerm(w) \/ DeleteTerm(w)
              \/ UpdateStudent(w) \/ DeleteStudent(w) \/ CreateAdmin(w) \/ SetAdminStatus(w)
              \/ DoWork(w) \/ ListSubjects(w)
              \/ Validate(w) \/ DeleteOne(w) \/ ImportRow(w) \/ Audit(w) \/ StoreSubjects(w)
              \/ CommitRows(w) \/ Rollback(w) \/ FlushRows(w)
        BY <1>2 DEF Next
    <2>2. QED
        BY <2>1, CreateSubjectKeeps, UpdateSubjectKeeps, CreateCurriculumKeeps,
           UpdateCurriculumKeeps, CreateTopicKeeps, UpdateTopicKeeps, ImportLessonKeeps,
           CreateMaterialKeeps, UpdateMaterialKeeps, CreateQuestionKeeps, UpdateQuestionKeeps,
           DeleteQuestionsKeeps, ImportQuestionsKeeps, CreateTermKeeps, UpdateTermKeeps,
           UpdateStudentKeeps, CreateAdminKeeps, SetAdminStatusKeeps, DoWorkKeeps, DeletesKeep,
           ListSubjectsKeeps, ValidateKeeps, DeleteOneKeeps, ImportRowKeeps, AuditKeeps,
           StoreSubjectsKeeps, CommitKeeps, RollbackKeeps, FlushKeeps
<1>3. QED
    BY <1>1, <1>2

LEMMA StutterKeeps ==
    ASSUME IInv, UNCHANGED vars
    PROVE  IInv'
    BY CacheKeeps DEF vars, IInv, Typed, TypeOK, Catalogues

\* The invariant holds in every state.
THEOREM InvariantHolds == Spec => []IInv
<1>1. Init => IInv
    BY InitIsSound
<1>2. IInv /\ [Next]_vars => IInv'
    BY NextKeeps, StutterKeeps
<1>3. QED
    BY <1>1, <1>2, PTL DEF Spec

\* Every row is of its table's columns, the catalogue a process keeps is a catalogue, and
\* the audit rows are of deletions (console.py, admin.py, catalogue.py).
THEOREM Typing == Spec => []TypeOK
<1>1. IInv => TypeOK
    BY DEF IInv, Typed
<1>2. QED
    BY <1>1, InvariantHolds, PTL

\* Whatever requests meet and end in any order: what a row refers to is there, unique keys
\* are unique, and a topic's level is of the topic's subject (console.py, UpdateTopicService).
THEOREM TreeIsSound == Spec => []TreeSound
<1>1. IInv => TreeSound
    BY DEF IInv, Catalogued, TreeSound
<1>2. QED
    BY <1>1, InvariantHolds, PTL

\* What was deleted by name is in the audit, unless its write failed, and nothing is that is
\* still there (admin.py, RecordAuditService).
THEOREM AuditTellsWhatIsGone == Spec => []AuditTells
<1>1. IInv => AuditTells
    BY DEF IInv
<1>2. QED
    BY <1>1, InvariantHolds, PTL

-----------------------------------------------------------------------------
(* One request at a time *)

Serial == "serial" \in mix

\* What a process lists.
Shown == Subjects \cup Questions
\* Where two rows, or a row and its topic, have to agree.
Agreeing == Questions \cup Terms \cup Lessons

\* These rows agree: a question's topic is of its subject (a topic keeps its subject, so that
\* it may be looked up in `base'), terms are apart, a topic has one lesson.
Legal(rows, base) ==
    /\ \A q \in Questions : rows[q].there /\ rows[q].parent # None =>
          base[rows[q].parent].used /\ base[rows[q].parent].owner = rows[q].owner
    /\ \A r, s \in Terms : rows[r].there /\ rows[s].there /\ r # s =>
          rows[r].key # rows[s].key /\ ~Overlap(rows[r].mark, rows[s].mark)
    /\ \A l, m \in Lessons :
          rows[l].there /\ rows[m].there /\ rows[l].parent = rows[m].parent => l = m

\* The question has been assigned to and not been validated: nothing else has changed.
Awaits(w) ==
    \E q \in Questions : /\ Written(w)[q] = job[w].row
                         /\ \A r \in Rows \ {q} : Written(w)[r] = db[r]

\* A request that keeps the catalogue changes nothing that is listed; another has dropped it
\* when it commits, unless it has changed nothing at all.
Drops(w) ==
    /\ job[w].kind \notin Busting => (job[w].rows \cup Holds(w) \cup Dirty(w)) \cap Shown = {}
    /\ at[w] = "commit" /\ job[w].kind \in Busting =>
          cache[Home[w]] = None \/ Holds(w) \cup Dirty(w) = {}
    /\ at[w] \in {"each", "import"} /\ job[w].rows = {} => Holds(w) \cup Dirty(w) = {}
    /\ at[w] = "store" => job[w].payload = Catalogue(db)

Turn(w) ==
    at[w] # "idle" => /\ Drops(w)
                      /\ IF at[w] = "validate" THEN Awaits(w) ELSE Legal(Written(w), db)

InTurn == \A v, w \in Workers : at[v] # "idle" /\ at[w] # "idle" => v = w

SerialInv == Serial => InTurn /\ Legal(db, db) /\ \A w \in Workers : Turn(w)
CacheInv == Serial => \A p \in Procs : cache[p] \in {None, Catalogue(db)}

LEMMA LegalPrime ==
    /\ Legal(db, db)' <=> Legal(db', db')
    /\ \A w \in Workers : Legal(Written(w), db)' <=> Legal(Written(w)', db')
    BY DEF Legal

\* Rows that agree still do when some are deleted and others change.
LEMMA LegalLess ==
    ASSUME NEW f, NEW g, NEW base, Legal(f, base),
           \A r \in Rows : g[r].there => g[r] = f[r] \/ r \notin Agreeing
    PROVE  Legal(g, base)
<1>1. \A r \in Agreeing : g[r].there => g[r] = f[r]
    BY TablesApart DEF Agreeing
<1>2. QED
    BY <1>1 DEF Legal, Agreeing

LEMMA TablesDiffer ==
    /\ (Subjects \cup Levels \cup Topics \cup Materials \cup Students \cup Admins \cup Works)
          \cap Agreeing = {}
    /\ (Levels \cup Topics \cup Lessons \cup Materials \cup Terms \cup Students \cup Admins
          \cup Works) \cap Shown = {}
    /\ Questions \cap (Terms \cup Lessons) = {} /\ Terms \cap Lessons = {}
    BY DEF Subjects, Levels, Topics, Lessons, Questions, Materials, Terms, Students, Admins,
           Works, Agreeing, Shown

\* A step of the one request that is under way.
LEMMA TurnTaken ==
    ASSUME IInv, SerialInv, Serial, NEW w \in Workers, UNCHANGED <<db, mix>>,
           \A v \in Workers \ {w} : at'[v] = at[v],
           at[w] # "idle" \/ \A v \in Workers : at[v] = "idle", Turn(w)'
    PROVE  SerialInv'
<1>1. InTurn /\ Legal(db, db)
    BY DEF SerialInv
<1>2. \A v \in Workers \ {w} : at[v] = "idle" /\ at'[v] = "idle"
    BY <1>1 DEF InTurn
<1>3. InTurn'
    BY <1>2 DEF InTurn
<1>4. Legal(db, db)'
    BY <1>1, LegalPrime
<1>5. \A v \in Workers \ {w} : Turn(v)'
    BY <1>2 DEF Turn
<1>6. QED
    BY <1>3, <1>4, <1>5 DEF SerialInv

\* What w will have written, after it has assigned to rows.
LEMMA PutWrites ==
    ASSUME IInv, IInv', NEW w \in Workers, NEW V, Dirty(w) = {}, UNCHANGED db, Put(w, V)
    PROVE  /\ Holds(w)' = Holds(w) /\ Dirty(w)' \subseteq DOMAIN V
           /\ \A r \in Rows : Written(w)'[r] = IF r \in DOMAIN V THEN V[r] ELSE See(w, r)
<1>1. /\ DOMAIN tx' = Workers /\ \A v \in Workers \ {w} : tx'[v] = tx[v]
      /\ tx'[w] = [own |-> tx'[w].own, dirty |-> tx'[w].dirty]
      /\ tx'[w].own = tx[w].own /\ Holds(w)' = Holds(w)
      /\ Dirty(w)' = {r \in DOMAIN V : V[r] # See(w, r)}
      /\ \A r \in Dirty(w)' : /\ tx'[w].dirty[r].loaded = See(w, r)
                              /\ tx'[w].dirty[r].assigned = V[r]
    BY PutEffect
<1>2. \A r : See(w, r)' = See(w, r)
    BY <1>1 DEF See
<1>3. ASSUME NEW r \in Rows
      PROVE  Written(w)'[r] = IF r \in Dirty(w)' THEN Changed(See(w, r), See(w, r), V[r])
                              ELSE See(w, r)
    BY <1>1, <1>2, <1>3 DEF Written
<1>4. ASSUME NEW r \in Rows, r \in Dirty(w)'
      PROVE  Changed(See(w, r), See(w, r), V[r]) = V[r]
    <2>1. Assigned(w, r)'
        BY <1>4 DEF IInv, Session
    <2>2. See(w, r) \in RowOf(r) /\ V[r] \in RowOf(r) /\ V[r].used
        BY <1>1, <1>4, <2>1 DEF Assigned
    <2>3. QED
        BY <2>2, ChangedRow
<1>5. QED
    BY <1>1, <1>3, <1>4

LEMMA StillWrites ==
    ASSUME NEW w \in Workers, UNCHANGED <<db, tx>>
    PROVE  Holds(w)' = Holds(w) /\ Dirty(w)' = Dirty(w) /\ Written(w)' = Written(w)
    BY DEF Holds, Dirty, Written, See

LEMMA OnlyIs ==
    ASSUME NEW r, NEW new
    PROVE  DOMAIN Only(r, new) = {r} /\ Only(r, new)[r] = new
    BY DEF Only

LEMMA Alone ==
    ASSUME Serial, NEW w \in Workers, NEW kind, NEW values, NEW step, Begin(w, kind, values, step)
    PROVE  at[w] = "idle" /\ \A v \in Workers : at[v] = "idle"
    BY DEF Begin, MayBegin, Serial

\* It has begun and assigned to rows, which agree with the others.
LEMMA ChangeTurns ==
    ASSUME IInv, IInv', SerialInv, Serial, NEW w \in Workers, NEW kind, NEW V,
           NEW step \in {"audit", "commit"}, Change(w, kind, V, step),
           kind \in Busting => step = "audit", kind \notin Busting => DOMAIN V \cap Shown = {},
           NEW f, \A r \in Rows : f[r] = IF r \in DOMAIN V THEN V[r] ELSE db[r], Legal(f, db)
    PROVE  SerialInv'
<1> DEFINE values == [rows |-> DOMAIN V, audit |-> "none"]
<1>1. Begin(w, kind, values, step) /\ Put(w, V) /\ UNCHANGED <<db, cache, mix>>
    BY DEF Change, Quiet, world
<1>2. DOMAIN values = {"rows", "audit"} /\ values.rows = DOMAIN V
    OBVIOUS
<1> HIDE DEF values
<1>3. /\ Holds(w) = {} /\ Dirty(w) = {} /\ \A r : See(w, r) = db[r]
      /\ at'[w] = step /\ \A v \in Workers \ {w} : at'[v] = at[v]
      /\ job'[w].kind = kind /\ job'[w].rows = DOMAIN V
    BY <1>1, <1>2, BeginEffect
<1>4. /\ Holds(w)' = {} /\ Dirty(w)' \subseteq DOMAIN V
      /\ \A r \in Rows : Written(w)'[r] = f[r]
    BY <1>1, <1>3, PutWrites
<1>5. Legal(Written(w)', db')
    BY <1>1, <1>4, LegalLess
<1>6. Drops(w)'
    BY <1>3, <1>4 DEF Drops
<1>7. Turn(w)'
    BY <1>3, <1>5, <1>6, LegalPrime DEF Turn
<1>8. QED
    BY <1>1, <1>3, <1>7, Alone, TurnTaken

\* The rows as they are stored, with one changed.
With(r, new) == [q \in Rows |-> IF q = r THEN new ELSE db[q]]

LEMMA ChangeOneTurns ==
    ASSUME IInv, IInv', SerialInv, Serial, NEW w \in Workers, NEW kind, NEW r \in Rows, NEW new,
           NEW step \in {"audit", "commit"}, Change(w, kind, Only(r, new), step),
           kind \in Busting => step = "audit", kind \notin Busting => r \notin Shown,
           Legal(With(r, new), db)
    PROVE  SerialInv'
<1> DEFINE V == Only(r, new)
           f == With(r, new)
<1>1. Change(w, kind, V, step) /\ DOMAIN V = {r} /\ V[r] = new
    BY OnlyIs
<1>2. Legal(f, db) /\ \A q \in Rows : f[q] = IF q = r THEN new ELSE db[q]
    BY DEF With
<1> HIDE DEF V, f
<1>3. \A q \in Rows : f[q] = IF q \in DOMAIN V THEN V[q] ELSE db[q]
    BY <1>1, <1>2
<1>4. kind \notin Busting => DOMAIN V \cap Shown = {}
    BY <1>1
<1>5. QED
    BY <1>1, <1>2, <1>3, <1>4, ChangeTurns

\* What agrees with no other row.
LEMMA ElsewhereTurns ==
    ASSUME IInv, IInv', SerialInv, Serial, NEW w \in Workers,
           \/ CreateSubject(w) \/ UpdateSubject(w) \/ CreateCurriculum(w) \/ UpdateCurriculum(w)
           \/ CreateTopic(w) \/ UpdateTopic(w) \/ CreateMaterial(w) \/ UpdateMaterial(w)
           \/ UpdateStudent(w) \/ CreateAdmin(w) \/ SetAdminStatus(w) \/ DoWork(w)
    PROVE  SerialInv'
<1> DEFINE Some == \E kind, new : \E r \in Rows \ Agreeing, step \in {"audit", "commit"} :
                      /\ Change(w, kind, Only(r, new), step)
                      /\ kind \in Busting => step = "audit"
                      /\ kind \notin Busting => r \notin Shown
<1>1. \A table, r : r \in Fresh(table) \cup There(table) => r \in table
    BY DEF Fresh, There
<1>2. ASSUME CreateSubject(w) PROVE Some
    BY <1>1, <1>2, TablesApart, TablesDiffer DEF CreateSubject, Busting
<1>3. ASSUME UpdateSubject(w) PROVE Some
    BY <1>1, <1>3, TablesApart, TablesDiffer DEF UpdateSubject, Busting
<1>4. ASSUME CreateCurriculum(w) PROVE Some
    BY <1>1, <1>4, TablesApart, TablesDiffer DEF CreateCurriculum, Busting
<1>5. ASSUME UpdateCurriculum(w) PROVE Some
    BY <1>1, <1>5, TablesApart, TablesDiffer DEF UpdateCurriculum, Busting
<1>6. ASSUME CreateTopic(w) PROVE Some
    BY <1>1, <1>6, TablesApart, TablesDiffer DEF CreateTopic, Busting
<1>7. ASSUME UpdateTopic(w) PROVE Some
    BY <1>1, <1>7, TablesApart, TablesDiffer DEF UpdateTopic, Busting
<1>8. ASSUME CreateMaterial(w) PROVE Some
    BY <1>1, <1>8, TablesApart, TablesDiffer DEF CreateMaterial, Busting
<1>9. ASSUME UpdateMaterial(w) PROVE Some
    BY <1>1, <1>9, TablesApart, TablesDiffer DEF UpdateMaterial, Busting
<1>10. ASSUME UpdateStudent(w) PROVE Some
    BY <1>1, <1>10, TablesApart, TablesDiffer DEF UpdateStudent, Busting
<1>11. ASSUME CreateAdmin(w) PROVE Some
    BY <1>1, <1>11, TablesApart, TablesDiffer DEF CreateAdmin, Busting
<1>12. ASSUME SetAdminStatus(w) PROVE Some
    BY <1>1, <1>12, TablesApart, TablesDiffer DEF SetAdminStatus, Busting
<1>13. ASSUME DoWork(w) PROVE Some
    BY <1>1, <1>13, TablesApart, TablesDiffer DEF DoWork, Busting
<1>14. Some
    BY <1>2, <1>3, <1>4, <1>5, <1>6, <1>7, <1>8, <1>9, <1>10, <1>11, <1>12, <1>13
<1>15. PICK kind, new : \E r \in Rows \ Agreeing, step \in {"audit", "commit"} :
           /\ Change(w, kind, Only(r, new), step)
           /\ kind \in Busting => step = "audit"
           /\ kind \notin Busting => r \notin Shown
    BY <1>14
<1>16. PICK r \in Rows \ Agreeing, step \in {"audit", "commit"} :
           /\ Change(w, kind, Only(r, new), step)
           /\ kind \in Busting => step = "audit"
           /\ kind \notin Busting => r \notin Shown
    BY <1>15
<1>17. Legal(With(r, new), db)
    BY <1>16, LegalLess DEF With, SerialInv
<1>18. QED
    BY <1>16, <1>17, ChangeOneTurns

\* A lesson is the one of its topic.
LEMMA ImportLessonTurns ==
    ASSUME IInv, IInv', SerialInv, Serial, NEW w \in Workers, ImportLesson(w)
    PROVE  SerialInv'
<1>1. PICK t \in There(Topics), note \in Keys["Lesson"] :
         \/ \E l \in LessonsOf(t) :
                 Change(w, "lesson.import", Only(l, [db[l] EXCEPT !.key = note]), "audit")
         \/ /\ LessonsOf(t) = {}
            /\ \E l \in Fresh(Lessons) :
                 Change(w, "lesson.import", Only(l, New(None, t, note, None)), "audit")
    BY DEF ImportLesson
<1>2. Legal(db, db)
    BY DEF SerialInv
<1>3. ASSUME NEW l \in Lessons, NEW new,
             Change(w, "lesson.import", Only(l, new), "audit"),
             \A m \in Lessons \ {l} : db[m].there => db[m].parent # new.parent
      PROVE  SerialInv'
    <2>1. l \in Rows /\ "lesson.import" \in Busting
        BY TablesApart DEF Busting
    <2>2. \A r \in Rows : With(l, new)[r] = IF r = l THEN new ELSE db[r]
        BY DEF With
    <2>3. Legal(With(l, new), db)
        BY <1>2, <1>3, <2>2, TablesApart, TablesDiffer DEF Legal
    <2>4. QED
        BY <1>3, <2>1, <2>3, ChangeOneTurns
<1>4. ASSUME NEW l \in LessonsOf(t),
             Change(w, "lesson.import", Only(l, [db[l] EXCEPT !.key = note]), "audit")
      PROVE  SerialInv'
    <2> DEFINE new == [db[l] EXCEPT !.key = note]
    <2>1. l \in Lessons /\ l \in There(Lessons) /\ Lessons \subseteq Rows /\ db[l].there
        BY TablesApart DEF LessonsOf, There
    <2>2. new.parent = db[l].parent
        BY <2>1, StandingRow
    <2> HIDE DEF new
    <2>3. \A m \in Lessons \ {l} : db[m].there => db[m].parent # new.parent
        BY <1>2, <2>1, <2>2 DEF Legal
    <2>4. QED
        BY <1>3, <1>4, <2>1, <2>3 DEF new
<1>5. ASSUME LessonsOf(t) = {}, NEW l \in Fresh(Lessons),
             Change(w, "lesson.import", Only(l, New(None, t, note, None)), "audit")
      PROVE  SerialInv'
    <2>1. l \in Lessons /\ New(None, t, note, None).parent = t
        BY FreshRow DEF New
    <2>2. \A m \in Lessons : db[m].there => db[m].parent # t
        BY <1>5 DEF LessonsOf, There
    <2>3. QED
        BY <1>3, <1>5, <2>1, <2>2
<1>6. QED
    BY <1>1, <1>4, <1>5

\* The topic that a request reads for a question is of its subject.
LEMMA TopicOf ==
    ASSUME IInv, NEW s, NEW t \in TopicsOf(s), t # None
    PROVE  t \in Topics /\ db[t].used /\ db[t].owner = s
<1>1. t \in There(Topics) /\ db[t].owner = s
    BY DEF TopicsOf
<1>2. QED
    BY <1>1, StandingRow, TablesApart

LEMMA CreateQuestionTurns ==
    ASSUME IInv, IInv', SerialInv, Serial, NEW w \in Workers, CreateQuestion(w)
    PROVE  SerialInv'
<1>1. PICK q \in Fresh(Questions), s \in There(Subjects), text \in Keys["Question"] :
           \E t \in TopicsOf(s) :
              Change(w, "question.create", Only(q, New(s, t, text, None)), "audit")
    BY DEF CreateQuestion
<1>2. PICK t \in TopicsOf(s) :
           Change(w, "question.create", Only(q, New(s, t, text, None)), "audit")
    BY <1>1
<1> DEFINE new == New(s, t, text, None)
<1>3. q \in Questions /\ q \in Rows /\ new.owner = s /\ new.parent = t
    BY FreshRow, TablesApart DEF New
<1> HIDE DEF new
<1>4. \A r \in Rows : With(q, new)[r] = IF r = q THEN new ELSE db[r]
    BY DEF With
<1>5. new.parent # None => db[new.parent].used /\ db[new.parent].owner = new.owner
    BY <1>3, TopicOf
<1>6. Legal(With(q, new), db)
    BY <1>3, <1>4, <1>5, TablesApart, TablesDiffer DEF Legal, SerialInv
<1>7. QED
    BY <1>2, <1>3, <1>6, ChangeOneTurns DEF new, Busting

\* The terms are those that were validated.
LEMMA TermsTurn ==
    ASSUME IInv, IInv', SerialInv, Serial, NEW w \in Workers, CreateTerm(w) \/ UpdateTerm(w)
    PROVE  SerialInv'
<1>1. \E kind \in {"academic-term.create", "academic-term.update"}, r \in Terms : \E new :
         /\ TermsValid([db EXCEPT ![r] = new], There(Terms) \cup {r})
         /\ Change(w, kind, Only(r, new), "audit")
    <2>1. ASSUME NEW r \in There(Terms) PROVE r \in Terms /\ There(Terms) \cup {r} = There(Terms)
        BY DEF There
    <2>2. CASE CreateTerm(w)
        BY <2>2, FreshRow DEF CreateTerm
    <2>3. CASE UpdateTerm(w)
        BY <2>1, <2>3 DEF UpdateTerm
    <2>4. QED
        BY <2>2, <2>3
<1>2. PICK kind \in {"academic-term.create", "academic-term.update"}, r \in Terms : \E new :
         /\ TermsValid([db EXCEPT ![r] = new], There(Terms) \cup {r})
         /\ Change(w, kind, Only(r, new), "audit")
    BY <1>1
<1>3. PICK new : /\ TermsValid([db EXCEPT ![r] = new], There(Terms) \cup {r})
                 /\ Change(w, kind, Only(r, new), "audit")
    BY <1>2
<1>4. r \in Rows /\ kind \notin Busting /\ r \notin Shown
    BY TablesApart, TablesDiffer DEF Busting
<1>5. \A q \in Rows : With(r, new)[q] = (IF q = r THEN new ELSE db[q])
                       /\ [db EXCEPT ![r] = new][q] = With(r, new)[q]
    BY <1>4 DEF With, IInv, Typed, TypeOK
<1>6. \A p, q \in Terms : With(r, new)[p].there /\ With(r, new)[q].there /\ p # q =>
          /\ With(r, new)[p].key # With(r, new)[q].key
          /\ ~Overlap(With(r, new)[p].mark, With(r, new)[q].mark)
    <2> SUFFICES ASSUME NEW p \in Terms, NEW q \in Terms, With(r, new)[p].there,
                        With(r, new)[q].there, p # q
                 PROVE  /\ With(r, new)[p].key # With(r, new)[q].key
                        /\ ~Overlap(With(r, new)[p].mark, With(r, new)[q].mark)
        OBVIOUS
    <2>1. p \in There(Terms) \cup {r} /\ q \in There(Terms) \cup {r} /\ p \in Rows /\ q \in Rows
        BY <1>5, TablesApart DEF There
    <2>2. QED
        BY <1>3, <1>5, <2>1 DEF TermsValid
<1>7. Legal(With(r, new), db)
    BY <1>5, <1>6, TablesApart, TablesDiffer DEF Legal, SerialInv
<1>8. QED
    BY <1>3, <1>4, <1>7, ChangeOneTurns

\* The fields of a question are assigned, and nothing else is.
LEMMA UpdateQuestionTurns ==
    ASSUME IInv, IInv', SerialInv, Serial, NEW w \in Workers, UpdateQuestion(w)
    PROVE  SerialInv'
<1>1. PICK q \in There(Questions), s \in Subjects, t \in Topics \cup {None},
           text \in Keys["Question"] :
           LET row == [db[q] EXCEPT !.owner = s, !.parent = t, !.key = text]
           IN /\ Begin(w, "question.update", [rows |-> {q}, audit |-> "none", row |-> row], "validate")
              /\ Put(w, Only(q, row))
              /\ UNCHANGED db /\ Quiet
    BY DEF UpdateQuestion
<1> DEFINE row == [db[q] EXCEPT !.owner = s, !.parent = t, !.key = text]
           values == [rows |-> {q}, audit |-> "none", row |-> row]
           V == Only(q, row)
<1>2. Begin(w, "question.update", values, "validate") /\ Put(w, V) /\ UNCHANGED <<db, cache, mix>>
    BY <1>1 DEF Quiet, world
<1>3. DOMAIN values = {"rows", "audit", "row"} /\ values.row = row
    OBVIOUS
<1>4. DOMAIN V = {q} /\ V[q] = row
    BY OnlyIs
<1> HIDE DEF row, values, V
<1>5. /\ Dirty(w) = {} /\ \A r : See(w, r) = db[r]
      /\ at'[w] = "validate" /\ \A v \in Workers \ {w} : at'[v] = at[v]
      /\ job'[w].kind = "question.update" /\ job'[w].row = row
    BY <1>2, <1>3, BeginEffect
<1>6. \A r \in Rows : Written(w)'[r] = IF r = q THEN row ELSE db[r]
    BY <1>2, <1>4, <1>5, PutWrites
<1>7. q \in Questions /\ q \in Rows
    BY TablesApart DEF There
<1>8. Awaits(w)'
    BY <1>2, <1>5, <1>6, <1>7 DEF Awaits
<1>9. Drops(w)'
    BY <1>5 DEF Drops, Busting
<1>10. Turn(w)'
    BY <1>5, <1>8, <1>9 DEF Turn
<1>11. QED
    BY <1>2, <1>5, <1>10, Alone, TurnTaken

\* A request begins with a list, and has not assigned yet.
LEMMA BeginTurns ==
    ASSUME IInv, IInv', SerialInv, Serial, NEW w \in Workers, NEW kind, NEW values,
           NEW step \in {"audit", "each", "import", "store"}, Begin(w, kind, values, step),
           "kind" \notin DOMAIN values, "rows" \in DOMAIN values, UNCHANGED <<db, tx, mix>>,
           kind \notin Busting => values.rows \cap Shown = {},
           step = "store" => "payload" \in DOMAIN values /\ values.payload = Catalogue(db)
    PROVE  SerialInv'
<1>1. /\ Holds(w) = {} /\ Dirty(w) = {} /\ \A r : See(w, r) = db[r]
      /\ at'[w] = step /\ \A v \in Workers \ {w} : at'[v] = at[v]
      /\ job'[w].kind = kind /\ job'[w].rows = values.rows
      /\ step = "store" => job'[w].payload = Catalogue(db)
    BY BeginEffect
<1>2. Holds(w)' = {} /\ Dirty(w)' = {} /\ Written(w)' = Written(w)
    BY <1>1, StillWrites
<1>3. \A r \in Rows : Written(w)[r] = db[r]
    BY <1>1, WrittenIs
<1>4. Legal(Written(w)', db')
    BY <1>2, <1>3, LegalLess DEF SerialInv
<1>5. Catalogue(db)' = Catalogue(db)
    BY DEF Catalogue
<1>6. Drops(w)'
    BY <1>1, <1>2, <1>5 DEF Drops
<1>7. Turn(w)'
    BY <1>1, <1>4, <1>6, LegalPrime DEF Turn
<1>8. QED
    BY <1>1, <1>7, Alone, TurnTaken

LEMMA RemovesTurn ==
    ASSUME IInv, IInv', SerialInv, Serial, NEW w \in Workers,
           \/ DeleteSubject(w) \/ DeleteCurriculum(w) \/ DeleteTopic(w) \/ DeleteMaterial(w)
           \/ DeleteTerm(w) \/ DeleteStudent(w)
    PROVE  SerialInv'
<1>1. \E kind \in Removals, r \in Rows :
         /\ Remove(w, kind, r)
         /\ kind \notin Busting => r \notin Shown
    <2>1. CASE DeleteSubject(w)
        BY <2>1, TablesApart DEF DeleteSubject, There, Removals, Busting
    <2>2. CASE DeleteCurriculum(w)
        BY <2>2, TablesApart, TablesDiffer DEF DeleteCurriculum, There, Removals
    <2>3. CASE DeleteTopic(w)
        BY <2>3, TablesApart, TablesDiffer DEF DeleteTopic, There, Removals
    <2>4. CASE DeleteMaterial(w)
        BY <2>4, TablesApart, TablesDiffer DEF DeleteMaterial, There, Removals
    <2>5. CASE DeleteTerm(w)
        BY <2>5, TablesApart, TablesDiffer DEF DeleteTerm, There, Removals
    <2>6. CASE DeleteStudent(w)
        BY <2>6, TablesApart, TablesDiffer DEF DeleteStudent, There, Removals
    <2>7. QED
        BY <2>1, <2>2, <2>3, <2>4, <2>5, <2>6
<1>2. PICK kind \in Removals, r \in Rows :
         /\ Remove(w, kind, r)
         /\ kind \notin Busting => r \notin Shown
    BY <1>1
<1> DEFINE values == [rows |-> {r}, audit |-> "none"]
<1>3. Begin(w, kind, values, "audit") /\ UNCHANGED <<db, tx, mix>>
    BY <1>2 DEF Remove, Quiet, world
<1>4. DOMAIN values = {"rows", "audit"} /\ values.rows = {r}
    OBVIOUS
<1> HIDE DEF values
<1>5. QED
    BY <1>2, <1>3, <1>4, BeginTurns

LEMMA ListsTurn ==
    ASSUME IInv, IInv', SerialInv, Serial, NEW w \in Workers,
           DeleteQuestions(w) \/ ImportQuestions(w) \/ ListSubjects(w)
    PROVE  SerialInv'
<1>1. \E kind, values : \E step \in {"each", "import", "store"} :
         /\ Begin(w, kind, values, step) /\ UNCHANGED <<db, tx, mix>>
         /\ "kind" \notin DOMAIN values /\ "rows" \in DOMAIN values /\ values.rows = {}
         /\ step = "store" => "payload" \in DOMAIN values /\ values.payload = Catalogue(db)
    <2>1. CASE DeleteQuestions(w)
        <3>1. PICK ids : /\ Begin(w, "question.delete", [rows |-> {}, audit |-> "none", left |-> ids], "each")
                         /\ UNCHANGED <<db, tx, mix>>
            BY <2>1 DEF DeleteQuestions, Quiet, world
        <3>2. QED
            BY <3>1
    <2>2. CASE ImportQuestions(w)
        <3>1. PICK n, skip :
                 /\ Begin(w, "question.import",
                          [rows |-> {}, audit |-> "none", left |-> n, skip |-> skip], "import")
                 /\ UNCHANGED <<db, tx, mix>>
            BY <2>2 DEF ImportQuestions, Quiet, world
        <3>2. QED
            BY <3>1
    <2>3. CASE ListSubjects(w)
        BY <2>3 DEF ListSubjects, Quiet, world
    <2>4. QED
        BY <2>1, <2>2, <2>3
<1>2. QED
    BY <1>1, BeginTurns

\* The question agrees with its topic, as the session sees it.
LEMMA ValidateTurns ==
    ASSUME IInv, IInv', SerialInv, Serial, NEW w \in Workers, Validate(w)
    PROVE  SerialInv'
<1>1. /\ at[w] = "validate" /\ Dirty(w) = {} /\ at' = [at EXCEPT ![w] = "audit"]
      /\ UNCHANGED <<db, tx, job, cache, mix>>
      /\ job[w].row.parent # None => /\ See(w, job[w].row.parent).there
                                     /\ See(w, job[w].row.parent).owner = job[w].row.owner
    BY DEF Validate, Flushing, Goto, Quiet, world
<1>2. at'[w] = "audit" /\ \A v \in Workers \ {w} : at'[v] = at[v]
    BY <1>1 DEF IInv, Typed
<1>3. Holds(w)' = Holds(w) /\ Dirty(w)' = Dirty(w) /\ Written(w)' = Written(w)
    BY <1>1, StillWrites
<1>4. Awaits(w) /\ Drops(w)
    BY <1>1 DEF SerialInv, Turn
<1>5. PICK q \in Questions : /\ Written(w)[q] = job[w].row
                             /\ \A r \in Rows \ {q} : Written(w)[r] = db[r]
    BY <1>4 DEF Awaits
<1>6. q \in Rows /\ \A r \in Rows : Written(w)[r] = See(w, r)
    BY <1>1, TablesApart, WrittenIs
<1>7. ASSUME job[w].row.there, job[w].row.parent # None
      PROVE  db[job[w].row.parent].used /\ db[job[w].row.parent].owner = job[w].row.owner
    <2>1. job[w].row \in RowOf(q)
        BY <1>5, <1>6, SeeRow
    <2>2. job[w].row.parent \in Topics
        BY <1>5, <1>6, <1>7, <2>1, RowColumns, TableColumns
    <2>3. /\ job[w].row.parent \in Rows /\ job[w].row.parent # q
          /\ See(w, job[w].row.parent) = db[job[w].row.parent]
        BY <1>5, <1>6, <2>2, TablesApart, TableColumns
    <2>4. QED
        BY <1>1, <1>7, <2>3, SeeRow, RowColumns
<1>8. Legal(Written(w), db)
    BY <1>5, <1>6, <1>7, TablesApart, TablesDiffer DEF Legal, SerialInv
<1>9. Drops(w)'
    BY <1>1, <1>2, <1>3, <1>4 DEF Drops
<1>10. Turn(w)'
    BY <1>1, <1>2, <1>3, <1>8, <1>9, LegalPrime DEF Turn
<1>11. QED
    BY <1>1, <1>2, <1>10, TurnTaken

LEMMA StoreTurns ==
    ASSUME IInv, IInv', SerialInv, Serial, NEW w \in Workers, StoreSubjects(w)
    PROVE  SerialInv'
<1>1. /\ at[w] = "store" /\ at' = [at EXCEPT ![w] = "commit"] /\ UNCHANGED <<db, tx, job, mix>>
    BY DEF StoreSubjects, Goto
<1>2. at'[w] = "commit" /\ \A v \in Workers \ {w} : at'[v] = at[v]
    BY <1>1 DEF IInv, Typed
<1>3. Holds(w)' = Holds(w) /\ Dirty(w)' = Dirty(w) /\ Written(w)' = Written(w)
    BY <1>1, StillWrites
<1>4. Legal(Written(w), db) /\ Drops(w) /\ job[w].kind = "list"
    BY <1>1 DEF SerialInv, Turn, IInv, Job
<1>5. Drops(w)'
    BY <1>1, <1>2, <1>3, <1>4 DEF Drops, Busting
<1>6. Turn(w)'
    BY <1>1, <1>2, <1>3, <1>4, <1>5, LegalPrime DEF Turn
<1>7. QED
    BY <1>1, <1>2, <1>6, TurnTaken

\* A row that is deleted agrees.
LEMMA DeleteOneTurns ==
    ASSUME IInv, IInv', SerialInv, Serial, NEW w \in Workers, DeleteOne(w)
    PROVE  SerialInv'
<1>1. /\ at[w] = "each" /\ Dirty(w) = {} /\ UNCHANGED <<db, cache, mix>>
    BY DEF DeleteOne, Flushing, Quiet, world
<1>2. PICK q \in job[w].left :
          LET deletes == Deletable(w, q)
              rows == IF deletes THEN job[w].rows \cup {q} ELSE job[w].rows
              left == job[w].left \ {q}
          IN /\ IF deletes THEN Put(w, Only(q, Gone(See(w, q)))) ELSE UNCHANGED tx
             /\ Keep(w, [job[w] EXCEPT !.rows = rows, !.left = left])
             /\ Goto(w, IF left # {} THEN "each" ELSE IF rows = {} THEN "commit" ELSE "audit")
    BY DEF DeleteOne
<1> DEFINE deletes == Deletable(w, q)
           rows == IF deletes THEN job[w].rows \cup {q} ELSE job[w].rows
<1>3. /\ Job(w) /\ job[w].kind = "question.delete" /\ job[w].left \subseteq Questions
      /\ {"kind", "rows", "audit", "left"} \subseteq DOMAIN job[w]
    BY <1>1 DEF IInv, Job
<1>4. q \in Questions /\ q \in Rows
    BY <1>3, TablesApart
<1>5. /\ \A v \in Workers \ {w} : at'[v] = at[v]
      /\ at'[w] \in {"each", "audit"} \/ (at'[w] = "commit" /\ rows = {})
      /\ job'[w] = [job[w] EXCEPT !.rows = rows, !.left = job[w].left \ {q}]
    BY <1>2 DEF Keep, Goto, IInv, Typed
<1>6. job'[w].kind = "question.delete" /\ job'[w].rows = rows
    BY <1>3, <1>5
<1>7. Drops(w) /\ Legal(Written(w), db)
    BY <1>1 DEF SerialInv, Turn
<1>8. \A r \in Rows : Written(w)[r] = See(w, r)
    BY <1>1, WrittenIs
<1>9. CASE deletes
    <2> DEFINE V == Only(q, Gone(See(w, q)))
    <2>1. Put(w, V) /\ q \in rows
        BY <1>2, <1>9
    <2>2. DOMAIN V = {q} /\ ~V[q].there
        <3>1. See(w, q) \in RowOf(q) /\ See(w, q).used
            BY <1>4, <1>9, SeeRow, RowColumns DEF Deletable
        <3>2. ~Gone(See(w, q)).there
            BY <1>4, <3>1, GoneRow
        <3>3. QED
            BY <3>2, OnlyIs
    <2> HIDE DEF V, rows
    <2>3. \A r \in Rows : Written(w)'[r] = IF r = q THEN V[r] ELSE See(w, r)
        BY <1>1, <2>1, <2>2, PutWrites
    <2>4. Legal(Written(w)', db')
        BY <1>1, <1>7, <1>8, <2>2, <2>3, LegalLess
    <2>5. Drops(w)'
        BY <1>5, <1>6, <2>1 DEF Drops, Busting
    <2>6. Turn(w)'
        BY <1>5, <2>4, <2>5, LegalPrime DEF Turn
    <2>7. QED
        BY <1>1, <1>5, <2>6, TurnTaken
<1>10. CASE ~deletes
    <2>1. UNCHANGED tx /\ rows = job[w].rows
        BY <1>2, <1>10
    <2> HIDE DEF rows
    <2>2. Holds(w)' = Holds(w) /\ Dirty(w)' = Dirty(w) /\ Written(w)' = Written(w)
        BY <1>1, <2>1, StillWrites
    <2>3. Drops(w)'
        BY <1>1, <1>5, <1>6, <1>7, <2>1, <2>2 DEF Drops, Busting
    <2>4. Turn(w)'
        BY <1>1, <1>5, <1>7, <2>2, <2>3, LegalPrime DEF Turn
    <2>5. QED
        BY <1>1, <1>5, <2>4, TurnTaken
<1>11. QED
    BY <1>9, <1>10

LEMMA ImportRowTurns ==
    ASSUME IInv, IInv', SerialInv, Serial, NEW w \in Workers, ImportRow(w)
    PROVE  SerialInv'
<1>1. /\ at[w] = "import" /\ Dirty(w) = {} /\ UNCHANGED <<db, cache, mix>>
    BY DEF ImportRow, Flushing, Quiet, world
<1>2. /\ job[w].kind = "question.import" /\ {"kind", "rows", "audit"} \subseteq DOMAIN job[w]
      /\ Drops(w) /\ Legal(Written(w), db)
    BY <1>1 DEF IInv, Job, SerialInv, Turn
<1>3. ASSUME NEW rows, Imported(w, rows)
      PROVE  /\ \A v \in Workers \ {w} : at'[v] = at[v]
             /\ job'[w].kind = "question.import" /\ job'[w].rows = rows
             /\ at'[w] \in {"import", "audit"} \/ (at'[w] = "commit" /\ rows = {})
    <2>1. /\ job' = [job EXCEPT ![w] = [job[w] EXCEPT !.rows = rows, !.left = @ - 1]]
          /\ \E step \in {"import", "commit", "audit"} :
                at' = [at EXCEPT ![w] = step] /\ (step = "commit" => rows = {})
        BY <1>3 DEF Imported, Keep, Goto
    <2>2. DOMAIN at = Workers /\ DOMAIN job = Workers
        BY DEF IInv, Typed
    <2>3. QED
        BY <1>2, <2>1, <2>2
<1>4. CASE Imported(w, job[w].rows) /\ UNCHANGED tx
    <2>1. Holds(w)' = Holds(w) /\ Dirty(w)' = Dirty(w) /\ Written(w)' = Written(w)
        BY <1>1, <1>4, StillWrites
    <2>2. Drops(w)'
        BY <1>1, <1>2, <1>3, <1>4, <2>1 DEF Drops, Busting
    <2>3. Turn(w)'
        BY <1>1, <1>2, <1>3, <1>4, <2>1, <2>2, LegalPrime DEF Turn
    <2>4. QED
        BY <1>1, <1>3, <1>4, <2>3, TurnTaken
<1>5. CASE ~(Imported(w, job[w].rows) /\ UNCHANGED tx)
    <2>1. PICK s \in There(Subjects), text \in Keys["Question"] :
              \E t \in TopicsOf(s) : \E q \in Fresh(Questions) :
                 /\ Put(w, Only(q, New(s, t, text, None)))
                 /\ Imported(w, job[w].rows \cup {q})
        BY <1>5 DEF ImportRow
    <2>2. PICK t \in TopicsOf(s) : \E q \in Fresh(Questions) :
                 /\ Put(w, Only(q, New(s, t, text, None)))
                 /\ Imported(w, job[w].rows \cup {q})
        BY <2>1
    <2>3. PICK q \in Fresh(Questions) :
                 /\ Put(w, Only(q, New(s, t, text, None)))
                 /\ Imported(w, job[w].rows \cup {q})
        BY <2>2
    <2> DEFINE new == New(s, t, text, None)
               V == Only(q, new)
    <2>4. q \in Questions /\ q \in Rows /\ new.owner = s /\ new.parent = t
        BY FreshRow, TablesApart DEF New
    <2> HIDE DEF new
    <2>5. DOMAIN V = {q} /\ V[q] = new
        BY OnlyIs
    <2>6. Put(w, V)
        BY <2>3 DEF new
    <2> HIDE DEF V
    <2>7. \A r \in Rows : Written(w)'[r] = IF r = q THEN new ELSE Written(w)[r]
        BY <1>1, <2>5, <2>6, PutWrites, WrittenIs
    <2>8. new.parent # None => db[new.parent].used /\ db[new.parent].owner = new.owner
        BY <2>4, TopicOf
    <2>9. Legal(Written(w)', db')
        BY <1>1, <1>2, <2>4, <2>7, <2>8, TablesApart, TablesDiffer DEF Legal
    <2>10. /\ \A v \in Workers \ {w} : at'[v] = at[v]
           /\ job'[w].kind = "question.import" /\ job'[w].rows = job[w].rows \cup {q}
           /\ at'[w] \in {"import", "audit"}
        BY <1>3, <2>3
    <2>11. Drops(w)'
        BY <2>10 DEF Drops, Busting
    <2>12. Turn(w)'
        BY <2>9, <2>10, <2>11, LegalPrime DEF Turn
    <2>13. QED
        BY <1>1, <2>10, <2>12, TurnTaken
<1>6. QED
    BY <1>4, <1>5

\* The removal, and the catalogue that is dropped.
LEMMA AuditTurns ==
    ASSUME IInv, IInv', SerialInv, Serial, NEW w \in Workers, Audit(w)
    PROVE  SerialInv'
<1>1. /\ at[w] = "audit" /\ Dirty(w) = {} /\ UNCHANGED <<db, mix>>
      /\ at' = [at EXCEPT ![w] = "commit"]
      /\ cache' = IF job[w].kind \in Busting THEN [cache EXCEPT ![Home[w]] = None] ELSE cache
    BY DEF Audit, Flushing, Goto
<1>2. PICK audit \in {"written", "logged"} :
          job' = [job EXCEPT ![w] =
                    IF job[w].kind \in Deletions THEN [job[w] EXCEPT !.audit = audit] ELSE job[w]]
    BY DEF Audit, Keep
<1>3. {"kind", "rows", "audit"} \subseteq DOMAIN job[w] /\ job[w].rows \subseteq Rows
    BY <1>1 DEF IInv, Job
<1>4. at'[w] = "commit" /\ \A v \in Workers \ {w} : at'[v] = at[v]
    BY <1>1 DEF IInv, Typed
<1>5. job'[w] = IF job[w].kind \in Deletions THEN [job[w] EXCEPT !.audit = audit] ELSE job[w]
    BY <1>2 DEF IInv, Typed
<1>6. job'[w].kind = job[w].kind /\ job'[w].rows = job[w].rows
    BY <1>3, <1>5
<1>7. job[w].kind \in Busting => cache'[Home[w]] = None
    BY <1>1, ConsoleAssumption DEF IInv, Typed, TypeOK
<1>8. Drops(w) /\ Legal(Written(w), db)
    BY <1>1 DEF SerialInv, Turn
<1>9. Holds(w)' = Holds(w) /\ Dirty(w)' \subseteq job[w].rows /\ Legal(Written(w)', db')
    <2>1. CASE job[w].kind \in Removals
        <3> DEFINE V == [r \in job[w].rows |-> Gone(See(w, r))]
        <3>1. Put(w, V)
            BY <2>1 DEF Audit
        <3>2. DOMAIN V = job[w].rows /\ \A r \in job[w].rows : V[r] = Gone(See(w, r))
            OBVIOUS
        <3> HIDE DEF V
        <3>3. /\ Holds(w)' = Holds(w) /\ Dirty(w)' \subseteq DOMAIN V
              /\ \A r \in Rows : Written(w)'[r] = IF r \in DOMAIN V THEN V[r] ELSE See(w, r)
            BY <1>1, <3>1, PutWrites
        <3>4. tx[w] = Closed /\ \A r \in job[w].rows : db[r].used
            BY <1>1, <2>1 DEF IInv, Job
        <3>5. ASSUME NEW r \in job[w].rows PROVE ~V[r].there
            <4>1. r \in Rows /\ See(w, r) \in RowOf(r) /\ See(w, r).used
                BY <1>3, <3>4, SeeRow
            <4>2. QED
                BY <3>2, <4>1, GoneRow
        <3>6. \A r \in Rows : Written(w)'[r].there => Written(w)'[r] = Written(w)[r]
            BY <1>1, <3>2, <3>3, <3>5, WrittenIs
        <3>7. QED
            BY <1>1, <1>8, <3>2, <3>3, <3>6, LegalLess
    <2>2. CASE job[w].kind \notin Removals
        <3>1. UNCHANGED tx
            BY <2>2 DEF Audit
        <3>2. QED
            BY <1>1, <1>8, <3>1, StillWrites
    <2>3. QED
        BY <2>1, <2>2
<1>10. Drops(w)'
    BY <1>4, <1>6, <1>7, <1>8, <1>9 DEF Drops
<1>11. Turn(w)'
    BY <1>4, <1>9, <1>10, LegalPrime DEF Turn
<1>12. QED
    BY <1>1, <1>4, <1>11, TurnTaken

\* Where nothing is deleted nothing is swept; and what is swept is not listed.
LEMMA Sweeps ==
    ASSUME NEW w \in Workers
    PROVE  /\ Deleted(w) = {} => Sweep(w) = {}
           /\ Sweep(w) \cap Shown \subseteq Dirty(w)
<1>1. Deleted(w) = {} => Sweep(w) = {}
    BY DEF Sweep, Swept
<1>2. Sweep(w) \cap Shown \subseteq Deleted(w)
    BY TablesDiffer DEF Sweep, Swept, Owns
<1>3. QED
    BY <1>1, <1>2 DEF Deleted

LEMMA FlushTurns ==
    ASSUME IInv, IInv', SerialInv, Serial, NEW w \in Workers, FlushRows(w)
    PROVE  SerialInv'
<1>1. /\ UNCHANGED <<db, at, job, cache, mix>> /\ ~Conflicts(w)
      /\ Holds(w)' = Reach(w) /\ Dirty(w)' = {} /\ \A r \in Rows : See(w, r)' = After(w)[r]
    BY FlushEffect DEF Flushes
<1>2. at[w] # "commit" /\ Dirty(w) # {}
    BY DEF FlushRows, Flushing
<1>3. at[w] # "idle"
    BY <1>2 DEF IInv, Job, Closed, Dirty
<1>4. \A r \in Rows : Written(w)'[r] = After(w)[r]
    BY <1>1 DEF Written
<1>5. \A r \in Rows : After(w)[r].there => After(w)[r] = Written(w)[r]
    BY <1>1, AfterRow
<1>6. Drops(w)
    BY <1>3 DEF SerialInv, Turn
<1>7. Drops(w)'
    <2>1. Catalogue(db)' = Catalogue(db)
        BY <1>1 DEF Catalogue
    <2>2. job[w].kind \notin Busting => Holds(w)' \cap Shown = {}
        BY <1>1, <1>6, Sweeps DEF Drops, Reach
    <2>3. QED
        BY <1>1, <1>2, <1>6, <2>1, <2>2 DEF Drops
<1>8. CASE at[w] = "validate"
    <2>1. job[w].kind \notin Deletions
        BY <1>8 DEF IInv, Job, Deletions, Removals
    <2>2. Deleted(w) = {}
        BY <2>1, SweepIs, WrittenRow DEF Deletes
    <2>3. \A r \in Rows : Written(w)'[r] = Written(w)[r]
        BY <1>4, <2>2, Sweeps, AfterIs
    <2>4. Awaits(w)
        BY <1>8 DEF SerialInv, Turn
    <2>5. Awaits(w)'
        BY <1>1, <2>3, <2>4, TablesApart DEF Awaits
    <2>6. Turn(w)'
        BY <1>1, <1>7, <1>8, <2>5 DEF Turn
    <2>7. QED
        BY <1>1, <1>3, <2>6, TurnTaken
<1>9. CASE at[w] # "validate"
    <2>1. Legal(Written(w), db)
        BY <1>3, <1>9 DEF SerialInv, Turn
    <2>2. Legal(Written(w)', db')
        BY <1>1, <1>4, <1>5, <2>1, LegalLess
    <2>3. Turn(w)'
        BY <1>1, <1>7, <1>9, <2>2, LegalPrime DEF Turn
    <2>4. QED
        BY <1>1, <1>3, <2>3, TurnTaken
<1>10. QED
    BY <1>8, <1>9

LEMMA RollbackTurns ==
    ASSUME IInv, IInv', SerialInv, Serial, NEW w \in Workers, Rollback(w)
    PROVE  SerialInv'
<1>1. at[w] # "idle" /\ Ended(w) /\ UNCHANGED <<db, mix>>
    BY DEF Rollback, RollbackSession, Quiet, world
<1>2. at'[w] = "idle" /\ \A v \in Workers \ {w} : at'[v] = at[v]
    BY <1>1, EndedEffect DEF EndedOf, Others
<1>3. QED
    BY <1>1, <1>2, TurnTaken DEF Turn

\* What was written is stored: a topic keeps its subject.
LEMMA CommitTurns ==
    ASSUME IInv, IInv', SerialInv, Serial, NEW w \in Workers, CommitRows(w)
    PROVE  SerialInv'
<1>1. /\ at[w] = "commit" /\ ~Conflicts(w) /\ db' = After(w) /\ Over(db, Reach(w), db')
      /\ at'[w] = "idle" /\ \A v \in Workers \ {w} : at'[v] = at[v]
      /\ UNCHANGED mix /\ \A r \in Rows : db[r].used => db'[r].used
    BY CommitEffect DEF EndedOf, Others
<1>2. \A v \in Workers : at'[v] = "idle"
    BY <1>1 DEF SerialInv, InTurn
<1>3. Legal(Written(w), db)
    BY <1>1 DEF SerialInv, Turn
<1>4. Legal(db', db)
    BY <1>1, <1>3, AfterRow, LegalLess
<1>5. ASSUME NEW q \in Questions, db'[q].there, db'[q].parent # None
      PROVE  db'[db'[q].parent].used /\ db'[db'[q].parent].owner = db'[q].owner
    <2>1. q \in Rows /\ db'[q] \in RowOf(q)
        BY <1>1, TablesApart DEF Over
    <2>2. db'[q].parent \in Topics
        BY <1>5, <2>1, RowColumns, TableColumns
    <2>3. db'[q].parent \in Rows /\ db'[q].parent \notin Questions
        BY <2>2, TablesApart, TableColumns
    <2>4. db[db'[q].parent].used /\ db[db'[q].parent].owner = db'[q].owner
        BY <1>4, <1>5 DEF Legal
    <2>5. QED
        BY <1>1, <2>3, <2>4 DEF Over, Fixed
<1>6. Legal(db', db')
    BY <1>4, <1>5 DEF Legal
<1>7. QED
    BY <1>2, <1>6, LegalPrime DEF SerialInv, InTurn, Turn

\* Only these change what is stored or what a process keeps, and none changes what meets.
Still == UNCHANGED <<db, cache>>

LEMMA StepsStill ==
    ASSUME Next
    PROVE  /\ UNCHANGED mix
           /\ \/ Still
              \/ \E p \in Procs : Expire(p)
              \/ \E w \in Workers : Audit(w) \/ StoreSubjects(w) \/ CommitRows(w)
<1>1. CASE \E p \in Procs : Expire(p)
    BY <1>1 DEF Expire
<1>2. ASSUME NEW w \in Workers, Audit(w) \/ StoreSubjects(w) \/ CommitRows(w)
      PROVE  UNCHANGED mix
    BY <1>2 DEF Audit, StoreSubjects, CommitRows
<1>3. \A w, kind, values, step : Change(w, kind, values, step) => Still /\ UNCHANGED mix
    BY DEF Change, Quiet, world, Still
<1>4. \A w, kind, r : Remove(w, kind, r) => Still /\ UNCHANGED mix
    BY DEF Remove, Quiet, world, Still
<1>5. ASSUME NEW w \in Workers,
             \/ CreateSubject(w) \/ UpdateSubject(w) \/ CreateCurriculum(w) \/ UpdateCurriculum(w)
             \/ CreateTopic(w) \/ UpdateTopic(w) \/ ImportLesson(w)
             \/ CreateMaterial(w) \/ UpdateMaterial(w) \/ CreateQuestion(w)
             \/ CreateTerm(w) \/ UpdateTerm(w)
             \/ UpdateStudent(w) \/ CreateAdmin(w) \/ SetAdminStatus(w) \/ DoWork(w)
      PROVE  Still /\ UNCHANGED mix
    BY <1>3, <1>5, Zenon DEF CreateSubject, UpdateSubject, CreateCurriculum, UpdateCurriculum,
       CreateTopic, UpdateTopic, ImportLesson, CreateMaterial, UpdateMaterial, CreateQuestion,
       CreateTerm, UpdateTerm, UpdateStudent, CreateAdmin, SetAdminStatus, DoWork
<1>6. ASSUME NEW w \in Workers,
             \/ DeleteSubject(w) \/ DeleteCurriculum(w) \/ DeleteTopic(w)
             \/ DeleteMaterial(w) \/ DeleteTerm(w) \/ DeleteStudent(w)
      PROVE  Still /\ UNCHANGED mix
    BY <1>4, <1>6, Zenon DEF DeleteSubject, DeleteCurriculum, DeleteTopic, DeleteMaterial,
       DeleteTerm, DeleteStudent
<1>7. ASSUME NEW w \in Workers,
             \/ UpdateQuestion(w) \/ DeleteQuestions(w) \/ ImportQuestions(w) \/ ListSubjects(w)
             \/ Validate(w) \/ DeleteOne(w) \/ ImportRow(w) \/ Rollback(w) \/ FlushRows(w)
      PROVE  Still /\ UNCHANGED mix
    BY <1>7 DEF UpdateQuestion, DeleteQuestions, ImportQuestions, ListSubjects, Validate,
       DeleteOne, ImportRow, Rollback, RollbackSession, FlushRows, Quiet, world, Still
<1>8. QED
    BY <1>1, <1>2, <1>5, <1>6, <1>7, Zenon DEF Next

LEMMA SerialKept ==
    ASSUME IInv, IInv', SerialInv, Next
    PROVE  SerialInv'
<1>1. UNCHANGED mix
    BY StepsStill
<1>2. CASE ~Serial
    BY <1>1, <1>2 DEF SerialInv, Serial
<1>3. CASE Serial /\ \E p \in Procs : Expire(p)
    <2>1. PICK p \in Procs : /\ UNCHANGED <<db, tx, at, job, mix>>
                             /\ cache' = [cache EXCEPT ![p] = None]
        BY <1>3 DEF Expire, session
    <2>2. ASSUME NEW w \in Workers PROVE Turn(w)'
        <3>1. Turn(w)
            BY <1>3 DEF SerialInv
        <3>2. Holds(w)' = Holds(w) /\ Dirty(w)' = Dirty(w) /\ Written(w)' = Written(w)
            BY <2>1, StillWrites
        <3>3. Catalogue(db)' = Catalogue(db)
            BY <2>1 DEF Catalogue
        <3>4. cache[Home[w]] = None => cache'[Home[w]] = None
            BY <2>1, ConsoleAssumption DEF IInv, Typed, TypeOK
        <3>5. Drops(w) => Drops(w)'
            BY <2>1, <3>2, <3>3, <3>4 DEF Drops
        <3>6. Awaits(w) => Awaits(w)'
            BY <2>1, <3>2 DEF Awaits
        <3>7. QED
            BY <2>1, <3>1, <3>2, <3>5, <3>6, LegalPrime DEF Turn
    <2>3. InTurn' /\ Legal(db, db)'
        BY <1>3, <2>1, LegalPrime DEF SerialInv, InTurn
    <2>4. QED
        BY <2>2, <2>3 DEF SerialInv
<1>4. CASE Serial /\ ~\E p \in Procs : Expire(p)
    <2>1. PICK w \in Workers :
              \/ CreateSubject(w) \/ UpdateSubject(w) \/ DeleteSubject(w)
              \/ CreateCurriculum(w) \/ UpdateCurriculum(w) \/ DeleteCurriculum(w)
              \/ CreateTopic(w) \/ UpdateTopic(w) \/ DeleteTopic(w) \/ ImportLesson(w)
              \/ CreateMaterial(w) \/ UpdateMaterial(w) \/ DeleteMaterial(w)
              \/ CreateQuestion(w) \/ UpdateQuestion(w) \/ DeleteQuestions(w) \/ ImportQuestions(w)
              \/ CreateTerm(w) \/ UpdateTerm(w) \/ DeleteTerm(w)
              \/ UpdateStudent(w) \/ DeleteStudent(w) \/ CreateAdmin(w) \/ SetAdminStatus(w)
              \/ DoWork(w) \/ ListSubjects(w)
              \/ Validate(w) \/ DeleteOne(w) \/ ImportRow(w) \/ Audit(w) \/ StoreSubjects(w)
              \/ CommitRows(w) \/ Rollback(w) \/ FlushRows(w)
        BY <1>4 DEF Next
    <2>2. QED
        BY <1>4, <2>1, ElsewhereTurns, RemovesTurn, ImportLessonTurns, CreateQuestionTurns,
           UpdateQuestionTurns, ListsTurn, TermsTurn, ValidateTurns, DeleteOneTurns,
           ImportRowTurns, AuditTurns, StoreTurns, CommitTurns, RollbackTurns, FlushTurns
<1>5. QED
    BY <1>2, <1>3, <1>4

LEMMA SerialStutters ==
    ASSUME SerialInv, UNCHANGED vars
    PROVE  SerialInv' /\ (CacheInv => CacheInv')
<1>1. UNCHANGED <<db, tx, at, job, cache, mix>>
    BY DEF vars
<1>2. Catalogue(db)' = Catalogue(db)
    BY <1>1 DEF Catalogue
<1>3. ASSUME NEW w \in Workers, Turn(w) PROVE Turn(w)'
    <2>1. Holds(w)' = Holds(w) /\ Dirty(w)' = Dirty(w) /\ Written(w)' = Written(w)
        BY <1>1, StillWrites
    <2>2. (Drops(w) => Drops(w)') /\ (Awaits(w) => Awaits(w)')
        BY <1>1, <1>2, <2>1 DEF Drops, Awaits
    <2>3. QED
        BY <1>1, <1>3, <2>1, <2>2, LegalPrime DEF Turn
<1>4. QED
    BY <1>1, <1>2, <1>3, LegalPrime DEF SerialInv, CacheInv, Serial, InTurn

\* What a commit stores is listed as before, or nobody keeps a list.
LEMMA CommitCache ==
    ASSUME IInv, SerialInv, CacheInv, Serial, \A p, q \in Procs : p = q,
           NEW w \in Workers, CommitRows(w)
    PROVE  CacheInv'
<1>1. /\ at[w] = "commit" /\ UNCHANGED cache /\ \A r \in Rows \ Reach(w) : db'[r] = db[r]
    BY CommitEffect DEF Over
<1>2. Drops(w)
    BY <1>1 DEF SerialInv, Turn
<1>3. CASE Reach(w) \cap Shown = {}
    <2>1. \A r \in Shown : r \in Rows /\ db'[r] = db[r]
        BY <1>1, <1>3, TablesApart DEF Shown
    <2>2. Catalogue(db)' = Catalogue(db)
        BY <2>1 DEF Catalogue, Shown
    <2>3. QED
        BY <1>1, <2>2 DEF CacheInv
<1>4. CASE cache[Home[w]] = None
    <2>1. Home[w] \in Procs
        BY ConsoleAssumption
    <2>2. \A p \in Procs : cache'[p] = None
        BY <1>1, <1>4, <2>1
    <2>3. QED
        BY <2>2 DEF CacheInv
<1>5. (Holds(w) \cup Dirty(w)) \cap Shown = {} => Reach(w) \cap Shown = {}
    BY Sweeps DEF Reach
<1>6. QED
    BY <1>1, <1>2, <1>3, <1>4, <1>5 DEF Drops

LEMMA CacheKept ==
    ASSUME IInv, SerialInv, CacheInv, \A p, q \in Procs : p = q, Next
    PROVE  CacheInv'
<1>1. UNCHANGED mix
    BY StepsStill
<1>2. CASE ~Serial
    BY <1>1, <1>2 DEF CacheInv, Serial
<1>3. CASE Serial /\ Still
    <2>1. Catalogue(db)' = Catalogue(db)
        BY <1>3 DEF Catalogue, Still
    <2>2. QED
        BY <1>3, <2>1 DEF CacheInv, Still
<1>4. ASSUME Serial, UNCHANGED db, cache' \in [Procs -> {None} \cup Catalogues],
             \A p \in Procs : cache'[p] \in {cache[p], None, Catalogue(db)}
      PROVE  CacheInv'
    <2>1. Catalogue(db)' = Catalogue(db)
        BY <1>4 DEF Catalogue
    <2>2. QED
        BY <1>4, <2>1 DEF CacheInv
<1>5. CASE Serial /\ \E p \in Procs : Expire(p)
    BY <1>4, <1>5 DEF Expire, IInv, Typed, TypeOK, Catalogues
<1>6. ASSUME Serial, NEW w \in Workers, Audit(w) PROVE CacheInv'
    BY <1>4, <1>6 DEF Audit, IInv, Typed, TypeOK, Catalogues
<1>7. ASSUME Serial, NEW w \in Workers, StoreSubjects(w) PROVE CacheInv'
    <2>1. /\ at[w] = "store" /\ UNCHANGED db
          /\ cache' = [cache EXCEPT ![Home[w]] = job[w].payload]
        BY <1>7 DEF StoreSubjects
    <2>2. job[w].payload = Catalogue(db)
        BY <1>7, <2>1 DEF SerialInv, Turn, Drops
    <2>3. QED
        BY <1>4, <1>7, <2>1, <2>2, CatalogueTyped DEF IInv, Typed, TypeOK, Catalogues
<1>8. QED
    BY <1>2, <1>3, <1>5, <1>6, <1>7, StepsStill, CommitCache

LEMMA SerialStarts ==
    ASSUME Init, \A rows \in Starts : Legal(rows, rows)
    PROVE  SerialInv /\ CacheInv
<1>1. /\ db \in Starts /\ at = [w \in Workers |-> "idle"] /\ cache = [p \in Procs |-> None]
    BY DEF Init, RequestsInit
<1>2. QED
    BY <1>1 DEF SerialInv, CacheInv, InTurn, Turn

\* What is legal is what the run checks.
LEMMA LegalIs ==
    ASSUME IInv, Legal(db, db)
    PROVE  QuestionTopics /\ TermsDisjoint /\ OneLesson
<1>1. QuestionTopics
    BY DEF Legal, QuestionTopics, There
<1>2. TermsDisjoint
    BY DEF Legal, TermsDisjoint, TermsValid, There
<1>3. OneLesson
    BY DEF Legal, OneLesson, LessonsOf, There
<1>4. QED
    BY <1>1, <1>2, <1>3

\* One request at a time, from a database where they hold: a question's topic is of its
\* subject, academic terms do not overlap, a topic has one lesson (console.py), whatever
\* number of processes there are.
THEOREM SerialRows ==
    ASSUME \A rows \in Starts : Legal(rows, rows)
    PROVE  Spec => []("serial" \in mix => QuestionTopics /\ TermsDisjoint /\ OneLesson)
<1> DEFINE Inv == IInv /\ SerialInv
<1>1. Init => Inv
    BY InitIsSound, SerialStarts
<1>2. Inv /\ [Next]_vars => Inv'
    <2>1. ASSUME Inv, Next PROVE Inv'
        BY <2>1, NextKeeps, SerialKept
    <2>2. ASSUME Inv, UNCHANGED vars PROVE Inv'
        BY <2>2, StutterKeeps, SerialStutters
    <2>3. QED
        BY <2>1, <2>2
<1>3. Inv => ("serial" \in mix => QuestionTopics /\ TermsDisjoint /\ OneLesson)
    BY LegalIs DEF SerialInv, Serial
<1> HIDE DEF Inv
<1>4. QED
    BY <1>1, <1>2, <1>3, PTL DEF Spec

\* With one process, it also lists the subjects and questions as they are stored whenever
\* nothing is under way (catalogue.py).
THEOREM SerialIsSound ==
    ASSUME \A rows \in Starts : Legal(rows, rows), \A p, q \in Procs : p = q
    PROVE  Spec => []SerialSound
<1> DEFINE Inv == IInv /\ SerialInv /\ CacheInv
<1>1. Init => Inv
    BY InitIsSound, SerialStarts
<1>2. Inv /\ [Next]_vars => Inv'
    <2>1. ASSUME Inv, Next PROVE Inv'
        BY <2>1, NextKeeps, SerialKept, CacheKept
    <2>2. ASSUME Inv, UNCHANGED vars PROVE Inv'
        BY <2>2, StutterKeeps, SerialStutters
    <2>3. QED
        BY <2>1, <2>2
<1>3. Inv => SerialSound
    <2> SUFFICES ASSUME Inv, Serial
                 PROVE  QuestionTopics /\ TermsDisjoint /\ OneLesson /\ CatalogueCurrent
        BY DEF SerialSound, Serial
    <2>1. QuestionTopics /\ TermsDisjoint /\ OneLesson
        BY LegalIs DEF SerialInv
    <2>2. CatalogueCurrent
        BY DEF CacheInv, CatalogueCurrent
    <2>3. QED
        BY <2>1, <2>2
<1> HIDE DEF Inv
<1>4. QED
    BY <1>1, <1>2, <1>3, PTL DEF Spec

=============================================================================
