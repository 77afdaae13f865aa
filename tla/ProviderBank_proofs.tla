------------------------- MODULE ProviderBank_proofs -------------------------
(***************************************************************************)
(* What TLAPS proves of ProviderBank, for any number of requests, pages and *)
(* items.                                                                  *)
(***************************************************************************)
EXTENDS ProviderBank, FiniteSetTheorems, WellFoundedInduction, TLAPS

Steps == {"idle", "again", "lease", "search", "row", "walk", "draw", "store", "append",
          "commit"}

JobRecord == [kind : Kinds, fetch : FetchRow, circuit : CircuitRow, attempt : AttemptRow,
              cursor : 1 .. Pages, left : SUBSET Items, last : BOOLEAN, had : SUBSET Items,
              add : SUBSET Items, made : SUBSET Items]

\* The values of a row.
Values(r) ==
    IF r = Fetch THEN FetchRow ELSE IF r = Circuit THEN CircuitRow
    ELSE IF r = Attempt THEN AttemptRow ELSE IF r \in StagedRows THEN StagedRow ELSE PaperRow

\* The items that need not be asked for any more, in a session and as committed: all of
\* them when the provider has none.
Known(w) == {i \in Items : ~carried \/ See(w, Staged(i)).there}
Stored == {i \in Items : ~carried \/ db[Staged(i)].there}

\* The items with a question in the bank, and those a session adds to them.
Banked == {i \in Items : bank[i] > 0}
Ours(w) == Banked \cup job[w].made

\* A fetch row that passes over no item but the known ones, and counts no question
\* but the banked ones.
Fits(known, banked, row) ==
    /\ row \in FetchRow
    /\ \A i \in Items \ known : row.status # "SATURATED" /\ PageOf[i] >= row.cursor
    /\ row.promoted <= Cardinality(banked)

\* The items on the paper, those it should get in the end, and of these the ones before
\* a page.
On == {i \in Items : db[OnPaper(i)].there}
Due == {i \in Items \ Rejected : carried}
Upto(c) == {i \in Due : PageOf[i] < c}

NotPlaced == [there |-> FALSE, order |-> 0]
Placed(w, i) ==
    [there |-> TRUE,
     order |-> Cardinality(job[w].had) + Cardinality({j \in job[w].add : j < i})]

\* A session's locked rows and assigned ones.
Session(w) ==
    /\ tx[w] = [own |-> tx[w].own, dirty |-> tx[w].dirty]
    /\ Holds(w) \subseteq Rows /\ \A r \in Holds(w) : tx[w].own[r] \in Values(r)
    /\ Dirty(w) \subseteq Rows \ StagedRows
    /\ \A r \in Dirty(w) : /\ tx[w].dirty[r].loaded \in Values(r)
                           /\ tx[w].dirty[r].assigned \in Values(r)

\* What kind of request takes which steps.  A bank request that asks the provider or
\* stores holds the fetch row.
Stepwise(w) ==
    /\ at[w] = "idle" => job[w] = Job("none") /\ tx[w] = Closed
    /\ at[w] = "again" => job[w].kind = "saturate"
    /\ at[w] = "lease" => job[w].kind \in Banking /\ Fetch \in Holds(w) \cup Dirty(w)
    /\ at[w] = "search" => job[w].kind \in {"advance", "saturate"} \cup Sitting
    /\ at[w] = "row" => job[w].kind \in {"advance", "saturate", "sync"} \cup Sitting
    /\ at[w] = "walk" => job[w].kind = "sync"
    /\ at[w] = "draw" => job[w].kind = "ensure"
    /\ at[w] = "append" => job[w].kind \in Sitting
    /\ job[w].kind \in Banking /\ at[w] \in {"search", "draw", "row", "store"} =>
          Fetch \in Holds(w)
    /\ ~subject => at[w] \in {"idle", "again", "commit"} /\ job[w].made = {}

\* Who stages an item is the first to do so, and makes its question.
Stages(w) ==
    \A i \in Items :
        /\ Staged(i) \in Holds(w) => tx[w].own[Staged(i)].there /\ ~db[Staged(i)].there
        /\ i \in job[w].made <=> i \notin Rejected /\ Staged(i) \in Holds(w)

\* The fetch row as loaded, as written and as assigned is true of what the session stores.
Fetches(w) ==
    /\ Fits(Known(w), Ours(w), job[w].fetch)
    /\ Fetch \in Holds(w) => Fits(Known(w), Ours(w), tx[w].own[Fetch])
    /\ Fetch \in Dirty(w) => Fits(Known(w), Ours(w), tx[w].dirty[Fetch].assigned)

\* What is left of the page, or of the walk, is what is not known.
Pageful(w) ==
    /\ at[w] \in {"row", "store"} /\ job[w].kind \notin {"ensure", "sync"} =>
          OnPage(job[w].cursor) \subseteq job[w].left \cup Known(w)
    /\ at[w] = "store" /\ job[w].kind \in {"ensure", "sync"} /\ job[w].last =>
          Items \subseteq job[w].left \cup Known(w)
    /\ \/ at[w] \in {"row", "store"} /\ job[w].kind \notin {"ensure", "sync"}
       \/ at[w] \in {"append", "commit"} /\ job[w].kind \in Sitting
       => (job[w].last <=> ~carried \/ job[w].cursor = Pages)

\* A student's request knows the paper as it was, with all the pages before its own,
\* and adds what its own page has besides.
Sits(w) ==
    job[w].kind \in Sitting =>
        /\ subject /\ at[w] \in {"search", "row", "store", "append", "commit"}
        /\ job[w].had \subseteq On /\ Upto(job[w].cursor) \subseteq job[w].had
        /\ job[w].kind = "start" =>
              job[w].had = {} /\ job[w].attempt = NoAttempt /\ ~db[Attempt].there
        /\ job[w].kind = "continue" =>
              /\ job[w].attempt.there /\ job[w].attempt.marks = Cardinality(job[w].had)
              /\ db[Attempt].there
        /\ at[w] \in {"append", "commit"} =>
              /\ job[w].add = (OnPage(job[w].cursor) \cap Due) \ job[w].had
              /\ job[w].add \subseteq Known(w)
        /\ at[w] = "commit" /\ job[w].kind = "start" => job[w].add # {}

Adding(w) == IF job[w].kind \in Sitting /\ at[w] = "commit" THEN job[w].add ELSE {}

\* The places it gives them, and the marks the attempt gets, once it has appended.
Appends(w) ==
    /\ \A i \in Items :
          /\ OnPaper(i) \in Holds(w) \cup Dirty(w) <=> i \in Adding(w)
          /\ OnPaper(i) \in Holds(w) =>
                tx[w].own[OnPaper(i)] = Placed(w, i) /\ ~db[OnPaper(i)].there
          /\ OnPaper(i) \in Dirty(w) =>
                /\ tx[w].dirty[OnPaper(i)].loaded = NotPlaced
                /\ tx[w].dirty[OnPaper(i)].assigned = Placed(w, i)
    /\ Attempt \in Holds(w) \cup Dirty(w) <=> Adding(w) # {}
    /\ Attempt \in Holds(w) =>
          /\ tx[w].own[Attempt].there
          /\ tx[w].own[Attempt].marks = Cardinality(job[w].had) + Cardinality(job[w].add)
    /\ Attempt \in Dirty(w) =>
          /\ tx[w].dirty[Attempt].loaded = job[w].attempt
          /\ tx[w].dirty[Attempt].assigned.there
          /\ tx[w].dirty[Attempt].assigned.marks =
                Cardinality(job[w].had) + Cardinality(job[w].add)

Sound(w) ==
    /\ Session(w) /\ Stepwise(w) /\ Stages(w) /\ Fetches(w)
    /\ Pageful(w) /\ Sits(w) /\ Appends(w)

\* No two transactions hold the same row; the paper is begun once.
Locks ==
    /\ \A v, w \in Workers : v # w => Holds(v) \cap Holds(w) = {}
    /\ \A v, w \in Workers : job[v].kind = "start" /\ job[w].kind = "start" => v = w

\* The paper has all of its pages up to some page, in order, and the pages given to the
\* student follow on.
Paper ==
    /\ On \subseteq Due /\ On \subseteq Stored
    /\ \A i \in On, j \in Due : PageOf[j] <= PageOf[i] => j \in On
    /\ \A i \in Items \ On : db[OnPaper(i)] = NotPlaced
    /\ db[Attempt].marks = Cardinality(On)
    /\ {db[OnPaper(i)].order : i \in On} = 0 .. Cardinality(On) - 1
    /\ db[Attempt].open => db[Attempt].there
    /\ ~db[Attempt].there => On = {} /\ handed = {}
    /\ \A c \in handed : c \in 2 .. Pages /\ Upto(c) \subseteq On /\ carried /\ subject

Typed ==
    /\ DOMAIN db = Rows /\ \A r \in Rows : db[r] \in Values(r)
    /\ DOMAIN tx = Workers
    /\ at \in [Workers -> Steps] /\ job \in [Workers -> JobRecord]
    /\ carried \in BOOLEAN /\ subject \in BOOLEAN

Bank == StoredOnce /\ Fits(Stored, Banked, db[Fetch])

IInv == Typed /\ Locks /\ Bank /\ Paper /\ \A w \in Workers : Sound(w)

-----------------------------------------------------------------------------
(* The rows *)

LEMMA RowKinds ==
    /\ Fetch \in Rows /\ Circuit \in Rows /\ Attempt \in Rows
    /\ StagedRows \subseteq Rows /\ PaperRows \subseteq Rows
    /\ Rows = {Fetch, Circuit, Attempt} \cup StagedRows \cup PaperRows
    /\ Fetch # Circuit /\ Fetch # Attempt /\ Circuit # Attempt
    /\ {Fetch, Circuit, Attempt} \cap (StagedRows \cup PaperRows) = {}
    /\ StagedRows \cap PaperRows = {}
    /\ \A i \in Items : Staged(i) \in StagedRows /\ OnPaper(i) \in PaperRows
    /\ \A i, j \in Items : Staged(i) = Staged(j) => i = j
    /\ \A i, j \in Items : OnPaper(i) = OnPaper(j) => i = j
<1>1. /\ Fetch # Circuit /\ Fetch # Attempt /\ Circuit # Attempt
      /\ \A i : /\ Staged(i) # Fetch /\ Staged(i) # Circuit /\ Staged(i) # Attempt
                /\ OnPaper(i) # Fetch /\ OnPaper(i) # Circuit /\ OnPaper(i) # Attempt
      /\ \A i, j : Staged(i) # OnPaper(j)
    BY DEF Fetch, Circuit, Attempt, Staged, OnPaper
<1>2. \A i, j \in Items : Staged(i) = Staged(j) => i = j
    BY DEF Staged
<1>3. \A i, j \in Items : OnPaper(i) = OnPaper(j) => i = j
    BY DEF OnPaper
<1>4. Rows = {Fetch, Circuit, Attempt} \cup StagedRows \cup PaperRows
    BY BankAssumption
<1>5. \A i \in Items : Staged(i) \in StagedRows /\ OnPaper(i) \in PaperRows
    BY DEF StagedRows, PaperRows
<1>6. /\ {Fetch, Circuit, Attempt} \cap (StagedRows \cup PaperRows) = {}
      /\ StagedRows \cap PaperRows = {}
    BY <1>1 DEF StagedRows, PaperRows
<1>7. QED
    BY <1>1, <1>2, <1>3, <1>4, <1>5, <1>6

LEMMA ValuesOf ==
    /\ Values(Fetch) = FetchRow /\ Values(Circuit) = CircuitRow /\ Values(Attempt) = AttemptRow
    /\ \A r \in StagedRows : Values(r) = StagedRow
    /\ \A r \in PaperRows : Values(r) = PaperRow
    /\ \A i \in Items : Values(Staged(i)) = StagedRow /\ Values(OnPaper(i)) = PaperRow
BY RowKinds DEF Values

LEMMA SeeIsValue ==
    ASSUME Typed, NEW w \in Workers, Session(w), NEW r \in Rows
    PROVE  See(w, r) \in Values(r)
BY DEF Typed, Session, See

\* What a session knows and adds, over what is committed.
LEMMA KnownAndOurs ==
    ASSUME Typed, StoredOnce, NEW w \in Workers, Stages(w)
    PROVE  /\ Stored \subseteq Known(w) /\ Known(w) \subseteq Items
           /\ Banked \subseteq Ours(w)
           /\ \A i \in Items : See(w, Staged(i)).there
                              <=> db[Staged(i)].there \/ Staged(i) \in Holds(w)
<1>1. \A i \in Items : See(w, Staged(i)).there
                       <=> db[Staged(i)].there \/ Staged(i) \in Holds(w)
    BY DEF See, Stages
<1>2. QED
    BY <1>1 DEF Stored, Known, Ours

\* Finite numbers of questions.
LEMMA Counts ==
    ASSUME NEW S \in SUBSET Items
    PROVE  /\ IsFiniteSet(S) /\ Cardinality(S) \in Nat
           /\ Cardinality(Items) \in Nat /\ Cardinality(S) <= Cardinality(Items)
           /\ \A T \in SUBSET S : Cardinality(T) \in Nat /\ Cardinality(T) <= Cardinality(S)
           /\ \A i \in Items \ S : Cardinality(S \cup {i}) = Cardinality(S) + 1
<1>1. IsFiniteSet(Items)
    BY BankAssumption
<1>2. IsFiniteSet(S) /\ Cardinality(S) <= Cardinality(Items)
    BY <1>1, FS_Subset
<1>3. Cardinality(S) \in Nat /\ Cardinality(Items) \in Nat
    BY <1>1, <1>2, FS_CardinalityType
<1>4. ASSUME NEW T \in SUBSET S
      PROVE  Cardinality(T) \in Nat /\ Cardinality(T) <= Cardinality(S)
    BY <1>2, FS_Subset, FS_CardinalityType
<1>5. ASSUME NEW i \in Items \ S PROVE Cardinality(S \cup {i}) = Cardinality(S) + 1
    BY <1>2, FS_AddElement
<1>6. QED
    BY <1>2, <1>3, <1>4, <1>5

\* What is known and banked only grows, and a row that fits goes on fitting.
LEMMA FitsStill ==
    ASSUME NEW known \in SUBSET Items, NEW more \in SUBSET Items, known \subseteq more,
           NEW banked \in SUBSET Items, NEW most \in SUBSET Items, banked \subseteq most,
           NEW row, Fits(known, banked, row)
    PROVE  Fits(more, most, row)
<1>1. /\ Cardinality(banked) \in Nat /\ Cardinality(most) \in Nat
      /\ Cardinality(banked) <= Cardinality(most) /\ Cardinality(Items) \in Nat
    BY Counts
<1>2. row.promoted \in Nat
    BY <1>1 DEF Fits, FetchRow
<1>3. row.promoted <= Cardinality(most)
    BY <1>1, <1>2 DEF Fits
<1>4. QED
    BY <1>3 DEF Fits

\* No row fits less than the one that was never written.
LEMMA NoFetchFits ==
    ASSUME NEW known \in SUBSET Items, NEW banked \in SUBSET Items, NEW b \in BOOLEAN
    PROVE  Fits(known, banked, [NoFetch EXCEPT !.there = b]) /\ Fits(known, banked, NoFetch)
<1>1. Cardinality(banked) \in Nat /\ Cardinality(Items) \in Nat /\ Pages \in Nat \ {0}
    BY Counts, BankAssumption
<1>2. [NoFetch EXCEPT !.there = b] = [there |-> b, status |-> "PENDING", lease |-> "none",
                                      cursor |-> 1, promoted |-> 0]
    BY DEF NoFetch
<1>3. 1 \in 1 .. Pages /\ 0 \in 0 .. Cardinality(Items)
    BY <1>1
<1>4. [NoFetch EXCEPT !.there = b] \in FetchRow
    BY <1>2, <1>3 DEF FetchRow
<1>5. \A i \in Items : PageOf[i] >= 1
    BY <1>1, BankAssumption
<1>6. NoFetch \in FetchRow
    BY <1>3 DEF NoFetch, FetchRow
<1>7. Fits(known, banked, [NoFetch EXCEPT !.there = b])
    BY <1>1, <1>2, <1>4, <1>5 DEF Fits
<1>8. Fits(known, banked, NoFetch)
    BY <1>1, <1>5, <1>6 DEF Fits, NoFetch
<1>9. QED
    BY <1>7, <1>8

-----------------------------------------------------------------------------
(* What a statement leaves of a session *)

LEMMA OnlyIs ==
    ASSUME NEW r, NEW v
    PROVE  DOMAIN Only(r, v) = {r} /\ Only(r, v)[r] = v
    BY DEF Only

\* One row is assigned.
LEMMA AssignOne ==
    ASSUME NEW y, y = [own |-> y.own, dirty |-> y.dirty], NEW r, NEW old, NEW new,
           NEW x, x = Assign(y, Only(r, old), Only(r, new))
    PROVE  /\ x = [own |-> x.own, dirty |-> x.dirty] /\ x.own = y.own
           /\ DOMAIN x.dirty = DOMAIN y.dirty \cup (IF new = old THEN {} ELSE {r})
           /\ \A q \in DOMAIN y.dirty : q # r \/ new = old => x.dirty[q] = y.dirty[q]
           /\ new # old =>
                 /\ x.dirty[r].assigned = new
                 /\ x.dirty[r].loaded = IF r \in DOMAIN y.dirty THEN y.dirty[r].loaded ELSE old
<1>1. DOMAIN Only(r, new) = {r} /\ Only(r, new)[r] = new /\ Only(r, old)[r] = old
    BY OnlyIs
<1> DEFINE assigned == {q \in DOMAIN Only(r, new) : Only(r, new)[q] # Only(r, old)[q]}
<1>2. assigned = IF new = old THEN {} ELSE {r}
    BY <1>1
<1>3. x = [y EXCEPT !.dirty =
             [q \in assigned \cup DOMAIN y.dirty |->
                IF q \notin assigned THEN y.dirty[q]
                ELSE [loaded |-> IF q \in DOMAIN y.dirty THEN y.dirty[q].loaded
                                 ELSE Only(r, old)[q],
                      assigned |-> Only(r, new)[q]]]]
    BY DEF Assign
<1> HIDE DEF assigned
<1>4. x.own = y.own /\ x = [own |-> x.own, dirty |-> x.dirty]
    BY <1>3
<1>5. x.dirty = [q \in assigned \cup DOMAIN y.dirty |->
                   IF q \notin assigned THEN y.dirty[q]
                   ELSE [loaded |-> IF q \in DOMAIN y.dirty THEN y.dirty[q].loaded
                                    ELSE Only(r, old)[q],
                         assigned |-> Only(r, new)[q]]]
    BY <1>3
<1>6. DOMAIN x.dirty = DOMAIN y.dirty \cup (IF new = old THEN {} ELSE {r})
    BY <1>2, <1>5
<1>7. ASSUME NEW q \in DOMAIN y.dirty, q # r \/ new = old PROVE x.dirty[q] = y.dirty[q]
    BY <1>2, <1>5, <1>7
<1>8. ASSUME new # old
      PROVE  /\ x.dirty[r].assigned = new
             /\ x.dirty[r].loaded = IF r \in DOMAIN y.dirty THEN y.dirty[r].loaded ELSE old
    <2>1. r \in assigned
        BY <1>2, <1>8
    <2>2. x.dirty[r] = [loaded |-> IF r \in DOMAIN y.dirty THEN y.dirty[r].loaded
                                   ELSE Only(r, old)[r],
                        assigned |-> Only(r, new)[r]]
        BY <1>5, <2>1
    <2>3. QED
        BY <1>1, <2>2
<1>9. QED
    BY <1>4, <1>6, <1>7, <1>8

\* Nothing is left to flush, and some rows are assigned.
LEMMA AssignEffect ==
    ASSUME NEW y, y = [own |-> y.own, dirty |-> y.dirty], DOMAIN y.dirty = {},
           NEW seen, NEW V, NEW x, x = Assign(y, seen, V),
           NEW changed \in SUBSET DOMAIN V,
           \A q \in DOMAIN V : q \in changed <=> V[q] # seen[q]
    PROVE  /\ x = [own |-> x.own, dirty |-> x.dirty] /\ x.own = y.own
           /\ DOMAIN x.dirty = changed
           /\ \A r \in changed : x.dirty[r].loaded = seen[r] /\ x.dirty[r].assigned = V[r]
    BY DEF Assign

LEMMA LockOne ==
    ASSUME NEW y, y = [own |-> y.own, dirty |-> y.dirty], NEW r, NEW v,
           NEW x, x = Locked(y, Only(r, v))
    PROVE  /\ x = [own |-> x.own, dirty |-> x.dirty] /\ x.dirty = y.dirty
           /\ DOMAIN x.own = DOMAIN y.own \cup {r} /\ x.own[r] = v
           /\ \A q \in DOMAIN y.own \ {r} : x.own[q] = y.own[q]
    BY DEF Locked, Only

LEMMA FlushOne ==
    ASSUME NEW y, y = [own |-> y.own, dirty |-> y.dirty], NEW r \in DOMAIN y.dirty, NEW now,
           NEW x, x = Flushed(y, r, now)
    PROVE  /\ x = [own |-> x.own, dirty |-> x.dirty]
           /\ DOMAIN x.own = DOMAIN y.own \cup {r} /\ DOMAIN x.dirty = DOMAIN y.dirty \ {r}
           /\ x.own[r] = Changed(now, y.dirty[r].loaded, y.dirty[r].assigned)
           /\ \A q \in DOMAIN y.own \ {r} : x.own[q] = y.own[q]
           /\ \A q \in DOMAIN y.dirty \ {r} : x.dirty[q] = y.dirty[q]
    BY DEF Flushed

-----------------------------------------------------------------------------
(* A step of one request *)

\* Only w's session and what w works with may change.
Moves(w) ==
    /\ UNCHANGED <<db, bank, handed, world>>
    /\ DOMAIN tx' = Workers /\ at' \in [Workers -> Steps] /\ job' \in [Workers -> JobRecord]
    /\ \A v \in Workers \ {w} : tx'[v] = tx[v] /\ at'[v] = at[v] /\ job'[v] = job[v]

LEMMA OthersSound ==
    ASSUME IInv, NEW w \in Workers, Moves(w), NEW v \in Workers \ {w}
    PROVE  Sound(v)' /\ Holds(v)' = Holds(v)
<1>1. /\ tx'[v] = tx[v] /\ at'[v] = at[v] /\ job'[v] = job[v] /\ db' = db /\ bank' = bank
      /\ carried' = carried /\ subject' = subject
    BY DEF Moves, world
<1>2. Holds(v)' = Holds(v) /\ Dirty(v)' = Dirty(v)
    BY <1>1 DEF Holds, Dirty
<1>3. \A r : See(v, r)' = See(v, r)
    BY <1>1, <1>2 DEF See
<1>4. Known(v)' = Known(v) /\ Ours(v)' = Ours(v) /\ On' = On /\ Adding(v)' = Adding(v)
    BY <1>1, <1>3 DEF Known, Ours, Banked, On, Adding
<1>5. /\ \A c : Upto(c)' = Upto(c)
      /\ Due' = Due /\ \A i : Placed(v, i)' = Placed(v, i)
    BY <1>1 DEF Upto, Due, Placed
<1>6. Sound(v)
    BY DEF IInv
<1>7. Session(v)' /\ Stepwise(v)'
    BY <1>1, <1>2, <1>6 DEF Sound, Session, Stepwise
<1>8. Stages(v)' /\ Fetches(v)' /\ Pageful(v)'
    BY <1>1, <1>2, <1>4, <1>6 DEF Sound, Stages, Fetches, Pageful
<1>9. Sits(v)' /\ Appends(v)'
    BY <1>1, <1>2, <1>4, <1>5, <1>6 DEF Sound, Sits, Appends
<1>10. QED
    BY <1>2, <1>7, <1>8, <1>9 DEF Sound

\* What the step owes: its own session stays sound, and what it locks was free.
LEMMA MoveKeeps ==
    ASSUME IInv, NEW w \in Workers, Moves(w), Sound(w)',
           \A r \in Holds(w)' \ Holds(w) : FreeFor(w, r),
           job'[w].kind = "start" =>
              job[w].kind = "start" \/ \A v \in Workers : job[v].kind # "start"
    PROVE  IInv'
<1>1. /\ db' = db /\ bank' = bank /\ handed' = handed /\ carried' = carried
      /\ subject' = subject
      /\ \A v \in Workers \ {w} : tx'[v] = tx[v] /\ at'[v] = at[v] /\ job'[v] = job[v]
    BY DEF Moves, world
<1>2. \A v \in Workers : Sound(v)'
    BY OthersSound
<1>3. Locks'
    <2>1. \A v \in Workers \ {w} : Holds(v)' = Holds(v)
        BY OthersSound
    <2>2. \A v \in Workers \ {w} : Holds(w)' \cap Holds(v) = {}
        BY DEF IInv, Locks, FreeFor
    <2>3. \A u, v \in Workers : u # v => Holds(u)' \cap Holds(v)' = {}
        BY <2>1, <2>2 DEF IInv, Locks
    <2>4. \A u, v \in Workers : job'[u].kind = "start" /\ job'[v].kind = "start" => u = v
        BY <1>1 DEF IInv, Locks
    <2>5. QED
        BY <2>3, <2>4 DEF Locks
<1>4. Typed'
    BY <1>1 DEF IInv, Typed, Moves
<1>5. Bank'
    BY <1>1 DEF IInv, Bank, StoredOnce, Fits, Stored, Banked
<1>6. Paper'
    BY <1>1 DEF IInv, Paper, On, Due, Upto, Stored
<1>7. QED
    BY <1>2, <1>3, <1>4, <1>5, <1>6 DEF IInv

\* w's session loads, assigns or locks the fetch row or the circuit, and nothing else.
Gentle(w) ==
    /\ tx'[w] = [own |-> tx'[w].own, dirty |-> tx'[w].dirty]
    /\ Holds(w) \subseteq Holds(w)' /\ Holds(w)' \subseteq Holds(w) \cup {Fetch}
    /\ \A r \in Holds(w) \ {Fetch} : tx'[w].own[r] = tx[w].own[r]
    /\ Fetch \in Holds(w)' => Fits(Known(w), Ours(w), tx'[w].own[Fetch])
    /\ Dirty(w) \subseteq Dirty(w)' /\ Dirty(w)' \subseteq Dirty(w) \cup {Fetch, Circuit}
    /\ \A r \in Dirty(w)' \ {Fetch, Circuit} : tx'[w].dirty[r] = tx[w].dirty[r]
    /\ \A r \in Dirty(w)' \cap {Fetch, Circuit} : /\ tx'[w].dirty[r].loaded \in Values(r)
                                                  /\ tx'[w].dirty[r].assigned \in Values(r)
    /\ Fetch \in Dirty(w)' => Fits(Known(w), Ours(w), tx'[w].dirty[Fetch].assigned)

LEMMA StillGentle ==
    ASSUME IInv, NEW w \in Workers, tx'[w] = tx[w]
    PROVE  Gentle(w) /\ Holds(w)' = Holds(w) /\ Dirty(w)' = Dirty(w)
<1>1. Session(w) /\ Fetches(w)
    BY DEF IInv, Sound
<1>2. Holds(w)' = Holds(w) /\ Dirty(w)' = Dirty(w)
    BY DEF Holds, Dirty
<1>3. QED
    BY <1>1, <1>2 DEF Gentle, Session, Fetches

\* The fetch row or the circuit is assigned.
LEMMA AssignedGentle ==
    ASSUME IInv, NEW w \in Workers, NEW r \in {Fetch, Circuit},
           NEW old \in Values(r), NEW new \in Values(r),
           r = Fetch => Fits(Known(w), Ours(w), new),
           tx'[w] = Assign(tx[w], Only(r, old), Only(r, new))
    PROVE  /\ Gentle(w) /\ Holds(w)' = Holds(w)
           /\ new # old => r \in Dirty(w)'
<1> DEFINE y == tx[w]
           x == tx'[w]
<1>1. Session(w) /\ Fetches(w)
    BY DEF IInv, Sound
<1>2. y = [own |-> y.own, dirty |-> y.dirty] /\ x = Assign(y, Only(r, old), Only(r, new))
    BY <1>1 DEF Session
<1> HIDE DEF x, y
<1>3. /\ x = [own |-> x.own, dirty |-> x.dirty] /\ x.own = y.own
      /\ DOMAIN x.dirty = DOMAIN y.dirty \cup (IF new = old THEN {} ELSE {r})
      /\ \A q \in DOMAIN y.dirty : q # r \/ new = old => x.dirty[q] = y.dirty[q]
      /\ new # old =>
            /\ x.dirty[r].assigned = new
            /\ x.dirty[r].loaded = IF r \in DOMAIN y.dirty THEN y.dirty[r].loaded ELSE old
    BY <1>2, AssignOne
<1>4. /\ Holds(w) = DOMAIN y.own /\ Dirty(w) = DOMAIN y.dirty
      /\ Holds(w)' = DOMAIN x.own /\ Dirty(w)' = DOMAIN x.dirty
    BY DEF Holds, Dirty, x, y
<1>5. /\ Holds(w)' = Holds(w)
      /\ Dirty(w)' = Dirty(w) \cup (IF new = old THEN {} ELSE {r})
    BY <1>3, <1>4
<1>6. /\ \A q \in Dirty(w) : /\ y.dirty[q].loaded \in Values(q)
                             /\ y.dirty[q].assigned \in Values(q)
      /\ Fetch \in Dirty(w) => Fits(Known(w), Ours(w), y.dirty[Fetch].assigned)
      /\ Fetch \in Holds(w) => Fits(Known(w), Ours(w), y.own[Fetch])
    BY <1>1 DEF Session, Fetches, y
<1>7. \A q \in Dirty(w)' : \/ q \in Dirty(w) /\ x.dirty[q] = y.dirty[q]
                           \/ /\ q = r /\ new # old
                              /\ x.dirty[r].loaded \in Values(r) /\ x.dirty[r].assigned = new
    BY <1>3, <1>4, <1>5, <1>6
<1>8. \A q \in Dirty(w)' : q # r => q \in Dirty(w) /\ x.dirty[q] = y.dirty[q]
    BY <1>7
<1>9. \A q \in Dirty(w)' : x.dirty[q].loaded \in Values(q) /\ x.dirty[q].assigned \in Values(q)
    BY <1>6, <1>7
<1>10. Fetch \in Dirty(w)' => Fits(Known(w), Ours(w), x.dirty[Fetch].assigned)
    BY <1>6, <1>7
<1>11. QED
    BY <1>3, <1>5, <1>6, <1>8, <1>9, <1>10 DEF Gentle, x, y

\* Such a step leaves the items and the paper as they were.
LEMMA GentleKeeps ==
    ASSUME IInv, NEW w \in Workers, Moves(w), Gentle(w), Adding(w) = {}, Adding(w)' = {},
           job'[w].made = job[w].made, Fits(Known(w), Ours(w), job'[w].fetch)
    PROVE  /\ Session(w)' /\ Stages(w)' /\ Fetches(w)' /\ Appends(w)'
           /\ Known(w)' = Known(w) /\ On' = On /\ Due' = Due
           /\ \A c : Upto(c)' = Upto(c)
<1>1. /\ db' = db /\ bank' = bank /\ carried' = carried /\ subject' = subject
    BY DEF Moves, world
<1>2. Session(w) /\ Stages(w) /\ Appends(w) /\ Fetches(w)
    BY DEF IInv, Sound
<1>3. Holds(w)' \cap StagedRows = Holds(w) \cap StagedRows
    BY RowKinds DEF Gentle
<1>4. \A i \in Items : /\ Staged(i) \in Holds(w)' <=> Staged(i) \in Holds(w)
                       /\ See(w, Staged(i))' = See(w, Staged(i))
                       /\ Staged(i) \in Holds(w) => tx'[w].own[Staged(i)] = tx[w].own[Staged(i)]
    BY <1>1, <1>3, RowKinds DEF See, Gentle
<1>5. /\ Known(w)' = Known(w) /\ Ours(w)' = Ours(w) /\ On' = On /\ Due' = Due
      /\ \A c : Upto(c)' = Upto(c)
    BY <1>1, <1>4 DEF Known, Ours, Banked, On, Due, Upto
<1>6. Stages(w)'
    BY <1>1, <1>2, <1>4 DEF Stages
<1>7. Fetches(w)'
    BY <1>5 DEF Fetches, Gentle
<1>8. Session(w)'
    <2>1. \A r \in Holds(w)' : tx'[w].own[r] \in Values(r)
        BY <1>2, ValuesOf DEF Gentle, Session, Fits
    <2>2. \A r \in Dirty(w)' : /\ tx'[w].dirty[r].loaded \in Values(r)
                               /\ tx'[w].dirty[r].assigned \in Values(r)
        BY <1>2 DEF Gentle, Session
    <2>3. Holds(w)' \subseteq Rows /\ Dirty(w)' \subseteq Rows \ StagedRows
        BY <1>2, RowKinds DEF Gentle, Session
    <2>4. QED
        BY <2>1, <2>2, <2>3 DEF Session, Gentle
<1>9. Appends(w)'
    <2>1. \A r \in PaperRows \cup {Attempt} : r \notin Holds(w) \cup Dirty(w)
        BY <1>2 DEF Appends, PaperRows
    <2>2. \A r \in PaperRows \cup {Attempt} : r \notin Holds(w)' \cup Dirty(w)'
        BY <2>1, RowKinds DEF Gentle
    <2>3. QED
        BY <2>2, RowKinds DEF Appends
<1>10. QED
    BY <1>5, <1>6, <1>7, <1>8, <1>9

\* What such a step still owes.
LEMMA GentleStep ==
    ASSUME IInv, NEW w \in Workers, Moves(w), Gentle(w), Adding(w) = {}, Adding(w)' = {},
           job'[w].made = job[w].made, Fits(Known(w), Ours(w), job'[w].fetch),
           \A r \in Holds(w)' \ Holds(w) : FreeFor(w, r),
           job'[w].kind = "start" =>
              job[w].kind = "start" \/ \A v \in Workers : job[v].kind # "start",
           Stepwise(w)', Pageful(w)', Sits(w)'
    PROVE  IInv'
BY GentleKeeps, MoveKeeps DEF Sound

-----------------------------------------------------------------------------
(* What requests begin with *)

LEMMA JobIs ==
    ASSUME NEW kind \in Kinds
    PROVE  /\ Job(kind) \in JobRecord /\ Job(kind).kind = kind
           /\ Job(kind).fetch = NoFetch /\ Job(kind).attempt = NoAttempt
           /\ Job(kind).cursor = 1 /\ Job(kind).made = {} /\ Job(kind).had = {}
           /\ Job(kind).add = {} /\ Job(kind).left = {} /\ Job(kind).last = FALSE
<1>1. Pages \in Nat \ {0} /\ Cardinality(Items) \in Nat
    BY BankAssumption, Counts
<1>2. NoFetch \in FetchRow /\ NoCircuit \in CircuitRow /\ NoAttempt \in AttemptRow
    BY <1>1 DEF NoFetch, NoCircuit, NoAttempt, FetchRow, CircuitRow, AttemptRow
<1>3. 1 \in 1 .. Pages
    BY <1>1
<1>4. QED
    BY <1>2, <1>3 DEF Job, JobRecord

LEMMA NeverFetched ==
    ASSUME NEW w \in Workers PROVE Fits(Known(w), Banked, NoFetch) /\ ~NoFetch.there
<1>1. ~NoFetch.there
    BY DEF NoFetch
<1>2. Known(w) \in SUBSET Items /\ Banked \in SUBSET Items
    BY DEF Known, Banked
<1>3. QED
    BY <1>1, <1>2, NoFetchFits

\* What a session stands on.
LEMMA Standing ==
    ASSUME IInv, NEW w \in Workers
    PROVE  /\ Session(w) /\ Stepwise(w) /\ Stages(w) /\ Fetches(w) /\ Pageful(w) /\ Sits(w)
           /\ Appends(w)
           /\ job[w] \in JobRecord /\ at[w] \in Steps
           /\ Known(w) \in SUBSET Items /\ Ours(w) \in SUBSET Items
           /\ Stored \subseteq Known(w) /\ Banked \in SUBSET Ours(w) /\ Stored \in SUBSET Items
           /\ Fits(Known(w), Ours(w), NoFetch)
           /\ Fits(Known(w), Ours(w), db[Fetch])
           /\ Fits(Known(w), Ours(w), See(w, Fetch))
           /\ Fits(Known(w), Ours(w), Loaded(w))
<1>1. /\ Session(w) /\ Stepwise(w) /\ Stages(w) /\ Fetches(w) /\ Pageful(w) /\ Sits(w)
      /\ Appends(w) /\ job[w] \in JobRecord /\ at[w] \in Steps
    BY DEF IInv, Sound, Typed
<1>2. job[w].made \in SUBSET Items
    BY <1>1 DEF JobRecord
<1>3. /\ Known(w) \in SUBSET Items /\ Ours(w) \in SUBSET Items /\ Stored \in SUBSET Items
      /\ Banked \in SUBSET Ours(w) /\ Stored \subseteq Known(w) /\ Banked \in SUBSET Items
    BY <1>1, <1>2, KnownAndOurs DEF IInv, Bank, Known, Ours, Banked, Stored
<1>4. Fits(Known(w), Ours(w), db[Fetch])
    BY <1>3, FitsStill DEF IInv, Bank
<1>5. Fits(Known(w), Ours(w), NoFetch)
    BY <1>3, NeverFetched, FitsStill
<1>6. Fits(Known(w), Ours(w), See(w, Fetch))
    BY <1>1, <1>4 DEF See, Fetches
<1>7. Fits(Known(w), Ours(w), Loaded(w))
    BY <1>1, <1>6 DEF Loaded, Fetches
<1>8. QED
    BY <1>1, <1>3, <1>4, <1>5, <1>6, <1>7

\* The columns of a fetch row that may be changed at will.
LEMMA FitsAlso ==
    ASSUME NEW known, NEW banked, NEW row, Fits(known, banked, row)
    PROVE  /\ Fits(known, banked, [row EXCEPT !.there = TRUE, !.status = "FAILED"])
           /\ Fits(known, banked, [row EXCEPT !.there = TRUE, !.lease = "fresh"])
           /\ Fits(known, banked, [row EXCEPT !.lease = "none"])
           /\ Fits(known, banked, [row EXCEPT !.lease = "old"])
           /\ Fits(known, banked, [row EXCEPT !.status = "PENDING", !.lease = "none",
                                              !.cursor = 1])
           /\ Items \subseteq known =>
                 Fits(known, banked, [row EXCEPT !.status = "SATURATED"])
<1>1. row \in FetchRow /\ Pages \in Nat \ {0} /\ \A i \in Items : PageOf[i] >= 1
    BY BankAssumption DEF Fits
<1>2. 1 \in 1 .. Pages
    BY <1>1
<1>3. /\ [row EXCEPT !.there = TRUE, !.status = "FAILED"] \in FetchRow
      /\ [row EXCEPT !.there = TRUE, !.lease = "fresh"] \in FetchRow
      /\ [row EXCEPT !.lease = "none"] \in FetchRow
      /\ [row EXCEPT !.lease = "old"] \in FetchRow
      /\ [row EXCEPT !.status = "SATURATED"] \in FetchRow
    BY <1>1 DEF FetchRow
<1>4. [row EXCEPT !.status = "PENDING", !.lease = "none", !.cursor = 1] \in FetchRow
    BY <1>1, <1>2 DEF FetchRow
<1>5. QED
    BY <1>1, <1>3, <1>4 DEF Fits, FetchRow

\* Outside a student's commit nothing is to be appended.
LEMMA NothingAdded ==
    ASSUME NEW w \in Workers, at[w] # "commit" \/ job[w].kind \notin Sitting
    PROVE  Adding(w) = {}
BY DEF Adding

-----------------------------------------------------------------------------
(* Visits, the administrator, the circuit *)

\* The fetch row is assigned from what was loaded.
LEMMA SetFetchGentle ==
    ASSUME IInv, NEW w \in Workers, NEW row, SetFetch(w, row), Fits(Known(w), Ours(w), row)
    PROVE  /\ Gentle(w) /\ Holds(w)' = Holds(w) /\ DOMAIN tx' = Workers
           /\ \A v \in Workers \ {w} : tx'[v] = tx[v]
           /\ row # Loaded(w) => Fetch \in Dirty(w)'
<1>1. /\ tx'[w] = Assign(tx[w], Only(Fetch, Loaded(w)), Only(Fetch, row))
      /\ DOMAIN tx' = Workers /\ \A v \in Workers \ {w} : tx'[v] = tx[v]
    BY DEF SetFetch, IInv, Typed
<1>2. Loaded(w) \in Values(Fetch) /\ row \in Values(Fetch)
    BY Standing, ValuesOf DEF Fits
<1>3. QED
    BY <1>1, <1>2, AssignedGentle

LEMMA TakeLeaseKeeps ==
    ASSUME IInv, NEW w \in Workers, NEW kind \in Banking, at[w] \in {"idle", "again"},
           at[w] = "again" => kind = "saturate",
           TakeLease(w, kind), UNCHANGED <<db, bank, handed, world>>
    PROVE  IInv'
<1> DEFINE row == Loaded(w)
<1>1. Fits(Known(w), Ours(w), row) /\ Fits(Known(w), Ours(w), NoFetch) /\ row \in FetchRow
    BY Standing DEF Fits
<1>2. /\ kind \in Kinds /\ kind \notin Sitting /\ kind # "start" /\ kind # "sync"
      /\ job[w].kind \in {"none", "saturate"} /\ job[w].kind \notin Sitting
      /\ job[w] \in JobRecord
      /\ Job("none").kind = "none" /\ "none" \in Kinds
    <2>1. Job("none").kind = "none"
        BY DEF Job
    <2>2. QED
        BY <2>1, Standing DEF Stepwise, Kinds, Banking, Sitting
<1>3. Adding(w) = {}
    BY <1>2, NothingAdded
<1>4. ~subject => job[w].made = {}
    BY Standing DEF Stepwise
<1>5. subject' = subject
    BY DEF world
<1>6. at' \in [Workers -> Steps] /\ \A v \in Workers \ {w} : at'[v] = at[v]
    BY DEF TakeLease, Now, IInv, Typed, Steps
<1>7. CASE ~subject
    <2> DEFINE failed == [row EXCEPT !.there = TRUE, !.status = "FAILED"]
    <2>1. SetFetch(w, failed) /\ job' = [job EXCEPT ![w] = Job(kind)] /\ Now(w, "commit")
        BY <1>7 DEF TakeLease
    <2>2. Fits(Known(w), Ours(w), failed)
        BY <1>1, FitsAlso
    <2> HIDE DEF failed, row
    <2>3. /\ job'[w].kind = kind /\ job'[w].made = job[w].made
          /\ job'[w].fetch = NoFetch /\ at'[w] = "commit"
          /\ job' \in [Workers -> JobRecord]
          /\ \A v \in Workers \ {w} : job'[v] = job[v]
        BY <1>2, <1>4, <1>7, <2>1, JobIs DEF Now, IInv, Typed
    <2>4. Gentle(w) /\ Holds(w)' = Holds(w) /\ Moves(w)
        BY <1>6, <2>1, <2>2, <2>3, SetFetchGentle DEF Moves
    <2>5. Adding(w)' = {}
        BY <1>2, <2>3 DEF Adding
    <2>6. Stepwise(w)' /\ Pageful(w)' /\ Sits(w)'
        BY <1>2, <1>4, <1>5, <1>7, <2>3 DEF Stepwise, Pageful, Sits
    <2>7. QED
        BY <1>1, <1>2, <1>3, <2>3, <2>4, <2>5, <2>6, GentleStep
<1>8. CASE subject /\ (row.status # "PENDING" \/ row.lease = "fresh")
    <2>1. job' = [job EXCEPT ![w] = [@ EXCEPT !.kind = kind]] /\ Now(w, "commit") /\ tx' = tx
        BY <1>8 DEF TakeLease
    <2>2. [job[w] EXCEPT !.kind = kind] \in JobRecord
        BY <1>2 DEF JobRecord
    <2> HIDE DEF row
    <2>3. /\ job'[w].kind = kind /\ job'[w].made = job[w].made
          /\ job'[w].fetch = job[w].fetch /\ at'[w] = "commit"
          /\ job' \in [Workers -> JobRecord]
          /\ \A v \in Workers \ {w} : job'[v] = job[v]
        BY <1>2, <2>1, <2>2 DEF Now, IInv, Typed, JobRecord
    <2>4. Gentle(w) /\ Holds(w)' = Holds(w) /\ Moves(w)
        BY <1>6, <2>1, <2>3, StillGentle DEF Moves, IInv, Typed
    <2>5. Adding(w)' = {}
        BY <1>2, <2>3 DEF Adding
    <2>6. Stepwise(w)' /\ Pageful(w)' /\ Sits(w)'
        BY <1>2, <1>5, <1>8, <2>3 DEF Stepwise, Pageful, Sits
    <2>7. Fits(Known(w), Ours(w), job[w].fetch)
        BY Standing DEF Fetches
    <2>8. QED
        BY <1>2, <1>3, <2>3, <2>4, <2>5, <2>6, <2>7, GentleStep
<1>9. CASE subject /\ row.status = "PENDING" /\ row.lease # "fresh"
    <2> DEFINE leased == [row EXCEPT !.there = TRUE, !.lease = "fresh"]
               new == [Job(kind) EXCEPT !.fetch = leased, !.made = job[w].made]
    <2>1. SetFetch(w, leased) /\ job' = [job EXCEPT ![w] = new] /\ Now(w, "lease")
        BY <1>9 DEF TakeLease
    <2>2. Fits(Known(w), Ours(w), leased) /\ leased \in FetchRow
        BY <1>1, FitsAlso DEF Fits
    <2>3. leased # row
        BY <1>1, <1>9 DEF FetchRow
    <2> HIDE DEF leased, row
    <2>4. /\ new \in JobRecord /\ new.kind = kind /\ new.made = job[w].made
          /\ new.fetch = leased
        <3>1. job[w].made \in SUBSET Items
            BY <1>2 DEF JobRecord
        <3>2. Job(kind) \in JobRecord /\ Job(kind).kind = kind
            BY <1>2, JobIs
        <3>3. QED
            BY <2>2, <3>1, <3>2 DEF JobRecord
    <2> HIDE DEF new
    <2>5. /\ job'[w] = new /\ at'[w] = "lease" /\ job' \in [Workers -> JobRecord]
          /\ \A v \in Workers \ {w} : job'[v] = job[v]
        BY <2>1, <2>4 DEF Now, IInv, Typed
    <2>6. Gentle(w) /\ Holds(w)' = Holds(w) /\ Moves(w) /\ Fetch \in Dirty(w)'
        BY <1>6, <2>1, <2>2, <2>3, <2>5, SetFetchGentle DEF Moves, row
    <2>7. Adding(w)' = {}
        BY <2>5 DEF Adding
    <2>8. Stepwise(w)' /\ Pageful(w)' /\ Sits(w)'
        BY <1>2, <1>5, <1>9, <2>4, <2>5, <2>6 DEF Stepwise, Pageful, Sits
    <2>9. QED
        BY <1>2, <1>3, <2>2, <2>4, <2>5, <2>6, <2>7, <2>8, GentleStep
<1>10. QED
    BY <1>7, <1>8, <1>9

LEMMA VisitKeeps ==
    ASSUME IInv, NEW w \in Workers, NEW kind \in Visits, Visit(w, kind)
    PROVE  IInv'
BY TakeLeaseKeeps DEF Visit, Visits, Banking

LEMMA NextPageKeeps ==
    ASSUME IInv, NEW w \in Workers, NextPage(w)
    PROVE  IInv'
BY TakeLeaseKeeps DEF NextPage, Banking

LEMMA BackfillKeeps ==
    ASSUME IInv, NEW w \in Workers, Backfill(w)
    PROVE  IInv'
<1>1. at[w] = "idle" /\ UNCHANGED <<db, bank, handed, world>> /\ Now(w, "again")
    BY DEF Backfill
<1>2. PICK clear \in BOOLEAN, reset \in BOOLEAN :
         LET circuit == db[Circuit]
             row == db[Fetch]
             cleared == clear /\ circuit.state = "BLOCKED"
             again == reset /\ row.status = "FAILED"
             values == [r \in {q \in {Circuit} : cleared} \cup {q \in {Fetch} : again} |->
                          IF r = Circuit THEN [circuit EXCEPT !.state = "OK", !.cooling = FALSE]
                          ELSE [row EXCEPT !.status = "PENDING", !.lease = "none", !.cursor = 1]]
         IN /\ tx' = [tx EXCEPT ![w] = Assign(tx[w], db, values)]
            /\ job' = [job EXCEPT ![w] = [Job("saturate") EXCEPT
                                            !.fetch = IF again THEN values[Fetch] ELSE row]]
    BY DEF Backfill
<1> DEFINE circuit == db[Circuit]
           row == db[Fetch]
           cleared == clear /\ circuit.state = "BLOCKED"
           again == reset /\ row.status = "FAILED"
           opened == [circuit EXCEPT !.state = "OK", !.cooling = FALSE]
           fresh == [row EXCEPT !.status = "PENDING", !.lease = "none", !.cursor = 1]
           values == [r \in {q \in {Circuit} : cleared} \cup {q \in {Fetch} : again} |->
                        IF r = Circuit THEN opened ELSE fresh]
           fetch == IF again THEN values[Fetch] ELSE row
           new == [Job("saturate") EXCEPT !.fetch = fetch]
<1>3. /\ tx'[w] = Assign(tx[w], db, values) /\ DOMAIN tx' = Workers
      /\ \A v \in Workers \ {w} : tx'[v] = tx[v]
    BY <1>2 DEF IInv, Typed
<1>4. job' = [job EXCEPT ![w] = new]
    BY <1>2
<1>5. /\ Fits(Known(w), Ours(w), row) /\ row \in FetchRow /\ row \in Values(Fetch)
      /\ circuit \in CircuitRow /\ circuit \in Values(Circuit)
    BY Standing, ValuesOf, RowKinds DEF IInv, Typed, Fits
<1>6. Fits(Known(w), Ours(w), fresh) /\ fresh \in Values(Fetch)
    BY <1>5, FitsAlso, ValuesOf DEF Fits
<1>7. opened \in Values(Circuit)
    BY <1>5, ValuesOf DEF CircuitRow
<1>8. /\ DOMAIN values = {q \in {Circuit} : cleared} \cup {q \in {Fetch} : again}
      /\ \A r \in DOMAIN values : values[r] = IF r = Circuit THEN opened ELSE fresh
    OBVIOUS
<1>9. fetch = IF again THEN fresh ELSE row
    BY <1>8, RowKinds
<1> DEFINE changed == {r \in DOMAIN values : values[r] # db[r]}
<1>10. DOMAIN values \subseteq {Fetch, Circuit} /\ changed \subseteq DOMAIN values
    BY <1>8
<1>11. \A r \in DOMAIN values : r \in changed <=> values[r] # db[r]
    OBVIOUS
<1>12. tx[w] = Closed /\ job[w] = Job("none") /\ "none" \in Kinds /\ "saturate" \in Kinds
    BY <1>1, Standing DEF Stepwise, Kinds, Banking
<1>13. /\ tx[w] = [own |-> tx[w].own, dirty |-> tx[w].dirty] /\ DOMAIN tx[w].own = {}
       /\ DOMAIN tx[w].dirty = {}
    <2>1. tx[w].own = <<>> /\ tx[w].dirty = <<>>
        BY <1>12 DEF Closed
    <2>2. DOMAIN <<>> = {}
        OBVIOUS
    <2>3. QED
        BY <2>1, <2>2, <1>12 DEF Closed
<1>14. \A r \in DOMAIN values : values[r] \in Values(r) /\ db[r] \in Values(r)
    BY <1>5, <1>6, <1>7, <1>8, <1>10, RowKinds
<1>15. Fetch \in DOMAIN values => Fits(Known(w), Ours(w), values[Fetch])
    BY <1>6, <1>8, RowKinds
<1> HIDE DEF values, changed
<1>16. /\ tx'[w] = [own |-> tx'[w].own, dirty |-> tx'[w].dirty]
       /\ tx'[w].own = tx[w].own /\ DOMAIN tx'[w].dirty = changed
       /\ \A r \in changed : /\ tx'[w].dirty[r].loaded = db[r]
                             /\ tx'[w].dirty[r].assigned = values[r]
    BY <1>3, <1>10, <1>11, <1>13, AssignEffect
<1>17. Holds(w)' = Holds(w) /\ Holds(w) = {} /\ Dirty(w)' = changed /\ Dirty(w) = {}
    BY <1>13, <1>16 DEF Holds, Dirty
<1>18. Gentle(w)
    BY <1>10, <1>14, <1>15, <1>16, <1>17 DEF Gentle
<1>19. fetch \in FetchRow /\ Fits(Known(w), Ours(w), fetch)
    BY <1>5, <1>6, <1>9 DEF Fits
<1> HIDE DEF fetch
<1>20. /\ new \in JobRecord /\ new.kind = "saturate" /\ new.made = {} /\ new.fetch = fetch
    <2>1. Job("saturate") \in JobRecord /\ Job("saturate").kind = "saturate"
          /\ Job("saturate").made = {}
        BY <1>12, JobIs
    <2>2. QED
        BY <1>19, <2>1 DEF JobRecord
<1> HIDE DEF new
<1>21. /\ job'[w] = new /\ at'[w] = "again" /\ job' \in [Workers -> JobRecord]
       /\ at' \in [Workers -> Steps]
       /\ \A v \in Workers \ {w} : job'[v] = job[v] /\ at'[v] = at[v]
    BY <1>1, <1>4, <1>20 DEF Now, IInv, Typed, Steps
<1>22. Moves(w)
    BY <1>1, <1>3, <1>21 DEF Moves
<1>23. Adding(w) = {} /\ Adding(w)' = {} /\ job[w].made = {}
    BY <1>1, <1>12, <1>21, JobIs DEF Adding
<1>24. subject' = subject
    BY <1>1 DEF world
<1>25. Stepwise(w)' /\ Pageful(w)' /\ Sits(w)'
    BY <1>20, <1>21, <1>24 DEF Stepwise, Pageful, Sits, Banking, Sitting
<1>26. QED
    BY <1>17, <1>18, <1>19, <1>20, <1>21, <1>22, <1>23, <1>25, GentleStep

\* A step that touches no row.
LEMMA ThinkingStep ==
    ASSUME IInv, NEW w \in Workers, UNCHANGED <<db, tx, bank, handed, world>>,
           at' \in [Workers -> Steps], job' \in [Workers -> JobRecord],
           \A v \in Workers \ {w} : at'[v] = at[v] /\ job'[v] = job[v],
           at[w] # "commit" \/ job[w].kind \notin Sitting,
           at'[w] # "commit" \/ job'[w].kind \notin Sitting,
           job'[w].made = job[w].made, Fits(Known(w), Ours(w), job'[w].fetch)
    PROVE  /\ Holds(w)' = Holds(w) /\ Dirty(w)' = Dirty(w) /\ Known(w)' = Known(w)
           /\ On' = On /\ Due' = Due /\ \A c : Upto(c)' = Upto(c)
           /\ (/\ Stepwise(w)' /\ Pageful(w)' /\ Sits(w)'
               /\ job'[w].kind = "start" =>
                     \/ job[w].kind = "start"
                     \/ \A v \in Workers : job[v].kind # "start")
                 => IInv'
<1>1. Gentle(w) /\ Holds(w)' = Holds(w) /\ Dirty(w)' = Dirty(w)
    BY StillGentle
<1>2. Moves(w)
    BY DEF Moves, IInv, Typed
<1>3. Adding(w) = {} /\ Adding(w)' = {}
    BY DEF Adding
<1>4. Known(w)' = Known(w) /\ On' = On /\ Due' = Due /\ \A c : Upto(c)' = Upto(c)
    BY <1>1, <1>2, <1>3, GentleKeeps
<1>5. QED
    BY <1>1, <1>2, <1>3, <1>4, GentleStep

LEMMA CheckCircuitKeeps ==
    ASSUME IInv, NEW w \in Workers, CheckCircuit(w)
    PROVE  IInv'
<1> DEFINE circuit == See(w, Circuit)
           open == \/ circuit.state = "BLOCKED"
                   \/ circuit.state = "EXHAUSTED" /\ circuit.cooling
<1>1. /\ at[w] = "lease" /\ Dirty(w) = {} /\ UNCHANGED <<db, bank, handed, world>>
      /\ subject' = subject
    BY DEF CheckCircuit, Flushing, world
<1>2. /\ job[w].kind \in Banking /\ Fetch \in Holds(w) /\ subject
      /\ job[w] \in JobRecord /\ Fits(Known(w), Ours(w), job[w].fetch)
    BY <1>1, Standing DEF Stepwise, Fetches
<1>3. job[w].kind \notin Sitting /\ job[w].kind # "sync"
    BY <1>2 DEF Banking, Sitting
<1>4. circuit \in CircuitRow
    BY RowKinds, ValuesOf, SeeIsValue, Standing DEF IInv
<1> HIDE DEF circuit
<1>5. CASE job[w].kind = "ensure"
    <2>1. /\ Now(w, IF open THEN "commit" ELSE "draw") /\ tx' = tx
          /\ job' = [job EXCEPT ![w].circuit = circuit]
        BY <1>5 DEF CheckCircuit, circuit
    <2>2. [job[w] EXCEPT !.circuit = circuit] \in JobRecord
        BY <1>2, <1>4 DEF JobRecord
    <2>3. /\ job' \in [Workers -> JobRecord] /\ at' \in [Workers -> Steps]
          /\ at'[w] \in {"commit", "draw"}
          /\ \A v \in Workers \ {w} : at'[v] = at[v] /\ job'[v] = job[v]
          /\ job'[w].kind = "ensure" /\ job'[w].made = job[w].made
          /\ job'[w].fetch = job[w].fetch
        BY <1>2, <1>5, <2>1, <2>2 DEF Now, IInv, Typed, Steps, JobRecord
    <2>4. /\ Holds(w)' = Holds(w)
          /\ Stepwise(w)' /\ Pageful(w)' /\ Sits(w)' => IInv'
        BY <1>1, <1>2, <1>3, <1>5, <2>1, <2>3, ThinkingStep DEF Sitting
    <2>5. Stepwise(w)' /\ Pageful(w)' /\ Sits(w)'
        BY <1>1, <1>2, <2>3, <2>4 DEF Stepwise, Pageful, Sits, Banking, Sitting
    <2>6. QED
        BY <2>4, <2>5
<1>6. CASE job[w].kind # "ensure" /\ open
    <2> DEFINE row == [job[w].fetch EXCEPT !.lease = "none"]
    <2>1. SetFetch(w, row) /\ Now(w, "commit") /\ job' = job
        BY <1>6 DEF CheckCircuit, circuit
    <2>2. Fits(Known(w), Ours(w), row)
        BY <1>2, FitsAlso
    <2> HIDE DEF row
    <2>3. Gentle(w) /\ Holds(w)' = Holds(w)
        BY <2>1, <2>2, SetFetchGentle
    <2>4. Moves(w) /\ at'[w] = "commit"
        BY <1>1, <2>1, <2>2, SetFetchGentle DEF Moves, Now, IInv, Typed, Steps
    <2>5. Adding(w) = {} /\ Adding(w)' = {}
        BY <1>1, <1>3, <2>1 DEF Adding
    <2>6. Stepwise(w)' /\ Pageful(w)' /\ Sits(w)'
        BY <1>1, <1>2, <1>3, <2>1, <2>4 DEF Stepwise, Pageful, Sits
    <2>7. QED
        BY <1>2, <2>1, <2>3, <2>4, <2>5, <2>6, GentleStep
<1>7. CASE job[w].kind # "ensure" /\ ~open
    <2>1. job' = [job EXCEPT ![w].cursor = job[w].fetch.cursor] /\ Now(w, "search") /\ tx' = tx
        BY <1>7 DEF CheckCircuit, circuit
    <2>2. [job[w] EXCEPT !.cursor = job[w].fetch.cursor] \in JobRecord
        BY <1>2 DEF JobRecord, FetchRow
    <2>3. /\ job' \in [Workers -> JobRecord] /\ at' \in [Workers -> Steps]
          /\ at'[w] = "search" /\ job'[w].kind = job[w].kind
          /\ \A v \in Workers \ {w} : at'[v] = at[v] /\ job'[v] = job[v]
          /\ job'[w].made = job[w].made /\ job'[w].fetch = job[w].fetch
        BY <1>2, <2>1, <2>2 DEF Now, IInv, Typed, Steps, JobRecord
    <2>4. /\ Holds(w)' = Holds(w)
          /\ Stepwise(w)' /\ Pageful(w)' /\ Sits(w)' => IInv'
        BY <1>1, <1>2, <1>3, <2>1, <2>3, ThinkingStep DEF Sitting
    <2>5. Stepwise(w)' /\ Pageful(w)' /\ Sits(w)'
        BY <1>1, <1>2, <1>3, <1>7, <2>3, <2>4 DEF Stepwise, Pageful, Sits, Banking
    <2>6. QED
        BY <2>4, <2>5
<1>8. QED
    BY <1>5, <1>6, <1>7

-----------------------------------------------------------------------------
(* Pages *)

LEMMA SearchKeeps ==
    ASSUME IInv, NEW w \in Workers, Search(w)
    PROVE  IInv'
<1> DEFINE page == IF carried THEN OnPage(job[w].cursor) ELSE {}
           last == ~carried \/ job[w].cursor = Pages
<1>1. /\ at[w] = "search" /\ UNCHANGED <<db, tx, bank, handed, world>>
      /\ subject' = subject /\ carried' = carried
      /\ job' = [job EXCEPT ![w].left = page, ![w].last = last] /\ Now(w, "row")
    BY DEF Search, world
<1>2. /\ job[w] \in JobRecord /\ Fits(Known(w), Ours(w), job[w].fetch)
      /\ job[w].kind \in {"advance", "saturate"} \cup Sitting
      /\ Stepwise(w) /\ Sits(w)
    BY <1>1, Standing DEF Stepwise, Fetches
<1>3. page \in SUBSET Items /\ last \in BOOLEAN
    BY DEF OnPage
<1>4. /\ OnPage(job[w].cursor) \subseteq page \cup Known(w)
      /\ last <=> ~carried \/ job[w].cursor = Pages
    BY DEF Known, OnPage
<1> HIDE DEF page, last
<1>5. [job[w] EXCEPT !.left = page, !.last = last] \in JobRecord
    BY <1>2, <1>3 DEF JobRecord
<1>6. /\ job' \in [Workers -> JobRecord] /\ at' \in [Workers -> Steps] /\ at'[w] = "row"
      /\ \A v \in Workers \ {w} : at'[v] = at[v] /\ job'[v] = job[v]
      /\ job'[w] = [job[w] EXCEPT !.left = page, !.last = last]
    BY <1>1, <1>5 DEF Now, IInv, Typed, Steps
<1>7. /\ job'[w].kind = job[w].kind /\ job'[w].made = job[w].made
      /\ job'[w].fetch = job[w].fetch /\ job'[w].cursor = job[w].cursor
      /\ job'[w].left = page /\ job'[w].last = last /\ job'[w].had = job[w].had
      /\ job'[w].attempt = job[w].attempt
    BY <1>2, <1>6 DEF JobRecord
<1>8. /\ Holds(w)' = Holds(w) /\ Known(w)' = Known(w) /\ On' = On
      /\ \A c : Upto(c)' = Upto(c)
      /\ Stepwise(w)' /\ Pageful(w)' /\ Sits(w)' => IInv'
    BY <1>1, <1>2, <1>6, <1>7, ThinkingStep
<1>9. Stepwise(w)'
    BY <1>1, <1>2, <1>6, <1>7, <1>8 DEF Stepwise
<1>10. Pageful(w)'
    BY <1>1, <1>4, <1>6, <1>7, <1>8 DEF Pageful, OnPage
<1>11. Sits(w)'
    BY <1>1, <1>2, <1>6, <1>7, <1>8 DEF Sits
<1>12. QED
    BY <1>8, <1>9, <1>10, <1>11

LEMMA NoAnswerKeeps ==
    ASSUME IInv, NEW w \in Workers, NoAnswer(w)
    PROVE  IInv'
<1>1. /\ at[w] = "search" /\ UNCHANGED <<db, tx, bank, handed, world>>
      /\ subject' = subject /\ job[w].kind \in Banking /\ job' = job /\ Now(w, "commit")
    BY DEF NoAnswer, world
<1>2. /\ job[w] \in JobRecord /\ Fits(Known(w), Ours(w), job[w].fetch)
      /\ job[w].kind \notin Sitting /\ Stepwise(w)
    BY <1>1, Standing DEF Fetches, Banking, Sitting
<1>3. /\ job' \in [Workers -> JobRecord] /\ at' \in [Workers -> Steps] /\ at'[w] = "commit"
      /\ \A v \in Workers \ {w} : at'[v] = at[v]
    BY <1>1 DEF Now, IInv, Typed, Steps
<1>4. Stepwise(w)' /\ Pageful(w)' /\ Sits(w)' => IInv'
    BY <1>1, <1>2, <1>3, ThinkingStep
<1>5. Stepwise(w)' /\ Pageful(w)' /\ Sits(w)'
    BY <1>1, <1>2, <1>3 DEF Stepwise, Pageful, Sits
<1>6. QED
    BY <1>4, <1>5

LEMMA LockedGentle ==
    ASSUME IInv, NEW w \in Workers, NEW row, Fits(Known(w), Ours(w), row),
           tx'[w] = Locked(tx[w], Only(Fetch, row))
    PROVE  Gentle(w)
<1> DEFINE y == tx[w]
           x == tx'[w]
<1>1. Session(w) /\ Fetches(w)
    BY Standing
<1>2. y = [own |-> y.own, dirty |-> y.dirty] /\ x = Locked(y, Only(Fetch, row))
    BY <1>1 DEF Session
<1> HIDE DEF x, y
<1>3. /\ x = [own |-> x.own, dirty |-> x.dirty] /\ x.dirty = y.dirty
      /\ DOMAIN x.own = DOMAIN y.own \cup {Fetch} /\ x.own[Fetch] = row
      /\ \A q \in DOMAIN y.own \ {Fetch} : x.own[q] = y.own[q]
    BY <1>2, LockOne
<1>4. /\ Holds(w)' = Holds(w) \cup {Fetch} /\ Dirty(w)' = Dirty(w) /\ Holds(w) = DOMAIN y.own
      /\ Dirty(w) = DOMAIN y.dirty
    BY <1>3 DEF Holds, Dirty, x, y
<1>5. /\ \A r \in Dirty(w) : x.dirty[r].loaded \in Values(r) /\ x.dirty[r].assigned \in Values(r)
      /\ Fetch \in Dirty(w) => Fits(Known(w), Ours(w), x.dirty[Fetch].assigned)
    BY <1>1, <1>3 DEF Session, Fetches, y
<1>6. QED
    BY <1>3, <1>4, <1>5 DEF Gentle, x, y

LEMMA GetRowKeeps ==
    ASSUME IInv, NEW w \in Workers, GetRow(w)
    PROVE  IInv'
<1> DEFINE next == IF job[w].kind = "sync" THEN "walk" ELSE "store"
<1>1. /\ at[w] = "row" /\ Dirty(w) = {} /\ UNCHANGED <<db, bank, handed, world>>
      /\ subject' = subject /\ carried' = carried /\ Now(w, next)
    BY DEF GetRow, Flushing, world
<1>2. PICK row : /\ Fits(Known(w), Ours(w), row) /\ job' = [job EXCEPT ![w].fetch = row]
                 /\ Gentle(w) /\ (Holds(w)' # Holds(w) => FreeFor(w, Fetch))
                 /\ DOMAIN tx' = Workers /\ \A v \in Workers \ {w} : tx'[v] = tx[v]
    <2>1. CASE Loaded(w).there
        <3>1. job' = [job EXCEPT ![w].fetch = Loaded(w)] /\ tx' = tx
            BY <2>1 DEF GetRow
        <3>2. QED
            BY <3>1, Standing, StillGentle DEF IInv, Typed
    <2>2. CASE ~Loaded(w).there
        <3> DEFINE row == [NoFetch EXCEPT !.there = TRUE]
        <3>1. /\ FreeFor(w, Fetch) /\ job' = [job EXCEPT ![w].fetch = row]
              /\ tx' = [tx EXCEPT ![w] = Locked(@, Only(Fetch, row))]
            BY <2>2 DEF GetRow
        <3>2. Fits(Known(w), Ours(w), row)
            <4>1. Known(w) \in SUBSET Items /\ Ours(w) \in SUBSET Items
                BY Standing
            <4>2. QED
                BY <4>1, NoFetchFits
        <3> HIDE DEF row
        <3>3. /\ tx'[w] = Locked(tx[w], Only(Fetch, row)) /\ DOMAIN tx' = Workers
              /\ \A v \in Workers \ {w} : tx'[v] = tx[v]
            BY <3>1 DEF IInv, Typed
        <3>4. Gentle(w)
            BY <3>2, <3>3, LockedGentle
        <3>5. QED
            BY <3>1, <3>2, <3>3, <3>4
    <2>3. QED
        BY <2>1, <2>2
<1>3. /\ job[w] \in JobRecord /\ row \in FetchRow /\ Stepwise(w) /\ Sits(w) /\ Pageful(w)
      /\ job[w].kind \in {"advance", "saturate", "sync"} \cup Sitting
    BY <1>1, <1>2, Standing DEF Stepwise, Fits
<1>4. [job[w] EXCEPT !.fetch = row] \in JobRecord
    BY <1>3 DEF JobRecord
<1>5. /\ job' \in [Workers -> JobRecord] /\ at' \in [Workers -> Steps] /\ at'[w] = next
      /\ \A v \in Workers \ {w} : at'[v] = at[v] /\ job'[v] = job[v]
      /\ job'[w] = [job[w] EXCEPT !.fetch = row]
    BY <1>1, <1>2, <1>4 DEF Now, IInv, Typed, Steps
<1>6. /\ job'[w].kind = job[w].kind /\ job'[w].made = job[w].made
      /\ job'[w].fetch = row /\ job'[w].cursor = job[w].cursor
      /\ job'[w].left = job[w].left /\ job'[w].last = job[w].last
      /\ job'[w].had = job[w].had /\ job'[w].attempt = job[w].attempt
    BY <1>3, <1>5 DEF JobRecord
<1>7. Moves(w) /\ Adding(w) = {} /\ Adding(w)' = {}
    BY <1>1, <1>2, <1>5 DEF Moves, Adding
<1>8. /\ Known(w)' = Known(w) /\ On' = On /\ Due' = Due
      /\ \A c : Upto(c)' = Upto(c)
    BY <1>2, <1>6, <1>7, GentleKeeps
<1>9. Stepwise(w)'
    BY <1>1, <1>2, <1>3, <1>5, <1>6 DEF Stepwise, Gentle
<1>10. Pageful(w)'
    BY <1>1, <1>3, <1>5, <1>6, <1>8 DEF Pageful, OnPage, Sitting
<1>11. Sits(w)'
    BY <1>1, <1>3, <1>5, <1>6, <1>8 DEF Sits, Sitting
<1>12. \A r \in Holds(w)' \ Holds(w) : FreeFor(w, r)
    BY <1>2 DEF Gentle
<1>13. QED
    BY <1>2, <1>6, <1>7, <1>9, <1>10, <1>11, <1>12, GentleStep

\* The checkpoint moves over nothing but what is known.
LEMMA AdvancedFits ==
    ASSUME NEW known \in SUBSET Items, NEW banked, NEW row, Fits(known, banked, row),
           NEW cursor \in 1 .. Pages, NEW last \in BOOLEAN,
           OnPage(cursor) \subseteq known, last => Items \subseteq known \/ cursor = Pages,
           ~last => cursor # Pages
    PROVE  Fits(known, banked, Advanced(row, cursor, last))
<1>1. /\ row \in FetchRow /\ row.cursor \in 1 .. Pages /\ Pages \in Nat \ {0}
      /\ \A i \in Items : PageOf[i] \in 1 .. Pages
    BY BankAssumption DEF Fits, FetchRow
<1>2. CASE cursor # row.cursor
    BY <1>2 DEF Advanced
<1>3. CASE cursor = row.cursor /\ last
    <2> DEFINE new == [row EXCEPT !.cursor = 1, !.status = "SATURATED"]
    <2>1. Advanced(row, cursor, last) = new
        BY <1>3 DEF Advanced
    <2>2. 1 \in 1 .. Pages
        BY <1>1
    <2>3. new \in FetchRow /\ new.promoted = row.promoted
        BY <1>1, <2>2 DEF FetchRow
    <2>4. Items \subseteq known
        <3> SUFFICES ASSUME NEW i \in Items, i \notin known, cursor = Pages PROVE FALSE
            BY <1>3
        <3>1. PageOf[i] >= Pages /\ PageOf[i] <= Pages
            BY <1>1, <1>3 DEF Fits
        <3>2. i \in OnPage(cursor)
            BY <1>1, <3>1 DEF OnPage
        <3>3. QED
            BY <3>2
    <2>5. QED
        BY <2>1, <2>3, <2>4 DEF Fits
<1>4. CASE cursor = row.cursor /\ ~last
    <2> DEFINE new == [row EXCEPT !.cursor = cursor + 1]
    <2>1. Advanced(row, cursor, last) = new
        BY <1>4 DEF Advanced
    <2>2. cursor + 1 \in 1 .. Pages
        BY <1>1, <1>4
    <2>3. /\ new \in FetchRow /\ new.promoted = row.promoted /\ new.cursor = cursor + 1
          /\ new.status = row.status
        BY <1>1, <2>2 DEF FetchRow
    <2>4. \A i \in Items \ known : PageOf[i] >= cursor + 1
        <3> SUFFICES ASSUME NEW i \in Items, i \notin known PROVE PageOf[i] >= cursor + 1
            OBVIOUS
        <3>1. PageOf[i] >= cursor /\ PageOf[i] # cursor
            BY <1>4 DEF Fits, OnPage
        <3>2. QED
            BY <1>1, <3>1
    <2>5. QED
        BY <2>1, <2>3, <2>4 DEF Fits
<1>5. QED
    BY <1>2, <1>3, <1>4

LEMMA PageStoredKeeps ==
    ASSUME IInv, NEW w \in Workers, PageStored(w)
    PROVE  IInv'
<1> DEFINE paged == Advanced(job[w].fetch, job[w].cursor, job[w].last)
           row == IF job[w].kind \in Banking THEN [paged EXCEPT !.lease = "none"] ELSE paged
           fresh == {i \in OnPage(job[w].cursor) \ (Rejected \cup job[w].had) : carried}
<1>1. /\ at[w] = "store" /\ job[w].left = {} /\ job[w].kind \notin {"ensure", "sync"}
      /\ UNCHANGED <<db, bank, handed, world>> /\ subject' = subject /\ carried' = carried
      /\ tx' = [tx EXCEPT ![w] = Assign(@, Only(Fetch, job[w].fetch), Only(Fetch, row))]
    BY DEF PageStored, world
<1>2. /\ job[w] \in JobRecord /\ Fits(Known(w), Ours(w), job[w].fetch)
      /\ Stepwise(w) /\ Sits(w) /\ Pageful(w) /\ Known(w) \in SUBSET Items
    BY Standing DEF Fetches
<1>3. /\ job[w].cursor \in 1 .. Pages /\ job[w].last \in BOOLEAN
      /\ job[w].fetch \in FetchRow /\ job[w].had \in SUBSET Items
    BY <1>2 DEF JobRecord
<1>4. /\ OnPage(job[w].cursor) \subseteq Known(w)
      /\ job[w].last <=> ~carried \/ job[w].cursor = Pages
    BY <1>1, <1>2 DEF Pageful
<1>5. job[w].last => Items \subseteq Known(w) \/ job[w].cursor = Pages
    BY <1>4 DEF Known
<1>6. Fits(Known(w), Ours(w), paged)
    BY <1>2, <1>3, <1>4, <1>5, AdvancedFits
<1>7. Fits(Known(w), Ours(w), row) /\ row \in FetchRow
    <2> HIDE DEF paged
    <2>1. Fits(Known(w), Ours(w), [paged EXCEPT !.lease = "none"])
        BY <1>6, FitsAlso
    <2>2. Fits(Known(w), Ours(w), row)
        BY <1>6, <2>1
    <2>3. QED
        BY <2>2 DEF Fits
<1>8. /\ fresh \in SUBSET Items /\ fresh \subseteq Known(w)
      /\ fresh = (OnPage(job[w].cursor) \cap Due) \ job[w].had
    BY <1>4 DEF OnPage, Due
<1>9. /\ Gentle(w) /\ Holds(w)' = Holds(w) /\ DOMAIN tx' = Workers
      /\ \A v \in Workers \ {w} : tx'[v] = tx[v]
    BY <1>1, <1>3, <1>7, AssignedGentle, ValuesOf DEF IInv, Typed
<1>10. Adding(w) = {}
    BY <1>1 DEF Adding
<1>11. CASE job[w].kind \in Sitting /\ fresh = {} /\ ~job[w].last
    <2> DEFINE next == job[w].cursor + 1
    <2>1. job' = [job EXCEPT ![w].fetch = row, ![w].cursor = @ + 1] /\ Now(w, "search")
        BY <1>11 DEF PageStored
    <2>2. next \in 1 .. Pages
        BY <1>3, <1>4, <1>11, BankAssumption
    <2>3. Upto(next) \subseteq job[w].had
        <3>1. Upto(job[w].cursor) \subseteq job[w].had
            BY <1>2, <1>11 DEF Sits
        <3>2. \A i \in Upto(next) : i \in Upto(job[w].cursor) \/ i \in OnPage(job[w].cursor) \cap Due
            BY <1>3, BankAssumption DEF Upto, Due, OnPage
        <3>3. QED
            BY <1>8, <1>11, <3>1, <3>2
    <2> HIDE DEF row, fresh, paged
    <2>4. [job[w] EXCEPT !.fetch = row, !.cursor = next] \in JobRecord
        BY <1>2, <1>7, <2>2 DEF JobRecord
    <2>5. /\ job' \in [Workers -> JobRecord] /\ at' \in [Workers -> Steps] /\ at'[w] = "search"
          /\ \A v \in Workers \ {w} : at'[v] = at[v] /\ job'[v] = job[v]
          /\ job'[w] = [job[w] EXCEPT !.fetch = row, !.cursor = next]
        BY <1>2, <2>1, <2>4 DEF Now, IInv, Typed, Steps
    <2>6. /\ job'[w].kind = job[w].kind /\ job'[w].made = job[w].made
          /\ job'[w].fetch = row /\ job'[w].cursor = next /\ job'[w].had = job[w].had
          /\ job'[w].attempt = job[w].attempt
        BY <1>2, <2>5 DEF JobRecord
    <2>7. Moves(w) /\ Adding(w)' = {}
        BY <1>1, <1>9, <2>5 DEF Moves, Adding
    <2>8. /\ Known(w)' = Known(w) /\ On' = On /\ Due' = Due
          /\ \A c : Upto(c)' = Upto(c)
        BY <1>7, <1>9, <1>10, <2>6, <2>7, GentleKeeps
    <2>9. Stepwise(w)'
        BY <1>1, <1>2, <1>9, <1>11, <2>5, <2>6 DEF Stepwise, Banking, Sitting
    <2>10. Pageful(w)'
        BY <2>5 DEF Pageful
    <2>11. Sits(w)'
        BY <1>1, <1>2, <1>11, <2>3, <2>5, <2>6, <2>8 DEF Sits
    <2>12. QED
        BY <1>7, <1>9, <1>10, <2>6, <2>7, <2>9, <2>10, <2>11, GentleStep
<1>12. CASE ~(job[w].kind \in Sitting /\ fresh = {} /\ ~job[w].last)
    <2> DEFINE next == IF job[w].kind \in Sitting THEN "append"
                       ELSE IF job[w].kind = "saturate" THEN "again" ELSE "commit"
    <2>1. job' = [job EXCEPT ![w].fetch = row, ![w].add = fresh] /\ Now(w, next)
        BY <1>12 DEF PageStored
    <2> HIDE DEF row, fresh, paged
    <2>2. [job[w] EXCEPT !.fetch = row, !.add = fresh] \in JobRecord
        BY <1>2, <1>7, <1>8 DEF JobRecord
    <2>3. /\ job' \in [Workers -> JobRecord] /\ at' \in [Workers -> Steps] /\ at'[w] = next
          /\ \A v \in Workers \ {w} : at'[v] = at[v] /\ job'[v] = job[v]
          /\ job'[w] = [job[w] EXCEPT !.fetch = row, !.add = fresh]
        BY <1>2, <2>1, <2>2 DEF Now, IInv, Typed, Steps
    <2>4. /\ job'[w].kind = job[w].kind /\ job'[w].made = job[w].made
          /\ job'[w].fetch = row /\ job'[w].cursor = job[w].cursor
          /\ job'[w].had = job[w].had /\ job'[w].attempt = job[w].attempt
          /\ job'[w].add = fresh /\ job'[w].last = job[w].last
        BY <1>2, <2>3 DEF JobRecord
    <2>5. Moves(w) /\ Adding(w)' = {}
        BY <1>1, <1>9, <2>3, <2>4 DEF Moves, Adding
    <2>6. /\ Known(w)' = Known(w) /\ On' = On /\ Due' = Due
          /\ \A c : Upto(c)' = Upto(c)
        BY <1>7, <1>9, <1>10, <2>4, <2>5, GentleKeeps
    <2>7. Stepwise(w)'
        BY <1>1, <1>2, <1>9, <2>3, <2>4 DEF Stepwise, Banking, Sitting
    <2>8. Pageful(w)'
        BY <1>1, <1>4, <2>3, <2>4 DEF Pageful
    <2>9. Sits(w)'
        BY <1>1, <1>2, <1>8, <2>3, <2>4, <2>6 DEF Sits, OnPage
    <2>10. QED
        BY <1>7, <1>9, <1>10, <2>4, <2>5, <2>7, <2>8, <2>9, GentleStep
<1>13. QED
    BY <1>11, <1>12

-----------------------------------------------------------------------------
(* The draw, the walk *)

LEMMA AllStoredKeeps ==
    ASSUME IInv, NEW w \in Workers, AllStored(w)
    PROVE  IInv'
<1> DEFINE row == IF job[w].last THEN [job[w].fetch EXCEPT !.status = "SATURATED"]
                  ELSE job[w].fetch
<1>1. /\ at[w] = "store" /\ job[w].left = {} /\ job[w].kind \in {"ensure", "sync"}
      /\ UNCHANGED <<db, job, bank, handed, world>> /\ subject' = subject
      /\ SetFetch(w, row) /\ Now(w, "commit")
    BY DEF AllStored, world
<1>2. /\ job[w] \in JobRecord /\ Fits(Known(w), Ours(w), job[w].fetch)
      /\ Stepwise(w) /\ Pageful(w) /\ job[w].kind \notin Sitting
    BY <1>1, Standing DEF Fetches, Sitting
<1>3. job[w].last => Items \subseteq Known(w)
    BY <1>1, <1>2 DEF Pageful
<1>4. Fits(Known(w), Ours(w), row)
    BY <1>2, <1>3, FitsAlso
<1> HIDE DEF row
<1>5. /\ Gentle(w) /\ Holds(w)' = Holds(w) /\ DOMAIN tx' = Workers
      /\ \A v \in Workers \ {w} : tx'[v] = tx[v]
    BY <1>1, <1>4, SetFetchGentle
<1>6. Moves(w) /\ at'[w] = "commit" /\ Adding(w) = {} /\ Adding(w)' = {}
    BY <1>1, <1>2, <1>5 DEF Moves, Now, IInv, Typed, Steps, Adding
<1>7. Stepwise(w)' /\ Pageful(w)' /\ Sits(w)'
    BY <1>1, <1>2, <1>6 DEF Stepwise, Pageful, Sits
<1>8. QED
    BY <1>1, <1>2, <1>5, <1>6, <1>7, GentleStep

LEMMA DrawKeeps ==
    ASSUME IInv, NEW w \in Workers, Draw(w)
    PROVE  IInv'
<1>1. /\ at[w] = "draw" /\ UNCHANGED <<db, bank, handed, world>> /\ subject' = subject
      /\ carried' = carried
    BY DEF Draw, world
<1>2. /\ job[w] \in JobRecord /\ Fits(Known(w), Ours(w), job[w].fetch)
      /\ Stepwise(w) /\ job[w].kind = "ensure" /\ Adding(w) = {} /\ Fetch \in Holds(w)
      /\ job[w].kind \notin Sitting
    BY <1>1, Standing DEF Fetches, Stepwise, Banking, Sitting, Adding
\* Ended with the row or the circuit assigned.
<1>3. ASSUME Gentle(w), Holds(w)' = Holds(w), DOMAIN tx' = Workers,
             \A v \in Workers \ {w} : tx'[v] = tx[v], job' = job, Now(w, "commit")
      PROVE  IInv'
    <2>1. Moves(w) /\ at'[w] = "commit" /\ Adding(w)' = {}
        BY <1>1, <1>2, <1>3 DEF Moves, Now, IInv, Typed, Steps, Adding
    <2>2. Stepwise(w)' /\ Pageful(w)' /\ Sits(w)'
        BY <1>1, <1>2, <1>3, <2>1 DEF Stepwise, Pageful, Sits
    <2>3. QED
        BY <1>2, <1>3, <2>1, <2>2, GentleStep
<1>4. CASE /\ ~carried /\ SetFetch(w, [job[w].fetch EXCEPT !.status = "SATURATED"])
           /\ Now(w, "commit") /\ UNCHANGED job
    <2>1. Items \subseteq Known(w)
        BY <1>4 DEF Known
    <2>2. Fits(Known(w), Ours(w), [job[w].fetch EXCEPT !.status = "SATURATED"])
        BY <1>2, <2>1, FitsAlso
    <2>3. QED
        BY <1>3, <1>4, <2>2, SetFetchGentle
<1>5. CASE /\ \E state \in {"EXHAUSTED", "BLOCKED"} :
                 tx' = [tx EXCEPT ![w] =
                          Assign(@, Only(Circuit, job[w].circuit),
                                 Only(Circuit, [job[w].circuit EXCEPT !.state = state,
                                                  !.cooling = (state = "EXHAUSTED") \/ @]))]
           /\ Now(w, "commit") /\ UNCHANGED job
    <2>1. PICK state \in {"EXHAUSTED", "BLOCKED"} :
                 tx' = [tx EXCEPT ![w] =
                          Assign(@, Only(Circuit, job[w].circuit),
                                 Only(Circuit, [job[w].circuit EXCEPT !.state = state,
                                                  !.cooling = (state = "EXHAUSTED") \/ @]))]
        BY <1>5
    <2> DEFINE new == [job[w].circuit EXCEPT !.state = state,
                                             !.cooling = (state = "EXHAUSTED") \/ @]
    <2>2. job[w].circuit \in CircuitRow
        BY <1>2 DEF JobRecord
    <2>3. new \in CircuitRow
        BY <2>2 DEF CircuitRow
    <2>4. /\ tx'[w] = Assign(tx[w], Only(Circuit, job[w].circuit), Only(Circuit, new))
          /\ DOMAIN tx' = Workers /\ \A v \in Workers \ {w} : tx'[v] = tx[v]
        BY <2>1 DEF IInv, Typed
    <2> HIDE DEF new
    <2>5. Gentle(w) /\ Holds(w)' = Holds(w)
        BY <2>2, <2>3, <2>4, AssignedGentle, ValuesOf, RowKinds
    <2>6. QED
        BY <1>3, <1>5, <2>4, <2>5
<1>6. CASE /\ carried
           /\ \E p \in 1 .. Pages :
                job' = [job EXCEPT ![w].left = {i \in Items : PageOf[i] <= p},
                                   ![w].last = (p = Pages)]
           /\ Now(w, "store") /\ UNCHANGED tx
    <2>1. PICK p \in 1 .. Pages :
                job' = [job EXCEPT ![w].left = {i \in Items : PageOf[i] <= p},
                                   ![w].last = (p = Pages)]
        BY <1>6
    <2> DEFINE left == {i \in Items : PageOf[i] <= p}
               last == (p = Pages)
    <2>2. left \in SUBSET Items /\ last \in BOOLEAN /\ (last => Items \subseteq left)
        BY BankAssumption
    <2>3. job' = [job EXCEPT ![w].left = left, ![w].last = last]
        BY <2>1
    <2> HIDE DEF left, last
    <2>4. [job[w] EXCEPT !.left = left, !.last = last] \in JobRecord
        BY <1>2, <2>2 DEF JobRecord
    <2>5. /\ job' \in [Workers -> JobRecord] /\ at' \in [Workers -> Steps] /\ at'[w] = "store"
          /\ \A v \in Workers \ {w} : at'[v] = at[v] /\ job'[v] = job[v]
          /\ job'[w] = [job[w] EXCEPT !.left = left, !.last = last]
        BY <1>6, <2>3, <2>4 DEF Now, IInv, Typed, Steps
    <2>6. /\ job'[w].kind = "ensure" /\ job'[w].made = job[w].made
          /\ job'[w].fetch = job[w].fetch /\ job'[w].left = left /\ job'[w].last = last
        BY <1>2, <2>5 DEF JobRecord
    <2>7. /\ Holds(w)' = Holds(w)
          /\ Stepwise(w)' /\ Pageful(w)' /\ Sits(w)' => IInv'
        BY <1>1, <1>2, <1>6, <2>5, <2>6, ThinkingStep
    <2>8. Stepwise(w)' /\ Pageful(w)' /\ Sits(w)'
        BY <1>1, <1>2, <2>2, <2>5, <2>6, <2>7 DEF Stepwise, Pageful, Sits, Banking, Sitting
    <2>9. QED
        BY <2>7, <2>8
<1>7. QED
    BY <1>4, <1>5, <1>6 DEF Draw

LEMMA SyncKeeps ==
    ASSUME IInv, NEW w \in Workers, Sync(w)
    PROVE  IInv'
<1>1. /\ at[w] = "idle" /\ subject /\ UNCHANGED <<db, tx, bank, handed, world>>
      /\ subject' = subject /\ job' = [job EXCEPT ![w] = Job("sync")] /\ Now(w, "row")
    BY DEF Sync, world
<1>2. /\ "sync" \in Kinds /\ "none" \in Kinds /\ job[w] = Job("none") /\ job[w].made = {}
      /\ Fits(Known(w), Ours(w), NoFetch)
    BY <1>1, Standing, JobIs DEF Stepwise, Kinds
<1>3. /\ job' \in [Workers -> JobRecord] /\ at' \in [Workers -> Steps] /\ at'[w] = "row"
      /\ \A v \in Workers \ {w} : at'[v] = at[v] /\ job'[v] = job[v]
      /\ job'[w] = Job("sync")
    BY <1>1, <1>2, JobIs DEF Now, IInv, Typed, Steps
<1>4. job'[w].kind = "sync" /\ job'[w].made = {} /\ job'[w].fetch = NoFetch
    BY <1>2, <1>3, JobIs
<1>5. Stepwise(w)' /\ Pageful(w)' /\ Sits(w)' => IInv'
    BY <1>1, <1>2, <1>3, <1>4, ThinkingStep
<1>6. Stepwise(w)' /\ Pageful(w)' /\ Sits(w)'
    BY <1>1, <1>3, <1>4 DEF Stepwise, Pageful, Sits, Banking, Sitting
<1>7. QED
    BY <1>5, <1>6

LEMMA WalkKeeps ==
    ASSUME IInv, NEW w \in Workers, Walk(w)
    PROVE  IInv'
<1>1. /\ at[w] = "walk" /\ UNCHANGED <<db, tx, bank, handed, world>> /\ subject' = subject
      /\ carried' = carried
    BY DEF Walk, world
<1>2. /\ job[w] \in JobRecord /\ Fits(Known(w), Ours(w), job[w].fetch)
      /\ Stepwise(w) /\ job[w].kind = "sync" /\ job[w].kind \notin Sitting
      /\ job[w].kind \notin Banking
    BY <1>1, Standing DEF Fetches, Stepwise, Sitting, Banking, Visits
<1>3. CASE Now(w, "commit") /\ UNCHANGED job
    <2>1. /\ job' \in [Workers -> JobRecord] /\ at' \in [Workers -> Steps]
          /\ at'[w] = "commit" /\ \A v \in Workers \ {w} : at'[v] = at[v]
        BY <1>3 DEF Now, IInv, Typed, Steps
    <2>2. Stepwise(w)' /\ Pageful(w)' /\ Sits(w)' => IInv'
        BY <1>1, <1>2, <1>3, <2>1, ThinkingStep
    <2>3. Stepwise(w)' /\ Pageful(w)' /\ Sits(w)'
        BY <1>1, <1>2, <1>3, <2>1 DEF Stepwise, Pageful, Sits
    <2>4. QED
        BY <2>2, <2>3
<1>4. CASE /\ \E p \in 0 .. Pages :
                job' = [job EXCEPT
                            ![w].left = {i \in Items : carried /\ PageOf[i] <= p},
                            ![w].last = ~carried \/ p = Pages]
           /\ Now(w, "store")
    <2>1. PICK p \in 0 .. Pages :
                job' = [job EXCEPT
                            ![w].left = {i \in Items : carried /\ PageOf[i] <= p},
                            ![w].last = ~carried \/ p = Pages]
        BY <1>4
    <2> DEFINE left == {i \in Items : carried /\ PageOf[i] <= p}
               last == ~carried \/ p = Pages
    <2>2. left \in SUBSET Items /\ last \in BOOLEAN /\ (last => Items \subseteq left \cup Known(w))
        BY BankAssumption DEF Known
    <2>3. job' = [job EXCEPT ![w].left = left, ![w].last = last]
        BY <2>1
    <2> HIDE DEF left, last
    <2>4. [job[w] EXCEPT !.left = left, !.last = last] \in JobRecord
        BY <1>2, <2>2 DEF JobRecord
    <2>5. /\ job' \in [Workers -> JobRecord] /\ at' \in [Workers -> Steps] /\ at'[w] = "store"
          /\ \A v \in Workers \ {w} : at'[v] = at[v] /\ job'[v] = job[v]
          /\ job'[w] = [job[w] EXCEPT !.left = left, !.last = last]
        BY <1>4, <2>3, <2>4 DEF Now, IInv, Typed, Steps
    <2>6. /\ job'[w].kind = "sync" /\ job'[w].made = job[w].made
          /\ job'[w].fetch = job[w].fetch /\ job'[w].left = left /\ job'[w].last = last
        BY <1>2, <2>5 DEF JobRecord
    <2>7. /\ Holds(w)' = Holds(w) /\ Known(w)' = Known(w)
          /\ Stepwise(w)' /\ Pageful(w)' /\ Sits(w)' => IInv'
        BY <1>1, <1>2, <2>5, <2>6, ThinkingStep
    <2>8. Stepwise(w)' /\ Pageful(w)' /\ Sits(w)'
        BY <1>1, <1>2, <2>2, <2>5, <2>6, <2>7 DEF Stepwise, Pageful, Sits, Banking, Sitting
    <2>9. QED
        BY <2>7, <2>8
<1>5. QED
    BY <1>3, <1>4 DEF Walk

-----------------------------------------------------------------------------
(* A student begins, or goes on *)

LEMMA FirstPage == Upto(1) = {}
<1>1. \A i \in Items : PageOf[i] >= 1 /\ PageOf[i] \in Nat
    BY BankAssumption
<1>2. QED
    BY <1>1 DEF Upto, Due

LEMMA StartKeeps ==
    ASSUME IInv, NEW w \in Workers, Start(w)
    PROVE  IInv'
<1>1. /\ at[w] = "idle" /\ subject /\ ~db[Attempt].there
      /\ UNCHANGED <<db, tx, bank, handed, world>> /\ subject' = subject
      /\ \A v \in Workers : job[v].kind # "start"
      /\ job' = [job EXCEPT ![w] = Job("start")] /\ Now(w, "search")
    BY DEF Start, world
<1>2. /\ "start" \in Kinds /\ "none" \in Kinds /\ job[w] = Job("none") /\ job[w].made = {}
      /\ Fits(Known(w), Ours(w), NoFetch)
    <2>1. "start" \in Kinds /\ "continue" \in Kinds /\ "none" \in Kinds
        BY DEF Kinds, Sitting
    <2>2. job[w] = Job("none")
        BY <1>1, Standing DEF Stepwise
    <2>3. job[w].made = {} /\ Fits(Known(w), Ours(w), NoFetch)
        BY <2>1, <2>2, Standing, JobIs
    <2>4. QED
        BY <2>1, <2>2, <2>3
<1>3. /\ job' \in [Workers -> JobRecord] /\ at' \in [Workers -> Steps] /\ at'[w] = "search"
      /\ \A v \in Workers \ {w} : at'[v] = at[v] /\ job'[v] = job[v]
      /\ job'[w] = Job("start")
    BY <1>1, <1>2, JobIs DEF Now, IInv, Typed, Steps
<1>4. /\ job'[w].kind = "start" /\ job'[w].made = {} /\ job'[w].fetch = NoFetch
      /\ job'[w].had = {} /\ job'[w].cursor = 1 /\ job'[w].attempt = NoAttempt
    BY <1>2, <1>3, JobIs
<1>5. /\ \A c : Upto(c)' = Upto(c)
      /\ Stepwise(w)' /\ Pageful(w)' /\ Sits(w)' => IInv'
    BY <1>1, <1>2, <1>3, <1>4, ThinkingStep
<1>6. Stepwise(w)' /\ Pageful(w)'
    BY <1>1, <1>3, <1>4 DEF Stepwise, Pageful, Banking, Visits, Sitting
<1>7. Sits(w)'
    BY <1>1, <1>3, <1>4, <1>5, FirstPage DEF Sits
<1>8. QED
    BY <1>5, <1>6, <1>7

LEMMA ContinueKeeps ==
    ASSUME IInv, NEW w \in Workers, NEW c \in handed, Continue(w, c)
    PROVE  IInv'
<1> DEFINE new == [Job("continue") EXCEPT !.cursor = c, !.attempt = db[Attempt], !.had = On]
<1>1. /\ at[w] = "idle" /\ db[Attempt].open
      /\ UNCHANGED <<db, tx, bank, handed, world>> /\ subject' = subject
      /\ job' = [job EXCEPT ![w] = new] /\ Now(w, "search")
    BY DEF Continue, InProgress, On, world
<1>2. /\ "continue" \in Kinds /\ "none" \in Kinds /\ job[w] = Job("none") /\ job[w].made = {}
      /\ Fits(Known(w), Ours(w), NoFetch)
    <2>1. "start" \in Kinds /\ "continue" \in Kinds /\ "none" \in Kinds
        BY DEF Kinds, Sitting
    <2>2. job[w] = Job("none")
        BY <1>1, Standing DEF Stepwise
    <2>3. job[w].made = {} /\ Fits(Known(w), Ours(w), NoFetch)
        BY <2>1, <2>2, Standing, JobIs
    <2>4. QED
        BY <2>1, <2>2, <2>3
<1>3. /\ db[Attempt].there /\ db[Attempt].marks = Cardinality(On) /\ subject
      /\ c \in 2 .. Pages /\ Upto(c) \subseteq On /\ db[Attempt] \in AttemptRow
    BY <1>1, RowKinds, ValuesOf DEF IInv, Paper, Typed
<1>4. c \in 1 .. Pages /\ On \in SUBSET Items
    BY <1>3, BankAssumption DEF On
<1>5. /\ Job("continue") \in JobRecord /\ Job("continue").kind = "continue"
      /\ Job("continue").fetch = NoFetch /\ Job("continue").made = {}
    BY <1>2, JobIs
<1>6. /\ new \in JobRecord /\ new.kind = "continue" /\ new.made = {} /\ new.fetch = NoFetch
      /\ new.had = On /\ new.cursor = c /\ new.attempt = db[Attempt]
    BY <1>3, <1>4, <1>5 DEF JobRecord
<1> HIDE DEF new
<1>7. /\ job' \in [Workers -> JobRecord] /\ at' \in [Workers -> Steps] /\ at'[w] = "search"
      /\ \A v \in Workers \ {w} : at'[v] = at[v] /\ job'[v] = job[v] /\ job'[w] = new
    BY <1>1, <1>6 DEF Now, IInv, Typed, Steps
<1>8. job'[w] = new
    BY <1>1, <1>6 DEF IInv, Typed
<1>9. /\ On' = On /\ \A b : Upto(b)' = Upto(b)
      /\ Stepwise(w)' /\ Pageful(w)' /\ Sits(w)' => IInv'
    BY <1>1, <1>2, <1>6, <1>7, <1>8, ThinkingStep
<1>10. Stepwise(w)' /\ Pageful(w)'
    BY <1>1, <1>3, <1>6, <1>7, <1>8 DEF Stepwise, Pageful, Banking, Visits, Sitting
<1>11. Sits(w)'
    BY <1>1, <1>3, <1>6, <1>7, <1>8, <1>9 DEF Sits
<1>12. QED
    BY <1>9, <1>10, <1>11

-----------------------------------------------------------------------------
(* A request ends *)

\* A closed session stands on what is committed.
LEMMA ClosedSound ==
    ASSUME NEW w \in Workers, Typed', tx'[w] = Closed, job'[w] = Job("none"), at'[w] = "idle"
    PROVE  Sound(w)'
<1>1. /\ "none" \in Kinds /\ "none" \notin Sitting /\ "none" \notin Banking
    BY DEF Kinds, Sitting, Banking, Visits
<1>2. /\ job'[w].kind = "none" /\ job'[w].made = {} /\ job'[w].fetch = NoFetch
    BY <1>1, JobIs
<1>3. /\ tx'[w] = [own |-> tx'[w].own, dirty |-> tx'[w].dirty]
      /\ Holds(w)' = {} /\ Dirty(w)' = {}
    <2>1. DOMAIN <<>> = {}
        OBVIOUS
    <2>2. tx'[w].own = <<>> /\ tx'[w].dirty = <<>>
        BY DEF Closed
    <2>3. QED
        BY <2>1, <2>2 DEF Closed, Holds, Dirty
<1>4. Adding(w)' = {}
    BY <1>1, <1>2 DEF Adding
<1>5. Known(w)' \in SUBSET Items /\ Ours(w)' \in SUBSET Items
    BY <1>2 DEF Known, Ours, Banked
<1>6. Fits(Known(w)', Ours(w)', NoFetch)
    BY <1>5, NoFetchFits
<1>7. Session(w)' /\ Stepwise(w)' /\ Stages(w)'
    BY <1>1, <1>2, <1>3 DEF Session, Stepwise, Stages
<1>8. Fetches(w)' /\ Pageful(w)' /\ Sits(w)' /\ Appends(w)'
    BY <1>1, <1>2, <1>3, <1>4, <1>6 DEF Fetches, Pageful, Sits, Appends
<1>9. QED
    BY <1>7, <1>8 DEF Sound

LEMMA EndKeeps ==
    ASSUME IInv, NEW w \in Workers, End(w), UNCHANGED <<db, bank, handed, world>>
    PROVE  IInv'
<1>1. Job("none") \in JobRecord /\ Job("none").kind = "none"
    BY JobIs DEF Kinds
<1>2. Moves(w) /\ tx'[w] = Closed /\ job'[w] = Job("none") /\ at'[w] = "idle"
    BY <1>1 DEF End, Now, Moves, IInv, Typed, Steps
<1>3. Typed'
    BY <1>2 DEF Moves, world, IInv, Typed
<1>4. Sound(w)'
    BY <1>2, <1>3, ClosedSound
<1>5. Holds(w)' = {}
    <2>1. tx'[w].own = <<>> /\ DOMAIN <<>> = {}
        BY <1>2 DEF Closed
    <2>2. QED
        BY <2>1 DEF Holds
<1>6. QED
    BY <1>1, <1>2, <1>4, <1>5, MoveKeeps

LEMMA RollbackKeeps ==
    ASSUME IInv, NEW w \in Workers, Rollback(w) \/ NotFound(w)
    PROVE  IInv'
BY EndKeeps DEF Rollback, NotFound

-----------------------------------------------------------------------------
(* An item is stored *)
\* A set of naturals has a least element.
LEMMA LeastOf ==
    ASSUME NEW S \in SUBSET Nat, S # {}
    PROVE  \E least \in S : \A s \in S : least <= s
<1>1. \E b \in S : \A c \in S : ~(<<c, b>> \in OpToRel(<, Nat))
    BY NatLessThanWellFounded, WFMin
<1>2. PICK b \in S : \A c \in S : ~(c < b)
    BY <1>1 DEF OpToRel
<1>3. QED
    BY <1>2


LEMMA StoreKeeps ==
    ASSUME IInv, NEW w \in Workers, Store(w)
    PROVE  IInv'
<1> DEFINE i == First(job[w].left)
           row == job[w].fetch
           counted == Counted(row, i)
<1>1. /\ at[w] = "store" /\ job[w].left # {} /\ Dirty(w) = {} /\ FreeFor(w, Staged(i))
      /\ UNCHANGED <<db, at, bank, handed, world>> /\ subject' = subject /\ carried' = carried
    BY DEF Store, Flushing, world
<1>2. /\ job[w] \in JobRecord /\ Fits(Known(w), Ours(w), row) /\ row \in FetchRow
      /\ Session(w) /\ Stepwise(w) /\ Stages(w) /\ Fetches(w) /\ Sits(w) /\ Pageful(w)
      /\ Appends(w) /\ Known(w) \in SUBSET Items /\ Ours(w) \in SUBSET Items
      /\ subject
    BY <1>1, Standing DEF Fetches, Fits, Stepwise
<1>3. i \in job[w].left /\ i \in Items
    <2>1. job[w].left \in SUBSET Items /\ Items \in SUBSET Nat
        BY <1>2, BankAssumption DEF JobRecord
    <2>2. \E l \in job[w].left : \A j \in job[w].left : l <= j
        BY <1>1, <2>1, LeastOf
    <2>3. QED
        BY <2>1, <2>2 DEF First
<1> HIDE DEF i
<1>4. Adding(w) = {} /\ (at'[w] = "store" => Adding(w)' = {})
    BY <1>1 DEF Adding
<1>5. CASE See(w, Staged(i)).there
    <2>1. job' = [job EXCEPT ![w].left = @ \ {i}] /\ tx' = tx
        BY <1>5 DEF Store, i
    <2>2. [job[w] EXCEPT !.left = @ \ {i}] \in JobRecord
        BY <1>2 DEF JobRecord
    <2>3. /\ job' \in [Workers -> JobRecord] /\ at'[w] = "store" /\ at' \in [Workers -> Steps]
          /\ \A v \in Workers \ {w} : at'[v] = at[v] /\ job'[v] = job[v]
          /\ job'[w] = [job[w] EXCEPT !.left = @ \ {i}]
        BY <1>1, <2>1, <2>2 DEF IInv, Typed
    <2>4. /\ job'[w].kind = job[w].kind /\ job'[w].made = job[w].made
          /\ job'[w].fetch = job[w].fetch /\ job'[w].cursor = job[w].cursor
          /\ job'[w].had = job[w].had /\ job'[w].attempt = job[w].attempt
          /\ job'[w].last = job[w].last /\ job'[w].left = job[w].left \ {i}
        BY <1>2, <2>3 DEF JobRecord
    <2>5. i \in Known(w)
        BY <1>3, <1>5 DEF Known
    <2>6. /\ Holds(w)' = Holds(w) /\ Known(w)' = Known(w) /\ On' = On
          /\ \A c : Upto(c)' = Upto(c)
          /\ Stepwise(w)' /\ Pageful(w)' /\ Sits(w)' => IInv'
        BY <1>1, <1>2, <2>1, <2>3, <2>4, ThinkingStep
    <2>7. Stepwise(w)'
        BY <1>1, <1>2, <2>3, <2>4, <2>6 DEF Stepwise
    <2>8. Pageful(w)'
        BY <1>1, <1>2, <2>3, <2>4, <2>5, <2>6 DEF Pageful, OnPage
    <2>9. Sits(w)'
        BY <1>1, <1>2, <2>3, <2>4, <2>6 DEF Sits
    <2>10. QED
        BY <2>6, <2>7, <2>8, <2>9
<1>6. CASE ~See(w, Staged(i)).there
    <2> DEFINE made == IF i \in Rejected THEN job[w].made ELSE job[w].made \cup {i}
               y == Locked(tx[w], Only(Staged(i), [there |-> TRUE]))
    <2>1. /\ tx' = [tx EXCEPT ![w] =
                      Assign(Locked(@, Only(Staged(i), [there |-> TRUE])),
                             Only(Fetch, row), Only(Fetch, counted))]
          /\ job' = [job EXCEPT ![w].left = @ \ {i}, ![w].fetch = counted,
                        ![w].made = IF i \in Rejected THEN @ ELSE @ \cup {i}]
        BY <1>6 DEF Store, i
    <2>2. /\ tx'[w] = Assign(y, Only(Fetch, row), Only(Fetch, counted))
          /\ DOMAIN tx' = Workers /\ \A v \in Workers \ {w} : tx'[v] = tx[v]
        BY <2>1 DEF IInv, Typed
    <2>3. job' = [job EXCEPT ![w].left = @ \ {i}, ![w].fetch = counted, ![w].made = made]
        BY <2>1 DEF IInv, Typed
    \* The item is new to the bank.
    <2>4. Staged(i) \notin Holds(w) /\ ~db[Staged(i)].there /\ i \notin Known(w) \ {j \in Items : ~carried}
        BY <1>2, <1>3, <1>6 DEF See, Stages, Known
    <2>5. i \notin Banked /\ i \notin job[w].made
        <3>1. bank[i] = 0
            BY <1>3, <2>4 DEF IInv, Bank, StoredOnce
        <3>2. QED
            BY <1>2, <1>3, <2>4, <3>1 DEF Banked, Stages
    <2>6. made \in SUBSET Items
        BY <1>2, <1>3 DEF JobRecord
    <2> DEFINE known == Known(w) \cup {i}
               ours == Banked \cup made
    <2>7. known \in SUBSET Items /\ ours \in SUBSET Items
        BY <1>2, <1>3, <2>6 DEF Banked
    <2>8. Fits(known, ours, counted)
        <3>1. CASE i \in Rejected
            <4>1. counted = row /\ ours = Ours(w)
                BY <3>1 DEF Counted, Ours
            <4>2. QED
                BY <1>2, <2>7, <4>1, FitsStill
        <3>2. CASE i \notin Rejected
            <4>1. counted = [row EXCEPT !.promoted = @ + 1]
                BY <3>2 DEF Counted
            <4>2. ours = Ours(w) \cup {i} /\ i \in Items \ Ours(w)
                BY <1>3, <2>5, <3>2 DEF Ours
            <4>3. /\ Cardinality(ours) = Cardinality(Ours(w)) + 1
                  /\ Cardinality(Ours(w)) \in Nat
                BY <1>2, <4>2, Counts
            <4>4. Cardinality(ours) <= Cardinality(Items) /\ Cardinality(Items) \in Nat
                BY <2>7, Counts
            <4>5. row.promoted \in Nat /\ row.promoted <= Cardinality(Ours(w))
                BY <1>2, <4>4 DEF Fits, FetchRow
            <4>6. row.promoted + 1 \in 0 .. Cardinality(Items)
                BY <4>3, <4>4, <4>5
            <4>7. counted \in FetchRow /\ counted.promoted = row.promoted + 1
                  /\ counted.status = row.status /\ counted.cursor = row.cursor
                BY <1>2, <4>1, <4>6 DEF FetchRow
            <4>8. counted.promoted <= Cardinality(ours)
                BY <4>3, <4>5, <4>7
            <4>9. QED
                BY <1>2, <4>7, <4>8 DEF Fits
        <3>3. QED
            BY <3>1, <3>2
    <2>9. counted \in FetchRow
        BY <2>8 DEF Fits
    <2> HIDE DEF counted, made
    <2>10. [job[w] EXCEPT !.left = @ \ {i}, !.fetch = counted, !.made = made] \in JobRecord
        BY <1>2, <2>6, <2>9 DEF JobRecord
    <2>11. /\ job' \in [Workers -> JobRecord] /\ at'[w] = "store" /\ at' \in [Workers -> Steps]
           /\ \A v \in Workers \ {w} : at'[v] = at[v] /\ job'[v] = job[v]
           /\ job'[w] = [job[w] EXCEPT !.left = @ \ {i}, !.fetch = counted, !.made = made]
        BY <1>1, <2>3, <2>10 DEF IInv, Typed
    <2>12. /\ job'[w].kind = job[w].kind /\ job'[w].made = made
           /\ job'[w].fetch = counted /\ job'[w].cursor = job[w].cursor
           /\ job'[w].had = job[w].had /\ job'[w].attempt = job[w].attempt
           /\ job'[w].last = job[w].last /\ job'[w].left = job[w].left \ {i}
        BY <1>2, <2>11 DEF JobRecord
    \* The session.
    <2>13. /\ y = [own |-> y.own, dirty |-> y.dirty] /\ y.dirty = tx[w].dirty
           /\ DOMAIN y.own = Holds(w) \cup {Staged(i)} /\ y.own[Staged(i)] = [there |-> TRUE]
           /\ \A q \in Holds(w) \ {Staged(i)} : y.own[q] = tx[w].own[q]
        BY <1>2, LockOne DEF Session, Holds
    <2> HIDE DEF y
    <2> DEFINE x == tx'[w]
    <2>14. x = Assign(y, Only(Fetch, row), Only(Fetch, counted)) /\ DOMAIN y.dirty = {}
        BY <1>1, <2>2, <2>13 DEF Dirty
    <2> HIDE DEF x
    <2>15. /\ x = [own |-> x.own, dirty |-> x.dirty] /\ x.own = y.own
           /\ DOMAIN x.dirty \subseteq {Fetch}
           /\ Fetch \in DOMAIN x.dirty => /\ x.dirty[Fetch].assigned = counted
                                          /\ x.dirty[Fetch].loaded = row
        BY <2>13, <2>14, AssignOne
    <2>16. /\ Holds(w)' = Holds(w) \cup {Staged(i)} /\ Dirty(w)' \subseteq {Fetch}
           /\ x.own[Staged(i)] = [there |-> TRUE]
           /\ \A q \in Holds(w) \ {Staged(i)} : x.own[q] = tx[w].own[q]
           /\ Fetch \in Dirty(w)' => /\ x.dirty[Fetch].assigned = counted
                                     /\ x.dirty[Fetch].loaded = row
        BY <2>13, <2>15 DEF Holds, Dirty, x
    <2>17. [there |-> TRUE] \in StagedRow /\ [there |-> TRUE].there
        BY DEF StagedRow
    <2>18. Session(w)'
        <3>1. Holds(w)' \subseteq Rows /\ \A r \in Holds(w)' : x.own[r] \in Values(r)
            BY <1>2, <1>3, <2>16, <2>17, RowKinds, ValuesOf DEF Session
        <3>2. Dirty(w)' \subseteq Rows \ StagedRows
            BY <2>16, RowKinds
        <3>3. \A r \in Dirty(w)' : x.dirty[r].loaded \in Values(r) /\ x.dirty[r].assigned \in Values(r)
            BY <1>2, <2>9, <2>16, ValuesOf
        <3>4. QED
            BY <2>15, <3>1, <3>2, <3>3 DEF Session, x
    <2>19. ASSUME NEW j \in Items
           PROVE  See(w, Staged(j))'.there <=> j = i \/ See(w, Staged(j)).there
        <3>1. CASE j = i
            BY <2>16, <2>17, <3>1 DEF See, x
        <3>2. CASE j # i
            <4>1. Staged(j) # Staged(i)
                BY <1>3, <3>2, RowKinds
            <4>2. See(w, Staged(j))' = See(w, Staged(j))
                BY <1>1, <2>16, <4>1 DEF See, x
            <4>3. QED
                BY <3>2, <4>2
        <3>3. QED
            BY <3>1, <3>2
    <2>20. /\ Known(w)' = known /\ Ours(w)' = ours /\ On' = On /\ Due' = Due
           /\ \A c : Upto(c)' = Upto(c)
        BY <1>1, <1>3, <2>12, <2>19 DEF Known, Ours, Banked, On, Due, Upto
    <2>21. Stages(w)'
        <3> SUFFICES ASSUME NEW j \in Items
                     PROVE  /\ Staged(j) \in Holds(w)' => x.own[Staged(j)].there /\ ~db[Staged(j)].there
                            /\ j \in made <=> j \notin Rejected /\ Staged(j) \in Holds(w)'
            BY <1>1, <2>12 DEF Stages, x
        <3>1. CASE j = i
            BY <2>4, <2>5, <2>16, <2>17, <3>1 DEF made
        <3>2. CASE j # i
            <4>1. Staged(j) # Staged(i)
                BY <1>3, <3>2, RowKinds
            <4>2. Staged(j) \in Holds(w)' <=> Staged(j) \in Holds(w)
                BY <2>16, <4>1
            <4>3. j \in made <=> j \in job[w].made
                BY <3>2 DEF made
            <4>4. QED
                BY <1>2, <2>16, <4>1, <4>2, <4>3 DEF Stages
        <3>3. QED
            BY <3>1, <3>2
    <2>22. Fetches(w)'
        <3>1. Fetch \in Holds(w)' => Fits(known, ours, x.own[Fetch])
            <4> SUFFICES ASSUME Fetch \in Holds(w)' PROVE Fits(known, ours, x.own[Fetch])
                OBVIOUS
            <4>1. Fetch \in Holds(w) /\ x.own[Fetch] = tx[w].own[Fetch]
                BY <1>3, <2>16, RowKinds
            <4>2. Fits(Known(w), Ours(w), x.own[Fetch])
                BY <1>2, <4>1 DEF Fetches
            <4>3. Ours(w) \subseteq ours
                BY DEF Ours, made
            <4>4. QED
                BY <1>2, <2>7, <4>2, <4>3, FitsStill
        <3>2. QED
            BY <2>8, <2>12, <2>16, <2>20, <3>1 DEF Fetches, x
    <2>23. Appends(w)'
        <3>1. \A r \in PaperRows \cup {Attempt} : r \notin Holds(w)' \cup Dirty(w)'
            BY <1>2, <1>3, <1>4, <2>16, RowKinds DEF Appends, PaperRows
        <3>2. Adding(w)' = {}
            BY <1>4, <2>11
        <3>3. QED
            BY <3>1, <3>2, RowKinds DEF Appends
    <2>24. Stepwise(w)'
        BY <1>1, <1>2, <2>11, <2>12, <2>16 DEF Stepwise
    <2>25. Pageful(w)'
        BY <1>1, <1>2, <2>11, <2>12, <2>20 DEF Pageful, OnPage
    <2>26. Sits(w)'
        BY <1>1, <1>2, <2>11, <2>12, <2>20 DEF Sits
    <2>27. Sound(w)'
        BY <2>18, <2>21, <2>22, <2>23, <2>24, <2>25, <2>26 DEF Sound
    <2>28. Moves(w)
        BY <1>1, <2>2, <2>11 DEF Moves
    <2>29. QED
        BY <1>1, <2>12, <2>16, <2>27, <2>28, MoveKeeps
<1>7. QED
    BY <1>5, <1>6

-----------------------------------------------------------------------------
(* The page is appended to the paper *)

\* The added questions follow each other without a gap.
LEMMA Ranks ==
    ASSUME NEW add \in SUBSET Items
    PROVE  /\ \A i \in add : Cardinality({j \in add : j < i}) \in 0 .. Cardinality(add) - 1
           /\ {Cardinality({j \in add : j < i}) : i \in add} = 0 .. Cardinality(add) - 1
<1> DEFINE rank == [i \in add |-> Cardinality({j \in add : j < i})]
           places == 0 .. Cardinality(add) - 1
<1>1. IsFiniteSet(add) /\ Cardinality(add) \in Nat /\ add \in SUBSET Nat
    BY Counts, BankAssumption
<1>2. ASSUME NEW i \in add PROVE rank[i] \in places
    <2> DEFINE below == {j \in add : j < i}
    <2>1. below \in SUBSET add /\ i \in add /\ i \notin below
        BY <1>1
    <2>2. IsFiniteSet(below) /\ Cardinality(below) \in Nat
        BY <1>1, <2>1, FS_Subset, FS_CardinalityType
    <2>3. Cardinality(below) <= Cardinality(add)
        BY <1>1, <2>1, FS_Subset
    <2>4. Cardinality(below) # Cardinality(add)
        BY <1>1, <2>1, FS_Subset
    <2>5. rank[i] = Cardinality(below)
        OBVIOUS
    <2>6. QED
        BY <1>1, <2>2, <2>3, <2>4, <2>5
<1>3. ASSUME NEW i \in add, NEW k \in add, i < k PROVE rank[i] < rank[k]
    <2> DEFINE below == {j \in add : j < i}
               more == {j \in add : j < k}
    <2>1. below \in SUBSET more /\ i \in more /\ i \notin below /\ more \in SUBSET add
        <3>1. i \in Nat /\ k \in Nat /\ \A j \in add : j \in Nat
            BY <1>1
        <3>2. \A j \in add : j < i => j < k
            BY <1>3, <3>1
        <3>3. ~(i < i)
            BY <3>1
        <3>4. QED
            BY <1>3, <3>2, <3>3
    <2>2. IsFiniteSet(more) /\ Cardinality(more) \in Nat /\ Cardinality(below) \in Nat
        BY <1>1, <2>1, FS_Subset, FS_CardinalityType
    <2>3. Cardinality(below) <= Cardinality(more) /\ Cardinality(below) # Cardinality(more)
        BY <2>1, <2>2, FS_Subset
    <2>4. rank[i] = Cardinality(below) /\ rank[k] = Cardinality(more)
        OBVIOUS
    <2>5. QED
        BY <2>2, <2>3, <2>4
<1>4. rank \in Injection(add, places)
    <2>1. rank \in [add -> places]
        BY <1>2
    <2>2. ASSUME NEW i \in add, NEW k \in add, rank[i] = rank[k] PROVE i = k
        <3>1. i \in Nat /\ k \in Nat /\ rank[i] \in Int /\ rank[k] \in Int
            BY <1>1, <1>2
        <3> HIDE DEF rank
        <3>2. QED
            BY <1>3, <2>2, <3>1
    <2> HIDE DEF rank, places
    <2>3. QED
        BY <2>1, <2>2 DEF Injection, IsInjective
<1>5. IsFiniteSet(places) /\ Cardinality(places) = Cardinality(add)
    <2> DEFINE last == Cardinality(add) - 1
    <2>1. 0 \in Int /\ last \in Int
        BY <1>1
    <2> HIDE DEF last
    <2>2. /\ IsFiniteSet(0 .. last)
          /\ Cardinality(0 .. last) = IF 0 > last THEN 0 ELSE last - 0 + 1
        BY <2>1, FS_Interval
    <2>3. (IF 0 > last THEN 0 ELSE last - 0 + 1) = Cardinality(add)
        BY <1>1 DEF last
    <2>4. QED
        BY <2>2, <2>3 DEF last
<1>6. rank \in Surjection(add, places)
    <2> HIDE DEF rank, places
    <2>1. QED
        BY <1>4, <1>5, FS_Injection
<1>7. \A p \in places : \E i \in add : rank[i] = p
    BY <1>6 DEF Surjection
<1>8. \A i \in add : rank[i] = Cardinality({j \in add : j < i})
    OBVIOUS
<1> HIDE DEF rank
<1>9. QED
    BY <1>2, <1>7, <1>8

LEMMA AppendKeeps ==
    ASSUME IInv, NEW w \in Workers, Append(w)
    PROVE  IInv'
<1> DEFINE had == job[w].had
           add == job[w].add
           values == Appended(w)
           seen == [r \in DOMAIN values |-> IF r = Attempt THEN job[w].attempt
                                            ELSE [there |-> FALSE, order |-> 0]]
           marked == [job[w].attempt EXCEPT !.there = TRUE, !.marks = @ + Cardinality(add),
                                      !.open = IF job[w].kind = "start" THEN TRUE ELSE @]
<1>1. /\ at[w] = "append" /\ Dirty(w) = {} /\ (job[w].kind = "continue" \/ add # {})
      /\ UNCHANGED <<db, job, bank, handed, world>> /\ Now(w, "commit")
      /\ tx' = [tx EXCEPT ![w] = Assign(@, seen, values)]
      /\ subject' = subject /\ carried' = carried
    BY DEF Append, Flushing, world
<1>2. /\ job[w] \in JobRecord /\ Session(w) /\ Stepwise(w) /\ Stages(w) /\ Fetches(w)
      /\ Pageful(w) /\ Sits(w) /\ Appends(w)
    BY Standing
<1>3. job[w].kind \in Sitting /\ Adding(w) = {}
    BY <1>1, <1>2 DEF Stepwise, Adding
<1>4. /\ had \in SUBSET Items /\ add \in SUBSET Items /\ had \cap add = {}
      /\ job[w].attempt \in AttemptRow
    BY <1>1, <1>2, <1>3 DEF JobRecord, Sits
<1>5. /\ Cardinality(had) \in Nat /\ Cardinality(add) \in Nat /\ Cardinality(Items) \in Nat
      /\ Cardinality(had) + Cardinality(add) <= Cardinality(Items)
      /\ add # {} => Cardinality(add) # 0
    <2>1. IsFiniteSet(had) /\ IsFiniteSet(add) /\ had \cup add \in SUBSET Items
        BY <1>4, Counts
    <2>2. /\ Cardinality(had) \in Nat /\ Cardinality(add) \in Nat /\ Cardinality(Items) \in Nat
          /\ Cardinality(had \cup add) <= Cardinality(Items)
        BY <1>4, <2>1, Counts
    <2>3. Cardinality(had \cup add) = Cardinality(had) + Cardinality(add) - Cardinality(had \cap add)
        BY <2>1, FS_Union
    <2>4. Cardinality(had \cap add) = 0
        BY <1>4, FS_EmptySet
    <2>5. add # {} => Cardinality(add) # 0
        BY <2>1, FS_EmptySet
    <2>6. QED
        BY <2>2, <2>3, <2>4, <2>5
<1>6. /\ job[w].attempt.marks = Cardinality(had)
      /\ job[w].kind = "start" => ~job[w].attempt.there
      /\ job[w].kind = "continue" => job[w].attempt.there
    <2>1. CASE job[w].kind = "start"
        <3>1. had = {} /\ job[w].attempt = NoAttempt
            BY <1>2, <1>3, <2>1 DEF Sits
        <3>2. Cardinality(had) = 0
            BY <3>1, FS_EmptySet
        <3>3. QED
            BY <2>1, <3>1, <3>2 DEF NoAttempt
    <2>2. CASE job[w].kind = "continue"
        BY <1>2, <1>3, <2>2 DEF Sits
    <2>3. QED
        BY <1>3, <2>1, <2>2 DEF Sitting
<1>7. /\ marked \in AttemptRow /\ marked.there
      /\ marked.marks = Cardinality(had) + Cardinality(add)
    <2>1. job[w].attempt.marks + Cardinality(add) \in 0 .. 2 * Cardinality(Items)
        BY <1>5, <1>6
    <2>2. (IF job[w].kind = "start" THEN TRUE ELSE job[w].attempt.open) \in BOOLEAN
        BY <1>4 DEF AttemptRow
    <2>3. QED
        BY <1>4, <1>6, <2>1, <2>2 DEF AttemptRow
<1>8. marked # job[w].attempt <=> add # {}
    <2>1. CASE add # {}
        <3>1. marked.marks # job[w].attempt.marks
            BY <1>5, <1>6, <1>7, <2>1
        <3>2. QED
            BY <2>1, <3>1
    <2>2. CASE add = {}
        <3>1. Cardinality(add) = 0 /\ job[w].kind = "continue"
            BY <1>1, <2>2, FS_EmptySet
        <3>2. /\ marked.there = job[w].attempt.there /\ marked.open = job[w].attempt.open
              /\ marked.marks = job[w].attempt.marks
            <4>1. marked.marks = job[w].attempt.marks
                <5> HIDE DEF marked
                <5>1. QED
                    BY <1>5, <1>6, <1>7, <3>1
            <4>2. marked.there = TRUE /\ marked.open = job[w].attempt.open
                BY <1>4, <3>1 DEF AttemptRow
            <4>3. job[w].attempt.there = TRUE
                BY <1>4, <1>6, <3>1 DEF AttemptRow
            <4>4. QED
                BY <4>1, <4>2, <4>3
        <3> HIDE DEF marked
        <3>3. marked = job[w].attempt
            BY <1>4, <1>7, <3>2 DEF AttemptRow
        <3>4. QED
            BY <2>2, <3>3
    <2>3. QED
        BY <2>1, <2>2
<1>9. /\ DOMAIN values = {Attempt} \cup {OnPaper(i) : i \in add}
      /\ values[Attempt] = marked
      /\ \A i \in add : values[OnPaper(i)] = Placed(w, i)
    <2>1. /\ DOMAIN values = {Attempt} \cup {OnPaper(i) : i \in add}
          /\ values[Attempt] = marked
        BY DEF Appended
    <2>2. ASSUME NEW i \in add PROVE values[OnPaper(i)] = Placed(w, i)
        <3>1. OnPaper(i) # Attempt /\ OnPaper(i) \in {OnPaper(j) : j \in add}
            BY <1>4, RowKinds
        <3>2. OnPaper(i)[2] = i
            BY DEF OnPaper
        <3>3. QED
            BY <3>1, <3>2 DEF Appended, Placed
    <2>3. QED
        BY <2>1, <2>2
<1>10. /\ seen[Attempt] = job[w].attempt
       /\ \A i \in add : seen[OnPaper(i)] = NotPlaced
    BY <1>4, <1>9, RowKinds DEF NotPlaced
<1>11. \A i \in add : Placed(w, i) \in PaperRow /\ Placed(w, i) # NotPlaced
    <2> SUFFICES ASSUME NEW i \in add PROVE Placed(w, i) \in PaperRow /\ Placed(w, i) # NotPlaced
        OBVIOUS
    <2>1. Cardinality({j \in add : j < i}) \in 0 .. Cardinality(add) - 1
        BY <1>4, Ranks
    <2>2. Cardinality(had) + Cardinality({j \in add : j < i}) \in 0 .. Cardinality(Items)
        BY <1>5, <2>1
    <2>3. Placed(w, i).there /\ ~NotPlaced.there
        BY DEF Placed, NotPlaced
    <2>4. QED
        BY <2>2, <2>3 DEF Placed, PaperRow
<1> DEFINE changed == {r \in DOMAIN values : values[r] # seen[r]}
<1> HIDE DEF values, seen, marked
<1>12. /\ changed \in SUBSET DOMAIN values
       /\ \A q \in DOMAIN values : q \in changed <=> values[q] # seen[q]
    OBVIOUS
<1>13. changed = IF add = {} THEN {} ELSE {Attempt} \cup {OnPaper(i) : i \in add}
    BY <1>8, <1>9, <1>10, <1>11
<1> HIDE DEF changed
<1> DEFINE x == tx'[w]
<1>14. /\ x = Assign(tx[w], seen, values) /\ DOMAIN tx' = Workers
       /\ \A v \in Workers \ {w} : tx'[v] = tx[v]
    BY <1>1 DEF IInv, Typed
<1>15. tx[w] = [own |-> tx[w].own, dirty |-> tx[w].dirty] /\ DOMAIN tx[w].dirty = {}
    BY <1>1, <1>2 DEF Session, Dirty
<1> HIDE DEF x
<1>16. /\ x = [own |-> x.own, dirty |-> x.dirty] /\ x.own = tx[w].own
       /\ DOMAIN x.dirty = changed
       /\ \A r \in changed : x.dirty[r].loaded = seen[r] /\ x.dirty[r].assigned = values[r]
    BY <1>12, <1>14, <1>15, AssignEffect
<1>17. Holds(w)' = Holds(w) /\ Dirty(w)' = changed
    BY <1>16 DEF Holds, Dirty, x
<1>18. /\ at' \in [Workers -> Steps] /\ at'[w] = "commit" /\ job' = job
       /\ \A v \in Workers \ {w} : at'[v] = at[v]
    BY <1>1 DEF Now, IInv, Typed, Steps
<1>19. Moves(w)
    BY <1>1, <1>14, <1>18 DEF Moves, IInv, Typed
<1>20. /\ \A r : See(w, r)' = See(w, r)
       /\ Known(w)' = Known(w) /\ Ours(w)' = Ours(w) /\ On' = On /\ Due' = Due
       /\ \A c : Upto(c)' = Upto(c)
       /\ \A i : Placed(w, i)' = Placed(w, i)
    <2>1. \A r : See(w, r)' = See(w, r)
        BY <1>1, <1>16, <1>17 DEF See, x
    <2>2. QED
        BY <1>1, <2>1 DEF Known, Ours, Banked, On, Due, Upto, Placed
<1>21. Session(w)'
    <2>1. /\ NotPlaced \in PaperRow /\ Values(Attempt) = AttemptRow
          /\ \A i \in add : Values(OnPaper(i)) = PaperRow
        BY <1>4, <1>5, ValuesOf DEF NotPlaced, PaperRow
    <2>2. \A r \in changed : x.dirty[r].loaded \in Values(r) /\ x.dirty[r].assigned \in Values(r)
        BY <1>4, <1>7, <1>9, <1>10, <1>11, <1>13, <1>16, <2>1
    <2>3. changed \subseteq Rows \ StagedRows
        BY <1>4, <1>13, RowKinds
    <2>4. QED
        BY <1>2, <1>16, <1>17, <2>2, <2>3 DEF Session, x
<1>22. Stages(w)'
    BY <1>1, <1>2, <1>16, <1>17 DEF Stages, x
<1>23. Fetches(w)'
    <2>1. Fetch \notin changed
        BY <1>4, <1>13, RowKinds
    <2>2. QED
        BY <1>1, <1>2, <1>16, <1>17, <1>20, <2>1 DEF Fetches, x
<1>24. Stepwise(w)'
    BY <1>1, <1>2, <1>3, <1>17, <1>18 DEF Stepwise
<1>25. Pageful(w)'
    BY <1>1, <1>2, <1>3, <1>18, <1>20 DEF Pageful
<1>26. Sits(w)'
    BY <1>1, <1>2, <1>3, <1>18, <1>20 DEF Sits
<1>27. Adding(w)' = add
    BY <1>3, <1>18 DEF Adding
<1>28. Appends(w)'
    <2>1. \A r \in PaperRows \cup {Attempt} : r \notin Holds(w)
        BY <1>2, <1>3 DEF Appends, PaperRows
    <2>2. ASSUME NEW i \in Items PROVE OnPaper(i) \in changed <=> i \in add
        BY <1>4, <1>13, RowKinds
    <2>3. Attempt \in changed <=> add # {}
        BY <1>4, <1>13, RowKinds
    <2>4. ASSUME NEW i \in Items, OnPaper(i) \in changed
          PROVE  x.dirty[OnPaper(i)].loaded = NotPlaced /\ x.dirty[OnPaper(i)].assigned = Placed(w, i)
        BY <1>9, <1>10, <1>16, <2>2, <2>4
    <2>5. Attempt \in changed => /\ x.dirty[Attempt].loaded = job[w].attempt
                                 /\ x.dirty[Attempt].assigned = marked
        BY <1>9, <1>10, <1>16
    <2>6. QED
        BY <1>7, <1>17, <1>18, <1>20, <1>27, <2>1, <2>2, <2>3, <2>4, <2>5, RowKinds DEF Appends, x
<1>29. Sound(w)'
    BY <1>21, <1>22, <1>23, <1>24, <1>25, <1>26, <1>28 DEF Sound
<1>30. QED
    BY <1>17, <1>18, <1>19, <1>29, MoveKeeps

-----------------------------------------------------------------------------
(* A row is flushed *)

\* The columns of a merged row.
LEMMA ChangedFetch ==
    ASSUME NEW known, NEW banked, NEW now, Fits(known, banked, now),
           NEW loaded \in FetchRow, NEW assigned, Fits(known, banked, assigned)
    PROVE  Fits(known, banked, Changed(now, loaded, assigned))
<1> DEFINE v == Changed(now, loaded, assigned)
<1>1. now \in FetchRow /\ assigned \in FetchRow
    BY DEF Fits
<1>2. v = [there |-> IF assigned.there # loaded.there THEN assigned.there ELSE now.there,
           status |-> IF assigned.status # loaded.status THEN assigned.status ELSE now.status,
           lease |-> IF assigned.lease # loaded.lease THEN assigned.lease ELSE now.lease,
           cursor |-> IF assigned.cursor # loaded.cursor THEN assigned.cursor ELSE now.cursor,
           promoted |-> IF assigned.promoted # loaded.promoted THEN assigned.promoted
                        ELSE now.promoted]
    BY <1>1 DEF Changed, FetchRow
<1> HIDE DEF v
<1>3. v \in FetchRow
    BY <1>1, <1>2 DEF FetchRow
<1>4. \A i \in Items \ known : v.status # "SATURATED" /\ PageOf[i] >= v.cursor
    BY <1>2 DEF Fits
<1>5. v.promoted <= Cardinality(banked)
    BY <1>2 DEF Fits
<1>6. QED
    BY <1>3, <1>4, <1>5 DEF Fits, v

LEMMA ChangedOther ==
    ASSUME NEW R \in {CircuitRow, AttemptRow, PaperRow},
           NEW now \in R, NEW loaded \in R, NEW assigned \in R
    PROVE  Changed(now, loaded, assigned) \in R
<1>1. CASE R = CircuitRow
    BY <1>1 DEF Changed, CircuitRow
<1>2. CASE R = AttemptRow
    BY <1>2 DEF Changed, AttemptRow
<1>3. CASE R = PaperRow
    BY <1>3 DEF Changed, PaperRow
<1>4. QED
    BY <1>1, <1>2, <1>3

\* A place on the paper, inserted.
LEMMA ChangedPlace ==
    ASSUME NEW v \in PaperRow, v.there
    PROVE  Changed(NotPlaced, NotPlaced, v) = v
<1> DEFINE c == Changed(NotPlaced, NotPlaced, v)
<1>1. DOMAIN NotPlaced = {"there", "order"} /\ NotPlaced.there = FALSE /\ NotPlaced.order = 0
    BY DEF NotPlaced
<1>2. c = [f \in {"there", "order"} |-> IF v[f] # NotPlaced[f] THEN v[f] ELSE NotPlaced[f]]
    BY <1>1 DEF Changed
<1>3. v = [there |-> v.there, order |-> v.order]
    BY DEF PaperRow
<1>4. c = [f \in {"there", "order"} |-> v[f]]
    BY <1>2
<1>5. QED
    BY <1>3, <1>4

\* The attempt's marks, when they change.
LEMMA ChangedAttempt ==
    ASSUME NEW now \in AttemptRow, NEW loaded \in AttemptRow, NEW assigned \in AttemptRow,
           assigned.there, now.there \/ ~loaded.there, assigned.marks # loaded.marks
    PROVE  /\ Changed(now, loaded, assigned).there
           /\ Changed(now, loaded, assigned).marks = assigned.marks
BY DEF Changed, AttemptRow

LEMMA FlushKeeps ==
    ASSUME IInv, NEW w \in Workers, NEW r \in Rows, Flush(w, r)
    PROVE  IInv'
<1> DEFINE y == tx[w]
           x == tx'[w]
           now == See(w, r)
           loaded == y.dirty[r].loaded
           assigned == y.dirty[r].assigned
<1>1. /\ r \in Dirty(w) /\ FreeFor(w, r) /\ loaded.there = now.there
      /\ UNCHANGED <<db, at, job, bank, handed, world>>
      /\ tx' = [tx EXCEPT ![w] = Flushed(tx[w], r, now)]
      /\ subject' = subject /\ carried' = carried
    BY DEF Flush, world
<1>2. /\ Session(w) /\ Stepwise(w) /\ Stages(w) /\ Fetches(w) /\ Pageful(w) /\ Sits(w)
      /\ Appends(w) /\ job[w] \in JobRecord
    BY Standing
<1>3. /\ x = Flushed(y, r, now) /\ DOMAIN tx' = Workers
      /\ \A v \in Workers \ {w} : tx'[v] = tx[v]
    BY <1>1 DEF IInv, Typed
<1>4. y = [own |-> y.own, dirty |-> y.dirty] /\ r \in DOMAIN y.dirty
    BY <1>1, <1>2 DEF Session, Dirty
<1>5. /\ now \in Values(r) /\ loaded \in Values(r) /\ assigned \in Values(r)
      /\ r \in Rows \ StagedRows
    BY <1>1, <1>2, SeeIsValue DEF Session, IInv
<1> HIDE DEF x, now
<1>6. /\ x = [own |-> x.own, dirty |-> x.dirty]
      /\ DOMAIN x.own = DOMAIN y.own \cup {r} /\ DOMAIN x.dirty = DOMAIN y.dirty \ {r}
      /\ x.own[r] = Changed(now, loaded, assigned)
      /\ \A q \in DOMAIN y.own \ {r} : x.own[q] = y.own[q]
      /\ \A q \in DOMAIN y.dirty \ {r} : x.dirty[q] = y.dirty[q]
    BY <1>3, <1>4, FlushOne
<1>7. /\ Holds(w)' = Holds(w) \cup {r} /\ Dirty(w)' = Dirty(w) \ {r}
      /\ Holds(w) = DOMAIN y.own /\ Dirty(w) = DOMAIN y.dirty
    BY <1>6 DEF Holds, Dirty, x
<1>8. Moves(w)
    BY <1>1, <1>3 DEF Moves, IInv, Typed
<1>9. x.own[r] \in Values(r)
    <2>1. CASE r = Fetch
        <3>1. Fits(Known(w), Ours(w), now) /\ Fits(Known(w), Ours(w), assigned)
            BY <1>1, <1>2, <2>1, Standing DEF Fetches, now
        <3>2. loaded \in FetchRow /\ Values(r) = FetchRow
            BY <1>5, <2>1, ValuesOf
        <3>3. Fits(Known(w), Ours(w), Changed(now, loaded, assigned))
            BY <3>1, <3>2, ChangedFetch
        <3>4. QED
            BY <1>6, <3>2, <3>3 DEF Fits
    <2>2. CASE r # Fetch
        <3>1. Values(r) \in {CircuitRow, AttemptRow, PaperRow}
            BY <1>5, <2>2, RowKinds, ValuesOf
        <3>2. QED
            BY <1>5, <1>6, <3>1, ChangedOther
    <2>3. QED
        BY <2>1, <2>2
<1>10. Session(w)'
    BY <1>2, <1>5, <1>6, <1>7, <1>9 DEF Session, x
<1>11. \A i \in Items : Staged(i) # r
    BY <1>5, RowKinds
<1>12. /\ \A i \in Items : See(w, Staged(i))' = See(w, Staged(i))
       /\ Known(w)' = Known(w) /\ Ours(w)' = Ours(w) /\ On' = On /\ Due' = Due
       /\ \A c : Upto(c)' = Upto(c)
       /\ \A i : Placed(w, i)' = Placed(w, i)
    <2>1. \A i \in Items : See(w, Staged(i))' = See(w, Staged(i))
        BY <1>1, <1>6, <1>7, <1>11 DEF See, x
    <2>2. QED
        BY <1>1, <2>1 DEF Known, Ours, Banked, On, Due, Upto, Placed
<1>13. Stages(w)'
    BY <1>1, <1>2, <1>6, <1>7, <1>11 DEF Stages, x
<1>14. Fetches(w)'
    <2>1. Fetch \in Holds(w)' => Fits(Known(w), Ours(w), x.own[Fetch])
        <3>1. CASE r = Fetch
            <4>1. Fits(Known(w), Ours(w), now) /\ Fits(Known(w), Ours(w), assigned)
                BY <1>1, <1>2, <3>1, Standing DEF Fetches, now
            <4>2. QED
                BY <1>5, <1>6, <3>1, <4>1, ChangedFetch, ValuesOf
        <3>2. CASE r # Fetch
            BY <1>2, <1>6, <1>7, <3>2 DEF Fetches
        <3>3. QED
            BY <3>1, <3>2
    <2>2. Fetch \in Dirty(w)' => Fits(Known(w), Ours(w), x.dirty[Fetch].assigned)
        BY <1>2, <1>6, <1>7 DEF Fetches
    <2>3. QED
        BY <1>1, <1>2, <1>12, <2>1, <2>2 DEF Fetches, x
<1>15. Stepwise(w)'
    <2>1. at[w] # "idle"
        <3> SUFFICES ASSUME at[w] = "idle" PROVE FALSE
            OBVIOUS
        <3>1. tx[w] = Closed
            BY <1>2 DEF Stepwise
        <3>2. tx[w].dirty = <<>> /\ DOMAIN <<>> = {}
            BY <3>1 DEF Closed
        <3>3. QED
            BY <1>1, <3>2 DEF Dirty
    <2>2. QED
        BY <1>1, <1>2, <1>7, <2>1 DEF Stepwise
<1>16. Pageful(w)' /\ Sits(w)'
    BY <1>1, <1>2, <1>12 DEF Pageful, Sits, OnPage
<1>17. Adding(w)' = Adding(w)
    BY <1>1 DEF Adding
<1>18. Appends(w)'
    <2>1. ASSUME NEW i \in Items, OnPaper(i) \in Holds(w)'
          PROVE  x.own[OnPaper(i)] = Placed(w, i) /\ ~db[OnPaper(i)].there
        <3>1. CASE OnPaper(i) = r
            <4>1. loaded = NotPlaced /\ assigned = Placed(w, i)
                BY <1>1, <1>2, <3>1 DEF Appends
            <4>2. CASE r \in Holds(w)
                <5>1. now = Placed(w, i) /\ Placed(w, i).there /\ ~NotPlaced.there
                    BY <1>2, <3>1, <4>2 DEF Appends, See, now, Placed, NotPlaced
                <5>2. QED
                    BY <1>1, <4>1, <5>1
            <4>3. CASE r \notin Holds(w)
                <5>1. now = db[OnPaper(i)]
                    BY <3>1, <4>3 DEF See, now
                <5>2. ~db[OnPaper(i)].there
                    <6>1. NotPlaced.there = FALSE
                        BY DEF NotPlaced
                    <6>2. db[OnPaper(i)].there = NotPlaced.there
                        BY <1>1, <4>1, <5>1
                    <6>3. QED
                        BY <6>1, <6>2
                <5>3. now = NotPlaced
                    BY <5>1, <5>2 DEF IInv, Paper, On
                <5>4. Placed(w, i).there /\ Placed(w, i) \in PaperRow
                    BY <1>5, <3>1, <4>1, ValuesOf DEF Placed
                <5>5. QED
                    BY <1>6, <3>1, <4>1, <5>2, <5>3, <5>4, ChangedPlace
            <4>4. QED
                BY <4>2, <4>3
        <3>2. CASE OnPaper(i) # r
            BY <1>2, <1>6, <1>7, <2>1, <3>2 DEF Appends
        <3>3. QED
            BY <3>1, <3>2
    <2>2. ASSUME Attempt \in Holds(w)'
          PROVE  /\ x.own[Attempt].there
                 /\ x.own[Attempt].marks = Cardinality(job[w].had) + Cardinality(job[w].add)
        <3>1. CASE Attempt = r
            <4>1. /\ loaded = job[w].attempt /\ assigned.there
                  /\ assigned.marks = Cardinality(job[w].had) + Cardinality(job[w].add)
                  /\ Adding(w) # {}
                BY <1>1, <1>2, <3>1 DEF Appends
            <4>2. /\ job[w].kind \in Sitting /\ at[w] = "commit" /\ job[w].add # {}
                BY <4>1 DEF Adding
            <4>3. /\ job[w].had \in SUBSET Items /\ job[w].add \in SUBSET Items
                BY <1>2 DEF JobRecord
            <4>4. /\ Cardinality(job[w].had) \in Nat /\ Cardinality(job[w].add) \in Nat
                  /\ Cardinality(job[w].add) # 0
                BY <4>2, <4>3, Counts, FS_EmptySet
            <4>5. /\ loaded.marks = Cardinality(job[w].had)
                  /\ now.there \/ ~loaded.there
                <5>1. CASE job[w].kind = "start"
                    <6>1. job[w].had = {} /\ job[w].attempt = NoAttempt
                        BY <1>2, <4>2, <5>1 DEF Sits
                    <6>2. Cardinality(job[w].had) = 0
                        BY <6>1, FS_EmptySet
                    <6>3. QED
                        BY <4>1, <6>1, <6>2 DEF NoAttempt
                <5>2. CASE job[w].kind = "continue"
                    <6>1. /\ job[w].attempt.marks = Cardinality(job[w].had) /\ db[Attempt].there
                        BY <1>2, <4>2, <5>2 DEF Sits
                    <6>2. now.there
                        BY <1>2, <3>1, <6>1 DEF See, now, Appends
                    <6>3. QED
                        BY <4>1, <6>1, <6>2
                <5>3. QED
                    BY <4>2, <5>1, <5>2 DEF Sitting
            <4>6. assigned.marks # loaded.marks
                BY <4>1, <4>4, <4>5
            <4>7. now \in AttemptRow /\ loaded \in AttemptRow /\ assigned \in AttemptRow
                BY <1>5, <3>1, ValuesOf
            <4>8. QED
                BY <1>6, <3>1, <4>1, <4>5, <4>6, <4>7, ChangedAttempt
        <3>2. CASE Attempt # r
            BY <1>2, <1>6, <1>7, <2>2, <3>2 DEF Appends
        <3>3. QED
            BY <3>1, <3>2
    <2>3. /\ \A i \in Items : OnPaper(i) \in Holds(w)' \cup Dirty(w)' <=> i \in Adding(w)
          /\ Attempt \in Holds(w)' \cup Dirty(w)' <=> Adding(w) # {}
        BY <1>1, <1>2, <1>7 DEF Appends
    <2>4. /\ \A i \in Items : OnPaper(i) \in Dirty(w)' =>
                /\ x.dirty[OnPaper(i)].loaded = NotPlaced
                /\ x.dirty[OnPaper(i)].assigned = Placed(w, i)
          /\ Attempt \in Dirty(w)' =>
                /\ x.dirty[Attempt].loaded = job[w].attempt
                /\ x.dirty[Attempt].assigned.there
                /\ x.dirty[Attempt].assigned.marks =
                      Cardinality(job[w].had) + Cardinality(job[w].add)
        BY <1>2, <1>6, <1>7 DEF Appends
    <2>5. QED
        BY <1>1, <1>12, <1>17, <2>1, <2>2, <2>3, <2>4 DEF Appends, x
<1>19. Sound(w)'
    BY <1>10, <1>13, <1>14, <1>15, <1>16, <1>18 DEF Sound
<1>20. QED
    BY <1>1, <1>7, <1>8, <1>19, MoveKeeps

-----------------------------------------------------------------------------
(* A commit *)

\* What a commit makes of the rows.
LEMMA CommitRows ==
    ASSUME IInv, NEW w \in Workers, Commit(w)
    PROVE  /\ at[w] = "commit" /\ Dirty(w) = {} /\ carried' = carried /\ subject' = subject
           /\ DOMAIN db' = Rows /\ \A r \in Rows : db'[r] = See(w, r)
           /\ \A i \in Items : db'[Staged(i)].there <=> db[Staged(i)].there \/ Staged(i) \in Holds(w)
           /\ Stored' = Known(w) /\ Banked' = Ours(w) /\ Due' = Due
           /\ \A c : Upto(c)' = Upto(c)
           /\ \A i \in Items : i \in Adding(w) => db'[OnPaper(i)] = Placed(w, i) /\ i \notin On
           /\ \A i \in Items : i \notin Adding(w) => db'[OnPaper(i)] = db[OnPaper(i)]
           /\ On' = On \cup Adding(w) /\ Adding(w) \in SUBSET Items
           /\ Adding(w) = {} => db'[Attempt] = db[Attempt]
           /\ Adding(w) # {} =>
                 /\ db'[Attempt].there
                 /\ db'[Attempt].marks = Cardinality(job[w].had) + Cardinality(Adding(w))
           /\ db[Attempt].there => db'[Attempt].there
<1>1. /\ at[w] = "commit" /\ Dirty(w) = {} /\ carried' = carried /\ subject' = subject
      /\ db' = CommittedBy(w)
      /\ bank' = [i \in Items |-> IF i \in job[w].made THEN bank[i] + 1 ELSE bank[i]]
    BY DEF Commit, Flushing, world
<1>2. /\ Session(w) /\ Stages(w) /\ Appends(w) /\ Sits(w) /\ job[w] \in JobRecord
    BY Standing
<1>3. DOMAIN db' = Rows /\ \A r \in Rows : db'[r] = See(w, r)
    BY <1>1 DEF CommittedBy
<1>4. ASSUME NEW i \in Items
      PROVE  /\ db'[Staged(i)].there <=> See(w, Staged(i)).there
             /\ See(w, Staged(i)).there <=> db[Staged(i)].there \/ Staged(i) \in Holds(w)
    <2>1. db'[Staged(i)] = See(w, Staged(i))
        BY <1>3, RowKinds
    <2>2. See(w, Staged(i)).there <=> db[Staged(i)].there \/ Staged(i) \in Holds(w)
        BY <1>2, KnownAndOurs DEF IInv, Bank
    <2>3. QED
        BY <2>1, <2>2
<1>5. Stored' = Known(w) /\ Due' = Due /\ \A c : Upto(c)' = Upto(c)
    BY <1>1, <1>4 DEF Stored, Known, Due, Upto
<1>6. Banked' = Ours(w)
    <2>1. ASSUME NEW i \in Items PROVE bank'[i] > 0 <=> bank[i] > 0 \/ i \in job[w].made
        <3>1. bank[i] \in {0, 1}
            BY DEF IInv, Bank, StoredOnce
        <3>2. bank'[i] = IF i \in job[w].made THEN bank[i] + 1 ELSE bank[i]
            BY <1>1
        <3>3. QED
            BY <3>1, <3>2
    <2>2. job[w].made \in SUBSET Items
        BY <1>2 DEF JobRecord
    <2>3. QED
        BY <2>1, <2>2 DEF Banked, Ours
<1>7. ASSUME NEW i \in Items
      PROVE  /\ i \in Adding(w) => db'[OnPaper(i)] = Placed(w, i) /\ i \notin On
             /\ i \notin Adding(w) => db'[OnPaper(i)] = db[OnPaper(i)]
    <2>1. db'[OnPaper(i)] = See(w, OnPaper(i))
        BY <1>3, RowKinds
    <2>2. OnPaper(i) \in Holds(w) <=> i \in Adding(w)
        BY <1>1, <1>2 DEF Appends
    <2>3. OnPaper(i) \in Holds(w) => tx[w].own[OnPaper(i)] = Placed(w, i) /\ ~db[OnPaper(i)].there
        BY <1>2 DEF Appends
    <2>4. QED
        BY <2>1, <2>2, <2>3 DEF See, On
<1>8. Adding(w) \in SUBSET Items
    BY <1>2 DEF Adding, JobRecord
<1>9. On' = On \cup Adding(w)
    <2>1. \A i \in Items : Placed(w, i).there
        BY DEF Placed
    <2>2. \A i \in Items : db'[OnPaper(i)].there <=> i \in Adding(w) \/ db[OnPaper(i)].there
        BY <1>7, <2>1
    <2>3. QED
        BY <1>8, <2>2 DEF On
<1>10. /\ Adding(w) = {} => db'[Attempt] = db[Attempt]
       /\ Adding(w) # {} =>
             /\ db'[Attempt].there
             /\ db'[Attempt].marks = Cardinality(job[w].had) + Cardinality(Adding(w))
    <2>1. db'[Attempt] = See(w, Attempt)
        BY <1>3, RowKinds
    <2>2. Attempt \in Holds(w) <=> Adding(w) # {}
        BY <1>1, <1>2 DEF Appends
    <2>3. Adding(w) # {} => Adding(w) = job[w].add
        BY DEF Adding
    <2>4. QED
        BY <1>2, <2>1, <2>2, <2>3 DEF See, Appends
<1>11. db[Attempt].there => db'[Attempt].there
    BY <1>10
<1>12. QED
    BY <1>1, <1>3, <1>4, <1>5, <1>6, <1>7, <1>8, <1>9, <1>10, <1>11

LEMMA CommitBank ==
    ASSUME IInv, NEW w \in Workers, Commit(w)
    PROVE  Bank'
<1>1. bank' = [i \in Items |-> IF i \in job[w].made THEN bank[i] + 1 ELSE bank[i]]
    BY DEF Commit
<1>2. StoredOnce'
    <2> SUFFICES ASSUME NEW i \in Items
                 PROVE  bank'[i] = IF db'[Staged(i)].there /\ i \notin Rejected THEN 1 ELSE 0
        BY DEF StoredOnce
    <2>1. /\ Staged(i) \in Holds(w) => ~db[Staged(i)].there
          /\ i \in job[w].made <=> i \notin Rejected /\ Staged(i) \in Holds(w)
        BY Standing DEF Stages
    <2>2. bank[i] = IF db[Staged(i)].there /\ i \notin Rejected THEN 1 ELSE 0
        BY DEF IInv, Bank, StoredOnce
    <2>3. db'[Staged(i)].there <=> db[Staged(i)].there \/ Staged(i) \in Holds(w)
        BY CommitRows
    <2>4. bank'[i] = IF i \in job[w].made THEN bank[i] + 1 ELSE bank[i]
        BY <1>1
    <2>5. QED
        BY <2>1, <2>2, <2>3, <2>4
<1>3. db'[Fetch] = See(w, Fetch) /\ Stored' = Known(w) /\ Banked' = Ours(w)
    BY CommitRows, RowKinds
<1>4. Fits(Stored', Banked', db'[Fetch])
    BY <1>3, Standing
<1>5. QED
    BY <1>2, <1>4 DEF Bank, Fits

LEMMA CommitPaper ==
    ASSUME IInv, NEW w \in Workers, Commit(w)
    PROVE  Paper'
<1> DEFINE c == job[w].cursor
           had == job[w].had
           add == Adding(w)
<1>1. /\ at[w] = "commit" /\ carried' = carried /\ subject' = subject
      /\ Stored' = Known(w) /\ Due' = Due /\ \A b : Upto(b)' = Upto(b)
      /\ \A i \in Items : i \in add => db'[OnPaper(i)] = Placed(w, i) /\ i \notin On
      /\ \A i \in Items : i \notin add => db'[OnPaper(i)] = db[OnPaper(i)]
      /\ On' = On \cup add /\ add \in SUBSET Items
      /\ add = {} => db'[Attempt] = db[Attempt]
      /\ add # {} => /\ db'[Attempt].there
                     /\ db'[Attempt].marks = Cardinality(had) + Cardinality(add)
      /\ db[Attempt].there => db'[Attempt].there
    BY CommitRows
<1>2. handed' = IF job[w].kind \in Sitting /\ ~job[w].last THEN handed \cup {c + 1} ELSE handed
    BY DEF Commit
<1>3. /\ Sits(w) /\ Pageful(w) /\ Appends(w) /\ job[w] \in JobRecord
      /\ Stored \subseteq Known(w)
    BY Standing
<1>4. Paper
    BY DEF IInv
<1>5. /\ On \in SUBSET Items /\ had \in SUBSET Items /\ c \in 1 .. Pages
      /\ \A i \in Items : PageOf[i] \in 1 .. Pages
      /\ Pages \in Nat
    BY <1>3, BankAssumption DEF On, JobRecord
\* What a student's request leaves on the paper.
<1>6. ASSUME job[w].kind \in Sitting
      PROVE  /\ subject /\ had \subseteq On /\ Upto(c) \subseteq had
             /\ add = (OnPage(c) \cap Due) \ had /\ add \subseteq Known(w)
             /\ db'[Attempt].there
             /\ job[w].last <=> ~carried \/ c = Pages
    <2>1. /\ subject /\ had \subseteq On /\ Upto(c) \subseteq had
          /\ add = (OnPage(c) \cap Due) \ had /\ add \subseteq Known(w)
          /\ job[w].last <=> ~carried \/ c = Pages
        BY <1>1, <1>3, <1>6 DEF Sits, Pageful, Adding
    <2>2. db'[Attempt].there
        <3>1. CASE job[w].kind = "start"
            <4>1. add # {}
                BY <1>1, <1>3, <1>6, <3>1 DEF Sits, Adding
            <4>2. QED
                BY <1>1, <4>1
        <3>2. CASE job[w].kind = "continue"
            BY <1>1, <1>3, <1>6, <3>2 DEF Sits
        <3>3. QED
            BY <1>6, <3>1, <3>2 DEF Sitting
    <2>3. QED
        BY <2>1, <2>2
<1>7. add # {} => job[w].kind \in Sitting
    BY DEF Adding
<1> HIDE DEF add
<1>8. On' \subseteq Due /\ On' \subseteq Known(w)
    BY <1>1, <1>3, <1>4, <1>6, <1>7 DEF Paper
<1>9. \A i \in Items \ On' : db'[OnPaper(i)] = NotPlaced
    BY <1>1, <1>4 DEF Paper
<1>10. ASSUME NEW i \in On', NEW j \in Due, PageOf[j] <= PageOf[i]
       PROVE  j \in On'
    <2>1. CASE i \in On
        BY <1>1, <1>4, <1>10, <2>1 DEF Paper
    <2>2. CASE i \in add
        <3>1. PageOf[i] = c /\ job[w].kind \in Sitting
            BY <1>6, <1>7, <2>2 DEF OnPage
        <3>2. j \in Items /\ PageOf[j] \in Nat /\ c \in Nat
            BY <1>5 DEF Due
        <3>3. CASE PageOf[j] < c
            BY <1>1, <1>6, <3>1, <3>2, <3>3 DEF Upto
        <3>4. CASE PageOf[j] = c
            BY <1>1, <1>6, <3>1, <3>2, <3>4 DEF OnPage
        <3>5. QED
            BY <1>10, <3>1, <3>2, <3>3, <3>4
    <2>3. QED
        BY <1>1, <2>1, <2>2
<1>11. /\ db'[Attempt].marks = Cardinality(On')
       /\ {db'[OnPaper(i)].order : i \in On'} = 0 .. Cardinality(On') - 1
    <2>1. CASE add = {}
        <3>1. On' = On /\ db'[Attempt] = db[Attempt]
            BY <1>1, <2>1
        <3>2. \A i \in On : db'[OnPaper(i)] = db[OnPaper(i)]
            BY <1>1, <1>5, <2>1
        <3>3. {db'[OnPaper(i)].order : i \in On} = {db[OnPaper(i)].order : i \in On}
            BY <3>2
        <3>4. /\ db[Attempt].marks = Cardinality(On)
              /\ {db[OnPaper(i)].order : i \in On} = 0 .. Cardinality(On) - 1
            BY <1>4 DEF Paper
        <3>5. QED
            BY <3>1, <3>3, <3>4
    <2>2. CASE add # {}
        \* Nothing of this page or a later one was on the paper.
        <3>1. On = had
            <4>1. PICK a \in add : TRUE
                BY <2>2
            <4>2. a \in Due /\ PageOf[a] = c /\ a \notin On /\ a \in Items
                BY <1>1, <1>6, <1>7, <4>1 DEF OnPage
            <4>3. ASSUME NEW i \in On PROVE i \in Upto(c)
                <5>1. i \in Due /\ ~(PageOf[a] <= PageOf[i])
                    BY <1>4, <4>2 DEF Paper
                <5>2. PageOf[i] \in Nat /\ c \in Nat
                    BY <1>5
                <5>3. QED
                    BY <4>2, <5>1, <5>2 DEF Upto
            <4>4. QED
                BY <1>6, <1>7, <2>2, <4>3
        <3>2. /\ Cardinality(On) \in Nat /\ Cardinality(add) \in Nat
              /\ Cardinality(On') = Cardinality(On) + Cardinality(add)
            <4>1. On \cap add = {}
                BY <1>1
            <4>2. IsFiniteSet(On) /\ IsFiniteSet(add)
                BY <1>1, <1>5, Counts
            <4>3. Cardinality(On \cup add)
                     = Cardinality(On) + Cardinality(add) - Cardinality(On \cap add)
                BY <4>2, FS_Union
            <4>4. Cardinality(On \cap add) = 0
                BY <4>1, FS_EmptySet
            <4>5. Cardinality(On) \in Nat /\ Cardinality(add) \in Nat
                BY <4>2, FS_CardinalityType
            <4>6. QED
                BY <1>1, <4>3, <4>4, <4>5
        <3>3. db'[Attempt].marks = Cardinality(On')
            BY <1>1, <2>2, <3>1, <3>2
        <3> DEFINE n == Cardinality(On)
                   m == Cardinality(add)
                   rank(i) == Cardinality({j \in add : j < i})
        <3>4. /\ \A i \in add : rank(i) \in 0 .. m - 1
              /\ {rank(i) : i \in add} = 0 .. m - 1
            BY <1>1, Ranks
        <3>5. \A i \in add : db'[OnPaper(i)].order = n + rank(i)
            <4>1. add = job[w].add
                BY <2>2 DEF add, Adding
            <4>2. \A i \in add : db'[OnPaper(i)] = Placed(w, i)
                BY <1>1
            <4>3. \A i : {j \in add : j < i} = {j \in job[w].add : j < i}
                BY <4>1
            <4>4. \A i : Placed(w, i).order = n + rank(i)
                BY <3>1, <4>3 DEF Placed
            <4>5. QED
                BY <4>2, <4>4
        <3>6. /\ \A i \in On : db'[OnPaper(i)].order = db[OnPaper(i)].order
              /\ {db[OnPaper(i)].order : i \in On} = 0 .. n - 1
            BY <1>1, <1>4, <1>5 DEF Paper
        <3>7. n \in Nat /\ m \in Nat /\ Cardinality(On') = n + m
            BY <3>2
        <3>8. \A k \in 0 .. m - 1 : \E i \in add : rank(i) = k
            BY <3>4
        <3>9. \A k \in 0 .. n - 1 : \E i \in On : db[OnPaper(i)].order = k
            BY <3>6
        <3>10. \A i \in On : db[OnPaper(i)].order \in 0 .. n - 1
            BY <3>6
        <3> HIDE DEF n, m, rank
        <3> DEFINE orders == {db'[OnPaper(i)].order : i \in On'}
        <3>11. ASSUME NEW k \in orders PROVE k \in 0 .. n + m - 1
            <4>1. PICK i \in On' : k = db'[OnPaper(i)].order
                OBVIOUS
            <4>2. CASE i \in On
                BY <3>6, <3>7, <3>10, <4>1, <4>2
            <4>3. CASE i \in add
                BY <3>4, <3>5, <3>7, <4>1, <4>3
            <4>4. QED
                BY <1>1, <4>1, <4>2, <4>3
        <3>12. ASSUME NEW k \in 0 .. n + m - 1 PROVE k \in orders
            <4>1. CASE k < n
                <5>1. k \in 0 .. n - 1
                    BY <3>7, <4>1
                <5>2. PICK i \in On : db[OnPaper(i)].order = k
                    BY <3>9, <5>1
                <5>3. i \in On' /\ db'[OnPaper(i)].order = k
                    BY <1>1, <3>6, <5>2
                <5>4. QED
                    BY <5>3
            <4>2. CASE ~(k < n)
                <5>1. k - n \in 0 .. m - 1 /\ n + (k - n) = k
                    BY <3>7, <4>2
                <5>2. PICK i \in add : rank(i) = k - n
                    BY <3>8, <5>1
                <5>3. i \in On' /\ db'[OnPaper(i)].order = k
                    BY <1>1, <3>5, <5>1, <5>2
                <5>4. QED
                    BY <5>3
            <4>3. QED
                BY <4>1, <4>2
        <3>13. orders = 0 .. n + m - 1
            <4> HIDE DEF orders
            <4>1. QED
                BY <3>11, <3>12
        <3>14. QED
            BY <3>3, <3>7, <3>13
    <2>3. QED
        BY <2>1, <2>2
<1>12. db'[Attempt].open => db'[Attempt].there
    BY <1>1, <1>4 DEF Paper
<1>13. ~db'[Attempt].there => On' = {} /\ handed' = {}
    <2> SUFFICES ASSUME ~db'[Attempt].there PROVE On' = {} /\ handed' = {}
        OBVIOUS
    <2>1. ~db[Attempt].there /\ add = {} /\ job[w].kind \notin Sitting
        BY <1>1, <1>6
    <2>2. QED
        BY <1>1, <1>2, <1>4, <2>1 DEF Paper
<1>14. ASSUME NEW b \in handed'
       PROVE  b \in 2 .. Pages /\ Upto(b) \subseteq On' /\ carried /\ subject
    <2>1. CASE b \in handed
        BY <1>1, <1>4, <2>1 DEF Paper
    <2>2. CASE b \notin handed
        <3>1. job[w].kind \in Sitting /\ ~job[w].last /\ b = c + 1
            BY <1>2, <2>2
        <3>2. carried /\ c # Pages /\ subject
            BY <1>6, <3>1
        <3>3. b \in 2 .. Pages
            BY <1>5, <3>1, <3>2
        <3>4. ASSUME NEW i \in Upto(b) PROVE i \in On'
            <4>1. i \in Due /\ i \in Items /\ PageOf[i] \in Nat /\ c \in Nat /\ PageOf[i] < c + 1
                BY <1>5, <3>1 DEF Upto, Due
            <4>2. CASE PageOf[i] < c
                BY <1>1, <1>6, <3>1, <4>1, <4>2 DEF Upto
            <4>3. CASE PageOf[i] = c
                BY <1>1, <1>6, <3>1, <4>1, <4>3 DEF OnPage
            <4>4. QED
                BY <4>1, <4>2, <4>3
        <3>5. QED
            BY <3>2, <3>3, <3>4
    <2>3. QED
        BY <2>1, <2>2
<1>15. QED
    BY <1>1, <1>8, <1>9, <1>10, <1>11, <1>12, <1>13, <1>14 DEF Paper

LEMMA CommitOthers ==
    ASSUME IInv, NEW w \in Workers, Commit(w), NEW v \in Workers \ {w}
    PROVE  Sound(v)'
<1>1. /\ tx'[v] = tx[v] /\ at'[v] = at[v] /\ job'[v] = job[v]
    BY DEF Commit, Now, IInv, Typed
<1>2. /\ carried' = carried /\ subject' = subject
      /\ \A r \in Rows : db'[r] = See(w, r)
      /\ \A i \in Items : db'[Staged(i)].there <=> db[Staged(i)].there \/ Staged(i) \in Holds(w)
      /\ Banked' = Ours(w) /\ Due' = Due /\ \A c : Upto(c)' = Upto(c)
      /\ On' = On \cup Adding(w)
      /\ Adding(w) = {} => db'[Attempt] = db[Attempt]
      /\ db[Attempt].there => db'[Attempt].there
    BY CommitRows
<1>3. Holds(v)' = Holds(v) /\ Dirty(v)' = Dirty(v) /\ Holds(v) \cap Holds(w) = {}
    BY <1>1 DEF Holds, Dirty, IInv, Locks
<1>4. /\ Session(v) /\ Stepwise(v) /\ Stages(v) /\ Fetches(v) /\ Pageful(v) /\ Sits(v)
      /\ Appends(v) /\ Known(v) \in SUBSET Items /\ Ours(v) \in SUBSET Items
      /\ job[v] \in JobRecord
    BY Standing
<1>5. \A r \in Rows : r \in Holds(v) => db'[r] = db[r]
    BY <1>2, <1>3 DEF See
<1>6. /\ Known(v) \subseteq Known(v)' /\ Known(v)' \in SUBSET Items
    <2>1. ASSUME NEW i \in Items, See(v, Staged(i)).there PROVE See(v, Staged(i))'.there
        BY <1>1, <1>2, <1>3, <2>1 DEF See
    <2>2. QED
        BY <1>2, <2>1 DEF Known
<1>7. /\ Ours(v) \subseteq Ours(v)' /\ Ours(v)' \in SUBSET Items
    <2>1. Banked \subseteq Ours(w) /\ Ours(w) \in SUBSET Items
        BY Standing
    <2>2. job[v].made \in SUBSET Items
        BY <1>4 DEF JobRecord
    <2>3. Ours(v)' = Ours(w) \cup job[v].made
        BY <1>1, <1>2 DEF Ours
    <2>4. QED
        BY <2>1, <2>2, <2>3 DEF Ours
<1>8. \A row : Fits(Known(v), Ours(v), row) => Fits(Known(v)', Ours(v)', row)
    BY <1>4, <1>6, <1>7, FitsStill
<1>9. Session(v)' /\ Stepwise(v)'
    BY <1>1, <1>2, <1>3, <1>4 DEF Session, Stepwise
<1>10. Stages(v)'
    BY <1>1, <1>3, <1>4, <1>5, RowKinds DEF Stages
<1>11. Fetches(v)'
    BY <1>1, <1>3, <1>4, <1>8 DEF Fetches
<1>12. Pageful(v)'
    BY <1>1, <1>2, <1>4, <1>6 DEF Pageful, OnPage
<1>13. job[v].kind = "start" => ~db'[Attempt].there
    <2> SUFFICES ASSUME job[v].kind = "start" PROVE ~db'[Attempt].there
        OBVIOUS
    <2>1. ~db[Attempt].there
        BY <1>4 DEF Sits, Sitting
    <2>2. job[w].kind # "start"
        BY DEF IInv, Locks
    <2>3. Adding(w) = {}
        <3>1. job[w].kind = "continue" => db[Attempt].there
            BY Standing DEF Sits, Sitting
        <3>2. QED
            BY <2>1, <2>2, <3>1 DEF Adding, Sitting
    <2>4. QED
        BY <1>2, <2>1, <2>3
<1>14. Sits(v)'
    BY <1>1, <1>2, <1>4, <1>6, <1>13 DEF Sits, OnPage
<1>15. Appends(v)'
    <2>1. Adding(v)' = Adding(v) /\ \A i : Placed(v, i)' = Placed(v, i)
        BY <1>1 DEF Adding, Placed
    <2>2. \A i \in Items : OnPaper(i) \in Holds(v) => ~db'[OnPaper(i)].there
        BY <1>4, <1>5, RowKinds DEF Appends
    <2>3. QED
        BY <1>1, <1>3, <1>4, <2>1, <2>2 DEF Appends
<1>16. QED
    BY <1>9, <1>10, <1>11, <1>12, <1>14, <1>15 DEF Sound

LEMMA CommitKeeps ==
    ASSUME IInv, NEW w \in Workers, Commit(w)
    PROVE  IInv'
<1>1. /\ tx'[w] = Closed /\ job'[w] = Job("none") /\ at'[w] = "idle"
      /\ \A v \in Workers \ {w} : tx'[v] = tx[v] /\ job'[v] = job[v] /\ at'[v] = at[v]
      /\ DOMAIN tx' = Workers /\ at' \in [Workers -> Steps] /\ job' \in [Workers -> JobRecord]
    <2>1. Job("none") \in JobRecord
        BY JobIs DEF Kinds
    <2>2. QED
        BY <2>1 DEF Commit, Now, IInv, Typed, Steps
<1>2. /\ carried' = carried /\ subject' = subject /\ DOMAIN db' = Rows
      /\ \A r \in Rows : db'[r] = See(w, r)
    BY CommitRows
<1>3. \A r \in Rows : db'[r] \in Values(r)
    BY <1>2, SeeIsValue, Standing DEF IInv
<1>4. Typed'
    BY <1>1, <1>2, <1>3 DEF Typed, IInv
<1>5. Locks'
    <2>1. Holds(w)' = {} /\ \A v \in Workers \ {w} : Holds(v)' = Holds(v)
        <3>1. tx'[w].own = <<>> /\ DOMAIN <<>> = {}
            BY <1>1 DEF Closed
        <3>2. QED
            BY <1>1, <3>1 DEF Holds
    <2>2. job'[w].kind # "start"
        BY <1>1 DEF Job
    <2>3. QED
        BY <1>1, <2>1, <2>2 DEF IInv, Locks
<1>6. \A v \in Workers : Sound(v)'
    BY <1>1, <1>4, ClosedSound, CommitOthers
<1>7. QED
    BY <1>4, <1>5, <1>6, CommitBank, CommitPaper DEF IInv

-----------------------------------------------------------------------------
(* Outside, and nothing *)

\* The fetch row, the circuit or the attempt changes in a column the paper does not
\* rest on.
LEMMA OutsideKeeps ==
    ASSUME IInv, UNCHANGED <<tx, at, job, bank, handed, world>>, DOMAIN db' = Rows,
           \A r \in StagedRows \cup PaperRows : db'[r] = db[r],
           Fits(Stored, Banked, db'[Fetch]), db'[Circuit] \in CircuitRow,
           db'[Attempt] \in AttemptRow, db'[Attempt].there <=> db[Attempt].there,
           db'[Attempt].marks = db[Attempt].marks, db'[Attempt].open => db[Attempt].open
    PROVE  IInv'
<1>1. carried' = carried /\ subject' = subject
    BY DEF world
<1>2. \A i \in Items : db'[Staged(i)] = db[Staged(i)] /\ db'[OnPaper(i)] = db[OnPaper(i)]
    BY RowKinds
<1>3. Stored' = Stored /\ Banked' = Banked /\ On' = On /\ Due' = Due /\ \A c : Upto(c)' = Upto(c)
    BY <1>1, <1>2 DEF Stored, Banked, On, Due, Upto
<1>4. Typed'
    <2>1. \A r \in Rows : db'[r] \in Values(r)
        BY RowKinds, ValuesOf DEF IInv, Typed, Fits
    <2>2. QED
        BY <1>1, <2>1 DEF IInv, Typed
<1>5. \A w \in Workers : Holds(w)' = Holds(w) /\ Dirty(w)' = Dirty(w)
    BY DEF Holds, Dirty
<1>6. Locks'
    BY <1>5 DEF IInv, Locks
<1>7. Bank'
    BY <1>2, <1>3 DEF IInv, Bank, StoredOnce, Fits
<1>8. Paper'
    <2>1. Paper
        BY DEF IInv
    <2>2. {db'[OnPaper(i)].order : i \in On} = {db[OnPaper(i)].order : i \in On}
        BY <1>2 DEF On
    <2>3. QED
        BY <1>1, <1>2, <1>3, <2>1, <2>2 DEF Paper
<1>9. ASSUME NEW w \in Workers PROVE Sound(w)'
    <2>1. /\ Session(w) /\ Stepwise(w) /\ Stages(w) /\ Fetches(w) /\ Pageful(w) /\ Sits(w)
          /\ Appends(w)
        BY Standing
    <2>2. \A i \in Items : See(w, Staged(i))' = See(w, Staged(i))
        BY <1>2, <1>5 DEF See
    <2>3. /\ Known(w)' = Known(w) /\ Ours(w)' = Ours(w) /\ Adding(w)' = Adding(w)
          /\ \A i : Placed(w, i)' = Placed(w, i)
        BY <1>1, <1>3, <2>2 DEF Known, Ours, Adding, Placed
    <2>4. Session(w)' /\ Stepwise(w)' /\ Stages(w)'
        BY <1>1, <1>2, <1>5, <2>1 DEF Session, Stepwise, Stages
    <2>5. Fetches(w)' /\ Pageful(w)'
        BY <1>1, <1>5, <2>1, <2>3 DEF Fetches, Pageful, OnPage
    <2>6. Sits(w)'
        BY <1>1, <1>3, <2>1, <2>3 DEF Sits, OnPage
    <2>7. Appends(w)'
        BY <1>2, <1>5, <2>1, <2>3 DEF Appends
    <2>8. QED
        BY <2>4, <2>5, <2>6, <2>7 DEF Sound
<1>10. QED
    BY <1>4, <1>6, <1>7, <1>8, <1>9 DEF IInv

LEMMA OutsidesKeep ==
    ASSUME IInv, LeaseAges \/ Cooled \/ Submit
    PROVE  IInv'
<1>1. /\ db[Fetch] \in FetchRow /\ db[Circuit] \in CircuitRow /\ db[Attempt] \in AttemptRow
      /\ Fits(Stored, Banked, db[Fetch])
    BY RowKinds, ValuesOf DEF IInv, Typed, Bank
<1>2. CASE LeaseAges
    <2>1. /\ db' = [db EXCEPT ![Fetch].lease = "old"]
          /\ UNCHANGED <<tx, at, job, bank, handed, world>>
        BY <1>2 DEF LeaseAges
    <2>2. /\ db'[Fetch] = [db[Fetch] EXCEPT !.lease = "old"] /\ DOMAIN db' = Rows
          /\ \A r \in Rows \ {Fetch} : db'[r] = db[r]
        BY <2>1, RowKinds DEF IInv, Typed
    <2>3. Fits(Stored, Banked, db'[Fetch])
        <3>1. Fits(Stored, Banked, [db[Fetch] EXCEPT !.lease = "old"])
            BY <1>1, FitsAlso
        <3>2. QED
            BY <2>2, <3>1
    <2>4. QED
        BY <1>1, <2>1, <2>2, <2>3, OutsideKeeps, RowKinds
<1>3. CASE Cooled
    <2>1. /\ db' = [db EXCEPT ![Circuit].cooling = FALSE]
          /\ UNCHANGED <<tx, at, job, bank, handed, world>>
        BY <1>3 DEF Cooled
    <2>2. /\ db'[Circuit] = [db[Circuit] EXCEPT !.cooling = FALSE] /\ DOMAIN db' = Rows
          /\ \A r \in Rows \ {Circuit} : db'[r] = db[r]
        BY <2>1, RowKinds DEF IInv, Typed
    <2>3. db'[Circuit] \in CircuitRow
        BY <1>1, <2>2 DEF CircuitRow
    <2>4. QED
        BY <1>1, <2>1, <2>2, <2>3, OutsideKeeps, RowKinds
<1>4. CASE Submit
    <2>1. /\ db' = [db EXCEPT ![Attempt].open = FALSE]
          /\ UNCHANGED <<tx, at, job, bank, handed, world>>
        BY <1>4 DEF Submit
    <2>2. /\ db'[Attempt] = [db[Attempt] EXCEPT !.open = FALSE] /\ DOMAIN db' = Rows
          /\ \A r \in Rows \ {Attempt} : db'[r] = db[r]
        BY <2>1, RowKinds DEF IInv, Typed
    <2>3. /\ db'[Attempt] \in AttemptRow /\ db'[Attempt].there = db[Attempt].there
          /\ db'[Attempt].marks = db[Attempt].marks /\ db'[Attempt].open = FALSE
        BY <1>1, <2>2 DEF AttemptRow
    <2>4. QED
        BY <1>1, <2>1, <2>2, <2>3, OutsideKeeps, RowKinds
<1>5. QED
    BY <1>2, <1>3, <1>4

\* The catalogue gets the subject; or nothing happens.
LEMMA SubjectKeeps ==
    ASSUME IInv, UNCHANGED <<db, tx, at, job, bank, carried, handed, mix>>,
           subject' \in BOOLEAN, subject => subject'
    PROVE  IInv'
<1>1. \A w \in Workers : /\ Holds(w)' = Holds(w) /\ Dirty(w)' = Dirty(w)
                         /\ \A r : See(w, r)' = See(w, r)
    BY DEF Holds, Dirty, See
<1>2. /\ Stored' = Stored /\ Banked' = Banked /\ On' = On /\ Due' = Due
      /\ \A c : Upto(c)' = Upto(c)
    BY DEF Stored, Banked, On, Due, Upto
<1>3. Typed' /\ Bank'
    BY <1>2 DEF IInv, Typed, Bank, StoredOnce, Fits
<1>4. Locks' /\ Paper'
    BY <1>1, <1>2 DEF IInv, Locks, Paper
<1>5. ASSUME NEW w \in Workers PROVE Sound(w)'
    <2>1. /\ Session(w) /\ Stepwise(w) /\ Stages(w) /\ Fetches(w) /\ Pageful(w) /\ Sits(w)
          /\ Appends(w)
        BY Standing
    <2>2. /\ Known(w)' = Known(w) /\ Ours(w)' = Ours(w) /\ Adding(w)' = Adding(w)
          /\ \A i : Placed(w, i)' = Placed(w, i)
        BY <1>1, <1>2 DEF Known, Ours, Adding, Placed
    <2>3. Session(w)' /\ Stepwise(w)' /\ Stages(w)'
        BY <1>1, <2>1 DEF Session, Stepwise, Stages
    <2>4. Fetches(w)' /\ Pageful(w)'
        BY <1>1, <2>1, <2>2 DEF Fetches, Pageful, OnPage
    <2>5. Sits(w)' /\ Appends(w)'
        BY <1>1, <1>2, <2>1, <2>2 DEF Sits, Appends, OnPage
    <2>6. QED
        BY <2>3, <2>4, <2>5 DEF Sound
<1>6. QED
    BY <1>3, <1>4, <1>5 DEF IInv

-----------------------------------------------------------------------------
(* The invariant *)

LEMMA InitHolds == Init => IInv
<1> SUFFICES ASSUME Init PROVE IInv
    OBVIOUS
<1>1. PICK state \in {"OK", "BLOCKED"} :
         db = [r \in Rows |->
                 CASE r = Fetch -> NoFetch
                   [] r = Circuit -> [NoCircuit EXCEPT !.state = state]
                   [] r = Attempt -> NoAttempt
                   [] r \in StagedRows -> [there |-> FALSE]
                   [] OTHER -> [there |-> FALSE, order |-> 0]]
    BY DEF Init
<1>2. /\ tx = [w \in Workers |-> Closed] /\ at = [w \in Workers |-> "idle"]
      /\ job = [w \in Workers |-> Job("none")] /\ bank = [i \in Items |-> 0]
      /\ carried \in BOOLEAN /\ subject \in BOOLEAN /\ handed = {}
    BY DEF Init
<1>3. /\ DOMAIN db = Rows /\ db[Fetch] = NoFetch
      /\ db[Circuit] = [NoCircuit EXCEPT !.state = state] /\ db[Attempt] = NoAttempt
      /\ \A i \in Items : /\ db[Staged(i)] = [there |-> FALSE]
                          /\ db[OnPaper(i)] = [there |-> FALSE, order |-> 0]
      /\ \A r \in StagedRows : db[r] = [there |-> FALSE]
      /\ \A r \in PaperRows : db[r] = NotPlaced
    BY <1>1, RowKinds DEF NotPlaced
<1>4. Cardinality(Items) \in Nat /\ Cardinality({}) = 0
    BY Counts, FS_EmptySet
<1>5. /\ "none" \in Kinds /\ Job("none") \in JobRecord /\ Job("none").kind = "none"
      /\ Job("none").made = {} /\ Job("none").fetch = NoFetch
    BY JobIs DEF Kinds
<1>6. NoFetch \in FetchRow /\ NoAttempt \in AttemptRow /\ NotPlaced \in PaperRow
    <2>1. NoFetch \in FetchRow
        BY NoFetchFits DEF Fits
    <2>2. QED
        BY <1>4, <2>1 DEF NoAttempt, AttemptRow, NotPlaced, PaperRow
<1>7. [NoCircuit EXCEPT !.state = state] \in CircuitRow
    BY DEF NoCircuit, CircuitRow
<1>8. Typed
    <2>1. [there |-> FALSE] \in StagedRow
        BY DEF StagedRow
    <2>2. ASSUME NEW r \in Rows PROVE db[r] \in Values(r)
        <3>1. CASE r = Fetch
            BY <1>3, <1>6, <3>1, ValuesOf
        <3>2. CASE r = Circuit
            BY <1>3, <1>7, <3>2, ValuesOf
        <3>3. CASE r = Attempt
            BY <1>3, <1>6, <3>3, ValuesOf
        <3>4. CASE r \in StagedRows
            <4>1. db[r] = [there |-> FALSE] /\ Values(r) = StagedRow
                BY <1>3, <3>4, ValuesOf
            <4>2. QED
                BY <2>1, <4>1
        <3>5. CASE r \in PaperRows
            <4>1. db[r] = NotPlaced /\ Values(r) = PaperRow
                BY <1>3, <3>5, ValuesOf
            <4>2. QED
                BY <1>6, <4>1
        <3>6. QED
            BY <3>1, <3>2, <3>3, <3>4, <3>5, RowKinds
    <2>3. QED
        BY <1>2, <1>3, <1>5, <2>2 DEF Typed, Steps
<1>9. Banked = {} /\ Stored \in SUBSET Items /\ On = {} /\ Banked \in SUBSET Items
    <2>1. Banked = {}
        BY <1>2 DEF Banked
    <2>2. On = {}
        BY <1>3 DEF On
    <2>3. QED
        BY <2>1, <2>2 DEF Stored
<1>10. Bank
    <2>1. StoredOnce
        BY <1>2, <1>3 DEF StoredOnce
    <2>2. Fits(Stored, Banked, db[Fetch])
        BY <1>3, <1>9, NoFetchFits
    <2>3. QED
        BY <2>1, <2>2 DEF Bank
<1>11. Paper
    <2>1. {db[OnPaper(i)].order : i \in On} = {} /\ 0 .. 0 - 1 = {}
        BY <1>9
    <2>2. /\ db[Attempt].marks = Cardinality(On)
          /\ {db[OnPaper(i)].order : i \in On} = 0 .. Cardinality(On) - 1
        BY <1>3, <1>4, <1>9, <2>1 DEF NoAttempt
    <2>3. db[Attempt].open = FALSE
        BY <1>3 DEF NoAttempt
    <2>4. \A i \in Items \ On : db[OnPaper(i)] = NotPlaced
        BY <1>3, RowKinds
    <2>5. QED
        BY <1>2, <1>9, <2>2, <2>3, <2>4 DEF Paper
<1>12. ASSUME NEW w \in Workers
       PROVE  tx[w] = Closed /\ Holds(w) = {} /\ Dirty(w) = {} /\ Adding(w) = {}
    <2>1. tx[w] = Closed /\ DOMAIN <<>> = {} /\ at[w] = "idle"
        BY <1>2
    <2>2. QED
        BY <2>1 DEF Closed, Holds, Dirty, Adding
<1>13. Locks
    BY <1>2, <1>5, <1>12 DEF Locks
<1>14. ASSUME NEW w \in Workers PROVE Sound(w)
    <2>1. job[w] = Job("none") /\ at[w] = "idle" /\ "none" \notin Banking \cup Sitting
        BY <1>2 DEF Banking, Sitting, Visits
    <2>2. Fits(Known(w), Ours(w), NoFetch)
        <3>1. Known(w) \in SUBSET Items /\ Ours(w) \in SUBSET Items
            BY <1>5, <2>1 DEF Known, Ours, Banked
        <3>2. QED
            BY <3>1, NoFetchFits
    <2>3. Session(w) /\ Stepwise(w) /\ Stages(w)
        BY <1>5, <1>12, <2>1 DEF Session, Stepwise, Stages, Closed
    <2>4. Fetches(w) /\ Pageful(w) /\ Sits(w) /\ Appends(w)
        BY <1>5, <1>12, <2>1, <2>2 DEF Fetches, Pageful, Sits, Appends
    <2>5. QED
        BY <2>3, <2>4 DEF Sound
<1>15. QED
    BY <1>8, <1>10, <1>11, <1>13, <1>14 DEF IInv

LEMMA NextKeeps == IInv /\ [Next]_vars => IInv'
<1> SUFFICES ASSUME IInv, [Next]_vars PROVE IInv'
    OBVIOUS
<1>1. CASE LeaseAges \/ Cooled \/ Submit
    BY <1>1, OutsidesKeep
<1>2. CASE AddSubject
    BY <1>2, SubjectKeeps DEF AddSubject
<1>3. ASSUME NEW w \in Workers, NEW kind \in Visits, Visit(w, kind) PROVE IInv'
    BY <1>3, VisitKeeps
<1>4. ASSUME NEW w \in Workers, NoAnswer(w) \/ Backfill(w) \/ Sync(w) \/ Start(w) PROVE IInv'
    BY <1>4, NoAnswerKeeps, BackfillKeeps, SyncKeeps, StartKeeps
<1>5. ASSUME NEW w \in Workers, NEW c \in handed, Continue(w, c) PROVE IInv'
    BY <1>5, ContinueKeeps
<1>6. ASSUME NEW w \in Workers, Work(w) PROVE IInv'
    <2>1. ASSUME NEW r \in Rows, Flush(w, r) PROVE IInv'
        BY <2>1, FlushKeeps
    <2>2. CASE Commit(w) \/ NextPage(w) \/ CheckCircuit(w) \/ Search(w) \/ GetRow(w)
        BY <2>2, CommitKeeps, NextPageKeeps, CheckCircuitKeeps, SearchKeeps, GetRowKeeps
    <2>3. CASE Store(w) \/ PageStored(w) \/ Draw(w) \/ Walk(w)
        BY <2>3, StoreKeeps, PageStoredKeeps, DrawKeeps, WalkKeeps
    <2>4. CASE AllStored(w) \/ Append(w) \/ NotFound(w)
        BY <2>4, AllStoredKeeps, AppendKeeps, RollbackKeeps
    <2>5. QED
        BY <1>6, <2>1, <2>2, <2>3, <2>4 DEF Work
<1>7. ASSUME NEW w \in Workers, Rollback(w) PROVE IInv'
    BY <1>7, RollbackKeeps
<1>8. CASE UNCHANGED vars
    <2>1. UNCHANGED <<db, tx, at, job, bank, carried, subject, handed, mix>>
        BY <1>8 DEF vars
    <2>2. subject' \in BOOLEAN
        BY <2>1 DEF IInv, Typed
    <2>3. QED
        BY <2>1, <2>2, SubjectKeeps
<1>9. QED
    BY <1>1, <1>2, <1>3, <1>4, <1>5, <1>6, <1>7, <1>8 DEF Next

\* Every reachable state satisfies the invariant: the locks exclude each other, what a
\* session has loaded and assigned of the fetch row passes over no item it does not
\* know, and a student's request appends the one page that follows the paper.
THEOREM BankInvariant == Spec => []IInv
<1>1. Init => IInv
    BY InitHolds
<1>2. IInv /\ [Next]_vars => IInv'
    BY NextKeeps
<1>3. QED
    BY <1>1, <1>2, PTL DEF Spec

\* The rows and what requests work with keep their types, and no page is given to the
\* student that the paper does not have.
THEOREM BankTyped == Spec => []TypeOK
<1>1. IInv => TypeOK
    <2> SUFFICES ASSUME IInv PROVE TypeOK
        OBVIOUS
    <2>1. /\ db[Fetch] \in FetchRow /\ db[Circuit] \in CircuitRow /\ db[Attempt] \in AttemptRow
          /\ \A i \in Items : db[Staged(i)] \in StagedRow /\ db[OnPaper(i)] \in PaperRow
        BY RowKinds, ValuesOf DEF IInv, Typed
    <2>2. \A w \in Workers : job[w].kind \in Kinds /\ job[w].left \cup job[w].add \subseteq Items
        BY DEF IInv, Typed, JobRecord
    <2>3. handed \subseteq 2 .. Pages
        BY DEF IInv, Paper
    <2>4. QED
        BY <2>1, <2>2, <2>3 DEF TypeOK
<1>2. QED
    BY <1>1, BankInvariant, PTL

\* The paper a student sits: its marks are those of its questions, its places run from 0
\* without a gap, and each of its questions is in the bank.
THEOREM PaperStaysWhole == Spec => []PaperWhole
<1>1. IInv => PaperWhole
    <2> SUFFICES ASSUME IInv PROVE PaperWhole
        OBVIOUS
    <2>1. ASSUME NEW i \in On PROVE bank[i] = 1
        <3>1. i \in Due /\ i \in Stored
            BY DEF IInv, Paper
        <3>2. db[Staged(i)].there /\ i \notin Rejected /\ i \in Items
            BY <3>1 DEF Due, Stored
        <3>3. QED
            BY <3>2 DEF IInv, Bank, StoredOnce
    <2>2. /\ db[Attempt].marks = Cardinality(On)
          /\ {db[OnPaper(i)].order : i \in On} = 0 .. Cardinality(On) - 1
        BY DEF IInv, Paper
    <2>3. QED
        BY <2>1, <2>2 DEF PaperWhole, On
<1>2. QED
    BY <1>1, BankInvariant, PTL

\* The bank: an item gives one question at most, the checkpoint and a saturated paper
\* leave no page out, one bank request at a time asks the provider, and the promoted
\* count never exceeds the questions; and the paper a student sits is whole.
THEOREM BankIsSafe == Spec => []BankSafe
<1>1. IInv => StoredOnce /\ NoPageMissed /\ OneAsksAtATime /\ PromotedNotInflated
    <2> SUFFICES ASSUME IInv
                 PROVE  StoredOnce /\ NoPageMissed /\ OneAsksAtATime /\ PromotedNotInflated
        OBVIOUS
    <2>1. StoredOnce /\ Fits(Stored, Banked, db[Fetch])
        BY DEF IInv, Bank
    <2>2. NoPageMissed
        BY <2>1 DEF Fits, Stored, NoPageMissed
    <2>3. OneAsksAtATime
        <3> SUFFICES ASSUME NEW v \in Workers, NEW w \in Workers,
                            job[v].kind \in Banking, at[v] \in {"search", "draw", "row", "store"},
                            job[w].kind \in Banking, at[w] \in {"search", "draw", "row", "store"}
                     PROVE  v = w
            BY DEF OneAsksAtATime
        <3>1. Fetch \in Holds(v) /\ Fetch \in Holds(w)
            BY Standing DEF Stepwise
        <3>2. QED
            BY <3>1 DEF IInv, Locks
    <2>4. PromotedNotInflated
        BY <2>1 DEF Fits, Banked, PromotedNotInflated
    <2>5. QED
        BY <2>1, <2>2, <2>3, <2>4
<1>2. QED
    BY <1>1, BankInvariant, PaperStaysWhole, PTL DEF BankSafe
=============================================================================
