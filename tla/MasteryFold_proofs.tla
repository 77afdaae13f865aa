-------------------------- MODULE MasteryFold_proofs --------------------------
(***************************************************************************)
(* What TLAPS proves of MasteryFold, for any number of events, of kinds    *)
(* and of writers: the types with any number of readers, and what the      *)
(* sums hold when page reads follow one another.  Overlapping readers lose *)
(* some of it: the ORM's UPDATE mixes the columns of two folds.            *)
(***************************************************************************)
EXTENDS MasteryFold, WellFoundedInduction, TLAPS

\* Page reads that follow one another: one reader at a time.
OneReader == \A r, q \in Readers : r = q

\* A sum counts an event at most once, and none past the cursor.
Clean(agg) ==
    \A c \in Channels : \A e \in Seqs :
        /\ agg.mass[c][e] <= 1 /\ agg.obs[c][e] <= 1
        /\ e > agg.cursor => agg.mass[c][e] = 0 /\ agg.obs[c][e] = 0

\* The sums are those of the cursor, which is 0 or a scored event that is seen.
Exact(agg) ==
    /\ \A c \in Channels : /\ ExactUpTo(agg.mass[c], c, agg.cursor)
                           /\ ExactUpTo(agg.obs[c], c, agg.cursor)
    /\ agg.cursor = 0 \/ agg.cursor \in Visible \cap Scored

\* Only appended events are seen; while events are appended in order, each has
\* its topic, and the one being appended is the last.
LedgerSound ==
    /\ \A e \in Seqs : ledger[e].visible => e < nextSeq
    /\ \A w \in Writers : writer[w] # 0 => writer[w] < nextSeq
    /\ orderly => /\ \A e \in Seqs : e < nextSeq => ledger[e].mapped
                  /\ \A w \in Writers : writer[w] # 0 =>
                        /\ writer[w] = nextSeq - 1 /\ ~ledger[writer[w]].visible
                        /\ \A v \in Writers \ {w} : writer[v] = 0

\* What a page read holds, when no other runs: the row as it is stored, or the
\* knowledge that there is none.
ReadSound(x) ==
    /\ x.at # "idle" => /\ Clean(x.base)
                        /\ IF x.had THEN stored /\ x.base = row ELSE ~stored
    /\ x.at = "loaded" /\ orderly => Exact(x.base)
    /\ x.at \in {"folded", "inserting"} =>
          /\ Clean(x.agg)
          /\ \A e \in x.seen : ledger[e].visible
          /\ orderly => Exact(x.agg) /\ x.agg.cursor >= row.cursor

IInv ==
    /\ TypeOK
    /\ LedgerSound
    /\ Clean(row)
    /\ ~stored => row.cursor = 0
    /\ orderly => Exact(row)
    /\ \A r \in Readers : ReadSound(reader[r])
    /\ ShownIsExact

-----------------------------------------------------------------------------
(* The operators *)

LEMMA FreshIsAggregate ==
    ASSUME NEW v \in 1 .. 2
    PROVE  Fresh(v) \in Aggregate /\ Clean(Fresh(v)) /\ Fresh(v).cursor = 0
    BY FoldAssumption DEF Fresh, Zero, Aggregate, Sums, Clean, Channels, Seqs

LEMMA IdleIsReader == IdleReader \in Reader /\ IdleReader.at = "idle"
    BY FreshIsAggregate DEF IdleReader, Reader

\* Adding a set of events to a sum counts each of them once more, and no other.
LEMMA AddToCounts ==
    ASSUME NEW sum \in Sums, NEW S
    PROVE  /\ AddTo(sum, S) \in Sums
           /\ \A e \in Seqs : AddTo(sum, S)[e] =
                 IF e \in S /\ sum[e] < MaxCount THEN sum[e] + 1 ELSE sum[e]
<1>1. \A e \in Seqs : sum[e] \in 0 .. MaxCount
    BY DEF Sums
<1>2. \A e \in Seqs : (IF e \in S /\ sum[e] < MaxCount THEN sum[e] + 1 ELSE sum[e]) \in 0 .. MaxCount
    BY <1>1, FoldAssumption
<1>3. QED
    BY <1>2 DEF AddTo, Sums

\* A set of naturals with an upper bound has a greatest element.
LEMMA GreatestOfBounded ==
    ASSUME NEW S \in SUBSET Nat, S # {}, NEW last \in Nat, \A s \in S : s <= last
    PROVE  \E top \in S : \A s \in S : s <= top
<1> DEFINE bounds == {b \in Nat : \A s \in S : s <= b}
<1>1. bounds \subseteq Nat /\ bounds # {}
    OBVIOUS
<1>2. \E b \in bounds : \A c \in bounds : ~(<<c, b>> \in OpToRel(<, Nat))
    <2> HIDE DEF bounds
    <2>1. QED
        BY <1>1, NatLessThanWellFounded, WFMin
<1>3. PICK b \in bounds : \A c \in bounds : ~(c < b)
    BY <1>2 DEF OpToRel
<1>4. b \in S
    <2> SUFFICES ASSUME b \notin S PROVE FALSE
        OBVIOUS
    <2>1. b \in Nat /\ \A s \in S : s \in Nat /\ s < b
        OBVIOUS
    <2>2. PICK s \in S : TRUE
        OBVIOUS
    <2>3. b - 1 \in Nat /\ \A q \in S : q <= b - 1
        BY <2>1, <2>2
    <2>4. b - 1 \in bounds /\ b - 1 < b
        BY <2>1, <2>3
    <2>5. QED
        BY <2>4, <1>3
<1>5. QED
    BY <1>4

\* The greatest of a cursor and of a set of events.
LEMMA MaxOfCursor ==
    ASSUME NEW cursor \in 0 .. MaxSeq, NEW S \in SUBSET Seqs
    PROVE  /\ MaxOf({cursor} \cup S) \in {cursor} \cup S
           /\ MaxOf({cursor} \cup S) \in 0 .. MaxSeq
           /\ MaxOf({cursor} \cup S) >= cursor
           /\ \A e \in S : e <= MaxOf({cursor} \cup S)
<1> DEFINE all == {cursor} \cup S
<1>1. all \in SUBSET Nat /\ all # {} /\ MaxSeq \in Nat /\ \A e \in all : e <= MaxSeq /\ e >= 0
    BY FoldAssumption DEF Seqs
<1>2. MaxOf(all) \in all /\ \A e \in all : e <= MaxOf(all)
    <2> HIDE DEF all
    <2>1. \E top \in all : \A e \in all : e <= top
        BY <1>1, GreatestOfBounded
    <2>2. QED
        BY <2>1 DEF MaxOf
<1>3. QED
    BY <1>1, <1>2

\* What a fold makes of an aggregate (after its reset): the cursor moves to the
\* last scored event it saw, and each event past the old cursor counts once more.
LEMMA FoldEffect ==
    ASSUME TypeOK, NEW agg \in Aggregate, NEW seen \in SUBSET Seqs
    PROVE  LET a == Reset(agg)
               f == FoldEvents(agg, seen)
               new == {e \in seen : e > a.cursor}
           IN /\ a \in Aggregate /\ f \in Aggregate
              /\ f.cursor >= a.cursor
              /\ f.cursor = a.cursor \/ f.cursor \in new \cap Scored
              /\ \A e \in new \cap Scored : e <= f.cursor
              /\ \A c \in Channels : \A e \in Seqs :
                   /\ f.mass[c][e] = IF e \in new \cap OfChannel(c) /\ a.mass[c][e] < MaxCount
                                     THEN a.mass[c][e] + 1 ELSE a.mass[c][e]
                   /\ f.obs[c][e] = IF e \in new \cap OfChannel(c) /\ a.obs[c][e] < MaxCount
                                    THEN a.obs[c][e] + 1 ELSE a.obs[c][e]
<1> DEFINE a == Reset(agg)
           f == FoldEvents(agg, seen)
           new == {e \in seen : e > a.cursor}
<1>1. a \in Aggregate
    BY FreshIsAggregate DEF Reset, TypeOK
<1>2. /\ a.cursor \in 0 .. MaxSeq /\ a.abandons \in Sums /\ a.version \in 1 .. 2
      /\ \A c \in Channels : a.mass[c] \in Sums /\ a.obs[c] \in Sums
    BY <1>1 DEF Aggregate
<1>3. new \cap Scored \in SUBSET Seqs
    OBVIOUS
<1> HIDE DEF a
<1>4. f = [mass |-> [c \in Channels |-> AddTo(a.mass[c], new \cap OfChannel(c))],
           obs |-> [c \in Channels |-> AddTo(a.obs[c], new \cap OfChannel(c))],
           abandons |-> AddTo(a.abandons, new \cap Abandons),
           cursor |-> MaxOf({a.cursor} \cup (new \cap Scored)),
           version |-> a.version]
    BY DEF FoldEvents, a
<1> HIDE DEF new, f
<1>5. /\ f.cursor \in 0 .. MaxSeq /\ f.cursor >= a.cursor
      /\ f.cursor = a.cursor \/ f.cursor \in new \cap Scored
      /\ \A e \in new \cap Scored : e <= f.cursor
    BY <1>2, <1>3, <1>4, MaxOfCursor
<1>6. /\ AddTo(a.abandons, new \cap Abandons) \in Sums
      /\ \A c \in Channels : /\ AddTo(a.mass[c], new \cap OfChannel(c)) \in Sums
                             /\ AddTo(a.obs[c], new \cap OfChannel(c)) \in Sums
    BY <1>2, AddToCounts
<1>7. f \in Aggregate
    BY <1>2, <1>4, <1>5, <1>6 DEF Aggregate
<1>8. \A c \in Channels : \A e \in Seqs :
          /\ f.mass[c][e] = AddTo(a.mass[c], new \cap OfChannel(c))[e]
          /\ f.obs[c][e] = AddTo(a.obs[c], new \cap OfChannel(c))[e]
    BY <1>4
<1>9. \A c \in Channels : \A e \in Seqs :
          /\ f.mass[c][e] = IF e \in new \cap OfChannel(c) /\ a.mass[c][e] < MaxCount
                            THEN a.mass[c][e] + 1 ELSE a.mass[c][e]
          /\ f.obs[c][e] = IF e \in new \cap OfChannel(c) /\ a.obs[c][e] < MaxCount
                           THEN a.obs[c][e] + 1 ELSE a.obs[c][e]
    <2> SUFFICES ASSUME NEW c \in Channels, NEW e \in Seqs
                 PROVE  /\ f.mass[c][e] = IF e \in new \cap OfChannel(c) /\ a.mass[c][e] < MaxCount
                                          THEN a.mass[c][e] + 1 ELSE a.mass[c][e]
                        /\ f.obs[c][e] = IF e \in new \cap OfChannel(c) /\ a.obs[c][e] < MaxCount
                                         THEN a.obs[c][e] + 1 ELSE a.obs[c][e]
        OBVIOUS
    <2> DEFINE S == new \cap OfChannel(c)
    <2> HIDE DEF S
    <2>1. a.mass[c] \in Sums /\ a.obs[c] \in Sums
        BY <1>2
    <2>2. /\ AddTo(a.mass[c], S)[e] = IF e \in S /\ a.mass[c][e] < MaxCount
                                      THEN a.mass[c][e] + 1 ELSE a.mass[c][e]
          /\ AddTo(a.obs[c], S)[e] = IF e \in S /\ a.obs[c][e] < MaxCount
                                     THEN a.obs[c][e] + 1 ELSE a.obs[c][e]
        BY <2>1, AddToCounts
    <2>3. QED
        BY <1>8, <2>2 DEF S
<1>10. QED
    BY <1>1, <1>5, <1>7, <1>9 DEF a, f, new

\* An UPDATE from an unchanged row writes the fold it was made from.
LEMMA MergeIsNew ==
    ASSUME NEW old \in Aggregate, NEW new \in Aggregate, row = old
    PROVE  Merge(old, new) = new
<1>1. /\ new.mass = [c \in Channels |-> new.mass[c]]
      /\ new.obs = [c \in Channels |-> new.obs[c]]
      /\ new = [mass |-> new.mass, obs |-> new.obs, abandons |-> new.abandons,
                cursor |-> new.cursor, version |-> new.version]
    BY DEF Aggregate
<1>2. \A c \in Channels :
        /\ new.mass[c] = IF new.mass[c] = old.mass[c] /\ new.mass[c] = Zero
                         THEN row.mass[c] ELSE new.mass[c]
        /\ new.obs[c] = IF new.obs[c] = old.obs[c] THEN row.obs[c] ELSE new.obs[c]
    OBVIOUS
<1>3. /\ new.mass = [c \in Channels |-> IF new.mass[c] = old.mass[c] /\ new.mass[c] = Zero
                                        THEN row.mass[c] ELSE new.mass[c]]
      /\ new.obs = [c \in Channels |-> IF new.obs[c] = old.obs[c] THEN row.obs[c] ELSE new.obs[c]]
    BY <1>1, <1>2
<1>4. /\ new.abandons = IF new.abandons = old.abandons THEN row.abandons ELSE new.abandons
      /\ new.cursor = IF new.cursor = old.cursor THEN row.cursor ELSE new.cursor
      /\ new.version = IF new.version = old.version THEN row.version ELSE new.version
    OBVIOUS
<1>5. QED
    BY <1>1, <1>3, <1>4 DEF Merge

LEMMA MergeIsAggregate ==
    ASSUME row \in Aggregate, NEW old \in Aggregate, NEW new \in Aggregate
    PROVE  Merge(old, new) \in Aggregate
    BY DEF Merge, Aggregate

-----------------------------------------------------------------------------
(* Types, with any number of readers and writers *)

LEMMA TypePreserved == TypeOK /\ [Next]_vars => TypeOK'
<1> SUFFICES ASSUME TypeOK, [Next]_vars PROVE TypeOK'
    OBVIOUS
<1> USE FoldAssumption
<1>1. ASSUME NEW w \in Writers, NEW k \in Kinds, Append(w, k) PROVE TypeOK'
    <2>1. nextSeq \in Seqs /\ nextSeq + 1 \in 1 .. MaxSeq + 1 /\ nextSeq \in 0 .. MaxSeq
        BY <1>1 DEF Append, TypeOK, Seqs
    <2>2. ledger' \in [Seqs -> Event]
        BY <1>1, <2>1 DEF Append, TypeOK, Event
    <2>3. QED
        BY <1>1, <2>1, <2>2 DEF Append, TypeOK
<1>2. ASSUME NEW w \in Writers, CommitAppend(w) \/ RollbackAppend(w) PROVE TypeOK'
    <2>1. writer' \in [Writers -> 0 .. MaxSeq]
        BY <1>2 DEF CommitAppend, RollbackAppend, TypeOK
    <2>2. ledger' \in [Seqs -> Event]
        <3>1. CASE CommitAppend(w)
            <4>1. writer[w] \in Seqs
                BY <3>1 DEF CommitAppend, TypeOK, Seqs
            <4>2. QED
                BY <3>1, <4>1 DEF CommitAppend, TypeOK, Event
        <3>2. CASE RollbackAppend(w)
            BY <3>2 DEF RollbackAppend, TypeOK
        <3>3. QED
            BY <1>2, <3>1, <3>2
    <2>3. QED
        BY <1>2, <2>1, <2>2 DEF CommitAppend, RollbackAppend, TypeOK
<1>3. ASSUME NEW e \in Seqs, Attribute(e) PROVE TypeOK'
    BY <1>3 DEF Attribute, TypeOK, Event
<1>4. ASSUME NEW r \in Readers, Load(r) PROVE TypeOK'
    <2> DEFINE base == IF stored THEN row ELSE Fresh(deployed)
               x == [IdleReader EXCEPT !.at = "loaded", !.had = stored, !.base = base]
    <2>1. base \in Aggregate
        BY FreshIsAggregate DEF TypeOK
    <2> HIDE DEF base
    <2>2. x \in Reader
        BY <2>1, IdleIsReader DEF Reader, TypeOK
    <2>3. reader' = [reader EXCEPT ![r] = x]
        BY <1>4 DEF Load, base
    <2>4. QED
        BY <1>4, <2>2, <2>3 DEF Load, TypeOK
<1>5. ASSUME NEW r \in Readers, Fold(r) PROVE TypeOK'
    <2> DEFINE agg == FoldEvents(reader[r].base, Visible)
    <2>1. reader[r] \in Reader /\ reader[r].base \in Aggregate
        BY DEF TypeOK, Reader
    <2>2. agg \in Aggregate /\ Visible \in SUBSET Seqs
        BY <2>1, FoldEffect DEF Visible
    <2>3. reader' = [reader EXCEPT ![r].at = "folded", ![r].seen = Visible, ![r].agg = agg]
        BY <1>5 DEF Fold
    <2> HIDE DEF agg
    <2>4. reader' \in [Readers -> Reader]
        BY <2>1, <2>2, <2>3 DEF TypeOK, Reader
    <2>5. QED
        BY <1>5, <2>4 DEF Fold, TypeOK
<1>6. ASSUME NEW r \in Readers, FetchRow(r) PROVE TypeOK'
    BY <1>6 DEF FetchRow, TypeOK, Reader
<1>7. ASSUME NEW r \in Readers, Persist(r) PROVE TypeOK'
    <2>1. reader[r] \in Reader /\ reader[r].base \in Aggregate /\ reader[r].agg \in Aggregate /\ row \in Aggregate
        BY DEF TypeOK, Reader
    <2>2. row' \in Aggregate
        BY <1>7, <2>1, MergeIsAggregate DEF Persist
    <2>3. reader' \in [Readers -> Reader]
        BY <1>7, IdleIsReader DEF Persist, TypeOK
    <2>4. QED
        BY <1>7, <2>2, <2>3 DEF Persist, TypeOK
<1>8. ASSUME NEW r \in Readers, Forget(r) PROVE TypeOK'
    BY <1>8, IdleIsReader DEF Forget, TypeOK
<1>9. CASE Deploy
    BY <1>9, IdleIsReader DEF Deploy, TypeOK
<1>10. CASE UNCHANGED vars
    BY <1>10 DEF vars, TypeOK
<1>11. QED
    BY <1>1, <1>2, <1>3, <1>4, <1>5, <1>6, <1>7, <1>8, <1>9, <1>10 DEF Next

LEMMA InitIsTyped == Init => TypeOK
<1> SUFFICES ASSUME Init PROVE TypeOK
    OBVIOUS
<1>1. ledger \in [Seqs -> Event]
    BY DEF Init, Event, AllKinds
<1>2. nextSeq \in 1 .. MaxSeq + 1 /\ writer \in [Writers -> 0 .. MaxSeq]
    BY FoldAssumption DEF Init
<1>3. row \in Aggregate /\ reader \in [Readers -> Reader]
    BY FreshIsAggregate, IdleIsReader DEF Init
<1>4. deployed \in 1 .. 2
    BY DEF Init
<1>5. stored \in BOOLEAN
    BY DEF Init
<1>6. orderly \in BOOLEAN
    BY DEF Init
<1>7. QED
    BY <1>1, <1>2, <1>3, <1>4, <1>5, <1>6 DEF TypeOK

\* However page reads, appends and releases overlap, the row stays well typed.
THEOREM FoldTyped == Spec => []TypeOK
    BY InitIsTyped, TypePreserved, PTL DEF Spec

-----------------------------------------------------------------------------
(* The ledger *)

\* What a step of the ledger does: events that are seen stay what they are, and
\* while events are appended in order a new one comes after all that are seen.
LEMMA LedgerStep ==
    ASSUME TypeOK, LedgerSound,
           \/ \E w \in Writers : \/ \E k \in Kinds : Append(w, k)
                                 \/ CommitAppend(w) \/ RollbackAppend(w)
           \/ \E e \in Seqs : Attribute(e)
    PROVE  /\ UNCHANGED <<stored, row, reader, deployed, orderly>>
           /\ LedgerSound'
           /\ \A e \in Seqs : ledger[e].visible =>
                 ledger'[e].visible /\ ledger'[e].kind = ledger[e].kind
           /\ orderly => \A e, v \in Seqs :
                 ledger'[e].visible /\ ~ledger[e].visible /\ ledger[v].visible => v < e
<1> USE FoldAssumption
<1>1. /\ ledger \in [Seqs -> Event] /\ nextSeq \in 1 .. MaxSeq + 1 /\ writer \in [Writers -> 0 .. MaxSeq]
      /\ Seqs = 1 .. MaxSeq /\ MaxSeq \in Nat
    BY DEF TypeOK, Seqs
<1>2. ASSUME NEW w \in Writers, NEW k \in Kinds, Append(w, k)
      PROVE  /\ LedgerSound'
             /\ \A e \in Seqs : ledger[e].visible =>
                   ledger'[e].visible /\ ledger'[e].kind = ledger[e].kind
             /\ \A e \in Seqs : ledger'[e].visible = ledger[e].visible
    <2>0. /\ nextSeq <= MaxSeq /\ nextSeq' = nextSeq + 1 /\ orderly' = orderly
          /\ ledger' = [ledger EXCEPT ![nextSeq].kind = k, ![nextSeq].mapped = k # "unmapped"]
        BY <1>2 DEF Append
    <2>1. nextSeq \in Seqs /\ nextSeq' = nextSeq + 1 /\ orderly' = orderly
        BY <1>1, <2>0
    <2>2. /\ ledger'[nextSeq].visible = ledger[nextSeq].visible
          /\ ledger'[nextSeq].mapped <=> k # "unmapped"
          /\ \A e \in Seqs \ {nextSeq} : ledger'[e] = ledger[e]
        BY <1>1, <2>0, <2>1 DEF Event
    <2>3. writer'[w] = nextSeq /\ \A v \in Writers \ {w} : writer'[v] = writer[v]
        BY <1>1, <1>2 DEF Append
    <2>4. ~ledger[nextSeq].visible
        BY <1>1, <2>1 DEF LedgerSound
    <2>5. \A e \in Seqs : ledger'[e].visible = ledger[e].visible
        BY <2>2
    <2>6. /\ \A e \in Seqs : ledger'[e].visible => e < nextSeq'
          /\ \A v \in Writers : writer'[v] # 0 => writer'[v] < nextSeq'
        BY <1>1, <2>1, <2>3, <2>5 DEF LedgerSound
    <2>7. ASSUME orderly
          PROVE  /\ \A e \in Seqs : e < nextSeq' => ledger'[e].mapped
                 /\ \A v \in Writers : writer'[v] # 0 =>
                       /\ writer'[v] = nextSeq' - 1 /\ ~ledger'[writer'[v]].visible
                       /\ \A u \in Writers \ {v} : writer'[u] = 0
        <3>1. k # "unmapped" /\ \A v \in Writers : writer[v] = 0
            BY <1>2, <2>7 DEF Append
        <3>2. \A e \in Seqs : e < nextSeq' => ledger'[e].mapped
            BY <1>1, <2>1, <2>2, <2>7, <3>1 DEF LedgerSound
        <3>3. \A v \in Writers : writer'[v] # 0 => writer'[v] = nextSeq /\ v = w
            BY <2>3, <3>1
        <3>4. QED
            BY <1>1, <2>1, <2>3, <2>4, <2>5, <3>1, <3>2, <3>3
    <2>8. LedgerSound'
        BY <2>1, <2>6, <2>7 DEF LedgerSound
    <2>9. QED
        BY <2>2, <2>4, <2>5, <2>8
<1>3. ASSUME NEW w \in Writers, CommitAppend(w)
      PROVE  /\ LedgerSound'
             /\ \A e \in Seqs : ledger[e].visible =>
                   ledger'[e].visible /\ ledger'[e].kind = ledger[e].kind
             /\ orderly => \A e, v \in Seqs :
                   ledger'[e].visible /\ ~ledger[e].visible /\ ledger[v].visible => v < e
    <2>1. writer[w] \in Seqs /\ writer[w] < nextSeq /\ nextSeq' = nextSeq /\ orderly' = orderly
        BY <1>1, <1>3 DEF CommitAppend, LedgerSound
    <2>2. /\ ledger'[writer[w]] = [ledger[writer[w]] EXCEPT !.visible = TRUE]
          /\ \A e \in Seqs \ {writer[w]} : ledger'[e] = ledger[e]
        BY <1>1, <1>3, <2>1 DEF CommitAppend
    <2>3. \A e \in Seqs : /\ ledger'[e].kind = ledger[e].kind /\ ledger'[e].mapped = ledger[e].mapped
                          /\ ledger'[e].visible <=> ledger[e].visible \/ e = writer[w]
        BY <1>1, <2>1, <2>2 DEF Event
    <2>4. writer'[w] = 0 /\ \A v \in Writers \ {w} : writer'[v] = writer[v]
        BY <1>1, <1>3 DEF CommitAppend
    <2>5. orderly => \A v \in Writers : writer'[v] = 0
        BY <1>3, <2>4 DEF LedgerSound, CommitAppend
    <2>6. LedgerSound'
        BY <1>1, <2>1, <2>3, <2>4, <2>5 DEF LedgerSound
    <2>7. orderly => writer[w] = nextSeq - 1
        BY <1>3 DEF LedgerSound, CommitAppend
    <2>8. orderly => \A e, v \in Seqs :
              ledger'[e].visible /\ ~ledger[e].visible /\ ledger[v].visible => v < e
        <3> SUFFICES ASSUME orderly, NEW e \in Seqs, NEW v \in Seqs,
                            ledger'[e].visible, ~ledger[e].visible, ledger[v].visible
                     PROVE  v < e
            OBVIOUS
        <3>1. e = writer[w] /\ e = nextSeq - 1 /\ v # e
            BY <2>3, <2>7
        <3>2. v < nextSeq
            BY DEF LedgerSound
        <3>3. QED
            BY <1>1, <3>1, <3>2
    <2>9. QED
        BY <2>3, <2>6, <2>8
<1>4. ASSUME NEW w \in Writers, RollbackAppend(w)
      PROVE  LedgerSound' /\ ledger' = ledger
    <2>1. /\ UNCHANGED <<ledger, nextSeq, orderly>>
          /\ writer'[w] = 0 /\ \A v \in Writers \ {w} : writer'[v] = writer[v]
        BY <1>1, <1>4 DEF RollbackAppend
    <2>2. QED
        BY <2>1 DEF LedgerSound
<1>5. ASSUME NEW e \in Seqs, Attribute(e)
      PROVE  /\ LedgerSound'
             /\ \A v \in Seqs : ledger'[v].visible = ledger[v].visible /\ ledger'[v].kind = ledger[v].kind
    <2>1. /\ UNCHANGED <<nextSeq, writer, orderly>>
          /\ ledger'[e] = [ledger[e] EXCEPT !.mapped = TRUE]
          /\ \A v \in Seqs \ {e} : ledger'[v] = ledger[v]
        BY <1>1, <1>5 DEF Attribute
    <2>2. \A v \in Seqs : /\ ledger'[v].visible = ledger[v].visible /\ ledger'[v].kind = ledger[v].kind
                          /\ ledger[v].mapped => ledger'[v].mapped
        BY <1>1, <2>1 DEF Event
    <2>3. LedgerSound'
        BY <1>1, <2>1, <2>2 DEF LedgerSound
    <2>4. QED
        BY <2>2, <2>3
<1>6. UNCHANGED <<stored, row, reader, deployed, orderly>>
    BY DEF Append, CommitAppend, RollbackAppend, Attribute
<1>7. QED
    BY <1>2, <1>3, <1>4, <1>5, <1>6

\* Such a step keeps an aggregate exact: what becomes visible lies past its cursor.
LEMMA LedgerKeepsExact ==
    ASSUME TypeOK, LedgerSound, orderly,
           \/ \E w \in Writers : \/ \E k \in Kinds : Append(w, k)
                                 \/ CommitAppend(w) \/ RollbackAppend(w)
           \/ \E e \in Seqs : Attribute(e)
    PROVE  \A agg \in Aggregate : Clean(agg) /\ Exact(agg) => Exact(agg)'
<1> USE FoldAssumption
<1>1. /\ LedgerSound' /\ orderly' = orderly
      /\ \A e \in Seqs : ledger[e].visible =>
            ledger'[e].visible /\ ledger'[e].kind = ledger[e].kind
      /\ \A e, v \in Seqs :
            ledger'[e].visible /\ ~ledger[e].visible /\ ledger[v].visible => v < e
    BY LedgerStep
<1>2. \A e \in Seqs : ledger[e].visible => e \in Visible /\ e \in Visible'
    BY <1>1 DEF LedgerSound, Visible
<1>3. \A e \in Visible : ledger[e].visible /\ e \in Seqs
    BY DEF Visible
<1>4. \A e \in Visible' : ledger'[e].visible /\ e \in Seqs
    BY DEF Visible
<1> SUFFICES ASSUME NEW agg \in Aggregate, Clean(agg), Exact(agg) PROVE Exact(agg)'
    OBVIOUS
<1>5. agg.cursor \in 0 .. MaxSeq /\ Seqs = 1 .. MaxSeq
    BY DEF Aggregate, Seqs
<1>6. agg.cursor = 0 \/ agg.cursor \in Visible' \cap Scored'
    <2>1. \A c \in Channels : \A e \in Visible : e \in OfChannel(c) => e \in OfChannel(c)'
        BY <1>1, <1>3 DEF OfChannel
    <2>2. \A e \in Visible \cap Scored : e \in Visible' /\ e \in Scored'
        BY <1>2, <1>3, <2>1 DEF Scored
    <2>3. QED
        BY <2>2 DEF Exact
<1>7. ASSUME NEW e \in Visible', e \notin Visible PROVE e > agg.cursor
    <2>1. ledger'[e].visible /\ ~ledger[e].visible /\ e \in Seqs
        BY <1>2, <1>4, <1>7
    <2>2. CASE agg.cursor = 0
        BY <1>5, <2>1, <2>2
    <2>3. CASE agg.cursor \in Visible
        BY <1>1, <1>3, <1>5, <2>1, <2>3
    <2>4. QED
        BY <2>2, <2>3 DEF Exact
<1>8. ASSUME NEW c \in Channels, NEW e \in Visible', e \in OfChannel(c)'
      PROVE  /\ agg.mass[c][e] = IF e <= agg.cursor THEN 1 ELSE 0
             /\ agg.obs[c][e] = IF e <= agg.cursor THEN 1 ELSE 0
    <2>1. CASE e \in Visible
        <3>1. e \in OfChannel(c)
            BY <1>1, <1>3, <1>8, <2>1 DEF OfChannel
        <3>2. QED
            BY <2>1, <3>1 DEF Exact, ExactUpTo
    <2>2. CASE e \notin Visible
        BY <1>4, <1>5, <1>7, <2>2 DEF Clean
    <2>3. QED
        BY <2>1, <2>2
<1>9. QED
    BY <1>6, <1>8 DEF Exact, ExactUpTo

-----------------------------------------------------------------------------
(* Folding *)

\* A fold of a clean aggregate is clean, and its cursor has not moved back
\* unless a release had reset it.
LEMMA FoldIsClean ==
    ASSUME TypeOK, NEW agg \in Aggregate, Clean(agg)
    PROVE  Clean(FoldEvents(agg, Visible)) /\ Clean(Reset(agg))
<1> USE FoldAssumption
<1> DEFINE a == Reset(agg)
           f == FoldEvents(agg, Visible)
           new == {e \in Visible : e > a.cursor}
<1>1. Visible \in SUBSET Seqs
    BY DEF Visible
<1>2. /\ a \in Aggregate /\ f \in Aggregate
      /\ f.cursor >= a.cursor
      /\ \A e \in new \cap Scored : e <= f.cursor
      /\ \A c \in Channels : \A e \in Seqs :
           /\ f.mass[c][e] = IF e \in new \cap OfChannel(c) /\ a.mass[c][e] < MaxCount
                             THEN a.mass[c][e] + 1 ELSE a.mass[c][e]
           /\ f.obs[c][e] = IF e \in new \cap OfChannel(c) /\ a.obs[c][e] < MaxCount
                            THEN a.obs[c][e] + 1 ELSE a.obs[c][e]
    BY <1>1, FoldEffect
<1>3. Clean(a)
    BY FreshIsAggregate DEF Reset, TypeOK
<1>4. \A c \in Channels : OfChannel(c) \subseteq Scored
    BY DEF Scored
<1>5. a.cursor \in Nat /\ f.cursor \in Nat /\ Seqs \subseteq Nat
    BY <1>2 DEF Aggregate, Seqs
<1> HIDE DEF a, f
<1>6. ASSUME NEW c \in Channels, NEW e \in Seqs
      PROVE  /\ f.mass[c][e] <= 1 /\ f.obs[c][e] <= 1
             /\ e > f.cursor => f.mass[c][e] = 0 /\ f.obs[c][e] = 0
    <2>1. CASE e \in new \cap OfChannel(c)
        <3>1. e > a.cursor /\ e <= f.cursor
            BY <1>2, <1>4, <2>1
        <3>2. a.mass[c][e] = 0 /\ a.obs[c][e] = 0
            BY <1>3, <3>1 DEF Clean
        <3>3. f.mass[c][e] = 1 /\ f.obs[c][e] = 1
            BY <1>2, <2>1, <3>2
        <3>4. QED
            BY <1>5, <3>1, <3>3
    <2>2. CASE e \notin new \cap OfChannel(c)
        <3>1. f.mass[c][e] = a.mass[c][e] /\ f.obs[c][e] = a.obs[c][e]
            BY <1>2, <2>2
        <3>2. e > f.cursor => e > a.cursor
            BY <1>2, <1>5
        <3>3. QED
            BY <1>3, <3>1, <3>2 DEF Clean
    <2>3. QED
        BY <2>1, <2>2
<1>7. Clean(f)
    BY <1>6 DEF Clean
<1>8. QED
    BY <1>3, <1>7 DEF a, f

\* A fold of an exact aggregate is exact, counts every event it saw, and is not
\* behind the cursor it began from, even when a release has reset it.
LEMMA FoldIsExact ==
    ASSUME TypeOK, NEW agg \in Aggregate, Clean(agg), Exact(agg)
    PROVE  LET f == FoldEvents(agg, Visible)
           IN /\ Exact(f) /\ f.cursor >= agg.cursor
              /\ \A c \in Channels : \A e \in Visible \cap OfChannel(c) :
                    f.mass[c][e] = 1 /\ f.obs[c][e] = 1
<1> USE FoldAssumption
<1> DEFINE a == Reset(agg)
           f == FoldEvents(agg, Visible)
           new == {e \in Visible : e > a.cursor}
<1>1. Visible \in SUBSET Seqs
    BY DEF Visible
<1>2. /\ a \in Aggregate /\ f \in Aggregate
      /\ f.cursor >= a.cursor
      /\ f.cursor = a.cursor \/ f.cursor \in new \cap Scored
      /\ \A e \in new \cap Scored : e <= f.cursor
      /\ \A c \in Channels : \A e \in Seqs :
           /\ f.mass[c][e] = IF e \in new \cap OfChannel(c) /\ a.mass[c][e] < MaxCount
                             THEN a.mass[c][e] + 1 ELSE a.mass[c][e]
           /\ f.obs[c][e] = IF e \in new \cap OfChannel(c) /\ a.obs[c][e] < MaxCount
                            THEN a.obs[c][e] + 1 ELSE a.obs[c][e]
    BY <1>1, FoldEffect
<1>3. Clean(a)
    BY FoldIsClean
<1>4. Seqs \subseteq Nat \ {0} /\ a.cursor \in Nat /\ f.cursor \in Nat /\ agg.cursor \in Nat
    BY <1>2 DEF Aggregate, Seqs
<1>5. a = agg \/ a = Fresh(deployed)
    BY DEF Reset
<1>6. Exact(a)
    <2>1. CASE a = Fresh(deployed)
        <3>1. /\ a.cursor = 0
              /\ \A c \in Channels : \A e \in Seqs : a.mass[c][e] = 0 /\ a.obs[c][e] = 0
            BY <2>1 DEF Fresh, Zero
        <3>2. \A e \in Visible : e \in Seqs /\ ~(e <= 0)
            BY <1>1, <1>4
        <3>3. QED
            BY <3>1, <3>2 DEF Exact, ExactUpTo
    <2>2. QED
        BY <1>5, <2>1
<1>7. \A c \in Channels : OfChannel(c) \subseteq Scored
    BY DEF Scored
<1>8. f.cursor >= agg.cursor
    <2>1. CASE a = agg
        BY <1>2, <2>1
    <2>2. CASE a = Fresh(deployed)
        <3>1. a.cursor = 0
            BY <2>2 DEF Fresh
        <3>2. CASE agg.cursor \in Visible \cap Scored
            BY <1>1, <1>2, <1>4, <3>1, <3>2
        <3>3. QED
            BY <1>4, <3>2 DEF Exact
    <2>3. QED
        BY <1>5, <2>1, <2>2
<1> HIDE DEF a, f
<1>9. ASSUME NEW c \in Channels, NEW e \in Visible \cap OfChannel(c)
      PROVE  f.mass[c][e] = 1 /\ f.obs[c][e] = 1 /\ e <= f.cursor
    <2>1. CASE e > a.cursor
        <3>1. e \in Seqs /\ e \in new /\ e <= f.cursor
            BY <1>1, <1>2, <1>7, <1>9, <2>1
        <3>2. a.mass[c][e] = 0 /\ a.obs[c][e] = 0
            BY <1>3, <2>1, <3>1 DEF Clean
        <3>3. QED
            BY <1>2, <1>9, <3>1, <3>2
    <2>2. CASE ~(e > a.cursor)
        <3>1. e \in Seqs /\ e <= a.cursor /\ e <= f.cursor
            BY <1>1, <1>2, <1>4, <2>2
        <3>2. a.mass[c][e] = 1 /\ a.obs[c][e] = 1
            BY <1>6, <3>1 DEF Exact, ExactUpTo
        <3>3. QED
            BY <1>2, <2>2, <3>1, <3>2
    <2>3. QED
        BY <2>1, <2>2
<1>10. f.cursor = 0 \/ f.cursor \in Visible \cap Scored
    BY <1>2, <1>6 DEF Exact
<1>11. Exact(f)
    BY <1>9, <1>10 DEF Exact, ExactUpTo
<1>12. QED
    BY <1>8, <1>9, <1>11 DEF f

-----------------------------------------------------------------------------
(* Page reads that follow one another *)

\* The shown states rest on what was read, stated for one reader.
Shows(x) ==
    orderly /\ x.at = "folded" =>
        \A c \in Channels : \A e \in x.seen \cap OfChannel(c) :
            x.agg.mass[c][e] = 1 /\ x.agg.obs[c][e] = 1

LEMMA LedgerKeepsIInv ==
    ASSUME IInv,
           \/ \E w \in Writers : \/ \E k \in Kinds : Append(w, k)
                                 \/ CommitAppend(w) \/ RollbackAppend(w)
           \/ \E e \in Seqs : Attribute(e)
    PROVE  IInv'
<1>1. TypeOK /\ LedgerSound /\ TypeOK'
    BY TypePreserved DEF IInv, Next
<1>2. /\ UNCHANGED <<stored, row, reader, deployed, orderly>>
      /\ LedgerSound'
      /\ \A e \in Seqs : ledger[e].visible =>
            ledger'[e].visible /\ ledger'[e].kind = ledger[e].kind
    BY <1>1, LedgerStep
<1>3. orderly => \A agg \in Aggregate : Clean(agg) /\ Exact(agg) => Exact(agg)'
    BY <1>1, LedgerKeepsExact
<1>4. Clean(row)' /\ (~stored => row.cursor = 0)'
    BY <1>2 DEF IInv, Clean
<1>5. (orderly => Exact(row))'
    BY <1>1, <1>2, <1>3 DEF IInv, TypeOK, Exact
<1>6. ASSUME NEW r \in Readers PROVE ReadSound(reader[r])' /\ Shows(reader[r])'
    <2>1. reader'[r] = reader[r] /\ ReadSound(reader[r]) /\ Shows(reader[r]) /\ reader[r] \in Reader
        BY <1>1, <1>2 DEF IInv, TypeOK, ShownIsExact, Shows
    <2>2. /\ reader[r].base \in Aggregate /\ reader[r].agg \in Aggregate
          /\ reader[r].seen \subseteq Seqs
        BY <2>1 DEF Reader
    <2>3. Clean(reader[r].base)' = Clean(reader[r].base) /\ Clean(reader[r].agg)' = Clean(reader[r].agg)
        BY <2>1 DEF Clean
    <2>4. ReadSound(reader[r])'
        <3>1. orderly /\ reader[r].at = "loaded" => Exact(reader[r].base)'
            BY <1>3, <2>1, <2>2 DEF ReadSound, Exact
        <3>2. orderly /\ reader[r].at \in {"folded", "inserting"} => Exact(reader[r].agg)'
            BY <1>3, <2>1, <2>2 DEF ReadSound, Exact
        <3>3. reader[r].at \in {"folded", "inserting"} => \A e \in reader[r].seen : ledger'[e].visible
            BY <1>2, <2>1, <2>2 DEF ReadSound
        <3>4. QED
            BY <1>2, <2>1, <2>3, <3>1, <3>2, <3>3 DEF ReadSound
    <2>5. Shows(reader[r])'
        <3>1. CASE reader[r].at = "folded"
            <4>1. \A c \in Channels : \A e \in reader[r].seen : e \in OfChannel(c)' => e \in OfChannel(c)
                BY <1>2, <2>1, <2>2, <3>1 DEF ReadSound, OfChannel
            <4>2. QED
                BY <1>2, <2>1, <4>1 DEF Shows
        <3>2. CASE reader[r].at # "folded"
            BY <2>1, <3>2 DEF Shows
        <3>3. QED
            BY <3>1, <3>2
    <2>6. QED
        BY <2>4, <2>5
<1>7. QED
    BY <1>1, <1>2, <1>4, <1>5, <1>6 DEF IInv, ShownIsExact, Shows

\* What a page read stores, while no other runs, is what it folded.
LEMMA PersistsItsFold ==
    ASSUME IInv, NEW r \in Readers, Persist(r)
    PROVE  row' = reader[r].agg /\ reader[r].at \in {"folded", "inserting"}
<1>1. reader[r] \in Reader /\ ReadSound(reader[r])
    BY DEF IInv, TypeOK
<1>2. reader[r].base \in Aggregate /\ reader[r].agg \in Aggregate
    BY <1>1 DEF Reader
<1>3. CASE reader[r].at = "inserting" /\ row' = reader[r].agg
    BY <1>3
<1>4. CASE reader[r].at = "folded" /\ reader[r].had /\ row' = Merge(reader[r].base, reader[r].agg)
    <2>1. row = reader[r].base
        BY <1>1, <1>4 DEF ReadSound
    <2>2. QED
        BY <1>2, <1>4, <2>1, MergeIsNew
<1>5. QED
    BY <1>3, <1>4 DEF Persist

LEMMA ReadKeepsIInv ==
    ASSUME OneReader, IInv, NEW r \in Readers,
           Load(r) \/ Fold(r) \/ FetchRow(r) \/ Persist(r) \/ Forget(r)
    PROVE  IInv'
<1> USE FoldAssumption
<1>1. /\ TypeOK /\ LedgerSound /\ TypeOK' /\ LedgerSound' /\ reader[r] \in Reader
      /\ UNCHANGED <<ledger, nextSeq, writer, deployed, orderly>>
      /\ ReadSound(reader[r]) /\ Shows(reader[r]) /\ Readers = {r}
    <2>1. TypeOK' /\ UNCHANGED <<ledger, nextSeq, writer, deployed, orderly>>
        BY TypePreserved DEF IInv, Next, Load, Fold, FetchRow, Persist, Forget
    <2>2. LedgerSound'
        BY <2>1 DEF IInv, LedgerSound
    <2>3. QED
        BY <2>1, <2>2 DEF IInv, OneReader, TypeOK, ShownIsExact, Shows
<1>2. /\ reader[r].base \in Aggregate /\ reader[r].agg \in Aggregate /\ row \in Aggregate
      /\ deployed \in 1 .. 2 /\ stored \in BOOLEAN
    BY <1>1 DEF TypeOK, Reader
<1>3. \A agg \in Aggregate : Exact(agg)' <=> Exact(agg)
    BY <1>1 DEF Exact, ExactUpTo, Visible, Scored, OfChannel
<1>4. ASSUME row' = row, stored' = stored, ReadSound(reader[r])', Shows(reader[r])'
      PROVE  IInv'
    <2>1. Clean(row)' /\ (~stored => row.cursor = 0)' /\ (orderly => Exact(row))'
        BY <1>1, <1>2, <1>3, <1>4 DEF IInv, Clean, Exact
    <2>2. QED
        BY <1>1, <1>4, <2>1 DEF IInv, ShownIsExact, Shows
<1>5. ASSUME reader'[r] = IdleReader
      PROVE  ReadSound(reader[r])' /\ Shows(reader[r])'
    BY <1>5, IdleIsReader DEF ReadSound, Shows
<1>6. CASE Load(r)
    <2> DEFINE base == IF stored THEN row ELSE Fresh(deployed)
    <2>1. /\ reader'[r].at = "loaded" /\ reader'[r].had = stored /\ reader'[r].base = base
          /\ UNCHANGED <<stored, row>>
        BY <1>1, <1>6, IdleIsReader DEF Load, TypeOK, Reader
    <2>2. base \in Aggregate /\ Clean(base)
        BY <1>2, FreshIsAggregate DEF IInv
    <2>3. orderly => Exact(base)
        <3>1. CASE stored
            BY <3>1 DEF IInv
        <3>2. CASE ~stored
            <4>1. /\ base.cursor = 0
                  /\ \A c \in Channels : \A e \in Seqs : base.mass[c][e] = 0 /\ base.obs[c][e] = 0
                BY <3>2 DEF Fresh, Zero
            <4>2. \A e \in Visible : e \in Seqs /\ ~(e <= 0)
                BY DEF Visible, Seqs
            <4>3. QED
                BY <4>1, <4>2 DEF Exact, ExactUpTo
        <3>3. QED
            BY <3>1, <3>2
    <2>4. Clean(reader[r].base)'
        BY <2>1, <2>2 DEF Clean
    <2>5. (orderly => Exact(reader[r].base))'
        BY <1>1, <1>3, <2>1, <2>2, <2>3 DEF Exact
    <2>6. IF reader'[r].had THEN stored' /\ reader'[r].base = row' ELSE ~stored'
        BY <2>1
    <2>7. ReadSound(reader[r])' /\ Shows(reader[r])'
        BY <2>1, <2>4, <2>5, <2>6 DEF ReadSound, Shows
    <2>8. QED
        BY <1>4, <2>1, <2>7
<1>7. CASE Fold(r)
    <2> DEFINE f == FoldEvents(reader[r].base, Visible)
    <2>1. /\ reader[r].at = "loaded" /\ reader'[r].at = "folded" /\ reader'[r].had = reader[r].had
          /\ reader'[r].base = reader[r].base /\ reader'[r].seen = Visible /\ reader'[r].agg = f
          /\ UNCHANGED <<stored, row>>
        <3> HIDE DEF f
        <3>1. reader' = [reader EXCEPT ![r].at = "folded", ![r].seen = Visible, ![r].agg = f]
            BY <1>7 DEF Fold, f
        <3>2. QED
            BY <1>1, <1>7, <3>1 DEF Fold, TypeOK, Reader
    <2>2. Visible \in SUBSET Seqs /\ \A e \in Visible : ledger[e].visible
        BY DEF Visible
    <2>3. Clean(reader[r].base) /\ Clean(f) /\ f \in Aggregate
        BY <1>1, <1>2, <2>1, <2>2, FoldIsClean, FoldEffect DEF ReadSound
    <2>4. orderly => /\ Exact(f) /\ f.cursor >= reader[r].base.cursor
                     /\ \A c \in Channels : \A e \in Visible \cap OfChannel(c) :
                            f.mass[c][e] = 1 /\ f.obs[c][e] = 1
        BY <1>1, <1>2, <2>1, <2>3, FoldIsExact DEF ReadSound
    <2>5. orderly => f.cursor >= row.cursor
        <3>1. CASE reader[r].had
            BY <1>1, <2>1, <2>4, <3>1 DEF ReadSound
        <3>2. CASE ~reader[r].had
            BY <1>1, <2>1, <2>3, <3>2 DEF ReadSound, IInv, Aggregate
        <3>3. QED
            BY <3>1, <3>2
    <2> HIDE DEF f
    <2>6. Clean(reader[r].base)' /\ Clean(reader[r].agg)' /\ (orderly => Exact(reader[r].agg))'
        BY <1>1, <1>3, <2>1, <2>3, <2>4 DEF Clean, Exact
    <2>7. ReadSound(reader[r])'
        BY <1>1, <2>1, <2>2, <2>5, <2>6 DEF ReadSound
    <2>8. Shows(reader[r])'
        BY <1>1, <2>1, <2>4 DEF Shows, OfChannel
    <2>9. QED
        BY <1>4, <2>1, <2>7, <2>8
<1>8. CASE FetchRow(r)
    <2>1. reader[r].at = "folded" /\ ~reader[r].had /\ ~stored /\ UNCHANGED <<stored, row>>
        BY <1>1, <1>8 DEF FetchRow, ReadSound
    <2>2. reader'[r] = [reader[r] EXCEPT !.at = "inserting"]
        BY <1>1, <1>8, <2>1 DEF FetchRow, TypeOK
    <2>3. /\ reader'[r].at = "inserting" /\ reader'[r].had = reader[r].had
          /\ reader'[r].base = reader[r].base /\ reader'[r].seen = reader[r].seen
          /\ reader'[r].agg = reader[r].agg
        BY <1>1, <2>2 DEF Reader
    <2>4. Clean(reader[r].base)' /\ Clean(reader[r].agg)' /\ (orderly => Exact(reader[r].agg))'
        BY <1>1, <1>2, <1>3, <2>1, <2>3 DEF ReadSound, Clean, Exact
    <2>5. ReadSound(reader[r])' /\ Shows(reader[r])'
        BY <1>1, <2>1, <2>3, <2>4 DEF ReadSound, Shows
    <2>6. QED
        BY <1>4, <2>1, <2>5
<1>9. CASE Persist(r)
    <2>1. row' = reader[r].agg /\ reader[r].at \in {"folded", "inserting"} /\ stored'
          /\ reader'[r] = IdleReader
        BY <1>1, <1>9, PersistsItsFold DEF Persist, TypeOK
    <2>2. Clean(row)' /\ (orderly => Exact(row))'
        BY <1>1, <1>2, <1>3, <2>1 DEF ReadSound, Clean, Exact
    <2>3. QED
        BY <1>1, <1>5, <2>1, <2>2 DEF IInv, ShownIsExact, Shows
<1>10. CASE Forget(r)
    <2>1. reader'[r] = IdleReader /\ UNCHANGED <<stored, row>>
        BY <1>1, <1>10 DEF Forget, TypeOK
    <2>2. QED
        BY <1>4, <1>5, <2>1
<1>11. QED
    BY <1>6, <1>7, <1>8, <1>9, <1>10

LEMMA NextKeepsIInv == OneReader /\ IInv /\ [Next]_vars => IInv'
<1> SUFFICES ASSUME OneReader, IInv, [Next]_vars PROVE IInv'
    OBVIOUS
<1>1. CASE Deploy \/ UNCHANGED vars
    <2>1. TypeOK' /\ UNCHANGED <<ledger, nextSeq, stored, row, orderly>>
        BY <1>1, TypePreserved DEF IInv, Next, Deploy, vars
    <2>2. /\ \A w \in Writers : writer'[w] = 0 \/ writer'[w] = writer[w]
          /\ \A r \in Readers : reader'[r] = IdleReader \/ reader'[r] = reader[r]
        BY <1>1 DEF Deploy, vars
    <2>3. LedgerSound'
        BY <2>1, <2>2 DEF IInv, LedgerSound
    <2>4. \A agg \in Aggregate : Exact(agg)' <=> Exact(agg)
        BY <2>1 DEF Exact, ExactUpTo, Visible, Scored, OfChannel
    <2>5. Clean(row)' /\ (~stored => row.cursor = 0)' /\ (orderly => Exact(row))'
        BY <2>1, <2>4 DEF IInv, TypeOK, Clean, Exact
    <2>6. ASSUME NEW r \in Readers PROVE ReadSound(reader[r])' /\ Shows(reader[r])'
        <3>1. CASE reader'[r] = IdleReader
            BY <3>1, IdleIsReader DEF ReadSound, Shows
        <3>2. CASE reader'[r] = reader[r]
            <4>1. /\ ReadSound(reader[r]) /\ Shows(reader[r])
                  /\ reader[r].base \in Aggregate /\ reader[r].agg \in Aggregate
                BY DEF IInv, TypeOK, Reader, ShownIsExact, Shows
            <4>2. Clean(reader[r].base)' = Clean(reader[r].base) /\ Clean(reader[r].agg)' = Clean(reader[r].agg)
                BY <3>2 DEF Clean
            <4>3. Exact(reader[r].base)' = Exact(reader[r].base) /\ Exact(reader[r].agg)' = Exact(reader[r].agg)
                BY <2>1, <3>2 DEF Exact, ExactUpTo, Visible, Scored, OfChannel
            <4>4. ReadSound(reader[r])'
                BY <2>1, <3>2, <4>1, <4>2, <4>3 DEF ReadSound
            <4>5. Shows(reader[r])'
                BY <2>1, <3>2, <4>1 DEF Shows, OfChannel
            <4>6. QED
                BY <4>4, <4>5
        <3>3. QED
            BY <2>2, <3>1, <3>2
    <2>7. QED
        BY <2>1, <2>3, <2>5, <2>6 DEF IInv, ShownIsExact, Shows
<1>2. QED
    BY <1>1, LedgerKeepsIInv, ReadKeepsIInv DEF Next

LEMMA InitIsIInv == Init => IInv
<1> SUFFICES ASSUME Init PROVE IInv
    OBVIOUS
<1>1. TypeOK /\ row = Fresh(1) /\ Clean(row) /\ row.cursor = 0
    BY InitIsTyped, FreshIsAggregate DEF Init
<1>2. Visible = {} /\ \A e \in Seqs : ~ledger[e].visible
    BY DEF Init, Visible
<1>3. LedgerSound
    BY <1>2 DEF Init, LedgerSound, Seqs
<1>4. Exact(row)
    BY <1>1, <1>2 DEF Exact, ExactUpTo
<1>5. \A r \in Readers : ReadSound(reader[r]) /\ reader[r].at = "idle"
    BY IdleIsReader DEF Init, ReadSound
<1>6. QED
    BY <1>1, <1>3, <1>4, <1>5 DEF IInv, ShownIsExact

LEMMA OneReaderInvariant == ASSUME OneReader PROVE Spec => []IInv
<1>1. Init => IInv
    BY InitIsIInv
<1>2. IInv /\ [Next]_vars => IInv'
    BY NextKeepsIInv
<1>3. QED
    BY <1>1, <1>2, PTL DEF Spec

\* Page reads that follow one another store the sums of their cursor, show every
\* event they read exactly once, and weigh no answer twice (fold_events, the guard
\* on the cursor, and persistAggregates), for any number of events and writers.
THEOREM OneReaderFoldsExactly == ASSUME OneReader PROVE Spec => []FoldExact
<1>1. IInv => FoldExact
    <2> SUFFICES ASSUME IInv PROVE FoldExact
        OBVIOUS
    <2>1. SumsMatchCursor
        BY DEF IInv, SumsMatchCursor, Exact
    <2>2. NeverTwice
        BY DEF IInv, NeverTwice, Clean
    <2>3. QED
        BY <2>1, <2>2 DEF IInv, FoldExact
<1>2. QED
    BY <1>1, OneReaderInvariant, PTL

\* Nor does such a read move the stored cursor back, even when a release has reset
\* the aggregate and it is folded again from the first event.
THEOREM OneReaderMovesForward == ASSUME OneReader PROVE Spec => CursorForward
<1>1. IInv /\ [Next]_vars => [orderly => row'.cursor >= row.cursor]_vars
    <2> SUFFICES ASSUME IInv, Next, orderly PROVE row'.cursor >= row.cursor
        OBVIOUS
    <2>1. row.cursor \in Nat
        BY FoldAssumption DEF IInv, TypeOK, Aggregate
    <2>2. ASSUME NEW r \in Readers, Persist(r) PROVE row'.cursor >= row.cursor
        <3>1. row' = reader[r].agg /\ reader[r].at \in {"folded", "inserting"}
            BY <2>2, PersistsItsFold
        <3>2. ReadSound(reader[r])
            BY DEF IInv
        <3>3. QED
            BY <3>1, <3>2 DEF ReadSound
    <2>3. CASE row' = row
        BY <2>1, <2>3
    <2>4. QED
        BY <2>2, <2>3 DEF Next, Append, CommitAppend, RollbackAppend, Attribute, Load, Fold,
            FetchRow, Forget, Deploy
<1>2. QED
    BY <1>1, OneReaderInvariant, PTL DEF Spec, CursorForward
=============================================================================
