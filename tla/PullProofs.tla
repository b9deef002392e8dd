----------------------------- MODULE PullProofs -----------------------------
(***************************************************************************)
(* Theorems about the pull (SyncPull), for any number of rows, tables and  *)
(* writers and any size of a page.                                         *)
(*                                                                         *)
(* The argument is that of keyset pagination over several tables: while    *)
(* the server reads, a row behind the cursor of a table it has read is     *)
(* among the rows it has found, or a page's worth of found rows sorts      *)
(* before it.  A row that is written once the reading is over is stamped   *)
(* later than all that was found, and sorts behind the page.               *)
(***************************************************************************)
EXTENDS SyncPull, FiniteSetTheorems, WellFoundedInduction, TLAPS

Entries == [id : Records, row : Row]

EntryOf(r) == [id |-> r, row |-> table[r]]

\* How many rows of F sort before position p.
Rank(F, p) == Cardinality({g \in F : After(p, At(g))})

\* r was written after all that the request has found.
Newer(r) == \A f \in feed.found : f.row.stamp < table[r].stamp

\* The rows and the writes in progress are stamped up to now.
StampsInv ==
    /\ table \in [Records -> Row]
    /\ clock \in Nat \ {0}
    /\ writing \in [Writers -> Write]
    /\ writes \in 0..MaxWrites
    /\ \A r \in Records : table[r].stamp <= clock
    /\ \A r \in Records : table[r].version # 0 => table[r].stamp # 0
    /\ \A w \in Writers : writing[w] # NoWrite =>
        /\ writing[w].record \in Records
        /\ writing[w].row.stamp \in 1..clock

\* What has been found of the tables that were read is all a page can need.
FeedInv ==
    /\ feed \in [pc : {"idle", "reading", "page"}, from : Position,
                 left : SUBSET Tables, found : SUBSET Entries]
    /\ IsFiniteSet(feed.found)
    /\ feed.pc # "reading" => feed.left = {}
    /\ feed.pc = "idle" => feed.found = {}
    /\ feed.pc # "idle" => feed.from = cursor
    /\ \A f \in feed.found :
        /\ f.row.version # 0
        /\ After(At(f), feed.from)
        /\ f.row.stamp < clock
        /\ TableOf[f.id] \notin feed.left
        /\ f.id \notin escaped => \/ f = EntryOf(f.id)
                                  \/ /\ feed.pc = "page" /\ Newer(f.id)
                                     /\ f.row.version < table[f.id].version
    /\ \A f, g \in feed.found : f.id = g.id => f = g
    /\ \A r \in Records \ escaped :
        /\ feed.pc # "idle" /\ TableOf[r] \notin feed.left
        /\ table[r].version # 0 /\ After(At(EntryOf(r)), feed.from)
        => \/ EntryOf(r) \in feed.found
           \/ PageLimit <= Rank(feed.found, At(EntryOf(r)))
           \/ feed.pc = "page" /\ Newer(r)

\* A copy is no newer than its row, and shows it if it is as new; a row without a store
\* is passed all the same.
CopiesInv ==
    /\ cursor \in Position /\ cursor.stamp < clock
    /\ cache \in [Records -> Copy]
    /\ unsettled \in SUBSET Records
    /\ delivered \in [Records -> Nat]
    /\ escaped \in SUBSET Records
    /\ OwnChangeIsShown
    /\ \A r \in Records \ escaped :
        /\ cache[r].version <= table[r].version
        /\ cache[r].version = table[r].version /\ table[r].version # 0 => Shown(r)
        /\ Passed(r) => delivered[r] = table[r].stamp
        /\ HasStore(r) /\ Passed(r) /\ r \notin unsettled => Shown(r)

PullInv == StampsInv /\ FeedInv /\ CopiesInv

-----------------------------------------------------------------------------
(* The order of the rows, and pages of sets of rows                        *)

\* A row's place in the feed.
LEMMA PlaceOfEntry ==
    ASSUME NEW f \in Entries
    PROVE  /\ At(f) \in Position /\ At(f).stamp = f.row.stamp /\ At(f).id = f.id
           /\ f.id \in Nat /\ f.row.stamp \in Nat /\ f.row.version \in Nat
BY SyncPullAssumption DEF Entries, At, Position, Row

\* The places are totally ordered.
LEMMA OrderIsTotal ==
    ASSUME NEW p \in Position, NEW q \in Position
    PROVE  /\ p.stamp \in Nat /\ p.id \in Nat
           /\ ~After(p, p)
           /\ After(p, q) => ~After(q, p)
           /\ After(p, q) \/ After(q, p) \/ p = q
           /\ \A o \in Position : After(o, p) /\ After(p, q) => After(o, q)
           /\ \A o \in Position : ~After(p, o) /\ After(p, q) => After(o, q)
<1>1. ASSUME NEW o \in Position PROVE o.stamp \in Nat /\ o.id \in Nat
  <2>1. Records \cup {0} \subseteq Nat
    BY SyncPullAssumption
  <2>2. o.stamp \in Nat /\ o.id \in Records \cup {0}
    BY DEF Position
  <2>3. QED
    BY <2>1, <2>2
<1>2. p.stamp = q.stamp /\ p.id = q.id => p = q
  BY DEF Position
<1>3. QED
  BY <1>1, <1>2 DEF After

LEMMA RankIsNumber ==
    ASSUME NEW F, IsFiniteSet(F), NEW p
    PROVE  /\ Rank(F, p) \in Nat /\ IsFiniteSet({g \in F : After(p, At(g))})
           /\ Rank(F, p) <= Cardinality(F) /\ Cardinality(F) \in Nat
<1>1. {g \in F : After(p, At(g))} \in SUBSET F
  OBVIOUS
<1>2. QED
  BY <1>1, FS_Subset, FS_CardinalityType DEF Rank

\* A later place, and a larger set, have as many rows before them or more.
LEMMA RankGrows ==
    ASSUME NEW F \in SUBSET Entries, NEW G \in SUBSET Entries, F \subseteq G, IsFiniteSet(G),
           NEW p \in Position, NEW q \in Position, ~After(p, q)
    PROVE  Rank(F, p) <= Rank(G, q)
<1> DEFINE A == {g \in F : After(p, At(g))}
           B == {g \in G : After(q, At(g))}
<1>1. A \subseteq B
  BY PlaceOfEntry, OrderIsTotal
<1>2. IsFiniteSet(B)
  BY FS_Subset
<1>3. Cardinality(A) <= Cardinality(B)
  BY <1>1, <1>2, FS_Subset
<1>4. QED
  BY <1>3 DEF Rank

\* A row has one more before it than a row that sorts before it.
LEMMA RankOfLater ==
    ASSUME NEW F \in SUBSET Entries, IsFiniteSet(F), NEW f \in F, NEW q \in Position, After(q, At(f))
    PROVE  Rank(F, At(f)) < Rank(F, q)
<1> DEFINE A == {g \in F : After(At(f), At(g))}
           B == {g \in F : After(q, At(g))}
<1>1. f \in Entries /\ At(f) \in Position
  BY PlaceOfEntry
<1>2. A \cup {f} \subseteq B /\ f \notin A
  BY <1>1, PlaceOfEntry, OrderIsTotal
<1>3. IsFiniteSet(A) /\ IsFiniteSet(B)
  BY FS_Subset
<1>4. Cardinality(A \cup {f}) = Cardinality(A) + 1 /\ IsFiniteSet(A \cup {f})
  BY <1>2, <1>3, FS_AddElement
<1>5. Cardinality(A \cup {f}) <= Cardinality(B)
  BY <1>2, <1>3, FS_Subset
<1>6. Cardinality(A) \in Nat /\ Cardinality(B) \in Nat
  BY <1>3, FS_CardinalityType
<1>7. QED
  BY <1>4, <1>5, <1>6 DEF Rank

LEMMA LeastNumber ==
    ASSUME NEW T, T \subseteq Nat, T # {}
    PROVE  \E x \in T : \A y \in T : x <= y
<1> DEFINE Less == {ss \in Nat \X Nat : ss[1] < ss[2]}
<1>1. IsWellFoundedOn(Less, Nat)
  BY NatLessThanWellFounded DEF OpToRel
<1>2. PICK x \in T : \A y \in T : <<y, x>> \notin Less
  <2> HIDE DEF Less
  <2>1. QED
    BY <1>1, WFMin
<1>3. ASSUME NEW y \in T PROVE x <= y
  <2>1. x \in Nat /\ y \in Nat
    OBVIOUS
  <2>2. y < x => <<y, x>> \in Less
    BY <2>1
  <2>3. QED
    BY <1>2, <2>1, <2>2
<1>4. QED
  BY <1>3

\* Rows that are not none have a first and a last.
LEMMA FirstAndLast ==
    ASSUME NEW F \in SUBSET Entries, IsFiniteSet(F), F # {}
    PROVE  /\ \E f \in F : \A g \in F : ~After(At(f), At(g))
           /\ \E f \in F : \A g \in F : ~After(At(g), At(f))
<1>1. \A f \in F : At(f) \in Position /\ Rank(F, At(f)) \in Nat /\ Rank(F, At(f)) <= Cardinality(F)
  BY PlaceOfEntry, RankIsNumber
<1>2. Cardinality(F) \in Nat
  BY RankIsNumber
<1>3. \E f \in F : \A g \in F : ~After(At(f), At(g))
  <2> DEFINE T == {Rank(F, At(f)) : f \in F}
  <2>1. PICK x \in T : \A y \in T : x <= y
    <3>1. T \subseteq Nat /\ T # {}
      BY <1>1
    <3> HIDE DEF T
    <3>2. QED
      BY <3>1, LeastNumber
  <2>2. PICK f \in F : x = Rank(F, At(f))
    OBVIOUS
  <2>3. ASSUME NEW g \in F, After(At(f), At(g)) PROVE FALSE
    <3>1. Rank(F, At(g)) < Rank(F, At(f))
      BY <1>1, <2>3, RankOfLater
    <3>2. x <= Rank(F, At(g))
      BY <2>1
    <3>3. QED
      BY <1>1, <2>2, <3>1, <3>2
  <2>4. QED
    BY <2>3
<1>4. \E f \in F : \A g \in F : ~After(At(g), At(f))
  <2> DEFINE T == {Cardinality(F) - Rank(F, At(f)) : f \in F}
  <2>1. PICK x \in T : \A y \in T : x <= y
    <3>1. \A f \in F : Cardinality(F) - Rank(F, At(f)) \in Nat
      BY <1>1, <1>2
    <3>2. T \subseteq Nat /\ T # {}
      BY <3>1
    <3> HIDE DEF T
    <3>3. QED
      BY <3>2, LeastNumber
  <2>2. PICK f \in F : x = Cardinality(F) - Rank(F, At(f))
    OBVIOUS
  <2>3. ASSUME NEW g \in F, After(At(g), At(f)) PROVE FALSE
    <3>1. Rank(F, At(f)) < Rank(F, At(g))
      BY <1>1, <2>3, RankOfLater
    <3>2. x <= Cardinality(F) - Rank(F, At(g))
      BY <2>1
    <3>3. QED
      BY <1>1, <1>2, <2>2, <3>1, <3>2
  <2>4. QED
    BY <2>3
<1>5. QED
  BY <1>3, <1>4

\* The first n rows: those that are left out have n of them before them.
LEMMA FirstRows ==
    ASSUME NEW F \in SUBSET Entries, IsFiniteSet(F), NEW n \in Nat
    PROVE  /\ FirstOf(n, F) \subseteq F
           /\ IsFiniteSet(FirstOf(n, F))
           /\ \A f \in F : f \in FirstOf(n, F) <=> Rank(F, At(f)) < n
           /\ \A f \in F \ FirstOf(n, F) : n <= Rank(FirstOf(n, F), At(f))
<1> DEFINE A == FirstOf(n, F)
<1>1. A \subseteq F /\ \A f \in F : f \in A <=> Rank(F, At(f)) < n
  BY DEF FirstOf, Rank
<1>2. IsFiniteSet(A)
  BY <1>1, FS_Subset
<1> HIDE DEF A
<1>3. \A f \in F : At(f) \in Position /\ Rank(F, At(f)) \in Nat
  BY PlaceOfEntry, RankIsNumber
<1>4. ASSUME NEW f \in F \ A PROVE n <= Rank(A, At(f))
  <2> DEFINE out == F \ A
  <2>1. out \in SUBSET Entries /\ IsFiniteSet(out) /\ out # {}
    BY <1>4, FS_Subset
  <2>2. PICK m \in out : \A g \in out : ~After(At(m), At(g))
    <3> HIDE DEF out
    <3>1. QED
      BY <2>1, FirstAndLast
  <2>3. \A g \in F : After(At(m), At(g)) => g \in A
    BY <2>2
  <2>4. ~After(At(m), At(f))
    BY <1>4, <2>2
  <2>5. Rank(F, At(m)) <= Rank(A, At(f))
    <3> DEFINE B == {g \in F : After(At(m), At(g))}
               C == {g \in A : After(At(f), At(g))}
    <3>1. B \subseteq C
      BY <1>1, <1>3, <1>4, <2>2, <2>3, <2>4, PlaceOfEntry, OrderIsTotal
    <3>2. IsFiniteSet(C)
      BY <1>2, FS_Subset
    <3>3. Cardinality(B) <= Cardinality(C)
      BY <3>1, <3>2, FS_Subset
    <3>4. QED
      BY <3>3 DEF Rank
  <2>6. n <= Rank(F, At(m))
    BY <1>1, <1>3, <2>2
  <2>7. Rank(A, At(f)) \in Nat
    BY <1>2, RankIsNumber
  <2>8. QED
    BY <1>3, <2>2, <2>5, <2>6, <2>7
<1>5. QED
  BY <1>1, <1>2, <1>4 DEF A

-----------------------------------------------------------------------------
(* The rows are written                                                    *)

LEMMA PullInitInv == PullInit => PullInv
<1> SUFFICES ASSUME PullInit PROVE PullInv
  OBVIOUS
<1>1. /\ NoRow \in Row /\ NoRow.stamp = 0 /\ NoRow.version = 0
      /\ NoCopy \in Copy /\ NoCopy.version = 0
      /\ NoWrite \in Write
  BY SyncPullAssumption DEF NoRow, Row, NoCopy, Copy, NoWrite, Write, Contents
<1>2. /\ Start \in Position /\ Start.stamp = 0
      /\ feed = IdleFeed /\ feed.pc = "idle" /\ feed.found = {} /\ feed.left = {} /\ feed.from = Start
  BY DEF PullInit, IdleFeed, Start, Position
<1>3. /\ \A r \in Records : table[r] = NoRow /\ cache[r] = NoCopy
      /\ table \in [Records -> Row] /\ cache \in [Records -> Copy]
      /\ writing \in [Writers -> Write] /\ \A w \in Writers : writing[w] = NoWrite
  BY <1>1 DEF PullInit
<1>4. StampsInv
  BY <1>1, <1>3, SyncPullAssumption DEF PullInit, StampsInv
<1>5. FeedInv
  <2>1. feed \in [pc : {"idle", "reading", "page"}, from : Position,
                  left : SUBSET Tables, found : SUBSET Entries]
    BY <1>2 DEF IdleFeed
  <2>2. QED
    BY <1>2, <2>1, FS_EmptySet DEF FeedInv
<1>6. CopiesInv
  BY <1>1, <1>2, <1>3 DEF PullInit, CopiesInv, OwnChangeIsShown, Passed
<1>7. QED
  BY <1>4, <1>5, <1>6 DEF PullInv

\* The places of rows, and what the history and the copies say of them.
LEMMA PlaceOfRow ==
    ASSUME PullInv, NEW r \in Records
    PROVE  /\ EntryOf(r) \in Entries /\ EntryOf(r).id = r /\ EntryOf(r).row = table[r]
           /\ At(EntryOf(r)) \in Position
           /\ At(EntryOf(r)).stamp = table[r].stamp /\ At(EntryOf(r)).id = r
           /\ table[r].stamp \in Nat /\ table[r].version \in Nat
           /\ cache[r].version \in Nat
           /\ cursor.stamp \in Nat /\ clock \in Nat
           /\ table[r].stamp > cursor.stamp => ~Passed(r)
<1>1. EntryOf(r) \in Entries /\ EntryOf(r).id = r /\ EntryOf(r).row = table[r]
  BY DEF EntryOf, Entries, PullInv, StampsInv
<1>2. cache[r].version \in Nat /\ cursor.stamp \in Nat /\ clock \in Nat
  BY DEF PullInv, CopiesInv, StampsInv, Copy, Position
<1>3. /\ At(EntryOf(r)) \in Position /\ At(EntryOf(r)).stamp = table[r].stamp /\ At(EntryOf(r)).id = r
      /\ table[r].stamp \in Nat /\ table[r].version \in Nat
  BY <1>1, PlaceOfEntry
<1>4. table[r].stamp > cursor.stamp => ~Passed(r)
  BY <1>3 DEF Passed, After, EntryOf
<1>5. QED
  BY <1>1, <1>2, <1>3, <1>4

\* One row is written and nothing else the pull looks at: after the instant of all that
\* was read, or by a write that has escaped the feed.
LEMMA RowStepKeepsInv ==
    ASSUME PullInv, NEW r \in Records, NEW new \in Row,
           table' = [table EXCEPT ![r] = new],
           clock' \in Nat, clock <= clock', new.stamp <= clock',
           new.version # 0 => new.stamp # 0,
           escaped \subseteq escaped', escaped' \in SUBSET Records,
           \/ r \in escaped'
           \/ feed.pc # "reading" /\ new.version = table[r].version + 1 /\ clock <= new.stamp,
           UNCHANGED <<feed, cursor, cache, delivered>>,
           unsettled' \in {unsettled, unsettled \ {r}},
           writing' \in [Writers -> Write], writes' \in 0..MaxWrites,
           \A w \in Writers : writing'[w] # NoWrite =>
               writing'[w].record \in Records /\ writing'[w].row.stamp \in 1..clock'
    PROVE  PullInv'
<1>1. /\ table' \in [Records -> Row]
      /\ \A q \in Records : table'[q] = IF q = r THEN new ELSE table[q]
  BY DEF PullInv, StampsInv
<1>2. /\ clock \in Nat \ {0} /\ table \in [Records -> Row]
      /\ \A q \in Records : table[q].stamp <= clock /\ table[q].stamp \in Nat
      /\ \A q \in Records : table[q].version # 0 => table[q].stamp # 0
  BY DEF PullInv, StampsInv, Row
<1>3. StampsInv'
  <2>1. \A q \in Records : table'[q].stamp <= clock'
    BY <1>1, <1>2
  <2>2. \A q \in Records : table'[q].version # 0 => table'[q].stamp # 0
    BY <1>1, <1>2
  <2>3. clock' \in Nat \ {0}
    BY <1>2
  <2>4. QED
    BY <1>1, <2>1, <2>2, <2>3 DEF StampsInv
<1>4. /\ feed \in [pc : {"idle", "reading", "page"}, from : Position,
                   left : SUBSET Tables, found : SUBSET Entries]
      /\ \A f \in feed.found : f.row.stamp < clock /\ f \in Entries
      /\ \A f \in feed.found : f.row.stamp \in Nat /\ f.row.version \in Nat /\ f.id \in Records
      /\ feed.pc = "idle" => feed.found = {}
  BY PlaceOfEntry DEF PullInv, FeedInv, Entries
<1>5. \A q \in Records \ {r} : EntryOf(q)' = EntryOf(q) /\ Newer(q)' = Newer(q)
  BY <1>1 DEF EntryOf, Newer
<1>6. ASSUME r \notin escaped'
      PROVE  /\ Newer(r)' /\ feed.pc # "reading" /\ new.version = table[r].version + 1
             /\ table'[r] = new /\ new.stamp \in Nat /\ clock <= new.stamp
  <2>1. clock <= new.stamp /\ table'[r] = new /\ new.stamp \in Nat
    BY <1>1, <1>6 DEF Row
  <2>2. \A f \in feed.found : f.row.stamp < table'[r].stamp
    BY <1>2, <1>4, <2>1
  <2>3. QED
    BY <1>6, <2>1, <2>2 DEF Newer
<1>7. FeedInv'
  <2>1. ASSUME NEW f \in feed.found
        PROVE  /\ f.row.version # 0 /\ After(At(f), feed.from) /\ f.row.stamp < clock'
               /\ TableOf[f.id] \notin feed.left
    <3>1. f.row.stamp < clock'
      BY <1>2, <1>4
    <3>2. QED
      BY <3>1 DEF PullInv, FeedInv
  <2>2. ASSUME NEW f \in feed.found, f.id \notin escaped'
        PROVE  \/ f = EntryOf(f.id)'
               \/ feed.pc = "page" /\ Newer(f.id)' /\ f.row.version < table'[f.id].version
    <3>1. \/ f = EntryOf(f.id)
          \/ feed.pc = "page" /\ Newer(f.id) /\ f.row.version < table[f.id].version
      BY <2>2 DEF PullInv, FeedInv
    <3>2. CASE f.id # r
      BY <1>1, <1>4, <1>5, <3>1, <3>2
    <3>3. CASE f.id = r
      <4>1. Newer(r)' /\ feed.pc = "page"
        BY <1>4, <1>6, <2>2, <3>3
      <4>2. f.row.version <= table[r].version
        <5>1. f = EntryOf(r) => f.row = table[r]
          BY DEF EntryOf
        <5>2. table[r].version \in Nat
          BY PlaceOfRow
        <5>3. QED
          BY <1>4, <3>1, <3>3, <5>1, <5>2
      <4>3. f.row.version < table'[r].version
        <5>1. table'[r].version = table[r].version + 1 /\ table[r].version \in Nat
          BY <1>6, <2>2, <3>3, PlaceOfRow
        <5>2. QED
          BY <1>4, <4>2, <5>1
      <4>4. QED
        BY <3>3, <4>1, <4>3
    <3>4. QED
      BY <3>2, <3>3
  <2>3. ASSUME NEW q \in Records \ escaped', feed.pc # "idle", TableOf[q] \notin feed.left,
               table'[q].version # 0, After(At(EntryOf(q)'), feed.from)
        PROVE  \/ EntryOf(q)' \in feed.found
               \/ PageLimit <= Rank(feed.found, At(EntryOf(q)'))
               \/ feed.pc = "page" /\ Newer(q)'
    <3>1. CASE q = r
      BY <1>4, <1>6, <2>3, <3>1
    <3>2. CASE q # r
      BY <1>1, <1>5, <2>3, <3>2 DEF PullInv, FeedInv
    <3>3. QED
      BY <3>1, <3>2
  <2>4. /\ IsFiniteSet(feed.found)
        /\ feed.pc # "reading" => feed.left = {}
        /\ feed.pc = "idle" => feed.found = {}
        /\ feed.pc # "idle" => feed.from = cursor
        /\ \A f, g \in feed.found : f.id = g.id => f = g
    BY DEF PullInv, FeedInv
  <2>5. \A q \in Records : At(EntryOf(q))' = At(EntryOf(q)') /\ Rank(feed.found, At(EntryOf(q)))' = Rank(feed.found, At(EntryOf(q)'))
    BY DEF At, Rank
  <2>6. QED
    BY <1>4, <2>1, <2>2, <2>3, <2>4, <2>5 DEF FeedInv
<1>8. ASSUME NEW q \in Records \ escaped'
      PROVE  /\ cache[q].version <= table'[q].version
             /\ cache[q].version = table'[q].version /\ table'[q].version # 0 => Shown(q)'
             /\ Passed(q)' => delivered[q] = table'[q].stamp
             /\ HasStore(q) /\ Passed(q)' /\ q \notin unsettled' => Shown(q)'
  <2>1. /\ cache[q].version <= table[q].version
        /\ cache[q].version = table[q].version /\ table[q].version # 0 => Shown(q)
        /\ Passed(q) => delivered[q] = table[q].stamp
        /\ HasStore(q) /\ Passed(q) /\ q \notin unsettled => Shown(q)
    BY DEF PullInv, CopiesInv
  <2>2. CASE q # r
    <3>1. table'[q] = table[q]
      BY <1>1, <2>2
    <3>2. Shown(q)' = Shown(q) /\ Passed(q)' = Passed(q)
      BY <3>1 DEF Shown, Passed
    <3>3. QED
      BY <2>1, <2>2, <3>1, <3>2
  <2>3. CASE q = r
    <3>1. /\ table'[q] = new /\ new.version = table[q].version + 1
          /\ table[q].version \in Nat /\ cache[q].version \in Nat
          /\ cursor.stamp < new.stamp /\ cursor.stamp \in Nat /\ new.stamp \in Nat
      BY <1>2, <1>6, <2>3, PlaceOfRow DEF PullInv, CopiesInv
    <3>2. ~Passed(q)'
      BY <3>1 DEF Passed, After, At
    <3>3. cache[q].version < table'[q].version
      BY <2>1, <3>1
    <3>4. QED
      BY <3>1, <3>2, <3>3
  <2>4. QED
    BY <2>2, <2>3
<1>9. OwnChangeIsShown'
  BY DEF PullInv, CopiesInv, OwnChangeIsShown
<1>10. cursor.stamp < clock'
  BY <1>2 DEF PullInv, CopiesInv, Position
<1>11. CopiesInv'
  BY <1>8, <1>9, <1>10 DEF PullInv, CopiesInv
<1>12. QED
  BY <1>3, <1>7, <1>11 DEF PullInv

\* Time passes, and writes begin: nothing the pull looks at changes.
LEMMA ClockStepKeepsInv ==
    ASSUME PullInv, UNCHANGED <<table, feed, cursor, cache, unsettled, delivered, escaped>>,
           clock' \in Nat, clock <= clock',
           writing' \in [Writers -> Write], writes' \in 0..MaxWrites,
           \A w \in Writers : writing'[w] # NoWrite =>
               writing'[w].record \in Records /\ writing'[w].row.stamp \in 1..clock'
    PROVE  PullInv'
<1>1. /\ clock \in Nat \ {0} /\ table \in [Records -> Row]
      /\ \A q \in Records : table[q].stamp <= clock /\ table[q].stamp \in Nat
  BY DEF PullInv, StampsInv, Row
<1>2. StampsInv'
  BY <1>1 DEF PullInv, StampsInv
<1>3. \A f \in feed.found : f.row.stamp < clock /\ f.row.stamp \in Nat
  BY PlaceOfEntry DEF PullInv, FeedInv
<1>4. \A f \in feed.found : f.row.stamp < clock'
  BY <1>1, <1>3
<1>5. \A q \in Records : EntryOf(q)' = EntryOf(q) /\ Newer(q)' = Newer(q)
  BY DEF EntryOf, Newer
<1>6. FeedInv'
  <2>1. \A r \in Records : /\ At(EntryOf(r))' = At(EntryOf(r))
                           /\ Rank(feed.found, At(EntryOf(r)))' = Rank(feed.found, At(EntryOf(r)))
    BY DEF At, Rank, EntryOf
  <2>2. /\ feed \in [pc : {"idle", "reading", "page"}, from : Position,
                     left : SUBSET Tables, found : SUBSET Entries]
        /\ IsFiniteSet(feed.found)
        /\ feed.pc # "reading" => feed.left = {}
        /\ feed.pc = "idle" => feed.found = {}
        /\ feed.pc # "idle" => feed.from = cursor
        /\ \A f, g \in feed.found : f.id = g.id => f = g
    BY DEF PullInv, FeedInv
  <2>3. \A f \in feed.found :
        /\ f.id \in Records
        /\ f.row.version # 0
        /\ After(At(f), feed.from)
        /\ TableOf[f.id] \notin feed.left
        /\ f.id \notin escaped => \/ f = EntryOf(f.id)
                                  \/ /\ feed.pc = "page" /\ Newer(f.id)
                                     /\ f.row.version < table[f.id].version
    BY DEF PullInv, FeedInv, Entries
  <2>4. \A r \in Records \ escaped :
        /\ feed.pc # "idle" /\ TableOf[r] \notin feed.left
        /\ table[r].version # 0 /\ After(At(EntryOf(r)), feed.from)
        => \/ EntryOf(r) \in feed.found
           \/ PageLimit <= Rank(feed.found, At(EntryOf(r)))
           \/ feed.pc = "page" /\ Newer(r)
    BY DEF PullInv, FeedInv
  <2>5. QED
    BY <1>4, <1>5, <2>1, <2>2, <2>3, <2>4 DEF FeedInv
<1>7. cursor.stamp < clock'
  BY <1>1 DEF PullInv, CopiesInv, Position
<1>8. CopiesInv'
  BY <1>7 DEF PullInv, CopiesInv, OwnChangeIsShown, Passed, Shown
<1>9. QED
  BY <1>2, <1>6, <1>8 DEF PullInv

LEMMA WrittenRow ==
    ASSUME PullInv, writes < MaxWrites, NEW r \in Records, NEW t \in Nat, NEW op
    PROVE  /\ Written(r, t, op) \in Row
           /\ Written(r, t, op).stamp = t
           /\ op # "online" \/ table[r].version = 0 => Written(r, t, op).version = table[r].version + 1
<1>1. table[r].version \in Nat /\ table[r].flagged \in BOOLEAN
  BY DEF PullInv, StampsInv, Row
<1>2. writes + 1 \in Contents
  BY SyncPullAssumption DEF PullInv, StampsInv, Contents
<1>3. (IF op = "online" /\ table[r].version # 0 THEN table[r].version
       ELSE table[r].version + 1) \in Nat
  BY <1>1
<1>4. (op = "delete" \/ table[r].flagged) \in BOOLEAN
  OBVIOUS
<1>5. QED
  BY <1>2, <1>3, <1>4 DEF Written, Row

LEMMA WritingInv ==
    ASSUME PullInv, NEW now \in Nat, clock <= now
    PROVE  /\ clock \in Nat \ {0} /\ writing \in [Writers -> Write] /\ writes \in 0..MaxWrites
           /\ \A w \in Writers : writing[w] # NoWrite =>
                writing[w].record \in Records /\ writing[w].row.stamp \in 1..now
           /\ escaped \subseteq Records
<1>1. /\ clock \in Nat \ {0} /\ writing \in [Writers -> Write] /\ writes \in 0..MaxWrites
      /\ \A w \in Writers : writing[w] # NoWrite =>
            writing[w].record \in Records /\ writing[w].row.stamp \in 1..clock
      /\ escaped \subseteq Records
  BY DEF PullInv, StampsInv, CopiesInv
<1>2. ASSUME NEW w \in Writers, writing[w] # NoWrite PROVE writing[w].row.stamp \in 1..now
  <2>1. writing[w].row.stamp \in 1..clock
    BY <1>1, <1>2
  <2>2. QED
    BY <1>1, <2>1
<1>3. QED
  BY <1>1, <1>2

LEMMA AtomicWriteKeepsInv ==
    ASSUME PullInv, NEW r \in Records, NEW op \in Ops, AtomicWrite(r, op)
    PROVE  PullInv'
<1>1. PICK t \in {clock, clock + 1} : clock' = t /\ table' = [table EXCEPT ![r] = Written(r, t, op)]
  BY DEF AtomicWrite
<1>2. clock \in Nat \ {0} /\ t \in Nat \ {0} /\ clock <= t
  BY WritingInv DEF PullInv, StampsInv
<1> DEFINE new == Written(r, t, op)
<1>3. /\ new \in Row /\ new.stamp = t /\ new.stamp # 0
      /\ op # "online" \/ table[r].version = 0 => new.version = table[r].version + 1
  BY <1>2, WrittenRow DEF AtomicWrite
<1>4. table' = [table EXCEPT ![r] = new]
  BY <1>1
<1> HIDE DEF new
<1>5. /\ escaped \subseteq escaped' /\ escaped' \in SUBSET Records
      /\ r \in escaped' \/ (feed.pc # "reading" /\ (op # "online" \/ table[r].version = 0))
  BY DEF AtomicWrite, Reading, PullInv, CopiesInv
<1>6. writes' \in 0..MaxWrites
  BY WritingInv, <1>2, SyncPullAssumption DEF AtomicWrite, PullInv, StampsInv
<1>7. /\ UNCHANGED <<feed, cursor, cache, delivered>> /\ unsettled' = unsettled /\ writing' = writing
  BY DEF AtomicWrite, deviceVars
<1>8. clock' \in Nat /\ clock <= clock' /\ new.stamp <= clock' /\ clock <= new.stamp
  BY <1>1, <1>2, <1>3
<1>9. /\ writing' \in [Writers -> Write]
      /\ \A w \in Writers : writing'[w] # NoWrite =>
            writing'[w].record \in Records /\ writing'[w].row.stamp \in 1..clock'
  BY <1>7, <1>8, WritingInv
<1>10. QED
  BY <1>3, <1>4, <1>5, <1>6, <1>7, <1>8, <1>9, RowStepKeepsInv

LEMMA PushChangeKeepsInv ==
    ASSUME PullInv, NEW r \in Records, PushChange(r)
    PROVE  PullInv'
<1>1. PICK t \in {clock, clock + 1} : clock' = t /\
         table' = [table EXCEPT ![r] = [stamp |-> t, version |-> @.version + 1,
                                        content |-> cache[r].content,
                                        flagged |-> FALSE, gone |-> FALSE]]
  BY DEF PushChange
<1>2. clock \in Nat \ {0} /\ t \in Nat \ {0} /\ clock <= t
  BY WritingInv DEF PullInv, StampsInv
<1> DEFINE new == [stamp |-> t, version |-> table[r].version + 1, content |-> cache[r].content,
                   flagged |-> FALSE, gone |-> FALSE]
<1>3. /\ new \in Row /\ new.stamp = t /\ new.stamp # 0
      /\ new.version = table[r].version + 1
  <2>1. table[r].version \in Nat /\ cache[r].content \in Contents
    BY DEF PullInv, StampsInv, CopiesInv, Row, Copy
  <2>2. QED
    BY <1>2, <2>1 DEF Row
<1>4. table' = [table EXCEPT ![r] = new]
  BY <1>1 DEF PullInv, StampsInv
<1> HIDE DEF new
<1>5. /\ escaped \subseteq escaped' /\ escaped' \in SUBSET Records
      /\ r \in escaped' \/ feed.pc # "reading"
  BY DEF PushChange, Reading, PullInv, CopiesInv
<1>7. /\ UNCHANGED <<feed, cursor, cache, delivered>> /\ unsettled' = unsettled \ {r}
      /\ writing' = writing /\ writes' = writes
  BY DEF PushChange
<1>8. clock' \in Nat /\ clock <= clock' /\ new.stamp <= clock' /\ clock <= new.stamp
  BY <1>1, <1>2, <1>3
<1>9. /\ writing' \in [Writers -> Write] /\ writes' \in 0..MaxWrites
      /\ \A w \in Writers : writing'[w] # NoWrite =>
            writing'[w].record \in Records /\ writing'[w].row.stamp \in 1..clock'
  BY <1>7, <1>8, WritingInv
<1>10. QED
  BY <1>3, <1>4, <1>5, <1>7, <1>8, <1>9, RowStepKeepsInv

LEMMA CommitWriteKeepsInv ==
    ASSUME PullInv, NEW w \in Writers, CommitWrite(w)
    PROVE  PullInv'
<1>1. PICK r, new : r = writing[w].record /\ new = writing[w].row
  OBVIOUS
<1>2. /\ r \in Records /\ new \in Row /\ new.stamp \in 1..clock /\ clock \in Nat
      /\ writing \in [Writers -> Write]
  BY <1>1 DEF CommitWrite, PullInv, StampsInv, Write
<1>3. /\ table' = [table EXCEPT ![r] = new] /\ escaped' = escaped \cup {r}
      /\ UNCHANGED <<clock, writes, feed, cursor, cache, delivered, unsettled>>
      /\ writing' = [writing EXCEPT ![w] = NoWrite]
  BY <1>1 DEF CommitWrite, deviceVars
<1>4. /\ NoWrite \in Write
      /\ \A v \in Writers : writing'[v] # NoWrite => writing'[v] = writing[v] /\ writing[v] # NoWrite
  <2>1. NoWrite \in Write
    BY SyncPullAssumption DEF NoWrite, Write, NoRow, Row, Contents
  <2>2. \A v \in Writers : writing'[v] = IF v = w THEN NoWrite ELSE writing[v]
    BY <1>2, <1>3
  <2>3. QED
    BY <2>1, <2>2
<1>5. /\ writing' \in [Writers -> Write] /\ writes' \in 0..MaxWrites
      /\ \A v \in Writers : writing'[v] # NoWrite =>
            writing'[v].record \in Records /\ writing'[v].row.stamp \in 1..clock'
  BY <1>2, <1>3, <1>4 DEF PullInv, StampsInv
<1>6. /\ clock' \in Nat /\ clock <= clock' /\ new.stamp <= clock' /\ new.stamp # 0
  BY <1>2, <1>3
<1>7. escaped \subseteq escaped' /\ escaped' \in SUBSET Records /\ r \in escaped'
  BY <1>2, <1>3, WritingInv, <1>6 DEF PullInv, CopiesInv
<1>8. QED
  BY <1>2, <1>3, <1>5, <1>6, <1>7, RowStepKeepsInv

LEMMA OnlineDeleteKeepsInv ==
    ASSUME PullInv, NEW r \in Records, OnlineDelete(r)
    PROVE  PullInv'
<1>1. PICK new : new = [table[r] EXCEPT !.gone = TRUE]
  OBVIOUS
<1>2. /\ new \in Row /\ new.stamp = table[r].stamp /\ new.version = table[r].version
      /\ table[r].stamp <= clock /\ clock \in Nat
      /\ table[r].version # 0 => table[r].stamp # 0
  BY <1>1 DEF PullInv, StampsInv, Row
<1>3. /\ table' = [table EXCEPT ![r] = new] /\ escaped' = escaped \cup {r}
      /\ UNCHANGED <<clock, writing, writes, feed, cursor, cache, delivered, unsettled>>
  BY <1>1 DEF OnlineDelete, deviceVars, PullInv, StampsInv
<1>5. /\ writing' \in [Writers -> Write] /\ writes' \in 0..MaxWrites
      /\ \A v \in Writers : writing'[v] # NoWrite =>
            writing'[v].record \in Records /\ writing'[v].row.stamp \in 1..clock'
  BY <1>2, <1>3 DEF PullInv, StampsInv
<1>6. clock' \in Nat /\ clock <= clock' /\ new.stamp <= clock' /\ (new.version # 0 => new.stamp # 0)
  BY <1>2, <1>3
<1>7. escaped \subseteq escaped' /\ escaped' \in SUBSET Records /\ r \in escaped'
  BY <1>3 DEF PullInv, CopiesInv
<1>8. QED
  BY <1>2, <1>3, <1>5, <1>6, <1>7, RowStepKeepsInv

LEMMA BeginWriteKeepsInv ==
    ASSUME PullInv, NEW w \in Writers, NEW r \in Records, NEW op \in Ops, BeginWrite(w, r, op)
    PROVE  PullInv'
<1>1. PICK t \in {clock, clock + 1} : clock' = t /\
         writing' = [writing EXCEPT ![w] = [record |-> r, row |-> Written(r, t, op)]]
  BY DEF BeginWrite
<1>2. clock \in Nat \ {0} /\ t \in Nat \ {0} /\ clock <= t /\ t \in 1..t
  BY WritingInv DEF PullInv, StampsInv
<1> DEFINE new == Written(r, t, op)
           job == [record |-> r, row |-> new]
<1>3. new \in Row /\ new.stamp = t
  BY <1>2, WrittenRow DEF BeginWrite
<1>4. writing' = [writing EXCEPT ![w] = job]
  BY <1>1
<1> HIDE DEF new
<1>5. job \in Write /\ job.record \in Records /\ job.row.stamp = t
  BY <1>3 DEF Write
<1> HIDE DEF job
<1>6. /\ writing \in [Writers -> Write]
      /\ \A v \in Writers : writing[v] # NoWrite =>
            writing[v].record \in Records /\ writing[v].row.stamp \in 1..t
  BY <1>2, WritingInv
<1>7. /\ writing' \in [Writers -> Write]
      /\ \A v \in Writers : writing'[v] = IF v = w THEN job ELSE writing[v]
  BY <1>4, <1>5, <1>6
<1>8. \A v \in Writers : writing'[v] # NoWrite =>
            writing'[v].record \in Records /\ writing'[v].row.stamp \in 1..clock'
  BY <1>1, <1>2, <1>5, <1>6, <1>7
<1>9. writes' \in 0..MaxWrites
  BY SyncPullAssumption DEF BeginWrite, PullInv, StampsInv
<1>10. UNCHANGED <<table, feed, cursor, cache, unsettled, delivered, escaped>>
  BY DEF BeginWrite, deviceVars
<1>11. clock' \in Nat /\ clock <= clock'
  BY <1>1, <1>2
<1>12. QED
  BY <1>7, <1>8, <1>9, <1>10, <1>11, ClockStepKeepsInv

-----------------------------------------------------------------------------
(* The request and the page                                                *)

\* A request that has read nothing yet, and none.
LEMMA EmptyFeed ==
    ASSUME NEW p \in Position, cursor' = p, feed' \in {IdleFeed,
               [pc |-> "reading", from |-> p, left |-> Tables, found |-> {}]}
    PROVE  FeedInv'
<1>1. Start \in Position
  BY DEF Start, Position
<1>2. CASE feed' = IdleFeed
  <2>1. /\ feed'.pc = "idle" /\ feed'.from = Start /\ feed'.left = {} /\ feed'.found = {}
        /\ feed' \in [pc : {"idle", "reading", "page"}, from : Position,
                      left : SUBSET Tables, found : SUBSET Entries]
    BY <1>1, <1>2 DEF IdleFeed
  <2>2. QED
    BY <2>1, FS_EmptySet DEF FeedInv
<1>3. CASE feed' = [pc |-> "reading", from |-> p, left |-> Tables, found |-> {}]
  <2>1. /\ feed'.pc = "reading" /\ feed'.from = cursor' /\ feed'.left = Tables /\ feed'.found = {}
        /\ feed' \in [pc : {"idle", "reading", "page"}, from : Position,
                      left : SUBSET Tables, found : SUBSET Entries]
    BY <1>3
  <2>2. \A r \in Records : TableOf[r] \in Tables
    BY SyncPullAssumption
  <2>3. QED
    BY <2>1, <2>2, FS_EmptySet DEF FeedInv
<1>4. QED
  BY <1>2, <1>3

LEMMA StartAndFailKeepInv ==
    ASSUME PullInv, StartPull \/ FailPull
    PROVE  PullInv'
<1>1. UNCHANGED <<table, clock, writing, writes, cursor, cache, unsettled, delivered, escaped>>
  BY DEF StartPull, FailPull, serverVars, deviceVars
<1>2. StampsInv' /\ CopiesInv'
  BY <1>1 DEF PullInv, StampsInv, CopiesInv, OwnChangeIsShown, Passed, Shown
<1>3. cursor \in Position
  BY DEF PullInv, CopiesInv
<1>4. feed' \in {IdleFeed, [pc |-> "reading", from |-> cursor, left |-> Tables, found |-> {}]}
  BY DEF StartPull, FailPull
<1>5. FeedInv'
  BY <1>1, <1>3, <1>4, EmptyFeed
<1>6. QED
  BY <1>2, <1>5 DEF PullInv

\* The device alone changes, and copies become unversioned.
LEMMA DeviceStepKeepsInv ==
    ASSUME PullInv, UNCHANGED <<table, clock, writing, feed, cursor, delivered>>,
           writes' \in 0..MaxWrites, cache' \in [Records -> Copy], unsettled' \in SUBSET Records,
           escaped' \in SUBSET Records, escaped \subseteq escaped',
           OwnChangeIsShown',
           \A r \in Records \ escaped' :
               \/ cache'[r] = cache[r] /\ (r \in unsettled => r \in unsettled')
               \/ cache'[r].version = 0 /\ (table[r].version = 0 \/ r \in unsettled')
    PROVE  PullInv'
<1>1. StampsInv'
  BY DEF PullInv, StampsInv
<1>2. FeedInv'
  <2>1. \A r \in Records : /\ EntryOf(r)' = EntryOf(r) /\ Newer(r)' = Newer(r)
                           /\ At(EntryOf(r))' = At(EntryOf(r))
                           /\ Rank(feed.found, At(EntryOf(r)))' = Rank(feed.found, At(EntryOf(r)))
    BY DEF At, Rank, EntryOf, Newer
  <2>2. /\ feed \in [pc : {"idle", "reading", "page"}, from : Position,
                     left : SUBSET Tables, found : SUBSET Entries]
        /\ IsFiniteSet(feed.found)
        /\ feed.pc # "reading" => feed.left = {}
        /\ feed.pc = "idle" => feed.found = {}
        /\ feed.pc # "idle" => feed.from = cursor
        /\ \A f, g \in feed.found : f.id = g.id => f = g
    BY DEF PullInv, FeedInv
  <2>3. \A f \in feed.found :
        /\ f.id \in Records
        /\ f.row.version # 0
        /\ After(At(f), feed.from)
        /\ f.row.stamp < clock
        /\ TableOf[f.id] \notin feed.left
        /\ f.id \notin escaped => \/ f = EntryOf(f.id)
                                  \/ /\ feed.pc = "page" /\ Newer(f.id)
                                     /\ f.row.version < table[f.id].version
    BY DEF PullInv, FeedInv, Entries
  <2>4. \A r \in Records \ escaped :
        /\ feed.pc # "idle" /\ TableOf[r] \notin feed.left
        /\ table[r].version # 0 /\ After(At(EntryOf(r)), feed.from)
        => \/ EntryOf(r) \in feed.found
           \/ PageLimit <= Rank(feed.found, At(EntryOf(r)))
           \/ feed.pc = "page" /\ Newer(r)
    BY DEF PullInv, FeedInv
  <2>5. QED
    BY <2>1, <2>2, <2>3, <2>4 DEF FeedInv
<1>3. ASSUME NEW r \in Records \ escaped'
      PROVE  /\ cache'[r].version <= table[r].version
             /\ cache'[r].version = table[r].version /\ table[r].version # 0 => Shown(r)'
             /\ Passed(r)' => delivered[r] = table[r].stamp
             /\ HasStore(r) /\ Passed(r)' /\ r \notin unsettled' => Shown(r)'
  <2>1. /\ cache[r].version <= table[r].version
        /\ cache[r].version = table[r].version /\ table[r].version # 0 => Shown(r)
        /\ Passed(r) => delivered[r] = table[r].stamp
        /\ HasStore(r) /\ Passed(r) /\ r \notin unsettled => Shown(r)
    BY DEF PullInv, CopiesInv
  <2>2. /\ Passed(r)' = Passed(r) /\ table[r].version \in Nat
        /\ table[r].version = 0 => ~Passed(r)
    BY PlaceOfRow DEF Passed
  <2>3. cache'[r] = cache[r] => Shown(r)' = Shown(r)
    BY DEF Shown
  <2>4. QED
    BY <2>1, <2>2, <2>3
<1>4. CopiesInv'
  BY <1>3 DEF PullInv, CopiesInv
<1>5. QED
  BY <1>1, <1>2, <1>4 DEF PullInv

LEMMA LocalChangeKeepsInv ==
    ASSUME PullInv, NEW r \in Records, LocalChange(r)
    PROVE  PullInv'
<1> DEFINE new == [version |-> 0, content |-> writes + 1, flagged |-> FALSE]
<1>1. new \in Copy /\ new.version = 0 /\ writes' \in 0..MaxWrites
  BY SyncPullAssumption DEF LocalChange, Copy, Contents, PullInv, StampsInv
<1>2. cache' = [cache EXCEPT ![r] = new] /\ cache \in [Records -> Copy]
  BY DEF LocalChange, PullInv, CopiesInv
<1> HIDE DEF new
<1>3. /\ cache' \in [Records -> Copy]
      /\ \A q \in Records : cache'[q] = IF q = r THEN new ELSE cache[q]
  BY <1>1, <1>2
<1>4. /\ unsettled' = unsettled \cup {r} /\ escaped' = escaped
      /\ UNCHANGED <<table, clock, writing, feed, cursor, delivered>>
      /\ unsettled \in SUBSET Records /\ escaped \in SUBSET Records
      /\ \A q \in unsettled : cache[q].version = 0
  BY DEF LocalChange, PullInv, CopiesInv, OwnChangeIsShown
<1>5. OwnChangeIsShown'
  BY <1>1, <1>3, <1>4 DEF OwnChangeIsShown
<1>6. \A q \in Records \ escaped' :
        \/ cache'[q] = cache[q] /\ (q \in unsettled => q \in unsettled')
        \/ cache'[q].version = 0 /\ (table[q].version = 0 \/ q \in unsettled')
  BY <1>1, <1>3, <1>4
<1>7. QED
  BY <1>1, <1>3, <1>4, <1>5, <1>6, DeviceStepKeepsInv

LEMMA LogoutKeepsInv ==
    ASSUME PullInv, Logout
    PROVE  PullInv'
<1>1. NoCopy \in Copy /\ NoCopy.version = 0
  BY SyncPullAssumption DEF NoCopy, Copy, Contents
<1>2. /\ cache' \in [Records -> Copy] /\ \A q \in Records : cache'[q].version = 0
      /\ unsettled' = {} /\ escaped' = escaped \cup {r \in Records : table[r].version # 0}
      /\ UNCHANGED <<table, clock, writing, writes, feed, cursor, delivered>>
  BY <1>1 DEF Logout, serverVars
<1>3. escaped \in SUBSET Records /\ writes \in 0..MaxWrites
  BY DEF PullInv, StampsInv, CopiesInv
<1>4. OwnChangeIsShown'
  BY <1>2 DEF OwnChangeIsShown
<1>5. \A q \in Records \ escaped' : cache'[q].version = 0 /\ table[q].version = 0
  BY <1>2
<1>6. QED
  BY <1>2, <1>3, <1>4, <1>5, DeviceStepKeepsInv

\* What the query of one table returns: rows behind the cursor, the first of them.
LEMMA TableRowsAreFirst ==
    ASSUME PullInv, NEW t \in Tables, NEW from \in Position
    PROVE  /\ TableRows(t, from) \in SUBSET Entries /\ IsFiniteSet(TableRows(t, from))
           /\ \A f \in TableRows(t, from) :
                /\ f = EntryOf(f.id) /\ f.id \in Records /\ TableOf[f.id] = t
                /\ f.row.version # 0 /\ After(At(f), from)
           /\ \A r \in Records :
                TableOf[r] = t /\ table[r].version # 0 /\ After(At(EntryOf(r)), from)
                => \/ EntryOf(r) \in TableRows(t, from)
                   \/ PageLimit <= Rank(TableRows(t, from), At(EntryOf(r)))
<1> DEFINE rows == {[id |-> r, row |-> table[r]] : r \in {s \in Records : TableOf[s] = t}}
           S == {f \in rows : f.row.version # 0 /\ (from = Start \/ After(At(f), from))}
<1>1. TableRows(t, from) = FirstOf(PageLimit + 1, S)
  BY DEF TableRows
<1>2. \A f \in rows : f = EntryOf(f.id) /\ f.id \in Records /\ TableOf[f.id] = t
  BY DEF EntryOf
<1>3. \A r \in Records : TableOf[r] = t => EntryOf(r) \in rows /\ EntryOf(r).row = table[r]
  BY DEF EntryOf
<1>4. IsFiniteSet(rows)
  <2>1. IsFiniteSet({s \in Records : TableOf[s] = t})
    BY SyncPullAssumption, FS_Subset
  <2> DEFINE D == {s \in Records : TableOf[s] = t}
             row == [s \in D |-> [id |-> s, row |-> table[s]]]
  <2>2. row \in Surjection(D, rows)
    BY DEF Surjection
  <2>3. QED
    BY <2>1, <2>2, FS_Surjection
<1> HIDE DEF rows
<1>5. \A f \in S : /\ f = EntryOf(f.id) /\ f.id \in Records /\ TableOf[f.id] = t
                   /\ f \in Entries /\ f.row.version # 0 /\ After(At(f), from)
  <2> SUFFICES ASSUME NEW f \in S
               PROVE /\ f = EntryOf(f.id) /\ f.id \in Records /\ TableOf[f.id] = t
                     /\ f \in Entries /\ f.row.version # 0 /\ After(At(f), from)
    OBVIOUS
  <2>1. /\ f = EntryOf(f.id) /\ f.id \in Records /\ TableOf[f.id] = t
        /\ f.row.version # 0 /\ (from = Start \/ After(At(f), from))
    BY <1>2
  <2>2. f \in Entries /\ f.row = table[f.id] /\ At(f).stamp = f.row.stamp /\ f.row.stamp \in Nat
    BY <2>1, PlaceOfRow, PlaceOfEntry
  <2>3. f.row.stamp # 0
    BY <2>1, <2>2 DEF PullInv, StampsInv
  <2>4. from = Start => After(At(f), from)
    BY <2>2, <2>3 DEF Start, After
  <2>5. QED
    BY <2>1, <2>2, <2>4
<1>6. S \in SUBSET Entries /\ IsFiniteSet(S)
  BY <1>4, <1>5, FS_Subset
<1>7. PageLimit + 1 \in Nat /\ PageLimit \in Nat
  BY SyncPullAssumption
<1>8. \A r \in Records :
        TableOf[r] = t /\ table[r].version # 0 /\ After(At(EntryOf(r)), from) => EntryOf(r) \in S
  BY <1>3
<1> HIDE DEF S
<1>9. /\ FirstOf(PageLimit + 1, S) \subseteq S
      /\ IsFiniteSet(FirstOf(PageLimit + 1, S))
      /\ \A f \in S \ FirstOf(PageLimit + 1, S) : PageLimit + 1 <= Rank(FirstOf(PageLimit + 1, S), At(f))
  BY <1>6, <1>7, FirstRows
<1>10. \A p : Rank(FirstOf(PageLimit + 1, S), p) \in Nat
  BY <1>9, RankIsNumber
<1>11. ASSUME NEW r \in Records, TableOf[r] = t, table[r].version # 0, After(At(EntryOf(r)), from)
       PROVE  \/ EntryOf(r) \in TableRows(t, from)
              \/ PageLimit <= Rank(TableRows(t, from), At(EntryOf(r)))
  <2>1. EntryOf(r) \in S
    BY <1>8, <1>11
  <2>2. CASE EntryOf(r) \notin FirstOf(PageLimit + 1, S)
    <3>1. PageLimit + 1 <= Rank(FirstOf(PageLimit + 1, S), At(EntryOf(r)))
      BY <1>9, <2>1, <2>2
    <3>2. PageLimit <= Rank(FirstOf(PageLimit + 1, S), At(EntryOf(r)))
      BY <1>7, <1>10, <3>1
    <3>3. QED
      BY <1>1, <3>2
  <2>3. QED
    BY <1>1, <2>2
<1>12. QED
  BY <1>1, <1>5, <1>6, <1>9, <1>11

LEMMA ReadTableKeepsInv ==
    ASSUME PullInv, ReadTable
    PROVE  PullInv'
<1>1. PICK t \in feed.left :
        feed' = [feed EXCEPT !.left = @ \ {t},
                             !.found = @ \cup TableRows(t, feed.from),
                             !.pc = IF feed.left = {t} THEN "page" ELSE @]
  BY DEF ReadTable
<1>2. /\ feed \in [pc : {"idle", "reading", "page"}, from : Position,
                   left : SUBSET Tables, found : SUBSET Entries]
      /\ IsFiniteSet(feed.found) /\ feed.pc = "reading" /\ feed.from = cursor
      /\ t \in Tables /\ feed.from \in Position
  BY DEF PullInv, FeedInv, ReadTable, Reading
<1>3. PICK new, found, left, from :
        /\ new = TableRows(t, feed.from) /\ found = feed.found
        /\ left = feed.left /\ from = feed.from
  OBVIOUS
<1>4. /\ new \in SUBSET Entries /\ IsFiniteSet(new)
      /\ \A f \in new : /\ f = EntryOf(f.id) /\ f.id \in Records /\ TableOf[f.id] = t
                        /\ f.row.version # 0 /\ After(At(f), from)
      /\ \A r \in Records :
            TableOf[r] = t /\ table[r].version # 0 /\ After(At(EntryOf(r)), from)
            => EntryOf(r) \in new \/ PageLimit <= Rank(new, At(EntryOf(r)))
  BY <1>2, <1>3, TableRowsAreFirst
<1>5. /\ feed'.found = found \cup new /\ feed'.left = left \ {t} /\ feed'.from = from
      /\ feed'.pc \in {"reading", "page"} /\ (feed'.pc = "page" => feed'.left = {})
      /\ feed' \in [pc : {"idle", "reading", "page"}, from : Position,
                    left : SUBSET Tables, found : SUBSET Entries]
  <2>1. /\ feed'.found = found \cup new /\ feed'.left = left \ {t} /\ feed'.from = from
        /\ feed'.pc = IF left = {t} THEN "page" ELSE "reading"
    BY <1>1, <1>2, <1>3
  <2>2. feed' \in [pc : {"idle", "reading", "page"}, from : Position,
                    left : SUBSET Tables, found : SUBSET Entries]
    <3>1. found \cup new \in SUBSET Entries /\ left \ {t} \in SUBSET Tables
      BY <1>2, <1>3, <1>4
    <3>2. feed' = [pc |-> IF left = {t} THEN "page" ELSE "reading", from |-> from,
                   left |-> left \ {t}, found |-> found \cup new]
      BY <1>1, <1>2, <1>3
    <3>3. QED
      BY <1>2, <1>3, <3>1, <3>2
  <2>3. QED
    BY <2>1, <2>2
<1>6. /\ UNCHANGED <<table, writing, writes, cursor, cache, unsettled, delivered, escaped>>
      /\ clock' = IF \E r \in Records : table[r].stamp = clock THEN clock + 1 ELSE clock
  BY DEF ReadTable, deviceVars
<1>7. /\ clock \in Nat \ {0} /\ clock' \in Nat \ {0} /\ clock <= clock'
      /\ \A r \in Records : table[r].stamp \in Nat /\ table[r].stamp <= clock /\ table[r].stamp < clock'
  <2>1. clock \in Nat \ {0} /\ \A r \in Records : table[r].stamp \in Nat /\ table[r].stamp <= clock
    BY PlaceOfRow DEF PullInv, StampsInv
  <2>2. QED
    BY <1>6, <2>1
<1>8. StampsInv'
  <2>1. \A w \in Writers : writing[w] # NoWrite =>
            writing[w].record \in Records /\ writing[w].row.stamp \in 1..clock'
    BY <1>7, WritingInv
  <2>2. \A r \in Records : table[r].stamp <= clock'
    BY <1>7
  <2>3. QED
    BY <1>6, <1>7, <2>1, <2>2 DEF PullInv, StampsInv
<1>9. CopiesInv'
  <2>1. cursor.stamp < clock'
    BY <1>7 DEF PullInv, CopiesInv, Position
  <2>2. QED
    BY <1>6, <2>1 DEF PullInv, CopiesInv, OwnChangeIsShown, Passed, Shown
<1>10. \A f \in found : /\ f \in Entries /\ f.id \in Records /\ f.row.version # 0 /\ After(At(f), from)
                        /\ f.row.stamp \in Nat /\ f.row.stamp < clock /\ TableOf[f.id] \notin left
                        /\ f.id \notin escaped => f = EntryOf(f.id)
  BY <1>2, <1>3, PlaceOfEntry DEF PullInv, FeedInv, Entries
<1>11. ASSUME NEW f \in found \cup new
       PROVE  /\ f.row.version # 0 /\ After(At(f), from)
              /\ f.row.stamp < clock' /\ TableOf[f.id] \notin left \ {t}
              /\ f.id \notin escaped => f = EntryOf(f.id)
  <2>1. CASE f \in found
    <3>1. f.row.stamp < clock'
      BY <1>7, <1>10, <2>1
    <3>2. QED
      BY <1>10, <2>1, <3>1
  <2>2. CASE f \in new
    <3>1. f.row = table[f.id] /\ f.id \in Records
      BY <1>4, <2>2 DEF EntryOf
    <3>2. f.row.stamp < clock'
      BY <1>7, <3>1
    <3>3. QED
      BY <1>4, <2>2, <3>2
  <2>3. QED
    BY <2>1, <2>2
<1>12. \A f, g \in found \cup new : f.id = g.id => f = g
  <2>1. \A f, g \in found : f.id = g.id => f = g
    BY <1>3 DEF PullInv, FeedInv
  <2>2. \A f, g \in new : f.id = g.id => f = g
    BY <1>4
  <2>3. \A f \in found, g \in new : f.id # g.id
    BY <1>3, <1>4, <1>10
  <2>4. QED
    BY <2>1, <2>2, <2>3
<1>13. found \cup new \in SUBSET Entries /\ IsFiniteSet(found \cup new) /\ PageLimit \in Nat
  BY <1>2, <1>3, <1>4, FS_Union, SyncPullAssumption
<1>14. ASSUME NEW r \in Records \ escaped, TableOf[r] \notin left \ {t},
              table[r].version # 0, After(At(EntryOf(r)), from)
       PROVE  \/ EntryOf(r) \in found \cup new
              \/ PageLimit <= Rank(found \cup new, At(EntryOf(r)))
  <2>1. At(EntryOf(r)) \in Position /\ ~After(At(EntryOf(r)), At(EntryOf(r)))
    BY PlaceOfRow, OrderIsTotal
  <2>2. /\ Rank(found, At(EntryOf(r))) <= Rank(found \cup new, At(EntryOf(r)))
        /\ Rank(new, At(EntryOf(r))) <= Rank(found \cup new, At(EntryOf(r)))
    BY <1>2, <1>3, <1>4, <1>13, <2>1, RankGrows
  <2>3. /\ Rank(found, At(EntryOf(r))) \in Nat /\ Rank(new, At(EntryOf(r))) \in Nat
        /\ Rank(found \cup new, At(EntryOf(r))) \in Nat
    BY <1>2, <1>3, <1>4, <1>13, RankIsNumber
  <2>4. CASE TableOf[r] = t
    <3>1. EntryOf(r) \in new \/ PageLimit <= Rank(new, At(EntryOf(r)))
      BY <1>4, <1>14, <2>4
    <3>2. QED
      BY <1>13, <2>2, <2>3, <3>1
  <2>5. CASE TableOf[r] # t
    <3>1. EntryOf(r) \in found \/ PageLimit <= Rank(found, At(EntryOf(r)))
      BY <1>2, <1>3, <1>14, <2>5 DEF PullInv, FeedInv
    <3>2. QED
      BY <1>13, <2>2, <2>3, <3>1
  <2>6. QED
    BY <2>4, <2>5
<1>15. FeedInv'
  <2>1. \A r \in Records : /\ EntryOf(r)' = EntryOf(r) /\ At(EntryOf(r))' = At(EntryOf(r))
                           /\ Rank(feed.found, At(EntryOf(r)))' = Rank(found \cup new, At(EntryOf(r)))
    BY <1>5, <1>6 DEF At, Rank, EntryOf
  <2>2. \A f \in found \cup new : f.id \in Records
    BY <1>13 DEF Entries
  <2>3. feed'.from = cursor' /\ escaped' = escaped /\ table' = table /\ feed'.pc # "idle"
    BY <1>2, <1>3, <1>5, <1>6
  <2>4. \A f \in feed'.found :
        /\ f.row.version # 0
        /\ After(At(f), feed'.from)
        /\ f.row.stamp < clock'
        /\ TableOf[f.id] \notin feed'.left
        /\ f.id \notin escaped' => f = EntryOf(f.id)'
    BY <1>5, <1>11, <2>1, <2>2, <2>3
  <2>5. \A r \in Records \ escaped' :
        /\ TableOf[r] \notin feed'.left /\ table'[r].version # 0
        /\ After(At(EntryOf(r))', feed'.from)
        => \/ EntryOf(r)' \in feed'.found
           \/ PageLimit <= Rank(feed.found, At(EntryOf(r)))'
    BY <1>5, <1>14, <2>1, <2>3
  <2>6. IsFiniteSet(feed'.found) /\ \A f, g \in feed'.found : f.id = g.id => f = g
    BY <1>5, <1>12, <1>13
  <2>7. QED
    BY <1>5, <2>3, <2>4, <2>5, <2>6 DEF FeedInv, At
<1>16. QED
  BY <1>8, <1>9, <1>15 DEF PullInv

\* The page and its cursor: the cursor moves to the page's last row, and a row the cursor
\* comes to pass, if it was not written since, is on the page.
LEMMA PageAndCursor ==
    ASSUME PullInv, feed.pc = "page",
           NEW page, page = PageOf(feed.found), NEW next, next = NextCursor(page, feed.from)
    PROVE  /\ page \subseteq feed.found
           /\ next \in Position /\ next.stamp < clock
           /\ ~After(cursor, next)
           /\ More(feed.found) => After(next, cursor)
           /\ \A r \in Records \ escaped :
                /\ table[r].version # 0
                /\ After(At(EntryOf(r)), cursor) /\ ~After(At(EntryOf(r)), next)
                => EntryOf(r) \in page
<1>1. /\ feed.found \in SUBSET Entries /\ IsFiniteSet(feed.found)
      /\ feed.left = {} /\ feed.from = cursor /\ cursor \in Position
      /\ cursor.stamp < clock
      /\ PageLimit \in Nat \ {0}
  BY SyncPullAssumption DEF PullInv, FeedInv, CopiesInv
<1>2. PICK F : F = feed.found
  OBVIOUS
<1>3. page \subseteq F /\ \A f \in F : f \in page <=> Rank(F, At(f)) < PageLimit
  BY <1>1, <1>2, FirstRows DEF PageOf
<1>4. \A f \in F : /\ At(f) \in Position /\ After(At(f), cursor) /\ f.row.stamp < clock
                   /\ At(f).stamp = f.row.stamp /\ Rank(F, At(f)) \in Nat
  BY <1>1, <1>2, PlaceOfEntry, RankIsNumber DEF PullInv, FeedInv
<1>5. {f \in page : After(At(f), cursor)} = page
  BY <1>3, <1>4
<1>6. CASE page = {}
  <2>1. next = cursor
    BY <1>1, <1>5, <1>6 DEF NextCursor
  <2>2. F = {}
    <3>1. SUFFICES ASSUME F # {} PROVE FALSE
      OBVIOUS
    <3>2. PICK m \in F : \A g \in F : ~After(At(m), At(g))
      BY <1>1, <1>2, <3>1, FirstAndLast
    <3>3. {g \in F : After(At(m), At(g))} = {}
      BY <3>2
    <3>4. Rank(F, At(m)) = 0
      BY <3>3, FS_EmptySet DEF Rank
    <3>5. QED
      BY <1>1, <1>3, <1>6, <3>2, <3>4
  <2>3. ~More(feed.found)
    <3>1. Cardinality(F) = 0
      BY <2>2, FS_EmptySet
    <3>2. QED
      BY <1>1, <1>2, <3>1 DEF More
  <2>4. QED
    BY <1>1, <1>2, <1>3, <2>1, <2>3, OrderIsTotal
<1>7. CASE page # {}
  <2> DEFINE Last(f) == f \in page /\ \A g \in page : ~After(At(g), At(f))
  <2>1. \E f \in page : \A g \in page : ~After(At(g), At(f))
    <3>1. page \in SUBSET Entries /\ IsFiniteSet(page)
      BY <1>1, <1>2, <1>3, FS_Subset
    <3>2. QED
      BY <1>7, <3>1, FirstAndLast
  <2>2. PICK last : last = CHOOSE f \in page : \A g \in page : ~After(At(g), At(f))
    OBVIOUS
  <2>3. last \in page /\ last \in F
    BY <1>3, <2>1, <2>2
  <2>4. next = At(last)
    BY <1>1, <1>5, <1>7, <2>2 DEF NextCursor
  <2>5. next \in Position /\ next.stamp < clock /\ next.stamp = last.row.stamp /\ After(next, cursor)
    BY <1>4, <2>3, <2>4
  <2>6. ~After(cursor, next)
    BY <1>1, <2>5, OrderIsTotal
  <2>7. ASSUME NEW r \in Records \ escaped, table[r].version # 0,
               After(At(EntryOf(r)), cursor), ~After(At(EntryOf(r)), next)
        PROVE  EntryOf(r) \in page
    <3>1. /\ At(EntryOf(r)) \in Position /\ At(EntryOf(r)).stamp = table[r].stamp
          /\ table[r].stamp \in Nat
      BY PlaceOfRow
    <3>2. \/ EntryOf(r) \in F
          \/ PageLimit <= Rank(F, At(EntryOf(r)))
          \/ Newer(r)
      BY <1>1, <1>2, <2>7 DEF PullInv, FeedInv
    <3>3. Rank(F, At(EntryOf(r))) < PageLimit
      <4>1. Rank(F, At(EntryOf(r))) <= Rank(F, At(last))
        BY <1>1, <1>2, <2>4, <2>5, <2>7, <3>1, RankGrows
      <4>2. Rank(F, At(last)) < PageLimit
        BY <1>3, <2>3
      <4>3. Rank(F, At(EntryOf(r))) \in Nat /\ Rank(F, At(last)) \in Nat
        BY <1>1, <1>2, RankIsNumber
      <4>4. QED
        BY <1>1, <4>1, <4>2, <4>3
    <3>4. ~Newer(r)
      <4>1. Newer(r) => next.stamp < table[r].stamp
        BY <1>2, <2>3, <2>5 DEF Newer
      <4>2. next.stamp < table[r].stamp => After(At(EntryOf(r)), next)
        BY <2>5, <3>1 DEF After
      <4>3. QED
        BY <2>7, <4>1, <4>2
    <3>5. Rank(F, At(EntryOf(r))) \in Nat
      BY <1>1, <1>2, RankIsNumber
    <3>6. EntryOf(r) \in F
      BY <1>1, <3>2, <3>3, <3>4, <3>5
    <3>7. QED
      BY <1>3, <3>3, <3>6
  <2>8. QED
    BY <1>2, <1>3, <2>5, <2>6, <2>7
<1>8. QED
  BY <1>6, <1>7

\* What the page does to the copy and the history of one record.
LEMMA MergedRecord ==
    ASSUME PullInv, MergePage, NEW page, page = PageOf(feed.found), NEW r \in Records
    PROVE  /\ \A f \in page : f.id = r =>
                /\ f \in Entries
                /\ delivered'[r] = f.row.stamp
                /\ cache'[r] = IF HasStore(r) /\ r \notin unsettled /\ f.row.version > cache[r].version
                               THEN [version |-> f.row.version, content |-> f.row.content,
                                     flagged |-> f.row.flagged]
                               ELSE cache[r]
           /\ (\A f \in page : f.id # r) => cache'[r] = cache[r] /\ delivered'[r] = delivered[r]
<1>1. /\ feed.found \in SUBSET Entries /\ IsFiniteSet(feed.found) /\ PageLimit \in Nat
      /\ \A f, g \in feed.found : f.id = g.id => f = g
  BY SyncPullAssumption DEF PullInv, FeedInv
<1>2. page \subseteq feed.found
  BY <1>1, FirstRows DEF PageOf
<1>3. /\ cache'[r] = IF HasStore(r) /\ r \notin unsettled /\ \E f \in page : f.id = r /\ f.row.version > cache[r].version
                     THEN CopyOf(r, page) ELSE cache[r]
      /\ delivered'[r] = IF \E f \in page : f.id = r
                         THEN (CHOOSE f \in page : f.id = r).row.stamp ELSE delivered[r]
  BY DEF MergePage, Merge
<1>4. ASSUME NEW f \in page, f.id = r
      PROVE  /\ f \in Entries
             /\ delivered'[r] = f.row.stamp
             /\ cache'[r] = IF HasStore(r) /\ r \notin unsettled /\ f.row.version > cache[r].version
                            THEN [version |-> f.row.version, content |-> f.row.content,
                                  flagged |-> f.row.flagged]
                            ELSE cache[r]
  <2>1. \A g \in page : g.id = r <=> g = f
    BY <1>1, <1>2, <1>4
  <2>2. (CHOOSE g \in page : g.id = r) = f
    BY <1>4, <2>1
  <2>3. CopyOf(r, page) = [version |-> f.row.version, content |-> f.row.content, flagged |-> f.row.flagged]
    BY <2>2 DEF CopyOf
  <2>4. (\E g \in page : g.id = r /\ g.row.version > cache[r].version) <=> f.row.version > cache[r].version
    BY <1>4, <2>1
  <2>5. QED
    BY <1>1, <1>2, <1>3, <1>4, <2>2, <2>3, <2>4
<1>5. QED
  BY <1>3, <1>4

LEMMA MergePageKeepsInv ==
    ASSUME PullInv, MergePage
    PROVE  PullInv'
<1>1. PICK page, next : page = PageOf(feed.found) /\ next = NextCursor(page, feed.from)
  OBVIOUS
<1>2. /\ UNCHANGED <<table, clock, writing, writes, unsettled, escaped>>
      /\ feed.pc = "page" /\ cursor' = next
      /\ feed' \in {IdleFeed, [pc |-> "reading", from |-> next, left |-> Tables, found |-> {}]}
      /\ cache' = Merge(page)
      /\ delivered' = [r \in Records |->
           IF \E f \in page : f.id = r
           THEN (CHOOSE f \in page : f.id = r).row.stamp ELSE delivered[r]]
  BY <1>1 DEF MergePage, serverVars
<1>3. /\ page \subseteq feed.found
      /\ next \in Position /\ next.stamp < clock
      /\ \A r \in Records \ escaped :
           /\ table[r].version # 0
           /\ After(At(EntryOf(r)), cursor) /\ ~After(At(EntryOf(r)), next)
           => EntryOf(r) \in page
  BY <1>1, <1>2, PageAndCursor
<1>4. StampsInv'
  BY <1>2 DEF PullInv, StampsInv
<1>5. FeedInv'
  BY <1>2, <1>3, EmptyFeed
<1>6. /\ cursor \in Position /\ cache \in [Records -> Copy] /\ unsettled \in SUBSET Records
      /\ delivered \in [Records -> Nat] /\ escaped \in SUBSET Records
      /\ \A q \in unsettled : cache[q].version = 0
  BY DEF PullInv, CopiesInv, OwnChangeIsShown
<1>7. ASSUME NEW r \in Records
      PROVE  /\ cache'[r] \in Copy /\ delivered'[r] \in Nat
             /\ r \in unsettled => cache'[r] = cache[r]
  <2>1. CASE \E f \in page : f.id = r
    <3>1. PICK f \in page : f.id = r
      BY <2>1
    <3>2. f \in Entries /\ delivered'[r] = f.row.stamp
          /\ cache'[r] = IF HasStore(r) /\ r \notin unsettled /\ f.row.version > cache[r].version
                         THEN [version |-> f.row.version, content |-> f.row.content,
                               flagged |-> f.row.flagged]
                         ELSE cache[r]
      BY <1>1, <3>1, MergedRecord
    <3>3. f.row.stamp \in Nat /\ f.row.version \in Nat /\ f.row.content \in Contents /\ f.row.flagged \in BOOLEAN
      BY <3>2 DEF Entries, Row
    <3>4. [version |-> f.row.version, content |-> f.row.content, flagged |-> f.row.flagged] \in Copy
      BY <3>3 DEF Copy
    <3>5. QED
      BY <1>6, <3>2, <3>3, <3>4
  <2>2. CASE \A f \in page : f.id # r
    BY <1>1, <1>6, <2>2, MergedRecord
  <2>3. QED
    BY <2>1, <2>2
<1>8. cache' \in [Records -> Copy] /\ delivered' \in [Records -> Nat]
  BY <1>2, <1>7 DEF Merge
<1>9. OwnChangeIsShown'
  BY <1>2, <1>6, <1>7 DEF OwnChangeIsShown
<1>10. ASSUME NEW r \in Records \ escaped
       PROVE  /\ cache'[r].version <= table[r].version
              /\ cache'[r].version = table[r].version /\ table[r].version # 0 => Shown(r)'
              /\ Passed(r)' => delivered'[r] = table[r].stamp
              /\ HasStore(r) /\ Passed(r)' /\ r \notin unsettled => Shown(r)'
  <2>1. /\ cache[r].version <= table[r].version
        /\ cache[r].version = table[r].version /\ table[r].version # 0 => Shown(r)
        /\ Passed(r) => delivered[r] = table[r].stamp
        /\ HasStore(r) /\ Passed(r) /\ r \notin unsettled => Shown(r)
    BY DEF PullInv, CopiesInv
  <2>2. /\ EntryOf(r) \in Entries /\ EntryOf(r).id = r /\ EntryOf(r).row = table[r]
        /\ At(EntryOf(r)) \in Position
        /\ At(EntryOf(r)).stamp = table[r].stamp
        /\ table[r].stamp \in Nat /\ table[r].version \in Nat /\ cache[r].version \in Nat
        /\ cursor.stamp \in Nat
        /\ table[r].stamp > cursor.stamp => ~Passed(r)
    BY PlaceOfRow
  <2>3. /\ Passed(r) <=> table[r].version # 0 /\ ~After(At(EntryOf(r)), cursor)
        /\ Passed(r)' <=> table[r].version # 0 /\ ~After(At(EntryOf(r)), next)
    BY <1>2 DEF Passed, EntryOf, At, After
  <2>4. cache'[r] = cache[r] => Shown(r)' = Shown(r)
    BY <1>2 DEF Shown
  <2>5. ASSUME NEW f \in page, f.id = r
        PROVE  /\ f = EntryOf(r) \/ f.row.version < table[r].version
               /\ ~Passed(r)
               /\ f.row.version \in Nat
    <3>1. /\ f = EntryOf(r) \/ (Newer(r) /\ f.row.version < table[r].version)
          /\ After(At(f), cursor) /\ f \in feed.found /\ f \in Entries
      BY <1>2, <1>3, <2>5 DEF PullInv, FeedInv
    <3>2. At(f).stamp = f.row.stamp /\ f.row.stamp \in Nat /\ f.row.version \in Nat
      BY <3>1, PlaceOfEntry
    <3>3. CASE f = EntryOf(r)
      BY <2>3, <3>1, <3>2, <3>3
    <3>4. CASE Newer(r)
      <4>1. cursor.stamp <= f.row.stamp
        BY <2>2, <3>1, <3>2 DEF After
      <4>2. f.row.stamp < table[r].stamp
        BY <3>1, <3>4 DEF Newer
      <4>3. table[r].stamp > cursor.stamp
        BY <2>2, <3>2, <4>1, <4>2
      <4>4. QED
        BY <2>2, <3>1, <3>2, <4>3
    <3>5. QED
      BY <3>1, <3>3, <3>4
  <2>6. CASE \A f \in page : f.id # r
    <3>1. cache'[r] = cache[r] /\ delivered'[r] = delivered[r]
      BY <1>1, <2>6, MergedRecord
    <3>2. Passed(r)' => Passed(r)
      BY <1>3, <2>2, <2>3, <2>6
    <3>3. QED
      BY <2>1, <2>4, <3>1, <3>2
  <2>7. CASE \E f \in page : f.id = r
    <3>1. PICK f \in page : f.id = r
      BY <2>7
    <3>2. /\ delivered'[r] = f.row.stamp
          /\ cache'[r] = IF HasStore(r) /\ r \notin unsettled /\ f.row.version > cache[r].version
                         THEN [version |-> f.row.version, content |-> f.row.content,
                               flagged |-> f.row.flagged]
                         ELSE cache[r]
      BY <1>1, <3>1, MergedRecord
    <3>3. /\ f = EntryOf(r) \/ f.row.version < table[r].version
          /\ ~Passed(r) /\ f.row.version \in Nat
      BY <2>5, <3>1
    <3>4. Passed(r)' => f = EntryOf(r)
      <4>1. Passed(r)' => EntryOf(r) \in page
        BY <1>3, <2>3, <3>3
      <4>2. f \in feed.found /\ \A g \in feed.found : g.id = f.id => g = f
        BY <1>3 DEF PullInv, FeedInv
      <4>3. QED
        BY <1>3, <2>2, <3>1, <4>1, <4>2
    <3>5. CASE f = EntryOf(r)
      <4>1. f.row = table[r] /\ delivered'[r] = table[r].stamp
        BY <2>2, <3>2, <3>5
      <4>2. CASE HasStore(r) /\ r \notin unsettled /\ table[r].version > cache[r].version
        <5>1. cache'[r] = [version |-> table[r].version, content |-> table[r].content,
                           flagged |-> table[r].flagged]
          BY <3>2, <4>1, <4>2
        <5>2. cache'[r].version = table[r].version /\ Shown(r)'
          BY <1>2, <5>1 DEF Shown
        <5>3. QED
          BY <2>2, <4>1, <5>2
      <4>3. CASE ~(HasStore(r) /\ r \notin unsettled /\ table[r].version > cache[r].version)
        <5>1. cache'[r] = cache[r]
          BY <3>2, <4>1, <4>3
        <5>2. HasStore(r) /\ r \notin unsettled => cache[r].version = table[r].version
          BY <2>1, <2>2, <4>3
        <5>3. QED
          BY <2>1, <2>3, <2>4, <4>1, <5>1, <5>2
      <4>4. QED
        BY <4>2, <4>3
    <3>6. CASE f # EntryOf(r)
      <4>1. f.row.version < table[r].version /\ ~Passed(r)'
        BY <3>3, <3>4, <3>6
      <4>2. CASE HasStore(r) /\ r \notin unsettled /\ f.row.version > cache[r].version
        <5>1. cache'[r].version = f.row.version
          BY <3>2, <4>2
        <5>2. cache'[r].version < table[r].version
          BY <4>1, <5>1
        <5>3. QED
          BY <2>2, <3>3, <4>1, <5>1, <5>2
      <4>3. CASE ~(HasStore(r) /\ r \notin unsettled /\ f.row.version > cache[r].version)
        <5>1. cache'[r] = cache[r]
          BY <3>2, <4>3
        <5>2. QED
          BY <2>1, <2>4, <4>1, <5>1
      <4>4. QED
        BY <4>2, <4>3
    <3>7. QED
      BY <3>5, <3>6
  <2>8. QED
    BY <2>6, <2>7
<1>11. CopiesInv'
  <2>1. cursor' \in Position /\ cursor'.stamp < clock'
    BY <1>2, <1>3
  <2>2. unsettled' \in SUBSET Records /\ escaped' \in SUBSET Records
    BY <1>2, <1>6
  <2>3. \A r \in Records \ escaped' :
            /\ cache'[r].version <= table'[r].version
            /\ cache'[r].version = table'[r].version /\ table'[r].version # 0 => Shown(r)'
            /\ Passed(r)' => delivered'[r] = table'[r].stamp
            /\ HasStore(r) /\ Passed(r)' /\ r \notin unsettled' => Shown(r)'
    BY <1>2, <1>10
  <2>4. QED
    BY <1>8, <1>9, <2>1, <2>2, <2>3 DEF CopiesInv
<1>12. QED
  BY <1>4, <1>5, <1>11 DEF PullInv

-----------------------------------------------------------------------------
(* The theorems                                                            *)

LEMMA PullStepKeepsInv ==
    PullInv /\ [PullNext]_pullVars => PullInv'
<1> SUFFICES ASSUME PullInv, [PullNext]_pullVars
             PROVE  PullInv'
  OBVIOUS
<1>1. CASE StartPull \/ FailPull
  BY <1>1, StartAndFailKeepInv
<1>2. CASE ReadTable
  BY <1>2, ReadTableKeepsInv
<1>3. CASE MergePage
  BY <1>3, MergePageKeepsInv
<1>4. ASSUME NEW r \in Records, NEW op \in Ops, AtomicWrite(r, op)
      PROVE  PullInv'
  BY <1>4, AtomicWriteKeepsInv
<1>5. ASSUME NEW r \in Records, NEW op \in Ops, NEW w \in Writers, BeginWrite(w, r, op)
      PROVE  PullInv'
  BY <1>5, BeginWriteKeepsInv
<1>6. ASSUME NEW r \in Records, OnlineDelete(r)
      PROVE  PullInv'
  BY <1>6, OnlineDeleteKeepsInv
<1>7. ASSUME NEW r \in Records, LocalChange(r)
      PROVE  PullInv'
  BY <1>7, LocalChangeKeepsInv
<1>8. ASSUME NEW r \in Records, PushChange(r)
      PROVE  PullInv'
  BY <1>8, PushChangeKeepsInv
<1>9. ASSUME NEW w \in Writers, CommitWrite(w)
      PROVE  PullInv'
  BY <1>9, CommitWriteKeepsInv
<1>10. CASE Logout
  BY <1>10, LogoutKeepsInv
<1>11. CASE UNCHANGED pullVars
  <2>1. UNCHANGED <<table, clock, writing, writes, feed, cursor, cache, unsettled, delivered, escaped>>
    BY <1>11 DEF pullVars, serverVars, deviceVars
  <2>2. /\ clock \in Nat /\ clock <= clock
        /\ writing \in [Writers -> Write] /\ writes \in 0..MaxWrites
        /\ \A w \in Writers : writing[w] # NoWrite =>
               writing[w].record \in Records /\ writing[w].row.stamp \in 1..clock
    BY DEF PullInv, StampsInv
  <2>3. QED
    BY <2>1, <2>2, ClockStepKeepsInv
<1>12. QED
  BY <1>1, <1>2, <1>3, <1>4, <1>5, <1>6, <1>7, <1>8, <1>9, <1>10, <1>11 DEF PullNext, Pulling

\* The inductive invariant of the pull: the rows are stamped up to now, what the request
\* has found is all its page can need, and the copies are no newer than their rows, and as
\* new as what the cursor has passed where the device has a store for the row's table.
THEOREM PullInvariant == PullSpec => []PullInv
BY PullInitInv, PullStepKeepsInv, PTL DEF PullSpec

\* However long the writes, the reading of the tables and the pages are interleaved, the
\* cursor passes no row that was not delivered as it is now (PullEntities).
THEOREM NoRowIsSkipped == PullSpec => []NothingSkipped
<1>1. ASSUME PullInv PROVE NothingSkipped
  <2>1. /\ feed.pc \in {"idle", "reading", "page"} /\ feed.from \in Position
        /\ feed.left \subseteq Tables /\ clock \in Nat
    BY <1>1 DEF PullInv, StampsInv, FeedInv
  <2>2. \A f \in feed.found : f.id \in Records /\ f.row \in Row /\ f.row.stamp <= clock
    <3>1. \A f \in feed.found : f.id \in Records /\ f.row \in Row /\ f.row.stamp < clock /\ f.row.stamp \in Nat
      BY <1>1, PlaceOfEntry DEF PullInv, FeedInv, Entries
    <3>2. QED
      BY <2>1, <3>1
  <2>3. cursor \in Position /\ cursor.stamp <= clock
    BY <1>1, <2>1 DEF PullInv, CopiesInv, Position
  <2>4. PullTypeOK
    BY <1>1, <2>1, <2>2, <2>3 DEF PullTypeOK, PullInv, StampsInv, CopiesInv
  <2>5. QED
    BY <1>1, <2>4 DEF NothingSkipped, PullInv, CopiesInv
<1>2. QED
  BY <1>1, PullInvariant, PTL

\* What the cursor has passed of the tables the device has a store for is what it shows,
\* unless it has an unsettled change of its own (mergePulledRecords replaces older versions
\* and nothing else).
THEOREM CopiesAreCurrent == PullSpec => []CacheCurrent
<1>1. ASSUME PullInv PROVE CacheCurrent
  BY <1>1 DEF CacheCurrent, PullInv, CopiesInv
<1>2. QED
  BY <1>1, PullInvariant, PTL

\* No page takes a pending change off the screen (mergePulledRecords skips the records
\* with an unsettled entry).
THEOREM PendingChangeIsShown == PullSpec => []OwnChangeIsShown
<1>1. ASSUME PullInv PROVE OwnChangeIsShown
  BY <1>1 DEF PullInv, CopiesInv
<1>2. QED
  BY <1>1, PullInvariant, PTL

\* The cursor never goes back, and a page that announces another one moves it on
\* (nextSyncCursor, runPullSync): the loop of pages cannot turn on the spot.
THEOREM CursorAdvances == PullSpec => PullAdvances
<1> DEFINE Step == /\ ~After(cursor, cursor')
                   /\ feed.pc = "page" /\ feed'.pc = "reading" => After(cursor', cursor)
<1>1. ASSUME PullInv, [PullNext]_pullVars PROVE [Step]_pullVars
  <2>1. cursor \in Position
    BY <1>1 DEF PullInv, CopiesInv
  <2>2. CASE MergePage
    <3>1. PICK page, next : page = PageOf(feed.found) /\ next = NextCursor(page, feed.from)
      OBVIOUS
    <3>2. feed.pc = "page" /\ cursor' = next /\ (~More(feed.found) => feed' = IdleFeed)
      BY <2>2, <3>1 DEF MergePage
    <3>3. ~After(cursor, next) /\ (More(feed.found) => After(next, cursor))
      BY <1>1, <3>1, <3>2, PageAndCursor
    <3>4. feed' = IdleFeed => feed'.pc # "reading"
      BY DEF IdleFeed
    <3>5. QED
      BY <3>2, <3>3, <3>4
  <2>3. CASE ~MergePage /\ PullNext
    <3>1. cursor' = cursor
      BY <2>3 DEF PullNext, Pulling, StartPull, ReadTable, FailPull, AtomicWrite, BeginWrite,
                  OnlineDelete, LocalChange, PushChange, CommitWrite, Logout, deviceVars
    <3>2. feed.pc = "page" => feed'.pc # "reading"
      BY <2>3 DEF PullNext, Pulling, StartPull, ReadTable, Reading, FailPull, AtomicWrite, BeginWrite,
                  OnlineDelete, LocalChange, PushChange, CommitWrite, Logout, IdleFeed
    <3>3. QED
      BY <2>1, <3>1, <3>2, OrderIsTotal
  <2>4. CASE UNCHANGED pullVars
    BY <2>4
  <2>5. QED
    BY <1>1, <2>2, <2>3, <2>4
<1>2. PullSpec => [][Step]_pullVars
  BY <1>1, PullInvariant, PTL DEF PullSpec
<1>3. QED
  BY <1>2 DEF PullAdvances
=============================================================================
