---------------------------- MODULE HistoryProofs ----------------------------
(***************************************************************************)
(* Theorems about reading the history, for any number of modems, clients   *)
(* and rows, any limits and any size of a page.                            *)
(***************************************************************************)
EXTENDS History, FiniteSetTheorems, SequenceTheorems, TLAPS

\* Rows get their time from a clock that is never set back.
RowsInv ==
    /\ now \in 0..MaxTime
    /\ rows \in Seq([modem : Modem, rotatedAt : 0..MaxTime])
    /\ \A k \in DOMAIN rows : rows[k].rotatedAt <= now
    /\ \A j, k \in DOMAIN rows : j < k => rows[j].rotatedAt <= rows[k].rotatedAt

\* The rows in front of row k.
Ahead(m, k) == {j \in Matching(m) : Before(m, j, k)}

\* The size of a union.
LEMMA UnionCount ==
    ASSUME NEW S, NEW T, IsFiniteSet(S), IsFiniteSet(T)
    PROVE  /\ IsFiniteSet(S \cup T)
           /\ Cardinality(S) \in Nat /\ Cardinality(T) \in Nat
           /\ Cardinality(S \cup T) \in Nat /\ Cardinality(S \cap T) \in Nat
           /\ Cardinality(S \cup T) = Cardinality(S) + Cardinality(T) - Cardinality(S \cap T)
<1>1. IsFiniteSet(S \cap T)
  BY FS_Intersection
<1>2. /\ IsFiniteSet(S \cup T)
      /\ Cardinality(S \cup T) = Cardinality(S) + Cardinality(T) - Cardinality(S \cap T)
  BY FS_Union
<1> QED
  BY <1>1, <1>2, FS_CardinalityType

-----------------------------------------------------------------------------
(***************************************************************************)
(* The order of the rows and their places.                                 *)
(***************************************************************************)
\* The ids are numbers, and there are finitely many.
LEMMA RowIds ==
    ASSUME RowsInv
    PROVE  /\ DOMAIN rows = 1..Len(rows) /\ Len(rows) \in Nat
           /\ IsFiniteSet(DOMAIN rows)
           /\ \A k \in DOMAIN rows : rows[k].rotatedAt \in Int
<1>1. DOMAIN rows = 1..Len(rows) /\ Len(rows) \in Nat
  BY DEF RowsInv
<1>2. IsFiniteSet(1..Len(rows))
  BY <1>1, FS_Interval
<1>3. \A k \in DOMAIN rows : rows[k] \in [modem : Modem, rotatedAt : 0..MaxTime]
  BY <1>1, ElementOfSeq DEF RowsInv
<1> QED
  BY <1>1, <1>2, <1>3, HistoryAssumption

\* What a query selects is finite, and so is each part of it.
LEMMA MatchingFinite ==
    ASSUME RowsInv, NEW m
    PROVE  /\ Matching(m) \subseteq DOMAIN rows
           /\ IsFiniteSet(Matching(m))
           /\ \A S \in SUBSET Matching(m) : IsFiniteSet(S) /\ Cardinality(S) \in Nat
<1>1. Matching(m) \in SUBSET DOMAIN rows
  BY DEF Matching
<1>2. IsFiniteSet(Matching(m))
  BY <1>1, RowIds, FS_Subset
<1>3. ASSUME NEW S \in SUBSET Matching(m)
      PROVE  IsFiniteSet(S) /\ Cardinality(S) \in Nat
  BY <1>2, FS_Subset, FS_CardinalityType
<1> QED
  BY <1>1, <1>2, <1>3

\* The rows of a query are strictly and totally ordered.
LEMMA BeforeOrders ==
    ASSUME RowsInv, NEW m, NEW j \in DOMAIN rows, NEW k \in DOMAIN rows
    PROVE  /\ ~Before(m, k, k)
           /\ Before(m, j, k) \/ Before(m, k, j) \/ j = k
           /\ \A i \in DOMAIN rows : Before(m, i, j) /\ Before(m, j, k) => Before(m, i, k)
  BY RowIds DEF Before

\* The place of a row is a number, that of a selected row is below the row count.
LEMMA PlaceType ==
    ASSUME RowsInv, NEW m, NEW k \in DOMAIN rows
    PROVE  /\ Ahead(m, k) \in SUBSET Matching(m)
           /\ IsFiniteSet(Ahead(m, k))
           /\ Place(m, k) = Cardinality(Ahead(m, k))
           /\ Place(m, k) \in Nat
           /\ k \in Matching(m) => Place(m, k) < Cardinality(Matching(m))
<1>1. Ahead(m, k) \in SUBSET Matching(m) /\ Place(m, k) = Cardinality(Ahead(m, k))
  BY DEF Ahead, Place
<1>2. IsFiniteSet(Ahead(m, k)) /\ Cardinality(Ahead(m, k)) \in Nat
  BY <1>1, MatchingFinite
<1>3. ASSUME k \in Matching(m) PROVE Place(m, k) < Cardinality(Matching(m))
  <2>1. Ahead(m, k) # Matching(m)
    BY <1>3, BeforeOrders DEF Ahead
  <2> QED
    BY <1>1, <1>2, <2>1, MatchingFinite, FS_Subset
<1> QED
  BY <1>1, <1>2, <1>3

\* A row in front of another has the lower place.
LEMMA PlaceGrows ==
    ASSUME RowsInv, NEW m, NEW j \in Matching(m), NEW k \in DOMAIN rows, Before(m, j, k)
    PROVE  Place(m, j) < Place(m, k)
<1>1. j \in DOMAIN rows
  BY DEF Matching
<1>2. j \notin Ahead(m, j) /\ Ahead(m, j) \cup {j} \in SUBSET Ahead(m, k)
  BY <1>1, BeforeOrders, MatchingFinite DEF Ahead
<1>3. Cardinality(Ahead(m, j) \cup {j}) = Place(m, j) + 1
  BY <1>1, <1>2, PlaceType, FS_AddElement
<1>4. Cardinality(Ahead(m, j) \cup {j}) <= Cardinality(Ahead(m, k))
  BY <1>2, PlaceType, FS_Subset
<1> QED
  BY <1>1, <1>3, <1>4, PlaceType

\* No two rows of a query have the same place.
LEMMA PlaceInjective ==
    ASSUME RowsInv, NEW m, NEW j \in Matching(m), NEW k \in Matching(m),
           Place(m, j) = Place(m, k)
    PROVE  j = k
<1>1. j \in DOMAIN rows /\ k \in DOMAIN rows
  BY DEF Matching
<1>2. Place(m, j) \in Nat
  BY <1>1, PlaceType
<1>3. ~Before(m, j, k) /\ ~Before(m, k, j)
  BY <1>1, <1>2, PlaceGrows
<1> QED
  BY <1>1, <1>3, BeforeOrders

\* Rows whose places are among n consecutive ones are at most n.
LEMMA PlacesBoundRows ==
    ASSUME RowsInv, NEW m, NEW S \in SUBSET Matching(m), NEW a \in Nat, NEW n \in Nat,
           \A k \in S : a <= Place(m, k) /\ Place(m, k) < a + n
    PROVE  Cardinality(S) <= n
<1> DEFINE f == [k \in S |-> Place(m, k)]
<1>1. \A k \in S : Place(m, k) \in a..(a + n - 1)
  BY MatchingFinite, PlaceType
<1>2. f \in [S -> a..(a + n - 1)]
  BY <1>1
<1>3. \A j, k \in S : f[j] = f[k] => j = k
  BY PlaceInjective
<1>4. f \in Injection(S, a..(a + n - 1))
  BY <1>2, <1>3 DEF Injection, IsInjective
<1>5. IsFiniteSet(a..(a + n - 1)) /\ Cardinality(a..(a + n - 1)) = n
  BY FS_Interval
<1> QED
  BY <1>4, <1>5, FS_Injection

-----------------------------------------------------------------------------
(***************************************************************************)
(* A page holds exactly the rows of an interval of places that begins at   *)
(* its offset and is as long as the page.                                  *)
(***************************************************************************)
\* What a query returns are selected rows, finitely many.
LEMMA PageType ==
    ASSUME RowsInv, NEW m, NEW lim \in Int, NEW off \in Nat
    PROVE  /\ GetRotations(m, lim, off) \in SUBSET Matching(m)
           /\ IsFiniteSet(GetRotations(m, lim, off))
           /\ Cardinality(GetRotations(m, lim, off)) \in Nat
<1>1. GetRotations(m, lim, off) \in SUBSET Matching(m)
  BY DEF GetRotations
<1> QED
  BY <1>1, MatchingFinite

\* A row is on the page just when its place is within the page's length of the offset.
LEMMA PageIsInterval ==
    ASSUME RowsInv, NEW m, NEW lim \in Int, NEW off \in Nat, NEW k \in Matching(m)
    PROVE  LET P == GetRotations(m, lim, off) IN
           k \in P <=> off <= Place(m, k) /\ Place(m, k) < off + Cardinality(P)
<1> DEFINE P == GetRotations(m, lim, off)
<1> DEFINE Low == {j \in Ahead(m, k) : Place(m, j) < off}
<1> DEFINE High == Ahead(m, k) \ Low
<1> HIDE DEF Low, High, P
<1>1. /\ k \in DOMAIN rows /\ Place(m, k) \in Nat
      /\ Ahead(m, k) \in SUBSET Matching(m) /\ IsFiniteSet(Ahead(m, k))
      /\ Place(m, k) = Cardinality(Ahead(m, k))
      /\ P \in SUBSET Matching(m) /\ IsFiniteSet(P) /\ Cardinality(P) \in Nat
  BY MatchingFinite, PlaceType, PageType DEF P
<1>2. ASSUME k \in P PROVE off <= Place(m, k) /\ Place(m, k) < off + Cardinality(P)
  <2>1. \A j \in Ahead(m, k) : Place(m, j) \in Nat /\ Place(m, j) < Place(m, k)
    BY <1>1, MatchingFinite, PlaceType, PlaceGrows DEF Ahead
  <2>2. High \in SUBSET (P \ {k})
    <3>1. ASSUME NEW j \in High PROVE j \in P /\ j # k
      <4>1. Place(m, j) >= off /\ Place(m, j) < Place(m, k) /\ j \in Matching(m)
        BY <1>1, <2>1 DEF High, Low
      <4>2. lim < 0 \/ Place(m, j) < off + lim
        BY <1>1, <1>2, <2>1, <4>1 DEF P, GetRotations, High
      <4> QED
        BY <1>1, <4>1, <4>2 DEF P, GetRotations
    <3> QED
      BY <3>1
  <2>3. Cardinality(High) <= Cardinality(P) - 1
    <3>1. IsFiniteSet(P \ {k}) /\ Cardinality(P \ {k}) = Cardinality(P) - 1
      BY <1>1, <1>2, FS_RemoveElement
    <3> QED
      BY <2>2, <3>1, FS_Subset
  <2>4. Cardinality(Low) <= off
    <3>1. Low \in SUBSET Matching(m)
      BY <1>1 DEF Low
    <3>2. \A j \in Low : 0 <= Place(m, j) /\ Place(m, j) < 0 + off
      BY <2>1 DEF Low
    <3> QED
      BY <3>1, <3>2, PlacesBoundRows
  <2>5. /\ IsFiniteSet(Low) /\ Cardinality(Low) \in Nat
        /\ Cardinality(High) = Cardinality(Ahead(m, k)) - Cardinality(Low)
    <3>1. Low \in SUBSET Ahead(m, k) /\ Ahead(m, k) \cap Low = Low
      BY DEF Low
    <3>2. IsFiniteSet(Low) /\ Cardinality(Low) \in Nat
      BY <1>1, <3>1, FS_Subset, FS_CardinalityType
    <3>3. Cardinality(Ahead(m, k) \ Low) = Cardinality(Ahead(m, k)) - Cardinality(Ahead(m, k) \cap Low)
      BY <1>1, FS_Difference
    <3> QED
      BY <3>1, <3>2, <3>3 DEF High
  <2>6. off <= Place(m, k)
    BY <1>1, <1>2 DEF P, GetRotations
  <2> QED
    BY <1>1, <2>3, <2>4, <2>5, <2>6
<1>3. ASSUME off <= Place(m, k), Place(m, k) < off + Cardinality(P) PROVE k \in P
  <2>1. ASSUME lim >= 0 PROVE Cardinality(P) <= lim
    <3>1. \A j \in P : off <= Place(m, j) /\ Place(m, j) < off + lim
      BY <2>1 DEF P, GetRotations
    <3> QED
      BY <1>1, <2>1, <3>1, PlacesBoundRows
  <2>2. lim < 0 \/ Place(m, k) < off + lim
    BY <1>1, <1>3, <2>1
  <2> QED
    BY <1>3, <2>2 DEF P, GetRotations
<1> QED
  BY <1>2, <1>3 DEF P

-----------------------------------------------------------------------------
(***************************************************************************)
(* A rotation that ends pushes the rows of its history back by one place   *)
(* at most, and changes nothing of their order.                            *)
(***************************************************************************)
\* The old rows stay what they are, behind a new id.
LEMMA InsertKeeps ==
    ASSUME RowsInv, NEW n \in Modem, InsertRotation(n)
    PROVE  /\ RowsInv'
           /\ Len(rows) + 1 \notin DOMAIN rows
           /\ DOMAIN rows' = DOMAIN rows \cup {Len(rows) + 1}
           /\ \A k \in DOMAIN rows : rows'[k] = rows[k]
           /\ rows'[Len(rows) + 1] = [modem |-> n, rotatedAt |-> now]
<1> DEFINE new == [modem |-> n, rotatedAt |-> now]
<1>1. new \in [modem : Modem, rotatedAt : 0..MaxTime] /\ rows' = Append(rows, new) /\ now' = now
  BY DEF RowsInv, InsertRotation
<1>2. /\ rows' \in Seq([modem : Modem, rotatedAt : 0..MaxTime])
      /\ Len(rows') = Len(rows) + 1 /\ rows'[Len(rows) + 1] = new
      /\ \A k \in 1..Len(rows) : rows'[k] = rows[k]
  BY <1>1, AppendProperties DEF RowsInv
<1>3. DOMAIN rows = 1..Len(rows) /\ Len(rows) \in Nat /\ DOMAIN rows' = 1..Len(rows')
  BY <1>2, LenProperties, RowIds
<1>4. /\ Len(rows) + 1 \notin DOMAIN rows
      /\ DOMAIN rows' = DOMAIN rows \cup {Len(rows) + 1}
  BY <1>2, <1>3
<1>5. now \in Int /\ \A k \in DOMAIN rows : rows[k].rotatedAt \in Int
  BY RowIds, HistoryAssumption DEF RowsInv
<1>6. ASSUME NEW j \in DOMAIN rows', NEW k \in DOMAIN rows', j < k
      PROVE  rows'[j].rotatedAt <= rows'[k].rotatedAt
  <2>1. j \in DOMAIN rows
    BY <1>2, <1>3, <1>6
  <2>2. CASE k \in DOMAIN rows
    BY <1>2, <1>3, <1>6, <2>1, <2>2 DEF RowsInv
  <2>3. CASE k = Len(rows) + 1
    BY <1>2, <1>3, <2>1, <2>3 DEF RowsInv
  <2> QED
    BY <1>4, <2>2, <2>3
<1>7. \A k \in DOMAIN rows' : rows'[k].rotatedAt <= now'
  <2>1. \A k \in DOMAIN rows : rows'[k].rotatedAt <= now'
    BY <1>1, <1>2, <1>3 DEF RowsInv
  <2>2. rows'[Len(rows) + 1].rotatedAt <= now'
    BY <1>1, <1>2, <1>5
  <2> QED
    BY <1>4, <2>1, <2>2
<1>8. RowsInv'
  BY <1>1, <1>2, <1>6, <1>7 DEF RowsInv
<1> QED
  BY <1>2, <1>3, <1>4, <1>8

\* The new one joins the history of its modem and that of all.
LEMMA InsertMatches ==
    ASSUME RowsInv, NEW n \in Modem, InsertRotation(n), NEW m
    PROVE  Matching(m)' = Matching(m) \cup (IF m \in {None, n} THEN {Len(rows) + 1} ELSE {})
<1> DEFINE id == Len(rows) + 1
<1>1. /\ id \notin DOMAIN rows /\ DOMAIN rows' = DOMAIN rows \cup {id}
      /\ \A j \in DOMAIN rows : rows'[j] = rows[j]
      /\ rows'[id].modem = n
  <2>1. id \notin DOMAIN rows /\ DOMAIN rows' = DOMAIN rows \cup {id}
    BY InsertKeeps
  <2>2. \A j \in DOMAIN rows : rows'[j] = rows[j]
    BY InsertKeeps
  <2>3. rows'[id] = [modem |-> n, rotatedAt |-> now]
    BY InsertKeeps
  <2> QED
    BY <2>1, <2>2, <2>3
<1> HIDE DEF id
<1>2. Matching(m)' = Matching(m) \cup (IF m \in {None, n} THEN {id} ELSE {})
  BY <1>1 DEF Matching
<1> QED
  BY <1>2 DEF id

\* No old row overtakes another, and none moves by more than one place.
LEMMA InsertMoves ==
    ASSUME RowsInv, NEW n \in Modem, InsertRotation(n), NEW m, NEW k \in DOMAIN rows
    PROVE  /\ \A j \in DOMAIN rows : Before(m, j, k)' <=> Before(m, j, k)
           /\ Place(m, k)' \in Nat
           /\ Place(m, k) <= Place(m, k)'
           /\ Place(m, k)' <= Place(m, k) + 1
           /\ m \notin {None, n} => Place(m, k)' = Place(m, k)
<1> DEFINE id == Len(rows) + 1
<1>1. /\ id \notin DOMAIN rows
      /\ \A j \in DOMAIN rows : rows'[j] = rows[j]
  BY InsertKeeps
<1>2. Matching(m)' = Matching(m) \cup (IF m \in {None, n} THEN {id} ELSE {})
  BY InsertMatches
<1> HIDE DEF id
<1>3. \A j \in DOMAIN rows : Before(m, j, k)' <=> Before(m, j, k)
  BY <1>1 DEF Before
<1>4. /\ Ahead(m, k)' \in {Ahead(m, k), Ahead(m, k) \cup {id}}
      /\ m \notin {None, n} => Ahead(m, k)' = Ahead(m, k)
  <2>1. \A j \in DOMAIN rows : j \in Ahead(m, k)' <=> j \in Ahead(m, k)
    BY <1>1, <1>2, <1>3 DEF Ahead
  <2>2. Ahead(m, k)' \subseteq Matching(m)' /\ Matching(m) \subseteq DOMAIN rows
    BY DEF Ahead, Matching
  <2>3. Ahead(m, k) \subseteq DOMAIN rows
    BY <2>2 DEF Ahead
  <2> QED
    BY <1>2, <2>1, <2>2, <2>3
<1>5. Place(m, k)' = Cardinality(Ahead(m, k)')
  BY DEF Place, Ahead
<1>6. /\ Cardinality(Ahead(m, k) \cup {id}) \in {Place(m, k), Place(m, k) + 1}
      /\ Cardinality(Ahead(m, k)) = Place(m, k) /\ Place(m, k) \in Nat
  BY PlaceType, FS_AddElement
<1>7. /\ Place(m, k)' \in Nat
      /\ Place(m, k) <= Place(m, k)' /\ Place(m, k)' <= Place(m, k) + 1
      /\ m \notin {None, n} => Place(m, k)' = Place(m, k)
  <2> DEFINE old == Place(m, k)
             moved == Place(m, k)'
  <2>1. moved \in {old, old + 1}
    BY <1>4, <1>5, <1>6
  <2>2. m \notin {None, n} => moved = old
    BY <1>4, <1>5, <1>6
  <2>3. old \in Nat
    BY <1>6
  <2> HIDE DEF old, moved
  <2>4. moved \in Nat /\ old <= moved /\ moved <= old + 1
    BY <2>1, <2>3
  <2> QED
    BY <2>2, <2>4 DEF old, moved
<1> QED
  BY <1>3, <1>7

-----------------------------------------------------------------------------
(***************************************************************************)
(* Types, and the clock of the rows.                                       *)
(***************************************************************************)
\* At the start there are no rows.
LEMMA HistoryInit == Init => RowsInv /\ TypeOK
<1> SUFFICES ASSUME Init PROVE RowsInv /\ TypeOK
  OBVIOUS
<1>1. rows = <<>> /\ rows \in Seq([modem : Modem, rotatedAt : 0..MaxTime]) /\ DOMAIN rows = {}
  BY DEF Init
<1> QED
  BY <1>1, HistoryAssumption, FS_EmptySet DEF Init, RowsInv, TypeOK

\* Only Answer adds to seen and offset: as many rows as the page has, at most.
LEMMA HistoryTypeStep == ASSUME RowsInv, TypeOK, [Next]_vars PROVE RowsInv' /\ TypeOK'
<1> USE HistoryAssumption
<1>1. ASSUME NEW n \in Modem, InsertRotation(n) PROVE RowsInv' /\ TypeOK'
  <2>1. RowsInv' /\ DOMAIN rows \subseteq DOMAIN rows'
    BY <1>1, InsertKeeps
  <2>2. UNCHANGED <<now, readerVars, dashboardVars>>
    BY <1>1 DEF InsertRotation
  <2> QED
    BY <2>1, <2>2 DEF RowsInv, TypeOK, readerVars, dashboardVars
<1>2. CASE Tick
  <2>1. now' \in 0..MaxTime /\ now <= now'
    BY <1>2 DEF Tick, TypeOK
  <2>2. \A k \in DOMAIN rows : rows[k].rotatedAt <= now'
    BY <2>1, RowIds DEF RowsInv
  <2> QED
    BY <1>2, <2>1, <2>2 DEF Tick, RowsInv, TypeOK, readerVars, dashboardVars
<1>3. ASSUME NEW r \in Reader, NEW m \in Modem \cup {None}, NEW l \in Limit, Begin(r, m, l)
      PROVE  RowsInv' /\ TypeOK'
  <2>1. Matching(m) \subseteq DOMAIN rows
    BY DEF Matching
  <2> DEFINE capped == IF l > MaxLimit THEN MaxLimit ELSE l
  <2>2. capped \in Int /\ capped <= MaxLimit
    OBVIOUS
  <2>3. /\ pc' = [pc EXCEPT ![r] = "rows"] /\ modem' = [modem EXCEPT ![r] = m]
        /\ limit' = [limit EXCEPT ![r] = capped]
        /\ atBegin' = [atBegin EXCEPT ![r] = Matching(m)]
        /\ UNCHANGED <<now, rows, offset, page, seen, shown, button, opened>>
    BY <1>3 DEF Begin, dashboardVars
  <2> HIDE DEF capped
  <2>4. limit' \in [Reader -> Int] /\ \A q \in Reader : limit'[q] <= MaxLimit
    BY <2>2, <2>3 DEF TypeOK
  <2> QED
    BY <2>1, <2>3, <2>4 DEF RowsInv, TypeOK
<1>4. ASSUME NEW r \in Reader, HandleHistory(r) PROVE RowsInv' /\ TypeOK'
  <2>1. GetRotations(modem[r], limit[r], offset[r]) \subseteq DOMAIN rows
    BY DEF GetRotations, Matching
  <2> QED
    BY <1>4, <2>1 DEF HandleHistory, RowsInv, TypeOK, dashboardVars
<1>5. ASSUME NEW r \in Reader, Answer(r) PROVE RowsInv' /\ TypeOK'
  <2>1. seen[r] \in SUBSET DOMAIN rows /\ page[r] \in SUBSET DOMAIN rows
    BY DEF TypeOK
  <2>2. /\ IsFiniteSet(seen[r]) /\ IsFiniteSet(page[r])
        /\ Cardinality(seen[r]) \in Nat /\ Cardinality(page[r]) \in Nat
    BY <2>1, RowIds, FS_Subset, FS_CardinalityType
  <2>3. /\ Cardinality(seen[r] \cup page[r]) <= Cardinality(seen[r]) + Cardinality(page[r])
        /\ Cardinality(seen[r] \cup page[r]) \in Nat
    <3> DEFINE S == seen[r]
               T == page[r]
    <3>1. IsFiniteSet(S) /\ IsFiniteSet(T)
      BY <2>2
    <3> HIDE DEF S, T
    <3>2. /\ Cardinality(S) \in Nat /\ Cardinality(T) \in Nat
          /\ Cardinality(S \cup T) \in Nat /\ Cardinality(S \cap T) \in Nat
          /\ Cardinality(S \cup T) = Cardinality(S) + Cardinality(T) - Cardinality(S \cap T)
      BY <3>1, UnionCount
    <3>3. /\ Cardinality(S \cup T) <= Cardinality(S) + Cardinality(T)
          /\ Cardinality(S \cup T) \in Nat
      BY <3>2
    <3> QED
      BY <3>3 DEF S, T
  <2>4. Cardinality(seen[r] \cup page[r]) <= offset[r] + Cardinality(page[r])
    BY <2>2, <2>3 DEF TypeOK
  <2> QED
    BY <1>5, <2>1, <2>2, <2>4 DEF Answer, RowsInv, TypeOK, dashboardVars
<1>6. CASE Dashboard
  <2>1. getHistory(0) \in SUBSET DOMAIN rows
    BY DEF getHistory, GetRotations, Matching
  <2>2. LoadMore(getHistory(0)) \in Nat \cup {None}
    BY <2>1, RowIds, FS_Subset, FS_CardinalityType DEF LoadMore
  <2> QED
    BY <1>6, <2>1, <2>2 DEF Dashboard, RowsInv, TypeOK, readerVars
<1>7. CASE HistoryRows
  <2>1. getHistory(button) \subseteq DOMAIN rows
    BY DEF getHistory, GetRotations, Matching
  <2> QED
    BY <1>7, <2>1 DEF HistoryRows, RowsInv, TypeOK, readerVars
<1>8. CASE UNCHANGED vars
  BY <1>8 DEF vars, RowsInv, TypeOK, readerVars, dashboardVars
<1> QED
  BY <1>1, <1>2, <1>3, <1>4, <1>5, <1>6, <1>7, <1>8 DEF Next

\* Types of the history and its readers: every id a query handed out is one of the
\* table, and no client has been given more rows than its offset counts.
THEOREM TypeCorrect == Spec => []TypeOK
<1>1. RowsInv /\ TypeOK /\ [Next]_vars => RowsInv' /\ TypeOK'
  BY HistoryTypeStep
<1> QED
  BY HistoryInit, <1>1, PTL DEF Spec

-----------------------------------------------------------------------------
(***************************************************************************)
(* A client of the API.  Given are the rows it has been sent and Reached   *)
(* the number it will go on behind; a page under way counts already.  The  *)
(* history m it reads is a parameter, so that it is the same before and    *)
(* after a step.                                                           *)
(***************************************************************************)
Given(r) == IF pc[r] = "count" THEN seen[r] \cup page[r] ELSE seen[r]
Reached(r) == IF pc[r] = "count" THEN offset[r] + Cardinality(page[r]) ELSE offset[r]

\* Rows it was given that later rotations have pushed behind that number.
Beyond(r, m) == {k \in Given(r) : Place(m, k) >= Reached(r)}

\* Rows of the history that have been added since it began.
Added(r, m) == Matching(m) \ atBegin[r]

OwnInv(r, m) ==
    /\ atBegin[r] \cup page[r] \cup seen[r] \subseteq Matching(m)
    /\ pc[r] = "idle" => offset[r] = 0 /\ seen[r] = {} /\ page[r] = {}

\* Nothing in front of that number is missing.
SkipInv(r, m) ==
    /\ \A k \in atBegin[r] : Place(m, k) < Reached(r) => k \in Given(r)
    /\ \A k \in atBegin[r] : Place(m, k) < offset[r] => k \in seen[r]
    /\ pc[r] = "done" => atBegin[r] \subseteq seen[r]

\* A row will be given again at most for each row beyond, and each rotation that has
\* ended since the beginning pushes at most one row there.
RepeatInv(r, m) ==
    Reached(r) - Cardinality(Given(r)) + Cardinality(Beyond(r, m))
        <= Cardinality(Added(r, m))

ReaderInv(r) == \A m \in {modem[r]} : OwnInv(r, m) /\ SkipInv(r, m) /\ RepeatInv(r, m)

\* As long as no row is added, queries answer the same.
LEMMA SameRows ==
    ASSUME UNCHANGED rows, NEW m
    PROVE  Matching(m)' = Matching(m) /\ \A k : Place(m, k)' = Place(m, k)
<1>1. Matching(m)' = Matching(m)
  BY DEF Matching
<1>2. ASSUME NEW k PROVE Place(m, k)' = Place(m, k)
  BY <1>1 DEF Place, Before
<1> QED
  BY <1>1, <1>2

\* What is counted is finite.
LEMMA ReaderFinite ==
    ASSUME RowsInv, TypeOK, NEW r \in Reader, NEW m, OwnInv(r, m)
    PROVE  /\ IsFiniteSet(seen[r]) /\ IsFiniteSet(page[r])
           /\ Cardinality(page[r]) \in Nat /\ Cardinality(seen[r]) \in Nat
           /\ Given(r) \in SUBSET Matching(m)
           /\ IsFiniteSet(Given(r)) /\ Cardinality(Given(r)) \in Nat
           /\ Beyond(r, m) \in SUBSET Given(r)
           /\ IsFiniteSet(Beyond(r, m)) /\ Cardinality(Beyond(r, m)) \in Nat
           /\ offset[r] \in Nat /\ Reached(r) \in Nat
           /\ IsFiniteSet(Added(r, m)) /\ Cardinality(Added(r, m)) \in Nat
<1>1. /\ seen[r] \in SUBSET Matching(m) /\ page[r] \in SUBSET Matching(m)
      /\ seen[r] \cup page[r] \in SUBSET Matching(m)
      /\ Added(r, m) \in SUBSET Matching(m)
  BY DEF OwnInv, Added
<1>2. Given(r) \in SUBSET Matching(m)
  BY <1>1 DEF Given
<1>3. Beyond(r, m) \in SUBSET Given(r) /\ Beyond(r, m) \in SUBSET Matching(m)
  BY <1>2 DEF Beyond
<1>4. Cardinality(page[r]) \in Nat /\ offset[r] \in Nat
  BY <1>1, MatchingFinite DEF TypeOK
<1>5. Reached(r) \in Nat
  BY <1>4 DEF Reached
<1>6. IsFiniteSet(seen[r]) /\ IsFiniteSet(page[r]) /\ Cardinality(seen[r]) \in Nat
  BY <1>1, MatchingFinite
<1>7. IsFiniteSet(Given(r)) /\ Cardinality(Given(r)) \in Nat
  BY <1>2, MatchingFinite
<1>8. IsFiniteSet(Beyond(r, m)) /\ Cardinality(Beyond(r, m)) \in Nat
  BY <1>3, MatchingFinite
<1>9. IsFiniteSet(Added(r, m)) /\ Cardinality(Added(r, m)) \in Nat
  BY <1>1, MatchingFinite
<1> QED
  BY <1>2, <1>3, <1>4, <1>5, <1>6, <1>7, <1>8, <1>9

\* A client that does not move, while no row is added, keeps its invariant.
LEMMA ReaderRests ==
    ASSUME UNCHANGED rows, NEW r \in Reader, ReaderInv(r),
           pc'[r] = pc[r], modem'[r] = modem[r], offset'[r] = offset[r],
           page'[r] = page[r], seen'[r] = seen[r], atBegin'[r] = atBegin[r]
    PROVE  ReaderInv(r)'
<1> SUFFICES ASSUME NEW m, m = modem[r]
             PROVE  (OwnInv(r, m) /\ SkipInv(r, m) /\ RepeatInv(r, m))'
  BY DEF ReaderInv
<1>1. OwnInv(r, m) /\ SkipInv(r, m) /\ RepeatInv(r, m)
  BY DEF ReaderInv
<1>2. Given(r)' = Given(r) /\ Reached(r)' = Reached(r)
  BY DEF Given, Reached
<1>3. Beyond(r, m)' = Beyond(r, m) /\ Added(r, m)' = Added(r, m)
  BY <1>2, SameRows DEF Beyond, Added
<1>4. OwnInv(r, m)'
  BY <1>1, SameRows DEF OwnInv
<1>5. SkipInv(r, m)'
  BY <1>1, <1>2, SameRows DEF SkipInv
<1>6. RepeatInv(r, m)'
  BY <1>1, <1>2, <1>3, SameRows DEF RepeatInv
<1> QED
  BY <1>4, <1>5, <1>6

-----------------------------------------------------------------------------
(***************************************************************************)
(* The steps of a client.                                                  *)
(***************************************************************************)
\* A client begins before all rows.
LEMMA BeginStep ==
    ASSUME RowsInv, TypeOK, NEW r \in Reader, NEW m \in Modem \cup {None}, NEW l \in Limit,
           Begin(r, m, l), ReaderInv(r)
    PROVE  ReaderInv(r)'
<1>1. pc[r] = "idle" /\ offset[r] = 0 /\ seen[r] = {} /\ page[r] = {}
  BY DEF Begin, ReaderInv, OwnInv
<1>2. /\ pc'[r] = "rows" /\ modem'[r] = m /\ atBegin'[r] = Matching(m)
      /\ rows' = rows /\ offset'[r] = 0 /\ seen'[r] = {} /\ page'[r] = {}
  BY <1>1 DEF Begin, TypeOK
<1>3. Given(r)' = {} /\ Reached(r)' = 0
  BY <1>2 DEF Given, Reached
<1>4. Beyond(r, m)' = {}
  BY <1>3 DEF Beyond
<1>5. Matching(m)' = Matching(m) /\ \A k \in Matching(m) : Place(m, k)' = Place(m, k) /\ Place(m, k) \in Nat
  BY <1>2, SameRows, PlaceType, MatchingFinite
<1>6. OwnInv(r, m)'
  BY <1>2, <1>5 DEF OwnInv
<1>7. SkipInv(r, m)'
  BY <1>2, <1>3, <1>5 DEF SkipInv
<1>8. RepeatInv(r, m)'
  <2>1. Added(r, m)' = {}
    BY <1>2, <1>5 DEF Added
  <2>2. Cardinality({}) = 0
    BY FS_EmptySet
  <2> QED
    BY <1>3, <1>4, <2>1, <2>2 DEF RepeatInv
<1> QED
  BY <1>2, <1>6, <1>7, <1>8 DEF ReaderInv

\* A page moves the client on by its length; rows beyond that come again become the
\* rows it has twice.
LEMMA HandleHistoryStep ==
    ASSUME RowsInv, TypeOK, NEW r \in Reader, HandleHistory(r), ReaderInv(r)
    PROVE  ReaderInv(r)'
<1> SUFFICES ASSUME NEW m, m = modem[r]
             PROVE  (OwnInv(r, m) /\ SkipInv(r, m) /\ RepeatInv(r, m))'
  BY DEF ReaderInv, HandleHistory
<1> DEFINE E == seen[r]
           off == offset[r]
           P == GetRotations(m, limit[r], off)
           n == Cardinality(P)
           B == Beyond(r, m)
<1>1. OwnInv(r, m) /\ SkipInv(r, m) /\ RepeatInv(r, m)
  BY DEF ReaderInv
<1>2. /\ pc[r] = "rows" /\ pc'[r] = "count" /\ page'[r] = P
      /\ UNCHANGED <<rows, modem, offset, seen, atBegin>>
  BY DEF HandleHistory, TypeOK
<1>3. Given(r) = E /\ Reached(r) = off /\ Given(r)' = E \cup P /\ Reached(r)' = off + n
  BY <1>2 DEF Given, Reached
<1>4. /\ off \in Nat /\ IsFiniteSet(E) /\ E \in SUBSET Matching(m)
      /\ B \in SUBSET E /\ IsFiniteSet(B)
  BY <1>1, <1>3, ReaderFinite
<1>5. P \in SUBSET Matching(m) /\ IsFiniteSet(P) /\ n \in Nat
  BY <1>4, PageType DEF TypeOK
<1>6. \A k \in Matching(m) : /\ Place(m, k) \in Nat
                             /\ k \in P <=> off <= Place(m, k) /\ Place(m, k) < off + n
  BY <1>4, PageIsInterval, PlaceType, MatchingFinite DEF TypeOK
<1>7. Matching(m)' = Matching(m) /\ \A k : Place(m, k)' = Place(m, k)
  BY <1>2, SameRows
<1>8. OwnInv(r, m)'
  BY <1>1, <1>2, <1>5, <1>7 DEF OwnInv
<1>9. SkipInv(r, m)'
  <2>1. ASSUME NEW k \in atBegin[r], Place(m, k) < off + n PROVE k \in E \cup P
    <3>1. k \in Matching(m)
      BY <1>1 DEF OwnInv
    <3>2. CASE Place(m, k) < off
      BY <1>1, <1>3, <3>2 DEF SkipInv
    <3>3. CASE off <= Place(m, k)
      BY <1>6, <2>1, <3>1, <3>3
    <3> QED
      BY <1>4, <1>6, <3>1, <3>2, <3>3
  <2> QED
    BY <1>1, <1>2, <1>3, <1>7, <2>1 DEF SkipInv
<1>10. RepeatInv(r, m)'
  <2>1. Beyond(r, m)' = B \ P /\ B \cap P = E \cap P
    <3>1. Beyond(r, m)' = {k \in E \cup P : Place(m, k) >= off + n}
      BY <1>3, <1>7 DEF Beyond
    <3>2. B = {k \in E : Place(m, k) >= off}
      BY <1>3 DEF Beyond
    <3> HIDE DEF B, P, E, n, off
    <3>3. \A k \in E \cup P : k \in B \ P <=> Place(m, k) >= off + n
      BY <1>4, <1>5, <1>6, <3>2
    <3>4. \A k \in E \cap P : k \in B
      BY <1>4, <1>6, <3>2
    <3> QED
      BY <1>4, <3>1, <3>3, <3>4
  <2> HIDE DEF B, P, E, off
  <2>2. /\ Cardinality(B \ P) = Cardinality(B) - Cardinality(B \cap P)
        /\ Cardinality(B) \in Nat
    BY <1>4, FS_Difference, FS_CardinalityType
  <2>3. /\ Cardinality(E) \in Nat /\ Cardinality(E \cap P) \in Nat
        /\ Cardinality(E \cup P) = Cardinality(E) + n - Cardinality(E \cap P)
    BY <1>4, <1>5, UnionCount
  <2> HIDE DEF n
  <2>4. Cardinality(B \cap P) = Cardinality(E \cap P) /\ off \in Nat /\ n \in Nat
    BY <1>4, <1>5, <2>1
  <2>5. off + n - Cardinality(E \cup P) + Cardinality(B \ P) = off - Cardinality(E) + Cardinality(B)
    BY <2>2, <2>3, <2>4
  <2>6. off - Cardinality(E) + Cardinality(B) <= Cardinality(Added(r, m))
    BY <1>1, <1>3 DEF RepeatInv, B
  <2> DEFINE given == Cardinality(E \cup P)
             beyond == Cardinality(B \ P)
             added == Cardinality(Added(r, m))
  <2>7. off + n - given + beyond <= added
    BY <2>5, <2>6
  <2>8. /\ Reached(r)' = off + n /\ Cardinality(Given(r))' = given
        /\ Cardinality(Beyond(r, m))' = beyond
    BY <1>3, <2>1
  <2>9. Cardinality(Added(r, m))' = added
    BY <1>2, <1>7 DEF Added
  <2>10. /\ given \in Int /\ beyond \in Int /\ added \in Int
         /\ off \in Int /\ n \in Int
    BY <1>1, <1>4, <1>5, <2>2, <2>3, <2>4, UnionCount, ReaderFinite
  <2> HIDE DEF given, beyond, added
  <2> QED
    BY <2>7, <2>8, <2>9, <2>10 DEF RepeatInv
<1> QED
  BY <1>8, <1>9, <1>10

\* The answer adds the page that counted already; where it is the last one, all places
\* have been reached.
LEMMA AnswerStep ==
    ASSUME RowsInv, TypeOK, NEW r \in Reader, Answer(r), ReaderInv(r)
    PROVE  ReaderInv(r)'
<1> SUFFICES ASSUME NEW m, m = modem[r]
             PROVE  (OwnInv(r, m) /\ SkipInv(r, m) /\ RepeatInv(r, m))'
  BY DEF ReaderInv, Answer
<1> DEFINE next == offset[r] + Cardinality(page[r])
<1>1. OwnInv(r, m) /\ SkipInv(r, m) /\ RepeatInv(r, m)
  BY DEF ReaderInv
<1>2. /\ pc[r] = "count"
      /\ pc'[r] = IF next < GetRotationCount(m) THEN "rows" ELSE "done"
      /\ offset'[r] = next /\ seen'[r] = seen[r] \cup page[r]
      /\ UNCHANGED <<rows, modem, page, atBegin>>
  BY DEF Answer, TypeOK
<1>3. /\ Given(r) = seen[r] \cup page[r] /\ Reached(r) = next
      /\ Given(r)' = Given(r) /\ Reached(r)' = Reached(r)
  BY <1>2 DEF Given, Reached
<1>4. Matching(m)' = Matching(m) /\ \A k : Place(m, k)' = Place(m, k)
  BY <1>2, SameRows
<1>5. Beyond(r, m)' = Beyond(r, m) /\ Added(r, m)' = Added(r, m)
  BY <1>2, <1>3, <1>4 DEF Beyond, Added
<1>6. OwnInv(r, m)'
  BY <1>1, <1>2, <1>4 DEF OwnInv
<1>7. RepeatInv(r, m)'
  BY <1>1, <1>3, <1>5 DEF RepeatInv
<1>8. SkipInv(r, m)'
  <2>1. ASSUME NEW k \in atBegin[r], pc'[r] = "done" PROVE k \in seen'[r]
    <3>1. k \in Matching(m) /\ k \in DOMAIN rows
      BY <1>1, MatchingFinite DEF OwnInv
    <3>2. Place(m, k) \in Nat /\ Place(m, k) < GetRotationCount(m)
      BY <3>1, PlaceType DEF GetRotationCount
    <3>3. GetRotationCount(m) <= next
      <4>1. GetRotationCount(m) \in Nat
        BY MatchingFinite DEF GetRotationCount
      <4>2. next \in Nat
        BY <1>1, ReaderFinite
      <4>3. ~(next < GetRotationCount(m))
        BY <1>2, <2>1
      <4> QED
        BY <4>1, <4>2, <4>3
    <3>4. next \in Nat /\ GetRotationCount(m) \in Nat
      BY <1>1, ReaderFinite, MatchingFinite DEF GetRotationCount
    <3> HIDE DEF next
    <3>5. Place(m, k) < next
      BY <3>2, <3>3, <3>4
    <3> QED
      BY <1>1, <1>2, <1>3, <3>5 DEF SkipInv
  <2> QED
    BY <1>1, <1>2, <1>3, <1>4, <2>1 DEF SkipInv
<1> QED
  BY <1>6, <1>7, <1>8

\* A row that is added is behind nothing of what counts, and pushes at most one row
\* beyond: the one in the last place that was reached.
LEMMA InsertStep ==
    ASSUME RowsInv, TypeOK, NEW n \in Modem, InsertRotation(n),
           NEW r \in Reader, ReaderInv(r)
    PROVE  ReaderInv(r)'
<1> SUFFICES ASSUME NEW m, m = modem[r]
             PROVE  (OwnInv(r, m) /\ SkipInv(r, m) /\ RepeatInv(r, m))'
  BY DEF ReaderInv, InsertRotation, readerVars
<1> DEFINE id == Len(rows) + 1
           G == Given(r)
           O == Reached(r)
           B == Beyond(r, m)
           A == Added(r, m)
<1>1. OwnInv(r, m) /\ SkipInv(r, m) /\ RepeatInv(r, m)
  BY DEF ReaderInv
<1>2. UNCHANGED <<pc, modem, offset, page, seen, atBegin>>
  BY DEF InsertRotation, readerVars
<1>3. Given(r)' = G /\ Reached(r)' = O
  BY <1>2 DEF Given, Reached
<1>4. /\ G \in SUBSET Matching(m) /\ O \in Nat /\ IsFiniteSet(G) /\ Cardinality(G) \in Nat
      /\ B \in SUBSET G /\ IsFiniteSet(B) /\ Cardinality(B) \in Nat
      /\ IsFiniteSet(A) /\ Cardinality(A) \in Nat
  BY <1>1, ReaderFinite
<1>5. Matching(m) \subseteq DOMAIN rows /\ atBegin[r] \subseteq Matching(m) /\ id \notin DOMAIN rows
  BY <1>1, MatchingFinite, InsertKeeps DEF OwnInv
<1>6. Matching(m)' = Matching(m) \cup (IF m \in {None, n} THEN {id} ELSE {})
  BY InsertMatches
<1>7. \A k \in Matching(m) : /\ Place(m, k) \in Nat /\ Place(m, k)' \in Nat
                             /\ Place(m, k) <= Place(m, k)' /\ Place(m, k)' <= Place(m, k) + 1
                             /\ m \notin {None, n} => Place(m, k)' = Place(m, k)
  BY <1>5, InsertMoves, PlaceType
<1>8. OwnInv(r, m)'
  BY <1>1, <1>2, <1>6 DEF OwnInv
<1>9. SkipInv(r, m)'
  <2>1. ASSUME NEW k \in atBegin[r], NEW o \in Nat, Place(m, k)' < o PROVE Place(m, k) < o
    BY <1>5, <1>7, <2>1
  <2>2. offset[r] \in Nat
    BY DEF TypeOK
  <2> QED
    BY <1>1, <1>2, <1>3, <1>4, <2>1, <2>2 DEF SkipInv
<1>10. RepeatInv(r, m)'
  <2>1. Beyond(r, m)' = {k \in G : Place(m, k)' >= O} /\ B = {k \in G : Place(m, k) >= O}
    BY <1>3 DEF Beyond
  <2>2. O - Cardinality(G) + Cardinality(B) <= Cardinality(A)
    BY <1>1 DEF RepeatInv
  <2> HIDE DEF G, O, B, A
  <2>3. CASE m \notin {None, n}
    <3>1. Beyond(r, m)' = B
      BY <1>4, <1>7, <2>1, <2>3
    <3>2. Added(r, m)' = A
      BY <1>2, <1>6, <2>3 DEF Added, A
    <3> QED
      BY <1>3, <2>2, <3>1, <3>2 DEF RepeatInv
  <2>4. CASE m \in {None, n}
    <3> DEFINE Edge == {k \in G : O - 1 <= Place(m, k) /\ Place(m, k) < O - 1 + 1}
    <3>1. Edge \in SUBSET Matching(m) /\ IsFiniteSet(Edge) /\ Cardinality(Edge) \in Nat
      BY <1>4, MatchingFinite
    <3>2. Cardinality(Edge) <= 1
      <4>1. CASE O = 0
        <5>1. Edge = {}
          BY <1>4, <1>7, <4>1
        <5> QED
          BY <5>1, FS_EmptySet
      <4>2. CASE O # 0
        <5>1. O - 1 \in Nat
          BY <1>4, <4>2
        <5> QED
          BY <3>1, <5>1, PlacesBoundRows
      <4> QED
        BY <4>1, <4>2
    <3>3. Beyond(r, m)' \in SUBSET (B \cup Edge)
      <4>1. ASSUME NEW k \in G, Place(m, k)' >= O PROVE k \in B \/ k \in Edge
        BY <1>4, <1>7, <2>1, <4>1
      <4> QED
        BY <2>1, <4>1
    <3> HIDE DEF Edge
    <3>4. /\ IsFiniteSet(B \cup Edge) /\ Cardinality(B \cup Edge) \in Nat
          /\ Cardinality(B \cup Edge) = Cardinality(B) + Cardinality(Edge) - Cardinality(B \cap Edge)
          /\ Cardinality(B \cap Edge) \in Nat
      BY <1>4, <3>1, UnionCount
    <3>5. Cardinality(B \cup Edge) <= Cardinality(B) + 1
      BY <1>4, <3>1, <3>2, <3>4
    <3>6. /\ Cardinality(Beyond(r, m)') <= Cardinality(B \cup Edge)
          /\ Cardinality(Beyond(r, m)') \in Nat
      BY <3>3, <3>4, FS_Subset, FS_CardinalityType
    <3>7. Added(r, m)' = A \cup {id} /\ id \notin A
      BY <1>2, <1>5, <1>6, <2>4 DEF Added, A
    <3>8. Cardinality(Added(r, m)') = Cardinality(A) + 1
      <4> HIDE DEF id
      <4> QED
        BY <1>4, <3>7, FS_AddElement
    <3> DEFINE beyond == Cardinality(Beyond(r, m))'
               added == Cardinality(Added(r, m))'
               b == Cardinality(B)
               g == Cardinality(G)
               a == Cardinality(A)
    <3>9. /\ beyond <= b + 1 /\ added = a + 1 /\ O - g + b <= a
          /\ beyond \in Nat /\ b \in Nat /\ g \in Nat /\ a \in Nat
      BY <1>4, <2>2, <3>4, <3>5, <3>6, <3>8
    <3>10. Reached(r)' = O /\ Cardinality(Given(r))' = g
      BY <1>3
    <3> HIDE DEF beyond, added, b, g, a
    <3>11. O - g + beyond <= added
      BY <1>4, <3>9
    <3> QED
      BY <1>4, <3>9, <3>10, <3>11 DEF RepeatInv, beyond, added
  <2> QED
    BY <2>3, <2>4
<1> QED
  BY <1>8, <1>9, <1>10

-----------------------------------------------------------------------------
(***************************************************************************)
(* The dashboard: what stands in front of the button's offset is in the    *)
(* table.                                                                  *)
(***************************************************************************)
ButtonInv ==
    button # None => \A j \in opened : Place(None, j) < button => j \in shown

DashboardInv == ButtonInv /\ DashboardHasNoGap

\* The invariant of the table, step by step.
LEMMA DashboardStep ==
    ASSUME RowsInv, TypeOK, DashboardInv, [Next]_vars PROVE DashboardInv'
<1> USE HistoryAssumption
<1>1. Matching(None) = DOMAIN rows /\ \A k \in DOMAIN rows : Place(None, k) \in Nat
  BY PlaceType DEF Matching
<1>2. \A j, k \in DOMAIN rows : Before(None, j, k) => Place(None, j) < Place(None, k)
  BY <1>1, PlaceGrows
<1>3. shown \subseteq DOMAIN rows /\ opened \subseteq DOMAIN rows
  BY DEF TypeOK
<1>4. ASSUME UNCHANGED rows, UNCHANGED <<shown, button, opened>> PROVE DashboardInv'
  <2>1. ButtonInv'
    BY <1>4, SameRows DEF DashboardInv, ButtonInv
  <2>2. DashboardHasNoGap'
    BY <1>4 DEF DashboardInv, DashboardHasNoGap, Before
  <2> QED
    BY <2>1, <2>2 DEF DashboardInv
<1>5. ASSUME NEW n \in Modem, InsertRotation(n) PROVE DashboardInv'
  <2>1. UNCHANGED <<shown, button, opened>>
    BY <1>5 DEF InsertRotation, dashboardVars
  <2>2. \A j, k \in DOMAIN rows : /\ Before(None, j, k)' <=> Before(None, j, k)
                                 /\ Place(None, k)' \in Nat /\ Place(None, k) <= Place(None, k)'
    BY <1>5, InsertMoves
  <2>3. ButtonInv'
    <3>1. ASSUME button # None, NEW j \in opened, Place(None, j)' < button PROVE j \in shown
      <4>1. button \in Nat
        BY <3>1 DEF TypeOK
      <4>2. Place(None, j) < button
        BY <1>1, <1>3, <2>2, <3>1, <4>1
      <4> QED
        BY <3>1, <4>2 DEF DashboardInv, ButtonInv
    <3> QED
      BY <2>1, <3>1 DEF ButtonInv
  <2>4. DashboardHasNoGap'
    BY <1>3, <2>1, <2>2 DEF DashboardInv, DashboardHasNoGap
  <2> QED
    BY <2>3, <2>4 DEF DashboardInv
<1>6. CASE Dashboard
  <2> DEFINE first == getHistory(0)
  <2>1. \A k \in DOMAIN rows : k \in first <=> Place(None, k) < Cardinality(first)
    <3>1. \A k \in DOMAIN rows :
             k \in first <=> 0 <= Place(None, k) /\ Place(None, k) < 0 + Cardinality(first)
      BY <1>1, PageIsInterval DEF getHistory
    <3>2. Cardinality(first) \in Nat
      BY PageType DEF getHistory
    <3> HIDE DEF first
    <3> QED
      BY <1>1, <3>1, <3>2
  <2>2. first \subseteq DOMAIN rows /\ Cardinality(first) \in Nat
    BY <1>1, PageType DEF getHistory
  <2>3. /\ shown' = first /\ opened' = DOMAIN rows /\ UNCHANGED rows
        /\ button' \in {Cardinality(first), None}
    BY <1>6 DEF Dashboard, LoadMore
  <2> HIDE DEF first
  <2>4. ButtonInv'
    BY <2>1, <2>3, SameRows DEF ButtonInv
  <2>5. ASSUME NEW k \in first, NEW j \in DOMAIN rows, Before(None, j, k) PROVE j \in first
    BY <1>1, <1>2, <2>1, <2>2, <2>5
  <2>6. DashboardHasNoGap'
    BY <2>3, <2>5 DEF DashboardHasNoGap, Before
  <2> QED
    BY <2>4, <2>6 DEF DashboardInv
<1>7. CASE HistoryRows
  <2> DEFINE more == getHistory(button)
  <2>1. button \in Nat /\ button # None
    BY <1>7 DEF HistoryRows, TypeOK
  <2>2. \A k \in DOMAIN rows :
           k \in more <=> button <= Place(None, k) /\ Place(None, k) < button + Cardinality(more)
    <3>1. PageSize \in Int /\ \A k \in DOMAIN rows : k \in Matching(None)
      BY <1>1
    <3> QED
      BY <2>1, <3>1, PageIsInterval DEF getHistory
  <2>3. more \subseteq DOMAIN rows /\ Cardinality(more) \in Nat
    BY <1>1, <2>1, PageType DEF getHistory
  <2>4. shown' = shown \cup more /\ UNCHANGED <<rows, button, opened>>
    BY <1>7 DEF HistoryRows, readerVars
  <2> HIDE DEF more
  <2>5. ButtonInv'
    BY <2>4, SameRows DEF DashboardInv, ButtonInv
  <2>6. ASSUME NEW k \in more, NEW j \in opened, Before(None, j, k) PROVE j \in shown \cup more
    <3>1. Place(None, j) < Place(None, k) /\ j \in DOMAIN rows /\ k \in DOMAIN rows
      BY <1>2, <1>3, <2>3, <2>6
    <3>2. CASE Place(None, j) < button
      BY <2>1, <3>2 DEF DashboardInv, ButtonInv
    <3>3. CASE button <= Place(None, j)
      BY <1>1, <2>1, <2>2, <2>3, <3>1, <3>3
    <3> QED
      BY <1>1, <2>1, <3>1, <3>2, <3>3
  <2>7. DashboardHasNoGap'
    BY <2>4, <2>6 DEF DashboardInv, DashboardHasNoGap, Before
  <2> QED
    BY <2>5, <2>7 DEF DashboardInv
<1>8. ASSUME NEW r \in Reader, NEW m \in Modem \cup {None}, NEW l \in Limit, Begin(r, m, l)
      PROVE  DashboardInv'
  BY <1>4, <1>8 DEF Begin, dashboardVars
<1>9. ASSUME NEW r \in Reader, HandleHistory(r) \/ Answer(r) PROVE DashboardInv'
  BY <1>4, <1>9 DEF HandleHistory, Answer, dashboardVars
<1>10. CASE Tick \/ UNCHANGED vars
  BY <1>4, <1>10 DEF Tick, vars, dashboardVars
<1> QED
  BY <1>5, <1>6, <1>7, <1>8, <1>9, <1>10 DEF Next

-----------------------------------------------------------------------------
(***************************************************************************)
(* All together.                                                           *)
(***************************************************************************)
HistoryInv == RowsInv /\ TypeOK /\ DashboardInv /\ \A r \in Reader : ReaderInv(r)

\* A step of one client is none of another, and the dashboard's are none of a client.
LEMMA ReadersStep ==
    ASSUME HistoryInv, [Next]_vars, NEW q \in Reader PROVE ReaderInv(q)'
<1> USE DEF HistoryInv
<1>1. ASSUME NEW n \in Modem, InsertRotation(n) PROVE ReaderInv(q)'
  BY <1>1, InsertStep
<1>2. CASE Tick \/ Dashboard \/ HistoryRows \/ UNCHANGED vars
  BY <1>2, ReaderRests DEF Tick, Dashboard, HistoryRows, vars, readerVars
<1>3. ASSUME NEW r \in Reader, NEW m \in Modem \cup {None}, NEW l \in Limit, Begin(r, m, l)
      PROVE  ReaderInv(q)'
  <2>1. CASE r = q
    BY <1>3, <2>1, BeginStep
  <2>2. CASE r # q
    BY <1>3, <2>2, ReaderRests DEF Begin, TypeOK
  <2> QED
    BY <2>1, <2>2
<1>4. ASSUME NEW r \in Reader, HandleHistory(r) PROVE ReaderInv(q)'
  <2>1. CASE r = q
    BY <1>4, <2>1, HandleHistoryStep
  <2>2. CASE r # q
    BY <1>4, <2>2, ReaderRests DEF HandleHistory, TypeOK
  <2> QED
    BY <2>1, <2>2
<1>5. ASSUME NEW r \in Reader, Answer(r) PROVE ReaderInv(q)'
  <2>1. CASE r = q
    BY <1>5, <2>1, AnswerStep
  <2>2. CASE r # q
    BY <1>5, <2>2, ReaderRests DEF Answer, TypeOK
  <2> QED
    BY <2>1, <2>2
<1> QED
  BY <1>1, <1>2, <1>3, <1>4, <1>5 DEF Next

\* The invariant holds at the start, when nobody has been given anything.
LEMMA HistoryInvInit == Init => HistoryInv
<1> SUFFICES ASSUME Init PROVE HistoryInv
  OBVIOUS
<1>1. RowsInv /\ TypeOK
  BY HistoryInit
<1>2. DashboardInv
  BY DEF Init, DashboardInv, ButtonInv, DashboardHasNoGap
<1>3. ASSUME NEW r \in Reader PROVE ReaderInv(r)
  <2>1. pc[r] = "idle" /\ offset[r] = 0 /\ page[r] = {} /\ seen[r] = {} /\ atBegin[r] = {}
    BY DEF Init
  <2>2. Given(r) = {} /\ Reached(r) = 0
    BY <2>1 DEF Given, Reached
  <2>3. ASSUME NEW m PROVE OwnInv(r, m) /\ SkipInv(r, m)
    BY <2>1 DEF OwnInv, SkipInv
  <2>4. ASSUME NEW m PROVE RepeatInv(r, m)
    <3>1. Beyond(r, m) = {}
      BY <2>2 DEF Beyond
    <3>2. Cardinality(Added(r, m)) \in Nat
      BY <1>1, <2>3, ReaderFinite
    <3>3. Cardinality({}) = 0
      BY FS_EmptySet
    <3> QED
      BY <2>2, <3>1, <3>2, <3>3 DEF RepeatInv
  <2> QED
    BY <2>3, <2>4 DEF ReaderInv
<1> QED
  BY <1>1, <1>2, <1>3 DEF HistoryInv

\* The invariant is inductive.
LEMMA HistoryInvCorrect == Spec => []HistoryInv
<1>1. HistoryInv /\ [Next]_vars => HistoryInv'
  <2> SUFFICES ASSUME HistoryInv, [Next]_vars PROVE HistoryInv'
    OBVIOUS
  <2>1. RowsInv' /\ TypeOK'
    BY HistoryTypeStep DEF HistoryInv
  <2>2. DashboardInv'
    BY DashboardStep DEF HistoryInv
  <2>3. \A r \in Reader : ReaderInv(r)'
    BY ReadersStep
  <2> QED
    BY <2>1, <2>2, <2>3 DEF HistoryInv
<1> QED
  BY HistoryInvInit, <1>1, PTL DEF Spec

(***************************************************************************)
(* A client that pages through the history by offsets misses no row that   *)
(* was there when it began (handleHistory, handleAllHistory, GetRotations).*)
(***************************************************************************)
THEOREM NoRowIsSkippedHolds == Spec => []NoRowIsSkipped
<1>1. HistoryInv => NoRowIsSkipped
  <2> SUFFICES ASSUME HistoryInv, NEW r \in Reader, NEW k \in atBegin[r],
                      pc[r] = "done" \/ Place(modem[r], k) < offset[r]
               PROVE  k \in seen[r]
    BY DEF NoRowIsSkipped
  <2>1. SkipInv(r, modem[r])
    BY DEF HistoryInv, ReaderInv
  <2> QED
    BY <2>1 DEF SkipInv
<1> QED
  BY HistoryInvCorrect, <1>1, PTL

(***************************************************************************)
(* It is given a row again at most once for each rotation of that history  *)
(* that has ended since it began.                                          *)
(***************************************************************************)
THEOREM RepeatsComeFromInsertsHold == Spec => []RepeatsComeFromInserts
<1>1. HistoryInv => RepeatsComeFromInserts
  <2> SUFFICES ASSUME HistoryInv, NEW r \in Reader
               PROVE  offset[r] - Cardinality(seen[r])
                         <= Cardinality(Matching(modem[r]) \ atBegin[r])
    BY DEF RepeatsComeFromInserts
  <2> DEFINE m == modem[r]
  <2>1. OwnInv(r, m) /\ RepeatInv(r, m) /\ RowsInv /\ TypeOK
    BY DEF HistoryInv, ReaderInv
  <2> HIDE DEF m
  <2>2. offset[r] - Cardinality(seen[r]) <= Reached(r) - Cardinality(Given(r))
    <3> DEFINE s == Cardinality(seen[r])
               p == Cardinality(page[r])
               g == Cardinality(Given(r))
               off == offset[r]
    <3>1. s \in Nat /\ p \in Nat /\ g \in Nat /\ off \in Nat /\ IsFiniteSet(seen[r]) /\ IsFiniteSet(page[r])
      BY <2>1, ReaderFinite
    <3>2. CASE pc[r] = "count"
      <4>1. Reached(r) = off + p /\ Given(r) = seen[r] \cup page[r]
        BY <3>2 DEF Given, Reached
      <4>2. g = s + p - Cardinality(seen[r] \cap page[r]) /\ Cardinality(seen[r] \cap page[r]) \in Nat
        BY <3>1, <4>1, UnionCount
      <4> HIDE DEF s, p, g, off
      <4>3. off - s <= Reached(r) - g
        BY <3>1, <4>1, <4>2
      <4> QED
        BY <4>3 DEF s, g, off
    <3>3. CASE pc[r] # "count"
      <4>1. Reached(r) = off /\ g = s
        BY <3>3 DEF Given, Reached
      <4> HIDE DEF s, g, off
      <4>2. off - s <= Reached(r) - g
        BY <3>1, <4>1
      <4> QED
        BY <4>2 DEF s, g, off
    <3> QED
      BY <3>2, <3>3
  <2>3. offset[r] - Cardinality(seen[r]) <= Cardinality(Added(r, m))
    BY <2>1, <2>2, ReaderFinite DEF RepeatInv
  <2> QED
    BY <2>3 DEF Added, m
<1> QED
  BY HistoryInvCorrect, <1>1, PTL

(***************************************************************************)
(* The dashboard's table has no gap, whenever its button is used and       *)
(* however large a page is (HistoryRows, ip_history.templ).                *)
(***************************************************************************)
THEOREM DashboardHasNoGapHolds == Spec => []DashboardHasNoGap
<1>1. HistoryInv => DashboardHasNoGap
  BY DEF HistoryInv, DashboardInv
<1> QED
  BY HistoryInvCorrect, <1>1, PTL
=============================================================================
