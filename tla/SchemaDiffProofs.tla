--------------------------- MODULE SchemaDiffProofs ---------------------------
(***************************************************************************)
(* Proofs about schema-diff: for any drivers, any well-formed catalogs,    *)
(* any number of other clients' changes between any two queries, and any   *)
(* order in which a driver returns rows that its ORDER BY leaves open,     *)
(* each part of a schema that is compared stood in the database at one     *)
(* moment of its load, except those that two queries answer (PartsStood);  *)
(* and when nobody changes the databases, the verdict is that of their     *)
(* catalogs (VerdictSound).                                                *)
(*                                                                         *)
(* Both take the same way.  The lemmas on the operators of Introspection   *)
(* say what each loader makes of a well-formed catalog: the parts of that  *)
(* catalog, each whole (TableIs, GroupIndexesIs, GroupForeignKeysIs, ...). *)
(* StoodInv says that the images hold only such parts of the catalogs      *)
(* seen, WholeInv that an image lacks none of a catalog that is the only   *)
(* one seen, once its query is over.  At the comparison the two make an    *)
(* image exact, and HasDrift a comparison of the catalogs.                 *)
(***************************************************************************)
EXTENDS SchemaDiff, FiniteSetTheorems, TLAPS

----------------------------------------------------------------------------
(* Places: the n-th of a set of numbers, and rows in the order of their positions. *)

Before(S, k) == {j \in S : j <= k}

\* The rank of a place is a number between one and the count of the places.
LEMMA RankType ==
    ASSUME NEW S, S \subseteq Nat, IsFiniteSet(S), NEW k \in S
    PROVE  /\ IsFiniteSet(Before(S, k)) /\ Cardinality(Before(S, k)) \in Nat
           /\ Cardinality(Before(S, k)) \in 1 .. Cardinality(S)
<1>1. Before(S, k) \in SUBSET S /\ k \in Before(S, k)
  BY DEF Before
<1>2. /\ IsFiniteSet(Before(S, k)) /\ Cardinality(Before(S, k)) <= Cardinality(S)
  BY <1>1, FS_Subset
<1>3. Cardinality(Before(S, k)) \in Nat /\ Cardinality(S) \in Nat
  BY <1>2, FS_CardinalityType
<1>4. Cardinality(Before(S, k)) # 0
  BY <1>1, <1>2, FS_EmptySet
<1>5. QED
  BY <1>2, <1>3, <1>4

\* Later places have higher ranks.
LEMMA RankGrows ==
    ASSUME NEW S, S \subseteq Nat, IsFiniteSet(S), NEW k \in S, NEW l \in S, k < l
    PROVE  Cardinality(Before(S, k)) < Cardinality(Before(S, l))
<1>1. Before(S, k) \in SUBSET Before(S, l)
  <2>1. \A j \in S : j <= k => j <= l
    OBVIOUS
  <2>2. QED
    BY <2>1 DEF Before
<1>2. l \in Before(S, l) /\ l \notin Before(S, k)
  BY DEF Before
<1>3. /\ IsFiniteSet(Before(S, l)) /\ Cardinality(Before(S, l)) \in Nat
      /\ Cardinality(Before(S, k)) \in Nat
  BY RankType
<1>4. /\ Cardinality(Before(S, k)) <= Cardinality(Before(S, l))
      /\ Cardinality(Before(S, k)) # Cardinality(Before(S, l))
  BY <1>1, <1>2, <1>3, FS_Subset
<1>5. QED
  BY <1>3, <1>4

\* No two places have one rank.
LEMMA RankTold ==
    ASSUME NEW S, S \subseteq Nat, IsFiniteSet(S), NEW k \in S, NEW l \in S,
           Cardinality(Before(S, k)) = Cardinality(Before(S, l))
    PROVE  k = l
<1>1. k \in Nat /\ l \in Nat
  OBVIOUS
<1>2. /\ Cardinality(Before(S, k)) \in Nat /\ Cardinality(Before(S, l)) \in Nat
  BY RankType
<1>3. ~ k < l
  <2>1. k < l => Cardinality(Before(S, k)) < Cardinality(Before(S, l))
    BY RankGrows
  <2>2. QED
    BY <1>2, <2>1
<1>4. ~ l < k
  <2>1. l < k => Cardinality(Before(S, l)) < Cardinality(Before(S, k))
    BY RankGrows
  <2>2. QED
    BY <1>2, <2>1
<1>5. QED
  BY <1>1, <1>3, <1>4

\* Each number up to that of a set is the rank of one of it.
LEMMA NthType ==
    ASSUME NEW S, S \subseteq Nat, IsFiniteSet(S), NEW n \in 1 .. Cardinality(S)
    PROVE  Nth(S, n) \in S /\ Cardinality(Before(S, Nth(S, n))) = n
<1> DEFINE rank == [k \in S |-> Cardinality(Before(S, k))]
           N == 1 .. Cardinality(S)
<1>1. Cardinality(S) \in Nat
  BY FS_CardinalityType
<1>2. rank \in [S -> N]
  BY RankType
<1>3. \A k, l \in S : rank[k] = rank[l] => k = l
  BY RankTold
<1>4. rank \in Injection(S, N)
  BY <1>2, <1>3 DEF Injection, IsInjective
<1>5. IsFiniteSet(N) /\ Cardinality(N) = Cardinality(S)
  BY <1>1, FS_Interval
<1> HIDE DEF rank, N
<1>6. rank \in Surjection(S, N)
  BY <1>4, <1>5, FS_Injection
<1>7. \E k \in S : rank[k] = n
  BY <1>6 DEF Surjection, N
<1>8. \E k \in S : Cardinality({j \in S : j <= k}) = n
  BY <1>7 DEF rank, Before
<1>9. QED
  BY <1>8 DEF Nth, Before

\* Nth finds the place of a rank.
LEMMA NthTold ==
    ASSUME NEW S, S \subseteq Nat, IsFiniteSet(S), NEW k \in S
    PROVE  Nth(S, Cardinality(Before(S, k))) = k
<1> DEFINE n == Cardinality(Before(S, k))
<1>1. n \in 1 .. Cardinality(S)
  BY RankType
<1> HIDE DEF n
<1>2. Nth(S, n) \in S /\ Cardinality(Before(S, Nth(S, n))) = n
  BY <1>1, NthType
<1>3. QED
  BY <1>2, RankTold DEF n

\* The i-th of the first n numbers is i.
LEMMA NthOfAll ==
    ASSUME NEW n \in Nat, NEW i \in 1 .. n
    PROVE  Cardinality(1 .. n) = n /\ Nth(1 .. n, i) = i
<1>1. IsFiniteSet(1 .. n) /\ Cardinality(1 .. n) = n
  BY FS_Interval
<1>2. Before(1 .. n, i) = 1 .. i
  BY DEF Before
<1>3. Cardinality(1 .. i) = i
  BY FS_Interval
<1>4. QED
  BY <1>1, <1>2, <1>3, NthTold

\* Picking all places picks the sequence.
LEMMA PickedAll ==
    ASSUME NEW q, q \in Seq(Range(q))
    PROVE  Picked(q, DOMAIN q) = q
<1>1. /\ Len(q) \in Nat /\ DOMAIN q = 1 .. Len(q) /\ q = [i \in 1 .. Len(q) |-> q[i]]
  OBVIOUS
<1>2. Cardinality(DOMAIN q) = Len(q)
  BY <1>1, FS_Interval
<1>3. \A i \in 1 .. Len(q) : Nth(DOMAIN q, i) = i
  BY <1>1, NthOfAll
<1>4. Picked(q, DOMAIN q) = [i \in 1 .. Len(q) |-> q[i]]
  BY <1>2, <1>3 DEF Picked
<1>5. QED
  BY <1>1, <1>4

Positions(rows) == {r.pos : r \in rows}

\* Rows that no two have one position of.
Placed(rows) ==
    /\ IsFiniteSet(rows) /\ \A r \in rows : r.pos \in Nat
    /\ \A r, s \in rows : r.pos = s.pos => r = s

\* There are as many positions as rows, when no two rows share one.
LEMMA PositionsType ==
    ASSUME NEW rows, Placed(rows)
    PROVE  /\ Positions(rows) \subseteq Nat /\ IsFiniteSet(Positions(rows))
           /\ Cardinality(Positions(rows)) = Cardinality(rows)
           /\ Cardinality(rows) \in Nat
<1> DEFINE f == [r \in rows |-> r.pos]
<1>1. f \in Surjection(rows, Positions(rows)) /\ f \in Injection(rows, Positions(rows))
  BY DEF Surjection, Injection, IsInjective, Positions, Placed
<1>2. IsFiniteSet(rows)
  BY DEF Placed
<1> HIDE DEF f
<1>3. /\ IsFiniteSet(Positions(rows)) /\ Cardinality(Positions(rows)) = Cardinality(rows)
  BY <1>1, <1>2, FS_Surjection
<1>4. QED
  BY <1>2, <1>3, FS_CardinalityType DEF Positions, Placed

\* Rows that have positions of their own come in one order only.
LEMMA OrderingIs ==
    ASSUME NEW rows, Placed(rows), NEW q \in Orderings(rows)
    PROVE  /\ DOMAIN q = 1 .. Cardinality(Positions(rows))
           /\ \A i \in DOMAIN q : q[i] \in rows /\ q[i].pos = Nth(Positions(rows), i)
           /\ \A r \in rows : \E i \in DOMAIN q : q[i] = r
<1> DEFINE n == Cardinality(rows)
           P == Positions(rows)
<1>1. n \in Nat /\ IsFiniteSet(P) /\ P \subseteq Nat /\ Cardinality(P) = n
  BY PositionsType
<1>2. /\ q \in [1 .. n -> rows] /\ DOMAIN q = 1 .. n
      /\ \A i, j \in 1 .. n : i # j => q[i] # q[j]
      /\ \A i, j \in 1 .. n : i < j => q[i].pos <= q[j].pos
  <2>1. q \in SetToSeqs(rows) /\ \A i, j \in DOMAIN q : i < j => q[i].pos <= q[j].pos
    BY DEF Orderings
  <2>2. q \in [1 .. n -> rows] /\ \A i, j \in 1 .. n : i # j => q[i] # q[j]
    BY <2>1 DEF SetToSeqs
  <2>3. DOMAIN q = 1 .. n
    BY <2>2
  <2>4. QED
    BY <2>1, <2>2, <2>3
<1>3. \A r \in rows : \E i \in 1 .. n : q[i] = r
  <2>1. q \in Injection(1 .. n, rows)
    BY <1>2 DEF Injection, IsInjective
  <2>2. IsFiniteSet(rows) /\ Cardinality(1 .. n) = Cardinality(rows)
    BY <1>1, FS_Interval DEF Placed
  <2> HIDE DEF n
  <2>3. q \in Surjection(1 .. n, rows)
    BY <2>1, <2>2, FS_Injection
  <2>4. QED
    BY <2>3 DEF Surjection
<1>4. ASSUME NEW i \in 1 .. n
      PROVE  q[i].pos = Nth(P, i)
  <2> DEFINE k == q[i].pos
             f == [j \in 1 .. i |-> q[j].pos]
  <2>1. k \in P
    BY <1>2 DEF Positions
  <2>2. \A j \in 1 .. i : j \in 1 .. n /\ q[j] \in rows /\ q[j].pos \in Nat /\ q[j].pos <= k
    <3>1. \A j \in 1 .. i : j \in 1 .. n /\ (j = i \/ j < i)
      BY <1>1
    <3>2. \A j \in 1 .. n : q[j] \in rows /\ q[j].pos \in Nat
      BY <1>2 DEF Placed
    <3>3. QED
      BY <1>2, <3>1, <3>2
  <2>3. \A p \in Before(P, k) : \E j \in 1 .. i : q[j].pos = p
    <3> SUFFICES ASSUME NEW p \in P, p <= k PROVE \E j \in 1 .. i : q[j].pos = p
      BY DEF Before
    <3>1. PICK r \in rows : r.pos = p
      BY DEF Positions
    <3>2. PICK j \in 1 .. n : q[j] = r
      BY <1>3
    <3>3. j > i => k <= p
      BY <1>2, <3>1, <3>2
    <3>4. p \in Nat /\ k \in Nat
      BY <2>1, <1>1
    <3>5. j > i => FALSE
      <4>1. SUFFICES ASSUME j > i PROVE FALSE
        OBVIOUS
      <4>2. k = p
        BY <3>3, <3>4, <4>1
      <4>3. q[i] = r
        BY <1>2, <3>1, <4>2 DEF Placed
      <4>4. QED
        BY <1>2, <3>2, <4>1, <4>3
    <3>6. j \in 1 .. i
      BY <3>5, <1>1
    <3>7. QED
      BY <3>1, <3>2, <3>6
  <2>4. f \in Surjection(1 .. i, Before(P, k))
    <3>1. \A j \in 1 .. i : q[j].pos \in Before(P, k)
      BY <2>2 DEF Before, Positions
    <3>2. QED
      BY <2>3, <3>1 DEF Surjection
  <2>5. f \in Injection(1 .. i, Before(P, k))
    <3>1. \A j, l \in 1 .. i : f[j] = f[l] => j = l
      BY <1>2, <2>2 DEF Placed
    <3>2. QED
      BY <2>4, <3>1 DEF Surjection, Injection, IsInjective
  <2>6. IsFiniteSet(1 .. i) /\ Cardinality(1 .. i) = i
    BY FS_Interval
  <2> HIDE DEF f, k, P
  <2>7. Cardinality(Before(P, k)) = i
    BY <2>4, <2>5, <2>6, FS_Surjection
  <2>8. Nth(P, i) = k
    BY <1>1, <2>1, <2>7, NthTold
  <2>9. QED
    BY <2>8 DEF k
<1>5. QED
  BY <1>1, <1>2, <1>3, <1>4

\* Such rows can be put in order.
LEMMA OrderingExists ==
    ASSUME NEW rows, Placed(rows)
    PROVE  \E q \in Orderings(rows) : TRUE
<1> DEFINE n == Cardinality(rows)
           P == Positions(rows)
           q == [i \in 1 .. n |-> CHOOSE r \in rows : r.pos = Nth(P, i)]
<1>1. n \in Nat /\ IsFiniteSet(P) /\ P \subseteq Nat /\ Cardinality(P) = n
  BY PositionsType
<1>2. \A i \in 1 .. n : Nth(P, i) \in P /\ Cardinality(Before(P, Nth(P, i))) = i
  <2> HIDE DEF P
  <2>1. QED
    BY <1>1, NthType
<1>3. \A i \in 1 .. n : q[i] \in rows /\ q[i].pos = Nth(P, i)
  <2> SUFFICES ASSUME NEW i \in 1 .. n PROVE q[i] \in rows /\ q[i].pos = Nth(P, i)
    OBVIOUS
  <2>1. \E r \in rows : r.pos = Nth(P, i)
    BY <1>2 DEF Positions
  <2>2. QED
    BY <2>1
<1>4. \A i, j \in 1 .. n : i # j => q[i] # q[j]
  BY <1>2, <1>3
<1>5. \A i, j \in 1 .. n : i < j => q[i].pos <= q[j].pos
  <2> SUFFICES ASSUME NEW i \in 1 .. n, NEW j \in 1 .. n, i < j
               PROVE  q[i].pos <= q[j].pos
    OBVIOUS
  <2> DEFINE a == Nth(P, i)
             b == Nth(P, j)
  <2>1. a \in P /\ b \in P /\ Cardinality(Before(P, a)) = i /\ Cardinality(Before(P, b)) = j
    BY <1>2
  <2> HIDE DEF a, b, P
  <2>2. b < a => j < i
    <3>1. b < a => Cardinality(Before(P, b)) < Cardinality(Before(P, a))
      BY <1>1, <2>1, RankGrows
    <3>2. QED
      BY <2>1, <3>1
  <2>3. a <= b
    BY <1>1, <2>1, <2>2
  <2>4. QED
    BY <1>3, <2>3 DEF a, b
<1>6. q \in SetToSeqs(rows) /\ DOMAIN q = 1 .. n
  BY <1>3, <1>4 DEF SetToSeqs
<1>7. QED
  BY <1>5, <1>6 DEF Orderings

\* The columns of rows that hold what a sequence has at their positions.
LEMMA ColumnsArePicked ==
    ASSUME NEW rows, Placed(rows), NEW all, \A r \in rows : r.col = all[r.pos]
    PROVE  /\ Columns(rows) = Picked(all, Positions(rows))
           /\ \A q \in Orderings(rows) :
                  [i \in DOMAIN q |-> q[i].col] = Picked(all, Positions(rows))
<1>1. ASSUME NEW q \in Orderings(rows)
      PROVE  [i \in DOMAIN q |-> q[i].col] = Picked(all, Positions(rows))
  <2>1. /\ DOMAIN q = 1 .. Cardinality(Positions(rows))
        /\ \A i \in DOMAIN q : q[i] \in rows /\ q[i].pos = Nth(Positions(rows), i)
    BY OrderingIs
  <2>2. \A i \in DOMAIN q : q[i].col = all[Nth(Positions(rows), i)]
    BY <2>1
  <2>3. QED
    BY <2>1, <2>2 DEF Picked
<1>2. PICK o : o = CHOOSE q \in Orderings(rows) : TRUE
  OBVIOUS
<1>3. o \in Orderings(rows)
  BY <1>2, OrderingExists
<1>4. Columns(rows) = [i \in DOMAIN o |-> o[i].col]
  BY <1>2 DEF Columns
<1>5. QED
  BY <1>1, <1>3, <1>4

----------------------------------------------------------------------------
(* Columns: what ScanColumns and PRAGMA table_info make of a table's rows. *)

Distinguished(objects) == \A x, y \in objects : x.name = y.name => x = y

IsList(q) == q \in Seq(Range(q))

\* The empty sequence is a list of nothing.
LEMMA EmptyList == IsList(<< >>) /\ Range(<< >>) = {} /\ DOMAIN << >> = {} /\ Len(<< >>) = 0
<1>1. DOMAIN << >> = {} /\ Len(<< >>) = 0
  OBVIOUS
<1>2. Range(<< >>) = {}
  BY <1>1 DEF Range
<1>3. QED
  BY <1>1, <1>2 DEF IsList

\* What a list is, as a function on its places.
LEMMA ListFacts ==
    ASSUME NEW q, IsList(q)
    PROVE  /\ Len(q) \in Nat /\ DOMAIN q = 1 .. Len(q) /\ q = [i \in 1 .. Len(q) |-> q[i]]
           /\ IsFiniteSet(DOMAIN q) /\ DOMAIN q \subseteq Nat /\ Cardinality(DOMAIN q) = Len(q)
           /\ \A i \in DOMAIN q : q[i] \in Range(q)
           /\ q = << >> <=> Range(q) = {}
           /\ q = << >> <=> Len(q) = 0
<1>1. /\ Len(q) \in Nat /\ DOMAIN q = 1 .. Len(q) /\ q = [i \in 1 .. Len(q) |-> q[i]]
      /\ \A i \in DOMAIN q : q[i] \in Range(q)
  BY DEF IsList, Range
<1>2. IsFiniteSet(DOMAIN q) /\ Cardinality(DOMAIN q) = Len(q)
  <2>1. \A n \in Nat : IsFiniteSet(1 .. n) /\ Cardinality(1 .. n) = n
    BY FS_Interval
  <2>2. Len(q) \in Nat /\ DOMAIN q = 1 .. Len(q)
    BY <1>1
  <2>3. QED
    BY <2>1, <2>2
<1>3. q = << >> <=> Len(q) = 0
  BY <1>1
<1>4. Len(q) = 0 <=> Range(q) = {}
  <2>1. Len(q) = 0 <=> 1 .. Len(q) = {}
    BY <1>1
  <2>2. QED
    BY <1>1, <2>1 DEF Range
<1>5. QED
  BY <1>1, <1>2, <1>3, <1>4

\* A table or view with columns of their own names, and a key of some of them.
GoodTable(t) ==
    /\ IsList(t.cols) /\ Distinguished(Range(t.cols))
    /\ IsList(t.key) /\ Range(t.key) \subseteq {x.name : x \in Range(t.cols)}
    /\ \A k, l \in DOMAIN t.key : t.key[k] = t.key[l] => k = l

ColumnsByName(t) ==
    [n \in {x.name : x \in Range(t.cols)} |->
        Scanned((CHOOSE x \in Range(t.cols) : x.name = n).def)]

RowsOf(t) ==
    {[table |-> t.name, col |-> c.name, def |-> c.def,
      pos |-> KeyPosition(t, c.name)] : c \in Range(t.cols)}

\* KeyPosition is the place of a column in the key, or zero.
LEMMA KeyPositionIs ==
    ASSUME NEW t, GoodTable(t), NEW col
    PROVE  /\ KeyPosition(t, col) \in Nat
           /\ KeyPosition(t, col) > 0 =>
                  KeyPosition(t, col) \in DOMAIN t.key /\ t.key[KeyPosition(t, col)] = col
           /\ \A k \in DOMAIN t.key : t.key[k] = col => KeyPosition(t, col) = k
<1>1. DOMAIN t.key \subseteq Nat /\ 0 \notin DOMAIN t.key
  <2>1. Len(t.key) \in Nat /\ DOMAIN t.key = 1 .. Len(t.key)
    BY ListFacts DEF GoodTable
  <2>2. QED
    BY <2>1
<1>2. CASE col \in Range(t.key)
  <2>1. \E i \in DOMAIN t.key : t.key[i] = col
    BY <1>2 DEF Range
  <2>2. KeyPosition(t, col) \in DOMAIN t.key /\ t.key[KeyPosition(t, col)] = col
    BY <1>2, <2>1 DEF KeyPosition
  <2>3. QED
    BY <1>1, <2>2 DEF GoodTable
<1>3. CASE col \notin Range(t.key)
  BY <1>3 DEF KeyPosition, Range
<1>4. QED
  BY <1>2, <1>3

\* ScanColumns makes of a table's rows its columns and its key in order.
LEMMA TableIs ==
    ASSUME NEW t, GoodTable(t)
    PROVE  Table(RowsOf(t)) = [cols |-> ColumnsByName(t), key |-> t.key,
                               indexes |-> NoParts, fks |-> NoParts]
<1> DEFINE rows == RowsOf(t)
           keyed == {r \in rows : r.pos > 0}
<1>1. \A r \in rows : /\ r.col \in {x.name : x \in Range(t.cols)}
                      /\ r.table = t.name
                      /\ r.pos = KeyPosition(t, r.col) /\ r.pos \in Nat
                      /\ \E c \in Range(t.cols) : c.name = r.col /\ c.def = r.def
  BY KeyPositionIs DEF RowsOf
<1>2. ASSUME NEW c \in Range(t.cols)
      PROVE  \E r \in rows : r.col = c.name /\ r.def = c.def
  <2>1. [table |-> t.name, col |-> c.name, def |-> c.def, pos |-> KeyPosition(t, c.name)] \in rows
    BY DEF RowsOf
  <2>2. QED
    BY <2>1
<1>3. {r.col : r \in rows} = {x.name : x \in Range(t.cols)}
  BY <1>1, <1>2
<1>4. \A n \in {x.name : x \in Range(t.cols)} :
          (CHOOSE r \in rows : r.col = n).def = (CHOOSE x \in Range(t.cols) : x.name = n).def
  <2> SUFFICES ASSUME NEW n \in {x.name : x \in Range(t.cols)}
               PROVE  (CHOOSE r \in rows : r.col = n).def
                          = (CHOOSE x \in Range(t.cols) : x.name = n).def
    OBVIOUS
  <2>1. PICK x \in Range(t.cols) : x = CHOOSE y \in Range(t.cols) : y.name = n
    OBVIOUS
  <2>2. PICK r : r = CHOOSE s \in rows : s.col = n
    OBVIOUS
  <2>3. r \in rows /\ r.col = n
    BY <1>2, <2>2
  <2>4. x.name = n
    BY <2>1
  <2>5. PICK c \in Range(t.cols) : c.name = r.col /\ c.def = r.def
    BY <1>1, <2>3
  <2>6. c = x
    BY <2>3, <2>4, <2>5 DEF GoodTable, Distinguished
  <2>7. QED
    BY <2>1, <2>2, <2>5, <2>6
<1>5. \A r, s \in rows : r.col = s.col => r = s
  BY DEF RowsOf, GoodTable, Distinguished
<1>6. \A r \in keyed : r.pos \in DOMAIN t.key /\ r.col = t.key[r.pos] /\ r.pos \in Nat
  BY <1>1, KeyPositionIs
<1>7. \A r, s \in keyed : r.pos = s.pos => r = s
  BY <1>5, <1>6
<1>8. \A k \in DOMAIN t.key : \E r \in keyed : r.pos = k
  <2> SUFFICES ASSUME NEW k \in DOMAIN t.key PROVE \E r \in keyed : r.pos = k
    OBVIOUS
  <2>1. t.key[k] \in Range(t.key)
    BY DEF Range
  <2>2. PICK x \in Range(t.cols) : x.name = t.key[k]
    BY <2>1 DEF GoodTable
  <2>3. PICK r \in rows : r.col = x.name
    BY <1>2
  <2>4. r.pos = k
    BY <1>1, <2>2, <2>3, KeyPositionIs
  <2>5. DOMAIN t.key = 1 .. Len(t.key) /\ Len(t.key) \in Nat
    BY ListFacts DEF GoodTable
  <2>6. k > 0
    BY <2>5
  <2>7. QED
    BY <2>4, <2>6
<1>9. Positions(keyed) = DOMAIN t.key
  BY <1>6, <1>8 DEF Positions
<1>10. IsFiniteSet(keyed)
  <2> DEFINE f == [r \in keyed |-> r.pos]
  <2>1. f \in Injection(keyed, DOMAIN t.key)
    BY <1>6, <1>7 DEF Injection, IsInjective
  <2>2. IsFiniteSet(DOMAIN t.key)
    BY ListFacts DEF GoodTable
  <2> HIDE DEF f, keyed
  <2>3. QED
    BY <2>1, <2>2, FS_Injection
<1>11. Placed(keyed)
  BY <1>6, <1>7, <1>10 DEF Placed
<1>12. Columns(keyed) = t.key
  <2> HIDE DEF keyed
  <2>1. Columns(keyed) = Picked(t.key, Positions(keyed))
    BY <1>6, <1>11, ColumnsArePicked
  <2>2. QED
    BY <1>9, <2>1, PickedAll DEF GoodTable, IsList
<1>13. [n \in {r.col : r \in rows} |-> Scanned((CHOOSE r \in rows : r.col = n).def)] = ColumnsByName(t)
  <2> DEFINE names == {x.name : x \in Range(t.cols)}
             Old(n) == Scanned((CHOOSE x \in Range(t.cols) : x.name = n).def)
             New(n) == Scanned((CHOOSE r \in rows : r.col = n).def)
  <2>1. {r.col : r \in rows} = names
    BY <1>3
  <2>2. \A n \in names : New(n) = Old(n)
    BY <1>4
  <2> HIDE DEF names, Old, New
  <2>3. [n \in names |-> New(n)] = [n \in names |-> Old(n)]
    BY <2>2
  <2> USE DEF names, Old, New
  <2>4. ColumnsByName(t) = [n \in names |-> Old(n)]
    BY DEF ColumnsByName
  <2> HIDE DEF names
  <2>5. QED
    BY <2>1, <2>3, <2>4
<1>14. QED
  BY <1>12, <1>13 DEF Table

\* PRAGMA table_info of no table gives a table without columns.
LEMMA TableOfNothing ==
    Table({}) = [cols |-> << >>, key |-> << >>, indexes |-> NoParts, fks |-> NoParts]
<1>1. Placed({}) /\ Positions({}) = {}
  BY FS_EmptySet DEF Placed, Positions
<1>2. Columns({}) = Picked(<< >>, {})
  BY <1>1, ColumnsArePicked
<1>3. Picked(<< >>, {}) = << >>
  <2>1. Cardinality({}) = 0
    BY FS_EmptySet
  <2>2. 1 .. 0 = {}
    OBVIOUS
  <2>3. QED
    BY <2>1, <2>2 DEF Picked
<1>4. {r \in {} : r.pos > 0} = {} /\ {r.col : r \in {}} = {}
  OBVIOUS
<1>5. QED
  BY <1>2, <1>3, <1>4 DEF Table

\* The rows of one name are those of the one relation that has it.
LEMMA RowsOfRelation ==
    ASSUME NEW S, Distinguished(S), NEW t \in S
    PROVE  {r \in ColumnRows(S) : r.table = t.name} = RowsOf(t)
<1>1. \A r \in RowsOf(t) : r.table = t.name /\ r \in ColumnRows(S)
  BY DEF RowsOf, ColumnRows
<1>2. ASSUME NEW r \in ColumnRows(S), r.table = t.name
      PROVE  r \in RowsOf(t)
  <2>1. PICK u \in S : r \in RowsOf(u)
    BY <1>2 DEF ColumnRows, RowsOf
  <2>2. r.table = u.name
    BY <2>1 DEF RowsOf
  <2>3. u = t
    BY <1>2, <2>2 DEF Distinguished
  <2>4. QED
    BY <2>1, <2>3
<1>3. QED
  BY <1>1, <1>2

\* A name that no table has is in no row.
LEMMA RowsOfNothing ==
    ASSUME NEW S, NEW n, n \notin {t.name : t \in S}
    PROVE  {r \in ColumnRows(S) : r.table = n} = {}
  BY DEF ColumnRows

\* ScanColumns lists every table that has a column and is not ignored.
LEMMA ScanColumnsIs ==
    ASSUME NEW S, Distinguished(S), \A t \in S : GoodTable(t)
    PROVE  /\ DOMAIN ScanColumns(ColumnRows(S))
                  = {t.name : t \in {x \in S : x.cols # << >> /\ ~ Skipped(IgnoreTables, x.name)}}
           /\ \A t \in S : t.name \in DOMAIN ScanColumns(ColumnRows(S)) =>
                  ScanColumns(ColumnRows(S))[t.name]
                      = [cols |-> ColumnsByName(t), key |-> t.key,
                         indexes |-> NoParts, fks |-> NoParts]
<1> DEFINE rows == ColumnRows(S)
<1>1. DOMAIN ScanColumns(rows) = {r.table : r \in {x \in rows : ~ Skipped(IgnoreTables, x.table)}}
  BY DEF ScanColumns
<1>2. \A r \in rows : \E t \in S : t.name = r.table /\ Range(t.cols) # {}
  BY DEF ColumnRows
<1>3. ASSUME NEW t \in S, Range(t.cols) # {}
      PROVE  \E r \in rows : r.table = t.name
  <2>1. PICK c \in Range(t.cols) : TRUE
    BY <1>3
  <2>2. [table |-> t.name, col |-> c.name, def |-> c.def, pos |-> KeyPosition(t, c.name)] \in rows
    BY DEF ColumnRows
  <2>3. QED
    BY <2>2
<1>4. \A t \in S : t.cols = << >> <=> Range(t.cols) = {}
  BY ListFacts DEF GoodTable
<1>5. ASSUME NEW t \in S, t.name \in DOMAIN ScanColumns(rows)
      PROVE  ScanColumns(rows)[t.name] = [cols |-> ColumnsByName(t), key |-> t.key,
                                          indexes |-> NoParts, fks |-> NoParts]
  <2>1. ScanColumns(rows)[t.name] = Table({r \in rows : r.table = t.name})
    BY <1>1, <1>5 DEF ScanColumns
  <2>2. {r \in rows : r.table = t.name} = RowsOf(t)
    BY RowsOfRelation
  <2>3. QED
    BY <2>1, <2>2, TableIs
<1>6. QED
  <2> HIDE DEF rows
  <2>1. {r.table : r \in {x \in rows : ~ Skipped(IgnoreTables, x.table)}}
            = {t.name : t \in {x \in S : x.cols # << >> /\ ~ Skipped(IgnoreTables, x.name)}}
    BY <1>2, <1>3, <1>4
  <2>2. QED
    BY <1>1, <1>5, <2>1 DEF rows

----------------------------------------------------------------------------
(* Indexes: what their rows are grouped to. *)

Querying == {"mysql", "postgres", "mssql", "oracle"}

GoodIndex(i) == IsList(i.cols) /\ i.cols # << >> /\ IsList(i.included)

\* The rows of an index carry its name, its table and their own places.
LEMMA IndexRowsFacts ==
    ASSUME NEW i, NEW q, IsList(q), NEW S, S \subseteq IndexRows(i, q)
    PROVE  /\ Placed(S) /\ Positions(S) \subseteq DOMAIN q
           /\ \A r \in S : /\ r.table = i.table /\ r.name = i.name /\ r.unique = i.unique
                           /\ r.pos \in DOMAIN q /\ r.col = q[r.pos]
<1>1. \A r \in S : /\ r.table = i.table /\ r.name = i.name /\ r.unique = i.unique
                   /\ r.pos \in DOMAIN q /\ r.col = q[r.pos]
  BY DEF IndexRows
<1>2. \A r, s \in S : r.pos = s.pos => r = s
  BY DEF IndexRows
<1>3. DOMAIN q \subseteq Nat /\ IsFiniteSet(DOMAIN q)
  BY ListFacts
<1>4. IsFiniteSet(S)
  <2> DEFINE f == [r \in S |-> r.pos]
  <2>1. f \in Injection(S, DOMAIN q)
    BY <1>1, <1>2 DEF Injection, IsInjective
  <2> HIDE DEF f
  <2>2. QED
    BY <2>1, <1>3, FS_Injection
<1>5. QED
  BY <1>1, <1>2, <1>3, <1>4 DEF Placed, Positions

\* The rows of an index in the answer of a driver's query.
RowsOfIndex(i) ==
    CASE driver = "postgres" -> {r \in IndexRows(i, i.cols \o i.included) : r.col # Null}
      [] driver = "oracle" /\ Null \in Range(i.cols) -> {}
      [] OTHER -> IndexRows(i, i.cols)

\* Each part of an index has a row.
LEMMA PositionsOfAll ==
    ASSUME NEW i, NEW q
    PROVE  Positions(IndexRows(i, q)) = DOMAIN q
<1>1. ASSUME NEW k \in DOMAIN q PROVE \E r \in IndexRows(i, q) : r.pos = k
  <2>1. [table |-> i.table, name |-> i.name, col |-> q[k], pos |-> k, unique |-> i.unique]
            \in IndexRows(i, q)
    BY DEF IndexRows
  <2>2. QED
    BY <2>1
<1>2. \A r \in IndexRows(i, q) : r.pos \in DOMAIN q
  BY DEF IndexRows
<1>3. QED
  BY <1>1, <1>2 DEF Positions

\* Only no places pick nothing.
LEMMA PickedNothing ==
    ASSUME NEW q, NEW places, IsFiniteSet(places)
    PROVE  Picked(q, places) = << >> <=> places = {}
<1>1. Cardinality(places) \in Nat /\ (Cardinality(places) = 0 <=> places = {})
  BY FS_CardinalityType, FS_EmptySet
<1>2. DOMAIN Picked(q, places) = 1 .. Cardinality(places)
  BY DEF Picked
<1>3. Cardinality(places) = 0 <=> 1 .. Cardinality(places) = {}
  BY <1>1
<1>4. Picked(q, places) = << >> <=> DOMAIN Picked(q, places) = {}
  BY DEF Picked
<1>5. QED
  BY <1>1, <1>2, <1>3, <1>4

\* The rows a driver returns of an index give the columns it is reported with.
LEMMA RowsOfIndexFacts ==
    ASSUME NEW i, GoodIndex(i), driver \in Querying
    PROVE  /\ Placed(RowsOfIndex(i))
           /\ \A r \in RowsOfIndex(i) :
                  r.table = i.table /\ r.name = i.name /\ r.unique = i.unique
           /\ Columns(RowsOfIndex(i)) = Reported(i)
           /\ RowsOfIndex(i) = {} <=> Reported(i) = << >>
<1>1. CASE driver = "postgres"
  <2> DEFINE all == i.cols \o i.included
             kept == {k \in DOMAIN all : all[k] # Null}
             S == {r \in IndexRows(i, all) : r.col # Null}
  <2>1. RowsOfIndex(i) = S
    BY <1>1 DEF RowsOfIndex
  <2>2. IsList(all)
    <3>1. \A T : i.cols \in Seq(T) /\ i.included \in Seq(T) => all \in Seq(T)
      OBVIOUS
    <3>2. i.cols \in Seq(Range(i.cols) \cup Range(i.included))
          /\ i.included \in Seq(Range(i.cols) \cup Range(i.included))
      BY DEF GoodIndex, IsList
    <3>3. all \in Seq(Range(i.cols) \cup Range(i.included))
      BY <3>1, <3>2
    <3> HIDE DEF all
    <3>4. QED
      BY <3>3 DEF IsList, Range
  <2>3. Reported(i) = Picked(all, kept)
    BY <1>1 DEF Reported
  <2> HIDE DEF all
  <2>4. /\ Placed(S) /\ Positions(S) \subseteq DOMAIN all
        /\ \A r \in S : /\ r.table = i.table /\ r.name = i.name /\ r.unique = i.unique
                        /\ r.pos \in DOMAIN all /\ r.col = all[r.pos]
    BY <2>2, IndexRowsFacts
  <2>5. Positions(S) = kept
    <3>1. \A r \in S : r.pos \in kept
      BY <2>4
    <3>2. ASSUME NEW k \in kept PROVE \E r \in S : r.pos = k
      <4>1. k \in Positions(IndexRows(i, all))
        BY PositionsOfAll
      <4>2. PICK r \in IndexRows(i, all) : r.pos = k
        BY <4>1 DEF Positions
      <4>3. r.col = all[k]
        BY <4>2 DEF IndexRows
      <4>4. QED
        BY <4>2, <4>3
    <3>3. QED
      BY <3>1, <3>2 DEF Positions
  <2>6. S = {} <=> kept = {}
    BY <2>5 DEF Positions
  <2>7. IsFiniteSet(kept)
    BY <2>4, <2>5, PositionsType
  <2> HIDE DEF S, kept
  <2>8. Columns(S) = Picked(all, kept)
    BY <2>4, <2>5, ColumnsArePicked
  <2>9. Picked(all, kept) = << >> <=> kept = {}
    BY <2>7, PickedNothing
  <2>10. QED
    BY <2>1, <2>3, <2>4, <2>6, <2>8, <2>9
<1>2. CASE driver = "oracle" /\ Null \in Range(i.cols)
  <2>1. RowsOfIndex(i) = {} /\ Reported(i) = << >>
    BY <1>2 DEF RowsOfIndex, Reported
  <2>2. Placed({}) /\ Positions({}) = {}
    BY FS_EmptySet DEF Placed, Positions
  <2>3. Columns({}) = Picked(<< >>, {})
    BY <2>2, ColumnsArePicked
  <2>4. Picked(<< >>, {}) = << >>
    BY FS_EmptySet, PickedNothing
  <2>5. QED
    BY <2>1, <2>2, <2>3, <2>4
<1>3. CASE driver # "postgres" /\ ~ (driver = "oracle" /\ Null \in Range(i.cols))
  <2>1. RowsOfIndex(i) = IndexRows(i, i.cols) /\ Reported(i) = i.cols
    BY <1>3 DEF RowsOfIndex, Reported, Querying
  <2>2. IsList(i.cols) /\ i.cols # << >>
    BY DEF GoodIndex
  <2>3. /\ Placed(IndexRows(i, i.cols))
        /\ \A r \in IndexRows(i, i.cols) :
               /\ r.table = i.table /\ r.name = i.name /\ r.unique = i.unique
               /\ r.pos \in DOMAIN i.cols /\ r.col = i.cols[r.pos]
    BY <2>2, IndexRowsFacts
  <2>4. Columns(IndexRows(i, i.cols)) = Picked(i.cols, DOMAIN i.cols)
    BY <2>3, ColumnsArePicked, PositionsOfAll
  <2>5. Picked(i.cols, DOMAIN i.cols) = i.cols
    BY <2>2, PickedAll DEF IsList
  <2>6. IndexRows(i, i.cols) # {}
    <3>1. 1 \in DOMAIN i.cols
      BY <2>2, ListFacts
    <3>2. QED
      BY <3>1 DEF IndexRows
  <2>7. QED
    BY <2>1, <2>2, <2>3, <2>4, <2>5, <2>6
<1>4. QED
  BY <1>1, <1>2, <1>3

\* The indexes that the query finds, and its answer.
Found(c) ==
    {i \in Secondary(c.indexes) :
        driver = "mssql" => i.table \in {t.name : t \in c.tables}}

IndexAnswer(c) == UNION {RowsOfIndex(i) : i \in Found(c)}

\* The answer to each driver's query of the indexes is the rows of each index.
LEMMA IndexAnswerIs ==
    ASSUME NEW c
    PROVE  /\ driver = "mysql" => MySQLIndexes(c) = IndexAnswer(c)
           /\ driver = "postgres" => PostgreSQLIndexes(c) = IndexAnswer(c)
           /\ driver = "mssql" => MSSQLIndexes(c) = IndexAnswer(c)
           /\ driver = "oracle" => OracleIndexes(c) = IndexAnswer(c)
<1>0. driver # "mssql" => Found(c) = Secondary(c.indexes)
  BY DEF Found
<1>1. driver = "mysql" => MySQLIndexes(c) = IndexAnswer(c)
  BY <1>0 DEF MySQLIndexes, IndexAnswer, RowsOfIndex
<1>2. driver = "postgres" => PostgreSQLIndexes(c) = IndexAnswer(c)
  BY <1>0 DEF PostgreSQLIndexes, IndexAnswer, RowsOfIndex
<1>3. driver = "mssql" => MSSQLIndexes(c) = IndexAnswer(c)
  BY DEF MSSQLIndexes, IndexAnswer, RowsOfIndex, Found
<1>4. driver = "oracle" => OracleIndexes(c) = IndexAnswer(c)
  BY <1>0 DEF OracleIndexes, IndexAnswer, RowsOfIndex
<1>5. QED
  BY <1>1, <1>2, <1>3, <1>4

GoodIndexes(c) ==
    /\ \A i \in c.indexes : GoodIndex(i)
    /\ \A i, j \in c.indexes : i.name = j.name /\ i.table = j.table => i = j

\* The indexes of a table that are reported.
Secondaries(c, t) == {i \in Found(c) : i.table = t /\ Reported(i) # << >>}

\* A table and what the answer of the indexes makes of it.
Indexed(c, t, old, new) ==
    /\ new = [old EXCEPT !.indexes = new.indexes]
    /\ DOMAIN new.indexes = {i.name : i \in Secondaries(c, t)}
    /\ \A i \in Secondaries(c, t) : new.indexes[i.name] = [cols |-> Reported(i), unique |-> i.unique]

\* GroupIndexes gives a table the indexes that are reported of it, and no other.
LEMMA GroupIndexesIs ==
    ASSUME NEW c, GoodIndexes(c), driver \in Querying, NEW tables, NEW t \in DOMAIN tables,
           "indexes" \in DOMAIN tables[t]
    PROVE  Indexed(c, t, tables[t], GroupIndexes(tables, IndexAnswer(c))[t])
<1> DEFINE rows == IndexAnswer(c)
           new == GroupIndexes(tables, rows)
           mine == {i \in Found(c) : i.table = t /\ Reported(i) # << >>}
           Of(n) == {r \in rows : r.table = t /\ r.name = n}
           names == {r.name : r \in {x \in rows : x.table = t}}
           map == [n \in names |-> [cols |-> Columns(Of(n)), unique |-> (CHOOSE r \in Of(n) : TRUE).unique]]
<1>1. DOMAIN new = DOMAIN tables /\ new[t] = [tables[t] EXCEPT !.indexes = map]
  BY DEF GroupIndexes
<1>2. new[t].indexes = map
  <2> HIDE DEF map, new
  <2>1. QED
    BY <1>1
<1>3. \A i \in Found(c) :
          /\ \A r \in RowsOfIndex(i) : r.table = i.table /\ r.name = i.name /\ r.unique = i.unique
          /\ Columns(RowsOfIndex(i)) = Reported(i)
          /\ RowsOfIndex(i) = {} <=> Reported(i) = << >>
  BY RowsOfIndexFacts DEF GoodIndexes, Secondary, Found
<1>4. \A r \in rows : \E i \in Found(c) : r \in RowsOfIndex(i)
  BY DEF IndexAnswer
<1>5. \A i \in Found(c) : RowsOfIndex(i) \subseteq rows
  BY DEF IndexAnswer
<1>6. ASSUME NEW i \in mine
      PROVE  Of(i.name) = RowsOfIndex(i) /\ RowsOfIndex(i) # {}
  <2>1. RowsOfIndex(i) # {} /\ RowsOfIndex(i) \subseteq Of(i.name)
    BY <1>3, <1>5
  <2>2. ASSUME NEW r \in Of(i.name) PROVE r \in RowsOfIndex(i)
    <3>1. PICK j \in Found(c) : r \in RowsOfIndex(j)
      BY <1>4
    <3>2. j.table = t /\ j.name = i.name
      BY <1>3, <3>1
    <3>3. j = i
      BY <3>2 DEF GoodIndexes, Secondary, Found
    <3>4. QED
      BY <3>1, <3>3
  <2>3. QED
    BY <2>1, <2>2
<1>7. names = {i.name : i \in mine}
  <2>1. \A n \in names : \E i \in mine : i.name = n
    BY <1>3, <1>4
  <2>2. \A i \in mine : i.name \in names
    BY <1>6
  <2>3. QED
    BY <2>1, <2>2
<1>8. ASSUME NEW i \in mine
      PROVE  map[i.name] = [cols |-> Reported(i), unique |-> i.unique]
  <2>1. i.name \in names
    BY <1>7
  <2>2. (CHOOSE r \in Of(i.name) : TRUE) \in RowsOfIndex(i)
    BY <1>6
  <2>3. (CHOOSE r \in Of(i.name) : TRUE).unique = i.unique
    BY <1>3, <2>2
  <2>4. Columns(Of(i.name)) = Reported(i)
    BY <1>3, <1>6
  <2>5. QED
    BY <2>1, <2>3, <2>4
<1>9. QED
  <2> HIDE DEF map
  <2>1. DOMAIN map = {i.name : i \in mine}
    BY <1>7 DEF map
  <2>2. QED
    BY <1>1, <1>2, <1>8, <2>1 DEF Secondaries, Indexed

\* PRAGMA index_info of an index that is there and of one that is not.
LEMMA SQLiteIndexInfoIs ==
    ASSUME NEW c, \A i \in c.indexes : GoodIndex(i), Distinguished(c.indexes)
    PROVE  /\ \A i \in c.indexes : Columns(SQLiteIndexInfo(c, i.name)) = i.cols
           /\ \A n : n \notin {i.name : i \in c.indexes} =>
                  Columns(SQLiteIndexInfo(c, n)) = << >>
<1>1. ASSUME NEW i \in c.indexes
      PROVE  Columns(SQLiteIndexInfo(c, i.name)) = i.cols
  <2>1. {x \in c.indexes : x.name = i.name} = {i}
    BY DEF Distinguished
  <2>2. SQLiteIndexInfo(c, i.name) = IndexRows(i, i.cols)
    BY <2>1 DEF SQLiteIndexInfo
  <2>3. IsList(i.cols)
    BY DEF GoodIndex
  <2>4. /\ Placed(IndexRows(i, i.cols))
        /\ \A r \in IndexRows(i, i.cols) : r.col = i.cols[r.pos]
    BY <2>3, IndexRowsFacts
  <2>5. Columns(IndexRows(i, i.cols)) = Picked(i.cols, DOMAIN i.cols)
    BY <2>4, ColumnsArePicked, PositionsOfAll
  <2>6. Picked(i.cols, DOMAIN i.cols) = i.cols
    BY <2>3, PickedAll DEF IsList
  <2>7. QED
    BY <2>2, <2>5, <2>6
<1>2. ASSUME NEW n, n \notin {i.name : i \in c.indexes}
      PROVE  Columns(SQLiteIndexInfo(c, n)) = << >>
  <2>1. SQLiteIndexInfo(c, n) = {}
    BY <1>2 DEF SQLiteIndexInfo
  <2>2. Placed({}) /\ Positions({}) = {}
    BY FS_EmptySet DEF Placed, Positions
  <2>3. Columns({}) = Picked(<< >>, {})
    BY <2>2, ColumnsArePicked
  <2>4. Picked(<< >>, {}) = << >>
    BY FS_EmptySet, PickedNothing
  <2>5. QED
    BY <2>1, <2>3, <2>4
<1>3. QED
  BY <1>1, <1>2

----------------------------------------------------------------------------
(* Foreign keys: what their rows are grouped to, in any order. *)

GoodKey(f) ==
    /\ IsList(f.cols) /\ f.cols # << >>
    /\ IsList(f.refCols) /\ Len(f.refCols) = Len(f.cols)

\* The rows of a foreign key carry its name, both its tables and their own places.
LEMMA ForeignKeyRowsFacts ==
    ASSUME NEW f, GoodKey(f)
    PROVE  /\ Placed(ForeignKeyRows(f)) /\ Positions(ForeignKeyRows(f)) = DOMAIN f.cols
           /\ ForeignKeyRows(f) # {}
           /\ \A r \in ForeignKeyRows(f) :
                  /\ r.table = f.table /\ r.name = f.name /\ r.pos \in DOMAIN f.cols
                  /\ r.col = f.cols[r.pos] /\ r.refCol = f.refCols[r.pos]
                  /\ r.refTable = f.refTable /\ r.rules = f.rules
<1> DEFINE rows == ForeignKeyRows(f)
<1>1. \A r \in rows : /\ r.table = f.table /\ r.name = f.name /\ r.pos \in DOMAIN f.cols
                      /\ r.col = f.cols[r.pos] /\ r.refCol = f.refCols[r.pos]
                      /\ r.refTable = f.refTable /\ r.rules = f.rules
  BY DEF ForeignKeyRows
<1>2. \A r, s \in rows : r.pos = s.pos => r = s
  BY DEF ForeignKeyRows
<1>3. ASSUME NEW k \in DOMAIN f.cols PROVE \E r \in rows : r.pos = k
  <2>1. [table |-> f.table, name |-> f.name, col |-> f.cols[k], pos |-> k,
         refTable |-> f.refTable, refCol |-> f.refCols[k], rules |-> f.rules] \in rows
    BY DEF ForeignKeyRows
  <2>2. QED
    BY <2>1
<1>4. DOMAIN f.cols \subseteq Nat /\ IsFiniteSet(DOMAIN f.cols) /\ 1 \in DOMAIN f.cols
  BY ListFacts DEF GoodKey
<1>5. IsFiniteSet(rows)
  <2> DEFINE g == [r \in rows |-> r.pos]
  <2>1. g \in Injection(rows, DOMAIN f.cols)
    BY <1>1, <1>2 DEF Injection, IsInjective
  <2> HIDE DEF g, rows
  <2>2. QED
    BY <2>1, <1>4, FS_Injection
<1>6. QED
  BY <1>1, <1>2, <1>3, <1>4, <1>5 DEF Placed, Positions

\* Nothing is left out of a list where PostgreSQL's has one member.
LEMMA KeptIs ==
    ASSUME NEW q, IsList(q), driver = "postgres" => Len(q) = 1
    PROVE  Kept(q) = q
<1>1. CASE driver # "postgres"
  BY <1>1 DEF Kept
<1>2. CASE driver = "postgres"
  <2> DEFINE places == {k \in DOMAIN q : \A j \in 1 .. k - 1 : q[j] # q[k]}
  <2>1. DOMAIN q = 1 .. 1
    BY <1>2, ListFacts
  <2>2. 1 .. 1 - 1 = {} /\ 1 .. 1 = {1}
    OBVIOUS
  <2>3. places = DOMAIN q
    BY <2>1, <2>2
  <2> HIDE DEF places
  <2>4. Distinct(q) = Picked(q, DOMAIN q)
    BY <2>3 DEF Distinct, places
  <2>5. QED
    BY <1>2, <2>4, PickedAll DEF Kept, IsList
<1>3. QED
  BY <1>1, <1>2

\* The foreign key that is made of the rows of one.
KeyImage(f) == [cols |-> f.cols, refTable |-> f.refTable, refCols |-> f.refCols, rules |-> f.rules]

\* The rows of a foreign key, in any order of equal places, give the key.
LEMMA ForeignKeyIs ==
    ASSUME NEW f, GoodKey(f), driver = "postgres" => Len(f.cols) = 1,
           NEW q \in Orderings(ForeignKeyRows(f))
    PROVE  ForeignKey(q, Kept) = KeyImage(f)
<1> DEFINE cols == [i \in DOMAIN q |-> q[i].col]
           refs == [i \in DOMAIN q |-> q[i].refCol]
           n == Len(f.cols)
<1>1. n \in Nat /\ DOMAIN f.cols = 1 .. n /\ Cardinality(DOMAIN f.cols) = n /\ 1 \in 1 .. n
  BY ListFacts DEF GoodKey
<1>2. /\ DOMAIN f.refCols = 1 .. n
      /\ f.cols = [i \in 1 .. n |-> f.cols[i]] /\ f.refCols = [i \in 1 .. n |-> f.refCols[i]]
  BY ListFacts DEF GoodKey
<1>3. /\ DOMAIN q = 1 .. n
      /\ \A i \in 1 .. n : q[i] \in ForeignKeyRows(f) /\ q[i].pos = i
  <2>1. Placed(ForeignKeyRows(f)) /\ Positions(ForeignKeyRows(f)) = DOMAIN f.cols
    BY ForeignKeyRowsFacts
  <2>2. /\ DOMAIN q = 1 .. Cardinality(DOMAIN f.cols)
        /\ \A i \in DOMAIN q : q[i] \in ForeignKeyRows(f) /\ q[i].pos = Nth(DOMAIN f.cols, i)
    BY <2>1, OrderingIs
  <2>3. \A i \in 1 .. n : Nth(1 .. n, i) = i
    BY <1>1, NthOfAll
  <2>4. QED
    BY <1>1, <2>2, <2>3
<1>4. \A i \in 1 .. n : /\ q[i].col = f.cols[i] /\ q[i].refCol = f.refCols[i]
                        /\ q[i].refTable = f.refTable /\ q[i].rules = f.rules
  BY <1>3, ForeignKeyRowsFacts
<1>5. cols = f.cols /\ refs = f.refCols
  BY <1>2, <1>3, <1>4
<1>6. q[1].refTable = f.refTable /\ q[1].rules = f.rules
  BY <1>1, <1>4
<1>7. Kept(f.cols) = f.cols /\ Kept(f.refCols) = f.refCols
  BY KeptIs DEF GoodKey
<1>8. ForeignKey(q, Kept) = [cols |-> Kept(cols), refTable |-> q[1].refTable,
                             refCols |-> Kept(refs), rules |-> q[1].rules]
  BY DEF ForeignKey
<1> HIDE DEF cols, refs
<1>9. QED
  BY <1>5, <1>6, <1>7, <1>8 DEF KeyImage

GoodKeys(S) ==
    /\ \A f \in S : GoodKey(f) /\ (driver = "postgres" => Len(f.cols) = 1)
    /\ \A f, g \in S : f.name = g.name /\ f.table = g.table => f = g

KeyAnswer(S) == UNION {ForeignKeyRows(f) : f \in S}

RowsOfTable(rows, t) == {r \in rows : r.table = t}
KeysOf(S, t) == {f \in S : f.table = t}

Keyed(S, t, keys) ==
    /\ DOMAIN keys = {f.name : f \in KeysOf(S, t)}
    /\ \A f \in KeysOf(S, t) : keys[f.name] = KeyImage(f)

\* The keys of a table, however their rows are ordered.
LEMMA GroupForeignKeysIs ==
    ASSUME NEW S, GoodKeys(S), NEW t,
           NEW keys \in GroupForeignKeys(RowsOfTable(KeyAnswer(S), t), Kept)
    PROVE  Keyed(S, t, keys)
<1> DEFINE rows == RowsOfTable(KeyAnswer(S), t)
           Of(n) == {r \in rows : r.name = n}
           names == {r.name : r \in rows}
<1>1. /\ DOMAIN keys = names
      /\ \A n \in names : \E q \in Orderings(Of(n)) : keys[n] = ForeignKey(q, Kept)
  BY DEF GroupForeignKeys
<1>2. \A f \in S : /\ ForeignKeyRows(f) # {} /\ ForeignKeyRows(f) \subseteq KeyAnswer(S)
                   /\ \A r \in ForeignKeyRows(f) : r.table = f.table /\ r.name = f.name
  BY ForeignKeyRowsFacts DEF GoodKeys, KeyAnswer
<1>3. \A r \in KeyAnswer(S) : \E f \in S : r \in ForeignKeyRows(f)
  BY DEF KeyAnswer
<1>4. \A f \in S : f.table = t => Of(f.name) = ForeignKeyRows(f)
  <2> SUFFICES ASSUME NEW f \in S, f.table = t PROVE Of(f.name) = ForeignKeyRows(f)
    OBVIOUS
  <2>1. ForeignKeyRows(f) \subseteq Of(f.name)
    BY <1>2 DEF RowsOfTable
  <2>2. ASSUME NEW r \in Of(f.name) PROVE r \in ForeignKeyRows(f)
    <3>1. PICK g \in S : r \in ForeignKeyRows(g)
      BY <1>3 DEF RowsOfTable
    <3>2. g = f
      BY <1>2, <3>1 DEF GoodKeys, RowsOfTable
    <3>3. QED
      BY <3>1, <3>2
  <2>3. QED
    BY <2>1, <2>2
<1>5. names = {f.name : f \in {g \in S : g.table = t}}
  <2>1. \A n \in names : \E f \in S : f.table = t /\ f.name = n
    BY <1>2, <1>3 DEF RowsOfTable
  <2>2. \A f \in S : f.table = t => f.name \in names
    BY <1>2, <1>4
  <2>3. QED
    BY <2>1, <2>2
<1>6. ASSUME NEW f \in S, f.table = t
      PROVE  keys[f.name] = KeyImage(f)
  <2>1. f.name \in names
    BY <1>5, <1>6
  <2>2. PICK q \in Orderings(Of(f.name)) : keys[f.name] = ForeignKey(q, Kept)
    BY <1>1, <2>1
  <2>3. q \in Orderings(ForeignKeyRows(f))
    BY <1>4, <1>6, <2>2
  <2>4. GoodKey(f) /\ (driver = "postgres" => Len(f.cols) = 1)
    BY DEF GoodKeys
  <2>5. QED
    BY <2>2, <2>3, <2>4, ForeignKeyIs
<1>7. QED
  BY <1>1, <1>5, <1>6 DEF Keyed, KeysOf

\* The foreign keys that a query lists.
KeysListed(c) == {f \in c.fks : KeyListed(c, f)}

\* PostgreSQL's join returns the rows of each key, where no other constraint has
\* its name and each is of one column.
LEMMA PostgreSQLForeignKeysAre ==
    ASSUME NEW c, driver = "postgres", Unambiguous(c), \A f \in c.fks : GoodKey(f)
    PROVE  PostgreSQLForeignKeys(c) = KeyAnswer(KeysListed(c))
<1> DEFINE Cols(n) ==
               UNION {{<<x.cols[k], k>> : k \in DOMAIN x.cols} :
                         x \in Called(KeyConstraints(c), n)}
           Used(n) ==
               UNION ({{<<x.refTable, col>> : col \in Range(x.refCols)} :
                          x \in {f \in Called(c.fks, n) : f.refSchema = c.schema}}
                      \cup {{<<x.table, col>> : col \in Range(x.cols)} :
                               x \in Called(c.constraints, n)})
           Rows(f) ==
               {[table |-> f.table, name |-> f.name, col |-> at[1], pos |-> at[2],
                 refTable |-> use[1], refCol |-> use[2], rules |-> g.rules] :
                at \in Cols(f.name), use \in Used(f.name), g \in Called(c.fks, f.name)}
<1>1. PostgreSQLForeignKeys(c) = UNION {Rows(f) : f \in c.fks}
  BY DEF PostgreSQLForeignKeys
<1>2. ASSUME NEW f \in c.fks
      PROVE  /\ Called(c.fks, f.name) = {f} /\ Called(c.constraints, f.name) = {}
             /\ Called(KeyConstraints(c), f.name) = {f}
             /\ DOMAIN f.cols = {1} /\ DOMAIN f.refCols = {1}
  <2>1. Called(c.fks, f.name) = {f} /\ Called(c.constraints, f.name) = {}
    BY DEF Unambiguous, Called
  <2>2. Called(KeyConstraints(c), f.name) = {f}
    BY <2>1 DEF KeyConstraints, Called
  <2>3. Len(f.cols) = 1
    BY DEF Unambiguous
  <2>4. QED
    BY <2>1, <2>2, <2>3, ListFacts DEF GoodKey
<1>3. ASSUME NEW f \in c.fks
      PROVE  Rows(f) = IF f.refSchema = c.schema THEN ForeignKeyRows(f) ELSE {}
  <2>1. Cols(f.name) = {<<f.cols[1], 1>>}
    BY <1>2
  <2>2. Used(f.name) = IF f.refSchema = c.schema THEN {<<f.refTable, f.refCols[1]>>} ELSE {}
    <3> DEFINE Onto == {x \in Called(c.fks, f.name) : x.refSchema = c.schema}
               Uses(x) == {<<x.refTable, col>> : col \in Range(x.refCols)}
    <3>1. Used(f.name) = UNION {Uses(x) : x \in Onto}
      BY <1>2
    <3>2. Onto = IF f.refSchema = c.schema THEN {f} ELSE {}
      BY <1>2
    <3>3. Uses(f) = {<<f.refTable, f.refCols[1]>>}
      <4>1. Range(f.refCols) = {f.refCols[1]}
        BY <1>2 DEF Range
      <4>2. QED
        BY <4>1
    <3> HIDE DEF Onto, Uses, Used
    <3>4. UNION {Uses(x) : x \in Onto} = IF f.refSchema = c.schema THEN Uses(f) ELSE {}
      BY <3>2
    <3>5. QED
      BY <3>1, <3>3, <3>4
  <2> HIDE DEF Cols, Used
  <2>3. Rows(f) =
            {[table |-> f.table, name |-> f.name, col |-> at[1], pos |-> at[2],
              refTable |-> use[1], refCol |-> use[2], rules |-> g.rules] :
             at \in {<<f.cols[1], 1>>}, use \in Used(f.name), g \in {f}}
    BY <1>2, <2>1
  <2>4. ForeignKeyRows(f) =
            {[table |-> f.table, name |-> f.name, col |-> f.cols[1], pos |-> 1,
              refTable |-> f.refTable, refCol |-> f.refCols[1], rules |-> f.rules]}
    BY <1>2 DEF ForeignKeyRows
  <2> HIDE DEF Rows
  <2>5. CASE f.refSchema = c.schema
    BY <2>2, <2>3, <2>4, <2>5
  <2>6. CASE f.refSchema # c.schema
    BY <2>2, <2>3, <2>6
  <2>7. QED
    BY <2>5, <2>6
<1> HIDE DEF Rows
<1>4. UNION {Rows(f) : f \in c.fks} = UNION {ForeignKeyRows(f) : f \in KeysListed(c)}
  BY <1>3 DEF KeysListed, KeyListed
<1>5. QED
  BY <1>1, <1>4 DEF KeyAnswer

\* What is seen of a foreign key.
Told(f) == IF driver = "oracle" THEN [f EXCEPT !.rules = <<@[1], "NO ACTION">>] ELSE f

\* Oracle's answer is the rows of its keys onto tables of the user, none of which
\* has a rule for updates, where the others meet no key here.
LEMMA OracleForeignKeysAre ==
    ASSUME NEW c, driver = "oracle", Unambiguous(c)
    PROVE  OracleForeignKeys(c) = KeyAnswer({Told(f) : f \in KeysListed(c)})
<1> DEFINE Met(f, k) ==
               {[table |-> f.table, name |-> f.name, col |-> f.cols[i], pos |-> i,
                 refTable |-> k.table, refCol |-> k.cols[i],
                 rules |-> <<f.rules[1], "NO ACTION">>] :
                i \in DOMAIN f.cols \cap DOMAIN k.cols}
           Rows(f) ==
               IF f.refSchema = c.schema
               THEN ForeignKeyRows([f EXCEPT !.rules = <<@[1], "NO ACTION">>])
               ELSE UNION {Met(f, k) : k \in Called(KeyConstraints(c), f.refKey)}
<1>1. OracleForeignKeys(c) = UNION {Rows(f) : f \in c.fks}
  BY DEF OracleForeignKeys
<1> HIDE DEF Met
<1>2. ASSUME NEW f \in c.fks, f.refSchema # c.schema
      PROVE  Rows(f) = {}
  <2>1. Called(KeyConstraints(c), f.refKey) = {}
    BY <1>2 DEF Unambiguous, Called
  <2>2. QED
    BY <1>2, <2>1
<1>3. \A f \in c.fks : f.refSchema = c.schema => Rows(f) = ForeignKeyRows(Told(f))
  BY DEF Told
<1> HIDE DEF Rows
<1>4. UNION {Rows(f) : f \in c.fks} = UNION {ForeignKeyRows(Told(f)) : f \in KeysListed(c)}
  BY <1>2, <1>3 DEF KeysListed, KeyListed
<1>5. QED
  BY <1>1, <1>4 DEF KeyAnswer

----------------------------------------------------------------------------
(* Well-formed catalogs, and what each query answers of one. *)

Five == {"mysql", "postgres", "sqlite", "mssql", "oracle"}

\* What WellFormed says, in the terms of the lemmas.
LEMMA WellFormedSays ==
    ASSUME NEW c, WellFormed(driver, c)
    PROVE  /\ Distinguished(c.tables) /\ Distinguished(c.views)
           /\ \A t \in c.tables, v \in c.views : t.name # v.name
           /\ \A t \in c.tables : GoodTable(t)
           /\ \A v \in c.views : IsList(v.cols) /\ Distinguished(Range(v.cols))
           /\ \A v \in c.views : v.mat \in BOOLEAN /\ (v.mat => driver \notin {"mysql", "sqlite"})
           /\ \A t \in c.tables \cup c.views : t.cols = << >> => driver = "postgres"
<1>1. /\ Distinguished(c.tables) /\ Distinguished(c.views)
      /\ \A t \in c.tables, v \in c.views : t.name # v.name
  BY DEF WellFormed, Distinguished
<1>2. \A t \in c.tables \cup c.views :
          /\ IsList(t.cols) /\ Distinguished(Range(t.cols))
          /\ t.cols = << >> => driver = "postgres"
  BY DEF WellFormed, Distinguished, IsList
<1>3. \A t \in c.tables : GoodTable(t)
  BY <1>2 DEF WellFormed, IsList, GoodTable
<1>4. \A v \in c.views : v.mat \in BOOLEAN /\ (v.mat => driver \notin {"mysql", "sqlite"})
  BY DEF WellFormed
<1>5. QED
  BY <1>1, <1>2, <1>3, <1>4

\* What the columns are read of.
Listed(c) ==
    c.tables \cup CASE driver = "postgres" -> AsTables({v \in c.views : ~ v.mat})
                    [] driver \in {"mssql", "oracle"} -> AsTables(c.views)
                    [] OTHER -> {}

\* The relations of a catalog have names and columns of their own.
LEMMA ListedIs ==
    ASSUME NEW c, WellFormed(driver, c)
    PROVE  /\ Distinguished(Listed(c)) /\ \A t \in Listed(c) : GoodTable(t)
           /\ Relations(c) = {t \in Listed(c) : t.cols # << >>}
           /\ c.tables \subseteq Listed(c)
           /\ \A t \in Listed(c) : t \in c.tables \/ \E v \in c.views :
                  /\ t.name = v.name /\ t.cols = v.cols
                  /\ driver = "postgres" => ~ v.mat
           /\ driver \in {"mssql", "oracle"} =>
                  \A v \in c.views : \E t \in Listed(c) : t.name = v.name /\ t.cols = v.cols
<1> DEFINE V == CASE driver = "postgres" -> {v \in c.views : ~ v.mat}
                  [] driver \in {"mssql", "oracle"} -> c.views
                  [] OTHER -> {}
<1>1. Listed(c) = c.tables \cup AsTables(V)
  BY DEF Listed, AsTables
<1>2. V \subseteq c.views
  OBVIOUS
<1>3. \A v \in V : driver = "postgres" => ~ v.mat
  OBVIOUS
<1>4. driver \in {"mssql", "oracle"} => V = c.views
  OBVIOUS
<1> HIDE DEF V
<1>5. \A t \in AsTables(V) : \E v \in V : t = [name |-> v.name, cols |-> v.cols, key |-> << >>]
  BY DEF AsTables
<1>6. \A v \in V : [name |-> v.name, cols |-> v.cols, key |-> << >>] \in AsTables(V)
  BY DEF AsTables
<1>7. Distinguished(Listed(c))
  BY <1>1, <1>2, <1>5, WellFormedSays DEF Distinguished
<1>8. \A t \in Listed(c) : GoodTable(t)
  BY <1>1, <1>2, <1>5, WellFormedSays, EmptyList DEF GoodTable
<1>9. Relations(c) = {t \in Listed(c) : t.cols # << >>}
  BY DEF Relations, Listed
<1>10. \A t \in Listed(c) : t \in c.tables \/ \E v \in c.views :
                  /\ t.name = v.name /\ t.cols = v.cols
                  /\ driver = "postgres" => ~ v.mat
  BY <1>1, <1>2, <1>3, <1>5
<1>11. driver \in {"mssql", "oracle"} =>
          \A v \in c.views : \E t \in Listed(c) : t.name = v.name /\ t.cols = v.cols
  <2> SUFFICES ASSUME driver \in {"mssql", "oracle"}, NEW v \in c.views
               PROVE  \E t \in Listed(c) : t.name = v.name /\ t.cols = v.cols
    OBVIOUS
  <2>1. [name |-> v.name, cols |-> v.cols, key |-> << >>] \in Listed(c)
    BY <1>1, <1>4, <1>6
  <2>2. QED
    BY <2>1
<1>12. QED
  BY <1>1, <1>7, <1>8, <1>9, <1>10, <1>11

\* The answer of the query of the columns.
LEMMA ColumnAnswerIs ==
    ASSUME NEW c
    PROVE  /\ driver = "mysql" => MySQLColumns(c) = ColumnRows(Listed(c))
           /\ driver = "postgres" => PostgreSQLColumns(c) = ColumnRows(Listed(c))
           /\ driver = "mssql" => MSSQLColumns(c) = ColumnRows(Listed(c))
           /\ driver = "oracle" => OracleColumns(c) = ColumnRows(Listed(c))
<1>1. driver = "mysql" => Listed(c) = c.tables
  BY DEF Listed
<1>2. driver = "postgres" => Listed(c) = c.tables \cup AsTables({v \in c.views : ~ v.mat})
  BY DEF Listed
<1>3. driver \in {"mssql", "oracle"} => Listed(c) = c.tables \cup AsTables(c.views)
  BY DEF Listed
<1>4. QED
  BY <1>1, <1>2, <1>3 DEF MySQLColumns, PostgreSQLColumns, MSSQLColumns, OracleColumns

\* A table of the driver and the one that stands for it.
Bones(t) == [cols |-> ColumnsByName(t), key |-> t.key, indexes |-> NoParts, fks |-> NoParts]

\* What LoadColumns makes of a catalog: its relations, without the ignored ones.
LEMMA LoadedColumnsAre ==
    ASSUME NEW c, WellFormed(driver, c),
           NEW new, new = ScanColumns(ColumnRows(Listed(c)))
    PROVE  /\ \A n \in DOMAIN new : ~ Skipped(IgnoreTables, n)
           /\ \A n \in DOMAIN new : \E t \in Relations(c) : t.name = n
           /\ \A t \in Relations(c) : ~ Skipped(IgnoreTables, t.name) => t.name \in DOMAIN new
           /\ \A t \in Relations(c) : t.name \in DOMAIN new => new[t.name] = Bones(t)
<1>1. Distinguished(Listed(c)) /\ \A t \in Listed(c) : GoodTable(t)
  BY ListedIs
<1>2. Relations(c) = {t \in Listed(c) : t.cols # << >>}
  BY ListedIs
<1>3. DOMAIN new = {t.name : t \in {x \in Listed(c) : x.cols # << >> /\ ~ Skipped(IgnoreTables, x.name)}}
  BY <1>1, ScanColumnsIs
<1>4. \A t \in Listed(c) : t.name \in DOMAIN new => new[t.name] = Bones(t)
  BY <1>1, ScanColumnsIs DEF Bones
<1>5. QED
  BY <1>2, <1>3, <1>4

\* What PRAGMA table_info gives of a table that is there, and of one that is not.
LEMMA SqliteColumnsAre ==
    ASSUME NEW c, WellFormed(driver, c), driver = "sqlite"
    PROVE  /\ Relations(c) = c.tables
           /\ \A t \in c.tables : ListSqliteColumns(c, t.name) = Bones(t)
           /\ \A n : n \notin {t.name : t \in c.tables} =>
                  ListSqliteColumns(c, n)
                      = [cols |-> << >>, key |-> << >>, indexes |-> NoParts, fks |-> NoParts]
<1>1. Listed(c) = c.tables
  BY DEF Listed
<1>2. Relations(c) = c.tables
  <2>1. \A t \in c.tables : t.cols # << >>
    BY WellFormedSays
  <2>2. QED
    BY <1>1, <2>1, ListedIs
<1>3. Distinguished(c.tables) /\ \A t \in c.tables : GoodTable(t)
  BY WellFormedSays
<1>4. \A t \in c.tables : ListSqliteColumns(c, t.name) = Bones(t)
  BY <1>3, RowsOfRelation, TableIs DEF ListSqliteColumns, Bones
<1>5. ASSUME NEW n, n \notin {t.name : t \in c.tables}
      PROVE  ListSqliteColumns(c, n)
                 = [cols |-> << >>, key |-> << >>, indexes |-> NoParts, fks |-> NoParts]
  BY <1>5, RowsOfNothing, TableOfNothing DEF ListSqliteColumns
<1>6. QED
  BY <1>2, <1>4, <1>5

\* The indexes of a well-formed catalog have lists of columns and names of their own.
LEMMA IndexesAreGood ==
    ASSUME NEW c, WellFormed(driver, c)
    PROVE  /\ GoodIndexes(c)
           /\ driver = "sqlite" => Distinguished(c.indexes)
BY DEF WellFormed, GoodIndexes, GoodIndex, IsList, Distinguished

\* An index that is reported belongs to a relation of the catalog, or in
\* PostgreSQL to a materialized view, which no relation is named like.
LEMMA IndexAtHome ==
    ASSUME NEW c, WellFormed(driver, c), driver \in Five,
           NEW i \in c.indexes, Reported(i) # << >>
    PROVE  \/ \E t \in Relations(c) : t.name = i.table
           \/ /\ driver = "postgres" /\ \E v \in c.views : v.mat /\ v.name = i.table
              /\ \A t \in Relations(c) : t.name # i.table
<1>1. PICK t \in c.tables \cup {v \in c.views : v.mat} :
          /\ t.name = i.table
          /\ Range(i.cols) \cup Range(i.included) \subseteq {x.name : x \in Range(t.cols)} \cup {Null}
  BY DEF WellFormed
<1>2. CASE t \in c.tables
  <2>1. t.cols # << >>
    <3>1. CASE driver # "postgres"
      BY <1>2, <3>1, WellFormedSays
    <3>2. CASE driver = "postgres"
      <4> DEFINE all == i.cols \o i.included
                 kept == {k \in DOMAIN all : all[k] # Null}
      <4>1. Reported(i) = Picked(all, kept)
        BY <3>2 DEF Reported
      <4>2. IsList(i.cols) /\ IsList(i.included)
        BY IndexesAreGood DEF GoodIndexes, GoodIndex
      <4>3. /\ DOMAIN all \subseteq Nat /\ IsFiniteSet(DOMAIN all)
            /\ \A k \in DOMAIN all : all[k] \in Range(i.cols) \cup Range(i.included)
        <5>1. \A T : i.cols \in Seq(T) /\ i.included \in Seq(T) => all \in Seq(T)
          OBVIOUS
        <5>2. all \in Seq(Range(i.cols) \cup Range(i.included))
          <6>1. i.cols \in Seq(Range(i.cols) \cup Range(i.included))
                /\ i.included \in Seq(Range(i.cols) \cup Range(i.included))
            BY <4>2 DEF IsList
          <6>2. QED
            BY <5>1, <6>1
        <5> HIDE DEF all
        <5>3. Len(all) \in Nat /\ DOMAIN all = 1 .. Len(all)
          BY <5>2
        <5>4. \A k \in 1 .. Len(all) : all[k] \in Range(i.cols) \cup Range(i.included)
          BY <5>2, <5>3
        <5>5. IsFiniteSet(1 .. Len(all)) /\ 1 .. Len(all) \subseteq Nat
          BY <5>3, FS_Interval
        <5>6. QED
          BY <5>3, <5>4, <5>5
      <4> HIDE DEF all
      <4>4. IsFiniteSet(kept)
        BY <4>3, FS_Subset
      <4>5. kept # {}
        BY <4>1, <4>4, PickedNothing
      <4>6. PICK k \in DOMAIN all : all[k] # Null
        BY <4>5
      <4>7. all[k] \in {x.name : x \in Range(t.cols)}
        BY <1>1, <4>3, <4>6
      <4>8. QED
        BY <4>7, EmptyList
    <3>3. QED
      BY <3>1, <3>2
  <2>2. t \in Relations(c)
    BY <1>2, <2>1, ListedIs
  <2>3. QED
    BY <1>1, <2>2
<1>3. CASE t \in c.views /\ t.mat
  <2>1. driver \notin {"mysql", "sqlite"}
    BY <1>3, WellFormedSays
  <2>2. CASE driver = "postgres"
    <3>1. \A u \in Relations(c) : u.name # i.table
      BY <1>1, <1>3, <2>2, ListedIs, WellFormedSays DEF Distinguished
    <3>2. QED
      BY <1>1, <1>3, <2>2, <3>1
  <2>3. CASE driver \in {"mssql", "oracle"}
    <3>1. PICK u \in Listed(c) : u.name = t.name /\ u.cols = t.cols
      BY <1>3, <2>3, ListedIs
    <3>2. u.cols # << >>
      BY <1>3, <2>3, <3>1, WellFormedSays
    <3>3. QED
      BY <1>1, <3>1, <3>2, ListedIs
  <2>4. QED
    BY <2>1, <2>2, <2>3 DEF Five
<1>4. QED
  BY <1>1, <1>2, <1>3

\* The table of a foreign key is a relation with columns.
LEMMA KeyAtHome ==
    ASSUME NEW c, WellFormed(driver, c), NEW f \in c.fks
    PROVE  \E t \in Relations(c) : t.name = f.table
<1>1. PICK t \in c.tables : t.name = f.table /\ Range(f.cols) \subseteq {x.name : x \in Range(t.cols)}
  BY DEF WellFormed
<1>2. IsList(f.cols) /\ f.cols # << >>
  BY DEF WellFormed, IsList
<1>3. Range(f.cols) # {}
  BY <1>2, ListFacts
<1>4. t.cols # << >>
  BY <1>1, <1>3, EmptyList
<1>5. QED
  BY <1>1, <1>4, ListedIs

\* The foreign keys as the driver's query tells them.
ToldKeys(c) == {Told(f) : f \in KeysListed(c)}

\* A foreign key as it is told differs only in Oracle, and there in its rules.
LEMMA ToldIs ==
    ASSUME NEW c, WellFormed(driver, c), NEW f \in c.fks
    PROVE  /\ Told(f).table = f.table /\ Told(f).name = f.name /\ Told(f).cols = f.cols
           /\ Told(f).refTable = f.refTable /\ Told(f).refCols = f.refCols
           /\ driver # "oracle" => Told(f).rules = f.rules
           /\ driver = "oracle" => Told(f).rules = <<f.rules[1], "NO ACTION">>
BY DEF WellFormed, Told

\* The foreign keys of an unambiguous catalog have names of their own.
LEMMA KeysAreGood ==
    ASSUME NEW c, WellFormed(driver, c), Unambiguous(c)
    PROVE  GoodKeys(ToldKeys(c))
<1>1. \A f \in c.fks : GoodKey(f) /\ (driver = "postgres" => Len(f.cols) = 1)
  BY DEF WellFormed, GoodKey, IsList, Unambiguous
<1>2. \A f, g \in c.fks : f.name = g.name /\ f.table = g.table => f = g
  BY DEF WellFormed
<1>3. \A f \in c.fks :
          /\ Told(f).table = f.table /\ Told(f).name = f.name
          /\ Told(f).cols = f.cols /\ Told(f).refCols = f.refCols
  BY ToldIs
<1>4. \A f \in c.fks : GoodKey(Told(f)) /\ (driver = "postgres" => Len(Told(f).cols) = 1)
  BY <1>1, <1>3 DEF GoodKey
<1>5. \A f, g \in c.fks : Told(f).name = Told(g).name /\ Told(f).table = Told(g).table => f = g
  BY <1>2, <1>3
<1>6. QED
  BY <1>4, <1>5 DEF GoodKeys, ToldKeys, KeysListed

\* The answer to each driver's query of the foreign keys is the rows of each key.
LEMMA KeyAnswerIs ==
    ASSUME NEW c, WellFormed(driver, c), Unambiguous(c)
    PROVE  /\ driver = "mysql" => MySQLForeignKeys(c) = KeyAnswer(ToldKeys(c))
           /\ driver = "postgres" => PostgreSQLForeignKeys(c) = KeyAnswer(ToldKeys(c))
           /\ driver = "mssql" => MSSQLForeignKeys(c) = KeyAnswer(ToldKeys(c))
           /\ driver = "oracle" => OracleForeignKeys(c) = KeyAnswer(ToldKeys(c))
<1>1. driver # "oracle" => ToldKeys(c) = KeysListed(c)
  BY DEF ToldKeys, Told
<1>2. driver = "mysql" => KeysListed(c) = c.fks
  BY DEF KeysListed, KeyListed
<1>3. driver = "mssql" => KeysListed(c) = {f \in c.fks : f.refKey # Null}
  BY DEF KeysListed, KeyListed
<1>4. driver = "postgres" => PostgreSQLForeignKeys(c) = KeyAnswer(KeysListed(c))
  <2>1. \A f \in c.fks : GoodKey(f)
    BY DEF WellFormed, GoodKey, IsList
  <2>2. QED
    BY <2>1, PostgreSQLForeignKeysAre
<1>5. driver = "oracle" => OracleForeignKeys(c) = KeyAnswer(ToldKeys(c))
  BY OracleForeignKeysAre DEF ToldKeys
<1>6. QED
  BY <1>1, <1>2, <1>3, <1>4, <1>5 DEF MySQLForeignKeys, MSSQLForeignKeys, KeyAnswer

\* PRAGMA foreign_key_list gives the rows of one table's keys.
LEMMA SqliteKeyAnswerIs ==
    ASSUME NEW c, WellFormed(driver, c), driver = "sqlite", NEW t
    PROVE  SQLiteForeignKeyList(c, t) = RowsOfTable(KeyAnswer(ToldKeys(c)), t)
<1>1. ToldKeys(c) = c.fks
  BY DEF ToldKeys, Told, KeysListed, KeyListed
<1>2. \A f \in c.fks : \A r \in ForeignKeyRows(f) : r.table = f.table
  BY DEF ForeignKeyRows
<1>3. QED
  BY <1>1, <1>2 DEF SQLiteForeignKeyList, KeyAnswer, RowsOfTable

----------------------------------------------------------------------------
(* The parts of a catalog. *)

Stays(ignore, objects) == {x \in objects : ~ Skipped(ignore, x.name)}

OwnText(c, v) ==
    CASE driver = "mysql" -> <<IF v.def[1] = c.schema THEN "" ELSE v.def[1], v.def[2]>>
      [] driver = "postgres" -> Trimmed(v.def)
      [] OTHER -> AfterAs(v.def)

TriggerText(t) ==
    CASE driver = "mysql" -> t.def
      [] driver = "postgres" -> Trimmed(<<t.def, t.table>>)
      [] OTHER -> <<t.def, t.table>>

RoutineOf(r) ==
    IF driver = "mysql" THEN <<"routine", r.name, r.kind, r.def, r.params>>
    ELSE <<"routine", r.name, r.kind, Trimmed(<<r.def, r.params>>), << >>>>

KeyPart(f) ==
    <<"fk", f.table, f.name, f.cols, f.refTable, f.refCols,
      IF driver = "oracle" THEN <<f.rules[1], "NO ACTION">> ELSE f.rules>>

IndexPart(i) == <<"index", i.table, i.name, Reported(i), i.unique>>

\* What is a part of a catalog.
LEMMA TablePartsHold ==
    ASSUME NEW c
    PROVE  \A t \in Stays(IgnoreTables, Relations(c)) :
               /\ AsTuple(t) \in Parts(c)
               /\ \A i \in c.indexes :
                      i.table = t.name /\ IndexListed(c, i) => IndexPart(i) \in Parts(c)
               /\ \A f \in c.fks :
                      f.table = t.name /\ KeyListed(c, f) => KeyPart(f) \in Parts(c)
<1> DEFINE tables == {t \in Relations(c) : ~ Skipped(IgnoreTables, t.name)}
           names == {t.name : t \in tables}
           T == {AsTuple(t) : t \in tables}
           I == {IndexPart(i) : i \in {x \in c.indexes : x.table \in names /\ IndexListed(c, x)}}
           K == {KeyPart(f) : f \in {x \in c.fks : x.table \in names /\ KeyListed(c, x)}}
<1>1. PartsOfTables(c) = T \cup I \cup K
  BY DEF PartsOfTables, IndexPart, KeyPart
<1>2. \A t \in tables : t.name \in names
  OBVIOUS
<1> HIDE DEF names
<1>3. ASSUME NEW t \in tables
      PROVE  /\ AsTuple(t) \in T
             /\ \A i \in c.indexes : i.table = t.name /\ IndexListed(c, i) => IndexPart(i) \in I
             /\ \A f \in c.fks : f.table = t.name /\ KeyListed(c, f) => KeyPart(f) \in K
  BY <1>2
<1>4. QED
  BY <1>1, <1>3 DEF Stays, Parts

\* Views, triggers, routines and sequences that are not ignored are parts.
LEMMA OtherPartsHold ==
    ASSUME NEW c
    PROVE  /\ driver \in {"mysql", "postgres", "sqlite"} =>
                  /\ \A v \in Stays(IgnoreViews, c.views) :
                         <<"view", v.name, OwnText(c, v), v.mat>> \in Parts(c)
                  /\ \A t \in Stays(IgnoreTriggers, c.triggers) :
                         <<"trigger", t.name, TriggerText(t), t.table>> \in Parts(c)
           /\ driver \in {"mysql", "postgres"} =>
                  \A r \in Stays(IgnoreRoutines, c.routines) :
                      RoutineOf(r) \in Parts(c)
           /\ driver = "postgres" =>
                  \A s \in Stays(IgnoreSequences, c.sequences) :
                      <<"sequence", s.name, s.def>> \in Parts(c)
BY DEF Parts, PartsOutsideTables, OwnText, TriggerText, RoutineOf, Stays

\* What each kind of part is made of.
LEMMA TablePartsAre ==
    ASSUME NEW c, NEW p \in PartsOfTables(c)
    PROVE  \E t \in Stays(IgnoreTables, Relations(c)) :
               \/ p = AsTuple(t)
               \/ \E i \in c.indexes : /\ i.table = t.name /\ IndexListed(c, i)
                                       /\ p = IndexPart(i)
               \/ \E f \in c.fks : f.table = t.name /\ KeyListed(c, f) /\ p = KeyPart(f)
<1> DEFINE tables == {t \in Relations(c) : ~ Skipped(IgnoreTables, t.name)}
           names == {t.name : t \in tables}
           T == {AsTuple(t) : t \in tables}
           I == {IndexPart(i) : i \in {x \in c.indexes : x.table \in names /\ IndexListed(c, x)}}
           K == {KeyPart(f) : f \in {x \in c.fks : x.table \in names /\ KeyListed(c, x)}}
<1>1. PartsOfTables(c) = T \cup I \cup K
  BY DEF PartsOfTables, IndexPart, KeyPart
<1>2. \A n \in names : \E t \in tables : t.name = n
  OBVIOUS
<1>3. tables = Stays(IgnoreTables, Relations(c))
  BY DEF Stays
<1> HIDE DEF names, tables
<1>4. CASE p \in T
  BY <1>3, <1>4
<1>5. CASE p \in I
  BY <1>2, <1>3, <1>5
<1>6. CASE p \in K
  BY <1>2, <1>3, <1>6
<1>7. QED
  BY <1>1, <1>4, <1>5, <1>6

\* The parts outside tables are those and no other.
LEMMA OtherPartsAre ==
    ASSUME NEW c, NEW p \in PartsOutsideTables(c)
    PROVE  \/ /\ driver \in {"mysql", "postgres", "sqlite"}
              /\ \/ \E v \in Stays(IgnoreViews, c.views) : p = <<"view", v.name, OwnText(c, v), v.mat>>
                 \/ \E t \in Stays(IgnoreTriggers, c.triggers) :
                        p = <<"trigger", t.name, TriggerText(t), t.table>>
           \/ /\ driver \in {"mysql", "postgres"}
              /\ \E r \in Stays(IgnoreRoutines, c.routines) : p = RoutineOf(r)
           \/ /\ driver = "postgres"
              /\ \E s \in Stays(IgnoreSequences, c.sequences) : p = <<"sequence", s.name, s.def>>
BY DEF PartsOutsideTables, OwnText, TriggerText, RoutineOf, Stays

----------------------------------------------------------------------------
(* Views, triggers and sequences: their loaders and the parts. *)

ViewName(n) == IF driver = "postgres" THEN n[2] ELSE n
ViewPart(n, x) == <<"view", ViewName(n), x.def, x.mat>>
TriggerPart(n, x) == <<"trigger", n, x.def, x.table>>
SequencePart(n, x) == <<"sequence", n, x.def>>

\* MySQL and SQLite load the views that are not ignored, under their names.
LEMMA PlainViewsAre ==
    ASSUME NEW c, WellFormed(driver, c), NEW views,
           \/ driver = "mysql" /\ views \in MySQLViews(c)
           \/ driver = "sqlite" /\ views \in SQLiteViews(c)
    PROVE  /\ \A n \in DOMAIN views : ViewPart(n, views[n]) \in Parts(c)
           /\ \A v \in Stays(IgnoreViews, c.views) : v.name \in DOMAIN views
<1>1. \A v \in c.views : v.mat = FALSE
  BY WellFormedSays
<1>2. \A v \in Stays(IgnoreViews, c.views) : v.name \in DOMAIN views
  BY DEF MySQLViews, SQLiteViews, ByName, Named, Stays
<1>3. \A n \in DOMAIN views : \E v \in Stays(IgnoreViews, c.views) :
          /\ v.name = n
          /\ views[n].def = IF driver = "mysql" THEN StripMySQLSchemaPrefix(v.def, c.schema)
                            ELSE AfterAs(v.def)
          /\ views[n].mat = FALSE
  <2>1. CASE driver = "mysql" /\ views \in MySQLViews(c)
    <3>1. PICK f \in [Named(c.views, IgnoreViews) -> c.views] :
              /\ \A n \in DOMAIN f : f[n].name = n
              /\ views = [n \in DOMAIN f |-> View(StripMySQLSchemaPrefix(f[n].def, c.schema), FALSE)]
      BY <2>1 DEF MySQLViews, ByName
    <3>2. \A n \in DOMAIN f : f[n] \in Stays(IgnoreViews, c.views)
      BY <3>1 DEF Named, Stays
    <3>3. QED
      BY <2>1, <3>1, <3>2 DEF View
  <2>2. CASE driver = "sqlite" /\ views \in SQLiteViews(c)
    <3>1. PICK f \in [Named(c.views, IgnoreViews) -> c.views] :
              /\ \A n \in DOMAIN f : f[n].name = n
              /\ views = [n \in DOMAIN f |-> View(AfterAs(f[n].def), FALSE)]
      BY <2>2 DEF SQLiteViews, ByName
    <3>2. \A n \in DOMAIN f : f[n] \in Stays(IgnoreViews, c.views)
      BY <3>1 DEF Named, Stays
    <3>3. QED
      BY <2>2, <3>1, <3>2 DEF View
  <2>3. QED
    BY <2>1, <2>2
<1>4. driver = "mysql" => \A v \in c.views : OwnText(c, v) = StripMySQLSchemaPrefix(v.def, c.schema)
  BY DEF WellFormed, OwnText, StripMySQLSchemaPrefix
<1>5. driver = "sqlite" => \A v \in c.views : OwnText(c, v) = AfterAs(v.def)
  BY DEF OwnText
<1>6. ASSUME NEW n \in DOMAIN views
      PROVE  ViewPart(n, views[n]) \in Parts(c)
  <2>1. PICK v \in Stays(IgnoreViews, c.views) :
          /\ v.name = n
          /\ views[n].def = IF driver = "mysql" THEN StripMySQLSchemaPrefix(v.def, c.schema)
                            ELSE AfterAs(v.def)
          /\ views[n].mat = FALSE
    BY <1>3
  <2>2. v \in c.views
    BY DEF Stays
  <2>3. views[n].def = OwnText(c, v) /\ views[n].mat = v.mat
    BY <1>1, <1>4, <1>5, <2>1, <2>2
  <2>4. ViewPart(n, views[n]) = <<"view", v.name, OwnText(c, v), v.mat>>
    BY <2>1, <2>3 DEF ViewPart, ViewName
  <2>5. QED
    BY <2>4, OtherPartsHold
<1>7. QED
  BY <1>2, <1>6

\* PostgreSQL loads the views of a kind, under their qualified names.
LEMMA PostgreSQLViewsAre ==
    ASSUME NEW c, driver = "postgres", NEW mat, NEW views \in PostgreSQLViews(c, mat)
    PROVE  /\ \A n \in DOMAIN views : n = <<c.schema, n[2]>> /\ ViewPart(n, views[n]) \in Parts(c)
           /\ \A v \in Stays(IgnoreViews, c.views) : v.mat = mat => <<c.schema, v.name>> \in DOMAIN views
<1> DEFINE rows == {v \in c.views : v.mat = mat}
           All == {[n \in DOMAIN h |-> View(Trimmed(h[n].def), mat)] :
                      h \in {f \in [Named(rows, IgnoreViews) -> rows] : \A n \in DOMAIN f : f[n].name = n}}
<1>a. PostgreSQLViews(c, mat) = {[q \in {<<c.schema, n>> : n \in DOMAIN g} |-> g[q[2]]] : g \in All}
  BY DEF PostgreSQLViews, ByName
<1>b. PICK g \in All : views = [q \in {<<c.schema, n>> : n \in DOMAIN g} |-> g[q[2]]]
  BY <1>a
<1>1. PICK f \in [Named(rows, IgnoreViews) -> rows] :
          (\A n \in DOMAIN f : f[n].name = n) /\ g = [n \in DOMAIN f |-> View(Trimmed(f[n].def), mat)]
  BY <1>b
<1>c. DOMAIN g = DOMAIN f /\ \A n \in DOMAIN f : g[n] = View(Trimmed(f[n].def), mat)
  BY <1>1
<1>2. DOMAIN views = {<<c.schema, n>> : n \in DOMAIN f}
  BY <1>b, <1>c
<1>3. \A n \in DOMAIN f : views[<<c.schema, n>>] = View(Trimmed(f[n].def), mat)
  <2>1. ASSUME NEW n \in DOMAIN f PROVE views[<<c.schema, n>>] = g[n]
    <3>1. <<c.schema, n>> \in {<<c.schema, m>> : m \in DOMAIN g}
      BY <1>c
    <3>2. <<c.schema, n>>[2] = n
      OBVIOUS
    <3>3. QED
      BY <1>b, <3>1, <3>2
  <2>2. QED
    BY <1>c, <2>1
<1>4. \A n \in DOMAIN f : f[n] \in Stays(IgnoreViews, c.views) /\ f[n].mat = mat
  BY <1>1 DEF Named, Stays
<1>5. \A v \in Stays(IgnoreViews, c.views) : v.mat = mat => v.name \in DOMAIN f
  BY <1>1 DEF Named, Stays
<1>6. ASSUME NEW q \in DOMAIN views
      PROVE  q = <<c.schema, q[2]>> /\ ViewPart(q, views[q]) \in Parts(c)
  <2>1. PICK n \in DOMAIN f : q = <<c.schema, n>>
    BY <1>2
  <2>2. q[2] = n
    BY <2>1
  <2>3. views[q].def = Trimmed(f[n].def) /\ views[q].mat = f[n].mat
    <3>1. views[q] = View(Trimmed(f[n].def), mat)
      BY <1>3, <2>1
    <3>2. QED
      BY <1>4, <3>1 DEF View
  <2>4. OwnText(c, f[n]) = Trimmed(f[n].def)
    BY DEF OwnText
  <2>5. ViewPart(q, views[q]) = <<"view", f[n].name, OwnText(c, f[n]), f[n].mat>>
    BY <1>1, <2>2, <2>3, <2>4 DEF ViewPart, ViewName
  <2>6. QED
    BY <1>4, <2>1, <2>2, <2>5, OtherPartsHold
<1>7. QED
  BY <1>2, <1>5, <1>6

\* LoadTriggers loads the triggers that are not ignored.
LEMMA TriggersAre ==
    ASSUME NEW c, NEW triggers,
           \/ driver = "mysql" /\ triggers \in MySQLTriggers(c)
           \/ driver = "postgres" /\ triggers \in PostgreSQLTriggers(c)
           \/ driver = "sqlite" /\ triggers \in SQLiteTriggers(c)
    PROVE  /\ \A n \in DOMAIN triggers : TriggerPart(n, triggers[n]) \in Parts(c)
           /\ \A t \in Stays(IgnoreTriggers, c.triggers) : t.name \in DOMAIN triggers
<1> DEFINE Value(t) == [table |-> t.table, def |-> TriggerText(t)]
<1>1. PICK f \in [Named(c.triggers, IgnoreTriggers) -> c.triggers] :
          /\ \A n \in DOMAIN f : f[n].name = n
          /\ triggers = [n \in DOMAIN f |-> Value(f[n])]
  <2>1. CASE driver = "mysql" /\ triggers \in MySQLTriggers(c)
    BY <2>1 DEF MySQLTriggers, ByName, Trigger, TriggerText
  <2>2. CASE driver = "postgres" /\ triggers \in PostgreSQLTriggers(c)
    BY <2>2 DEF PostgreSQLTriggers, ByName, TriggerText
  <2>3. CASE driver = "sqlite" /\ triggers \in SQLiteTriggers(c)
    BY <2>3 DEF SQLiteTriggers, ByName, TriggerText
  <2>4. QED
    BY <2>1, <2>2, <2>3
<1>2. DOMAIN triggers = DOMAIN f /\ \A n \in DOMAIN f : triggers[n] = Value(f[n])
  BY <1>1
<1>3. \A t : Value(t).def = TriggerText(t) /\ Value(t).table = t.table
  OBVIOUS
<1> HIDE DEF Value
<1>4. \A n \in DOMAIN f : f[n] \in Stays(IgnoreTriggers, c.triggers)
  BY <1>1 DEF Named, Stays
<1>5. \A t \in Stays(IgnoreTriggers, c.triggers) : t.name \in DOMAIN f
  BY <1>1 DEF Named, Stays
<1>6. ASSUME NEW n \in DOMAIN triggers
      PROVE  TriggerPart(n, triggers[n]) \in Parts(c)
  <2>1. TriggerPart(n, triggers[n]) = <<"trigger", f[n].name, TriggerText(f[n]), f[n].table>>
    BY <1>1, <1>2, <1>3 DEF TriggerPart
  <2>2. f[n] \in Stays(IgnoreTriggers, c.triggers) /\ triggers[n] = Value(f[n])
    BY <1>2, <1>4
  <2>3. QED
    BY <2>1, <2>2, OtherPartsHold
<1>7. QED
  BY <1>2, <1>5, <1>6

\* LoadSequences loads the sequences that are not ignored.
LEMMA SequencesAre ==
    ASSUME NEW c, driver = "postgres", NEW sequences \in PostgreSQLSequences(c)
    PROVE  /\ \A n \in DOMAIN sequences : SequencePart(n, sequences[n]) \in Parts(c)
           /\ \A s \in Stays(IgnoreSequences, c.sequences) : s.name \in DOMAIN sequences
<1>1. PICK f \in [Named(c.sequences, IgnoreSequences) -> c.sequences] :
          /\ \A n \in DOMAIN f : f[n].name = n
          /\ sequences = [n \in DOMAIN f |-> [def |-> f[n].def]]
  BY DEF PostgreSQLSequences, ByName
<1>2. \A n \in DOMAIN f : f[n] \in Stays(IgnoreSequences, c.sequences)
  BY <1>1 DEF Named, Stays
<1>3. \A s \in Stays(IgnoreSequences, c.sequences) : s.name \in DOMAIN f
  BY <1>1 DEF Named, Stays
<1>4. \A n \in DOMAIN f : SequencePart(n, sequences[n]) = <<"sequence", f[n].name, f[n].def>>
  BY <1>1 DEF SequencePart
<1>5. \A n \in DOMAIN f : SequencePart(n, sequences[n]) \in Parts(c)
  BY <1>2, <1>4, OtherPartsHold
<1>6. QED
  BY <1>1, <1>3, <1>5

RoutinePart(n, x) == <<"routine", n, x.kind, x.def, x.params>>

\* PostgreSQL loads routines whole: the definition holds the parameters.
LEMMA PostgreSQLRoutinesAre ==
    ASSUME NEW c, driver = "postgres", NEW routines \in PostgreSQLRoutines(c)
    PROVE  /\ \A n \in DOMAIN routines : RoutinePart(n, routines[n]) \in Parts(c)
           /\ \A r \in Stays(IgnoreRoutines, c.routines) : r.name \in DOMAIN routines
<1> DEFINE Value(r) == [kind |-> r.kind, def |-> Trimmed(<<r.def, r.params>>),
                        params |-> << >>]
<1>1. PICK f \in [Named(c.routines, IgnoreRoutines) -> c.routines] :
          /\ \A n \in DOMAIN f : f[n].name = n
          /\ routines = [n \in DOMAIN f |-> Value(f[n])]
  BY DEF PostgreSQLRoutines, ByName
<1>2. DOMAIN routines = DOMAIN f /\ \A n \in DOMAIN f : routines[n] = Value(f[n])
  BY <1>1
<1>3. \A r : /\ Value(r).def = Trimmed(<<r.def, r.params>>) /\ Value(r).params = << >>
             /\ Value(r).kind = r.kind
  OBVIOUS
<1> HIDE DEF Value
<1>4. \A n \in DOMAIN f : f[n] \in Stays(IgnoreRoutines, c.routines)
  BY <1>1 DEF Named, Stays
<1>5. \A r \in Stays(IgnoreRoutines, c.routines) : r.name \in DOMAIN f
  BY <1>1 DEF Named, Stays
<1>6. ASSUME NEW n \in DOMAIN routines
      PROVE  RoutinePart(n, routines[n]) \in Parts(c)
  <2>1. RoutinePart(n, routines[n]) = RoutineOf(f[n])
    BY <1>1, <1>2, <1>3 DEF RoutinePart, RoutineOf
  <2>2. f[n] \in Stays(IgnoreRoutines, c.routines) /\ routines[n] = Value(f[n])
    BY <1>2, <1>4
  <2>3. QED
    BY <2>1, <2>2, OtherPartsHold
<1>7. QED
  BY <1>2, <1>5, <1>6

\* MySQL's routines before their parameters are read.
Half(routines, catalogs) ==
    \A n \in DOMAIN routines : \E c \in catalogs : \E r \in Stays(IgnoreRoutines, c.routines) :
        r.name = n /\ routines[n] = [kind |-> r.kind, def |-> r.def, params |-> << >>]

\* MySQL's first query loads routines without their parameters.
LEMMA MySQLRoutinesAre ==
    ASSUME NEW c, NEW routines \in MySQLRoutines(c)
    PROVE  /\ Half(routines, {c})
           /\ \A r \in Stays(IgnoreRoutines, c.routines) : r.name \in DOMAIN routines
<1>1. PICK f \in [Named(c.routines, IgnoreRoutines) -> c.routines] :
          /\ \A n \in DOMAIN f : f[n].name = n
          /\ routines = [n \in DOMAIN f |-> [kind |-> f[n].kind, def |-> f[n].def, params |-> << >>]]
  BY DEF MySQLRoutines, ByName, Routine
<1>2. \A n \in DOMAIN f : f[n] \in Stays(IgnoreRoutines, c.routines)
  BY <1>1 DEF Named, Stays
<1>3. \A r \in Stays(IgnoreRoutines, c.routines) : r.name \in DOMAIN f
  BY <1>1 DEF Named, Stays
<1>4. QED
  BY <1>1, <1>2, <1>3 DEF Half

RowsNamed(c, n) == {r \in MySQLParameterRows(c) : r.name = n}

\* The parameters that the second query gives to a name.
LEMMA ParameterListIs ==
    ASSUME NEW c, WellFormed(driver, c), Unambiguous(c), NEW n,
           NEW q \in Orderings(RowsNamed(c, n))
    PROVE  /\ \A r \in c.routines : r.name = n => [i \in DOMAIN q |-> q[i].col] = r.params
           /\ n \notin {r.name : r \in c.routines} => [i \in DOMAIN q |-> q[i].col] = << >>
<1> DEFINE rows == RowsNamed(c, n)
           Of(r) == {[name |-> r.name, kind |-> r.kind, pos |-> k, col |-> r.params[k]] :
                        k \in DOMAIN r.params}
<1>1. MySQLParameterRows(c) = UNION {Of(r) : r \in c.routines}
  BY DEF MySQLParameterRows
<1>2. \A r \in c.routines : \A x \in Of(r) : x.name = r.name
  OBVIOUS
<1>3. ASSUME NEW r \in c.routines, r.name = n
      PROVE  [i \in DOMAIN q |-> q[i].col] = r.params
  <2>1. \A s \in c.routines : s.name = n => s = r
    BY <1>3 DEF Unambiguous
  <2>2. rows = Of(r)
    <3> HIDE DEF Of
    <3>1. QED
      BY <1>1, <1>2, <1>3, <2>1 DEF RowsNamed
  <2>3. IsList(r.params)
    BY DEF WellFormed, IsList
  <2>4. DOMAIN r.params \subseteq Nat /\ IsFiniteSet(DOMAIN r.params)
    BY <2>3, ListFacts
  <2>5. \A x \in Of(r) : x.pos \in DOMAIN r.params /\ x.col = r.params[x.pos]
    OBVIOUS
  <2>6. \A x, y \in Of(r) : x.pos = y.pos => x = y
    OBVIOUS
  <2>7. \A k \in DOMAIN r.params : \E x \in Of(r) : x.pos = k
    <3>1. SUFFICES ASSUME NEW k \in DOMAIN r.params PROVE \E x \in Of(r) : x.pos = k
      OBVIOUS
    <3>2. [name |-> r.name, kind |-> r.kind, pos |-> k, col |-> r.params[k]] \in Of(r)
      OBVIOUS
    <3>3. QED
      BY <3>2
  <2>8. Positions(Of(r)) = DOMAIN r.params
    <3> HIDE DEF Of
    <3>1. QED
      BY <2>5, <2>7 DEF Positions
  <2> HIDE DEF Of
  <2>9. IsFiniteSet(Of(r))
    <3> DEFINE g == [x \in Of(r) |-> x.pos]
    <3>1. g \in Injection(Of(r), DOMAIN r.params)
      BY <2>5, <2>6 DEF Injection, IsInjective
    <3> HIDE DEF g
    <3>2. QED
      BY <2>4, <3>1, FS_Injection
  <2>10. Placed(Of(r))
    BY <2>4, <2>5, <2>6, <2>9 DEF Placed
  <2>11. [i \in DOMAIN q |-> q[i].col] = Picked(r.params, DOMAIN r.params)
    BY <2>2, <2>5, <2>8, <2>10, ColumnsArePicked
  <2>12. Picked(r.params, DOMAIN r.params) = r.params
    BY <2>3, PickedAll DEF IsList
  <2>13. QED
    BY <2>11, <2>12
<1>4. ASSUME n \notin {r.name : r \in c.routines}
      PROVE  [i \in DOMAIN q |-> q[i].col] = << >>
  <2>1. rows = {}
    <3> HIDE DEF Of
    <3>1. QED
      BY <1>1, <1>2, <1>4 DEF RowsNamed
  <2>2. Placed({}) /\ Positions({}) = {}
    BY FS_EmptySet DEF Placed, Positions
  <2>3. [i \in DOMAIN q |-> q[i].col] = Picked(<< >>, {})
    BY <2>1, <2>2, ColumnsArePicked
  <2>4. Picked(<< >>, {}) = << >>
    BY FS_EmptySet, PickedNothing
  <2>5. QED
    BY <2>3, <2>4
<1>5. QED
  BY <1>3, <1>4

\* What the second query makes of the routines.
WithParameters(c, old, new) ==
    /\ DOMAIN new = DOMAIN old
    /\ \A n \in DOMAIN new :
           /\ new[n].kind = old[n].kind /\ new[n].def = old[n].def
           /\ \A r \in c.routines : r.name = n => new[n].params = r.params
           /\ n \notin {r.name : r \in c.routines} => new[n].params = << >>

\* MySQL's second query gives each routine on the map the parameters of its name.
LEMMA ParametersAre ==
    ASSUME NEW c, WellFormed(driver, c), Unambiguous(c), NEW routines,
           \A n \in DOMAIN routines : DOMAIN routines[n] = {"kind", "def", "params"},
           NEW new \in MySQLParameters(c, routines)
    PROVE  WithParameters(c, routines, new)
<1> DEFINE Lists(n) ==
               {[i \in DOMAIN q |-> q[i].col] : q \in Orderings(RowsNamed(c, n))}
<1>1. PICK f \in [DOMAIN routines -> UNION {Lists(n) : n \in DOMAIN routines}] :
          /\ \A n \in DOMAIN routines : f[n] \in Lists(n)
          /\ new = [n \in DOMAIN routines |-> [routines[n] EXCEPT !.params = f[n]]]
  BY DEF MySQLParameters, RowsNamed
<1>2. \A n \in DOMAIN routines :
          /\ new[n].kind = routines[n].kind /\ new[n].def = routines[n].def /\ new[n].params = f[n]
  BY <1>1
<1>3. ASSUME NEW n \in DOMAIN routines
      PROVE  /\ \A r \in c.routines : r.name = n => f[n] = r.params
             /\ n \notin {r.name : r \in c.routines} => f[n] = << >>
  <2>1. PICK q \in Orderings(RowsNamed(c, n)) : f[n] = [i \in DOMAIN q |-> q[i].col]
    BY <1>1
  <2>2. /\ \A r \in c.routines : r.name = n => [i \in DOMAIN q |-> q[i].col] = r.params
        /\ n \notin {r.name : r \in c.routines} => [i \in DOMAIN q |-> q[i].col] = << >>
    BY ParameterListIs
  <2> HIDE DEF Lists
  <2>3. QED
    BY <2>1, <2>2
<1>4. QED
  BY <1>1, <1>2, <1>3 DEF WithParameters

----------------------------------------------------------------------------
(* The invariants of the loads. *)

TablePart(n, x) == <<"table", n, x.cols, x.key>>
IndexImage(t, n, x) == <<"index", t, n, x.cols, x.unique>>
KeyPlace(t, n, x) == <<"fk", t, n, x.cols, x.refTable, x.refCols, x.rules>>

\* What PartsStood allows of a part.
Held(p, catalogs) ==
    \/ \E c \in catalogs : p \in Parts(c)
    \/ Cardinality(catalogs) > 1 /\ OfTwoQueries(p, catalogs)

Fields == {"cols", "key", "indexes", "fks"}

TableStood(n, x, catalogs) ==
    /\ ~ Skipped(IgnoreTables, n)
    /\ \E c \in catalogs : \E t \in Relations(c) : t.name = n
    /\ DOMAIN x = Fields
    /\ Held(TablePart(n, x), catalogs)
    /\ \A i \in DOMAIN x.indexes : Held(IndexImage(n, i, x.indexes[i]), catalogs)
    /\ \A k \in DOMAIN x.fks : Held(KeyPlace(n, k, x.fks[k]), catalogs)

TablesStood(tables, catalogs) == \A n \in DOMAIN tables : TableStood(n, tables[n], catalogs)

ViewsStood(views, catalogs) ==
    \A n \in DOMAIN views : \E c \in catalogs :
        /\ ViewPart(n, views[n]) \in Parts(c)
        /\ driver = "postgres" => n = <<c.schema, n[2]>>

TriggersStood(triggers, catalogs) ==
    \A n \in DOMAIN triggers : \E c \in catalogs : TriggerPart(n, triggers[n]) \in Parts(c)

SequencesStood(sequences, catalogs) ==
    \A n \in DOMAIN sequences : \E c \in catalogs : SequencePart(n, sequences[n]) \in Parts(c)

RoutinesStood(routines, catalogs) ==
    \A n \in DOMAIN routines : Held(RoutinePart(n, routines[n]), catalogs)

\* The routines of MySQL wait for their parameters.
HalfLoaded(d) == driver = "mysql" /\ db = d /\ stage = "parameters"

ImageStood(d) ==
    /\ TablesStood(image[d].tables, seen[d])
    /\ ViewsStood(image[d].views, seen[d])
    /\ TriggersStood(image[d].triggers, seen[d])
    /\ SequencesStood(image[d].sequences, seen[d])
    /\ HalfLoaded(d) => Half(image[d].routines, seen[d])
    /\ ~ HalfLoaded(d) => RoutinesStood(image[d].routines, seen[d])

IsImage(img) ==
    img = [tables |-> img.tables, views |-> img.views, routines |-> img.routines,
           triggers |-> img.triggers, sequences |-> img.sequences]

BeforeLoads == stage \in {"open", "ping", "wait"}

TypeInv ==
    /\ driver \in Drivers /\ db \in Databases
    /\ DOMAIN cat = Databases /\ DOMAIN seen = Databases /\ DOMAIN image = Databases
    /\ \A d \in Databases : cat[d] \in Worlds(driver, d)
    /\ \A d \in Databases : seen[d] \subseteq Worlds(driver, d) /\ IsFiniteSet(seen[d])
    /\ \A d \in Databases : IsImage(image[d])
    /\ Loading => cat[db] \in seen[db]
    /\ BeforeLoads => \A d \in Databases : seen[d] = {}
    /\ Loading /\ db = "prod" => seen["dev"] = {}
    /\ result # "none" => stage = "exit"

LoopInv ==
    /\ stage # "exit" /\ pending # {} => driver = "sqlite" /\ stage = "indexes"
    /\ driver = "sqlite" /\ stage = "columns" => \A t \in todo :
           ~ Skipped(IgnoreTables, t) /\ \E c \in seen[db] : \E x \in c.tables : x.name = t
    /\ driver = "sqlite" /\ stage \in {"indexes", "fks"} => todo \subseteq DOMAIN image[db].tables
    /\ driver = "sqlite" /\ stage = "indexes" /\ pending # {} =>
           /\ table \in DOMAIN image[db].tables
           /\ \A i \in pending : \E c \in seen[db] : \E x \in c.indexes :
                  x.table = table /\ x.origin = "c" /\ x.name = i.name /\ x.unique = i.unique

StoodInv ==
    result # "failed" => \A d \in Databases :
        (\A c \in seen[d] : Unambiguous(c)) => ImageStood(d)

\* What is said of a catalog depends on the driver alone.
LEMMA RelationsKept ==
    ASSUME driver' = driver
    PROVE  \A c : Relations(c)' = Relations(c)
BY DEF Relations

\* So does what is reported of an index,
LEMMA ReportedKept ==
    ASSUME driver' = driver
    PROVE  \A c : Reported(c)' = Reported(c)
BY DEF Reported

TableParts(c) == {AsTuple(t) : t \in Stays(IgnoreTables, Relations(c))}

IndexParts(c) ==
    {IndexPart(i) : i \in {x \in c.indexes :
        /\ x.table \in {t.name : t \in Stays(IgnoreTables, Relations(c))}
        /\ IndexListed(c, x)}}

KeyParts(c) ==
    {KeyPart(f) : f \in {x \in c.fks :
        /\ x.table \in {t.name : t \in Stays(IgnoreTables, Relations(c))}
        /\ KeyListed(c, x)}}

\* PartsOfTables, by kinds.
LEMMA PartsOfTablesAre ==
    \A c : PartsOfTables(c) = TableParts(c) \cup IndexParts(c) \cup KeyParts(c)
BY DEF PartsOfTables, TableParts, IndexParts, KeyParts, IndexPart, KeyPart, Stays

\* the parts of the tables,
LEMMA PartsOfTablesKept ==
    ASSUME driver' = driver
    PROVE  \A c : PartsOfTables(c)' = PartsOfTables(c)
<1>1. \A c : PartsOfTables(c) = TableParts(c) \cup IndexParts(c) \cup KeyParts(c)
  BY PartsOfTablesAre
<1>2. (\A c : PartsOfTables(c) = TableParts(c) \cup IndexParts(c) \cup KeyParts(c))'
  BY PartsOfTablesAre, PTL
<1>3. \A i : IndexPart(i)' = IndexPart(i)
  BY ReportedKept DEF IndexPart
<1>4. \A f : KeyPart(f)' = KeyPart(f)
  BY DEF KeyPart
<1>a. \A c, i : IndexListed(c, i)' <=> IndexListed(c, i)
  BY ReportedKept DEF IndexListed
<1>b. \A c, f : KeyListed(c, f)' <=> KeyListed(c, f)
  BY DEF KeyListed
<1>5. \A c : IndexParts(c)' = IndexParts(c)
  BY <1>3, <1>a, RelationsKept DEF IndexParts
<1>6. \A c : KeyParts(c)' = KeyParts(c)
  BY <1>4, <1>b, RelationsKept DEF KeyParts
<1>7. \A c : TableParts(c)' = TableParts(c)
  BY RelationsKept DEF TableParts
<1>8. QED
  BY <1>1, <1>2, <1>5, <1>6, <1>7

\* the others,
LEMMA PartsOutsideTablesKept ==
    ASSUME driver' = driver
    PROVE  \A c : PartsOutsideTables(c)' = PartsOutsideTables(c)
BY DEF PartsOutsideTables

\* all of them,
LEMMA PartsKept ==
    ASSUME driver' = driver
    PROVE  \A c : Parts(c)' = Parts(c)
BY PartsOfTablesKept, PartsOutsideTablesKept DEF Parts

\* whether a catalog is ambiguous,
LEMMA UnambiguousKept ==
    ASSUME driver' = driver
    PROVE  \A c : Unambiguous(c)' <=> Unambiguous(c)
BY DEF Unambiguous

\* the parts of two queries,
LEMMA TwoQueriesKept ==
    ASSUME driver' = driver
    PROVE  \A p, S : OfTwoQueries(p, S)' <=> OfTwoQueries(p, S)
BY RelationsKept, ReportedKept DEF OfTwoQueries

\* what PartsStood allows,
LEMMA HeldKept ==
    ASSUME driver' = driver
    PROVE  \A p, S : Held(p, S)' <=> Held(p, S)
BY PartsKept, TwoQueriesKept DEF Held

\* and the tables that stood.
LEMMA TablesKept ==
    ASSUME driver' = driver
    PROVE  \A x, S : TablesStood(x, S)' <=> TablesStood(x, S)
BY RelationsKept, HeldKept DEF TablesStood, TableStood, TablePart, IndexImage, KeyPlace

----------------------------------------------------------------------------
(* The plan of the queries. *)

Steady == {"open", "ping", "wait", "compare", "exit"}

\* The plan of each driver.
LEMMA QueriesAre ==
    /\ driver = "mysql" => Queries =
           <<"columns", "indexes", "fks", "views", "routines", "parameters", "triggers">>
    /\ driver = "postgres" => Queries =
           <<"columns", "indexes", "fks", "views", "matviews", "routines", "triggers", "sequences">>
    /\ driver = "sqlite" => Queries =
           <<"tables", "columns", "indexes", "fks", "views", "triggers">>
    /\ driver \notin {"mysql", "postgres", "sqlite"} => Queries = <<"columns", "indexes", "fks">>
BY DEF Queries

\* A plan is a list of different queries.
LEMMA PlanType ==
    /\ Len(Queries) \in Nat /\ Len(Queries) >= 1 /\ DOMAIN Queries = 1 .. Len(Queries)
    /\ Head(Queries) = Queries[1]
    /\ \A i, j \in DOMAIN Queries : Queries[i] = Queries[j] => i = j
    /\ \A i \in DOMAIN Queries : Queries[i] \notin Steady
<1>1. CASE driver = "mysql"
  <2>1. Queries = <<"columns", "indexes", "fks", "views", "routines", "parameters", "triggers">>
    BY <1>1, QueriesAre
  <2>2. /\ Len(Queries) = 7 /\ DOMAIN Queries = 1 .. 7 /\ Head(Queries) = Queries[1]
        /\ Queries[1] = "columns" /\ Queries[2] = "indexes" /\ Queries[3] = "fks" /\ Queries[4] = "views" /\ Queries[5] = "routines" /\ Queries[6] = "parameters" /\ Queries[7] = "triggers"
    BY <2>1
  <2>3. \A i \in 1 .. 7 : i = 1 \/ i = 2 \/ i = 3 \/ i = 4 \/ i = 5 \/ i = 6 \/ i = 7
    OBVIOUS
  <2>4. QED
    BY <2>2, <2>3 DEF Steady
<1>2. CASE driver = "postgres"
  <2>1. Queries = <<"columns", "indexes", "fks", "views", "matviews", "routines", "triggers", "sequences">>
    BY <1>2, QueriesAre
  <2>2. /\ Len(Queries) = 8 /\ DOMAIN Queries = 1 .. 8 /\ Head(Queries) = Queries[1]
        /\ Queries[1] = "columns" /\ Queries[2] = "indexes" /\ Queries[3] = "fks" /\ Queries[4] = "views" /\ Queries[5] = "matviews" /\ Queries[6] = "routines" /\ Queries[7] = "triggers" /\ Queries[8] = "sequences"
    BY <2>1
  <2>3. \A i \in 1 .. 8 : i = 1 \/ i = 2 \/ i = 3 \/ i = 4 \/ i = 5 \/ i = 6 \/ i = 7 \/ i = 8
    OBVIOUS
  <2>4. QED
    BY <2>2, <2>3 DEF Steady
<1>3. CASE driver = "sqlite"
  <2>1. Queries = <<"tables", "columns", "indexes", "fks", "views", "triggers">>
    BY <1>3, QueriesAre
  <2>2. /\ Len(Queries) = 6 /\ DOMAIN Queries = 1 .. 6 /\ Head(Queries) = Queries[1]
        /\ Queries[1] = "tables" /\ Queries[2] = "columns" /\ Queries[3] = "indexes" /\ Queries[4] = "fks" /\ Queries[5] = "views" /\ Queries[6] = "triggers"
    BY <2>1
  <2>3. \A i \in 1 .. 6 : i = 1 \/ i = 2 \/ i = 3 \/ i = 4 \/ i = 5 \/ i = 6
    OBVIOUS
  <2>4. QED
    BY <2>2, <2>3 DEF Steady
<1>4. CASE driver \notin {"mysql", "postgres", "sqlite"}
  <2>1. Queries = <<"columns", "indexes", "fks">>
    BY <1>4, QueriesAre
  <2>2. /\ Len(Queries) = 3 /\ DOMAIN Queries = 1 .. 3 /\ Head(Queries) = Queries[1]
        /\ Queries[1] = "columns" /\ Queries[2] = "indexes" /\ Queries[3] = "fks"
    BY <2>1
  <2>3. \A i \in 1 .. 3 : i = 1 \/ i = 2 \/ i = 3
    OBVIOUS
  <2>4. QED
    BY <2>2, <2>3 DEF Steady
<1>5. QED
  BY <1>1, <1>2, <1>3, <1>4

\* Loading is to be at a query of the plan.
LEMMA LoadingIs == Loading <=> \E i \in DOMAIN Queries : Queries[i] = stage
  BY DEF Loading, Range

\* What Advance does.
LEMMA AdvanceIs ==
    ASSUME Loading, Advance
    PROVE  \E at \in 1 .. Len(Queries) :
               /\ Queries[at] = stage
               /\ \/ at < Len(Queries) /\ stage' = Queries[at + 1] /\ UNCHANGED <<db, seen>>
                  \/ /\ at = Len(Queries) /\ db = "prod"
                     /\ db' = "dev" /\ stage' = Queries[1]
                     /\ seen' = [seen EXCEPT !["dev"] = {cat["dev"]}]
                  \/ /\ at = Len(Queries) /\ db # "prod"
                     /\ stage' = "compare" /\ UNCHANGED <<db, seen>>
<1> DEFINE at == CHOOSE i \in DOMAIN Queries : Queries[i] = stage
<1>1. at \in DOMAIN Queries /\ Queries[at] = stage
  BY LoadingIs
<1>2. IF at < Len(Queries)
      THEN stage' = Queries[at + 1] /\ UNCHANGED <<db, seen>>
      ELSE IF db = "prod"
      THEN /\ db' = "dev" /\ stage' = Head(Queries)
           /\ seen' = [seen EXCEPT !["dev"] = {cat["dev"]}]
      ELSE stage' = "compare" /\ UNCHANGED <<db, seen>>
  BY DEF Advance
<1> HIDE DEF at
<1>3. at \in 1 .. Len(Queries) /\ (at < Len(Queries) \/ at = Len(Queries))
  BY <1>1, PlanType
<1>4. QED
  BY <1>1, <1>2, <1>3, PlanType

\* What Advance leaves alone, and where it can lead.
LEMMA AdvanceFrame ==
    ASSUME Loading, Advance, db \in Databases
    PROVE  /\ driver' = driver /\ cat' = cat /\ table' = table /\ pending' = pending /\ result' = result
           /\ Queries' = Queries
           /\ db' \in Databases
           /\ stage' = "compare" \/ Loading'
           /\ stage' \notin {"open", "ping", "wait", "exit"}
           /\ \/ seen' = seen /\ db' = db
              \/ db = "prod" /\ db' = "dev" /\ seen' = [seen EXCEPT !["dev"] = {cat["dev"]}]
<1>1. driver' = driver /\ cat' = cat /\ table' = table /\ pending' = pending /\ result' = result
  BY DEF Advance
<1>2. Queries' = Queries
  BY <1>1 DEF Queries
<1>3. PICK at \in 1 .. Len(Queries) :
               /\ Queries[at] = stage
               /\ \/ at < Len(Queries) /\ stage' = Queries[at + 1] /\ UNCHANGED <<db, seen>>
                  \/ /\ at = Len(Queries) /\ db = "prod"
                     /\ db' = "dev" /\ stage' = Queries[1]
                     /\ seen' = [seen EXCEPT !["dev"] = {cat["dev"]}]
                  \/ /\ at = Len(Queries) /\ db # "prod"
                     /\ stage' = "compare" /\ UNCHANGED <<db, seen>>
  BY AdvanceIs
<1>4. 1 \in DOMAIN Queries /\ (at < Len(Queries) => at + 1 \in DOMAIN Queries)
  BY PlanType
<1>5. stage' = "compare" \/ \E i \in DOMAIN Queries : Queries[i] = stage'
  BY <1>3, <1>4
<1>6. stage' = "compare" \/ Loading'
  BY <1>2, <1>5 DEF Loading, Range
<1>7. stage' \notin {"open", "ping", "wait", "exit"}
  BY <1>5, PlanType DEF Steady
<1>8. QED
  BY <1>1, <1>2, <1>3, <1>6, <1>7 DEF Databases

\* The order of SQLite's queries.
LEMMA SqliteAdvances ==
    ASSUME driver = "sqlite", Loading, Advance
    PROVE  /\ stage = "tables" => stage' = "columns" /\ UNCHANGED <<db, seen>>
           /\ stage = "columns" => stage' = "indexes" /\ UNCHANGED <<db, seen>>
           /\ stage = "indexes" => stage' = "fks" /\ UNCHANGED <<db, seen>>
           /\ stage \notin {"tables", "columns", "indexes"} =>
                  stage' \notin {"columns", "indexes", "fks"}
<1>1. Queries = <<"tables", "columns", "indexes", "fks", "views", "triggers">>
  BY QueriesAre
<1>2. Len(Queries) = 6
  BY <1>1
<1>3. PICK at \in 1 .. 6 :
               /\ Queries[at] = stage
               /\ \/ at < 6 /\ stage' = Queries[at + 1] /\ UNCHANGED <<db, seen>>
                  \/ at = 6 /\ stage' = Queries[1]
                  \/ at = 6 /\ stage' = "compare"
  BY <1>2, AdvanceIs
<1>4. /\ Queries[1] = "tables" /\ Queries[2] = "columns" /\ Queries[3] = "indexes"
      /\ Queries[4] = "fks" /\ Queries[5] = "views" /\ Queries[6] = "triggers"
  BY <1>1
<1>5. at = 1 \/ at = 2 \/ at = 3 \/ at = 4 \/ at = 5 \/ at = 6
  OBVIOUS
<1>6. CASE at \in {1, 2, 3}
  BY <1>3, <1>4, <1>6
<1>7. CASE at \in {4, 5, 6}
  BY <1>3, <1>4, <1>7
<1>8. QED
  BY <1>5, <1>6, <1>7

\* MySQL asks for the parameters right after the routines.
LEMMA MySQLAdvances ==
    ASSUME driver = "mysql", Loading, Advance
    PROVE  /\ stage = "routines" => stage' = "parameters" /\ db' = db
           /\ stage # "routines" => stage' # "parameters"
<1>1. Queries = <<"columns", "indexes", "fks", "views", "routines", "parameters", "triggers">>
  BY QueriesAre
<1>2. Len(Queries) = 7
  BY <1>1
<1>3. PICK at \in 1 .. 7 :
               /\ Queries[at] = stage
               /\ \/ at < 7 /\ stage' = Queries[at + 1] /\ UNCHANGED <<db, seen>>
                  \/ at = 7 /\ stage' = Queries[1]
                  \/ at = 7 /\ stage' = "compare"
  BY <1>2, AdvanceIs
<1>4. /\ Queries[1] = "columns" /\ Queries[2] = "indexes" /\ Queries[3] = "fks"
      /\ Queries[4] = "views" /\ Queries[5] = "routines" /\ Queries[6] = "parameters"
      /\ Queries[7] = "triggers"
  BY <1>1
<1>5. at = 1 \/ at = 2 \/ at = 3 \/ at = 4 \/ at = 5 \/ at = 6 \/ at = 7
  OBVIOUS
<1>6. CASE at \in {1, 2, 3, 4}
  BY <1>3, <1>4, <1>6
<1>7. CASE at \in {5, 6, 7}
  BY <1>3, <1>4, <1>7
<1>8. QED
  BY <1>5, <1>6, <1>7

----------------------------------------------------------------------------
(* The type invariant and the invariant of SQLite's loops. *)

\* The other stages are no queries.
LEMMA SteadyIsNotLoading == stage \in Steady => ~ Loading
  BY LoadingIs, PlanType

\* The type invariant holds at first.
LEMMA TypeInvInit == DiffInit => TypeInv
<1> SUFFICES ASSUME DiffInit PROVE TypeInv
  OBVIOUS
<1>1. ~ Loading
  BY SteadyIsNotLoading DEF DiffInit, Steady
<1>2. IsFiniteSet({})
  BY FS_EmptySet
<1>3. IsImage(NoImage)
  BY DEF IsImage, NoImage
<1>4. QED
  BY <1>1, <1>2, <1>3 DEF DiffInit, TypeInv, Databases

\* A query that is answered in full.
Grows == driver' = driver /\ \A d \in Databases : seen[d] \subseteq seen'[d]

\* Advance keeps it.
LEMMA AdvanceType ==
    ASSUME TypeInv, Loading, Advance, DOMAIN image' = Databases, \A d \in Databases : IsImage(image'[d])
    PROVE  TypeInv' /\ Grows
<1>1. /\ driver' = driver /\ cat' = cat /\ result' = result /\ db' \in Databases
      /\ stage' = "compare" \/ Loading'
      /\ stage' \notin {"open", "ping", "wait", "exit"}
      /\ \/ seen' = seen /\ db' = db
         \/ db = "prod" /\ db' = "dev" /\ seen' = [seen EXCEPT !["dev"] = {cat["dev"]}]
  BY AdvanceFrame DEF TypeInv
<1>2. result = "none"
  BY SteadyIsNotLoading DEF TypeInv, Steady
<1>3. CASE seen' = seen /\ db' = db
  BY <1>1, <1>2, <1>3 DEF TypeInv, BeforeLoads, Grows, IsImage
<1>4. CASE db = "prod" /\ db' = "dev" /\ seen' = [seen EXCEPT !["dev"] = {cat["dev"]}]
  <2>1. seen["dev"] = {} /\ DOMAIN seen = Databases /\ "dev" \in Databases
    BY <1>4 DEF TypeInv, Databases
  <2>2. DOMAIN seen' = Databases /\ seen'["dev"] = {cat["dev"]}
        /\ \A d \in Databases : d # "dev" => seen'[d] = seen[d]
    BY <1>4, <2>1
  <2>3. IsFiniteSet({cat["dev"]})
    BY FS_Singleton
  <2>4. \A d \in Databases : seen'[d] \subseteq Worlds(driver, d) /\ IsFiniteSet(seen'[d])
    BY <2>1, <2>2, <2>3 DEF TypeInv
  <2>5. \A d \in Databases : seen[d] \subseteq seen'[d]
    BY <2>1, <2>2
  <2>6. QED
    BY <1>1, <1>2, <1>4, <2>1, <2>2, <2>4, <2>5 DEF TypeInv, BeforeLoads, Grows, IsImage
<1>5. QED
  BY <1>1, <1>3, <1>4

\* A step that stays at its query.
LEMMA LoopStepType ==
    ASSUME TypeInv, UNCHANGED <<driver, cat, db, stage, result, seen>>,
           DOMAIN image' = Databases, \A d \in Databases : IsImage(image'[d]), Loading
    PROVE  TypeInv' /\ Grows
<1>1. ~ BeforeLoads
  BY SteadyIsNotLoading DEF BeforeLoads, Steady
<1>2. QED
  BY <1>1 DEF TypeInv, Grows, IsImage, BeforeLoads, Loading, Queries

\* Exit keeps it.
LEMMA ExitType ==
    ASSUME TypeInv, NEW r, NEW h, Exit(r, h)
    PROVE  TypeInv' /\ Grows
<1>1. (stage \in Steady => ~ Loading)'
  BY SteadyIsNotLoading, PTL
<1>2. ~ Loading'
  BY <1>1 DEF Exit, Steady
<1>3. QED
  BY <1>2 DEF Exit, TypeInv, Grows, BeforeLoads, IsImage

\* Connecting keeps it.
LEMMA ConnectType ==
    ASSUME TypeInv, Connect
    PROVE  TypeInv' /\ Grows
<1>0. (stage \in Steady => ~ Loading)'
  BY SteadyIsNotLoading, PTL
<1>1. ASSUME BeforeLoads, stage' \in {"open", "ping", "wait"}, db' \in Databases,
             UNCHANGED <<driver, cat, image, result, seen>>
      PROVE  TypeInv' /\ Grows
  <2>1. ~ Loading'
    BY <1>0, <1>1 DEF Steady
  <2>2. result # "none" => FALSE
    BY <1>1 DEF TypeInv, BeforeLoads
  <2>3. QED
    BY <1>1, <2>1, <2>2 DEF TypeInv, Grows, BeforeLoads, IsImage
<1>2. CASE OpenHandle
  BY <1>1, <1>2 DEF OpenHandle, BeforeLoads, TypeInv
<1>3. CASE NoDSN
  BY <1>3, ExitType DEF NoDSN
<1>4. ASSUME BeforeLoads, NEW tried, NEW h, Retry(tried, h)
      PROVE  TypeInv' /\ Grows
  <2>1. CASE Exit("failed", h)
    BY <2>1, ExitType
  <2>2. CASE stage' = "wait" /\ UNCHANGED <<driver, cat, db, image, result, seen>>
    BY <1>1, <1>4, <2>2 DEF TypeInv
  <2>3. QED
    BY <1>4, <2>1, <2>2 DEF Retry
<1>5. CASE OpenFails
  BY <1>4, <1>5 DEF OpenFails, BeforeLoads
<1>6. CASE PingFails
  BY <1>4, <1>6 DEF PingFails, BeforeLoads
<1>7. CASE Waited
  BY <1>1, <1>7 DEF Waited, BeforeLoads, TypeInv
<1>8. CASE Connected
  <2>1. CASE db = "prod"
    BY <1>1, <1>8, <2>1 DEF Connected, BeforeLoads, TypeInv, Databases
  <2>2. CASE db # "prod"
    <3>1. /\ db' = "prod" /\ stage' = Queries[1]
          /\ seen' = [seen EXCEPT !["prod"] = {cat["prod"]}]
          /\ UNCHANGED <<driver, cat, image, result>> /\ BeforeLoads
      BY <1>8, <2>2, PlanType DEF Connected, BeforeLoads
    <3>2. DOMAIN seen = Databases /\ "prod" \in Databases /\ \A d \in Databases : seen[d] = {}
      BY <3>1 DEF TypeInv, Databases
    <3>3. DOMAIN seen' = Databases /\ seen'["prod"] = {cat["prod"]} /\ seen'["dev"] = {}
          /\ \A d \in Databases : d # "prod" => seen'[d] = {}
      BY <3>1, <3>2 DEF Databases
    <3>4. IsFiniteSet({cat["prod"]}) /\ IsFiniteSet({})
      BY FS_Singleton, FS_EmptySet
    <3>5. \A d \in Databases : seen'[d] \subseteq Worlds(driver, d) /\ IsFiniteSet(seen'[d])
      BY <3>2, <3>3, <3>4 DEF TypeInv
    <3>6. stage' \notin Steady
      BY <3>1, PlanType
    <3>7. result = "none"
      BY <3>1 DEF TypeInv, BeforeLoads
    <3>8. db' \in Databases
      BY <3>1 DEF Databases
    <3>9. QED
      BY <3>1, <3>2, <3>3, <3>5, <3>6, <3>7, <3>8 DEF TypeInv, Grows, BeforeLoads, IsImage, Steady
  <2>3. QED
    BY <2>1, <2>2
<1>9. QED
  BY <1>2, <1>3, <1>5, <1>6, <1>7, <1>8 DEF Connect

\* Other clients keep it.
LEMMA OtherClientType ==
    ASSUME TypeInv, OtherClient
    PROVE  TypeInv' /\ Grows
<1>1. PICK d \in Databases : \E new \in Worlds(driver, d) \ {cat[d]} :
          /\ cat' = [cat EXCEPT ![d] = new]
          /\ seen' = IF d = db THEN [seen EXCEPT ![d] = @ \cup {new}] ELSE seen
  BY DEF OtherClient
<1>2. PICK new \in Worlds(driver, d) :
          /\ cat' = [cat EXCEPT ![d] = new]
          /\ seen' = IF d = db THEN [seen EXCEPT ![d] = @ \cup {new}] ELSE seen
  BY <1>1
<1>3. UNCHANGED <<driver, db, stage, image, result>> /\ Loading
  BY DEF OtherClient
<1>4. Loading' /\ ~ BeforeLoads /\ result = "none"
  BY <1>3, SteadyIsNotLoading DEF Loading, Queries, BeforeLoads, Steady, TypeInv
<1>5. /\ DOMAIN cat' = Databases /\ \A e \in Databases : cat'[e] \in Worlds(driver, e)
      /\ cat'[d] = new /\ \A e \in Databases : e # d => cat'[e] = cat[e]
  BY <1>2 DEF TypeInv
<1>6. CASE d = db
  <2>1. /\ DOMAIN seen' = Databases /\ seen'[d] = seen[d] \cup {new}
        /\ \A e \in Databases : e # d => seen'[e] = seen[e]
    BY <1>2, <1>6 DEF TypeInv
  <2>2. IsFiniteSet(seen[d] \cup {new})
    BY FS_AddElement DEF TypeInv
  <2>3. \A e \in Databases : seen'[e] \subseteq Worlds(driver, e) /\ IsFiniteSet(seen'[e])
    BY <1>2, <2>1, <2>2 DEF TypeInv
  <2>4. QED
    BY <1>3, <1>4, <1>5, <1>6, <2>1, <2>3 DEF TypeInv, Grows, BeforeLoads, IsImage, Databases
<1>7. CASE d # db
  <2>1. seen' = seen /\ cat'[db] = cat[db]
    BY <1>2, <1>5, <1>7 DEF TypeInv
  <2>2. QED
    BY <1>3, <1>4, <1>5, <2>1 DEF TypeInv, Grows, BeforeLoads, IsImage
<1>8. QED
  BY <1>6, <1>7

\* Every guard of a loader names a query of the driver's plan.
LEMMA PlansLoad ==
    /\ driver \in Querying /\ stage \in {"columns", "indexes", "fks"} => Loading
    /\ driver = "sqlite" /\ stage \in {"tables", "columns", "indexes", "fks", "views", "triggers"} => Loading
    /\ driver \in {"mysql", "postgres"} /\ stage \in {"views", "routines", "triggers"} => Loading
    /\ driver = "mysql" /\ stage = "parameters" => Loading
    /\ driver = "postgres" /\ stage \in {"matviews", "sequences"} => Loading
<1>1. CASE driver = "mysql"
  <2>1. /\ DOMAIN Queries = 1 .. 7 /\ Queries[1] = "columns" /\ Queries[2] = "indexes" /\ Queries[3] = "fks"
        /\ Queries[4] = "views" /\ Queries[5] = "routines" /\ Queries[6] = "parameters"
        /\ Queries[7] = "triggers"
    BY <1>1, QueriesAre
  <2>2. QED
    BY <1>1, <2>1, LoadingIs DEF Querying
<1>2. CASE driver = "postgres"
  <2>1. /\ DOMAIN Queries = 1 .. 8 /\ Queries[1] = "columns" /\ Queries[2] = "indexes" /\ Queries[3] = "fks"
        /\ Queries[4] = "views" /\ Queries[5] = "matviews" /\ Queries[6] = "routines"
        /\ Queries[7] = "triggers" /\ Queries[8] = "sequences"
    BY <1>2, QueriesAre
  <2>2. QED
    BY <1>2, <2>1, LoadingIs DEF Querying
<1>3. CASE driver = "sqlite"
  <2>1. /\ DOMAIN Queries = 1 .. 6 /\ Queries[1] = "tables" /\ Queries[2] = "columns" /\ Queries[3] = "indexes"
        /\ Queries[4] = "fks" /\ Queries[5] = "views" /\ Queries[6] = "triggers"
    BY <1>3, QueriesAre
  <2>2. QED
    BY <1>3, <2>1, LoadingIs DEF Querying
<1>4. CASE driver \notin {"mysql", "postgres", "sqlite"}
  <2>1. /\ DOMAIN Queries = 1 .. 3 /\ Queries[1] = "columns" /\ Queries[2] = "indexes" /\ Queries[3] = "fks"
    BY <1>4, QueriesAre
  <2>2. QED
    BY <1>4, <2>1, LoadingIs
<1>5. QED
  BY <1>1, <1>2, <1>3, <1>4

LoopStep == SqliteColumns \/ SqliteIndexList \/ SqliteIndexInfo \/ SqliteForeignKeys

LoadStep ==
    LoadColumns \/ LoadIndexes \/ LoadForeignKeys \/ LoopEnds \/ LoadViews \/ LoadMaterializedViews
    \/ LoadRoutines \/ LoadParameters \/ LoadTriggers \/ LoadSequences

\* The steps of LoadSchema: a whole answer, one turn of a loop, or neither.
LEMMA LoadSchemaIs ==
    LoadSchema <=> LoadStep \/ LoopStep \/ SqliteTables \/ QueryFails
BY DEF LoadSchema, LoadStep, LoopStep

\* An image with one of its maps replaced.
LEMMA ImageExcept ==
    ASSUME NEW img, IsImage(img), NEW x
    PROVE  /\ LET new == [img EXCEPT !.tables = x]
              IN  IsImage(new) /\ new.tables = x /\ new.views = img.views /\ new.routines = img.routines
                  /\ new.triggers = img.triggers /\ new.sequences = img.sequences
           /\ LET new == [img EXCEPT !.views = x]
              IN  IsImage(new) /\ new.tables = img.tables /\ new.views = x /\ new.routines = img.routines
                  /\ new.triggers = img.triggers /\ new.sequences = img.sequences
           /\ LET new == [img EXCEPT !.routines = x]
              IN  IsImage(new) /\ new.tables = img.tables /\ new.views = img.views /\ new.routines = x
                  /\ new.triggers = img.triggers /\ new.sequences = img.sequences
           /\ LET new == [img EXCEPT !.triggers = x]
              IN  IsImage(new) /\ new.tables = img.tables /\ new.views = img.views
                  /\ new.routines = img.routines /\ new.triggers = x /\ new.sequences = img.sequences
           /\ LET new == [img EXCEPT !.sequences = x]
              IN  IsImage(new) /\ new.tables = img.tables /\ new.views = img.views
                  /\ new.routines = img.routines /\ new.triggers = img.triggers /\ new.sequences = x
<1>1. DOMAIN img = {"tables", "views", "routines", "triggers", "sequences"}
  BY DEF IsImage
<1>2. QED
  BY <1>1 DEF IsImage

\* A whole answer replaces the image and advances.
LEMMA LoadStepIs ==
    ASSUME TypeInv, LoadStep
    PROVE  /\ Loading /\ \E new : Load(new) /\ IsImage(new)
           /\ driver = "sqlite" => stage \in {"columns", "indexes", "fks", "views", "triggers"}
           /\ driver = "sqlite" /\ stage = "indexes" => pending = {}
<1>0. IsImage(Loaded)
  BY DEF TypeInv, Loaded
<1>1. CASE LoadColumns
  <2>1. \E x : Load([Loaded EXCEPT !.tables = x])
    BY <1>1 DEF LoadColumns
  <2>2. QED
    BY <1>0, <1>1, <2>1, ImageExcept, PlansLoad DEF LoadColumns, Answered, Querying
<1>2. CASE LoadIndexes
  <2>1. \E x : Load([Loaded EXCEPT !.tables = x])
    BY <1>2 DEF LoadIndexes
  <2>2. QED
    BY <1>0, <1>2, <2>1, ImageExcept, PlansLoad DEF LoadIndexes, Answered, Querying
<1>3. CASE LoadForeignKeys
  <2>1. \E x : Load([Loaded EXCEPT !.tables = x])
    BY <1>3 DEF LoadForeignKeys
  <2>2. QED
    BY <1>0, <1>3, <2>1, ImageExcept, PlansLoad DEF LoadForeignKeys, Answered, Querying
<1>4. CASE LoopEnds
  BY <1>0, <1>4, PlansLoad DEF LoopEnds
<1>5. CASE LoadViews
  <2>1. \E x : Load([Loaded EXCEPT !.views = x])
    BY <1>5 DEF LoadViews
  <2>2. QED
    BY <1>0, <1>5, <2>1, ImageExcept, PlansLoad DEF LoadViews, Answered
<1>6. CASE LoadMaterializedViews
  <2>1. \E x : Load([Loaded EXCEPT !.views = x])
    BY <1>6 DEF LoadMaterializedViews
  <2>2. QED
    BY <1>0, <1>6, <2>1, ImageExcept, PlansLoad DEF LoadMaterializedViews, Answered
<1>7. CASE LoadRoutines
  <2>1. \E x : Load([Loaded EXCEPT !.routines = x])
    BY <1>7 DEF LoadRoutines
  <2>2. QED
    BY <1>0, <1>7, <2>1, ImageExcept, PlansLoad DEF LoadRoutines, Answered
<1>8. CASE LoadParameters
  <2>1. \E x : Load([Loaded EXCEPT !.routines = x])
    BY <1>8 DEF LoadParameters
  <2>2. QED
    BY <1>0, <1>8, <2>1, ImageExcept, PlansLoad DEF LoadParameters, Answered
<1>9. CASE LoadTriggers
  <2>1. \E x : Load([Loaded EXCEPT !.triggers = x])
    BY <1>9 DEF LoadTriggers
  <2>2. QED
    BY <1>0, <1>9, <2>1, ImageExcept, PlansLoad DEF LoadTriggers, Answered
<1>10. CASE LoadSequences
  <2>1. \E x : Load([Loaded EXCEPT !.sequences = x])
    BY <1>10 DEF LoadSequences
  <2>2. QED
    BY <1>0, <1>10, <2>1, ImageExcept, PlansLoad DEF LoadSequences, Answered
<1>11. QED
  BY <1>1, <1>2, <1>3, <1>4, <1>5, <1>6, <1>7, <1>8, <1>9, <1>10 DEF LoadStep

\* What a step of SQLite's loops does to the image.
LEMMA LoopStepIs ==
    ASSUME TypeInv, LoopStep
    PROVE  /\ Loading /\ driver = "sqlite" /\ UNCHANGED <<driver, cat, db, stage, result, seen>>
           /\ DOMAIN image' = Databases
           /\ \A d \in Databases : d # db => image'[d] = image[d]
           /\ IsImage(image'[db])
           /\ image'[db].views = image[db].views /\ image'[db].routines = image[db].routines
           /\ image'[db].triggers = image[db].triggers /\ image'[db].sequences = image[db].sequences
<1>0. IsImage(image[db]) /\ DOMAIN image = Databases /\ db \in Databases
  BY DEF TypeInv
<1>1. Loading /\ driver = "sqlite" /\ UNCHANGED <<driver, cat, db, stage, result, seen>>
  BY PlansLoad DEF LoopStep, SqliteColumns, SqliteIndexList, SqliteIndexInfo, SqliteForeignKeys, Answered
<1>2. ASSUME NEW x, image' = [image EXCEPT ![db].tables = x]
      PROVE  /\ DOMAIN image' = Databases
             /\ \A d \in Databases : d # db => image'[d] = image[d]
             /\ IsImage(image'[db])
             /\ image'[db].views = image[db].views /\ image'[db].routines = image[db].routines
             /\ image'[db].triggers = image[db].triggers /\ image'[db].sequences = image[db].sequences
  <2>1. image'[db] = [image[db] EXCEPT !.tables = x]
    BY <1>0, <1>2
  <2>2. DOMAIN image' = Databases /\ \A d \in Databases : d # db => image'[d] = image[d]
    BY <1>0, <1>2
  <2>3. LET new == [image[db] EXCEPT !.tables = x]
        IN  IsImage(new) /\ new.tables = x /\ new.views = image[db].views /\ new.routines = image[db].routines
            /\ new.triggers = image[db].triggers /\ new.sequences = image[db].sequences
    <3>1. DOMAIN image[db] = {"tables", "views", "routines", "triggers", "sequences"}
      BY <1>0 DEF IsImage
    <3>2. QED
      BY <3>1 DEF IsImage
  <2>4. QED
    BY <2>1, <2>2, <2>3
<1>3. CASE SqliteColumns
  <2>1. \E x : image' = [image EXCEPT ![db].tables = x]
    BY <1>3 DEF SqliteColumns
  <2>2. QED
    BY <1>1, <1>2, <2>1
<1>4. CASE SqliteIndexList
  BY <1>0, <1>1, <1>4 DEF SqliteIndexList
<1>5. CASE SqliteIndexInfo
  <2>1. \E x : image' = [image EXCEPT ![db].tables = x]
    BY <1>5 DEF SqliteIndexInfo
  <2>2. QED
    BY <1>1, <1>2, <2>1
<1>6. CASE SqliteForeignKeys
  <2>1. \E x : image' = [image EXCEPT ![db].tables = x]
    BY <1>6 DEF SqliteForeignKeys
  <2>2. QED
    BY <1>1, <1>2, <2>1
<1>7. QED
  BY <1>3, <1>4, <1>5, <1>6 DEF LoopStep

\* What Load does to the images.
LEMMA LoadIs ==
    ASSUME TypeInv, NEW new, Load(new), IsImage(new)
    PROVE  /\ Advance /\ todo' = DOMAIN new.tables
           /\ DOMAIN image' = Databases /\ image'[db] = new
           /\ \A d \in Databases : d # db => image'[d] = image[d]
           /\ \A d \in Databases : IsImage(image'[d])
BY DEF TypeInv, Load

\* The first query of SQLite only fills the loop.
LEMMA SqliteTablesIs ==
    ASSUME SqliteTables
    PROVE  /\ Loading /\ Advance /\ driver = "sqlite" /\ stage = "tables" /\ image' = image
           /\ todo' = ListSqliteTables(cat[db])
BY PlansLoad DEF SqliteTables, Answered, Here

\* Every step keeps the type invariant, and forgets no catalog that was seen.
LEMMA TypeInvStep == TypeInv /\ [DiffNext]_diffVars => TypeInv' /\ Grows
<1> SUFFICES ASSUME TypeInv, [DiffNext]_diffVars PROVE TypeInv' /\ Grows
  OBVIOUS
<1>1. CASE Connect
  BY <1>1, ConnectType
<1>2. CASE LoadStep
  <2>1. Loading /\ \E new : Load(new) /\ IsImage(new)
    BY <1>2, LoadStepIs
  <2>2. PICK new : Load(new) /\ IsImage(new)
    BY <2>1
  <2>3. Advance /\ DOMAIN image' = Databases /\ \A d \in Databases : IsImage(image'[d])
    BY <2>2, LoadIs
  <2>4. QED
    BY <2>1, <2>3, AdvanceType
<1>3. CASE LoopStep
  <2>1. \A d \in Databases : IsImage(image'[d])
    BY <1>3, LoopStepIs DEF TypeInv
  <2>2. QED
    BY <1>3, <2>1, LoopStepIs, LoopStepType
<1>4. CASE SqliteTables
  BY <1>4, SqliteTablesIs, AdvanceType DEF TypeInv
<1>5. CASE QueryFails
  BY <1>5, ExitType DEF QueryFails
<1>6. CASE Compare \/ ReportFails
  BY <1>6, ExitType DEF Compare, ReportFails
<1>7. CASE OtherClient
  BY <1>7, OtherClientType
<1>8. CASE UNCHANGED diffVars
  <2>1. UNCHANGED <<driver, cat, db, stage, image, result, seen>>
    BY <1>8 DEF diffVars
  <2>2. QED
    BY <2>1 DEF TypeInv, Grows, Loading, Queries, BeforeLoads, IsImage
<1>9. QED
  BY <1>1, <1>2, <1>3, <1>4, <1>5, <1>6, <1>7, <1>8, LoadSchemaIs DEF DiffNext, Command

\* The invariant of the loops holds at first.
LEMMA LoopInvInit == DiffInit => LoopInv
  BY DEF DiffInit, LoopInv

\* SQLite's table of a step of its loops.
LEMMA LoopTablesAre ==
    ASSUME TypeInv, LoopStep
    PROVE  /\ SqliteColumns => /\ stage = "columns"
                               /\ \E t \in todo : /\ todo' = todo \ {t}
                                                  /\ image'[db].tables = Over([x \in {t} |-> ListSqliteColumns(cat[db], t)], image[db].tables)
                               /\ table' = table /\ pending' = pending
           /\ SqliteIndexList => /\ stage = "indexes" /\ pending = {} /\ image' = image
                                 /\ \E t \in todo : /\ todo' = todo \ {t} /\ table' = t
                                                    /\ pending' = SQLiteIndexList(cat[db], t)
           /\ SqliteIndexInfo => /\ stage = "indexes" /\ todo' = todo /\ table' = table
                                 /\ \E i \in pending :
                                        /\ pending' = pending \ {i}
                                        /\ image'[db].tables = [image[db].tables EXCEPT ![table].indexes =
                                               Over([x \in {i.name} |-> [cols |-> Columns(SQLiteIndexInfo(cat[db], i.name)),
                                                                         unique |-> i.unique]], @)]
           /\ SqliteForeignKeys => /\ stage = "fks" /\ table' = table /\ pending' = pending
                                   /\ \E t \in todo :
                                        /\ todo' = todo \ {t}
                                        /\ \E keys \in GroupForeignKeys(SQLiteForeignKeyList(cat[db], t), Kept) :
                                               image'[db].tables = [image[db].tables EXCEPT ![t].fks = keys]
<1>0. DOMAIN image = Databases /\ db \in Databases
  BY DEF TypeInv
<1>a. DOMAIN image[db] = {"tables", "views", "routines", "triggers", "sequences"}
  BY DEF TypeInv, IsImage
<1>1. ASSUME SqliteColumns
      PROVE  \E t \in todo : /\ todo' = todo \ {t}
                             /\ image'[db].tables = Over([x \in {t} |-> ListSqliteColumns(cat[db], t)], image[db].tables)
  BY <1>0, <1>a, <1>1 DEF SqliteColumns, Here
<1>2. ASSUME SqliteIndexInfo
      PROVE  \E i \in pending :
                 /\ pending' = pending \ {i}
                 /\ image'[db].tables = [image[db].tables EXCEPT ![table].indexes =
                        Over([x \in {i.name} |-> [cols |-> Columns(SQLiteIndexInfo(cat[db], i.name)),
                                                  unique |-> i.unique]], @)]
  BY <1>0, <1>a, <1>2 DEF SqliteIndexInfo, Here
<1>3. ASSUME SqliteForeignKeys
      PROVE  \E t \in todo :
                 /\ todo' = todo \ {t}
                 /\ \E keys \in GroupForeignKeys(SQLiteForeignKeyList(cat[db], t), Kept) :
                        image'[db].tables = [image[db].tables EXCEPT ![t].fks = keys]
  BY <1>0, <1>a, <1>3 DEF SqliteForeignKeys, Here
<1>4. QED
  BY <1>1, <1>2, <1>3 DEF SqliteColumns, SqliteIndexList, SqliteIndexInfo, SqliteForeignKeys, Answered, Here

\* Every step keeps it: a loop runs over tables that were listed.
LEMMA LoopInvStep == TypeInv /\ LoopInv /\ [DiffNext]_diffVars => LoopInv'
<1> SUFFICES ASSUME TypeInv, LoopInv, [DiffNext]_diffVars PROVE LoopInv'
  OBVIOUS
<1>0. TypeInv' /\ Grows /\ db \in Databases
  BY TypeInvStep DEF TypeInv
<1>1. CASE Connect
  <2>1. CASE stage' = "exit"
    BY <2>1 DEF LoopInv
  <2>2. CASE stage' \in {"open", "ping", "wait"}
    <3>1. pending' = pending /\ stage \in {"open", "ping", "wait"}
      BY <1>1 DEF Connect, OpenHandle, NoDSN, OpenFails, PingFails, Waited, Connected, Retry, Exit, loop
    <3>2. QED
      BY <2>2, <3>1 DEF LoopInv
  <2>3. CASE stage' = Queries[1]
    <3>1. pending' = pending /\ stage \in {"open", "ping", "wait"} /\ driver' = driver
      BY <1>1 DEF Connect, OpenHandle, NoDSN, OpenFails, PingFails, Waited, Connected, Retry, Exit, loop
    <3>2. driver = "sqlite" => stage' = "tables"
      BY <2>3, QueriesAre
    <3>3. QED
      BY <3>1, <3>2 DEF LoopInv
  <2>4. stage' \in {"exit", "open", "ping", "wait", Queries[1]}
    BY <1>1, PlanType DEF Connect, OpenHandle, NoDSN, OpenFails, PingFails, Waited, Connected, Retry, Exit
  <2>5. QED
    BY <2>1, <2>2, <2>3, <2>4
<1>2. CASE LoadStep
  <2>1. PICK new : Load(new) /\ IsImage(new)
    BY <1>2, LoadStepIs
  <2>2. Advance /\ todo' = DOMAIN new.tables /\ image'[db] = new /\ Loading
    BY <1>2, <2>1, LoadIs, LoadStepIs
  <2>3. pending = {} /\ pending' = {} /\ driver' = driver
    <3>1. pending = {}
      BY <1>2, <2>2, LoadStepIs, SteadyIsNotLoading DEF LoopInv, Steady
    <3>2. QED
      BY <1>0, <2>2, <3>1, AdvanceFrame
  <2>4. driver = "sqlite" => stage' # "columns"
    BY <1>2, <2>2, LoadStepIs, SqliteAdvances
  <2>5. driver = "sqlite" /\ stage' \in {"indexes", "fks"} => db' = db
    BY <1>2, <2>2, LoadStepIs, SqliteAdvances
  <2>6. QED
    BY <2>2, <2>3, <2>4, <2>5 DEF LoopInv
<1>3. CASE LoopStep
  <2>1. UNCHANGED <<driver, db, stage, seen>> /\ driver = "sqlite" /\ Loading
    BY <1>3, LoopStepIs
  <2>2. cat[db] \in seen[db] /\ stage # "exit"
    BY <2>1, SteadyIsNotLoading DEF TypeInv, Steady
  <2>3. CASE SqliteColumns
    BY <1>3, <2>1, <2>2, <2>3, LoopTablesAre DEF LoopInv
  <2>4. CASE SqliteIndexList
    <3>1. stage = "indexes" /\ pending = {} /\ image' = image
      BY <1>3, <2>4, LoopTablesAre
    <3>2. PICK t \in todo : todo' = todo \ {t} /\ table' = t /\ pending' = SQLiteIndexList(cat[db], t)
      BY <1>3, <2>4, LoopTablesAre
    <3>3. \A i \in pending' : \E x \in cat[db].indexes :
              x.table = t /\ x.origin = "c" /\ x.name = i.name /\ x.unique = i.unique
      BY <3>2 DEF SQLiteIndexList
    <3>4. todo \subseteq DOMAIN image[db].tables
      BY <2>1, <3>1 DEF LoopInv
    <3>5. QED
      BY <2>1, <2>2, <3>1, <3>2, <3>3, <3>4 DEF LoopInv
  <2>5. CASE SqliteIndexInfo
    <3>1. stage = "indexes" /\ todo' = todo /\ table' = table /\ DOMAIN image'[db].tables = DOMAIN image[db].tables
      BY <1>3, <2>5, LoopTablesAre
    <3>2. pending' \subseteq pending
      BY <1>3, <2>5, LoopTablesAre
    <3>3. QED
      BY <2>1, <3>1, <3>2 DEF LoopInv
  <2>6. CASE SqliteForeignKeys
    <3>1. stage = "fks" /\ todo' \subseteq todo /\ DOMAIN image'[db].tables = DOMAIN image[db].tables
      BY <1>3, <2>6, LoopTablesAre
    <3>2. pending' = pending
      BY <1>3, <2>6, LoopTablesAre
    <3>3. QED
      BY <2>1, <3>1, <3>2 DEF LoopInv
  <2>7. QED
    BY <1>3, <2>3, <2>4, <2>5, <2>6 DEF LoopStep
<1>4. CASE SqliteTables
  <2>1. /\ Loading /\ Advance /\ driver = "sqlite" /\ stage = "tables"
        /\ todo' = ListSqliteTables(cat[db])
    BY <1>4, SqliteTablesIs
  <2>2. stage' = "columns" /\ UNCHANGED <<db, seen>> /\ driver' = driver /\ pending' = pending
    BY <1>0, <2>1, SqliteAdvances, AdvanceFrame
  <2>3. pending = {} /\ cat[db] \in seen[db]
    BY <2>1 DEF LoopInv, TypeInv
  <2>4. \A t \in todo' : ~ Skipped(IgnoreTables, t) /\ \E x \in cat[db].tables : x.name = t
    BY <2>1 DEF ListSqliteTables, Named
  <2>5. QED
    BY <2>1, <2>2, <2>3, <2>4 DEF LoopInv
<1>5. CASE QueryFails \/ Compare \/ ReportFails
  <2>1. stage' = "exit"
    BY <1>5 DEF QueryFails, Compare, ReportFails, Exit
  <2>2. QED
    BY <2>1 DEF LoopInv
<1>6. CASE OtherClient
  <2>1. UNCHANGED <<driver, db, stage, image, loop>>
    BY <1>6 DEF OtherClient
  <2>2. seen[db] \subseteq seen'[db]
    BY <1>0 DEF Grows
  <2>3. UNCHANGED <<todo, table, pending>>
    BY <2>1 DEF loop
  <2>4. QED
    BY <2>1, <2>2, <2>3 DEF LoopInv
<1>7. CASE UNCHANGED diffVars
  <2>1. UNCHANGED <<driver, db, stage, image, todo, table, pending, seen>>
    BY <1>7 DEF diffVars, loop
  <2>2. QED
    BY <2>1 DEF LoopInv
<1>8. QED
  BY <1>1, <1>2, <1>3, <1>4, <1>5, <1>6, <1>7, LoadSchemaIs DEF DiffNext, Command

----------------------------------------------------------------------------
(* What stood goes on having stood. *)

\* A set with two different members has more than one.
LEMMA TwoOf ==
    ASSUME NEW S, IsFiniteSet(S), NEW a \in S, NEW b \in S, a # b
    PROVE  Cardinality(S) > 1
<1>1. IsFiniteSet({a}) /\ Cardinality({a}) = 1
  BY FS_Singleton
<1>2. IsFiniteSet({a} \cup {b}) /\ Cardinality({a} \cup {b}) = 2
  <2>1. b \notin {a}
    OBVIOUS
  <2>2. IsFiniteSet({a} \cup {b}) /\ Cardinality({a} \cup {b}) = Cardinality({a}) + 1
    BY <1>1, <2>1, FS_AddElement, Zenon
  <2>3. QED
    BY <1>1, <2>2
<1>3. Cardinality({a} \cup {b}) <= Cardinality(S)
  BY FS_Subset
<1>4. Cardinality(S) \in Nat
  BY FS_CardinalityType
<1>5. QED
  BY <1>2, <1>3, <1>4

\* A part that stood goes on having stood,
LEMMA HeldGrows ==
    ASSUME NEW p, NEW S, NEW T, S \subseteq T, IsFiniteSet(T), Held(p, S)
    PROVE  Held(p, T)
<1>1. CASE \E c \in S : p \in Parts(c)
  BY <1>1 DEF Held
<1>2. CASE Cardinality(S) > 1 /\ OfTwoQueries(p, S)
  <2>1. Cardinality(S) <= Cardinality(T) /\ Cardinality(S) \in Nat /\ Cardinality(T) \in Nat
    BY FS_Subset, FS_CardinalityType
  <2>2. OfTwoQueries(p, T)
    BY <1>2 DEF OfTwoQueries
  <2>3. QED
    BY <1>2, <2>1, <2>2 DEF Held
<1>3. QED
  BY <1>1, <1>2 DEF Held

\* and so do tables.
LEMMA TablesGrow ==
    ASSUME NEW x, NEW S, NEW T, S \subseteq T, IsFiniteSet(T), TablesStood(x, S)
    PROVE  TablesStood(x, T)
BY HeldGrows DEF TablesStood, TableStood

\* Whether the other parts stood depends on the driver alone.
LEMMA OthersKept ==
    ASSUME driver' = driver
    PROVE  \A x, S : /\ ViewsStood(x, S)' <=> ViewsStood(x, S)
                     /\ TriggersStood(x, S)' <=> TriggersStood(x, S)
                     /\ SequencesStood(x, S)' <=> SequencesStood(x, S)
                     /\ RoutinesStood(x, S)' <=> RoutinesStood(x, S)
                     /\ Half(x, S)' <=> Half(x, S)
<1>1. \A x, S : ViewsStood(x, S)' <=> ViewsStood(x, S)
  BY PartsKept DEF ViewsStood, ViewPart, ViewName
<1>2. \A x, S : TriggersStood(x, S)' <=> TriggersStood(x, S)
  BY PartsKept DEF TriggersStood, TriggerPart
<1>3. \A x, S : SequencesStood(x, S)' <=> SequencesStood(x, S)
  BY PartsKept DEF SequencesStood, SequencePart
<1>4. \A x, S : RoutinesStood(x, S)' <=> RoutinesStood(x, S)
  BY HeldKept DEF RoutinesStood, RoutinePart
<1>5. \A x, S : Half(x, S)' <=> Half(x, S)
  BY DEF Half
<1>6. QED
  BY <1>1, <1>2, <1>3, <1>4, <1>5

\* What stood goes on having stood.
LEMMA Carried ==
    ASSUME driver' = driver, NEW S, NEW T, S \subseteq T, IsFiniteSet(T), NEW x
    PROVE  /\ TablesStood(x, S) => TablesStood(x, T)'
           /\ ViewsStood(x, S) => ViewsStood(x, T)'
           /\ TriggersStood(x, S) => TriggersStood(x, T)'
           /\ SequencesStood(x, S) => SequencesStood(x, T)'
           /\ RoutinesStood(x, S) => RoutinesStood(x, T)'
           /\ Half(x, S) => Half(x, T)'
<1>1. TablesStood(x, S) => TablesStood(x, T)'
  BY TablesGrow, TablesKept
<1>2. ViewsStood(x, S) => ViewsStood(x, T)'
  <2>1. ViewsStood(x, S) => ViewsStood(x, T)
    BY DEF ViewsStood
  <2>2. QED
    BY <2>1, OthersKept
<1>3. TriggersStood(x, S) => TriggersStood(x, T)'
  <2>1. TriggersStood(x, S) => TriggersStood(x, T)
    BY DEF TriggersStood
  <2>2. QED
    BY <2>1, OthersKept
<1>4. SequencesStood(x, S) => SequencesStood(x, T)'
  <2>1. SequencesStood(x, S) => SequencesStood(x, T)
    BY DEF SequencesStood
  <2>2. QED
    BY <2>1, OthersKept
<1>5. RoutinesStood(x, S) => RoutinesStood(x, T)'
  <2>1. RoutinesStood(x, S) => RoutinesStood(x, T)
    BY HeldGrows DEF RoutinesStood
  <2>2. QED
    BY <2>1, OthersKept
<1>6. Half(x, S) => Half(x, T)'
  <2>1. Half(x, S) => Half(x, T)
    BY DEF Half
  <2>2. QED
    BY <2>1, OthersKept
<1>7. QED
  BY <1>1, <1>2, <1>3, <1>4, <1>5, <1>6

Clear(d) == \A c \in seen[d] : Unambiguous(c)

\* Catalogs that are all unambiguous were so before a step.
LEMMA ClearBefore ==
    ASSUME Grows, NEW d \in Databases, Clear(d)'
    PROVE  Clear(d)
BY UnambiguousKept DEF Clear, Grows

\* A step that leaves the image of a database as it is.
LEMMA StaysStood ==
    ASSUME TypeInv', Grows, NEW d \in Databases, ImageStood(d), image'[d] = image[d],
           HalfLoaded(d)' <=> HalfLoaded(d)
    PROVE  ImageStood(d)'
<1>1. driver' = driver /\ seen[d] \subseteq seen'[d] /\ IsFiniteSet(seen'[d])
  BY DEF Grows, TypeInv
<1>2. /\ TablesStood(image[d].tables, seen[d])' /\ ViewsStood(image[d].views, seen[d])'
      /\ TriggersStood(image[d].triggers, seen[d])' /\ SequencesStood(image[d].sequences, seen[d])'
      /\ HalfLoaded(d) => Half(image[d].routines, seen[d])'
      /\ ~ HalfLoaded(d) => RoutinesStood(image[d].routines, seen[d])'
  BY <1>1, Carried DEF ImageStood
<1>3. QED
  BY <1>2 DEF ImageStood

----------------------------------------------------------------------------
(* Every answer stood: the loaders that answer in full. *)

RoutinesLeft(x, S) == IF driver = "mysql" /\ stage = "routines" THEN Half(x, S) ELSE RoutinesStood(x, S)

\* What an answer of a query leaves, if it is to go on.
Stands(new, S) ==
    /\ TablesStood(new.tables, S) /\ ViewsStood(new.views, S)
    /\ TriggersStood(new.triggers, S) /\ SequencesStood(new.sequences, S)
    /\ RoutinesLeft(new.routines, S)

\* What has been loaded when a query is answered stood.
LEMMA OldStood ==
    ASSUME TypeInv, StoodInv, Loading, NEW d \in Databases, Clear(d)
    PROVE  ImageStood(d)
<1>1. result = "none"
  BY SteadyIsNotLoading DEF TypeInv, Steady
<1>2. QED
  BY <1>1 DEF StoodInv, Clear

\* A step of a loader keeps StoodInv when the new image of the database stood.
LEMMA LoadStood ==
    ASSUME TypeInv, StoodInv, Loading, NEW new, Load(new), IsImage(new),
           Clear(db) => Stands(new, seen[db])
    PROVE  StoodInv'
<1>1. /\ Advance /\ DOMAIN image' = Databases /\ image'[db] = new /\ db \in Databases
      /\ \A d \in Databases : d # db => image'[d] = image[d]
      /\ \A d \in Databases : IsImage(image'[d])
  BY LoadIs DEF TypeInv
<1>2. TypeInv' /\ Grows
  BY <1>1, AdvanceType
<1>3. \A d \in Databases : HalfLoaded(d)' <=> d = db /\ driver = "mysql" /\ stage = "routines"
  <2>1. driver' = driver /\ (db' = db \/ (db = "prod" /\ db' = "dev"))
    BY <1>1, AdvanceFrame
  <2>2. driver = "mysql" => (stage = "routines" => stage' = "parameters" /\ db' = db)
                            /\ (stage # "routines" => stage' # "parameters")
    BY <1>1, MySQLAdvances
  <2>3. QED
    BY <2>1, <2>2 DEF HalfLoaded
<1>4. ASSUME NEW d \in Databases, Clear(d)'
      PROVE  ImageStood(d)'
  <2>1. Clear(d)
    BY <1>2, <1>4, ClearBefore
  <2>2. driver' = driver /\ seen[d] \subseteq seen'[d] /\ IsFiniteSet(seen'[d])
    BY <1>2 DEF Grows, TypeInv
  <2>3. CASE d = db
    <3>1. Stands(new, seen[db]) /\ image'[d] = new
      BY <1>1, <2>1, <2>3
    <3>2. /\ TablesStood(image[d].tables, seen[d])' /\ ViewsStood(image[d].views, seen[d])'
          /\ TriggersStood(image[d].triggers, seen[d])' /\ SequencesStood(image[d].sequences, seen[d])'
          /\ driver = "mysql" /\ stage = "routines" => Half(image[d].routines, seen[d])'
          /\ ~ (driver = "mysql" /\ stage = "routines") => RoutinesStood(image[d].routines, seen[d])'
      BY <2>2, <2>3, <3>1, Carried DEF Stands, RoutinesLeft
    <3>3. QED
      BY <1>3, <2>3, <3>2 DEF ImageStood
  <2>4. CASE d # db
    <3>1. ImageStood(d)
      BY <2>1, OldStood
    <3>2. ~ HalfLoaded(d) /\ ~ HalfLoaded(d)'
      BY <1>3, <2>4 DEF HalfLoaded
    <3>3. QED
      BY <1>1, <1>2, <2>4, <3>1, <3>2, StaysStood
  <2>5. QED
    BY <2>3, <2>4
<1>5. (StoodInv <=> (result # "failed" => \A d \in Databases : Clear(d) => ImageStood(d)))'
  BY DEF StoodInv, Clear
<1>6. QED
  BY <1>4, <1>5

\* Where a catalog of now is one of those seen.
LEMMA HereIs ==
    ASSUME TypeInv, Loading
    PROVE  /\ Here = cat[db] /\ Here \in seen[db] /\ db \in Databases /\ driver \in Five
           /\ WellFormed(driver, Here) /\ (Clear(db) => Unambiguous(Here)) /\ IsFiniteSet(seen[db])
           /\ \A c \in seen[db] : WellFormed(driver, c)
BY DiffAssumption, CatalogAssumption DEF TypeInv, Here, Clear, Five

\* Most queries leave the routines as they are.
LEMMA RoutinesAsTheyWere ==
    ASSUME ImageStood(db), stage \notin {"routines", "parameters"}
    PROVE  RoutinesLeft(image[db].routines, seen[db])
BY DEF ImageStood, HalfLoaded, RoutinesLeft

\* Tables come with their columns and key from the catalog of the query.
LEMMA LoadColumnsStands ==
    ASSUME TypeInv, StoodInv, LoadColumns
    PROVE  StoodInv'
<1>1. Loading /\ stage = "columns" /\ driver \in Querying
  BY PlansLoad DEF LoadColumns, Answered, Querying
<1>2. PICK rows : /\ Load([Loaded EXCEPT !.tables = ScanColumns(rows)])
                  /\ rows = ColumnRows(Listed(Here))
  BY <1>1, ColumnAnswerIs DEF LoadColumns, Querying
<1> DEFINE new == [Loaded EXCEPT !.tables = ScanColumns(rows)]
<1>b. Loaded = image[db] /\ DOMAIN Loaded = {"tables", "views", "routines", "triggers", "sequences"}
  BY DEF TypeInv, Loaded, IsImage
<1>3. /\ IsImage(new) /\ new.tables = ScanColumns(rows) /\ new.views = image[db].views
      /\ new.routines = image[db].routines /\ new.triggers = image[db].triggers
      /\ new.sequences = image[db].sequences
  BY <1>b DEF IsImage
<1>4. /\ Here \in seen[db] /\ WellFormed(driver, Here) /\ db \in Databases
  BY <1>1, HereIs
<1> HIDE DEF new
<1>5. ASSUME Clear(db) PROVE Stands(new, seen[db])
  <2>1. ImageStood(db)
    BY <1>1, <1>4, <1>5, OldStood
  <2>2. /\ \A n \in DOMAIN new.tables : ~ Skipped(IgnoreTables, n)
        /\ \A n \in DOMAIN new.tables : \E t \in Relations(Here) : t.name = n
        /\ \A t \in Relations(Here) : t.name \in DOMAIN new.tables => new.tables[t.name] = Bones(t)
    BY <1>2, <1>3, <1>4, LoadedColumnsAre
  <2>3. ASSUME NEW n \in DOMAIN new.tables PROVE TableStood(n, new.tables[n], seen[db])
    <3>1. PICK t \in Relations(Here) : t.name = n
      BY <2>2
    <3>2. new.tables[n] = Bones(t) /\ ~ Skipped(IgnoreTables, t.name)
      BY <2>2, <3>1
    <3>3. AsTuple(t) \in Parts(Here)
      BY <3>2, TablePartsHold DEF Stays
    <3>4. TablePart(n, new.tables[n]) = AsTuple(t)
      BY <3>1, <3>2 DEF TablePart, Bones, AsTuple, ColumnsByName
    <3>5. Held(TablePart(n, new.tables[n]), seen[db])
      BY <1>4, <3>3, <3>4 DEF Held
    <3>6. DOMAIN new.tables[n] = Fields /\ DOMAIN new.tables[n].indexes = {} /\ DOMAIN new.tables[n].fks = {}
      BY <3>2 DEF Bones, Fields, NoParts
    <3>7. QED
      BY <1>4, <2>2, <3>1, <3>5, <3>6 DEF TableStood
  <2>4. RoutinesLeft(new.routines, seen[db])
    BY <1>1, <1>3, <2>1, RoutinesAsTheyWere
  <2>5. QED
    BY <1>3, <2>1, <2>3, <2>4 DEF Stands, TablesStood, ImageStood
<1>6. QED
  BY <1>1, <1>2, <1>3, <1>5, LoadStood DEF new

\* An index as a query of the indexes told it.
LEMMA IndexHolds ==
    ASSUME NEW S, IsFiniteSet(S), \A c \in S : WellFormed(driver, c), driver \in Five,
           NEW c \in S, NEW i \in c.indexes, IndexListed(c, i),
           ~ Skipped(IgnoreTables, i.table), NEW d \in S, \E t \in Relations(d) : t.name = i.table
    PROVE  Held(IndexPart(i), S)
<1>1. CASE \E t \in Relations(c) : t.name = i.table
  <2>1. IndexPart(i) \in Parts(c)
    BY <1>1, TablePartsHold DEF Stays
  <2>2. QED
    BY <2>1 DEF Held
<1>2. CASE /\ driver = "postgres" /\ \E v \in c.views : v.mat /\ v.name = i.table
           /\ \A t \in Relations(c) : t.name # i.table
  <2>1. c # d
    BY <1>2
  <2>2. Cardinality(S) > 1
    BY <2>1, TwoOf
  <2>3. IndexPart(i)[1] = "index" /\ IndexPart(i)[2] = i.table
    BY DEF IndexPart
  <2>4. OfTwoQueries(IndexPart(i), S)
    BY <1>2, <2>3 DEF OfTwoQueries, IndexPart, IndexListed
  <2>5. QED
    BY <2>2, <2>4 DEF Held
<1>3. QED
  BY <1>1, <1>2, IndexAtHome DEF IndexListed

\* Indexes are added to tables that were loaded, and to no other.
LEMMA LoadIndexesStands ==
    ASSUME TypeInv, StoodInv, LoadIndexes
    PROVE  StoodInv'
<1>1. Loading /\ stage = "indexes" /\ driver \in Querying
  BY PlansLoad DEF LoadIndexes, Answered, Querying
<1>2. Load([Loaded EXCEPT !.tables = GroupIndexes(@, IndexAnswer(Here))])
  BY <1>1, IndexAnswerIs DEF LoadIndexes, Querying
<1> DEFINE old == image[db].tables
           tables == GroupIndexes(old, IndexAnswer(Here))
           new == [Loaded EXCEPT !.tables = tables]
<1>b. Loaded = image[db] /\ DOMAIN Loaded = {"tables", "views", "routines", "triggers", "sequences"}
  BY DEF TypeInv, Loaded, IsImage
<1>a. Load(new)
  BY <1>2 DEF Loaded
<1> HIDE DEF tables, old
<1>3. /\ IsImage(new) /\ new.tables = tables /\ new.views = image[db].views
      /\ new.routines = image[db].routines /\ new.triggers = image[db].triggers
      /\ new.sequences = image[db].sequences
  BY <1>b DEF IsImage
<1>4. /\ Here \in seen[db] /\ WellFormed(driver, Here) /\ db \in Databases /\ driver \in Five
      /\ IsFiniteSet(seen[db]) /\ \A c \in seen[db] : WellFormed(driver, c)
  BY <1>1, HereIs
<1> HIDE DEF new
<1>5. ASSUME Clear(db) PROVE Stands(new, seen[db])
  <2>1. ImageStood(db)
    BY <1>1, <1>4, <1>5, OldStood
  <2>2. DOMAIN tables = DOMAIN old
    BY DEF tables, GroupIndexes
  <2>3. ASSUME NEW n \in DOMAIN tables PROVE TableStood(n, tables[n], seen[db])
    <3>1. n \in DOMAIN old /\ TableStood(n, old[n], seen[db])
      BY <2>1, <2>2 DEF ImageStood, TablesStood, old
    <3>2. "indexes" \in DOMAIN old[n]
      BY <3>1 DEF TableStood, Fields
    <3>3. Indexed(Here, n, old[n], tables[n])
      <4>1. GoodIndexes(Here)
        BY <1>4, IndexesAreGood
      <4>2. QED
        BY <1>1, <3>1, <3>2, <4>1, GroupIndexesIs DEF tables
    <3>4. /\ DOMAIN tables[n] = Fields /\ tables[n].cols = old[n].cols /\ tables[n].key = old[n].key
          /\ tables[n].fks = old[n].fks
      BY <3>1, <3>3 DEF TableStood, Fields, Indexed
    <3>5. ASSUME NEW x \in DOMAIN tables[n].indexes
          PROVE  Held(IndexImage(n, x, tables[n].indexes[x]), seen[db])
      <4>1. PICK i \in Secondaries(Here, n) : i.name = x
        BY <3>3 DEF Indexed
      <4>2. i \in Here.indexes /\ IndexListed(Here, i) /\ i.table = n
        BY <4>1 DEF Secondary, Secondaries, Found, IndexListed
      <4>3. IndexImage(n, x, tables[n].indexes[x]) = IndexPart(i)
        <5>1. tables[n].indexes[x] = [cols |-> Reported(i), unique |-> i.unique]
          BY <3>3, <4>1 DEF Indexed
        <5>2. QED
          BY <4>1, <4>2, <5>1 DEF IndexImage, IndexPart
      <4>4. PICK d \in seen[db] : \E t \in Relations(d) : t.name = i.table
        BY <3>1, <4>2 DEF TableStood
      <4>5. ~ Skipped(IgnoreTables, i.table)
        BY <3>1, <4>2 DEF TableStood
      <4>6. Held(IndexPart(i), seen[db])
        BY <1>4, <4>2, <4>4, <4>5, IndexHolds
      <4>7. QED
        BY <4>3, <4>6
    <3>6. QED
      BY <3>1, <3>4, <3>5 DEF TableStood, TablePart
  <2>4. RoutinesLeft(new.routines, seen[db])
    BY <1>1, <1>3, <2>1, RoutinesAsTheyWere
  <2>5. QED
    BY <1>3, <2>1, <2>3, <2>4 DEF Stands, TablesStood, ImageStood
<1>6. QED
  BY <1>1, <1>a, <1>3, <1>5, LoadStood

\* A foreign key as a query of the foreign keys told it.
LEMMA KeyHolds ==
    ASSUME NEW c, WellFormed(driver, c), NEW S, c \in S, NEW f \in c.fks, KeyListed(c, f),
           ~ Skipped(IgnoreTables, f.table), NEW n, n = f.table, NEW k, k = f.name
    PROVE  Held(KeyPlace(n, k, KeyImage(Told(f))), S)
<1>1. KeyPart(f) \in Parts(c)
  BY KeyAtHome, TablePartsHold DEF Stays
<1>2. KeyPlace(n, k, KeyImage(Told(f))) = KeyPart(f)
  <2>1. /\ Told(f).cols = f.cols /\ Told(f).refTable = f.refTable /\ Told(f).refCols = f.refCols
        /\ driver # "oracle" => Told(f).rules = f.rules
        /\ driver = "oracle" => Told(f).rules = <<f.rules[1], "NO ACTION">>
    BY ToldIs
  <2>2. QED
    BY <2>1 DEF KeyPlace, KeyImage, KeyPart
<1>3. QED
  BY <1>1, <1>2 DEF Held

\* The keys of one table.
LEMMA KeysHold ==
    ASSUME NEW c, WellFormed(driver, c), Unambiguous(c), NEW S, c \in S, NEW n, ~ Skipped(IgnoreTables, n),
           NEW keys, Keyed(ToldKeys(c), n, keys)
    PROVE  \A k \in DOMAIN keys : Held(KeyPlace(n, k, keys[k]), S)
<1> SUFFICES ASSUME NEW k \in DOMAIN keys PROVE Held(KeyPlace(n, k, keys[k]), S)
  OBVIOUS
<1>1. PICK g \in KeysOf(ToldKeys(c), n) : g.name = k
  BY DEF Keyed
<1>2. PICK f \in c.fks : KeyListed(c, f) /\ g = Told(f)
  BY <1>1 DEF KeysOf, ToldKeys, KeysListed
<1>3. f.table = n /\ f.name = k
  BY <1>1, <1>2, ToldIs DEF KeysOf
<1>4. keys[k] = KeyImage(Told(f))
  BY <1>1, <1>2 DEF Keyed
<1>5. QED
  BY <1>2, <1>3, <1>4, KeyHolds

\* Which rows LoadForeignKeys groups.
LEMMA LoadForeignKeysIs ==
    ASSUME TypeInv, LoadForeignKeys
    PROVE  /\ Loading /\ stage = "fks" /\ driver \in Querying
           /\ \E rows, keys :
                  /\ Clear(db) => rows = KeyAnswer(ToldKeys(Here))
                  /\ \A t \in DOMAIN Loaded.tables : keys[t] \in GroupForeignKeys(RowsOfTable(rows, t), Kept)
                  /\ Load([Loaded EXCEPT !.tables = WithForeignKeys(@, keys)])
<1>1. Loading /\ stage = "fks" /\ driver \in Querying
  BY PlansLoad DEF LoadForeignKeys, Answered, Querying
<1> DEFINE rows == CASE driver = "mysql" -> MySQLForeignKeys(Here)
                   [] driver = "postgres" -> PostgreSQLForeignKeys(Here)
                   [] driver = "mssql" -> MSSQLForeignKeys(Here)
                   [] driver = "oracle" -> OracleForeignKeys(Here)
           Images(t) == GroupForeignKeys({r \in rows : r.table = t}, Kept)
           tables == DOMAIN Loaded.tables
<1>2. Clear(db) => rows = KeyAnswer(ToldKeys(Here))
  BY <1>1, HereIs, KeyAnswerIs DEF Querying
<1>3. \E keys \in {f \in [tables -> UNION {Images(t) : t \in tables}] : \A t \in tables : f[t] \in Images(t)} :
          Load([Loaded EXCEPT !.tables = WithForeignKeys(@, keys)])
  BY DEF LoadForeignKeys
<1>4. \A t : Images(t) = GroupForeignKeys(RowsOfTable(rows, t), Kept)
  BY DEF RowsOfTable
<1> HIDE DEF rows, Images
<1>5. PICK keys : /\ \A t \in tables : keys[t] \in Images(t)
                  /\ Load([Loaded EXCEPT !.tables = WithForeignKeys(@, keys)])
  BY <1>3
<1>6. QED
  BY <1>1, <1>2, <1>4, <1>5

\* So are foreign keys.
LEMMA LoadForeignKeysStands ==
    ASSUME TypeInv, StoodInv, LoadForeignKeys
    PROVE  StoodInv'
<1>1. Loading /\ stage = "fks" /\ driver \in Querying
  BY LoadForeignKeysIs
<1>3. PICK rows, keys :
          /\ Clear(db) => rows = KeyAnswer(ToldKeys(Here))
          /\ \A t \in DOMAIN Loaded.tables : keys[t] \in GroupForeignKeys(RowsOfTable(rows, t), Kept)
          /\ Load([Loaded EXCEPT !.tables = WithForeignKeys(@, keys)])
  BY LoadForeignKeysIs
<1> DEFINE old == image[db].tables
           tables == WithForeignKeys(old, keys)
           new == [Loaded EXCEPT !.tables = tables]
<1>b. Loaded = image[db] /\ DOMAIN Loaded = {"tables", "views", "routines", "triggers", "sequences"}
  BY DEF TypeInv, Loaded, IsImage
<1>a. Load(new) /\ DOMAIN Loaded.tables = DOMAIN old
  BY <1>3 DEF Loaded
<1> HIDE DEF tables, old
<1>4. /\ IsImage(new) /\ new.tables = tables /\ new.views = image[db].views
      /\ new.routines = image[db].routines /\ new.triggers = image[db].triggers
      /\ new.sequences = image[db].sequences
  BY <1>b DEF IsImage
<1>5. /\ Here \in seen[db] /\ WellFormed(driver, Here) /\ db \in Databases
      /\ Clear(db) => Unambiguous(Here)
  BY <1>1, HereIs
<1> HIDE DEF new
<1>6. ASSUME Clear(db) PROVE Stands(new, seen[db])
  <2>1. ImageStood(db)
    BY <1>1, <1>5, <1>6, OldStood
  <2>2. GoodKeys(ToldKeys(Here)) /\ Unambiguous(Here)
    BY <1>5, <1>6, KeysAreGood
  <2>3. ASSUME NEW n \in DOMAIN tables PROVE TableStood(n, tables[n], seen[db])
    <3>1. n \in DOMAIN old /\ tables[n] = [old[n] EXCEPT !.fks = keys[n]]
      BY DEF tables, WithForeignKeys
    <3>2. TableStood(n, old[n], seen[db])
      BY <2>1, <3>1 DEF ImageStood, TablesStood, old
    <3>3. keys[n] \in GroupForeignKeys(RowsOfTable(KeyAnswer(ToldKeys(Here)), n), Kept)
      BY <1>3, <1>6, <1>a, <3>1
    <3>4. Keyed(ToldKeys(Here), n, keys[n])
      BY <2>2, <3>3, GroupForeignKeysIs
    <3>5. \A k \in DOMAIN keys[n] : Held(KeyPlace(n, k, keys[n][k]), seen[db])
      BY <1>5, <2>2, <3>2, <3>4, KeysHold DEF TableStood
    <3>6. /\ DOMAIN tables[n] = Fields /\ tables[n].cols = old[n].cols /\ tables[n].key = old[n].key
          /\ tables[n].indexes = old[n].indexes /\ tables[n].fks = keys[n]
      BY <3>1, <3>2 DEF TableStood, Fields
    <3>7. QED
      BY <3>2, <3>5, <3>6 DEF TableStood, TablePart
  <2>4. RoutinesLeft(new.routines, seen[db])
    BY <1>1, <1>4, <2>1, RoutinesAsTheyWere
  <2>5. QED
    BY <1>4, <2>1, <2>3, <2>4 DEF Stands, TablesStood, ImageStood
<1>7. QED
  BY <1>1, <1>a, <1>4, <1>6, LoadStood

\* The end of a loop changes no image.
LEMMA LoopEndsStands ==
    ASSUME TypeInv, StoodInv, LoopEnds
    PROVE  StoodInv'
<1>1. Loading /\ stage \in {"columns", "indexes", "fks"} /\ Load(image[db]) /\ IsImage(image[db])
      /\ driver = "sqlite" /\ db \in Databases
  BY PlansLoad DEF LoopEnds, Loaded, TypeInv
<1>2. Clear(db) => Stands(image[db], seen[db])
  BY <1>1, OldStood, RoutinesAsTheyWere DEF Stands, ImageStood
<1>3. QED
  BY <1>1, <1>2, LoadStood

\* Views come whole from the catalog of the query.
LEMMA LoadViewsStands ==
    ASSUME TypeInv, StoodInv, LoadViews
    PROVE  StoodInv'
<1>1. Loading /\ stage = "views" /\ driver \in {"mysql", "postgres", "sqlite"}
  BY PlansLoad DEF LoadViews, Answered
<1>2. PICK views :
          /\ \/ driver = "mysql" /\ views \in MySQLViews(Here)
             \/ driver = "postgres" /\ views \in PostgreSQLViews(Here, FALSE)
             \/ driver = "sqlite" /\ views \in SQLiteViews(Here)
          /\ Load([Loaded EXCEPT !.views = views])
  BY <1>1 DEF LoadViews
<1> DEFINE new == [Loaded EXCEPT !.views = views]
<1>b. Loaded = image[db] /\ DOMAIN Loaded = {"tables", "views", "routines", "triggers", "sequences"}
  BY DEF TypeInv, Loaded, IsImage
<1>3. /\ IsImage(new) /\ new.tables = image[db].tables /\ new.views = views
      /\ new.routines = image[db].routines /\ new.triggers = image[db].triggers
      /\ new.sequences = image[db].sequences
  BY <1>b DEF IsImage
<1>4. /\ Here \in seen[db] /\ WellFormed(driver, Here) /\ db \in Databases
  BY <1>1, HereIs
<1>5. Load(new)
  BY <1>2
<1> HIDE DEF new
<1>6. ViewsStood(views, seen[db])
  <2>1. \A n \in DOMAIN views : ViewPart(n, views[n]) \in Parts(Here) /\ (driver = "postgres" => n = <<Here.schema, n[2]>>)
    <3>1. CASE driver = "postgres"
      BY <1>2, <3>1, PostgreSQLViewsAre
    <3>2. CASE driver # "postgres"
      BY <1>2, <1>4, <3>2, PlainViewsAre
    <3>3. QED
      BY <3>1, <3>2
  <2>2. QED
    BY <1>4, <2>1 DEF ViewsStood
<1>7. Clear(db) => Stands(new, seen[db])
  BY <1>1, <1>3, <1>4, <1>6, OldStood, RoutinesAsTheyWere DEF Stands, ImageStood
<1>8. QED
  BY <1>1, <1>3, <1>5, <1>7, LoadStood

\* Materialized views are put over the views.
LEMMA LoadMaterializedViewsStands ==
    ASSUME TypeInv, StoodInv, LoadMaterializedViews
    PROVE  StoodInv'
<1>1. Loading /\ stage = "matviews" /\ driver = "postgres"
  BY PlansLoad DEF LoadMaterializedViews, Answered
<1>2. PICK views \in PostgreSQLViews(Here, TRUE) : Load([Loaded EXCEPT !.views = Over(views, @)])
  BY DEF LoadMaterializedViews
<1> DEFINE all == Over(views, image[db].views)
           new == [Loaded EXCEPT !.views = all]
<1>b. Loaded = image[db] /\ DOMAIN Loaded = {"tables", "views", "routines", "triggers", "sequences"}
  BY DEF TypeInv, Loaded, IsImage
<1>5. Load(new)
  BY <1>2, <1>b
<1> HIDE DEF all
<1>3. /\ IsImage(new) /\ new.tables = image[db].tables /\ new.views = all
      /\ new.routines = image[db].routines /\ new.triggers = image[db].triggers
      /\ new.sequences = image[db].sequences
  BY <1>b DEF IsImage
<1>4. /\ Here \in seen[db] /\ WellFormed(driver, Here) /\ db \in Databases
  BY <1>1, HereIs
<1> HIDE DEF new
<1>6. ASSUME Clear(db) PROVE Stands(new, seen[db])
  <2>1. ImageStood(db)
    BY <1>1, <1>4, <1>6, OldStood
  <2>2. ViewsStood(all, seen[db])
    <3>1. \A n \in DOMAIN views : ViewPart(n, views[n]) \in Parts(Here) /\ n = <<Here.schema, n[2]>>
      BY <1>1, PostgreSQLViewsAre
    <3>2. ViewsStood(image[db].views, seen[db])
      BY <2>1 DEF ImageStood
    <3>3. /\ DOMAIN all = DOMAIN views \cup DOMAIN image[db].views
          /\ \A n \in DOMAIN all : all[n] = IF n \in DOMAIN views THEN views[n] ELSE image[db].views[n]
      BY DEF all, Over
    <3>4. QED
      BY <1>4, <3>1, <3>2, <3>3 DEF ViewsStood
  <2>3. QED
    BY <1>1, <1>3, <2>1, <2>2, RoutinesAsTheyWere DEF Stands, ImageStood
<1>8. QED
  BY <1>1, <1>3, <1>5, <1>6, LoadStood

\* Triggers come whole from the catalog of the query.
LEMMA LoadTriggersStands ==
    ASSUME TypeInv, StoodInv, LoadTriggers
    PROVE  StoodInv'
<1>1. Loading /\ stage = "triggers" /\ driver \in {"mysql", "postgres", "sqlite"}
  BY PlansLoad DEF LoadTriggers, Answered
<1>2. PICK triggers :
          /\ \/ driver = "mysql" /\ triggers \in MySQLTriggers(Here)
             \/ driver = "postgres" /\ triggers \in PostgreSQLTriggers(Here)
             \/ driver = "sqlite" /\ triggers \in SQLiteTriggers(Here)
          /\ Load([Loaded EXCEPT !.triggers = triggers])
  BY <1>1 DEF LoadTriggers
<1> DEFINE new == [Loaded EXCEPT !.triggers = triggers]
<1>b. Loaded = image[db] /\ DOMAIN Loaded = {"tables", "views", "routines", "triggers", "sequences"}
  BY DEF TypeInv, Loaded, IsImage
<1>3. /\ IsImage(new) /\ new.tables = image[db].tables /\ new.views = image[db].views
      /\ new.routines = image[db].routines /\ new.triggers = triggers
      /\ new.sequences = image[db].sequences
  BY <1>b DEF IsImage
<1>4. /\ Here \in seen[db] /\ db \in Databases
  BY <1>1, HereIs
<1>5. Load(new)
  BY <1>2
<1> HIDE DEF new
<1>6. TriggersStood(triggers, seen[db])
  BY <1>2, <1>4, TriggersAre DEF TriggersStood
<1>7. Clear(db) => Stands(new, seen[db])
  BY <1>1, <1>3, <1>4, <1>6, OldStood, RoutinesAsTheyWere DEF Stands, ImageStood
<1>8. QED
  BY <1>1, <1>3, <1>5, <1>7, LoadStood

\* So do sequences.
LEMMA LoadSequencesStands ==
    ASSUME TypeInv, StoodInv, LoadSequences
    PROVE  StoodInv'
<1>1. Loading /\ stage = "sequences" /\ driver = "postgres"
  BY PlansLoad DEF LoadSequences, Answered
<1>2. PICK sequences \in PostgreSQLSequences(Here) : Load([Loaded EXCEPT !.sequences = sequences])
  BY DEF LoadSequences
<1> DEFINE new == [Loaded EXCEPT !.sequences = sequences]
<1>b. Loaded = image[db] /\ DOMAIN Loaded = {"tables", "views", "routines", "triggers", "sequences"}
  BY DEF TypeInv, Loaded, IsImage
<1>3. /\ IsImage(new) /\ new.tables = image[db].tables /\ new.views = image[db].views
      /\ new.routines = image[db].routines /\ new.triggers = image[db].triggers
      /\ new.sequences = sequences
  BY <1>b DEF IsImage
<1>4. /\ Here \in seen[db] /\ db \in Databases
  BY <1>1, HereIs
<1>5. Load(new)
  BY <1>2
<1> HIDE DEF new
<1>6. SequencesStood(sequences, seen[db])
  BY <1>1, <1>4, SequencesAre DEF SequencesStood
<1>7. Clear(db) => Stands(new, seen[db])
  BY <1>1, <1>3, <1>4, <1>6, OldStood, RoutinesAsTheyWere DEF Stands, ImageStood
<1>8. QED
  BY <1>1, <1>3, <1>5, <1>7, LoadStood

\* PostgreSQL's routines come whole, MySQL's wait for their parameters.
LEMMA LoadRoutinesStands ==
    ASSUME TypeInv, StoodInv, LoadRoutines
    PROVE  StoodInv'
<1>1. Loading /\ stage = "routines" /\ driver \in {"mysql", "postgres"}
  BY PlansLoad DEF LoadRoutines, Answered
<1>2. PICK routines :
          /\ \/ driver = "mysql" /\ routines \in MySQLRoutines(Here)
             \/ driver = "postgres" /\ routines \in PostgreSQLRoutines(Here)
          /\ Load([Loaded EXCEPT !.routines = routines])
  BY <1>1 DEF LoadRoutines
<1> DEFINE new == [Loaded EXCEPT !.routines = routines]
<1>b. Loaded = image[db] /\ DOMAIN Loaded = {"tables", "views", "routines", "triggers", "sequences"}
  BY DEF TypeInv, Loaded, IsImage
<1>3. /\ IsImage(new) /\ new.tables = image[db].tables /\ new.views = image[db].views
      /\ new.routines = routines /\ new.triggers = image[db].triggers
      /\ new.sequences = image[db].sequences
  BY <1>b DEF IsImage
<1>4. /\ Here \in seen[db] /\ db \in Databases
  BY <1>1, HereIs
<1>5. Load(new)
  BY <1>2
<1> HIDE DEF new
<1>6. RoutinesLeft(routines, seen[db])
  <2>1. CASE driver = "mysql"
    <3>1. Half(routines, {Here})
      BY <1>2, <2>1, MySQLRoutinesAre
    <3>2. Half(routines, seen[db])
      BY <1>4, <3>1 DEF Half
    <3>3. QED
      BY <1>1, <2>1, <3>2 DEF RoutinesLeft
  <2>2. CASE driver = "postgres"
    <3>1. RoutinesStood(routines, seen[db])
      BY <1>2, <1>4, <2>2, PostgreSQLRoutinesAre DEF RoutinesStood, Held
    <3>2. QED
      BY <2>2, <3>1 DEF RoutinesLeft
  <2>3. QED
    BY <1>1, <2>1, <2>2
<1>7. Clear(db) => Stands(new, seen[db])
  BY <1>1, <1>3, <1>4, <1>6, OldStood DEF Stands, ImageStood
<1>8. QED
  BY <1>1, <1>3, <1>5, <1>7, LoadStood

\* A routine with the parameters of a later catalog is one of two queries.
LEMMA LoadParametersStands ==
    ASSUME TypeInv, StoodInv, LoadParameters
    PROVE  StoodInv'
<1>1. Loading /\ stage = "parameters" /\ driver = "mysql"
  BY PlansLoad DEF LoadParameters, Answered
<1>2. PICK routines \in MySQLParameters(Here, Loaded.routines) : Load([Loaded EXCEPT !.routines = routines])
  BY DEF LoadParameters
<1> DEFINE new == [Loaded EXCEPT !.routines = routines]
<1>b. Loaded = image[db] /\ DOMAIN Loaded = {"tables", "views", "routines", "triggers", "sequences"}
  BY DEF TypeInv, Loaded, IsImage
<1>3. /\ IsImage(new) /\ new.tables = image[db].tables /\ new.views = image[db].views
      /\ new.routines = routines /\ new.triggers = image[db].triggers
      /\ new.sequences = image[db].sequences
  BY <1>b DEF IsImage
<1>4. /\ Here \in seen[db] /\ db \in Databases /\ WellFormed(driver, Here) /\ IsFiniteSet(seen[db])
      /\ Clear(db) => Unambiguous(Here)
  BY <1>1, HereIs
<1>5. Load(new) /\ routines \in MySQLParameters(Here, image[db].routines)
  BY <1>2, <1>b
<1> HIDE DEF new
<1>6. ASSUME Clear(db) PROVE Stands(new, seen[db])
  <2>1. ImageStood(db)
    BY <1>1, <1>4, <1>6, OldStood
  <2>2. Half(image[db].routines, seen[db])
    BY <1>1, <2>1 DEF ImageStood, HalfLoaded
  <2>3. \A n \in DOMAIN image[db].routines : DOMAIN image[db].routines[n] = {"kind", "def", "params"}
    <3> SUFFICES ASSUME NEW n \in DOMAIN image[db].routines
                 PROVE  DOMAIN image[db].routines[n] = {"kind", "def", "params"}
      OBVIOUS
    <3>1. \E r : image[db].routines[n] = [kind |-> r.kind, def |-> r.def, params |-> << >>]
      BY <2>2 DEF Half
    <3>2. QED
      BY <3>1
  <2>4. /\ DOMAIN routines = DOMAIN image[db].routines
        /\ \A n \in DOMAIN routines :
               /\ routines[n].kind = image[db].routines[n].kind /\ routines[n].def = image[db].routines[n].def
               /\ \A r \in Here.routines : r.name = n => routines[n].params = r.params
               /\ n \notin {r.name : r \in Here.routines} => routines[n].params = << >>
    <3>1. WithParameters(Here, image[db].routines, routines)
      BY <1>4, <1>5, <1>6, <2>3, ParametersAre
    <3>2. QED
      BY <3>1 DEF WithParameters
  <2>5. ASSUME NEW n \in DOMAIN routines
        PROVE  Held(RoutinePart(n, routines[n]), seen[db])
    <3>1. PICK c \in seen[db] : \E r \in Stays(IgnoreRoutines, c.routines) :
              r.name = n /\ image[db].routines[n] = [kind |-> r.kind, def |-> r.def, params |-> << >>]
      BY <2>2, <2>4 DEF Half
    <3>2. PICK r \in Stays(IgnoreRoutines, c.routines) :
              r.name = n /\ image[db].routines[n] = [kind |-> r.kind, def |-> r.def, params |-> << >>]
      BY <3>1
    <3>3. routines[n].kind = r.kind /\ routines[n].def = r.def /\ r \in c.routines
      BY <2>4, <3>2 DEF Stays
    <3>4. RoutinePart(n, routines[n]) = <<"routine", r.name, r.kind, r.def, routines[n].params>>
      BY <1>1, <3>2, <3>3 DEF RoutinePart
    <3>5. CASE c = Here
      <4>1. routines[n].params = r.params
        BY <2>4, <3>2, <3>3, <3>5
      <4>2. RoutinePart(n, routines[n]) \in Parts(c)
        BY <1>1, <3>2, <3>4, <4>1, OtherPartsHold DEF RoutineOf
      <4>3. QED
        BY <4>2 DEF Held
    <3>6. CASE c # Here
      <4>1. Cardinality(seen[db]) > 1
        BY <1>4, <3>6, TwoOf
      <4>2. OfTwoQueries(<<"routine", r.name, r.kind, r.def, routines[n].params>>, seen[db])
        <5>1. \E q \in UNION {d.routines : d \in seen[db]} : q.name = r.name /\ q.kind = r.kind /\ q.def = r.def
          BY <3>3
        <5>2. routines[n].params = << >> \/ \E q \in UNION {d.routines : d \in seen[db]} :
                  q.name = r.name /\ q.params = routines[n].params
          BY <1>4, <2>4, <3>2
        <5>3. QED
          BY <1>1, <5>1, <5>2 DEF OfTwoQueries
      <4>3. QED
        BY <3>4, <4>1, <4>2 DEF Held
    <3>7. QED
      BY <3>5, <3>6
  <2>6. RoutinesLeft(new.routines, seen[db])
    BY <1>1, <1>3, <2>5 DEF RoutinesLeft, RoutinesStood
  <2>7. QED
    BY <1>3, <2>1, <2>6 DEF Stands, ImageStood
<1>8. QED
  BY <1>1, <1>3, <1>5, <1>6, LoadStood

----------------------------------------------------------------------------
(* Every answer stood: SQLite's loops. *)

\* A step of SQLite's loops changes no more than the tables.
LEMMA LoopStepStood ==
    ASSUME TypeInv, StoodInv, LoopStep, Clear(db) => TablesStood(image'[db].tables, seen[db])
    PROVE  StoodInv'
<1>1. /\ Loading /\ driver = "sqlite" /\ UNCHANGED <<driver, cat, db, stage, result, seen>>
      /\ DOMAIN image' = Databases
      /\ \A d \in Databases : d # db => image'[d] = image[d]
      /\ IsImage(image'[db])
      /\ image'[db].views = image[db].views /\ image'[db].routines = image[db].routines
      /\ image'[db].triggers = image[db].triggers /\ image'[db].sequences = image[db].sequences
  BY LoopStepIs
<1>2. \A d \in Databases : IsImage(image'[d])
  BY <1>1 DEF TypeInv
<1>3. TypeInv' /\ Grows
  BY <1>1, <1>2, LoopStepType
<1>4. \A d : ~ HalfLoaded(d) /\ ~ HalfLoaded(d)'
  BY <1>1 DEF HalfLoaded
<1>5. ASSUME NEW d \in Databases, Clear(d)'
      PROVE  ImageStood(d)'
  <2>1. Clear(d) /\ ImageStood(d)
    BY <1>1, <1>3, <1>5, ClearBefore, OldStood
  <2>2. CASE d # db
    BY <1>1, <1>3, <1>4, <2>1, <2>2, StaysStood
  <2>3. CASE d = db
    <3>1. driver' = driver /\ seen[d] \subseteq seen'[d] /\ IsFiniteSet(seen'[d])
      BY <1>3 DEF Grows, TypeInv
    <3>2. /\ TablesStood(image'[d].tables, seen[d]) /\ ViewsStood(image'[d].views, seen[d])
          /\ TriggersStood(image'[d].triggers, seen[d]) /\ SequencesStood(image'[d].sequences, seen[d])
          /\ RoutinesStood(image'[d].routines, seen[d])
      BY <1>1, <1>4, <2>1, <2>3 DEF ImageStood
    <3>3. /\ TablesStood(image[d].tables, seen[d])' /\ ViewsStood(image[d].views, seen[d])'
          /\ TriggersStood(image[d].triggers, seen[d])' /\ SequencesStood(image[d].sequences, seen[d])'
          /\ RoutinesStood(image[d].routines, seen[d])'
      BY <3>1, <3>2, Carried
    <3>4. QED
      BY <1>4, <3>3 DEF ImageStood
  <2>4. QED
    BY <2>2, <2>3
<1>6. (StoodInv <=> (result # "failed" => \A d \in Databases : Clear(d) => ImageStood(d)))'
  BY DEF StoodInv, Clear
<1>7. QED
  BY <1>5, <1>6

\* A table that was dropped after it was listed is one of two queries.
LEMMA SqliteColumnsStands ==
    ASSUME TypeInv, LoopInv, StoodInv, SqliteColumns
    PROVE  StoodInv'
<1>1. LoopStep /\ Loading /\ driver = "sqlite"
  BY LoopStepIs DEF LoopStep
<1>2. stage = "columns" /\ \E t \in todo : image'[db].tables = Over([x \in {t} |-> ListSqliteColumns(cat[db], t)], image[db].tables)
  BY <1>1, LoopTablesAre
<1>3. PICK t \in todo : image'[db].tables = Over([x \in {t} |-> ListSqliteColumns(cat[db], t)], image[db].tables)
  BY <1>2
<1>4. /\ Here = cat[db] /\ Here \in seen[db] /\ WellFormed(driver, Here) /\ db \in Databases
      /\ IsFiniteSet(seen[db]) /\ \A c \in seen[db] : WellFormed(driver, c)
  BY <1>1, HereIs
<1>5. ~ Skipped(IgnoreTables, t) /\ \E c \in seen[db] : \E x \in c.tables : x.name = t
  BY <1>1, <1>2 DEF LoopInv
<1>6. PICK c \in seen[db] : \E x \in c.tables : x.name = t
  BY <1>5
<1> DEFINE new == ListSqliteColumns(Here, t)
<1>7. TableStood(t, new, seen[db])
  <2>1. CASE \E x \in Here.tables : x.name = t
    <3>1. PICK x \in Here.tables : x.name = t
      BY <2>1
    <3>2. Relations(Here) = Here.tables /\ new = Bones(x)
      BY <1>1, <1>4, <3>1, SqliteColumnsAre
    <3> HIDE DEF new
    <3>3. AsTuple(x) \in Parts(Here)
      BY <1>5, <3>1, <3>2, TablePartsHold DEF Stays
    <3>4. TablePart(t, new) = AsTuple(x)
      BY <3>1, <3>2 DEF TablePart, Bones, AsTuple, ColumnsByName
    <3>5. Held(TablePart(t, new), seen[db])
      BY <1>4, <3>3, <3>4 DEF Held
    <3>6. DOMAIN new = Fields /\ DOMAIN new.indexes = {} /\ DOMAIN new.fks = {}
      BY <3>2 DEF Bones, Fields, NoParts
    <3>7. QED
      BY <1>4, <1>5, <3>1, <3>2, <3>5, <3>6 DEF TableStood
  <2>2. CASE ~ \E x \in Here.tables : x.name = t
    <3>1. new = [cols |-> << >>, key |-> << >>, indexes |-> NoParts, fks |-> NoParts]
      BY <1>1, <1>4, <2>2, SqliteColumnsAre
    <3> HIDE DEF new
    <3>2. c # Here
      BY <1>6, <2>2
    <3>3. Cardinality(seen[db]) > 1
      BY <1>4, <3>2, TwoOf
    <3>4. TablePart(t, new) = <<"table", t, << >>, << >>>>
      BY <3>1 DEF TablePart
    <3>5. OfTwoQueries(TablePart(t, new), seen[db])
      <4>1. t \in {x.name : x \in c.tables}
        BY <1>6
      <4>2. QED
        BY <1>1, <3>4, <4>1 DEF OfTwoQueries
    <3>6. Held(TablePart(t, new), seen[db])
      BY <3>3, <3>5 DEF Held
    <3>7. DOMAIN new = Fields /\ DOMAIN new.indexes = {} /\ DOMAIN new.fks = {}
      BY <3>1 DEF Fields, NoParts
    <3>8. Relations(c) = c.tables
      BY <1>1, <1>4, SqliteColumnsAre
    <3>9. QED
      BY <1>5, <1>6, <3>6, <3>7, <3>8 DEF TableStood
  <2>3. QED
    BY <2>1, <2>2
<1>8. ASSUME Clear(db) PROVE TablesStood(image'[db].tables, seen[db])
  <2>1. TablesStood(image[db].tables, seen[db])
    BY <1>1, <1>4, <1>8, OldStood DEF ImageStood
  <2>2. /\ DOMAIN image'[db].tables = {t} \cup DOMAIN image[db].tables
        /\ image'[db].tables[t] = new
        /\ \A n \in DOMAIN image[db].tables : n # t => image'[db].tables[n] = image[db].tables[n]
    BY <1>3, <1>4 DEF Over
  <2> HIDE DEF new
  <2>3. QED
    BY <1>7, <2>1, <2>2 DEF TablesStood
<1>9. QED
  BY <1>1, <1>8, LoopStepStood

\* So is an index that changed after it was listed.
LEMMA SqliteIndexInfoStands ==
    ASSUME TypeInv, LoopInv, StoodInv, SqliteIndexInfo
    PROVE  StoodInv'
<1>1. LoopStep /\ Loading /\ driver = "sqlite"
  BY LoopStepIs DEF LoopStep
<1>2. stage = "indexes" /\ \E i \in pending :
          image'[db].tables = [image[db].tables EXCEPT ![table].indexes =
               Over([x \in {i.name} |-> [cols |-> Columns(SQLiteIndexInfo(cat[db], i.name)), unique |-> i.unique]], @)]
  BY <1>1, LoopTablesAre
<1>3. PICK i \in pending :
          image'[db].tables = [image[db].tables EXCEPT ![table].indexes =
               Over([x \in {i.name} |-> [cols |-> Columns(SQLiteIndexInfo(cat[db], i.name)), unique |-> i.unique]], @)]
  BY <1>2
<1>4. /\ Here = cat[db] /\ Here \in seen[db] /\ WellFormed(driver, Here) /\ db \in Databases /\ driver \in Five
      /\ IsFiniteSet(seen[db]) /\ \A c \in seen[db] : WellFormed(driver, c)
  BY <1>1, HereIs
<1>5. table \in DOMAIN image[db].tables /\ \E c \in seen[db] : \E x \in c.indexes :
          x.table = table /\ x.origin = "c" /\ x.name = i.name /\ x.unique = i.unique
  BY <1>1, <1>2 DEF LoopInv
<1>6. PICK c \in seen[db] : \E x \in c.indexes :
          x.table = table /\ x.origin = "c" /\ x.name = i.name /\ x.unique = i.unique
  BY <1>5
<1>7. PICK x \in c.indexes :
          x.table = table /\ x.origin = "c" /\ x.name = i.name /\ x.unique = i.unique
  BY <1>6
<1> DEFINE index == [cols |-> Columns(SQLiteIndexInfo(Here, i.name)), unique |-> i.unique]
           old == image[db].tables[table]
<1>8. /\ \A j \in Here.indexes : Columns(SQLiteIndexInfo(Here, j.name)) = j.cols
      /\ \A n : n \notin {j.name : j \in Here.indexes} => Columns(SQLiteIndexInfo(Here, n)) = << >>
  <2>1. GoodIndexes(Here) /\ Distinguished(Here.indexes)
    BY <1>1, <1>4, IndexesAreGood
  <2>2. QED
    BY <2>1, SQLiteIndexInfoIs DEF GoodIndexes
<1>9. ASSUME ~ Skipped(IgnoreTables, table), \E d \in seen[db] : \E t \in Relations(d) : t.name = table
      PROVE  Held(IndexImage(table, i.name, index), seen[db])
  <2>1. CASE c = Here
    <3>1. index.cols = x.cols /\ index.unique = x.unique
      BY <1>7, <1>8, <2>1
    <3>2. Reported(x) = x.cols /\ x.cols # << >>
      BY <1>1, <1>4, <1>7, IndexesAreGood DEF Reported, GoodIndexes, GoodIndex
    <3>a. IndexListed(Here, x)
      BY <1>1, <1>7, <3>2 DEF IndexListed
    <3>3. IndexImage(table, i.name, index) = IndexPart(x)
      BY <1>7, <3>1, <3>2 DEF IndexImage, IndexPart
    <3>4. PICK d \in seen[db] : \E t \in Relations(d) : t.name = x.table
      BY <1>7, <1>9
    <3>5. Held(IndexPart(x), seen[db])
      BY <1>4, <1>7, <1>9, <2>1, <3>a, <3>4, IndexHolds
    <3>6. QED
      BY <3>3, <3>5
  <2>2. CASE c # Here
    <3>1. Cardinality(seen[db]) > 1
      BY <1>4, <2>2, TwoOf
    <3>2. \E j \in UNION {d.indexes : d \in seen[db]} : j.table = table /\ j.name = i.name /\ j.unique = i.unique
      BY <1>7
    <3>3. index.cols = << >> \/ \E j \in UNION {d.indexes : d \in seen[db]} : j.name = i.name /\ j.cols = index.cols
      <4>1. CASE i.name \in {j.name : j \in Here.indexes}
        BY <1>4, <1>8, <4>1
      <4>2. CASE i.name \notin {j.name : j \in Here.indexes}
        BY <1>8, <4>2
      <4>3. QED
        BY <4>1, <4>2
    <3>4. index.unique = i.unique
      OBVIOUS
    <3> HIDE DEF index
    <3>5. OfTwoQueries(<<"index", table, i.name, index.cols, index.unique>>, seen[db])
      BY <1>1, <3>2, <3>3, <3>4 DEF OfTwoQueries
    <3>6. QED
      BY <3>1, <3>5 DEF Held, IndexImage
  <2>3. QED
    BY <2>1, <2>2
<1>10. ASSUME Clear(db) PROVE TablesStood(image'[db].tables, seen[db])
  <2>1. TablesStood(image[db].tables, seen[db])
    BY <1>1, <1>4, <1>10, OldStood DEF ImageStood
  <2>2. TableStood(table, old, seen[db]) /\ DOMAIN old = Fields
    BY <1>5, <2>1 DEF TablesStood, TableStood
  <2> DEFINE map == Over([y \in {i.name} |-> index], old.indexes)
  <2>3. /\ DOMAIN image'[db].tables = DOMAIN image[db].tables
        /\ image'[db].tables[table] = [old EXCEPT !.indexes = map]
        /\ \A n \in DOMAIN image[db].tables : n # table => image'[db].tables[n] = image[db].tables[n]
    BY <1>3, <1>4, <1>5
  <2>4. /\ DOMAIN map = {i.name} \cup DOMAIN old.indexes /\ map[i.name] = index
        /\ \A n \in DOMAIN old.indexes : n # i.name => map[n] = old.indexes[n]
    BY DEF Over
  <2> HIDE DEF map, index, old
  <2> DEFINE new == [old EXCEPT !.indexes = map]
  <2>5. /\ DOMAIN new = Fields /\ new.cols = old.cols /\ new.key = old.key /\ new.fks = old.fks
        /\ new.indexes = map
    BY <2>2 DEF Fields
  <2> HIDE DEF new
  <2>6. Held(IndexImage(table, i.name, index), seen[db])
    BY <1>9, <2>2 DEF TableStood
  <2>7. ASSUME NEW n \in DOMAIN map PROVE Held(IndexImage(table, n, map[n]), seen[db])
    <3>1. CASE n = i.name
      BY <2>4, <2>6, <3>1
    <3>2. CASE n # i.name
      BY <2>2, <2>4, <3>2 DEF TableStood
    <3>3. QED
      BY <3>1, <3>2
  <2>8. TableStood(table, new, seen[db])
    BY <2>2, <2>5, <2>7 DEF TableStood, TablePart
  <2>9. QED
    BY <2>1, <2>3, <2>8 DEF TablesStood, new
<1>11. QED
  BY <1>1, <1>10, LoopStepStood

\* The keys of a table come whole from the catalog of the query.
LEMMA SqliteForeignKeysStands ==
    ASSUME TypeInv, StoodInv, SqliteForeignKeys, LoopInv
    PROVE  StoodInv'
<1>1. LoopStep /\ Loading /\ driver = "sqlite"
  BY LoopStepIs DEF LoopStep
<1>2. stage = "fks" /\ \E t \in todo : \E keys \in GroupForeignKeys(SQLiteForeignKeyList(cat[db], t), Kept) :
          image'[db].tables = [image[db].tables EXCEPT ![t].fks = keys]
  BY <1>1, LoopTablesAre
<1>3. PICK t \in todo : \E keys \in GroupForeignKeys(SQLiteForeignKeyList(cat[db], t), Kept) :
          image'[db].tables = [image[db].tables EXCEPT ![t].fks = keys]
  BY <1>2
<1>4. PICK keys \in GroupForeignKeys(SQLiteForeignKeyList(cat[db], t), Kept) :
          image'[db].tables = [image[db].tables EXCEPT ![t].fks = keys]
  BY <1>3
<1>5. /\ Here = cat[db] /\ Here \in seen[db] /\ WellFormed(driver, Here) /\ db \in Databases
      /\ Clear(db) => Unambiguous(Here)
  BY <1>1, HereIs
<1>6. ASSUME Clear(db) PROVE TablesStood(image'[db].tables, seen[db])
  <2>1. TablesStood(image[db].tables, seen[db])
    BY <1>1, <1>5, <1>6, OldStood DEF ImageStood
  <2>2. GoodKeys(ToldKeys(Here)) /\ Unambiguous(Here)
    BY <1>5, <1>6, KeysAreGood
  <2>3. Keyed(ToldKeys(Here), t, keys)
    <3>1. SQLiteForeignKeyList(cat[db], t) = RowsOfTable(KeyAnswer(ToldKeys(Here)), t)
      BY <1>1, <1>5, SqliteKeyAnswerIs
    <3>2. keys \in GroupForeignKeys(RowsOfTable(KeyAnswer(ToldKeys(Here)), t), Kept)
      BY <1>4, <3>1
    <3>3. QED
      BY <2>2, <3>2, GroupForeignKeysIs
  <2> DEFINE old == image[db].tables[t]
             new == [old EXCEPT !.fks = keys]
  <2>4. t \in DOMAIN image[db].tables
    BY <1>1, <1>2 DEF LoopInv
  <2>5. TableStood(t, old, seen[db]) /\ DOMAIN old = Fields
    BY <2>1, <2>4 DEF TablesStood, TableStood
  <2>6. /\ DOMAIN image'[db].tables = DOMAIN image[db].tables
        /\ image'[db].tables[t] = new
        /\ \A n \in DOMAIN image[db].tables : n # t => image'[db].tables[n] = image[db].tables[n]
    BY <1>4, <2>4
  <2> HIDE DEF old
  <2>7. \A k \in DOMAIN keys : Held(KeyPlace(t, k, keys[k]), seen[db])
    BY <1>5, <2>2, <2>3, <2>5, KeysHold DEF TableStood
  <2>8. /\ DOMAIN new = Fields /\ new.cols = old.cols /\ new.key = old.key /\ new.indexes = old.indexes
        /\ new.fks = keys
    BY <2>5 DEF Fields
  <2> HIDE DEF new
  <2>9. TableStood(t, new, seen[db])
    BY <2>5, <2>7, <2>8 DEF TableStood, TablePart
  <2>10. QED
    BY <2>1, <2>6, <2>9 DEF TablesStood
<1>7. QED
  BY <1>1, <1>6, LoopStepStood

----------------------------------------------------------------------------
(* PartsStood. *)

\* A step that leaves the images as they are.
LEMMA KeepsStood ==
    ASSUME TypeInv', Grows, StoodInv, result # "failed", image' = image,
           \A d \in Databases : HalfLoaded(d)' <=> HalfLoaded(d)
    PROVE  StoodInv'
<1>1. ASSUME NEW d \in Databases, Clear(d)' PROVE ImageStood(d)'
  <2>1. ImageStood(d)
    BY <1>1, ClearBefore DEF StoodInv, Clear
  <2>2. image'[d] = image[d] /\ (HalfLoaded(d)' <=> HalfLoaded(d))
    OBVIOUS
  <2>3. QED
    BY <2>1, <2>2, StaysStood
<1>2. (StoodInv <=> (result # "failed" => \A d \in Databases : Clear(d) => ImageStood(d)))'
  BY DEF StoodInv, Clear
<1>3. QED
  BY <1>1, <1>2

\* StoodInv holds at first.
LEMMA StoodInvInit == DiffInit => StoodInv
<1> SUFFICES ASSUME DiffInit, NEW d \in Databases PROVE ImageStood(d)
  BY DEF StoodInv
<1>1. image[d] = NoImage /\ stage = "open"
  BY DEF DiffInit
<1>2. DOMAIN << >> = {}
  OBVIOUS
<1>3. ~ HalfLoaded(d)
  BY <1>1 DEF HalfLoaded
<1>4. QED
  BY <1>1, <1>2, <1>3 DEF ImageStood, NoImage, TablesStood, ViewsStood, TriggersStood, SequencesStood, RoutinesStood

\* Every step keeps it.
LEMMA StoodInvStep == TypeInv /\ LoopInv /\ StoodInv /\ [DiffNext]_diffVars => StoodInv'
<1> SUFFICES ASSUME TypeInv, LoopInv, StoodInv, [DiffNext]_diffVars PROVE StoodInv'
  OBVIOUS
<1>0. TypeInv' /\ Grows
  BY TypeInvStep
<1>a. result' = "failed" => StoodInv'
  BY DEF StoodInv
<1>1. CASE Connect
  <2>1. CASE result' = "failed"
    BY <1>a, <2>1
  <2>2. CASE result' # "failed"
    <3>1. stage \in {"open", "ping", "wait"} /\ stage' \in {"open", "ping", "wait", Queries[1]}
          /\ image' = image
      BY <1>1, <2>2, PlanType DEF Connect, OpenHandle, NoDSN, OpenFails, PingFails, Waited, Connected, Retry, Exit
    <3>2. Queries[1] # "parameters"
      BY QueriesAre
    <3>3. \A d \in Databases : ~ HalfLoaded(d) /\ ~ HalfLoaded(d)'
      BY <3>1, <3>2 DEF HalfLoaded
    <3>4. result # "failed"
      BY <3>1 DEF TypeInv
    <3>5. QED
      BY <1>0, <3>1, <3>3, <3>4, KeepsStood
  <2>3. QED
    BY <2>1, <2>2
<1>2. CASE LoadStep
  BY <1>2, LoadColumnsStands, LoadIndexesStands, LoadForeignKeysStands, LoopEndsStands, LoadViewsStands,
     LoadMaterializedViewsStands, LoadRoutinesStands, LoadParametersStands, LoadTriggersStands,
     LoadSequencesStands DEF LoadStep
<1>3. CASE LoopStep
  <2>1. CASE SqliteIndexList
    <3>1. image' = image
      BY <1>3, <2>1, LoopTablesAre
    <3>2. Loading /\ driver = "sqlite" /\ UNCHANGED <<driver, db, stage, result>>
      BY <1>3, LoopStepIs
    <3>3. \A d \in Databases : ~ HalfLoaded(d) /\ ~ HalfLoaded(d)'
      BY <3>2 DEF HalfLoaded
    <3>4. result # "failed"
      BY <3>2, SteadyIsNotLoading DEF TypeInv, Steady
    <3>5. QED
      BY <1>0, <3>1, <3>3, <3>4, KeepsStood
  <2>2. QED
    BY <1>3, <2>1, SqliteColumnsStands, SqliteIndexInfoStands, SqliteForeignKeysStands DEF LoopStep
<1>4. CASE SqliteTables
  <2>1. /\ Loading /\ Advance /\ driver = "sqlite" /\ image' = image /\ driver' = driver
    BY <1>0, <1>4, SqliteTablesIs DEF Grows
  <2>2. \A d \in Databases : ~ HalfLoaded(d) /\ ~ HalfLoaded(d)'
    BY <2>1 DEF HalfLoaded
  <2>3. result # "failed"
    BY <2>1, SteadyIsNotLoading DEF TypeInv, Steady
  <2>4. QED
    BY <1>0, <2>1, <2>2, <2>3, KeepsStood
<1>5. CASE QueryFails \/ ReportFails
  <2>1. result' = "failed"
    BY <1>5 DEF QueryFails, ReportFails, Exit
  <2>2. QED
    BY <1>a, <2>1
<1>6. CASE Compare
  <2>1. stage = "compare" /\ stage' = "exit" /\ image' = image
    BY <1>6 DEF Compare, Exit
  <2>2. \A d \in Databases : ~ HalfLoaded(d) /\ ~ HalfLoaded(d)'
    BY <2>1 DEF HalfLoaded
  <2>3. result # "failed"
    BY <2>1 DEF TypeInv
  <2>4. QED
    BY <1>0, <2>1, <2>2, <2>3, KeepsStood
<1>7. CASE OtherClient
  <2>1. UNCHANGED <<driver, db, stage, image, result>> /\ Loading
    BY <1>7 DEF OtherClient
  <2>2. \A d \in Databases : HalfLoaded(d)' <=> HalfLoaded(d)
    BY <2>1 DEF HalfLoaded
  <2>3. result # "failed"
    BY <2>1, SteadyIsNotLoading DEF TypeInv, Steady
  <2>4. QED
    BY <1>0, <2>1, <2>2, <2>3, KeepsStood
<1>8. CASE UNCHANGED diffVars
  <2>1. UNCHANGED <<driver, db, stage, image, result, seen>>
    BY <1>8 DEF diffVars
  <2>2. \A d \in Databases : HalfLoaded(d)' <=> HalfLoaded(d)
    BY <2>1 DEF HalfLoaded
  <2>3. CASE result = "failed"
    BY <1>a, <2>1, <2>3
  <2>4. CASE result # "failed"
    BY <1>0, <2>1, <2>2, <2>4, KeepsStood
  <2>5. QED
    BY <2>3, <2>4
<1>9. QED
  BY <1>1, <1>2, <1>3, <1>4, <1>5, <1>6, <1>7, <1>8, LoadSchemaIs DEF DiffNext, Command

\* Of each database the images hold only what stood in a catalog that was there
\* while it was loaded, or what two queries answered of such catalogs.
THEOREM StoodInvariant == DiffSpec => [](TypeInv /\ LoopInv /\ StoodInv)
<1>1. DiffInit => TypeInv /\ LoopInv /\ StoodInv
  BY TypeInvInit, LoopInvInit, StoodInvInit
<1>2. TypeInv /\ LoopInv /\ StoodInv /\ [DiffNext]_diffVars => (TypeInv /\ LoopInv /\ StoodInv)'
  BY TypeInvStep, LoopInvStep, StoodInvStep
<1>3. QED
  BY <1>1, <1>2, PTL DEF DiffSpec

\* What PartsOfImage collects.
LEMMA PartsOfImageAre ==
    ASSUME NEW img, NEW p \in PartsOfImage(img)
    PROVE  \/ \E t \in DOMAIN img.tables :
                  \/ p = TablePart(t, img.tables[t])
                  \/ \E n \in DOMAIN img.tables[t].indexes : p = IndexImage(t, n, img.tables[t].indexes[n])
                  \/ \E n \in DOMAIN img.tables[t].fks : p = KeyPlace(t, n, img.tables[t].fks[n])
           \/ \E n \in DOMAIN img.views : p = ViewPart(n, img.views[n])
           \/ \E n \in DOMAIN img.routines : p = RoutinePart(n, img.routines[n])
           \/ \E n \in DOMAIN img.triggers : p = TriggerPart(n, img.triggers[n])
           \/ \E n \in DOMAIN img.sequences : p = SequencePart(n, img.sequences[n])
<1> DEFINE Tables == {<<t, img.tables[t]>> : t \in DOMAIN img.tables}
           T == {TablePart(x[1], x[2]) : x \in Tables}
           I(x) == {IndexImage(x[1], n, x[2].indexes[n]) : n \in DOMAIN x[2].indexes}
           K(x) == {KeyPlace(x[1], n, x[2].fks[n]) : n \in DOMAIN x[2].fks}
           V == {ViewPart(n, img.views[n]) : n \in DOMAIN img.views}
           R == {RoutinePart(n, img.routines[n]) : n \in DOMAIN img.routines}
           G == {TriggerPart(n, img.triggers[n]) : n \in DOMAIN img.triggers}
           Q == {SequencePart(n, img.sequences[n]) : n \in DOMAIN img.sequences}
<1>1. PartsOfImage(img) = T \cup (UNION {I(x) : x \in Tables}) \cup (UNION {K(x) : x \in Tables})
                          \cup V \cup R \cup G \cup Q
  BY DEF PartsOfImage, TablePart, IndexImage, KeyPlace, ViewPart, ViewName, RoutinePart,
         TriggerPart, SequencePart
<1>2. \A x \in Tables : \E t \in DOMAIN img.tables : x = <<t, img.tables[t]>> /\ x[1] = t /\ x[2] = img.tables[t]
  OBVIOUS
<1> HIDE DEF Tables
<1>3. CASE p \in T
  BY <1>2, <1>3
<1>4. CASE p \in UNION {I(x) : x \in Tables}
  BY <1>2, <1>4
<1>5. CASE p \in UNION {K(x) : x \in Tables}
  BY <1>2, <1>5
<1>6. CASE p \in V \cup R \cup G \cup Q
  BY <1>6
<1>7. QED
  BY <1>1, <1>3, <1>4, <1>5, <1>6

\* StoodInv is enough: each part of an image stood.
LEMMA StoodSuffices == TypeInv /\ StoodInv => PartsStood
<1> SUFFICES ASSUME TypeInv, StoodInv, Compared, NEW d \in Databases, \A c \in seen[d] : Unambiguous(c),
                    NEW p \in PartsOfImage(image[d])
             PROVE  Held(p, seen[d])
  BY DEF PartsStood, Held
<1>1. result # "failed" /\ stage = "exit"
  BY DEF Compared, TypeInv
<1>2. ImageStood(d) /\ ~ HalfLoaded(d)
  BY <1>1 DEF StoodInv, HalfLoaded
<1>3. /\ TablesStood(image[d].tables, seen[d]) /\ ViewsStood(image[d].views, seen[d])
      /\ TriggersStood(image[d].triggers, seen[d]) /\ SequencesStood(image[d].sequences, seen[d])
      /\ RoutinesStood(image[d].routines, seen[d])
  BY <1>2 DEF ImageStood
<1>4. QED
  BY <1>3, PartsOfImageAre DEF TablesStood, TableStood, ViewsStood, TriggersStood, SequencesStood, RoutinesStood, Held

\* Whatever other clients do between the queries, each part of a schema that is
\* compared stood in the database at one moment of its load, or is one of those
\* that LoadSchema puts together from two queries.
THEOREM PartsStoodHolds == DiffSpec => []PartsStood
BY StoodInvariant, StoodSuffices, PTL

----------------------------------------------------------------------------
(* Complete answers: of a catalog that did not change, nothing is left out. *)

\* The queries of a load from one of them on.
Ahead(s) == {q \in Range(Queries) : \E i, j \in DOMAIN Queries :
                                        Queries[i] = s /\ Queries[j] = q /\ i <= j}

\* The answer to a query of a database is not complete.
Awaits(d, q) ==
    \/ BeforeLoads
    \/ Loading /\ db = "prod" /\ d = "dev"
    \/ Loading /\ db = d /\ q \in Ahead(stage)

ViewKey(c, v) == IF driver = "postgres" THEN <<c.schema, v.name>> ELSE v.name

HasTables(img, c) ==
    \A t \in Stays(IgnoreTables, Relations(c)) : t.name \in DOMAIN img.tables

HasIndexes(img, c) ==
    \A t \in DOMAIN img.tables : \A i \in Secondaries(c, t) : i.name \in DOMAIN img.tables[t].indexes

HasKeys(img, c) ==
    \A t \in DOMAIN img.tables : \A f \in KeysOf(KeysListed(c), t) : f.name \in DOMAIN img.tables[t].fks

HasViews(img, c, mat) ==
    \A v \in Stays(IgnoreViews, c.views) : v.mat = mat => ViewKey(c, v) \in DOMAIN img.views

HasRoutines(img, c) == \A r \in Stays(IgnoreRoutines, c.routines) : r.name \in DOMAIN img.routines

HasTriggers(img, c) == \A t \in Stays(IgnoreTriggers, c.triggers) : t.name \in DOMAIN img.triggers

HasSequences(img, c) == \A s \in Stays(IgnoreSequences, c.sequences) : s.name \in DOMAIN img.sequences

\* What a query that is over has added of a catalog.
Has(q, img, c) ==
    /\ q = "columns" => HasTables(img, c)
    /\ q = "indexes" => HasIndexes(img, c)
    /\ q = "fks" => HasKeys(img, c)
    /\ q = "views" => HasViews(img, c, FALSE)
    /\ q = "matviews" => HasViews(img, c, TRUE)
    /\ q = "routines" => HasRoutines(img, c)
    /\ q = "triggers" => HasTriggers(img, c)
    /\ q = "sequences" => HasSequences(img, c)

\* What SQLite's loops have added so far.
LoopLoaded(c) ==
    LET tables == image[db].tables
    IN  driver = "sqlite" =>
            /\ stage = "columns" => \A t \in Stays(IgnoreTables, Relations(c)) :
                   t.name \in todo \cup DOMAIN tables
            /\ stage = "indexes" => \A t \in DOMAIN tables \ todo : \A i \in Secondaries(c, t) :
                   \/ i.name \in DOMAIN tables[t].indexes
                   \/ t = table /\ \E x \in pending : x.name = i.name
            /\ stage = "fks" => \A t \in DOMAIN tables \ todo : \A f \in KeysOf(KeysListed(c), t) :
                   f.name \in DOMAIN tables[t].fks

WholeImage(d, c) ==
    /\ \A q \in Range(Queries) : ~ Awaits(d, q) => Has(q, image[d], c)
    /\ db = d => LoopLoaded(c)

WholeInv ==
    result # "failed" => \A d \in Databases : \A c \in Worlds(driver, d) :
        seen[d] \subseteq {c} /\ Unambiguous(c) => WholeImage(d, c)

VerdictInv ==
    Compared => (result = "match" <=> ~ HasDrift(image["prod"], image["dev"]))

\* Which indexes and keys are listed depends on the driver alone.
LEMMA ListedKept ==
    ASSUME driver' = driver
    PROVE  \A c : /\ \A t : Secondaries(c, t)' = Secondaries(c, t)
                  /\ KeysListed(c)' = KeysListed(c)
<1>1. \A c, t : Secondaries(c, t)' = Secondaries(c, t)
  BY ReportedKept DEF Secondaries, Found
<1>2. \A c : KeysListed(c)' = KeysListed(c)
  BY DEF KeysListed, KeyListed
<1>3. QED
  BY <1>1, <1>2

\* What an image has of a catalog depends on the driver alone.
LEMMA HasKept ==
    ASSUME driver' = driver
    PROVE  \A q, x, c : Has(q, x, c)' <=> Has(q, x, c)
<1>1. \A x, c : HasTables(x, c)' <=> HasTables(x, c)
  BY RelationsKept DEF HasTables, Stays
<1>2. \A c, t : Secondaries(c, t)' = Secondaries(c, t)
  BY ListedKept
<1>3. \A x, c : HasIndexes(x, c)' <=> HasIndexes(x, c)
  BY <1>2 DEF HasIndexes
<1>a. \A c : KeysListed(c)' = KeysListed(c)
  BY ListedKept
<1>4. \A x, c : HasKeys(x, c)' <=> HasKeys(x, c)
  BY <1>a DEF HasKeys
<1>5. \A x, c, mat : HasViews(x, c, mat)' <=> HasViews(x, c, mat)
  BY DEF HasViews, ViewKey, Stays
<1>6. \A x, c : /\ HasRoutines(x, c)' <=> HasRoutines(x, c)
                /\ HasTriggers(x, c)' <=> HasTriggers(x, c)
                /\ HasSequences(x, c)' <=> HasSequences(x, c)
  BY DEF HasRoutines, HasTriggers, HasSequences, Stays
<1>7. ASSUME NEW q, NEW x, NEW c PROVE Has(q, x, c)' <=> Has(q, x, c)
  <2>1. /\ HasTables(x, c)' <=> HasTables(x, c)
        /\ HasIndexes(x, c)' <=> HasIndexes(x, c)
        /\ HasKeys(x, c)' <=> HasKeys(x, c)
        /\ HasViews(x, c, TRUE)' <=> HasViews(x, c, TRUE)
        /\ HasViews(x, c, FALSE)' <=> HasViews(x, c, FALSE)
        /\ HasRoutines(x, c)' <=> HasRoutines(x, c)
        /\ HasTriggers(x, c)' <=> HasTriggers(x, c)
        /\ HasSequences(x, c)' <=> HasSequences(x, c)
    BY <1>1, <1>3, <1>4, <1>5, <1>6
  <2>2. QED
    BY <2>1 DEF Has
<1>8. QED
  BY <1>7

\* An answer that was complete stays so, and only that to the query is new.
LEMMA AwaitsAdvance ==
    ASSUME TypeInv, Loading, Advance, NEW d \in Databases, NEW q \in Range(Queries), ~ Awaits(d, q)'
    PROVE  ~ Awaits(d, q) \/ (d = db /\ q = stage)
<1>1. PICK at \in 1 .. Len(Queries) :
               /\ Queries[at] = stage
               /\ \/ at < Len(Queries) /\ stage' = Queries[at + 1] /\ UNCHANGED <<db, seen>>
                  \/ /\ at = Len(Queries) /\ db = "prod"
                     /\ db' = "dev" /\ stage' = Queries[1]
                     /\ seen' = [seen EXCEPT !["dev"] = {cat["dev"]}]
                  \/ /\ at = Len(Queries) /\ db # "prod"
                     /\ stage' = "compare" /\ UNCHANGED <<db, seen>>
  BY AdvanceIs
<1>2. Queries' = Queries /\ ~ BeforeLoads
  BY AdvanceFrame, SteadyIsNotLoading DEF TypeInv, BeforeLoads, Steady
<1>3. DOMAIN Queries = 1 .. Len(Queries) /\ Len(Queries) \in Nat
      /\ \A i, j \in DOMAIN Queries : Queries[i] = Queries[j] => i = j
  BY PlanType
<1>4. PICK k \in 1 .. Len(Queries) : Queries[k] = q
  BY <1>3 DEF Range
<1>5. \A i \in 1 .. Len(Queries) : i <= k => q \in Ahead(Queries[i])
  BY <1>3, <1>4 DEF Ahead
<1>6. \A i \in 1 .. Len(Queries) : q \in Ahead(Queries[i]) => i <= k
  BY <1>3, <1>4 DEF Ahead
<1>a. Ahead(stage)' = Ahead(stage')
  BY <1>2 DEF Ahead
<1>b. stage' \in Range(Queries) => Loading'
  BY <1>2 DEF Loading
<1>c. \A i \in 1 .. Len(Queries) : Queries[i] \in Range(Queries)
  BY <1>3 DEF Range
<1>7. CASE at < Len(Queries) /\ stage' = Queries[at + 1] /\ db' = db
  <2>1. at + 1 \in 1 .. Len(Queries) /\ Loading'
    BY <1>3, <1>7, <1>b, <1>c
  <2>2. ~ (db = "prod" /\ d = "dev")
    BY <1>7, <2>1 DEF Awaits
  <2>3. d = db => ~ (at + 1 <= k)
    BY <1>5, <1>7, <1>a, <2>1 DEF Awaits
  <2>4. d = db => k <= at
    BY <2>3
  <2>5. d = db /\ q \in Ahead(stage) => at <= k
    BY <1>1, <1>6
  <2>6. d = db /\ q \in Ahead(stage) => q = stage
    BY <1>1, <1>4, <2>4, <2>5
  <2>7. QED
    BY <1>2, <2>2, <2>6 DEF Awaits
<1>8. CASE at = Len(Queries) /\ db = "prod" /\ db' = "dev" /\ stage' = Queries[1]
  <2>1. 1 \in 1 .. Len(Queries) /\ Loading' /\ 1 <= k
    BY <1>3, <1>8, <1>b, <1>c
  <2>2. d # "dev"
    BY <1>5, <1>8, <1>a, <2>1 DEF Awaits
  <2>3. q \in Ahead(stage) => at <= k
    BY <1>1, <1>6
  <2>4. q \in Ahead(stage) => q = stage
    BY <1>1, <1>4, <1>8, <2>3
  <2>5. QED
    BY <1>2, <1>8, <2>2, <2>4 DEF Awaits, Databases
<1>9. CASE at = Len(Queries) /\ db # "prod"
  <2>1. q \in Ahead(stage) => at <= k
    BY <1>1, <1>6
  <2>2. q \in Ahead(stage) => q = stage
    BY <1>1, <1>4, <1>9, <2>1
  <2>3. QED
    BY <1>2, <1>9, <2>2 DEF Awaits
<1>10. QED
  BY <1>1, <1>7, <1>8, <1>9

\* What is still to come while a query is at work.
LEMMA Order ==
    ASSUME Loading, driver \in Five
    PROVE  /\ stage = "columns" => Awaits(db, "indexes") /\ Awaits(db, "fks")
           /\ driver = "postgres" /\ stage = "views" => Awaits(db, "matviews")
           /\ driver = "sqlite" /\ stage \in {"tables", "columns"} => Awaits(db, "columns")
           /\ stage = "indexes" => Awaits(db, "indexes") /\ Awaits(db, "fks")
           /\ driver = "sqlite" /\ stage = "fks" => Awaits(db, "fks")
<1>1. \A i, j \in DOMAIN Queries : Queries[i] = stage /\ i <= j => Awaits(db, Queries[j])
  BY DEF Awaits, Ahead, Range
<1>2. CASE driver = "mysql"
  <2>1. /\ DOMAIN Queries = 1 .. 7 /\ Queries[1] = "columns" /\ Queries[2] = "indexes" /\ Queries[3] = "fks"
    BY <1>2, QueriesAre
  <2>2. QED
    BY <1>1, <1>2, <2>1
<1>3. CASE driver = "postgres"
  <2>1. /\ DOMAIN Queries = 1 .. 8 /\ Queries[1] = "columns" /\ Queries[2] = "indexes" /\ Queries[3] = "fks"
        /\ Queries[4] = "views" /\ Queries[5] = "matviews"
    BY <1>3, QueriesAre
  <2>2. QED
    BY <1>1, <1>3, <2>1
<1>4. CASE driver = "sqlite"
  <2>1. /\ DOMAIN Queries = 1 .. 6 /\ Queries[1] = "tables" /\ Queries[2] = "columns"
        /\ Queries[3] = "indexes" /\ Queries[4] = "fks"
    BY <1>4, QueriesAre
  <2>2. QED
    BY <1>1, <1>4, <2>1
<1>5. CASE driver \in {"mssql", "oracle"}
  <2>1. DOMAIN Queries = 1 .. 3 /\ Queries[1] = "columns" /\ Queries[2] = "indexes" /\ Queries[3] = "fks"
    BY <1>5, QueriesAre
  <2>2. QED
    BY <1>1, <1>5, <2>1
<1>6. QED
  BY <1>2, <1>3, <1>4, <1>5 DEF Five

\* What holds of an image when the query that is at work is over.
Left(new, c) == \A q \in Range(Queries) : q = stage \/ ~ Awaits(db, q) => Has(q, new, c)

\* A catalog that is the only one seen of a database.
Only(d, c) == c \in Worlds(driver, d) /\ seen[d] \subseteq {c} /\ Unambiguous(c)

\* A catalog that is the only one seen was so before a step.
LEMMA OnlyBefore ==
    ASSUME Grows, NEW d \in Databases, NEW c, Only(d, c)'
    PROVE  Only(d, c)
<1>1. driver' = driver /\ seen[d] \subseteq seen'[d]
  BY DEF Grows
<1>2. c \in Worlds(driver', d) /\ seen'[d] \subseteq {c} /\ Unambiguous(c)'
  BY DEF Only
<1>3. QED
  BY <1>1, <1>2, UnambiguousKept DEF Only

\* WholeInv, by the only catalogs.
LEMMA WholeInvIs ==
    WholeInv <=> (result # "failed" => \A d \in Databases : \A c : Only(d, c) => WholeImage(d, c))
BY DEF WholeInv, Only

\* The same after a step.
LEMMA WholeInvNextIs ==
    (WholeInv <=> (result # "failed" => \A d \in Databases : \A c : Only(d, c) => WholeImage(d, c)))'
BY WholeInvIs, PTL

\* The only catalog seen of the database that is loaded is the one it has now.
LEMMA OnlyHere ==
    ASSUME TypeInv, Loading, NEW c, Only(db, c)
    PROVE  /\ Here = c /\ cat[db] = c /\ db \in Databases /\ driver \in Five
           /\ WellFormed(driver, c) /\ Unambiguous(c)
BY HereIs DEF Only, Here

\* A step of a loader keeps WholeInv when its answer is complete.
LEMMA LoadWhole ==
    ASSUME TypeInv, WholeInv, Loading, driver = "sqlite" => stage # "tables",
           NEW new, Load(new), IsImage(new),
           \A c : Only(db, c) /\ WholeImage(db, c) => Left(new, c)
    PROVE  WholeInv'
<1>1. /\ Advance /\ todo' = DOMAIN new.tables /\ DOMAIN image' = Databases /\ image'[db] = new
      /\ \A d \in Databases : d # db => image'[d] = image[d]
      /\ \A d \in Databases : IsImage(image'[d])
  BY LoadIs
<1>2. TypeInv' /\ Grows /\ driver' = driver /\ Queries' = Queries /\ db \in Databases
  BY <1>1, AdvanceType, AdvanceFrame DEF TypeInv
<1>3. result # "failed"
  BY SteadyIsNotLoading DEF TypeInv, Steady
<1>4. ASSUME NEW d \in Databases, NEW c, Only(d, c)'
      PROVE  WholeImage(d, c)'
  <2>1. Only(d, c) /\ WholeImage(d, c)
    BY <1>2, <1>3, <1>4, OnlyBefore, WholeInvIs
  <2>2. ASSUME NEW q \in Range(Queries), ~ Awaits(d, q)'
        PROVE  Has(q, image[d], c)'
    <3>1. ~ Awaits(d, q) \/ (d = db /\ q = stage)
      BY <1>1, <2>2, AwaitsAdvance
    <3>2. CASE d = db
      <4>1. Has(q, new, c)
        BY <2>1, <3>1, <3>2 DEF Left
      <4>2. Has(q, image'[d], c)
        BY <1>1, <3>2, <4>1
      <4>3. QED
        BY <1>2, <4>2, HasKept
    <3>3. CASE d # db
      <4>1. Has(q, image[d], c)
        BY <2>1, <3>1, <3>3 DEF WholeImage
      <4>2. Has(q, image'[d], c)
        BY <1>1, <3>3, <4>1
      <4>3. QED
        BY <1>2, <4>2, HasKept
    <3>4. QED
      BY <3>2, <3>3
  <2>3. LoopLoaded(c)'
    <3>1. CASE driver # "sqlite"
      BY <1>2, <3>1 DEF LoopLoaded
    <3>2. CASE driver = "sqlite"
      <4>1. stage' # "columns"
        BY <1>1, <3>2, SqliteAdvances
      <4>2. stage' \in {"indexes", "fks"} => db' = db
        BY <1>1, <3>2, SqliteAdvances
      <4>3. stage' \in {"indexes", "fks"} => DOMAIN image'[db'].tables = todo'
        BY <1>1, <4>2
      <4>4. QED
        BY <4>1, <4>3 DEF LoopLoaded
    <3>3. QED
      BY <3>1, <3>2
  <2>4. QED
    BY <1>2, <2>2, <2>3 DEF WholeImage
<1>5. QED
  BY <1>4, WholeInvNextIs

\* An answer that changes none of what another query has added.
LEMMA HasStays ==
    ASSUME NEW q, NEW old, NEW new, NEW c, Has(q, old, c),
           q \in {"columns", "indexes", "fks"} => new.tables = old.tables,
           q \in {"views", "matviews"} => DOMAIN old.views \subseteq DOMAIN new.views,
           q = "routines" => DOMAIN new.routines = DOMAIN old.routines,
           q = "triggers" => new.triggers = old.triggers,
           q = "sequences" => new.sequences = old.sequences
    PROVE  Has(q, new, c)
BY DEF Has, HasTables, HasIndexes, HasKeys, HasViews, HasRoutines, HasTriggers, HasSequences

\* The views are complete.
LEMMA LoadViewsWhole ==
    ASSUME TypeInv, WholeInv, LoadViews
    PROVE  WholeInv'
<1>1. Loading /\ stage = "views" /\ driver \in {"mysql", "postgres", "sqlite"}
  BY PlansLoad DEF LoadViews, Answered
<1>2. PICK views :
          /\ \/ driver = "mysql" /\ views \in MySQLViews(Here)
             \/ driver = "postgres" /\ views \in PostgreSQLViews(Here, FALSE)
             \/ driver = "sqlite" /\ views \in SQLiteViews(Here)
          /\ Load([Loaded EXCEPT !.views = views])
  BY <1>1 DEF LoadViews
<1> DEFINE new == [Loaded EXCEPT !.views = views]
<1>b. Loaded = image[db] /\ DOMAIN Loaded = {"tables", "views", "routines", "triggers", "sequences"}
  BY <1>1, HereIs DEF TypeInv, Loaded, IsImage
<1>3. /\ IsImage(new) /\ new.tables = image[db].tables /\ new.views = views
      /\ new.routines = image[db].routines /\ new.triggers = image[db].triggers
      /\ new.sequences = image[db].sequences
  BY <1>b DEF IsImage
<1>5. Load(new)
  BY <1>2
<1> HIDE DEF new
<1>6. ASSUME NEW c, Only(db, c), WholeImage(db, c), NEW q \in Range(Queries), q = stage \/ ~ Awaits(db, q)
      PROVE  Has(q, new, c)
  <2>1. Here = c /\ WellFormed(driver, c) /\ driver \in Five
    BY <1>1, <1>6, OnlyHere
  <2>2. CASE q = "views"
    <3>1. ASSUME NEW v \in Stays(IgnoreViews, c.views), v.mat = FALSE PROVE ViewKey(c, v) \in DOMAIN views
      <4>1. CASE driver = "postgres"
        BY <1>2, <2>1, <3>1, <4>1, PostgreSQLViewsAre DEF ViewKey
      <4>2. CASE driver # "postgres"
        BY <1>2, <2>1, <4>2, PlainViewsAre DEF ViewKey
      <4>3. QED
        BY <4>1, <4>2
    <3>2. QED
      BY <1>3, <2>2, <3>1 DEF Has, HasViews
  <2>3. CASE q = "matviews"
    <3>1. driver # "postgres"
      BY <1>1, <1>6, <2>1, <2>3, Order
    <3>2. q \notin Range(Queries)
      BY <1>1, <2>3, <3>1, QueriesAre DEF Range
    <3>3. QED
      BY <3>2
  <2>4. CASE q \notin {"views", "matviews"}
    <3>1. Has(q, image[db], c)
      BY <1>1, <1>6, <2>4 DEF WholeImage
    <3>2. QED
      BY <1>3, <2>4, <3>1, HasStays
  <2>5. QED
    BY <2>2, <2>3, <2>4
<1>7. QED
  BY <1>1, <1>3, <1>5, <1>6, LoadWhole DEF Left

----------------------------------------------------------------------------
(* Each loader's answer is complete. *)

\* The materialized views are complete, and the views stay so.
LEMMA LoadMaterializedViewsWhole ==
    ASSUME TypeInv, WholeInv, LoadMaterializedViews
    PROVE  WholeInv'
<1>1. Loading /\ stage = "matviews" /\ driver = "postgres"
  BY PlansLoad DEF LoadMaterializedViews, Answered
<1>2. PICK views \in PostgreSQLViews(Here, TRUE) : Load([Loaded EXCEPT !.views = Over(views, @)])
  BY DEF LoadMaterializedViews
<1> DEFINE all == Over(views, image[db].views)
           new == [Loaded EXCEPT !.views = all]
<1>b. Loaded = image[db] /\ DOMAIN Loaded = {"tables", "views", "routines", "triggers", "sequences"}
  BY <1>1, HereIs DEF TypeInv, Loaded, IsImage
<1>5. Load(new)
  BY <1>2, <1>b
<1>4. DOMAIN all = DOMAIN views \cup DOMAIN image[db].views
  BY DEF Over
<1> HIDE DEF all
<1>3. /\ IsImage(new) /\ new.tables = image[db].tables /\ new.views = all
      /\ new.routines = image[db].routines /\ new.triggers = image[db].triggers
      /\ new.sequences = image[db].sequences
  BY <1>b DEF IsImage
<1> HIDE DEF new
<1>6. ASSUME NEW c, Only(db, c), WholeImage(db, c), NEW q \in Range(Queries), q = stage \/ ~ Awaits(db, q)
      PROVE  Has(q, new, c)
  <2>1. Here = c
    BY <1>1, <1>6, OnlyHere
  <2>2. CASE q = "matviews"
    <3>1. \A v \in Stays(IgnoreViews, c.views) : v.mat = TRUE => <<c.schema, v.name>> \in DOMAIN views
      BY <1>1, <2>1, PostgreSQLViewsAre
    <3>2. QED
      BY <1>1, <1>3, <1>4, <2>2, <3>1 DEF Has, HasViews, ViewKey
  <2>3. CASE q # "matviews"
    <3>1. Has(q, image[db], c)
      BY <1>1, <1>6, <2>3 DEF WholeImage
    <3>2. QED
      BY <1>3, <1>4, <2>3, <3>1, HasStays
  <2>4. QED
    BY <2>2, <2>3
<1>7. QED
  BY <1>1, <1>3, <1>5, <1>6, LoadWhole DEF Left

\* The triggers are complete.
LEMMA LoadTriggersWhole ==
    ASSUME TypeInv, WholeInv, LoadTriggers
    PROVE  WholeInv'
<1>1. Loading /\ stage = "triggers" /\ driver \in {"mysql", "postgres", "sqlite"}
  BY PlansLoad DEF LoadTriggers, Answered
<1>2. PICK triggers :
          /\ \/ driver = "mysql" /\ triggers \in MySQLTriggers(Here)
             \/ driver = "postgres" /\ triggers \in PostgreSQLTriggers(Here)
             \/ driver = "sqlite" /\ triggers \in SQLiteTriggers(Here)
          /\ Load([Loaded EXCEPT !.triggers = triggers])
  BY <1>1 DEF LoadTriggers
<1> DEFINE new == [Loaded EXCEPT !.triggers = triggers]
<1>b. Loaded = image[db] /\ DOMAIN Loaded = {"tables", "views", "routines", "triggers", "sequences"}
  BY <1>1, HereIs DEF TypeInv, Loaded, IsImage
<1>3. /\ IsImage(new) /\ new.tables = image[db].tables /\ new.views = image[db].views
      /\ new.routines = image[db].routines /\ new.triggers = triggers
      /\ new.sequences = image[db].sequences
  BY <1>b DEF IsImage
<1>5. Load(new)
  BY <1>2
<1> HIDE DEF new
<1>6. ASSUME NEW c, Only(db, c), WholeImage(db, c), NEW q \in Range(Queries), q = stage \/ ~ Awaits(db, q)
      PROVE  Has(q, new, c)
  <2>1. Here = c
    BY <1>1, <1>6, OnlyHere
  <2>2. CASE q = "triggers"
    BY <1>1, <1>2, <1>3, <2>1, <2>2, TriggersAre DEF Has, HasTriggers
  <2>3. CASE q # "triggers"
    <3>1. Has(q, image[db], c)
      BY <1>1, <1>6, <2>3 DEF WholeImage
    <3>2. QED
      BY <1>3, <2>3, <3>1, HasStays
  <2>4. QED
    BY <2>2, <2>3
<1>7. QED
  BY <1>1, <1>3, <1>5, <1>6, LoadWhole DEF Left

\* The sequences are complete.
LEMMA LoadSequencesWhole ==
    ASSUME TypeInv, WholeInv, LoadSequences
    PROVE  WholeInv'
<1>1. Loading /\ stage = "sequences" /\ driver \in {"postgres"}
  BY PlansLoad DEF LoadSequences, Answered
<1>2. PICK sequences :
          /\ sequences \in PostgreSQLSequences(Here)
          /\ Load([Loaded EXCEPT !.sequences = sequences])
  BY <1>1 DEF LoadSequences
<1> DEFINE new == [Loaded EXCEPT !.sequences = sequences]
<1>b. Loaded = image[db] /\ DOMAIN Loaded = {"tables", "views", "routines", "triggers", "sequences"}
  BY <1>1, HereIs DEF TypeInv, Loaded, IsImage
<1>3. /\ IsImage(new) /\ new.tables = image[db].tables /\ new.views = image[db].views
      /\ new.routines = image[db].routines /\ new.triggers = image[db].triggers
      /\ new.sequences = sequences
  BY <1>b DEF IsImage
<1>5. Load(new)
  BY <1>2
<1> HIDE DEF new
<1>6. ASSUME NEW c, Only(db, c), WholeImage(db, c), NEW q \in Range(Queries), q = stage \/ ~ Awaits(db, q)
      PROVE  Has(q, new, c)
  <2>1. Here = c
    BY <1>1, <1>6, OnlyHere
  <2>2. CASE q = "sequences"
    BY <1>1, <1>2, <1>3, <2>1, <2>2, SequencesAre DEF Has, HasSequences
  <2>3. CASE q # "sequences"
    <3>1. Has(q, image[db], c)
      BY <1>1, <1>6, <2>3 DEF WholeImage
    <3>2. QED
      BY <1>3, <2>3, <3>1, HasStays
  <2>4. QED
    BY <2>2, <2>3
<1>7. QED
  BY <1>1, <1>3, <1>5, <1>6, LoadWhole DEF Left

\* The routines are complete.
LEMMA LoadRoutinesWhole ==
    ASSUME TypeInv, WholeInv, LoadRoutines
    PROVE  WholeInv'
<1>1. Loading /\ stage = "routines" /\ driver \in {"mysql", "postgres"}
  BY PlansLoad DEF LoadRoutines, Answered
<1>2. PICK routines :
          /\ \/ driver = "mysql" /\ routines \in MySQLRoutines(Here)
             \/ driver = "postgres" /\ routines \in PostgreSQLRoutines(Here)
          /\ Load([Loaded EXCEPT !.routines = routines])
  BY <1>1 DEF LoadRoutines
<1> DEFINE new == [Loaded EXCEPT !.routines = routines]
<1>b. Loaded = image[db] /\ DOMAIN Loaded = {"tables", "views", "routines", "triggers", "sequences"}
  BY <1>1, HereIs DEF TypeInv, Loaded, IsImage
<1>3. /\ IsImage(new) /\ new.tables = image[db].tables /\ new.views = image[db].views
      /\ new.routines = routines /\ new.triggers = image[db].triggers
      /\ new.sequences = image[db].sequences
  BY <1>b DEF IsImage
<1>5. Load(new)
  BY <1>2
<1> HIDE DEF new
<1>6. ASSUME NEW c, Only(db, c), WholeImage(db, c), NEW q \in Range(Queries), q = stage \/ ~ Awaits(db, q)
      PROVE  Has(q, new, c)
  <2>1. Here = c
    BY <1>1, <1>6, OnlyHere
  <2>2. CASE q = "routines"
    BY <1>1, <1>2, <1>3, <2>1, <2>2, MySQLRoutinesAre, PostgreSQLRoutinesAre DEF Has, HasRoutines
  <2>3. CASE q # "routines"
    <3>1. Has(q, image[db], c)
      BY <1>1, <1>6, <2>3 DEF WholeImage
    <3>2. QED
      BY <1>3, <2>3, <3>1, HasStays
  <2>4. QED
    BY <2>2, <2>3
<1>7. QED
  BY <1>1, <1>3, <1>5, <1>6, LoadWhole DEF Left

\* The parameters come to the routines on the map.
LEMMA ParametersDomain ==
    ASSUME NEW c, NEW old, NEW new \in MySQLParameters(c, old)
    PROVE  DOMAIN new = DOMAIN old
BY DEF MySQLParameters

\* The routines stay complete.
LEMMA LoadParametersWhole ==
    ASSUME TypeInv, WholeInv, LoadParameters
    PROVE  WholeInv'
<1>1. Loading /\ stage = "parameters" /\ driver = "mysql"
  BY PlansLoad DEF LoadParameters, Answered
<1>2. PICK routines \in MySQLParameters(Here, Loaded.routines) : Load([Loaded EXCEPT !.routines = routines])
  BY DEF LoadParameters
<1> DEFINE new == [Loaded EXCEPT !.routines = routines]
<1>b. Loaded = image[db] /\ DOMAIN Loaded = {"tables", "views", "routines", "triggers", "sequences"}
  BY <1>1, HereIs DEF TypeInv, Loaded, IsImage
<1>3. /\ IsImage(new) /\ new.tables = image[db].tables /\ new.views = image[db].views
      /\ new.routines = routines /\ new.triggers = image[db].triggers
      /\ new.sequences = image[db].sequences
  BY <1>b DEF IsImage
<1>4. DOMAIN routines = DOMAIN image[db].routines
  BY <1>2, <1>b, ParametersDomain
<1>5. Load(new)
  BY <1>2
<1> HIDE DEF new
<1>6. ASSUME NEW c, WholeImage(db, c), NEW q \in Range(Queries), q = stage \/ ~ Awaits(db, q)
      PROVE  Has(q, new, c)
  <2>1. CASE q = "parameters"
    BY <2>1 DEF Has
  <2>2. CASE q # "parameters"
    <3>1. Has(q, image[db], c)
      BY <1>1, <1>6, <2>2 DEF WholeImage
    <3>2. QED
      BY <1>3, <1>4, <3>1, HasStays
  <2>3. QED
    BY <2>1, <2>2
<1>7. QED
  BY <1>1, <1>3, <1>5, <1>6, LoadWhole DEF Left

\* A loop that has come to its end has read all there was to read.
LEMMA LoopEndsWhole ==
    ASSUME TypeInv, WholeInv, LoopEnds
    PROVE  WholeInv'
<1>1. Loading /\ stage \in {"columns", "indexes", "fks"} /\ Load(image[db]) /\ IsImage(image[db])
      /\ driver = "sqlite" /\ todo = {} /\ pending = {}
  BY PlansLoad DEF LoopEnds, Loaded, TypeInv
<1>2. ASSUME NEW c, WholeImage(db, c), NEW q \in Range(Queries), q = stage \/ ~ Awaits(db, q)
      PROVE  Has(q, image[db], c)
  <2>1. CASE q = stage
    <3>1. LoopLoaded(c)
      BY <1>2 DEF WholeImage
    <3>2. QED
      BY <1>1, <2>1, <3>1 DEF LoopLoaded, Has, HasTables, HasIndexes, HasKeys
  <2>2. CASE q # stage
    BY <1>2, <2>2 DEF WholeImage
  <2>3. QED
    BY <2>1, <2>2
<1>3. QED
  BY <1>1, <1>2, LoadWhole DEF Left

\* The tables are complete.
LEMMA LoadColumnsWhole ==
    ASSUME TypeInv, WholeInv, LoadColumns
    PROVE  WholeInv'
<1>1. Loading /\ stage = "columns" /\ driver \in Querying
  BY PlansLoad DEF LoadColumns, Answered, Querying
<1>2. PICK rows : /\ Load([Loaded EXCEPT !.tables = ScanColumns(rows)])
                  /\ rows = ColumnRows(Listed(Here))
  BY <1>1, ColumnAnswerIs DEF LoadColumns, Querying
<1> DEFINE new == [Loaded EXCEPT !.tables = ScanColumns(rows)]
<1>b. Loaded = image[db] /\ DOMAIN Loaded = {"tables", "views", "routines", "triggers", "sequences"}
  BY <1>1, HereIs DEF TypeInv, Loaded, IsImage
<1>3. /\ IsImage(new) /\ new.tables = ScanColumns(rows) /\ new.views = image[db].views
      /\ new.routines = image[db].routines /\ new.triggers = image[db].triggers
      /\ new.sequences = image[db].sequences
  BY <1>b DEF IsImage
<1>5. Load(new) /\ driver # "sqlite"
  BY <1>1, <1>2 DEF Querying
<1> HIDE DEF new
<1>6. ASSUME NEW c, Only(db, c), WholeImage(db, c), NEW q \in Range(Queries), q = stage \/ ~ Awaits(db, q)
      PROVE  Has(q, new, c)
  <2>1. Here = c /\ WellFormed(driver, c) /\ driver \in Five
    BY <1>1, <1>6, OnlyHere
  <2>2. CASE q = "columns"
    <3>1. \A t \in Relations(c) : ~ Skipped(IgnoreTables, t.name) => t.name \in DOMAIN new.tables
      BY <1>2, <1>3, <2>1, LoadedColumnsAre
    <3>2. QED
      BY <2>2, <3>1 DEF Has, HasTables, Stays
  <2>3. CASE q # "columns"
    <3>1. q \notin {"indexes", "fks"}
      BY <1>1, <1>6, <2>1, <2>3, Order
    <3>2. Has(q, image[db], c)
      BY <1>1, <1>6, <2>3 DEF WholeImage
    <3>3. QED
      BY <1>3, <2>3, <3>1, <3>2, HasStays
  <2>4. QED
    BY <2>2, <2>3
<1>7. QED
  BY <1>1, <1>3, <1>5, <1>6, LoadWhole DEF Left

\* The indexes of the tables on the map are complete.
LEMMA LoadIndexesWhole ==
    ASSUME TypeInv, WholeInv, LoadIndexes, StoodInv
    PROVE  WholeInv'
<1>1. Loading /\ stage = "indexes" /\ driver \in Querying
  BY PlansLoad DEF LoadIndexes, Answered, Querying
<1>2. Load([Loaded EXCEPT !.tables = GroupIndexes(@, IndexAnswer(Here))])
  BY <1>1, IndexAnswerIs DEF LoadIndexes, Querying
<1> DEFINE old == image[db].tables
           tables == GroupIndexes(old, IndexAnswer(Here))
           new == [Loaded EXCEPT !.tables = tables]
<1>b. Loaded = image[db] /\ DOMAIN Loaded = {"tables", "views", "routines", "triggers", "sequences"}
  BY <1>1, HereIs DEF TypeInv, Loaded, IsImage
<1>a. Load(new) /\ driver # "sqlite"
  BY <1>1, <1>2 DEF Loaded, Querying
<1> HIDE DEF tables, old
<1>3. /\ IsImage(new) /\ new.tables = tables /\ new.views = image[db].views
      /\ new.routines = image[db].routines /\ new.triggers = image[db].triggers
      /\ new.sequences = image[db].sequences
  BY <1>b DEF IsImage
<1> HIDE DEF new
<1>4. DOMAIN tables = DOMAIN old
  BY DEF tables, GroupIndexes
<1>6. ASSUME NEW c, Only(db, c), WholeImage(db, c), NEW q \in Range(Queries), q = stage \/ ~ Awaits(db, q)
      PROVE  Has(q, new, c)
  <2>1. Here = c /\ WellFormed(driver, c) /\ driver \in Five /\ db \in Databases
    BY <1>1, <1>6, OnlyHere
  <2>2. ASSUME NEW n \in DOMAIN tables
        PROVE  Indexed(c, n, old[n], tables[n]) /\ DOMAIN old[n] = Fields
    <3>1. Clear(db)
      BY <1>6 DEF Only, Clear
    <3>2. TableStood(n, old[n], seen[db])
      BY <1>1, <1>4, <2>1, <3>1, OldStood DEF ImageStood, TablesStood, old
    <3>3. DOMAIN old[n] = Fields /\ "indexes" \in DOMAIN old[n]
      BY <3>2 DEF TableStood, Fields
    <3>4. GoodIndexes(c)
      BY <2>1, IndexesAreGood
    <3>5. QED
      BY <1>1, <1>4, <2>1, <3>3, <3>4, GroupIndexesIs DEF tables
  <2>3. CASE q = "indexes"
    <3>1. \A n \in DOMAIN tables : \A i \in Secondaries(c, n) : i.name \in DOMAIN tables[n].indexes
      BY <2>2 DEF Indexed
    <3>2. QED
      BY <1>3, <2>3, <3>1 DEF Has, HasIndexes
  <2>4. CASE q # "indexes"
    <3>1. Has(q, image[db], c)
      BY <1>1, <1>6, <2>4 DEF WholeImage
    <3>2. \A n \in DOMAIN tables : tables[n].fks = old[n].fks
      BY <2>2 DEF Indexed, Fields
    <3>3. CASE q = "columns"
      BY <1>3, <1>4, <3>1, <3>3 DEF Has, HasTables, old
    <3>4. CASE q = "fks"
      BY <1>3, <1>4, <3>1, <3>2, <3>4 DEF Has, HasKeys, old
    <3>5. CASE q \notin {"columns", "fks"}
      BY <1>3, <2>4, <3>1, <3>5, HasStays
    <3>6. QED
      BY <3>3, <3>4, <3>5
  <2>5. QED
    BY <2>3, <2>4
<1>7. QED
  BY <1>1, <1>3, <1>a, <1>6, LoadWhole DEF Left

\* So are their foreign keys.
LEMMA LoadForeignKeysWhole ==
    ASSUME TypeInv, WholeInv, LoadForeignKeys, StoodInv
    PROVE  WholeInv'
<1>1. Loading /\ stage = "fks" /\ driver \in Querying
  BY LoadForeignKeysIs
<1>2. PICK rows, keys :
          /\ Clear(db) => rows = KeyAnswer(ToldKeys(Here))
          /\ \A t \in DOMAIN Loaded.tables : keys[t] \in GroupForeignKeys(RowsOfTable(rows, t), Kept)
          /\ Load([Loaded EXCEPT !.tables = WithForeignKeys(@, keys)])
  BY LoadForeignKeysIs
<1> DEFINE old == image[db].tables
           tables == WithForeignKeys(old, keys)
           new == [Loaded EXCEPT !.tables = tables]
<1>b. Loaded = image[db] /\ DOMAIN Loaded = {"tables", "views", "routines", "triggers", "sequences"}
  BY <1>1, HereIs DEF TypeInv, Loaded, IsImage
<1>a. Load(new) /\ DOMAIN Loaded.tables = DOMAIN old /\ driver # "sqlite"
  BY <1>1, <1>2 DEF Loaded, Querying
<1> HIDE DEF tables, old
<1>3. /\ IsImage(new) /\ new.tables = tables /\ new.views = image[db].views
      /\ new.routines = image[db].routines /\ new.triggers = image[db].triggers
      /\ new.sequences = image[db].sequences
  BY <1>b DEF IsImage
<1> HIDE DEF new
<1>4. DOMAIN tables = DOMAIN old /\ \A n \in DOMAIN old : tables[n] = [old[n] EXCEPT !.fks = keys[n]]
  BY DEF tables, WithForeignKeys
<1>6. ASSUME NEW c, Only(db, c), WholeImage(db, c), NEW q \in Range(Queries), q = stage \/ ~ Awaits(db, q)
      PROVE  Has(q, new, c)
  <2>1. Here = c /\ WellFormed(driver, c) /\ Unambiguous(c) /\ db \in Databases /\ GoodKeys(ToldKeys(c))
    BY <1>1, <1>6, OnlyHere, KeysAreGood
  <2>a. Clear(db)
    BY <1>6 DEF Only, Clear
  <2>2. ASSUME NEW n \in DOMAIN old
        PROVE  tables[n].fks = keys[n] /\ tables[n].indexes = old[n].indexes
    <3>1. DOMAIN old[n] = Fields
      BY <1>1, <2>1, <2>a, OldStood DEF ImageStood, TablesStood, TableStood, old
    <3>2. QED
      BY <1>4, <3>1 DEF Fields
  <2>3. CASE q = "fks"
    <3>1. ASSUME NEW n \in DOMAIN old, NEW f \in KeysOf(KeysListed(c), n)
          PROVE  f.name \in DOMAIN keys[n]
      <4>1. Keyed(ToldKeys(c), n, keys[n])
        BY <1>2, <1>a, <2>1, <2>a, GroupForeignKeysIs
      <4>2. f \in c.fks /\ f \in KeysListed(c) /\ f.table = n
        BY DEF KeysOf, KeysListed
      <4>3. Told(f) \in KeysOf(ToldKeys(c), n) /\ Told(f).name = f.name
        BY <2>1, <4>2, ToldIs DEF KeysOf, ToldKeys
      <4>4. QED
        BY <4>1, <4>3 DEF Keyed
    <3>2. QED
      BY <1>3, <1>4, <2>2, <2>3, <3>1 DEF Has, HasKeys
  <2>4. CASE q # "fks"
    <3>1. Has(q, image[db], c)
      BY <1>1, <1>6, <2>4 DEF WholeImage
    <3>2. CASE q = "columns"
      BY <1>3, <1>4, <3>1, <3>2 DEF Has, HasTables, old
    <3>3. CASE q = "indexes"
      BY <1>3, <1>4, <2>2, <3>1, <3>3 DEF Has, HasIndexes, old
    <3>4. CASE q \notin {"columns", "indexes"}
      BY <1>3, <2>4, <3>1, <3>4, HasStays
    <3>5. QED
      BY <3>2, <3>3, <3>4
  <2>5. QED
    BY <2>3, <2>4
<1>7. QED
  BY <1>1, <1>3, <1>a, <1>6, LoadWhole DEF Left

----------------------------------------------------------------------------
(* SQLite's loops leave nothing out. *)

\* A step that leaves the images as they are.
LEMMA KeepsWhole ==
    ASSUME Grows, WholeInv, result # "failed", image' = image, db' \in Databases,
           \A d \in Databases : \A q \in Range(Queries) : ~ Awaits(d, q)' => ~ Awaits(d, q) \/ q = "tables",
           \A c : Only(db, c)' /\ (Only(db, c) => LoopLoaded(c)) => LoopLoaded(c)',
           db \in Databases
    PROVE  WholeInv'
<1>1. driver' = driver /\ Queries' = Queries
  BY DEF Grows, Queries
<1>2. ASSUME NEW d \in Databases, NEW c, Only(d, c)' PROVE WholeImage(d, c)'
  <2>1. WholeImage(d, c)
    BY <1>2, OnlyBefore, WholeInvIs
  <2>2. ASSUME NEW q \in Range(Queries), ~ Awaits(d, q)' PROVE Has(q, image[d], c)'
    <3>1. CASE ~ Awaits(d, q)
      <4>1. Has(q, image'[d], c)
        BY <2>1, <3>1 DEF WholeImage
      <4>2. QED
        BY <1>1, <4>1, HasKept
    <3>2. CASE q = "tables"
      BY <3>2 DEF Has
    <3>3. QED
      BY <2>2, <3>1, <3>2
  <2>3. ASSUME db' = d PROVE LoopLoaded(c)'
    <3>1. Only(db, c)'
      BY <1>2, <2>3 DEF Only
    <3>2. Only(db, c) => LoopLoaded(c)
      BY WholeInvIs DEF WholeImage
    <3>3. QED
      BY <3>1, <3>2
  <2>4. QED
    BY <1>1, <2>2, <2>3 DEF WholeImage
<1>3. QED
  BY <1>2, WholeInvNextIs

\* What is awaited depends on where the command is.
LEMMA AwaitsKept ==
    ASSUME UNCHANGED <<driver, db, stage>>
    PROVE  \A d, q : Awaits(d, q)' <=> Awaits(d, q)
BY DEF Awaits, Ahead, BeforeLoads, Loading, Queries

\* A step of SQLite's loops.
LEMMA LoopStepWhole ==
    ASSUME TypeInv, WholeInv, LoopStep,
           \A c : Only(db, c) /\ WholeImage(db, c) =>
               /\ \A q \in Range(Queries) : ~ Awaits(db, q) => Has(q, image'[db], c)
               /\ LoopLoaded(c)'
    PROVE  WholeInv'
<1>1. /\ Loading /\ driver = "sqlite" /\ UNCHANGED <<driver, cat, db, stage, result, seen>>
      /\ DOMAIN image' = Databases
      /\ \A d \in Databases : d # db => image'[d] = image[d]
      /\ IsImage(image'[db])
  BY LoopStepIs
<1>2. \A d \in Databases : IsImage(image'[d])
  BY <1>1 DEF TypeInv
<1>3. TypeInv' /\ Grows /\ db \in Databases
  BY <1>1, <1>2, LoopStepType DEF TypeInv
<1>4. result # "failed"
  BY <1>1, SteadyIsNotLoading DEF TypeInv, Steady
<1>5. Queries' = Queries
  BY <1>1 DEF Queries
<1>6. ASSUME NEW d \in Databases, NEW c, Only(d, c)' PROVE WholeImage(d, c)'
  <2>1. Only(d, c) /\ WholeImage(d, c)
    BY <1>3, <1>4, <1>6, OnlyBefore, WholeInvIs
  <2>2. ASSUME NEW q \in Range(Queries), ~ Awaits(d, q)' PROVE Has(q, image[d], c)'
    <3>1. ~ Awaits(d, q)
      BY <1>1, <2>2, AwaitsKept
    <3>2. Has(q, image'[d], c)
      BY <1>1, <2>1, <3>1 DEF WholeImage
    <3>3. QED
      BY <1>1, <3>2, HasKept
  <2>3. db' = d => LoopLoaded(c)'
    BY <1>1, <2>1
  <2>4. QED
    BY <1>5, <2>2, <2>3 DEF WholeImage
<1>7. QED
  BY <1>6, WholeInvNextIs

\* A table is on the map or still to be read.
LEMMA SqliteColumnsWhole ==
    ASSUME TypeInv, WholeInv, SqliteColumns
    PROVE  WholeInv'
<1>1. LoopStep /\ Loading /\ driver = "sqlite" /\ UNCHANGED <<driver, cat, db, stage, result, seen>>
  BY LoopStepIs DEF LoopStep
<1>2. /\ stage = "columns" /\ table' = table /\ pending' = pending
      /\ \E t \in todo : /\ todo' = todo \ {t}
                         /\ image'[db].tables = Over([x \in {t} |-> ListSqliteColumns(cat[db], t)], image[db].tables)
  BY <1>1, LoopTablesAre
<1>3. PICK t \in todo : /\ todo' = todo \ {t}
                        /\ image'[db].tables = Over([x \in {t} |-> ListSqliteColumns(cat[db], t)], image[db].tables)
  BY <1>2
<1>4. DOMAIN image'[db].tables = {t} \cup DOMAIN image[db].tables
  BY <1>3 DEF Over
<1>5. ASSUME NEW c, Only(db, c), WholeImage(db, c)
      PROVE  /\ \A q \in Range(Queries) : ~ Awaits(db, q) => Has(q, image'[db], c)
             /\ LoopLoaded(c)'
  <2>1. driver \in Five
    BY <1>1, HereIs
  <2>2. ASSUME NEW q \in Range(Queries), ~ Awaits(db, q) PROVE Has(q, image'[db], c)
    <3>1. q \notin {"columns", "indexes", "fks"}
      BY <1>1, <1>2, <2>1, <2>2, Order
    <3>2. Has(q, image[db], c)
      BY <1>5, <2>2 DEF WholeImage
    <3>3. QED
      BY <1>1, <3>1, <3>2, HasStays, LoopStepIs
  <2>3. LoopLoaded(c)'
    <3>1. Relations(c)' = Relations(c)
      BY <1>1, RelationsKept
    <3>2. \A x \in Stays(IgnoreTables, Relations(c)) : x.name \in todo \cup DOMAIN image[db].tables
      BY <1>1, <1>2, <1>5 DEF WholeImage, LoopLoaded
    <3>3. \A x \in Stays(IgnoreTables, Relations(c)) : x.name \in todo' \cup DOMAIN image'[db].tables
      BY <1>3, <1>4, <3>2
    <3>4. Stays(IgnoreTables, Relations(c))' = Stays(IgnoreTables, Relations(c))
      BY <3>1 DEF Stays
    <3>5. QED
      BY <1>1, <1>2, <3>3, <3>4 DEF LoopLoaded
  <2>4. QED
    BY <2>2, <2>3
<1>6. QED
  BY <1>1, <1>5, LoopStepWhole

\* An index of a table that was read is on the map or pending.
LEMMA SqliteIndexInfoWhole ==
    ASSUME TypeInv, LoopInv, StoodInv, WholeInv, SqliteIndexInfo
    PROVE  WholeInv'
<1>1. LoopStep /\ Loading /\ driver = "sqlite" /\ UNCHANGED <<driver, cat, db, stage, result, seen>>
  BY LoopStepIs DEF LoopStep
<1> DEFINE old == image[db].tables
           new == image'[db].tables
           map(i) == Over([x \in {i.name} |-> [cols |-> Columns(SQLiteIndexInfo(cat[db], i.name)),
                                               unique |-> i.unique]], old[table].indexes)
<1>2. /\ stage = "indexes" /\ todo' = todo /\ table' = table
      /\ \E i \in pending :
             /\ pending' = pending \ {i}
             /\ new = [old EXCEPT ![table].indexes =
                    Over([x \in {i.name} |-> [cols |-> Columns(SQLiteIndexInfo(cat[db], i.name)),
                                              unique |-> i.unique]], @)]
  BY <1>1, LoopTablesAre
<1>3. PICK i \in pending :
             /\ pending' = pending \ {i}
             /\ new = [old EXCEPT ![table].indexes =
                    Over([x \in {i.name} |-> [cols |-> Columns(SQLiteIndexInfo(cat[db], i.name)),
                                              unique |-> i.unique]], @)]
  BY <1>2
<1>4. table \in DOMAIN old
  BY <1>1, <1>2, <1>3 DEF LoopInv
<1>5. /\ DOMAIN new = DOMAIN old
      /\ \A n \in DOMAIN old : n # table => new[n] = old[n]
      /\ new[table] = [old[table] EXCEPT !.indexes = map(i)]
  BY <1>3, <1>4
<1>6. DOMAIN map(i) = {i.name} \cup DOMAIN old[table].indexes
  BY DEF Over
<1> HIDE DEF map, old, new
<1>7. ASSUME NEW c, Only(db, c), WholeImage(db, c)
      PROVE  /\ \A q \in Range(Queries) : ~ Awaits(db, q) => Has(q, image'[db], c)
             /\ LoopLoaded(c)'
  <2>1. driver \in Five /\ db \in Databases
    BY <1>1, HereIs
  <2>2. ASSUME NEW q \in Range(Queries), ~ Awaits(db, q) PROVE Has(q, image'[db], c)
    <3>1. q \notin {"indexes", "fks"}
      BY <1>1, <1>2, <2>1, <2>2, Order
    <3>2. Has(q, image[db], c)
      BY <1>7, <2>2 DEF WholeImage
    <3>3. CASE q = "columns"
      BY <1>5, <3>2, <3>3 DEF Has, HasTables, old, new
    <3>4. CASE q # "columns"
      BY <1>1, <3>1, <3>2, <3>4, HasStays, LoopStepIs
    <3>5. QED
      BY <3>3, <3>4
  <2>3. Clear(db)
    BY <1>7 DEF Only, Clear
  <2>4. DOMAIN old[table] = Fields
    BY <1>1, <1>4, <2>1, <2>3, OldStood DEF ImageStood, TablesStood, TableStood, old
  <2>5. new[table].indexes = map(i)
    BY <1>5, <2>4 DEF Fields
  <2>6. \A t \in DOMAIN old \ todo : \A x \in Secondaries(c, t) :
            \/ x.name \in DOMAIN old[t].indexes
            \/ t = table /\ \E y \in pending : y.name = x.name
    BY <1>1, <1>2, <1>7 DEF WholeImage, LoopLoaded, old
  <2>7. \A t \in DOMAIN new \ todo' : \A x \in Secondaries(c, t) :
            \/ x.name \in DOMAIN new[t].indexes
            \/ t = table' /\ \E y \in pending' : y.name = x.name
    BY <1>2, <1>3, <1>5, <1>6, <2>5, <2>6
  <2>8. \A t : Secondaries(c, t)' = Secondaries(c, t)
    BY <1>1, ListedKept
  <2>9. LoopLoaded(c)'
    BY <1>1, <1>2, <2>7, <2>8 DEF LoopLoaded, new
  <2>10. QED
    BY <2>2, <2>9
<1>8. QED
  BY <1>1, <1>7, LoopStepWhole

\* The foreign keys of a table that was read are on the map.
LEMMA SqliteForeignKeysWhole ==
    ASSUME TypeInv, LoopInv, StoodInv, WholeInv, SqliteForeignKeys
    PROVE  WholeInv'
<1>1. LoopStep /\ Loading /\ driver = "sqlite" /\ UNCHANGED <<driver, cat, db, stage, result, seen>>
  BY LoopStepIs DEF LoopStep
<1> DEFINE old == image[db].tables
           new == image'[db].tables
<1>2. /\ stage = "fks"
      /\ \E t \in todo :
             /\ todo' = todo \ {t}
             /\ \E keys \in GroupForeignKeys(SQLiteForeignKeyList(cat[db], t), Kept) :
                    new = [old EXCEPT ![t].fks = keys]
  BY <1>1, LoopTablesAre
<1>3. PICK t \in todo :
             /\ todo' = todo \ {t}
             /\ \E keys \in GroupForeignKeys(SQLiteForeignKeyList(cat[db], t), Kept) :
                    new = [old EXCEPT ![t].fks = keys]
  BY <1>2
<1>4. PICK keys \in GroupForeignKeys(SQLiteForeignKeyList(cat[db], t), Kept) :
          new = [old EXCEPT ![t].fks = keys]
  BY <1>3
<1>5. t \in DOMAIN old
  BY <1>1, <1>2 DEF LoopInv
<1>6. /\ DOMAIN new = DOMAIN old
      /\ \A n \in DOMAIN old : n # t => new[n] = old[n]
      /\ new[t] = [old[t] EXCEPT !.fks = keys]
  BY <1>4, <1>5
<1> HIDE DEF old, new
<1>7. ASSUME NEW c, Only(db, c), WholeImage(db, c)
      PROVE  /\ \A q \in Range(Queries) : ~ Awaits(db, q) => Has(q, image'[db], c)
             /\ LoopLoaded(c)'
  <2>1. driver \in Five /\ db \in Databases /\ cat[db] = c /\ WellFormed(driver, c) /\ Unambiguous(c)
    BY <1>1, <1>7, OnlyHere
  <2>2. Clear(db)
    BY <1>7 DEF Only, Clear
  <2>3. DOMAIN old[t] = Fields
    BY <1>1, <1>5, <2>1, <2>2, OldStood DEF ImageStood, TablesStood, TableStood, old
  <2>4. new[t].fks = keys /\ new[t].indexes = old[t].indexes
    BY <1>6, <2>3 DEF Fields
  <2>5. ASSUME NEW q \in Range(Queries), ~ Awaits(db, q) PROVE Has(q, image'[db], c)
    <3>1. q # "fks"
      BY <1>1, <1>2, <2>1, <2>5, Order
    <3>2. Has(q, image[db], c)
      BY <1>7, <2>5 DEF WholeImage
    <3>3. CASE q = "columns"
      BY <1>6, <3>2, <3>3 DEF Has, HasTables, old, new
    <3>4. CASE q = "indexes"
      BY <1>6, <2>4, <3>2, <3>4 DEF Has, HasIndexes, old, new
    <3>5. CASE q \notin {"columns", "indexes"}
      BY <1>1, <3>1, <3>2, <3>5, HasStays, LoopStepIs
    <3>6. QED
      BY <3>3, <3>4, <3>5
  <2>6. ASSUME NEW f \in KeysOf(KeysListed(c), t) PROVE f.name \in DOMAIN keys
    <3>1. SQLiteForeignKeyList(cat[db], t) = RowsOfTable(KeyAnswer(ToldKeys(c)), t)
      BY <1>1, <2>1, SqliteKeyAnswerIs
    <3>2. keys \in GroupForeignKeys(RowsOfTable(KeyAnswer(ToldKeys(c)), t), Kept)
      BY <1>4, <3>1
    <3>3. Keyed(ToldKeys(c), t, keys)
      BY <2>1, <3>2, KeysAreGood, GroupForeignKeysIs
    <3>4. f \in c.fks /\ f \in KeysListed(c) /\ f.table = t
      BY DEF KeysOf, KeysListed
    <3>5. Told(f) \in KeysOf(ToldKeys(c), t) /\ Told(f).name = f.name
      BY <2>1, <3>4, ToldIs DEF KeysOf, ToldKeys
    <3>6. QED
      BY <3>3, <3>5 DEF Keyed
  <2>7. \A n \in DOMAIN old \ todo : \A f \in KeysOf(KeysListed(c), n) : f.name \in DOMAIN old[n].fks
    BY <1>1, <1>2, <1>7 DEF WholeImage, LoopLoaded, old
  <2>8. \A n \in DOMAIN new \ todo' : \A f \in KeysOf(KeysListed(c), n) : f.name \in DOMAIN new[n].fks
    BY <1>3, <1>6, <2>4, <2>6, <2>7
  <2>9. LoopLoaded(c)'
    <3>1. KeysListed(c)' = KeysListed(c)
      BY <1>1, ListedKept
    <3>2. QED
      BY <1>1, <1>2, <2>8, <3>1 DEF LoopLoaded, new, KeysOf
  <2>10. QED
    BY <2>5, <2>9
<1>8. QED
  BY <1>1, <1>7, LoopStepWhole

----------------------------------------------------------------------------
(* Complete images, and the verdict of the comparison. *)

\* The loop starts with every table that is not ignored.
LEMMA SqliteTablesWhole ==
    ASSUME TypeInv, WholeInv, SqliteTables
    PROVE  WholeInv'
<1>1. /\ Loading /\ Advance /\ driver = "sqlite" /\ stage = "tables" /\ image' = image
      /\ todo' = ListSqliteTables(cat[db])
  BY SqliteTablesIs
<1>2. stage' = "columns" /\ UNCHANGED <<db, seen>>
  BY <1>1, SqliteAdvances
<1>3. TypeInv' /\ Grows /\ db \in Databases /\ driver' = driver /\ cat' = cat
  BY <1>1, AdvanceType, AdvanceFrame DEF TypeInv
<1>4. \A d \in Databases : \A q \in Range(Queries) : ~ Awaits(d, q)' => ~ Awaits(d, q) \/ q = "tables"
  BY <1>1, AwaitsAdvance
<1>5. ASSUME NEW c, Only(db, c)' PROVE LoopLoaded(c)'
  <2>1. Only(db, c)
    BY <1>2, <1>3, <1>5, OnlyBefore DEF Only
  <2>2. cat[db] = c /\ WellFormed(driver, c)
    BY <1>1, <2>1, OnlyHere
  <2>3. Relations(c) = c.tables /\ Relations(c)' = Relations(c)
    BY <1>1, <1>3, <2>2, SqliteColumnsAre, RelationsKept
  <2>4. \A t \in Stays(IgnoreTables, Relations(c)) : t.name \in todo'
    BY <1>1, <2>2, <2>3 DEF ListSqliteTables, Named, Stays
  <2>5. Stays(IgnoreTables, Relations(c))' = Stays(IgnoreTables, Relations(c))
    BY <2>3 DEF Stays
  <2>6. QED
    BY <1>2, <2>4, <2>5 DEF LoopLoaded
<1>6. result # "failed"
  BY <1>1, SteadyIsNotLoading DEF TypeInv, Steady
<1>7. QED
  BY <1>1, <1>2, <1>3, <1>4, <1>5, <1>6, KeepsWhole

\* The indexes of a table are pending when it has been read.
LEMMA SqliteIndexListWhole ==
    ASSUME TypeInv, WholeInv, SqliteIndexList
    PROVE  WholeInv'
<1>1. LoopStep /\ Loading /\ driver = "sqlite" /\ UNCHANGED <<driver, cat, db, stage, result, seen>>
      /\ \A d \in Databases : IsImage(image'[d])
  BY LoopStepIs DEF LoopStep, TypeInv
<1>2. /\ stage = "indexes" /\ pending = {} /\ image' = image
      /\ \E t \in todo : todo' = todo \ {t} /\ table' = t /\ pending' = SQLiteIndexList(cat[db], t)
  BY <1>1, LoopTablesAre
<1>3. PICK t \in todo : todo' = todo \ {t} /\ table' = t /\ pending' = SQLiteIndexList(cat[db], t)
  BY <1>2
<1>4. TypeInv' /\ Grows /\ db \in Databases
  BY <1>1, <1>2, LoopStepType DEF TypeInv
<1>5. ASSUME NEW c, Only(db, c)', Only(db, c) => LoopLoaded(c) PROVE LoopLoaded(c)'
  <2>1. Only(db, c) /\ LoopLoaded(c)
    BY <1>1, <1>4, <1>5, OnlyBefore DEF Only
  <2>2. cat[db] = c
    BY <1>1, <2>1, OnlyHere
  <2>3. \A x \in Secondaries(c, t) : \E y \in pending' : y.name = x.name
    <3>1. SUFFICES ASSUME NEW x \in Secondaries(c, t) PROVE \E y \in pending' : y.name = x.name
      OBVIOUS
    <3>2. x \in c.indexes /\ x.table = t /\ Reported(x) # << >>
      BY DEF Secondaries, Found, Secondary
    <3>3. x.origin = "c"
      BY <1>1, <3>2 DEF Reported
    <3>4. [name |-> x.name, unique |-> x.unique] \in pending'
      BY <1>3, <2>2, <3>2, <3>3 DEF SQLiteIndexList
    <3>5. QED
      BY <3>4
  <2>4. \A u \in DOMAIN image[db].tables \ todo : \A x \in Secondaries(c, u) :
            x.name \in DOMAIN image[db].tables[u].indexes
    BY <1>1, <1>2, <2>1 DEF LoopLoaded
  <2>5. \A u \in DOMAIN image[db].tables \ todo' : \A x \in Secondaries(c, u) :
            \/ x.name \in DOMAIN image[db].tables[u].indexes
            \/ u = table' /\ \E y \in pending' : y.name = x.name
    BY <1>3, <2>3, <2>4
  <2>6. \A u : Secondaries(c, u)' = Secondaries(c, u)
    BY <1>1, ListedKept
  <2>7. QED
    BY <1>1, <1>2, <2>5, <2>6 DEF LoopLoaded
<1>6. result # "failed"
  BY <1>1, SteadyIsNotLoading DEF TypeInv, Steady
<1>7. \A d, q : Awaits(d, q)' <=> Awaits(d, q)
  BY <1>1, AwaitsKept
<1>8. QED
  BY <1>1, <1>2, <1>4, <1>5, <1>6, <1>7, KeepsWhole

\* WholeInv and VerdictInv hold at first.
LEMMA WholeInvInit == DiffInit => WholeInv /\ VerdictInv
<1> SUFFICES ASSUME DiffInit PROVE WholeInv /\ VerdictInv
  OBVIOUS
<1>1. stage = "open" /\ result = "none"
  BY DEF DiffInit
<1>2. \A d, q : Awaits(d, q)
  BY <1>1 DEF Awaits, BeforeLoads
<1>3. \A c : LoopLoaded(c)
  BY <1>1 DEF LoopLoaded
<1>4. QED
  BY <1>1, <1>2, <1>3 DEF WholeInv, WholeImage, VerdictInv, Compared

\* Nothing is complete before the first query.
LEMMA ConnectWhole ==
    ASSUME TypeInv, WholeInv, Connect
    PROVE  WholeInv'
<1>1. CASE result' = "failed"
  BY <1>1 DEF WholeInv
<1>2. CASE result' # "failed"
  <2>1. /\ stage \in {"open", "ping", "wait"} /\ image' = image
        /\ \/ stage' \in {"open", "ping", "wait"}
           \/ stage' = Queries[1] /\ db' = "prod"
    BY <1>2, PlanType DEF Connect, OpenHandle, NoDSN, OpenFails, PingFails, Waited, Connected, Retry, Exit
  <2>2. TypeInv' /\ Grows /\ db' \in Databases /\ db \in Databases
    BY ConnectType DEF TypeInv
  <2>3. driver' = driver /\ Queries' = Queries
    BY <2>2 DEF Grows, Queries
  <2>4. result # "failed"
    BY <2>1 DEF TypeInv
  <2>5. ASSUME NEW d \in Databases, NEW q \in Range(Queries) PROVE Awaits(d, q)'
    <3>1. CASE stage' \in {"open", "ping", "wait"}
      BY <3>1 DEF Awaits, BeforeLoads
    <3>2. CASE stage' = Queries[1] /\ db' = "prod"
      <4>1. PICK k \in 1 .. Len(Queries) : Queries[k] = q
        BY PlanType DEF Range
      <4>2. 1 \in DOMAIN Queries /\ k \in DOMAIN Queries /\ 1 <= k
        BY PlanType
      <4>3. q \in Ahead(Queries[1])
        BY <4>1, <4>2 DEF Ahead
      <4>4. Loading'
        BY <2>3, <3>2, <4>2 DEF Loading, Range
      <4>5. Ahead(stage)' = Ahead(stage')
        BY <2>3 DEF Ahead
      <4>6. QED
        BY <3>2, <4>3, <4>4, <4>5 DEF Awaits, Databases
    <3>3. QED
      BY <2>1, <3>1, <3>2
  <2>6. \A c : LoopLoaded(c)'
    <3>1. driver = "sqlite" => Queries[1] = "tables"
      BY QueriesAre
    <3>2. driver' = "sqlite" => stage' \notin {"columns", "indexes", "fks"}
      BY <2>1, <2>3, <3>1
    <3>3. QED
      BY <3>2 DEF LoopLoaded
  <2>7. QED
    BY <2>1, <2>2, <2>4, <2>5, <2>6, KeepsWhole
<1>3. QED
  BY <1>1, <1>2

\* Every step keeps WholeInv.
LEMMA WholeInvStep == TypeInv /\ LoopInv /\ StoodInv /\ WholeInv /\ [DiffNext]_diffVars => WholeInv'
<1> SUFFICES ASSUME TypeInv, LoopInv, StoodInv, WholeInv, [DiffNext]_diffVars PROVE WholeInv'
  OBVIOUS
<1>0. TypeInv' /\ Grows /\ db \in Databases
  BY TypeInvStep DEF TypeInv
<1>1. CASE Connect
  BY <1>1, ConnectWhole
<1>2. CASE LoadStep
  BY <1>2, LoadColumnsWhole, LoadIndexesWhole, LoadForeignKeysWhole, LoopEndsWhole, LoadViewsWhole,
     LoadMaterializedViewsWhole, LoadRoutinesWhole, LoadParametersWhole, LoadTriggersWhole,
     LoadSequencesWhole DEF LoadStep
<1>3. CASE LoopStep
  BY <1>3, SqliteColumnsWhole, SqliteIndexListWhole, SqliteIndexInfoWhole, SqliteForeignKeysWhole DEF LoopStep
<1>4. CASE SqliteTables
  BY <1>4, SqliteTablesWhole
<1>5. CASE QueryFails \/ ReportFails
  <2>1. result' = "failed"
    BY <1>5 DEF QueryFails, ReportFails, Exit
  <2>2. QED
    BY <2>1 DEF WholeInv
<1>6. CASE Compare
  <2>1. stage = "compare" /\ stage' = "exit" /\ image' = image /\ db' = db
    BY <1>6 DEF Compare, Exit
  <2>2. \A d \in Databases : \A q : ~ Awaits(d, q)
    BY <2>1, SteadyIsNotLoading DEF Awaits, BeforeLoads, Steady
  <2>3. \A c : LoopLoaded(c)'
    BY <2>1 DEF LoopLoaded
  <2>4. result # "failed"
    BY <2>1 DEF TypeInv
  <2>5. QED
    BY <1>0, <2>1, <2>2, <2>3, <2>4, KeepsWhole
<1>7. CASE OtherClient \/ UNCHANGED diffVars
  <2>1. UNCHANGED <<driver, db, stage, image, todo, table, pending, result>>
    BY <1>7 DEF OtherClient, diffVars, loop
  <2>2. \A d, q : Awaits(d, q)' <=> Awaits(d, q)
    BY <2>1, AwaitsKept
  <2>3. ASSUME NEW c, Only(db, c)', Only(db, c) => LoopLoaded(c) PROVE LoopLoaded(c)'
    <3>1. LoopLoaded(c)
      BY <1>0, <2>1, <2>3, OnlyBefore DEF Only
    <3>2. /\ Relations(c)' = Relations(c) /\ \A t : Secondaries(c, t)' = Secondaries(c, t)
          /\ KeysListed(c)' = KeysListed(c)
      BY <2>1, RelationsKept, ListedKept
    <3>3. Stays(IgnoreTables, Relations(c))' = Stays(IgnoreTables, Relations(c))
      BY <3>2 DEF Stays
    <3>4. QED
      BY <2>1, <3>1, <3>2, <3>3 DEF LoopLoaded, KeysOf
  <2>4. CASE result = "failed"
    BY <2>1, <2>4 DEF WholeInv
  <2>5. CASE result # "failed"
    BY <1>0, <2>1, <2>2, <2>3, <2>5, KeepsWhole
  <2>6. QED
    BY <2>4, <2>5
<1>8. QED
  BY <1>1, <1>2, <1>3, <1>4, <1>5, <1>6, <1>7, LoadSchemaIs DEF DiffNext, Command

\* Every step keeps VerdictInv: no image changes after the comparison.
LEMMA VerdictInvStep == TypeInv /\ VerdictInv /\ [DiffNext]_diffVars => VerdictInv'
<1> SUFFICES ASSUME TypeInv, VerdictInv, [DiffNext]_diffVars PROVE VerdictInv'
  OBVIOUS
<1>1. CASE Compare
  BY <1>1 DEF Compare, Exit, VerdictInv, Compared
<1>2. CASE result' = "failed" \/ result' = "none"
  BY <1>2 DEF VerdictInv, Compared
<1>3. CASE UNCHANGED <<result, image>>
  BY <1>3 DEF VerdictInv, Compared
<1>4. stage # "exit" => result = "none"
  BY DEF TypeInv
<1>5. CASE Connect
  <2>1. UNCHANGED <<result, image>> \/ result' = "failed"
    BY <1>5 DEF Connect, OpenHandle, NoDSN, OpenFails, PingFails, Waited, Connected, Retry, Exit
  <2>2. QED
    BY <1>2, <1>3, <2>1
<1>6. CASE LoadStep \/ LoopStep \/ SqliteTables
  <2>1. Loading
    BY <1>6, LoadStepIs, LoopStepIs, SqliteTablesIs
  <2>2. result = "none"
    BY <1>4, <2>1, SteadyIsNotLoading DEF Steady
  <2>3. result' = result
    <3>1. CASE LoadStep
      <4>1. PICK new : Load(new)
        BY <3>1, LoadStepIs
      <4>2. QED
        BY <4>1 DEF Load, Advance
    <3>2. CASE LoopStep \/ SqliteTables
      BY <3>2, LoopStepIs DEF SqliteTables, Advance
    <3>3. QED
      BY <1>6, <3>1, <3>2
  <2>4. QED
    BY <1>2, <2>2, <2>3
<1>7. CASE QueryFails \/ ReportFails
  BY <1>2, <1>7 DEF QueryFails, ReportFails, Exit
<1>8. CASE OtherClient \/ UNCHANGED diffVars
  BY <1>3, <1>8 DEF OtherClient, diffVars
<1>9. QED
  BY <1>1, <1>5, <1>6, <1>7, <1>8, LoadSchemaIs DEF DiffNext, Command

\* The inductive invariant of schema-diff: what the images hold stood, and a
\* database that nobody changed is loaded without a gap once its query is over.
THEOREM WholeInvariant == DiffSpec => [](TypeInv /\ LoopInv /\ StoodInv /\ WholeInv /\ VerdictInv)
<1>1. DiffInit => TypeInv /\ LoopInv /\ StoodInv /\ WholeInv /\ VerdictInv
  BY TypeInvInit, LoopInvInit, StoodInvInit, WholeInvInit
<1>2. TypeInv /\ LoopInv /\ StoodInv /\ WholeInv /\ VerdictInv /\ [DiffNext]_diffVars
          => (TypeInv /\ LoopInv /\ StoodInv /\ WholeInv /\ VerdictInv)'
  BY TypeInvStep, LoopInvStep, StoodInvStep, WholeInvStep, VerdictInvStep
<1>3. QED
  BY <1>1, <1>2, PTL DEF DiffSpec

----------------------------------------------------------------------------
(* An image that is true and whole shows what is known of its catalog. *)

\* What the comparison looks at of each part of an image.
KnownColumns(cols) == [n \in DOMAIN cols |-> Normal("column", cols[n])]
KnownTable(t, x) == <<"table", t, KnownColumns(x.cols), x.key>>
KnownKey(t, n, x) == <<"fk", t, n, x.cols, x.refTable, x.refCols, Normal("rules", x.rules)>>
KnownView(n, x) ==
    <<"view", IF driver = "postgres" THEN n[1] ELSE "", ViewName(n), Normal("view", x.def), x.mat>>
KnownRoutine(n, x) ==
    <<"routine", n, Normal("kind", x.kind), Normal("routine", x.def), Normal("params", x.params)>>
KnownTrigger(n, x) == <<"trigger", n, Normal("trigger", x.def)>>

KnownPart(c, p) ==
    CASE p[1] = "table" ->
            <<"table", p[2], [n \in DOMAIN p[3] |-> Normal("column", p[3][n])], p[4]>>
       [] p[1] = "fk" ->
            <<"fk", p[2], p[3], p[4], p[5], p[6], Normal("rules", p[7])>>
       [] p[1] = "view" ->
            <<"view", IF driver = "postgres" THEN c.schema ELSE "", p[2],
              Normal("view", p[3]), p[4]>>
       [] p[1] = "routine" ->
            <<"routine", p[2], Normal("kind", p[3]), Normal("routine", p[4]),
              Normal("params", p[5])>>
       [] p[1] = "trigger" -> <<"trigger", p[2], Normal("trigger", p[3])>>
       [] OTHER -> p

\* Known, part by part.
LEMMA KnownIs == \A c : Known(c) = {KnownPart(c, p) : p \in Parts(c)}
BY DEF Known, KnownPart

\* What is known of the parts of an image.
LEMMA KnownOfImage ==
    ASSUME NEW c
    PROVE  /\ \A t, x : KnownPart(c, TablePart(t, x)) = KnownTable(t, x)
           /\ \A t, n, x : KnownPart(c, IndexImage(t, n, x)) = IndexImage(t, n, x)
           /\ \A t, n, x : KnownPart(c, KeyPlace(t, n, x)) = KnownKey(t, n, x)
           /\ \A n, x : (driver = "postgres" => n[1] = c.schema) =>
                            KnownPart(c, ViewPart(n, x)) = KnownView(n, x)
           /\ \A n, x : KnownPart(c, RoutinePart(n, x)) = KnownRoutine(n, x)
           /\ \A n, x : KnownPart(c, TriggerPart(n, x)) = KnownTrigger(n, x)
           /\ \A n, x : KnownPart(c, SequencePart(n, x)) = SequencePart(n, x)
<1>1. \A t, x : KnownPart(c, TablePart(t, x)) = KnownTable(t, x)
  BY DEF KnownPart, TablePart, KnownTable, KnownColumns
<1>2. \A t, n, x : KnownPart(c, IndexImage(t, n, x)) = IndexImage(t, n, x)
  BY DEF KnownPart, IndexImage
<1>3. \A t, n, x : KnownPart(c, KeyPlace(t, n, x)) = KnownKey(t, n, x)
  BY DEF KnownPart, KeyPlace, KnownKey
<1>4. ASSUME NEW n, NEW x, driver = "postgres" => n[1] = c.schema
      PROVE  KnownPart(c, ViewPart(n, x)) = KnownView(n, x)
  BY <1>4 DEF KnownPart, ViewPart, KnownView
<1>5. \A n, x : KnownPart(c, RoutinePart(n, x)) = KnownRoutine(n, x)
  BY DEF KnownPart, RoutinePart, KnownRoutine
<1>6. \A n, x : KnownPart(c, TriggerPart(n, x)) = KnownTrigger(n, x)
  BY DEF KnownPart, TriggerPart, KnownTrigger
<1>7. \A n, x : KnownPart(c, SequencePart(n, x)) = SequencePart(n, x)
  BY DEF KnownPart, SequencePart
<1>8. QED
  BY <1>1, <1>2, <1>3, <1>4, <1>5, <1>6, <1>7

ShownOfTables(tables, p) ==
    \E t \in DOMAIN tables :
        \/ p = KnownTable(t, tables[t])
        \/ \E n \in DOMAIN tables[t].indexes : p = IndexImage(t, n, tables[t].indexes[n])
        \/ \E n \in DOMAIN tables[t].fks : p = KnownKey(t, n, tables[t].fks[n])

\* What the comparison sees of an image.
Shown(img, p) ==
    \/ ShownOfTables(img.tables, p)
    \/ \E n \in DOMAIN img.views : p = KnownView(n, img.views[n])
    \/ \E n \in DOMAIN img.routines : p = KnownRoutine(n, img.routines[n])
    \/ \E n \in DOMAIN img.triggers : p = KnownTrigger(n, img.triggers[n])
    \/ \E n \in DOMAIN img.sequences : p = SequencePart(n, img.sequences[n])

\* An image whose parts all stood in a catalog, and that has all of its names.
Truly(img, c) ==
    /\ TablesStood(img.tables, {c}) /\ ViewsStood(img.views, {c})
    /\ TriggersStood(img.triggers, {c}) /\ SequencesStood(img.sequences, {c})
    /\ RoutinesStood(img.routines, {c})

Wholly(img, c) == \A q \in Range(Queries) : Has(q, img, c)

\* With one catalog seen, a part that is allowed is one of its parts.
LEMMA HeldAlone ==
    ASSUME NEW c, NEW p
    PROVE  Held(p, {c}) <=> p \in Parts(c)
<1>1. Cardinality({c}) = 1
  BY FS_Singleton
<1>2. QED
  BY <1>1 DEF Held

\* The heads of the parts.
LEMMA Heads ==
    ASSUME NEW c
    PROVE  \A p \in Parts(c) :
               /\ p[1] = "table" => \E t \in Stays(IgnoreTables, Relations(c)) : p = AsTuple(t)
               /\ p[1] = "index" => \E i \in c.indexes : p = IndexPart(i)
               /\ p[1] = "fk" => \E f \in c.fks : p = KeyPart(f)
               /\ p[1] = "view" => \E v \in Stays(IgnoreViews, c.views) :
                                       p = <<"view", v.name, OwnText(c, v), v.mat>>
               /\ p[1] = "trigger" => \E t \in Stays(IgnoreTriggers, c.triggers) :
                                          p = <<"trigger", t.name, TriggerText(t), t.table>>
               /\ p[1] = "routine" => \E r \in Stays(IgnoreRoutines, c.routines) :
                                          p = RoutineOf(r)
               /\ p[1] = "sequence" => \E s \in Stays(IgnoreSequences, c.sequences) :
                                           p = <<"sequence", s.name, s.def>>
<1>1. ASSUME NEW p \in PartsOfTables(c)
      PROVE  \/ p[1] = "table" /\ \E t \in Stays(IgnoreTables, Relations(c)) : p = AsTuple(t)
             \/ p[1] = "index" /\ \E i \in c.indexes : p = IndexPart(i)
             \/ p[1] = "fk" /\ \E f \in c.fks : p = KeyPart(f)
  <2>1. PICK t \in Stays(IgnoreTables, Relations(c)) :
               \/ p = AsTuple(t)
               \/ \E i \in c.indexes : i.table = t.name /\ IndexListed(c, i) /\ p = IndexPart(i)
               \/ \E f \in c.fks : f.table = t.name /\ KeyListed(c, f) /\ p = KeyPart(f)
    BY TablePartsAre
  <2>2. CASE p = AsTuple(t)
    BY <2>2 DEF AsTuple
  <2>3. CASE \E i \in c.indexes : p = IndexPart(i)
    <3>1. PICK i \in c.indexes : p = IndexPart(i)
      BY <2>3
    <3>2. p[1] = "index"
      BY <3>1 DEF IndexPart
    <3>3. QED
      BY <3>1, <3>2
  <2>4. CASE \E f \in c.fks : p = KeyPart(f)
    <3>1. PICK f \in c.fks : p = KeyPart(f)
      BY <2>4
    <3>2. p[1] = "fk"
      BY <3>1 DEF KeyPart
    <3>3. QED
      BY <3>1, <3>2
  <2>5. QED
    BY <2>1, <2>2, <2>3, <2>4
<1>2. ASSUME NEW p \in PartsOutsideTables(c)
      PROVE  \/ p[1] = "view" /\ \E v \in Stays(IgnoreViews, c.views) :
                                     p = <<"view", v.name, OwnText(c, v), v.mat>>
             \/ p[1] = "trigger" /\ \E t \in Stays(IgnoreTriggers, c.triggers) :
                                        p = <<"trigger", t.name, TriggerText(t), t.table>>
             \/ p[1] = "routine" /\ \E r \in Stays(IgnoreRoutines, c.routines) :
                                        p = RoutineOf(r)
             \/ p[1] = "sequence" /\ \E s \in Stays(IgnoreSequences, c.sequences) :
                                         p = <<"sequence", s.name, s.def>>
  <2>1. \A r : RoutineOf(r)[1] = "routine"
    BY DEF RoutineOf
  <2>2. QED
    BY <2>1, OtherPartsAre
<1>3. QED
  BY <1>1, <1>2 DEF Parts

\* No two objects of a catalog share a name.
LEMMA OneOfAName ==
    ASSUME NEW c, WellFormed(driver, c), Unambiguous(c), driver \in Five
    PROVE  /\ Distinguished(Relations(c)) /\ Distinguished(c.views)
           /\ \A i, j \in c.indexes : i.table = j.table /\ i.name = j.name => i = j
           /\ \A f, g \in c.fks : f.table = g.table /\ f.name = g.name => f = g
           /\ Distinguished(c.routines) /\ Distinguished(c.triggers) /\ Distinguished(c.sequences)
<1>1. Distinguished(Relations(c)) /\ Distinguished(c.views)
  BY ListedIs, WellFormedSays DEF Distinguished
<1>2. /\ \A i, j \in c.indexes : i.table = j.table /\ i.name = j.name => i = j
      /\ \A f, g \in c.fks : f.table = g.table /\ f.name = g.name => f = g
  BY DEF WellFormed
<1>3. Distinguished(c.routines) /\ Distinguished(c.sequences)
  BY DEF WellFormed, Unambiguous, Distinguished
<1>4. Distinguished(c.triggers)
  BY DEF WellFormed, Unambiguous, Distinguished
<1>5. QED
  BY <1>1, <1>2, <1>3, <1>4

\* What a true image shows is known of the catalog.
LEMMA ShownIsKnown ==
    ASSUME NEW c, NEW img, Truly(img, c), NEW p, Shown(img, p)
    PROVE  p \in Known(c)
<1>1. \A q \in Parts(c) : KnownPart(c, q) \in Known(c)
  BY KnownIs
<1>2. CASE ShownOfTables(img.tables, p)
  <2>1. PICK t \in DOMAIN img.tables :
          \/ p = KnownTable(t, img.tables[t])
          \/ \E n \in DOMAIN img.tables[t].indexes : p = IndexImage(t, n, img.tables[t].indexes[n])
          \/ \E n \in DOMAIN img.tables[t].fks : p = KnownKey(t, n, img.tables[t].fks[n])
    BY <1>2 DEF ShownOfTables
  <2>2. TableStood(t, img.tables[t], {c})
    BY DEF Truly, TablesStood
  <2>3. /\ TablePart(t, img.tables[t]) \in Parts(c)
        /\ \A n \in DOMAIN img.tables[t].indexes : IndexImage(t, n, img.tables[t].indexes[n]) \in Parts(c)
        /\ \A n \in DOMAIN img.tables[t].fks : KeyPlace(t, n, img.tables[t].fks[n]) \in Parts(c)
    BY <2>2, HeldAlone DEF TableStood
  <2>4. /\ KnownTable(t, img.tables[t]) \in Known(c)
        /\ \A n \in DOMAIN img.tables[t].indexes : IndexImage(t, n, img.tables[t].indexes[n]) \in Known(c)
        /\ \A n \in DOMAIN img.tables[t].fks : KnownKey(t, n, img.tables[t].fks[n]) \in Known(c)
    BY <1>1, <2>3, KnownOfImage
  <2>5. QED
    BY <2>1, <2>4
<1>3. ASSUME NEW n \in DOMAIN img.views, p = KnownView(n, img.views[n]) PROVE p \in Known(c)
  <2>1. ViewPart(n, img.views[n]) \in Parts(c) /\ (driver = "postgres" => n[1] = c.schema)
    BY DEF Truly, ViewsStood
  <2>2. KnownPart(c, ViewPart(n, img.views[n])) = p
    BY <1>3, <2>1, KnownOfImage
  <2>3. QED
    BY <1>1, <2>1, <2>2
<1>4. ASSUME NEW n \in DOMAIN img.routines, p = KnownRoutine(n, img.routines[n]) PROVE p \in Known(c)
  <2>1. RoutinePart(n, img.routines[n]) \in Parts(c)
    BY HeldAlone DEF Truly, RoutinesStood
  <2>2. QED
    BY <1>1, <1>4, <2>1, KnownOfImage
<1>5. ASSUME NEW n \in DOMAIN img.triggers, p = KnownTrigger(n, img.triggers[n]) PROVE p \in Known(c)
  <2>1. TriggerPart(n, img.triggers[n]) \in Parts(c)
    BY DEF Truly, TriggersStood
  <2>2. QED
    BY <1>1, <1>5, <2>1, KnownOfImage
<1>6. ASSUME NEW n \in DOMAIN img.sequences, p = SequencePart(n, img.sequences[n]) PROVE p \in Known(c)
  <2>1. SequencePart(n, img.sequences[n]) \in Parts(c)
    BY DEF Truly, SequencesStood
  <2>2. QED
    BY <1>1, <1>6, <2>1, KnownOfImage
<1>7. QED
  BY <1>2, <1>3, <1>4, <1>5, <1>6 DEF Shown

\* Which queries complete what.
LEMMA WhollyIs ==
    ASSUME NEW c, NEW img, Wholly(img, c), driver \in Five
    PROVE  /\ HasTables(img, c) /\ HasIndexes(img, c) /\ HasKeys(img, c)
           /\ driver \in {"mysql", "postgres", "sqlite"} => HasViews(img, c, FALSE) /\ HasTriggers(img, c)
           /\ driver = "postgres" => HasViews(img, c, TRUE) /\ HasSequences(img, c)
           /\ driver \in {"mysql", "postgres"} => HasRoutines(img, c)
<1>1. \A i \in DOMAIN Queries : Has(Queries[i], img, c)
  BY DEF Wholly, Range
<1>2. /\ Has("columns", img, c) => HasTables(img, c)
      /\ Has("indexes", img, c) => HasIndexes(img, c)
      /\ Has("fks", img, c) => HasKeys(img, c)
      /\ Has("views", img, c) => HasViews(img, c, FALSE)
      /\ Has("matviews", img, c) => HasViews(img, c, TRUE)
      /\ Has("routines", img, c) => HasRoutines(img, c)
      /\ Has("triggers", img, c) => HasTriggers(img, c)
      /\ Has("sequences", img, c) => HasSequences(img, c)
  BY DEF Has
<1>3. CASE driver = "mysql"
  <2>1. 1 .. 7 = DOMAIN Queries /\ Queries[1] = "columns" /\ Queries[2] = "indexes" /\ Queries[3] = "fks"
        /\ Queries[4] = "views" /\ Queries[5] = "routines" /\ Queries[7] = "triggers"
    BY <1>3, QueriesAre
  <2>2. /\ Has("columns", img, c) /\ Has("indexes", img, c) /\ Has("fks", img, c)
        /\ Has("views", img, c) /\ Has("routines", img, c) /\ Has("triggers", img, c)
    BY <1>1, <2>1
  <2>3. QED
    BY <1>2, <1>3, <2>2
<1>4. CASE driver = "postgres"
  <2>1. /\ 1 .. 8 = DOMAIN Queries /\ Queries[1] = "columns" /\ Queries[2] = "indexes" /\ Queries[3] = "fks"
        /\ Queries[4] = "views" /\ Queries[5] = "matviews" /\ Queries[6] = "routines"
        /\ Queries[7] = "triggers" /\ Queries[8] = "sequences"
    BY <1>4, QueriesAre
  <2>2. /\ Has("columns", img, c) /\ Has("indexes", img, c) /\ Has("fks", img, c)
        /\ Has("views", img, c) /\ Has("matviews", img, c) /\ Has("routines", img, c)
        /\ Has("triggers", img, c) /\ Has("sequences", img, c)
    BY <1>1, <2>1
  <2>3. QED
    BY <1>2, <1>4, <2>2
<1>5. CASE driver = "sqlite"
  <2>1. /\ 1 .. 6 = DOMAIN Queries /\ Queries[2] = "columns" /\ Queries[3] = "indexes"
        /\ Queries[4] = "fks" /\ Queries[5] = "views" /\ Queries[6] = "triggers"
    BY <1>5, QueriesAre
  <2>2. /\ Has("columns", img, c) /\ Has("indexes", img, c) /\ Has("fks", img, c)
        /\ Has("views", img, c) /\ Has("triggers", img, c)
    BY <1>1, <2>1
  <2>3. QED
    BY <1>2, <1>5, <2>2
<1>6. CASE driver \in {"mssql", "oracle"}
  <2>1. 1 .. 3 = DOMAIN Queries /\ Queries[1] = "columns" /\ Queries[2] = "indexes" /\ Queries[3] = "fks"
    BY <1>6, QueriesAre
  <2>2. Has("columns", img, c) /\ Has("indexes", img, c) /\ Has("fks", img, c)
    BY <1>1, <2>1
  <2>3. QED
    BY <1>2, <1>6, <2>2
<1>7. QED
  BY <1>3, <1>4, <1>5, <1>6 DEF Five

\* What is known of the tables is shown by a whole image,
LEMMA KnownOfTablesIsShown ==
    ASSUME NEW c, NEW img, Truly(img, c), Wholly(img, c), driver \in Five,
           WellFormed(driver, c), Unambiguous(c), NEW p \in PartsOfTables(c)
    PROVE  ShownOfTables(img.tables, KnownPart(c, p))
<1>1. PICK t \in Stays(IgnoreTables, Relations(c)) :
               \/ p = AsTuple(t)
               \/ \E i \in c.indexes : i.table = t.name /\ IndexListed(c, i) /\ p = IndexPart(i)
               \/ \E f \in c.fks : f.table = t.name /\ KeyListed(c, f) /\ p = KeyPart(f)
  BY TablePartsAre
<1>2. t.name \in DOMAIN img.tables /\ t \in Relations(c)
  BY <1>1, WhollyIs DEF HasTables, Stays
<1> DEFINE x == img.tables[t.name]
<1>3. TableStood(t.name, x, {c})
  BY <1>2 DEF Truly, TablesStood
<1>4. /\ TablePart(t.name, x) \in Parts(c)
      /\ \A i \in DOMAIN x.indexes : IndexImage(t.name, i, x.indexes[i]) \in Parts(c)
      /\ \A k \in DOMAIN x.fks : KeyPlace(t.name, k, x.fks[k]) \in Parts(c)
  BY <1>3, HeldAlone DEF TableStood
<1> HIDE DEF x
<1>5. CASE p = AsTuple(t)
  <2>1. TablePart(t.name, x)[1] = "table" /\ TablePart(t.name, x)[2] = t.name
    BY DEF TablePart
  <2>2. PICK u \in Stays(IgnoreTables, Relations(c)) : TablePart(t.name, x) = AsTuple(u)
    BY <1>4, <2>1, Heads
  <2>3. AsTuple(u)[2] = u.name /\ u \in Relations(c)
    BY DEF AsTuple, Stays
  <2>4. u = t
    BY <1>2, <2>1, <2>2, <2>3, OneOfAName DEF Distinguished
  <2>5. KnownPart(c, p) = KnownTable(t.name, x)
    BY <1>5, <2>2, <2>4, KnownOfImage
  <2>6. QED
    BY <1>2, <2>5 DEF ShownOfTables, x
<1>6. ASSUME NEW i \in c.indexes, i.table = t.name, IndexListed(c, i), p = IndexPart(i)
      PROVE  ShownOfTables(img.tables, KnownPart(c, p))
  <2>1. i.name \in DOMAIN x.indexes
    BY <1>2, <1>6, WhollyIs DEF HasIndexes, Secondaries, Secondary, Found, IndexListed, x
  <2> DEFINE o == IndexImage(t.name, i.name, x.indexes[i.name])
  <2>2. o[1] = "index" /\ o[2] = t.name /\ o[3] = i.name /\ o \in Parts(c)
    BY <1>4, <2>1 DEF IndexImage
  <2>3. PICK j \in c.indexes : o = IndexPart(j)
    BY <2>2, Heads
  <2>4. IndexPart(j)[2] = j.table /\ IndexPart(j)[3] = j.name
    BY DEF IndexPart
  <2>5. i = j
    BY <1>6, <2>2, <2>3, <2>4, OneOfAName
  <2>6. KnownPart(c, p) = o
    BY <1>6, <2>3, <2>5, KnownOfImage
  <2>7. QED
    BY <1>2, <2>1, <2>6 DEF ShownOfTables, x
<1>7. ASSUME NEW f \in c.fks, f.table = t.name, KeyListed(c, f), p = KeyPart(f)
      PROVE  ShownOfTables(img.tables, KnownPart(c, p))
  <2>1. f.name \in DOMAIN x.fks
    BY <1>2, <1>7, WhollyIs DEF HasKeys, KeysOf, KeysListed, x
  <2> DEFINE o == KeyPlace(t.name, f.name, x.fks[f.name])
  <2>2. o[1] = "fk" /\ o[2] = t.name /\ o[3] = f.name /\ o \in Parts(c)
    BY <1>4, <2>1 DEF KeyPlace
  <2>3. PICK g \in c.fks : o = KeyPart(g)
    BY <2>2, Heads
  <2>4. KeyPart(g)[2] = g.table /\ KeyPart(g)[3] = g.name
    BY DEF KeyPart
  <2>5. f = g
    BY <1>7, <2>2, <2>3, <2>4, OneOfAName
  <2>6. KnownPart(c, p) = KnownKey(t.name, f.name, x.fks[f.name])
    BY <1>7, <2>3, <2>5, KnownOfImage
  <2>7. QED
    BY <1>2, <2>1, <2>6 DEF ShownOfTables, x
<1>8. QED
  BY <1>1, <1>5, <1>6, <1>7

\* and what is known of the rest.
LEMMA KnownOfOthersIsShown ==
    ASSUME NEW c, NEW img, Truly(img, c), Wholly(img, c), driver \in Five,
           WellFormed(driver, c), Unambiguous(c), NEW p \in PartsOutsideTables(c)
    PROVE  Shown(img, KnownPart(c, p))
<1>1. ASSUME driver \in {"mysql", "postgres", "sqlite"},
             NEW v \in Stays(IgnoreViews, c.views), p = <<"view", v.name, OwnText(c, v), v.mat>>
      PROVE  Shown(img, KnownPart(c, p))
  <2> DEFINE k == ViewKey(c, v)
             o == ViewPart(k, img.views[k])
  <2>1. v \in c.views /\ v.mat \in BOOLEAN /\ (v.mat => driver \notin {"mysql", "sqlite"})
    BY WellFormedSays DEF Stays
  <2>2. k \in DOMAIN img.views
    BY <1>1, <2>1, WhollyIs DEF HasViews
  <2>3. ViewName(k) = v.name /\ (driver = "postgres" => k[1] = c.schema)
    BY DEF ViewName, ViewKey
  <2>4. o \in Parts(c)
    BY <2>2 DEF Truly, ViewsStood
  <2>5. o[1] = "view" /\ o[2] = v.name
    BY <2>3 DEF ViewPart
  <2>6. PICK w \in Stays(IgnoreViews, c.views) : o = <<"view", w.name, OwnText(c, w), w.mat>>
    BY <2>4, <2>5, Heads
  <2>7. w = v
    BY <2>1, <2>5, <2>6, WellFormedSays DEF Stays, Distinguished
  <2>8. o = p
    BY <1>1, <2>6, <2>7
  <2>9. KnownPart(c, p) = KnownView(k, img.views[k])
    BY <2>3, <2>8, KnownOfImage
  <2>10. QED
    BY <2>2, <2>9 DEF Shown
<1>2. ASSUME driver \in {"mysql", "postgres", "sqlite"},
             NEW t \in Stays(IgnoreTriggers, c.triggers), p = <<"trigger", t.name, TriggerText(t), t.table>>
      PROVE  Shown(img, KnownPart(c, p))
  <2> DEFINE o == TriggerPart(t.name, img.triggers[t.name])
  <2>1. t.name \in DOMAIN img.triggers
    BY <1>2, WhollyIs DEF HasTriggers
  <2>2. o \in Parts(c) /\ o[1] = "trigger" /\ o[2] = t.name
    BY <2>1 DEF Truly, TriggersStood, TriggerPart
  <2>3. PICK u \in Stays(IgnoreTriggers, c.triggers) : o = <<"trigger", u.name, TriggerText(u), u.table>>
    BY <2>2, Heads
  <2>4. u = t
    BY <2>2, <2>3, OneOfAName DEF Stays, Distinguished
  <2>5. o = p
    BY <1>2, <2>3, <2>4
  <2>6. KnownPart(c, p) = KnownTrigger(t.name, img.triggers[t.name])
    BY <2>5, KnownOfImage
  <2>7. QED
    BY <2>1, <2>6 DEF Shown
<1>3. ASSUME driver \in {"mysql", "postgres"},
             NEW r \in Stays(IgnoreRoutines, c.routines), p = RoutineOf(r)
      PROVE  Shown(img, KnownPart(c, p))
  <2> DEFINE o == RoutinePart(r.name, img.routines[r.name])
  <2>1. r.name \in DOMAIN img.routines
    BY <1>3, WhollyIs DEF HasRoutines
  <2>2. o \in Parts(c) /\ o[1] = "routine" /\ o[2] = r.name
    BY <2>1, HeldAlone DEF Truly, RoutinesStood, RoutinePart
  <2>3. PICK u \in Stays(IgnoreRoutines, c.routines) : o = RoutineOf(u)
    BY <2>2, Heads
  <2>a. RoutineOf(u)[2] = u.name
    BY DEF RoutineOf
  <2>4. u = r
    BY <2>2, <2>3, <2>a, OneOfAName DEF Stays, Distinguished
  <2>5. o = p
    BY <1>3, <2>3, <2>4
  <2>6. KnownPart(c, p) = KnownRoutine(r.name, img.routines[r.name])
    BY <2>5, KnownOfImage
  <2>7. QED
    BY <2>1, <2>6 DEF Shown
<1>4. ASSUME driver = "postgres",
             NEW s \in Stays(IgnoreSequences, c.sequences), p = <<"sequence", s.name, s.def>>
      PROVE  Shown(img, KnownPart(c, p))
  <2> DEFINE o == SequencePart(s.name, img.sequences[s.name])
  <2>1. s.name \in DOMAIN img.sequences
    BY <1>4, WhollyIs DEF HasSequences
  <2>2. o \in Parts(c) /\ o[1] = "sequence" /\ o[2] = s.name
    BY <2>1 DEF Truly, SequencesStood, SequencePart
  <2>3. PICK u \in Stays(IgnoreSequences, c.sequences) : o = <<"sequence", u.name, u.def>>
    BY <2>2, Heads
  <2>4. u = s
    BY <2>2, <2>3, OneOfAName DEF Stays, Distinguished
  <2>5. o = p
    BY <1>4, <2>3, <2>4
  <2>6. KnownPart(c, p) = o
    BY <2>5, KnownOfImage
  <2>7. QED
    BY <2>1, <2>6 DEF Shown
<1>5. QED
  BY <1>1, <1>2, <1>3, <1>4, OtherPartsAre

\* An image that is true and whole shows what is known of its catalog.
LEMMA ExactImage ==
    ASSUME NEW c, NEW img, Truly(img, c), Wholly(img, c), driver \in Five,
           WellFormed(driver, c), Unambiguous(c)
    PROVE  \A p : p \in Known(c) <=> Shown(img, p)
<1>1. \A p : Shown(img, p) => p \in Known(c)
  BY ShownIsKnown
<1>2. ASSUME NEW p \in Parts(c) PROVE Shown(img, KnownPart(c, p))
  <2>1. CASE p \in PartsOfTables(c)
    BY <2>1, KnownOfTablesIsShown DEF Shown
  <2>2. CASE p \in PartsOutsideTables(c)
    BY <2>2, KnownOfOthersIsShown
  <2>3. QED
    BY <2>1, <2>2 DEF Parts
<1>3. QED
  BY <1>1, <1>2, KnownIs

----------------------------------------------------------------------------
(* The comparison finds no drift exactly in images that show the same. *)

\* The tables of one map, and all they have, are those of another.
TablesWithin(x, y) ==
    \A t \in DOMAIN x :
        /\ t \in DOMAIN y /\ x[t].key = y[t].key
        /\ KnownColumns(x[t].cols) = KnownColumns(y[t].cols)
        /\ \A n \in DOMAIN x[t].indexes :
               /\ n \in DOMAIN y[t].indexes
               /\ x[t].indexes[n].cols = y[t].indexes[n].cols
               /\ x[t].indexes[n].unique = y[t].indexes[n].unique
        /\ \A n \in DOMAIN x[t].fks :
               /\ n \in DOMAIN y[t].fks
               /\ x[t].fks[n].cols = y[t].fks[n].cols
               /\ x[t].fks[n].refTable = y[t].fks[n].refTable
               /\ x[t].fks[n].refCols = y[t].fks[n].refCols
               /\ Normal("rules", x[t].fks[n].rules) = Normal("rules", y[t].fks[n].rules)

\* DiffColumns finds nothing exactly in maps that are alike.
LEMMA ColumnsAlike ==
    ASSUME NEW x, NEW y
    PROVE  ~ DiffColumns(x, y) <=> KnownColumns(x) = KnownColumns(y)
<1>1. ~ DiffColumns(x, y) <=>
          DOMAIN x = DOMAIN y /\ \A n \in DOMAIN x : Normal("column", x[n]) = Normal("column", y[n])
  BY DEF DiffColumns, Differ
<1>2. /\ DOMAIN KnownColumns(x) = DOMAIN x /\ DOMAIN KnownColumns(y) = DOMAIN y
      /\ \A n \in DOMAIN x : KnownColumns(x)[n] = Normal("column", x[n])
      /\ \A n \in DOMAIN y : KnownColumns(y)[n] = Normal("column", y[n])
  BY DEF KnownColumns
<1>3. DOMAIN x = DOMAIN y /\ (\A n \in DOMAIN x : Normal("column", x[n]) = Normal("column", y[n]))
          => KnownColumns(x) = KnownColumns(y)
  BY DEF KnownColumns
<1>4. QED
  BY <1>1, <1>2, <1>3

\* DiffIndexes finds nothing exactly in the same indexes.
LEMMA IndexesAlike ==
    ASSUME NEW x, NEW y
    PROVE  ~ DiffIndexes(x, y) <=>
               /\ DOMAIN x = DOMAIN y
               /\ \A n \in DOMAIN x : x[n].cols = y[n].cols /\ x[n].unique = y[n].unique
BY DEF DiffIndexes, Differ

\* DiffForeignKeys finds nothing exactly in the same keys.
LEMMA KeysAlike ==
    ASSUME NEW x, NEW y
    PROVE  ~ DiffForeignKeys(x, y) <=>
               /\ DOMAIN x = DOMAIN y
               /\ \A n \in DOMAIN x : /\ x[n].cols = y[n].cols /\ x[n].refTable = y[n].refTable
                                      /\ x[n].refCols = y[n].refCols
                                      /\ Normal("rules", x[n].rules) = Normal("rules", y[n].rules)
BY DEF DiffForeignKeys, Differ

\* DiffTables finds nothing exactly in tables that are within each other.
LEMMA TablesAlike ==
    ASSUME NEW x, NEW y
    PROVE  ~ DiffTables(x, y) <=> TablesWithin(x, y) /\ TablesWithin(y, x)
<1>1. ~ DiffTables(x, y) <=>
        /\ DOMAIN x = DOMAIN y
        /\ \A t \in DOMAIN x :
               /\ ~ DiffColumns(x[t].cols, y[t].cols)
               /\ ~ DiffIndexes(x[t].indexes, y[t].indexes)
               /\ ~ DiffForeignKeys(x[t].fks, y[t].fks)
               /\ x[t].key = y[t].key
  BY DEF DiffTables, Differ, DiffPrimaryKey
<1>2. ASSUME ~ DiffTables(x, y) PROVE TablesWithin(x, y) /\ TablesWithin(y, x)
  <2>1. DOMAIN x = DOMAIN y
    BY <1>1, <1>2
  <2>2. ASSUME NEW t \in DOMAIN x
        PROVE  /\ KnownColumns(x[t].cols) = KnownColumns(y[t].cols) /\ x[t].key = y[t].key
               /\ DOMAIN x[t].indexes = DOMAIN y[t].indexes
               /\ \A n \in DOMAIN x[t].indexes :
                      /\ x[t].indexes[n].cols = y[t].indexes[n].cols
                      /\ x[t].indexes[n].unique = y[t].indexes[n].unique
               /\ DOMAIN x[t].fks = DOMAIN y[t].fks
               /\ \A n \in DOMAIN x[t].fks :
                      /\ x[t].fks[n].cols = y[t].fks[n].cols
                      /\ x[t].fks[n].refTable = y[t].fks[n].refTable
                      /\ x[t].fks[n].refCols = y[t].fks[n].refCols
                      /\ Normal("rules", x[t].fks[n].rules) = Normal("rules", y[t].fks[n].rules)
    <3>1. /\ ~ DiffColumns(x[t].cols, y[t].cols)
          /\ ~ DiffIndexes(x[t].indexes, y[t].indexes)
          /\ ~ DiffForeignKeys(x[t].fks, y[t].fks)
          /\ x[t].key = y[t].key
      BY <1>1, <1>2
    <3>2. KnownColumns(x[t].cols) = KnownColumns(y[t].cols)
      BY <3>1, ColumnsAlike
    <3>3. QED
      BY <3>1, <3>2, IndexesAlike, KeysAlike
  <2>3. QED
    BY <2>1, <2>2 DEF TablesWithin
<1>3. ASSUME TablesWithin(x, y), TablesWithin(y, x) PROVE ~ DiffTables(x, y)
  <2>1. DOMAIN x = DOMAIN y
    BY <1>3 DEF TablesWithin
  <2>2. ASSUME NEW t \in DOMAIN x
        PROVE  /\ ~ DiffColumns(x[t].cols, y[t].cols)
               /\ ~ DiffIndexes(x[t].indexes, y[t].indexes)
               /\ ~ DiffForeignKeys(x[t].fks, y[t].fks)
               /\ x[t].key = y[t].key
    <3>1. KnownColumns(x[t].cols) = KnownColumns(y[t].cols) /\ x[t].key = y[t].key
      BY <1>3 DEF TablesWithin
    <3>2. ~ DiffColumns(x[t].cols, y[t].cols)
      BY <3>1, ColumnsAlike
    <3>3. ~ DiffIndexes(x[t].indexes, y[t].indexes)
      <4>1. \A n \in DOMAIN x[t].indexes :
                n \in DOMAIN y[t].indexes /\ x[t].indexes[n].cols = y[t].indexes[n].cols
                /\ x[t].indexes[n].unique = y[t].indexes[n].unique
        BY <1>3 DEF TablesWithin
      <4>2. \A n \in DOMAIN y[t].indexes : n \in DOMAIN x[t].indexes
        BY <1>3, <2>1 DEF TablesWithin
      <4>3. QED
        BY <4>1, <4>2, IndexesAlike
    <3>4. ~ DiffForeignKeys(x[t].fks, y[t].fks)
      <4>1. \A n \in DOMAIN x[t].fks :
                /\ x[t].fks[n].cols = y[t].fks[n].cols
                /\ x[t].fks[n].refTable = y[t].fks[n].refTable
                /\ x[t].fks[n].refCols = y[t].fks[n].refCols
                /\ Normal("rules", x[t].fks[n].rules) = Normal("rules", y[t].fks[n].rules)
        BY <1>3 DEF TablesWithin
      <4>2. \A n \in DOMAIN x[t].fks : n \in DOMAIN y[t].fks
        BY <1>3 DEF TablesWithin
      <4>3. \A n \in DOMAIN y[t].fks : n \in DOMAIN x[t].fks
        BY <1>3, <2>1 DEF TablesWithin
      <4>4. DOMAIN x[t].fks = DOMAIN y[t].fks
        BY <4>2, <4>3
      <4>5. QED
        BY <4>1, <4>4, KeysAlike
    <3>5. QED
      BY <3>1, <3>2, <3>3, <3>4
  <2>3. QED
    BY <1>1, <2>1, <2>2
<1>4. QED
  BY <1>2, <1>3

\* Tables are within others exactly if those show all that they show.
LEMMA TablesShown ==
    ASSUME NEW x, NEW y
    PROVE  TablesWithin(x, y) <=> \A p : ShownOfTables(x, p) => ShownOfTables(y, p)
<1>1. ASSUME TablesWithin(x, y), NEW p, ShownOfTables(x, p) PROVE ShownOfTables(y, p)
  <2>1. PICK t \in DOMAIN x :
        \/ p = KnownTable(t, x[t])
        \/ \E n \in DOMAIN x[t].indexes : p = IndexImage(t, n, x[t].indexes[n])
        \/ \E n \in DOMAIN x[t].fks : p = KnownKey(t, n, x[t].fks[n])
    BY <1>1 DEF ShownOfTables
  <2>2. t \in DOMAIN y /\ KnownTable(t, x[t]) = KnownTable(t, y[t])
    BY <1>1 DEF TablesWithin, KnownTable
  <2>3. \A n \in DOMAIN x[t].indexes :
            n \in DOMAIN y[t].indexes /\ IndexImage(t, n, x[t].indexes[n]) = IndexImage(t, n, y[t].indexes[n])
    BY <1>1 DEF TablesWithin, IndexImage
  <2>4. \A n \in DOMAIN x[t].fks :
            n \in DOMAIN y[t].fks /\ KnownKey(t, n, x[t].fks[n]) = KnownKey(t, n, y[t].fks[n])
    BY <1>1 DEF TablesWithin, KnownKey
  <2>5. QED
    BY <2>1, <2>2, <2>3, <2>4 DEF ShownOfTables
<1>2. ASSUME \A p : ShownOfTables(x, p) => ShownOfTables(y, p) PROVE TablesWithin(x, y)
  <2>1. ASSUME NEW p, ShownOfTables(y, p)
        PROVE  \E t \in DOMAIN y :
                   \/ p[1] = "table" /\ p = KnownTable(t, y[t])
                   \/ p[1] = "index" /\ \E n \in DOMAIN y[t].indexes : p = IndexImage(t, n, y[t].indexes[n])
                   \/ p[1] = "fk" /\ \E n \in DOMAIN y[t].fks : p = KnownKey(t, n, y[t].fks[n])
    <3>1. PICK t \in DOMAIN y :
            \/ p = KnownTable(t, y[t])
            \/ \E n \in DOMAIN y[t].indexes : p = IndexImage(t, n, y[t].indexes[n])
            \/ \E n \in DOMAIN y[t].fks : p = KnownKey(t, n, y[t].fks[n])
      BY <2>1 DEF ShownOfTables
    <3>2. KnownTable(t, y[t])[1] = "table"
      BY DEF KnownTable
    <3>3. \A n : IndexImage(t, n, y[t].indexes[n])[1] = "index" /\ KnownKey(t, n, y[t].fks[n])[1] = "fk"
      BY DEF IndexImage, KnownKey
    <3>4. QED
      BY <3>1, <3>2, <3>3
  <2>2. ASSUME NEW t \in DOMAIN x
        PROVE  t \in DOMAIN y /\ KnownColumns(x[t].cols) = KnownColumns(y[t].cols) /\ x[t].key = y[t].key
    <3> DEFINE p == KnownTable(t, x[t])
    <3>1. ShownOfTables(x, p)
      BY DEF ShownOfTables
    <3>2. p[1] = "table" /\ p[2] = t /\ p[3] = KnownColumns(x[t].cols) /\ p[4] = x[t].key
      BY DEF KnownTable
    <3>3. PICK u \in DOMAIN y : p = KnownTable(u, y[u])
      BY <1>2, <2>1, <3>1, <3>2
    <3>4. KnownTable(u, y[u])[2] = u /\ KnownTable(u, y[u])[3] = KnownColumns(y[u].cols) /\ KnownTable(u, y[u])[4] = y[u].key
      BY DEF KnownTable
    <3>5. QED
      BY <3>2, <3>3, <3>4
  <2>3. ASSUME NEW t \in DOMAIN x, NEW n \in DOMAIN x[t].indexes
        PROVE  /\ n \in DOMAIN y[t].indexes
               /\ x[t].indexes[n].cols = y[t].indexes[n].cols
               /\ x[t].indexes[n].unique = y[t].indexes[n].unique
    <3> DEFINE p == IndexImage(t, n, x[t].indexes[n])
    <3>1. ShownOfTables(x, p)
      BY DEF ShownOfTables
    <3>2. p[1] = "index" /\ p[2] = t /\ p[3] = n /\ p[4] = x[t].indexes[n].cols /\ p[5] = x[t].indexes[n].unique
      BY DEF IndexImage
    <3>3. PICK u \in DOMAIN y, m \in UNION {DOMAIN y[v].indexes : v \in DOMAIN y} :
              m \in DOMAIN y[u].indexes /\ p = IndexImage(u, m, y[u].indexes[m])
      BY <1>2, <2>1, <3>1, <3>2
    <3>4. /\ IndexImage(u, m, y[u].indexes[m])[2] = u /\ IndexImage(u, m, y[u].indexes[m])[3] = m
          /\ IndexImage(u, m, y[u].indexes[m])[4] = y[u].indexes[m].cols
          /\ IndexImage(u, m, y[u].indexes[m])[5] = y[u].indexes[m].unique
      BY DEF IndexImage
    <3>5. QED
      BY <3>2, <3>3, <3>4
  <2>4. ASSUME NEW t \in DOMAIN x, NEW n \in DOMAIN x[t].fks
        PROVE  /\ n \in DOMAIN y[t].fks
               /\ x[t].fks[n].cols = y[t].fks[n].cols
               /\ x[t].fks[n].refTable = y[t].fks[n].refTable
               /\ x[t].fks[n].refCols = y[t].fks[n].refCols
               /\ Normal("rules", x[t].fks[n].rules) = Normal("rules", y[t].fks[n].rules)
    <3> DEFINE p == KnownKey(t, n, x[t].fks[n])
    <3>1. ShownOfTables(x, p)
      BY DEF ShownOfTables
    <3>2. /\ p[1] = "fk" /\ p[2] = t /\ p[3] = n /\ p[4] = x[t].fks[n].cols /\ p[5] = x[t].fks[n].refTable
          /\ p[6] = x[t].fks[n].refCols /\ p[7] = Normal("rules", x[t].fks[n].rules)
      BY DEF KnownKey
    <3>3. PICK u \in DOMAIN y, m \in UNION {DOMAIN y[v].fks : v \in DOMAIN y} :
              m \in DOMAIN y[u].fks /\ p = KnownKey(u, m, y[u].fks[m])
      BY <1>2, <2>1, <3>1, <3>2
    <3>4. /\ KnownKey(u, m, y[u].fks[m])[2] = u /\ KnownKey(u, m, y[u].fks[m])[3] = m
          /\ KnownKey(u, m, y[u].fks[m])[4] = y[u].fks[m].cols
          /\ KnownKey(u, m, y[u].fks[m])[5] = y[u].fks[m].refTable
          /\ KnownKey(u, m, y[u].fks[m])[6] = y[u].fks[m].refCols
          /\ KnownKey(u, m, y[u].fks[m])[7] = Normal("rules", y[u].fks[m].rules)
      BY DEF KnownKey
    <3>5. QED
      BY <3>2, <3>3, <3>4
  <2>5. QED
    BY <2>2, <2>3, <2>4 DEF TablesWithin
<1>3. QED
  BY <1>1, <1>2

ViewsWithin(x, y) ==
    \A n \in DOMAIN x : /\ n \in DOMAIN y /\ x[n].mat = y[n].mat
                        /\ Normal("view", x[n].def) = Normal("view", y[n].def)

RoutinesWithin(x, y) ==
    \A n \in DOMAIN x : /\ n \in DOMAIN y
                        /\ Normal("kind", x[n].kind) = Normal("kind", y[n].kind)
                        /\ Normal("routine", x[n].def) = Normal("routine", y[n].def)
                        /\ Normal("params", x[n].params) = Normal("params", y[n].params)

TriggersWithin(x, y) ==
    \A n \in DOMAIN x : n \in DOMAIN y /\ Normal("trigger", x[n].def) = Normal("trigger", y[n].def)

SequencesWithin(x, y) == \A n \in DOMAIN x : n \in DOMAIN y /\ x[n].def = y[n].def

Within(a, b) ==
    /\ TablesWithin(a.tables, b.tables) /\ ViewsWithin(a.views, b.views)
    /\ RoutinesWithin(a.routines, b.routines) /\ TriggersWithin(a.triggers, b.triggers)
    /\ SequencesWithin(a.sequences, b.sequences)

\* The names that the loaders of PostgreSQL give to views.
Shaped(img) == driver = "postgres" => \A n \in DOMAIN img.views : n = <<n[1], n[2]>>

\* HasDrift is that an image is not within the other.
LEMMA NoDriftIsWithin ==
    ASSUME NEW a, NEW b
    PROVE  ~ HasDrift(a, b) <=> Within(a, b) /\ Within(b, a)
<1>1. ~ DiffTables(a.tables, b.tables) <=> TablesWithin(a.tables, b.tables) /\ TablesWithin(b.tables, a.tables)
  BY TablesAlike
<1>2. ~ DiffViews(a.views, b.views) <=> ViewsWithin(a.views, b.views) /\ ViewsWithin(b.views, a.views)
  BY DEF DiffViews, Differ, ViewsWithin
<1>3. ~ DiffRoutines(a.routines, b.routines)
        <=> RoutinesWithin(a.routines, b.routines) /\ RoutinesWithin(b.routines, a.routines)
  BY DEF DiffRoutines, Differ, RoutinesWithin
<1>4. \A x, y : ~ DiffTriggers(x, y) <=> TriggersWithin(x, y) /\ TriggersWithin(y, x)
  BY DEF DiffTriggers, Differ, TriggersWithin
<1>5. \A x, y : ~ DiffSequences(x, y) <=> SequencesWithin(x, y) /\ SequencesWithin(y, x)
  BY DEF DiffSequences, Differ, SequencesWithin
<1>6. QED
  BY <1>1, <1>2, <1>3, <1>4, <1>5 DEF HasDrift, Within

\* An image that is within another shows no more,
LEMMA WithinShows ==
    ASSUME NEW a, NEW b, Within(a, b), NEW p, Shown(a, p)
    PROVE  Shown(b, p)
<1>1. CASE ShownOfTables(a.tables, p)
  BY <1>1, TablesShown DEF Within, Shown
<1>2. ASSUME NEW n \in DOMAIN a.views, p = KnownView(n, a.views[n]) PROVE Shown(b, p)
  <2>1. n \in DOMAIN b.views /\ KnownView(n, a.views[n]) = KnownView(n, b.views[n])
    BY DEF Within, ViewsWithin, KnownView
  <2>2. QED
    BY <1>2, <2>1 DEF Shown
<1>3. ASSUME NEW n \in DOMAIN a.routines, p = KnownRoutine(n, a.routines[n]) PROVE Shown(b, p)
  <2>1. n \in DOMAIN b.routines /\ KnownRoutine(n, a.routines[n]) = KnownRoutine(n, b.routines[n])
    BY DEF Within, RoutinesWithin, KnownRoutine
  <2>2. QED
    BY <1>3, <2>1 DEF Shown
<1>4. ASSUME NEW n \in DOMAIN a.triggers, p = KnownTrigger(n, a.triggers[n]) PROVE Shown(b, p)
  <2>1. n \in DOMAIN b.triggers /\ KnownTrigger(n, a.triggers[n]) = KnownTrigger(n, b.triggers[n])
    BY DEF Within, TriggersWithin, KnownTrigger
  <2>2. QED
    BY <1>4, <2>1 DEF Shown
<1>5. ASSUME NEW n \in DOMAIN a.sequences, p = SequencePart(n, a.sequences[n]) PROVE Shown(b, p)
  <2>1. n \in DOMAIN b.sequences /\ SequencePart(n, a.sequences[n]) = SequencePart(n, b.sequences[n])
    BY DEF Within, SequencesWithin, SequencePart
  <2>2. QED
    BY <1>5, <2>1 DEF Shown
<1>6. QED
  BY <1>1, <1>2, <1>3, <1>4, <1>5 DEF Shown

\* What is shown of an image, by its first word.
LEMMA ShownHeads ==
    ASSUME NEW img, NEW p, Shown(img, p)
    PROVE  \/ p[1] \in {"table", "index", "fk"} /\ ShownOfTables(img.tables, p)
           \/ p[1] = "view" /\ \E n \in DOMAIN img.views : p = KnownView(n, img.views[n])
           \/ p[1] = "routine" /\ \E n \in DOMAIN img.routines : p = KnownRoutine(n, img.routines[n])
           \/ p[1] = "trigger" /\ \E n \in DOMAIN img.triggers : p = KnownTrigger(n, img.triggers[n])
           \/ p[1] = "sequence" /\ \E n \in DOMAIN img.sequences : p = SequencePart(n, img.sequences[n])
<1>1. ShownOfTables(img.tables, p) => p[1] \in {"table", "index", "fk"}
  <2>1. \A t, n, x : KnownTable(n, x)[1] = "table" /\ IndexImage(t, n, x)[1] = "index" /\ KnownKey(t, n, x)[1] = "fk"
    BY DEF KnownTable, IndexImage, KnownKey
  <2>2. QED
    BY <2>1 DEF ShownOfTables
<1>2. \A n, x : /\ KnownView(n, x)[1] = "view" /\ KnownRoutine(n, x)[1] = "routine"
                /\ KnownTrigger(n, x)[1] = "trigger" /\ SequencePart(n, x)[1] = "sequence"
  BY DEF KnownView, KnownRoutine, KnownTrigger, SequencePart
<1>3. QED
  BY <1>1, <1>2 DEF Shown

\* and one that shows no more is within it.
LEMMA ShowsWithin ==
    ASSUME NEW a, NEW b, Shaped(a), Shaped(b), \A p : Shown(a, p) => Shown(b, p)
    PROVE  Within(a, b)
<1>1. TablesWithin(a.tables, b.tables)
  <2>1. ASSUME NEW p, ShownOfTables(a.tables, p) PROVE ShownOfTables(b.tables, p)
    <3>1. Shown(a, p) /\ Shown(b, p)
      BY <2>1 DEF Shown
    <3>2. p[1] \in {"table", "index", "fk"}
      <4>1. \A t, n, x : KnownTable(n, x)[1] = "table" /\ IndexImage(t, n, x)[1] = "index" /\ KnownKey(t, n, x)[1] = "fk"
        BY DEF KnownTable, IndexImage, KnownKey
      <4>2. QED
        BY <2>1, <4>1 DEF ShownOfTables
    <3>3. QED
      BY <3>1, <3>2, ShownHeads
  <2>2. QED
    BY <2>1, TablesShown
<1>2. ASSUME NEW n \in DOMAIN a.views
      PROVE  /\ n \in DOMAIN b.views /\ a.views[n].mat = b.views[n].mat
             /\ Normal("view", a.views[n].def) = Normal("view", b.views[n].def)
  <2> DEFINE p == KnownView(n, a.views[n])
  <2>1. Shown(b, p) /\ p[1] = "view"
    BY DEF Shown, KnownView
  <2>2. PICK m \in DOMAIN b.views : p = KnownView(m, b.views[m])
    BY <2>1, ShownHeads
  <2>3. /\ driver = "postgres" => n[1] = m[1]
        /\ ViewName(n) = ViewName(m) /\ a.views[n].mat = b.views[m].mat
        /\ Normal("view", a.views[n].def) = Normal("view", b.views[m].def)
    BY <2>2 DEF KnownView
  <2>4. n = m
    <3>1. CASE driver = "postgres"
      <4>1. n[1] = m[1] /\ n[2] = m[2]
        BY <2>3, <3>1 DEF ViewName
      <4>2. n = <<n[1], n[2]>> /\ m = <<m[1], m[2]>>
        BY <3>1 DEF Shaped
      <4>3. QED
        BY <4>1, <4>2
    <3>2. CASE driver # "postgres"
      BY <2>3, <3>2 DEF ViewName
    <3>3. QED
      BY <3>1, <3>2
  <2>5. QED
    BY <2>3, <2>4
<1>3. ASSUME NEW n \in DOMAIN a.routines
      PROVE  /\ n \in DOMAIN b.routines
             /\ Normal("kind", a.routines[n].kind) = Normal("kind", b.routines[n].kind)
             /\ Normal("routine", a.routines[n].def) = Normal("routine", b.routines[n].def)
             /\ Normal("params", a.routines[n].params) = Normal("params", b.routines[n].params)
  <2> DEFINE p == KnownRoutine(n, a.routines[n])
  <2>1. Shown(b, p) /\ p[1] = "routine"
    BY DEF Shown, KnownRoutine
  <2>2. PICK m \in DOMAIN b.routines : p = KnownRoutine(m, b.routines[m])
    BY <2>1, ShownHeads
  <2>3. n = m
    BY <2>2 DEF KnownRoutine
  <2>4. QED
    BY <2>2, <2>3 DEF KnownRoutine
<1>4. ASSUME NEW n \in DOMAIN a.triggers
      PROVE  /\ n \in DOMAIN b.triggers
             /\ Normal("trigger", a.triggers[n].def) = Normal("trigger", b.triggers[n].def)
  <2> DEFINE p == KnownTrigger(n, a.triggers[n])
  <2>1. Shown(b, p) /\ p[1] = "trigger"
    BY DEF Shown, KnownTrigger
  <2>2. PICK m \in DOMAIN b.triggers : p = KnownTrigger(m, b.triggers[m])
    BY <2>1, ShownHeads
  <2>3. n = m
    BY <2>2 DEF KnownTrigger
  <2>4. QED
    BY <2>2, <2>3 DEF KnownTrigger
<1>5. ASSUME NEW n \in DOMAIN a.sequences
      PROVE  n \in DOMAIN b.sequences /\ a.sequences[n].def = b.sequences[n].def
  <2> DEFINE p == SequencePart(n, a.sequences[n])
  <2>1. Shown(b, p) /\ p[1] = "sequence"
    BY DEF Shown, SequencePart
  <2>2. PICK m \in DOMAIN b.sequences : p = SequencePart(m, b.sequences[m])
    BY <2>1, ShownHeads
  <2>3. n = m /\ a.sequences[n].def = b.sequences[m].def
    BY <2>2 DEF SequencePart
  <2>4. QED
    BY <2>3
<1>6. QED
  BY <1>1, <1>2, <1>3, <1>4, <1>5 DEF Within, ViewsWithin, RoutinesWithin, TriggersWithin, SequencesWithin

\* The comparison finds no drift exactly in images that show the same.
LEMMA NoDriftIsShown ==
    ASSUME NEW a, NEW b, Shaped(a), Shaped(b)
    PROVE  ~ HasDrift(a, b) <=> \A p : Shown(a, p) <=> Shown(b, p)
<1>1. Within(a, b) <=> \A p : Shown(a, p) => Shown(b, p)
  BY WithinShows, ShowsWithin
<1>2. Within(b, a) <=> \A p : Shown(b, p) => Shown(a, p)
  BY WithinShows, ShowsWithin
<1>3. QED
  BY <1>1, <1>2, NoDriftIsWithin

\* A true image has the shapes of the loaders.
LEMMA TrulyShaped ==
    ASSUME NEW c, NEW img, Truly(img, c)
    PROVE  Shaped(img)
<1> SUFFICES ASSUME driver = "postgres", NEW n \in DOMAIN img.views PROVE n = <<n[1], n[2]>>
  BY DEF Shaped
<1>1. n = <<c.schema, n[2]>>
  BY DEF Truly, ViewsStood
<1>2. n[1] = c.schema
  BY <1>1
<1>3. QED
  BY <1>1, <1>2

\* The invariants are enough: the verdict is that of the catalogs.
LEMMA VerdictSuffices == TypeInv /\ StoodInv /\ WholeInv /\ VerdictInv => VerdictSound
<1> SUFFICES ASSUME TypeInv, StoodInv, WholeInv, VerdictInv, Compared,
                    NEW prod \in seen["prod"], NEW dev \in seen["dev"],
                    seen["prod"] = {prod}, seen["dev"] = {dev}, Unambiguous(prod), Unambiguous(dev)
             PROVE  result = "match" <=> Known(prod) = Known(dev)
  BY DEF VerdictSound
<1>1. result # "failed" /\ stage = "exit" /\ driver \in Five
  BY DiffAssumption DEF Compared, TypeInv, Five
<1>2. \A d \in Databases : ~ HalfLoaded(d) /\ \A q \in Range(Queries) : ~ Awaits(d, q)
  BY <1>1, SteadyIsNotLoading DEF HalfLoaded, Awaits, BeforeLoads, Steady
<1>3. ASSUME NEW d \in Databases, NEW c, seen[d] = {c}, Unambiguous(c)
      PROVE  /\ Shaped(image[d])
             /\ \A p : p \in Known(c) <=> Shown(image[d], p)
  <2>1. ImageStood(d)
    BY <1>1, <1>3 DEF StoodInv
  <2>2. Truly(image[d], c)
    BY <1>2, <1>3, <2>1 DEF ImageStood, Truly
  <2>3. c \in Worlds(driver, d) /\ driver \in Drivers
    BY <1>3 DEF TypeInv
  <2>4. WellFormed(driver, c)
    BY <2>3, CatalogAssumption
  <2>5. WholeImage(d, c)
    BY <1>1, <1>3, <2>3 DEF WholeInv
  <2>6. Wholly(image[d], c)
    BY <1>2, <2>5 DEF WholeImage, Wholly
  <2>7. QED
    BY <1>1, <1>3, <2>2, <2>4, <2>6, ExactImage, TrulyShaped
<1>4. /\ Shaped(image["prod"]) /\ \A p : p \in Known(prod) <=> Shown(image["prod"], p)
      /\ Shaped(image["dev"]) /\ \A p : p \in Known(dev) <=> Shown(image["dev"], p)
  BY <1>3 DEF Databases
<1>5. ~ HasDrift(image["prod"], image["dev"]) <=>
          \A p : Shown(image["prod"], p) <=> Shown(image["dev"], p)
  BY <1>4, NoDriftIsShown
<1>6. Known(prod) = Known(dev) <=> \A p : p \in Known(prod) <=> p \in Known(dev)
  OBVIOUS
<1>7. QED
  BY <1>4, <1>5, <1>6 DEF VerdictInv

\* When nobody changes the databases while they are read, schema-diff says
\* "match" exactly if they have the same objects, up to what the loaders cut of
\* a text and the comparison normalizes, whatever the databases' names, what is
\* ignored and in which order rows come.
THEOREM VerdictSoundHolds == DiffSpec => []VerdictSound
BY WholeInvariant, VerdictSuffices, PTL
=============================================================================
