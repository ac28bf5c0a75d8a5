------------------------ MODULE OperationOrderProofs ------------------------
(***************************************************************************)
(* Proofs about OperationOrder, for any schema differences: what comes     *)
(* without a warning comes after all it needs, with one comes what waits   *)
(* for a cycle, and then a cycle is reported, which is one.                *)
(***************************************************************************)
EXTENDS OperationOrder, TLAPS, FiniteSetTheorems, WellFoundedInduction

(***************************************************************************)
(* Lists.                                                                  *)
(***************************************************************************)

\* The order of the numbers, as a relation.
LEMMA LessIsWellFounded ==
    \E R : IsWellFoundedOn(R, Nat) /\ \A m, n \in Nat : m < n => <<m, n>> \in R
<1> WITNESS OpToRel(<, Nat)
<1>1. IsWellFoundedOn(OpToRel(<, Nat), Nat)
  BY NatLessThanWellFounded, Zenon
<1>2. ASSUME NEW m \in Nat, NEW n \in Nat, m < n
      PROVE <<m, n>> \in OpToRel(<, Nat)
  <2>1. <<m, n>> \in Nat \X Nat
    OBVIOUS
  <2> QED BY <1>2, <2>1, Zenon DEF OpToRel
<1> QED BY <1>1, <1>2, Zenon

\* A set of numbers has a least one.
LEMMA LeastExists ==
    ASSUME NEW S \in SUBSET Nat, S # {}
    PROVE  \E m \in S : \A n \in S : ~ (n < m)
<1>1. PICK R : IsWellFoundedOn(R, Nat) /\ \A m, n \in Nat : m < n => <<m, n>> \in R
  BY LessIsWellFounded
<1>2. IsWellFoundedOn(R, Nat) /\ S \subseteq Nat
  BY <1>1
<1>3. PICK m \in S : \A n \in S : ~ (<<n, m>> \in R)
  BY <1>2, WFMin, Zenon
<1>4. QED
  BY <1>1, <1>3

\* One step of FlattenSeq, up to the n-th list.
Flat(lists, n, f) ==
    [i \in 1 .. n |-> IF i = 1 THEN lists[i] ELSE f[i - 1] \o lists[i]]

\* The function that FlattenSeq defines exists.
LEMMA FlatExists ==
    ASSUME NEW lists, NEW n \in Nat
    PROVE  \E f : f = Flat(lists, n, f)
<1> DEFINE Bad == {m \in Nat : ~ \E f : f = Flat(lists, m, f)}
<1>1. SUFFICES ASSUME Bad # {} PROVE FALSE
  OBVIOUS
<1>2. Bad \in SUBSET Nat
  OBVIOUS
<1> HIDE DEF Bad
<1>3. PICK m \in Bad : \A k \in Bad : ~ (k < m)
  BY <1>1, <1>2, LeastExists
<1>4. m \in Nat /\ ~ \E f : f = Flat(lists, m, f)
  BY DEF Bad
<1>5. CASE m = 0
  <2>1. \A f : Flat(lists, 0, f) = << >>
    BY DEF Flat
  <2>2. << >> = Flat(lists, 0, << >>)
    BY <2>1
  <2>3. QED
    BY <1>4, <1>5, <2>2
<1>6. CASE m # 0
  <2>1. m - 1 \in Nat /\ m - 1 < m
    BY <1>4, <1>6
  <2>2. PICK f : f = Flat(lists, m - 1, f)
    BY <1>3, <2>1 DEF Bad
  <2> DEFINE h == [i \in 1 .. m |-> IF i = 1 THEN lists[i] ELSE f[i - 1] \o lists[i]]
  <2>3. \A i \in 1 .. m - 1 : h[i] = f[i]
    <3>1. \A i \in 1 .. m - 1 : f[i] = IF i = 1 THEN lists[i] ELSE f[i - 1] \o lists[i]
      BY <2>2 DEF Flat
    <3>2. 1 .. m - 1 \subseteq 1 .. m
      BY <1>4
    <3>3. QED
      BY <3>1, <3>2
  <2>4. \A i \in 1 .. m : i # 1 => i - 1 \in 1 .. m - 1
    BY <1>4
  <2>5. h = Flat(lists, m, h)
    BY <2>3, <2>4 DEF Flat
  <2>6. QED
    BY <1>4, <2>5
<1>7. QED
  BY <1>5, <1>6

\* Lists put together are a list of what they have.
LEMMA FlattenSeqType ==
    ASSUME NEW T, NEW n \in Nat, NEW lists, lists = [i \in 1 .. n |-> lists[i]],
           \A i \in 1 .. n : lists[i] \in Seq(T)
    PROVE  FlattenSeq(lists) \in Seq(T)
<1>1. Len(lists) = n
  OBVIOUS
<1>2. CASE n = 0
  BY <1>1, <1>2 DEF FlattenSeq
<1>3. CASE n # 0
  <2>1. \E f : f = Flat(lists, n, f)
    BY FlatExists
  <2> DEFINE flatten == CHOOSE f : f = Flat(lists, n, f)
  <2>2. flatten = Flat(lists, n, flatten)
    BY <2>1
  <2>3. FlattenSeq(lists) = flatten[n]
    BY <1>1, <1>3 DEF FlattenSeq, Flat
  <2> HIDE DEF flatten
  <2>4. \A i \in 1 .. n : flatten[i] = IF i = 1 THEN lists[i] ELSE flatten[i - 1] \o lists[i]
    BY <2>2 DEF Flat
  <2> DEFINE Bad == {i \in 1 .. n : flatten[i] \notin Seq(T)}
  <2>5. SUFFICES ASSUME Bad # {} PROVE FALSE
    BY <1>3, <2>3
  <2>6. Bad \in SUBSET Nat
    OBVIOUS
  <2> HIDE DEF Bad
  <2>7. PICK m \in Bad : \A k \in Bad : ~ (k < m)
    BY <2>5, <2>6, LeastExists
  <2>8. m \in 1 .. n /\ flatten[m] \notin Seq(T)
    BY DEF Bad
  <2>9. m # 1
    BY <2>4, <2>8
  <2>10. m - 1 \in 1 .. n /\ m - 1 < m
    BY <2>8, <2>9
  <2>11. flatten[m - 1] \in Seq(T)
    BY <2>7, <2>10 DEF Bad
  <2>12. flatten[m] = flatten[m - 1] \o lists[m] /\ lists[m] \in Seq(T)
    BY <2>4, <2>8, <2>9
  <2>13. \A a, b \in Seq(T) : a \o b \in Seq(T)
    OBVIOUS
  <2>14. QED
    BY <2>8, <2>11, <2>12, <2>13
<1>4. QED
  BY <1>2, <1>3

\* What one of some lists has, all of them put together have.
Has(s, x) == \E i \in DOMAIN s : s[i] = x

LEMMA HasIsIn == \A s, x : Has(s, x) <=> x \in ToSet(s)
BY DEF Has, ToSet

LEMMA HasPut ==
    ASSUME NEW T, NEW a \in Seq(T), NEW b \in Seq(T), NEW x
    PROVE  /\ a \o b \in Seq(T)
           /\ Has(a \o b, x) <=> Has(a, x) \/ Has(b, x)
<1>1. Len(a \o b) = Len(a) + Len(b) /\ a \o b \in Seq(T)
  OBVIOUS
<1>2. \A i \in 1 .. Len(a) : (a \o b)[i] = a[i] /\ i \in DOMAIN (a \o b)
  OBVIOUS
<1>3. \A i \in 1 .. Len(b) : (a \o b)[Len(a) + i] = b[i] /\ Len(a) + i \in DOMAIN (a \o b)
  OBVIOUS
<1>4. ASSUME NEW i \in DOMAIN (a \o b), (a \o b)[i] = x
      PROVE  Has(a, x) \/ Has(b, x)
  <2>1. CASE i <= Len(a)
    BY <1>2, <1>4, <2>1 DEF Has
  <2>2. CASE ~ (i <= Len(a))
    <3>1. i - Len(a) \in 1 .. Len(b)
      BY <1>1, <2>2
    <3>2. (a \o b)[Len(a) + (i - Len(a))] = b[i - Len(a)]
      BY <1>3, <3>1
    <3>3. QED
      BY <1>4, <3>1, <3>2 DEF Has
  <2>3. QED
    BY <2>1, <2>2
<1>5. Has(a, x) => Has(a \o b, x)
  BY <1>2 DEF Has
<1>6. ASSUME Has(b, x) PROVE Has(a \o b, x)
  <2>1. PICK i \in 1 .. Len(b) : b[i] = x
    BY <1>6 DEF Has
  <2>2. (a \o b)[Len(a) + i] = x /\ Len(a) + i \in DOMAIN (a \o b)
    BY <1>3, <2>1
  <2>3. QED
    BY <2>2 DEF Has
<1>7. QED
  BY <1>1, <1>4, <1>5, <1>6 DEF Has

LEMMA FlattenSeqHas ==
    ASSUME NEW T, NEW n \in Nat, NEW lists, lists = [i \in 1 .. n |-> lists[i]],
           \A i \in 1 .. n : lists[i] \in Seq(T),
           NEW k \in 1 .. n, NEW x, Has(lists[k], x)
    PROVE  Has(FlattenSeq(lists), x)
<1>1. Len(lists) = n /\ n # 0
  OBVIOUS
<1>2. \E f : f = Flat(lists, n, f)
  BY FlatExists
<1> DEFINE flatten == CHOOSE f : f = Flat(lists, n, f)
<1>3. flatten = Flat(lists, n, flatten)
  BY <1>2
<1>4. FlattenSeq(lists) = flatten[n]
  BY <1>1 DEF FlattenSeq, Flat
<1> HIDE DEF flatten
<1>5. \A i \in 1 .. n : flatten[i] = IF i = 1 THEN lists[i] ELSE flatten[i - 1] \o lists[i]
  BY <1>3 DEF Flat
<1> DEFINE Bad == {i \in 1 .. n : flatten[i] \notin Seq(T) \/ (k <= i /\ ~ Has(flatten[i], x))}
<1>6. SUFFICES ASSUME Bad # {} PROVE FALSE
  BY <1>1, <1>4
<1>7. Bad \in SUBSET Nat
  OBVIOUS
<1> HIDE DEF Bad
<1>8. PICK m \in Bad : \A i \in Bad : ~ (i < m)
  BY <1>6, <1>7, LeastExists
<1>9. m \in 1 .. n /\ (flatten[m] \notin Seq(T) \/ (k <= m /\ ~ Has(flatten[m], x)))
  BY DEF Bad
<1>10. CASE m = 1
  <2>1. flatten[1] = lists[1] /\ lists[1] \in Seq(T)
    BY <1>5, <1>9, <1>10
  <2>2. k <= m => k = 1
    BY <1>10
  <2>3. QED
    BY <1>9, <1>10, <2>1, <2>2
<1>11. CASE m # 1
  <2>1. m - 1 \in 1 .. n /\ m - 1 < m
    BY <1>9, <1>11
  <2>2. flatten[m - 1] \in Seq(T) /\ (k <= m - 1 => Has(flatten[m - 1], x))
    BY <1>8, <2>1 DEF Bad
  <2>3. flatten[m] = flatten[m - 1] \o lists[m] /\ lists[m] \in Seq(T)
    BY <1>5, <1>9, <1>11
  <2>4. \A a, b \in Seq(T) : a \o b \in Seq(T) /\ (Has(a, x) \/ Has(b, x) => Has(a \o b, x))
    BY HasPut
  <2>5. k <= m => k <= m - 1 \/ k = m
    BY <1>9
  <2>6. QED
    BY <1>9, <2>2, <2>3, <2>4, <2>5
<1>12. QED
  BY <1>10, <1>11

(***************************************************************************)
(* The operations.                                                         *)
(***************************************************************************)

\* What identifiers begin with.
IDWords == {"drop_fk", "drop_idx", "drop_col", "drop_table", "create_table",
             "add_col", "mod_col", "add_idx", "add_fk", "mod_pk"}

IDs == Seq(IDWords \cup Words)

\* An identifier begins with its prefix.
LEMMA IDType ==
    ASSUME NEW prefix \in IDWords, NEW t \in Name, NEW o \in Name
    PROVE  ID(prefix, t, o) \in IDs /\ ID(prefix, t, o)[1] = prefix
<1> DEFINE T == IDWords \cup Words
           one == <<prefix>>
<1>1. one \in Seq(T) /\ Len(one) >= 1 /\ one[1] = prefix /\ t \in Seq(T) /\ o \in Seq(T)
  BY DEF Name
<1> HIDE DEF T, one
<1>2. \A s, r \in Seq(T) :
          Len(s) >= 1 => s \o r \in Seq(T) /\ Len(s \o r) >= 1 /\ (s \o r)[1] = s[1]
  OBVIOUS
<1>3. (one \o t) \o o \in Seq(T) /\ ((one \o t) \o o)[1] = prefix
  BY <1>1, <1>2
<1>4. QED
  BY <1>3 DEF ID, IDs, T, one

\* Tables have identifiers of their own.
LEMMA TableIDIsUnique ==
    ASSUME NEW prefix \in IDWords, NEW t \in Name, NEW u \in Name,
           TableID(prefix, t) = TableID(prefix, u)
    PROVE  t = u
<1>1. ASSUME NEW s \in Name PROVE Tail(TableID(prefix, s)) = s
  <2>1. (<<prefix>> \o s) \o << >> = <<prefix>> \o s
    BY DEF Name
  <2>2. Tail(<<prefix>> \o s) = s
    BY DEF Name
  <2>3. QED
    BY <2>1, <2>2 DEF TableID, ID
<1>2. QED
  BY <1>1

\* A list of operations of one kind.
Segment(s, prefix) == s \in Seq(IDs) /\ \A i \in DOMAIN s : s[i][1] = prefix

LEMMA PartsType ==
    ASSUME NEW prefix \in IDWords, NEW objects,
           objects \in Seq(Named) \cup Seq(OnColumns) \cup Seq(Referring)
    PROVE  Segment(Parts(prefix, objects), prefix)
<1>1. \A i \in DOMAIN objects : objects[i].table \in Name /\ objects[i].name \in Name
  <2>1. \A i \in DOMAIN objects : objects[i] \in Named \cup OnColumns \cup Referring
    OBVIOUS
  <2>2. QED
    BY <2>1 DEF Named, OnColumns, Referring
<1>2. \A i \in DOMAIN objects :
          Part(prefix, objects[i]) \in IDs /\ Part(prefix, objects[i])[1] = prefix
  BY <1>1, IDType DEF Part
<1>3. DOMAIN objects = 1 .. Len(objects) /\ Len(objects) \in Nat
  OBVIOUS
<1>4. Parts(prefix, objects) = [i \in 1 .. Len(objects) |-> Part(prefix, objects[i])]
  BY <1>3 DEF Parts
<1>5. QED
  BY <1>2, <1>3, <1>4 DEF Segment

LEMMA PartsHave ==
    ASSUME NEW prefix, NEW objects, NEW o, Has(objects, o)
    PROVE  Has(Parts(prefix, objects), Part(prefix, o))
  BY DEF Has, Parts

LEMMA TablesType ==
    ASSUME NEW prefix \in IDWords, NEW tables \in Seq(Name)
    PROVE  Segment(Tables(prefix, tables), prefix)
<1>1. \A i \in DOMAIN tables : tables[i] \in Name
  OBVIOUS
<1>2. << >> \in Name
  BY DEF Name
<1>3. \A i \in DOMAIN tables :
          TableID(prefix, tables[i]) \in IDs /\ TableID(prefix, tables[i])[1] = prefix
  BY <1>1, <1>2, IDType DEF TableID
<1>4. Tables(prefix, tables) = [i \in 1 .. Len(tables) |-> TableID(prefix, tables[i])]
  BY DEF Tables
<1>5. QED
  BY <1>3, <1>4 DEF Segment

LEMMA TablesHave ==
    ASSUME NEW prefix, NEW tables
    PROVE  /\ \A t : Has(tables, t) => Has(Tables(prefix, tables), TableID(prefix, t))
           /\ \A id : Has(Tables(prefix, tables), id) =>
                  \E t : Has(tables, t) /\ id = TableID(prefix, t)
  BY DEF Has, Tables

\* The lists of a difference.
LEMMA DiffType ==
    ASSUME NEW d \in Diffs
    PROVE  /\ d.added \in Seq(Name) /\ d.removed \in Seq(Name)
           /\ d.modifiedPrimaryKeys \in Seq(Name)
           /\ d.removedColumns \in Seq(Named) /\ d.addedColumns \in Seq(Named)
           /\ d.modifiedColumns \in Seq(Named)
           /\ d.removedIndexes \in Seq(OnColumns) /\ d.addedIndexes \in Seq(OnColumns)
           /\ d.newIndexes \in Seq(OnColumns)
           /\ d.removedForeignKeys \in Seq(Referring) /\ d.addedForeignKeys \in Seq(Referring)
           /\ d.newForeignKeys \in Seq(Referring)
           /\ \A o : Has(d.newIndexes, o) \/ Has(d.newForeignKeys, o) => Has(d.added, o.table)
           /\ \A o : Has(d.addedIndexes, o) \/ Has(d.addedForeignKeys, o) =>
                  ~ Has(d.added, o.table)
<1>1. \A s, x : x \in ToSet(s) <=> Has(s, x)
  BY DEF ToSet, Has
<1>2. QED
  BY <1>1, OrderAssumption

LEMMA SegmentsType ==
    ASSUME NEW d \in Diffs
    PROVE  /\ Segment(DropForeignKeys(d), "drop_fk")
           /\ Segment(DropIndexes(d), "drop_idx")
           /\ Segment(DropColumns(d), "drop_col")
           /\ Segment(DropTables(d), "drop_table")
           /\ Segment(CreateTables(d), "create_table")
           /\ Segment(AddColumns(d), "add_col")
           /\ Segment(ModifyColumns(d), "mod_col")
           /\ Segment(AddIndexes(d), "add_idx")
           /\ Segment(AddForeignKeys(d), "add_fk")
           /\ Segment(ModifyPrimaryKeys(d), "mod_pk")
<1>1. /\ d.added \in Seq(Name) /\ d.removed \in Seq(Name)
      /\ d.modifiedPrimaryKeys \in Seq(Name)
      /\ d.removedColumns \in Seq(Named) /\ d.addedColumns \in Seq(Named)
      /\ d.modifiedColumns \in Seq(Named)
      /\ d.removedIndexes \in Seq(OnColumns) /\ d.addedIndexes \in Seq(OnColumns)
      /\ d.newIndexes \in Seq(OnColumns)
      /\ d.removedForeignKeys \in Seq(Referring) /\ d.addedForeignKeys \in Seq(Referring)
      /\ d.newForeignKeys \in Seq(Referring)
  BY DiffType
<1>2. /\ d.addedIndexes \o d.newIndexes \in Seq(OnColumns)
      /\ d.addedForeignKeys \o d.newForeignKeys \in Seq(Referring)
  <2>1. \A T : \A a, b \in Seq(T) : a \o b \in Seq(T)
    OBVIOUS
  <2>2. QED
    BY <1>1, <2>1
<1>3. Segment(DropForeignKeys(d), "drop_fk")
  BY <1>1, PartsType DEF IDWords, DropForeignKeys
<1>4. Segment(DropIndexes(d), "drop_idx")
  BY <1>1, PartsType DEF IDWords, DropIndexes
<1>5. Segment(DropColumns(d), "drop_col")
  BY <1>1, PartsType DEF IDWords, DropColumns
<1>6. Segment(DropTables(d), "drop_table")
  BY <1>1, TablesType DEF IDWords, DropTables
<1>7. Segment(CreateTables(d), "create_table")
  BY <1>1, TablesType DEF IDWords, CreateTables
<1>8. Segment(AddColumns(d), "add_col")
  BY <1>1, PartsType DEF IDWords, AddColumns
<1>9. Segment(ModifyColumns(d), "mod_col")
  BY <1>1, PartsType DEF IDWords, ModifyColumns
<1>10. Segment(AddIndexes(d), "add_idx")
  BY <1>1, <1>2, PartsType DEF IDWords, AddIndexes
<1>11. Segment(AddForeignKeys(d), "add_fk")
  BY <1>1, <1>2, PartsType DEF IDWords, AddForeignKeys
<1>12. Segment(ModifyPrimaryKeys(d), "mod_pk")
  BY <1>1, TablesType DEF IDWords, ModifyPrimaryKeys
<1>13. QED
  BY <1>3, <1>4, <1>5, <1>6, <1>7, <1>8, <1>9, <1>10, <1>11, <1>12

\* The place of its kind in the order in which operations are generated.
PlaceOf(prefix) ==
    CASE prefix = "drop_fk" -> 1 [] prefix = "drop_idx" -> 2
      [] prefix = "drop_col" -> 3 [] prefix = "drop_table" -> 4
      [] prefix = "create_table" -> 5 [] prefix = "add_col" -> 6
      [] prefix = "mod_col" -> 7 [] prefix = "add_idx" -> 8
      [] prefix = "add_fk" -> 9 [] prefix = "mod_pk" -> 10

Place(id) == PlaceOf(id[1])

\* A list of operations of the first n kinds, in their order.
UpTo(s, n) ==
    /\ s \in Seq(IDs)
    /\ \A i \in DOMAIN s : Place(s[i]) \in 1 .. n
    /\ \A i, j \in DOMAIN s : Place(s[i]) < Place(s[j]) => i < j

LEMMA SegmentFollows ==
    ASSUME NEW n \in Nat, NEW s, UpTo(s, n), NEW b, NEW prefix, Segment(b, prefix),
           PlaceOf(prefix) = n + 1
    PROVE  UpTo(s \o b, n + 1)
<1>1. s \in Seq(IDs) /\ b \in Seq(IDs)
  BY DEF UpTo, Segment
<1> DEFINE c == s \o b
<1>2. /\ c \in Seq(IDs) /\ Len(c) = Len(s) + Len(b)
      /\ \A i \in 1 .. Len(s) : c[i] = s[i]
      /\ \A i \in 1 .. Len(b) : c[Len(s) + i] = b[i]
  BY <1>1
<1> HIDE DEF c
<1>3. \A i \in 1 .. Len(s) : Place(c[i]) \in 1 .. n
  BY <1>1, <1>2 DEF UpTo
<1>4. \A i \in DOMAIN c : ~ (i <= Len(s)) => Place(c[i]) = n + 1
  <2>1. SUFFICES ASSUME NEW i \in DOMAIN c, ~ (i <= Len(s)) PROVE Place(c[i]) = n + 1
    OBVIOUS
  <2>2. i - Len(s) \in 1 .. Len(b)
    BY <1>1, <1>2, <2>1
  <2>3. c[Len(s) + (i - Len(s))] = b[i - Len(s)]
    BY <1>2, <2>2
  <2>4. c[i] = b[i - Len(s)]
    BY <1>1, <1>2, <2>1, <2>3
  <2>5. c[i][1] = prefix
    BY <1>1, <2>2, <2>4 DEF Segment
  <2>6. QED
    BY <2>5 DEF Place
<1>5. \A i \in DOMAIN c : Place(c[i]) \in 1 .. n + 1
  BY <1>1, <1>2, <1>3, <1>4
<1>6. ASSUME NEW i \in DOMAIN c, NEW j \in DOMAIN c, Place(c[i]) < Place(c[j])
      PROVE  i < j
  <2>1. i <= Len(s)
    BY <1>4, <1>5, <1>6
  <2>2. CASE j <= Len(s)
    BY <1>1, <1>2, <1>6, <2>1, <2>2 DEF UpTo
  <2>3. CASE ~ (j <= Len(s))
    BY <1>1, <1>2, <2>1, <2>3
  <2>4. QED
    BY <2>2, <2>3
<1>7. QED
  BY <1>2, <1>5, <1>6 DEF UpTo, c

\* Operations are generated in the order of their kinds.
LEMMA GeneratedInOrder ==
    ASSUME NEW d \in Diffs
    PROVE  UpTo(Generated(d), 10)
<1>3. UpTo(DropForeignKeys(d), 1)
  <2>1. Segment(DropForeignKeys(d), "drop_fk") /\ PlaceOf("drop_fk") = 1
    BY SegmentsType DEF PlaceOf
  <2>2. \A i \in DOMAIN DropForeignKeys(d) : Place(DropForeignKeys(d)[i]) = 1
    BY <2>1 DEF Segment, Place
  <2>3. QED
    BY <2>1, <2>2 DEF UpTo, Segment
<1> DEFINE a2 == DropForeignKeys(d) \o DropIndexes(d)
           a3 == a2 \o DropColumns(d)
           a4 == a3 \o DropTables(d)
           a5 == a4 \o CreateTables(d)
           a6 == a5 \o AddColumns(d)
           a7 == a6 \o ModifyColumns(d)
           a8 == a7 \o AddIndexes(d)
           a9 == a8 \o AddForeignKeys(d)
           a10 == a9 \o ModifyPrimaryKeys(d)
<1>4. Generated(d) = a10
  BY DEF Generated
<1>5. ASSUME NEW n \in Nat, NEW s, UpTo(s, n), NEW b, NEW prefix, Segment(b, prefix),
             PlaceOf(prefix) = n + 1, NEW m, m = n + 1
      PROVE  UpTo(s \o b, m)
  BY <1>5, SegmentFollows
<1>6. /\ PlaceOf("drop_idx") = 2 /\ PlaceOf("drop_col") = 3 /\ PlaceOf("drop_table") = 4
      /\ PlaceOf("create_table") = 5 /\ PlaceOf("add_col") = 6 /\ PlaceOf("mod_col") = 7
      /\ PlaceOf("add_idx") = 8 /\ PlaceOf("add_fk") = 9 /\ PlaceOf("mod_pk") = 10
  BY DEF PlaceOf
<1>7. UpTo(a2, 2)
  BY <1>3, <1>5, <1>6, SegmentsType
<1> HIDE DEF a2
<1>8. UpTo(a3, 3)
  BY <1>5, <1>6, <1>7, SegmentsType
<1> HIDE DEF a3
<1>9. UpTo(a4, 4)
  BY <1>5, <1>6, <1>8, SegmentsType
<1> HIDE DEF a4
<1>10. UpTo(a5, 5)
  BY <1>5, <1>6, <1>9, SegmentsType
<1> HIDE DEF a5
<1>11. UpTo(a6, 6)
  BY <1>5, <1>6, <1>10, SegmentsType
<1> HIDE DEF a6
<1>12. UpTo(a7, 7)
  BY <1>5, <1>6, <1>11, SegmentsType
<1> HIDE DEF a7
<1>13. UpTo(a8, 8)
  BY <1>5, <1>6, <1>12, SegmentsType
<1> HIDE DEF a8
<1>14. UpTo(a9, 9)
  BY <1>5, <1>6, <1>13, SegmentsType
<1> HIDE DEF a9
<1>15. UpTo(a10, 10)
  BY <1>5, <1>6, <1>14, SegmentsType
<1>16. QED
  BY <1>4, <1>15

(***************************************************************************)
(* The graph.                                                              *)
(***************************************************************************)

\* The last index of some is one of them.
LEMMA MaxIsIn ==
    ASSUME NEW n \in Nat, NEW S \in SUBSET (1 .. n), S # {}
    PROVE  Max(S) \in S
<1> DEFINE R == {n - i : i \in S}
<1>1. \A i \in S : i \in 1 .. n
  OBVIOUS
<1>0. R \in SUBSET Nat /\ R # {}
  <2>1. \A i \in S : n - i \in Nat
    BY <1>1
  <2>2. QED
    BY <2>1
<1> HIDE DEF R
<1>2. PICK m \in R : \A k \in R : ~ (k < m)
  BY <1>0, LeastExists
<1>3. PICK i \in S : m = n - i
  BY <1>2 DEF R
<1>4. \A j \in S : n - j \in R
  BY DEF R
<1>5. \A j \in S : i >= j
  BY <1>1, <1>2, <1>3, <1>4
<1>6. QED
  BY <1>5 DEF Max

\* The first index of some is one of them, and is the first.
LEMMA MinIsIn ==
    ASSUME NEW S \in SUBSET Nat, S # {}
    PROVE  Min(S) \in S
<1>1. PICK m \in S : \A k \in S : ~ (k < m)
  BY LeastExists
<1>2. \A k \in S : m <= k
  BY <1>1
<1>3. QED
  BY <1>2 DEF Min

\* The operations of a difference.
Made(d) == ToSet(Generated(d))

LEMMA RanksType ==
    ASSUME NEW d \in Diffs
    PROVE  /\ DOMAIN Ranks(d) = Made(d)
           /\ IsFiniteSet(Made(d))
           /\ \A id \in Made(d) : id \in IDs /\ Ranks(d)[id] \in Nat
           /\ \A x, y \in Made(d) : Place(x) < Place(y) => Ranks(d)[x] < Ranks(d)[y]
<1> DEFINE ops == Generated(d)
           n == Len(ops)
           at(id) == {i \in DOMAIN ops : ops[i] = id}
<1>1. UpTo(ops, 10)
  BY GeneratedInOrder
<1>2. Ranks(d) = [id \in ToSet(ops) |-> Max(at(id))]
  BY DEF Ranks
<1> HIDE DEF ops
<1>3. ops \in Seq(IDs) /\ n \in Nat /\ DOMAIN ops = 1 .. n
  BY <1>1 DEF UpTo
<1>4. \A id \in ToSet(ops) : at(id) \in SUBSET (1 .. n) /\ at(id) # {}
  BY <1>3 DEF ToSet
<1>5. \A id \in ToSet(ops) : Max(at(id)) \in at(id)
  BY <1>3, <1>4, MaxIsIn
<1> DEFINE rank == [id \in ToSet(ops) |-> Max(at(id))]
<1>6. \A id \in ToSet(ops) : rank[id] \in 1 .. n /\ ops[rank[id]] = id
  BY <1>3, <1>5
<1> HIDE DEF rank
<1>7. \A id \in ToSet(ops) : id \in IDs
  BY <1>3 DEF ToSet
<1>8. \A x, y \in ToSet(ops) : Place(x) < Place(y) => rank[x] < rank[y]
  BY <1>1, <1>3, <1>6 DEF UpTo
<1>9. IsFiniteSet(ToSet(ops))
  <2>1. IsFiniteSet(1 .. n) /\ Cardinality(1 .. n) = n
    BY <1>3, FS_Interval
  <2>2. ToSet(ops) = {ops[i] : i \in 1 .. n}
    BY <1>3 DEF ToSet
  <2>3. ops \in [1 .. n -> ToSet(ops)] /\ \A y \in ToSet(ops) : \E i \in 1 .. n : ops[i] = y
    BY <1>3, <2>2
  <2>4. ops \in Surjection(1 .. n, ToSet(ops))
    BY <2>3 DEF Surjection
  <2>5. QED
    BY <2>1, <2>4, FS_Surjection
<1>10. DOMAIN rank = ToSet(ops)
  BY DEF rank
<1>11. Ranks(d) = rank
  BY <1>2 DEF rank
<1>12. QED
  BY <1>6, <1>7, <1>8, <1>9, <1>10, <1>11 DEF Made, ops

LEMMA GeneratedHas ==
    ASSUME NEW d \in Diffs
    PROVE  \A id : id \in Made(d) <=>
               \/ Has(DropForeignKeys(d), id) \/ Has(DropIndexes(d), id)
               \/ Has(DropColumns(d), id) \/ Has(DropTables(d), id)
               \/ Has(CreateTables(d), id) \/ Has(AddColumns(d), id)
               \/ Has(ModifyColumns(d), id) \/ Has(AddIndexes(d), id)
               \/ Has(AddForeignKeys(d), id) \/ Has(ModifyPrimaryKeys(d), id)
<1>1. TAKE id
<1>2. \A s, r \in Seq(IDs) : s \o r \in Seq(IDs) /\ (Has(s \o r, id) <=> Has(s, id) \/ Has(r, id))
  BY HasPut
<1>3. /\ DropForeignKeys(d) \in Seq(IDs) /\ DropIndexes(d) \in Seq(IDs)
      /\ DropColumns(d) \in Seq(IDs) /\ DropTables(d) \in Seq(IDs)
      /\ CreateTables(d) \in Seq(IDs) /\ AddColumns(d) \in Seq(IDs)
      /\ ModifyColumns(d) \in Seq(IDs) /\ AddIndexes(d) \in Seq(IDs)
      /\ AddForeignKeys(d) \in Seq(IDs) /\ ModifyPrimaryKeys(d) \in Seq(IDs)
  BY SegmentsType DEF Segment
<1> DEFINE a1 == DropForeignKeys(d)
           a2 == a1 \o DropIndexes(d)
           a3 == a2 \o DropColumns(d)
           a4 == a3 \o DropTables(d)
           a5 == a4 \o CreateTables(d)
           a6 == a5 \o AddColumns(d)
           a7 == a6 \o ModifyColumns(d)
           a8 == a7 \o AddIndexes(d)
           a9 == a8 \o AddForeignKeys(d)
           a10 == a9 \o ModifyPrimaryKeys(d)
<1>4. Generated(d) = a10
  BY DEF Generated
<1>5. a2 \in Seq(IDs) /\ (Has(a2, id) <=> Has(a1, id) \/ Has(DropIndexes(d), id))
  BY <1>2, <1>3
<1> HIDE DEF a2
<1>6. a3 \in Seq(IDs) /\ (Has(a3, id) <=> Has(a2, id) \/ Has(DropColumns(d), id))
  BY <1>2, <1>5, <1>3
<1> HIDE DEF a3
<1>7. a4 \in Seq(IDs) /\ (Has(a4, id) <=> Has(a3, id) \/ Has(DropTables(d), id))
  BY <1>2, <1>6, <1>3
<1> HIDE DEF a4
<1>8. a5 \in Seq(IDs) /\ (Has(a5, id) <=> Has(a4, id) \/ Has(CreateTables(d), id))
  BY <1>2, <1>7, <1>3
<1> HIDE DEF a5
<1>9. a6 \in Seq(IDs) /\ (Has(a6, id) <=> Has(a5, id) \/ Has(AddColumns(d), id))
  BY <1>2, <1>8, <1>3
<1> HIDE DEF a6
<1>10. a7 \in Seq(IDs) /\ (Has(a7, id) <=> Has(a6, id) \/ Has(ModifyColumns(d), id))
  BY <1>2, <1>9, <1>3
<1> HIDE DEF a7
<1>11. a8 \in Seq(IDs) /\ (Has(a8, id) <=> Has(a7, id) \/ Has(AddIndexes(d), id))
  BY <1>2, <1>10, <1>3
<1> HIDE DEF a8
<1>12. a9 \in Seq(IDs) /\ (Has(a9, id) <=> Has(a8, id) \/ Has(AddForeignKeys(d), id))
  BY <1>2, <1>11, <1>3
<1> HIDE DEF a9
<1>13. a10 \in Seq(IDs) /\ (Has(a10, id) <=> Has(a9, id) \/ Has(ModifyPrimaryKeys(d), id))
  BY <1>2, <1>12, <1>3
<1> HIDE DEF a10
<1>14. id \in Made(d) <=> Has(Generated(d), id)
  BY DEF Made, ToSet, Has
<1>15. QED
  BY <1>4, <1>5, <1>6, <1>7, <1>8, <1>9, <1>10, <1>11, <1>12, <1>13, <1>14

\* The operations that edges lead to and from.
LEMMA MadeHas ==
    ASSUME NEW d \in Diffs
    PROVE  /\ \A o : Has(d.addedIndexes, o) \/ Has(d.newIndexes, o) => Part("add_idx", o) \in Made(d)
           /\ \A o : Has(d.addedForeignKeys, o) \/ Has(d.newForeignKeys, o) =>
                  Part("add_fk", o) \in Made(d)
           /\ \A t \in Name : TableID("create_table", t) \in Made(d) <=> Has(d.added, t)
<1>1. ASSUME NEW o, Has(d.addedIndexes, o) \/ Has(d.newIndexes, o)
      PROVE  Part("add_idx", o) \in Made(d)
  <2>1. Has(d.addedIndexes \o d.newIndexes, o)
    BY <1>1, HasPut, DiffType
  <2>2. Has(AddIndexes(d), Part("add_idx", o))
    BY <2>1, PartsHave DEF AddIndexes
  <2>3. QED
    BY <2>2, GeneratedHas
<1>2. ASSUME NEW o, Has(d.addedForeignKeys, o) \/ Has(d.newForeignKeys, o)
      PROVE  Part("add_fk", o) \in Made(d)
  <2>1. Has(d.addedForeignKeys \o d.newForeignKeys, o)
    BY <1>2, HasPut, DiffType
  <2>2. Has(AddForeignKeys(d), Part("add_fk", o))
    BY <2>1, PartsHave DEF AddForeignKeys
  <2>3. QED
    BY <2>2, GeneratedHas
<1>3. ASSUME NEW t \in Name, Has(d.added, t)
      PROVE  TableID("create_table", t) \in Made(d)
  <2>1. Has(CreateTables(d), TableID("create_table", t))
    BY <1>3, TablesHave DEF CreateTables
  <2>2. QED
    BY <2>1, GeneratedHas
<1>4. ASSUME NEW t \in Name, TableID("create_table", t) \in Made(d)
      PROVE  Has(d.added, t)
  <2> DEFINE id == TableID("create_table", t)
  <2>1. id[1] = "create_table"
    <3>1. << >> \in Name
      BY DEF Name
    <3>2. QED
      BY <3>1, IDType DEF TableID, IDWords
  <2>2. id \in Made(d)
    BY <1>4
  <2> HIDE DEF id
  <2>3. \A s, prefix : Segment(s, prefix) /\ Has(s, id) => id[1] = prefix
    BY DEF Segment, Has
  <2>4. Has(CreateTables(d), id)
    BY <2>1, <2>2, <2>3, GeneratedHas, SegmentsType
  <2>5. PICK u : Has(d.added, u) /\ id = TableID("create_table", u)
    BY <2>4, TablesHave DEF CreateTables
  <2>6. u \in Name
    BY <2>5, DiffType DEF Has
  <2>7. u = t
    BY <2>5, <2>6, TableIDIsUnique DEF id, IDWords
  <2>8. QED
    BY <2>5, <2>7
<1>5. QED
  BY <1>1, <1>2, <1>3, <1>4

(***************************************************************************)
(* The edges.                                                              *)
(***************************************************************************)

\* The kinds of operations that wait for others.
Waiting == {"drop_table", "create_table", "add_idx", "add_fk"}

EdgeOf(x, y) == [from |-> x, to |-> y]

\* What waits for a new table: the tables that reference it, and its indexes and
\* foreign keys and those that reference it.
For(d, t) ==
    {TableID("create_table", f.table) :
         f \in {h \in ToSet(d.newForeignKeys) : h.references = t /\ h.table # t}}
    \cup {Part("add_idx", i) : i \in {o \in ToSet(d.newIndexes) : o.table = t}}
    \cup {Part("add_fk", f) :
              f \in {o \in ToSet(d.addedForeignKeys) \cup ToSet(d.newForeignKeys) :
                         t \in {o.table, o.references}}}

\* An operation waits for a new table, or for one that nothing leads to.
Reason(d, x, y) ==
    \/ x[1] \notin Waiting
    \/ \E t \in ToSet(d.added) : x = TableID("create_table", t) /\ y \in For(d, t)

EdgesOf(d) ==
    {e \in {EdgeOf(x, y) : x \in Made(d), y \in {id \in Made(d) : id[1] \in Waiting}} :
        Reason(d, e.from, e.to)}

LEMMA EdgeType ==
    ASSUME NEW d, NEW x \in Made(d), NEW y \in Made(d), y[1] \in Waiting, Reason(d, x, y)
    PROVE  Edge(x, y) \in Seq(EdgesOf(d)) /\ Has(Edge(x, y), EdgeOf(x, y))
<1> DEFINE e == EdgeOf(x, y)
           E == EdgesOf(d)
<1>1. e \in E
  <2>1. e \in {EdgeOf(a, b) : a \in Made(d), b \in {id \in Made(d) : id[1] \in Waiting}}
    OBVIOUS
  <2>2. e.from = x /\ e.to = y
    BY DEF EdgeOf
  <2> HIDE DEF e
  <2>3. QED
    BY <2>1, <2>2 DEF EdgesOf
<1>2. Edge(x, y) = <<e>>
  BY DEF Edge, EdgeOf
<1> HIDE DEF e, E
<1>3. <<e>> \in Seq(E) /\ 1 \in DOMAIN <<e>> /\ <<e>>[1] = e
  BY <1>1
<1>4. QED
  BY <1>2, <1>3 DEF Has, e, E

LEMMA EdgeIfType ==
    ASSUME NEW d, NEW x, NEW y, y[1] \in Waiting,
           x \in Made(d) => Reason(d, x, y)
    PROVE  /\ EdgeIf(d, x, y) \in Seq(EdgesOf(d))
           /\ x \in Made(d) /\ y \in Made(d) => Has(EdgeIf(d, x, y), EdgeOf(x, y))
<1>1. CASE x \in Made(d) /\ y \in Made(d)
  <2>1. EdgeIf(d, x, y) = Edge(x, y)
    BY <1>1 DEF EdgeIf, Made
  <2>2. QED
    BY <1>1, <2>1, EdgeType
<1>2. CASE ~ (x \in Made(d) /\ y \in Made(d))
  <2>1. EdgeIf(d, x, y) = << >>
    BY <1>2 DEF EdgeIf, Made
  <2>2. QED
    BY <1>2, <2>1
<1>3. QED
  BY <1>1, <1>2

\* What the provers need of lists of edges that are put together.
LEMMA EachType ==
    ASSUME NEW d, NEW X, NEW list \in Seq(X), NEW lists,
           lists = [i \in DOMAIN list |-> lists[i]],
           \A i \in DOMAIN list : lists[i] \in Seq(EdgesOf(d))
    PROVE  /\ FlattenSeq(lists) \in Seq(EdgesOf(d))
           /\ \A i \in DOMAIN list : \A e : Has(lists[i], e) => Has(FlattenSeq(lists), e)
<1>1. DOMAIN list = 1 .. Len(list) /\ Len(list) \in Nat
  OBVIOUS
<1>2. FlattenSeq(lists) \in Seq(EdgesOf(d))
  BY <1>1, FlattenSeqType
<1>3. ASSUME NEW i \in DOMAIN list, NEW e, Has(lists[i], e)
      PROVE  Has(FlattenSeq(lists), e)
  BY <1>1, <1>3, FlattenSeqHas
<1>4. QED
  BY <1>2, <1>3

LEMMA ColumnEdgesType ==
    ASSUME NEW d, NEW o, o.table \in Name, o.columns \in Seq(Name),
           NEW y, y[1] \in Waiting
    PROVE  ColumnEdges(d, o, y) \in Seq(EdgesOf(d))
<1> DEFINE lists == [i \in DOMAIN o.columns |-> EdgeIf(d, ID("add_col", o.table, o.columns[i]), y)]
<1>0. ASSUME NEW i \in DOMAIN o.columns
      PROVE  Reason(d, ID("add_col", o.table, o.columns[i]), y)
  <2>1. o.columns[i] \in Name
    OBVIOUS
  <2>2. ID("add_col", o.table, o.columns[i])[1] = "add_col"
    BY <2>1, IDType DEF IDWords
  <2>3. QED
    BY <2>2 DEF Reason, Waiting
<1>1. \A i \in DOMAIN o.columns : lists[i] \in Seq(EdgesOf(d))
  BY <1>0, EdgeIfType
<1>2. ColumnEdges(d, o, y) = FlattenSeq(lists)
  BY DEF ColumnEdges, Each
<1>3. lists = [i \in DOMAIN o.columns |-> lists[i]]
  OBVIOUS
<1> HIDE DEF lists
<1>4. QED
  BY <1>1, <1>2, <1>3, EachType

\* The identifiers of what waits.
LEMMA WaitingType ==
    /\ \A o \in OnColumns : Part("add_idx", o)[1] \in Waiting
    /\ \A f \in Referring : Part("add_fk", f)[1] \in Waiting
    /\ \A t \in Name : /\ TableID("drop_table", t)[1] \in Waiting
                       /\ TableID("create_table", t)[1] \in Waiting
<1>1. << >> \in Name
  BY DEF Name
<1>2. QED
  BY <1>1, IDType DEF Part, TableID, Waiting, IDWords, OnColumns, Referring

\* An edge of a graph.
Leads(d, x, y) == Has(Graph(d).edges, EdgeOf(x, y))

LEMMA IndexEdgesType ==
    ASSUME NEW d \in Diffs
    PROVE  /\ IndexEdges(d) \in Seq(EdgesOf(d))
           /\ \A o : Has(d.newIndexes, o) =>
                  Has(IndexEdges(d), EdgeOf(TableID("create_table", o.table), Part("add_idx", o)))
<1> DEFINE kept == d.addedIndexes
           new == d.newIndexes
           a == [i \in DOMAIN kept |-> ColumnEdges(d, kept[i], Part("add_idx", kept[i]))]
           b == [i \in DOMAIN new |-> TableEdge(new[i], Part("add_idx", new[i]))]
<1>1. IndexEdges(d) = FlattenSeq(a) \o FlattenSeq(b)
  BY DEF IndexEdges, Each
<1>2. kept \in Seq(OnColumns) /\ new \in Seq(OnColumns)
  BY DiffType
<1>3. \A i \in DOMAIN kept : a[i] \in Seq(EdgesOf(d))
  <2>1. \A i \in DOMAIN kept : kept[i] \in OnColumns
    BY <1>2
  <2>2. QED
    BY <2>1, ColumnEdgesType, WaitingType DEF OnColumns
<1>4. ASSUME NEW i \in DOMAIN new
      PROVE  /\ b[i] \in Seq(EdgesOf(d))
             /\ Has(b[i], EdgeOf(TableID("create_table", new[i].table), Part("add_idx", new[i])))
  <2>1. new[i] \in OnColumns /\ Has(new, new[i])
    BY <1>2 DEF Has
  <2>2. Has(d.added, new[i].table) /\ new[i].table \in Name
    BY <2>1, DiffType DEF OnColumns
  <2>3. TableID("create_table", new[i].table) \in Made(d) /\ Part("add_idx", new[i]) \in Made(d)
    BY <2>1, <2>2, MadeHas
  <2>4. Reason(d, TableID("create_table", new[i].table), Part("add_idx", new[i]))
    BY <2>1, <2>2, HasIsIn DEF Reason, For
  <2>5. QED
    BY <2>1, <2>3, <2>4, EdgeType, WaitingType DEF TableEdge
<1>5. a = [i \in DOMAIN kept |-> a[i]] /\ b = [i \in DOMAIN new |-> b[i]]
  OBVIOUS
<1> HIDE DEF a, b
<1>6. FlattenSeq(a) \in Seq(EdgesOf(d))
  BY <1>2, <1>3, <1>5, EachType
<1>7. /\ FlattenSeq(b) \in Seq(EdgesOf(d))
      /\ \A i \in DOMAIN new : \A e : Has(b[i], e) => Has(FlattenSeq(b), e)
  BY <1>2, <1>4, <1>5, EachType
<1>8. ASSUME NEW o, Has(new, o)
      PROVE  Has(FlattenSeq(b), EdgeOf(TableID("create_table", o.table), Part("add_idx", o)))
  BY <1>4, <1>7, <1>8 DEF Has
<1>9. QED
  BY <1>1, <1>6, <1>7, <1>8, HasPut

LEMMA ForeignKeyEdgesType ==
    ASSUME NEW d \in Diffs
    PROVE  /\ ForeignKeyEdges(d) \in Seq(EdgesOf(d))
           /\ \A f : Has(d.newForeignKeys, f) =>
                  Has(ForeignKeyEdges(d), EdgeOf(TableID("create_table", f.table), Part("add_fk", f)))
           /\ \A f : /\ Has(d.addedForeignKeys, f) \/ Has(d.newForeignKeys, f)
                     /\ TableID("create_table", f.references) \in Made(d)
                     => Has(ForeignKeyEdges(d),
                            EdgeOf(TableID("create_table", f.references), Part("add_fk", f)))
<1> DEFINE kept == d.addedForeignKeys
           new == d.newForeignKeys
           Ref(f) == ReferenceEdge(d, f, Part("add_fk", f))
           Col(f) == ColumnEdges(d, f, Part("add_fk", f))
           Tab(f) == TableEdge(f, Part("add_fk", f))
           RefEdge(f) == EdgeOf(TableID("create_table", f.references), Part("add_fk", f))
           TabEdge(f) == EdgeOf(TableID("create_table", f.table), Part("add_fk", f))
           a == [i \in DOMAIN kept |-> Ref(kept[i]) \o Col(kept[i])]
           b == [i \in DOMAIN new |-> Tab(new[i]) \o Ref(new[i])]
<1>1. ForeignKeyEdges(d) = FlattenSeq(a) \o FlattenSeq(b)
  BY DEF ForeignKeyEdges, Each
<1>2. kept \in Seq(Referring) /\ new \in Seq(Referring)
  BY DiffType
<1>3. ASSUME NEW f \in Referring, Has(kept, f) \/ Has(new, f)
      PROVE  /\ Col(f) \in Seq(EdgesOf(d))
             /\ Ref(f) \in Seq(EdgesOf(d))
             /\ TableID("create_table", f.references) \in Made(d) /\ Part("add_fk", f) \in Made(d)
                => Has(Ref(f), RefEdge(f))
  <2>1. /\ Part("add_fk", f)[1] \in Waiting /\ f.columns \in Seq(Name)
        /\ f.table \in Name /\ f.references \in Name
    BY WaitingType DEF Referring
  <2>2. Col(f) \in Seq(EdgesOf(d))
    BY <2>1, ColumnEdgesType
  <2>3. ASSUME TableID("create_table", f.references) \in Made(d)
        PROVE  Reason(d, TableID("create_table", f.references), Part("add_fk", f))
    <3>1. Has(d.added, f.references)
      BY <2>1, <2>3, MadeHas
    <3>2. QED
      BY <1>3, <3>1, HasIsIn DEF Reason, For
  <2>4. QED
    BY <2>1, <2>2, <2>3, EdgeIfType DEF ReferenceEdge
<1>4. ASSUME NEW i \in DOMAIN kept
      PROVE  /\ a[i] \in Seq(EdgesOf(d))
             /\ TableID("create_table", kept[i].references) \in Made(d) => Has(a[i], RefEdge(kept[i]))
  <2> DEFINE f == kept[i]
  <2>1. f \in Referring /\ Has(kept, f)
    BY <1>2 DEF Has
  <2>2. Part("add_fk", f) \in Made(d)
    BY <2>1, MadeHas
  <2>3. a[i] = Ref(f) \o Col(f)
    OBVIOUS
  <2> HIDE DEF f, Ref, Col, RefEdge, a
  <2>4. QED
    BY <1>3, <2>1, <2>2, <2>3, HasPut DEF f
<1>5. ASSUME NEW i \in DOMAIN new
      PROVE  /\ b[i] \in Seq(EdgesOf(d))
             /\ Has(b[i], TabEdge(new[i]))
             /\ TableID("create_table", new[i].references) \in Made(d) => Has(b[i], RefEdge(new[i]))
  <2> DEFINE f == new[i]
  <2>1. f \in Referring /\ Has(new, f)
    BY <1>2 DEF Has
  <2>2. Part("add_fk", f) \in Made(d)
    BY <2>1, MadeHas
  <2>3. Has(d.added, f.table) /\ f.table \in Name
    BY <2>1, DiffType DEF Referring
  <2>4. TableID("create_table", f.table) \in Made(d)
    BY <2>3, MadeHas
  <2>5. Tab(f) \in Seq(EdgesOf(d)) /\ Has(Tab(f), TabEdge(f))
    <3>1. Reason(d, TableID("create_table", f.table), Part("add_fk", f))
      BY <2>1, <2>3, HasIsIn DEF Reason, For
    <3>2. QED
      BY <2>1, <2>2, <2>4, <3>1, EdgeType, WaitingType DEF TableEdge
  <2>6. b[i] = Tab(f) \o Ref(f)
    OBVIOUS
  <2> HIDE DEF f, Ref, Tab, RefEdge, TabEdge, b
  <2>7. QED
    BY <1>3, <2>1, <2>2, <2>5, <2>6, HasPut DEF f
<1>6. a = [i \in DOMAIN kept |-> a[i]] /\ b = [i \in DOMAIN new |-> b[i]]
  OBVIOUS
<1> HIDE DEF a, b, RefEdge, TabEdge
<1>7. /\ FlattenSeq(a) \in Seq(EdgesOf(d))
      /\ \A i \in DOMAIN kept : \A e : Has(a[i], e) => Has(FlattenSeq(a), e)
  BY <1>2, <1>4, <1>6, EachType
<1>8. /\ FlattenSeq(b) \in Seq(EdgesOf(d))
      /\ \A i \in DOMAIN new : \A e : Has(b[i], e) => Has(FlattenSeq(b), e)
  BY <1>2, <1>5, <1>6, EachType
<1>9. \A f : Has(new, f) => Has(FlattenSeq(b), TabEdge(f))
  BY <1>5, <1>8 DEF Has
<1>10. \A f : Has(kept, f) /\ TableID("create_table", f.references) \in Made(d)
              => Has(FlattenSeq(a), RefEdge(f))
  <2>1. SUFFICES ASSUME NEW f, Has(kept, f), TableID("create_table", f.references) \in Made(d)
                 PROVE  Has(FlattenSeq(a), RefEdge(f))
    OBVIOUS
  <2>2. PICK i \in DOMAIN kept : kept[i] = f
    BY <2>1 DEF Has
  <2>3. QED
    BY <1>4, <1>7, <2>1, <2>2
<1>11. \A f : Has(new, f) /\ TableID("create_table", f.references) \in Made(d)
              => Has(FlattenSeq(b), RefEdge(f))
  <2>1. SUFFICES ASSUME NEW f, Has(new, f), TableID("create_table", f.references) \in Made(d)
                 PROVE  Has(FlattenSeq(b), RefEdge(f))
    OBVIOUS
  <2>2. PICK i \in DOMAIN new : new[i] = f
    BY <2>1 DEF Has
  <2>3. QED
    BY <1>5, <1>8, <2>1, <2>2
<1>12. QED
  BY <1>1, <1>7, <1>8, <1>9, <1>10, <1>11, HasPut DEF RefEdge, TabEdge

LEMMA DropTableEdgesType ==
    ASSUME NEW d \in Diffs
    PROVE  DropTableEdges(d) \in Seq(EdgesOf(d))
<1> DEFINE list == d.removedForeignKeys
           a == [i \in DOMAIN list |->
                    EdgeIf(d, Part("drop_fk", list[i]), TableID("drop_table", list[i].references))]
<1>1. DropTableEdges(d) = FlattenSeq(a)
  BY DEF DropTableEdges, Each
<1>2. list \in Seq(Referring)
  BY DiffType
<1>3. \A i \in DOMAIN list : a[i] \in Seq(EdgesOf(d))
  <2>0. \A i \in DOMAIN list : list[i] \in Referring
    BY <1>2
  <2>1. \A i \in DOMAIN list : /\ list[i].references \in Name
                               /\ list[i].table \in Name /\ list[i].name \in Name
    BY <2>0 DEF Referring
  <2>2. \A i \in DOMAIN list :
            Reason(d, Part("drop_fk", list[i]), TableID("drop_table", list[i].references))
    <3>1. \A i \in DOMAIN list : Part("drop_fk", list[i])[1] = "drop_fk"
      BY <2>1, IDType DEF Part, IDWords
    <3>2. QED
      BY <3>1 DEF Reason, Waiting
  <2>3. QED
    BY <2>1, <2>2, EdgeIfType, WaitingType
<1>4. a = [i \in DOMAIN list |-> a[i]]
  OBVIOUS
<1> HIDE DEF a
<1>5. QED
  BY <1>1, <1>2, <1>3, <1>4, EachType

LEMMA CreateTableEdgesType ==
    ASSUME NEW d \in Diffs
    PROVE  /\ CreateTableEdges(d) \in Seq(EdgesOf(d))
           /\ \A f : /\ Has(d.newForeignKeys, f) /\ f.references # f.table
                     /\ TableID("create_table", f.references) \in Made(d)
                     => Has(CreateTableEdges(d), EdgeOf(TableID("create_table", f.references),
                                                        TableID("create_table", f.table)))
<1> DEFINE new == d.newForeignKeys
           Ref(f) == ReferenceEdge(d, f, TableID("create_table", f.table))
           RefEdge(f) == EdgeOf(TableID("create_table", f.references),
                                TableID("create_table", f.table))
           a == [i \in DOMAIN new |-> IF new[i].references = new[i].table THEN << >>
                                      ELSE Ref(new[i])]
<1>1. CreateTableEdges(d) = FlattenSeq(a)
  BY DEF CreateTableEdges, Each
<1>2. new \in Seq(Referring)
  BY DiffType
<1>3. ASSUME NEW i \in DOMAIN new
      PROVE  /\ a[i] \in Seq(EdgesOf(d))
             /\ /\ new[i].references # new[i].table
                /\ TableID("create_table", new[i].references) \in Made(d)
                => Has(a[i], RefEdge(new[i]))
  <2> DEFINE f == new[i]
  <2>1. f \in Referring /\ Has(new, f)
    BY <1>2 DEF Has
  <2>2. Has(d.added, f.table) /\ f.table \in Name
    BY <2>1, DiffType DEF Referring
  <2>3. TableID("create_table", f.table) \in Made(d) /\ TableID("create_table", f.table)[1] \in Waiting
    BY <2>2, MadeHas, WaitingType
  <2>4. ASSUME f.references # f.table
        PROVE  /\ Ref(f) \in Seq(EdgesOf(d))
               /\ TableID("create_table", f.references) \in Made(d) => Has(Ref(f), RefEdge(f))
    <3>1. ASSUME TableID("create_table", f.references) \in Made(d)
          PROVE  Reason(d, TableID("create_table", f.references), TableID("create_table", f.table))
      <4>1. f.references \in Name
        BY <2>1 DEF Referring
      <4>2. Has(d.added, f.references)
        BY <3>1, <4>1, MadeHas
      <4>3. QED
        BY <2>1, <2>4, <4>2, HasIsIn DEF Reason, For
    <3>2. QED
      BY <2>3, <3>1, EdgeIfType DEF ReferenceEdge
  <2>5. << >> \in Seq(EdgesOf(d))
    OBVIOUS
  <2>6. a[i] = IF f.references = f.table THEN << >> ELSE Ref(f)
    OBVIOUS
  <2> HIDE DEF Ref, RefEdge, a
  <2>7. QED
    BY <2>4, <2>5, <2>6
<1>4. a = [i \in DOMAIN new |-> a[i]]
  OBVIOUS
<1> HIDE DEF a, RefEdge
<1>5. /\ FlattenSeq(a) \in Seq(EdgesOf(d))
      /\ \A i \in DOMAIN new : \A e : Has(a[i], e) => Has(FlattenSeq(a), e)
  BY <1>2, <1>3, <1>4, EachType
<1>6. ASSUME NEW f, Has(new, f), f.references # f.table,
             TableID("create_table", f.references) \in Made(d)
      PROVE  Has(FlattenSeq(a), RefEdge(f))
  <2>1. PICK i \in DOMAIN new : new[i] = f
    BY <1>6 DEF Has
  <2>2. QED
    BY <1>3, <1>5, <1>6, <2>1
<1>7. QED
  BY <1>1, <1>5, <1>6 DEF RefEdge

\* The edges of a graph lead between its operations, to those that may wait;
\* and they are there for what creates a table and what needs it.
LEMMA GraphType ==
    ASSUME NEW d \in Diffs
    PROVE  /\ Graph(d).rank = Ranks(d)
           /\ Graph(d).edges \in Seq(EdgesOf(d))
           /\ \A o : Has(d.newIndexes, o) =>
                  Leads(d, TableID("create_table", o.table), Part("add_idx", o))
           /\ \A f : Has(d.newForeignKeys, f) =>
                  Leads(d, TableID("create_table", f.table), Part("add_fk", f))
           /\ \A f : /\ Has(d.addedForeignKeys, f) \/ Has(d.newForeignKeys, f)
                     /\ TableID("create_table", f.references) \in Made(d)
                     => Leads(d, TableID("create_table", f.references), Part("add_fk", f))
           /\ \A f : /\ Has(d.newForeignKeys, f) /\ f.references # f.table
                     /\ TableID("create_table", f.references) \in Made(d)
                     => Leads(d, TableID("create_table", f.references),
                              TableID("create_table", f.table))
<1> DEFINE E == EdgesOf(d)
           i == IndexEdges(d)
           f == ForeignKeyEdges(d)
           t == DropTableEdges(d)
           c == CreateTableEdges(d)
           x == i \o f
           y == x \o t
           z == y \o c
<1>1. Graph(d).rank = Ranks(d) /\ Graph(d).edges = z
  BY DEF Graph
<1>2. i \in Seq(E) /\ f \in Seq(E) /\ t \in Seq(E) /\ c \in Seq(E)
  BY IndexEdgesType, ForeignKeyEdgesType, DropTableEdgesType, CreateTableEdgesType
<1> HIDE DEF E, i, f, t, c
<1>3. x \in Seq(E) /\ \A e : Has(x, e) <=> Has(i, e) \/ Has(f, e)
  BY <1>2, HasPut
<1> HIDE DEF x
<1>4. y \in Seq(E) /\ \A e : Has(y, e) <=> Has(x, e) \/ Has(t, e)
  BY <1>2, <1>3, HasPut
<1> HIDE DEF y
<1>5. z \in Seq(E) /\ \A e : Has(z, e) <=> Has(y, e) \/ Has(c, e)
  BY <1>2, <1>4, HasPut
<1> HIDE DEF z
<1>6. \A e : Has(i, e) \/ Has(f, e) \/ Has(c, e) => Has(Graph(d).edges, e)
  BY <1>1, <1>3, <1>4, <1>5
<1>7. QED
  BY <1>1, <1>5, <1>6, IndexEdgesType, ForeignKeyEdgesType, CreateTableEdgesType
     DEF Leads, E, i, f, c

(***************************************************************************)
(* The sort.                                                               *)
(***************************************************************************)

Distinct(s) == \A i, j \in DOMAIN s : s[i] = s[j] => i = j

Before(s, x, y) == \E i, j \in DOMAIN s : i < j /\ s[i] = x /\ s[j] = y

LEMMA AppendFacts ==
    ASSUME NEW T, NEW s \in Seq(T), NEW x \in T
    PROVE  /\ Append(s, x) \in Seq(T)
           /\ ToSet(Append(s, x)) = ToSet(s) \cup {x}
           /\ Distinct(s) /\ x \notin ToSet(s) => Distinct(Append(s, x))
           /\ \A a, b : Before(s, a, b) => Before(Append(s, x), a, b)
           /\ \A a \in ToSet(s) : Before(Append(s, x), a, x)
<1> DEFINE t == Append(s, x)
           n == Len(s)
<1>1. /\ n \in Nat /\ t \in Seq(T) /\ DOMAIN s = 1 .. n /\ DOMAIN t = 1 .. n + 1
      /\ t[n + 1] = x /\ \A i \in 1 .. n : t[i] = s[i]
  OBVIOUS
<1> HIDE DEF t, n
<1>2. \A i \in 1 .. n + 1 : i = n + 1 \/ i \in 1 .. n
  BY <1>1
<1>3. \A i \in 1 .. n : i \in 1 .. n + 1 /\ i < n + 1
  BY <1>1
<1>4. n + 1 \in 1 .. n + 1
  BY <1>1
<1>5. ToSet(t) = ToSet(s) \cup {x}
  BY <1>1, <1>2, <1>3, <1>4 DEF ToSet
<1>6. Distinct(s) /\ x \notin ToSet(s) => Distinct(t)
  BY <1>1, <1>2 DEF Distinct, ToSet
<1>7. \A a, b : Before(s, a, b) => Before(t, a, b)
  BY <1>1, <1>3 DEF Before
<1>8. \A a \in ToSet(s) : Before(t, a, x)
  BY <1>1, <1>3, <1>4 DEF Before, ToSet
<1>9. QED
  BY <1>1, <1>5, <1>6, <1>7, <1>8 DEF t

\* What the graph is.
GraphOf == diff \in Diffs /\ g = Graph(diff)

Edges == DOMAIN g.edges

LEMMA GraphFacts ==
    ASSUME GraphOf
    PROVE  /\ Operations = Made(diff)
           /\ IsFiniteSet(Operations)
           /\ \A x \in Operations : g.rank[x] \in Nat
           /\ \A x, y \in Operations : Place(x) < Place(y) => g.rank[x] < g.rank[y]
           /\ Edges \in SUBSET Nat /\ IsFiniteSet(Edges)
           /\ \A i \in Edges : /\ g.edges[i].from \in Operations
                               /\ g.edges[i].to \in Operations
                               /\ g.edges[i].to[1] \in Waiting
                               /\ Reason(diff, g.edges[i].from, g.edges[i].to)
                               /\ g.edges[i] = EdgeOf(g.edges[i].from, g.edges[i].to)
<1>1. diff \in Diffs /\ g.rank = Ranks(diff) /\ g.edges \in Seq(EdgesOf(diff))
  BY GraphType DEF GraphOf
<1>2. Operations = Made(diff)
  BY <1>1, RanksType DEF Operations
<1>3. Edges = 1 .. Len(g.edges) /\ Len(g.edges) \in Nat
  BY <1>1 DEF Edges
<1>4. Edges \in SUBSET Nat /\ IsFiniteSet(Edges)
  BY <1>3, FS_Interval
<1>5. \A i \in Edges : g.edges[i] \in EdgesOf(diff)
  BY <1>1 DEF Edges
<1>6. \A e \in EdgesOf(diff) : /\ e.from \in Made(diff) /\ e.to \in Made(diff)
                               /\ e.to[1] \in Waiting /\ e = EdgeOf(e.from, e.to)
                               /\ Reason(diff, e.from, e.to)
  BY DEF EdgesOf, EdgeOf
<1>7. QED
  BY <1>1, <1>2, <1>4, <1>5, <1>6, RanksType

\* The edges that an operation waits for.
Waits(id) == {i \in Edges : g.edges[i].to = id /\ g.edges[i].from \notin ToSet(ordered)}

Arrow(x, y) == \E i \in Edges : g.edges[i].from = x /\ g.edges[i].to = y

\* Edges are counted with a natural number, which is 0 if there is none.
LEMMA CountFacts ==
    ASSUME GraphOf
    PROVE  /\ \A S \in SUBSET Edges :
                  /\ IsFiniteSet(S) /\ Cardinality(S) \in Nat
                  /\ Cardinality(S) = 0 <=> S = {}
                  /\ \A R \in SUBSET S : Cardinality(S \ R) = Cardinality(S) - Cardinality(R)
           /\ \A x, y : Times(x, y) \in Nat /\ (Times(x, y) > 0 <=> Arrow(x, y))
<1>1. IsFiniteSet(Edges)
  BY GraphFacts
<1>2. ASSUME NEW S \in SUBSET Edges
      PROVE  /\ IsFiniteSet(S) /\ Cardinality(S) \in Nat
             /\ Cardinality(S) = 0 <=> S = {}
             /\ \A R \in SUBSET S : Cardinality(S \ R) = Cardinality(S) - Cardinality(R)
  <2>1. IsFiniteSet(S)
    BY <1>1, FS_Subset
  <2>2. Cardinality(S) \in Nat /\ (Cardinality(S) = 0 <=> S = {})
    BY <2>1, FS_CardinalityType, FS_EmptySet
  <2>3. ASSUME NEW R \in SUBSET S
        PROVE  Cardinality(S \ R) = Cardinality(S) - Cardinality(R)
    <3>1. IsFiniteSet(R) /\ S \cap R = R
      BY <2>1, FS_Subset
    <3>2. QED
      BY <2>1, <3>1, FS_Difference
  <2>4. QED
    BY <2>1, <2>2, <2>3
<1>3. ASSUME NEW x, NEW y
      PROVE  Times(x, y) \in Nat /\ (Times(x, y) > 0 <=> Arrow(x, y))
  <2> DEFINE S == {i \in DOMAIN g.edges : g.edges[i] = [from |-> x, to |-> y]}
  <2>1. S \in SUBSET Edges
    BY DEF Edges
  <2>2. Times(x, y) = Cardinality(S)
    BY DEF Times
  <2>3. S # {} <=> Arrow(x, y)
    <3>1. \A i \in Edges : g.edges[i] = [from |-> x, to |-> y]
                           <=> g.edges[i].from = x /\ g.edges[i].to = y
      BY GraphFacts DEF EdgeOf
    <3>2. QED
      BY <3>1 DEF Arrow, Edges
  <2> HIDE DEF S
  <2>4. QED
    BY <1>2, <2>1, <2>2, <2>3
<1>4. QED
  BY <1>2, <1>3

\* What is taken is taken after all it waits for, and whatever nothing leads
\* to in the order of its rank.
Sorted ==
    /\ GraphOf
    /\ ordered \in Seq(Operations) /\ Distinct(ordered)
    /\ inDegree = [id \in Operations |-> Cardinality(Waits(id))]
    /\ queue = {id \in Operations \ ToSet(ordered) : inDegree[id] = 0}
    /\ \A i \in Edges : g.edges[i].to \in ToSet(ordered)
                        => Before(ordered, g.edges[i].from, g.edges[i].to)
    /\ \A x, y \in Operations :
           /\ \A i \in Edges : g.edges[i].to # x
           /\ g.rank[x] < g.rank[y] /\ y \in ToSet(ordered)
           => Before(ordered, x, y)

LEMMA SortedInit == OrderInit => Sorted
<1> SUFFICES ASSUME OrderInit PROVE Sorted
  OBVIOUS
<1> USE DEF OrderInit
<1>1. GraphOf
  BY DEF GraphOf
<1>2. ordered = << >> /\ ToSet(<< >>) = {}
  BY DEF ToSet
<1>3. ordered \in Seq(Operations) /\ Distinct(ordered)
  BY <1>2 DEF Distinct
<1>4. \A id : Waits(id) = {i \in DOMAIN g.edges : g.edges[i].to = id}
  BY <1>2 DEF Waits, Edges
<1>5. QED
  BY <1>1, <1>2, <1>3, <1>4 DEF Sorted

\* What is taken waits for nothing.
LEMMA TakenWaits ==
    ASSUME Sorted
    PROVE  /\ \A id \in Operations : /\ inDegree[id] = Cardinality(Waits(id))
                                     /\ inDegree[id] \in Nat
                                     /\ inDegree[id] = 0 <=> Waits(id) = {}
           /\ \A id \in ToSet(ordered) : id \in Operations /\ inDegree[id] = 0
           /\ CycleNodes = (Operations \ ToSet(ordered)) \ queue
<1>1. \A id \in Operations : /\ inDegree[id] = Cardinality(Waits(id))
                             /\ inDegree[id] \in Nat
                             /\ inDegree[id] = 0 <=> Waits(id) = {}
  <2>1. \A id : Waits(id) \in SUBSET Edges
    BY DEF Waits
  <2>2. GraphOf /\ \A id \in Operations : inDegree[id] = Cardinality(Waits(id))
    BY DEF Sorted
  <2>3. QED
    BY <2>1, <2>2, CountFacts
<1>2. \A id \in ToSet(ordered) : id \in Operations
  BY DEF Sorted, ToSet
<1>3. ASSUME NEW id \in ToSet(ordered) PROVE Waits(id) = {}
  <2>1. ASSUME NEW i \in Edges, g.edges[i].to = id PROVE g.edges[i].from \in ToSet(ordered)
    <3>1. Before(ordered, g.edges[i].from, id)
      BY <2>1 DEF Sorted
    <3>2. QED
      BY <3>1 DEF Before, ToSet
  <2>2. QED
    BY <2>1 DEF Waits
<1>4. \A id \in ToSet(ordered) : id \in Operations /\ inDegree[id] = 0
  BY <1>1, <1>2, <1>3
<1>5. queue = {id \in Operations \ ToSet(ordered) : inDegree[id] = 0}
  BY DEF Sorted
<1>6. \A id \in Operations : inDegree[id] > 0 <=> id \notin ToSet(ordered) /\ id \notin queue
  BY <1>1, <1>4, <1>5
<1>7. CycleNodes = (Operations \ ToSet(ordered)) \ queue
  BY <1>6 DEF CycleNodes
<1>8. QED
  BY <1>1, <1>4, <1>7

LEMMA FirstIsLeast ==
    ASSUME NEW ids, ids # {}, \A id \in ids : g.rank[id] \in Nat
    PROVE  First(ids) \in ids /\ \A other \in ids : g.rank[First(ids)] <= g.rank[other]
<1> DEFINE R == {g.rank[id] : id \in ids}
<1>1. R \in SUBSET Nat /\ R # {}
  OBVIOUS
<1> HIDE DEF R
<1>2. PICK m \in R : \A k \in R : ~ (k < m)
  BY <1>1, LeastExists
<1>3. PICK id \in ids : g.rank[id] = m
  BY DEF R
<1>4. \A other \in ids : g.rank[other] \in R
  BY DEF R
<1>5. \A other \in ids : g.rank[id] <= g.rank[other]
  BY <1>2, <1>3, <1>4
<1>6. QED
  BY <1>5 DEF First

LEMMA SortedTakeFirst ==
    ASSUME Sorted, TakeFirst
    PROVE  Sorted'
<1> DEFINE id == First(queue)
           left == [d \in Operations |-> inDegree[d] - Times(id, d)]
           out(d) == {i \in Edges : g.edges[i].from = id /\ g.edges[i].to = d}
<1>1. /\ queue # {} /\ ordered' = Append(ordered, id) /\ inDegree' = left
      /\ queue' = (queue \ {id}) \cup {d \in Operations : inDegree[d] > 0 /\ left[d] = 0}
      /\ diff' = diff /\ g' = g
  BY DEF TakeFirst, inputs
<1>2. /\ GraphOf /\ GraphOf' /\ Operations' = Operations /\ Edges' = Edges
  BY <1>1 DEF Sorted, GraphOf, Operations, Edges
<1>3. queue = {x \in Operations \ ToSet(ordered) : inDegree[x] = 0}
  BY DEF Sorted
<1>4. id \in queue /\ \A other \in queue : g.rank[id] <= g.rank[other]
  BY <1>1, <1>2, <1>3, FirstIsLeast, GraphFacts
<1> HIDE DEF id
<1>5. id \in Operations /\ id \notin ToSet(ordered) /\ inDegree[id] = 0
  BY <1>3, <1>4
<1>6. /\ ordered' \in Seq(Operations) /\ ToSet(ordered') = ToSet(ordered) \cup {id}
      /\ Distinct(ordered')
      /\ \A a, b : Before(ordered, a, b) => Before(ordered', a, b)
      /\ \A a \in ToSet(ordered) : Before(ordered', a, id)
  <2>1. ordered \in Seq(Operations) /\ Distinct(ordered)
    BY DEF Sorted
  <2>2. QED
    BY <1>1, <1>5, <2>1, AppendFacts
<1>7. ASSUME NEW d \in Operations
      PROVE  left[d] = Cardinality(Waits(d)')
  <2>1. Waits(d)' = Waits(d) \ out(d)
    BY <1>1, <1>2, <1>6 DEF Waits
  <2>2. out(d) \in SUBSET Waits(d) /\ Waits(d) \in SUBSET Edges
    BY <1>5 DEF Waits
  <2>3. Times(id, d) = Cardinality(out(d))
    <3>1. \A i \in Edges : g.edges[i] = [from |-> id, to |-> d]
                           <=> g.edges[i].from = id /\ g.edges[i].to = d
      BY <1>2, GraphFacts DEF EdgeOf
    <3>2. out(d) = {i \in DOMAIN g.edges : g.edges[i] = [from |-> id, to |-> d]}
      BY <3>1 DEF Edges
    <3>3. QED
      BY <3>2 DEF Times
  <2>4. inDegree[d] = Cardinality(Waits(d))
    BY TakenWaits
  <2> HIDE DEF out
  <2>5. Cardinality(Waits(d) \ out(d)) = Cardinality(Waits(d)) - Cardinality(out(d))
    BY <1>2, <2>2, CountFacts
  <2>6. QED
    BY <2>1, <2>3, <2>4, <2>5
<1>8. inDegree' = [d \in Operations' |-> Cardinality(Waits(d)')]
  BY <1>1, <1>2, <1>7
<1>9. queue' = {d \in Operations \ ToSet(ordered') : left[d] = 0}
  <2>1. ASSUME NEW d \in Operations, d \notin ToSet(ordered'), left[d] = 0
        PROVE  d \in queue'
    BY <1>1, <1>3, <1>6, <2>1, TakenWaits
  <2>2. ASSUME NEW d \in queue, d # id
        PROVE  d \in Operations /\ d \notin ToSet(ordered') /\ left[d] = 0
    <3>1. d \in Operations /\ d \notin ToSet(ordered) /\ inDegree[d] = 0
      BY <1>3, <2>2
    <3>2. Waits(d) = {}
      BY <3>1, TakenWaits
    <3>3. Waits(d)' = {}
      BY <1>1, <1>2, <1>6, <3>2 DEF Waits
    <3>4. left[d] = 0
      BY <1>2, <1>7, <3>1, <3>3, FS_EmptySet
    <3>5. QED
      BY <1>6, <2>2, <3>1, <3>4
  <2>3. ASSUME NEW d \in Operations, inDegree[d] > 0, left[d] = 0
        PROVE  d \notin ToSet(ordered')
    BY <1>5, <1>6, <2>3, TakenWaits
  <2> HIDE DEF left
  <2>4. QED
    BY <1>1, <2>1, <2>2, <2>3
<1>10. ASSUME NEW i \in Edges, g.edges[i].to \in ToSet(ordered')
       PROVE  Before(ordered', g.edges[i].from, g.edges[i].to)
  <2>1. CASE g.edges[i].to \in ToSet(ordered)
    BY <1>6, <2>1 DEF Sorted
  <2>2. CASE g.edges[i].to = id
    <3>1. Waits(id) = {}
      BY <1>5, TakenWaits
    <3>2. g.edges[i].from \in ToSet(ordered)
      BY <2>2, <3>1 DEF Waits
    <3>3. QED
      BY <1>6, <2>2, <3>2
  <2>3. QED
    BY <1>6, <1>10, <2>1, <2>2
<1>11. ASSUME NEW x \in Operations, NEW y \in Operations,
              \A i \in Edges : g.edges[i].to # x,
              g.rank[x] < g.rank[y], y \in ToSet(ordered')
       PROVE  Before(ordered', x, y)
  <2>1. CASE y \in ToSet(ordered)
    BY <1>6, <1>11, <2>1 DEF Sorted
  <2>2. CASE y = id
    <3>1. Waits(x) = {}
      BY <1>11 DEF Waits
    <3>2. inDegree[x] = 0
      BY <3>1, TakenWaits
    <3>3. g.rank[x] \in Nat /\ g.rank[id] \in Nat
      BY <1>2, <1>5, GraphFacts
    <3>4. x \in ToSet(ordered)
      BY <1>3, <1>4, <1>11, <2>2, <3>2, <3>3
    <3>5. QED
      BY <1>6, <2>2, <3>4
  <2>3. QED
    BY <1>6, <1>11, <2>1, <2>2
<1>12. QED
  <2> HIDE DEF left
  <2>1. queue' = {d \in Operations' \ ToSet(ordered') : inDegree'[d] = 0}
    BY <1>1, <1>2, <1>9
  <2>2. \A i \in Edges' : g'.edges[i].to \in ToSet(ordered')
                          => Before(ordered', g'.edges[i].from, g'.edges[i].to)
    BY <1>1, <1>2, <1>10
  <2>3. \A x, y \in Operations' :
            /\ \A i \in Edges' : g'.edges[i].to # x
            /\ g'.rank[x] < g'.rank[y] /\ y \in ToSet(ordered')
            => Before(ordered', x, y)
    BY <1>1, <1>2, <1>11
  <2>4. GraphOf' /\ ordered' \in Seq(Operations') /\ Distinct(ordered')
    BY <1>2, <1>6
  <2>5. QED
    BY <1>8, <2>1, <2>2, <2>3, <2>4 DEF Sorted

\* Nothing else touches what the sort has.
LEMMA SortedStays ==
    ASSUME Sorted, UNCHANGED <<inputs, inDegree, queue, ordered>>
    PROVE  Sorted'
  BY DEF Sorted, GraphOf, Operations, Edges, Waits, inputs

(***************************************************************************)
(* The search.                                                             *)
(***************************************************************************)

\* What a list of operations is that each lead to the next.
IsPath(s) == \A i \in DOMAIN s : i < Len(s) => Arrow(s[i], s[i + 1])

IsCycle(c) == \A i \in DOMAIN c : Times(c[i], IF i = Len(c) THEN c[1] ELSE c[i + 1]) > 0

Finished == visited \ recStack

\* As long as no cycle is reported, the recursion stack is the path; what is
\* finished leads only to what is finished, and any of it have one to which
\* none of them leads: there is no cycle among them.
NoneYet ==
    /\ recStack = ToSet(path)
    /\ \A x \in Finished, y \in CycleNodes : Arrow(x, y) => y \in Finished
    /\ \A S \in SUBSET Finished : S # {} => \E y \in S : \A x \in S : ~ Arrow(x, y)

Searching ==
    /\ pc \in {"sort", "cycles", "rest", "done"}
    /\ pc # "sort" => queue = {}
    /\ pc = "sort" => visited = {} /\ recStack = {} /\ path = << >> /\ cycles = {}
    /\ path \in Seq(CycleNodes) /\ Distinct(path) /\ IsPath(path)
    /\ ToSet(path) \subseteq visited /\ visited \subseteq CycleNodes
    /\ cycles = {} => NoneYet
    /\ \A c \in cycles : IsCycle(c)
    /\ pc \in {"rest", "done"} /\ CycleNodes # {} => cycles # {}

OrderInv == Sorted /\ Searching

LEMMA EmptyPath ==
    /\ ToSet(<< >>) = {} /\ Distinct(<< >>) /\ IsPath(<< >>)
    /\ \A T : << >> \in Seq(T)
  BY DEF ToSet, Distinct, IsPath

\* With nothing visited there is nothing to say.
Unvisited == visited = {} /\ recStack = {} /\ path = << >>

Blank ==
    /\ path \in Seq(CycleNodes) /\ Distinct(path) /\ IsPath(path)
    /\ ToSet(path) \subseteq visited /\ visited \subseteq CycleNodes
    /\ NoneYet

LEMMA UnvisitedIsBlank == Unvisited => Blank
  BY EmptyPath DEF Unvisited, Blank, NoneYet, Finished

\* What a step leaves alone with the graph and the sort.
LEMMA GraphStays ==
    ASSUME UNCHANGED <<inputs, inDegree>>
    PROVE  /\ CycleNodes' = CycleNodes
           /\ \A x, y : Arrow(x, y)' <=> Arrow(x, y)
           /\ \A c : IsCycle(c)' <=> IsCycle(c)
           /\ \A s : IsPath(s)' <=> IsPath(s)
<1>1. g' = g /\ inDegree' = inDegree
  BY DEF inputs
<1>2. CycleNodes' = CycleNodes
  BY <1>1 DEF CycleNodes, Operations
<1>3. \A x, y : Arrow(x, y)' <=> Arrow(x, y)
  BY <1>1 DEF Arrow, Edges
<1>4. \A c : IsCycle(c)' <=> IsCycle(c)
  BY <1>1 DEF IsCycle, Times
<1>5. \A s : IsPath(s)' <=> IsPath(s)
  BY <1>1 DEF IsPath, Arrow, Edges
<1>6. QED
  BY <1>2, <1>3, <1>4, <1>5

\* If the sort takes all, nothing is on a cycle.
LEMMA NothingLeft ==
    ASSUME Sorted, queue = {}, ~ (Len(ordered) < Cardinality(Operations))
    PROVE  CycleNodes = {}
<1> DEFINE taken == ToSet(ordered)
           n == Len(ordered)
<1>1. ordered \in Seq(Operations) /\ Distinct(ordered) /\ IsFiniteSet(Operations)
  BY GraphFacts DEF Sorted
<1>2. n \in Nat /\ DOMAIN ordered = 1 .. n
  BY <1>1
<1>3. taken \in SUBSET Operations
  BY <1>1, <1>2 DEF ToSet
<1>4. IsFiniteSet(taken) /\ Cardinality(taken) <= Cardinality(Operations)
      /\ (Cardinality(Operations) = Cardinality(taken) => Operations = taken)
  BY <1>1, <1>3, FS_Subset
<1> HIDE DEF n
<1>5. IsFiniteSet(1 .. n) /\ Cardinality(1 .. n) = n
  BY <1>2, FS_Interval
<1>6. ordered \in Injection(1 .. n, taken)
  <2>1. ordered \in [1 .. n -> taken]
    BY <1>1, <1>2 DEF ToSet
  <2>2. \A i, j \in 1 .. n : ordered[i] = ordered[j] => i = j
    BY <1>1, <1>2 DEF Distinct
  <2>3. QED
    BY <2>1, <2>2 DEF Injection, IsInjective
<1>7. n <= Cardinality(taken)
  BY <1>4, <1>5, <1>6, FS_Injection
<1>8. Cardinality(taken) \in Nat /\ Cardinality(Operations) \in Nat
  BY <1>1, <1>4, FS_CardinalityType
<1>9. Cardinality(Operations) = Cardinality(taken)
  <2> HIDE DEF taken, n
  <2>1. ~ (n < Cardinality(Operations))
    BY DEF n
  <2>2. QED
    BY <1>2, <1>4, <1>7, <1>8, <2>1
<1>10. QED
  BY <1>4, <1>9, TakenWaits

\* The edges that the search has before it.
LEMMA OpenFacts ==
    ASSUME GraphOf, Open # {}
    PROVE  /\ Neighbor \in CycleNodes /\ Arrow(Last(path), Neighbor)
           /\ Neighbor \in visited => Neighbor \in recStack
<1>1. Open \in SUBSET Nat
  BY GraphFacts DEF Open, Edges
<1>2. Min(Open) \in Open
  BY <1>1, MinIsIn
<1> DEFINE i == Min(Open)
<1>3. Neighbor = g.edges[i].to
  BY DEF Neighbor
<1> HIDE DEF i
<1>4. i \in Open
  BY <1>2 DEF i
<1>5. QED
  BY <1>3, <1>4 DEF Open, Arrow, Edges

LEMMA SearchingEnter ==
    ASSUME Sorted, Searching, pc = "cycles",
           NEW id \in CycleNodes \ visited, Enter(id),
           path # << >> => Arrow(Last(path), id)
    PROVE  Searching'
<1>1. /\ visited' = visited \cup {id} /\ recStack' = recStack \cup {id}
      /\ path' = Append(path, id) /\ cycles' = cycles /\ pc' = pc /\ queue' = queue
      /\ UNCHANGED <<inputs, inDegree>>
  BY DEF Enter
<1>2. /\ CycleNodes' = CycleNodes
      /\ \A x, y : Arrow(x, y)' <=> Arrow(x, y)
      /\ \A c : IsCycle(c)' <=> IsCycle(c)
      /\ \A s : IsPath(s)' <=> IsPath(s)
  BY <1>1, GraphStays
<1>3. path \in Seq(CycleNodes) /\ Distinct(path) /\ ToSet(path) \subseteq visited /\ IsPath(path)
  BY DEF Searching
<1>4. /\ path' \in Seq(CycleNodes) /\ Distinct(path')
      /\ ToSet(path') = ToSet(path) \cup {id}
  BY <1>1, <1>3, AppendFacts
<1>5. IsPath(path')
  <2> DEFINE n == Len(path)
             p == Append(path, id)
  <2>1. /\ n \in Nat /\ Len(p) = n + 1 /\ DOMAIN p = 1 .. n + 1
        /\ p[n + 1] = id /\ \A i \in 1 .. n : p[i] = path[i]
        /\ DOMAIN path = 1 .. n
    BY <1>3
  <2>2. n # 0 => path # << >>
    BY <1>3
  <2>3. Last(path) = path[n]
    BY DEF Last
  <2> HIDE DEF n, p
  <2>4. ASSUME NEW i \in 1 .. n + 1, i < n + 1 PROVE Arrow(p[i], p[i + 1])
    <3>1. CASE i = n
      <4>1. i \in 1 .. n /\ n # 0
        BY <2>1, <2>4, <3>1
      <4>2. p[i] = path[n] /\ p[i + 1] = id
        BY <2>1, <3>1, <4>1
      <4>3. Arrow(Last(path), id)
        BY <2>2, <4>1
      <4>4. QED
        BY <2>3, <4>2, <4>3
    <3>2. CASE i # n
      <4>1. i \in 1 .. n /\ i + 1 \in 1 .. n /\ i < n
        BY <2>1, <2>4, <3>2
      <4>2. p[i] = path[i] /\ p[i + 1] = path[i + 1]
        BY <2>1, <4>1
      <4>3. Arrow(path[i], path[i + 1])
        BY <1>3, <2>1, <4>1 DEF IsPath, n
      <4>4. QED
        BY <4>2, <4>3
    <3>3. QED
      BY <3>1, <3>2
  <2>5. QED
    BY <1>1, <2>1, <2>4 DEF IsPath, p
<1>6. ASSUME cycles = {} PROVE NoneYet'
  <2>1. NoneYet
    BY <1>6 DEF Searching
  <2>2. Finished' = Finished
    BY <1>1 DEF Finished
  <2>3. recStack' = ToSet(path')
    BY <1>1, <1>4, <2>1 DEF NoneYet
  <2>4. QED
    BY <1>2, <2>1, <2>2, <2>3 DEF NoneYet
<1>7. QED
  BY <1>1, <1>2, <1>3, <1>4, <1>5, <1>6 DEF Searching

LEMMA SearchingCloseCycle ==
    ASSUME Sorted, Searching, CloseCycle
    PROVE  Searching'
<1>1. /\ pc = "cycles" /\ path # << >> /\ Open # {} /\ Neighbor \in visited
      /\ cycles' = IF Neighbor \in ToSet(path) THEN cycles \cup {CycleTo(Neighbor)} ELSE cycles
      /\ path' = << >> /\ pc' = pc /\ queue' = queue
      /\ visited' = visited /\ recStack' = recStack
      /\ UNCHANGED <<inputs, inDegree>>
  BY DEF CloseCycle
<1>2. /\ CycleNodes' = CycleNodes
      /\ \A c : IsCycle(c)' <=> IsCycle(c)
      /\ \A s : IsPath(s)' <=> IsPath(s)
  BY <1>1, GraphStays
<1>3. /\ Arrow(Last(path), Neighbor) /\ Neighbor \in recStack
  BY <1>1, OpenFacts DEF Sorted
<1>4. path \in Seq(CycleNodes) /\ IsPath(path)
  BY DEF Searching
<1>5. ASSUME Neighbor \in ToSet(path) PROVE IsCycle(CycleTo(Neighbor))
  <2> DEFINE n == Len(path)
             k == CHOOSE i \in DOMAIN path : path[i] = Neighbor
             c == SubSeq(path, k, n)
  <2>1. k \in DOMAIN path /\ path[k] = Neighbor
    BY <1>5 DEF ToSet
  <2>2. CycleTo(Neighbor) = c
    BY DEF CycleTo
  <2> HIDE DEF k
  <2>3. n \in Nat /\ DOMAIN path = 1 .. n /\ k \in 1 .. n
    BY <1>4, <2>1
  <2>4. Len(c) = n - k + 1 /\ \A i \in 1 .. n - k + 1 : c[i] = path[k + i - 1]
    BY <1>4, <2>3
  <2>5. DOMAIN c = 1 .. n - k + 1
    BY <1>4, <2>3
  <2>6. Last(path) = path[n]
    BY DEF Last
  <2> HIDE DEF n, c
  <2>7. ASSUME NEW i \in 1 .. n - k + 1
        PROVE  Arrow(c[i], IF i = n - k + 1 THEN c[1] ELSE c[i + 1])
    <3>1. CASE i = n - k + 1
      <4>1. 1 \in 1 .. n - k + 1 /\ k + 1 - 1 = k /\ k + i - 1 = n
        BY <2>3, <3>1
      <4>2. c[1] = Neighbor /\ c[i] = Last(path)
        BY <2>1, <2>4, <2>6, <2>7, <4>1
      <4>3. QED
        BY <1>3, <3>1, <4>2
    <3>2. CASE i # n - k + 1
      <4> DEFINE j == k + i - 1
      <4>1. i + 1 \in 1 .. n - k + 1 /\ j \in 1 .. n /\ j < n /\ k + (i + 1) - 1 = j + 1
        BY <2>3, <2>7, <3>2
      <4>2. c[i] = path[j] /\ c[i + 1] = path[j + 1]
        BY <2>4, <2>7, <4>1
      <4>3. Arrow(path[j], path[j + 1])
        BY <1>4, <2>3, <4>1 DEF IsPath, n
      <4>4. QED
        BY <3>2, <4>2, <4>3
    <3>3. QED
      BY <3>1, <3>2
  <2>8. \A x, y : Times(x, y) > 0 <=> Arrow(x, y)
    BY CountFacts DEF Sorted
  <2>9. IsCycle(c)
    BY <2>4, <2>5, <2>7, <2>8 DEF IsCycle
  <2>10. QED
    BY <2>2, <2>9
<1>6. cycles' # {}
  <2>1. CASE cycles = {}
    <3>1. Neighbor \in ToSet(path)
      BY <1>3, <2>1 DEF Searching, NoneYet
    <3>2. QED
      BY <1>1, <3>1
  <2>2. CASE cycles # {}
    BY <1>1, <2>2
  <2>3. QED
    BY <2>1, <2>2
<1>7. \A c \in cycles' : IsCycle(c)
  BY <1>1, <1>5 DEF Searching
<1>8. QED
  BY <1>1, <1>2, <1>6, <1>7, EmptyPath DEF Searching

LEMMA SearchingBacktrack ==
    ASSUME Sorted, Searching, Backtrack
    PROVE  Searching'
<1> DEFINE last == Last(path)
           n == Len(path)
<1>1. /\ pc = "cycles" /\ path # << >> /\ Open = {}
      /\ recStack' = recStack \ {last} /\ path' = Front(path)
      /\ pc' = pc /\ queue' = queue /\ visited' = visited /\ cycles' = cycles
      /\ UNCHANGED <<inputs, inDegree>>
  BY DEF Backtrack
<1>2. /\ CycleNodes' = CycleNodes
      /\ \A x, y : Arrow(x, y)' <=> Arrow(x, y)
      /\ \A c : IsCycle(c)' <=> IsCycle(c)
      /\ \A s : IsPath(s)' <=> IsPath(s)
  BY <1>1, GraphStays
<1>3. path \in Seq(CycleNodes) /\ Distinct(path) /\ IsPath(path) /\ ToSet(path) \subseteq visited
  BY DEF Searching
<1>4. n \in Nat /\ n # 0 /\ DOMAIN path = 1 .. n /\ last = path[n] /\ n \in 1 .. n
  BY <1>1, <1>3 DEF Last
<1> DEFINE front == Front(path)
<1>5. /\ front \in Seq(CycleNodes) /\ Len(front) = n - 1 /\ DOMAIN front = 1 .. n - 1
      /\ \A i \in 1 .. n - 1 : front[i] = path[i]
  BY <1>3, <1>4 DEF Front
<1> HIDE DEF front, n, last
<1>6. \A i \in 1 .. n : i = n \/ i \in 1 .. n - 1
  BY <1>4
<1>7. \A i \in 1 .. n - 1 : i \in 1 .. n /\ i # n
  BY <1>4
<1>8. ToSet(front) = ToSet(path) \ {last}
  <2>1. \A i \in 1 .. n - 1 : path[i] # last
    BY <1>3, <1>4, <1>7 DEF Distinct
  <2>2. ToSet(front) = {path[i] : i \in 1 .. n - 1} /\ ToSet(path) = {path[i] : i \in 1 .. n}
    BY <1>4, <1>5 DEF ToSet
  <2>3. QED
    BY <1>4, <1>6, <1>7, <2>1, <2>2
<1>9. last \in ToSet(path) /\ last \in CycleNodes
  BY <1>3, <1>4 DEF ToSet
<1>10. Distinct(front)
  BY <1>3, <1>4, <1>5, <1>7 DEF Distinct
<1>11. IsPath(front)
  <2>1. SUFFICES ASSUME NEW i \in 1 .. n - 1, i < n - 1
                 PROVE  Arrow(front[i], front[i + 1])
    BY <1>5 DEF IsPath
  <2>2. i \in 1 .. n /\ i < n /\ i + 1 \in 1 .. n - 1
    BY <1>4, <2>1
  <2>3. Arrow(path[i], path[i + 1])
    BY <1>3, <1>4, <2>2 DEF IsPath, n
  <2>4. QED
    BY <1>5, <2>1, <2>2, <2>3
<1>12. ASSUME cycles = {} PROVE NoneYet'
  <2>1. NoneYet
    BY <1>12 DEF Searching
  <2>2. recStack' = ToSet(front) /\ last \in recStack /\ last \in visited
    BY <1>1, <1>3, <1>8, <1>9, <2>1 DEF NoneYet
  <2>3. Finished' = Finished \cup {last} /\ last \notin Finished
    BY <1>1, <2>2 DEF Finished
  <2>4. ASSUME NEW y \in CycleNodes, Arrow(last, y) PROVE y \in Finished
    BY <1>1, <2>4 DEF Open, Arrow, Edges, Finished, last
  <2>5. \A x \in Finished, y \in CycleNodes : Arrow(x, y) => y \in Finished
    BY <2>1 DEF NoneYet
  <2>6. \A x \in Finished', y \in CycleNodes : Arrow(x, y) => y \in Finished'
    BY <2>3, <2>4, <2>5
  <2>7. ASSUME NEW S \in SUBSET Finished', S # {}
        PROVE  \E y \in S : \A x \in S : ~ Arrow(x, y)
    <3>1. CASE last \in S
      <4>1. \A x \in S : ~ Arrow(x, last)
        BY <1>9, <2>3, <2>4, <2>5, <2>7
      <4>2. QED
        BY <3>1, <4>1
    <3>2. CASE last \notin S
      <4>1. S \in SUBSET Finished
        BY <2>3, <2>7, <3>2
      <4>2. QED
        BY <2>1, <2>7, <4>1 DEF NoneYet
    <3>3. QED
      BY <3>1, <3>2
  <2>8. QED
    BY <1>1, <1>2, <2>2, <2>6, <2>7 DEF NoneYet, front
<1>13. QED
  BY <1>1, <1>2, <1>3, <1>5, <1>8, <1>10, <1>11, <1>12 DEF Searching, front

LEMMA SearchingAllVisited ==
    ASSUME Sorted, Searching, AllVisited
    PROVE  Searching'
<1>1. /\ pc = "cycles" /\ path = << >> /\ CycleNodes \subseteq visited /\ pc' = "rest"
      /\ visited' = {} /\ recStack' = {} /\ path' = path /\ cycles' = cycles /\ queue' = queue
      /\ UNCHANGED <<inputs, inDegree>>
  BY DEF AllVisited
<1>2. CycleNodes' = CycleNodes /\ \A c : IsCycle(c)' <=> IsCycle(c)
  BY <1>1, GraphStays
<1>3. ASSUME cycles = {} PROVE CycleNodes = {}
  <2>1. NoneYet /\ queue = {} /\ visited \subseteq CycleNodes
    BY <1>1, <1>3 DEF Searching
  <2>2. Finished = CycleNodes
    BY <1>1, <2>1, EmptyPath DEF Finished, NoneYet
  <2>3. SUFFICES ASSUME CycleNodes # {} PROVE FALSE
    OBVIOUS
  <2>4. PICK y \in CycleNodes : \A x \in CycleNodes : ~ Arrow(x, y)
    BY <2>1, <2>2, <2>3 DEF NoneYet
  <2>5. CycleNodes = Operations \ ToSet(ordered)
    BY <2>1, TakenWaits
  <2>6. Waits(y) # {}
    <3>1. y \in Operations /\ inDegree[y] > 0
      BY DEF CycleNodes
    <3>2. QED
      BY <3>1, TakenWaits
  <2>7. PICK i \in Edges : g.edges[i].to = y /\ g.edges[i].from \notin ToSet(ordered)
    BY <2>6 DEF Waits
  <2>8. g.edges[i].from \in CycleNodes
    BY <2>5, <2>7, GraphFacts DEF Sorted
  <2>9. QED
    BY <2>4, <2>7, <2>8 DEF Arrow
<1>4. Unvisited'
  BY <1>1 DEF Unvisited
<1>5. Blank'
  BY <1>4, UnvisitedIsBlank, PTL
<1>6. QED
  BY <1>1, <1>2, <1>3, <1>5 DEF Searching, Blank

LEMMA SearchingInit == OrderInit => Searching
<1> SUFFICES ASSUME OrderInit PROVE Searching
  OBVIOUS
<1>1. visited = {} /\ recStack = {} /\ path = << >> /\ cycles = {} /\ pc = "sort"
  BY DEF OrderInit
<1>2. QED
  BY <1>1, UnvisitedIsBlank DEF Searching, Unvisited, Blank

LEMMA OrderInvStep == OrderInv /\ [OrderNext]_orderVars => OrderInv'
<1> SUFFICES ASSUME Sorted, Searching, [OrderNext]_orderVars
             PROVE  Sorted' /\ Searching'
  BY DEF OrderInv
<1>1. CASE TakeFirst
  <2>1. pc = "sort" /\ pc' = pc /\ UNCHANGED search
    BY <1>1 DEF TakeFirst
  <2>2. Unvisited' /\ cycles' = {}
    BY <2>1 DEF Searching, search, Unvisited
  <2>3. Blank'
    BY <2>2, UnvisitedIsBlank, PTL
  <2>4. QED
    BY <1>1, <2>1, <2>2, <2>3, SortedTakeFirst DEF Searching, Unvisited, Blank
<1>2. CASE QueueEmpty
  <2>1. /\ pc = "sort" /\ queue = {} /\ queue' = queue
        /\ pc' = IF Len(ordered) < Cardinality(Operations) THEN "cycles" ELSE "done"
        /\ UNCHANGED <<inputs, inDegree, queue, ordered>> /\ UNCHANGED search
    BY <1>2 DEF QueueEmpty
  <2>2. Sorted'
    BY <2>1, SortedStays
  <2>3. Unvisited' /\ cycles' = {}
    BY <2>1 DEF Searching, search, Unvisited
  <2>4. Blank'
    BY <2>3, UnvisitedIsBlank, PTL
  <2>5. pc' = "done" => CycleNodes' = {}
    BY <2>1, NothingLeft, GraphStays
  <2>6. QED
    BY <2>1, <2>2, <2>3, <2>4, <2>5 DEF Searching, Unvisited, Blank
<1>3. CASE DetectCycles
  <2>1. UNCHANGED <<inputs, inDegree, queue, ordered>>
    BY <1>3 DEF DetectCycles, VisitRoot, VisitNeighbor, Enter, CloseCycle, Backtrack, AllVisited
  <2>2. Sorted'
    BY <2>1, SortedStays
  <2>3. CASE VisitRoot
    BY <2>2, <2>3, SearchingEnter DEF VisitRoot
  <2>4. CASE VisitNeighbor
    <3>1. Neighbor \in CycleNodes /\ Arrow(Last(path), Neighbor)
      BY <2>4, OpenFacts DEF VisitNeighbor, Sorted
    <3>2. pc = "cycles" /\ Neighbor \notin visited /\ Enter(Neighbor)
      BY <2>4 DEF VisitNeighbor
    <3> HIDE DEF Neighbor
    <3>3. QED
      BY <2>2, <3>1, <3>2, SearchingEnter
  <2>5. CASE CloseCycle
    BY <2>2, <2>5, SearchingCloseCycle
  <2>6. CASE Backtrack
    BY <2>2, <2>6, SearchingBacktrack
  <2>7. CASE AllVisited
    BY <2>2, <2>7, SearchingAllVisited
  <2>8. QED
    BY <1>3, <2>3, <2>4, <2>5, <2>6, <2>7 DEF DetectCycles
<1>4. CASE AddRest
  <2>1. /\ pc = "rest" /\ pc' = "done"
        /\ UNCHANGED <<inputs, inDegree, queue, ordered>> /\ UNCHANGED search
    BY <1>4 DEF AddRest
  <2>2. Sorted'
    BY <2>1, SortedStays
  <2>3. QED
    BY <2>1, <2>2, GraphStays DEF Searching, NoneYet, Finished, search
<1>5. CASE UNCHANGED orderVars
  <2>1. UNCHANGED <<inputs, inDegree, queue, ordered>> /\ UNCHANGED search /\ pc' = pc
    BY <1>5 DEF orderVars
  <2>2. Sorted'
    BY <2>1, SortedStays
  <2>3. QED
    BY <2>1, <2>2, GraphStays DEF Searching, NoneYet, Finished, search
<1>6. QED
  BY <1>1, <1>2, <1>3, <1>4, <1>5 DEF OrderNext

\* In every state, what the sort has taken is in an order that its edges and
\* ranks allow, and the search knows a cycle or that there is none in what it
\* has finished (TopologicalSort and detectCycles, ordering.go).
THEOREM OrderInvariant == OrderSpec => []OrderInv
<1>1. OrderInit => OrderInv
  BY SortedInit, SearchingInit DEF OrderInv
<1>2. QED
  BY <1>1, OrderInvStep, PTL DEF OrderSpec

\* CyclesAreReported, for any differences: if the sort leaves operations out,
\* detectCycles reports a cycle, although its searches run into what earlier
\* ones left on the recursion stack; and each that it reports is one.
THEOREM CyclesAreReportedHolds == OrderSpec => []CyclesAreReported
<1>1. OrderInv => CyclesAreReported
  BY DEF OrderInv, Searching, CyclesAreReported, IsCycle
<1>2. QED
  BY <1>1, OrderInvariant, PTL

(***************************************************************************)
(* What must precede does.                                                 *)
(***************************************************************************)

Indexes(d) == d.addedIndexes \o d.newIndexes

ForeignKeys(d) == d.addedForeignKeys \o d.newForeignKeys

Create(t) == TableID("create_table", t)

\* The pairs of MustPrecede, one by one.
LEMMA MustPrecedeCases ==
    ASSUME NEW d, NEW p \in MustPrecede(d)
    PROVE  \/ \E f : /\ Has(d.removedForeignKeys, f)
                     /\ p = <<Part("drop_fk", f), TableID("drop_table", f.references)>>
           \/ \E i, c : /\ Has(d.removedIndexes, i) /\ Has(d.removedColumns, c)
                        /\ p = <<Part("drop_idx", i), Part("drop_col", c)>>
           \/ \E o : Has(Indexes(d), o) /\ p = <<Create(o.table), Part("add_idx", o)>>
           \/ \E o : Has(ForeignKeys(d), o) /\ p = <<Create(o.table), Part("add_fk", o)>>
           \/ \E o : Has(ForeignKeys(d), o) /\ p = <<Create(o.references), Part("add_fk", o)>>
           \/ \E o, c : /\ Has(Indexes(d), o) /\ Has(o.columns, c)
                        /\ p = <<ID("add_col", o.table, c), Part("add_idx", o)>>
           \/ \E o, c : /\ Has(ForeignKeys(d), o) /\ Has(o.columns, c)
                        /\ p = <<ID("add_col", o.table, c), Part("add_fk", o)>>
           \/ \E f : /\ Has(d.newForeignKeys, f) /\ f.references # f.table
                     /\ p = <<Create(f.references), Create(f.table)>>
<1>1. \A s, x : x \in ToSet(s) <=> Has(s, x)
  BY HasIsIn
<1> DEFINE S1 == {<<Part("drop_fk", f), TableID("drop_table", f.references)>> :
                      f \in ToSet(d.removedForeignKeys)}
           S2 == {<<Part("drop_idx", q[1]), Part("drop_col", q[2])>> :
                      q \in {r \in ToSet(d.removedIndexes) \X ToSet(d.removedColumns) :
                                 r[1].table = r[2].table /\ r[2].name \in ToSet(r[1].columns)}}
           S3 == {<<Create(o.table), Part("add_idx", o)>> : o \in ToSet(Indexes(d))}
           S4 == {<<Create(o.table), Part("add_fk", o)>> : o \in ToSet(ForeignKeys(d))}
           S5 == {<<Create(f.references), Part("add_fk", f)>> : f \in ToSet(ForeignKeys(d))}
           S6 == UNION {{<<ID("add_col", o.table, c), Part("add_idx", o)>> :
                             c \in ToSet(o.columns)} : o \in ToSet(Indexes(d))}
           S7 == UNION {{<<ID("add_col", o.table, c), Part("add_fk", o)>> :
                             c \in ToSet(o.columns)} : o \in ToSet(ForeignKeys(d))}
           S8 == {<<Create(f.references), Create(f.table)>> :
                      f \in {h \in ToSet(d.newForeignKeys) : h.references # h.table}}
<1>2. MustPrecede(d) = S1 \cup S2 \cup S3 \cup S4 \cup S5 \cup S6 \cup S7 \cup S8
  BY DEF MustPrecede, Indexes, ForeignKeys, Create
<1>3. CASE p \in S1
  BY <1>1, <1>3
<1>4. CASE p \in S2
  BY <1>1, <1>4
<1>5. CASE p \in S3
  BY <1>1, <1>5
<1>6. CASE p \in S4
  BY <1>1, <1>6
<1>7. CASE p \in S5
  BY <1>1, <1>7
<1>8. CASE p \in S6
  BY <1>1, <1>8
<1>9. CASE p \in S7
  BY <1>1, <1>9
<1>10. CASE p \in S8
  BY <1>1, <1>10
<1> HIDE DEF S1, S2, S3, S4, S5, S6, S7, S8
<1>11. QED
  BY <1>2, <1>3, <1>4, <1>5, <1>6, <1>7, <1>8, <1>9, <1>10

\* Of the kinds of two operations, the first comes earlier, and no edge leads to it.
Earlier(x, y) == x[1] \notin Waiting /\ Place(x) < Place(y)

\* The places of identifiers.
LEMMA Kinds ==
    /\ \A x \in IDWords, y \in IDWords :
           \A t, o, u, c \in Name :
               x \notin Waiting /\ PlaceOf(x) < PlaceOf(y)
               => Earlier(ID(x, t, o), ID(y, u, c))
    /\ PlaceOf("drop_fk") = 1 /\ PlaceOf("drop_idx") = 2 /\ PlaceOf("drop_col") = 3
    /\ PlaceOf("drop_table") = 4 /\ PlaceOf("add_col") = 6 /\ PlaceOf("add_idx") = 8
    /\ PlaceOf("add_fk") = 9
<1>1. \A x \in IDWords, t, o \in Name : ID(x, t, o)[1] = x
  BY IDType
<1>2. \A x \in IDWords, y \in IDWords :
          \A t, o, u, c \in Name :
              x \notin Waiting /\ PlaceOf(x) < PlaceOf(y)
              => Earlier(ID(x, t, o), ID(y, u, c))
  BY <1>1 DEF Earlier, Place
<1>3. /\ PlaceOf("drop_fk") = 1 /\ PlaceOf("drop_idx") = 2 /\ PlaceOf("drop_col") = 3
      /\ PlaceOf("drop_table") = 4 /\ PlaceOf("add_col") = 6 /\ PlaceOf("add_idx") = 8
      /\ PlaceOf("add_fk") = 9
  BY DEF PlaceOf
<1>4. QED
  BY <1>2, <1>3

\* Whatever must precede, and is there, either has an edge or comes earlier.
LEMMA Precedes ==
    ASSUME NEW d \in Diffs, NEW p \in MustPrecede(d), p[1] \in Made(d)
    PROVE  Leads(d, p[1], p[2]) \/ Earlier(p[1], p[2])
<1>1. << >> \in Name
  BY DEF Name
<1>2. /\ \A o : Has(Indexes(d), o) <=> Has(d.addedIndexes, o) \/ Has(d.newIndexes, o)
      /\ \A o : Has(ForeignKeys(d), o) <=> Has(d.addedForeignKeys, o) \/ Has(d.newForeignKeys, o)
  BY DiffType, HasPut DEF Indexes, ForeignKeys
<1>3. \A s, T, x : s \in Seq(T) /\ Has(s, x) => x \in T
  BY DEF Has
<1>4. /\ \A o : Has(Indexes(d), o) => o \in OnColumns
      /\ \A o : Has(ForeignKeys(d), o) => o \in Referring
      /\ \A o : Has(d.removedIndexes, o) => o \in OnColumns
      /\ \A o : Has(d.removedColumns, o) => o \in Named
      /\ \A o : Has(d.removedForeignKeys, o) => o \in Referring
  BY <1>2, <1>3, DiffType
<1>5. CASE \E f : /\ Has(d.removedForeignKeys, f)
                  /\ p = <<Part("drop_fk", f), TableID("drop_table", f.references)>>
  <2>1. PICK f : /\ Has(d.removedForeignKeys, f)
                 /\ p = <<Part("drop_fk", f), TableID("drop_table", f.references)>>
    BY <1>5
  <2>2. f.table \in Name /\ f.name \in Name /\ f.references \in Name
    BY <1>4, <2>1 DEF Referring
  <2>3. Earlier(Part("drop_fk", f), TableID("drop_table", f.references))
    BY <1>1, <2>2, Kinds DEF Part, TableID, IDWords, Waiting
  <2>4. QED
    BY <2>1, <2>3
<1>6. CASE \E i, c : /\ Has(d.removedIndexes, i) /\ Has(d.removedColumns, c)
                     /\ p = <<Part("drop_idx", i), Part("drop_col", c)>>
  <2>1. PICK i, c : /\ Has(d.removedIndexes, i) /\ Has(d.removedColumns, c)
                    /\ p = <<Part("drop_idx", i), Part("drop_col", c)>>
    BY <1>6
  <2>2. i.table \in Name /\ i.name \in Name /\ c.table \in Name /\ c.name \in Name
    BY <1>4, <2>1 DEF OnColumns, Named
  <2>3. Earlier(Part("drop_idx", i), Part("drop_col", c))
    BY <2>2, Kinds DEF Part, IDWords, Waiting
  <2>4. QED
    BY <2>1, <2>3
<1>7. CASE \E o : Has(Indexes(d), o) /\ p = <<Create(o.table), Part("add_idx", o)>>
  <2>1. PICK o : Has(Indexes(d), o) /\ p = <<Create(o.table), Part("add_idx", o)>>
    BY <1>7
  <2>2. Has(d.added, o.table)
    <3>1. o.table \in Name
      BY <1>4, <2>1 DEF OnColumns
    <3>2. TableID("create_table", o.table) \in Made(d)
      BY <2>1 DEF Create
    <3>3. QED
      BY <3>1, <3>2, MadeHas
  <2>3. Has(d.newIndexes, o)
    BY <1>2, <2>1, <2>2, DiffType
  <2>4. QED
    BY <2>1, <2>3, GraphType DEF Create
<1>8. CASE \E o : Has(ForeignKeys(d), o) /\ p = <<Create(o.table), Part("add_fk", o)>>
  <2>1. PICK o : Has(ForeignKeys(d), o) /\ p = <<Create(o.table), Part("add_fk", o)>>
    BY <1>8
  <2>2. Has(d.added, o.table)
    <3>1. o.table \in Name
      BY <1>4, <2>1 DEF Referring
    <3>2. TableID("create_table", o.table) \in Made(d)
      BY <2>1 DEF Create
    <3>3. QED
      BY <3>1, <3>2, MadeHas
  <2>3. Has(d.newForeignKeys, o)
    BY <1>2, <2>1, <2>2, DiffType
  <2>4. QED
    BY <2>1, <2>3, GraphType DEF Create
<1>9. CASE \E o : Has(ForeignKeys(d), o) /\ p = <<Create(o.references), Part("add_fk", o)>>
  <2>1. PICK o : Has(ForeignKeys(d), o) /\ p = <<Create(o.references), Part("add_fk", o)>>
    BY <1>9
  <2>2. TableID("create_table", o.references) \in Made(d)
    BY <2>1 DEF Create
  <2>3. QED
    BY <1>2, <2>1, <2>2, GraphType DEF Create
<1>10. CASE \E o, c : /\ Has(Indexes(d), o) /\ Has(o.columns, c)
                      /\ p = <<ID("add_col", o.table, c), Part("add_idx", o)>>
  <2>1. PICK o, c : /\ Has(Indexes(d), o) /\ Has(o.columns, c)
                    /\ p = <<ID("add_col", o.table, c), Part("add_idx", o)>>
    BY <1>10
  <2>2. o.table \in Name /\ o.name \in Name /\ o.columns \in Seq(Name)
    BY <1>4, <2>1 DEF OnColumns
  <2>3. c \in Name
    BY <1>3, <2>1, <2>2
  <2>4. Earlier(ID("add_col", o.table, c), Part("add_idx", o))
    BY <2>2, <2>3, Kinds DEF Part, IDWords, Waiting
  <2>5. QED
    BY <2>1, <2>4
<1>11. CASE \E o, c : /\ Has(ForeignKeys(d), o) /\ Has(o.columns, c)
                      /\ p = <<ID("add_col", o.table, c), Part("add_fk", o)>>
  <2>1. PICK o, c : /\ Has(ForeignKeys(d), o) /\ Has(o.columns, c)
                    /\ p = <<ID("add_col", o.table, c), Part("add_fk", o)>>
    BY <1>11
  <2>2. o.table \in Name /\ o.name \in Name /\ o.columns \in Seq(Name)
    BY <1>4, <2>1 DEF Referring
  <2>3. c \in Name
    BY <1>3, <2>1, <2>2
  <2>4. Earlier(ID("add_col", o.table, c), Part("add_fk", o))
    BY <2>2, <2>3, Kinds DEF Part, IDWords, Waiting
  <2>5. QED
    BY <2>1, <2>4
<1>12. CASE \E f : /\ Has(d.newForeignKeys, f) /\ f.references # f.table
                   /\ p = <<Create(f.references), Create(f.table)>>
  <2>1. PICK f : /\ Has(d.newForeignKeys, f) /\ f.references # f.table
                 /\ p = <<Create(f.references), Create(f.table)>>
    BY <1>12
  <2>2. TableID("create_table", f.references) \in Made(d)
    BY <2>1 DEF Create
  <2>3. QED
    BY <2>1, <2>2, GraphType DEF Create
<1>13. QED
  BY <1>5, <1>6, <1>7, <1>8, <1>9, <1>10, <1>11, <1>12, MustPrecedeCases

\* NeedsComeFirst, for any differences: an operation that the sort takes comes
\* after all it needs, whether edges say so, which BuildDependencyGraph has
\* only for some of what must precede, or the types and priorities that
\* operations are generated in do.
THEOREM NeedsComeFirstHolds == OrderSpec => []NeedsComeFirst
<1>1. ASSUME Sorted PROVE NeedsComeFirst
  <2>1. GraphOf /\ diff \in Diffs /\ g = Graph(diff) /\ Distinct(ordered)
    BY <1>1 DEF Sorted, GraphOf
  <2>2. ASSUME NEW x, NEW y, Before(ordered, x, y)
        PROVE  x \in ToSet(ordered) /\ Position(x) < Position(y)
    <3>1. PICK i \in DOMAIN ordered, j \in DOMAIN ordered :
                   i < j /\ ordered[i] = x /\ ordered[j] = y
      BY <2>2 DEF Before
    <3>2. Position(x) = i
      BY <2>1, <3>1 DEF Position, Distinct
    <3>3. Position(y) = j
      BY <2>1, <3>1 DEF Position, Distinct
    <3>4. QED
      BY <3>1, <3>2, <3>3 DEF ToSet
  <2>3. ASSUME NEW p \in MustPrecede(diff), p[1] \in Operations, p[2] \in ToSet(ordered)
        PROVE  Before(ordered, p[1], p[2])
    <3>1. p[1] \in Made(diff) /\ p[2] \in Operations
      BY <1>1, <2>1, <2>3, GraphFacts, TakenWaits
    <3>2. CASE Leads(diff, p[1], p[2])
      <4>1. PICK i \in Edges : g.edges[i] = EdgeOf(p[1], p[2])
        BY <2>1, <3>2 DEF Leads, Has, Edges
      <4>2. g.edges[i].from = p[1] /\ g.edges[i].to = p[2]
        BY <4>1 DEF EdgeOf
      <4>3. QED
        BY <1>1, <2>3, <4>2 DEF Sorted
    <3>3. CASE Earlier(p[1], p[2])
      <4>1. g.rank[p[1]] < g.rank[p[2]]
        BY <2>1, <2>3, <3>1, <3>3, GraphFacts DEF Earlier
      <4>2. \A i \in Edges : g.edges[i].to # p[1]
        BY <2>1, <3>3, GraphFacts DEF Earlier
      <4>3. QED
        BY <1>1, <2>3, <3>1, <4>1, <4>2 DEF Sorted
    <3>4. QED
      BY <2>1, <3>1, <3>2, <3>3, Precedes
  <2>4. QED
    BY <2>2, <2>3 DEF NeedsComeFirst
<1>2. QED
  BY <1>1, OrderInvariant, PTL DEF OrderInv

(***************************************************************************)
(* What waits for a cycle.                                                 *)
(***************************************************************************)

\* What a table references it leads to, and so it does where that one leads.
LEMMA ReachedFacts ==
    ASSUME NEW d, NEW t
    PROVE  /\ Reached(d, t) \subseteq ToSet(d.added)
           /\ Referenced(d, t) \subseteq Reached(d, t)
           /\ \A u \in Reached(d, t) : Reached(d, u) \subseteq Reached(d, t)
<1>1. Reached(d, t) \subseteq ToSet(d.added)
  BY DEF Reached
<1>2. Referenced(d, t) \subseteq ToSet(d.added)
  BY DEF Referenced
<1>3. Referenced(d, t) \subseteq Reached(d, t)
  BY <1>2 DEF Reached
<1>4. ASSUME NEW u \in Reached(d, t), NEW w \in Reached(d, u)
      PROVE  w \in Reached(d, t)
  <2>1. w \in ToSet(d.added)
    BY <1>4 DEF Reached
  <2>2. ASSUME NEW S \in SUBSET ToSet(d.added),
               \A v \in {t} \cup S : Referenced(d, v) \subseteq S
        PROVE  w \in S
    <3>1. u \in S
      BY <1>4, <2>2 DEF Reached
    <3>2. \A v \in {u} \cup S : Referenced(d, v) \subseteq S
      BY <2>2, <3>1
    <3>3. QED
      BY <1>4, <3>2 DEF Reached
  <2>3. QED
    BY <2>1, <2>2 DEF Reached
<1>5. QED
  BY <1>1, <1>3, <1>4

\* Where each of some new tables references another of them, each leads to a cycle.
LEMMA StuckTogether ==
    ASSUME NEW d \in Diffs, NEW left \in SUBSET ToSet(d.added),
           \A t \in left : Referenced(d, t) \cap left # {},
           NEW x \in left
    PROVE  x \in Stuck(d)
<1> DEFINE leads(t) == Reached(d, t) \cap left
           Numbers == {n \in Nat : \E y \in leads(x) : n = Cardinality(leads(y))}
<1>1. ASSUME NEW t \in left PROVE leads(t) # {}
  BY ReachedFacts
<1>2. ASSUME NEW t PROVE /\ IsFiniteSet(leads(t)) /\ Cardinality(leads(t)) \in Nat
                         /\ leads(t) \subseteq left
  <2>1. IsFiniteSet(ToSet(d.added))
    <3>1. d.added \in Seq(Name)
      BY DiffType
    <3>2. DOMAIN d.added = 1 .. Len(d.added) /\ Len(d.added) \in Nat
      BY <3>1
    <3>3. IsFiniteSet(DOMAIN d.added)
      BY <3>2, FS_Interval
    <3>4. d.added \in Surjection(DOMAIN d.added, ToSet(d.added))
      BY <3>1 DEF Surjection, ToSet
    <3>5. QED
      BY <3>3, <3>4, FS_Surjection
  <2>2. leads(t) \subseteq ToSet(d.added) /\ leads(t) \subseteq left
    OBVIOUS
  <2> HIDE DEF leads
  <2>3. QED
    BY <2>1, <2>2, FS_Subset, FS_CardinalityType
<1>3. ASSUME NEW t, NEW u \in leads(t)
      PROVE  u \in Reached(d, t) /\ leads(u) \subseteq leads(t)
  BY <1>3, ReachedFacts
<1>4. PICK y0 \in leads(x) : TRUE
  BY <1>1
<1> HIDE DEF leads
<1>5. Cardinality(leads(y0)) \in Numbers
  BY <1>2, <1>4
<1>6. Numbers \in SUBSET Nat /\ Numbers # {}
  BY <1>5
<1>7. \A n \in Numbers : \E y \in leads(x) : n = Cardinality(leads(y))
  OBVIOUS
<1>8. \A y \in leads(x) : Cardinality(leads(y)) \in Numbers
  BY <1>2
<1> HIDE DEF Numbers
<1>9. PICK n \in Numbers : \A m \in Numbers : ~ (m < n)
  BY <1>6, LeastExists
<1>10. PICK y \in leads(x) : n = Cardinality(leads(y))
  BY <1>7
<1>11. y \in left
  BY <1>2
<1>12. PICK z \in leads(y) : TRUE
  BY <1>1, <1>11
<1>13. z \in leads(x) /\ leads(z) \subseteq leads(y)
  BY <1>3, <1>10, <1>12
<1>14. leads(z) = leads(y)
  <2>1. Cardinality(leads(z)) \in Numbers
    BY <1>8, <1>13
  <2>2. ~ (Cardinality(leads(z)) < Cardinality(leads(y)))
    BY <1>9, <1>10, <2>1
  <2>3. IsFiniteSet(leads(y)) /\ Cardinality(leads(y)) \in Nat /\ Cardinality(leads(z)) \in Nat
    BY <1>2
  <2>4. Cardinality(leads(z)) <= Cardinality(leads(y))
    BY <1>13, <2>3, FS_Subset
  <2>5. Cardinality(leads(z)) = Cardinality(leads(y))
    BY <2>2, <2>3, <2>4
  <2>6. QED
    BY <1>13, <2>3, <2>5, FS_Subset
<1>15. z \in Reached(d, z)
  BY <1>3, <1>12, <1>14
<1>16. z \in Reached(d, x)
  BY <1>3, <1>13
<1>17. x \in ToSet(d.added)
  OBVIOUS
<1>18. QED
  BY <1>15, <1>16, <1>17 DEF Stuck

\* The edges from the creation of a table are those to what waits for it.
LEMMA ArrowsFromTables ==
    ASSUME GraphOf, NEW t \in ToSet(diff.added)
    PROVE  /\ t \in Name /\ Create(t) \in Operations
           /\ \A y : Arrow(Create(t), y) <=> y \in For(diff, t)
<1>1. diff \in Diffs /\ g = Graph(diff)
  BY DEF GraphOf
<1>2. diff.added \in Seq(Name) /\ Has(diff.added, t)
  BY <1>1, DiffType, HasIsIn
<1>3. t \in Name
  BY <1>2 DEF Has
<1>4. Create(t) \in Made(diff)
  BY <1>1, <1>2, <1>3, MadeHas DEF Create
<1>5. Create(t) \in Operations
  BY <1>4, GraphFacts
<1>6. Create(t)[1] \in Waiting
  BY <1>3, WaitingType DEF Create
<1>7. ASSUME NEW y, Arrow(Create(t), y) PROVE y \in For(diff, t)
  <2>1. Reason(diff, Create(t), y)
    BY <1>7, GraphFacts DEF Arrow
  <2>2. PICK u \in ToSet(diff.added) : Create(t) = TableID("create_table", u) /\ y \in For(diff, u)
    BY <1>6, <2>1 DEF Reason
  <2>3. u \in Name
    BY <1>2, <2>2, HasIsIn DEF Has
  <2>4. t = u
    BY <1>3, <2>2, <2>3, TableIDIsUnique DEF Create, IDWords
  <2>5. QED
    BY <2>2, <2>4
<1>8. ASSUME NEW y, Leads(diff, Create(t), y) PROVE Arrow(Create(t), y)
  <2>1. PICK i \in Edges : g.edges[i] = EdgeOf(Create(t), y)
    BY <1>1, <1>8 DEF Leads, Has, Edges
  <2>2. g.edges[i].from = Create(t) /\ g.edges[i].to = y
    BY <2>1 DEF EdgeOf
  <2>3. QED
    BY <2>2 DEF Arrow
<1>9. ASSUME NEW y \in For(diff, t) PROVE Leads(diff, Create(t), y)
  <2>1. CASE \E f : /\ Has(diff.newForeignKeys, f) /\ f.references = t /\ f.table # t
                    /\ y = TableID("create_table", f.table)
    BY <1>1, <1>4, <2>1, GraphType DEF Create
  <2>2. CASE \E o : Has(diff.newIndexes, o) /\ o.table = t /\ y = Part("add_idx", o)
    BY <1>1, <2>2, GraphType DEF Create
  <2>3. CASE \E f : /\ Has(diff.addedForeignKeys, f) \/ Has(diff.newForeignKeys, f)
                    /\ f.references = t /\ y = Part("add_fk", f)
    BY <1>1, <1>4, <2>3, GraphType DEF Create
  <2>4. CASE \E f : /\ Has(diff.addedForeignKeys, f) \/ Has(diff.newForeignKeys, f)
                    /\ f.table = t /\ y = Part("add_fk", f)
    <3>1. PICK f : /\ Has(diff.addedForeignKeys, f) \/ Has(diff.newForeignKeys, f)
                   /\ f.table = t /\ y = Part("add_fk", f)
      BY <2>4
    <3>2. Has(diff.newForeignKeys, f)
      BY <1>1, <1>2, <3>1, DiffType
    <3>3. QED
      BY <1>1, <3>1, <3>2, GraphType DEF Create
  <2>5. QED
    BY <2>1, <2>2, <2>3, <2>4, HasIsIn DEF For
<1>10. QED
  BY <1>3, <1>5, <1>7, <1>8, <1>9

\* A table waits for what it references.
LEMMA TablesFor ==
    ASSUME NEW d \in Diffs, NEW u \in ToSet(d.added), NEW v \in ToSet(d.added),
           Create(u) \in For(d, v)
    PROVE  v \in Referenced(d, u)
<1>1. /\ d.added \in Seq(Name) /\ d.newForeignKeys \in Seq(Referring)
      /\ d.newIndexes \in Seq(OnColumns) /\ d.addedForeignKeys \in Seq(Referring)
  BY DiffType
<1>2. /\ u \in Name /\ \A f \in ToSet(d.newForeignKeys) : f \in Referring
      /\ \A f \in ToSet(d.addedForeignKeys) : f \in Referring
      /\ \A o \in ToSet(d.newIndexes) : o \in OnColumns
  BY <1>1 DEF ToSet
<1>3. Create(u)[1] = "create_table"
  <2>1. << >> \in Name
    BY DEF Name
  <2>2. QED
    BY <1>2, <2>1, IDType DEF Create, TableID, IDWords
<1>4. \A o \in OnColumns : Part("add_idx", o)[1] = "add_idx"
  BY IDType DEF Part, OnColumns, IDWords
<1>5. \A f \in Referring : Part("add_fk", f)[1] = "add_fk"
  BY IDType DEF Part, Referring, IDWords
<1>6. PICK f \in ToSet(d.newForeignKeys) :
               f.references = v /\ f.table # v /\ Create(u) = TableID("create_table", f.table)
  BY <1>2, <1>3, <1>4, <1>5 DEF For
<1>7. f.table = u
  <2>1. f.table \in Name
    BY <1>2 DEF Referring
  <2>2. QED
    BY <1>2, <1>6, <2>1, TableIDIsUnique DEF Create, IDWords
<1>8. QED
  BY <1>6, <1>7 DEF Referenced

\* What is left out waits for something that is left out, and that is a table.
LEMMA LeftWaits ==
    ASSUME Sorted, queue = {}, NEW y \in CycleNodes
    PROVE  \E t \in ToSet(diff.added) : Create(t) \in CycleNodes /\ y \in For(diff, t)
<1>1. GraphOf /\ CycleNodes = Operations \ ToSet(ordered)
  BY TakenWaits DEF Sorted
<1>2. ASSUME NEW z \in CycleNodes
      PROVE  \E i \in Edges : g.edges[i].to = z /\ g.edges[i].from \in CycleNodes
  <2>1. z \in Operations /\ Waits(z) # {}
    BY TakenWaits DEF CycleNodes
  <2>2. PICK i \in Edges : g.edges[i].to = z /\ g.edges[i].from \notin ToSet(ordered)
    BY <2>1 DEF Waits
  <2>3. QED
    BY <1>1, <2>2, GraphFacts
<1>3. PICK i \in Edges : g.edges[i].to = y /\ g.edges[i].from \in CycleNodes
  BY <1>2
<1>4. PICK j \in Edges : g.edges[j].to = g.edges[i].from
  BY <1>2, <1>3
<1>5. g.edges[i].from[1] \in Waiting /\ Reason(diff, g.edges[i].from, y)
  BY <1>1, <1>3, <1>4, GraphFacts
<1>6. QED
  BY <1>3, <1>5 DEF Reason, Create

\* The order of a list.
LEMMA BeforeFacts ==
    ASSUME NEW T, NEW s \in Seq(T), Distinct(s)
    PROVE  /\ \A x : ~ Before(s, x, x)
           /\ \A x, y, z : Before(s, x, y) /\ Before(s, y, z) => Before(s, x, z)
<1>1. DOMAIN s \subseteq Nat
  OBVIOUS
<1>2. ASSUME NEW x PROVE ~ Before(s, x, x)
  BY <1>1 DEF Before, Distinct
<1>3. ASSUME NEW x, NEW y, NEW z, Before(s, x, y), Before(s, y, z)
      PROVE  Before(s, x, z)
  <2>1. PICK i \in DOMAIN s, j \in DOMAIN s : i < j /\ s[i] = x /\ s[j] = y
    BY <1>3 DEF Before
  <2>2. PICK k \in DOMAIN s, l \in DOMAIN s : k < l /\ s[k] = y /\ s[l] = z
    BY <1>3 DEF Before
  <2>3. j = k
    BY <2>1, <2>2 DEF Distinct
  <2>4. i < l
    BY <1>1, <2>1, <2>2, <2>3
  <2>5. QED
    BY <2>1, <2>2, <2>4 DEF Before
<1>4. QED
  BY <1>2, <1>3

\* The creations that the sort leaves out are those of the tables that are stuck.
LEMMA StuckAreLeft ==
    ASSUME Sorted, queue = {}, NEW t \in ToSet(diff.added)
    PROVE  Create(t) \in CycleNodes <=> t \in Stuck(diff)
<1> DEFINE Taken(u) == Create(u) \in ToSet(ordered)
           left == {u \in ToSet(diff.added) : ~ Taken(u)}
<1>1. GraphOf /\ diff \in Diffs /\ Distinct(ordered) /\ ordered \in Seq(Operations)
  BY DEF Sorted, GraphOf
<1>2. CycleNodes = Operations \ ToSet(ordered)
  BY TakenWaits
<1>3. \A u \in ToSet(diff.added) : Create(u) \in CycleNodes <=> ~ Taken(u)
  BY <1>1, <1>2, ArrowsFromTables
<1>4. ASSUME NEW u \in ToSet(diff.added), ~ Taken(u)
      PROVE  Referenced(diff, u) \cap left # {}
  <2>1. PICK v \in ToSet(diff.added) : Create(v) \in CycleNodes /\ Create(u) \in For(diff, v)
    BY <1>3, <1>4, LeftWaits
  <2>2. v \in left /\ v \in Referenced(diff, u)
    BY <1>1, <1>3, <2>1, TablesFor
  <2>3. QED
    BY <2>2
<1>5. ASSUME ~ Taken(t) PROVE t \in Stuck(diff)
  <2>1. left \in SUBSET ToSet(diff.added) /\ t \in left
    BY <1>5
  <2>2. \A u \in left : Referenced(diff, u) \cap left # {}
    BY <1>4
  <2> HIDE DEF left
  <2>3. QED
    BY <1>1, <2>1, <2>2, StuckTogether
<1>6. ASSUME NEW u \in ToSet(diff.added), Taken(u), NEW v \in Referenced(diff, u)
      PROVE  v \in ToSet(diff.added) /\ Taken(v) /\ Before(ordered, Create(v), Create(u))
  <2>1. v \in ToSet(diff.added) /\ Create(u) \in For(diff, v)
    BY <1>6 DEF Referenced, For, Create
  <2>2. Arrow(Create(v), Create(u))
    BY <1>1, <2>1, ArrowsFromTables
  <2>3. Before(ordered, Create(v), Create(u))
    BY <1>6, <2>2 DEF Arrow, Sorted
  <2>4. Taken(v)
    BY <2>3 DEF Before, ToSet
  <2>5. QED
    BY <2>1, <2>3, <2>4
<1>7. ASSUME NEW u \in ToSet(diff.added), Taken(u), NEW v \in Reached(diff, u)
      PROVE  Taken(v) /\ Before(ordered, Create(v), Create(u))
  <2> DEFINE S == {w \in ToSet(diff.added) : Taken(w) /\ Before(ordered, Create(w), Create(u))}
  <2>1. S \in SUBSET ToSet(diff.added)
    OBVIOUS
  <2>2. ASSUME NEW w \in {u} \cup S, NEW z \in Referenced(diff, w) PROVE z \in S
    <3>1. w \in ToSet(diff.added) /\ Taken(w)
      BY <1>7, <2>2
    <3>2. z \in ToSet(diff.added) /\ Taken(z) /\ Before(ordered, Create(z), Create(w))
      BY <1>6, <2>2, <3>1
    <3>3. w # u => Before(ordered, Create(w), Create(u))
      BY <2>2
    <3>4. Before(ordered, Create(z), Create(u))
      BY <1>1, <3>2, <3>3, BeforeFacts
    <3>5. QED
      BY <3>2, <3>4
  <2>3. \A w \in {u} \cup S : Referenced(diff, w) \subseteq S
    BY <2>2
  <2>4. v \in S
    BY <1>7, <2>1, <2>3 DEF Reached
  <2>5. QED
    BY <2>4
<1>8. ASSUME Taken(t) PROVE t \notin Stuck(diff)
  <2>1. SUFFICES ASSUME t \in Stuck(diff) PROVE FALSE
    OBVIOUS
  <2>2. PICK u \in {t} \cup Reached(diff, t) : u \in Reached(diff, u)
    BY <2>1 DEF Stuck
  <2>3. u \in ToSet(diff.added) /\ Taken(u)
    BY <1>7, <1>8, <2>2, ReachedFacts
  <2>4. Before(ordered, Create(u), Create(u))
    BY <1>7, <2>2, <2>3
  <2>5. QED
    BY <1>1, <2>4, BeforeFacts
<1>9. QED
  BY <1>3, <1>5, <1>8

\* An operation that waits for what is left out is left out.
LEMMA BehindIsLeft ==
    ASSUME Sorted, queue = {}, NEW x \in CycleNodes, NEW y, Arrow(x, y)
    PROVE  y \in CycleNodes
<1>1. GraphOf /\ CycleNodes = Operations \ ToSet(ordered)
  BY TakenWaits DEF Sorted
<1>2. PICK i \in Edges : g.edges[i].from = x /\ g.edges[i].to = y
  BY DEF Arrow
<1>3. ASSUME y \in ToSet(ordered) PROVE FALSE
  <2>1. Before(ordered, x, y)
    BY <1>2, <1>3 DEF Sorted
  <2>2. QED
    BY <1>1, <2>1 DEF Before, ToSet
<1>4. QED
  BY <1>1, <1>2, <1>3, GraphFacts

\* What is left out is what waits for a table that is stuck.
LEMMA LeftWaitsForCycle ==
    ASSUME Sorted, queue = {}
    PROVE  CycleNodes =
             {TableID("create_table", t) : t \in Stuck(diff)}
             \cup {Part("add_idx", i) :
                      i \in {o \in ToSet(diff.newIndexes) : o.table \in Stuck(diff)}}
             \cup {Part("add_fk", f) :
                      f \in {o \in ToSet(diff.addedForeignKeys \o diff.newForeignKeys) :
                                {o.table, o.references} \cap Stuck(diff) # {}}}
<1>1. GraphOf /\ diff \in Diffs
  BY DEF Sorted, GraphOf
<1>2. \A f : f \in ToSet(diff.addedForeignKeys \o diff.newForeignKeys)
             <=> f \in ToSet(diff.addedForeignKeys) \cup ToSet(diff.newForeignKeys)
  BY <1>1, DiffType, HasPut, HasIsIn
<1>3. Stuck(diff) \subseteq ToSet(diff.added)
  BY DEF Stuck
<1>4. ASSUME NEW t \in Stuck(diff), NEW y \in For(diff, t) \cup {Create(t)}
      PROVE  y \in CycleNodes
  <2>1. t \in ToSet(diff.added) /\ Create(t) \in CycleNodes
    BY <1>3, StuckAreLeft
  <2>2. y \in For(diff, t) => Arrow(Create(t), y)
    BY <1>1, <2>1, ArrowsFromTables
  <2>3. QED
    BY <2>1, <2>2, BehindIsLeft
<1>5. ASSUME NEW y \in CycleNodes
      PROVE  \/ \E t \in Stuck(diff) : y = Create(t)
             \/ \E o \in ToSet(diff.newIndexes) : o.table \in Stuck(diff) /\ y = Part("add_idx", o)
             \/ \E f \in ToSet(diff.addedForeignKeys) \cup ToSet(diff.newForeignKeys) :
                    {f.table, f.references} \cap Stuck(diff) # {} /\ y = Part("add_fk", f)
  <2>1. PICK t \in ToSet(diff.added) : Create(t) \in CycleNodes /\ y \in For(diff, t)
    BY LeftWaits
  <2>2. t \in Stuck(diff)
    BY <2>1, StuckAreLeft
  <2>3. CASE \E f \in ToSet(diff.newForeignKeys) : y = Create(f.table)
    <3>1. PICK f \in ToSet(diff.newForeignKeys) : y = Create(f.table)
      BY <2>3
    <3>2. f.table \in ToSet(diff.added)
      BY <1>1, DiffType, HasIsIn
    <3>3. f.table \in Stuck(diff)
      BY <3>1, <3>2, StuckAreLeft
    <3>4. QED
      BY <3>1, <3>3
  <2>4. CASE \E o \in ToSet(diff.newIndexes) : o.table = t /\ y = Part("add_idx", o)
    BY <2>2, <2>4
  <2>5. CASE \E f \in ToSet(diff.addedForeignKeys) \cup ToSet(diff.newForeignKeys) :
                 t \in {f.table, f.references} /\ y = Part("add_fk", f)
    BY <2>2, <2>5
  <2>6. QED
    BY <2>1, <2>3, <2>4, <2>5 DEF For, Create
<1>6. ASSUME NEW o \in ToSet(diff.newIndexes), o.table \in Stuck(diff)
      PROVE  Part("add_idx", o) \in CycleNodes
  BY <1>4, <1>6 DEF For
<1>7. ASSUME NEW f \in ToSet(diff.addedForeignKeys) \cup ToSet(diff.newForeignKeys),
             {f.table, f.references} \cap Stuck(diff) # {}
      PROVE  Part("add_fk", f) \in CycleNodes
  BY <1>4, <1>7 DEF For
<1>8. ASSUME NEW t \in Stuck(diff) PROVE TableID("create_table", t) \in CycleNodes
  BY <1>4 DEF Create
<1>9. QED
  BY <1>2, <1>5, <1>6, <1>7, <1>8 DEF Create

\* What the last step adds, each with a warning, is what is left out.
Marked == warned = IF pc = "done" THEN CycleNodes ELSE {}

LEMMA MarkedStep == OrderInv /\ Marked /\ [OrderNext]_orderVars => Marked'
<1> SUFFICES ASSUME Sorted, Searching, Marked, [OrderNext]_orderVars
             PROVE  Marked'
  BY DEF OrderInv
<1>1. CASE TakeFirst
  BY <1>1 DEF TakeFirst, Marked
<1>2. CASE QueueEmpty
  <2>1. /\ pc = "sort" /\ queue = {} /\ warned' = warned
        /\ pc' = IF Len(ordered) < Cardinality(Operations) THEN "cycles" ELSE "done"
        /\ UNCHANGED <<inputs, inDegree>>
    BY <1>2 DEF QueueEmpty
  <2>2. pc' = "done" => CycleNodes' = {}
    BY <2>1, NothingLeft, GraphStays
  <2>3. QED
    BY <2>1, <2>2 DEF Marked
<1>3. CASE DetectCycles
  BY <1>3 DEF DetectCycles, VisitRoot, VisitNeighbor, Enter, CloseCycle, Backtrack, AllVisited,
              Marked
<1>4. CASE AddRest
  <2>1. warned' = CycleNodes /\ pc' = "done" /\ UNCHANGED <<inputs, inDegree>>
    BY <1>4 DEF AddRest
  <2>2. QED
    BY <2>1, GraphStays DEF Marked
<1>5. CASE UNCHANGED orderVars
  <2>1. warned' = warned /\ pc' = pc /\ UNCHANGED <<inputs, inDegree>>
    BY <1>5 DEF orderVars
  <2>2. QED
    BY <2>1, GraphStays DEF Marked
<1>6. QED
  BY <1>1, <1>2, <1>3, <1>4, <1>5 DEF OrderNext

\* WarnedWaitForCycle, for any differences: what comes with a warning is exactly
\* what waits for a new table on a cycle of foreign keys or leading to one, whatever
\* the other edges are (BuildDependencyGraph, TopologicalSort).
THEOREM WarnedWaitForCycleHolds == OrderSpec => []WarnedWaitForCycle
<1>1. OrderInit => Marked
  BY DEF OrderInit, Marked
<1>2. OrderInv /\ Marked => WarnedWaitForCycle
  <2>1. SUFFICES ASSUME Sorted, Searching, Marked, pc = "done"
                 PROVE  WarnedWaitForCycle
    BY DEF OrderInv, WarnedWaitForCycle
  <2>2. queue = {} /\ warned = CycleNodes
    BY <2>1 DEF Searching, Marked
  <2>3. QED
    BY <2>1, <2>2, LeftWaitsForCycle DEF WarnedWaitForCycle
<1>3. QED
  BY <1>1, <1>2, MarkedStep, OrderInvariant, PTL DEF OrderSpec
=============================================================================
