----------------------- MODULE SchemaMigrationProofs -----------------------
(***************************************************************************)
(* Proofs about SchemaMigration, for any schemas, drivers and permissions: *)
(* nothing is lost that was not granted, a script that ran to its end has  *)
(* led to the target, and its drops and creations come in order.           *)
(***************************************************************************)
EXTENDS SchemaMigration, TLAPS, FiniteSetTheorems, WellFoundedInduction

\* A schema that a migration is made from or leads to.
Sound(schema) ==
    /\ IsFiniteSet(DOMAIN schema)
    /\ DOMAIN schema \subseteq Object
    /\ \A o \in DOMAIN schema : schema[o] \in Definition
    /\ WellFormed(schema)

\* The permissions that the calls pass on.
Grants == {"table", "column", "index", "fk", "pk"}

Statements == [op : {"drop", "create", "alter", "text"}, on : Object]

\* A primary key that is modified is dropped and created.
Renewed(o) == o.kind = "pk" /\ "pk" \in granted /\ o \in Modified

\* Only what the target does not have is dropped, and only if it may be; only
\* what the source does not have is created; only what differs is altered.
Right(s) ==
    /\ s.op = "drop" => s.on.kind \in granted /\ (s.on \in Removed \/ Renewed(s.on))
    /\ s.op = "create" => s.on \in Added \/ Renewed(s.on)
    /\ s.op = "alter" => s.on \in Modified /\ s.on.kind \in {"column", "view"}

RightStatements == {s \in Statements : Right(s)}

\* What is dropped though the target has it, is created afterwards.
Restored(list) ==
    \A i \in DOMAIN list :
        list[i].op = "drop" /\ list[i].on \in DOMAIN target =>
            \E j \in DOMAIN list : i < j /\ list[j] = [op |-> "create", on |-> list[i].on]

Scripts == {list \in Seq(RightStatements) : Restored(list)}

MigrationTypeOK ==
    /\ Sound(source) /\ Sound(target)
    /\ granted \subseteq Grants
    /\ dropping \in Seq(OfKind(Removed, "table"))
    /\ creating \in Seq(OfKind(Added, "table"))
    /\ stack \in Seq(OfKind(Added, "table"))
    /\ script \in Seq(RightStatements)
    /\ \A o \in DOMAIN db : db[o] \in Definition

\* Nothing is there before the call.
Blank ==
    pc = "call" =>
        /\ dropping = << >> /\ creating = << >> /\ stack = << >> /\ script = << >>
        /\ driver \in Drivers

\* The keys and the sequences of the source use no more in the database than they
\* did there, unless they are primary keys that are modified.
UsesKept ==
    \A o \in DOMAIN source \cap DOMAIN db :
        o.kind \in {"index", "fk", "pk", "sequence"} =>
            \/ db[o].uses \subseteq source[o].uses
            \/ Renewed(o)

MigrationInv ==
    /\ MigrationTypeOK
    /\ Blank
    /\ UsesKept
    /\ NothingLostUnasked

(***************************************************************************)
(* Lists.                                                                  *)
(***************************************************************************)

\* The order of the numbers, as a relation.
LEMMA LessIsWellFounded ==
    \E R : IsWellFoundedOn(R, Nat) /\ \A m, n \in Nat : m < n => <<m, n>> \in R
<1> WITNESS OpToRel(<, Nat)
<1>1. IsWellFoundedOn(OpToRel(<, Nat), Nat)
  BY NatLessThanWellFounded, Zenon
<1>2. ASSUME NEW m \in Nat, NEW n \in Nat, m < n
      PROVE <<m, n>> \in OpToRel(<, Nat)
  <2>1. <<m, n>> \in Nat \X Nat
    OBVIOUS
  <2> QED BY <1>2, <2>1, Zenon DEF OpToRel
<1> QED BY <1>1, <1>2, Zenon

\* A set of numbers has a least one.
LEMMA LeastExists ==
    ASSUME NEW S \in SUBSET Nat, S # {}
    PROVE  \E m \in S : \A n \in S : ~ (n < m)
<1>1. PICK R : IsWellFoundedOn(R, Nat) /\ \A m, n \in Nat : m < n => <<m, n>> \in R
  BY LessIsWellFounded
<1>2. IsWellFoundedOn(R, Nat) /\ S \subseteq Nat
  BY <1>1
<1>3. PICK m \in S : \A n \in S : ~ (<<n, m>> \in R)
  BY <1>2, WFMin, Zenon
<1>4. QED
  BY <1>1, <1>3

\* One step of FlattenSeq, up to the n-th list.
Flat(lists, n, f) ==
    [i \in 1 .. n |-> IF i = 1 THEN lists[i] ELSE f[i - 1] \o lists[i]]

\* The function that FlattenSeq defines exists.
LEMMA FlatExists ==
    ASSUME NEW lists, NEW n \in Nat
    PROVE  \E f : f = Flat(lists, n, f)
<1> DEFINE Bad == {m \in Nat : ~ \E f : f = Flat(lists, m, f)}
<1>1. SUFFICES ASSUME Bad # {} PROVE FALSE
  OBVIOUS
<1>2. Bad \in SUBSET Nat
  OBVIOUS
<1> HIDE DEF Bad
<1>3. PICK m \in Bad : \A k \in Bad : ~ (k < m)
  BY <1>1, <1>2, LeastExists
<1>4. m \in Nat /\ ~ \E f : f = Flat(lists, m, f)
  BY DEF Bad
<1>5. CASE m = 0
  <2>1. \A f : Flat(lists, 0, f) = << >>
    BY DEF Flat
  <2>2. << >> = Flat(lists, 0, << >>)
    BY <2>1
  <2>3. QED
    BY <1>4, <1>5, <2>2
<1>6. CASE m # 0
  <2>1. m - 1 \in Nat /\ m - 1 < m
    BY <1>4, <1>6
  <2>2. PICK f : f = Flat(lists, m - 1, f)
    BY <1>3, <2>1 DEF Bad
  <2> DEFINE h == [i \in 1 .. m |-> IF i = 1 THEN lists[i] ELSE f[i - 1] \o lists[i]]
  <2>3. \A i \in 1 .. m - 1 : h[i] = f[i]
    <3>1. \A i \in 1 .. m - 1 : f[i] = IF i = 1 THEN lists[i] ELSE f[i - 1] \o lists[i]
      BY <2>2 DEF Flat
    <3>2. 1 .. m - 1 \subseteq 1 .. m
      BY <1>4
    <3>3. QED
      BY <3>1, <3>2
  <2>4. \A i \in 1 .. m : i # 1 => i - 1 \in 1 .. m - 1
    BY <1>4
  <2>5. h = Flat(lists, m, h)
    BY <2>3, <2>4 DEF Flat
  <2>6. QED
    BY <1>4, <2>5
<1>7. QED
  BY <1>5, <1>6

\* Lists put together are in what lists are put together in.
LEMMA FlattenSeqIn ==
    ASSUME NEW L, << >> \in L, \A a, b \in L : a \o b \in L,
           NEW n \in Nat, NEW lists, lists = [i \in 1 .. n |-> lists[i]],
           \A i \in 1 .. n : lists[i] \in L
    PROVE  FlattenSeq(lists) \in L
<1>1. Len(lists) = n
  OBVIOUS
<1>2. CASE n = 0
  BY <1>1, <1>2 DEF FlattenSeq
<1>3. CASE n # 0
  <2>1. \E f : f = Flat(lists, n, f)
    BY FlatExists
  <2> DEFINE flatten == CHOOSE f : f = Flat(lists, n, f)
  <2>2. flatten = Flat(lists, n, flatten)
    BY <2>1
  <2>3. FlattenSeq(lists) = flatten[n]
    BY <1>1, <1>3 DEF FlattenSeq, Flat
  <2> HIDE DEF flatten
  <2>4. \A i \in 1 .. n : flatten[i] = IF i = 1 THEN lists[i] ELSE flatten[i - 1] \o lists[i]
    BY <2>2 DEF Flat
  <2> DEFINE Bad == {i \in 1 .. n : flatten[i] \notin L}
  <2>5. SUFFICES ASSUME Bad # {} PROVE FALSE
    BY <1>3, <2>3
  <2>6. Bad \in SUBSET Nat
    OBVIOUS
  <2> HIDE DEF Bad
  <2>7. PICK m \in Bad : \A k \in Bad : ~ (k < m)
    BY <2>5, <2>6, LeastExists
  <2>8. m \in 1 .. n /\ flatten[m] \notin L
    BY DEF Bad
  <2>9. m # 1
    BY <2>4, <2>8
  <2>10. m - 1 \in 1 .. n /\ m - 1 < m
    BY <2>8, <2>9
  <2>11. flatten[m - 1] \in L
    BY <2>7, <2>10 DEF Bad
  <2>12. flatten[m] = flatten[m - 1] \o lists[m] /\ lists[m] \in L
    BY <2>4, <2>8, <2>9
  <2>13. QED
    BY <2>8, <2>11, <2>12
<1>4. QED
  BY <1>2, <1>3

\* Lists put together are a list of what they have.
LEMMA FlattenSeqType ==
    ASSUME NEW T, NEW n \in Nat, NEW lists, lists = [i \in 1 .. n |-> lists[i]],
           \A i \in 1 .. n : lists[i] \in Seq(T)
    PROVE  FlattenSeq(lists) \in Seq(T)
<1>1. << >> \in Seq(T) /\ \A a, b \in Seq(T) : a \o b \in Seq(T)
  OBVIOUS
<1>2. QED
  BY <1>1, FlattenSeqIn

\* What one of some lists has, all of them put together have.
Has(s, x) == \E i \in DOMAIN s : s[i] = x

LEMMA HasPut ==
    ASSUME NEW T, NEW a \in Seq(T), NEW b \in Seq(T), NEW x
    PROVE  /\ a \o b \in Seq(T)
           /\ Has(a \o b, x) <=> Has(a, x) \/ Has(b, x)
<1>1. Len(a \o b) = Len(a) + Len(b) /\ a \o b \in Seq(T)
  OBVIOUS
<1>2. \A i \in 1 .. Len(a) : (a \o b)[i] = a[i] /\ i \in DOMAIN (a \o b)
  OBVIOUS
<1>3. \A i \in 1 .. Len(b) : (a \o b)[Len(a) + i] = b[i] /\ Len(a) + i \in DOMAIN (a \o b)
  OBVIOUS
<1>4. ASSUME NEW i \in DOMAIN (a \o b), (a \o b)[i] = x
      PROVE  Has(a, x) \/ Has(b, x)
  <2>1. CASE i <= Len(a)
    BY <1>2, <1>4, <2>1 DEF Has
  <2>2. CASE ~ (i <= Len(a))
    <3>1. i - Len(a) \in 1 .. Len(b)
      BY <1>1, <2>2
    <3>2. (a \o b)[Len(a) + (i - Len(a))] = b[i - Len(a)]
      BY <1>3, <3>1
    <3>3. QED
      BY <1>4, <3>1, <3>2 DEF Has
  <2>3. QED
    BY <2>1, <2>2
<1>5. Has(a, x) => Has(a \o b, x)
  BY <1>2 DEF Has
<1>6. ASSUME Has(b, x) PROVE Has(a \o b, x)
  <2>1. PICK i \in 1 .. Len(b) : b[i] = x
    BY <1>6 DEF Has
  <2>2. (a \o b)[Len(a) + i] = x /\ Len(a) + i \in DOMAIN (a \o b)
    BY <1>3, <2>1
  <2>3. QED
    BY <2>2 DEF Has
<1>7. QED
  BY <1>1, <1>4, <1>5, <1>6 DEF Has

LEMMA FlattenSeqHas ==
    ASSUME NEW T, NEW n \in Nat, NEW lists, lists = [i \in 1 .. n |-> lists[i]],
           \A i \in 1 .. n : lists[i] \in Seq(T),
           NEW k \in 1 .. n, NEW x, Has(lists[k], x)
    PROVE  Has(FlattenSeq(lists), x)
<1>1. Len(lists) = n /\ n # 0
  OBVIOUS
<1>2. \E f : f = Flat(lists, n, f)
  BY FlatExists
<1> DEFINE flatten == CHOOSE f : f = Flat(lists, n, f)
<1>3. flatten = Flat(lists, n, flatten)
  BY <1>2
<1>4. FlattenSeq(lists) = flatten[n]
  BY <1>1 DEF FlattenSeq, Flat
<1> HIDE DEF flatten
<1>5. \A i \in 1 .. n : flatten[i] = IF i = 1 THEN lists[i] ELSE flatten[i - 1] \o lists[i]
  BY <1>3 DEF Flat
<1> DEFINE Bad == {i \in 1 .. n : flatten[i] \notin Seq(T) \/ (k <= i /\ ~ Has(flatten[i], x))}
<1>6. SUFFICES ASSUME Bad # {} PROVE FALSE
  BY <1>1, <1>4
<1>7. Bad \in SUBSET Nat
  OBVIOUS
<1> HIDE DEF Bad
<1>8. PICK m \in Bad : \A i \in Bad : ~ (i < m)
  BY <1>6, <1>7, LeastExists
<1>9. m \in 1 .. n /\ (flatten[m] \notin Seq(T) \/ (k <= m /\ ~ Has(flatten[m], x)))
  BY DEF Bad
<1>10. CASE m = 1
  <2>1. flatten[1] = lists[1] /\ lists[1] \in Seq(T)
    BY <1>5, <1>9, <1>10
  <2>2. k <= m => k = 1
    BY <1>10
  <2>3. QED
    BY <1>9, <1>10, <2>1, <2>2
<1>11. CASE m # 1
  <2>1. m - 1 \in 1 .. n /\ m - 1 < m
    BY <1>9, <1>11
  <2>2. flatten[m - 1] \in Seq(T) /\ (k <= m - 1 => Has(flatten[m - 1], x))
    BY <1>8, <2>1 DEF Bad
  <2>3. flatten[m] = flatten[m - 1] \o lists[m] /\ lists[m] \in Seq(T)
    BY <1>5, <1>9, <1>11
  <2>4. \A a, b \in Seq(T) : a \o b \in Seq(T) /\ (Has(a, x) \/ Has(b, x) => Has(a \o b, x))
    BY HasPut
  <2>5. k <= m => k <= m - 1 \/ k = m
    BY <1>9
  <2>6. QED
    BY <1>9, <2>2, <2>3, <2>4, <2>5
<1>12. QED
  BY <1>10, <1>11

\* A finite set of objects in the order of their names.
InOrder(list) ==
    \A i, j \in DOMAIN list : i < j => list[i].name <= list[j].name

\* There is one.
LEMMA OrderExists ==
    ASSUME NEW S \in SUBSET Object, IsFiniteSet(S)
    PROVE  \E list \in SetToSeqs(S) : InOrder(list)
<1> DEFINE Listed(R) == \E list \in SetToSeqs(R) : InOrder(list)
           Bad == {n \in Nat : \E R \in SUBSET Object :
                       IsFiniteSet(R) /\ Cardinality(R) = n /\ ~ Listed(R)}
<1>1. Cardinality(S) \in Nat
  BY FS_CardinalityType
<1>2. SUFFICES ASSUME Bad # {} PROVE FALSE
  BY <1>1
<1>3. Bad \in SUBSET Nat
  OBVIOUS
<1> HIDE DEF Bad
<1>4. PICK n \in Bad : \A k \in Bad : ~ (k < n)
  BY <1>2, <1>3, LeastExists
<1>5. PICK R \in SUBSET Object : IsFiniteSet(R) /\ Cardinality(R) = n /\ ~ Listed(R)
  BY DEF Bad
<1>6. n \in Nat
  BY <1>3
<1>7. CASE R = {}
  <2>1. Cardinality(R) = 0
    BY <1>7, FS_EmptySet
  <2>2. << >> \in SetToSeqs(R) /\ InOrder(<< >>)
    BY <1>7, <2>1 DEF SetToSeqs, InOrder
  <2>3. QED
    BY <1>5, <2>2
<1>8. CASE R # {}
  <2> DEFINE names == {o.name : o \in R}
  <2>1. names \in SUBSET Nat /\ names # {}
    BY <1>8 DEF Object
  <2> HIDE DEF names
  <2>2. PICK x \in names : \A y \in names : ~ (y < x)
    BY <2>1, LeastExists
  <2>3. PICK m \in R : m.name = x
    BY <2>2 DEF names
  <2>4. \A o \in R : m.name <= o.name /\ o.name \in Nat
    <3>1. \A o \in R : o.name \in names /\ o.name \in Nat
      BY <2>1 DEF names
    <3>2. QED
      BY <2>2, <2>3, <3>1
  <2> DEFINE Q == R \ {m}
  <2>5. IsFiniteSet(Q) /\ Cardinality(Q) = n - 1
    BY <1>5, FS_RemoveElement
  <2>6. Cardinality(Q) \in Nat
    BY <2>5, FS_CardinalityType
  <2>7. n - 1 \notin Bad
    BY <1>4, <1>6, <2>5, <2>6
  <2>8. Listed(Q)
    BY <2>5, <2>6, <2>7 DEF Bad
  <2>9. PICK list \in SetToSeqs(Q) : InOrder(list)
    BY <2>8
  <2>10. /\ list \in [1 .. n - 1 -> Q]
         /\ \A i, j \in 1 .. n - 1 : i # j => list[i] # list[j]
         /\ \A i, j \in 1 .. n - 1 : i < j => list[i].name <= list[j].name
    BY <2>5, <2>9 DEF SetToSeqs, InOrder
  <2> DEFINE longer == [i \in 1 .. n |-> IF i = 1 THEN m ELSE list[i - 1]]
  <2>11. \A i \in 1 .. n : i # 1 => i - 1 \in 1 .. n - 1
    BY <1>6
  <2>12. longer \in [1 .. n -> R]
    BY <2>10, <2>11
  <2>13. ASSUME NEW i \in 1 .. n, NEW j \in 1 .. n, i < j
         PROVE  longer[i] # longer[j] /\ longer[i].name <= longer[j].name
    <3>1. j - 1 \in 1 .. n - 1 /\ longer[j] = list[j - 1]
      BY <1>6, <2>13
    <3>2. CASE i = 1
      BY <2>4, <2>10, <3>1, <3>2
    <3>3. CASE i # 1
      <4>1. i - 1 \in 1 .. n - 1 /\ longer[i] = list[i - 1] /\ i - 1 < j - 1
        BY <1>6, <2>13, <3>3
      <4>2. QED
        BY <2>10, <3>1, <4>1
    <3>4. QED
      BY <3>2, <3>3
  <2> HIDE DEF longer
  <2>14. longer \in SetToSeqs(R)
    <3>1. \A i, j \in 1 .. n : i # j => longer[i] # longer[j]
      <4>1. \A i, j \in 1 .. n : i # j => i < j \/ j < i
        BY <1>6
      <4>2. QED
        BY <2>13, <4>1
    <3>2. QED
      BY <1>5, <2>12, <3>1 DEF SetToSeqs
  <2>15. InOrder(longer)
    BY <2>12, <2>13 DEF InOrder
  <2>16. QED
    BY <1>5, <2>14, <2>15
<1>9. QED
  BY <1>7, <1>8

\* ByName lists a set.
LEMMA ByNameType ==
    ASSUME NEW S \in SUBSET Object, IsFiniteSet(S)
    PROVE  ByName(S) \in Seq(S) /\ (S # {} => Head(ByName(S)) \in S)
<1>1. ByName(S) \in SetToSeqs(S)
  BY OrderExists DEF ByName, InOrder
<1>2. Cardinality(S) \in Nat /\ (Cardinality(S) = 0 <=> S = {})
  BY FS_CardinalityType, FS_EmptySet
<1>3. ByName(S) \in [1 .. Cardinality(S) -> S]
  BY <1>1 DEF SetToSeqs
<1>4. ByName(S) \in Seq(S) /\ Len(ByName(S)) = Cardinality(S)
  BY <1>2, <1>3
<1>5. QED
  BY <1>2, <1>4

(***************************************************************************)
(* The script.                                                             *)
(***************************************************************************)

\* The sets that the sections list.
LEMMA DifferencesType ==
    ASSUME MigrationTypeOK
    PROVE  /\ DOMAIN source \subseteq Object /\ DOMAIN target \subseteq Object
           /\ IsFiniteSet(DOMAIN source) /\ IsFiniteSet(DOMAIN target)
           /\ Added \subseteq Object /\ Removed \subseteq Object /\ Kept \subseteq Object
           /\ IsFiniteSet(Added) /\ IsFiniteSet(Removed) /\ IsFiniteSet(Kept)
           /\ Modified \subseteq Object /\ IsFiniteSet(Modified)
<1>1. /\ DOMAIN source \subseteq Object /\ DOMAIN target \subseteq Object
      /\ IsFiniteSet(DOMAIN source) /\ IsFiniteSet(DOMAIN target)
  BY DEF MigrationTypeOK, Sound
<1>2. /\ Added \subseteq DOMAIN target /\ Removed \subseteq DOMAIN source
      /\ Kept \subseteq DOMAIN source /\ Modified \subseteq DOMAIN source
  BY DEF Added, Removed, Kept, Modified
<1>3. QED
  BY <1>1, <1>2, FS_Subset

\* A list of a finite set has all of it.
LEMMA SetToSeqsHas ==
    ASSUME NEW S, IsFiniteSet(S), NEW list \in SetToSeqs(S), NEW o \in S
    PROVE  Has(list, o)
<1> DEFINE n == Cardinality(S)
<1>1. n \in Nat
  BY FS_CardinalityType
<1>2. /\ list \in [1 .. n -> S]
      /\ \A i, j \in 1 .. n : i # j => list[i] # list[j]
  BY DEF SetToSeqs
<1>3. IsFiniteSet(1 .. n) /\ Cardinality(1 .. n) = n
  BY <1>1, FS_Interval
<1> HIDE DEF n
<1>4. list \in Injection(1 .. n, S)
  BY <1>2 DEF Injection, IsInjective
<1>5. list \in Surjection(1 .. n, S)
  BY <1>3, <1>4, FS_Injection DEF n
<1>6. \E i \in 1 .. n : list[i] = o
  BY <1>5 DEF Surjection
<1>7. QED
  BY <1>2, <1>6 DEF Has

\* A part of a finite set of objects, by name.
LEMMA PartByName ==
    ASSUME NEW S, S \subseteq Object, IsFiniteSet(S), NEW R \in SUBSET S
    PROVE  /\ ByName(R) \in Seq(R)
           /\ ByName(R) \in Seq(Object)
           /\ \A i \in DOMAIN ByName(R) : ByName(R)[i] \in R
<1>1. R \subseteq Object /\ IsFiniteSet(R)
  BY FS_Subset
<1>2. ByName(R) \in Seq(R)
  BY <1>1, ByNameType
<1>3. QED
  BY <1>1, <1>2

\* ByName lists all of a set.
LEMMA ByNameHas ==
    ASSUME NEW S, S \subseteq Object, IsFiniteSet(S), NEW R \in SUBSET S, NEW o \in R
    PROVE  Has(ByName(R), o)
<1>1. R \in SUBSET Object /\ IsFiniteSet(R)
  BY FS_Subset
<1>2. ByName(R) \in SetToSeqs(R)
  BY <1>1, OrderExists DEF ByName, InOrder
<1>3. QED
  BY <1>1, <1>2, SetToSeqsHas


\* What a list drops is restored by itself or by the script after it.
LEMMA RestoringPut ==
    ASSUME NEW a \in Seq(RightStatements), NEW b \in Scripts,
           \A i \in DOMAIN a :
               a[i].op = "drop" /\ a[i].on \in DOMAIN target =>
                   \/ \E j \in DOMAIN a : i < j /\ a[j] = [op |-> "create", on |-> a[i].on]
                   \/ Has(b, [op |-> "create", on |-> a[i].on])
    PROVE  a \o b \in Scripts
<1> DEFINE c == a \o b
<1>1. b \in Seq(RightStatements) /\ Restored(b)
  BY DEF Scripts
<1>2. /\ c \in Seq(RightStatements) /\ Len(c) = Len(a) + Len(b)
      /\ \A i \in 1 .. Len(a) : c[i] = a[i]
      /\ \A i \in 1 .. Len(b) : c[Len(a) + i] = b[i]
      /\ Len(a) \in Nat /\ Len(b) \in Nat
      /\ DOMAIN a = 1 .. Len(a) /\ DOMAIN b = 1 .. Len(b) /\ DOMAIN c = 1 .. Len(c)
  BY <1>1
<1> HIDE DEF c
<1>3. ASSUME NEW i \in DOMAIN c, c[i].op = "drop", c[i].on \in DOMAIN target
      PROVE  \E j \in DOMAIN c : i < j /\ c[j] = [op |-> "create", on |-> c[i].on]
  <2>1. CASE i <= Len(a)
    <3>1. i \in DOMAIN a /\ c[i] = a[i]
      BY <1>2, <2>1
    <3>2. CASE \E j \in DOMAIN a : i < j /\ a[j] = [op |-> "create", on |-> a[i].on]
      <4>1. PICK j \in 1 .. Len(a) : i < j /\ a[j] = [op |-> "create", on |-> a[i].on]
        BY <1>2, <3>2
      <4>2. j \in DOMAIN c /\ c[j] = a[j]
        BY <1>2
      <4>3. QED
        BY <3>1, <4>1, <4>2
    <3>3. CASE Has(b, [op |-> "create", on |-> a[i].on])
      <4>1. PICK j \in 1 .. Len(b) : b[j] = [op |-> "create", on |-> a[i].on]
        BY <1>2, <3>3 DEF Has
      <4>2. Len(a) + j \in DOMAIN c /\ i < Len(a) + j
        BY <1>2, <2>1
      <4>3. c[Len(a) + j] = b[j]
        BY <1>2
      <4>4. QED
        BY <3>1, <4>1, <4>2, <4>3
    <3>4. QED
      BY <1>3, <3>1, <3>2, <3>3
  <2>2. CASE ~ (i <= Len(a))
    <3>1. PICK k \in 1 .. Len(b) : i = Len(a) + k
      <4>1. i - Len(a) \in 1 .. Len(b) /\ i = Len(a) + (i - Len(a))
        BY <1>2, <2>2
      <4>2. QED
        BY <4>1
    <3>2. c[i] = b[k]
      BY <1>2, <3>1
    <3>3. PICK j \in 1 .. Len(b) : k < j /\ b[j] = [op |-> "create", on |-> b[k].on]
      BY <1>1, <1>2, <1>3, <3>2 DEF Restored
    <3>4. Len(a) + j \in DOMAIN c /\ i < Len(a) + j /\ c[Len(a) + j] = b[j]
      BY <1>2, <3>1, <3>3
    <3>5. QED
      BY <3>2, <3>3, <3>4
  <2>3. QED
    BY <2>1, <2>2
<1>4. Restored(c)
  BY <1>3 DEF Restored
<1>5. QED
  BY <1>2, <1>4 DEF Scripts, c

\* Scripts follow each other.
LEMMA Follows ==
    ASSUME NEW a \in Scripts, NEW b \in Scripts
    PROVE  a \o b \in Scripts
<1>1. a \in Seq(RightStatements) /\ Restored(a)
  BY DEF Scripts
<1>2. QED
  BY <1>1, RestoringPut DEF Restored

\* A script may be empty.
LEMMA NoScript == << >> \in Scripts
  BY DEF Scripts, Restored

LEMMA FlattenScripts ==
    ASSUME NEW n \in Nat, NEW lists, lists = [i \in 1 .. n |-> lists[i]],
           \A i \in 1 .. n : lists[i] \in Scripts
    PROVE  FlattenSeq(lists) \in Scripts
<1>1. \A a, b \in Scripts : a \o b \in Scripts
  BY Follows
<1>2. QED
  BY <1>1, NoScript, FlattenSeqIn

\* Statements that drop nothing that the target has.
Plain == {s \in RightStatements : s.op = "drop" => s.on \notin DOMAIN target}

LEMMA PlainScript ==
    ASSUME NEW list \in Seq(Plain)
    PROVE  list \in Scripts
<1>1. list \in Seq(RightStatements) /\ \A i \in DOMAIN list : list[i] \in Plain
  BY DEF Plain
<1>2. QED
  BY <1>1 DEF Scripts, Restored, Plain

\* What Statement writes.
LEMMA StatementType ==
    ASSUME NEW T, NEW op, NEW objects \in Seq(Object),
           \A i \in DOMAIN objects :
               ~ Unsupported(op, objects[i]) => [op |-> op, on |-> objects[i]] \in T
    PROVE  Statement(op, objects) \in Seq(T)
<1> DEFINE lists == [i \in DOMAIN objects |->
                        IF Unsupported(op, objects[i]) THEN << >>
                        ELSE <<[op |-> op, on |-> objects[i]]>>]
<1>1. DOMAIN objects = 1 .. Len(objects) /\ Len(objects) \in Nat
  OBVIOUS
<1>2. ASSUME NEW i \in DOMAIN objects
      PROVE  lists[i] \in Seq(T)
  OBVIOUS
<1>3. lists = [i \in 1 .. Len(objects) |-> lists[i]]
  BY <1>1
<1>4. Statement(op, objects) = FlattenSeq(lists)
  BY DEF Statement, ForEach
<1> HIDE DEF lists
<1>5. QED
  BY <1>1, <1>2, <1>3, <1>4, FlattenSeqType

\* What Drops writes.
LEMMA DropListType ==
    ASSUME NEW T, NEW objects \in Seq(Object),
           \A i \in DOMAIN objects :
               objects[i].kind \in granted /\ ~ Unsupported("drop", objects[i]) =>
                   [op |-> "drop", on |-> objects[i]] \in T
    PROVE  Drops(objects) \in Seq(T)
<1> DEFINE lists == [i \in DOMAIN objects |->
                        IF objects[i].kind \in granted THEN Statement("drop", <<objects[i]>>)
                        ELSE << >>]
<1>1. DOMAIN objects = 1 .. Len(objects) /\ Len(objects) \in Nat
  OBVIOUS
<1>2. ASSUME NEW i \in DOMAIN objects
      PROVE  lists[i] \in Seq(T)
  <2>1. CASE objects[i].kind \in granted
    <3> DEFINE one == <<objects[i]>>
    <3>1. one \in Seq(Object) /\ \A j \in DOMAIN one : one[j] = objects[i]
      OBVIOUS
    <3> HIDE DEF one
    <3>2. \A j \in DOMAIN one :
              ~ Unsupported("drop", one[j]) => [op |-> "drop", on |-> one[j]] \in T
      BY <2>1, <3>1
    <3>3. Statement("drop", one) \in Seq(T)
      BY <3>1, <3>2, StatementType
    <3>4. QED
      BY <2>1, <3>3 DEF one
  <2>2. CASE objects[i].kind \notin granted
    BY <2>2
  <2>3. QED
    BY <2>1, <2>2
<1>3. lists = [i \in 1 .. Len(objects) |-> lists[i]]
  BY <1>1
<1>4. Drops(objects) = FlattenSeq(lists)
  BY DEF Drops, ForEach
<1> HIDE DEF lists
<1>5. QED
  BY <1>1, <1>2, <1>3, <1>4, FlattenSeqType

\* What Statement and Drops write of an object of their list.
LEMMA StatementHas ==
    ASSUME NEW op, NEW objects \in Seq(Object), NEW o, Has(objects, o), ~ Unsupported(op, o)
    PROVE  Has(Statement(op, objects), [op |-> op, on |-> o])
<1> DEFINE lists == [i \in DOMAIN objects |->
                        IF Unsupported(op, objects[i]) THEN << >>
                        ELSE <<[op |-> op, on |-> objects[i]]>>]
           T == {[op |-> op, on |-> objects[i]] : i \in DOMAIN objects}
<1>1. DOMAIN objects = 1 .. Len(objects) /\ Len(objects) \in Nat
  OBVIOUS
<1>2. ASSUME NEW i \in 1 .. Len(objects) PROVE lists[i] \in Seq(T)
  <2>1. i \in DOMAIN objects
    BY <1>1
  <2>2. [op |-> op, on |-> objects[i]] \in T
    BY <2>1
  <2>3. lists[i] = << >> \/ lists[i] = <<[op |-> op, on |-> objects[i]]>>
    BY <2>1
  <2> HIDE DEF T, lists
  <2>4. PICK s \in T : s = [op |-> op, on |-> objects[i]]
    BY <2>2
  <2>5. << >> \in Seq(T) /\ <<s>> \in Seq(T)
    OBVIOUS
  <2>6. lists[i] = << >> \/ lists[i] = <<s>>
    BY <2>3, <2>4
  <2>7. CASE lists[i] = << >>
    BY <2>5, <2>7
  <2>8. CASE lists[i] = <<s>>
    BY <2>5, <2>8
  <2>9. QED
    BY <2>6, <2>7, <2>8
<1>3. lists = [i \in 1 .. Len(objects) |-> lists[i]]
  BY <1>1
<1>4. Statement(op, objects) = FlattenSeq(lists)
  BY DEF Statement, ForEach
<1>5. PICK k \in 1 .. Len(objects) : objects[k] = o
  BY <1>1 DEF Has
<1>6. Has(lists[k], [op |-> op, on |-> o])
  <2>1. lists[k] = <<[op |-> op, on |-> o]>>
    BY <1>1, <1>5
  <2> HIDE DEF lists
  <2>2. 1 \in DOMAIN lists[k] /\ lists[k][1] = [op |-> op, on |-> o]
    BY <2>1
  <2>3. QED
    BY <2>2 DEF Has
<1> HIDE DEF lists, T
<1>7. QED
  BY <1>1, <1>2, <1>3, <1>4, <1>6, FlattenSeqHas

LEMMA DropsHas ==
    ASSUME NEW objects \in Seq(Object), NEW o \in Object, Has(objects, o),
           o.kind \in granted, ~ Unsupported("drop", o)
    PROVE  Has(Drops(objects), [op |-> "drop", on |-> o])
<1> DEFINE lists == [i \in DOMAIN objects |->
                        IF objects[i].kind \in granted THEN Statement("drop", <<objects[i]>>)
                        ELSE << >>]
           T == {[op |-> "drop", on |-> p] : p \in Object}
<1>1. DOMAIN objects = 1 .. Len(objects) /\ Len(objects) \in Nat
  OBVIOUS
<1>2. ASSUME NEW i \in 1 .. Len(objects) PROVE lists[i] \in Seq(T)
  <2> DEFINE one == <<objects[i]>>
  <2>1. one \in Seq(Object)
    OBVIOUS
  <2>2. \A j \in DOMAIN one : [op |-> "drop", on |-> one[j]] \in T
    BY <2>1
  <2>3. lists[i] = Statement("drop", one) \/ lists[i] = << >>
    BY <1>1
  <2> HIDE DEF one, T, lists
  <2>4. Statement("drop", one) \in Seq(T)
    BY <2>1, <2>2, StatementType
  <2>5. << >> \in Seq(T)
    OBVIOUS
  <2>6. CASE lists[i] = << >>
    BY <2>5, <2>6
  <2>7. QED
    BY <2>3, <2>4, <2>6
<1>3. lists = [i \in 1 .. Len(objects) |-> lists[i]]
  BY <1>1
<1>4. Drops(objects) = FlattenSeq(lists)
  BY DEF Drops, ForEach
<1>5. PICK k \in 1 .. Len(objects) : objects[k] = o
  BY <1>1 DEF Has
<1>6. Has(lists[k], [op |-> "drop", on |-> o])
  <2> DEFINE one == <<o>>
  <2>1. one \in Seq(Object) /\ Has(one, o)
    BY DEF Has
  <2>2. lists[k] = Statement("drop", one)
    BY <1>1, <1>5
  <2> HIDE DEF one, lists
  <2>3. QED
    BY <2>1, <2>2, StatementHas
<1> HIDE DEF lists, T
<1>7. QED
  BY <1>1, <1>2, <1>3, <1>4, <1>6, FlattenSeqHas

LEMMA DropsType ==
    ASSUME NEW objects \in Seq(Object),
           \A i \in DOMAIN objects : objects[i].kind \in granted => objects[i] \in Removed
    PROVE  Drops(objects) \in Scripts
<1>1. \A i \in DOMAIN objects : objects[i].kind \in granted =>
          [op |-> "drop", on |-> objects[i]] \in Plain
  BY DEF Plain, RightStatements, Statements, Right, Removed
<1>2. QED
  BY <1>1, DropListType, PlainScript

LEMMA CreatesType ==
    ASSUME NEW objects \in Seq(Object), 
           \A i \in DOMAIN objects : objects[i] \in Added \/ Renewed(objects[i])
    PROVE  Creates(objects) \in Scripts
<1>1. \A i \in DOMAIN objects : [op |-> "create", on |-> objects[i]] \in Plain
  BY DEF Plain, RightStatements, Statements, Right
<1>2. QED
  BY <1>1, StatementType, PlainScript DEF Creates

LEMMA AltersType ==
    ASSUME NEW objects \in Seq(Object),
           \A i \in DOMAIN objects :
               objects[i] \in Modified /\ objects[i].kind \in {"column", "view"}
    PROVE  Alters(objects) \in Scripts
<1>1. \A i \in DOMAIN objects : [op |-> "alter", on |-> objects[i]] \in Plain
  BY DEF Plain, RightStatements, Statements, Right
<1>2. QED
  BY <1>1, StatementType, PlainScript DEF Alters

LEMMA TextsType ==
    ASSUME NEW objects \in Seq(Object)
    PROVE  Texts(objects) \in Scripts
<1>1. \A i \in DOMAIN objects : [op |-> "text", on |-> objects[i]] \in Plain
  BY DEF Plain, RightStatements, Statements, Right
<1>2. QED
  BY <1>1, StatementType, PlainScript DEF Texts

\* A new table, with the indexes and foreign keys of its own.
LEMMA NewTableType ==
    ASSUME MigrationTypeOK, NEW t \in Added, NEW walk \in Seq(Added)
    PROVE  NewTable(t, walk) \in Scripts
<1>1. Added \subseteq Object
  BY DifferencesType
<1>2. ASSUME NEW o \in Added PROVE Creates(<<o>>) \in Scripts
  <2> DEFINE one == <<o>>
  <2>1. one \in Seq(Object) /\ \A i \in DOMAIN one : one[i] \in Added
    BY <1>1
  <2> HIDE DEF one
  <2>2. Creates(one) \in Scripts
    BY <2>1, CreatesType
  <2>3. QED
    BY <2>2 DEF one
<1> DEFINE own(kind) ==
               [i \in DOMAIN walk |->
                   IF PartOf(walk[i], t) /\ walk[i].kind = kind THEN Creates(<<walk[i]>>)
                   ELSE << >>]
<1>3. ASSUME NEW kind PROVE FlattenSeq(own(kind)) \in Scripts
  <2>1. DOMAIN walk = 1 .. Len(walk) /\ Len(walk) \in Nat
    OBVIOUS
  <2>2. \A i \in 1 .. Len(walk) : own(kind)[i] \in Scripts
    BY <1>2, <2>1, NoScript
  <2>3. own(kind) = [i \in 1 .. Len(walk) |-> own(kind)[i]]
    BY <2>1
  <2> HIDE DEF own
  <2>4. QED
    BY <2>1, <2>2, <2>3, FlattenScripts
<1>4. NewTable(t, walk) =
          Creates(<<t>>) \o FlattenSeq(own("index")) \o FlattenSeq(own("fk"))
  BY DEF NewTable, ForEach
<1> HIDE DEF own
<1>5. Creates(<<t>>) \o FlattenSeq(own("index")) \in Scripts
  BY <1>2, <1>3, Follows
<1>6. QED
  BY <1>3, <1>4, <1>5, Follows

\* The primary keys of a table that are written are removed, added or modified:
\* a table has one.
LEMMA ChangedPrimaryKeyType ==
    ASSUME MigrationTypeOK, NEW t \in OfKind(Kept, "table")
    PROVE  ChangedPrimaryKey(t) \in Scripts
<1> DEFINE keys(schema) == OfTable(OfKind(DOMAIN schema, "pk"), t)
           changed == OfTable(OfKind(Added \cup Removed \cup Modified, "pk"), t)
<1>1. CASE changed = {} \/ "pk" \notin granted
  <2>1. ChangedPrimaryKey(t) = << >>
    BY <1>1 DEF ChangedPrimaryKey
  <2>2. QED
    BY <2>1, NoScript
<1>2. CASE ~ (changed = {} \/ "pk" \notin granted)
  <2>1. PICK q \in changed : TRUE
    BY <1>2
  <2>2. t \in Object /\ t.kind = "table"
    BY DifferencesType DEF OfKind
  <2>3. ASSUME NEW schema, WellFormed(schema),
               NEW o \in keys(schema), NEW p \in keys(schema)
        PROVE  o = p
    <3>1. OfTable(OfKind(DOMAIN schema, "pk"), Owner(o)) = {o}
      BY <2>3 DEF WellFormed, OfTable, OfKind
    <3>2. p \in OfTable(OfKind(DOMAIN schema, "pk"), Owner(o))
      BY <2>2 DEF OfTable, PartOf, Owner, OfKind
    <3>3. QED
      BY <3>1, <3>2
  <2>4. WellFormed(source) /\ WellFormed(target)
    BY DEF MigrationTypeOK, Sound
  <2>5. /\ q \in Added => q \in keys(target) /\ q \notin DOMAIN source
        /\ q \in Removed => q \in keys(source) /\ q \notin DOMAIN target
        /\ q \in Modified => q \in keys(source) /\ q \in keys(target)
        /\ q \in Added \/ q \in Removed \/ q \in Modified
    BY DEF Added, Removed, Modified, Kept, OfTable, OfKind
  <2>6. ASSUME NEW p \in keys(source) PROVE p \in Removed \/ Renewed(p)
    <3>1. p \in DOMAIN source /\ p.kind = "pk"
      BY DEF OfTable, OfKind
    <3>2. CASE p \in DOMAIN target
      <4>1. p \in keys(target)
        BY <3>2 DEF OfTable, OfKind
      <4>2. p = q
        BY <2>3, <2>4, <2>5, <4>1
      <4>3. QED
        BY <1>2, <2>5, <3>1, <3>2, <4>2 DEF Renewed, Added, Removed
    <3>3. CASE p \notin DOMAIN target
      BY <3>1, <3>3 DEF Removed
    <3>4. QED
      BY <3>2, <3>3
  <2>7. ASSUME NEW p \in keys(target) PROVE p \in Added \/ Renewed(p)
    <3>1. p \in DOMAIN target /\ p.kind = "pk"
      BY DEF OfTable, OfKind
    <3>2. CASE p \in DOMAIN source
      <4>1. p \in keys(source)
        BY <3>2 DEF OfTable, OfKind
      <4>2. p = q
        BY <2>3, <2>4, <2>5, <4>1
      <4>3. QED
        BY <1>2, <2>5, <3>1, <3>2, <4>2 DEF Renewed, Added, Removed
    <3>3. CASE p \notin DOMAIN source
      BY <3>1, <3>3 DEF Added
    <3>4. QED
      BY <3>2, <3>3
  <2>8. keys(source) \in SUBSET DOMAIN source /\ keys(target) \in SUBSET DOMAIN target
    BY DEF OfTable, OfKind
  <2>9. ChangedPrimaryKey(t) = Drops(ByName(keys(source))) \o Creates(ByName(keys(target)))
    BY <1>2 DEF ChangedPrimaryKey
  <2> HIDE DEF keys
  <2>10. Creates(ByName(keys(target))) \in Scripts
    BY <2>7, <2>8, DifferencesType, PartByName, CreatesType
  <2> DEFINE T == {s \in RightStatements :
                      s.on \in keys(source) /\ ~ Unsupported("drop", s.on)}
  <2>11. Drops(ByName(keys(source))) \in Seq(T)
    <3>1. /\ ByName(keys(source)) \in Seq(Object)
          /\ \A i \in DOMAIN ByName(keys(source)) : ByName(keys(source))[i] \in keys(source)
      BY <2>8, DifferencesType, PartByName
    <3>2. ASSUME NEW o \in keys(source), o.kind \in granted, ~ Unsupported("drop", o)
          PROVE  [op |-> "drop", on |-> o] \in T
      <4>1. o \in Object /\ (o \in Removed \/ Renewed(o))
        BY <2>6, <2>8, DifferencesType
      <4>2. QED
        BY <3>2, <4>1 DEF RightStatements, Statements, Right
    <3> HIDE DEF T
    <3>3. QED
      BY <3>1, <3>2, DropListType
  <2>12. Drops(ByName(keys(source))) \in Seq(RightStatements)
    BY <2>11
  <2>13. ASSUME NEW i \in DOMAIN Drops(ByName(keys(source)))
         PROVE  LET s == Drops(ByName(keys(source)))[i]
                IN  s.op = "drop" /\ s.on \in DOMAIN target =>
                        Has(Creates(ByName(keys(target))), [op |-> "create", on |-> s.on])
    <3> DEFINE s == Drops(ByName(keys(source)))[i]
    <3>1. s \in T
      BY <2>11
    <3>2. SUFFICES ASSUME s.on \in DOMAIN target
                   PROVE  Has(Creates(ByName(keys(target))), [op |-> "create", on |-> s.on])
      OBVIOUS
    <3>3. s.on \in keys(target) /\ s.on.kind = "pk"
      BY <3>1, <3>2 DEF keys, OfTable, OfKind
    <3>4. Has(ByName(keys(target)), s.on)
      BY <2>8, <3>3, DifferencesType, ByNameHas
    <3>5. ~ Unsupported("create", s.on)
      BY <3>1, <3>3 DEF Unsupported
    <3>6. ByName(keys(target)) \in Seq(Object)
      BY <2>8, DifferencesType, PartByName
    <3> HIDE DEF s
    <3>7. QED
      BY <3>4, <3>5, <3>6, StatementHas DEF Creates
  <2>14. QED
    BY <2>9, <2>10, <2>12, <2>13, RestoringPut
<1>3. QED
  BY <1>1, <1>2

\* What is added is created, and what is removed is dropped.
LEMMA PartsType ==
    ASSUME MigrationTypeOK
    PROVE  /\ \A R \in SUBSET Added :
                  /\ Creates(ByName(R)) \in Scripts
                  /\ Texts(ByName(R)) \in Scripts
           /\ \A R \in SUBSET Removed : Drops(ByName(R)) \in Scripts
<1>1. ASSUME NEW R \in SUBSET Added
      PROVE  /\ Creates(ByName(R)) \in Scripts
             /\ Texts(ByName(R)) \in Scripts
  <2>1. ByName(R) \in Seq(Object) /\ \A i \in DOMAIN ByName(R) : ByName(R)[i] \in R
    BY DifferencesType, PartByName
  <2>2. \A i \in DOMAIN ByName(R) : ByName(R)[i] \in Added
    BY <2>1
  <2>3. QED
    BY <2>1, <2>2, CreatesType, TextsType
<1>2. ASSUME NEW R \in SUBSET Removed
      PROVE  Drops(ByName(R)) \in Scripts
  <2>1. ByName(R) \in Seq(Object) /\ \A i \in DOMAIN ByName(R) : ByName(R)[i] \in R
    BY DifferencesType, PartByName
  <2>2. \A i \in DOMAIN ByName(R) : ByName(R)[i] \in Removed
    BY <2>1
  <2>3. QED
    BY <2>1, <2>2, DropsType
<1>3. QED
  BY <1>1, <1>2

\* The section of a table that is kept.
LEMMA ChangedTableSections ==
    ASSUME MigrationTypeOK, NEW t \in OfKind(Kept, "table")
    PROVE  LET In(S, kind) == ByName(OfTable(OfKind(S, kind), t))
           IN  /\ Creates(In(Added, "column")) \in Scripts
               /\ Drops(In(Removed, "column")) \in Scripts
               /\ Alters(In(Modified, "column")) \in Scripts
               /\ Creates(In(Added, "index")) \in Scripts
               /\ Drops(In(Removed, "index")) \in Scripts
               /\ Drops(In(Removed, "fk")) \in Scripts
               /\ Creates(In(Added, "fk")) \in Scripts
               /\ ChangedPrimaryKey(t) \in Scripts
<1> DEFINE In(S, kind) == ByName(OfTable(OfKind(S, kind), t))
           a == Creates(In(Added, "column"))
           b == Drops(In(Removed, "column"))
           c == Alters(In(Modified, "column"))
           d == Creates(In(Added, "index"))
           e == Drops(In(Removed, "index"))
           f == Drops(In(Removed, "fk"))
           h == Creates(In(Added, "fk"))
           k == ChangedPrimaryKey(t)
<1>1. ASSUME NEW S, NEW kind
      PROVE  OfTable(OfKind(S, kind), t) \in SUBSET S
  BY DEF OfTable, OfKind
<1>2. c \in Scripts
  <2> DEFINE R == OfTable(OfKind(Modified, "column"), t)
  <2>1. R \in SUBSET Modified /\ \A o \in R : o.kind = "column"
    BY DEF OfTable, OfKind
  <2> HIDE DEF R
  <2>2. ByName(R) \in Seq(Object) /\ \A i \in DOMAIN ByName(R) : ByName(R)[i] \in R
    BY <2>1, DifferencesType, PartByName
  <2>3. \A i \in DOMAIN ByName(R) :
            ByName(R)[i] \in Modified /\ ByName(R)[i].kind \in {"column", "view"}
    BY <2>1, <2>2
  <2>4. Alters(ByName(R)) \in Scripts
    BY <2>2, <2>3, AltersType
  <2>5. QED
    BY <2>4 DEF R
<1>3. /\ a \in Scripts /\ b \in Scripts
      /\ d \in Scripts /\ e \in Scripts
      /\ f \in Scripts /\ h \in Scripts
  BY <1>1, PartsType
<1>4. k \in Scripts
  BY ChangedPrimaryKeyType
<1>5. QED
  BY <1>2, <1>3, <1>4

LEMMA ChangedTableType ==
    ASSUME MigrationTypeOK, NEW t \in OfKind(Kept, "table")
    PROVE  ChangedTable(t) \in Scripts
<1> DEFINE In(S, kind) == ByName(OfTable(OfKind(S, kind), t))
           a == Creates(In(Added, "column"))
           b == Drops(In(Removed, "column"))
           c == Alters(In(Modified, "column"))
           d == Creates(In(Added, "index"))
           e == Drops(In(Removed, "index"))
           f == Drops(In(Removed, "fk"))
           h == Creates(In(Added, "fk"))
           k == ChangedPrimaryKey(t)
<1>1. /\ a \in Scripts /\ b \in Scripts /\ c \in Scripts /\ d \in Scripts
      /\ e \in Scripts /\ f \in Scripts /\ h \in Scripts /\ k \in Scripts
  BY ChangedTableSections
<1>2. ChangedTable(t) = a \o b \o c \o d \o e \o f \o h \o k
  BY DEF ChangedTable
<1> HIDE DEF a, b, c, d, e, f, h, k
<1>3. a \o b \o c \o d \in Scripts
  BY <1>1, Follows
<1>4. a \o b \o c \o d \o e \o f \o h \o k \in Scripts
  BY <1>1, <1>3, Follows
<1>5. QED
  BY <1>2, <1>4

\* No call may drop views, so none that differs is dropped.
LEMMA ChangedViewType ==
    ASSUME MigrationTypeOK, NEW v \in OfKind(Modified, "view")
    PROVE  ChangedView(v) \in Scripts
<1>1. "view" \notin granted
  BY DEF MigrationTypeOK, Grants
<1>2. v \in Object /\ v.kind = "view"
  BY DifferencesType DEF OfKind
<1> DEFINE one == <<v>>
<1>3. one \in Seq(Object) /\ \A i \in DOMAIN one : one[i] \in Modified /\ one[i].kind = "view"
  BY <1>2 DEF OfKind
<1> HIDE DEF one
<1>4. Drops(one) \in Scripts
  BY <1>1, <1>3, DropsType
<1>5. Alters(one) \in Scripts
  BY <1>3, AltersType
<1>6. << >> \in Scripts
  BY NoScript
<1>7. ChangedView(v) \in {Drops(one) \o << >>, Alters(one), << >>}
  BY <1>1 DEF ChangedView, one
<1>8. QED
  BY <1>4, <1>5, <1>6, <1>7, Follows

\* The sections of the objects that belong to no table.
LEMMA FreeType ==
    ASSUME MigrationTypeOK
    PROVE  /\ Views \in Scripts /\ Routines \in Scripts
           /\ Triggers \in Scripts /\ Sequences \in Scripts
<1>1. ASSUME NEW S, NEW kind PROVE OfKind(S, kind) \in SUBSET S
  BY DEF OfKind
<1>2. Routines \in Scripts
  BY <1>1, PartsType, Follows DEF Routines
<1>3. Triggers \in Scripts
  BY <1>1, PartsType, Follows DEF Triggers
<1>4. Sequences \in Scripts
  BY <1>1, PartsType, Follows DEF Sequences
<1>5. Views \in Scripts
  <2> DEFINE views == ByName(OfKind(Modified, "view"))
             lists == [i \in DOMAIN views |-> ChangedView(views[i])]
             gone == Drops(ByName(OfKind(Removed, "view")))
             come == Creates(ByName(OfKind(Added, "view")))
  <2>1. views \in Seq(OfKind(Modified, "view"))
    BY <1>1, DifferencesType, PartByName
  <2>2. Views = gone \o come \o FlattenSeq(lists)
    BY DEF Views, ForEach
  <2>3. gone \in Scripts /\ come \in Scripts
    BY <1>1, PartsType
  <2> HIDE DEF views, gone, come
  <2>4. DOMAIN views = 1 .. Len(views) /\ Len(views) \in Nat
    BY <2>1
  <2>5. \A i \in 1 .. Len(views) : lists[i] \in Scripts
    BY <2>1, <2>4, ChangedViewType
  <2>6. lists = [i \in 1 .. Len(views) |-> lists[i]]
    BY <2>4
  <2> HIDE DEF lists
  <2>7. FlattenSeq(lists) \in Scripts
    BY <2>4, <2>5, <2>6, FlattenScripts
  <2>8. QED
    BY <2>2, <2>3, <2>7, Follows
<1>6. QED
  BY <1>2, <1>3, <1>4, <1>5

\* The map walk lists what is added.
LEMMA WalkType ==
    ASSUME MigrationTypeOK, NEW walk \in SetToSeqs(Walked)
    PROVE  walk \in Seq(Added) /\ \A o \in Walked : Has(walk, o)
<1>1. Walked \subseteq Added
  BY DEF Walked
<1>2. Cardinality(Walked) \in Nat /\ IsFiniteSet(Walked)
  BY <1>1, DifferencesType, FS_Subset, FS_CardinalityType
<1>3. walk \in [1 .. Cardinality(Walked) -> Walked]
  BY DEF SetToSeqs
<1>4. walk \in Seq(Walked)
  BY <1>2, <1>3
<1>5. QED
  BY <1>1, <1>2, <1>4, SetToSeqsHas

\* The whole script.
LEMMA ScriptType ==
    ASSUME MigrationTypeOK, NEW walk \in SetToSeqs(Walked)
    PROVE  Script(walk) \in Scripts
<1>1. walk \in Seq(Added)
  BY WalkType
<1> DEFINE drops == Drops(dropping)
           news == [i \in DOMAIN creating |-> NewTable(creating[i], walk)]
           kept == ByName(OfKind(Kept, "table"))
           changes == [i \in DOMAIN kept |-> ChangedTable(kept[i])]
<1>2. Script(walk) = drops \o FlattenSeq(news) \o FlattenSeq(changes)
                     \o Views \o Routines \o Triggers \o Sequences
  BY DEF Script, ForEach
<1>3. drops \in Scripts
  <2>1. dropping \in Seq(Object) /\ \A i \in DOMAIN dropping : dropping[i] \in Removed
    BY DifferencesType DEF MigrationTypeOK, OfKind
  <2>2. QED
    BY <2>1, DropsType
<1>4. FlattenSeq(news) \in Scripts
  <2>1. creating \in Seq(Added)
    BY DEF MigrationTypeOK, OfKind
  <2>2. DOMAIN creating = 1 .. Len(creating) /\ Len(creating) \in Nat
    BY <2>1
  <2>3. \A i \in 1 .. Len(creating) : news[i] \in Scripts
    BY <1>1, <2>1, <2>2, NewTableType
  <2>4. news = [i \in 1 .. Len(creating) |-> news[i]]
    BY <2>2
  <2> HIDE DEF news
  <2>5. QED
    BY <2>2, <2>3, <2>4, FlattenScripts
<1>5. FlattenSeq(changes) \in Scripts
  <2>1. kept \in Seq(OfKind(Kept, "table"))
    <3>1. OfKind(Kept, "table") \in SUBSET Kept
      BY DEF OfKind
    <3>2. QED
      BY <3>1, DifferencesType, PartByName
  <2> HIDE DEF kept
  <2>2. DOMAIN kept = 1 .. Len(kept) /\ Len(kept) \in Nat
    BY <2>1
  <2>3. \A i \in 1 .. Len(kept) : changes[i] \in Scripts
    BY <2>1, <2>2, ChangedTableType
  <2>4. changes = [i \in 1 .. Len(kept) |-> changes[i]]
    BY <2>2
  <2> HIDE DEF changes
  <2>5. QED
    BY <2>2, <2>3, <2>4, FlattenScripts
<1> HIDE DEF drops, news, changes
<1>6. drops \o FlattenSeq(news) \o FlattenSeq(changes) \in Scripts
  BY <1>3, <1>4, <1>5, Follows
<1>7. drops \o FlattenSeq(news) \o FlattenSeq(changes)
          \o Views \o Routines \o Triggers \o Sequences \in Scripts
  BY <1>6, FreeType, Follows
<1>8. QED
  BY <1>2, <1>7

(***************************************************************************)
(* What a script has.                                                      *)
(***************************************************************************)

\* What one of two scripts has, one after the other has.
LEMMA FollowsHas ==
    ASSUME NEW a \in Scripts, NEW b \in Scripts, NEW x, Has(a, x) \/ Has(b, x)
    PROVE  a \o b \in Scripts /\ Has(a \o b, x)
<1>1. a \in Seq(RightStatements) /\ b \in Seq(RightStatements)
  BY DEF Scripts
<1>2. QED
  BY <1>1, HasPut, Follows

\* What one of some scripts has, all of them in a row have.
LEMMA FlattenScriptsHas ==
    ASSUME NEW n \in Nat, NEW lists, lists = [i \in 1 .. n |-> lists[i]],
           \A i \in 1 .. n : lists[i] \in Scripts,
           NEW k \in 1 .. n, NEW x, Has(lists[k], x)
    PROVE  Has(FlattenSeq(lists), x)
<1>1. \A i \in 1 .. n : lists[i] \in Seq(RightStatements)
  BY DEF Scripts
<1>2. QED
  BY <1>1, FlattenSeqHas

\* An object of a list by name has its statement.
LEMMA CreatesHas ==
    ASSUME MigrationTypeOK, NEW S, S \in {Added, Removed, Modified, DOMAIN source, DOMAIN target},
           NEW R \in SUBSET S, NEW o \in R
    PROVE  /\ ~ Unsupported("create", o) => Has(Creates(ByName(R)), [op |-> "create", on |-> o])
           /\ ~ Unsupported("alter", o) => Has(Alters(ByName(R)), [op |-> "alter", on |-> o])
           /\ ~ Unsupported("drop", o) /\ o.kind \in granted =>
                  Has(Drops(ByName(R)), [op |-> "drop", on |-> o])
<1>1. S \subseteq Object /\ IsFiniteSet(S)
  BY DifferencesType
<1>2. ByName(R) \in Seq(Object) /\ Has(ByName(R), o) /\ o \in Object
  BY <1>1, PartByName, ByNameHas
<1>3. QED
  BY <1>2, StatementHas, DropsHas DEF Creates, Alters

\* The statements of a new table: its own, and those of its indexes and foreign
\* keys.
LEMMA NewTableHas ==
    ASSUME MigrationTypeOK, NEW t \in OfKind(Added, "table"), NEW walk \in Seq(Added)
    PROVE  /\ Has(NewTable(t, walk), [op |-> "create", on |-> t])
           /\ \A o \in Added :
                  Has(walk, o) /\ PartOf(o, t) /\ o.kind \in {"index", "fk"}
                  /\ ~ Unsupported("create", o) =>
                      Has(NewTable(t, walk), [op |-> "create", on |-> o])
<1>1. Added \subseteq Object
  BY DifferencesType
<1>2. ASSUME NEW o \in Added
      PROVE  /\ Creates(<<o>>) \in Scripts
             /\ ~ Unsupported("create", o) => Has(Creates(<<o>>), [op |-> "create", on |-> o])
  <2> DEFINE one == <<o>>
  <2>1. one \in Seq(Object) /\ \A i \in DOMAIN one : one[i] \in Added
    BY <1>1
  <2>2. Has(one, o)
    BY DEF Has
  <2> HIDE DEF one
  <2>3. Creates(one) \in Scripts
    BY <2>1, CreatesType
  <2>4. ~ Unsupported("create", o) => Has(Creates(one), [op |-> "create", on |-> o])
    BY <2>1, <2>2, StatementHas DEF Creates
  <2>5. QED
    BY <2>3, <2>4 DEF one
<1> DEFINE own(kind) ==
               [i \in DOMAIN walk |->
                   IF PartOf(walk[i], t) /\ walk[i].kind = kind THEN Creates(<<walk[i]>>)
                   ELSE << >>]
           first == Creates(<<t>>)
           second == FlattenSeq(own("index"))
           third == FlattenSeq(own("fk"))
<1>3. ASSUME NEW kind
      PROVE  /\ FlattenSeq(own(kind)) \in Scripts
             /\ \A o \in Added :
                    Has(walk, o) /\ PartOf(o, t) /\ o.kind = kind /\ ~ Unsupported("create", o) =>
                        Has(FlattenSeq(own(kind)), [op |-> "create", on |-> o])
  <2>1. DOMAIN walk = 1 .. Len(walk) /\ Len(walk) \in Nat
    OBVIOUS
  <2>2. ASSUME NEW i \in 1 .. Len(walk) PROVE own(kind)[i] \in Scripts
    <3>1. walk[i] \in Added /\ own(kind)[i] \in {Creates(<<walk[i]>>), << >>}
      BY <2>1
    <3> HIDE DEF own
    <3>2. QED
      BY <1>2, <3>1, NoScript
  <2>3. own(kind) = [i \in 1 .. Len(walk) |-> own(kind)[i]]
    BY <2>1
  <2>4. ASSUME NEW o \in Added,
               Has(walk, o), PartOf(o, t), o.kind = kind, ~ Unsupported("create", o)
        PROVE  Has(FlattenSeq(own(kind)), [op |-> "create", on |-> o])
    <3>1. PICK k \in 1 .. Len(walk) : walk[k] = o
      BY <2>1, <2>4 DEF Has
    <3>2. own(kind)[k] = Creates(<<o>>)
      BY <2>1, <2>4, <3>1
    <3> HIDE DEF own
    <3>3. Has(own(kind)[k], [op |-> "create", on |-> o])
      BY <1>2, <2>4, <3>2
    <3>4. QED
      BY <2>1, <2>2, <2>3, <3>3, FlattenScriptsHas
  <2> HIDE DEF own
  <2>5. FlattenSeq(own(kind)) \in Scripts
    BY <2>1, <2>2, <2>3, FlattenScripts
  <2>6. QED
    BY <2>4, <2>5
<1>4. NewTable(t, walk) = first \o second \o third
  BY DEF NewTable, ForEach
<1>5. t \in Added /\ t.kind = "table" /\ ~ Unsupported("create", t)
  BY DEF OfKind, Unsupported
<1>6. first \in Scripts /\ Has(first, [op |-> "create", on |-> t])
  BY <1>2, <1>5
<1>7. second \in Scripts /\ third \in Scripts
  BY <1>3
<1>8. ASSUME NEW x, Has(first, x) \/ Has(second, x) \/ Has(third, x)
      PROVE  Has(NewTable(t, walk), x)
  <2> HIDE DEF first, second, third
  <2>1. first \o second \in Scripts
    BY <1>6, <1>7, Follows
  <2>2. Has(first, x) \/ Has(second, x) => Has(first \o second, x)
    BY <1>6, <1>7, FollowsHas
  <2>3. QED
    BY <1>4, <1>7, <1>8, <2>1, <2>2, FollowsHas
<1>9. ASSUME NEW o \in Added,
             Has(walk, o), PartOf(o, t), o.kind \in {"index", "fk"}, ~ Unsupported("create", o)
      PROVE  Has(NewTable(t, walk), [op |-> "create", on |-> o])
  <2>1. Has(second, [op |-> "create", on |-> o]) \/ Has(third, [op |-> "create", on |-> o])
    BY <1>3, <1>9
  <2> HIDE DEF second, third
  <2>2. QED
    BY <1>8, <2>1
<1>10. QED
  BY <1>6, <1>8, <1>9

\* The two statements of a primary key.
LEMMA ChangedPrimaryKeyHas ==
    ASSUME MigrationTypeOK, NEW t \in OfKind(Kept, "table"), NEW o, PartOf(o, t),
           o.kind = "pk", "pk" \in granted
    PROVE  /\ o \in Added \cup Modified /\ ~ Unsupported("create", o)
                  => Has(ChangedPrimaryKey(t), [op |-> "create", on |-> o])
           /\ o \in Removed /\ ~ Unsupported("drop", o)
                  => Has(ChangedPrimaryKey(t), [op |-> "drop", on |-> o])
<1> DEFINE keys(schema) == OfTable(OfKind(DOMAIN schema, "pk"), t)
           drops == Drops(ByName(keys(source)))
           creates == Creates(ByName(keys(target)))
           changed == OfTable(OfKind(Added \cup Removed \cup Modified, "pk"), t)
<1>1. SUFFICES ASSUME o \in Added \cup Removed \cup Modified
               PROVE  /\ o \in Added \cup Modified /\ ~ Unsupported("create", o)
                            => Has(ChangedPrimaryKey(t), [op |-> "create", on |-> o])
                      /\ o \in Removed /\ ~ Unsupported("drop", o)
                            => Has(ChangedPrimaryKey(t), [op |-> "drop", on |-> o])
  OBVIOUS
<1>2. o \in changed
  BY <1>1 DEF OfTable, OfKind
<1>3. ChangedPrimaryKey(t) = drops \o creates
  BY <1>2 DEF ChangedPrimaryKey
<1>4. /\ keys(source) \in SUBSET DOMAIN source /\ keys(target) \in SUBSET DOMAIN target
      /\ o \in Added \cup Modified => o \in keys(target)
      /\ o \in Removed => o \in keys(source)
  BY DEF OfTable, OfKind, Added, Modified, Kept, Removed
<1> HIDE DEF keys
<1>5. /\ o \in Added \cup Modified /\ ~ Unsupported("create", o)
             => Has(creates, [op |-> "create", on |-> o])
      /\ o \in Removed /\ ~ Unsupported("drop", o) => Has(drops, [op |-> "drop", on |-> o])
  BY <1>4, CreatesHas
<1>6. drops \in Seq(Statements) /\ creates \in Seq(Statements)
  <2>1. /\ ByName(keys(source)) \in Seq(Object) /\ ByName(keys(target)) \in Seq(Object)
    BY <1>4, DifferencesType, PartByName
  <2>2. \A p \in Object : [op |-> "create", on |-> p] \in Statements
                         /\ [op |-> "drop", on |-> p] \in Statements
    BY DEF Statements
  <2>3. ASSUME NEW list \in Seq(Object)
        PROVE  Drops(list) \in Seq(Statements) /\ Statement("create", list) \in Seq(Statements)
    <3>1. \A i \in DOMAIN list : list[i] \in Object
      OBVIOUS
    <3>2. \A i \in DOMAIN list : /\ [op |-> "drop", on |-> list[i]] \in Statements
                                /\ [op |-> "create", on |-> list[i]] \in Statements
      BY <2>2, <3>1
    <3>3. QED
      BY <3>2, StatementType, DropListType
  <2>4. QED
    BY <2>1, <2>3 DEF Creates
<1> HIDE DEF drops, creates
<1>7. QED
  BY <1>3, <1>5, <1>6, HasPut

\* The statements of a table that is kept.
LEMMA ChangedTableHas ==
    ASSUME MigrationTypeOK, NEW t \in OfKind(Kept, "table"), NEW o, PartOf(o, t)
    PROVE  /\ o \in Added /\ o.kind \in {"column", "index", "fk"} /\ ~ Unsupported("create", o)
                  => Has(ChangedTable(t), [op |-> "create", on |-> o])
           /\ o \in Removed /\ o.kind \in {"column", "index", "fk"} /\ ~ Unsupported("drop", o)
              /\ o.kind \in granted
                  => Has(ChangedTable(t), [op |-> "drop", on |-> o])
           /\ o \in Modified /\ o.kind = "column" /\ ~ Unsupported("alter", o)
                  => Has(ChangedTable(t), [op |-> "alter", on |-> o])
           /\ o \in Added \cup Modified /\ o.kind = "pk" /\ "pk" \in granted
              /\ ~ Unsupported("create", o)
                  => Has(ChangedTable(t), [op |-> "create", on |-> o])
           /\ o \in Removed /\ o.kind = "pk" /\ "pk" \in granted /\ ~ Unsupported("drop", o)
                  => Has(ChangedTable(t), [op |-> "drop", on |-> o])
<1> DEFINE In(S, kind) == ByName(OfTable(OfKind(S, kind), t))
           a == Creates(In(Added, "column"))
           b == Drops(In(Removed, "column"))
           c == Alters(In(Modified, "column"))
           d == Creates(In(Added, "index"))
           e == Drops(In(Removed, "index"))
           f == Drops(In(Removed, "fk"))
           h == Creates(In(Added, "fk"))
           k == ChangedPrimaryKey(t)
<1>1. ASSUME NEW S, NEW kind
      PROVE  /\ OfTable(OfKind(S, kind), t) \in SUBSET S
             /\ o \in S /\ o.kind = kind => o \in OfTable(OfKind(S, kind), t)
  BY DEF OfTable, OfKind
<1>2. /\ a \in Scripts /\ b \in Scripts /\ c \in Scripts /\ d \in Scripts
      /\ e \in Scripts /\ f \in Scripts /\ h \in Scripts /\ k \in Scripts
  BY ChangedTableSections
<1>3. ChangedTable(t) = a \o b \o c \o d \o e \o f \o h \o k
  BY DEF ChangedTable
<1>4. /\ o \in Added /\ o.kind = "column" /\ ~ Unsupported("create", o)
            => Has(a, [op |-> "create", on |-> o])
      /\ o \in Added /\ o.kind = "index" /\ ~ Unsupported("create", o)
            => Has(d, [op |-> "create", on |-> o])
      /\ o \in Added /\ o.kind = "fk" /\ ~ Unsupported("create", o)
            => Has(h, [op |-> "create", on |-> o])
  BY <1>1, CreatesHas
<1>5. /\ o \in Removed /\ o.kind = "column" /\ ~ Unsupported("drop", o) /\ o.kind \in granted
            => Has(b, [op |-> "drop", on |-> o])
      /\ o \in Removed /\ o.kind = "index" /\ ~ Unsupported("drop", o) /\ o.kind \in granted
            => Has(e, [op |-> "drop", on |-> o])
      /\ o \in Removed /\ o.kind = "fk" /\ ~ Unsupported("drop", o) /\ o.kind \in granted
            => Has(f, [op |-> "drop", on |-> o])
  BY <1>1, CreatesHas
<1>6. o \in Modified /\ o.kind = "column" /\ ~ Unsupported("alter", o)
            => Has(c, [op |-> "alter", on |-> o])
  BY <1>1, CreatesHas
<1>7. ASSUME o.kind = "pk", "pk" \in granted
      PROVE  /\ o \in Added \cup Modified /\ ~ Unsupported("create", o)
                    => Has(k, [op |-> "create", on |-> o])
             /\ o \in Removed /\ ~ Unsupported("drop", o) => Has(k, [op |-> "drop", on |-> o])
  BY <1>7, ChangedPrimaryKeyHas
<1> HIDE DEF a, b, c, d, e, f, h, k
<1>8. ASSUME NEW x, \/ Has(a, x) \/ Has(b, x) \/ Has(c, x) \/ Has(d, x)
                    \/ Has(e, x) \/ Has(f, x) \/ Has(h, x) \/ Has(k, x)
      PROVE  Has(ChangedTable(t), x)
  <2>1. a \o b \in Scripts /\ (Has(a, x) \/ Has(b, x) => Has(a \o b, x))
    BY <1>2, FollowsHas, Follows
  <2>2. a \o b \o c \in Scripts /\ (Has(a \o b, x) \/ Has(c, x) => Has(a \o b \o c, x))
    BY <1>2, <2>1, FollowsHas, Follows
  <2>3. a \o b \o c \o d \in Scripts
        /\ (Has(a \o b \o c, x) \/ Has(d, x) => Has(a \o b \o c \o d, x))
    BY <1>2, <2>2, FollowsHas, Follows
  <2>4. a \o b \o c \o d \o e \in Scripts
        /\ (Has(a \o b \o c \o d, x) \/ Has(e, x) => Has(a \o b \o c \o d \o e, x))
    BY <1>2, <2>3, FollowsHas, Follows
  <2>5. a \o b \o c \o d \o e \o f \in Scripts
        /\ (Has(a \o b \o c \o d \o e, x) \/ Has(f, x) => Has(a \o b \o c \o d \o e \o f, x))
    BY <1>2, <2>4, FollowsHas, Follows
  <2>6. a \o b \o c \o d \o e \o f \o h \in Scripts
        /\ (Has(a \o b \o c \o d \o e \o f, x) \/ Has(h, x)
                => Has(a \o b \o c \o d \o e \o f \o h, x))
    BY <1>2, <2>5, FollowsHas, Follows
  <2>7. Has(a \o b \o c \o d \o e \o f \o h, x) \/ Has(k, x)
                => Has(a \o b \o c \o d \o e \o f \o h \o k, x)
    BY <1>2, <2>6, FollowsHas
  <2>8. QED
    BY <1>3, <1>8, <2>1, <2>2, <2>3, <2>4, <2>5, <2>6, <2>7
<1>9. QED
  BY <1>4, <1>5, <1>6, <1>7, <1>8

\* The views and the sequences.
LEMMA FreeHas ==
    ASSUME MigrationTypeOK, NEW o
    PROVE  /\ o \in Added /\ o.kind = "view" => Has(Views, [op |-> "create", on |-> o])
           /\ o \in Modified /\ o.kind = "view" /\ driver = "postgres" /\ ~ Converted(o) =>
                  Has(Views, [op |-> "alter", on |-> o])
           /\ o \in Added /\ o.kind = "sequence" => Has(Sequences, [op |-> "create", on |-> o])
<1>1. ASSUME NEW S, NEW kind PROVE OfKind(S, kind) \in SUBSET S
  BY DEF OfKind
<1>2. ASSUME o.kind \in {"view", "sequence"}, NEW op PROVE ~ Unsupported(op, o)
  BY <1>2 DEF Unsupported
<1>3. ASSUME o \in Added, o.kind = "sequence"
      PROVE  Has(Sequences, [op |-> "create", on |-> o])
  <2> DEFINE gone == Drops(ByName(OfKind(Removed, "sequence")))
             come == Creates(ByName(OfKind(Added, "sequence")))
  <2>1. gone \in Scripts /\ come \in Scripts
    BY <1>1, PartsType
  <2>2. o \in OfKind(Added, "sequence")
    BY <1>3 DEF OfKind
  <2>3. Has(come, [op |-> "create", on |-> o])
    BY <1>1, <1>2, <1>3, <2>2, CreatesHas
  <2>4. Sequences = gone \o come
    BY DEF Sequences
  <2> HIDE DEF gone, come
  <2>5. QED
    BY <2>1, <2>3, <2>4, FollowsHas
<1> DEFINE views == ByName(OfKind(Modified, "view"))
           lists == [i \in DOMAIN views |-> ChangedView(views[i])]
           gone == Drops(ByName(OfKind(Removed, "view")))
           come == Creates(ByName(OfKind(Added, "view")))
<1>4. gone \in Scripts /\ come \in Scripts
  BY <1>1, PartsType
<1>5. /\ views \in Seq(OfKind(Modified, "view"))
      /\ \A v \in OfKind(Modified, "view") : Has(views, v)
  BY <1>1, DifferencesType, PartByName, ByNameHas
<1>6. Views = gone \o come \o FlattenSeq(lists)
  BY DEF Views, ForEach
<1> HIDE DEF gone, come, views
<1>7. DOMAIN views = 1 .. Len(views) /\ Len(views) \in Nat
  BY <1>5
<1>8. \A i \in 1 .. Len(views) : lists[i] \in Scripts
  BY <1>5, <1>7, ChangedViewType
<1>9. lists = [i \in 1 .. Len(views) |-> lists[i]]
  BY <1>7
<1>10. FlattenSeq(lists) \in Scripts
  <2> HIDE DEF lists
  <2>1. QED
    BY <1>7, <1>8, <1>9, FlattenScripts
<1>11. ASSUME NEW x, Has(come, x) \/ Has(FlattenSeq(lists), x)
       PROVE  Has(Views, x)
  <2> HIDE DEF lists
  <2>1. gone \o come \in Scripts /\ (Has(come, x) => Has(gone \o come, x))
    BY <1>4, Follows, FollowsHas
  <2>2. QED
    BY <1>6, <1>10, <1>11, <2>1, FollowsHas
<1>12. ASSUME o \in Added, o.kind = "view"
       PROVE  Has(Views, [op |-> "create", on |-> o])
  <2>1. o \in OfKind(Added, "view")
    BY <1>12 DEF OfKind
  <2>2. Has(come, [op |-> "create", on |-> o])
    BY <1>1, <1>2, <1>12, <2>1, CreatesHas DEF come
  <2>3. QED
    BY <1>11, <2>2
<1>13. ASSUME o \in Modified, o.kind = "view", driver = "postgres", ~ Converted(o)
       PROVE  Has(Views, [op |-> "alter", on |-> o])
  <2>1. o \in OfKind(Modified, "view")
    BY <1>13 DEF OfKind
  <2>2. PICK k \in 1 .. Len(views) : views[k] = o
    BY <1>5, <1>7, <2>1 DEF Has
  <2> DEFINE one == <<o>>
  <2>3. one \in Seq(Object) /\ Has(one, o)
    BY <1>13, DifferencesType DEF Has
  <2>4. lists[k] = Alters(one)
    BY <1>7, <1>13, <2>2 DEF ChangedView
  <2> HIDE DEF one, lists
  <2>5. Has(lists[k], [op |-> "alter", on |-> o])
    BY <1>2, <1>13, <2>3, <2>4, StatementHas DEF Alters
  <2>6. Has(FlattenSeq(lists), [op |-> "alter", on |-> o])
    BY <1>7, <1>8, <1>9, <2>5, FlattenScriptsHas
  <2>7. QED
    BY <1>11, <2>6
<1>14. QED
  BY <1>3, <1>12, <1>13

\* The sections of a script: those of the removed tables, of a new table, of a
\* table that is kept, of the views and of the sequences.
LEMMA ScriptHas ==
    ASSUME MigrationTypeOK, NEW walk \in SetToSeqs(Walked), NEW x,
           \/ Has(Drops(dropping), x)
           \/ \E t \in OfKind(Added, "table") : Has(creating, t) /\ Has(NewTable(t, walk), x)
           \/ \E t \in OfKind(Kept, "table") : Has(ChangedTable(t), x)
           \/ Has(Views, x)
           \/ Has(Sequences, x)
    PROVE  Has(Script(walk), x)
<1>1. walk \in Seq(Added)
  BY WalkType
<1> DEFINE drops == Drops(dropping)
           news == [i \in DOMAIN creating |-> NewTable(creating[i], walk)]
           kept == ByName(OfKind(Kept, "table"))
           changes == [i \in DOMAIN kept |-> ChangedTable(kept[i])]
           a == FlattenSeq(news)
           b == FlattenSeq(changes)
<1>2. Script(walk) = drops \o a \o b \o Views \o Routines \o Triggers \o Sequences
  BY DEF Script, ForEach
<1>3. drops \in Scripts
  <2>1. dropping \in Seq(Object) /\ \A i \in DOMAIN dropping : dropping[i] \in Removed
    BY DifferencesType DEF MigrationTypeOK, OfKind
  <2>2. QED
    BY <2>1, DropsType
<1>4. /\ a \in Scripts
      /\ \A t \in OfKind(Added, "table") :
             Has(creating, t) /\ Has(NewTable(t, walk), x) => Has(a, x)
  <2>1. creating \in Seq(Added)
    BY DEF MigrationTypeOK, OfKind
  <2>2. DOMAIN creating = 1 .. Len(creating) /\ Len(creating) \in Nat
    BY <2>1
  <2>3. \A i \in 1 .. Len(creating) : news[i] \in Scripts
    BY <1>1, <2>1, <2>2, NewTableType
  <2>4. news = [i \in 1 .. Len(creating) |-> news[i]]
    BY <2>2
  <2>5. ASSUME NEW t, Has(creating, t), Has(NewTable(t, walk), x)
        PROVE  \E k \in 1 .. Len(creating) : Has(news[k], x)
    <3>1. PICK k \in 1 .. Len(creating) : creating[k] = t
      BY <2>2, <2>5 DEF Has
    <3>2. news[k] = NewTable(t, walk)
      BY <2>2, <3>1
    <3> HIDE DEF news
    <3>3. QED
      BY <2>5, <3>2
  <2> HIDE DEF news
  <2>6. QED
    BY <2>2, <2>3, <2>4, <2>5, FlattenScripts, FlattenScriptsHas
<1>5. /\ b \in Scripts
      /\ \A t \in OfKind(Kept, "table") : Has(ChangedTable(t), x) => Has(b, x)
  <2>1. kept \in Seq(OfKind(Kept, "table")) /\ \A t \in OfKind(Kept, "table") : Has(kept, t)
    <3>1. OfKind(Kept, "table") \in SUBSET Kept
      BY DEF OfKind
    <3>2. QED
      BY <3>1, DifferencesType, PartByName, ByNameHas
  <2> HIDE DEF kept
  <2>2. DOMAIN kept = 1 .. Len(kept) /\ Len(kept) \in Nat
    BY <2>1
  <2>3. \A i \in 1 .. Len(kept) : changes[i] \in Scripts
    BY <2>1, <2>2, ChangedTableType
  <2>4. changes = [i \in 1 .. Len(kept) |-> changes[i]]
    BY <2>2
  <2>5. ASSUME NEW t \in OfKind(Kept, "table"), Has(ChangedTable(t), x)
        PROVE  \E k \in 1 .. Len(kept) : Has(changes[k], x)
    <3>1. PICK k \in 1 .. Len(kept) : kept[k] = t
      BY <2>1, <2>2 DEF Has
    <3>2. changes[k] = ChangedTable(t)
      BY <2>2, <3>1
    <3> HIDE DEF changes
    <3>3. QED
      BY <2>5, <3>2
  <2> HIDE DEF changes
  <2>6. QED
    BY <2>2, <2>3, <2>4, <2>5, FlattenScripts, FlattenScriptsHas
<1>6. /\ Views \in Scripts /\ Routines \in Scripts
      /\ Triggers \in Scripts /\ Sequences \in Scripts
  BY FreeType
<1>7. Has(drops, x) \/ Has(a, x) \/ Has(b, x) \/ Has(Views, x) \/ Has(Sequences, x)
  BY <1>4, <1>5
<1> HIDE DEF drops, a, b
<1>8. drops \o a \in Scripts /\ (Has(drops, x) \/ Has(a, x) => Has(drops \o a, x))
  BY <1>3, <1>4, Follows, FollowsHas
<1>9. /\ drops \o a \o b \in Scripts
      /\ Has(drops \o a, x) \/ Has(b, x) => Has(drops \o a \o b, x)
  BY <1>5, <1>8, Follows, FollowsHas
<1>10. /\ drops \o a \o b \o Views \in Scripts
       /\ Has(drops \o a \o b, x) \/ Has(Views, x) => Has(drops \o a \o b \o Views, x)
  BY <1>6, <1>9, Follows, FollowsHas
<1>11. /\ drops \o a \o b \o Views \o Routines \in Scripts
       /\ Has(drops \o a \o b \o Views, x) => Has(drops \o a \o b \o Views \o Routines, x)
  BY <1>6, <1>10, Follows, FollowsHas
<1>12. /\ drops \o a \o b \o Views \o Routines \o Triggers \in Scripts
       /\ Has(drops \o a \o b \o Views \o Routines, x) =>
              Has(drops \o a \o b \o Views \o Routines \o Triggers, x)
  BY <1>6, <1>11, Follows, FollowsHas
<1>13. Has(drops \o a \o b \o Views \o Routines \o Triggers, x) \/ Has(Sequences, x) =>
           Has(drops \o a \o b \o Views \o Routines \o Triggers \o Sequences, x)
  BY <1>6, <1>12, FollowsHas
<1>14. QED
  BY <1>2, <1>7, <1>8, <1>9, <1>10, <1>11, <1>12, <1>13

(***************************************************************************)
(* The steps.                                                              *)
(***************************************************************************)

\* Before the call.
LEMMA InitMigrationInv == SchemaInit => MigrationInv
<1> SUFFICES ASSUME SchemaInit PROVE MigrationInv
  OBVIOUS
<1>1. DOMAIN NoSchema = {}
  BY DEF NoSchema
<1>2. Sound(NoSchema)
  BY <1>1, FS_EmptySet DEF Sound, WellFormed
<1>3. MigrationTypeOK
  BY <1>1, <1>2 DEF SchemaInit, MigrationTypeOK
<1>4. Blank
  BY DEF SchemaInit, Blank
<1>5. UsesKept /\ NothingLostUnasked
  BY <1>1 DEF SchemaInit, UsesKept, NothingLostUnasked
<1>6. QED
  BY <1>3, <1>4, <1>5 DEF MigrationInv

\* The call: from one schema of a family to another.
LEMMA GenerateKeepsInv ==
    ASSUME MigrationInv, pc = "call",
           NEW from, NEW to, NEW permissions,
           \E family \in Families[driver] : from \in family /\ to \in family,
           permissions \subseteq Grants,
           Generate(from, to, permissions)
    PROVE  MigrationInv'
<1>1. driver \in Drivers /\ dropping = << >> /\ creating = << >> /\ stack = << >> /\ script = << >>
  BY DEF MigrationInv, Blank
<1>2. /\ source' = from /\ target' = to /\ db' = from /\ granted' = permissions /\ pc' = "removed"
      /\ dropping' = << >> /\ creating' = << >> /\ stack' = << >> /\ script' = << >>
  BY <1>1 DEF Generate
<1>3. Sound(from) /\ Sound(to)
  BY <1>1, SchemaAssumption DEF Sound
<1>4. MigrationTypeOK'
  BY <1>2, <1>3 DEF MigrationTypeOK, Sound
<1>5. Blank'
  BY <1>2 DEF Blank
<1>6. UsesKept' /\ NothingLostUnasked'
  BY <1>2 DEF UsesKept, NothingLostUnasked
<1>7. QED
  BY <1>4, <1>5, <1>6 DEF MigrationInv

\* The differences stand once the call is made.
LEMMA SameDifferences ==
    ASSUME UNCHANGED inputs
    PROVE  /\ Added' = Added /\ Removed' = Removed /\ Kept' = Kept /\ Modified' = Modified
           /\ granted' = granted /\ source' = source /\ target' = target
           /\ RightStatements' = RightStatements
<1>1. /\ Added' = Added /\ Removed' = Removed /\ Kept' = Kept /\ Modified' = Modified
      /\ granted' = granted /\ source' = source /\ target' = target
  BY DEF inputs, Added, Removed, Kept, Modified
<1>2. RightStatements' = RightStatements
  BY <1>1 DEF RightStatements, Right, Renewed
<1>3. QED
  BY <1>1, <1>2

\* A step that leaves the database alone keeps the invariant if its lists do.
LEMMA ListsKeepInv ==
    ASSUME MigrationInv, UNCHANGED <<inputs, db>>, pc' # "call",
           dropping' \in Seq(OfKind(Removed, "table")),
           creating' \in Seq(OfKind(Added, "table")),
           stack' \in Seq(OfKind(Added, "table")),
           script' \in Seq(RightStatements)
    PROVE  MigrationInv'
<1>1. /\ Added' = Added /\ Removed' = Removed /\ Modified' = Modified
      /\ granted' = granted /\ source' = source /\ target' = target /\ db' = db
      /\ RightStatements' = RightStatements
  BY SameDifferences
<1>2. MigrationTypeOK'
  BY <1>1 DEF MigrationInv, MigrationTypeOK
<1>3. Blank'
  BY DEF Blank
<1>4. UsesKept'
  BY <1>1 DEF MigrationInv, UsesKept, Renewed
<1>5. NothingLostUnasked'
  BY <1>1 DEF MigrationInv, NothingLostUnasked, MayGo
<1>6. QED
  BY <1>2, <1>3, <1>4, <1>5 DEF MigrationInv

\* The tables are brought in order.
LEMMA OrderKeepsInv ==
    ASSUME MigrationInv, Order
    PROVE  MigrationInv'
<1>1. /\ dropping \in Seq(OfKind(Removed, "table"))
      /\ creating \in Seq(OfKind(Added, "table"))
      /\ stack \in Seq(OfKind(Added, "table"))
      /\ script \in Seq(RightStatements)
  BY DEF MigrationInv, MigrationTypeOK
<1>2. MigrationTypeOK
  BY DEF MigrationInv
<1>3. ASSUME NEW S, S \subseteq Object, IsFiniteSet(S), NEW R \in SUBSET S
      PROVE  ByName(R) \in Seq(R) /\ (R # {} => Head(ByName(R)) \in R)
  <2>1. R \in SUBSET Object /\ IsFiniteSet(R)
    BY <1>3, FS_Subset
  <2>2. QED
    BY <2>1, ByNameType
<1>4. CASE OrderRemoved
  <2> DEFINE left == OfKind(Removed, "table") \ ToSet(dropping)
             free == Unreferenced(left)
  <2>1. left \in SUBSET OfKind(Removed, "table") /\ free \in SUBSET left
    BY DEF Unreferenced
  <2>2. left \in SUBSET Removed /\ free \in SUBSET Removed
    BY <2>1 DEF OfKind
  <2>3. /\ ByName(left) \in Seq(left)
        /\ free # {} => Head(ByName(free)) \in free
    BY <1>2, <1>3, <2>2, DifferencesType
  <2>4. /\ dropping' = IF free = {} THEN dropping \o ByName(left)
                       ELSE Append(dropping, Head(ByName(free)))
        /\ UNCHANGED <<inputs, pc, creating, stack, script, db>>
        /\ pc = "removed"
    BY <1>4 DEF OrderRemoved
  <2> HIDE DEF left, free
  <2>5. ByName(left) \in Seq(OfKind(Removed, "table"))
    BY <2>1, <2>3
  <2>6. free # {} => Head(ByName(free)) \in OfKind(Removed, "table")
    BY <2>1, <2>3
  <2>7. dropping' \in Seq(OfKind(Removed, "table"))
    BY <1>1, <2>4, <2>5, <2>6
  <2>8. QED
    BY <1>1, <2>4, <2>7, ListsKeepInv
<1>5. CASE RemovedOrdered
  BY <1>1, <1>5, ListsKeepInv DEF RemovedOrdered
<1>6. CASE VisitNext
  <2>1. Unvisited \in SUBSET OfKind(Added, "table")
    BY DEF Unvisited
  <2>2. Unvisited \in SUBSET Added
    BY <2>1 DEF OfKind
  <2>3. Unvisited # {} => Head(ByName(Unvisited)) \in Unvisited
    BY <1>2, <1>3, <2>2, DifferencesType
  <2>4. /\ Unvisited # {} /\ stack' = <<Head(ByName(Unvisited))>> /\ pc = "added"
        /\ UNCHANGED <<inputs, pc, dropping, creating, script, db>>
    BY <1>6 DEF VisitNext
  <2>5. stack' \in Seq(OfKind(Added, "table"))
    BY <2>1, <2>3, <2>4
  <2>6. QED
    BY <1>1, <2>4, <2>5, ListsKeepInv
<1>7. CASE VisitDependency
  <2>1. Unvisited \in SUBSET OfKind(Added, "table")
    BY DEF Unvisited
  <2>2. PICK t \in References(target, Last(stack)) \cap Unvisited : stack' = Append(stack, t)
    BY <1>7 DEF VisitDependency
  <2>3. stack' \in Seq(OfKind(Added, "table"))
    BY <1>1, <2>1, <2>2
  <2>4. UNCHANGED <<inputs, pc, dropping, creating, script, db>> /\ pc = "added"
    BY <1>7 DEF VisitDependency
  <2>5. QED
    BY <1>1, <2>3, <2>4, ListsKeepInv
<1>8. CASE Visited
  <2>1. /\ stack # << >> /\ pc = "added"
        /\ creating' = Append(creating, Last(stack))
        /\ stack' = Front(stack)
        /\ UNCHANGED <<inputs, pc, dropping, script, db>>
    BY <1>8 DEF Visited
  <2>2. Last(stack) \in OfKind(Added, "table")
    BY <1>1, <2>1 DEF Last
  <2>3. Front(stack) \in Seq(OfKind(Added, "table"))
    BY <1>1, <2>1 DEF Front
  <2>4. creating' \in Seq(OfKind(Added, "table"))
    BY <1>1, <2>1, <2>2
  <2>5. QED
    BY <1>1, <2>1, <2>3, <2>4, ListsKeepInv
<1>9. QED
  BY <1>4, <1>5, <1>6, <1>7, <1>8 DEF Order

\* The script is written.
LEMMA WriteScriptKeepsInv ==
    ASSUME MigrationInv, WriteScript
    PROVE  MigrationInv'
<1>1. MigrationTypeOK
  BY DEF MigrationInv
<1>2. PICK walk \in SetToSeqs(Walked) : script' = Script(walk)
  BY DEF WriteScript
<1>3. script' \in Seq(RightStatements)
  BY <1>1, <1>2, ScriptType DEF Scripts
<1>4. UNCHANGED <<inputs, dropping, creating, stack, db>> /\ pc' = "run"
  BY DEF WriteScript
<1>5. /\ dropping' \in Seq(OfKind(Removed, "table"))
      /\ creating' \in Seq(OfKind(Added, "table"))
      /\ stack' \in Seq(OfKind(Added, "table"))
  BY <1>1, <1>4 DEF MigrationTypeOK
<1>6. QED
  BY <1>3, <1>4, <1>5, ListsKeepInv

\* What a drop takes with it was granted: the object itself, the parts of a
\* table, or what loses its column.
LEMMA GoneWasGranted ==
    ASSUME MigrationInv, NEW o \in Object,
           o.kind \in granted, o \in Removed \/ Renewed(o),
           NEW u \in DOMAIN source \cap DOMAIN db, u \in {o} \cup GoesWith(o)
    PROVE  \/ u \in Removed /\ u.kind \in granted
           \/ Renewed(u)
           \/ u.kind \notin Free /\ Owner(u) \in Removed /\ "table" \in granted
           \/ u.kind \in {"index", "fk", "pk", "sequence"}
              /\ \E c \in OfKind(source[u].uses, "column") :
                     MayGo(c) /\ (u.kind = "sequence" \/ c.table = u.table)
<1>1. /\ DOMAIN source \subseteq Object
      /\ WellFormed(source)
  BY DEF MigrationInv, MigrationTypeOK, Sound
<1>2. u.kind \in {"index", "fk", "pk", "sequence"} =>
          db[u].uses \subseteq source[u].uses \/ Renewed(u)
  BY DEF MigrationInv, UsesKept
<1>3. /\ \A c \in source[u].uses :
             /\ u.kind \in {"index", "pk"} => c.table = u.table
             /\ u.kind = "sequence" => c.kind = "column"
  BY <1>1 DEF WellFormed, Usable
<1>4. CASE u = o
  BY <1>4
<1>5. CASE u \in GoesWith(o) /\ o.kind = "table"
  <2>1. o \in Removed /\ "table" \in granted
    BY <1>5 DEF Renewed
  <2>2. \A p : PartOf(p, o) => p.kind \notin Free /\ Owner(p) = o
    BY <1>5 DEF PartOf, Owner, Object
  <2>3. u \in OfTable(DOMAIN db, o) \cup Owned(OfTable(DOMAIN db, o))
    BY <1>5 DEF GoesWith
  <2>4. CASE u \in OfTable(DOMAIN db, o)
    BY <2>1, <2>2, <2>4 DEF OfTable
  <2>5. CASE u \in Owned(OfTable(DOMAIN db, o))
    <3>1. u.kind = "sequence" /\ db[u].uses \cap OfTable(DOMAIN db, o) # {}
      BY <2>5 DEF Owned, OfKind
    <3>2. PICK c \in db[u].uses : PartOf(c, o)
      BY <3>1 DEF OfTable
    <3>3. db[u].uses \subseteq source[u].uses
      BY <1>2, <3>1 DEF Renewed
    <3>4. c \in OfKind(source[u].uses, "column")
      BY <1>3, <3>1, <3>2, <3>3 DEF OfKind
    <3>5. MayGo(c)
      BY <2>1, <2>2, <3>2 DEF MayGo
    <3>6. QED
      BY <3>1, <3>4, <3>5
  <2>6. QED
    BY <2>3, <2>4, <2>5
<1>6. CASE u \in GoesWith(o) /\ o.kind = "column"
  <2>1. MayGo(o)
    BY <1>6 DEF MayGo, Renewed
  <2>2. /\ u.kind \in {"index", "fk", "pk", "sequence"}
        /\ o \in db[u].uses
        /\ u.kind \in {"index", "pk", "sequence"} \/ o.table = u.table
    <3>1. CASE driver = "postgres"
      <4>1. \/ u \in OfTable(Users(o), Owner(o)) /\ u.kind \in {"index", "fk", "pk"}
            \/ u \in Owned({o})
        BY <1>6, <3>1 DEF GoesWith
      <4>2. CASE u \in OfTable(Users(o), Owner(o)) /\ u.kind \in {"index", "fk", "pk"}
        BY <4>2 DEF OfTable, Users, PartOf, Owner
      <4>3. CASE u \in Owned({o})
        BY <4>3 DEF Owned, OfKind
      <4>4. QED
        BY <4>1, <4>2, <4>3
    <3>2. CASE driver = "mysql"
      <4>1. u \in Users(o) /\ u.kind \in {"index", "pk"}
        BY <1>6, <3>2 DEF GoesWith
      <4>2. QED
        BY <4>1 DEF Users
    <3>3. CASE driver = "oracle"
      <4>1. u \in OfTable(Users(o), Owner(o)) /\ u.kind \in {"index", "fk", "pk"}
        BY <1>6, <3>3 DEF GoesWith
      <4>2. QED
        BY <4>1 DEF OfTable, Users, PartOf, Owner
    <3>4. CASE driver \notin {"postgres", "mysql", "oracle"}
      BY <1>6, <3>4 DEF GoesWith
    <3>5. QED
      BY <3>1, <3>2, <3>3, <3>4
  <2>3. CASE Renewed(u)
    BY <2>3
  <2>4. CASE ~ Renewed(u)
    <3>1. o \in OfKind(source[u].uses, "column")
      BY <1>2, <1>6, <2>2, <2>4 DEF OfKind
    <3>2. u.kind = "sequence" \/ o.table = u.table
      BY <1>3, <2>2, <3>1 DEF OfKind
    <3>3. QED
      BY <2>1, <2>2, <3>1, <3>2
  <2>5. QED
    BY <2>3, <2>4
<1>7. CASE u \in GoesWith(o) /\ o.kind \notin {"table", "column"}
  BY <1>7 DEF GoesWith
<1>8. QED
  BY <1>4, <1>5, <1>6, <1>7

\* The lists of a step that runs the first statement.
LEMMA ExecuteKeepsLists ==
    ASSUME MigrationInv, Execute, \A o \in DOMAIN db' : db'[o] \in Definition
    PROVE  MigrationTypeOK' /\ Blank'
<1>1. /\ UNCHANGED <<inputs, pc, dropping, creating, stack>>
      /\ pc = "run" /\ script # << >> /\ script' = Tail(script)
  BY DEF Execute
<1>2. /\ Added' = Added /\ Removed' = Removed
      /\ granted' = granted /\ source' = source /\ target' = target
      /\ RightStatements' = RightStatements
  BY <1>1, SameDifferences
<1>3. script' \in Seq(RightStatements)
  BY <1>1 DEF MigrationInv, MigrationTypeOK
<1>4. MigrationTypeOK'
  BY <1>1, <1>2, <1>3 DEF MigrationInv, MigrationTypeOK
<1>5. Blank'
  BY <1>1 DEF Blank
<1>6. QED
  BY <1>4, <1>5

\* A statement that drops.
LEMMA DropKeepsInv ==
    ASSUME MigrationInv, Execute, Head(script).op = "drop"
    PROVE  MigrationInv'
<1> DEFINE s == Head(script)
           gone == {s.on} \cup GoesWith(s.on)
<1>1. /\ UNCHANGED <<inputs, pc, dropping, creating, stack>>
      /\ pc = "run" /\ script # << >> /\ script' = Tail(script)
      /\ db' = Without(gone)
  BY DEF Execute
<1>2. /\ Added' = Added /\ Removed' = Removed /\ Modified' = Modified
      /\ granted' = granted /\ source' = source /\ target' = target
  BY <1>1, SameDifferences
<1>3. s \in RightStatements
  BY <1>1 DEF MigrationInv, MigrationTypeOK
<1>4. s.on \in Object /\ s.on.kind \in granted /\ (s.on \in Removed \/ Renewed(s.on))
  BY <1>3 DEF RightStatements, Statements, Right
<1>5. \A u \in DOMAIN db : db[u] \in Definition
  BY DEF MigrationInv, MigrationTypeOK
<1>6. PICK away : away = gone
  OBVIOUS
<1>7. /\ DOMAIN db' = DOMAIN db \ away
      /\ \A u \in DOMAIN db' : db'[u] \in Definition /\ db'[u].uses \subseteq db[u].uses
  <2>1. db' = [u \in DOMAIN db \ away |->
                  IF u.kind \in {"index", "pk"}
                  THEN [db[u] EXCEPT !.uses = db[u].uses \ away] ELSE db[u]]
    BY <1>1, <1>6 DEF Without
  <2>2. \A u \in DOMAIN db :
            /\ [db[u] EXCEPT !.uses = db[u].uses \ away] \in Definition
            /\ [db[u] EXCEPT !.uses = db[u].uses \ away].uses \subseteq db[u].uses
    BY <1>5 DEF Definition
  <2>3. QED
    BY <1>5, <2>1, <2>2
<1>8. MigrationTypeOK' /\ Blank'
  BY <1>7, ExecuteKeepsLists
<1>9. UsesKept'
  <2>1. SUFFICES ASSUME NEW u \in DOMAIN source \cap DOMAIN db',
                        u.kind \in {"index", "fk", "pk", "sequence"}
                 PROVE  db'[u].uses \subseteq source[u].uses \/ Renewed(u)
    BY <1>2 DEF UsesKept, Renewed
  <2>2. u \in DOMAIN db /\ db'[u].uses \subseteq db[u].uses
    BY <1>7
  <2>3. db[u].uses \subseteq source[u].uses \/ Renewed(u)
    BY <2>1, <2>2 DEF MigrationInv, UsesKept
  <2>4. QED
    BY <2>2, <2>3
<1>10. NothingLostUnasked'
  <2>1. SUFFICES ASSUME NEW u \in DOMAIN source \ DOMAIN db'
                 PROVE  \/ u \in Removed /\ u.kind \in granted
                        \/ u \in Modified /\ u.kind = "pk" /\ "pk" \in granted
                        \/ u.kind \notin Free /\ Owner(u) \in Removed /\ "table" \in granted
                        \/ u.kind \in {"index", "fk", "pk", "sequence"}
                           /\ \E c \in OfKind(source[u].uses, "column") :
                                  MayGo(c) /\ (u.kind = "sequence" \/ c.table = u.table)
    BY <1>2 DEF NothingLostUnasked, MayGo
  <2>2. CASE u \notin DOMAIN db
    BY <2>2 DEF MigrationInv, NothingLostUnasked
  <2>3. CASE u \in DOMAIN db
    <3>1. u \in {s.on} \cup GoesWith(s.on) /\ u \in DOMAIN source \cap DOMAIN db
      BY <1>6, <1>7, <2>3
    <3> HIDE DEF s
    <3>2. QED
      BY <1>4, <3>1, GoneWasGranted DEF Renewed
  <2>4. QED
    BY <2>2, <2>3
<1>11. QED
  BY <1>8, <1>9, <1>10 DEF MigrationInv

\* An altered column is as the target has it, or a reader is left with its default.
LEMMA AlteredColumn ==
    ASSUME NEW o \in Modified, target[o] \in Definition, db[o] \in Definition
    PROVE  /\ Altered(o) \in Definition
           /\ \/ Altered(o) = target[o]
              \/ Altered(o).uses \subseteq db[o].uses /\ o.kind = "column" /\ Reviewed(o)
<1>1. /\ target[o].body \in Nat /\ db[o].body \in Nat
      /\ db[o].uses \in SUBSET Object
  BY DEF Definition
<1>2. CASE o.kind = "column" /\ Redefaulted(o) /\ driver = "mssql"
  <2>1. PICK n \in Nat : n = target[o].body - (target[o].body % 3) + (db[o].body % 3)
    <3>1. ASSUME NEW a \in Nat, NEW b \in Nat PROVE a - (a % 3) + (b % 3) \in Nat
      OBVIOUS
    <3>2. QED
      BY <1>1, <3>1
  <2>2. Altered(o) = [uses |-> db[o].uses, body |-> n]
    BY <1>2, <2>1 DEF Altered
  <2>3. QED
    BY <1>1, <1>2, <2>2 DEF Definition, Reviewed
<1>3. CASE /\ ~ (o.kind = "column" /\ Redefaulted(o) /\ driver = "mssql")
           /\ o.kind = "column" /\ Redefaulted(o) /\ driver = "oracle"
           /\ Default(target[o]) = None
  <2>1. Altered(o) = [uses |-> {}, body |-> target[o].body + 2]
    BY <1>3 DEF Altered
  <2>2. QED
    BY <1>1, <1>3, <2>1 DEF Definition, Reviewed
<1>4. CASE /\ ~ (o.kind = "column" /\ Redefaulted(o) /\ driver = "mssql")
           /\ ~ (o.kind = "column" /\ Redefaulted(o) /\ driver = "oracle"
                 /\ Default(target[o]) = None)
  BY <1>4 DEF Altered
<1>5. QED
  BY <1>2, <1>3, <1>4

\* What a statement that creates or alters makes of the database.
LEMMA ExecuteMakes ==
    ASSUME MigrationTypeOK, Execute, Head(script).op \in {"create", "alter"},
           NEW o, o = Head(script).on
    PROVE  /\ DOMAIN db' = DOMAIN db \cup Brought(o)
           /\ \A u \in DOMAIN db \ Brought(o) : db'[u] = db[u]
           /\ \A u \in Brought(o) :
                  /\ db'[u] \in Definition
                  /\ \/ db'[u] = target[u]
                     \/ /\ u = o /\ o \in DOMAIN db /\ db'[o].uses \subseteq db[o].uses
                        /\ o.kind = "column" /\ Reviewed(o)
<1>1. /\ script # << >> /\ script \in Seq(RightStatements) /\ Possible(Head(script))
      /\ \A u \in DOMAIN db : db[u] \in Definition
      /\ \A u \in DOMAIN target : target[u] \in Definition
  BY DEF Execute, MigrationTypeOK, Sound
<1>2. PICK s \in RightStatements : s = Head(script)
  BY <1>1
<1>3. o \in DOMAIN target /\ Brought(o) \subseteq DOMAIN target
  BY <1>2 DEF RightStatements, Right, Renewed, Added, Modified, Kept, Brought
<1>4. CASE s.op = "create"
  <2>1. db' = With(o)
    BY <1>2, <1>4 DEF Execute
  <2>2. QED
    BY <1>1, <1>3, <2>1 DEF With
<1>5. CASE s.op = "alter"
  <2>1. o \in DOMAIN db /\ o \in Modified /\ o.kind \in {"column", "view"}
    BY <1>1, <1>2, <1>5 DEF Possible, RightStatements, Right
  <2>2. Brought(o) = {o}
    BY <2>1 DEF Brought
  <2>3. db' = [db EXCEPT ![o] = Altered(o)]
    BY <1>2, <1>5 DEF Execute
  <2>4. /\ DOMAIN db' = DOMAIN db /\ db'[o] = Altered(o)
        /\ \A u \in DOMAIN db \ {o} : db'[u] = db[u]
    BY <2>1, <2>3
  <2>5. QED
    BY <1>1, <1>3, <2>1, <2>2, <2>4, AlteredColumn
<1>6. QED
  BY <1>2, <1>4, <1>5

\* A statement that creates or alters: what it brings of the source is a primary
\* key that is modified, or no key at all.
LEMMA MakeKeepsInv ==
    ASSUME MigrationInv, Execute, Head(script).op \in {"create", "alter"}
    PROVE  MigrationInv'
<1> DEFINE s == Head(script)
<1>1. /\ UNCHANGED <<inputs, pc, dropping, creating, stack>>
      /\ pc = "run" /\ script # << >> /\ script' = Tail(script)
  BY DEF Execute
<1>2. /\ Added' = Added /\ Removed' = Removed /\ Modified' = Modified
      /\ granted' = granted /\ source' = source /\ target' = target
  BY <1>1, SameDifferences
<1>3. s \in RightStatements
  BY <1>1 DEF MigrationInv, MigrationTypeOK
<1>4. PICK o \in Object : o = s.on
  BY <1>3 DEF RightStatements, Statements
<1>5. \/ o \in Added \/ Renewed(o)
      \/ o \in Modified /\ o.kind \in {"column", "view"}
  BY <1>3, <1>4 DEF RightStatements, Right
<1>6. /\ \A u \in DOMAIN db : db[u] \in Definition
      /\ \A u \in DOMAIN target : target[u] \in Definition
      /\ WellFormed(target) /\ WellFormed(source)
  BY DEF MigrationInv, MigrationTypeOK, Sound
<1>7. o \in DOMAIN target
  BY <1>5 DEF Added, Modified, Kept, Renewed
<1>8. Brought(o) \subseteq DOMAIN target
  BY <1>7 DEF Brought
<1>9. /\ DOMAIN db' = DOMAIN db \cup Brought(o)
      /\ \A u \in Brought(o) : db'[u] \in Definition
      /\ \A u \in DOMAIN db \ Brought(o) : db'[u] = db[u]
  BY <1>4, ExecuteMakes DEF MigrationInv
<1>10. \A u \in DOMAIN db' : db'[u] \in Definition
  BY <1>6, <1>9
<1>11. MigrationTypeOK' /\ Blank'
  BY <1>10, ExecuteKeepsLists
<1>12. UsesKept'
  <2>1. SUFFICES ASSUME NEW u \in DOMAIN source \cap DOMAIN db',
                        u.kind \in {"index", "fk", "pk", "sequence"}
                 PROVE  db'[u].uses \subseteq source[u].uses \/ Renewed(u)
    BY <1>2 DEF UsesKept, Renewed
  <2>2. CASE u \notin Brought(o)
    BY <1>9, <2>1, <2>2 DEF MigrationInv, UsesKept
  <2>3. CASE u = o
    BY <1>5, <2>1, <2>3 DEF Added
  <2>4. CASE u \in Brought(o) /\ u # o
    <3>1. o.kind = "table" /\ PartOf(u, o)
      BY <2>4 DEF Brought
    <3>2. o \in Added
      BY <1>5, <3>1 DEF Renewed
    <3>3. Owner(u) = o /\ u.kind \notin Free
      BY <3>1 DEF PartOf, Owner, Object
    <3>4. o \in DOMAIN source
      BY <1>6, <2>1, <3>3 DEF WellFormed
    <3>5. QED
      BY <3>2, <3>4 DEF Added
  <2>5. QED
    BY <2>2, <2>3, <2>4
<1>13. NothingLostUnasked'
  <2>1. DOMAIN source \ DOMAIN db' \subseteq DOMAIN source \ DOMAIN db
    BY <1>9
  <2>2. QED
    BY <1>2, <2>1 DEF MigrationInv, NothingLostUnasked, MayGo
<1>14. QED
  BY <1>11, <1>12, <1>13 DEF MigrationInv

\* The database runs a statement.
LEMMA ExecuteKeepsInv ==
    ASSUME MigrationInv, Execute
    PROVE  MigrationInv'
<1>1. /\ UNCHANGED <<inputs, pc, dropping, creating, stack>>
      /\ pc = "run" /\ script # << >> /\ script' = Tail(script)
  BY DEF Execute
<1>2. /\ dropping \in Seq(OfKind(Removed, "table"))
      /\ creating \in Seq(OfKind(Added, "table"))
      /\ stack \in Seq(OfKind(Added, "table"))
      /\ script \in Seq(RightStatements)
  BY DEF MigrationInv, MigrationTypeOK
<1>3. Head(script) \in RightStatements
  BY <1>1, <1>2
<1>4. Head(script).op \in {"drop", "create", "alter", "text"}
  BY <1>3 DEF RightStatements, Statements
<1>5. CASE Head(script).op = "text"
  <2>1. db' = db
    BY <1>5 DEF Execute
  <2>2. script' \in Seq(RightStatements)
    BY <1>1, <1>2
  <2>3. QED
    BY <1>1, <1>2, <2>1, <2>2, ListsKeepInv
<1>6. QED
  BY <1>4, <1>5, DropKeepsInv, MakeKeepsInv

(***************************************************************************)
(* The theorems.                                                           *)
(***************************************************************************)

\* Every statement of a script is there for a difference: it drops only what
\* the target does not have and what was granted, creates only what the source
\* does not have, and replaces only what differs, but for the two statements
\* that modify a primary key (GenerateMigrationWithSchemas); and the keys and
\* sequences that stand use no more than they did, so that a drop takes no more
\* along than it would have before the script.
THEOREM MigrationInvariant == SchemaSpec => []MigrationInv
<1>1. SchemaInit => MigrationInv
  BY InitMigrationInv
<1>2. MigrationInv /\ [SchemaNext]_schemaVars => MigrationInv'
  <2>1. SUFFICES ASSUME MigrationInv, [SchemaNext]_schemaVars PROVE MigrationInv'
    OBVIOUS
  <2>2. /\ dropping \in Seq(OfKind(Removed, "table"))
        /\ creating \in Seq(OfKind(Added, "table"))
        /\ stack \in Seq(OfKind(Added, "table"))
        /\ script \in Seq(RightStatements)
    BY <2>1 DEF MigrationInv, MigrationTypeOK
  <2>3. CASE SchemaMigrate
    <3>1. PICK family \in Families[driver] :
              \E prod, dev \in family, config \in Configs : Generate(prod, dev, Passed(config))
      BY <2>3 DEF SchemaMigrate
    <3>2. PICK prod \in family, dev \in family, config \in Configs :
              Generate(prod, dev, Passed(config))
      BY <3>1
    <3>3. Passed(config) \subseteq Grants /\ pc = "call"
      BY <2>3 DEF SchemaMigrate, Passed, Grants
    <3>4. QED
      BY <2>1, <3>2, <3>3, GenerateKeepsInv
  <2>4. CASE Rollback
    <3>1. PICK family \in Families[driver] : \E prod, dev \in family : Generate(dev, prod, {})
      BY <2>4 DEF Rollback
    <3>2. PICK prod \in family, dev \in family : Generate(dev, prod, {})
      BY <3>1
    <3>3. pc = "call" /\ {} \subseteq Grants
      BY <2>4 DEF Rollback
    <3>4. QED
      BY <2>1, <3>2, <3>3, GenerateKeepsInv
  <2>5. CASE Order
    BY <2>1, <2>5, OrderKeepsInv
  <2>6. CASE WriteScript
    BY <2>1, <2>6, WriteScriptKeepsInv
  <2>7. CASE Execute
    BY <2>1, <2>7, ExecuteKeepsInv
  <2>8. CASE Refuse
    BY <2>1, <2>2, <2>8, ListsKeepInv DEF Refuse
  <2>9. CASE Finish
    BY <2>1, <2>2, <2>9, ListsKeepInv DEF Finish
  <2>10. CASE UNCHANGED schemaVars
    <3>1. /\ UNCHANGED inputs /\ pc' = pc /\ db' = db /\ script' = script
          /\ dropping' = dropping /\ creating' = creating /\ stack' = stack
      BY <2>10 DEF schemaVars
    <3>2. /\ driver' = driver
          /\ Added' = Added /\ Removed' = Removed /\ Modified' = Modified
          /\ granted' = granted /\ source' = source /\ target' = target
          /\ RightStatements' = RightStatements
      BY <3>1, SameDifferences DEF inputs
    <3>3. MigrationTypeOK'
      BY <2>1, <3>1, <3>2 DEF MigrationInv, MigrationTypeOK
    <3>4. Blank' /\ UsesKept'
      BY <2>1, <3>1, <3>2 DEF MigrationInv, Blank, UsesKept, Renewed
    <3>5. NothingLostUnasked'
      BY <2>1, <3>1, <3>2 DEF MigrationInv, NothingLostUnasked, MayGo
    <3>6. QED
      BY <3>3, <3>4, <3>5 DEF MigrationInv
  <2>11. QED
    BY <2>1, <2>3, <2>4, <2>5, <2>6, <2>7, <2>8, <2>9, <2>10 DEF SchemaNext
<1>3. QED
  BY <1>1, <1>2, PTL DEF SchemaSpec

\* At every statement, however far the script gets, nothing that production has
\* is lost unless its own drop was granted or that of its table, or it goes with
\* a column that may be dropped (the permissions that runSchemaMigrate passes to
\* GenerateMigrationWithSchemas).
THEOREM NothingLostUnaskedHolds == SchemaSpec => []NothingLostUnasked
<1>1. MigrationInv => NothingLostUnasked
  BY DEF MigrationInv
<1>2. QED
  BY <1>1, MigrationInvariant, PTL

(***************************************************************************)
(* Where a script leads.                                                   *)
(***************************************************************************)

\* An object of the target stands as it is defined there.
Settled(o) == o \in DOMAIN db /\ db[o] = target[o]

\* A statement puts it there, a statement of the script does, a statement of the
\* script drops it.
Brings(s, o) == s.op \in {"create", "alter"} /\ o \in Brought(s.on)

Coming(o) == \E i \in DOMAIN script : Brings(script[i], o)

Going(o) == Has(script, [op |-> "drop", on |-> o])

\* No statement drops it, or it goes with its table.
Spared(o) ==
    \/ o.kind \notin granted \/ Unsupported("drop", o)
    \/ o.kind \notin Free \cup {"table"} /\ Owner(o) \notin DOMAIN target

\* Whatever stands is an object, and its table stands.
Standing == \A o \in DOMAIN db : o \in Object /\ (o.kind \notin Free => Owner(o) \in DOMAIN db)

\* The script that is left leads to the target.
Reaching ==
    /\ \A o \in DOMAIN target : Reviewed(o) \/ Settled(o) \/ Coming(o)
    /\ \A o \in DOMAIN db \ DOMAIN target : Spared(o) \/ Going(o)
    /\ Restored(script)

ReachInv ==
    /\ Standing
    /\ pc \in {"removed", "added"} => db = source
    /\ pc = "added" => \A t \in OfKind(Removed, "table") : Has(dropping, t)
    /\ pc \in {"run", "done"} => Reaching
    /\ pc = "done" => script = << >>

\* An object and its table are of one schema.
LEMMA OwnerType ==
    ASSUME MigrationTypeOK, NEW schema \in {source, target}, NEW o \in DOMAIN schema,
           o.kind \notin Free \cup {"table"}
    PROVE  /\ Owner(o) \in DOMAIN schema /\ PartOf(o, Owner(o)) /\ Owner(o).kind = "table"
           /\ Owner(o) \in Object
<1>1. Sound(schema)
  BY DEF MigrationTypeOK
<1>2. Owner(o) \in DOMAIN schema /\ Owner(o) \in Object
  BY <1>1 DEF Sound, WellFormed
<1>3. QED
  BY <1>2 DEF Owner, PartOf, Free

\* A number is told by what a column's body says.
LEMMA BodyParts ==
    ASSUME NEW a \in Nat, NEW b \in Nat, a \div 6 = b \div 6,
           (a \div 3) % 2 = 1 <=> (b \div 3) % 2 = 1, a % 3 = b % 3
    PROVE  a = b
<1>1. a = 6 * (a \div 6) + 3 * ((a \div 3) % 2) + (a % 3)
  OBVIOUS
<1>2. b = 6 * (b \div 6) + 3 * ((b \div 3) % 2) + (b % 3)
  OBVIOUS
<1>3. (a \div 3) % 2 = (b \div 3) % 2
  <2>1. (a \div 3) % 2 \in {0, 1} /\ (b \div 3) % 2 \in {0, 1}
    OBVIOUS
  <2>2. QED
    BY <2>1
<1>4. QED
  BY <1>1, <1>2, <1>3

\* A column that differs does so in its type, in whether it may be null or in its
\* default.
LEMMA ColumnDiffers ==
    ASSUME MigrationTypeOK, NEW o \in Modified
    PROVE  Reshaped(o) \/ Redefaulted(o)
<1>1. source[o] \in Definition /\ target[o] \in Definition /\ source[o] # target[o]
  BY DEF Modified, Kept, MigrationTypeOK, Sound
<1>2. /\ source[o].body \in Nat /\ target[o].body \in Nat
      /\ source[o].uses = target[o].uses => source[o].body # target[o].body
  BY <1>1 DEF Definition
<1>3. SUFFICES ASSUME ~ Reshaped(o), ~ Redefaulted(o) PROVE FALSE
  OBVIOUS
<1>4. source[o].uses = target[o].uses /\ source[o].body % 3 = target[o].body % 3
  BY <1>3 DEF Redefaulted, Default
<1>5. /\ source[o].body \div 6 = target[o].body \div 6
      /\ (source[o].body \div 3) % 2 = 1 <=> (target[o].body \div 3) % 2 = 1
  BY <1>3 DEF Reshaped, Type, NotNull
<1>6. QED
  BY <1>2, <1>4, <1>5, BodyParts

\* The script that is written settles what is not left to a reader.
LEMMA ScriptBrings ==
    ASSUME MigrationTypeOK, NEW walk \in SetToSeqs(Walked),
           \A t \in OfKind(Added, "table") : Has(creating, t),
           NEW o \in DOMAIN target, ~ Reviewed(o)
    PROVE  \/ o \in DOMAIN source /\ source[o] = target[o]
           \/ \E i \in DOMAIN Script(walk) : Brings(Script(walk)[i], o)
<1>1. o \in Object /\ o.kind \in Kinds
  BY DifferencesType DEF Object
<1>2. walk \in Seq(Added) /\ \A p \in Walked : Has(walk, p)
  BY WalkType
<1>3. ASSUME NEW p, NEW op \in {"create", "alter"},
             Has(Script(walk), [op |-> op, on |-> p]), o \in Brought(p)
      PROVE  \E i \in DOMAIN Script(walk) : Brings(Script(walk)[i], o)
  BY <1>3 DEF Has, Brings
<1>4. o \in Brought(o)
  BY DEF Brought
<1>5. SUFFICES ASSUME o \in Added \/ o \in Modified
               PROVE  \E i \in DOMAIN Script(walk) : Brings(Script(walk)[i], o)
  BY DEF Added, Modified, Kept
<1>6. CASE o.kind = "table"
  <2>1. o \in Added
    <3>1. ASSUME o \in Modified PROVE FALSE
      BY <1>6, <3>1 DEF Modified, Kept, MigrationTypeOK, Sound, WellFormed
    <3>2. QED
      BY <1>5, <3>1
  <2>2. o \in OfKind(Added, "table")
    BY <1>6, <2>1 DEF OfKind
  <2>3. Has(NewTable(o, walk), [op |-> "create", on |-> o])
    BY <1>2, <2>2, NewTableHas
  <2>4. Has(Script(walk), [op |-> "create", on |-> o])
    BY <2>2, <2>3, ScriptHas
  <2>5. QED
    BY <1>3, <1>4, <2>4
<1>7. CASE o.kind \in {"view", "sequence"}
  <2>1. CASE o \in Added
    <3>1. Has(Views, [op |-> "create", on |-> o]) \/ Has(Sequences, [op |-> "create", on |-> o])
      BY <1>7, <2>1, FreeHas
    <3>2. QED
      BY <1>3, <1>4, <3>1, ScriptHas
  <2>2. CASE o \in Modified
    <3>1. o.kind = "view" /\ driver = "postgres" /\ ~ Converted(o)
      BY <1>7, <2>2 DEF Reviewed
    <3>2. Has(Views, [op |-> "alter", on |-> o])
      BY <2>2, <3>1, FreeHas
    <3>3. QED
      BY <1>3, <1>4, <3>2, ScriptHas
  <2>3. QED
    BY <1>5, <2>1, <2>2
<1>8. CASE o.kind \in {"routine", "trigger"}
  BY <1>5, <1>8 DEF Reviewed
<1>9. CASE o.kind \in {"column", "index", "fk", "pk"}
  <2> DEFINE t == Owner(o)
  <2>1. /\ t \in DOMAIN target /\ t.kind = "table" /\ PartOf(o, t) /\ t \in Object
        /\ o \in DOMAIN source => t \in DOMAIN source
    BY <1>9, OwnerType DEF Free
  <2> HIDE DEF t
  <2>2. CASE t \in DOMAIN source
    <3>1. t \in OfKind(Kept, "table")
      BY <2>1, <2>2 DEF OfKind, Kept
    <3>2. CASE o \in Added /\ o.kind # "pk"
      <4>1. ~ Unsupported("create", o)
        BY <1>9, <3>1, <3>2 DEF Reviewed, Skipped, Unsupported, OfKind, t
      <4>2. Has(ChangedTable(t), [op |-> "create", on |-> o])
        BY <1>9, <2>1, <3>1, <3>2, <4>1, ChangedTableHas
      <4>3. QED
        BY <1>3, <1>4, <3>1, <4>2, ScriptHas
    <3>3. CASE o \in Modified /\ o.kind # "pk"
      <4>1. o.kind = "column" /\ ~ Unsupported("alter", o)
        <5>1. /\ o.kind = "column" /\ driver # "sqlite"
              /\ ~ (driver = "mssql" /\ Redefaulted(o))
          BY <1>9, <3>3 DEF Reviewed
        <5>2. Reshaped(o) \/ Redefaulted(o)
          BY <3>3, ColumnDiffers
        <5>3. QED
          BY <5>1, <5>2 DEF Unsupported
      <4>2. Has(ChangedTable(t), [op |-> "alter", on |-> o])
        BY <2>1, <3>1, <3>3, <4>1, ChangedTableHas
      <4>3. QED
        BY <1>3, <1>4, <3>1, <4>2, ScriptHas
    <3>4. CASE o.kind = "pk"
      <4>1. "pk" \in granted /\ ~ Unsupported("create", o)
        BY <1>5, <3>1, <3>4 DEF Reviewed, Unsupported, OfKind, t
      <4>2. Has(ChangedTable(t), [op |-> "create", on |-> o])
        BY <1>5, <2>1, <3>1, <3>4, <4>1, ChangedTableHas
      <4>3. QED
        BY <1>3, <1>4, <3>1, <4>2, ScriptHas
    <3>5. QED
      BY <1>5, <3>2, <3>3, <3>4
  <2>3. CASE t \notin DOMAIN source
    <3>1. o \in Added /\ t \in Added /\ t \in OfKind(Added, "table")
      BY <2>1, <2>3 DEF Added, OfKind
    <3>2. CASE o.kind \in {"column", "pk"}
      <4>1. o \in Brought(t)
        BY <2>1, <3>2 DEF Brought
      <4>2. Has(NewTable(t, walk), [op |-> "create", on |-> t])
        BY <1>2, <3>1, NewTableHas
      <4>3. Has(Script(walk), [op |-> "create", on |-> t])
        BY <3>1, <4>2, ScriptHas
      <4>4. QED
        BY <1>3, <4>1, <4>3
    <3>3. CASE o.kind \in {"index", "fk"}
      <4>1. o \in Walked
        BY <3>1, <3>3 DEF Walked, t
      <4>2. ~ Unsupported("create", o)
        BY <3>1, <3>3 DEF Reviewed, Unsupported
      <4>3. Has(NewTable(t, walk), [op |-> "create", on |-> o])
        BY <1>2, <2>1, <3>1, <3>3, <4>1, <4>2, NewTableHas
      <4>4. QED
        BY <1>3, <1>4, <3>1, <4>3, ScriptHas
    <3>4. QED
      BY <1>9, <3>2, <3>3
  <2>4. QED
    BY <2>2, <2>3
<1>10. QED
  BY <1>1, <1>6, <1>7, <1>8, <1>9 DEF Kinds, Free

\* It drops what is removed.
LEMMA ScriptDrops ==
    ASSUME MigrationTypeOK, NEW walk \in SetToSeqs(Walked),
           \A t \in OfKind(Removed, "table") : Has(dropping, t),
           NEW o \in Removed, ~ Spared(o)
    PROVE  Has(Script(walk), [op |-> "drop", on |-> o])
<1>1. o \in Object /\ o \in DOMAIN source /\ o \notin DOMAIN target
  BY DifferencesType DEF Removed
<1>2. o.kind \in granted /\ o.kind \in Grants /\ ~ Unsupported("drop", o)
  BY DEF Spared, MigrationTypeOK
<1>3. CASE o.kind = "table"
  <2>1. Has(dropping, o)
    BY <1>3 DEF OfKind
  <2>2. dropping \in Seq(Object)
    BY DifferencesType DEF MigrationTypeOK, OfKind
  <2>3. Has(Drops(dropping), [op |-> "drop", on |-> o])
    BY <1>1, <1>2, <2>1, <2>2, DropsHas
  <2>4. QED
    BY <2>3, ScriptHas
<1>4. CASE o.kind \in {"column", "index", "fk", "pk"}
  <2> DEFINE t == Owner(o)
  <2>1. t \in DOMAIN source /\ t.kind = "table" /\ PartOf(o, t) /\ t \in Object
    BY <1>1, <1>4, OwnerType DEF Free
  <2>2. t \in DOMAIN target
    BY <1>2, <1>4 DEF Spared, Free
  <2> HIDE DEF t
  <2>3. t \in OfKind(Kept, "table")
    BY <2>1, <2>2 DEF OfKind, Kept
  <2>4. Has(ChangedTable(t), [op |-> "drop", on |-> o])
    BY <1>2, <1>4, <2>1, <2>3, ChangedTableHas
  <2>5. QED
    BY <2>3, <2>4, ScriptHas
<1>5. QED
  BY <1>2, <1>3, <1>4 DEF Grants

\* What is said of the differences stands once the call is made.
LEMMA SameReview ==
    ASSUME UNCHANGED inputs
    PROVE  \A o : /\ Reviewed(o)' <=> Reviewed(o)
                  /\ Spared(o)' <=> Spared(o)
                  /\ Brought(o)' = Brought(o)
<1>1. /\ Added' = Added /\ Removed' = Removed /\ Kept' = Kept /\ Modified' = Modified
      /\ granted' = granted /\ source' = source /\ target' = target /\ driver' = driver
  BY SameDifferences DEF inputs
<1>2. TAKE o
<1>3. Converted(o)' <=> Converted(o)
  BY <1>1 DEF Converted, Materialized
<1>4. Reviewed(o)' <=> Reviewed(o)
  <2>1. Skipped(o)' <=> Skipped(o)
    BY <1>1 DEF Skipped, Unsupported, NotNull, Default
  <2>2. (Redefaulted(o)' <=> Redefaulted(o)) /\ Default(target[o])' = Default(target[o])
    BY <1>1 DEF Redefaulted, Default
  <2>3. QED
    BY <1>1, <1>3, <2>1, <2>2 DEF Reviewed
<1>5. Spared(o)' <=> Spared(o)
  BY <1>1 DEF Spared, Unsupported
<1>6. Brought(o)' = Brought(o)
  BY <1>1 DEF Brought
<1>7. QED
  BY <1>4, <1>5, <1>6

\* What is left of a script.
LEMMA TailHas ==
    ASSUME NEW T, NEW list \in Seq(T), list # << >>
    PROVE  /\ \A i \in DOMAIN list : i # 1 =>
                  i - 1 \in DOMAIN Tail(list) /\ Tail(list)[i - 1] = list[i]
           /\ \A i \in DOMAIN Tail(list) : i + 1 \in DOMAIN list /\ Tail(list)[i] = list[i + 1]
           /\ 1 \in DOMAIN list /\ Head(list) = list[1]
           /\ DOMAIN list = 1 .. Len(list) /\ Len(list) \in Nat
           /\ DOMAIN Tail(list) = 1 .. Len(list) - 1
  OBVIOUS

\* A script that restores what it drops does so from any statement on.
LEMMA TailRestored ==
    ASSUME NEW list \in Seq(RightStatements), list # << >>, Restored(list)
    PROVE  Restored(Tail(list))
<1>1. SUFFICES ASSUME NEW i \in DOMAIN Tail(list),
                      Tail(list)[i].op = "drop", Tail(list)[i].on \in DOMAIN target
               PROVE  \E j \in DOMAIN Tail(list) :
                          i < j /\ Tail(list)[j] = [op |-> "create", on |-> Tail(list)[i].on]
  BY DEF Restored
<1>2. i + 1 \in DOMAIN list /\ Tail(list)[i] = list[i + 1] /\ i \in Nat /\ i # 0
  BY TailHas
<1>3. PICK j \in DOMAIN list : i + 1 < j /\ list[j] = [op |-> "create", on |-> list[i + 1].on]
  BY <1>1, <1>2 DEF Restored
<1>4. j # 1 /\ j \in Nat
  BY <1>2, <1>3, TailHas
<1>5. j - 1 \in DOMAIN Tail(list) /\ Tail(list)[j - 1] = list[j]
  BY <1>3, <1>4, TailHas
<1>6. i < j - 1
  BY <1>2, <1>3, <1>4
<1>7. QED
  BY <1>2, <1>3, <1>5, <1>6

\* What a drop takes along: no table but the object itself, and nothing that
\* stands as the target has it.
LEMMA GoneIsRight ==
    ASSUME MigrationInv, Standing, NEW o \in Object, o.kind \in granted,
           o \in Removed \/ Renewed(o),
           NEW u \in {o} \cup GoesWith(o)
    PROVE  /\ u.kind = "table" => u = o
           /\ u.kind = "column" => u \notin DOMAIN target
           /\ u \in DOMAIN target /\ Settled(u) => u = o
<1>1. WellFormed(target)
  BY DEF MigrationInv, MigrationTypeOK, Sound
<1>2. CASE u = o
  <2>1. u.kind = "column" => u \notin DOMAIN target
    BY <1>2 DEF Renewed, Removed
  <2>2. QED
    BY <1>2, <2>1
<1>3. CASE u \in GoesWith(o) /\ o.kind = "table"
  <2>1. o \notin DOMAIN target
    BY <1>3 DEF Renewed, Removed
  <2>2. \A p : PartOf(p, o) => p.kind \notin Free /\ Owner(p) = o
    BY <1>3 DEF PartOf, Owner, Object
  <2>3. \A p : PartOf(p, o) => p \notin DOMAIN target
    BY <1>1, <2>1, <2>2 DEF WellFormed
  <2>4. u \in OfTable(DOMAIN db, o) \cup Owned(OfTable(DOMAIN db, o))
    BY <1>3 DEF GoesWith
  <2>5. CASE u \in OfTable(DOMAIN db, o)
    <3>1. PartOf(u, o) /\ u \in DOMAIN db
      BY <2>5 DEF OfTable
    <3>2. u.kind = "table" => u = o
      BY <1>3, <3>1 DEF Standing, PartOf, Object
    <3>3. QED
      BY <2>3, <3>1, <3>2
  <2>6. CASE u \in Owned(OfTable(DOMAIN db, o))
    <3>1. u.kind = "sequence" /\ db[u].uses \cap OfTable(DOMAIN db, o) # {}
      BY <2>6 DEF Owned, OfKind
    <3>2. PICK c \in db[u].uses : PartOf(c, o)
      BY <3>1 DEF OfTable
    <3>3. ASSUME u \in DOMAIN target, Settled(u) PROVE FALSE
      BY <1>1, <2>3, <3>2, <3>3 DEF Settled, WellFormed
    <3>4. QED
      BY <3>1, <3>3
  <2>7. QED
    BY <2>4, <2>5, <2>6
<1>4. CASE u \in GoesWith(o) /\ o.kind = "column"
  <2>1. o \notin DOMAIN target
    BY <1>4 DEF Renewed, Removed
  <2>2. u.kind \in {"index", "fk", "pk", "sequence"} /\ o \in db[u].uses
    <3>1. CASE driver = "postgres"
      <4>1. \/ u \in OfTable(Users(o), Owner(o)) /\ u.kind \in {"index", "fk", "pk"}
            \/ u \in Owned({o})
        BY <1>4, <3>1 DEF GoesWith
      <4>2. CASE u \in OfTable(Users(o), Owner(o)) /\ u.kind \in {"index", "fk", "pk"}
        BY <4>2 DEF OfTable, Users
      <4>3. CASE u \in Owned({o})
        BY <4>3 DEF Owned, OfKind
      <4>4. QED
        BY <4>1, <4>2, <4>3
    <3>2. CASE driver = "mysql"
      BY <1>4, <3>2 DEF GoesWith, Users
    <3>3. CASE driver = "oracle"
      BY <1>4, <3>3 DEF GoesWith, OfTable, Users
    <3>4. CASE driver \notin {"postgres", "mysql", "oracle"}
      BY <1>4, <3>4 DEF GoesWith
    <3>5. QED
      BY <3>1, <3>2, <3>3, <3>4
  <2>3. ASSUME u \in DOMAIN target, Settled(u) PROVE FALSE
    BY <1>1, <2>1, <2>2, <2>3 DEF Settled, WellFormed
  <2>4. QED
    BY <2>2, <2>3
<1>5. CASE u \in GoesWith(o) /\ o.kind \notin {"table", "column"}
  BY <1>5 DEF GoesWith
<1>6. QED
  BY <1>2, <1>3, <1>4, <1>5

\* A drop leaves a script that still leads to the target.
LEMMA DropKeepsReach ==
    ASSUME MigrationInv, ReachInv, Execute, Head(script).op = "drop"
    PROVE  Standing' /\ Reaching'
<1> DEFINE s == Head(script)
           gone == {s.on} \cup GoesWith(s.on)
<1>1. /\ UNCHANGED <<inputs, pc, dropping, creating, stack>>
      /\ pc = "run" /\ script # << >> /\ script' = Tail(script)
      /\ db' = Without(gone)
  BY DEF Execute
<1>2. /\ target' = target
      /\ \A u : (Reviewed(u)' <=> Reviewed(u)) /\ (Spared(u)' <=> Spared(u))
      /\ \A u : Brought(u)' = Brought(u)
  BY <1>1, SameDifferences, SameReview
<1>3. /\ script \in Seq(RightStatements) /\ Sound(target)
      /\ \A u \in DOMAIN db : db[u] \in Definition
  BY DEF MigrationInv, MigrationTypeOK
<1>4. s \in RightStatements
  BY <1>1, <1>3
<1>5. PICK o \in Object : o = s.on
  BY <1>4 DEF RightStatements, Statements
<1>6. s.op = "drop" /\ o.kind \in granted /\ (o \in Removed \/ Renewed(o))
  BY <1>4, <1>5 DEF RightStatements, Right
<1>7. Standing /\ Reaching
  BY <1>1 DEF ReachInv
<1>8. script[1] = s /\ 1 \in DOMAIN script
  BY <1>1, <1>3, TailHas
<1>9. PICK away : away = gone
  OBVIOUS
<1>10. \A u \in away : /\ u.kind = "table" => u = o
                       /\ u.kind = "column" => u \notin DOMAIN target
                       /\ u \in DOMAIN target /\ Settled(u) => u = o
  <2>1. TAKE u \in away
  <2>2. u \in {o} \cup GoesWith(o)
    BY <1>5, <1>9
  <2>3. QED
    BY <1>6, <1>7, <2>2, GoneIsRight
<1>11. o \in away /\ (o.kind = "table" => OfTable(DOMAIN db, o) \subseteq away)
  BY <1>5, <1>9 DEF GoesWith
<1>12. /\ DOMAIN db' = DOMAIN db \ away
       /\ \A u \in DOMAIN db' :
              db'[u] = IF u.kind \in {"index", "pk"}
                       THEN [db[u] EXCEPT !.uses = db[u].uses \ away] ELSE db[u]
  BY <1>1, <1>9 DEF Without
<1> HIDE DEF s, gone
<1>13. Standing'
  <2>1. SUFFICES ASSUME NEW u \in DOMAIN db'
                 PROVE  u \in Object /\ (u.kind \notin Free => Owner(u) \in DOMAIN db')
    BY DEF Standing
  <2>2. u \in DOMAIN db /\ u \notin away /\ u \in Object
    BY <1>7, <1>12 DEF Standing
  <2>3. ASSUME u.kind \notin Free, Owner(u) \in away PROVE FALSE
    <3>1. Owner(u) = o
      BY <1>10, <2>3 DEF Owner
    <3>2. u \in OfTable(DOMAIN db, o)
      BY <2>2, <2>3, <3>1 DEF OfTable, PartOf, Owner
    <3>3. QED
      BY <1>11, <2>2, <3>1, <3>2 DEF Owner
  <2>4. QED
    BY <1>7, <1>12, <2>2, <2>3 DEF Standing
<1>14. ASSUME NEW u \in DOMAIN target, ~ Reviewed(u)
       PROVE  Settled(u)' \/ Coming(u)'
  <2>1. CASE Settled(u)
    <3>1. CASE u \in away
      <4>1. u = o
        BY <1>10, <2>1, <3>1
      <4>2. PICK j \in DOMAIN script : 1 < j /\ script[j] = [op |-> "create", on |-> u]
        BY <1>5, <1>6, <1>7, <1>8, <4>1 DEF Reaching, Restored
      <4>3. j # 1
        BY <1>3, <4>2, TailHas
      <4>4. j - 1 \in DOMAIN script' /\ script'[j - 1] = script[j]
        BY <1>1, <1>3, <4>3, TailHas
      <4>5. u \in Brought(u)'
        BY DEF Brought
      <4>6. QED
        BY <4>2, <4>4, <4>5 DEF Coming, Brings
    <3>2. CASE u \notin away
      <4>1. u \in DOMAIN db /\ u \in DOMAIN db' /\ db[u] = target[u]
        BY <1>12, <2>1, <3>2 DEF Settled
      <4>2. u.kind \in {"index", "pk"} => db[u].uses \cap away = {}
        <5>1. u.kind \in {"index", "pk"} =>
                  \A c \in target[u].uses : c.kind = "column" /\ c \in DOMAIN target
          BY <1>3 DEF Sound, WellFormed, Usable
        <5>2. QED
          BY <1>10, <4>1, <5>1
      <4>3. db'[u] = db[u]
        <5>1. CASE u.kind \in {"index", "pk"}
          <6>1. db[u].uses \ away = db[u].uses
            BY <4>2, <5>1
          <6>2. db[u] \in Definition
            BY <1>3, <4>1
          <6>3. [db[u] EXCEPT !.uses = db[u].uses] = db[u]
            BY <6>2 DEF Definition
          <6>4. QED
            BY <1>12, <4>1, <5>1, <6>1, <6>3
        <5>2. CASE u.kind \notin {"index", "pk"}
          BY <1>12, <4>1, <5>2
        <5>3. QED
          BY <5>1, <5>2
      <4>4. QED
        BY <1>2, <4>1, <4>3 DEF Settled
    <3>3. QED
      BY <3>1, <3>2
  <2>2. CASE Coming(u)
    <3>1. PICK i \in DOMAIN script : Brings(script[i], u)
      BY <2>2 DEF Coming
    <3>2. i # 1
      BY <1>6, <1>8, <3>1 DEF Brings
    <3>3. i - 1 \in DOMAIN script' /\ script'[i - 1] = script[i]
      BY <1>1, <1>3, <3>2, TailHas
    <3>4. PICK m : m = script[i]
      OBVIOUS
    <3>5. Brings(m, u)'
      BY <1>2, <3>1, <3>4 DEF Brings
    <3>6. QED
      BY <3>3, <3>4, <3>5 DEF Coming
  <2>3. QED
    BY <1>7, <1>14, <2>1, <2>2 DEF Reaching
<1>15. ASSUME NEW u \in DOMAIN db' \ DOMAIN target, ~ Spared(u)
       PROVE  Going(u)'
  <2>1. u \in DOMAIN db \ DOMAIN target /\ u # o
    BY <1>11, <1>12
  <2>2. PICK i \in DOMAIN script : script[i] = [op |-> "drop", on |-> u]
    BY <1>7, <1>15, <2>1 DEF Reaching, Going, Has
  <2>3. i # 1
    BY <1>5, <1>8, <2>1, <2>2
  <2>4. i - 1 \in DOMAIN script' /\ script'[i - 1] = script[i]
    BY <1>1, <1>3, <2>3, TailHas
  <2>5. QED
    BY <2>2, <2>4 DEF Going, Has
<1>16. Restored(script)'
  <2>1. Restored(Tail(script))
    BY <1>1, <1>3, <1>7, TailRestored DEF Reaching
  <2>2. QED
    BY <1>1, <1>2, <2>1 DEF Restored
<1>17. Reaching'
  BY <1>2, <1>14, <1>15, <1>16 DEF Reaching
<1>18. QED
  BY <1>13, <1>17

\* A statement that creates or alters brings what it is for, and leaves a script
\* that still leads to the target.
LEMMA MakeKeepsReach ==
    ASSUME MigrationInv, ReachInv, Execute, Head(script).op \in {"create", "alter"}
    PROVE  Standing' /\ Reaching'
<1> DEFINE s == Head(script)
<1>1. /\ UNCHANGED <<inputs, pc, dropping, creating, stack>>
      /\ pc = "run" /\ script # << >> /\ script' = Tail(script)
      /\ Possible(s)
  BY DEF Execute
<1>2. /\ target' = target
      /\ \A u : (Reviewed(u)' <=> Reviewed(u)) /\ (Spared(u)' <=> Spared(u))
      /\ \A u : Brought(u)' = Brought(u)
  BY <1>1, SameDifferences, SameReview
<1>3. script \in Seq(RightStatements) /\ Sound(target) /\ DOMAIN target \subseteq Object
  BY DEF MigrationInv, MigrationTypeOK, Sound
<1>4. s \in RightStatements
  BY <1>1, <1>3
<1>5. PICK o \in Object : o = s.on
  BY <1>4 DEF RightStatements, Statements
<1>6. o \in DOMAIN target
  BY <1>4, <1>5 DEF RightStatements, Right, Renewed, Added, Modified, Kept
<1>7. Standing /\ Reaching
  BY <1>1 DEF ReachInv
<1>8. script[1] = s /\ 1 \in DOMAIN script
  BY <1>1, <1>3, TailHas
<1>9. Brought(o) \subseteq DOMAIN target
  BY <1>6 DEF Brought
<1>10. /\ DOMAIN db' = DOMAIN db \cup Brought(o)
       /\ \A u \in DOMAIN db \ Brought(o) : db'[u] = db[u]
       /\ \A u \in Brought(o) : db'[u] = target[u] \/ Reviewed(u)
  BY <1>5, ExecuteMakes DEF MigrationInv
<1>11. o.kind \notin Free => Owner(o) \in DOMAIN db \cup Brought(o)
  <2>1. CASE o.kind = "table"
    BY <2>1 DEF Owner, Brought, Object
  <2>2. CASE o.kind # "table" /\ s.op = "create"
    BY <1>1, <1>5, <2>2 DEF Possible
  <2>3. CASE s.op = "alter"
    <3>1. o \in DOMAIN db
      BY <1>1, <1>5, <2>3 DEF Possible
    <3>2. QED
      BY <1>7, <3>1 DEF Standing
  <2>4. QED
    BY <2>1, <2>2, <2>3
<1> HIDE DEF s
<1>12. Standing'
  <2>1. SUFFICES ASSUME NEW u \in DOMAIN db'
                 PROVE  u \in Object /\ (u.kind \notin Free => Owner(u) \in DOMAIN db')
    BY DEF Standing
  <2>2. CASE u \in Brought(o) /\ u # o
    <3>1. u \in Object /\ o.kind = "table" /\ PartOf(u, o)
      BY <1>3, <1>9, <2>2 DEF Brought
    <3>2. Owner(u) = o
      BY <3>1 DEF PartOf, Owner, Object
    <3>3. o \in Brought(o)
      BY DEF Brought
    <3>4. QED
      BY <1>10, <3>1, <3>2, <3>3
  <2>3. CASE u = o
    BY <1>10, <1>11, <2>3
  <2>4. CASE u \in DOMAIN db
    BY <1>7, <1>10, <2>4 DEF Standing
  <2>5. QED
    BY <1>10, <2>2, <2>3, <2>4
<1>13. ASSUME NEW u \in DOMAIN target, ~ Reviewed(u)
       PROVE  Settled(u)' \/ Coming(u)'
  <2>1. CASE u \in Brought(o) \/ Settled(u)
    <3>1. u \in DOMAIN db' /\ db'[u] = target[u]
      BY <1>10, <1>13, <2>1 DEF Settled
    <3>2. QED
      BY <1>2, <3>1 DEF Settled
  <2>2. CASE u \notin Brought(o) /\ Coming(u)
    <3>1. PICK i \in DOMAIN script : Brings(script[i], u)
      BY <2>2 DEF Coming
    <3>2. i # 1
      BY <1>5, <1>8, <2>2, <3>1 DEF Brings
    <3>3. i - 1 \in DOMAIN script' /\ script'[i - 1] = script[i]
      BY <1>1, <1>3, <3>2, TailHas
    <3>4. PICK m : m = script[i]
      OBVIOUS
    <3>5. Brings(m, u)'
      BY <1>2, <3>1, <3>4 DEF Brings
    <3>6. QED
      BY <3>3, <3>4, <3>5 DEF Coming
  <2>3. QED
    BY <1>7, <1>13, <2>1, <2>2 DEF Reaching
<1>14. ASSUME NEW u \in DOMAIN db' \ DOMAIN target, ~ Spared(u)
       PROVE  Going(u)'
  <2>1. u \in DOMAIN db \ DOMAIN target
    BY <1>9, <1>10
  <2>2. PICK i \in DOMAIN script : script[i] = [op |-> "drop", on |-> u]
    BY <1>7, <1>14, <2>1 DEF Reaching, Going, Has
  <2>3. i # 1
    BY <1>8, <2>2 DEF s
  <2>4. i - 1 \in DOMAIN script' /\ script'[i - 1] = script[i]
    BY <1>1, <1>3, <2>3, TailHas
  <2>5. QED
    BY <2>2, <2>4 DEF Going, Has
<1>15. Restored(script)'
  <2>1. Restored(Tail(script))
    BY <1>1, <1>3, <1>7, TailRestored DEF Reaching
  <2>2. QED
    BY <1>1, <1>2, <2>1 DEF Restored
<1>16. Reaching'
  BY <1>2, <1>13, <1>14, <1>15 DEF Reaching
<1>17. QED
  BY <1>12, <1>16

\* So does the text of a routine or a trigger.
LEMMA TextKeepsReach ==
    ASSUME MigrationInv, ReachInv, Execute, Head(script).op = "text"
    PROVE  Standing' /\ Reaching'
<1>1. /\ UNCHANGED <<inputs, pc, dropping, creating, stack>>
      /\ pc = "run" /\ script # << >> /\ script' = Tail(script) /\ db' = db
  BY DEF Execute
<1>2. /\ target' = target
      /\ \A u : (Reviewed(u)' <=> Reviewed(u)) /\ (Spared(u)' <=> Spared(u))
      /\ \A u : Brought(u)' = Brought(u)
  BY <1>1, SameDifferences, SameReview
<1>3. script \in Seq(RightStatements)
  BY DEF MigrationInv, MigrationTypeOK
<1>4. Standing /\ Reaching
  BY <1>1 DEF ReachInv
<1>5. script[1].op = "text"
  BY <1>1, <1>3, TailHas
<1>6. Standing'
  BY <1>1, <1>4 DEF Standing
<1>7. ASSUME NEW u \in DOMAIN target, ~ Reviewed(u)
      PROVE  Settled(u)' \/ Coming(u)'
  <2>1. CASE Settled(u)
    BY <1>1, <1>2, <2>1 DEF Settled
  <2>2. CASE Coming(u)
    <3>1. PICK i \in DOMAIN script : Brings(script[i], u)
      BY <2>2 DEF Coming
    <3>2. i # 1
      BY <1>5, <3>1 DEF Brings
    <3>3. i - 1 \in DOMAIN script' /\ script'[i - 1] = script[i]
      BY <1>1, <1>3, <3>2, TailHas
    <3>4. PICK m : m = script[i]
      OBVIOUS
    <3>5. Brings(m, u)'
      BY <1>2, <3>1, <3>4 DEF Brings
    <3>6. QED
      BY <3>3, <3>4, <3>5 DEF Coming
  <2>3. QED
    BY <1>4, <1>7, <2>1, <2>2 DEF Reaching
<1>8. ASSUME NEW u \in DOMAIN db' \ DOMAIN target, ~ Spared(u)
      PROVE  Going(u)'
  <2>1. u \in DOMAIN db \ DOMAIN target
    BY <1>1
  <2>2. PICK i \in DOMAIN script : script[i] = [op |-> "drop", on |-> u]
    BY <1>4, <1>8, <2>1 DEF Reaching, Going, Has
  <2>3. i # 1
    BY <1>5, <2>2
  <2>4. i - 1 \in DOMAIN script' /\ script'[i - 1] = script[i]
    BY <1>1, <1>3, <2>3, TailHas
  <2>5. QED
    BY <2>2, <2>4 DEF Going, Has
<1>9. Restored(script)'
  <2>1. Restored(Tail(script))
    BY <1>1, <1>3, <1>4, TailRestored DEF Reaching
  <2>2. QED
    BY <1>1, <1>2, <2>1 DEF Restored
<1>10. QED
  BY <1>2, <1>6, <1>7, <1>8, <1>9 DEF Reaching

\* The script is written.
LEMMA WriteScriptReaches ==
    ASSUME MigrationInv, ReachInv, WriteScript
    PROVE  Standing' /\ Reaching'
<1>1. /\ pc = "added" /\ stack = << >> /\ Unvisited = {}
      /\ UNCHANGED <<inputs, dropping, creating, stack, db>>
  BY DEF WriteScript
<1>2. PICK walk \in SetToSeqs(Walked) : script' = Script(walk)
  BY DEF WriteScript
<1>3. /\ target' = target
      /\ \A u : (Reviewed(u)' <=> Reviewed(u)) /\ (Spared(u)' <=> Spared(u))
      /\ \A u : Brought(u)' = Brought(u)
  BY <1>1, SameDifferences, SameReview
<1>4. MigrationTypeOK
  BY DEF MigrationInv
<1>5. /\ Standing /\ db = source
      /\ \A t \in OfKind(Removed, "table") : Has(dropping, t)
  BY <1>1 DEF ReachInv
<1>6. \A t \in OfKind(Added, "table") : Has(creating, t)
  <2>1. ToSet(stack) = {}
    BY <1>1 DEF ToSet
  <2>2. QED
    BY <1>1, <2>1 DEF Unvisited, ToSet, Has
<1>7. Standing'
  BY <1>1, <1>5 DEF Standing
<1>8. ASSUME NEW u \in DOMAIN target, ~ Reviewed(u)
      PROVE  Settled(u)' \/ Coming(u)'
  <2>1. CASE u \in DOMAIN source /\ source[u] = target[u]
    BY <1>1, <1>3, <1>5, <2>1 DEF Settled
  <2>2. CASE \E i \in DOMAIN Script(walk) : Brings(Script(walk)[i], u)
    <3>1. PICK i \in DOMAIN script' : Brings(script'[i], u)
      BY <1>2, <2>2
    <3>2. PICK m : m = script'[i]
      OBVIOUS
    <3>3. Brings(m, u)'
      BY <1>3, <3>1, <3>2 DEF Brings
    <3>4. QED
      BY <3>2, <3>3 DEF Coming
  <2>3. QED
    BY <1>4, <1>6, <1>8, <2>1, <2>2, ScriptBrings
<1>9. ASSUME NEW u \in DOMAIN db' \ DOMAIN target, ~ Spared(u)
      PROVE  Going(u)'
  <2>1. u \in Removed
    BY <1>1, <1>5 DEF Removed
  <2>2. Has(Script(walk), [op |-> "drop", on |-> u])
    BY <1>4, <1>5, <1>9, <2>1, ScriptDrops
  <2>3. QED
    BY <1>2, <2>2 DEF Going, Has
<1>10. Restored(script)'
  <2>1. Restored(Script(walk))
    BY <1>4, ScriptType DEF Scripts
  <2>2. QED
    BY <1>2, <1>3, <2>1 DEF Restored
<1>11. QED
  BY <1>3, <1>7, <1>8, <1>9, <1>10 DEF Reaching

\* Where neither the script nor the database changes, the script leads where it
\* did.
LEMMA SameReaching ==
    ASSUME Reaching, UNCHANGED <<inputs, script, db>>
    PROVE  Reaching'
<1>1. /\ target' = target
      /\ \A u : (Reviewed(u)' <=> Reviewed(u)) /\ (Spared(u)' <=> Spared(u))
      /\ \A u : Brought(u)' = Brought(u)
  BY SameDifferences, SameReview
<1>2. ASSUME NEW u PROVE (Settled(u)' <=> Settled(u)) /\ (Going(u)' <=> Going(u))
  BY <1>1 DEF Settled, Going
<1>3. ASSUME NEW u PROVE Coming(u)' <=> Coming(u)
  <2>1. \A m : Brings(m, u)' <=> Brings(m, u)
    BY <1>1 DEF Brings
  <2>2. Coming(u)' <=> \E i \in DOMAIN script : \E m : m = script[i] /\ Brings(m, u)'
    BY DEF Coming
  <2>3. QED
    BY <2>1, <2>2 DEF Coming
<1>4. Restored(script)' <=> Restored(script)
  BY <1>1 DEF Restored
<1>5. QED
  BY <1>1, <1>2, <1>3, <1>4 DEF Reaching

\* Every step keeps the invariant.
LEMMA ReachInductive ==
    ASSUME MigrationInv, ReachInv, [SchemaNext]_schemaVars
    PROVE  ReachInv'
<1>1. ASSUME NEW from, NEW to, NEW permissions, pc = "call",
             \E family \in Families[driver] : from \in family /\ to \in family,
             Generate(from, to, permissions)
      PROVE  ReachInv'
  <2>1. driver \in Drivers
    BY <1>1 DEF MigrationInv, Blank
  <2>2. DOMAIN from \subseteq Object /\ WellFormed(from)
    BY <1>1, <2>1, SchemaAssumption
  <2>3. db' = from /\ source' = from /\ pc' = "removed"
    BY <1>1 DEF Generate
  <2>4. Standing'
    BY <2>2, <2>3 DEF Standing, WellFormed
  <2>5. QED
    BY <2>3, <2>4 DEF ReachInv
<1>2. CASE SchemaMigrate
  <2>1. PICK family \in Families[driver] :
            \E prod, dev \in family, config \in Configs : Generate(prod, dev, Passed(config))
    BY <1>2 DEF SchemaMigrate
  <2>2. PICK prod \in family, dev \in family, config \in Configs :
            Generate(prod, dev, Passed(config))
    BY <2>1
  <2>3. pc = "call"
    BY <1>2 DEF SchemaMigrate
  <2>4. QED
    BY <1>1, <2>2, <2>3
<1>3. CASE Rollback
  <2>1. PICK family \in Families[driver] : \E prod, dev \in family : Generate(dev, prod, {})
    BY <1>3 DEF Rollback
  <2>2. PICK prod \in family, dev \in family : Generate(dev, prod, {})
    BY <2>1
  <2>3. pc = "call"
    BY <1>3 DEF Rollback
  <2>4. QED
    BY <1>1, <2>2, <2>3
<1>4. CASE OrderRemoved
  BY <1>4 DEF OrderRemoved, ReachInv, Standing, inputs
<1>5. CASE RemovedOrdered
  <2>1. /\ pc = "removed" /\ pc' = "added" /\ db' = db /\ dropping' = dropping
        /\ OfKind(Removed, "table") \subseteq ToSet(dropping) /\ UNCHANGED inputs
    BY <1>5 DEF RemovedOrdered
  <2>2. Removed' = Removed /\ source' = source
    BY <2>1, SameDifferences
  <2>3. \A t \in OfKind(Removed, "table") : Has(dropping, t)
    BY <2>1 DEF ToSet, Has
  <2>4. QED
    BY <2>1, <2>2, <2>3 DEF ReachInv, Standing, OfKind, Has
<1>6. CASE VisitNext \/ VisitDependency \/ Visited
  <2>1. pc = "added" /\ pc' = pc /\ db' = db /\ dropping' = dropping /\ UNCHANGED inputs
    BY <1>6 DEF VisitNext, VisitDependency, Visited
  <2>2. Removed' = Removed /\ source' = source
    BY <2>1, SameDifferences
  <2>3. QED
    BY <2>1, <2>2 DEF ReachInv, Standing, OfKind, Has
<1>7. CASE WriteScript
  <2>1. pc' = "run"
    BY <1>7 DEF WriteScript
  <2>2. QED
    BY <1>7, <2>1, WriteScriptReaches DEF ReachInv
<1>8. CASE Execute
  <2>1. pc' = "run" /\ script # << >>
    BY <1>8 DEF Execute
  <2>2. script \in Seq(RightStatements)
    BY DEF MigrationInv, MigrationTypeOK
  <2>3. Head(script) \in RightStatements
    BY <2>1, <2>2
  <2>4. Head(script).op \in {"drop", "create", "alter", "text"}
    BY <2>3 DEF RightStatements, Statements
  <2>5. Standing' /\ Reaching'
    BY <1>8, <2>4, DropKeepsReach, MakeKeepsReach, TextKeepsReach
  <2>6. QED
    BY <2>1, <2>5 DEF ReachInv
<1>9. CASE Refuse
  BY <1>9 DEF Refuse, ReachInv, Standing
<1>10. CASE Finish
  <2>1. /\ pc = "run" /\ pc' = "done" /\ script = << >> /\ script' = script /\ db' = db
        /\ UNCHANGED inputs
    BY <1>10 DEF Finish
  <2>2. Reaching'
    BY <2>1, SameReaching DEF ReachInv
  <2>3. QED
    BY <2>1, <2>2 DEF ReachInv, Standing
<1>11. CASE UNCHANGED schemaVars
  <2>1. /\ UNCHANGED inputs /\ pc' = pc /\ db' = db /\ script' = script /\ dropping' = dropping
    BY <1>11 DEF schemaVars
  <2>2. Removed' = Removed /\ source' = source
    BY <2>1, SameDifferences
  <2>3. pc \in {"run", "done"} => Reaching'
    BY <2>1, SameReaching DEF ReachInv
  <2>4. QED
    BY <2>1, <2>2, <2>3 DEF ReachInv, Standing, OfKind, Has
<1>12. QED
  BY <1>2, <1>3, <1>4, <1>5, <1>6, <1>7, <1>8, <1>9, <1>10, <1>11 DEF SchemaNext, Order

(***************************************************************************)
(* The theorem.                                                            *)
(***************************************************************************)

\* Whatever is left of the script leads to the target: what does not stand yet
\* as the target defines it, and is not left to a reader, a statement still
\* brings; what must go, a statement still drops; and what is dropped though the
\* target has it, a later statement creates again (the sections of
\* GenerateMigrationWithSchemas).
THEOREM ReachInvariant == SchemaSpec => []ReachInv
<1>1. SchemaInit => ReachInv
  BY DEF SchemaInit, ReachInv, Standing, NoSchema
<1>2. MigrationInv /\ ReachInv /\ [SchemaNext]_schemaVars => ReachInv'
  BY ReachInductive
<1>3. QED
  BY <1>1, <1>2, MigrationInvariant, PTL DEF SchemaSpec

\* A script that ran to its end has led to the target: all of it stands as it is
\* defined there, but for what is left to a reader, and nothing else stands but
\* what may not or, in SQLite, cannot be dropped, and the parts of such a table
\* (GenerateMigrationWithSchemas, run statement by statement).
THEOREM TargetReachedHolds == SchemaSpec => []TargetReached
<1>1. ReachInv => TargetReached
  <2>1. SUFFICES ASSUME ReachInv, pc = "done" PROVE TargetReached
    BY DEF TargetReached
  <2>2. Standing /\ Reaching /\ script = << >>
    BY <2>1 DEF ReachInv
  <2>3. \A o : ~ Coming(o) /\ ~ Going(o)
    BY <2>2 DEF Coming, Going, Has
  <2>4. \A o \in DOMAIN target : ~ Reviewed(o) => o \in DOMAIN db /\ db[o] = target[o]
    BY <2>2, <2>3 DEF Reaching, Settled
  <2>5. ASSUME NEW o \in DOMAIN db \ DOMAIN target
        PROVE  \/ o.kind \notin granted \/ Unsupported("drop", o)
               \/ o.kind \notin Free \cup {"table"} /\ Owner(o) \in DOMAIN db \ DOMAIN target
    BY <2>2, <2>3 DEF Reaching, Spared, Standing
  <2>6. QED
    BY <2>4, <2>5 DEF TargetReached
<1>2. QED
  BY <1>1, ReachInvariant, PTL

(***************************************************************************)
(* The order of drops.                                                     *)
(***************************************************************************)

\* The tables that the script drops, and one that is reached from a cycle of them.
Old == OfKind(Removed, "table")

Cyclic(t) == BehindCycle(source, Old, t)

\* What leads to a table, and what leads to that.
LEMMA LeadingFacts ==
    ASSUME NEW schema, NEW tables, NEW t
    PROVE  /\ Leading(schema, tables, t) \subseteq tables
           /\ \A u \in tables : t \in References(schema, u) => u \in Leading(schema, tables, t)
           /\ \A u \in Leading(schema, tables, t) :
                  Leading(schema, tables, u) \subseteq Leading(schema, tables, t)
<1>1. Leading(schema, tables, t) \subseteq tables
  BY DEF Leading
<1>2. ASSUME NEW u \in tables, t \in References(schema, u)
      PROVE  u \in Leading(schema, tables, t)
  BY <1>2 DEF Leading
<1>3. ASSUME NEW u \in Leading(schema, tables, t), NEW w \in Leading(schema, tables, u)
      PROVE  w \in Leading(schema, tables, t)
  <2>1. w \in tables
    BY <1>3 DEF Leading
  <2>2. ASSUME NEW S \in SUBSET tables,
               \A v \in tables : References(schema, v) \cap ({t} \cup S) # {} => v \in S
        PROVE  w \in S
    <3>1. u \in S
      BY <1>3, <2>2 DEF Leading
    <3>2. \A v \in tables : References(schema, v) \cap ({u} \cup S) # {} => v \in S
      BY <2>2, <3>1
    <3>3. QED
      BY <1>3, <3>2 DEF Leading
  <2>3. QED
    BY <2>1, <2>2 DEF Leading
<1>4. QED
  BY <1>1, <1>2, <1>3

\* Where each of some tables is referenced by one of them, each is reached from a
\* cycle.
LEMMA CycleExists ==
    ASSUME NEW schema, NEW tables, IsFiniteSet(tables),
           NEW left \in SUBSET tables,
           \A t \in left : \E u \in left : t \in References(schema, u),
           NEW x \in left
    PROVE  BehindCycle(schema, tables, x)
<1> DEFINE leads(t) == Leading(schema, tables, t) \cap left
           Numbers == {n \in Nat : \E y \in leads(x) : n = Cardinality(leads(y))}
<1>1. ASSUME NEW t \in left PROVE leads(t) # {}
  <2>1. PICK u \in left : t \in References(schema, u)
    OBVIOUS
  <2>2. u \in tables
    OBVIOUS
  <2>3. u \in Leading(schema, tables, t)
    BY <2>1, <2>2, LeadingFacts
  <2>4. QED
    BY <2>3
<1>2. ASSUME NEW t PROVE /\ IsFiniteSet(leads(t)) /\ Cardinality(leads(t)) \in Nat
                         /\ leads(t) \subseteq left
  <2>1. leads(t) \subseteq tables /\ leads(t) \subseteq left
    OBVIOUS
  <2> HIDE DEF leads
  <2>2. QED
    BY <2>1, FS_Subset, FS_CardinalityType
<1>3. ASSUME NEW t, NEW u \in leads(t)
      PROVE  u \in Leading(schema, tables, t) /\ leads(u) \subseteq leads(t)
  BY <1>3, LeadingFacts
<1>4. PICK y0 \in leads(x) : TRUE
  BY <1>1
<1> HIDE DEF leads
<1>5. Cardinality(leads(y0)) \in Numbers
  BY <1>2, <1>4
<1>6. Numbers \in SUBSET Nat /\ Numbers # {}
  BY <1>5
<1>7. \A n \in Numbers : \E y \in leads(x) : n = Cardinality(leads(y))
  OBVIOUS
<1>8. \A y \in leads(x) : Cardinality(leads(y)) \in Numbers
  BY <1>2
<1> HIDE DEF Numbers
<1>9. PICK n \in Numbers : \A m \in Numbers : ~ (m < n)
  BY <1>6, LeastExists
<1>10. PICK y \in leads(x) : n = Cardinality(leads(y))
  BY <1>7
<1>11. y \in left
  BY <1>2
<1>12. PICK z \in leads(y) : TRUE
  BY <1>1, <1>11
<1>13. z \in leads(x) /\ leads(z) \subseteq leads(y)
  BY <1>3, <1>10, <1>12
<1>14. leads(z) = leads(y)
  <2>1. Cardinality(leads(z)) \in Numbers
    BY <1>8, <1>13
  <2>2. ~ (Cardinality(leads(z)) < Cardinality(leads(y)))
    BY <1>9, <1>10, <2>1
  <2>3. IsFiniteSet(leads(y)) /\ Cardinality(leads(y)) \in Nat /\ Cardinality(leads(z)) \in Nat
    BY <1>2
  <2>4. Cardinality(leads(z)) <= Cardinality(leads(y))
    BY <1>13, <2>3, FS_Subset
  <2>5. Cardinality(leads(z)) = Cardinality(leads(y))
    BY <2>2, <2>3, <2>4
  <2>6. QED
    BY <1>13, <2>3, <2>5, FS_Subset
<1>15. z \in Leading(schema, tables, z)
  BY <1>3, <1>12, <1>14
<1>16. z \in Leading(schema, tables, x)
  BY <1>3, <1>13
<1>17. QED
  BY <1>15, <1>16 DEF BehindCycle

\* A list of removed tables: one that references another comes first, but for
\* those that are reached from a cycle; so do those that come later.
Sorted(list) ==
    /\ \A i, j \in DOMAIN list : i < j =>
           /\ list[i] # list[j]
           /\ list[i] \in References(source, list[j]) => Cyclic(list[i])
    /\ \A i \in DOMAIN list : \A u \in Old \ ToSet(list) :
           list[i] \in References(source, u) => Cyclic(list[i])

\* ByName lists what it lists once, and by name.
LEMMA ByNameOrder ==
    ASSUME NEW S, S \subseteq Object, IsFiniteSet(S), NEW R \in SUBSET S
    PROVE  \A i, j \in DOMAIN ByName(R) : i < j =>
               /\ ByName(R)[i] # ByName(R)[j]
               /\ ByName(R)[i].name <= ByName(R)[j].name
<1>1. R \in SUBSET Object /\ IsFiniteSet(R)
  BY FS_Subset
<1>2. ByName(R) \in SetToSeqs(R) /\ InOrder(ByName(R))
  BY <1>1, OrderExists DEF ByName, InOrder
<1>3. Cardinality(R) \in Nat
  BY <1>1, FS_CardinalityType
<1>4. /\ ByName(R) \in [1 .. Cardinality(R) -> R]
      /\ \A i, j \in 1 .. Cardinality(R) : i # j => ByName(R)[i] # ByName(R)[j]
  BY <1>2 DEF SetToSeqs
<1>5. QED
  BY <1>2, <1>3, <1>4 DEF InOrder

\* The next table to be dropped, or all that are left of a cycle.
LEMMA OrderRemovedSorts ==
    ASSUME MigrationTypeOK, Sorted(dropping), OrderRemoved
    PROVE  Sorted(dropping')
<1> DEFINE left == Old \ ToSet(dropping)
           free == Unreferenced(left)
           n == Len(dropping)
<1>1. /\ dropping' = IF free = {} THEN dropping \o ByName(left)
                     ELSE Append(dropping, Head(ByName(free)))
      /\ left # {}
  BY DEF OrderRemoved, Old
<1>2. dropping \in Seq(Old) /\ n \in Nat /\ DOMAIN dropping = 1 .. n
  BY DEF MigrationTypeOK, Old
<1>3. /\ \A i, j \in 1 .. n : i < j =>
             /\ dropping[i] # dropping[j]
             /\ dropping[i] \in References(source, dropping[j]) => Cyclic(dropping[i])
      /\ \A i \in 1 .. n : \A u \in left :
             dropping[i] \in References(source, u) => Cyclic(dropping[i])
      /\ \A i \in 1 .. n : dropping[i] \notin left
  BY <1>2 DEF Sorted, ToSet
<1>4. /\ Old \subseteq Object /\ IsFiniteSet(Old)
      /\ left \in SUBSET Old /\ free \in SUBSET Old /\ free \subseteq left
  <2>1. Old \subseteq Removed
    BY DEF Old, OfKind
  <2>2. free \subseteq left
    BY DEF Unreferenced
  <2>3. QED
    BY <2>1, <2>2, DifferencesType, FS_Subset
<1>5. CASE free # {}
  <2>1. PICK x \in free : x = Head(ByName(free))
    <3>1. free \in SUBSET Object /\ IsFiniteSet(free)
      BY <1>4, FS_Subset
    <3> HIDE DEF free
    <3>2. QED
      BY <1>5, <3>1, ByNameType
  <2>2. x \in left /\ \A u \in left : x \notin References(source, u)
    BY DEF Unreferenced
  <2> HIDE DEF free, left
  <2>3. dropping' = Append(dropping, x)
    BY <1>1, <1>5, <2>1
  <2>4. /\ DOMAIN dropping' = 1 .. n + 1 /\ dropping'[n + 1] = x
        /\ \A i \in 1 .. n : dropping'[i] = dropping[i]
    BY <1>2, <2>3
  <2>5. Old \ ToSet(dropping') \subseteq left
    <3>1. ASSUME NEW u \in Old \ ToSet(dropping'), u \in ToSet(dropping) PROVE FALSE
      <4>1. PICK i \in 1 .. n : dropping[i] = u
        BY <1>2, <3>1 DEF ToSet
      <4>2. i \in DOMAIN dropping' /\ dropping'[i] = u
        BY <1>2, <2>4, <4>1
      <4>3. QED
        BY <3>1, <4>2 DEF ToSet
    <3>2. QED
      BY <3>1 DEF left
  <2>6. \A i \in 1 .. n + 1 : i \in 1 .. n \/ i = n + 1
    BY <1>2
  <2>7. ASSUME NEW i \in 1 .. n + 1, NEW j \in 1 .. n + 1, i < j
        PROVE  /\ dropping'[i] # dropping'[j]
               /\ dropping'[i] \in References(source, dropping'[j]) => Cyclic(dropping'[i])
    <3>1. i \in 1 .. n
      BY <1>2, <2>7
    <3>2. QED
      BY <1>3, <2>2, <2>4, <2>6, <2>7, <3>1
  <2>8. ASSUME NEW i \in 1 .. n + 1, NEW u \in Old \ ToSet(dropping'),
               dropping'[i] \in References(source, u)
        PROVE  Cyclic(dropping'[i])
    BY <1>3, <2>2, <2>4, <2>5, <2>6, <2>8
  <2>9. QED
    BY <2>4, <2>7, <2>8 DEF Sorted
<1>6. CASE free = {}
  <2>1. \A t \in left : \E u \in left : t \in References(source, u)
    BY <1>6 DEF Unreferenced
  <2> HIDE DEF free, left
  <2>2. \A x \in left : Cyclic(x)
    BY <1>4, <2>1, CycleExists DEF Cyclic
  <2> DEFINE rest == ByName(left)
             m == Len(rest)
  <2>3. /\ rest \in Seq(left)
        /\ \A i, j \in DOMAIN rest : i < j => rest[i] # rest[j]
    BY <1>4, PartByName, ByNameOrder
  <2>4. dropping' = dropping \o rest
    BY <1>1, <1>6
  <2> HIDE DEF rest
  <2>5. m \in Nat /\ DOMAIN rest = 1 .. m /\ \A i \in 1 .. m : rest[i] \in left
    BY <2>3
  <2>6. /\ DOMAIN dropping' = 1 .. n + m
        /\ \A i \in 1 .. n : dropping'[i] = dropping[i] /\ i \in 1 .. n + m
        /\ \A i \in 1 .. m : dropping'[n + i] = rest[i]
    BY <1>2, <2>3, <2>4
  <2> HIDE DEF m, n
  <2>7. \A i \in 1 .. n + m : i \in 1 .. n \/ \E k \in 1 .. m : i = n + k
    <3>1. TAKE i \in 1 .. n + m
    <3>2. i \notin 1 .. n => i - n \in 1 .. m /\ i = n + (i - n)
      BY <1>2, <2>5
    <3>3. QED
      BY <3>2
  <2>8. \A i \in 1 .. n + m : i \notin 1 .. n => Cyclic(dropping'[i]) /\ dropping'[i] \in left
    BY <2>2, <2>5, <2>6, <2>7
  <2>9. Old \ ToSet(dropping') \subseteq left
    <3>1. ASSUME NEW u \in Old \ ToSet(dropping'), u \in ToSet(dropping) PROVE FALSE
      <4>1. PICK i \in 1 .. n : dropping[i] = u
        BY <1>2, <3>1 DEF ToSet
      <4>2. i \in DOMAIN dropping' /\ dropping'[i] = u
        BY <2>6, <4>1
      <4>3. QED
        BY <3>1, <4>2 DEF ToSet
    <3>2. QED
      BY <3>1 DEF left
  <2>10. ASSUME NEW i \in 1 .. n + m, NEW j \in 1 .. n + m, i < j
         PROVE  /\ dropping'[i] # dropping'[j]
                /\ dropping'[i] \in References(source, dropping'[j]) => Cyclic(dropping'[i])
    <3>1. CASE i \in 1 .. n /\ j \in 1 .. n
      BY <1>3, <2>6, <2>10, <3>1
    <3>2. CASE i \in 1 .. n /\ j \notin 1 .. n
      BY <1>3, <2>6, <2>8, <3>2
    <3>3. CASE i \notin 1 .. n
      <4>1. PICK k \in 1 .. m : i = n + k
        BY <2>7, <3>3
      <4>2. j \notin 1 .. n
        BY <1>2, <2>5, <2>10, <3>3
      <4>3. PICK l \in 1 .. m : j = n + l
        BY <2>7, <4>2
      <4>4. k < l
        BY <1>2, <2>5, <2>10, <4>1, <4>3
      <4>5. rest[k] # rest[l]
        BY <2>3, <2>5, <4>4
      <4>6. QED
        BY <2>6, <2>8, <3>3, <4>1, <4>3, <4>5
    <3>4. QED
      BY <3>1, <3>2, <3>3
  <2>11. ASSUME NEW i \in 1 .. n + m, NEW u \in Old \ ToSet(dropping'),
                dropping'[i] \in References(source, u)
         PROVE  Cyclic(dropping'[i])
    <3>1. CASE i \in 1 .. n
      BY <1>3, <2>6, <2>9, <2>11, <3>1
    <3>2. CASE i \notin 1 .. n
      BY <2>8, <3>2
    <3>3. QED
      BY <3>1, <3>2
  <2>12. QED
    BY <2>6, <2>10, <2>11 DEF Sorted
<1>7. QED
  BY <1>5, <1>6

\* A list whose statements stand in a relation to those that come later.
Arranged(R, list) == \A i, j \in DOMAIN list : i < j => <<list[i], list[j]>> \in R

\* Two lists put together.
LEMMA ArrangedPut ==
    ASSUME NEW R, NEW A, NEW B, NEW a \in Seq(A), NEW b \in Seq(B),
           Arranged(R, a), Arranged(R, b),
           \A s \in A, t \in B : <<s, t>> \in R
    PROVE  Arranged(R, a \o b)
<1> DEFINE c == a \o b
           n == Len(a)
           m == Len(b)
<1>1. n \in Nat /\ m \in Nat /\ DOMAIN a = 1 .. n /\ DOMAIN b = 1 .. m
  OBVIOUS
<1>2. /\ DOMAIN c = 1 .. n + m
      /\ \A i \in 1 .. n : c[i] = a[i]
      /\ \A i \in 1 .. m : c[n + i] = b[i]
  OBVIOUS
<1>3. /\ \A i \in 1 .. n : a[i] \in A
      /\ \A i \in 1 .. m : b[i] \in B
  OBVIOUS
<1> HIDE DEF c, n, m
<1>4. ASSUME NEW i \in 1 .. n + m, i \notin 1 .. n
      PROVE  \E k \in 1 .. m : i = n + k
  <2>1. i - n \in 1 .. m /\ i = n + (i - n)
    BY <1>1, <1>4
  <2>2. QED
    BY <2>1
<1>5. ASSUME NEW i \in 1 .. n + m, NEW j \in 1 .. n + m, i < j
      PROVE  <<c[i], c[j]>> \in R
  <2>1. CASE i \in 1 .. n /\ j \in 1 .. n
    BY <1>1, <1>2, <1>5, <2>1 DEF Arranged
  <2>2. CASE i \in 1 .. n /\ j \notin 1 .. n
    <3>1. PICK l \in 1 .. m : j = n + l
      BY <1>4, <2>2
    <3>2. c[i] \in A /\ c[j] \in B
      BY <1>2, <1>3, <2>2, <3>1
    <3>3. QED
      BY <3>2
  <2>3. CASE i \notin 1 .. n
    <3>1. PICK k \in 1 .. m : i = n + k
      BY <1>4, <2>3
    <3>2. j \notin 1 .. n
      BY <1>1, <1>5, <2>3
    <3>3. PICK l \in 1 .. m : j = n + l
      BY <1>4, <3>2
    <3>4. k < l
      BY <1>1, <1>5, <3>1, <3>3
    <3>5. c[i] = b[k] /\ c[j] = b[l]
      BY <1>2, <3>1, <3>3
    <3>6. QED
      BY <1>1, <3>4, <3>5 DEF Arranged
  <2>4. QED
    BY <2>1, <2>2, <2>3
<1>6. QED
  BY <1>2, <1>5 DEF Arranged, c

\* Any number of lists.
LEMMA ArrangedFlatten ==
    ASSUME NEW R, NEW n \in Nat, NEW lists, lists = [i \in 1 .. n |-> lists[i]],
           NEW sets, NEW T,
           \A i \in 1 .. n : sets[i] \subseteq T,
           \A i \in 1 .. n : lists[i] \in Seq(sets[i]) /\ Arranged(R, lists[i]),
           \A i, j \in 1 .. n : i < j => \A s \in sets[i], t \in sets[j] : <<s, t>> \in R
    PROVE  FlattenSeq(lists) \in Seq(T) /\ Arranged(R, FlattenSeq(lists))
<1>1. Len(lists) = n
  OBVIOUS
<1>2. CASE n = 0
  <2>1. FlattenSeq(lists) = << >>
    BY <1>1, <1>2 DEF FlattenSeq
  <2>2. Arranged(R, << >>)
    BY DEF Arranged
  <2>3. << >> \in Seq(T)
    OBVIOUS
  <2>4. QED
    BY <2>1, <2>2, <2>3
<1>3. CASE n # 0
  <2>1. \E f : f = Flat(lists, n, f)
    BY FlatExists
  <2> DEFINE flatten == CHOOSE f : f = Flat(lists, n, f)
  <2>2. flatten = Flat(lists, n, flatten)
    BY <2>1
  <2>3. FlattenSeq(lists) = flatten[n]
    BY <1>1, <1>3 DEF FlattenSeq, Flat
  <2> HIDE DEF flatten
  <2>4. \A i \in 1 .. n : flatten[i] = IF i = 1 THEN lists[i] ELSE flatten[i - 1] \o lists[i]
    BY <2>2 DEF Flat
  <2> DEFINE upto(i) == UNION {sets[k] : k \in 1 .. i}
             Bad == {i \in 1 .. n : ~ (flatten[i] \in Seq(upto(i)) /\ Arranged(R, flatten[i]))}
  <2>5. ASSUME NEW i \in 1 .. n
        PROVE  /\ upto(i) \subseteq T /\ sets[i] \subseteq upto(i)
               /\ i # 1 => upto(i - 1) \subseteq upto(i)
               /\ i # 1 => \A s \in upto(i - 1), t \in sets[i] : <<s, t>> \in R
    <3>1. 1 .. i \subseteq 1 .. n /\ i \in 1 .. i /\ 1 .. i - 1 \subseteq 1 .. i
      OBVIOUS
    <3>2. \A k \in 1 .. i - 1 : k \in 1 .. n /\ k < i
      OBVIOUS
    <3>3. QED
      BY <3>1, <3>2
  <2>6. \A i \in 1 .. n : i \notin Bad => flatten[i] \in Seq(upto(i)) /\ Arranged(R, flatten[i])
    OBVIOUS
  <2>7. Bad \in SUBSET Nat
    OBVIOUS
  <2>8. \A i \in Bad : i \in 1 .. n /\ ~ (flatten[i] \in Seq(upto(i)) /\ Arranged(R, flatten[i]))
    OBVIOUS
  <2> HIDE DEF Bad, upto
  <2>9. SUFFICES ASSUME Bad # {} PROVE FALSE
    <3>1. n \in 1 .. n
      BY <1>3
    <3>2. (Bad = {}) => flatten[n] \in Seq(upto(n)) /\ Arranged(R, flatten[n])
      BY <2>6, <3>1
    <3>3. upto(n) \subseteq T
      BY <2>5, <3>1
    <3>4. QED
      BY <2>3, <3>2, <3>3
  <2>10. PICK m \in Bad : \A k \in Bad : ~ (k < m)
    BY <2>7, <2>9, LeastExists
  <2>11. m \in 1 .. n /\ ~ (flatten[m] \in Seq(upto(m)) /\ Arranged(R, flatten[m]))
    BY <2>8
  <2>12. lists[m] \in Seq(sets[m]) /\ Arranged(R, lists[m]) /\ sets[m] \subseteq upto(m)
    BY <2>5, <2>11
  <2>13. CASE m = 1
    <3>1. flatten[m] = lists[m]
      BY <2>4, <2>11, <2>13
    <3>2. lists[m] \in Seq(upto(m))
      BY <2>12
    <3>3. QED
      BY <2>11, <2>12, <3>1, <3>2
  <2>14. CASE m # 1
    <3>1. m - 1 \in 1 .. n /\ m - 1 < m
      BY <2>11, <2>14
    <3>2. flatten[m - 1] \in Seq(upto(m - 1)) /\ Arranged(R, flatten[m - 1])
      BY <2>6, <2>10, <3>1
    <3>3. flatten[m] = flatten[m - 1] \o lists[m]
      BY <2>4, <2>11, <2>14
    <3>4. /\ upto(m - 1) \subseteq upto(m)
          /\ \A s \in upto(m - 1), t \in sets[m] : <<s, t>> \in R
      BY <2>5, <2>11, <2>14
    <3>5. Arranged(R, flatten[m])
      BY <2>12, <3>2, <3>3, <3>4, ArrangedPut
    <3>6. flatten[m - 1] \in Seq(upto(m)) /\ lists[m] \in Seq(upto(m))
      BY <2>12, <3>2, <3>4
    <3>7. flatten[m] \in Seq(upto(m))
      BY <3>3, <3>6
    <3>8. QED
      BY <2>11, <3>5, <3>7
  <2>15. QED
    BY <2>13, <2>14
<1>4. QED
  BY <1>2, <1>3

\* Statements in an order.  A drop that comes before another is of another
\* object; if the second is of a table, the first is too, and what the second
\* references is dropped later or reached from a cycle; and of a primary key and
\* a foreign key the second is of a later table.
Before(s, t) ==
    s.op = "drop" /\ t.op = "drop" =>
        /\ s.on # t.on
        /\ t.on.kind = "table" => s.on.kind = "table"
        /\ t.on.kind = "table" /\ s.on \in References(source, t.on) => Cyclic(s.on)
        /\ s.on.kind = "pk" /\ t.on.kind = "fk" => s.on.table < t.on.table

Ranked(list) == \A i, j \in DOMAIN list : i < j => Before(list[i], list[j])

\* The pairs of some statements that are in this order.
Pairs(S) == {p \in S \X S : Before(p[1], p[2])}

LEMMA RankedPairs ==
    ASSUME NEW S, NEW list \in Seq(S)
    PROVE  Ranked(list) <=> Arranged(Pairs(S), list)
<1>1. \A i \in DOMAIN list : list[i] \in S
  OBVIOUS
<1>2. QED
  BY <1>1 DEF Ranked, Arranged, Pairs

LEMMA RankedPut ==
    ASSUME NEW A, NEW B, NEW a \in Seq(A), NEW b \in Seq(B), Ranked(a), Ranked(b),
           \A s \in A, t \in B : Before(s, t)
    PROVE  Ranked(a \o b)
<1>1. PICK S : S = A \cup B
  OBVIOUS
<1>2. a \in Seq(S) /\ b \in Seq(S) /\ a \o b \in Seq(S)
  BY <1>1
<1>3. \A s \in A, t \in B : <<s, t>> \in Pairs(S)
  BY <1>1 DEF Pairs
<1>4. Arranged(Pairs(S), a \o b)
  BY <1>2, <1>3, RankedPairs, ArrangedPut
<1>5. QED
  BY <1>2, <1>4, RankedPairs

LEMMA RankedFlatten ==
    ASSUME NEW n \in Nat, NEW lists, lists = [i \in 1 .. n |-> lists[i]],
           NEW sets, NEW T,
           \A i \in 1 .. n : sets[i] \subseteq T,
           \A i \in 1 .. n : lists[i] \in Seq(sets[i]) /\ Ranked(lists[i]),
           \A i, j \in 1 .. n : i < j => \A s \in sets[i], t \in sets[j] : Before(s, t)
    PROVE  FlattenSeq(lists) \in Seq(T) /\ Ranked(FlattenSeq(lists))
<1>1. \A i \in 1 .. n : Arranged(Pairs(T), lists[i])
  <2>1. TAKE i \in 1 .. n
  <2>2. lists[i] \in Seq(T) /\ Ranked(lists[i])
    OBVIOUS
  <2>3. QED
    BY <2>2, RankedPairs
<1>2. \A i, j \in 1 .. n : i < j => \A s \in sets[i], t \in sets[j] : <<s, t>> \in Pairs(T)
  BY DEF Pairs
<1>3. FlattenSeq(lists) \in Seq(T) /\ Arranged(Pairs(T), FlattenSeq(lists))
  BY <1>1, <1>2, ArrangedFlatten
<1>4. QED
  BY <1>3, RankedPairs

\* Statements that drop nothing.
Makes == {s \in Statements : s.op # "drop"}

\* Statements that drop nothing but some kinds of parts of a table.
Section(t, kinds) ==
    {s \in Statements : s.op = "drop" => PartOf(s.on, t) /\ s.on.kind \in kinds}

\* They are in any order.
LEMMA NoDropsRanked ==
    ASSUME NEW list \in Seq(Makes)
    PROVE  Ranked(list)
<1>1. \A i \in DOMAIN list : list[i] \in Makes
  OBVIOUS
<1>2. QED
  BY <1>1 DEF Ranked, Before, Makes

LEMMA MakesType ==
    ASSUME NEW objects \in Seq(Object), NEW op \in {"create", "alter", "text"}
    PROVE  Statement(op, objects) \in Seq(Makes)
<1>1. \A i \in DOMAIN objects : objects[i] \in Object
  OBVIOUS
<1>2. \A i \in DOMAIN objects : [op |-> op, on |-> objects[i]] \in Makes
  BY <1>1 DEF Makes, Statements
<1>3. QED
  BY <1>2, StatementType

\* The drops of a list are in order if its objects are.
LEMMA DropsRanked ==
    ASSUME NEW objects \in Seq(Object),
           \A i, j \in DOMAIN objects : i < j =>
               Before([op |-> "drop", on |-> objects[i]], [op |-> "drop", on |-> objects[j]])
    PROVE  Ranked(Drops(objects))
<1> DEFINE n == Len(objects)
           drop(i) == [op |-> "drop", on |-> objects[i]]
           lists == [i \in DOMAIN objects |->
                        IF objects[i].kind \in granted THEN Statement("drop", <<objects[i]>>)
                        ELSE << >>]
           sets == [i \in 1 .. n |-> {drop(i)}]
           T == {drop(i) : i \in 1 .. n}
<1>1. n \in Nat /\ DOMAIN objects = 1 .. n
  OBVIOUS
<1>2. ASSUME NEW i \in 1 .. n
      PROVE  Statement("drop", <<objects[i]>>) \in Seq({drop(i)})
             /\ Ranked(Statement("drop", <<objects[i]>>))
  <2> DEFINE one == <<objects[i]>>
             inner == [k \in DOMAIN one |->
                          IF Unsupported("drop", one[k]) THEN << >>
                          ELSE <<[op |-> "drop", on |-> one[k]]>>]
             x == drop(i)
             single == [k \in 1 .. 1 |-> {x}]
  <2>1. DOMAIN one = 1 .. 1 /\ one[1] = objects[i] /\ 1 .. 1 = {1}
    OBVIOUS
  <2>2. Statement("drop", one) = FlattenSeq(inner)
    BY DEF Statement, ForEach
  <2>3. inner = [k \in 1 .. 1 |-> inner[k]] /\ inner[1] \in {<< >>, <<x>>}
    BY <2>1
  <2> HIDE DEF one, inner, x
  <2>4. /\ << >> \in Seq({x}) /\ <<x>> \in Seq({x})
        /\ Ranked(<< >>) /\ Ranked(<<x>>)
    BY DEF Ranked
  <2>5. \A k \in 1 .. 1 : inner[k] \in Seq(single[k]) /\ Ranked(inner[k])
    BY <2>1, <2>3, <2>4
  <2>6. \A k \in 1 .. 1 : single[k] \subseteq {x}
    OBVIOUS
  <2>7. \A k, l \in 1 .. 1 : ~ (k < l)
    OBVIOUS
  <2> HIDE DEF single
  <2>8. FlattenSeq(inner) \in Seq({x}) /\ Ranked(FlattenSeq(inner))
    BY <2>3, <2>5, <2>6, <2>7, RankedFlatten
  <2>9. QED
    BY <2>2, <2>8 DEF one, x
<1>3. ASSUME NEW i \in 1 .. n
      PROVE  lists[i] \in Seq(sets[i]) /\ Ranked(lists[i]) /\ sets[i] \subseteq T
  <2>1. lists[i] \in {<< >>, Statement("drop", <<objects[i]>>)} /\ sets[i] = {drop(i)}
    BY <1>1
  <2>2. << >> \in Seq({drop(i)}) /\ Ranked(<< >>)
    BY DEF Ranked
  <2>3. {drop(i)} \subseteq T
    OBVIOUS
  <2> HIDE DEF lists, sets, T, drop
  <2>4. QED
    BY <1>2, <2>1, <2>2, <2>3
<1>4. ASSUME NEW i \in 1 .. n, NEW j \in 1 .. n, i < j, NEW s \in sets[i], NEW t \in sets[j]
      PROVE  Before(s, t)
  BY <1>1, <1>4
<1>5. lists = [i \in 1 .. n |-> lists[i]]
  BY <1>1
<1>6. Drops(objects) = FlattenSeq(lists)
  BY DEF Drops, ForEach
<1> HIDE DEF lists, sets, T, n
<1>7. QED
  BY <1>1, <1>3, <1>4, <1>5, <1>6, RankedFlatten

\* The drops of one kind of parts of a table.
LEMMA PartDropsRanked ==
    ASSUME MigrationTypeOK, NEW t, NEW S, S \in {Removed, DOMAIN source}, NEW kind, kind # "table"
    PROVE  LET list == Drops(ByName(OfTable(OfKind(S, kind), t)))
           IN  list \in Seq(Section(t, {kind})) /\ Ranked(list)
<1> DEFINE R == OfTable(OfKind(S, kind), t)
           objects == ByName(R)
<1>1. R \in SUBSET S /\ \A o \in R : PartOf(o, t) /\ o.kind = kind
  BY DEF OfTable, OfKind
<1>2. S \subseteq Object /\ IsFiniteSet(S)
  BY DifferencesType
<1> HIDE DEF R
<1>3. /\ objects \in Seq(Object) /\ \A i \in DOMAIN objects : objects[i] \in R
      /\ \A i, j \in DOMAIN objects : i < j => objects[i] # objects[j]
  BY <1>1, <1>2, PartByName, ByNameOrder
<1> HIDE DEF objects
<1>4. \A i \in DOMAIN objects : [op |-> "drop", on |-> objects[i]] \in Section(t, {kind})
  BY <1>1, <1>2, <1>3 DEF Section, Statements
<1>5. Drops(objects) \in Seq(Section(t, {kind}))
  BY <1>3, <1>4, DropListType
<1>6. \A i, j \in DOMAIN objects : i < j =>
          Before([op |-> "drop", on |-> objects[i]], [op |-> "drop", on |-> objects[j]])
  BY <1>1, <1>3 DEF Before
<1>7. Ranked(Drops(objects))
  BY <1>3, <1>6, DropsRanked
<1>8. QED
  BY <1>5, <1>7 DEF objects, R

\* Sections of different kinds follow each other, primary keys last.
LEMMA SectionsFollow ==
    ASSUME NEW t, NEW K, NEW L, K \cap L = {}, "table" \notin L, "pk" \notin K,
           NEW a \in Seq(Section(t, K)), NEW b \in Seq(Section(t, L)), Ranked(a), Ranked(b)
    PROVE  a \o b \in Seq(Section(t, K \cup L)) /\ Ranked(a \o b)
<1>1. PICK both : both = Section(t, K \cup L)
  OBVIOUS
<1>2. a \o b \in Seq(Section(t, K \cup L))
  <2>1. Section(t, K) \subseteq both /\ Section(t, L) \subseteq both
    BY <1>1 DEF Section
  <2>2. a \in Seq(both) /\ b \in Seq(both)
    BY <2>1
  <2>3. QED
    BY <1>1, <2>2
<1>3. \A s \in Section(t, K), u \in Section(t, L) : Before(s, u)
  BY DEF Section, Before
<1>4. QED
  BY <1>2, <1>3, RankedPut

\* Statements that drop nothing do not disturb.
LEMMA MakesFollow ==
    ASSUME NEW t, NEW K, NEW a \in Seq(Section(t, K)), NEW b \in Seq(Makes), Ranked(a)
    PROVE  a \o b \in Seq(Section(t, K)) /\ Ranked(a \o b)
<1>1. Makes \subseteq Section(t, K)
  BY DEF Section, Makes
<1>2. b \in Seq(Section(t, K))
  BY <1>1
<1>3. \A s \in Section(t, K), u \in Makes : Before(s, u)
  BY DEF Makes, Before
<1>4. QED
  BY <1>2, <1>3, NoDropsRanked, RankedPut

LEMMA ChangedPrimaryKeyRanked ==
    ASSUME MigrationTypeOK, NEW t \in OfKind(Kept, "table")
    PROVE  ChangedPrimaryKey(t) \in Seq(Section(t, {"pk"})) /\ Ranked(ChangedPrimaryKey(t))
<1> DEFINE drops == Drops(ByName(OfTable(OfKind(DOMAIN source, "pk"), t)))
           new == OfTable(OfKind(DOMAIN target, "pk"), t)
<1>1. drops \in Seq(Section(t, {"pk"})) /\ Ranked(drops)
  BY PartDropsRanked
<1>2. Creates(ByName(new)) \in Seq(Makes)
  <2>1. new \in SUBSET DOMAIN target
    BY DEF OfTable, OfKind
  <2> HIDE DEF new
  <2>2. ByName(new) \in Seq(Object)
    BY <2>1, DifferencesType, PartByName
  <2>3. QED
    BY <2>2, MakesType DEF Creates
<1>3. ChangedPrimaryKey(t) \in {<< >>, drops \o Creates(ByName(new))}
  BY DEF ChangedPrimaryKey
<1> HIDE DEF drops, new
<1>4. << >> \in Seq(Section(t, {"pk"})) /\ Ranked(<< >>)
  BY DEF Ranked
<1>5. CASE ChangedPrimaryKey(t) = << >>
  BY <1>4, <1>5
<1>6. CASE ChangedPrimaryKey(t) = drops \o Creates(ByName(new))
  BY <1>1, <1>2, <1>6, MakesFollow
<1>7. QED
  BY <1>3, <1>5, <1>6

\* The section of a table that is kept.
LEMMA ChangedTableRanked ==
    ASSUME MigrationTypeOK, NEW t \in OfKind(Kept, "table")
    PROVE  /\ ChangedTable(t) \in Seq(Section(t, {"column", "index", "fk", "pk"}))
           /\ Ranked(ChangedTable(t))
<1> DEFINE In(S, kind) == ByName(OfTable(OfKind(S, kind), t))
           a == Creates(In(Added, "column"))
           b == Drops(In(Removed, "column"))
           c == Alters(In(Modified, "column"))
           d == Creates(In(Added, "index"))
           e == Drops(In(Removed, "index"))
           f == Drops(In(Removed, "fk"))
           h == Creates(In(Added, "fk"))
           k == ChangedPrimaryKey(t)
<1>1. ASSUME NEW S, S \in {Added, Modified}, NEW kind
      PROVE  Creates(In(S, kind)) \in Seq(Makes) /\ Alters(In(S, kind)) \in Seq(Makes)
  <2> DEFINE R == OfTable(OfKind(S, kind), t)
  <2>1. R \in SUBSET S
    BY DEF OfTable, OfKind
  <2> HIDE DEF R
  <2>2. ByName(R) \in Seq(Object)
    BY <1>1, <2>1, DifferencesType, PartByName
  <2>3. Creates(ByName(R)) \in Seq(Makes) /\ Alters(ByName(R)) \in Seq(Makes)
    BY <2>2, MakesType DEF Creates, Alters
  <2>4. QED
    BY <2>3 DEF R
<1>2. a \in Seq(Makes) /\ c \in Seq(Makes) /\ d \in Seq(Makes) /\ h \in Seq(Makes)
  BY <1>1
<1>3. /\ b \in Seq(Section(t, {"column"})) /\ Ranked(b)
      /\ e \in Seq(Section(t, {"index"})) /\ Ranked(e)
      /\ f \in Seq(Section(t, {"fk"})) /\ Ranked(f)
  BY PartDropsRanked
<1>4. k \in Seq(Section(t, {"pk"})) /\ Ranked(k)
  BY ChangedPrimaryKeyRanked
<1>5. ChangedTable(t) = a \o b \o c \o d \o e \o f \o h \o k
  BY DEF ChangedTable
<1> HIDE DEF a, b, c, d, e, f, h, k, In
<1>6. a \in Seq(Section(t, {})) /\ Ranked(a)
  <2>1. Makes \subseteq Section(t, {})
    BY DEF Makes, Section
  <2>2. QED
    BY <1>2, <2>1, NoDropsRanked
<1>7. PICK A : A = {"column"}
  OBVIOUS
<1>8. a \o b \in Seq(Section(t, A)) /\ Ranked(a \o b)
  <2>1. {} \cap A = {} /\ {} \cup A = A /\ "table" \notin A
    BY <1>7
  <2>2. QED
    BY <1>3, <1>6, <1>7, <2>1, SectionsFollow
<1>9. a \o b \o c \in Seq(Section(t, A)) /\ Ranked(a \o b \o c)
  BY <1>2, <1>8, MakesFollow
<1>10. a \o b \o c \o d \in Seq(Section(t, A)) /\ Ranked(a \o b \o c \o d)
  BY <1>2, <1>9, MakesFollow
<1>11. PICK B : B = {"column", "index"}
  OBVIOUS
<1>12. a \o b \o c \o d \o e \in Seq(Section(t, B)) /\ Ranked(a \o b \o c \o d \o e)
  <2>1. A \cap {"index"} = {} /\ A \cup {"index"} = B /\ "pk" \notin A
    BY <1>7, <1>11
  <2>2. QED
    BY <1>3, <1>10, <2>1, SectionsFollow
<1>13. PICK C : C = {"column", "index", "fk"}
  OBVIOUS
<1>14. a \o b \o c \o d \o e \o f \in Seq(Section(t, C)) /\ Ranked(a \o b \o c \o d \o e \o f)
  <2>1. B \cap {"fk"} = {} /\ B \cup {"fk"} = C /\ "pk" \notin B
    BY <1>11, <1>13
  <2>2. QED
    BY <1>3, <1>12, <2>1, SectionsFollow
<1>15. /\ a \o b \o c \o d \o e \o f \o h \in Seq(Section(t, C))
       /\ Ranked(a \o b \o c \o d \o e \o f \o h)
  BY <1>2, <1>14, MakesFollow
<1>16. PICK D : D = {"column", "index", "fk", "pk"}
  OBVIOUS
<1>17. /\ a \o b \o c \o d \o e \o f \o h \o k \in Seq(Section(t, D))
       /\ Ranked(a \o b \o c \o d \o e \o f \o h \o k)
  <2>1. C \cap {"pk"} = {} /\ C \cup {"pk"} = D /\ "pk" \notin C
    BY <1>13, <1>16
  <2>2. QED
    BY <1>4, <1>15, <2>1, SectionsFollow
<1>18. QED
  BY <1>5, <1>16, <1>17

\* A new table drops nothing.
LEMMA NewTableMakes ==
    ASSUME MigrationTypeOK, NEW t \in Added, NEW walk \in Seq(Added)
    PROVE  NewTable(t, walk) \in Seq(Makes)
<1>1. Added \subseteq Object
  BY DifferencesType
<1>2. ASSUME NEW o \in Added PROVE Creates(<<o>>) \in Seq(Makes)
  <2>1. <<o>> \in Seq(Object)
    BY <1>1
  <2>2. QED
    BY <2>1, MakesType DEF Creates
<1> DEFINE own(kind) ==
               [i \in DOMAIN walk |->
                   IF PartOf(walk[i], t) /\ walk[i].kind = kind THEN Creates(<<walk[i]>>)
                   ELSE << >>]
<1>3. ASSUME NEW kind PROVE FlattenSeq(own(kind)) \in Seq(Makes)
  <2>1. DOMAIN walk = 1 .. Len(walk) /\ Len(walk) \in Nat
    OBVIOUS
  <2>2. \A i \in 1 .. Len(walk) : own(kind)[i] \in Seq(Makes)
    BY <1>2, <2>1
  <2>3. own(kind) = [i \in 1 .. Len(walk) |-> own(kind)[i]]
    BY <2>1
  <2> HIDE DEF own
  <2>4. QED
    BY <2>1, <2>2, <2>3, FlattenSeqType
<1>4. NewTable(t, walk) =
          Creates(<<t>>) \o FlattenSeq(own("index")) \o FlattenSeq(own("fk"))
  BY DEF NewTable, ForEach
<1> HIDE DEF own
<1>5. QED
  BY <1>2, <1>3, <1>4

\* Nor do the sections of what belongs to no table: no call may drop any of it.
LEMMA FreeMakes ==
    ASSUME MigrationTypeOK
    PROVE  /\ Views \in Seq(Makes) /\ Routines \in Seq(Makes)
           /\ Triggers \in Seq(Makes) /\ Sequences \in Seq(Makes)
<1>1. ASSUME NEW S, S \in {Added, Removed, Modified}, NEW kind
      PROVE  /\ ByName(OfKind(S, kind)) \in Seq(Object)
             /\ \A i \in DOMAIN ByName(OfKind(S, kind)) :
                    ByName(OfKind(S, kind))[i] \in OfKind(S, kind)
  <2>1. OfKind(S, kind) \in SUBSET S
    BY DEF OfKind
  <2>2. QED
    BY <1>1, <2>1, DifferencesType, PartByName
<1>2. ASSUME NEW kind \in {"view", "routine", "trigger", "sequence"}
      PROVE  Drops(ByName(OfKind(Removed, kind))) \in Seq(Makes)
  <2>1. kind \notin granted
    BY DEF MigrationTypeOK, Grants
  <2>2. \A i \in DOMAIN ByName(OfKind(Removed, kind)) :
            ByName(OfKind(Removed, kind))[i].kind \notin granted
    BY <1>1, <2>1 DEF OfKind
  <2>3. QED
    BY <1>1, <2>2, DropListType
<1>3. ASSUME NEW kind
      PROVE  /\ Creates(ByName(OfKind(Added, kind))) \in Seq(Makes)
             /\ Texts(ByName(OfKind(Added, kind))) \in Seq(Makes)
  BY <1>1, MakesType DEF Creates, Texts
<1>4. Routines \in Seq(Makes) /\ Triggers \in Seq(Makes) /\ Sequences \in Seq(Makes)
  BY <1>2, <1>3 DEF Routines, Triggers, Sequences
<1>5. Views \in Seq(Makes)
  <2> DEFINE views == ByName(OfKind(Modified, "view"))
             lists == [i \in DOMAIN views |-> ChangedView(views[i])]
             gone == Drops(ByName(OfKind(Removed, "view")))
             come == Creates(ByName(OfKind(Added, "view")))
  <2>1. views \in Seq(Object)
    BY <1>1
  <2>2. Views = gone \o come \o FlattenSeq(lists)
    BY DEF Views, ForEach
  <2>3. gone \in Seq(Makes) /\ come \in Seq(Makes)
    BY <1>2, <1>3
  <2>4. \A i \in DOMAIN views : views[i].kind = "view"
    BY <1>1 DEF OfKind
  <2> HIDE DEF views, gone, come
  <2>5. DOMAIN views = 1 .. Len(views) /\ Len(views) \in Nat
    BY <2>1
  <2>6. ASSUME NEW i \in 1 .. Len(views) PROVE lists[i] \in Seq(Makes)
    <3> DEFINE one == <<views[i]>>
    <3>1. one \in Seq(Object) /\ \A j \in DOMAIN one : one[j].kind = "view"
      BY <2>1, <2>4, <2>5
    <3>2. "view" \notin granted
      BY DEF MigrationTypeOK, Grants
    <3>3. ChangedView(views[i]) \in {Drops(one) \o << >>, Alters(one), << >>}
      BY <3>2 DEF ChangedView
    <3>4. lists[i] = ChangedView(views[i])
      BY <2>5
    <3> HIDE DEF one, lists
    <3>5. Drops(one) \in Seq(Makes)
      BY <3>1, <3>2, DropListType
    <3>6. Alters(one) \in Seq(Makes)
      BY <3>1, MakesType DEF Alters
    <3>7. << >> \in Seq(Makes) /\ Drops(one) \o << >> \in Seq(Makes)
      BY <3>5
    <3>8. QED
      BY <3>3, <3>4, <3>6, <3>7
  <2>7. lists = [i \in 1 .. Len(views) |-> lists[i]]
    BY <2>5
  <2> HIDE DEF lists
  <2>8. FlattenSeq(lists) \in Seq(Makes)
    BY <2>5, <2>6, <2>7, FlattenSeqType
  <2>9. QED
    BY <2>2, <2>3, <2>8
<1>6. QED
  BY <1>4, <1>5

\* Statements that drop tables, and those that drop no other part but of a table
\* that is kept.
TableDrops == {s \in Statements : s.op = "drop" /\ s.on.kind = "table"}

PartDrops == {s \in Statements : s.op = "drop" => s.on.kind # "table" /\ Owner(s.on) \in Kept}

Planned == {s \in Statements : s.op = "drop" /\ s.on.kind # "table" => Owner(s.on) \in Kept}

\* The sections of the tables that are kept, by their names.
LEMMA ChangesRanked ==
    ASSUME MigrationTypeOK
    PROVE  LET list == ForEach(ChangedTable, ByName(OfKind(Kept, "table")))
           IN  list \in Seq(PartDrops) /\ Ranked(list)
<1> DEFINE kept == ByName(OfKind(Kept, "table"))
           n == Len(kept)
           lists == [i \in DOMAIN kept |-> ChangedTable(kept[i])]
           kinds == {"column", "index", "fk", "pk"}
           sets == [i \in 1 .. n |-> Section(kept[i], kinds)]
<1>1. OfKind(Kept, "table") \in SUBSET Kept
  BY DEF OfKind
<1>2. /\ kept \in Seq(OfKind(Kept, "table"))
      /\ \A i, j \in DOMAIN kept : i < j => kept[i] # kept[j] /\ kept[i].name <= kept[j].name
  BY <1>1, DifferencesType, PartByName, ByNameOrder
<1>3. ForEach(ChangedTable, kept) = FlattenSeq(lists)
  BY DEF ForEach
<1>4. n \in Nat /\ DOMAIN kept = 1 .. n
  BY <1>2
<1>5. \A i \in 1 .. n : kept[i] \in OfKind(Kept, "table")
  BY <1>2, <1>4
<1>6. \A i \in 1 .. n : /\ kept[i] \in Kept /\ kept[i] \in Object /\ kept[i].kind = "table"
                        /\ kept[i] = [kind |-> "table", table |-> kept[i].table, name |-> kept[i].table]
                        /\ kept[i].table \in Nat
  <2>1. TAKE i \in 1 .. n
  <2>2. kept[i] \in Kept /\ kept[i] \in Object /\ kept[i].kind = "table"
    BY <1>5, DifferencesType DEF OfKind
  <2>3. QED
    BY <2>2 DEF Object
<1>7. \A i, j \in 1 .. n : i < j => kept[i].table < kept[j].table
  <2>1. \A i \in 1 .. n : kept[i].name = kept[i].table
    BY <1>6 DEF Object
  <2> HIDE DEF kept, n
  <2>2. ASSUME NEW i \in 1 .. n, NEW j \in 1 .. n, i < j
        PROVE  kept[i].table < kept[j].table
    <3>1. kept[i].table <= kept[j].table
      BY <1>2, <1>4, <2>1, <2>2
    <3>2. ASSUME kept[i].table = kept[j].table PROVE FALSE
      <4>1. kept[i] # kept[j]
        BY <1>2, <1>4, <2>2
      <4>2. QED
        BY <1>6, <3>2, <4>1, Zenon
    <3>3. kept[i].table \in Nat /\ kept[j].table \in Nat
      BY <1>6
    <3>4. QED
      BY <3>1, <3>2, <3>3
  <2>3. QED
    BY <2>2
<1>8. \A i \in 1 .. n : lists[i] = ChangedTable(kept[i]) /\ sets[i] = Section(kept[i], kinds)
  BY <1>4
<1>9. lists = [i \in 1 .. n |-> lists[i]]
  BY <1>4
<1> HIDE DEF kept, n, lists, sets
<1>10. \A i \in 1 .. n : lists[i] \in Seq(sets[i]) /\ Ranked(lists[i])
  BY <1>5, <1>8, ChangedTableRanked
<1>11. \A i \in 1 .. n : sets[i] \subseteq PartDrops
  BY <1>6, <1>8 DEF Section, PartDrops, PartOf, Owner
<1>12. ASSUME NEW i \in 1 .. n, NEW j \in 1 .. n, i < j, NEW s \in sets[i], NEW t \in sets[j]
       PROVE  Before(s, t)
  <2>1. SUFFICES ASSUME s.op = "drop", t.op = "drop" PROVE Before(s, t)
    BY DEF Before
  <2>2. PartOf(s.on, kept[i]) /\ PartOf(t.on, kept[j]) /\ t.on.kind \in kinds
    BY <1>8, <2>1 DEF Section
  <2>3. s.on.table = kept[i].table /\ t.on.table = kept[j].table
    BY <2>2 DEF PartOf
  <2>4. s.on.table < t.on.table /\ s.on.table \in Nat
    BY <1>6, <1>7, <1>12, <2>3
  <2>5. s.on.table # t.on.table
    BY <2>4
  <2>6. QED
    BY <2>2, <2>4, <2>5 DEF Before
<1>13. FlattenSeq(lists) \in Seq(PartDrops) /\ Ranked(FlattenSeq(lists))
  BY <1>4, <1>9, <1>10, <1>11, <1>12, RankedFlatten
<1>14. QED
  BY <1>3, <1>13 DEF kept

\* The whole script.
LEMMA ScriptRanked ==
    ASSUME MigrationTypeOK, Sorted(dropping), NEW walk \in SetToSeqs(Walked)
    PROVE  Script(walk) \in Seq(Planned) /\ Ranked(Script(walk))
<1> DEFINE drops == Drops(dropping)
           news == [i \in DOMAIN creating |-> NewTable(creating[i], walk)]
           changes == ForEach(ChangedTable, ByName(OfKind(Kept, "table")))
<1>1. walk \in Seq(Added)
  BY WalkType
<1>2. Script(walk) = drops \o FlattenSeq(news) \o changes
                     \o Views \o Routines \o Triggers \o Sequences
  BY DEF Script, ForEach
<1>3. drops \in Seq(TableDrops) /\ Ranked(drops)
  <2>1. dropping \in Seq(Object) /\ \A i \in DOMAIN dropping : dropping[i] \in OfKind(Removed, "table")
    BY DifferencesType DEF MigrationTypeOK, OfKind
  <2>2. \A i \in DOMAIN dropping : dropping[i].kind = "table" /\ dropping[i] \in Object
    BY <2>1 DEF OfKind
  <2>3. \A i \in DOMAIN dropping : [op |-> "drop", on |-> dropping[i]] \in TableDrops
    BY <2>2 DEF TableDrops, Statements
  <2>4. drops \in Seq(TableDrops)
    BY <2>1, <2>3, DropListType
  <2>5. \A i, j \in DOMAIN dropping : i < j =>
            Before([op |-> "drop", on |-> dropping[i]], [op |-> "drop", on |-> dropping[j]])
    BY <2>2 DEF Before, Sorted
  <2>6. QED
    BY <2>1, <2>4, <2>5, DropsRanked
<1>4. FlattenSeq(news) \in Seq(Makes)
  <2>1. creating \in Seq(Added)
    BY DEF MigrationTypeOK, OfKind
  <2>2. DOMAIN creating = 1 .. Len(creating) /\ Len(creating) \in Nat
    BY <2>1
  <2>3. \A i \in 1 .. Len(creating) : news[i] \in Seq(Makes)
    BY <1>1, <2>1, <2>2, NewTableMakes
  <2>4. news = [i \in 1 .. Len(creating) |-> news[i]]
    BY <2>2
  <2> HIDE DEF news
  <2>5. QED
    BY <2>2, <2>3, <2>4, FlattenSeqType
<1>5. changes \in Seq(PartDrops) /\ Ranked(changes)
  BY ChangesRanked
<1>6. /\ Views \in Seq(Makes) /\ Routines \in Seq(Makes)
      /\ Triggers \in Seq(Makes) /\ Sequences \in Seq(Makes)
  BY FreeMakes
<1> DEFINE all == TableDrops \cup PartDrops
<1>7. /\ TableDrops \subseteq all /\ PartDrops \subseteq all /\ Makes \subseteq PartDrops
      /\ Makes \subseteq all /\ all \subseteq Planned
  BY DEF TableDrops, PartDrops, Makes, Planned
<1>8. \A s \in TableDrops, t \in PartDrops : Before(s, t)
  BY DEF TableDrops, PartDrops, Before
<1>9. \A s \in all, t \in Makes : Before(s, t)
  BY DEF Makes, Before
<1> HIDE DEF drops, news, changes, all
<1>10. FlattenSeq(news) \o changes \in Seq(PartDrops) /\ Ranked(FlattenSeq(news) \o changes)
  <2>1. FlattenSeq(news) \in Seq(PartDrops)
    BY <1>4, <1>7
  <2>2. \A s \in Makes, t \in PartDrops : Before(s, t)
    BY DEF Makes, Before
  <2>3. QED
    BY <1>4, <1>5, <2>1, <2>2, NoDropsRanked, RankedPut
<1> DEFINE most == drops \o FlattenSeq(news) \o changes
<1>11. most \in Seq(all) /\ Ranked(most)
  <2>1. drops \o (FlattenSeq(news) \o changes) = most
    BY <1>3, <1>4, <1>5
  <2>2. Ranked(drops \o (FlattenSeq(news) \o changes))
    BY <1>3, <1>8, <1>10, RankedPut
  <2>3. drops \in Seq(all) /\ FlattenSeq(news) \o changes \in Seq(all)
    BY <1>3, <1>7, <1>10
  <2>4. drops \o (FlattenSeq(news) \o changes) \in Seq(all)
    BY <2>3
  <2>5. QED
    BY <2>1, <2>2, <2>4
<1> HIDE DEF most
<1>12. ASSUME NEW a \in Seq(all), Ranked(a), NEW b \in Seq(Makes)
       PROVE  a \o b \in Seq(all) /\ Ranked(a \o b)
  <2>1. b \in Seq(all)
    BY <1>7
  <2>2. QED
    BY <1>9, <1>12, <2>1, NoDropsRanked, RankedPut
<1>13. most \o Views \o Routines \in Seq(all) /\ Ranked(most \o Views \o Routines)
  BY <1>6, <1>11, <1>12
<1>14. /\ most \o Views \o Routines \o Triggers \o Sequences \in Seq(all)
       /\ Ranked(most \o Views \o Routines \o Triggers \o Sequences)
  BY <1>6, <1>12, <1>13
<1>15. Script(walk) = most \o Views \o Routines \o Triggers \o Sequences
  BY <1>2 DEF most
<1>16. QED
  BY <1>7, <1>14, <1>15

\* Whatever stands uses no more than in one of the schemas.
UsesKnown ==
    \A u \in DOMAIN db :
        \/ u \in DOMAIN source /\ db[u].uses \subseteq source[u].uses
        \/ u \in DOMAIN target /\ db[u].uses \subseteq target[u].uses

\* It stands, or went with a column of its table.
Stands(o) ==
    \/ o \in DOMAIN db
    \/ o.kind \in {"index", "fk", "pk"}
       /\ \E c \in OfKind(source[o].uses, "column") : c.table = o.table /\ MayGo(c)

\* So does what the script still drops.
Present == \A i \in DOMAIN script : script[i].op = "drop" => Stands(script[i].on)

DropInv ==
    /\ Sorted(dropping)
    /\ UsesKnown
    /\ pc = "run" => script \in Seq(Planned) /\ Ranked(script) /\ Present

\* The order of drops stands once the call is made.
LEMMA SameOrder ==
    ASSUME UNCHANGED inputs
    PROVE  /\ \A t : Cyclic(t)' <=> Cyclic(t)
           /\ \A s, t : Before(s, t)' <=> Before(s, t)
           /\ \A list : Sorted(list) => Sorted(list)'
           /\ \A list : Ranked(list) => Ranked(list)'
           /\ Planned' = Planned
<1>1. /\ Removed' = Removed /\ Kept' = Kept /\ source' = source
  BY SameDifferences
<1>2. \A t : Cyclic(t)' <=> Cyclic(t)
  BY <1>1 DEF Cyclic, BehindCycle, Leading, References, Old
<1>3. \A s, t : Before(s, t)' <=> Before(s, t)
  BY <1>1, <1>2 DEF Before, References
<1>4. \A list : Sorted(list) => Sorted(list)'
  BY <1>1, <1>2 DEF Sorted, References, Old
<1>5. \A list : Ranked(list) => Ranked(list)'
  BY <1>3 DEF Ranked
<1>6. Planned' = Planned
  BY <1>1 DEF Planned
<1>7. QED
  BY <1>2, <1>3, <1>4, <1>5, <1>6

LEMMA SortedStays ==
    ASSUME UNCHANGED inputs, Sorted(dropping')
    PROVE  Sorted(dropping)'
<1>1. PICK list : list = dropping'
  OBVIOUS
<1>2. Sorted(list)'
  BY <1>1, SameOrder
<1>3. QED
  BY <1>1, <1>2

\* What is left of a script is in order.
LEMMA TailRanked ==
    ASSUME NEW list \in Seq(Planned), list # << >>, Ranked(list)
    PROVE  Tail(list) \in Seq(Planned) /\ Ranked(Tail(list))
<1>1. \A i, j \in DOMAIN Tail(list) : i < j =>
          /\ i + 1 \in DOMAIN list /\ j + 1 \in DOMAIN list /\ i + 1 < j + 1
          /\ Tail(list)[i] = list[i + 1] /\ Tail(list)[j] = list[j + 1]
  BY TailHas
<1>2. Ranked(Tail(list))
  BY <1>1 DEF Ranked
<1>3. QED
  BY <1>2

\* What goes with an object though it is to be dropped later: a key or an index,
\* with a column that may be dropped.
LEMMA GoesBeforeItsDrop ==
    ASSUME MigrationInv, UsesKnown,
           NEW o \in Object, o.kind \in granted, o \in Removed \/ Renewed(o),
           NEW y \in Object, y.kind \in granted, y \in Removed \/ Renewed(y),
           y.kind # "table" => Owner(y) \in Kept,
           y # o, y \in GoesWith(o)
    PROVE  /\ y.kind \in {"index", "fk", "pk"}
           /\ \E c \in OfKind(source[y].uses, "column") : c.table = y.table /\ MayGo(c)
<1>1. WellFormed(source) /\ WellFormed(target) /\ granted \subseteq Grants
  BY DEF MigrationInv, MigrationTypeOK, Sound
<1>2. y.kind # "sequence"
  BY <1>1 DEF Grants
<1>3. y \in DOMAIN source
  BY DEF Removed, Renewed, Modified, Kept
<1>4. CASE o.kind = "table"
  <2>1. o \notin DOMAIN target
    BY <1>4 DEF Renewed, Removed
  <2>2. y \in OfTable(DOMAIN db, o)
    BY <1>2, <1>4 DEF GoesWith, Owned, OfKind
  <2>3. y.table = o.table /\ o.name = o.table
    BY <1>4, <2>2 DEF OfTable, PartOf, Object
  <2>4. Owner(y) = o
    BY <1>4, <2>3 DEF Owner, Object
  <2>5. y.kind # "table"
    BY <1>4, <2>3 DEF Object
  <2>6. QED
    BY <2>1, <2>4, <2>5 DEF Kept
<1>5. CASE o.kind = "column"
  <2>1. o \in Removed /\ o \notin DOMAIN target /\ MayGo(o)
    BY <1>5 DEF Renewed, Removed, MayGo
  <2>2. y \in Users(o) /\ y.kind \in {"index", "fk", "pk"}
        /\ (y.kind \in {"index", "pk"} \/ PartOf(y, Owner(o)))
    <3>1. CASE driver = "postgres"
      BY <1>2, <1>5, <3>1 DEF GoesWith, OfTable, Owned, OfKind
    <3>2. CASE driver = "mysql"
      BY <1>5, <3>2 DEF GoesWith
    <3>3. CASE driver = "oracle"
      BY <1>5, <3>3 DEF GoesWith, OfTable
    <3>4. CASE driver \notin {"postgres", "mysql", "oracle"}
      BY <1>5, <3>4 DEF GoesWith
    <3>5. QED
      BY <3>1, <3>2, <3>3, <3>4
  <2>3. y \in DOMAIN db /\ o \in db[y].uses
    BY <2>2 DEF Users
  <2>4. o \in source[y].uses
    <3>1. ~ (y \in DOMAIN target /\ o \in target[y].uses)
      BY <1>1, <2>1 DEF WellFormed
    <3>2. QED
      BY <2>3, <3>1 DEF UsesKnown
  <2>5. o.table = y.table
    <3>1. CASE y.kind \in {"index", "pk"}
      BY <1>1, <1>3, <2>4, <3>1 DEF WellFormed
    <3>2. CASE PartOf(y, Owner(o))
      BY <3>2 DEF PartOf, Owner
    <3>3. QED
      BY <2>2, <3>1, <3>2
  <2>6. QED
    BY <1>5, <2>1, <2>2, <2>4, <2>5 DEF OfKind
<1>6. CASE o.kind \notin {"table", "column"}
  BY <1>6 DEF GoesWith
<1>7. QED
  BY <1>4, <1>5, <1>6

\* A statement leaves the order of drops, and what is still dropped stands.
LEMMA ExecuteKeepsDrops ==
    ASSUME MigrationInv, DropInv, Execute
    PROVE  DropInv'
<1> DEFINE s == Head(script)
<1>1. /\ UNCHANGED <<inputs, pc, dropping, creating, stack>>
      /\ pc = "run" /\ script # << >> /\ script' = Tail(script)
      /\ s.op = "drop" => db' = Without({s.on} \cup GoesWith(s.on))
      /\ s.op = "text" => db' = db
  BY DEF Execute
<1>2. /\ Removed' = Removed /\ granted' = granted /\ source' = source /\ target' = target
  BY <1>1, SameDifferences
<1>3. /\ script \in Seq(RightStatements) /\ script \in Seq(Planned)
      /\ \A u \in DOMAIN db : db[u] \in Definition
      /\ Ranked(script) /\ Present /\ UsesKnown /\ Sorted(dropping)
  BY <1>1 DEF MigrationInv, MigrationTypeOK, DropInv
<1>4. s \in RightStatements /\ s = script[1] /\ 1 \in DOMAIN script
  BY <1>1, <1>3, TailHas
<1>5. PICK o \in Object : o = s.on
  BY <1>4 DEF RightStatements, Statements
<1>6. /\ s.op \in {"drop", "create", "alter", "text"}
      /\ s.op = "drop" => o.kind \in granted /\ (o \in Removed \/ Renewed(o))
      /\ s.op \in {"create", "alter"} => o \in DOMAIN target
  BY <1>4, <1>5 DEF RightStatements, Statements, Right, Renewed, Added, Modified, Kept
<1>7. PICK away : away = {o} \cup GoesWith(o)
  OBVIOUS
<1>8. /\ s.op = "drop" => DOMAIN db' = DOMAIN db \ away
      /\ s.op # "drop" => DOMAIN db \subseteq DOMAIN db'
      /\ \A u \in DOMAIN db' :
             \/ u \in DOMAIN db /\ db'[u].uses \subseteq db[u].uses
             \/ u \in DOMAIN target /\ db'[u] = target[u]
  <2>1. CASE s.op = "drop"
    <3>1. db' = [u \in DOMAIN db \ away |->
                    IF u.kind \in {"index", "pk"}
                    THEN [db[u] EXCEPT !.uses = db[u].uses \ away] ELSE db[u]]
      BY <1>1, <1>5, <1>7, <2>1 DEF Without
    <3>2. \A u \in DOMAIN db : [db[u] EXCEPT !.uses = db[u].uses \ away].uses \subseteq db[u].uses
      BY <1>3 DEF Definition
    <3>3. QED
      BY <2>1, <3>1, <3>2
  <2>2. CASE s.op = "text"
    BY <1>1, <2>2
  <2>3. CASE s.op \in {"create", "alter"}
    <3>1. Brought(o) \subseteq DOMAIN target
      BY <1>6, <2>3 DEF Brought
    <3>2. /\ DOMAIN db' = DOMAIN db \cup Brought(o)
          /\ \A u \in DOMAIN db \ Brought(o) : db'[u] = db[u]
          /\ \A u \in Brought(o) :
                 \/ db'[u] = target[u]
                 \/ u = o /\ o \in DOMAIN db /\ db'[o].uses \subseteq db[o].uses
      BY <1>5, <2>3, ExecuteMakes DEF MigrationInv
    <3>3. QED
      BY <2>3, <3>1, <3>2
  <2>4. QED
    BY <1>6, <2>1, <2>2, <2>3
<1>9. UsesKnown'
  <2>1. SUFFICES ASSUME NEW u \in DOMAIN db'
                 PROVE  \/ u \in DOMAIN source /\ db'[u].uses \subseteq source[u].uses
                        \/ u \in DOMAIN target /\ db'[u].uses \subseteq target[u].uses
    BY <1>2 DEF UsesKnown
  <2>2. CASE u \in DOMAIN db /\ db'[u].uses \subseteq db[u].uses
    BY <1>3, <2>2 DEF UsesKnown
  <2>3. CASE u \in DOMAIN target /\ db'[u] = target[u]
    BY <2>3
  <2>4. QED
    BY <1>8, <2>2, <2>3
<1> HIDE DEF s
<1>10. PICK list : list = script'
  OBVIOUS
<1>11. ASSUME NEW i \in DOMAIN list, list[i].op = "drop"
       PROVE  Stands(list[i].on)'
  <2>1. /\ i + 1 \in DOMAIN script /\ list[i] = script[i + 1] /\ 1 < i + 1
    BY <1>1, <1>3, <1>10, TailHas
  <2>2. PICK r \in RightStatements : r = script[i + 1] /\ r \in Planned
    BY <1>3, <2>1
  <2>3. PICK y \in Object : y = r.on
    BY <2>2 DEF RightStatements, Statements
  <2>4. /\ r.op = "drop" /\ y.kind \in granted /\ (y \in Removed \/ Renewed(y))
        /\ y.kind # "table" => Owner(y) \in Kept
    BY <1>11, <2>1, <2>2, <2>3 DEF RightStatements, Right, Planned
  <2>5. Stands(y)
    BY <1>3, <2>1, <2>2, <2>3, <2>4 DEF Present
  <2>6. s.op = "drop" => y # o
    BY <1>3, <1>4, <1>5, <2>1, <2>2, <2>3, <2>4 DEF Ranked, Before
  <2>7. \/ y \in DOMAIN db'
        \/ y.kind \in {"index", "fk", "pk"}
           /\ \E c \in OfKind(source[y].uses, "column") : c.table = y.table /\ MayGo(c)
    <3>1. CASE y \in DOMAIN db /\ s.op = "drop" /\ y \in away
      BY <1>3, <1>6, <1>7, <2>4, <2>6, <3>1, GoesBeforeItsDrop
    <3>2. CASE y \in DOMAIN db /\ ~ (s.op = "drop" /\ y \in away)
      BY <1>8, <3>2
    <3>3. CASE y \notin DOMAIN db
      BY <2>5, <3>3 DEF Stands
    <3>4. QED
      BY <3>1, <3>2, <3>3
  <2>8. Stands(y)'
    BY <1>2, <2>7 DEF Stands, MayGo
  <2>9. QED
    BY <2>1, <2>2, <2>3, <2>8
<1>12. Present'
  BY <1>10, <1>11 DEF Present
<1>13. script' \in Seq(Planned') /\ Ranked(script)'
  <2>1. list \in Seq(Planned) /\ Ranked(list)
    BY <1>1, <1>3, <1>10, TailRanked
  <2>2. Ranked(list)' /\ Planned' = Planned
    BY <1>1, <2>1, SameOrder
  <2>3. QED
    BY <1>10, <2>1, <2>2
<1>14. Sorted(dropping)'
  BY <1>1, <1>3, SortedStays
<1>15. QED
  BY <1>9, <1>12, <1>13, <1>14 DEF DropInv

\* The script is written.
LEMMA WriteScriptOrders ==
    ASSUME MigrationInv, ReachInv, DropInv, WriteScript
    PROVE  DropInv'
<1>1. /\ pc = "added" /\ pc' = "run"
      /\ UNCHANGED <<inputs, dropping, creating, stack, db>>
  BY DEF WriteScript
<1>2. PICK walk \in SetToSeqs(Walked) : script' = Script(walk)
  BY DEF WriteScript
<1>3. Removed' = Removed /\ source' = source /\ target' = target
  BY <1>1, SameDifferences
<1>4. MigrationTypeOK /\ Sorted(dropping) /\ UsesKnown /\ db = source
  BY <1>1 DEF MigrationInv, DropInv, ReachInv
<1>5. PICK list : list = Script(walk)
  OBVIOUS
<1>6. list \in Seq(Planned) /\ Ranked(list) /\ list \in Seq(RightStatements)
  BY <1>4, <1>5, ScriptRanked, ScriptType DEF Scripts
<1>7. script' \in Seq(Planned') /\ Ranked(script)'
  <2>1. Ranked(list)' /\ Planned' = Planned
    BY <1>1, <1>6, SameOrder
  <2>2. QED
    BY <1>2, <1>5, <1>6, <2>1
<1>8. Present'
  <2>1. ASSUME NEW i \in DOMAIN list, list[i].op = "drop"
        PROVE  list[i].on \in DOMAIN source
    <3>1. list[i] \in RightStatements
      BY <1>6
    <3>2. QED
      BY <2>1, <3>1 DEF RightStatements, Right, Renewed, Removed, Modified, Kept
  <2>2. \A i \in DOMAIN list : list[i].op = "drop" => list[i].on \in DOMAIN db'
    BY <1>1, <1>4, <2>1
  <2>3. QED
    BY <1>2, <1>5, <2>2 DEF Present, Stands
<1>9. UsesKnown'
  BY <1>1, <1>3, <1>4 DEF UsesKnown
<1>10. Sorted(dropping)'
  BY <1>1, <1>4, SortedStays
<1>11. QED
  BY <1>7, <1>8, <1>9, <1>10 DEF DropInv

\* Every step keeps the invariant.
LEMMA DropInductive ==
    ASSUME MigrationInv, ReachInv, DropInv, [SchemaNext]_schemaVars
    PROVE  DropInv'
<1>1. ASSUME NEW from, NEW to, NEW permissions, pc = "call",
             Generate(from, to, permissions)
      PROVE  DropInv'
  <2>1. dropping' = << >> /\ db' = from /\ source' = from /\ pc' = "removed"
    BY <1>1 DEF MigrationInv, Blank, Generate
  <2>2. QED
    BY <2>1 DEF DropInv, Sorted, UsesKnown
<1>2. CASE SchemaMigrate
  <2>1. PICK family \in Families[driver] :
            \E prod, dev \in family, config \in Configs : Generate(prod, dev, Passed(config))
    BY <1>2 DEF SchemaMigrate
  <2>2. PICK prod \in family, dev \in family, config \in Configs :
            Generate(prod, dev, Passed(config))
    BY <2>1
  <2>3. QED
    BY <1>1, <1>2, <2>2 DEF SchemaMigrate
<1>3. CASE Rollback
  <2>1. PICK family \in Families[driver] : \E prod, dev \in family : Generate(dev, prod, {})
    BY <1>3 DEF Rollback
  <2>2. PICK prod \in family, dev \in family : Generate(dev, prod, {})
    BY <2>1
  <2>3. QED
    BY <1>1, <1>3, <2>2 DEF Rollback
<1>4. ASSUME UNCHANGED <<inputs, db>>, Sorted(dropping'), pc' # "run"
      PROVE  DropInv'
  <2>1. Sorted(dropping)'
    BY <1>4, SortedStays
  <2>2. UsesKnown'
    BY <1>4, SameDifferences DEF DropInv, UsesKnown
  <2>3. QED
    BY <1>4, <2>1, <2>2 DEF DropInv
<1>5. Sorted(dropping)
  BY DEF DropInv
<1>6. CASE OrderRemoved
  <2>1. Sorted(dropping')
    BY <1>5, <1>6, OrderRemovedSorts DEF MigrationInv
  <2>2. QED
    BY <1>4, <1>6, <2>1 DEF OrderRemoved
<1>7. CASE RemovedOrdered \/ VisitNext \/ VisitDependency \/ Visited \/ Refuse \/ Finish
  <2>1. UNCHANGED <<inputs, db>> /\ dropping' = dropping /\ pc' # "run"
    BY <1>7 DEF RemovedOrdered, VisitNext, VisitDependency, Visited, Refuse, Finish
  <2>2. QED
    BY <1>4, <1>5, <2>1
<1>8. CASE WriteScript
  BY <1>8, WriteScriptOrders
<1>9. CASE Execute
  BY <1>9, ExecuteKeepsDrops
<1>10. CASE UNCHANGED schemaVars
  <2>1. UNCHANGED inputs /\ pc' = pc /\ db' = db /\ script' = script /\ dropping' = dropping
    BY <1>10 DEF schemaVars
  <2>2. CASE pc # "run"
    BY <1>4, <1>5, <2>1, <2>2
  <2>3. CASE pc = "run"
    <3>1. PICK list : list = script
      OBVIOUS
    <3>2. list \in Seq(Planned) /\ Ranked(list) /\ Present /\ UsesKnown
      BY <2>3, <3>1 DEF DropInv
    <3>3. Ranked(list)' /\ Planned' = Planned
      BY <2>1, <3>2, SameOrder
    <3>4. Removed' = Removed /\ granted' = granted /\ source' = source /\ target' = target
      BY <2>1, SameDifferences
    <3>5. script' \in Seq(Planned') /\ Ranked(script)'
      BY <2>1, <3>1, <3>2, <3>3
    <3>6. UsesKnown'
      BY <2>1, <3>2, <3>4 DEF UsesKnown
    <3>7. \A o : Stands(o)' <=> Stands(o)
      BY <2>1, <3>4 DEF Stands, MayGo
    <3>8. Present'
      <4>1. \A i \in DOMAIN list : list[i].op = "drop" => Stands(list[i].on)'
        BY <3>1, <3>2, <3>7 DEF Present
      <4>2. QED
        BY <2>1, <3>1, <4>1 DEF Present
    <3>9. Sorted(dropping)'
      BY <1>5, <2>1, SortedStays
    <3>10. QED
      BY <3>5, <3>6, <3>8, <3>9 DEF DropInv
  <2>4. QED
    BY <2>2, <2>3
<1>11. QED
  BY <1>2, <1>3, <1>6, <1>7, <1>8, <1>9, <1>10 DEF SchemaNext, Order

\* Whatever is still dropped comes in order: tables first, each before those that
\* it references unless it is reached from a cycle; no object twice; a primary
\* key before the foreign keys of later tables only (GetOrderedRemovedTables, the
\* sections of GenerateMigrationWithSchemas); and it stands, unless it goes with
\* a column.
THEOREM DropInvariant == SchemaSpec => []DropInv
<1>1. SchemaInit => DropInv
  BY DEF SchemaInit, DropInv, Sorted, UsesKnown, NoSchema
<1>2. MigrationInv /\ ReachInv /\ DropInv /\ [SchemaNext]_schemaVars => DropInv'
  BY DropInductive
<1>3. QED
  BY <1>1, <1>2, MigrationInvariant, ReachInvariant, PTL DEF SchemaSpec

\* A drop comes after the drops of what blocks it, but for foreign keys of tables
\* that stay or on a cycle, for primary keys and foreign keys of other sections,
\* and for what went with a column (migrate.go 248: "must be dropped before
\* columns").
THEOREM DropsInOrderHolds == SchemaSpec => []DropsInOrder
<1>1. MigrationInv /\ ReachInv /\ DropInv => DropsInOrder
  <2>1. SUFFICES ASSUME MigrationInv, ReachInv, DropInv,
                        pc = "run", script # << >>, Head(script).op = "drop",
                        NEW o, o = Head(script).on
                 PROVE  /\ o.kind = "table" =>
                             \A f \in OfKind(Blockers(o), "fk") :
                                 \/ Owner(f) \in Kept
                                 \/ BehindCycle(source, OfKind(Removed, "table"), o)
                        /\ o.kind = "pk" =>
                             \A f \in OfKind(Blockers(o), "fk") \cap Removed :
                                 IF Owner(f) \in Kept THEN "fk" \in granted => f.table > o.table
                                 ELSE "table" \notin granted
                        /\ \/ o \in DOMAIN db
                           \/ o.kind \in {"index", "fk", "pk"}
                              /\ \E c \in OfKind(source[o].uses, "column") :
                                     c.table = o.table /\ MayGo(c)
    BY DEF DropsInOrder
  <2>2. /\ script \in Seq(RightStatements) /\ Ranked(script) /\ Present /\ UsesKnown
        /\ WellFormed(source) /\ WellFormed(target)
        /\ DOMAIN source \subseteq Object
        /\ Standing /\ Reaching
    BY <2>1 DEF DropInv, ReachInv, MigrationInv, MigrationTypeOK, Sound
  <2>3. /\ 1 \in DOMAIN script /\ Head(script) = script[1]
        /\ script[1] \in RightStatements /\ script[1].op = "drop" /\ script[1].on = o
    BY <2>1, <2>2, TailHas
  <2>4. o \in Object /\ o.kind \in granted /\ (o \in Removed \/ Renewed(o)) /\ Stands(o)
    BY <2>2, <2>3 DEF RightStatements, Statements, Right, Present
  <2>5. ASSUME NEW u, Going(u), u # o
        PROVE  Before([op |-> "drop", on |-> o], [op |-> "drop", on |-> u])
    <3>1. PICK i \in DOMAIN script : script[i] = [op |-> "drop", on |-> u]
      BY <2>5 DEF Going, Has
    <3>2. 1 < i
      BY <2>2, <2>3, <2>5, <3>1, TailHas
    <3>3. Before(script[1], script[i])
      BY <2>2, <2>3, <3>1, <3>2 DEF Ranked
    <3>4. QED
      BY <2>3, <3>1, <3>3 DEF Before
  <2>6. ASSUME NEW f \in Users(o), f.kind = "fk"
        PROVE  /\ f \in DOMAIN db /\ f \in Object
               /\ (f \in DOMAIN source /\ o \in source[f].uses) \/ o \in DOMAIN target
               /\ Owner(f) \in DOMAIN db
    BY <2>2, <2>6 DEF Users, UsesKnown, WellFormed, Standing, Free
  <2>7. \A f \in DOMAIN source : f.kind = "fk" => Owner(f) \in DOMAIN source
    BY <2>2 DEF WellFormed, Free
  <2>8. ASSUME NEW u \in DOMAIN db \ DOMAIN target, u.kind = "table", "table" \in granted
        PROVE  Going(u)
    BY <2>2, <2>8 DEF Reaching, Spared, Unsupported, Free
  <2>9. ASSUME o.kind = "table", NEW f \in OfKind(Blockers(o), "fk"), Owner(f) \notin Kept
        PROVE  BehindCycle(source, OfKind(Removed, "table"), o)
    <3>1. f \in Users(o) /\ f.kind = "fk" /\ ~ PartOf(f, Owner(o))
      BY <2>9 DEF Blockers, OfKind
    <3>2. o \in Removed /\ o \notin DOMAIN target
      BY <2>4, <2>9 DEF Renewed, Removed
    <3>3. f \in DOMAIN db /\ f \in DOMAIN source /\ o \in source[f].uses
      BY <2>6, <3>1, <3>2
    <3> DEFINE u == Owner(f)
    <3>4. u.kind = "table" /\ u \in DOMAIN source /\ u \in DOMAIN db /\ u \notin DOMAIN target
      BY <2>6, <2>7, <2>9, <3>1, <3>3 DEF Owner, Kept
    <3>5. u # o
      BY <2>4, <2>9, <3>1 DEF PartOf, Owner, Free
    <3>6. o \in References(source, u)
      <4>1. PartOf(f, u)
        BY <3>1 DEF PartOf, Owner, Free
      <4>2. f \in OfTable(OfKind(DOMAIN source, "fk"), u)
        BY <3>1, <3>3, <4>1 DEF OfTable, OfKind
      <4>3. o \in OfKind(source[f].uses, "table")
        BY <2>9, <3>3 DEF OfKind
      <4> HIDE DEF u
      <4>4. QED
        BY <4>2, <4>3 DEF References
    <3> HIDE DEF u
    <3>7. Going(u)
      BY <2>4, <2>8, <2>9, <3>4
    <3>8. Cyclic(o)
      BY <2>5, <3>4, <3>5, <3>6, <3>7 DEF Before
    <3>9. QED
      BY <3>8 DEF Cyclic, Old
  <2>10. ASSUME o.kind = "pk", NEW f \in OfKind(Blockers(o), "fk") \cap Removed
         PROVE  IF Owner(f) \in Kept THEN "fk" \in granted => f.table > o.table
                ELSE "table" \notin granted
    <3>1. f \in Users(o) /\ f.kind = "fk" /\ driver # "sqlite" /\ f \in Removed
      BY <2>10 DEF Blockers, OfKind
    <3>2. f \in DOMAIN db /\ f \in Object /\ f \in DOMAIN source /\ f \notin DOMAIN target
      BY <2>6, <3>1 DEF Removed
    <3>3. ASSUME Owner(f) \in Kept, "fk" \in granted PROVE f.table > o.table
      <4>1. Owner(f) \in DOMAIN target
        BY <3>3 DEF Kept
      <4>2. Going(f)
        BY <2>2, <3>1, <3>2, <3>3, <4>1 DEF Reaching, Spared, Unsupported
      <4>3. Before([op |-> "drop", on |-> o], [op |-> "drop", on |-> f])
        BY <2>5, <2>10, <3>1, <4>2
      <4>4. o.table < f.table
        BY <2>10, <3>1, <4>3 DEF Before
      <4>5. QED
        BY <2>4, <3>2, <4>4 DEF Object
    <3>4. ASSUME Owner(f) \notin Kept, "table" \in granted PROVE FALSE
      <4> DEFINE u == Owner(f)
      <4>1. u.kind = "table" /\ u \in DOMAIN db /\ u \in DOMAIN source /\ u \notin DOMAIN target
        BY <2>6, <2>7, <3>1, <3>2, <3>4 DEF Owner, Kept
      <4> HIDE DEF u
      <4>2. Going(u) /\ u # o
        BY <2>8, <2>10, <3>4, <4>1
      <4>3. QED
        BY <2>5, <2>10, <4>1, <4>2 DEF Before
    <3>5. QED
      BY <3>3, <3>4
  <2>11. QED
    BY <2>4, <2>9, <2>10 DEF Stands
<1>2. QED
  BY <1>1, MigrationInvariant, ReachInvariant, DropInvariant, PTL

(***************************************************************************)
(* The order of creations.                                                 *)
(***************************************************************************)

New == OfKind(Added, "table")

\* The new tables that lead to one of them by their foreign keys.
Behind(t) == Leading(target, New, t)

\* The search for an order: no table is listed or visited twice; of two tables
\* that are being visited the first leads to the second; and a new table that a
\* listed one references is listed before, is the table itself, or leads to it.
Visiting(list, path) ==
    /\ \A i, j \in DOMAIN list : i # j => list[i] # list[j]
    /\ \A i, j \in DOMAIN path : i # j => path[i] # path[j]
    /\ \A i \in DOMAIN list, j \in DOMAIN path : list[i] # path[j]
    /\ \A i, j \in DOMAIN path : i < j => path[i] \in Behind(path[j])
    /\ \A i \in DOMAIN list : \A t \in References(target, list[i]) \cap New :
           t \in Behind(list[i]) \/ \E k \in DOMAIN list : k <= i /\ list[k] = t

\* A table that is to be visited next is not on the lists.
LEMMA VisitNextKeeps ==
    ASSUME MigrationTypeOK, Visiting(creating, stack), VisitNext
    PROVE  Visiting(creating, stack')
<1>1. creating \in Seq(New) /\ stack = << >> /\ Unvisited # {}
  BY DEF MigrationTypeOK, New, VisitNext
<1>2. Unvisited \in SUBSET Object /\ IsFiniteSet(Unvisited)
  <2>1. Unvisited \subseteq Added
    BY DEF Unvisited, OfKind
  <2>2. QED
    BY <2>1, DifferencesType, FS_Subset
<1>3. PICK t \in Unvisited : stack' = <<t>>
  BY <1>1, <1>2, ByNameType DEF VisitNext
<1>4. DOMAIN stack' = {1} /\ stack'[1] = t
  BY <1>3
<1>5. \A i \in DOMAIN creating : creating[i] # t
  BY <1>3 DEF Unvisited, ToSet
<1>6. QED
  BY <1>4, <1>5 DEF Visiting

LEMMA VisitDependencyKeeps ==
    ASSUME MigrationTypeOK, Visiting(creating, stack), VisitDependency
    PROVE  Visiting(creating, stack')
<1> DEFINE n == Len(stack)
<1>1. stack \in Seq(New) /\ stack # << >> /\ n \in Nat \ {0} /\ DOMAIN stack = 1 .. n
      /\ Last(stack) = stack[n] /\ stack[n] \in New
  BY DEF MigrationTypeOK, New, VisitDependency, Last
<1>2. PICK t \in References(target, Last(stack)) \cap Unvisited : stack' = Append(stack, t)
  BY DEF VisitDependency
<1>3. /\ t \in New /\ \A i \in DOMAIN creating : creating[i] # t
      /\ \A i \in 1 .. n : stack[i] # t
  BY <1>1, <1>2 DEF Unvisited, ToSet, New
<1> HIDE DEF n
<1>4. /\ DOMAIN stack' = 1 .. n + 1 /\ stack'[n + 1] = t
      /\ \A i \in 1 .. n : stack'[i] = stack[i]
      /\ \A i \in 1 .. n + 1 : i \in 1 .. n \/ i = n + 1
  BY <1>1, <1>2 DEF n
<1>5. stack[n] \in Behind(t) /\ Behind(stack[n]) \subseteq Behind(t)
  BY <1>1, <1>2, <1>3, LeadingFacts DEF Behind
<1>6. \A i \in 1 .. n : stack[i] \in Behind(t)
  <2>1. TAKE i \in 1 .. n
  <2>2. i = n \/ i < n
    BY <1>1
  <2>3. n \in 1 .. n
    BY <1>1
  <2>4. QED
    BY <1>1, <1>5, <2>2, <2>3 DEF Visiting
<1>7. ASSUME NEW i \in 1 .. n + 1, NEW j \in 1 .. n + 1, i # j
      PROVE  stack'[i] # stack'[j]
  BY <1>1, <1>3, <1>4, <1>7 DEF Visiting
<1>8. ASSUME NEW i \in 1 .. n + 1, NEW j \in 1 .. n + 1, i < j
      PROVE  stack'[i] \in Behind(stack'[j])
  <2>1. i \in 1 .. n
    BY <1>1, <1>8
  <2>2. CASE j = n + 1
    BY <1>4, <1>6, <2>1, <2>2
  <2>3. CASE j \in 1 .. n
    BY <1>1, <1>4, <1>8, <2>1, <2>3 DEF Visiting
  <2>4. QED
    BY <1>4, <2>2, <2>3
<1>9. \A i \in DOMAIN creating, j \in 1 .. n + 1 : creating[i] # stack'[j]
  BY <1>1, <1>3, <1>4 DEF Visiting
<1>10. QED
  BY <1>4, <1>7, <1>8, <1>9 DEF Visiting

LEMMA VisitedKeeps ==
    ASSUME MigrationTypeOK, Visiting(creating, stack), Visited
    PROVE  Visiting(creating', stack')
<1> DEFINE n == Len(stack)
           m == Len(creating)
<1>1. stack \in Seq(New) /\ stack # << >> /\ n \in Nat \ {0} /\ DOMAIN stack = 1 .. n
      /\ Last(stack) = stack[n] /\ stack[n] \in New
  BY DEF MigrationTypeOK, New, Visited, Last
<1>2. creating \in Seq(New) /\ m \in Nat /\ DOMAIN creating = 1 .. m
  BY DEF MigrationTypeOK, New
<1>3. PICK t \in New : t = stack[n]
  BY <1>1
<1>4. /\ creating' = Append(creating, t) /\ stack' = Front(stack)
      /\ References(target, t) \cap Unvisited = {}
  BY <1>1, <1>3 DEF Visited
<1>5. /\ DOMAIN creating' = 1 .. m + 1 /\ creating'[m + 1] = t
      /\ \A i \in 1 .. m : creating'[i] = creating[i]
      /\ \A i \in 1 .. m + 1 : i \in 1 .. m \/ i = m + 1
      /\ DOMAIN stack' = 1 .. n - 1 /\ \A i \in 1 .. n - 1 : stack'[i] = stack[i]
  <2>1. /\ DOMAIN creating' = 1 .. m + 1 /\ creating'[m + 1] = t
        /\ \A i \in 1 .. m : creating'[i] = creating[i]
    BY <1>2, <1>4
  <2>2. \A i \in 1 .. m + 1 : i \in 1 .. m \/ i = m + 1
    BY <1>2
  <2>3. stack' = SubSeq(stack, 1, n - 1)
    BY <1>4 DEF Front
  <2>4. DOMAIN stack' = 1 .. n - 1 /\ \A i \in 1 .. n - 1 : stack'[i] = stack[i]
    BY <1>1, <2>3
  <2>5. QED
    BY <2>1, <2>2, <2>4
<1> HIDE DEF n, m
<1>6. \A i \in 1 .. n - 1 : i \in 1 .. n /\ i # n /\ i < n /\ n \in 1 .. n
  BY <1>1
<1>7. /\ \A i \in 1 .. m : creating[i] # t
      /\ \A i \in 1 .. n - 1 : stack[i] # t /\ stack[i] \in Behind(t)
  <2>1. n \in 1 .. n
    BY <1>1
  <2>2. QED
    BY <1>1, <1>2, <1>3, <1>6, <2>1 DEF Visiting
<1>8. ASSUME NEW i \in 1 .. m + 1, NEW j \in 1 .. m + 1, i # j
      PROVE  creating'[i] # creating'[j]
  BY <1>2, <1>5, <1>7, <1>8 DEF Visiting
<1>9. ASSUME NEW i \in 1 .. m + 1, NEW j \in 1 .. n - 1
      PROVE  creating'[i] # stack'[j]
  <2>1. j \in DOMAIN stack /\ stack'[j] = stack[j] /\ stack[j] # t
    BY <1>1, <1>5, <1>6, <1>7
  <2>2. CASE i \in 1 .. m
    <3>1. i \in DOMAIN creating /\ creating'[i] = creating[i]
      BY <1>2, <1>5, <2>2
    <3>2. QED
      BY <2>1, <3>1 DEF Visiting
  <2>3. CASE i = m + 1
    BY <1>5, <2>1, <2>3
  <2>4. QED
    BY <1>5, <2>2, <2>3
<1>10. ASSUME NEW i \in 1 .. n - 1, NEW j \in 1 .. n - 1
       PROVE  /\ i # j => stack'[i] # stack'[j]
              /\ i < j => stack'[i] \in Behind(stack'[j])
  BY <1>1, <1>5, <1>6 DEF Visiting
<1>11. ASSUME NEW i \in 1 .. m + 1, NEW u \in References(target, creating'[i]) \cap New
       PROVE  u \in Behind(creating'[i]) \/ \E k \in 1 .. m + 1 : k <= i /\ creating'[k] = u
  <2>1. CASE i \in 1 .. m
    <3>1. u \in Behind(creating[i]) \/ \E k \in 1 .. m : k <= i /\ creating[k] = u
      BY <1>2, <1>5, <1>11, <2>1 DEF Visiting
    <3>2. \A k \in 1 .. m : k \in 1 .. m + 1
      BY <1>2
    <3>3. QED
      BY <1>5, <2>1, <3>1, <3>2
  <2>2. CASE i = m + 1
    <3>1. u \in ToSet(creating) \/ u \in ToSet(stack)
      BY <1>4, <1>5, <1>11, <2>2 DEF Unvisited, New
    <3>2. CASE u \in ToSet(creating)
      <4>1. PICK k \in 1 .. m : creating[k] = u
        BY <1>2, <3>2 DEF ToSet
      <4>2. k \in 1 .. m + 1 /\ k <= i
        BY <1>2, <2>2
      <4>3. QED
        BY <1>5, <4>1, <4>2
    <3>3. CASE u \in ToSet(stack)
      <4>1. PICK k \in 1 .. n : stack[k] = u
        BY <1>1, <3>3 DEF ToSet
      <4>2. CASE k = n
        <5>1. m + 1 \in 1 .. m + 1 /\ m + 1 <= i
          BY <1>2, <2>2
        <5>2. QED
          BY <1>3, <1>5, <4>1, <4>2, <5>1
      <4>3. CASE k # n
        <5>1. k \in 1 .. n - 1
          BY <1>1, <4>3
        <5>2. QED
          BY <1>5, <1>7, <2>2, <4>1, <5>1
      <4>4. QED
        BY <4>2, <4>3
    <3>4. QED
      BY <3>1, <3>2, <3>3
  <2>3. QED
    BY <1>5, <2>1, <2>2
<1>12. QED
  BY <1>5, <1>8, <1>9, <1>10, <1>11 DEF Visiting

\* Of two tables in the order found, the first references the second only if that
\* one leads to it.
LEMMA VisitedOrder ==
    ASSUME NEW list \in Seq(New), NEW path, Visiting(list, path),
           NEW i \in DOMAIN list, NEW j \in DOMAIN list, i < j
    PROVE  /\ list[i] # list[j]
           /\ list[j] \in References(target, list[i]) => list[j] \in Behind(list[i])
<1>1. DOMAIN list \subseteq Nat
  OBVIOUS
<1>2. \A k \in DOMAIN list : k <= i => k # j
  BY <1>1
<1>3. i # j
  BY <1>1
<1>4. QED
  BY <1>2, <1>3 DEF Visiting

\* What the script has: no routine or trigger is created but as a text, and
\* nothing is created that the dialect cannot create.
Steps ==
    {s \in Statements :
        s.op = "create" => s.on.kind \notin {"routine", "trigger"} /\ ~ Unsupported("create", s.on)}

\* Two creations in the wrong order: a part of a table and then the table or a
\* column of it; a foreign key and then a new table that it references, unless
\* that one leads to its own; a view and then a table or a column.
Clash(s, t) ==
    /\ s.op = "create" /\ t.op = "create"
    /\ \/ /\ s.on.kind \in {"index", "fk", "pk"} /\ t.on.kind \in {"table", "column"}
          /\ s.on.table = t.on.table
       \/ /\ s.on.kind = "fk" /\ t.on.kind = "table"
          /\ t.on \in References(target, Owner(s.on)) /\ t.on \notin Behind(Owner(s.on))
       \/ s.on.kind = "view" /\ t.on.kind \in {"table", "column"}

Turns == {p \in Steps \X Steps : ~ Clash(p[1], p[2])}

InTurn(list) == list \in Seq(Steps) /\ Arranged(Turns, list)

\* What may come before anything, and what may come after anything.
Firsts == {s \in Steps : s.op = "create" => s.on.kind \in {"table", "column"}}

Lasts == {s \in Steps : s.op = "create" => s.on.kind \notin {"table", "column"}}

LEMMA FirstsAndLasts ==
    /\ \A s \in Firsts, t \in Steps : <<s, t>> \in Turns
    /\ \A s \in Steps, t \in Lasts : <<s, t>> \in Turns
<1>1. Firsts \subseteq Steps /\ Lasts \subseteq Steps
  BY DEF Firsts, Lasts
<1>2. \A s \in Firsts, t \in Steps : ~ Clash(s, t)
  BY DEF Clash, Firsts
<1>3. \A s \in Steps, t \in Lasts : ~ Clash(s, t)
  BY DEF Clash, Lasts
<1>4. QED
  BY <1>1, <1>2, <1>3 DEF Turns

\* In any order with each other; and the latter after whatever is in order.
LEMMA PartsInTurn ==
    /\ \A list \in Seq(Firsts) : InTurn(list)
    /\ \A list \in Seq(Lasts) : InTurn(list)
<1>1. Firsts \subseteq Steps /\ Lasts \subseteq Steps
  BY DEF Firsts, Lasts
<1>2. ASSUME NEW S, S \in {Firsts, Lasts}, NEW list \in Seq(S) PROVE InTurn(list)
  <2>1. \A i \in DOMAIN list : list[i] \in S /\ list[i] \in Steps
    BY <1>1, <1>2
  <2>2. list \in Seq(Steps)
    BY <1>1, <1>2
  <2>3. QED
    BY <1>2, <2>1, <2>2, FirstsAndLasts DEF InTurn, Arranged
<1>3. QED
  BY <1>2

LEMMA LastsFollow ==
    ASSUME NEW T, NEW a \in Seq(T), InTurn(a), NEW b \in Seq(Lasts \cap T)
    PROVE  a \o b \in Seq(T) /\ InTurn(a \o b)
<1>1. b \in Seq(T) /\ b \in Seq(Lasts) /\ Lasts \subseteq Steps
  BY DEF Lasts
<1>2. a \in Seq(Steps) /\ b \in Seq(Steps) /\ Arranged(Turns, a) /\ Arranged(Turns, b)
  BY <1>1, PartsInTurn DEF InTurn
<1>3. Arranged(Turns, a \o b)
  BY <1>1, <1>2, FirstsAndLasts, ArrangedPut
<1>4. QED
  BY <1>1, <1>2, <1>3 DEF InTurn

\* The creations of a new table and of a table that is kept.
NewOf(t) ==
    {s \in Steps : /\ s.op = "create"
                   /\ s.on = t \/ (s.on.kind \in {"index", "fk"} /\ PartOf(s.on, t))}

ChangeOf(t) ==
    {s \in Steps : s.op = "create" =>
        PartOf(s.on, t) /\ s.on.kind \in {"column", "index", "fk", "pk"}}

LEMMA NewTableInTurn ==
    ASSUME MigrationTypeOK, NEW t \in New, NEW walk \in Seq(Added)
    PROVE  NewTable(t, walk) \in Seq(NewOf(t)) /\ InTurn(NewTable(t, walk))
<1>1. Added \subseteq Object /\ t \in Object /\ t.kind = "table"
  BY DifferencesType DEF New, OfKind
<1> DEFINE First == Firsts \cap NewOf(t)
           Last2 == Lasts \cap NewOf(t)
<1>2. Creates(<<t>>) \in Seq(First)
  <2> DEFINE one == <<t>>
  <2>1. one \in Seq(Object) /\ \A i \in DOMAIN one : one[i] = t
    BY <1>1
  <2> HIDE DEF one
  <2>2. \A i \in DOMAIN one :
            ~ Unsupported("create", one[i]) => [op |-> "create", on |-> one[i]] \in First
    BY <1>1, <2>1 DEF Firsts, NewOf, Steps, Statements
  <2>3. QED
    BY <2>1, <2>2, StatementType DEF Creates, one
<1>3. ASSUME NEW o \in Added, PartOf(o, t), o.kind \in {"index", "fk"}
      PROVE  Creates(<<o>>) \in Seq(Last2)
  <2> DEFINE one == <<o>>
  <2>1. one \in Seq(Object) /\ \A i \in DOMAIN one : one[i] = o
    BY <1>1
  <2> HIDE DEF one
  <2>2. \A i \in DOMAIN one :
            ~ Unsupported("create", one[i]) => [op |-> "create", on |-> one[i]] \in Last2
    BY <1>1, <1>3, <2>1 DEF Lasts, NewOf, Steps, Statements
  <2>3. QED
    BY <2>1, <2>2, StatementType DEF Creates, one
<1> HIDE DEF First, Last2
<1> DEFINE own(kind) ==
               [i \in DOMAIN walk |->
                   IF PartOf(walk[i], t) /\ walk[i].kind = kind THEN Creates(<<walk[i]>>)
                   ELSE << >>]
<1>4. ASSUME NEW kind \in {"index", "fk"} PROVE FlattenSeq(own(kind)) \in Seq(Last2)
  <2>1. DOMAIN walk = 1 .. Len(walk) /\ Len(walk) \in Nat
    OBVIOUS
  <2>2. \A i \in 1 .. Len(walk) : own(kind)[i] \in Seq(Last2)
    <3>1. TAKE i \in 1 .. Len(walk)
    <3>2. walk[i] \in Added
      BY <2>1
    <3>3. CASE PartOf(walk[i], t) /\ walk[i].kind = kind
      BY <1>3, <2>1, <3>2, <3>3
    <3>4. CASE ~ (PartOf(walk[i], t) /\ walk[i].kind = kind)
      BY <2>1, <3>4
    <3>5. QED
      BY <3>3, <3>4
  <2>3. own(kind) = [i \in 1 .. Len(walk) |-> own(kind)[i]]
    BY <2>1
  <2> HIDE DEF own
  <2>4. QED
    BY <2>1, <2>2, <2>3, FlattenSeqType
<1>5. NewTable(t, walk) =
          Creates(<<t>>) \o FlattenSeq(own("index")) \o FlattenSeq(own("fk"))
  BY DEF NewTable, ForEach
<1> HIDE DEF own
<1>6. FlattenSeq(own("index")) \in Seq(Last2) /\ FlattenSeq(own("fk")) \in Seq(Last2)
  BY <1>4
<1> HIDE DEF own
<1>7. Creates(<<t>>) \in Seq(NewOf(t)) /\ InTurn(Creates(<<t>>))
  <2>1. First \subseteq Firsts /\ First \subseteq NewOf(t)
    BY DEF First
  <2>2. Creates(<<t>>) \in Seq(NewOf(t)) /\ Creates(<<t>>) \in Seq(Firsts)
    BY <1>2, <2>1
  <2>3. QED
    BY <2>2, PartsInTurn
<1>8. QED
  BY <1>5, <1>6, <1>7, LastsFollow DEF Last2

LEMMA ChangedPrimaryKeySteps ==
    ASSUME MigrationTypeOK, NEW t \in OfKind(Kept, "table")
    PROVE  ChangedPrimaryKey(t) \in Seq(Lasts \cap ChangeOf(t))
<1> DEFINE old == OfTable(OfKind(DOMAIN source, "pk"), t)
           new == OfTable(OfKind(DOMAIN target, "pk"), t)
           T == Lasts \cap ChangeOf(t)
<1>1. old \in SUBSET DOMAIN source /\ new \in SUBSET DOMAIN target
      /\ \A o \in old \cup new : o.kind = "pk" /\ PartOf(o, t)
  BY DEF OfTable, OfKind
<1>2. ChangedPrimaryKey(t) \in {<< >>, Drops(ByName(old)) \o Creates(ByName(new))}
  BY DEF ChangedPrimaryKey
<1> HIDE DEF old, new
<1>3. /\ ByName(old) \in Seq(Object) /\ ByName(new) \in Seq(Object)
      /\ \A i \in DOMAIN ByName(new) : ByName(new)[i] \in new
  BY <1>1, DifferencesType, PartByName
<1>4. PICK a, b : a = ByName(old) /\ b = ByName(new)
  OBVIOUS
<1>5. /\ \A i \in DOMAIN a : a[i] \in Object
      /\ \A i \in DOMAIN b : b[i] \in Object /\ b[i].kind = "pk" /\ PartOf(b[i], t)
  BY <1>1, <1>3, <1>4
<1>6. Drops(a) \in Seq(T)
  <2>1. \A i \in DOMAIN a : [op |-> "drop", on |-> a[i]] \in T
    BY <1>5 DEF Lasts, ChangeOf, Steps, Statements
  <2> HIDE DEF T
  <2>2. QED
    BY <1>3, <1>4, <2>1, DropListType
<1>7. Creates(b) \in Seq(T)
  <2>1. \A i \in DOMAIN b : ~ Unsupported("create", b[i]) => [op |-> "create", on |-> b[i]] \in T
    BY <1>5 DEF Lasts, ChangeOf, Steps, Statements
  <2> HIDE DEF T
  <2>2. QED
    BY <1>3, <1>4, <2>1, StatementType DEF Creates
<1> HIDE DEF T
<1>8. << >> \in Seq(T) /\ Drops(a) \o Creates(b) \in Seq(T)
  BY <1>6, <1>7
<1>9. QED
  BY <1>2, <1>4, <1>8 DEF T

\* The section of a table that is kept: columns first.
LEMMA ChangedTableInTurn ==
    ASSUME MigrationTypeOK, NEW t \in OfKind(Kept, "table")
    PROVE  ChangedTable(t) \in Seq(ChangeOf(t)) /\ InTurn(ChangedTable(t))
<1> DEFINE In(S, kind) == ByName(OfTable(OfKind(S, kind), t))
           a == Creates(In(Added, "column"))
           b == Drops(In(Removed, "column"))
           c == Alters(In(Modified, "column"))
           d == Creates(In(Added, "index"))
           e == Drops(In(Removed, "index"))
           f == Drops(In(Removed, "fk"))
           h == Creates(In(Added, "fk"))
           k == ChangedPrimaryKey(t)
           First == Firsts \cap ChangeOf(t)
           Rest == Lasts \cap ChangeOf(t)
<1>1. ASSUME NEW S, S \in {Added, Removed, Modified}, NEW kind
      PROVE  /\ In(S, kind) \in Seq(Object)
             /\ \A i \in DOMAIN In(S, kind) :
                    /\ In(S, kind)[i] \in Object /\ In(S, kind)[i].kind = kind
                    /\ PartOf(In(S, kind)[i], t)
  <2> DEFINE R == OfTable(OfKind(S, kind), t)
  <2>1. R \in SUBSET S /\ \A o \in R : o.kind = kind /\ PartOf(o, t)
    BY DEF OfTable, OfKind
  <2> HIDE DEF R
  <2>2. ByName(R) \in Seq(Object) /\ \A i \in DOMAIN ByName(R) : ByName(R)[i] \in R
    BY <1>1, <2>1, DifferencesType, PartByName
  <2>3. S \subseteq Object
    BY <1>1, DifferencesType
  <2>4. QED
    BY <2>1, <2>2, <2>3 DEF R
<1>2. ASSUME NEW kind PROVE Drops(In(Removed, kind)) \in Seq(Rest)
  <2>1. PICK list : list = In(Removed, kind)
    OBVIOUS
  <2>2. list \in Seq(Object) /\ \A i \in DOMAIN list : list[i] \in Object
    BY <1>1, <2>1
  <2>3. \A i \in DOMAIN list : [op |-> "drop", on |-> list[i]] \in Rest
    BY <2>2 DEF Lasts, ChangeOf, Steps, Statements
  <2> HIDE DEF Rest, In
  <2>4. QED
    BY <2>1, <2>2, <2>3, DropListType
<1>3. Alters(In(Modified, "column")) \in Seq(Rest)
  <2>1. PICK list : list = In(Modified, "column")
    OBVIOUS
  <2>2. list \in Seq(Object) /\ \A i \in DOMAIN list : list[i] \in Object
    BY <1>1, <2>1
  <2>3. \A i \in DOMAIN list : [op |-> "alter", on |-> list[i]] \in Rest
    BY <2>2 DEF Lasts, ChangeOf, Steps, Statements
  <2> HIDE DEF Rest, In
  <2>4. QED
    BY <2>1, <2>2, <2>3, StatementType DEF Alters
<1>4. ASSUME NEW kind \in {"index", "fk"} PROVE Creates(In(Added, kind)) \in Seq(Rest)
  <2>1. PICK list : list = In(Added, kind)
    OBVIOUS
  <2>2. list \in Seq(Object) /\ \A i \in DOMAIN list :
            list[i] \in Object /\ list[i].kind = kind /\ PartOf(list[i], t)
    BY <1>1, <2>1
  <2>3. \A i \in DOMAIN list :
            ~ Unsupported("create", list[i]) => [op |-> "create", on |-> list[i]] \in Rest
    BY <2>2 DEF Lasts, ChangeOf, Steps, Statements
  <2> HIDE DEF Rest, In
  <2>4. QED
    BY <2>1, <2>2, <2>3, StatementType DEF Creates
<1>5. Creates(In(Added, "column")) \in Seq(First)
  <2>1. PICK list : list = In(Added, "column")
    OBVIOUS
  <2>2. list \in Seq(Object) /\ \A i \in DOMAIN list :
            list[i] \in Object /\ list[i].kind = "column" /\ PartOf(list[i], t)
    BY <1>1, <2>1
  <2>3. \A i \in DOMAIN list :
            ~ Unsupported("create", list[i]) => [op |-> "create", on |-> list[i]] \in First
    BY <2>2 DEF Firsts, ChangeOf, Steps, Statements
  <2> HIDE DEF First, In
  <2>4. QED
    BY <2>1, <2>2, <2>3, StatementType DEF Creates
<1>6. k \in Seq(Rest)
  BY ChangedPrimaryKeySteps
<1> HIDE DEF First, Rest
<1>7. /\ a \in Seq(First) /\ b \in Seq(Rest) /\ c \in Seq(Rest) /\ d \in Seq(Rest)
      /\ e \in Seq(Rest) /\ f \in Seq(Rest) /\ h \in Seq(Rest)
  BY <1>2, <1>3, <1>4, <1>5
<1>8. ChangedTable(t) = a \o b \o c \o d \o e \o f \o h \o k
  BY DEF ChangedTable
<1> HIDE DEF a, b, c, d, e, f, h, k, In
<1>9. PICK T : T = ChangeOf(t)
  OBVIOUS
<1>10. a \in Seq(T) /\ InTurn(a)
  <2>1. First \subseteq Firsts /\ First \subseteq T
    BY <1>9 DEF First
  <2>2. a \in Seq(T) /\ a \in Seq(Firsts)
    BY <1>7, <2>1
  <2>3. QED
    BY <2>2, PartsInTurn
<1>11. ASSUME NEW x \in Seq(T), InTurn(x), NEW y \in Seq(Rest)
       PROVE  x \o y \in Seq(T) /\ InTurn(x \o y)
  BY <1>9, <1>11, LastsFollow DEF Rest
<1>12. a \o b \o c \in Seq(T) /\ InTurn(a \o b \o c)
  BY <1>7, <1>10, <1>11
<1>13. a \o b \o c \o d \o e \in Seq(T) /\ InTurn(a \o b \o c \o d \o e)
  BY <1>7, <1>11, <1>12
<1>14. a \o b \o c \o d \o e \o f \o h \in Seq(T) /\ InTurn(a \o b \o c \o d \o e \o f \o h)
  BY <1>7, <1>11, <1>13
<1>15. QED
  BY <1>6, <1>8, <1>9, <1>11, <1>14

\* The new tables, in the order found.
LEMMA NewTablesInTurn ==
    ASSUME MigrationTypeOK, Visiting(creating, stack), NEW walk \in Seq(Added)
    PROVE  LET list == ForEach(LAMBDA t : NewTable(t, walk), creating)
           IN  list \in Seq(UNION {NewOf(t) : t \in New}) /\ InTurn(list)
<1> DEFINE n == Len(creating)
           lists == [i \in DOMAIN creating |-> NewTable(creating[i], walk)]
           sets == [i \in 1 .. n |-> NewOf(creating[i])]
           all == UNION {NewOf(t) : t \in New}
<1>1. creating \in Seq(New) /\ n \in Nat /\ DOMAIN creating = 1 .. n
  BY DEF MigrationTypeOK, New
<1>2. ForEach(LAMBDA t : NewTable(t, walk), creating) = FlattenSeq(lists)
  BY DEF ForEach
<1>3. \A i \in 1 .. n : creating[i] \in New /\ creating[i] \in Object /\ creating[i].kind = "table"
  BY <1>1, DifferencesType DEF New, OfKind
<1>4. /\ lists = [i \in 1 .. n |-> lists[i]]
      /\ \A i \in 1 .. n : lists[i] = NewTable(creating[i], walk) /\ sets[i] = NewOf(creating[i])
  BY <1>1
<1>5. \A i \in 1 .. n : sets[i] \subseteq all
  BY <1>3, <1>4
<1>6. all \subseteq Steps
  BY DEF NewOf
<1> HIDE DEF lists, sets, all, n
<1>7. \A i \in 1 .. n : lists[i] \in Seq(sets[i]) /\ Arranged(Turns, lists[i])
  BY <1>3, <1>4, NewTableInTurn DEF InTurn
<1>8. ASSUME NEW i \in 1 .. n, NEW j \in 1 .. n, i < j, NEW s \in sets[i], NEW u \in sets[j]
      PROVE  <<s, u>> \in Turns
  <2>1. PICK x \in New, y \in New : x = creating[i] /\ y = creating[j]
    BY <1>3
  <2>2. x # y /\ (y \in References(target, x) => y \in Behind(x))
    BY <1>1, <1>8, <2>1, VisitedOrder
  <2>3. s \in NewOf(x) /\ u \in NewOf(y)
    BY <1>4, <1>8, <2>1
  <2>4. /\ x \in Object /\ x.kind = "table" /\ x.name = x.table
        /\ y \in Object /\ y.kind = "table" /\ y.name = y.table
    BY <1>3, <2>1 DEF Object
  <2>5. x.table # y.table
    BY <2>2, <2>4 DEF Object
  <2>6. /\ s \in Steps /\ (s.on = x \/ (s.on.kind \in {"index", "fk"} /\ PartOf(s.on, x)))
        /\ u \in Steps /\ (u.on = y \/ (u.on.kind \in {"index", "fk"} /\ PartOf(u.on, y)))
    BY <2>3 DEF NewOf
  <2>7. s.on.kind = "fk" => Owner(s.on) = x
    BY <2>4, <2>6 DEF PartOf, Owner, Object
  <2>8. ~ Clash(s, u)
    BY <2>2, <2>4, <2>5, <2>6, <2>7 DEF Clash, PartOf
  <2>9. QED
    BY <2>6, <2>8 DEF Turns
<1>9. FlattenSeq(lists) \in Seq(all) /\ Arranged(Turns, FlattenSeq(lists))
  <2>1. n \in Nat
    BY <1>1
  <2>2. QED
    BY <1>4, <1>5, <1>7, <1>8, <2>1, ArrangedFlatten
<1>10. FlattenSeq(lists) \in Seq(Steps)
  BY <1>6, <1>9
<1>11. QED
  BY <1>2, <1>9, <1>10 DEF InTurn, all

\* The tables that are kept.
LEMMA ChangesInTurn ==
    ASSUME MigrationTypeOK
    PROVE  LET list == ForEach(ChangedTable, ByName(OfKind(Kept, "table")))
           IN  list \in Seq(UNION {ChangeOf(t) : t \in OfKind(Kept, "table")}) /\ InTurn(list)
<1> DEFINE kept == ByName(OfKind(Kept, "table"))
           n == Len(kept)
           lists == [i \in DOMAIN kept |-> ChangedTable(kept[i])]
           sets == [i \in 1 .. n |-> ChangeOf(kept[i])]
           all == UNION {ChangeOf(t) : t \in OfKind(Kept, "table")}
<1>1. OfKind(Kept, "table") \in SUBSET Kept
  BY DEF OfKind
<1>2. /\ kept \in Seq(OfKind(Kept, "table"))
      /\ \A i, j \in DOMAIN kept : i < j => kept[i] # kept[j]
  BY <1>1, DifferencesType, PartByName, ByNameOrder
<1>3. ForEach(ChangedTable, kept) = FlattenSeq(lists)
  BY DEF ForEach
<1>4. n \in Nat /\ DOMAIN kept = 1 .. n
  BY <1>2
<1>5. \A i \in 1 .. n : /\ kept[i] \in OfKind(Kept, "table") /\ kept[i] \in Object
                        /\ kept[i].kind = "table" /\ kept[i].name = kept[i].table
  <2>1. \A i \in 1 .. n : kept[i] \in OfKind(Kept, "table")
    BY <1>2, <1>4
  <2> HIDE DEF kept, n
  <2>2. QED
    BY <2>1, DifferencesType DEF OfKind, Object
<1>6. /\ lists = [i \in 1 .. n |-> lists[i]]
      /\ \A i \in 1 .. n : lists[i] = ChangedTable(kept[i]) /\ sets[i] = ChangeOf(kept[i])
  BY <1>4
<1>7. all \subseteq Steps
  BY DEF ChangeOf
<1> HIDE DEF kept, n, lists, sets
<1>8. \A i \in 1 .. n : sets[i] \subseteq all
  BY <1>5, <1>6
<1> HIDE DEF all
<1>9. \A i \in 1 .. n : lists[i] \in Seq(sets[i]) /\ Arranged(Turns, lists[i])
  BY <1>5, <1>6, ChangedTableInTurn DEF InTurn
<1>10. ASSUME NEW i \in 1 .. n, NEW j \in 1 .. n, i < j, NEW s \in sets[i], NEW u \in sets[j]
       PROVE  <<s, u>> \in Turns
  <2>1. PICK x, y : x = kept[i] /\ y = kept[j]
    OBVIOUS
  <2>2. x # y
    BY <1>2, <1>4, <1>10, <2>1
  <2>3. x.table # y.table
    BY <1>5, <2>1, <2>2 DEF Object
  <2>4. s \in ChangeOf(x) /\ u \in ChangeOf(y)
    BY <1>6, <1>10, <2>1
  <2>5. ~ Clash(s, u)
    BY <2>3, <2>4 DEF ChangeOf, Clash, PartOf
  <2>6. QED
    BY <2>4, <2>5 DEF ChangeOf, Turns
<1>11. FlattenSeq(lists) \in Seq(all) /\ Arranged(Turns, FlattenSeq(lists))
  BY <1>4, <1>6, <1>8, <1>9, <1>10, ArrangedFlatten
<1>12. FlattenSeq(lists) \in Seq(Steps)
  BY <1>7, <1>11
<1>13. QED
  BY <1>3, <1>11, <1>12 DEF InTurn, all, kept

\* The sections of what belongs to no table.
LEMMA FreeLasts ==
    ASSUME MigrationTypeOK
    PROVE  /\ Views \in Seq(Lasts) /\ Routines \in Seq(Lasts)
           /\ Triggers \in Seq(Lasts) /\ Sequences \in Seq(Lasts)
<1>1. ASSUME NEW S, S \in {Added, Removed, Modified}, NEW kind
      PROVE  LET list == ByName(OfKind(S, kind))
             IN  /\ list \in Seq(Object)
                 /\ \A i \in DOMAIN list : list[i] \in Object /\ list[i].kind = kind
  <2>1. OfKind(S, kind) \in SUBSET S
    BY DEF OfKind
  <2>2. S \subseteq Object /\ IsFiniteSet(S)
    BY <1>1, DifferencesType
  <2>3. PICK list : list = ByName(OfKind(S, kind))
    OBVIOUS
  <2>4. list \in Seq(Object) /\ \A i \in DOMAIN list : list[i] \in OfKind(S, kind)
    BY <2>1, <2>2, <2>3, PartByName
  <2>5. QED
    BY <2>2, <2>3, <2>4 DEF OfKind
<1>2. ASSUME NEW list \in Seq(Object) PROVE Drops(list) \in Seq(Lasts)
  <2>1. \A i \in DOMAIN list : [op |-> "drop", on |-> list[i]] \in Lasts
    BY DEF Lasts, Steps, Statements
  <2>2. QED
    BY <2>1, DropListType
<1>3. ASSUME NEW list \in Seq(Object), NEW op \in {"create", "alter", "text"},
             op = "create" => \A i \in DOMAIN list : list[i].kind \in {"view", "sequence"}
      PROVE  Statement(op, list) \in Seq(Lasts)
  <2>1. \A i \in DOMAIN list : ~ Unsupported(op, list[i]) => [op |-> op, on |-> list[i]] \in Lasts
    BY <1>3 DEF Lasts, Steps, Statements
  <2>2. QED
    BY <2>1, StatementType
<1>4. Routines \in Seq(Lasts) /\ Triggers \in Seq(Lasts) /\ Sequences \in Seq(Lasts)
  <2>1. \A kind : Drops(ByName(OfKind(Removed, kind))) \in Seq(Lasts)
    BY <1>1, <1>2
  <2>2. \A kind : Texts(ByName(OfKind(Added, kind))) \in Seq(Lasts)
    BY <1>1, <1>3 DEF Texts
  <2>3. Creates(ByName(OfKind(Added, "sequence"))) \in Seq(Lasts)
    BY <1>1, <1>3 DEF Creates
  <2>4. QED
    BY <2>1, <2>2, <2>3 DEF Routines, Triggers, Sequences
<1>5. Views \in Seq(Lasts)
  <2> DEFINE views == ByName(OfKind(Modified, "view"))
             lists == [i \in DOMAIN views |-> ChangedView(views[i])]
             gone == Drops(ByName(OfKind(Removed, "view")))
             come == Creates(ByName(OfKind(Added, "view")))
  <2>1. views \in Seq(Object) /\ \A i \in DOMAIN views : views[i].kind = "view"
    BY <1>1
  <2>2. Views = gone \o come \o FlattenSeq(lists)
    BY DEF Views, ForEach
  <2>3. gone \in Seq(Lasts)
    BY <1>1, <1>2
  <2>4. come \in Seq(Lasts)
    BY <1>1, <1>3 DEF Creates
  <2> HIDE DEF views, gone, come
  <2>5. DOMAIN views = 1 .. Len(views) /\ Len(views) \in Nat
    BY <2>1
  <2>6. ASSUME NEW i \in 1 .. Len(views) PROVE lists[i] \in Seq(Lasts)
    <3> DEFINE one == <<views[i]>>
    <3>1. one \in Seq(Object) /\ \A j \in DOMAIN one : one[j].kind = "view"
      BY <2>1, <2>5
    <3>2. "view" \notin granted
      BY DEF MigrationTypeOK, Grants
    <3>3. ChangedView(views[i]) \in {Drops(one) \o << >>, Alters(one), << >>}
      BY <3>2 DEF ChangedView
    <3>4. lists[i] = ChangedView(views[i])
      BY <2>5
    <3> HIDE DEF one, lists
    <3>5. Drops(one) \in Seq(Lasts)
      BY <1>2, <3>1
    <3>6. Alters(one) \in Seq(Lasts)
      BY <1>3, <3>1 DEF Alters
    <3>7. << >> \in Seq(Lasts) /\ Drops(one) \o << >> \in Seq(Lasts)
      BY <3>5
    <3>8. QED
      BY <3>3, <3>4, <3>6, <3>7
  <2>7. lists = [i \in 1 .. Len(views) |-> lists[i]]
    BY <2>5
  <2> HIDE DEF lists
  <2>8. FlattenSeq(lists) \in Seq(Lasts)
    BY <2>5, <2>6, <2>7, FlattenSeqType
  <2>9. QED
    BY <2>2, <2>3, <2>4, <2>8
<1>6. QED
  BY <1>4, <1>5

\* After a view is created, the text of every new routine is still to come.
Voiced(list) ==
    \A i \in DOMAIN list : list[i].op = "create" /\ list[i].on.kind = "view" =>
        \A r \in OfKind(Added, "routine") :
            \E j \in DOMAIN list : i < j /\ list[j] = [op |-> "text", on |-> r]

LEMMA VoicedPut ==
    ASSUME NEW a \in Seq(Steps), NEW b \in Seq(Steps),
           \A i \in DOMAIN b : ~ (b[i].op = "create" /\ b[i].on.kind = "view"),
           \A r \in OfKind(Added, "routine") : Has(b, [op |-> "text", on |-> r])
    PROVE  Voiced(a \o b)
<1> DEFINE c == a \o b
           n == Len(a)
           m == Len(b)
<1>1. n \in Nat /\ m \in Nat /\ DOMAIN a = 1 .. n /\ DOMAIN b = 1 .. m
  OBVIOUS
<1>2. DOMAIN c = 1 .. n + m /\ \A i \in 1 .. m : c[n + i] = b[i] /\ n + i \in DOMAIN c
  OBVIOUS
<1> HIDE DEF c, n, m
<1>3. ASSUME NEW i \in DOMAIN c, c[i].op = "create" /\ c[i].on.kind = "view"
      PROVE  i <= n
  <2>1. ASSUME ~ (i <= n) PROVE FALSE
    <3>1. i - n \in 1 .. m /\ i = n + (i - n)
      BY <1>1, <1>2, <2>1
    <3>2. c[i] = b[i - n]
      BY <1>2, <3>1
    <3>3. QED
      BY <1>1, <1>3, <3>1, <3>2
  <2>2. QED
    BY <2>1
<1>4. ASSUME NEW i \in DOMAIN c, i <= n, NEW r \in OfKind(Added, "routine")
      PROVE  \E j \in DOMAIN c : i < j /\ c[j] = [op |-> "text", on |-> r]
  <2>1. PICK k \in 1 .. m : b[k] = [op |-> "text", on |-> r]
    BY <1>1 DEF Has
  <2>2. n + k \in DOMAIN c /\ i < n + k /\ c[n + k] = b[k]
    BY <1>1, <1>2, <1>4
  <2>3. QED
    BY <2>1, <2>2
<1>5. QED
  BY <1>3, <1>4 DEF Voiced, c

\* What comes after the views.
LEMMA TextsComeLast ==
    ASSUME MigrationTypeOK
    PROVE  /\ \A r \in OfKind(Added, "routine") :
                  Has(Routines \o Triggers \o Sequences, [op |-> "text", on |-> r])
           /\ \A i \in DOMAIN (Routines \o Triggers \o Sequences) :
                  LET s == (Routines \o Triggers \o Sequences)[i]
                  IN  ~ (s.op = "create" /\ s.on.kind = "view")
<1> DEFINE T == {s \in Steps : ~ (s.op = "create" /\ s.on.kind = "view")}
<1>1. ASSUME NEW S, S \in {Added, Removed}, NEW kind
      PROVE  LET list == ByName(OfKind(S, kind))
             IN  /\ list \in Seq(Object)
                 /\ \A i \in DOMAIN list : list[i] \in Object /\ list[i].kind = kind
                 /\ \A o \in OfKind(S, kind) : Has(list, o)
  <2>1. OfKind(S, kind) \in SUBSET S
    BY DEF OfKind
  <2>2. S \subseteq Object /\ IsFiniteSet(S)
    BY <1>1, DifferencesType
  <2>3. PICK list : list = ByName(OfKind(S, kind))
    OBVIOUS
  <2>4. list \in Seq(Object) /\ \A i \in DOMAIN list : list[i] \in OfKind(S, kind)
    BY <2>1, <2>2, <2>3, PartByName
  <2>5. \A o \in OfKind(S, kind) : Has(list, o)
    BY <2>1, <2>2, <2>3, ByNameHas
  <2>6. QED
    BY <2>2, <2>3, <2>4, <2>5 DEF OfKind
<1>2. ASSUME NEW list \in Seq(Object) PROVE Drops(list) \in Seq(T)
  <2>1. \A i \in DOMAIN list : [op |-> "drop", on |-> list[i]] \in T
    BY DEF Steps, Statements
  <2> HIDE DEF T
  <2>2. QED
    BY <2>1, DropListType
<1>3. ASSUME NEW list \in Seq(Object), NEW op \in {"create", "text"},
             op = "create" => \A i \in DOMAIN list : list[i].kind = "sequence"
      PROVE  Statement(op, list) \in Seq(T)
  <2>1. \A i \in DOMAIN list : ~ Unsupported(op, list[i]) => [op |-> op, on |-> list[i]] \in T
    BY <1>3 DEF Steps, Statements
  <2> HIDE DEF T
  <2>2. QED
    BY <2>1, StatementType
<1> HIDE DEF T
<1>4. \A kind : /\ Drops(ByName(OfKind(Removed, kind))) \in Seq(T)
                /\ Texts(ByName(OfKind(Added, kind))) \in Seq(T)
  BY <1>1, <1>2, <1>3 DEF Texts
<1>5. Creates(ByName(OfKind(Added, "sequence"))) \in Seq(T)
  BY <1>1, <1>3 DEF Creates
<1>6. Routines \in Seq(T) /\ Triggers \in Seq(T) /\ Sequences \in Seq(T)
  BY <1>4, <1>5 DEF Routines, Triggers, Sequences
<1>7. ASSUME NEW r \in OfKind(Added, "routine")
      PROVE  Has(Routines \o Triggers \o Sequences, [op |-> "text", on |-> r])
  <2> DEFINE x == [op |-> "text", on |-> r]
             drops == Drops(ByName(OfKind(Removed, "routine")))
             texts == Texts(ByName(OfKind(Added, "routine")))
  <2>1. ~ Unsupported("text", r)
    BY DEF Unsupported, OfKind
  <2>2. Has(texts, x)
    BY <1>1, <2>1, StatementHas DEF Texts
  <2>3. drops \in Seq(T) /\ texts \in Seq(T) /\ Routines = drops \o texts
    BY <1>4 DEF Routines
  <2> HIDE DEF x, drops, texts
  <2>4. \A a, b \in Seq(T) : a \o b \in Seq(T) /\ (Has(a \o b, x) <=> Has(a, x) \/ Has(b, x))
    BY HasPut
  <2>5. Has(Routines, x)
    BY <2>2, <2>3, <2>4
  <2>6. Has(Routines \o Triggers, x) /\ Routines \o Triggers \in Seq(T)
    BY <1>6, <2>4, <2>5
  <2>7. QED
    BY <1>6, <2>4, <2>6 DEF x
<1>8. Routines \o Triggers \o Sequences \in Seq(T)
  BY <1>6
<1>9. PICK list : list = Routines \o Triggers \o Sequences
  OBVIOUS
<1>10. \A i \in DOMAIN list : ~ (list[i].op = "create" /\ list[i].on.kind = "view")
  BY <1>8, <1>9 DEF T
<1>11. QED
  BY <1>7, <1>9, <1>10

\* The whole script.
LEMMA ScriptInTurn ==
    ASSUME MigrationTypeOK, Visiting(creating, stack), NEW walk \in SetToSeqs(Walked)
    PROVE  InTurn(Script(walk)) /\ Voiced(Script(walk))
<1> DEFINE drops == Drops(dropping)
           news == ForEach(LAMBDA t : NewTable(t, walk), creating)
           changes == ForEach(ChangedTable, ByName(OfKind(Kept, "table")))
           ofNew == UNION {NewOf(t) : t \in New}
           ofKept == UNION {ChangeOf(t) : t \in OfKind(Kept, "table")}
<1>1. walk \in Seq(Added)
  BY WalkType
<1>2. Script(walk) = drops \o news \o changes \o Views \o Routines \o Triggers \o Sequences
  BY DEF Script
<1>3. drops \in Seq(Firsts)
  <2>1. dropping \in Seq(Object) /\ \A i \in DOMAIN dropping : dropping[i] \in Object
    BY DifferencesType DEF MigrationTypeOK, OfKind
  <2>2. \A i \in DOMAIN dropping : [op |-> "drop", on |-> dropping[i]] \in Firsts
    BY <2>1 DEF Firsts, Steps, Statements
  <2>3. QED
    BY <2>1, <2>2, DropListType
<1>4. news \in Seq(ofNew) /\ InTurn(news)
  BY <1>1, NewTablesInTurn
<1>5. changes \in Seq(ofKept) /\ InTurn(changes)
  BY ChangesInTurn
<1>6. \A s \in ofNew, u \in ofKept : <<s, u>> \in Turns
  <2>1. ASSUME NEW x \in New, NEW y \in OfKind(Kept, "table"), NEW s \in NewOf(x),
               NEW u \in ChangeOf(y)
        PROVE  <<s, u>> \in Turns
    <3>1. /\ x \in Object /\ x.kind = "table" /\ x.name = x.table /\ x \notin DOMAIN source
          /\ y \in Object /\ y.kind = "table" /\ y.name = y.table /\ y \in DOMAIN source
      BY DifferencesType DEF New, OfKind, Added, Kept, Object
    <3>2. x.table # y.table
      BY <3>1 DEF Object
    <3>3. ~ Clash(s, u)
      BY <3>1, <3>2 DEF NewOf, ChangeOf, Clash, PartOf
    <3>4. QED
      BY <3>3 DEF NewOf, ChangeOf, Turns
  <2>2. QED
    BY <2>1
<1>7. Views \in Seq(Lasts) /\ Routines \in Seq(Lasts) /\ Triggers \in Seq(Lasts)
      /\ Sequences \in Seq(Lasts)
  BY FreeLasts
<1>8. Firsts \subseteq Steps /\ Lasts \subseteq Steps
  BY DEF Firsts, Lasts
<1> HIDE DEF drops, news, changes, ofNew, ofKept
<1> DEFINE tables == drops \o news \o changes
<1>9. tables \in Seq(Steps) /\ InTurn(tables)
  <2>1. drops \in Seq(Steps) /\ news \in Seq(Steps) /\ changes \in Seq(Steps)
        /\ Arranged(Turns, drops) /\ Arranged(Turns, news) /\ Arranged(Turns, changes)
    BY <1>3, <1>4, <1>5, PartsInTurn DEF InTurn
  <2>2. Arranged(Turns, news \o changes) /\ news \o changes \in Seq(Steps)
    BY <1>4, <1>5, <1>6, <2>1, ArrangedPut
  <2>3. Arranged(Turns, drops \o (news \o changes))
    BY <1>3, <2>1, <2>2, FirstsAndLasts, ArrangedPut
  <2>4. drops \o (news \o changes) = tables
    BY <2>1
  <2>5. QED
    BY <2>1, <2>3, <2>4 DEF InTurn
<1> HIDE DEF tables
<1>10. ASSUME NEW a \in Seq(Steps), InTurn(a), NEW b \in Seq(Lasts)
       PROVE  a \o b \in Seq(Steps) /\ InTurn(a \o b)
  <2>1. Lasts \cap Steps = Lasts
    BY <1>8
  <2>2. QED
    BY <1>10, <2>1, LastsFollow
<1>11. tables \o Views \in Seq(Steps) /\ InTurn(tables \o Views)
  BY <1>7, <1>9, <1>10
<1>12. /\ tables \o Views \o Routines \o Triggers \in Seq(Steps)
       /\ InTurn(tables \o Views \o Routines \o Triggers)
  BY <1>7, <1>10, <1>11
<1>13. Script(walk) = tables \o Views \o Routines \o Triggers \o Sequences
  BY <1>2 DEF tables
<1>14. InTurn(Script(walk))
  BY <1>7, <1>10, <1>12, <1>13
<1>15. Voiced(Script(walk))
  <2> DEFINE front == tables \o Views
             rest == Routines \o Triggers \o Sequences
  <2>1. rest \in Seq(Steps)
    BY <1>7, <1>8
  <2>2. Script(walk) = front \o rest
    <3>1. PICK a, b, c, d : a = front /\ b = Routines /\ c = Triggers /\ d = Sequences
      OBVIOUS
    <3>2. a \in Seq(Steps) /\ b \in Seq(Steps) /\ c \in Seq(Steps) /\ d \in Seq(Steps)
      BY <1>7, <1>8, <1>11, <3>1
    <3>3. a \o b \o c \o d = a \o (b \o c \o d)
      BY <3>2
    <3>4. QED
      BY <1>13, <3>1, <3>3
  <2>3. \A i \in DOMAIN rest : ~ (rest[i].op = "create" /\ rest[i].on.kind = "view")
    BY TextsComeLast
  <2>4. \A r \in OfKind(Added, "routine") : Has(rest, [op |-> "text", on |-> r])
    BY TextsComeLast
  <2>5. front \in Seq(Steps)
    BY <1>11
  <2> HIDE DEF front, rest
  <2>6. QED
    BY <2>1, <2>2, <2>3, <2>4, <2>5, VoicedPut
<1>16. QED
  BY <1>14, <1>15

CreateInv ==
    /\ Visiting(creating, stack)
    /\ pc = "run" => InTurn(script) /\ Voiced(script)

\* It says the same once the call is made.
LEMMA SameTurns ==
    ASSUME UNCHANGED inputs
    PROVE  /\ \A list, path : Visiting(list, path) => Visiting(list, path)'
           /\ \A list : InTurn(list) => InTurn(list)'
           /\ \A list : Voiced(list) => Voiced(list)'
<1>1. /\ Added' = Added /\ target' = target /\ driver' = driver
  BY SameDifferences DEF inputs
<1>2. New' = New /\ \A t : Behind(t)' = Behind(t)
  BY <1>1 DEF New, Behind, Leading, References, OfKind
<1>3. Steps' = Steps
  BY <1>1 DEF Steps, Unsupported
<1>4. \A s, t : Clash(s, t)' <=> Clash(s, t)
  BY <1>1, <1>2 DEF Clash, References
<1>5. Turns' = Turns
  BY <1>3, <1>4 DEF Turns
<1>6. \A list, path : Visiting(list, path) => Visiting(list, path)'
  BY <1>1, <1>2 DEF Visiting, References
<1>7. \A list : InTurn(list) => InTurn(list)'
  BY <1>3, <1>5 DEF InTurn, Arranged
<1>8. \A list : Voiced(list) => Voiced(list)'
  BY <1>1 DEF Voiced
<1>9. QED
  BY <1>6, <1>7, <1>8

\* What is left of a script.
LEMMA TailInTurn ==
    ASSUME NEW list, InTurn(list), Voiced(list), list # << >>
    PROVE  InTurn(Tail(list)) /\ Voiced(Tail(list))
<1>1. list \in Seq(Steps) /\ Arranged(Turns, list)
  BY DEF InTurn
<1>2. PICK n \in Nat : DOMAIN list = 1 .. n /\ DOMAIN Tail(list) = 1 .. n - 1
                       /\ \A i \in 1 .. n - 1 : Tail(list)[i] = list[i + 1] /\ i + 1 \in 1 .. n
  BY <1>1, TailHas
<1>3. PICK rest : rest = Tail(list)
  OBVIOUS
<1>4. InTurn(rest)
  <2>1. ASSUME NEW i \in 1 .. n - 1, NEW j \in 1 .. n - 1, i < j
        PROVE  <<rest[i], rest[j]>> \in Turns
    <3>1. i + 1 \in 1 .. n /\ j + 1 \in 1 .. n /\ i + 1 < j + 1
      BY <1>2, <2>1
    <3>2. QED
      BY <1>1, <1>2, <1>3, <3>1 DEF Arranged
  <2>2. rest \in Seq(Steps)
    BY <1>1, <1>3
  <2>3. QED
    BY <1>2, <1>3, <2>1, <2>2 DEF InTurn, Arranged
<1>5. Voiced(rest)
  <2>1. SUFFICES ASSUME NEW i \in DOMAIN rest, rest[i].op = "create", rest[i].on.kind = "view",
                        NEW r \in OfKind(Added, "routine")
                 PROVE  \E j \in DOMAIN rest : i < j /\ rest[j] = [op |-> "text", on |-> r]
    BY DEF Voiced
  <2>2. DOMAIN rest = 1 .. n - 1
    BY <1>2, <1>3
  <2>3. i + 1 \in 1 .. n /\ rest[i] = list[i + 1]
    BY <1>2, <1>3, <2>2
  <2>4. PICK j \in 1 .. n : i + 1 < j /\ list[j] = [op |-> "text", on |-> r]
    BY <1>2, <2>1, <2>3 DEF Voiced
  <2>5. j - 1 \in 1 .. n - 1 /\ i < j - 1 /\ (j - 1) + 1 = j
    BY <1>2, <2>2, <2>4
  <2>6. rest[j - 1] = list[j]
    BY <1>2, <1>3, <2>5
  <2>7. QED
    BY <2>2, <2>4, <2>5, <2>6
<1>6. QED
  BY <1>3, <1>4, <1>5

\* Every step keeps the invariant.
LEMMA CreateInductive ==
    ASSUME MigrationInv, CreateInv, [SchemaNext]_schemaVars
    PROVE  CreateInv'
<1>1. ASSUME NEW from, NEW to, NEW permissions, pc = "call",
             Generate(from, to, permissions)
      PROVE  CreateInv'
  <2>1. creating' = << >> /\ stack' = << >> /\ pc' = "removed"
    BY <1>1 DEF MigrationInv, Blank, Generate
  <2>2. QED
    BY <2>1 DEF CreateInv, Visiting
<1>2. CASE SchemaMigrate
  <2>1. PICK family \in Families[driver] :
            \E prod, dev \in family, config \in Configs : Generate(prod, dev, Passed(config))
    BY <1>2 DEF SchemaMigrate
  <2>2. PICK prod \in family, dev \in family, config \in Configs :
            Generate(prod, dev, Passed(config))
    BY <2>1
  <2>3. QED
    BY <1>1, <1>2, <2>2 DEF SchemaMigrate
<1>3. CASE Rollback
  <2>1. PICK family \in Families[driver] : \E prod, dev \in family : Generate(dev, prod, {})
    BY <1>3 DEF Rollback
  <2>2. PICK prod \in family, dev \in family : Generate(dev, prod, {})
    BY <2>1
  <2>3. QED
    BY <1>1, <1>3, <2>2 DEF Rollback
<1>4. ASSUME UNCHANGED inputs, NEW list, list = creating', NEW path, path = stack',
             Visiting(list, path)
      PROVE  Visiting(creating, stack)'
  <2>1. Visiting(list, path)'
    BY <1>4, SameTurns
  <2>2. QED
    BY <1>4, <2>1
<1>5. Visiting(creating, stack) /\ MigrationTypeOK
  BY DEF CreateInv, MigrationInv
<1>6. CASE VisitNext \/ VisitDependency \/ Visited
  <2>1. Visiting(creating', stack')
    <3>1. CASE VisitNext
      <4>1. creating' = creating
        BY <3>1 DEF VisitNext
      <4>2. QED
        BY <1>5, <3>1, <4>1, VisitNextKeeps
    <3>2. CASE VisitDependency
      <4>1. creating' = creating
        BY <3>2 DEF VisitDependency
      <4>2. QED
        BY <1>5, <3>2, <4>1, VisitDependencyKeeps
    <3>3. CASE Visited
      BY <1>5, <3>3, VisitedKeeps
    <3>4. QED
      BY <1>6, <3>1, <3>2, <3>3
  <2>2. UNCHANGED inputs /\ pc' # "run"
    BY <1>6 DEF VisitNext, VisitDependency, Visited
  <2>3. Visiting(creating, stack)'
    BY <1>4, <2>1, <2>2
  <2>4. QED
    BY <2>2, <2>3 DEF CreateInv
<1>7. ASSUME UNCHANGED <<inputs, creating, stack>>, pc' # "run"
      PROVE  CreateInv'
  BY <1>4, <1>5, <1>7 DEF CreateInv
<1>8. CASE OrderRemoved \/ RemovedOrdered \/ Refuse \/ Finish
  <2>1. UNCHANGED <<inputs, creating, stack>> /\ pc' # "run"
    BY <1>8 DEF OrderRemoved, RemovedOrdered, Refuse, Finish
  <2>2. QED
    BY <1>7, <2>1
<1>9. ASSUME UNCHANGED <<inputs, creating, stack>>, NEW list, list = script',
             InTurn(list), Voiced(list)
      PROVE  CreateInv'
  <2>1. InTurn(list)' /\ Voiced(list)'
    BY <1>9, SameTurns
  <2>2. InTurn(script)' /\ Voiced(script)'
    BY <1>9, <2>1
  <2>3. QED
    BY <1>4, <1>5, <1>9, <2>2 DEF CreateInv
<1>10. CASE WriteScript
  <2>1. PICK walk \in SetToSeqs(Walked) : script' = Script(walk)
    BY <1>10 DEF WriteScript
  <2>2. UNCHANGED <<inputs, creating, stack>>
    BY <1>10 DEF WriteScript
  <2>3. PICK list : list = Script(walk)
    OBVIOUS
  <2>4. InTurn(list) /\ Voiced(list)
    BY <1>5, <2>3, ScriptInTurn
  <2>5. QED
    BY <1>9, <2>1, <2>2, <2>3, <2>4
<1>11. CASE Execute
  <2>1. pc = "run" /\ script # << >> /\ script' = Tail(script)
        /\ UNCHANGED <<inputs, creating, stack>>
    BY <1>11 DEF Execute
  <2>2. InTurn(Tail(script)) /\ Voiced(Tail(script))
    BY <2>1, TailInTurn DEF CreateInv
  <2>3. QED
    BY <1>9, <2>1, <2>2
<1>12. CASE UNCHANGED schemaVars
  <2>1. UNCHANGED <<inputs, creating, stack>> /\ pc' = pc /\ script' = script
    BY <1>12 DEF schemaVars
  <2>2. CASE pc = "run"
    BY <1>9, <2>1, <2>2 DEF CreateInv
  <2>3. CASE pc # "run"
    BY <1>7, <2>1, <2>3
  <2>4. QED
    BY <2>2, <2>3
<1>13. QED
  BY <1>2, <1>3, <1>6, <1>8, <1>10, <1>11, <1>12 DEF SchemaNext, Order

\* What the creation of an object needs: with a table, what its columns use.
LEMMA NeedKinds ==
    ASSUME MigrationTypeOK, NEW o \in DOMAIN target, NEW u \in Needs(o)
    PROVE  /\ u \in DOMAIN target /\ u \in Object /\ u \notin Brought(o)
           /\ o.kind # "sequence"
           /\ o.kind = "table" => u.kind = "sequence"
           /\ o.kind # "table" => u \in target[o].uses /\ u.kind \in Usable(o.kind)
           /\ o.kind \in {"index", "pk"} => u.table = o.table
<1>1. /\ WellFormed(target) /\ DOMAIN target \subseteq Object
  BY DEF MigrationTypeOK, Sound
<1>2. o.kind # "sequence"
  <2>1. o.kind = "sequence" => Needs(o) = {}
    BY DEF Needs
  <2>2. QED
    BY <2>1
<1>3. u \notin Brought(o) /\ \E v \in Brought(o) : u \in target[v].uses
  <2>1. u \in (UNION {target[w].uses : w \in Brought(o)}) \ Brought(o)
    BY <1>2 DEF Needs
  <2>2. QED
    BY <2>1
<1>4. PICK v \in Brought(o) : u \in target[v].uses
  BY <1>3
<1>5. v \in DOMAIN target
  BY <1>3, <1>4 DEF Brought
<1>6. u \in DOMAIN target /\ u.kind \in Usable(v.kind)
      /\ (v.kind \in {"index", "pk"} => u.table = v.table)
      /\ (v.kind = "table" => target[v].uses = {})
  BY <1>1, <1>4, <1>5 DEF WellFormed
<1>7. CASE o.kind # "table"
  <2>1. v = o
    BY <1>3, <1>4, <1>7 DEF Brought
  <2>2. QED
    BY <1>1, <1>2, <1>3, <1>4, <1>6, <1>7, <2>1
<1>8. CASE o.kind = "table"
  <2>1. CASE v = o
    BY <1>3, <1>4, <1>6, <1>8, <2>1
  <2>2. CASE v.kind = "column"
    BY <1>1, <1>2, <1>3, <1>6, <1>8, <2>2 DEF Usable
  <2>3. CASE v # o /\ v.kind = "pk"
    <3>1. PartOf(v, o)
      BY <1>3, <1>4, <2>3 DEF Brought
    <3>2. u.kind = "column" /\ u.table = o.table
      BY <1>6, <2>3, <3>1 DEF Usable, PartOf
    <3>3. u \in Brought(o)
      BY <1>6, <1>8, <3>2 DEF Brought, PartOf, Free
    <3>4. QED
      BY <1>3, <3>3
  <2>4. v = o \/ v.kind \in {"column", "pk"}
    BY <1>3, <1>4 DEF Brought
  <2>5. QED
    BY <2>1, <2>2, <2>3, <2>4
<1>9. QED
  BY <1>7, <1>8

\* What it needs and does not stand, a later statement creates, unless that is a
\* text, a column that is only mentioned, or nothing does.
LEMMA NeedIsComing ==
    ASSUME MigrationInv, ReachInv, CreateInv, NothingLostUnasked,
           pc = "run", script # << >>, Head(script).op = "create",
           NEW o, o = Head(script).on, NEW u \in Needs(o) \ DOMAIN db
    PROVE  \/ Skipped(u) \/ NotRestored(u)
           \/ o.kind = "view" /\ u.kind = "routine" /\ u \in Added
           \/ \E i \in DOMAIN script : i > 1 /\ script[i].op = "create" /\ u \in Brought(script[i].on)
<1>1. /\ script \in Seq(RightStatements) /\ MigrationTypeOK /\ granted \subseteq Grants
      /\ Reaching /\ script \in Seq(Steps)
  BY DEF MigrationInv, MigrationTypeOK, ReachInv, CreateInv, InTurn
<1>2. /\ DOMAIN script \subseteq Nat \ {0} /\ 1 \in DOMAIN script /\ Head(script) = script[1]
      /\ \A i \in DOMAIN script : script[i] \in RightStatements /\ script[i] \in Steps
  BY <1>1, TailHas
<1>3. o \in DOMAIN target /\ ~ Unsupported("create", o) /\ o.kind \notin {"routine", "trigger"}
  <2>1. script[1] \in RightStatements /\ script[1] \in Steps /\ script[1].op = "create"
    BY <1>2
  <2>2. QED
    BY <1>2, <2>1 DEF RightStatements, Right, Steps, Added, Renewed, Modified, Kept
<1>4. /\ u \in DOMAIN target /\ u \in Object /\ u \notin Brought(o) /\ u \notin DOMAIN db
      /\ u.kind \notin {"index", "fk", "trigger"}
      /\ u.kind = "pk" => o.kind = "fk"
      /\ u.kind = "routine" => o.kind = "view"
  <2>1. /\ u \in DOMAIN target /\ u \in Object /\ u \notin Brought(o)
        /\ o.kind = "table" => u.kind = "sequence"
        /\ o.kind # "table" => u.kind \in Usable(o.kind)
    BY <1>1, <1>3, NeedKinds
  <2>2. QED
    BY <1>3, <2>1 DEF Usable
<1>5. u \in DOMAIN source =>
          \/ u \in Modified /\ u.kind = "pk" /\ "pk" \in granted
          \/ u.kind \in {"pk", "sequence"} /\ \E c \in OfKind(source[u].uses, "column") : MayGo(c)
  <2>1. u.kind \notin Free => Owner(u) \in DOMAIN target
    BY <1>1, <1>4 DEF MigrationTypeOK, Sound, WellFormed
  <2>2. QED
    BY <1>4, <2>1 DEF NothingLostUnasked, Removed
<1>6. CASE Reviewed(u)
  <2>1. CASE u \in Modified /\ u.kind # "pk"
    <3>1. u \in DOMAIN source
      BY <2>1 DEF Modified, Kept
    <3>2. QED
      BY <1>5, <2>1, <3>1 DEF NotRestored
  <2>2. CASE u.kind = "pk" /\ ("pk" \notin granted \/ driver = "sqlite")
    <3>1. o.kind = "fk" /\ driver # "sqlite"
      BY <1>3, <1>4, <2>2 DEF Unsupported
    <3>2. QED
      BY <2>2, <3>1 DEF NotRestored
  <2>3. CASE u \in Added /\ u.kind = "routine"
    BY <1>4, <2>3
  <2>4. QED
    BY <1>4, <1>6, <2>1, <2>2, <2>3 DEF Reviewed
<1>7. CASE Coming(u)
  <2>1. PICK i \in DOMAIN script : Brings(script[i], u)
    BY <1>7 DEF Coming
  <2>2. script[i].op \in {"create", "alter"} /\ u \in Brought(script[i].on)
        /\ script[i] \in RightStatements
    BY <1>2, <2>1 DEF Brings
  <2>3. i > 1
    <3>1. i # 1
      BY <1>2, <1>4, <2>2
    <3>2. QED
      BY <1>2, <3>1
  <2>4. script[i].op # "alter"
    <3>1. SUFFICES ASSUME script[i].op = "alter" PROVE FALSE
      OBVIOUS
    <3>2. script[i].on \in Modified /\ script[i].on.kind \in {"column", "view"}
      BY <2>2, <3>1 DEF RightStatements, Right
    <3>3. u = script[i].on /\ u \in DOMAIN source
      BY <2>2, <3>2 DEF Brought, Modified, Kept
    <3>4. QED
      BY <1>5, <3>2, <3>3
  <2>5. QED
    BY <2>2, <2>3, <2>4
<1>8. CASE Settled(u)
  BY <1>4, <1>8 DEF Settled
<1>9. QED
  BY <1>1, <1>4, <1>6, <1>7, <1>8 DEF Reaching

\* And it is one of the kinds that may be missing.
LEMMA ComingIsAwaited ==
    ASSUME MigrationTypeOK, InTurn(script), NEW i \in DOMAIN script, i > 1,
           script[i].op = "create", script[1].op = "create",
           NEW o \in DOMAIN target, o = script[1].on, NEW u \in Needs(o), u \in Brought(script[i].on)
    PROVE  Awaited(o, u)
<1>1. script \in Seq(Steps) /\ Arranged(Turns, script)
  BY DEF InTurn
<1>2. 1 \in DOMAIN script /\ i \in Nat
  BY <1>1
<1>3. PICK x : x = script[i].on
  OBVIOUS
<1>4. ~ Clash(script[1], script[i]) /\ script[1] \in Steps
  <2>1. <<script[1], script[i]>> \in Turns
    BY <1>1, <1>2 DEF Arranged
  <2>2. QED
    BY <2>1 DEF Turns
<1>5. o.kind \notin {"routine", "trigger"} /\ o \in Object
  BY <1>4 DEF Steps, Statements
<1>6. /\ ~ (o.kind \in {"index", "fk", "pk"} /\ x.kind \in {"table", "column"} /\ o.table = x.table)
      /\ o.kind = "fk" /\ x.kind = "table" /\ x \in References(target, Owner(o))
             => x \in Behind(Owner(o))
      /\ ~ (o.kind = "view" /\ x.kind \in {"table", "column"})
  BY <1>3, <1>4 DEF Clash
<1>7. u = x \/ (x.kind = "table" /\ x.table = u.table /\ u.kind \in {"column", "pk"})
  BY <1>3 DEF Brought, PartOf
<1>8. /\ o.kind # "sequence" /\ u \in Object
      /\ o.kind = "table" => u.kind = "sequence"
      /\ o.kind # "table" => u \in target[o].uses /\ u.kind \in Usable(o.kind)
      /\ o.kind \in {"index", "pk"} => u.table = o.table
  BY NeedKinds
<1>9. CASE o.kind \in {"table", "column"}
  BY <1>8, <1>9 DEF Usable, Awaited
<1>10. CASE o.kind \in {"index", "pk"}
  BY <1>6, <1>7, <1>8, <1>10 DEF Usable
<1>11. CASE o.kind = "view"
  BY <1>6, <1>7, <1>8, <1>11 DEF Usable, Awaited
<1>12. CASE o.kind = "fk"
  <2>1. u.kind \in {"table", "column", "pk"} /\ u \in target[o].uses
    BY <1>8, <1>12 DEF Usable
  <2>2. CASE u.kind = "table"
    <3>1. u = x
      BY <1>7, <2>2
    <3>2. u # Owner(o)
      BY <1>6, <1>12, <2>2, <3>1 DEF Owner
    <3>3. u \in References(target, Owner(o))
      BY <1>12, <2>1, <2>2 DEF References, OfTable, OfKind, PartOf, Owner, Free
    <3>4. u \in Leading(target, OfKind(Added, "table"), Owner(o))
      BY <1>6, <1>12, <2>2, <3>1, <3>3 DEF Behind, New
    <3>5. QED
      BY <1>12, <2>2, <3>2, <3>4 DEF Awaited
  <2>3. CASE u.kind = "column"
    BY <1>6, <1>7, <1>12, <2>3 DEF Awaited
  <2>4. CASE u.kind = "pk"
    BY <1>12, <2>4 DEF Awaited
  <2>5. QED
    BY <2>1, <2>2, <2>3, <2>4
<1>13. QED
  BY <1>5, <1>8, <1>9, <1>10, <1>11, <1>12 DEF Object, Kinds, Free

\* Tables are found along their foreign keys, and the rest of the script creates in
\* that order: nothing comes before what it needs but for new tables on a cycle
\* with its own, and the texts of routines come after the views
\* (GetOrderedAddedTables, the sections of GenerateMigrationWithSchemas).
THEOREM CreateInvariant == SchemaSpec => []CreateInv
<1>1. SchemaInit => CreateInv
  BY DEF SchemaInit, CreateInv, Visiting
<1>2. MigrationInv /\ CreateInv /\ [SchemaNext]_schemaVars => CreateInv'
  BY CreateInductive
<1>3. QED
  BY <1>1, <1>2, MigrationInvariant, PTL DEF SchemaSpec

\* When the script creates an object, whatever that one uses stands, unless it is
\* one of the kinds that may be missing, and a later statement creates it or
\* nothing restores it, or it is a column that the script only mentions.
THEOREM CreatesInOrderHolds == SchemaSpec => []CreatesInOrder
<1>1. MigrationInv /\ ReachInv /\ CreateInv /\ NothingLostUnasked => CreatesInOrder
  <2>1. SUFFICES ASSUME MigrationInv, ReachInv, CreateInv, NothingLostUnasked,
                        pc = "run", script # << >>, Head(script).op = "create",
                        NEW o, o = Head(script).on, NEW u \in Needs(o) \ DOMAIN db
                 PROVE  Skipped(u) \/ (Awaited(o, u) /\ (Ahead(u) \/ NotRestored(u)))
    BY DEF CreatesInOrder
  <2>2. InTurn(script) /\ Voiced(script) /\ MigrationTypeOK /\ script \in Seq(RightStatements)
    BY <2>1 DEF CreateInv, MigrationInv, MigrationTypeOK
  <2>3. /\ 1 \in DOMAIN script /\ Head(script) = script[1]
        /\ script[1] \in RightStatements
        /\ script \in Seq(Steps)
    BY <2>1, <2>2, TailHas DEF InTurn
  <2>4. o \in DOMAIN target /\ o.kind \notin {"routine", "trigger"} /\ o.kind \in Kinds
    <3>1. script[1] \in Steps
      BY <2>3
    <3>2. QED
      BY <2>1, <2>3, <3>1
         DEF RightStatements, Right, Steps, Statements, Object, Added, Renewed, Modified, Kept
  <2>5. ASSUME NEW i \in DOMAIN script, i > 1, script[i].op \in {"create", "text"},
               u \in Brought(script[i].on)
        PROVE  Ahead(u)
    <3>1. i # 1 /\ i - 1 \in DOMAIN Tail(script) /\ Tail(script)[i - 1] = script[i]
      <4>1. i \in Nat /\ i # 1
        BY <2>2, <2>5
      <4>2. QED
        BY <2>1, <2>2, <4>1, TailHas
    <3>2. script[i] \in ToSet(Tail(script))
      BY <3>1 DEF ToSet
    <3>3. QED
      BY <2>5, <3>2 DEF Ahead
  <2>6. CASE NotRestored(u)
    <3>1. /\ o.kind = "table" => u.kind = "sequence"
          /\ o.kind # "table" => u.kind \in Usable(o.kind)
      BY <2>2, <2>4, NeedKinds
    <3>2. u.kind \in {"pk", "sequence"}
      BY <2>6 DEF NotRestored
    <3>3. u.kind = "pk" => o.kind = "fk"
      BY <3>1 DEF Usable
    <3>4. QED
      BY <2>6, <3>2, <3>3 DEF Awaited
  <2>7. CASE o.kind = "view" /\ u.kind = "routine" /\ u \in Added
    <3>1. script[1].op = "create" /\ script[1].on.kind = "view" /\ u \in OfKind(Added, "routine")
      BY <2>1, <2>3, <2>7 DEF OfKind
    <3>2. PICK j \in DOMAIN script : 1 < j /\ script[j] = [op |-> "text", on |-> u]
      BY <2>2, <2>3, <3>1 DEF Voiced
    <3>3. u \in Brought(script[j].on) /\ j > 1 /\ script[j].op = "text"
      BY <2>2, <3>2 DEF Brought
    <3>4. Ahead(u)
      BY <2>5, <3>3
    <3>5. QED
      BY <2>7, <3>4 DEF Awaited
  <2>8. CASE \E i \in DOMAIN script : i > 1 /\ script[i].op = "create" /\ u \in Brought(script[i].on)
    <3>1. PICK i \in DOMAIN script : i > 1 /\ script[i].op = "create" /\ u \in Brought(script[i].on)
      BY <2>8
    <3>2. Awaited(o, u)
      BY <2>1, <2>2, <2>3, <2>4, <3>1, ComingIsAwaited
    <3>3. QED
      BY <2>5, <3>1, <3>2
  <2>9. QED
    BY <2>1, <2>6, <2>7, <2>8, NeedIsComing
<1>2. QED
  BY <1>1, MigrationInvariant, ReachInvariant, CreateInvariant, NothingLostUnaskedHolds, PTL

==============================================================================
