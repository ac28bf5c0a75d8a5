----------------------------- MODULE ContentProofs ----------------------------
(***************************************************************************)
(* Proofs about what is done with the rows of tables: hashing them page by *)
(* page, for any number of key columns, any finite set of keys, any batch  *)
(* size and any number of writes of other clients (KeysetHash); and        *)
(* resolving the conflicts that are found, for any finite set of rows, any *)
(* tables and strategies, and any number of sessions (ResolveSession).     *)
(***************************************************************************)
EXTENDS KeysetHash, ResolveSession, TLAPS, FiniteSetTheorems, WellFoundedInduction

----------------------------------------------------------------------------
(* The least number of a set. *)

\* The order of the numbers, as a relation.
LEMMA LessIsWellFounded ==
    \E R : IsWellFoundedOn(R, Nat) /\ \A m, n \in Nat : m < n => <<m, n>> \in R
<1> WITNESS OpToRel(<, Nat)
<1>1. IsWellFoundedOn(OpToRel(<, Nat), Nat)
  BY NatLessThanWellFounded, Zenon
<1>2. ASSUME NEW m \in Nat, NEW n \in Nat, m < n
      PROVE <<m, n>> \in OpToRel(<, Nat)
  <2>1. <<m, n>> \in Nat \X Nat
    OBVIOUS
  <2> QED BY <1>2, <2>1, Zenon DEF OpToRel
<1> QED BY <1>1, <1>2, Zenon

\* Min is a least element.
LEMMA MinIsLeast ==
    ASSUME NEW S \in SUBSET Nat, S # {}
    PROVE  Min(S) \in S /\ \A n \in S : Min(S) <= n
<1>1. PICK R : IsWellFoundedOn(R, Nat) /\ \A m, n \in Nat : m < n => <<m, n>> \in R
  BY LessIsWellFounded
<1>2. IsWellFoundedOn(R, Nat)
  BY <1>1
<1>3. ASSUME NEW m \in Nat, NEW n \in Nat, <<m, n>> \notin R PROVE n <= m
  BY <1>1, <1>3
<1>4. S \subseteq Nat
  OBVIOUS
<1>5. \E m \in S : \A n \in S : ~ (<<n, m>> \in R)
  BY <1>2, <1>4, WFMin, Zenon
<1>6. PICK m \in S : \A n \in S : ~ (<<n, m>> \in R)
  BY <1>5
<1>7. \A n \in S : m <= n
  BY <1>3, <1>6
<1> QED BY <1>7 DEF Min

(***************************************************************************)
(* KeysetHash.                                                             *)
(***************************************************************************)

Points == [1 .. Columns -> Nat]

\* The keys whose place in a table the scan has read, or gone past.
Passed(s) ==
    IF s \in Scanned THEN Keys
    ELSE {k \in Keys : s = phase /\ cursor # NoCursor /\ ~ Follows(k, cursor)}

Present(s) == {k \in Keys : table[s][k] # Absent}

KeysetTypeOK ==
    /\ kind \in Kinds /\ batch \in BatchSizes
    /\ table \in [Sides -> [Keys -> Versions \cup {Absent}]]
    /\ phase \in {"prod", "dev", "done", "failed"}
    /\ cursor \in [1 .. Columns -> Nat] \cup {NoCursor}
    /\ batch = 0 => cursor = NoCursor
    /\ DOMAIN hashed = Sides
    /\ touched \in [Sides -> SUBSET Keys]
    /\ writes \in Nat
    /\ writes = 0 => touched = [s \in Sides |-> {}]

\* A hash of a row that nobody has written to is that of the row.
Sound(s) ==
    \A k \in Keys \ touched[s] :
        Alone(k) /\ CompositeKey(k) \in DOMAIN hashed[s] =>
            table[s][k] # Absent /\ hashed[s][CompositeKey(k)] = table[s][k]

\* The cursor has left no such row behind.
Complete(s) ==
    NeverLater =>
        \A k \in (Passed(s) \cap Present(s)) \ touched[s] :
            CompositeKey(k) \in DOMAIN hashed[s]

\* When nobody writes there are hashes of rows only, and the hash of a row is
\* hidden by that of a later one.
Quiet(s) ==
    writes = 0 =>
        /\ DOMAIN hashed[s] \subseteq {CompositeKey(k) : k \in Present(s)}
        /\ NeverLater =>
               \A k \in Passed(s) \cap Present(s) :
                   \/ hashed[s][CompositeKey(k)] = table[s][k]
                   \/ \E j \in Present(s) : /\ After(j, k)
                                            /\ CompositeKey(j) = CompositeKey(k)

KeysetInv ==
    /\ KeysetTypeOK
    /\ \A s \in Sides : Sound(s) /\ Complete(s) /\ Quiet(s)

----------------------------------------------------------------------------
(* The order of the keys. *)

\* The keys are points.
LEMMA KeysArePoints == Keys \subseteq Points
  BY KeysetAssumption DEF Points

\* The cursor's WHERE clause is the order of the ORDER BY.
LEMMA FollowsIsAfter == \A k, c : Follows(k, c) <=> After(k, c)
  BY DEF Follows, After

\* The order is transitive.
LEMMA AfterTransitive ==
    ASSUME NEW a \in Points, NEW b \in Points, NEW c \in Points,
           After(a, b), After(b, c)
    PROVE  After(a, c)
<1> USE DEF Points
<1>1. PICK i \in 1 .. Columns : a[i] > b[i] /\ \A h \in 1 .. i - 1 : a[h] = b[h]
  BY DEF After
<1>2. PICK j \in 1 .. Columns : b[j] > c[j] /\ \A h \in 1 .. j - 1 : b[h] = c[h]
  BY DEF After
<1>3. CASE i <= j
  <2>1. a[i] > c[i]
    BY <1>1, <1>2, <1>3
  <2>2. \A h \in 1 .. i - 1 : a[h] = c[h]
    BY <1>1, <1>2, <1>3
  <2> QED BY <2>1, <2>2 DEF After
<1>4. CASE j < i
  <2>1. a[j] > c[j]
    BY <1>1, <1>2, <1>4
  <2>2. \A h \in 1 .. j - 1 : a[h] = c[h]
    BY <1>1, <1>2, <1>4
  <2> QED BY <2>1, <2>2 DEF After
<1> QED BY <1>3, <1>4

\* No point is after itself.
LEMMA AfterIrreflexive ==
    ASSUME NEW a \in Points
    PROVE  ~ After(a, a)
  BY DEF After, Points

\* Points that differ do so in a first column.
LEMMA FirstDifference ==
    ASSUME NEW a \in Points, NEW b \in Points, a # b
    PROVE  \E i \in 1 .. Columns : a[i] # b[i] /\ \A h \in 1 .. i - 1 : a[h] = b[h]
<1> DEFINE S == {i \in 1 .. Columns : a[i] # b[i]}
<1>1. S # {} /\ S \in SUBSET Nat
  <2>1. \E i \in 1 .. Columns : a[i] # b[i]
    <3> SUFFICES ASSUME \A i \in 1 .. Columns : a[i] = b[i] PROVE FALSE
      OBVIOUS
    <3>1. a = [i \in 1 .. Columns |-> a[i]] /\ b = [i \in 1 .. Columns |-> b[i]]
      BY DEF Points
    <3>2. [i \in 1 .. Columns |-> a[i]] = [i \in 1 .. Columns |-> b[i]]
      OBVIOUS
    <3> QED BY <3>1, <3>2
  <2>2. 1 .. Columns \subseteq Nat
    BY KeysetAssumption
  <2> QED BY <2>1, <2>2
<1>2. Min(S) \in S /\ \A n \in S : Min(S) <= n
  BY <1>1, MinIsLeast
<1>3. \A h \in 1 .. Min(S) - 1 : h \in 1 .. Columns /\ h \notin S
  BY <1>2, KeysetAssumption
<1> QED BY <1>2, <1>3

\* Of two points one is after the other.
LEMMA AfterTotal ==
    ASSUME NEW a \in Points, NEW b \in Points, a # b
    PROVE  After(a, b) \/ After(b, a)
<1>1. PICK i \in 1 .. Columns : a[i] # b[i] /\ \A h \in 1 .. i - 1 : a[h] = b[h]
  BY FirstDifference
<1>2. a[i] > b[i] \/ b[i] > a[i]
  BY <1>1 DEF Points
<1> QED BY <1>1, <1>2 DEF After

\* What is read back of a key is a point that is not later in any column.
LEMMA WrittenIsNotLater ==
    ASSUME KeysetTypeOK, NEW k \in Keys
    PROVE  /\ Written(k) \in Points
           /\ NeverLater => \A i \in 1 .. Columns : Written(k)[i] <= k[i]
<1>1. \A i \in 1 .. Columns : k[i] \in Values /\ kind.written[k[i]] \in Nat
  BY KeysetAssumption DEF KeysetTypeOK
<1> QED BY <1>1 DEF Written, Points, NeverLater

\* So a key after the last one of a page follows the cursor made of it.
LEMMA LaterFollowsCursor ==
    ASSUME KeysetTypeOK, NeverLater, NEW j \in Keys, NEW k \in Keys, After(k, j)
    PROVE  Follows(k, Written(j))
<1> DEFINE c == Written(j)
<1>1. c \in Points /\ j \in Points /\ k \in Points
  BY WrittenIsNotLater, KeysArePoints
<1>2. \A h \in 1 .. Columns : c[h] <= j[h]
  BY WrittenIsNotLater
<1> HIDE DEF c
<1>3. PICK i \in 1 .. Columns : k[i] > j[i] /\ \A h \in 1 .. i - 1 : k[h] = j[h]
  BY DEF After
<1>4. c # k
  BY <1>1, <1>2, <1>3 DEF Points
<1>5. PICK m \in 1 .. Columns : k[m] # c[m] /\ \A h \in 1 .. m - 1 : k[h] = c[h]
  BY <1>1, <1>4, FirstDifference
<1>6. m <= i
  BY <1>1, <1>2, <1>3, <1>5 DEF Points
<1>7. k[m] > c[m]
  BY <1>1, <1>2, <1>3, <1>5, <1>6 DEF Points
<1> QED BY <1>5, <1>7 DEF Follows, c

----------------------------------------------------------------------------
(* Pages. *)

\* The rows before a row of the rest: what a page counts.
Before(s, k) == {j \in Rest(s) : After(k, j)}

\* All sets of keys are finite, and have a size.
LEMMA KeySetsAreFinite ==
    ASSUME NEW S \in SUBSET Keys
    PROVE  IsFiniteSet(S) /\ Cardinality(S) \in Nat
  BY FS_Subset, FS_CardinalityType, KeysetAssumption

\* Before an earlier row there are fewer.
LEMMA FewerBefore ==
    ASSUME NEW s \in Sides, NEW j \in Rest(s), NEW k \in Rest(s), After(k, j)
    PROVE  /\ Before(s, j) \subseteq Before(s, k)
           /\ Cardinality(Before(s, j)) < Cardinality(Before(s, k))
<1>1. Rest(s) \subseteq Keys /\ Keys \subseteq Points
  BY KeysArePoints DEF Rest
<1>2. Before(s, j) \subseteq Before(s, k)
  BY <1>1, AfterTransitive DEF Before
<1>3. j \in Before(s, k) /\ j \notin Before(s, j)
  BY <1>1, AfterIrreflexive DEF Before
<1>4. Before(s, k) \in SUBSET Keys /\ Before(s, j) \in SUBSET Keys
  BY <1>1 DEF Before
<1>5. /\ IsFiniteSet(Before(s, k))
      /\ Cardinality(Before(s, j)) \in Nat /\ Cardinality(Before(s, k)) \in Nat
  BY <1>4, KeySetsAreFinite
<1>6. /\ Cardinality(Before(s, j)) <= Cardinality(Before(s, k))
      /\ Cardinality(Before(s, j)) = Cardinality(Before(s, k)) =>
             Before(s, j) = Before(s, k)
  BY <1>2, <1>5, FS_Subset
<1> QED BY <1>2, <1>3, <1>5, <1>6

\* A row that is not on the page comes after all that are.
LEMMA PageComesFirst ==
    ASSUME NEW s \in Sides, batch \in Nat,
           NEW k \in Rest(s) \ Page(s), NEW j \in Page(s)
    PROVE  After(k, j)
<1>1. j \in Rest(s) /\ k \in Rest(s) /\ j # k
  BY DEF Page
<1>2. j \in Points /\ k \in Points
  BY <1>1, KeysArePoints DEF Rest
<1>3. Before(s, k) \in SUBSET Keys /\ Before(s, j) \in SUBSET Keys
  BY DEF Before, Rest
<1>4. Cardinality(Before(s, j)) \in Nat /\ Cardinality(Before(s, k)) \in Nat
  BY <1>3, KeySetsAreFinite
<1>5. Cardinality(Before(s, j)) < batch /\ ~ (Cardinality(Before(s, k)) < batch)
  BY <1>1 DEF Page, Before
<1>6. ~ After(j, k)
  BY <1>1, <1>4, <1>5, FewerBefore
<1> QED BY <1>1, <1>2, <1>6, AfterTotal

\* A page that is not full has all the rest.
LEMMA LastPageHasRest ==
    ASSUME NEW s \in Sides, batch \in Nat, IsLast(Page(s))
    PROVE  Page(s) = Rest(s)
<1> SUFFICES ASSUME Rest(s) \ Page(s) # {} PROVE FALSE
  BY DEF Page
<1> DEFINE Ranks == {Cardinality(Before(s, k)) : k \in Rest(s) \ Page(s)}
<1>1. \A k \in Rest(s) : Before(s, k) \in SUBSET Keys
  BY DEF Before, Rest
<1>2. \A k \in Rest(s) : Cardinality(Before(s, k)) \in Nat
  BY <1>1, KeySetsAreFinite
<1>3. Ranks # {} /\ Ranks \in SUBSET Nat
  BY <1>2
<1>4. Min(Ranks) \in Ranks /\ \A n \in Ranks : Min(Ranks) <= n
  BY <1>3, MinIsLeast
<1>5. PICK k \in Rest(s) \ Page(s) : Cardinality(Before(s, k)) = Min(Ranks)
  BY <1>4
<1>6. Before(s, k) \subseteq Page(s)
  <2> SUFFICES ASSUME NEW j \in Before(s, k), j \notin Page(s) PROVE FALSE
    OBVIOUS
  <2>1. j \in Rest(s) \ Page(s) /\ After(k, j)
    BY DEF Before
  <2>2. Cardinality(Before(s, j)) < Cardinality(Before(s, k))
    BY <2>1, FewerBefore
  <2>3. Cardinality(Before(s, j)) \in Ranks
    BY <2>1
  <2>4. Cardinality(Before(s, j)) \in Nat
    BY <1>2, <2>1
  <2> HIDE DEF Ranks
  <2> QED BY <1>2, <1>4, <1>5, <2>2, <2>3, <2>4
<1>7. Page(s) \in SUBSET Keys
  BY DEF Page, Rest
<1>8. Cardinality(Before(s, k)) <= Cardinality(Page(s))
  BY <1>6, <1>7, KeySetsAreFinite, FS_Subset
<1>9. ~ (Cardinality(Before(s, k)) < batch)
  BY DEF Page, Before
<1> QED BY <1>2, <1>7, <1>8, <1>9, KeySetsAreFinite DEF IsLast

\* A set of keys has a last one.
LEMMA LastRowIsLast ==
    ASSUME NEW S \in SUBSET Keys, S # {}
    PROVE  LastRow(S) \in S /\ \A j \in S \ {LastRow(S)} : After(LastRow(S), j)
<1> DEFINE Later(k) == {j \in S : After(j, k)}
           Ranks == {Cardinality(Later(k)) : k \in S}
<1>1. S \subseteq Points
  BY KeysArePoints
<1>2. \A k \in S : IsFiniteSet(Later(k)) /\ Cardinality(Later(k)) \in Nat
  <2> SUFFICES ASSUME NEW k \in S
               PROVE IsFiniteSet(Later(k)) /\ Cardinality(Later(k)) \in Nat
    OBVIOUS
  <2>1. Later(k) \in SUBSET Keys
    OBVIOUS
  <2> QED BY <2>1, KeySetsAreFinite
<1>3. Ranks # {} /\ Ranks \in SUBSET Nat
  BY <1>2
<1>4. Min(Ranks) \in Ranks /\ \A n \in Ranks : Min(Ranks) <= n
  BY <1>3, MinIsLeast
<1>5. PICK k \in S : Cardinality(Later(k)) = Min(Ranks)
  BY <1>4
<1>6. ASSUME NEW j \in S \ {k} PROVE After(k, j)
  <2> SUFFICES ASSUME After(j, k) PROVE FALSE
    BY <1>1, AfterTotal
  <2>1. Later(j) \subseteq Later(k)
    BY <1>1, AfterTransitive
  <2>2. j \in Later(k) /\ j \notin Later(j)
    BY <1>1, AfterIrreflexive
  <2>3. /\ Cardinality(Later(j)) <= Cardinality(Later(k))
        /\ Cardinality(Later(k)) = Cardinality(Later(j)) => Later(k) = Later(j)
    BY <1>2, <2>1, FS_Subset
  <2>4. Cardinality(Later(j)) \in Ranks
    OBVIOUS
  <2>5. Cardinality(Later(j)) < Cardinality(Later(k))
    <3> HIDE DEF Later
    <3> QED BY <1>2, <2>2, <2>3
  <2> HIDE DEF Later, Ranks
  <2> QED BY <1>2, <1>4, <1>5, <2>4, <2>5
<1>7. \E l \in S : \A j \in S \ {l} : After(l, j)
  BY <1>6
<1> QED BY <1>7 DEF LastRow

----------------------------------------------------------------------------
(* Reading a page keeps what is known of the side that is read. *)

\* The rows of a page that have one composite key.
On(page, n) == {k \in page : CompositeKey(k) = n}

\* The composite key of a row of the page has the hash of its last row there.
HashesOf(new, result, s, page) ==
    /\ DOMAIN new = DOMAIN result \cup {CompositeKey(k) : k \in page}
    /\ \A n \in DOMAIN new :
           IF On(page, n) # {}
             THEN \E l \in On(page, n) : /\ new[n] = table[s][l]
                                         /\ \A j \in On(page, n) \ {l} : After(l, j)
             ELSE n \in DOMAIN result /\ new[n] = result[n]

LEMMA HashOfPage ==
    ASSUME NEW s \in Sides, NEW page \in SUBSET Keys
    PROVE  HashesOf(WithPage(hashed[s], s, page), hashed[s], s, page)
<1> DEFINE result == hashed[s]
           new == WithPage(result, s, page)
<1>1. /\ DOMAIN new = DOMAIN result \cup {CompositeKey(k) : k \in page}
      /\ \A n \in DOMAIN new :
             new[n] = IF n \in {CompositeKey(k) : k \in page}
                        THEN table[s][LastRow(On(page, n))] ELSE result[n]
  <2> HIDE DEF result
  <2> QED BY DEF WithPage, On
<1>2. \A n : n \in {CompositeKey(k) : k \in page} <=> On(page, n) # {}
  BY DEF On
<1>3. ASSUME NEW n, On(page, n) # {}
      PROVE /\ LastRow(On(page, n)) \in On(page, n)
            /\ \A j \in On(page, n) \ {LastRow(On(page, n))} :
                   After(LastRow(On(page, n)), j)
  <2>1. On(page, n) \in SUBSET Keys
    BY DEF On
  <2> QED BY <1>3, <2>1, LastRowIsLast
<1> HIDE DEF new, result
<1> SUFFICES HashesOf(new, result, s, page)
  BY DEF new, result
<1>4. ASSUME NEW n \in DOMAIN new
      PROVE IF On(page, n) # {}
              THEN \E l \in On(page, n) : /\ new[n] = table[s][l]
                                          /\ \A j \in On(page, n) \ {l} : After(l, j)
              ELSE n \in DOMAIN result /\ new[n] = result[n]
  BY <1>1, <1>2, <1>3
<1> QED BY <1>1, <1>4 DEF HashesOf

\* While the keys are of one kind, they are spelled and read alike.
LEMMA SameKind ==
    ASSUME kind' = kind
    PROVE  /\ \A k : CompositeKey(k)' = CompositeKey(k)
           /\ \A k : Alone(k)' <=> Alone(k)
           /\ NeverLater' <=> NeverLater
  BY DEF CompositeKey, Alone, NeverLater

\* A read that takes in every row between the old cursor and the new one.
LEMMA ReadKeeps ==
    ASSUME KeysetInv, NEW s \in Sides, s = phase, NEW page \in SUBSET Rest(s),
           hashed' = [hashed EXCEPT ![s] = WithPage(@, s, page)],
           UNCHANGED <<kind, table, touched, writes>>,
           \A k \in Present(s) :
               NeverLater /\ k \in Passed(s)' => k \in Passed(s) \/ k \in page
    PROVE  Sound(s)' /\ Complete(s)' /\ Quiet(s)'
<1> DEFINE old == hashed[s]
           new == hashed'[s]
<1>1. page \in SUBSET Keys /\ page \subseteq Present(s)
  BY DEF Rest, Present
<1>2. new = WithPage(old, s, page)
  BY DEF KeysetInv, KeysetTypeOK
<1> HIDE DEF old, new
<1>3. /\ DOMAIN new = DOMAIN old \cup {CompositeKey(k) : k \in page}
      /\ \A n \in DOMAIN new :
             IF On(page, n) # {}
               THEN \E l \in On(page, n) : /\ new[n] = table[s][l]
                                           /\ \A j \in On(page, n) \ {l} : After(l, j)
               ELSE n \in DOMAIN old /\ new[n] = old[n]
  <2>1. HashesOf(WithPage(hashed[s], s, page), hashed[s], s, page)
    BY <1>1, HashOfPage
  <2>2. HashesOf(new, old, s, page)
    BY <1>2, <2>1 DEF old
  <2> QED BY <2>2 DEF HashesOf
<1>4. /\ \A k : CompositeKey(k)' = CompositeKey(k)
      /\ \A k : Alone(k)' <=> Alone(k)
      /\ NeverLater' <=> NeverLater
  BY SameKind
<1>5. Present(s)' = Present(s) /\ table'[s] = table[s] /\ touched'[s] = touched[s]
  BY DEF Present
<1>6. Sound(s)'
  <2> SUFFICES ASSUME NEW k \in Keys \ touched[s], Alone(k), CompositeKey(k) \in DOMAIN new
               PROVE  table[s][k] # Absent /\ new[CompositeKey(k)] = table[s][k]
    BY <1>4, <1>5 DEF Sound, new
  <2>1. CASE On(page, CompositeKey(k)) # {}
    <3>1. PICK l \in On(page, CompositeKey(k)) : new[CompositeKey(k)] = table[s][l]
      BY <1>3, <2>1
    <3>2. l = k /\ l \in Present(s)
      BY <1>1 DEF Alone, On
    <3> QED BY <3>1, <3>2 DEF Present
  <2>2. CASE On(page, CompositeKey(k)) = {}
    <3>1. CompositeKey(k) \in DOMAIN old /\ new[CompositeKey(k)] = old[CompositeKey(k)]
      BY <1>3, <2>2
    <3> QED BY <3>1 DEF KeysetInv, Sound, old
  <2> QED BY <2>1, <2>2
<1>7. Complete(s)'
  <2> SUFFICES ASSUME NeverLater, NEW k \in Passed(s)' \cap Present(s), k \notin touched[s]
               PROVE  CompositeKey(k) \in DOMAIN new
    BY <1>4, <1>5 DEF Complete, new
  <2>1. CASE k \in page
    BY <1>3, <2>1
  <2>2. CASE k \in Passed(s)
    <3>1. CompositeKey(k) \in DOMAIN old
      BY <2>2 DEF KeysetInv, Complete, old
    <3> QED BY <1>3, <3>1
  <2> QED BY <2>1, <2>2
<1>8. Quiet(s)'
  <2> SUFFICES ASSUME writes = 0 PROVE Quiet(s)'
    BY DEF Quiet
  <2>1. DOMAIN new \subseteq {CompositeKey(k) : k \in Present(s)}
    <3>1. DOMAIN old \subseteq {CompositeKey(k) : k \in Present(s)}
      BY DEF KeysetInv, Quiet, old
    <3> QED BY <1>1, <1>3, <3>1
  <2>2. ASSUME NeverLater, NEW k \in Passed(s)' \cap Present(s)
        PROVE  \/ new[CompositeKey(k)] = table[s][k]
               \/ \E j \in Present(s) : After(j, k) /\ CompositeKey(j) = CompositeKey(k)
    <3> DEFINE n == CompositeKey(k)
    <3>1. k \in Passed(s) \/ k \in page
      BY <2>2
    <3>2. CASE On(page, n) # {}
      <4>1. n \in DOMAIN new
        BY <1>3, <3>2 DEF On
      <4>2. PICK l \in On(page, n) : /\ new[n] = table[s][l]
                                     /\ \A j \in On(page, n) \ {l} : After(l, j)
        BY <1>3, <3>2, <4>1
      <4>3. l \in Present(s) /\ CompositeKey(l) = n /\ l \in Rest(s)
        BY <1>1 DEF On
      <4>4. CASE k \in page
        BY <4>2, <4>3, <4>4 DEF On
      <4>5. CASE k \in Passed(s)
        <5>1. cursor # NoCursor /\ ~ Follows(k, cursor) /\ k \in Keys
          BY <4>5 DEF Passed, Scanned, Sides
        <5>2. Follows(l, cursor) /\ l \in Keys
          BY <4>3, <5>1 DEF Rest
        <5>3. cursor \in Points /\ k \in Points /\ l \in Points
          BY <5>1, <5>2, KeysArePoints DEF KeysetInv, KeysetTypeOK, Points
        <5>4. After(l, cursor) /\ (k = cursor \/ After(cursor, k))
          BY <5>1, <5>2, <5>3, FollowsIsAfter, AfterTotal
        <5>5. After(l, k)
          BY <5>3, <5>4, AfterTransitive
        <5> QED BY <4>3, <5>5
      <4> QED BY <3>1, <4>4, <4>5
    <3>3. CASE On(page, n) = {}
      <4>1. k \notin page
        BY <3>3 DEF On
      <4>2. k \in Passed(s)
        BY <3>1, <4>1
      <4>3. k \notin touched[s] /\ k \in Keys
        BY <2>2 DEF KeysetInv, KeysetTypeOK, Present
      <4>4. n \in DOMAIN old
        BY <2>2, <4>2, <4>3 DEF KeysetInv, Complete, old
      <4>5. new[n] = old[n]
        BY <1>3, <3>3, <4>4
      <4>6. \/ old[n] = table[s][k]
            \/ \E j \in Present(s) : After(j, k) /\ CompositeKey(j) = CompositeKey(k)
        BY <2>2, <4>2 DEF KeysetInv, Quiet, old
      <4> QED BY <4>5, <4>6
    <3> QED BY <3>2, <3>3
  <2> QED BY <1>4, <1>5, <2>1, <2>2 DEF Quiet, new
<1> QED BY <1>6, <1>7, <1>8

\* A read leaves alone what is known of the other side.
LEMMA OtherSideKept ==
    ASSUME KeysetInv, NEW t \in Sides, hashed'[t] = hashed[t],
           UNCHANGED <<kind, table, touched, writes>>, Passed(t)' \subseteq Passed(t)
    PROVE  Sound(t)' /\ Complete(t)' /\ Quiet(t)'
<1>1. /\ \A k : CompositeKey(k)' = CompositeKey(k)
      /\ \A k : Alone(k)' <=> Alone(k)
      /\ NeverLater' <=> NeverLater
  BY SameKind
<1>2. Present(t)' = Present(t) /\ table'[t] = table[t] /\ touched'[t] = touched[t]
  BY DEF Present
<1>3. Sound(t) /\ Complete(t) /\ Quiet(t)
  BY DEF KeysetInv
<1>4. Sound(t)'
  BY <1>1, <1>2, <1>3 DEF Sound
<1>5. Complete(t)'
  BY <1>1, <1>2, <1>3 DEF Complete
<1>6. Quiet(t)'
  BY <1>1, <1>2, <1>3 DEF Quiet
<1> QED BY <1>4, <1>5, <1>6

\* So a read, after which the scan of this side goes on or is over, keeps all.
LEMMA ReadOfSideKeeps ==
    ASSUME KeysetInv, NEW s \in Sides, s = phase, NEW page \in SUBSET Rest(s),
           hashed' = [hashed EXCEPT ![s] = WithPage(@, s, page)],
           UNCHANGED <<kind, table, touched, writes>>,
           NextSide \/ phase' = phase,
           \A k \in Present(s) :
               NeverLater /\ k \in Passed(s)' => k \in Passed(s) \/ k \in page
    PROVE  \A t \in Sides : Sound(t)' /\ Complete(t)' /\ Quiet(t)'
<1>1. Sound(s)' /\ Complete(s)' /\ Quiet(s)'
  BY ReadKeeps
<1>2. ASSUME NEW t \in Sides \ {s} PROVE Sound(t)' /\ Complete(t)' /\ Quiet(t)'
  <2>1. hashed'[t] = hashed[t]
    BY DEF KeysetInv, KeysetTypeOK
  <2>2. Passed(t)' \subseteq Passed(t)
    BY DEF Passed, Scanned, NextSide, Sides
  <2> QED BY <2>1, <2>2, OtherSideKept
<1>3. ASSUME NEW t \in Sides PROVE Sound(t)' /\ Complete(t)' /\ Quiet(t)'
  <2>1. CASE t = s
    BY <1>1, <2>1
  <2>2. CASE t # s
    BY <1>2, <2>2
  <2> QED BY <2>1, <2>2
<1> QED BY <1>3

\* A read of all the rest leaves no row behind.
LEMMA RestIsAll ==
    ASSUME NEW s \in Sides, s = phase, NEW k \in Present(s), k \notin Passed(s)
    PROVE  k \in Rest(s)
  BY DEF Present, Passed, Rest

----------------------------------------------------------------------------
(* The steps. *)

LEMMA KeysetInitHolds == KeysetInit => KeysetInv
<1> SUFFICES ASSUME KeysetInit PROVE KeysetInv
  OBVIOUS
<1> USE DEF KeysetInit
<1>1. KeysetTypeOK
  BY DEF KeysetTypeOK
<1>2. ASSUME NEW s \in Sides PROVE Sound(s) /\ Complete(s) /\ Quiet(s)
  <2>1. DOMAIN hashed[s] = {} /\ Passed(s) = {}
    BY DEF Passed, Scanned
  <2> QED BY <2>1 DEF Sound, Complete, Quiet
<1> QED BY <1>1, <1>2 DEF KeysetInv

LEMMA NextPageKeeps ==
    ASSUME KeysetInv, NextPage
    PROVE  KeysetInv'
<1>1. PICK s \in Sides : s = phase
  BY DEF NextPage
<1> DEFINE page == Page(s)
<1>2. /\ batch \in Nat /\ batch > 0
      /\ hashed' = [hashed EXCEPT ![s] = WithPage(@, s, page)]
      /\ UNCHANGED <<kind, batch, table, touched, writes>>
  BY <1>1, KeysetAssumption DEF NextPage, KeysetInv, KeysetTypeOK
<1>3. KeysetTypeOK /\ page \in SUBSET Rest(s) /\ page \in SUBSET Keys
  BY DEF KeysetInv, Page, Rest
<1>4. \/ IsLast(page) /\ NextSide
      \/ /\ ~ IsLast(page) /\ phase' = phase
         /\ cursor' = IF page = {} THEN cursor ELSE Written(LastRow(page))
  BY <1>1 DEF NextPage
<1>5. page # {} => /\ LastRow(page) \in page
                   /\ \A j \in page \ {LastRow(page)} : After(LastRow(page), j)
  BY <1>3, LastRowIsLast
<1>6. page # {} => LastRow(page) \in Keys /\ Written(LastRow(page)) \in Points
  BY <1>3, <1>5, WrittenIsNotLater
<1>7. KeysetTypeOK'
  <2>1. cursor' \in [1 .. Columns -> Nat] \cup {NoCursor}
    BY <1>3, <1>4, <1>6 DEF NextSide, KeysetTypeOK, Points
  <2>2. phase' \in {"prod", "dev", "done", "failed"}
    BY <1>1, <1>4 DEF NextSide, Sides
  <2>3. DOMAIN hashed' = Sides
    BY <1>2, <1>3 DEF KeysetTypeOK
  <2> QED BY <1>2, <1>3, <2>1, <2>2, <2>3 DEF KeysetTypeOK
<1>8. ASSUME NEW k \in Present(s), NeverLater, k \in Passed(s)'
      PROVE  k \in Passed(s) \/ k \in page
  <2> SUFFICES ASSUME k \notin Passed(s), k \notin page PROVE FALSE
    OBVIOUS
  <2>1. k \in Rest(s) /\ k \in Keys
    BY <1>1, RestIsAll DEF Present
  <2>2. ~ IsLast(page)
    BY <1>2, <2>1, LastPageHasRest
  <2>3. page # {}
    BY <1>2, <2>2, FS_EmptySet DEF IsLast
  <2>4. After(k, LastRow(page))
    BY <1>2, <1>5, <2>1, <2>3, PageComesFirst
  <2>5. Follows(k, Written(LastRow(page)))
    BY <1>3, <1>6, <1>8, <2>1, <2>3, <2>4, LaterFollowsCursor
  <2>6. phase' = phase /\ cursor' = Written(LastRow(page))
    BY <1>4, <2>2, <2>3
  <2>7. ~ Follows(k, cursor')
    BY <1>1, <1>8, <2>6 DEF Passed, Scanned, Sides, Follows
  <2> QED BY <2>5, <2>6, <2>7
<1>9. \A t \in Sides : Sound(t)' /\ Complete(t)' /\ Quiet(t)'
  <2> HIDE DEF page
  <2>1. NextSide \/ phase' = phase
    BY <1>4
  <2> QED BY <1>1, <1>2, <1>3, <1>8, <2>1, ReadOfSideKeeps
<1> QED BY <1>7, <1>9 DEF KeysetInv

LEMMA WholeTableKeeps ==
    ASSUME KeysetInv, WholeTable
    PROVE  KeysetInv'
<1>1. PICK s \in Sides : s = phase
  BY DEF WholeTable
<1> DEFINE page == Rest(s)
<1>2. /\ KeysetTypeOK /\ NextSide
      /\ hashed' = [hashed EXCEPT ![s] = WithPage(@, s, page)]
      /\ UNCHANGED <<kind, batch, table, touched, writes>>
  BY <1>1 DEF WholeTable, KeysetInv
<1>3. KeysetTypeOK'
  BY <1>2 DEF NextSide, KeysetTypeOK, Sides
<1>4. \A k \in Present(s) : k \in Passed(s) \/ k \in page
  BY <1>1, RestIsAll
<1>5. \A t \in Sides : Sound(t)' /\ Complete(t)' /\ Quiet(t)'
  <2> HIDE DEF page
  <2>1. page \in SUBSET Rest(s)
    BY DEF page
  <2> QED BY <1>1, <1>2, <1>4, <2>1, ReadOfSideKeeps
<1> QED BY <1>3, <1>5 DEF KeysetInv

LEMMA QueryFailsKeeps ==
    ASSUME KeysetInv, QueryFails
    PROVE  KeysetInv'
<1>1. /\ phase' = "failed" /\ cursor' = NoCursor
      /\ hashed' = [s \in Sides |-> << >>]
      /\ UNCHANGED <<kind, batch, table, touched, writes>>
  BY DEF QueryFails
<1>2. KeysetTypeOK'
  BY <1>1 DEF KeysetInv, KeysetTypeOK
<1>3. ASSUME NEW s \in Sides PROVE Sound(s)' /\ Complete(s)' /\ Quiet(s)'
  <2>1. DOMAIN hashed'[s] = {} /\ Passed(s)' = {}
    BY <1>1 DEF Passed, Scanned
  <2> QED BY <2>1 DEF Sound, Complete, Quiet
<1> QED BY <1>2, <1>3 DEF KeysetInv

LEMMA OtherWritesKeeps ==
    ASSUME KeysetInv, OtherWrites
    PROVE  KeysetInv'
<1>1. PICK s \in Sides, k \in Keys, v \in Versions \cup {Absent} :
          /\ table' = [table EXCEPT ![s][k] = v]
          /\ touched' = [touched EXCEPT ![s] = @ \cup {k}]
  BY DEF OtherWrites
<1>2. writes' = writes + 1 /\ UNCHANGED <<kind, batch, phase, cursor, hashed>>
  BY DEF OtherWrites
<1>3. KeysetTypeOK
  BY DEF KeysetInv
<1>4. writes' # 0
  BY <1>2, <1>3 DEF KeysetTypeOK
<1>5. KeysetTypeOK'
  <2>1. table' \in [Sides -> [Keys -> Versions \cup {Absent}]]
    BY <1>1, <1>3 DEF KeysetTypeOK
  <2>2. touched' \in [Sides -> SUBSET Keys]
    BY <1>1, <1>3 DEF KeysetTypeOK
  <2>3. writes' \in Nat
    BY <1>2, <1>3 DEF KeysetTypeOK
  <2> QED BY <1>2, <1>3, <1>4, <2>1, <2>2, <2>3 DEF KeysetTypeOK
<1>6. ASSUME NEW t \in Sides PROVE Sound(t)' /\ Complete(t)' /\ Quiet(t)'
  <2>1. touched[t] \subseteq touched'[t]
    BY <1>1, <1>3 DEF KeysetTypeOK
  <2>2. \A j \in Keys \ touched'[t] : table'[t][j] = table[t][j]
    BY <1>1, <1>3 DEF KeysetTypeOK
  <2>3. /\ \A j : CompositeKey(j)' = CompositeKey(j)
        /\ \A j : Alone(j)' <=> Alone(j)
        /\ NeverLater' <=> NeverLater
    BY <1>2, SameKind
  <2>4. Sound(t) /\ Complete(t)
    BY DEF KeysetInv
  <2>5. Sound(t)'
    BY <1>2, <2>1, <2>2, <2>3, <2>4 DEF Sound
  <2>6. Passed(t)' = Passed(t)
    BY <1>2 DEF Passed, Scanned, Follows
  <2>7. Complete(t)'
    BY <1>2, <2>1, <2>2, <2>3, <2>4, <2>6 DEF Complete, Present
  <2>8. Quiet(t)'
    BY <1>4 DEF Quiet
  <2> QED BY <2>5, <2>7, <2>8
<1> QED BY <1>5, <1>6 DEF KeysetInv

LEMMA KeysetStutterKeeps ==
    ASSUME KeysetInv, UNCHANGED keysetVars
    PROVE  KeysetInv'
<1>1. UNCHANGED <<kind, batch, table, phase, cursor, hashed, touched, writes>>
  BY DEF keysetVars
<1>2. KeysetTypeOK'
  BY <1>1 DEF KeysetInv, KeysetTypeOK
<1>3. ASSUME NEW t \in Sides PROVE Sound(t)' /\ Complete(t)' /\ Quiet(t)'
  <2>1. Passed(t)' = Passed(t) /\ hashed'[t] = hashed[t]
    BY <1>1 DEF Passed, Scanned, Follows
  <2> QED BY <1>1, <2>1, OtherSideKept
<1> QED BY <1>2, <1>3 DEF KeysetInv

\* Of a side that was scanned, all keys are passed.
LEMMA KeysetInvariantIsEnough == KeysetInv => QuietScanIsFull /\ StableRowsJudged
<1> SUFFICES ASSUME KeysetInv PROVE QuietScanIsFull /\ StableRowsJudged
  OBVIOUS
<1>1. QuietScanIsFull
  <2> SUFFICES ASSUME NeverLater, writes = 0, NEW s \in Scanned
               PROVE  /\ DOMAIN hashed[s] = {CompositeKey(k) : k \in Present(s)}
                      /\ \A k \in Present(s) :
                             \/ hashed[s][CompositeKey(k)] = table[s][k]
                             \/ \E j \in Present(s) :
                                    /\ After(j, k)
                                    /\ CompositeKey(j) = CompositeKey(k)
    BY DEF QuietScanIsFull, Present
  <2>1. s \in Sides /\ Passed(s) = Keys /\ touched[s] = {}
    BY DEF Scanned, Passed, KeysetInv, KeysetTypeOK
  <2>2. Present(s) = Passed(s) \cap Present(s) /\ Present(s) = Present(s) \ touched[s]
    BY <2>1 DEF Present
  <2>3. Complete(s) /\ Quiet(s)
    BY <2>1 DEF KeysetInv
  <2>4. \A k \in Present(s) : CompositeKey(k) \in DOMAIN hashed[s]
    BY <2>2, <2>3 DEF Complete
  <2>5. DOMAIN hashed[s] \subseteq {CompositeKey(k) : k \in Present(s)}
    BY <2>3 DEF Quiet
  <2>6. \A k \in Present(s) :
            \/ hashed[s][CompositeKey(k)] = table[s][k]
            \/ \E j \in Present(s) : After(j, k) /\ CompositeKey(j) = CompositeKey(k)
    BY <2>2, <2>3 DEF Quiet
  <2> QED BY <2>4, <2>5, <2>6
<1>2. StableRowsJudged
  <2> SUFFICES ASSUME NeverLater, phase = "done",
                      NEW k \in Keys \ (touched["prod"] \cup touched["dev"]), Alone(k)
               PROVE  LET prod == table["prod"][k]
                          dev == table["dev"][k]
                          n == CompositeKey(k)
                      IN  /\ n \in Removed <=> prod # Absent /\ dev = Absent
                          /\ n \in Added <=> prod = Absent /\ dev # Absent
                          /\ n \in Updated <=> Absent \notin {prod, dev} /\ prod # dev
    BY DEF StableRowsJudged
  <2> DEFINE n == CompositeKey(k)
  <2>1. ASSUME NEW s \in Sides
        PROVE  /\ n \in DOMAIN hashed[s] <=> table[s][k] # Absent
               /\ n \in DOMAIN hashed[s] => hashed[s][n] = table[s][k]
    <3>1. Passed(s) = Keys /\ k \notin touched[s]
      BY <2>1 DEF Passed, Scanned, Sides
    <3>2. Sound(s) /\ Complete(s)
      BY <2>1 DEF KeysetInv
    <3>3. table[s][k] # Absent => n \in DOMAIN hashed[s]
      BY <3>1, <3>2 DEF Complete, Present
    <3>4. n \in DOMAIN hashed[s] => table[s][k] # Absent /\ hashed[s][n] = table[s][k]
      BY <3>1, <3>2 DEF Sound
    <3> QED BY <3>3, <3>4
  <2> HIDE DEF n
  <2>2. "prod" \in Sides /\ "dev" \in Sides
    BY DEF Sides
  <2>3. /\ n \in Removed <=> table["prod"][k] # Absent /\ table["dev"][k] = Absent
        /\ n \in Added <=> table["prod"][k] = Absent /\ table["dev"][k] # Absent
    BY <2>1, <2>2 DEF Removed, Added
  <2>4. n \in Updated <=>
            /\ Absent \notin {table["prod"][k], table["dev"][k]}
            /\ table["prod"][k] # table["dev"][k]
    BY <2>1, <2>2 DEF Updated
  <2> QED BY <2>3, <2>4 DEF n
<1> QED BY <1>1, <1>2

\* The invariant of the scan.
THEOREM KeysetInvariant == KeysetSpec => []KeysetInv
<1>1. KeysetInit => KeysetInv
  BY KeysetInitHolds
<1>2. KeysetInv /\ [KeysetNext]_keysetVars => KeysetInv'
  BY NextPageKeeps, WholeTableKeeps, QueryFailsKeeps, OtherWritesKeeps, KeysetStutterKeeps
     DEF KeysetNext, Scan
<1> QED BY <1>1, <1>2, PTL DEF KeysetSpec

\* When nobody writes, hashTableBatched returns the hashes of the whole table, for
\* every batch size, every primary key and every kind of column that is not read
\* back as a later value.
THEOREM QuietScanIsFullHolds == KeysetSpec => []QuietScanIsFull
  BY KeysetInvariant, KeysetInvariantIsEnough, PTL

\* DiffTableHashes judges a row that nobody writes to as it is, whatever others
\* write to other rows of both tables, and whenever.
THEOREM StableRowsJudgedHolds == KeysetSpec => []StableRowsJudged
  BY KeysetInvariant, KeysetInvariantIsEnough, PTL

(***************************************************************************)
(* ResolveSession.                                                         *)
(***************************************************************************)

Distinct(l) == \A i, j \in DOMAIN l : l[i] = l[j] => i = j

\* A list of conflicts: rows, each once.
IsList(l) ==
    /\ l \in Seq(Rows)
    /\ Distinct(l)

\* A file that parses holds decisions.
FileOK == Whole => \A r \in DOMAIN file : file[r] \in Decisions

ResolveTypeOK ==
    /\ IsList(conflicts)
    /\ IsList(list)
    /\ FileOK
    /\ decided \in [Members(list) -> Decisions]
    /\ index \in 1 .. Len(list) + 1
    /\ pc \in {"idle", "ask", "open", "write"}
    /\ next \in {"idle", "ask"}
    /\ mode \in {"none", "fresh", "resume", "auto"}

\* Who is asked, now or after the save, is asked about a row without a decision.
PendingShown ==
    pc = "ask" \/ next = "ask" =>
        index <= Len(list) /\ decided[list[index]] = "pending"

\* What was found and what was answered are decisions about rows of the list.
KeptOK == \A r \in DOMAIN kept : r \in Members(list) /\ kept[r] \in Answers
AnsweredOK ==
    \A r \in DOMAIN answered : r \in Members(list) /\ answered[r] \in Answers

ResolveInv ==
    /\ ResolveTypeOK
    /\ PendingShown
    /\ KeptOK
    /\ AnsweredOK
    /\ ResumeKeepsDecisions
    /\ AnswersStand
    /\ NothingOverlooked
    /\ DecisionsReachDisk

----------------------------------------------------------------------------
(* The operators: lists, and where the loop goes. *)

\* A list of as many rows as places has each row once.
LEMMA ListsAreLists ==
    ASSUME NEW l \in Lists
    PROVE  IsList(l)
<1>1. PICK n \in 0 .. Cardinality(Rows) : l \in [1 .. n -> Rows]
  BY DEF Lists
<1>2. Cardinality(Rows) \in Nat
  BY FS_CardinalityType, ResolveAssumption
<1>3. n \in Nat /\ l \in Seq(Rows) /\ Len(l) = n /\ DOMAIN l = 1 .. n
  BY <1>1, <1>2
<1>4. IsFiniteSet(1 .. n) /\ Cardinality(1 .. n) = n
  BY <1>3, FS_Interval
<1>5. Cardinality(Members(l)) = n
  BY <1>3 DEF Lists
<1>6. l \in Surjection(1 .. n, Members(l))
  BY <1>1, <1>3 DEF Surjection, Members
<1>7. l \in Injection(1 .. n, Members(l))
  BY <1>4, <1>5, <1>6, FS_SurjSameCardinalityImpliesInj
<1> QED BY <1>3, <1>7 DEF IsList, Distinct, Injection, IsInjective

\* The loop goes to the next pending row, or past the end, and passes none.
LEMMA AheadIsNext ==
    ASSUME NEW l \in Seq(Rows), NEW d, NEW i \in 1 .. Len(l) + 1
    PROVE  LET a == Ahead(l, d, i)
           IN  /\ a \in i .. Len(l) + 1
               /\ a <= Len(l) => d[l[a]] = "pending"
               /\ \A j \in i .. a - 1 : d[l[j]] # "pending"
<1> DEFINE S == {Len(l) + 1} \cup {j \in i .. Len(l) : d[l[j]] = "pending"}
<1>1. S \subseteq i .. Len(l) + 1 /\ S # {} /\ S \in SUBSET Nat
  OBVIOUS
<1>2. Min(S) \in S /\ \A n \in S : Min(S) <= n
  BY <1>1, MinIsLeast
<1>3. Ahead(l, d, i) = Min(S)
  BY DEF Ahead
<1> HIDE DEF S
<1>4. \A j \in i .. Min(S) - 1 : d[l[j]] # "pending"
  BY <1>1, <1>2 DEF S
<1>5. Min(S) <= Len(l) => d[l[Min(S)]] = "pending"
  BY <1>1, <1>2 DEF S
<1> QED BY <1>1, <1>2, <1>3, <1>4, <1>5

\* The rows up to the next table are of this one.
LEMMA PastTableIsNext ==
    ASSUME list \in Seq(Rows), index \in 1 .. Len(list)
    PROVE  /\ PastTable \in index .. Len(list) + 1
           /\ \A j \in index .. PastTable - 1 : TableOf[list[j]] = TableOf[Row]
<1> DEFINE S == {Len(list) + 1}
                  \cup {j \in index .. Len(list) : TableOf[list[j]] # TableOf[Row]}
<1>1. S \subseteq index .. Len(list) + 1 /\ S # {} /\ S \in SUBSET Nat
  OBVIOUS
<1>2. Min(S) \in S /\ \A n \in S : Min(S) <= n
  BY <1>1, MinIsLeast
<1>3. PastTable = Min(S)
  BY DEF PastTable
<1> HIDE DEF S
<1>4. \A j \in index .. Min(S) - 1 : TableOf[list[j]] = TableOf[Row]
  BY <1>1, <1>2 DEF S
<1> QED BY <1>1, <1>2, <1>3, <1>4

----------------------------------------------------------------------------
(* The invariant holds at first, and between the sessions. *)

\* The invariant says what the properties do.
LEMMA ResolveInvariantIsEnough ==
    ResolveInv => /\ ResumeKeepsDecisions /\ AnswersStand
                  /\ NothingOverlooked /\ DecisionsReachDisk
  BY DEF ResolveInv

\* An empty list is one.
LEMMA EmptyIsList == IsList(<< >>) /\ Members(<< >>) = {}
  BY DEF IsList, Distinct, Members

\* At first there is no session and no file.
LEMMA ResolveInitHolds == ResolveInit => ResolveInv
<1> SUFFICES ASSUME ResolveInit PROVE ResolveInv
  OBVIOUS
<1> USE DEF ResolveInit
<1>1. ResolveTypeOK
  BY EmptyIsList DEF ResolveTypeOK, FileOK, Whole
<1>2. PendingShown /\ KeptOK /\ AnsweredOK
  BY DEF PendingShown, KeptOK, AnsweredOK
<1>3. ResumeKeepsDecisions /\ AnswersStand /\ NothingOverlooked /\ DecisionsReachDisk
  BY DEF ResumeKeepsDecisions, AnswersStand, NothingOverlooked, DecisionsReachDisk
<1> QED BY <1>1, <1>2, <1>3 DEF ResolveInv

\* A session that ends leaves nothing in memory.
LEMMA ExitKeeps ==
    ASSUME ResolveInv, Exit, IsList(conflicts'), FileOK'
    PROVE  ResolveInv'
<1> USE DEF Exit
<1>1. ResolveTypeOK'
  BY EmptyIsList DEF ResolveTypeOK
<1>2. PendingShown' /\ KeptOK' /\ AnsweredOK'
  BY DEF PendingShown, KeptOK, AnsweredOK
<1>3. /\ ResumeKeepsDecisions' /\ AnswersStand'
      /\ NothingOverlooked' /\ DecisionsReachDisk'
  BY DEF ResumeKeepsDecisions, AnswersStand, NothingOverlooked, DecisionsReachDisk
<1> QED BY <1>1, <1>2, <1>3 DEF ResolveInv

\* diff and gen-pack write other conflicts, and touch no decision.
LEMMA NewConflictsKeep ==
    ASSUME ResolveInv, conflicts' \in Lists, UNCHANGED <<file, pc, local>>
    PROVE  ResolveInv'
<1> USE DEF local, ResolveInv
<1>1. IsList(conflicts')
  BY ListsAreLists
<1>2. ResolveTypeOK'
  BY <1>1 DEF ResolveTypeOK, FileOK, Whole
<1>3. PendingShown' /\ KeptOK' /\ AnsweredOK'
  BY DEF PendingShown, KeptOK, AnsweredOK
<1>4. /\ ResumeKeepsDecisions' /\ AnswersStand'
      /\ NothingOverlooked' /\ DecisionsReachDisk'
  BY DEF ResumeKeepsDecisions, AnswersStand, NothingOverlooked, DecisionsReachDisk, Whole
<1> QED BY <1>2, <1>3, <1>4

----------------------------------------------------------------------------
(* Starting a session. *)

\* What the ways to start have in common: the loop is at the first pending row.
LEMMA StartKeeps ==
    ASSUME ResolveInv, NEW m \in {"fresh", "resume", "auto"},
           NEW d \in [Members(conflicts) -> Decisions], NEW label \in {"ask", "open"},
           StartWith(m, d, label), KeptOK', ResumeKeepsDecisions',
           label = "ask" => \E r \in Members(conflicts) : d[r] = "pending"
    PROVE  ResolveInv'
<1> USE DEF StartWith
<1>1. conflicts \in Seq(Rows) /\ conflicts # << >> /\ IsList(conflicts)
  BY DEF ResolveInv, ResolveTypeOK, IsList
<1> DEFINE a == Ahead(conflicts, d, 1)
<1>2. /\ a \in 1 .. Len(conflicts) + 1
      /\ a <= Len(conflicts) => d[conflicts[a]] = "pending"
      /\ \A j \in 1 .. a - 1 : d[conflicts[j]] # "pending"
  BY <1>1, AheadIsNext
<1>3. /\ list' = conflicts /\ conflicts' = conflicts /\ decided' = d /\ index' = a
      /\ file' = file /\ next' = "idle" /\ pc' = label /\ mode' = m
      /\ answered' = << >> /\ passed' = {}
  OBVIOUS
<1> HIDE DEF a, StartWith
<1>4. ResolveTypeOK'
  BY <1>1, <1>2, <1>3 DEF ResolveInv, ResolveTypeOK, FileOK, Whole
<1>5. label = "ask" => a <= Len(conflicts)
  <2> SUFFICES ASSUME label = "ask", a = Len(conflicts) + 1 PROVE FALSE
    BY <1>2, <1>1
  <2>1. PICK i \in DOMAIN conflicts : d[conflicts[i]] = "pending"
    BY DEF Members
  <2> QED BY <1>1, <1>2, <2>1
<1>6. PendingShown'
  BY <1>2, <1>3, <1>5 DEF PendingShown
<1>7. AnsweredOK' /\ AnswersStand'
  BY <1>3 DEF AnsweredOK, AnswersStand
<1>8. NothingOverlooked'
  BY <1>2, <1>3 DEF NothingOverlooked
<1>9. DecisionsReachDisk'
  BY <1>3 DEF DecisionsReachDisk
<1> QED BY <1>4, <1>6, <1>7, <1>8, <1>9 DEF ResolveInv

\* A fresh session finds nothing decided.
LEMMA StartFreshKeeps ==
    ASSUME ResolveInv, StartFresh
    PROVE  ResolveInv'
<1> DEFINE d == [r \in Members(conflicts) |-> "pending"]
<1>1. StartWith("fresh", d, "ask") /\ kept' = << >>
  BY DEF StartFresh
<1>2. mode' = "fresh" /\ conflicts # << >>
  BY <1>1 DEF StartWith
<1>3. KeptOK' /\ ResumeKeepsDecisions'
  BY <1>1, <1>2 DEF KeptOK, ResumeKeepsDecisions
<1>4. \E r \in Members(conflicts) : d[r] = "pending"
  <2>1. 1 \in DOMAIN conflicts
    BY <1>2 DEF ResolveInv, ResolveTypeOK, IsList
  <2> QED BY <2>1 DEF Members
<1>5. d \in [Members(conflicts) -> Decisions]
  BY DEF Decisions
<1> HIDE DEF d
<1> QED BY <1>1, <1>3, <1>4, <1>5, StartKeeps

\* A resumed one has the decisions of the file for the rows that it still has.
LEMMA StartResumedKeeps ==
    ASSUME ResolveInv, StartResumed
    PROVE  ResolveInv'
<1> DEFINE d == Merged(conflicts)
<1>1. StartWith("resume", d, "ask")
  BY DEF StartResumed
<1>2. mode' = "resume" /\ decided' = d /\ list' = conflicts /\ file' = file
  BY <1>1 DEF StartWith
<1>3. DOMAIN kept' = {r \in Members(conflicts) :
                         Whole /\ r \in DOMAIN file /\ file[r] # "pending"}
      /\ \A r \in DOMAIN kept' : kept'[r] = file[r]
  BY DEF StartResumed
<1>4. FileOK
  BY DEF ResolveInv, ResolveTypeOK
<1>5. d \in [Members(conflicts) -> Decisions]
  BY <1>4 DEF Merged, FileOK, Decisions
<1>6. KeptOK'
  BY <1>2, <1>3, <1>4 DEF KeptOK, FileOK, Answers
<1>7. ResumeKeepsDecisions'
  BY <1>2, <1>3 DEF ResumeKeepsDecisions, Merged, Whole
<1>8. \E r \in Members(conflicts) : d[r] = "pending"
  BY DEF StartResumed
<1> HIDE DEF d
<1> QED BY <1>1, <1>5, <1>6, <1>7, <1>8, StartKeeps

\* The configuration has a decision for each table.
LEMMA ConfiguredIsTyped ==
    ASSUME NEW rows \in SUBSET Rows
    PROVE  Configured(rows) \in [rows -> Decisions]
  BY ResolveAssumption DEF Configured, DecisionOf, Decisions

\* An automatic session asks nobody.
LEMMA StartAutoKeeps ==
    ASSUME ResolveInv, StartAuto
    PROVE  ResolveInv'
<1> DEFINE d == Configured(Members(conflicts))
<1>1. StartWith("auto", d, "open") /\ kept' = << >>
  BY DEF StartAuto
<1>2. mode' = "auto"
  BY <1>1 DEF StartWith
<1>3. KeptOK' /\ ResumeKeepsDecisions'
  BY <1>1, <1>2 DEF KeptOK, ResumeKeepsDecisions
<1>4. d \in [Members(conflicts) -> Decisions]
  <2>1. Members(conflicts) \in SUBSET Rows
    BY DEF ResolveInv, ResolveTypeOK, IsList, Members
  <2> QED BY <2>1, ConfiguredIsTyped
<1> HIDE DEF d
<1> QED BY <1>1, <1>3, <1>4, StartKeeps

----------------------------------------------------------------------------
(* The prompt. *)

\* The row that is shown has no decision yet.
LEMMA ShownIsPending ==
    ASSUME ResolveInv, pc = "ask"
    PROVE  /\ index \in 1 .. Len(list) /\ list \in Seq(Rows)
           /\ Row \in Members(list) /\ decided[Row] = "pending"
<1>1. index \in 1 .. Len(list) /\ decided[Row] = "pending" /\ list \in Seq(Rows)
  BY DEF ResolveInv, ResolveTypeOK, IsList, PendingShown, Row
<1>2. Row \in Members(list)
  BY <1>1 DEF Members, Row
<1> QED BY <1>1, <1>2

\* What all answers have in common: no decision is taken back, and the loop
\* leaves no pending row behind that was not passed.
LEMMA AnswerKeeps ==
    ASSUME ResolveInv, pc = "ask",
           NEW d \in [Members(list) -> Decisions],
           NEW i \in index .. Len(list) + 1,
           \A r \in Members(list) : decided[r] # "pending" => d[r] = decided[r],
           \A j \in index .. i - 1 : d[list[j]] # "pending" \/ list[j] \in passed',
           passed \subseteq passed',
           SaveThen(d, i), AnsweredOK', AnswersStand',
           UNCHANGED <<conflicts, file, mode, list, kept>>
    PROVE  ResolveInv'
<1>1. index \in 1 .. Len(list) /\ list \in Seq(Rows)
  BY ShownIsPending
<1> DEFINE a == Ahead(list, d, i)
<1>2. /\ a \in i .. Len(list) + 1
      /\ a <= Len(list) => d[list[a]] = "pending"
      /\ \A j \in i .. a - 1 : d[list[j]] # "pending"
  BY <1>1, AheadIsNext
<1>3. /\ index' = a /\ decided' = d /\ pc' = "open"
      /\ next' = IF a > Len(list) THEN "idle" ELSE "ask"
  BY DEF SaveThen
<1> HIDE DEF a
<1>4. ResolveTypeOK'
  BY <1>1, <1>2, <1>3 DEF ResolveInv, ResolveTypeOK, FileOK, Whole
<1>5. PendingShown'
  BY <1>1, <1>2, <1>3 DEF PendingShown
<1>6. KeptOK' /\ ResumeKeepsDecisions'
  <2>1. KeptOK'
    BY DEF ResolveInv, KeptOK
  <2>2. ASSUME mode = "resume", NEW r \in DOMAIN kept
        PROVE  d[r] = kept[r]
    BY <2>2 DEF ResolveInv, KeptOK, ResumeKeepsDecisions, Answers
  <2> QED BY <1>3, <2>1, <2>2 DEF ResolveInv, ResumeKeepsDecisions, Whole
<1>7. NothingOverlooked'
  <2> SUFFICES ASSUME mode \in {"fresh", "resume"}, NEW j \in 1 .. a - 1
               PROVE  d[list[j]] # "pending" \/ list[j] \in passed'
    BY <1>3 DEF NothingOverlooked
  <2>1. CASE j < index
    <3>1. j \in 1 .. index - 1 /\ list[j] \in Members(list)
      BY <1>1, <2>1 DEF Members
    <3>2. decided[list[j]] # "pending" \/ list[j] \in passed
      BY <3>1 DEF ResolveInv, NothingOverlooked
    <3> QED BY <3>1, <3>2
  <2>2. CASE j \in index .. i - 1
    BY <2>2
  <2>3. CASE j \in i .. a - 1
    BY <1>2, <2>3
  <2> QED BY <1>1, <1>2, <2>1, <2>2, <2>3
<1>8. DecisionsReachDisk'
  BY <1>3 DEF DecisionsReachDisk
<1> QED BY <1>4, <1>5, <1>6, <1>7, <1>8 DEF ResolveInv

\* An answer for a row decides that row.
LEMMA AnswerRowKeeps ==
    ASSUME ResolveInv, NEW c \in Answers, AnswerRow(c)
    PROVE  ResolveInv'
<1> DEFINE d == [decided EXCEPT ![Row] = c]
<1>1. pc = "ask" /\ SaveThen(d, index + 1)
  BY DEF AnswerRow, Prompted
<1>2. /\ index \in 1 .. Len(list) /\ list \in Seq(Rows)
      /\ Row \in Members(list) /\ decided[Row] = "pending"
  BY <1>1, ShownIsPending
<1>3. decided \in [Members(list) -> Decisions]
  BY DEF ResolveInv, ResolveTypeOK
<1>4. /\ d \in [Members(list) -> Decisions]
      /\ \A r \in Members(list) : decided[r] # "pending" => d[r] = decided[r]
      /\ d[Row] = c
  BY <1>2, <1>3 DEF Decisions, Answers
<1>5. UNCHANGED <<conflicts, file, mode, list, kept, passed>> /\ decided' = d
  BY <1>1 DEF AnswerRow, SaveThen
<1>6. /\ DOMAIN answered' = DOMAIN answered \cup {Row}
      /\ \A r \in DOMAIN answered' : answered'[r] = IF r = Row THEN c ELSE answered[r]
  BY DEF AnswerRow
<1>7. AnsweredOK'
  BY <1>2, <1>5, <1>6 DEF ResolveInv, AnsweredOK
<1>8. AnswersStand'
  <2> SUFFICES ASSUME NEW r \in DOMAIN answered' PROVE d[r] = answered'[r]
    BY <1>5 DEF AnswersStand
  <2>1. CASE r = Row
    BY <1>4, <1>6, <2>1
  <2>2. CASE r # Row
    BY <1>3, <1>6, <2>2 DEF ResolveInv, AnsweredOK, AnswersStand
  <2> QED BY <2>1, <2>2
<1>9. \A j \in index .. index + 1 - 1 : d[list[j]] # "pending"
  BY <1>2, <1>4 DEF Row, Answers
<1> HIDE DEF d
<1> QED BY <1>1, <1>2, <1>4, <1>5, <1>7, <1>8, <1>9, AnswerKeeps

\* A skipped row is passed.
LEMMA SkipKeeps ==
    ASSUME ResolveInv, Skip
    PROVE  ResolveInv'
<1>1. pc = "ask" /\ SaveThen(decided, index + 1) /\ passed' = passed \cup {Row}
      /\ UNCHANGED <<conflicts, file, mode, list, kept, answered>>
  BY DEF Skip, Prompted
<1>2. index \in 1 .. Len(list) /\ list \in Seq(Rows)
  BY <1>1, ShownIsPending
<1>3. decided \in [Members(list) -> Decisions]
  BY DEF ResolveInv, ResolveTypeOK
<1>4. \A j \in index .. index + 1 - 1 : list[j] \in passed'
  BY <1>1, <1>2 DEF Row
<1>5. decided' = decided
  BY <1>1 DEF SaveThen
<1>6. AnsweredOK' /\ AnswersStand'
  BY <1>1, <1>5 DEF ResolveInv, AnsweredOK, AnswersStand
<1> QED BY <1>1, <1>2, <1>3, <1>4, <1>6, AnswerKeeps

\* A bulk answer decides what is pending among its rows, and no other row.
LEMMA BulkDecides ==
    ASSUME ResolveInv, NEW rows \in SUBSET Members(list), NEW c \in Answers
    PROVE  /\ Bulk(rows, c) \in [Members(list) -> Decisions]
           /\ \A r \in Members(list) :
                  decided[r] # "pending" => Bulk(rows, c)[r] = decided[r]
           /\ \A r \in rows : Bulk(rows, c)[r] # "pending"
<1>1. decided \in [Members(list) -> Decisions]
  BY DEF ResolveInv, ResolveTypeOK
<1> QED BY <1>1 DEF Bulk, Decisions, Answers

\* A bulk answer takes back no answer for a row.
LEMMA BulkKeepsAnswers ==
    ASSUME ResolveInv, NEW rows \in SUBSET Members(list), NEW c \in Answers,
           decided' = Bulk(rows, c), UNCHANGED <<list, answered>>
    PROVE  AnsweredOK' /\ AnswersStand'
<1>1. ASSUME NEW r \in DOMAIN answered PROVE Bulk(rows, c)[r] = answered[r]
  <2>1. r \in Members(list) /\ answered[r] # "pending" /\ decided[r] = answered[r]
    BY DEF ResolveInv, AnsweredOK, AnswersStand, Answers
  <2> QED BY <2>1, BulkDecides
<1> QED BY <1>1 DEF ResolveInv, AnsweredOK, AnswersStand

\* An answer for the table of the row decides the rows that are passed over.
LEMMA AnswerTableKeeps ==
    ASSUME ResolveInv, NEW c \in Answers, AnswerTable(c)
    PROVE  ResolveInv'
<1> DEFINE rows == {r \in Members(list) : TableOf[r] = TableOf[Row]}
           d == Bulk(rows, c)
<1>1. pc = "ask" /\ SaveThen(d, PastTable)
      /\ UNCHANGED <<conflicts, file, mode, list, kept, passed, answered>>
  BY DEF AnswerTable, Prompted
<1>2. index \in 1 .. Len(list) /\ list \in Seq(Rows)
  BY <1>1, ShownIsPending
<1>3. /\ PastTable \in index .. Len(list) + 1
      /\ \A j \in index .. PastTable - 1 : TableOf[list[j]] = TableOf[Row]
  BY <1>2, PastTableIsNext
<1>4. rows \in SUBSET Members(list)
  OBVIOUS
<1>5. \A j \in index .. PastTable - 1 : list[j] \in rows
  BY <1>2, <1>3 DEF Members
<1>6. decided' = d
  BY <1>1 DEF SaveThen
<1> HIDE DEF rows
<1>7. /\ d \in [Members(list) -> Decisions]
      /\ \A r \in Members(list) : decided[r] # "pending" => d[r] = decided[r]
      /\ \A r \in rows : d[r] # "pending"
  BY <1>4, BulkDecides
<1>8. AnsweredOK' /\ AnswersStand'
  BY <1>1, <1>4, <1>6, BulkKeepsAnswers
<1> HIDE DEF d
<1>9. \A j \in index .. PastTable - 1 : d[list[j]] # "pending" \/ list[j] \in passed'
  BY <1>5, <1>7
<1> QED BY <1>1, <1>3, <1>7, <1>8, <1>9, AnswerKeeps

\* An answer for all decides every row, and the loop is at its end.
LEMMA AnswerAllKeeps ==
    ASSUME ResolveInv, NEW c \in Answers, AnswerAll(c)
    PROVE  ResolveInv'
<1> DEFINE d == Bulk(Members(list), c)
<1>1. pc = "ask" /\ SaveThen(d, Len(list) + 1)
      /\ UNCHANGED <<conflicts, file, mode, list, kept, passed, answered>>
  BY DEF AnswerAll, Prompted
<1>2. index \in 1 .. Len(list) /\ list \in Seq(Rows)
  BY <1>1, ShownIsPending
<1>3. decided' = d
  BY <1>1 DEF SaveThen
<1>4. /\ d \in [Members(list) -> Decisions]
      /\ \A r \in Members(list) : decided[r] # "pending" => d[r] = decided[r]
      /\ \A r \in Members(list) : d[r] # "pending"
  BY BulkDecides
<1>5. AnsweredOK' /\ AnswersStand'
  BY <1>1, <1>3, BulkKeepsAnswers
<1>6. \A j \in index .. Len(list) + 1 - 1 : list[j] \in Members(list)
  BY <1>2 DEF Members
<1> HIDE DEF d
<1>7. \A j \in index .. Len(list) + 1 - 1 : d[list[j]] # "pending" \/ list[j] \in passed'
  BY <1>4, <1>6
<1>8. Len(list) + 1 \in index .. Len(list) + 1
  BY <1>2
<1> QED BY <1>1, <1>4, <1>5, <1>7, <1>8, AnswerKeeps

\* Quitting saves what is decided.
LEMMA QuitKeeps ==
    ASSUME ResolveInv, Quit
    PROVE  ResolveInv'
<1> USE DEF Quit, ResolveInv
<1>1. ResolveTypeOK'
  BY DEF ResolveTypeOK, FileOK, Whole
<1>2. PendingShown' /\ KeptOK' /\ AnsweredOK'
  BY DEF PendingShown, KeptOK, AnsweredOK
<1>3. /\ ResumeKeepsDecisions' /\ AnswersStand'
      /\ NothingOverlooked' /\ DecisionsReachDisk'
  BY DEF ResumeKeepsDecisions, AnswersStand, NothingOverlooked, DecisionsReachDisk, Whole
<1> QED BY <1>1, <1>2, <1>3

\* A row that cannot be fetched is passed.
LEMMA FetchFailsKeeps ==
    ASSUME ResolveInv, FetchFails
    PROVE  ResolveInv'
<1>1. index \in 1 .. Len(list) /\ list \in Seq(Rows)
  BY ShownIsPending DEF FetchFails
<1> DEFINE a == Ahead(list, decided, index + 1)
<1>2. /\ a \in index + 1 .. Len(list) + 1
      /\ a <= Len(list) => decided[list[a]] = "pending"
      /\ \A j \in index + 1 .. a - 1 : decided[list[j]] # "pending"
  BY <1>1, AheadIsNext
<1>3. /\ index' = a /\ a <= Len(list) /\ passed' = passed \cup {Row}
      /\ UNCHANGED <<conflicts, file, pc, mode, list, decided, next, kept,
                     answered, unsaved>>
  BY DEF FetchFails
<1> HIDE DEF a
<1>4. ResolveTypeOK'
  BY <1>1, <1>2, <1>3 DEF ResolveInv, ResolveTypeOK, FileOK, Whole
<1>5. PendingShown' /\ KeptOK' /\ AnsweredOK'
  BY <1>2, <1>3 DEF ResolveInv, PendingShown, KeptOK, AnsweredOK
<1>6. ResumeKeepsDecisions' /\ AnswersStand' /\ DecisionsReachDisk'
  BY <1>3 DEF ResolveInv, ResumeKeepsDecisions, AnswersStand, DecisionsReachDisk, Whole
<1>7. NothingOverlooked'
  <2> SUFFICES ASSUME mode \in {"fresh", "resume"}, NEW j \in 1 .. a - 1
               PROVE  decided[list[j]] # "pending" \/ list[j] \in passed'
    BY <1>3 DEF NothingOverlooked
  <2>1. CASE j < index
    <3>1. j \in 1 .. index - 1
      BY <1>1, <2>1
    <3> QED BY <1>3, <3>1 DEF ResolveInv, NothingOverlooked
  <2>2. CASE j = index
    BY <1>3, <2>2 DEF Row
  <2>3. CASE j \in index + 1 .. a - 1
    BY <1>2, <2>3
  <2> QED BY <1>1, <1>2, <2>1, <2>2, <2>3
<1> QED BY <1>4, <1>5, <1>6, <1>7 DEF ResolveInv

\* The end of the input changes no decision.
LEMMA InputEndsKeeps ==
    ASSUME ResolveInv, InputEnds
    PROVE  ResolveInv'
<1> USE DEF InputEnds, ResolveInv
<1>1. ResolveTypeOK'
  BY DEF ResolveTypeOK, FileOK, Whole
<1>2. PendingShown' /\ KeptOK' /\ AnsweredOK'
  BY DEF PendingShown, KeptOK, AnsweredOK
<1>3. /\ ResumeKeepsDecisions' /\ AnswersStand'
      /\ NothingOverlooked' /\ DecisionsReachDisk'
  BY DEF ResumeKeepsDecisions, AnswersStand, NothingOverlooked, DecisionsReachDisk, Whole
<1> QED BY <1>1, <1>2, <1>3

----------------------------------------------------------------------------
(* Saving, and the end of a session. *)

\* Opening the file leaves no decision in it to contradict one in memory.
LEMMA OpenKeeps ==
    ASSUME ResolveInv, Open
    PROVE  ResolveInv'
<1> USE DEF Open, ResolveInv, local
<1>1. ResolveTypeOK'
  BY DEF ResolveTypeOK, FileOK, Whole
<1>2. PendingShown' /\ KeptOK' /\ AnsweredOK'
  BY DEF PendingShown, KeptOK, AnsweredOK
<1>3. /\ ResumeKeepsDecisions' /\ AnswersStand'
      /\ NothingOverlooked' /\ DecisionsReachDisk'
  BY DEF ResumeKeepsDecisions, AnswersStand, NothingOverlooked, DecisionsReachDisk, Whole
<1> QED BY <1>1, <1>2, <1>3

\* After the save the loop goes on, with the file as it is, or the session ends.
LEMMA GoOnKeeps ==
    ASSUME ResolveInv, NEW failed \in BOOLEAN, GoOn(failed),
           UNCHANGED conflicts, FileOK', ~ failed => file' = decided,
           file' = file \/ file' = decided
    PROVE  ResolveInv'
<1>1. CASE Exit
  BY <1>1, ExitKeeps DEF ResolveInv, ResolveTypeOK
<1>2. CASE /\ next = "ask" /\ pc' = "ask" /\ unsaved' = failed
           /\ UNCHANGED <<mode, list, decided, index, next, eof, kept, answered, passed>>
  <2>1. ResolveTypeOK'
    BY <1>2 DEF ResolveInv, ResolveTypeOK
  <2>2. PendingShown' /\ KeptOK' /\ AnsweredOK'
    BY <1>2 DEF ResolveInv, PendingShown, KeptOK, AnsweredOK
  <2>3. ResumeKeepsDecisions'
    <3>1. decided \in [Members(list) -> Decisions]
      BY DEF ResolveInv, ResolveTypeOK
    <3> QED BY <1>2, <3>1 DEF ResolveInv, ResumeKeepsDecisions, KeptOK, Whole
  <2>4. AnswersStand' /\ NothingOverlooked'
    BY <1>2 DEF ResolveInv, AnswersStand, NothingOverlooked
  <2>5. DecisionsReachDisk'
    BY <1>2 DEF DecisionsReachDisk
  <2> QED BY <2>1, <2>2, <2>3, <2>4, <2>5 DEF ResolveInv
<1> QED BY <1>1, <1>2 DEF GoOn

\* A save puts the decisions on file.
LEMMA SaveKeeps ==
    ASSUME ResolveInv, Save
    PROVE  ResolveInv'
<1>1. file' = decided /\ GoOn(FALSE) /\ UNCHANGED conflicts
  BY DEF Save
<1>2. FileOK'
  BY <1>1 DEF ResolveInv, ResolveTypeOK, FileOK, Whole
<1> QED BY <1>1, <1>2, GoOnKeeps

\* A save that fails leaves the file as it was, or empty.
LEMMA SaveFailsKeeps ==
    ASSUME ResolveInv, SaveFails
    PROVE  ResolveInv'
<1>1. file' = file /\ GoOn(TRUE) /\ UNCHANGED conflicts
  BY DEF SaveFails
<1>2. FileOK'
  BY <1>1 DEF ResolveInv, ResolveTypeOK, FileOK, Whole
<1> QED BY <1>1, <1>2, GoOnKeeps

\* A session that is killed or has come to its last row ends.
LEMMA EndKeeps ==
    ASSUME ResolveInv, Exit, UNCHANGED <<conflicts, file>>
    PROVE  ResolveInv'
<1>1. IsList(conflicts') /\ FileOK'
  BY DEF ResolveInv, ResolveTypeOK, FileOK, Whole
<1> QED BY <1>1, ExitKeeps

\* Nothing happens.
LEMMA ResolveStutterKeeps ==
    ASSUME ResolveInv, UNCHANGED resolveVars
    PROVE  ResolveInv'
<1> USE DEF resolveVars, local, ResolveInv
<1>1. ResolveTypeOK'
  BY DEF ResolveTypeOK, FileOK, Whole
<1>2. PendingShown' /\ KeptOK' /\ AnsweredOK'
  BY DEF PendingShown, KeptOK, AnsweredOK
<1>3. /\ ResumeKeepsDecisions' /\ AnswersStand'
      /\ NothingOverlooked' /\ DecisionsReachDisk'
  BY DEF ResumeKeepsDecisions, AnswersStand, NothingOverlooked, DecisionsReachDisk, Whole
<1> QED BY <1>1, <1>2, <1>3

----------------------------------------------------------------------------
(* The theorems. *)

\* Every step keeps the invariant.
LEMMA StepKeeps == ResolveInv /\ [ResolveNext]_resolveVars => ResolveInv'
<1> SUFFICES ASSUME ResolveInv, [ResolveNext]_resolveVars PROVE ResolveInv'
  OBVIOUS
<1>1. CASE Diff
  BY <1>1, NewConflictsKeep DEF Diff
<1>2. CASE GenPack
  BY <1>2, NewConflictsKeep DEF GenPack
<1>3. CASE Start
  BY <1>3, StartFreshKeeps, StartResumedKeeps, StartAutoKeeps DEF Start
<1>4. CASE Answer
  BY <1>4, AnswerRowKeeps, AnswerTableKeeps, AnswerAllKeeps, SkipKeeps, QuitKeeps DEF Answer
<1>5. CASE FetchFails
  BY <1>5, FetchFailsKeeps
<1>6. CASE LastFetchFails
  BY <1>6, EndKeeps DEF LastFetchFails
<1>7. CASE InputEnds
  BY <1>7, InputEndsKeeps
<1>8. CASE Saving
  BY <1>8, OpenKeeps, SaveKeeps, SaveFailsKeeps DEF Saving
<1>9. CASE Stop
  BY <1>9, EndKeeps DEF Stop
<1>10. CASE UNCHANGED resolveVars
  BY <1>10, ResolveStutterKeeps
<1> QED BY <1>1, <1>2, <1>3, <1>4, <1>5, <1>6, <1>7, <1>8, <1>9, <1>10 DEF ResolveNext

\* The inductive invariant of the sessions (runResolveConflicts): a row that is
\* asked about is pending, and what is kept or was answered is not.
THEOREM ResolveInvariant == ResolveSpec => []ResolveInv
  BY ResolveInitHolds, StepKeeps, PTL DEF ResolveSpec

\* A decision found by --resume stays in memory and on file (MergeResolutions,
\* UpdateResolution, ApplyBulkResolution, SaveResolutions).
THEOREM ResumeKeepsDecisionsHolds == ResolveSpec => []ResumeKeepsDecisions
  BY ResolveInvariant, ResolveInvariantIsEnough, PTL

\* No later answer undoes the answer for a row (ApplyBulkResolution).
THEOREM AnswersStandHolds == ResolveSpec => []AnswersStand
  BY ResolveInvariant, ResolveInvariantIsEnough, PTL

\* The loop leaves no conflict behind that is not decided, skipped or not
\* fetched, wherever an answer for a table makes it go on.
THEOREM NothingOverlookedHolds == ResolveSpec => []NothingOverlooked
  BY ResolveInvariant, ResolveInvariantIsEnough, PTL

\* At the prompt every former answer is on file, if no save failed.
THEOREM DecisionsReachDiskHolds == ResolveSpec => []DecisionsReachDisk
  BY ResolveInvariant, ResolveInvariantIsEnough, PTL
===============================================================================
