----------------------------- MODULE KeysetHash -----------------------------
(***************************************************************************)
(* Hashing the rows of a table of both databases and comparing the hashes: *)
(* HashTable and hashTableBatched (internal/content/hash.go), their cursor *)
(* queries (cursor.go) and DiffTableHashes (diff.go).                      *)
(*                                                                         *)
(* Pages are queries of their own, without a transaction around them, and  *)
(* production is hashed before development: others may write to both tables*)
(* in between.                                                             *)
(*                                                                         *)
(* A row is its primary key, a value per key column, and a version: what   *)
(* hashRow hashes.  Versions hash differently.  Values stand in the order  *)
(* of the database.                                                        *)
(***************************************************************************)
EXTENDS Naturals, Sequences, FiniteSets, FiniteSetsExt, SequencesExt

CONSTANTS
    Columns,     \* number of columns of the primary key
    Values,      \* what a key column may hold
    Keys,        \* the keys that rows may have
    Versions,    \* the contents that rows may have
    Kinds,       \* kinds of key columns
    BatchSizes,  \* what --batch-size or the configuration may say
    NoCursor,    \* no page was read yet
    Absent,      \* no row has the key
    MaxWrites    \* bound on the writes of others

\* A column's kind says what the database reads back of the text in which
\* literal() writes a value, and how fmt.Sprint spells it.
ASSUME KeysetAssumption ==
    /\ Columns \in Nat \ {0}
    /\ Values \subseteq Nat
    /\ Keys \subseteq [1 .. Columns -> Values]
    /\ IsFiniteSet(Keys)
    /\ \A kind \in Kinds : \A v \in Values : kind.written[v] \in Nat
    /\ BatchSizes \subseteq Nat
    /\ NoCursor \notin [1 .. Columns -> Nat]
    /\ Absent \notin Versions
    /\ MaxWrites \in Nat

Sides == {"prod", "dev"}

VARIABLES
    kind,      \* the kind of the key columns
    batch,     \* the batch size; 0 is one query for the whole table
    table,     \* the tables: the version of each key, or Absent
    phase,     \* whose table is hashed; then "done", or "failed"
    cursor,    \* what lastPKValues read back as
    hashed,    \* the result of each side: the hash of each composite key
    touched,   \* history: keys that others wrote to while it was hashed
    writes     \* history: how many writes there were

keysetVars == <<kind, batch, table, phase, cursor, hashed, touched, writes>>

KeysetInit ==
    /\ kind \in Kinds
    /\ batch \in BatchSizes
    /\ table \in [Sides -> [Keys -> Versions \cup {Absent}]]
    /\ phase = "prod"
    /\ cursor = NoCursor
    /\ hashed = [s \in Sides |-> << >>]
    /\ touched = [s \in Sides |-> {}]
    /\ writes = 0

\* buildKey: the spellings of the values, joined by bars.
Joined ==
    [d \in Kinds, k \in Keys |->
        FlattenSeq([i \in 1 .. Columns |->
            (IF i = 1 THEN << >> ELSE <<"|">>) \o d.spelled[k[i]]])]

CompositeKey(k) == Joined[kind, k]

\* ORDER BY the columns of the primary key.
After(k, j) ==
    \E i \in 1 .. Columns : k[i] > j[i] /\ \A h \in 1 .. i - 1 : k[h] = j[h]

\* Mutant of Follows: compares the first column only, as streaming.md says.
MutFollows(k, c) == k[1] > c[1]

\* buildCursorWhere.
Follows(k, c) ==
    \E i \in 1 .. Columns : k[i] > c[i] /\ \A j \in 1 .. i - 1 : k[j] = c[j]

\* The rows that the query of the next page may return.
Rest(s) ==
    {k \in Keys : table[s][k] # Absent /\ (cursor # NoCursor => Follows(k, cursor))}

\* BuildCursorQuery: the first of them.
Page(s) == {k \in Rest(s) : Cardinality({j \in Rest(s) : After(k, j)}) < batch}

\* The last row of a page, or of those rows of it that have one composite key.
LastRow(page) == CHOOSE k \in page : \A j \in page \ {k} : After(k, j)

\* Mutant of WithPage: a row never replaces one with the same composite key.
MutWithPage(result, s, page) ==
    LET names == {CompositeKey(k) : k \in page}
        first(n) == CHOOSE k \in page :
                        /\ CompositeKey(k) = n
                        /\ \A j \in page \ {k} :
                               CompositeKey(j) = n => After(j, k)
    IN  [n \in DOMAIN result \cup names |->
            IF n \in DOMAIN result THEN result[n] ELSE table[s][first(n)]]

\* The result once the rows of a page are in it, one after the other.
WithPage(result, s, page) ==
    LET names == {CompositeKey(k) : k \in page}
    IN  [n \in DOMAIN result \cup names |->
            IF n \in names
              THEN table[s][LastRow({k \in page : CompositeKey(k) = n})]
              ELSE result[n]]

\* Mutant of IsLast: an empty page is not taken for the last one.
MutIsLast(page) == Cardinality(page) \in 1 .. batch - 1

\* The scan ends with a page that is not full.
IsLast(page) == Cardinality(page) < batch

\* literal, and the database that reads it.
Written(k) == [i \in 1 .. Columns |-> kind.written[k[i]]]

\* After production comes development, then the comparison.
NextSide ==
    /\ phase' = IF phase = "prod" THEN "dev" ELSE "done"
    /\ cursor' = NoCursor

\* One iteration of hashTableBatched: a query and its rows.  With a cursor that
\* does not move, the page that is read again changes nothing.
NextPage ==
    /\ phase \in Sides
    /\ batch > 0
    /\ LET page == Page(phase)
       IN  /\ hashed' = [hashed EXCEPT ![phase] = WithPage(@, phase, page)]
           /\ IF IsLast(page)
                THEN NextSide
                ELSE /\ cursor' = IF page = {} THEN cursor ELSE Written(LastRow(page))
                     /\ UNCHANGED phase
    /\ UNCHANGED <<kind, batch, table, touched, writes>>

\* hashTableFull: one query for all rows.
WholeTable ==
    /\ phase \in Sides
    /\ batch = 0
    /\ hashed' = [hashed EXCEPT ![phase] = WithPage(@, phase, Rest(phase))]
    /\ NextSide
    /\ UNCHANGED <<kind, batch, table, touched, writes>>

\* A query fails: HashTable, and with it the command, returns no result.
QueryFails ==
    /\ phase \in Sides
    /\ phase' = "failed"
    /\ cursor' = NoCursor
    /\ hashed' = [s \in Sides |-> << >>]
    /\ UNCHANGED <<kind, batch, table, touched, writes>>

\* Another client inserts, updates or deletes a row, of either table.
OtherWrites ==
    /\ phase \in Sides
    /\ writes < MaxWrites
    /\ \E s \in Sides, k \in Keys, v \in Versions \cup {Absent} :
           /\ table[s][k] # v
           /\ table' = [table EXCEPT ![s][k] = v]
           /\ touched' = [touched EXCEPT ![s] = @ \cup {k}]
    /\ writes' = writes + 1
    /\ UNCHANGED <<kind, batch, phase, cursor, hashed>>

Scan == NextPage \/ WholeTable

KeysetNext == Scan \/ QueryFails \/ OtherWrites

KeysetSpec == KeysetInit /\ [][KeysetNext]_keysetVars

\* The loop is not suspended for ever.
FairKeysetSpec == KeysetSpec /\ WF_keysetVars(Scan)

-----------------------------------------------------------------------------
\* DiffTableHashes.
Removed == DOMAIN hashed["prod"] \ DOMAIN hashed["dev"]
Added == DOMAIN hashed["dev"] \ DOMAIN hashed["prod"]

\* The updated rows are the conflicts of BuildDataDiff, too.
Updated ==
    {n \in DOMAIN hashed["prod"] \cap DOMAIN hashed["dev"] :
        hashed["prod"][n] # hashed["dev"][n]}

-----------------------------------------------------------------------------
(***************************************************************************)
(* Properties.                                                             *)
(***************************************************************************)

\* The sides whose result is complete.
Scanned == {s \in Sides : phase = "done" \/ (s = "prod" /\ phase = "dev")}

\* No other key may have the composite key of k.
Alone(k) == \A j \in Keys \ {k} : CompositeKey(j) # CompositeKey(k)

\* literal() writes no value as a later one.  A time with a time zone it may: it
\* drops the zone, and the server reads the text in the zone of its session.
NeverLater == \A v \in Values : kind.written[v] <= v

\* When nobody writes, the result is that of the whole table, however it is cut
\* into pages and however pages overlap: every row is in it, hidden only by a
\* later row with the same composite key.
QuietScanIsFull ==
    NeverLater /\ writes = 0 =>
        \A s \in Scanned :
            LET rows == {k \in Keys : table[s][k] # Absent}
            IN  /\ DOMAIN hashed[s] = {CompositeKey(k) : k \in rows}
                /\ \A k \in rows :
                       \/ hashed[s][CompositeKey(k)] = table[s][k]
                       \/ \E j \in rows : /\ After(j, k)
                                          /\ CompositeKey(j) = CompositeKey(k)

\* The two tables are hashed one after the other, while others insert, update
\* and delete between two pages, and yet a row nobody writes to is judged as it
\* is: as removed, added, updated, or none of these.  The cursor never goes past
\* it (hashTableBatched, DiffTableHashes).
StableRowsJudged ==
    NeverLater /\ phase = "done" =>
        \A k \in Keys \ (touched["prod"] \cup touched["dev"]) :
            LET prod == table["prod"][k]
                dev == table["dev"][k]
                n == CompositeKey(k)
            IN  Alone(k) =>
                    /\ n \in Removed <=> prod # Absent /\ dev = Absent
                    /\ n \in Added <=> prod = Absent /\ dev # Absent
                    /\ n \in Updated <=> Absent \notin {prod, dev} /\ prod # dev

Ended == phase \in {"done", "failed"}

\* Values that literal() writes as they are.
Exact == \A v \in Values : kind.written[v] = v

\* The scan of a table whose keys literal() writes as they are comes to an end.
ExactScansEnd == Exact ~> Ended
=============================================================================
