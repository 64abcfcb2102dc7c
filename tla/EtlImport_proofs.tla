-------------------------- MODULE EtlImport_proofs --------------------------
(***************************************************************************)
(* Theorems about EtlImport, for every value of its constants.             *)
(***************************************************************************)
EXTENDS EtlImport, TLAPS, FiniteSetTheorems, NaturalsInduction, WellFoundedInduction

InTransaction == pull.phase \in {"rows", "deletions"}

\* A row has arrived, and is here what it is at the peer.
Arrived(v) == v \in DOMAIN pull.db /\ pull.db[v] = source[v]

\* The peer, whose rows are consistent and not among those it deleted.
PeerInv ==
    /\ Consistent(source)
    /\ graves \cap DOMAIN source = {}

\* The selection lies within one category, and `main` comes last.
SelectionInv ==
    \/ pull.selected \subseteq Of("main")
    \/ pull.category = "shared" /\ pull.selected \subseteq Of("shared")

\* What the transaction sees is consistent at every moment, still holds what the
\* manuscripts cite, and has lost no row that the peer has.
DatabaseInv ==
    InTransaction =>
        /\ Consistent(pull.db)
        /\ cited \subseteq DOMAIN pull.db
        /\ DOMAIN local \cap DOMAIN source \subseteq DOMAIN pull.db

\* The rows of every table that is done have arrived, and no deletion is applied
\* to a table that is not done.
ArrivalInv ==
    /\ pull.phase = "rows" =>
          /\ pull.todo \cup pull.later \subseteq DOMAIN source
          /\ \A v \in DOMAIN source :
                (/\ TableOf[v] \in Covered \ pull.tables
                 /\ v \notin pull.todo \cup pull.later)
                => Arrived(v)
    /\ pull.phase = "deletions" =>
          /\ pull.todo \subseteq {g \in graves : TableOf[g] \in Covered}
          /\ pull.later = {}
          /\ \A v \in DOMAIN source : TableOf[v] \in Covered => Arrived(v)

IInv ==
    /\ TypeOK
    /\ PeerInv
    /\ LocalConsistent
    /\ SelectionInv
    /\ DatabaseInv
    /\ ArrivalInv

----------------------------------------------------------------------------
(* Databases.                                                              *)

LEMMA DatabaseFacts ==
    ASSUME NEW db \in Databases
    PROVE  /\ DOMAIN db \subseteq Uuids
           /\ db \in [DOMAIN db -> Row]
           /\ \A v \in DOMAIN db : db[v] \in Row /\ db[v].refs \subseteq Uuids
<1>1. PICK S \in SUBSET Uuids : db \in [S -> Row]
  BY DEF Databases
<1>2. DOMAIN db = S
  BY <1>1
<1>3. QED
  BY <1>1, <1>2 DEF Row

LEMMA IsDatabase ==
    ASSUME NEW S \in SUBSET Uuids, NEW db \in [S -> Row]
    PROVE  db \in Databases
BY DEF Databases

LEMMA EmptyDatabase == <<>> \in Databases
<1>1. <<>> \in [{} -> Row]
  OBVIOUS
<1>2. QED
  BY <1>1, IsDatabase

LEMMA IdleType == Idle \in Pull
BY EmptyDatabase DEF Idle, Pull

\* What the editors produce is a consistent database.
LEMMA WellFormedFacts ==
    ASSUME NEW db \in WellFormed
    PROVE  db \in Databases /\ Consistent(db)
<1>1. PICK S \in SUBSET Uuids :
         /\ db \in [S -> [name : Names,
                          refs : {R \in SUBSET S : Cardinality(R) <= MaxRefs}]]
         /\ Consistent(db)
  BY DEF WellFormed
<1>2. db \in [S -> Row]
  BY <1>1 DEF Row
<1>3. QED
  BY <1>1, <1>2, IsDatabase

----------------------------------------------------------------------------
(* The selection.                                                          *)

\* A table and what it refers to lie in one category.
LEMMA ExpandedFacts ==
    ASSUME NEW t \in Tables
    PROVE  Expanded({t}) \subseteq Of(Category[t])
<1> DEFINE X == Of(Category[t])
<1>1. X \in SUBSET Tables /\ {t} \subseteq X
  BY DEF Of
<1>2. \A x \in X : Dependencies(x) \subseteq X
  BY DEF Of, Dependencies
<1>3. QED
  BY <1>1, <1>2 DEF Expanded

LEMMA OfTables == \A c : Of(c) \subseteq Tables
BY DEF Of

\* A pull starts from the committed rows, with every table it covers to import.
LEMMA StartFacts ==
    ASSUME IInv, NEW c \in {"main", "shared"}, NEW T \in SUBSET Of(c), NEW whole,
           Start(c, T, whole)
    PROVE  IInv'
<1> DEFINE first == IF NeedsShared(c, T, whole) THEN "shared" ELSE c
<1>0. /\ source \in Databases /\ local \in Databases
      /\ graves \subseteq Uuids /\ cited \subseteq DOMAIN local
      /\ UNCHANGED <<source, graves, local, cited>>
  BY DEF IInv, TypeOK, Start
<1>1. first \in {"main", "shared"} /\ T \subseteq Tables /\ Of("shared") \subseteq Tables
  BY OfTables
<1>2. pull' = [Idle EXCEPT !.phase = "rows", !.category = first, !.selected = T,
                           !.tables = IF first = c THEN T ELSE Of("shared"),
                           !.db = local]
  BY DEF Start
<1>3. /\ pull'.phase = "rows" /\ pull'.category = first /\ pull'.selected = T
      /\ pull'.tables = (IF first = c THEN T ELSE Of("shared"))
      /\ pull'.todo = {} /\ pull'.later = {} /\ pull'.db = local
  BY <1>2 DEF Idle
<1>4. pull' \in Pull
  BY <1>0, <1>1, <1>2 DEF Pull, Idle
<1>5. first = c \/ (first = "shared" /\ c = "main")
  BY DEF NeedsShared
<1>6. Covered' \subseteq pull'.tables
  <2>1. CASE first = c
    BY <1>3, <2>1 DEF Covered
  <2>2. CASE first # c
    <3>1. first = "shared" /\ T \subseteq Of("main")
      BY <1>5, <2>2
    <3>2. Of("main") \cap Of("shared") = {}
      BY DEF Of
    <3>3. QED
      BY <1>3, <2>2, <3>1, <3>2 DEF Covered
  <2>3. QED
    BY <2>1, <2>2
<1>7. TypeOK'
  BY <1>0, <1>4 DEF TypeOK
<1>8. SelectionInv'
  BY <1>3, <1>5 DEF SelectionInv
<1>9. DatabaseInv'
  BY <1>0, <1>3 DEF IInv, DatabaseInv, InTransaction, LocalConsistent
<1>10. ArrivalInv'
  BY <1>3, <1>6 DEF ArrivalInv
<1>11. PeerInv' /\ LocalConsistent'
  BY <1>0 DEF IInv, PeerInv, LocalConsistent
<1>12. QED
  BY <1>7, <1>8, <1>9, <1>10, <1>11 DEF IInv

----------------------------------------------------------------------------
(* Storing rows.                                                           *)

\* The type of what a step of the transaction leaves.
LEMMA Facts ==
    ASSUME IInv
    PROVE  /\ source \in Databases /\ local \in Databases /\ pull \in Pull
           /\ pull.db \in Databases
           /\ pull.selected \subseteq Tables /\ pull.tables \subseteq Tables
           /\ pull.todo \subseteq Uuids /\ pull.later \subseteq Uuids
           /\ graves \subseteq Uuids /\ cited \subseteq DOMAIN local
BY DEF IInv, TypeOK, Pull

\* A step after which no transaction is open keeps everything.
LEMMA Closing ==
    ASSUME IInv, UNCHANGED <<source, graves, local, cited>>,
           NEW p \in {"idle", "missing", "clash"},
           pull' = [Idle EXCEPT !.phase = p]
    PROVE  IInv'
<1>1. pull' \in Pull /\ pull'.phase = p /\ pull'.selected = {}
  BY EmptyDatabase DEF Idle, Pull
<1>2. TypeOK'
  BY <1>1 DEF IInv, TypeOK
<1>3. PeerInv' /\ LocalConsistent'
  BY DEF IInv, PeerInv, LocalConsistent
<1>4. SelectionInv' /\ DatabaseInv' /\ ArrivalInv'
  BY <1>1 DEF SelectionInv, DatabaseInv, ArrivalInv, InTransaction
<1>5. QED
  BY <1>2, <1>3, <1>4 DEF IInv

\* A record whose references are there, and which no other row clashes with,
\* leaves the database consistent.
LEMMA WrittenFacts ==
    ASSUME IInv, NEW u \in DOMAIN source, InTransaction,
           Missing(u) = {}, ~Refused(u)
    PROVE  /\ Written(u) \in Databases
           /\ DOMAIN Written(u) = DOMAIN pull.db \cup {u}
           /\ Written(u)[u] = source[u]
           /\ \A v \in DOMAIN pull.db \ {u} : Written(u)[v] = pull.db[v]
           /\ Consistent(Written(u))
<1> DEFINE D == DOMAIN pull.db \cup {u}
           W == Written(u)
<1>0. /\ source \in Databases /\ pull.db \in Databases /\ u \in Uuids
      /\ D \subseteq Uuids /\ source[u] \in Row
  BY Facts, DatabaseFacts
<1>1. /\ DOMAIN W = D /\ W[u] = source[u]
      /\ \A v \in D \ {u} : W[v] = pull.db[v]
  BY DEF Written, Stored
<1>2. \A v \in D : W[v] \in Row
  BY <1>0, <1>1, DatabaseFacts
<1>3. W = [v \in D |-> W[v]]
  BY <1>1 DEF Written
<1>4. W \in [D -> Row]
  <2> HIDE DEF W
  <2> QED
    BY <1>2, <1>3
<1>5. W \in Databases
  BY <1>0, <1>4, IsDatabase
<1>6. Consistent(pull.db)
  BY DEF IInv, DatabaseInv
<1>7. \A v \in D : W[v].refs \subseteq D
  <2>1. source[u].refs \subseteq D
    BY DEF Missing
  <2>2. \A v \in DOMAIN pull.db : pull.db[v].refs \subseteq DOMAIN pull.db
    BY <1>6 DEF Consistent
  <2>3. QED
    BY <1>1, <2>1, <2>2
<1>8. ASSUME NEW v \in D, NEW w \in D PROVE ~Clashing(W, v, w)
  <2>1. CASE v # u /\ w # u
    BY <1>1, <1>6, <2>1 DEF Consistent, Clashing
  <2>2. CASE v = u /\ w # u
    BY <2>2 DEF Refused
  <2>3. CASE v # u /\ w = u
    <3>1. ~Clashing(W, u, v)
      BY <2>3 DEF Refused
    <3>2. QED
      BY <2>3, <3>1 DEF Clashing
  <2>4. CASE v = w
    BY <2>4 DEF Clashing
  <2>5. QED
    BY <2>1, <2>2, <2>3, <2>4
<1>9. Consistent(W)
  <2> HIDE DEF W
  <2> QED
    BY <1>1, <1>7, <1>8 DEF Consistent
<1>10. QED
  BY <1>1, <1>5, <1>9

LEMMA ImportRowStep ==
    ASSUME IInv, NEW u \in Uuids, ImportRow(u)
    PROVE  IInv'
<1>0. /\ pull.phase = "rows" /\ u \in pull.todo /\ u \in DOMAIN source
      /\ UNCHANGED <<source, graves, local, cited>>
  BY DEF ImportRow, IInv, ArrivalInv
<1>1. /\ Written(u) \in Databases
      /\ DOMAIN Written(u) = DOMAIN pull.db \cup {u}
      /\ Written(u)[u] = source[u]
      /\ \A v \in DOMAIN pull.db \ {u} : Written(u)[v] = pull.db[v]
      /\ Consistent(Written(u))
  BY <1>0, WrittenFacts DEF ImportRow, InTransaction
<1> DEFINE W == Written(u)
<1>2. pull' = [pull EXCEPT !.todo = pull.todo \ {u}, !.moved = TRUE, !.db = W]
  BY DEF ImportRow
<1> HIDE DEF W
<1>3. /\ pull'.phase = "rows" /\ pull'.category = pull.category
      /\ pull'.selected = pull.selected /\ pull'.tables = pull.tables
      /\ pull'.todo = pull.todo \ {u} /\ pull'.later = pull.later /\ pull'.db = W
  BY <1>0, <1>2, Facts DEF Pull
<1>4. pull' \in Pull
  BY <1>1, <1>2, Facts DEF Pull, W
<1>5. TypeOK'
  BY <1>0, <1>4 DEF IInv, TypeOK
<1>6. PeerInv' /\ LocalConsistent'
  BY <1>0 DEF IInv, PeerInv, LocalConsistent
<1>7. SelectionInv' /\ Covered' = Covered
  BY <1>3 DEF IInv, SelectionInv, Covered
<1>8. DatabaseInv'
  BY <1>0, <1>1, <1>3 DEF IInv, DatabaseInv, InTransaction, W
<1>9. \A v \in DOMAIN source : v = u \/ Arrived(v) => Arrived(v)'
  BY <1>0, <1>1, <1>3 DEF Arrived, W
<1>10. ArrivalInv'
  BY <1>0, <1>3, <1>7, <1>9 DEF IInv, ArrivalInv
<1>11. QED
  BY <1>5, <1>6, <1>7, <1>8, <1>10 DEF IInv

----------------------------------------------------------------------------
(* Deletions.                                                              *)

\* The rows a deletion takes along are closed under the references within the
\* table, and lie in every set that is.
LEMMA VictimsClosed ==
    ASSUME NEW g, NEW w \in DOMAIN pull.db, TableOf[w] = TableOf[g],
           pull.db[w].refs \cap Victims(g) # {}
    PROVE  w \in Victims(g)
<1> SUFFICES ASSUME NEW X \in SUBSET DOMAIN pull.db, g \in X,
                    \A x \in DOMAIN pull.db :
                       (TableOf[x] = TableOf[g] /\ pull.db[x].refs \cap X # {}) => x \in X
             PROVE  w \in X
  BY DEF Victims
<1>1. Victims(g) \subseteq X
  BY DEF Victims
<1>2. QED
  BY <1>1

\* A deletion takes no row along that the peer still has: such a row has arrived
\* and refers to rows of the peer only.
LEMMA VictimsAreGone ==
    ASSUME IInv, pull.phase = "deletions", NEW g \in pull.todo, g \in DOMAIN pull.db
    PROVE  Victims(g) \cap DOMAIN source = {}
<1> DEFINE X == DOMAIN pull.db \ DOMAIN source
<1>1. g \in graves /\ TableOf[g] \in Covered /\ g \in X
  BY DEF IInv, ArrivalInv, PeerInv
<1>2. ASSUME NEW w \in DOMAIN pull.db, TableOf[w] = TableOf[g],
             pull.db[w].refs \cap X # {}
      PROVE  w \in X
  <2> SUFFICES ASSUME w \in DOMAIN source PROVE FALSE
    OBVIOUS
  <2>1. pull.db[w] = source[w]
    BY <1>1, <1>2 DEF IInv, ArrivalInv, Arrived
  <2>2. source[w].refs \subseteq DOMAIN source
    BY DEF IInv, PeerInv, Consistent
  <2>3. QED
    BY <1>2, <2>1, <2>2
<1>3. Victims(g) \subseteq X
  BY <1>1, <1>2 DEF Victims
<1>4. QED
  BY <1>3

LEMMA DeleteRowStep ==
    ASSUME IInv, NEW g \in Uuids, DeleteRow(g)
    PROVE  IInv'
<1>0. /\ pull.phase = "deletions" /\ g \in pull.todo
      /\ UNCHANGED <<source, graves, local, cited>>
  BY DEF DeleteRow
<1> DEFINE keep == IF g \notin DOMAIN pull.db \/ Protected(g) THEN DOMAIN pull.db
                   ELSE DOMAIN pull.db \ Victims(g)
           D == IF g \notin DOMAIN pull.db \/ Protected(g) THEN pull.db
                ELSE [v \in DOMAIN pull.db \ Victims(g) |-> pull.db[v]]
<1>1. pull' = [pull EXCEPT !.todo = pull.todo \ {g}, !.db = D]
  BY Facts DEF DeleteRow, Pull
<1>2. DOMAIN D = keep /\ keep \subseteq DOMAIN pull.db /\ \A v \in keep : D[v] = pull.db[v]
  OBVIOUS
<1>3. D \in Databases
  <2>1. /\ pull.db \in Databases /\ DOMAIN pull.db \subseteq Uuids
        /\ \A v \in DOMAIN pull.db : pull.db[v] \in Row
    BY Facts, DatabaseFacts
  <2>2. CASE g \notin DOMAIN pull.db \/ Protected(g)
    BY <2>1, <2>2
  <2>3. CASE ~(g \notin DOMAIN pull.db \/ Protected(g))
    <3>1. D \in [DOMAIN pull.db \ Victims(g) -> Row]
      BY <2>1, <2>3
    <3>2. DOMAIN pull.db \ Victims(g) \in SUBSET Uuids
      BY <2>1
    <3>3. QED
      BY <3>1, <3>2, IsDatabase
  <2>4. QED
    BY <2>2, <2>3
<1>4. Consistent(pull.db) /\ cited \subseteq DOMAIN pull.db
      /\ DOMAIN local \cap DOMAIN source \subseteq DOMAIN pull.db
  BY <1>0 DEF IInv, DatabaseInv, InTransaction
<1>5. DOMAIN pull.db \cap DOMAIN source \subseteq keep
  BY <1>0, VictimsAreGone
<1>6. cited \subseteq keep
  BY <1>4 DEF Protected
<1>7. ASSUME NEW w \in keep PROVE pull.db[w].refs \subseteq keep
  <2>1. pull.db[w].refs \subseteq DOMAIN pull.db
    BY <1>2, <1>4 DEF Consistent
  <2>2. CASE g \notin DOMAIN pull.db \/ Protected(g)
    BY <2>1, <2>2
  <2>3. CASE ~(g \notin DOMAIN pull.db \/ Protected(g))
    <3>1. w \in DOMAIN pull.db /\ w \notin Victims(g)
      BY <2>3
    <3>2. pull.db[w].refs \cap Victims(g) = {}
      BY <2>3, <3>1, VictimsClosed DEF Protected
    <3>3. QED
      BY <2>1, <2>3, <3>2
  <2>4. QED
    BY <2>2, <2>3
<1> HIDE DEF D
<1>8. Consistent(D)
  <2>1. \A v, w \in keep : ~Clashing(D, v, w)
    BY <1>2, <1>4 DEF Consistent, Clashing
  <2>2. \A v \in keep : D[v].refs \subseteq keep
    BY <1>2, <1>7
  <2>3. QED
    BY <1>2, <2>1, <2>2 DEF Consistent
<1> HIDE DEF keep
<1>9. /\ pull'.phase = "deletions" /\ pull'.category = pull.category
      /\ pull'.selected = pull.selected /\ pull'.todo = pull.todo \ {g}
      /\ pull'.later = pull.later /\ pull'.db = D
  BY <1>0, <1>1, Facts DEF Pull
<1>10. pull' \in Pull
  BY <1>1, <1>3, Facts DEF Pull
<1>11. TypeOK'
  BY <1>0, <1>10 DEF IInv, TypeOK
<1>12. PeerInv' /\ LocalConsistent'
  BY <1>0 DEF IInv, PeerInv, LocalConsistent
<1>13. SelectionInv' /\ Covered' = Covered
  BY <1>9 DEF IInv, SelectionInv, Covered
<1>14. DatabaseInv'
  BY <1>0, <1>2, <1>4, <1>5, <1>6, <1>8, <1>9 DEF DatabaseInv, InTransaction
<1>15. \A v \in DOMAIN source : Arrived(v) => Arrived(v)'
  BY <1>0, <1>2, <1>5, <1>9 DEF Arrived
<1>16. ArrivalInv'
  BY <1>0, <1>9, <1>13, <1>15 DEF IInv, ArrivalInv
<1>17. QED
  BY <1>11, <1>12, <1>13, <1>14, <1>16 DEF IInv

----------------------------------------------------------------------------
(* The order of the tables, and the commit.                                *)

\* A step that moves records and tables about, and no row, keeps what is said of
\* the databases.
LEMMA Bookkeeping ==
    ASSUME IInv, UNCHANGED <<source, graves, local, cited>>,
           InTransaction, InTransaction', pull' \in Pull,
           pull'.selected = pull.selected, pull'.db = pull.db,
           SelectionInv', ArrivalInv'
    PROVE  IInv'
<1>1. TypeOK'
  BY DEF IInv, TypeOK
<1>2. PeerInv' /\ LocalConsistent'
  BY DEF IInv, PeerInv, LocalConsistent
<1>3. DatabaseInv'
  BY DEF IInv, DatabaseInv
<1>4. QED
  BY <1>1, <1>2, <1>3 DEF IInv

\* The next table: all records the peer has of it are still to be stored.
LEMMA NextTableStep ==
    ASSUME IInv, NextTable
    PROVE  IInv'
<1> DEFINE t == First(pull.tables)
           records == {u \in DOMAIN source : TableOf[u] = t}
<1>0. /\ pull.phase = "rows" /\ pull.todo = {} /\ pull.later = {}
      /\ UNCHANGED <<source, graves, local, cited>>
  BY DEF NextTable
<1>1. pull' = [pull EXCEPT !.tables = pull.tables \ {t}, !.moved = FALSE,
                           !.todo = records]
  BY DEF NextTable
<1>2. records \subseteq Uuids /\ records \subseteq DOMAIN source
  BY Facts, DatabaseFacts
<1>3. \A v \in DOMAIN source : TableOf[v] = t => v \in records
  OBVIOUS
<1> HIDE DEF t, records
<1>4. /\ pull'.phase = "rows" /\ pull'.category = pull.category
      /\ pull'.selected = pull.selected /\ pull'.tables = pull.tables \ {t}
      /\ pull'.todo = records /\ pull'.later = {} /\ pull'.db = pull.db
  BY <1>0, <1>1, Facts DEF Pull
<1>5. pull' \in Pull
  BY <1>1, <1>2, Facts DEF Pull
<1>6. SelectionInv' /\ Covered' = Covered
  BY <1>4 DEF IInv, SelectionInv, Covered
<1>7. \A v \in DOMAIN source : Arrived(v)' <=> Arrived(v)
  BY <1>0, <1>4 DEF Arrived
<1>8. ArrivalInv'
  BY <1>0, <1>2, <1>3, <1>4, <1>6, <1>7 DEF IInv, ArrivalInv
<1>9. QED
  BY <1>0, <1>4, <1>5, <1>6, <1>8, Bookkeeping DEF InTransaction

\* A record put off stays among the records still to be stored.
LEMMA PutOffRowStep ==
    ASSUME IInv, NEW u \in Uuids, PutOffRow(u)
    PROVE  IInv'
<1>0. /\ pull.phase = "rows" /\ u \in pull.todo
      /\ UNCHANGED <<source, graves, local, cited>>
  BY DEF PutOffRow
<1>1. pull' = [pull EXCEPT !.todo = pull.todo \ {u}, !.later = pull.later \cup {u}]
  BY DEF PutOffRow
<1>2. /\ pull'.phase = "rows" /\ pull'.category = pull.category
      /\ pull'.selected = pull.selected /\ pull'.tables = pull.tables
      /\ pull'.todo = pull.todo \ {u} /\ pull'.later = pull.later \cup {u}
      /\ pull'.db = pull.db
  BY <1>0, <1>1, Facts DEF Pull
<1>3. pull' \in Pull
  BY <1>1, Facts DEF Pull
<1>4. SelectionInv' /\ Covered' = Covered
  BY <1>2 DEF IInv, SelectionInv, Covered
<1>5. /\ \A v \in DOMAIN source : Arrived(v)' <=> Arrived(v)
      /\ pull'.todo \cup pull'.later = pull.todo \cup pull.later
  BY <1>0, <1>2 DEF Arrived
<1>6. ArrivalInv'
  BY <1>0, <1>2, <1>4, <1>5 DEF IInv, ArrivalInv
<1>7. QED
  BY <1>0, <1>2, <1>3, <1>4, <1>6, Bookkeeping DEF InTransaction

LEMMA EndPassStep ==
    ASSUME IInv, EndPass
    PROVE  IInv'
<1>0. /\ pull.phase = "rows" /\ pull.todo = {}
      /\ UNCHANGED <<source, graves, local, cited>>
  BY DEF EndPass
<1>1. CASE ~pull.moved
  <2>1. pull' = [Idle EXCEPT !.phase = "missing"]
    BY <1>1 DEF EndPass
  <2>2. QED
    BY <1>0, <2>1, Closing
<1>2. CASE pull.moved
  <2>1. pull' = [pull EXCEPT !.todo = pull.later, !.later = {}, !.moved = FALSE]
    BY <1>2 DEF EndPass
  <2>2. /\ pull'.phase = "rows" /\ pull'.category = pull.category
        /\ pull'.selected = pull.selected /\ pull'.tables = pull.tables
        /\ pull'.todo = pull.later /\ pull'.later = {} /\ pull'.db = pull.db
    BY <1>0, <2>1, Facts DEF Pull
  <2>3. pull' \in Pull
    BY <2>1, Facts DEF Pull
  <2>4. SelectionInv' /\ Covered' = Covered
    BY <2>2 DEF IInv, SelectionInv, Covered
  <2>5. \A v \in DOMAIN source : Arrived(v)' <=> Arrived(v)
    BY <1>0, <2>2 DEF Arrived
  <2>6. ArrivalInv'
    BY <1>0, <2>2, <2>4, <2>5 DEF IInv, ArrivalInv
  <2>7. QED
    BY <1>0, <2>2, <2>3, <2>4, <2>6, Bookkeeping DEF InTransaction
<1>3. QED
  BY <1>1, <1>2

\* Deletions begin when every table of the category is done.
LEMMA BeginDeletionsStep ==
    ASSUME IInv, BeginDeletions
    PROVE  IInv'
<1> DEFINE announced == {u \in graves : TableOf[u] \in Covered}
<1>0. /\ pull.phase = "rows" /\ pull.tables = {}
      /\ pull.todo = {} /\ pull.later = {}
      /\ UNCHANGED <<source, graves, local, cited>>
  BY DEF BeginDeletions
<1>1. pull' = [pull EXCEPT !.phase = "deletions", !.todo = announced]
  BY DEF BeginDeletions
<1>2. announced \subseteq Uuids
  BY Facts
<1>3. /\ pull'.phase = "deletions" /\ pull'.category = pull.category
      /\ pull'.selected = pull.selected /\ pull'.todo = announced
      /\ pull'.later = pull.later /\ pull'.db = pull.db
  <2> HIDE DEF announced
  <2> QED
    BY <1>1, Facts DEF Pull
<1>4. pull' \in Pull
  <2> HIDE DEF announced
  <2> QED
    BY <1>1, <1>2, Facts DEF Pull
<1>5. SelectionInv' /\ Covered' = Covered
  BY <1>3 DEF IInv, SelectionInv, Covered
<1>6. \A v \in DOMAIN source : Arrived(v)' <=> Arrived(v)
  BY <1>0, <1>3 DEF Arrived
<1>7. ArrivalInv'
  BY <1>0, <1>3, <1>5, <1>6 DEF IInv, ArrivalInv
<1>8. QED
  BY <1>0, <1>3, <1>4, <1>5, <1>7, Bookkeeping DEF InTransaction

\* After `shared` comes `main`, of which nothing has been done.
LEMMA EndCategoryStep ==
    ASSUME IInv, EndCategory
    PROVE  IInv'
<1>0. /\ pull.phase = "deletions" /\ pull.todo = {}
      /\ ~(pull.selected \subseteq Of(pull.category))
      /\ UNCHANGED <<source, graves, local, cited>>
  BY DEF EndCategory
<1>1. pull' = [pull EXCEPT !.phase = "rows", !.category = "main",
                           !.tables = pull.selected]
  BY DEF EndCategory
<1>2. /\ pull'.phase = "rows" /\ pull'.category = "main"
      /\ pull'.selected = pull.selected /\ pull'.tables = pull.selected
      /\ pull'.todo = {} /\ pull'.db = pull.db /\ pull'.later = pull.later
  BY <1>0, <1>1, Facts DEF Pull
<1>3. pull' \in Pull
  BY <1>1, Facts DEF Pull
<1>4. pull.selected \subseteq Of("main")
  BY <1>0 DEF IInv, SelectionInv
<1>5. SelectionInv' /\ Covered' = pull.selected
  BY <1>2, <1>4 DEF SelectionInv, Covered
<1>6. pull.later \subseteq DOMAIN source
  BY <1>0 DEF IInv, ArrivalInv
<1>7. ArrivalInv'
  BY <1>0, <1>2, <1>5, <1>6 DEF ArrivalInv
<1>8. QED
  BY <1>0, <1>2, <1>3, <1>5, <1>7, Bookkeeping DEF InTransaction

LEMMA CommitStep ==
    ASSUME IInv, Commit
    PROVE  IInv' /\ DOMAIN local \cap DOMAIN source \subseteq DOMAIN local'
<1>1. /\ pull.phase = "deletions" /\ local' = pull.db /\ pull' = Idle
      /\ UNCHANGED <<source, graves, cited>>
  BY DEF Commit
<1>2. /\ Consistent(pull.db) /\ cited \subseteq DOMAIN pull.db
      /\ DOMAIN local \cap DOMAIN source \subseteq DOMAIN pull.db
  BY <1>1 DEF IInv, DatabaseInv, InTransaction
<1>3. TypeOK'
  BY <1>1, <1>2, Facts, IdleType DEF IInv, TypeOK
<1>4. PeerInv' /\ LocalConsistent'
  BY <1>1, <1>2 DEF IInv, PeerInv, LocalConsistent
<1>5. SelectionInv' /\ DatabaseInv' /\ ArrivalInv'
  BY <1>1 DEF SelectionInv, DatabaseInv, ArrivalInv, InTransaction, Idle
<1>6. QED
  BY <1>1, <1>2, <1>3, <1>4, <1>5 DEF IInv

----------------------------------------------------------------------------
(* The invariant.                                                          *)

LEMMA InitIInv == Init => IInv
<1> SUFFICES ASSUME Init PROVE IInv
  OBVIOUS
<1>1. /\ source \in Databases /\ Consistent(source)
      /\ local \in Databases /\ Consistent(local)
  BY WellFormedFacts DEF Init
<1>2. DOMAIN local \subseteq Uuids
  BY <1>1, DatabaseFacts
<1>3. TypeOK
  BY <1>1, <1>2, IdleType DEF Init, TypeOK
<1>4. PeerInv /\ LocalConsistent
  BY <1>1 DEF Init, PeerInv, LocalConsistent
<1>5. SelectionInv /\ DatabaseInv /\ ArrivalInv
  BY DEF Init, SelectionInv, DatabaseInv, ArrivalInv, InTransaction, Idle
<1>6. QED
  BY <1>3, <1>4, <1>5 DEF IInv

\* Every step keeps the invariant, and only a commit changes the committed rows.
LEMMA NextIInv ==
    ASSUME IInv, Next
    PROVE  /\ IInv'
           /\ UNCHANGED source
           /\ \A u \in DOMAIN local : u \in DOMAIN source => u \in DOMAIN local'
<1>1. ASSUME NEW c \in {"main", "shared"}, StartFull(c)
      PROVE  IInv' /\ UNCHANGED <<source, local>>
  BY <1>1, StartFacts DEF StartFull, Start
<1>2. ASSUME NEW t \in Tables, StartTable(t)
      PROVE  IInv' /\ UNCHANGED <<source, local>>
  <2>1. Category[t] \in {"main", "shared"}
    BY ImportAssumption
  <2>2. Expanded({t}) \subseteq Of(Category[t])
    BY ExpandedFacts
  <2>3. QED
    BY <1>2, <2>1, <2>2, StartFacts DEF StartTable, Start
<1>3. CASE NextTable
  BY <1>3, NextTableStep DEF NextTable
<1>4. ASSUME NEW u \in Uuids, ImportRow(u)
      PROVE  IInv' /\ UNCHANGED <<source, local>>
  BY <1>4, ImportRowStep DEF ImportRow
<1>5. ASSUME NEW u \in Uuids, PutOffRow(u)
      PROVE  IInv' /\ UNCHANGED <<source, local>>
  BY <1>5, PutOffRowStep DEF PutOffRow
<1>6. ASSUME NEW u \in Uuids, RefuseRow(u)
      PROVE  IInv' /\ UNCHANGED <<source, local>>
  BY <1>6, Closing DEF RefuseRow
<1>7. ASSUME NEW u \in Uuids, DeleteRow(u)
      PROVE  IInv' /\ UNCHANGED <<source, local>>
  BY <1>7, DeleteRowStep DEF DeleteRow
<1>8. CASE EndPass
  BY <1>8, EndPassStep DEF EndPass
<1>9. CASE BeginDeletions
  BY <1>9, BeginDeletionsStep DEF BeginDeletions
<1>10. CASE EndCategory
  BY <1>10, EndCategoryStep DEF EndCategory
<1>11. CASE Commit
  BY <1>11, CommitStep DEF Commit
<1>12. CASE Dismiss
  <2>1. pull' = [Idle EXCEPT !.phase = "idle"]
    BY <1>12 DEF Dismiss, Idle
  <2>2. QED
    BY <1>12, <2>1, Closing DEF Dismiss
<1>13. QED
  BY <1>1, <1>2, <1>3, <1>4, <1>5, <1>6, <1>7, <1>8, <1>9, <1>10, <1>11, <1>12
     DEF Next, Step

LEMMA Invariant == Spec => []IInv
<1>1. IInv /\ UNCHANGED vars => IInv'
  BY DEF vars, IInv, TypeOK, PeerInv, LocalConsistent, SelectionInv, DatabaseInv,
         ArrivalInv, InTransaction, Arrived, Covered
<1>2. IInv /\ [Next]_vars => IInv'
  BY <1>1, NextIInv
<1>3. QED
  BY InitIInv, <1>2, PTL DEF Spec

\* No step of an import leaves its tables, passes and databases outside their
\* types, and what manuscripts cite is in the database.
THEOREM TypeCorrect == Spec => []TypeOK
<1>1. IInv => TypeOK
  BY DEF IInv
<1>2. QED
  BY Invariant, <1>1, PTL

\* What is committed is consistent: every reference leads to a row and unique
\* names are unique, whichever tables a pull covers, in whatever order records
\* and deletions come, and however many references stand in their way.
THEOREM StaysConsistent == Spec => []LocalConsistent
<1>1. IInv => LocalConsistent
  BY DEF IInv
<1>2. QED
  BY Invariant, <1>1, PTL

\* No pull takes away a row that the peer still has, although a deletion takes
\* along the rows that refer to the deleted one.
THEOREM NoLiveRowLost == Spec => LiveRowsStay
<1>1. IInv /\ [Next]_vars =>
        [\A u \in DOMAIN local : u \in DOMAIN source => u \in DOMAIN local']_vars
  BY NextIInv
<1>2. QED
  BY Invariant, <1>1, PTL DEF Spec, LiveRowsStay

----------------------------------------------------------------------------
(* Induction.                                                              *)

\* Every set of natural numbers has a least one.
LEMMA LeastNumber ==
    ASSUME NEW S \in SUBSET Nat, S # {}
    PROVE  \E m \in S : \A k \in S : m <= k
<1> DEFINE R == OpToRel(<, Nat)
<1>1. IsWellFoundedOn(R, Nat)
  BY NatLessThanWellFounded
<1>2. \A k, m \in Nat : k < m => <<k, m>> \in R
  BY DEF OpToRel
<1> HIDE DEF R
<1>3. PICK m \in S : \A k \in S : ~(<<k, m>> \in R)
  BY <1>1, WFMin
<1>4. \A k \in S : ~(k < m)
  BY <1>2, <1>3, Zenon
<1>5. ASSUME NEW k \in S PROVE m <= k
  BY <1>4
<1>6. QED
  BY <1>5

\* Induction, for a set of natural numbers.
LEMMA SetInduction ==
    ASSUME NEW S \in SUBSET Nat, 0 \in S, \A n \in S : n + 1 \in S
    PROVE  S = Nat
<1> SUFFICES ASSUME Nat \ S # {} PROVE FALSE
  OBVIOUS
<1>1. PICK m \in Nat \ S : \A k \in Nat \ S : m <= k
  <2>1. Nat \ S \in SUBSET Nat
    OBVIOUS
  <2>2. QED
    BY <2>1, LeastNumber
<1>2. m # 0 /\ m - 1 \in Nat /\ ~(m <= m - 1)
  BY <1>1
<1>3. m - 1 \in S
  BY <1>1, <1>2
<1>4. (m - 1) + 1 \in S /\ (m - 1) + 1 = m
  BY <1>2, <1>3
<1>5. QED
  BY <1>1, <1>4

----------------------------------------------------------------------------
(* The rounds that order the tables of a category.                         *)

\* As many rounds as there are tables.
Rounds == Cardinality(Tables)

LEMMA RoundsNat == Rounds \in Nat /\ IsFiniteSet(Tables)
BY ImportAssumption, FS_CardinalityType DEF Rounds

\* What is placed after each of n rounds.
IsChain(c, n, g) ==
    g = [i \in 0 .. n |-> IF i = 0 THEN {} ELSE Round(c, g[i - 1])]

\* There is such a chain of any length, so the recursion defines one.
LEMMA ChainExists ==
    ASSUME NEW c, NEW n \in Nat
    PROVE  \E g : IsChain(c, n, g)
<1> DEFINE S == {m \in Nat : \E g : IsChain(c, m, g)}
<1>1. 0 \in S
  <2> DEFINE g == [i \in 0 .. 0 |-> {}]
  <2>1. g = [i \in 0 .. 0 |-> IF i = 0 THEN {} ELSE Round(c, g[i - 1])]
    OBVIOUS
  <2> HIDE DEF g
  <2>2. IsChain(c, 0, g)
    BY <2>1 DEF IsChain
  <2>3. QED
    BY <2>2
<1>2. ASSUME NEW m \in S PROVE m + 1 \in S
  <2>1. m \in Nat /\ m + 1 \in Nat
    OBVIOUS
  <2>2. PICK g : IsChain(c, m, g)
    OBVIOUS
  <2> DEFINE h == [i \in 0 .. m + 1 |-> IF i <= m THEN g[i] ELSE Round(c, g[m])]
  <2>3. ASSUME NEW i \in 0 .. m + 1
        PROVE  h[i] = IF i = 0 THEN {} ELSE Round(c, h[i - 1])
    <3>1. CASE i = 0
      <4>1. h[i] = g[0]
        BY <2>1, <3>1
      <4>2. g[0] = {}
        BY <2>1, <2>2 DEF IsChain
      <4>3. QED
        BY <3>1, <4>1, <4>2
    <3>2. CASE i # 0 /\ i <= m
      <4>1. i \in 0 .. m /\ i - 1 \in 0 .. m + 1 /\ i - 1 <= m
        BY <2>1, <3>2
      <4>2. h[i] = g[i] /\ h[i - 1] = g[i - 1]
        BY <3>2, <4>1
      <4>3. g[i] = Round(c, g[i - 1])
        BY <2>2, <3>2, <4>1 DEF IsChain
      <4>4. QED
        BY <3>2, <4>2, <4>3
    <3>3. CASE ~(i <= m)
      <4>1. i = m + 1 /\ i - 1 = m /\ m \in 0 .. m + 1 /\ m <= m /\ i # 0
        BY <2>1, <3>3
      <4>2. h[i] = Round(c, g[m]) /\ h[i - 1] = g[m]
        BY <3>3, <4>1
      <4>3. QED
        BY <4>1, <4>2
    <3>4. QED
      BY <3>1, <3>2, <3>3
  <2>4. h = [i \in 0 .. m + 1 |-> h[i]]
    OBVIOUS
  <2> HIDE DEF h
  <2>5. IsChain(c, m + 1, h)
    BY <2>3, <2>4 DEF IsChain
  <2>6. QED
    BY <2>1, <2>5
<1> HIDE DEF S
<1>3. S = Nat
  <2>1. S \in SUBSET Nat
    BY DEF S
  <2>2. QED
    BY <1>1, <1>2, <2>1, SetInduction
<1>4. n \in S
  BY <1>3
<1>5. QED
  BY <1>4 DEF S

LEMMA PlacedIsChain ==
    ASSUME NEW c \in {"main", "shared"}
    PROVE  IsChain(c, Rounds, Placed[c])
<1>1. Placed[c] = CHOOSE g : g = [i \in 0 .. Rounds |->
                                    IF i = 0 THEN {} ELSE Round(c, g[i - 1])]
  BY DEF Placed, Rounds
<1>2. \E g : g = [i \in 0 .. Rounds |-> IF i = 0 THEN {} ELSE Round(c, g[i - 1])]
  BY RoundsNat, ChainExists DEF IsChain
<1>3. QED
  BY <1>1, <1>2 DEF IsChain

\* Round by round.
LEMMA PlacedRounds ==
    ASSUME NEW c \in {"main", "shared"}
    PROVE  /\ DOMAIN Placed[c] = 0 .. Rounds
           /\ Placed[c][0] = {}
           /\ \A i \in 0 .. Rounds : i # 0 => Placed[c][i] = Round(c, Placed[c][i - 1])
<1> DEFINE g == Placed[c]
<1>1. IsChain(c, Rounds, g)
  BY PlacedIsChain
<1> HIDE DEF g
<1>2. /\ DOMAIN g = 0 .. Rounds
      /\ \A i \in 0 .. Rounds : g[i] = IF i = 0 THEN {} ELSE Round(c, g[i - 1])
  BY <1>1 DEF IsChain
<1>3. 0 \in 0 .. Rounds
  BY RoundsNat
<1>4. QED
  BY <1>2, <1>3 DEF g

\* What holds before the first round, and after a round if before, always holds.
LEMMA RoundInduction ==
    ASSUME NEW S \in SUBSET (0 .. Rounds), 0 \in S,
           \A i \in 0 .. Rounds : i # 0 /\ i - 1 \in S => i \in S
    PROVE  S = 0 .. Rounds
<1> DEFINE X == {i \in Nat : i \in S \/ Rounds < i}
<1>0. Rounds \in Nat
  BY RoundsNat
<1>1. X \in SUBSET Nat /\ 0 \in X
  OBVIOUS
<1>2. ASSUME NEW i \in X PROVE i + 1 \in X
  <2>1. CASE i + 1 \in 0 .. Rounds
    <3>1. i \in S /\ i + 1 # 0 /\ (i + 1) - 1 = i
      BY <1>0, <2>1
    <3>2. QED
      BY <2>1, <3>1
  <2>2. CASE i + 1 \notin 0 .. Rounds
    BY <1>0, <2>2
  <2>3. QED
    BY <2>1, <2>2
<1> HIDE DEF X
<1>3. X = Nat
  BY <1>1, <1>2, SetInduction
<1>4. ASSUME NEW i \in 0 .. Rounds PROVE i \in S
  <2>1. i \in X /\ ~(Rounds < i)
    BY <1>0, <1>3
  <2>2. QED
    BY <2>1 DEF X
<1>5. QED
  BY <1>4

\* A round keeps what is placed, and places tables of the category, of which
\* those they depend on are placed.
LEMMA RoundFacts ==
    ASSUME NEW c, NEW P \in SUBSET Of(c),
           \A t \in P : Dependencies(t) \subseteq P
    PROVE  /\ P \subseteq Round(c, P) /\ Round(c, P) \subseteq Of(c)
           /\ \A t \in Round(c, P) : Dependencies(t) \subseteq Round(c, P)
<1> DEFINE ready == {t \in Of(c) : Dependencies(t) \subseteq P}
<1>1. Round(c, P) = IF ready \subseteq P THEN Of(c) ELSE P \cup ready
  BY DEF Round
<1>2. \A t \in Of(c) : Dependencies(t) \subseteq Of(c)
  BY DEF Of, Dependencies
<1>3. QED
  BY <1>1, <1>2

LEMMA PlacedWithin ==
    ASSUME NEW c \in {"main", "shared"}, NEW i \in 0 .. Rounds
    PROVE  /\ Placed[c][i] \subseteq Of(c)
           /\ \A t \in Placed[c][i] : Dependencies(t) \subseteq Placed[c][i]
<1> DEFINE g == Placed[c]
           S == {j \in 0 .. Rounds : /\ g[j] \subseteq Of(c)
                                     /\ \A t \in g[j] : Dependencies(t) \subseteq g[j]}
<1>0. /\ 0 \in 0 .. Rounds /\ g[0] = {}
      /\ \A j \in 0 .. Rounds : j # 0 => g[j] = Round(c, g[j - 1])
  BY PlacedRounds, RoundsNat
<1> HIDE DEF g
<1>1. 0 \in S
  BY <1>0
<1>2. ASSUME NEW j \in 0 .. Rounds, j # 0, j - 1 \in S PROVE j \in S
  BY <1>0, <1>2, RoundFacts
<1>3. S = 0 .. Rounds
  <2>1. S \in SUBSET (0 .. Rounds)
    OBVIOUS
  <2> HIDE DEF S
  <2>2. QED
    BY <1>1, <1>2, <2>1, RoundInduction
<1>4. QED
  BY <1>3 DEF g

LEMMA PlacedGrows ==
    ASSUME NEW c \in {"main", "shared"}, NEW i \in 0 .. Rounds, NEW j \in 0 .. Rounds,
           i <= j
    PROVE  Placed[c][i] \subseteq Placed[c][j]
<1> DEFINE g == Placed[c]
           S == {k \in 0 .. Rounds : i <= k => g[i] \subseteq g[k]}
<1>0. /\ Rounds \in Nat /\ 0 \in 0 .. Rounds
      /\ \A k \in 0 .. Rounds : k # 0 => g[k] = Round(c, g[k - 1])
  BY PlacedRounds, RoundsNat
<1>1. ASSUME NEW k \in 0 .. Rounds, k # 0 PROVE g[k - 1] \subseteq g[k]
  <2>1. k - 1 \in 0 .. Rounds
    BY <1>0, <1>1
  <2>2. /\ g[k - 1] \subseteq Of(c)
        /\ \A t \in g[k - 1] : Dependencies(t) \subseteq g[k - 1]
    BY <2>1, PlacedWithin
  <2>3. g[k] = Round(c, g[k - 1])
    BY <1>0, <1>1
  <2> HIDE DEF g
  <2>4. QED
    BY <2>2, <2>3, RoundFacts
<1> HIDE DEF g
<1>2. 0 \in S
  BY <1>0
<1>3. ASSUME NEW k \in 0 .. Rounds, k # 0, k - 1 \in S PROVE k \in S
  <2>1. CASE i <= k - 1
    BY <1>1, <1>3, <2>1
  <2>2. CASE ~(i <= k - 1)
    <3>1. i <= k => i = k
      BY <1>0, <1>3, <2>2
    <3>2. QED
      BY <3>1
  <2>3. QED
    BY <2>1, <2>2
<1>4. S = 0 .. Rounds
  <2>1. S \in SUBSET (0 .. Rounds)
    OBVIOUS
  <2> HIDE DEF S
  <2>2. QED
    BY <1>2, <1>3, <2>1, RoundInduction
<1>5. QED
  BY <1>4 DEF g

\* Every table is placed in the end: as long as some are left, a round adds one.
LEMMA PlacedAll ==
    ASSUME NEW c \in {"main", "shared"}
    PROVE  Placed[c][Rounds] = Of(c)
<1> DEFINE g == Placed[c]
           S == {j \in 0 .. Rounds : g[j] = Of(c) \/ j <= Cardinality(g[j])}
<1>0. /\ Rounds \in Nat /\ 0 \in 0 .. Rounds /\ Rounds \in 0 .. Rounds
      /\ IsFiniteSet(Tables) /\ Of(c) \subseteq Tables
      /\ g[0] = {} /\ \A k \in 0 .. Rounds : k # 0 => g[k] = Round(c, g[k - 1])
  BY PlacedRounds, RoundsNat DEF Of
<1>1. ASSUME NEW k \in 0 .. Rounds
      PROVE  /\ g[k] \subseteq Of(c) /\ IsFiniteSet(g[k]) /\ Cardinality(g[k]) \in Nat
  <2>1. g[k] \subseteq Of(c)
    BY PlacedWithin
  <2>2. IsFiniteSet(g[k])
    BY <1>0, <2>1, FS_Subset
  <2>3. QED
    BY <2>1, <2>2, FS_CardinalityType
<1> HIDE DEF g
<1>2. 0 \in S
  BY <1>0, <1>1
<1>3. ASSUME NEW k \in 0 .. Rounds, k # 0, k - 1 \in S PROVE k \in S
  <2> DEFINE P == g[k - 1]
             ready == {t \in Of(c) : Dependencies(t) \subseteq P}
  <2>1. k \in Nat /\ k - 1 \in 0 .. Rounds
    BY <1>0, <1>3
  <2>2. g[k] = IF ready \subseteq P THEN Of(c) ELSE P \cup ready
    BY <1>0, <1>3 DEF Round
  <2>3. CASE g[k] = Of(c)
    BY <2>3
  <2>4. CASE g[k] # Of(c)
    <3>1. g[k] = P \cup ready /\ ~(ready \subseteq P)
      BY <2>2, <2>4
    <3>2. PICK t \in ready : t \notin P
      BY <3>1
    <3>3. P # Of(c)
      BY <3>1, <3>2
    <3>4. k - 1 <= Cardinality(P)
      BY <1>3, <3>3
    <3>5. IsFiniteSet(P) /\ Cardinality(P) \in Nat
      BY <1>1, <2>1
    <3> HIDE DEF P, ready
    <3>6. IsFiniteSet(P \cup {t}) /\ Cardinality(P \cup {t}) = Cardinality(P) + 1
      BY <3>2, <3>5, FS_AddElement
    <3>7. P \cup {t} \subseteq g[k] /\ IsFiniteSet(g[k]) /\ Cardinality(g[k]) \in Nat
      BY <1>1, <3>1, <3>2
    <3>8. Cardinality(P \cup {t}) <= Cardinality(g[k])
      BY <3>7, FS_Subset
    <3>9. k <= Cardinality(g[k])
      BY <2>1, <3>4, <3>5, <3>6, <3>7, <3>8
    <3>10. QED
      BY <3>9
  <2>5. QED
    BY <2>3, <2>4
<1>4. S = 0 .. Rounds
  <2>1. S \in SUBSET (0 .. Rounds)
    OBVIOUS
  <2> HIDE DEF S
  <2>2. QED
    BY <1>2, <1>3, <2>1, RoundInduction
<1>5. CASE g[Rounds] = Of(c)
  BY <1>5 DEF g
<1>6. CASE Rounds <= Cardinality(g[Rounds])
  <2>1. g[Rounds] \in SUBSET Tables
    BY <1>0, <1>1
  <2>2. Cardinality(g[Rounds]) <= Cardinality(Tables)
    BY <1>0, <2>1, FS_Subset
  <2>3. Cardinality(Tables) = Cardinality(g[Rounds])
    BY <1>0, <1>1, <1>6, <2>2 DEF Rounds
  <2>4. g[Rounds] = Tables
    BY <1>0, <2>1, <2>3, FS_Subset
  <2>5. QED
    BY <1>0, <1>1, <2>4 DEF g
<1>7. QED
  BY <1>0, <1>4, <1>5, <1>6


\* Of two tables that are placed in the same round, neither depends on the other.
LEMMA SameRound ==
    ASSUME TablesAcyclic, NEW c \in {"main", "shared"}, NEW t \in Of(c), NEW s \in Dependencies(t),
           \A i \in 0 .. Rounds : t \in Placed[c][i] <=> s \in Placed[c][i]
    PROVE  FALSE
<1> DEFINE g == Placed[c]
           S == {i \in 0 .. Rounds : t \in g[i]}
<1>0. /\ Rounds \in Nat /\ Rounds \in 0 .. Rounds
      /\ g[0] = {} /\ \A k \in 0 .. Rounds : k # 0 => g[k] = Round(c, g[k - 1])
      /\ g[Rounds] = Of(c)
  BY PlacedRounds, PlacedAll, RoundsNat
<1> HIDE DEF g
<1>1. PICK i \in S : \A k \in S : i <= k
  <2>1. S \in SUBSET Nat /\ Rounds \in S
    BY <1>0
  <2> HIDE DEF S
  <2>2. QED
    BY <2>1, LeastNumber
<1>2. i \in 0 .. Rounds /\ i # 0 /\ i - 1 \in 0 .. Rounds /\ i - 1 \notin S
  BY <1>0, <1>1
<1>3. t \in g[i] /\ t \notin g[i - 1] /\ s \notin g[i - 1]
  BY <1>1, <1>2 DEF g
<1> DEFINE P == g[i - 1]
           ready == {x \in Of(c) : Dependencies(x) \subseteq P}
<1>4. g[i] = IF ready \subseteq P THEN Of(c) ELSE P \cup ready
  BY <1>0, <1>2 DEF Round
<1>5. CASE ~(ready \subseteq P)
  BY <1>3, <1>4, <1>5
<1>6. CASE ready \subseteq P
  <2> DEFINE X == Of(c) \ P
  <2>1. X \in SUBSET Tables /\ t \in X
    BY <1>3 DEF Of
  <2>2. PICK x \in X : Dependencies(x) \cap X = {}
    BY <2>1 DEF TablesAcyclic
  <2>3. Dependencies(x) \subseteq Of(c)
    BY DEF Of, Dependencies
  <2>4. x \in ready
    BY <2>2, <2>3
  <2>5. QED
    BY <1>6, <2>4
<1>7. QED
  BY <1>5, <1>6

\* The table that is imported next depends on none that are still to come.
LEMMA FirstIsFree ==
    ASSUME TablesAcyclic, NEW c \in {"main", "shared"}, NEW T \in SUBSET Of(c), T # {}
    PROVE  First(T) \in T /\ Dependencies(First(T)) \cap T = {}
<1> DEFINE g == Placed[c]
<1>0. /\ Rounds \in Nat /\ Rounds \in 0 .. Rounds /\ DOMAIN g = 0 .. Rounds
      /\ g[Rounds] = Of(c) /\ T \subseteq Nat
      /\ \A t \in T : Category[t] = c /\ t \in Tables
  BY PlacedRounds, PlacedAll, RoundsNat, ImportAssumption DEF Of
<1>1. ASSUME NEW i \in 0 .. Rounds, NEW j \in 0 .. Rounds, i <= j PROVE g[i] \subseteq g[j]
  BY <1>1, PlacedGrows
<1>2. ASSUME NEW i \in 0 .. Rounds, NEW t \in g[i] PROVE Dependencies(t) \subseteq g[i]
  BY PlacedWithin
<1>3. \A s, t \in T : Before(s, t) <=>
         \/ \E i \in 0 .. Rounds : s \in g[i] /\ t \notin g[i]
         \/ s < t /\ \A i \in 0 .. Rounds : s \in g[i] <=> t \in g[i]
  BY <1>0 DEF Before
<1>4. ASSUME NEW t \in Of(c), NEW s \in Dependencies(t),
             \A i \in 0 .. Rounds : t \in g[i] <=> s \in g[i]
      PROVE  FALSE
  BY <1>4, SameRound
<1> HIDE DEF g
<1>5. \E t \in T : \A s \in T \ {t} : Before(t, s)
  <2> DEFINE S == {i \in 0 .. Rounds : g[i] \cap T # {}}
  <2>1. S \in SUBSET Nat /\ Rounds \in S
    <3>1. g[Rounds] \cap T = T
      BY <1>0
    <3>2. QED
      BY <1>0, <3>1
  <2>2. PICK i \in S : \A k \in S : i <= k
    <3> HIDE DEF S
    <3> QED
      BY <2>1, LeastNumber
  <2>3. g[i] \cap T \in SUBSET Nat /\ g[i] \cap T # {}
    BY <1>0, <2>2
  <2>4. PICK t \in g[i] \cap T : \A s \in g[i] \cap T : t <= s
    <3> DEFINE U == g[i] \cap T
    <3> HIDE DEF U
    <3>1. \E t \in U : \A s \in U : t <= s
      BY <2>3, LeastNumber DEF U
    <3>2. QED
      BY <3>1 DEF U
  <2>5. ASSUME NEW s \in T \ {t} PROVE Before(t, s)
    <3>1. CASE s \notin g[i]
      BY <1>3, <2>2, <2>4, <3>1
    <3>2. CASE s \in g[i]
      <4>1. t < s
        <5>1. t <= s /\ s # t /\ s \in Nat /\ t \in Nat
          BY <1>0, <2>4, <3>2
        <5>2. QED
          BY <5>1
      <4>2. ASSUME NEW j \in 0 .. Rounds PROVE t \in g[j] <=> s \in g[j]
        <5>1. CASE i <= j
          BY <1>1, <2>2, <2>4, <3>2, <5>1
        <5>2. CASE ~(i <= j)
          <6>1. j \notin S
            BY <2>2, <5>2
          <6>2. g[j] \cap T = {}
            BY <6>1
          <6>3. QED
            BY <2>4, <6>2
        <5>3. QED
          BY <5>1, <5>2
      <4>3. QED
        BY <1>3, <2>4, <4>1, <4>2
    <3>3. QED
      BY <3>1, <3>2
  <2>6. QED
    BY <2>5
<1>6. First(T) \in T /\ \A s \in T \ {First(T)} : Before(First(T), s)
  <2> DEFINE Least(t) == \A s \in T \ {t} : Before(t, s)
  <2>1. First(T) = CHOOSE t \in T : Least(t)
    BY DEF First
  <2>2. \E t \in T : Least(t)
    BY <1>5
  <2> HIDE DEF Least
  <2>3. First(T) \in T /\ Least(First(T))
    BY <2>1, <2>2
  <2>4. QED
    BY <2>3 DEF Least
<1> DEFINE t == First(T)
<1>7. t \in T /\ \A s \in T \ {t} : Before(t, s)
  BY <1>6
<1> HIDE DEF t
<1>8. ASSUME NEW s \in Dependencies(t), s \in T PROVE FALSE
  <2>1. s # t /\ Before(t, s)
    BY <1>7, <1>8 DEF Dependencies
  <2>2. CASE \E i \in 0 .. Rounds : t \in g[i] /\ s \notin g[i]
    BY <1>2, <2>2
  <2>3. CASE \A i \in 0 .. Rounds : t \in g[i] <=> s \in g[i]
    BY <1>4, <1>7, <2>3
  <2>4. QED
    BY <1>3, <1>7, <1>8, <2>1, <2>2, <2>3
<1>9. QED
  BY <1>7, <1>8 DEF t

----------------------------------------------------------------------------
(* The order in which rows come.                                           *)

\* The peer's rows: references the models have, no row its own ancestor.
SourceInv ==
    /\ \A S \in SUBSET DOMAIN source : S # {} => \E u \in S : source[u].refs \cap S = {}
    /\ \A u \in DOMAIN source : \A v \in source[u].refs :
          <<TableOf[u], TableOf[v]>> \in MayRef

\* The tables C are imported in their order: what a table depends on is among them
\* and not after it, the records at hand are of one table, and those of the tables
\* before it are in.
Ordered(C) ==
    /\ C \subseteq Of(pull.category) /\ pull.tables \subseteq C
    /\ \A t \in C : Dependencies(t) \subseteq C
    /\ \A t \in C \ pull.tables : Dependencies(t) \cap pull.tables = {}
    /\ pull.category = "main" => C \subseteq pull.selected
    /\ \A u \in pull.todo \cup pull.later : TableOf[u] \in C \ pull.tables
    /\ \A u, v \in pull.todo \cup pull.later : TableOf[u] = TableOf[v]
    /\ \A v \in DOMAIN source :
          (TableOf[v] \in C \ pull.tables /\ v \notin pull.todo \cup pull.later)
          => v \in DOMAIN pull.db

\* A pull is given up for a missing reference only when a `shared` row refers to a
\* `main` row that is not here: `shared` comes first.
GivenUpForMain ==
    pull.phase = "missing" =>
        \E u \in DOMAIN source : \E v \in source[u].refs :
            /\ Category[TableOf[u]] = "shared" /\ Category[TableOf[v]] = "main"
            /\ v \notin DOMAIN local

\* A table that is asked for has a key into a `shared` one.
KeyIntoShared == \E t \in pull.selected, s \in Of("shared") : <<t, s>> \in MayRef

\* All of `shared` is here as it is at the peer.
SharedArrived == \A v \in DOMAIN source : TableOf[v] \in Of("shared") => Arrived(v)

RowsInv ==
    pull.phase = "rows" =>
        /\ \E C \in SUBSET Tables : Ordered(C)
        /\ ~pull.moved => \A u \in pull.later : Missing(u) # {}
        /\ pull.category = "shared" => DOMAIN local \subseteq DOMAIN pull.db

SharedFirstInv ==
    InTransaction =>
        /\ \A t \in pull.selected : Dependencies(t) \subseteq pull.selected
        /\ pull.category = "main" =>
              pull.selected \subseteq Of("main") /\ (KeyIntoShared => SharedArrived)

OrderInv ==
    /\ SourceInv
    /\ RowsInv
    /\ SharedFirstInv
    /\ GivenUpForMain

\* Tables of a category depend on tables of that category.
LEMMA OfClosed == \A c : \A t \in Of(c) : Dependencies(t) \subseteq Of(c)
BY DEF Of, Dependencies

LEMMA ExpandedClosed ==
    ASSUME NEW t \in Tables, NEW x \in Expanded({t})
    PROVE  Dependencies(x) \subseteq Expanded({t})
<1> SUFFICES ASSUME NEW y \in Dependencies(x), NEW X \in SUBSET Tables, t \in X,
                    \A z \in X : Dependencies(z) \subseteq X
             PROVE  y \in X
  BY DEF Expanded, Dependencies
<1>1. x \in X
  BY DEF Expanded
<1>2. QED
  BY <1>1

LEMMA WellFormedSource ==
    ASSUME source \in WellFormed
    PROVE  SourceInv
BY DEF WellFormed, SourceInv

LEMMA InitOrder == Init => OrderInv
<1> SUFFICES ASSUME Init PROVE OrderInv
  OBVIOUS
<1>1. SourceInv
  BY WellFormedSource DEF Init
<1>2. RowsInv /\ SharedFirstInv /\ GivenUpForMain
  BY DEF Init, Idle, RowsInv, SharedFirstInv, GivenUpForMain, InTransaction
<1>3. QED
  BY <1>1, <1>2 DEF OrderInv

LEMMA StartOrder ==
    ASSUME IInv, OrderInv, NEW c \in {"main", "shared"}, NEW T \in SUBSET Of(c),
           \A t \in T : Dependencies(t) \subseteq T, NEW whole, Start(c, T, whole)
    PROVE  OrderInv'
<1> DEFINE first == IF NeedsShared(c, T, whole) THEN "shared" ELSE c
           C == IF first = c THEN T ELSE Of("shared")
<1>1. UNCHANGED <<source, local>>
  BY DEF Start
<1>2. /\ pull'.phase = "rows" /\ pull'.category = first /\ pull'.selected = T
      /\ pull'.tables = C /\ pull'.todo = {} /\ pull'.later = {} /\ pull'.db = local
  BY DEF Start, Idle
<1>3. first = c \/ (first = "shared" /\ c = "main")
  BY DEF NeedsShared
<1>4. C \in SUBSET Tables /\ C \subseteq Of(first)
  BY <1>3, OfTables
<1>5. \A t \in C : Dependencies(t) \subseteq C
  BY OfClosed
<1>6. first = "main" =>
        /\ c = "main" /\ C = T
        /\ \A t \in T, s \in Of("shared") : <<t, s>> \notin MayRef
  BY <1>3 DEF NeedsShared
<1> HIDE DEF first, C
<1>7. Ordered(C)'
  BY <1>2, <1>4, <1>5, <1>6 DEF Ordered
<1>8. RowsInv'
  BY <1>1, <1>2, <1>4, <1>7 DEF RowsInv
<1>9. SharedFirstInv'
  BY <1>2, <1>6 DEF SharedFirstInv, KeyIntoShared
<1>10. SourceInv' /\ GivenUpForMain'
  BY <1>1, <1>2 DEF OrderInv, SourceInv, GivenUpForMain
<1>11. QED
  BY <1>8, <1>9, <1>10 DEF OrderInv

\* Nothing is left to say when no transaction is open and nothing was missing.
LEMMA ClosingOrder ==
    ASSUME OrderInv, UNCHANGED source, NEW p \in {"idle", "clash"},
           pull' = [Idle EXCEPT !.phase = p]
    PROVE  OrderInv'
<1>1. pull'.phase = p
  BY DEF Idle
<1>2. RowsInv' /\ SharedFirstInv' /\ GivenUpForMain'
  BY <1>1 DEF RowsInv, SharedFirstInv, GivenUpForMain, InTransaction
<1>3. SourceInv'
  BY DEF OrderInv, SourceInv
<1>4. QED
  BY <1>2, <1>3 DEF OrderInv

\* The next table depends on none that comes after it.
LEMMA NextTableOrder ==
    ASSUME TablesAcyclic, IInv, OrderInv, NextTable
    PROVE  OrderInv'
<1> DEFINE t == First(pull.tables)
           records == {u \in DOMAIN source : TableOf[u] = t}
<1>0. /\ pull.phase = "rows" /\ pull.todo = {} /\ pull.later = {}
      /\ pull.tables # {} /\ UNCHANGED <<source, local>>
  BY DEF NextTable
<1>1. pull' = [pull EXCEPT !.tables = pull.tables \ {t}, !.moved = FALSE,
                           !.todo = records]
  BY DEF NextTable
<1>2. \A u \in DOMAIN source : u \in records <=> TableOf[u] = t
  OBVIOUS
<1>3. records \subseteq DOMAIN source
  OBVIOUS
<1>4. PICK C \in SUBSET Tables : Ordered(C)
  BY <1>0 DEF OrderInv, RowsInv
<1>5. t \in pull.tables /\ Dependencies(t) \cap pull.tables = {}
  <2>1. pull.category \in {"main", "shared"} /\ pull.tables \in SUBSET Of(pull.category)
    BY <1>4, Facts DEF Ordered, Pull
  <2>2. QED
    BY <1>0, <2>1, FirstIsFree
<1> HIDE DEF t, records
<1>6. /\ pull'.phase = "rows" /\ pull'.category = pull.category
      /\ pull'.selected = pull.selected /\ pull'.tables = pull.tables \ {t}
      /\ pull'.todo = records /\ pull'.later = {} /\ pull'.db = pull.db
  BY <1>0, <1>1, Facts DEF Pull
<1>7. Ordered(C)'
  BY <1>0, <1>2, <1>3, <1>4, <1>5, <1>6 DEF Ordered
<1>8. RowsInv'
  BY <1>0, <1>6, <1>7 DEF OrderInv, RowsInv
<1>9. SharedFirstInv'
  BY <1>0, <1>6
     DEF OrderInv, SharedFirstInv, KeyIntoShared, SharedArrived, Arrived, InTransaction
<1>10. SourceInv' /\ GivenUpForMain'
  BY <1>0, <1>6 DEF OrderInv, SourceInv, GivenUpForMain
<1>11. QED
  BY <1>8, <1>9, <1>10 DEF OrderInv

LEMMA ImportRowOrder ==
    ASSUME IInv, OrderInv, NEW u \in Uuids, ImportRow(u)
    PROVE  OrderInv'
<1>0. /\ pull.phase = "rows" /\ u \in pull.todo /\ u \in DOMAIN source
      /\ UNCHANGED <<source, local>>
  BY DEF ImportRow, IInv, ArrivalInv
<1> DEFINE W == Written(u)
<1>1. /\ DOMAIN W = DOMAIN pull.db \cup {u} /\ W[u] = source[u]
      /\ \A v \in DOMAIN pull.db \ {u} : W[v] = pull.db[v]
  BY <1>0, WrittenFacts DEF ImportRow, InTransaction
<1>2. pull' = [pull EXCEPT !.todo = pull.todo \ {u}, !.moved = TRUE, !.db = W]
  BY DEF ImportRow
<1> HIDE DEF W
<1>3. /\ pull'.phase = "rows" /\ pull'.category = pull.category
      /\ pull'.selected = pull.selected /\ pull'.tables = pull.tables
      /\ pull'.todo = pull.todo \ {u} /\ pull'.later = pull.later /\ pull'.db = W
      /\ pull'.moved
  BY <1>0, <1>2, Facts DEF Pull
<1>4. PICK C \in SUBSET Tables : Ordered(C)
  BY <1>0 DEF OrderInv, RowsInv
<1>5. Ordered(C)'
  BY <1>0, <1>1, <1>3, <1>4 DEF Ordered
<1>6. RowsInv'
  BY <1>0, <1>1, <1>3, <1>5 DEF OrderInv, RowsInv
<1>7. SharedArrived => SharedArrived'
  BY <1>0, <1>1, <1>3 DEF SharedArrived, Arrived
<1>8. SharedFirstInv'
  BY <1>0, <1>3, <1>7 DEF OrderInv, SharedFirstInv, KeyIntoShared, InTransaction
<1>9. SourceInv' /\ GivenUpForMain'
  BY <1>0, <1>3 DEF OrderInv, SourceInv, GivenUpForMain
<1>10. QED
  BY <1>6, <1>8, <1>9 DEF OrderInv

LEMMA PutOffRowOrder ==
    ASSUME IInv, OrderInv, NEW u \in Uuids, PutOffRow(u)
    PROVE  OrderInv'
<1>0. /\ pull.phase = "rows" /\ u \in pull.todo /\ Missing(u) # {}
      /\ UNCHANGED <<source, local>>
  BY DEF PutOffRow
<1>1. pull' = [pull EXCEPT !.todo = pull.todo \ {u}, !.later = pull.later \cup {u}]
  BY DEF PutOffRow
<1>2. /\ pull'.phase = "rows" /\ pull'.category = pull.category
      /\ pull'.selected = pull.selected /\ pull'.tables = pull.tables
      /\ pull'.todo = pull.todo \ {u} /\ pull'.later = pull.later \cup {u}
      /\ pull'.db = pull.db /\ pull'.moved = pull.moved
  BY <1>0, <1>1, Facts DEF Pull
<1>3. pull'.todo \cup pull'.later = pull.todo \cup pull.later
  BY <1>0, <1>2
<1>4. PICK C \in SUBSET Tables : Ordered(C)
  BY <1>0 DEF OrderInv, RowsInv
<1>5. Ordered(C)'
  BY <1>0, <1>2, <1>3, <1>4 DEF Ordered
<1>6. \A v : Missing(v)' = Missing(v)
  BY <1>0, <1>2 DEF Missing
<1>7. RowsInv'
  BY <1>0, <1>2, <1>5, <1>6 DEF OrderInv, RowsInv
<1>8. SharedFirstInv'
  BY <1>0, <1>2
     DEF OrderInv, SharedFirstInv, KeyIntoShared, SharedArrived, Arrived, InTransaction
<1>9. SourceInv' /\ GivenUpForMain'
  BY <1>0, <1>2 DEF OrderInv, SourceInv, GivenUpForMain
<1>10. QED
  BY <1>7, <1>8, <1>9 DEF OrderInv

\* When a whole pass has imported nothing, a record is left whose references are
\* not among the others that are left.  What it misses is then not of its own
\* table, nor of one before it in its category, nor a `shared` row missed by `main`.
LEMMA StuckPass ==
    ASSUME IInv, OrderInv, pull.phase = "rows", pull.todo = {}, pull.later # {},
           ~pull.moved
    PROVE  \E u \in DOMAIN source : \E v \in source[u].refs :
              /\ Category[TableOf[u]] = "shared" /\ Category[TableOf[v]] = "main"
              /\ v \notin DOMAIN local
<1>1. PICK C \in SUBSET Tables : Ordered(C)
  BY DEF OrderInv, RowsInv
<1>2. pull.later \subseteq DOMAIN source
  BY DEF IInv, ArrivalInv
<1>3. PICK u \in pull.later : source[u].refs \cap pull.later = {}
  BY <1>2 DEF OrderInv, SourceInv
<1>4. PICK v \in Missing(u) : TRUE
  BY <1>3 DEF OrderInv, RowsInv
<1>5. /\ u \in DOMAIN source /\ v \in source[u].refs /\ v \in DOMAIN source
      /\ v \notin DOMAIN pull.db /\ v \notin pull.later
      /\ <<TableOf[u], TableOf[v]>> \in MayRef
  BY <1>2, <1>3, <1>4 DEF Missing, IInv, PeerInv, Consistent, OrderInv, SourceInv
<1> DEFINE t == TableOf[u]
           s == TableOf[v]
<1>6. /\ t \in C \ pull.tables /\ t \in Of(pull.category) /\ t \in Tables /\ s \in Tables
      /\ Category[t] \in {"main", "shared"} /\ Category[s] \in {"main", "shared"}
  BY <1>1, <1>3, <1>5, ImportAssumption DEF Ordered
<1>7. s \notin C \ pull.tables
  BY <1>1, <1>5 DEF Ordered
<1>8. Category[s] # Category[t]
  <2> SUFFICES ASSUME Category[s] = Category[t] PROVE FALSE
    OBVIOUS
  <2>1. s # t
    BY <1>6, <1>7
  <2>2. s \in Dependencies(t)
    BY <1>5, <1>6, <2>1 DEF Dependencies
  <2>3. s \in C /\ s \notin pull.tables
    BY <1>1, <1>6, <2>2 DEF Ordered
  <2>4. QED
    BY <1>7, <2>3
<1>9. pull.category = Category[t]
  BY <1>6 DEF Of
<1>10. CASE Category[t] = "main"
  <2>1. t \in pull.selected /\ s \in Of("shared")
    BY <1>1, <1>6, <1>8, <1>9, <1>10 DEF Ordered, Of
  <2>2. SharedArrived
    BY <1>5, <1>9, <1>10, <2>1
       DEF OrderInv, SharedFirstInv, InTransaction, KeyIntoShared
  <2>3. QED
    BY <1>5, <2>1, <2>2 DEF SharedArrived, Arrived
<1>11. CASE Category[t] = "shared"
  <2>1. DOMAIN local \subseteq DOMAIN pull.db
    BY <1>9, <1>11 DEF OrderInv, RowsInv
  <2>2. QED
    BY <1>5, <1>6, <1>8, <1>11, <2>1
<1>12. QED
  BY <1>6, <1>10, <1>11

LEMMA EndPassOrder ==
    ASSUME IInv, OrderInv, EndPass
    PROVE  OrderInv'
<1>0. /\ pull.phase = "rows" /\ pull.todo = {} /\ pull.later # {}
      /\ UNCHANGED <<source, local>>
  BY DEF EndPass
<1>1. SourceInv'
  BY <1>0 DEF OrderInv, SourceInv
<1>2. CASE ~pull.moved
  <2>1. pull'.phase = "missing"
    BY <1>2 DEF EndPass, Idle
  <2>2. GivenUpForMain'
    BY <1>0, <1>2, StuckPass DEF GivenUpForMain
  <2>3. RowsInv' /\ SharedFirstInv'
    BY <2>1 DEF RowsInv, SharedFirstInv, InTransaction
  <2>4. QED
    BY <1>1, <2>2, <2>3 DEF OrderInv
<1>3. CASE pull.moved
  <2>1. pull' = [pull EXCEPT !.todo = pull.later, !.later = {}, !.moved = FALSE]
    BY <1>3 DEF EndPass
  <2>2. /\ pull'.phase = "rows" /\ pull'.category = pull.category
        /\ pull'.selected = pull.selected /\ pull'.tables = pull.tables
        /\ pull'.todo = pull.later /\ pull'.later = {} /\ pull'.db = pull.db
    BY <1>0, <2>1, Facts DEF Pull
  <2>3. PICK C \in SUBSET Tables : Ordered(C)
    BY <1>0 DEF OrderInv, RowsInv
  <2>4. Ordered(C)'
    BY <1>0, <2>2, <2>3 DEF Ordered
  <2>5. RowsInv'
    BY <1>0, <2>2, <2>4 DEF OrderInv, RowsInv
  <2>6. SharedFirstInv' /\ GivenUpForMain'
    BY <1>0, <2>2 DEF OrderInv, SharedFirstInv, KeyIntoShared, SharedArrived, Arrived,
                      InTransaction, GivenUpForMain
  <2>7. QED
    BY <1>1, <2>5, <2>6 DEF OrderInv
<1>4. QED
  BY <1>2, <1>3

LEMMA BeginDeletionsOrder ==
    ASSUME IInv, OrderInv, BeginDeletions
    PROVE  OrderInv'
<1> DEFINE announced == {u \in graves : TableOf[u] \in Covered}
<1>0. pull.phase = "rows" /\ UNCHANGED <<source, local>>
  BY DEF BeginDeletions
<1>1. pull' = [pull EXCEPT !.phase = "deletions", !.todo = announced]
  BY DEF BeginDeletions
<1> HIDE DEF announced
<1>2. /\ pull'.phase = "deletions" /\ pull'.category = pull.category
      /\ pull'.selected = pull.selected /\ pull'.db = pull.db
  BY <1>1, Facts DEF Pull
<1>3. RowsInv' /\ GivenUpForMain'
  BY <1>2 DEF RowsInv, GivenUpForMain
<1>4. SourceInv' /\ SharedFirstInv'
  BY <1>0, <1>2 DEF OrderInv, SourceInv, SharedFirstInv, KeyIntoShared, SharedArrived,
                    Arrived, InTransaction
<1>5. QED
  BY <1>3, <1>4 DEF OrderInv

LEMMA DeleteRowOrder ==
    ASSUME IInv, OrderInv, NEW g \in Uuids, DeleteRow(g)
    PROVE  OrderInv'
<1>0. /\ pull.phase = "deletions" /\ g \in pull.todo /\ UNCHANGED <<source, local>>
  BY DEF DeleteRow
<1> DEFINE D == IF g \notin DOMAIN pull.db \/ Protected(g) THEN pull.db
                ELSE [v \in DOMAIN pull.db \ Victims(g) |-> pull.db[v]]
<1>1. pull' = [pull EXCEPT !.todo = pull.todo \ {g}, !.db = D]
  BY Facts DEF DeleteRow, Pull
<1>2. \A v \in DOMAIN source : v \in DOMAIN pull.db => v \in DOMAIN D /\ D[v] = pull.db[v]
  BY <1>0, VictimsAreGone
<1> HIDE DEF D
<1>3. /\ pull'.phase = "deletions" /\ pull'.category = pull.category
      /\ pull'.selected = pull.selected /\ pull'.db = D
  BY <1>0, <1>1, Facts DEF Pull
<1>4. SharedArrived => SharedArrived'
  BY <1>0, <1>2, <1>3 DEF SharedArrived, Arrived
<1>5. SharedFirstInv'
  BY <1>0, <1>3, <1>4 DEF OrderInv, SharedFirstInv, KeyIntoShared, InTransaction
<1>6. SourceInv' /\ RowsInv' /\ GivenUpForMain'
  BY <1>0, <1>3 DEF OrderInv, SourceInv, RowsInv, GivenUpForMain
<1>7. QED
  BY <1>5, <1>6 DEF OrderInv

\* `main` begins when all of `shared` is in.
LEMMA EndCategoryOrder ==
    ASSUME IInv, OrderInv, EndCategory
    PROVE  OrderInv'
<1>0. /\ pull.phase = "deletions" /\ pull.todo = {}
      /\ ~(pull.selected \subseteq Of(pull.category)) /\ UNCHANGED <<source, local>>
  BY DEF EndCategory
<1>1. pull' = [pull EXCEPT !.phase = "rows", !.category = "main",
                           !.tables = pull.selected]
  BY DEF EndCategory
<1>2. /\ pull'.phase = "rows" /\ pull'.category = "main"
      /\ pull'.selected = pull.selected /\ pull'.tables = pull.selected
      /\ pull'.todo = {} /\ pull'.later = {} /\ pull'.db = pull.db
  BY <1>0, <1>1, Facts DEF Pull, IInv, ArrivalInv
<1>3. pull.selected \subseteq Of("main")
  BY <1>0 DEF IInv, SelectionInv
<1>4. pull.category = "shared"
  BY <1>0, <1>3, Facts DEF Pull
<1>5. SharedArrived
  BY <1>0, <1>4 DEF IInv, ArrivalInv, Covered, SharedArrived
<1>6. pull.selected \in SUBSET Tables
      /\ \A t \in pull.selected : Dependencies(t) \subseteq pull.selected
  BY <1>0, Facts DEF OrderInv, SharedFirstInv, InTransaction
<1>8. RowsInv'
  <2>1. PICK C \in SUBSET Tables : C = pull.selected
    BY <1>6
  <2>2. Ordered(C)'
    BY <1>2, <1>3, <1>6, <2>1 DEF Ordered
  <2>3. QED
    BY <1>2, <2>2 DEF RowsInv
<1>9. SharedFirstInv'
  BY <1>0, <1>2, <1>3, <1>5, <1>6 DEF SharedFirstInv, SharedArrived, Arrived
<1>10. SourceInv' /\ GivenUpForMain'
  BY <1>0, <1>2 DEF OrderInv, SourceInv, GivenUpForMain
<1>11. QED
  BY <1>8, <1>9, <1>10 DEF OrderInv

\* Every step keeps the order of the rows.
LEMMA NextOrder ==
    ASSUME TablesAcyclic, IInv, OrderInv, Next
    PROVE  OrderInv'
<1>1. ASSUME NEW c \in {"main", "shared"}, StartFull(c) PROVE OrderInv'
  <2>1. \A t \in Of(c) : Dependencies(t) \subseteq Of(c)
    BY OfClosed
  <2>2. QED
    BY <1>1, <2>1, StartOrder DEF StartFull
<1>2. ASSUME NEW t \in Tables, StartTable(t) PROVE OrderInv'
  <2>1. Category[t] \in {"main", "shared"} /\ Expanded({t}) \in SUBSET Of(Category[t])
    BY ImportAssumption, ExpandedFacts
  <2>2. \A x \in Expanded({t}) : Dependencies(x) \subseteq Expanded({t})
    BY ExpandedClosed
  <2>3. QED
    BY <1>2, <2>1, <2>2, StartOrder DEF StartTable
<1>3. CASE NextTable
  BY <1>3, NextTableOrder
<1>4. ASSUME NEW u \in Uuids, ImportRow(u) \/ PutOffRow(u) \/ DeleteRow(u) PROVE OrderInv'
  BY <1>4, ImportRowOrder, PutOffRowOrder, DeleteRowOrder
<1>5. ASSUME NEW u \in Uuids, RefuseRow(u) PROVE OrderInv'
  BY <1>5, ClosingOrder DEF RefuseRow
<1>6. CASE EndPass
  BY <1>6, EndPassOrder
<1>7. CASE BeginDeletions
  BY <1>7, BeginDeletionsOrder
<1>8. CASE EndCategory
  BY <1>8, EndCategoryOrder
<1>9. CASE Commit \/ Dismiss
  <2>1. pull' = Idle /\ UNCHANGED source
    BY <1>9 DEF Commit, Dismiss
  <2>2. Idle = [Idle EXCEPT !.phase = "idle"]
    BY DEF Idle
  <2>3. QED
    BY <2>1, <2>2, ClosingOrder
<1>10. QED
  BY <1>1, <1>2, <1>3, <1>4, <1>5, <1>6, <1>7, <1>8, <1>9 DEF Next, Step

LEMMA OrderInvariant ==
    ASSUME TablesAcyclic
    PROVE  Spec => [](IInv /\ OrderInv)
<1>1. IInv /\ OrderInv /\ UNCHANGED vars => (IInv /\ OrderInv)'
  <2> SUFFICES ASSUME IInv, OrderInv, UNCHANGED vars PROVE (IInv /\ OrderInv)'
    OBVIOUS
  <2>1. IInv'
    BY DEF vars, IInv, TypeOK, PeerInv, LocalConsistent, SelectionInv, DatabaseInv,
           ArrivalInv, InTransaction, Arrived, Covered
  <2>2. SourceInv' /\ GivenUpForMain'
    BY DEF vars, OrderInv, SourceInv, GivenUpForMain
  <2>3. RowsInv'
    BY DEF vars, OrderInv, RowsInv, Ordered, Missing
  <2>4. SharedFirstInv'
    BY DEF vars, OrderInv, SharedFirstInv, SharedArrived, Arrived, KeyIntoShared,
           InTransaction
  <2>5. QED
    BY <2>1, <2>2, <2>3, <2>4 DEF OrderInv
<1>2. IInv /\ OrderInv /\ [Next]_vars => (IInv /\ OrderInv)'
  BY <1>1, NextIInv, NextOrder
<1>3. Init => IInv /\ OrderInv
  BY InitIInv, InitOrder
<1>4. QED
  BY <1>2, <1>3, PTL DEF Spec

\* A pull is given up for a missing reference only when a `shared` row refers to a
\* `main` row that is not here yet (Hands to TimeReference): the dependency order,
\* the passes, the tables added to a selection and the preload of `shared` bring
\* everything else before it is missed.
THEOREM GivenUpOnlyForMain ==
    ASSUME TablesAcyclic
    PROVE  Spec => []GivenUpForMain
<1>1. IInv /\ OrderInv => GivenUpForMain
  BY DEF OrderInv
<1>2. QED
  BY OrderInvariant, <1>1, PTL

\* The `main` rows that `shared` rows of the peer refer to are here.
MainRowsHere ==
    \A u \in DOMAIN source : \A v \in source[u].refs :
        Category[TableOf[u]] = "shared" /\ Category[TableOf[v]] = "main"
        => v \in DOMAIN local

\* Where the `main` rows that `shared` ones refer to have come once (by a pull of
\* their tables, or because there are none), no pull is ever given up for a missing
\* reference: the rows stay, as the peer has them.
THEOREM NeverMissing ==
    ASSUME TablesAcyclic
    PROVE  Spec /\ MainRowsHere => []NothingMissing
<1>1. IInv /\ OrderInv /\ MainRowsHere => NothingMissing
  BY DEF OrderInv, GivenUpForMain, MainRowsHere, NothingMissing
<1>2. IInv /\ MainRowsHere /\ [Next]_vars => MainRowsHere'
  <2> SUFFICES ASSUME IInv, MainRowsHere, [Next]_vars PROVE MainRowsHere'
    OBVIOUS
  <2>1. CASE Next
    <3>1. \A u \in DOMAIN source : source[u].refs \subseteq DOMAIN source
      BY DEF IInv, PeerInv, Consistent
    <3>2. UNCHANGED source /\ \A v \in DOMAIN local : v \in DOMAIN source => v \in DOMAIN local'
      BY <2>1, NextIInv
    <3>3. QED
      BY <3>1, <3>2 DEF MainRowsHere
  <2>2. CASE UNCHANGED vars
    BY <2>2 DEF vars, MainRowsHere
  <2>3. QED
    BY <2>1, <2>2
<1>3. QED
  BY OrderInvariant, <1>1, <1>2, PTL DEF Spec

----------------------------------------------------------------------------
(* What a pull leaves of the rows, and what is left of the deleted ones.   *)

\* The transaction sees rows as the peer has them, or as they were.
KnownInv ==
    InTransaction =>
        \A u \in DOMAIN pull.db :
            \/ u \in DOMAIN source /\ pull.db[u] = source[u]
            \/ u \in DOMAIN local /\ pull.db[u] = local[u]

\* The peer announces the deletion of every stray, and no stray is the ancestor of
\* itself.
StraysInv ==
    /\ Strays \subseteq graves
    /\ \A S \in SUBSET Strays : S # {} => \E u \in S : local[u].refs \cap S = {}

\* A pull of an instance that is up to date changes no row of the peer.
CurrentInv == InTransaction /\ UpToDate => \A u \in DOMAIN source : Arrived(u)

\* No stray refers to row y.
Loose(y) == \A z \in Strays : y \notin local[z].refs

\* The transaction has not come to the deletion of row y yet.
StillToCome(y) ==
    \/ pull.category = "shared" /\ Category[TableOf[y]] = "main"
    \/ pull.category = Category[TableOf[y]] /\ (pull.phase = "rows" \/ y \in pull.todo)

\* A full pull of an instance that is up to date.
Sweeping ==
    /\ InTransaction /\ UpToDate /\ cited = {}
    /\ pull.selected = Of("main") /\ NeedsShared("main", pull.selected, FALSE)

\* It deletes what no stray refers to.
SweepInv ==
    Sweeping => \A y \in Strays : Loose(y) /\ y \in DOMAIN pull.db => StillToCome(y)

KeptInv ==
    /\ KnownInv
    /\ StraysInv
    /\ CurrentInv
    /\ SweepInv

LEMMA InitKept == Init => KeptInv
<1> SUFFICES ASSUME Init PROVE KeptInv
  OBVIOUS
<1>1. KnownInv /\ CurrentInv /\ SweepInv
  BY DEF Init, Idle, KnownInv, CurrentInv, SweepInv, Sweeping, InTransaction
<1>2. \A S \in SUBSET DOMAIN local : S # {} => \E u \in S : local[u].refs \cap S = {}
  BY DEF Init, WellFormed
<1>3. StraysInv
  BY <1>2 DEF Init, StraysInv, Strays
<1>4. QED
  BY <1>1, <1>3 DEF KeptInv

\* A step that leaves the committed rows, and the deletions announced, alone.
LEMMA SameLocal ==
    ASSUME UNCHANGED <<source, graves, local, cited>>
    PROVE  /\ UpToDate' = UpToDate /\ Strays' = Strays
           /\ \A y : Loose(y)' = Loose(y)
           /\ StraysInv' = StraysInv
BY DEF UpToDate, Strays, Loose, StraysInv

LEMMA StartKept ==
    ASSUME IInv, KeptInv, NEW c \in {"main", "shared"}, NEW T \in SUBSET Of(c),
           NEW whole, Start(c, T, whole)
    PROVE  KeptInv'
<1> DEFINE first == IF NeedsShared(c, T, whole) THEN "shared" ELSE c
<1>0. UNCHANGED <<source, graves, local, cited>>
  BY DEF Start
<1>1. /\ pull'.phase = "rows" /\ pull'.category = first /\ pull'.selected = T
      /\ pull'.db = local
  BY DEF Start, Idle
<1>2. KnownInv' /\ CurrentInv'
  BY <1>0, <1>1, SameLocal DEF KnownInv, CurrentInv, Arrived, UpToDate
<1>3. StraysInv'
  BY <1>0, SameLocal DEF KeptInv
<1>4. SweepInv'
  <2> SUFFICES ASSUME Sweeping', NEW y \in Strays PROVE StillToCome(y)'
    BY <1>0, SameLocal DEF SweepInv
  <2>1. T = Of("main") /\ \E t \in T, s \in Of("shared") : <<t, s>> \in MayRef
    BY <1>1 DEF Sweeping, NeedsShared
  <2>2. Of("main") \cap Of("shared") = {}
    BY DEF Of
  <2>3. c = "main"
    BY <2>1, <2>2
  <2>4. first = "shared"
    BY <2>1, <2>3 DEF NeedsShared
  <2>5. Category[TableOf[y]] \in {"main", "shared"}
    <3>1. y \in Uuids
      BY Facts, DatabaseFacts DEF Strays
    <3>2. QED
      BY <3>1, ImportAssumption
  <2>6. QED
    BY <1>1, <2>4, <2>5 DEF StillToCome
<1>5. QED
  BY <1>2, <1>3, <1>4 DEF KeptInv

LEMMA ClosingKept ==
    ASSUME KeptInv, UNCHANGED <<source, graves, local, cited>>,
           pull'.phase \notin {"rows", "deletions"}
    PROVE  KeptInv'
<1>1. KnownInv' /\ CurrentInv' /\ SweepInv'
  BY DEF KnownInv, CurrentInv, SweepInv, Sweeping, InTransaction
<1>2. StraysInv'
  BY SameLocal DEF KeptInv
<1>3. QED
  BY <1>1, <1>2 DEF KeptInv

\* A step that moves records and tables about, and no row.
LEMMA BookkeepingKept ==
    ASSUME KeptInv, UNCHANGED <<source, graves, local, cited>>,
           InTransaction, pull'.selected = pull.selected, pull'.db = pull.db,
           \A y \in Strays :
              Sweeping /\ y \in DOMAIN pull.db /\ StillToCome(y) => StillToCome(y)'
    PROVE  KeptInv'
<1>1. KnownInv'
  BY DEF KeptInv, KnownInv
<1>2. CurrentInv'
  BY SameLocal DEF KeptInv, CurrentInv, Arrived
<1>3. Sweeping' => Sweeping
  BY SameLocal DEF Sweeping
<1>4. SweepInv'
  BY <1>3, SameLocal DEF KeptInv, SweepInv
<1>5. QED
  BY <1>1, <1>2, <1>4, SameLocal DEF KeptInv

LEMMA RowsKept ==
    ASSUME IInv, KeptInv,
           NextTable \/ (\E u \in Uuids : PutOffRow(u)) \/ (EndPass /\ pull.moved)
    PROVE  KeptInv'
<1>1. /\ pull.phase = "rows" /\ UNCHANGED <<source, graves, local, cited>>
      /\ pull'.phase = "rows" /\ pull'.category = pull.category
      /\ pull'.selected = pull.selected /\ pull'.db = pull.db
  <2>1. pull \in Pull
    BY Facts
  <2>2. CASE NextTable
    BY <2>1, <2>2 DEF NextTable, Pull
  <2>3. CASE \E u \in Uuids : PutOffRow(u)
    BY <2>1, <2>3 DEF PutOffRow, Pull
  <2>4. CASE EndPass /\ pull.moved
    BY <2>1, <2>4 DEF EndPass, Pull
  <2>5. QED
    BY <2>2, <2>3, <2>4
<1>2. \A y : StillToCome(y) => StillToCome(y)'
  BY <1>1 DEF StillToCome
<1>3. QED
  BY <1>1, <1>2, BookkeepingKept DEF InTransaction

LEMMA ImportRowKept ==
    ASSUME IInv, KeptInv, NEW u \in Uuids, ImportRow(u)
    PROVE  KeptInv'
<1>0. /\ pull.phase = "rows" /\ u \in pull.todo /\ u \in DOMAIN source
      /\ UNCHANGED <<source, graves, local, cited>>
  BY DEF ImportRow, IInv, ArrivalInv
<1> DEFINE W == Written(u)
<1>1. /\ DOMAIN W = DOMAIN pull.db \cup {u} /\ W[u] = source[u]
      /\ \A v \in DOMAIN pull.db \ {u} : W[v] = pull.db[v]
  BY <1>0, WrittenFacts DEF ImportRow, InTransaction
<1>2. pull' = [pull EXCEPT !.todo = pull.todo \ {u}, !.moved = TRUE, !.db = W]
  BY DEF ImportRow
<1> HIDE DEF W
<1>3. /\ pull'.phase = "rows" /\ pull'.category = pull.category
      /\ pull'.selected = pull.selected /\ pull'.db = W
  BY <1>0, <1>2, Facts DEF Pull
<1>4. KnownInv'
  BY <1>0, <1>1, <1>3 DEF KeptInv, KnownInv, InTransaction
<1>5. CurrentInv'
  BY <1>0, <1>1, <1>3, SameLocal DEF KeptInv, CurrentInv, Arrived, InTransaction
<1>6. SweepInv'
  <2>1. Sweeping' => Sweeping
    BY <1>0, <1>3, SameLocal DEF Sweeping, InTransaction
  <2>2. \A y \in Strays : y \in DOMAIN W => y \in DOMAIN pull.db
    BY <1>0, <1>1 DEF Strays
  <2>3. \A y : StillToCome(y) => StillToCome(y)'
    BY <1>0, <1>3 DEF StillToCome
  <2>4. QED
    BY <1>0, <1>3, <2>1, <2>2, <2>3, SameLocal DEF KeptInv, SweepInv
<1>7. QED
  BY <1>0, <1>4, <1>5, <1>6, SameLocal DEF KeptInv

\* Every stray is announced when the deletions of its category begin.
LEMMA BeginDeletionsKept ==
    ASSUME IInv, KeptInv, BeginDeletions
    PROVE  KeptInv'
<1> DEFINE announced == {u \in graves : TableOf[u] \in Covered}
<1>0. pull.phase = "rows" /\ UNCHANGED <<source, graves, local, cited>>
  BY DEF BeginDeletions
<1>1. pull' = [pull EXCEPT !.phase = "deletions", !.todo = announced]
  BY DEF BeginDeletions
<1>2. \A y \in graves : TableOf[y] \in Covered => y \in announced
  OBVIOUS
<1> HIDE DEF announced
<1>3. /\ pull'.phase = "deletions" /\ pull'.category = pull.category
      /\ pull'.selected = pull.selected /\ pull'.db = pull.db /\ pull'.todo = announced
  BY <1>1, Facts DEF Pull
<1>4. ASSUME NEW y \in Strays, Sweeping, StillToCome(y) PROVE StillToCome(y)'
  <2>1. CASE pull.category = "shared" /\ Category[TableOf[y]] = "main"
    BY <1>3, <2>1 DEF StillToCome
  <2>2. CASE pull.category = Category[TableOf[y]]
    <3>1. TableOf[y] \in Of(pull.category)
      <4>1. y \in Uuids
        BY Facts, DatabaseFacts DEF Strays
      <4>2. QED
        BY <2>2, <4>1, ImportAssumption DEF Of
    <3>2. pull.selected = Of("main") /\ pull.selected # {}
      BY <1>4 DEF Sweeping, NeedsShared
    <3>3. Covered = Of(pull.category)
      <4>1. CASE pull.category = "main"
        BY <3>2, <4>1 DEF Covered
      <4>2. CASE pull.category = "shared"
        BY <3>2, <4>2 DEF Covered, Of
      <4>3. QED
        BY <4>1, <4>2, Facts DEF Pull
    <3>4. y \in announced
      BY <1>2, <3>1, <3>3 DEF KeptInv, StraysInv
    <3>5. QED
      BY <1>3, <2>2, <3>4 DEF StillToCome
  <2>3. QED
    BY <1>4, <2>1, <2>2 DEF StillToCome
<1>5. QED
  BY <1>0, <1>3, <1>4, BookkeepingKept DEF InTransaction

\* When its turn comes, nothing stands in the way of a stray that no stray refers to.
LEMMA LooseIsFree ==
    ASSUME IInv, KeptInv, InTransaction, UpToDate, cited = {},
           NEW y \in Strays, Loose(y), y \in DOMAIN pull.db
    PROVE  y \in Victims(y) /\ ~Protected(y)
<1>1. ASSUME NEW w \in DOMAIN pull.db PROVE y \notin pull.db[w].refs
  <2>1. CASE w \in DOMAIN source
    <3>1. pull.db[w] = source[w]
      BY <2>1 DEF KeptInv, CurrentInv, Arrived
    <3>2. source[w].refs \subseteq DOMAIN source
      BY <2>1 DEF IInv, PeerInv, Consistent
    <3>3. QED
      BY <3>1, <3>2 DEF Strays
  <2>2. CASE w \notin DOMAIN source
    <3>1. w \in DOMAIN local /\ pull.db[w] = local[w]
      BY <2>2 DEF KeptInv, KnownInv
    <3>2. w \in Strays
      BY <2>2, <3>1 DEF Strays
    <3>3. QED
      BY <3>1, <3>2 DEF Loose
  <2>3. QED
    BY <2>1, <2>2
<1>2. Victims(y) \subseteq {y}
  <2>1. {y} \in SUBSET DOMAIN pull.db
    OBVIOUS
  <2>2. \A w \in DOMAIN pull.db : pull.db[w].refs \cap {y} = {}
    BY <1>1
  <2>3. QED
    BY <2>1, <2>2 DEF Victims
<1>3. y \in Victims(y)
  BY DEF Victims
<1>4. \A w \in DOMAIN pull.db : pull.db[w].refs \cap Victims(y) = {}
  BY <1>1, <1>2
<1>5. QED
  BY <1>3, <1>4 DEF Protected

LEMMA DeleteRowKept ==
    ASSUME IInv, KeptInv, NEW g \in Uuids, DeleteRow(g)
    PROVE  KeptInv'
<1>0. /\ pull.phase = "deletions" /\ g \in pull.todo
      /\ UNCHANGED <<source, graves, local, cited>>
  BY DEF DeleteRow
<1> DEFINE D == IF g \notin DOMAIN pull.db \/ Protected(g) THEN pull.db
                ELSE [v \in DOMAIN pull.db \ Victims(g) |-> pull.db[v]]
<1>1. pull' = [pull EXCEPT !.todo = pull.todo \ {g}, !.db = D]
  BY Facts DEF DeleteRow, Pull
<1>2. /\ DOMAIN D \subseteq DOMAIN pull.db /\ \A v \in DOMAIN D : D[v] = pull.db[v]
      /\ DOMAIN pull.db \cap DOMAIN source \subseteq DOMAIN D
  BY <1>0, VictimsAreGone
<1>3. g \in Victims(g) /\ ~Protected(g) => g \notin DOMAIN D
  OBVIOUS
<1> HIDE DEF D
<1>4. /\ pull'.phase = "deletions" /\ pull'.category = pull.category
      /\ pull'.selected = pull.selected /\ pull'.db = D /\ pull'.todo = pull.todo \ {g}
  BY <1>0, <1>1, Facts DEF Pull
<1>5. KnownInv'
  BY <1>0, <1>2, <1>4 DEF KeptInv, KnownInv, InTransaction
<1>6. CurrentInv'
  BY <1>0, <1>2, <1>4, SameLocal DEF KeptInv, CurrentInv, Arrived, InTransaction
<1>7. SweepInv'
  <2> SUFFICES ASSUME Sweeping', NEW y \in Strays, Loose(y), y \in DOMAIN D
               PROVE  StillToCome(y)'
    BY <1>0, <1>4, SameLocal DEF SweepInv
  <2>1. Sweeping
    BY <1>0, <1>4, SameLocal DEF Sweeping, InTransaction
  <2>2. y \in DOMAIN pull.db
    BY <1>2
  <2>3. StillToCome(y)
    BY <2>1, <2>2 DEF KeptInv, SweepInv
  <2>4. y # g
    BY <1>3, <2>1, <2>2, LooseIsFree DEF Sweeping
  <2>5. QED
    BY <1>0, <1>4, <2>3, <2>4 DEF StillToCome
<1>8. QED
  BY <1>0, <1>5, <1>6, <1>7, SameLocal DEF KeptInv

LEMMA EndCategoryKept ==
    ASSUME IInv, KeptInv, EndCategory
    PROVE  KeptInv'
<1>0. /\ pull.phase = "deletions" /\ pull.todo = {}
      /\ ~(pull.selected \subseteq Of(pull.category))
      /\ UNCHANGED <<source, graves, local, cited>>
  BY DEF EndCategory
<1>1. pull' = [pull EXCEPT !.phase = "rows", !.category = "main",
                           !.tables = pull.selected]
  BY DEF EndCategory
<1>2. /\ pull'.phase = "rows" /\ pull'.category = "main"
      /\ pull'.selected = pull.selected /\ pull'.db = pull.db
  BY <1>1, Facts DEF Pull
<1>3. ASSUME NEW y, StillToCome(y) PROVE StillToCome(y)'
  BY <1>0, <1>2, <1>3 DEF StillToCome
<1>4. QED
  BY <1>0, <1>2, <1>3, BookkeepingKept DEF InTransaction

\* Of finitely many strays that refer to each other without a cycle, one is referred
\* to by no other.
LEMMA LooseExists ==
    ASSUME IInv, StraysInv, IsFiniteSet(Uuids), Strays # {}
    PROVE  \E y \in Strays : Loose(y)
<1> DEFINE Free(T) == \E y \in T : \A z \in T : y \notin local[z].refs
           S == {n \in Nat : \A T \in SUBSET Strays :
                   IsFiniteSet(T) /\ Cardinality(T) = n /\ T # {} => Free(T)}
<1>1. 0 \in S
  BY FS_EmptySet
<1>2. ASSUME NEW n \in S PROVE n + 1 \in S
  <2> SUFFICES ASSUME NEW T \in SUBSET Strays, IsFiniteSet(T), Cardinality(T) = n + 1,
                      T # {}
               PROVE  Free(T)
    OBVIOUS
  <2>1. PICK u \in T : local[u].refs \cap T = {}
    BY DEF StraysInv
  <2>2. CASE T \ {u} = {}
    BY <2>1, <2>2
  <2>3. CASE T \ {u} # {}
    <3>1. IsFiniteSet(T \ {u}) /\ Cardinality(T \ {u}) = (n + 1) - 1
      BY <2>1, FS_RemoveElement
    <3>2. (n + 1) - 1 = n
      OBVIOUS
    <3>3. T \ {u} \in SUBSET Strays
      OBVIOUS
    <3>4. Free(T \ {u})
      BY <2>3, <3>1, <3>2, <3>3
    <3>5. QED
      BY <2>1, <3>4
  <2>4. QED
    BY <2>2, <2>3
<1>3. S \in SUBSET Nat
  OBVIOUS
<1> HIDE DEF S
<1>4. S = Nat
  BY <1>1, <1>2, <1>3, SetInduction
<1>5. IsFiniteSet(Strays) /\ Cardinality(Strays) \in Nat
  <2>1. Strays \subseteq Uuids
    BY Facts, DatabaseFacts DEF Strays
  <2>2. QED
    BY <2>1, FS_Subset, FS_CardinalityType
<1>6. Free(Strays)
  <2>1. Cardinality(Strays) \in S
    BY <1>4, <1>5
  <2>2. QED
    BY <1>5, <2>1 DEF S
<1>7. QED
  BY <1>6 DEF Loose

\* A commit leaves rows as they were or as the peer has them.
LEMMA CommitKnown ==
    ASSUME IInv, KeptInv, Commit
    PROVE  /\ UNCHANGED <<source, graves, cited>> /\ local' = pull.db
           /\ \A u \in DOMAIN local' :
                 \/ u \in DOMAIN source /\ local'[u] = source[u]
                 \/ u \in DOMAIN local /\ local'[u] = local[u]
           /\ Strays' \subseteq Strays /\ \A u \in Strays' : local'[u] = local[u]
           /\ UpToDate => UpToDate'
<1>1. /\ pull.phase = "deletions" /\ local' = pull.db
      /\ UNCHANGED <<source, graves, cited>>
  BY DEF Commit
<1>2. \A u \in DOMAIN local' :
         \/ u \in DOMAIN source /\ local'[u] = source[u]
         \/ u \in DOMAIN local /\ local'[u] = local[u]
  BY <1>1 DEF KeptInv, KnownInv, InTransaction
<1>3. Strays' \subseteq Strays /\ \A u \in Strays' : local'[u] = local[u]
  BY <1>1, <1>2 DEF Strays
<1>4. UpToDate => UpToDate'
  BY <1>1 DEF KeptInv, CurrentInv, InTransaction, UpToDate, Arrived
<1>5. QED
  BY <1>1, <1>2, <1>3, <1>4

LEMMA CommitKept ==
    ASSUME IInv, KeptInv, Commit
    PROVE  KeptInv'
<1>1. pull'.phase = "idle"
  BY DEF Commit, Idle
<1>2. KnownInv' /\ CurrentInv' /\ SweepInv'
  BY <1>1 DEF KnownInv, CurrentInv, SweepInv, Sweeping, InTransaction
<1>3. StraysInv'
  BY CommitKnown DEF KeptInv, StraysInv
<1>4. QED
  BY <1>2, <1>3 DEF KeptInv

LEMMA NextKept ==
    ASSUME IInv, KeptInv, Next
    PROVE  KeptInv'
<1>1. ASSUME NEW c \in {"main", "shared"}, StartFull(c) PROVE KeptInv'
  BY <1>1, StartKept DEF StartFull
<1>2. ASSUME NEW t \in Tables, StartTable(t) PROVE KeptInv'
  <2>1. Category[t] \in {"main", "shared"} /\ Expanded({t}) \in SUBSET Of(Category[t])
    BY ImportAssumption, ExpandedFacts
  <2>2. QED
    BY <1>2, <2>1, StartKept DEF StartTable
<1>3. CASE NextTable \/ \E u \in Uuids : PutOffRow(u)
  BY <1>3, RowsKept
<1>4. ASSUME NEW u \in Uuids, ImportRow(u) \/ DeleteRow(u) PROVE KeptInv'
  BY <1>4, ImportRowKept, DeleteRowKept
<1>5. ASSUME NEW u \in Uuids, RefuseRow(u) PROVE KeptInv'
  BY <1>5, ClosingKept DEF RefuseRow, Idle
<1>6. CASE EndPass
  <2>1. CASE pull.moved
    BY <1>6, <2>1, RowsKept
  <2>2. CASE ~pull.moved
    BY <1>6, <2>2, ClosingKept DEF EndPass, Idle
  <2>3. QED
    BY <2>1, <2>2
<1>7. CASE BeginDeletions
  BY <1>7, BeginDeletionsKept
<1>8. CASE EndCategory
  BY <1>8, EndCategoryKept
<1>9. CASE Commit
  BY <1>9, CommitKept
<1>10. CASE Dismiss
  BY <1>10, ClosingKept DEF Dismiss, Idle
<1>11. QED
  BY <1>1, <1>2, <1>3, <1>4, <1>5, <1>6, <1>7, <1>8, <1>9, <1>10 DEF Next, Step

LEMMA KeptInvariant == Spec => [](IInv /\ KeptInv)
<1>1. IInv /\ KeptInv /\ UNCHANGED vars => KeptInv'
  BY DEF vars, KeptInv, KnownInv, StraysInv, Strays, CurrentInv, UpToDate, Arrived,
         SweepInv, Sweeping, Loose, StillToCome, InTransaction
<1>2. KeptInv /\ IInv /\ [Next]_vars => KeptInv'
  BY <1>1, NextKept
<1>3. QED
  BY Invariant, InitKept, <1>2, PTL DEF Spec

\* Every other step leaves the committed rows alone.
LEMMA OnlyCommits ==
    ASSUME Next, ~Commit
    PROVE  UNCHANGED <<source, graves, local, cited>>
BY DEF Next, Step, StartFull, StartTable, Start, NextTable, ImportRow, PutOffRow,
       RefuseRow, EndPass, BeginDeletions, DeleteRow, EndCategory, Dismiss

\* A pull leaves every row as it was or as the peer has it, whatever the order of
\* records, passes and deletions.
THEOREM OnlyFromPeer ==
    Spec => [][\A u \in DOMAIN local' :
                  \/ u \in DOMAIN source /\ local'[u] = source[u]
                  \/ u \in DOMAIN local /\ local'[u] = local[u]]_vars
<1>1. IInv /\ KeptInv /\ [Next]_vars =>
         [\A u \in DOMAIN local' :
             \/ u \in DOMAIN source /\ local'[u] = source[u]
             \/ u \in DOMAIN local /\ local'[u] = local[u]]_vars
  BY CommitKnown, OnlyCommits
<1>2. QED
  BY KeptInvariant, <1>1, PTL DEF Spec

LEMMA CommitBrings ==
    ASSUME IInv, SharedFirstInv, Commit, NEW u \in DOMAIN source,
           \/ TableOf[u] \in pull.selected
           \/ TableOf[u] \in Of("shared") /\ NeedsShared(pull.category, pull.selected, FALSE)
    PROVE  u \in DOMAIN local' /\ local'[u] = source[u]
<1>1. /\ pull.phase = "deletions" /\ local' = pull.db
      /\ pull.selected \subseteq Of(pull.category)
  BY DEF Commit
<1>2. CASE TableOf[u] \in pull.selected
  BY <1>1, <1>2 DEF IInv, ArrivalInv, Covered, Arrived
<1>3. CASE TableOf[u] \in Of("shared") /\ NeedsShared(pull.category, pull.selected, FALSE)
  <2>1. SharedArrived
    BY <1>1, <1>3 DEF NeedsShared, SharedFirstInv, KeyIntoShared, InTransaction
  <2>2. QED
    BY <1>1, <1>3, <2>1 DEF SharedArrived, Arrived
<1>4. QED
  BY <1>2, <1>3

\* A pull that commits has brought the rows of the tables that were asked for, and
\* those of `shared` when one of them has a key into it.
THEOREM CommitBringsSelected ==
    ASSUME TablesAcyclic
    PROVE  Spec => BringsSelected
<1> DEFINE Brings ==
       Commit =>
         \A u \in DOMAIN source :
            (\/ TableOf[u] \in pull.selected
             \/ TableOf[u] \in Of("shared") /\ NeedsShared(pull.category, pull.selected, FALSE))
            => u \in DOMAIN local' /\ local'[u] = source[u]
<1>1. IInv /\ OrderInv /\ [Next]_vars => [Brings]_vars
  BY CommitBrings DEF OrderInv
<1>2. QED
  BY OrderInvariant, <1>1, PTL DEF Spec, BringsSelected

\* With `main` referring to `shared`, each full pull of an instance that is up to
\* date takes a deleted row away, until none is left: there are as many such pulls
\* as there are deleted rows, at most.
THEOREM EveryFullPullShrinks ==
    ASSUME TablesAcyclic, NeedsShared("main", Of("main"), FALSE), IsFiniteSet(Uuids)
    PROVE  Spec => FullPullsShrink
<1> DEFINE Shrinks ==
       Commit /\ pull.selected = Of("main") =>
         /\ UpToDate'
         /\ UpToDate /\ cited = {} /\ Strays # {}
               => Strays' \subseteq Strays /\ Strays' # Strays
<1>1. ASSUME IInv, OrderInv, KeptInv, Commit, pull.selected = Of("main")
      PROVE  /\ UpToDate'
             /\ UpToDate /\ cited = {} /\ Strays # {}
                   => Strays' \subseteq Strays /\ Strays' # Strays
  <2>1. /\ pull.phase = "deletions" /\ pull.todo = {} /\ local' = pull.db
        /\ pull.selected \subseteq Of(pull.category) /\ UNCHANGED source
    BY <1>1 DEF Commit
  <2>2. pull.category = "main"
    BY <1>1, <2>1 DEF NeedsShared, Of
  <2>3. UpToDate'
    <3>1. ASSUME NEW u \in DOMAIN source PROVE u \in DOMAIN local' /\ local'[u] = source[u]
      <4>1. TableOf[u] \in Of("main") \/ TableOf[u] \in Of("shared")
        <5>1. u \in Uuids
          BY <1>1, Facts, DatabaseFacts
        <5>2. QED
          BY <5>1, ImportAssumption DEF Of
      <4>2. QED
        BY <1>1, <2>2, <4>1, CommitBrings DEF OrderInv
    <3>2. QED
      BY <2>1, <3>1 DEF UpToDate
  <2>4. ASSUME UpToDate, cited = {}, Strays # {}
        PROVE  Strays' \subseteq Strays /\ Strays' # Strays
    <3>1. PICK y \in Strays : Loose(y)
      BY <1>1, <2>4, LooseExists DEF KeptInv
    <3>2. Sweeping
      BY <1>1, <2>1, <2>4 DEF Sweeping, InTransaction
    <3>3. ~StillToCome(y)
      BY <2>1, <2>2 DEF StillToCome
    <3>4. y \notin DOMAIN local'
      BY <1>1, <2>1, <3>1, <3>2, <3>3 DEF KeptInv, SweepInv
    <3>5. QED
      BY <1>1, <3>1, <3>4, CommitKnown DEF Strays
  <2>5. QED
    BY <2>3, <2>4
<1>2. IInv /\ OrderInv /\ KeptInv /\ [Next]_vars => [Shrinks]_vars
  BY <1>1
<1>3. QED
  BY OrderInvariant, KeptInvariant, <1>2, PTL DEF Spec, FullPullsShrink

\* An instance that is up to date stays so, whatever is pulled, and none of its
\* pulls is refused or given up.
THEOREM UpToDateStays ==
    ASSUME TablesAcyclic
    PROVE  Spec => [][UpToDate =>
                        /\ UpToDate'
                        /\ pull'.phase \in {"missing", "clash"} =>
                              pull.phase \in {"missing", "clash"}]_vars
<1> DEFINE Stays ==
       UpToDate =>
         /\ UpToDate'
         /\ pull'.phase \in {"missing", "clash"} => pull.phase \in {"missing", "clash"}
<1>1. ASSUME IInv, OrderInv, KeptInv, Next, UpToDate
      PROVE  Stays
  <2>1. UpToDate'
    BY <1>1, CommitKnown, OnlyCommits, SameLocal
  <2>2. ASSUME NEW u \in Uuids, RefuseRow(u) PROVE FALSE
    <3>1. /\ pull.phase = "rows" /\ u \in DOMAIN source /\ Refused(u)
      BY <1>1, <2>2 DEF RefuseRow, IInv, ArrivalInv
    <3>2. u \in DOMAIN pull.db /\ pull.db[u] = source[u]
      BY <1>1, <3>1 DEF KeptInv, CurrentInv, Arrived, InTransaction
    <3>3. PICK v \in DOMAIN pull.db : Clashing(Written(u), u, v)
      BY <3>1 DEF Refused
    <3>4. Written(u)[u].name = pull.db[u].name /\ Written(u)[v].name = pull.db[v].name
      BY <3>2, <3>3 DEF Written, Stored
    <3>5. Clashing(pull.db, u, v)
      BY <3>3, <3>4 DEF Clashing
    <3>6. QED
      BY <1>1, <3>1, <3>2, <3>5 DEF IInv, DatabaseInv, Consistent, InTransaction
  <2>3. EndPass => pull.moved
    <3> SUFFICES ASSUME EndPass, ~pull.moved PROVE FALSE
      OBVIOUS
    <3>1. pull.phase = "rows" /\ pull.later # {} /\ pull.later \subseteq DOMAIN source
      BY <1>1 DEF EndPass, IInv, ArrivalInv
    <3>2. PICK u \in pull.later : Missing(u) # {}
      BY <1>1, <3>1 DEF OrderInv, RowsInv
    <3>3. source[u].refs \subseteq DOMAIN source
      BY <1>1, <3>1, <3>2 DEF IInv, PeerInv, Consistent
    <3>4. DOMAIN source \subseteq DOMAIN pull.db
      BY <1>1, <3>1 DEF KeptInv, CurrentInv, Arrived, InTransaction
    <3>5. QED
      BY <3>2, <3>3, <3>4 DEF Missing
  <2>4. pull'.phase \in {"missing", "clash"} => pull.phase \in {"missing", "clash"}
    <3> SUFFICES ASSUME pull'.phase \in {"missing", "clash"} PROVE FALSE
      OBVIOUS
    <3>1. pull \in Pull
      BY <1>1, Facts
    <3>2. ~(\E c, T, whole : Start(c, T, whole))
      BY DEF Start, Idle
    <3>3. ~Commit /\ ~Dismiss
      BY DEF Commit, Dismiss, Idle
    <3>4. ~NextTable /\ ~BeginDeletions /\ ~EndCategory
      BY <3>1 DEF NextTable, BeginDeletions, EndCategory, Pull
    <3>5. ~EndPass
      BY <2>3, <3>1 DEF EndPass, Pull
    <3>6. ASSUME NEW u \in Uuids
          PROVE  ~(ImportRow(u) \/ PutOffRow(u) \/ RefuseRow(u) \/ DeleteRow(u))
      BY <2>2, <3>1 DEF ImportRow, PutOffRow, DeleteRow, Pull
    <3>7. QED
      BY <1>1, <3>2, <3>3, <3>4, <3>5, <3>6 DEF Next, Step, StartFull, StartTable
  <2>5. QED
    BY <2>1, <2>4
<1>2. IInv /\ OrderInv /\ KeptInv /\ [Next]_vars => [Stays]_vars
  BY <1>1
<1>3. QED
  BY OrderInvariant, KeptInvariant, <1>2, PTL DEF Spec

\* Where no row has the name that another row has at the peer, it stays so and no
\* pull is refused for a name.
THEOREM RefusedOnlyForName ==
    Spec => [][NoNameTaken =>
                 /\ NoNameTaken'
                 /\ pull'.phase = "clash" => pull.phase = "clash"]_vars
<1> DEFINE Free ==
       NoNameTaken =>
         /\ NoNameTaken'
         /\ pull'.phase = "clash" => pull.phase = "clash"
<1>1. ASSUME IInv, KeptInv, Next, NoNameTaken
      PROVE  Free
  <2>1. NoNameTaken'
    <3>1. CASE Commit
      <4>1. ASSUME NEW u \in DOMAIN source, NEW v \in DOMAIN local', u # v,
                   TableOf[u] = TableOf[v], TableOf[u] \in Unique
            PROVE  source[u].name # local'[v].name
        <5>1. CASE v \in DOMAIN source /\ local'[v] = source[v]
          BY <1>1, <4>1, <5>1 DEF IInv, PeerInv, Consistent, Clashing
        <5>2. CASE v \in DOMAIN local /\ local'[v] = local[v]
          BY <1>1, <4>1, <5>2 DEF NoNameTaken
        <5>3. QED
          BY <1>1, <3>1, <5>1, <5>2, CommitKnown
      <4>2. UNCHANGED source
        BY <3>1 DEF Commit
      <4>3. QED
        BY <4>1, <4>2 DEF NoNameTaken
    <3>2. CASE ~Commit
      BY <1>1, <3>2, OnlyCommits DEF NoNameTaken
    <3>3. QED
      BY <3>1, <3>2
  <2>2. ASSUME NEW u \in Uuids, RefuseRow(u) PROVE FALSE
    <3>1. /\ pull.phase = "rows" /\ u \in DOMAIN source /\ Refused(u)
      BY <1>1, <2>2 DEF RefuseRow, IInv, ArrivalInv
    <3>2. PICK v \in DOMAIN pull.db : Clashing(Written(u), u, v)
      BY <3>1 DEF Refused
    <3>3. /\ u # v /\ TableOf[u] = TableOf[v] /\ TableOf[u] \in Unique
          /\ source[u].name = pull.db[v].name
      BY <3>2 DEF Clashing, Written, Stored
    <3>4. CASE v \in DOMAIN source /\ pull.db[v] = source[v]
      BY <1>1, <3>1, <3>3, <3>4 DEF IInv, PeerInv, Consistent, Clashing
    <3>5. CASE v \in DOMAIN local /\ pull.db[v] = local[v]
      BY <1>1, <3>1, <3>3, <3>5 DEF NoNameTaken
    <3>6. QED
      BY <1>1, <3>1, <3>4, <3>5 DEF KeptInv, KnownInv, InTransaction
  <2>3. pull'.phase = "clash" => pull.phase = "clash"
    <3> SUFFICES ASSUME pull'.phase = "clash" PROVE FALSE
      OBVIOUS
    <3>1. pull \in Pull
      BY <1>1, Facts
    <3>2. ~(\E c, T, whole : Start(c, T, whole))
      BY DEF Start, Idle
    <3>3. ~NextTable /\ ~BeginDeletions /\ ~EndCategory /\ ~Commit /\ ~Dismiss
      <4>1. ~Commit /\ ~Dismiss
        BY DEF Commit, Dismiss, Idle
      <4>2. QED
        BY <3>1, <4>1 DEF NextTable, BeginDeletions, EndCategory, Pull
    <3>4. ~EndPass
      BY <3>1 DEF EndPass, Pull, Idle
    <3>5. ASSUME NEW u \in Uuids
          PROVE  ~(ImportRow(u) \/ PutOffRow(u) \/ RefuseRow(u) \/ DeleteRow(u))
      BY <2>2, <3>1 DEF ImportRow, PutOffRow, DeleteRow, Pull
    <3>6. QED
      BY <1>1, <3>2, <3>3, <3>4, <3>5 DEF Next, Step, StartFull, StartTable
  <2>4. QED
    BY <2>1, <2>3
<1>2. IInv /\ KeptInv /\ [Next]_vars => [Free]_vars
  BY <1>1
<1>3. QED
  BY KeptInvariant, <1>2, PTL DEF Spec

\* An instance equals its peer when it is up to date and no stray is left.
LEMMA Equal ==
    ASSUME IInv
    PROVE  local = source <=> UpToDate /\ Strays = {}
<1>1. local = source => UpToDate /\ Strays = {}
  BY DEF UpToDate, Strays
<1>2. ASSUME UpToDate, Strays = {} PROVE local = source
  <2>1. DOMAIN local = DOMAIN source /\ \A u \in DOMAIN source : local[u] = source[u]
    BY <1>2 DEF UpToDate, Strays
  <2>2. local \in [DOMAIN local -> Row] /\ source \in [DOMAIN source -> Row]
    BY Facts, DatabaseFacts
  <2>3. QED
    BY <2>1, <2>2
<1>3. QED
  BY <1>1, <1>2

\* Once an instance equals its peer, no pull of anything changes it.
THEOREM EqualStays == Spec => [][local = source => local' = source']_vars
<1>1. ASSUME IInv, IInv', KeptInv, Next, local = source
      PROVE  local' = source'
  <2>1. UpToDate /\ Strays = {}
    BY <1>1, Equal
  <2>2. CASE Commit
    <3>1. UpToDate' /\ Strays' = {}
      BY <1>1, <2>1, <2>2, CommitKnown
    <3>2. \A u \in DOMAIN source : local'[u] = source'[u]
      BY <2>2, <3>1, CommitKnown, <1>1 DEF UpToDate
    <3>3. DOMAIN local' = DOMAIN source'
      BY <3>1 DEF UpToDate, Strays
    <3>4. local' \in [DOMAIN local' -> Row] /\ source' \in [DOMAIN source' -> Row]
      <4>1. local' \in Databases /\ source' \in Databases
        BY <1>1 DEF IInv, TypeOK
      <4>2. QED
        BY <4>1 DEF Databases
    <3>5. QED
      BY <1>1, <2>2, <3>2, <3>3, <3>4, CommitKnown
  <2>3. CASE ~Commit
    BY <1>1, <2>3, OnlyCommits
  <2>4. QED
    BY <2>2, <2>3
<1>2. IInv /\ IInv' /\ KeptInv /\ [Next]_vars => [local = source => local' = source']_vars
  BY <1>1
<1>3. QED
  BY KeptInvariant, <1>2, PTL DEF Spec
=============================================================================
