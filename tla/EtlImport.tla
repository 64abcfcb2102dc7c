----------------------------- MODULE EtlImport -----------------------------
(***************************************************************************)
(* How a pull turns a peer's export into local rows: table by table in     *)
(* dependency order, each table in as many passes as its references need,  *)
(* then the deletions, all in one transaction.                             *)
(*                                                                         *)
(* The peer's rows do not change while they are imported (EtlShared and    *)
(* EtlMain have the races with editors and other pulls, and the conflicts).*)
(* Where an instance starts is any state the peer once had: rows may since *)
(* have been added, renamed, pointed elsewhere and deleted at the peer.    *)
(*                                                                         *)
(* References are foreign keys.  A key into the row's own table is         *)
(* on_delete=CASCADE and any other PROTECT, as in the `main` and `shared`  *)
(* models; many-to-many links protect nothing and are left out.            *)
(***************************************************************************)
EXTENDS Naturals, FiniteSets, TLC

CONSTANTS
    Tables,    \* numbered in the alphabetical order of their names
    Category,  \* Category[t] is "main" or "shared"
    MayRef,    \* <<t, s>>: table t has a foreign key into table s
    Unique,    \* tables whose names are unique
    Uuids,     \* rows
    TableOf,   \* TableOf[u]: the table of row u
    Names,     \* what a row may say
    MaxRefs    \* bound on the references of one row

ASSUME ImportAssumption ==
    /\ Tables \subseteq Nat /\ IsFiniteSet(Tables)
    /\ Category \in [Tables -> {"main", "shared"}]
    /\ MayRef \subseteq Tables \X Tables
    /\ Unique \subseteq Tables
    /\ TableOf \in [Uuids -> Tables]
    /\ MaxRefs \in Nat

VARIABLES
    source,  \* the rows of the peer, a function on the uuids it has
    graves,  \* rows the peer has deleted
    local,   \* the committed rows of this instance
    cited,   \* local rows that manuscripts reference (PROTECT)
    pull     \* the pull under way

vars == <<source, graves, local, cited, pull>>

----------------------------------------------------------------------------
(* Databases. *)

Row == [name : Names, refs : SUBSET Uuids]

Databases == UNION {[S -> Row] : S \in SUBSET Uuids}

\* Two rows of a table that may not have the same name.
Clashing(db, u, v) ==
    /\ u # v /\ TableOf[u] = TableOf[v] /\ TableOf[u] \in Unique
    /\ db[u].name = db[v].name

\* What the database guarantees.
Consistent(db) ==
    /\ \A u \in DOMAIN db : db[u].refs \subseteq DOMAIN db
    /\ \A u, v \in DOMAIN db : ~Clashing(db, u, v)

\* What the editors produce: references the models have, no row its own ancestor.
WellFormed ==
    LET Referring(S) == [name : Names, refs : {R \in SUBSET S : Cardinality(R) <= MaxRefs}]
        Acyclic(db) == \A S \in SUBSET DOMAIN db :
                           S # {} => \E u \in S : db[u].refs \cap S = {}
    IN UNION {{db \in [S -> Referring(S)] :
                  /\ Consistent(db) /\ Acyclic(db)
                  /\ \A u \in S : \A v \in db[u].refs : <<TableOf[u], TableOf[v]>> \in MayRef}
              : S \in SUBSET Uuids}

----------------------------------------------------------------------------
(* Tables and their order. *)

\* The other tables of its category that a table refers to.
Dependencies(t) ==
    {s \in Tables \ {t} : <<t, s>> \in MayRef /\ Category[s] = Category[t]}

Of(category) == {t \in Tables : Category[t] = category}

\* The selected tables, and all that they refer to within their category.
Expanded(T) ==
    {t \in Tables : \A X \in SUBSET Tables :
        (T \subseteq X /\ \A x \in X : Dependencies(x) \subseteq X) => t \in X}

\* A pull of the whole of `main`, or of a table with a key into a `shared` one,
\* starts with all of `shared`.
NeedsShared(category, T, whole) ==
    /\ category = "main"
    /\ whole \/ \E t \in T, s \in Of("shared") : <<t, s>> \in MayRef

\* A round places the tables whose dependencies are placed, or all the rest when
\* there are none.
Round(category, placed) ==
    LET ready == {t \in Of(category) : Dependencies(t) \subseteq placed}
    IN  IF ready \subseteq placed THEN Of(category) ELSE placed \cup ready

\* The tables placed after i rounds.
Placed[category \in {"main", "shared"}] ==
    LET placed[i \in 0 .. Cardinality(Tables)] ==
            IF i = 0 THEN {} ELSE Round(category, placed[i - 1])
    IN placed

\* Table s is imported before table t.
Before(s, t) ==
    LET placed == Placed[Category[t]] IN
    \/ \E i \in DOMAIN placed : s \in placed[i] /\ t \notin placed[i]
    \/ s < t /\ \A i \in DOMAIN placed : s \in placed[i] <=> t \in placed[i]

\* Variant: in the order of the names.
First_Alphabetical(T) == CHOOSE t \in T : \A s \in T : t <= s
First(T) == CHOOSE t \in T : \A s \in T \ {t} : Before(t, s)

\* No table depends on itself, be it through others of its category.
TablesAcyclic ==
    \A X \in SUBSET Tables : X # {} => \E t \in X : Dependencies(t) \cap X = {}

----------------------------------------------------------------------------
Pull == [phase : {"idle", "rows", "deletions", "missing", "clash"},
         category : {"main", "shared"},  \* the category being imported
         selected : SUBSET Tables,       \* what is asked for, expanded
         tables : SUBSET Tables,         \* still to import
         todo : SUBSET Uuids,            \* of the current table, in this pass
         later : SUBSET Uuids,           \* put off to the next pass
         moved : BOOLEAN,                \* this pass has imported something
         db : Databases]                 \* what the transaction sees

Idle == [phase |-> "idle", category |-> "shared", selected |-> {}, tables |-> {},
         todo |-> {}, later |-> {}, moved |-> FALSE, db |-> <<>>]

TypeOK ==
    /\ source \in Databases /\ local \in Databases
    /\ graves \subseteq Uuids /\ cited \subseteq DOMAIN local
    /\ pull \in Pull

Init ==
    /\ source \in WellFormed /\ local \in WellFormed
    /\ graves = DOMAIN local \ DOMAIN source
    /\ cited \in SUBSET DOMAIN local
    /\ pull = Idle

----------------------------------------------------------------------------
(* A pull of a category, or of one table and what it refers to.            *)

Start(category, T, whole) ==
    /\ pull.phase = "idle"
    /\ LET first == IF NeedsShared(category, T, whole) THEN "shared" ELSE category IN
       pull' = [Idle EXCEPT !.phase = "rows", !.category = first, !.selected = T,
                            !.tables = IF first = category THEN T ELSE Of("shared"),
                            !.db = local]
    /\ UNCHANGED <<source, graves, local, cited>>

\* The records of the next table.
NextTable ==
    /\ pull.phase = "rows" /\ pull.tables # {}
    /\ pull.todo = {} /\ pull.later = {}
    /\ LET t == First(pull.tables) IN
       pull' = [pull EXCEPT !.tables = @ \ {t}, !.moved = FALSE,
                            !.todo = {u \in DOMAIN source : TableOf[u] = t}]
    /\ UNCHANGED <<source, graves, local, cited>>

\* The records are sorted by entry_date, which says nothing of what they refer
\* to: any order.  A record may refer to itself.
Missing(u) == source[u].refs \ (DOMAIN pull.db \cup {u})

\* Every field of the record is stored.  Variant: an update skips the references.
Stored_KeepsRefs(u) ==
    IF u \in DOMAIN pull.db THEN [source[u] EXCEPT !.refs = pull.db[u].refs] ELSE source[u]
Stored(u) == source[u]

Written(u) == [v \in DOMAIN pull.db \cup {u} |-> IF v = u THEN Stored(u) ELSE pull.db[v]]

Refused(u) == \E v \in DOMAIN pull.db : Clashing(Written(u), u, v)

ImportRow(u) ==
    /\ pull.phase = "rows" /\ u \in pull.todo
    /\ Missing(u) = {} /\ ~Refused(u)
    /\ pull' = [pull EXCEPT !.todo = @ \ {u}, !.moved = TRUE, !.db = Written(u)]
    /\ UNCHANGED <<source, graves, local, cited>>

PutOffRow(u) ==
    /\ pull.phase = "rows" /\ u \in pull.todo
    /\ Missing(u) # {}
    /\ pull' = [pull EXCEPT !.todo = @ \ {u}, !.later = @ \cup {u}]
    /\ UNCHANGED <<source, graves, local, cited>>

\* The unique constraint refuses the row: the transaction is rolled back.
RefuseRow(u) ==
    /\ pull.phase = "rows" /\ u \in pull.todo
    /\ Missing(u) = {} /\ Refused(u)
    /\ pull' = [Idle EXCEPT !.phase = "clash"]
    /\ UNCHANGED <<source, graves, local, cited>>

\* Another pass, if the last one imported anything; else the import gives up.
EndPass ==
    /\ pull.phase = "rows" /\ pull.todo = {} /\ pull.later # {}
    /\ pull' = IF pull.moved
               THEN [pull EXCEPT !.todo = pull.later, !.later = {}, !.moved = FALSE]
               ELSE [Idle EXCEPT !.phase = "missing"]
    /\ UNCHANGED <<source, graves, local, cited>>

\* Variant: the preload of `shared` brings no deletions.
Covered_SelectedOnly == pull.selected

\* The tables whose deletions come with the rows of the current category.
Covered == IF pull.selected \subseteq Of(pull.category) THEN pull.selected
           ELSE Of(pull.category)

BeginDeletions ==
    /\ pull.phase = "rows" /\ pull.tables = {}
    /\ pull.todo = {} /\ pull.later = {}
    /\ pull' = [pull EXCEPT !.phase = "deletions",
                            !.todo = {u \in graves : TableOf[u] \in Covered}]
    /\ UNCHANGED <<source, graves, local, cited>>

\* Variant: rows of the same table keep their reference to the deleted one.
Victims_Alone(u) == {u} \cap DOMAIN pull.db

\* The rows a deletion takes along, and those that stand in its way.
Victims(u) ==
    {v \in DOMAIN pull.db : \A X \in SUBSET DOMAIN pull.db :
        (/\ u \in X
         /\ \A w \in DOMAIN pull.db :
               (TableOf[w] = TableOf[u] /\ pull.db[w].refs \cap X # {}) => w \in X)
        => v \in X}

Protected(u) ==
    \/ Victims(u) \cap cited # {}
    \/ \E w \in DOMAIN pull.db :
          TableOf[w] # TableOf[u] /\ pull.db[w].refs \cap Victims(u) # {}

\* In the order of deleted_at: any, as a row may have been freed for deletion by
\* a change of another.
DeleteRow(u) ==
    /\ pull.phase = "deletions" /\ u \in pull.todo
    /\ pull' = [pull EXCEPT
                  !.todo = @ \ {u},
                  !.db = IF u \notin DOMAIN @ \/ Protected(u) THEN @
                         ELSE [v \in DOMAIN @ \ Victims(u) |-> @[v]]]
    /\ UNCHANGED <<source, graves, local, cited>>

\* After `shared` comes the category that was asked for, then the commit.
EndCategory ==
    /\ pull.phase = "deletions" /\ pull.todo = {}
    /\ ~(pull.selected \subseteq Of(pull.category))
    /\ pull' = [pull EXCEPT !.phase = "rows", !.category = "main", !.tables = pull.selected]
    /\ UNCHANGED <<source, graves, local, cited>>

Commit ==
    /\ pull.phase = "deletions" /\ pull.todo = {}
    /\ pull.selected \subseteq Of(pull.category)
    /\ local' = pull.db
    /\ pull' = Idle
    /\ UNCHANGED <<source, graves, cited>>

\* The error has been read.
Dismiss ==
    /\ pull.phase \in {"missing", "clash"}
    /\ pull' = Idle
    /\ UNCHANGED <<source, graves, local, cited>>

----------------------------------------------------------------------------
StartFull(category) == Start(category, Of(category), TRUE)

StartTable(t) == Start(Category[t], Expanded({t}), FALSE)

Step ==
    \/ NextTable
    \/ \E u \in Uuids : ImportRow(u) \/ PutOffRow(u) \/ RefuseRow(u) \/ DeleteRow(u)
    \/ EndPass \/ BeginDeletions \/ EndCategory \/ Commit \/ Dismiss

Next ==
    \/ \E category \in {"main", "shared"} : StartFull(category)
    \/ \E t \in Tables : StartTable(t)
    \/ Step

Spec == Init /\ [][Next]_vars

\* A transaction runs to its end, and full pulls are repeated.
Fairness == WF_vars(Step) /\ SF_vars(StartFull("main"))

FairSpec == Spec /\ Fairness

----------------------------------------------------------------------------
(* Safety. *)

\* What is committed is consistent: every reference leads to a row and unique
\* names are unique, also after a pull that covers some tables only and after
\* deletions that were skipped or that took other rows along.
LocalConsistent == Consistent(local)

\* A row that the peer still has does not leave this instance.  A deletion takes
\* along the rows that refer to the deleted one, so this takes that the records
\* of a table are in, with what they refer to now, before its deletions are.
LiveRowsStay ==
    [][\A u \in DOMAIN local : u \in DOMAIN source => u \in DOMAIN local']_vars

\* No pull is ever given up for a missing reference: the dependency order, the
\* passes, the tables added to a selection and the preload of `shared` bring
\* everything a record refers to before the record is given up.
NothingMissing == pull.phase # "missing"

\* A pull that commits has brought every row of the tables that were asked for, as
\* the peer has it, and every row of `shared` when one of them has a key into it.
BringsSelected ==
    [][Commit =>
         \A u \in DOMAIN source :
            (\/ TableOf[u] \in pull.selected
             \/ TableOf[u] \in Of("shared") /\ NeedsShared(pull.category, pull.selected, FALSE))
            => u \in DOMAIN local' /\ local'[u] = source[u]]_vars

\* Every row of the peer is here, as it is there.
UpToDate == \A u \in DOMAIN source : u \in DOMAIN local /\ local[u] = source[u]

\* What is here although the peer has deleted it.
Strays == DOMAIN local \ DOMAIN source

\* A full pull brings an instance up to date, and the next one takes at least one
\* deleted row away, although a row that stands in the way of the deletion of
\* another may itself be deleted only after it was its turn.
FullPullsShrink ==
    [][Commit /\ pull.selected = Of("main") =>
         /\ UpToDate'
         /\ UpToDate /\ cited = {} /\ Strays # {}
               => Strays' \subseteq Strays /\ Strays' # Strays]_vars

(* Liveness. *)

\* No row here has the name that another row has at the peer.
NoNameTaken ==
    \A u \in DOMAIN source, v \in DOMAIN local :
        ~(/\ u # v /\ TableOf[u] = TableOf[v] /\ TableOf[u] \in Unique
          /\ source[u].name = local[v].name)

\* Repeated full pulls make this instance equal to its peer, unless manuscripts
\* hold on to deleted rows or a name is taken: deletions that came in an order in
\* which one row stood in the way of another are made up for.
FullPullsConverge ==
    cited = {} /\ NoNameTaken ~> [](local = source)
=============================================================================
