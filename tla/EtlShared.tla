----------------------------- MODULE EtlShared -----------------------------
(***************************************************************************)
(* Replication of the `shared` tables (Hands, Bibliography, Contributors,  *)
(* Watermarks) between eCatalogus instances.                               *)
(*                                                                         *)
(* Every instance edits its own copy.  A pull reads the peer's export and, *)
(* in a second request, the peer's list of deleted uuids, and then applies *)
(* both in one database transaction, row by row: it reads the row, decides *)
(* and updates it.  The isolation is READ COMMITTED and the row is read    *)
(* without a lock, so that a form may be saved in between; from the UPDATE *)
(* to the commit others who would write the row wait.  Rows carry a version *)
(* counter; a pull that would move a row backwards, or swap it for another *)
(* of the same version, stops on a conflict that an operator decides row   *)
(* by row, each decision starting the pull again with the decisions so far. *)
(*                                                                         *)
(* A row's payload is abstracted to the set of user edits it carries, an   *)
(* edit being named by the time of the save that made it.                  *)
(* Left out: the authors of a Watermark, a many-to-many field, whose edits *)
(* the version receiver does not see.                                      *)
(***************************************************************************)
EXTENDS Naturals, FiniteSets

CONSTANTS
    Instances,  \* the deployed sites
    Uuids,      \* rows of the shared tables
    Peers,      \* Peers[n]: the peers an operator of n may pull from
    Seeded,     \* rows every instance was installed with
    Editors,    \* instances whose staff create, edit and delete shared rows
    Citers,     \* instances whose manuscripts start or stop citing a row
    Categories, \* categories that are pulled: "shared", and "main" whose pull
                \* preloads `shared` first
    Sinces,     \* values of the `since` field; 0 stands for an empty one
    Decisions,  \* answers the operators give to a conflict
    MaxClock    \* bound on the saves and deletions made by users

ASSUME SharedAssumption ==
    /\ Peers \in [Instances -> SUBSET Instances]
    /\ Seeded \subseteq Uuids
    /\ Editors \subseteq Instances /\ Citers \subseteq Instances
    /\ Categories \subseteq {"shared", "main"}
    /\ Sinces \subseteq Nat
    /\ Decisions \subseteq {"apply_remote", "keep_local"}
    /\ MaxClock \in Nat

VARIABLES
    clock,  \* the number of timestamps handed out so far
    row,    \* row[n][u]: the row u in the database of n
    tomb,   \* tomb[n][u]: DeletedRecord.deleted_at of u at n, 0 when there is none
    cited,  \* cited[n]: rows that manuscripts of n reference (on_delete=PROTECT)
    form,   \* form[n][u]: the admin change form open on u at n
    op,     \* op[n]: the pull, or conflict workflow, running at n
    txn,    \* txn[n]: the transaction in which that pull imports
    overridden \* history: rows that an import has replaced although an operator had
            \* to force them, or although they had changed since it read them

vars == <<clock, row, tomb, cited, form, op, txn, overridden>>

----------------------------------------------------------------------------
Row == [version : Nat, content : SUBSET Nat, entry_date : Nat]
NoRow == [version |-> 0, content |-> {}, entry_date |-> 0]
Exists(r) == r.entry_date # 0

Form == [phase : {"closed", "open", "saving"}, base : SUBSET Nat,
         edited : BOOLEAN, version : Nat, live : BOOLEAN]
Closed == [phase |-> "closed", base |-> {}, edited |-> FALSE,
           version |-> 0, live |-> FALSE]

Pull == [phase : {"idle", "exported", "fetched", "conflict"},
         peer : Instances, category : {"shared", "main"}, since : Nat,
         exported : [Uuids -> Row], deleted : SUBSET Uuids,
         force : SUBSET Uuids, keep : SUBSET Uuids, asked : SUBSET Uuids,
         decision : {"none", "apply_remote", "keep_local"}]
Idle(n) == [phase |-> "idle", peer |-> n, category |-> "shared", since |-> 0,
            exported |-> [u \in Uuids |-> NoRow], deleted |-> {},
            force |-> {}, keep |-> {}, asked |-> {}, decision |-> "none"]

\* The local rows as the import has read them; the one it is to write next;
\* those it has written, which it has locked.
Txn == [read : [Uuids -> Row], checked : SUBSET Uuids, due : SUBSET Uuids,
        written : SUBSET Uuids]
NoTxn == [read |-> [u \in Uuids |-> NoRow], checked |-> {}, due |-> {}, written |-> {}]

TypeOK ==
    /\ clock \in Nat
    /\ row \in [Instances -> [Uuids -> Row]]
    /\ tomb \in [Instances -> [Uuids -> Nat]]
    /\ cited \in [Instances -> SUBSET Uuids]
    /\ form \in [Instances -> [Uuids -> Form]]
    /\ op \in [Instances -> Pull]
    /\ txn \in [Instances -> Txn]
    /\ overridden \in SUBSET Uuids

Init ==
    /\ clock = 1
    /\ row = [n \in Instances |-> [u \in Uuids |->
                 IF u \in Seeded
                 THEN [version |-> 1, content |-> {}, entry_date |-> 1]
                 ELSE NoRow]]
    /\ tomb = [n \in Instances |-> [u \in Uuids |-> 0]]
    /\ cited = [n \in Instances |-> {}]
    /\ form = [n \in Instances |-> [u \in Uuids |-> Closed]]
    /\ op = [n \in Instances |-> Idle(n)]
    /\ txn = [n \in Instances |-> NoTxn]
    /\ overridden = {}

----------------------------------------------------------------------------
(* Editing.  A uuid is drawn at random on creation, so it was never used.  *)

Fresh(u) ==
    \A n \in Instances : /\ ~Exists(row[n][u]) /\ tomb[n][u] = 0
                          /\ ~Exists(op[n].exported[u])

Create(n, u) ==
    /\ n \in Editors /\ clock < MaxClock
    /\ Fresh(u)
    /\ clock' = clock + 1
    /\ row' = [row EXCEPT ![n][u] = [version |-> 1, content |-> {clock + 1},
                                     entry_date |-> clock + 1]]
    /\ UNCHANGED <<tomb, cited, form, op, txn, overridden>>

\* Bounded: forms are opened only while every open one can still be saved.
OpenForms == {w \in Instances \X Uuids : form[w[1]][w[2]].phase # "closed"}

\* GET of the change form: the page carries every field as it was read.
OpenForm(n, u) ==
    /\ n \in Editors /\ clock + Cardinality(OpenForms) < MaxClock
    /\ Exists(row[n][u])
    /\ form[n][u].phase = "closed"
    /\ form' = [form EXCEPT ![n][u] = [phase |-> "open", base |-> row[n][u].content,
                                       edited |-> FALSE, version |-> 0, live |-> TRUE]]
    /\ UNCHANGED <<clock, row, tomb, cited, op, txn, overridden>>

\* Variant: the receiver is not connected and the version stays as it was.
SubmitForm_KeepsVersion(n, u, edited) ==
    /\ form[n][u].phase = "open"
    /\ form[n][u].live
    /\ form' = [form EXCEPT ![n][u] =
                    [@ EXCEPT !.phase = "saving", !.edited = edited,
                              !.version = row[n][u].version]]
    /\ UNCHANGED <<clock, row, tomb, cited, op, txn, overridden>>

\* POST of the form: the handler looks the row up, and the pre_save receiver
\* compares the submitted fields with the stored ones to choose the version.
SubmitForm(n, u, edited) ==
    /\ form[n][u].phase = "open"
    /\ form[n][u].live
    /\ form' = [form EXCEPT ![n][u] =
                    [@ EXCEPT !.phase = "saving",
                              !.edited = edited,
                              !.version = IF edited \/ form[n][u].base # row[n][u].content
                                          THEN row[n][u].version + 1
                                          ELSE row[n][u].version]]
    /\ UNCHANGED <<clock, row, tomb, cited, op, txn, overridden>>

\* No import that is under way has written the row.
Unlocked(n, u) == u \notin txn[n].written

\* The UPDATE, or the INSERT when the row is gone by now; it stores every field
\* of the form.  If another row took the uuid meanwhile the INSERT is refused.
WriteForm(n, u) ==
    /\ form[n][u].phase = "saving"
    /\ Unlocked(n, u)
    /\ form[n][u].live \/ ~Exists(row[n][u])
    /\ clock < MaxClock
    /\ clock' = clock + 1
    /\ row' = [row EXCEPT ![n][u] =
                  [version |-> form[n][u].version,
                   content |-> IF form[n][u].edited
                               THEN form[n][u].base \cup {clock + 1}
                               ELSE form[n][u].base,
                   entry_date |-> clock + 1]]
    /\ form' = [form EXCEPT ![n][u] = Closed]
    /\ UNCHANGED <<tomb, cited, op, txn, overridden>>

\* The page is left, the row is not found on POST, or the INSERT is refused.
CloseForm(n, u) ==
    /\ \/ form[n][u].phase = "open"
       \/ /\ form[n][u].phase = "saving"
          /\ ~form[n][u].live /\ Exists(row[n][u])
    /\ form' = [form EXCEPT ![n][u] = Closed]
    /\ UNCHANGED <<clock, row, tomb, cited, op, txn, overridden>>

\* Variant: a second deletion re-dates the tombstone.
Buried_Redated(graves, gone) ==
    [u \in Uuids |-> IF u \in gone THEN clock + 1 ELSE graves[u]]

\* pre_delete: update_or_create leaves the deleted_at of an older tombstone
\* (auto_now_add) as it is.
Buried(graves, gone) ==
    [u \in Uuids |-> IF u \in gone /\ graves[u] = 0 THEN clock + 1 ELSE graves[u]]

Detached(forms, gone) ==
    [u \in Uuids |-> IF u \in gone THEN [forms[u] EXCEPT !.live = FALSE] ELSE forms[u]]

Delete(n, u) ==
    /\ n \in Editors /\ clock < MaxClock
    /\ Exists(row[n][u])
    /\ Unlocked(n, u)
    /\ u \notin cited[n]
    /\ clock' = clock + 1
    /\ row' = [row EXCEPT ![n][u] = NoRow]
    /\ tomb' = [tomb EXCEPT ![n] = Buried(@, {u})]
    /\ form' = [form EXCEPT ![n] = Detached(@, {u})]
    /\ UNCHANGED <<cited, op, txn, overridden>>

\* A manuscript record of n is pointed at the row, or away from it.
Cite(n, u) ==
    /\ n \in Citers
    /\ Exists(row[n][u])
    /\ u \notin cited[n]
    /\ cited' = [cited EXCEPT ![n] = @ \cup {u}]
    /\ UNCHANGED <<clock, row, tomb, form, op, txn, overridden>>

Uncite(n, u) ==
    /\ n \in Citers
    /\ u \in cited[n]
    /\ cited' = [cited EXCEPT ![n] = @ \ {u}]
    /\ UNCHANGED <<clock, row, tomb, form, op, txn, overridden>>

----------------------------------------------------------------------------
(* Pulling.                                                                *)

\* Variant: the serialised record carries no version.
Export_Unversioned(m, since) ==
    [u \in Uuids |-> [content |-> row[m][u].content,
                      entry_date |-> IF row[m][u].entry_date > since
                                     THEN row[m][u].entry_date ELSE 0]]

Export(m, since) ==
    [u \in Uuids |-> IF row[m][u].entry_date > since THEN row[m][u] ELSE NoRow]

DeletedSince(m, since) == {u \in Uuids : tomb[m][u] > since}

\* An operator starts a pull.  The shared preload of a `main` pull ignores
\* `since`, and carries no decisions.
StartPull(n, m, c, since) ==
    /\ op[n].phase = "idle"
    /\ m \in Peers[n]
    /\ c = "main" => since = 0
    /\ op' = [op EXCEPT ![n] = [Idle(n) EXCEPT !.phase = "exported", !.peer = m,
                                               !.category = c, !.since = since,
                                               !.exported = Export(m, since)]]
    /\ UNCHANGED <<clock, row, tomb, cited, form, txn, overridden>>

FetchDeleted(n) ==
    /\ op[n].phase = "exported"
    /\ op' = [op EXCEPT ![n] =
                  [@ EXCEPT !.phase = "fetched",
                            !.deleted = DeletedSince(op[n].peer, op[n].since)]]
    /\ UNCHANGED <<clock, row, tomb, cited, form, txn, overridden>>

\* The decisions a running pull carries: those of the workflow, and the one
\* just taken on the row that was asked about.
Forced(p) ==
    IF p.decision = "apply_remote" THEN p.force \cup p.asked ELSE p.force \ p.asked
\* Variant: only the last answer is sent along.
Kept_OnlyLast(p) == IF p.decision = "keep_local" THEN p.asked ELSE {}

Kept(p) ==
    IF p.decision = "keep_local" THEN p.keep \cup p.asked ELSE p.keep \ p.asked

\* Variants: a forced row is asked about again; only the versions are compared.
Conflicting_IgnoresForced(p, local, incoming, u) ==
    /\ Exists(incoming) /\ Exists(local)
    /\ u \notin Kept(p)
    /\ \/ incoming.version < local.version
       \/ incoming.version = local.version /\ incoming # local
Conflicting_VersionOnly(p, local, incoming, u) ==
    /\ Exists(incoming) /\ Exists(local)
    /\ u \notin Kept(p) \cup Forced(p)
    /\ incoming.version < local.version

Conflicting(p, local, incoming, u) ==
    /\ Exists(incoming) /\ Exists(local)
    /\ u \notin Kept(p)
    /\ u \notin Forced(p)
    /\ \/ incoming.version < local.version
       \/ incoming.version = local.version /\ incoming # local

\* _import_model_records, one record after the other: the import is at u, and the
\* record before it has been dealt with.
At(n, u) ==
    /\ op[n].phase = "fetched"
    /\ Exists(op[n].exported[u])
    /\ u \notin txn[n].checked
    /\ txn[n].due = {}

\* A row that the operator keeps, or that would not change, is passed over.
Skipped(n, u) ==
    /\ Exists(row[n][u])
    /\ u \in Kept(op[n]) \/ row[n][u] = op[n].exported[u]

\* The local row is read, and checked for a conflict.
Checked(n, u) ==
    [txn[n] EXCEPT !.read[u] = row[n][u], !.checked = @ \cup {u},
                   !.due = IF Skipped(n, u) THEN {} ELSE {u}]

CheckRow(n, u) ==
    /\ At(n, u)
    /\ ~Conflicting(op[n], row[n][u], op[n].exported[u], u)
    /\ txn' = [txn EXCEPT ![n] = Checked(n, u)]
    /\ UNCHANGED <<clock, row, tomb, cited, form, op, overridden>>

\* update() or create() of every field, whatever the row has become since.
Written(n, u) == [txn[n] EXCEPT !.due = {}, !.written = @ \cup {u}]

UpdateRow(n, u) ==
    /\ u \in txn[n].due
    /\ Exists(row[n][u]) <=> Exists(txn[n].read[u])
    /\ txn' = [txn EXCEPT ![n] = Written(n, u)]
    /\ UNCHANGED <<clock, row, tomb, cited, form, op, overridden>>

\* The pull is given up: a first one is over, a repeated one leaves the conflict on
\* the operator's screen.
GivenUp(n) ==
    IF op[n].asked = {} THEN Idle(n)
    ELSE [op[n] EXCEPT !.phase = "conflict", !.decision = "none",
                       !.exported = [u \in Uuids |-> NoRow], !.deleted = {}]

\* The row is gone (refresh_from_db raises), or somebody else has created one.
ImportFails(n) ==
    /\ \E u \in txn[n].due : ~(Exists(row[n][u]) <=> Exists(txn[n].read[u]))
    /\ op' = [op EXCEPT ![n] = GivenUp(n)]
    /\ txn' = [txn EXCEPT ![n] = NoTxn]
    /\ UNCHANGED <<clock, row, tomb, cited, form, overridden>>

\* Variant: the record is stored through save(), whose receiver counts an edit.
Imported_Bumped(n) ==
    [u \in Uuids |-> IF u \in txn[n].written
                     THEN [op[n].exported[u] EXCEPT !.version = @ + 1] ELSE row[n][u]]

Imported(n) ==
    [u \in Uuids |-> IF u \in txn[n].written THEN op[n].exported[u] ELSE row[n][u]]

\* Variant: the references to a deleted row are set to NULL instead.
Removed_Cascade(n) == {u \in op[n].deleted : Exists(Imported(n)[u])}

\* Deletions the peer announced and no local record still protects.
Removed(n) ==
    {u \in op[n].deleted : Exists(Imported(n)[u]) /\ u \notin cited[n]}

\* Rows that were saved after the import had read them and before it wrote them.
Overtaken(n) == {u \in txn[n].written : row[n][u] # txn[n].read[u]}

\* After the last record the announced deletions, and the commit.
Import(n) ==
    /\ op[n].phase = "fetched"
    /\ txn[n].due = {}
    /\ \A u \in Uuids : Exists(op[n].exported[u]) => u \in txn[n].checked
    /\ LET gone == Removed(n) IN
       /\ row' = [row EXCEPT ![n] =
                     [u \in Uuids |-> IF u \in gone THEN NoRow ELSE Imported(n)[u]]]
       /\ tomb' = [tomb EXCEPT ![n] = Buried(@, gone)]
       /\ form' = [form EXCEPT ![n] = Detached(@, gone)]
       /\ clock' = IF \E u \in gone : tomb[n][u] = 0 THEN clock + 1 ELSE clock
    /\ op' = [op EXCEPT ![n] = Idle(n)]
    /\ txn' = [txn EXCEPT ![n] = NoTxn]
    /\ overridden' = overridden \cup Forced(op[n]) \cup Overtaken(n)
    /\ UNCHANGED cited

\* The transaction is rolled back on the first conflict, and the operator sees
\* both rows of u; the workflow keeps the decisions the pull carried.
StopOnConflict(n, u) ==
    /\ At(n, u)
    /\ Conflicting(op[n], row[n][u], op[n].exported[u], u)
    /\ op' = [op EXCEPT ![n] =
                  [@ EXCEPT !.phase = "conflict",
                            !.force = Forced(op[n]),
                            !.keep = Kept(op[n]),
                            !.asked = {u},
                            !.decision = "none",
                            !.exported = [v \in Uuids |-> NoRow],
                            !.deleted = {}]]
    /\ txn' = [txn EXCEPT ![n] = NoTxn]
    /\ UNCHANGED <<clock, row, tomb, cited, form, overridden>>

\* The operator answers, and the whole pull is repeated with the answer; only
\* a conflict of a `shared` pull can be answered.
Resolve(n, d) ==
    /\ op[n].phase = "conflict"
    /\ op[n].category = "shared"
    /\ op' = [op EXCEPT ![n] =
                  [@ EXCEPT !.phase = "exported",
                            !.decision = d,
                            !.exported = Export(op[n].peer, op[n].since)]]
    /\ UNCHANGED <<clock, row, tomb, cited, form, txn, overridden>>

\* A request to the peer fails.
FetchFails(n) ==
    /\ op[n].phase = "exported"
    /\ op' = [op EXCEPT ![n] = GivenUp(n)]
    /\ UNCHANGED <<clock, row, tomb, cited, form, txn, overridden>>

\* The conflict is closed unanswered: nothing is applied, decisions are dropped.
CloseConflict(n) ==
    /\ op[n].phase = "conflict"
    /\ op' = [op EXCEPT ![n] = Idle(n)]
    /\ UNCHANGED <<clock, row, tomb, cited, form, txn, overridden>>

----------------------------------------------------------------------------
Edit(n, u) ==
    \/ Create(n, u)
    \/ OpenForm(n, u)
    \/ \E edited \in BOOLEAN : SubmitForm(n, u, edited)
    \/ WriteForm(n, u)
    \/ CloseForm(n, u)
    \/ Delete(n, u)
    \/ Cite(n, u)
    \/ Uncite(n, u)

ImportStep(n) ==
    \/ \E u \in Uuids : CheckRow(n, u) \/ UpdateRow(n, u) \/ StopOnConflict(n, u)
    \/ ImportFails(n)
    \/ Import(n)

Replicate(n) ==
    \/ \E m \in Instances, c \in Categories, since \in Sinces :
          StartPull(n, m, c, since)
    \/ FetchDeleted(n)
    \/ FetchFails(n)
    \/ ImportStep(n)
    \/ \E d \in Decisions : Resolve(n, d)
    \/ CloseConflict(n)

Next == \E n \in Instances : Replicate(n) \/ \E u \in Uuids : Edit(n, u)

Spec == Init /\ [][Next]_vars

\* The peer answers again sooner or later, the handlers run to their end, and
\* an operator looking at a conflict does something about it.
Attended(n) == (\E d \in Decisions : Resolve(n, d)) \/ CloseConflict(n)

Fairness ==
    \A n \in Instances :
        /\ SF_vars(FetchDeleted(n))
        /\ WF_vars(ImportStep(n))
        /\ WF_vars(Attended(n))

FairSpec == Spec /\ Fairness

----------------------------------------------------------------------------
(* Safety.                                                                 *)

Copies(u) ==
    {row[n][u] : n \in Instances} \cup {op[n].exported[u] : n \in Instances}

\* entry_date identifies a saved state of a row: two copies of a row with the
\* same entry_date, wherever they are and including those in flight, agree on
\* payload and version.  The import relies on it when it takes a record with an
\* equal entry_date, version and payload for one it already has, and it fails if
\* an import re-stamps or re-versions what it copies.
StampIdentifiesRow ==
    \A u \in Uuids : \A r, s \in Copies(u) :
        (Exists(r) /\ r.entry_date = s.entry_date) => r = s

\* An operator is never asked twice about the same row in one workflow, and no
\* row is both forced and kept (resolve_shared_conflict moves a uuid from one
\* list to the other, and the conflict check honours both lists).
AskedOnce ==
    \A n \in Instances :
        /\ op[n].phase = "conflict" =>
              /\ op[n].asked # {}
              /\ op[n].asked \cap (op[n].force \cup op[n].keep) = {}
        /\ Forced(op[n]) \cap Kept(op[n]) = {}

\* A row cited by a manuscript is never deleted, by staff or by a pull
\* (on_delete=PROTECT, and the savepoint around each announced deletion).
CitedRowsExist ==
    \A n \in Instances : \A u \in cited[n] : Exists(row[n][u])

\* The version of a row is at least the number of edits it carries, until some
\* state of the row is forced on an instance, by an operator or by an import that
\* does not see what was saved since it read the row: no stale form and no other
\* interleaving of saves and imports makes the counter fall behind the payload.
VersionCountsEdits ==
    \A u \in Uuids \ overridden : \A r \in Copies(u) : Cardinality(r.content) <= r.version

\* A pull replaces a local row by one of the same or a lower version only when
\* the operator asked for the remote one, or when the local one was saved after
\* the pull had read the row and before it wrote it; and it leaves a row the
\* operator kept as it is unless the peer announced its deletion.
Commits(n) == op[n].phase = "fetched" /\ op'[n].phase = "idle"
SavedSince(n, u) == row[n][u].entry_date > txn[n].read[u].entry_date

ImportRespectsDecisions ==
    [][\A n \in Instances, u \in Uuids :
          (/\ Commits(n)
           /\ Exists(row[n][u])
           /\ row'[n][u] # row[n][u])
          => \/ u \in op[n].deleted /\ ~Exists(row'[n][u])
             \/ /\ u \notin Kept(op[n])
                /\ \/ u \in Forced(op[n])
                   \/ /\ row'[n][u].version > txn[n].read[u].version
                      /\ row[n][u] = txn[n].read[u] \/ SavedSince(n, u)]_vars

\* Every row that leaves a database leaves a DeletedRecord, and a DeletedRecord
\* is for ever: nothing removes or re-dates it.
DeletionsRecorded ==
    [][\A n \in Instances, u \in Uuids :
          /\ Exists(row[n][u]) /\ ~Exists(row'[n][u]) => tomb'[n][u] # 0
          /\ tomb[n][u] # 0 => tomb'[n][u] = tomb[n][u]]_vars

(* Liveness. *)

\* Every pull ends: however many rows conflict, and although each answer starts
\* the whole pull again, the operator is not led around in circles.
WorkflowEnds ==
    \A n \in Instances : op[n].phase # "idle" ~> op[n].phase = "idle"
=============================================================================
