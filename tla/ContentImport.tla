--------------------------- MODULE ContentImport ---------------------------
(***************************************************************************)
(* The bulk import of a manuscript's content through the public API         *)
(* (apiv1/importers.py, apiv1/views.py), several requests at a time, and an  *)
(* editor who saves rows of the same manuscript in the admin.               *)
(*                                                                         *)
(* A row is who wrote it, which item of its list it is, and its              *)
(* sequence_in_ms.  A request runs its statements in one transaction, each   *)
(* of which reads what is committed when it starts (READ COMMITTED, Django's *)
(* default for MySQL) and its own changes.  A row that an open transaction   *)
(* has deleted is locked: who wants to write it waits.                       *)
(***************************************************************************)
EXTENDS Integers, FiniteSets, Sequences

CONSTANTS
    Requests,  \* bound: requests to import
    Payloads,  \* lists of rows they may carry: a sequence_in_ms, or Omitted
    Earlier,   \* wrote the rows that were there before
    OldRows,   \* bound: how many those are
    Numbers,   \* what the editor writes into sequence_in_ms
    MaxSaves,  \* bound: what the editor does
    Careful,   \* TRUE: callers ask for the summary before they send
    Omitted, None

ASSUME ContentAssumption ==
    /\ Payloads \subseteq Seq(Nat \cup {Omitted})
    /\ Omitted \notin Nat
    /\ Earlier \notin Requests
    /\ OldRows \in Nat /\ MaxSaves \in Nat
    /\ Numbers \subseteq Nat
    /\ Careful \in BOOLEAN

Ids == (Requests \cup {Earlier}) \X Nat
Rows == [id : Ids, seq : Nat]

ASSUME NoneAssumption == None \notin Rows

VARIABLES
    content,  \* the committed rows of the manuscript
    phase,    \* how far a request is
    items,    \* the rows it carries
    replace,  \* its mode
    victims,  \* the rows it read to delete
    deleted,  \* the rows its open transaction has deleted
    next,     \* next_sequence
    written,  \* the rows its open transaction has inserted
    form,     \* the row the editor's request has read
    saves,    \* bound: what the editor did
    base      \* history only: the rows stored when a request arrived, less
              \* those the editor has saved since

request == <<phase, items, replace, victims, deleted, next, written>>
vars == <<content, request, form, saves, base>>

IdsOf(rows) == {row.id : row \in rows}
Without(rows, ids) == {row \in rows : row.id \notin ids}
Open == {"collect", "delete", "number", "write"}
Over == {"stored", "valid", "refused", "failed"}

TypeOK ==
    /\ content \in SUBSET Rows
    /\ phase \in [Requests -> {"unsent"} \cup Open \cup Over]
    /\ items \in [Requests -> Payloads \cup {<< >>}]
    /\ replace \in [Requests -> BOOLEAN]
    /\ victims \in [Requests -> SUBSET Ids]
    /\ deleted \in [Requests -> SUBSET Ids]
    /\ next \in [Requests -> Nat]
    /\ written \in [Requests -> SUBSET Rows]
    /\ form \in Rows \cup {None}
    /\ saves \in 0..MaxSaves
    /\ base \in [Requests -> SUBSET Rows]
    /\ \A r \in Requests : phase[r] \notin Open => deleted[r] = {} /\ written[r] = {}

Init ==
    /\ content = {[id |-> <<Earlier, i>>, seq |-> i] : i \in 1..OldRows}
    /\ phase = [r \in Requests |-> "unsent"]
    /\ items = [r \in Requests |-> << >>]
    /\ replace = [r \in Requests |-> FALSE]
    /\ victims = [r \in Requests |-> {}]
    /\ deleted = [r \in Requests |-> {}]
    /\ next = [r \in Requests |-> 0]
    /\ written = [r \in Requests |-> {}]
    /\ form = None
    /\ saves = 0
    /\ base = [r \in Requests |-> {}]

-----------------------------------------------------------------------------
\* What a caller may send: INTEGRATION_ANSWERS.md asks for the summary first.
Sendable(replacing) == Careful => (content = {} \/ replacing)

\* The request is validated as a whole; with dry_run that is all.
Receive(r) ==
    /\ phase[r] = "unsent"
    /\ \E rows \in Payloads, replacing \in BOOLEAN, outcome \in {"refused", "valid", "go on"} :
         /\ Sendable(replacing)
         /\ rows = << >> => outcome = "refused"
         /\ items' = [items EXCEPT ![r] = rows]
         /\ replace' = [replace EXCEPT ![r] = replacing]
         /\ phase' = [phase EXCEPT ![r] =
                        IF outcome # "go on" THEN outcome
                        ELSE IF replacing THEN "collect" ELSE "number"]
    /\ base' = [base EXCEPT ![r] = content]
    /\ UNCHANGED <<content, victims, deleted, next, written, form, saves>>

\* QuerySet.delete() reads the rows, ...
Collect(r) ==
    /\ phase[r] = "collect"
    /\ victims' = [victims EXCEPT ![r] = IdsOf(content)]
    /\ phase' = [phase EXCEPT ![r] = "delete"]
    /\ UNCHANGED <<content, items, replace, deleted, next, written, form, saves, base>>

Locked == UNION {deleted[r] : r \in Requests}

\* Variant: the deletion is not part of the transaction.
DeleteRows_AtOnce(r) ==
    /\ phase[r] = "delete"
    /\ content' = Without(content, victims[r])
    /\ victims' = [victims EXCEPT ![r] = {}]
    /\ phase' = [phase EXCEPT ![r] = "number"]
    /\ UNCHANGED <<items, replace, deleted, next, written, form, saves, base>>

\* ... then deletes the rows it has read, by key.
DeleteRows(r) ==
    /\ phase[r] = "delete"
    /\ victims[r] \cap Locked = {}
    /\ deleted' = [deleted EXCEPT ![r] = victims[r] \cap IdsOf(content)]
    /\ victims' = [victims EXCEPT ![r] = {}]
    /\ phase' = [phase EXCEPT ![r] = "number"]
    /\ UNCHANGED <<content, items, replace, next, written, form, saves, base>>

\* Variant: the highest number, not the one after it.
StartsAt_Highest(n, rows) ==
    /\ \A row \in rows : row.seq <= n
    /\ n = 0 \/ \E row \in rows : n = row.seq

\* n is one more than the highest number, or 1.
StartsAt(n, rows) ==
    /\ \A row \in rows : row.seq < n
    /\ n = 1 \/ \E row \in rows : n = row.seq + 1

\* _next_sequence_start
ReadHighest(r) ==
    /\ phase[r] = "number"
    /\ \E n \in {0, 1} \cup UNION {{row.seq, row.seq + 1} : row \in content} :
         /\ StartsAt(n, Without(content, deleted[r]))
         /\ next' = [next EXCEPT ![r] = n]
    /\ phase' = [phase EXCEPT ![r] = "write"]
    /\ UNCHANGED <<content, items, replace, victims, deleted, written, form, saves, base>>

\* The row for item i: its own number, or the next one.
NewRow(r, i) ==
    [id |-> <<r, i>>,
     seq |-> IF items[r][i] = Omitted THEN next[r] + (i - 1) ELSE items[r][i]]

Pending(r) == {i \in 1..Len(items[r]) : <<r, i>> \notin IdsOf(written[r])}

\* Variant: each row is committed as it is saved.
WriteRow_AtOnce(r) ==
    /\ phase[r] = "write"
    /\ \E i \in Pending(r) :
         /\ \A j \in Pending(r) : i <= j
         /\ written' = [written EXCEPT ![r] = @ \cup {NewRow(r, i)}]
         /\ content' = content \cup {NewRow(r, i)}
    /\ UNCHANGED <<phase, items, replace, victims, deleted, next, form, saves, base>>

WriteRow(r) ==
    /\ phase[r] = "write"
    /\ \E i \in Pending(r) :
         /\ \A j \in Pending(r) : i <= j
         /\ written' = [written EXCEPT ![r] = @ \cup {NewRow(r, i)}]
    /\ UNCHANGED <<content, phase, items, replace, victims, deleted, next, form, saves, base>>

\* The transaction of r is over, and its locks and unsaved changes with it.
End(r, how) ==
    /\ phase' = [phase EXCEPT ![r] = how]
    /\ victims' = [victims EXCEPT ![r] = {}]
    /\ deleted' = [deleted EXCEPT ![r] = {}]
    /\ next' = [next EXCEPT ![r] = 0]
    /\ written' = [written EXCEPT ![r] = {}]
    /\ UNCHANGED <<items, replace, form, saves, base>>

Commit(r) ==
    /\ phase[r] = "write"
    /\ Pending(r) = {}
    /\ content' = Without(content, deleted[r]) \cup written[r]
    /\ End(r, "stored")

\* Variant: the error is answered and the transaction stays open.
Fail_StaysOpen(r) ==
    /\ phase[r] \in Open
    /\ phase' = [phase EXCEPT ![r] = "failed"]
    /\ UNCHANGED <<content, items, replace, victims, deleted, next, written, form, saves, base>>

\* A statement raises, or the process is killed: the transaction is undone.
Fail(r) ==
    /\ phase[r] \in Open
    /\ End(r, "failed")
    /\ UNCHANGED content

Step(r) ==
    Receive(r) \/ Collect(r) \/ DeleteRows(r) \/ ReadHighest(r) \/ WriteRow(r)
    \/ Commit(r) \/ Fail(r)

-----------------------------------------------------------------------------
\* The editor's request reads the row, ...
OpenRow ==
    /\ form = None /\ saves < MaxSaves
    /\ \E row \in content : form' = row
    /\ saves' = saves + 1
    /\ UNCHANGED <<content, request, base>>

\* ... and writes it: UPDATE, and if there is no such row any more, INSERT.
SaveRow ==
    /\ form # None
    /\ form.id \notin Locked
    /\ \E n \in Numbers \cup {form.seq} :
         content' = Without(content, {form.id}) \cup {[form EXCEPT !.seq = n]}
    /\ base' = [r \in Requests |-> Without(base[r], {form.id})]
    /\ form' = None
    /\ UNCHANGED <<request, saves>>

DeleteRow ==
    /\ saves < MaxSaves
    /\ \E row \in content :
         /\ row.id \notin Locked
         /\ content' = content \ {row}
    /\ saves' = saves + 1
    /\ UNCHANGED <<request, form, base>>

Next ==
    \/ \E r \in Requests : Step(r)
    \/ OpenRow \/ SaveRow \/ DeleteRow

Spec == Init /\ [][Next]_vars

\* A request that has been received is worked on.  Waiting for a lock is not
\* assumed to time out.
Work(r) == Collect(r) \/ DeleteRows(r) \/ ReadHighest(r) \/ WriteRow(r) \/ Commit(r)

FairSpec == Spec /\ \A r \in Requests : WF_vars(Work(r))

-----------------------------------------------------------------------------
\* "a failure leaves nothing behind" (importers.py): as long as a request has
\* not been stored as a whole, and for good when it was refused or failed, no
\* row of it is in the manuscript, whoever else imports or edits.
NothingLeftBehind ==
    \A r \in Requests : phase[r] # "stored" => \A row \in content : row.id[1] # r

Stores(r) == phase[r] # "stored" /\ phase'[r] = "stored"

\* "the old rows are deleted and the new ones written together, or not at all"
\* (views.py): a request that commits brings all its rows in one step.  If it
\* replaces, no row is left that was there when it arrived, save those an
\* editor has saved since; and rows go at no other moment, except one that an
\* editor deletes.
ReplacedTogether ==
    [][ /\ \A r \in Requests : Stores(r) =>
             /\ \A i \in 1..Len(items[r]) : <<r, i>> \in IdsOf(content')
             /\ IF replace[r] THEN IdsOf(base[r]) \cap IdsOf(content') = {}
                ELSE content \subseteq content'
        /\ \/ IdsOf(content) \subseteq IdsOf(content')
           \/ \E r \in Requests : Stores(r) /\ replace[r]
           \/ \E row \in content : content' = content \ {row} /\ UNCHANGED request ]_vars

\* "Rows without `sequence_in_ms` are numbered after the highest existing one"
\* (views.py): above every row that was there when the request arrived, still
\* is, and was not saved by an editor meanwhile, with any other imports between
\* the reading of the highest number and the commit.  (Two imports at once may
\* well give the same numbers.)
NumberedAfter ==
    [][ \A r \in Requests : Stores(r) =>
          \A new \in content', old \in base[r] \cap content' :
             new.id[1] = r /\ items[r][new.id[2]] = Omitted => new.seq > old.seq ]_vars

\* Every request that arrives is answered: imports that wait for each other's
\* locks do not wait for ever.
RequestsEnd == \A r \in Requests : phase[r] # "unsent" ~> phase[r] \in Over

\* "On a timeout, re-check `/content/summary/` before retrying"
\* (INTEGRATION_ANSWERS.md), "so a retry or a re-run does not create duplicates"
\* (views.py): of callers who do, at most one has its rows in the manuscript.
RetriesAddNothing ==
    \A row1, row2 \in content : row1.id[1] = row2.id[1]
=============================================================================
