-------------------------- MODULE EtlShared_proofs --------------------------
(***************************************************************************)
(* Theorems about EtlShared, for every value of its constants.             *)
(***************************************************************************)
EXTENDS EtlShared, FiniteSetTheorems, TLAPS

\* A copy of the constants' assumption that names what the proofs use of it.
LEMMA ConstantTypes ==
    /\ Sinces \subseteq Nat
    /\ Categories \subseteq {"shared", "main"}
    /\ Decisions \subseteq {"apply_remote", "keep_local"}
    /\ MaxClock \in Nat
BY SharedAssumption

\* The absent row, an idle pull and a closed form have the types they stand for.
LEMMA NoRowType == NoRow \in Row /\ ~Exists(NoRow)
BY DEF NoRow, Row, Exists

LEMMA ClosedType == Closed \in Form
BY DEF Closed, Form

LEMMA IdleType == ASSUME NEW n \in Instances PROVE Idle(n) \in Pull
BY NoRowType DEF Idle, Pull

\* What a peer exports are rows.
LEMMA ExportType ==
    ASSUME TypeOK, NEW m \in Instances, NEW since \in Nat
    PROVE  Export(m, since) \in [Uuids -> Row]
BY NoRowType DEF Export, TypeOK

LEMMA NoTxnType == NoTxn \in Txn
BY NoRowType DEF NoTxn, Txn

LEMMA TxnUpdate ==
    ASSUME NEW R, NEW S, NEW t \in [read : R, checked : S, due : S, written : S],
           NEW r \in R, NEW c \in S, NEW d \in S
    PROVE  [t EXCEPT !.read = r, !.checked = c, !.due = d]
               \in [read : R, checked : S, due : S, written : S]
OBVIOUS

\* A pull that is given up is over, or waits for the operator again.
LEMMA GivenUpType ==
    ASSUME TypeOK, NEW n \in Instances
    PROVE  GivenUp(n) \in Pull
<1>1. op[n] \in Pull
  BY DEF TypeOK
<1>2. [u \in Uuids |-> NoRow] \in [Uuids -> Row]
  BY NoRowType
<1>3. QED
  BY <1>1, <1>2, IdleType DEF GivenUp, Pull

LEMMA ImportedType ==
    ASSUME TypeOK, NEW n \in Instances
    PROVE  Imported(n) \in [Uuids -> Row]
BY DEF Imported, TypeOK, Pull

\* The decisions a pull carries are sets of uuids.
LEMMA DecisionTypes ==
    ASSUME NEW p \in Pull
    PROVE  Forced(p) \in SUBSET Uuids /\ Kept(p) \in SUBSET Uuids
BY DEF Forced, Kept, Pull

\* Updating one entry of a per-instance table, or of a per-instance and
\* per-row one, keeps its type.
LEMMA SetAt ==
    ASSUME NEW S, NEW f \in [Instances -> S], NEW n \in Instances, NEW x \in S
    PROVE  [f EXCEPT ![n] = x] \in [Instances -> S]
OBVIOUS

LEMMA SetAtRow ==
    ASSUME NEW S, NEW f \in [Instances -> [Uuids -> S]],
           NEW n \in Instances, NEW u \in Uuids, NEW x \in S
    PROVE  [f EXCEPT ![n][u] = x] \in [Instances -> [Uuids -> S]]
OBVIOUS

\* What Delete and Import do to the tombstones and the open forms.
LEMMA GoneTypes ==
    ASSUME TypeOK, NEW n \in Instances, NEW gone
    PROVE  /\ Buried(tomb[n], gone) \in [Uuids -> Nat]
           /\ Detached(form[n], gone) \in [Uuids -> Form]
<1>1. tomb[n] \in [Uuids -> Nat] /\ form[n] \in [Uuids -> Form] /\ clock + 1 \in Nat
  BY DEF TypeOK
<1>2. Buried(tomb[n], gone) \in [Uuids -> Nat]
  BY <1>1 DEF Buried
<1>3. ASSUME NEW u \in Uuids PROVE [form[n][u] EXCEPT !.live = FALSE] \in Form
  BY <1>1 DEF Form
<1>4. QED
  BY <1>1, <1>2, <1>3 DEF Detached

----------------------------------------------------------------------------
(* Type correctness.                                                       *)

LEMMA InitTypeOK == Init => TypeOK
<1> SUFFICES ASSUME Init PROVE TypeOK
  OBVIOUS
<1>1. row \in [Instances -> [Uuids -> Row]]
  BY NoRowType DEF Init, Row
<1>2. form \in [Instances -> [Uuids -> Form]]
  BY ClosedType DEF Init
<1>3. op \in [Instances -> Pull] /\ txn \in [Instances -> Txn]
  BY IdleType, NoTxnType DEF Init
<1>4. QED
  BY <1>1, <1>2, <1>3 DEF Init, TypeOK

\* Steps of the editors keep the types.
LEMMA EditTypeOK ==
    ASSUME TypeOK, NEW n \in Instances, NEW u \in Uuids, Edit(n, u)
    PROVE  TypeOK'
<1>0. /\ clock \in Nat /\ clock + 1 \in Nat
      /\ row \in [Instances -> [Uuids -> Row]] /\ row[n][u] \in Row
      /\ tomb \in [Instances -> [Uuids -> Nat]]
      /\ form \in [Instances -> [Uuids -> Form]] /\ form[n][u] \in Form
  BY DEF TypeOK
<1>1. CASE Create(n, u)
  <2>1. [version |-> 1, content |-> {clock + 1}, entry_date |-> clock + 1] \in Row
    BY <1>0 DEF Row
  <2>2. row' \in [Instances -> [Uuids -> Row]]
    BY <1>0, <1>1, <2>1, SetAtRow DEF Create
  <2>3. QED
    BY <1>0, <1>1, <2>2 DEF Create, TypeOK
<1>2. CASE OpenForm(n, u)
  <2>1. [phase |-> "open", base |-> row[n][u].content, edited |-> FALSE,
         version |-> 0, live |-> TRUE] \in Form
    BY <1>0 DEF Row, Form
  <2>2. form' \in [Instances -> [Uuids -> Form]]
    BY <1>0, <1>2, <2>1, SetAtRow DEF OpenForm
  <2>3. QED
    BY <1>2, <2>2 DEF OpenForm, TypeOK
<1>3. ASSUME NEW edited \in BOOLEAN, SubmitForm(n, u, edited)
      PROVE TypeOK'
  <2> DEFINE v == IF edited \/ form[n][u].base # row[n][u].content
                  THEN row[n][u].version + 1 ELSE row[n][u].version
             f == [form[n][u] EXCEPT !.phase = "saving", !.edited = edited,
                                     !.version = v]
  <2>1. row[n][u].version \in Nat /\ row[n][u].version + 1 \in Nat
    BY <1>0 DEF Row
  <2>2. v \in Nat
    BY <2>1
  <2>3. f \in Form
    <3> HIDE DEF v
    <3> QED
      BY <1>0, <2>2 DEF Form
  <2>4. form' = [form EXCEPT ![n][u] = f]
    BY <1>3 DEF SubmitForm
  <2>5. form' \in [Instances -> [Uuids -> Form]]
    <3> HIDE DEF f
    <3> QED
      BY <1>0, <2>3, <2>4, SetAtRow
  <2>6. QED
    BY <1>3, <2>5 DEF SubmitForm, TypeOK
<1>4. CASE WriteForm(n, u)
  <2> DEFINE c == IF form[n][u].edited THEN form[n][u].base \cup {clock + 1}
                  ELSE form[n][u].base
             r == [version |-> form[n][u].version, content |-> c,
                   entry_date |-> clock + 1]
  <2>1. c \in SUBSET Nat /\ form[n][u].version \in Nat
    BY <1>0 DEF Form
  <2>2. r \in Row
    BY <1>0, <2>1 DEF Row
  <2>3. row' = [row EXCEPT ![n][u] = r]
    BY <1>4 DEF WriteForm
  <2>4. row' \in [Instances -> [Uuids -> Row]]
    <3> HIDE DEF r
    <3> QED
      BY <1>0, <2>2, <2>3, SetAtRow
  <2>5. form' \in [Instances -> [Uuids -> Form]]
    BY <1>4, <1>0, ClosedType, SetAtRow DEF WriteForm
  <2>6. QED
    BY <1>0, <1>4, <2>4, <2>5 DEF WriteForm, TypeOK
<1>5. CASE CloseForm(n, u)
  <2>1. form' \in [Instances -> [Uuids -> Form]]
    BY <1>5, <1>0, ClosedType, SetAtRow DEF CloseForm
  <2>2. QED
    BY <1>5, <2>1 DEF CloseForm, TypeOK
<1>6. CASE Delete(n, u)
  <2>1. row' \in [Instances -> [Uuids -> Row]]
    BY <1>6, <1>0, NoRowType, SetAtRow DEF Delete
  <2>2. tomb' \in [Instances -> [Uuids -> Nat]]
    BY <1>6, <1>0, GoneTypes, SetAt DEF Delete
  <2>3. form' \in [Instances -> [Uuids -> Form]]
    BY <1>6, <1>0, GoneTypes, SetAt DEF Delete
  <2>4. QED
    BY <1>0, <1>6, <2>1, <2>2, <2>3 DEF Delete, TypeOK
<1>7. CASE Cite(n, u)
  BY <1>7 DEF Cite, TypeOK
<1>8. CASE Uncite(n, u)
  BY <1>8 DEF Uncite, TypeOK
<1>9. QED
  BY <1>1, <1>2, <1>3, <1>4, <1>5, <1>6, <1>7, <1>8 DEF Edit

\* Steps of a pull keep the types.
LEMMA ReplicateTypeOK ==
    ASSUME TypeOK, NEW n \in Instances, Replicate(n)
    PROVE  TypeOK'
<1>0. /\ clock \in Nat /\ clock + 1 \in Nat
      /\ row \in [Instances -> [Uuids -> Row]] /\ row[n] \in [Uuids -> Row]
      /\ tomb \in [Instances -> [Uuids -> Nat]]
      /\ form \in [Instances -> [Uuids -> Form]]
      /\ op \in [Instances -> Pull] /\ op[n] \in Pull
      /\ txn \in [Instances -> Txn] /\ txn[n] \in Txn
  BY DEF TypeOK
<1>1. ASSUME op' \in [Instances -> Pull], txn' \in [Instances -> Txn],
             UNCHANGED <<clock, row, tomb, cited, form, overridden>>
      PROVE  TypeOK'
  BY <1>1 DEF TypeOK
<1>2. ASSUME NEW m \in Instances, NEW c \in Categories, NEW since \in Sinces,
             StartPull(n, m, c, since)
      PROVE  TypeOK'
  <2> DEFINE e == Export(m, since)
             p == [Idle(n) EXCEPT !.phase = "exported", !.peer = m, !.category = c,
                                  !.since = since, !.exported = e]
  <2>1. since \in Nat /\ c \in {"shared", "main"}
    BY ConstantTypes
  <2>2. e \in [Uuids -> Row]
    BY <2>1, ExportType
  <2>3. p \in Pull
    <3> HIDE DEF e
    <3> QED
      BY <2>1, <2>2 DEF Pull, Idle
  <2>4. op' = [op EXCEPT ![n] = p]
    BY <1>2 DEF StartPull
  <2>5. op' \in [Instances -> Pull]
    <3> HIDE DEF p
    <3> QED
      BY <1>0, <2>3, <2>4, SetAt
  <2>6. QED
    BY <1>0, <1>1, <1>2, <2>5 DEF StartPull
<1>3. CASE FetchDeleted(n)
  <2> DEFINE d == DeletedSince(op[n].peer, op[n].since)
             p == [op[n] EXCEPT !.phase = "fetched", !.deleted = d]
  <2>1. d \in SUBSET Uuids
    BY DEF DeletedSince
  <2>2. p \in Pull
    <3> HIDE DEF d
    <3> QED
      BY <1>0, <2>1 DEF Pull
  <2>3. op' = [op EXCEPT ![n] = p]
    BY <1>3 DEF FetchDeleted
  <2>4. op' \in [Instances -> Pull]
    <3> HIDE DEF p
    <3> QED
      BY <1>0, <2>2, <2>3, SetAt
  <2>5. QED
    BY <1>0, <1>1, <1>3, <2>4 DEF FetchDeleted
<1>4. CASE FetchFails(n)
  <2>1. op' \in [Instances -> Pull]
    BY <1>0, <1>4, GivenUpType, SetAt DEF FetchFails
  <2>2. QED
    BY <1>0, <1>1, <1>4, <2>1 DEF FetchFails
<1>5. CASE Import(n)
  <2> DEFINE gone == Removed(n)
             rows == [u \in Uuids |-> IF u \in gone THEN NoRow ELSE Imported(n)[u]]
  <2>1. rows \in [Uuids -> Row]
    BY NoRowType, ImportedType
  <2>2. row' = [row EXCEPT ![n] = rows]
    BY <1>5 DEF Import
  <2>3. row' \in [Instances -> [Uuids -> Row]]
    <3> HIDE DEF rows
    <3> QED
      BY <1>0, <2>1, <2>2, SetAt
  <2>4. tomb' \in [Instances -> [Uuids -> Nat]]
    BY <1>5, <1>0, GoneTypes, SetAt DEF Import
  <2>5. form' \in [Instances -> [Uuids -> Form]]
    BY <1>5, <1>0, GoneTypes, SetAt DEF Import
  <2>6. op' \in [Instances -> Pull]
    BY <1>5, <1>0, IdleType, SetAt DEF Import
  <2>7. clock' \in Nat /\ cited' = cited
    BY <1>5, <1>0 DEF Import
  <2>8. overridden' \in SUBSET Uuids
    <3>1. Overtaken(n) \in SUBSET Uuids
      BY <1>0 DEF Overtaken, Txn
    <3>2. QED
      BY <1>5, <1>0, <3>1, DecisionTypes DEF Import, TypeOK
  <2>9. txn' \in [Instances -> Txn]
    BY <1>5, <1>0, NoTxnType, SetAt DEF Import
  <2>10. QED
    BY <2>3, <2>4, <2>5, <2>6, <2>7, <2>8, <2>9 DEF TypeOK
<1>6. ASSUME NEW u \in Uuids, StopOnConflict(n, u)
      PROVE  TypeOK'
  <2> DEFINE none == [v \in Uuids |-> NoRow]
             p == [op[n] EXCEPT !.phase = "conflict", !.force = Forced(op[n]),
                                !.keep = Kept(op[n]), !.asked = {u},
                                !.decision = "none", !.exported = none,
                                !.deleted = {}]
  <2>1. none \in [Uuids -> Row]
    BY NoRowType
  <2>2. Forced(op[n]) \in SUBSET Uuids /\ Kept(op[n]) \in SUBSET Uuids
    BY <1>0, DecisionTypes
  <2>3. p \in Pull
    <3> HIDE DEF none
    <3> QED
      BY <1>0, <2>1, <2>2 DEF Pull
  <2>4. op' = [op EXCEPT ![n] = p]
    BY <1>6 DEF StopOnConflict
  <2>5. op' \in [Instances -> Pull]
    <3> HIDE DEF p
    <3> QED
      BY <1>0, <2>3, <2>4, SetAt
  <2>6. txn' \in [Instances -> Txn]
    BY <1>6, <1>0, NoTxnType, SetAt DEF StopOnConflict
  <2>7. QED
    BY <1>1, <1>6, <2>5, <2>6 DEF StopOnConflict
<1>7. ASSUME NEW d \in Decisions, Resolve(n, d)
      PROVE  TypeOK'
  <2> DEFINE e == Export(op[n].peer, op[n].since)
             p == [op[n] EXCEPT !.phase = "exported", !.decision = d, !.exported = e]
  <2>1. op[n].peer \in Instances /\ op[n].since \in Nat
    BY <1>0 DEF Pull
  <2>2. e \in [Uuids -> Row]
    BY <2>1, ExportType
  <2>3. d \in {"none", "apply_remote", "keep_local"}
    BY ConstantTypes
  <2>4. p \in Pull
    <3> HIDE DEF e
    <3> QED
      BY <1>0, <2>2, <2>3 DEF Pull
  <2>5. op' = [op EXCEPT ![n] = p]
    BY <1>7 DEF Resolve
  <2>6. op' \in [Instances -> Pull]
    <3> HIDE DEF p
    <3> QED
      BY <1>0, <2>4, <2>5, SetAt
  <2>7. QED
    BY <1>0, <1>1, <1>7, <2>6 DEF Resolve
<1>8. CASE CloseConflict(n)
  <2>1. op' \in [Instances -> Pull]
    BY <1>8, <1>0, IdleType, SetAt DEF CloseConflict
  <2>2. QED
    BY <1>0, <1>1, <1>8, <2>1 DEF CloseConflict
<1>9. ASSUME NEW u \in Uuids, CheckRow(n, u)
      PROVE  TypeOK'
  <2> DEFINE due == IF Skipped(n, u) THEN {} ELSE {u}
  <2>1. row[n][u] \in Row /\ due \in SUBSET Uuids
    BY <1>0
  <2>2. [txn[n].read EXCEPT ![u] = row[n][u]] \in [Uuids -> Row]
    BY <1>0, <2>1 DEF Txn
  <2>3. Checked(n, u) \in Txn
    <3>1. Checked(n, u) = [txn[n] EXCEPT !.read = [txn[n].read EXCEPT ![u] = row[n][u]],
                                         !.checked = txn[n].checked \cup {u},
                                         !.due = due]
      BY DEF Checked
    <3>2. txn[n].checked \cup {u} \in SUBSET Uuids
      BY <1>0 DEF Txn
    <3> DEFINE read == [txn[n].read EXCEPT ![u] = row[n][u]]
               seen == txn[n].checked \cup {u}
    <3>3. [txn[n] EXCEPT !.read = read, !.checked = seen, !.due = due] \in Txn
      <4>1. read \in [Uuids -> Row] /\ seen \in SUBSET Uuids
        BY <2>2, <3>2
      <4> HIDE DEF due, read, seen
      <4> QED
        BY <1>0, <2>1, <4>1, TxnUpdate DEF Txn
    <3> QED
      BY <3>1, <3>3
  <2>4. txn' \in [Instances -> Txn]
    BY <1>0, <1>9, <2>3, SetAt DEF CheckRow
  <2>5. QED
    BY <1>0, <1>1, <1>9, <2>4 DEF CheckRow
<1>10. ASSUME NEW u \in Uuids, UpdateRow(n, u)
       PROVE  TypeOK'
  <2>1. Written(n, u) \in Txn
    BY <1>0 DEF Written, Txn
  <2>2. txn' \in [Instances -> Txn]
    BY <1>0, <1>10, <2>1, SetAt DEF UpdateRow
  <2>3. QED
    BY <1>0, <1>1, <1>10, <2>2 DEF UpdateRow
<1>11. CASE ImportFails(n)
  <2>1. op' \in [Instances -> Pull] /\ txn' \in [Instances -> Txn]
    BY <1>0, <1>11, GivenUpType, NoTxnType, SetAt DEF ImportFails
  <2>2. QED
    BY <1>1, <1>11, <2>1 DEF ImportFails
<1>12. QED
  BY <1>2, <1>3, <1>4, <1>5, <1>6, <1>7, <1>8, <1>9, <1>10, <1>11
     DEF Replicate, ImportStep

\* Type correctness of the shared replication: no operation on any instance
\* leaves the tables, forms or workflows in a state the model does not describe.
THEOREM TypeCorrect == Spec => []TypeOK
<1>1. TypeOK /\ [Next]_vars => TypeOK'
  <2> SUFFICES ASSUME TypeOK, [Next]_vars PROVE TypeOK'
    OBVIOUS
  <2>1. CASE UNCHANGED vars
    BY <2>1 DEF vars, TypeOK
  <2>2. CASE Next
    BY <2>2, EditTypeOK, ReplicateTypeOK DEF Next
  <2>3. QED
    BY <2>1, <2>2
<1>2. QED
  BY InitTypeOK, <1>1, PTL DEF Spec

----------------------------------------------------------------------------
(* What one step does to the rows, the tombstones and a pull.              *)

\* A pull or an editing step at one instance leaves the others' databases and
\* pulls alone; an editing step leaves every pull alone.
LEMMA EditFrame ==
    ASSUME TypeOK, NEW n \in Instances, NEW u \in Uuids, Edit(n, u)
    PROVE  op' = op /\ txn' = txn /\ overridden' = overridden
BY DEF Edit, Create, OpenForm, SubmitForm, WriteForm, CloseForm, Delete, Cite, Uncite

\* An editing step touches one row, and one form, at one instance.
LEMMA EditElsewhere ==
    ASSUME TypeOK, NEW m \in Instances, NEW v \in Uuids, Edit(m, v),
           NEW n \in Instances, NEW u \in Uuids, n # m \/ u # v
    PROVE  row'[n][u] = row[n][u] /\ form'[n][u] = form[n][u]
<1>0. row \in [Instances -> [Uuids -> Row]] /\ form \in [Instances -> [Uuids -> Form]]
  BY DEF TypeOK
<1>1. CASE Create(m, v)
  BY <1>0, <1>1 DEF Create
<1>2. CASE OpenForm(m, v)
  BY <1>0, <1>2 DEF OpenForm
<1>3. ASSUME NEW edited \in BOOLEAN, SubmitForm(m, v, edited)
      PROVE  row'[n][u] = row[n][u] /\ form'[n][u] = form[n][u]
  BY <1>0, <1>3 DEF SubmitForm
<1>4. CASE WriteForm(m, v)
  BY <1>0, <1>4 DEF WriteForm
<1>5. CASE CloseForm(m, v)
  BY <1>0, <1>5 DEF CloseForm
<1>6. CASE Delete(m, v)
  BY <1>0, <1>6 DEF Delete, Detached
<1>7. CASE Cite(m, v) \/ Uncite(m, v)
  BY <1>7 DEF Cite, Uncite
<1>8. QED
  BY <1>1, <1>2, <1>3, <1>4, <1>5, <1>6, <1>7 DEF Edit

\* Only Import changes a database among the steps of a pull.
LEMMA PullFrame ==
    ASSUME TypeOK, NEW n \in Instances, Replicate(n), ~Import(n)
    PROVE  UNCHANGED <<clock, row, tomb, cited, form, overridden>>
BY DEF Replicate, ImportStep, StartPull, FetchDeleted, FetchFails, CheckRow, UpdateRow,
       ImportFails, StopOnConflict, Resolve, CloseConflict

LEMMA PullOwn ==
    ASSUME TypeOK, NEW n \in Instances, Replicate(n), NEW m \in Instances, m # n
    PROVE  op'[m] = op[m] /\ txn'[m] = txn[m]
BY DEF TypeOK, Replicate, ImportStep, StartPull, FetchDeleted, FetchFails, CheckRow,
       UpdateRow, ImportFails, Import, StopOnConflict, Resolve, CloseConflict

\* The database an import leaves: a row of the peer, the row as it was, or none.
LEMMA ImportRows ==
    ASSUME TypeOK, NEW n \in Instances, Import(n), NEW u \in Uuids
    PROVE  /\ u \in Removed(n) => row'[n][u] = NoRow
           /\ u \notin Removed(n) => row'[n][u] = Imported(n)[u]
           /\ Imported(n)[u] = IF u \in txn[n].written THEN op[n].exported[u]
                                                       ELSE row[n][u]
           /\ \A m \in Instances \ {n} : row'[m] = row[m]
<1>1. row' = [row EXCEPT ![n] =
                 [v \in Uuids |-> IF v \in Removed(n) THEN NoRow ELSE Imported(n)[v]]]
  BY DEF Import
<1>2. row \in [Instances -> [Uuids -> Row]]
  BY DEF TypeOK
<1>3. row'[n] = [v \in Uuids |-> IF v \in Removed(n) THEN NoRow ELSE Imported(n)[v]]
  BY <1>1, <1>2
<1>4. \A m \in Instances \ {n} : row'[m] = row[m]
  BY <1>1, <1>2
<1>5. Imported(n)[u] = IF u \in txn[n].written THEN op[n].exported[u] ELSE row[n][u]
  BY DEF Imported
<1>6. QED
  BY <1>3, <1>4, <1>5

----------------------------------------------------------------------------
(* Stamps.                                                                 *)

\* Every copy was stamped by now, which is what makes the next stamp new.
StampedByNow == \A u \in Uuids : \A r \in Copies(u) : r.entry_date <= clock

\* After any step, a copy of a row is one there was before, or no row at all, or
\* the one row this step saved, with the stamp it took.
CopiesStep ==
    \A u \in Uuids : \E new \in Row :
        \A r \in Copies(u)' :
            \/ r \in Copies(u)
            \/ r = NoRow
            \/ r = new /\ new.entry_date = clock + 1 /\ clock' = clock + 1

LEMMA CopyMembers ==
    ASSUME NEW n \in Instances, NEW u \in Uuids
    PROVE  row[n][u] \in Copies(u) /\ op[n].exported[u] \in Copies(u)
BY DEF Copies

LEMMA EditCopies ==
    ASSUME TypeOK, NEW n \in Instances, NEW v \in Uuids, Edit(n, v)
    PROVE  CopiesStep
<1> SUFFICES ASSUME NEW u \in Uuids
             PROVE  \E new \in Row : \A r \in Copies(u)' :
                        \/ r \in Copies(u)
                        \/ r = NoRow
                        \/ r = new /\ new.entry_date = clock + 1 /\ clock' = clock + 1
  BY DEF CopiesStep
<1>0. row \in [Instances -> [Uuids -> Row]] /\ row' \in [Instances -> [Uuids -> Row]]
  BY EditTypeOK DEF TypeOK
<1>1. op' = op
  BY EditFrame
<1>2. CASE UNCHANGED row
  BY <1>1, <1>2, NoRowType DEF Copies
<1>3. ASSUME NEW new \in Row, row' = [row EXCEPT ![n][v] = new],
             \/ new = NoRow
             \/ new.entry_date = clock + 1 /\ clock' = clock + 1
      PROVE  \E x \in Row : \A r \in Copies(u)' :
                 \/ r \in Copies(u)
                 \/ r = NoRow
                 \/ r = x /\ x.entry_date = clock + 1 /\ clock' = clock + 1
  <2>1. \A m \in Instances : row'[m][u] \in {row[m][u], new}
    BY <1>0, <1>3
  <2>2. \A r \in Copies(u)' : r \in Copies(u) \/ r = new
    BY <1>1, <2>1 DEF Copies
  <2>3. QED
    BY <1>3, <2>2
<1>4. CASE Create(n, v)
  <2> DEFINE new == [version |-> 1, content |-> {clock + 1}, entry_date |-> clock + 1]
  <2>1. new \in Row
    BY DEF TypeOK, Row
  <2>2. QED
    BY <1>3, <1>4, <2>1 DEF Create
<1>5. CASE WriteForm(n, v)
  <2> DEFINE new == [version |-> form[n][v].version,
                     content |-> IF form[n][v].edited
                                 THEN form[n][v].base \cup {clock + 1}
                                 ELSE form[n][v].base,
                     entry_date |-> clock + 1]
  <2>1. new \in Row
    BY DEF TypeOK, Row, Form
  <2>2. row' = [row EXCEPT ![n][v] = new] /\ clock' = clock + 1
    BY <1>5 DEF WriteForm
  <2>3. new.entry_date = clock + 1
    OBVIOUS
  <2>4. QED
    <3> HIDE DEF new
    <3> QED
      BY <1>3, <2>1, <2>2, <2>3
<1>6. CASE Delete(n, v)
  BY <1>3, <1>6, NoRowType DEF Delete
<1>7. QED
  BY <1>2, <1>4, <1>5, <1>6
     DEF Edit, OpenForm, SubmitForm, CloseForm, Cite, Uncite

\* A pull makes no row of its own: what it leaves are copies there were before.
LEMMA PullCopies ==
    ASSUME TypeOK, NEW n \in Instances, Replicate(n)
    PROVE  \A u \in Uuids : \A r \in Copies(u)' : r \in Copies(u) \/ r = NoRow
<1> SUFFICES ASSUME NEW u \in Uuids, NEW r \in Copies(u)'
             PROVE  r \in Copies(u) \/ r = NoRow
  OBVIOUS
<1>0. op \in [Instances -> Pull] /\ op[n] \in Pull
  BY DEF TypeOK
<1>1. PICK m \in Instances : r = row'[m][u] \/ r = op'[m].exported[u]
  BY DEF Copies
<1>2. CASE r = row'[m][u]
  <2>1. CASE Import(n)
    <3>1. row'[m][u] \in {NoRow, row[m][u], op[m].exported[u]}
      BY <2>1, ImportRows
    <3>2. QED
      BY <1>2, <3>1, CopyMembers, NoRowType
  <2>2. CASE ~Import(n)
    BY <1>2, <2>2, PullFrame, CopyMembers
  <2>3. QED
    BY <2>1, <2>2
<1>3. CASE r = op'[m].exported[u]
  <2>1. CASE m # n
    BY <1>3, <2>1, PullOwn, CopyMembers
  <2>2. CASE m = n
    <3>1. \/ op'[n].exported = op[n].exported
          \/ op'[n].exported = [v \in Uuids |-> NoRow]
          \/ \E p \in Instances, since \in Nat : op'[n].exported = Export(p, since)
      <4>1. ASSUME NEW p \in Instances, NEW c \in Categories, NEW since \in Sinces,
                   StartPull(n, p, c, since)
            PROVE  op'[n].exported = Export(p, since) /\ since \in Nat
        BY <1>0, <4>1, ConstantTypes DEF StartPull, Idle
      <4>2. ASSUME NEW d \in Decisions, Resolve(n, d)
            PROVE  op'[n].exported = Export(op[n].peer, op[n].since)
        BY <1>0, <4>2 DEF Resolve, Pull
      <4>3. op[n].peer \in Instances /\ op[n].since \in Nat
        BY <1>0 DEF Pull
      <4>4. CASE FetchDeleted(n)
        BY <1>0, <4>4 DEF FetchDeleted, Pull
      <4>5. CASE FetchFails(n) \/ ImportFails(n)
        <5>1. op' = [op EXCEPT ![n] = GivenUp(n)]
          BY <4>5 DEF FetchFails, ImportFails
        <5>2. GivenUp(n).exported = [v \in Uuids |-> NoRow]
          BY <1>0 DEF GivenUp, Pull, Idle
        <5>3. QED
          BY <1>0, <5>1, <5>2
      <4>6. CASE Import(n) \/ CloseConflict(n)
        BY <1>0, <4>6 DEF Import, CloseConflict, Idle
      <4>7. ASSUME NEW v \in Uuids, StopOnConflict(n, v)
            PROVE  op'[n].exported = [w \in Uuids |-> NoRow]
        BY <1>0, <4>7 DEF StopOnConflict, Pull
      <4>8. ASSUME NEW v \in Uuids, CheckRow(n, v) \/ UpdateRow(n, v)
            PROVE  op'[n].exported = op[n].exported
        BY <4>8 DEF CheckRow, UpdateRow
      <4>9. QED
        BY <4>1, <4>2, <4>3, <4>4, <4>5, <4>6, <4>7, <4>8 DEF Replicate, ImportStep
    <3>2. CASE op'[n].exported = op[n].exported
      BY <1>3, <2>2, <3>2, CopyMembers
    <3>3. CASE op'[n].exported = [v \in Uuids |-> NoRow]
      BY <1>3, <2>2, <3>3, NoRowType
    <3>4. ASSUME NEW p \in Instances, NEW since \in Nat,
                 op'[n].exported = Export(p, since)
          PROVE  r \in Copies(u) \/ r = NoRow
      <4>1. r = row[p][u] \/ r = NoRow
        BY <1>3, <2>2, <3>4 DEF Export
      <4>2. QED
        BY <4>1, CopyMembers, NoRowType
    <3>5. QED
      BY <3>1, <3>2, <3>3, <3>4
  <2>3. QED
    BY <2>1, <2>2
<1>4. QED
  BY <1>1, <1>2, <1>3

LEMMA ClockStep ==
    ASSUME TypeOK, Next
    PROVE  clock' \in Nat /\ clock' >= clock
<1>1. clock \in Nat
  BY DEF TypeOK
<1>2. clock' = clock \/ clock' = clock + 1
  <2>1. ASSUME NEW n \in Instances, NEW u \in Uuids, Edit(n, u)
        PROVE  clock' = clock \/ clock' = clock + 1
    BY <2>1 DEF Edit, Create, OpenForm, SubmitForm, WriteForm, CloseForm, Delete, Cite,
                Uncite
  <2>2. ASSUME NEW n \in Instances, Replicate(n)
        PROVE  clock' = clock \/ clock' = clock + 1
    BY <2>2, PullFrame DEF Import
  <2>3. QED
    BY <2>1, <2>2 DEF Next
<1>3. QED
  BY <1>1, <1>2

LEMMA CopiesTyped ==
    ASSUME TypeOK, NEW u \in Uuids, NEW r \in Copies(u)
    PROVE  r.entry_date \in Nat
BY DEF Copies, TypeOK, Pull, Row

\* A stamp tells one saved state of a row from all others, in the databases and
\* in the answers under way: no import re-stamps or re-versions what it copies.
THEOREM StampsIdentifyRows == Spec => [](StampIdentifiesRow /\ StampedByNow)
<1> DEFINE Inv == StampIdentifiesRow /\ StampedByNow
<1>1. Init => Inv
  <2> SUFFICES ASSUME Init PROVE Inv
    OBVIOUS
  <2>1. \A u \in Uuids : \A r \in Copies(u) :
            r = NoRow \/ r = [version |-> 1, content |-> {}, entry_date |-> 1]
    BY DEF Init, Copies, Idle
  <2>2. \A u \in Uuids : \A r \in Copies(u) :
            /\ r.entry_date \in {0, 1}
            /\ Exists(r) => r = [version |-> 1, content |-> {}, entry_date |-> 1]
    BY <2>1 DEF NoRow, Exists
  <2>3. StampedByNow
    BY <2>2 DEF Init, StampedByNow
  <2>4. StampIdentifiesRow
    BY <2>2 DEF StampIdentifiesRow, Exists
  <2>5. QED
    BY <2>3, <2>4
<1>2. TypeOK /\ Inv /\ [Next]_vars => Inv'
  <2> SUFFICES ASSUME TypeOK, Inv, [Next]_vars PROVE Inv'
    OBVIOUS
  <2>1. CASE UNCHANGED vars
    BY <2>1 DEF vars, StampIdentifiesRow, StampedByNow, Copies
  <2>2. CASE Next
    <3>1. CopiesStep
      BY <2>2, EditCopies, PullCopies, NoRowType DEF Next, CopiesStep
    <3>2. clock \in Nat /\ clock' \in Nat /\ clock' >= clock
      BY <2>2, ClockStep DEF TypeOK
    <3>3. StampedByNow'
      <4> SUFFICES ASSUME NEW u \in Uuids, NEW r \in Copies(u)'
                   PROVE  r.entry_date <= clock'
        BY DEF StampedByNow
      <4>1. CASE r \in Copies(u)
        BY <3>2, <4>1, CopiesTyped DEF StampedByNow
      <4>2. CASE r = NoRow
        BY <3>2, <4>2, NoRowType DEF Exists
      <4>3. CASE r.entry_date = clock + 1 /\ clock' = clock + 1
        BY <3>2, <4>3
      <4>4. QED
        BY <3>1, <4>1, <4>2, <4>3 DEF CopiesStep
    <3>4. StampIdentifiesRow'
      <4> SUFFICES ASSUME NEW u \in Uuids, NEW r \in Copies(u)', NEW s \in Copies(u)',
                          Exists(r), r.entry_date = s.entry_date
                   PROVE  r = s
        BY DEF StampIdentifiesRow, Exists
      <4>1. PICK new \in Row : \A x \in Copies(u)' :
                \/ x \in Copies(u)
                \/ x = NoRow
                \/ x = new /\ new.entry_date = clock + 1 /\ clock' = clock + 1
        BY <3>1 DEF CopiesStep
      <4>2. Exists(s)
        BY DEF Exists
      <4>3. CASE r \in Copies(u) /\ s \in Copies(u)
        BY <4>3 DEF StampIdentifiesRow
      <4>4. CASE r = new /\ s = new
        BY <4>4
      <4>5. CASE r \in Copies(u) /\ s = new /\ new.entry_date = clock + 1
        BY <3>2, <4>5, CopiesTyped DEF StampedByNow
      <4>6. CASE r = new /\ s \in Copies(u) /\ new.entry_date = clock + 1
        BY <3>2, <4>6, CopiesTyped DEF StampedByNow
      <4>7. QED
        BY <4>1, <4>2, <4>3, <4>4, <4>5, <4>6, NoRowType
    <3>5. QED
      BY <3>3, <3>4
  <2>3. QED
    BY <2>1, <2>2
<1>3. QED
  BY <1>1, <1>2, TypeCorrect, PTL DEF Spec

----------------------------------------------------------------------------
(* The transaction of an import.                                           *)

\* What the import goes by when it comes to write the row u: the row as it was
\* read, unless it has been saved again or is gone; no conflict between what was
\* read and what the peer sent; and once it is written nobody makes it come or go.
TxnRow(n, u) ==
    LET was == txn[n].read[u]
        sent == op[n].exported[u] IN
    /\ was.entry_date <= clock
    /\ u \in txn[n].checked => \/ row[n][u] = was
                                \/ SavedSince(n, u)
                                \/ ~Exists(row[n][u])
    /\ u \in txn[n].due \cup txn[n].written =>
          /\ u \in txn[n].checked /\ Exists(sent)
          /\ ~Conflicting(op[n], was, sent, u)
          /\ Exists(was) => u \notin Kept(op[n]) /\ was # sent
    /\ u \in txn[n].written => (Exists(row[n][u]) <=> Exists(was))

TxnInv(n) ==
    /\ op[n].phase # "fetched" => txn[n] = NoTxn
    /\ \A u \in Uuids : TxnRow(n, u)

LEMMA NoTxnRow ==
    ASSUME NEW n \in Instances, NEW u \in Uuids, TypeOK, txn[n] = NoTxn
    PROVE  TxnRow(n, u)
<1>1. /\ txn[n].read[u].entry_date = 0 /\ clock \in Nat
      /\ txn[n].checked = {} /\ txn[n].due = {} /\ txn[n].written = {}
  BY DEF NoTxn, NoRow, TypeOK
<1>2. QED
  BY <1>1 DEF TxnRow

\* Who edits the row may save it over the import's reading of it, but once it is
\* written neither creates nor deletes it.
LEMMA EditTxn ==
    ASSUME TypeOK, NEW m \in Instances, NEW v \in Uuids, Edit(m, v),
           NEW n \in Instances, TxnInv(n)
    PROVE  TxnInv(n)'
<1>1. op' = op /\ txn' = txn
  BY EditFrame
<1>2. clock \in Nat /\ (clock' = clock \/ clock' = clock + 1)
  BY DEF TypeOK, Edit, Create, OpenForm, SubmitForm, WriteForm, CloseForm, Delete, Cite,
         Uncite
<1>3. ASSUME NEW u \in Uuids
      PROVE  TxnRow(n, u)'
  <2>0. TxnRow(n, u) /\ txn[n].read[u].entry_date \in Nat
    BY DEF TxnInv, TypeOK, Txn, Row
  <2>1. txn[n].read[u].entry_date <= clock'
    BY <1>2, <2>0 DEF TxnRow
  <2>2. CASE row'[n][u] = row[n][u]
    BY <1>1, <2>0, <2>1, <2>2
       DEF TxnRow, SavedSince, Exists, Conflicting, Kept, Forced
  <2>3. CASE row'[n][u] # row[n][u]
    <3>0. row \in [Instances -> [Uuids -> Row]]
      BY DEF TypeOK
    <3>1. n = m /\ u = v
      BY <2>3, EditElsewhere
    <3>2. \/ row'[n][u].entry_date = clock + 1 /\ WriteForm(n, u)
          \/ row'[n][u].entry_date = clock + 1 /\ Fresh(u)
          \/ row'[n][u] = NoRow /\ Delete(n, u)
      <4>1. ASSUME Create(n, u) PROVE row'[n][u].entry_date = clock + 1 /\ Fresh(u)
        BY <3>0, <4>1 DEF Create
      <4>2. ASSUME WriteForm(n, u) PROVE row'[n][u].entry_date = clock + 1
        BY <3>0, <4>2 DEF WriteForm
      <4>3. ASSUME Delete(n, u) PROVE row'[n][u] = NoRow
        BY <3>0, <4>3 DEF Delete
      <4>4. QED
        BY <2>3, <3>1, <4>1, <4>2, <4>3
           DEF Edit, OpenForm, SubmitForm, CloseForm, Cite, Uncite
    <3>3. row'[n][u].entry_date > txn[n].read[u].entry_date \/ ~Exists(row'[n][u])
      BY <1>2, <2>0, <3>2, NoRowType DEF TxnRow
    <3>4. u \notin txn[n].written
      BY <2>0, <3>2 DEF TxnRow, WriteForm, Delete, Unlocked, Fresh
    <3>5. QED
      BY <1>1, <2>0, <2>1, <3>3, <3>4
         DEF TxnRow, SavedSince, Exists, Conflicting, Kept, Forced
  <2>4. QED
    BY <2>2, <2>3
<1>4. QED
  BY <1>1, <1>3 DEF TxnInv

\* A row is read as it stands, and due only when it may be written.
LEMMA CheckRowTxn ==
    ASSUME TypeOK, StampedByNow, NEW n \in Instances, TxnInv(n),
           NEW v \in Uuids, CheckRow(n, v)
    PROVE  TxnInv(n)'
<1>0. /\ txn \in [Instances -> Txn] /\ txn[n] \in Txn
      /\ op' = op /\ row' = row /\ clock' = clock
      /\ row[n][v] \in Row /\ row[n][v].entry_date <= clock
  BY CopyMembers DEF TypeOK, CheckRow, StampedByNow
<1>1. /\ op[n].phase = "fetched" /\ Exists(op[n].exported[v])
      /\ v \notin txn[n].checked /\ txn[n].due = {}
      /\ ~Conflicting(op[n], row[n][v], op[n].exported[v], v)
  BY DEF CheckRow, At
<1> DEFINE due == IF Skipped(n, v) THEN {} ELSE {v}
<1>2. /\ txn'[n].read = [txn[n].read EXCEPT ![v] = row[n][v]]
      /\ txn'[n].checked = txn[n].checked \cup {v}
      /\ txn'[n].due = due
      /\ txn'[n].written = txn[n].written
  <2>1. txn'[n] = Checked(n, v)
    BY <1>0 DEF CheckRow
  <2>2. QED
    BY <1>0, <2>1 DEF Checked, Txn
<1>3. due # {} /\ Exists(row[n][v])
        => v \notin Kept(op[n]) /\ row[n][v] # op[n].exported[v]
  BY DEF Skipped
<1>4. ASSUME NEW u \in Uuids
      PROVE  TxnRow(n, u)'
  <2>0. TxnRow(n, u) /\ txn[n].read \in [Uuids -> Row]
    BY <1>0 DEF TxnInv, Txn
  <2>1. CASE u = v
    <3>1. txn'[n].read[u] = row[n][v]
      BY <1>2, <2>0, <2>1
    <3>2. u \notin txn[n].written
      BY <1>1, <2>0, <2>1 DEF TxnRow
    <3>3. QED
      BY <1>0, <1>1, <1>2, <1>3, <2>1, <3>1, <3>2
         DEF TxnRow, SavedSince, Exists, Conflicting, Kept, Forced
  <2>2. CASE u # v
    <3>1. txn'[n].read[u] = txn[n].read[u] /\ u \notin due
      BY <1>2, <2>0, <2>2
    <3>2. QED
      BY <1>0, <1>2, <2>0, <2>2, <3>1
         DEF TxnRow, SavedSince, Exists, Conflicting, Kept, Forced
  <2>3. QED
    BY <2>1, <2>2
<1>5. QED
  BY <1>0, <1>1, <1>4 DEF TxnInv

LEMMA UpdateRowTxn ==
    ASSUME TypeOK, NEW n \in Instances, TxnInv(n), NEW v \in Uuids, UpdateRow(n, v)
    PROVE  TxnInv(n)'
<1>0. /\ txn \in [Instances -> Txn] /\ txn[n] \in Txn
      /\ op' = op /\ row' = row /\ clock' = clock
      /\ v \in txn[n].due /\ (Exists(row[n][v]) <=> Exists(txn[n].read[v]))
  BY DEF TypeOK, UpdateRow
<1>1. /\ txn'[n].read = txn[n].read /\ txn'[n].checked = txn[n].checked
      /\ txn'[n].due = {} /\ txn'[n].written = txn[n].written \cup {v}
  <2>1. txn'[n] = Written(n, v)
    BY <1>0 DEF UpdateRow
  <2>2. QED
    BY <1>0, <2>1 DEF Written, Txn
<1>2. txn[n] # NoTxn
  BY <1>0 DEF NoTxn
<1>3. ASSUME NEW u \in Uuids
      PROVE  TxnRow(n, u)'
  <2>1. TxnRow(n, u)
    BY DEF TxnInv
  <2>2. QED
    BY <1>0, <1>1, <2>1 DEF TxnRow, SavedSince, Exists, Conflicting, Kept, Forced
<1>4. QED
  BY <1>0, <1>2, <1>3 DEF TxnInv

LEMMA PullTxn ==
    ASSUME TypeOK, TypeOK', StampedByNow, clock' \in Nat, clock' >= clock,
           NEW m \in Instances, Replicate(m), NEW n \in Instances, TxnInv(n)
    PROVE  TxnInv(n)'
<1>0. op \in [Instances -> Pull] /\ op[n] \in Pull /\ txn \in [Instances -> Txn]
  BY DEF TypeOK
<1>1. ASSUME txn'[n] = NoTxn PROVE TxnInv(n)'
  <2>1. /\ txn'[n].read = [u \in Uuids |-> NoRow]
        /\ txn'[n].checked = {} /\ txn'[n].due = {} /\ txn'[n].written = {}
    BY <1>1 DEF NoTxn
  <2>2. ASSUME NEW u \in Uuids PROVE TxnRow(n, u)'
    BY <2>1, NoRowType DEF TxnRow, NoRow
  <2>3. QED
    BY <1>1, <2>2 DEF TxnInv, NoTxn
<1>2. CASE m # n
  <2>1. op'[n] = op[n] /\ txn'[n] = txn[n] /\ row'[n] = row[n]
    <3>1. CASE Import(m)
      BY <1>2, <3>1, PullOwn DEF Import, TypeOK
    <3>2. CASE ~Import(m)
      BY <1>2, <3>2, PullOwn, PullFrame
    <3>3. QED
      BY <3>1, <3>2
  <2>2. ASSUME NEW u \in Uuids PROVE TxnRow(n, u)'
    <3>1. TxnRow(n, u) /\ txn[n].read[u].entry_date \in Nat /\ clock \in Nat
      BY DEF TxnInv, TypeOK, Txn, Row
    <3>2. txn[n].read[u].entry_date <= clock'
      BY <3>1 DEF TxnRow
    <3>3. QED
      BY <2>1, <3>1, <3>2 DEF TxnRow, SavedSince, Exists, Conflicting, Kept, Forced
  <2>3. QED
    BY <2>1, <2>2 DEF TxnInv
<1>3. CASE m = n
  <2>1. ASSUME NEW p \in Instances, NEW c \in Categories, NEW since \in Sinces,
               StartPull(n, p, c, since)
        PROVE  txn'[n] = NoTxn
    BY <2>1 DEF StartPull, TxnInv
  <2>2. CASE FetchDeleted(n) \/ FetchFails(n) \/ CloseConflict(n)
    BY <2>2, <1>1 DEF FetchDeleted, FetchFails, CloseConflict, TxnInv
  <2>3. CASE ImportFails(n) \/ Import(n)
    BY <1>0, <1>1, <2>3 DEF ImportFails, Import
  <2>4. ASSUME NEW u \in Uuids, StopOnConflict(n, u)
        PROVE  txn'[n] = NoTxn
    BY <1>0, <2>4 DEF StopOnConflict
  <2>5. ASSUME NEW d \in Decisions, Resolve(n, d)
        PROVE  txn'[n] = NoTxn
    BY <2>5 DEF Resolve, TxnInv
  <2>6. QED
    BY <1>1, <1>3, <2>1, <2>2, <2>3, <2>4, <2>5, CheckRowTxn, UpdateRowTxn
       DEF Replicate, ImportStep
<1>4. QED
  BY <1>2, <1>3

\* What an import goes by when it writes holds until it commits.
TxnsConsistent == \A n \in Instances : TxnInv(n)

THEOREM TransactionsAreConsistent == Spec => []TxnsConsistent
<1>1. Init /\ TypeOK => TxnsConsistent
  BY NoTxnRow DEF Init, TxnsConsistent, TxnInv
<1>2. TypeOK /\ TypeOK' /\ StampedByNow /\ TxnsConsistent /\ [Next]_vars => TxnsConsistent'
  <2> SUFFICES ASSUME TypeOK, TypeOK', StampedByNow, TxnsConsistent, [Next]_vars,
                      NEW n \in Instances
               PROVE  TxnInv(n)'
    BY DEF TxnsConsistent
  <2>0. TxnInv(n)
    BY DEF TxnsConsistent
  <2>1. CASE UNCHANGED vars
    BY <2>0, <2>1
       DEF vars, TxnInv, TxnRow, SavedSince, Exists, Conflicting, Kept, Forced
  <2>2. CASE Next
    <3>1. clock' \in Nat /\ clock' >= clock
      BY <2>2, ClockStep
    <3>2. QED
      BY <2>0, <2>2, <3>1, EditTxn, PullTxn DEF Next
  <2>3. QED
    BY <2>1, <2>2
<1>3. QED
  BY <1>1, <1>2, TypeCorrect, StampsIdentifyRows, PTL DEF Spec

\* So an import takes no row away but those whose deletion was announced.
LEMMA ImportKeeps ==
    ASSUME NEW n \in Instances, TxnInv(n), NEW u \in Uuids, Exists(row[n][u])
    PROVE  Exists(Imported(n)[u])
BY DEF TxnInv, TxnRow, Imported

----------------------------------------------------------------------------
(* Deletions.                                                              *)

\* The tombstones of an instance: kept as they are, and written for every row
\* that goes.
LEMMA BuriedFacts ==
    ASSUME TypeOK, NEW n \in Instances, NEW gone, NEW u \in Uuids
    PROVE  /\ tomb[n][u] # 0 => Buried(tomb[n], gone)[u] = tomb[n][u]
           /\ u \in gone => Buried(tomb[n], gone)[u] # 0
<1>1. clock + 1 # 0
  BY DEF TypeOK
<1>2. QED
  BY <1>1 DEF Buried

DeletionStep(n, u) ==
    /\ Exists(row[n][u]) /\ ~Exists(row'[n][u]) => tomb'[n][u] # 0
    /\ tomb[n][u] # 0 => tomb'[n][u] = tomb[n][u]

LEMMA EditDeletions ==
    ASSUME TypeOK, NEW m \in Instances, NEW v \in Uuids, Edit(m, v),
           NEW n \in Instances, NEW u \in Uuids
    PROVE  DeletionStep(n, u)
<1>0. /\ row \in [Instances -> [Uuids -> Row]] /\ tomb \in [Instances -> [Uuids -> Nat]]
      /\ clock + 1 # 0
  BY DEF TypeOK
<1>1. CASE Create(m, v)
  BY <1>0, <1>1 DEF Create, DeletionStep, Exists
<1>2. CASE WriteForm(m, v)
  <2>1. tomb' = tomb
    BY <1>2 DEF WriteForm
  <2>2. row'[n][u].entry_date = clock + 1 \/ row'[n][u] = row[n][u]
    BY <1>0, <1>2 DEF WriteForm
  <2>3. QED
    BY <1>0, <2>1, <2>2 DEF DeletionStep, Exists
<1>3. CASE Delete(m, v)
  <2>1. tomb' = [tomb EXCEPT ![m] = Buried(tomb[m], {v})]
    BY <1>3 DEF Delete
  <2>2. n = m => tomb'[n] = Buried(tomb[n], {v})
    BY <1>0, <2>1
  <2>3. n # m => tomb'[n] = tomb[n]
    BY <1>0, <2>1
  <2>4. n # m \/ u # v => row'[n][u] = row[n][u]
    BY <1>0, <1>3 DEF Delete
  <2>5. /\ tomb[n][u] # 0 => Buried(tomb[n], {v})[u] = tomb[n][u]
        /\ u = v => Buried(tomb[n], {v})[u] # 0
    BY BuriedFacts
  <2>6. CASE n = m
    BY <2>2, <2>4, <2>5, <2>6 DEF DeletionStep
  <2>7. CASE n # m
    BY <2>3, <2>4, <2>7 DEF DeletionStep
  <2>8. QED
    BY <2>6, <2>7
<1>4. CASE UNCHANGED <<row, tomb>>
  BY <1>4 DEF DeletionStep
<1>5. QED
  BY <1>1, <1>2, <1>3, <1>4 DEF Edit, OpenForm, SubmitForm, CloseForm, Cite, Uncite

LEMMA PullDeletions ==
    ASSUME TypeOK, TxnsConsistent, NEW m \in Instances, Replicate(m),
           NEW n \in Instances, NEW u \in Uuids
    PROVE  DeletionStep(n, u)
<1>1. CASE Import(m)
  <2>0. tomb \in [Instances -> [Uuids -> Nat]]
    BY DEF TypeOK
  <2>1. tomb' = [tomb EXCEPT ![m] = Buried(tomb[m], Removed(m))]
    BY <1>1 DEF Import
  <2>2. n = m => tomb'[n] = Buried(tomb[n], Removed(n))
    BY <2>0, <2>1
  <2>3. n # m => tomb'[n] = tomb[n] /\ row'[n] = row[n]
    BY <1>1, <2>0, <2>1, ImportRows
  <2>4. n = m /\ u \notin Removed(m) /\ Exists(row[n][u]) => Exists(row'[n][u])
    BY <1>1, ImportRows, ImportKeeps DEF TxnsConsistent
  <2>5. /\ tomb[n][u] # 0 => Buried(tomb[n], Removed(n))[u] = tomb[n][u]
        /\ u \in Removed(n) => Buried(tomb[n], Removed(n))[u] # 0
    BY BuriedFacts
  <2>6. CASE n = m
    BY <2>2, <2>4, <2>5, <2>6 DEF DeletionStep
  <2>7. CASE n # m
    BY <2>3, <2>7 DEF DeletionStep
  <2>8. QED
    BY <2>6, <2>7
<1>2. CASE ~Import(m)
  BY <1>2, PullFrame DEF DeletionStep
<1>3. QED
  BY <1>1, <1>2

\* Every row that leaves a database, by staff or by a pull, leaves a
\* DeletedRecord there, and no step removes or re-dates a DeletedRecord.
THEOREM DeletionsAreRecorded == Spec => DeletionsRecorded
<1>1. TypeOK /\ TxnsConsistent /\ [Next]_vars =>
        [\A n \in Instances, u \in Uuids : DeletionStep(n, u)]_vars
  <2> SUFFICES ASSUME TypeOK, TxnsConsistent, Next, NEW n \in Instances, NEW u \in Uuids
               PROVE  DeletionStep(n, u)
    OBVIOUS
  <2>1. QED
    BY EditDeletions, PullDeletions DEF Next
<1>2. QED
  BY <1>1, TypeCorrect, TransactionsAreConsistent, PTL
     DEF Spec, DeletionsRecorded, DeletionStep

\* A row cited by a manuscript is never deleted, whoever deletes.
THEOREM CitedRowsStay == Spec => []CitedRowsExist
<1>1. Init => CitedRowsExist
  BY DEF Init, CitedRowsExist
<1>2. TypeOK /\ TxnsConsistent /\ CitedRowsExist /\ [Next]_vars => CitedRowsExist'
  <2> SUFFICES ASSUME TypeOK, TxnsConsistent, CitedRowsExist, [Next]_vars,
                      NEW n \in Instances, NEW u \in cited'[n]
               PROVE  Exists(row'[n][u])
    BY DEF CitedRowsExist, Exists
  <2>0. /\ row \in [Instances -> [Uuids -> Row]] /\ clock + 1 # 0
        /\ cited \in [Instances -> SUBSET Uuids]
    BY DEF TypeOK
  <2>1. CASE UNCHANGED vars
    BY <2>1 DEF vars, CitedRowsExist
  <2>2. ASSUME NEW m \in Instances, NEW v \in Uuids, Edit(m, v)
        PROVE  Exists(row'[n][u])
    <3>1. CASE Create(m, v)
      BY <2>0, <3>1 DEF Create, CitedRowsExist, Exists
    <3>2. CASE WriteForm(m, v)
      <4>1. row'[n][u].entry_date = clock + 1 \/ row'[n][u] = row[n][u]
        BY <2>0, <3>2 DEF WriteForm
      <4>2. QED
        BY <2>0, <3>2, <4>1 DEF WriteForm, CitedRowsExist, Exists
    <3>3. CASE Delete(m, v)
      BY <2>0, <3>3 DEF Delete, CitedRowsExist
    <3>4. CASE Cite(m, v)
      BY <2>0, <3>4 DEF Cite, CitedRowsExist
    <3>5. CASE Uncite(m, v)
      BY <2>0, <3>5 DEF Uncite, CitedRowsExist
    <3>6. CASE UNCHANGED <<row, cited>>
      BY <3>6 DEF CitedRowsExist
    <3>7. QED
      BY <2>2, <3>1, <3>2, <3>3, <3>4, <3>5, <3>6
         DEF Edit, OpenForm, SubmitForm, CloseForm
  <2>3. ASSUME NEW m \in Instances, Replicate(m)
        PROVE  Exists(row'[n][u])
    <3>1. CASE Import(m)
      <4>1. u \in cited[n] /\ u \in Uuids /\ Exists(row[n][u])
        BY <2>0, <3>1 DEF Import, CitedRowsExist
      <4>2. u \notin Removed(n)
        BY <4>1 DEF Removed
      <4>3. QED
        BY <3>1, <4>1, <4>2, ImportRows, ImportKeeps DEF TxnsConsistent
    <3>2. CASE ~Import(m)
      BY <2>3, <3>2, PullFrame DEF CitedRowsExist
    <3>3. QED
      BY <3>1, <3>2
  <2>4. QED
    BY <2>1, <2>2, <2>3 DEF Next
<1>3. QED
  BY <1>1, <1>2, TypeCorrect, TransactionsAreConsistent, PTL DEF Spec

----------------------------------------------------------------------------
(* Decisions.                                                              *)

\* The decisions of a workflow: no row is on both lists, and the row asked about
\* is on neither.
DecisionInv(p) ==
    /\ p.force \cap p.keep = {}
    /\ p.asked \cap (p.force \cup p.keep) = {}
    /\ p.phase = "conflict" => p.asked # {}

LEMMA IdleDecisions == ASSUME NEW n \in Instances PROVE DecisionInv(Idle(n))
BY DEF DecisionInv, Idle

LEMMA PullDecisions ==
    ASSUME TypeOK, NEW n \in Instances, DecisionInv(op[n]), Replicate(n)
    PROVE  DecisionInv(op'[n])
<1>0. op \in [Instances -> Pull] /\ op[n] \in Pull
  BY DEF TypeOK
<1>1. ASSUME NEW m \in Instances, NEW c \in Categories, NEW since \in Sinces,
             StartPull(n, m, c, since)
      PROVE  DecisionInv(op'[n])
  BY <1>0, <1>1 DEF StartPull, Idle, DecisionInv
<1>2. CASE FetchDeleted(n)
  BY <1>0, <1>2 DEF FetchDeleted, DecisionInv, Pull
<1>3. CASE FetchFails(n) \/ ImportFails(n)
  <2>1. op' = [op EXCEPT ![n] = GivenUp(n)]
    BY <1>3 DEF FetchFails, ImportFails
  <2>2. DecisionInv(GivenUp(n))
    BY <1>0, IdleDecisions DEF GivenUp, DecisionInv, Pull
  <2>3. QED
    BY <1>0, <2>1, <2>2
<1>4. CASE Import(n)
  BY <1>0, <1>4, IdleDecisions DEF Import
<1>5. ASSUME NEW u \in Uuids, StopOnConflict(n, u)
      PROVE  DecisionInv(op'[n])
  <2>1. u \notin Forced(op[n]) /\ u \notin Kept(op[n])
    BY <1>5 DEF StopOnConflict, Conflicting
  <2>2. Forced(op[n]) \cap Kept(op[n]) = {}
    BY <1>0 DEF Forced, Kept, DecisionInv
  <2>3. /\ op'[n].force = Forced(op[n]) /\ op'[n].keep = Kept(op[n])
        /\ op'[n].asked = {u}
    BY <1>0, <1>5 DEF StopOnConflict, Pull
  <2>4. QED
    BY <2>1, <2>2, <2>3 DEF DecisionInv
<1>6. ASSUME NEW d \in Decisions, Resolve(n, d)
      PROVE  DecisionInv(op'[n])
  BY <1>0, <1>6 DEF Resolve, DecisionInv, Pull
<1>7. CASE CloseConflict(n)
  BY <1>0, <1>7, IdleDecisions DEF CloseConflict
<1>8. ASSUME NEW u \in Uuids, CheckRow(n, u) \/ UpdateRow(n, u)
      PROVE  DecisionInv(op'[n])
  BY <1>8 DEF CheckRow, UpdateRow
<1>9. QED
  BY <1>1, <1>2, <1>3, <1>4, <1>5, <1>6, <1>7, <1>8 DEF Replicate, ImportStep

\* No operator is asked twice about one row in a workflow, and the answers never
\* contradict each other.
THEOREM NeverAskedTwice == Spec => []AskedOnce
<1> DEFINE Inv == \A n \in Instances : DecisionInv(op[n])
<1>1. Init => Inv
  BY IdleDecisions DEF Init
<1>2. TypeOK /\ Inv /\ [Next]_vars => Inv'
  <2> SUFFICES ASSUME TypeOK, Inv, [Next]_vars, NEW n \in Instances
               PROVE  DecisionInv(op'[n])
    BY DEF DecisionInv
  <2>1. CASE UNCHANGED vars
    BY <2>1 DEF vars
  <2>2. ASSUME NEW m \in Instances, NEW v \in Uuids, Edit(m, v)
        PROVE  DecisionInv(op'[n])
    BY <2>2, EditFrame
  <2>3. ASSUME NEW m \in Instances, Replicate(m)
        PROVE  DecisionInv(op'[n])
    BY <2>3, PullDecisions, PullOwn
  <2>4. QED
    BY <2>1, <2>2, <2>3 DEF Next
<1>3. TypeOK /\ Inv => AskedOnce
  BY DEF AskedOnce, DecisionInv, Forced, Kept
<1>4. QED
  BY <1>1, <1>2, <1>3, TypeCorrect, PTL DEF Spec

\* Judged by the row it has read, no pull moves a row back, or swaps it for another
\* of the same version, without the operator's word; what it writes over unread was
\* saved after the reading; and a row the operator kept is left alone unless the
\* peer announced its deletion.
RespectsDecision(n, u) ==
    (/\ Commits(n)
     /\ Exists(row[n][u])
     /\ row'[n][u] # row[n][u])
    => \/ u \in op[n].deleted /\ ~Exists(row'[n][u])
       \/ /\ u \notin Kept(op[n])
          /\ \/ u \in Forced(op[n])
             \/ /\ row'[n][u].version > txn[n].read[u].version
                /\ row[n][u] = txn[n].read[u] \/ SavedSince(n, u)

THEOREM ImportsRespectDecisions == Spec => ImportRespectsDecisions
<1>1. TypeOK /\ TxnsConsistent /\ [Next]_vars =>
        [\A n \in Instances, u \in Uuids : RespectsDecision(n, u)]_vars
  <2> SUFFICES ASSUME TypeOK, TxnsConsistent, Next, NEW n \in Instances, NEW u \in Uuids,
                      Commits(n), Exists(row[n][u]), row'[n][u] # row[n][u]
               PROVE  \/ u \in op[n].deleted /\ ~Exists(row'[n][u])
                      \/ /\ u \notin Kept(op[n])
                         /\ \/ u \in Forced(op[n])
                            \/ /\ row'[n][u].version > txn[n].read[u].version
                               /\ row[n][u] = txn[n].read[u] \/ SavedSince(n, u)
    BY DEF RespectsDecision
  <2>1. op'[n] # op[n]
    BY DEF Commits
  <2>2. Replicate(n)
    BY <2>1, EditFrame, PullOwn DEF Next
  <2>3. Import(n)
    BY <2>2, PullFrame
  <2>4. CASE u \in Removed(n)
    BY <2>3, <2>4, ImportRows, NoRowType DEF Removed
  <2>5. CASE u \notin Removed(n)
    <3>1. u \in txn[n].written /\ row'[n][u] = op[n].exported[u]
      BY <2>3, <2>5, ImportRows
    <3>2. TxnRow(n, u)
      BY DEF TxnsConsistent, TxnInv
    <3>3. /\ Exists(txn[n].read[u]) /\ Exists(op[n].exported[u])
          /\ u \notin Kept(op[n]) /\ txn[n].read[u] # op[n].exported[u]
          /\ ~Conflicting(op[n], txn[n].read[u], op[n].exported[u], u)
          /\ row[n][u] = txn[n].read[u] \/ SavedSince(n, u)
      BY <3>1, <3>2 DEF TxnRow
    <3>4. op[n].exported[u].version \in Nat /\ txn[n].read[u].version \in Nat
      BY DEF TypeOK, Pull, Txn, Row
    <3>5. u \in Forced(op[n]) \/ op[n].exported[u].version > txn[n].read[u].version
      BY <3>3, <3>4 DEF Conflicting
    <3>6. QED
      BY <3>1, <3>3, <3>5
  <2>6. QED
    BY <2>4, <2>5
<1>2. QED
  BY <1>1, TypeCorrect, TransactionsAreConsistent, PTL
     DEF Spec, ImportRespectsDecisions, RespectsDecision

\* The rows a workflow has asked about so far.
Decided(p) == p.force \cup p.keep \cup p.asked

\* Inductive: a pull that was repeated carries an answer.
Answered(p) == p.phase \in {"exported", "fetched"} /\ p.asked # {} => p.decision # "none"

\* Within a workflow no answer is lost, and each conflict that stops it is about
\* a row it has not asked about.
Advances(n) ==
    /\ op[n].phase # "idle" /\ op'[n].phase # "idle"
         => Decided(op[n]) \subseteq Decided(op'[n])
    /\ \A u \in Uuids : StopOnConflict(n, u)
         => u \notin Decided(op[n]) /\ u \in Decided(op'[n])

AnswersAddUp == [][\A n \in Instances : Advances(n)]_vars

LEMMA StopAsksAnew ==
    ASSUME TypeOK, NEW n \in Instances, Answered(op[n]),
           NEW u \in Uuids, StopOnConflict(n, u)
    PROVE  /\ Decided(op'[n]) = Decided(op[n]) \cup {u} /\ u \notin Decided(op[n])
           /\ Answered(op'[n])
<1>0. op \in [Instances -> Pull] /\ op[n] \in Pull
  BY DEF TypeOK
<1>1. /\ op'[n].force = Forced(op[n]) /\ op'[n].keep = Kept(op[n])
      /\ op'[n].asked = {u} /\ op'[n].phase = "conflict" /\ op[n].phase = "fetched"
  BY <1>0 DEF StopOnConflict, At, Pull
<1>2. u \notin Forced(op[n]) /\ u \notin Kept(op[n])
  BY DEF StopOnConflict, Conflicting
<1>3. Forced(op[n]) \cup Kept(op[n]) = Decided(op[n])
  <2>1. CASE op[n].asked = {}
    BY <2>1 DEF Forced, Kept, Decided
  <2>2. CASE op[n].asked # {}
    <3>1. op[n].decision \in {"apply_remote", "keep_local"}
      BY <1>0, <1>1, <2>2 DEF Answered, Pull
    <3>2. QED
      BY <3>1 DEF Forced, Kept, Decided
  <2>3. QED
    BY <2>1, <2>2
<1>4. QED
  BY <1>1, <1>2, <1>3 DEF Answered, Decided

LEMMA PullAnswered ==
    ASSUME TypeOK, NEW n \in Instances, Answered(op[n]), Replicate(n)
    PROVE  /\ Answered(op'[n])
           /\ op[n].phase # "idle" /\ op'[n].phase # "idle"
                => Decided(op[n]) \subseteq Decided(op'[n])
<1> DEFINE Goal == /\ Answered(op'[n])
                   /\ op[n].phase # "idle" /\ op'[n].phase # "idle"
                        => Decided(op[n]) \subseteq Decided(op'[n])
<1>0. op \in [Instances -> Pull] /\ op[n] \in Pull
  BY DEF TypeOK
<1>1. ASSUME NEW m \in Instances, NEW c \in Categories, NEW since \in Sinces,
             StartPull(n, m, c, since)
      PROVE  Goal
  BY <1>0, <1>1 DEF StartPull, Idle, Answered
<1>2. CASE FetchDeleted(n)
  BY <1>0, <1>2 DEF FetchDeleted, Answered, Decided, Pull
<1>3. CASE FetchFails(n) \/ ImportFails(n)
  <2>1. op' = [op EXCEPT ![n] = GivenUp(n)]
    BY <1>3 DEF FetchFails, ImportFails
  <2>2. CASE op[n].asked = {}
    BY <1>0, <2>1, <2>2 DEF GivenUp, Answered, Idle
  <2>3. CASE op[n].asked # {}
    <3>1. /\ op'[n].phase = "conflict"
          /\ op'[n].force = op[n].force /\ op'[n].keep = op[n].keep
          /\ op'[n].asked = op[n].asked
      BY <1>0, <2>1, <2>3 DEF GivenUp, Pull
    <3>2. QED
      BY <3>1 DEF Answered, Decided
  <2>4. QED
    BY <2>2, <2>3
<1>4. CASE Import(n) \/ CloseConflict(n)
  BY <1>0, <1>4 DEF Import, CloseConflict, Idle, Answered
<1>5. ASSUME NEW u \in Uuids, StopOnConflict(n, u)
      PROVE  Goal
  BY <1>5, StopAsksAnew
<1>6. ASSUME NEW d \in Decisions, Resolve(n, d)
      PROVE  Goal
  <2>1. /\ op'[n].phase = "exported" /\ op[n].phase = "conflict" /\ op'[n].decision = d
        /\ op'[n].force = op[n].force /\ op'[n].keep = op[n].keep
        /\ op'[n].asked = op[n].asked
    BY <1>0, <1>6 DEF Resolve, Pull
  <2>2. d # "none"
    BY ConstantTypes
  <2>3. QED
    BY <2>1, <2>2 DEF Answered, Decided
<1>7. ASSUME NEW u \in Uuids, CheckRow(n, u) \/ UpdateRow(n, u)
      PROVE  Goal
  BY <1>7 DEF CheckRow, UpdateRow
<1>8. QED
  BY <1>1, <1>2, <1>3, <1>4, <1>5, <1>6, <1>7 DEF Replicate, ImportStep

\* The safety half of WorkflowEnds: as each conflict is about another row, a
\* workflow stops at most as often as there are rows, however the peer changes
\* meanwhile and however often requests fail.
THEOREM AnswersNeverLost == Spec => AnswersAddUp
<1> DEFINE Inv == \A n \in Instances : Answered(op[n])
           Step == \A n \in Instances : Advances(n)
<1>1. Init => Inv
  BY DEF Init, Idle, Answered
<1>2. TypeOK /\ Inv /\ [Next]_vars => Inv' /\ [Step]_vars
  <2> SUFFICES ASSUME TypeOK, Inv, [Next]_vars, NEW n \in Instances
               PROVE  Answered(op'[n]) /\ (vars' # vars => Advances(n))
    OBVIOUS
  <2>1. CASE UNCHANGED vars
    BY <2>1 DEF vars
  <2>2. ASSUME Next
        PROVE  /\ Answered(op'[n])
               /\ op[n].phase # "idle" /\ op'[n].phase # "idle"
                    => Decided(op[n]) \subseteq Decided(op'[n])
    <3>1. CASE op'[n] = op[n]
      BY <3>1
    <3>2. CASE op'[n] # op[n]
      BY <2>2, <3>2, PullAnswered, PullOwn, EditFrame DEF Next
    <3>3. QED
      BY <3>1, <3>2
  <2>3. \A u \in Uuids : StopOnConflict(n, u)
          => u \notin Decided(op[n]) /\ u \in Decided(op'[n])
    BY StopAsksAnew
  <2>4. QED
    BY <2>1, <2>2, <2>3 DEF Advances
<1>3. Spec => [][Step]_vars
  <2> HIDE DEF Inv, Step
  <2> QED
    BY <1>1, <1>2, TypeCorrect, PTL DEF Spec
<1>4. QED
  BY <1>3 DEF AnswersAddUp

----------------------------------------------------------------------------
(* Versions.                                                               *)

Small(S, k) == IsFiniteSet(S) /\ Cardinality(S) <= k

\* A form that will write a row was read from a row that is still there; what
\* it may write carries at most one edit more than what it was read from, and
\* when it was submitted the version was chosen accordingly.
FormCounts(f, r) ==
    /\ f.phase # "closed" /\ f.live => Exists(r)
    /\ f.phase = "open" /\ f.live => Small(f.base, r.version)
    /\ f.phase = "saving" =>
          /\ IsFiniteSet(f.base)
          /\ Cardinality(f.base) + (IF f.edited THEN 1 ELSE 0) <= f.version

Counts(u) ==
    /\ \A r \in Copies(u) : Small(r.content, r.version)
    /\ \A n \in Instances : FormCounts(form[n][u], row[n][u])

LEMMA NoRowCounts == Small(NoRow.content, NoRow.version)
BY FS_EmptySet DEF Small, NoRow

LEMMA ClosedCounts == \A r : FormCounts(Closed, r)
BY DEF FormCounts, Closed

\* At the row it touches, an editing step keeps the count of the row and of the
\* form.
LEMMA EditCountsHere ==
    ASSUME TypeOK, NEW n \in Instances, NEW u \in Uuids, Edit(n, u), Counts(u)
    PROVE  /\ Small(row'[n][u].content, row'[n][u].version)
           /\ FormCounts(form'[n][u], row'[n][u])
<1>0. /\ row \in [Instances -> [Uuids -> Row]] /\ row[n][u] \in Row
      /\ form \in [Instances -> [Uuids -> Form]] /\ form[n][u] \in Form
      /\ clock \in Nat /\ clock + 1 # 0
      /\ row[n][u].version \in Nat
      /\ Small(row[n][u].content, row[n][u].version)
      /\ FormCounts(form[n][u], row[n][u])
  BY CopyMembers DEF TypeOK, Row, Counts
<1>1. CASE Create(n, u)
  <2>1. row'[n][u] = [version |-> 1, content |-> {clock + 1}, entry_date |-> clock + 1]
    BY <1>0, <1>1 DEF Create
  <2>2. Small({clock + 1}, 1)
    <3>1. IsFiniteSet({clock + 1}) /\ Cardinality({clock + 1}) = 1
      BY FS_Singleton
    <3>2. QED
      BY <3>1 DEF Small
  <2>3. form'[n][u] = form[n][u] /\ ~Exists(row[n][u])
    BY <1>1 DEF Create, Fresh
  <2>4. FormCounts(form'[n][u], row'[n][u])
    BY <1>0, <2>3 DEF FormCounts
  <2>5. QED
    BY <2>1, <2>2, <2>4
<1>2. CASE OpenForm(n, u)
  <2>1. form'[n][u] = [phase |-> "open", base |-> row[n][u].content,
                       edited |-> FALSE, version |-> 0, live |-> TRUE]
    BY <1>0, <1>2 DEF OpenForm
  <2>2. row' = row /\ Exists(row[n][u])
    BY <1>2 DEF OpenForm
  <2>3. QED
    BY <1>0, <2>1, <2>2 DEF FormCounts
<1>3. ASSUME NEW edited \in BOOLEAN, SubmitForm(n, u, edited)
      PROVE  /\ Small(row'[n][u].content, row'[n][u].version)
             /\ FormCounts(form'[n][u], row'[n][u])
  <2> DEFINE v == IF edited \/ form[n][u].base # row[n][u].content
                  THEN row[n][u].version + 1 ELSE row[n][u].version
  <2>1. row' = row /\ form[n][u].phase = "open" /\ form[n][u].live
    BY <1>3 DEF SubmitForm
  <2>2. /\ form'[n][u].phase = "saving" /\ form'[n][u].edited = edited
        /\ form'[n][u].base = form[n][u].base /\ form'[n][u].live
        /\ form'[n][u].version = v
    BY <1>0, <1>3, <2>1 DEF SubmitForm, Form
  <2>3. Small(form[n][u].base, row[n][u].version) /\ Exists(row[n][u])
    BY <1>0, <2>1 DEF FormCounts
  <2>4. Cardinality(form[n][u].base) \in Nat
    BY <2>3, FS_CardinalityType DEF Small
  <2>5. Cardinality(form[n][u].base) + (IF edited THEN 1 ELSE 0) <= v
    BY <1>0, <2>3, <2>4 DEF Small
  <2>6. QED
    BY <1>0, <2>1, <2>2, <2>3, <2>5 DEF FormCounts, Small
<1>4. CASE WriteForm(n, u)
  <2> DEFINE base == form[n][u].base
             c == IF form[n][u].edited THEN base \cup {clock + 1} ELSE base
  <2>1. /\ row'[n][u].version = form[n][u].version /\ row'[n][u].content = c
        /\ form'[n][u] = Closed
    BY <1>0, <1>4 DEF WriteForm
  <2>2. /\ IsFiniteSet(base) /\ Cardinality(base) \in Nat
        /\ Cardinality(base) + (IF form[n][u].edited THEN 1 ELSE 0) <= form[n][u].version
        /\ form[n][u].version \in Nat
    BY <1>0, <1>4, FS_CardinalityType DEF WriteForm, FormCounts, Form
  <2>3. /\ IsFiniteSet(base \cup {clock + 1})
        /\ \/ Cardinality(base \cup {clock + 1}) = Cardinality(base)
           \/ Cardinality(base \cup {clock + 1}) = Cardinality(base) + 1
    BY <2>2, FS_AddElement
  <2>4. Small(c, form[n][u].version)
    <3> HIDE DEF base
    <3>1. CASE form[n][u].edited
      BY <2>2, <2>3, <3>1 DEF Small
    <3>2. CASE ~form[n][u].edited
      BY <2>2, <3>2 DEF Small
    <3>3. QED
      BY <3>1, <3>2
  <2>5. QED
    BY <2>1, <2>4, ClosedCounts
<1>5. CASE CloseForm(n, u)
  <2>1. row' = row /\ form'[n][u] = Closed
    BY <1>0, <1>5 DEF CloseForm
  <2>2. QED
    BY <1>0, <2>1, ClosedCounts
<1>6. CASE Delete(n, u)
  <2>1. row'[n][u] = NoRow
    BY <1>0, <1>6 DEF Delete
  <2>2. form'[n][u] = [form[n][u] EXCEPT !.live = FALSE]
    BY <1>0, <1>6 DEF Delete, Detached
  <2>3. FormCounts(form'[n][u], row'[n][u])
    BY <1>0, <2>2 DEF FormCounts, Form
  <2>4. QED
    BY <2>1, <2>3, NoRowCounts
<1>7. CASE Cite(n, u) \/ Uncite(n, u)
  BY <1>0, <1>7 DEF Cite, Uncite
<1>8. QED
  BY <1>1, <1>2, <1>3, <1>4, <1>5, <1>6, <1>7 DEF Edit

LEMMA EditCounts ==
    ASSUME TypeOK, NEW m \in Instances, NEW v \in Uuids, Edit(m, v),
           NEW u \in Uuids, Counts(u)
    PROVE  Counts(u)'
<1>1. op' = op
  BY EditFrame
<1>2. ASSUME NEW n \in Instances
      PROVE  /\ Small(row'[n][u].content, row'[n][u].version)
             /\ FormCounts(form'[n][u], row'[n][u])
  <2>1. CASE n = m /\ u = v
    BY <2>1, EditCountsHere
  <2>2. CASE n # m \/ u # v
    <3>1. row'[n][u] = row[n][u] /\ form'[n][u] = form[n][u]
      BY <2>2, EditElsewhere
    <3>2. QED
      BY <3>1, CopyMembers DEF Counts
  <2>3. QED
    BY <2>1, <2>2
<1>3. \A n \in Instances : Small(op[n].exported[u].content, op[n].exported[u].version)
  BY CopyMembers DEF Counts
<1>4. \A r \in Copies(u)' : Small(r.content, r.version)
  BY <1>1, <1>2, <1>3 DEF Copies
<1>5. \A n \in Instances : FormCounts(form'[n][u], row'[n][u])
  BY <1>2
<1>6. QED
  BY <1>4, <1>5 DEF Counts, FormCounts, Small, Exists

\* An import that nobody forced puts no row below the version a form was read
\* from, and takes the form's row away only together with the form's hold on it.
LEMMA PullCounts ==
    ASSUME TypeOK, TxnsConsistent, NEW m \in Instances, Replicate(m),
           NEW u \in Uuids, u \notin overridden', Counts(u)
    PROVE  Counts(u)'
<1>1. \A r \in Copies(u)' : Small(r.content, r.version)
  BY PullCopies, NoRowCounts DEF Counts
<1>2. ASSUME NEW n \in Instances
      PROVE  FormCounts(form'[n][u], row'[n][u])
  <2>0. /\ form \in [Instances -> [Uuids -> Form]] /\ form[n][u] \in Form
        /\ FormCounts(form[n][u], row[n][u])
    BY DEF TypeOK, Counts
  <2>1. CASE ~Import(m)
    BY <2>0, <2>1, PullFrame
  <2>2. CASE Import(m) /\ n # m
    <3>1. row'[n] = row[n]
      BY <2>2, ImportRows
    <3>2. form'[n] = form[n]
      BY <2>0, <2>2 DEF Import
    <3>3. QED
      BY <2>0, <3>1, <3>2
  <2>3. CASE Import(m) /\ n = m
    <3>1. form'[n] = Detached(form[n], Removed(n))
      BY <2>0, <2>3 DEF Import
    <3>2. CASE u \in Removed(n)
      <4>1. form'[n][u] = [form[n][u] EXCEPT !.live = FALSE]
        BY <3>1, <3>2 DEF Detached
      <4>2. QED
        BY <2>0, <4>1 DEF FormCounts, Form
    <3>3. CASE u \notin Removed(n)
      <4>1. form'[n][u] = form[n][u]
        BY <3>1, <3>3 DEF Detached
      <4>2. /\ row'[n][u] = IF u \in txn[n].written THEN op[n].exported[u]
                                                    ELSE row[n][u]
            /\ Exists(row[n][u]) => Exists(row'[n][u])
        BY <2>3, <3>3, ImportRows, ImportKeeps DEF TxnsConsistent
      <4>3. row[n][u].version \in Nat /\ op[n].exported[u].version \in Nat
        BY DEF TypeOK, Pull, Row
      <4>4. Exists(row[n][u]) => row'[n][u].version >= row[n][u].version
        <5> SUFFICES ASSUME Exists(row[n][u]), u \in txn[n].written
                     PROVE  op[n].exported[u].version >= row[n][u].version
          BY <4>2, <4>3
        <5>1. TxnRow(n, u)
          BY DEF TxnsConsistent, TxnInv
        <5>2. u \notin Forced(op[n]) /\ row[n][u] = txn[n].read[u]
          BY <2>3 DEF Import, Overtaken
        <5>3. /\ Exists(op[n].exported[u]) /\ u \notin Kept(op[n])
              /\ ~Conflicting(op[n], row[n][u], op[n].exported[u], u)
          BY <5>1, <5>2 DEF TxnRow
        <5>4. QED
          BY <4>3, <5>2, <5>3 DEF Conflicting
      <4>5. form[n][u].phase = "open" /\ form[n][u].live
               => Small(form[n][u].base, row'[n][u].version)
        <5> SUFFICES ASSUME form[n][u].phase = "open", form[n][u].live
                     PROVE  Small(form[n][u].base, row'[n][u].version)
          OBVIOUS
        <5>1. /\ IsFiniteSet(form[n][u].base)
              /\ Cardinality(form[n][u].base) <= row[n][u].version
              /\ Exists(row[n][u])
          BY <2>0 DEF FormCounts, Small
        <5>2. Cardinality(form[n][u].base) \in Nat /\ row'[n][u].version \in Nat
          BY <4>2, <4>3, <5>1, FS_CardinalityType
        <5>3. QED
          BY <4>3, <4>4, <5>1, <5>2 DEF Small
      <4>6. QED
        BY <2>0, <4>1, <4>2, <4>5 DEF FormCounts
    <3>4. QED
      BY <3>2, <3>3
  <2>4. QED
    BY <2>1, <2>2, <2>3
<1>3. QED
  BY <1>1, <1>2 DEF Counts, FormCounts, Small, Exists

\* Unless some state of a row was forced on an instance, by an operator or by an
\* import that overtakes a save, the version of
\* every copy of it is at least the number of edits it carries: no stale form and
\* no save that races an import makes the counter fall behind the payload.
THEOREM VersionsCountEdits == Spec => []VersionCountsEdits
<1> DEFINE Inv == \A u \in Uuids \ overridden : Counts(u)
<1>1. Init => Inv
  <2> SUFFICES ASSUME Init, NEW u \in Uuids PROVE Counts(u)
    OBVIOUS
  <2>1. \A r \in Copies(u) : r = NoRow \/ (r.content = {} /\ r.version = 1)
    BY DEF Init, Copies, Idle
  <2>2. Small({}, 1)
    BY FS_EmptySet DEF Small
  <2>3. \A n \in Instances : form[n][u] = Closed
    BY DEF Init
  <2>4. QED
    BY <2>1, <2>2, <2>3, NoRowCounts, ClosedCounts DEF Counts
<1>2. TypeOK /\ TxnsConsistent /\ Inv /\ [Next]_vars => Inv'
  <2> SUFFICES ASSUME TypeOK, TxnsConsistent, Inv, [Next]_vars,
                      NEW u \in Uuids, u \notin overridden'
               PROVE  Counts(u)'
    BY DEF Counts, FormCounts, Small, Exists
  <2>1. CASE UNCHANGED vars
    BY <2>1 DEF vars, Counts, Copies
  <2>2. ASSUME NEW m \in Instances, NEW v \in Uuids, Edit(m, v)
        PROVE  Counts(u)'
    BY <2>2, EditFrame, EditCounts
  <2>3. ASSUME NEW m \in Instances, Replicate(m)
        PROVE  Counts(u)'
    <3>1. u \notin overridden
      BY <2>3, PullFrame DEF Import
    <3>2. QED
      BY <2>3, <3>1, PullCounts
  <2>4. QED
    BY <2>1, <2>2, <2>3 DEF Next
<1>3. Inv => VersionCountsEdits
  BY DEF VersionCountsEdits, Counts, Small
<1>4. QED
  BY <1>1, <1>2, <1>3, TypeCorrect, TransactionsAreConsistent, PTL DEF Spec
=============================================================================
