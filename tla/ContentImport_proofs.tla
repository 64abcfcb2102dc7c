----------------------- MODULE ContentImport_proofs -----------------------
(***************************************************************************)
(* Theorems about ContentImport, for every value of its constants: any      *)
(* number of requests, any lists of rows, any number of edits.              *)
(***************************************************************************)
EXTENDS ContentImport, FiniteSetTheorems, WellFoundedInduction, TLAPS

----------------------------------------------------------------------------
(* Type correctness.                                                       *)

LEMMA FieldTypes ==
    ASSUME TypeOK, NEW r \in Requests
    PROVE  items[r] \in Seq(Nat \cup {Omitted}) /\ next[r] \in Nat
<1>1. << >> \in Seq(Nat \cup {Omitted})
  OBVIOUS
<1>2. Payloads \cup {<< >>} \subseteq Seq(Nat \cup {Omitted})
  BY <1>1, ContentAssumption
<1>3. items[r] \in Payloads \cup {<< >>} /\ next[r] \in Nat
  BY DEF TypeOK
<1>4. QED
  BY <1>2, <1>3

LEMMA NewRowType ==
    ASSUME TypeOK, NEW r \in Requests, NEW i \in 1..Len(items[r])
    PROVE  NewRow(r, i) \in Rows
<1>1. items[r] \in Seq(Nat \cup {Omitted}) /\ next[r] \in Nat
  BY FieldTypes
<1>2. i \in Nat /\ items[r][i] \in Nat \cup {Omitted} /\ next[r] + (i - 1) \in Nat
  BY <1>1
<1>3. QED
  BY <1>2 DEF NewRow, Rows, Ids

LEMMA RequestTypeOK ==
    ASSUME TypeOK, NEW r \in Requests, Step(r)
    PROVE  TypeOK'
<1>1. CASE Receive(r)
  <2>1. PICK rows \in Payloads, replacing \in BOOLEAN,
             outcome \in {"refused", "valid", "go on"} :
          /\ items' = [items EXCEPT ![r] = rows]
          /\ replace' = [replace EXCEPT ![r] = replacing]
          /\ phase' = [phase EXCEPT ![r] =
                         IF outcome # "go on" THEN outcome
                         ELSE IF replacing THEN "collect" ELSE "number"]
    BY <1>1 DEF Receive
  <2>2. phase' \in [Requests -> {"unsent"} \cup Open \cup Over]
    BY <2>1 DEF TypeOK, Open, Over
  <2>3. \A q \in Requests : phase'[q] \notin Open => deleted[q] = {} /\ written[q] = {}
    BY <1>1, <2>1 DEF TypeOK, Receive, Open, Over
  <2>4. base' \in [Requests -> SUBSET Rows]
    BY <1>1 DEF TypeOK, Receive
  <2>5. QED
    BY <1>1, <2>1, <2>2, <2>3, <2>4 DEF TypeOK, Receive
<1>2. CASE Collect(r)
  <2>1. IdsOf(content) \in SUBSET Ids
    BY DEF TypeOK, IdsOf, Rows
  <2>2. QED
    BY <1>2, <2>1 DEF TypeOK, Collect, Open, Over
<1>3. CASE DeleteRows(r)
  BY <1>3 DEF TypeOK, DeleteRows, Open, Over
<1>4. CASE ReadHighest(r)
  <2>1. PICK n \in {0, 1} \cup UNION {{row.seq, row.seq + 1} : row \in content} :
          next' = [next EXCEPT ![r] = n]
    BY <1>4 DEF ReadHighest
  <2>2. n \in Nat
    BY <2>1 DEF TypeOK, Rows
  <2>3. QED
    BY <1>4, <2>1, <2>2 DEF TypeOK, ReadHighest, Open, Over
<1>5. CASE WriteRow(r)
  <2>1. PICK i \in Pending(r) : written' = [written EXCEPT ![r] = @ \cup {NewRow(r, i)}]
    BY <1>5 DEF WriteRow
  <2>2. NewRow(r, i) \in Rows
    BY <2>1, NewRowType DEF Pending
  <2>3. written' \in [Requests -> SUBSET Rows]
    BY <2>1, <2>2 DEF TypeOK
  <2>4. \A q \in Requests : phase[q] \notin Open => deleted[q] = {} /\ written'[q] = {}
    BY <1>5, <2>1 DEF TypeOK, WriteRow, Open
  <2>5. QED
    BY <1>5, <2>3, <2>4 DEF TypeOK, WriteRow
<1>6. ASSUME NEW how \in Over, End(r, how), content' \in SUBSET Rows
      PROVE  TypeOK'
  BY <1>6 DEF TypeOK, End, Open, Over
<1>7. CASE Commit(r)
  <2>1. content' \in SUBSET Rows
    BY <1>7 DEF TypeOK, Commit, Without
  <2>2. QED
    BY <1>6, <1>7, <2>1 DEF Commit, Over
<1>8. CASE Fail(r)
  BY <1>6, <1>8 DEF Fail, Over, TypeOK
<1>9. QED
  BY <1>1, <1>2, <1>3, <1>4, <1>5, <1>7, <1>8 DEF Step

LEMMA EditorTypeOK ==
    ASSUME TypeOK, OpenRow \/ SaveRow \/ DeleteRow
    PROVE  TypeOK'
<1>1. CASE OpenRow
  <2>1. form' \in Rows /\ saves' \in 0..MaxSaves
    BY <1>1, ContentAssumption DEF TypeOK, OpenRow
  <2>2. QED
    BY <1>1, <2>1 DEF TypeOK, OpenRow, request
<1>2. CASE SaveRow
  <2>1. PICK n \in Numbers \cup {form.seq} :
          content' = Without(content, {form.id}) \cup {[form EXCEPT !.seq = n]}
    BY <1>2 DEF SaveRow
  <2>2. form \in Rows /\ n \in Nat
    BY <1>2, <2>1, ContentAssumption DEF TypeOK, SaveRow, Rows
  <2>3. [form EXCEPT !.seq = n] \in Rows
    BY <2>2 DEF Rows
  <2>4. content' \in SUBSET Rows
    BY <2>1, <2>3 DEF TypeOK, Without
  <2>5. base' \in [Requests -> SUBSET Rows]
    BY <1>2 DEF TypeOK, SaveRow, Without
  <2>6. QED
    BY <1>2, <2>4, <2>5 DEF TypeOK, SaveRow, request
<1>3. CASE DeleteRow
  <2>1. saves' \in 0..MaxSaves
    BY <1>3, ContentAssumption DEF TypeOK, DeleteRow
  <2>2. QED
    BY <1>3, <2>1 DEF TypeOK, DeleteRow, request
<1>4. QED
  BY <1>1, <1>2, <1>3

LEMMA TypeInit == Init => TypeOK
<1>1. SUFFICES ASSUME Init PROVE TypeOK
  OBVIOUS
<1>2. content \in SUBSET Rows
  <2>1. \A i \in 1..OldRows : [id |-> <<Earlier, i>>, seq |-> i] \in Rows
    BY ContentAssumption DEF Rows, Ids
  <2>2. QED
    BY <1>1, <2>1 DEF Init
<1>3. 0 \in 0..MaxSaves
  BY ContentAssumption
<1>4. QED
  BY <1>1, <1>2, <1>3 DEF Init, TypeOK

LEMMA TypeStep == TypeOK /\ [Next]_vars => TypeOK'
<1>1. SUFFICES ASSUME TypeOK, [Next]_vars PROVE TypeOK'
  OBVIOUS
<1>2. CASE UNCHANGED vars
  BY <1>1, <1>2 DEF TypeOK, vars, request
<1>3. QED
  BY <1>1, <1>2, RequestTypeOK, EditorTypeOK DEF Next

\* No request, however many run at once, leaves the rows or itself outside
\* their types, or changes behind when its transaction is over.
THEOREM TypeCorrect == Spec => []TypeOK
  BY TypeInit, TypeStep, PTL DEF Spec

----------------------------------------------------------------------------
(* Who wrote the rows.                                                     *)

WrittenBy(r, rows) == \E row \in rows : row.id[1] = r

\* Until r is stored, nothing but its own transaction has a row of it: not the
\* manuscript, not the editor, and nobody who looked at the manuscript.
OwnRows ==
    /\ NothingLeftBehind
    /\ \A r \in Requests : phase[r] # "stored" =>
         /\ form # None => form.id[1] # r
         /\ \A q \in Requests : ~WrittenBy(r, base[q])
    /\ \A r \in Requests : \A row \in written[r] : row.id[1] = r

LEMMA OwnInit == Init => OwnRows
<1>1. SUFFICES ASSUME Init PROVE OwnRows
  OBVIOUS
<1>2. \A row \in content : row.id[1] = Earlier
  BY <1>1 DEF Init
<1>3. QED
  BY <1>1, <1>2, ContentAssumption DEF Init, OwnRows, NothingLeftBehind, WrittenBy

LEMMA OwnReceive ==
    ASSUME TypeOK, OwnRows, NEW r \in Requests, Receive(r)
    PROVE  OwnRows'
<1>1. \A q \in Requests : phase'[q] = "stored" <=> phase[q] = "stored"
  BY DEF Receive, TypeOK, Open, Over
<1>2. base' = [base EXCEPT ![r] = content]
  BY DEF Receive
<1>3. UNCHANGED <<content, form, written>>
  BY DEF Receive
<1>4. NothingLeftBehind'
  BY <1>1, <1>3 DEF OwnRows, NothingLeftBehind
<1>5. ASSUME NEW p \in Requests, phase'[p] # "stored", NEW q \in Requests
      PROVE  ~WrittenBy(p, base'[q])
  <2>1. CASE q = r
    BY <1>1, <1>2, <1>5, <2>1 DEF OwnRows, NothingLeftBehind, WrittenBy, TypeOK
  <2>2. CASE q # r
    BY <1>1, <1>2, <1>5, <2>2 DEF OwnRows, TypeOK
  <2>3. QED
    BY <2>1, <2>2
<1>6. QED
  BY <1>1, <1>3, <1>4, <1>5 DEF OwnRows, WrittenBy

LEMMA OwnRequest ==
    ASSUME TypeOK, OwnRows, NEW r \in Requests, Step(r), ~Receive(r)
    PROVE  OwnRows'
<1>1. UNCHANGED <<form, base>>
  BY DEF Step, Collect, DeleteRows, ReadHighest, WriteRow, Commit, Fail, End
<1>2. \A q \in Requests : phase[q] = "stored" => phase'[q] = "stored"
  BY DEF Step, Collect, DeleteRows, ReadHighest, WriteRow, Commit, Fail, End, TypeOK, Open
<1>3. \A q \in Requests : \A row \in written'[q] : row.id[1] = q
  <2>1. CASE WriteRow(r)
    <3>1. PICK i \in Pending(r) : written' = [written EXCEPT ![r] = @ \cup {NewRow(r, i)}]
      BY <2>1 DEF WriteRow
    <3>2. NewRow(r, i).id[1] = r
      BY DEF NewRow
    <3>3. QED
      BY <3>1, <3>2 DEF OwnRows, TypeOK
  <2>2. CASE Commit(r) \/ Fail(r)
    BY <2>2 DEF Commit, Fail, End, OwnRows, TypeOK
  <2>3. CASE ~WriteRow(r) /\ ~Commit(r) /\ ~Fail(r)
    BY <2>3 DEF Step, Collect, DeleteRows, ReadHighest, OwnRows
  <2>4. QED
    BY <2>1, <2>2, <2>3
<1>4. NothingLeftBehind'
  <2>1. CASE Commit(r)
    <3>1. content' \subseteq content \cup written[r] /\ phase'[r] = "stored"
      BY <2>1 DEF Commit, End, Without, TypeOK
    <3>2. QED
      BY <1>2, <3>1 DEF OwnRows, NothingLeftBehind
  <2>2. CASE ~Commit(r)
    <3>1. UNCHANGED content
      BY <2>2 DEF Step, Collect, DeleteRows, ReadHighest, WriteRow, Fail
    <3>2. QED
      BY <1>2, <3>1 DEF OwnRows, NothingLeftBehind
  <2>3. QED
    BY <2>1, <2>2
<1>5. QED
  BY <1>1, <1>2, <1>3, <1>4 DEF OwnRows, WrittenBy

LEMMA SavedRow ==
    ASSUME TypeOK, SaveRow
    PROVE  \E new \in Rows : /\ new.id = form.id
                             /\ content' = Without(content, {form.id}) \cup {new}
<1>1. PICK n \in Numbers \cup {form.seq} :
        content' = Without(content, {form.id}) \cup {[form EXCEPT !.seq = n]}
  BY DEF SaveRow
<1>2. form \in Rows /\ n \in Nat
  BY <1>1, ContentAssumption DEF TypeOK, SaveRow, Rows
<1>3. [form EXCEPT !.seq = n] \in Rows /\ [form EXCEPT !.seq = n].id = form.id
  BY <1>2 DEF Rows
<1>4. QED
  BY <1>1, <1>3

LEMMA OwnEditor ==
    ASSUME TypeOK, OwnRows, OpenRow \/ SaveRow \/ DeleteRow
    PROVE  OwnRows'
<1>1. UNCHANGED <<phase, written>>
  BY DEF OpenRow, SaveRow, DeleteRow, request
<1>2. CASE OpenRow
  BY <1>1, <1>2 DEF OpenRow, OwnRows, NothingLeftBehind, WrittenBy
<1>3. CASE SaveRow
  <2>1. PICK new \in Rows : /\ new.id = form.id
                            /\ content' = Without(content, {form.id}) \cup {new}
    BY <1>3, SavedRow
  <2>2. form # None /\ form' = None
    BY <1>3 DEF SaveRow
  <2>3. NothingLeftBehind'
    BY <1>1, <2>1, <2>2 DEF OwnRows, NothingLeftBehind, Without
  <2>4. \A q \in Requests : base'[q] \subseteq base[q]
    BY <1>3 DEF SaveRow, Without
  <2>5. QED
    BY <1>1, <2>2, <2>3, <2>4 DEF OwnRows, WrittenBy
<1>4. CASE DeleteRow
  BY <1>1, <1>4 DEF DeleteRow, OwnRows, NothingLeftBehind, WrittenBy
<1>5. QED
  BY <1>2, <1>3, <1>4

LEMMA OwnStep == TypeOK /\ OwnRows /\ [Next]_vars => OwnRows'
<1>1. SUFFICES ASSUME TypeOK, OwnRows, [Next]_vars PROVE OwnRows'
  OBVIOUS
<1>2. CASE UNCHANGED vars
  BY <1>1, <1>2 DEF OwnRows, NothingLeftBehind, WrittenBy, vars, request
<1>3. CASE \E r \in Requests : Step(r)
  BY <1>1, <1>3, OwnReceive, OwnRequest
<1>4. CASE OpenRow \/ SaveRow \/ DeleteRow
  BY <1>1, <1>4, OwnEditor
<1>5. QED
  BY <1>1, <1>2, <1>3, <1>4 DEF Next

\* Whatever else imports or edits, a request that was refused, failed or has
\* not come to its end has no row in the manuscript.
THEOREM FailureLeavesNothing == Spec => []NothingLeftBehind
<1>1. OwnRows => NothingLeftBehind
  BY DEF OwnRows
<1>2. QED
  BY <1>1, TypeInit, TypeStep, OwnInit, OwnStep, PTL DEF Spec

----------------------------------------------------------------------------
(* Replacing.                                                              *)

\* The rows that a request found and that are still there become fewer.
LEMMA BaseShrinks ==
    ASSUME TypeOK, OwnRows, [Next]_vars, NEW r \in Requests, ~Receive(r)
    PROVE  /\ base'[r] \subseteq base[r]
           /\ base'[r] \cap content' \subseteq base[r] \cap content
           /\ IdsOf(base'[r]) \cap IdsOf(content') \subseteq IdsOf(base[r]) \cap IdsOf(content)
<1>1. CASE UNCHANGED <<content, base>>
  BY <1>1
<1>2. ASSUME NEW q \in Requests, Receive(q)
      PROVE  base'[r] = base[r] /\ content' = content
  BY <1>2 DEF Receive, TypeOK
<1>3. ASSUME NEW q \in Requests, Commit(q)
      PROVE  /\ base' = base
             /\ base[r] \cap content' \subseteq content
             /\ IdsOf(base[r]) \cap IdsOf(content') \subseteq IdsOf(content)
  <2>1. base' = base /\ content' \subseteq content \cup written[q] /\ phase[q] # "stored"
    BY <1>3 DEF Commit, End, Without
  <2>2. \A row \in written[q], old \in base[r] : row.id # old.id
    BY <2>1 DEF OwnRows, WrittenBy
  <2>3. QED
    BY <2>1, <2>2 DEF IdsOf
<1>4. CASE SaveRow
  <2>1. PICK new \in Rows : /\ new.id = form.id
                            /\ content' = Without(content, {form.id}) \cup {new}
    BY <1>4, SavedRow
  <2>2. base'[r] = Without(base[r], {form.id})
    BY <1>4 DEF SaveRow
  <2>3. QED
    BY <2>1, <2>2 DEF IdsOf, Without
<1>5. CASE DeleteRow
  BY <1>5 DEF DeleteRow, IdsOf
<1>6. CASE UNCHANGED vars \/ OpenRow
  BY <1>1, <1>6 DEF vars, OpenRow
<1>7. ASSUME NEW q \in Requests, Step(q), ~Receive(q), ~Commit(q)
      PROVE  UNCHANGED <<content, base>>
  BY <1>7 DEF Step, Collect, DeleteRows, ReadHighest, WriteRow, Fail, End
<1>8. QED
  BY <1>1, <1>2, <1>3, <1>4, <1>5, <1>6, <1>7 DEF Next, Step

\* What each request has found, as far as it is still there, it has read to
\* delete, then deleted, if it replaces; and else it deletes nothing.
FoundAndDeleted(r) ==
    /\ phase[r] \in {"collect", "delete"} => replace[r]
    /\ phase[r] \in {"number", "write"} /\ ~replace[r] => deleted[r] = {}
    /\ phase[r] = "delete" => IdsOf(base[r]) \cap IdsOf(content) \subseteq victims[r]
    /\ phase[r] \in {"number", "write"} /\ replace[r] =>
          IdsOf(base[r]) \cap IdsOf(content) \subseteq deleted[r]

ReplaceInv == \A r \in Requests : FoundAndDeleted(r)

\* A step of another request, or of the editor, leaves the fields of r alone.
LEMMA OthersStep ==
    ASSUME TypeOK, [Next]_vars, NEW r \in Requests, ~Step(r)
    PROVE  /\ phase'[r] = phase[r] /\ items'[r] = items[r] /\ replace'[r] = replace[r]
           /\ victims'[r] = victims[r] /\ deleted'[r] = deleted[r]
           /\ next'[r] = next[r] /\ written'[r] = written[r]
<1>1. CASE UNCHANGED request
  BY <1>1 DEF request
<1>2. CASE UNCHANGED vars \/ OpenRow \/ SaveRow \/ DeleteRow
  BY <1>1, <1>2 DEF vars, OpenRow, SaveRow, DeleteRow
<1>3. ASSUME NEW q \in Requests, Step(q), q # r
      PROVE  /\ phase'[r] = phase[r] /\ items'[r] = items[r] /\ replace'[r] = replace[r]
             /\ victims'[r] = victims[r] /\ deleted'[r] = deleted[r]
             /\ next'[r] = next[r] /\ written'[r] = written[r]
  <2>1. CASE Receive(q)
    BY <1>3, <2>1 DEF Receive, TypeOK
  <2>2. CASE Collect(q) \/ DeleteRows(q) \/ ReadHighest(q)
    BY <1>3, <2>2 DEF Collect, DeleteRows, ReadHighest, TypeOK
  <2>3. CASE WriteRow(q)
    BY <1>3, <2>3 DEF WriteRow, TypeOK
  <2>4. CASE Commit(q) \/ Fail(q)
    BY <1>3, <2>4 DEF Commit, Fail, End, TypeOK
  <2>5. QED
    BY <1>3, <2>1, <2>2, <2>3, <2>4 DEF Step
<1>4. QED
  BY <1>2, <1>3 DEF Next

LEMMA ReplaceStep == TypeOK /\ OwnRows /\ ReplaceInv /\ [Next]_vars => ReplaceInv'
<1>1. SUFFICES ASSUME TypeOK, OwnRows, ReplaceInv, [Next]_vars, NEW r \in Requests
               PROVE  FoundAndDeleted(r)'
  BY DEF ReplaceInv
<1>2. FoundAndDeleted(r)
  BY <1>1 DEF ReplaceInv
<1>3. CASE ~Step(r)
  <2>1. ~Receive(r)
    BY <1>3 DEF Step
  <2>2. IdsOf(base'[r]) \cap IdsOf(content') \subseteq IdsOf(base[r]) \cap IdsOf(content)
    BY <1>1, <2>1, BaseShrinks
  <2>3. IdsOf(base[r])' = IdsOf(base'[r]) /\ IdsOf(content)' = IdsOf(content')
    BY DEF IdsOf
  <2>4. QED
    BY <1>1, <1>2, <1>3, <2>2, <2>3, OthersStep DEF FoundAndDeleted
<1>4. CASE Receive(r)
  BY <1>1, <1>4 DEF Receive, FoundAndDeleted, TypeOK, Open
<1>5. CASE Collect(r)
  BY <1>1, <1>2, <1>5 DEF Collect, FoundAndDeleted, TypeOK
<1>6. CASE DeleteRows(r)
  BY <1>1, <1>2, <1>6 DEF DeleteRows, FoundAndDeleted, TypeOK
<1>7. CASE ReadHighest(r) \/ WriteRow(r)
  BY <1>1, <1>2, <1>7 DEF ReadHighest, WriteRow, FoundAndDeleted, TypeOK
<1>8. CASE Commit(r) \/ Fail(r)
  BY <1>1, <1>8 DEF Commit, Fail, End, FoundAndDeleted, TypeOK
<1>9. QED
  BY <1>3, <1>4, <1>5, <1>6, <1>7, <1>8 DEF Step

LEMMA ReplaceInit == Init => ReplaceInv
  BY DEF Init, ReplaceInv, FoundAndDeleted

\* The formula of ReplacedTogether.
StoresTogether ==
    /\ \A r \in Requests : Stores(r) =>
         /\ \A i \in 1..Len(items[r]) : <<r, i>> \in IdsOf(content')
         /\ IF replace[r] THEN IdsOf(base[r]) \cap IdsOf(content') = {}
            ELSE content \subseteq content'
    /\ \/ IdsOf(content) \subseteq IdsOf(content')
       \/ \E r \in Requests : Stores(r) /\ replace[r]
       \/ \E row \in content : content' = content \ {row} /\ UNCHANGED request

LEMMA OnlyCommitStores ==
    ASSUME TypeOK, [Next]_vars, NEW r \in Requests, Stores(r)
    PROVE  Commit(r)
<1>1. Step(r)
  BY OthersStep DEF Stores
<1>2. QED
  BY <1>1 DEF Stores, Step, Receive, Collect, DeleteRows, ReadHighest, WriteRow, Fail, End, TypeOK

LEMMA TogetherStep ==
    TypeOK /\ OwnRows /\ ReplaceInv /\ [Next]_vars => [StoresTogether]_vars
<1>1. SUFFICES ASSUME TypeOK, OwnRows, ReplaceInv, Next
               PROVE  StoresTogether
  OBVIOUS
<1>2. ASSUME NEW r \in Requests, Commit(r)
      PROVE  /\ \A i \in 1..Len(items[r]) : <<r, i>> \in IdsOf(content')
             /\ IF replace[r] THEN IdsOf(base[r]) \cap IdsOf(content') = {}
                ELSE content \subseteq content'
             /\ Stores(r)
  <2>1. /\ phase[r] = "write" /\ phase'[r] = "stored" /\ Pending(r) = {}
        /\ content' = Without(content, deleted[r]) \cup written[r]
    BY <1>1, <1>2 DEF Commit, End, TypeOK
  <2>2. \A i \in 1..Len(items[r]) : <<r, i>> \in IdsOf(content')
    BY <2>1 DEF Pending, IdsOf
  <2>3. CASE replace[r]
    <3>1. \A row \in written[r], old \in base[r] : row.id # old.id
      BY <1>1, <2>1 DEF OwnRows, WrittenBy
    <3>2. IdsOf(base[r]) \cap IdsOf(content) \subseteq deleted[r]
      BY <1>1, <2>1, <2>3 DEF ReplaceInv, FoundAndDeleted
    <3>3. IdsOf(base[r]) \cap IdsOf(content') = {}
      BY <2>1, <3>1, <3>2 DEF IdsOf, Without
    <3>4. QED
      BY <2>1, <2>2, <2>3, <3>3 DEF Stores
  <2>4. CASE ~replace[r]
    <3>1. deleted[r] = {}
      BY <1>1, <2>1, <2>4 DEF ReplaceInv, FoundAndDeleted
    <3>2. QED
      BY <2>1, <2>2, <2>4, <3>1 DEF Without, Stores
  <2>5. QED
    BY <2>3, <2>4
<1>3. ASSUME NEW r \in Requests, Stores(r)
      PROVE  Commit(r)
  BY <1>1, <1>3, OnlyCommitStores
<1>4. \/ IdsOf(content) \subseteq IdsOf(content')
      \/ \E r \in Requests : Stores(r) /\ replace[r]
      \/ \E row \in content : content' = content \ {row} /\ UNCHANGED request
  <2>1. CASE DeleteRow
    BY <2>1 DEF DeleteRow
  <2>2. CASE OpenRow
    BY <2>2 DEF OpenRow
  <2>3. CASE SaveRow
    <3>1. PICK new \in Rows : /\ new.id = form.id
                              /\ content' = Without(content, {form.id}) \cup {new}
      BY <1>1, <2>3, SavedRow
    <3>2. QED
      BY <3>1 DEF IdsOf, Without
  <2>4. ASSUME NEW r \in Requests, Step(r), ~Commit(r)
        PROVE  UNCHANGED content
    BY <2>4 DEF Step, Receive, Collect, DeleteRows, ReadHighest, WriteRow, Fail
  <2>5. ASSUME NEW r \in Requests, Commit(r)
        PROVE  \/ IdsOf(content) \subseteq IdsOf(content')
               \/ Stores(r) /\ replace[r]
    BY <1>2, <2>5 DEF IdsOf
  <2>6. QED
    BY <1>1, <2>1, <2>2, <2>3, <2>4, <2>5 DEF Next
<1>5. QED
  BY <1>2, <1>3, <1>4 DEF StoresTogether

\* A request that is stored brings all its rows at once; one that replaces
\* leaves none that was there when it came; nothing goes at another moment.
THEOREM StoredTogether == Spec => ReplacedTogether
<1>1. TypeOK /\ OwnRows /\ ReplaceInv /\ [Next]_vars => [StoresTogether]_vars
  BY TogetherStep
<1>2. Spec => [][StoresTogether]_vars
  BY <1>1, TypeInit, TypeStep, OwnInit, OwnStep, ReplaceInit, ReplaceStep, PTL DEF Spec
<1>3. QED
  BY <1>2 DEF ReplacedTogether, StoresTogether

----------------------------------------------------------------------------
(* Numbers.                                                                *)

\* next_sequence is above what the request found and does not delete, and the
\* rows without a number get numbers from there on.
Numbered(r) ==
    /\ phase[r] # "write" => written[r] = {}
    /\ phase[r] = "write" => \A row \in base[r] \cap content :
          row.id \notin deleted[r] => row.seq < next[r]
    /\ \A row \in written[r] :
          items[r][row.id[2]] = Omitted => row.seq >= next[r]

NumberInv == \A r \in Requests : Numbered(r)

LEMMA NumberInit == Init => NumberInv
  BY DEF Init, NumberInv, Numbered

LEMMA NumberStep == TypeOK /\ OwnRows /\ NumberInv /\ [Next]_vars => NumberInv'
<1>1. SUFFICES ASSUME TypeOK, OwnRows, NumberInv, [Next]_vars, NEW r \in Requests
               PROVE  Numbered(r)'
  BY DEF NumberInv
<1>2. Numbered(r)
  BY <1>1 DEF NumberInv
<1>3. CASE ~Step(r)
  <2>1. ~Receive(r)
    BY <1>3 DEF Step
  <2>2. base'[r] \cap content' \subseteq base[r] \cap content
    BY <1>1, <2>1, BaseShrinks
  <2>3. QED
    BY <1>1, <1>2, <1>3, <2>2, OthersStep DEF Numbered
<1>4. CASE Receive(r)
  <2>1. written[r] = {}
    BY <1>1, <1>4 DEF Receive, TypeOK, Open
  <2>2. QED
    BY <1>1, <1>4, <2>1 DEF Receive, Numbered, TypeOK
<1>5. CASE Collect(r) \/ DeleteRows(r)
  BY <1>1, <1>2, <1>5 DEF Collect, DeleteRows, Numbered, TypeOK
<1>6. CASE ReadHighest(r)
  <2>1. PICK n \in {0, 1} \cup UNION {{row.seq, row.seq + 1} : row \in content} :
          /\ StartsAt(n, Without(content, deleted[r]))
          /\ next' = [next EXCEPT ![r] = n]
    BY <1>6 DEF ReadHighest
  <2>2. \A row \in content : row.id \notin deleted[r] => row.seq < n
    BY <2>1 DEF StartsAt, Without
  <2>3. next'[r] = n
    BY <1>1, <2>1 DEF TypeOK
  <2>4. QED
    BY <1>2, <1>6, <2>2, <2>3 DEF ReadHighest, Numbered
<1>7. CASE WriteRow(r)
  <2>1. PICK i \in Pending(r) : written' = [written EXCEPT ![r] = @ \cup {NewRow(r, i)}]
    BY <1>7 DEF WriteRow
  <2>2. items[r] \in Seq(Nat \cup {Omitted}) /\ next[r] \in Nat
    BY <1>1, FieldTypes
  <2>3. i \in Nat /\ i >= 1
    BY <2>1, <2>2 DEF Pending
  <2>4. NewRow(r, i).id[2] = i /\ NewRow(r, i).seq =
           IF items[r][i] = Omitted THEN next[r] + (i - 1) ELSE items[r][i]
    BY DEF NewRow
  <2>5. items[r][i] = Omitted => NewRow(r, i).seq >= next[r]
    BY <2>2, <2>3, <2>4
  <2>6. written'[r] = written[r] \cup {NewRow(r, i)}
    BY <1>1, <2>1 DEF TypeOK
  <2>7. QED
    BY <1>2, <1>7, <2>4, <2>5, <2>6 DEF WriteRow, Numbered
<1>8. CASE Commit(r) \/ Fail(r)
  BY <1>1, <1>8 DEF Commit, Fail, End, Numbered, TypeOK
<1>9. QED
  BY <1>3, <1>4, <1>5, <1>6, <1>7, <1>8 DEF Step

\* The formula of NumberedAfter.
NumbersAbove ==
    \A r \in Requests : Stores(r) =>
       \A new \in content', old \in base[r] \cap content' :
          new.id[1] = r /\ items[r][new.id[2]] = Omitted => new.seq > old.seq

LEMMA AboveStep ==
    TypeOK /\ OwnRows /\ NumberInv /\ [Next]_vars => [NumbersAbove]_vars
<1>1. SUFFICES ASSUME TypeOK, OwnRows, NumberInv, Next, NEW r \in Requests, Stores(r),
                      NEW new \in content', NEW old \in base[r] \cap content',
                      new.id[1] = r, items[r][new.id[2]] = Omitted
               PROVE  new.seq > old.seq
  BY DEF NumbersAbove
<1>2. Commit(r)
  BY <1>1, OnlyCommitStores
<1>3. /\ phase[r] = "write"
      /\ content' = Without(content, deleted[r]) \cup written[r]
  BY <1>2 DEF Commit
<1>4. new \in written[r]
  BY <1>1, <1>3 DEF OwnRows, NothingLeftBehind, Without
<1>5. old \in content /\ old.id \notin deleted[r]
  BY <1>1, <1>3 DEF OwnRows, WrittenBy, Without
<1>6. new.seq >= next[r] /\ old.seq < next[r]
  BY <1>1, <1>3, <1>4, <1>5 DEF NumberInv, Numbered
<1>7. new.seq \in Nat /\ old.seq \in Nat /\ next[r] \in Nat
  BY <1>1, <1>4, <1>5 DEF TypeOK, Rows
<1>8. QED
  BY <1>6, <1>7

\* However many imports run at once, the rows of one that came without a number
\* are numbered after every row that it found, unless an editor has renumbered
\* that row meanwhile.
THEOREM NumbersFollow == Spec => NumberedAfter
<1>1. TypeOK /\ OwnRows /\ NumberInv /\ [Next]_vars => [NumbersAbove]_vars
  BY AboveStep
<1>2. Spec => [][NumbersAbove]_vars
  BY <1>1, TypeInit, TypeStep, OwnInit, OwnStep, NumberInit, NumberStep, PTL DEF Spec
<1>3. QED
  BY <1>2 DEF NumberedAfter, NumbersAbove

-----------------------------------------------------------------------------
(* The safety half of RequestsEnd.                                         *)

\* Numbers have a least one, and so rows whose numbers are bounded have a number
\* that comes after the highest.
LEMMA LeastNumber ==
    ASSUME NEW S \in SUBSET Nat, S # {}
    PROVE  \E m \in S : \A k \in S : m <= k
<1> DEFINE R == OpToRel(<, Nat)
<1>1. IsWellFoundedOn(R, Nat)
  BY NatLessThanWellFounded
<1>2. \A k, m \in Nat : k < m => <<k, m>> \in R
  BY DEF OpToRel
<1> HIDE DEF R
<1>3. PICK m \in S : \A k \in S : ~(<<k, m>> \in R)
  BY <1>1, WFMin
<1>4. \A k \in S : ~(k < m)
  BY <1>2, <1>3, Zenon
<1>5. ASSUME NEW k \in S PROVE m <= k
  BY <1>4
<1>6. QED
  BY <1>5

Bounded(rows) == \E b \in Nat : \A row \in rows : row.seq < b

Starts == {0, 1} \cup UNION {{row.seq, row.seq + 1} : row \in content}

LEMMA StartExists ==
    ASSUME NEW rows \in SUBSET Rows, rows \subseteq content, Bounded(rows)
    PROVE  \E n \in Starts : StartsAt(n, rows)
<1> DEFINE S == {n \in Nat : n >= 1 /\ \A row \in rows : row.seq < n}
<1>0. \A row \in rows : row.seq \in Nat
  BY DEF Rows
<1>1. S # {}
  <2>1. PICK b \in Nat : \A row \in rows : row.seq < b
    BY DEF Bounded
  <2>2. b + 1 \in Nat /\ b + 1 >= 1 /\ \A row \in rows : row.seq < b + 1
    BY <1>0, <2>1
  <2>3. QED
    BY <2>2
<1>2. PICK n \in S : \A k \in S : n <= k
  BY <1>1, LeastNumber
<1>3. n \in Nat /\ n >= 1 /\ \A row \in rows : row.seq < n
  OBVIOUS
<1>4. CASE n = 1
  <2>1. n \in Starts
    BY <1>4 DEF Starts
  <2>2. QED
    BY <1>3, <1>4, <2>1 DEF StartsAt
<1>5. CASE n # 1
  <2>1. n - 1 \in Nat /\ n - 1 >= 1 /\ ~(n <= n - 1)
    BY <1>3, <1>5
  <2>2. n - 1 \notin S
    BY <1>2, <2>1
  <2>3. PICK row \in rows : ~(row.seq < n - 1)
    BY <2>1, <2>2
  <2>4. n = row.seq + 1
    BY <1>0, <1>3, <2>3
  <2>5. n \in Starts
    BY <2>3, <2>4 DEF Starts
  <2>6. QED
    BY <1>3, <2>3, <2>4, <2>5 DEF StartsAt
<1>6. QED
  BY <1>4, <1>5

\* What the next statement of r needs.
CanWork(r) ==
    \/ phase[r] = "collect"
    \/ phase[r] = "delete" /\ victims[r] \cap Locked = {}
    \/ phase[r] = "number" /\ \E n \in Starts : StartsAt(n, Without(content, deleted[r]))
    \/ /\ phase[r] = "write"
       /\ Pending(r) = {} \/ \E i \in Pending(r) : \A j \in Pending(r) : i <= j

WaitsFor(r, q) == victims[r] \cap deleted[q] # {}

\* A request that is worked on can go on, or waits for one that can: there is
\* no circle of requests that wait for each other's locks, and no manuscript
\* without a number to go on with.
NobodyStuck ==
    \A r \in Requests : phase[r] \in Open =>
        CanWork(r) \/ \E q \in Requests : WaitsFor(r, q) /\ CanWork(q)

\* Inductive: only requests that are past their deletion hold locks, and the
\* numbers in use are bounded.
StuckInv ==
    /\ \A r \in Requests : deleted[r] # {} => phase[r] \in {"number", "write"}
    /\ Bounded(content)
    /\ \A r \in Requests : Bounded(written[r])

LEMMA BoundedUnion ==
    ASSUME NEW A \in SUBSET Rows, NEW B \in SUBSET Rows, Bounded(A), Bounded(B)
    PROVE  Bounded(A \cup B)
<1>1. PICK a \in Nat : \A row \in A : row.seq < a
  BY DEF Bounded
<1>2. PICK b \in Nat : \A row \in B : row.seq < b
  BY DEF Bounded
<1>3. \A row \in A \cup B : row.seq \in Nat
  BY DEF Rows
<1>4. a + b \in Nat /\ \A row \in A \cup B : row.seq < a + b
  BY <1>1, <1>2, <1>3
<1>5. QED
  BY <1>4 DEF Bounded

LEMMA BoundedSubset ==
    ASSUME NEW A, NEW B, B \subseteq A, Bounded(A) PROVE Bounded(B)
BY DEF Bounded

LEMMA BoundedRow == ASSUME NEW row \in Rows PROVE Bounded({row}) /\ Bounded({})
<1>1. row.seq \in Nat /\ row.seq + 1 \in Nat /\ row.seq < row.seq + 1
  BY DEF Rows
<1>2. QED
  BY <1>1 DEF Bounded

LEMMA StuckInit == Init => StuckInv
<1> SUFFICES ASSUME Init PROVE StuckInv
  OBVIOUS
<1>1. \A row \in content : row.seq < OldRows + 1
  BY ContentAssumption DEF Init
<1>2. OldRows + 1 \in Nat
  BY ContentAssumption
<1>3. Bounded(content)
  BY <1>1, <1>2 DEF Bounded
<1>4. \A r \in Requests : Bounded(written[r]) /\ deleted[r] = {}
  BY DEF Init, Bounded
<1>5. QED
  BY <1>3, <1>4 DEF StuckInv

LEMMA StuckRequest ==
    ASSUME TypeOK, TypeOK', StuckInv, NEW r \in Requests, Step(r)
    PROVE  StuckInv'
<1>1. \A q \in Requests : q # r =>
         phase'[q] = phase[q] /\ deleted'[q] = deleted[q] /\ written'[q] = written[q]
  BY DEF Step, Receive, Collect, DeleteRows, ReadHighest, WriteRow, Commit, Fail, End, TypeOK
<1>2. deleted'[r] # {} => phase'[r] \in {"number", "write"}
  BY DEF Step, Receive, Collect, DeleteRows, ReadHighest, WriteRow, Commit, Fail, End, TypeOK,
         StuckInv, Open
<1>3. Bounded(content')
  <2>1. CASE Commit(r)
    <3>1. content' = Without(content, deleted[r]) \cup written[r]
      BY <2>1 DEF Commit
    <3>2. Without(content, deleted[r]) \in SUBSET Rows /\ written[r] \in SUBSET Rows
      BY DEF Without, TypeOK
    <3>3. Bounded(Without(content, deleted[r])) /\ Bounded(written[r])
      BY BoundedSubset DEF Without, StuckInv
    <3>4. QED
      BY <3>1, <3>2, <3>3, BoundedUnion
  <2>2. CASE ~Commit(r)
    <3>1. UNCHANGED content
      BY <2>2 DEF Step, Receive, Collect, DeleteRows, ReadHighest, WriteRow, Fail
    <3>2. QED
      BY <3>1 DEF StuckInv
  <2>3. QED
    BY <2>1, <2>2
<1>4. Bounded(written'[r])
  <2>1. CASE WriteRow(r)
    <3>1. PICK i \in Pending(r) : written' = [written EXCEPT ![r] = @ \cup {NewRow(r, i)}]
      BY <2>1 DEF WriteRow
    <3>2. NewRow(r, i) \in Rows
      BY <3>1, NewRowType DEF Pending
    <3>3. written'[r] = written[r] \cup {NewRow(r, i)} /\ written[r] \in SUBSET Rows
      BY <3>1 DEF TypeOK
    <3>4. Bounded(written[r]) /\ Bounded({NewRow(r, i)})
      BY <3>2, BoundedRow DEF StuckInv
    <3>5. QED
      BY <3>2, <3>3, <3>4, BoundedUnion
  <2>2. CASE Commit(r) \/ Fail(r)
    <3>1. written'[r] = {}
      BY <2>2 DEF Commit, Fail, End, TypeOK
    <3>2. QED
      BY <3>1 DEF Bounded
  <2>3. CASE ~WriteRow(r) /\ ~Commit(r) /\ ~Fail(r)
    <3>1. UNCHANGED written
      BY <2>3 DEF Step, Receive, Collect, DeleteRows, ReadHighest
    <3>2. QED
      BY <3>1 DEF StuckInv
  <2>4. QED
    BY <2>1, <2>2, <2>3
<1>5. QED
  BY <1>1, <1>2, <1>3, <1>4 DEF StuckInv

LEMMA StuckEditor ==
    ASSUME TypeOK, StuckInv, OpenRow \/ SaveRow \/ DeleteRow
    PROVE  StuckInv'
<1>1. UNCHANGED <<phase, deleted, written>>
  BY DEF OpenRow, SaveRow, DeleteRow, request
<1>2. Bounded(content')
  <2>1. CASE OpenRow \/ DeleteRow
    <3>1. content' \subseteq content
      BY <2>1 DEF OpenRow, DeleteRow
    <3>2. QED
      BY <3>1, BoundedSubset DEF StuckInv
  <2>2. CASE SaveRow
    <3>1. PICK n \in Numbers \cup {form.seq} :
             content' = Without(content, {form.id}) \cup {[form EXCEPT !.seq = n]}
      BY <2>2 DEF SaveRow
    <3>2. form \in Rows
      BY <2>2 DEF SaveRow, TypeOK
    <3>3. [form EXCEPT !.seq = n] \in Rows
      BY <3>1, <3>2, ContentAssumption DEF Rows
    <3>4. /\ Bounded({[form EXCEPT !.seq = n]}) /\ Bounded(Without(content, {form.id}))
          /\ Without(content, {form.id}) \in SUBSET Rows
      BY <3>3, BoundedRow, BoundedSubset DEF StuckInv, Without, TypeOK
    <3>5. QED
      BY <3>1, <3>3, <3>4, BoundedUnion
  <2>3. QED
    BY <2>1, <2>2
<1>3. QED
  BY <1>1, <1>2 DEF StuckInv

LEMMA StuckStep == TypeOK /\ StuckInv /\ [Next]_vars => StuckInv'
<1> SUFFICES ASSUME TypeOK, StuckInv, [Next]_vars PROVE StuckInv'
  OBVIOUS
<1>1. CASE UNCHANGED vars
  BY <1>1 DEF vars, request, StuckInv, Bounded
<1>2. CASE \E r \in Requests : Step(r)
  BY <1>2, TypeStep, StuckRequest
<1>3. CASE OpenRow \/ SaveRow \/ DeleteRow
  BY <1>3, StuckEditor
<1>4. QED
  BY <1>1, <1>2, <1>3 DEF Next

\* Past its deletion a request waits for nothing.
LEMMA PastDeletion ==
    ASSUME TypeOK, StuckInv, NEW r \in Requests, phase[r] \in {"number", "write"}
    PROVE  CanWork(r)
<1>1. CASE phase[r] = "number"
  <2>1. /\ Without(content, deleted[r]) \in SUBSET Rows
        /\ Without(content, deleted[r]) \subseteq content
    BY DEF Without, TypeOK
  <2>2. Bounded(Without(content, deleted[r]))
    BY <2>1, BoundedSubset DEF StuckInv
  <2>3. QED
    BY <1>1, <2>1, <2>2, StartExists DEF CanWork
<1>2. CASE phase[r] = "write"
  <2>1. Pending(r) \in SUBSET Nat
    BY DEF Pending
  <2>2. Pending(r) = {} \/ \E i \in Pending(r) : \A j \in Pending(r) : i <= j
    BY <2>1, LeastNumber
  <2>3. QED
    BY <1>2, <2>2 DEF CanWork
<1>3. QED
  BY <1>1, <1>2

LEMMA InvNobodyStuck == TypeOK /\ StuckInv => NobodyStuck
<1> SUFFICES ASSUME TypeOK, StuckInv, NEW r \in Requests, phase[r] \in Open
             PROVE  CanWork(r) \/ \E q \in Requests : WaitsFor(r, q) /\ CanWork(q)
  BY DEF NobodyStuck
<1>1. CASE phase[r] = "collect"
  BY <1>1 DEF CanWork
<1>2. CASE phase[r] = "delete"
  <2>1. CASE victims[r] \cap Locked = {}
    BY <1>2, <2>1 DEF CanWork
  <2>2. CASE victims[r] \cap Locked # {}
    <3>1. PICK q \in Requests : victims[r] \cap deleted[q] # {}
      BY <2>2 DEF Locked
    <3>2. phase[q] \in {"number", "write"}
      BY <3>1 DEF StuckInv
    <3>3. QED
      BY <3>1, <3>2, PastDeletion DEF WaitsFor
  <2>3. QED
    BY <2>1, <2>2
<1>3. CASE phase[r] \in {"number", "write"}
  BY <1>3, PastDeletion
<1>4. QED
  BY <1>1, <1>2, <1>3 DEF Open

\* How many statements r has left at most, its commit included.
Todo(r) ==
    IF phase[r] = "collect" THEN 4 + Len(items[r])
    ELSE IF phase[r] = "delete" THEN 3 + Len(items[r])
    ELSE IF phase[r] = "number" THEN 2 + Len(items[r])
    ELSE IF phase[r] = "write" THEN 1 + Cardinality(Pending(r))
    ELSE 0

LEMMA PartOfInterval ==
    ASSUME NEW n \in Nat, NEW S \in SUBSET (1..n)
    PROVE  IsFiniteSet(S) /\ Cardinality(S) \in Nat /\ Cardinality(S) <= n
<1>1. IsFiniteSet(1..n) /\ Cardinality(1..n) = n
  BY FS_Interval
<1>2. IsFiniteSet(S) /\ Cardinality(S) <= n
  BY <1>1, FS_Subset
<1>3. QED
  BY <1>2, FS_CardinalityType

PendingFits ==
    \A r \in Requests : /\ IsFiniteSet(Pending(r))
                        /\ Len(items[r]) \in Nat
                        /\ Cardinality(Pending(r)) \in Nat
                        /\ Cardinality(Pending(r)) <= Len(items[r])

LEMMA PendingSize == TypeOK => PendingFits
<1> SUFFICES ASSUME TypeOK, NEW r \in Requests
             PROVE  /\ IsFiniteSet(Pending(r))
                    /\ Len(items[r]) \in Nat
                    /\ Cardinality(Pending(r)) \in Nat
                    /\ Cardinality(Pending(r)) <= Len(items[r])
  BY DEF PendingFits
<1>1. Len(items[r]) \in Nat
  BY FieldTypes
<1>2. Pending(r) \in SUBSET (1..Len(items[r]))
  BY DEF Pending
<1>3. QED
  BY <1>1, <1>2, PartOfInterval

LEMMA TodoType ==
    ASSUME TypeOK, NEW r \in Requests
    PROVE  Todo(r) \in Nat /\ (phase[r] \in Open => Todo(r) > 0)
<1>1. Cardinality(Pending(r)) \in Nat /\ Len(items[r]) \in Nat
  BY PendingSize DEF PendingFits
<1>2. QED
  BY <1>1 DEF Todo, Open

\* The row that is written leaves the rows to be written.
LEMMA WriteRowLeavesFewer ==
    ASSUME TypeOK, NEW r \in Requests, WriteRow(r)
    PROVE  Cardinality(Pending(r)') = Cardinality(Pending(r)) - 1
<1>1. PICK i \in Pending(r) : written' = [written EXCEPT ![r] = @ \cup {NewRow(r, i)}]
  BY DEF WriteRow
<1>2. written'[r] = written[r] \cup {NewRow(r, i)} /\ UNCHANGED items
  BY <1>1 DEF WriteRow, TypeOK
<1>3. NewRow(r, i).id = <<r, i>>
  BY DEF NewRow
<1>4. IdsOf(written[r])' = IdsOf(written[r]) \cup {<<r, i>>}
  BY <1>2, <1>3 DEF IdsOf
<1>5. Pending(r)' = Pending(r) \ {i}
  BY <1>2, <1>4 DEF Pending
<1>6. IsFiniteSet(Pending(r))
  BY PendingSize DEF PendingFits
<1>7. QED
  BY <1>1, <1>5, <1>6, FS_RemoveElement

LEMMA WorkLowersTodo ==
    ASSUME TypeOK, PendingFits, PendingFits', NEW r \in Requests, Work(r) \/ Fail(r)
    PROVE  Todo(r)' < Todo(r)
<1>1. /\ Len(items[r]) \in Nat /\ Len(items'[r]) \in Nat
      /\ Cardinality(Pending(r)) \in Nat /\ Cardinality(Pending(r)') \in Nat
      /\ Cardinality(Pending(r)') <= Len(items'[r])
  BY DEF PendingFits
<1>2. CASE Collect(r)
  <2>1. phase[r] = "collect" /\ phase'[r] = "delete" /\ UNCHANGED items
    BY <1>2 DEF Collect, TypeOK
  <2>2. QED
    BY <1>1, <2>1 DEF Todo
<1>3. CASE DeleteRows(r)
  <2>1. phase[r] = "delete" /\ phase'[r] = "number" /\ UNCHANGED items
    BY <1>3 DEF DeleteRows, TypeOK
  <2>2. QED
    BY <1>1, <2>1 DEF Todo
<1>4. CASE ReadHighest(r)
  <2>1. phase[r] = "number" /\ phase'[r] = "write" /\ UNCHANGED items
    BY <1>4 DEF ReadHighest, TypeOK
  <2>2. Todo(r) = 2 + Len(items[r]) /\ Todo(r)' = 1 + Cardinality(Pending(r)')
    BY <2>1 DEF Todo
  <2>3. QED
    BY <1>1, <2>1, <2>2
<1>5. CASE WriteRow(r)
  <2>1. phase[r] = "write" /\ phase'[r] = "write"
    BY <1>5 DEF WriteRow
  <2>2. Todo(r) = 1 + Cardinality(Pending(r)) /\ Todo(r)' = 1 + Cardinality(Pending(r)')
    BY <2>1 DEF Todo
  <2>3. QED
    BY <1>1, <1>5, <2>2, WriteRowLeavesFewer
<1>6. CASE Commit(r) \/ Fail(r)
  <2>1. phase[r] \in Open /\ phase'[r] \in {"stored", "failed"}
    BY <1>6 DEF Commit, Fail, End, TypeOK, Open
  <2>2. Todo(r)' = 0
    BY <2>1 DEF Todo
  <2>3. QED
    BY <2>1, <2>2, TodoType
<1>7. QED
  BY <1>2, <1>3, <1>4, <1>5, <1>6 DEF Work

\* What others do leaves a request where it is.
LEMMA OthersKeepTodo ==
    ASSUME TypeOK, NEW r \in Requests, [Next]_vars, ~(Work(r) \/ Fail(r)), phase[r] \in Open
    PROVE  Todo(r)' = Todo(r)
<1>1. phase'[r] = phase[r] /\ items'[r] = items[r] /\ written'[r] = written[r]
  <2>1. CASE UNCHANGED vars \/ OpenRow \/ SaveRow \/ DeleteRow
    BY <2>1 DEF vars, request, OpenRow, SaveRow, DeleteRow
  <2>2. ASSUME NEW q \in Requests, Step(q)
        PROVE  phase'[r] = phase[r] /\ items'[r] = items[r] /\ written'[r] = written[r]
    <3>1. CASE q = r
      <4>1. Receive(r)
        BY <2>2, <3>1 DEF Step, Work
      <4>2. QED
        BY <4>1 DEF Receive, Open
    <3>2. CASE q # r
      BY <2>2, <3>2 DEF Step, Receive, Collect, DeleteRows, ReadHighest, WriteRow, Commit,
                        Fail, End, TypeOK
    <3>3. QED
      BY <3>1, <3>2
  <2>3. QED
    BY <2>1, <2>2 DEF Next
<1>2. Pending(r)' = Pending(r)
  BY <1>1 DEF Pending, IdsOf
<1>3. QED
  BY <1>1, <1>2 DEF Todo

\* Every step of a request brings it nearer to its answer, and none of another
\* request or of an editor takes it further away.
Nearer ==
    \A r \in Requests : phase[r] \in Open =>
        /\ Todo(r)' \in Nat /\ Todo(r)' <= Todo(r)
        /\ (Work(r) \/ Fail(r)) => Todo(r)' < Todo(r)

LEMMA NearerStep == TypeOK /\ [Next]_vars => Nearer
<1> SUFFICES ASSUME TypeOK, [Next]_vars, NEW r \in Requests, phase[r] \in Open
             PROVE  /\ Todo(r)' \in Nat /\ Todo(r)' <= Todo(r)
                    /\ (Work(r) \/ Fail(r)) => Todo(r)' < Todo(r)
  BY DEF Nearer
<1>1. PendingFits /\ PendingFits'
  BY TypeStep, PendingSize, PTL
<1>2. Todo(r) \in Nat /\ Todo(r)' \in Nat
  BY <1>1 DEF PendingFits, Todo
<1>3. CASE Work(r) \/ Fail(r)
  BY <1>1, <1>2, <1>3, WorkLowersTodo
<1>4. CASE ~(Work(r) \/ Fail(r))
  BY <1>2, <1>4, OthersKeepTodo
<1>5. QED
  BY <1>3, <1>4

\* However many imports and editors meet at the same rows: each import can go on
\* or waits for one that can, and with each of its statements it has fewer left,
\* whatever the others do.  For finitely many requests that are worked on, this
\* is RequestsEnd.
THEOREM WorkGoesOn == Spec => []NobodyStuck /\ [][Nearer]_vars
  BY TypeInit, TypeStep, StuckInit, StuckStep, InvNobodyStuck, NearerStep, PTL DEF Spec
=============================================================================
