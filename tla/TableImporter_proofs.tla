------------------------ MODULE TableImporter_proofs ------------------------
(***************************************************************************)
(* Theorems about TableImporter, for every value of its constants: any      *)
(* files and existing rows, any number of requests, also in flight at once. *)
(***************************************************************************)
EXTENDS TableImporter, TLAPS

----------------------------------------------------------------------------
(* Type correctness.                                                       *)

\* Inductive with TypeOK: the button is there only after a file was shown, and
\* handlers work on what was posted.
Supplied ==
    /\ shown # None => data # None /\ tableName # None
    /\ \A s \in Sends : /\ phase[s] # None => request[s] # None
                        /\ request[s] = None => next[s] = 0

LEMMA InitTypes == Init => TypeOK /\ Supplied
<1> SUFFICES ASSUME Init PROVE TypeOK /\ Supplied
  OBVIOUS
<1>1. Existing \in SUBSET Stored /\ None \notin {"checking", "saving"}
  BY DatabaseAssumption, NoneAssumption DEF Phases
<1>2. TypeOK
  BY <1>1 DEF Init, TypeOK
<1>3. Supplied
  BY DEF Init, Supplied
<1>4. QED
  BY <1>2, <1>3

\* Rows of files are rows.
LEMMA RowTypes ==
    ASSUME TypeOK, Supplied, NEW s \in Sends, phase[s] \in {"checking", "saving"}
    PROVE  /\ request[s] \in Requests /\ Row(s) \in FileRow
           /\ next[s] + 1 \in DOMAIN request[s].rows /\ next[s] + 1 \in Nat
           /\ NewRow(s) \in Stored
<1>1. request[s] \in Requests /\ next[s] \in Nat /\ next[s] < Len(request[s].rows)
  BY NoneAssumption DEF TypeOK, Supplied, Phases
<1>2. request[s].rows \in Seq(FileRow)
  BY <1>1 DEF Requests
<1>3. next[s] + 1 \in DOMAIN request[s].rows
  BY <1>1, <1>2
<1>4. Row(s) \in FileRow
  BY <1>2, <1>3 DEF Row
<1>5. NewRow(s) \in Stored
  BY <1>1, <1>4 DEF NewRow, Stored, FileRow, Requests
<1>6. QED
  BY <1>1, <1>3, <1>4, <1>5

\* Going to the next row, or leaving, keeps a handler inside its rows.
LEMMA LoopTypes ==
    ASSUME TypeOK, Supplied, NEW s \in Sends, phase[s] \in {"checking", "saving"},
           NEW ending \in Phases,
           \/ Leave(s, ending) /\ ending \notin {"checking", "saving"}
           \/ Loop(s, ending)
    PROVE  /\ phase' \in [Sends -> Phases \cup {None}] /\ next' \in [Sends -> Nat]
           /\ \A q \in Sends : phase'[q] \in {"checking", "saving"}
                                 => next'[q] < Len(request[q].rows)
           /\ \A q \in Sends : /\ phase'[q] # None => request[q] # None
                               /\ request[q] = None => next'[q] = 0
<1>1. /\ request[s] \in Requests /\ request[s] # None
      /\ Len(request[s].rows) \in Nat /\ next[s] \in Nat
      /\ next[s] < Len(request[s].rows)
  BY RowTypes, NoneAssumption DEF TypeOK, Supplied, Requests
<1>2. CASE Leave(s, ending) /\ ending \notin {"checking", "saving"}
  BY <1>1, <1>2 DEF TypeOK, Supplied, Leave
<1>3. CASE Loop(s, ending)
  BY <1>1, <1>3 DEF TypeOK, Supplied, Loop
<1>4. QED
  BY <1>2, <1>3

LEMMA ReadFileTypes ==
    ASSUME TypeOK, Supplied, NEW f \in Files, ReadFile(f)
    PROVE  TypeOK' /\ Supplied'
<1>1. f \in File /\ (f.check = "valid" => f.rows # <<>>)
  BY FileAssumption
<1>2. UNCHANGED <<loading, waiting, request, phase, next, stored, notations, removed>>
  BY DEF ReadFile, serverVars, dbVars
<1>3. TypeOK'
  BY <1>1, <1>2 DEF ReadFile, TypeOK, File
<1>4. Supplied'
  <2>1. data' \in [file : Files, bare : BOOLEAN]
    BY DEF ReadFile
  <2>2. shown' # None => tableName' # None
    BY <1>1, NoneAssumption DEF ReadFile, Supplied, File
  <2>3. QED
    BY <1>2, <2>1, <2>2, NoneAssumption DEF Supplied
<1>5. QED
  BY <1>3, <1>4

LEMMA SendTypes ==
    ASSUME TypeOK, Supplied, NEW s \in Sends, NEW checked \in BOOLEAN,
           NEW m \in Selectable, Send(s, m, checked)
    PROVE  /\ TypeOK' /\ Supplied'
           /\ Posted(m, checked) \in Requests
<1>1. data \in [file : Files, bare : BOOLEAN] /\ tableName \in Tables
  BY DEF Send, TypeOK, Supplied
<1>2. data.file \in File /\ data.file.rows \in Seq(FileRow)
  BY <1>1, FileAssumption DEF File
<1>3. Sanitized(data, checked) \in [file : Files, bare : BOOLEAN]
  <2>1. (data.bare \/ ~checked) \in BOOLEAN
    OBVIOUS
  <2> DEFINE b == data.bare \/ ~checked
  <2>2. [data EXCEPT !.bare = b] \in [file : Files, bare : BOOLEAN]
    <3> HIDE DEF b
    <3>1. b \in BOOLEAN
      BY <2>1 DEF b
    <3>2. QED
      BY <1>1, <3>1
  <2>3. QED
    BY <2>2 DEF Sanitized
<1>4. (~Sanitized(data, checked).bare) \in BOOLEAN
  OBVIOUS
<1>5. Posted(m, checked) \in Requests
  <2> DEFINE i == ~Sanitized(data, checked).bare
  <2>1. i \in BOOLEAN
    BY <1>4
  <2> HIDE DEF i
  <2>2. m \in Manuscripts \cup {None}
    BY DEF Selectable
  <2>3. [table |-> tableName, rows |-> data.file.rows, ms |-> m,
         ids |-> i, checked |-> checked] \in Requests
    BY <1>1, <1>2, <2>1, <2>2 DEF Requests
  <2>4. QED
    BY <2>3 DEF Posted, i
<1>6. next[s] = 0 /\ Posted(m, checked).rows = data.file.rows
  BY DEF Send, Supplied, Posted
<1> DEFINE r == Posted(m, checked)
           d == Sanitized(data, checked)
<1>7. /\ data' = d /\ request' = [request EXCEPT ![s] = r]
      /\ phase' = [phase EXCEPT ![s] = IF r.rows = <<>> THEN "done" ELSE "checking"]
      /\ waiting' = waiting \cup {s} /\ loading' = TRUE
      /\ UNCHANGED <<tableName, shown, errorInfo, next, stored, notations, removed>>
  BY <1>6 DEF Send, dbVars
<1>8. r \in Requests /\ r.rows \in Seq(FileRow) /\ r # None
      /\ d \in [file : Files, bare : BOOLEAN] /\ d # None
  BY <1>2, <1>3, <1>5, <1>6, NoneAssumption
<1> HIDE DEF r, d
<1>9. r.rows # <<>> => 0 < Len(r.rows)
  BY <1>8
<1>10. TypeOK'
  BY <1>6, <1>7, <1>8, <1>9 DEF TypeOK, Phases
<1>11. Supplied'
  BY <1>7, <1>8 DEF Supplied, TypeOK
<1>12. QED
  BY <1>5, <1>10, <1>11

LEMMA HandlerTypes ==
    ASSUME TypeOK, Supplied, NEW s \in Sends, CheckRow(s) \/ SaveRow(s) \/ Abort(s)
    PROVE  TypeOK' /\ Supplied'
<1>1. phase[s] \in {"checking", "saving"}
  BY DEF CheckRow, SaveRow, Abort
<1>2. /\ request[s] \in Requests /\ NewRow(s) \in Stored /\ next[s] + 1 \in Nat
      /\ UNCHANGED <<data, tableName, shown, errorInfo, loading, waiting, request>>
  BY <1>1, RowTypes DEF CheckRow, SaveRow, Abort, pageVars
<1>3. \E ending \in Phases :
         \/ Leave(s, ending) /\ ending \notin {"checking", "saving"}
         \/ Loop(s, ending)
  BY DEF CheckRow, SaveRow, Abort, Phases
<1>4. /\ stored' \in SUBSET Stored /\ removed' \in SUBSET Stored
      /\ notations' \in SUBSET (Sends \X Nat)
  BY <1>2 DEF CheckRow, SaveRow, Abort, dbVars, Store, Replaced, TypeOK
<1>5. QED
  BY <1>1, <1>2, <1>3, <1>4, LoopTypes DEF TypeOK, Supplied

LEMMA NextTypes == TypeOK /\ Supplied /\ [Next]_vars => TypeOK' /\ Supplied'
<1> SUFFICES ASSUME TypeOK, Supplied, [Next]_vars PROVE TypeOK' /\ Supplied'
  OBVIOUS
<1>1. CASE UNCHANGED vars
  BY <1>1 DEF vars, pageVars, serverVars, dbVars, TypeOK, Supplied
<1>2. ASSUME NEW checked \in BOOLEAN, SendNowhere(checked) PROVE TypeOK' /\ Supplied'
  <2>1. data \in [file : Files, bare : BOOLEAN]
    BY <1>2 DEF SendNowhere, TypeOK, Supplied
  <2> DEFINE b == data.bare \/ ~checked
  <2>2. b \in BOOLEAN
    OBVIOUS
  <2>3. data' = [data EXCEPT !.bare = b]
    BY <1>2 DEF SendNowhere, Sanitized
  <2> HIDE DEF b
  <2>4. data' \in [file : Files, bare : BOOLEAN] /\ data' # None
    BY <2>1, <2>2, <2>3, NoneAssumption
  <2>5. QED
    BY <1>2, <2>4 DEF SendNowhere, serverVars, dbVars, TypeOK, Supplied
<1>3. ASSUME NEW s \in Sends, Succeeded(s) \/ Refused(s) PROVE TypeOK' /\ Supplied'
  BY <1>3 DEF Succeeded, Refused, FreshPage, serverVars, dbVars, TypeOK, Supplied
<1>4. ASSUME NEW m \in Manuscripts, DeleteContent(m) PROVE TypeOK' /\ Supplied'
  BY <1>4 DEF DeleteContent, pageVars, serverVars, TypeOK, Supplied
<1>5. QED
  BY <1>1, <1>2, <1>3, <1>4, ReadFileTypes, SendTypes, HandlerTypes DEF Next

\* Every reachable state has its types.
THEOREM TypeCorrect == Spec => []TypeOK
BY InitTypes, NextTypes, PTL DEF Spec

----------------------------------------------------------------------------
(* What handlers store.                                                    *)

\* The rows a request has stored, whatever has become of them.
Rows(s) == {r \in stored \cup removed : r.by = s}

\* Inductive with the types: nothing before all rows are checked, then one row
\* for each that was passed, and what was posted with ids was posted with the
\* box checked.
Stepwise ==
    /\ \A s \in Sends : phase[s] \in {None, "checking", "refused"} => Rows(s) = {}
    /\ \A s \in Sends : \A i \in Nat :
          /\ phase[s] = "saving" /\ i \in 1..next[s]
          => \E r \in Rows(s) : r.at = i
    /\ \A s \in Sends : \A i \in Nat :
          /\ phase[s] = "done" /\ i \in DOMAIN request[s].rows
          => \E r \in Rows(s) : r.at = i
    /\ \A s \in Sends : request[s] # None /\ request[s].ids => request[s].checked

ImporterInv == TypeOK /\ Supplied /\ Stepwise

LEMMA InitStepwise == Init => Stepwise
<1> SUFFICES ASSUME Init PROVE Stepwise
  OBVIOUS
<1>1. \A s \in Sends : Rows(s) = {} /\ phase[s] = None /\ request[s] = None
  BY DatabaseAssumption, NoneAssumption DEF Init, Rows
<1>2. None \notin {"saving", "done"}
  BY NoneAssumption DEF Phases
<1>3. QED
  BY <1>1, <1>2 DEF Stepwise

\* Steps that store nothing and leave the handlers as they are.
LEMMA ElsewhereStepwise ==
    ASSUME Stepwise, UNCHANGED serverVars, stored' \cup removed' = stored \cup removed
    PROVE  Stepwise'
<1>1. \A s \in Sends : Rows(s)' = Rows(s)
  BY DEF Rows
<1>2. QED
  BY <1>1 DEF Stepwise, serverVars

LEMMA SendStepwise ==
    ASSUME ImporterInv, NEW s \in Sends, NEW checked \in BOOLEAN,
           NEW m \in Selectable, Send(s, m, checked)
    PROVE  Stepwise'
<1>1. /\ TypeOK /\ Supplied /\ Stepwise
      /\ request[s] = None /\ phase[s] = None
      /\ data \in [file : Files, bare : BOOLEAN]
  BY DEF ImporterInv, Send, Supplied, TypeOK
<1> DEFINE r == Posted(m, checked)
<1>2. r.rows = data.file.rows /\ (r.ids => r.checked)
  <2>1. Sanitized(data, checked).bare = (data.bare \/ ~checked)
    BY <1>1 DEF Sanitized
  <2>2. QED
    BY <2>1 DEF Posted
<1>3. r.rows \in Seq(FileRow)
  BY <1>1, <1>2, FileAssumption DEF File
<1>4. /\ request' = [request EXCEPT ![s] = r]
      /\ phase' = [phase EXCEPT ![s] = IF r.rows = <<>> THEN "done" ELSE "checking"]
      /\ next' = next /\ \A q \in Sends : Rows(q)' = Rows(q)
  BY <1>2 DEF Send, dbVars, Rows
<1> HIDE DEF r
<1>5. Rows(s) = {} /\ (r.rows = <<>> => DOMAIN r.rows = {})
  BY <1>1, <1>3 DEF Stepwise
<1>6. QED
  BY <1>1, <1>2, <1>4, <1>5 DEF Stepwise, TypeOK

\* Checking stores nothing.
LEMMA CheckStepwise ==
    ASSUME ImporterInv, NEW s \in Sends, CheckRow(s) \/ Abort(s)
    PROVE  Stepwise'
<1>1. /\ TypeOK /\ Stepwise /\ request' = request
      /\ \A q \in Sends : Rows(q)' = Rows(q)
      /\ phase[s] \in {"checking", "saving"}
  BY DEF ImporterInv, CheckRow, Abort, dbVars, Rows
<1>2. \/ /\ phase[s] = "checking" /\ phase' = [phase EXCEPT ![s] = "refused"]
         /\ next' = [next EXCEPT ![s] = 0]
      \/ /\ phase[s] = "checking" /\ phase' = phase
         /\ next' = [next EXCEPT ![s] = @ + 1]
      \/ /\ phase[s] = "checking" /\ phase' = [phase EXCEPT ![s] = "saving"]
         /\ next' = [next EXCEPT ![s] = 0]
      \/ /\ phase' = [phase EXCEPT ![s] = "failed"]
         /\ next' = [next EXCEPT ![s] = 0]
  BY DEF CheckRow, Abort, Leave, Loop
<1>3. None # "saving" /\ None # "checking" /\ None # "failed"
  BY NoneAssumption DEF Phases
<1>4. \A q \in Sends : q # s => phase'[q] = phase[q] /\ next'[q] = next[q]
  BY <1>1, <1>2 DEF TypeOK
<1>5. /\ phase'[s] \in {None, "checking", "refused"} => Rows(s) = {}
      /\ phase'[s] = "saving" => 1..next'[s] = {}
      /\ phase'[s] # "done"
  BY <1>1, <1>2, <1>3 DEF TypeOK, Stepwise
<1>6. QED
  BY <1>1, <1>4, <1>5 DEF Stepwise

LEMMA SaveStepwise ==
    ASSUME ImporterInv, NEW s \in Sends, SaveRow(s)
    PROVE  Stepwise'
<1>1. /\ TypeOK /\ Supplied /\ Stepwise /\ request' = request /\ phase[s] = "saving"
      /\ request[s] \in Requests /\ next[s] \in Nat
  BY RowTypes DEF ImporterInv, SaveRow, TypeOK
<1>2. CASE Row(s).fate = "unsavable"
  <2>1. /\ phase' = [phase EXCEPT ![s] = "failed"] /\ next' = [next EXCEPT ![s] = 0]
        /\ \A q \in Sends : Rows(q)' = Rows(q)
    BY <1>2 DEF SaveRow, Leave, Rows
  <2>2. None # "failed"
    BY NoneAssumption DEF Phases
  <2>3. QED
    BY <1>1, <2>1, <2>2 DEF Stepwise, TypeOK
<1>3. CASE Row(s).fate # "unsavable"
  <2> DEFINE new == NewRow(s)
  <2>1. Loop(s, "done") /\ Store(new)
    BY <1>3 DEF SaveRow
  <2>2. new.by = s /\ new.at = next[s] + 1
    BY DEF NewRow
  <2>3. stored' \cup removed' = (stored \cup removed) \cup {new}
    BY <2>1 DEF Store, Replaced
  <2> HIDE DEF new
  <2>4. /\ Rows(s)' = Rows(s) \cup {new}
        /\ \A q \in Sends : q # s => Rows(q)' = Rows(q)
    BY <2>2, <2>3 DEF Rows
  <2>5. \A q \in Sends : q # s => phase'[q] = phase[q] /\ next'[q] = next[q]
    BY <1>1, <2>1 DEF TypeOK, Loop
  <2>6. \A i \in 1..(next[s] + 1) : \E r \in Rows(s)' : r.at = i
    BY <1>1, <2>2, <2>4 DEF Stepwise
  <2>7. CASE next[s] + 1 < Len(request[s].rows)
    <3>1. phase'[s] = "saving" /\ next'[s] = next[s] + 1
      BY <1>1, <2>1, <2>7 DEF Loop, TypeOK
    <3>2. QED
      BY <1>1, <2>4, <2>5, <2>6, <3>1, NoneAssumption DEF Stepwise, Phases
  <2>8. CASE ~(next[s] + 1 < Len(request[s].rows))
    <3>1. phase'[s] = "done"
      BY <1>1, <2>1, <2>8 DEF Loop, TypeOK
    <3>2. DOMAIN request[s].rows \subseteq 1..(next[s] + 1)
      BY <1>1, <2>8 DEF TypeOK, Requests
    <3>3. QED
      BY <1>1, <2>4, <2>5, <2>6, <3>1, <3>2, NoneAssumption DEF Stepwise, Phases
  <2>9. QED
    BY <2>7, <2>8
<1>4. QED
  BY <1>2, <1>3

LEMMA NextStepwise == ImporterInv /\ [Next]_vars => Stepwise'
<1> SUFFICES ASSUME ImporterInv, [Next]_vars PROVE Stepwise'
  OBVIOUS
<1>1. CASE \/ UNCHANGED vars
           \/ \E f \in Files : ReadFile(f)
           \/ \E checked \in BOOLEAN : SendNowhere(checked)
           \/ \E s \in Sends : Succeeded(s) \/ Refused(s)
  <2>1. UNCHANGED <<serverVars, dbVars>>
    BY <1>1 DEF vars, ReadFile, SendNowhere, Succeeded, Refused
  <2>2. QED
    BY <2>1, ElsewhereStepwise DEF ImporterInv, dbVars
<1>2. ASSUME NEW m \in Manuscripts, DeleteContent(m) PROVE Stepwise'
  <2>1. UNCHANGED serverVars /\ stored' \cup removed' = stored \cup removed
    BY <1>2 DEF DeleteContent
  <2>2. QED
    BY <2>1, ElsewhereStepwise DEF ImporterInv
<1>3. QED
  BY <1>1, <1>2, SendStepwise, CheckStepwise, SaveStepwise DEF Next

LEMMA ImporterAlways == Spec => []ImporterInv
<1>1. Init => ImporterInv
  BY InitTypes, InitStepwise DEF ImporterInv
<1>2. ImporterInv /\ [Next]_vars => ImporterInv'
  BY NextTypes, NextStepwise DEF ImporterInv
<1>3. QED
  BY <1>1, <1>2, PTL DEF Spec

\* A request that is refused has stored no row, with any number of requests at
\* work at once.
THEOREM NothingOfRefused == Spec => []CheckedBeforeStored
<1>1. ImporterInv => CheckedBeforeStored
  BY DEF ImporterInv, Stepwise, CheckedBeforeStored, Rows
<1>2. QED
  BY <1>1, ImporterAlways, PTL

\* An import that ends well has stored each of its rows.
THEOREM SuccessIsComplete == Spec => []SuccessMeansStored
<1>1. ImporterInv => SuccessMeansStored
  <2> SUFFICES ASSUME ImporterInv, NEW s \in Sends, phase[s] = "done",
                      NEW i \in DOMAIN request[s].rows
               PROVE  \E r \in stored \cup removed : r.by = s /\ r.at = i
    BY DEF SuccessMeansStored
  <2>1. request[s] \in Requests
    BY NoneAssumption DEF ImporterInv, TypeOK, Supplied, Phases
  <2>2. i \in Nat
    BY <2>1 DEF Requests
  <2>3. QED
    BY <2>2 DEF ImporterInv, Stepwise, Rows
<1>2. QED
  BY <1>1, ImporterAlways, PTL

LEMMA ReplacedStep ==
    ASSUME ImporterInv, [Next]_vars, NEW r \in removed' \ removed
    PROVE  \/ r.table = "Content"
           \/ \E s \in Sends, new \in stored' :
                 new.by = s /\ new.id = r.id /\ request[s].checked
<1>1. CASE \E m \in Manuscripts : DeleteContent(m)
  BY <1>1 DEF DeleteContent
<1>2. ASSUME NEW s \in Sends, SaveRow(s), removed' # removed
      PROVE  \E new \in stored' : new.by = s /\ new.id = r.id /\ request[s].checked
  <2> DEFINE new == NewRow(s)
  <2>1. Store(new)
    BY <1>2 DEF SaveRow
  <2>2. new \in stored' /\ new.id # None /\ r.id = new.id
    BY <2>1 DEF Store, Replaced
  <2>3. new.by = s /\ request[s].ids
    BY <2>2 DEF NewRow
  <2>4. request[s] # None
    BY <1>2, NoneAssumption DEF SaveRow, ImporterInv, Supplied, Phases
  <2>5. request[s].checked
    BY <2>3, <2>4 DEF ImporterInv, Stepwise
  <2>6. QED
    BY <2>2, <2>3, <2>5
<1>3. CASE removed' # removed
  BY <1>1, <1>2, <1>3 DEF vars, Next, ReadFile, SendNowhere, Send, Succeeded, Refused,
                          CheckRow, Abort, dbVars
<1>4. QED
  BY <1>3

\* No import replaces a row unless it was sent with the box checked.
THEOREM ReplacesOnDemand == Spec => ReplacedOnDemand
<1>1. ImporterInv /\ [Next]_vars =>
        [\A r \in removed' \ removed :
            \/ r.table = "Content"
            \/ \E s \in Sends, new \in stored' :
                  new.by = s /\ new.id = r.id /\ request[s].checked]_vars
  BY ReplacedStep
<1>2. QED
  BY <1>1, ImporterAlways, PTL DEF Spec, ReplacedOnDemand

----------------------------------------------------------------------------
(* What is sent.                                                           *)

\* Inductive with the types: without an error text the table shows `data`,
\* unless its validation threw.
InStep ==
    data # None /\ shown # None /\ ~errorInfo /\ data.file.check # "throws"
        => shown = data.file

LEMMA NextInStep == TypeOK /\ Supplied /\ InStep /\ [Next]_vars => InStep'
<1> SUFFICES ASSUME TypeOK, Supplied, InStep, [Next]_vars PROVE InStep'
  OBVIOUS
<1>1. ASSUME NEW f \in Files, ReadFile(f) PROVE InStep'
  BY <1>1, FileAssumption DEF ReadFile, InStep, File
<1>2. ASSUME NEW checked \in BOOLEAN, shown # None, data' = Sanitized(data, checked),
             UNCHANGED <<shown, errorInfo>>
      PROVE  InStep'
  <2>1. data \in [file : Files, bare : BOOLEAN] /\ data # None
    BY <1>2 DEF TypeOK, Supplied
  <2>2. data'.file = data.file
    BY <1>2, <2>1 DEF Sanitized
  <2>3. QED
    BY <1>2, <2>1, <2>2 DEF InStep
<1>3. ASSUME NEW s \in Sends, Succeeded(s) \/ Refused(s) PROVE InStep'
  BY <1>3 DEF Succeeded, Refused, FreshPage, InStep
<1>4. CASE UNCHANGED pageVars
  BY <1>4 DEF pageVars, InStep
<1>5. QED
  BY <1>1, <1>2, <1>3, <1>4 DEF vars, Next, SendNowhere, Send, CheckRow, SaveRow,
                                Abort, DeleteContent

LEMMA SentStep ==
    ASSUME TypeOK, Supplied, InStep, [Next]_vars, NEW s \in Sends,
           request[s] = None, request'[s] # None, ~errorInfo, data.file.check # "throws"
    PROVE  request'[s].rows = shown.rows
<1>1. request' # request
  OBVIOUS
<1>2. ASSUME NEW q \in Sends, NEW checked \in BOOLEAN, NEW m \in Selectable,
             Send(q, m, checked)
      PROVE  request'[s].rows = shown.rows
  <2>1. q = s /\ request'[s] = Posted(m, checked)
    BY <1>2 DEF Send, TypeOK
  <2>2. shown = data.file
    BY <1>2 DEF Send, Supplied, InStep
  <2>3. QED
    BY <2>1, <2>2 DEF Posted
<1>3. QED
  BY <1>1, <1>2 DEF vars, serverVars, Next, ReadFile, SendNowhere, CheckRow, SaveRow,
                    Abort, Succeeded, Refused, DeleteContent

\* Of files whose validation does not throw, the page posts what it shows.
THEOREM SendsShown == Spec => SendsShownOrWarned
<1>1. Init => InStep
  BY DEF Init, InStep
<1>2. TypeOK /\ Supplied /\ InStep /\ [Next]_vars =>
        [\A s \in Sends :
            /\ request[s] = None /\ request'[s] # None
            /\ ~errorInfo /\ data.file.check # "throws"
            => request'[s].rows = shown.rows]_vars
  BY SentStep
<1>3. QED
  BY <1>1, <1>2, InitTypes, NextTypes, NextInStep, PTL DEF Spec, SendsShownOrWarned

----------------------------------------------------------------------------
(* The safety half of LoadingEnds.                                         *)

\* How many rows the loops of a handler still have before them.
RowsLeft(s) ==
    IF phase[s] = "checking" THEN 2 * Len(request[s].rows) - next[s]
    ELSE IF phase[s] = "saving" THEN Len(request[s].rows) - next[s]
    ELSE 0

Handles(s) == CheckRow(s) \/ SaveRow(s) \/ Abort(s)

\* A request whose answer the page waits for has a handler; each step of the
\* handler brings the answer nearer and no other step takes it further away; and
\* the page stops waiting only where the loading text goes.
AnswerNearer ==
    \A s \in Sends : s \in waiting =>
        /\ phase[s] \in Phases
        /\ RowsLeft(s)' \in Nat /\ RowsLeft(s)' <= RowsLeft(s)
        /\ Handles(s) => RowsLeft(s)' < RowsLeft(s)
        /\ s \in waiting' \/ ~loading'

AnswersCome == [][AnswerNearer]_vars

\* Inductive: what the page waits for has been posted.
Awaited == \A s \in waiting : phase[s] # None

LEMMA NextAwaited == TypeOK /\ Awaited /\ [Next]_vars => Awaited'
<1> SUFFICES ASSUME TypeOK, Awaited, [Next]_vars PROVE Awaited'
  OBVIOUS
<1>1. CASE UNCHANGED vars
  BY <1>1 DEF vars, pageVars, serverVars, Awaited
<1>2. ASSUME NEW s \in Sends, NEW checked \in BOOLEAN, NEW m \in Selectable,
             Send(s, m, checked)
      PROVE  Awaited'
  <2>1. None \notin {"done", "checking"}
    BY NoneAssumption DEF Phases
  <2>2. phase'[s] \in {"done", "checking"} /\ waiting' = waiting \cup {s}
        /\ \A q \in Sends : q # s => phase'[q] = phase[q]
    BY <1>2 DEF Send, TypeOK
  <2>3. QED
    BY <2>1, <2>2 DEF Awaited, TypeOK
<1>3. ASSUME NEW s \in Sends, Handles(s) PROVE Awaited'
  <2>1. None \notin {"done", "checking", "saving", "refused", "failed"}
    BY NoneAssumption DEF Phases
  <2>2. UNCHANGED waiting /\ phase'[s] \in {"done", "checking", "saving", "refused", "failed"}
        /\ \A q \in Sends : q # s => phase'[q] = phase[q]
    BY <1>3 DEF Handles, CheckRow, SaveRow, Abort, Leave, Loop, pageVars, TypeOK
  <2>3. QED
    BY <2>1, <2>2 DEF Awaited, TypeOK
<1>4. ASSUME NEW s \in Sends, Succeeded(s) \/ Refused(s) PROVE Awaited'
  BY <1>4 DEF Succeeded, Refused, FreshPage, serverVars, Awaited
<1>5. CASE \/ \E f \in Files : ReadFile(f)
           \/ \E checked \in BOOLEAN : SendNowhere(checked)
           \/ \E m \in Manuscripts : DeleteContent(m)
  BY <1>5 DEF ReadFile, SendNowhere, DeleteContent, pageVars, serverVars, Awaited
<1>6. QED
  BY <1>1, <1>2, <1>3, <1>4, <1>5 DEF Next, Handles

\* A handler goes to its next row, to its second loop, or to its end.
LEMMA HandlerAdvances ==
    ASSUME TypeOK, Supplied, NEW s \in Sends, Handles(s)
    PROVE  RowsLeft(s)' \in Nat /\ RowsLeft(s)' < RowsLeft(s)
<1>1. phase[s] \in {"checking", "saving"}
  BY DEF Handles, CheckRow, SaveRow, Abort
<1> DEFINE l == Len(request[s].rows)
<1>2. l \in Nat /\ next[s] \in Nat /\ next[s] < l
  BY <1>1, RowTypes DEF TypeOK, Requests
<1>3. request' = request
  BY DEF Handles, CheckRow, SaveRow, Abort
<1>4. CASE \E ending \in {"done", "refused", "failed"} : phase'[s] = ending
  <2>1. RowsLeft(s)' = 0
    BY <1>4 DEF RowsLeft
  <2>2. RowsLeft(s) > 0
    BY <1>1, <1>2 DEF RowsLeft
  <2>3. QED
    BY <2>1, <2>2
<1>5. CASE phase[s] = "checking" /\ phase'[s] = "saving" /\ next'[s] = 0
  BY <1>2, <1>3, <1>5 DEF RowsLeft
<1>6. CASE phase'[s] = phase[s] /\ next'[s] = next[s] + 1 /\ next[s] + 1 < l
  <2>1. CASE phase[s] = "checking"
    <3>1. RowsLeft(s) = 2 * l - next[s] /\ RowsLeft(s)' = 2 * l - (next[s] + 1)
      BY <1>3, <1>6, <2>1 DEF RowsLeft
    <3> HIDE DEF l
    <3>2. QED
      BY <1>2, <1>6, <3>1
  <2>2. CASE phase[s] = "saving"
    <3>1. RowsLeft(s) = l - next[s] /\ RowsLeft(s)' = l - (next[s] + 1)
      BY <1>3, <1>6, <2>2 DEF RowsLeft
    <3> HIDE DEF l
    <3>2. QED
      BY <1>2, <1>6, <3>1
  <2>3. QED
    BY <1>1, <2>1, <2>2
<1>7. QED
  BY <1>1, <1>4, <1>5, <1>6 DEF Handles, CheckRow, SaveRow, Abort, Leave, Loop, TypeOK

LEMMA RowsLeftType ==
    ASSUME TypeOK, Supplied, NEW s \in Sends
    PROVE  RowsLeft(s) \in Nat
<1>1. CASE phase[s] \in {"checking", "saving"}
  <2>1. Len(request[s].rows) \in Nat /\ next[s] \in Nat /\ next[s] < Len(request[s].rows)
    BY <1>1, RowTypes DEF TypeOK, Requests
  <2>2. QED
    BY <1>1, <2>1 DEF RowsLeft
<1>2. CASE phase[s] \notin {"checking", "saving"}
  BY <1>2 DEF RowsLeft
<1>3. QED
  BY <1>1, <1>2

\* Nothing but its handler changes what is left of a request that was posted.
LEMMA OthersKeepRowsLeft ==
    ASSUME TypeOK, Supplied, [Next]_vars, NEW s \in Sends, phase[s] # None, ~Handles(s)
    PROVE  RowsLeft(s)' = RowsLeft(s)
<1>1. phase'[s] = phase[s] /\ next'[s] = next[s] /\ request'[s] = request[s]
  <2>1. ASSUME NEW q \in Sends, NEW checked \in BOOLEAN, NEW m \in Selectable,
               Send(q, m, checked)
        PROVE  phase'[s] = phase[s] /\ next'[s] = next[s] /\ request'[s] = request[s]
    <3>1. q # s
      BY <2>1 DEF Send, Supplied
    <3>2. QED
      BY <2>1, <3>1 DEF Send, TypeOK
  <2>2. ASSUME NEW q \in Sends, Handles(q)
        PROVE  phase'[s] = phase[s] /\ next'[s] = next[s] /\ request'[s] = request[s]
    BY <2>2 DEF Handles, CheckRow, SaveRow, Abort, Leave, Loop, TypeOK
  <2>3. CASE UNCHANGED serverVars
    BY <2>3 DEF serverVars
  <2>4. QED
    BY <2>1, <2>2, <2>3 DEF vars, Next, Handles, ReadFile, SendNowhere, Succeeded, Refused,
                            DeleteContent
<1>2. QED
  BY <1>1 DEF RowsLeft

\* The page stops waiting when it reloads or hears of an error, and then the text goes.
LEMMA WaitingEnds ==
    ASSUME [Next]_vars, NEW s \in waiting, s \notin waiting'
    PROVE  ~loading'
BY DEF vars, Next, ReadFile, SendNowhere, Send, CheckRow, SaveRow, Abort, Succeeded, Refused,
       DeleteContent, FreshPage, pageVars

\* However requests overlap: the handler of each comes to its end row by row, and
\* the page waits for its answer until a callback takes the loading text away.
\* With handlers that go on and answers that arrive, this is LoadingEnds.
THEOREM AnswersAreNearing == Spec => AnswersCome
<1>1. Init => Awaited
  BY DEF Init, Awaited
<1>2. ASSUME TypeOK, Supplied, TypeOK', Supplied', Awaited, [Next]_vars
      PROVE  AnswerNearer
  <2> SUFFICES ASSUME NEW s \in Sends, s \in waiting
               PROVE  /\ phase[s] \in Phases
                      /\ RowsLeft(s)' \in Nat /\ RowsLeft(s)' <= RowsLeft(s)
                      /\ Handles(s) => RowsLeft(s)' < RowsLeft(s)
                      /\ s \in waiting' \/ ~loading'
    BY DEF AnswerNearer
  <2>1. phase[s] # None /\ phase[s] \in Phases
    BY <1>2 DEF Awaited, TypeOK
  <2>2. RowsLeft(s) \in Nat
    BY <1>2, RowsLeftType
  <2>3. CASE Handles(s)
    BY <1>2, <2>1, <2>2, <2>3, HandlerAdvances, WaitingEnds
  <2>4. CASE ~Handles(s)
    BY <1>2, <2>1, <2>2, <2>4, OthersKeepRowsLeft, WaitingEnds
  <2>5. QED
    BY <2>3, <2>4
<1>3. QED
  BY <1>1, <1>2, InitTypes, NextTypes, NextAwaited, PTL DEF Spec, AnswersCome
=============================================================================
