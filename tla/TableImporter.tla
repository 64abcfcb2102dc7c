--------------------------- MODULE TableImporter ---------------------------
(***************************************************************************)
(* The CSV importer: the page (indexerapp/static/js/importer.js), the       *)
(* import views that store its rows (indexerapp/views.py) and the deletion   *)
(* of all content of a manuscript from the same page.                       *)
(*                                                                         *)
(* The page keeps the rows in the global `data` and shows them in a table;  *)
(* the two are set at different places.  A file is read asynchronously, a   *)
(* request is handled row by row without a transaction around it, and Send  *)
(* stays enabled while a request is in flight.                              *)
(***************************************************************************)
EXTENDS Integers, Sequences

CONSTANTS
    Files,       \* the files the operator has
    Existing,    \* rows in the database before
    Manuscripts, \* what the manuscript selector offers
    MaxSends,    \* bound: the requests the page posts
    None         \* undefined or null

Sends == 1..MaxSends

Tables == {"Content", "Manuscripts", "Bibliography", "Formulas", ""}

\* A row of a file: its id, whether a music notation is made for it, and what
\* the views make of it.
FileRow == [id : Nat \cup {None}, notation : BOOLEAN,
            fate : {"good", "refused", "unsavable"}]

\* A file: the table its columns name, and what validateData makes of it.
File == [table : Tables, check : {"valid", "invalid", "throws"}, rows : Seq(FileRow)]

\* A row of the database: the request that stored it and its place in it.
Stored == [by : Sends \cup {None}, at : Nat, row : FileRow, id : Nat \cup {None},
           table : Tables, ms : Manuscripts \cup {None}]

ASSUME FileAssumption ==
    \A f \in Files :
        /\ f \in File
        /\ f.rows = <<>> => f.check = "throws"
        /\ f.table = "" => f.check # "valid"

ASSUME DatabaseAssumption ==
    /\ MaxSends \in Nat
    /\ \A r \in Existing : r \in Stored /\ r.by = None

VARIABLES
    \* the page
    data,        \* data: the file, and whether its ids were deleted from it
    tableName,
    shown,       \* the file the table shows
    errorInfo,   \* error-info has a text
    loading,     \* loading-info is displayed
    waiting,     \* requests whose answer the page waits for
    \* the server
    request,     \* what was posted
    phase,       \* the handler: checks all rows, then saves them
    next,        \* the row it is at
    \* the database
    stored,      \* rows
    notations,   \* music notations made by imports
    removed      \* history only: rows a deletion or another import replaced

pageVars == <<data, tableName, shown, errorInfo, loading, waiting>>
serverVars == <<request, phase, next>>
dbVars == <<stored, notations, removed>>
vars == <<pageVars, serverVars, dbVars>>

\* What is posted; `checked` is history.
Requests == [table : Tables, rows : Seq(FileRow), ms : Manuscripts \cup {None},
             ids : BOOLEAN, checked : BOOLEAN]

Phases == {"checking", "saving", "done", "refused", "failed"}

TypeOK ==
    /\ data \in [file : Files, bare : BOOLEAN] \cup {None}
    /\ tableName \in Tables \cup {None}
    /\ shown \in {f \in Files : f.check = "valid"} \cup {None}
    /\ errorInfo \in BOOLEAN /\ loading \in BOOLEAN
    /\ waiting \in SUBSET Sends
    /\ request \in [Sends -> Requests \cup {None}]
    /\ phase \in [Sends -> Phases \cup {None}]
    /\ next \in [Sends -> Nat]
    /\ \A s \in Sends : phase[s] \in {"checking", "saving"} => next[s] < Len(request[s].rows)
    /\ stored \in SUBSET Stored /\ removed \in SUBSET Stored
    /\ notations \in SUBSET (Sends \X Nat)

ASSUME NoneAssumption ==
    /\ None \notin Files /\ None \notin [file : Files, bare : BOOLEAN]
    /\ None \notin Requests /\ None \notin Sends /\ None \notin Tables
    /\ None \notin Phases

\* What location.reload leaves of the page.
FreshPage ==
    /\ data' = None /\ tableName' = None /\ shown' = None
    /\ errorInfo' = FALSE /\ loading' = FALSE /\ waiting' = {}

Init ==
    /\ data = None /\ tableName = None /\ shown = None
    /\ errorInfo = FALSE /\ loading = FALSE /\ waiting = {}
    /\ request = [s \in Sends |-> None]
    /\ phase = [s \in Sends |-> None]
    /\ next = [s \in Sends |-> 0]
    /\ stored = Existing
    /\ notations = {} /\ removed = {}

-----------------------------------------------------------------------------
\* Files.

\* reader.onload, processData, displayTable.  The file was chosen some time
\* before (handleFile, handleDrop, parseCSV); readers end in any order.  `data`
\* is replaced first.  A file without rows throws at Object.keys(data[0]), and
\* one without a column that its validation reads throws there: then neither
\* the table nor the text is touched.
ReadFile(f) ==
    /\ data' = [file |-> f, bare |-> FALSE]
    /\ tableName' = IF f.rows = <<>> THEN tableName ELSE f.table
    /\ shown' = IF f.check = "valid" THEN f ELSE shown
    /\ errorInfo' = IF f.check = "throws" THEN errorInfo ELSE f.check = "invalid"
    /\ UNCHANGED <<loading, waiting, serverVars, dbVars>>

-----------------------------------------------------------------------------
\* sendToServer.  What it reads of the selectors and the checkbox when it runs
\* (manuscriptUuid, contributorId, use-file-uuids: the operator sets them at any
\* time, a missing selection is an early return) is a parameter: the
\* manuscript, and whether the box is checked.

Selectable == IF tableName = "Content" THEN Manuscripts ELSE {None}

\* Variant: the ids of the file are sent whatever the checkbox says.
Sanitized_Kept(d, checked) == d

\* sanitizeImportRow: the result is assigned to `data`, so that ids deleted
\* for one request are missing from the next one of the same file.
Sanitized(d, checked) == [d EXCEPT !.bare = @ \/ ~checked]

Posted(m, checked) ==
    [table |-> tableName, rows |-> data.file.rows, ms |-> m,
     ids |-> ~Sanitized(data, checked).bare, checked |-> checked]

\* A table without URL: loading-info stays and nothing is posted.
SendNowhere(checked) ==
    /\ shown # None
    /\ tableName = ""
    /\ data' = Sanitized(data, checked)
    /\ loading' = TRUE
    /\ UNCHANGED <<tableName, shown, errorInfo, waiting, serverVars, dbVars>>

\* Variant: the old error text goes away when a new request is sent.
Send_ClearsText(s, m, checked) ==
    /\ shown # None
    /\ tableName # "" /\ m \in Selectable
    /\ request[s] = None
    /\ \A r \in 1..(s - 1) : request[r] # None
    /\ data' = Sanitized(data, checked)
    /\ request' = [request EXCEPT ![s] = Posted(m, checked)]
    /\ phase' = [phase EXCEPT ![s] = IF data.file.rows = <<>> THEN "done" ELSE "checking"]
    /\ waiting' = waiting \cup {s}
    /\ loading' = TRUE /\ errorInfo' = FALSE
    /\ UNCHANGED <<tableName, shown, next, dbVars>>

\* The button is there once a table was shown, and stays.  For no rows the
\* loops of the view are empty: it answers success.
Send(s, m, checked) ==
    /\ shown # None
    /\ tableName # "" /\ m \in Selectable
    /\ request[s] = None
    /\ \A r \in 1..(s - 1) : request[r] # None
    /\ data' = Sanitized(data, checked)
    /\ request' = [request EXCEPT ![s] = Posted(m, checked)]
    /\ phase' = [phase EXCEPT ![s] = IF data.file.rows = <<>> THEN "done" ELSE "checking"]
    /\ waiting' = waiting \cup {s}
    /\ loading' = TRUE
    /\ UNCHANGED <<tableName, shown, errorInfo, next, dbVars>>

-----------------------------------------------------------------------------
\* The import views.

\* An early return, or an exception.
Leave(s, ending) ==
    phase' = [phase EXCEPT ![s] = ending] /\ next' = [next EXCEPT ![s] = 0]

\* EditorRequiredMixin, MainMasterOnlyMixin, or a worker that dies.
Abort(s) ==
    /\ \/ phase[s] = "checking" /\ Leave(s, "refused")
       \/ phase[s] = "saving" /\ Leave(s, "failed")
    /\ UNCHANGED <<pageVars, request, dbVars>>

Row(s) == request[s].rows[next[s] + 1]

\* The loop over the rows goes to the next one, or ends.
Loop(s, ending) ==
    IF next[s] + 1 < Len(request[s].rows)
      THEN next' = [next EXCEPT ![s] = @ + 1] /\ UNCHANGED phase
      ELSE next' = [next EXCEPT ![s] = 0] /\ phase' = [phase EXCEPT ![s] = ending]

\* The views of the other tables do not read `id`.
ReadsIds(t) == t \in {"Manuscripts", "Formulas"}

NewRow(s) ==
    [by |-> s, at |-> next[s] + 1, row |-> Row(s), table |-> request[s].table,
     ms |-> request[s].ms,
     id |-> IF request[s].ids /\ ReadsIds(request[s].table) THEN Row(s).id ELSE None]

\* The rows save() replaces: those of the table with the id it was given.
Replaced(new) ==
    {r \in stored : new.id # None /\ r.table = new.table /\ r.id = new.id}

Store(new) ==
    /\ stored' = (stored \ Replaced(new)) \cup {new}
    /\ removed' = removed \cup Replaced(new)

\* Variant: each row is saved as soon as it was checked.
CheckRow_Saves(s) ==
    /\ phase[s] = "checking"
    /\ IF Row(s).fate = "refused"
         THEN Leave(s, "refused") /\ UNCHANGED <<stored, removed>>
         ELSE Loop(s, "done") /\ Store(NewRow(s))
    /\ UNCHANGED <<pageVars, request, notations>>

\* import_content, import_data, first loop: one row is checked; the music
\* notation it names is saved at once, whatever later checks say.
CheckRow(s) ==
    /\ phase[s] = "checking"
    /\ notations' = IF Row(s).notation
                      THEN notations \cup {<<s, next[s] + 1>>} ELSE notations
    /\ IF Row(s).fate = "refused" THEN Leave(s, "refused") ELSE Loop(s, "saving")
    /\ UNCHANGED <<pageVars, request, stored, removed>>

\* Variant: a row that cannot be saved is skipped.
SaveRow_Skips(s) ==
    /\ phase[s] = "saving"
    /\ Loop(s, "done")
    /\ IF Row(s).fate = "unsavable" THEN UNCHANGED <<stored, removed>>
                                    ELSE Store(NewRow(s))
    /\ UNCHANGED <<pageVars, request, notations>>

\* Second loop: each save() is committed by itself.
SaveRow(s) ==
    /\ phase[s] = "saving"
    /\ IF Row(s).fate = "unsavable"
         THEN Leave(s, "failed") /\ UNCHANGED <<stored, removed>>
         ELSE Loop(s, "done") /\ Store(NewRow(s))
    /\ UNCHANGED <<pageVars, request, notations>>

-----------------------------------------------------------------------------
\* handleServerResponse

\* Success reloads the page: what other requests answer is not heard.
Succeeded(s) ==
    /\ s \in waiting
    /\ phase[s] = "done"
    /\ FreshPage
    /\ UNCHANGED <<serverVars, dbVars>>

\* Variant: $.ajax without an error callback.
Refused_Unheard(s) ==
    /\ s \in waiting
    /\ phase[s] \in {"refused", "failed"}
    /\ waiting' = waiting \ {s}
    /\ UNCHANGED <<data, tableName, shown, errorInfo, loading, serverVars, dbVars>>

\* An error, also of the connection while the handler goes on.
Refused(s) ==
    /\ s \in waiting
    /\ phase[s] # "done"
    /\ waiting' = waiting \ {s}
    /\ errorInfo' = TRUE
    /\ loading' = FALSE
    /\ UNCHANGED <<data, tableName, shown, serverVars, dbVars>>

-----------------------------------------------------------------------------
\* deleteMSContent, DeleteContentView.
DeleteContent(m) ==
    /\ LET gone == {r \in stored : r.table = "Content" /\ r.ms = m}
       IN  /\ stored' = stored \ gone
           /\ removed' = removed \cup gone
    /\ UNCHANGED <<pageVars, serverVars, notations>>

-----------------------------------------------------------------------------
Next ==
    \/ \E f \in Files : ReadFile(f)
    \/ \E checked \in BOOLEAN : SendNowhere(checked)
    \/ \E s \in Sends, checked \in BOOLEAN : \E m \in Selectable : Send(s, m, checked)
    \/ \E s \in Sends : CheckRow(s) \/ SaveRow(s) \/ Abort(s) \/ Succeeded(s) \/ Refused(s)
    \/ \E m \in Manuscripts : DeleteContent(m)

Spec == Init /\ [][Next]_vars

\* Django answers every request, the browser calls back for every answer.
FairSpec ==
    /\ Spec
    /\ \A s \in Sends :
          /\ WF_vars(CheckRow(s) \/ SaveRow(s))
          /\ WF_vars(Succeeded(s) \/ (phase[s] \in {"refused", "failed"} /\ Refused(s)))

-----------------------------------------------------------------------------
\* An import stores none of its rows before all of them passed the checks, so
\* that a file with a refused row leaves no row (the two loops of import_data).
CheckedBeforeStored ==
    \A s \in Sends : phase[s] \in {"checking", "refused"} =>
        \A r \in stored \cup removed : r.by # s

\* The alert "Data sent successfully!" means that every row posted was stored,
\* each as a row of its own, whatever went on meanwhile.
SuccessMeansStored ==
    \A s \in Sends : phase[s] = "done" =>
        \A i \in DOMAIN request[s].rows :
            \E r \in stored \cup removed : r.by = s /\ r.at = i

\* Unless an error text is displayed, Send posts the rows the table shows, of
\* files whose validation does not throw (the table of such a file is never
\* drawn: the one before it stays).
SendsShownOrWarned ==
    [][\A s \in Sends :
          /\ request[s] = None /\ request'[s] # None
          /\ ~errorInfo /\ data.file.check # "throws"
          => request'[s].rows = shown.rows]_vars

\* A row in the database is replaced only by an import the operator sent with
\* "Use uuids from file" checked; all other imports add rows.
ReplacedOnDemand ==
    [][\A r \in removed' \ removed :
          \/ r.table = "Content"
          \/ \E s \in Sends, new \in stored' :
                new.by = s /\ new.id = r.id /\ request[s].checked]_vars

\* views.py says of an exception in any row: "Importing none if there is an
\* error in any row".  An import that fails leaves nothing behind.
ImportsAllOrNone ==
    \A s \in Sends : phase[s] \in {"refused", "failed"} =>
        /\ \A r \in stored : r.by # s
        /\ \A n \in notations : n[1] # s

\* A request whose answer the page waits for takes the loading text away.
LoadingEnds == \A s \in Sends : s \in waiting ~> ~loading
=============================================================================
