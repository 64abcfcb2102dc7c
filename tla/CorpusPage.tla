----------------------------- MODULE CorpusPage -----------------------------
(***************************************************************************)
(* The corpus analysis: its page (indexerapp/static/js/corpus_analysis.js), *)
(* the runs it shows and starts (analysisapp/views.py), and their execution *)
(* (analysisapp/tasks.py, pipeline.py).                                     *)
(*                                                                         *)
(* The page is a set of async functions over one global state.  Each        *)
(* `await` lets other functions go on; what waits is a continuation here,   *)
(* answered in any order.  The artifact cache only saves requests and is    *)
(* left out; of the tabs the report stands for all.                         *)
(***************************************************************************)
EXTENDS Integers, FiniteSets

CONSTANTS
    MaxRuns,    \* bound: runs, oldest first
    OldRuns,    \* runs finished before the page is opened
    Twice,      \* bound: runs that may be executed twice
    MaxPending, \* bound: requests in flight at once
    MaxClicks,  \* bound: what the reader does
    None        \* null

ASSUME CorpusAssumption ==
    /\ MaxRuns \in Nat /\ MaxPending \in Nat \ {0} /\ MaxClicks \in Nat
    /\ OldRuns \in 0..MaxRuns
    /\ None \notin Nat

\* null is none of the values that stand beside it.
ASSUME NoneAssumption ==
    None \notin {"pending", "running", "done", "failed",
                 "waiting", "working", "returned", "raised", "dead"}

Runs == 1..MaxRuns

\* Who may execute a run: the request that starts it, a worker, or both.
Executors == {"request", "worker"}
Executions == Runs \X Executors

InProgress == {"pending", "running"}
Ended == {"done", "failed"}

VARIABLES
    \* the server
    status,    \* AnalysisRun.status; None: no such run
    exec,      \* its executions
    \* corpusAnalysisState and the page
    listed,    \* runs: their status when the list was loaded
    run,       \* run
    manifest,  \* the run whose manifest it holds
    timer,     \* pollTimer: the run polled
    says,      \* corpusStatus
    panel,     \* the run whose report the panel shows
    waiting,   \* continuations: what of which run, and what to poll after it
    clicks,    \* bound: what the reader did
    broken     \* history only: a fetch was rejected

serverVars == <<status, exec>>
pageVars == <<listed, run, manifest, timer, says, panel, waiting>>
vars == <<serverVars, pageVars, clicks, broken>>

Continuations ==
    [what : {"start", "list", "poll", "manifest", "report"},
     run : Runs \cup {None}, after : Runs \cup {None}]

TypeOK ==
    /\ status \in [Runs -> InProgress \cup Ended \cup {None}]
    /\ exec \in [Executions -> {None, "waiting", "working", "returned", "raised", "dead"}]
    /\ listed \in [Runs -> InProgress \cup Ended \cup {None}]
    /\ run \in Runs \cup {None}
    /\ manifest \in Runs \cup {None}
    /\ timer \in Runs \cup {None}
    /\ says \in {"", "progress", "failed", "no manifest", "no list", "no runs",
                 "starting", "started", "no start"}
    /\ panel \in Runs \cup {None}
    /\ waiting \in SUBSET Continuations /\ Cardinality(waiting) <= MaxPending
    /\ clicks \in 0..MaxClicks
    /\ broken \in BOOLEAN

Await(what, r, after) == [what |-> what, run |-> r, after |-> after]

\* corpus_analysis_init loads the list.
Init ==
    /\ status = [r \in Runs |-> IF r <= OldRuns THEN "done" ELSE None]
    /\ exec = [e \in Executions |->
                 IF e[1] <= OldRuns /\ e[2] = "worker" THEN "returned" ELSE None]
    /\ listed = [r \in Runs |-> None]
    /\ run = None /\ manifest = None /\ timer = None /\ panel = None
    /\ says = ""
    /\ waiting = {Await("list", None, None)}
    /\ clicks = 0
    /\ broken = FALSE

-----------------------------------------------------------------------------
\* The execution e of the run e[1]: execute_run.

Begin(e) ==
    /\ exec[e] = "waiting"
    /\ exec' = [exec EXCEPT ![e] = "working"]
    /\ status' = [status EXCEPT ![e[1]] = "running"]
    /\ UNCHANGED <<pageVars, clicks, broken>>

\* ArtifactWriter(run) makes the directory of the run, before the try block.
MakeDirsFails(e) ==
    /\ exec[e] = "working"
    /\ exec' = [exec EXCEPT ![e] = "raised"]
    /\ UNCHANGED <<status, pageVars, clicks, broken>>

\* The manifest is the last artifact before `done`.
Return(e) ==
    /\ exec[e] = "working"
    /\ exec' = [exec EXCEPT ![e] = "returned"]
    /\ status' = [status EXCEPT ![e[1]] = "done"]
    /\ UNCHANGED <<pageVars, clicks, broken>>

Raise(e) ==
    /\ exec[e] = "working"
    /\ exec' = [exec EXCEPT ![e] = "raised"]
    /\ status' = [status EXCEPT ![e[1]] = "failed"]
    /\ UNCHANGED <<pageVars, clicks, broken>>

\* The worker, or the request it runs in, is killed.
Die(e) ==
    /\ exec[e] \in {"waiting", "working"}
    /\ exec' = [exec EXCEPT ![e] = "dead"]
    /\ UNCHANGED <<status, pageVars, clicks, broken>>

\* A manifest that was written stays, whatever another execution does.
Written(r) == \E x \in Executors : exec[<<r, x>>] = "returned"

-----------------------------------------------------------------------------
\* What the functions of the page do between two awaits.  `wait` is what was
\* waited for before, less the continuation that goes on.

\* corpusStartPolling; `after` is the call at the end of corpusStartRun.
Then(after, before) == IF after # None THEN after ELSE before

\* corpusSelectRun, up to its await.
SelectRun(r, seen, wait, after) ==
    /\ run' = r
    /\ UNCHANGED <<manifest, panel>>
    /\ \/ /\ seen[r] \in InProgress
          /\ says' = "progress"
          /\ timer' = Then(after, r)
          /\ waiting' = wait
       \/ /\ seen[r] = "failed"
          /\ says' = "failed"
          /\ timer' = Then(after, timer)
          /\ waiting' = wait
       \/ /\ seen[r] = "done"
          /\ waiting' = wait \cup {Await("manifest", r, after)}
          /\ UNCHANGED <<timer, says>>

\* The list puts r forward: the preferred run or, when that is not in the list,
\* the newest that is done, or the newest.
Target(seen, preferred, r) ==
    LET there == {q \in Runs : seen[q] # None}
        done == {q \in there : seen[q] = "done"}
        candidates == IF preferred \in there THEN {preferred}
                      ELSE IF done # {} THEN done ELSE there
    IN  r \in candidates /\ \A q \in candidates : q <= r

-----------------------------------------------------------------------------
\* The reader.

Room == Cardinality(waiting) < MaxPending
Click ==
    /\ Room
    /\ clicks < MaxClicks
    /\ clicks' = clicks + 1
    /\ UNCHANGED <<serverVars, broken>>

Pick(r) ==
    /\ Click
    /\ listed[r] # None
    /\ SelectRun(r, listed, waiting, None)
    /\ UNCHANGED listed

\* corpusActivateTab, a resize, another cohort.
Redraw ==
    /\ Click
    /\ run # None /\ manifest # None
    /\ waiting' = waiting \cup {Await("report", run, None)}
    /\ UNCHANGED <<listed, run, manifest, timer, says, panel>>

\* corpusStartRun and AnalysisRunStartView: the run is queued, or run inline
\* when Celery is off or apply_async raises, which it may do when the broker has
\* taken the message: then a worker executes the run as well.
Start(r) ==
    /\ Room /\ clicks < MaxClicks
    /\ clicks' = clicks + 1
    /\ status[r] = None
    /\ \A q \in 1..(r - 1) : status[q] # None
    /\ status' = [status EXCEPT ![r] = "pending"]
    /\ \E by \in (SUBSET Executors) \ {{}} :
          /\ by = Executors => r \in Twice
          /\ exec' = [e \in Executions |->
                        IF e[1] = r /\ e[2] \in by THEN "waiting" ELSE exec[e]]
    /\ says' = "starting"
    /\ waiting' = waiting \cup {Await("start", r, None)}
    /\ UNCHANGED <<listed, run, manifest, timer, panel, broken>>

-----------------------------------------------------------------------------
\* Answers.

Answered(k) == k \in waiting /\ UNCHANGED <<serverVars, clicks, broken>>
Rest(k) == waiting \ {k}

Queued(r) == exec[<<r, "request">>] = None

\* corpusStartRun goes on: an inline run was over before it was answered.
StartAnswered(k) ==
    /\ Answered(k) /\ k.what = "start"
    /\ Queued(k.run) \/ exec[<<k.run, "request">>] \in {"returned", "raised"}
    /\ says' = "started"
    /\ waiting' = Rest(k) \cup
           {Await("list", k.run, IF Queued(k.run) THEN k.run ELSE None)}
    /\ UNCHANGED <<listed, run, manifest, timer, panel>>

StartRefused(k) ==
    /\ Answered(k) /\ k.what = "start"
    /\ says' = "no start"
    /\ waiting' = Rest(k)
    /\ UNCHANGED <<listed, run, manifest, timer, panel>>

\* corpusLoadRuns goes on.
ListAnswered(k) ==
    /\ Answered(k) /\ k.what = "list"
    /\ listed' = status
    /\ \/ /\ \A r \in Runs : status[r] = None
          /\ says' = "no runs"
          /\ waiting' = Rest(k)
          /\ UNCHANGED <<run, manifest, timer, panel>>
       \/ \E r \in Runs :
             Target(status, k.run, r) /\ SelectRun(r, status, Rest(k), k.after)

ListRefused(k) ==
    /\ Answered(k) /\ k.what = "list"
    /\ says' = "no list"
    /\ timer' = Then(k.after, timer)
    /\ waiting' = Rest(k)
    /\ UNCHANGED <<listed, run, manifest, panel>>

\* The callback of setInterval, each 2.5 s whether or not the last has ended.
Tick ==
    /\ timer # None
    /\ Room
    /\ waiting' = waiting \cup {Await("poll", timer, None)}
    /\ UNCHANGED <<serverVars, listed, run, manifest, timer, says, panel, clicks, broken>>

\* Variant: only `done` ends the polling.
PollEnds_WhenDone(s) == s = "done"

PollEnds(s) == s \in Ended

\* Variant: the list is loaded again only if the run is still selected.
PollAnswered_IfSelected(k) ==
    /\ Answered(k) /\ k.what = "poll"
    /\ IF PollEnds(status[k.run])
         THEN /\ timer' = None
              /\ waiting' = Rest(k) \cup
                     IF run = k.run THEN {Await("list", k.run, None)} ELSE {}
         ELSE waiting' = Rest(k) /\ UNCHANGED timer
    /\ UNCHANGED <<listed, run, manifest, says, panel>>

\* It clears whatever timer is set, and selects the run it polled.
PollAnswered(k) ==
    /\ Answered(k) /\ k.what = "poll"
    /\ IF PollEnds(status[k.run])
         THEN /\ timer' = None
              /\ waiting' = Rest(k) \cup {Await("list", k.run, None)}
         ELSE waiting' = Rest(k) /\ UNCHANGED timer
    /\ UNCHANGED <<listed, run, manifest, says, panel>>

PollRefused(k) ==
    /\ Answered(k) /\ k.what = "poll"
    /\ waiting' = Rest(k)
    /\ UNCHANGED <<listed, run, manifest, timer, says, panel>>

\* corpusSelectRun goes on: the report it draws is that of the run selected
\* now.
ManifestAnswered(k) ==
    /\ Answered(k) /\ k.what = "manifest"
    /\ Written(k.run)
    /\ manifest' = k.run
    /\ says' = ""
    /\ waiting' = Rest(k) \cup {Await("report", run, k.after)}
    /\ UNCHANGED <<listed, run, timer, panel>>

ManifestRefused(k) ==
    /\ Answered(k) /\ k.what = "manifest"
    /\ manifest' = None
    /\ says' = "no manifest"
    /\ timer' = Then(k.after, timer)
    /\ waiting' = Rest(k)
    /\ UNCHANGED <<listed, run, panel>>

\* corpusRenderReport goes on: the report, or that there is none.
ReportAnswered(k) ==
    /\ Answered(k) /\ k.what = "report"
    /\ panel' = k.run
    /\ timer' = Then(k.after, timer)
    /\ waiting' = Rest(k)
    /\ UNCHANGED <<listed, run, manifest, says>>

\* The promise is rejected: the function and its callers end there.
Break(k) ==
    /\ k \in waiting
    /\ waiting' = Rest(k)
    /\ broken' = TRUE
    /\ UNCHANGED <<serverVars, listed, run, manifest, timer, says, panel, clicks>>

Answer(k) ==
    \/ StartAnswered(k) \/ ListAnswered(k) \/ PollAnswered(k)
    \/ ManifestAnswered(k) \/ ReportAnswered(k)
Refusal(k) ==
    \/ StartRefused(k) \/ ListRefused(k) \/ PollRefused(k)
    \/ ManifestRefused(k) \/ Break(k)
Execution(e) == Begin(e) \/ Return(e) \/ Raise(e) \/ MakeDirsFails(e) \/ Die(e)

Next ==
    \/ \E e \in Executions : Execution(e)
    \/ \E r \in Runs : Pick(r) \/ Start(r)
    \/ Redraw \/ Tick
    \/ \E k \in waiting : Answer(k) \/ Refusal(k)

Spec == Init /\ [][Next]_vars

Answers(what) == \E k \in waiting : k.what = what /\ Answer(k)

\* Workers take what is queued and runs end; the server answers what it is
\* asked, a request repeated for ever in the end; the interval fires.
FairSpec ==
    /\ Spec
    /\ \A e \in Executions :
          WF_vars(Begin(e) \/ Return(e) \/ Raise(e) \/ MakeDirsFails(e))
    /\ WF_vars(Answers("start")) /\ WF_vars(Answers("list"))
    /\ WF_vars(Answers("manifest")) /\ WF_vars(Answers("report"))
    /\ SF_vars(Answers("poll"))
    /\ WF_vars(Tick)

-----------------------------------------------------------------------------
\* While the page says that a run is in progress it will hear of its end: a
\* timer polls, or a list or a manifest that says more is on its way.  (A fetch
\* that was rejected may have ended the function that would have gone on.)
InProgressIsWatched ==
    says = "progress" =>
        \/ timer # None
        \/ \E k \in waiting : k.what \in {"list", "manifest"}
        \/ broken

\* Nobody works on the run and nobody will, but its row says it is in progress.
Stuck(r) ==
    /\ status[r] \in InProgress
    /\ \A x \in Executors : exec[<<r, x>>] \notin {"waiting", "working"}
    /\ \E x \in Executors : exec[<<r, x>>] \in {"raised", "dead"}
Excused == broken \/ \E r \in Runs : Stuck(r)

\* The page does not say "still in progress" for ever.
ProgressEnds == says = "progress" ~> says # "progress" \/ Excused
=============================================================================
