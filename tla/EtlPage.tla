------------------------------ MODULE EtlPage ------------------------------
(***************************************************************************)
(* The operator page of the ETL (indexerapp/static/js/etl_sync.js), the     *)
(* views that serve it (etlapp/views.py) and the Celery queue behind them   *)
(* (etlapp/tasks.py).                                                       *)
(*                                                                         *)
(* An operation is one click: a pull of a category, the answer to a         *)
(* conflict, or the import of a manuscript package.  It goes through the    *)
(* page (at), the request handler (srv) and possibly a queued task (task),  *)
(* which do not wait for each other: the page may lose the answer of a      *)
(* handler that goes on, and a worker may die with its task.  EtlShared     *)
(* models what a pull does to the rows; here a row of `shared` either       *)
(* conflicts with a peer or it does not.                                    *)
(***************************************************************************)
EXTENDS Integers, FiniteSets

CONSTANTS
    Peers,      \* the peers of the overview
    Rows,       \* the rows of `shared`
    RowsOf,     \* those that a peer has
    MaxOps,     \* bound: operations of which something is under way at once
    MaxRetries, \* max_retries of the tasks
    UseQueue,   \* ETL_USE_CELERY
    None        \* null: no conflict, no response, no report

ASSUME PageAssumption ==
    /\ RowsOf \in [Peers -> SUBSET Rows]
    /\ MaxOps \in Nat /\ MaxRetries \in Nat
    /\ UseQueue \in BOOLEAN

Categories == {"main", "shared"}
Kinds == {"pull", "answer", "package"}
Operations == 1..MaxOps

\* What is posted: ETLUIPullCategoryView and ETLUIResolveConflictView read
\* these fields; `row` is the conflict answered and `decision` the button.
Requests == [peer : Peers, category : Categories, force : SUBSET Rows,
             keep : SUBSET Rows, row : Rows \cup {None},
             decision : {None, "keep_local", "apply_remote"}]

Workflows == [peer : Peers, category : Categories, force : SUBSET Rows,
              keep : SUBSET Rows]

Conflicts == [row : Rows, peer : Peers]

\* null is none of the values that stand beside it.
ASSUME NoneAssumption ==
    /\ None \notin Workflows /\ None \notin Conflicts
    /\ None \notin {"pull", "answer", "package", "waiting", "polling", "over",
                    "done", "conflict", "failed", "handling", "running",
                    "queued", "SUCCESS", "FAILURE", "lost"}

VARIABLES
    \* the page
    workflow,   \* etlConflictWorkflow, or None
    active,     \* etlActiveConflict: its row and, history only, its peer
    pending,    \* etlPendingOperations
    ordered,    \* history only: rows that the operator has said, in the workflow
                \* that is under way, to take from a peer
    \* operations
    kind, at, outcome,
    \* the site
    request,    \* what was posted, while a handler or a task has it
    srv,        \* the handler of the request
    task,       \* the queued task: its state, as a page that polls it reads it
    tries,      \* self.request.retries, while the task is queued
    mandate,    \* history only: what was ordered when an answer was posted
    \* the data
    differs,    \* peer -> rows on which a pull from it would conflict
    carried     \* history only: the operations whose import was committed

pageVars == <<workflow, active, pending, ordered>>
opVars == <<kind, at, outcome>>
siteVars == <<request, srv, task, tries, mandate>>
dataVars == <<differs, carried>>
vars == <<pageVars, opVars, siteVars, dataVars>>

TypeOK ==
    /\ workflow \in Workflows \cup {None}
    /\ active \in Conflicts \cup {None}
    /\ pending \in Nat
    /\ ordered \in SUBSET (Peers \X Rows)
    /\ kind \in [Operations -> Kinds \cup {None}]
    /\ request \in [Operations -> Requests \cup {None}]
    /\ at \in [Operations -> {None, "waiting", "polling", "over"}]
    /\ outcome \in [Operations -> {None, "done", "conflict", "failed"}]
    /\ srv \in [Operations -> {None, "handling", "running", "over"}]
    /\ task \in [Operations -> {None, "queued", "SUCCESS", "FAILURE", "lost"}]
    /\ tries \in [Operations -> 0..MaxRetries]
    /\ differs \in [Peers -> SUBSET Rows]
    /\ mandate \in [Operations -> SUBSET (Peers \X Rows)]
    /\ carried \in SUBSET Operations

Init ==
    /\ workflow = None /\ active = None /\ pending = 0
    /\ kind = [o \in Operations |-> None]
    /\ request = [o \in Operations |-> None]
    /\ at = [o \in Operations |-> None]
    /\ outcome = [o \in Operations |-> None]
    /\ srv = [o \in Operations |-> None]
    /\ task = [o \in Operations |-> None]
    /\ tries = [o \in Operations |-> 0]
    /\ differs \in {d \in [Peers -> SUBSET Rows] : \A p \in Peers : d[p] \subseteq RowsOf[p]}
    /\ mandate = [o \in Operations |-> {}]
    /\ carried = {}
    /\ ordered = {}

-----------------------------------------------------------------------------
(* The busy state.  Every operation begins and ends one; the controls are     *)
(* disabled while any is under way.                                           *)

\* etlPendingOperations > 0 disables every control that is in the document.
Idle == pending = 0

Begin == pending' = pending + 1

End == pending' = IF pending = 0 THEN 0 ELSE pending - 1

Running(o) == at[o] \in {"waiting", "polling"}

-----------------------------------------------------------------------------
(* The operator                                                              *)

\* Nothing of an operation is under way any more, or it was never started: its
\* number stands for another one.
Free(o) == at[o] \in {None, "over"} /\ srv[o] \in {None, "over"}
              /\ task[o] # "queued"

\* ETLUIResolveConflictView and ETLUIPeerManuscriptsView have no queue.
Queued == {"pull", "package"}

Post(o, k, r) ==
    /\ Free(o) /\ \A p \in 1..(o - 1) : ~Free(p)
    /\ kind' = [kind EXCEPT ![o] = k]
    /\ request' = [request EXCEPT ![o] = r]
    /\ at' = [at EXCEPT ![o] = "waiting"]
    /\ srv' = [srv EXCEPT ![o] = IF k \in Queued THEN "handling" ELSE "running"]
    /\ outcome' = [outcome EXCEPT ![o] = None]
    /\ task' = [task EXCEPT ![o] = None]
    /\ mandate' = [mandate EXCEPT ![o] = IF k = "answer" THEN ordered' ELSE {}]
    /\ carried' = carried \ {o}
    /\ Begin
    /\ UNCHANGED <<tries, differs>>

\* A pull posts the lists of its workflow, as an answer does.
PullOf(w) == [peer |-> w.peer, category |-> w.category, force |-> w.force,
              keep |-> w.keep, row |-> None, decision |-> None]

\* Variant: the lists of the workflow before are taken over.
FreshWorkflow_KeepsLists(p, c) ==
    [peer |-> p, category |-> c,
     force |-> IF workflow = None THEN {} ELSE workflow.force,
     keep |-> IF workflow = None THEN {} ELSE workflow.keep]

FreshWorkflow(p, c) == [peer |-> p, category |-> c, force |-> {}, keep |-> {}]

\* triggerCategoryPull, up to its request.  The peer is the one selected by
\* then (getSelectedPeer); the selection has no other use.
StartPull(o, c, p) ==
    /\ Idle
    /\ workflow' = FreshWorkflow(p, c)
    /\ active' = None /\ ordered' = {}
    /\ Post(o, "pull", PullOf(FreshWorkflow(p, c)))

\* triggerManuscriptPull.  renderETLBusyState disables the Import buttons it
\* finds in the document; those of the other pages of the table are not in it,
\* so a package can be imported while another operation is under way.
StartPackage(o) ==
    /\ UNCHANGED <<workflow, active, ordered>>
    /\ Post(o, "package", None)

\* resolveActiveConflict, up to its request
Answer(o, d) ==
    /\ Idle /\ active # None /\ workflow # None
    /\ ordered' = IF d = "apply_remote"
                  THEN ordered \cup {<<active.peer, active.row>>}
                  ELSE ordered \ {<<active.peer, active.row>>}
    /\ Post(o, "answer",
            [peer |-> workflow.peer, category |-> workflow.category,
             force |-> workflow.force, keep |-> workflow.keep,
             row |-> active.row, decision |-> d])
    /\ UNCHANGED <<workflow, active>>

\* clearActiveConflict, with resetWorkflow
Forget == workflow' = None /\ active' = None /\ ordered' = {}

\* Variant: the Close button is not among the controls that are disabled.
CloseEnabled_Always == TRUE

CloseEnabled == Idle

\* The Close and Discard buttons of the conflict panel
CloseConflict ==
    /\ CloseEnabled /\ active # None
    /\ Forget
    /\ UNCHANGED <<pending, opVars, siteVars, dataVars>>

\* An edit on either side after which a row conflicts with a peer.
Edit(p, r) ==
    /\ r \in RowsOf[p] \ differs[p]
    /\ differs' = [differs EXCEPT ![p] = @ \cup {r}]
    /\ UNCHANGED <<carried, pageVars, opVars, siteVars>>

-----------------------------------------------------------------------------
(* What a request asks for                                                   *)

Row(o) == {request[o].row} \ {None}

\* The lists that were posted, with the decision of this answer
\* (resolve_shared_conflict)
Forced(o) == IF request[o].decision = "apply_remote"
             THEN request[o].force \cup Row(o)
             ELSE request[o].force \ Row(o)
Kept(o) == IF request[o].decision = "keep_local"
           THEN request[o].keep \cup Row(o)
           ELSE request[o].keep \ Row(o)

\* Rows that stop a pull, of `main` too, which preloads `shared`
Stopping(o) ==
    IF kind[o] = "package" THEN {}
    ELSE differs[request[o].peer] \ (Forced(o) \cup Kept(o))

Refused(o) == kind[o] = "answer" /\ request[o].category # "shared"

-----------------------------------------------------------------------------
(* The page: how it goes on when its request is answered                     *)

\* Variant: the return of a conflict leaves the busy state as it is.
Finish_EarlyReturn(o, result) ==
    /\ at' = [at EXCEPT ![o] = "over"]
    /\ outcome' = [outcome EXCEPT ![o] = result]
    /\ IF result = "conflict" THEN UNCHANGED pending ELSE End
    /\ UNCHANGED kind

Finish(o, result) ==
    /\ at' = [at EXCEPT ![o] = "over"]
    /\ outcome' = [outcome EXCEPT ![o] = result]
    /\ End
    /\ UNCHANGED kind

\* logCategoryPullSummary, logManuscriptPullSummary and resolveActiveConflict:
\* a completed pull or answer ends the workflow, a package does not touch it.
Completed(o) ==
    /\ IF kind[o] \in {"pull", "answer"} THEN Forget
       ELSE UNCHANGED <<workflow, active, ordered>>
    /\ Finish(o, "done")

\* A pull that fails ends the workflow; after a failed answer it is still there.
Failed(o) ==
    /\ IF kind[o] = "pull" THEN Forget
       ELSE UNCHANGED <<workflow, active, ordered>>
    /\ Finish(o, "failed")

\* updateConflictWorkflowFromPayload: only an answer's conflict carries lists,
\* those of resolve_shared_conflict; otherwise the page's stay as they are.
Updated(o) ==
    IF workflow = None THEN None
    ELSE IF kind[o] = "answer"
    THEN [workflow EXCEPT !.force = Forced(o), !.keep = Kept(o)]
    ELSE workflow

Stopped(o, r) ==
    /\ workflow' = Updated(o)
    /\ active' = [row |-> r, peer |-> request[o].peer]
    /\ Finish(o, "conflict")
    /\ UNCHANGED ordered

\* handleCategoryPullResponse, handleManuscriptPullResponse: a task to poll
Polls(o) ==
    /\ at' = [at EXCEPT ![o] = "polling"]
    /\ UNCHANGED <<kind, outcome, pageVars>>

\* A response finds a page that waits for it, or is dropped.
Reaches(o, Continuation) ==
    IF at[o] = "waiting" THEN Continuation ELSE UNCHANGED <<pageVars, opVars>>

\* etlFetchJson throws though the handler or the task goes on: the connection
\* is lost, a gateway times out, the session of a poll has expired.
LoseAnswer(o) ==
    /\ Running(o)
    /\ Failed(o)
    /\ UNCHANGED <<siteVars, dataVars>>

\* Variant: a task that is ready has succeeded.
PollEnds_WhenReady(o) ==
    /\ at[o] = "polling" /\ task[o] \in {"SUCCESS", "FAILURE"}
    /\ Completed(o)
    /\ UNCHANGED <<siteVars, dataVars>>

\* Variant: the loop does not know of failures.
PollEnds_OnSuccess(o) ==
    /\ at[o] = "polling" /\ task[o] = "SUCCESS"
    /\ Completed(o)
    /\ UNCHANGED <<siteVars, dataVars>>

\* pollETLTask: any other status is another turn of its loop.
PollEnds(o) ==
    /\ at[o] = "polling"
    /\ \/ task[o] = "SUCCESS" /\ Completed(o)
       \/ task[o] = "FAILURE" /\ Failed(o)
    /\ UNCHANGED <<siteVars, dataVars>>

-----------------------------------------------------------------------------
(* The site: a request is queued, or run by its handler                       *)

\* pull_remote_category or pull_remote_manuscript, one transaction
Commit(o) ==
    /\ Stopping(o) = {} /\ ~Refused(o)
    /\ differs' = IF kind[o] = "package" THEN differs
                  ELSE [differs EXCEPT ![request[o].peer] = @ \ Forced(o)]
    /\ carried' = carried \cup {o}

\* _queue_or_run_etl_task: the broker takes the task
Enqueue(o) ==
    /\ srv[o] = "handling" /\ UseQueue
    /\ srv' = [srv EXCEPT ![o] = "over"]
    /\ task' = [task EXCEPT ![o] = "queued"]
    /\ Reaches(o, Polls(o))
    /\ UNCHANGED <<request, tries, mandate, dataVars>>

\* _queue_or_run_etl_task: apply_async raises, before or after the broker took
\* the message, or there is no queue; the handler goes on itself.
FallBack(o) ==
    /\ srv[o] = "handling"
    /\ srv' = [srv EXCEPT ![o] = "running"]
    /\ \/ UNCHANGED task
       \/ UseQueue /\ task' = [task EXCEPT ![o] = "queued"]
    /\ UNCHANGED <<request, tries, mandate, pageVars, opVars, dataVars>>

Respond(o, Continuation) ==
    /\ srv' = [srv EXCEPT ![o] = "over"]
    /\ request' = [request EXCEPT ![o] = IF task[o] = "queued" THEN @ ELSE None]
    /\ mandate' = [mandate EXCEPT ![o] = {}]
    /\ Reaches(o, Continuation)
    /\ UNCHANGED <<task, tries>>

RunToEnd(o) ==
    /\ srv[o] = "running"
    /\ Commit(o) /\ Respond(o, Completed(o))

\* ETLImportConflictError: the view answers 409 with the conflict.
RunToConflict(o) ==
    /\ srv[o] = "running" /\ ~Refused(o)
    /\ \E r \in Stopping(o) : Respond(o, Stopped(o, r))
    /\ UNCHANGED dataVars

\* A peer that does not answer, a rollback, a category that cannot be resolved
RunToError(o) ==
    /\ srv[o] = "running"
    /\ Respond(o, Failed(o))
    /\ UNCHANGED dataVars

-----------------------------------------------------------------------------
(* The worker.  A task is "queued" until the result backend has its outcome:  *)
(* the status that the page reads is PENDING or RETRY.  The outcome of a task *)
(* that no page polls is never read.                                          *)

EndTask(o, s) ==
    /\ task' = [task EXCEPT ![o] = IF at[o] = "polling" THEN s ELSE None]
    /\ tries' = [tries EXCEPT ![o] = 0]
    /\ request' = [request EXCEPT ![o] = IF srv[o] = "over" THEN None ELSE @]

Succeed(o) ==
    /\ task[o] = "queued"
    /\ Commit(o)
    /\ EndTask(o, "SUCCESS")
    /\ UNCHANGED <<srv, mandate, pageVars, opVars>>

\* self.retry(countdown=60, max_retries=3, exc=exc): a conflict is an exception
\* like any other, and the last one is what the result backend keeps.
Retry(o) ==
    /\ task[o] = "queued"
    /\ IF tries[o] < MaxRetries
       THEN tries' = [tries EXCEPT ![o] = @ + 1] /\ UNCHANGED <<task, request>>
       ELSE EndTask(o, "FAILURE")
    /\ UNCHANGED <<srv, mandate, pageVars, opVars, dataVars>>

\* A message is acknowledged before it is run: a task that is cut off, before
\* its commit or after, is not delivered again, and its status stays PENDING.
WorkerDies(o) ==
    /\ task[o] = "queued"
    /\ EndTask(o, "lost")
    /\ Commit(o) \/ UNCHANGED dataVars
    /\ UNCHANGED <<srv, mandate, pageVars, opVars>>

-----------------------------------------------------------------------------
Operator ==
    \/ \E o \in Operations :
          \/ \E c \in Categories, p \in Peers : StartPull(o, c, p)
          \/ StartPackage(o)
          \/ \E d \in {"keep_local", "apply_remote"} : Answer(o, d)
    \/ CloseConflict
    \/ \E p \in Peers : \E r \in Rows : Edit(p, r)

Serve(o) == Enqueue(o) \/ FallBack(o) \/ RunToEnd(o) \/ RunToConflict(o)
               \/ RunToError(o)

Work(o) == Succeed(o) \/ Retry(o)

Next ==
    \/ Operator
    \/ \E o \in Operations :
          Serve(o) \/ Work(o) \/ WorkerDies(o) \/ PollEnds(o) \/ LoseAnswer(o)

Spec == Init /\ [][Next]_vars

\* What is under way of an operation goes on: its handler, its task while the
\* worker lives, the polling.  Nothing is assumed to succeed, and nothing of the
\* operator.
Fairness == \A o \in Operations : WF_vars(Serve(o) \/ Work(o) \/ PollEnds(o))

FairSpec == Spec /\ Fairness

-----------------------------------------------------------------------------
(* Properties                                                                *)

\* The conflict on display belongs to the workflow that the next answer posts:
\* there is one, and it is with the peer that the conflict is with.  Operations
\* overlap, and only the disabling of the controls while one is under way keeps
\* a second pull, a Close or another peer out of a request's continuation.
ConflictHasWorkflow ==
    active # None => workflow # None /\ workflow.peer = active.peer

\* The page is busy exactly while an operation it started has not ended, however
\* operations overlap and whichever way they end (etlPendingOperations).
BusyWhileRunning == pending = Cardinality({o \in Operations : Running(o)})

\* A row that differs from a peer's is replaced only by an answer in whose
\* workflow the operator had last said of this row and this peer that the remote
\* one applies: no list of decisions outlives its workflow, or is used with
\* another peer.  An answer that goes on behind a lost connection acts on what
\* was ordered when it was posted, though its workflow be closed by then.
RowsReplacedOnOrder ==
    [][\A p \in Peers : \A r \in differs[p] \ differs'[p] :
          \E o \in Operations : <<p, r>> \in mandate[o] /\ Commit(o)]_vars

\* What the page tells of an operation, PullRequest states: one report, and
\* "done" only of what has been done, whether by the handler or by a worker.
Contract == INSTANCE PullRequest WITH
    Requests <- Operations, None <- None,
    asked <- {o \in Operations : at[o] # None},
    carriedOut <- carried,
    told <- outcome
OneReport == Contract!Spec

\* The page stops waiting for every operation it started, unless a worker died
\* with the task.
PageHearsBack ==
    \A o \in Operations : Running(o) ~> (~Running(o) \/ task[o] = "lost")
=============================================================================
