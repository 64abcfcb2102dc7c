--------------------------- MODULE EtlPage_proofs ---------------------------
(***************************************************************************)
(* Theorems about EtlPage, for every value of its constants: any peers and  *)
(* rows, any number of operations at once, any number of retries.           *)
(***************************************************************************)
EXTENDS EtlPage, FiniteSetTheorems, TLAPS

----------------------------------------------------------------------------
(* Type correctness.                                                       *)

\* A handler or a worker has the operation.
Active(o) == srv[o] \in {"handling", "running"} \/ task[o] = "queued"

\* Inductive with TypeOK: what is worked on was asked for.
Requested ==
    \A o \in Operations :
        Active(o) => /\ kind[o] \in Kinds
                     /\ kind[o] # "package" => request[o] \in Requests

LEMMA InitTypes == Init => TypeOK /\ Requested
BY PageAssumption, NoneAssumption DEF Init, TypeOK, Requested, Active

\* The lists of an answer are rows.
LEMMA ListsAreRows ==
    ASSUME NEW o \in Operations, request[o] \in Requests
    PROVE  /\ Forced(o) \in SUBSET Rows
           /\ Kept(o) \in SUBSET Rows
           /\ request[o].peer \in Peers
BY DEF Forced, Kept, Row, Requests

LEMMA PostTypes ==
    ASSUME TypeOK, Requested, NEW o \in Operations, NEW k \in Kinds,
           NEW r \in Requests \cup {None}, k # "package" => r \in Requests,
           Post(o, k, r),
           workflow' \in Workflows \cup {None}, active' \in Conflicts \cup {None},
           ordered' \in SUBSET (Peers \X Rows)
    PROVE  TypeOK' /\ Requested'
<1>1. TypeOK'
  BY DEF TypeOK, Post, Begin
<1>2. Requested'
  BY NoneAssumption DEF TypeOK, Requested, Active, Post
<1>3. QED
  BY <1>1, <1>2

LEMMA OperatorTypes ==
    ASSUME TypeOK, Requested, Operator
    PROVE  TypeOK' /\ Requested'
<1>1. ASSUME NEW o \in Operations, NEW c \in Categories, NEW p \in Peers,
             StartPull(o, c, p)
      PROVE  TypeOK' /\ Requested'
  <2>1. FreshWorkflow(p, c) \in Workflows /\ PullOf(FreshWorkflow(p, c)) \in Requests
    BY DEF PullOf, FreshWorkflow, Requests, Workflows
  <2>2. QED
    BY <1>1, <2>1, PostTypes DEF StartPull, TypeOK, Kinds
<1>2. ASSUME NEW o \in Operations, StartPackage(o)
      PROVE  TypeOK' /\ Requested'
  BY <1>2, PostTypes DEF StartPackage, TypeOK, Kinds
<1>3. ASSUME NEW o \in Operations, NEW d \in {"keep_local", "apply_remote"},
             Answer(o, d)
      PROVE  TypeOK' /\ Requested'
  <2> DEFINE r == [peer |-> workflow.peer, category |-> workflow.category,
                   force |-> workflow.force, keep |-> workflow.keep,
                   row |-> active.row, decision |-> d]
  <2>1. workflow \in Workflows /\ active \in Conflicts
    BY <1>3 DEF Answer, TypeOK
  <2>2. r \in Requests
    BY <2>1 DEF Workflows, Conflicts, Requests
  <2>3. ordered' \in SUBSET (Peers \X Rows)
    BY <1>3, <2>1 DEF Answer, TypeOK, Conflicts
  <2>4. Post(o, "answer", r)
    BY <1>3 DEF Answer
  <2>5. workflow' = workflow /\ active' = active
    BY <1>3 DEF Answer
  <2> HIDE DEF r
  <2>6. QED
    BY <2>2, <2>3, <2>4, <2>5, PostTypes DEF TypeOK, Kinds
<1>4. CASE CloseConflict
  <2>1. workflow' = None /\ active' = None /\ ordered' = {}
    BY <1>4 DEF CloseConflict, Forget
  <2>2. UNCHANGED <<pending, opVars, siteVars, dataVars>>
    BY <1>4 DEF CloseConflict
  <2>3. QED
    BY <2>1, <2>2 DEF TypeOK, Requested, Active, opVars, siteVars, dataVars
<1>5. ASSUME NEW p \in Peers, NEW r \in Rows, Edit(p, r)
      PROVE  TypeOK' /\ Requested'
  BY <1>5 DEF Edit, TypeOK, Requested, Active, pageVars, opVars, siteVars
<1>6. QED
  BY <1>1, <1>2, <1>3, <1>4, <1>5 DEF Operator

\* How the page goes on keeps its types.
LEMMA FinishTypes ==
    ASSUME TypeOK, NEW o \in Operations, NEW r \in {"done", "conflict", "failed"},
           Finish(o, r)
    PROVE  /\ pending' \in Nat /\ kind' = kind
           /\ at' \in [Operations -> {None, "waiting", "polling", "over"}]
           /\ outcome' \in [Operations -> {None, "done", "conflict", "failed"}]
BY DEF TypeOK, Finish, End

\* The types of what the page keeps.
PageTypes ==
    /\ workflow \in Workflows \cup {None}
    /\ active \in Conflicts \cup {None}
    /\ pending \in Nat
    /\ ordered \in SUBSET (Peers \X Rows)
    /\ kind \in [Operations -> Kinds \cup {None}]
    /\ at \in [Operations -> {None, "waiting", "polling", "over"}]
    /\ outcome \in [Operations -> {None, "done", "conflict", "failed"}]

LEMMA ContinueTypes ==
    ASSUME TypeOK, NEW o \in Operations, Completed(o) \/ Failed(o) \/ Polls(o)
    PROVE  PageTypes' /\ kind' = kind
<1>1. CASE Completed(o)
  BY <1>1, FinishTypes DEF Completed, Forget, TypeOK, PageTypes
<1>2. CASE Failed(o)
  BY <1>2, FinishTypes DEF Failed, Forget, TypeOK, PageTypes
<1>3. CASE Polls(o)
  BY <1>3 DEF Polls, pageVars, TypeOK, PageTypes
<1>4. QED
  BY <1>1, <1>2, <1>3

LEMMA StoppedTypes ==
    ASSUME TypeOK, NEW o \in Operations, NEW r \in Rows, request[o] \in Requests,
           Stopped(o, r)
    PROVE  PageTypes' /\ kind' = kind
<1>1. Updated(o) \in Workflows \cup {None}
  BY ListsAreRows DEF Updated, TypeOK, Workflows
<1>2. [row |-> r, peer |-> request[o].peer] \in Conflicts
  BY ListsAreRows DEF Conflicts
<1>3. QED
  BY <1>1, <1>2, FinishTypes DEF Stopped, TypeOK, PageTypes

\* The rows a pull can stop at are rows, and a package stops at none.
LEMMA StoppingRows ==
    ASSUME TypeOK, Requested, NEW o \in Operations, Active(o)
    PROVE  /\ Stopping(o) \in SUBSET Rows
           /\ Stopping(o) # {} => kind[o] # "package" /\ request[o] \in Requests
<1>1. kind[o] \in Kinds
  BY DEF Requested
<1>2. CASE kind[o] = "package"
  BY <1>2 DEF Stopping
<1>3. CASE kind[o] # "package"
  <2>1. request[o] \in Requests /\ request[o].peer \in Peers
    BY <1>3, ListsAreRows DEF Requested
  <2>2. differs[request[o].peer] \in SUBSET Rows
    BY <2>1 DEF TypeOK
  <2>3. QED
    BY <1>1, <1>3, <2>1, <2>2 DEF Stopping, Kinds
<1>4. QED
  BY <1>2, <1>3

LEMMA CommitTypes ==
    ASSUME TypeOK, Requested, NEW o \in Operations, Active(o), Commit(o)
    PROVE  /\ differs' \in [Peers -> SUBSET Rows]
           /\ carried' \in SUBSET Operations
<1>1. kind[o] # "package" => request[o] \in Requests
  BY DEF Requested
<1>2. QED
  BY <1>1, ListsAreRows DEF TypeOK, Commit

\* What a step of the site does to its own state.
LEMMA SiteTypes ==
    ASSUME TypeOK, Requested, NEW o \in Operations, PageTypes', kind' = kind,
           srv' \in [Operations -> {None, "handling", "running", "over"}],
           task' \in [Operations -> {None, "queued", "SUCCESS", "FAILURE", "lost"}],
           tries' \in [Operations -> 0..MaxRetries],
           request' \in {request, [request EXCEPT ![o] = None]},
           request'[o] # request[o] => ~Active(o)',
           \A q \in Operations : Active(q)' => Active(q),
           differs' \in [Peers -> SUBSET Rows], carried' \in SUBSET Operations,
           mandate' \in {mandate, [mandate EXCEPT ![o] = {}]}
    PROVE  TypeOK' /\ Requested'
<1>1. request' \in [Operations -> Requests \cup {None}]
  BY DEF TypeOK
<1>2. \A q \in Operations : Active(q)' => request'[q] = request[q]
  BY DEF TypeOK
<1>3. QED
  BY <1>1, <1>2 DEF TypeOK, PageTypes, Requested

LEMMA ServeTypes ==
    ASSUME TypeOK, Requested, NEW o \in Operations, Serve(o)
    PROVE  TypeOK' /\ Requested'
<1>0. TypeOK /\ Active(o) /\ PageTypes
      /\ differs \in [Peers -> SUBSET Rows] /\ carried \in SUBSET Operations
  BY DEF Serve, Enqueue, FallBack, RunToEnd, RunToConflict, RunToError, Active,
         TypeOK, PageTypes
<1>1. CASE Enqueue(o)
  <2>1. PageTypes' /\ kind' = kind
    BY <1>0, <1>1, ContinueTypes DEF Enqueue, Reaches, pageVars, opVars, PageTypes
  <2>2. QED
    BY <1>0, <1>1, <2>1, SiteTypes, NoneAssumption DEF Enqueue, dataVars, TypeOK, Active
<1>2. CASE FallBack(o)
  <2>1. PageTypes' /\ kind' = kind
    BY <1>0, <1>2 DEF FallBack, pageVars, opVars, PageTypes
  <2>2. QED
    BY <1>0, <1>2, <2>1, SiteTypes, NoneAssumption DEF FallBack, dataVars, TypeOK, Active
<1>3. CASE RunToEnd(o)
  <2>1. PageTypes' /\ kind' = kind
    BY <1>0, <1>3, ContinueTypes DEF RunToEnd, Respond, Reaches, pageVars, opVars, PageTypes
  <2>2. QED
    BY <1>0, <1>3, <2>1, SiteTypes, CommitTypes, NoneAssumption
       DEF RunToEnd, Respond, TypeOK, Active
<1>4. CASE RunToConflict(o)
  <2>1. PICK r \in Rows : Respond(o, Stopped(o, r))
    BY <1>0, <1>4, StoppingRows DEF RunToConflict
  <2>2. request[o] \in Requests
    BY <1>0, <1>4, StoppingRows DEF RunToConflict
  <2>3. PageTypes' /\ kind' = kind
    BY <1>0, <2>1, <2>2, StoppedTypes DEF Respond, Reaches, pageVars, opVars, PageTypes
  <2>4. QED
    BY <1>0, <1>4, <2>1, <2>3, SiteTypes, NoneAssumption
       DEF RunToConflict, Respond, dataVars, TypeOK, Active
<1>5. CASE RunToError(o)
  <2>1. PageTypes' /\ kind' = kind
    BY <1>0, <1>5, ContinueTypes DEF RunToError, Respond, Reaches, pageVars, opVars, PageTypes
  <2>2. QED
    BY <1>0, <1>5, <2>1, SiteTypes, NoneAssumption
       DEF RunToError, Respond, dataVars, TypeOK, Active
<1>6. QED
  BY <1>1, <1>2, <1>3, <1>4, <1>5 DEF Serve

LEMMA WorkTypes ==
    ASSUME TypeOK, Requested, NEW o \in Operations, Work(o) \/ WorkerDies(o)
    PROVE  TypeOK' /\ Requested'
<1>0. /\ Active(o) /\ task[o] = "queued"
      /\ PageTypes' /\ kind' = kind /\ srv' = srv
      /\ differs \in [Peers -> SUBSET Rows] /\ carried \in SUBSET Operations
  BY DEF Work, Succeed, Retry, WorkerDies, Active, TypeOK, PageTypes, pageVars, opVars
<1>1. ASSUME NEW s \in {"SUCCESS", "FAILURE", "lost"}, EndTask(o, s),
             \/ Commit(o)
             \/ UNCHANGED dataVars
      PROVE  TypeOK' /\ Requested'
  <2>1. /\ differs' \in [Peers -> SUBSET Rows]
        /\ carried' \in SUBSET Operations
    BY <1>0, <1>1, CommitTypes DEF dataVars
  <2>2. /\ task' \in [Operations -> {None, "queued", "SUCCESS", "FAILURE", "lost"}]
        /\ tries' \in [Operations -> 0..MaxRetries]
        /\ task'[o] # "queued"
    BY <1>1, PageAssumption, NoneAssumption DEF EndTask, TypeOK
  <2>3. /\ request' \in {request, [request EXCEPT ![o] = None]}
        /\ request'[o] # request[o] => ~Active(o)'
    BY <1>0, <1>1, <2>2, NoneAssumption DEF EndTask, TypeOK, Active
  <2>4. \A q \in Operations : Active(q)' => Active(q)
    BY <1>0, <1>1 DEF EndTask, TypeOK, Active
  <2>5. mandate' = mandate /\ srv' \in [Operations -> {None, "handling", "running", "over"}]
    BY <1>0 DEF Work, Succeed, Retry, WorkerDies, TypeOK
  <2>6. QED
    BY <1>0, <2>1, <2>2, <2>3, <2>4, <2>5, SiteTypes
<1>2. CASE Retry(o) /\ tries[o] < MaxRetries
  <2>1. tries' \in [Operations -> 0..MaxRetries]
    BY <1>2, PageAssumption DEF Retry, TypeOK
  <2>2. QED
    BY <1>0, <1>2, <2>1, SiteTypes DEF Retry, dataVars, TypeOK, Active
<1>3. QED
  BY <1>1, <1>2 DEF Work, Succeed, Retry, WorkerDies

LEMMA NextTypes == TypeOK /\ Requested /\ [Next]_vars => TypeOK' /\ Requested'
<1> SUFFICES ASSUME TypeOK, Requested, [Next]_vars PROVE TypeOK' /\ Requested'
  OBVIOUS
<1>1. CASE UNCHANGED vars
  BY <1>1 DEF vars, pageVars, opVars, siteVars, dataVars, TypeOK, Requested, Active
<1>2. ASSUME NEW o \in Operations, PollEnds(o) \/ LoseAnswer(o)
      PROVE  TypeOK' /\ Requested'
  <2>1. PageTypes' /\ kind' = kind
    BY <1>2, ContinueTypes DEF PollEnds, LoseAnswer
  <2>2. QED
    BY <1>2, <2>1, SiteTypes DEF PollEnds, LoseAnswer, siteVars, dataVars, TypeOK, Active
<1>3. QED
  BY <1>1, <1>2, OperatorTypes, ServeTypes, WorkTypes DEF Next

\* Every reachable state has its types.
THEOREM TypeCorrect == Spec => []TypeOK
BY InitTypes, NextTypes, PTL DEF Spec

----------------------------------------------------------------------------
(* What a step that is not the operator's does to the page.                *)

\* An operation ends for the page, with one of the three results.
Ends(o) == /\ Running(o)
           /\ \/ Completed(o) \/ Failed(o)
              \/ /\ Active(o) /\ kind[o] # "package" /\ request[o] \in Requests
                 /\ \E r \in Rows \cap Stopping(o) : Stopped(o, r)

\* The page is left alone, or polls, or an operation ends.
PageStep == \/ UNCHANGED <<pageVars, opVars>>
            \/ \E o \in Operations : srv[o] = "handling" /\ at[o] = "waiting" /\ Polls(o)
            \/ \E o \in Operations : Ends(o)

\* What is worked on was worked on before, for the same request.
SiteStep == \A q \in Operations :
                Active(q)' => Active(q) /\ request'[q] = request[q]

LEMMA ServeSteps ==
    ASSUME TypeOK, Requested, NEW o \in Operations, Serve(o)
    PROVE  PageStep /\ SiteStep
<1>1. CASE Enqueue(o)
  BY <1>1, NoneAssumption DEF Enqueue, Reaches, PageStep, SiteStep, Active, TypeOK
<1>2. CASE FallBack(o)
  BY <1>2, NoneAssumption DEF FallBack, PageStep, SiteStep, Active, TypeOK
<1>3. ASSUME srv[o] = "running", Respond(o, PageStep) PROVE PageStep /\ SiteStep
  <2>1. PageStep
    BY <1>3 DEF Respond, Reaches, PageStep
  <2>2. SiteStep
    BY <1>3, NoneAssumption DEF Respond, SiteStep, Active, TypeOK
  <2>3. QED
    BY <2>1, <2>2
<1>4. CASE RunToEnd(o) \/ RunToError(o)
  <2>1. srv[o] = "running" /\ (Respond(o, Completed(o)) \/ Respond(o, Failed(o)))
    BY <1>4 DEF RunToEnd, RunToError
  <2>2. Respond(o, PageStep)
    BY <2>1 DEF Respond, Reaches, PageStep, Ends, Running
  <2>3. QED
    BY <1>3, <2>1, <2>2
<1>5. CASE RunToConflict(o)
  <2>1. Active(o)
    BY <1>5 DEF RunToConflict, Active
  <2>2. /\ \E r \in Rows \cap Stopping(o) : Respond(o, Stopped(o, r))
        /\ srv[o] = "running" /\ kind[o] # "package" /\ request[o] \in Requests
    BY <1>5, <2>1, StoppingRows DEF RunToConflict
  <2>3. Respond(o, PageStep)
    BY <2>1, <2>2 DEF Respond, Reaches, PageStep, Ends, Running
  <2>4. QED
    BY <1>3, <2>2, <2>3
<1>6. QED
  BY <1>1, <1>2, <1>4, <1>5 DEF Serve

LEMMA WorkSteps ==
    ASSUME TypeOK, Requested, NEW o \in Operations,
           Work(o) \/ WorkerDies(o) \/ PollEnds(o) \/ LoseAnswer(o)
    PROVE  PageStep /\ SiteStep
<1>1. CASE Work(o) \/ WorkerDies(o)
  <2>1. PageStep
    BY <1>1 DEF Work, Succeed, Retry, WorkerDies, PageStep
  <2>2. SiteStep
    BY <1>1, NoneAssumption
       DEF Work, Succeed, Retry, WorkerDies, EndTask, SiteStep, Active, TypeOK
  <2>3. QED
    BY <2>1, <2>2
<1>2. CASE PollEnds(o) \/ LoseAnswer(o)
  BY <1>2 DEF PollEnds, LoseAnswer, Running, PageStep, Ends, SiteStep, Active, siteVars
<1>3. QED
  BY <1>1, <1>2

----------------------------------------------------------------------------
(* The busy state.                                                         *)

Underway == {o \in Operations : Running(o)}

LEMMA UnderwayFinite == IsFiniteSet(Underway) /\ Cardinality(Underway) \in Nat
<1>1. IsFiniteSet(Operations)
  BY PageAssumption, FS_Interval DEF Operations
<1>2. Underway \in SUBSET Operations
  BY DEF Underway
<1>3. IsFiniteSet(Underway)
  BY <1>1, <1>2, FS_Subset
<1>4. QED
  BY <1>3, FS_CardinalityType

LEMMA BusyInit == Init => BusyWhileRunning
<1> SUFFICES ASSUME Init PROVE BusyWhileRunning
  OBVIOUS
<1>1. Underway = {}
  BY NoneAssumption DEF Init, Underway, Running
<1>2. QED
  BY <1>1, FS_EmptySet DEF Init, BusyWhileRunning, Underway

LEMMA BusyPost ==
    ASSUME TypeOK, BusyWhileRunning, NEW o \in Operations, NEW k, NEW r, Post(o, k, r)
    PROVE  BusyWhileRunning'
<1>1. o \notin Underway
  BY NoneAssumption DEF Post, Free, Underway, Running
<1>2. Underway' = Underway \cup {o}
  BY DEF TypeOK, Post, Underway, Running
<1>3. QED
  BY <1>1, <1>2, UnderwayFinite, FS_AddElement DEF BusyWhileRunning, Underway, Post, Begin

LEMMA BusyFinish ==
    ASSUME TypeOK, BusyWhileRunning, NEW o \in Operations, NEW r, Running(o), Finish(o, r)
    PROVE  BusyWhileRunning'
<1>1. o \in Underway
  BY DEF Underway
<1>2. Underway' = Underway \ {o}
  BY DEF TypeOK, Finish, Underway, Running
<1>3. Cardinality(Underway) # 0
  BY <1>1, UnderwayFinite, FS_EmptySet
<1>4. QED
  BY <1>1, <1>2, <1>3, UnderwayFinite, FS_RemoveElement
     DEF BusyWhileRunning, Underway, Finish, End

LEMMA BusyPageStep ==
    ASSUME TypeOK, BusyWhileRunning, PageStep
    PROVE  BusyWhileRunning'
<1>1. ASSUME NEW o \in Operations, Ends(o) PROVE BusyWhileRunning'
  <2>1. Running(o) /\ \E r : Finish(o, r)
    BY <1>1 DEF Ends, Completed, Failed, Stopped
  <2>2. QED
    BY <2>1, BusyFinish
<1>2. ASSUME NEW o \in Operations, at[o] = "waiting", Polls(o) PROVE BusyWhileRunning'
  <2>1. Underway' = Underway /\ pending' = pending
    BY <1>2 DEF TypeOK, Polls, Underway, Running, pageVars
  <2>2. QED
    BY <2>1 DEF BusyWhileRunning, Underway
<1>3. CASE UNCHANGED <<pageVars, opVars>>
  <2>1. Underway' = Underway /\ pending' = pending
    BY <1>3 DEF Underway, Running, pageVars, opVars
  <2>2. QED
    BY <2>1 DEF BusyWhileRunning, Underway
<1>4. QED
  BY <1>1, <1>2, <1>3 DEF PageStep

LEMMA BusyNext ==
    TypeOK /\ Requested /\ BusyWhileRunning /\ [Next]_vars => BusyWhileRunning'
<1> SUFFICES ASSUME TypeOK, Requested, BusyWhileRunning, [Next]_vars
             PROVE  BusyWhileRunning'
  OBVIOUS
<1>1. ASSUME UNCHANGED <<at, pending>> PROVE BusyWhileRunning'
  <2>1. Underway' = Underway
    BY <1>1 DEF Underway, Running
  <2>2. QED
    BY <1>1, <2>1 DEF BusyWhileRunning, Underway
<1>2. CASE Operator
  <2>1. CASE CloseConflict \/ \E p \in Peers : \E r \in Rows : Edit(p, r)
    BY <1>1, <2>1 DEF CloseConflict, Edit, opVars, pageVars
  <2>2. ASSUME NEW o \in Operations, \E k, r : Post(o, k, r) PROVE BusyWhileRunning'
    BY <2>2, BusyPost
  <2>3. QED
    BY <1>2, <2>1, <2>2 DEF Operator, StartPull, StartPackage, Answer
<1>3. CASE UNCHANGED vars
  BY <1>1, <1>3 DEF vars, opVars, pageVars
<1>4. QED
  BY <1>2, <1>3, ServeSteps, WorkSteps, BusyPageStep DEF Next

\* The page is busy exactly while something it started has not ended: neither
\* an early return nor an answer that is lost leaves it disabled for ever, and
\* no operation that ends while others go on enables it.
THEOREM BusyIsExact == Spec => []BusyWhileRunning
BY InitTypes, NextTypes, BusyInit, BusyNext, PTL DEF Spec

----------------------------------------------------------------------------
(* The conflict on display.                                                *)

\* Inductive with the above: an operation that waits is worked on, answers are
\* not queued, ...
Attended ==
    \A o \in Operations :
        /\ at[o] = "waiting" => srv[o] \in {"handling", "running"}
        /\ kind[o] = "answer" => /\ at[o] # "polling" /\ srv[o] # "handling"
                                 /\ task[o] # "queued"
        /\ Running(o) => kind[o] \in Kinds

\* ... at most one operation under way can touch the workflow, ...
OneAtATime ==
    \A o, q \in Operations :
        Running(o) /\ Running(q) /\ kind[o] # "package" /\ kind[q] # "package" => o = q

\* ... which is there, and with the peer of the request, ...
Held ==
    \A o \in Operations :
        Running(o) /\ kind[o] # "package" =>
            workflow # None /\ (Active(o) => workflow.peer = request[o].peer)

PageInv == TypeOK /\ Requested /\ BusyWhileRunning /\ Attended /\ OneAtATime
             /\ Held /\ ConflictHasWorkflow

LEMMA PageInit == Init => PageInv
BY InitTypes, BusyInit, NoneAssumption
   DEF Init, PageInv, Attended, OneAtATime, Held, ConflictHasWorkflow, Running

\* Nothing is under way when the page is idle.
LEMMA IdleMeansNone ==
    ASSUME PageInv, Idle, NEW o \in Operations
    PROVE  ~Running(o)
<1>1. Underway = {}
  BY UnderwayFinite, FS_EmptySet DEF PageInv, BusyWhileRunning, Idle, Underway
<1>2. QED
  BY <1>1 DEF Underway

LEMMA PagePosts ==
    ASSUME PageInv, NEW o \in Operations, NEW k \in Kinds,
           NEW r \in Requests \cup {None}, Post(o, k, r),
           \/ k = "package" /\ workflow' = workflow
           \/ Idle /\ workflow' # None /\ workflow'.peer = r.peer
    PROVE  Attended' /\ OneAtATime' /\ Held'
<1>1. \A q \in Operations : Idle => ~Running(q)
  BY IdleMeansNone
<1>2. /\ Running(o)' /\ kind'[o] = k /\ request'[o] = r
      /\ \A q \in Operations : q # o =>
            /\ Running(q)' <=> Running(q)
            /\ Active(q)' <=> Active(q)
            /\ kind'[q] = kind[q] /\ request'[q] = request[q]
            /\ at'[q] = at[q] /\ srv'[q] = srv[q] /\ task'[q] = task[q]
  BY DEF PageInv, TypeOK, Post, Running, Active
<1>3. Attended'
  BY <1>2, NoneAssumption DEF PageInv, TypeOK, Attended, Post, Queued, Kinds
<1>4. OneAtATime'
  BY <1>1, <1>2 DEF PageInv, OneAtATime
<1>5. Held'
  BY <1>1, <1>2 DEF PageInv, Held
<1>6. QED
  BY <1>3, <1>4, <1>5

LEMMA PageOperator ==
    ASSUME PageInv, Operator
    PROVE  Attended' /\ OneAtATime' /\ Held' /\ ConflictHasWorkflow'
<1>1. ASSUME NEW o \in Operations, NEW c \in Categories, NEW p \in Peers,
             StartPull(o, c, p)
      PROVE  Attended' /\ OneAtATime' /\ Held' /\ ConflictHasWorkflow'
  <2>1. FreshWorkflow(p, c) \in Workflows /\ PullOf(FreshWorkflow(p, c)) \in Requests
    BY DEF PullOf, FreshWorkflow, Requests, Workflows
  <2>2. workflow' # None /\ workflow'.peer = PullOf(FreshWorkflow(p, c)).peer
    BY <1>1, <2>1, NoneAssumption DEF StartPull, PullOf, FreshWorkflow
  <2>3. QED
    BY <1>1, <2>1, <2>2, PagePosts DEF StartPull, Kinds, ConflictHasWorkflow
<1>2. ASSUME NEW o \in Operations, StartPackage(o)
      PROVE  Attended' /\ OneAtATime' /\ Held' /\ ConflictHasWorkflow'
  BY <1>2, PagePosts DEF StartPackage, Kinds, PageInv, ConflictHasWorkflow
<1>3. ASSUME NEW o \in Operations, NEW d \in {"keep_local", "apply_remote"},
             Answer(o, d)
      PROVE  Attended' /\ OneAtATime' /\ Held' /\ ConflictHasWorkflow'
  <2> DEFINE r == [peer |-> workflow.peer, category |-> workflow.category,
                   force |-> workflow.force, keep |-> workflow.keep,
                   row |-> active.row, decision |-> d]
  <2>1. workflow \in Workflows /\ active \in Conflicts
    BY <1>3 DEF Answer, PageInv, TypeOK
  <2>2. r \in Requests /\ r.peer = workflow.peer
    BY <2>1 DEF Workflows, Conflicts, Requests
  <2>3. Post(o, "answer", r) /\ workflow' = workflow /\ active' = active
        /\ workflow # None /\ Idle
    BY <1>3 DEF Answer
  <2> HIDE DEF r
  <2>4. QED
    BY <2>2, <2>3, PagePosts DEF Kinds, PageInv, ConflictHasWorkflow
<1>4. CASE CloseConflict
  <2>1. \A q \in Operations : ~Running(q)
    BY <1>4, IdleMeansNone DEF CloseConflict, CloseEnabled
  <2>2. UNCHANGED <<kind, at, srv, task>> /\ active' = None
    BY <1>4 DEF CloseConflict, Forget, opVars, siteVars
  <2>3. QED
    BY <2>1, <2>2 DEF PageInv, Attended, OneAtATime, Held, ConflictHasWorkflow, Running
<1>5. ASSUME NEW p \in Peers, NEW r \in Rows, Edit(p, r)
      PROVE  Attended' /\ OneAtATime' /\ Held' /\ ConflictHasWorkflow'
  BY <1>5 DEF Edit, PageInv, Attended, OneAtATime, Held, ConflictHasWorkflow,
              Running, Active, pageVars, opVars, siteVars
<1>6. QED
  BY <1>1, <1>2, <1>3, <1>4, <1>5 DEF Operator

\* An operation that ends and can touch the workflow is the only one of its
\* sort; the others keep what they had.
LEMMA PageEnds ==
    ASSUME PageInv, SiteStep, kind' = kind, NEW o \in Operations, Ends(o)
    PROVE  OneAtATime' /\ Held' /\ ConflictHasWorkflow'
<1>1. /\ at' = [at EXCEPT ![o] = "over"]
      /\ \A q \in Operations : Running(q)' => q # o /\ Running(q)
  BY NoneAssumption
     DEF Ends, Completed, Failed, Stopped, Finish, Running, PageInv, TypeOK
<1>2. OneAtATime'
  BY <1>1 DEF PageInv, OneAtATime
<1>3. CASE kind[o] = "package"
  <2>1. UNCHANGED <<workflow, active>>
    BY <1>3 DEF Ends, Completed, Failed
  <2>2. QED
    BY <1>1, <1>2, <2>1 DEF PageInv, Held, SiteStep, ConflictHasWorkflow
<1>4. CASE kind[o] # "package"
  <2>1. \A q \in Operations : Running(q)' => kind'[q] = "package"
    BY <1>1, <1>4 DEF Ends, PageInv, OneAtATime
  <2>2. Held'
    BY <2>1 DEF Held
  <2>3. ConflictHasWorkflow'
    <3>1. CASE Completed(o) \/ Failed(o)
      BY <3>1 DEF Completed, Failed, Forget, PageInv, ConflictHasWorkflow
    <3>2. ASSUME NEW r \in Rows, Active(o), Stopped(o, r) PROVE ConflictHasWorkflow'
      <4>1. workflow \in Workflows /\ workflow # None /\ workflow.peer = request[o].peer
        BY <1>4, <3>2 DEF Ends, PageInv, Held, TypeOK
      <4>2. Updated(o).peer = request[o].peer /\ Updated(o) \in Workflows
        <5>1. kind[o] = "answer" => request[o] \in Requests
          BY <3>2 DEF PageInv, Requested
        <5>2. QED
          BY <4>1, <5>1, ListsAreRows DEF Updated, Workflows
      <4>3. QED
        BY <3>2, <4>2, NoneAssumption DEF Stopped, ConflictHasWorkflow
    <3>3. QED
      BY <3>1, <3>2 DEF Ends
  <2>4. QED
    BY <1>2, <2>2, <2>3
<1>5. QED
  BY <1>3, <1>4

LEMMA AttendedSite ==
    ASSUME PageInv, NEW o \in Operations,
           Serve(o) \/ Work(o) \/ WorkerDies(o) \/ PollEnds(o) \/ LoseAnswer(o)
    PROVE  Attended' /\ kind' = kind
<1>0. TypeOK /\ Requested /\ Attended
  BY DEF PageInv
<1>1. CASE Enqueue(o)
  <2>1. Active(o)
    BY <1>1 DEF Enqueue, Active
  <2>2. kind[o] \in Kinds
    BY <1>0, <2>1 DEF Requested
  <2>3. QED
    BY <1>0, <1>1, <2>2, NoneAssumption
       DEF Enqueue, Reaches, Polls, opVars, Attended, TypeOK, Running
<1>2. CASE FallBack(o)
  BY <1>0, <1>2, NoneAssumption DEF FallBack, opVars, Attended, TypeOK, Running
<1>3. CASE RunToEnd(o) \/ RunToConflict(o) \/ RunToError(o)
  <2>1. /\ srv' = [srv EXCEPT ![o] = "over"] /\ task' = task /\ kind' = kind
        /\ at' = IF at[o] = "waiting" THEN [at EXCEPT ![o] = "over"] ELSE at
    BY <1>3 DEF RunToEnd, RunToConflict, RunToError, Respond, Reaches, Completed,
                Failed, Stopped, Finish, opVars
  <2>2. QED
    BY <1>0, <2>1, NoneAssumption DEF Attended, TypeOK, Running
<1>4. CASE Work(o) \/ WorkerDies(o)
  BY <1>0, <1>4, NoneAssumption
     DEF Work, Succeed, Retry, WorkerDies, EndTask, opVars, Attended, TypeOK, Running
<1>5. CASE PollEnds(o) \/ LoseAnswer(o)
  <2>1. at' = [at EXCEPT ![o] = "over"] /\ UNCHANGED <<kind, srv, task>>
    BY <1>5 DEF PollEnds, LoseAnswer, Completed, Failed, Finish, siteVars
  <2>2. QED
    BY <1>0, <2>1, NoneAssumption DEF Attended, TypeOK, Running
<1>6. QED
  BY <1>1, <1>2, <1>3, <1>4, <1>5 DEF Serve

LEMMA PageNext == PageInv /\ [Next]_vars => PageInv'
<1> SUFFICES ASSUME PageInv, [Next]_vars PROVE PageInv'
  OBVIOUS
<1>0. TypeOK' /\ Requested' /\ BusyWhileRunning'
  BY NextTypes, BusyNext DEF PageInv
<1>1. CASE UNCHANGED vars
  BY <1>0, <1>1 DEF vars, pageVars, opVars, siteVars, PageInv, Attended, OneAtATime,
                    Held, ConflictHasWorkflow, Running, Active
<1>2. CASE Operator
  BY <1>0, <1>2, PageOperator DEF PageInv
<1>3. ASSUME NEW o \in Operations,
             Serve(o) \/ Work(o) \/ WorkerDies(o) \/ PollEnds(o) \/ LoseAnswer(o)
      PROVE  PageInv'
  <2>1. PageStep /\ SiteStep /\ Attended' /\ kind' = kind
    BY <1>3, ServeSteps, WorkSteps, AttendedSite DEF PageInv
  <2>2. CASE UNCHANGED <<pageVars, opVars>>
    BY <1>0, <2>1, <2>2 DEF pageVars, opVars, SiteStep, PageInv, OneAtATime, Held,
                            ConflictHasWorkflow, Running
  <2>3. ASSUME NEW q \in Operations, srv[q] = "handling", at[q] = "waiting", Polls(q)
        PROVE  PageInv'
    <3>1. /\ UNCHANGED <<workflow, active>>
          /\ \A p \in Operations : Running(p)' => Running(p)
      BY <2>3, NoneAssumption DEF Polls, pageVars, Running, PageInv, TypeOK
    <3>2. QED
      BY <1>0, <2>1, <3>1 DEF SiteStep, PageInv, OneAtATime, Held, ConflictHasWorkflow
  <2>4. ASSUME NEW q \in Operations, Ends(q) PROVE PageInv'
    BY <1>0, <2>1, <2>4, PageEnds DEF PageInv
  <2>5. QED
    BY <2>1, <2>2, <2>3, <2>4 DEF PageStep
<1>4. QED
  BY <1>1, <1>2, <1>3 DEF Next

LEMMA PageAlways == Spec => []PageInv
BY PageInit, PageNext, PTL DEF Spec

\* Whatever overlaps, and whichever answers are lost, the conflict on display
\* belongs to the workflow that the next answer posts.
THEOREM ConflictIsAnswerable == Spec => []ConflictHasWorkflow
BY PageAlways, PTL DEF PageInv

----------------------------------------------------------------------------
(* Rows are replaced on order.                                             *)

\* Inductive with PageInv: whatever the workflow would take from its peer has
\* been ordered in it, and the row on display has not, ...
ListsOrdered ==
    /\ workflow # None => \A r \in workflow.force : <<workflow.peer, r>> \in ordered
    /\ active # None => active.row \notin workflow.force
    /\ \A o \in Operations : Running(o) /\ kind[o] = "pull" => workflow.force = {}

\* ... and whatever a request would take was ordered when it was posted.
Mandated(o) ==
    /\ kind[o] # "answer" => mandate[o] = {}
    /\ kind[o] # "package" /\ Active(o) =>
          \A r \in Forced(o) : <<request[o].peer, r>> \in mandate[o]

\* While the page waits for an answer, what was ordered still is.
StillOrdered(o) ==
    kind[o] = "answer" /\ Running(o) => mandate[o] \subseteq ordered

Ordered ==
    /\ ListsOrdered
    /\ \A o \in Operations : Mandated(o) /\ StillOrdered(o)

LEMMA OrderedInit == Init => Ordered
BY NoneAssumption
   DEF Init, Ordered, ListsOrdered, Mandated, StillOrdered, Active, Running

\* A request that was posted has its mandate, and the others theirs.
LEMMA OrderedPost ==
    ASSUME PageInv, Ordered, NEW o \in Operations, NEW k \in Kinds,
           NEW r \in Requests \cup {None}, Post(o, k, r),
           k = "pull" => r.force = {} /\ r.row = None,
           k = "answer" =>
              /\ \A v \in r.force : <<r.peer, v>> \in ordered'
              /\ r.decision = "apply_remote" => <<r.peer, r.row>> \in ordered',
           ordered' = ordered \/ Idle
    PROVE  \A q \in Operations : Mandated(q)' /\ StillOrdered(q)'
<1>0. TypeOK /\ \A q \in Operations : Mandated(q) /\ StillOrdered(q)
  BY DEF PageInv, Ordered
<1>1. /\ kind'[o] = k /\ request'[o] = r
      /\ mandate'[o] = IF k = "answer" THEN ordered' ELSE {}
      /\ \A q \in Operations \ {o} :
            /\ Active(q)' <=> Active(q)
            /\ Running(q)' <=> Running(q)
            /\ kind'[q] = kind[q] /\ request'[q] = request[q]
            /\ mandate'[q] = mandate[q] /\ Forced(q)' = Forced(q)
  BY <1>0 DEF Post, TypeOK, Active, Running, Forced, Row
<1>2. ASSUME NEW q \in Operations, q # o PROVE Mandated(q)' /\ StillOrdered(q)'
  <2>1. Mandated(q)'
    BY <1>0, <1>1, <1>2 DEF Mandated
  <2>2. StillOrdered(q)'
    BY <1>0, <1>1, <1>2, IdleMeansNone DEF StillOrdered
  <2>3. QED
    BY <2>1, <2>2
<1>3. Mandated(o)'
  <2>1. CASE k = "package"
    BY <1>1, <2>1 DEF Mandated
  <2>2. CASE k = "pull"
    <3>1. Forced(o)' = {}
      BY <1>1, <2>2 DEF Forced, Row
    <3>2. QED
      BY <1>1, <2>2, <3>1 DEF Mandated
  <2>3. CASE k = "answer"
    <3>1. \A v \in Forced(o)' : <<r.peer, v>> \in ordered'
      BY <1>1, <2>3 DEF Forced, Row
    <3>2. QED
      BY <1>1, <2>3, <3>1 DEF Mandated
  <2>4. QED
    BY <2>1, <2>2, <2>3 DEF Kinds
<1>4. StillOrdered(o)'
  BY <1>1 DEF StillOrdered
<1>5. QED
  BY <1>2, <1>3, <1>4

LEMMA OrderedOperator ==
    ASSUME PageInv, Ordered, Operator
    PROVE  Ordered'
<1>0. TypeOK /\ ListsOrdered
  BY DEF PageInv, Ordered
<1>1. ASSUME NEW o \in Operations, NEW c \in Categories, NEW p \in Peers,
             StartPull(o, c, p)
      PROVE  Ordered'
  <2>1. FreshWorkflow(p, c) \in Workflows /\ PullOf(FreshWorkflow(p, c)) \in Requests
    BY DEF PullOf, FreshWorkflow, Requests, Workflows
  <2>2. \A q \in Operations : Mandated(q)' /\ StillOrdered(q)'
    BY <1>1, <2>1, OrderedPost DEF StartPull, PullOf, FreshWorkflow, Kinds
  <2>3. ListsOrdered'
    BY <1>1 DEF StartPull, FreshWorkflow, ListsOrdered
  <2>4. QED
    BY <2>2, <2>3 DEF Ordered
<1>2. ASSUME NEW o \in Operations, StartPackage(o) PROVE Ordered'
  <2>1. \A q \in Operations : Mandated(q)' /\ StillOrdered(q)'
    BY <1>2, OrderedPost DEF StartPackage, Kinds
  <2>2. \A q \in Operations : Running(q)' /\ kind'[q] = "pull" => Running(q) /\ kind[q] = "pull"
    BY <1>0, <1>2 DEF StartPackage, Post, TypeOK, Running
  <2>3. ListsOrdered'
    BY <1>0, <1>2, <2>2 DEF StartPackage, ListsOrdered
  <2>4. QED
    BY <2>1, <2>3 DEF Ordered
<1>3. ASSUME NEW o \in Operations, NEW d \in {"keep_local", "apply_remote"},
             Answer(o, d)
      PROVE  Ordered'
  <2> DEFINE r == [peer |-> workflow.peer, category |-> workflow.category,
                   force |-> workflow.force, keep |-> workflow.keep,
                   row |-> active.row, decision |-> d]
  <2>1. /\ workflow # None /\ workflow \in Workflows /\ active \in Conflicts
        /\ workflow.peer = active.peer /\ active # None
    BY <1>0, <1>3 DEF Answer, TypeOK, PageInv, ConflictHasWorkflow
  <2>2. /\ r \in Requests
        /\ r.peer = active.peer /\ r.force = workflow.force /\ r.row = active.row
        /\ r.decision = d
    BY <2>1 DEF Workflows, Conflicts, Requests
  <2>3. /\ \A v \in workflow.force : <<active.peer, v>> \in ordered'
        /\ d = "apply_remote" => <<active.peer, active.row>> \in ordered'
    BY <1>0, <1>3, <2>1 DEF Answer, ListsOrdered
  <2>4. Post(o, "answer", r) /\ Idle
    BY <1>3 DEF Answer
  <2> HIDE DEF r
  <2>5. \A q \in Operations : Mandated(q)' /\ StillOrdered(q)'
    BY <2>2, <2>3, <2>4, OrderedPost DEF Kinds
  <2>6. \A q \in Operations : Running(q)' /\ kind'[q] = "pull" => Running(q) /\ kind[q] = "pull"
    BY <1>0, <2>4 DEF Post, TypeOK, Running
  <2>7. ListsOrdered'
    BY <1>0, <1>3, <2>1, <2>3, <2>6 DEF Answer, ListsOrdered
  <2>8. QED
    BY <2>5, <2>7 DEF Ordered
<1>4. CASE CloseConflict
  <2>1. \A q \in Operations : ~Running(q)'
    BY <1>4, IdleMeansNone DEF CloseConflict, CloseEnabled, opVars, Running
  <2>2. \A q \in Operations : Mandated(q)'
    BY <1>4 DEF CloseConflict, opVars, siteVars, Ordered, Mandated, Active, Forced, Row
  <2>3. ListsOrdered' /\ \A q \in Operations : StillOrdered(q)'
    BY <1>4, <2>1 DEF CloseConflict, Forget, ListsOrdered, StillOrdered
  <2>4. QED
    BY <2>2, <2>3 DEF Ordered
<1>5. ASSUME NEW p \in Peers, NEW r \in Rows, Edit(p, r) PROVE Ordered'
  BY <1>5 DEF Edit, pageVars, opVars, siteVars, Ordered, ListsOrdered, Mandated,
              StillOrdered, Active, Running, Forced, Row
<1>6. QED
  BY <1>1, <1>2, <1>3, <1>4, <1>5 DEF Operator

\* What a step of the site leaves of the mandates
MandateStep ==
    \A q \in Operations :
        /\ mandate'[q] = mandate[q] \/ mandate'[q] = {}
        /\ Active(q)' /\ kind[q] # "package" => mandate'[q] = mandate[q]

LEMMA OrderedSite ==
    ASSUME PageInv, Ordered, PageStep, SiteStep, MandateStep, kind' = kind
    PROVE  Ordered'
<1>0. /\ TypeOK /\ Requested /\ Held /\ OneAtATime /\ ListsOrdered
      /\ \A q \in Operations : Mandated(q) /\ StillOrdered(q)
  BY DEF PageInv, Ordered
<1>1. \A q \in Operations : Mandated(q)'
  BY <1>0 DEF SiteStep, MandateStep, Mandated, Forced, Row
<1>2. ASSUME ordered' = ordered, \A q \in Operations : Running(q)' => Running(q)
      PROVE  \A q \in Operations : StillOrdered(q)'
  BY <1>0, <1>2 DEF StillOrdered, MandateStep
<1>3. CASE UNCHANGED <<pageVars, opVars>>
  <2>1. ListsOrdered' /\ \A q \in Operations : Running(q)' => Running(q)
    BY <1>0, <1>3 DEF pageVars, opVars, ListsOrdered, Running
  <2>2. QED
    BY <1>1, <1>2, <1>3, <2>1 DEF Ordered, pageVars
<1>4. ASSUME NEW o \in Operations, at[o] = "waiting", Polls(o) PROVE Ordered'
  <2>1. \A q \in Operations : Running(q)' => Running(q)
    BY <1>0, <1>4 DEF Polls, TypeOK, Running
  <2>2. ListsOrdered'
    BY <1>0, <1>4, <2>1 DEF Polls, pageVars, ListsOrdered
  <2>3. QED
    BY <1>1, <1>2, <1>4, <2>1, <2>2 DEF Ordered, Polls, pageVars
<1>5. ASSUME NEW o \in Operations, Ends(o) PROVE Ordered'
  <2>1. Running(o) /\ \E how : Finish(o, how)
    BY <1>5 DEF Ends, Completed, Failed, Stopped
  <2>2. /\ ~Running(o)'
        /\ \A q \in Operations : Running(q)' => Running(q)
    BY <1>0, <2>1 DEF Finish, TypeOK, Running
  <2>3. CASE Forget /\ kind[o] # "package"
    <3>1. \A q \in Operations : Running(q)' => kind[q] = "package"
      BY <1>0, <2>1, <2>2, <2>3 DEF OneAtATime
    <3>2. ListsOrdered'
      BY <2>3, <3>1 DEF Forget, ListsOrdered
    <3>3. \A q \in Operations : StillOrdered(q)'
      BY <3>1 DEF StillOrdered
    <3>4. QED
      BY <1>1, <3>2, <3>3 DEF Ordered
  <2>4. CASE UNCHANGED <<workflow, active, ordered>>
    <3>1. ListsOrdered'
      BY <1>0, <2>2, <2>4 DEF ListsOrdered
    <3>2. QED
      BY <1>1, <1>2, <2>2, <2>4, <3>1 DEF Ordered
  <2>5. ASSUME Active(o), kind[o] # "package", request[o] \in Requests,
               NEW r \in Rows \cap Stopping(o), Stopped(o, r)
        PROVE  Ordered'
    <3>1. /\ workflow # None /\ workflow \in Workflows
          /\ workflow.peer = request[o].peer
      BY <1>0, <2>1, <2>5 DEF Held, TypeOK
    <3>2. ordered' = ordered /\ active'.row = r
      BY <2>5 DEF Stopped
    <3>3. r \notin Forced(o)
      BY <2>5 DEF Stopping
    <3>4. \A q \in Operations : Running(q)' => kind[q] = "package"
      BY <1>0, <2>1, <2>2, <2>5 DEF OneAtATime
    <3>5. CASE kind[o] = "answer"
      <4>1. workflow'.force = Forced(o) /\ workflow'.peer = request[o].peer
        BY <2>5, <3>1, <3>5 DEF Stopped, Updated, Workflows
      <4>2. \A v \in Forced(o) : <<request[o].peer, v>> \in ordered
        BY <1>0, <2>1, <2>5, <3>5 DEF Mandated, StillOrdered
      <4>3. ListsOrdered'
        BY <3>2, <3>3, <3>4, <4>1, <4>2 DEF ListsOrdered
      <4>4. QED
        BY <1>1, <1>2, <2>2, <3>2, <4>3 DEF Ordered
    <3>6. CASE kind[o] = "pull"
      <4>1. workflow' = workflow /\ workflow.force = {}
        BY <1>0, <2>1, <2>5, <3>1, <3>6 DEF Stopped, Updated, ListsOrdered
      <4>2. ListsOrdered'
        BY <3>4, <4>1 DEF ListsOrdered
      <4>3. QED
        BY <1>1, <1>2, <2>2, <3>2, <4>2 DEF Ordered
    <3>7. QED
      BY <1>0, <2>5, <3>5, <3>6 DEF Requested, Kinds
  <2>6. QED
    BY <1>5, <2>3, <2>4, <2>5 DEF Ends, Completed, Failed
<1>6. QED
  BY <1>3, <1>4, <1>5 DEF PageStep

\* Of the steps of the site only a commit touches the rows, and only a response
\* ends a mandate.
LEMMA RowsTouched ==
    ASSUME PageInv, Ordered, NEW o \in Operations,
           Serve(o) \/ Work(o) \/ WorkerDies(o) \/ PollEnds(o) \/ LoseAnswer(o)
    PROVE  /\ MandateStep
           /\ differs' = differs \/ (Active(o) /\ Commit(o))
<1>0. TypeOK /\ Attended /\ Mandated(o)
  BY DEF PageInv, Ordered
<1>1. /\ mandate' = mandate
         \/ /\ mandate' = [mandate EXCEPT ![o] = {}]
            /\ srv' = [srv EXCEPT ![o] = "over"] /\ task' = task
      /\ differs' = differs \/ (Active(o) /\ Commit(o))
  BY DEF Serve, Enqueue, FallBack, RunToEnd, RunToConflict, RunToError, Respond,
         Work, Succeed, Retry, WorkerDies, PollEnds, LoseAnswer, Commit, siteVars,
         dataVars, Active
<1>2. CASE mandate' = mandate
  BY <1>1, <1>2 DEF MandateStep
<1>3. CASE /\ mandate' = [mandate EXCEPT ![o] = {}]
           /\ srv' = [srv EXCEPT ![o] = "over"] /\ task' = task
  <2>1. kind[o] = "answer" => ~Active(o)'
    BY <1>0, <1>3, NoneAssumption DEF Active, TypeOK, Attended
  <2>2. kind[o] # "answer" => mandate[o] = {}
    BY <1>0 DEF Mandated
  <2>3. QED
    BY <1>0, <1>1, <1>3, <2>1, <2>2 DEF MandateStep, TypeOK
<1>4. QED
  BY <1>1, <1>2, <1>3

LEMMA OrderedNext == PageInv /\ Ordered /\ [Next]_vars => Ordered'
<1> SUFFICES ASSUME PageInv, Ordered, [Next]_vars PROVE Ordered'
  OBVIOUS
<1>1. CASE UNCHANGED vars
  BY <1>1 DEF vars, pageVars, opVars, siteVars, dataVars, Ordered, ListsOrdered,
              Mandated, StillOrdered, Active, Running, Forced, Row
<1>2. ASSUME NEW o \in Operations,
             Serve(o) \/ Work(o) \/ WorkerDies(o) \/ PollEnds(o) \/ LoseAnswer(o)
      PROVE  Ordered'
  BY <1>2, ServeSteps, WorkSteps, AttendedSite, RowsTouched, OrderedSite DEF PageInv
<1>3. QED
  BY <1>1, <1>2, OrderedOperator DEF Next

LEMMA OrderedStep ==
    ASSUME PageInv, Ordered, [Next]_vars, NEW p \in Peers,
           NEW r \in differs[p] \ differs'[p]
    PROVE  \E o \in Operations : <<p, r>> \in mandate[o] /\ Commit(o)
<1>0. differs \in [Peers -> SUBSET Rows] /\ Requested
  BY DEF PageInv, TypeOK
<1>1. CASE UNCHANGED vars
  BY <1>1 DEF vars, dataVars
<1>2. CASE Operator
  BY <1>0, <1>2 DEF Operator, StartPull, StartPackage, Answer, Post, CloseConflict,
                    Edit, dataVars
<1>3. ASSUME NEW o \in Operations,
             Serve(o) \/ Work(o) \/ WorkerDies(o) \/ PollEnds(o) \/ LoseAnswer(o)
      PROVE  <<p, r>> \in mandate[o] /\ Commit(o)
  <2>1. Active(o) /\ Commit(o) /\ differs' # differs
    BY <1>3, RowsTouched
  <2>2. kind[o] # "package" /\ p = request[o].peer /\ r \in Forced(o)
    BY <1>0, <2>1 DEF Commit
  <2>3. QED
    BY <2>1, <2>2 DEF Ordered, Mandated
<1>4. QED
  BY <1>1, <1>2, <1>3 DEF Next

\* A row that differs is replaced only by an answer in whose workflow the
\* operator had last said, of this row and this peer, that the remote one
\* applies: no list of decisions outlives its workflow or changes its peer.
THEOREM ReplacedOnOrder == Spec => RowsReplacedOnOrder
<1>1. PageInv /\ Ordered /\ [Next]_vars
        => [\A p \in Peers : \A r \in differs[p] \ differs'[p] :
               \E o \in Operations : <<p, r>> \in mandate[o] /\ Commit(o)]_vars
  BY OrderedStep
<1>2. QED
  BY <1>1, PageInit, PageNext, OrderedInit, OrderedNext, PTL DEF Spec, RowsReplacedOnOrder

----------------------------------------------------------------------------
(* The page keeps its promise: EtlPage implements PullRequest.             *)

\* Inductive with TypeOK: an operation has a report when it is over and not
\* before, only what was asked for is worked on, and a task that succeeded was
\* committed.
Reported ==
    \A o \in Operations :
        /\ at[o] = "over" <=> outcome[o] # None
        /\ srv[o] # None \/ task[o] # None => at[o] # None
        /\ task[o] = "SUCCESS" => o \in carried

LEMMA ReportedInit == Init => Reported
BY NoneAssumption DEF Init, Reported

\* What the steps are for PullRequest.
Told(o, result) == /\ outcome[o] = None
                   /\ result = "done" => o \in carried'
                   /\ outcome' = [outcome EXCEPT ![o] = result]

Proceeds(o) ==
    /\ at[o] # None
    /\ carried' = carried \/ carried' = carried \cup {o}
    /\ \/ at' = at /\ outcome' = outcome
       \/ at[o] = "waiting" /\ at' = [at EXCEPT ![o] = "polling"] /\ outcome' = outcome
       \/ /\ Running(o) /\ at' = [at EXCEPT ![o] = "over"]
          /\ \E result \in {"done", "conflict", "failed"} : Told(o, result)

LEMMA SiteProceeds ==
    ASSUME TypeOK, Reported, NEW o \in Operations,
           Serve(o) \/ Work(o) \/ WorkerDies(o) \/ PollEnds(o) \/ LoseAnswer(o)
    PROVE  Proceeds(o)
<1>0. at[o] # None /\ (Running(o) => outcome[o] = None)
  BY NoneAssumption
     DEF Reported, Running, TypeOK, Serve, Enqueue, FallBack, RunToEnd, RunToConflict,
         RunToError, Work, Succeed, Retry, WorkerDies, PollEnds, LoseAnswer
<1>1. CASE Enqueue(o) \/ FallBack(o)
  BY <1>0, <1>1 DEF Enqueue, FallBack, Reaches, Polls, Proceeds, opVars, dataVars
<1>2. CASE RunToEnd(o)
  BY <1>0, <1>2 DEF RunToEnd, Commit, Respond, Reaches, Completed, Finish, Proceeds,
                    Told, Running, opVars
<1>3. CASE RunToConflict(o) \/ RunToError(o)
  BY <1>0, <1>3 DEF RunToConflict, RunToError, Respond, Reaches, Stopped, Failed,
                    Finish, Proceeds, Told, Running, opVars, dataVars
<1>4. CASE Work(o) \/ WorkerDies(o)
  BY <1>0, <1>4 DEF Work, Succeed, Retry, WorkerDies, Commit, Proceeds, opVars, dataVars
<1>5. CASE PollEnds(o) \/ LoseAnswer(o)
  BY <1>0, <1>5 DEF PollEnds, LoseAnswer, Completed, Failed, Finish, Proceeds, Told,
                    Running, Reported, dataVars
<1>6. QED
  BY <1>1, <1>2, <1>3, <1>4, <1>5 DEF Serve

LEMMA ReportedNext == TypeOK /\ Reported /\ [Next]_vars => Reported'
<1> SUFFICES ASSUME TypeOK, Reported, [Next]_vars PROVE Reported'
  OBVIOUS
<1>1. CASE UNCHANGED vars
  BY <1>1 DEF vars, opVars, siteVars, dataVars, Reported
<1>2. ASSUME NEW o \in Operations, NEW k, NEW r, Post(o, k, r) PROVE Reported'
  BY <1>2, NoneAssumption DEF Post, Reported, TypeOK
<1>3. CASE CloseConflict \/ \E p \in Peers : \E r \in Rows : Edit(p, r)
  BY <1>3 DEF CloseConflict, Edit, opVars, siteVars, dataVars, Reported
<1>4. ASSUME NEW o \in Operations,
             Serve(o) \/ Work(o) \/ WorkerDies(o) \/ PollEnds(o) \/ LoseAnswer(o)
      PROVE  Reported'
  <2>1. Proceeds(o)
    BY <1>4, SiteProceeds
  <2>2. \A q \in Operations :
           /\ srv'[q] # srv[q] => q = o
           /\ task'[q] # task[q] => q = o
           /\ task'[q] = "SUCCESS" => task[q] = "SUCCESS" \/ q \in carried'
    BY <1>4, NoneAssumption
       DEF TypeOK, Serve, Enqueue, FallBack, RunToEnd, RunToConflict, RunToError,
           Respond, Work, Succeed, Retry, WorkerDies, EndTask, Commit, PollEnds,
           LoseAnswer, siteVars
  <2>3. \A q \in Operations : at'[q] = "over" <=> outcome'[q] # None
    BY <2>1, NoneAssumption DEF Proceeds, Told, Running, Reported, TypeOK
  <2>4. \A q \in Operations : at[q] # None => at'[q] # None
    BY <2>1, NoneAssumption DEF Proceeds, TypeOK
  <2>5. QED
    BY <2>1, <2>2, <2>3, <2>4 DEF Proceeds, Reported
<1>5. QED
  BY <1>1, <1>2, <1>3, <1>4 DEF Next, Operator, StartPull, StartPackage, Answer

LEMMA InitImplements == Init => Contract!Init
BY NoneAssumption DEF Init, Contract!Init

LEMMA PostImplements ==
    ASSUME TypeOK, Reported, NEW o \in Operations, NEW k, NEW r, Post(o, k, r)
    PROVE  Contract!Ask(o)
<1>1. at[o] # None => outcome[o] # None
  BY DEF Post, Free, Reported
<1>2. {q \in Operations : at'[q] # None} = {q \in Operations : at[q] # None} \cup {o}
  BY NoneAssumption DEF Post, TypeOK
<1>3. QED
  BY <1>1, <1>2 DEF Post, Contract!Ask

LEMMA ProceedsImplements ==
    ASSUME TypeOK, NEW o \in Operations, Proceeds(o)
    PROVE  Contract!Proceed(o)
<1>1. {q \in Operations : at'[q] # None} = {q \in Operations : at[q] # None}
  BY NoneAssumption DEF Proceeds, TypeOK, Running
<1>2. QED
  BY <1>1 DEF Proceeds, Told, Contract!Proceed, Contract!Told

LEMMA NextImplements == TypeOK /\ Reported /\ [Next]_vars => [Contract!Next]_(Contract!vars)
<1> SUFFICES ASSUME TypeOK, Reported, [Next]_vars
             PROVE  Contract!Next \/ UNCHANGED Contract!vars
  OBVIOUS
<1>1. CASE UNCHANGED vars \/ CloseConflict \/ \E p \in Peers : \E r \in Rows : Edit(p, r)
  BY <1>1 DEF vars, CloseConflict, Edit, opVars, dataVars, Contract!vars
<1>2. ASSUME NEW o \in Operations, NEW k, NEW r, Post(o, k, r)
      PROVE  Contract!Next
  BY <1>2, PostImplements DEF Contract!Next
<1>3. ASSUME NEW o \in Operations,
             Serve(o) \/ Work(o) \/ WorkerDies(o) \/ PollEnds(o) \/ LoseAnswer(o)
      PROVE  Contract!Next
  BY <1>3, SiteProceeds, ProceedsImplements DEF Contract!Next
<1>4. QED
  BY <1>1, <1>2, <1>3 DEF Next, Operator, StartPull, StartPackage, Answer

\* The page tells of each operation once, and "done" only of what was done.
THEOREM PageImplementsRequest == Spec => OneReport
<1>1. TypeOK /\ Reported /\ [Next]_vars => [Contract!Next]_(Contract!vars)
  BY NextImplements
<1>2. QED
  BY <1>1, InitImplements, InitTypes, NextTypes, ReportedInit, ReportedNext, PTL
     DEF Spec, OneReport, Contract!Spec

----------------------------------------------------------------------------
(* The safety half of PageHearsBack.                                       *)

\* The steps of an operation, those that nobody is obliged to take included.
GoesOn(o) == Serve(o) \/ Work(o) \/ WorkerDies(o) \/ PollEnds(o) \/ LoseAnswer(o)

\* How many steps the handler, the task and the page still have, at most.
HandlerLeft(o) == IF srv[o] = "handling" THEN MaxRetries + 3
                  ELSE IF srv[o] = "running" THEN 1 ELSE 0
TaskLeft(o) == IF task[o] = "queued" THEN MaxRetries + 1 - tries[o] ELSE 0
PageLeft(o) == IF Running(o) THEN 1 ELSE 0
Left(o) == HandlerLeft(o) + TaskLeft(o) + PageLeft(o)

\* What the page waits for is in the hands of a handler, or is a task that it
\* polls; each step of an operation leaves fewer to come, retries and runs by
\* both the handler and a worker included, and no other step leaves more.
ReportNearer ==
    \A o \in Operations : Running(o) =>
        /\ at[o] = "waiting" => srv[o] \in {"handling", "running"}
        /\ at[o] = "polling" => task[o] \in {"queued", "SUCCESS", "FAILURE", "lost"}
        /\ Left(o)' \in Nat /\ Left(o)' <= Left(o)
        /\ GoesOn(o) => Left(o)' < Left(o)

ReportsCome == [][ReportNearer]_vars

\* Inductive with PageInv: what is polled is a task.
Polled == \A o \in Operations : at[o] = "polling" => task[o] # None

\* A step of one operation leaves the others where they are.
OnlyMoves(o) ==
    \A q \in Operations \ {o} :
        at'[q] = at[q] /\ srv'[q] = srv[q] /\ task'[q] = task[q] /\ tries'[q] = tries[q]

\* What becomes of an operation that goes on.
Moves(o) ==
    \/ /\ srv[o] = "handling" /\ srv'[o] = "over" /\ task'[o] = "queued"
       /\ tries'[o] = tries[o]
       /\ at'[o] = IF at[o] = "waiting" THEN "polling" ELSE at[o]
    \/ /\ srv[o] = "handling" /\ srv'[o] = "running" /\ task'[o] \in {task[o], "queued"}
       /\ tries'[o] = tries[o] /\ at'[o] = at[o]
    \/ /\ srv[o] = "running" /\ srv'[o] = "over" /\ task'[o] = task[o]
       /\ tries'[o] = tries[o] /\ at'[o] = IF at[o] = "waiting" THEN "over" ELSE at[o]
    \/ /\ task[o] = "queued"
       /\ task'[o] \in {"SUCCESS", "FAILURE", "lost"}
             \/ (task'[o] = None /\ at[o] # "polling")
       /\ srv'[o] = srv[o] /\ at'[o] = at[o]
    \/ /\ task[o] = "queued" /\ task'[o] = "queued" /\ tries'[o] = tries[o] + 1
       /\ tries[o] < MaxRetries /\ srv'[o] = srv[o] /\ at'[o] = at[o]
    \/ /\ Running(o) /\ at'[o] = "over"
       /\ srv'[o] = srv[o] /\ task'[o] = task[o] /\ tries'[o] = tries[o]

LEMMA OperationMoves ==
    ASSUME TypeOK, NEW o \in Operations, GoesOn(o)
    PROVE  Moves(o) /\ OnlyMoves(o)
<1>1. CASE Enqueue(o)
  BY <1>1 DEF Enqueue, Reaches, Polls, opVars, TypeOK, Moves, OnlyMoves
<1>2. CASE FallBack(o)
  BY <1>2 DEF FallBack, opVars, TypeOK, Moves, OnlyMoves
<1>3. CASE RunToEnd(o) \/ RunToConflict(o) \/ RunToError(o)
  <2>1. /\ srv[o] = "running" /\ srv' = [srv EXCEPT ![o] = "over"]
        /\ UNCHANGED <<task, tries>>
        /\ at' = IF at[o] = "waiting" THEN [at EXCEPT ![o] = "over"] ELSE at
    BY <1>3 DEF RunToEnd, RunToConflict, RunToError, Respond, Reaches, Completed,
                Failed, Stopped, Finish, opVars
  <2>2. QED
    BY <2>1 DEF TypeOK, Moves, OnlyMoves
<1>4. CASE Succeed(o) \/ WorkerDies(o)
  BY <1>4 DEF Succeed, WorkerDies, EndTask, opVars, TypeOK, Moves, OnlyMoves
<1>5. CASE Retry(o)
  BY <1>5 DEF Retry, EndTask, opVars, TypeOK, Moves, OnlyMoves
<1>6. CASE PollEnds(o) \/ LoseAnswer(o)
  <2>1. Running(o) /\ at' = [at EXCEPT ![o] = "over"] /\ UNCHANGED <<srv, task, tries>>
    BY <1>6 DEF PollEnds, LoseAnswer, Completed, Failed, Finish, siteVars, Running
  <2>2. QED
    BY <2>1 DEF TypeOK, Moves, OnlyMoves
<1>7. QED
  BY <1>1, <1>2, <1>3, <1>4, <1>5, <1>6 DEF GoesOn, Serve, Work

LEMMA MovesLower ==
    ASSUME TypeOK, NEW o \in Operations, Moves(o)
    PROVE  Left(o)' \in Nat /\ Left(o)' < Left(o)
<1>1. tries[o] \in Nat /\ tries[o] <= MaxRetries /\ MaxRetries \in Nat
  BY PageAssumption DEF TypeOK
<1>2. QED
  BY <1>1, NoneAssumption DEF Moves, Left, HandlerLeft, TaskLeft, PageLeft, Running

LEMMA LeftType ==
    ASSUME TypeOK, NEW o \in Operations
    PROVE  Left(o) \in Nat
<1>1. tries[o] \in Nat /\ tries[o] <= MaxRetries /\ MaxRetries \in Nat
  BY PageAssumption DEF TypeOK
<1>2. QED
  BY <1>1 DEF Left, HandlerLeft, TaskLeft, PageLeft

\* What the operator does starts another operation, or none.
LEMMA OperatorLeaves ==
    ASSUME TypeOK, Operator \/ UNCHANGED vars, NEW o \in Operations, Running(o)
    PROVE  at'[o] = at[o] /\ srv'[o] = srv[o] /\ task'[o] = task[o] /\ tries'[o] = tries[o]
<1>1. ASSUME NEW q \in Operations, NEW k, NEW r, Post(q, k, r)
      PROVE  at'[o] = at[o] /\ srv'[o] = srv[o] /\ task'[o] = task[o]
             /\ tries'[o] = tries[o]
  <2>1. q # o
    BY <1>1, NoneAssumption DEF Post, Free, Running
  <2>2. QED
    BY <1>1, <2>1 DEF Post, TypeOK
<1>2. CASE \E q \in Operations : \E k, r : Post(q, k, r)
  BY <1>1, <1>2
<1>3. CASE UNCHANGED <<at, srv, task, tries>>
  BY <1>3
<1>4. QED
  BY <1>2, <1>3 DEF vars, opVars, siteVars, Operator, StartPull, StartPackage, Answer,
                    CloseConflict, Edit

LEMMA NextPolled == TypeOK /\ Polled /\ [Next]_vars => Polled'
<1> SUFFICES ASSUME TypeOK, Polled, [Next]_vars, NEW o \in Operations,
                    at'[o] = "polling"
             PROVE  task'[o] # None
  BY DEF Polled
<1>1. ASSUME NEW q \in Operations, GoesOn(q) PROVE task'[o] # None
  <2>1. Moves(q) /\ OnlyMoves(q)
    BY <1>1, OperationMoves
  <2>2. CASE q = o
    BY <2>1, <2>2, NoneAssumption DEF Moves, Polled
  <2>3. CASE q # o
    BY <2>1, <2>3 DEF OnlyMoves, Polled
  <2>4. QED
    BY <2>2, <2>3
<1>2. ASSUME NEW q \in Operations, NEW k, NEW r, Post(q, k, r) PROVE task'[o] # None
  BY <1>2 DEF Post, TypeOK, Polled
<1>3. CASE UNCHANGED <<at, task>>
  BY <1>3 DEF Polled
<1>4. QED
  BY <1>1, <1>2, <1>3
     DEF Next, GoesOn, vars, opVars, siteVars, Operator, StartPull, StartPackage, Answer,
         CloseConflict, Edit

\* However operations overlap, are retried or run twice: until the page has its
\* report, or a worker has died with the task, there is a step to be taken, and
\* only so many of them are left.  With handlers and workers that go on, this is
\* PageHearsBack.
THEOREM ReportsAreNearing == Spec => ReportsCome
<1>1. Init => Polled
  BY NoneAssumption DEF Init, Polled
<1>2. ASSUME PageInv, Polled, [Next]_vars PROVE ReportNearer
  <2> SUFFICES ASSUME NEW o \in Operations, Running(o)
               PROVE  /\ at[o] = "waiting" => srv[o] \in {"handling", "running"}
                      /\ at[o] = "polling" =>
                            task[o] \in {"queued", "SUCCESS", "FAILURE", "lost"}
                      /\ Left(o)' \in Nat /\ Left(o)' <= Left(o)
                      /\ GoesOn(o) => Left(o)' < Left(o)
    BY DEF ReportNearer
  <2>1. TypeOK /\ Attended
    BY <1>2 DEF PageInv
  <2>2. /\ at[o] = "waiting" => srv[o] \in {"handling", "running"}
        /\ at[o] = "polling" => task[o] \in {"queued", "SUCCESS", "FAILURE", "lost"}
    BY <1>2, <2>1 DEF Attended, Polled, TypeOK
  <2>3. Left(o) \in Nat
    BY <2>1, LeftType
  <2>4. CASE GoesOn(o)
    <3>1. Left(o)' \in Nat /\ Left(o)' < Left(o)
      BY <2>1, <2>4, OperationMoves, MovesLower
    <3>2. QED
      BY <2>2, <2>3, <3>1
  <2>5. CASE ~GoesOn(o)
    <3>1. at'[o] = at[o] /\ srv'[o] = srv[o] /\ task'[o] = task[o] /\ tries'[o] = tries[o]
      <4>1. ASSUME NEW q \in Operations, GoesOn(q), q # o
            PROVE  at'[o] = at[o] /\ srv'[o] = srv[o] /\ task'[o] = task[o]
                   /\ tries'[o] = tries[o]
        BY <2>1, <4>1, OperationMoves DEF OnlyMoves
      <4>2. QED
        BY <1>2, <2>1, <2>5, <4>1, OperatorLeaves DEF Next, GoesOn
    <3>2. Left(o)' = Left(o)
      BY <3>1 DEF Left, HandlerLeft, TaskLeft, PageLeft, Running
    <3>3. QED
      BY <2>2, <2>3, <2>5, <3>2
  <2>6. QED
    BY <2>4, <2>5
<1>3. PageInv => TypeOK
  BY DEF PageInv
<1>4. QED
  BY <1>1, <1>2, <1>3, PageAlways, NextPolled, PTL DEF Spec, ReportsCome
=============================================================================
