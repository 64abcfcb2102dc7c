------------------------- MODULE CorpusPage_proofs -------------------------
(***************************************************************************)
(* Theorems about CorpusPage, for every value of its constants: any number  *)
(* of runs, of requests in flight and of clicks.                            *)
(***************************************************************************)
EXTENDS CorpusPage, FiniteSetTheorems, TLAPS

CorpusInv == TypeOK /\ IsFiniteSet(waiting)

----------------------------------------------------------------------------
(* Type correctness.                                                       *)

\* One continuation more where there is room, or one in the place of another.
LEMMA OneMore ==
    ASSUME CorpusInv, NEW k \in Continuations, Room
    PROVE  /\ waiting \cup {k} \in SUBSET Continuations
           /\ IsFiniteSet(waiting \cup {k})
           /\ Cardinality(waiting \cup {k}) <= MaxPending
<1>1. /\ waiting \in SUBSET Continuations /\ IsFiniteSet(waiting)
      /\ Cardinality(waiting) \in Nat /\ Cardinality(waiting) < MaxPending
      /\ MaxPending \in Nat
  BY FS_CardinalityType, CorpusAssumption DEF CorpusInv, TypeOK, Room
<1>2. QED
  BY <1>1, FS_AddElement

LEMMA OneLess ==
    ASSUME CorpusInv, NEW k \in waiting
    PROVE  /\ k \in Continuations
           /\ Rest(k) \in SUBSET Continuations
           /\ IsFiniteSet(Rest(k)) /\ Cardinality(Rest(k)) <= MaxPending
           /\ \A j \in Continuations :
                 /\ Rest(k) \cup {j} \in SUBSET Continuations
                 /\ IsFiniteSet(Rest(k) \cup {j})
                 /\ Cardinality(Rest(k) \cup {j}) <= MaxPending
<1>1. /\ waiting \in SUBSET Continuations /\ IsFiniteSet(waiting)
      /\ Cardinality(waiting) \in Nat /\ Cardinality(waiting) <= MaxPending
      /\ MaxPending \in Nat
  BY FS_CardinalityType, CorpusAssumption DEF CorpusInv, TypeOK
<1>2. IsFiniteSet(Rest(k)) /\ Cardinality(Rest(k)) = Cardinality(waiting) - 1
  BY <1>1, FS_RemoveElement DEF Rest
<1>3. ASSUME NEW j \in Continuations
      PROVE  /\ IsFiniteSet(Rest(k) \cup {j})
             /\ Cardinality(Rest(k) \cup {j}) <= MaxPending
  <2>1. /\ IsFiniteSet(Rest(k) \cup {j})
        /\ Cardinality(Rest(k) \cup {j}) =
              IF j \in Rest(k) THEN Cardinality(Rest(k)) ELSE Cardinality(Rest(k)) + 1
    BY <1>2, FS_AddElement
  <2>2. QED
    BY <1>1, <1>2, <2>1
<1>4. QED
  BY <1>1, <1>2, <1>3 DEF Rest

Texts == {"", "progress", "failed", "no manifest", "no list", "no runs",
          "starting", "started", "no start"}

WaitingTypes == /\ waiting \in SUBSET Continuations /\ IsFiniteSet(waiting)
                /\ Cardinality(waiting) <= MaxPending

PageTypes ==
    /\ listed \in [Runs -> InProgress \cup Ended \cup {None}]
    /\ run \in Runs \cup {None}
    /\ manifest \in Runs \cup {None}
    /\ timer \in Runs \cup {None}
    /\ says \in Texts
    /\ panel \in Runs \cup {None}
    /\ WaitingTypes

LEMMA TypesSplit ==
    CorpusInv =>
        /\ status \in [Runs -> InProgress \cup Ended \cup {None}]
        /\ exec \in [Executions -> {None, "waiting", "working", "returned", "raised", "dead"}]
        /\ PageTypes
        /\ clicks \in 0..MaxClicks
        /\ broken \in BOOLEAN
BY DEF CorpusInv, TypeOK, PageTypes, WaitingTypes, Texts

LEMMA TypesJoin ==
    ASSUME /\ status' \in [Runs -> InProgress \cup Ended \cup {None}]
           /\ exec' \in [Executions -> {None, "waiting", "working", "returned", "raised", "dead"}]
           /\ PageTypes'
           /\ clicks' \in 0..MaxClicks
           /\ broken' \in BOOLEAN
    PROVE  CorpusInv'
BY DEF CorpusInv, TypeOK, PageTypes, WaitingTypes, Texts

LEMMA InitTypes == Init => CorpusInv
<1> SUFFICES ASSUME Init PROVE CorpusInv
  OBVIOUS
<1>1. Await("list", None, None) \in Continuations
  BY DEF Await, Continuations
<1>2. IsFiniteSet(waiting) /\ Cardinality(waiting) = 1
  <2>1. {} \cup {Await("list", None, None)} = waiting
    BY DEF Init
  <2>2. QED
    BY <2>1, FS_EmptySet, FS_AddElement
<1>3. /\ status \in [Runs -> InProgress \cup Ended \cup {None}]
      /\ exec \in [Executions -> {None, "waiting", "working", "returned", "raised", "dead"}]
      /\ listed \in [Runs -> InProgress \cup Ended \cup {None}]
  BY DEF Init, Ended
<1>4. /\ waiting \in SUBSET Continuations /\ 1 <= MaxPending /\ 0 \in 0..MaxClicks
  <2>1. waiting \in SUBSET Continuations
    BY <1>1 DEF Init
  <2>2. 1 <= MaxPending /\ 0 \in 0..MaxClicks
    BY CorpusAssumption
  <2>3. QED
    BY <2>1, <2>2
<1>5. QED
  BY <1>2, <1>3, <1>4 DEF Init, CorpusInv, TypeOK

\* Await makes a continuation.
LEMMA AwaitTypes ==
    ASSUME NEW what \in {"start", "list", "poll", "manifest", "report"},
           NEW r \in Runs \cup {None}, NEW after \in Runs \cup {None}
    PROVE  Await(what, r, after) \in Continuations
BY DEF Await, Continuations

\* corpusSelectRun, whatever it was called from.
LEMMA SelectTypes ==
    ASSUME CorpusInv, NEW r \in Runs, NEW seen, NEW wait,
           NEW after \in Runs \cup {None}, SelectRun(r, seen, wait, after),
           \A j \in Continuations :
              /\ wait \cup {j} \in SUBSET Continuations
              /\ IsFiniteSet(wait \cup {j}) /\ Cardinality(wait \cup {j}) <= MaxPending,
           /\ wait \in SUBSET Continuations
           /\ IsFiniteSet(wait) /\ Cardinality(wait) <= MaxPending,
           listed' \in [Runs -> InProgress \cup Ended \cup {None}]
    PROVE  PageTypes'
<1>1. Await("manifest", r, after) \in Continuations
  BY AwaitTypes
<1>2. WaitingTypes'
  BY <1>1 DEF SelectRun, WaitingTypes
<1>3. Then(after, r) \in Runs /\ Then(after, timer) \in Runs \cup {None}
  BY TypesSplit DEF Then, PageTypes
<1>4. timer' \in Runs \cup {None} /\ says' \in Texts
  BY <1>3, TypesSplit DEF SelectRun, PageTypes, Texts
<1>5. QED
  BY <1>2, <1>4, TypesSplit DEF SelectRun, PageTypes

LEMMA ReaderTypes ==
    ASSUME CorpusInv,
           \/ Redraw \/ Tick
           \/ \E r \in Runs : Pick(r) \/ Start(r)
    PROVE  CorpusInv'
<1>0. /\ PageTypes /\ clicks \in 0..MaxClicks
      /\ clicks < MaxClicks => clicks + 1 \in 0..MaxClicks
  BY TypesSplit, CorpusAssumption
<1>1. ASSUME NEW r \in Runs, Pick(r) PROVE CorpusInv'
  <2>1. \A j \in Continuations :
           /\ waiting \cup {j} \in SUBSET Continuations
           /\ IsFiniteSet(waiting \cup {j}) /\ Cardinality(waiting \cup {j}) <= MaxPending
    BY <1>1, OneMore DEF Pick, Click
  <2>2. SelectRun(r, listed, waiting, None) /\ listed' = listed
    BY <1>1 DEF Pick
  <2>3. PageTypes'
    BY <1>0, <2>1, <2>2, SelectTypes DEF PageTypes, WaitingTypes
  <2>4. QED
    BY <1>0, <1>1, <2>3, TypesSplit, TypesJoin DEF Pick, Click, serverVars
<1>2. CASE Redraw
  <2>1. Await("report", run, None) \in Continuations
    BY <1>0, AwaitTypes DEF PageTypes
  <2>2. WaitingTypes'
    BY <1>2, <2>1, OneMore DEF Redraw, Click, WaitingTypes
  <2>3. QED
    BY <1>0, <1>2, <2>2, TypesSplit, TypesJoin DEF Redraw, Click, serverVars, PageTypes
<1>3. CASE Tick
  <2>1. Await("poll", timer, None) \in Continuations
    BY <1>0, AwaitTypes DEF PageTypes
  <2>2. WaitingTypes'
    BY <1>3, <2>1, OneMore DEF Tick, WaitingTypes
  <2>3. QED
    BY <1>0, <1>3, <2>2, TypesSplit, TypesJoin DEF Tick, serverVars, PageTypes
<1>4. ASSUME NEW r \in Runs, Start(r) PROVE CorpusInv'
  <2>1. Await("start", r, None) \in Continuations
    BY AwaitTypes
  <2>2. WaitingTypes'
    BY <1>4, <2>1, OneMore DEF Start, WaitingTypes
  <2>3. PageTypes'
    BY <1>0, <1>4, <2>2 DEF Start, PageTypes, Texts
  <2>4. /\ status' \in [Runs -> InProgress \cup Ended \cup {None}]
        /\ exec' \in [Executions -> {None, "waiting", "working", "returned", "raised", "dead"}]
    BY <1>4, TypesSplit DEF Start, InProgress
  <2>5. QED
    BY <1>0, <1>4, <2>3, <2>4, TypesSplit, TypesJoin DEF Start
<1>5. QED
  BY <1>1, <1>2, <1>3, <1>4

LEMMA ExecutionTypes ==
    ASSUME CorpusInv, NEW e \in Executions, Execution(e)
    PROVE  CorpusInv'
<1>1. PageTypes' /\ UNCHANGED <<clicks, broken>>
  BY TypesSplit DEF Execution, Begin, MakeDirsFails, Return, Raise, Die, pageVars,
                    PageTypes, WaitingTypes
<1>2. /\ status' \in [Runs -> InProgress \cup Ended \cup {None}]
      /\ exec' \in [Executions -> {None, "waiting", "working", "returned", "raised", "dead"}]
  BY TypesSplit DEF Execution, Begin, MakeDirsFails, Return, Raise, Die, InProgress, Ended, Executions
<1>3. QED
  BY <1>1, <1>2, TypesSplit, TypesJoin

LEMMA AnswerTypes ==
    ASSUME CorpusInv, NEW k \in waiting, Answer(k) \/ Refusal(k)
    PROVE  CorpusInv'
<1>0. /\ PageTypes /\ k \in Continuations /\ UNCHANGED serverVars
      /\ k.run \in Runs \cup {None} /\ k.after \in Runs \cup {None}
      /\ Then(k.after, timer) \in Runs \cup {None}
      /\ status \in [Runs -> InProgress \cup Ended \cup {None}]
      /\ clicks' = clicks /\ broken' \in BOOLEAN
  BY TypesSplit, OneLess
     DEF Answer, Refusal, Answered, Break, StartAnswered, ListAnswered, PollAnswered,
         ManifestAnswered, ReportAnswered, StartRefused, ListRefused, PollRefused,
         ManifestRefused, Then, PageTypes, Continuations
<1>1. PageTypes' => CorpusInv'
  BY <1>0, TypesSplit, TypesJoin DEF serverVars
<1>2. /\ waiting' = Rest(k) => WaitingTypes'
      /\ \A j \in Continuations : waiting' = Rest(k) \cup {j} => WaitingTypes'
  BY OneLess DEF WaitingTypes
<1>3. CASE \E r \in Runs :
             /\ listed' = status
             /\ SelectRun(r, status, Rest(k), k.after)
  BY <1>0, <1>1, <1>3, OneLess, SelectTypes
<1>4. CASE \/ StartAnswered(k) \/ PollAnswered(k) \/ ManifestAnswered(k)
  <2>1. /\ Await("list", k.run, IF Queued(k.run) THEN k.run ELSE None) \in Continuations
        /\ Await("list", k.run, None) \in Continuations
        /\ Await("report", run, k.after) \in Continuations
    BY <1>0, AwaitTypes DEF PageTypes
  <2>2. WaitingTypes'
    BY <1>2, <1>4, <2>1 DEF StartAnswered, PollAnswered, ManifestAnswered
  <2>3. QED
    BY <1>0, <1>1, <1>4, <2>2
       DEF StartAnswered, PollAnswered, ManifestAnswered, PageTypes, Texts
<1>5. CASE Refusal(k) \/ ReportAnswered(k)
  <2>1. WaitingTypes'
    BY <1>2, <1>5 DEF Refusal, StartRefused, ListRefused, PollRefused, ManifestRefused,
                      Break, ReportAnswered
  <2>2. QED
    BY <1>0, <1>1, <1>5, <2>1
       DEF Refusal, StartRefused, ListRefused, PollRefused, ManifestRefused, Break,
           ReportAnswered, PageTypes, Texts
<1>6. CASE ListAnswered(k) /\ waiting' = Rest(k) /\ UNCHANGED <<run, manifest, timer, panel>>
  BY <1>0, <1>1, <1>2, <1>6 DEF ListAnswered, PageTypes, Texts, SelectRun
<1>7. QED
  BY <1>3, <1>4, <1>5, <1>6 DEF Answer, ListAnswered

LEMMA NextTypes == CorpusInv /\ [Next]_vars => CorpusInv'
<1> SUFFICES ASSUME CorpusInv, [Next]_vars PROVE CorpusInv'
  OBVIOUS
<1>1. CASE UNCHANGED vars
  BY <1>1 DEF vars, serverVars, pageVars, CorpusInv, TypeOK
<1>2. QED
  BY <1>1, ReaderTypes, ExecutionTypes, AnswerTypes DEF Next

\* Every reachable state has its types, and no more requests are in flight than
\* the bound allows.
THEOREM TypeCorrect == Spec => []TypeOK
BY InitTypes, NextTypes, PTL DEF Spec, CorpusInv

----------------------------------------------------------------------------
(* A run in progress is watched.                                           *)

LEMMA SelectHears ==
    ASSUME NEW r \in Runs, NEW seen, NEW wait, NEW after, SelectRun(r, seen, wait, after)
    PROVE  InProgressIsWatched'
<1>1. CASE says' = "progress" /\ timer' = Then(after, r)
  <2>1. r # None
    BY CorpusAssumption DEF Runs
  <2>2. timer' # None
    BY <1>1, <2>1 DEF Then
  <2>3. QED
    BY <2>2 DEF InProgressIsWatched
<1>2. CASE says' = "failed"
  BY <1>2 DEF InProgressIsWatched
<1>3. CASE waiting' = wait \cup {Await("manifest", r, after)}
  <2>1. Await("manifest", r, after) \in waiting'
    BY <1>3
  <2>2. Await("manifest", r, after).what = "manifest"
    BY DEF Await
  <2>3. QED
    BY <2>1, <2>2 DEF InProgressIsWatched
<1>4. QED
  BY <1>1, <1>2, <1>3 DEF SelectRun

LEMMA NextHears == CorpusInv /\ InProgressIsWatched /\ [Next]_vars => InProgressIsWatched'
<1> SUFFICES ASSUME CorpusInv, InProgressIsWatched, [Next]_vars
             PROVE  InProgressIsWatched'
  OBVIOUS
<1>1. CASE UNCHANGED vars \/ \E e \in Executions : Execution(e)
  <2>1. UNCHANGED <<says, timer, waiting, broken>>
    BY <1>1 DEF vars, pageVars, Execution, Begin, MakeDirsFails, Return, Raise, Die
  <2>2. QED
    BY <2>1 DEF InProgressIsWatched
<1>2. CASE Redraw \/ Tick
  BY <1>2 DEF Redraw, Tick, Click, InProgressIsWatched
<1>3. ASSUME NEW r \in Runs, Pick(r) \/ Start(r) PROVE InProgressIsWatched'
  BY <1>3, SelectHears DEF Pick, Start, InProgressIsWatched
<1>4. ASSUME NEW k \in waiting, Answer(k) PROVE InProgressIsWatched'
  <2>1. CASE ListAnswered(k)
    BY <2>1, SelectHears DEF ListAnswered, InProgressIsWatched
  <2>2. CASE PollAnswered(k)
    <3>1. CASE waiting' = Rest(k) \cup {Await("list", k.run, None)}
      <4>1. Await("list", k.run, None) \in waiting'
        BY <3>1
      <4>2. Await("list", k.run, None).what = "list"
        BY DEF Await
      <4>3. QED
        BY <4>1, <4>2 DEF InProgressIsWatched
    <3>2. CASE waiting' = Rest(k) /\ timer' = timer
      BY <2>2, <3>2 DEF PollAnswered, Answered, Rest, InProgressIsWatched
    <3>3. QED
      BY <2>2, <3>1, <3>2 DEF PollAnswered
  <2>3. CASE ReportAnswered(k)
    BY <2>3 DEF ReportAnswered, Answered, Rest, Then, InProgressIsWatched
  <2>4. QED
    BY <1>4, <2>1, <2>2, <2>3 DEF Answer, StartAnswered, ManifestAnswered, InProgressIsWatched
<1>5. ASSUME NEW k \in waiting, Refusal(k) PROVE InProgressIsWatched'
  BY <1>5 DEF Refusal, StartRefused, ListRefused, PollRefused, ManifestRefused, Break,
              Answered, Rest, InProgressIsWatched
<1>6. QED
  BY <1>1, <1>2, <1>3, <1>4, <1>5 DEF Next

\* The page never says of a run that it is in progress without a timer or a
\* request that will say more, whatever order the answers come in.
THEOREM ProgressIsWatched == Spec => []InProgressIsWatched
<1>1. Init => InProgressIsWatched
  BY DEF Init, InProgressIsWatched
<1>2. QED
  BY <1>1, InitTypes, NextTypes, NextHears, PTL DEF Spec

----------------------------------------------------------------------------
(* The safety half of ProgressEnds.                                        *)

\* How many steps the executions of a run still have.
Steps(e) == IF exec[e] = "waiting" THEN 2 ELSE IF exec[e] = "working" THEN 1 ELSE 0
StepsLeft(r) == Steps(<<r, "request">>) + Steps(<<r, "worker">>)

\* The server has what the page asks for, also where the page went by a list that
\* is out of date, or by one of a run that a worker then executed once more: each
\* manifest is written, each run polled exists.  A run that is in progress is
\* executed, or stuck.
AskedIsThere ==
    /\ \A k \in waiting : k.what = "manifest" => k.run \in Runs /\ Written(k.run)
    /\ \A k \in waiting : k.what = "poll" => k.run \in Runs /\ status[k.run] # None
    /\ timer # None => status[timer] # None
    /\ \A r \in Runs : status[r] \in InProgress => StepsLeft(r) > 0 \/ Stuck(r)

\* A run comes nearer to its end with each step of its executions; when none of
\* them goes on it stays as it is, and nothing else moves it.
RunNearer ==
    \A r \in Runs :
        /\ StepsLeft(r) = 0 /\ status[r] # None => status'[r] = status[r]
        /\ status[r] # None => StepsLeft(r)' <= StepsLeft(r)
        /\ \A x \in Executors : Execution(<<r, x>>) => StepsLeft(r)' < StepsLeft(r)

RunsComeToEnd == [][RunNearer]_vars

\* Inductive: what a run's row and its executions have to do with each other, ...
Executed ==
    \A r \in Runs :
        /\ status[r] = None => \A x \in Executors : exec[<<r, x>>] = None
        /\ status[r] \in InProgress =>
              \E x \in Executors :
                 exec[<<r, x>>] \in {"waiting", "working", "raised", "dead"}
        /\ status[r] = "done" => Written(r)

\* ... what a list that may be out of date still says of the runs, ...
ListStands ==
    \A r \in Runs : /\ listed[r] # None => status[r] # None
                    /\ listed[r] = "done" => Written(r)

\* ... and what the page keeps of them.
There(r) == r # None => r \in Runs /\ status[r] # None

Stands(k) ==
    /\ There(k.run) /\ There(k.after)
    /\ k.what \in {"poll", "start"} => k.run # None
    /\ k.what = "manifest" => k.run # None /\ Written(k.run)

AskedInv ==
    /\ Executed /\ ListStands /\ There(timer) /\ There(run)
    /\ \A k \in waiting : Stands(k)

\* Runs only come into being, and their manifests.
RunsGoOn ==
    \A r \in Runs : /\ status[r] # None => status'[r] # None
                    /\ Written(r) => Written(r)'

LEMMA AskedLater ==
    ASSUME AskedInv, Executed', RunsGoOn, UNCHANGED <<listed, run, timer>>,
           \A k \in waiting' : k \in waiting \/ Stands(k)'
    PROVE  AskedInv'
<1>1. ListStands' /\ There(timer)' /\ There(run)'
  BY DEF AskedInv, ListStands, There, RunsGoOn
<1>2. \A k \in waiting : Stands(k)'
  BY DEF AskedInv, Stands, There, RunsGoOn
<1>3. QED
  BY <1>1, <1>2 DEF AskedInv

\* What a step of an execution does.
LEMMA ExecutionMoves ==
    ASSUME CorpusInv, NEW e \in Executions, Execution(e)
    PROVE  /\ \A d \in Executions : d # e => exec'[d] = exec[d]
           /\ \A q \in Runs : q # e[1] => status'[q] = status[q]
           /\ \/ exec[e] = "waiting" /\ exec'[e] = "working" /\ status'[e[1]] = "running"
              \/ /\ exec[e] = "working" /\ exec'[e] = "raised"
                 /\ status'[e[1]] \in {status[e[1]], "failed"}
              \/ exec[e] = "working" /\ exec'[e] = "returned" /\ status'[e[1]] = "done"
              \/ /\ exec[e] \in {"waiting", "working"} /\ exec'[e] = "dead"
                 /\ status'[e[1]] = status[e[1]]
BY TypesSplit DEF Execution, Begin, MakeDirsFails, Return, Raise, Die, Executions

\* The two executions of a run.
LEMMA TwoExecutions ==
    ASSUME NEW r \in Runs
    PROVE  /\ <<r, "request">> \in Executions /\ <<r, "worker">> \in Executions
           /\ <<r, "request">> # <<r, "worker">>
           /\ Executors = {"request", "worker"}
BY DEF Executions, Executors

LEMMA StepsType == \A e : Steps(e) \in 0..2
BY DEF Steps

LEMMA ExecutionAsked ==
    ASSUME CorpusInv, AskedInv, NEW e \in Executions, Execution(e)
    PROVE  AskedInv' /\ RunNearer
<1>0. PICK r \in Runs, x \in Executors : e = <<r, x>>
  BY DEF Executions
<1>1. /\ Executed
      /\ status \in [Runs -> InProgress \cup Ended \cup {None}]
  BY TypesSplit DEF AskedInv
<1>2. /\ \A d \in Executions : d # e => exec'[d] = exec[d]
      /\ \A q \in Runs : q # r => status'[q] = status[q]
      /\ \/ exec[e] = "waiting" /\ exec'[e] = "working" /\ status'[r] = "running"
         \/ /\ exec[e] = "working" /\ exec'[e] = "raised"
            /\ status'[r] \in {status[r], "failed"}
         \/ exec[e] = "working" /\ exec'[e] = "returned" /\ status'[r] = "done"
         \/ /\ exec[e] \in {"waiting", "working"} /\ exec'[e] = "dead"
            /\ status'[r] = status[r]
  BY <1>0, ExecutionMoves
<1>3. /\ status[r] # None
      /\ \A q \in Runs : q # r => \A y \in Executors : exec'[<<q, y>>] = exec[<<q, y>>]
      /\ \A y \in Executors : y # x => exec'[<<r, y>>] = exec[<<r, y>>]
      /\ status'[r] # None
  BY <1>0, <1>1, <1>2, NoneAssumption DEF Executed, Executions
<1>4. RunsGoOn
  <2>1. ASSUME NEW q \in Runs, Written(q) PROVE Written(q)'
    <3>1. PICK y \in Executors : exec[<<q, y>>] = "returned"
      BY <2>1 DEF Written
    <3>2. <<q, y>> # e
      BY <1>2, <3>1
    <3>3. exec'[<<q, y>>] = "returned"
      BY <1>2, <3>1, <3>2 DEF Executions
    <3>4. QED
      BY <3>3 DEF Written
  <2>2. QED
    BY <1>2, <1>3, <2>1 DEF RunsGoOn
<1>5. Executed'
  <2>1. ASSUME NEW q \in Runs, q # r
        PROVE  /\ status'[q] = None => \A y \in Executors : exec'[<<q, y>>] = None
               /\ status'[q] \in InProgress =>
                     \E y \in Executors :
                        exec'[<<q, y>>] \in {"waiting", "working", "raised", "dead"}
               /\ status'[q] = "done" => Written(q)'
    BY <1>1, <1>2, <1>3, <1>4, <2>1 DEF Executed, RunsGoOn
  <2>2. /\ status'[r] \in InProgress =>
              exec'[<<r, x>>] \in {"waiting", "working", "raised", "dead"}
        /\ status'[r] = "done" => Written(r)'
    BY <1>0, <1>1, <1>2, <1>4 DEF Executed, RunsGoOn, Written, InProgress
  <2>3. QED
    BY <1>3, <2>1, <2>2 DEF Executed
<1>6. RunNearer
  <2>1. Steps(e)' < Steps(e) /\ Steps(e) \in 0..2 /\ Steps(e)' \in 0..2
    BY <1>2, NoneAssumption DEF Steps
  <2>2. ASSUME NEW d \in Executions, d # e
        PROVE  Steps(d)' = Steps(d) /\ Steps(d) \in 0..2 /\ ~Execution(d)
    <3>1. exec'[d] = exec[d]
      BY <1>2, <2>2
    <3>2. ~Execution(d)
      <4>1. SUFFICES ASSUME Execution(d) PROVE FALSE
        OBVIOUS
      <4>2. exec'[d] # exec[d]
        BY <4>1, ExecutionMoves
      <4>3. QED
        BY <3>1, <4>2
    <3>3. QED
      BY <3>1, <3>2, StepsType DEF Steps
  <2>3. ASSUME NEW q \in Runs, q # r
        PROVE  /\ status'[q] = status[q] /\ StepsLeft(q)' = StepsLeft(q)
               /\ StepsLeft(q) \in Nat
               /\ \A y \in Executors : ~Execution(<<q, y>>)
    <3>1. /\ <<q, "request">> # e /\ <<q, "worker">> # e
          /\ <<q, "request">> \in Executions /\ <<q, "worker">> \in Executions
      BY <1>0, <2>3 DEF Executions, Executors
    <3>2. QED
      BY <1>2, <2>2, <2>3, <3>1 DEF StepsLeft, Executors
  <2>4. /\ StepsLeft(r)' < StepsLeft(r) /\ StepsLeft(r) # 0
        /\ StepsLeft(r) \in Nat /\ StepsLeft(r)' \in Nat
    <3>1. CASE x = "request"
      <4>1. <<r, "worker">> # e /\ <<r, "worker">> \in Executions
        BY <1>0, <3>1, TwoExecutions
      <4>2. QED
        BY <1>0, <2>1, <2>2, <3>1, <4>1 DEF StepsLeft
    <3>2. CASE x = "worker"
      <4>1. <<r, "request">> # e /\ <<r, "request">> \in Executions
        BY <1>0, <3>2, TwoExecutions
      <4>2. QED
        BY <1>0, <2>1, <2>2, <3>2, <4>1 DEF StepsLeft
    <3>3. QED
      BY <3>1, <3>2 DEF Executors
  <2>5. ASSUME NEW q \in Runs
        PROVE  /\ StepsLeft(q) = 0 /\ status[q] # None => status'[q] = status[q]
               /\ status[q] # None => StepsLeft(q)' <= StepsLeft(q)
               /\ \A y \in Executors : Execution(<<q, y>>) => StepsLeft(q)' < StepsLeft(q)
    <3>1. CASE q = r
      BY <2>4, <3>1
    <3>2. CASE q # r
      BY <2>3, <3>2
    <3>3. QED
      BY <3>1, <3>2
  <2>6. QED
    BY <2>5 DEF RunNearer
<1>7. UNCHANGED <<listed, run, timer, waiting>>
  BY DEF Execution, Begin, MakeDirsFails, Return, Raise, Die, pageVars
<1>8. QED
  BY <1>4, <1>5, <1>6, <1>7, AskedLater

\* Steps of the page leave the runs alone.
LEMMA PageLeavesRuns ==
    ASSUME CorpusInv, AskedInv, UNCHANGED <<status, exec>>
    PROVE  Executed' /\ RunsGoOn /\ RunNearer
<1>1. Executed' /\ RunsGoOn
  BY DEF AskedInv, Executed, RunsGoOn, Written
<1>2. \A e \in Executions : ~Execution(e)
  <2>1. ASSUME NEW e \in Executions, Execution(e) PROVE FALSE
    <3>1. exec'[e] # exec[e]
      BY <2>1, ExecutionMoves
    <3>2. QED
      BY <3>1
  <2>2. QED
    BY <2>1
<1>3. \A r \in Runs : StepsLeft(r)' = StepsLeft(r) /\ StepsLeft(r) \in Nat
  BY StepsType DEF StepsLeft, Steps
<1>4. QED
  BY <1>1, <1>2, <1>3 DEF RunNearer, Executions

\* corpusSelectRun asks for the manifest of a run that is done, and polls one that
\* is there.
LEMMA SelectAsked ==
    ASSUME AskedInv, UNCHANGED <<status, exec>>, Executed', ListStands',
           NEW r \in Runs, NEW seen, NEW wait, NEW after,
           SelectRun(r, seen, wait, after), There(after), wait \subseteq waiting,
           status[r] # None, seen[r] = "done" => Written(r)
    PROVE  AskedInv'
<1>1. r # None
  BY CorpusAssumption DEF Runs
<1>2. There(run)' /\ There(timer)'
  BY DEF SelectRun, There, Then, AskedInv
<1>3. ASSUME NEW k \in waiting' PROVE Stands(k)'
  <2>1. CASE k \in waiting
    BY <2>1 DEF AskedInv, Stands, There, Written
  <2>2. CASE k \notin waiting
    <3>1. k = Await("manifest", r, after) /\ seen[r] = "done"
      BY <1>3, <2>2 DEF SelectRun
    <3>2. k.run = r /\ k.after = after /\ k.what = "manifest"
      BY <3>1 DEF Await
    <3>3. QED
      BY <1>1, <3>1, <3>2 DEF Stands, There, Written
  <2>3. QED
    BY <2>1, <2>2
<1>4. QED
  BY <1>2, <1>3 DEF AskedInv

LEMMA ReaderAsked ==
    ASSUME CorpusInv, AskedInv,
           \/ Redraw \/ Tick
           \/ \E r \in Runs : Pick(r) \/ Start(r)
    PROVE  AskedInv' /\ RunNearer
<1>1. ASSUME NEW r \in Runs, Pick(r) PROVE AskedInv' /\ RunNearer
  <2>1. /\ UNCHANGED <<status, exec, listed>> /\ SelectRun(r, listed, waiting, None)
        /\ listed[r] # None
    BY <1>1 DEF Pick, Click, serverVars
  <2>2. Executed' /\ RunNearer
    BY <2>1, PageLeavesRuns
  <2>3. ListStands' /\ status[r] # None /\ (listed[r] = "done" => Written(r))
    BY <2>1 DEF AskedInv, ListStands, Written
  <2>4. There(None)
    BY DEF There
  <2>5. QED
    BY <2>1, <2>2, <2>3, <2>4, SelectAsked
<1>2. CASE Redraw
  <2>1. UNCHANGED <<status, exec, listed, run, timer>>
        /\ waiting' = waiting \cup {Await("report", run, None)}
    BY <1>2 DEF Redraw, Click, serverVars
  <2>2. Executed' /\ RunsGoOn /\ RunNearer
    BY <2>1, PageLeavesRuns
  <2>3. Stands(Await("report", run, None))'
    BY <2>1 DEF Stands, Await, There, AskedInv
  <2>4. QED
    BY <2>1, <2>2, <2>3, AskedLater
<1>3. CASE Tick
  <2>1. UNCHANGED <<status, exec, listed, run, timer>> /\ timer # None
        /\ waiting' = waiting \cup {Await("poll", timer, None)}
    BY <1>3 DEF Tick, serverVars
  <2>2. Executed' /\ RunsGoOn /\ RunNearer
    BY <2>1, PageLeavesRuns
  <2>3. Stands(Await("poll", timer, None))'
    BY <2>1 DEF Stands, Await, There, AskedInv
  <2>4. QED
    BY <2>1, <2>2, <2>3, AskedLater
<1>4. ASSUME NEW r \in Runs, Start(r) PROVE AskedInv' /\ RunNearer
  <2>1. /\ status[r] = None /\ UNCHANGED <<listed, run, timer>>
        /\ status' = [status EXCEPT ![r] = "pending"]
        /\ waiting' = waiting \cup {Await("start", r, None)}
    BY <1>4 DEF Start
  <2>2. PICK by \in (SUBSET Executors) \ {{}} :
           exec' = [e \in Executions |->
                       IF e[1] = r /\ e[2] \in by THEN "waiting" ELSE exec[e]]
    BY <1>4 DEF Start
  <2>3. /\ status'[r] = "pending"
        /\ \A x \in Executors : exec[<<r, x>>] = None
        /\ \A x \in by : x \in Executors /\ exec'[<<r, x>>] = "waiting"
        /\ \A q \in Runs : q # r => /\ status'[q] = status[q]
                                    /\ \A x \in Executors : exec'[<<q, x>>] = exec[<<q, x>>]
    BY <2>1, <2>2, TypesSplit DEF AskedInv, Executed, Executions
  <2>4. RunsGoOn /\ ~Written(r)
    BY <2>1, <2>3, NoneAssumption DEF RunsGoOn, Written
  <2>5. Executed'
    <3>1. ASSUME NEW q \in Runs, q # r
          PROVE  /\ status'[q] = None => \A x \in Executors : exec'[<<q, x>>] = None
                 /\ status'[q] \in InProgress =>
                       \E x \in Executors :
                          exec'[<<q, x>>] \in {"waiting", "working", "raised", "dead"}
                 /\ status'[q] = "done" => Written(q)'
      <4>1. /\ status[q] = None => \A x \in Executors : exec[<<q, x>>] = None
            /\ status[q] \in InProgress =>
                  \E x \in Executors :
                     exec[<<q, x>>] \in {"waiting", "working", "raised", "dead"}
            /\ status[q] = "done" => Written(q)
        BY DEF AskedInv, Executed
      <4>2. QED
        BY <2>3, <2>4, <3>1, <4>1 DEF RunsGoOn
    <3>2. \E x \in Executors : exec'[<<r, x>>] = "waiting"
      BY <2>2, <2>3
    <3>3. QED
      BY <2>3, <3>1, <3>2, NoneAssumption DEF Executed
  <2>6. RunNearer
    <3>1. \A e \in Executions : ~Execution(e)
      <4>1. ASSUME NEW e \in Executions, Execution(e) PROVE FALSE
        <5>1. /\ exec[e] \in {"waiting", "working"} /\ exec'[e] # exec[e]
              /\ exec'[e] # "waiting"
          BY <4>1, ExecutionMoves
        <5>2. QED
          BY <2>2, <5>1
      <4>2. QED
        BY <4>1
    <3>2. ASSUME NEW q \in Runs, q # r
          PROVE  status'[q] = status[q] /\ StepsLeft(q)' = StepsLeft(q)
                 /\ StepsLeft(q) \in Nat
      BY <2>3, <3>2, StepsType DEF StepsLeft, Steps, Executors
    <3>3. QED
      BY <2>1, <3>1, <3>2 DEF RunNearer, Executions
  <2>7. Stands(Await("start", r, None))'
    <3>1. r # None /\ status'[r] # None
      BY <2>3, CorpusAssumption, NoneAssumption DEF Runs
    <3>2. QED
      BY <3>1 DEF Stands, Await, There
  <2>8. QED
    BY <2>1, <2>4, <2>5, <2>6, <2>7, AskedLater
<1>5. QED
  BY <1>1, <1>2, <1>3, <1>4

LEMMA AnswerAsked ==
    ASSUME CorpusInv, AskedInv, NEW k \in waiting, Answer(k) \/ Refusal(k)
    PROVE  AskedInv' /\ RunNearer
<1>0. UNCHANGED <<status, exec>> /\ Stands(k) /\ Rest(k) \subseteq waiting
  BY DEF Answer, Refusal, Answered, Break, StartAnswered, ListAnswered, PollAnswered,
         ManifestAnswered, ReportAnswered, StartRefused, ListRefused, PollRefused,
         ManifestRefused, serverVars, AskedInv, Rest
<1>1. Executed' /\ RunsGoOn /\ RunNearer
  BY <1>0, PageLeavesRuns
<1>2. ASSUME NEW j, Stands(j)', waiting' \subseteq waiting \cup {j},
             UNCHANGED <<listed, run>>, timer' \in {None, timer, Then(k.after, timer)}
      PROVE  AskedInv'
  <2>1. There(timer)'
    BY <1>0, <1>2 DEF There, Then, Stands, AskedInv
  <2>2. There(run)' /\ ListStands'
    BY <1>0, <1>2 DEF There, ListStands, AskedInv, Written
  <2>3. \A i \in waiting : Stands(i)'
    BY <1>0 DEF AskedInv, Stands, There, Written
  <2>4. QED
    BY <1>1, <1>2, <2>1, <2>2, <2>3 DEF AskedInv
<1>3. CASE StartAnswered(k)
  <2>1. PICK j : j = Await("list", k.run, IF Queued(k.run) THEN k.run ELSE None)
    OBVIOUS
  <2>2. Stands(j)'
    BY <1>0, <2>1 DEF Stands, Await, There
  <2>3. waiting' = Rest(k) \cup {j} /\ UNCHANGED <<listed, run, timer>>
    BY <1>3, <2>1 DEF StartAnswered
  <2>4. QED
    BY <1>0, <1>1, <1>2, <2>2, <2>3
<1>4. CASE PollAnswered(k)
  <2>1. Stands(Await("list", k.run, None))'
    BY <1>0 DEF Stands, Await, There
  <2>2. /\ waiting' \subseteq waiting \cup {Await("list", k.run, None)}
        /\ UNCHANGED <<listed, run>> /\ timer' \in {None, timer}
    BY <1>0, <1>4 DEF PollAnswered
  <2>3. QED
    BY <1>1, <1>2, <2>1, <2>2
<1>5. CASE ManifestAnswered(k)
  <2>1. PICK j : j = Await("report", run, k.after)
    OBVIOUS
  <2>2. Stands(j)'
    BY <1>0, <2>1 DEF Stands, Await, There, AskedInv
  <2>3. waiting' \subseteq waiting \cup {j} /\ UNCHANGED <<listed, run, timer>>
    BY <1>0, <1>5, <2>1 DEF ManifestAnswered
  <2>4. QED
    BY <1>1, <1>2, <2>2, <2>3
<1>6. CASE Refusal(k) \/ ReportAnswered(k)
  <2>1. /\ waiting' = Rest(k) /\ UNCHANGED <<listed, run>>
        /\ timer' \in {timer, Then(k.after, timer)}
    BY <1>6 DEF Refusal, StartRefused, ListRefused, PollRefused, ManifestRefused, Break,
                ReportAnswered
  <2>2. Stands(k)'
    BY <1>0 DEF Stands, There, Written
  <2>3. QED
    BY <1>0, <1>1, <1>2, <2>1, <2>2
<1>7. CASE ListAnswered(k)
  <2>1. listed' = status /\ ListStands'
    BY <1>0, <1>1, <1>7 DEF ListAnswered, ListStands, Executed
  <2>2. CASE waiting' = Rest(k) /\ UNCHANGED <<run, manifest, timer, panel>>
    <3>1. There(run)' /\ There(timer)' /\ \A i \in waiting : Stands(i)'
      BY <1>0, <2>2 DEF AskedInv, Stands, There, Written
    <3>2. QED
      BY <1>0, <1>1, <2>1, <2>2, <3>1 DEF AskedInv
  <2>3. ASSUME NEW r \in Runs, Target(status, k.run, r),
               SelectRun(r, status, Rest(k), k.after)
        PROVE  AskedInv'
    <3>1. status[r] # None
      BY <2>3 DEF Target
    <3>2. There(k.after)
      BY <1>0 DEF Stands
    <3>3. status[r] = "done" => Written(r)
      BY DEF AskedInv, Executed
    <3>4. QED
      BY <1>0, <1>1, <2>1, <2>3, <3>1, <3>2, <3>3, SelectAsked
  <2>4. QED
    BY <1>1, <1>7, <2>2, <2>3 DEF ListAnswered
<1>8. QED
  BY <1>1, <1>3, <1>4, <1>5, <1>6, <1>7 DEF Answer

LEMMA NextAsked == CorpusInv /\ AskedInv /\ [Next]_vars => AskedInv' /\ RunNearer
<1> SUFFICES ASSUME CorpusInv, AskedInv, [Next]_vars PROVE AskedInv' /\ RunNearer
  OBVIOUS
<1>1. CASE UNCHANGED vars
  <2>1. UNCHANGED <<status, exec, listed, run, timer, waiting>>
    BY <1>1 DEF vars, serverVars, pageVars
  <2>2. QED
    BY <2>1, PageLeavesRuns, AskedLater
<1>2. QED
  BY <1>1, ReaderAsked, ExecutionAsked, AnswerAsked DEF Next

LEMMA AskedImplies == AskedInv => AskedIsThere
BY NoneAssumption
   DEF AskedInv, AskedIsThere, Stands, There, Executed, StepsLeft, Steps, Stuck,
       InProgress, Executors

\* What the page waits for, while it says that a run is in progress
\* (ProgressIsWatched), can come: the manifests it asks for are written, the runs it
\* polls exist, and each of them ends or is stuck.  With workers that go on and
\* answers that arrive, this is ProgressEnds.
THEOREM ProgressIsNearing == Spec => []AskedIsThere /\ RunsComeToEnd
<1>1. ASSUME Init PROVE AskedInv
  <2>1. ASSUME NEW r \in Runs
        PROVE  /\ status[r] \in {None, "done"}
               /\ status[r] = None => \A x \in Executors : exec[<<r, x>>] = None
               /\ status[r] = "done" => Written(r)
    <3>1. /\ status[r] = IF r <= OldRuns THEN "done" ELSE None
          /\ \A x \in Executors : exec[<<r, x>>] =
                IF r <= OldRuns /\ x = "worker" THEN "returned" ELSE None
      BY <1>1 DEF Init, Executions
    <3>2. QED
      BY <3>1, NoneAssumption DEF Written, Executors
  <2>2. Executed /\ ListStands
    BY <1>1, <2>1, NoneAssumption DEF Init, Executed, ListStands, InProgress
  <2>3. \A k \in waiting : k = Await("list", None, None)
    BY <1>1 DEF Init
  <2>4. Stands(Await("list", None, None))
    BY DEF Stands, Await, There
  <2>5. There(timer) /\ There(run)
    BY <1>1 DEF Init, There
  <2>6. QED
    BY <2>2, <2>3, <2>4, <2>5 DEF AskedInv
<1>2. QED
  BY <1>1, InitTypes, NextTypes, NextAsked, AskedImplies, PTL DEF Spec, RunsComeToEnd
=============================================================================
