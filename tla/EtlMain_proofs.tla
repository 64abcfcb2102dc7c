--------------------------- MODULE EtlMain_proofs ---------------------------
(***************************************************************************)
(* Theorems about EtlMain, for every value of its constants: any registry  *)
(* of peers, any number of concurrent pulls.  The refinement and what a    *)
(* refresh brings are proved for pulls along the routes of a tree.         *)
(***************************************************************************)
EXTENDS EtlMain, TLAPS

\* Updating one entry of a table with two indices keeps its type.
LEMMA SetAt2 ==
    ASSUME NEW A, NEW B, NEW S, NEW f \in [A -> [B -> S]],
           NEW a \in A, NEW b \in B, NEW x \in S
    PROVE  [f EXCEPT ![a][b] = x] \in [A -> [B -> S]]
OBVIOUS

LEMMA SetAt1 ==
    ASSUME NEW A, NEW S, NEW f \in [A -> S], NEW a \in A, NEW x \in S
    PROVE  [f EXCEPT ![a] = x] \in [A -> S]
OBVIOUS

LEMMA HopsNat == Hops \subseteq Nat /\ (0 \in Hops)
BY MainAssumption DEF Hops

LEMMA NoPullType == NoPull \in Frame
BY MainAssumption DEF NoPull, None, Frame

\* A frame that has just started is a frame.
LEMMA NewFrameType ==
    ASSUME NEW n \in Instances, NEW m \in Instances, NEW since \in Nat,
           NEW depth \in Nat, NEW seen \in [Uuids -> Nat]
    PROVE  NewFrame(n, m, since, depth, seen) \in Frame
BY NoPullType DEF NewFrame, Frame

\* The frames left when one is over.
LEMMA OverType ==
    ASSUME TypeOK, NEW p \in Pulls, NEW h \in Hops, NEW ok \in BOOLEAN
    PROVE  Over(p, h, ok) \in [Hops -> Frame]
<1>1. \A i \in Hops : job[p][i] \in Frame
  BY DEF TypeOK
<1>2. ASSUME NEW i \in Hops
      PROVE  [job[p][i] EXCEPT !.phase = "ready", !.fresh = ok /\ job[p][h].fresh] \in Frame
  <2>1. (ok /\ job[p][h].fresh) \in BOOLEAN
    OBVIOUS
  <2> DEFINE b == ok /\ job[p][h].fresh
  <2> HIDE DEF b
  <2>2. b \in BOOLEAN
    BY <2>1 DEF b
  <2>3. [job[p][i] EXCEPT !.phase = "ready", !.fresh = b] \in Frame
    BY <1>1, <2>2 DEF Frame
  <2>4. QED
    BY <2>3 DEF b
<1>3. QED
  BY <1>1, <1>2, NoPullType DEF Over

\* What a pull finds, keeps and buries.
LEMMA MergeTypes ==
    ASSUME TypeOK, NEW f \in Frame
    PROVE  /\ Merged(f) \in [Uuids -> Nat]
           /\ Buried(tomb[f.at], Removed(f)) \in [Uuids -> Nat]
<1>1. /\ f.at \in Instances /\ f.exported \in [Uuids -> Nat]
      /\ row[f.at] \in [Uuids -> Nat] /\ tomb[f.at] \in [Uuids -> Nat]
      /\ clock + 1 \in Nat
  BY DEF TypeOK, Frame
<1>2. Landed(f) \in [Uuids -> Nat]
  BY <1>1 DEF Landed
<1>3. Merged(f) \in [Uuids -> Nat]
  BY <1>2 DEF Merged
<1>4. Buried(tomb[f.at], Removed(f)) \in [Uuids -> Nat]
  BY <1>1 DEF Buried
<1>5. QED
  BY <1>3, <1>4

----------------------------------------------------------------------------
(* Type correctness.                                                       *)

LEMMA InitTypeOK == Init => TypeOK
<1> SUFFICES ASSUME Init PROVE TypeOK
  OBVIOUS
<1>1. None \in [Uuids -> Nat]
  BY DEF None
<1>2. QED
  BY <1>1, NoPullType DEF Init, TypeOK

LEMMA EditTypeOK ==
    ASSUME TypeOK, NEW u \in Uuids,
           \/ Save(u) \/ Delete(u)
           \/ \E n \in Instances : Cite(n, u) \/ Uncite(n, u)
    PROVE  TypeOK'
<1>0. /\ clock \in Nat /\ clock + 1 \in Nat /\ 0 \in Nat
      /\ row \in [Instances -> [Uuids -> Nat]]
      /\ tomb \in [Instances -> [Uuids -> Nat]]
      /\ tomb[Master] \in [Uuids -> Nat]
      /\ saved \in [Uuids -> Nat]
      /\ cited \in [Instances -> SUBSET Uuids]
      /\ Master \in Instances
  BY MainAssumption DEF TypeOK
<1>1. CASE Save(u)
  <2>1. row' \in [Instances -> [Uuids -> Nat]]
    BY <1>0, <1>1, SetAt2 DEF Save
  <2>2. saved' \in [Uuids -> Nat]
    BY <1>0, <1>1 DEF Save
  <2>3. QED
    BY <1>0, <1>1, <2>1, <2>2 DEF Save, TypeOK
<1>2. CASE Delete(u)
  <2>1. row' \in [Instances -> [Uuids -> Nat]]
    BY <1>0, <1>2, SetAt2 DEF Delete
  <2>2. Buried(tomb[Master], {u}) \in [Uuids -> Nat]
    BY <1>0 DEF Buried
  <2>3. tomb' = [tomb EXCEPT ![Master] = Buried(tomb[Master], {u})]
    BY <1>0, <1>2 DEF Delete
  <2>4. tomb' \in [Instances -> [Uuids -> Nat]]
    BY <1>0, <2>2, <2>3, SetAt1
  <2>5. QED
    BY <1>0, <1>2, <2>1, <2>4 DEF Delete, TypeOK
<1>3. ASSUME NEW n \in Instances, Cite(n, u) PROVE TypeOK'
  BY <1>0, <1>3 DEF Cite, TypeOK
<1>4. ASSUME NEW n \in Instances, Uncite(n, u) PROVE TypeOK'
  BY <1>0, <1>4 DEF Uncite, TypeOK
<1>5. QED
  BY <1>1, <1>2, <1>3, <1>4

LEMMA StartTypeOK ==
    ASSUME TypeOK, NEW p \in Pulls, NEW m \in Instances, NEW since \in Sinces,
           NEW cascade \in BOOLEAN, StartPull(p, m, since, cascade)
    PROVE  TypeOK'
<1> DEFINE d == IF cascade THEN Depth ELSE 0
<1>1. d \in Nat /\ since \in Nat /\ Home[p] \in Instances
  BY MainAssumption
<1>2. row[Master] \in [Uuids -> Nat] /\ job \in [Pulls -> [Hops -> Frame]]
  BY MainAssumption DEF TypeOK
<1>3. job' = [job EXCEPT ![p][0] = NewFrame(Home[p], m, since, d, row[Master])]
  BY DEF StartPull
<1> HIDE DEF d
<1>4. NewFrame(Home[p], m, since, d, row[Master]) \in Frame
  BY <1>1, <1>2, NewFrameType
<1> DEFINE f == NewFrame(Home[p], m, since, d, row[Master])
<1> HIDE DEF f
<1>5. job' \in [Pulls -> [Hops -> Frame]]
  <2>1. f \in Frame /\ job' = [job EXCEPT ![p][0] = f]
    BY <1>3, <1>4 DEF f
  <2>2. QED
    BY <1>2, <2>1, HopsNat, SetAt2
<1>6. QED
  BY <1>5 DEF StartPull, TypeOK

\* A step that only replaces one frame of a pull by another frame, or ends it.
LEMMA FrameStepTypeOK ==
    ASSUME TypeOK, NEW p \in Pulls, NEW h \in Hops, NEW f \in Frame,
           job' = [job EXCEPT ![p][h] = f],
           UNCHANGED <<clock, row, tomb, cited, saved>>
    PROVE  TypeOK'
<1>1. job \in [Pulls -> [Hops -> Frame]]
  BY DEF TypeOK
<1>2. job' \in [Pulls -> [Hops -> Frame]]
  BY <1>1, SetAt2
<1>3. QED
  BY <1>2 DEF TypeOK

LEMMA OverStepTypeOK ==
    ASSUME TypeOK, NEW p \in Pulls, NEW h \in Hops, NEW ok \in BOOLEAN,
           job' = [job EXCEPT ![p] = Over(p, h, ok)]
    PROVE  job' \in [Pulls -> [Hops -> Frame]]
<1>1. job \in [Pulls -> [Hops -> Frame]] /\ Over(p, h, ok) \in [Hops -> Frame]
  BY OverType DEF TypeOK
<1>2. QED
  BY <1>1, SetAt1

LEMMA RefreshTypeOK ==
    ASSUME TypeOK, NEW p \in Pulls, NEW h \in Hops, Refresh(p, h)
    PROVE  TypeOK'
<1> DEFINE f == job[p][h]
<1>0. /\ job \in [Pulls -> [Hops -> Frame]]
      /\ f \in Frame /\ f.from \in Instances /\ f.since \in Nat
      /\ f.depth \in Nat /\ f.seen \in [Uuids -> Nat]
      /\ Parent[f.from] \in Instances
  BY MainAssumption DEF TypeOK, Frame
<1>1. CASE Proceed(p, h)
  <2>1. IsSource(f.from) \in BOOLEAN
    BY DEF IsSource
  <2>2. [f EXCEPT !.phase = "ready", !.fresh = IsSource(f.from)] \in Frame
    BY <1>0, <2>1 DEF Frame
  <2>3. job' = [job EXCEPT ![p][h] =
                   [f EXCEPT !.phase = "ready", !.fresh = IsSource(f.from)]]
    BY <1>0, <1>1 DEF Proceed
  <2>4. QED
    BY <1>1, <2>2, <2>3, FrameStepTypeOK DEF Proceed
<1>2. CASE Ask(p, h)
  <2>1. f.depth > 0 /\ h + 1 \in Hops /\ Remaining(f.depth) \in Nat
    BY <1>0, <1>2 DEF Ask, CanAsk, Remaining
  <2> DEFINE g == NewFrame(f.from, Parent[f.from], f.since, Remaining(f.depth), f.seen)
  <2>2. g \in Frame
    BY <1>0, <2>1, NewFrameType
  <2>3. Awaiting(f) \in Frame
    BY <1>0 DEF Awaiting, Frame
  <2>4. job' = [job EXCEPT ![p][h] = Awaiting(f), ![p][h + 1] = g]
    BY <1>2 DEF Ask
  <2>5. job' \in [Pulls -> [Hops -> Frame]]
    <3> HIDE DEF g
    <3> DEFINE w == Awaiting(f)
    <3>1. w \in Frame /\ job' = [job EXCEPT ![p][h] = w, ![p][h + 1] = g]
      BY <2>3, <2>4
    <3> HIDE DEF w
    <3>2. [job EXCEPT ![p][h] = w] \in [Pulls -> [Hops -> Frame]]
      BY <1>0, <3>1, SetAt2
    <3>3. QED
      BY <1>0, <2>1, <2>2, <3>1, <3>2, SetAt2
  <2>6. QED
    BY <1>2, <2>5 DEF Ask, TypeOK
<1>3. CASE GiveUp(p, h)
  <2>1. [f EXCEPT !.phase = "ready"] \in Frame
    BY <1>0 DEF Frame
  <2>2. job' = [job EXCEPT ![p][h] = [f EXCEPT !.phase = "ready"]]
    BY <1>0, <1>3 DEF GiveUp
  <2>3. QED
    BY <1>3, <2>1, <2>2, FrameStepTypeOK DEF GiveUp
<1>4. CASE TimeOut(p, h)
  BY <1>4, OverStepTypeOK DEF TimeOut, TypeOK
<1>5. QED
  BY <1>1, <1>2, <1>3, <1>4 DEF Refresh

LEMMA ReadTypeOK ==
    ASSUME TypeOK, NEW p \in Pulls, NEW h \in Hops, Read(p, h)
    PROVE  TypeOK'
<1> DEFINE f == job[p][h]
<1>0. /\ job \in [Pulls -> [Hops -> Frame]]
      /\ f \in Frame /\ f.from \in Instances /\ f.at \in Instances
      /\ row \in [Instances -> [Uuids -> Nat]]
      /\ tomb \in [Instances -> [Uuids -> Nat]]
      /\ clock \in Nat /\ clock + 1 \in Nat
  BY DEF TypeOK, Frame
<1>1. CASE Export(p, h)
  <2> DEFINE e == Newer(row[f.from], f.since)
  <2>1. e \in [Uuids -> Nat]
    BY <1>0 DEF Newer
  <2>2. [f EXCEPT !.phase = "exported", !.exported = e] \in Frame
    <3> HIDE DEF e
    <3> QED
      BY <1>0, <2>1 DEF Frame
  <2>3. job' = [job EXCEPT ![p][h] = [f EXCEPT !.phase = "exported", !.exported = e]]
    BY <1>0, <1>1 DEF Export
  <2>4. QED
    BY <1>1, <2>2, <2>3, FrameStepTypeOK DEF Export
<1>2. CASE FetchDeleted(p, h)
  <2> DEFINE d == {u \in Uuids : tomb[f.from][u] > f.since}
  <2>1. d \in SUBSET Uuids
    OBVIOUS
  <2>2. [f EXCEPT !.phase = "fetched", !.deleted = d] \in Frame
    <3> HIDE DEF d
    <3> QED
      BY <1>0, <2>1 DEF Frame
  <2>3. job' = [job EXCEPT ![p][h] = [f EXCEPT !.phase = "fetched", !.deleted = d]]
    BY <1>0, <1>2 DEF FetchDeleted
  <2>4. QED
    BY <1>2, <2>2, <2>3, FrameStepTypeOK DEF FetchDeleted
<1>3. CASE Fail(p, h)
  BY <1>3, OverStepTypeOK DEF Fail, TypeOK
<1>4. CASE Import(p, h)
  <2>1. Merged(f) \in [Uuids -> Nat] /\ Buried(tomb[f.at], Removed(f)) \in [Uuids -> Nat]
    BY <1>0, MergeTypes
  <2>2. /\ row' = [row EXCEPT ![f.at] = Merged(f)]
        /\ tomb' = [tomb EXCEPT ![f.at] = Buried(tomb[f.at], Removed(f))]
    BY <1>0, <1>4 DEF Import
  <2>3. row' \in [Instances -> [Uuids -> Nat]] /\ tomb' \in [Instances -> [Uuids -> Nat]]
    BY <1>0, <2>1, <2>2, SetAt1
  <2>4. clock' \in Nat
    BY <1>0, <1>4 DEF Import
  <2>5. job' \in [Pulls -> [Hops -> Frame]]
    BY <1>4, OverStepTypeOK DEF Import
  <2>6. QED
    BY <1>4, <2>3, <2>4, <2>5 DEF Import, TypeOK
<1>5. QED
  BY <1>1, <1>2, <1>3, <1>4 DEF Read

LEMMA NextTypeOK == TypeOK /\ [Next]_vars => TypeOK'
<1> SUFFICES ASSUME TypeOK, [Next]_vars PROVE TypeOK'
  OBVIOUS
<1>1. CASE UNCHANGED vars
  BY <1>1 DEF vars, TypeOK
<1>2. CASE Next
  BY <1>2, EditTypeOK, StartTypeOK, RefreshTypeOK, ReadTypeOK
     DEF Next, Curate, Reference
<1>3. QED
  BY <1>1, <1>2

\* Every reachable state has its types.
THEOREM TypeCorrect == Spec => []TypeOK
BY InitTypeOK, NextTypeOK, PTL DEF Spec

----------------------------------------------------------------------------
(* How far a refresh travels.                                              *)

\* Inductive: a frame that runs has at least as many hops behind it as its
\* depth lacks to the configured one.
DepthLeft == \A p \in Pulls, h \in Hops :
                 job[p][h].phase # "idle" => job[p][h].depth + h <= Depth

LEMMA InitDepthLeft == Init => DepthLeft
BY DEF Init, DepthLeft, NoPull

\* Ending a frame starts none and changes no depth.
LEMMA OverDepthLeft ==
    ASSUME TypeOK, DepthLeft, NEW p \in Pulls, NEW h \in Hops, NEW ok \in BOOLEAN,
           job' = [job EXCEPT ![p] = Over(p, h, ok)]
    PROVE  DepthLeft'
<1> SUFFICES ASSUME NEW q \in Pulls, NEW i \in Hops, job'[q][i].phase # "idle"
             PROVE  job'[q][i].depth + i <= Depth
  BY DEF DepthLeft
<1>0. /\ job[p][i] \in Frame
      /\ job[q][i].phase # "idle" => job[q][i].depth + i <= Depth
      /\ job \in [Pulls -> [Hops -> Frame]]
  BY DEF TypeOK, DepthLeft
<1>1. CASE q # p
  BY <1>0, <1>1
<1>2. CASE q = p
  <2>1. job'[q][i] = Over(p, h, ok)[i]
    BY <1>0, <1>2
  <2>2. CASE i = h
    <3>1. Over(p, h, ok)[h] = NoPull
      BY DEF Over
    <3>2. job'[q][i].phase = "idle"
      BY <2>1, <2>2, <3>1 DEF NoPull
    <3>3. QED
      BY <3>2
  <2>3. CASE i # h /\ i + 1 = h /\ job[p][i].phase = "waiting"
    <3>1. job'[q][i] = [job[p][i] EXCEPT !.phase = "ready",
                                         !.fresh = ok /\ job[p][h].fresh]
      BY <2>1, <2>3 DEF Over
    <3>2. job'[q][i].depth = job[p][i].depth
      BY <1>0, <3>1 DEF Frame
    <3>3. QED
      BY <1>0, <1>2, <2>3, <3>2
  <2>4. CASE i # h /\ ~(i + 1 = h /\ job[p][i].phase = "waiting")
    <3>1. job'[q][i] = job[p][i]
      BY <2>1, <2>4 DEF Over
    <3>2. QED
      BY <1>0, <1>2, <3>1
  <2>5. QED
    BY <2>2, <2>3, <2>4
<1>3. QED
  BY <1>1, <1>2

\* Changing a running frame without touching its depth.
LEMMA SameDepthLeft ==
    ASSUME TypeOK, DepthLeft, NEW p \in Pulls, NEW h \in Hops, NEW f \in Frame,
           job[p][h].phase # "idle", f.depth = job[p][h].depth,
           job' = [job EXCEPT ![p][h] = f]
    PROVE  DepthLeft'
<1>1. job \in [Pulls -> [Hops -> Frame]]
  BY DEF TypeOK
<1>2. QED
  BY <1>1 DEF DepthLeft

LEMMA StartDepthLeft ==
    ASSUME TypeOK, DepthLeft, NEW p \in Pulls, NEW m \in Instances,
           NEW since \in Sinces, NEW cascade \in BOOLEAN,
           StartPull(p, m, since, cascade)
    PROVE  DepthLeft'
<1> DEFINE d == IF cascade THEN Depth ELSE 0
           f == NewFrame(Home[p], m, since, d, row[Master])
<1>1. job \in [Pulls -> [Hops -> Frame]] /\ job' = [job EXCEPT ![p][0] = f]
  BY DEF StartPull, TypeOK
<1>2. f.depth = d /\ d \in Nat /\ d <= Depth
  BY MainAssumption DEF NewFrame, NoPull
<1> HIDE DEF d, f
<1>3. ASSUME NEW q \in Pulls, NEW i \in Hops, job'[q][i].phase # "idle"
      PROVE  job'[q][i].depth + i <= Depth
  <2>1. CASE q = p /\ i = 0
    BY <1>1, <1>2, <2>1, HopsNat
  <2>2. CASE ~(q = p /\ i = 0)
    <3>1. job'[q][i] = job[q][i]
      BY <1>1, <2>2
    <3>2. QED
      BY <1>3, <3>1 DEF DepthLeft
  <2>3. QED
    BY <2>1, <2>2
<1>4. QED
  BY <1>3 DEF DepthLeft

LEMMA AskDepthLeft ==
    ASSUME TypeOK, DepthLeft, NEW p \in Pulls, NEW h \in Hops, Ask(p, h)
    PROVE  DepthLeft'
<1> DEFINE f == job[p][h]
           g == NewFrame(f.from, Parent[f.from], f.since, Remaining(f.depth), f.seen)
           w == Awaiting(f)
<1>1. /\ job \in [Pulls -> [Hops -> Frame]] /\ f \in Frame /\ h \in Nat
      /\ f.depth \in Nat /\ f.depth > 0 /\ f.phase = "start" /\ h + 1 \in Hops
      /\ job' = [job EXCEPT ![p][h] = w, ![p][h + 1] = g]
  BY HopsNat DEF Ask, CanAsk, TypeOK, Frame
<1>2. f.depth + h <= Depth
  BY <1>1 DEF DepthLeft
<1>3. g.depth + (h + 1) <= Depth
  BY <1>1, <1>2, MainAssumption DEF NewFrame, NoPull, Remaining
<1>4. w.depth + h <= Depth
  BY <1>1, <1>2 DEF Awaiting, Frame
<1> HIDE DEF f, g, w
<1>5. ASSUME NEW q \in Pulls, NEW i \in Hops, job'[q][i].phase # "idle"
      PROVE  job'[q][i].depth + i <= Depth
  <2>1. CASE q = p /\ i = h + 1
    BY <1>1, <1>3, <2>1
  <2>2. CASE q = p /\ i = h /\ i # h + 1
    BY <1>1, <1>4, <2>2
  <2>3. CASE q # p \/ (i # h /\ i # h + 1)
    <3>1. job'[q][i] = job[q][i]
      BY <1>1, <2>3
    <3>2. QED
      BY <1>5, <3>1 DEF DepthLeft
  <2>4. QED
    BY <2>1, <2>2, <2>3
<1>6. QED
  BY <1>5 DEF DepthLeft

LEMMA FrameDepthLeft ==
    ASSUME TypeOK, DepthLeft, NEW p \in Pulls, NEW h \in Hops,
           Refresh(p, h) \/ Read(p, h)
    PROVE  DepthLeft'
<1> DEFINE f == job[p][h]
<1>0. f \in Frame /\ job \in [Pulls -> [Hops -> Frame]]
  BY DEF TypeOK
<1>1. CASE Ask(p, h)
  BY <1>1, AskDepthLeft
<1>2. CASE TimeOut(p, h) \/ Fail(p, h) \/ Import(p, h)
  <2>1. \E ok \in BOOLEAN : job' = [job EXCEPT ![p] = Over(p, h, ok)]
    BY <1>2 DEF TimeOut, Fail, Import
  <2>2. QED
    BY <2>1, OverDepthLeft
<1>3. CASE Proceed(p, h)
  <2> DEFINE b == IsSource(f.from)
             g == [f EXCEPT !.phase = "ready", !.fresh = b]
  <2>1. b \in BOOLEAN
    BY DEF IsSource
  <2>2. job' = [job EXCEPT ![p][h] = g] /\ f.phase # "idle"
    BY <1>0, <1>3 DEF Proceed
  <2> HIDE DEF b
  <2>3. g \in Frame /\ g.depth = f.depth
    BY <1>0, <2>1 DEF Frame
  <2>4. QED
    BY <2>2, <2>3, SameDepthLeft
<1>4. CASE GiveUp(p, h)
  <2> DEFINE g == [f EXCEPT !.phase = "ready"]
  <2>1. job' = [job EXCEPT ![p][h] = g] /\ f.phase # "idle"
    BY <1>0, <1>4 DEF GiveUp
  <2>2. g \in Frame /\ g.depth = f.depth
    BY <1>0 DEF Frame
  <2>3. QED
    BY <2>1, <2>2, SameDepthLeft
<1>5. CASE Export(p, h)
  <2> DEFINE e == Newer(row[f.from], f.since)
             g == [f EXCEPT !.phase = "exported", !.exported = e]
  <2>1. e \in [Uuids -> Nat]
    BY <1>0 DEF Newer, TypeOK, Frame
  <2>2. job' = [job EXCEPT ![p][h] = g] /\ f.phase # "idle"
    BY <1>0, <1>5 DEF Export
  <2> HIDE DEF e
  <2>3. g \in Frame /\ g.depth = f.depth
    BY <1>0, <2>1 DEF Frame
  <2>4. QED
    BY <2>2, <2>3, SameDepthLeft
<1>6. CASE FetchDeleted(p, h)
  <2> DEFINE d == {u \in Uuids : tomb[f.from][u] > f.since}
             g == [f EXCEPT !.phase = "fetched", !.deleted = d]
  <2>1. d \in SUBSET Uuids
    OBVIOUS
  <2>2. job' = [job EXCEPT ![p][h] = g] /\ f.phase # "idle"
    BY <1>0, <1>6 DEF FetchDeleted
  <2> HIDE DEF d
  <2>3. g \in Frame /\ g.depth = f.depth
    BY <1>0, <2>1 DEF Frame
  <2>4. QED
    BY <2>2, <2>3, SameDepthLeft
<1>7. QED
  BY <1>1, <1>2, <1>3, <1>4, <1>5, <1>6 DEF Refresh, Read

LEMMA NextDepthLeft == TypeOK /\ DepthLeft /\ [Next]_vars => DepthLeft'
<1> SUFFICES ASSUME TypeOK, DepthLeft, [Next]_vars PROVE DepthLeft'
  OBVIOUS
<1>1. CASE UNCHANGED vars
  BY <1>1 DEF vars, DepthLeft
<1>2. ASSUME NEW u \in Uuids, Curate(u) PROVE DepthLeft'
  BY <1>2 DEF Curate, Save, Delete, DepthLeft
<1>3. ASSUME NEW n \in Instances, NEW u \in Uuids, Reference(n, u) PROVE DepthLeft'
  BY <1>3 DEF Reference, Cite, Uncite, DepthLeft
<1>4. CASE \E p \in Pulls, m \in Instances, since \in Sinces, cascade \in BOOLEAN :
              StartPull(p, m, since, cascade)
  BY <1>4, StartDepthLeft
<1>5. CASE \E p \in Pulls, h \in Hops : Refresh(p, h) \/ Read(p, h)
  BY <1>5, FrameDepthLeft
<1>6. QED
  BY <1>1, <1>2, <1>3, <1>4, <1>5 DEF Next

LEMMA DepthLeftBounds == TypeOK /\ DepthLeft => HopsBounded
<1> SUFFICES ASSUME TypeOK, DepthLeft, NEW p \in Pulls, NEW h \in Hops, h > Depth
             PROVE  job[p][h].phase = "idle"
  BY DEF HopsBounded
<1>1. job[p][h].depth \in Nat /\ h \in Nat /\ Depth \in Nat
  BY HopsNat, MainAssumption DEF TypeOK, Frame
<1>2. QED
  BY <1>1 DEF DepthLeft

\* No registry, and no number of pulls at once, makes a refresh travel further
\* than the configured depth.
THEOREM RefreshesEnd == Spec => []HopsBounded
<1>1. Init => TypeOK /\ DepthLeft
  BY InitTypeOK, InitDepthLeft
<1>2. (TypeOK /\ DepthLeft) /\ [Next]_vars => (TypeOK /\ DepthLeft)'
  BY NextTypeOK, NextDepthLeft
<1>3. QED
  BY <1>1, <1>2, DepthLeftBounds, PTL DEF Spec

----------------------------------------------------------------------------
(* The refinement of MainCatalogue.                                        *)

\* Every other instance has the master above it and pulls from its parent only,
\* and no two frames are ever at one instance: Site[p][h] is where hop h of pull
\* p takes place.  One pull at a time in a chain is of this kind, and so are
\* pulls in different branches of a tree.
Routes(Site) ==
    /\ \A n \in Instances : IsSource(n) <=> n = Master
    /\ \A n \in Instances : Upstreams[n] \subseteq {Parent[n]} \ {n}
    /\ Site \in [Pulls -> [Hops -> Instances]]
    /\ \A p \in Pulls : Site[p][0] = Home[p]
    /\ \A p \in Pulls, h \in Hops : h + 1 \in Hops => Site[p][h + 1] = Parent[Site[p][h]]
    /\ \A p, q \in Pulls, h, i \in Hops :
          Site[p][h] = Site[q][i] /\ Site[p][h] # Master => p = q /\ h = i

\* The databases: rows are states the master has saved; a row that was deleted
\* is gone there, above and at the master; and no copy is ahead of its parent's.
DataInv ==
    /\ \A u \in Uuids : saved[u] <= clock
    /\ \A n \in Instances, u \in Uuids :
         /\ row[n][u] <= saved[u]
         /\ tomb[n][u] # 0 => row[n][u] = 0 /\ tomb[Parent[n]][u] # 0 /\ tomb[Master][u] # 0
         /\ row[n][u] <= row[Parent[n]][u] \/ tomb[Parent[n]][u] # 0

\* Where a frame runs.
Routed(f, n) == f.phase # "idle" => f.at = n /\ f.from = Parent[n] /\ n # Master

\* What a frame has read, against rows r, tombstones t and saved states s: no
\* newer than at the peer, no older than here, and nothing that is buried here.
Sound(f, r, t, s) == \A u \in Uuids :
    /\ f.phase \in {"exported", "fetched"} /\ f.exported[u] # 0 =>
         /\ f.exported[u] <= s[u]
         /\ f.exported[u] <= r[f.from][u] \/ t[f.from][u] # 0
         /\ r[f.at][u] <= f.exported[u]
         /\ t[f.at][u] = 0
    /\ f.phase = "fetched" /\ u \in f.deleted => t[f.from][u] # 0

FrameInv(Site) == \A p \in Pulls, h \in Hops :
    Routed(job[p][h], Site[p][h]) /\ Sound(job[p][h], row, tomb, saved)

CatalogueInv(Site) == TypeOK /\ DataInv /\ FrameInv(Site)

\* Nothing comes back at n: rows only get newer or are buried.
Forward(n, r, t, r2, t2) == \A u \in Uuids :
    /\ t[n][u] # 0 => t2[n][u] # 0
    /\ r[n][u] <= r2[n][u] \/ t2[n][u] # 0

\* What has been read stays sound while the peer moves forward and nothing
\* happens here.
LEMMA StaysSound ==
    ASSUME NEW f \in Frame,
           NEW r \in [Instances -> [Uuids -> Nat]], NEW r2 \in [Instances -> [Uuids -> Nat]],
           NEW t \in [Instances -> [Uuids -> Nat]], NEW t2 \in [Instances -> [Uuids -> Nat]],
           NEW s \in [Uuids -> Nat], NEW s2 \in [Uuids -> Nat],
           Sound(f, r, t, s),
           \A u \in Uuids : s[u] <= s2[u],
           Forward(f.from, r, t, r2, t2),
           f.phase # "idle" => r2[f.at] = r[f.at] /\ t2[f.at] = t[f.at]
    PROVE  Sound(f, r2, t2, s2)
<1> SUFFICES ASSUME NEW u \in Uuids
             PROVE  /\ f.phase \in {"exported", "fetched"} /\ f.exported[u] # 0 =>
                         /\ f.exported[u] <= s2[u]
                         /\ f.exported[u] <= r2[f.from][u] \/ t2[f.from][u] # 0
                         /\ r2[f.at][u] <= f.exported[u]
                         /\ t2[f.at][u] = 0
                    /\ f.phase = "fetched" /\ u \in f.deleted => t2[f.from][u] # 0
  BY DEF Sound
<1>1. /\ f.at \in Instances /\ f.from \in Instances /\ f.exported[u] \in Nat
      /\ s[u] \in Nat /\ s2[u] \in Nat /\ r[f.from][u] \in Nat /\ r2[f.from][u] \in Nat
      /\ s[u] <= s2[u]
  BY DEF Frame
<1>2. /\ t[f.from][u] # 0 => t2[f.from][u] # 0
      /\ r[f.from][u] <= r2[f.from][u] \/ t2[f.from][u] # 0
  BY DEF Forward
<1>3. QED
  BY <1>1, <1>2 DEF Sound

\* Frames in which nothing has been read are sound.
LEMMA UnreadSound ==
    ASSUME NEW f, NEW r, NEW t, NEW s, f.phase \notin {"exported", "fetched"}
    PROVE  Sound(f, r, t, s)
BY DEF Sound

\* An answer changes nothing else of the frame g that waited for it.
LEMMA Answered ==
    ASSUME NEW g \in Frame, NEW b \in BOOLEAN
    PROVE  /\ [g EXCEPT !.phase = "ready", !.fresh = b] \in Frame
           /\ [g EXCEPT !.phase = "ready", !.fresh = b].phase = "ready"
           /\ [g EXCEPT !.phase = "ready", !.fresh = b].at = g.at
           /\ [g EXCEPT !.phase = "ready", !.fresh = b].from = g.from
           /\ [g EXCEPT !.phase = "ready", !.fresh = b].since = g.since
           /\ [g EXCEPT !.phase = "ready", !.fresh = b].seen = g.seen
           /\ [g EXCEPT !.phase = "ready", !.fresh = b].fresh => b
BY DEF Frame

\* Frame i of pull q when hop h of pull p is over: as it was, idle, or no longer
\* waiting.
Left(q, i, p, h, ok) ==
    \/ /\ job'[q][i] = job[q][i] /\ ~(q = p /\ i = h)
       /\ ~(q = p /\ i + 1 = h /\ job[q][i].phase = "waiting")
    \/ q = p /\ i = h /\ job'[q][i] = NoPull
    \/ /\ q = p /\ i + 1 = h /\ job[q][i].phase = "waiting"
       /\ job'[q][i].phase = "ready"
       /\ job'[q][i].at = job[q][i].at /\ job'[q][i].from = job[q][i].from
       /\ job'[q][i].since = job[q][i].since /\ job'[q][i].seen = job[q][i].seen
       /\ job'[q][i].fresh => ok /\ job[p][h].fresh

LEMMA OverFrames ==
    ASSUME TypeOK, NEW p \in Pulls, NEW h \in Hops, NEW ok \in BOOLEAN,
           job' = [job EXCEPT ![p] = Over(p, h, ok)],
           NEW q \in Pulls, NEW i \in Hops
    PROVE  Left(q, i, p, h, ok)
<1>1. job \in [Pulls -> [Hops -> Frame]]
  BY DEF TypeOK
<1>2. CASE q # p
  BY <1>1, <1>2 DEF Left
<1>3. CASE q = p
  <2> DEFINE b == ok /\ job[p][h].fresh
             g == job[p][i]
  <2>1. job'[q][i] = IF i = h THEN NoPull
                     ELSE IF i + 1 = h /\ g.phase = "waiting"
                     THEN [g EXCEPT !.phase = "ready", !.fresh = b] ELSE g
    BY <1>1, <1>3 DEF Over
  <2>2. g \in Frame /\ b \in BOOLEAN
    BY <1>1
  <2> HIDE DEF b, g
  <2>3. CASE i = h
    BY <1>3, <2>1, <2>3 DEF Left
  <2>4. CASE i # h /\ i + 1 = h /\ g.phase = "waiting"
    <3> DEFINE f == job'[q][i]
    <3>1. f = [g EXCEPT !.phase = "ready", !.fresh = b]
      BY <2>1, <2>4
    <3> HIDE DEF f
    <3>2. /\ f.phase = "ready" /\ f.at = g.at /\ f.from = g.from
          /\ f.since = g.since /\ f.seen = g.seen /\ (f.fresh => b)
      BY <2>2, <3>1, Answered
    <3>3. QED
      BY <1>3, <2>4, <3>2 DEF f, g, b, Left
  <2>5. CASE i # h /\ ~(i + 1 = h /\ g.phase = "waiting")
    BY <1>3, <2>1, <2>5 DEF g, Left
  <2>6. QED
    BY <2>3, <2>4, <2>5
<1>4. QED
  BY <1>2, <1>3

\* A step of the master's editors, as the frames see it.
LEMMA FramesStay ==
    ASSUME NEW Site, TypeOK, TypeOK', FrameInv(Site), job' = job,
           \A u \in Uuids : saved[u] <= saved'[u],
           \A n \in Instances : Forward(n, row, tomb, row', tomb'),
           \A n \in Instances \ {Master} : row'[n] = row[n] /\ tomb'[n] = tomb[n]
    PROVE  FrameInv(Site)'
<1> SUFFICES ASSUME NEW p \in Pulls, NEW h \in Hops
             PROVE  Routed(job[p][h], Site[p][h]) /\ Sound(job[p][h], row', tomb', saved')
  BY DEF FrameInv
<1> DEFINE f == job[p][h]
<1>1. f \in Frame /\ f.from \in Instances /\ f.at \in Instances
  BY DEF TypeOK, Frame
<1>2. Routed(f, Site[p][h]) /\ Sound(f, row, tomb, saved)
  BY DEF FrameInv
<1>3. f.phase # "idle" => row'[f.at] = row[f.at] /\ tomb'[f.at] = tomb[f.at]
  BY <1>1, <1>2 DEF Routed
<1>4. /\ row \in [Instances -> [Uuids -> Nat]] /\ row' \in [Instances -> [Uuids -> Nat]]
      /\ tomb \in [Instances -> [Uuids -> Nat]] /\ tomb' \in [Instances -> [Uuids -> Nat]]
      /\ saved \in [Uuids -> Nat] /\ saved' \in [Uuids -> Nat]
  BY DEF TypeOK
<1> HIDE DEF f
<1>5. Sound(f, row', tomb', saved')
  BY <1>1, <1>2, <1>3, <1>4, StaysSound
<1>6. QED
  BY <1>2, <1>5 DEF f

\* The invariant, with the types that make its numbers comparable.
LEMMA DataFacts ==
    ASSUME TypeOK, DataInv
    PROVE  /\ clock \in Nat
           /\ \A u \in Uuids : saved[u] \in Nat /\ saved[u] <= clock
           /\ \A n \in Instances, u \in Uuids :
                 row[n][u] \in Nat /\ row[n][u] <= saved[u] /\ row[n][u] <= clock
<1>1. clock \in Nat /\ saved \in [Uuids -> Nat] /\ row \in [Instances -> [Uuids -> Nat]]
  BY DEF TypeOK
<1>2. \A u \in Uuids : saved[u] \in Nat /\ saved[u] <= clock
  BY <1>1 DEF DataInv
<1>3. ASSUME NEW n \in Instances, NEW u \in Uuids
      PROVE  row[n][u] \in Nat /\ row[n][u] <= saved[u] /\ row[n][u] <= clock
  <2>1. row[n][u] \in Nat /\ row[n][u] <= saved[u]
    BY <1>1 DEF DataInv
  <2>2. QED
    BY <1>1, <1>2, <2>1
<1>4. QED
  BY <1>1, <1>2, <1>3

LEMMA SaveInv ==
    ASSUME NEW Site, Routes(Site), CatalogueInv(Site), TypeOK', NEW u \in Uuids, Save(u)
    PROVE  /\ DataInv' /\ FrameInv(Site)'
           /\ \A n \in Instances : Forward(n, row, tomb, row', tomb')
<1>1. /\ row \in [Instances -> [Uuids -> Nat]] /\ tomb \in [Instances -> [Uuids -> Nat]]
      /\ saved \in [Uuids -> Nat] /\ clock \in Nat
      /\ Master \in Instances /\ Parent \in [Instances -> Instances]
      /\ Parent[Master] = Master
  BY MainAssumption DEF CatalogueInv, TypeOK, Routes, IsSource
<1>2. /\ clock' = clock + 1 /\ tomb[Master][u] = 0 /\ tomb' = tomb /\ job' = job
      /\ row' = [row EXCEPT ![Master][u] = clock + 1]
      /\ saved' = [saved EXCEPT ![u] = clock + 1]
  <2>1. tomb[Master][u] # 0 => row[Master][u] = 0
    BY <1>1 DEF CatalogueInv, DataInv
  <2>2. QED
    BY <2>1 DEF Save
<1>3. \A n \in Instances, v \in Uuids :
         row'[n][v] = IF n = Master /\ v = u THEN clock + 1 ELSE row[n][v]
  BY <1>1, <1>2
<1>4. \A v \in Uuids : saved'[v] = IF v = u THEN clock + 1 ELSE saved[v]
  BY <1>1, <1>2
<1>5. /\ \A v \in Uuids : saved[v] \in Nat /\ saved[v] <= clock
      /\ \A n \in Instances, v \in Uuids :
            row[n][v] \in Nat /\ row[n][v] <= saved[v] /\ row[n][v] <= clock
  BY DataFacts DEF CatalogueInv
<1>0. \A n \in Instances, v \in Uuids :
         /\ tomb[n][v] # 0 => row[n][v] = 0 /\ tomb[Parent[n]][v] # 0 /\ tomb[Master][v] # 0
         /\ row[n][v] <= row[Parent[n]][v] \/ tomb[Parent[n]][v] # 0
  BY DEF CatalogueInv, DataInv
<1>6. DataInv'
  <2>1. ASSUME NEW v \in Uuids PROVE saved'[v] <= clock'
    BY <1>1, <1>2, <1>4, <1>5
  <2>2. ASSUME NEW n \in Instances, NEW v \in Uuids
        PROVE  /\ row'[n][v] <= saved'[v]
               /\ tomb'[n][v] # 0 => row'[n][v] = 0 /\ tomb'[Parent[n]][v] # 0
                                     /\ tomb'[Master][v] # 0
               /\ row'[n][v] <= row'[Parent[n]][v] \/ tomb'[Parent[n]][v] # 0
    <3>1. Parent[n] \in Instances
      BY <1>1
    <3>2. row'[n][v] <= saved'[v]
      <4>1. CASE v = u
        <5>1. saved'[v] = clock + 1 /\ row'[n][v] \in {clock + 1, row[n][v]}
          BY <1>3, <1>4, <4>1
        <5>2. row[n][v] <= clock
          BY <1>1, <1>5
        <5>3. QED
          BY <1>1, <1>5, <5>1, <5>2
      <4>2. CASE v # u
        <5>1. saved'[v] = saved[v] /\ row'[n][v] = row[n][v]
          BY <1>3, <1>4, <4>2
        <5>2. QED
          BY <1>5, <5>1
      <4>3. QED
        BY <4>1, <4>2
    <3>3. tomb'[n][v] # 0 => row'[n][v] = 0 /\ tomb'[Parent[n]][v] # 0 /\ tomb'[Master][v] # 0
      BY <1>2, <1>3, <1>0
    <3>4. row'[n][v] <= row'[Parent[n]][v] \/ tomb'[Parent[n]][v] # 0
      BY <1>1, <1>2, <1>3, <1>5, <1>0, <3>1
    <3>5. QED
      BY <3>2, <3>3, <3>4
  <2>3. QED
    BY <2>1, <2>2 DEF DataInv
<1>7. \A n \in Instances : Forward(n, row, tomb, row', tomb')
  BY <1>1, <1>2, <1>3, <1>5 DEF Forward
<1>8. FrameInv(Site)'
  <2>1. ASSUME NEW v \in Uuids PROVE saved[v] <= saved'[v]
    <3>1. saved[v] \in Nat /\ saved[v] <= clock
      BY <1>1, <1>5
    <3>2. QED
      BY <1>1, <1>4, <3>1
  <2>2. \A n \in Instances \ {Master} : row'[n] = row[n] /\ tomb'[n] = tomb[n]
    BY <1>1, <1>2
  <2>3. QED
    BY <1>2, <1>7, <2>1, <2>2, FramesStay DEF CatalogueInv
<1>9. QED
  BY <1>6, <1>7, <1>8

LEMMA DeleteInv ==
    ASSUME NEW Site, Routes(Site), CatalogueInv(Site), TypeOK', NEW u \in Uuids, Delete(u)
    PROVE  /\ DataInv' /\ FrameInv(Site)'
           /\ \A n \in Instances : Forward(n, row, tomb, row', tomb')
<1>1. /\ row \in [Instances -> [Uuids -> Nat]] /\ tomb \in [Instances -> [Uuids -> Nat]]
      /\ saved \in [Uuids -> Nat] /\ clock \in Nat
      /\ Master \in Instances /\ Parent \in [Instances -> Instances]
      /\ Parent[Master] = Master
  BY MainAssumption DEF CatalogueInv, TypeOK, Routes, IsSource
<1>2. /\ clock' = clock + 1 /\ saved' = saved /\ job' = job
      /\ row' = [row EXCEPT ![Master][u] = 0]
      /\ tomb' = [tomb EXCEPT ![Master] = Buried(tomb[Master], {u})]
  BY <1>1 DEF Delete
<1>3. \A n \in Instances, v \in Uuids :
         row'[n][v] = IF n = Master /\ v = u THEN 0 ELSE row[n][v]
  BY <1>1, <1>2
<1>4. \A n \in Instances, v \in Uuids :
         /\ tomb[n][v] # 0 => tomb'[n][v] # 0
         /\ tomb'[n][v] # 0 => tomb[n][v] # 0 \/ (n = Master /\ v = u)
  <2>1. \A v \in Uuids : Buried(tomb[Master], {u})[v] =
                             IF v = u /\ tomb[Master][v] = 0 THEN clock + 1 ELSE tomb[Master][v]
    BY DEF Buried
  <2>2. \A n \in Instances : tomb'[n] = IF n = Master THEN Buried(tomb[Master], {u}) ELSE tomb[n]
    BY <1>1, <1>2
  <2>3. QED
    BY <1>1, <2>1, <2>2
<1>5. tomb'[Master][u] # 0
  <2>1. tomb'[Master] = Buried(tomb[Master], {u})
    BY <1>1, <1>2
  <2>2. QED
    BY <1>1, <2>1 DEF Buried
<1>6. /\ \A v \in Uuids : saved[v] \in Nat /\ saved[v] <= clock
      /\ \A n \in Instances, v \in Uuids :
            row[n][v] \in Nat /\ row[n][v] <= saved[v] /\ row[n][v] <= clock
  BY DataFacts DEF CatalogueInv
<1>0. \A n \in Instances, v \in Uuids :
         /\ tomb[n][v] # 0 => row[n][v] = 0 /\ tomb[Parent[n]][v] # 0 /\ tomb[Master][v] # 0
         /\ row[n][v] <= row[Parent[n]][v] \/ tomb[Parent[n]][v] # 0
  BY DEF CatalogueInv, DataInv
<1>7. DataInv'
  <2>1. ASSUME NEW v \in Uuids PROVE saved'[v] <= clock'
    BY <1>1, <1>2, <1>6
  <2>2. ASSUME NEW n \in Instances, NEW v \in Uuids
        PROVE  /\ row'[n][v] <= saved'[v]
               /\ tomb'[n][v] # 0 => row'[n][v] = 0 /\ tomb'[Parent[n]][v] # 0
                                     /\ tomb'[Master][v] # 0
               /\ row'[n][v] <= row'[Parent[n]][v] \/ tomb'[Parent[n]][v] # 0
    <3>1. Parent[n] \in Instances
      BY <1>1
    <3>2. row'[n][v] <= saved'[v]
      BY <1>1, <1>2, <1>3, <1>6
    <3>3. tomb'[n][v] # 0 => row'[n][v] = 0 /\ tomb'[Parent[n]][v] # 0 /\ tomb'[Master][v] # 0
      BY <1>1, <1>3, <1>4, <1>5, <1>0, <1>6, <3>1
    <3>4. row'[n][v] <= row'[Parent[n]][v] \/ tomb'[Parent[n]][v] # 0
      BY <1>1, <1>3, <1>4, <1>5, <1>0, <1>6, <3>1
    <3>5. QED
      BY <3>2, <3>3, <3>4
  <2>3. QED
    BY <2>1, <2>2 DEF DataInv
<1>8. \A n \in Instances : Forward(n, row, tomb, row', tomb')
  BY <1>3, <1>4, <1>5, <1>6 DEF Forward
<1>9. FrameInv(Site)'
  <2>1. \A v \in Uuids : saved[v] <= saved'[v]
    BY <1>2, <1>6
  <2>2. \A n \in Instances \ {Master} : row'[n] = row[n] /\ tomb'[n] = tomb[n]
    BY <1>1, <1>2
  <2>3. QED
    BY <1>2, <1>8, <2>1, <2>2, FramesStay DEF CatalogueInv
<1>10. QED
  BY <1>7, <1>8, <1>9

\* A step that touches no database, after which each frame is where it was, or
\* where it belongs, with nothing unsound in hand.
LEMMA JobInv ==
    ASSUME NEW Site, CatalogueInv(Site), UNCHANGED <<clock, row, tomb, saved>>,
           \A q \in Pulls, i \in Hops :
               /\ Routed(job'[q][i], Site[q][i])
               /\ Sound(job'[q][i], row, tomb, saved)
    PROVE  DataInv' /\ FrameInv(Site)'
BY DEF CatalogueInv, DataInv, FrameInv

\* The frames that are left when one is over are as they were, or have nothing.
LEMMA OverInv ==
    ASSUME NEW Site, CatalogueInv(Site), NEW p \in Pulls, NEW h \in Hops,
           NEW ok \in BOOLEAN, job' = [job EXCEPT ![p] = Over(p, h, ok)],
           NEW q \in Pulls, NEW i \in Hops
    PROVE  /\ Routed(job'[q][i], Site[q][i])
           /\ \/ job'[q][i] = job[q][i] /\ ~(q = p /\ i = h)
              \/ job'[q][i].phase \notin {"exported", "fetched"}
<1>1. Routed(job[q][i], Site[q][i]) /\ job[q][i] \in Frame
  BY DEF CatalogueInv, FrameInv, TypeOK
<1>2. CASE job'[q][i] = job[q][i] /\ ~(q = p /\ i = h)
  BY <1>1, <1>2
<1>3. CASE job'[q][i] = NoPull
  BY <1>3 DEF NoPull, Routed
<1>4. CASE /\ job[q][i].phase = "waiting"
           /\ job'[q][i].phase = "ready"
           /\ job'[q][i].at = job[q][i].at /\ job'[q][i].from = job[q][i].from
  BY <1>1, <1>4 DEF Routed
<1>5. TypeOK
  BY DEF CatalogueInv
<1>6. Left(q, i, p, h, ok)
  BY <1>5, OverFrames
<1>7. QED
  BY <1>2, <1>3, <1>4, <1>6 DEF Left

\* A step that only replaces one frame, by one that belongs there.
LEMMA FrameStepInv ==
    ASSUME NEW Site, CatalogueInv(Site), UNCHANGED <<clock, row, tomb, saved>>,
           NEW p \in Pulls, NEW h \in Hops, NEW g,
           job' = [job EXCEPT ![p][h] = g],
           Routed(g, Site[p][h]), Sound(g, row, tomb, saved)
    PROVE  DataInv' /\ FrameInv(Site)'
<1>1. job \in [Pulls -> [Hops -> Frame]]
  BY DEF CatalogueInv, TypeOK
<1>2. ASSUME NEW q \in Pulls, NEW i \in Hops
      PROVE  Routed(job'[q][i], Site[q][i]) /\ Sound(job'[q][i], row, tomb, saved)
  <2>1. CASE q = p /\ i = h
    <3>1. job'[q][i] = g
      BY <1>1, <2>1
    <3>2. QED
      BY <2>1, <3>1
  <2>2. CASE ~(q = p /\ i = h)
    <3>1. job'[q][i] = job[q][i]
      BY <1>1, <2>2
    <3>2. QED
      BY <3>1 DEF CatalogueInv, FrameInv
  <2>3. QED
    BY <2>1, <2>2
<1>3. QED
  BY <1>2, JobInv

LEMMA StartInv ==
    ASSUME NEW Site, Routes(Site), CatalogueInv(Site), NEW p \in Pulls,
           NEW m \in Instances, NEW since \in Sinces, NEW cascade \in BOOLEAN,
           StartPull(p, m, since, cascade)
    PROVE  DataInv' /\ FrameInv(Site)'
<1> DEFINE d == IF cascade THEN Depth ELSE 0
           g == NewFrame(Home[p], m, since, d, row[Master])
<1>1. /\ UNCHANGED <<clock, row, tomb, saved>> /\ job' = [job EXCEPT ![p][0] = g]
      /\ m \in Upstreams[Home[p]] /\ Home[p] \in Instances
  BY MainAssumption DEF StartPull
<1>2. m = Parent[Home[p]] /\ m # Home[p] /\ Home[p] # Master /\ Site[p][0] = Home[p]
  BY <1>1 DEF Routes, IsSource
<1>3. g.phase = "start" /\ g.at = Home[p] /\ g.from = m
  BY DEF NewFrame, NoPull
<1> HIDE DEF d, g
<1>4. Routed(g, Site[p][0]) /\ Sound(g, row, tomb, saved)
  BY <1>2, <1>3, UnreadSound DEF Routed
<1>5. QED
  BY <1>1, <1>4, HopsNat, FrameStepInv

LEMMA AskInv ==
    ASSUME NEW Site, Routes(Site), CatalogueInv(Site), NEW p \in Pulls, NEW h \in Hops,
           Ask(p, h)
    PROVE  DataInv' /\ FrameInv(Site)'
<1> DEFINE f == job[p][h]
           g == NewFrame(f.from, Parent[f.from], f.since, Remaining(f.depth), f.seen)
           w == Awaiting(f)
<1>1. /\ job \in [Pulls -> [Hops -> Frame]] /\ f \in Frame /\ h \in Nat
      /\ f.phase = "start" /\ f.from \in Instances /\ h + 1 \in Hops
      /\ ~IsSource(f.from) /\ UNCHANGED <<clock, row, tomb, saved>>
      /\ job' = [job EXCEPT ![p][h] = w, ![p][h + 1] = g]
  BY HopsNat DEF Ask, CanAsk, CatalogueInv, TypeOK, Frame
<1>2. Routed(f, Site[p][h])
  BY DEF CatalogueInv, FrameInv
<1>3. w.phase = "waiting" /\ w.at = f.at /\ w.from = f.from
  BY <1>1 DEF Awaiting, Frame
<1>4. Routed(w, Site[p][h]) /\ Sound(w, row, tomb, saved)
  BY <1>1, <1>2, <1>3, UnreadSound DEF Routed
<1>5. g.phase = "start" /\ g.at = f.from /\ g.from = Parent[f.from]
  BY DEF NewFrame, NoPull
<1>6. Site[p][h + 1] = f.from /\ f.from # Master
  BY <1>1, <1>2 DEF Routed, Routes
<1> HIDE DEF f, g, w
<1>7. Routed(g, Site[p][h + 1]) /\ Sound(g, row, tomb, saved)
  BY <1>5, <1>6, UnreadSound DEF Routed
<1>8. ASSUME NEW q \in Pulls, NEW i \in Hops
      PROVE  Routed(job'[q][i], Site[q][i]) /\ Sound(job'[q][i], row, tomb, saved)
  <2>1. CASE q = p /\ i = h + 1
    <3>1. job'[q][i] = g
      BY <1>1, <2>1
    <3>2. QED
      BY <1>7, <2>1, <3>1
  <2>2. CASE q = p /\ i = h
    <3>1. job'[q][i] = w
      BY <1>1, <2>2
    <3>2. QED
      BY <1>4, <2>2, <3>1
  <2>3. CASE q # p \/ (i # h /\ i # h + 1)
    <3>1. job'[q][i] = job[q][i]
      BY <1>1, <2>3
    <3>2. QED
      BY <3>1 DEF CatalogueInv, FrameInv
  <2>4. QED
    BY <2>1, <2>2, <2>3
<1>9. QED
  BY <1>1, <1>8, JobInv

LEMMA RefreshInv ==
    ASSUME NEW Site, Routes(Site), CatalogueInv(Site), NEW p \in Pulls, NEW h \in Hops,
           Refresh(p, h) \/ Fail(p, h)
    PROVE  DataInv' /\ FrameInv(Site)'
<1> DEFINE f == job[p][h]
<1>0. f \in Frame /\ Routed(f, Site[p][h])
  BY DEF CatalogueInv, TypeOK, FrameInv
<1>1. CASE Proceed(p, h)
  <2> DEFINE b == IsSource(f.from)
             g == [f EXCEPT !.phase = "ready", !.fresh = b]
  <2>1. /\ job' = [job EXCEPT ![p][h] = g] /\ f.phase = "start" /\ b \in BOOLEAN
        /\ UNCHANGED <<clock, row, tomb, saved>>
    BY <1>1 DEF Proceed, IsSource, CatalogueInv, TypeOK
  <2> HIDE DEF b
  <2>2. g.phase = "ready" /\ g.at = f.at /\ g.from = f.from
    BY <1>0, <2>1, Answered
  <2> HIDE DEF f, g
  <2>3. Routed(g, Site[p][h]) /\ Sound(g, row, tomb, saved)
    BY <1>0, <2>1, <2>2, UnreadSound DEF Routed
  <2>4. QED
    BY <2>1, <2>3, FrameStepInv
<1>2. CASE Ask(p, h)
  BY <1>2, AskInv
<1>3. CASE GiveUp(p, h)
  <2> DEFINE g == [f EXCEPT !.phase = "ready"]
  <2>1. /\ job' = [job EXCEPT ![p][h] = g] /\ f.phase = "waiting"
        /\ UNCHANGED <<clock, row, tomb, saved>>
    BY <1>3 DEF GiveUp, CatalogueInv, TypeOK
  <2>2. g.phase = "ready" /\ g.at = f.at /\ g.from = f.from
    BY <1>0 DEF Frame
  <2> HIDE DEF f, g
  <2>3. Routed(g, Site[p][h]) /\ Sound(g, row, tomb, saved)
    BY <1>0, <2>1, <2>2, UnreadSound DEF Routed
  <2>4. QED
    BY <2>1, <2>3, FrameStepInv
<1>4. CASE TimeOut(p, h) \/ Fail(p, h)
  <2>1. job' = [job EXCEPT ![p] = Over(p, h, FALSE)] /\ UNCHANGED <<clock, row, tomb, saved>>
    BY <1>4 DEF TimeOut, Fail
  <2>2. ASSUME NEW q \in Pulls, NEW i \in Hops
        PROVE  Routed(job'[q][i], Site[q][i]) /\ Sound(job'[q][i], row, tomb, saved)
    <3>1. /\ Routed(job'[q][i], Site[q][i])
          /\ job'[q][i] = job[q][i] \/ job'[q][i].phase \notin {"exported", "fetched"}
      BY <2>1, OverInv
    <3>2. Sound(job[q][i], row, tomb, saved)
      BY DEF CatalogueInv, FrameInv
    <3>3. QED
      BY <3>1, <3>2, UnreadSound
  <2>3. QED
    BY <2>1, <2>2, JobInv
<1>5. QED
  BY <1>1, <1>2, <1>3, <1>4 DEF Refresh

\* What the peer's rows are when a frame reads them.
LEMMA ExportInv ==
    ASSUME NEW Site, Routes(Site), CatalogueInv(Site), NEW p \in Pulls, NEW h \in Hops,
           Export(p, h)
    PROVE  DataInv' /\ FrameInv(Site)'
<1> DEFINE f == job[p][h]
           e == Newer(row[f.from], f.since)
           g == [f EXCEPT !.phase = "exported", !.exported = e]
<1>0. /\ f \in Frame /\ Routed(f, Site[p][h]) /\ f.phase = "ready"
      /\ f.at \in Instances /\ f.from \in Instances
      /\ UNCHANGED <<clock, row, tomb, saved>> /\ job' = [job EXCEPT ![p][h] = g]
  BY DEF CatalogueInv, TypeOK, FrameInv, Export, Frame
<1>1. f.from = Parent[f.at]
  BY <1>0 DEF Routed
<1>2. /\ g.phase = "exported" /\ g.exported = e /\ g.at = f.at /\ g.from = f.from
  <2> HIDE DEF e
  <2> QED
    BY <1>0 DEF Frame
<1>3. \A u \in Uuids : e[u] # 0 => e[u] = row[f.from][u]
  BY DEF Newer
<1>4. \A u \in Uuids : row[f.from][u] \in Nat /\ row[f.at][u] \in Nat /\ saved[u] \in Nat
  BY <1>0 DEF CatalogueInv, TypeOK
<1>5. \A u \in Uuids :
         /\ row[f.from][u] <= saved[u]
         /\ tomb[f.from][u] # 0 => row[f.from][u] = 0
         /\ tomb[f.at][u] # 0 => tomb[f.from][u] # 0
         /\ row[f.at][u] <= row[f.from][u] \/ tomb[f.from][u] # 0
  BY <1>0, <1>1 DEF CatalogueInv, DataInv
<1> HIDE DEF f, e, g
<1>6. Sound(g, row, tomb, saved)
  BY <1>2, <1>3, <1>4, <1>5 DEF Sound
<1>7. Routed(g, Site[p][h])
  BY <1>0, <1>2 DEF Routed
<1>8. QED
  BY <1>0, <1>6, <1>7, FrameStepInv

LEMMA FetchDeletedInv ==
    ASSUME NEW Site, Routes(Site), CatalogueInv(Site), NEW p \in Pulls, NEW h \in Hops,
           FetchDeleted(p, h)
    PROVE  DataInv' /\ FrameInv(Site)'
<1> DEFINE f == job[p][h]
           d == {u \in Uuids : tomb[f.from][u] > f.since}
           g == [f EXCEPT !.phase = "fetched", !.deleted = d]
<1>0. /\ f \in Frame /\ Routed(f, Site[p][h]) /\ Sound(f, row, tomb, saved)
      /\ f.phase = "exported" /\ f.from \in Instances /\ f.since \in Nat
      /\ UNCHANGED <<clock, row, tomb, saved>> /\ job' = [job EXCEPT ![p][h] = g]
  BY DEF CatalogueInv, TypeOK, FrameInv, FetchDeleted, Frame
<1>1. /\ g.phase = "fetched" /\ g.deleted = d /\ g.at = f.at /\ g.from = f.from
      /\ g.exported = f.exported
  <2> HIDE DEF d
  <2> QED
    BY <1>0 DEF Frame
<1>2. \A u \in d : tomb[f.from][u] # 0
  BY <1>0
<1> HIDE DEF f, d, g
<1>3. Sound(g, row, tomb, saved)
  BY <1>0, <1>1, <1>2 DEF Sound
<1>4. Routed(g, Site[p][h])
  BY <1>0, <1>1 DEF Routed
<1>5. QED
  BY <1>0, <1>3, <1>4, FrameStepInv

\* What an import does to its own instance n, and to no other: rows move forward
\* towards the peer's, and what is dropped is gone at the peer too.
Adopted(n) ==
    /\ n \in Instances /\ n # Master
    /\ saved' = saved /\ clock <= clock'
    /\ \A m \in Instances \ {n} : row'[m] = row[m] /\ tomb'[m] = tomb[m]
    /\ \A u \in Uuids :
         /\ tomb[n][u] # 0 => tomb'[n][u] # 0
         /\ tomb'[n][u] # 0 => row'[n][u] = 0 /\ tomb[Parent[n]][u] # 0
         /\ row[n][u] <= row'[n][u] \/ tomb'[n][u] # 0
         /\ row'[n][u] <= saved[u]
         /\ row'[n][u] <= row[Parent[n]][u] \/ tomb[Parent[n]][u] # 0

LEMMA ImportAdopts ==
    ASSUME NEW Site, Routes(Site), CatalogueInv(Site), NEW p \in Pulls, NEW h \in Hops,
           Import(p, h)
    PROVE  Adopted(job[p][h].at)
<1> DEFINE f == job[p][h]
           n == f.at
<1>0. /\ f \in Frame /\ Routed(f, Site[p][h]) /\ Sound(f, row, tomb, saved)
      /\ f.phase = "fetched" /\ n \in Instances /\ f.from \in Instances
      /\ f.exported \in [Uuids -> Nat]
      /\ clock \in Nat /\ saved' = saved
      /\ row \in [Instances -> [Uuids -> Nat]] /\ tomb \in [Instances -> [Uuids -> Nat]]
      /\ row' = [row EXCEPT ![n] = Merged(f)]
      /\ tomb' = [tomb EXCEPT ![n] = Buried(tomb[n], Removed(f))]
      /\ clock' \in {clock, clock + 1}
  BY DEF CatalogueInv, TypeOK, FrameInv, Import, Frame
<1>1. f.from = Parent[n] /\ n # Master
  BY <1>0 DEF Routed
<1>2. /\ row'[n] = Merged(f) /\ tomb'[n] = Buried(tomb[n], Removed(f))
      /\ \A m \in Instances \ {n} : row'[m] = row[m] /\ tomb'[m] = tomb[m]
  BY <1>0
<1>3. ASSUME NEW u \in Uuids
      PROVE  /\ tomb[n][u] # 0 => tomb'[n][u] # 0
             /\ tomb'[n][u] # 0 => row'[n][u] = 0 /\ tomb[Parent[n]][u] # 0
             /\ row[n][u] <= row'[n][u] \/ tomb'[n][u] # 0
             /\ row'[n][u] <= saved[u]
             /\ row'[n][u] <= row[Parent[n]][u] \/ tomb[Parent[n]][u] # 0
  <2> DEFINE e == f.exported[u]
             l == Landed(f)[u]
             x == u \in Removed(f)
  <2>1. l = IF e # 0 THEN e ELSE row[n][u]
    BY DEF Landed
  <2>2. row'[n][u] = IF x THEN 0 ELSE l
    BY <1>2 DEF Merged
  <2>3. tomb'[n][u] = IF x /\ tomb[n][u] = 0 THEN clock + 1 ELSE tomb[n][u]
    BY <1>2 DEF Buried
  <2>4. x => l # 0 /\ tomb[f.from][u] # 0
    BY <1>0 DEF Removed, Sound
  <2>5. e # 0 => /\ e <= saved[u]
                 /\ e <= row[f.from][u] \/ tomb[f.from][u] # 0
                 /\ row[n][u] <= e /\ tomb[n][u] = 0
    BY <1>0 DEF Sound
  <2>6. /\ row[n][u] <= saved[u]
        /\ tomb[n][u] # 0 => row[n][u] = 0 /\ tomb[Parent[n]][u] # 0
        /\ row[n][u] <= row[Parent[n]][u] \/ tomb[Parent[n]][u] # 0
    BY <1>0 DEF CatalogueInv, DataInv
  <2>7. /\ e \in Nat /\ row[n][u] \in Nat /\ row[f.from][u] \in Nat /\ tomb[n][u] \in Nat
        /\ saved[u] \in Nat /\ clock + 1 # 0
    BY <1>0 DEF CatalogueInv, TypeOK
  <2> HIDE DEF e, l, x, n, f
  <2>8. CASE x
    <3>1. row'[n][u] = 0 /\ tomb'[n][u] # 0 /\ tomb[Parent[n]][u] # 0
      BY <1>1, <2>2, <2>3, <2>4, <2>7, <2>8
    <3>2. 0 <= saved[u]
      BY <2>7
    <3>3. QED
      BY <3>1, <3>2
  <2>9. CASE ~x
    <3>1. row'[n][u] = l /\ tomb'[n][u] = tomb[n][u]
      BY <2>2, <2>3, <2>9
    <3>2. CASE e # 0
      <4>1. l = e
        BY <2>1, <3>2
      <4>2. QED
        BY <1>1, <2>5, <3>1, <3>2, <4>1
    <3>3. CASE e = 0
      <4>1. l = row[n][u]
        BY <2>1, <3>3
      <4>2. row[n][u] <= row[n][u]
        BY <2>7
      <4>3. QED
        BY <2>6, <3>1, <4>1, <4>2
    <3>4. QED
      BY <3>2, <3>3
  <2>10. QED
    BY <2>8, <2>9
<1>4. clock <= clock'
  BY <1>0
<1> HIDE DEF n, f
<1>5. Adopted(n)
  BY <1>0, <1>1, <1>2, <1>3, <1>4 DEF Adopted
<1>6. QED
  BY <1>5 DEF n, f

LEMMA AdoptedData ==
    ASSUME TypeOK, TypeOK', DataInv, NEW n, Adopted(n)
    PROVE  /\ DataInv'
           /\ \A m \in Instances : Forward(m, row, tomb, row', tomb')
<1>0. /\ row \in [Instances -> [Uuids -> Nat]] /\ row' \in [Instances -> [Uuids -> Nat]]
      /\ saved \in [Uuids -> Nat] /\ clock \in Nat /\ clock' \in Nat
      /\ Master \in Instances /\ Parent \in [Instances -> Instances]
  BY MainAssumption DEF TypeOK
<1>1. /\ n \in Instances /\ n # Master /\ saved' = saved /\ clock <= clock'
      /\ \A m \in Instances \ {n} : row'[m] = row[m] /\ tomb'[m] = tomb[m]
  BY DEF Adopted
<1>2. \A u \in Uuids :
         /\ tomb[n][u] # 0 => tomb'[n][u] # 0
         /\ tomb'[n][u] # 0 => row'[n][u] = 0 /\ tomb[Parent[n]][u] # 0
         /\ row[n][u] <= row'[n][u] \/ tomb'[n][u] # 0
         /\ row'[n][u] <= saved[u]
         /\ row'[n][u] <= row[Parent[n]][u] \/ tomb[Parent[n]][u] # 0
  BY DEF Adopted
<1>3. /\ \A u \in Uuids : saved[u] <= clock
      /\ \A m \in Instances, u \in Uuids :
           /\ row[m][u] <= saved[u]
           /\ tomb[m][u] # 0 => row[m][u] = 0 /\ tomb[Parent[m]][u] # 0 /\ tomb[Master][u] # 0
           /\ row[m][u] <= row[Parent[m]][u] \/ tomb[Parent[m]][u] # 0
  BY DEF DataInv
<1>4. ASSUME NEW m \in Instances, NEW u \in Uuids
      PROVE  /\ tomb[m][u] # 0 => tomb'[m][u] # 0
             /\ row[m][u] <= row'[m][u] \/ tomb'[m][u] # 0
  <2>1. CASE m = n
    BY <1>2, <2>1
  <2>2. CASE m # n
    <3>1. row'[m][u] = row[m][u] /\ tomb'[m][u] = tomb[m][u] /\ row[m][u] \in Nat
      BY <1>0, <1>1, <2>2
    <3>2. QED
      BY <3>1
  <2>3. QED
    BY <2>1, <2>2
<1>5. ASSUME NEW u \in Uuids PROVE saved'[u] <= clock'
  <2>1. saved[u] \in Nat /\ saved[u] <= clock
    BY <1>0, <1>3
  <2>2. QED
    BY <1>0, <1>1, <2>1
<1>6. ASSUME NEW m \in Instances, NEW u \in Uuids
      PROVE  /\ row'[m][u] <= saved'[u]
             /\ tomb'[m][u] # 0 => row'[m][u] = 0 /\ tomb'[Parent[m]][u] # 0
                                   /\ tomb'[Master][u] # 0
             /\ row'[m][u] <= row'[Parent[m]][u] \/ tomb'[Parent[m]][u] # 0
  <2>1. Parent[m] \in Instances
    BY <1>0
  <2>2. /\ row'[m][u] \in Nat /\ row[Parent[m]][u] \in Nat /\ row'[Parent[m]][u] \in Nat
    BY <1>0, <2>1
  <2>3. /\ tomb[Parent[m]][u] # 0 => tomb'[Parent[m]][u] # 0
        /\ row[Parent[m]][u] <= row'[Parent[m]][u] \/ tomb'[Parent[m]][u] # 0
        /\ tomb[Master][u] # 0 => tomb'[Master][u] # 0
    BY <1>0, <1>4, <2>1
  <2>4. /\ row'[m][u] <= saved[u]
        /\ tomb'[m][u] # 0 => row'[m][u] = 0 /\ tomb[Parent[m]][u] # 0
        /\ row'[m][u] <= row[Parent[m]][u] \/ tomb[Parent[m]][u] # 0
    <3>1. CASE m = n
      BY <1>2, <3>1
    <3>2. CASE m # n
      <4>1. row'[m] = row[m] /\ tomb'[m] = tomb[m]
        BY <1>1, <3>2
      <4>2. QED
        BY <1>3, <4>1
    <3>3. QED
      BY <3>1, <3>2
  <2>5. tomb[Parent[m]][u] # 0 => tomb[Master][u] # 0
    BY <1>3, <2>1
  <2>6. row'[m][u] <= saved'[u]
    BY <1>1, <2>4
  <2>7. tomb'[m][u] # 0 => row'[m][u] = 0 /\ tomb'[Parent[m]][u] # 0 /\ tomb'[Master][u] # 0
    BY <2>3, <2>4, <2>5
  <2>8. row'[m][u] <= row'[Parent[m]][u] \/ tomb'[Parent[m]][u] # 0
    BY <2>2, <2>3, <2>4
  <2>9. QED
    BY <2>6, <2>7, <2>8
<1>7. DataInv'
  BY <1>5, <1>6 DEF DataInv
<1>8. \A m \in Instances : Forward(m, row, tomb, row', tomb')
  BY <1>4 DEF Forward
<1>9. QED
  BY <1>7, <1>8

LEMMA ImportInv ==
    ASSUME NEW Site, Routes(Site), CatalogueInv(Site), TypeOK',
           NEW p \in Pulls, NEW h \in Hops, Import(p, h)
    PROVE  DataInv' /\ FrameInv(Site)'
<1> DEFINE n == job[p][h].at
<1>1. TypeOK /\ DataInv /\ Adopted(n)
  BY ImportAdopts DEF CatalogueInv
<1>2. Routed(job[p][h], Site[p][h]) /\ job[p][h].phase = "fetched"
  BY DEF CatalogueInv, FrameInv, Import
<1>3. n = Site[p][h] /\ n # Master
  BY <1>2 DEF Routed
<1> HIDE DEF n
<1>4. DataInv' /\ \A m \in Instances : Forward(m, row, tomb, row', tomb')
  BY <1>1, AdoptedData
<1>5. /\ row \in [Instances -> [Uuids -> Nat]] /\ row' \in [Instances -> [Uuids -> Nat]]
      /\ tomb \in [Instances -> [Uuids -> Nat]] /\ tomb' \in [Instances -> [Uuids -> Nat]]
      /\ saved \in [Uuids -> Nat] /\ saved' \in [Uuids -> Nat]
  BY <1>1 DEF TypeOK
<1>6. /\ \A m \in Instances \ {n} : row'[m] = row[m] /\ tomb'[m] = tomb[m]
      /\ \A u \in Uuids : saved[u] <= saved'[u]
  BY <1>1, <1>5 DEF Adopted
<1>7. ASSUME NEW q \in Pulls, NEW i \in Hops
      PROVE  Routed(job'[q][i], Site[q][i]) /\ Sound(job'[q][i], row', tomb', saved')
  <2> DEFINE g == job[q][i]
             g2 == job'[q][i]
  <2>1. job' = [job EXCEPT ![p] = Over(p, h, TRUE)]
    BY DEF Import
  <2>2. /\ Routed(g2, Site[q][i])
        /\ \/ g2 = g /\ ~(q = p /\ i = h)
           \/ g2.phase \notin {"exported", "fetched"}
    BY <2>1, OverInv
  <2>3. Routed(g, Site[q][i]) /\ Sound(g, row, tomb, saved) /\ g \in Frame
    BY DEF CatalogueInv, FrameInv, TypeOK
  <2>4. g.at \in Instances /\ g.from \in Instances
    BY <2>3 DEF Frame
  <2> HIDE DEF g, g2
  <2>5. CASE g2 = g /\ ~(q = p /\ i = h)
    <3>1. Site[p][h] # Site[q][i]
      BY <1>3, <2>5 DEF Routes
    <3>2. g.phase # "idle" => row'[g.at] = row[g.at] /\ tomb'[g.at] = tomb[g.at]
      BY <1>3, <1>6, <2>3, <2>4, <3>1 DEF Routed
    <3>3. Sound(g, row', tomb', saved')
      BY <1>4, <1>5, <1>6, <2>3, <2>4, <3>2, StaysSound
    <3>4. QED
      BY <2>2, <2>5, <3>3 DEF g2
  <2>6. CASE g2.phase \notin {"exported", "fetched"}
    BY <2>2, <2>6, UnreadSound DEF g2
  <2>7. QED
    BY <2>2, <2>5, <2>6
<1>8. QED
  BY <1>4, <1>7 DEF FrameInv

LEMMA InitInv == ASSUME NEW Site, Init PROVE CatalogueInv(Site)
<1>1. \A u \in Uuids : None[u] = 0
  BY DEF None
<1>2. TypeOK
  BY InitTypeOK
<1>3. Parent \in [Instances -> Instances]
  BY MainAssumption
<1>4. DataInv
  <2>1. \A n \in Instances, u \in Uuids : row[n][u] = 0 /\ tomb[n][u] = 0
    BY <1>1 DEF Init
  <2>2. clock = 0 /\ \A u \in Uuids : saved[u] = 0
    BY <1>1 DEF Init
  <2>3. \A n \in Instances : Parent[n] \in Instances
    BY <1>3
  <2>4. QED
    BY <2>1, <2>2, <2>3 DEF DataInv
<1>5. ASSUME NEW p \in Pulls, NEW h \in Hops
      PROVE  Routed(job[p][h], Site[p][h]) /\ Sound(job[p][h], row, tomb, saved)
  <2>1. job[p][h].phase = "idle"
    BY DEF Init, NoPull
  <2>2. QED
    BY <2>1, UnreadSound DEF Routed
<1>6. QED
  BY <1>2, <1>4, <1>5 DEF CatalogueInv, FrameInv

LEMMA NextInv ==
    ASSUME NEW Site, Routes(Site), CatalogueInv(Site), [Next]_vars
    PROVE  CatalogueInv(Site)'
<1>0. TypeOK'
  BY NextTypeOK DEF CatalogueInv
<1> SUFFICES DataInv' /\ FrameInv(Site)'
  BY <1>0 DEF CatalogueInv
<1>1. CASE UNCHANGED vars
  BY <1>1 DEF vars, CatalogueInv, DataInv, FrameInv
<1>2. ASSUME NEW u \in Uuids, Curate(u) PROVE DataInv' /\ FrameInv(Site)'
  BY <1>0, <1>2, SaveInv, DeleteInv DEF Curate
<1>3. ASSUME NEW n \in Instances, NEW u \in Uuids, Reference(n, u)
      PROVE  DataInv' /\ FrameInv(Site)'
  BY <1>3 DEF Reference, Cite, Uncite, CatalogueInv, DataInv, FrameInv
<1>4. ASSUME NEW p \in Pulls, NEW m \in Instances, NEW since \in Sinces,
             NEW cascade \in BOOLEAN, StartPull(p, m, since, cascade)
      PROVE  DataInv' /\ FrameInv(Site)'
  BY <1>4, StartInv
<1>5. ASSUME NEW p \in Pulls, NEW h \in Hops, Refresh(p, h) \/ Read(p, h)
      PROVE  DataInv' /\ FrameInv(Site)'
  <2>1. CASE Refresh(p, h) \/ Fail(p, h)
    BY <2>1, RefreshInv
  <2>2. CASE Export(p, h)
    BY <2>2, ExportInv
  <2>3. CASE FetchDeleted(p, h)
    BY <2>3, FetchDeletedInv
  <2>4. CASE Import(p, h)
    BY <1>0, <2>4, ImportInv
  <2>5. QED
    BY <1>5, <2>1, <2>2, <2>3, <2>4 DEF Read
<1>6. QED
  BY <1>1, <1>2, <1>3, <1>4, <1>5 DEF Next

\* Each step of the replication is a step of the catalogue, or none.
LEMMA SavePublishes ==
    ASSUME TypeOK, DataInv, NEW u \in Uuids, Save(u)
    PROVE  Catalogue!Publish(u)
<1>1. /\ saved \in [Uuids -> Nat] /\ row \in [Instances -> [Uuids -> Nat]]
      /\ clock \in Nat /\ saved[u] <= clock /\ Master \in Instances
  BY MainAssumption DEF TypeOK, DataInv
<1>2. saved'[u] = clock + 1 /\ saved' = [saved EXCEPT ![u] = clock + 1]
  BY <1>1 DEF Save
<1>3. saved[u]' > saved[u]
  BY <1>1, <1>2
<1>4. u \notin [n \in Instances |-> {v \in Uuids : tomb[n][v] # 0}][Master]
  <2>1. tomb[Master][u] # 0 => row[Master][u] = 0
    BY <1>1 DEF DataInv
  <2>2. QED
    BY <1>1, <2>1 DEF Save
<1>5. row' = [row EXCEPT ![Master][u] = saved[u]'] /\ tomb' = tomb
  BY <1>2 DEF Save
<1>6. QED
  BY <1>2, <1>3, <1>4, <1>5 DEF Catalogue!Publish

LEMMA DeleteWithdraws ==
    ASSUME TypeOK, NEW u \in Uuids, Delete(u)
    PROVE  Catalogue!Withdraw(u)
<1> DEFINE g == [n \in Instances |-> {v \in Uuids : tomb[n][v] # 0}]
<1>1. /\ tomb \in [Instances -> [Uuids -> Nat]] /\ clock \in Nat /\ Master \in Instances
  BY MainAssumption DEF TypeOK
<1>2. /\ tomb' = [tomb EXCEPT ![Master] = Buried(tomb[Master], {u})]
      /\ row[Master][u] # 0 /\ row' = [row EXCEPT ![Master][u] = 0] /\ saved' = saved
  BY <1>1 DEF Delete
<1>3. \A v \in Uuids : tomb'[Master][v] # 0 <=> tomb[Master][v] # 0 \/ v = u
  <2>1. tomb'[Master] = Buried(tomb[Master], {u})
    BY <1>1, <1>2
  <2>2. QED
    BY <1>1, <2>1 DEF Buried
<1>4. \A n \in Instances \ {Master} : tomb'[n] = tomb[n]
  BY <1>1, <1>2
<1>5. g' = [g EXCEPT ![Master] = g[Master] \cup {u}]
  <2>1. ASSUME NEW n \in Instances
        PROVE  {v \in Uuids : tomb'[n][v] # 0}
               = IF n = Master THEN {v \in Uuids : tomb[n][v] # 0} \cup {u}
                 ELSE {v \in Uuids : tomb[n][v] # 0}
    <3>1. CASE n = Master
      BY <1>3, <3>1
    <3>2. CASE n # Master
      BY <1>4, <3>2
    <3>3. QED
      BY <3>1, <3>2
  <2>2. QED
    BY <1>1, <2>1
<1>6. QED
  BY <1>2, <1>5 DEF Catalogue!Withdraw

LEMMA AdoptedAdopts ==
    ASSUME TypeOK, TypeOK', DataInv, NEW n, Adopted(n)
    PROVE  Catalogue!Adopt(n)
<1> DEFINE g == [m \in Instances |-> {v \in Uuids : tomb[m][v] # 0}]
<1>0. /\ row \in [Instances -> [Uuids -> Nat]] /\ row' \in [Instances -> [Uuids -> Nat]]
      /\ Master \in Instances /\ Parent \in [Instances -> Instances]
  BY MainAssumption DEF TypeOK
<1>1. /\ n \in Instances /\ n # Master /\ saved' = saved
      /\ \A m \in Instances \ {n} : row'[m] = row[m] /\ tomb'[m] = tomb[m]
  BY DEF Adopted
<1>2. \A m \in Instances \ {n} : row'[m] = row[m] /\ g'[m] = g[m]
  BY <1>1
<1>3. \A u \in Uuids :
         /\ tomb[n][u] # 0 => tomb'[n][u] # 0
         /\ tomb'[n][u] # 0 => row'[n][u] = 0 /\ tomb[Master][u] # 0
         /\ row[n][u] <= row'[n][u] \/ tomb'[n][u] # 0
         /\ row'[n][u] <= saved[u]
  BY <1>0, <1>1 DEF Adopted, DataInv
<1>4. /\ g[n] = {v \in Uuids : tomb[n][v] # 0} /\ g'[n] = {v \in Uuids : tomb'[n][v] # 0}
      /\ g[Master] = {v \in Uuids : tomb[Master][v] # 0}
  BY <1>0, <1>1
<1>5. g[n] \subseteq g'[n] /\ g'[n] \subseteq g[n] \cup g[Master]
  BY <1>3, <1>4
<1>6. ASSUME NEW u \in Uuids PROVE Catalogue!MovesForward(n, u)
  <2>1. CASE u \in g'[n]
    <3>1. row'[n][u] = 0
      BY <1>3, <1>4, <2>1
    <3>2. QED
      BY <2>1, <3>1 DEF Catalogue!MovesForward
  <2>2. CASE u \notin g'[n]
    <3>1. row[n][u] <= row'[n][u] /\ row'[n][u] <= saved[u]
      BY <1>3, <1>4, <2>2
    <3>2. QED
      BY <2>2, <3>1 DEF Catalogue!MovesForward
  <2>3. QED
    BY <2>1, <2>2
<1>7. QED
  BY <1>1, <1>2, <1>5, <1>6 DEF Catalogue!Adopt

\* What a step leaves alone, the catalogue leaves alone.
LEMMA SameCatalogue ==
    ASSUME UNCHANGED <<row, tomb, saved>>
    PROVE  UNCHANGED <<saved, row, [n \in Instances |-> {u \in Uuids : tomb[n][u] # 0}]>>
OBVIOUS

LEMMA StepsMap ==
    ASSUME NEW Site, Routes(Site), CatalogueInv(Site), [Next]_vars
    PROVE  [Catalogue!Next]_<<saved, row, [n \in Instances |-> {u \in Uuids : tomb[n][u] # 0}]>>
<1>0. TypeOK /\ DataInv /\ TypeOK'
  BY NextTypeOK DEF CatalogueInv
<1>1. CASE UNCHANGED vars
  BY <1>1, SameCatalogue DEF vars
<1>2. ASSUME NEW u \in Uuids, Curate(u) PROVE Catalogue!Next
  BY <1>0, <1>2, SavePublishes, DeleteWithdraws DEF Curate, Catalogue!Next
<1>3. ASSUME NEW n \in Instances, NEW u \in Uuids, Reference(n, u)
      PROVE  UNCHANGED <<row, tomb, saved>>
  BY <1>3 DEF Reference, Cite, Uncite
<1>4. ASSUME NEW p \in Pulls, NEW m \in Instances, NEW since \in Sinces,
             NEW cascade \in BOOLEAN, StartPull(p, m, since, cascade)
      PROVE  UNCHANGED <<row, tomb, saved>>
  BY <1>4 DEF StartPull
<1>5. ASSUME NEW p \in Pulls, NEW h \in Hops, Import(p, h) PROVE Catalogue!Next
  <2>1. Adopted(job[p][h].at)
    BY <1>5, ImportAdopts
  <2>2. PICK n \in Instances : n = job[p][h].at
    BY <2>1 DEF Adopted
  <2>3. Adopted(n)
    BY <2>1, <2>2 DEF Adopted
  <2>4. Catalogue!Adopt(n)
    BY <1>0, <2>3, AdoptedAdopts
  <2>5. QED
    BY <2>4 DEF Catalogue!Next
<1>6. ASSUME NEW p \in Pulls, NEW h \in Hops, Refresh(p, h) \/ Read(p, h), ~Import(p, h)
      PROVE  UNCHANGED <<row, tomb, saved>>
  BY <1>6 DEF Refresh, Read, Proceed, Ask, GiveUp, TimeOut, Export, FetchDeleted, Fail
<1>7. CASE Catalogue!Next
  BY <1>7
<1>8. CASE UNCHANGED <<row, tomb, saved>>
  BY <1>8, SameCatalogue
<1>9. QED
  BY <1>1, <1>2, <1>3, <1>4, <1>5, <1>6, <1>7, <1>8 DEF Next

LEMMA InitMaps == Init => Catalogue!Init
<1> SUFFICES ASSUME Init PROVE Catalogue!Init
  OBVIOUS
<1>1. \A n \in Instances : {u \in Uuids : tomb[n][u] # 0} = {}
  BY DEF Init, None
<1>2. saved = [u \in Uuids |-> 0] /\ row = [n \in Instances |-> [u \in Uuids |-> 0]]
  BY DEF Init, None
<1>3. QED
  BY <1>1, <1>2 DEF Catalogue!Init

\* Where pulls run along the tree of parents and no two of them meet at an
\* instance, each copy is a replica of the master's catalogue that only moves
\* forward: rows that are read, refreshed, saved and deleted in between bring no
\* older state and no deleted row back.
THEOREM ReplicationImplements ==
    ASSUME NEW CONSTANT Site, Routes(Site)
    PROVE  Spec => ReplicasMoveForward
<1>1. Init => CatalogueInv(Site)
  BY InitInv
<1>2. CatalogueInv(Site) /\ [Next]_vars => CatalogueInv(Site)'
  BY NextInv
<1>3. CatalogueInv(Site) /\ [Next]_vars
      => [Catalogue!Next]_<<saved, row, [n \in Instances |-> {u \in Uuids : tomb[n][u] # 0}]>>
  BY StepsMap
<1>4. QED
  BY <1>1, <1>2, <1>3, InitMaps, PTL DEF Spec, ReplicasMoveForward, Catalogue!Spec

----------------------------------------------------------------------------
(* The safety half of CopiesConverge.                                      *)

\* Frame f has in hand all that its peer has and all that it has deleted, as it
\* is there now.
ReadInFull(f) ==
    /\ f.since = 0
    /\ f.exported = row[f.from]
    /\ f.deleted = {u \in Uuids : tomb[f.from][u] # 0}

Copied(f) == \A u \in Uuids :
    row'[f.at][u] # row[f.from][u] => u \in cited[f.at] /\ tomb[f.from][u] # 0

\* A full pull, if its peer stands still, leaves the copy equal to the peer's,
\* but for rows that the peer has deleted and local records still refer to.
FullPullsCopy ==
    [][\A p \in Pulls, h \in Hops :
          Import(p, h) /\ ReadInFull(job[p][h]) => Copied(job[p][h])]_vars

LEMMA ImportCopies ==
    ASSUME NEW Site, Routes(Site), CatalogueInv(Site), NEW p \in Pulls, NEW h \in Hops,
           Import(p, h), ReadInFull(job[p][h])
    PROVE  Copied(job[p][h])
<1> DEFINE f == job[p][h]
           n == f.at
<1>1. /\ f \in Frame /\ Routed(f, Site[p][h]) /\ f.phase = "fetched"
      /\ n \in Instances /\ f.from \in Instances
      /\ row \in [Instances -> [Uuids -> Nat]] /\ row' = [row EXCEPT ![n] = Merged(f)]
  BY DEF CatalogueInv, TypeOK, FrameInv, Import, Frame
<1>2. f.from = Parent[n]
  BY <1>1 DEF Routed
<1>3. ASSUME NEW u \in Uuids, row'[n][u] # row[f.from][u]
      PROVE  u \in cited[n] /\ tomb[f.from][u] # 0
  <2>1. row'[n][u] = IF u \in Removed(f) THEN 0 ELSE Landed(f)[u]
    BY <1>1 DEF Merged
  <2>2. Landed(f)[u] = IF row[f.from][u] # 0 THEN row[f.from][u] ELSE row[n][u]
    BY DEF Landed, ReadInFull
  <2>3. u \in Removed(f) <=> tomb[f.from][u] # 0 /\ Landed(f)[u] # 0 /\ u \notin cited[n]
    BY DEF Removed, ReadInFull
  <2>4. /\ tomb[f.from][u] # 0 => row[f.from][u] = 0
        /\ row[n][u] <= row[f.from][u] \/ tomb[f.from][u] # 0
        /\ row[n][u] \in Nat /\ row[f.from][u] \in Nat
    BY <1>1, <1>2 DEF CatalogueInv, DataInv
  <2> HIDE DEF f, n
  <2>5. row[f.from][u] = 0 /\ u \notin Removed(f) /\ row[n][u] # 0
    BY <1>3, <2>1, <2>2, <2>3, <2>4
  <2>6. QED
    BY <2>2, <2>3, <2>4, <2>5
<1>4. QED
  BY <1>3 DEF Copied

\* Along the routes of a tree, a full pull of a peer that stands still makes up
\* for every edit, failure, partial pull and skipped deletion before it.
THEOREM FullPullsMakeEqual ==
    ASSUME NEW CONSTANT Site, Routes(Site)
    PROVE  Spec => FullPullsCopy
<1>1. Init => CatalogueInv(Site)
  BY InitInv
<1>2. CatalogueInv(Site) /\ [Next]_vars => CatalogueInv(Site)'
  BY NextInv
<1>3. CatalogueInv(Site) => \A p \in Pulls, h \in Hops :
         Import(p, h) /\ ReadInFull(job[p][h]) => Copied(job[p][h])
  BY ImportCopies
<1>4. QED
  BY <1>1, <1>2, <1>3, PTL DEF Spec, FullPullsCopy

----------------------------------------------------------------------------
(* What a refreshed pull brings.                                           *)

\* Rows t2 buries nothing less than t, and every row is later, or gone.
Later(r, t, r2, t2) == \A u \in Uuids :
    /\ t[Master][u] # 0 => t2[Master][u] # 0
    /\ \A n \in Instances : r[n][u] <= r2[n][u] \/ t2[Master][u] # 0

\* The master has what the operator has seen; and a frame that believes its peer
\* is fresh reads, or has read, at least that.
Current(f, r, t) ==
    /\ f.phase \in {"start", "waiting"} => ~f.fresh
    /\ \A u \in Uuids :
         /\ f.phase # "idle" => f.seen[u] <= r[Master][u] \/ t[Master][u] # 0
         /\ f.phase # "idle" /\ f.fresh /\ f.since < f.seen[u] =>
              /\ f.seen[u] <= r[f.from][u] \/ t[Master][u] # 0
              /\ f.phase \in {"exported", "fetched"} =>
                    f.seen[u] <= f.exported[u] \/ t[Master][u] # 0

\* A frame that waits, waits for a pull that asks for the same.
Paired == \A p \in Pulls, h \in Hops :
    job[p][h].phase = "waiting" =>
        /\ h + 1 \in Hops /\ job[p][h + 1].phase # "idle"
        /\ job[p][h + 1].since = job[p][h].since /\ job[p][h + 1].seen = job[p][h].seen

CurrentInv == \A p \in Pulls, h \in Hops : Current(job[p][h], row, tomb)

FreshInv(Site) == CatalogueInv(Site) /\ CurrentInv /\ Paired

LEMMA StepIsLater ==
    ASSUME NEW Site, Routes(Site), CatalogueInv(Site), [Next]_vars
    PROVE  Later(row, tomb, row', tomb')
<1>0. /\ TypeOK /\ DataInv /\ TypeOK' /\ DataInv' /\ Master \in Instances
  BY NextInv, MainAssumption DEF CatalogueInv
<1>1. CASE \A n \in Instances : Forward(n, row, tomb, row', tomb')
  <2>1. \A n \in Instances, u \in Uuids : tomb'[n][u] # 0 => tomb'[Master][u] # 0
    BY <1>0 DEF DataInv
  <2>2. QED
    BY <1>0, <1>1, <2>1 DEF Forward, Later
<1>2. CASE UNCHANGED <<row, tomb>>
  <2>1. \A n \in Instances, u \in Uuids : row[n][u] \in Nat
    BY <1>0 DEF TypeOK
  <2>2. QED
    BY <1>2, <2>1 DEF Later
<1>3. ASSUME NEW u \in Uuids, Curate(u)
      PROVE  \A n \in Instances : Forward(n, row, tomb, row', tomb')
  BY <1>0, <1>3, SaveInv, DeleteInv DEF Curate
<1>4. ASSUME NEW p \in Pulls, NEW h \in Hops, Import(p, h)
      PROVE  \A n \in Instances : Forward(n, row, tomb, row', tomb')
  <2> DEFINE n == job[p][h].at
  <2>1. Adopted(n)
    BY <1>4, ImportAdopts
  <2> HIDE DEF n
  <2>2. QED
    BY <1>0, <2>1, AdoptedData
<1>5. ASSUME NEW p \in Pulls, NEW h \in Hops, Refresh(p, h) \/ Read(p, h), ~Import(p, h)
      PROVE  UNCHANGED <<row, tomb>>
  BY <1>5 DEF Refresh, Read, Proceed, Ask, GiveUp, TimeOut, Export, FetchDeleted, Fail
<1>6. ASSUME NEW n \in Instances, NEW u \in Uuids, Reference(n, u)
      PROVE  UNCHANGED <<row, tomb>>
  BY <1>6 DEF Reference, Cite, Uncite
<1>7. ASSUME NEW p \in Pulls, NEW m \in Instances, NEW since \in Sinces,
             NEW cascade \in BOOLEAN, StartPull(p, m, since, cascade)
      PROVE  UNCHANGED <<row, tomb>>
  BY <1>7 DEF StartPull
<1>8. CASE UNCHANGED vars
  BY <1>2, <1>8 DEF vars
<1>9. QED
  BY <1>1, <1>2, <1>3, <1>4, <1>5, <1>6, <1>7, <1>8 DEF Next

\* What a frame knows stays true while the databases move forward.
LEMMA StaysCurrent ==
    ASSUME NEW f \in Frame,
           NEW r \in [Instances -> [Uuids -> Nat]], NEW r2 \in [Instances -> [Uuids -> Nat]],
           NEW t, NEW t2, Current(f, r, t), Later(r, t, r2, t2)
    PROVE  Current(f, r2, t2)
<1>1. ASSUME NEW n \in Instances, NEW u \in Uuids, f.seen[u] <= r[n][u] \/ t[Master][u] # 0
      PROVE  f.seen[u] <= r2[n][u] \/ t2[Master][u] # 0
  <2>1. f.seen[u] \in Nat /\ r[n][u] \in Nat /\ r2[n][u] \in Nat
    BY DEF Frame
  <2>2. r[n][u] <= r2[n][u] \/ t2[Master][u] # 0
    BY DEF Later
  <2>3. t[Master][u] # 0 => t2[Master][u] # 0
    BY DEF Later
  <2>4. QED
    BY <1>1, <2>1, <2>2, <2>3
<1>2. Master \in Instances /\ f.from \in Instances
  BY MainAssumption DEF Frame
<1>3. \A u \in Uuids : t[Master][u] # 0 => t2[Master][u] # 0
  BY DEF Later
<1>4. QED
  BY <1>1, <1>2, <1>3 DEF Current

\* What a fresh frame imports is at least what the operator has seen.
LEMMA FreshArrives ==
    ASSUME NEW Site, FreshInv(Site), NEW p \in Pulls, NEW h \in Hops, Import(p, h),
           job[p][h].fresh, NEW u \in Uuids, job[p][h].since < job[p][h].seen[u]
    PROVE  job[p][h].seen[u] <= row'[job[p][h].at][u] \/ tomb[Master][u] # 0
<1> DEFINE f == job[p][h]
           n == f.at
<1>1. /\ f \in Frame /\ Current(f, row, tomb) /\ Sound(f, row, tomb, saved)
      /\ f.phase = "fetched" /\ n \in Instances /\ f.from \in Instances
      /\ row \in [Instances -> [Uuids -> Nat]]
      /\ row' = [row EXCEPT ![n] = Merged(f)]
  BY DEF FreshInv, CatalogueInv, TypeOK, FrameInv, CurrentInv, Import, Frame
<1>2. f.seen[u] <= f.exported[u] \/ tomb[Master][u] # 0
  BY <1>1 DEF Current
<1>3. f.seen[u] \in Nat /\ f.since \in Nat /\ f.exported[u] \in Nat
  BY <1>1 DEF Frame
<1>4. f.seen[u] <= f.exported[u] => f.exported[u] # 0
  BY <1>3
<1>5. row'[n][u] = IF u \in Removed(f) THEN 0 ELSE Landed(f)[u]
  <2>1. row'[n] = Merged(f)
    BY <1>1
  <2>2. QED
    BY <2>1 DEF Merged
<1>6. u \in Removed(f) => tomb[Master][u] # 0
  <2>1. u \in Removed(f) => tomb[f.from][u] # 0
    BY <1>1 DEF Removed, Sound
  <2>2. tomb[f.from][u] # 0 => tomb[Master][u] # 0
    BY <1>1 DEF FreshInv, CatalogueInv, DataInv
  <2>3. QED
    BY <2>1, <2>2
<1>7. f.exported[u] # 0 => Landed(f)[u] = f.exported[u]
  BY DEF Landed
<1>8. QED
  BY <1>2, <1>4, <1>5, <1>6, <1>7

\* A frame that goes on without waiting leaves the others paired.
LEMMA GoesOnPaired ==
    ASSUME TypeOK, Paired, NEW p \in Pulls, NEW h \in Hops, NEW g,
           job' = [job EXCEPT ![p][h] = g], g.phase \notin {"idle", "waiting"},
           \/ g.since = job[p][h].since /\ g.seen = job[p][h].seen
           \/ job[p][h].phase = "idle"
    PROVE  Paired'
<1>1. job \in [Pulls -> [Hops -> Frame]] /\ Hops \subseteq Nat
  BY HopsNat DEF TypeOK
<1>2. ASSUME NEW q \in Pulls, NEW i \in Hops, job'[q][i].phase = "waiting"
      PROVE  /\ i + 1 \in Hops /\ job'[q][i + 1].phase # "idle"
             /\ job'[q][i + 1].since = job'[q][i].since
             /\ job'[q][i + 1].seen = job'[q][i].seen
  <2>1. ~(q = p /\ i = h)
    <3>1. job'[p][h] = g
      BY <1>1
    <3>2. QED
      BY <1>2, <3>1
  <2>2. job'[q][i] = job[q][i]
    BY <1>1, <2>1
  <2>3. /\ i + 1 \in Hops /\ job[q][i + 1].phase # "idle"
        /\ job[q][i + 1].since = job[q][i].since /\ job[q][i + 1].seen = job[q][i].seen
    BY <1>2, <2>2 DEF Paired
  <2>4. job'[q][i + 1] = IF q = p /\ i + 1 = h THEN g ELSE job[q][i + 1]
    BY <1>1, <2>3
  <2>5. QED
    BY <2>2, <2>3, <2>4
<1>3. QED
  BY <1>2 DEF Paired

LEMMA AskPaired ==
    ASSUME TypeOK, Paired, NEW p \in Pulls, NEW h \in Hops, Ask(p, h)
    PROVE  Paired'
<1> DEFINE f == job[p][h]
           g == NewFrame(f.from, Parent[f.from], f.since, Remaining(f.depth), f.seen)
           w == Awaiting(f)
<1>1. /\ job \in [Pulls -> [Hops -> Frame]] /\ Hops \subseteq Nat /\ f \in Frame
      /\ f.phase = "start" /\ h + 1 \in Hops /\ job[p][h + 1].phase = "idle"
      /\ job' = [job EXCEPT ![p][h] = w, ![p][h + 1] = g]
  BY HopsNat DEF Ask, CanAsk, TypeOK
<1>2. w.since = f.since /\ w.seen = f.seen /\ w.phase = "waiting"
  BY <1>1 DEF Awaiting, Frame
<1>3. g.phase = "start" /\ g.since = f.since /\ g.seen = f.seen
  BY DEF NewFrame, NoPull
<1> HIDE DEF g, w
<1>4. job'[p][h] = w /\ job'[p][h + 1] = g
  BY <1>1
<1>5. ASSUME NEW q \in Pulls, NEW i \in Hops, job'[q][i].phase = "waiting"
      PROVE  /\ i + 1 \in Hops /\ job'[q][i + 1].phase # "idle"
             /\ job'[q][i + 1].since = job'[q][i].since
             /\ job'[q][i + 1].seen = job'[q][i].seen
  <2>1. CASE q = p /\ i = h
    BY <1>1, <1>2, <1>3, <1>4, <2>1
  <2>2. CASE q = p /\ i = h + 1
    BY <1>3, <1>4, <1>5, <2>2
  <2>3. CASE q # p \/ (i # h /\ i # h + 1)
    <3>1. job'[q][i] = job[q][i]
      BY <1>1, <2>3
    <3>2. /\ i + 1 \in Hops /\ job[q][i + 1].phase # "idle"
          /\ job[q][i + 1].since = job[q][i].since /\ job[q][i + 1].seen = job[q][i].seen
      BY <1>5, <3>1 DEF Paired
    <3>3. i \in Nat /\ h \in Nat
      BY <1>1
    <3>4. CASE q = p /\ i + 1 = h
      BY <1>2, <1>4, <3>1, <3>2, <3>4
    <3>5. CASE ~(q = p /\ i + 1 = h)
      <4>1. ~(q = p /\ i + 1 = h + 1)
        BY <2>3, <3>3
      <4>2. job'[q][i + 1] = job[q][i + 1]
        BY <1>1, <3>2, <3>5, <4>1
      <4>3. QED
        BY <3>1, <3>2, <4>2
    <3>6. QED
      BY <3>4, <3>5
  <2>4. QED
    BY <2>1, <2>2, <2>3
<1>6. QED
  BY <1>5 DEF Paired

LEMMA OverPaired ==
    ASSUME TypeOK, Paired, NEW p \in Pulls, NEW h \in Hops, NEW ok \in BOOLEAN,
           job' = [job EXCEPT ![p] = Over(p, h, ok)]
    PROVE  Paired'
<1>1. ASSUME NEW q \in Pulls, NEW i \in Hops, job'[q][i].phase = "waiting"
      PROVE  /\ i + 1 \in Hops /\ job'[q][i + 1].phase # "idle"
             /\ job'[q][i + 1].since = job'[q][i].since
             /\ job'[q][i + 1].seen = job'[q][i].seen
  <2>1. Left(q, i, p, h, ok)
    BY OverFrames
  <2>2. NoPull.phase = "idle"
    BY DEF NoPull
  <2>3. /\ job'[q][i] = job[q][i]
        /\ ~(q = p /\ i + 1 = h /\ job[q][i].phase = "waiting")
    BY <1>1, <2>1, <2>2 DEF Left
  <2>4. /\ i + 1 \in Hops /\ job[q][i + 1].phase # "idle"
        /\ job[q][i + 1].since = job[q][i].since /\ job[q][i + 1].seen = job[q][i].seen
    BY <1>1, <2>3 DEF Paired
  <2>5. Left(q, i + 1, p, h, ok)
    BY <2>4, OverFrames
  <2>6. ~(q = p /\ i + 1 = h)
    BY <1>1, <2>3
  <2>7. QED
    BY <2>3, <2>4, <2>5, <2>6 DEF Left
<1>2. QED
  BY <1>1 DEF Paired

\* The frames when hop h is over: whoever was waiting knows what it is told.
LEMMA OverCurrent ==
    ASSUME NEW Site, Routes(Site), FreshInv(Site), TypeOK', Later(row, tomb, row', tomb'),
           NEW p \in Pulls, NEW h \in Hops, NEW ok \in BOOLEAN,
           job' = [job EXCEPT ![p] = Over(p, h, ok)], ok => Import(p, h)
    PROVE  CurrentInv' /\ Paired'
<1>0. /\ TypeOK /\ Paired /\ row \in [Instances -> [Uuids -> Nat]]
      /\ row' \in [Instances -> [Uuids -> Nat]]
  BY DEF FreshInv, CatalogueInv, TypeOK
<1>1. ASSUME NEW q \in Pulls, NEW i \in Hops
      PROVE  Current(job'[q][i], row', tomb')
  <2> DEFINE g == job[q][i]
             g2 == job'[q][i]
             f == job[p][h]
  <2>1. Left(q, i, p, h, ok)
    BY <1>0, OverFrames
  <2>2. g \in Frame /\ f \in Frame /\ Current(g, row, tomb)
    BY <1>0 DEF FreshInv, CurrentInv, TypeOK
  <2>3. Current(g, row', tomb')
    <3> HIDE DEF g
    <3> QED
      BY <1>0, <2>2, StaysCurrent
  <2>4. CASE g2 = g
    BY <2>3, <2>4
  <2>5. CASE g2 = NoPull
    BY <2>5 DEF NoPull, Current
  <2>6. CASE /\ q = p /\ i + 1 = h /\ g.phase = "waiting"
             /\ g2.phase = "ready" /\ g2.at = g.at /\ g2.from = g.from
             /\ g2.since = g.since /\ g2.seen = g.seen
             /\ g2.fresh => ok /\ f.fresh
    <3>1. f.since = g.since /\ f.seen = g.seen /\ f.phase # "idle"
      BY <1>0, <2>6 DEF Paired
    <3>2. Routed(g, Site[q][i]) /\ Routed(f, Site[p][h])
      BY DEF FreshInv, CatalogueInv, FrameInv
    <3>3. g.from = f.at
      BY <2>6, <3>1, <3>2 DEF Routed, Routes
    <3>4. ASSUME NEW u \in Uuids, g2.fresh, g2.since < g2.seen[u]
          PROVE  g2.seen[u] <= row'[g2.from][u] \/ tomb'[Master][u] # 0
      <4>1. f.seen[u] <= row'[f.at][u] \/ tomb[Master][u] # 0
        BY <2>6, <3>1, <3>4, FreshArrives
      <4>2. tomb[Master][u] # 0 => tomb'[Master][u] # 0
        BY DEF Later
      <4>3. QED
        BY <2>6, <3>1, <3>3, <4>1, <4>2
    <3>5. \A u \in Uuids : g2.seen[u] <= row'[Master][u] \/ tomb'[Master][u] # 0
      BY <2>3, <2>6 DEF Current
    <3>6. QED
      BY <2>6, <3>4, <3>5 DEF Current
  <2>7. QED
    BY <2>1, <2>4, <2>5, <2>6 DEF Left
<1>2. CurrentInv'
  BY <1>1 DEF CurrentInv
<1>3. Paired'
  BY <1>0, OverPaired
<1>4. QED
  BY <1>2, <1>3

\* A frame that goes on without waiting, in a step that touches no database.
LEMMA GoesOnCurrent ==
    ASSUME TypeOK, CurrentInv, Paired, NEW p \in Pulls, NEW h \in Hops, NEW g,
           UNCHANGED <<row, tomb>>, job' = [job EXCEPT ![p][h] = g],
           g.phase \notin {"idle", "waiting"}, Current(g, row, tomb),
           \/ g.since = job[p][h].since /\ g.seen = job[p][h].seen
           \/ job[p][h].phase = "idle"
    PROVE  CurrentInv' /\ Paired'
<1>1. ASSUME NEW q \in Pulls, NEW i \in Hops PROVE Current(job'[q][i], row, tomb)
  <2>1. job \in [Pulls -> [Hops -> Frame]]
    BY DEF TypeOK
  <2>2. CASE q = p /\ i = h
    <3>1. job'[q][i] = g
      BY <2>1, <2>2
    <3>2. QED
      BY <3>1
  <2>3. CASE ~(q = p /\ i = h)
    <3>1. job'[q][i] = job[q][i]
      BY <2>1, <2>3
    <3>2. QED
      BY <3>1 DEF CurrentInv
  <2>4. QED
    BY <2>2, <2>3
<1>2. CurrentInv'
  BY <1>1 DEF CurrentInv
<1>3. Paired'
  BY GoesOnPaired
<1>4. QED
  BY <1>2, <1>3

LEMMA StartCurrent ==
    ASSUME TypeOK, CurrentInv, Paired, NEW p \in Pulls, NEW m \in Instances,
           NEW since \in Sinces, NEW cascade \in BOOLEAN, StartPull(p, m, since, cascade)
    PROVE  CurrentInv' /\ Paired'
<1> DEFINE d == IF cascade THEN Depth ELSE 0
           g == NewFrame(Home[p], m, since, d, row[Master])
<1>1. /\ UNCHANGED <<row, tomb>> /\ job' = [job EXCEPT ![p][0] = g]
      /\ job[p][0].phase = "idle"
  BY DEF StartPull
<1>2. g.phase = "start" /\ g.seen = row[Master] /\ g.fresh = FALSE
  BY DEF NewFrame, NoPull
<1> HIDE DEF d, g
<1>3. \A u \in Uuids : row[Master][u] \in Nat
  BY MainAssumption DEF TypeOK
<1>4. Current(g, row, tomb)
  BY <1>2, <1>3 DEF Current
<1>5. QED
  BY <1>1, <1>2, <1>4, HopsNat, GoesOnCurrent

LEMMA AskCurrent ==
    ASSUME TypeOK, CurrentInv, Paired, NEW p \in Pulls, NEW h \in Hops, Ask(p, h)
    PROVE  CurrentInv' /\ Paired'
<1> DEFINE f == job[p][h]
           g == NewFrame(f.from, Parent[f.from], f.since, Remaining(f.depth), f.seen)
           w == Awaiting(f)
<1>1. /\ job \in [Pulls -> [Hops -> Frame]] /\ f \in Frame /\ f.phase = "start"
      /\ job' = [job EXCEPT ![p][h] = w, ![p][h + 1] = g] /\ h + 1 \in Hops
      /\ UNCHANGED <<row, tomb>> /\ Current(f, row, tomb)
  BY DEF Ask, CanAsk, TypeOK, CurrentInv
<1>2. w.phase = "waiting" /\ w.fresh = f.fresh /\ w.seen = f.seen
  BY <1>1 DEF Awaiting, Frame
<1>3. g.phase = "start" /\ g.fresh = FALSE /\ g.seen = f.seen
  BY DEF NewFrame, NoPull
<1> HIDE DEF f, g, w
<1>4. Current(w, row, tomb) /\ Current(g, row, tomb)
  BY <1>1, <1>2, <1>3 DEF Current
<1>5. ASSUME NEW q \in Pulls, NEW i \in Hops PROVE Current(job'[q][i], row, tomb)
  <2>1. CASE q = p /\ i = h + 1
    <3>1. job'[q][i] = g
      BY <1>1, <2>1
    <3>2. QED
      BY <1>4, <3>1
  <2>2. CASE q = p /\ i = h /\ i # h + 1
    <3>1. job'[q][i] = w
      BY <1>1, <2>2
    <3>2. QED
      BY <1>4, <3>1
  <2>3. CASE q # p \/ (i # h /\ i # h + 1)
    <3>1. job'[q][i] = job[q][i]
      BY <1>1, <2>3
    <3>2. QED
      BY <3>1 DEF CurrentInv
  <2>4. QED
    BY <2>1, <2>2, <2>3
<1>6. CurrentInv'
  BY <1>1, <1>5 DEF CurrentInv
<1>7. QED
  BY <1>6, AskPaired

LEMMA FrameCurrent ==
    ASSUME NEW Site, Routes(Site), FreshInv(Site), TypeOK', Later(row, tomb, row', tomb'),
           NEW p \in Pulls, NEW h \in Hops, Refresh(p, h) \/ Read(p, h)
    PROVE  CurrentInv' /\ Paired'
<1> DEFINE f == job[p][h]
<1>0. /\ TypeOK /\ CurrentInv /\ Paired /\ f \in Frame /\ Current(f, row, tomb)
      /\ Routed(f, Site[p][h])
  BY DEF FreshInv, CatalogueInv, TypeOK, CurrentInv, FrameInv
<1>1. CASE Proceed(p, h)
  <2> DEFINE b == IsSource(f.from)
             g == [f EXCEPT !.phase = "ready", !.fresh = b]
  <2>1. /\ job' = [job EXCEPT ![p][h] = g] /\ f.phase = "start" /\ b \in BOOLEAN
        /\ UNCHANGED <<row, tomb>> /\ f.from \in Instances
    BY <1>0, <1>1 DEF Proceed, IsSource, TypeOK, Frame
  <2>2. b => f.from = Master
    BY <2>1 DEF Routes
  <2> HIDE DEF b
  <2>3. /\ g.phase = "ready" /\ g.from = f.from /\ g.since = f.since /\ g.seen = f.seen
        /\ (g.fresh => b)
    BY <1>0, <2>1, Answered
  <2> HIDE DEF f, g
  <2>4. Current(g, row, tomb)
    BY <1>0, <2>1, <2>2, <2>3 DEF Current
  <2>5. QED
    BY <1>0, <2>1, <2>3, <2>4, GoesOnCurrent DEF f
<1>2. CASE Ask(p, h)
  BY <1>0, <1>2, AskCurrent
<1>3. CASE GiveUp(p, h)
  <2> DEFINE g == [f EXCEPT !.phase = "ready"]
  <2>1. /\ job' = [job EXCEPT ![p][h] = g] /\ f.phase = "waiting"
        /\ UNCHANGED <<row, tomb>>
    BY <1>0, <1>3 DEF GiveUp, TypeOK
  <2>2. g.phase = "ready" /\ g.since = f.since /\ g.seen = f.seen /\ g.fresh = f.fresh
    BY <1>0 DEF Frame
  <2> HIDE DEF f, g
  <2>3. Current(g, row, tomb)
    BY <1>0, <2>1, <2>2 DEF Current
  <2>4. QED
    BY <1>0, <2>1, <2>2, <2>3, GoesOnCurrent DEF f
<1>4. CASE TimeOut(p, h) \/ Fail(p, h)
  <2>1. job' = [job EXCEPT ![p] = Over(p, h, FALSE)]
    BY <1>4 DEF TimeOut, Fail
  <2>2. QED
    BY <2>1, OverCurrent
<1>5. CASE Import(p, h)
  <2>1. job' = [job EXCEPT ![p] = Over(p, h, TRUE)]
    BY <1>5 DEF Import
  <2>2. QED
    BY <1>5, <2>1, OverCurrent
<1>6. CASE Export(p, h)
  <2> DEFINE e == Newer(row[f.from], f.since)
             g == [f EXCEPT !.phase = "exported", !.exported = e]
  <2>1. /\ job' = [job EXCEPT ![p][h] = g] /\ f.phase = "ready"
        /\ UNCHANGED <<row, tomb>> /\ f.from \in Instances
    BY <1>0, <1>6 DEF Export, TypeOK, Frame
  <2>2. \A u \in Uuids : e[u] = IF row[f.from][u] > f.since THEN row[f.from][u] ELSE 0
    BY DEF Newer
  <2>3. \A u \in Uuids : row[f.from][u] \in Nat /\ f.since \in Nat /\ f.seen[u] \in Nat
    BY <1>0, <2>1 DEF TypeOK, Frame
  <2> HIDE DEF e
  <2>4. /\ g.phase = "exported" /\ g.exported = e /\ g.from = f.from /\ g.since = f.since
        /\ g.seen = f.seen /\ g.fresh = f.fresh
    BY <1>0 DEF Frame
  <2> HIDE DEF f, g
  <2>5. ASSUME NEW u \in Uuids, g.fresh, g.since < g.seen[u]
        PROVE  /\ g.seen[u] <= row[g.from][u] \/ tomb[Master][u] # 0
               /\ g.seen[u] <= g.exported[u] \/ tomb[Master][u] # 0
    <3>1. f.seen[u] <= row[f.from][u] \/ tomb[Master][u] # 0
      BY <1>0, <2>1, <2>4, <2>5 DEF Current
    <3>2. f.seen[u] <= row[f.from][u] => e[u] = row[f.from][u]
      BY <2>2, <2>3, <2>4, <2>5
    <3>3. QED
      BY <2>4, <3>1, <3>2
  <2>6. Current(g, row, tomb)
    BY <1>0, <2>1, <2>4, <2>5 DEF Current
  <2>7. QED
    BY <1>0, <2>1, <2>4, <2>6, GoesOnCurrent DEF f
<1>7. CASE FetchDeleted(p, h)
  <2> DEFINE d == {u \in Uuids : tomb[f.from][u] > f.since}
             g == [f EXCEPT !.phase = "fetched", !.deleted = d]
  <2>1. /\ job' = [job EXCEPT ![p][h] = g] /\ f.phase = "exported"
        /\ UNCHANGED <<row, tomb>>
    BY <1>0, <1>7 DEF FetchDeleted, TypeOK
  <2> HIDE DEF d
  <2>2. /\ g.phase = "fetched" /\ g.exported = f.exported /\ g.from = f.from
        /\ g.since = f.since /\ g.seen = f.seen /\ g.fresh = f.fresh
    BY <1>0 DEF Frame
  <2> HIDE DEF f, g
  <2>3. Current(g, row, tomb)
    BY <1>0, <2>1, <2>2 DEF Current
  <2>4. QED
    BY <1>0, <2>1, <2>2, <2>3, GoesOnCurrent DEF f
<1>8. QED
  BY <1>1, <1>2, <1>3, <1>4, <1>5, <1>6, <1>7 DEF Refresh, Read

LEMMA InitFresh == ASSUME NEW Site, Init PROVE FreshInv(Site)
<1>1. CatalogueInv(Site)
  BY InitInv
<1>2. \A p \in Pulls, h \in Hops : job[p][h].phase = "idle"
  BY DEF Init, NoPull
<1>3. QED
  BY <1>1, <1>2 DEF FreshInv, CurrentInv, Current, Paired

LEMMA NextFresh ==
    ASSUME NEW Site, Routes(Site), FreshInv(Site), [Next]_vars
    PROVE  FreshInv(Site)'
<1>0. /\ CatalogueInv(Site) /\ CatalogueInv(Site)' /\ TypeOK /\ TypeOK'
      /\ CurrentInv /\ Paired /\ Later(row, tomb, row', tomb')
  BY NextInv, StepIsLater DEF FreshInv, CatalogueInv
<1>1. CASE job' = job
  <2>1. ASSUME NEW p \in Pulls, NEW h \in Hops PROVE Current(job[p][h], row', tomb')
    <3> DEFINE f == job[p][h]
    <3>1. f \in Frame /\ Current(f, row, tomb)
      BY <1>0 DEF TypeOK, CurrentInv
    <3>2. row \in [Instances -> [Uuids -> Nat]] /\ row' \in [Instances -> [Uuids -> Nat]]
      BY <1>0 DEF TypeOK
    <3> HIDE DEF f
    <3>3. Current(f, row', tomb')
      BY <1>0, <3>1, <3>2, StaysCurrent
    <3>4. QED
      BY <3>3 DEF f
  <2>2. QED
    BY <1>0, <1>1, <2>1 DEF FreshInv, CurrentInv, Paired
<1>2. ASSUME NEW u \in Uuids, Curate(u) PROVE job' = job
  BY <1>2 DEF Curate, Save, Delete
<1>3. ASSUME NEW n \in Instances, NEW u \in Uuids, Reference(n, u) PROVE job' = job
  BY <1>3 DEF Reference, Cite, Uncite
<1>4. CASE \E p \in Pulls, m \in Instances, since \in Sinces, cascade \in BOOLEAN :
              StartPull(p, m, since, cascade)
  BY <1>0, <1>4, StartCurrent DEF FreshInv
<1>5. CASE \E p \in Pulls, h \in Hops : Refresh(p, h) \/ Read(p, h)
  BY <1>0, <1>5, FrameCurrent DEF FreshInv
<1>6. CASE UNCHANGED vars
  BY <1>1, <1>6 DEF vars
<1>7. QED
  BY <1>1, <1>2, <1>3, <1>4, <1>5, <1>6 DEF Next

\* Where pulls run along the tree of parents and no two of them meet at an
\* instance, a pull whose every relay said that it refreshed brings at least
\* what the master had when the operator asked, however the pull is interleaved
\* with edits, failures and refreshes whose callers have given up.
THEOREM RefreshBringsCurrent ==
    ASSUME NEW CONSTANT Site, Routes(Site)
    PROVE  Spec => RefreshedPullIsCurrent
<1> DEFINE Brought ==
        \A p \in Pulls, u \in Uuids :
            LET f == job[p][0] IN
            (Import(p, 0) /\ f.fresh /\ f.seen[u] > f.since)
            => row'[f.at][u] >= f.seen[u] \/ tomb[Master][u] # 0
<1>1. FreshInv(Site) /\ [Next]_vars => Brought
  <2> SUFFICES ASSUME FreshInv(Site), NEW p \in Pulls, NEW u \in Uuids,
                      Import(p, 0), [Next]_vars, job[p][0].fresh,
                      job[p][0].seen[u] > job[p][0].since
               PROVE  row'[job[p][0].at][u] >= job[p][0].seen[u] \/ tomb[Master][u] # 0
    OBVIOUS
  <2>1. /\ job[p][0] \in Frame /\ job[p][0].since \in Nat /\ job[p][0].seen[u] \in Nat
        /\ job[p][0].at \in Instances /\ 0 \in Hops /\ TypeOK'
    BY HopsNat, NextTypeOK DEF FreshInv, CatalogueInv, TypeOK, Frame
  <2>2. row'[job[p][0].at][u] \in Nat
    BY <2>1 DEF TypeOK
  <2>3. job[p][0].seen[u] <= row'[job[p][0].at][u] \/ tomb[Master][u] # 0
    BY <2>1, FreshArrives
  <2>4. QED
    BY <2>1, <2>2, <2>3
<1>2. Init => FreshInv(Site)
  BY InitFresh
<1>3. FreshInv(Site) /\ [Next]_vars => FreshInv(Site)'
  BY NextFresh
<1>4. Spec => [][Brought]_vars
  <2> HIDE DEF Brought
  <2> QED
    BY <1>1, <1>2, <1>3, PTL DEF Spec
<1>5. QED
  BY <1>4 DEF RefreshedPullIsCurrent

----------------------------------------------------------------------------
(* Any registry, any number of pulls.                                      *)

\* What a frame carries, against tombstones t and saved states s: rows no newer
\* than the master's last save, deletions that the master has recorded.
Carried(f, t, s) == \A u \in Uuids :
    /\ f.phase \in {"exported", "fetched"} => f.exported[u] <= s[u]
    /\ f.phase = "fetched" /\ u \in f.deleted => t[Master][u] # 0

\* Inductive: no database and no frame is ahead of the master, or knows of a
\* deletion that the master does not know of.
FollowInv ==
    /\ \A u \in Uuids : saved[u] <= clock
    /\ \A n \in Instances, u \in Uuids :
         row[n][u] <= saved[u] /\ (tomb[n][u] # 0 => tomb[Master][u] # 0)
    /\ \A p \in Pulls, h \in Hops : Carried(job[p][h], tomb, saved)

\* What became of frame f in a step: it is as it was, or has nothing in hand, or
\* has just read the rows or the deletions of its peer.
Handed(g, f) ==
    \/ g = f
    \/ g.phase \notin {"exported", "fetched"}
    \/ /\ g.phase = "exported" /\ f.from \in Instances /\ f.since \in Nat
       /\ g.exported = Newer(row[f.from], f.since)
    \/ /\ g.phase = "fetched" /\ f.phase = "exported" /\ f.from \in Instances
       /\ f.since \in Nat
       /\ g.exported = f.exported /\ g.deleted = {u \in Uuids : tomb[f.from][u] > f.since}

\* One frame of pull p is replaced by g.
LEMMA FrameReplaced ==
    ASSUME TypeOK, NEW p \in Pulls, NEW h \in Hops, NEW g,
           job' = [job EXCEPT ![p][h] = g], Handed(g, job[p][h]),
           NEW q \in Pulls, NEW i \in Hops
    PROVE  Handed(job'[q][i], job[q][i])
<1>1. job \in [Pulls -> [Hops -> Frame]]
  BY DEF TypeOK
<1>2. CASE q = p /\ i = h
  <2>1. job'[q][i] = g
    BY <1>1, <1>2
  <2>2. QED
    BY <1>2, <2>1
<1>3. CASE ~(q = p /\ i = h)
  <2>1. job'[q][i] = job[q][i]
    BY <1>1, <1>3
  <2>2. QED
    BY <2>1 DEF Handed
<1>4. QED
  BY <1>2, <1>3

LEMMA FramesHanded ==
    ASSUME TypeOK, NEW p \in Pulls, NEW h \in Hops, Refresh(p, h) \/ Read(p, h),
           NEW q \in Pulls, NEW i \in Hops
    PROVE  Handed(job'[q][i], job[q][i])
<1> DEFINE f == job[p][h]
<1>0. f \in Frame /\ job \in [Pulls -> [Hops -> Frame]] /\ f.from \in Instances /\ f.since \in Nat
  BY DEF TypeOK, Frame
<1>1. CASE Proceed(p, h)
  <2> DEFINE b == IsSource(f.from)
             g == [f EXCEPT !.phase = "ready", !.fresh = b]
  <2>1. job' = [job EXCEPT ![p][h] = g] /\ b \in BOOLEAN
    BY <1>0, <1>1 DEF Proceed, IsSource
  <2> HIDE DEF b
  <2>2. g.phase = "ready"
    BY <1>0 DEF Frame
  <2> HIDE DEF f, g
  <2>3. Handed(g, f)
    BY <2>2 DEF Handed
  <2>4. QED
    BY <2>1, <2>3, FrameReplaced DEF f
<1>2. CASE Ask(p, h)
  <2> DEFINE g == NewFrame(f.from, Parent[f.from], f.since, Remaining(f.depth), f.seen)
             w == Awaiting(f)
  <2>1. job' = [job EXCEPT ![p][h] = w, ![p][h + 1] = g] /\ h + 1 \in Hops
    BY <1>2 DEF Ask, CanAsk
  <2>2. w.phase = "waiting" /\ g.phase = "start"
    BY <1>0 DEF Awaiting, Frame, NewFrame, NoPull
  <2> HIDE DEF f, g, w
  <2>3. job'[q][i] = IF q = p /\ i = h + 1 THEN g ELSE IF q = p /\ i = h THEN w ELSE job[q][i]
    BY <1>0, <2>1
  <2>4. QED
    BY <2>2, <2>3 DEF Handed
<1>3. CASE GiveUp(p, h)
  <2> DEFINE g == [f EXCEPT !.phase = "ready"]
  <2>1. job' = [job EXCEPT ![p][h] = g]
    BY <1>0, <1>3 DEF GiveUp
  <2>2. g.phase = "ready"
    BY <1>0 DEF Frame
  <2> HIDE DEF f, g
  <2>3. Handed(g, f)
    BY <2>2 DEF Handed
  <2>4. QED
    BY <2>1, <2>3, FrameReplaced DEF f
<1>4. CASE TimeOut(p, h) \/ Fail(p, h) \/ Import(p, h)
  <2>1. PICK ok \in BOOLEAN : job' = [job EXCEPT ![p] = Over(p, h, ok)]
    BY <1>4 DEF TimeOut, Fail, Import
  <2>2. Left(q, i, p, h, ok)
    BY <2>1, OverFrames
  <2>3. NoPull.phase = "idle"
    BY DEF NoPull
  <2>4. QED
    BY <2>2, <2>3 DEF Left, Handed
<1>5. CASE Export(p, h)
  <2> DEFINE e == Newer(row[f.from], f.since)
             g == [f EXCEPT !.phase = "exported", !.exported = e]
  <2>1. job' = [job EXCEPT ![p][h] = g]
    BY <1>0, <1>5 DEF Export
  <2> HIDE DEF e
  <2>2. g.phase = "exported" /\ g.exported = e
    BY <1>0 DEF Frame
  <2> HIDE DEF f, g
  <2>3. Handed(g, f)
    BY <1>0, <2>2 DEF Handed, e
  <2>4. QED
    BY <2>1, <2>3, FrameReplaced DEF f
<1>6. CASE FetchDeleted(p, h)
  <2> DEFINE d == {u \in Uuids : tomb[f.from][u] > f.since}
             g == [f EXCEPT !.phase = "fetched", !.deleted = d]
  <2>1. job' = [job EXCEPT ![p][h] = g] /\ f.phase = "exported"
    BY <1>0, <1>6 DEF FetchDeleted
  <2> HIDE DEF d
  <2>2. g.phase = "fetched" /\ g.deleted = d /\ g.exported = f.exported
    BY <1>0 DEF Frame
  <2> HIDE DEF f, g
  <2>3. Handed(g, f)
    BY <1>0, <2>1, <2>2 DEF Handed, d
  <2>4. QED
    BY <2>1, <2>3, FrameReplaced DEF f
<1>7. QED
  BY <1>1, <1>2, <1>3, <1>4, <1>5, <1>6 DEF Refresh, Read

LEMMA CarriedOn ==
    ASSUME NEW f \in Frame, NEW t, NEW t2,
           NEW s \in [Uuids -> Nat], NEW s2 \in [Uuids -> Nat],
           Carried(f, t, s), \A u \in Uuids : s[u] <= s2[u],
           \A u \in Uuids : t[Master][u] # 0 => t2[Master][u] # 0
    PROVE  Carried(f, t2, s2)
<1>1. ASSUME NEW u \in Uuids, f.phase \in {"exported", "fetched"}
      PROVE  f.exported[u] <= s2[u]
  <2>1. f.exported[u] <= s[u] /\ s[u] <= s2[u]
    BY <1>1 DEF Carried
  <2>2. f.exported[u] \in Nat /\ s[u] \in Nat /\ s2[u] \in Nat
    BY DEF Frame
  <2>3. QED
    BY <2>1, <2>2
<1>2. QED
  BY <1>1 DEF Carried

\* What has just been read follows the master too.
LEMMA HandedCarries ==
    ASSUME TypeOK, FollowInv, NEW f \in Frame, NEW g, Carried(f, tomb, saved), Handed(g, f)
    PROVE  Carried(g, tomb, saved)
<1>0. row \in [Instances -> [Uuids -> Nat]] /\ tomb \in [Instances -> [Uuids -> Nat]]
      /\ saved \in [Uuids -> Nat]
  BY DEF TypeOK
<1>1. CASE g = f \/ g.phase \notin {"exported", "fetched"}
  BY <1>1 DEF Carried
<1>2. CASE /\ g.phase = "exported" /\ f.from \in Instances /\ f.since \in Nat
           /\ g.exported = Newer(row[f.from], f.since)
  <2>1. \A u \in Uuids : g.exported[u] = row[f.from][u] \/ g.exported[u] = 0
    BY <1>2 DEF Newer
  <2>2. \A u \in Uuids : g.exported[u] <= saved[u]
    BY <1>0, <1>2, <2>1 DEF FollowInv
  <2>3. QED
    BY <1>2, <2>2 DEF Carried
<1>3. CASE /\ g.phase = "fetched" /\ f.phase = "exported" /\ f.from \in Instances
           /\ f.since \in Nat
           /\ g.exported = f.exported
           /\ g.deleted = {u \in Uuids : tomb[f.from][u] > f.since}
  <2>1. \A u \in Uuids : g.exported[u] <= saved[u]
    BY <1>3 DEF Carried
  <2>2. ASSUME NEW u \in Uuids, u \in g.deleted PROVE tomb[Master][u] # 0
    <3>1. tomb[f.from][u] \in Nat /\ tomb[f.from][u] > f.since
      BY <1>0, <1>3, <2>2
    <3>2. QED
      BY <1>3, <3>1 DEF FollowInv
  <2>3. QED
    BY <2>1, <2>2 DEF Carried
<1>4. QED
  BY <1>1, <1>2, <1>3 DEF Handed

\* What a step does to the databases: the master's records of saves and
\* deletions only grow, and every copy still follows them.
Followed ==
    /\ \A u \in Uuids : saved[u] <= saved'[u] /\ saved'[u] <= clock'
    /\ \A u \in Uuids : tomb[Master][u] # 0 => tomb'[Master][u] # 0
    /\ \A n \in Instances, u \in Uuids :
         /\ row'[n][u] <= saved'[u]
         /\ tomb'[n][u] # 0 => tomb'[Master][u] # 0
         /\ row'[n][u] # row[n][u] /\ row'[n][u] = 0 => tomb'[Master][u] # 0

LEMMA FollowTypes ==
    ASSUME TypeOK, FollowInv
    PROVE  /\ clock \in Nat /\ Master \in Instances
           /\ row \in [Instances -> [Uuids -> Nat]] /\ tomb \in [Instances -> [Uuids -> Nat]]
           /\ saved \in [Uuids -> Nat]
           /\ \A u \in Uuids : saved[u] <= clock
           /\ \A n \in Instances, u \in Uuids : row[n][u] <= saved[u]
           /\ \A n \in Instances, u \in Uuids : tomb[n][u] # 0 => tomb[Master][u] # 0
BY MainAssumption DEF TypeOK, FollowInv

LEMMA SaveFollows == ASSUME TypeOK, FollowInv, NEW u \in Uuids, Save(u) PROVE Followed
<1>1. /\ clock' = clock + 1 /\ tomb' = tomb
      /\ \A v \in Uuids : saved'[v] = IF v = u THEN clock + 1 ELSE saved[v]
      /\ \A n \in Instances, v \in Uuids :
            row'[n][v] = IF n = Master /\ v = u THEN clock + 1 ELSE row[n][v]
  BY FollowTypes DEF Save
<1>2. \A v \in Uuids : saved[v] \in Nat /\ saved[v] <= saved'[v] /\ saved'[v] <= clock'
  BY <1>1, FollowTypes
<1>3. ASSUME NEW n \in Instances, NEW v \in Uuids
      PROVE  row'[n][v] <= saved'[v] /\ (row'[n][v] # row[n][v] => row'[n][v] # 0)
  <2>1. row[n][v] \in Nat /\ row[n][v] <= saved[v] /\ clock \in Nat
    BY FollowTypes
  <2>2. CASE v = u
    BY <1>1, <1>2, <2>1, <2>2, FollowTypes
  <2>3. CASE v # u
    BY <1>1, <2>1, <2>3
  <2>4. QED
    BY <2>2, <2>3
<1>4. QED
  BY <1>1, <1>2, <1>3, FollowTypes DEF Followed

LEMMA DeleteFollows == ASSUME TypeOK, FollowInv, NEW u \in Uuids, Delete(u) PROVE Followed
<1> DEFINE graves == Buried(tomb[Master], {u})
<1>1. /\ clock' = clock + 1 /\ saved' = saved
      /\ tomb' = [tomb EXCEPT ![Master] = graves]
      /\ \A n \in Instances, v \in Uuids :
            row'[n][v] = IF n = Master /\ v = u THEN 0 ELSE row[n][v]
  BY FollowTypes DEF Delete
<1>2. /\ \A v \in Uuids : tomb[Master][v] # 0 => graves[v] # 0
      /\ graves[u] # 0
  BY FollowTypes DEF Buried
<1> HIDE DEF graves
<1>3. \A n \in Instances : tomb'[n] = IF n = Master THEN graves ELSE tomb[n]
  BY <1>1, FollowTypes
<1>4. \A v \in Uuids : tomb[Master][v] # 0 => tomb'[Master][v] # 0
  BY <1>2, <1>3, FollowTypes
<1>5. ASSUME NEW n \in Instances, NEW v \in Uuids
      PROVE  /\ row'[n][v] <= saved'[v]
             /\ tomb'[n][v] # 0 => tomb'[Master][v] # 0
             /\ row'[n][v] # row[n][v] => tomb'[Master][v] # 0
  <2>1. row'[n][v] <= saved'[v]
    BY <1>1, FollowTypes
  <2>2. tomb'[n][v] # 0 => tomb'[Master][v] # 0
    BY <1>3, <1>4, FollowTypes
  <2>3. row'[n][v] # row[n][v] => tomb'[Master][v] # 0
    BY <1>1, <1>2, <1>3, FollowTypes
  <2>4. QED
    BY <2>1, <2>2, <2>3
<1>6. QED
  BY <1>1, <1>4, <1>5, FollowTypes DEF Followed

LEMMA ImportFollows ==
    ASSUME TypeOK, FollowInv, NEW p \in Pulls, NEW h \in Hops, Import(p, h)
    PROVE  Followed
<1> DEFINE f == job[p][h]
           graves == Buried(tomb[f.at], Removed(f))
           rows == Merged(f)
<1>1. /\ f \in Frame /\ f.at \in Instances /\ f.phase = "fetched"
      /\ Carried(f, tomb, saved) /\ f.exported \in [Uuids -> Nat]
  BY DEF Import, TypeOK, Frame, FollowInv
<1>2. /\ row' = [row EXCEPT ![f.at] = rows] /\ tomb' = [tomb EXCEPT ![f.at] = graves]
      /\ saved' = saved /\ clock' \in Nat /\ clock <= clock'
  BY FollowTypes DEF Import
<1>3. ASSUME NEW u \in Uuids
      PROVE  /\ u \in Removed(f) => tomb[Master][u] # 0
             /\ rows[u] <= saved[u]
             /\ rows[u] = 0 /\ row[f.at][u] # 0 => tomb[Master][u] # 0
             /\ tomb[f.at][u] # 0 => graves[u] # 0
             /\ graves[u] # 0 => tomb[Master][u] # 0
  <2>1. u \in Removed(f) => tomb[Master][u] # 0
    BY <1>1 DEF Removed, Carried
  <2>2. /\ Landed(f)[u] = IF f.exported[u] # 0 THEN f.exported[u] ELSE row[f.at][u]
        /\ rows[u] = IF u \in Removed(f) THEN 0 ELSE Landed(f)[u]
    BY DEF Landed, Merged
  <2>3. f.exported[u] <= saved[u] /\ row[f.at][u] <= saved[u] /\ saved[u] \in Nat
    BY <1>1, FollowTypes DEF Carried
  <2>4. graves[u] = IF u \in Removed(f) /\ tomb[f.at][u] = 0 THEN clock + 1 ELSE tomb[f.at][u]
    BY DEF Buried
  <2>5. tomb[f.at][u] # 0 => tomb[Master][u] # 0
    BY <1>1, FollowTypes
  <2> HIDE DEF f, graves, rows
  <2>6. rows[u] <= saved[u] /\ (rows[u] = 0 /\ row[f.at][u] # 0 => tomb[Master][u] # 0)
    BY <2>1, <2>2, <2>3
  <2>7. /\ tomb[f.at][u] # 0 => graves[u] # 0
        /\ graves[u] # 0 => tomb[Master][u] # 0
    BY <2>1, <2>4, <2>5
  <2>8. QED
    BY <2>1, <2>6, <2>7
<1> HIDE DEF f, graves, rows
<1>4. \A n \in Instances : /\ row'[n] = IF n = f.at THEN rows ELSE row[n]
                           /\ tomb'[n] = IF n = f.at THEN graves ELSE tomb[n]
  BY <1>1, <1>2, FollowTypes
<1>5. \A u \in Uuids : tomb[Master][u] # 0 => tomb'[Master][u] # 0
  BY <1>3, <1>4, FollowTypes
<1>6. ASSUME NEW n \in Instances, NEW u \in Uuids
      PROVE  /\ row'[n][u] <= saved'[u]
             /\ tomb'[n][u] # 0 => tomb'[Master][u] # 0
             /\ row'[n][u] # row[n][u] /\ row'[n][u] = 0 => tomb'[Master][u] # 0
  <2>1. CASE n = f.at
    BY <1>2, <1>3, <1>4, <1>5, <2>1, FollowTypes
  <2>2. CASE n # f.at
    BY <1>2, <1>4, <1>5, <2>2, FollowTypes
  <2>3. QED
    BY <2>1, <2>2
<1>7. \A u \in Uuids : saved[u] <= saved'[u] /\ saved'[u] <= clock'
  BY <1>2, FollowTypes
<1>8. QED
  BY <1>5, <1>6, <1>7 DEF Followed

LEMMA SameDataFollows ==
    ASSUME TypeOK, FollowInv, UNCHANGED <<clock, row, tomb, saved>> PROVE Followed
<1>1. \A u \in Uuids : saved[u] \in Nat
  BY FollowTypes
<1>2. QED
  BY <1>1, FollowTypes DEF Followed

LEMMA StepFollows == ASSUME TypeOK, FollowInv, [Next]_vars PROVE Followed
<1>1. ASSUME NEW u \in Uuids, Curate(u) PROVE Followed
  BY <1>1, SaveFollows, DeleteFollows DEF Curate
<1>2. ASSUME NEW n \in Instances, NEW u \in Uuids, Reference(n, u) PROVE Followed
  BY <1>2, SameDataFollows DEF Reference, Cite, Uncite
<1>3. CASE \E p \in Pulls, m \in Instances, since \in Sinces, cascade \in BOOLEAN :
              StartPull(p, m, since, cascade)
  BY <1>3, SameDataFollows DEF StartPull
<1>4. ASSUME NEW p \in Pulls, NEW h \in Hops, Refresh(p, h) PROVE Followed
  BY <1>4, SameDataFollows DEF Refresh, Proceed, Ask, GiveUp, TimeOut
<1>5. ASSUME NEW p \in Pulls, NEW h \in Hops, Read(p, h) PROVE Followed
  <2>1. CASE Import(p, h)
    BY <2>1, ImportFollows
  <2>2. CASE Export(p, h) \/ FetchDeleted(p, h) \/ Fail(p, h)
    BY <2>2, SameDataFollows DEF Export, FetchDeleted, Fail
  <2>3. QED
    BY <1>5, <2>1, <2>2 DEF Read
<1>6. CASE UNCHANGED vars
  BY <1>6, SameDataFollows DEF vars
<1>7. QED
  BY <1>1, <1>2, <1>3, <1>4, <1>5, <1>6 DEF Next

\* Frames in any step: as they were, without anything in hand, or having read.
LEMMA StepHands ==
    ASSUME TypeOK, [Next]_vars, NEW q \in Pulls, NEW i \in Hops
    PROVE  Handed(job'[q][i], job[q][i])
<1>1. CASE job' = job
  BY <1>1 DEF Handed
<1>2. ASSUME NEW u \in Uuids, Curate(u) PROVE job' = job
  BY <1>2 DEF Curate, Save, Delete
<1>3. ASSUME NEW n \in Instances, NEW u \in Uuids, Reference(n, u) PROVE job' = job
  BY <1>3 DEF Reference, Cite, Uncite
<1>4. ASSUME NEW p \in Pulls, NEW m \in Instances, NEW since \in Sinces,
             NEW cascade \in BOOLEAN, StartPull(p, m, since, cascade)
      PROVE  Handed(job'[q][i], job[q][i])
  <2> DEFINE g == NewFrame(Home[p], m, since, IF cascade THEN Depth ELSE 0, row[Master])
  <2>1. job' = [job EXCEPT ![p][0] = g]
    BY <1>4 DEF StartPull
  <2>2. g.phase = "start"
    BY DEF NewFrame, NoPull
  <2> HIDE DEF g
  <2>3. Handed(g, job[p][0])
    BY <2>2 DEF Handed
  <2>4. QED
    BY <2>1, <2>3, HopsNat, FrameReplaced
<1>5. CASE \E p \in Pulls, h \in Hops : Refresh(p, h) \/ Read(p, h)
  BY <1>5, FramesHanded
<1>6. CASE UNCHANGED vars
  BY <1>1, <1>6 DEF vars
<1>7. QED
  BY <1>1, <1>2, <1>3, <1>4, <1>5, <1>6 DEF Next

LEMMA NextFollow ==
    ASSUME TypeOK, FollowInv, [Next]_vars PROVE FollowInv'
<1>1. Followed /\ TypeOK'
  BY StepFollows, NextTypeOK
<1>2. ASSUME NEW p \in Pulls, NEW h \in Hops PROVE Carried(job'[p][h], tomb', saved')
  <2> DEFINE f == job[p][h]
             g == job'[p][h]
  <2>1. /\ f \in Frame /\ g \in Frame /\ Carried(f, tomb, saved) /\ Handed(g, f)
        /\ saved \in [Uuids -> Nat] /\ saved' \in [Uuids -> Nat]
    BY <1>1, StepHands DEF TypeOK, FollowInv
  <2> HIDE DEF f, g
  <2>2. Carried(g, tomb, saved)
    BY <2>1, HandedCarries
  <2>3. Carried(g, tomb', saved')
    BY <1>1, <2>1, <2>2, CarriedOn DEF Followed
  <2>4. QED
    BY <2>3 DEF g
<1>3. QED
  BY <1>1, <1>2 DEF FollowInv, Followed

LEMMA InitFollow == Init => FollowInv
<1> SUFFICES ASSUME Init PROVE FollowInv
  OBVIOUS
<1>1. \A u \in Uuids : saved[u] = 0 /\ clock = 0
  BY DEF Init, None
<1>2. \A n \in Instances, u \in Uuids : row[n][u] = 0 /\ tomb[n][u] = 0
  BY DEF Init, None
<1>3. \A p \in Pulls, h \in Hops : job[p][h].phase = "idle"
  BY DEF Init, NoPull
<1>4. QED
  BY <1>1, <1>2, <1>3 DEF FollowInv, Carried

\* Whatever the registry, and however pulls overlap, fail and are repeated, no
\* copy loses a row that the master has not deleted, and none gets a state that
\* is newer than the master's last save.
THEOREM CopiesFollowMaster == Spec => CopiesFollow
<1> DEFINE Step == \A n \in Instances, u \in Uuids : row'[n][u] # row[n][u] =>
                      IF row'[n][u] = 0 THEN tomb'[Master][u] # 0 ELSE row'[n][u] <= saved'[u]
<1>1. (TypeOK /\ FollowInv) /\ [Next]_vars => Step
  BY StepFollows DEF Followed
<1>2. Init => TypeOK /\ FollowInv
  BY InitTypeOK, InitFollow
<1>3. (TypeOK /\ FollowInv) /\ [Next]_vars => (TypeOK /\ FollowInv)'
  BY NextTypeOK, NextFollow
<1>4. Spec => [][Step]_vars
  <2> HIDE DEF Step
  <2> QED
    BY <1>1, <1>2, <1>3, PTL DEF Spec
<1>5. QED
  BY <1>4 DEF CopiesFollow

----------------------------------------------------------------------------
(* The safety half of PullsEnd.                                            *)

\* How far a frame is from its end.
Rank(f) == CASE f.phase = "start" -> 5 [] f.phase = "waiting" -> 4 [] f.phase = "ready" -> 3
             [] f.phase = "exported" -> 2 [] f.phase = "fetched" -> 1 [] OTHER -> 0

\* No step takes a frame that runs further from its end, and each of its own
\* steps takes it nearer: there is no retry and no way round.
Descending ==
    \A p \in Pulls, h \in Hops : job[p][h].phase # "idle" =>
        /\ Rank(job'[p][h]) <= Rank(job[p][h])
        /\ Refresh(p, h) \/ Read(p, h) => Rank(job'[p][h]) < Rank(job[p][h])

FramesDescend == [][Descending]_vars

LEMMA RankNat == ASSUME NEW f \in Frame PROVE Rank(f) \in 0 .. 5
BY DEF Rank, Frame

\* Only one frame, of rank r, changes.
LEMMA OneDescends ==
    ASSUME TypeOK, NEW p \in Pulls, NEW h \in Hops, NEW g \in Frame,
           job' = [job EXCEPT ![p][h] = g], Rank(g) < Rank(job[p][h]),
           NEW q \in Pulls, NEW i \in Hops
    PROVE  /\ Rank(job'[q][i]) <= Rank(job[q][i])
           /\ q = p /\ i = h => Rank(job'[q][i]) < Rank(job[q][i])
<1>1. job \in [Pulls -> [Hops -> Frame]]
  BY DEF TypeOK
<1>2. CASE q = p /\ i = h
  <2>1. job'[q][i] = g
    BY <1>1, <1>2
  <2>2. Rank(g) \in 0 .. 5 /\ Rank(job[p][h]) \in 0 .. 5
    BY <1>1, RankNat
  <2>3. QED
    BY <1>2, <2>1, <2>2
<1>3. CASE ~(q = p /\ i = h)
  <2>1. job'[q][i] = job[q][i]
    BY <1>1, <1>3
  <2>2. Rank(job[q][i]) \in 0 .. 5
    BY <1>1, RankNat
  <2>3. QED
    BY <1>3, <2>1, <2>2
<1>4. QED
  BY <1>2, <1>3

LEMMA FrameDescends ==
    ASSUME TypeOK, NEW p \in Pulls, NEW h \in Hops, Refresh(p, h) \/ Read(p, h),
           NEW q \in Pulls, NEW i \in Hops, job[q][i].phase # "idle"
    PROVE  /\ Rank(job'[q][i]) <= Rank(job[q][i])
           /\ q = p /\ i = h => Rank(job'[q][i]) < Rank(job[q][i])
<1> DEFINE f == job[p][h]
<1>0. /\ f \in Frame /\ job \in [Pulls -> [Hops -> Frame]] /\ f.from \in Instances
      /\ f.since \in Nat
  BY DEF TypeOK, Frame
<1>1. CASE Proceed(p, h)
  <2> DEFINE b == IsSource(f.from)
             g == [f EXCEPT !.phase = "ready", !.fresh = b]
  <2>1. job' = [job EXCEPT ![p][h] = g] /\ b \in BOOLEAN /\ f.phase = "start"
    BY <1>0, <1>1 DEF Proceed, IsSource
  <2> HIDE DEF b
  <2>2. g \in Frame /\ g.phase = "ready"
    BY <1>0, <2>1 DEF Frame
  <2> HIDE DEF f, g
  <2>3. Rank(g) < Rank(f)
    BY <2>1, <2>2 DEF Rank
  <2>4. QED
    BY <2>1, <2>2, <2>3, OneDescends DEF f
<1>2. CASE Ask(p, h)
  <2> DEFINE g == NewFrame(f.from, Parent[f.from], f.since, Remaining(f.depth), f.seen)
             w == Awaiting(f)
  <2>1. /\ job' = [job EXCEPT ![p][h] = w, ![p][h + 1] = g] /\ h + 1 \in Hops
        /\ f.phase = "start" /\ job[p][h + 1].phase = "idle"
    BY <1>2 DEF Ask, CanAsk
  <2>2. w.phase = "waiting"
    BY <1>0 DEF Awaiting, Frame
  <2> HIDE DEF g, w
  <2>3. job'[q][i] = IF q = p /\ i = h THEN w ELSE job[q][i]
    BY <1>0, <2>1, HopsNat
  <2>4. Rank(w) < Rank(f)
    BY <2>1, <2>2 DEF Rank
  <2>5. Rank(w) \in Nat /\ Rank(job[q][i]) \in 0 .. 5
    BY <1>0, <2>2, RankNat DEF Rank
  <2>6. QED
    BY <2>3, <2>4, <2>5
<1>3. CASE GiveUp(p, h)
  <2> DEFINE g == [f EXCEPT !.phase = "ready"]
  <2>1. job' = [job EXCEPT ![p][h] = g] /\ f.phase = "waiting"
    BY <1>0, <1>3 DEF GiveUp
  <2>2. g \in Frame /\ g.phase = "ready"
    BY <1>0 DEF Frame
  <2> HIDE DEF f, g
  <2>3. Rank(g) < Rank(f)
    BY <2>1, <2>2 DEF Rank
  <2>4. QED
    BY <2>1, <2>2, <2>3, OneDescends DEF f
<1>4. CASE TimeOut(p, h) \/ Fail(p, h) \/ Import(p, h)
  <2>1. PICK ok \in BOOLEAN : job' = [job EXCEPT ![p] = Over(p, h, ok)]
    BY <1>4 DEF TimeOut, Fail, Import
  <2>2. Left(q, i, p, h, ok)
    BY <2>1, OverFrames
  <2>3. f.phase \in {"waiting", "ready", "exported", "fetched"}
    BY <1>4 DEF TimeOut, Fail, Import
  <2>4. Rank(NoPull) = 0
    BY DEF Rank, NoPull
  <2>5. Rank(job[q][i]) \in 0 .. 5 /\ (q = p /\ i = h => Rank(job[q][i]) > 0)
    BY <1>0, <2>3, RankNat DEF Rank
  <2>6. CASE job'[q][i] = job[q][i] /\ ~(q = p /\ i = h)
    BY <2>5, <2>6
  <2>7. CASE q = p /\ i = h /\ job'[q][i] = NoPull
    BY <2>4, <2>5, <2>7
  <2>8. CASE q = p /\ i + 1 = h /\ job[q][i].phase = "waiting" /\ job'[q][i].phase = "ready"
    <3>1. Rank(job'[q][i]) = 3 /\ Rank(job[q][i]) = 4
      BY <2>8 DEF Rank
    <3>2. i # h
      BY <2>8, HopsNat
    <3>3. QED
      BY <3>1, <3>2
  <2>9. QED
    BY <2>2, <2>6, <2>7, <2>8 DEF Left
<1>5. CASE Export(p, h)
  <2> DEFINE e == Newer(row[f.from], f.since)
             g == [f EXCEPT !.phase = "exported", !.exported = e]
  <2>1. job' = [job EXCEPT ![p][h] = g] /\ f.phase = "ready" /\ e \in [Uuids -> Nat]
    BY <1>0, <1>5 DEF Export, Newer, TypeOK
  <2> HIDE DEF e
  <2>2. g \in Frame /\ g.phase = "exported"
    BY <1>0, <2>1 DEF Frame
  <2> HIDE DEF f, g
  <2>3. Rank(g) < Rank(f)
    BY <2>1, <2>2 DEF Rank
  <2>4. QED
    BY <2>1, <2>2, <2>3, OneDescends DEF f
<1>6. CASE FetchDeleted(p, h)
  <2> DEFINE d == {u \in Uuids : tomb[f.from][u] > f.since}
             g == [f EXCEPT !.phase = "fetched", !.deleted = d]
  <2>1. job' = [job EXCEPT ![p][h] = g] /\ f.phase = "exported" /\ d \in SUBSET Uuids
    BY <1>0, <1>6 DEF FetchDeleted
  <2> HIDE DEF d
  <2>2. g \in Frame /\ g.phase = "fetched"
    BY <1>0, <2>1 DEF Frame
  <2> HIDE DEF f, g
  <2>3. Rank(g) < Rank(f)
    BY <2>1, <2>2 DEF Rank
  <2>4. QED
    BY <2>1, <2>2, <2>3, OneDescends DEF f
<1>7. QED
  BY <1>1, <1>2, <1>3, <1>4, <1>5, <1>6 DEF Refresh, Read

LEMMA StartDescends ==
    ASSUME TypeOK, NEW p \in Pulls, NEW m \in Instances, NEW since \in Sinces,
           NEW cascade \in BOOLEAN, StartPull(p, m, since, cascade),
           NEW q \in Pulls, NEW i \in Hops, job[q][i].phase # "idle"
    PROVE  job'[q][i] = job[q][i]
<1>1. job \in [Pulls -> [Hops -> Frame]]
  BY DEF TypeOK
<1> DEFINE g == NewFrame(Home[p], m, since, IF cascade THEN Depth ELSE 0, row[Master])
<1>2. job' = [job EXCEPT ![p][0] = g] /\ job[p][0].phase = "idle"
  BY DEF StartPull
<1> HIDE DEF g
<1>3. QED
  BY <1>1, <1>2, HopsNat

\* In any registry, every step of a frame takes it nearer to its end and none of
\* another frame takes it further away: a pull ends if its steps are taken at all.
THEOREM PullsDescend == Spec => FramesDescend
<1>1. TypeOK /\ [Next]_vars => Descending
  <2> SUFFICES ASSUME TypeOK, [Next]_vars, NEW q \in Pulls, NEW i \in Hops,
                      job[q][i].phase # "idle"
               PROVE  /\ Rank(job'[q][i]) <= Rank(job[q][i])
                      /\ Refresh(q, i) \/ Read(q, i) => Rank(job'[q][i]) < Rank(job[q][i])
    BY DEF Descending
  <2>1. Refresh(q, i) \/ Read(q, i) => Rank(job'[q][i]) < Rank(job[q][i])
    BY FrameDescends
  <2>2. Rank(job[q][i]) \in 0 .. 5
    BY RankNat DEF TypeOK
  <2>3. CASE job'[q][i] = job[q][i]
    BY <2>1, <2>2, <2>3
  <2>4. CASE \E p \in Pulls, h \in Hops : Refresh(p, h) \/ Read(p, h)
    BY <2>1, <2>4, FrameDescends
  <2>5. ASSUME NEW u \in Uuids, Curate(u) PROVE job' = job
    BY <2>5 DEF Curate, Save, Delete
  <2>6. ASSUME NEW n \in Instances, NEW u \in Uuids, Reference(n, u) PROVE job' = job
    BY <2>6 DEF Reference, Cite, Uncite
  <2>7. CASE \E p \in Pulls, m \in Instances, since \in Sinces, cascade \in BOOLEAN :
                StartPull(p, m, since, cascade)
    BY <2>3, <2>7, StartDescends
  <2>8. CASE UNCHANGED vars
    BY <2>3, <2>8 DEF vars
  <2>9. QED
    BY <2>3, <2>4, <2>5, <2>6, <2>7, <2>8 DEF Next
<1>2. QED
  BY <1>1, InitTypeOK, NextTypeOK, PTL DEF Spec, FramesDescend
=============================================================================
