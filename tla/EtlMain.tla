------------------------------ MODULE EtlMain ------------------------------
(***************************************************************************)
(* Replication of the `main` tables (the controlled vocabularies) down a   *)
(* chain of relays.                                                        *)
(*                                                                         *)
(* Only the canonical master saves and deletes rows.  Everybody else pulls *)
(* them from its upstream, which may itself be a relay; a pull can first   *)
(* ask the peer to refresh from its own upstream, and that refresh is a    *)
(* pull that asks in turn, a bounded number of hops up.  A pull is a stack *)
(* of frames: hop 0 is the one an operator started, hop h + 1 is the one   *)
(* that serves the refresh request of hop h.  The frames of a pull run on  *)
(* different instances, and one goes on when its caller has given up.      *)
(*                                                                         *)
(* A row is abstracted to its entry_date, which the import copies: two     *)
(* saved states of a row never share one.  `main` has no versions and no   *)
(* conflicts.                                                              *)
(***************************************************************************)
EXTENDS Naturals

CONSTANTS
    Instances,  \* the deployed sites
    Master,     \* the one that curates `main`
    Parent,     \* Parent[n]: the peer n refreshes from, n itself if it has none
    Upstreams,  \* Upstreams[n]: the peers n accepts `main` from
    Uuids,      \* rows of the `main` tables
    Pulls,      \* pulls that may be under way at the same time
    Home,       \* Home[p]: the instance whose operator starts pull p
    Citers,     \* instances with local records that may reference a row
    Sinces,     \* values of the `since` field; 0 stands for an empty one
    Depth,      \* ETL_UPSTREAM_REFRESH_DEPTH, already capped
    MaxHops,    \* bound on the frames of one pull, above any the code reaches
    MaxClock    \* bound on the saves and deletions at the master

ASSUME MainAssumption ==
    /\ Master \in Instances
    /\ Parent \in [Instances -> Instances]
    /\ Upstreams \in [Instances -> SUBSET Instances]
    /\ \A n \in Instances : Parent[n] # n => Parent[n] \in Upstreams[n]
    /\ Home \in [Pulls -> Instances]
    /\ Citers \subseteq Instances
    /\ Sinces \subseteq Nat
    /\ Depth \in Nat /\ MaxHops \in Nat /\ MaxClock \in Nat

VARIABLES
    clock,  \* the number of timestamps handed out so far
    row,    \* row[n][u]: the entry_date of u in the database of n, 0 if absent
    tomb,   \* tomb[n][u]: DeletedRecord.deleted_at of u at n, 0 if there is none
    cited,  \* cited[n]: rows that local records of n reference (PROTECT)
    job,    \* job[p][h]: the frame of pull p at hop h
    saved   \* history: saved[u] is the entry_date of the master's last save of u

vars == <<clock, row, tomb, cited, job, saved>>

----------------------------------------------------------------------------
Hops == 0 .. MaxHops
IsSource(n) == Parent[n] = n

Frame == [phase : {"idle", "start", "waiting", "ready", "exported", "fetched"},
          at : Instances, from : Instances, since : Nat, depth : Nat,
          fresh : BOOLEAN, exported : [Uuids -> Nat], deleted : SUBSET Uuids,
          seen : [Uuids -> Nat]]

None == [u \in Uuids |-> 0]
NoPull == [phase |-> "idle", at |-> Master, from |-> Master, since |-> 0,
           depth |-> 0, fresh |-> FALSE, exported |-> None, deleted |-> {},
           seen |-> None]

\* `seen` is history: the master's rows when the operator pressed the button.
NewFrame(n, m, since, depth, seen) ==
    [NoPull EXCEPT !.phase = "start", !.at = n, !.from = m, !.since = since,
                   !.depth = depth, !.seen = seen]

TypeOK ==
    /\ clock \in Nat
    /\ row \in [Instances -> [Uuids -> Nat]]
    /\ tomb \in [Instances -> [Uuids -> Nat]]
    /\ cited \in [Instances -> SUBSET Uuids]
    /\ job \in [Pulls -> [Hops -> Frame]]
    /\ saved \in [Uuids -> Nat]

Init ==
    /\ clock = 0
    /\ row = [n \in Instances |-> None]
    /\ tomb = [n \in Instances |-> None]
    /\ cited = [n \in Instances |-> {}]
    /\ job = [p \in Pulls |-> [h \in Hops |-> NoPull]]
    /\ saved = None

----------------------------------------------------------------------------
(* Editing, which the guard on the editorial surfaces leaves to the master. *)

\* A new row, or a change to one; no new row gets the uuid of a deleted one.
Save(u) ==
    /\ clock < MaxClock
    /\ row[Master][u] # 0 \/ tomb[Master][u] = 0
    /\ clock' = clock + 1
    /\ row' = [row EXCEPT ![Master][u] = clock + 1]
    /\ saved' = [saved EXCEPT ![u] = clock + 1]
    /\ UNCHANGED <<tomb, cited, job>>

\* Variant: no receiver records the deletion.
Buried_None(graves, dead) == graves

\* pre_delete: an older tombstone keeps its deleted_at.
Buried(graves, dead) ==
    [u \in Uuids |-> IF u \in dead /\ graves[u] = 0 THEN clock + 1 ELSE graves[u]]

Delete(u) ==
    /\ clock < MaxClock
    /\ row[Master][u] # 0
    /\ u \notin cited[Master]
    /\ clock' = clock + 1
    /\ row' = [row EXCEPT ![Master][u] = 0]
    /\ tomb' = [tomb EXCEPT ![Master] = Buried(@, {u})]
    /\ UNCHANGED <<cited, job, saved>>

\* A record of n is pointed at the row, or away from it.
Cite(n, u) ==
    /\ n \in Citers
    /\ row[n][u] # 0
    /\ u \notin cited[n]
    /\ cited' = [cited EXCEPT ![n] = @ \cup {u}]
    /\ UNCHANGED <<clock, row, tomb, job, saved>>

Uncite(n, u) ==
    /\ n \in Citers
    /\ u \in cited[n]
    /\ cited' = [cited EXCEPT ![n] = @ \ {u}]
    /\ UNCHANGED <<clock, row, tomb, job, saved>>

----------------------------------------------------------------------------
(* A frame: refresh the peer, read its rows, read its deletions, import.   *)

\* An operator starts a pull, with or without the refresh of the peer.  Pulling
\* from a peer that is not upstream is refused.
StartPull(p, m, since, cascade) ==
    /\ job[p][0].phase = "idle"
    /\ m \in Upstreams[Home[p]]
    /\ job' = [job EXCEPT ![p][0] =
                  NewFrame(Home[p], m, since, IF cascade THEN Depth ELSE 0, row[Master])]
    /\ UNCHANGED <<clock, row, tomb, cited, saved>>

\* No refresh is asked for, the depth is used up, the peer is the source, or the
\* request is not accepted (a relay without the endpoint, an HTTP error): read
\* what is there.
Proceed(p, h) ==
    /\ job[p][h].phase = "start"
    /\ job' = [job EXCEPT ![p][h] =
                  [@ EXCEPT !.phase = "ready", !.fresh = IsSource(job[p][h].from)]]
    /\ UNCHANGED <<clock, row, tomb, cited, saved>>

\* A request is sent as long as there are hops to go.  (Bound: one refresh at a
\* time for each pull and hop.)
CanAsk(p, h) ==
    /\ job[p][h].phase = "start"
    /\ job[p][h].depth > 0
    /\ h + 1 \in Hops /\ job[p][h + 1].phase = "idle"

\* The hops a relay may travel on.  Variant: the depth is passed on as it came.
Remaining_Kept(depth) == depth
Remaining(depth) == depth - 1

\* The caller blocks on the answer.  Variant: the relay queues the refresh and
\* answers at once.
Awaiting_Queued(f) == [f EXCEPT !.phase = "ready", !.fresh = TRUE]
Awaiting(f) == [f EXCEPT !.phase = "waiting"]

\* The refresh request reaches the peer, a relay, which starts a pull from its
\* own parent.  (A source answers at once that it has nothing to refresh, which
\* is Proceed.)
Ask(p, h) ==
    /\ CanAsk(p, h)
    /\ LET f == job[p][h] IN
       /\ ~IsSource(f.from)
       /\ job' = [job EXCEPT
                    ![p][h] = Awaiting(f),
                    ![p][h + 1] = NewFrame(f.from, Parent[f.from], f.since,
                                           Remaining(f.depth), f.seen)]
    /\ UNCHANGED <<clock, row, tomb, cited, saved>>

\* The frames of p after hop h is over: the caller, if it still waits, gets the
\* answer and goes on to read, whatever the answer is.
Over(p, h, refreshed) ==
    [i \in Hops |->
        IF i = h THEN NoPull
        ELSE IF i + 1 = h /\ job[p][i].phase = "waiting"
        THEN [job[p][i] EXCEPT !.phase = "ready",
                               !.fresh = refreshed /\ job[p][h].fresh]
        ELSE job[p][i]]

\* The answer to a refresh request is an HTTP error, from the proxy if not from
\* the relay, which may still be working on it: read what is there.
GiveUp(p, h) ==
    /\ job[p][h].phase = "waiting"
    /\ job' = [job EXCEPT ![p][h] = [@ EXCEPT !.phase = "ready"]]
    /\ UNCHANGED <<clock, row, tomb, cited, saved>>

\* No answer within ETL_UPSTREAM_REFRESH_TIMEOUT: the TimeoutError of the socket
\* is no ValueError, and it ends the pull.
TimeOut(p, h) ==
    /\ job[p][h].phase = "waiting"
    /\ job' = [job EXCEPT ![p] = Over(p, h, FALSE)]
    /\ UNCHANGED <<clock, row, tomb, cited, saved>>

Newer(rows, since) == [u \in Uuids |-> IF rows[u] > since THEN rows[u] ELSE 0]

Export(p, h) ==
    /\ job[p][h].phase = "ready"
    /\ job' = [job EXCEPT ![p][h] =
                  [@ EXCEPT !.phase = "exported",
                            !.exported = Newer(row[job[p][h].from], job[p][h].since)]]
    /\ UNCHANGED <<clock, row, tomb, cited, saved>>

FetchDeleted(p, h) ==
    /\ job[p][h].phase = "exported"
    /\ LET f == job[p][h] IN
       job' = [job EXCEPT ![p][h] =
                  [@ EXCEPT !.phase = "fetched",
                            !.deleted = {u \in Uuids : tomb[f.from][u] > f.since}]]
    /\ UNCHANGED <<clock, row, tomb, cited, saved>>

\* Variant: a pull that fails starts again, however often it does.
Fail_Retries(p, h) ==
    /\ job[p][h].phase \in {"ready", "exported", "fetched"}
    /\ job' = [job EXCEPT ![p][h] = [@ EXCEPT !.phase = "start"]]
    /\ UNCHANGED <<clock, row, tomb, cited, saved>>

\* A request fails, the preload of `shared` stops on a conflict, or the import
\* is rolled back.
Fail(p, h) ==
    /\ job[p][h].phase \in {"ready", "exported", "fetched"}
    /\ job' = [job EXCEPT ![p] = Over(p, h, FALSE)]
    /\ UNCHANGED <<clock, row, tomb, cited, saved>>

\* Variant: storing a row re-dates it (auto_now).
Landed_Redated(f) ==
    [u \in Uuids |-> IF f.exported[u] # 0 THEN clock + 1 ELSE row[f.at][u]]

\* Variant: the rows of the table are replaced by those of the export.
Landed_Replaced(f) == f.exported

\* Every exported row is stored as it came, over whatever is there.
Landed(f) ==
    [u \in Uuids |-> IF f.exported[u] # 0 THEN f.exported[u] ELSE row[f.at][u]]

\* Of the deletions the peer announced, those nothing local protects.
Removed(f) == {u \in f.deleted : Landed(f)[u] # 0 /\ u \notin cited[f.at]}

\* What the transaction leaves: every row first, then every deletion.
Merged(f) == [u \in Uuids |-> IF u \in Removed(f) THEN 0 ELSE Landed(f)[u]]

Import(p, h) ==
    /\ job[p][h].phase = "fetched"
    /\ LET f == job[p][h] IN
       /\ row' = [row EXCEPT ![f.at] = Merged(f)]
       /\ tomb' = [tomb EXCEPT ![f.at] = Buried(@, Removed(f))]
       /\ clock' = IF \E u \in Removed(f) : tomb[f.at][u] = 0 THEN clock + 1 ELSE clock
    /\ job' = [job EXCEPT ![p] = Over(p, h, TRUE)]
    /\ UNCHANGED <<cited, saved>>

----------------------------------------------------------------------------
Curate(u) == Save(u) \/ Delete(u)

Reference(n, u) == Cite(n, u) \/ Uncite(n, u)

Refresh(p, h) == Proceed(p, h) \/ Ask(p, h) \/ GiveUp(p, h) \/ TimeOut(p, h)

Read(p, h) == Export(p, h) \/ FetchDeleted(p, h) \/ Import(p, h) \/ Fail(p, h)

Next ==
    \/ \E u \in Uuids : Curate(u)
    \/ \E n \in Instances, u \in Uuids : Reference(n, u)
    \/ \E p \in Pulls, m \in Instances, since \in Sinces, cascade \in BOOLEAN :
          StartPull(p, m, since, cascade)
    \/ \E p \in Pulls, h \in Hops : Refresh(p, h) \/ Read(p, h)

Spec == Init /\ [][Next]_vars

\* Requests are answered or time out, and handlers run to their end.
Fairness ==
    \A p \in Pulls, h \in Hops : WF_vars(Refresh(p, h)) /\ WF_vars(Read(p, h))

FairSpec == Spec /\ Fairness

----------------------------------------------------------------------------
(* Safety. *)

\* A refresh travels at most Depth hops, whatever the registry says: no frame
\* beyond it ever runs, not even between two instances that name each other as
\* parent.
HopsBounded == \A p \in Pulls, h \in Hops : h > Depth => job[p][h].phase = "idle"

\* A pull whose every relay reported that it refreshed brings what the master
\* had when the operator asked: a row newer than `since` arrives in that state
\* or a later one, unless it has been deleted.
RefreshedPullIsCurrent ==
    [][\A p \in Pulls, u \in Uuids :
          LET f == job[p][0] IN
          (Import(p, 0) /\ f.fresh /\ f.seen[u] > f.since)
          => row'[f.at][u] >= f.seen[u] \/ tomb[Master][u] # 0]_vars

\* Pulled through one chain, one pull at a time, each copy is a replica of the
\* master's catalogue that only moves forward.
Catalogue == INSTANCE MainCatalogue WITH
                 newest <- saved, copy <- row,
                 gone <- [n \in Instances |-> {u \in Uuids : tomb[n][u] # 0}]

ReplicasMoveForward == Catalogue!Spec

\* In any registry, and where pulls overlap and old exports are stored after newer
\* ones, copies still follow the master: a row changes only to a state no newer
\* than the master's last save of it, and goes only if the master has deleted it.
CopiesFollow ==
    [][\A n \in Instances, u \in Uuids : row'[n][u] # row[n][u] =>
          IF row'[n][u] = 0 THEN tomb'[Master][u] # 0 ELSE row'[n][u] <= saved'[u]]_vars

(* Liveness. *)

\* Every frame ends, whatever the peers answer and however they are connected.
PullsEnd ==
    \A p \in Pulls, h \in Hops : job[p][h].phase # "idle" ~> job[p][h].phase = "idle"

\* If full pulls keep being completed at every site, and records stop referring
\* to the rows, all copies end up equal: a deletion that was skipped because the
\* row was referenced is made up for by a later pull, also down the chain.
FullPullAt(n) ==
    \E p \in Pulls, h \in Hops :
        Import(p, h) /\ job[p][h].at = n /\ job[p][h].since = 0

CopiesConverge ==
    (/\ <>[](\A n \in Instances : cited[n] = {})
     /\ \A n \in Instances \ {Master} : []<><<FullPullAt(n)>>_vars)
    => <>[](\A n \in Instances : row[n] = row[Master])
=============================================================================
