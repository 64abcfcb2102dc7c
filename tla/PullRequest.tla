---------------------------- MODULE PullRequest ----------------------------
(***************************************************************************)
(* What the ETL page promises of a request, in terms of what its operator   *)
(* can see: it is carried out or not, before or after what it is told, and  *)
(* it gets at most one report, which says "done" only if it has been        *)
(* carried out.                                                             *)
(***************************************************************************)
EXTENDS Naturals

CONSTANTS Requests, None

VARIABLES asked, carriedOut, told

vars == <<asked, carriedOut, told>>

Init ==
    /\ asked = {}
    /\ carriedOut = {}
    /\ told = [r \in Requests |-> None]

\* A name may be used again once its request has been reported on.
Ask(r) ==
    /\ r \in asked => told[r] # None
    /\ asked' = asked \cup {r}
    /\ carriedOut' = carriedOut \ {r}
    /\ told' = [told EXCEPT ![r] = None]

Told(r, report) == /\ told[r] = None
                   /\ report = "done" => r \in carriedOut'
                   /\ told' = [told EXCEPT ![r] = report]

\* A request is carried out, with a report or without; a report of a failure
\* does not stop what is under way.
Proceed(r) ==
    /\ r \in asked
    /\ carriedOut' = carriedOut \/ carriedOut' = carriedOut \cup {r}
    /\ UNCHANGED told \/ \E report \in {"done", "conflict", "failed"} : Told(r, report)
    /\ UNCHANGED asked

Next == \E r \in Requests : Ask(r) \/ Proceed(r)

Spec == Init /\ [][Next]_vars
=============================================================================
