--------------------------- MODULE MainCatalogue ---------------------------
(***************************************************************************)
(* What the replication of `main` promises: one instance curates the       *)
(* vocabularies, and the copy of any other only ever moves forward along   *)
(* the history of each row, towards a state the curator has saved.  A row  *)
(* that a copy has deleted does not come back.                             *)
(***************************************************************************)
EXTENDS Naturals

CONSTANTS Instances, Master, Uuids

VARIABLES
    newest,  \* newest[u]: the last stamp under which the curator saved u
    copy,    \* copy[n][u]: the stamp of u at n, 0 when n has no such row
    gone     \* gone[n]: rows n has deleted

TypeOK ==
    /\ newest \in [Uuids -> Nat]
    /\ copy \in [Instances -> [Uuids -> Nat]]
    /\ gone \in [Instances -> SUBSET Uuids]

Init ==
    /\ newest = [u \in Uuids |-> 0]
    /\ copy = [n \in Instances |-> [u \in Uuids |-> 0]]
    /\ gone = [n \in Instances |-> {}]

\* The curator saves a row.
Publish(u) ==
    /\ u \notin gone[Master]
    /\ newest[u]' > newest[u]
    /\ newest' = [newest EXCEPT ![u] = newest[u]']
    /\ copy' = [copy EXCEPT ![Master][u] = newest[u]']
    /\ UNCHANGED gone

\* The curator deletes a row.
Withdraw(u) ==
    /\ copy[Master][u] # 0
    /\ copy' = [copy EXCEPT ![Master][u] = 0]
    /\ gone' = [gone EXCEPT ![Master] = @ \cup {u}]
    /\ UNCHANGED newest

\* Another instance brings some of its rows up to date, and drops some.
MovesForward(n, u) ==
    \/ /\ copy'[n][u] = 0
       /\ u \in gone'[n] \/ copy[n][u] = 0
    \/ /\ u \notin gone'[n]
       /\ copy[n][u] <= copy'[n][u] /\ copy'[n][u] <= newest[u]

Adopt(n) ==
    /\ n # Master
    /\ \A m \in Instances \ {n} : copy'[m] = copy[m] /\ gone'[m] = gone[m]
    /\ gone[n] \subseteq gone'[n]
    /\ gone'[n] \subseteq gone[n] \cup gone[Master]
    /\ \A u \in Uuids : MovesForward(n, u)
    /\ UNCHANGED newest

Next ==
    \/ \E u \in Uuids : Publish(u) \/ Withdraw(u)
    \/ \E n \in Instances : Adopt(n)

Spec == Init /\ [][Next]_<<newest, copy, gone>>
=============================================================================
