---------------------------- MODULE MCEtlImport ----------------------------
(* Small instances of EtlImport for TLC. *)
EXTENDS EtlImport

CONSTANTS p, q, r, s, w, x

\* Sections (with a key into itself), RiteNames (into Sections), and between
\* them in the alphabet a `shared` table with unique names that RiteNames might
\* name as a source.
\*   1 RiteNames -> 2, 3     2 Sections -> 2     3 shared
MCCategory == (1 :> "main") @@ (2 :> "main") @@ (3 :> "shared")
MCMayRef == {<<1, 2>>, <<1, 3>>, <<2, 2>>}
MCTableOf == (p :> 1) @@ (q :> 2) @@ (r :> 2) @@ (s :> 3) @@ (w :> 3)

\* What the theorems of EtlImport_proofs ask of the tables and rows.
ASSUME InstanceAssumption ==
    /\ TablesAcyclic
    /\ NeedsShared("main", Of("main"), FALSE)
    /\ IsFiniteSet(Uuids)
=============================================================================
