---------------------------- MODULE MCEtlShared ----------------------------
(* Small instances of EtlShared for TLC. *)
EXTENDS EtlShared, TLC

CONSTANTS a, b, u1, u2

\* Two sites that pull from each other, as eCatalogus and mpl do.
MCPeers == (a :> {b}) @@ (b :> {a})

\* A parent and a child that nobody pulls from.
MCTree == (a :> {}) @@ (b :> {a})
=============================================================================
