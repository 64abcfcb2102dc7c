----------------------------- MODULE MCEtlMain -----------------------------
(* Small instances of EtlMain for TLC. *)
EXTENDS EtlMain, TLC

CONSTANTS master, relay, leaf, u1, p1

\* eCatalogus, mpl and limbo: the leaf pulls from the relay.
ChainParent == (master :> master) @@ (relay :> master) @@ (leaf :> relay)
ChainUpstreams == (master :> {}) @@ (relay :> {master}) @@ (leaf :> {relay})

\* A registry in which the first two sites name each other as parent.
LoopParent == (master :> relay) @@ (relay :> master) @@ (leaf :> relay)
LoopUpstreams == (master :> {relay}) @@ (relay :> {master}) @@ (leaf :> {relay})

\* One pull, of the leaf.
LeafHome == p1 :> leaf
=============================================================================
