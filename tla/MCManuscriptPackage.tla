------------------------ MODULE MCManuscriptPackage ------------------------
(* A small instance of ManuscriptPackage for TLC. *)
EXTENDS ManuscriptPackage, TLC

CONSTANTS m, c, d, s

\*   1 Manuscripts   2 Content -> 1   3 Decoration -> 1, 2
\*   4 DecorationSubjects -> 3, which has no key to Manuscripts
MCOwned == {2, 3}
MCMayRef == {<<2, 1>>, <<3, 1>>, <<3, 2>>, <<4, 3>>}
MCTableOf == (m :> 1) @@ (c :> 2) @@ (d :> 3) @@ (s :> 4)
=============================================================================
