------------------------- MODULE MCDocumentVersions -------------------------
(* Two projects with an owner each and a document each, for TLC.             *)
EXTENDS DocumentVersions, TLC

CONSTANTS pa, pb, da, db, ua, ub, spec

MCOwnerOf == pa :> ua @@ pb :> ub
MCProjectOf == da :> pa @@ db :> pb
MCTypeOf == da :> spec @@ db :> spec

MCSymmetry == Permutations(Requests)
=============================================================================
