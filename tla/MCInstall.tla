----------------------------- MODULE MCInstall -----------------------------
EXTENDS InstallRefinement

CONSTANTS r1, r2

MCReleases == {r1, r2}

(* r1 ships every tree, r2 no longer ships the second tree. *)
TreeDropped == [r \in MCReleases |-> IF r = r2 THEN Trees \ {2} ELSE Trees]
=============================================================================
