--------------------------- MODULE AtomicRelease ---------------------------
(***************************************************************************)
(* What the installer promises to whoever reads the server between two     *)
(* runs: a run either commits a whole release and says complete, or says   *)
(* failed and leaves the release that was there.  A run killed without its *)
(* exit trap may leave anything, but then install-state says in-progress.  *)
(* The one exception is a run that breaks off where its rollback keeps no  *)
(* exact record of the trees (loose): it may leave anything, and say so    *)
(* or not.                                                                 *)
(***************************************************************************)
CONSTANTS Releases, None, Torn

VARIABLES installed, status, loose

Init == installed = None /\ status = "none" /\ loose = FALSE

Begin ==
  /\ status' = "in-progress" /\ loose' = FALSE
  /\ UNCHANGED installed

Commit ==
  /\ status = "in-progress" /\ ~loose /\ status' = "complete"
  /\ installed' \in Releases
  /\ UNCHANGED loose

Abort ==
  /\ status = "in-progress" /\ ~loose /\ status' = "failed"
  /\ UNCHANGED <<installed, loose>>

Crash ==
  /\ status = "in-progress"
  /\ installed' \in Releases \cup {None, Torn}
  /\ UNCHANGED <<status, loose>>

BreakOff ==
  /\ status \in {"in-progress", "complete"} /\ ~loose /\ loose' = TRUE
  /\ UNCHANGED <<installed, status>>

LooseRollback ==
  /\ loose
  /\ status' \in {status, "in-progress", "failed"}
  /\ installed' \in Releases \cup {None, Torn}
  /\ UNCHANGED loose

Next == Begin \/ Commit \/ Abort \/ Crash \/ BreakOff \/ LooseRollback

Spec == Init /\ [][Next]_<<installed, status, loose>>
=============================================================================
