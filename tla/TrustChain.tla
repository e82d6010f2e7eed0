----------------------------- MODULE TrustChain -----------------------------
(***************************************************************************)
(* What the signed update channel promises to a server: it goes from one   *)
(* whole release to a later one that the release it has vouches for, and   *)
(* to nothing else, whatever is served, replayed or fails on the way.      *)
(***************************************************************************)
EXTENDS Naturals

CONSTANTS
  Versions,   \* releases, in the order of their publication
  First,      \* the one the server was set up with
  Vouches     \* <<v, w>> when the keyring of v verifies w

VARIABLE installed

Init == installed = First

Upgrade ==
  \E v \in Versions :
    /\ installed < v /\ <<installed, v>> \in Vouches
    /\ installed' = v

Spec == Init /\ [][Upgrade]_installed
=============================================================================
