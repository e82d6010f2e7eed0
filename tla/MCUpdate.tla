------------------------------ MODULE MCUpdate ------------------------------
EXTENDS UpdateAgent

CONSTANTS k1, k2

Far == 9   \* no retire_after
Window(k, from, until) == [key |-> k, from |-> from, until |-> until]
Final(k, keys)      == [key |-> k, ring |-> keys, pre |-> FALSE]
PreRelease(k, keys) == [key |-> k, ring |-> keys, pre |-> TRUE]

OldKey == Window(k1, 1, Far)

(* The rotation of UPDATES.md:75-83 on both channels: releases 2 and 3     *)
(* announce the key that signs from 4 on, 4 retires the old one, 5 and 6   *)
(* remove it.  3 and 5 are prereleases.                                    *)
NewKey == Window(k2, 4, Far)

Rotation ==
  << Final(k1, {OldKey}),
     Final(k1, {OldKey, NewKey}),
     PreRelease(k1, {OldKey, NewKey}),
     Final(k2, {Window(k1, 1, 4), NewKey}),
     PreRelease(k2, {NewKey}),
     Final(k2, {NewKey}) >>

(* Another one: a server finds two prereleases at once, 2 and 3, or two    *)
(* final releases one after the other, 4 and 5, and the keyring grows.     *)
SignFrom6 == Window(k2, 6, Far)

Pairs ==
  << Final(k1, {OldKey}),
     PreRelease(k1, {OldKey, SignFrom6}),
     PreRelease(k1, {OldKey, SignFrom6}),
     Final(k1, {OldKey, SignFrom6}),
     Final(k1, {OldKey, SignFrom6}) >>
=============================================================================
