------------------------------ MODULE MCSemVer ------------------------------
EXTENDS SemVer

(* '-' before the digits, 'a' after them; 10 is more than 2. *)
MCChars == {45, 48, 49, 50, 97}
(* A number and a word. *)
MCWords == {<<49>>, <<97>>}
=============================================================================
