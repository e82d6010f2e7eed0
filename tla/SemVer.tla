------------------------------- MODULE SemVer -------------------------------
(***************************************************************************)
(* The order of versions in tools/hostpanel-update.py: what the updater    *)
(* parses, and the __lt__ its choice of a release, its "is it newer?" and  *)
(* the windows of its keys all rest on.                                    *)
(*                                                                         *)
(* A version is [core, pre]: the three numbers, which Python compares as a *)
(* tuple, stand as one number; pre is the sequence of pre-release          *)
(* identifiers, an identifier the sequence of its ASCII codes.  The state  *)
(* is one or two versions picked one after the other.                      *)
(***************************************************************************)
EXTENDS Integers, Sequences, SequencesExt

CONSTANTS
  Chars,      \* ASCII codes of the characters identifiers are made of
  MaxChars,   \* bound: characters of the identifier of a short list
  Words,      \* the identifiers that longer lists are made of
  MaxIds,     \* bound: identifiers of a version
  MaxCore     \* bound: core numbers

ASSUME BoundsAssumption == {MaxChars, MaxIds, MaxCore} \subseteq Nat
ASSUME CharsAssumption == Chars \subseteq Nat

Zero == 48
Nine == 57
IsDigit(ch) == Zero <= ch /\ ch <= Nine

(* str.isdigit *)
IsNumeric(id) == \A i \in DOMAIN id : IsDigit(id[i])

(* Mutant: 01 is a number like any other. *)
AnyIdentifier(id) == id # <<>>

(* Version.parse *)
Parses(id) ==
  /\ id # <<>>
  /\ ~(IsNumeric(id) /\ Len(id) > 1 /\ id[1] = Zero)

(* Longer lists are made of identifiers too. *)
ASSUME WordsAssumption == \A w \in Words : w \in Seq(Nat) /\ Parses(w)

Identifiers == {id \in SeqOf(Chars, MaxChars) : Parses(id)}
Lists       == SeqOf(Identifiers, 1) \cup SeqOf(Words, MaxIds)
Versions    == [core: 0..MaxCore, pre: Lists]

-----------------------------------------------------------------------------
(* Version.__lt__ *)

(* < on Python strings *)
TextLess(s, t) ==
  \E i \in 1..Len(t) :
    /\ i - 1 <= Len(s) /\ \A j \in 1..(i - 1) : s[j] = t[j]
    /\ i > Len(s) \/ s[i] < t[i]

(* (len(a), a) < (len(b), b) *)
NumericLess(a, b) == Len(a) < Len(b) \/ (Len(a) = Len(b) /\ TextLess(a, b))

IdentifierLess(a, b) ==
  IF IsNumeric(a) /\ IsNumeric(b) THEN NumericLess(a, b)
  ELSE IF IsNumeric(a) # IsNumeric(b) THEN IsNumeric(a)
  ELSE TextLess(a, b)

(* The places where two tuples of identifiers differ, in zip's range. *)
Differ(p, q) == {i \in DOMAIN p \cap DOMAIN q : p[i] # q[i]}

First(s) == CHOOSE i \in s : \A j \in s : i <= j

PreLess(p, q) ==
  IF Differ(p, q) = {} THEN Len(p) < Len(q)
  ELSE LET i == First(Differ(p, q)) IN IdentifierLess(p[i], q[i])

Less(v, w) ==
  IF v.core # w.core THEN v.core < w.core
  ELSE IF v.pre = <<>> THEN FALSE
  ELSE IF w.pre = <<>> THEN TRUE
  ELSE PreLess(v.pre, w.pre)

-----------------------------------------------------------------------------
VARIABLE picks

Init == picks \in {<<v>> : v \in Versions}

Pick == /\ Len(picks) < 2
        /\ \E v \in Versions : picks' = Append(picks, v)

Spec == Init /\ [][Pick]_picks

-----------------------------------------------------------------------------
(* The precedence of Semantic Versioning 2.0.0, section 11: numbers by     *)
(* value, numbers before words, words in ASCII order, the longer of two    *)
(* lists that agree later, a release after its pre-releases.               *)
Values(id) ==
  LET value[n \in 0..Len(id)] ==
        IF n = 0 THEN 0 ELSE 10 * value[n - 1] + (id[n] - Zero)
  IN  value

Number(id) == Values(id)[Len(id)]

IdentifierPrecedes(a, b) ==
  CASE IsNumeric(a) /\ IsNumeric(b)   -> Number(a) < Number(b)
    [] IsNumeric(a) /\ ~IsNumeric(b)  -> TRUE
    [] ~IsNumeric(a) /\ IsNumeric(b)  -> FALSE
    [] ~IsNumeric(a) /\ ~IsNumeric(b) -> IsStrictPrefix(a, b) \/
         \E i \in DOMAIN a \cap DOMAIN b :
           SubSeq(a, 1, i - 1) = SubSeq(b, 1, i - 1) /\ a[i] < b[i]

Precedes(v, w) ==
  \/ v.core < w.core
  \/ v.core = w.core /\ v.pre # <<>> /\
       \/ w.pre = <<>>
       \/ IsStrictPrefix(v.pre, w.pre)
       \/ \E i \in DOMAIN v.pre \cap DOMAIN w.pre :
            /\ SubSeq(v.pre, 1, i - 1) = SubSeq(w.pre, 1, i - 1)
            /\ IdentifierPrecedes(v.pre[i], w.pre[i])

(* The updater's order is the standard's ("strict semantic-version form",  *)
(* UPDATES.md:50): len-then-text is the value of a number only because     *)
(* parse refuses leading zeroes.                                           *)
AgreesWithSemVer ==
  Len(picks) = 2 => (Less(picks[1], picks[2]) <=> Precedes(picks[1], picks[2]))

=============================================================================
