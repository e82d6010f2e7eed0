---------------------------- MODULE SemVerProofs ----------------------------
(***************************************************************************)
(* The updater's order of versions for identifiers of any characters and   *)
(* any length and lists of any length: it is a strict total order, and     *)
(* that of SemVer 2.0.0.                                                   *)
(***************************************************************************)
EXTENDS SemVer, FiniteSetTheorems, WellFoundedInduction, TLAPS

(* Induction over the natural numbers for a set, from the least number     *)
(* that is not in it.                                                      *)
LEMMA Induction ==
  ASSUME NEW S, 0 \in S, \A n \in Nat : n \in S => n + 1 \in S
  PROVE  Nat \subseteq S
PROOF
<1> DEFINE less == OpToRel(<, Nat)
<1>a. IsWellFoundedOn(less, Nat)
  BY NatLessThanWellFounded, Zenon
<1>b. \A x, y \in Nat : x < y => <<x, y>> \in less
  BY Zenon DEF OpToRel
<1> HIDE DEF less
<1> DEFINE rest == Nat \ S
<1>1. SUFFICES ASSUME rest # {} PROVE FALSE
  OBVIOUS
<1>2. PICK m \in rest : \A k \in rest : ~ (<<k, m>> \in less)
  <2> rest \subseteq Nat
    OBVIOUS
  <2> HIDE DEF rest
  <2> QED BY <1>1, <1>a, WFMin
<1>3. m \in Nat /\ m # 0 /\ m - 1 \in Nat /\ m - 1 < m
  BY <1>2
<1>4. m - 1 \in S
  BY <1>2, <1>3, <1>b
<1>5. (m - 1) + 1 \in S
  BY <1>3, <1>4
<1> QED BY <1>2, <1>3, <1>5

(* The least of some natural numbers.                                      *)
LEMMA Least ==
  ASSUME NEW S \in SUBSET Nat, S # {}
  PROVE  First(S) \in S /\ \A j \in S : First(S) <= j
PROOF
<1> DEFINE less == OpToRel(<, Nat)
<1>a. IsWellFoundedOn(less, Nat)
  BY NatLessThanWellFounded, Zenon
<1>b. \A x, y \in Nat : x < y => <<x, y>> \in less
  BY Zenon DEF OpToRel
<1> HIDE DEF less
<1>1. PICK m \in S : \A k \in S : ~ (<<k, m>> \in less)
  BY <1>a, WFMin
<1>2. \A k \in S : m <= k
  <2> TAKE k \in S
  <2>1. ~ (k < m)
    BY <1>1, <1>b
  <2> QED BY <2>1
<1> QED BY <1>2 DEF First

-----------------------------------------------------------------------------
(* The order of texts.                                                     *)
Text == Seq(Nat)

(* The places where two sequences of any kind differ have a first one.     *)
LEMMA FirstDiffers ==
  ASSUME NEW S, NEW p \in Seq(S), NEW q \in Seq(S), Differ(p, q) # {}
  PROVE  LET i == First(Differ(p, q))
         IN  /\ i \in 1..Len(p) /\ i \in 1..Len(q) /\ p[i] # q[i]
             /\ \A j \in 1..(i - 1) : p[j] = q[j]
PROOF
<1> DEFINE i == First(Differ(p, q))
<1>1. Differ(p, q) \subseteq Nat
  BY DEF Differ
<1>2. i \in Differ(p, q) /\ \A j \in Differ(p, q) : i <= j
  BY <1>1, Least
<1> HIDE DEF i
<1>3. i \in 1..Len(p) /\ i \in 1..Len(q) /\ p[i] # q[i]
  BY <1>2 DEF Differ
<1>4. ASSUME NEW j \in 1..(i - 1) PROVE p[j] = q[j]
  <2>1. j \in 1..Len(p) /\ j \in 1..Len(q) /\ ~ (i <= j)
    BY <1>3
  <2> QED BY <1>2, <2>1 DEF Differ
<1> QED BY <1>3, <1>4 DEF i

(* Two sequences that differ nowhere are equal or of different lengths.    *)
LEMMA NoDifference ==
  ASSUME NEW S, NEW p \in Seq(S), NEW q \in Seq(S), Differ(p, q) = {}
  PROVE  /\ \A j \in 1..Len(p) : j \in 1..Len(q) => p[j] = q[j]
         /\ p # q => Len(p) < Len(q) \/ Len(q) < Len(p)
PROOF
<1>1. \A j \in 1..Len(p) : j \in 1..Len(q) => p[j] = q[j]
  BY DEF Differ
<1>2. Len(p) = Len(q) => p = q
  BY <1>1
<1> QED BY <1>1, <1>2

LEMMA TextIrreflexive ==
  ASSUME NEW s \in Text
  PROVE  ~ TextLess(s, s)
PROOF
  BY DEF Text, TextLess

LEMMA TextTransitive ==
  ASSUME NEW s \in Text, NEW t \in Text, NEW u \in Text,
         TextLess(s, t), TextLess(t, u)
  PROVE  TextLess(s, u)
PROOF
<1>1. PICK i \in 1..Len(t) :
        /\ i - 1 <= Len(s) /\ \A j \in 1..(i - 1) : s[j] = t[j]
        /\ i > Len(s) \/ s[i] < t[i]
  BY DEF TextLess
<1>2. PICK k \in 1..Len(u) :
        /\ k - 1 <= Len(t) /\ \A j \in 1..(k - 1) : t[j] = u[j]
        /\ k > Len(t) \/ t[k] < u[k]
  BY DEF TextLess
<1>3. Len(s) \in Nat /\ Len(t) \in Nat /\ Len(u) \in Nat
  BY DEF Text
<1>4. \A j \in 1..Len(s) : s[j] \in Nat
  BY DEF Text
<1>5. \A j \in 1..Len(t) : t[j] \in Nat
  BY DEF Text
<1>6. \A j \in 1..Len(u) : u[j] \in Nat
  BY DEF Text
<1>7. CASE i < k
  <2>1. i \in 1..Len(u) /\ t[i] = u[i]
    BY <1>1, <1>2, <1>3, <1>7
  <2>2. \A j \in 1..(i - 1) : s[j] = u[j]
    BY <1>1, <1>2, <1>3, <1>7
  <2> QED BY <1>1, <2>1, <2>2 DEF TextLess
<1>8. CASE k < i
  <2>1. k - 1 <= Len(s) /\ s[k] = t[k] /\ t[k] < u[k]
    BY <1>1, <1>2, <1>3, <1>8
  <2>2. \A j \in 1..(k - 1) : s[j] = u[j]
    BY <1>1, <1>2, <1>3, <1>8
  <2> QED BY <1>2, <2>1, <2>2 DEF TextLess
<1>9. CASE i = k
  <2>1. i > Len(s) \/ s[i] < u[i]
    BY <1>1, <1>2, <1>3, <1>4, <1>5, <1>6, <1>9
  <2>2. \A j \in 1..(i - 1) : s[j] = u[j]
    BY <1>1, <1>2, <1>9
  <2> QED BY <1>1, <1>2, <1>9, <2>1, <2>2 DEF TextLess
<1> QED BY <1>1, <1>2, <1>7, <1>8, <1>9

LEMMA TextTotal ==
  ASSUME NEW s \in Text, NEW t \in Text, s # t
  PROVE  TextLess(s, t) \/ TextLess(t, s)
PROOF
<1>1. s \in Seq(Nat) /\ t \in Seq(Nat)
  BY DEF Text
<1>2. Len(s) \in Nat /\ Len(t) \in Nat
  BY <1>1
<1>3. CASE Differ(s, t) = {}
  <2>1. \A j \in 1..Len(s) : j \in 1..Len(t) => s[j] = t[j]
    BY <1>1, <1>3, NoDifference
  <2>2. CASE Len(s) < Len(t)
    <3>1. \A j \in 1..(Len(s) + 1 - 1) : s[j] = t[j]
      BY <1>2, <2>1, <2>2
    <3>2. Len(s) + 1 \in 1..Len(t) /\ Len(s) + 1 > Len(s)
      BY <1>2, <2>2
    <3> QED BY <1>2, <3>1, <3>2 DEF TextLess
  <2>3. CASE Len(t) < Len(s)
    <3>1. \A j \in 1..(Len(t) + 1 - 1) : t[j] = s[j]
      BY <1>2, <2>1, <2>3
    <3>2. Len(t) + 1 \in 1..Len(s) /\ Len(t) + 1 > Len(t)
      BY <1>2, <2>3
    <3> QED BY <1>2, <3>1, <3>2 DEF TextLess
  <2> QED BY <1>1, <1>3, <2>2, <2>3, NoDifference
<1>4. CASE Differ(s, t) # {}
  <2> DEFINE i == First(Differ(s, t))
  <2>1. /\ i \in 1..Len(s) /\ i \in 1..Len(t) /\ s[i] # t[i]
        /\ \A j \in 1..(i - 1) : s[j] = t[j]
    BY <1>1, <1>4, FirstDiffers
  <2> HIDE DEF i
  <2>2. s[i] < t[i] \/ t[i] < s[i]
    BY <1>1, <2>1
  <2> QED BY <1>2, <2>1, <2>2 DEF TextLess
<1> QED BY <1>3, <1>4

-----------------------------------------------------------------------------
(* The order of identifiers.                                               *)

LEMMA IdentifierIrreflexive ==
  ASSUME NEW a \in Text
  PROVE  ~ IdentifierLess(a, a)
PROOF
<1>1. ~ TextLess(a, a)
  BY TextIrreflexive
<1>2. Len(a) \in Nat
  BY DEF Text
<1> QED BY <1>1, <1>2 DEF IdentifierLess, NumericLess

LEMMA IdentifierTransitive ==
  ASSUME NEW a \in Text, NEW b \in Text, NEW c \in Text,
         IdentifierLess(a, b), IdentifierLess(b, c)
  PROVE  IdentifierLess(a, c)
PROOF
<1>1. Len(a) \in Nat /\ Len(b) \in Nat /\ Len(c) \in Nat
  BY DEF Text
<1>2. TextLess(a, b) /\ TextLess(b, c) => TextLess(a, c)
  BY TextTransitive
<1>3. NumericLess(a, b) /\ NumericLess(b, c) => NumericLess(a, c)
  BY <1>1, <1>2 DEF NumericLess
<1>4. CASE IsNumeric(a) /\ IsNumeric(c)
  BY <1>2, <1>3, <1>4 DEF IdentifierLess
<1>5. CASE IsNumeric(a) /\ ~ IsNumeric(c)
  BY <1>5 DEF IdentifierLess
<1>6. CASE ~ IsNumeric(a)
  BY <1>2, <1>6 DEF IdentifierLess
<1> QED BY <1>4, <1>5, <1>6

LEMMA IdentifierTotal ==
  ASSUME NEW a \in Text, NEW b \in Text, a # b
  PROVE  IdentifierLess(a, b) \/ IdentifierLess(b, a)
PROOF
<1>1. Len(a) \in Nat /\ Len(b) \in Nat
  BY DEF Text
<1>2. TextLess(a, b) \/ TextLess(b, a)
  BY TextTotal
<1>3. NumericLess(a, b) \/ NumericLess(b, a)
  BY <1>1, <1>2 DEF NumericLess
<1>4. CASE IsNumeric(a) /\ IsNumeric(b)
  BY <1>3, <1>4 DEF IdentifierLess
<1>5. CASE ~ IsNumeric(a) \/ ~ IsNumeric(b)
  <2>1. IsNumeric(a) \in BOOLEAN /\ IsNumeric(b) \in BOOLEAN
    BY DEF IsNumeric
  <2> QED BY <1>2, <1>5, <2>1 DEF IdentifierLess
<1> QED BY <1>4, <1>5

-----------------------------------------------------------------------------
(* The order of lists of identifiers.                                      *)

(* The loop of __lt__ finds what TextLess says of texts: a first place     *)
(* where the lists part, with the lesser or with no identifier on the left.*)
LEMMA PreLessForm ==
  ASSUME NEW p \in Seq(Text), NEW q \in Seq(Text)
  PROVE  PreLess(p, q) <=>
           \E i \in 1..Len(q) :
             /\ i - 1 <= Len(p) /\ \A j \in 1..(i - 1) : p[j] = q[j]
             /\ i > Len(p) \/ IdentifierLess(p[i], q[i])
PROOF
<1> DEFINE Parts(i) ==
             /\ i - 1 <= Len(p) /\ \A j \in 1..(i - 1) : p[j] = q[j]
             /\ i > Len(p) \/ IdentifierLess(p[i], q[i])
<1>1. Len(p) \in Nat /\ Len(q) \in Nat
  OBVIOUS
<1>2. CASE Differ(p, q) = {}
  <2>1. \A j \in 1..Len(p) : j \in 1..Len(q) => p[j] = q[j]
    BY <1>2, NoDifference
  <2>2. PreLess(p, q) <=> Len(p) < Len(q)
    BY <1>2 DEF PreLess
  <2>3. ASSUME Len(p) < Len(q) PROVE \E i \in 1..Len(q) : Parts(i)
    <3>1. Len(p) + 1 \in 1..Len(q) /\ Len(p) + 1 > Len(p)
      BY <1>1, <2>3
    <3>2. \A j \in 1..(Len(p) + 1 - 1) : p[j] = q[j]
      BY <1>1, <2>1, <2>3
    <3>3. Parts(Len(p) + 1)
      BY <1>1, <3>1, <3>2
    <3> QED BY <3>1, <3>3
  <2>4. ASSUME NEW i \in 1..Len(q), Parts(i) PROVE Len(p) < Len(q)
    <3>1. CASE i > Len(p)
      BY <1>1, <3>1
    <3>2. CASE ~ (i > Len(p))
      <4>1. i \in 1..Len(p) /\ p[i] = q[i] /\ p[i] \in Text
        BY <1>1, <2>1, <3>2
      <4> QED BY <2>4, <3>2, <4>1, IdentifierIrreflexive
    <3> QED BY <3>1, <3>2
  <2> QED BY <2>2, <2>3, <2>4
<1>3. CASE Differ(p, q) # {}
  <2> DEFINE k == First(Differ(p, q))
  <2>1. /\ k \in 1..Len(p) /\ k \in 1..Len(q) /\ p[k] # q[k]
        /\ \A j \in 1..(k - 1) : p[j] = q[j]
    BY <1>3, FirstDiffers
  <2>2. PreLess(p, q) <=> IdentifierLess(p[k], q[k])
    BY <1>3 DEF PreLess
  <2> HIDE DEF k
  <2>3. IdentifierLess(p[k], q[k]) => Parts(k)
    BY <1>1, <2>1
  <2>4. ASSUME NEW i \in 1..Len(q), Parts(i)
        PROVE  IdentifierLess(p[k], q[k])
    <3>1. CASE i < k
      <4>1. i \in 1..Len(p) /\ p[i] = q[i] /\ p[i] \in Text
        BY <1>1, <2>1, <3>1
      <4>2. ~ (i > Len(p))
        BY <1>1, <4>1
      <4> QED BY <2>4, <4>1, <4>2, IdentifierIrreflexive
    <3>2. CASE k < i
      BY <2>1, <2>4, <3>2
    <3>3. CASE i = k
      BY <1>1, <2>1, <2>4, <3>3
    <3> QED BY <2>1, <3>1, <3>2, <3>3
  <2> QED BY <2>1, <2>2, <2>3, <2>4
<1> QED BY <1>2, <1>3

LEMMA PreIrreflexive ==
  ASSUME NEW p \in Seq(Text)
  PROVE  ~ PreLess(p, p)
PROOF
<1>1. Differ(p, p) = {}
  BY DEF Differ
<1> QED BY <1>1 DEF PreLess

LEMMA PreTransitive ==
  ASSUME NEW p \in Seq(Text), NEW q \in Seq(Text), NEW r \in Seq(Text),
         PreLess(p, q), PreLess(q, r)
  PROVE  PreLess(p, r)
PROOF
<1>1. PICK i \in 1..Len(q) :
        /\ i - 1 <= Len(p) /\ \A j \in 1..(i - 1) : p[j] = q[j]
        /\ i > Len(p) \/ IdentifierLess(p[i], q[i])
  BY PreLessForm
<1>2. PICK k \in 1..Len(r) :
        /\ k - 1 <= Len(q) /\ \A j \in 1..(k - 1) : q[j] = r[j]
        /\ k > Len(q) \/ IdentifierLess(q[k], r[k])
  BY PreLessForm
<1>3. Len(p) \in Nat /\ Len(q) \in Nat /\ Len(r) \in Nat
  OBVIOUS
<1>4. SUFFICES
        \E n \in 1..Len(r) :
          /\ n - 1 <= Len(p) /\ \A j \in 1..(n - 1) : p[j] = r[j]
          /\ n > Len(p) \/ IdentifierLess(p[n], r[n])
  BY PreLessForm
<1>5. CASE i < k
  <2>1. i \in 1..Len(r) /\ q[i] = r[i]
    BY <1>1, <1>2, <1>3, <1>5
  <2>2. \A j \in 1..(i - 1) : p[j] = r[j]
    BY <1>1, <1>2, <1>3, <1>5
  <2> QED BY <1>1, <2>1, <2>2
<1>6. CASE k < i
  <2>1. k - 1 <= Len(p) /\ p[k] = q[k] /\ IdentifierLess(q[k], r[k])
    BY <1>1, <1>2, <1>3, <1>6
  <2>2. \A j \in 1..(k - 1) : p[j] = r[j]
    BY <1>1, <1>2, <1>3, <1>6
  <2> QED BY <1>2, <2>1, <2>2
<1>7. CASE i = k
  <2>1. \A j \in 1..(i - 1) : p[j] = r[j]
    BY <1>1, <1>2, <1>7
  <2>2. i > Len(p) \/ IdentifierLess(p[i], r[i])
    <3>1. SUFFICES ASSUME ~ (i > Len(p)) PROVE IdentifierLess(p[i], r[i])
      OBVIOUS
    <3>2. IdentifierLess(p[i], q[i]) /\ IdentifierLess(q[i], r[i])
      BY <1>1, <1>2, <1>3, <1>7, <3>1
    <3>3. p[i] \in Text /\ q[i] \in Text /\ r[i] \in Text
      BY <1>1, <1>2, <1>3, <1>7, <3>1
    <3> QED BY <3>2, <3>3, IdentifierTransitive
  <2> QED BY <1>1, <1>2, <1>7, <2>1, <2>2
<1> QED BY <1>1, <1>2, <1>5, <1>6, <1>7

LEMMA PreTotal ==
  ASSUME NEW p \in Seq(Text), NEW q \in Seq(Text), p # q
  PROVE  PreLess(p, q) \/ PreLess(q, p)
PROOF
<1>1. Differ(q, p) = Differ(p, q)
  BY DEF Differ
<1>2. CASE Differ(p, q) = {}
  <2>1. Len(p) < Len(q) \/ Len(q) < Len(p)
    BY <1>2, NoDifference
  <2> QED BY <1>1, <1>2, <2>1 DEF PreLess
<1>3. CASE Differ(p, q) # {}
  <2> DEFINE k == First(Differ(p, q))
  <2>1. k \in 1..Len(p) /\ k \in 1..Len(q) /\ p[k] # q[k]
    BY <1>3, FirstDiffers
  <2>2. /\ PreLess(p, q) <=> IdentifierLess(p[k], q[k])
        /\ PreLess(q, p) <=> IdentifierLess(q[k], p[k])
    BY <1>1, <1>3 DEF PreLess
  <2> HIDE DEF k
  <2>3. p[k] \in Text /\ q[k] \in Text
    BY <2>1
  <2> QED BY <2>1, <2>2, <2>3, IdentifierTotal
<1> QED BY <1>2, <1>3

-----------------------------------------------------------------------------
(* What Version.parse lets through, of any length and any characters.      *)
AllIdentifiers == {id \in Text : Parses(id)}
AllVersions    == [core: Nat, pre: Seq(AllIdentifiers)]

(* __lt__ is a strict total order of the versions: the updater's choice of *)
(* the greatest release, its "is it newer?" and its keys' windows do not   *)
(* depend on the order in which releases are compared.                     *)
THEOREM StrictTotalOrder ==
  /\ \A v \in AllVersions : ~ Less(v, v)
  /\ \A u, v, w \in AllVersions : Less(u, v) /\ Less(v, w) => Less(u, w)
  /\ \A v, w \in AllVersions : v # w => Less(v, w) \/ Less(w, v)
PROOF
<1>1. \A v \in AllVersions : v.core \in Nat /\ v.pre \in Seq(Text)
  <2>1. Seq(AllIdentifiers) \subseteq Seq(Text)
    BY DEF AllIdentifiers
  <2> QED BY <2>1 DEF AllVersions
<1>2. ASSUME NEW v \in AllVersions PROVE ~ Less(v, v)
  BY <1>1, PreIrreflexive DEF Less
<1>3. ASSUME NEW u \in AllVersions, NEW v \in AllVersions,
             NEW w \in AllVersions, Less(u, v), Less(v, w)
      PROVE  Less(u, w)
  <2>1. PreLess(u.pre, v.pre) /\ PreLess(v.pre, w.pre)
          => PreLess(u.pre, w.pre)
    BY <1>1, PreTransitive
  <2> QED BY <1>1, <1>3, <2>1 DEF Less
<1>4. ASSUME NEW v \in AllVersions, NEW w \in AllVersions, v # w
      PROVE  Less(v, w) \/ Less(w, v)
  <2>1. v.core # w.core \/ v.pre # w.pre
    BY <1>4 DEF AllVersions
  <2>2. v.pre # w.pre => PreLess(v.pre, w.pre) \/ PreLess(w.pre, v.pre)
    BY <1>1, PreTotal
  <2> QED BY <1>1, <2>1, <2>2 DEF Less
<1> QED BY <1>2, <1>3, <1>4

(* Any finite set of versions can be numbered so that __lt__ is < of the   *)
(* numbers: UpdateAgent, whose versions are natural numbers, leaves        *)
(* nothing out that the sort of the candidates (hostpanel-update.py:790)   *)
(* or "is it newer?" (:961) could tell apart.                              *)
THEOREM VersionsAreNumbers ==
  ASSUME NEW S \in SUBSET AllVersions, IsFiniteSet(S)
  PROVE  \E rank \in [S -> Nat] :
           \A v, w \in S : Less(v, w) <=> rank[v] < rank[w]
PROOF
<1> DEFINE Below(v) == {u \in S : Less(u, v)}
           rank == [v \in S |-> Cardinality(Below(v))]
<1>1. ASSUME NEW v \in S
      PROVE  IsFiniteSet(Below(v)) /\ Cardinality(Below(v)) \in Nat
  <2>1. Below(v) \in SUBSET S
    OBVIOUS
  <2> HIDE DEF Below
  <2> QED BY <2>1, FS_Subset, FS_CardinalityType
<1>2. ASSUME NEW v \in S, NEW w \in S, Less(v, w)
      PROVE  Cardinality(Below(v)) < Cardinality(Below(w))
  <2>1. Below(v) \in SUBSET Below(w)
    BY <1>2, StrictTotalOrder
  <2>2. v \in Below(w) /\ v \notin Below(v)
    BY <1>2, StrictTotalOrder
  <2>3. IsFiniteSet(Below(w)) /\ Cardinality(Below(w)) \in Nat
        /\ Cardinality(Below(v)) \in Nat
    BY <1>1
  <2> HIDE DEF Below
  <2>4. Cardinality(Below(v)) <= Cardinality(Below(w))
    BY <2>1, <2>3, FS_Subset
  <2>5. Cardinality(Below(v)) # Cardinality(Below(w))
    BY <2>1, <2>2, <2>3, FS_Subset
  <2> QED BY <2>3, <2>4, <2>5
<1>3. rank \in [S -> Nat]
  BY <1>1
<1>4. ASSUME NEW v \in S, NEW w \in S
      PROVE  Less(v, w) <=> rank[v] < rank[w]
  <2>1. rank[v] = Cardinality(Below(v)) /\ rank[w] = Cardinality(Below(w))
    OBVIOUS
  <2> HIDE DEF rank, Below
  <2>2. rank[v] \in Nat /\ rank[w] \in Nat
    BY <1>3
  <2>3. Less(v, w) \/ Less(w, v) \/ v = w
    BY StrictTotalOrder
  <2>4. (Less(v, w) => rank[v] < rank[w]) /\ (Less(w, v) => rank[w] < rank[v])
    BY <1>2, <2>1
  <2> QED BY <2>2, <2>3, <2>4
<1> HIDE DEF rank
<1> QED BY <1>3, <1>4

-----------------------------------------------------------------------------
(* The value of a number.                                                  *)

(* The function by which Values is defined exists.                         *)
LEMMA ValuesUnfold ==
  ASSUME NEW id \in Text
  PROVE  Values(id) = [n \in 0..Len(id) |->
           IF n = 0 THEN 0 ELSE 10 * Values(id)[n - 1] + (id[n] - Zero)]
PROOF
<1> DEFINE Unfolds(value, m) ==
             value = [n \in 0..m |->
               IF n = 0 THEN 0 ELSE 10 * value[n - 1] + (id[n] - Zero)]
           S == {m \in Nat : \E value : Unfolds(value, m)}
<1>1. 0 \in S
  <2>1. Unfolds([n \in 0..0 |-> 0], 0)
    OBVIOUS
  <2> QED BY <2>1
<1>2. ASSUME NEW m \in Nat, m \in S PROVE m + 1 \in S
  <2>1. PICK value : Unfolds(value, m)
    BY <1>2
  <2> HIDE DEF S
  <2> DEFINE longer ==
        [n \in 0..(m + 1) |->
           IF n = m + 1 THEN 10 * value[m] + (id[n] - Zero) ELSE value[n]]
  <2>2. \A n \in 0..m : longer[n] = value[n]
    OBVIOUS
  <2>3. ASSUME NEW n \in 0..(m + 1)
        PROVE  longer[n] = IF n = 0 THEN 0
                           ELSE 10 * longer[n - 1] + (id[n] - Zero)
    <3>1. CASE n = m + 1
      <4>1. longer[n] = 10 * value[m] + (id[n] - Zero)
        BY <3>1
      <4>2. n - 1 = m /\ n # 0 /\ longer[n - 1] = value[m]
        BY <2>2, <3>1
      <4> HIDE DEF longer
      <4> QED BY <4>1, <4>2
    <3>2. CASE n \in 0..m
      <4>1. value[n] = IF n = 0 THEN 0
                       ELSE 10 * value[n - 1] + (id[n] - Zero)
        BY <2>1, <3>2
      <4>2. longer[n] = value[n] /\ (n # 0 => longer[n - 1] = value[n - 1])
        BY <2>2, <3>2
      <4> HIDE DEF longer
      <4> QED BY <4>1, <4>2
    <3> QED BY <3>1, <3>2
  <2>4. Unfolds(longer, m + 1)
    <3>1. longer = [n \in 0..(m + 1) |-> longer[n]]
      OBVIOUS
    <3> HIDE DEF longer
    <3> QED BY <2>3, <3>1
  <2> HIDE DEF longer, Unfolds
  <2> QED BY <2>4 DEF S
<1>3. Len(id) \in S
  <2>1. Len(id) \in Nat
    BY DEF Text
  <2> HIDE DEF S
  <2> QED BY <1>1, <1>2, <2>1, Induction
<1>4. \E value : Unfolds(value, Len(id))
  BY <1>3
<1>5. Values(id) = CHOOSE value : Unfolds(value, Len(id))
  BY Zenon DEF Values
<1> HIDE DEF Unfolds
<1>6. Unfolds(Values(id), Len(id))
  BY <1>4, <1>5
<1> QED BY <1>6 DEF Unfolds

(* The digits of a number are 0 to 9, its values natural numbers.          *)
LEMMA ValuesStep ==
  ASSUME NEW id \in Text, IsNumeric(id)
  PROVE  /\ Values(id)[0] = 0
         /\ \A n \in 1..Len(id) : id[n] - Zero \in 0..9
         /\ \A n \in 0..Len(id) : Values(id)[n] \in Nat
         /\ \A n \in 1..Len(id) :
              Values(id)[n] = 10 * Values(id)[n - 1] + (id[n] - Zero)
PROOF
<1>1. Len(id) \in Nat /\ DOMAIN id = 1..Len(id)
  BY DEF Text
<1>2. \A n \in 1..Len(id) : id[n] - Zero \in 0..9
  <2> TAKE n \in 1..Len(id)
  <2>1. id[n] \in Nat
    BY DEF Text
  <2>2. Zero <= id[n] /\ id[n] <= Nine
    BY <1>1 DEF IsNumeric, IsDigit
  <2> QED BY <2>1, <2>2 DEF Zero, Nine
<1>3. /\ Values(id)[0] = 0
      /\ \A n \in 1..Len(id) :
           Values(id)[n] = 10 * Values(id)[n - 1] + (id[n] - Zero)
  <2> DEFINE value == Values(id)
  <2>1. value = [n \in 0..Len(id) |->
           IF n = 0 THEN 0 ELSE 10 * value[n - 1] + (id[n] - Zero)]
    BY ValuesUnfold
  <2> HIDE DEF value
  <2>2. value[0] = 0
    BY <1>1, <2>1
  <2>3. ASSUME NEW n \in 1..Len(id)
        PROVE  value[n] = 10 * value[n - 1] + (id[n] - Zero)
    <3>1. n \in 0..Len(id) /\ n # 0
      BY <1>1
    <3> QED BY <2>1, <3>1
  <2> QED BY <2>2, <2>3 DEF value
<1> DEFINE S == {n \in Nat : n <= Len(id) => Values(id)[n] \in Nat}
<1>4. 0 \in S
  BY <1>3
<1>5. ASSUME NEW n \in Nat, n \in S PROVE n + 1 \in S
  <2>1. SUFFICES ASSUME n + 1 <= Len(id) PROVE Values(id)[n + 1] \in Nat
    OBVIOUS
  <2>2. Values(id)[n] \in Nat /\ n + 1 \in 1..Len(id) /\ (n + 1) - 1 = n
    BY <1>1, <1>5, <2>1
  <2>3. Values(id)[n + 1] = 10 * Values(id)[n] + (id[n + 1] - Zero)
    BY <1>3, <2>2
  <2>4. id[n + 1] - Zero \in 0..9
    BY <1>2, <2>2
  <2> QED BY <2>2, <2>3, <2>4
<1>6. Nat \subseteq S
  <2> HIDE DEF S
  <2> QED BY <1>4, <1>5, Induction
<1> QED BY <1>1, <1>2, <1>3, <1>6

(* A number that does not begin with 0 counts from its first digit on.     *)
LEMMA ValuesPositive ==
  ASSUME NEW id \in Text, IsNumeric(id), Parses(id), Len(id) > 1
  PROVE  \A n \in 1..Len(id) : Values(id)[n] >= 1
PROOF
<1> DEFINE value == Values(id)
<1>1. /\ value[0] = 0
      /\ \A n \in 1..Len(id) : id[n] - Zero \in 0..9
      /\ \A n \in 0..Len(id) : value[n] \in Nat
      /\ \A n \in 1..Len(id) : value[n] = 10 * value[n - 1] + (id[n] - Zero)
  BY ValuesStep
<1> HIDE DEF value
<1>2. Len(id) \in Nat /\ id[1] \in Nat /\ id[1] # Zero
  BY DEF Text, Parses
<1> DEFINE S == {n \in Nat : n + 1 <= Len(id) => value[n + 1] >= 1}
<1>3. 0 \in S
  <2>1. 1 \in 1..Len(id) /\ 1 - 1 = 0
    BY <1>2
  <2>2. id[1] - Zero \in 0..9 /\ value[1] = 10 * value[0] + (id[1] - Zero)
    BY <1>1, <2>1
  <2>3. id[1] - Zero >= 1 /\ value[1] = id[1] - Zero
    BY <1>1, <1>2, <2>2 DEF Zero
  <2>4. value[0 + 1] >= 1
    BY <2>3
  <2> QED BY <2>4
<1>4. ASSUME NEW n \in Nat, n \in S PROVE n + 1 \in S
  <2>1. SUFFICES ASSUME n + 2 <= Len(id) PROVE value[n + 2] >= 1
    OBVIOUS
  <2>2. /\ n + 1 \in 0..Len(id) /\ n + 2 \in 1..Len(id) /\ (n + 2) - 1 = n + 1
        /\ value[n + 1] >= 1
    BY <1>2, <1>4, <2>1
  <2>3. value[n + 2] = 10 * value[n + 1] + (id[n + 2] - Zero)
    BY <1>1, <2>2
  <2>4. id[n + 2] - Zero \in 0..9 /\ value[n + 1] \in Nat
    BY <1>1, <2>2
  <2> QED BY <2>2, <2>3, <2>4
<1>5. Nat \subseteq S
  <2> HIDE DEF S
  <2> QED BY <1>3, <1>4, Induction
<1>6. ASSUME NEW n \in 1..Len(id) PROVE value[n] >= 1
  <2>1. n - 1 \in S /\ (n - 1) + 1 = n /\ n <= Len(id)
    BY <1>2, <1>5
  <2> QED BY <2>1
<1> QED BY <1>6 DEF value

(* One digit more never undoes what the digits before it decide.           *)
LEMMA NextDigit ==
  ASSUME NEW x \in Nat, NEW y \in Nat, NEW d \in 0..9, NEW e \in 0..9
  PROVE  /\ x < y => 10 * x + d < 10 * y + e
         /\ x = y /\ d < e => 10 * x + d < 10 * y + e
PROOF
  OBVIOUS

(* The shorter of two numbers is the smaller: aligned at the right, the    *)
(* longer is ahead from its first digit on.                                *)
LEMMA ShorterIsSmaller ==
  ASSUME NEW a \in AllIdentifiers, NEW b \in AllIdentifiers,
         IsNumeric(a), IsNumeric(b), Len(a) < Len(b)
  PROVE  Number(a) < Number(b)
PROOF
<1> DEFINE va == Values(a)
           vb == Values(b)
           more == Len(b) - Len(a)
<1>1. /\ a \in Text /\ a # <<>> /\ Len(a) \in Nat /\ Len(a) >= 1
      /\ b \in Text /\ Parses(b) /\ Len(b) \in Nat /\ Len(b) > 1
      /\ more \in 1..Len(b)
  BY DEF AllIdentifiers, Text, Parses
<1>2. /\ va[0] = 0
      /\ \A n \in 1..Len(a) : a[n] - Zero \in 0..9
      /\ \A n \in 0..Len(a) : va[n] \in Nat
      /\ \A n \in 1..Len(a) : va[n] = 10 * va[n - 1] + (a[n] - Zero)
  BY <1>1, ValuesStep
<1>3. /\ \A n \in 1..Len(b) : b[n] - Zero \in 0..9
      /\ \A n \in 0..Len(b) : vb[n] \in Nat
      /\ \A n \in 1..Len(b) : vb[n] = 10 * vb[n - 1] + (b[n] - Zero)
  BY <1>1, ValuesStep
<1>4. \A n \in 1..Len(b) : vb[n] >= 1
  BY <1>1, ValuesPositive
<1> HIDE DEF va, vb
<1> DEFINE S == {n \in Nat : n <= Len(a) => va[n] < vb[n + more]}
<1>5. 0 \in S
  <2>1. 0 + more = more /\ vb[more] >= 1 /\ vb[more] \in Nat
    BY <1>1, <1>3, <1>4
  <2> HIDE DEF more
  <2> QED BY <1>2, <2>1
<1>6. ASSUME NEW n \in Nat, n \in S PROVE n + 1 \in S
  <2>1. SUFFICES ASSUME n + 1 <= Len(a) PROVE va[n + 1] < vb[n + 1 + more]
    OBVIOUS
  <2>2. /\ va[n] < vb[n + more]
        /\ n \in 0..Len(a) /\ n + 1 \in 1..Len(a) /\ (n + 1) - 1 = n
        /\ n + more \in 0..Len(b) /\ n + 1 + more \in 1..Len(b)
        /\ (n + 1 + more) - 1 = n + more
    BY <1>1, <1>6, <2>1
  <2> HIDE DEF more
  <2>3. va[n + 1] = 10 * va[n] + (a[n + 1] - Zero)
    BY <1>2, <2>2
  <2>4. vb[n + 1 + more] = 10 * vb[n + more] + (b[n + 1 + more] - Zero)
    BY <1>3, <2>2
  <2>5. a[n + 1] - Zero \in 0..9 /\ b[n + 1 + more] - Zero \in 0..9
    BY <1>2, <1>3, <2>2
  <2>6. va[n] \in Nat /\ vb[n + more] \in Nat
    BY <1>2, <1>3, <2>2
  <2> QED BY <2>2, <2>3, <2>4, <2>5, <2>6, NextDigit
<1>7. Len(a) \in S
  <2> HIDE DEF S
  <2> QED BY <1>1, <1>5, <1>6, Induction
<1>8. va[Len(a)] < vb[Len(b)]
  BY <1>1, <1>7
<1> QED BY <1>8 DEF va, vb, Number

(* Of two numbers of one length the lesser text is the smaller.            *)
LEMMA LesserTextIsSmaller ==
  ASSUME NEW a \in AllIdentifiers, NEW b \in AllIdentifiers,
         IsNumeric(a), IsNumeric(b), Len(a) = Len(b), TextLess(a, b)
  PROVE  Number(a) < Number(b)
PROOF
<1> DEFINE va == Values(a)
           vb == Values(b)
<1>1. a \in Text /\ b \in Text /\ Len(a) \in Nat
  BY DEF AllIdentifiers, Text
<1>2. /\ va[0] = 0
      /\ \A n \in 1..Len(a) : a[n] - Zero \in 0..9
      /\ \A n \in 0..Len(a) : va[n] \in Nat
      /\ \A n \in 1..Len(a) : va[n] = 10 * va[n - 1] + (a[n] - Zero)
  BY <1>1, ValuesStep
<1>3. /\ vb[0] = 0
      /\ \A n \in 1..Len(a) : b[n] - Zero \in 0..9
      /\ \A n \in 0..Len(a) : vb[n] \in Nat
      /\ \A n \in 1..Len(a) : vb[n] = 10 * vb[n - 1] + (b[n] - Zero)
  BY <1>1, ValuesStep
<1>4. PICK i \in 1..Len(a) :
        (\A j \in 1..(i - 1) : a[j] = b[j]) /\ a[i] < b[i]
  BY <1>1 DEF TextLess
<1>5. a[i] - Zero < b[i] - Zero
  BY <1>1, <1>4 DEF Text, Zero
<1> HIDE DEF va, vb
<1> DEFINE S == {n \in Nat : n <= Len(a) =>
                   (n < i => va[n] = vb[n]) /\ (n >= i => va[n] < vb[n])}
<1>6. 0 \in S
  BY <1>2, <1>3
<1>7. ASSUME NEW n \in Nat, n \in S PROVE n + 1 \in S
  <2>1. SUFFICES ASSUME n + 1 <= Len(a)
                 PROVE  /\ n + 1 < i => va[n + 1] = vb[n + 1]
                        /\ n + 1 >= i => va[n + 1] < vb[n + 1]
    OBVIOUS
  <2>2. n \in 0..Len(a) /\ n + 1 \in 1..Len(a) /\ (n + 1) - 1 = n
    BY <1>1, <2>1
  <2>3. /\ va[n + 1] = 10 * va[n] + (a[n + 1] - Zero)
        /\ vb[n + 1] = 10 * vb[n] + (b[n + 1] - Zero)
        /\ a[n + 1] - Zero \in 0..9 /\ b[n + 1] - Zero \in 0..9
        /\ va[n] \in Nat /\ vb[n] \in Nat
    BY <1>2, <1>3, <2>2
  <2>4. (n < i => va[n] = vb[n]) /\ (n >= i => va[n] < vb[n])
    BY <1>7, <2>2
  <2>5. CASE n + 1 < i
    <3>1. n + 1 \in 1..(i - 1)
      BY <2>5
    <3>2. a[n + 1] = b[n + 1]
      BY <1>4, <3>1
    <3> QED BY <2>3, <2>4, <2>5, <3>2
  <2>6. CASE n + 1 = i
    <3>1. n < i /\ ~ (n + 1 < i)
      BY <2>6
    <3>2. va[n] = vb[n] /\ a[n + 1] - Zero < b[n + 1] - Zero
      BY <1>5, <2>4, <2>6, <3>1
    <3>3. va[n + 1] < vb[n + 1]
      BY <2>3, <3>2, NextDigit
    <3> QED BY <3>1, <3>3
  <2>7. CASE n >= i
    <3>1. va[n + 1] < vb[n + 1]
      BY <2>3, <2>4, <2>7, NextDigit
    <3>2. ~ (n + 1 < i)
      BY <2>7
    <3> QED BY <3>1, <3>2
  <2> QED BY <2>5, <2>6, <2>7
<1>8. Len(a) \in S
  <2> HIDE DEF S
  <2> QED BY <1>1, <1>6, <1>7, Induction
<1>9. va[Len(a)] < vb[Len(a)]
  BY <1>1, <1>8
<1> QED BY <1>9 DEF va, vb, Number

(* Length, then text, is the order of numbers: because parse refuses       *)
(* leading zeroes.                                                         *)
LEMMA NumericAgrees ==
  ASSUME NEW a \in AllIdentifiers, NEW b \in AllIdentifiers,
         IsNumeric(a), IsNumeric(b)
  PROVE  NumericLess(a, b) <=> Number(a) < Number(b)
PROOF
<1>1. a \in Text /\ b \in Text /\ Len(a) \in Nat /\ Len(b) \in Nat
  BY DEF AllIdentifiers, Text
<1>2. NumericLess(a, b) => Number(a) < Number(b)
  BY ShorterIsSmaller, LesserTextIsSmaller DEF NumericLess
<1>3. NumericLess(b, a) => Number(b) < Number(a)
  BY ShorterIsSmaller, LesserTextIsSmaller DEF NumericLess
<1>4. a # b => NumericLess(a, b) \/ NumericLess(b, a)
  BY <1>1, TextTotal DEF NumericLess
<1>5. Number(a) \in Nat /\ Number(b) \in Nat
  BY <1>1, ValuesStep DEF Number
<1> QED BY <1>2, <1>3, <1>4, <1>5

-----------------------------------------------------------------------------
(* The words of the standard: "the same up to i", "the longer of two lists *)
(* that agree".                                                            *)

LEMMA SameBeginning ==
  ASSUME NEW S, NEW p \in Seq(S), NEW q \in Seq(S),
         NEW i \in Nat, i <= Len(p), i <= Len(q)
  PROVE  SubSeq(p, 1, i) = SubSeq(q, 1, i) <=> \A j \in 1..i : p[j] = q[j]
PROOF
<1>1. /\ SubSeq(p, 1, i) \in Seq(S) /\ Len(SubSeq(p, 1, i)) = i
      /\ \A j \in 1..i : SubSeq(p, 1, i)[j] = p[j]
  OBVIOUS
<1>2. /\ SubSeq(q, 1, i) \in Seq(S) /\ Len(SubSeq(q, 1, i)) = i
      /\ \A j \in 1..i : SubSeq(q, 1, i)[j] = q[j]
  OBVIOUS
<1> QED BY <1>1, <1>2

LEMMA ShorterBeginning ==
  ASSUME NEW S, NEW p \in Seq(S), NEW q \in Seq(S)
  PROVE  IsStrictPrefix(p, q) <=>
           Len(p) < Len(q) /\ \A j \in 1..Len(p) : p[j] = q[j]
PROOF
<1>1. Len(p) \in Nat /\ Len(q) \in Nat
  OBVIOUS
<1>2. Len(p) <= Len(q) =>
        (SubSeq(p, 1, Len(p)) = SubSeq(q, 1, Len(p))
           <=> \A j \in 1..Len(p) : p[j] = q[j])
  BY <1>1, SameBeginning
<1>3. Len(p) = Len(q) /\ (\A j \in 1..Len(p) : p[j] = q[j]) => p = q
  OBVIOUS
<1> QED BY <1>1, <1>2, <1>3 DEF IsStrictPrefix, IsPrefix

(* The code's form of a lexicographic order is the standard's.             *)
LEMMA WordAgrees ==
  ASSUME NEW a \in Text, NEW b \in Text
  PROVE  TextLess(a, b) <=>
           \/ IsStrictPrefix(a, b)
           \/ \E i \in DOMAIN a \cap DOMAIN b :
                SubSeq(a, 1, i - 1) = SubSeq(b, 1, i - 1) /\ a[i] < b[i]
PROOF
<1>1. /\ a \in Seq(Nat) /\ b \in Seq(Nat)
      /\ Len(a) \in Nat /\ Len(b) \in Nat
      /\ DOMAIN a = 1..Len(a) /\ DOMAIN b = 1..Len(b)
  BY DEF Text
<1>2. IsStrictPrefix(a, b) <=>
        Len(a) < Len(b) /\ \A j \in 1..Len(a) : a[j] = b[j]
  BY <1>1, ShorterBeginning
<1>3. \A i \in DOMAIN a \cap DOMAIN b :
        SubSeq(a, 1, i - 1) = SubSeq(b, 1, i - 1)
          <=> \A j \in 1..(i - 1) : a[j] = b[j]
  BY <1>1, SameBeginning
<1>4. ASSUME TextLess(a, b)
      PROVE  \/ IsStrictPrefix(a, b)
             \/ \E i \in DOMAIN a \cap DOMAIN b :
                  SubSeq(a, 1, i - 1) = SubSeq(b, 1, i - 1) /\ a[i] < b[i]
  <2>1. PICK i \in 1..Len(b) :
          /\ i - 1 <= Len(a) /\ \A j \in 1..(i - 1) : a[j] = b[j]
          /\ i > Len(a) \/ a[i] < b[i]
    BY <1>4 DEF TextLess
  <2>2. CASE i > Len(a)
    BY <1>1, <1>2, <2>1, <2>2
  <2>3. CASE ~ (i > Len(a))
    <3>1. i \in DOMAIN a \cap DOMAIN b /\ a[i] < b[i]
      BY <1>1, <2>1, <2>3
    <3> QED BY <1>3, <2>1, <3>1
  <2> QED BY <2>2, <2>3
<1>5. ASSUME IsStrictPrefix(a, b) PROVE TextLess(a, b)
  <2>1. /\ Len(a) + 1 \in 1..Len(b) /\ Len(a) + 1 > Len(a)
        /\ Len(a) + 1 - 1 <= Len(a)
        /\ \A j \in 1..(Len(a) + 1 - 1) : a[j] = b[j]
    BY <1>1, <1>2, <1>5
  <2> QED BY <2>1 DEF TextLess
<1>6. ASSUME NEW i \in DOMAIN a \cap DOMAIN b,
             SubSeq(a, 1, i - 1) = SubSeq(b, 1, i - 1), a[i] < b[i]
      PROVE  TextLess(a, b)
  <2>1. i \in 1..Len(b) /\ i - 1 <= Len(a) /\ \A j \in 1..(i - 1) : a[j] = b[j]
    BY <1>1, <1>3, <1>6
  <2> QED BY <1>6, <2>1 DEF TextLess
<1> QED BY <1>4, <1>5, <1>6

LEMMA IdentifierAgrees ==
  ASSUME NEW a \in AllIdentifiers, NEW b \in AllIdentifiers
  PROVE  IdentifierLess(a, b) <=> IdentifierPrecedes(a, b)
PROOF
<1>1. a \in Text /\ b \in Text
  BY DEF AllIdentifiers
<1>2. IsNumeric(a) \in BOOLEAN /\ IsNumeric(b) \in BOOLEAN
  BY DEF IsNumeric
<1>3. CASE IsNumeric(a) /\ IsNumeric(b)
  BY <1>3, NumericAgrees DEF IdentifierLess, IdentifierPrecedes
<1>4. CASE IsNumeric(a) /\ ~ IsNumeric(b)
  BY <1>4 DEF IdentifierLess, IdentifierPrecedes
<1>5. CASE ~ IsNumeric(a) /\ IsNumeric(b)
  BY <1>5 DEF IdentifierLess, IdentifierPrecedes
<1>6. CASE ~ IsNumeric(a) /\ ~ IsNumeric(b)
  <2>1. IdentifierLess(a, b) <=> TextLess(a, b)
    BY <1>2, <1>6 DEF IdentifierLess
  <2>2. IdentifierPrecedes(a, b) <=>
          \/ IsStrictPrefix(a, b)
          \/ \E i \in DOMAIN a \cap DOMAIN b :
               SubSeq(a, 1, i - 1) = SubSeq(b, 1, i - 1) /\ a[i] < b[i]
    BY <1>6 DEF IdentifierPrecedes
  <2> QED BY <1>1, <2>1, <2>2, WordAgrees
<1> QED BY <1>2, <1>3, <1>4, <1>5, <1>6

LEMMA ListAgrees ==
  ASSUME NEW p \in Seq(AllIdentifiers), NEW q \in Seq(AllIdentifiers)
  PROVE  PreLess(p, q) <=>
           \/ IsStrictPrefix(p, q)
           \/ \E i \in DOMAIN p \cap DOMAIN q :
                /\ SubSeq(p, 1, i - 1) = SubSeq(q, 1, i - 1)
                /\ IdentifierPrecedes(p[i], q[i])
PROOF
<1>1. /\ p \in Seq(Text) /\ q \in Seq(Text)
      /\ Len(p) \in Nat /\ Len(q) \in Nat
      /\ DOMAIN p = 1..Len(p) /\ DOMAIN q = 1..Len(q)
  <2>1. Seq(AllIdentifiers) \subseteq Seq(Text)
    BY DEF AllIdentifiers
  <2> QED BY <2>1
<1>2. IsStrictPrefix(p, q) <=>
        Len(p) < Len(q) /\ \A j \in 1..Len(p) : p[j] = q[j]
  BY <1>1, ShorterBeginning
<1>3. \A i \in DOMAIN p \cap DOMAIN q :
        /\ SubSeq(p, 1, i - 1) = SubSeq(q, 1, i - 1)
             <=> \A j \in 1..(i - 1) : p[j] = q[j]
        /\ IdentifierLess(p[i], q[i]) <=> IdentifierPrecedes(p[i], q[i])
  <2> TAKE i \in DOMAIN p \cap DOMAIN q
  <2>1. SubSeq(p, 1, i - 1) = SubSeq(q, 1, i - 1)
          <=> \A j \in 1..(i - 1) : p[j] = q[j]
    BY <1>1, SameBeginning
  <2>2. p[i] \in AllIdentifiers /\ q[i] \in AllIdentifiers
    BY <1>1
  <2> QED BY <2>1, <2>2, IdentifierAgrees
<1>4. PreLess(p, q) <=>
        \E i \in 1..Len(q) :
          /\ i - 1 <= Len(p) /\ \A j \in 1..(i - 1) : p[j] = q[j]
          /\ i > Len(p) \/ IdentifierLess(p[i], q[i])
  BY <1>1, PreLessForm
<1>5. ASSUME PreLess(p, q)
      PROVE  \/ IsStrictPrefix(p, q)
             \/ \E i \in DOMAIN p \cap DOMAIN q :
                  /\ SubSeq(p, 1, i - 1) = SubSeq(q, 1, i - 1)
                  /\ IdentifierPrecedes(p[i], q[i])
  <2>1. PICK i \in 1..Len(q) :
          /\ i - 1 <= Len(p) /\ \A j \in 1..(i - 1) : p[j] = q[j]
          /\ i > Len(p) \/ IdentifierLess(p[i], q[i])
    BY <1>4, <1>5
  <2>2. CASE i > Len(p)
    BY <1>1, <1>2, <2>1, <2>2
  <2>3. CASE ~ (i > Len(p))
    <3>1. i \in DOMAIN p \cap DOMAIN q /\ IdentifierLess(p[i], q[i])
      BY <1>1, <2>1, <2>3
    <3> QED BY <1>3, <2>1, <3>1
  <2> QED BY <2>2, <2>3
<1>6. ASSUME IsStrictPrefix(p, q) PROVE PreLess(p, q)
  <2>1. /\ Len(p) + 1 \in 1..Len(q) /\ Len(p) + 1 > Len(p)
        /\ Len(p) + 1 - 1 <= Len(p)
        /\ \A j \in 1..(Len(p) + 1 - 1) : p[j] = q[j]
    BY <1>1, <1>2, <1>6
  <2> QED BY <1>4, <2>1
<1>7. ASSUME NEW i \in DOMAIN p \cap DOMAIN q,
             SubSeq(p, 1, i - 1) = SubSeq(q, 1, i - 1),
             IdentifierPrecedes(p[i], q[i])
      PROVE  PreLess(p, q)
  <2>1. /\ i \in 1..Len(q) /\ i - 1 <= Len(p)
        /\ \A j \in 1..(i - 1) : p[j] = q[j]
        /\ IdentifierLess(p[i], q[i])
    BY <1>1, <1>3, <1>7
  <2> QED BY <1>4, <2>1
<1> QED BY <1>5, <1>6, <1>7

(* __lt__ is the precedence of SemVer 2.0.0 on every two versions that     *)
(* parse, whatever the number, the length and the characters of their      *)
(* identifiers.                                                            *)
THEOREM SameOrder ==
  ASSUME NEW v \in AllVersions, NEW w \in AllVersions
  PROVE  Less(v, w) <=> Precedes(v, w)
PROOF
<1>1. /\ v.core \in Nat /\ w.core \in Nat
      /\ v.pre \in Seq(AllIdentifiers) /\ w.pre \in Seq(AllIdentifiers)
  BY DEF AllVersions
<1> DEFINE LaterList == \/ IsStrictPrefix(v.pre, w.pre)
                        \/ \E i \in DOMAIN v.pre \cap DOMAIN w.pre :
                             /\ SubSeq(v.pre, 1, i - 1) =
                                  SubSeq(w.pre, 1, i - 1)
                             /\ IdentifierPrecedes(v.pre[i], w.pre[i])
<1>2. PreLess(v.pre, w.pre) <=> LaterList
  BY <1>1, ListAgrees
<1>3. Precedes(v, w) <=>
        \/ v.core < w.core
        \/ v.core = w.core /\ v.pre # <<>> /\ (w.pre = <<>> \/ LaterList)
  BY Zenon DEF Precedes
<1> HIDE DEF LaterList
<1> QED BY <1>1, <1>2, <1>3 DEF Less

-----------------------------------------------------------------------------
(* The versions of the specification are among those.                      *)
LEMMA VersionsParse == Versions \subseteq AllVersions
PROOF
<1>1. \A S : \A n \in Nat : SeqOf(S, n) \subseteq Seq(S)
  BY DEF SeqOf
<1>2. MaxChars \in Nat /\ MaxIds \in Nat /\ MaxCore \in Nat
  BY BoundsAssumption
<1>3. Identifiers \subseteq AllIdentifiers
  <2>1. SeqOf(Chars, MaxChars) \subseteq Seq(Chars)
    BY <1>1, <1>2
  <2>2. Seq(Chars) \subseteq Text
    <3>1. Chars \subseteq Nat
      BY CharsAssumption
    <3>2. ASSUME NEW s \in Seq(Chars) PROVE s \in Seq(Nat)
      <4>1. s \in [1..Len(s) -> Chars] /\ Len(s) \in Nat
        OBVIOUS
      <4>2. s \in [1..Len(s) -> Nat]
        BY <3>1, <4>1
      <4> QED BY <4>1, <4>2
    <3> QED BY <3>2 DEF Text
  <2> QED BY <2>1, <2>2 DEF Identifiers, AllIdentifiers
<1>4. Words \subseteq AllIdentifiers
  BY WordsAssumption DEF AllIdentifiers, Text
<1>5. Lists \subseteq Seq(AllIdentifiers)
  <2>1. SeqOf(Identifiers, 1) \subseteq Seq(Identifiers)
    BY <1>1
  <2>2. SeqOf(Words, MaxIds) \subseteq Seq(Words)
    BY <1>1, <1>2
  <2>3. Seq(Identifiers) \subseteq Seq(AllIdentifiers)
    BY <1>3
  <2>4. Seq(Words) \subseteq Seq(AllIdentifiers)
    BY <1>4
  <2> QED BY <2>1, <2>2, <2>3, <2>4 DEF Lists
<1>6. 0..MaxCore \subseteq Nat
  BY <1>2
<1> QED BY <1>5, <1>6 DEF Versions, AllVersions

Picked == picks \in Seq(Versions)

LEMMA PickedAlways == Spec => []Picked
PROOF
<1>1. Init => Picked
  <2>1. ASSUME NEW v \in Versions PROVE <<v>> \in Seq(Versions)
    OBVIOUS
  <2> QED BY <2>1 DEF Init, Picked
<1>2. Picked /\ [Pick]_picks => Picked'
  BY DEF Picked, Pick
<1> QED BY <1>1, <1>2, PTL DEF Spec

(* UPDATES.md:50 "strict semantic-version form": the updater orders the    *)
(* versions it parses as the standard does.                                *)
THEOREM AlwaysAgrees == Spec => []AgreesWithSemVer
PROOF
<1>1. Picked => AgreesWithSemVer
  <2>1. SUFFICES ASSUME Picked, Len(picks) = 2
                 PROVE  Less(picks[1], picks[2]) <=>
                          Precedes(picks[1], picks[2])
    BY DEF AgreesWithSemVer
  <2>2. picks[1] \in Versions /\ picks[2] \in Versions
    BY <2>1 DEF Picked
  <2> QED BY <2>2, VersionsParse, SameOrder
<1> QED BY <1>1, PickedAlways, PTL
=============================================================================
