---------------------------- MODULE CiWatchProofs ----------------------------
(***************************************************************************)
(* Proofs about CiWatch, for any number of workflows, runs and pages: the  *)
(* watch never opens the gate on nothing, on another commit's runs, or     *)
(* with a failure that no newer run of its workflow has superseded; and    *)
(* what any command concludes is true of the newest runs there were when   *)
(* its last listing began, for any page size and number of pages.          *)
(*                                                                         *)
(* The second needs what happens between two pages: a listing is newest    *)
(* first, so as long as nothing is deleted and no other commit pushes in,  *)
(* rows only move towards its end (Shifts), and a run that was there from  *)
(* the beginning and stands before the next page has been read (Reading).  *)
(***************************************************************************)
EXTENDS CiWatch, FiniteSetTheorems, FunctionTheorems, TLAPS

-----------------------------------------------------------------------------
(* Positions in a listing that is newest first.                            *)

(* How many members of a set of numbers are greater than i.                *)
Above(S, i) == Cardinality({j \in S : j > i})

LEMMA AboveBounds ==
    ASSUME NEW n \in Nat, NEW S \in SUBSET (1..n), NEW i \in S
    PROVE  /\ IsFiniteSet(S) /\ Cardinality(S) \in Nat
           /\ Above(S, i) \in Nat /\ Above(S, i) < Cardinality(S)
           /\ \A k \in S : i < k => Above(S, k) < Above(S, i)
<1>1. IsFiniteSet(1..n)
  BY FS_Interval
<1>2. IsFiniteSet(S) /\ Cardinality(S) \in Nat
  BY <1>1, FS_Subset, FS_CardinalityType
<1>3. \A k \in S : IsFiniteSet({j \in S : j > k}) /\ Above(S, k) \in Nat
  <2> TAKE k \in S
  <2>1. {j \in S : j > k} \in SUBSET S
    OBVIOUS
  <2> QED
    BY <1>2, <2>1, FS_Subset, FS_CardinalityType DEF Above
<1>4. Above(S, i) < Cardinality(S)
  <2>1. {j \in S : j > i} \in SUBSET S /\ i \notin {j \in S : j > i}
    OBVIOUS
  <2>2. {j \in S : j > i} # S
    BY <2>1
  <2>3. Above(S, i) <= Cardinality(S) /\ Above(S, i) # Cardinality(S)
    BY <1>2, <2>1, <2>2, FS_Subset DEF Above
  <2>4. Above(S, i) \in Nat
    BY <1>3
  <2> QED
    BY <1>2, <2>3, <2>4
<1>5. ASSUME NEW k \in S, i < k PROVE Above(S, k) < Above(S, i)
  <2>1. i \in Nat /\ k \in Nat /\ \A j \in S : j \in Nat
    OBVIOUS
  <2>2. {j \in S : j > k} \in SUBSET {j \in S : j > i}
    <3>1. \A j \in S : j > k => j > i
      BY <1>5, <2>1
    <3> QED
      BY <3>1
  <2>3. k \in {j \in S : j > i} /\ k \notin {j \in S : j > k}
    BY <1>5, <2>1
  <2>4. {j \in S : j > k} # {j \in S : j > i}
    BY <2>3
  <2>5. Above(S, k) <= Above(S, i) /\ Above(S, k) # Above(S, i)
    BY <1>3, <2>2, <2>4, FS_Subset DEF Above
  <2>6. Above(S, i) \in Nat /\ Above(S, k) \in Nat
    BY <1>3
  <2> QED
    BY <2>5, <2>6
<1> QED
  BY <1>2, <1>3, <1>4, <1>5

(* Every position of the listing is that of one member.                    *)
LEMMA Positions ==
    ASSUME NEW n \in Nat, NEW S \in SUBSET (1..n)
    PROVE  /\ IsFiniteSet(S) /\ Cardinality(S) \in Nat
           /\ \A i \in S : Above(S, i) \in Nat /\ Above(S, i) < Cardinality(S)
           /\ \A i, k \in S : i < k => Above(S, k) < Above(S, i)
           /\ \A i, k \in S : Above(S, i) = Above(S, k) => i = k
           /\ \A i, k \in S : Above(S, k) < Above(S, i) => i < k
           /\ \A m \in Nat : m < Cardinality(S) => \E i \in S : Above(S, i) = m
<1> DEFINE c == Cardinality(S)
           T == 0..(c - 1)
           f == [i \in S |-> Above(S, i)]
<1>1. IsFiniteSet(S) /\ c \in Nat
  <2>1. IsFiniteSet(1..n)
    BY FS_Interval
  <2> QED
    BY <2>1, FS_Subset, FS_CardinalityType
<1>2. \A i \in S : /\ Above(S, i) \in Nat /\ Above(S, i) < c
                   /\ \A k \in S : i < k => Above(S, k) < Above(S, i)
  <2> TAKE i \in S
  <2> QED
    BY AboveBounds
<1>3. S \subseteq Nat
  OBVIOUS
<1> HIDE DEF c
<1>4. \A i, k \in S : Above(S, i) = Above(S, k) => i = k
  <2> TAKE i, k \in S
  <2>1. i < k \/ k < i \/ i = k
    BY <1>3
  <2>2. Above(S, i) \in Nat /\ Above(S, k) \in Nat
    BY <1>2
  <2> QED
    BY <1>2, <2>1, <2>2
<1>5. f \in [S -> T]
  <2>1. \A i \in S : Above(S, i) \in T
    BY <1>1, <1>2
  <2> QED
    BY <2>1
<1>6. f \in Injection(S, T)
  BY <1>4, <1>5, Fun_IsInj
<1>7. IsFiniteSet(T) /\ Cardinality(T) = c
  BY <1>1, FS_Interval
<1> HIDE DEF T
<1>8. f \in Surjection(S, T)
  BY <1>6, <1>7, FS_Injection DEF c
<1>9. \A m \in T : \E i \in S : f[i] = m
  <2> HIDE DEF f
  <2> QED
    BY <1>8, Fun_SurjectionProperties
<1>10. \A m \in T : \E i \in S : Above(S, i) = m
  BY <1>9
<1>11. \A m \in Nat : m < c => m \in T
  BY <1>1 DEF T
<1>12. \A i, k \in S : Above(S, k) < Above(S, i) => i < k
  <2> TAKE i, k \in S
  <2>1. i < k \/ k < i \/ i = k
    BY <1>3
  <2>2. Above(S, i) \in Nat /\ Above(S, k) \in Nat
    BY <1>2
  <2> QED
    BY <1>2, <2>1, <2>2
<1> QED
  BY <1>1, <1>2, <1>4, <1>10, <1>11, <1>12 DEF c

(* A set of numbers that is not empty has a greatest member, and a least.  *)
LEMMA Extremes ==
    ASSUME NEW n \in Nat, NEW S \in SUBSET (1..n), S # {}
    PROVE  /\ \E i \in S : \A j \in S : j <= i
           /\ \E i \in S : \A j \in S : i <= j
<1>1. Cardinality(S) \in Nat /\ Cardinality(S) # 0
  BY Positions, FS_EmptySet
<1>2. PICK a \in S : Above(S, a) = 0
  <2>1. 0 \in Nat /\ 0 < Cardinality(S)
    BY <1>1
  <2> QED
    BY <2>1, Positions
<1>3. PICK b \in S : Above(S, b) = Cardinality(S) - 1
  <2>1. Cardinality(S) - 1 \in Nat /\ Cardinality(S) - 1 < Cardinality(S)
    BY <1>1
  <2> QED
    BY <2>1, Positions
<1>4. ASSUME NEW j \in S PROVE j <= a
  <2>1. Above(S, j) \in Nat /\ (a < j => Above(S, j) < Above(S, a))
    BY Positions
  <2> QED
    BY <1>2, <2>1
<1>5. ASSUME NEW j \in S PROVE b <= j
  <2>1. Above(S, j) \in Nat /\ Above(S, j) < Cardinality(S)
    BY Positions
  <2>2. ~ (Above(S, b) < Above(S, j))
    BY <1>1, <1>3, <2>1
  <2>3. ~ (j < b)
    BY <2>2, Positions
  <2> QED
    BY <2>3
<1> QED
  BY <1>4, <1>5

-----------------------------------------------------------------------------
(* Pages of the listing.                                                   *)

LEMMA Rows ==
    /\ Listing \in SUBSET (1..MaxRuns) /\ MaxRuns \in Nat
    /\ \A i : Newer(i) = Above(Listing, i)
<1>1. Listing \in SUBSET (1..MaxRuns) /\ MaxRuns \in Nat
  BY CiAssumption DEF Listing, Existing, Ids
<1>2. \A i : Newer(i) = Above(Listing, i)
  BY DEF Newer, Above
<1> QED
  BY <1>1, <1>2

(* A page further on is RUNS_PAGE_SIZE rows further on.                    *)
LEMMA PageStarts ==
    ASSUME NEW p \in Nat \ {0}
    PROVE  /\ (p - 1) * RUNS_PAGE_SIZE \in Nat /\ p * RUNS_PAGE_SIZE \in Nat
           /\ p * RUNS_PAGE_SIZE = (p - 1) * RUNS_PAGE_SIZE + RUNS_PAGE_SIZE
<1>1. ASSUME NEW q \in Nat, NEW s \in Nat
      PROVE  q * s \in Nat /\ (q + 1) * s \in Nat /\ (q + 1) * s = q * s + s
  OBVIOUS
<1>2. p - 1 \in Nat /\ (p - 1) + 1 = p /\ RUNS_PAGE_SIZE \in Nat
  BY CiAssumption
<1>3. (p - 1) * RUNS_PAGE_SIZE \in Nat /\ ((p - 1) + 1) * RUNS_PAGE_SIZE \in Nat
      /\ ((p - 1) + 1) * RUNS_PAGE_SIZE = (p - 1) * RUNS_PAGE_SIZE + RUNS_PAGE_SIZE
  BY <1>1, <1>2
<1> QED
  BY <1>2, <1>3

(* A page is no longer than RUNS_PAGE_SIZE, and that long if the listing   *)
(* reaches past it; if it is empty the listing ends before it.             *)
LEMMA PageRows ==
    ASSUME NEW p \in Nat \ {0}
    PROVE  /\ Cardinality(Page(p)) \in Nat /\ Cardinality(Page(p)) <= RUNS_PAGE_SIZE
           /\ p * RUNS_PAGE_SIZE <= Cardinality(Listing) => Cardinality(Page(p)) = RUNS_PAGE_SIZE
           /\ Cardinality(Page(p)) = 0 =>
                \A i \in Listing : Newer(i) < (p - 1) * RUNS_PAGE_SIZE
<1> DEFINE base == (p - 1) * RUNS_PAGE_SIZE
           top == p * RUNS_PAGE_SIZE
           P == Page(p)
           T == base..(top - 1)
           f == [i \in P |-> Newer(i)]
<1>1. base \in Nat /\ top \in Nat /\ top = base + RUNS_PAGE_SIZE /\ RUNS_PAGE_SIZE \in Nat \ {0}
  BY PageStarts, CiAssumption
<1>2. P = {i \in Listing : base <= Newer(i) /\ Newer(i) < top}
  BY DEF Page
<1> HIDE DEF base, top, P
<1>3. /\ Cardinality(Listing) \in Nat /\ IsFiniteSet(Listing)
      /\ \A i \in Listing : Newer(i) \in Nat /\ Newer(i) < Cardinality(Listing)
      /\ \A i, k \in Listing : Newer(i) = Newer(k) => i = k
      /\ \A m \in Nat : m < Cardinality(Listing) => \E i \in Listing : Newer(i) = m
  <2>1. \A i \in Listing : Newer(i) = Above(Listing, i)
    BY Rows
  <2>2. /\ Cardinality(Listing) \in Nat /\ IsFiniteSet(Listing)
        /\ \A i \in Listing : Above(Listing, i) \in Nat /\ Above(Listing, i) < Cardinality(Listing)
        /\ \A i, k \in Listing : Above(Listing, i) = Above(Listing, k) => i = k
        /\ \A m \in Nat : m < Cardinality(Listing) => \E i \in Listing : Above(Listing, i) = m
    BY Rows, Positions
  <2> QED
    BY <2>1, <2>2
<1>4. IsFiniteSet(T) /\ Cardinality(T) = RUNS_PAGE_SIZE
  BY <1>1, FS_Interval
<1>5. \A m : m \in T <=> m \in Nat /\ base <= m /\ m < top
  BY <1>1
<1>6. f \in [P -> T]
  <2>1. \A i \in P : Newer(i) \in T
    BY <1>2, <1>3, <1>5
  <2> QED
    BY <2>1
<1> HIDE DEF T
<1>7. f \in Injection(P, T)
  <2>1. \A i, k \in P : f[i] = f[k] => i = k
    BY <1>2, <1>3
  <2> QED
    BY <1>6, <2>1, Fun_IsInj
<1>8. IsFiniteSet(P) /\ Cardinality(P) <= RUNS_PAGE_SIZE /\ Cardinality(P) \in Nat
  BY <1>4, <1>7, FS_Injection, FS_CardinalityType
<1>9. ASSUME top <= Cardinality(Listing) PROVE Cardinality(P) = RUNS_PAGE_SIZE
  <2>1. ASSUME NEW m \in T PROVE \E i \in P : f[i] = m
    <3>1. m \in Nat /\ m < Cardinality(Listing) /\ base <= m /\ m < top
      BY <1>1, <1>3, <1>5, <1>9
    <3>2. PICK i \in Listing : Newer(i) = m
      BY <1>3, <3>1
    <3> QED
      BY <1>2, <3>1, <3>2
  <2>2. f \in Surjection(P, T)
    BY <1>6, <2>1, Fun_IsSurj
  <2> QED
    BY <1>4, <1>7, <2>2, FS_Injection
<1>10. ASSUME Cardinality(P) = 0, NEW i \in Listing PROVE Newer(i) < base
  <2>1. P = {}
    BY <1>8, <1>10, FS_EmptySet
  <2>2. SUFFICES ASSUME ~ (Newer(i) < base) PROVE FALSE
    OBVIOUS
  <2>3. base < Cardinality(Listing)
    BY <1>1, <1>3, <2>2
  <2>4. PICK k \in Listing : Newer(k) = base
    BY <1>1, <1>3, <2>3
  <2>5. k \in P
    BY <1>1, <1>2, <2>4
  <2> QED
    BY <2>1, <2>5
<1> QED
  BY <1>8, <1>9, <1>10 DEF P, base, top

(* After a page without a run of the commit, behind one that has some,     *)
(* there are no more, if the commit's runs are together.                   *)
LEMMA NoMore ==
    ASSUME Together, NEW p \in Nat \ {0}, \A i \in Page(p) : ~Mine(i),
           NEW j0 \in Listing, Mine(j0), Newer(j0) < (p - 1) * RUNS_PAGE_SIZE,
           NEW i0 \in Listing, Mine(i0)
    PROVE  Newer(i0) < (p - 1) * RUNS_PAGE_SIZE
<1> DEFINE base == (p - 1) * RUNS_PAGE_SIZE
           top == p * RUNS_PAGE_SIZE
           M == {i \in Listing : Mine(i) /\ top <= Newer(i)}
<1>1. base \in Nat /\ top \in Nat /\ top = base + RUNS_PAGE_SIZE /\ RUNS_PAGE_SIZE \in Nat \ {0}
  BY PageStarts, CiAssumption
<1>2. Page(p) = {i \in Listing : base <= Newer(i) /\ Newer(i) < top}
  BY DEF Page
<1>3. Newer(j0) < base
  OBVIOUS
<1>13. top <= Cardinality(Listing) => Cardinality(Page(p)) = RUNS_PAGE_SIZE
  BY PageRows
<1> HIDE DEF base, top
<1>4. /\ Cardinality(Listing) \in Nat /\ IsFiniteSet(Listing) /\ Listing \subseteq Nat
      /\ \A i \in Listing : Newer(i) \in Nat /\ Newer(i) < Cardinality(Listing)
      /\ \A i, k \in Listing : i < k => Newer(k) < Newer(i)
      /\ \A i, k \in Listing : Newer(k) < Newer(i) => i < k
  <2>1. \A i \in Listing : Newer(i) = Above(Listing, i)
    BY Rows
  <2>2. Listing \subseteq Nat
    BY Rows
  <2> QED
    BY <2>1, <2>2, Rows, Positions
<1>5. \A i \in Listing : Mine(i) => Newer(i) < base \/ i \in M
  <2> TAKE i \in Listing
  <2>1. Newer(i) \in Nat
    BY <1>4
  <2>2. i \notin Page(p) \/ ~Mine(i)
    OBVIOUS
  <2> QED
    BY <1>1, <1>2, <2>1, <2>2
<1>6. M = {}
  <2>1. SUFFICES ASSUME M # {} PROVE FALSE
    OBVIOUS
  <2>2. M \in SUBSET (1..MaxRuns) /\ MaxRuns \in Nat
    BY Rows
  <2>3. PICK i \in M : \A k \in M : k <= i
    BY <2>1, <2>2, Extremes
  <2> DEFINE Q == {k \in Listing : Mine(k) /\ i < k}
  <2>4. i \in Listing /\ Mine(i) /\ top <= Newer(i) /\ Newer(i) \in Nat
        /\ Newer(i) < Cardinality(Listing)
    BY <1>4, <2>3
  <2>5. j0 \in Q
    <3>1. Newer(j0) \in Nat /\ Newer(j0) < Newer(i)
      BY <1>1, <1>3, <1>4, <2>4
    <3>2. i < j0
      BY <1>4, <2>4, <3>1
    <3> QED
      BY <3>2
  <2>6. Q \in SUBSET (1..MaxRuns) /\ MaxRuns \in Nat
    BY Rows
  <2>7. PICK j \in Q : \A k \in Q : j <= k
    BY <2>5, <2>6, Extremes
  <2>8. j \in Listing /\ Mine(j) /\ i < j /\ i \in Nat /\ j \in Nat
    BY <1>4, <2>4, <2>7
  <2>9. Newer(j) < base
    <3>1. j \notin M
      BY <2>3, <2>8
    <3> QED
      BY <1>5, <2>8, <3>1
  <2>10. ~ \E k \in Listing : Mine(k) /\ i < k /\ k < j
    <3>1. SUFFICES ASSUME NEW k \in Listing, Mine(k), i < k, k < j PROVE FALSE
      OBVIOUS
    <3>2. k \in Q /\ k \in Nat
      BY <1>4, <3>1
    <3> QED
      BY <2>7, <2>8, <3>1, <3>2
  <2> DEFINE B == {k \in Listing : i < k /\ k < j}
  <2>11. Cardinality(B) < RUNS_PAGE_SIZE
    BY <2>4, <2>8, <2>10 DEF Together
  <2>12. Page(p) \in SUBSET B
    <3>1. ASSUME NEW k \in Page(p) PROVE k \in B
      <4>1. k \in Listing /\ base <= Newer(k) /\ Newer(k) < top /\ Newer(k) \in Nat
        BY <1>2, <1>4
      <4>2. Newer(k) < Newer(i) /\ Newer(j) < Newer(k)
        BY <1>1, <1>4, <2>4, <2>8, <2>9, <4>1
      <4>3. i < k /\ k < j
        BY <1>4, <2>4, <2>8, <4>1, <4>2
      <4> QED
        BY <4>1, <4>3
    <3> QED
      BY <3>1
  <2>13. IsFiniteSet(B)
    <3>1. B \in SUBSET Listing
      OBVIOUS
    <3> QED
      BY <1>4, <3>1, FS_Subset
  <2>14. Cardinality(Page(p)) <= Cardinality(B) /\ Cardinality(B) \in Nat
    BY <2>12, <2>13, FS_Subset, FS_CardinalityType
  <2>15. Cardinality(Page(p)) = RUNS_PAGE_SIZE
    BY <1>1, <1>4, <1>13, <2>4
  <2> HIDE DEF B
  <2> QED
    BY <1>1, <2>11, <2>14, <2>15
<1> QED
  BY <1>5, <1>6 DEF base

USE CiAssumption

-----------------------------------------------------------------------------
(* Types.                                                                  *)

LEMMA PageFinite == ASSUME NEW n PROVE Cardinality(Page(n)) \in Nat /\ Page(n) \subseteq Existing
<1>1. IsFiniteSet(Ids)
  BY FS_Interval DEF Ids
<1>2. Page(n) \subseteq Ids /\ Page(n) \subseteq Existing
  BY DEF Page, Listing, Existing
<1>3. IsFiniteSet(Page(n))
  BY <1>1, <1>2, FS_Subset
<1> QED
  BY <1>2, <1>3, FS_CardinalityType

LEMMA Kinds ==
    ASSUME TypeOK, NEW i \in Existing
    PROVE  i \in Ids /\ runs[i] \in Run
BY DEF TypeOK, Existing

LEMMA InitIInv == Init => IInv
<1> SUFFICES ASSUME Init PROVE IInv
  OBVIOUS
<1>1. TypeOK
  <2>1. 1 \in 1..RUNS_SCAN_PAGES
    OBVIOUS
  <2>2. Nowhere \in [Ids -> Run \union {None}] /\ Nowhere \in [Ids -> Snapshot \union {None}]
    BY DEF Nowhere
  <2> QED
    BY <2>1, <2>2 DEF Init, TypeOK
<1>2. Truthful /\ Concluding /\ GateOpensOnRuns
  BY DEF Init, Truthful, Found, Nowhere, Concluding, GateOpensOnRuns
<1> QED
  BY <1>1, <1>2 DEF IInv

(* What the server does leaves alone what the command has read.            *)
ServerStep == Appear \/ \E i \in Ids : Finish(i) \/ Rerun(i) \/ Delete(i)

LEMMA ServerType == ASSUME TypeOK, ServerStep PROVE TypeOK'
<1>1. CASE Appear
  BY <1>1 DEF Appear, TypeOK, client, Run
<1>2. ASSUME NEW i \in Ids, Finish(i) PROVE TypeOK'
  <2>1. PICK c \in Conclusions : runs' = [runs EXCEPT ![i].end = c]
    BY <1>2 DEF Finish
  <2>2. runs[i] \in Run
    BY <1>2, Kinds DEF Finish
  <2>3. [runs[i] EXCEPT !.end = c] \in Run
    BY <2>2 DEF Run
  <2> QED
    BY <1>2, <2>1, <2>3 DEF Finish, TypeOK, client
<1>3. ASSUME NEW i \in Ids, Rerun(i) PROVE TypeOK'
  <2>1. [runs[i] EXCEPT !.end = None] \in Run
    BY <1>3, Kinds DEF Rerun, Run
  <2> QED
    BY <1>3, <2>1 DEF Rerun, TypeOK, client
<1>4. ASSUME NEW i \in Ids, Delete(i) PROVE TypeOK'
  <2>1. [runs[i] EXCEPT !.gone = TRUE] \in Run
    BY <1>4, Kinds DEF Delete, Run
  <2> QED
    BY <1>4, <2>1 DEF Delete, TypeOK, client
<1> QED
  BY <1>1, <1>2, <1>3, <1>4 DEF ServerStep

(* A run keeps its commit and its workflow.                                *)
Lasting ==
    \A i \in Ids : runs[i] # None =>
        runs'[i] # None /\ runs'[i].mine = runs[i].mine /\ runs'[i].workflow = runs[i].workflow

LEMMA ServerLasting == ASSUME TypeOK, ServerStep PROVE Lasting /\ UNCHANGED client /\ pc # "done"
<1>1. CASE Appear
  BY <1>1 DEF Appear, Lasting, TypeOK, Watched
<1>2. ASSUME NEW i \in Ids, Finish(i) \/ Rerun(i) \/ Delete(i)
      PROVE  Lasting /\ UNCHANGED client /\ pc # "done"
  <2>1. runs[i] \in Run
    BY <1>2, Kinds DEF Finish, Rerun, Delete
  <2>2. \/ \E c \in Conclusions \union {None} : runs' = [runs EXCEPT ![i].end = c]
        \/ runs' = [runs EXCEPT ![i].gone = TRUE]
    BY <1>2 DEF Finish, Rerun, Delete
  <2>3. \A j \in Ids \ {i} : runs'[j] = runs[j]
    BY <2>2 DEF TypeOK
  <2>4. runs'[i] # None /\ runs'[i].mine = runs[i].mine /\ runs'[i].workflow = runs[i].workflow
    <3>1. CASE \E c \in Conclusions \union {None} : runs' = [runs EXCEPT ![i].end = c]
      <4>1. PICK c \in Conclusions \union {None} : runs'[i] = [runs[i] EXCEPT !.end = c]
        BY <3>1 DEF TypeOK
      <4> QED
        BY <2>1, <4>1 DEF Run
    <3>2. CASE runs' = [runs EXCEPT ![i].gone = TRUE]
      <4>1. runs'[i] = [runs[i] EXCEPT !.gone = TRUE]
        BY <3>2 DEF TypeOK
      <4> QED
        BY <2>1, <4>1 DEF Run
    <3> QED
      BY <2>2, <3>1, <3>2
  <2> QED
    BY <1>2, <2>3, <2>4 DEF Lasting, Finish, Rerun, Delete, Watched
<1> QED
  BY <1>1, <1>2 DEF ServerStep

-----------------------------------------------------------------------------
(* The command.                                                            *)

LEMMA NowhereType == Nowhere \in [Ids -> Snapshot \union {None}]
BY DEF Nowhere

LEMMA ReadPageType == ASSUME TypeOK, ReadPage PROVE TypeOK'
<1> DEFINE got == Cardinality(Page(page))
<1>1. got \in Nat /\ Kept \subseteq Existing
  BY PageFinite DEF Kept
<1>2. \A i \in Kept : i \in Ids /\ runs[i] \in Run
  BY <1>1, Kinds
<1>3. found' \in [Ids -> Snapshot \union {None}]
  <2>1. \A i \in Kept : [workflow |-> runs[i].workflow, end |-> runs[i].end] \in Snapshot
    BY <1>2 DEF Run, Snapshot
  <2>2. found' = [i \in Ids |-> IF found[i] = None /\ i \in Kept
                                THEN [workflow |-> runs[i].workflow, end |-> runs[i].end]
                                ELSE found[i]]
    BY DEF ReadPage
  <2> QED
    BY <2>1, <2>2 DEF TypeOK
<1>4. listed' \in Nat /\ page' \in 1..RUNS_SCAN_PAGES
  BY <1>1 DEF ReadPage, TypeOK
<1>5. pc' \in {"scanning", "judging"} /\ capped' \in BOOLEAN
  BY DEF ReadPage, TypeOK
<1>6. before' \subseteq Ids /\ blind' \in BOOLEAN
  BY DEF ReadPage, TypeOK, Existing
<1> QED
  BY <1>3, <1>4, <1>5, <1>6 DEF ReadPage, TypeOK, server

LEMMA FailType == ASSUME TypeOK, Fail PROVE TypeOK'
<1>1. 1 \in 1..RUNS_SCAN_PAGES
  OBVIOUS
<1> QED
  BY <1>1, NowhereType DEF Fail, TypeOK, server

(* A turn of the judge: it goes to sleep, to the report, to the reruns, or *)
(* ends.                                                                   *)
LEMMA JudgeSteps ==
    ASSUME TypeOK, Judge
    PROVE  /\ pc = "judging" /\ UNCHANGED <<server, cmd, before, blind>>
           /\ \/ Sleep
              \/ /\ pc' \in {"reporting", "rerunning"} /\ todo' \subseteq Ids
                 /\ UNCHANGED <<page, listed, found, capped, waited, outcome>>
                 /\ pc' = "reporting" /\ cmd = "watch" => Selected # {}
              \/ \E o \in {"no_runs", "nothing"} : End(o)
<1>1. In("failed") \subseteq Ids
  BY DEF In, Selected, latest_per_workflow, Found
<1>2. CASE cmd = "watch" /\ JudgeWatch
  BY <1>2 DEF Judge, JudgeWatch, Goto, TypeOK
<1>3. CASE cmd \in {"status", "status_all"} /\ Goto("reporting") /\ UNCHANGED todo
  BY <1>3 DEF Judge, Goto, TypeOK
<1>4. CASE cmd = "rerun" /\ JudgeRerun
  BY <1>1, <1>4 DEF Judge, JudgeRerun, Goto, TypeOK
<1> QED
  BY <1>2, <1>3, <1>4 DEF Judge

LEMMA JudgeType == ASSUME TypeOK, Judge PROVE TypeOK'
<1>1. 1 \in 1..RUNS_SCAN_PAGES
  OBVIOUS
<1>2. CASE Sleep
  <2>1. UNCHANGED <<runs, filtering, changes, cmd, before, blind>>
    BY JudgeSteps DEF server
  <2>2. waited' \in Nat /\ page' = 1 /\ listed' = 0 /\ found' = Nowhere /\ capped' = FALSE
    BY <1>2 DEF Sleep, TypeOK
  <2>3. pc' = "scanning" /\ UNCHANGED <<todo, outcome>>
    BY <1>2 DEF Sleep
  <2> QED
    BY <1>1, <2>1, <2>2, <2>3, NowhereType DEF TypeOK
<1>3. CASE /\ pc' \in {"reporting", "rerunning"} /\ todo' \subseteq Ids
           /\ UNCHANGED <<page, listed, found, capped, waited, outcome>>
  <2>1. UNCHANGED <<runs, filtering, changes, cmd, before, blind>>
    BY JudgeSteps DEF server
  <2> QED
    BY <1>3, <2>1 DEF TypeOK
<1>4. CASE \E o \in {"no_runs", "nothing"} : End(o)
  BY <1>4, JudgeSteps DEF End, TypeOK, server
<1> QED
  BY <1>2, <1>3, <1>4, JudgeSteps

(* The report.                                                             *)
LEMMA ReportEnds ==
    ASSUME Report
    PROVE  /\ pc = "reporting" /\ UNCHANGED <<server, cmd, before, blind>>
           /\ \E o \in {"ok", "failed", "pending", "error"} : End(o) /\ (o = "ok" => verdict = "ok")
<1>1. verdict \in {"ok", "failed", "pending"}
  BY DEF verdict
<1> QED
  BY <1>1 DEF Report

LEMMA ReportType == ASSUME TypeOK, Report PROVE TypeOK'
BY ReportEnds DEF End, TypeOK, server

LEMMA RerunSteps ==
    ASSUME TypeOK, RequestRerun
    PROVE  /\ UNCHANGED <<filtering, changes, cmd, before, blind, found>> /\ pc = "rerunning"
           /\ Lasting /\ runs' \in [Ids -> Run \union {None}]
           /\ \/ \E o \in {"reran", "error"} : End(o)
              \/ Goto("rerunning") /\ todo' \subseteq Ids
<1>1. CASE UNCHANGED runs /\ \E o \in {"reran", "error"} : End(o)
  BY <1>1 DEF RequestRerun, Lasting, TypeOK, End
<1>2. CASE \E i \in todo : /\ i \in Existing /\ runs' = [runs EXCEPT ![i].end = None]
                           /\ Goto("rerunning") /\ todo' = todo \ {i}
  <2>1. PICK i \in Existing : /\ runs' = [runs EXCEPT ![i].end = None]
                              /\ Goto("rerunning") /\ todo' = todo \ {i}
    BY <1>2
  <2>2. i \in Ids /\ runs[i] \in Run
    BY Kinds
  <2>3. runs'[i] = [runs[i] EXCEPT !.end = None]
    BY <2>1, <2>2 DEF TypeOK
  <2>4. runs'[i] \in Run /\ runs'[i].mine = runs[i].mine /\ runs'[i].workflow = runs[i].workflow
    BY <2>2, <2>3 DEF Run
  <2>5. \A j \in Ids \ {i} : runs'[j] = runs[j]
    BY <2>1 DEF TypeOK
  <2>6. runs' \in [Ids -> Run \union {None}]
    BY <2>1, <2>2, <2>3, <2>4 DEF TypeOK
  <2>7. Lasting
    BY <2>4, <2>5 DEF Lasting
  <2> QED
    BY <2>1, <2>6, <2>7 DEF RequestRerun, Goto, TypeOK
<1> QED
  BY <1>1, <1>2 DEF RequestRerun

LEMMA RerunType == ASSUME TypeOK, RequestRerun PROVE TypeOK'
<1>1. CASE \E o \in {"reran", "error"} : End(o)
  BY <1>1, RerunSteps DEF End, TypeOK
<1>2. CASE Goto("rerunning") /\ todo' \subseteq Ids
  BY <1>2, RerunSteps DEF Goto, TypeOK
<1> QED
  BY <1>1, <1>2, RerunSteps

-----------------------------------------------------------------------------
(* What was found stays true of the runs.                                  *)
LEMMA TruthLasts ==
    ASSUME TypeOK, Truthful, Lasting, NEW S \in SUBSET Ids,
           \A i \in Ids : found'[i] # None => found'[i] = found[i]
    PROVE  Truthful'
BY DEF Truthful, Found, Lasting, Mine

LEMMA ReadPageTruth == ASSUME TypeOK, Truthful, ReadPage PROVE Truthful'
<1>1. \A i \in Kept : i \in Ids /\ runs[i] \in Run /\ Mine(i)
  BY PageFinite, Kinds DEF Kept
<1>2. found' = [i \in Ids |-> IF found[i] = None /\ i \in Kept
                              THEN [workflow |-> runs[i].workflow, end |-> runs[i].end]
                              ELSE found[i]]
  BY DEF ReadPage
<1>3. runs' = runs
  BY DEF ReadPage, server
<1>4. ASSUME NEW i \in Ids, found'[i] # None
      PROVE  runs[i] # None /\ Mine(i) /\ runs[i].workflow = found'[i].workflow
  BY <1>1, <1>2, <1>4 DEF Truthful, Found
<1> QED
  BY <1>3, <1>4 DEF Truthful, Found, Mine

LEMMA NoneFailing == None \notin Failing
OBVIOUS

(* The verdict is ok: nothing selected failed or is pending.               *)
LEMMA VerdictOk ==
    ASSUME verdict = "ok", NEW i \in Selected
    PROVE  found[i].end \notin Failing \union {None}
<1>1. In("failed") = {} /\ In("pending") = {}
  BY DEF verdict
<1>2. ci_state(i) # "failed" /\ ci_state(i) # "pending"
  BY <1>1 DEF In
<1>3. found[i].end = None => ci_state(i) = "pending"
  BY NoneFailing DEF ci_state, Failing
<1>4. found[i].end \in Failing => ci_state(i) = "failed"
  <2>1. ASSUME found[i].end \in Failing PROVE found[i].end # None
    BY <2>1, NoneFailing
  <2> QED
    BY <2>1 DEF ci_state, Failing
<1> QED
  BY <1>2, <1>3, <1>4

LEMMA GateOpens ==
    ASSUME IInv, Report, cmd = "watch", verdict = "ok"
    PROVE  /\ \E i \in Found : Mine(i) /\ runs[i].workflow \in Wanted
           /\ \A i \in Selected : found[i].end \notin Failing \union {None}
           /\ \A i \in Found :
                runs[i].workflow \in Wanted /\ found[i].end \in Failing =>
                    \E k \in Found : k > i /\ runs[k].workflow = runs[i].workflow
<1> USE DEF IInv
<1>1. PICK i \in Selected : TRUE
  BY DEF Report, Concluding
<1>2. i \in Found /\ found[i].workflow \in Wanted
  BY DEF Selected, latest_per_workflow
<1>3. Mine(i) /\ runs[i].workflow \in Wanted
  BY <1>2 DEF Truthful
<1>4. ASSUME NEW j \in Found, runs[j].workflow \in Wanted, found[j].end \in Failing
      PROVE  \E k \in Found : k > j /\ runs[k].workflow = runs[j].workflow
  <2>1. j \notin Selected
    BY <1>4, VerdictOk
  <2>2. found[j].workflow \in Wanted
    BY <1>4 DEF Truthful
  <2>3. PICK k \in Found : found[k].workflow = found[j].workflow /\ ~(k <= j)
    BY <2>1, <2>2 DEF Selected, latest_per_workflow
  <2>4. k > j
    BY <2>3 DEF Found, Ids
  <2> QED
    BY <2>3, <2>4 DEF Truthful
<1> QED
  BY <1>2, <1>3, <1>4, VerdictOk

LEMMA ServerKeeps == ASSUME IInv, ServerStep PROVE IInv'
<1> USE DEF IInv
<1>1. TypeOK'
  BY ServerType
<1>2. Lasting /\ UNCHANGED client /\ pc # "done"
  BY ServerLasting
<1>3. UNCHANGED <<cmd, pc, found, outcome>>
  BY <1>2 DEF client
<1>4. Truthful'
  BY <1>2, <1>3, TruthLasts
<1>5. Concluding'
  BY <1>3 DEF Concluding, Selected, latest_per_workflow, Found
<1>6. outcome' = None
  BY <1>2, <1>3 DEF Concluding
<1>7. GateOpensOnRuns'
  BY <1>6 DEF GateOpensOnRuns
<1> QED
  BY <1>1, <1>4, <1>5, <1>7

LEMMA ReadPageKeeps == ASSUME IInv, ReadPage PROVE IInv'
<1> USE DEF IInv
<1>1. pc' \in {"scanning", "judging"} /\ outcome' = None
  BY DEF ReadPage, Concluding
<1>2. Concluding' /\ GateOpensOnRuns'
  BY <1>1 DEF Concluding, GateOpensOnRuns
<1> QED
  BY <1>2, ReadPageType, ReadPageTruth

LEMMA FailKeeps == ASSUME IInv, Fail PROVE IInv'
<1> USE DEF IInv
<1>1. found' = Nowhere /\ pc' = "done" /\ outcome' = "error"
  BY DEF Fail
<1>2. Truthful'
  BY <1>1 DEF Truthful, Found, Nowhere
<1>3. Concluding' /\ GateOpensOnRuns'
  BY <1>1 DEF Concluding, GateOpensOnRuns
<1> QED
  BY <1>2, <1>3, FailType

LEMMA JudgeKeeps == ASSUME IInv, Judge PROVE IInv'
<1> USE DEF IInv
<1>1. runs' = runs /\ cmd' = cmd /\ outcome = None
  BY JudgeSteps DEF server, Concluding
<1>2. TypeOK'
  BY JudgeType
<1>3. CASE Sleep
  <2>1. found' = Nowhere /\ pc' = "scanning" /\ outcome' = None
    BY <1>1, <1>3 DEF Sleep
  <2> QED
    BY <1>2, <2>1 DEF Truthful, Found, Nowhere, Concluding, GateOpensOnRuns
<1>4. CASE /\ pc' \in {"reporting", "rerunning"}
           /\ UNCHANGED <<page, listed, found, capped, waited, outcome>>
           /\ pc' = "reporting" /\ cmd = "watch" => Selected # {}
  <2>1. Truthful'
    BY <1>1, <1>4 DEF Truthful, Found, Mine
  <2>2. Selected' = Selected
    BY <1>4 DEF Selected, latest_per_workflow, Found
  <2>3. Concluding' /\ GateOpensOnRuns'
    BY <1>1, <1>4, <2>2 DEF Concluding, GateOpensOnRuns
  <2> QED
    BY <1>2, <2>1, <2>3
<1>5. CASE \E o \in {"no_runs", "nothing"} : End(o)
  <2>1. found' = found /\ pc' = "done" /\ outcome' # "ok"
    BY <1>5 DEF End
  <2>2. Truthful'
    BY <1>1, <2>1 DEF Truthful, Found, Mine
  <2>3. Concluding' /\ GateOpensOnRuns'
    BY <2>1 DEF Concluding, GateOpensOnRuns
  <2> QED
    BY <1>2, <2>2, <2>3
<1> QED
  BY <1>3, <1>4, <1>5, JudgeSteps

LEMMA ReportKeeps == ASSUME IInv, Report PROVE IInv'
<1> USE DEF IInv
<1>1. PICK o \in {"ok", "failed", "pending", "error"} : End(o) /\ (o = "ok" => verdict = "ok")
  BY ReportEnds
<1>2. runs' = runs /\ cmd' = cmd /\ found' = found /\ pc' = "done" /\ outcome' = o
  BY <1>1, ReportEnds DEF End, server
<1>3. Truthful' /\ Concluding'
  BY <1>2 DEF Truthful, Found, Mine, Concluding
<1>4. GateOpensOnRuns'
  <2> SUFFICES ASSUME cmd = "watch", o = "ok" PROVE GateOpensOnRuns'
    BY <1>2 DEF GateOpensOnRuns
  <2>1. verdict = "ok"
    BY <1>1
  <2> QED
    BY <1>2, <2>1, GateOpens DEF GateOpensOnRuns, Found, Mine, Selected, latest_per_workflow
<1> QED
  BY <1>3, <1>4, ReportType

LEMMA RerunKeeps == ASSUME IInv, RequestRerun PROVE IInv'
<1> USE DEF IInv
<1>1. Lasting /\ found' = found /\ pc = "rerunning" /\ outcome = None
  BY RerunSteps DEF Concluding
<1>2. Truthful'
  BY <1>1, TruthLasts
<1>3. \/ pc' = "done" /\ outcome' # "ok"
      \/ pc' = "rerunning" /\ outcome' = None
  BY <1>1, RerunSteps DEF End, Goto
<1>4. Concluding' /\ GateOpensOnRuns'
  BY <1>3 DEF Concluding, GateOpensOnRuns
<1> QED
  BY <1>2, <1>4, RerunType

LEMMA NextKeeps == IInv /\ [Next]_vars => IInv'
<1> SUFFICES ASSUME IInv, [Next]_vars PROVE IInv'
  OBVIOUS
<1>1. CASE ServerStep
  BY <1>1, ServerKeeps
<1>2. CASE Client \/ Fail
  BY <1>2, ReadPageKeeps, JudgeKeeps, ReportKeeps, RerunKeeps, FailKeeps DEF Client
<1>3. CASE UNCHANGED vars
  BY <1>3 DEF vars, server, client, IInv, TypeOK, Truthful, Concluding, GateOpensOnRuns, Found,
              Mine, Selected, latest_per_workflow
<1> QED
  BY <1>1, <1>2, <1>3 DEF Next, ServerStep

-----------------------------------------------------------------------------
(* IInv holds in every state, for any number of workflows, runs and pages. *)
THEOREM Inductive == Spec => []IInv
BY InitIInv, NextKeeps, PTL DEF Spec

(* Every variable keeps its type.                                          *)
THEOREM TypeCorrect == Spec => []TypeOK
<1>1. IInv => TypeOK
  BY DEF IInv
<1> QED
  BY <1>1, Inductive, PTL

(* The watch reports success of runs that were there, of the commit and of *)
(* a workflow asked for, all of them finished and none failed but for ones *)
(* a newer run supersedes (follow, view::verdict).                         *)
THEOREM GateHolds == Spec => []GateOpensOnRuns
<1>1. IInv => GateOpensOnRuns
  BY DEF IInv
<1> QED
  BY <1>1, Inductive, PTL

-----------------------------------------------------------------------------
(* The server's steps, as the listing sees them.                           *)

(* Rows only move towards the end, and a row of the commit that has moved  *)
(* has one in its former place or before it.                               *)
Shifts ==
    /\ Listing \subseteq Listing'
    /\ \A i \in Listing : runs'[i].mine = runs[i].mine /\ Newer(i) <= Above(Listing', i)
    /\ \A j \in Listing : Mine(j) =>
          \E k \in Listing' : runs'[k].mine /\ Above(Listing', k) <= Newer(j)

LEMMA AppearShifts ==
    ASSUME TypeOK, InOrder, Appear, ~blind'
    PROVE  /\ ~blind /\ before' = before /\ Shifts
<1>1. PICK n \in Ids, w \in Workflows, mine \in BOOLEAN :
        /\ runs[n] = None /\ \A j \in Ids : j < n => runs[j] # None
        /\ runs' = [runs EXCEPT ![n] =
                     [workflow |-> w, mine |-> mine, end |-> None, gone |-> FALSE]]
        /\ blind' = (blind \/ ~mine) /\ filtering' = filtering /\ before' = before
  BY DEF Appear
<1>2. mine = TRUE /\ ~blind
  BY <1>1
<1> DEFINE new == [workflow |-> w, mine |-> mine, end |-> None, gone |-> FALSE]
<1>3. new # None /\ new.mine /\ ~new.gone
  <2>1. new \in Run
    BY DEF Run
  <2> QED
    BY <1>2, <2>1, CiAssumption
<1>4. runs'[n] = new /\ \A k \in Ids \ {n} : runs'[k] = runs[k]
  BY <1>1 DEF TypeOK
<1> HIDE DEF new
<1>5. n \notin Listing /\ n \in Listing' /\ \A k \in Ids \ {n} : k \in Listing <=> k \in Listing'
  BY <1>1, <1>3, <1>4 DEF Listing, Existing, Mine
<1>6. Listing \subseteq Ids /\ Listing' \subseteq Ids /\ Ids \subseteq Nat
  BY DEF Listing, Existing, Ids
<1>7. Listing \subseteq Listing' /\ Listing' = Listing \union {n}
  BY <1>5, <1>6
<1>8. \A i, j \in Ids : j < i /\ runs[i] # None => runs[j] # None
  BY DEF InOrder
<1>9. \A k \in Listing : k < n /\ k # n
  <2> TAKE k \in Listing
  <2>1. runs[k] # None /\ k \in Nat /\ n \in Nat /\ k \in Ids /\ k # n
    BY <1>1, <1>6 DEF Listing, Existing
  <2>2. ~ (n < k)
    BY <1>1, <1>8, <2>1
  <2> QED
    BY <2>1, <2>2
<1>10. ASSUME NEW i \in Listing PROVE Newer(i) <= Above(Listing', i)
  <2>1. {j \in Listing : j > i} \in SUBSET {j \in Listing' : j > i}
    BY <1>7
  <2>2. IsFiniteSet({j \in Listing' : j > i})
    <3>1. IsFiniteSet(Ids)
      BY CiAssumption, FS_Interval DEF Ids
    <3>2. {j \in Listing' : j > i} \in SUBSET Ids
      BY <1>6
    <3> QED
      BY <3>1, <3>2, FS_Subset
  <2> QED
    BY <2>1, <2>2, FS_Subset DEF Newer, Above
<1>11. Above(Listing', n) = 0
  <2>1. \A j \in Listing' : ~ (j > n)
    <3>1. n \in Nat
      BY <1>6
    <3>2. \A j \in Listing : j \in Nat /\ j < n
      BY <1>6, <1>9
    <3> QED
      BY <1>7, <3>1, <3>2
  <2>2. {j \in Listing' : j > n} = {}
    BY <2>1
  <2> QED
    BY <2>2, FS_EmptySet DEF Above
<1>12. \A j \in Listing : Newer(j) \in Nat
  <2>1. \A j \in Listing : Newer(j) = Above(Listing, j)
    BY Rows
  <2>2. \A j \in Listing : Above(Listing, j) \in Nat
    BY Rows, Positions
  <2> QED
    BY <2>1, <2>2
<1>13. \A j \in Listing : runs'[j].mine = runs[j].mine
  BY <1>4, <1>5, <1>6
<1>14. \A j \in Listing : n \in Listing' /\ runs'[n].mine /\ Above(Listing', n) <= Newer(j)
  BY <1>3, <1>4, <1>5, <1>11, <1>12
<1>15. Shifts
  BY <1>7, <1>10, <1>13, <1>14 DEF Shifts
<1> QED
  BY <1>1, <1>2, <1>15

(* A run that ends or is rerun stays where it is.                          *)
LEMMA EndChanges ==
    ASSUME TypeOK, NEW i \in Existing, NEW c \in Conclusions \union {None},
           runs' = [runs EXCEPT ![i].end = c], filtering' = filtering
    PROVE  /\ \A k \in Ids : runs'[k] = None <=> runs[k] = None
           /\ \A k \in Ids : runs[k] # None => runs'[k].mine = runs[k].mine
           /\ Listing' = Listing
<1>1. i \in Ids /\ runs[i] \in Run /\ runs[i] # None
  BY Kinds DEF Existing
<1>2. runs'[i] = [runs[i] EXCEPT !.end = c] /\ \A k \in Ids \ {i} : runs'[k] = runs[k]
  BY <1>1 DEF TypeOK
<1>3. /\ runs'[i].mine = runs[i].mine /\ runs'[i].gone = runs[i].gone /\ runs'[i] \in Run
  BY <1>1, <1>2 DEF Run
<1>4. runs'[i] # None
  BY <1>3, CiAssumption
<1>5. \A k \in Ids : k \in Listing <=> k \in Listing'
  BY <1>1, <1>2, <1>3, <1>4 DEF Listing, Existing, Mine
<1>6. Listing \subseteq Ids /\ Listing' \subseteq Ids
  BY DEF Listing, Existing
<1> QED
  BY <1>1, <1>2, <1>3, <1>4, <1>5, <1>6

(* Ids are given out in order.                                             *)
LEMMA ServerOrder ==
    ASSUME TypeOK, InOrder, ServerStep
    PROVE  \A i, j \in Ids : j < i /\ runs'[i] # None => runs'[j] # None
<1>1. \A i, j \in Ids : j < i /\ runs[i] # None => runs[j] # None
  BY DEF InOrder
<1>2. Lasting
  BY ServerLasting
<1>3. CASE Appear
  <2>1. PICK n \in Ids : /\ \A j \in Ids : j < n => runs[j] # None
                         /\ \A k \in Ids \ {n} : runs'[k] = runs[k]
    BY <1>3 DEF Appear, TypeOK
  <2>2. ASSUME NEW i \in Ids, NEW j \in Ids, j < i, runs'[i] # None PROVE runs[j] # None
    BY <1>1, <2>1, <2>2
  <2> QED
    BY <1>2, <2>2 DEF Lasting
<1>4. ASSUME NEW k \in Ids, Finish(k) \/ Rerun(k) \/ Delete(k)
      PROVE  \A i \in Ids : runs'[i] # None => runs[i] # None
  BY <1>4 DEF Finish, Rerun, Delete, Existing, TypeOK
<1> QED
  BY <1>1, <1>2, <1>3, <1>4 DEF ServerStep, Lasting

LEMMA ServerShifts ==
    ASSUME TypeOK, InOrder, ServerStep, ~blind'
    PROVE  /\ ~blind /\ before' = before /\ Shifts
<1>1. CASE Appear
  BY <1>1, AppearShifts
<1>2. ASSUME NEW i \in Ids, Finish(i) \/ Rerun(i) \/ Delete(i)
      PROVE  /\ ~blind /\ before' = before /\ Shifts
  <2>1. /\ i \in Existing /\ filtering' = filtering /\ blind' = blind /\ before' = before
        /\ \E c \in Conclusions \union {None} : runs' = [runs EXCEPT ![i].end = c]
    BY <1>2 DEF Finish, Rerun, Delete
  <2>2. /\ \A k \in Ids : runs'[k] = None <=> runs[k] = None
        /\ \A k \in Ids : runs[k] # None => runs'[k].mine = runs[k].mine
        /\ Listing' = Listing
    BY <2>1, EndChanges
  <2>3. \A k \in Listing : runs'[k].mine = runs[k].mine
    BY <2>2 DEF Listing, Existing
  <2>4. \A k \in Listing : Newer(k) = Above(Listing', k) /\ Newer(k) \in Nat
    <3>1. \A k \in Listing : Newer(k) = Above(Listing, k)
      BY Rows
    <3>2. \A k \in Listing : Above(Listing, k) \in Nat
      BY Rows, Positions
    <3> QED
      BY <2>2, <3>1, <3>2
  <2>5. \A k \in Listing : Above(Listing', k) <= Newer(k) /\ Newer(k) <= Above(Listing', k)
    BY <2>4
  <2>6. Shifts
    BY <2>2, <2>3, <2>5 DEF Shifts, Mine
  <2> QED
    BY <2>1, <2>6
<1> QED
  BY <1>1, <1>2 DEF ServerStep

-----------------------------------------------------------------------------
(* The verdict's invariant, step by step.                                  *)

LEMMA VerdictBegins == Init => VerdictInv
<1> SUFFICES ASSUME Init PROVE VerdictInv
  OBVIOUS
<1>1. \A i \in Ids : runs[i] = None
  BY DEF Init, Nowhere
<1>2. pc = "scanning" /\ page = 1 /\ listed = 0 /\ found = Nowhere /\ before = {} /\ outcome = None
  BY DEF Init
<1>3. Scanned = 0
  BY <1>2, CiAssumption DEF Scanned
<1>4. InOrder /\ Reading /\ AllRead
  BY <1>1, <1>2, <1>3 DEF InOrder, Reading, AllRead
<1>5. Judged
  BY <1>2, CiAssumption DEF Judged
<1> QED
  BY <1>4, <1>5 DEF VerdictInv

LEMMA ServerKeepsVerdict == ASSUME IInv, VerdictInv, ServerStep PROVE VerdictInv'
<1>1. TypeOK /\ InOrder /\ Lasting /\ UNCHANGED client /\ pc # "done"
  BY ServerLasting DEF IInv, VerdictInv
<1>2. UNCHANGED <<pc, page, listed, found, outcome>>
  BY <1>1 DEF client
<1>3. outcome' = None
  BY <1>1, <1>2 DEF IInv, Concluding
<1>4. Judged'
  BY <1>3, CiAssumption DEF Judged
<1>5. InOrder'
  <2>1. before' = before
    BY DEF ServerStep, Appear, Finish, Rerun, Delete
  <2>2. \A i \in before' : runs'[i] # None /\ runs'[i].mine
    <3>1. before \subseteq Ids
      BY <1>1 DEF TypeOK
    <3> QED
      BY <1>1, <2>1, <3>1 DEF InOrder, Lasting, Mine
  <2>3. \A i, j \in Ids : j < i /\ runs'[i] # None => runs'[j] # None
    BY <1>1, ServerOrder
  <2> QED
    BY <2>2, <2>3 DEF InOrder, Mine
<1>6. CASE blind'
  <2>1. Scanned' = Scanned /\ Found' = Found
    BY <1>2 DEF Scanned, Found
  <2>2. Reading' /\ AllRead'
    BY <1>2, <1>6, <2>1 DEF VerdictInv, Reading, AllRead
  <2> QED
    BY <1>4, <1>5, <2>2 DEF VerdictInv
<1>7. CASE ~blind'
  <2>1. ~blind /\ before' = before /\ Shifts
    BY <1>1, <1>7, ServerShifts
  <2>2. Scanned' = Scanned /\ Found' = Found
    BY <1>2 DEF Scanned, Found
  <2>3. AllRead'
    BY <1>2, <2>1, <2>2 DEF VerdictInv, AllRead
  <2>4. ASSUME pc = "scanning", page > 1
        PROVE  /\ before \subseteq Listing'
               /\ \A i \in before : Newer(i)' < Scanned => i \in Found
               /\ Found # {} => \E j \in Listing' : Mine(j)' /\ Newer(j)' < Scanned
    <3>1. /\ before \subseteq Listing
          /\ \A i \in before : Newer(i) < Scanned => i \in Found
          /\ Found # {} => \E j \in Listing : Mine(j) /\ Newer(j) < Scanned
      BY <2>1, <2>4 DEF VerdictInv, Reading
    <3>2. \A i \in Listing' : Newer(i)' = Above(Listing', i) /\ Above(Listing', i) \in Nat
      <4>1. Listing' \in SUBSET (1..MaxRuns)
        BY DEF Listing, Existing, Ids
      <4>2. \A i \in Listing' : Above(Listing', i) \in Nat
        BY <4>1, CiAssumption, Positions
      <4>3. \A i \in Listing' : Newer(i)' = Above(Listing', i)
        BY DEF Newer, Above
      <4> QED
        BY <4>2, <4>3
    <3>3. \A i \in Listing : Newer(i) \in Nat
      <4>1. \A i \in Listing : Newer(i) = Above(Listing, i)
        BY Rows
      <4>2. \A i \in Listing : Above(Listing, i) \in Nat
        BY Rows, Positions
      <4> QED
        BY <4>1, <4>2
    <3>4. Scanned \in Nat
      BY <1>1, CiAssumption, PageStarts DEF Scanned, TypeOK
    <3>5. Listing \subseteq Listing' /\ \A i \in Listing : Newer(i) <= Above(Listing', i)
      BY <2>1 DEF Shifts
    <3>6. ASSUME NEW i \in before, Newer(i)' < Scanned PROVE i \in Found
      <4>1. i \in Listing /\ i \in Listing'
        BY <3>1, <3>5
      <4>2. Newer(i) <= Above(Listing', i) /\ Above(Listing', i) < Scanned
            /\ Newer(i) \in Nat /\ Above(Listing', i) \in Nat
        BY <3>2, <3>3, <3>5, <3>6, <4>1
      <4>3. Newer(i) < Scanned
        BY <3>4, <4>2
      <4> QED
        BY <3>1, <4>3
    <3>7. ASSUME Found # {} PROVE \E j \in Listing' : Mine(j)' /\ Newer(j)' < Scanned
      <4>1. PICK j \in Listing : Mine(j) /\ Newer(j) < Scanned
        BY <3>1, <3>7
      <4>2. PICK k \in Listing' : runs'[k].mine /\ Above(Listing', k) <= Newer(j)
        BY <2>1, <4>1 DEF Shifts
      <4>3. Newer(k)' = Above(Listing', k) /\ Above(Listing', k) \in Nat /\ Newer(j) \in Nat
        BY <3>2, <3>3
      <4>4. Newer(k)' < Scanned
        BY <3>4, <4>1, <4>2, <4>3
      <4> QED
        BY <4>2, <4>4 DEF Mine
    <3> QED
      BY <3>1, <3>5, <3>6, <3>7
  <2>5. pc = "scanning" => listed <= Scanned /\ (page = 1 => found = Nowhere)
    BY DEF VerdictInv, Reading
  <2>6. Reading'
    BY <1>2, <2>1, <2>2, <2>4, <2>5 DEF Reading
  <2> QED
    BY <1>4, <1>5, <2>3, <2>6 DEF VerdictInv
<1> QED
  BY <1>6, <1>7

(* A page that is read.                                                    *)
LEMMA ReadPageFinds ==
    ASSUME TypeOK, ReadPage
    PROVE  Found' = Found \union Kept /\ Kept \subseteq Ids
<1>1. \A i \in Kept : i \in Ids /\ runs[i] \in Run
  BY PageFinite, Kinds DEF Kept
<1>2. found' = [i \in Ids |-> IF found[i] = None /\ i \in Kept
                              THEN [workflow |-> runs[i].workflow, end |-> runs[i].end]
                              ELSE found[i]]
  BY DEF ReadPage
<1>3. \A i \in Kept : [workflow |-> runs[i].workflow, end |-> runs[i].end] # None
  <2>1. \A i \in Kept : [workflow |-> runs[i].workflow, end |-> runs[i].end] \in Snapshot
    BY <1>1 DEF Run, Snapshot
  <2> QED
    BY <2>1, CiAssumption
<1>4. \A i \in Ids : found'[i] # None <=> found[i] # None \/ i \in Kept
  BY <1>2, <1>3
<1> QED
  BY <1>1, <1>4 DEF Found

LEMMA ReadPageKeepsVerdict == ASSUME IInv, VerdictInv, ReadPage PROVE VerdictInv'
<1> DEFINE got == Cardinality(Page(page))
           S == RUNS_PAGE_SIZE
<1>1. TypeOK /\ InOrder /\ Reading
  BY DEF IInv, VerdictInv
<1>2. /\ pc = "scanning" /\ runs' = runs /\ filtering' = filtering /\ outcome' = None
      /\ listed' = listed + got
      /\ before' = (IF page = 1 THEN {i \in Existing : Mine(i)} ELSE before)
      /\ \/ /\ ScanOver(got) \/ page = RUNS_SCAN_PAGES
            /\ pc' = "judging" /\ capped' = ~ScanOver(got)
         \/ pc' = "scanning" /\ page' = page + 1
      /\ ~blind' => page = 1 \/ ~blind
      /\ pc' = "judging" /\ ~blind' => ~capped' /\ Together
  BY DEF ReadPage, server, IInv, Concluding
<1>3. /\ page \in Nat \ {0} /\ page >= 1 /\ listed \in Nat
      /\ Scanned \in Nat /\ page * S = Scanned + S /\ S \in Nat \ {0}
  <2>1. page \in Nat \ {0} /\ page >= 1 /\ listed \in Nat /\ S \in Nat \ {0}
    BY <1>1, CiAssumption DEF TypeOK
  <2>2. /\ (page - 1) * S \in Nat /\ page * S = (page - 1) * S + S
    BY <2>1, PageStarts
  <2> QED
    BY <2>1, <2>2 DEF Scanned
<1>4. /\ got \in Nat /\ got <= S
      /\ got = 0 => \A i \in Listing : Newer(i) < Scanned
  BY <1>3, PageRows DEF Scanned
<1>5. /\ Page(page) = {i \in Listing : Scanned <= Newer(i) /\ Newer(i) < Scanned + S}
      /\ Kept = {i \in Page(page) : Mine(i)}
  BY <1>3 DEF Page, Kept, Scanned
<1>6. /\ \A i \in Listing : Newer(i) \in Nat /\ Newer(i) < Cardinality(Listing)
      /\ Cardinality(Listing) \in Nat
  <2>1. \A i \in Listing : Newer(i) = Above(Listing, i)
    BY Rows
  <2>2. Cardinality(Listing) \in Nat
        /\ \A i \in Listing : Above(Listing, i) \in Nat /\ Above(Listing, i) < Cardinality(Listing)
    BY Rows, Positions
  <2> QED
    BY <2>1, <2>2
<1>7. Found' = Found \union Kept /\ Kept \subseteq Ids
  BY <1>1, ReadPageFinds
<1>8. Listing' = Listing /\ \A i : Mine(i)' = Mine(i) /\ Newer(i)' = Newer(i)
  BY <1>2 DEF Listing, Existing, Mine, Newer
<1>9. page = 1 => Found = {} /\ Scanned = 0
  BY <1>1, <1>2, <1>3 DEF Reading, Found, Nowhere, Scanned
<1>10. ASSUME ~blind'
       PROVE  /\ before' \subseteq Listing
              /\ \A i \in before' : Mine(i) /\ (Newer(i) < Scanned => i \in Found)
              /\ Found # {} => \E j \in Listing : Mine(j) /\ Newer(j) < Scanned
  <2>1. CASE page = 1
    <3>1. before' \subseteq Listing /\ \A i \in before' : Mine(i)
      BY <1>2, <2>1 DEF Listing
    <3>2. \A i \in before' : ~ (Newer(i) < Scanned)
      <4>1. \A i \in before' : Newer(i) \in Nat
        BY <1>6, <3>1
      <4> QED
        BY <1>9, <2>1, <4>1
    <3> QED
      BY <1>9, <2>1, <3>1, <3>2
  <2>2. CASE page # 1
    <3>1. page > 1 /\ ~blind /\ before' = before
      BY <1>2, <1>3, <1>10, <2>2
    <3>2. \A i \in before : Mine(i)
      BY <1>1 DEF InOrder
    <3> QED
      BY <1>1, <1>2, <3>1, <3>2 DEF Reading
  <2> QED
    BY <2>1, <2>2
<1> HIDE DEF got, S
<1>11. ASSUME ~blind', NEW i \in before', Newer(i) < Scanned + S PROVE i \in Found'
  <2>1. i \in Listing /\ Mine(i) /\ (Newer(i) < Scanned => i \in Found) /\ Newer(i) \in Nat
    BY <1>6, <1>10, <1>11
  <2>2. CASE Newer(i) < Scanned
    BY <1>7, <2>1, <2>2
  <2>3. CASE ~ (Newer(i) < Scanned)
    <3>1. i \in Kept
      BY <1>3, <1>5, <1>11, <2>1, <2>3
    <3> QED
      BY <1>7, <3>1
  <2> QED
    BY <2>2, <2>3
<1>12. Reading'
  <2>1. SUFFICES ASSUME pc' = "scanning", page' = page + 1 PROVE Reading'
    BY <1>2 DEF Reading
  <2>2. Scanned' = Scanned + S
    <3>1. Scanned' = ((page + 1) - 1) * S
      BY <2>1 DEF Scanned, S
    <3>2. (page + 1) - 1 = page
      BY <1>3
    <3> QED
      BY <1>3, <3>1, <3>2
  <2>3. listed' <= Scanned' /\ page' # 1
    <3>1. listed <= Scanned
      BY <1>1, <1>2 DEF Reading
    <3> QED
      BY <1>2, <1>3, <1>4, <2>1, <2>2, <3>1
  <2>4. ASSUME ~blind', Found' # {}
        PROVE  \E j \in Listing : Mine(j) /\ Newer(j) < Scanned + S
    <3>1. CASE Found # {}
      <4>1. PICK j \in Listing : Mine(j) /\ Newer(j) < Scanned
        BY <1>10, <2>4, <3>1
      <4>2. Newer(j) < Scanned + S
        BY <1>3, <1>6, <4>1
      <4> QED
        BY <4>1, <4>2
    <3>2. CASE Found = {}
      BY <1>5, <1>7, <2>4, <3>2
    <3> QED
      BY <3>1, <3>2
  <2> QED
    BY <1>8, <1>10, <1>11, <2>2, <2>3, <2>4 DEF Reading
<1>13. AllRead'
  <2>1. SUFFICES ASSUME pc' = "judging", ~blind' PROVE before' \subseteq Found'
    BY <1>2 DEF AllRead
  <2>2. ScanOver(got) /\ Together
    BY <1>2, <2>1
  <2>3. CASE got = 0
    BY <1>4, <1>7, <1>10, <2>1, <2>3
  <2>4. CASE listed + got >= Cardinality(Listing)
    <3>1. listed <= Scanned
      BY <1>1, <1>2 DEF Reading
    <3>2. Cardinality(Listing) <= Scanned + S
      BY <1>3, <1>4, <1>6, <2>4, <3>1
    <3>3. \A i \in before' : Newer(i) < Scanned + S
      BY <1>3, <1>6, <1>10, <2>1, <3>2
    <3> QED
      BY <1>11, <2>1, <3>3
  <2>5. CASE Found # {} /\ Kept = {}
    <3>1. PICK j \in Listing : Mine(j) /\ Newer(j) < Scanned
      BY <1>10, <2>1, <2>5
    <3>2. \A i \in Page(page) : ~Mine(i)
      BY <1>5, <2>5
    <3>3. ASSUME NEW i \in before' PROVE i \in Found
      <4>1. i \in Listing /\ Mine(i)
        BY <1>10, <2>1
      <4>2. Newer(i) < Scanned
        BY <1>3, <2>2, <3>1, <3>2, <4>1, NoMore DEF Scanned
      <4> QED
        BY <1>10, <2>1, <4>2
    <3> QED
      BY <1>7, <3>3
  <2> QED
    BY <2>2, <2>3, <2>4, <2>5 DEF ScanOver
<1>14. InOrder'
  <2>1. \A i \in before' : runs[i] # None /\ Mine(i)
    BY <1>1, <1>2 DEF InOrder, Existing
  <2> QED
    BY <1>1, <1>2, <2>1 DEF InOrder, Mine
<1>15. Judged'
  BY <1>2, CiAssumption DEF Judged
<1> QED
  BY <1>12, <1>13, <1>14, <1>15 DEF VerdictInv

LEMMA FailKeepsVerdict == ASSUME IInv, VerdictInv, Fail PROVE VerdictInv'
<1>1. runs' = runs /\ before' = before /\ pc' = "done" /\ outcome' = "error"
  BY DEF Fail, server
<1>2. InOrder' /\ Reading' /\ AllRead'
  BY <1>1 DEF VerdictInv, InOrder, Mine, Reading, AllRead
<1>3. Judged'
  BY <1>1 DEF Judged
<1> QED
  BY <1>2, <1>3 DEF VerdictInv

(* What a judge, a report or a request to rerun leaves alone.              *)
LEMMA SettledStays ==
    ASSUME VerdictInv, pc # "scanning", pc' # "scanning", outcome # "error",
           UNCHANGED <<before, blind, found>>, InOrder', Judged'
    PROVE  VerdictInv'
<1>1. Found' = Found
  BY DEF Found
<1>2. Reading' /\ AllRead'
  BY <1>1 DEF VerdictInv, Reading, AllRead
<1> QED
  BY <1>2 DEF VerdictInv

LEMMA SelectionStays ==
    ASSUME UNCHANGED found
    PROVE  Selected' = Selected /\ In("failed")' = In("failed") /\ In("pending")' = In("pending")
BY DEF Selected, In, latest_per_workflow, Found, ci_state

LEMMA JudgeKeepsVerdict == ASSUME IInv, VerdictInv, Judge PROVE VerdictInv'
<1>1. pc = "judging" /\ UNCHANGED <<runs, before, blind>> /\ outcome = None
  BY DEF Judge, server, IInv, Concluding
<1>2. InOrder'
  BY <1>1 DEF VerdictInv, InOrder, Mine
<1>3. CASE Sleep
  <2>1. /\ pc' = "scanning" /\ page' = 1 /\ listed' = 0 /\ found' = Nowhere
        /\ outcome' = None
    BY <1>1, <1>3 DEF Sleep
  <2>2. Scanned' = 0
    BY <2>1, CiAssumption DEF Scanned
  <2>3. Reading' /\ AllRead'
    BY <2>1, <2>2 DEF Reading, AllRead
  <2>4. Judged'
    BY <2>1, CiAssumption DEF Judged
  <2> QED
    BY <1>2, <2>3, <2>4 DEF VerdictInv
<1>4. CASE pc' \in {"reporting", "rerunning"} /\ UNCHANGED <<found, outcome>>
  <2>1. Judged'
    BY <1>1, <1>4, CiAssumption DEF Judged
  <2> QED
    BY <1>1, <1>2, <1>4, <2>1, SettledStays, CiAssumption
<1>5. CASE End("no_runs") /\ Selected = {}
  <2>1. pc' = "done" /\ found' = found /\ outcome' = "no_runs"
    BY <1>5 DEF End
  <2>2. Judged'
    BY <1>5, <2>1, SelectionStays DEF Judged
  <2> QED
    BY <1>1, <1>2, <2>1, <2>2, SettledStays, CiAssumption
<1>6. CASE End("nothing") /\ In("failed") = {}
  <2>1. pc' = "done" /\ found' = found /\ outcome' = "nothing"
    BY <1>6 DEF End
  <2>2. Judged'
    BY <1>6, <2>1, SelectionStays DEF Judged
  <2> QED
    BY <1>1, <1>2, <2>1, <2>2, SettledStays, CiAssumption
<1> QED
  BY <1>3, <1>4, <1>5, <1>6 DEF Judge, JudgeWatch, JudgeRerun, Goto

LEMMA ReportKeepsVerdict == ASSUME IInv, VerdictInv, Report PROVE VerdictInv'
<1>1. pc = "reporting" /\ UNCHANGED <<runs, before, blind>> /\ outcome = None
  BY DEF Report, server, IInv, Concluding
<1>2. PICK o \in {verdict, "error"} : End(o)
  BY DEF Report
<1>3. pc' = "done" /\ found' = found /\ outcome' = o
  BY <1>2 DEF End
<1>4. /\ verdict = "ok" => In("failed") = {} /\ In("pending") = {}
      /\ verdict = "failed" => In("failed") # {}
      /\ verdict \in {"ok", "failed", "pending"}
  BY DEF verdict
<1>5. InOrder'
  BY <1>1 DEF VerdictInv, InOrder, Mine
<1>6. Judged'
  BY <1>3, <1>4, SelectionStays DEF Judged
<1> QED
  BY <1>1, <1>3, <1>5, <1>6, SettledStays, CiAssumption

LEMMA RerunKeepsVerdict == ASSUME IInv, VerdictInv, RequestRerun PROVE VerdictInv'
<1>1. /\ TypeOK /\ pc = "rerunning" /\ outcome = None
      /\ UNCHANGED <<before, blind, found>> /\ Lasting
  BY RerunSteps DEF IInv, Concluding
<1>2. pc' \in {"rerunning", "done"} /\ outcome' \in {None, "reran", "error"}
  BY <1>1, RerunSteps DEF End, Goto
<1>3. \A i \in Ids : runs'[i] # None => runs[i] # None
  BY <1>1 DEF RequestRerun, Existing, TypeOK
<1>4. InOrder'
  <2>1. \A i, j \in Ids : j < i /\ runs[i] # None => runs[j] # None
    BY DEF VerdictInv, InOrder
  <2>2. \A i, j \in Ids : j < i /\ runs'[i] # None => runs'[j] # None
    BY <1>1, <1>3, <2>1 DEF Lasting
  <2>3. \A i \in before : i \in Ids /\ runs[i] # None /\ Mine(i)
    BY <1>1 DEF VerdictInv, InOrder, TypeOK
  <2>4. \A i \in before' : runs'[i] # None /\ runs'[i].mine
    BY <1>1, <2>3 DEF Lasting, Mine
  <2> QED
    BY <2>2, <2>4 DEF InOrder, Mine
<1>5. Judged'
  BY <1>2, CiAssumption DEF Judged
<1> QED
  BY <1>1, <1>2, <1>4, <1>5, SettledStays, CiAssumption

LEMMA VerdictKeeps == IInv /\ VerdictInv /\ [Next]_vars => VerdictInv'
<1> SUFFICES ASSUME IInv, VerdictInv, [Next]_vars PROVE VerdictInv'
  OBVIOUS
<1>1. CASE ServerStep
  BY <1>1, ServerKeepsVerdict
<1>2. CASE Client \/ Fail
  BY <1>2, ReadPageKeepsVerdict, JudgeKeepsVerdict, ReportKeepsVerdict, RerunKeepsVerdict,
     FailKeepsVerdict
  DEF Client
<1>3. CASE UNCHANGED vars
  <2>1. UNCHANGED <<runs, filtering, pc, page, listed, found, outcome, before, blind>>
    BY <1>3 DEF vars, server, client
  <2>2. Listing' = Listing /\ Scanned' = Scanned /\ Found' = Found
        /\ \A i : Mine(i)' = Mine(i) /\ Newer(i)' = Newer(i)
    BY <2>1 DEF Listing, Existing, Scanned, Found, Mine, Newer
  <2>3. InOrder' /\ Reading' /\ AllRead'
    BY <2>1, <2>2 DEF VerdictInv, InOrder, Reading, AllRead
  <2>4. Judged'
    BY <2>1, SelectionStays DEF VerdictInv, Judged
  <2> QED
    BY <2>3, <2>4 DEF VerdictInv
<1> QED
  BY <1>1, <1>2, <1>3 DEF Next, ServerStep

(* The newest of a workflow's runs that were found is selected.            *)
LEMMA NewestSelected ==
    ASSUME IInv, NEW w \in Wanted, NEW i \in Found, runs[i].workflow = w
    PROVE  \E j \in Selected : Mine(j) /\ runs[j].workflow = w /\ j >= i
<1> DEFINE F == {j \in Found : found[j].workflow = w}
<1>1. \A j \in Found : Mine(j) /\ runs[j].workflow = found[j].workflow
  BY DEF IInv, Truthful
<1>2. i \in F
  BY <1>1
<1>3. F \in SUBSET (1..MaxRuns) /\ MaxRuns \in Nat
  BY CiAssumption DEF Found, Ids
<1>4. PICK j \in F : \A k \in F : k <= j
  BY <1>2, <1>3, Extremes
<1>5. j \in Found /\ found[j].workflow = w /\ j >= i
  BY <1>2, <1>3, <1>4
<1>6. \A k \in Found : found[k].workflow = found[j].workflow => k <= j
  BY <1>4, <1>5
<1>7. j \in Selected
  BY <1>5, <1>6 DEF Selected, latest_per_workflow
<1> QED
  BY <1>1, <1>5, <1>7

LEMMA StateOf ==
    ASSUME NEW i \in Selected
    PROVE  /\ In("failed") = {} => found[i].end \notin Failing
           /\ In("pending") = {} => found[i].end # None
           /\ ci_state(i) = "failed" => found[i].end \in Failing
<1>1. found[i].end = None => ci_state(i) = "pending"
  BY CiAssumption, NoneFailing DEF ci_state, Failing
<1>2. found[i].end \in Failing <=> ci_state(i) = "failed"
  <2>1. ASSUME found[i].end \in Failing PROVE ci_state(i) = "failed"
    <3>1. found[i].end # None
      BY <2>1, CiAssumption
    <3> QED
      BY <2>1, <3>1 DEF ci_state, Failing
  <2>2. ASSUME ci_state(i) = "failed" PROVE found[i].end \in Failing
    BY <2>2 DEF ci_state, Failing
  <2> QED
    BY <2>1, <2>2
<1> QED
  BY <1>1, <1>2 DEF In

(* What any command says of a commit is true of the newest run of every    *)
(* workflow as of its last listing, or of a newer one: runs_for_sha misses *)
(* none of them, on however many pages and whatever runs are queued, end   *)
(* or are rerun between two of its requests.                               *)
THEOREM VerdictHolds == Spec => []VerdictIsCurrent
<1>1. ASSUME IInv, VerdictInv, outcome \notin {None, "error"}, ~blind
      PROVE  /\ \A w \in Wanted : \A i \in Newest(w) :
                  \E j \in Selected : Mine(j) /\ runs[j].workflow = w /\ j >= i
             /\ outcome = "ok" => \A i \in Selected : found[i].end \notin Failing \union {None}
             /\ outcome = "no_runs" => \A w \in Wanted : Newest(w) = {}
             /\ outcome = "nothing" => \A i \in Selected : found[i].end \notin Failing
             /\ outcome = "failed" => \E i \in Selected : Mine(i) /\ found[i].end \in Failing
  <2>1. before \subseteq Found
    <3>1. pc = "done"
      BY <1>1 DEF IInv, Concluding
    <3> QED
      BY <1>1, <3>1 DEF VerdictInv, AllRead
  <2>2. ASSUME NEW w \in Wanted, NEW i \in Newest(w)
        PROVE  \E j \in Selected : Mine(j) /\ runs[j].workflow = w /\ j >= i
    BY <1>1, <2>1, NewestSelected DEF Newest
  <2>3. Judged
    BY <1>1 DEF VerdictInv
  <2>4. ASSUME outcome = "failed"
        PROVE  \E i \in Selected : Mine(i) /\ found[i].end \in Failing
    <3>1. PICK i \in Selected : ci_state(i) = "failed"
      BY <2>3, <2>4 DEF Judged, In
    <3>2. Mine(i)
      BY <1>1 DEF IInv, Truthful, Selected, latest_per_workflow
    <3> QED
      BY <3>1, <3>2, StateOf
  <2>5. outcome = "no_runs" => \A w \in Wanted : Newest(w) = {}
    BY <2>2, <2>3 DEF Judged
  <2>6. outcome \in {"ok", "nothing"} => \A i \in Selected : found[i].end \notin Failing
    BY <2>3, StateOf DEF Judged
  <2>7. outcome = "ok" => \A i \in Selected : found[i].end # None
    BY <2>3, StateOf DEF Judged
  <2> QED
    BY <2>2, <2>4, <2>5, <2>6, <2>7
<1>2. IInv /\ VerdictInv => VerdictIsCurrent
  BY <1>1 DEF VerdictIsCurrent
<1>3. Spec => []VerdictInv
  BY VerdictBegins, VerdictKeeps, Inductive, PTL DEF Spec
<1> QED
  BY <1>2, <1>3, Inductive, PTL
=============================================================================
