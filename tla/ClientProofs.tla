---------------------------- MODULE ClientProofs ----------------------------
(***************************************************************************)
(* Proofs about what the client library does over several requests: the    *)
(* walk over a paginated collection (Paginate) and the shared probe of     *)
(* what the instance can do (Capabilities).                                *)
(*                                                                         *)
(* Of a walk: for every size of the collection, every clamped page size,   *)
(* every --limit and ceiling, however rows are added and headers stripped. *)
(* IInv is inductive.  Its heart is that pages are read in step with what  *)
(* was counted (Ordered: the rows kept are in increasing order and none    *)
(* that was there from the start is left out below any of them), and that  *)
(* what Paginator remembers errs on the safe side (Remembered: the first   *)
(* page is no longer than any page may be, a total no smaller than the     *)
(* collection was at the start).  StartPages = {1} is a hypothesis, because *)
(* NoRowTwice is false of the code without it.                             *)
(*                                                                         *)
(* Of the probe: for every number of tasks, every lifetime and every bound *)
(* on the clock.  The heart of CapsIInv is ProbeNeeded, that the cache     *)
(* stays cold for as long as a task probes, because only the holder of the *)
(* gate warms it.                                                          *)
(***************************************************************************)
EXTENDS Paginate, Capabilities, FiniteSetTheorems, FunctionTheorems, SequenceTheorems, TLAPS

-----------------------------------------------------------------------------
(* The walk: lists of numbers.                                             *)

(* A finite set with a member is not empty.                                *)
LEMMA NotEmpty ==
    ASSUME NEW T, IsFiniteSet(T), NEW x \in T PROVE Cardinality(T) \in Nat \ {0}
BY FS_EmptySet, FS_CardinalityType

(* The rank of a member of a finite set of numbers: it is between one and  *)
(* the size of the set, and grows with the member.                         *)
LEMMA RankBounds ==
    ASSUME NEW n \in Nat, NEW S \in SUBSET (1..n), NEW i \in S
    PROVE  /\ IsFiniteSet(S) /\ Cardinality(S) \in 0..n
           /\ Cardinality({j \in S : j <= i}) \in 1..Cardinality(S)
           /\ \A k \in S : i < k =>
                 Cardinality({j \in S : j <= i}) < Cardinality({j \in S : j <= k})
<1>1. IsFiniteSet(1..n) /\ Cardinality(1..n) = n
  BY FS_Interval
<1>2. IsFiniteSet(S) /\ Cardinality(S) \in Nat /\ Cardinality(S) <= n
  BY <1>1, FS_Subset, FS_CardinalityType
<1>3. \A k \in S : IsFiniteSet({j \in S : j <= k}) /\ Cardinality({j \in S : j <= k}) \in Nat
                   /\ Cardinality({j \in S : j <= k}) <= Cardinality(S)
  <2> TAKE k \in S
  <2>1. {j \in S : j <= k} \in SUBSET S
    OBVIOUS
  <2> QED
    BY <1>2, <2>1, FS_Subset, FS_CardinalityType
<1>4. Cardinality({j \in S : j <= i}) # 0
  <2>1. i \in {j \in S : j <= i}
    OBVIOUS
  <2> QED
    BY <1>3, <2>1, NotEmpty
<1>5. ASSUME NEW k \in S, i < k
      PROVE  Cardinality({j \in S : j <= i}) < Cardinality({j \in S : j <= k})
  <2>1. {j \in S : j <= i} \in SUBSET {j \in S : j <= k}
    <3>1. i \in Nat /\ k \in Nat /\ \A j \in S : j \in Nat
      OBVIOUS
    <3>2. \A j \in S : j <= i => j <= k
      BY <1>5, <3>1
    <3> QED
      BY <3>2
  <2>2. k \in {j \in S : j <= k} /\ k \notin {j \in S : j <= i}
    BY <1>5
  <2>3. {j \in S : j <= i} # {j \in S : j <= k}
    BY <2>2
  <2>4. /\ Cardinality({j \in S : j <= i}) <= Cardinality({j \in S : j <= k})
        /\ Cardinality({j \in S : j <= k}) # Cardinality({j \in S : j <= i})
    BY <1>3, <2>1, <2>3, FS_Subset
  <2> QED
    BY <1>3, <2>4
<1> QED
  BY <1>2, <1>3, <1>4, <1>5

(* Nth enumerates a finite set of numbers in increasing order.             *)
LEMMA NthEnumerates ==
    ASSUME NEW n \in Nat, NEW S \in SUBSET (1..n)
    PROVE  /\ Cardinality(S) \in 0..n
           /\ \A k \in 1..Cardinality(S) : Nth(S, k) \in S
           /\ \A i \in S : \E k \in 1..Cardinality(S) : Nth(S, k) = i
           /\ \A k, m \in 1..Cardinality(S) : k < m => Nth(S, k) < Nth(S, m)
<1> DEFINE r(i) == Cardinality({j \in S : j <= i})
           c == Cardinality(S)
           f == [i \in S |-> r(i)]
<1>1. IsFiniteSet(S) /\ c \in 0..n
  <2>1. IsFiniteSet(1..n) /\ Cardinality(1..n) = n
    BY FS_Interval
  <2>2. IsFiniteSet(S) /\ Cardinality(S) \in Nat /\ Cardinality(S) <= n
    BY <2>1, FS_Subset, FS_CardinalityType
  <2> QED
    BY <2>2
<1>2. \A i \in S : r(i) \in 1..c /\ \A k \in S : i < k => r(i) < r(k)
  <2> TAKE i \in S
  <2> QED
    BY RankBounds
<1>3. \A i, k \in S : i < k => r(i) < r(k)
  BY <1>2
<1>0. S \subseteq Nat /\ 1..c \subseteq Nat
  BY <1>1
<1> HIDE DEF r, c
<1>4. \A i, k \in S : r(i) = r(k) => i = k
  <2> TAKE i, k \in S
  <2>1. i \in Nat /\ k \in Nat /\ r(i) \in Nat /\ r(k) \in Nat
    BY <1>0, <1>2
  <2>2. i < k \/ k < i \/ i = k
    BY <2>1
  <2> QED
    BY <1>3, <2>1, <2>2
<1>5. f \in Injection(S, 1..c)
  BY <1>2, <1>4, Fun_IsInj
<1>6. IsFiniteSet(1..c) /\ Cardinality(1..c) = c
  BY <1>1, FS_Interval
<1>7. f \in Surjection(S, 1..c)
  BY <1>5, <1>6, FS_Injection DEF c
<1>8. \A k \in 1..c : \E i \in S : r(i) = k
  <2>1. \A k \in 1..c : \E i \in S : f[i] = k
    <3> HIDE DEF f
    <3> QED
      BY <1>7, Fun_SurjectionProperties
  <2> QED
    BY <2>1
<1>9. \A k \in 1..c : Nth(S, k) \in S /\ r(Nth(S, k)) = k
  <2> TAKE k \in 1..c
  <2>1. Nth(S, k) = CHOOSE i \in S : r(i) = k
    BY DEF Nth, r
  <2>2. \E i \in S : r(i) = k
    BY <1>8
  <2> QED
    BY <2>1, <2>2, Zenon
<1>10. \A i \in S : Nth(S, r(i)) = i
  BY <1>2, <1>4, <1>9
<1>11. ASSUME NEW k \in 1..c, NEW m \in 1..c, k < m
       PROVE  Nth(S, k) < Nth(S, m)
  <2>1. Nth(S, k) \in S /\ Nth(S, m) \in S /\ r(Nth(S, k)) = k /\ r(Nth(S, m)) = m
    BY <1>9
  <2>2. Nth(S, k) \in Nat /\ Nth(S, m) \in Nat /\ k \in Nat /\ m \in Nat
    BY <1>0, <2>1
  <2>3. ~ (Nth(S, m) < Nth(S, k)) /\ Nth(S, m) # Nth(S, k)
    BY <1>3, <1>11, <2>1, <2>2
  <2> QED
    BY <2>2, <2>3
<1> QED
  BY <1>1, <1>2, <1>9, <1>10, <1>11 DEF c

-----------------------------------------------------------------------------
(* Pages.                                                                  *)

(* One page more is pageSize rows more.                                    *)
LEMMA OnePageMore ==
    ASSUME NEW p \in Nat, NEW s \in Nat
    PROVE  p * s \in Nat /\ (p + 1) * s \in Nat /\ (p + 1) * s = p * s + s
  OBVIOUS

(* The rows on the next page: pageSize of them after those seen, or what   *)
(* there is, or the first page for ever.                                   *)
LEMMA NextRows ==
    ASSUME TypeOK, page = pagesSeen + 1,
           NEW first, first = IF honours THEN Seen ELSE 0,
           NEW size, size = IF first >= total THEN 0 ELSE Lesser(pageSize, total - first)
    PROVE  /\ RowsOn(page) = [i \in 1..size |-> first + i]
           /\ first \in Nat /\ size \in 0..pageSize
           /\ size > 0 => first + size <= total
           /\ size < pageSize => total <= first + size
           /\ size = 0 <=> total <= first
<1>1. /\ pageSize \in Nat \ {0} /\ pagesSeen \in Nat /\ total \in Nat /\ honours \in BOOLEAN
  BY PaginateAssumption DEF TypeOK
<1>2. (page - 1) * pageSize = Seen
  BY <1>1 DEF Seen
<1>3. Seen \in Nat
  BY <1>1, OnePageMore DEF Seen
<1>4. RowsOn(page) = [i \in 1..size |-> first + i]
  BY <1>2 DEF RowsOn
<1> QED
  BY <1>1, <1>3, <1>4 DEF Lesser

(* What decode_items leaves of it: a sequence of rows in their order, all  *)
(* those that are not null and no other.                                   *)
LEMMA NextItems ==
    ASSUME TypeOK, page = pagesSeen + 1,
           NEW first, first = IF honours THEN Seen ELSE 0,
           NEW size, size = IF first >= total THEN 0 ELSE Lesser(pageSize, total - first),
           NEW rows, rows = decode_items(RowsOn(page))
    PROVE  /\ rows \in Seq(1..MaxRows) /\ Len(rows) \in 0..size
           /\ \A k \in 1..Len(rows) : rows[k] \in (first + 1)..(first + size)
           /\ \A k, m \in 1..Len(rows) : k < m => rows[k] < rows[m]
           /\ \A row \in ((first + 1)..(first + size)) \ nulls :
                 \E k \in 1..Len(rows) : rows[k] = row
           /\ nulls = {} => Len(rows) = size
<1> DEFINE all == [i \in 1..size |-> first + i]
           kept == {i \in DOMAIN all : all[i] \notin nulls}
           n == Cardinality(kept)
<1>1. /\ RowsOn(page) = all /\ first \in Nat /\ size \in Nat
      /\ size > 0 => first + size <= MaxRows
  <2>1. /\ RowsOn(page) = all /\ first \in Nat /\ size \in 0..pageSize
        /\ size > 0 => first + size <= total
    BY NextRows
  <2>2. total <= MaxRows /\ total \in Nat /\ MaxRows \in Nat /\ pageSize \in Nat
    BY PaginateAssumption DEF TypeOK
  <2> QED
    BY <2>1, <2>2
<1>2. rows = [k \in 1..n |-> all[Nth(kept, k)]]
  <2> HIDE DEF all
  <2>1. rows = decode_items(all)
    BY <1>1
  <2> QED
    BY <2>1 DEF decode_items
<1>3. kept \in SUBSET (1..size) /\ \A i \in 1..size : i \in kept <=> first + i \notin nulls
  OBVIOUS
<1>4. \A i \in 1..size : all[i] = first + i
  OBVIOUS
<1>5. nulls = {} => n = size
  <2>1. SUFFICES ASSUME nulls = {} PROVE n = size
    OBVIOUS
  <2>2. kept = 1..size
    BY <2>1
  <2>3. Cardinality(1..size) = size
    BY <1>1, FS_Interval
  <2> QED
    BY <2>2, <2>3
<1> HIDE DEF all, kept
<1>6. /\ n \in 0..size
      /\ \A k \in 1..n : Nth(kept, k) \in kept
      /\ \A i \in kept : \E k \in 1..n : Nth(kept, k) = i
      /\ \A k, m \in 1..n : k < m => Nth(kept, k) < Nth(kept, m)
  BY <1>1, <1>3, NthEnumerates
<1> HIDE DEF n
<1>7. \A k \in 1..n : rows[k] = first + Nth(kept, k) /\ Nth(kept, k) \in 1..size
  BY <1>2, <1>3, <1>4, <1>6
<1>8. \A k \in 1..n : /\ rows[k] \in (first + 1)..(first + size) /\ rows[k] \in 1..MaxRows
                      /\ rows[k] \notin nulls
  <2> TAKE k \in 1..n
  <2>1. Nth(kept, k) \in 1..size /\ rows[k] = first + Nth(kept, k)
    BY <1>7
  <2>2. MaxRows \in Nat
    BY PaginateAssumption
  <2>3. first + Nth(kept, k) \notin nulls
    BY <1>3, <1>6, <2>1
  <2> QED
    BY <1>1, <2>1, <2>2, <2>3
<1>9. rows \in Seq(1..MaxRows) /\ Len(rows) = n
  <2>1. n \in Nat
    BY <1>1, <1>6
  <2>2. rows = [k \in 1..n |-> rows[k]]
    BY <1>2
  <2>3. rows \in [1..n -> 1..MaxRows]
    BY <1>8, <2>2
  <2>4. rows \in Seq(1..MaxRows)
    BY <2>1, <2>3, SeqDef
  <2>5. Len(rows) \in Nat /\ 1..Len(rows) = 1..n
    BY <2>3, <2>4, LenProperties
  <2>6. Len(rows) = n
    BY <2>1, <2>5
  <2> QED
    BY <2>4, <2>6
<1>10. ASSUME NEW k \in 1..n, NEW m \in 1..n, k < m PROVE rows[k] < rows[m]
  <2>1. Nth(kept, k) < Nth(kept, m)
    BY <1>6, <1>10
  <2> QED
    BY <1>1, <1>7, <2>1
<1>11. ASSUME NEW row \in ((first + 1)..(first + size)) \ nulls
       PROVE  \E k \in 1..n : rows[k] = row
  <2>1. row - first \in 1..size /\ first + (row - first) = row
    BY <1>1
  <2>2. row - first \in kept
    BY <1>3, <2>1
  <2>3. PICK k \in 1..n : Nth(kept, k) = row - first
    BY <1>6, <2>2
  <2> QED
    BY <1>7, <2>1, <2>3
<1> QED
  BY <1>5, <1>6, <1>8, <1>9, <1>10, <1>11

-----------------------------------------------------------------------------
(* Steps.                                                                  *)

(* Initially nothing has been read.                                        *)
LEMMA WalkBegins == ASSUME StartPages = {1}, Init PROVE IInv
<1>2. got \in Seq(1..MaxRows) /\ Len(got) = 0 /\ DOMAIN got = {}
  BY DEF Init
<1>3. TypeOK
  BY <1>2, PaginateAssumption DEF Init, TypeOK
<1>4. Seen = 0
  BY <1>3, PaginateAssumption DEF Seen, Init, TypeOK
<1>5. InStep /\ Remembered
  BY <1>3, PaginateAssumption DEF InStep, Remembered, Init, TypeOK
<1>8. Counted
  <2>1. userLimit # None => userLimit \in Nat
    BY <1>3, PaginateAssumption DEF TypeOK
  <2> QED
    BY <1>2, <1>4, <2>1, PaginateAssumption DEF Init, Counted
<1>6. Ordered
  BY <1>2, <1>3, <1>4, PaginateAssumption DEF Ordered, TypeOK, Init
<1>7. Exhausted /\ RunawayJustified
  BY PaginateAssumption DEF Exhausted, RunawayJustified, Init
<1> QED
  BY <1>3, <1>5, <1>6, <1>7, <1>8 DEF IInv

(* A row that is added comes after those the walk must find.               *)
LEMMA GrowKeeps == ASSUME IInv, Grow PROVE IInv'
<1>1. TypeOK'
  BY PaginateAssumption DEF IInv, TypeOK, Grow, config, paginator
<1>2. Seen' = Seen /\ (Unlimited' <=> Unlimited)
  BY DEF Grow, Seen, Unlimited, config, paginator
<1>3. InStep' /\ Counted'
  BY <1>2 DEF IInv, InStep, Counted, Grow, config, paginator
<1>4. Remembered'
  BY PaginateAssumption DEF IInv, TypeOK, Remembered, Grow, config, paginator
<1>5. Ordered'
  BY <1>2 DEF IInv, Ordered, Grow, config, paginator
<1>6. Exhausted' /\ RunawayJustified'
  BY PaginateAssumption DEF IInv, InStep, Exhausted, RunawayJustified, Grow, config, paginator
<1> QED
  BY <1>1, <1>3, <1>4, <1>5, <1>6 DEF IInv

(* Handing out what was kept reads nothing.                                *)
LEMMA HandKeeps == ASSUME IInv, Hand PROVE IInv'
<1>1. TypeOK'
  BY DEF IInv, TypeOK, Hand, config, paginator
<1>2. Seen' = Seen /\ (Unlimited' <=> Unlimited)
  BY DEF Hand, Seen, Unlimited, config, paginator
<1>3. InStep' /\ Counted' /\ Remembered'
  BY <1>2 DEF IInv, InStep, Counted, Remembered, Hand, config, paginator
<1>4. Ordered'
  BY <1>2 DEF IInv, Ordered, Hand, config, paginator
<1>5. Exhausted' /\ RunawayJustified'
  BY <1>2 DEF IInv, Exhausted, RunawayJustified, Hand, config, paginator
<1> QED
  BY <1>1, <1>3, <1>4, <1>5 DEF IInv

(* Nor does a walk that ends without a page: with an error, or because     *)
(* --limit was satisfied already.                                          *)
LEMMA EndKeeps ==
    ASSUME IInv, status = "running",
           UNCHANGED <<config, total, page, got, taken, paginator>>,
           \/ status' = "failed" /\ reason' = "Error"
           \/ Saturated(cumulative) /\ status' = "stopped" /\ reason' = "UserLimit"
    PROVE  IInv'
<1>1. TypeOK'
  BY DEF IInv, TypeOK, config, paginator
<1>2. Seen' = Seen /\ (Unlimited' <=> Unlimited)
  BY DEF Seen, Unlimited, config, paginator
<1>3. /\ Len(got) = cumulative /\ cumulative \in Nat
      /\ userLimit # None => userLimit \in Nat /\ Len(got) <= userLimit
  BY PaginateAssumption DEF IInv, Counted, TypeOK
<1>4. reason' = "UserLimit" => userLimit # None /\ Len(got) = userLimit
  BY <1>3 DEF Saturated
<1>5. InStep' /\ Counted' /\ Remembered'
  BY <1>2, <1>3, <1>4 DEF IInv, InStep, Counted, Remembered, config, paginator
<1>6. Ordered'
  BY <1>2 DEF IInv, Ordered, config, paginator
<1>7. Exhausted' /\ RunawayJustified'
  BY <1>2, <1>3, <1>4 DEF Exhausted, RunawayJustified, Unlimited, config
<1> QED
  BY <1>1, <1>5, <1>6, <1>7 DEF IInv

-----------------------------------------------------------------------------
(* A page that arrives.                                                    *)

(* What a response does to the walk, whatever comes of it: size rows after *)
(* the first are on the page, its items are rows, and k of them are kept.  *)
Sizes(first, size, rows, k) ==
    /\ first = (IF honours THEN Seen ELSE 0) /\ first \in Nat /\ size \in 0..pageSize
    /\ size > 0 => first + size <= total
    /\ size < pageSize => total <= first + size
    /\ Len(rows) \in 0..size
    /\ nulls = {} => Len(rows) = size
    /\ k \in 0..Len(rows)
    /\ userLimit = None => k = Len(rows)
    /\ userLimit # None =>
          Len(got) + k <= userLimit /\ (k = Len(rows) \/ Len(got) + k = userLimit)

Counts(rows) ==
    /\ pagesSeen' = pagesSeen + 1 /\ Seen' = Seen + pageSize
    /\ cumulative' = cumulative + Len(rows)
    /\ firstPageSize' = (IF firstPageSize = None THEN Len(rows) ELSE firstPageSize)
    /\ totalCount' = totalCount \/ (totalCount' = total /\ honours)
    /\ UNCHANGED <<config, total>>

Items(first, size, rows) ==
    /\ rows \in Seq(1..MaxRows)
    /\ \A i \in 1..Len(rows) : rows[i] \in (first + 1)..(first + size)
    /\ \A i, j \in 1..Len(rows) : i < j => rows[i] < rows[j]
    /\ \A row \in ((first + 1)..(first + size)) \ nulls : \E i \in 1..Len(rows) : rows[i] = row

Appends(rows, k) ==
    /\ got' \in Seq(1..MaxRows) /\ Len(got') = Len(got) + k
    /\ \A i \in 1..Len(got) : got'[i] = got[i]
    /\ \A i \in 1..k : got'[Len(got) + i] = rows[i]

PageRead(first, size, rows, k) ==
    Sizes(first, size, rows, k) /\ Counts(rows) /\ Items(first, size, rows) /\ Appends(rows, k)

(* And what comes of it.                                                   *)
GoesOn ==
    /\ status' = "running" /\ reason' = reason /\ taken' = taken
    /\ page' = pagesSeen' + 1 /\ pagesSeen' < MAX_PAGES
    /\ userLimit # None => cumulative' < userLimit

GivesUp(rows) ==
    /\ status' = "failed" /\ reason' = "Runaway" /\ page' = page /\ taken' = taken
    /\ pagesSeen' >= MAX_PAGES /\ Len(rows) # 0
    /\ \/ honours => Seen' < total
       \/ firstPageSize = None \/ Len(rows) >= firstPageSize

Stops(rows) ==
    /\ status' = "stopped" /\ page' = page /\ taken' \in {taken, Len(got')}
    /\ reason' \notin {None, "Runaway"}
    /\ reason' = "UserLimit" => userLimit # None /\ cumulative' >= userLimit
    /\ \/ honours /\ total <= Seen'
       \/ Len(rows) = 0
       \/ userLimit # None /\ cumulative' >= userLimit
       \/ totalCount' # None /\ cumulative' >= totalCount'
       \/ firstPageSize # None /\ Len(rows) < firstPageSize

(* What keep leaves of a page.                                             *)
LEMMA KeepsUpToLimit ==
    ASSUME IInv, status = "running", NEW n \in Nat
    PROVE  /\ keep(n) \in 0..n
           /\ userLimit = None => keep(n) = n
           /\ userLimit # None =>
                Len(got) + keep(n) <= userLimit /\ (keep(n) = n \/ Len(got) + keep(n) = userLimit)
<1>1. /\ Len(got) = cumulative /\ cumulative \in Nat
      /\ userLimit # None => userLimit \in Nat /\ Len(got) <= userLimit
  BY PaginateAssumption DEF IInv, Counted, TypeOK
<1> QED
  BY <1>1 DEF keep, Lesser

(* What is appended to what was kept.                                      *)
LEMMA Appended ==
    ASSUME got \in Seq(1..MaxRows), NEW rows \in Seq(1..MaxRows), NEW k \in 0..Len(rows),
           got' = got \o SubSeq(rows, 1, k)
    PROVE  /\ got' \in Seq(1..MaxRows) /\ Len(got') = Len(got) + k
           /\ \A i \in 1..Len(got) : got'[i] = got[i]
           /\ \A i \in 1..k : got'[Len(got) + i] = rows[i]
<1> DEFINE Rows == 1..MaxRows
           new == SubSeq(rows, 1, k)
           all == got \o new
<1>0. got \in Seq(Rows) /\ rows \in Seq(Rows)
  OBVIOUS
<1> HIDE DEF Rows
<1>1. Len(got) \in Nat /\ Len(rows) \in Nat
  BY <1>0, LenProperties
<1>2. \A i \in 1..k : rows[i] \in Rows
  BY <1>0, <1>1, ElementOfSeq
<1>3. new \in Seq(Rows) /\ Len(new) = k /\ \A i \in 1..k : new[i] = rows[i]
  BY <1>1, <1>2, SubSeqProperties
<1> HIDE DEF new
<1>4. /\ all \in Seq(Rows) /\ Len(all) = Len(got) + k
      /\ \A i \in 1..(Len(got) + k) :
            all[i] = IF i <= Len(got) THEN got[i] ELSE new[i - Len(got)]
  BY <1>0, <1>3, ConcatProperties
<1>5. got' = all
  BY DEF new
<1> HIDE DEF all
<1>6. \A i \in 1..Len(got) : all[i] = got[i]
  BY <1>1, <1>4
<1>7. ASSUME NEW i \in 1..k PROVE all[Len(got) + i] = rows[i]
  <2>1. Len(got) + i \in 1..(Len(got) + k) /\ ~ (Len(got) + i <= Len(got))
        /\ (Len(got) + i) - Len(got) = i
    BY <1>1
  <2> QED
    BY <1>3, <1>4, <2>1
<1> QED
  BY <1>4, <1>5, <1>6, <1>7 DEF Rows

(* The counts after a response.                                            *)
LEMMA ReadsPage ==
    ASSUME IInv, status = "running", NEW sawLink \in BOOLEAN, NEW sawTotal \in BOOLEAN,
           sawLink => "link" \in headers, sawTotal => "total" \in headers,
           Receive(sawLink, sawTotal)
    PROVE  \E first, size, k, rows :
              /\ PageRead(first, size, rows, k)
              /\ GoesOn \/ GivesUp(rows) \/ Stops(rows)
<1> DEFINE first == IF honours THEN Seen ELSE 0
           size == IF first >= total THEN 0 ELSE Lesser(pageSize, total - first)
           rows == decode_items(RowsOn(page))
           pg == [link |-> sawLink, next |-> sawLink /\ HasNext(page), returned |-> Len(rows)]
           k == keep(Len(rows))
<1>1. TypeOK /\ page = pagesSeen + 1
  BY DEF IInv, InStep
<1>2. /\ first \in Nat /\ size \in 0..pageSize
      /\ size > 0 => first + size <= total
      /\ size < pageSize => total <= first + size
  BY <1>1, NextRows
<1>3. /\ rows \in Seq(1..MaxRows) /\ Len(rows) \in 0..size
      /\ \A i \in 1..Len(rows) : rows[i] \in (first + 1)..(first + size)
      /\ \A i, j \in 1..Len(rows) : i < j => rows[i] < rows[j]
      /\ \A row \in ((first + 1)..(first + size)) \ nulls :
            \E i \in 1..Len(rows) : rows[i] = row
      /\ nulls = {} => Len(rows) = size
  BY <1>1, NextItems
<1>4. /\ Count(Len(rows), sawTotal) /\ got' = got \o SubSeq(rows, 1, k)
      /\ UNCHANGED <<config, total>>
  BY DEF Receive
<1>5. \/ status' = "running" /\ reason' = reason /\ taken' = taken
           /\ page' = NextPage(pg) /\ advance(pg) = "More"
      \/ status' = "failed" /\ reason' = "Runaway" /\ taken' = taken /\ page' = page
           /\ advance(pg) = "Runaway"
      \/ status' = "stopped" /\ reason' = advance(pg) /\ taken' \in {taken, Len(got')}
           /\ page' = page /\ advance(pg) \notin {"More", "Runaway"}
  BY DEF Receive
<1>6. /\ k \in 0..Len(rows)
      /\ userLimit = None => k = Len(rows)
      /\ userLimit # None =>
            Len(got) + k <= userLimit /\ (k = Len(rows) \/ Len(got) + k = userLimit)
  <2>1. Len(rows) \in Nat
    BY <1>3
  <2> QED
    BY <2>1, KeepsUpToLimit
<1> HIDE DEF first, size, rows, k
<1>7. /\ pagesSeen' = pagesSeen + 1 /\ cumulative' = cumulative + Len(rows)
      /\ firstPageSize' = (IF firstPageSize = None THEN Len(rows) ELSE firstPageSize)
      /\ totalCount' = (IF sawTotal THEN total ELSE totalCount)
  BY <1>4 DEF Count
<1>8. sawLink \/ sawTotal => honours
  BY <1>1 DEF TypeOK
<1>9. pagesSeen \in Nat /\ pageSize \in Nat \ {0} /\ total \in Nat /\ honours \in BOOLEAN
  BY <1>1, PaginateAssumption DEF TypeOK
<1>10. Seen' = Seen + pageSize /\ page * pageSize = Seen'
  <2>1. Seen' = (pagesSeen + 1) * pageSize
    BY <1>4, <1>7 DEF Seen, config
  <2> QED
    BY <1>1, <1>9, <2>1, OnePageMore DEF Seen
<1>11. /\ got' \in Seq(1..MaxRows) /\ Len(got') = Len(got) + k
       /\ \A i \in 1..Len(got) : got'[i] = got[i]
       /\ \A i \in 1..k : got'[Len(got) + i] = rows[i]
  <2>1. got \in Seq(1..MaxRows)
    BY <1>1 DEF TypeOK
  <2>2. rows \in Seq(1..MaxRows) /\ k \in 0..Len(rows) /\ got' = got \o SubSeq(rows, 1, k)
    BY <1>3, <1>4, <1>6
  <2> QED
    BY <2>1, <2>2, Appended
<1>12. PageRead(first, size, rows, k)
  <2>1. first = (IF honours THEN Seen ELSE 0)
    BY DEF first
  <2>2. totalCount' = totalCount \/ (totalCount' = total /\ honours)
    BY <1>7, <1>8
  <2>3. UNCHANGED <<config, total>>
    BY <1>4
  <2> QED
    BY <1>2, <1>3, <1>6, <1>7, <1>10, <1>11, <2>1, <2>2, <2>3
    DEF PageRead, Sizes, Counts, Items, Appends
<1>13. /\ pg.link = sawLink /\ pg.returned = Len(rows)
       /\ pg.next <=> sawLink /\ (honours => Seen' < total)
  BY <1>10 DEF HasNext
<1> HIDE DEF pg
<1>14. ASSUME status' = "running", reason' = reason, taken' = taken, page' = NextPage(pg),
              advance(pg) = "More"
       PROVE  GoesOn
  <2>1. ~Runaway /\ ~Saturated(cumulative')
    BY <1>14 DEF advance
  <2>2. page' = pagesSeen' + 1
    BY <1>1, <1>7, <1>14 DEF NextPage
  <2>3. pagesSeen' < MAX_PAGES
    BY <1>7, <1>9, <2>1, PaginateAssumption DEF Runaway
  <2>4. userLimit # None => cumulative' < userLimit
    <3>1. userLimit # None => userLimit \in Nat
      BY <1>1, PaginateAssumption DEF TypeOK
    <3>2. cumulative' \in Nat /\ userLimit' = userLimit
      BY <1>1, <1>3, <1>4, <1>7 DEF TypeOK, config
    <3> QED
      BY <2>1, <3>1, <3>2 DEF Saturated
  <2> QED
    BY <1>14, <2>2, <2>3, <2>4 DEF GoesOn
<1>15. ASSUME status' = "failed", reason' = "Runaway", taken' = taken, page' = page,
              advance(pg) = "Runaway"
       PROVE  GivesUp(rows)
  <2>1. Runaway /\ ~EmptyPage(pg) /\ ~LinkExhausted(pg) /\ ~ShortPageWithoutLink(pg)
    BY <1>15 DEF advance
  <2>2. pagesSeen' >= MAX_PAGES /\ Len(rows) # 0
    BY <1>13, <2>1 DEF Runaway, EmptyPage
  <2>3. CASE sawLink
    <3>1. honours => Seen' < total
      BY <1>13, <2>1, <2>3 DEF LinkExhausted
    <3> QED
      BY <1>15, <2>2, <3>1 DEF GivesUp
  <2>4. CASE ~sawLink
    <3>1. firstPageSize = None \/ ~ (Len(rows) < firstPageSize)
      BY <1>13, <2>1, <2>4 DEF ShortPageWithoutLink
    <3>2. firstPageSize = None \/ Len(rows) >= firstPageSize
      BY <1>1, <1>3, <3>1 DEF TypeOK
    <3> QED
      BY <1>15, <2>2, <3>2 DEF GivesUp
  <2> QED
    BY <2>3, <2>4
<1>16. ASSUME status' = "stopped", reason' = advance(pg), taken' \in {taken, Len(got')},
              page' = page, advance(pg) \notin {"More", "Runaway"}
       PROVE  Stops(rows)
  <2>1. \/ reason' = "LinkExhausted" /\ LinkExhausted(pg)
        \/ reason' = "EmptyPage" /\ EmptyPage(pg)
        \/ reason' = "UserLimit" /\ Saturated(cumulative')
        \/ reason' = "TotalReached" /\ TotalReached
        \/ reason' = "ShortPageWithoutLink" /\ ShortPageWithoutLink(pg)
    BY <1>16 DEF advance
  <2>2. userLimit' = userLimit
    BY <1>4 DEF config
  <2>3. LinkExhausted(pg) => honours /\ total <= Seen'
    <3>1. LinkExhausted(pg) => honours /\ ~ (Seen' < total)
      BY <1>8, <1>13 DEF LinkExhausted
    <3>2. Seen' \in Nat
      BY <1>9, <1>10, OnePageMore DEF Seen
    <3> QED
      BY <1>9, <3>1, <3>2
  <2>4. reason' = "UserLimit" => userLimit # None /\ cumulative' >= userLimit
    BY <2>1, <2>2 DEF Saturated
  <2>5. \/ honours /\ total <= Seen'
        \/ Len(rows) = 0
        \/ userLimit # None /\ cumulative' >= userLimit
        \/ totalCount' # None /\ cumulative' >= totalCount'
        \/ firstPageSize # None /\ Len(rows) < firstPageSize
    BY <1>13, <2>1, <2>2, <2>3
    DEF EmptyPage, Saturated, TotalReached, ShortPageWithoutLink
  <2>6. reason' \notin {None, "Runaway"}
    BY <2>1, PaginateAssumption
  <2> QED
    BY <1>16, <2>4, <2>5, <2>6 DEF Stops
<1> QED
  BY <1>5, <1>12, <1>14, <1>15, <1>16

(* What the invariant says of a walk that goes on.                         *)
LEMMA Running ==
    ASSUME IInv, status = "running"
    PROVE  /\ pagesSeen \in Nat /\ pageSize \in Nat \ {0} /\ Seen \in Nat /\ cumulative \in Nat
           /\ total \in Nat /\ atStart \in Nat /\ atStart <= total /\ total <= MaxRows
           /\ Len(got) \in Nat /\ DOMAIN got = 1..Len(got) /\ \A i \in 1..Len(got) : got[i] \in Nat
           /\ Len(got) = cumulative /\ cumulative <= Seen
           /\ userLimit # None => userLimit \in Nat
           /\ firstPageSize # None => firstPageSize \in Nat
           /\ totalCount # None => totalCount \in Nat
           /\ reason = None /\ page = pagesSeen + 1 /\ pagesSeen < MAX_PAGES
           /\ honours \in BOOLEAN
<1>1. TypeOK /\ InStep /\ Counted
  BY DEF IInv
<1>2. got \in Seq(1..MaxRows)
  BY <1>1 DEF TypeOK
<1>3. Len(got) \in Nat /\ DOMAIN got = 1..Len(got) /\ \A i \in 1..Len(got) : got[i] \in 1..MaxRows
  BY <1>2, LenProperties, ElementOfSeq
<1>4. pagesSeen \in Nat /\ pageSize \in Nat \ {0}
  BY <1>1, PaginateAssumption DEF TypeOK
<1>5. Seen \in Nat
  BY <1>4, OnePageMore DEF Seen
<1> QED
  BY <1>1, <1>3, <1>4, <1>5, PaginateAssumption DEF TypeOK, InStep, Counted

(* Types, counts and what is remembered, after a response.                 *)
LEMMA ReadCounts ==
    ASSUME IInv, status = "running", NEW first, NEW size, NEW rows, NEW k,
           PageRead(first, size, rows, k), GoesOn \/ GivesUp(rows) \/ Stops(rows)
    PROVE  TypeOK' /\ InStep' /\ Counted'
<1>1. TypeOK
  BY DEF IInv
<1>2. Len(rows) \in Nat /\ Len(rows) <= pageSize /\ k \in Nat /\ k <= Len(rows)
  BY Running DEF PageRead, Sizes, Counts, Appends
<1>3. UNCHANGED <<driver, userLimit, start, pageSize, headers, honours, nulls, atStart, total>>
  BY DEF PageRead, Sizes, Counts, Appends, config
<1>4. Len(got') = Len(got) + k
  BY DEF PageRead, Sizes, Counts, Appends
<1>5. TypeOK'
  <2>1. page' \in Nat \ {0} /\ pagesSeen' \in 0..MAX_PAGES
    <3>1. pagesSeen \in Nat /\ pagesSeen < MAX_PAGES /\ page \in Nat \ {0} /\ MAX_PAGES \in Nat
      BY <1>1, PaginateAssumption, Running DEF TypeOK
    <3>2. pagesSeen' = pagesSeen + 1
      BY DEF PageRead, Counts
    <3>3. page' = page \/ page' = pagesSeen' + 1
      BY DEF GoesOn, GivesUp, Stops
    <3> QED
      BY <3>1, <3>2, <3>3
  <2>2. taken' \in 0..Len(got')
    BY <1>1, <1>2, <1>4, Running DEF TypeOK, GoesOn, GivesUp, Stops
  <2>3. cumulative' \in Nat /\ firstPageSize' \in Nat \union {None}
        /\ totalCount' \in Nat \union {None}
    <3>1. /\ cumulative \in Nat /\ firstPageSize \in Nat \union {None}
          /\ totalCount \in Nat \union {None} /\ total \in Nat
      BY <1>1, Running DEF TypeOK
    <3>2. /\ cumulative' = cumulative + Len(rows)
          /\ firstPageSize' = (IF firstPageSize = None THEN Len(rows) ELSE firstPageSize)
          /\ totalCount' = totalCount \/ totalCount' = total
      BY DEF PageRead, Counts
    <3> QED
      BY <1>2, <3>1, <3>2
  <2>4. status' \in {"running", "stopped", "failed"}
    BY DEF GoesOn, GivesUp, Stops
  <2>5. got' \in Seq(1..MaxRows)
    BY DEF PageRead, Sizes, Counts, Appends
  <2> QED
    BY <1>1, <1>3, <2>1, <2>2, <2>3, <2>4, <2>5 DEF TypeOK
<1>6. InStep'
  BY Running DEF InStep, GoesOn, GivesUp, Stops
<1>7. Counted'
  <2>1. cumulative' <= Seen'
    <3>1. cumulative' = cumulative + Len(rows) /\ Seen' = Seen + pageSize
      BY DEF PageRead, Counts
    <3>2. cumulative \in Nat /\ Seen \in Nat /\ pageSize \in Nat /\ cumulative <= Seen
      BY Running
    <3> QED
      BY <1>2, <3>1, <3>2
  <2>2. ASSUME userLimit # None PROVE Len(got') <= userLimit
    BY <1>4, <2>2 DEF PageRead, Sizes, Counts, Appends
  <2>3. ASSUME status' = "running" \/ Unlimited' PROVE Len(got') = cumulative'
    <3>1. SUFFICES k = Len(rows)
      BY <1>4, Running DEF PageRead, Sizes, Counts, Appends
    <3>2. CASE userLimit = None
      BY <3>2 DEF PageRead, Sizes, Counts, Appends
    <3>3. CASE userLimit # None /\ Len(got') < userLimit
      BY <1>4, <3>3 DEF PageRead, Sizes, Counts, Appends
    <3>4. CASE userLimit # None /\ status' = "running"
      <4>1. cumulative + Len(rows) < userLimit
        BY <3>4 DEF GoesOn, GivesUp, Stops, PageRead, Sizes, Counts
      <4>2. Len(got) + k # userLimit
        BY <1>2, <4>1, <3>4, Running
      <4> QED
        BY <3>4, <4>2 DEF PageRead, Sizes, Counts, Appends
    <3> QED
      BY <1>3, <2>3, <3>2, <3>3, <3>4 DEF Unlimited
  <2>4. status' = "running" /\ userLimit # None => cumulative' < userLimit
    BY DEF GoesOn, GivesUp, Stops
  <2>5. ASSUME reason' = "UserLimit" PROVE userLimit # None /\ Len(got') = userLimit
    <3>1. userLimit # None /\ cumulative' >= userLimit
      BY <2>5, Running, PaginateAssumption DEF GoesOn, GivesUp, Stops
    <3>2. k = Len(rows) => Len(got') >= userLimit
      BY <1>4, <3>1, Running DEF PageRead, Sizes, Counts, Appends
    <3>3. Len(got) + k <= userLimit /\ (k = Len(rows) \/ Len(got) + k = userLimit)
      BY <3>1 DEF PageRead, Sizes
    <3>4. userLimit \in Nat /\ Len(got) \in Nat
      BY <3>1, Running
    <3> QED
      BY <1>2, <1>4, <3>1, <3>2, <3>3, <3>4
  <2> QED
    BY <1>3, <2>1, <2>2, <2>3, <2>4, <2>5 DEF Counted
<1> QED
  BY <1>5, <1>6, <1>7

(* What is remembered stays true: the first page is no longer than any     *)
(* page may be, and a total is that of a collection that only grows.       *)
LEMMA ReadRemembers ==
    ASSUME IInv, status = "running", NEW first, NEW size, NEW rows, NEW k,
           PageRead(first, size, rows, k)
    PROVE  Remembered'
<1>1. Len(rows) \in Nat /\ Len(rows) <= pageSize /\ size \in Nat /\ first \in Nat
      /\ Len(rows) <= size
  BY Running DEF PageRead, Sizes, Counts, Appends
<1>2. UNCHANGED <<userLimit, pageSize, honours, nulls, atStart, total>>
  BY DEF PageRead, Sizes, Counts, Appends, config
<1>3. Remembered
  BY DEF IInv
<1>4. totalCount' # None => atStart <= totalCount' /\ honours
  BY <1>3, Running DEF Remembered, PageRead, Sizes, Counts
<1>5. firstPageSize' # None /\ pagesSeen' > 0
  <2>1. Len(rows) # None /\ pagesSeen \in Nat
    BY <1>1, Running, PaginateAssumption
  <2> QED
    BY <2>1 DEF PageRead, Counts
<1>0. /\ size > 0 => first + size <= total
      /\ size < pageSize => total <= first + size
      /\ size <= pageSize
  <2>1. size \in 0..pageSize /\ pageSize \in Nat
    BY Running DEF PageRead, Sizes
  <2> QED
    BY <2>1 DEF PageRead, Sizes
<1>6. Len(rows) <= total
  BY <1>0, <1>1, Running
<1>7. firstPageSize' <= pageSize /\ firstPageSize' <= total
  BY <1>1, <1>3, <1>6 DEF Remembered, PageRead, Sizes, Counts
<1>8. ASSUME total = atStart, nulls = {} PROVE firstPageSize' = Lesser(pageSize, total)
  <2>1. CASE firstPageSize # None
    BY <1>3, <1>8, <2>1 DEF Remembered, PageRead, Sizes, Counts
  <2>2. CASE firstPageSize = None
    <3>1. pagesSeen = 0
      BY <1>3, <2>2, Running DEF Remembered
    <3>2. first = 0
      BY <3>1, Running DEF PageRead, Sizes, Counts, Appends, Seen
    <3>3. Len(rows) = size
      BY <1>8 DEF PageRead, Sizes, Counts, Appends
    <3>4. size = Lesser(pageSize, total)
      BY <1>0, <1>1, <3>2, Running DEF Lesser
    <3> QED
      BY <2>2, <3>3, <3>4 DEF PageRead, Sizes, Counts, Appends
  <2> QED
    BY <2>1, <2>2
<1> QED
  BY <1>2, <1>4, <1>5, <1>7, <1>8 DEF Remembered, Lesser

(* The rows of the page come after those seen, and those kept of it are    *)
(* the first of it.                                                        *)
LEMMA ReadOrdered ==
    ASSUME IInv, status = "running", NEW first, NEW size, NEW rows, NEW k,
           PageRead(first, size, rows, k)
    PROVE  Ordered'
<1> SUFFICES ASSUME honours PROVE Ordered'
  <2>1. honours' = honours
    BY DEF PageRead, Counts, config
  <2> QED
    BY <2>1 DEF Ordered
<1> DEFINE n == Len(got)
<1>1. /\ UNCHANGED <<atStart, nulls, honours>> /\ Seen' = Seen + pageSize
      /\ cumulative' = cumulative + Len(rows) /\ n = cumulative
  BY Running DEF PageRead, Counts, config
<1>2. /\ n \in Nat /\ Seen \in Nat /\ pageSize \in Nat /\ total \in Nat /\ atStart \in Nat
      /\ atStart <= total /\ DOMAIN got = 1..n /\ \A i \in 1..n : got[i] \in Nat
  BY Running
<1>3. /\ first = Seen /\ size \in Nat /\ size <= pageSize
      /\ size < pageSize => total <= Seen + size
      /\ Len(rows) \in Nat /\ k \in Nat /\ k <= Len(rows)
  <2>1. /\ first = Seen /\ size \in 0..pageSize /\ Len(rows) \in 0..size /\ k \in 0..Len(rows)
        /\ size < pageSize => total <= first + size
    BY DEF PageRead, Sizes
  <2> QED
    BY <1>2, <2>1
<1>4. /\ \A i \in 1..n : got[i] <= Seen
      /\ \A i, j \in 1..n : i < j => got[i] < got[j]
      /\ \A row \in (1..atStart) \ nulls : row <= Seen => row \in Range(got)
  BY <1>1, <1>2 DEF IInv, Ordered
<1>5. /\ \A i \in 1..Len(rows) : rows[i] \in (Seen + 1)..(Seen + size)
      /\ \A i, j \in 1..Len(rows) : i < j => rows[i] < rows[j]
      /\ \A row \in ((Seen + 1)..(Seen + size)) \ nulls : \E i \in 1..Len(rows) : rows[i] = row
  BY <1>3 DEF PageRead, Items
<1>6. /\ DOMAIN got' = 1..(n + k) /\ Len(got') = n + k
      /\ \A i \in 1..n : got'[i] = got[i]
      /\ \A i \in 1..k : got'[n + i] = rows[i]
  <2>1. /\ got' \in Seq(1..MaxRows) /\ Len(got') = n + k
        /\ \A i \in 1..n : got'[i] = got[i]
        /\ \A i \in 1..k : got'[n + i] = rows[i]
    BY DEF PageRead, Appends
  <2> QED
    BY <2>1, LenProperties
<1>7. Range(got) = {got[i] : i \in 1..n} /\ Range(got') = {got'[i] : i \in 1..(n + k)}
  BY <1>2, <1>6 DEF Range
<1> HIDE DEF n
<1>8. \A i \in 1..(n + k) : i \in 1..n \/ (i - n \in 1..k /\ n + (i - n) = i)
  BY <1>2, <1>3
<1>9. Range(got) \subseteq Range(got')
  <2>1. 1..n \subseteq 1..(n + k)
    BY <1>2, <1>3
  <2> QED
    BY <1>6, <1>7, <2>1
<1>10. ASSUME NEW i \in 1..k
       PROVE  /\ i \in 1..Len(rows) /\ got'[n + i] = rows[i] /\ rows[i] \in Nat
              /\ rows[i] > Seen /\ rows[i] <= Seen + pageSize
  <2>1. i \in 1..Len(rows)
    BY <1>3
  <2> QED
    BY <1>2, <1>3, <1>5, <1>6, <2>1
<1>11. ASSUME NEW i \in 1..(n + k) PROVE got'[i] <= Seen'
  <2>1. CASE i \in 1..n
    BY <1>1, <1>2, <1>4, <1>6, <2>1
  <2>2. CASE i - n \in 1..k /\ n + (i - n) = i
    BY <1>1, <1>10, <2>2
  <2> QED
    BY <1>8, <2>1, <2>2
<1>12. ASSUME NEW i \in 1..(n + k), NEW j \in 1..(n + k), i < j PROVE got'[i] < got'[j]
  <2>1. CASE i \in 1..n /\ j \in 1..n
    BY <1>4, <1>6, <1>12, <2>1
  <2>2. CASE i \in 1..n /\ j - n \in 1..k /\ n + (j - n) = j
    <3>1. got'[i] \in Nat /\ got'[i] <= Seen
      BY <1>2, <1>4, <1>6, <2>2
    <3>2. got'[j] \in Nat /\ got'[j] > Seen
      BY <1>10, <2>2
    <3> QED
      BY <1>2, <3>1, <3>2
  <2>3. CASE i - n \in 1..k /\ n + (i - n) = i /\ j - n \in 1..k /\ n + (j - n) = j
    <3>1. got'[i] = rows[i - n] /\ got'[j] = rows[j - n]
          /\ i - n \in 1..Len(rows) /\ j - n \in 1..Len(rows)
      BY <1>10, <2>3
    <3>2. i - n < j - n
      BY <1>2, <1>12
    <3> QED
      BY <1>5, <3>1, <3>2
  <2>4. CASE j \in 1..n /\ i - n \in 1..k
    BY <1>2, <1>12, <2>4
  <2> QED
    BY <1>8, <2>1, <2>2, <2>3, <2>4
<1>13. ASSUME NEW row \in (1..atStart) \ nulls, row > Seen, row <= Seen + size
       PROVE  \E j \in 1..Len(rows) : rows[j] = row
  BY <1>2, <1>3, <1>5, <1>13
<1>14. ASSUME Len(got') = cumulative', NEW row \in (1..atStart) \ nulls, row <= Seen'
       PROVE  row \in Range(got')
  <2>1. k = Len(rows)
    BY <1>1, <1>2, <1>3, <1>6, <1>14
  <2>2. CASE row <= Seen
    BY <1>4, <1>9, <2>2
  <2>3. CASE ~ (row <= Seen)
    <3>1. row > Seen /\ row <= Seen + size
      BY <1>1, <1>2, <1>3, <1>14, <2>3
    <3>2. PICK j \in 1..Len(rows) : rows[j] = row
      BY <1>13, <3>1
    <3>3. got'[n + j] = row /\ n + j \in 1..(n + k)
      BY <1>2, <1>6, <2>1, <3>2
    <3> QED
      BY <1>7, <3>3
  <2> QED
    BY <2>2, <2>3
<1>15. ASSUME NEW i \in 1..(n + k), NEW row \in (1..atStart) \ nulls, row < got'[i]
       PROVE  row \in Range(got')
  <2>1. CASE row <= Seen
    BY <1>4, <1>9, <2>1
  <2>2. CASE ~ (row <= Seen)
    <3>1. ~ (i \in 1..n)
      BY <1>2, <1>4, <1>6, <1>15, <2>2
    <3>2. i - n \in 1..k /\ n + (i - n) = i
      BY <1>8, <3>1
    <3>3. got'[i] = rows[i - n] /\ rows[i - n] \in (Seen + 1)..(Seen + size)
          /\ i - n \in 1..Len(rows)
      BY <1>5, <1>10, <3>2
    <3>4. row > Seen /\ row <= Seen + size
      BY <1>2, <1>3, <1>15, <2>2, <3>3
    <3>5. PICK j \in 1..Len(rows) : rows[j] = row
      BY <1>13, <3>4
    <3>6. ~ (i - n < j) /\ j # i - n
      <4>1. rows[i - n] \in Nat /\ rows[j] < rows[i - n]
        BY <1>15, <1>2, <1>3, <3>3, <3>5
      <4>2. rows[j] \in Nat
        BY <3>5
      <4> QED
        BY <1>5, <3>3, <4>1, <4>2
    <3>7. j \in 1..k /\ n + j \in 1..(n + k)
      BY <1>2, <1>3, <3>2, <3>6
    <3>8. got'[n + j] = row
      BY <1>6, <3>5, <3>7
    <3> QED
      BY <1>7, <3>7, <3>8
  <2> QED
    BY <2>1, <2>2
<1> QED
  BY <1>1, <1>6, <1>11, <1>12, <1>14, <1>15 DEF Ordered

(* A walk that stops short of --limit has read to the end.                 *)
LEMMA ReadExhausted ==
    ASSUME IInv, status = "running", NEW first, NEW size, NEW rows, NEW k,
           PageRead(first, size, rows, k), GoesOn \/ GivesUp(rows) \/ Stops(rows)
    PROVE  Exhausted'
<1> SUFFICES ASSUME Stops(rows), Unlimited', nulls = {}
             PROVE  atStart <= Seen' /\ (honours \/ atStart = 0)
  <2>1. UNCHANGED <<atStart, nulls, honours>>
    BY DEF PageRead, Counts, config
  <2> QED
    BY <2>1 DEF Exhausted, GoesOn, GivesUp
<1>1. /\ first = (IF honours THEN Seen ELSE 0) /\ size \in 0..pageSize /\ Len(rows) = size
      /\ size > 0 => first + size <= total
      /\ size < pageSize => total <= first + size
  BY DEF PageRead, Sizes
<1>2. /\ Seen \in Nat /\ pageSize \in Nat \ {0} /\ total \in Nat /\ atStart \in Nat
      /\ atStart <= total /\ honours \in BOOLEAN /\ cumulative \in Nat
  BY Running
<1>3. Seen' = Seen + pageSize
  BY DEF PageRead, Counts
<1>4. ~ (userLimit # None /\ cumulative' >= userLimit)
  <2>1. ASSUME userLimit # None, cumulative' >= userLimit PROVE FALSE
    <3>1. Len(got') < userLimit /\ Len(got') = cumulative' /\ userLimit \in Nat
      <4>1. Counted'
        BY ReadCounts
      <4>2. userLimit' = userLimit
        BY DEF PageRead, Counts, config
      <4> QED
        BY <2>1, <4>1, <4>2, Running DEF Counted, Unlimited
    <3> QED
      BY <2>1, <3>1
  <2> QED
    BY <2>1
<1>5. CASE honours /\ total <= Seen'
  BY <1>2, <1>3, <1>5
<1>6. CASE Len(rows) = 0
  <2>1. total <= first
    BY <1>1, <1>2, <1>6
  <2> QED
    BY <1>1, <1>2, <1>3, <2>1
<1>7. CASE totalCount' # None /\ cumulative' >= totalCount'
  <2>1. Remembered' /\ Counted' /\ TypeOK'
    BY ReadRemembers, ReadCounts
  <2>2. atStart' <= totalCount' /\ honours' /\ cumulative' <= Seen'
    BY <1>7, <2>1 DEF Remembered, Counted
  <2>3. totalCount' \in Nat /\ cumulative' \in Nat
    BY <1>7, <2>1 DEF TypeOK
  <2>4. atStart' = atStart /\ honours' = honours
    BY DEF PageRead, Counts, config
  <2> QED
    BY <1>2, <1>3, <1>7, <2>2, <2>3, <2>4
<1>8. CASE firstPageSize # None /\ Len(rows) < firstPageSize
  <2>1. firstPageSize \in Nat /\ firstPageSize <= pageSize /\ firstPageSize <= total
    BY <1>8, Running DEF IInv, Remembered
  <2>2. size < pageSize
    BY <1>1, <1>2, <1>8, <2>1
  <2>3. total <= first + size
    BY <1>1, <2>2
  <2> QED
    BY <1>1, <1>2, <1>3, <1>8, <2>1, <2>2, <2>3
<1> QED
  BY <1>4, <1>5, <1>6, <1>7, <1>8 DEF Stops

(* The ceiling is reached by a collection that is that long.               *)
LEMMA ReadRunaway ==
    ASSUME IInv, status = "running", NEW first, NEW size, NEW rows, NEW k,
           PageRead(first, size, rows, k), GoesOn \/ GivesUp(rows) \/ Stops(rows)
    PROVE  RunawayJustified'
<1> SUFFICES ASSUME GivesUp(rows), honours
             PROVE  /\ total > (MAX_PAGES - 1) * pageSize
                    /\ total = atStart /\ nulls = {} => total >= MAX_PAGES * pageSize
  <2>1. UNCHANGED <<atStart, nulls, honours, total, pageSize>>
    BY DEF PageRead, Counts, config
  <2>2. reason = None
    BY Running
  <2>3. reason' = "Runaway" => GivesUp(rows)
    BY <2>2, PaginateAssumption DEF GoesOn, GivesUp, Stops
  <2> QED
    BY <2>1, <2>3 DEF RunawayJustified
<1>1. /\ first = Seen /\ size \in 0..pageSize /\ Len(rows) \in 0..size
      /\ size > 0 => first + size <= total
      /\ size < pageSize => total <= first + size
      /\ nulls = {} => Len(rows) = size
  BY DEF PageRead, Sizes
<1>2. /\ Seen \in Nat /\ pageSize \in Nat \ {0} /\ total \in Nat /\ atStart \in Nat
      /\ pagesSeen \in Nat /\ pagesSeen < MAX_PAGES
  BY Running
<1>3. Seen' = Seen + pageSize /\ pagesSeen' = pagesSeen + 1
  BY DEF PageRead, Counts
<1>4. pagesSeen' >= MAX_PAGES /\ Len(rows) # 0
      /\ ((honours => Seen' < total) \/ firstPageSize = None \/ Len(rows) >= firstPageSize)
  BY DEF GivesUp
<1>5. pagesSeen = MAX_PAGES - 1 /\ pagesSeen > 0
  BY <1>2, <1>3, <1>4, PaginateAssumption
<1>6. Seen = (MAX_PAGES - 1) * pageSize
  BY <1>5 DEF Seen
<1>7. MAX_PAGES * pageSize = Seen'
  <2>1. (pagesSeen + 1) * pageSize = pagesSeen * pageSize + pageSize
    BY <1>2, OnePageMore
  <2>2. pagesSeen + 1 = MAX_PAGES
    BY <1>5, PaginateAssumption
  <2> QED
    BY <1>3, <2>1, <2>2 DEF Seen
<1>8. total > Seen
  BY <1>1, <1>2, <1>4
<1>9. ASSUME total = atStart, nulls = {} PROVE total >= Seen'
  <2>1. CASE Seen' < total
    BY <1>2, <1>3, <2>1
  <2>2. CASE firstPageSize = None \/ Len(rows) >= firstPageSize
    <3>1. firstPageSize # None /\ firstPageSize = Lesser(pageSize, total)
      BY <1>5, <1>9 DEF IInv, Remembered
    <3>2. size >= Lesser(pageSize, total)
      BY <1>1, <1>9, <2>2, <3>1
    <3>3. Lesser(pageSize, total) = pageSize \/ Lesser(pageSize, total) = total
      BY DEF Lesser
    <3>4. CASE Lesser(pageSize, total) = pageSize
      <4>1. size >= pageSize
        BY <3>2, <3>4
      <4> QED
        BY <1>1, <1>2, <1>3, <4>1
    <3>5. CASE Lesser(pageSize, total) = total
      <4>1. size >= total
        BY <3>2, <3>5
      <4>2. total <= pageSize
        BY <1>2, <3>5 DEF Lesser
      <4>3. Seen >= pageSize
        <5>1. pagesSeen - 1 \in Nat /\ (pagesSeen - 1) + 1 = pagesSeen
          BY <1>2, <1>5
        <5>2. /\ (pagesSeen - 1) * pageSize \in Nat
              /\ pagesSeen * pageSize = (pagesSeen - 1) * pageSize + pageSize
          BY <1>2, <5>1, OnePageMore
        <5> QED
          BY <1>2, <5>2 DEF Seen
      <4> QED
        BY <1>2, <1>8, <4>2, <4>3
    <3> QED
      BY <3>3, <3>4, <3>5
  <2> QED
    BY <1>4, <2>1, <2>2
<1> QED
  BY <1>6, <1>7, <1>8, <1>9

(* So a response keeps the invariant,                                      *)
LEMMA ResponseKeeps == ASSUME IInv, status = "running", Response PROVE IInv'
<1>1. PICK sawLink \in BOOLEAN, sawTotal \in BOOLEAN :
        /\ sawLink => "link" \in headers
        /\ sawTotal => "total" \in headers
        /\ Receive(sawLink, sawTotal)
  BY DEF Response
<1>2. PICK first, size, k, rows : /\ PageRead(first, size, rows, k)
                                  /\ GoesOn \/ GivesUp(rows) \/ Stops(rows)
  BY <1>1, ReadsPage
<1> QED
  BY <1>2, ReadCounts, ReadRemembers, ReadOrdered, ReadExhausted, ReadRunaway DEF IInv

(* and so does every step of either driver.                                *)
LEMMA WalkKeeps == ASSUME IInv, [Next]_vars PROVE IInv'
<1>1. CASE Grow
  BY <1>1, GrowKeeps
<1>2. CASE Hand
  BY <1>2, HandKeeps
<1>3. CASE Fetch
  <2>1. \/ Response
        \/ /\ UNCHANGED <<config, total, page, got, taken, paginator>>
           /\ \/ status' = "failed" /\ reason' = "Error"
              \/ Saturated(cumulative) /\ status' = "stopped" /\ reason' = "UserLimit"
    BY <1>3 DEF Fetch, Fails
  <2> QED
    BY <1>3, <2>1, ResponseKeeps, EndKeeps DEF Fetch
<1>4. CASE Walk
  <2>1. \/ Response
        \/ /\ UNCHANGED <<config, total, page, got, taken, paginator>>
           /\ status' = "failed" /\ reason' = "Error"
    BY <1>4 DEF Walk, Fails
  <2> QED
    BY <1>4, <2>1, ResponseKeeps, EndKeeps DEF Walk
<1>5. CASE UNCHANGED vars
  <2>1. UNCHANGED <<driver, userLimit, start, pageSize, headers, honours, nulls, atStart>>
        /\ UNCHANGED <<total, page, got, taken, status, reason>>
        /\ UNCHANGED <<cumulative, firstPageSize, totalCount, pagesSeen>>
    BY <1>5 DEF vars, config, paginator
  <2>2. Seen' = Seen /\ (Unlimited' <=> Unlimited)
    BY <2>1 DEF Seen, Unlimited
  <2> QED
    BY <2>1, <2>2 DEF IInv, TypeOK, InStep, Counted, Remembered, Ordered, Exhausted,
                      RunawayJustified
<1> QED
  BY <1>1, <1>2, <1>3, <1>4, <1>5 DEF Next

-----------------------------------------------------------------------------
(* IInv is an invariant of a walk from page 1: of both drivers, whatever   *)
(* headers are stripped, however small the pages are clamped and whether   *)
(* or not the server honours ?page.                                        *)
THEOREM WalkInductive == ASSUME StartPages = {1} PROVE Spec => []IInv
<1>1. Init => IInv
  BY WalkBegins
<1>2. IInv /\ [Next]_vars => IInv'
  BY WalkKeeps
<1> QED
  BY <1>1, <1>2, PTL DEF Spec

(* The variables of a walk have their types.                               *)
THEOREM WalkTypeCorrect == ASSUME StartPages = {1} PROVE Spec => []TypeOK
<1>1. IInv => TypeOK
  BY DEF IInv
<1> QED
  BY <1>1, WalkInductive, PTL

(* A walk that ends well without --limit has every row there was when it   *)
(* began: no stripped header, clamped page or added row makes Paginator    *)
(* stop early, as long as the server converts every row.                   *)
THEOREM WalkComplete == ASSUME StartPages = {1} PROVE Spec => []Complete
<1>1. ASSUME IInv, status = "stopped", userLimit = None, nulls = {}
      PROVE  1..atStart \subseteq Range(got)
  <2>1. atStart \in Nat
    BY <1>1, PaginateAssumption DEF IInv, TypeOK
  <2>2. Unlimited
    BY <1>1 DEF Unlimited
  <2>3. Len(got) = cumulative
    BY <1>1, <2>2 DEF IInv, Counted
  <2>4. atStart <= Seen /\ (honours \/ atStart = 0)
    BY <1>1, <2>2 DEF IInv, Exhausted
  <2>5. CASE honours
    <3>1. TypeOK /\ pageSize \in Nat /\ pagesSeen \in Nat
      BY <1>1, PaginateAssumption DEF IInv, TypeOK
    <3>2. Seen \in Nat
      BY <3>1, OnePageMore DEF Seen
    <3>3. \A row \in 1..atStart : row <= Seen
      BY <2>1, <2>4, <3>2
    <3>4. \A row \in 1..atStart : row <= Seen => row \in Range(got)
      BY <1>1, <2>3, <2>5 DEF IInv, Ordered
    <3> QED
      BY <3>3, <3>4
  <2>6. CASE atStart = 0
    BY <2>6
  <2> QED
    BY <2>4, <2>5, <2>6
<1>2. IInv => Complete
  BY <1>1 DEF Complete
<1> QED
  BY <1>2, WalkInductive, PTL

(* No row is handed out twice, even if the Link header is lost halfway,    *)
(* rows are added meanwhile and some of them do not convert.               *)
THEOREM RowsOnce == ASSUME StartPages = {1} PROVE Spec => []NoRowTwice
<1>1. ASSUME IInv, honours PROVE IsInjective(got)
  <2>1. \A i, j \in DOMAIN got : i < j => got[i] < got[j]
    BY <1>1 DEF IInv, Ordered
  <2>2. got \in Seq(1..MaxRows)
    BY <1>1 DEF IInv, TypeOK
  <2>3. DOMAIN got = 1..Len(got) /\ Len(got) \in Nat /\ \A i \in 1..Len(got) : got[i] \in 1..MaxRows
    BY <2>2, LenProperties, ElementOfSeq
  <2>4. ASSUME NEW i \in DOMAIN got, NEW j \in DOMAIN got, got[i] = got[j] PROVE i = j
    <3>1. i \in Nat /\ j \in Nat /\ got[i] \in Nat /\ got[j] \in Nat
      BY <2>3, PaginateAssumption
    <3>2. ~ (i < j) /\ ~ (j < i)
      BY <2>1, <2>4, <3>1
    <3> QED
      BY <3>1, <3>2
  <2> QED
    BY <2>4 DEF IsInjective
<1>2. IInv => NoRowTwice
  BY <1>1 DEF NoRowTwice
<1> QED
  BY <1>2, WalkInductive, PTL

(* --limit N hands out the first N rows: never more, and fewer only if     *)
(* there are no more or the server fails to convert some.                  *)
THEOREM LimitKept == ASSUME StartPages = {1} PROVE Spec => []LimitRespected
<1>1. ASSUME IInv, userLimit # None, status = "stopped", honours, Len(got) < userLimit,
             nulls = {}
      PROVE  1..atStart \subseteq Range(got)
  <2>1. atStart \in Nat /\ pageSize \in Nat /\ pagesSeen \in Nat
    BY <1>1, PaginateAssumption DEF IInv, TypeOK
  <2>2. Unlimited
    BY <1>1 DEF Unlimited
  <2>3. Len(got) = cumulative
    BY <1>1, <2>2 DEF IInv, Counted
  <2>4. atStart <= Seen /\ Seen \in Nat
    BY <1>1, <2>1, <2>2, OnePageMore DEF IInv, Exhausted, Seen
  <2>5. \A row \in 1..atStart : row <= Seen
    BY <2>1, <2>4
  <2>6. \A row \in 1..atStart : row <= Seen => row \in Range(got)
    BY <1>1, <2>3 DEF IInv, Ordered
  <2> QED
    BY <2>5, <2>6
<1>2. ASSUME IInv, userLimit # None
      PROVE  Len(got) <= userLimit /\ (reason = "UserLimit" => Len(got) = userLimit)
  BY <1>2 DEF IInv, Counted
<1>3. ASSUME IInv, honours
      PROVE  \A i \in DOMAIN got :
                \A row \in (1..atStart) \ nulls : row < got[i] => row \in Range(got)
  BY <1>3 DEF IInv, Ordered
<1>4. IInv => LimitRespected
  BY <1>1, <1>2, <1>3 DEF LimitRespected
<1> QED
  BY <1>4, WalkInductive, PTL

(* "Pagination did not terminate" is only said of a collection that really *)
(* reaches past the last page the ceiling allows.                          *)
THEOREM RunawayRight == ASSUME StartPages = {1} PROVE Spec => []RunawayJustified
<1>1. IInv => RunawayJustified
  BY DEF IInv
<1> QED
  BY <1>1, WalkInductive, PTL

-----------------------------------------------------------------------------
(* The shared probe.                                                       *)

(* A stored capability is never taken for no probe at all.                 *)
LEMMA NothingIsNoCapability ==
    ASSUME NEW c \in Capability PROVE c # Nothing /\ c.at \in Nat
BY CapabilitiesAssumption, SMT DEF Capability, Nothing

(* Initially no task probes and the cache is cold.                         *)
LEMMA CapsInitially == CapsInit => CapsIInv
BY CapabilitiesAssumption, SMT
DEF CapsInit, CapsIInv, CapsTypeOK, ProbeNeeded, GateHeld, AnswersExact, Idle, Nothing, Capability,
    Endpoints

(* A cached answer handed out is exact, and of the cache's type.           *)
LEMMA HandOut ==
    ASSUME CapsIInv, NEW t \in Tasks, Fresh, Answered(t, cache),
           pc[t] # "probing", UNCHANGED <<serves, gate, probe, cache, clock>>
    PROVE  CapsIInv'
<1>1. cache \in Capability /\ cache.known = serves
  BY DEF CapsIInv, CapsTypeOK, AnswersExact, Fresh
<1>2. CapsTypeOK'
  BY <1>1 DEF CapsIInv, CapsTypeOK, Answered, probe, Idle
<1>3. \A u \in Tasks : (pc[u] = "probing") <=> (pc'[u] = "probing")
  BY DEF CapsIInv, CapsTypeOK, Answered
<1>4. ProbeNeeded'
  BY <1>3 DEF CapsIInv, CapsTypeOK, ProbeNeeded, Fresh
<1>5. GateHeld'
  BY <1>3 DEF CapsIInv, CapsTypeOK, GateHeld
<1>6. AnswersExact'
  BY <1>1, <1>3 DEF CapsIInv, CapsTypeOK, AnswersExact, Answered, probe
<1> QED
  BY <1>2, <1>4, <1>5, <1>6 DEF CapsIInv

(* A task that finds the cache cold waits.                                 *)
LEMMA CallKeeps ==
    ASSUME CapsIInv, NEW t \in Tasks, Call(t) PROVE CapsIInv'
<1>1. CASE Fresh /\ Answered(t, cache)
  BY <1>1, HandOut DEF Call, Idle
<1>2. CASE ~Fresh /\ pc' = [pc EXCEPT ![t] = "waiting"] /\ result' = [result EXCEPT ![t] = Nothing]
  <2>1. CapsTypeOK'
    BY <1>2 DEF CapsIInv, CapsTypeOK, Call, probe, Idle
  <2>2. ProbeNeeded' /\ GateHeld'
    BY <1>2 DEF CapsIInv, CapsTypeOK, ProbeNeeded, GateHeld, Call, probe, Idle, Fresh
  <2>3. AnswersExact'
    BY <1>2 DEF CapsIInv, CapsTypeOK, AnswersExact, Call, probe, Idle
  <2> QED
    BY <2>1, <2>2, <2>3 DEF CapsIInv
<1> QED
  BY <1>1, <1>2 DEF Call

(* The task that takes the gate is the only one to probe, and needs to.    *)
LEMMA EnterKeeps ==
    ASSUME CapsIInv, NEW t \in Tasks, Enter(t) PROVE CapsIInv'
<1>1. CASE Fresh /\ Answered(t, cache) /\ UNCHANGED <<gate, probe>>
  BY <1>1, HandOut DEF Enter
<1>2. CASE ~Fresh /\ StartProbe(t)
  <2>1. CapsTypeOK'
    BY <1>2 DEF CapsIInv, CapsTypeOK, Enter, StartProbe, Endpoints
  <2>2. \A u \in Tasks : pc[u] # "probing"
    BY CapabilitiesAssumption DEF CapsIInv, ProbeNeeded, Enter
  <2>3. ProbeNeeded' /\ GateHeld'
    BY <1>2, <2>2 DEF CapsIInv, CapsTypeOK, ProbeNeeded, GateHeld, Enter, StartProbe, Fresh
  <2>4. AnswersExact'
    BY <1>2, <2>2 DEF CapsIInv, CapsTypeOK, AnswersExact, Enter, StartProbe, Endpoints
  <2> QED
    BY <2>1, <2>3, <2>4 DEF CapsIInv
<1> QED
  BY <1>1, <1>2 DEF Enter

(* A request of a probe ends.                                              *)
LEMMA AnswerKeeps ==
    ASSUME CapsIInv, NEW t \in Tasks, NEW e \in Endpoints, Answer(t, e) PROVE CapsIInv'
<1>1. CapsTypeOK'
  BY DEF CapsIInv, CapsTypeOK, Answer
<1>2. ProbeNeeded' /\ GateHeld'
  BY DEF CapsIInv, CapsTypeOK, ProbeNeeded, GateHeld, Answer, Fresh
<1>3. AnswersExact'
  BY DEF CapsIInv, CapsTypeOK, AnswersExact, Answer
<1> QED
  BY <1>1, <1>2, <1>3 DEF CapsIInv

(* The gate falls back with an exact answer in the cache.                  *)
LEMMA FinishKeeps ==
    ASSUME CapsIInv, NEW t \in Tasks, Finish(t) PROVE CapsIInv'
<1>1. answered[t] = serves /\ answered[t] \subseteq Endpoints
  BY DEF CapsIInv, CapsTypeOK, AnswersExact, Finish
<1>2. cache' \in Capability /\ cache'.known = serves /\ cache'.at = clock
  BY <1>1 DEF Finish, CapsIInv, CapsTypeOK, Capability
<1>3. CapsTypeOK'
  BY <1>2 DEF CapsIInv, CapsTypeOK, Finish, Answered, Idle
<1>4. \A u \in Tasks : pc'[u] # "probing"
  BY DEF CapsIInv, CapsTypeOK, ProbeNeeded, Finish, Answered
<1>5. ProbeNeeded' /\ GateHeld'
  BY <1>4 DEF ProbeNeeded, GateHeld, Finish
<1>6. AnswersExact'
  BY <1>2, <1>4 DEF CapsIInv, CapsTypeOK, AnswersExact, ProbeNeeded, Finish, Answered
<1> QED
  BY <1>3, <1>5, <1>6 DEF CapsIInv

(* A dropped holder takes its probe along and leaves the gate.             *)
LEMMA CancelKeeps ==
    ASSUME CapsIInv, NEW t \in Tasks, Cancel(t) PROVE CapsIInv'
<1>1. CapsTypeOK'
  BY DEF CapsIInv, CapsTypeOK, Cancel, Idle
<1>2. ProbeNeeded' /\ GateHeld'
  BY DEF CapsIInv, CapsTypeOK, ProbeNeeded, GateHeld, Cancel, Fresh
<1>3. AnswersExact'
  BY DEF CapsIInv, CapsTypeOK, AnswersExact, Cancel
<1> QED
  BY <1>1, <1>2, <1>3 DEF CapsIInv

(* Time only makes a cold cache colder.                                    *)
LEMMA TickKeeps ==
    ASSUME CapsIInv, Tick PROVE CapsIInv'
<1>1. CapsTypeOK'
  BY CapabilitiesAssumption DEF CapsIInv, CapsTypeOK, Tick, probe, Capability, Nothing
<1>2. ProbeNeeded'
  BY CapabilitiesAssumption, NothingIsNoCapability
  DEF CapsIInv, CapsTypeOK, ProbeNeeded, Tick, Fresh, Nothing
<1>3. GateHeld' /\ AnswersExact'
  BY DEF CapsIInv, GateHeld, AnswersExact, Tick, probe
<1> QED
  BY <1>1, <1>2, <1>3 DEF CapsIInv

(* Every step keeps the invariant.                                         *)
LEMMA CapsKeep == CapsIInv /\ [CapsNext]_capsVars => CapsIInv'
<1> SUFFICES ASSUME CapsIInv, [CapsNext]_capsVars PROVE CapsIInv'
  OBVIOUS
<1>1. CASE Tick
  BY <1>1, TickKeeps
<1>2. ASSUME NEW t \in Tasks, Task(t) PROVE CapsIInv'
  BY <1>2, CallKeeps, EnterKeeps, AnswerKeeps, FinishKeeps, CancelKeeps DEF Task
<1>3. CASE UNCHANGED capsVars
  BY <1>3 DEF capsVars, probe, CapsIInv, CapsTypeOK, ProbeNeeded, GateHeld, AnswersExact, Fresh
<1> QED
  BY <1>1, <1>2, <1>3 DEF CapsNext

(* The inductive invariant: whatever tasks call, wait, probe or are        *)
(* dropped, the gate is held by a probing task or by nobody and the cache  *)
(* is cold while it is.                                                    *)
THEOREM CapsInductive == CapsSpec => []CapsIInv
BY CapsInitially, CapsKeep, PTL DEF CapsSpec

(* Every variable of the shared probe keeps its type.                      *)
THEOREM CapsTypeCorrect == CapsSpec => []CapsTypeOK
<1>1. CapsIInv => CapsTypeOK
  BY DEF CapsIInv
<1> QED
  BY <1>1, CapsInductive, PTL

(* Concurrent first calls of Client::capabilities probe once, not once     *)
(* each, for any number of them.                                           *)
THEOREM ProbesOnce == CapsSpec => []OneProbe
<1>1. CapsIInv => OneProbe
  BY DEF CapsIInv, ProbeNeeded, OneProbe
<1> QED
  BY <1>1, CapsInductive, PTL

(* What a call returns rests on exactly the endpoints the instance serves. *)
THEOREM Independent == CapsSpec => []EndpointsIndependent
<1>1. CapsIInv => EndpointsIndependent
  BY DEF CapsIInv, AnswersExact, EndpointsIndependent
<1> QED
  BY <1>1, CapsInductive, PTL

(* Two probes of one client are a whole lifetime apart.                    *)
THEOREM OncePerLifetime == CapsSpec => ProbesApart
<1>1. ASSUME CapsIInv, [CapsNext]_capsVars
      PROVE  [cache' # cache => cache = Nothing \/ cache'.at - cache.at >= TTL]_capsVars
  <2>1. SUFFICES ASSUME cache' # cache PROVE cache = Nothing \/ cache'.at - cache.at >= TTL
    OBVIOUS
  <2>2. PICK t \in Tasks : Finish(t)
    BY <1>1, <2>1
    DEF CapsNext, Task, Tick, Call, Enter, Answer, Cancel, capsVars
  <2>3. ~Fresh /\ cache'.at = clock
    BY <1>1, <2>2 DEF Finish, CapsIInv, ProbeNeeded
  <2>4. cache = Nothing \/ cache.at \in Nat
    BY <1>1, NothingIsNoCapability DEF CapsIInv, CapsTypeOK
  <2> QED
    BY <1>1, <2>3, <2>4, CapabilitiesAssumption DEF Fresh, CapsIInv, CapsTypeOK
<1> QED
  BY <1>1, CapsInductive, PTL DEF CapsSpec, ProbesApart

(* No call returns an answer past its lifetime.                            *)
THEOREM NoStaleAnswer == CapsSpec => AnswersFresh
<1> DEFINE Good == \A t \in Tasks : pc[t] # "done" /\ pc'[t] = "done"
                      => result'[t] # Nothing /\ clock - result'[t].at < TTL
<1>1. ASSUME CapsIInv, [CapsNext]_capsVars PROVE [Good]_capsVars
  <2>1. SUFFICES ASSUME NEW t \in Tasks, pc[t] # "done", pc'[t] = "done"
                 PROVE  result'[t] # Nothing /\ clock - result'[t].at < TTL
    OBVIOUS
  <2>2. \/ Fresh /\ Answered(t, cache)
        \/ Finish(t)
    BY <1>1, <2>1
    DEF CapsNext, Task, Tick, Call, Enter, StartProbe, Answer, Cancel, Finish, Answered, capsVars,
        CapsIInv, CapsTypeOK
  <2>3. CASE Fresh /\ Answered(t, cache)
    BY <1>1, <2>3 DEF Fresh, Answered, CapsIInv, CapsTypeOK
  <2>4. CASE Finish(t)
    <3>1. result'[t] = cache' /\ cache'.at = clock
      BY <1>1, <2>4 DEF Finish, Answered, CapsIInv, CapsTypeOK
    <3>2. cache' # Nothing
      BY <1>1, <3>1, CapabilitiesAssumption DEF Nothing, CapsIInv, CapsTypeOK
    <3> QED
      BY <1>1, <3>1, <3>2, CapabilitiesAssumption DEF CapsIInv, CapsTypeOK
  <2> QED
    BY <2>2, <2>3, <2>4
<1> QED
  BY <1>1, CapsInductive, PTL DEF CapsSpec, AnswersFresh
=============================================================================
