---------------------------- MODULE PagingProofs ----------------------------
(***************************************************************************)
(* Theorems of Paging, for any finite set of rows, any pages, page sizes,  *)
(* dates and searches.  They follow from Inductive, which says how far the *)
(* client's walk has come in the list as it stands now (Reach), by place   *)
(* of a row (Rank).                                                        *)
(***************************************************************************)
EXTENDS Paging, FiniteSetTheorems, TLAPS

\* The first row of a list, which has the greatest key, has place 1.
Rank(S, k) == Cardinality({j \in S : j >= k})

-----------------------------------------------------------------------------
(* How far a walk has come.                                                *)

Walking == at \in {"queries", "answered"}

\* The last place that the pages read so far reach down to.
Reach == IF queried THEN Skip(page, perPage) + Take(list, perPage) ELSE Skip(page, perPage)

\* The present page counts as seen as soon as it is read.
Reading == at = "queries" /\ queried
SeenNow == IF Reading THEN seen \cup found ELSE seen
ServedNow == IF Reading THEN served + Cardinality(found) ELSE served

\* What is still to come, and what will come again.
Unseen == before \ SeenNow
Repeated == {k \in SeenNow : Rank(Matching, k) > Reach}

NothingYet ==
    /\ found = {} /\ ~queried /\ total = Uncounted
    /\ seen = {} /\ served = 0 /\ before = {} /\ arrived = {} /\ late = {}

\* Rows only move down the list, so none that is unseen is above the pages read; and a
\* row seen is below them only because another came, which moves one row past them.
WalkAt ==
    /\ \A k \in Unseen : Rank(Matching, k) > Reach
    /\ ServedNow + Cardinality(Repeated) <= Cardinality(SeenNow) + Cardinality(arrived)

\* What the count tells of the table and of the rows still to come.
CountAt ==
    /\ total # Uncounted => total <= Cardinality(Matching)
    /\ ~queried /\ total = Uncounted => late = {}
    /\ ~queried /\ total # Uncounted => Cardinality(Matching) <= total + Cardinality(late)
    /\ queried /\ total # Uncounted /\ total <= Reach => Cardinality(Unseen) <= Cardinality(late)

\* A page that was followed to has rows.
PageAt ==
    /\ ~queried => found = {}
    /\ at = "answered" \/ seen # {} => page >= 1 /\ perPage >= 1
    /\ seen # {} \/ found # {} => Cardinality(Matching) > Skip(page, perPage)
    /\ seen # {} /\ queried => found # {}
    /\ at = "answered" =>
          /\ queried /\ total # Uncounted /\ found \subseteq seen
          /\ next = NextPage(page, total, perPage)

Inductive ==
    /\ TypeOK
    /\ before \subseteq filter
    /\ served <= Cardinality(seen) + Cardinality(arrived)
    /\ at = "idle" => NothingYet
    /\ Walking => WalkAt /\ CountAt /\ PageAt

-----------------------------------------------------------------------------
(* Places of rows in a list.                                               *)

LEMMA RankRange ==
    ASSUME NEW S, S \subseteq Nat, IsFiniteSet(S), NEW k \in S
    PROVE  /\ Cardinality(S) \in Nat /\ Rank(S, k) \in 1 .. Cardinality(S)
           /\ IsFiniteSet({j \in S : j >= k})
<1> DEFINE T == {j \in S : j >= k}
<1>1. T \in SUBSET S /\ k \in T
  OBVIOUS
<1>2. IsFiniteSet(T) /\ Cardinality(T) <= Cardinality(S)
  BY <1>1, FS_Subset
<1>3. Cardinality(S) \in Nat /\ Cardinality(T) \in Nat
  BY <1>2, FS_CardinalityType
<1>4. Cardinality(T) # 0
  BY <1>1, <1>2, FS_EmptySet
<1>5. QED BY <1>2, <1>3, <1>4 DEF Rank

\* A greater key has a smaller place, so that no two rows have the same.
LEMMA RankOrder ==
    ASSUME NEW S, S \subseteq Nat, IsFiniteSet(S), NEW j \in S, NEW k \in S, j < k
    PROVE  Rank(S, k) < Rank(S, j)
<1> DEFINE T == {i \in S : i >= j}
           U == {i \in S : i >= k}
<1>1. IsFiniteSet(T) /\ Cardinality(T) \in Nat
  BY RankRange, FS_CardinalityType
<1>2. U \in SUBSET T /\ j \in T /\ j \notin U
  <2>1. j \in Int /\ k \in Int /\ \A i \in S : i \in Int
    OBVIOUS
  <2>2. \A i \in U : i \in T
    BY <2>1
  <2>3. j \in T /\ ~(j >= k)
    BY <2>1
  <2>4. QED BY <2>2, <2>3
<1>3. Cardinality(U) <= Cardinality(T) /\ Cardinality(U) # Cardinality(T) /\ IsFiniteSet(U)
  BY <1>1, <1>2, FS_Subset
<1>4. Cardinality(U) \in Nat
  BY <1>3, FS_CardinalityType
<1>5. QED BY <1>1, <1>3, <1>4 DEF Rank

LEMMA RankDistinct ==
    ASSUME NEW S, S \subseteq Nat, IsFiniteSet(S), NEW j \in S, NEW k \in S,
           Rank(S, j) = Rank(S, k)
    PROVE  j = k
<1>1. j \in Int /\ k \in Int
  OBVIOUS
<1>2. Rank(S, j) \in Int /\ Rank(S, k) \in Int
  <2>1. Cardinality(S) \in Nat /\ Rank(S, j) \in 1 .. Cardinality(S)
        /\ Rank(S, k) \in 1 .. Cardinality(S)
    BY RankRange
  <2>2. QED BY <2>1
<1>3. ASSUME j < k PROVE FALSE
  <2>1. Rank(S, k) < Rank(S, j)
    BY <1>3, RankOrder
  <2>2. QED BY <1>2, <2>1
<1>4. ASSUME k < j PROVE FALSE
  <2>1. Rank(S, j) < Rank(S, k)
    BY <1>4, RankOrder
  <2>2. QED BY <1>2, <2>1
<1>5. QED BY <1>1, <1>3, <1>4

\* Every place up to the length of the list is some row's.
LEMMA RankOnto ==
    ASSUME NEW S, S \subseteq Nat, IsFiniteSet(S), NEW n \in 1 .. Cardinality(S)
    PROVE  \E k \in S : Rank(S, k) = n
<1> DEFINE m == Cardinality(S)
           f == [k \in S |-> Rank(S, k)]
<1>1. m \in Nat
  BY FS_CardinalityType
<1>2. IsFiniteSet(1 .. m) /\ Cardinality(1 .. m) = m
  BY <1>1, FS_Interval
<1>3. f \in [S -> 1 .. m]
  BY RankRange
<1>4. \A j, k \in S : f[j] = f[k] => j = k
  BY RankDistinct
<1>5. f \in Injection(S, 1 .. m)
  BY <1>3, <1>4 DEF Injection, IsInjective
<1>6. f \in Surjection(S, 1 .. m)
  BY <1>2, <1>5, FS_Injection
<1>7. QED BY <1>6 DEF Surjection

\* Rows at places in lo + 1 .. hi are no more than these places.
LEMMA RowsBetween ==
    ASSUME NEW S, S \subseteq Nat, IsFiniteSet(S), NEW lo \in Int, NEW hi \in Int, lo <= hi,
           NEW T, T \subseteq S, \A k \in T : lo < Rank(S, k) /\ Rank(S, k) <= hi
    PROVE  IsFiniteSet(T) /\ Cardinality(T) \in Nat /\ Cardinality(T) <= hi - lo
<1> DEFINE f == [k \in T |-> Rank(S, k)]
           R == (lo + 1) .. hi
<1>1. IsFiniteSet(R) /\ Cardinality(R) = hi - lo
  <2>1. lo + 1 \in Int /\ hi \in Int
    OBVIOUS
  <2>2. IsFiniteSet(R) /\ Cardinality(R) = IF lo + 1 > hi THEN 0 ELSE hi - (lo + 1) + 1
    BY <2>1, FS_Interval
  <2>3. QED BY <2>2
<1>2. f \in [T -> R] /\ \A j, k \in T : f[j] = f[k] => j = k
  <2>1. \A k \in T : Rank(S, k) \in Int
    <3>1. ASSUME NEW k \in T PROVE Rank(S, k) \in 1 .. Cardinality(S) /\ Cardinality(S) \in Nat
      BY RankRange
    <3>2. QED BY <3>1
  <2>2. \A k \in T : Rank(S, k) \in R
    BY <2>1
  <2>3. \A j, k \in T : Rank(S, j) = Rank(S, k) => j = k
    BY RankDistinct
  <2>4. QED BY <2>2, <2>3
<1>3. f \in Injection(T, R)
  BY <1>2 DEF Injection, IsInjective
<1>4. IsFiniteSet(T) /\ Cardinality(T) <= Cardinality(R)
  BY <1>1, <1>3, FS_Injection
<1>5. QED BY <1>1, <1>4, FS_CardinalityType

\* Within the list, they are as many.
LEMMA RowsAll ==
    ASSUME NEW S, S \subseteq Nat, IsFiniteSet(S), NEW lo \in Nat, NEW hi \in Nat, lo <= hi,
           hi <= Cardinality(S)
    PROVE  Cardinality({k \in S : lo < Rank(S, k) /\ Rank(S, k) <= hi}) = hi - lo
<1> DEFINE T == {k \in S : lo < Rank(S, k) /\ Rank(S, k) <= hi}
           f == [k \in T |-> Rank(S, k)]
           R == (lo + 1) .. hi
<1>1. IsFiniteSet(R) /\ Cardinality(R) = hi - lo
  <2>1. lo + 1 \in Int /\ hi \in Int
    OBVIOUS
  <2>2. IsFiniteSet(R) /\ Cardinality(R) = IF lo + 1 > hi THEN 0 ELSE hi - (lo + 1) + 1
    BY <2>1, FS_Interval
  <2>3. QED BY <2>2
<1>2. f \in [T -> R] /\ \A j, k \in T : f[j] = f[k] => j = k
  <2>1. \A k \in T : Rank(S, k) \in Int
    <3>1. ASSUME NEW k \in T PROVE Rank(S, k) \in 1 .. Cardinality(S) /\ Cardinality(S) \in Nat
      BY RankRange
    <3>2. QED BY <3>1
  <2>2. \A k \in T : Rank(S, k) \in R
    BY <2>1
  <2>3. \A j, k \in T : Rank(S, j) = Rank(S, k) => j = k
    BY RankDistinct
  <2>4. QED BY <2>2, <2>3
<1>3. f \in Injection(T, R)
  BY <1>2 DEF Injection, IsInjective
<1>4. \A n \in R : \E k \in T : f[k] = n
  <2> TAKE n \in R
  <2>1. n \in 1 .. Cardinality(S)
    BY FS_CardinalityType
  <2>2. PICK k \in S : Rank(S, k) = n
    BY <2>1, RankOnto
  <2>3. QED BY <2>2
<1>5. f \in Surjection(T, R)
  BY <1>2, <1>4 DEF Surjection
<1>6. Cardinality(T) = Cardinality(R)
  BY <1>1, <1>3, <1>5, FS_Injection
<1>7. QED BY <1>1, <1>6

\* A row that comes moves each of the others by one place at most.
LEMMA RankInsert ==
    ASSUME NEW S, S \subseteq Nat, IsFiniteSet(S), NEW x \in Nat, x \notin S, NEW k \in S
    PROVE  Rank(S \cup {x}, k) \in {Rank(S, k), Rank(S, k) + 1}
<1> DEFINE T == {j \in S : j >= k}
           U == {j \in S \cup {x} : j >= k}
<1>1. IsFiniteSet(T)
  BY RankRange
<1>2. CASE x >= k
  <2>1. U = T \cup {x} /\ x \notin T
    BY <1>2
  <2>2. Cardinality(T \cup {x}) = Cardinality(T) + 1
    BY <1>1, <2>1, FS_AddElement
  <2>3. QED BY <2>1, <2>2 DEF Rank
<1>3. CASE ~(x >= k)
  <2>1. U = T
    BY <1>3
  <2>2. QED BY <2>1 DEF Rank
<1>4. QED BY <1>2, <1>3

\* TotalPages rounds up.
LEMMA PagesNeeded ==
    ASSUME NEW n \in Nat, NEW size \in Nat \ {0}, NEW p \in Nat
    PROVE  p < TotalPages(n, size) <=> p * size < n
BY DEF TotalPages

\* A page that has a size starts where the one before it ends.
LEMMA SkipPages ==
    ASSUME NEW p \in Int, NEW size \in Int, NEW l
    PROVE  /\ Skip(p, size) \in Int /\ Take(l, size) \in Int
           /\ size >= 1 =>
                /\ Take(l, size) = size
                /\ Skip(p, size) + Take(l, size) = p * size
                /\ Skip(p + 1, size) = Skip(p, size) + Take(l, size)
           /\ size = 0 => Skip(p, size) = 0 /\ Take(l, size) = Cardinality(Keys)
           /\ ~Fails(l, p, size) => Skip(p, size) \in Nat /\ Take(l, size) \in Nat
           /\ Skip(1, size) = 0
<1>1. Cardinality(Keys) \in Nat
  BY PagingConstants, FS_CardinalityType
<1>2. Skip(p, size) \in Int /\ Skip(1, size) = 0 /\ (size = 0 => Skip(p, size) = 0)
  BY DEF Skip
<1>3. Take(l, size) \in Int /\ (size = 0 => Take(l, size) = Cardinality(Keys))
  BY <1>1 DEF Take
<1>4. ASSUME size >= 1
      PROVE  /\ Take(l, size) = size
             /\ Skip(p, size) + Take(l, size) = p * size
             /\ Skip(p + 1, size) = Skip(p, size) + Take(l, size)
  <2>1. Take(l, size) = size
    BY <1>4 DEF Take
  <2>2. (p - 1) * size + size = p * size /\ (p + 1 - 1) * size = p * size
    OBVIOUS
  <2>3. QED BY <2>1, <2>2 DEF Skip
<1>5. ~Fails(l, p, size) => Skip(p, size) \in Nat /\ Take(l, size) \in Nat
  BY <1>1, <1>2 DEF Fails, Take
<1>6. QED BY <1>2, <1>3, <1>4, <1>5

\* Rows beyond a place are no more than the list has there.
LEMMA RowsAhead ==
    ASSUME NEW S, S \subseteq Nat, IsFiniteSet(S), NEW n \in Int,
           NEW T, T \subseteq S, \A k \in T : Rank(S, k) > n
    PROVE  /\ IsFiniteSet(T) /\ Cardinality(T) \in Nat
           /\ T = {} \/ Cardinality(T) <= Cardinality(S) - n
<1>1. IsFiniteSet(T) /\ Cardinality(T) \in Nat /\ Cardinality(S) \in Nat
  BY FS_Subset, FS_CardinalityType
<1>2. \A k \in T : Rank(S, k) \in Int /\ Rank(S, k) <= Cardinality(S)
  <2>1. ASSUME NEW k \in T PROVE Rank(S, k) \in 1 .. Cardinality(S)
    BY RankRange
  <2>2. QED BY <1>1, <2>1
<1>3. CASE n <= Cardinality(S)
  <2>1. \A k \in T : n < Rank(S, k) /\ Rank(S, k) <= Cardinality(S)
    BY <1>1, <1>2
  <2> DEFINE m == Cardinality(S)
  <2>2. m \in Int /\ n <= m /\ \A k \in T : n < Rank(S, k) /\ Rank(S, k) <= m
    BY <1>1, <1>3, <2>1
  <2> HIDE DEF m
  <2>3. Cardinality(T) <= m - n
    BY <2>2, RowsBetween
  <2>4. QED BY <1>1, <2>3 DEF m
<1>4. CASE ~(n <= Cardinality(S))
  BY <1>1, <1>2, <1>4
<1>5. QED BY <1>3, <1>4

\* What a page of take rows after the first lo holds: no more than take, the rest of the
\* list if it is neither empty nor full, and some row if the list reaches down to it.
LEMMA PageRows ==
    ASSUME NEW S, S \subseteq Nat, IsFiniteSet(S), NEW lo \in Nat, NEW take \in Nat,
           NEW T, T \subseteq S,
           \A k \in S : k \in T <=> lo < Rank(S, k) /\ Rank(S, k) <= lo + take
    PROVE  /\ IsFiniteSet(T) /\ Cardinality(T) \in Nat
           /\ (Cardinality(T) = 0 <=> T = {})
           /\ Cardinality(T) <= take
           /\ T # {} => Cardinality(S) > lo
           /\ Cardinality(T) \in 1 .. take - 1 => Cardinality(S) = lo + Cardinality(T)
           /\ Cardinality(S) > lo /\ take >= 1 => T # {}
           /\ lo = 0 /\ Cardinality(S) <= take => T = S
<1> DEFINE n == Cardinality(S)
<1>1. n \in Nat
  BY FS_CardinalityType
<1>3. IsFiniteSet(T) /\ Cardinality(T) \in Nat /\ (Cardinality(T) = 0 <=> T = {})
  BY FS_Subset, FS_CardinalityType, FS_EmptySet
<1>4. \A k \in S : Rank(S, k) \in Int /\ 1 <= Rank(S, k) /\ Rank(S, k) <= n
  <2>1. ASSUME NEW k \in S PROVE Rank(S, k) \in 1 .. n
    BY RankRange
  <2>2. QED BY <1>1, <2>1
<1> HIDE DEF n
<1>5. ASSUME T # {} PROVE take >= 1 /\ n > lo
  <2>1. PICK k \in S : lo < Rank(S, k) /\ Rank(S, k) <= lo + take
    BY <1>5
  <2>2. QED BY <1>1, <1>4, <2>1
<1>6. Cardinality(T) <= take
  <2>1. lo \in Int /\ lo + take \in Int /\ lo <= lo + take
    OBVIOUS
  <2>2. \A k \in T : lo < Rank(S, k) /\ Rank(S, k) <= lo + take
    OBVIOUS
  <2>3. Cardinality(T) <= (lo + take) - lo
    BY <2>1, <2>2, RowsBetween
  <2>4. QED BY <1>3, <2>3
<1>7. ASSUME Cardinality(T) \in 1 .. take - 1 PROVE n = lo + Cardinality(T)
  <2>1. T # {} /\ take >= 1 /\ n > lo /\ Cardinality(T) < take
    BY <1>3, <1>5, <1>7
  <2>2. ASSUME lo + take <= n PROVE FALSE
    <3>1. lo + take \in Nat /\ lo <= lo + take
      BY <2>1
    <3>2. Cardinality({k \in S : lo < Rank(S, k) /\ Rank(S, k) <= lo + take}) = (lo + take) - lo
      BY <2>2, <3>1, RowsAll DEF n
    <3>3. T = {k \in S : lo < Rank(S, k) /\ Rank(S, k) <= lo + take}
      OBVIOUS
    <3>4. Cardinality(T) = take
      BY <3>2, <3>3
    <3>5. QED BY <2>1, <3>4
  <2>3. T = {k \in S : lo < Rank(S, k) /\ Rank(S, k) <= n}
    <3>1. \A k \in S : lo < Rank(S, k) /\ Rank(S, k) <= lo + take
                       <=> lo < Rank(S, k) /\ Rank(S, k) <= n
      BY <1>1, <1>4, <2>2
    <3>2. QED BY <3>1
  <2>4. Cardinality({k \in S : lo < Rank(S, k) /\ Rank(S, k) <= n}) = n - lo
    <3>1. lo \in Nat /\ n \in Nat /\ lo <= n /\ n <= Cardinality(S)
      BY <1>1, <2>1 DEF n
    <3>2. QED BY <3>1, RowsAll
  <2>5. Cardinality(T) = n - lo
    BY <2>3, <2>4
  <2>6. QED BY <1>1, <2>5
<1>8. ASSUME n > lo, take >= 1 PROVE T # {}
  <2>1. lo + 1 \in 1 .. n /\ lo + 1 <= lo + take /\ lo < lo + 1
    BY <1>1, <1>8
  <2>2. PICK k \in S : Rank(S, k) = lo + 1
    BY <2>1, RankOnto DEF n
  <2>3. QED BY <2>1, <2>2
<1>9. ASSUME lo = 0, n <= take PROVE T = S
  <2>1. \A k \in S : lo < Rank(S, k) /\ Rank(S, k) <= lo + take
    BY <1>1, <1>4, <1>9
  <2>2. QED BY <2>1
<1>10. QED BY <1>3, <1>5, <1>6, <1>7, <1>8, <1>9 DEF n

-----------------------------------------------------------------------------
(* One lemma per action.                                                   *)

\* The sets of a walk are finite.
LEMMA Finiteness ==
    ASSUME TypeOK
    PROVE  /\ Matching \subseteq Nat /\ table \subseteq Nat
           /\ IsFiniteSet(Matching) /\ Cardinality(Matching) \in Nat
           /\ \A S \in SUBSET table : IsFiniteSet(S) /\ Cardinality(S) \in Nat
<1>1. table \in SUBSET Keys /\ Matching \in SUBSET table /\ Keys \subseteq Nat /\ IsFiniteSet(Keys)
  BY PagingConstants DEF TypeOK, Matching
<1>2. IsFiniteSet(table)
  BY <1>1, FS_Subset
<1>3. ASSUME NEW S \in SUBSET table PROVE IsFiniteSet(S) /\ Cardinality(S) \in Nat
  BY <1>2, FS_Subset, FS_CardinalityType
<1>4. QED BY <1>1, <1>3

LEMMA AskStep ==
    ASSUME Inductive, NEW l \in Lists, NEW p \in Int, NEW size \in Int, NEW f,
           f \subseteq Keys, Ask(l, p, size, f)
    PROVE  Inductive'
<1>1. TypeOK /\ NothingYet
  BY DEF Inductive, Ask
<1>2. /\ at' = "queries" /\ list' = l /\ filter' = f /\ page' = p /\ perPage' = size
      /\ before' = IF p = 1 THEN table \cap f ELSE {}
      /\ UNCHANGED <<table, found, queried, total, next, seen, served, arrived, late>>
  BY DEF Ask
<1>3. Cardinality({}) = 0
  BY FS_EmptySet
<1>4. TypeOK'
  BY <1>1, <1>2, <1>3 DEF TypeOK, NothingYet
<1>5. /\ ~Reading' /\ SeenNow' = {} /\ ServedNow' = 0 /\ Unseen' = before'
      /\ Reach' = Skip(p, size) /\ Repeated' = {} /\ Matching' = table \cap f
  BY <1>1, <1>2 DEF NothingYet, Reading, SeenNow, ServedNow, Unseen, Reach, Repeated, Matching
<1>6. ASSUME NEW k \in before' PROVE Rank(Matching', k) > Skip(p, size)
  <2>1. p = 1 /\ k \in Matching' /\ Skip(p, size) = 0
    BY <1>2, <1>5, <1>6, SkipPages
  <2>2. Matching' \subseteq Nat /\ IsFiniteSet(Matching') /\ Cardinality(Matching') \in Nat
    BY <1>1, <1>5, Finiteness
  <2>3. Rank(Matching', k) \in 1 .. Cardinality(Matching')
    BY <2>1, <2>2, RankRange
  <2>4. QED BY <2>1, <2>2, <2>3
<1>7. WalkAt'
  <2>1. \A k \in Unseen' : Rank(Matching', k) > Reach'
    BY <1>5, <1>6
  <2>2. arrived' = {}
    BY <1>1, <1>2 DEF NothingYet
  <2>3. ServedNow' + Cardinality(Repeated') <= Cardinality(SeenNow') + Cardinality(arrived')
    BY <1>3, <1>5, <2>2
  <2>4. QED BY <2>1, <2>3 DEF WalkAt
<1>8. CountAt' /\ PageAt'
  BY <1>1, <1>2 DEF CountAt, PageAt, NothingYet
<1>9. before' \subseteq filter' /\ served' <= Cardinality(seen') + Cardinality(arrived')
  BY <1>1, <1>2, <1>3 DEF NothingYet
<1>10. QED BY <1>2, <1>4, <1>7, <1>8, <1>9 DEF Inductive

\* A page is read: its rows are the next ones down the list, and those of them that
\* were seen before are the first of the rows that were going to be repeated.
LEMMA FindStep ==
    ASSUME Inductive, Find
    PROVE  Inductive'
<1> DEFINE lo == Skip(page, perPage)
           take == Take(list, perPage)
           hi == lo + take
           n == Cardinality(Matching)
           rows == PageOf(Matching, list, page, perPage)
<1>1. /\ TypeOK /\ at = "queries" /\ ~queried /\ WalkAt /\ CountAt /\ PageAt
      /\ before \subseteq table \cap filter
      /\ served <= Cardinality(seen) + Cardinality(arrived)
  BY DEF Inductive, Find, Walking, TypeOK
<1>2. UNCHANGED <<table, asked, page, next, seen, served, before, arrived, late>>
  BY DEF Find
<1>3. CASE Fails(list, page, perPage)
  <2>1. at' = "refused" /\ UNCHANGED <<found, queried, total>>
    BY <1>3 DEF Find
  <2>2. QED BY <1>1, <1>2, <2>1 DEF Inductive, TypeOK, asked, Walking
<1>4. CASE ~Fails(list, page, perPage)
  <2>1. /\ found' = rows /\ queried' = TRUE /\ at' = at
        /\ total' = IF Concludes(rows) THEN lo + Cardinality(rows) ELSE total
    BY <1>4 DEF Find
  <2>2. /\ Matching \subseteq Nat /\ IsFiniteSet(Matching) /\ n \in Nat
        /\ \A S \in SUBSET table : IsFiniteSet(S) /\ Cardinality(S) \in Nat
    BY <1>1, Finiteness
  <2>3. /\ lo \in Nat /\ take \in Nat /\ hi \in Int /\ perPage \in Int
        /\ perPage >= 1 => take = perPage
        /\ perPage = 0 => lo = 0 /\ take = Cardinality(Keys)
    <3>1. page \in Int /\ perPage \in Int
      BY <1>1 DEF TypeOK
    <3>2. QED BY <1>4, <3>1, SkipPages
  <2>4. /\ rows \subseteq Matching
        /\ \A k \in Matching :
              k \in rows <=> lo < Rank(Matching, k) /\ Rank(Matching, k) <= lo + take
    BY DEF PageOf, Rank
  <2>a. n <= Cardinality(Keys)
    <3>1. Matching \subseteq Keys /\ IsFiniteSet(Keys)
      BY <1>1, PagingConstants DEF Matching, TypeOK
    <3>2. QED BY <3>1, FS_Subset
  <2>b. list \notin CountsInParallel => perPage >= 0
    BY <1>1, <1>4 DEF Fails, TypeOK, InMongo, CountsInParallel
  <2> HIDE DEF lo, take, n, rows
  <2>5. /\ rows \subseteq Matching /\ IsFiniteSet(rows) /\ Cardinality(rows) \in Nat
        /\ \A k \in Matching : k \in rows <=> lo < Rank(Matching, k) /\ Rank(Matching, k) <= hi
        /\ perPage >= 1 => Cardinality(rows) <= perPage
        /\ rows # {} => n > lo
        /\ Concludes(rows) => n = lo + Cardinality(rows)
        /\ n > lo /\ perPage >= 1 => rows # {}
    <3>1. /\ IsFiniteSet(rows) /\ Cardinality(rows) \in Nat
          /\ Cardinality(rows) = 0 <=> rows = {}
          /\ Cardinality(rows) <= take
          /\ rows # {} => n > lo
          /\ Cardinality(rows) \in 1 .. take - 1 => n = lo + Cardinality(rows)
          /\ n > lo /\ take >= 1 => rows # {}
          /\ lo = 0 /\ n <= take => rows = Matching
      <4>1. Matching \subseteq Nat /\ IsFiniteSet(Matching) /\ lo \in Nat /\ take \in Nat
        BY <2>2, <2>3
      <4> HIDE DEF hi
      <4>2. QED BY <2>4, <4>1, PageRows DEF n
    <3>2. ASSUME Concludes(rows) PROVE n = lo + Cardinality(rows)
      <4>1. perPage >= 0 /\ Cardinality(rows) # perPage /\ (rows # {} \/ lo = 0)
        BY <2>b, <3>2 DEF Concludes, lo
      <4>2. CASE perPage = 0
        BY <2>2, <2>3, <2>a, <3>1, <4>2 DEF n
      <4>3. CASE perPage >= 1
        <5>1. take = perPage /\ perPage \in Nat
          BY <2>3, <4>3
        <5>2. CASE rows = {}
          BY <2>2, <2>3, <3>1, <4>1, <4>3, <5>1, <5>2
        <5>3. CASE rows # {}
          BY <2>2, <2>3, <3>1, <4>1, <5>1, <5>3
        <5>4. QED BY <5>2, <5>3
      <4>4. QED BY <2>3, <4>1, <4>2, <4>3
    <3>3. QED BY <2>3, <2>4, <3>1, <3>2
  <2>6. \A k \in Matching : Rank(Matching, k) \in Int
    <3>1. ASSUME NEW k \in Matching PROVE Rank(Matching, k) \in 1 .. n
      BY <2>2, RankRange DEF n
    <3>2. QED BY <2>2, <3>1
  <2> HIDE DEF hi
  <2>7. total' \in {Uncounted} \cup Nat
    BY <1>1, <2>1, <2>3, <2>5 DEF TypeOK
  <2>8. TypeOK'
    BY <1>1, <1>2, <2>1, <2>5, <2>7 DEF TypeOK, asked, Matching
  <2>9. /\ Matching' = Matching /\ Reach = lo /\ Reach' = hi
        /\ ~Reading /\ Reading'
        /\ SeenNow = seen /\ SeenNow' = seen \cup rows
        /\ ServedNow = served /\ ServedNow' = served + Cardinality(rows)
    BY <1>1, <1>2, <2>1
    DEF Matching, asked, Reach, Reading, SeenNow, ServedNow, lo, hi, take
  <2>10. Unseen = before \ seen /\ Unseen' = before \ (seen \cup rows)
    BY <1>2, <2>9 DEF Unseen
  <2>11. before \subseteq Matching /\ seen \subseteq Matching
    BY <1>1 DEF Matching, TypeOK
  <2>12. \A k \in Unseen' : Rank(Matching, k) > hi
    BY <1>1, <2>3, <2>5, <2>6, <2>9, <2>10, <2>11 DEF WalkAt
  <2>13. Repeated = Repeated' \cup (seen \cap rows) /\ Repeated' \cap (seen \cap rows) = {}
    <3>1. Repeated = {k \in seen : Rank(Matching, k) > lo}
      BY <2>9 DEF Repeated
    <3>2. Repeated' = {k \in seen \cup rows : Rank(Matching, k) > hi}
      BY <2>9 DEF Repeated
    <3>3. seen = {} \/ hi > lo
      BY <1>1, <2>3 DEF PageAt, hi
    <3>4. ASSUME NEW k \in Repeated' PROVE k \in Repeated /\ k \notin rows
      <4>1. k \notin rows
        BY <2>3, <2>5, <2>6, <3>2
      <4>2. k \in seen /\ Rank(Matching, k) > hi /\ hi > lo
        BY <3>2, <3>3, <4>1
      <4>3. Rank(Matching, k) > lo
        BY <2>3, <2>6, <2>11, <4>2
      <4>4. QED BY <3>1, <4>1, <4>2, <4>3
    <3>5. ASSUME NEW k \in seen \cap rows PROVE k \in Repeated
      BY <2>3, <2>5, <2>6, <2>11, <3>1
    <3>6. ASSUME NEW k \in Repeated, k \notin rows PROVE k \in Repeated'
      BY <2>3, <2>5, <2>6, <2>11, <3>1, <3>2, <3>6
    <3>7. Repeated \subseteq seen
      BY <3>1
    <3>8. QED BY <3>4, <3>5, <3>6, <3>7
  <2>14. ServedNow' + Cardinality(Repeated') <= Cardinality(SeenNow') + Cardinality(arrived')
    <3>1. /\ Repeated \subseteq table /\ Repeated' \subseteq table /\ seen \cap rows \subseteq table
          /\ seen \subseteq table /\ arrived \subseteq table /\ rows \subseteq table
      <4>1. Matching \subseteq table /\ arrived \subseteq table
        BY <1>1 DEF TypeOK, Matching
      <4>2. Repeated \subseteq seen
        BY <2>9 DEF Repeated
      <4>3. QED BY <2>5, <2>11, <2>13, <4>1, <4>2
    <3>2. /\ IsFiniteSet(Repeated') /\ IsFiniteSet(seen \cap rows) /\ IsFiniteSet(seen)
          /\ Cardinality(Repeated') \in Nat /\ Cardinality(seen \cap rows) \in Nat
          /\ Cardinality(seen) \in Nat /\ Cardinality(arrived) \in Nat
          /\ Cardinality(seen \cup rows) \in Nat
      BY <2>2, <3>1
    <3>3. Cardinality(Repeated) =
             Cardinality(Repeated') + Cardinality(seen \cap rows) - Cardinality({})
      BY <2>13, <3>2, FS_Union
    <3>4. Cardinality(seen \cup rows) =
             Cardinality(seen) + Cardinality(rows) - Cardinality(seen \cap rows)
      BY <2>5, <3>2, FS_Union
    <3>5. served + Cardinality(Repeated) <= Cardinality(seen) + Cardinality(arrived)
      BY <1>1, <2>9 DEF WalkAt
    <3>6. Cardinality({}) = 0 /\ served \in Nat
      BY <1>1, FS_EmptySet DEF TypeOK
    <3>7. QED BY <1>2, <2>5, <2>9, <3>2, <3>3, <3>4, <3>5, <3>6
  <2>15. WalkAt'
    BY <2>9, <2>12, <2>14 DEF WalkAt
  <2>16. CountAt'
    <3>1. late' = late /\ late \subseteq table /\ Cardinality(late) \in Nat
      BY <1>1, <1>2, <2>2 DEF TypeOK
    <3>2. total' # Uncounted => total' \in Nat /\ total' <= n /\ n <= total' + Cardinality(late)
      <4>1. CASE total' = total
        BY <1>1, <2>7, <3>1, <4>1 DEF CountAt, n
      <4>2. CASE Concludes(rows) /\ total' = lo + Cardinality(rows)
        BY <2>2, <2>3, <2>5, <3>1, <4>2 DEF n
      <4>3. QED BY <2>1, <4>1, <4>2
    <3>3. Unseen' \subseteq Matching
      BY <2>10, <2>11
    <3>4. /\ IsFiniteSet(Unseen') /\ Cardinality(Unseen') \in Nat
          /\ Unseen' = {} \/ Cardinality(Unseen') <= n - hi
      BY <2>2, <2>3, <2>12, <3>3, RowsAhead DEF n
    <3>5. Unseen' = {} => Cardinality(Unseen') = 0
      BY FS_EmptySet
    <3>6. total' # Uncounted /\ total' <= hi => Cardinality(Unseen') <= Cardinality(late)
      BY <2>2, <2>3, <3>1, <3>2, <3>4, <3>5 DEF n
    <3>7. QED BY <2>1, <2>9, <3>1, <3>2, <3>6 DEF CountAt, n
  <2>17. PageAt'
    <3>1. seen # {} => n > lo /\ perPage >= 1 /\ page >= 1
      BY <1>1 DEF PageAt, lo, n
    <3>2. perPage' = perPage /\ page' = page /\ seen' = seen /\ at' # "answered"
      BY <1>1, <1>2, <2>1 DEF asked
    <3>3. QED BY <2>1, <2>5, <2>9, <3>1, <3>2 DEF PageAt, lo, n
  <2>18. before' \subseteq filter' /\ served' <= Cardinality(seen') + Cardinality(arrived')
    BY <1>1, <1>2 DEF asked
  <2>19. QED BY <1>1, <2>1, <2>8, <2>15, <2>16, <2>17, <2>18 DEF Inductive
<1>5. QED BY <1>3, <1>4

LEMMA CountStep ==
    ASSUME Inductive, Count
    PROVE  Inductive'
<1> DEFINE n == Cardinality(Matching)
<1>1. /\ TypeOK /\ at = "queries" /\ total = Uncounted /\ WalkAt /\ CountAt /\ PageAt
      /\ before \subseteq table \cap filter
      /\ served <= Cardinality(seen) + Cardinality(arrived)
  BY DEF Inductive, Count, Walking, TypeOK
<1>2. /\ total' = n
      /\ UNCHANGED <<table, at, asked, page, found, queried, next, seen, served, before, arrived, late>>
  BY DEF Count
<1>3. /\ Matching \subseteq Nat /\ IsFiniteSet(Matching) /\ n \in Nat
      /\ \A S \in SUBSET table : IsFiniteSet(S) /\ Cardinality(S) \in Nat
  BY <1>1, Finiteness
<1>4. TypeOK'
  BY <1>1, <1>2, <1>3 DEF TypeOK, asked
<1>5. /\ Matching' = Matching /\ Reach' = Reach /\ Reading' = Reading
      /\ SeenNow' = SeenNow /\ ServedNow' = ServedNow /\ Unseen' = Unseen
      /\ Repeated' = Repeated
  BY <1>2 DEF Matching, asked, Reach, Reading, SeenNow, ServedNow, Unseen, Repeated
<1>6. WalkAt'
  BY <1>1, <1>2, <1>5 DEF WalkAt
<1>7. CountAt'
  <2>1. late \subseteq table /\ Cardinality(late) \in Nat
    BY <1>1, <1>3 DEF TypeOK
  <2>2. Reach \in Int
    BY <1>1, SkipPages DEF Reach, TypeOK
  <2>3. Unseen \subseteq Matching
    BY <1>1 DEF Unseen, Matching
  <2>4. Unseen = {} \/ Cardinality(Unseen) <= n - Reach
    BY <1>1, <1>3, <2>2, <2>3, RowsAhead DEF WalkAt
  <2>5. Unseen = {} => Cardinality(Unseen) = 0
    BY FS_EmptySet
  <2> HIDE DEF n
  <2>6. n <= Reach => Cardinality(Unseen) <= Cardinality(late)
    <3>1. Cardinality(Unseen) \in Nat
      BY <1>3, <2>3 DEF Matching
    <3>2. QED BY <1>3, <2>1, <2>2, <2>4, <2>5, <3>1
  <2>7. total' <= Cardinality(Matching') /\ Cardinality(Matching') <= total' + Cardinality(late')
    BY <1>2, <1>3, <1>5, <2>1 DEF n
  <2>8. QED BY <1>2, <1>3, <1>5, <2>6, <2>7 DEF CountAt, Uncounted
<1>8. PageAt'
  BY <1>1, <1>2, <1>5 DEF PageAt, asked
<1>9. QED BY <1>1, <1>2, <1>4, <1>6, <1>7, <1>8 DEF Inductive, asked

LEMMA GeneratePaginationStep ==
    ASSUME Inductive, GeneratePagination
    PROVE  Inductive'
<1>1. /\ TypeOK /\ at = "queries" /\ queried /\ total # Uncounted /\ WalkAt /\ CountAt /\ PageAt
      /\ before \subseteq filter
      /\ served <= Cardinality(seen) + Cardinality(arrived)
  BY DEF Inductive, GeneratePagination, Walking
<1>2. UNCHANGED <<table, asked, page, found, queried, total, before, arrived, late>>
  BY DEF GeneratePagination
<1>3. CASE at' = "refused" /\ UNCHANGED <<next, seen, served>>
  BY <1>1, <1>2, <1>3 DEF Inductive, TypeOK, asked, Walking
<1>4. CASE /\ page >= 1 /\ perPage >= 1 /\ at' = "answered"
           /\ next' = NextPage(page, total, perPage)
           /\ seen' = seen \cup found /\ served' = served + Cardinality(found)
  <2>1. \A S \in SUBSET table : IsFiniteSet(S) /\ Cardinality(S) \in Nat
    BY <1>1, Finiteness
  <2>2. /\ Reading /\ ~Reading' /\ Matching' = Matching /\ Reach' = Reach
        /\ SeenNow = seen' /\ SeenNow' = seen' /\ ServedNow = served' /\ ServedNow' = served'
    BY <1>1, <1>2, <1>4 DEF Reading, Matching, Reach, SeenNow, ServedNow, asked
  <2>3. Unseen' = Unseen /\ Repeated' = Repeated
    BY <1>2, <2>2 DEF Unseen, Repeated
  <2>4. WalkAt'
    BY <1>1, <1>2, <2>2, <2>3 DEF WalkAt
  <2>5. CountAt'
    BY <1>1, <1>2, <2>2, <2>3 DEF CountAt
  <2>6. PageAt'
    BY <1>1, <1>2, <1>4, <2>2 DEF PageAt, asked
  <2>7. TypeOK'
    <3>1. next' \in Nat
      BY <1>1, <1>4 DEF NextPage, TypeOK
    <3>2. found \subseteq table /\ served' \in Nat
      BY <1>1, <1>4, <2>1 DEF TypeOK
    <3>3. QED BY <1>1, <1>2, <1>4, <3>1, <3>2 DEF TypeOK, asked
  <2>8. served' <= Cardinality(seen') + Cardinality(arrived')
    <3>1. seen \cup found \subseteq table /\ Repeated \subseteq seen \cup found /\ arrived \subseteq table
      BY <1>1, <1>4, <2>2 DEF TypeOK, Repeated
    <3>2. /\ Cardinality(Repeated) \in Nat /\ Cardinality(seen') \in Nat
          /\ Cardinality(arrived) \in Nat /\ served' \in Nat
      BY <1>4, <2>1, <2>7, <3>1 DEF TypeOK
    <3>3. served' + Cardinality(Repeated) <= Cardinality(seen') + Cardinality(arrived)
      BY <1>1, <2>2 DEF WalkAt
    <3>4. QED BY <1>2, <3>2, <3>3
  <2>9. QED BY <1>1, <1>2, <1>4, <2>4, <2>5, <2>6, <2>7, <2>8 DEF Inductive, asked
<1>5. QED
  <2>1. page \in Int /\ perPage \in Int
    BY <1>1 DEF TypeOK
  <2>2. QED BY <1>3, <1>4, <2>1 DEF GeneratePagination

\* The next page starts where this one ended, and the count says that it has a row.
LEMMA FollowStep ==
    ASSUME Inductive, Follow
    PROVE  Inductive'
<1>1. /\ TypeOK /\ at = "answered" /\ next # 0 /\ WalkAt /\ CountAt /\ PageAt
      /\ before \subseteq filter
      /\ served <= Cardinality(seen) + Cardinality(arrived)
  BY DEF Inductive, Follow, Walking
<1>2. /\ at' = "queries" /\ page' = next
      /\ found' = {} /\ queried' = FALSE /\ total' = Uncounted /\ next' = 0 /\ late' = {}
      /\ UNCHANGED <<table, asked, seen, served, before, arrived>>
  BY DEF Follow
<1>3. /\ page \in Nat /\ page >= 1 /\ perPage \in Nat \ {0} /\ total \in Nat /\ queried
      /\ total <= Cardinality(Matching) /\ next = page + 1 /\ page < TotalPages(total, perPage)
  BY <1>1 DEF TypeOK, CountAt, PageAt, NextPage
<1>4. page * perPage < total
  BY <1>3, PagesNeeded
<1>5. /\ Skip(page + 1, perPage) = Skip(page, perPage) + Take(list, perPage)
      /\ Skip(page, perPage) + Take(list, perPage) = page * perPage
      /\ Skip(page, perPage) + Take(list, perPage) \in Int
  <2>1. page \in Int /\ perPage \in Int /\ perPage >= 1
    BY <1>3
  <2>2. QED BY <2>1, SkipPages
<1>6. /\ ~Reading /\ ~Reading' /\ Matching' = Matching /\ Reach' = Reach
      /\ SeenNow = seen /\ SeenNow' = seen /\ ServedNow = served /\ ServedNow' = served
  BY <1>1, <1>2, <1>3, <1>5 DEF Reading, Matching, Reach, SeenNow, ServedNow, asked
<1>7. Unseen' = Unseen /\ Repeated' = Repeated
  BY <1>2, <1>6 DEF Unseen, Repeated
<1>8. TypeOK'
  <2>1. page' \in Int /\ next' \in Nat
    BY <1>1, <1>2 DEF TypeOK
  <2>2. found' \subseteq table' \cap filter' /\ late' \subseteq arrived' /\ found' = {}
    BY <1>2
  <2>3. perPage' >= 1 => Cardinality(found') <= perPage'
    BY <1>2, <1>3, <2>2, FS_EmptySet DEF asked
  <2>4. QED BY <1>1, <1>2, <2>1, <2>2, <2>3 DEF TypeOK, asked
<1>9. WalkAt'
  BY <1>1, <1>2, <1>6, <1>7 DEF WalkAt
<1>10. CountAt'
  BY <1>2 DEF CountAt
<1>11. PageAt'
  <2>1. Cardinality(Matching) \in Nat
    BY <1>1, Finiteness
  <2>2. Cardinality(Matching) > page * perPage
    <3> DEFINE m == page * perPage
               n == Cardinality(Matching)
    <3>1. m \in Int /\ m < total /\ total <= n /\ n \in Nat /\ total \in Nat
      BY <1>3, <1>4, <1>5, <2>1
    <3> HIDE DEF m, n
    <3>2. n > m
      BY <3>1
    <3>3. QED BY <3>2 DEF m, n
  <2>3. Cardinality(Matching') > Skip(page', perPage')
    BY <1>2, <1>3, <1>5, <1>6, <2>2 DEF asked
  <2>4. page' >= 1 /\ perPage' >= 1
    BY <1>2, <1>3 DEF asked
  <2>5. QED BY <1>2, <2>3, <2>4 DEF PageAt
<1>12. QED BY <1>1, <1>2, <1>8, <1>9, <1>10, <1>11 DEF Inductive, asked

\* Nothing but the row that stood at the last place read moves past it.
LEMMA InsertStep ==
    ASSUME Inductive, NEW k \in Keys, Insert(k)
    PROVE  Inductive'
<1> DEFINE n == Cardinality(Matching)
<1>1. /\ TypeOK /\ at \in {"queries", "answered"} /\ WalkAt /\ CountAt /\ PageAt
      /\ before \subseteq table \cap filter /\ k \notin table /\ k \in Nat
      /\ served <= Cardinality(seen) + Cardinality(arrived)
  BY PagingConstants DEF Inductive, Insert, Walking, TypeOK
<1>2. /\ table' = table \cup {k} /\ arrived' = arrived \cup {k}
      /\ late' = IF at = "queries" /\ total # Uncounted /\ ~queried THEN late \cup {k} ELSE late
      /\ UNCHANGED <<at, asked, page, found, queried, total, next, seen, served, before>>
  BY DEF Insert
<1>3. /\ Matching \subseteq Nat /\ IsFiniteSet(Matching) /\ n \in Nat
      /\ \A S \in SUBSET table : IsFiniteSet(S) /\ Cardinality(S) \in Nat
  BY <1>1, Finiteness
<1>4. TypeOK'
  BY <1>1, <1>2 DEF TypeOK, asked
<1>5. /\ Reading' = Reading /\ SeenNow' = SeenNow /\ ServedNow' = ServedNow
      /\ Unseen' = Unseen /\ Reach' = Reach
  BY <1>2 DEF asked, Reach, Reading, SeenNow, ServedNow, Unseen
<1>6. /\ k \notin Matching
      /\ Matching' = Matching \/ Matching' = Matching \cup {k}
  BY <1>1, <1>2 DEF Matching, asked
<1>7. Cardinality(Matching') \in {n, n + 1}
  <2>1. Cardinality(Matching \cup {k}) = n + 1
    BY <1>3, <1>6, FS_AddElement
  <2>2. QED BY <1>6, <2>1
<1>8. \A j \in Matching : /\ Rank(Matching, j) \in Int
                         /\ Rank(Matching', j) \in {Rank(Matching, j), Rank(Matching, j) + 1}
  <2> TAKE j \in Matching
  <2>1. Rank(Matching, j) \in 1 .. n
    BY <1>3, RankRange
  <2>2. Rank(Matching \cup {k}, j) \in {Rank(Matching, j), Rank(Matching, j) + 1}
    BY <1>1, <1>3, <1>6, RankInsert
  <2>3. Rank(Matching, j) \in Int
    BY <1>3, <2>1
  <2>4. Rank(Matching', j) \in {Rank(Matching, j), Rank(Matching, j) + 1}
    <3>1. CASE Matching' = Matching
      BY <3>1
    <3>2. CASE Matching' = Matching \cup {k}
      BY <2>2, <3>2
    <3>3. QED BY <1>6, <3>1, <3>2
  <2>5. QED BY <2>3, <2>4
<1>9. /\ Reach \in Int /\ SeenNow \subseteq Matching /\ Unseen \subseteq Matching
      /\ Matching \subseteq table /\ arrived \subseteq table /\ late \subseteq table
  <2>1. page \in Int /\ perPage \in Int
    BY <1>1 DEF TypeOK
  <2>2. Skip(page, perPage) \in Int /\ Take(list, perPage) \in Int
    BY <2>1, SkipPages
  <2>3. Reach \in Int
    BY <2>2 DEF Reach
  <2>4. QED BY <1>1, <2>3 DEF TypeOK, SeenNow, Unseen, Matching
<1>10. Cardinality(arrived') = Cardinality(arrived) + 1 /\ Cardinality(arrived) \in Nat
  BY <1>1, <1>2, <1>3, <1>9, FS_AddElement
<1>11. WalkAt'
  <2>1. \A j \in Unseen' : Rank(Matching', j) > Reach'
    <3> SUFFICES ASSUME NEW j \in Unseen PROVE Rank(Matching', j) > Reach
      BY <1>5
    <3>1. Rank(Matching, j) > Reach /\ j \in Matching
      BY <1>1, <1>9 DEF WalkAt
    <3>2. QED BY <1>8, <1>9, <3>1
  <2> DEFINE edge == {j \in SeenNow : Rank(Matching, j) = Reach}
  <2>2. Repeated' \subseteq Repeated \cup edge
    <3> SUFFICES ASSUME NEW j \in SeenNow, Rank(Matching', j) > Reach
                 PROVE  Rank(Matching, j) > Reach \/ Rank(Matching, j) = Reach
      BY <1>5 DEF Repeated
    <3>1. j \in Matching
      BY <1>9
    <3>2. QED BY <1>8, <1>9, <3>1
  <2>3. Cardinality(edge) <= 1 /\ Cardinality(edge) \in Nat /\ IsFiniteSet(edge)
    <3>1. \A j \in edge : Reach - 1 < Rank(Matching, j) /\ Rank(Matching, j) <= Reach
      BY <1>9
    <3>2. edge \subseteq Matching /\ Reach - 1 \in Int /\ Reach - 1 <= Reach
      BY <1>9
    <3> HIDE DEF edge
    <3>3. /\ IsFiniteSet(edge) /\ Cardinality(edge) \in Nat
          /\ Cardinality(edge) <= Reach - (Reach - 1)
      BY <1>3, <1>9, <3>1, <3>2, RowsBetween
    <3>4. QED BY <1>9, <3>3
  <2>4. Repeated \subseteq table
    BY <1>9 DEF Repeated
  <2>5. IsFiniteSet(Repeated) /\ Cardinality(Repeated) \in Nat
    BY <1>3, <2>4
  <2> HIDE DEF edge
  <2>6. Cardinality(Repeated') <= Cardinality(Repeated) + 1 /\ Cardinality(Repeated') \in Nat
    <3>1. /\ IsFiniteSet(Repeated \cup edge)
          /\ Cardinality(Repeated \cup edge) =
                Cardinality(Repeated) + Cardinality(edge) - Cardinality(Repeated \cap edge)
      BY <2>3, <2>5, FS_Union
    <3>2. Cardinality(Repeated \cap edge) \in Nat
      BY <2>5, FS_Intersection, FS_CardinalityType
    <3>3. Cardinality(Repeated') <= Cardinality(Repeated \cup edge) /\ IsFiniteSet(Repeated')
      BY <2>2, <3>1, FS_Subset
    <3>4. Cardinality(Repeated') \in Nat
      BY <3>3, FS_CardinalityType
    <3>5. QED BY <2>3, <2>5, <3>1, <3>2, <3>3, <3>4
  <2>7. ServedNow + Cardinality(Repeated) <= Cardinality(SeenNow) + Cardinality(arrived)
    BY <1>1 DEF WalkAt
  <2>8. ServedNow \in Nat /\ Cardinality(SeenNow) \in Nat
    <3>1. found \subseteq table /\ SeenNow \subseteq table /\ served \in Nat
      BY <1>1, <1>9 DEF TypeOK
    <3>2. QED BY <1>3, <3>1 DEF ServedNow
  <2>9. ServedNow' + Cardinality(Repeated') <= Cardinality(SeenNow') + Cardinality(arrived')
    BY <1>5, <1>10, <2>5, <2>6, <2>7, <2>8
  <2>10. QED BY <2>1, <2>9 DEF WalkAt
<1>12. CountAt'
  <2>1. Cardinality(late) \in Nat /\ k \notin late
    BY <1>1, <1>3, <1>9
  <2>2. Cardinality(late \cup {k}) = Cardinality(late) + 1
    BY <1>3, <1>9, <2>1, FS_AddElement
  <2> HIDE DEF n
  <2>3. total # Uncounted => total \in Nat /\ total <= n
    BY <1>1 DEF TypeOK, CountAt, n
  <2>4. total' # Uncounted => total' <= Cardinality(Matching')
    BY <1>2, <1>3, <1>7, <2>3 DEF n
  <2>5. ~queried' /\ total' = Uncounted => late' = {}
    BY <1>1, <1>2 DEF CountAt
  <2>6. ASSUME ~queried', total' # Uncounted
        PROVE  Cardinality(Matching') <= total' + Cardinality(late')
    <3>1. ~queried /\ total # Uncounted /\ at = "queries"
      BY <1>1, <1>2, <2>6 DEF PageAt
    <3>2. n <= total + Cardinality(late) /\ late' = late \cup {k} /\ total' = total
      BY <1>1, <1>2, <3>1 DEF CountAt, n
    <3>3. QED BY <1>3, <1>7, <2>1, <2>2, <2>3, <3>1, <3>2 DEF n
  <2>7. queried' /\ total' # Uncounted /\ total' <= Reach' => Cardinality(Unseen') <= Cardinality(late')
    BY <1>1, <1>2, <1>5 DEF CountAt
  <2>8. QED BY <2>4, <2>5, <2>6, <2>7 DEF CountAt
<1>13. PageAt'
  <2>1. Skip(page, perPage) \in Int
    BY <1>1, SkipPages DEF TypeOK
  <2> HIDE DEF n
  <2>2. seen # {} \/ found # {} => Cardinality(Matching') > Skip(page, perPage)
    <3>1. seen # {} \/ found # {} => n > Skip(page, perPage)
      BY <1>1 DEF PageAt, n
    <3>2. n \in Nat
      BY <1>3 DEF n
    <3>3. Cardinality(Matching') \in {n, n + 1}
      BY <1>7 DEF n
    <3>4. QED BY <2>1, <3>1, <3>2, <3>3
  <2>3. QED BY <1>1, <1>2, <2>2 DEF PageAt, asked
<1>14. served' <= Cardinality(seen') + Cardinality(arrived')
  <2>1. seen \subseteq table /\ served \in Nat
    BY <1>1 DEF TypeOK
  <2>2. QED BY <1>1, <1>2, <1>3, <1>10, <2>1
<1>15. QED BY <1>1, <1>2, <1>4, <1>11, <1>12, <1>13, <1>14 DEF Inductive, asked

-----------------------------------------------------------------------------
LEMMA InitInductive == ASSUME Init PROVE Inductive
<1>1. Cardinality({}) = 0
  BY FS_EmptySet
<1>2. TypeOK
  <2>1. /\ table \subseteq Keys /\ at = "idle" /\ list = "history" /\ page = 1 /\ perPage = 1
        /\ total = Uncounted /\ next = 0 /\ served = 0
    BY DEF Init
  <2>2. filter = {} /\ found = {} /\ seen = {} /\ before = {} /\ arrived = {} /\ late = {}
    BY DEF Init
  <2>3. queried \in BOOLEAN
    BY DEF Init
  <2>4. QED BY <1>1, <2>1, <2>2, <2>3 DEF TypeOK, Lists
<1>3. QED BY <1>1, <1>2 DEF Init, Inductive, NothingYet, Walking

LEMMA StutterInductive == ASSUME Inductive, UNCHANGED vars PROVE Inductive'
<1>1. /\ Matching' = Matching /\ Reach' = Reach /\ Reading' = Reading
      /\ SeenNow' = SeenNow /\ ServedNow' = ServedNow /\ Unseen' = Unseen
      /\ Repeated' = Repeated /\ Walking' = Walking
  BY DEF vars, Matching, Reach, Reading, SeenNow, ServedNow, Unseen, Repeated, Walking
<1>2. TypeOK'
  BY DEF Inductive, TypeOK, vars
<1>3. WalkAt => WalkAt'
  BY <1>1 DEF WalkAt, vars
<1>4. CountAt => CountAt'
  BY <1>1 DEF CountAt, vars
<1>5. PageAt => PageAt'
  BY <1>1 DEF PageAt, vars
<1>6. NothingYet => NothingYet'
  BY DEF NothingYet, vars
<1>7. QED BY <1>1, <1>2, <1>3, <1>4, <1>5, <1>6 DEF Inductive, vars

LEMMA NextInductive == ASSUME Inductive, Next PROVE Inductive'
<1>1. CASE \E l \in Lists, p \in Pages, size \in PerPages, f \in SUBSET Keys : Ask(l, p, size, f)
  BY <1>1, AskStep, PagingConstants
<1>2. ASSUME NEW p \in Pages, NEW size \in PerPages,
             \/ \E from, to \in Dates : GetHistory(p, size, from, to)
             \/ GetAllFleets(p, size)
             \/ \E f \in Searches :
                  \/ SearchLogs(p, size, f) \/ GetAllUsers(p, size, f) \/ GetAllRoles(p, size, f)
                  \/ GetAllPrivileges(p, size, f) \/ GetAllVehicles(p, size, f)
      PROVE  \E l \in Lists, f \in SUBSET Keys : Ask(l, p, size, f)
  <2>1. CASE \E from, to \in Dates : GetHistory(p, size, from, to)
    <3>1. PICK from \in Dates, to \in Dates :
             Ask("history", p, size, {k \in Keys : from <= k /\ k <= to})
      BY <2>1 DEF GetHistory
    <3>2. {k \in Keys : from <= k /\ k <= to} \in SUBSET Keys /\ "history" \in Lists
      BY DEF Lists
    <3>3. QED BY <3>1, <3>2
  <2>2. CASE GetAllFleets(p, size)
    <3>1. Ask("fleets", p, size, Keys) /\ Keys \in SUBSET Keys /\ "fleets" \in Lists
      BY <2>2 DEF GetAllFleets, Lists
    <3>2. QED BY <3>1
  <2>3. ASSUME NEW f \in Searches,
               \/ SearchLogs(p, size, f) \/ GetAllUsers(p, size, f) \/ GetAllRoles(p, size, f)
               \/ GetAllPrivileges(p, size, f) \/ GetAllVehicles(p, size, f)
        PROVE  \E l \in Lists : f \in SUBSET Keys /\ Ask(l, p, size, f)
    BY <2>3, PagingConstants
    DEF Lists, SearchLogs, GetAllUsers, GetAllRoles, GetAllPrivileges, GetAllVehicles
  <2>4. QED BY <1>2, <2>1, <2>2, <2>3
<1>3. CASE Find \/ Count \/ GeneratePagination \/ Follow
  BY <1>3, FindStep, CountStep, GeneratePaginationStep, FollowStep
<1>4. CASE \E k \in Keys : Insert(k)
  BY <1>4, InsertStep
<1>5. QED BY <1>1, <1>2, <1>3, <1>4 DEF Next

\* The strengthening that the other theorems follow from.
THEOREM InductiveHolds == Spec => []Inductive
<1>1. Init => Inductive
  BY InitInductive
<1>2. Inductive /\ [Next]_vars => Inductive'
  BY NextInductive, StutterInductive
<1>3. QED BY <1>1, <1>2, PTL DEF Spec

\* Every variable has its type; a page holds rows that match, and no more than its size
\* if that is a size and not 0, no limit.
THEOREM TypeCorrect == Spec => []TypeOK
<1>1. Inductive => TypeOK
  BY DEF Inductive
<1>2. QED BY <1>1, InductiveHolds, PTL

\* A client that follows nextUrl from page 1 to null has seen every row that matched
\* when it began, but for as many as came between a count and its query: whatever the
\* length of the list, the size of the pages and the rows that come.
THEOREM WalksAreComplete == Spec => []WalkIsComplete
<1>1. ASSUME Inductive, at = "answered", next = 0
      PROVE  Cardinality(before \ seen) <= Cardinality(late)
  <2>1. /\ TypeOK /\ CountAt /\ queried /\ total # Uncounted /\ page >= 1 /\ perPage >= 1
        /\ next = NextPage(page, total, perPage)
    BY <1>1 DEF Inductive, Walking, PageAt
  <2>2. page \in Nat /\ perPage \in Nat \ {0} /\ total \in Nat
    BY <2>1 DEF TypeOK
  <2>3. ~(page < TotalPages(total, perPage))
    BY <1>1, <2>1, <2>2 DEF NextPage
  <2>4. ~(page * perPage < total)
    BY <2>2, <2>3, PagesNeeded
  <2>5. Reach = page * perPage
    <3>1. page \in Int /\ perPage \in Int
      BY <2>2
    <3>2. QED BY <2>1, <3>1, SkipPages DEF Reach
  <2>6. Reach \in Int
    BY <2>1, SkipPages DEF Reach, TypeOK
  <2>7. total <= Reach
    BY <2>2, <2>4, <2>5, <2>6
  <2>8. Unseen = before \ seen
    BY <1>1 DEF Unseen, SeenNow, Reading
  <2>9. QED BY <2>1, <2>7, <2>8 DEF CountAt
<1>2. Inductive => WalkIsComplete
  BY <1>1 DEF WalkIsComplete
<1>3. QED BY <1>2, InductiveHolds, PTL

\* The rows that a walk shows again are no more than the rows that came during it.
THEOREM RepeatsAreBounded == Spec => []RepeatsAreArrivals
<1>1. ASSUME Inductive PROVE RepeatsAreArrivals
  <2>1. TypeOK /\ served <= Cardinality(seen) + Cardinality(arrived)
    BY <1>1 DEF Inductive
  <2>2. served \in Nat /\ Cardinality(seen) \in Nat /\ Cardinality(arrived) \in Nat
    BY <2>1, Finiteness DEF TypeOK
  <2>3. QED BY <2>1, <2>2 DEF RepeatsAreArrivals
<1>2. QED BY <1>1, InductiveHolds, PTL

\* A nextUrl leads to a page that has rows when it is opened, however long after.
THEOREM NextPagesHaveRows == Spec => []NextHasRows
<1>1. ASSUME Inductive PROVE NextHasRows
  BY <1>1 DEF Inductive, Walking, PageAt, NextHasRows
<1>2. QED BY <1>1, InductiveHolds, PTL
=============================================================================
