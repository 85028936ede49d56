--------------------------- MODULE TestCasesProofs ---------------------------
(***************************************************************************)
(* Maintenance of a problem's test cases, for any number of threads,       *)
(* cases, values of the limits, requests, faults and crashes, and for any  *)
(* numbering of the imported cases, with or without gaps.                  *)
(***************************************************************************)
EXTENDS TestCases, SequenceTheorems, FunctionTheorems, FiniteSetTheorems,
        WellFoundedInduction, TLAPS

-----------------------------------------------------------------------------
(* Numbers of a finite set in ascending order.                             *)

LEMMA LeastIs ==
  ASSUME NEW S \in SUBSET Nat, S # {}
  PROVE  Least(S) \in S /\ \A m \in S : Least(S) <= m
<1>1. PICK n \in S : \A m \in S : ~(<<m, n>> \in OpToRel(<, Nat))
  BY NatLessThanWellFounded, WFMin
<1>2. ASSUME NEW m \in S PROVE n <= m
  <2>1. n \in Nat /\ m \in Nat
    OBVIOUS
  <2>2. ~(m < n)
    BY <1>1, <2>1, Zenon DEF OpToRel
  <2> QED
    BY <2>1, <2>2
<1> QED
  BY <1>2 DEF Least

LEMMA NumsFinite ==
  ASSUME NEW S \in SUBSET Nums
  PROVE  /\ IsFiniteSet(S) /\ Cardinality(S) \in Nat /\ Cardinality(S) <= MaxNum
         /\ S \subseteq Nat
<1>1. MaxNum \in Nat
  BY TestCasesAssumption
<1>2. IsFiniteSet(1..MaxNum) /\ Cardinality(1..MaxNum) = MaxNum
  <2>1. 1 \in Int /\ MaxNum \in Int
    BY <1>1
  <2> QED
    BY <1>1, <2>1, FS_Interval
<1>3. IsFiniteSet(S) /\ Cardinality(S) <= MaxNum
  BY <1>2, FS_Subset DEF Nums
<1>4. Cardinality(S) \in Nat
  BY <1>3, FS_CardinalityType
<1> QED
  BY <1>1, <1>3, <1>4 DEF Nums

LEMMA PositionType ==
  ASSUME NEW S \in SUBSET Nums, NEW n
  PROVE  /\ Position(S, n) \in 0..Cardinality(S)
         /\ n \in S => Position(S, n) \in 1..Cardinality(S)
<1> DEFINE B == {m \in S : m <= n}
<1>1. IsFiniteSet(S) /\ Cardinality(S) \in Nat
  BY NumsFinite
<1>2. IsFiniteSet(B) /\ Cardinality(B) \in Nat /\ Cardinality(B) <= Cardinality(S)
  BY <1>1, FS_Subset, FS_CardinalityType
<1>3. ASSUME n \in S PROVE Cardinality(B) # 0
  <2>1. n \in B
    BY <1>3, NumsFinite
  <2> QED
    BY <1>2, <2>1, FS_EmptySet
<1> QED
  BY <1>1, <1>2, <1>3 DEF Position

\* Greater numbers come later.
LEMMA PositionMono ==
  ASSUME NEW S \in SUBSET Nums, NEW m \in Nat, NEW n \in S, m < n
  PROVE  Position(S, m) < Position(S, n)
<1> DEFINE A == {k \in S : k <= m}
           B == {k \in S : k <= n}
<1>1. IsFiniteSet(S) /\ S \subseteq Nat
  BY NumsFinite
<1>2. IsFiniteSet(A) /\ IsFiniteSet(B) /\ Cardinality(A) \in Nat /\ Cardinality(B) \in Nat
  BY <1>1, FS_Subset, FS_CardinalityType
<1>3. A \subseteq B /\ n \in B /\ n \notin A
  <2>1. n \in Nat /\ S \subseteq Nat
    BY <1>1
  <2>2. ASSUME NEW k \in A PROVE k \in B
    BY <2>1, <2>2
  <2>3. n <= n /\ ~(n <= m)
    BY <2>1
  <2> QED
    BY <2>2, <2>3
<1>4. Cardinality(A) <= Cardinality(B) /\ Cardinality(A) # Cardinality(B)
  BY <1>2, <1>3, FS_Subset
<1> QED
  BY <1>2, <1>4 DEF Position

LEMMA PositionInjective ==
  ASSUME NEW S \in SUBSET Nums, NEW m \in S, NEW n \in S,
         Position(S, m) = Position(S, n)
  PROVE  m = n
<1>1. m \in Nat /\ n \in Nat /\ Position(S, m) \in Nat /\ Position(S, n) \in Nat
  BY NumsFinite, PositionType
<1> QED
  BY <1>1, PositionMono

\* Every position up to the number of elements is taken.
LEMMA PositionOnto ==
  ASSUME NEW S \in SUBSET Nums, NEW i \in 1..Cardinality(S)
  PROVE  \E n \in S : Position(S, n) = i
<1> DEFINE T == 1..Cardinality(S)
           f == [n \in S |-> Position(S, n)]
<1>1. IsFiniteSet(S) /\ Cardinality(S) \in Nat
  BY NumsFinite
<1>2. IsFiniteSet(T) /\ Cardinality(T) = Cardinality(S)
  BY <1>1, FS_Interval
<1>3. f \in [S -> T]
  BY PositionType
<1>4. f \in Injection(S, T)
  BY <1>3, PositionInjective DEF Injection, IsInjective
<1>5. f \in Surjection(S, T)
  BY <1>2, <1>4, FS_Injection
<1> QED
  BY <1>5 DEF Surjection
\* The number after the last one is above all others and follows one of them.
LEMMA NextNumIs ==
  ASSUME NEW S \in SUBSET Nums
  PROVE  /\ NextNum(S) \in 1..(MaxNum + 1)
         /\ \A m \in S : m < NextNum(S)
         /\ NextNum(S) = 1 \/ NextNum(S) - 1 \in S
<1> DEFINE U == {n \in 1..(MaxNum + 1) : \A m \in S : m < n}
<1>1. MaxNum \in Nat /\ S \subseteq 1..MaxNum
  BY TestCasesAssumption DEF Nums
<1>2. MaxNum + 1 \in U
  BY <1>1
<1>3. U \subseteq Nat /\ U # {}
  BY <1>1, <1>2
<1>4. PICK n \in U : \A m \in U : n <= m
  <2> HIDE DEF U
  <2> QED
    BY <1>3, LeastIs
<1>5. n = 1 \/ n - 1 \in S
  <2> SUFFICES ASSUME n # 1 PROVE n - 1 \in S
    OBVIOUS
  <2>1. n \in 2..(MaxNum + 1) /\ n - 1 \in 1..(MaxNum + 1)
    BY <1>1
  <2>2. n - 1 \notin U
    BY <1>4, <2>1
  <2>3. PICK m \in S : ~(m < n - 1)
    BY <2>1, <2>2
  <2>4. m < n /\ m \in Nat
    BY <1>1
  <2> QED
    BY <2>1, <2>3, <2>4
<1> QED
  BY <1>4, <1>5 DEF NextNum

\* How positions change when a number comes at the end, goes, or moves down
\* into a free place.
LEMMA PositionsAdded ==
  ASSUME NEW S \in SUBSET Nums, NEW n \in Nums, \A m \in S : m < n
  PROVE  /\ Cardinality(S \cup {n}) = Cardinality(S) + 1
         /\ \A m \in S : Position(S \cup {n}, m) = Position(S, m)
         /\ Position(S \cup {n}, n) = Cardinality(S) + 1
<1>1. IsFiniteSet(S) /\ S \subseteq Nat /\ n \in Nat
  BY NumsFinite DEF Nums
<1>2. n \notin S
  BY <1>1
<1>3. Cardinality(S \cup {n}) = Cardinality(S) + 1
  BY <1>1, <1>2, FS_AddElement
<1>4. ASSUME NEW m \in S PROVE Position(S \cup {n}, m) = Position(S, m)
  <2>1. ~(n <= m)
    BY <1>1
  <2>2. {k \in S \cup {n} : k <= m} = {k \in S : k <= m}
    BY <2>1
  <2> QED
    BY <2>2 DEF Position
<1>5. {k \in S \cup {n} : k <= n} = S \cup {n}
  <2>1. n <= n /\ \A k \in S : k <= n
    BY <1>1
  <2>2. \A k \in S \cup {n} : k <= n
    BY <2>1
  <2> QED
    BY <2>2
<1> QED
  BY <1>3, <1>4, <1>5 DEF Position

LEMMA PositionsRemoved ==
  ASSUME NEW S \in SUBSET Nums, NEW n \in S
  PROVE  /\ Cardinality(S \ {n}) = Cardinality(S) - 1
         /\ \A m \in S : m < n => Position(S \ {n}, m) = Position(S, m)
         /\ \A m \in S : m > n => Position(S \ {n}, m) = Position(S, m) - 1
<1>1. IsFiniteSet(S) /\ S \subseteq Nat /\ n \in Nat
  BY NumsFinite
<1>2. Cardinality(S \ {n}) = Cardinality(S) - 1
  BY <1>1, FS_RemoveElement
<1>3. ASSUME NEW m \in S, m < n PROVE Position(S \ {n}, m) = Position(S, m)
  <2>1. ~(n <= m)
    BY <1>1, <1>3
  <2>2. {k \in S \ {n} : k <= m} = {k \in S : k <= m}
    BY <2>1
  <2> QED
    BY <2>2 DEF Position
<1>4. ASSUME NEW m \in S, m > n PROVE Position(S \ {n}, m) = Position(S, m) - 1
  <2> DEFINE A == {k \in S : k <= m}
  <2>1. n <= m
    BY <1>1, <1>4
  <2>2. {k \in S \ {n} : k <= m} = A \ {n} /\ n \in A
    BY <2>1
  <2>3. IsFiniteSet(A)
    BY <1>1, FS_Subset
  <2>4. Cardinality(A \ {n}) = Cardinality(A) - 1
    BY <2>2, <2>3, FS_RemoveElement
  <2> QED
    BY <2>2, <2>4 DEF Position
<1> QED
  BY <1>2, <1>3, <1>4

LEMMA PositionsMoved ==
  ASSUME NEW S \in SUBSET Nums, NEW n \in S, n - 1 \in Nums, n - 1 \notin S,
         NEW T, T = (S \ {n}) \cup {n - 1}
  PROVE  /\ T \in SUBSET Nums
         /\ Cardinality(T) = Cardinality(S)
         /\ \A m \in S \ {n} : Position(T, m) = Position(S, m)
         /\ Position(T, n - 1) = Position(S, n)
<1>1. IsFiniteSet(S) /\ S \subseteq Nat /\ n \in Nat \ {0} /\ Cardinality(S) \in Nat /\ n # n - 1
  BY NumsFinite DEF Nums
<1>2. ASSUME NEW A \in SUBSET S, n \in A
      PROVE  Cardinality((A \ {n}) \cup {n - 1}) = Cardinality(A)
  <2>1. IsFiniteSet(A) /\ Cardinality(A) \in Nat
    BY <1>1, FS_Subset, FS_CardinalityType
  <2>2. IsFiniteSet(A \ {n}) /\ Cardinality(A \ {n}) = Cardinality(A) - 1
    BY <1>2, <2>1, FS_RemoveElement
  <2>3. Cardinality((A \ {n}) \cup {n - 1}) = Cardinality(A \ {n}) + 1
    BY <2>2, FS_AddElement
  <2> QED
    BY <2>1, <2>2, <2>3
<1>3. ASSUME NEW m \in S \ {n} PROVE Position(T, m) = Position(S, m)
  <2>1. m \in Nat /\ m # n /\ m # n - 1
    BY <1>1
  <2>2. CASE m < n
    <3>1. ~(n <= m) /\ ~(n - 1 <= m)
      BY <1>1, <2>1, <2>2
    <3>2. {k \in T : k <= m} = {k \in S : k <= m}
      BY <3>1
    <3> QED
      BY <3>2 DEF Position
  <2>3. CASE m > n
    <3> DEFINE A == {k \in S : k <= m}
    <3>1. n <= m /\ n - 1 <= m
      BY <1>1, <2>1, <2>3
    <3>2. {k \in T : k <= m} = (A \ {n}) \cup {n - 1} /\ n \in A
      BY <3>1
    <3> QED
      BY <1>2, <3>2 DEF Position
  <2> QED
    BY <1>1, <2>1, <2>2, <2>3
<1>4. Position(T, n - 1) = Position(S, n)
  <2> DEFINE A == {k \in S : k <= n}
  <2>1. n <= n /\ n - 1 <= n - 1 /\ ~(n <= n - 1)
    BY <1>1
  <2>2. \A k \in S \ {n} : k <= n - 1 <=> k <= n
    BY <1>1
  <2>3. {k \in T : k <= n - 1} = (A \ {n}) \cup {n - 1} /\ n \in A
    BY <2>1, <2>2
  <2> QED
    BY <1>2, <2>3 DEF Position
<1> QED
  BY <1>2, <1>3, <1>4
\* In a numbering without a gap a number is its position.
LEMMA PositionsGapless ==
  ASSUME NEW k \in Nat, NEW S \in SUBSET Nums, S = 1..k, NEW n \in S
  PROVE  Position(S, n) = n
<1>1. n \in Nat /\ {m \in S : m <= n} = 1..n
  OBVIOUS
<1>2. Cardinality(1..n) = n
  <2>1. n \in Int /\ 1 \in Int /\ ~(1 > n)
    BY <1>1
  <2> QED
    BY <1>1, <2>1, FS_Interval
<1> QED
  BY <1>1, <1>2 DEF Position

-----------------------------------------------------------------------------
(* The cases as a list.                                                    *)

\* What it means that a list has the cases of the files in their order.
ListedAs(L) ==
  /\ L \in Seq(Contents)
  /\ Len(L) = Cardinality(Scan)
  /\ \A n \in Scan : L[Position(Scan, n)] = input[n]

\* The listing is the one list that has.
LEMMA ListingIs ==
  ASSUME input \in [Nums -> Contents]
  PROVE  /\ Scan \in SUBSET Nums /\ Cardinality(Scan) \in Nat
         /\ ListedAs(Listing)
         /\ \A L : ListedAs(L) => L = Listing
<1>1. Scan \in SUBSET Nums
  BY DEF Scan
<1>2. Cardinality(Scan) \in Nat
  BY <1>1, NumsFinite
<1> DEFINE at(i) == CHOOSE n \in Scan : Position(Scan, n) = i
<1>3. ASSUME NEW i \in 1..Cardinality(Scan)
      PROVE  at(i) \in Scan /\ Position(Scan, at(i)) = i
  BY <1>1, PositionOnto
<1>4. Listing = [i \in 1..Cardinality(Scan) |-> input[at(i)]]
  BY DEF Listing
<1> HIDE DEF at
<1>5. \A i \in 1..Cardinality(Scan) : input[at(i)] \in Contents
  BY <1>1, <1>3
<1>6. Listing \in [1..Cardinality(Scan) -> Contents]
  BY <1>4, <1>5
<1>7. Listing \in Seq(Contents) /\ Len(Listing) = Cardinality(Scan)
  BY <1>2, <1>6
<1>8. ASSUME NEW n \in Scan PROVE Listing[Position(Scan, n)] = input[n]
  <2>1. Position(Scan, n) \in 1..Cardinality(Scan)
    BY <1>1, PositionType
  <2>2. at(Position(Scan, n)) = n
    BY <1>1, <1>3, <2>1, PositionInjective
  <2> QED
    BY <1>4, <2>1, <2>2
<1>9. ASSUME NEW L, ListedAs(L) PROVE L = Listing
  <2>1. /\ L \in Seq(Contents) /\ Len(L) = Cardinality(Scan)
        /\ L \in [1..Cardinality(Scan) -> Contents]
    BY <1>9, LenProperties DEF ListedAs
  <2>2. ASSUME NEW i \in 1..Cardinality(Scan) PROVE L[i] = Listing[i]
    <3>1. at(i) \in Scan /\ Position(Scan, at(i)) = i
      BY <1>3
    <3> QED
      BY <1>8, <1>9, <3>1 DEF ListedAs
  <2> QED
    BY <1>6, <2>1, <2>2
<1> QED
  BY <1>1, <1>2, <1>7, <1>8, <1>9 DEF ListedAs
-----------------------------------------------------------------------------
(* Requests: four kinds of records, told apart by their pc.                *)

AddPcs == {"openIn", "fillIn", "openOut", "fillOut", "addScore"}
DeletePcs == {"rmIn", "rmOut", "rescan", "renIn", "renOut", "cutScore"}
ReplacePcs == {"backup", "swap", "restore", "dropBak"}

Additions == [pc : AddPcs, num : Nums, count : 0..MaxNum, case : Cases, pointed : BOOLEAN]
Deletions == [pc : DeletePcs, num : Nums, todo : SUBSET Nums]
Updates == [pc : {"writeLimits"}, ask : Asked, read : Limits, raced : SUBSET Columns]
Replacements == [pc : ReplacePcs, tmp : Directories]

LEMMA RequestKinds ==
  ASSUME NEW r \in Requests
  PROVE  /\ \/ r.pc \in {"idle", "writeLimits"}
            \/ r.pc \in AddPcs \cup DeletePcs \cup ReplacePcs
         /\ r.pc = "idle" => r = Idle
         /\ r.pc \in AddPcs => r \in Additions
         /\ r.pc \in DeletePcs => r \in Deletions
         /\ r.pc = "writeLimits" => r \in Updates
         /\ r.pc \in ReplacePcs => r \in Replacements
BY DEF Requests, Idle, Additions, Deletions, Updates, Replacements, AddPcs, DeletePcs, ReplacePcs

LEMMA KindsAreRequests ==
  /\ Idle \in Requests /\ Idle.pc = "idle"
  /\ Additions \subseteq Requests
  /\ Deletions \subseteq Requests
  /\ Updates \subseteq Requests
  /\ Replacements \subseteq Requests
BY DEF Requests, Idle, Additions, Deletions, Updates, Replacements, AddPcs, DeletePcs, ReplacePcs

\* An addition goes on to another of its steps.
LEMMA AdditionGoesOn ==
  ASSUME req \in [Staff -> Requests], NEW s \in Staff, req[s].pc \in AddPcs,
         NEW pc \in AddPcs, GoTo(s, pc)
  PROVE  /\ req' \in [Staff -> Requests]
         /\ \A t \in Staff \ {s} : req'[t] = req[t]
         /\ req'[s] \in Additions /\ req'[s].pc = pc
         /\ req'[s].num = req[s].num /\ req'[s].count = req[s].count
         /\ req'[s].case = req[s].case /\ req'[s].pointed = req[s].pointed
<1> DEFINE r == [req[s] EXCEPT !.pc = pc]
<1>1. req[s] \in Additions
  BY RequestKinds
<1>2. /\ r \in Additions /\ r.pc = pc /\ r.num = req[s].num /\ r.count = req[s].count
      /\ r.case = req[s].case /\ r.pointed = req[s].pointed
  BY <1>1 DEF Additions
<1>3. req' = [req EXCEPT ![s] = r]
  BY DEF GoTo
<1>4. r \in Requests
  BY <1>2, KindsAreRequests
<1> HIDE DEF r
<1> QED
  BY <1>2, <1>3, <1>4

MovesOn(s, pc, todo) ==
  \/ GoTo(s, pc) /\ todo = req[s].todo
  \/ req' = [req EXCEPT ![s].pc = pc, ![s].todo = todo]

\* A deletion goes on, with the same numbers to move or others.
LEMMA DeletionGoesOn ==
  ASSUME req \in [Staff -> Requests], NEW s \in Staff, req[s].pc \in DeletePcs,
         NEW pc \in DeletePcs, NEW todo \in SUBSET Nums,
         MovesOn(s, pc, todo)
  PROVE  /\ req' \in [Staff -> Requests]
         /\ \A t \in Staff \ {s} : req'[t] = req[t]
         /\ req'[s] \in Deletions /\ req'[s].pc = pc
         /\ req'[s].num = req[s].num /\ req'[s].todo = todo
<1> DEFINE r == [req[s] EXCEPT !.pc = pc, !.todo = todo]
<1>1. req[s] \in Deletions
  BY RequestKinds
<1>2. r \in Deletions /\ r.pc = pc /\ r.num = req[s].num /\ r.todo = todo
  BY <1>1 DEF Deletions
<1>3. req' = [req EXCEPT ![s] = r]
  <2>1. CASE GoTo(s, pc) /\ todo = req[s].todo
    <3>1. r = [req[s] EXCEPT !.pc = pc]
      BY <1>1, <2>1 DEF Deletions
    <3> QED
      BY <2>1, <3>1 DEF GoTo
  <2>2. CASE req' = [req EXCEPT ![s].pc = pc, ![s].todo = todo]
    BY <2>2
  <2> QED
    BY <2>1, <2>2 DEF MovesOn
<1>4. r \in Requests
  BY <1>2, KindsAreRequests
<1> HIDE DEF r
<1> QED
  BY <1>2, <1>3, <1>4

\* A request is taken, or answered.
LEMMA RequestBegins ==
  ASSUME req \in [Staff -> Requests], NEW s \in Staff, NEW r \in Requests,
         req' = [req EXCEPT ![s] = r]
  PROVE  /\ req' \in [Staff -> Requests]
         /\ \A t \in Staff \ {s} : req'[t] = req[t]
         /\ req'[s] = r
OBVIOUS

LEMMA RequestEnds ==
  ASSUME req \in [Staff -> Requests], NEW s \in Staff, Reply(s)
  PROVE  /\ req' \in [Staff -> Requests]
         /\ \A t \in Staff \ {s} : req'[t] = req[t]
         /\ req'[s] = Idle /\ req'[s].pc = "idle"
BY RequestBegins, KindsAreRequests DEF Reply
-----------------------------------------------------------------------------
(* The lines of the score file.                                            *)

LEMMA ResizedIs ==
  ASSUME NEW lines \in Seq(Lines), NEW k \in Nat
  PROVE  /\ Resized(lines, k) \in Seq(Lines)
         /\ Len(Resized(lines, k)) = k
         /\ \A i \in 1..k : Resized(lines, k)[i] = IF i <= Len(lines) THEN lines[i] ELSE "zero"
<1>1. lines \in [1..Len(lines) -> Lines] /\ Len(lines) \in Nat
  BY LenProperties
<1>2. \A i \in 1..k : (IF i <= Len(lines) THEN lines[i] ELSE "zero") \in Lines
  BY <1>1 DEF Lines
<1>3. Resized(lines, k) \in [1..k -> Lines]
  BY <1>2 DEF Resized
<1>4. Resized(lines, k) \in Seq(Lines) /\ Len(Resized(lines, k)) = k
  BY <1>3
<1> QED
  BY <1>4 DEF Resized

\* An added line.
LEMMA LineAdded ==
  ASSUME NEW lines \in Seq(Lines), NEW k \in Nat, NEW l \in Lines
  PROVE  LET new == Append(Resized(lines, k), l)
         IN  /\ new \in Seq(Lines)
             /\ Len(new) = k + 1
             /\ \A i \in 1..k : new[i] = IF i <= Len(lines) THEN lines[i] ELSE "zero"
             /\ new[k + 1] = l
<1> DEFINE old == Resized(lines, k)
<1>1. /\ old \in Seq(Lines) /\ Len(old) = k
      /\ \A i \in 1..k : old[i] = IF i <= Len(lines) THEN lines[i] ELSE "zero"
  BY ResizedIs
<1> HIDE DEF old
<1>2. Append(old, l) \in Seq(Lines) /\ Len(Append(old, l)) = k + 1
  BY <1>1
<1>3. Append(old, l)[k + 1] = l /\ \A i \in 1..k : Append(old, l)[i] = old[i]
  BY <1>1
<1> QED
  BY <1>1, <1>2, <1>3 DEF old

\* What is left of a list without one element.
LEMMA RemoveAtIs ==
  ASSUME NEW S, NEW L \in Seq(S), NEW n \in 1..Len(L)
  PROVE  /\ RemoveAt(L, n) \in Seq(S)
         /\ Len(RemoveAt(L, n)) = Len(L) - 1
         /\ \A i \in 1..(Len(L) - 1) : RemoveAt(L, n)[i] = L[IF i < n THEN i ELSE i + 1]
<1>1. RemoveAt(L, n) = SubSeq(L, 1, n - 1) \o SubSeq(L, n + 1, Len(L))
  BY DEF RemoveAt
<1> DEFINE a == SubSeq(L, 1, n - 1)
           b == SubSeq(L, n + 1, Len(L))
<1>2. Len(L) \in Nat /\ L \in Seq(S) /\ n \in Nat
  BY LenProperties
<1>3. /\ a \in Seq(S) /\ Len(a) = n - 1
      /\ \A i \in 1..(n - 1) : a[i] = L[i]
  BY <1>2
<1>4. /\ b \in Seq(S) /\ Len(b) = Len(L) - n
      /\ \A i \in 1..(Len(L) - n) : b[i] = L[n + i]
  BY <1>2
<1> HIDE DEF a, b
<1>5. a \o b \in Seq(S)
  BY <1>3, <1>4
<1>6. /\ Len(a \o b) = Len(L) - 1
      /\ \A i \in 1..(Len(L) - 1) :
            (a \o b)[i] = IF i <= n - 1 THEN a[i] ELSE b[i - (n - 1)]
  <2>1. Len(a) + Len(b) = Len(L) - 1
    BY <1>2, <1>3, <1>4
  <2>2. /\ Len(a \o b) = Len(a) + Len(b)
        /\ \A i \in 1..(Len(a) + Len(b)) :
              (a \o b)[i] = IF i <= Len(a) THEN a[i] ELSE b[i - Len(a)]
    BY <1>3, <1>4, ConcatProperties, Zenon
  <2> QED
    BY <1>3, <2>1, <2>2
<1>7. ASSUME NEW i \in 1..(Len(L) - 1)
      PROVE  (a \o b)[i] = L[IF i < n THEN i ELSE i + 1]
  <2>1. CASE i < n
    BY <1>2, <1>3, <1>6, <2>1
  <2>2. CASE ~(i < n)
    <3>1. i - (n - 1) \in 1..(Len(L) - n) /\ n + (i - (n - 1)) = i + 1
      BY <1>2, <2>2
    <3>2. b[i - (n - 1)] = L[i + 1]
      BY <1>4, <3>1
    <3> QED
      BY <1>2, <1>6, <2>2, <3>2
  <2> QED
    BY <2>1, <2>2
<1>8. RemoveAt(L, n) = a \o b
  BY <1>1 DEF a, b
<1> QED
  BY <1>5, <1>6, <1>7, <1>8

\* A line cut out, if there is one at the place.
Left(lines, n, j) == IF n <= Len(lines) /\ n <= j THEN j + 1 ELSE j

LEMMA LineCut ==
  ASSUME NEW lines \in Seq(Lines), NEW n \in Nat \ {0}, NEW k \in Nat
  PROVE  /\ CutLines(lines, n, k) \in Seq(Lines)
         /\ Len(CutLines(lines, n, k)) = k
         /\ \A j \in 1..k : CutLines(lines, n, k)[j] =
                IF Left(lines, n, j) <= Len(lines) THEN lines[Left(lines, n, j)] ELSE "zero"
<1> DEFINE rest == IF n <= Len(lines) THEN RemoveAt(lines, n) ELSE lines
<1>0. PICK l \in Nat : l = Len(lines)
  BY LenProperties
<1>1. n <= l => n \in 1..Len(lines)
  BY <1>0
<1>2. n <= l =>
        /\ rest \in Seq(Lines)
        /\ Len(rest) = l - 1
        /\ \A j \in 1..(l - 1) : rest[j] = lines[IF j < n THEN j ELSE j + 1]
  BY <1>0, <1>1, RemoveAtIs
<1>3. CutLines(lines, n, k) = Resized(rest, k) /\ rest \in Seq(Lines)
  BY <1>0, <1>2 DEF CutLines
<1>4. ~(n <= l) => rest = lines
  BY <1>0
<1> HIDE DEF rest
<1>5. /\ Resized(rest, k) \in Seq(Lines)
      /\ Len(Resized(rest, k)) = k
      /\ \A j \in 1..k : Resized(rest, k)[j] = IF j <= Len(rest) THEN rest[j] ELSE "zero"
  BY <1>3, ResizedIs
<1>6. ASSUME NEW j \in 1..k
      PROVE  Resized(rest, k)[j] =
                IF Left(lines, n, j) <= l THEN lines[Left(lines, n, j)] ELSE "zero"
  <2>0. PICK h : h = Left(lines, n, j)
    OBVIOUS
  <2>1. CASE ~(n <= l)
    <3>1. h = j /\ rest = lines
      BY <1>0, <1>4, <2>0, <2>1 DEF Left
    <3> QED
      BY <1>0, <1>5, <2>0, <3>1
  <2>2. CASE n <= l /\ n <= j
    <3>1. h = j + 1 /\ ~(j < n) /\ (j + 1 <= l <=> j <= l - 1)
      BY <1>0, <2>0, <2>2 DEF Left
    <3>2. j <= l - 1 => rest[j] = lines[h]
      BY <1>2, <2>2, <3>1
    <3> QED
      BY <1>2, <1>5, <2>0, <2>2, <3>1, <3>2
  <2>3. CASE n <= l /\ ~(n <= j)
    <3>1. h = j /\ j < n /\ j <= l - 1 /\ j <= l
      BY <1>0, <2>0, <2>3 DEF Left
    <3>2. rest[j] = lines[h]
      BY <1>2, <2>3, <3>1
    <3> QED
      BY <1>2, <1>5, <2>0, <2>3, <3>1, <3>2
  <2> QED
    BY <2>1, <2>2, <2>3
<1> QED
  BY <1>0, <1>3, <1>5, <1>6

-----------------------------------------------------------------------------
(* Types.  A deletion that moves numbers has some left, all above the one  *)
(* it deleted; so has a reader whose loop goes on.                         *)

Active == [pc : {"score", "look", "input", "answer", "done"}, kind : {"judge", "list"},
           nums : SUBSET Nums, todo : SUBSET Nums, lines : Seq(Lines), ran : Contents,
           verdict : Verdicts, shaky : BOOLEAN]

Looping(r) == r.pc \in {"look", "input", "answer"}

FilesTyped ==
  /\ input \in [Nums -> Contents]
  /\ answer \in [Nums -> Contents]
  /\ score \in ScoreFiles /\ score.file \in BOOLEAN /\ score.lines \in Seq(Lines)

RequestsTyped ==
  /\ req \in [Staff -> Requests]
  /\ \A s \in Staff : req[s].pc \in {"renIn", "renOut"} =>
        req[s].todo # {} /\ \A m \in req[s].todo : m > req[s].num

ReaderTyped ==
  /\ reader \in Readers
  /\ Looping(reader) => reader.todo # {}
  /\ reader.pc # "idle" => reader.todo \subseteq reader.nums

HistoryTyped ==
  /\ base \in Seq(Contents)
  /\ promised \in SUBSET Cases
  /\ aligned \in BOOLEAN
  /\ crossed \in BOOLEAN
  /\ slipped \in BOOLEAN

CountersTyped ==
  /\ limits \in Limits
  /\ requests \in 0..MaxRequests
  /\ faults \in 0..MaxFaults
  /\ crashes \in 0..MaxCrashes
  /\ slipped => faults > 0

\* The directory put aside, and what the row should hold.
AsideTyped ==
  /\ backup \in Directories
  /\ wanted \in Limits
  /\ reverted \in SUBSET Columns

Typed ==
  /\ FilesTyped /\ RequestsTyped /\ ReaderTyped
  /\ HistoryTyped /\ CountersTyped /\ AsideTyped

LEMMA BoundsAreNumbers ==
  MaxNum \in Nat /\ MaxRequests \in Nat /\ MaxFaults \in Nat /\ MaxCrashes \in Nat
BY TestCasesAssumption

LEMMA ReaderKinds ==
  ASSUME NEW r \in Readers
  PROVE  /\ r.pc = "idle" => r = NoReader
         /\ r.pc # "idle" => r \in Active
         /\ r # NoReader => r \in Active
BY DEF Readers, NoReader, Active

LEMMA ActiveAreReaders ==
  /\ NoReader \in Readers /\ NoReader.pc = "idle"
  /\ \A r \in Active : r \in Readers /\ r # NoReader /\ r.pc # "idle"
BY DEF Readers, NoReader, Active

LEMMA ReqKinds ==
  ASSUME RequestsTyped, NEW s \in Staff
  PROVE  /\ req[s] \in Requests
         /\ req[s].pc \in AddPcs => req[s] \in Additions
         /\ req[s].pc \in DeletePcs => req[s] \in Deletions
         /\ req[s].pc = "writeLimits" => req[s] \in Updates
         /\ req[s].pc \in ReplacePcs => req[s] \in Replacements
BY RequestKinds DEF RequestsTyped

\* The moving numbers of a deletion.
LEMMA MovingIs ==
  ASSUME RequestsTyped, NEW s \in Staff, req[s].pc \in {"renIn", "renOut"},
         NEW n, n = FirstToMove(req[s].todo)
  PROVE  /\ n \in req[s].todo /\ n \in Nums /\ n - 1 \in Nums
         /\ n > req[s].num /\ req[s].num \in Nums
         /\ req[s].todo \subseteq Nums
         /\ \A m \in req[s].todo : n <= m
<1>1. req[s] \in Deletions
  BY ReqKinds DEF DeletePcs
<1>2. req[s].todo \subseteq Nums /\ req[s].num \in Nums
  BY <1>1 DEF Deletions
<1>3. req[s].todo # {} /\ \A m \in req[s].todo : m > req[s].num
  BY DEF RequestsTyped
<1>4. req[s].todo \in SUBSET Nat
  BY <1>2, NumsFinite
<1>5. n \in req[s].todo /\ \A m \in req[s].todo : n <= m
  BY <1>3, <1>4, LeastIs DEF FirstToMove
<1>6. n - 1 \in Nums
  BY <1>2, <1>3, <1>5, BoundsAreNumbers DEF Nums
<1> QED
  BY <1>2, <1>3, <1>5, <1>6

LEMMA LoopIs ==
  ASSUME ReaderTyped, Looping(reader), NEW n, n = Least(reader.todo)
  PROVE  /\ reader \in Active /\ reader.nums \subseteq Nums
         /\ n \in reader.todo /\ n \in reader.nums /\ n \in Nums
<1>1. reader \in Active
  BY ReaderKinds DEF ReaderTyped, Looping
<1>2. reader.todo \subseteq Nums /\ reader.nums \subseteq Nums
  BY <1>1 DEF Active
<1>3. reader.todo # {} /\ reader.todo \subseteq reader.nums
  BY DEF ReaderTyped, Looping
<1>4. reader.todo \in SUBSET Nat
  BY <1>2, NumsFinite
<1> QED
  BY <1>1, <1>2, <1>3, <1>4, LeastIs
-----------------------------------------------------------------------------
(* What the steps of an edit do to its request.                            *)

Others(s) == /\ req' \in [Staff -> Requests]
             /\ \A t \in Staff \ {s} : req'[t] = req[t]

AddStep(s, pc) ==
  /\ Others(s)
  /\ req[s] \in Additions /\ req'[s] \in Additions /\ req'[s].pc = pc
  /\ req'[s].num = req[s].num /\ req'[s].count = req[s].count
  /\ req'[s].case = req[s].case /\ req'[s].pointed = req[s].pointed

DeleteStep(s, pc, todo) ==
  /\ Others(s)
  /\ req[s] \in Deletions /\ req'[s] \in Deletions /\ req'[s].pc = pc
  /\ req'[s].num = req[s].num /\ req'[s].todo = todo

EndStep(s) == Others(s) /\ req'[s].pc = "idle"

LEMMA AddStepIs ==
  ASSUME RequestsTyped, NEW s \in Staff, req[s].pc \in AddPcs, NEW pc \in AddPcs, GoTo(s, pc)
  PROVE  AddStep(s, pc)
BY AdditionGoesOn, ReqKinds DEF AddStep, Others, RequestsTyped

LEMMA DeleteStepIs ==
  ASSUME RequestsTyped, NEW s \in Staff, req[s].pc \in DeletePcs,
         NEW pc \in DeletePcs, NEW todo \in SUBSET Nums,
         MovesOn(s, pc, todo)
  PROVE  DeleteStep(s, pc, todo)
<1>1. req \in [Staff -> Requests] /\ req[s] \in Deletions
  BY ReqKinds DEF RequestsTyped
<1> QED
  BY <1>1, DeletionGoesOn DEF DeleteStep, Others

LEMMA EndStepIs ==
  ASSUME RequestsTyped, NEW s \in Staff, Reply(s)
  PROVE  EndStep(s)
BY RequestEnds DEF EndStep, Others, RequestsTyped

\* How a step fails, and what a listing is then.
Sound == UNCHANGED <<faults, slipped>>
Failing == faults < MaxFaults /\ faults' = faults + 1
Scanning(S) == \/ S = Scan /\ Sound
               \/ S # Scan /\ Failing /\ slipped' = TRUE

LEMMA ScanningIs ==
  ASSUME HistoryTyped, NEW S, Listed(S), slipped' = (slipped \/ S # Scan)
  PROVE  Scanning(S)
BY DEF Listed, Fault, Scanning, Sound, Failing, HistoryTyped

\* An addition finds its number and takes a case of its own.
LEMMA AddScanDoes ==
  ASSUME Typed, NEW s \in Staff, NEW S \in SUBSET Nums, NEW c \in Cases,
         NEW pointed \in BOOLEAN, AddScan(s, S, c, pointed)
  PROVE  /\ req[s].pc = "idle" /\ Others(s)
         /\ req'[s] \in Additions /\ req'[s].pc = "openIn" /\ req'[s].num = NextNum(S)
         /\ req'[s].count = Cardinality(S) /\ req'[s].case = c
         /\ NextNum(S) \in Nums /\ Fresh(c) /\ Began({}) /\ Scanning(S)
         /\ requests' \in 0..MaxRequests
         /\ UNCHANGED <<input, answer, score, limits, reader, crashes>>
         /\ UNCHANGED <<backup, wanted, reverted>>
<1> DEFINE r == [pc |-> "openIn", num |-> NextNum(S), count |-> Cardinality(S),
                 case |-> c, pointed |-> pointed]
<1>1. req \in [Staff -> Requests] /\ NextNum(S) \in Nums /\ requests < MaxRequests
  BY DEF Typed, RequestsTyped, AddScan, Accept
<1>2. Cardinality(S) \in 0..MaxNum
  BY NumsFinite, BoundsAreNumbers
<1>3. r \in Additions
  BY <1>1, <1>2 DEF Additions, AddPcs
<1>4. r \in Requests
  BY <1>3, KindsAreRequests
<1>5. req' = [req EXCEPT ![s] = r]
  BY DEF AddScan
<1>6. Others(s) /\ req'[s] = r
  BY <1>1, <1>4, <1>5, RequestBegins DEF Others
<1>7. requests' \in 0..MaxRequests
  BY BoundsAreNumbers DEF Typed, CountersTyped, AddScan, Accept
<1>8. Scanning(S)
  BY ScanningIs DEF AddScan, Typed
<1> QED
  BY <1>3, <1>6, <1>7, <1>8 DEF AddScan, Accept, At, files, asked

LEMMA DeleteFindDoes ==
  ASSUME Typed, NEW s \in Staff, NEW n \in Nums, DeleteFind(s, n)
  PROVE  /\ req[s].pc = "idle" /\ Others(s)
         /\ req'[s] \in Deletions /\ req'[s].pc = "rmIn" /\ req'[s].num = n
         /\ n \in Scan /\ Began({input[n]})
         /\ reader' = Shaken /\ Sound
         /\ requests' \in 0..MaxRequests
         /\ UNCHANGED <<input, answer, score, limits, crashes>>
         /\ UNCHANGED <<backup, wanted, reverted>>
<1> DEFINE r == [pc |-> "rmIn", num |-> n, todo |-> {}]
<1>1. req \in [Staff -> Requests]
  BY DEF Typed, RequestsTyped
<1>2. r \in Deletions
  BY DEF Deletions, DeletePcs
<1>3. r \in Requests
  BY <1>2, KindsAreRequests
<1>4. req' = [req EXCEPT ![s] = r]
  BY DEF DeleteFind
<1>5. Others(s) /\ req'[s] = r
  BY <1>1, <1>3, <1>4, RequestBegins DEF Others
<1>6. requests' \in 0..MaxRequests
  BY BoundsAreNumbers DEF Typed, CountersTyped, DeleteFind, Accept
<1> QED
  BY <1>2, <1>5, <1>6 DEF DeleteFind, Accept, At, files, asked, Sound
\* What the other steps of an edit leave alone, and how they fail.
EditFrame == /\ UNCHANGED <<limits, reader, base, promised, aligned, crossed, requests, crashes>>
             /\ UNCHANGED <<backup, wanted, reverted>>

LEMMA AddOpenInDoes ==
  ASSUME RequestsTyped, NEW s \in Staff, AddOpenIn(s)
  PROVE  /\ req[s].pc = "openIn" /\ EditFrame /\ UNCHANGED <<answer, score, slipped>>
         /\ \/ /\ AddStep(s, "fillIn") /\ Sound
               /\ input' = [input EXCEPT ![req[s].num] = "torn"]
            \/ AddStep(s, "openOut") /\ Failing /\ input' = input
<1>1. /\ req[s].pc = "openIn" /\ EditFrame /\ UNCHANGED <<answer, score, slipped>>
      /\ \/ /\ input' = [input EXCEPT ![req[s].num] = "torn"]
            /\ GoTo(s, "fillIn") /\ Sound
         \/ Failing /\ GoTo(s, "openOut") /\ input' = input
  BY DEF AddOpenIn, At, EditFrame, Sound, Failing, Fault, history, began, asked
<1>2. req[s].pc \in AddPcs /\ "fillIn" \in AddPcs /\ "openOut" \in AddPcs
  BY <1>1 DEF AddPcs
<1> QED
  BY <1>1, <1>2, AddStepIs

LEMMA AddFillInDoes ==
  ASSUME RequestsTyped, NEW s \in Staff, AddFillIn(s)
  PROVE  /\ req[s].pc = "fillIn" /\ EditFrame /\ UNCHANGED <<answer, score, slipped>>
         /\ AddStep(s, "openOut")
         /\ \/ Sound /\ input' = [input EXCEPT ![req[s].num] = req[s].case]
            \/ Failing /\ input' = input
<1>1. /\ req[s].pc = "fillIn" /\ EditFrame /\ UNCHANGED <<answer, score, slipped>>
      /\ GoTo(s, "openOut")
      /\ \/ Sound /\ input' = [input EXCEPT ![req[s].num] = req[s].case]
         \/ Failing /\ input' = input
  BY DEF AddFillIn, At, EditFrame, Sound, Failing, Fault, history, began, asked
<1>2. req[s].pc \in AddPcs /\ "openOut" \in AddPcs
  BY <1>1 DEF AddPcs
<1> QED
  BY <1>1, <1>2, AddStepIs

LEMMA AddOpenOutDoes ==
  ASSUME RequestsTyped, NEW s \in Staff, AddOpenOut(s)
  PROVE  /\ req[s].pc = "openOut" /\ EditFrame /\ UNCHANGED <<input, score, slipped>>
         /\ \/ /\ AddStep(s, "fillOut") /\ Sound
               /\ answer' = [answer EXCEPT ![req[s].num] = "torn"]
            \/ AddStep(s, "addScore") /\ Failing /\ answer' = answer
<1>1. /\ req[s].pc = "openOut" /\ EditFrame /\ UNCHANGED <<input, score, slipped>>
      /\ \/ /\ answer' = [answer EXCEPT ![req[s].num] = "torn"]
            /\ GoTo(s, "fillOut") /\ Sound
         \/ Failing /\ GoTo(s, "addScore") /\ answer' = answer
  BY DEF AddOpenOut, At, EditFrame, Sound, Failing, Fault, history, began, asked
<1>2. req[s].pc \in AddPcs /\ "fillOut" \in AddPcs /\ "addScore" \in AddPcs
  BY <1>1 DEF AddPcs
<1> QED
  BY <1>1, <1>2, AddStepIs

LEMMA AddFillOutDoes ==
  ASSUME RequestsTyped, NEW s \in Staff, AddFillOut(s)
  PROVE  /\ req[s].pc = "fillOut" /\ EditFrame /\ UNCHANGED <<input, score, slipped>>
         /\ AddStep(s, "addScore")
         /\ \/ Sound /\ answer' = [answer EXCEPT ![req[s].num] = req[s].case]
            \/ Failing /\ answer' = answer
<1>1. /\ req[s].pc = "fillOut" /\ EditFrame /\ UNCHANGED <<input, score, slipped>>
      /\ GoTo(s, "addScore")
      /\ \/ Sound /\ answer' = [answer EXCEPT ![req[s].num] = req[s].case]
         \/ Failing /\ answer' = answer
  BY DEF AddFillOut, At, EditFrame, Sound, Failing, Fault, history, began, asked
<1>2. req[s].pc \in AddPcs /\ "addScore" \in AddPcs
  BY <1>1 DEF AddPcs
<1> QED
  BY <1>1, <1>2, AddStepIs

\* The score file at the end of an addition.
NewLines(s) == Append(Resized(score.lines, req[s].count),
                      IF req[s].pointed THEN req[s].case ELSE "zero")

LEMMA AddScoreDoes ==
  ASSUME RequestsTyped, NEW s \in Staff, AddScore(s)
  PROVE  /\ req[s].pc = "addScore" /\ EditFrame /\ UNCHANGED <<input, answer, slipped>>
         /\ req[s] \in Additions /\ EndStep(s)
         /\ \/ /\ Sound /\ (req[s].pointed \/ score.file)
               /\ score' = [file |-> TRUE, lines |-> NewLines(s)]
            \/ Failing /\ score' \in {score, [file |-> TRUE, lines |-> <<>>]}
            \/ Sound /\ ~req[s].pointed /\ ~score.file /\ score' = score
<1>1. /\ req[s].pc = "addScore" /\ EditFrame /\ UNCHANGED <<input, answer, slipped>>
      /\ Reply(s)
      /\ \/ /\ Sound /\ (req[s].pointed \/ score.file)
            /\ score' = [file |-> TRUE, lines |-> NewLines(s)]
         \/ Failing /\ score' \in {score, [file |-> TRUE, lines |-> <<>>]}
         \/ Sound /\ ~req[s].pointed /\ ~score.file /\ score' = score
  BY DEF AddScore, At, EditFrame, Sound, Failing, Fault, Unwritten, history, began, asked, NewLines
<1>2. req[s] \in Additions
  BY <1>1, ReqKinds DEF AddPcs
<1> QED
  BY <1>1, <1>2, EndStepIs
LEMMA DeleteInDoes ==
  ASSUME RequestsTyped, NEW s \in Staff, DeleteIn(s)
  PROVE  /\ req[s].pc = "rmIn" /\ EditFrame /\ UNCHANGED <<answer, score>>
         /\ DeleteStep(s, "rmOut", req[s].todo)
         /\ \/ Sound /\ input' = [input EXCEPT ![req[s].num] = "absent"]
            \/ Failing /\ slipped' = TRUE /\ input' = input
<1>1. /\ req[s].pc = "rmIn" /\ EditFrame /\ UNCHANGED <<answer, score>>
      /\ GoTo(s, "rmOut")
      /\ \/ Sound /\ input' = [input EXCEPT ![req[s].num] = "absent"]
         \/ Failing /\ slipped' = TRUE /\ input' = input
  BY DEF DeleteIn, At, EditFrame, Sound, Failing, Fault, Slip, began, asked
<1>2. req[s].pc \in DeletePcs /\ "rmOut" \in DeletePcs
  BY <1>1 DEF DeletePcs
<1>3. req[s].todo \in SUBSET Nums
  BY <1>2, ReqKinds DEF Deletions
<1>4. MovesOn(s, "rmOut", req[s].todo)
  BY <1>1 DEF MovesOn
<1>5. DeleteStep(s, "rmOut", req[s].todo)
  BY <1>2, <1>3, <1>4, DeleteStepIs
<1> QED
  BY <1>1, <1>5

LEMMA DeleteOutDoes ==
  ASSUME RequestsTyped, NEW s \in Staff, DeleteOut(s)
  PROVE  /\ req[s].pc = "rmOut" /\ EditFrame /\ UNCHANGED <<input, score>>
         /\ DeleteStep(s, "rescan", req[s].todo)
         /\ \/ Sound /\ answer' = [answer EXCEPT ![req[s].num] = "absent"]
            \/ Failing /\ slipped' = TRUE /\ answer' = answer
<1>1. /\ req[s].pc = "rmOut" /\ EditFrame /\ UNCHANGED <<input, score>>
      /\ GoTo(s, "rescan")
      /\ \/ Sound /\ answer' = [answer EXCEPT ![req[s].num] = "absent"]
         \/ Failing /\ slipped' = TRUE /\ answer' = answer
  BY DEF DeleteOut, At, EditFrame, Sound, Failing, Fault, Slip, began, asked
<1>2. req[s].pc \in DeletePcs /\ "rescan" \in DeletePcs
  BY <1>1 DEF DeletePcs
<1>3. req[s].todo \in SUBSET Nums
  BY <1>2, ReqKinds DEF Deletions
<1>4. MovesOn(s, "rescan", req[s].todo)
  BY <1>1 DEF MovesOn
<1>5. DeleteStep(s, "rescan", req[s].todo)
  BY <1>2, <1>3, <1>4, DeleteStepIs
<1> QED
  BY <1>1, <1>5

\* Where a deletion goes when the numbers of a set are still to move.
Onward(S) == IF S = {} THEN "cutScore" ELSE "renIn"

LEMMA DeleteRescanDoes ==
  ASSUME RequestsTyped, HistoryTyped, NEW s \in Staff, NEW S \in SUBSET Nums, DeleteRescan(s, S),
         NEW above, above = {n \in S : n > req[s].num}
  PROVE  /\ req[s].pc = "rescan" /\ EditFrame /\ Scanning(S) /\ UNCHANGED <<input, answer, score>>
         /\ DeleteStep(s, Onward(above), above)
<1>0. Scanning(S)
  BY ScanningIs DEF DeleteRescan
<1>1. /\ req[s].pc = "rescan" /\ EditFrame /\ UNCHANGED <<input, answer, score>>
      /\ req' = [req EXCEPT ![s].pc = Onward(above), ![s].todo = above]
  BY DEF DeleteRescan, At, EditFrame, files, began, asked, Onward
<1>2. req[s].pc \in DeletePcs /\ Onward(above) \in DeletePcs
  BY <1>1 DEF DeletePcs, Onward
<1>3. above \in SUBSET Nums
  OBVIOUS
<1>4. MovesOn(s, Onward(above), above)
  BY <1>1 DEF MovesOn
<1>5. DeleteStep(s, Onward(above), above)
  BY <1>2, <1>3, <1>4, DeleteStepIs
<1> QED
  BY <1>0, <1>1, <1>5

LEMMA RenameInDoes ==
  ASSUME RequestsTyped, NEW s \in Staff, RenameIn(s)
  PROVE  /\ req[s].pc = "renIn" /\ EditFrame /\ UNCHANGED <<answer, score>>
         /\ DeleteStep(s, "renOut", req[s].todo)
         /\ \/ Sound /\ input' = Renamed(input, FirstToMove(req[s].todo))
            \/ Failing /\ slipped' = TRUE /\ input' = input
<1>1. /\ req[s].pc = "renIn" /\ EditFrame /\ UNCHANGED <<answer, score>>
      /\ GoTo(s, "renOut")
      /\ \/ Sound /\ input' = Renamed(input, FirstToMove(req[s].todo))
         \/ Failing /\ slipped' = TRUE /\ input' = input
  BY DEF RenameIn, At, EditFrame, Sound, Failing, Fault, Slip, began, asked
<1>2. req[s].pc \in DeletePcs /\ "renOut" \in DeletePcs
  BY <1>1 DEF DeletePcs
<1>3. req[s].todo \in SUBSET Nums
  BY <1>2, ReqKinds DEF Deletions
<1>4. MovesOn(s, "renOut", req[s].todo)
  BY <1>1 DEF MovesOn
<1>5. DeleteStep(s, "renOut", req[s].todo)
  BY <1>2, <1>3, <1>4, DeleteStepIs
<1> QED
  BY <1>1, <1>5

LEMMA RenameOutDoes ==
  ASSUME RequestsTyped, NEW s \in Staff, RenameOut(s),
         NEW n, n = FirstToMove(req[s].todo),
         NEW rest, rest = req[s].todo \ {n}
  PROVE  /\ req[s].pc = "renOut" /\ EditFrame /\ UNCHANGED <<input, score>>
         /\ DeleteStep(s, Onward(rest), rest)
         /\ \/ Sound /\ answer' = Renamed(answer, n)
            \/ Failing /\ slipped' = TRUE /\ answer' = answer
<1>1. /\ req[s].pc = "renOut" /\ EditFrame /\ UNCHANGED <<input, score>>
      /\ req' = [req EXCEPT ![s].pc = Onward(rest), ![s].todo = rest]
      /\ \/ Sound /\ answer' = Renamed(answer, n)
         \/ Failing /\ slipped' = TRUE /\ answer' = answer
  BY DEF RenameOut, At, EditFrame, Sound, Failing, Fault, Slip, began, asked, Onward
<1>2. req[s].pc \in DeletePcs /\ Onward(rest) \in DeletePcs
  BY <1>1 DEF DeletePcs, Onward
<1>3. rest \in SUBSET Nums
  BY <1>2, ReqKinds DEF Deletions
<1>4. MovesOn(s, Onward(rest), rest)
  BY <1>1 DEF MovesOn
<1>5. DeleteStep(s, Onward(rest), rest)
  BY <1>2, <1>3, <1>4, DeleteStepIs
<1> QED
  BY <1>1, <1>5

\* The score file at the end of a deletion.
LinesLeft(s, S) == CutLines(score.lines, req[s].num, Cardinality(S))

LEMMA DeleteScoreDoes ==
  ASSUME RequestsTyped, NEW s \in Staff, NEW S \in SUBSET Nums, DeleteScore(s, S)
  PROVE  /\ req[s].pc = "cutScore" /\ EditFrame /\ UNCHANGED <<input, answer, slipped>>
         /\ req[s] \in Deletions /\ EndStep(s)
         /\ \/ /\ (S = Scan /\ Sound) \/ (S # Scan /\ Failing)
               /\ score.file
               /\ score' = [file |-> LinesLeft(s, S) # <<>>, lines |-> LinesLeft(s, S)]
            \/ Failing /\ score' \in {score, [file |-> TRUE, lines |-> <<>>]}
            \/ Sound /\ ~score.file /\ score' = score
<1>1. /\ req[s].pc = "cutScore" /\ EditFrame /\ UNCHANGED <<input, answer, slipped>>
      /\ Reply(s)
      /\ \/ /\ (S = Scan /\ Sound) \/ (S # Scan /\ Failing)
            /\ score.file
            /\ score' = [file |-> LinesLeft(s, S) # <<>>, lines |-> LinesLeft(s, S)]
         \/ Failing /\ score' \in {score, [file |-> TRUE, lines |-> <<>>]}
         \/ Sound /\ ~score.file /\ score' = score
  BY DEF DeleteScore, ScoresCut, Listed, At, EditFrame, Sound, Failing, Fault, Unwritten, history,
         began, asked, LinesLeft
<1>2. req[s] \in Deletions
  BY <1>1, ReqKinds DEF DeletePcs
<1> QED
  BY <1>1, <1>2, EndStepIs
-----------------------------------------------------------------------------
(* Every step keeps the types.                                             *)

LEMMA OthersTyped ==
  ASSUME RequestsTyped, NEW s \in Staff, Others(s),
         req'[s].pc \in {"renIn", "renOut"} =>
            req'[s].todo # {} /\ \A m \in req'[s].todo : m > req'[s].num
  PROVE  RequestsTyped'
BY DEF RequestsTyped, Others

LEMMA AddStepTyped ==
  ASSUME RequestsTyped, NEW s \in Staff, NEW pc \in AddPcs, AddStep(s, pc)
  PROVE  RequestsTyped'
BY OthersTyped DEF AddStep, AddPcs

LEMMA DeleteStepTyped ==
  ASSUME RequestsTyped, NEW s \in Staff, NEW pc, NEW todo, DeleteStep(s, pc, todo),
         pc \in {"renIn", "renOut"} => todo # {} /\ \A m \in todo : m > req[s].num
  PROVE  RequestsTyped'
BY OthersTyped DEF DeleteStep

LEMMA EndStepTyped ==
  ASSUME RequestsTyped, NEW s \in Staff, EndStep(s)
  PROVE  RequestsTyped'
BY OthersTyped DEF EndStep

LEMMA BeganTyped ==
  ASSUME Typed, NEW D, Began(D)
  PROVE  slipped' \in BOOLEAN => HistoryTyped'
<1>1. input \in [Nums -> Contents] /\ promised \in SUBSET Cases /\ HistoryTyped
  BY DEF Typed, FilesTyped, HistoryTyped
<1>2. Listing \in Seq(Contents)
  BY <1>1, ListingIs DEF ListedAs
<1>3. base' \in Seq(Contents)
  BY <1>2 DEF Began
<1>4. promised' \in SUBSET Cases
  BY <1>1 DEF Began, Complete
<1>5. aligned' \in BOOLEAN /\ crossed' \in BOOLEAN
  BY <1>1 DEF Began, HistoryTyped, Regular, Quiet
<1> QED
  BY <1>1, <1>3, <1>4, <1>5 DEF HistoryTyped

\* What is left is typed when the files and the requests are.
LEMMA EditTyped ==
  ASSUME Typed, EditFrame,
         \/ Sound
         \/ Failing /\ slipped' \in {slipped, TRUE},
         FilesTyped', RequestsTyped'
  PROVE  Typed'
<1>1. ReaderTyped'
  BY DEF Typed, ReaderTyped, EditFrame, Looping
<1>2. HistoryTyped'
  BY DEF Typed, HistoryTyped, EditFrame, Sound
<1>3. CountersTyped'
  <2>1. /\ limits' \in Limits /\ requests' \in 0..MaxRequests /\ crashes' \in 0..MaxCrashes
        /\ faults \in 0..MaxFaults /\ (slipped => faults > 0)
    BY DEF Typed, CountersTyped, EditFrame
  <2>2. CASE Sound
    BY <2>1, <2>2 DEF CountersTyped, Sound
  <2>3. CASE Failing
    BY <2>1, <2>3, BoundsAreNumbers DEF CountersTyped, Failing
  <2> QED
    BY <2>1, <2>2, <2>3
<1>4. AsideTyped'
  BY DEF Typed, AsideTyped, EditFrame
<1> QED
  BY <1>1, <1>2, <1>3, <1>4 DEF Typed

LEMMA ContentsTyped ==
  /\ "absent" \in Contents /\ "torn" \in Contents /\ Cases \subseteq Contents
  /\ "zero" \in Lines /\ "stray" \in Lines /\ Cases \subseteq Lines
BY DEF Contents, Lines

LEMMA RenamedTyped ==
  ASSUME NEW f \in [Nums -> Contents], NEW n \in Nums, n - 1 \in Nums
  PROVE  /\ Renamed(f, n) \in [Nums -> Contents]
         /\ f[n] = "absent" => Renamed(f, n) = f
         /\ f[n] # "absent" => /\ Renamed(f, n)[n - 1] = f[n]
                               /\ Renamed(f, n)[n] = "absent"
                               /\ \A m \in Nums \ {n, n - 1} : Renamed(f, n)[m] = f[m]
<1>1. n # n - 1
  BY BoundsAreNumbers DEF Nums
<1> QED
  BY <1>1, ContentsTyped DEF Renamed

LEMMA ScoreTyped ==
  ASSUME FilesTyped, NEW f \in BOOLEAN, NEW lines \in Seq(Lines),
         \/ score' = score
         \/ score' = [file |-> f, lines |-> lines]
         \/ score' = [file |-> TRUE, lines |-> <<>>]
  PROVE  /\ score' \in ScoreFiles
         /\ score'.file \in BOOLEAN /\ score'.lines \in Seq(Lines)
<1>1. <<>> \in Seq(Lines)
  BY EmptySeq
<1>2. CASE score' = score
  BY <1>2 DEF FilesTyped
<1>3. CASE score' = [file |-> f, lines |-> lines]
  BY <1>3 DEF ScoreFiles
<1>4. CASE score' = [file |-> TRUE, lines |-> <<>>]
  BY <1>1, <1>4 DEF ScoreFiles
<1> QED
  BY <1>2, <1>3, <1>4

LEMMA ShakenTyped ==
  ASSUME ReaderTyped, reader' = Shaken
  PROVE  /\ ReaderTyped'
         /\ reader = NoReader => reader' = NoReader
         /\ reader # NoReader => reader' # NoReader /\ reader'.shaky
<1>1. CASE reader = NoReader
  BY <1>1 DEF Shaken, ReaderTyped
<1>2. CASE reader # NoReader
  <2>1. reader \in Active /\ reader' = [reader EXCEPT !.shaky = TRUE]
    BY <1>2, ReaderKinds DEF ReaderTyped, Shaken
  <2>2. /\ reader' \in Active /\ reader'.pc = reader.pc /\ reader'.shaky
        /\ reader'.todo = reader.todo /\ reader'.nums = reader.nums
    BY <2>1 DEF Active
  <2> QED
    BY <1>2, <2>2, ActiveAreReaders DEF ReaderTyped, Looping
<1> QED
  BY <1>1, <1>2

LEMMA AddTyped ==
  ASSUME Typed, NEW s \in Staff, Add(s)
  PROVE  Typed'
<1>0. /\ RequestsTyped /\ FilesTyped
      /\ input \in [Nums -> Contents] /\ answer \in [Nums -> Contents]
  BY DEF Typed, FilesTyped
<1>1. ASSUME NEW S \in SUBSET Nums, NEW c \in Cases, NEW pointed \in BOOLEAN,
             AddScan(s, S, c, pointed)
      PROVE  Typed'
  <2>1. RequestsTyped'
    BY <1>0, <1>1, AddScanDoes, OthersTyped
  <2>2. HistoryTyped'
    <3>1. slipped' \in BOOLEAN
      BY <1>1, AddScanDoes DEF Scanning, Sound, Typed, HistoryTyped
    <3> QED
      BY <1>1, <3>1, AddScanDoes, BeganTyped
  <2>3. FilesTyped' /\ ReaderTyped'
    BY <1>1, AddScanDoes DEF Typed, FilesTyped, ReaderTyped, Looping
  <2>4. CountersTyped' /\ AsideTyped'
    <3>1. /\ Scanning(S) /\ requests' \in 0..MaxRequests /\ UNCHANGED <<limits, crashes>>
          /\ UNCHANGED <<backup, wanted, reverted>>
      BY <1>1, AddScanDoes
    <3>2. CountersTyped /\ AsideTyped
      BY DEF Typed
    <3>3. faults' \in 0..MaxFaults /\ (slipped' => faults' > 0)
      BY <3>1, <3>2, BoundsAreNumbers DEF Scanning, Sound, Failing, CountersTyped
    <3> QED
      BY <3>1, <3>2, <3>3 DEF CountersTyped, AsideTyped
  <2> QED
    BY <2>1, <2>2, <2>3, <2>4 DEF Typed
<1>2. CASE AddOpenIn(s)
  <2>1. RequestsTyped'
    BY <1>0, <1>2, AddOpenInDoes, AddStepTyped DEF AddPcs
  <2>2. FilesTyped'
    BY <1>0, <1>2, AddOpenInDoes, ContentsTyped DEF FilesTyped
  <2> QED
    BY <1>0, <1>2, <2>1, <2>2, AddOpenInDoes, EditTyped
<1>3. CASE AddFillIn(s)
  <2>1. RequestsTyped'
    BY <1>0, <1>3, AddFillInDoes, AddStepTyped DEF AddPcs
  <2>2. req[s].case \in Contents
    BY <1>0, <1>3, AddFillInDoes, ContentsTyped DEF AddStep, Additions
  <2>3. FilesTyped'
    BY <1>0, <1>3, <2>2, AddFillInDoes DEF FilesTyped
  <2> QED
    BY <1>0, <1>3, <2>1, <2>3, AddFillInDoes, EditTyped
<1>4. CASE AddOpenOut(s)
  <2>1. RequestsTyped'
    BY <1>0, <1>4, AddOpenOutDoes, AddStepTyped DEF AddPcs
  <2>2. FilesTyped'
    BY <1>0, <1>4, AddOpenOutDoes, ContentsTyped DEF FilesTyped
  <2> QED
    BY <1>0, <1>4, <2>1, <2>2, AddOpenOutDoes, EditTyped
<1>5. CASE AddFillOut(s)
  <2>1. RequestsTyped'
    BY <1>0, <1>5, AddFillOutDoes, AddStepTyped DEF AddPcs
  <2>2. req[s].case \in Contents
    BY <1>0, <1>5, AddFillOutDoes, ContentsTyped DEF AddStep, Additions
  <2>3. FilesTyped'
    BY <1>0, <1>5, <2>2, AddFillOutDoes DEF FilesTyped
  <2> QED
    BY <1>0, <1>5, <2>1, <2>3, AddFillOutDoes, EditTyped
<1>6. CASE AddScore(s)
  <2>1. RequestsTyped'
    BY <1>0, <1>6, AddScoreDoes, EndStepTyped
  <2>2. NewLines(s) \in Seq(Lines)
    <3>1. req[s] \in Additions
      BY <1>0, <1>6, AddScoreDoes
    <3>2. /\ req[s].count \in Nat
          /\ (IF req[s].pointed THEN req[s].case ELSE "zero") \in Lines
      BY <3>1, ContentsTyped, BoundsAreNumbers DEF Additions
    <3> QED
      BY <1>0, <3>2, LineAdded DEF NewLines, FilesTyped
  <2>3. FilesTyped'
    <3>1. input' = input /\ answer' = answer
      BY <1>0, <1>6, AddScoreDoes
    <3>2. \/ score' = score
          \/ score' = [file |-> TRUE, lines |-> NewLines(s)]
          \/ score' = [file |-> TRUE, lines |-> <<>>]
      BY <1>0, <1>6, AddScoreDoes
    <3>3. score' \in ScoreFiles /\ score'.file \in BOOLEAN /\ score'.lines \in Seq(Lines)
      BY <1>0, <2>2, <3>2, ScoreTyped
    <3> QED
      BY <1>0, <3>1, <3>3 DEF FilesTyped
  <2> QED
    BY <1>0, <1>6, <2>1, <2>3, AddScoreDoes, EditTyped
<1> QED
  BY <1>1, <1>2, <1>3, <1>4, <1>5, <1>6 DEF Add
LEMMA DeleteTyped ==
  ASSUME Typed, NEW s \in Staff, Delete(s)
  PROVE  Typed'
<1>0. /\ RequestsTyped /\ FilesTyped
      /\ input \in [Nums -> Contents] /\ answer \in [Nums -> Contents]
  BY DEF Typed, FilesTyped
<1>1. ASSUME NEW n \in Nums, DeleteFind(s, n)
      PROVE  Typed'
  <2>1. RequestsTyped'
    BY <1>0, <1>1, DeleteFindDoes, OthersTyped
  <2>2. HistoryTyped' /\ slipped' = slipped
    BY <1>1, DeleteFindDoes, BeganTyped DEF Sound, Typed, HistoryTyped
  <2>3. FilesTyped'
    BY <1>1, DeleteFindDoes DEF Typed, FilesTyped
  <2>4. ReaderTyped'
    BY <1>1, DeleteFindDoes, ShakenTyped DEF Typed
  <2>5. CountersTyped' /\ AsideTyped'
    BY <1>1, <2>2, DeleteFindDoes DEF Typed, CountersTyped, AsideTyped, Sound
  <2> QED
    BY <2>1, <2>2, <2>3, <2>4, <2>5 DEF Typed
<1>2. CASE DeleteIn(s)
  <2>1. RequestsTyped'
    BY <1>0, <1>2, DeleteInDoes, DeleteStepTyped
  <2>2. FilesTyped'
    BY <1>0, <1>2, DeleteInDoes, ContentsTyped DEF FilesTyped
  <2> QED
    BY <1>0, <1>2, <2>1, <2>2, DeleteInDoes, EditTyped
<1>3. CASE DeleteOut(s)
  <2>1. RequestsTyped'
    BY <1>0, <1>3, DeleteOutDoes, DeleteStepTyped
  <2>2. FilesTyped'
    BY <1>0, <1>3, DeleteOutDoes, ContentsTyped DEF FilesTyped
  <2> QED
    BY <1>0, <1>3, <2>1, <2>2, DeleteOutDoes, EditTyped
<1>4. ASSUME NEW S \in SUBSET Nums, DeleteRescan(s, S) PROVE Typed'
  <2> DEFINE above == {n \in S : n > req[s].num}
  <2>0. HistoryTyped
    BY DEF Typed
  <2>1. RequestsTyped'
    BY <1>0, <1>4, <2>0, DeleteRescanDoes, DeleteStepTyped DEF Onward
  <2>2. FilesTyped'
    BY <1>0, <1>4, <2>0, DeleteRescanDoes DEF FilesTyped
  <2>3. EditFrame /\ Scanning(S)
    BY <1>0, <1>4, <2>0, DeleteRescanDoes
  <2> QED
    BY <2>1, <2>2, <2>3, EditTyped DEF Scanning
<1>5. CASE RenameIn(s)
  <2> DEFINE n == FirstToMove(req[s].todo)
  <2>1. req[s].pc = "renIn" /\ n \in Nums /\ n - 1 \in Nums
    BY <1>0, <1>5, RenameInDoes, MovingIs
  <2>2. RequestsTyped'
    <3>1. req[s].todo # {} /\ \A m \in req[s].todo : m > req[s].num
      BY <1>0, <2>1 DEF RequestsTyped
    <3> QED
      BY <1>0, <1>5, <3>1, RenameInDoes, DeleteStepTyped
  <2>3. FilesTyped'
    <3>1. /\ answer' = answer /\ score' = score
          /\ input' = Renamed(input, n) \/ input' = input
      BY <1>0, <1>5, RenameInDoes
    <3> HIDE DEF n
    <3> QED
      BY <1>0, <2>1, <3>1, RenamedTyped DEF FilesTyped
  <2> QED
    BY <1>0, <1>5, <2>2, <2>3, RenameInDoes, EditTyped
<1>6. CASE RenameOut(s)
  <2> DEFINE n == FirstToMove(req[s].todo)
             rest == req[s].todo \ {n}
  <2>1. /\ req[s].pc = "renOut" /\ n \in Nums /\ n - 1 \in Nums
        /\ EditFrame /\ UNCHANGED <<input, score>>
        /\ DeleteStep(s, Onward(rest), rest)
        /\ \/ Sound /\ answer' = Renamed(answer, n)
           \/ Failing /\ slipped' = TRUE /\ answer' = answer
    BY <1>0, <1>6, RenameOutDoes, MovingIs
  <2>2. RequestsTyped'
    <3>1. \A m \in req[s].todo : m > req[s].num
      BY <1>0, <2>1 DEF RequestsTyped
    <3> QED
      BY <1>0, <2>1, <3>1, DeleteStepTyped DEF Onward
  <2> HIDE DEF n
  <2>3. FilesTyped'
    BY <1>0, <2>1, RenamedTyped DEF FilesTyped
  <2> QED
    BY <2>1, <2>2, <2>3, EditTyped
<1>7. ASSUME NEW S \in SUBSET Nums, DeleteScore(s, S) PROVE Typed'
  <2>1. RequestsTyped'
    BY <1>0, <1>7, DeleteScoreDoes, EndStepTyped
  <2>2. LinesLeft(s, S) \in Seq(Lines)
    <3>1. req[s].num \in Nat \ {0}
      BY <1>0, <1>7, DeleteScoreDoes, BoundsAreNumbers DEF Deletions, Nums
    <3>2. Cardinality(S) \in Nat
      BY NumsFinite
    <3> QED
      BY <1>0, <3>1, <3>2, LineCut DEF LinesLeft, FilesTyped
  <2>3. FilesTyped'
    <3>1. input' = input /\ answer' = answer
      BY <1>0, <1>7, DeleteScoreDoes
    <3> DEFINE f == LinesLeft(s, S) # <<>>
    <3>2. \/ score' = score
          \/ score' = [file |-> f, lines |-> LinesLeft(s, S)]
          \/ score' = [file |-> TRUE, lines |-> <<>>]
      BY <1>0, <1>7, DeleteScoreDoes
    <3>3. score' \in ScoreFiles /\ score'.file \in BOOLEAN /\ score'.lines \in Seq(Lines)
      <4>1. f \in BOOLEAN
        OBVIOUS
      <4> HIDE DEF f
      <4> QED
        BY <1>0, <2>2, <3>2, <4>1, ScoreTyped
    <3> QED
      BY <1>0, <3>1, <3>3 DEF FilesTyped
  <2> QED
    BY <1>0, <1>7, <2>1, <2>3, DeleteScoreDoes, EditTyped
<1> QED
  BY <1>1, <1>2, <1>3, <1>4, <1>5, <1>6, <1>7 DEF Delete
\* What a limits request and a reader leave alone, and how a step that leaves
\* no trace in the history fails.
DirectoryFrame ==
  /\ UNCHANGED <<input, answer, score, backup, base, promised, aligned, crossed, slipped>>
  /\ UNCHANGED crashes

MayFail == faults' = faults \/ Failing

LEMMA DirectoryFrameTyped ==
  ASSUME Typed, DirectoryFrame
  PROVE  FilesTyped' /\ HistoryTyped' /\ backup' \in Directories
BY DEF Typed, FilesTyped, HistoryTyped, AsideTyped, DirectoryFrame

LEMMA MayFailTyped ==
  ASSUME CountersTyped, MayFail, slipped' = slipped
  PROVE  faults' \in 0..MaxFaults /\ (slipped' => faults' > 0)
BY BoundsAreNumbers DEF CountersTyped, MayFail, Failing

LEMMA LimitsReadDoes ==
  ASSUME Typed, NEW s \in Staff, NEW ask \in Asked, LimitsRead(s, ask)
  PROVE  /\ req[s].pc = "idle" /\ Others(s)
         /\ req'[s] \in Updates /\ req'[s].pc = "writeLimits" /\ req'[s].ask = ask
         /\ req'[s].read = limits
         /\ requests' \in 0..MaxRequests
         /\ DirectoryFrame /\ UNCHANGED <<limits, reader, wanted, reverted, faults>>
<1> DEFINE r == [pc |-> "writeLimits", ask |-> ask, read |-> limits, raced |-> {}]
<1>1. req \in [Staff -> Requests] /\ limits \in Limits
  BY DEF Typed, RequestsTyped, CountersTyped
<1>2. r \in Updates
  BY <1>1 DEF Updates
<1>3. r \in Requests
  BY <1>2, KindsAreRequests
<1>4. req' = [req EXCEPT ![s] = r]
  BY DEF LimitsRead
<1>5. Others(s) /\ req'[s] = r
  BY <1>1, <1>3, <1>4, RequestBegins DEF Others
<1>6. requests' \in 0..MaxRequests
  BY BoundsAreNumbers DEF Typed, CountersTyped, LimitsRead, Accept
<1> QED
  BY <1>2, <1>5, <1>6 DEF LimitsRead, Accept, At, DirectoryFrame, files, history, began, asked

\* The columns of a request are those it asks for and those it has read.
LEMMA LimitsToWriteIs ==
  ASSUME NEW r \in Updates
  PROVE  /\ LimitsToWrite(r) \in Limits
         /\ DOMAIN r.ask \in SUBSET Columns /\ r.raced \in SUBSET Columns
         /\ \A c \in DOMAIN r.ask : LimitsToWrite(r)[c] = r.ask[c]
         /\ \A c \in Columns \ DOMAIN r.ask : LimitsToWrite(r)[c] = r.read[c]
BY DEF LimitsToWrite, Updates, Limits, Asked, Columns

\* A write overtakes the limits requests that have read the row; no other
\* request sees it.
Overtakes(s, C) ==
  /\ req' \in [Staff -> Requests]
  /\ \A t \in Staff \ {s} :
       /\ req[t].pc # "writeLimits" => req'[t] = req[t]
       /\ req[t].pc = "writeLimits" => /\ req'[t] \in Updates
                                       /\ req'[t].pc = "writeLimits"
                                       /\ req'[t].ask = req[t].ask
                                       /\ req'[t].read = req[t].read
                                       /\ req'[t].raced = req[t].raced \cup C

LEMMA OvertakesIs ==
  ASSUME RequestsTyped, NEW s \in Staff, NEW r \in Requests, NEW C \in SUBSET Columns,
         req' = [t \in Staff |-> IF t = s THEN r ELSE Overtaken(req[t], C)]
  PROVE  Overtakes(s, C) /\ req'[s] = r
<1>1. ASSUME NEW t \in Staff \ {s}
      PROVE  /\ req[t].pc # "writeLimits" => req'[t] = req[t]
             /\ req[t].pc = "writeLimits" => /\ req'[t] \in Updates
                                             /\ req'[t].pc = "writeLimits"
                                             /\ req'[t].ask = req[t].ask
                                             /\ req'[t].read = req[t].read
                                             /\ req'[t].raced = req[t].raced \cup C
             /\ req'[t] \in Requests
  <2>1. req'[t] = Overtaken(req[t], C) /\ req[t] \in Requests
    BY <1>1 DEF RequestsTyped
  <2>2. CASE req[t].pc # "writeLimits"
    BY <2>1, <2>2 DEF Overtaken
  <2>3. CASE req[t].pc = "writeLimits"
    <3>1. req[t] \in Updates
      BY <2>3, ReqKinds
    <3>2. req'[t] = [req[t] EXCEPT !.raced = req[t].raced \cup C]
      BY <2>1, <2>3, <3>1 DEF Overtaken, Updates
    <3>3. /\ req'[t] \in Updates /\ req'[t].pc = "writeLimits"
          /\ req'[t].ask = req[t].ask /\ req'[t].read = req[t].read
          /\ req'[t].raced = req[t].raced \cup C
      BY <3>1, <3>2 DEF Updates
    <3> QED
      BY <2>3, <3>3, KindsAreRequests
  <2> QED
    BY <2>2, <2>3
<1>2. req'[s] = r
  OBVIOUS
<1>3. \A t \in Staff : req'[t] \in Requests
  BY <1>1, <1>2
<1>4. req' \in [Staff -> Requests]
  BY <1>3
<1> QED
  BY <1>1, <1>2, <1>4 DEF Overtakes

LEMMA OvertakesTyped ==
  ASSUME RequestsTyped, NEW s \in Staff, NEW C, Overtakes(s, C),
         req'[s].pc \notin {"renIn", "renOut"}
  PROVE  RequestsTyped'
<1>1. ASSUME NEW t \in Staff, req'[t].pc \in {"renIn", "renOut"}
      PROVE  req'[t] = req[t]
  BY <1>1 DEF Overtakes
<1> QED
  BY <1>1 DEF RequestsTyped, Overtakes

LEMMA LimitsWriteDoes ==
  ASSUME Typed, NEW s \in Staff, LimitsWrite(s)
  PROVE  /\ req[s] \in Updates /\ req[s].pc = "writeLimits" /\ limits' = LimitsToWrite(req[s])
         /\ Overtakes(s, req[s].raced \cup DOMAIN req[s].ask) /\ req'[s] = Idle
         /\ wanted' = [c \in Columns |-> IF c \in DOMAIN req[s].ask THEN req[s].ask[c] ELSE wanted[c]]
         /\ reverted' = (reverted \cup Stale(req[s])) \ DOMAIN req[s].ask
         /\ DirectoryFrame /\ UNCHANGED <<reader, requests, faults>>
<1>1. RequestsTyped
  BY DEF Typed
<1>2. req[s].pc = "writeLimits" /\ req[s] \in Updates
  BY <1>1, ReqKinds DEF LimitsWrite, At
<1>3. req[s].raced \cup DOMAIN req[s].ask \in SUBSET Columns
  BY <1>2, LimitsToWriteIs
<1>4. Overtakes(s, req[s].raced \cup DOMAIN req[s].ask) /\ req'[s] = Idle
  BY <1>1, <1>3, OvertakesIs, KindsAreRequests DEF LimitsWrite
<1> QED
  BY <1>2, <1>4 DEF LimitsWrite, DirectoryFrame, files, began

LEMMA SetLimitsTyped ==
  ASSUME Typed, NEW s \in Staff, SetLimits(s)
  PROVE  Typed'
<1>0. RequestsTyped
  BY DEF Typed
<1>1. ASSUME NEW ask \in Asked, LimitsRead(s, ask) PROVE Typed'
  <2>1. RequestsTyped'
    BY <1>1, LimitsReadDoes, OthersTyped DEF Typed
  <2>2. FilesTyped' /\ HistoryTyped' /\ backup' \in Directories
    BY <1>1, LimitsReadDoes, DirectoryFrameTyped
  <2>3. ReaderTyped' /\ CountersTyped' /\ AsideTyped'
    BY <1>1, <2>2, LimitsReadDoes
    DEF Typed, ReaderTyped, CountersTyped, AsideTyped, DirectoryFrame, Looping
  <2> QED
    BY <2>1, <2>2, <2>3 DEF Typed
<1>2. CASE LimitsWrite(s)
  <2>1. RequestsTyped'
    BY <1>0, <1>2, LimitsWriteDoes, OvertakesTyped, KindsAreRequests
  <2>2. FilesTyped' /\ HistoryTyped' /\ backup' \in Directories
    BY <1>2, LimitsWriteDoes, DirectoryFrameTyped
  <2>3. limits' \in Limits
    BY <1>2, LimitsWriteDoes, LimitsToWriteIs
  <2>4. ReaderTyped' /\ CountersTyped'
    BY <1>2, <2>3, LimitsWriteDoes DEF Typed, ReaderTyped, CountersTyped, DirectoryFrame, Looping
  <2>5. AsideTyped'
    <3>1. req[s] \in Updates /\ wanted \in Limits /\ reverted \in SUBSET Columns
      BY <1>2, LimitsWriteDoes DEF Typed, AsideTyped
    <3>2. req[s].ask \in Asked /\ req[s].raced \in SUBSET Columns
      BY <3>1 DEF Updates
    <3>3. wanted' = [c \in Columns |-> IF c \in DOMAIN req[s].ask THEN req[s].ask[c] ELSE wanted[c]]
      BY <1>2, LimitsWriteDoes
    <3>4. wanted' \in Limits
      BY <3>1, <3>2, <3>3 DEF Limits, Asked, Columns
    <3>5. reverted' \in SUBSET Columns
      BY <1>2, <3>1, <3>2, LimitsWriteDoes DEF Stale
    <3> QED
      BY <2>2, <3>4, <3>5 DEF AsideTyped
  <2> QED
    BY <2>1, <2>2, <2>4, <2>5 DEF Typed
<1> QED
  BY <1>1, <1>2 DEF SetLimits
\* The steps of update_problem.
Holds(d) == input = d.input /\ answer = d.answer /\ score = d.score

ReplaceFrame ==
  /\ UNCHANGED <<limits, reader, base, promised, aligned, crossed, slipped, wanted, reverted>>
  /\ UNCHANGED <<requests, crashes>>

ReplaceStep(s, pc) ==
  /\ Others(s)
  /\ req[s] \in Replacements /\ req'[s] \in Replacements /\ req'[s].pc = pc
  /\ req'[s].tmp = req[s].tmp

\* The cases write_inline_cases is given.
NewTests(d, k, c) ==
  /\ k \in Nums /\ c \in [1..k -> Cases]
  /\ \A i \in 1..k : Fresh(c[i])
  /\ \A i, j \in 1..k : c[i] = c[j] => i = j
  /\ \E pointed \in SUBSET (1..k) : d = Written(c, pointed)

LEMMA PreparedIs ==
  ASSUME NEW d \in Prepared
  PROVE  \E k \in Nums : \E c \in [1..k -> Cases] : NewTests(d, k, c)
<1>1. PICK c \in NewCases : d \in {Written(c, pointed) : pointed \in SUBSET DOMAIN c}
  BY DEF Prepared
<1>2. PICK k \in Nums : c \in [1..k -> Cases]
  BY <1>1 DEF NewCases
<1>3. DOMAIN c = 1..k
  BY <1>2
<1> QED
  BY <1>1, <1>2, <1>3 DEF NewCases, NewTests

\* A directory of whole cases, numbered from 1, with each case's points or 0
\* at its place.
Whole(d, k, c) ==
  /\ d \in Directories /\ d.answer = d.input
  /\ \A n \in Nums : d.input[n] = IF n \in 1..k THEN c[n] ELSE "absent"
  /\ \A i \in DOMAIN d.score.lines : i \in 1..k /\ d.score.lines[i] \in {c[i], "zero"}
  /\ ~d.score.file => d.score.lines = <<>>
  /\ \A i \in DOMAIN d.score.lines : d.score.lines[i] \in {"zero"} \cup {c[j] : j \in 1..k}

LEMMA WrittenIs ==
  ASSUME NEW k \in Nums, NEW c \in [1..k -> Cases], NEW pointed \in SUBSET (1..k)
  PROVE  Whole(Written(c, pointed), k, c)
<1> DEFINE file == [n \in Nums |-> IF n \in DOMAIN c THEN c[n] ELSE "absent"]
           lines == [i \in DOMAIN c |-> IF i \in pointed THEN c[i] ELSE "zero"]
           scores == IF pointed = {} THEN NoScores ELSE [file |-> TRUE, lines |-> lines]
<1>1. DOMAIN c = 1..k /\ k \in Nat /\ 1..k \subseteq Nums
  BY BoundsAreNumbers DEF Nums
<1>2. file \in [Nums -> Contents] /\ \A n \in Nums : file[n] = IF n \in 1..k THEN c[n] ELSE "absent"
  BY <1>1, ContentsTyped
<1>3. lines \in [1..k -> Lines] /\ \A i \in 1..k : lines[i] \in {c[i], "zero"}
  BY <1>1, ContentsTyped
<1>4. Written(c, pointed) = [input |-> file, answer |-> file, score |-> scores]
  BY DEF Written
<1> HIDE DEF file, lines
<1>5. lines \in Seq(Lines) /\ Len(lines) = k /\ DOMAIN lines = 1..k
  BY <1>1, <1>3
<1>6. /\ scores \in ScoreFiles
      /\ \A i \in DOMAIN scores.lines : i \in 1..k /\ scores.lines[i] \in {c[i], "zero"}
      /\ ~scores.file => scores.lines = <<>>
      /\ \A i \in DOMAIN scores.lines : scores.lines[i] \in {"zero"} \cup {c[j] : j \in 1..k}
  <2>1. CASE pointed = {}
    BY <2>1, EmptySeq DEF NoScores, ScoreFiles
  <2>2. CASE pointed # {}
    BY <2>2, <1>3, <1>5 DEF ScoreFiles
  <2> QED
    BY <2>1, <2>2
<1> HIDE DEF scores
<1> QED
  BY <1>2, <1>4, <1>6 DEF Whole, Directories

LEMMA NoDirectoryTyped ==
  /\ NoDirectory \in Directories
  /\ \A n \in Nums : NoDirectory.input[n] = "absent" /\ NoDirectory.answer[n] = "absent"
  /\ ~NoDirectory.score.file /\ NoDirectory.score.lines = <<>>
BY ContentsTyped, EmptySeq DEF NoDirectory, Directories, NoScores, ScoreFiles

LEMMA FlawedTyped ==
  ASSUME NEW d \in Directories, NEW f \in Flawed(d)
  PROVE  f \in Directories
<1>1. CASE \E n \in Nums : f = [d EXCEPT !.input[n] = "torn"]
  BY <1>1, ContentsTyped DEF Directories
<1>2. CASE \E n \in Nums : f = [d EXCEPT !.answer[n] = "torn"]
  BY <1>2, ContentsTyped DEF Directories
<1>3. CASE f = [d EXCEPT !.score.lines = <<>>]
  BY <1>3, EmptySeq DEF Directories, ScoreFiles
<1> QED
  BY <1>1, <1>2, <1>3 DEF Flawed

LEMMA LiveIs ==
  ASSUME FilesTyped
  PROVE  /\ Live \in Directories
         /\ \A d \in Directories : Live = d <=> Holds(d)
BY DEF FilesTyped, Live, Directories, Holds

LEMMA BecomesTyped ==
  ASSUME NEW d \in Directories, Becomes(d)
  PROVE  FilesTyped'
BY DEF Becomes, Directories, ScoreFiles, FilesTyped

LEMMA UpdateRowDoes ==
  ASSUME Typed, NEW s \in Staff, NEW new \in Limits, UpdateRow(s, new)
  PROVE  /\ req[s].pc = "idle" /\ Overtakes(s, Columns) /\ req'[s] = Idle
         /\ limits' = new /\ wanted' = new /\ reverted' = {}
         /\ requests' \in 0..MaxRequests
         /\ DirectoryFrame /\ MayFail /\ reader' = reader
<1>1. RequestsTyped
  BY DEF Typed
<1>2. Overtakes(s, Columns) /\ req'[s] = Idle
  BY <1>1, OvertakesIs, KindsAreRequests DEF UpdateRow, RowSet
<1>3. requests' \in 0..MaxRequests
  BY BoundsAreNumbers DEF Typed, CountersTyped, UpdateRow, Accept
<1> QED
  BY <1>2, <1>3
  DEF UpdateRow, RowSet, Accept, At, Fault, Failing, MayFail, DirectoryFrame, files, began

\* The tests of d take the place of the directory, or d with a flaw.
UpdateCasesWith(s, d) ==
  /\ req'[s] \in Replacements /\ req'[s].pc = "backup" /\ Overtakes(s, Columns)
  /\ (req'[s].tmp = d /\ faults' = faults) \/ Failing

LEMMA UpdateCasesDoes ==
  ASSUME Typed, NEW s \in Staff, NEW new \in Limits, UpdateCases(s, new)
  PROVE  /\ req[s].pc = "idle" /\ \E d \in Prepared : UpdateCasesWith(s, d)
         /\ req'[s] \in Replacements /\ req'[s].pc = "backup" /\ Overtakes(s, Columns)
         /\ limits' = new /\ wanted' = new /\ reverted' = {}
         /\ Quiet \/ (Overlap = "any" /\ ~\E t \in Staff : Replacing(t))
         /\ base' = Listing /\ promised' = {} /\ crossed' = (crossed \/ ~Quiet)
         /\ requests' \in 0..MaxRequests
         /\ reader' = Shaken /\ MayFail
         /\ UNCHANGED <<input, answer, score, backup, aligned, slipped, crashes>>
<1>1. RequestsTyped
  BY DEF Typed
<1>2. ASSUME NEW d \in Prepared, NEW tmp \in Directories, RowSet(s, new, [pc |-> "backup", tmp |-> tmp])
      PROVE  /\ req'[s] \in Replacements /\ req'[s].pc = "backup" /\ req'[s].tmp = tmp
             /\ Overtakes(s, Columns) /\ limits' = new /\ wanted' = new /\ reverted' = {}
  <2> DEFINE r == [pc |-> "backup", tmp |-> tmp]
  <2>1. r \in Replacements /\ r.pc = "backup" /\ r.tmp = tmp
    BY DEF Replacements, ReplacePcs
  <2>2. r \in Requests
    BY <2>1, KindsAreRequests
  <2>3. req' = [t \in Staff |-> IF t = s THEN r ELSE Overtaken(req[t], Columns)]
    BY <1>2 DEF RowSet
  <2> HIDE DEF r
  <2>4. Overtakes(s, Columns) /\ req'[s] = r
    BY <1>1, <2>2, <2>3, OvertakesIs
  <2> QED
    BY <1>2, <2>1, <2>4 DEF RowSet
<1>3. PICK d \in Prepared :
        \/ RowSet(s, new, [pc |-> "backup", tmp |-> d]) /\ faults' = faults
        \/ Failing /\ \E tmp \in Flawed(d) : RowSet(s, new, [pc |-> "backup", tmp |-> tmp])
  BY DEF UpdateCases, Fault, Failing
<1>4. d \in Directories
  BY PreparedIs, WrittenIs DEF NewTests, Whole
<1>5. /\ UpdateCasesWith(s, d) /\ MayFail
      /\ limits' = new /\ wanted' = new /\ reverted' = {}
  BY <1>2, <1>3, <1>4, FlawedTyped DEF UpdateCasesWith, MayFail
<1>6. requests' \in 0..MaxRequests
  BY BoundsAreNumbers DEF Typed, CountersTyped, UpdateCases, Accept
<1> QED
  BY <1>5, <1>6 DEF UpdateCases, UpdateCasesWith, Accept, At, files

LEMMA ReplaceGoesOn ==
  ASSUME RequestsTyped, NEW s \in Staff, req[s].pc \in ReplacePcs,
         NEW pc \in ReplacePcs, GoTo(s, pc)
  PROVE  ReplaceStep(s, pc)
<1> DEFINE r == [req[s] EXCEPT !.pc = pc]
<1>1. req[s] \in Replacements /\ req \in [Staff -> Requests]
  BY ReqKinds DEF RequestsTyped
<1>2. r \in Replacements /\ r.pc = pc /\ r.tmp = req[s].tmp
  BY <1>1 DEF Replacements
<1>3. req' = [req EXCEPT ![s] = r]
  BY DEF GoTo
<1>4. r \in Requests
  BY <1>2, KindsAreRequests
<1> HIDE DEF r
<1> QED
  BY <1>1, <1>2, <1>3, <1>4, RequestBegins DEF ReplaceStep, Others

LEMMA BackupDoes ==
  ASSUME Typed, NEW s \in Staff, Backup(s)
  PROVE  /\ req[s].pc = "backup" /\ req[s] \in Replacements /\ ReplaceFrame
         /\ \/ /\ ReplaceStep(s, "swap") /\ faults' = faults
               /\ backup' \in {backup, NoDirectory, Live} /\ Becomes(NoDirectory)
            \/ /\ EndStep(s) /\ Failing /\ backup' \in {backup, NoDirectory}
               /\ UNCHANGED <<input, answer, score>>
<1>1. RequestsTyped /\ FilesTyped
  BY DEF Typed
<1>2. req[s].pc = "backup" /\ req[s].pc \in ReplacePcs /\ "swap" \in ReplacePcs
  BY DEF Backup, At, ReplacePcs
<1>3. req[s] \in Replacements /\ ReplaceFrame
  BY <1>1, <1>2, ReqKinds DEF Backup, ReplaceFrame, history, began, asked
<1>4. CASE Fault /\ Reply(s) /\ backup' \in {backup, NoDirectory} /\ UNCHANGED files
  BY <1>1, <1>2, <1>3, <1>4, EndStepIs DEF Fault, Failing, files
<1>5. CASE /\ GoTo(s, "swap")
           /\ IF Live = NoDirectory
              THEN backup' \in {backup, NoDirectory} /\ UNCHANGED files
              ELSE backup' = Live /\ Becomes(NoDirectory)
           /\ UNCHANGED faults
  <2>1. ReplaceStep(s, "swap")
    BY <1>1, <1>2, <1>5, ReplaceGoesOn
  <2>2. Live = NoDirectory => Holds(NoDirectory)
    BY <1>1, LiveIs, NoDirectoryTyped
  <2>3. Becomes(NoDirectory) /\ backup' \in {backup, NoDirectory, Live}
    BY <1>5, <2>2 DEF Becomes, Holds, files
  <2> QED
    BY <1>2, <1>3, <1>5, <2>1, <2>3
<1> QED
  BY <1>4, <1>5 DEF Backup

LEMMA SwapDoes ==
  ASSUME Typed, NEW s \in Staff, Swap(s)
  PROVE  /\ req[s].pc = "swap" /\ req[s] \in Replacements /\ ReplaceFrame /\ backup' = backup
         /\ \/ /\ ReplaceStep(s, "dropBak") /\ faults' = faults
               /\ Holds(NoDirectory) /\ Becomes(req[s].tmp)
            \/ /\ ReplaceStep(s, "restore") /\ UNCHANGED <<input, answer, score>>
               /\ (~Holds(NoDirectory) /\ faults' = faults) \/ Failing
<1>1. RequestsTyped /\ FilesTyped
  BY DEF Typed
<1>2. req[s].pc = "swap" /\ req[s].pc \in ReplacePcs /\ {"dropBak", "restore"} \subseteq ReplacePcs
  BY DEF Swap, At, ReplacePcs
<1>3. req[s] \in Replacements /\ ReplaceFrame /\ backup' = backup
  BY <1>1, <1>2, ReqKinds DEF Swap, ReplaceFrame, history, began, asked
<1>4. Live = NoDirectory <=> Holds(NoDirectory)
  BY <1>1, LiveIs, NoDirectoryTyped
<1>5. CASE Live = NoDirectory /\ Becomes(req[s].tmp) /\ GoTo(s, "dropBak") /\ UNCHANGED faults
  BY <1>1, <1>2, <1>3, <1>4, <1>5, ReplaceGoesOn
<1>6. CASE /\ (Live # NoDirectory /\ UNCHANGED faults) \/ Fault
           /\ GoTo(s, "restore") /\ UNCHANGED files
  BY <1>1, <1>2, <1>3, <1>4, <1>6, ReplaceGoesOn DEF files, Fault, Failing
<1> QED
  BY <1>5, <1>6 DEF Swap

LEMMA RestoreDoes ==
  ASSUME Typed, NEW s \in Staff, Restore(s)
  PROVE  /\ req[s].pc = "restore" /\ req[s] \in Replacements /\ ReplaceFrame /\ EndStep(s) /\ MayFail
         /\ \/ Becomes(backup) /\ backup' = NoDirectory
            \/ UNCHANGED <<input, answer, score, backup>>
<1>1. RequestsTyped
  BY DEF Typed
<1>2. req[s].pc = "restore" /\ req[s].pc \in ReplacePcs
  BY DEF Restore, At, ReplacePcs
<1> QED
  BY <1>1, <1>2, ReqKinds, EndStepIs
  DEF Restore, ReplaceFrame, MayFail, Fault, Failing, files, history, began, asked

LEMMA DropBackupDoes ==
  ASSUME Typed, NEW s \in Staff, DropBackup(s)
  PROVE  /\ req[s].pc = "dropBak" /\ req[s] \in Replacements /\ ReplaceFrame /\ EndStep(s) /\ MayFail
         /\ backup' \in {backup, NoDirectory} /\ UNCHANGED <<input, answer, score>>
<1>1. RequestsTyped
  BY DEF Typed
<1>2. req[s].pc = "dropBak" /\ req[s].pc \in ReplacePcs
  BY DEF DropBackup, At, ReplacePcs
<1> QED
  BY <1>1, <1>2, ReqKinds, EndStepIs
  DEF DropBackup, ReplaceFrame, MayFail, Fault, Failing, files, history, began, asked

\* What is left is typed when the directories and the requests are.
LEMMA ReplaceTyped ==
  ASSUME Typed, ReplaceFrame, MayFail, FilesTyped', RequestsTyped', backup' \in Directories
  PROVE  Typed'
<1>1. ReaderTyped' /\ HistoryTyped' /\ AsideTyped'
  BY DEF Typed, ReaderTyped, HistoryTyped, AsideTyped, ReplaceFrame, Looping
<1>2. faults' \in 0..MaxFaults /\ (slipped' => faults' > 0)
  BY MayFailTyped DEF Typed, ReplaceFrame
<1>3. CountersTyped'
  BY <1>2 DEF Typed, CountersTyped, ReplaceFrame
<1> QED
  BY <1>1, <1>3 DEF Typed

LEMMA ReplaceStepTyped ==
  ASSUME RequestsTyped, NEW s \in Staff, NEW pc \in ReplacePcs, ReplaceStep(s, pc)
  PROVE  RequestsTyped'
BY OthersTyped DEF ReplaceStep, ReplacePcs

LEMMA UpdateTyped ==
  ASSUME Typed, NEW s \in Staff, Update(s)
  PROVE  Typed'
<1>0. /\ RequestsTyped /\ FilesTyped /\ backup \in Directories /\ NoDirectory \in Directories
      /\ Live \in Directories
  BY NoDirectoryTyped, LiveIs DEF Typed, AsideTyped
<1>1. ASSUME NEW new \in Limits, UpdateRow(s, new) PROVE Typed'
  <2>1. RequestsTyped'
    BY <1>0, <1>1, UpdateRowDoes, OvertakesTyped, KindsAreRequests
  <2>2. FilesTyped' /\ HistoryTyped' /\ AsideTyped'
    BY <1>1, UpdateRowDoes, DirectoryFrameTyped DEF AsideTyped
  <2>3. faults' \in 0..MaxFaults /\ (slipped' => faults' > 0)
    BY <1>1, UpdateRowDoes, MayFailTyped DEF Typed, DirectoryFrame
  <2>4. ReaderTyped' /\ CountersTyped'
    BY <1>1, <2>3, UpdateRowDoes DEF Typed, ReaderTyped, CountersTyped, DirectoryFrame, Looping
  <2> QED
    BY <2>1, <2>2, <2>4 DEF Typed
<1>2. ASSUME NEW new \in Limits, UpdateCases(s, new) PROVE Typed'
  <2>1. RequestsTyped'
    BY <1>0, <1>2, UpdateCasesDoes, OvertakesTyped
  <2>2. Listing \in Seq(Contents)
    BY <1>0, ListingIs DEF ListedAs, FilesTyped
  <2>3. FilesTyped' /\ HistoryTyped' /\ AsideTyped'
    BY <1>2, <2>2, UpdateCasesDoes DEF Typed, FilesTyped, HistoryTyped, AsideTyped, Quiet
  <2>4. faults' \in 0..MaxFaults /\ (slipped' => faults' > 0)
    BY <1>2, UpdateCasesDoes, MayFailTyped DEF Typed
  <2>5. CountersTyped'
    BY <1>2, <2>4, UpdateCasesDoes DEF Typed, CountersTyped
  <2>6. ReaderTyped'
    BY <1>2, UpdateCasesDoes, ShakenTyped DEF Typed
  <2> QED
    BY <2>1, <2>3, <2>5, <2>6 DEF Typed
<1>3. CASE Backup(s)
  <2>1. RequestsTyped'
    BY <1>0, <1>3, BackupDoes, ReplaceStepTyped, EndStepTyped DEF ReplacePcs
  <2>2. FilesTyped'
    BY <1>0, <1>3, BackupDoes, BecomesTyped DEF FilesTyped
  <2> QED
    BY <1>0, <1>3, <2>1, <2>2, BackupDoes, ReplaceTyped DEF MayFail
<1>4. CASE Swap(s)
  <2>1. RequestsTyped'
    BY <1>0, <1>4, SwapDoes, ReplaceStepTyped DEF ReplacePcs
  <2>2. req[s].tmp \in Directories
    BY <1>4, SwapDoes DEF Replacements
  <2>3. FilesTyped'
    BY <1>0, <1>4, <2>2, SwapDoes, BecomesTyped DEF FilesTyped
  <2> QED
    BY <1>0, <1>4, <2>1, <2>3, SwapDoes, ReplaceTyped DEF MayFail
<1>5. CASE Restore(s)
  <2>1. RequestsTyped'
    BY <1>0, <1>5, RestoreDoes, EndStepTyped
  <2>2. FilesTyped'
    BY <1>0, <1>5, RestoreDoes, BecomesTyped DEF FilesTyped
  <2> QED
    BY <1>0, <1>5, <2>1, <2>2, RestoreDoes, ReplaceTyped
<1>6. CASE DropBackup(s)
  <2>1. RequestsTyped'
    BY <1>0, <1>6, DropBackupDoes, EndStepTyped
  <2>2. FilesTyped'
    BY <1>0, <1>6, DropBackupDoes DEF FilesTyped
  <2> QED
    BY <1>0, <1>6, <2>1, <2>2, DropBackupDoes, ReplaceTyped
<1> QED
  BY <1>1, <1>2, <1>3, <1>4, <1>5, <1>6 DEF Update
\* The steps of a reader.
ReaderFrame == /\ DirectoryFrame /\ MayFail
               /\ UNCHANGED <<limits, req, requests, wanted, reverted>>

Unmoved(r, q) == /\ q.kind = r.kind /\ q.nums = r.nums /\ q.shaky = r.shaky

LEMMA ReaderScanDoes ==
  ASSUME Typed, NEW kind \in {"judge", "list"}, NEW S \in SUBSET Nums, ReaderScan(kind, S)
  PROVE  /\ ReaderFrame /\ reader = NoReader
         /\ reader' \in Active
         /\ reader'.pc \in {"score", "look", "done"}
         /\ reader'.pc = "look" => reader'.todo # {}
         /\ reader'.pc = "done" => reader'.verdict = "missing"
         /\ reader'.kind = kind /\ (reader'.pc = "score" <=> kind = "list")
         /\ Listed(S) /\ reader'.nums = S /\ reader'.todo = S /\ reader'.lines = <<>>
         /\ reader'.verdict \in {"none", "missing"}
         /\ reader'.shaky = (\E s \in Staff : Deleting(s) \/ Replacing(s))
<1> DEFINE pc == IF kind = "list" THEN "score" ELSE IF S = {} THEN "done" ELSE "look"
           verdict == IF kind = "judge" /\ S = {} THEN "missing" ELSE "none"
           shaky == \E s \in Staff : Deleting(s) \/ Replacing(s)
<1>1. reader' = [pc |-> pc, kind |-> kind, nums |-> S, todo |-> S, lines |-> <<>>,
                 ran |-> "absent", verdict |-> verdict, shaky |-> shaky]
  BY DEF ReaderScan
<1>2. /\ pc \in {"score", "look", "done"} /\ (pc = "score" <=> kind = "list")
      /\ pc = "look" => S # {}
      /\ pc = "done" => verdict = "missing"
      /\ verdict \in {"none", "missing"}
  OBVIOUS
<1>3. shaky \in BOOLEAN
  OBVIOUS
<1>4. <<>> \in Seq(Lines) /\ "absent" \in Contents
  BY EmptySeq, ContentsTyped
<1> HIDE DEF pc, verdict, shaky
<1>5. reader' \in Active
  BY <1>1, <1>2, <1>3, <1>4 DEF Active, Verdicts
<1>6. ReaderFrame /\ Listed(S) /\ reader = NoReader
  BY DEF ReaderScan, ReaderFrame, DirectoryFrame, MayFail, Failing, Listed, Fault, files, history,
         began, asked
<1> QED
  BY <1>1, <1>2, <1>5, <1>6 DEF shaky

LEMMA ListScoresDoes ==
  ASSUME Typed, ListScores
  PROVE  /\ ReaderFrame /\ reader \in Active /\ reader.pc = "score"
         /\ reader' \in Active /\ Unmoved(reader, reader')
         /\ reader'.pc = (IF reader.todo = {} THEN "done" ELSE "input")
         /\ reader'.todo = reader.todo /\ reader'.lines = score.lines
         /\ reader'.ran = reader.ran /\ reader'.verdict = reader.verdict
<1>1. reader \in Active /\ score.lines \in Seq(Lines)
  BY ReaderKinds DEF ListScores, Typed, ReaderTyped, FilesTyped
<1> DEFINE pc == IF reader.todo = {} THEN "done" ELSE "input"
<1>2. reader' = [reader EXCEPT !.lines = score.lines, !.pc = pc]
  BY DEF ListScores
<1>3. pc \in {"done", "input"}
  OBVIOUS
<1> HIDE DEF pc
<1>4. /\ reader' \in Active /\ Unmoved(reader, reader') /\ reader'.pc = pc
      /\ reader'.todo = reader.todo /\ reader'.lines = score.lines
      /\ reader'.ran = reader.ran /\ reader'.verdict = reader.verdict
  BY <1>1, <1>2, <1>3 DEF Active, Unmoved
<1> QED
  BY <1>1, <1>4 DEF ListScores, ReaderFrame, DirectoryFrame, MayFail, files, history, began, asked, pc

LEMMA JudgeLookDoes ==
  ASSUME Typed, JudgeLook
  PROVE  /\ ReaderFrame /\ reader \in Active /\ reader.pc = "look"
         /\ reader' \in Active /\ Unmoved(reader, reader')
         /\ reader'.todo = reader.todo /\ reader'.lines = reader.lines
         /\ \/ reader'.pc = "done" /\ reader'.verdict = "missing"
            \/ reader'.pc = "input" /\ reader'.verdict = reader.verdict
<1>1. reader \in Active /\ reader.pc = "look"
  BY ReaderKinds DEF JudgeLook, Typed, ReaderTyped
<1>2. \/ reader' = [reader EXCEPT !.pc = "done", !.verdict = "missing"]
      \/ reader' = [reader EXCEPT !.pc = "input"]
  BY DEF JudgeLook
<1>3. /\ reader' \in Active /\ Unmoved(reader, reader')
      /\ reader'.todo = reader.todo /\ reader'.lines = reader.lines
      /\ \/ reader'.pc = "done" /\ reader'.verdict = "missing"
         \/ reader'.pc = "input" /\ reader'.verdict = reader.verdict
  BY <1>1, <1>2 DEF Active, Unmoved, Verdicts
<1> QED
  BY <1>1, <1>3 DEF JudgeLook, ReaderFrame, DirectoryFrame, MayFail, files, history, began, asked

LEMMA ReadInputDoes ==
  ASSUME Typed, ReadInput, NEW n, n = Least(reader.todo)
  PROVE  /\ ReaderFrame /\ reader \in Active /\ reader.pc = "input"
         /\ reader' \in Active /\ Unmoved(reader, reader')
         /\ reader'.todo = reader.todo /\ reader'.lines = reader.lines
         /\ \/ reader'.pc = "done" /\ reader'.verdict = "missing"
            \/ /\ reader'.pc = "answer" /\ reader'.ran = input[n]
               /\ reader'.verdict = reader.verdict
<1>1. reader \in Active /\ reader.pc = "input" /\ Looping(reader)
  BY ReaderKinds DEF ReadInput, Typed, ReaderTyped, Looping
<1>2. n \in Nums
  BY <1>1, LoopIs DEF Typed
<1> DEFINE found == input[n]
<1>3. found \in Contents
  BY <1>2 DEF Typed, FilesTyped
<1>4. \/ reader' = [reader EXCEPT !.pc = "done", !.verdict = "missing"]
      \/ reader' = [reader EXCEPT !.pc = "answer", !.ran = found]
  BY DEF ReadInput
<1> HIDE DEF found
<1>5. /\ reader' \in Active /\ Unmoved(reader, reader')
      /\ reader'.todo = reader.todo /\ reader'.lines = reader.lines
      /\ \/ reader'.pc = "done" /\ reader'.verdict = "missing"
         \/ /\ reader'.pc = "answer" /\ reader'.ran = found
            /\ reader'.verdict = reader.verdict
  BY <1>1, <1>3, <1>4 DEF Active, Unmoved, Verdicts
<1> QED
  BY <1>1, <1>5 DEF ReadInput, ReaderFrame, DirectoryFrame, MayFail, files, history, began, asked, found

LEMMA ReadAnswerDoes ==
  ASSUME Typed, ReadAnswer, NEW n, n = Least(reader.todo),
         NEW got, got = Matched(reader.ran, answer[n], reader.lines, Position(reader.nums, n))
  PROVE  /\ ReaderFrame /\ reader \in Active /\ reader.pc = "answer"
         /\ reader' \in Active /\ Unmoved(reader, reader')
         /\ reader'.pc \in {"done", "look", "input"}
         /\ reader'.pc # "done" => reader'.todo # {}
         /\ reader'.todo = reader.todo \ {n} /\ reader'.lines = reader.lines
         /\ reader'.verdict \in {got, reader.verdict}
<1>1. reader \in Active /\ reader.pc = "answer"
  BY ReaderKinds DEF ReadAnswer, Typed, ReaderTyped
<1>2. got \in Verdicts
  BY DEF Matched, Verdicts
<1> DEFINE rest == reader.todo \ {n}
           stop == rest = {} \/ (reader.kind = "judge" /\ got # "fair")
           pc == IF stop THEN "done" ELSE IF reader.kind = "judge" THEN "look" ELSE "input"
           verdict == IF reader.verdict \in {"none", "fair"} THEN got ELSE reader.verdict
<1>3. reader' = [reader EXCEPT !.pc = pc, !.todo = rest, !.ran = "absent", !.verdict = verdict]
  BY <1>1 DEF ReadAnswer, Active
<1>4. /\ pc \in {"done", "look", "input"} /\ (pc # "done" => rest # {})
      /\ verdict \in {got, reader.verdict} /\ verdict \in Verdicts
      /\ rest \in SUBSET Nums
  BY <1>1, <1>2 DEF Active
<1> HIDE DEF pc, rest, verdict
<1>5. /\ reader' \in Active /\ Unmoved(reader, reader') /\ reader'.pc = pc
      /\ reader'.todo = rest /\ reader'.lines = reader.lines /\ reader'.verdict = verdict
  BY <1>1, <1>3, <1>4, ContentsTyped DEF Active, Unmoved
<1> QED
  BY <1>1, <1>4, <1>5 DEF ReadAnswer, ReaderFrame, DirectoryFrame, MayFail, files, history, began, asked, rest
LEMMA ReadTyped ==
  ASSUME Typed, Read
  PROVE  Typed' /\ ReaderFrame
<1>1. ASSUME ReaderFrame, ReaderTyped' PROVE Typed'
  <2>1. FilesTyped' /\ HistoryTyped' /\ AsideTyped'
    BY <1>1, DirectoryFrameTyped DEF Typed, AsideTyped, ReaderFrame
  <2>2. faults' \in 0..MaxFaults /\ (slipped' => faults' > 0)
    BY <1>1, MayFailTyped DEF Typed, ReaderFrame, DirectoryFrame
  <2>3. RequestsTyped' /\ CountersTyped'
    BY <1>1, <2>2 DEF Typed, RequestsTyped, CountersTyped, ReaderFrame, DirectoryFrame
  <2> QED
    BY <1>1, <2>1, <2>3 DEF Typed
<1>2. ASSUME NEW kind \in {"judge", "list"}, NEW S \in SUBSET Nums, ReaderScan(kind, S)
      PROVE  ReaderTyped' /\ ReaderFrame
  BY <1>2, ReaderScanDoes, ActiveAreReaders DEF ReaderTyped, Looping
<1>3. ASSUME ListScores PROVE ReaderTyped' /\ ReaderFrame
  <2>1. reader'.pc = "input" => reader.todo # {}
    BY <1>3, ListScoresDoes
  <2>2. /\ reader' \in Readers /\ ReaderFrame /\ reader'.todo = reader.todo
        /\ reader'.pc \in {"done", "input"} /\ reader'.nums = reader.nums
    BY <1>3, ListScoresDoes, ActiveAreReaders DEF Unmoved
  <2>3. reader.todo \subseteq reader.nums
    BY <1>3, ListScoresDoes, ActiveAreReaders DEF Typed, ReaderTyped
  <2> QED
    BY <2>1, <2>2, <2>3 DEF ReaderTyped, Looping
<1>4. ASSUME JudgeLook PROVE ReaderTyped' /\ ReaderFrame
  BY <1>4, JudgeLookDoes, ActiveAreReaders DEF Typed, ReaderTyped, Looping, Unmoved
<1>5. ASSUME ReadInput PROVE ReaderTyped' /\ ReaderFrame
  BY <1>5, ReadInputDoes, ActiveAreReaders DEF Typed, ReaderTyped, Looping, Unmoved
<1>6. ASSUME ReadAnswer PROVE ReaderTyped' /\ ReaderFrame
  BY <1>6, ReadAnswerDoes, ActiveAreReaders DEF Typed, ReaderTyped, Looping, Unmoved
<1>7. ASSUME ReaderEnds PROVE ReaderTyped' /\ ReaderFrame
  <2>1. reader' = NoReader
    BY <1>7 DEF ReaderEnds
  <2>2. ReaderFrame
    BY <1>7 DEF ReaderEnds, ReaderFrame, DirectoryFrame, MayFail, files, history, began, asked
  <2> QED
    BY <2>1, <2>2, ActiveAreReaders DEF ReaderTyped, Looping
<1> QED
  BY <1>1, <1>2, <1>3, <1>4, <1>5, <1>6, <1>7 DEF Read

LEMMA CrashDoes ==
  ASSUME Typed, Crash
  PROVE  /\ crashes' = crashes + 1 /\ crashes' \in 1..MaxCrashes
         /\ req' \in [Staff -> Requests] /\ \A s \in Staff : req'[s].pc = "idle"
         /\ reader' = NoReader
         /\ UNCHANGED <<input, answer, score, limits, base, promised, aligned, crossed,
                        slipped, requests, faults, backup, wanted, reverted>>
BY KindsAreRequests, BoundsAreNumbers
DEF Crash, Typed, RequestsTyped, CountersTyped, files, history, began, asked

LEMMA CrashTyped ==
  ASSUME Typed, Crash
  PROVE  Typed'
<1>1. FilesTyped' /\ HistoryTyped'
  BY CrashDoes DEF Typed, FilesTyped, HistoryTyped
<1>2. RequestsTyped' /\ ReaderTyped'
  BY CrashDoes, ActiveAreReaders DEF RequestsTyped, ReaderTyped, Looping
<1>3. CountersTyped' /\ AsideTyped'
  BY CrashDoes, BoundsAreNumbers DEF Typed, CountersTyped, AsideTyped
<1> QED
  BY <1>1, <1>2, <1>3 DEF Typed

\* An imported score file has the points of each case at its place.
LEMMA ImportedLinesIs ==
  ASSUME Init, NEW k \in 0..MaxNum
  PROVE  /\ ImportedLines(k) \in Seq(Lines) /\ Len(ImportedLines(k)) = k
         /\ \A i \in 1..k : i <= Cardinality(Scan) => ImportedLines(k)[i] = Listing[i]
<1>1. input \in [Nums -> Contents]
  BY DEF Init, Imported, Contents
<1>2. \A n \in Scan : input[n] \in Cases
  <2>1. \A n \in Nums : input[n] \in Cases \cup {"absent"}
    BY DEF Init, Imported
  <2> QED
    BY <2>1 DEF Scan
<1>3. ASSUME NEW i \in 1..Cardinality(Scan) PROVE Listing[i] \in Lines
  <2>1. PICK n \in Scan : Position(Scan, n) = i
    BY <1>1, ListingIs, PositionOnto
  <2>2. Listing[i] = input[n]
    BY <1>1, <2>1, ListingIs DEF ListedAs
  <2> QED
    BY <1>2, <2>2, ContentsTyped
<1>4. k \in Nat /\ Cardinality(Scan) \in Nat
  BY <1>1, ListingIs, BoundsAreNumbers
<1> DEFINE line(i) == IF i <= Cardinality(Scan) THEN Listing[i] ELSE "stray"
<1>5. ASSUME NEW i \in 1..k PROVE line(i) \in Lines
  BY <1>3, <1>4, ContentsTyped
<1>6. ImportedLines(k) = [i \in 1..k |-> line(i)]
  BY DEF ImportedLines
<1> HIDE DEF line
<1>7. ImportedLines(k) \in [1..k -> Lines]
  BY <1>5, <1>6
<1>8. ImportedLines(k) \in Seq(Lines) /\ Len(ImportedLines(k)) = k
  BY <1>4, <1>7
<1> QED
  BY <1>6, <1>8 DEF line

LEMMA InitTyped ==
  ASSUME Init
  PROVE  Typed
<1>1. input \in [Nums -> Contents] /\ answer \in [Nums -> Contents]
  BY DEF Init, Imported, Contents
<1>2. Listing \in Seq(Contents)
  BY <1>1, ListingIs DEF ListedAs
<1>3. score \in ScoreFiles /\ score.file \in BOOLEAN /\ score.lines \in Seq(Lines)
  <2>1. CASE score = NoScores
    BY <2>1, EmptySeq DEF NoScores, ScoreFiles
  <2>2. CASE \E k \in 0..MaxNum : score = [file |-> TRUE, lines |-> ImportedLines(k)]
    BY <2>2, ImportedLinesIs DEF ScoreFiles
  <2> QED
    BY <2>1, <2>2 DEF Init, Imported
<1>4. FilesTyped
  BY <1>1, <1>3 DEF FilesTyped
<1>5. RequestsTyped /\ ReaderTyped
  BY KindsAreRequests, ActiveAreReaders DEF Init, RequestsTyped, ReaderTyped, Looping
<1>6. HistoryTyped
  BY <1>2 DEF Init, HistoryTyped, Complete
<1>7. CountersTyped
  BY BoundsAreNumbers DEF Init, CountersTyped
<1>8. AsideTyped
  BY NoDirectoryTyped DEF Init, AsideTyped
<1> QED
  BY <1>4, <1>5, <1>6, <1>7, <1>8 DEF Typed

LEMMA NextTyped ==
  ASSUME Typed, [Next]_vars
  PROVE  Typed'
<1>1. CASE Next
  BY <1>1, AddTyped, DeleteTyped, SetLimitsTyped, UpdateTyped, ReadTyped, CrashTyped DEF Next
<1>2. CASE UNCHANGED vars
  BY <1>2 DEF vars, files, history, began, asked, Typed, FilesTyped, RequestsTyped, ReaderTyped,
              HistoryTyped, CountersTyped, AsideTyped, Looping
<1> QED
  BY <1>1, <1>2

\* The variables keep their types.
THEOREM TypesAreKept == Spec => [](TypeOK /\ Typed)
<1>1. Typed => TypeOK
  BY DEF Typed, FilesTyped, RequestsTyped, ReaderTyped, HistoryTyped, CountersTyped, AsideTyped, TypeOK
<1>2. Spec => []Typed
  BY InitTyped, NextTyped, PTL DEF Spec
<1> QED
  BY <1>1, <1>2, PTL
-----------------------------------------------------------------------------
(* The steps of an edit in outline.                                        *)

LEMMA AddIs ==
  ASSUME Typed, NEW s \in Staff, Add(s)
  PROVE  /\ Others(s) /\ limits' = limits /\ crashes' = crashes /\ reader' = reader
         /\ UNCHANGED <<backup, wanted, reverted>>
         /\ \/ /\ req[s].pc = "idle" /\ req'[s].pc = "openIn" /\ req'[s] \in Additions
               /\ Began({}) /\ input' = input /\ answer' = answer
               /\ \E S \in SUBSET Nums : Scanning(S)
            \/ /\ req[s].pc \in AddPcs /\ req'[s].pc \in AddPcs \cup {"idle"}
               /\ req[s] \in Additions
               /\ req'[s].pc \in AddPcs => req'[s] \in Additions /\ req'[s].num = req[s].num
               /\ EditFrame /\ slipped' = slipped
<1>0. RequestsTyped
  BY DEF Typed
<1>1. ASSUME NEW S \in SUBSET Nums, NEW c \in Cases, NEW pointed \in BOOLEAN,
             AddScan(s, S, c, pointed)
      PROVE  /\ Others(s) /\ limits' = limits /\ crashes' = crashes /\ reader' = reader
             /\ UNCHANGED <<backup, wanted, reverted>>
             /\ req[s].pc = "idle" /\ req'[s].pc = "openIn" /\ req'[s] \in Additions
             /\ Began({}) /\ input' = input /\ answer' = answer
             /\ Scanning(S)
  BY <1>1, AddScanDoes
<1>2. CASE AddOpenIn(s)
  BY <1>0, <1>2, AddOpenInDoes DEF AddStep, EditFrame, AddPcs
<1>3. CASE AddFillIn(s)
  BY <1>0, <1>3, AddFillInDoes DEF AddStep, EditFrame, AddPcs
<1>4. CASE AddOpenOut(s)
  BY <1>0, <1>4, AddOpenOutDoes DEF AddStep, EditFrame, AddPcs
<1>5. CASE AddFillOut(s)
  BY <1>0, <1>5, AddFillOutDoes DEF AddStep, EditFrame, AddPcs
<1>6. CASE AddScore(s)
  BY <1>0, <1>6, AddScoreDoes DEF EndStep, EditFrame, AddPcs
<1> QED
  BY <1>1, <1>2, <1>3, <1>4, <1>5, <1>6 DEF Add

LEMMA DeleteIs ==
  ASSUME Typed, NEW s \in Staff, Delete(s)
  PROVE  /\ Others(s) /\ limits' = limits /\ crashes' = crashes
         /\ UNCHANGED <<backup, wanted, reverted>>
         /\ \/ /\ req[s].pc = "idle" /\ req'[s].pc = "rmIn" /\ req'[s] \in Deletions
               /\ (\E n \in Scan : Began({input[n]})) /\ input' = input /\ answer' = answer
               /\ Sound
            \/ /\ req[s].pc \in DeletePcs /\ req'[s].pc \in DeletePcs \cup {"idle"}
               /\ req[s] \in Deletions
               /\ req'[s].pc \in DeletePcs => req'[s] \in Deletions /\ req'[s].num = req[s].num
               /\ EditFrame /\ slipped' \in {slipped, TRUE}
<1>0. RequestsTyped /\ HistoryTyped
  BY DEF Typed
<1>1. ASSUME NEW n \in Nums, DeleteFind(s, n)
      PROVE  /\ Others(s) /\ limits' = limits /\ crashes' = crashes
             /\ UNCHANGED <<backup, wanted, reverted>>
             /\ req[s].pc = "idle" /\ req'[s].pc = "rmIn" /\ req'[s] \in Deletions
             /\ (\E k \in Scan : Began({input[k]})) /\ input' = input /\ answer' = answer
             /\ Sound
  BY <1>1, DeleteFindDoes
<1>2. CASE DeleteIn(s)
  BY <1>0, <1>2, DeleteInDoes DEF DeleteStep, EditFrame, DeletePcs, Sound
<1>3. CASE DeleteOut(s)
  BY <1>0, <1>3, DeleteOutDoes DEF DeleteStep, EditFrame, DeletePcs, Sound
<1>4. ASSUME NEW S \in SUBSET Nums, DeleteRescan(s, S)
      PROVE  /\ Others(s)
             /\ req[s].pc \in DeletePcs /\ req'[s].pc \in DeletePcs \cup {"idle"}
             /\ req[s] \in Deletions
             /\ req'[s].pc \in DeletePcs => req'[s] \in Deletions /\ req'[s].num = req[s].num
             /\ EditFrame /\ slipped' \in {slipped, TRUE}
  BY <1>0, <1>4, DeleteRescanDoes DEF DeleteStep, EditFrame, DeletePcs, Sound, Onward, Scanning
<1>5. CASE RenameIn(s)
  BY <1>0, <1>5, RenameInDoes DEF DeleteStep, EditFrame, DeletePcs, Sound
<1>6. CASE RenameOut(s)
  BY <1>0, <1>6, RenameOutDoes DEF DeleteStep, EditFrame, DeletePcs, Sound, Onward
<1>7. ASSUME NEW S \in SUBSET Nums, DeleteScore(s, S)
      PROVE  /\ Others(s)
             /\ req[s].pc \in DeletePcs /\ req'[s].pc \in DeletePcs \cup {"idle"}
             /\ req[s] \in Deletions
             /\ req'[s].pc \in DeletePcs => req'[s] \in Deletions /\ req'[s].num = req[s].num
             /\ EditFrame /\ slipped' \in {slipped, TRUE}
  BY <1>0, <1>7, DeleteScoreDoes DEF EndStep, EditFrame, DeletePcs
<1>8. \/ \E n \in Nums : DeleteFind(s, n)
      \/ DeleteIn(s) \/ DeleteOut(s) \/ RenameIn(s) \/ RenameOut(s)
      \/ \E S \in SUBSET Nums : DeleteRescan(s, S)
      \/ \E S \in SUBSET Nums : DeleteScore(s, S)
  BY DEF Delete
<1>9. EditFrame => limits' = limits /\ crashes' = crashes /\ UNCHANGED <<backup, wanted, reverted>>
  BY DEF EditFrame
<1> QED
  BY <1>1, <1>2, <1>3, <1>4, <1>5, <1>6, <1>7, <1>8, <1>9

LEMMA KindsOfPc ==
  /\ \A s : Adding(s) <=> req[s].pc \in AddPcs
  /\ \A s : Deleting(s) <=> req[s].pc \in DeletePcs
  /\ \A s : Replacing(s) <=> req[s].pc \in ReplacePcs
  /\ \A s : Adding(s)' <=> req'[s].pc \in AddPcs
  /\ \A s : Deleting(s)' <=> req'[s].pc \in DeletePcs
  /\ \A s : Replacing(s)' <=> req'[s].pc \in ReplacePcs
  /\ AddPcs \cap DeletePcs = {} /\ AddPcs \cap ReplacePcs = {} /\ DeletePcs \cap ReplacePcs = {}
  /\ (AddPcs \cup DeletePcs \cup ReplacePcs) \cap {"idle", "writeLimits"} = {}
BY DEF Adding, Deleting, Replacing, AddPcs, DeletePcs, ReplacePcs

\* The other threads edit as they did.
Aside(s) ==
  \A t \in Staff \ {s} : /\ req'[t].pc = req[t].pc
                         /\ Editing(t) => req'[t] = req[t]

LEMMA AsideIs ==
  ASSUME NEW s \in Staff, NEW C, Others(s) \/ Overtakes(s, C)
  PROVE  Aside(s)
<1>1. ASSUME NEW t \in Staff, Editing(t) PROVE req[t].pc # "writeLimits"
  BY <1>1, KindsOfPc DEF Editing
<1> QED
  BY <1>1 DEF Others, Overtakes, Aside

\* What is asked of the row, and every reading, leaves the edits alone.
EditsStand ==
  /\ DirectoryFrame /\ MayFail
  /\ \A t \in Staff : /\ req'[t].pc # req[t].pc => ~Editing(t) /\ ~Editing(t)'
                      /\ Editing(t) => req'[t] = req[t]

\* A replacement begins, or goes on.
ReplaceBegins(s) ==
  /\ req[s].pc = "idle" /\ req'[s].pc = "backup" /\ req'[s] \in Replacements /\ Aside(s)
  /\ \E d \in Prepared : UpdateCasesWith(s, d)
  /\ Quiet \/ (Overlap = "any" /\ ~\E t \in Staff : Replacing(t))
  /\ base' = Listing /\ promised' = {} /\ crossed' = (crossed \/ ~Quiet)
  /\ reader' = Shaken /\ MayFail
  /\ UNCHANGED <<input, answer, score, backup, aligned, slipped, crashes>>

Replace(s) == Backup(s) \/ Swap(s) \/ Restore(s) \/ DropBackup(s)

LEMMA ReplaceIs ==
  ASSUME Typed, NEW s \in Staff, Replace(s)
  PROVE  /\ ReplaceFrame /\ MayFail /\ Others(s)
         /\ req[s].pc \in ReplacePcs /\ req[s] \in Replacements
         /\ req'[s].pc \in ReplacePcs \cup {"idle"}
<1>1. CASE Backup(s)
  BY <1>1, BackupDoes DEF ReplaceStep, EndStep, ReplacePcs, MayFail
<1>2. CASE Swap(s)
  BY <1>2, SwapDoes DEF ReplaceStep, EndStep, ReplacePcs, MayFail
<1>3. CASE Restore(s)
  BY <1>3, RestoreDoes DEF ReplaceStep, EndStep, ReplacePcs
<1>4. CASE DropBackup(s)
  BY <1>4, DropBackupDoes DEF ReplaceStep, EndStep, ReplacePcs
<1> QED
  BY <1>1, <1>2, <1>3, <1>4 DEF Replace

LEMMA UpdateIs ==
  ASSUME Typed, NEW s \in Staff, Update(s)
  PROVE  \/ EditsStand /\ reader' = reader
         \/ ReplaceBegins(s)
         \/ Replace(s)
<1>1. ASSUME NEW new \in Limits, UpdateRow(s, new)
      PROVE  EditsStand /\ reader' = reader
  <2>1. /\ req[s].pc = "idle" /\ Overtakes(s, Columns) /\ req'[s] = Idle
        /\ DirectoryFrame /\ MayFail /\ reader' = reader
    BY <1>1, UpdateRowDoes
  <2>2. Aside(s) /\ Idle.pc = "idle"
    BY <2>1, AsideIs, KindsAreRequests
  <2>3. ~Editing(s) /\ ~Editing(s)'
    BY <2>1, <2>2, KindsOfPc DEF Editing
  <2> QED
    BY <2>1, <2>2, <2>3 DEF EditsStand, Aside
<1>2. ASSUME NEW new \in Limits, UpdateCases(s, new)
      PROVE  ReplaceBegins(s)
  <2>1. Overtakes(s, Columns)
    BY <1>2, UpdateCasesDoes
  <2>2. Aside(s)
    BY <2>1, AsideIs
  <2> QED
    BY <1>2, <2>2, UpdateCasesDoes DEF ReplaceBegins
<1> QED
  BY <1>1, <1>2 DEF Update, Replace

LEMMA SetLimitsIs ==
  ASSUME Typed, NEW s \in Staff, SetLimits(s)
  PROVE  EditsStand /\ reader' = reader
<1>1. ASSUME NEW ask \in Asked, LimitsRead(s, ask)
      PROVE  EditsStand /\ reader' = reader
  <2>1. /\ req[s].pc = "idle" /\ Others(s) /\ req'[s].pc = "writeLimits"
        /\ DirectoryFrame /\ reader' = reader /\ faults' = faults
    BY <1>1, LimitsReadDoes
  <2>2. Aside(s)
    BY <2>1, AsideIs
  <2>3. ~Editing(s) /\ ~Editing(s)'
    BY <2>1, KindsOfPc DEF Editing
  <2> QED
    BY <2>1, <2>2, <2>3 DEF EditsStand, Aside, MayFail
<1>2. CASE LimitsWrite(s)
  <2>1. PICK C : Overtakes(s, C)
    BY <1>2, LimitsWriteDoes
  <2>2. /\ req[s].pc = "writeLimits" /\ req'[s] = Idle
        /\ DirectoryFrame /\ reader' = reader /\ faults' = faults
    BY <1>2, LimitsWriteDoes
  <2>3. Aside(s) /\ Idle.pc = "idle"
    BY <2>1, AsideIs, KindsAreRequests
  <2>4. ~Editing(s) /\ ~Editing(s)'
    BY <2>2, <2>3, KindsOfPc DEF Editing
  <2> QED
    BY <2>2, <2>3, <2>4 DEF EditsStand, Aside, MayFail
<1> QED
  BY <1>1, <1>2 DEF SetLimits

\* Every step, as the edits see it.
LEMMA StepIs ==
  ASSUME Typed, [Next]_vars
  PROVE  \/ \E s \in Staff : Add(s)
         \/ \E s \in Staff : Delete(s)
         \/ \E s \in Staff : ReplaceBegins(s)
         \/ \E s \in Staff : Replace(s)
         \/ EditsStand /\ (reader' = reader \/ Read)
         \/ Crash
<1>1. CASE Read
  BY <1>1, ReadTyped DEF ReaderFrame, EditsStand
<1>2. CASE UNCHANGED vars
  BY <1>2 DEF vars, files, history, began, asked, EditsStand, DirectoryFrame, MayFail
<1> QED
  BY <1>1, <1>2, UpdateIs, SetLimitsIs DEF Next
-----------------------------------------------------------------------------
(* Limits: of the columns a request has read, those that no other has been *)
(* given a value since are still what the row has.                         *)

Current(s) == At(s, "writeLimits") => \A c \in Columns \ req[s].raced : req[s].read[c] = limits[c]

Fetched == (\A s \in Staff : Current(s)) /\ LimitsAsLastAsked

LEMMA InitFetched == Init => Fetched
BY DEF Init, Fetched, Current, At, Idle, LimitsAsLastAsked

\* A step that leaves the row alone.
RowStays(s) ==
  /\ UNCHANGED <<limits, wanted, reverted>>
  /\ \A t \in Staff \ {s} : req'[t] = req[t]
  /\ req'[s].pc = "writeLimits" => req'[s] = req[s]

LEMMA FetchedStill ==
  ASSUME Fetched, NEW s \in Staff, RowStays(s)
  PROVE  Fetched'
<1>1. LimitsAsLastAsked'
  BY DEF Fetched, RowStays, LimitsAsLastAsked
<1>2. ASSUME NEW t \in Staff, At(t, "writeLimits")' PROVE req'[t] = req[t]
  BY <1>2 DEF At, RowStays
<1> QED
  BY <1>1, <1>2 DEF Fetched, Current, At, RowStays

\* An UPDATE that sets both columns.
LEMMA FetchedAnew ==
  ASSUME NEW s \in Staff, NEW new, Overtakes(s, Columns), req'[s].pc # "writeLimits",
         limits' = new, wanted' = new, reverted' = {}
  PROVE  Fetched'
<1>1. LimitsAsLastAsked'
  BY DEF LimitsAsLastAsked
<1>2. ASSUME NEW t \in Staff, At(t, "writeLimits")' PROVE Columns \ req'[t].raced = {}
  BY <1>2 DEF At, Overtakes
<1> QED
  BY <1>1, <1>2 DEF Fetched, Current, At

LEMMA WriteFetched ==
  ASSUME Typed, Fetched, NEW s \in Staff, LimitsWrite(s)
  PROVE  Fetched'
<1> DEFINE ask == req[s].ask
           raced == req[s].raced
<1>1. /\ req[s] \in Updates /\ req[s].pc = "writeLimits" /\ limits' = LimitsToWrite(req[s])
      /\ Overtakes(s, raced \cup DOMAIN ask) /\ req'[s] = Idle
      /\ wanted' = [c \in Columns |-> IF c \in DOMAIN ask THEN ask[c] ELSE wanted[c]]
      /\ reverted' = (reverted \cup (raced \ DOMAIN ask)) \ DOMAIN ask
  BY LimitsWriteDoes DEF Stale
<1>2. /\ \A c \in DOMAIN ask : limits'[c] = ask[c]
      /\ \A c \in Columns \ DOMAIN ask : limits'[c] = req[s].read[c]
  BY <1>1, LimitsToWriteIs
<1>3. \A c \in Columns \ raced : req[s].read[c] = limits[c]
  BY <1>1 DEF Fetched, Current, At
<1>4. \A c \in Columns \ (raced \cup DOMAIN ask) : limits'[c] = limits[c]
  BY <1>2, <1>3
<1>5. ASSUME NEW c \in Columns \ reverted' PROVE limits'[c] = wanted'[c]
  <2>1. CASE c \in DOMAIN ask
    BY <1>1, <1>2, <2>1
  <2>2. CASE c \notin DOMAIN ask
    <3>1. c \notin reverted /\ c \notin raced
      BY <1>1, <2>2
    <3>2. limits'[c] = limits[c] /\ limits[c] = wanted[c]
      BY <1>4, <2>2, <3>1 DEF Fetched, LimitsAsLastAsked
    <3> QED
      BY <1>1, <2>2, <3>2
  <2> QED
    BY <2>1, <2>2
<1>6. ASSUME NEW t \in Staff, At(t, "writeLimits")', NEW c \in Columns \ req'[t].raced
      PROVE  req'[t].read[c] = limits'[c]
  <2>1. t # s
    BY <1>1, <1>6, KindsAreRequests DEF At
  <2>2. req[t].pc = "writeLimits"
    BY <1>1, <1>6, <2>1 DEF At, Overtakes
  <2>3. req'[t].read = req[t].read /\ c \notin req[t].raced /\ c \notin raced \cup DOMAIN ask
    BY <1>1, <2>1, <2>2 DEF Overtakes
  <2>4. req[t].read[c] = limits[c]
    BY <2>2, <2>3 DEF Fetched, Current, At
  <2> QED
    BY <1>4, <2>3, <2>4
<1> QED
  BY <1>5, <1>6 DEF Fetched, Current, LimitsAsLastAsked

LEMMA NextFetched ==
  ASSUME Typed, Fetched, [Next]_vars
  PROVE  Fetched'
<1>1. ASSUME NEW s \in Staff, Add(s) PROVE Fetched'
  <2>1. RowStays(s)
    BY <1>1, AddIs DEF RowStays, Others, AddPcs
  <2> QED
    BY <2>1, FetchedStill
<1>2. ASSUME NEW s \in Staff, Delete(s) PROVE Fetched'
  <2>1. RowStays(s)
    BY <1>2, DeleteIs DEF RowStays, Others, DeletePcs
  <2> QED
    BY <2>1, FetchedStill
<1>3. ASSUME NEW s \in Staff, Replace(s) PROVE Fetched'
  <2>1. RowStays(s)
    BY <1>3, ReplaceIs DEF RowStays, Others, ReplacePcs, ReplaceFrame
  <2> QED
    BY <2>1, FetchedStill
<1>4. ASSUME NEW s \in Staff, NEW ask \in Asked, LimitsRead(s, ask) PROVE Fetched'
  <2>1. /\ Others(s) /\ req'[s] \in Updates /\ req'[s].read = limits
        /\ UNCHANGED <<limits, wanted, reverted>>
    BY <1>4, LimitsReadDoes
  <2> QED
    BY <2>1 DEF Fetched, Current, At, Others, LimitsAsLastAsked
<1>5. ASSUME NEW s \in Staff, LimitsWrite(s) PROVE Fetched'
  BY <1>5, WriteFetched
<1>6. ASSUME NEW s \in Staff, NEW new \in Limits, UpdateRow(s, new) PROVE Fetched'
  <2>1. /\ Overtakes(s, Columns) /\ req'[s].pc # "writeLimits"
        /\ limits' = new /\ wanted' = new /\ reverted' = {}
    BY <1>6, UpdateRowDoes, KindsAreRequests
  <2> QED
    BY <2>1, FetchedAnew
<1>7. ASSUME NEW s \in Staff, NEW new \in Limits, UpdateCases(s, new) PROVE Fetched'
  <2>1. /\ Overtakes(s, Columns) /\ req'[s].pc # "writeLimits"
        /\ limits' = new /\ wanted' = new /\ reverted' = {}
    BY <1>7, UpdateCasesDoes
  <2> QED
    BY <2>1, FetchedAnew
<1>8. CASE Read
  BY <1>8, ReadTyped DEF ReaderFrame, Fetched, Current, At, LimitsAsLastAsked
<1>9. CASE Crash
  BY <1>9, CrashDoes DEF Fetched, Current, At, LimitsAsLastAsked
<1>10. CASE UNCHANGED vars
  BY <1>10 DEF vars, files, history, began, asked, Fetched, Current, At, LimitsAsLastAsked
<1> QED
  BY <1>1, <1>2, <1>3, <1>4, <1>5, <1>6, <1>7, <1>8, <1>9, <1>10
  DEF Next, SetLimits, Update, Replace

\* Each column of the limits has the value last asked for it, whatever the
\* order of limits requests and updates of the problem, until a limits request
\* that was overtaken after its SELECT writes the old one back
\* (admin_problem.cpp:134, problem.cpp:340).
THEOREM LimitsAreAsAsked == Spec => []LimitsAsLastAsked
<1>1. Init => Typed /\ Fetched
  BY InitTyped, InitFetched
<1>2. Typed /\ Fetched /\ [Next]_vars => (Typed /\ Fetched)'
  BY NextTyped, NextFetched
<1>3. Fetched => LimitsAsLastAsked
  BY DEF Fetched
<1> QED
  BY <1>1, <1>2, <1>3, PTL DEF Spec
-----------------------------------------------------------------------------
(* Turns: who edits beside whom.                                           *)

Sole(s) == \A t \in Staff : Editing(t) => t = s

Turns == /\ ~crossed => \A s \in Staff : Editing(s) => Sole(s)
         /\ Overlap # "any" => \A s \in Staff : Deleting(s) \/ Replacing(s) => Sole(s)
         /\ \A s \in Staff : Replacing(s) => promised = {}

LEMMA InitTurns == Init => Turns
BY DEF Init, Turns, Editing, Adding, Deleting, Replacing, Idle

\* Threads that go on as they were, or stop, do not disturb the others.
LEMMA GoingOnTurns ==
  ASSUME Turns, crossed' = crossed, promised' = promised,
         \A t \in Staff : /\ Editing(t)' => Editing(t)
                          /\ Deleting(t)' => Deleting(t)
                          /\ Replacing(t)' => Replacing(t)
  PROVE  Turns'
BY DEF Turns, Sole

LEMMA GoesOnTurns ==
  ASSUME Turns, NEW s \in Staff, Aside(s), crossed' = crossed, promised' = promised,
         \/ req'[s].pc = "idle"
         \/ req[s].pc \in AddPcs /\ req'[s].pc \in AddPcs
         \/ req[s].pc \in DeletePcs /\ req'[s].pc \in DeletePcs
         \/ req[s].pc \in ReplacePcs /\ req'[s].pc \in ReplacePcs
  PROVE  Turns'
<1>1. ASSUME NEW t \in Staff
      PROVE  /\ Editing(t)' => Editing(t)
             /\ Deleting(t)' => Deleting(t)
             /\ Replacing(t)' => Replacing(t)
  BY KindsOfPc DEF Aside, Editing
<1> QED
  BY <1>1, GoingOnTurns

\* A first editor has the directory to itself, and a second one is noted.
LEMMA BeganTurns ==
  ASSUME Turns, NEW s \in Staff, ~Editing(s), Editing(s)', NEW D, Began(D),
         Deleting(s)' => D # {}, ~Replacing(s)', Aside(s)
  PROVE  Turns'
<1>0. \A t \in Staff \ {s} : /\ Editing(t)' <=> Editing(t)
                             /\ Deleting(t)' <=> Deleting(t)
                             /\ Replacing(t)' <=> Replacing(t)
  BY DEF Aside, Editing, Adding, Deleting, Replacing
<1>1. CASE Quiet
  BY <1>0, <1>1 DEF Quiet, Began, Turns, Sole, Editing
<1>2. CASE ~Quiet
  <2>1. crossed' /\ promised' = promised \ D
    BY <1>2 DEF Began
  <2>2. ASSUME Overlap # "any", NEW t \in Staff, Deleting(t)' \/ Replacing(t)' PROVE FALSE
    <3>1. D = {} /\ \A u \in Staff : Editing(u) => Adding(u)
      BY <1>2, <2>2 DEF Began
    <3>2. t # s /\ (Deleting(t) \/ Replacing(t))
      BY <1>0, <2>2, <3>1
    <3> QED
      BY <3>1, <3>2, KindsOfPc DEF Editing
  <2>3. ASSUME NEW t \in Staff, Replacing(t)' PROVE promised' = {}
    BY <1>0, <2>1, <2>3 DEF Turns
  <2> QED
    BY <2>1, <2>2, <2>3 DEF Turns
<1> QED
  BY <1>1, <1>2

LEMMA ReplaceBeginsTurns ==
  ASSUME Turns, NEW s \in Staff, ReplaceBegins(s)
  PROVE  Turns'
<1>0. \A t \in Staff \ {s} : /\ Editing(t)' <=> Editing(t)
                             /\ Deleting(t)' <=> Deleting(t)
                             /\ Replacing(t)' <=> Replacing(t)
  BY DEF ReplaceBegins, Aside, Editing, Adding, Deleting, Replacing
<1>1. promised' = {} /\ crossed' = (crossed \/ ~Quiet)
  BY DEF ReplaceBegins
<1>2. CASE Quiet
  BY <1>0, <1>1, <1>2 DEF Quiet, Turns, Sole, Editing
<1>3. CASE ~Quiet
  BY <1>1, <1>3 DEF Turns, ReplaceBegins
<1> QED
  BY <1>2, <1>3

LEMMA NextTurns ==
  ASSUME Typed, Turns, [Next]_vars
  PROVE  Turns'
<1>1. ASSUME NEW s \in Staff, Add(s) PROVE Turns'
  <2>1. Aside(s)
    BY <1>1, AddIs, AsideIs
  <2>2. CASE req[s].pc = "idle"
    <3>1. Began({}) /\ ~Editing(s) /\ Editing(s)' /\ ~Deleting(s)' /\ ~Replacing(s)'
      BY <1>1, <2>2, AddIs, KindsOfPc DEF Editing, AddPcs
    <3> QED
      BY <2>1, <3>1, BeganTurns
  <2>3. CASE req[s].pc \in AddPcs
    <3>1. /\ crossed' = crossed /\ promised' = promised
          /\ req'[s].pc \in AddPcs \cup {"idle"}
      BY <1>1, <2>3, AddIs DEF EditFrame, AddPcs
    <3> QED
      BY <2>1, <2>3, <3>1, GoesOnTurns
  <2> QED
    BY <1>1, <2>2, <2>3, AddIs
<1>2. ASSUME NEW s \in Staff, Delete(s) PROVE Turns'
  <2>1. Aside(s)
    BY <1>2, DeleteIs, AsideIs
  <2>2. CASE req[s].pc = "idle"
    <3>1. ~Editing(s) /\ Editing(s)' /\ ~Replacing(s)'
      BY <1>2, <2>2, DeleteIs, KindsOfPc DEF Editing, DeletePcs, ReplacePcs
    <3>2. PICK n \in Scan : Began({input[n]})
      BY <1>2, <2>2, DeleteIs DEF DeletePcs
    <3> QED
      BY <2>1, <3>1, <3>2, BeganTurns
  <2>3. CASE req[s].pc \in DeletePcs
    <3>1. /\ crossed' = crossed /\ promised' = promised
          /\ req'[s].pc \in DeletePcs \cup {"idle"}
      BY <1>2, <2>3, DeleteIs DEF EditFrame, DeletePcs
    <3> QED
      BY <2>1, <2>3, <3>1, GoesOnTurns
  <2> QED
    BY <1>2, <2>2, <2>3, DeleteIs
<1>3. ASSUME NEW s \in Staff, ReplaceBegins(s) PROVE Turns'
  BY <1>3, ReplaceBeginsTurns
<1>4. ASSUME NEW s \in Staff, Replace(s) PROVE Turns'
  <2>1. /\ Aside(s) /\ crossed' = crossed /\ promised' = promised
        /\ req[s].pc \in ReplacePcs /\ req'[s].pc \in ReplacePcs \cup {"idle"}
    BY <1>4, ReplaceIs, AsideIs DEF ReplaceFrame
  <2> QED
    BY <2>1, GoesOnTurns
<1>5. CASE EditsStand
  <2>1. ASSUME NEW t \in Staff
        PROVE  /\ Editing(t)' => Editing(t)
               /\ Deleting(t)' => Deleting(t)
               /\ Replacing(t)' => Replacing(t)
    BY <1>5, KindsOfPc DEF EditsStand, Editing
  <2> QED
    BY <1>5, <2>1, GoingOnTurns DEF EditsStand, DirectoryFrame
<1>6. CASE Crash
  BY <1>6, CrashDoes, GoingOnTurns DEF Editing, Adding, Deleting, Replacing
<1> QED
  BY <1>1, <1>2, <1>3, <1>4, <1>5, <1>6, StepIs
-----------------------------------------------------------------------------
(* Sweep: where a deletion stands, unless a removal, a rename or a listing *)
(* has failed or another edit could come in between.  The place below the next number  *)
(* to move is free, and what is left to move is all there is above it.     *)

Orderly == ~slipped /\ (Overlap # "any" \/ ~crossed)

MovesNext(s) == FirstToMove(req[s].todo)

Swept(s) ==
  /\ req[s].pc \in {"rmOut", "rescan"} => input[req[s].num] = "absent"
  /\ req[s].pc = "renIn" => /\ req[s].todo = {k \in Scan : k >= MovesNext(s)}
                            /\ input[MovesNext(s) - 1] = "absent"
  /\ req[s].pc = "renOut" => /\ req[s].todo = {k \in Scan : k >= MovesNext(s)} \cup {MovesNext(s)}
                             /\ input[MovesNext(s)] = "absent"

Sweep == Orderly => \A s \in Staff : Deleting(s) => Swept(s)

LEMMA DeletersAreSole ==
  ASSUME Turns, Orderly, NEW s \in Staff, Deleting(s)
  PROVE  Sole(s)
BY DEF Turns, Orderly, Editing

LEMMA OrderlyBefore ==
  ASSUME Typed, [Next]_vars, Orderly'
  PROVE  Orderly
<1>1. ASSUME NEW D, Began(D), NEW S, Scanning(S) PROVE Orderly
  <2>1. crossed' = (crossed \/ ~Quiet)
    BY <1>1 DEF Began
  <2>2. slipped' = slipped
    BY <1>1 DEF Scanning, Sound, Orderly
  <2> QED
    BY <2>1, <2>2 DEF Orderly
<1>2. ASSUME crossed' = crossed, slipped' \in {slipped, TRUE} PROVE Orderly
  <2>1. CASE slipped' = slipped
    BY <1>2, <2>1 DEF Orderly
  <2>2. CASE slipped' = TRUE
    BY <2>2 DEF Orderly
  <2> QED
    BY <1>2, <2>1, <2>2
<1>3. ASSUME NEW s \in Staff, Add(s) PROVE Orderly
  BY <1>1, <1>2, <1>3, AddIs DEF EditFrame
<1>4. ASSUME NEW s \in Staff, Delete(s) PROVE Orderly
  <2>1. CASE Sound /\ \E n \in Scan : Began({input[n]})
    BY <2>1 DEF Began, Orderly, Sound
  <2> QED
    BY <1>2, <1>4, <2>1, DeleteIs DEF EditFrame
<1>5. ASSUME NEW s \in Staff, ReplaceBegins(s) PROVE Orderly
  BY <1>5 DEF ReplaceBegins, Orderly
<1>6. ASSUME NEW s \in Staff, Replace(s) PROVE Orderly
  BY <1>2, <1>6, ReplaceIs DEF ReplaceFrame
<1>7. CASE EditsStand
  BY <1>2, <1>7 DEF EditsStand, DirectoryFrame
<1>8. CASE Crash
  BY <1>2, <1>8, CrashDoes
<1> QED
  BY <1>3, <1>4, <1>5, <1>6, <1>7, <1>8, StepIs

\* Only the numbers from one on, in a set of numbers.
LEMMA AboveIs ==
  ASSUME input \in [Nums -> Contents], NEW j \in Nums, input[j] = "absent",
         NEW S, S = {k \in Scan : k > j}, S # {},
         NEW n, n = FirstToMove(S)
  PROVE  S = {k \in Scan : k >= n} /\ input[n - 1] = "absent" /\ n > j
<1>1. S \in SUBSET Nums /\ S \in SUBSET Nat
  BY NumsFinite DEF Scan
<1>2. n \in S /\ \A m \in S : n <= m
  BY <1>1, LeastIs DEF FirstToMove
<1>3. n \in Nums /\ n \in Nat /\ j \in Nat /\ j \in Nums /\ n > j /\ n - 1 >= j /\ n - 1 \in Nums
  BY <1>1, <1>2, BoundsAreNumbers DEF Nums
<1>4. ASSUME NEW k \in Scan PROVE k > j <=> k >= n
  <2>1. k \in Nat
    BY NumsFinite DEF Scan, Nums
  <2>2. k > j => k \in S
    OBVIOUS
  <2> QED
    BY <1>2, <1>3, <2>1, <2>2
<1>5. ASSUME input[n - 1] # "absent" PROVE FALSE
  <2>1. n - 1 \in Scan /\ n - 1 # j
    BY <1>3, <1>5 DEF Scan
  <2>2. n - 1 > j
    BY <1>3, <2>1
  <2> QED
    BY <1>2, <1>3, <1>4, <2>1, <2>2
<1> QED
  BY <1>3, <1>4, <1>5

LEMMA ScanMoved ==
  ASSUME input \in [Nums -> Contents], NEW n \in Nums, n - 1 \in Nums,
         n \in Scan, input' = Renamed(input, n)
  PROVE  /\ Scan' = (Scan \ {n}) \cup {n - 1}
         /\ input'[n - 1] = input[n] /\ input'[n] = "absent"
         /\ \A m \in Nums \ {n, n - 1} : input'[m] = input[m]
<1>1. input[n] # "absent"
  BY DEF Scan
<1>2. /\ input'[n - 1] = input[n] /\ input'[n] = "absent"
      /\ \A m \in Nums \ {n, n - 1} : input'[m] = input[m]
  BY <1>1, RenamedTyped
<1>3. n # n - 1
  BY BoundsAreNumbers DEF Nums
<1> QED
  BY <1>1, <1>2, <1>3 DEF Scan
LEMMA InitSweep == Init => Sweep
BY KindsOfPc DEF Init, Sweep, Idle, DeletePcs

\* A deletion that stands still while the inputs do.
LEMMA SweptStill ==
  ASSUME NEW t \in Staff, Swept(t), input' = input, req'[t] = req[t]
  PROVE  Swept(t)'
BY DEF Swept, MovesNext, Scan

LEMMA DeleteSweeps ==
  ASSUME Typed, Orderly, NEW s \in Staff, Delete(s), Deleting(s), Swept(s), ~slipped'
  PROVE  Swept(s)'
<1>0. /\ RequestsTyped /\ HistoryTyped /\ input \in [Nums -> Contents]
      /\ req[s].pc \in DeletePcs
  BY KindsOfPc DEF Typed, FilesTyped
<1>1. ASSUME NEW n \in Nums PROVE ~DeleteFind(s, n)
  BY <1>0, DeleteFindDoes DEF DeletePcs
<1>2. CASE DeleteIn(s)
  <2>1. req'[s].pc = "rmOut" /\ req'[s].num = req[s].num /\ req[s].num \in Nums
    BY <1>0, <1>2, DeleteInDoes DEF DeleteStep, Deletions
  <2>2. input' = [input EXCEPT ![req[s].num] = "absent"]
    BY <1>0, <1>2, DeleteInDoes
  <2> QED
    BY <1>0, <2>1, <2>2 DEF Swept
<1>3. CASE DeleteOut(s)
  <2>1. /\ req'[s].pc = "rescan" /\ req'[s].num = req[s].num /\ input' = input
        /\ req[s].pc = "rmOut"
    BY <1>0, <1>3, DeleteOutDoes DEF DeleteStep
  <2> QED
    BY <2>1 DEF Swept
<1>4. ASSUME NEW S \in SUBSET Nums, DeleteRescan(s, S) PROVE Swept(s)'
  <2>0. PICK above : above = {n \in S : n > req[s].num}
    OBVIOUS
  <2>1. /\ req'[s].pc = Onward(above) /\ req'[s].todo = above /\ input' = input
        /\ req[s].pc = "rescan" /\ req[s].num \in Nums
        /\ above = {n \in Scan : n > req[s].num}
    BY <1>0, <1>4, <2>0, DeleteRescanDoes DEF DeleteStep, Deletions, Scanning
  <2>2. input[req[s].num] = "absent"
    BY <2>1 DEF Swept
  <2>3. ASSUME above # {}
        PROVE  /\ above = {k \in Scan : k >= FirstToMove(above)}
               /\ input[FirstToMove(above) - 1] = "absent"
    BY <1>0, <2>1, <2>2, <2>3, AboveIs
  <2>4. Scan' = Scan
    BY <2>1 DEF Scan
  <2> QED
    BY <2>1, <2>3, <2>4 DEF Swept, MovesNext, Onward
<1>5. CASE RenameIn(s)
  <2>1. PICK n : n = FirstToMove(req[s].todo)
    OBVIOUS
  <2>2. /\ req[s].pc = "renIn" /\ req'[s].pc = "renOut" /\ req'[s].todo = req[s].todo
        /\ input' = Renamed(input, n)
    BY <1>0, <1>5, <2>1, RenameInDoes DEF DeleteStep
  <2>3. n \in req[s].todo /\ n \in Nums /\ n - 1 \in Nums
    BY <1>0, <2>1, <2>2, MovingIs
  <2>4. req[s].todo = {k \in Scan : k >= n}
    BY <2>1, <2>2 DEF Swept, MovesNext
  <2>5. n \in Scan
    BY <2>3, <2>4
  <2>6. Scan' = (Scan \ {n}) \cup {n - 1} /\ input'[n] = "absent"
    BY <1>0, <2>2, <2>3, <2>5, ScanMoved
  <2>7. ~(n - 1 >= n)
    BY <2>3, BoundsAreNumbers DEF Nums
  <2>8. req'[s].todo = {k \in Scan' : k >= n} \cup {n}
    BY <2>2, <2>3, <2>4, <2>6, <2>7
  <2>9. MovesNext(s)' = n
    BY <2>1, <2>2 DEF MovesNext
  <2> QED
    BY <2>2, <2>6, <2>8, <2>9 DEF Swept
<1>6. CASE RenameOut(s)
  <2>1. PICK n, rest : n = FirstToMove(req[s].todo) /\ rest = req[s].todo \ {n}
    OBVIOUS
  <2>2. /\ req[s].pc = "renOut" /\ req'[s].pc = Onward(rest) /\ req'[s].todo = rest
        /\ input' = input
    BY <1>0, <1>6, <2>1, RenameOutDoes DEF DeleteStep
  <2>3. n \in Nums /\ n - 1 \in Nums
    BY <1>0, <2>1, <2>2, MovingIs
  <2>4. req[s].todo = {k \in Scan : k >= n} \cup {n} /\ input[n] = "absent"
    BY <2>1, <2>2 DEF Swept, MovesNext
  <2>5. rest = {k \in Scan : k > n}
    <3>1. n \notin Scan
      BY <2>4 DEF Scan
    <3>2. \A k \in Scan : k \in Nat
      BY NumsFinite DEF Scan, Nums
    <3>3. \A k \in Scan : k # n => (k > n <=> k >= n)
      BY <2>3, <3>2 DEF Nums
    <3>4. ~(n > n)
      BY <2>3, BoundsAreNumbers DEF Nums
    <3> QED
      BY <2>1, <2>4, <3>1, <3>3, <3>4
  <2>6. ASSUME rest # {}
        PROVE  /\ rest = {k \in Scan : k >= FirstToMove(rest)}
               /\ input[FirstToMove(rest) - 1] = "absent"
    BY <1>0, <2>3, <2>4, <2>5, <2>6, AboveIs
  <2>7. Scan' = Scan
    BY <2>2 DEF Scan
  <2> QED
    BY <2>2, <2>6, <2>7 DEF Swept, MovesNext, Onward
<1>7. ASSUME NEW S \in SUBSET Nums, DeleteScore(s, S) PROVE Swept(s)'
  BY <1>0, <1>7, DeleteScoreDoes DEF EndStep, Swept
<1> QED
  BY <1>1, <1>2, <1>3, <1>4, <1>5, <1>6, <1>7 DEF Delete
\* A step that no deletion goes on with, and that leaves the inputs or is an
\* addition's.
LEMMA SweptBeside ==
  ASSUME Turns', Sweep, Orderly, Orderly', NEW s \in Staff,
         input' = input \/ Adding(s)',
         Deleting(s)' => Swept(s)',
         \A t \in Staff \ {s} : req'[t] = req[t]
  PROVE  Sweep'
<1> SUFFICES ASSUME NEW t \in Staff, Deleting(t)' PROVE Swept(t)'
  BY DEF Sweep
<1>1. CASE t = s
  BY <1>1
<1>2. CASE t # s
  <2>1. ~Adding(s)'
    BY <1>2 DEF Turns, Orderly, Sole, Editing
  <2>2. req'[t] = req[t] /\ input' = input /\ Deleting(t)
    BY <1>2, <2>1 DEF Deleting
  <2> QED
    BY <2>2, SweptStill DEF Sweep
<1> QED
  BY <1>1, <1>2

LEMMA AddInput ==
  ASSUME Typed, NEW s \in Staff, Add(s)
  PROVE  /\ \A t \in Staff \ {s} : req'[t] = req[t]
         /\ ~Deleting(s)'
         /\ input' = input \/ Adding(s)'
<1>0. RequestsTyped
  BY DEF Typed
<1>1. (\A t \in Staff \ {s} : req'[t] = req[t]) /\ ~Deleting(s)'
  BY AddIs, KindsOfPc DEF Others, AddPcs
<1>2. ASSUME NEW S \in SUBSET Nums, NEW c \in Cases, NEW pointed \in BOOLEAN,
             AddScan(s, S, c, pointed)
      PROVE  input' = input
  BY <1>2, AddScanDoes
<1>3. CASE AddOpenIn(s)
  BY <1>0, <1>1, <1>3, AddOpenInDoes, KindsOfPc DEF AddStep, AddPcs
<1>4. CASE AddFillIn(s)
  BY <1>0, <1>1, <1>4, AddFillInDoes, KindsOfPc DEF AddStep, AddPcs
<1>5. CASE AddOpenOut(s)
  BY <1>0, <1>1, <1>5, AddOpenOutDoes
<1>6. CASE AddFillOut(s)
  BY <1>0, <1>1, <1>6, AddFillOutDoes
<1>7. CASE AddScore(s)
  BY <1>0, <1>1, <1>7, AddScoreDoes
<1> QED
  BY <1>1, <1>2, <1>3, <1>4, <1>5, <1>6, <1>7 DEF Add

LEMMA NextSweep ==
  ASSUME Typed, Turns, Sweep, [Next]_vars
  PROVE  Sweep'
<1> SUFFICES ASSUME Orderly' PROVE Sweep'
  BY DEF Sweep
<1>0. Orderly /\ Turns'
  BY OrderlyBefore, NextTurns
<1>1. ASSUME NEW s \in Staff, Add(s) PROVE Sweep'
  BY <1>0, <1>1, AddInput, SweptBeside
<1>2. ASSUME NEW s \in Staff, Delete(s) PROVE Sweep'
  <2>1. \A t \in Staff \ {s} : req'[t] = req[t]
    BY <1>2, DeleteIs DEF Others
  <2>2. CASE req[s].pc = "idle"
    <3>1. req'[s].pc = "rmIn" /\ input' = input
      BY <1>2, <2>2, DeleteIs DEF DeletePcs
    <3>2. Swept(s)'
      BY <3>1 DEF Swept
    <3> QED
      BY <1>0, <2>1, <3>1, <3>2, SweptBeside
  <2>3. CASE req[s].pc \in DeletePcs
    <3>1. Deleting(s) /\ Swept(s) /\ Sole(s)
      BY <1>0, <2>3, KindsOfPc, DeletersAreSole DEF Sweep
    <3>2. Swept(s)'
      BY <1>0, <1>2, <3>1, DeleteSweeps DEF Orderly
    <3>3. ASSUME NEW t \in Staff, Deleting(t)', t # s PROVE FALSE
      BY <2>1, <3>1, <3>3 DEF Sole, Editing, Deleting
    <3> QED
      BY <3>2, <3>3 DEF Sweep
  <2> QED
    BY <1>2, <2>2, <2>3, DeleteIs
<1>3. ASSUME NEW s \in Staff, ReplaceBegins(s) \/ Replace(s) PROVE Sweep'
  <2>1. Aside(s) /\ (Editing(s) \/ Editing(s)')
    BY <1>3, ReplaceIs, AsideIs, KindsOfPc DEF ReplaceBegins, Editing, ReplacePcs
  <2>2. ~Deleting(s)'
    BY <1>3, ReplaceIs, KindsOfPc DEF ReplaceBegins, ReplacePcs
  <2>3. ASSUME NEW t \in Staff, Deleting(t)' PROVE FALSE
    <3>1. t # s /\ Editing(t)' /\ Sole(t)'
      BY <1>0, <2>2, <2>3, DeletersAreSole DEF Turns, Orderly, Editing
    <3>2. Deleting(t)
      BY <2>1, <2>3, <3>1 DEF Aside, Deleting
    <3>3. Sole(t)
      BY <1>0, <3>2, DeletersAreSole
    <3> QED
      BY <2>1, <3>1, <3>3 DEF Sole
  <2> QED
    BY <2>3 DEF Sweep
<1>4. CASE EditsStand
  <2> SUFFICES ASSUME NEW t \in Staff, Deleting(t)' PROVE Swept(t)'
    BY DEF Sweep
  <2>1. Deleting(t)
    BY <1>4 DEF EditsStand, Editing, Deleting
  <2>2. req'[t] = req[t] /\ input' = input
    BY <1>4, <2>1 DEF EditsStand, DirectoryFrame, Editing
  <2> QED
    BY <1>0, <2>1, <2>2, SweptStill DEF Sweep
<1>5. CASE Crash
  BY <1>5, CrashDoes, KindsOfPc DEF Sweep
<1> QED
  BY <1>1, <1>2, <1>3, <1>4, <1>5, StepIs
-----------------------------------------------------------------------------
(* Kept: where the files of a promised case are while edits go on.  Under  *)
(* one number that no edit is about to touch, or, between the two renames  *)
(* of a number, its answer there and its input one below.                  *)

Pair(c, k) == input[k] = c /\ answer[k] = c

KeptAt(c, k, s) ==
  /\ Adding(s) => Pair(c, k) /\ k # req[s].num
  /\ Deleting(s) =>
       \/ /\ Pair(c, k)
          /\ req[s].pc \in {"rmIn", "rmOut", "rescan"} => k # req[s].num
          /\ req[s].pc = "renOut" => k # MovesNext(s) /\ k # MovesNext(s) - 1
       \/ /\ req[s].pc = "renOut" /\ k = MovesNext(s)
          /\ answer[k] = c /\ input[k - 1] = c

KeptIn(c) == \E k \in Nums : \A s \in Staff : KeptAt(c, k, s)

Found(c) == (\E n \in Nums : input[n] = c) /\ (\E n \in Nums : answer[n] = c)

Kept == Orderly => \A c \in promised : /\ Quiet => Found(c)
                                       /\ ~Quiet => KeptIn(c)

LEMMA CasesAreNot ==
  ASSUME NEW c \in Cases
  PROVE  c # "absent" /\ c # "torn" /\ c # "zero"
BY TestCasesAssumption

LEMMA KeptIsFound ==
  ASSUME Typed, Turns, Kept, Orderly, NEW c \in promised
  PROVE  Found(c)
<1>1. CASE Quiet
  BY <1>1 DEF Kept
<1>2. CASE ~Quiet
  <2>1. PICK s \in Staff : Adding(s) \/ Deleting(s)
    BY <1>2 DEF Quiet, Editing, Turns
  <2>2. PICK k \in Nums : KeptAt(c, k, s)
    BY <1>2 DEF Kept, KeptIn
  <2>3. CASE Pair(c, k)
    BY <2>3 DEF Pair, Found
  <2>4. CASE req[s].pc = "renOut" /\ k = MovesNext(s) /\ answer[k] = c /\ input[k - 1] = c
    <3>1. k - 1 \in Nums
      BY <2>4, MovingIs DEF MovesNext, Typed
    <3> QED
      BY <2>4, <3>1 DEF Found
  <2> QED
    BY <2>1, <2>2, <2>3, <2>4 DEF KeptAt
<1> QED
  BY <1>1, <1>2

LEMMA InitKept ==
  ASSUME Init
  PROVE  Kept
<1>1. Quiet
  BY KindsOfPc DEF Init, Quiet, Editing, Idle, AddPcs, DeletePcs, ReplacePcs
<1>2. \A c \in promised : Found(c)
  BY DEF Init, Complete, Found
<1> QED
  BY <1>1, <1>2 DEF Kept

\* What a beginning edit promises: cases that are complete, or that the other
\* additions keep.
LEMMA BeganKept ==
  ASSUME Typed, Turns, Kept, Orderly, Orderly', NEW D, Began(D), NEW c \in promised'
  PROVE  /\ \E k \in Nums : /\ Pair(c, k)
                            /\ \A t \in Staff : ~Deleting(t) /\ (Adding(t) => k # req[t].num)
         /\ c \in Cases /\ c \notin D
<1>1. promised \subseteq Cases /\ promised' = (IF Quiet THEN Complete ELSE promised) \ D
  BY DEF Typed, HistoryTyped, Began
<1>2. CASE Quiet
  <2>1. c \in Complete /\ c \notin D
    BY <1>1, <1>2
  <2>2. PICK k \in Nums : Pair(c, k)
    BY <2>1 DEF Complete, Pair
  <2>3. c \in Cases
    BY <2>1 DEF Complete
  <2> QED
    BY <1>2, <2>1, <2>2, <2>3 DEF Quiet, Editing
<1>3. CASE ~Quiet
  <2>1. Overlap = "additions" /\ ~\E t \in Staff : Deleting(t)
    BY <1>3, KindsOfPc DEF Began, Orderly, Editing
  <2>2. c \in promised /\ c \notin D
    BY <1>1, <1>3
  <2>3. PICK k \in Nums : \A t \in Staff : KeptAt(c, k, t)
    BY <1>3, <2>2 DEF Kept, KeptIn
  <2>4. PICK s \in Staff : Adding(s)
    BY <1>3, <2>1, <2>2 DEF Quiet, Editing, Turns
  <2>5. Pair(c, k)
    BY <2>3, <2>4 DEF KeptAt
  <2> QED
    BY <1>1, <2>1, <2>2, <2>3, <2>5 DEF KeptAt
<1> QED
  BY <1>2, <1>3

LEMMA AddBeginsKept ==
  ASSUME Typed, Turns, Kept, Orderly, Orderly', NEW s \in Staff, NEW S \in SUBSET Nums,
         NEW a \in Cases, NEW pointed \in BOOLEAN, AddScan(s, S, a, pointed)
  PROVE  Kept'
<1> SUFFICES ASSUME NEW c \in promised' PROVE ~Quiet' /\ KeptIn(c)'
  BY DEF Kept
<1>1. /\ Others(s) /\ req'[s].pc = "openIn" /\ req'[s].num = NextNum(Scan)
      /\ Began({}) /\ input' = input /\ answer' = answer
  <2>1. /\ Others(s) /\ req'[s].pc = "openIn" /\ req'[s].num = NextNum(S) /\ Scanning(S)
        /\ Began({}) /\ input' = input /\ answer' = answer
    BY AddScanDoes
  <2>2. S = Scan
    BY <2>1 DEF Scanning, Orderly
  <2> QED
    BY <2>1, <2>2
<1>2. /\ c \in Cases
      /\ \E k \in Nums : /\ Pair(c, k)
                         /\ \A t \in Staff : ~Deleting(t) /\ (Adding(t) => k # req[t].num)
  BY <1>1, BeganKept
<1>3. PICK k \in Nums : /\ Pair(c, k)
                        /\ \A t \in Staff : ~Deleting(t) /\ (Adding(t) => k # req[t].num)
  BY <1>2
<1>4. k # NextNum(Scan)
  <2>1. k \in Scan
    BY <1>2, <1>3, CasesAreNot DEF Pair, Scan
  <2>2. k < NextNum(Scan) /\ k \in Nat /\ NextNum(Scan) \in Nat
    BY <2>1, NextNumIs, BoundsAreNumbers DEF Nums, Scan
  <2> QED
    BY <2>2
<1>5. Adding(s)' /\ ~Deleting(s)'
  BY <1>1, KindsOfPc DEF AddPcs, DeletePcs
<1>6. ASSUME NEW t \in Staff PROVE KeptAt(c, k, t)'
  <2>1. Pair(c, k)'
    BY <1>1, <1>3 DEF Pair
  <2>2. CASE t = s
    BY <1>1, <1>4, <1>5, <2>1, <2>2 DEF KeptAt
  <2>3. CASE t # s
    <3>1. req'[t] = req[t]
      BY <1>1, <2>3 DEF Others
    <3>2. ~Deleting(t)' /\ (Adding(t)' => k # req'[t].num)
      BY <1>3, <3>1 DEF Deleting, Adding
    <3> QED
      BY <2>1, <3>2 DEF KeptAt
  <2> QED
    BY <2>2, <2>3
<1> QED
  BY <1>5, <1>6 DEF KeptIn, Quiet, Editing
LEMMA DeleteBeginsKept ==
  ASSUME Typed, Turns, Kept, Orderly, Orderly', NEW s \in Staff, NEW n \in Nums, DeleteFind(s, n)
  PROVE  Kept'
<1> SUFFICES ASSUME NEW c \in promised' PROVE ~Quiet' /\ KeptIn(c)'
  BY DEF Kept
<1> DEFINE D == {input[n]}
<1>1. /\ Others(s) /\ req'[s].pc = "rmIn" /\ req'[s].num = n
      /\ Began(D) /\ input' = input /\ answer' = answer
  BY DeleteFindDoes
<1>2. ~\E t \in Staff : Editing(t)
  <2>1. CASE ~Quiet
    <3>1. crossed' /\ D # {}
      BY <1>1, <2>1 DEF Began
    <3> QED
      BY <1>1, <2>1, <3>1 DEF Began, Orderly
  <2> QED
    BY <2>1 DEF Quiet
<1>3. PICK k \in Nums : Pair(c, k)
  BY <1>1, BeganKept
<1>4. c # input[n]
  <2> HIDE DEF D
  <2>1. c \notin D
    BY <1>1, BeganKept
  <2> QED
    BY <2>1 DEF D
<1>5. k # n
  BY <1>3, <1>4 DEF Pair
<1>6. Deleting(s)' /\ ~Adding(s)'
  BY <1>1, KindsOfPc DEF AddPcs, DeletePcs
<1>7. ASSUME NEW t \in Staff PROVE KeptAt(c, k, t)'
  <2>1. CASE t = s
    <3>1. Pair(c, k)' /\ k # req'[s].num
      BY <1>1, <1>3, <1>5 DEF Pair
    <3> QED
      BY <1>1, <1>6, <2>1, <3>1 DEF KeptAt
  <2>2. CASE t # s
    <3>1. ~Adding(t)' /\ ~Deleting(t)'
      BY <1>1, <1>2, <2>2 DEF Others, Editing, Adding, Deleting
    <3> QED
      BY <3>1 DEF KeptAt
  <2> QED
    BY <2>1, <2>2
<1> QED
  BY <1>6, <1>7 DEF KeptIn, Quiet, Editing

\* An addition writes the files of its own number.
LEMMA AddTouches ==
  ASSUME Typed, NEW s \in Staff, Add(s), req[s].pc \in AddPcs,
         NEW k \in Nums, k # req[s].num
  PROVE  input'[k] = input[k] /\ answer'[k] = answer[k]
<1>0. RequestsTyped /\ input \in [Nums -> Contents] /\ answer \in [Nums -> Contents]
  BY DEF Typed, FilesTyped
<1>1. ASSUME NEW S \in SUBSET Nums, NEW c \in Cases, NEW pointed \in BOOLEAN
      PROVE  ~AddScan(s, S, c, pointed)
  BY AddScanDoes DEF AddPcs
<1>2. CASE AddOpenIn(s)
  BY <1>0, <1>2, AddOpenInDoes
<1>3. CASE AddFillIn(s)
  BY <1>0, <1>3, AddFillInDoes
<1>4. CASE AddOpenOut(s)
  BY <1>0, <1>4, AddOpenOutDoes
<1>5. CASE AddFillOut(s)
  BY <1>0, <1>5, AddFillOutDoes
<1>6. CASE AddScore(s)
  BY <1>0, <1>6, AddScoreDoes
<1> QED
  BY <1>1, <1>2, <1>3, <1>4, <1>5, <1>6 DEF Add

LEMMA AddGoesOnKept ==
  ASSUME Typed, Turns, Kept, Orderly, NEW s \in Staff, Add(s), req[s].pc \in AddPcs
  PROVE  Kept'
<1> SUFFICES ASSUME NEW c \in promised' PROVE (Quiet => Found(c))' /\ (~Quiet => KeptIn(c))'
  BY DEF Kept
<1>1. /\ Others(s) /\ Adding(s) /\ promised' = promised
      /\ ~Deleting(s)' /\ (Adding(s)' => req'[s].num = req[s].num)
  BY AddIs, AddInput, KindsOfPc DEF EditFrame
<1>2. ~Quiet
  BY <1>1 DEF Quiet, Editing
<1>3. PICK k \in Nums : \A t \in Staff : KeptAt(c, k, t)
  BY <1>1, <1>2 DEF Kept, KeptIn
<1>4. Pair(c, k) /\ k # req[s].num
  BY <1>1, <1>3 DEF KeptAt
<1>5. Pair(c, k)'
  BY <1>4, AddTouches DEF Pair
<1>6. ASSUME NEW t \in Staff PROVE KeptAt(c, k, t)'
  <2>1. CASE t = s
    BY <1>1, <1>4, <1>5, <2>1 DEF KeptAt
  <2>2. CASE t # s
    <3>1. req'[t] = req[t]
      BY <1>1, <2>2 DEF Others
    <3>2. ~Deleting(t)
      BY <1>1, <2>2, DeletersAreSole DEF Sole, Editing
    <3>3. ~Deleting(t)' /\ (Adding(t)' => k # req'[t].num)
      BY <1>3, <3>1, <3>2 DEF KeptAt, Adding, Deleting
    <3> QED
      BY <1>5, <3>3 DEF KeptAt
  <2> QED
    BY <2>1, <2>2
<1> QED
  BY <1>5, <1>6 DEF KeptIn, Found, Pair

KeptThere(c, s, j) ==
  /\ Pair(c, j)' \/ (input'[j - 1] = c /\ answer'[j] = c /\ j - 1 \in Nums)
  /\ KeptAt(c, j, s)'

LEMMA DeleteGoesOnKept ==
  ASSUME Typed, Turns, Sweep, Kept, Orderly, NEW s \in Staff, Delete(s), Deleting(s),
         ~slipped', NEW c \in Cases, NEW k \in Nums, KeptAt(c, k, s)
  PROVE  \E j \in Nums : KeptThere(c, s, j)
<1>0. /\ RequestsTyped /\ HistoryTyped /\ input \in [Nums -> Contents] /\ answer \in [Nums -> Contents]
      /\ req[s].pc \in DeletePcs /\ Swept(s) /\ c # "absent"
      /\ ~Adding(s)'
  BY KindsOfPc, CasesAreNot, DeleteIs DEF Typed, FilesTyped, Sweep, DeletePcs, AddPcs
<1>1. ASSUME NEW n \in Nums PROVE ~DeleteFind(s, n)
  BY <1>0, DeleteFindDoes DEF DeletePcs
<1>2. CASE DeleteIn(s)
  <2>1. /\ req[s].pc = "rmIn" /\ req'[s].pc = "rmOut" /\ req'[s].num = req[s].num
        /\ input' = [input EXCEPT ![req[s].num] = "absent"] /\ answer' = answer
    BY <1>0, <1>2, DeleteInDoes DEF DeleteStep
  <2>2. Pair(c, k) /\ k # req[s].num
    BY <2>1 DEF KeptAt, Deleting
  <2>3. Pair(c, k)'
    BY <1>0, <2>1, <2>2 DEF Pair
  <2> QED
    BY <1>0, <2>1, <2>2, <2>3 DEF KeptAt, KeptThere
<1>3. CASE DeleteOut(s)
  <2>1. /\ req[s].pc = "rmOut" /\ req'[s].pc = "rescan" /\ req'[s].num = req[s].num
        /\ answer' = [answer EXCEPT ![req[s].num] = "absent"] /\ input' = input
    BY <1>0, <1>3, DeleteOutDoes DEF DeleteStep
  <2>2. Pair(c, k) /\ k # req[s].num
    BY <2>1 DEF KeptAt, Deleting
  <2>3. Pair(c, k)'
    BY <1>0, <2>1, <2>2 DEF Pair
  <2> QED
    BY <1>0, <2>1, <2>2, <2>3 DEF KeptAt, KeptThere
<1>4. ASSUME NEW S \in SUBSET Nums, DeleteRescan(s, S) PROVE \E j \in Nums : KeptThere(c, s, j)
  <2>1. /\ req[s].pc = "rescan" /\ req'[s].pc \in {"cutScore", "renIn"}
        /\ answer' = answer /\ input' = input
    BY <1>0, <1>4, DeleteRescanDoes DEF DeleteStep, Onward
  <2>2. Pair(c, k)'
    BY <2>1 DEF KeptAt, Deleting, Pair
  <2> QED
    BY <1>0, <2>1, <2>2 DEF KeptAt, KeptThere
<1>5. CASE RenameIn(s)
  <2>1. PICK n : n = FirstToMove(req[s].todo)
    OBVIOUS
  <2>2. /\ req[s].pc = "renIn" /\ req'[s].pc = "renOut" /\ req'[s].todo = req[s].todo
        /\ input' = Renamed(input, n) /\ answer' = answer
    BY <1>0, <1>5, <2>1, RenameInDoes DEF DeleteStep
  <2>3. n \in req[s].todo /\ n \in Nums /\ n - 1 \in Nums
    BY <1>0, <2>1, <2>2, MovingIs
  <2>4. n \in Scan /\ input[n - 1] = "absent"
    BY <1>0, <2>1, <2>2, <2>3 DEF Swept, MovesNext
  <2>5. /\ input'[n - 1] = input[n]
        /\ \A m \in Nums \ {n, n - 1} : input'[m] = input[m]
    BY <1>0, <2>2, <2>3, <2>4, ScanMoved
  <2>6. Pair(c, k) /\ k # n - 1
    BY <1>0, <2>2, <2>4 DEF KeptAt, Deleting, Pair
  <2>7. MovesNext(s)' = n
    BY <2>1, <2>2 DEF MovesNext
  <2>8. CASE k = n
    BY <1>0, <2>2, <2>3, <2>5, <2>6, <2>7, <2>8 DEF KeptAt, Pair, KeptThere
  <2>9. CASE k # n
    <3>1. Pair(c, k)'
      BY <2>2, <2>5, <2>6, <2>9 DEF Pair
    <3> QED
      BY <1>0, <2>2, <2>6, <2>7, <2>9, <3>1 DEF KeptAt, KeptThere
  <2> QED
    BY <2>8, <2>9
<1>6. CASE RenameOut(s)
  <2>1. PICK n, rest : n = FirstToMove(req[s].todo) /\ rest = req[s].todo \ {n}
    OBVIOUS
  <2>2. /\ req[s].pc = "renOut" /\ req'[s].pc \in {"cutScore", "renIn"}
        /\ input' = input /\ answer' = Renamed(answer, n)
    BY <1>0, <1>6, <2>1, RenameOutDoes DEF DeleteStep, Onward
  <2>3. n \in Nums /\ n - 1 \in Nums
    BY <1>0, <2>1, <2>2, MovingIs
  <2>4. MovesNext(s) = n
    BY <2>1 DEF MovesNext
  <2>5. CASE Pair(c, k) /\ k # n /\ k # n - 1
    <3>1. answer'[k] = answer[k]
      BY <1>0, <2>2, <2>3, <2>5, RenamedTyped
    <3>2. Pair(c, k)'
      BY <2>2, <2>5, <3>1 DEF Pair
    <3> QED
      BY <1>0, <2>2, <3>2 DEF KeptAt, KeptThere
  <2>6. CASE k = n /\ answer[k] = c /\ input[k - 1] = c
    <3>1. answer'[n - 1] = c
      BY <1>0, <2>2, <2>3, <2>6, RenamedTyped
    <3>2. Pair(c, n - 1)'
      BY <2>2, <2>6, <3>1 DEF Pair
    <3> QED
      BY <1>0, <2>2, <2>3, <3>2 DEF KeptAt, KeptThere
  <2> QED
    BY <2>2, <2>4, <2>5, <2>6 DEF KeptAt
<1>7. ASSUME NEW S \in SUBSET Nums, DeleteScore(s, S) PROVE \E j \in Nums : KeptThere(c, s, j)
  <2>1. req[s].pc = "cutScore" /\ req'[s].pc = "idle" /\ input' = input /\ answer' = answer
    BY <1>0, <1>7, DeleteScoreDoes DEF EndStep
  <2>2. Pair(c, k)'
    BY <2>1 DEF KeptAt, Deleting, Pair
  <2> QED
    BY <1>0, <2>1, <2>2 DEF KeptAt, KeptThere
<1> QED
  BY <1>1, <1>2, <1>3, <1>4, <1>5, <1>6, <1>7 DEF Delete
LEMMA NextKept ==
  ASSUME Typed, Turns, Sweep, Kept, [Next]_vars
  PROVE  Kept'
<1> SUFFICES ASSUME Orderly' PROVE Kept'
  BY DEF Kept
<1>0. Orderly /\ Turns' /\ ~slipped'
  <2>1. Orderly
    BY OrderlyBefore
  <2>2. Turns'
    BY NextTurns
  <2> QED
    BY <2>1, <2>2 DEF Orderly
<1>1. ASSUME NEW s \in Staff, Add(s) PROVE Kept'
  <2>1. CASE req[s].pc \in AddPcs
    BY <1>0, <1>1, <2>1, AddGoesOnKept
  <2>2. CASE req[s].pc = "idle"
    <3>1. PICK S \in SUBSET Nums, c \in Cases, pointed \in BOOLEAN : AddScan(s, S, c, pointed)
      BY <1>1, <2>2 DEF Add, AddOpenIn, AddFillIn, AddOpenOut, AddFillOut, AddScore, At
    <3> QED
      BY <1>0, <3>1, AddBeginsKept
  <2> QED
    BY <1>1, <2>1, <2>2, AddIs
<1>2. ASSUME NEW s \in Staff, Delete(s) PROVE Kept'
  <2>1. CASE req[s].pc \in DeletePcs
    <3>1. Deleting(s) /\ Sole(s)
      BY <1>0, <2>1, KindsOfPc, DeletersAreSole
    <3>2. ~Quiet /\ promised' = promised /\ Others(s)
      BY <1>2, <2>1, <3>1, DeleteIs, KindsOfPc DEF Quiet, Editing, EditFrame, DeletePcs
    <3> SUFFICES ASSUME NEW c \in promised'
                 PROVE  (Quiet => Found(c))' /\ (~Quiet => KeptIn(c))'
      BY DEF Kept
    <3>3. c \in Cases
      BY <3>2 DEF Typed, HistoryTyped
    <3>4. PICK k \in Nums : KeptAt(c, k, s)
      BY <1>0, <3>2 DEF Kept, KeptIn
    <3>5. PICK j \in Nums : KeptThere(c, s, j)
      BY <1>0, <1>2, <3>1, <3>3, <3>4, DeleteGoesOnKept
    <3>6. Found(c)'
      BY <3>5 DEF Pair, Found, KeptThere
    <3>7. ASSUME NEW t \in Staff PROVE KeptAt(c, j, t)'
      <4>1. CASE t = s
        BY <3>5, <4>1 DEF KeptThere
      <4>2. CASE t # s
        <5>1. ~Adding(t)' /\ ~Deleting(t)'
          BY <3>1, <3>2, <4>2 DEF Others, Sole, Editing, Adding, Deleting
        <5> QED
          BY <5>1 DEF KeptAt
      <4> QED
        BY <4>1, <4>2
    <3> QED
      BY <3>6, <3>7 DEF KeptIn
  <2>2. CASE req[s].pc = "idle"
    <3>1. PICK n \in Nums : DeleteFind(s, n)
      BY <1>2, <2>2
      DEF Delete, DeleteIn, DeleteOut, DeleteRescan, RenameIn, RenameOut, DeleteScore, At
    <3> QED
      BY <1>0, <3>1, DeleteBeginsKept
  <2> QED
    BY <1>2, <2>1, <2>2, DeleteIs
<1>3. ASSUME NEW s \in Staff, ReplaceBegins(s) PROVE Kept'
  BY <1>3 DEF ReplaceBegins, Kept
<1>4. ASSUME NEW s \in Staff, Replace(s) PROVE Kept'
  <2>1. Replacing(s) /\ promised' = promised
    BY <1>4, ReplaceIs, KindsOfPc DEF ReplaceFrame
  <2> QED
    BY <2>1 DEF Turns, Kept
<1>5. CASE EditsStand
  <2>1. Quiet' <=> Quiet
    BY <1>5 DEF EditsStand, Quiet, Editing, Adding, Deleting, Replacing
  <2>2. ASSUME NEW c, NEW k \in Nums, NEW t \in Staff, KeptAt(c, k, t) PROVE KeptAt(c, k, t)'
    <3>1. input' = input /\ answer' = answer
      BY <1>5 DEF EditsStand, DirectoryFrame
    <3>2. CASE Editing(t)
      <4>1. req'[t] = req[t]
        BY <1>5, <3>2 DEF EditsStand
      <4> QED
        BY <2>2, <3>1, <4>1 DEF KeptAt, Pair, MovesNext, Adding, Deleting
    <3>3. CASE ~Editing(t)
      <4>1. ~Editing(t)'
        BY <1>5, <3>3 DEF EditsStand, Editing, Adding, Deleting, Replacing
      <4> QED
        BY <4>1 DEF KeptAt, Editing
    <3> QED
      BY <3>2, <3>3
  <2>3. \A c : (KeptIn(c) => KeptIn(c)') /\ (Found(c) => Found(c)')
    <3>1. \A c : KeptIn(c) => KeptIn(c)'
      BY <2>2 DEF KeptIn
    <3>2. \A c : Found(c) => Found(c)'
      BY <1>5 DEF EditsStand, DirectoryFrame, Found
    <3> QED
      BY <3>1, <3>2
  <2>4. promised' = promised
    BY <1>5 DEF EditsStand, DirectoryFrame
  <2> QED
    BY <1>0, <2>1, <2>3, <2>4 DEF Kept
<1>6. CASE Crash
  <2>1. promised' = promised /\ input' = input /\ answer' = answer /\ Quiet'
    BY <1>6, CrashDoes, KindsOfPc DEF Quiet, Editing, AddPcs, DeletePcs, ReplacePcs
  <2>2. \A c \in promised : Found(c)
    BY <1>0, KeptIsFound
  <2> QED
    BY <2>1, <2>2 DEF Kept, Found
<1> QED
  BY <1>1, <1>2, <1>3, <1>4, <1>5, <1>6, StepIs

LEMMA KeptAlways == Spec => [](Typed /\ Turns /\ Sweep /\ Kept)
<1>1. Init => Typed /\ Turns /\ Sweep /\ Kept
  BY InitTyped, InitTurns, InitSweep, InitKept
<1>2. Typed /\ Turns /\ Sweep /\ Kept /\ [Next]_vars => (Typed /\ Turns /\ Sweep /\ Kept)'
  BY NextTyped, NextTurns, NextSweep, NextKept
<1> QED
  BY <1>1, <1>2, PTL DEF Spec

\* Whatever the numbering, the additions that overlap, the writes that fail and
\* the crash that cuts an edit off: both files of every complete case that was
\* there when the edit began, but for the one it is to delete, are in the
\* directory at every moment, as long as no removal, no rename and no listing
\* of the numbers has failed.  Deletions that overlap other edits are out: they
\* move numbers under each other.
THEOREM CasesAreKept ==
  ASSUME Overlap # "any"
  PROVE  Spec => []CompleteCasesSurvive
<1>1. Typed /\ Turns /\ Kept => CompleteCasesSurvive
  BY KeptIsFound DEF CompleteCasesSurvive, Orderly, Found
<1> QED
  BY <1>1, KeptAlways, PTL
-----------------------------------------------------------------------------
(* Tidy: what the files of a directory are, as long as no operation fails, *)
(* no crash happens and no edits overlap.  Every number has the input and  *)
(* the answer of one case, but for the number or two that the edit of the  *)
(* moment has in its hands.                                                *)

Paired(n) == input[n] = answer[n] /\ input[n] # "torn"

Loose(s) == IF req[s].pc \in {"fillIn", "openOut", "fillOut", "rmOut"} THEN {req[s].num}
            ELSE IF req[s].pc = "renOut" THEN {MovesNext(s), MovesNext(s) - 1}
            ELSE {}

Half(s) ==
  /\ \A n \in Nums \ Loose(s) : Paired(n)
  /\ req[s].pc = "openIn" => input[req[s].num] = "absent"
  /\ req[s].pc = "fillIn" => input[req[s].num] = "torn" /\ answer[req[s].num] = "absent"
  /\ req[s].pc = "openOut" => input[req[s].num] = req[s].case /\ answer[req[s].num] = "absent"
  /\ req[s].pc = "fillOut" => input[req[s].num] = req[s].case /\ answer[req[s].num] = "torn"
  /\ req[s].pc = "rmOut" => input[req[s].num] = "absent"
  /\ req[s].pc = "renOut" => /\ input[MovesNext(s)] = "absent"
                             /\ answer[MovesNext(s) - 1] = "absent"
                             /\ input[MovesNext(s) - 1] = answer[MovesNext(s)]
                             /\ answer[MovesNext(s)] \notin {"absent", "torn"}

\* The directory at hand of a replacement: whole new cases, of which the list
\* when it began had none.
Brings(s) == \E d \in Directories, k \in Nums : \E c \in [1..k -> Cases] :
               /\ req[s].tmp = d /\ Whole(d, k, c)
               /\ \A i \in 1..k : \A j \in DOMAIN base : base[j] # c[i]

Replaced(s) ==
  /\ req[s].pc # "restore" /\ Brings(s)
  /\ req[s].pc = "swap" => Holds(NoDirectory)
  /\ req[s].pc = "dropBak" => Holds(req[s].tmp)

Tidy == Undamaged => /\ Quiet => \A n \in Nums : Paired(n)
                     /\ \A s \in Staff : Editing(s) => Half(s)
                     /\ \A s \in Staff : Replacing(s) => Replaced(s)

LEMMA UndamagedIs ==
  ASSUME Typed, Undamaged
  PROVE  Orderly
BY BoundsAreNumbers DEF Typed, CountersTyped, Undamaged, Orderly

LEMMA UndamagedBefore ==
  ASSUME Typed, [Next]_vars, Undamaged'
  PROVE  /\ Undamaged /\ Orderly /\ Orderly' /\ ~Failing
         /\ \A D : Began(D) => Quiet
<1>0. Typed'
  BY NextTyped
<1>1. Orderly' /\ Orderly
  BY <1>0, UndamagedIs, OrderlyBefore DEF Typed, CountersTyped, Undamaged, Orderly
<1>2. ~Failing
  BY BoundsAreNumbers DEF Typed, CountersTyped, Undamaged, Failing
<1>3. \A D : Began(D) => Quiet
  BY DEF Began, Undamaged
<1>4. ASSUME MayFail, crashes' = crashes, crossed => crossed' PROVE Undamaged
  BY <1>2, <1>4 DEF Undamaged, MayFail
<1>5. ASSUME NEW s \in Staff, Add(s) \/ Delete(s) PROVE crashes' = crashes /\ (crossed => crossed')
  BY <1>5, AddIs, DeleteIs DEF EditFrame, Began
<1>6. ASSUME NEW s \in Staff, Add(s) \/ Delete(s) PROVE MayFail
  BY <1>6 DEF Add, AddScan, AddOpenIn, AddFillIn, AddOpenOut, AddFillOut, AddScore,
              Delete, DeleteFind, DeleteIn, DeleteOut, DeleteRescan, RenameIn, RenameOut,
              DeleteScore, Fault, Slip, Listed, MayFail, Failing
<1>7. ASSUME EditsStand PROVE Undamaged
  BY <1>4, <1>7 DEF EditsStand, DirectoryFrame
<1>8. ~Crash
  BY CrashDoes, BoundsAreNumbers DEF Undamaged
<1>9. ASSUME NEW s \in Staff, Add(s) \/ Delete(s) PROVE Undamaged
  BY <1>4, <1>5, <1>6, <1>9
<1>10. ASSUME NEW s \in Staff, ReplaceBegins(s) PROVE Undamaged
  <2>1. crossed => crossed'
    BY <1>10 DEF ReplaceBegins
  <2> QED
    BY <1>4, <1>10, <2>1 DEF ReplaceBegins
<1>11. ASSUME NEW s \in Staff, Replace(s) PROVE Undamaged
  BY <1>4, <1>11, ReplaceIs DEF ReplaceFrame
<1>12. Undamaged
  BY <1>7, <1>8, <1>9, <1>10, <1>11, StepIs
<1> QED
  BY <1>1, <1>2, <1>3, <1>12, Zenon

LEMMA InitTidy ==
  ASSUME Init
  PROVE  Tidy
<1>1. \A n \in Nums : input[n] \in Cases \cup {"absent"} /\ answer = input
  BY DEF Init, Imported
<1>2. \A n \in Nums : Paired(n)
  BY <1>1, CasesAreNot DEF Paired
<1>3. \A s \in Staff : ~Editing(s)
  BY KindsOfPc DEF Init, Editing, Idle, AddPcs, DeletePcs, ReplacePcs
<1> QED
  BY <1>2, <1>3 DEF Tidy, Editing

LEMMA AddTidies ==
  ASSUME Typed, NEW s \in Staff, Add(s), ~Failing,
         req[s].pc \in AddPcs, Half(s)
  PROVE  /\ req'[s].pc \in AddPcs => Half(s)'
         /\ req'[s].pc = "idle" => \A n \in Nums : Paired(n)'
<1>0. RequestsTyped /\ input \in [Nums -> Contents] /\ answer \in [Nums -> Contents]
  BY DEF Typed, FilesTyped
<1>1. req[s] \in Additions /\ req[s].num \in Nums /\ req[s].case \in Cases
  BY <1>0, ReqKinds DEF Additions
<1>2. ASSUME NEW S \in SUBSET Nums, NEW c \in Cases, NEW pointed \in BOOLEAN
      PROVE  ~AddScan(s, S, c, pointed)
  BY AddScanDoes DEF AddPcs
<1>3. req[s].case # "torn" /\ req[s].case # "absent"
  BY <1>1, CasesAreNot
<1>4. \A n \in Nums \ {req[s].num} : input'[n] = input[n] /\ answer'[n] = answer[n]
  BY AddTouches
<1>5. CASE AddOpenIn(s)
  <2>1. /\ req[s].pc = "openIn" /\ req'[s].pc = "fillIn" /\ req'[s].num = req[s].num
        /\ input' = [input EXCEPT ![req[s].num] = "torn"] /\ answer' = answer
    BY <1>0, <1>5, AddOpenInDoes DEF AddStep
  <2>2. Paired(req[s].num) /\ input[req[s].num] = "absent"
    BY <1>1, <2>1 DEF Half, Loose
  <2>3. input'[req[s].num] = "torn" /\ answer'[req[s].num] = "absent"
    BY <1>0, <1>1, <2>1, <2>2 DEF Paired
  <2> QED
    BY <1>4, <2>1, <2>3 DEF Half, Loose, Paired
<1>6. CASE AddFillIn(s)
  <2>1. /\ req[s].pc = "fillIn" /\ req'[s].pc = "openOut" /\ req'[s].num = req[s].num
        /\ req'[s].case = req[s].case
        /\ input' = [input EXCEPT ![req[s].num] = req[s].case] /\ answer' = answer
    BY <1>0, <1>6, AddFillInDoes DEF AddStep
  <2>2. input'[req[s].num] = req[s].case /\ answer'[req[s].num] = "absent"
    BY <1>0, <1>1, <2>1 DEF Half
  <2> QED
    BY <1>4, <2>1, <2>2 DEF Half, Loose, Paired
<1>7. CASE AddOpenOut(s)
  <2>1. /\ req[s].pc = "openOut" /\ req'[s].pc = "fillOut" /\ req'[s].num = req[s].num
        /\ req'[s].case = req[s].case
        /\ answer' = [answer EXCEPT ![req[s].num] = "torn"] /\ input' = input
    BY <1>0, <1>7, AddOpenOutDoes DEF AddStep
  <2>2. input'[req[s].num] = req[s].case /\ answer'[req[s].num] = "torn"
    BY <1>0, <1>1, <2>1 DEF Half
  <2> QED
    BY <1>4, <2>1, <2>2 DEF Half, Loose, Paired
<1>8. CASE AddFillOut(s)
  <2>1. /\ req[s].pc = "fillOut" /\ req'[s].pc = "addScore" /\ req'[s].num = req[s].num
        /\ req'[s].case = req[s].case
        /\ answer' = [answer EXCEPT ![req[s].num] = req[s].case] /\ input' = input
    BY <1>0, <1>8, AddFillOutDoes DEF AddStep
  <2>2. input'[req[s].num] = req[s].case /\ answer'[req[s].num] = req[s].case
    BY <1>0, <1>1, <2>1 DEF Half
  <2>3. \A n \in Nums : Paired(n)'
    BY <1>3, <1>4, <2>1, <2>2 DEF Half, Loose, Paired
  <2> QED
    BY <2>1, <2>3 DEF Half
<1>9. CASE AddScore(s)
  <2>1. /\ req[s].pc = "addScore" /\ req'[s].pc = "idle" /\ input' = input /\ answer' = answer
    BY <1>0, <1>9, AddScoreDoes DEF EndStep
  <2> QED
    BY <2>1 DEF Half, Loose, Paired, AddPcs
<1> QED
  BY <1>2, <1>5, <1>6, <1>7, <1>8, <1>9 DEF Add
LEMMA DeleteTidies ==
  ASSUME Typed, NEW s \in Staff, Delete(s), ~Failing,
         req[s].pc \in DeletePcs, Half(s), Swept(s)
  PROVE  /\ req'[s].pc \in DeletePcs => Half(s)'
         /\ req'[s].pc = "idle" => \A n \in Nums : Paired(n)'
<1>0. RequestsTyped /\ HistoryTyped /\ input \in [Nums -> Contents] /\ answer \in [Nums -> Contents]
  BY DEF Typed, FilesTyped
<1>1. req[s] \in Deletions /\ req[s].num \in Nums
  BY <1>0, ReqKinds DEF Deletions
<1>2. ASSUME NEW n \in Nums PROVE ~DeleteFind(s, n)
  BY DeleteFindDoes DEF DeletePcs
<1>3. CASE DeleteIn(s)
  <2>1. /\ req[s].pc = "rmIn" /\ req'[s].pc = "rmOut" /\ req'[s].num = req[s].num
        /\ input' = [input EXCEPT ![req[s].num] = "absent"] /\ answer' = answer
    BY <1>0, <1>3, DeleteInDoes DEF DeleteStep
  <2>2. input'[req[s].num] = "absent" /\ \A n \in Nums \ {req[s].num} : input'[n] = input[n]
    BY <1>0, <1>1, <2>1
  <2> QED
    BY <2>1, <2>2 DEF Half, Loose, Paired
<1>4. CASE DeleteOut(s)
  <2>1. /\ req[s].pc = "rmOut" /\ req'[s].pc = "rescan"
        /\ answer' = [answer EXCEPT ![req[s].num] = "absent"] /\ input' = input
    BY <1>0, <1>4, DeleteOutDoes DEF DeleteStep
  <2>2. answer'[req[s].num] = "absent" /\ \A n \in Nums \ {req[s].num} : answer'[n] = answer[n]
    BY <1>0, <1>1, <2>1
  <2>3. \A n \in Nums : Paired(n)'
    BY <2>1, <2>2 DEF Half, Loose, Paired
  <2> QED
    BY <2>1, <2>3 DEF Half
<1>5. ASSUME NEW S \in SUBSET Nums, DeleteRescan(s, S)
      PROVE  /\ req'[s].pc \in DeletePcs => Half(s)'
             /\ req'[s].pc = "idle" => \A n \in Nums : Paired(n)'
  <2>1. /\ req[s].pc = "rescan" /\ req'[s].pc \in {"cutScore", "renIn"}
        /\ answer' = answer /\ input' = input
    BY <1>0, <1>5, DeleteRescanDoes DEF DeleteStep, Onward
  <2>2. \A n \in Nums : Paired(n)'
    BY <2>1 DEF Half, Loose, Paired
  <2> QED
    BY <2>1, <2>2 DEF Half
<1>6. CASE RenameIn(s)
  <2>1. PICK n : n = FirstToMove(req[s].todo)
    OBVIOUS
  <2>2. /\ req[s].pc = "renIn" /\ req'[s].pc = "renOut" /\ req'[s].todo = req[s].todo
        /\ input' = Renamed(input, n) /\ answer' = answer
    BY <1>0, <1>6, <2>1, RenameInDoes DEF DeleteStep
  <2>3. n \in req[s].todo /\ n \in Nums /\ n - 1 \in Nums
    BY <1>0, <2>1, <2>2, MovingIs
  <2>4. n \in Scan /\ input[n - 1] = "absent"
    BY <1>0, <2>1, <2>2, <2>3 DEF Swept, MovesNext
  <2>5. /\ input'[n - 1] = input[n] /\ input'[n] = "absent"
        /\ \A m \in Nums \ {n, n - 1} : input'[m] = input[m]
    BY <1>0, <2>2, <2>3, <2>4, ScanMoved
  <2>6. MovesNext(s)' = n
    BY <2>1, <2>2 DEF MovesNext
  <2>7. \A m \in Nums : Paired(m)
    BY <2>2 DEF Half, Loose
  <2>8. /\ answer'[n - 1] = "absent" /\ input'[n - 1] = answer'[n]
        /\ answer'[n] # "absent" /\ answer'[n] # "torn"
    BY <2>2, <2>3, <2>4, <2>5, <2>7 DEF Paired, Scan
  <2>9. \A m \in Nums \ {n, n - 1} : Paired(m)'
    BY <2>2, <2>5, <2>7 DEF Paired
  <2> QED
    BY <2>2, <2>5, <2>6, <2>8, <2>9 DEF Half, Loose
<1>7. CASE RenameOut(s)
  <2>1. PICK n, rest : n = FirstToMove(req[s].todo) /\ rest = req[s].todo \ {n}
    OBVIOUS
  <2>2. /\ req[s].pc = "renOut" /\ req'[s].pc \in {"cutScore", "renIn"}
        /\ input' = input /\ answer' = Renamed(answer, n)
    BY <1>0, <1>7, <2>1, RenameOutDoes DEF DeleteStep, Onward
  <2>3. n \in Nums /\ n - 1 \in Nums
    BY <1>0, <2>1, <2>2, MovingIs
  <2>4. /\ input[n] = "absent" /\ input[n - 1] = answer[n]
        /\ answer[n] # "absent" /\ answer[n] # "torn"
        /\ \A m \in Nums \ {n, n - 1} : Paired(m)
    BY <2>1, <2>2 DEF Half, Loose, MovesNext
  <2>5. /\ answer'[n - 1] = answer[n] /\ answer'[n] = "absent"
        /\ \A m \in Nums \ {n, n - 1} : answer'[m] = answer[m]
    BY <1>0, <2>2, <2>3, <2>4, RenamedTyped
  <2>6. \A m \in Nums : Paired(m)'
    BY <2>2, <2>4, <2>5 DEF Paired
  <2> QED
    BY <2>2, <2>6 DEF Half
<1>8. ASSUME NEW S \in SUBSET Nums, DeleteScore(s, S)
      PROVE  /\ req'[s].pc \in DeletePcs => Half(s)'
             /\ req'[s].pc = "idle" => \A n \in Nums : Paired(n)'
  <2>1. req[s].pc = "cutScore" /\ req'[s].pc = "idle" /\ input' = input /\ answer' = answer
    BY <1>0, <1>8, DeleteScoreDoes DEF EndStep
  <2> QED
    BY <2>1 DEF Half, Loose, Paired, DeletePcs
<1> QED
  BY <1>2, <1>3, <1>4, <1>5, <1>6, <1>7, <1>8 DEF Delete

\* One step of an edit, or its start, that leaves its own thread tidy.
LEMMA TidyBeside ==
  ASSUME NEW s \in Staff, Aside(s), \A t \in Staff \ {s} : ~Editing(t),
         Editing(s)' => Half(s)',
         Replacing(s)' => Replaced(s)',
         ~Editing(s)' => \A n \in Nums : Paired(n)'
  PROVE  Tidy'
<1>1. \A t \in Staff \ {s} : ~Editing(t)' /\ ~Replacing(t)'
  BY DEF Aside, Editing, Adding, Deleting, Replacing
<1> QED
  BY <1>1 DEF Tidy, Quiet

LEMMA HalfAtRest ==
  ASSUME NEW s \in Staff, req[s].pc \in ReplacePcs, \A n \in Nums : Paired(n)
  PROVE  Half(s)
BY DEF Half, ReplacePcs

\* Whole cases are pairs.
LEMMA WholeIsPaired ==
  ASSUME NEW d, NEW k \in Nums, NEW c \in [1..k -> Cases], Whole(d, k, c),
         NEW n \in Nums
  PROVE  d.input[n] = d.answer[n] /\ d.input[n] # "torn"
<1>1. n \in 1..k => c[n] # "torn"
  BY CasesAreNot
<1> QED
  BY <1>1 DEF Whole

LEMMA ReplaceTidies ==
  ASSUME Typed, NEW s \in Staff, Replace(s), ~Failing,
         \A n \in Nums : Paired(n), Replaced(s)
  PROVE  /\ \A n \in Nums : Paired(n)'
         /\ Replacing(s)' => Replaced(s)'
<1>1. PICK d \in Directories, k \in Nums : \E c \in [1..k -> Cases] :
        /\ req[s].tmp = d /\ Whole(d, k, c)
        /\ \A i \in 1..k : \A j \in DOMAIN base : base[j] # c[i]
  BY DEF Replaced, Brings
<1>2. PICK c \in [1..k -> Cases] :
        /\ req[s].tmp = d /\ Whole(d, k, c)
        /\ \A i \in 1..k : \A j \in DOMAIN base : base[j] # c[i]
  BY <1>1
<1>3. base' = base
  BY ReplaceIs DEF ReplaceFrame
<1>4. ASSUME NEW pc, ReplaceStep(s, pc)
      PROVE  Brings(s)' /\ req'[s].pc = pc /\ req'[s].tmp = d
  <2>1. req'[s].tmp = d /\ req'[s].pc = pc
    BY <1>2, <1>4 DEF ReplaceStep
  <2> QED
    BY <1>2, <1>3, <2>1 DEF Brings
<1>5. CASE Backup(s)
  <2>1. ReplaceStep(s, "swap") /\ Becomes(NoDirectory)
    BY <1>5, BackupDoes
  <2>2. \A n \in Nums : Paired(n)'
    BY <2>1, NoDirectoryTyped DEF Becomes, Paired
  <2> QED
    BY <1>4, <2>1, <2>2 DEF Replaced, Becomes, Holds
<1>6. CASE Swap(s)
  <2>1. Holds(NoDirectory)
    BY <1>6, SwapDoes DEF Replaced
  <2>2. ReplaceStep(s, "dropBak") /\ Becomes(d)
    BY <1>2, <1>6, <2>1, SwapDoes
  <2>3. \A n \in Nums : Paired(n)'
    BY <1>2, <2>2, WholeIsPaired DEF Becomes, Paired
  <2> QED
    BY <1>4, <2>2, <2>3 DEF Replaced, Becomes, Holds
<1>7. ~Restore(s)
  BY RestoreDoes DEF Replaced
<1>8. CASE DropBackup(s)
  <2>1. EndStep(s) /\ input' = input /\ answer' = answer
    BY <1>8, DropBackupDoes
  <2> QED
    BY <2>1, KindsOfPc DEF EndStep, Paired
<1> QED
  BY <1>5, <1>6, <1>7, <1>8 DEF Replace

\* A replacement begins with cases that the files do not have.
LEMMA ReplaceBeginsBrings ==
  ASSUME Typed, NEW s \in Staff, ReplaceBegins(s), ~Failing
  PROVE  Brings(s)'
<1>1. PICK d \in Prepared : UpdateCasesWith(s, d)
  BY DEF ReplaceBegins
<1>2. PICK k \in Nums : \E c \in [1..k -> Cases] : NewTests(d, k, c)
  BY <1>1, PreparedIs
<1>3. PICK c \in [1..k -> Cases] : NewTests(d, k, c)
  BY <1>2
<1>4. req'[s].tmp = d
  BY <1>1 DEF UpdateCasesWith
<1>5. Whole(d, k, c)
  BY <1>3, WrittenIs DEF NewTests
<1>6. base' = Listing
  BY DEF ReplaceBegins
<1>7. ASSUME NEW i \in 1..k, NEW j \in DOMAIN Listing PROVE Listing[j] # c[i]
  <2>1. Fresh(c[i])
    BY <1>3 DEF NewTests
  <2>2. Scan \in SUBSET Nums /\ ListedAs(Listing)
    BY ListingIs DEF Typed, FilesTyped
  <2>3. j \in 1..Cardinality(Scan)
    BY DEF Listing
  <2>4. PICK n \in Scan : Position(Scan, n) = j
    BY <2>2, <2>3, PositionOnto
  <2>5. Listing[j] = input[n] /\ n \in Nums
    BY <2>2, <2>4 DEF ListedAs
  <2> QED
    BY <2>1, <2>5 DEF Fresh
<1>8. d \in Directories
  BY <1>5 DEF Whole
<1> QED
  BY <1>4, <1>5, <1>6, <1>7, <1>8 DEF Brings

LEMMA NextTidy ==
  ASSUME Typed, Turns, Sweep, Tidy, [Next]_vars
  PROVE  Tidy'
<1> SUFFICES ASSUME Undamaged' PROVE Tidy'
  BY DEF Tidy
<1>0. /\ Undamaged /\ Orderly /\ ~Failing /\ ~crossed
      /\ \A D : Began(D) => Quiet
  <2>1. Undamaged /\ Orderly /\ ~Failing /\ \A D : Began(D) => Quiet
    BY UndamagedBefore
  <2> QED
    BY <2>1 DEF Undamaged
<1>1. ASSUME NEW s \in Staff, Add(s) PROVE Tidy'
  <2>1. CASE req[s].pc \in AddPcs
    <3>1. Editing(s) /\ Sole(s) /\ Half(s)
      BY <1>0, <2>1, KindsOfPc DEF Editing, Turns, Tidy
    <3>2. /\ Aside(s) /\ \A t \in Staff \ {s} : ~Editing(t)
          /\ req'[s].pc \in AddPcs \cup {"idle"}
      BY <1>1, <2>1, <3>1, AddIs, AsideIs DEF Sole, AddPcs
    <3>3. /\ req'[s].pc \in AddPcs => Half(s)'
          /\ req'[s].pc = "idle" => \A n \in Nums : Paired(n)'
      BY <1>0, <1>1, <2>1, <3>1, AddTidies
    <3> QED
      BY <3>2, <3>3, KindsOfPc, TidyBeside DEF Editing
  <2>2. CASE req[s].pc = "idle"
    <3>1. PICK S \in SUBSET Nums, c \in Cases, pointed \in BOOLEAN : AddScan(s, S, c, pointed)
      BY <1>1, <2>2 DEF Add, AddOpenIn, AddFillIn, AddOpenOut, AddFillOut, AddScore, At
    <3>2. /\ Others(s) /\ req'[s].pc = "openIn" /\ req'[s].num = NextNum(Scan)
          /\ NextNum(Scan) \in Nums
          /\ Quiet /\ input' = input /\ answer' = answer
      <4>1. /\ Others(s) /\ req'[s].pc = "openIn" /\ req'[s].num = NextNum(S)
            /\ NextNum(S) \in Nums /\ Began({}) /\ Scanning(S)
            /\ input' = input /\ answer' = answer
        BY <3>1, AddScanDoes
      <4>2. S = Scan /\ Quiet
        BY <1>0, <4>1 DEF Scanning
      <4> QED
        BY <4>1, <4>2
    <3>3. \A n \in Nums : Paired(n)'
      BY <1>0, <3>2 DEF Tidy, Paired
    <3>4. input'[req'[s].num] = "absent"
      <4>1. NextNum(Scan) \notin Scan
        BY <3>2, NextNumIs, BoundsAreNumbers DEF Nums, Scan
      <4> QED
        BY <3>2, <4>1 DEF Scan
    <3>5. Half(s)'
      BY <3>2, <3>3, <3>4 DEF Half
    <3> QED
      BY <3>2, <3>3, <3>5, TidyBeside, AsideIs, KindsOfPc DEF Quiet, ReplacePcs
  <2> QED
    BY <1>1, <2>1, <2>2, AddIs
<1>2. ASSUME NEW s \in Staff, Delete(s) PROVE Tidy'
  <2>1. CASE req[s].pc \in DeletePcs
    <3>1. Deleting(s) /\ Editing(s) /\ Sole(s) /\ Half(s) /\ Swept(s)
      BY <1>0, <2>1, KindsOfPc DEF Editing, Turns, Tidy, Sweep
    <3>2. /\ Aside(s) /\ \A t \in Staff \ {s} : ~Editing(t)
          /\ req'[s].pc \in DeletePcs \cup {"idle"}
      BY <1>2, <2>1, <3>1, DeleteIs, AsideIs DEF Sole, DeletePcs
    <3>3. /\ req'[s].pc \in DeletePcs => Half(s)'
          /\ req'[s].pc = "idle" => \A n \in Nums : Paired(n)'
      BY <1>0, <1>2, <2>1, <3>1, DeleteTidies
    <3> QED
      BY <3>2, <3>3, KindsOfPc, TidyBeside DEF Editing
  <2>2. CASE req[s].pc = "idle"
    <3>1. PICK n \in Nums : DeleteFind(s, n)
      BY <1>2, <2>2
      DEF Delete, DeleteIn, DeleteOut, DeleteRescan, RenameIn, RenameOut, DeleteScore, At
    <3>2. /\ Others(s) /\ req'[s].pc = "rmIn"
          /\ Quiet /\ input' = input /\ answer' = answer
      BY <1>0, <3>1, DeleteFindDoes
    <3>3. \A k \in Nums : Paired(k)'
      BY <1>0, <3>2 DEF Tidy, Paired
    <3>4. Half(s)'
      BY <3>2, <3>3 DEF Half
    <3> QED
      BY <3>2, <3>3, <3>4, TidyBeside, AsideIs, KindsOfPc DEF Quiet, ReplacePcs
  <2> QED
    BY <1>2, <2>1, <2>2, DeleteIs
<1>3. ASSUME NEW s \in Staff, ReplaceBegins(s) PROVE Tidy'
  <2>1. /\ req'[s].pc = "backup" /\ Aside(s) /\ input' = input /\ answer' = answer
    BY <1>3 DEF ReplaceBegins
  <2>2. Quiet
    <3>1. crossed' = (crossed \/ ~Quiet)
      BY <1>3 DEF ReplaceBegins
    <3> QED
      BY <3>1 DEF Undamaged
  <2>3. \A n \in Nums : Paired(n)'
    BY <1>0, <2>1, <2>2 DEF Tidy, Paired
  <2>4. Half(s)'
    BY <2>1, <2>3 DEF Half
  <2>5. Replaced(s)'
    BY <1>0, <1>3, <2>1, ReplaceBeginsBrings DEF Replaced
  <2> QED
    BY <2>1, <2>2, <2>3, <2>4, <2>5, TidyBeside DEF Quiet
<1>4. ASSUME NEW s \in Staff, Replace(s) PROVE Tidy'
  <2>1. Replacing(s) /\ Editing(s) /\ Sole(s) /\ Replaced(s) /\ Aside(s)
    BY <1>0, <1>4, ReplaceIs, AsideIs, KindsOfPc DEF Editing, Turns, Tidy
  <2>2. \A n \in Nums : Paired(n)
    <3>1. Half(s) /\ req[s].pc \in ReplacePcs
      BY <1>0, <2>1, KindsOfPc DEF Tidy
    <3> QED
      BY <3>1 DEF Half, Loose, ReplacePcs
  <2>3. /\ \A n \in Nums : Paired(n)'
        /\ Replacing(s)' => Replaced(s)'
    BY <1>0, <1>4, <2>1, <2>2, ReplaceTidies
  <2>4. Editing(s)' => Half(s)'
    <3>1. req'[s].pc \in ReplacePcs \cup {"idle"}
      BY <1>4, ReplaceIs
    <3> QED
      BY <2>3, <3>1, KindsOfPc DEF Half, Editing, ReplacePcs
  <2> QED
    BY <2>1, <2>3, <2>4, TidyBeside DEF Sole
<1>5. CASE EditsStand
  <2>1. Quiet' <=> Quiet
    BY <1>5 DEF EditsStand, Quiet, Editing, Adding, Deleting, Replacing
  <2>2. /\ input' = input /\ answer' = answer /\ score' = score /\ base' = base
        /\ \A n : Paired(n)' <=> Paired(n)
    BY <1>5 DEF EditsStand, DirectoryFrame, Paired
  <2>3. ASSUME NEW t \in Staff, Editing(t)' PROVE Half(t)' /\ (Replacing(t)' => Replaced(t)')
    <3>1. Editing(t)
      BY <1>5, <2>3 DEF EditsStand, Editing, Adding, Deleting, Replacing
    <3>2. req'[t] = req[t]
      BY <1>5, <3>1 DEF EditsStand
    <3>3. Half(t) /\ (Replacing(t) => Replaced(t))
      BY <1>0, <3>1 DEF Tidy
    <3>4. Half(t)'
      BY <2>2, <3>2, <3>3 DEF Half, Loose, MovesNext
    <3>5. Replacing(t)' => Replaced(t)'
      BY <2>2, <3>2, <3>3 DEF Replaced, Replacing, Brings, Holds
    <3> QED
      BY <3>4, <3>5
  <2> QED
    BY <1>0, <2>1, <2>2, <2>3 DEF Tidy, Editing
<1>6. ~Crash
  BY CrashDoes, BoundsAreNumbers DEF Undamaged
<1> QED
  BY <1>1, <1>2, <1>3, <1>4, <1>5, <1>6, StepIs

LEMMA TidyPairs ==
  ASSUME Typed, Tidy
  PROVE  PairsNeverMixed
<1> SUFFICES ASSUME Undamaged, NEW n \in Nums, input[n] \in Cases, answer[n] \in Cases
             PROVE  input[n] = answer[n]
  BY DEF PairsNeverMixed
<1>1. CASE Quiet
  BY <1>1 DEF Tidy, Paired
<1>2. CASE ~Quiet
  <2>1. PICK s \in Staff : Editing(s)
    BY <1>2 DEF Quiet
  <2>2. Half(s) /\ req[s].pc \in AddPcs \cup DeletePcs \cup ReplacePcs
    BY <2>1, KindsOfPc DEF Tidy, Editing
  <2>3. CASE n \notin Loose(s)
    BY <2>2, <2>3 DEF Half, Paired
  <2>4. CASE n \in Loose(s)
    BY <2>2, <2>4, CasesAreNot DEF Half, Loose
  <2> QED
    BY <2>3, <2>4
<1> QED
  BY <1>1, <1>2

LEMMA TidyAlways == Spec => [](Typed /\ Turns /\ Sweep /\ Tidy)
<1>1. Init => Typed /\ Turns /\ Sweep /\ Tidy
  BY InitTyped, InitTurns, InitSweep, InitTidy
<1>2. Typed /\ Turns /\ Sweep /\ Tidy /\ [Next]_vars => (Typed /\ Turns /\ Sweep /\ Tidy)'
  BY NextTyped, NextTurns, NextSweep, NextTidy
<1> QED
  BY <1>1, <1>2, PTL DEF Spec

\* At every moment of every edit that no other overlaps, no number has the
\* input of one case and the answer of another.
THEOREM PairsAreNeverMixed == Spec => []PairsNeverMixed
<1>1. Typed /\ Tidy => PairsNeverMixed
  BY TidyPairs
<1> QED
  BY <1>1, TidyAlways, PTL
-----------------------------------------------------------------------------
(* How the list of the cases follows the files.                            *)

\* A number written above all others adds a case at the end.
LEMMA ListedAdded ==
  ASSUME input \in [Nums -> Contents], NEW L, ListedAs(L),
         NEW n \in Nums, \A m \in Scan : m < n,
         NEW c \in Contents \ {"absent"}, input' = [input EXCEPT ![n] = c],
         NEW M, M = Append(L, c)
  PROVE  ListedAs(M)' /\ n \in Scan' /\ Position(Scan, n)' = Len(L) + 1
<1>1. Scan \in SUBSET Nums /\ Cardinality(Scan) \in Nat
  BY ListingIs
<1>2. Scan' = Scan \cup {n} /\ n \notin Scan
  BY BoundsAreNumbers DEF Scan, Nums
<1>3. /\ Cardinality(Scan') = Cardinality(Scan) + 1
      /\ \A m \in Scan : Position(Scan', m) = Position(Scan, m)
      /\ Position(Scan', n) = Cardinality(Scan) + 1
  BY <1>1, <1>2, PositionsAdded
<1>4. L \in Seq(Contents) /\ Len(L) = Cardinality(Scan)
  BY DEF ListedAs
<1>5. /\ M \in Seq(Contents) /\ Len(M) = Len(L) + 1 /\ M[Len(L) + 1] = c
      /\ \A i \in 1..Len(L) : M[i] = L[i]
  BY <1>4
<1>6. ASSUME NEW m \in Scan' PROVE M[Position(Scan', m)] = input'[m]
  <2>1. CASE m = n
    BY <1>3, <1>4, <1>5, <2>1
  <2>2. CASE m # n
    <3>1. m \in Scan /\ input'[m] = input[m]
      BY <1>1, <1>2, <2>2
    <3>2. Position(Scan, m) \in 1..Len(L) /\ L[Position(Scan, m)] = input[m]
      BY <1>1, <1>4, <3>1, PositionType DEF ListedAs
    <3> QED
      BY <1>3, <1>5, <3>1, <3>2
  <2> QED
    BY <2>1, <2>2
<1> QED
  BY <1>2, <1>3, <1>4, <1>5, <1>6 DEF ListedAs, Position

\* The last case is written over.
LEMMA ListedRewritten ==
  ASSUME input \in [Nums -> Contents], NEW L \in Seq(Contents), NEW b, ListedAs(Append(L, b)),
         NEW n \in Scan, Position(Scan, n) = Len(L) + 1,
         NEW c \in Contents \ {"absent"}, input' = [input EXCEPT ![n] = c],
         NEW M, M = Append(L, c)
  PROVE  ListedAs(M)' /\ Scan' = Scan
<1>1. Scan \in SUBSET Nums /\ Cardinality(Scan) \in Nat
  BY ListingIs
<1>2. Scan' = Scan
  BY DEF Scan
<1>3. b \in Contents /\ Cardinality(Scan) = Len(L) + 1
  <2>1. Append(L, b) \in Seq(Contents) /\ Len(Append(L, b)) = Cardinality(Scan)
    BY DEF ListedAs
  <2>2. Append(L, b)[Position(Scan, n)] = input[n]
    BY DEF ListedAs
  <2>3. Append(L, b)[Len(L) + 1] = b /\ Len(Append(L, b)) = Len(L) + 1
    OBVIOUS
  <2> QED
    BY <1>1, <2>1, <2>2, <2>3
<1>4. /\ M \in Seq(Contents) /\ Len(M) = Len(L) + 1 /\ M[Len(L) + 1] = c
      /\ \A i \in 1..Len(L) : M[i] = Append(L, b)[i]
  BY <1>3
<1>5. ASSUME NEW m \in Scan PROVE M[Position(Scan, m)] = input'[m]
  <2>1. CASE m = n
    BY <1>1, <1>4, <2>1
  <2>2. CASE m # n
    <3>1. Position(Scan, m) \in 1..(Len(L) + 1) /\ Position(Scan, m) # Len(L) + 1
      BY <1>1, <1>3, <2>2, PositionType, PositionInjective
    <3>2. Position(Scan, m) \in 1..Len(L)
      BY <3>1, LenProperties
    <3> QED
      BY <1>1, <1>4, <2>2, <3>2 DEF ListedAs
  <2> QED
    BY <2>1, <2>2
<1> QED
  BY <1>2, <1>3, <1>4, <1>5 DEF ListedAs

\* A removed file takes its case out of the list.
LEMMA ListedRemoved ==
  ASSUME input \in [Nums -> Contents], NEW L, ListedAs(L),
         NEW n \in Scan, input' = [input EXCEPT ![n] = "absent"],
         NEW i, i = Position(Scan, n),
         NEW M, M = RemoveAt(L, i)
  PROVE  ListedAs(M)' /\ i \in 1..Len(L)
<1>1. Scan \in SUBSET Nums /\ Cardinality(Scan) \in Nat
  BY ListingIs
<1>2. Scan' = Scan \ {n}
  BY <1>1 DEF Scan
<1>3. /\ Cardinality(Scan') = Cardinality(Scan) - 1
      /\ \A m \in Scan : m < n => Position(Scan', m) = Position(Scan, m)
      /\ \A m \in Scan : m > n => Position(Scan', m) = Position(Scan, m) - 1
  BY <1>1, <1>2, PositionsRemoved
<1>4. L \in Seq(Contents) /\ Len(L) = Cardinality(Scan)
  BY DEF ListedAs
<1>5. i \in 1..Len(L)
  BY <1>1, <1>4, PositionType
<1>6. /\ M \in Seq(Contents) /\ Len(M) = Len(L) - 1
      /\ \A j \in 1..(Len(L) - 1) : M[j] = L[IF j < i THEN j ELSE j + 1]
  BY <1>4, <1>5, RemoveAtIs
<1>7. ASSUME NEW m \in Scan' PROVE M[Position(Scan', m)] = input'[m]
  <2>1. m \in Scan /\ m # n /\ m \in Nat /\ n \in Nat
    BY <1>1, <1>2, NumsFinite
  <2>2. /\ L[Position(Scan, m)] = input[m] /\ input'[m] = input[m]
        /\ Position(Scan, m) \in 1..Len(L)
    BY <1>1, <1>4, <2>1, PositionType DEF ListedAs
  <2>3. CASE m < n
    <3>1. Position(Scan, m) < i
      BY <1>1, <2>1, <2>3, PositionMono
    <3>2. Position(Scan, m) \in 1..(Len(L) - 1)
      BY <1>4, <1>5, <2>2, <3>1
    <3> QED
      BY <1>3, <1>6, <2>1, <2>2, <2>3, <3>1, <3>2
  <2>4. CASE m > n
    <3>1. i < Position(Scan, m)
      BY <1>1, <2>1, <2>4, PositionMono
    <3> DEFINE j == Position(Scan, m) - 1
    <3>2. j \in 1..(Len(L) - 1) /\ ~(j < i) /\ j + 1 = Position(Scan, m)
      BY <1>4, <1>5, <2>2, <3>1
    <3>3. M[j] = L[j + 1]
      BY <1>6, <3>2
    <3> QED
      BY <1>3, <2>1, <2>2, <2>4, <3>2, <3>3
  <2> QED
    BY <2>1, <2>3, <2>4
<1> QED
  BY <1>3, <1>4, <1>5, <1>6, <1>7 DEF ListedAs

\* A file that moves into the free place below it keeps its place in the list.
LEMMA ListedMoved ==
  ASSUME input \in [Nums -> Contents], NEW L, ListedAs(L),
         NEW n \in Scan, n - 1 \in Nums, input[n - 1] = "absent",
         input' = Renamed(input, n)
  PROVE  ListedAs(L)'
<1>1. Scan \in SUBSET Nums /\ n - 1 \notin Scan /\ n \in Nums
  BY DEF Scan
<1>2. /\ Scan' = (Scan \ {n}) \cup {n - 1}
      /\ input'[n - 1] = input[n]
      /\ \A m \in Nums \ {n, n - 1} : input'[m] = input[m]
  BY <1>1, ScanMoved
<1>3. /\ Cardinality(Scan') = Cardinality(Scan)
      /\ \A m \in Scan \ {n} : Position(Scan', m) = Position(Scan, m)
      /\ Position(Scan', n - 1) = Position(Scan, n)
  BY <1>1, <1>2, PositionsMoved
<1>4. ASSUME NEW m \in Scan' PROVE L[Position(Scan', m)] = input'[m]
  <2>1. \A k \in Scan : L[Position(Scan, k)] = input[k]
    BY DEF ListedAs
  <2>2. CASE m = n - 1
    BY <1>2, <1>3, <2>1, <2>2
  <2>3. CASE m # n - 1
    <3>1. m \in Scan \ {n} /\ m \in Nums \ {n, n - 1}
      BY <1>1, <1>2, <2>3
    <3> QED
      BY <1>2, <1>3, <2>1, <3>1
  <2> QED
    BY <2>2, <2>3
<1> QED
  BY <1>3, <1>4 DEF ListedAs
-----------------------------------------------------------------------------
(* Tracks: how the files stand to the list the edit began with, as long as *)
(* nothing fails and no edits overlap.                                     *)

Tracked(s) ==
  /\ req[s].pc \in AddPcs => req[s].count = Len(base)
  /\ req[s].pc = "openIn" => ListedAs(base) /\ \A n \in Scan : n < req[s].num
  /\ req[s].pc = "fillIn" => /\ ListedAs(Append(base, "torn"))
                             /\ req[s].num \in Scan
                             /\ Position(Scan, req[s].num) = Len(base) + 1
  /\ req[s].pc \in {"openOut", "fillOut", "addScore"} => ListedAs(Append(base, req[s].case))
  /\ req[s].pc = "rmIn" => /\ ListedAs(base) /\ req[s].num \in Scan
                           /\ aligned => Position(Scan, req[s].num) = req[s].num
  /\ req[s].pc \in {"rmOut", "rescan", "renIn", "renOut", "cutScore"} =>
        \E i \in 1..Len(base) : /\ aligned => i = req[s].num
                                /\ ListedAs(RemoveAt(base, i))

Tracks == Undamaged => \A s \in Staff : Editing(s) => Tracked(s)

LEMMA ListedStill ==
  ASSUME NEW L, ListedAs(L), input' = input
  PROVE  ListedAs(L)' /\ Scan' = Scan
BY DEF ListedAs, Scan, Position

LEMMA InitTracks == Init => Tracks
BY KindsOfPc DEF Init, Tracks, Editing, Idle, AddPcs, DeletePcs, ReplacePcs

LEMMA AddTracks ==
  ASSUME Typed, NEW s \in Staff, Add(s), ~Failing, req[s].pc \in AddPcs, Tracked(s)
  PROVE  req'[s].pc \in AddPcs => Tracked(s)'
<1>0. RequestsTyped /\ input \in [Nums -> Contents] /\ base \in Seq(Contents)
  BY DEF Typed, FilesTyped, HistoryTyped
<1>1. req[s] \in Additions /\ req[s].num \in Nums /\ req[s].case \in Contents \ {"absent"}
  BY <1>0, ReqKinds, CasesAreNot, ContentsTyped DEF Additions
<1>2. ASSUME NEW S \in SUBSET Nums, NEW c \in Cases, NEW pointed \in BOOLEAN
      PROVE  ~AddScan(s, S, c, pointed)
  BY AddScanDoes DEF AddPcs
<1>3. base' = base /\ req[s].count = Len(base)
  BY AddIs DEF EditFrame, AddPcs, Tracked
<1>4. CASE AddOpenIn(s)
  <2>1. /\ req[s].pc = "openIn" /\ req'[s].pc = "fillIn" /\ req'[s].num = req[s].num
        /\ req'[s].count = req[s].count
        /\ input' = [input EXCEPT ![req[s].num] = "torn"]
    BY <1>0, <1>4, AddOpenInDoes DEF AddStep
  <2>2. ListedAs(base) /\ \A n \in Scan : n < req[s].num
    BY <2>1 DEF Tracked
  <2>3. "torn" \in Contents \ {"absent"}
    BY ContentsTyped
  <2>4. PICK L, M, n : L = base /\ M = Append(base, "torn") /\ n = req[s].num
    OBVIOUS
  <2>5. ListedAs(M)' /\ n \in Scan' /\ Position(Scan, n)' = Len(L) + 1
    BY <1>0, <1>1, <2>1, <2>2, <2>3, <2>4, ListedAdded
  <2>6. ListedAs(Append(base, "torn"))' /\ Position(Scan, req[s].num)' = Len(base) + 1
    BY <1>3, <2>1, <2>4, <2>5 DEF ListedAs, Position
  <2> QED
    BY <1>3, <2>1, <2>4, <2>5, <2>6 DEF Tracked
<1>5. CASE AddFillIn(s)
  <2>1. /\ req[s].pc = "fillIn" /\ req'[s].pc = "openOut" /\ req'[s].case = req[s].case
        /\ req'[s].count = req[s].count
        /\ input' = [input EXCEPT ![req[s].num] = req[s].case]
    BY <1>0, <1>5, AddFillInDoes DEF AddStep
  <2>2. /\ ListedAs(Append(base, "torn")) /\ req[s].num \in Scan
        /\ Position(Scan, req[s].num) = Len(base) + 1
    BY <2>1 DEF Tracked
  <2>3. PICK L, M, n, c : /\ L = base /\ M = Append(base, req[s].case)
                          /\ n = req[s].num /\ c = req[s].case
    OBVIOUS
  <2>4. ListedAs(M)'
    BY <1>0, <1>1, <2>1, <2>2, <2>3, ListedRewritten
  <2>5. ListedAs(Append(base, req[s].case))'
    BY <1>3, <2>1, <2>3, <2>4 DEF ListedAs, Position
  <2> QED
    BY <1>3, <2>1, <2>5 DEF Tracked
<1>6. ASSUME input' = input, req'[s].case = req[s].case, req'[s].count = req[s].count,
             req[s].pc \in {"openOut", "fillOut"}, req'[s].pc \in {"fillOut", "addScore"}
      PROVE  Tracked(s)'
  <2>1. PICK M : M = Append(base, req[s].case)
    OBVIOUS
  <2>2. ListedAs(M)'
    BY <1>6, <2>1, ListedStill DEF Tracked
  <2>3. ListedAs(Append(base, req[s].case))'
    BY <1>3, <1>6, <2>1, <2>2 DEF ListedAs, Position
  <2> QED
    BY <1>3, <1>6, <2>3 DEF Tracked
<1>7. CASE AddOpenOut(s)
  BY <1>0, <1>6, <1>7, AddOpenOutDoes DEF AddStep
<1>8. CASE AddFillOut(s)
  BY <1>0, <1>6, <1>8, AddFillOutDoes DEF AddStep
<1>9. CASE AddScore(s)
  BY <1>0, <1>9, AddScoreDoes DEF EndStep, AddPcs
<1> QED
  BY <1>2, <1>4, <1>5, <1>7, <1>8, <1>9 DEF Add

LEMMA DeleteTracks ==
  ASSUME Typed, NEW s \in Staff, Delete(s), ~Failing,
         req[s].pc \in DeletePcs, Swept(s), Tracked(s)
  PROVE  req'[s].pc \in DeletePcs => Tracked(s)'
<1>0. RequestsTyped /\ HistoryTyped /\ input \in [Nums -> Contents] /\ base \in Seq(Contents)
  BY DEF Typed, FilesTyped, HistoryTyped
<1>1. req[s] \in Deletions /\ req[s].num \in Nums
  BY <1>0, ReqKinds DEF Deletions
<1>2. ASSUME NEW n \in Nums PROVE ~DeleteFind(s, n)
  BY DeleteFindDoes DEF DeletePcs
<1>3. base' = base /\ aligned' = aligned
  BY DeleteIs DEF EditFrame, DeletePcs
<1>4. ASSUME NEW i \in 1..Len(base), aligned => i = req[s].num,
             NEW M, M = RemoveAt(base, i), ListedAs(M)',
             req'[s].num = req[s].num,
             req'[s].pc \in {"rmOut", "rescan", "renIn", "renOut", "cutScore"}
      PROVE  Tracked(s)'
  <2>1. ListedAs(RemoveAt(base, i))'
    BY <1>3, <1>4 DEF ListedAs, Position
  <2> QED
    BY <1>3, <1>4, <2>1 DEF Tracked, AddPcs
<1>5. ASSUME req[s].pc \in {"rmOut", "rescan", "renIn", "renOut", "cutScore"}
      PROVE  \E i \in 1..Len(base) : /\ aligned => i = req[s].num
                                     /\ ListedAs(RemoveAt(base, i))
  BY <1>5 DEF Tracked
<1>6. ASSUME req[s].pc \in {"rmOut", "rescan", "renOut"}, input' = input,
             req'[s].num = req[s].num,
             req'[s].pc \in {"rmOut", "rescan", "renIn", "renOut", "cutScore"}
      PROVE  Tracked(s)'
  <2>1. PICK i \in 1..Len(base) : (aligned => i = req[s].num) /\ ListedAs(RemoveAt(base, i))
    BY <1>5, <1>6
  <2>2. PICK M : M = RemoveAt(base, i)
    OBVIOUS
  <2>3. ListedAs(M)'
    BY <1>6, <2>1, <2>2, ListedStill
  <2> QED
    BY <1>4, <1>6, <2>1, <2>2, <2>3
<1>7. CASE DeleteIn(s)
  <2>1. /\ req[s].pc = "rmIn" /\ req'[s].pc = "rmOut" /\ req'[s].num = req[s].num
        /\ input' = [input EXCEPT ![req[s].num] = "absent"]
    BY <1>0, <1>7, DeleteInDoes DEF DeleteStep
  <2>2. /\ ListedAs(base) /\ req[s].num \in Scan
        /\ aligned => Position(Scan, req[s].num) = req[s].num
    BY <2>1 DEF Tracked
  <2>3. PICK L, n, i, M : /\ L = base /\ n = req[s].num /\ i = Position(Scan, n)
                          /\ M = RemoveAt(base, i)
    OBVIOUS
  <2>4. ListedAs(M)' /\ i \in 1..Len(base)
    BY <1>0, <2>1, <2>2, <2>3, ListedRemoved
  <2> QED
    BY <1>4, <2>1, <2>2, <2>3, <2>4
<1>8. CASE DeleteOut(s)
  BY <1>0, <1>6, <1>8, DeleteOutDoes DEF DeleteStep
<1>9. ASSUME NEW S \in SUBSET Nums, DeleteRescan(s, S) PROVE req'[s].pc \in DeletePcs => Tracked(s)'
  BY <1>0, <1>6, <1>9, DeleteRescanDoes DEF DeleteStep, Onward
<1>10. CASE RenameIn(s)
  <2>1. PICK n : n = FirstToMove(req[s].todo)
    OBVIOUS
  <2>2. /\ req[s].pc = "renIn" /\ req'[s].pc = "renOut" /\ req'[s].num = req[s].num
        /\ input' = Renamed(input, n)
    BY <1>0, <1>10, <2>1, RenameInDoes DEF DeleteStep
  <2>3. n \in req[s].todo /\ n \in Nums /\ n - 1 \in Nums
    BY <1>0, <2>1, <2>2, MovingIs
  <2>4. n \in Scan /\ input[n - 1] = "absent"
    BY <1>0, <2>1, <2>2, <2>3 DEF Swept, MovesNext
  <2>5. PICK i \in 1..Len(base) : (aligned => i = req[s].num) /\ ListedAs(RemoveAt(base, i))
    BY <1>5, <2>2
  <2>6. PICK M : M = RemoveAt(base, i)
    OBVIOUS
  <2>7. ListedAs(M)'
    BY <1>0, <2>2, <2>3, <2>4, <2>5, <2>6, ListedMoved
  <2> QED
    BY <1>4, <2>2, <2>5, <2>6, <2>7
<1>11. CASE RenameOut(s)
  <2>1. PICK n : n = FirstToMove(req[s].todo)
    OBVIOUS
  <2>2. /\ req[s].pc = "renOut" /\ req'[s].pc \in {"cutScore", "renIn"}
        /\ req'[s].num = req[s].num /\ input' = input
    BY <1>0, <1>11, <2>1, RenameOutDoes DEF DeleteStep, Onward
  <2> QED
    BY <1>6, <2>2
<1>12. ASSUME NEW S \in SUBSET Nums, DeleteScore(s, S) PROVE req'[s].pc \in DeletePcs => Tracked(s)'
  BY <1>0, <1>12, DeleteScoreDoes DEF EndStep, DeletePcs
<1> QED
  BY <1>2, <1>7, <1>8, <1>9, <1>10, <1>11, <1>12 DEF Delete
\* The start of an edit notes the list as it is.
LEMMA BeganLists ==
  ASSUME Typed, NEW D, Began(D), input' = input
  PROVE  /\ ListedAs(base)' /\ Scan' = Scan /\ base' = Listing
         /\ Listing' = Listing /\ Len(base') = Cardinality(Scan)
<1>1. input \in [Nums -> Contents]
  BY DEF Typed, FilesTyped
<1>2. PICK L : L = Listing
  OBVIOUS
<1>3. ListedAs(L)
  BY <1>1, <1>2, ListingIs
<1>4. ListedAs(L)' /\ Scan' = Scan
  BY <1>3, ListedStill
<1>5. base' = L
  BY <1>2 DEF Began
<1>6. Listing' = Listing
  BY <1>4 DEF Listing, Position
<1> QED
  BY <1>2, <1>3, <1>4, <1>5, <1>6 DEF ListedAs, Position

LEMMA AddBeginsTracked ==
  ASSUME Typed, NEW s \in Staff, NEW S \in SUBSET Nums, NEW c \in Cases,
         NEW pointed \in BOOLEAN, AddScan(s, S, c, pointed), S = Scan
  PROVE  Tracked(s)'
<1>1. /\ req'[s].pc = "openIn" /\ req'[s].num = NextNum(Scan) /\ req'[s].count = Cardinality(Scan)
      /\ Began({}) /\ input' = input
  BY AddScanDoes
<1>2. ListedAs(base)' /\ Scan' = Scan /\ Len(base') = Cardinality(Scan)
  BY <1>1, BeganLists
<1>3. \A n \in Scan' : n < req'[s].num
  BY <1>1, <1>2, NextNumIs DEF Scan
<1> QED
  BY <1>1, <1>2, <1>3 DEF Tracked

LEMMA DeleteBeginsTracked ==
  ASSUME Typed, NEW s \in Staff, NEW n \in Nums, DeleteFind(s, n)
  PROVE  Tracked(s)'
<1> DEFINE D == {input[n]}
<1>1. /\ req'[s].pc = "rmIn" /\ req'[s].num = n /\ n \in Scan
      /\ Began(D) /\ input' = input
  BY DeleteFindDoes
<1>2. ListedAs(base)' /\ Scan' = Scan
  BY <1>1, BeganLists
<1>3. ASSUME aligned' PROVE Position(Scan, n) = n
  <2>1. Scan = 1..Cardinality(Scan)
    BY <1>1, <1>3 DEF Began, Regular
  <2>2. Scan \in SUBSET Nums /\ Cardinality(Scan) \in Nat
    BY ListingIs DEF Typed, FilesTyped
  <2>3. PICK k \in Nat : k = Cardinality(Scan)
    BY <2>2
  <2>4. Scan = 1..k
    BY <2>1, <2>3
  <2> QED
    BY <1>1, <2>2, <2>4, PositionsGapless
<1>4. aligned' => Position(Scan, req[s].num)' = req'[s].num
  BY <1>1, <1>2, <1>3 DEF Position
<1> QED
  BY <1>1, <1>2, <1>4 DEF Tracked, AddPcs

LEMMA NextTracks ==
  ASSUME Typed, Turns, Sweep, Tracks, [Next]_vars
  PROVE  Tracks'
<1> SUFFICES ASSUME Undamaged' PROVE \A s \in Staff : Editing(s)' => Tracked(s)'
  BY DEF Tracks
<1>0. /\ Undamaged /\ Orderly /\ ~Failing /\ ~crossed
      /\ \A D : Began(D) => Quiet
  <2>1. Undamaged /\ Orderly /\ ~Failing /\ \A D : Began(D) => Quiet
    BY UndamagedBefore
  <2> QED
    BY <2>1 DEF Undamaged
<1>1. ASSUME NEW s \in Staff, Others(s), Editing(s)' => Tracked(s)',
             \A t \in Staff \ {s} : ~Editing(t)
      PROVE  \A t \in Staff : Editing(t)' => Tracked(t)'
  BY <1>1 DEF Others, Editing, Adding, Deleting, Replacing
<1>2. ASSUME NEW s \in Staff, Add(s) PROVE \A t \in Staff : Editing(t)' => Tracked(t)'
  <2>1. Others(s)
    BY <1>2, AddIs
  <2>2. CASE req[s].pc \in AddPcs
    <3>1. Editing(s) /\ Sole(s) /\ Tracked(s)
      BY <1>0, <2>2, KindsOfPc DEF Editing, Turns, Tracks
    <3>2. req'[s].pc \in AddPcs \cup {"idle"}
      BY <1>2, <2>2, AddIs DEF AddPcs
    <3>3. req'[s].pc \in AddPcs => Tracked(s)'
      BY <1>0, <1>2, <2>2, <3>1, AddTracks
    <3>4. Editing(s)' => Tracked(s)'
      BY <3>2, <3>3, KindsOfPc DEF Editing
    <3> QED
      BY <1>1, <2>1, <3>1, <3>4 DEF Sole
  <2>3. CASE req[s].pc = "idle"
    <3>1. PICK S \in SUBSET Nums, c \in Cases, pointed \in BOOLEAN : AddScan(s, S, c, pointed)
      BY <1>2, <2>3 DEF Add, AddOpenIn, AddFillIn, AddOpenOut, AddFillOut, AddScore, At
    <3>2. Began({}) /\ Scanning(S)
      BY <3>1, AddScanDoes
    <3>3. Quiet /\ S = Scan
      BY <1>0, <3>2 DEF Scanning
    <3>4. Tracked(s)'
      BY <3>1, <3>3, AddBeginsTracked
    <3> QED
      BY <1>1, <2>1, <3>3, <3>4 DEF Quiet
  <2> QED
    BY <1>2, <2>2, <2>3, AddIs
<1>3. ASSUME NEW s \in Staff, Delete(s) PROVE \A t \in Staff : Editing(t)' => Tracked(t)'
  <2>1. Others(s)
    BY <1>3, DeleteIs
  <2>2. CASE req[s].pc \in DeletePcs
    <3>1. Deleting(s) /\ Editing(s) /\ Sole(s) /\ Tracked(s) /\ Swept(s)
      BY <1>0, <2>2, KindsOfPc DEF Editing, Turns, Tracks, Sweep
    <3>2. req'[s].pc \in DeletePcs \cup {"idle"}
      BY <1>3, <2>2, DeleteIs DEF DeletePcs
    <3>3. req'[s].pc \in DeletePcs => Tracked(s)'
      BY <1>0, <1>3, <2>2, <3>1, DeleteTracks
    <3>4. Editing(s)' => Tracked(s)'
      BY <3>2, <3>3, KindsOfPc DEF Editing
    <3> QED
      BY <1>1, <2>1, <3>1, <3>4 DEF Sole
  <2>3. CASE req[s].pc = "idle"
    <3>1. PICK n \in Nums : DeleteFind(s, n)
      BY <1>3, <2>3
      DEF Delete, DeleteIn, DeleteOut, DeleteRescan, RenameIn, RenameOut, DeleteScore, At
    <3>2. Quiet /\ Tracked(s)'
      BY <1>0, <3>1, DeleteFindDoes, DeleteBeginsTracked
    <3> QED
      BY <1>1, <2>1, <3>2 DEF Quiet
  <2> QED
    BY <1>3, <2>2, <2>3, DeleteIs
<1>4. ASSUME NEW s \in Staff, ReplaceBegins(s) \/ Replace(s),
             NEW t \in Staff, Editing(t)'
      PROVE  Tracked(t)'
  <2>1. \A u \in Staff \ {s} : ~Editing(u)
    <3>1. CASE ReplaceBegins(s)
      <4>1. crossed' = (crossed \/ ~Quiet)
        BY <3>1 DEF ReplaceBegins
      <4> QED
        BY <4>1 DEF Undamaged, Quiet
    <3>2. CASE Replace(s)
      BY <1>0, <3>2, ReplaceIs, KindsOfPc DEF Turns, Editing, Sole
    <3> QED
      BY <1>4, <3>1, <3>2
  <2>2. Aside(s)
    BY <1>4, ReplaceIs, AsideIs DEF ReplaceBegins
  <2>3. t = s
    BY <1>4, <2>1, <2>2 DEF Aside, Editing, Adding, Deleting, Replacing
  <2>4. req'[s].pc \in ReplacePcs \cup {"idle"}
    BY <1>4, ReplaceIs DEF ReplaceBegins, ReplacePcs
  <2> QED
    BY <2>3, <2>4 DEF Tracked, AddPcs, ReplacePcs
<1>5. ASSUME EditsStand, NEW t \in Staff, Editing(t)' PROVE Tracked(t)'
  <2>1. Editing(t) /\ input' = input /\ base' = base /\ aligned' = aligned
    BY <1>5 DEF EditsStand, DirectoryFrame, Editing, Adding, Deleting, Replacing
  <2>2. Tracked(t) /\ req'[t] = req[t]
    BY <1>0, <1>5, <2>1 DEF Tracks, EditsStand
  <2>3. Scan' = Scan
    BY <2>1 DEF Scan
  <2> QED
    BY <2>1, <2>2, <2>3 DEF Tracked, ListedAs, Position
<1>6. ~Crash
  BY CrashDoes, BoundsAreNumbers DEF Undamaged
<1> QED
  BY <1>2, <1>3, <1>4, <1>5, <1>6, StepIs
-----------------------------------------------------------------------------
(* The directory implements the list, edit by edit.                        *)

\* What the last step of an edit makes of the list.
LEMMA AdditionEnds ==
  ASSUME Typed, NEW s \in Staff, req[s].pc = "addScore", Tracked(s), input' = input
  PROVE  Listing = Append(base, req[s].case) /\ Listing' = Listing
<1>1. ListedAs(Append(base, req[s].case))
  BY DEF Tracked
<1>2. Listing' = Listing
  BY DEF Listing, Scan, Position
<1> QED
  BY <1>1, <1>2, ListingIs DEF Typed, FilesTyped

LEMMA DeletionEnds ==
  ASSUME Typed, NEW s \in Staff, req[s].pc = "cutScore", Tracked(s), input' = input
  PROVE  /\ \E i \in 1..Len(base) : (aligned => i = req[s].num) /\ Listing = RemoveAt(base, i)
         /\ Listing' = Listing
<1>1. \E i \in 1..Len(base) : (aligned => i = req[s].num) /\ ListedAs(RemoveAt(base, i))
  BY DEF Tracked
<1>2. Listing' = Listing
  BY DEF Listing, Scan, Position
<1> QED
  BY <1>1, <1>2, ListingIs DEF Typed, FilesTyped

\* A step of an edit is the edit of the list, or none, as the thread is done.
LEMMA AddOnList ==
  ASSUME Typed, NEW s \in Staff, Add(s), \A D : Began(D) => Quiet,
         Editing(s) => Sole(s) /\ Tracked(s)
  PROVE  \/ ListNow' = ListNow /\ (score' = score \/ Failing)
         \/ /\ AddScore(s) /\ req[s] \in Additions
            /\ ListNow = base /\ ListNow' = Append(base, req[s].case)
<1>0. RequestsTyped
  BY DEF Typed
<1>1. CASE req[s].pc = "idle"
  <2>1. PICK S \in SUBSET Nums, c \in Cases, pointed \in BOOLEAN : AddScan(s, S, c, pointed)
    BY <1>1 DEF Add, AddOpenIn, AddFillIn, AddOpenOut, AddFillOut, AddScore, At
  <2>2. Quiet /\ Began({}) /\ input' = input /\ score' = score /\ req'[s].pc = "openIn"
    BY <2>1, AddScanDoes
  <2>3. base' = Listing /\ ~Quiet'
    BY <2>2, BeganLists, KindsOfPc DEF Quiet, Editing, AddPcs
  <2> QED
    BY <2>2, <2>3 DEF ListNow
<1>2. CASE req[s].pc \in AddPcs
  <2>1. /\ Editing(s) /\ Sole(s) /\ Tracked(s) /\ ~Quiet /\ Others(s) /\ base' = base
        /\ req[s] \in Additions
    BY <1>2, AddIs, KindsOfPc DEF Editing, Quiet, EditFrame, AddPcs
  <2>2. CASE req'[s].pc \in AddPcs
    <3>1. ~Quiet'
      BY <2>2, KindsOfPc DEF Quiet, Editing
    <3>2. score' = score
      BY <1>0, <1>2, <2>2, AddScoreDoes, AddScanDoes
      DEF Add, AddOpenIn, AddFillIn, AddOpenOut, AddFillOut, AddPcs, EndStep, AddScan, files
    <3> QED
      BY <2>1, <3>1, <3>2 DEF ListNow
  <2>3. CASE req'[s].pc = "idle"
    <3>1. AddScore(s)
      BY <1>0, <1>2, <2>3, AddScanDoes, AddOpenInDoes, AddFillInDoes, AddOpenOutDoes,
         AddFillOutDoes DEF Add, AddStep, AddPcs
    <3>2. Quiet'
      BY <2>1, <2>3, KindsOfPc DEF Others, Sole, Quiet, Editing, Adding, Deleting, Replacing
    <3>3. Listing = Append(base, req[s].case) /\ Listing' = Listing
      BY <1>0, <2>1, <3>1, AddScoreDoes, AdditionEnds
    <3> QED
      BY <2>1, <3>1, <3>2, <3>3 DEF ListNow
  <2> QED
    BY <1>2, <2>2, <2>3, AddIs DEF AddPcs
<1> QED
  BY <1>1, <1>2, AddIs

LEMMA DeleteOnList ==
  ASSUME Typed, NEW s \in Staff, Delete(s), \A D : Began(D) => Quiet,
         Editing(s) => Sole(s) /\ Tracked(s)
  PROVE  \/ ListNow' = ListNow /\ score' = score
         \/ /\ (\E S \in SUBSET Nums : DeleteScore(s, S)) /\ req[s] \in Deletions
            /\ ListNow = base /\ Listing' = Listing /\ ListNow' = Listing
            /\ \E i \in 1..Len(base) : (aligned => i = req[s].num) /\ Listing = RemoveAt(base, i)
<1>0. RequestsTyped /\ HistoryTyped
  BY DEF Typed
<1>1. CASE req[s].pc = "idle"
  <2>1. PICK n \in Nums : DeleteFind(s, n)
    BY <1>1 DEF Delete, DeleteIn, DeleteOut, DeleteRescan, RenameIn, RenameOut, DeleteScore, At
  <2> DEFINE D == {input[n]}
  <2>2. Quiet /\ Began(D) /\ input' = input /\ score' = score /\ req'[s].pc = "rmIn"
    BY <2>1, DeleteFindDoes
  <2>3. base' = Listing /\ ~Quiet'
    BY <2>2, BeganLists, KindsOfPc DEF Quiet, Editing, DeletePcs
  <2> QED
    BY <2>2, <2>3 DEF ListNow
<1>2. CASE req[s].pc \in DeletePcs
  <2>1. /\ Editing(s) /\ Sole(s) /\ Tracked(s) /\ ~Quiet /\ Others(s) /\ base' = base
        /\ req[s] \in Deletions
    BY <1>2, DeleteIs, KindsOfPc DEF Editing, Quiet, EditFrame, DeletePcs
  <2>2. CASE req'[s].pc \in DeletePcs
    <3>1. ~Quiet'
      BY <2>2, KindsOfPc DEF Quiet, Editing
    <3>2. score' = score
      <4>1. \A S \in SUBSET Nums : ~DeleteScore(s, S)
        BY <1>0, <2>2, DeleteScoreDoes DEF DeletePcs, EndStep
      <4>2. \A n \in Nums : ~DeleteFind(s, n)
        BY <1>2, DeleteFindDoes DEF DeletePcs
      <4>3. \A S \in SUBSET Nums : DeleteRescan(s, S) => score' = score
        BY DEF DeleteRescan, files
      <4> QED
        BY <4>1, <4>2, <4>3 DEF Delete, DeleteIn, DeleteOut, RenameIn, RenameOut
    <3> QED
      BY <2>1, <3>1, <3>2 DEF ListNow
  <2>3. CASE req'[s].pc = "idle"
    <3>1. PICK S \in SUBSET Nums : DeleteScore(s, S)
      <4>1. \A n \in Nums : ~DeleteFind(s, n)
        BY <1>2, DeleteFindDoes DEF DeletePcs
      <4>2. ASSUME NEW S \in SUBSET Nums, DeleteRescan(s, S) PROVE FALSE
        <5>1. req'[s].pc \in {"cutScore", "renIn"}
          BY <1>0, <4>2, DeleteRescanDoes DEF DeleteStep, Onward
        <5> QED
          BY <2>3, <5>1
      <4>3. ~DeleteIn(s) /\ ~DeleteOut(s)
        BY <1>0, <2>3, DeleteInDoes, DeleteOutDoes DEF DeleteStep
      <4>4. ~RenameIn(s) /\ ~RenameOut(s)
        BY <1>0, <2>3, RenameInDoes, RenameOutDoes DEF DeleteStep, Onward
      <4> QED
        BY <4>1, <4>2, <4>3, <4>4 DEF Delete
    <3>2. Quiet'
      BY <2>1, <2>3, KindsOfPc DEF Others, Sole, Quiet, Editing, Adding, Deleting, Replacing
    <3>3. /\ \E i \in 1..Len(base) : (aligned => i = req[s].num) /\ Listing = RemoveAt(base, i)
          /\ Listing' = Listing
      BY <1>0, <2>1, <3>1, DeleteScoreDoes, DeletionEnds
    <3> QED
      BY <2>1, <3>1, <3>2, <3>3 DEF ListNow
  <2> QED
    BY <1>2, <2>2, <2>3, DeleteIs DEF DeletePcs
<1> QED
  BY <1>1, <1>2, DeleteIs

LEMMA StillOnList ==
  ASSUME EditsStand
  PROVE  ListNow' = ListNow /\ (Quiet' <=> Quiet)
<1>1. input' = input /\ base' = base
  BY DEF EditsStand, DirectoryFrame
<1>2. Quiet' <=> Quiet
  BY DEF EditsStand, Quiet, Editing, Adding, Deleting, Replacing
<1>3. Listing' = Listing
  BY <1>1 DEF Listing, Scan, Position
<1> QED
  BY <1>1, <1>2, <1>3 DEF ListNow

\* The whole cases of a new directory are the list.
LEMMA WholeIsListed ==
  ASSUME Typed, NEW d \in Directories, Holds(d),
         NEW k \in Nums, NEW c \in [1..k -> Cases], Whole(d, k, c)
  PROVE  Listing = c /\ Scan = 1..k /\ Cardinality(Scan) = k /\ k \in Nat
<1>1. k \in Nat /\ 1..k \subseteq Nums
  BY BoundsAreNumbers DEF Nums
<1>2. \A n \in Nums : input[n] = IF n \in 1..k THEN c[n] ELSE "absent"
  BY DEF Holds, Whole
<1>3. \A n \in 1..k : c[n] \in Cases /\ c[n] # "absent"
  BY CasesAreNot
<1>4. Scan = 1..k
  BY <1>1, <1>2, <1>3 DEF Scan
<1>5. Cardinality(1..k) = k
  BY <1>1, FS_Interval
<1>6. c \in Seq(Contents) /\ Len(c) = k
  <2>1. c \in [1..k -> Contents]
    BY ContentsTyped
  <2> QED
    BY <1>1, <2>1
<1>7. \A n \in Scan : Position(Scan, n) = n
  BY <1>1, <1>4, PositionsGapless
<1>8. ListedAs(c)
  BY <1>1, <1>2, <1>4, <1>5, <1>6, <1>7 DEF ListedAs
<1> QED
  BY <1>1, <1>4, <1>5, <1>8, ListingIs DEF Typed, FilesTyped

\* A replacement is one step of the list, its last.
LEMMA ReplaceOnList ==
  ASSUME Typed, NEW s \in Staff, Replace(s), ~Failing, Sole(s), Replaced(s)
  PROVE  \/ ListNow' = ListNow
         \/ /\ ListNow = base /\ Listing' = Listing /\ ListNow' = Listing
            /\ Listing \in Seq(Cases) \ {<<>>}
            /\ \A i \in DOMAIN Listing : \A j \in DOMAIN base : Listing[i] # base[j]
<1>1. /\ Others(s) /\ Editing(s) /\ ~Quiet /\ base' = base /\ req[s].pc \in ReplacePcs
      /\ req'[s].pc \in ReplacePcs \cup {"idle"}
  BY ReplaceIs, KindsOfPc DEF Editing, Quiet, ReplaceFrame
<1>2. CASE req'[s].pc \in ReplacePcs
  <2>1. ~Quiet'
    BY <1>2, KindsOfPc DEF Quiet, Editing
  <2> QED
    BY <1>1, <2>1 DEF ListNow
<1>3. CASE req'[s].pc = "idle"
  <2>1. DropBackup(s)
    BY <1>3, BackupDoes, SwapDoes, RestoreDoes DEF Replace, Replaced, ReplaceStep
  <2>2. req[s].pc = "dropBak" /\ input' = input
    BY <2>1, DropBackupDoes
  <2>3. Quiet'
    BY <1>1, <1>3, KindsOfPc DEF Others, Sole, Quiet, Editing, Adding, Deleting, Replacing
  <2>4. PICK d \in Directories, k \in Nums : \E c \in [1..k -> Cases] :
          /\ req[s].tmp = d /\ Whole(d, k, c)
          /\ \A i \in 1..k : \A j \in DOMAIN base : base[j] # c[i]
    BY DEF Replaced, Brings
  <2>5. PICK c \in [1..k -> Cases] :
          /\ req[s].tmp = d /\ Whole(d, k, c)
          /\ \A i \in 1..k : \A j \in DOMAIN base : base[j] # c[i]
    BY <2>4
  <2>6. Holds(d)
    BY <2>2, <2>5 DEF Replaced
  <2>7. Listing = c /\ k \in Nat
    BY <2>5, <2>6, WholeIsListed
  <2>8. Listing \in Seq(Cases) /\ Listing # <<>> /\ DOMAIN Listing = 1..k
    <3>1. c \in Seq(Cases) /\ Len(c) = k
      BY <2>7
    <3>2. k >= 1
      BY BoundsAreNumbers DEF Nums
    <3>3. c # <<>>
      BY <3>1, <3>2
    <3> QED
      BY <2>7, <3>1, <3>3
  <2>9. Listing' = Listing
    BY <2>2 DEF Listing, Scan, Position
  <2>10. \A i \in DOMAIN Listing : \A j \in DOMAIN base : Listing[i] # base[j]
    BY <2>5, <2>7, <2>8
  <2> QED
    BY <1>1, <2>3, <2>8, <2>9, <2>10 DEF ListNow
<1> QED
  BY <1>1, <1>2, <1>3

LEMMA ListSteps ==
  ASSUME Typed, Turns, Sweep, Tidy, Tracks, [Next]_vars, Undamaged, Undamaged'
  PROVE  [CL!Next]_ListNow
<1>0. ~crossed /\ ~Failing /\ \A D : Began(D) => Quiet
  BY UndamagedBefore DEF Undamaged
<1>1. \A s \in Staff : Editing(s) => Sole(s) /\ Tracked(s)
  BY <1>0 DEF Turns, Tracks
<1>2. ASSUME NEW s \in Staff, Add(s) PROVE [CL!Next]_ListNow
  <2>1. \/ ListNow' = ListNow
        \/ req[s] \in Additions /\ ListNow = base /\ ListNow' = Append(base, req[s].case)
    BY <1>0, <1>1, <1>2, AddOnList
  <2>2. CASE ListNow' = ListNow
    BY <2>2
  <2>3. CASE req[s] \in Additions /\ ListNow = base /\ ListNow' = Append(base, req[s].case)
    <3>1. req[s].case \in Cases /\ ListNow' = Append(ListNow, req[s].case)
      BY <2>3 DEF Additions
    <3> QED
      BY <3>1 DEF CL!Next, CL!AddCase
  <2> QED
    BY <2>1, <2>2, <2>3
<1>3. ASSUME NEW s \in Staff, Delete(s) PROVE [CL!Next]_ListNow
  <2>1. CASE ListNow' = ListNow
    BY <2>1
  <2>2. CASE ListNow' # ListNow
    <3>1. PICK i \in 1..Len(base) : ListNow = base /\ ListNow' = RemoveAt(base, i)
      BY <1>0, <1>1, <1>3, <2>2, DeleteOnList
    <3>2. i \in DOMAIN ListNow
      BY <3>1, LenProperties DEF Typed, HistoryTyped
    <3> QED
      BY <3>1, <3>2 DEF CL!Next, CL!DeleteCase, CL!RemoveAt, RemoveAt
  <2> QED
    BY <2>1, <2>2
<1>4. ASSUME NEW s \in Staff, ReplaceBegins(s) PROVE [CL!Next]_ListNow
  <2>1. /\ crossed' = (crossed \/ ~Quiet) /\ base' = Listing /\ req'[s].pc = "backup"
    BY <1>4 DEF ReplaceBegins
  <2>2. Quiet /\ ~Quiet'
    BY <2>1, KindsOfPc DEF Undamaged, Quiet, Editing, ReplacePcs
  <2>3. ListNow' = ListNow
    BY <2>1, <2>2 DEF ListNow
  <2> QED
    BY <2>3
<1>5. ASSUME NEW s \in Staff, Replace(s) PROVE [CL!Next]_ListNow
  <2>1. Sole(s) /\ Replaced(s)
    BY <1>0, <1>5, ReplaceIs, KindsOfPc DEF Turns, Editing, Tidy
  <2>2. CASE ListNow' = ListNow
    BY <2>2
  <2>3. CASE ListNow' # ListNow
    <3>1. /\ ListNow = base /\ ListNow' = Listing
          /\ Listing \in Seq(Cases) \ {<<>>}
          /\ \A i \in DOMAIN Listing : \A j \in DOMAIN base : Listing[i] # base[j]
      BY <1>0, <1>5, <2>1, <2>3, ReplaceOnList
    <3> QED
      BY <3>1 DEF CL!Next, CL!ReplaceCases, CL!Range, Range
  <2> QED
    BY <2>2, <2>3
<1>6. CASE EditsStand
  BY <1>6, StillOnList
<1>7. ~Crash
  BY CrashDoes, BoundsAreNumbers DEF Undamaged
<1> QED
  BY <1>2, <1>3, <1>4, <1>5, <1>6, <1>7, StepIs

LEMMA TracksAlways == Spec => [](Typed /\ Turns /\ Sweep /\ Tidy /\ Tracks)
<1>1. Init => Tracks
  BY InitTracks
<1>2. Typed /\ Turns /\ Sweep /\ Tidy /\ Tracks /\ [Next]_vars => Tracks'
  BY NextTracks
<1> QED
  BY <1>1, <1>2, TidyAlways, PTL DEF Spec

\* Every addition is one step that appends its case to the list of the cases,
\* every deletion one that takes its case out, every replacement one that puts
\* new cases in the place of all, and the steps in between change nothing of
\* it, whatever numbers the files have: the directory implements the list, as
\* long as nothing fails and no edits overlap.
THEOREM EditsImplementList == Spec => EditsAreListSteps
<1>1. Typed /\ Turns /\ Sweep /\ Tidy /\ Tracks /\ [Next]_vars =>
        [Undamaged /\ Undamaged' => [CL!Next]_ListNow]_vars
  BY ListSteps
<1> QED
  BY <1>1, TracksAlways, PTL DEF Spec, EditsAreListSteps
-----------------------------------------------------------------------------
(* Scored: the lines of the score file keep to the list, if no edit began  *)
(* on numbers with a gap between them or a line to spare.  While an edit   *)
(* by number is under way no line is beyond its list.                      *)

Fits(L) == /\ \A i \in 1..Len(score.lines) : i <= Len(L) => score.lines[i] \in {L[i], "zero"}
           /\ ~score.file => score.lines = <<>>

Scored ==
  Undamaged /\ aligned =>
    /\ (\A s \in Staff : req[s].pc \notin {"swap", "dropBak"}) => Fits(ListNow)
    /\ \A s \in Staff : Adding(s) \/ Deleting(s) => Len(score.lines) <= Len(base)

LEMMA InitScored ==
  ASSUME Init
  PROVE  Scored
<1>1. ListNow = Listing /\ \A s \in Staff : ~Adding(s) /\ ~Deleting(s)
  <2>1. \A s \in Staff : req[s].pc = "idle"
    BY DEF Init, Idle
  <2> QED
    BY <2>1, KindsOfPc DEF ListNow, Quiet, Editing
<1>2. PICK k \in 0..MaxNum : score = NoScores \/ score = [file |-> TRUE, lines |-> ImportedLines(k)]
  BY BoundsAreNumbers DEF Init, Imported
<1>3. CASE score = NoScores
  BY <1>1, <1>3, EmptySeq DEF Scored, Fits, NoScores
<1>4. CASE score = [file |-> TRUE, lines |-> ImportedLines(k)]
  <2>1. score.file = TRUE /\ score.lines = ImportedLines(k)
    BY <1>4
  <2>2. Len(Listing) = Cardinality(Scan)
    BY ListingIs DEF Init, Imported, Contents, ListedAs
  <2> QED
    BY <1>1, <2>1, <2>2, ImportedLinesIs DEF Scored, Fits
<1> QED
  BY <1>2, <1>3, <1>4

\* An addition ends: its line, or a line without points, comes last.
LEMMA AddFits ==
  ASSUME Typed, NEW s \in Staff, AddScore(s), ~Failing, Tracked(s), Fits(base),
         Len(score.lines) <= Len(base),
         NEW M, M = Append(base, req[s].case)
  PROVE  Fits(M)'
<1>0. RequestsTyped /\ base \in Seq(Contents) /\ score.lines \in Seq(Lines)
  BY DEF Typed, FilesTyped, HistoryTyped
<1>1. /\ req[s].pc = "addScore" /\ req[s] \in Additions
      /\ \/ /\ score' = [file |-> TRUE, lines |-> NewLines(s)]
         \/ ~score.file /\ score' = score
  BY <1>0, AddScoreDoes
<1>2. /\ req[s].count = Len(base) /\ req[s].count \in Nat
      /\ req[s].case \in Cases /\ req[s].case \in Contents
  BY <1>0, <1>1, LenProperties, ContentsTyped DEF Tracked, AddPcs, Additions
<1>3. PICK k \in Nat : k = req[s].count
  BY <1>2
<1>4. PICK l \in Lines : l = IF req[s].pointed THEN req[s].case ELSE "zero"
  BY <1>2, ContentsTyped
<1>5. /\ Len(M) = k + 1 /\ M[k + 1] = req[s].case
      /\ \A i \in 1..k : M[i] = base[i]
  BY <1>0, <1>2, <1>3
<1>6. CASE score' = [file |-> TRUE, lines |-> NewLines(s)]
  <2>1. PICK new : new = NewLines(s)
    OBVIOUS
  <2>2. new = Append(Resized(score.lines, k), l)
    BY <1>3, <1>4, <2>1 DEF NewLines
  <2>3. /\ Len(new) = k + 1 /\ new[k + 1] = l
        /\ \A i \in 1..k : new[i] = IF i <= Len(score.lines) THEN score.lines[i] ELSE "zero"
    BY <1>0, <2>2, LineAdded
  <2>4. ASSUME NEW i \in 1..k PROVE new[i] \in {M[i], "zero"}
    <3>1. Len(base) = k /\ Len(score.lines) \in Nat
      BY <1>0, <1>2, <1>3, LenProperties
    <3>2. CASE i <= Len(score.lines)
      <4>1. i \in 1..Len(score.lines) /\ i <= Len(base)
        BY <3>1, <3>2
      <4>2. score.lines[i] \in {base[i], "zero"}
        BY <4>1 DEF Fits
      <4> QED
        BY <1>5, <2>3, <3>2, <4>2
    <3>3. CASE ~(i <= Len(score.lines))
      BY <2>3, <3>3
    <3> QED
      BY <3>2, <3>3
  <2>5. ASSUME NEW i \in 1..(k + 1) PROVE new[i] \in {M[i], "zero"}
    <3>1. i \in 1..k \/ i = k + 1
      OBVIOUS
    <3> QED
      BY <1>4, <1>5, <2>3, <2>4, <3>1
  <2>6. score'.file = TRUE /\ score'.lines = new
    BY <1>6, <2>1
  <2> QED
    BY <1>5, <2>3, <2>5, <2>6 DEF Fits
<1>7. CASE ~score.file /\ score' = score
  <2>1. score'.lines = <<>> /\ Len(<<>>) = 0
    BY <1>7, EmptySeq DEF Fits
  <2> QED
    BY <1>7, <2>1 DEF Fits
<1> QED
  BY <1>1, <1>6, <1>7

\* A deletion ends: the line at the number of the case is the case's.
LEMMA DeleteFits ==
  ASSUME Typed, NEW s \in Staff, NEW S \in SUBSET Nums, DeleteScore(s, S), ~Failing, Fits(base),
         Len(score.lines) <= Len(base),
         NEW i \in 1..Len(base), i = req[s].num, Listing = RemoveAt(base, i),
         NEW M, M = Listing
  PROVE  Fits(M)'
<1>0. /\ RequestsTyped /\ base \in Seq(Contents) /\ score.lines \in Seq(Lines)
      /\ input \in [Nums -> Contents]
  BY DEF Typed, FilesTyped, HistoryTyped
<1>1. \/ /\ score.file
         /\ score' = [file |-> LinesLeft(s, Scan) # <<>>, lines |-> LinesLeft(s, Scan)]
      \/ ~score.file /\ score' = score
  BY <1>0, DeleteScoreDoes
<1>2. Len(base) \in Nat /\ i \in Nat \ {0} /\ Len(score.lines) \in Nat
  BY <1>0, LenProperties
<1>3. PICK k \in Nat : k = Cardinality(Scan)
  BY <1>0, ListingIs
<1>4. Len(M) = k
  BY <1>0, <1>3, ListingIs DEF ListedAs
<1>5. k = Len(base) - 1 /\ \A j \in 1..k : M[j] = base[IF j < i THEN j ELSE j + 1]
  <2>1. PICK L \in Seq(Contents) : L = base
    BY <1>0
  <2>2. i \in 1..Len(L)
    BY <2>1
  <2>3. /\ Len(RemoveAt(L, i)) = Len(L) - 1
        /\ \A j \in 1..(Len(L) - 1) : RemoveAt(L, i)[j] = L[IF j < i THEN j ELSE j + 1]
    BY <2>2, RemoveAtIs
  <2> QED
    BY <1>4, <2>1, <2>3
<1>6. CASE score.file /\ score' = [file |-> LinesLeft(s, Scan) # <<>>, lines |-> LinesLeft(s, Scan)]
  <2>1. PICK new : new = LinesLeft(s, Scan)
    OBVIOUS
  <2>2. new = CutLines(score.lines, i, k)
    BY <1>3, <2>1 DEF LinesLeft
  <2>3. PICK old \in Seq(Lines) : old = score.lines
    BY <1>0
  <2>4. /\ Len(new) = k
        /\ \A j \in 1..k : new[j] = IF Left(old, i, j) <= Len(old) THEN old[Left(old, i, j)] ELSE "zero"
    <3>1. /\ Len(CutLines(old, i, k)) = k
          /\ \A j \in 1..k : CutLines(old, i, k)[j] =
                IF Left(old, i, j) <= Len(old) THEN old[Left(old, i, j)] ELSE "zero"
      BY <1>2, LineCut
    <3> QED
      BY <2>2, <2>3, <3>1
  <2>5. ASSUME NEW j \in 1..k PROVE new[j] \in {M[j], "zero"}
    <3>1. PICK h : h = Left(old, i, j)
      OBVIOUS
    <3>2. new[j] = IF h <= Len(old) THEN old[h] ELSE "zero"
      BY <2>4, <3>1
    <3>3. ASSUME h <= Len(old)
          PROVE  h \in 1..Len(old) /\ h <= Len(base) /\ h = IF j < i THEN j ELSE j + 1
      BY <1>2, <1>5, <2>3, <3>1, <3>3 DEF Left
    <3>4. ASSUME h <= Len(old) PROVE old[h] \in {base[h], "zero"} /\ M[j] = base[h]
      <4>1. h \in 1..Len(old) /\ h <= Len(base) /\ h = IF j < i THEN j ELSE j + 1
        BY <3>3, <3>4
      <4>2. M[j] = base[h]
        BY <1>5, <4>1
      <4> QED
        BY <2>3, <4>1, <4>2 DEF Fits
    <3> QED
      BY <3>2, <3>4
  <2>6. (score'.file <=> new # <<>>) /\ score'.lines = new
    BY <1>6, <2>1
  <2> QED
    BY <1>4, <2>4, <2>5, <2>6 DEF Fits
<1>7. CASE ~score.file /\ score' = score
  <2>1. score'.lines = <<>> /\ Len(<<>>) = 0
    BY <1>7, EmptySeq DEF Fits
  <2> QED
    BY <1>7, <2>1 DEF Fits
<1> QED
  BY <1>1, <1>6, <1>7

\* A replacement ends with the points of its own cases.
LEMMA ReplaceFits ==
  ASSUME Typed, NEW s \in Staff, DropBackup(s), Sole(s), Replaced(s)
  PROVE  Fits(ListNow)'
<1>1. /\ req[s].pc = "dropBak" /\ Others(s) /\ req'[s].pc = "idle"
      /\ UNCHANGED <<input, answer, score>>
  BY DropBackupDoes DEF EndStep
<1>2. Quiet'
  BY <1>1, KindsOfPc DEF Others, Sole, Quiet, Editing, Adding, Deleting, Replacing
<1>3. PICK d \in Directories, k \in Nums : \E c \in [1..k -> Cases] :
        req[s].tmp = d /\ Whole(d, k, c)
  BY DEF Replaced, Brings
<1>4. PICK c \in [1..k -> Cases] : req[s].tmp = d /\ Whole(d, k, c)
  BY <1>3
<1>5. Holds(d)
  BY <1>1, <1>4 DEF Replaced
<1>6. Listing = c
  BY <1>4, <1>5, WholeIsListed
<1>7. Listing' = Listing
  BY <1>1 DEF Listing, Scan, Position
<1>8. /\ score = d.score /\ score'.lines = d.score.lines
      /\ score'.file = d.score.file
  BY <1>1, <1>5 DEF Holds
<1>9. \A n \in DOMAIN d.score.lines : d.score.lines[n] \in {c[n], "zero"}
  BY <1>4 DEF Whole
<1>10. DOMAIN d.score.lines = 1..Len(d.score.lines)
  BY LenProperties DEF Directories, ScoreFiles
<1>11. ListNow' = c
  BY <1>2, <1>6, <1>7 DEF ListNow
<1> QED
  BY <1>4, <1>8, <1>9, <1>10, <1>11 DEF Fits, Whole

LEMMA NextScored ==
  ASSUME Typed, Turns, Sweep, Tidy, Tracks, Scored, [Next]_vars
  PROVE  Scored'
<1> DEFINE Settled == \A s \in Staff : req[s].pc \notin {"swap", "dropBak"}
           Spared == \A s \in Staff : Adding(s) \/ Deleting(s) => Len(score.lines) <= Len(base)
<1> SUFFICES ASSUME Undamaged', aligned' PROVE (Settled' => Fits(ListNow)') /\ Spared'
  BY DEF Scored
<1>0. Undamaged /\ ~Failing /\ ~crossed /\ \A D : Began(D) => Quiet
  BY UndamagedBefore DEF Undamaged
<1>1. \A s \in Staff : Editing(s) => Sole(s) /\ Tracked(s)
  BY <1>0 DEF Turns, Tracks
<1>2. \A D : Began(D) => aligned /\ Len(score.lines) <= Cardinality(Scan)
  BY DEF Began, Regular
<1>3. aligned => (Settled => Fits(ListNow)) /\ Spared
  BY <1>0 DEF Scored
<1>4. ASSUME ListNow' = ListNow, score' = score, Fits(ListNow) PROVE Fits(ListNow)'
  BY <1>4 DEF Fits
<1>5. ASSUME NEW s \in Staff, Editing(s) \/ Quiet, req[s].pc \notin {"swap", "dropBak"} PROVE Settled
  <2>1. \A t \in Staff : req[t].pc \in {"swap", "dropBak"} => Editing(t)
    BY KindsOfPc DEF Editing, ReplacePcs
  <2> QED
    BY <1>1, <1>5, <2>1 DEF Quiet, Sole
<1>6. ASSUME NEW s \in Staff, Others(s), Sole(s) \/ Quiet,
             Adding(s)' \/ Deleting(s)' => Len(score'.lines) <= Len(base')
      PROVE  Spared'
  <2> SUFFICES ASSUME NEW t \in Staff, Adding(t)' \/ Deleting(t)'
               PROVE  Len(score'.lines) <= Len(base')
    OBVIOUS
  <2>1. CASE t = s
    BY <1>6, <2>1
  <2>2. t # s => Adding(t) \/ Deleting(t)
    BY <1>6 DEF Others, Adding, Deleting
  <2>3. t # s => FALSE
    BY <1>6, <2>2 DEF Editing, Sole, Quiet
  <2> QED
    BY <2>1, <2>3
<1> HIDE DEF Settled, Spared
<1>7. ASSUME NEW s \in Staff, Add(s) PROVE (Settled' => Fits(ListNow)') /\ Spared'
  <2>1. CASE req[s].pc = "idle"
    <3>1. Began({}) /\ input' = input /\ Others(s)
      BY <1>7, <2>1, AddIs DEF AddPcs
    <3>2. Quiet /\ aligned /\ Len(score.lines) <= Cardinality(Scan)
      BY <1>0, <1>2, <3>1
    <3>3. ListNow' = ListNow /\ score' = score
      BY <1>0, <1>1, <1>7, <2>1, AddOnList, AddScoreDoes DEF Typed
    <3>4. Len(base') = Cardinality(Scan)
      BY <3>1, BeganLists
    <3>5. Fits(ListNow)
      BY <1>3, <1>5, <2>1, <3>2
    <3> QED
      BY <1>4, <1>6, <3>1, <3>2, <3>3, <3>4, <3>5
  <2>2. CASE req[s].pc \in AddPcs
    <3>1. /\ Editing(s) /\ Sole(s) /\ Tracked(s) /\ Others(s) /\ EditFrame
          /\ req'[s].pc \in AddPcs \cup {"idle"} /\ Adding(s)
      BY <1>1, <1>7, <2>2, AddIs, KindsOfPc DEF Editing
    <3>2. aligned /\ base' = base /\ req[s].pc \notin {"swap", "dropBak"}
      BY <2>2, <3>1 DEF EditFrame, AddPcs
    <3>3. Fits(ListNow) /\ Len(score.lines) <= Len(base)
      <4>1. Spared /\ Fits(ListNow)
        BY <1>3, <1>5, <3>1, <3>2
      <4> QED
        BY <3>1, <4>1 DEF Spared
    <3>4. CASE ListNow' = ListNow /\ score' = score
      BY <1>4, <1>6, <3>1, <3>2, <3>3, <3>4
    <3>5. CASE AddScore(s) /\ ListNow = base /\ ListNow' = Append(base, req[s].case)
      <4>1. PICK M : M = Append(base, req[s].case)
        OBVIOUS
      <4>2. Fits(M)'
        BY <1>0, <3>1, <3>3, <3>5, <4>1, AddFits
      <4>3. ~Adding(s)' /\ ~Deleting(s)'
        BY <3>5, AddScoreDoes, KindsOfPc DEF Typed, EndStep
      <4> QED
        BY <1>6, <3>1, <3>5, <4>1, <4>2, <4>3 DEF Fits
    <3> QED
      BY <1>0, <1>1, <1>7, <3>4, <3>5, AddOnList
  <2> QED
    BY <1>7, <2>1, <2>2, AddIs
<1>8. ASSUME NEW s \in Staff, Delete(s) PROVE (Settled' => Fits(ListNow)') /\ Spared'
  <2>1. CASE req[s].pc = "idle"
    <3>1. PICK n \in Scan : Began({input[n]}) /\ input' = input /\ Others(s)
      BY <1>8, <2>1, DeleteIs DEF DeletePcs
    <3>2. Quiet /\ aligned /\ Len(score.lines) <= Cardinality(Scan)
      BY <1>0, <1>2, <3>1
    <3>3. ListNow' = ListNow /\ score' = score
      BY <1>0, <1>1, <1>8, <2>1, DeleteOnList, DeleteScoreDoes DEF Typed
    <3>4. Len(base') = Cardinality(Scan)
      BY <3>1, BeganLists
    <3>5. Fits(ListNow)
      BY <1>3, <1>5, <2>1, <3>2
    <3> QED
      BY <1>4, <1>6, <3>1, <3>2, <3>3, <3>4, <3>5
  <2>2. CASE req[s].pc \in DeletePcs
    <3>1. /\ Editing(s) /\ Sole(s) /\ Others(s) /\ EditFrame
          /\ req'[s].pc \in DeletePcs \cup {"idle"} /\ Deleting(s)
      BY <1>1, <1>8, <2>2, DeleteIs, KindsOfPc DEF Editing
    <3>2. aligned /\ base' = base /\ req[s].pc \notin {"swap", "dropBak"}
      BY <2>2, <3>1 DEF EditFrame, DeletePcs
    <3>3. Fits(ListNow) /\ Len(score.lines) <= Len(base)
      <4>1. Spared /\ Fits(ListNow)
        BY <1>3, <1>5, <3>1, <3>2
      <4> QED
        BY <3>1, <4>1 DEF Spared
    <3>4. CASE ListNow' = ListNow /\ score' = score
      BY <1>4, <1>6, <3>1, <3>2, <3>3, <3>4
    <3>5. ASSUME NEW S \in SUBSET Nums, DeleteScore(s, S), ListNow = base, ListNow' = Listing,
                 NEW i \in 1..Len(base), aligned => i = req[s].num, Listing = RemoveAt(base, i)
          PROVE  (Settled' => Fits(ListNow)') /\ Spared'
      <4>1. PICK M : M = Listing
        OBVIOUS
      <4>2. Fits(M)'
        BY <1>0, <3>2, <3>3, <3>5, <4>1, DeleteFits
      <4>3. ~Adding(s)' /\ ~Deleting(s)'
        BY <3>5, DeleteScoreDoes, KindsOfPc DEF Typed, EndStep
      <4> QED
        BY <1>6, <3>1, <3>5, <4>1, <4>2, <4>3 DEF Fits
    <3> QED
      BY <1>0, <1>1, <1>8, <3>4, <3>5, DeleteOnList
  <2> QED
    BY <1>8, <2>1, <2>2, DeleteIs
<1>9. ASSUME NEW s \in Staff, ReplaceBegins(s) PROVE (Settled' => Fits(ListNow)') /\ Spared'
  <2>1. /\ crossed' = (crossed \/ ~Quiet) /\ base' = Listing /\ req'[s].pc = "backup"
        /\ UNCHANGED <<input, answer, score, aligned>> /\ Aside(s) /\ req[s].pc = "idle"
    BY <1>9 DEF ReplaceBegins
  <2>2. Quiet /\ ~Quiet' /\ aligned
    BY <2>1, KindsOfPc DEF Undamaged, Quiet, Editing, ReplacePcs
  <2>3. ListNow' = ListNow
    BY <2>1, <2>2 DEF ListNow
  <2>4. Fits(ListNow)
    BY <1>3, <1>5, <2>1, <2>2
  <2>5. \A t \in Staff : ~Adding(t)' /\ ~Deleting(t)'
    BY <2>1, <2>2, KindsOfPc DEF Aside, Quiet, Editing, ReplacePcs
  <2> QED
    BY <1>4, <2>1, <2>3, <2>4, <2>5 DEF Spared
<1>10. ASSUME NEW s \in Staff, Replace(s) PROVE (Settled' => Fits(ListNow)') /\ Spared'
  <2>1. /\ Sole(s) /\ Replaced(s) /\ Others(s) /\ req'[s].pc \in ReplacePcs \cup {"idle"}
    BY <1>0, <1>1, <1>10, ReplaceIs, KindsOfPc DEF Editing, Tidy
  <2>2. ~Adding(s)' /\ ~Deleting(s)'
    BY <2>1, KindsOfPc
  <2>3. Spared'
    BY <1>6, <2>1, <2>2
  <2>4. ASSUME Settled' PROVE DropBackup(s)
    <3>1. req'[s].pc \notin {"swap", "dropBak"}
      BY <2>4 DEF Settled
    <3>2. ~Backup(s)
      BY <1>0, <3>1, BackupDoes DEF ReplaceStep
    <3>3. ~Swap(s)
      BY <1>0, <2>1, <3>1, SwapDoes DEF ReplaceStep, Replaced
    <3>4. ~Restore(s)
      BY <2>1, RestoreDoes DEF Replaced
    <3> QED
      BY <1>10, <3>2, <3>3, <3>4 DEF Replace
  <2> QED
    BY <2>1, <2>3, <2>4, ReplaceFits
<1>11. ASSUME EditsStand PROVE (Settled' => Fits(ListNow)') /\ Spared'
  <2>1. aligned /\ score' = score /\ base' = base
    BY <1>11 DEF EditsStand, DirectoryFrame
  <2>2. Settled' => Settled
    <3>1. \A t \in Staff : req[t].pc \in {"swap", "dropBak"} => Editing(t)
      BY KindsOfPc DEF Editing, ReplacePcs
    <3> QED
      BY <1>11, <3>1 DEF EditsStand, Settled
  <2>3. Spared'
    BY <1>3, <1>11, <2>1 DEF EditsStand, Spared, Editing, Adding, Deleting
  <2> QED
    BY <1>3, <1>4, <1>11, <2>1, <2>2, <2>3, StillOnList
<1>12. ~Crash
  BY CrashDoes, BoundsAreNumbers DEF Undamaged
<1> QED
  BY <1>7, <1>8, <1>9, <1>10, <1>11, <1>12, StepIs

Steady == Typed /\ Turns /\ Sweep /\ Tidy /\ Tracks /\ Scored

LEMMA SteadyAlways == Spec => []Steady
<1>1. Init => Steady
  BY InitTyped, InitTurns, InitSweep, InitTidy, InitTracks, InitScored DEF Steady
<1>2. Steady /\ [Next]_vars => Steady'
  BY NextTyped, NextTurns, NextSweep, NextTidy, NextTracks, NextScored DEF Steady
<1> QED
  BY <1>1, <1>2, PTL DEF Spec

\* Between edits the lines of the score file are in the order of the cases, as
\* long as nothing fails, no edits overlap and none by number began on a
\* numbering with a gap or a line to spare.
THEOREM ScoresKeepToCases == Spec => []ScoresFollowCases
<1>1. Steady => ScoresFollowCases
  <2> SUFFICES ASSUME Steady, Undamaged, aligned, Quiet, score.file,
                      NEW i \in DOMAIN score.lines, i <= Cardinality(Scan)
               PROVE  score.lines[i] \in {Listing[i], "zero"}
    BY DEF ScoresFollowCases
  <2>1. \A s \in Staff : req[s].pc \notin {"swap", "dropBak"}
    BY KindsOfPc DEF Quiet, Editing, ReplacePcs
  <2>2. Fits(Listing)
    BY <2>1 DEF Steady, Scored, ListNow
  <2>3. Len(Listing) = Cardinality(Scan)
    BY ListingIs DEF Steady, Typed, FilesTyped, ListedAs
  <2>4. DOMAIN score.lines = 1..Len(score.lines)
    BY LenProperties DEF Steady, Typed, FilesTyped, ScoreFiles
  <2> QED
    BY <2>2, <2>3, <2>4 DEF Fits
<1> QED
  BY <1>1, SteadyAlways, PTL
-----------------------------------------------------------------------------
(* AdditionsMixNoReader.  A reader that no deletion and no replacement     *)
(* overlaps has scanned a first part of the directory: additions only      *)
(* append to it, and of what it has seen they change nothing but a file    *)
(* that was torn.                                                          *)

Undisturbed == Undamaged /\ reader # NoReader /\ ~reader.shaky

\* What the reader has scanned is a first part of what is there.
Beginning(S) == S \subseteq Scan /\ \A m \in Scan \ S, n \in S : n < m

\* The line at the position of a case is that case's.
Matching(S, lines) ==
    \A n \in S : Position(S, n) <= Len(lines) => lines[Position(S, n)] \in {input[n], "zero"}

OnlyAdditions == \A s \in Staff : ~Deleting(s) /\ ~Replacing(s)

Reads ==
    /\ Beginning(reader.nums)
    /\ OnlyAdditions
    /\ reader.pc = "score" => reader.kind = "list"
    /\ reader.kind = "judge" \/ reader.pc = "score" => reader.lines = <<>>
    /\ aligned => Matching(reader.nums, reader.lines)
    /\ reader.pc = "answer" => reader.ran \in {"torn", input[Least(reader.todo)]}
    /\ reader.kind = "judge" \/ aligned => reader.verdict # "mixed"

ReadsOn == Undisturbed => Reads

\* The positions of the cases in a first part are those in the whole.
LEMMA PositionBegun ==
  ASSUME NEW S, Beginning(S), Scan \in SUBSET Nums, NEW n \in S
  PROVE  Position(S, n) = Position(Scan, n) /\ Position(S, n) \in Nat \ {0}
<1>1. {m \in S : m <= n} = {m \in Scan : m <= n}
  <2>1. \A m \in Scan : m \notin S => ~(m <= n)
    BY BoundsAreNumbers DEF Beginning, Nums
  <2> QED
    BY <2>1 DEF Beginning
<1>2. S \in SUBSET Nums
  BY DEF Beginning
<1>3. Position(S, n) \in 1..Cardinality(S)
  BY <1>2, PositionType
<1>4. Cardinality(S) \in Nat
  BY <1>2, NumsFinite
<1> QED
  BY <1>1, <1>3, <1>4 DEF Position

\* A list of the cases has the right case at every position; so has one that
\* lacks the last of them, if the score file has no line for that.
LEMMA LinesMatch ==
  ASSUME Typed, NEW L \in Seq(Contents), Fits(L),
         \/ ListedAs(L)
         \/ Len(score.lines) <= Len(L) /\ \E x \in Contents : ListedAs(Append(L, x)),
         NEW S, Beginning(S)
  PROVE  Matching(S, score.lines)
<1> SUFFICES ASSUME NEW n \in S, Position(S, n) <= Len(score.lines)
             PROVE  score.lines[Position(S, n)] \in {input[n], "zero"}
  BY DEF Matching
<1>1. Scan \in SUBSET Nums
  BY ListingIs DEF Typed, FilesTyped
<1> DEFINE p == Position(S, n)
<1>2. p = Position(Scan, n) /\ p \in Nat \ {0} /\ n \in Scan
  BY <1>1, PositionBegun DEF Beginning
<1>3. score.lines \in Seq(Lines) /\ Len(score.lines) \in Nat /\ Len(L) \in Nat
  BY LenProperties DEF Typed, FilesTyped, ScoreFiles
<1>4. p <= Len(L)
  <2>1. CASE ListedAs(L)
    <3>1. Position(Scan, n) \in 1..Cardinality(Scan)
      BY <1>1, <1>2, PositionType
    <3> QED
      BY <1>2, <1>3, <2>1, <3>1 DEF ListedAs
  <2>2. CASE Len(score.lines) <= Len(L)
    BY <1>2, <1>3, <2>2
  <2> QED
    BY <2>1, <2>2
<1>5. p \in 1..Len(L) /\ score.lines[p] \in {L[p], "zero"}
  <2>1. p \in 1..Len(L) /\ p \in 1..Len(score.lines)
    BY <1>2, <1>3, <1>4
  <2> HIDE DEF p
  <2> QED
    BY <2>1 DEF Fits
<1>6. L[p] = input[n]
  <2>1. CASE ListedAs(L)
    BY <1>2, <2>1 DEF ListedAs
  <2>2. ASSUME NEW x \in Contents, ListedAs(Append(L, x)) PROVE L[p] = input[n]
    <3>1. Append(L, x)[p] = input[n]
      BY <1>2, <2>2 DEF ListedAs
    <3>2. Append(L, x)[p] = L[p]
      BY <1>5, AppendProperties
    <3> QED
      BY <3>1, <3>2
  <2> QED
    BY <2>1, <2>2
<1> QED
  BY <1>5, <1>6

\* An addition appends to the numbers, and rewrites only a file that is torn.
Appends ==
    /\ Scan \subseteq Scan'
    /\ \A m \in Scan' \ Scan, n \in Scan : n < m
    /\ \A n \in Scan : input'[n] = input[n] \/ input[n] = "torn"

LEMMA AddAppends ==
  ASSUME Typed, NEW s \in Staff, Add(s), ~Failing,
         req[s].pc \in AddPcs => Half(s) /\ Tracked(s)
  PROVE  Appends
<1>1. CASE input' = input
  BY <1>1 DEF Appends, Scan
<1>2. CASE AddOpenIn(s)
  <2>1. \/ req[s].pc = "openIn" /\ input' = [input EXCEPT ![req[s].num] = "torn"]
        \/ input' = input
    BY <1>2, AddOpenInDoes DEF Typed
  <2>2. ASSUME req[s].pc = "openIn", input' = [input EXCEPT ![req[s].num] = "torn"] PROVE Appends
    <3>1. req[s].num \in Nums
      BY <2>2, ReqKinds DEF Typed, AddPcs, Additions
    <3>2. input[req[s].num] = "absent" /\ \A n \in Scan : n < req[s].num
      BY <2>2 DEF Half, Tracked, AddPcs
    <3>3. \A n \in Nums \ {req[s].num} : input'[n] = input[n]
      BY <2>2, <3>1 DEF Typed, FilesTyped
    <3>4. req[s].num \notin Scan
      BY <3>2 DEF Scan
    <3>5. \A n \in Scan : n \in Nums /\ input'[n] = input[n]
      BY <3>3, <3>4 DEF Scan
    <3>6. \A m \in Scan' : m \notin Scan => m = req[s].num
      BY <3>3 DEF Scan
    <3> QED
      BY <3>2, <3>5, <3>6 DEF Appends, Scan
  <2> QED
    BY <1>1, <2>1, <2>2
<1>3. CASE AddFillIn(s)
  <2>1. req[s].pc = "fillIn" /\ (input' = [input EXCEPT ![req[s].num] = req[s].case] \/ input' = input)
    BY <1>3, AddFillInDoes DEF Typed
  <2>2. ASSUME input' = [input EXCEPT ![req[s].num] = req[s].case] PROVE Appends
    <3>1. req[s].num \in Nums /\ req[s].case \in Cases
      BY <2>1, ReqKinds DEF Typed, AddPcs, Additions
    <3>2. input[req[s].num] = "torn"
      BY <2>1 DEF Half, AddPcs
    <3>3. /\ input'[req[s].num] = req[s].case
          /\ \A n \in Nums \ {req[s].num} : input'[n] = input[n]
      BY <2>2, <3>1 DEF Typed, FilesTyped
    <3>4. Scan' = Scan
      BY <3>1, <3>2, <3>3, CasesAreNot DEF Scan
    <3> QED
      BY <3>2, <3>3, <3>4 DEF Appends, Scan
  <2> QED
    BY <1>1, <2>1, <2>2
<1> QED
  BY <1>1, <1>2, <1>3 DEF Add, AddScan, files, AddOpenOut, AddFillOut, AddScore
\* The reader does not move while the directory is still or appended to.
LEMMA ReadsBeside ==
  ASSUME Typed, Reads, reader # NoReader, reader' = reader, aligned' => aligned,
         Appends, OnlyAdditions'
  PROVE  Reads'
<1>1. reader \in Active /\ reader.nums \in SUBSET Nums /\ reader.lines \in Seq(Lines)
  BY ReaderKinds DEF Typed, ReaderTyped, Active
<1>2. Beginning(reader.nums)'
  <2>1. reader.nums \subseteq Scan'
    BY DEF Reads, Beginning, Appends
  <2>2. \A m \in Scan' \ reader.nums, n \in reader.nums : n < m
    BY DEF Reads, Beginning, Appends
  <2> QED
    BY <2>1, <2>2 DEF Beginning
<1>3. ASSUME aligned' PROVE Matching(reader.nums, reader.lines)'
  <2> SUFFICES ASSUME NEW n \in reader.nums, Position(reader.nums, n) <= Len(reader.lines)
               PROVE  reader.lines[Position(reader.nums, n)] \in {input'[n], "zero"}
    BY DEF Matching, Position
  <2> DEFINE p == Position(reader.nums, n)
  <2>1. reader.lines[p] \in {input[n], "zero"}
    BY <1>3 DEF Reads, Matching
  <2>2. input'[n] = input[n] \/ input[n] = "torn"
    BY DEF Reads, Beginning, Appends
  <2>3. p \in Nat \ {0}
    BY PositionBegun, ListingIs DEF Reads, Typed, FilesTyped
  <2>4. reader.lines[p] \in Lines
    BY <1>1, <2>3, ElementOfSeq, LenProperties
  <2>5. reader.lines[p] # "torn"
    BY <2>4, CasesAreNot DEF Lines
  <2> QED
    BY <2>1, <2>2, <2>5
<1>4. ASSUME reader.pc = "answer" PROVE reader.ran \in {"torn", input'[Least(reader.todo)]}
  <2>1. PICK n : n = Least(reader.todo)
    OBVIOUS
  <2>2. n \in reader.nums
    BY <1>4, <2>1, LoopIs DEF Typed, Looping
  <2>3. input'[n] = input[n] \/ input[n] = "torn"
    BY <2>2 DEF Reads, Beginning, Appends
  <2> QED
    BY <1>4, <2>1, <2>3 DEF Reads
<1> QED
  BY <1>2, <1>3, <1>4 DEF Reads

\* What the reader finds under a number, when it has run on its input, is
\* the answer of the same case or none.
LEMMA AnswerFound ==
  ASSUME Typed, Turns, Tidy, Undamaged, Reads, reader.pc = "answer",
         NEW n, n = Least(reader.todo)
  PROVE  \/ reader.ran = "torn" \/ answer[n] \in {"absent", "torn"}
         \/ reader.ran = input[n] /\ answer[n] = input[n] /\ input[n] \in Cases
<1>1. n \in reader.nums /\ n \in Nums
  BY LoopIs DEF Typed, Looping
<1>2. n \in Scan /\ input[n] # "absent" /\ input[n] \in Contents
  BY <1>1 DEF Reads, Beginning, Scan, Typed, FilesTyped
<1>3. reader.ran = "torn" \/ reader.ran = input[n]
  BY DEF Reads
<1>4. Paired(n) => \/ reader.ran = "torn"
                   \/ reader.ran = input[n] /\ answer[n] = input[n] /\ input[n] \in Cases
  BY <1>2, <1>3 DEF Paired, Contents
<1>5. CASE Quiet
  BY <1>1, <1>4, <1>5 DEF Tidy
<1>6. ASSUME NEW s \in Staff, Adding(s)
      PROVE  Paired(n) \/ answer[n] \in {"absent", "torn"}
  <2>1. Half(s) /\ req[s].pc \in AddPcs
    BY <1>6, KindsOfPc DEF Tidy, Editing
  <2>2. CASE n \notin Loose(s)
    BY <1>1, <2>1, <2>2 DEF Half
  <2>3. CASE n \in Loose(s)
    <3>1. n = req[s].num /\ req[s].pc \in {"fillIn", "openOut", "fillOut"}
      BY <2>1, <2>3 DEF Loose, AddPcs
    <3> QED
      BY <2>1, <3>1 DEF Half
  <2> QED
    BY <2>2, <2>3
<1>7. Quiet \/ \E s \in Staff : Adding(s)
  BY DEF Quiet, Editing, Reads, OnlyAdditions
<1>8. CASE \E s \in Staff : Adding(s)
  BY <1>4, <1>6, <1>8
<1> QED
  BY <1>5, <1>7, <1>8

\* So the answer makes no mixture with the input and the points.
LEMMA NotMixed ==
  ASSUME Typed, Turns, Tidy, Undamaged, Reads, reader.pc = "answer",
         reader.kind = "judge" \/ aligned,
         NEW n, n = Least(reader.todo),
         NEW got, got = Matched(reader.ran, answer[n], reader.lines, Position(reader.nums, n))
  PROVE  got # "mixed"
<1>1. n \in reader.nums
  BY LoopIs DEF Typed, Looping
<1>2. CASE reader.ran = "torn" \/ answer[n] \in {"absent", "torn"}
  BY <1>2 DEF Matched
<1>3. CASE reader.ran = input[n] /\ answer[n] = input[n] /\ input[n] \in Cases
  <2> DEFINE p == Position(reader.nums, n)
  <2>1. p \in Nat \ {0}
    BY <1>1, PositionBegun, ListingIs DEF Reads, Typed, FilesTyped
  <2>2. p <= Len(reader.lines) => reader.lines[p] \in {reader.ran, "zero"}
    <3>1. CASE reader.lines = <<>>
      BY <2>1, <3>1
    <3>2. CASE aligned
      BY <1>1, <1>3, <3>2 DEF Reads, Matching
    <3> QED
      BY <3>1, <3>2 DEF Reads
  <2>3. reader.ran = answer[n] /\ {reader.ran, answer[n]} \cap {"absent", "torn"} = {}
    BY <1>3, CasesAreNot
  <2> HIDE DEF p
  <2>4. Matched(reader.ran, answer[n], reader.lines, p) = "fair"
    BY <2>2, <2>3 DEF Matched
  <2> QED
    BY <2>4 DEF p
<1> QED
  BY <1>2, <1>3, AnswerFound
LEMMA ReaderUndisturbed ==
  ASSUME Typed, NEW r \in Active
  PROVE  r # NoReader /\ r.nums \in SUBSET Nums /\ r.lines \in Seq(Lines)
BY ActiveAreReaders DEF Active

\* A step of the reader.
LEMMA ReadReads ==
  ASSUME Typed, Turns, Tidy, Tracks, Scored, Undamaged, ~Failing, ReadsOn, Read, Undisturbed'
  PROVE  Reads'
<1>0. ~Failing
  OBVIOUS
<1>1. ReaderFrame
  BY ReadTyped
<1>2. /\ input' = input /\ answer' = answer /\ score' = score /\ req' = req
      /\ aligned' = aligned /\ Scan' = Scan
  BY <1>1 DEF ReaderFrame, DirectoryFrame, Scan
<1>3. \A S : Beginning(S) => Beginning(S)'
  BY <1>2 DEF Beginning
<1>4. \A S, lines : Matching(S, lines) => Matching(S, lines)'
  BY <1>2 DEF Matching, Position
<1>5. OnlyAdditions => OnlyAdditions'
  BY <1>2 DEF OnlyAdditions, Deleting, Replacing
<1>6. ASSUME NEW kind \in {"judge", "list"}, NEW S \in SUBSET Nums, ReaderScan(kind, S) PROVE Reads'
  <2>1. /\ reader'.pc \in {"score", "look", "done"}
        /\ reader'.kind = kind /\ (reader'.pc = "score" <=> kind = "list")
        /\ reader'.nums = Scan /\ reader'.lines = <<>>
        /\ reader'.verdict \in {"none", "missing"}
        /\ reader'.shaky = (\E s \in Staff : Deleting(s) \/ Replacing(s))
    <3>1. S = Scan
      BY <1>0, <1>6, ReaderScanDoes DEF Listed, Fault, Failing
    <3> QED
      BY <1>6, <3>1, ReaderScanDoes
  <2>2. Beginning(reader.nums)'
    BY <1>2, <2>1 DEF Beginning
  <2>3. OnlyAdditions'
    BY <1>5, <2>1 DEF Undisturbed, OnlyAdditions
  <2>4. Matching(reader.nums, reader.lines)'
    <3> SUFFICES ASSUME NEW n \in Scan PROVE ~(Position(Scan, n) <= Len(<<>>))
      BY <1>2, <2>1 DEF Matching, Position
    <3>1. Beginning(Scan)
      BY DEF Beginning
    <3>2. Position(Scan, n) \in Nat \ {0}
      BY <3>1, PositionBegun, ListingIs DEF Typed, FilesTyped
    <3> QED
      BY <3>2
  <2> QED
    BY <2>1, <2>2, <2>3, <2>4 DEF Reads
<1>7. ASSUME reader \in Active, reader' \in Active, Unmoved(reader, reader')
      PROVE  /\ Reads /\ Beginning(reader.nums)'
             /\ OnlyAdditions'
  <2>1. Reads
    BY <1>7, ReaderUndisturbed DEF ReadsOn, Undisturbed, Unmoved
  <2>2. Beginning(reader.nums)'
    <3>1. Beginning(reader.nums) /\ reader'.nums = reader.nums
      BY <1>7, <2>1 DEF Reads, Unmoved
    <3> QED
      BY <1>2, <3>1 DEF Beginning
  <2> QED
    BY <1>5, <2>1, <2>2 DEF Reads
<1>8. ASSUME ListScores PROVE Reads'
  <2>1. /\ reader \in Active /\ reader.pc = "score"
        /\ reader' \in Active /\ Unmoved(reader, reader')
        /\ reader'.pc \in {"done", "input"} /\ reader'.lines = score.lines
        /\ reader'.verdict = reader.verdict
    BY <1>8, ListScoresDoes
  <2>2. Reads /\ Beginning(reader.nums)' /\ OnlyAdditions'
    BY <1>7, <2>1
  <2>3. reader'.kind = "list" /\ reader'.nums = reader.nums /\ Beginning(reader.nums)
    BY <2>1, <2>2 DEF Reads, Unmoved
  <2>4. ASSUME aligned PROVE Matching(reader.nums, score.lines)
    <3>1. Fits(ListNow) /\ \A s \in Staff : Adding(s) => Len(score.lines) <= Len(base)
      <4>1. \A s \in Staff : req[s].pc \notin {"swap", "dropBak"}
        BY <2>2, KindsOfPc DEF Reads, OnlyAdditions, ReplacePcs
      <4> QED
        BY <2>4, <4>1 DEF Scored
    <3>2. CASE Quiet
      <4>1. ListedAs(Listing) /\ Fits(Listing)
        BY <3>1, <3>2, ListingIs DEF ListNow, Typed, FilesTyped
      <4> QED
        BY <2>3, <4>1, LinesMatch DEF ListedAs
    <3>3. ASSUME NEW s \in Staff, Adding(s) PROVE Matching(reader.nums, score.lines)
      <4>1. Tracked(s) /\ req[s].pc \in AddPcs /\ req[s] \in Additions /\ Fits(base)
        BY <3>1, <3>3, KindsOfPc, ReqKinds DEF Tracks, Editing, Quiet, ListNow, Typed
      <4>2. req[s].case \in Contents /\ "torn" \in Contents /\ base \in Seq(Contents)
        BY <4>1, ContentsTyped DEF Additions, Typed, HistoryTyped
      <4>3. \/ ListedAs(base)
            \/ Len(score.lines) <= Len(base) /\ \E x \in Contents : ListedAs(Append(base, x))
        BY <3>1, <3>3, <4>1, <4>2 DEF Tracked, AddPcs
      <4> QED
        BY <2>3, <4>1, <4>2, <4>3, LinesMatch
    <3>4. Quiet \/ \E s \in Staff : Adding(s)
      BY <2>2 DEF Quiet, Editing, Reads, OnlyAdditions
    <3> QED
      BY <3>2, <3>3, <3>4
  <2>5. aligned' => Matching(reader.nums, reader.lines)'
    BY <1>2, <2>1, <2>3, <2>4 DEF Matching, Position
  <2> QED
    BY <1>2, <2>1, <2>2, <2>3, <2>5 DEF Reads
<1>9. ASSUME reader \in Active, reader' \in Active, Unmoved(reader, reader'),
             reader.pc # "score", reader'.pc # "score", reader'.lines = reader.lines,
             reader'.pc = "answer" => reader'.ran = input[Least(reader'.todo)],
             reader.kind = "judge" \/ aligned => reader'.verdict # "mixed"
      PROVE  Reads'
  <2>1. Reads /\ Beginning(reader.nums)' /\ OnlyAdditions'
    BY <1>7, <1>9
  <2>2. reader'.nums = reader.nums /\ reader'.kind = reader.kind
    BY <1>9 DEF Unmoved
  <2>3. reader'.kind = "judge" => reader'.lines = <<>>
    BY <1>9, <2>1, <2>2 DEF Reads
  <2>4. aligned' => Matching(reader.nums, reader.lines)'
    <3>1. aligned' => Matching(reader.nums, reader.lines)
      BY <1>2, <2>1 DEF Reads
    <3> QED
      BY <1>2, <1>9, <2>2, <3>1 DEF Matching, Position
  <2>5. reader'.pc = "answer" => reader'.ran \in {"torn", input'[Least(reader'.todo)]}
    BY <1>2, <1>9
  <2>6. reader'.kind = "judge" \/ aligned' => reader'.verdict # "mixed"
    BY <1>2, <1>9, <2>2
  <2> QED
    BY <1>9, <2>1, <2>3, <2>4, <2>5, <2>6 DEF Reads
<1>10. ASSUME reader \in Active, reader' \in Active, Unmoved(reader, reader')
       PROVE  reader.kind = "judge" \/ aligned => reader.verdict # "mixed"
  BY <1>7, <1>10 DEF Reads
<1>11. ASSUME JudgeLook PROVE Reads'
  <2>1. /\ reader \in Active /\ reader.pc = "look"
        /\ reader' \in Active /\ Unmoved(reader, reader') /\ reader'.lines = reader.lines
        /\ reader'.pc \in {"done", "input"} /\ reader'.verdict \in {"missing", reader.verdict}
    BY <1>11, JudgeLookDoes
  <2> QED
    BY <1>9, <1>10, <2>1
<1>12. ASSUME ReadInput PROVE Reads'
  <2>1. PICK n : n = Least(reader.todo)
    OBVIOUS
  <2>2. /\ reader \in Active /\ reader.pc = "input"
        /\ reader' \in Active /\ Unmoved(reader, reader')
        /\ reader'.todo = reader.todo /\ reader'.lines = reader.lines
        /\ \/ reader'.pc = "done" /\ reader'.verdict = "missing"
           \/ /\ reader'.pc = "answer" /\ reader'.ran = input[n]
              /\ reader'.verdict = reader.verdict
    BY <1>12, <2>1, ReadInputDoes
  <2>3. reader'.pc = "answer" => reader'.ran = input[Least(reader'.todo)]
    BY <2>1, <2>2
  <2> QED
    BY <1>9, <1>10, <2>2, <2>3
<1>13. ASSUME ReadAnswer PROVE Reads'
  <2>1. PICK n : n = Least(reader.todo)
    OBVIOUS
  <2>2. PICK got : got = Matched(reader.ran, answer[n], reader.lines, Position(reader.nums, n))
    OBVIOUS
  <2>3. /\ reader \in Active /\ reader.pc = "answer"
        /\ reader' \in Active /\ Unmoved(reader, reader')
        /\ reader'.pc \in {"done", "look", "input"} /\ reader'.lines = reader.lines
        /\ reader'.verdict \in {got, reader.verdict}
    BY <1>13, <2>1, <2>2, ReadAnswerDoes
  <2>4. reader.kind = "judge" \/ aligned => got # "mixed"
    BY <1>7, <2>1, <2>2, <2>3, NotMixed
  <2> QED
    BY <1>9, <1>10, <2>3, <2>4
<1>14. ~ReaderEnds
  BY DEF ReaderEnds, Undisturbed
<1> QED
  BY <1>6, <1>8, <1>11, <1>12, <1>13, <1>14 DEF Read

LEMMA InitReads == Init => ReadsOn
BY DEF Init, ReadsOn, Undisturbed

LEMMA NextReads ==
  ASSUME Typed, Turns, Sweep, Tidy, Tracks, Scored, ReadsOn, [Next]_vars
  PROVE  ReadsOn'
<1> SUFFICES ASSUME Undisturbed' PROVE Reads'
  BY DEF ReadsOn
<1>1. Undamaged /\ Orderly /\ ~Failing /\ \A D : Began(D) => Quiet
  BY UndamagedBefore DEF Undisturbed
<1>2. ASSUME reader' = reader, aligned' => aligned, Appends, OnlyAdditions' PROVE Reads'
  <2>1. Undisturbed
    BY <1>1, <1>2 DEF Undisturbed
  <2> QED
    BY <1>2, <2>1, ReadsBeside DEF ReadsOn, Undisturbed
<1>3. input' = input => Appends
  BY DEF Appends, Scan
<1>4. ASSUME reader' = reader PROVE OnlyAdditions
  BY <1>1, <1>4 DEF Undisturbed, ReadsOn, Reads
<1>5. reader' # Shaken
  <2>1. reader # NoReader => reader \in Active
    BY ReaderKinds DEF Typed, ReaderTyped
  <2> QED
    BY <2>1 DEF Undisturbed, Active, Shaken
<1>6. ASSUME NEW s \in Staff, Add(s) PROVE Reads'
  <2>1. reader' = reader /\ Others(s) /\ ~Deleting(s)' /\ ~Replacing(s)' /\ (aligned' => aligned)
    BY <1>6, AddIs, KindsOfPc DEF EditFrame, Began, AddPcs
  <2>2. OnlyAdditions'
    BY <1>4, <2>1 DEF Others, Deleting, Replacing, OnlyAdditions
  <2>3. req[s].pc \in AddPcs => Half(s) /\ Tracked(s)
    BY <1>1, KindsOfPc DEF Tidy, Tracks, Editing
  <2>4. Appends
    BY <1>1, <1>6, <2>3, AddAppends
  <2> QED
    BY <1>2, <2>1, <2>2, <2>4
<1>7. ASSUME NEW s \in Staff, Delete(s) PROVE Reads'
  <2>1. \A n \in Nums : ~DeleteFind(s, n)
    BY <1>5, DeleteFindDoes
  <2>2. Deleting(s)
    BY <1>7, <2>1 DEF Delete, Deleting, DeleteIn, DeleteOut, DeleteRescan, RenameIn, RenameOut,
                      DeleteScore, At
  <2>3. EditFrame
    BY <1>7, <2>2, DeleteIs, KindsOfPc
  <2> QED
    BY <1>4, <2>2, <2>3 DEF EditFrame, OnlyAdditions
<1>8. ASSUME NEW s \in Staff, Replace(s) PROVE Reads'
  <2>1. reader' = reader /\ Replacing(s)
    BY <1>8, ReplaceIs, KindsOfPc DEF ReplaceFrame
  <2> QED
    BY <1>4, <2>1 DEF OnlyAdditions
<1>9. ASSUME NEW s \in Staff, ReplaceBegins(s) PROVE Reads'
  BY <1>5, <1>9 DEF ReplaceBegins
<1>10. ASSUME EditsStand, reader' = reader PROVE Reads'
  <2>1. OnlyAdditions'
    BY <1>4, <1>10 DEF EditsStand, Editing, Deleting, Replacing, OnlyAdditions
  <2> QED
    BY <1>2, <1>3, <1>10, <2>1 DEF EditsStand, DirectoryFrame
<1>11. ASSUME Read PROVE Reads'
  BY <1>1, <1>11, ReadReads
<1>12. ~Crash
  BY CrashDoes DEF Undisturbed
<1> QED
  BY <1>6, <1>7, <1>8, <1>9, <1>10, <1>11, <1>12, StepIs

\* A judging, or a listing of cases numbered without a gap, meets files or points
\* of two cases under one number only if a deletion or a replacement of all
\* cases overlapped it, as long as nothing fails and no edits overlap.
THEOREM AdditionsMixNoReaders == Spec => []AdditionsMixNoReader
<1>1. Init => ReadsOn
  BY InitReads
<1>2. Steady /\ ReadsOn /\ [Next]_vars => ReadsOn'
  BY NextReads DEF Steady
<1>3. ReadsOn => AdditionsMixNoReader
  BY DEF ReadsOn, Undisturbed, Reads, AdditionsMixNoReader, NoReader
<1> QED
  BY <1>1, <1>2, <1>3, SteadyAlways, PTL DEF Spec
=============================================================================
