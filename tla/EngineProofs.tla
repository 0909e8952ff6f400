---------------------------- MODULE EngineProofs ----------------------------
(***************************************************************************)
(* The settlement of a close for every profit, loss and swap, and the      *)
(* stop-out plan of every book.                                            *)
(*                                                                         *)
(* A plan is made of sums over the positions that are left, turn by turn.  *)
(* Sums and turns are recursive functions; what they compute is proved by  *)
(* looking at a smallest set, or a first turn, for which it were wrong.    *)
(***************************************************************************)
EXTENDS StopOut, FiniteSetTheorems, WellFoundedInduction, TLAPS

---------------------------------------------------------------------------
(* Rounding and settlement.                                                *)

Portion == [n : Int, d : Nat \ {0}]

LEMMA HalfEvenType ==
  ASSUME NEW n \in Int, NEW d \in Nat \ {0}
  PROVE  HalfEven(n, d) \in Int
  BY DEF HalfEven

(* money() is off by half of its last digit at most.                       *)
THEOREM RoundingError ==
  ASSUME NEW n \in Int, NEW d \in Nat \ {0}
  PROVE  2 * Magnitude(d * HalfEven(n, d) - n) <= d
<1> DEFINE q == n \div d
           r == n % d
           t == d * q
<1>1. q \in Int /\ r \in Int /\ t \in Int /\ n = t + r /\ 0 <= r /\ r < d
  OBVIOUS
<1>2. d * (q + 1) = t + d
  BY <1>1
<1>3. \/ HalfEven(n, d) = q /\ 2 * r <= d
      \/ HalfEven(n, d) = q + 1 /\ 2 * r >= d
  BY <1>1 DEF HalfEven
<1> HIDE DEF q, r
<1>4. CASE HalfEven(n, d) = q /\ 2 * r <= d
  <2>1. d * HalfEven(n, d) - n = 0 - r
    BY <1>1, <1>4
  <2> QED
    BY <1>1, <1>4, <2>1 DEF Magnitude
<1>5. CASE HalfEven(n, d) = q + 1 /\ 2 * r >= d
  <2>1. d * HalfEven(n, d) - n = d - r
    BY <1>1, <1>2, <1>5
  <2> QED
    BY <1>1, <1>5, <2>1 DEF Magnitude
<1> QED
  BY <1>3, <1>4, <1>5

LEMMA LineMoves ==
  ASSUME NEW code, NEW x \in Int
  PROVE  /\ Line(code, x).credit \in Nat /\ Line(code, x).debit \in Nat
         /\ Line(code, x).credit - Line(code, x).debit = x
  BY DEF Line

(* What settlementLines returns is balanced whatever the portions are: the *)
(* client's line is derived from the rounded parts.                        *)
THEOREM SettlementIsBalanced ==
  ASSUME NEW client, NEW pnl \in Portion, NEW swap \in Portion
  PROVE  LET lines == SettlementLines(client, pnl, swap)
         IN  lines[1].debit + lines[2].debit + lines[3].debit
               = lines[1].credit + lines[2].credit + lines[3].credit
<1> DEFINE p == HalfEven(pnl.n, pnl.d)
           s == HalfEven(swap.n, swap.d)
           lines == SettlementLines(client, pnl, swap)
<1>1. p \in Int /\ s \in Int
  BY HalfEvenType DEF Portion
<1>2. /\ lines[1] = Line(client, p + s)
      /\ lines[2] = Line("pnl:trading", 0 - p)
      /\ lines[3] = Line("revenue:swap", 0 - s)
  BY DEF SettlementLines
<1> HIDE DEF p, s, lines
<1>3. /\ lines[1].credit - lines[1].debit = p + s
      /\ lines[2].credit - lines[2].debit = 0 - p
      /\ lines[3].credit - lines[3].debit = 0 - s
      /\ \A i \in 1..3 : lines[i].credit \in Nat /\ lines[i].debit \in Nat
  <2>1. p + s \in Int /\ 0 - p \in Int /\ 0 - s \in Int
    BY <1>1
  <2>2. \A i \in 1..3 : i = 1 \/ i = 2 \/ i = 3
    OBVIOUS
  <2> QED
    BY <1>2, <2>1, <2>2, LineMoves
<1>4. lines[1].debit + lines[2].debit + lines[3].debit
        = lines[1].credit + lines[2].credit + lines[3].credit
  <2> DEFINE c(i) == lines[i].credit
             d(i) == lines[i].debit
  <2>1. c(1) \in Int /\ c(2) \in Int /\ c(3) \in Int /\ d(1) \in Int /\ d(2) \in Int /\ d(3) \in Int
    BY <1>3
  <2>2. c(1) - d(1) = p + s /\ c(2) - d(2) = 0 - p /\ c(3) - d(3) = 0 - s
    BY <1>3
  <2> HIDE DEF c, d
  <2>3. d(1) + d(2) + d(3) = c(1) + c(2) + c(3)
    BY <1>1, <2>1, <2>2
  <2> QED
    BY <2>3 DEF c, d
<1> QED
  BY <1>4 DEF lines

---------------------------------------------------------------------------
(* Least elements.                                                         *)

(* The least number principle.                                             *)
LEMMA LeastNumber ==
  ASSUME NEW T \in SUBSET Nat, T # {}
  PROVE  \E m \in T : \A n \in T : m <= n
<1> DEFINE R == {ss \in Nat \X Nat : ss[1] < ss[2]}
<1>1. IsWellFoundedOn(R, Nat)
  BY NatLessThanWellFounded DEF OpToRel
<1> HIDE DEF R
<1>2. PICK m \in T : \A n \in T : ~(<<n, m>> \in R)
  BY <1>1, WFMin
<1>3. \A n \in T : ~(n < m)
  BY <1>2 DEF R
<1> QED
  BY <1>3

(* A set of finite sets that is not empty has a smallest one.              *)
LEMMA SmallestSet ==
  ASSUME NEW C, C # {}, \A T \in C : IsFiniteSet(T)
  PROVE  \E T \in C : \A U \in C : Cardinality(T) <= Cardinality(U)
<1> DEFINE Sizes == {Cardinality(T) : T \in C}
<1>1. Sizes # {} /\ Sizes \in SUBSET Nat
  BY FS_CardinalityType
<1>2. PICK k \in Sizes : \A n \in Sizes : k <= n
  <2> HIDE DEF Sizes
  <2> QED
    BY <1>1, LeastNumber
<1> QED
  BY <1>2

---------------------------------------------------------------------------
(* Sums over a set: SumFunctionOnSet by its recursion, and the recursion   *)
(* for any element of the set.                                             *)

First(s) == CHOOSE x \in s : TRUE

(* sum[s] for the subsets s of S with no more than n elements.             *)
SumsUpTo(f, S, n, sum) ==
    sum = [s \in {u \in SUBSET S : Cardinality(u) <= n} |->
             IF s = {} THEN 0 ELSE f[First(s)] + sum[s \ {First(s)}]]

Sums(f, S, sum) ==
    sum = [s \in SUBSET S |-> IF s = {} THEN 0 ELSE f[First(s)] + sum[s \ {First(s)}]]

LEMMA SumUnfolds ==
  ASSUME NEW f, NEW S
  PROVE  SumFunctionOnSet(f, S) = (CHOOSE sum : Sums(f, S, sum))[S]
  BY DEF SumFunctionOnSet, FoldFunctionOnSet, MapThenFoldSet, Sums, First

LEMMA FirstRemoved ==
  ASSUME NEW S, IsFiniteSet(S), NEW s \in SUBSET S, s # {}
  PROVE  /\ First(s) \in s /\ s \ {First(s)} \in SUBSET S
         /\ Cardinality(s) \in Nat /\ Cardinality(s \ {First(s)}) = Cardinality(s) - 1
<1>1. First(s) \in s
  BY DEF First
<1>2. IsFiniteSet(s)
  BY FS_Subset
<1> QED
  BY <1>1, <1>2, FS_RemoveElement, FS_CardinalityType

LEMMA SumsExist ==
  ASSUME NEW f, NEW S, IsFiniteSet(S)
  PROVE  \E sum : Sums(f, S, sum)
<1> DEFINE Bad == {n \in Nat : ~\E sum : SumsUpTo(f, S, n, sum)}
<1>1. ASSUME Bad # {} PROVE FALSE
  <2>1. PICK n \in Bad : \A m \in Bad : n <= m
    <3>1. Bad \in SUBSET Nat
      OBVIOUS
    <3> HIDE DEF Bad
    <3> QED
      BY <1>1, <3>1, LeastNumber
  <2>2. \A u \in SUBSET S : Cardinality(u) \in Nat /\ (Cardinality(u) = 0 <=> u = {})
    BY FS_Subset, FS_CardinalityType, FS_EmptySet
  <2>3. n # 0
    <3>1. ASSUME n = 0 PROVE FALSE
      <4> DEFINE sum == [s \in {{}} |-> 0]
      <4>1. {u \in SUBSET S : Cardinality(u) <= 0} = {{}}
        BY <2>2
      <4>2. SumsUpTo(f, S, 0, sum)
        BY <4>1 DEF SumsUpTo
      <4> QED
        BY <2>1, <3>1, <4>2
    <3> QED
      BY <3>1
  <2>4. PICK g : SumsUpTo(f, S, n - 1, g)
    <3>1. n - 1 \in Nat /\ ~(n <= n - 1)
      BY <2>3
    <3> QED
      BY <2>1, <3>1
  <2> DEFINE small(m) == {u \in SUBSET S : Cardinality(u) <= m}
             step(h)  == [s \in small(n) |->
                            IF s = {} THEN 0 ELSE f[First(s)] + h[s \ {First(s)}]]
             step2(h) == [s \in small(n - 1) |->
                            IF s = {} THEN 0 ELSE f[First(s)] + h[s \ {First(s)}]]
             sum      == step(g)
  <2>5. \A s \in small(n) : s # {} => s \ {First(s)} \in small(n - 1)
    BY <2>2, FirstRemoved
  <2>6. \A s \in small(n - 1) : s \in small(n) /\ sum[s] = g[s]
    <3>1. SUFFICES ASSUME NEW s \in small(n - 1) PROVE s \in small(n) /\ sum[s] = g[s]
      OBVIOUS
    <3>2. s \in small(n)
      BY <2>1, <2>2
    <3>3. g = step2(g)
      BY <2>4 DEF SumsUpTo
    <3>4. g[s] = IF s = {} THEN 0 ELSE f[First(s)] + g[s \ {First(s)}]
      <4> HIDE DEF small
      <4> QED
        BY <3>3
    <3> HIDE DEF small
    <3> QED
      BY <3>2, <3>4
  <2>7. SumsUpTo(f, S, n, sum)
    <3>1. \A s \in small(n) : s # {} => g[s \ {First(s)}] = sum[s \ {First(s)}]
      BY <2>5, <2>6
    <3> HIDE DEF small
    <3>2. sum = step(sum)
      BY <3>1
    <3> QED
      BY <3>2 DEF SumsUpTo, small
  <2> QED
    BY <2>1, <2>7
<1>2. PICK sum : SumsUpTo(f, S, Cardinality(S), sum)
  BY <1>1, FS_CardinalityType
<1>3. {u \in SUBSET S : Cardinality(u) <= Cardinality(S)} = SUBSET S
  BY FS_Subset
<1>4. Sums(f, S, sum)
  BY <1>2, <1>3 DEF SumsUpTo, Sums
<1> QED
  BY <1>4

(* Two such functions agree where both are defined.                        *)
LEMMA SumsAgree ==
  ASSUME NEW f, NEW S, IsFiniteSet(S), NEW T \in SUBSET S,
         NEW sum, Sums(f, S, sum), NEW part, Sums(f, T, part)
  PROVE  \A s \in SUBSET T : part[s] = sum[s]
<1> DEFINE Bad == {s \in SUBSET T : part[s] # sum[s]}
<1>1. ASSUME Bad # {} PROVE FALSE
  <2>1. \A s \in Bad : IsFiniteSet(s)
    BY FS_Subset
  <2>2. PICK s \in Bad : \A u \in Bad : Cardinality(s) <= Cardinality(u)
    <3> HIDE DEF Bad
    <3> QED
      BY <1>1, <2>1, SmallestSet
  <2>3. s # {}
    BY DEF Sums
  <2>4. s \ {First(s)} \in SUBSET T /\ Cardinality(s) \in Nat
        /\ Cardinality(s \ {First(s)}) = Cardinality(s) - 1
    BY <2>3, FirstRemoved
  <2>5. part[s \ {First(s)}] = sum[s \ {First(s)}]
    BY <2>2, <2>4
  <2> QED
    BY <2>2, <2>3, <2>4, <2>5 DEF Sums
<1> QED
  BY <1>1

(* SumFunctionOnSet on the subsets of a finite set.                        *)
LEMMA SumTable ==
  ASSUME NEW f, NEW S, IsFiniteSet(S)
  PROVE  \E sum : Sums(f, S, sum) /\ \A T \in SUBSET S : SumFunctionOnSet(f, T) = sum[T]
<1>1. PICK sum : Sums(f, S, sum)
  BY SumsExist
<1>2. ASSUME NEW T \in SUBSET S PROVE SumFunctionOnSet(f, T) = sum[T]
  <2>1. IsFiniteSet(T)
    BY FS_Subset
  <2>2. PICK part : part = (CHOOSE p : Sums(f, T, p)) /\ Sums(f, T, part)
    <3>1. Sums(f, T, CHOOSE p : Sums(f, T, p))
      BY <2>1, SumsExist
    <3> QED
      BY <3>1
  <2>3. SumFunctionOnSet(f, T) = part[T]
    BY <2>2, SumUnfolds
  <2>4. T \in SUBSET T
    OBVIOUS
  <2>5. part[T] = sum[T]
    BY <1>1, <2>2, <2>4, SumsAgree
  <2> QED
    BY <2>3, <2>5
<1> QED
  BY <1>1, <1>2

LEMMA SumOfNothing ==
  ASSUME NEW f
  PROVE  SumFunctionOnSet(f, {}) = 0
<1>1. IsFiniteSet({})
  BY FS_EmptySet
<1>2. PICK sum : Sums(f, {}, sum) /\ \A T \in SUBSET {} : SumFunctionOnSet(f, T) = sum[T]
  BY <1>1, SumTable
<1> QED
  BY <1>2 DEF Sums

LEMMA SumIsInteger ==
  ASSUME NEW f, NEW S, IsFiniteSet(S), \A x \in S : f[x] \in Int
  PROVE  SumFunctionOnSet(f, S) \in Int
<1>1. PICK sum : Sums(f, S, sum) /\ \A T \in SUBSET S : SumFunctionOnSet(f, T) = sum[T]
  BY SumTable
<1> DEFINE Bad == {s \in SUBSET S : sum[s] \notin Int}
<1>2. ASSUME Bad # {} PROVE FALSE
  <2>1. \A s \in Bad : IsFiniteSet(s)
    BY FS_Subset
  <2>2. PICK s \in Bad : \A u \in Bad : Cardinality(s) <= Cardinality(u)
    <3> HIDE DEF Bad
    <3> QED
      BY <1>2, <2>1, SmallestSet
  <2>3. s # {}
    BY <1>1 DEF Sums
  <2>4. First(s) \in s /\ s \ {First(s)} \in SUBSET S /\ Cardinality(s) \in Nat
        /\ Cardinality(s \ {First(s)}) = Cardinality(s) - 1
    BY <2>3, FirstRemoved
  <2>5. sum[s \ {First(s)}] \in Int
    BY <2>2, <2>4
  <2>6. f[First(s)] \in Int
    BY <2>4
  <2>7. sum[s] = f[First(s)] + sum[s \ {First(s)}]
    BY <1>1, <2>2, <2>3 DEF Sums
  <2>8. sum[s] \notin Int
    BY <2>2
  <2> HIDE DEF Bad
  <2> QED
    BY <2>5, <2>6, <2>7, <2>8
<1>3. S \in SUBSET S /\ S \notin Bad
  BY <1>2
<1> QED
  BY <1>1, <1>3

(* Any element may be taken first.                                         *)
LEMMA SumWithout ==
  ASSUME NEW f, NEW S, IsFiniteSet(S), \A x \in S : f[x] \in Int, NEW x \in S
  PROVE  SumFunctionOnSet(f, S) = f[x] + SumFunctionOnSet(f, S \ {x})
<1>1. PICK sum : Sums(f, S, sum) /\ \A T \in SUBSET S : SumFunctionOnSet(f, T) = sum[T]
  BY SumTable
<1>2. \A s \in SUBSET S : sum[s] \in Int
  <2>1. SUFFICES ASSUME NEW s \in SUBSET S PROVE sum[s] \in Int
    OBVIOUS
  <2>2. IsFiniteSet(s)
    BY FS_Subset
  <2>3. SumFunctionOnSet(f, s) \in Int
    BY <2>2, SumIsInteger
  <2> QED
    BY <1>1, <2>3
<1> DEFINE Bad == {s \in SUBSET S : \E y \in s : sum[s] # f[y] + sum[s \ {y}]}
<1>3. ASSUME Bad # {} PROVE FALSE
  <2>1. \A s \in Bad : IsFiniteSet(s)
    BY FS_Subset
  <2>2. PICK s \in Bad : \A u \in Bad : Cardinality(s) <= Cardinality(u)
    <3> HIDE DEF Bad
    <3> QED
      BY <1>3, <2>1, SmallestSet
  <2>3. PICK y \in s : sum[s] # f[y] + sum[s \ {y}]
    BY <2>2
  <2> DEFINE h == First(s)
             a == s \ {h}
             b == s \ {y}
             c == a \ {y}
  <2>4. h \in s /\ a \in SUBSET S /\ Cardinality(s) \in Nat /\ Cardinality(a) = Cardinality(s) - 1
    BY <2>3, FirstRemoved
  <2>5. b \in SUBSET S /\ Cardinality(b) = Cardinality(s) - 1
    BY <2>2, <2>1, <2>3, FS_RemoveElement
  <2>6. a \notin Bad /\ b \notin Bad
    <3> HIDE DEF Bad, h, a, b
    <3> QED
      BY <2>2, <2>4, <2>5
  <2>7. sum[s] = f[h] + sum[a]
    BY <1>1, <2>3 DEF Sums
  <2>8. CASE y = h
    BY <2>3, <2>7, <2>8
  <2>9. CASE y # h
    <3>1. y \in a /\ h \in b /\ c = b \ {h}
      BY <2>4, <2>9
    <3>2. sum[a] = f[y] + sum[c]
      BY <2>4, <2>6, <3>1
    <3>3. sum[b] = f[h] + sum[c]
      BY <2>5, <2>6, <3>1
    <3>4. f[h] \in Int /\ f[y] \in Int /\ sum[c] \in Int
      BY <1>2, <2>4
    <3> QED
      BY <2>3, <2>7, <3>2, <3>3, <3>4
  <2> QED
    BY <2>8, <2>9
<1>4. S \notin Bad /\ S \ {x} \in SUBSET S
  BY <1>3
<1> QED
  BY <1>1, <1>4

(* The sum over a set and the rest of it.                                  *)
LEMMA SumSplits ==
  ASSUME NEW f, NEW S, IsFiniteSet(S), \A x \in S : f[x] \in Int, NEW T \in SUBSET S
  PROVE  SumFunctionOnSet(f, S) = SumFunctionOnSet(f, S \ T) + SumFunctionOnSet(f, T)
<1> DEFINE Sum(U) == SumFunctionOnSet(f, U)
           Bad == {U \in SUBSET T : Sum(S) # Sum(S \ U) + Sum(U)}
<1>1. \A U \in SUBSET S : Sum(U) \in Int
  BY FS_Subset, SumIsInteger
<1>2. ASSUME Bad # {} PROVE FALSE
  <2>1. \A U \in Bad : IsFiniteSet(U)
    BY FS_Subset
  <2>2. PICK U \in Bad : \A V \in Bad : Cardinality(U) <= Cardinality(V)
    <3> HIDE DEF Bad
    <3> QED
      BY <1>2, <2>1, SmallestSet
  <2>3. U # {}
    <3>1. S \ {} = S /\ Sum({}) = 0
      BY SumOfNothing
    <3>2. Sum(S) \in Int
      BY <1>1
    <3> HIDE DEF Sum
    <3> QED
      BY <2>2, <3>1, <3>2
  <2>4. PICK x \in U : TRUE
    BY <2>3
  <2> DEFINE V == U \ {x}
  <2>5. IsFiniteSet(U) /\ Cardinality(U) \in Nat /\ Cardinality(V) = Cardinality(U) - 1
    BY <2>1, <2>2, <2>4, FS_RemoveElement, FS_CardinalityType
  <2>6. Sum(S) = Sum(S \ V) + Sum(V)
    <3>1. V \in SUBSET T /\ V \notin Bad
      <4>1. V \in SUBSET T
        OBVIOUS
      <4> HIDE DEF Bad, V
      <4> QED
        BY <2>2, <2>5, <4>1
    <3> HIDE DEF Sum, V
    <3> QED
      BY <3>1
  <2>7. Sum(U) = f[x] + Sum(V)
    <3>1. \A y \in U : f[y] \in Int
      OBVIOUS
    <3> QED
      BY <2>4, <2>5, <3>1, SumWithout
  <2>8. Sum(S \ V) = f[x] + Sum(S \ U)
    <3>1. x \in S \ V /\ (S \ V) \ {x} = S \ U /\ IsFiniteSet(S \ V) /\ \A y \in S \ V : f[y] \in Int
      BY <2>4, FS_Subset
    <3>2. Sum(S \ V) = f[x] + SumFunctionOnSet(f, (S \ V) \ {x})
      BY <3>1, SumWithout
    <3> QED
      BY <3>1, <3>2
  <2>9. Sum(V) \in Int /\ Sum(S \ U) \in Int /\ f[x] \in Int
    BY <1>1, <2>4
  <2>10. Sum(S) # Sum(S \ U) + Sum(U)
    BY <2>2
  <2> HIDE DEF Sum, V
  <2> QED
    BY <2>6, <2>7, <2>8, <2>9, <2>10
<1>3. T \notin Bad
  BY <1>2
<1> QED
  BY <1>3

(* h gives the numbers of T, a part of S, other names: those of U.         *)
Renames(h, f, g, S, T, U) ==
    /\ IsFiniteSet(S) /\ T \in SUBSET S
    /\ \A x \in S : f[x] \in Int /\ g[h[x]] = f[x]
    /\ \A x, y \in S : h[x] = h[y] => x = y
    /\ \A x \in T : h[x] \in U
    /\ \A y \in U : \E x \in T : y = h[x]

(* The same numbers under other names have the same sum.                   *)
LEMMA SumRenamed ==
  ASSUME NEW h, NEW f, NEW g, NEW S, NEW T, NEW U, Renames(h, f, g, S, T, U)
  PROVE  SumFunctionOnSet(g, U) = SumFunctionOnSet(f, T)
<1> USE DEF Renames
<1> DEFINE Image(W) == {h[x] : x \in W}
           Bad == {W \in SUBSET T : SumFunctionOnSet(g, Image(W)) # SumFunctionOnSet(f, W)}
<1>1. ASSUME Bad # {} PROVE FALSE
  <2>1. \A W \in Bad : IsFiniteSet(W)
    BY FS_Subset
  <2>2. PICK W \in Bad : \A V \in Bad : Cardinality(W) <= Cardinality(V)
    <3> HIDE DEF Bad
    <3> QED
      BY <1>1, <2>1, SmallestSet
  <2>3. W # {}
    <3>1. Image({}) = {}
      OBVIOUS
    <3> QED
      BY <2>2, <3>1, SumOfNothing
  <2>4. PICK x \in W : TRUE
    BY <2>3
  <2> DEFINE V == W \ {x}
  <2>5. IsFiniteSet(W) /\ Cardinality(W) \in Nat /\ Cardinality(V) = Cardinality(W) - 1
    BY <2>1, <2>2, <2>4, FS_RemoveElement, FS_CardinalityType
  <2>6. V \in SUBSET T /\ V \notin Bad
    <3>1. V \in SUBSET T
      OBVIOUS
    <3> HIDE DEF Bad, V
    <3> QED
      BY <2>2, <2>5, <3>1
  <2>7. SumFunctionOnSet(g, Image(V)) = SumFunctionOnSet(f, V)
    BY <2>6
  <2>8. SumFunctionOnSet(f, W) = f[x] + SumFunctionOnSet(f, V)
    <3>1. \A y \in W : f[y] \in Int
      OBVIOUS
    <3> QED
      BY <2>4, <2>5, <3>1, SumWithout
  <2>9. SumFunctionOnSet(g, Image(W)) = g[h[x]] + SumFunctionOnSet(g, Image(V))
    <3>1. IsFiniteSet(Image(W))
      <4> DEFINE onto == [y \in W |-> h[y]]
      <4>1. onto \in Surjection(W, Image(W))
        BY DEF Surjection
      <4> HIDE DEF onto, Image
      <4> QED
        BY <2>5, <4>1, FS_Surjection
    <3>2. \A y \in Image(W) : g[y] \in Int
      OBVIOUS
    <3>3. h[x] \in Image(W)
      BY <2>4
    <3>4. Image(W) \ {h[x]} = Image(V)
      BY <2>4
    <3> HIDE DEF Image, V
    <3>5. SumFunctionOnSet(g, Image(W)) = g[h[x]] + SumFunctionOnSet(g, Image(W) \ {h[x]})
      BY <3>1, <3>2, <3>3, SumWithout
    <3> QED
      BY <3>4, <3>5
  <2> QED
    BY <2>2, <2>4, <2>7, <2>8, <2>9
<1>2. T \notin Bad
  BY <1>1
<1>3. U = Image(T)
  OBVIOUS
<1> QED
  BY <1>2, <1>3

---------------------------------------------------------------------------
(* The stop-out plan of any book.                                          *)

Rows == [pnl : Int, notional : Int]

LEMMA BookTypes ==
  ASSUME NEW b \in Seq(Rows)
  PROVE  /\ Len(b) \in Nat /\ DOMAIN b = 1..Len(b)
         /\ \A i \in DOMAIN b : b[i].pnl \in Int /\ b[i].notional \in Int
<1>1. Len(b) \in Nat /\ DOMAIN b = 1..Len(b) /\ \A i \in DOMAIN b : b[i] \in Rows
  OBVIOUS
<1> QED
  BY <1>1 DEF Rows

(* i goes before j, or is j.                                               *)
Worse(b, i, j) == b[i].pnl < b[j].pnl \/ (b[i].pnl = b[j].pnl /\ i <= j)

LEMMA WorseIsTransitive ==
  ASSUME NEW b \in Seq(Rows), NEW i \in DOMAIN b, NEW j \in DOMAIN b, NEW k \in DOMAIN b
  PROVE  /\ Worse(b, i, j) /\ Worse(b, j, k) => Worse(b, i, k)
         /\ Worse(b, i, j) \/ Worse(b, j, i)
         /\ Worse(b, i, i)
<1> DEFINE p == b[i].pnl
           q == b[j].pnl
           r == b[k].pnl
<1>1. p \in Int /\ q \in Int /\ r \in Int /\ i \in Int /\ j \in Int /\ k \in Int
  BY BookTypes
<1> HIDE DEF p, q, r
<1>2. /\ (p < q \/ (p = q /\ i <= j)) /\ (q < r \/ (q = r /\ j <= k))
           => (p < r \/ (p = r /\ i <= k))
      /\ (p < q \/ (p = q /\ i <= j)) \/ (q < p \/ (q = p /\ j <= i))
      /\ i <= i
  BY <1>1
<1> QED
  BY <1>2 DEF Worse, p, q, r

LEMMA WorstIsLeft ==
  ASSUME NEW b \in Seq(Rows), NEW left \in SUBSET DOMAIN b, left # {}
  PROVE  /\ WorstOf(b, left) \in left
         /\ \A j \in left : Worse(b, WorstOf(b, left), j)
<1> DEFINE HasWorst(T) == \E i \in T : \A j \in T : Worse(b, i, j)
           Bad == {T \in SUBSET left : T # {} /\ ~HasWorst(T)}
<1>1. ASSUME Bad # {} PROVE FALSE
  <2>1. \A T \in SUBSET left : IsFiniteSet(T)
    <3>1. IsFiniteSet(DOMAIN b)
      BY BookTypes, FS_Interval
    <3> QED
      BY <3>1, FS_Subset
  <2>2. PICK T \in Bad : \A U \in Bad : Cardinality(T) <= Cardinality(U)
    <3>1. \A U \in Bad : IsFiniteSet(U)
      BY <2>1
    <3> HIDE DEF Bad
    <3> QED
      BY <1>1, <3>1, SmallestSet
  <2>3. PICK x \in T : TRUE
    BY <2>2
  <2>4. /\ T \ {x} \in SUBSET left /\ Cardinality(T) \in Nat
        /\ Cardinality(T \ {x}) = Cardinality(T) - 1
    BY <2>1, <2>3, FS_RemoveElement, FS_CardinalityType
  <2>5. T \ {x} \notin Bad
    <3>1. T \in SUBSET left
      OBVIOUS
    <3> HIDE DEF Bad
    <3> QED
      BY <2>2, <2>4, <3>1
  <2>6. \A j \in T : j \in DOMAIN b
    OBVIOUS
  <2>7. CASE T \ {x} = {}
    <3>1. \A j \in T : Worse(b, x, j)
      BY <2>3, <2>6, <2>7, WorseIsTransitive
    <3> QED
      BY <2>2, <2>3, <3>1
  <2>8. CASE T \ {x} # {}
    <3>1. PICK i \in T \ {x} : \A j \in T \ {x} : Worse(b, i, j)
      BY <2>4, <2>5, <2>8
    <3>2. CASE Worse(b, i, x)
      BY <2>2, <3>1, <3>2
    <3>3. CASE Worse(b, x, i)
      <4>1. \A j \in T : Worse(b, x, j)
        BY <2>3, <2>6, <3>1, <3>3, WorseIsTransitive
      <4> QED
        BY <2>2, <2>3, <4>1
    <3> QED
      BY <2>3, <2>6, <3>1, <3>2, <3>3, WorseIsTransitive
  <2> QED
    BY <2>7, <2>8
<1>2. left \in SUBSET left /\ left \notin Bad
  BY <1>1
<1>3. HasWorst(left)
  BY <1>2
<1> QED
  BY <1>3 DEF WorstOf, Worse

(* left[k], as far as the turn n.                                          *)
LeftUpTo(b, n, left) ==
    left = [k \in 0..n |-> IF k = 0 THEN DOMAIN b ELSE left[k - 1] \ {WorstOf(b, left[k - 1])}]

LEMMA LeftUnfolds ==
  ASSUME NEW b
  PROVE  LeftAfter(b) = CHOOSE left : LeftUpTo(b, Len(b), left)
  BY DEF LeftAfter, LeftUpTo

LEMMA LeftExists ==
  ASSUME NEW b, NEW n \in Nat
  PROVE  \E left : LeftUpTo(b, n, left)
<1> DEFINE Bad == {m \in Nat : ~\E left : LeftUpTo(b, m, left)}
<1>1. ASSUME Bad # {} PROVE FALSE
  <2>1. PICK m \in Bad : \A k \in Bad : m <= k
    <3>1. Bad \in SUBSET Nat
      OBVIOUS
    <3> HIDE DEF Bad
    <3> QED
      BY <1>1, <3>1, LeastNumber
  <2>2. m # 0
    <3> DEFINE left == [k \in 0..0 |-> DOMAIN b]
    <3>1. LeftUpTo(b, 0, left)
      BY DEF LeftUpTo
    <3> QED
      BY <2>1, <3>1
  <2>3. PICK g : LeftUpTo(b, m - 1, g)
    <3>1. m - 1 \in Nat /\ ~(m <= m - 1)
      BY <2>2
    <3> QED
      BY <2>1, <3>1
  <2> DEFINE left == [k \in 0..m |->
                        IF k = 0 THEN DOMAIN b ELSE g[k - 1] \ {WorstOf(b, g[k - 1])}]
  <2>4. ASSUME NEW k \in 0..(m - 1) PROVE left[k] = g[k]
    <3> DEFINE before == [j \in 0..(m - 1) |->
                            IF j = 0 THEN DOMAIN b ELSE g[j - 1] \ {WorstOf(b, g[j - 1])}]
    <3>1. before[k] = IF k = 0 THEN DOMAIN b ELSE g[k - 1] \ {WorstOf(b, g[k - 1])}
      OBVIOUS
    <3>2. g = before
      BY <2>3 DEF LeftUpTo
    <3>3. k \in 0..m
      BY <2>1
    <3> HIDE DEF before
    <3> QED
      BY <3>1, <3>2, <3>3
  <2>5. \A k \in 0..m : k # 0 => g[k - 1] = left[k - 1]
    <3>1. \A k \in 0..m : k # 0 => k - 1 \in 0..(m - 1)
      BY <2>1
    <3> HIDE DEF left
    <3> QED
      BY <2>4, <3>1
  <2>6. LeftUpTo(b, m, left)
    BY <2>5 DEF LeftUpTo
  <2> QED
    BY <2>1, <2>6
<1> QED
  BY <1>1

(* After k turns there are k positions less.                               *)
LEMMA LeftShrinks ==
  ASSUME NEW b \in Seq(Rows)
  PROVE  LET left == LeftAfter(b)
         IN  /\ DOMAIN left = 0..Len(b)
             /\ left[0] = DOMAIN b
             /\ \A k \in 1..Len(b) :
                  /\ left[k - 1] # {}
                  /\ WorstOf(b, left[k - 1]) \in left[k - 1]
                  /\ left[k] = left[k - 1] \ {WorstOf(b, left[k - 1])}
             /\ \A k \in 0..Len(b) : left[k] \in SUBSET DOMAIN b
             /\ left[Len(b)] = {}
<1> DEFINE n == Len(b)
<1>1. n \in Nat /\ DOMAIN b = 1..n
  BY BookTypes
<1>2. PICK left : left = LeftAfter(b) /\ LeftUpTo(b, n, left)
  <2>1. LeftUpTo(b, n, CHOOSE left : LeftUpTo(b, n, left))
    BY <1>1, LeftExists
  <2> QED
    BY <2>1, LeftUnfolds
<1>3. /\ DOMAIN left = 0..n
      /\ left[0] = DOMAIN b
      /\ \A k \in 1..n : left[k] = left[k - 1] \ {WorstOf(b, left[k - 1])}
  BY <1>1, <1>2 DEF LeftUpTo
<1> HIDE DEF n
<1> DEFINE Right(k) == left[k] \in SUBSET DOMAIN b /\ Cardinality(left[k]) = n - k
           Bad == {k \in 0..n : ~Right(k)}
<1>4. IsFiniteSet(DOMAIN b) /\ Cardinality(DOMAIN b) = n
  BY <1>1, FS_Interval
<1>5. \A k \in 1..n : Right(k - 1) => left[k - 1] # {} /\ WorstOf(b, left[k - 1]) \in left[k - 1]
  <2>1. SUFFICES ASSUME NEW k \in 1..n, Right(k - 1)
                 PROVE  left[k - 1] # {} /\ WorstOf(b, left[k - 1]) \in left[k - 1]
    OBVIOUS
  <2>2. left[k - 1] # {}
    <3>1. Cardinality(left[k - 1]) # 0
      BY <1>1, <2>1
    <3> QED
      BY <3>1, FS_EmptySet
  <2> QED
    BY <2>1, <2>2, WorstIsLeft
<1>6. ASSUME Bad # {} PROVE FALSE
  <2>1. PICK k \in Bad : \A j \in Bad : k <= j
    <3>1. Bad \in SUBSET Nat
      OBVIOUS
    <3> HIDE DEF Bad
    <3> QED
      BY <1>6, <3>1, LeastNumber
  <2>2. k # 0
    <3>1. Right(0)
      BY <1>1, <1>3, <1>4
    <3> QED
      BY <2>1, <3>1
  <2>3. k \in 1..n /\ k - 1 \in 0..n /\ ~(k <= k - 1)
    BY <1>1, <2>2
  <2>4. Right(k - 1)
    <3> HIDE DEF Right
    <3> QED
      BY <2>1, <2>3
  <2>5. IsFiniteSet(left[k - 1]) /\ WorstOf(b, left[k - 1]) \in left[k - 1]
    BY <1>4, <1>5, <2>3, <2>4, FS_Subset
  <2>6. Cardinality(left[k - 1] \ {WorstOf(b, left[k - 1])}) = n - k
    <3>1. Cardinality(left[k - 1] \ {WorstOf(b, left[k - 1])}) = Cardinality(left[k - 1]) - 1
      <4> DEFINE T == left[k - 1]
                 w == WorstOf(b, T)
      <4>1. IsFiniteSet(T) /\ w \in T
        BY <2>5
      <4> HIDE DEF T, w
      <4>2. Cardinality(T \ {w}) = Cardinality(T) - 1
        BY <4>1, FS_RemoveElement
      <4> QED
        BY <4>2 DEF T, w
    <3> QED
      BY <1>1, <2>3, <2>4, <3>1
  <2>7. Right(k)
    BY <1>3, <2>3, <2>4, <2>6
  <2> QED
    BY <2>1, <2>7
<1>7. \A k \in 0..n : Right(k)
  BY <1>6
<1>8. left[n] = {}
  <2>1. IsFiniteSet(left[n]) /\ Cardinality(left[n]) = 0
    BY <1>1, <1>4, <1>7, FS_Subset
  <2> QED
    BY <2>1, FS_EmptySet
<1>9. \A k \in 1..n : left[k - 1] # {} /\ WorstOf(b, left[k - 1]) \in left[k - 1]
  <2>1. \A k \in 1..n : k - 1 \in 0..n
    BY <1>1
  <2> HIDE DEF Right
  <2> QED
    BY <1>5, <1>7, <2>1
<1>10. \A k \in 0..n : left[k] \in SUBSET DOMAIN b
  BY <1>7
<1> HIDE DEF Right
<1> QED
  BY <1>2, <1>3, <1>8, <1>9, <1>10 DEF n

(* What stopOutPlan returns.                                               *)
PlanRight(start, b, leverage, level, plan) ==
    LET n       == Len(plan)
        rest(k) == DOMAIN b \ {plan[j] : j \in 1..k}
        over(k) == Ends(start, b, leverage, level, rest(k))
    IN  /\ plan \in Seq(DOMAIN b)
        /\ \A j, k \in 1..n : j # k => plan[j] # plan[k]
        /\ \A k \in 1..n : \A j \in rest(k - 1) : Worse(b, plan[k], j)
        /\ over(n)
        /\ \A k \in 0..(n - 1) : ~over(k)

LEMMA PlanIsRight ==
  ASSUME NEW start, NEW b \in Seq(Rows), NEW leverage, NEW level
  PROVE  PlanRight(start, b, leverage, level, StopOutPlan(start, b, leverage, level))
<1> DEFINE left    == LeftAfter(b)
           over(k) == Ends(start, b, leverage, level, left[k])
           Turns   == {k \in DOMAIN left : over(k)}
           turns   == Min(Turns)
           plan    == StopOutPlan(start, b, leverage, level)
           size    == Len(b)
<1>1. size \in Nat /\ DOMAIN b = 1..size
  BY BookTypes
<1>2. /\ DOMAIN left = 0..size
      /\ left[0] = DOMAIN b
      /\ \A k \in 1..size :
           /\ left[k - 1] # {}
           /\ WorstOf(b, left[k - 1]) \in left[k - 1]
           /\ left[k] = left[k - 1] \ {WorstOf(b, left[k - 1])}
      /\ \A k \in 0..size : left[k] \in SUBSET DOMAIN b
      /\ left[size] = {}
  BY LeftShrinks
<1>3. plan = [k \in 1..turns |-> WorstOf(b, left[k - 1])]
  BY DEF StopOutPlan
<1> HIDE DEF size, left, plan
<1>4. over(size)
  BY <1>2, SumOfNothing DEF Ends, UsedNotional
<1>5. turns \in Turns /\ \A k \in Turns : turns <= k
  <2>1. Turns \in SUBSET Nat /\ size \in Turns
    <3>1. size \in DOMAIN left /\ DOMAIN left \in SUBSET Nat
      BY <1>1, <1>2
    <3> HIDE DEF over
    <3> QED
      BY <1>4, <3>1
  <2> HIDE DEF Turns
  <2>2. PICK m \in Turns : \A k \in Turns : m <= k
    BY <2>1, LeastNumber
  <2> QED
    BY <2>2 DEF Min
<1>6. turns \in 0..size /\ over(turns) /\ \A k \in 0..(turns - 1) : ~over(k)
  <2>1. turns \in 0..size /\ over(turns)
    BY <1>2, <1>5
  <2>2. ASSUME NEW k \in 0..(turns - 1), over(k) PROVE FALSE
    <3>1. k \in 0..size /\ ~(turns <= k)
      BY <1>1, <2>1
    <3> HIDE DEF turns
    <3> QED
      BY <1>2, <1>5, <2>2, <3>1
  <2> QED
    BY <2>1, <2>2
<1> HIDE DEF turns, over
<1>7. Len(plan) = turns /\ plan \in Seq(DOMAIN b)
  <2>1. \A k \in 1..turns : WorstOf(b, left[k - 1]) \in DOMAIN b
    <3>1. \A k \in 1..turns : k \in 1..size /\ k - 1 \in 0..size
      BY <1>1, <1>6
    <3> QED
      BY <1>2, <3>1
  <2> QED
    BY <1>1, <1>3, <1>6, <2>1
<1> DEFINE rest(k) == DOMAIN b \ {plan[j] : j \in 1..k}
           Bad     == {k \in 0..turns : left[k] # rest(k)}
<1>8. ASSUME Bad # {} PROVE FALSE
  <2>1. PICK k \in Bad : \A j \in Bad : k <= j
    <3>1. Bad \in SUBSET Nat
      OBVIOUS
    <3> HIDE DEF Bad
    <3> QED
      BY <1>8, <3>1, LeastNumber
  <2>2. k # 0
    BY <1>2, <2>1
  <2>3. k \in 1..turns /\ k - 1 \in 0..turns /\ k \in 1..size /\ ~(k <= k - 1)
    BY <1>1, <1>6, <2>2
  <2>4. left[k - 1] = rest(k - 1)
    <3> HIDE DEF rest
    <3> QED
      BY <2>1, <2>3
  <2>5. left[k] = left[k - 1] \ {plan[k]}
    BY <1>2, <1>3, <2>3
  <2>6. 1..k = (1..(k - 1)) \cup {k}
    BY <2>3
  <2>7. rest(k) = rest(k - 1) \ {plan[k]}
    BY <2>6
  <2> QED
    BY <2>1, <2>4, <2>5, <2>7
<1>9. \A k \in 0..turns : left[k] = rest(k)
  BY <1>8
<1>10. \A k \in 1..turns : plan[k] \in rest(k - 1) /\ \A j \in rest(k - 1) : Worse(b, plan[k], j)
  <2>1. SUFFICES ASSUME NEW k \in 1..turns
                 PROVE  plan[k] \in left[k - 1] /\ \A j \in left[k - 1] : Worse(b, plan[k], j)
    <3>1. \A k \in 1..turns : k - 1 \in 0..turns
      BY <1>1, <1>6
    <3> HIDE DEF rest
    <3> QED
      BY <1>9, <2>1, <3>1
  <2>2. k \in 1..size /\ k - 1 \in 0..size
    BY <1>1, <1>6
  <2>3. plan[k] = WorstOf(b, left[k - 1]) /\ left[k - 1] # {} /\ left[k - 1] \in SUBSET DOMAIN b
    BY <1>2, <1>3, <2>2
  <2> QED
    BY <2>3, WorstIsLeft
<1>11. \A j, k \in 1..turns : j # k => plan[j] # plan[k]
  <2>1. \A j, k \in 1..turns : j < k => plan[j] # plan[k]
    <3>1. SUFFICES ASSUME NEW j \in 1..turns, NEW k \in 1..turns, j < k PROVE plan[j] # plan[k]
      OBVIOUS
    <3>2. j \in 1..(k - 1)
      BY <1>1, <1>6, <3>1
    <3> QED
      BY <1>10, <3>2
  <2> QED
    BY <1>1, <1>6, <2>1
<1>12. Ends(start, b, leverage, level, rest(turns))
  <2>1. turns \in 0..turns
    BY <1>1, <1>6
  <2> HIDE DEF rest
  <2> QED
    BY <1>6, <1>9, <2>1 DEF over
<1>13. \A k \in 0..(turns - 1) : ~Ends(start, b, leverage, level, rest(k))
  <2>1. \A k \in 0..(turns - 1) : k \in 0..turns
    BY <1>1, <1>6
  <2> HIDE DEF rest
  <2> QED
    BY <1>6, <1>9, <2>1 DEF over
<1> QED
  <2> HIDE DEF rest
  <2>1. /\ plan \in Seq(DOMAIN b)
        /\ \A j, k \in 1..turns : j # k => plan[j] # plan[k]
        /\ \A k \in 1..turns : \A j \in rest(k - 1) : Worse(b, plan[k], j)
        /\ Ends(start, b, leverage, level, rest(turns))
        /\ \A k \in 0..(turns - 1) : ~Ends(start, b, leverage, level, rest(k))
    BY <1>7, <1>10, <1>11, <1>12, <1>13
  <2> QED
    BY <1>7, <2>1 DEF PlanRight, plan, rest

(* Closing a position moves its profit or loss into the balance.           *)
LEMMA EndsByEquity ==
  ASSUME NEW start \in Int, NEW b \in Seq(Rows), NEW leverage, NEW level,
         NEW left \in SUBSET DOMAIN b
  PROVE  Ends(start, b, leverage, level, left)
           <=> \/ UsedNotional(b, left) = 0
               \/ LevelAtLeast(start + PnlOf(b, DOMAIN b), UsedNotional(b, left), leverage, level)
<1> DEFINE f == [i \in DOMAIN b |-> b[i].pnl]
           D == DOMAIN b
<1>1. IsFiniteSet(D) /\ \A i \in D : f[i] \in Int
  BY BookTypes, FS_Interval
<1>2. IsFiniteSet(left) /\ IsFiniteSet(D \ left) /\ left \in SUBSET D
  BY <1>1, FS_Subset
<1> HIDE DEF f, D
<1>3. /\ SumFunctionOnSet(f, D) = SumFunctionOnSet(f, D \ left) + SumFunctionOnSet(f, left)
      /\ SumFunctionOnSet(f, D \ left) \in Int /\ SumFunctionOnSet(f, left) \in Int
  BY <1>1, <1>2, SumSplits, SumIsInteger
<1>4. start + SumFunctionOnSet(f, D)
        = (start + SumFunctionOnSet(f, D \ left)) + SumFunctionOnSet(f, left)
  <2> DEFINE u == SumFunctionOnSet(f, D)
             v == SumFunctionOnSet(f, D \ left)
             w == SumFunctionOnSet(f, left)
  <2> HIDE DEF u, v, w
  <2>1. u = v + w /\ v \in Int /\ w \in Int
    BY <1>3 DEF u, v, w
  <2>2. start + u = (start + v) + w
    BY <2>1
  <2> QED
    BY <2>2 DEF u, v, w
<1>5. Realized(start, b, left) + PnlOf(b, left) = start + PnlOf(b, DOMAIN b)
  BY <1>4 DEF Realized, PnlOf, f, D
<1> QED
  BY <1>5 DEF Ends

---------------------------------------------------------------------------
(* StopOut: every book, of any size, with any profits, losses and margins. *)

BookTypeOK == cash \in Int /\ book \in Seq(Rows)

LEMMA BooksAreTyped == BookSpec => []BookTypeOK
<1>1. BookInit => BookTypeOK
  BY StopOutAssumption DEF BookInit, BookTypeOK
<1>2. BookTypeOK /\ [BookNext]_<<cash, book>> => BookTypeOK'
  <2> SUFFICES ASSUME BookTypeOK, [BookNext]_<<cash, book>> PROVE BookTypeOK'
    OBVIOUS
  <2>1. ASSUME NEW pnl \in Pnls, NEW notional \in Notionals, AddPosition(pnl, notional)
        PROVE  BookTypeOK'
    <3>1. [pnl |-> pnl, notional |-> notional] \in Rows
      BY StopOutAssumption DEF Pnls, Rows
    <3> QED
      BY <2>1, <3>1 DEF AddPosition, BookTypeOK
  <2>2. CASE UNCHANGED <<cash, book>>
    BY <2>2 DEF BookTypeOK
  <2> QED
    BY <2>1, <2>2 DEF BookNext
<1> QED
  BY <1>1, <1>2, PTL DEF BookSpec

(* The largest loss goes first, the earlier of two equal ones, and nothing *)
(* that stays open is worse than what was closed (stopOutPlan).            *)
THEOREM WorstFirst == BookSpec => []PlanIsWorstFirst
<1>1. BookTypeOK => PlanIsWorstFirst
  <2> SUFFICES ASSUME BookTypeOK PROVE PlanIsWorstFirst
    OBVIOUS
  <2> DEFINE n       == Len(Plan)
             rest(k) == DOMAIN book \ {Plan[j] : j \in 1..k}
  <2>1. /\ Plan \in Seq(DOMAIN book)
        /\ \A j, k \in 1..n : j # k => Plan[j] # Plan[k]
        /\ \A k \in 1..n : \A j \in rest(k - 1) : Worse(book, Plan[k], j)
    <3>1. PlanRight(cash, book, BookLeverage, StopOutLevel, Plan)
      BY PlanIsRight DEF BookTypeOK, Plan
    <3> QED
      BY <3>1 DEF PlanRight
  <2>2. n \in Nat /\ DOMAIN Plan = 1..n /\ \A k \in 1..n : Plan[k] \in DOMAIN book
    BY <2>1
  <2>3. ASSUME NEW j \in 1..n, NEW k \in 1..n, j < k
        PROVE  \/ book[Plan[j]].pnl < book[Plan[k]].pnl
               \/ book[Plan[j]].pnl = book[Plan[k]].pnl /\ Plan[j] < Plan[k]
    <3>1. \A i \in 1..(j - 1) : i \in 1..n /\ i # k
      BY <2>2, <2>3
    <3>2. Plan[k] \in rest(j - 1)
      BY <2>1, <2>2, <3>1
    <3>3. Plan[j] # Plan[k] /\ Plan[j] \in Int /\ Plan[k] \in Int
      BY <2>1, <2>2, <2>3, BookTypes DEF BookTypeOK
    <3>4. Worse(book, Plan[j], Plan[k])
      BY <2>1, <3>2
    <3> QED
      BY <3>3, <3>4 DEF Worse
  <2>4. ASSUME NEW i \in Closed, NEW j \in DOMAIN book \ Closed PROVE book[i].pnl <= book[j].pnl
    <3>1. PICK k \in 1..n : i = Plan[k]
      BY <2>2, <2>4 DEF Closed
    <3>2. \A l \in 1..(k - 1) : l \in 1..n
      BY <2>2
    <3>3. j \in rest(k - 1)
      BY <2>2, <2>4, <3>2 DEF Closed
    <3>4. Worse(book, i, j) /\ i \in DOMAIN book /\ j \in DOMAIN book
      BY <2>1, <2>2, <3>1, <3>3
    <3>5. book[i].pnl \in Int /\ book[j].pnl \in Int
      BY <3>4, BookTypes DEF BookTypeOK
    <3> QED
      BY <3>4, <3>5 DEF Worse
  <2> QED
    BY <2>2, <2>3, <2>4 DEF PlanIsWorstFirst
<1> QED
  BY <1>1, BooksAreTyped, PTL

(* The plan is enough, and no shorter part of it would have been: the loop *)
(* neither stops early nor closes a position too many (stopOutPlan).       *)
THEOREM JustEnough == BookSpec => []PlanIsJustEnough
<1>1. BookTypeOK => PlanIsJustEnough
  <2> SUFFICES ASSUME BookTypeOK PROVE PlanIsJustEnough
    OBVIOUS
  <2> DEFINE n       == Len(Plan)
             rest(k) == DOMAIN book \ {Plan[j] : j \in 1..k}
             over(k) == Ends(cash, book, BookLeverage, StopOutLevel, rest(k))
  <2>1. Plan \in Seq(DOMAIN book) /\ over(n) /\ \A k \in 0..(n - 1) : ~over(k)
    <3>1. PlanRight(cash, book, BookLeverage, StopOutLevel, Plan)
      BY PlanIsRight DEF BookTypeOK, Plan
    <3> HIDE DEF Plan
    <3> QED
      BY <3>1 DEF PlanRight
  <2>2. \A k : over(k) <=> Enough({Plan[j] : j \in 1..k})
    BY EndsByEquity DEF BookTypeOK, Enough, InUseAfter, BookEquity
  <2>3. Closed = {Plan[j] : j \in 1..n}
    BY <2>1 DEF Closed
  <2> HIDE DEF over
  <2> QED
    BY <2>1, <2>2, <2>3 DEF PlanIsJustEnough
<1> QED
  BY <1>1, BooksAreTyped, PTL

=============================================================================
