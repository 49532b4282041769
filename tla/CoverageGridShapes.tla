------------------------- MODULE CoverageGridShapes -------------------------
(***************************************************************************)
(* Theorems about CoverageGrid that are about the shape of a boundary:     *)
(* the area of a boundary is that of the cells counted inside it, and      *)
(* counting crossings tells the inside of a convex ring from its outside.  *)
(* Rings have any number of corners, so both are about sums and counts of  *)
(* any length.                                                             *)
(***************************************************************************)
EXTENDS CoverageGridProofs

-----------------------------------------------------------------------------
(***************************************************************************)
(* Induction over the subsets of a finite set, for sets of good subsets    *)
(* instead of predicates: a bad one would contain a smallest bad one.      *)
(***************************************************************************)
LEMMA BySmaller ==
  ASSUME NEW S, IsFiniteSet(S), NEW Good,
         \A T \in SUBSET S : (\A U \in SUBSET T : U # T => U \in Good) => T \in Good
  PROVE  \A T \in SUBSET S : T \in Good
<1> DEFINE Bad == {T \in FiniteSubsetsOf(S) : T \notin Good}
<1>1. SUFFICES ASSUME Bad # {} PROVE FALSE
  BY FS_Subset DEF FiniteSubsetsOf
<1>2. PICK T \in Bad : \A U \in Bad : ~ (<<U, T>> \in StrictSubsetOrdering(S))
  <2> HIDE DEF Bad
  <2>1. IsWellFoundedOn(StrictSubsetOrdering(S), FiniteSubsetsOf(S))
    BY FS_StrictSubsetOrderingWellFounded
  <2>2. Bad \subseteq FiniteSubsetsOf(S)
    BY DEF Bad
  <2> QED
    BY <1>1, <2>1, <2>2, WFMin
<1>3. T \in SUBSET S /\ T \notin Good
  BY DEF FiniteSubsetsOf
<1>4. ASSUME NEW U \in SUBSET T, U # T PROVE U \in Good
  <2>1. <<U, T>> \in StrictSubsetOrdering(S)
    BY <1>3, <1>4 DEF StrictSubsetOrdering
  <2>2. IsFiniteSet(U) /\ U \in SUBSET S
    BY <1>3, FS_Subset
  <2> QED
    BY <1>2, <2>1, <2>2 DEF FiniteSubsetsOf
<1> QED
  BY <1>3, <1>4

LEMMA ByMembers ==
  ASSUME NEW S, IsFiniteSet(S), NEW Good,
         {} \in Good,
         \A T \in SUBSET S : \A x \in S \ T : T \in Good => T \cup {x} \in Good
  PROVE  S \in Good
<1>1. ASSUME NEW T \in SUBSET S, \A U \in SUBSET T : U # T => U \in Good
      PROVE  T \in Good
  <2>1. CASE T = {}
    BY <2>1
  <2>2. CASE T # {}
    <3>1. PICK x \in T : TRUE
      BY <2>2
    <3>2. T \ {x} \in Good /\ x \in S \ (T \ {x}) /\ (T \ {x}) \cup {x} = T
      BY <1>1, <3>1
    <3> QED
      BY <3>2
  <2> QED
    BY <2>1, <2>2
<1> QED
  BY <1>1, BySmaller

-----------------------------------------------------------------------------
(***************************************************************************)
(* Sums, as MapThenSumSet computes them: the table of a sum has an entry   *)
(* for each subset, computed from that of the subset without one member.   *)
(***************************************************************************)
Pick(s) == CHOOSE x \in s : TRUE

IsTable(g, f, S) ==
    g = [s \in SUBSET S |-> IF s = {} THEN 0 ELSE f[Pick(s)] + g[s \ {Pick(s)}]]

Sum(f, S) == (CHOOSE g : IsTable(g, f, S))[S]

LEMMA PickIsMember == ASSUME NEW s, s # {} PROVE Pick(s) \in s
BY DEF Pick

LEMMA TableIsUnique ==
  ASSUME NEW S, IsFiniteSet(S), NEW f, NEW g, NEW h, IsTable(g, f, S), IsTable(h, f, S)
  PROVE  g = h
<1> DEFINE Good == {s \in SUBSET S : g[s] = h[s]}
<1>1. ASSUME NEW s \in SUBSET S, \A u \in SUBSET s : u # s => u \in Good PROVE s \in Good
  <2>1. CASE s = {}
    BY <2>1 DEF IsTable
  <2>2. CASE s # {}
    <3>1. s \ {Pick(s)} \in Good
      BY <1>1, <2>2, PickIsMember
    <3> QED
      BY <2>2, <3>1 DEF IsTable
  <2> QED
    BY <2>1, <2>2
<1>2. \A s \in SUBSET S : s \in Good
  <2> HIDE DEF Good
  <2> QED BY <1>1, BySmaller
<1> QED
  BY <1>2 DEF IsTable

LEMMA PartOfTable ==
  ASSUME NEW S, IsFiniteSet(S), NEW f, NEW g, IsTable(g, f, S), NEW T \in SUBSET S
  PROVE  Sum(f, T) = g[T]
<1> DEFINE h == [s \in SUBSET T |-> g[s]]
<1>1. IsTable(h, f, T)
  <2>1. \A s \in SUBSET T : s \in SUBSET S /\ s \ {Pick(s)} \in SUBSET T
    OBVIOUS
  <2>2. \A s \in SUBSET T : h[s] = IF s = {} THEN 0 ELSE f[Pick(s)] + h[s \ {Pick(s)}]
    BY <2>1 DEF IsTable
  <2>3. h = [s \in SUBSET T |-> h[s]]
    OBVIOUS
  <2> HIDE DEF h
  <2> QED
    BY <2>2, <2>3 DEF IsTable
<1>2. IsFiniteSet(T)
  BY FS_Subset
<1>3. (CHOOSE k : IsTable(k, f, T)) = h
  <2> HIDE DEF h
  <2>1. IsTable((CHOOSE k : IsTable(k, f, T)), f, T)
    BY <1>1
  <2> QED
    BY <1>1, <1>2, <2>1, TableIsUnique
<1> QED
  BY <1>3 DEF Sum

LEMMA TableExists ==
  ASSUME NEW S, IsFiniteSet(S), NEW f
  PROVE  \E g : IsTable(g, f, S)
<1> DEFINE Good == {T \in SUBSET S : \E g : IsTable(g, f, T)}
<1>1. ASSUME NEW T \in SUBSET S, \A u \in SUBSET T : u # T => u \in Good PROVE T \in Good
  <2> DEFINE g == [s \in SUBSET T |-> IF s = {} THEN 0 ELSE f[Pick(s)] + Sum(f, s \ {Pick(s)})]
  <2>1. ASSUME NEW u \in SUBSET T, u # T PROVE g[u] = Sum(f, u)
    <3>1. PICK k : IsTable(k, f, u)
      BY <1>1, <2>1
    <3>2. IsFiniteSet(u)
      BY FS_Subset
    <3>3. \A v \in SUBSET u : Sum(f, v) = k[v]
      BY <3>1, <3>2, PartOfTable
    <3>4. k[u] = IF u = {} THEN 0 ELSE f[Pick(u)] + k[u \ {Pick(u)}]
      BY <3>1 DEF IsTable
    <3> QED
      BY <3>3, <3>4
  <2>2. \A s \in SUBSET T : s # {} => g[s \ {Pick(s)}] = Sum(f, s \ {Pick(s)})
    <3> HIDE DEF g
    <3> QED BY <2>1, PickIsMember
  <2>3. \A s \in SUBSET T : g[s] = IF s = {} THEN 0 ELSE f[Pick(s)] + g[s \ {Pick(s)}]
    BY <2>2
  <2>4. g = [s \in SUBSET T |-> g[s]]
    OBVIOUS
  <2>5. IsTable(g, f, T)
    <3> HIDE DEF g
    <3> QED BY <2>3, <2>4 DEF IsTable
  <2> QED
    BY <2>5
<1>2. S \in Good
  <2> HIDE DEF Good
  <2> QED BY <1>1, BySmaller
<1> QED
  BY <1>2

LEMMA SumOfNone == ASSUME NEW f PROVE Sum(f, {}) = 0
<1>1. PICK g : IsTable(g, f, {})
  BY TableExists, FS_EmptySet
<1>2. Sum(f, {}) = g[{}]
  BY <1>1, PartOfTable, FS_EmptySet
<1> QED
  BY <1>1, <1>2 DEF IsTable

LEMMA SumOfSome ==
  ASSUME NEW f, NEW S, IsFiniteSet(S), S # {}
  PROVE  Pick(S) \in S /\ Sum(f, S) = f[Pick(S)] + Sum(f, S \ {Pick(S)})
<1>1. PICK g : IsTable(g, f, S)
  BY TableExists
<1>2. \A T \in SUBSET S : Sum(f, T) = g[T]
  BY <1>1, PartOfTable
<1>3. g[S] = f[Pick(S)] + g[S \ {Pick(S)}]
  BY <1>1 DEF IsTable
<1> QED
  BY <1>2, <1>3, PickIsMember

LEMMA SumIsInteger ==
  ASSUME NEW f, NEW S, IsFiniteSet(S), \A x \in S : f[x] \in Int
  PROVE  Sum(f, S) \in Int
<1> DEFINE Good == {T \in SUBSET S : Sum(f, T) \in Int}
<1>1. ASSUME NEW T \in SUBSET S, \A u \in SUBSET T : u # T => u \in Good PROVE T \in Good
  <2>1. CASE T = {}
    BY <2>1, SumOfNone
  <2>2. CASE T # {}
    <3>1. Pick(T) \in T /\ Sum(f, T) = f[Pick(T)] + Sum(f, T \ {Pick(T)})
      BY <2>2, SumOfSome, FS_Subset
    <3>2. T \ {Pick(T)} \in Good /\ f[Pick(T)] \in Int
      BY <1>1, <3>1
    <3> QED
      BY <3>1, <3>2
  <2> QED
    BY <2>1, <2>2
<1>2. S \in Good
  <2> HIDE DEF Good
  <2> QED BY <1>1, BySmaller
<1> QED
  BY <1>2

\* The order in which members are picked makes no difference.
LEMMA SumWithout ==
  ASSUME NEW f, NEW S, IsFiniteSet(S), \A x \in S : f[x] \in Int
  PROVE  \A x \in S : Sum(f, S) = f[x] + Sum(f, S \ {x})
<1> DEFINE Good == {T \in SUBSET S : \A x \in T : Sum(f, T) = f[x] + Sum(f, T \ {x})}
<1>1. ASSUME NEW T \in SUBSET S, \A u \in SUBSET T : u # T => u \in Good PROVE T \in Good
  <2> SUFFICES ASSUME NEW x \in T PROVE Sum(f, T) = f[x] + Sum(f, T \ {x})
    OBVIOUS
  <2> DEFINE p == Pick(T)
             rest == (T \ {p}) \ {x}
  <2>1. p \in T /\ Sum(f, T) = f[p] + Sum(f, T \ {p})
    BY SumOfSome, FS_Subset
  <2>2. CASE x = p
    BY <2>1, <2>2
  <2>3. CASE x # p
    <3>1. T \ {p} \in Good /\ T \ {x} \in Good /\ x \in T \ {p} /\ p \in T \ {x}
      BY <1>1, <2>1, <2>3
    <3>2. (T \ {x}) \ {p} = rest
      OBVIOUS
    <3>3. Sum(f, T \ {p}) = f[x] + Sum(f, rest) /\ Sum(f, T \ {x}) = f[p] + Sum(f, rest)
      BY <3>1, <3>2
    <3>4. IsFiniteSet(rest) /\ rest \in SUBSET S
      BY FS_Subset
    <3>5. Sum(f, rest) \in Int /\ f[x] \in Int /\ f[p] \in Int
      BY <2>1, <3>4, SumIsInteger
    <3> QED
      BY <2>1, <3>3, <3>5
  <2> QED
    BY <2>2, <2>3
<1>2. S \in Good
  <2> HIDE DEF Good
  <2> QED BY <1>1, BySmaller
<1> QED
  BY <1>2

LEMMA SumWith ==
  ASSUME NEW f, NEW S, IsFiniteSet(S), NEW x, x \notin S, \A y \in S \cup {x} : f[y] \in Int
  PROVE  Sum(f, S \cup {x}) = f[x] + Sum(f, S)
<1>1. IsFiniteSet(S \cup {x}) /\ (S \cup {x}) \ {x} = S
  BY FS_AddElement
<1> QED
  BY <1>1, SumWithout

LEMMA SumOfSame ==
  ASSUME NEW f, NEW g, NEW S, IsFiniteSet(S), \A x \in S : f[x] \in Int /\ g[x] = f[x]
  PROVE  Sum(g, S) = Sum(f, S)
<1> DEFINE Good == {T \in SUBSET S : Sum(g, T) = Sum(f, T)}
<1>1. {} \in Good
  BY SumOfNone
<1>2. ASSUME NEW T \in SUBSET S, NEW x \in S \ T, T \in Good PROVE T \cup {x} \in Good
  <2>1. IsFiniteSet(T)
    BY FS_Subset
  <2>2. Sum(f, T \cup {x}) = f[x] + Sum(f, T) /\ Sum(g, T \cup {x}) = g[x] + Sum(g, T)
    BY <2>1, SumWith
  <2> QED
    BY <1>2, <2>2
<1>3. S \in Good
  <2> HIDE DEF Good
  <2> QED BY <1>1, <1>2, ByMembers
<1> QED
  BY <1>3

LEMMA SumOfBoth ==
  ASSUME NEW f, NEW g, NEW h, NEW S, IsFiniteSet(S),
         \A x \in S : f[x] \in Int /\ g[x] \in Int /\ h[x] = f[x] + g[x]
  PROVE  Sum(h, S) = Sum(f, S) + Sum(g, S)
<1> DEFINE Good == {T \in SUBSET S : Sum(h, T) = Sum(f, T) + Sum(g, T)}
<1>1. {} \in Good
  BY SumOfNone
<1>2. ASSUME NEW T \in SUBSET S, NEW x \in S \ T, T \in Good PROVE T \cup {x} \in Good
  <2>1. IsFiniteSet(T)
    BY FS_Subset
  <2>2. /\ Sum(f, T \cup {x}) = f[x] + Sum(f, T) /\ Sum(g, T \cup {x}) = g[x] + Sum(g, T)
        /\ Sum(h, T \cup {x}) = h[x] + Sum(h, T)
    BY <2>1, SumWith
  <2>3. Sum(f, T) \in Int /\ Sum(g, T) \in Int
    BY <2>1, SumIsInteger
  <2>4. f[x] \in Int /\ g[x] \in Int /\ h[x] = f[x] + g[x]
    OBVIOUS
  <2>5. Sum(h, T) = Sum(f, T) + Sum(g, T)
    BY <1>2
  <2> QED
    BY <2>2, <2>3, <2>4, <2>5
<1>3. S \in Good
  <2> HIDE DEF Good
  <2> QED BY <1>1, <1>2, ByMembers
<1> QED
  BY <1>3

LEMMA SumOfMultiple ==
  ASSUME NEW f, NEW g, NEW c \in Int, NEW S, IsFiniteSet(S),
         \A x \in S : f[x] \in Int /\ g[x] = c * f[x]
  PROVE  Sum(g, S) = c * Sum(f, S)
<1> DEFINE Good == {T \in SUBSET S : Sum(g, T) = c * Sum(f, T)}
<1>1. {} \in Good
  BY SumOfNone
<1>2. ASSUME NEW T \in SUBSET S, NEW x \in S \ T, T \in Good PROVE T \cup {x} \in Good
  <2>1. IsFiniteSet(T)
    BY FS_Subset
  <2>2. Sum(f, T \cup {x}) = f[x] + Sum(f, T) /\ Sum(g, T \cup {x}) = g[x] + Sum(g, T)
    BY <2>1, SumWith
  <2>3. Sum(f, T) \in Int /\ f[x] \in Int /\ g[x] = c * f[x] /\ Sum(g, T) = c * Sum(f, T)
    BY <1>2, <2>1, SumIsInteger
  <2>4. \A a, b \in Int : c * (a + b) = c * a + c * b
    OBVIOUS
  <2> QED
    BY <2>2, <2>3, <2>4
<1>3. S \in Good
  <2> HIDE DEF Good
  <2> QED BY <1>1, <1>2, ByMembers
<1> QED
  BY <1>3

LEMMA SumOfZeros ==
  ASSUME NEW f, NEW S, IsFiniteSet(S), \A x \in S : f[x] = 0
  PROVE  Sum(f, S) = 0
<1>1. Sum(f, S) = 0 * Sum(f, S) /\ Sum(f, S) \in Int
  BY SumOfMultiple, SumIsInteger
<1> QED
  BY <1>1

\* A sum of ones and zeros counts the ones.
LEMMA SumOfOnes ==
  ASSUME NEW f, NEW S, IsFiniteSet(S), \A x \in S : f[x] \in {0, 1}
  PROVE  Sum(f, S) = Cardinality({x \in S : f[x] = 1})
<1> DEFINE Good == {T \in SUBSET S : Sum(f, T) = Cardinality({x \in T : f[x] = 1})}
<1>1. {} \in Good
  BY SumOfNone, FS_EmptySet
<1>2. ASSUME NEW T \in SUBSET S, NEW x \in S \ T, T \in Good PROVE T \cup {x} \in Good
  <2> DEFINE ones == {y \in T : f[y] = 1}
             more == {y \in T \cup {x} : f[y] = 1}
  <2>1. IsFiniteSet(T) /\ IsFiniteSet(ones)
    BY FS_Subset
  <2>2. Sum(f, T \cup {x}) = f[x] + Sum(f, T)
    BY <2>1, SumWith
  <2>3. Cardinality(more) = f[x] + Cardinality(ones)
    <3>1. CASE f[x] = 1
      <4>1. more = ones \cup {x} /\ x \notin ones
        BY <3>1
      <4>2. Cardinality(ones) \in Nat
        BY <2>1, FS_CardinalityType
      <4> HIDE DEF ones, more
      <4>3. Cardinality(more) = Cardinality(ones) + 1
        BY <2>1, <4>1, FS_AddElement
      <4> QED
        BY <3>1, <4>2, <4>3
    <3>2. CASE f[x] = 0
      <4>1. more = ones
        BY <3>2
      <4> QED
        BY <2>1, <3>2, <4>1, FS_CardinalityType
    <3> QED
      BY <3>1, <3>2
  <2> QED
    BY <1>2, <2>2, <2>3
<1>3. S \in Good
  <2> HIDE DEF Good
  <2> QED BY <1>1, <1>2, ByMembers
<1> QED
  BY <1>3

\* Row by row and column by column make the same.
LEMMA SumsExchange ==
  ASSUME NEW I, IsFiniteSet(I), NEW K, IsFiniteSet(K), NEW f,
         \A i \in I : \A k \in K : f[i][k] \in Int,
         NEW rows, \A i \in I : rows[i] = Sum(f[i], K),
         NEW g, \A k \in K : \A i \in I : g[k][i] = f[i][k],
         NEW columns, \A k \in K : columns[k] = Sum(g[k], I)
  PROVE  Sum(rows, I) = Sum(columns, K)
<1> DEFINE part(T) == [k \in K |-> Sum(g[k], T)]
           Good == {T \in SUBSET I : Sum(rows, T) = Sum(part(T), K)}
<1>1. {} \in Good
  BY SumOfNone, SumOfZeros
<1>2. ASSUME NEW T \in SUBSET I, NEW x \in I \ T, T \in Good PROVE T \cup {x} \in Good
  <2>1. IsFiniteSet(T)
    BY FS_Subset
  <2>2. \A i \in I : rows[i] \in Int
    BY SumIsInteger
  <2>3. Sum(rows, T \cup {x}) = rows[x] + Sum(rows, T)
    BY <2>1, <2>2, SumWith
  <2>4. \A k \in K : part(T \cup {x})[k] = f[x][k] + part(T)[k] /\ part(T)[k] \in Int
    <3> TAKE k \in K
    <3> DEFINE column == g[k]
    <3>1. \A i \in I : column[i] \in Int /\ column[i] = f[i][k]
      OBVIOUS
    <3> HIDE DEF column
    <3>2. Sum(column, T \cup {x}) = column[x] + Sum(column, T) /\ Sum(column, T) \in Int
      BY <2>1, <3>1, SumWith, SumIsInteger
    <3> QED
      BY <3>1, <3>2 DEF column
  <2>5. Sum(part(T \cup {x}), K) = Sum(f[x], K) + Sum(part(T), K)
    <3>1. \A k \in K : f[x][k] \in Int
      OBVIOUS
    <3> HIDE DEF part
    <3> DEFINE new == part(T \cup {x})
               old == part(T)
               row == f[x]
    <3>2. \A k \in K : row[k] \in Int /\ old[k] \in Int /\ new[k] = row[k] + old[k]
      BY <2>4, <3>1
    <3> HIDE DEF new, old, row
    <3>3. Sum(new, K) = Sum(row, K) + Sum(old, K)
      BY <3>2, SumOfBoth
    <3> QED BY <3>3 DEF new, old, row
  <2> QED
    BY <1>2, <2>3, <2>5
<1>3. I \in Good
  <2> HIDE DEF Good
  <2> QED BY <1>1, <1>2, ByMembers
<1>4. Sum(part(I), K) = Sum(columns, K)
  <2>1. \A k \in K : columns[k] \in Int
    <3> TAKE k \in K
    <3>1. \A i \in I : g[k][i] \in Int
      OBVIOUS
    <3> QED
      BY <3>1, SumIsInteger
  <2>2. \A k \in K : part(I)[k] = columns[k]
    OBVIOUS
  <2> HIDE DEF part
  <2> QED
    BY <2>1, <2>2, SumOfSame
<1> QED
  BY <1>3, <1>4

\* Once round, the differences from each to the next cancel out.
LEMMA DifferencesCancel ==
  ASSUME NEW n \in Nat \ {0}, NEW a, \A i \in 1 .. n : a[i] \in Int,
         NEW d, \A i \in 1 .. n : d[i] = a[(i % n) + 1] - a[i]
  PROVE  Sum(d, 1 .. n) = 0
<1>1. \A m \in 1 .. n - 1 : d[m] = a[m + 1] - a[m] /\ d[m] \in Int /\ a[m] \in Int /\ a[m + 1] \in Int
  <2> TAKE m \in 1 .. n - 1
  <2>1. m % n = m /\ m \in 1 .. n /\ m + 1 \in 1 .. n
    OBVIOUS
  <2> QED
    BY <2>1
<1>2. d[n] = a[1] - a[n] /\ a[1] \in Int /\ a[n] \in Int
  <2>1. n % n = 0 /\ n \in 1 .. n /\ 1 \in 1 .. n
    OBVIOUS
  <2> QED
    BY <2>1
<1> DEFINE S == 1 .. n - 1
           Good == {T \in SUBSET S :
                      \A m \in 0 .. n - 1 : T = 1 .. m => Sum(d, T) = a[m + 1] - a[1]}
<1>0. IsFiniteSet(S)
  BY FS_Interval
<1>3. ASSUME NEW T \in SUBSET S, \A U \in SUBSET T : U # T => U \in Good PROVE T \in Good
  <2> SUFFICES ASSUME NEW m \in 0 .. n - 1, T = 1 .. m PROVE Sum(d, T) = a[m + 1] - a[1]
    OBVIOUS
  <2>1. CASE m = 0
    <3>1. T = {}
      BY <2>1
    <3> QED
      BY <1>2, <2>1, <3>1, SumOfNone
  <2>2. CASE m # 0
    <3> DEFINE U == 1 .. m - 1
    <3>1. m - 1 \in 0 .. n - 1 /\ m \in S /\ m \in T /\ m \notin U /\ T = U \cup {m}
      BY <2>2
    <3>2. U \in SUBSET T /\ U # T
      BY <3>1
    <3>3. Sum(d, U) = a[m - 1 + 1] - a[1]
      <4>1. U \in Good
        BY <1>3, <3>2
      <4> QED
        BY <3>1, <4>1
    <3>4. \A i \in T : d[i] \in Int
      BY <1>1
    <3>5. IsFiniteSet(U)
      BY FS_Interval
    <3> HIDE DEF U
    <3>6. Sum(d, T) = d[m] + Sum(d, U)
      BY <3>1, <3>4, <3>5, SumWith
    <3>7. Sum(d, U) = a[m] - a[1]
      <4>1. m - 1 + 1 = m
        OBVIOUS
      <4> QED
        BY <3>3, <4>1
    <3>8. d[m] = a[m + 1] - a[m] /\ a[m] \in Int /\ a[m + 1] \in Int
      BY <1>1, <3>1
    <3> QED
      BY <1>2, <3>6, <3>7, <3>8
  <2> QED
    BY <2>1, <2>2
<1>4. S \in Good
  <2>1. S \in SUBSET S
    OBVIOUS
  <2> HIDE DEF Good, S
  <2>2. \A T \in SUBSET S : T \in Good
    BY <1>0, <1>3, BySmaller
  <2> QED BY <2>1, <2>2
<1>5. Sum(d, S) = a[n] - a[1]
  <2>1. n - 1 \in 0 .. n - 1 /\ S = 1 .. n - 1 /\ n - 1 + 1 = n
    OBVIOUS
  <2>2. Sum(d, S) = a[n - 1 + 1] - a[1]
    BY <1>4, <2>1
  <2> QED
    BY <2>1, <2>2
<1>6. 1 .. n = S \cup {n} /\ n \notin S
  <2>1. n \in Int /\ n >= 1
    OBVIOUS
  <2>2. \A x : x \in 1 .. n <=> x \in 1 .. n - 1 \/ x = n
    BY <2>1
  <2>3. n \notin 1 .. n - 1
    BY <2>1
  <2> QED
    BY <2>2, <2>3
<1>7. \A i \in S \cup {n} : d[i] \in Int
  BY <1>1, <1>2
<1> HIDE DEF S
<1>8. Sum(d, S \cup {n}) = d[n] + Sum(d, S)
  BY <1>0, <1>6, <1>7, SumWith
<1>9. Sum(d, S \cup {n}) = 0
  BY <1>2, <1>5, <1>8
<1> QED
  BY <1>6, <1>9

-----------------------------------------------------------------------------
(***************************************************************************)
(* The area of a boundary (PolygonArea).  An edge along the sides of       *)
(* cells adds to the shoelace sum what is to the left of it, cell by       *)
(* cell; and it adds one turn around the centres of just these cells.  So  *)
(* the sum over all edges is, for each cell, how often the ring goes       *)
(* round it.                                                               *)
(***************************************************************************)

\* Products keep the order of what is multiplied, and tell it.
LEMMA Products ==
  ASSUME NEW m \in Nat \ {0}
  PROVE  /\ \A a, b \in Int : a < b => a * m + m <= b * m
         /\ \A a, b \in Int : a * m < b * m => a < b
<1>1. ASSUME NEW a \in Int, NEW b \in Int, a < b PROVE a * m + m <= b * m
  <2>1. PICK d \in Nat : b = a + 1 + d
    <3>1. b - a - 1 \in Nat /\ b = a + 1 + (b - a - 1)
      BY <1>1
    <3> QED BY <3>1
  <2>2. b * m = a * m + m + d * m /\ d * m \in Nat /\ a * m \in Int
    BY <2>1
  <2> QED
    BY <2>2
<1>2. ASSUME NEW a \in Int, NEW b \in Int, a * m < b * m PROVE a < b
  <2>1. CASE b < a
    <3>1. b * m + m <= a * m /\ b * m \in Int /\ a * m \in Int
      BY <1>1, <2>1
    <3> QED
      BY <1>2, <3>1
  <2>2. CASE b = a
    <3>1. a * m \in Int
      OBVIOUS
    <3> QED
      BY <1>2, <2>2, <3>1
  <2> QED
    BY <2>1, <2>2
<1> QED
  BY <1>1, <1>2

\* Cells are numbered row by row.
LEMMA RowAndColumn ==
  ASSUME NEW m \in Nat \ {0}
  PROVE  /\ \A k \in Int : /\ k = (k \div m) * m + (k % m)
                           /\ k \div m \in Int /\ k % m \in 0 .. m - 1
         /\ \A v \in Int : \A u \in 0 .. m - 1 : (v * m + u) % m = u /\ (v * m + u) \div m = v
<1>1. ASSUME NEW k \in Int
      PROVE  k = (k \div m) * m + (k % m) /\ k \div m \in Int /\ k % m \in 0 .. m - 1
  OBVIOUS
<1>2. ASSUME NEW v \in Int, NEW u \in 0 .. m - 1
      PROVE  (v * m + u) % m = u /\ (v * m + u) \div m = v
  <2> DEFINE k == v * m + u
             w == k \div m
             r == k % m
  <2>1. k \in Int /\ v * m \in Int
    OBVIOUS
  <2>2. k = w * m + r /\ w \in Int /\ r \in 0 .. m - 1
    BY <1>1, <2>1
  <2>3. w * m \in Int
    BY <2>2
  <2>4. v * m + u = w * m + r
    BY <2>2
  <2> HIDE DEF k, w, r
  <2>5. CASE w < v
    <3>1. w * m + m <= v * m
      BY <2>2, <2>5, Products
    <3> QED
      BY <2>1, <2>2, <2>3, <2>4, <3>1
  <2>6. CASE v < w
    <3>1. v * m + m <= w * m
      BY <2>2, <2>6, Products
    <3> QED
      BY <2>1, <2>2, <2>3, <2>4, <3>1
  <2>7. CASE w = v
    BY <2>1, <2>2, <2>4, <2>7 DEF k, w, r
  <2> QED
    BY <2>2, <2>5, <2>6, <2>7
<1> QED
  BY <1>1, <1>2

\* The cells of the rows from b to c, as far as a column.
LEMMA CellsOfRectangle ==
  ASSUME NEW columns \in Nat \ {0}, NEW rows \in Nat, NEW a \in 0 .. columns,
         NEW b \in 0 .. rows, NEW c \in b .. rows
  PROVE  LET part == {k \in 0 .. columns * rows - 1 :
                         k % columns < a /\ b <= k \div columns /\ k \div columns < c}
         IN  IsFiniteSet(part) /\ Cardinality(part) = a * (c - b)
<1> DEFINE part == {k \in 0 .. columns * rows - 1 :
                       k % columns < a /\ b <= k \div columns /\ k \div columns < c}
           I == 0 .. a - 1
           J == b .. c - 1
           f == [p \in I \X J |-> p[2] * columns + p[1]]
<1>1. IsFiniteSet(I \X J) /\ Cardinality(I \X J) = a * (c - b)
  <2>1. IsFiniteSet(I) /\ Cardinality(I) = a /\ IsFiniteSet(J) /\ Cardinality(J) = c - b
    <3>1. \A x, y \in Int : IsFiniteSet(x .. y) /\ Cardinality(x .. y) = IF x > y THEN 0 ELSE y - x + 1
      BY FS_Interval
    <3>2. IsFiniteSet(I) /\ Cardinality(I) = IF 0 > a - 1 THEN 0 ELSE a - 1 - 0 + 1
      BY <3>1
    <3>3. IsFiniteSet(J) /\ Cardinality(J) = IF b > c - 1 THEN 0 ELSE c - 1 - b + 1
      BY <3>1
    <3> QED
      BY <3>2, <3>3
  <2> QED
    BY <2>1, FS_Product
<1>2. \A u \in I, v \in J : /\ (v * columns + u) % columns = u
                            /\ (v * columns + u) \div columns = v
                            /\ v * columns + u \in 0 .. columns * rows - 1
  <2> TAKE u \in I, v \in J
  <2>1. u \in 0 .. columns - 1 /\ v \in Int /\ rows \in Int /\ v < rows /\ v >= 0
    OBVIOUS
  <2>2. v * columns + columns <= rows * columns
    BY <2>1, Products
  <2>3. v * columns \in Nat /\ rows * columns = columns * rows /\ columns * rows \in Int
    BY <2>1
  <2> QED
    BY <2>1, <2>2, <2>3, RowAndColumn
<1>3. \A p \in I \X J : p[1] \in I /\ p[2] \in J /\ p = <<p[1], p[2]>>
  OBVIOUS
<1>4. f \in [I \X J -> part]
  <2>1. ASSUME NEW p \in I \X J PROVE p[2] * columns + p[1] \in part
    <3>1. p[1] \in I /\ p[2] \in J /\ p[1] < a /\ b <= p[2] /\ p[2] < c
      BY <1>3
    <3> HIDE DEF I, J
    <3>2. /\ (p[2] * columns + p[1]) % columns = p[1]
          /\ (p[2] * columns + p[1]) \div columns = p[2]
          /\ p[2] * columns + p[1] \in 0 .. columns * rows - 1
      BY <1>2, <3>1
    <3> QED
      BY <3>1, <3>2
  <2> QED
    BY <2>1
<1>5. \A p, q \in I \X J : f[p] = f[q] => p = q
  <2> TAKE p, q \in I \X J
  <2> HAVE f[p] = f[q]
  <2>1. p[2] * columns + p[1] = q[2] * columns + q[1]
    OBVIOUS
  <2> HIDE DEF I, J, f
  <2>2. p[1] = q[1] /\ p[2] = q[2]
    BY <1>2, <1>3, <2>1
  <2> QED
    BY <1>3, <2>2
<1>6. \A k \in part : \E p \in I \X J : f[p] = k
  <2> TAKE k \in part
  <2> DEFINE u == k % columns
             v == k \div columns
  <2>1. k \in Int /\ k = v * columns + u /\ u \in 0 .. columns - 1 /\ v \in Int
    BY RowAndColumn
  <2>2. u \in I /\ v \in J
    BY <2>1
  <2>3. <<u, v>> \in I \X J /\ f[<<u, v>>] = v * columns + u
    BY <2>2
  <2> QED
    BY <2>1, <2>3
<1>7. ExistsBijection(I \X J, part)
  <2> HIDE DEF I, J, part, f
  <2>1. f \in Bijection(I \X J, part)
    BY <1>4, <1>5, <1>6 DEF Bijection, Injection, Surjection, IsInjective
  <2> QED
    BY <2>1 DEF ExistsBijection
<1> QED
  <2> HIDE DEF I, J, part
  <2> QED BY <1>1, <1>7, FS_Bijection DEF part

\* The line to the right of a point meets an upright edge that starts or ends above it.
LEMMA CrossesUpright ==
  ASSUME NEW at \in Int, NEW from \in Int, NEW to \in Int, NEW x \in Int, NEW y \in Int
  PROVE  Crosses(<<at, to>>, <<at, from>>, <<x, y>>) <=> (to > y) # (from > y) /\ x < at
<1> DEFINE rise == from - to
           ahead == x - at
<1>1. Crosses(<<at, to>>, <<at, from>>, <<x, y>>) <=>
         (to > y) # (from > y) /\ ahead * rise * rise < (at - at) * (y - to) * rise
  BY DEF Crosses
<1>2. (at - at) * (y - to) * rise = 0
  OBVIOUS
<1>3. ASSUME (to > y) # (from > y) PROVE ahead * rise * rise < 0 <=> x < at
  <2>1. rise \in Int /\ rise # 0 /\ ahead \in Int /\ (x < at <=> ahead < 0)
    BY <1>3
  <2> HIDE DEF rise, ahead
  <2>2. rise * rise \in Nat \ {0} /\ ahead * rise * rise = ahead * (rise * rise)
    BY <2>1
  <2>3. \A m \in Nat \ {0} : ahead * m < 0 * m <=> ahead < 0
    <3> TAKE m \in Nat \ {0}
    <3>1. ahead * m < 0 * m => ahead < 0
      BY <2>1, Products
    <3>2. ahead < 0 => ahead * m + m <= 0 * m
      BY <2>1, Products
    <3>3. ahead * m \in Int /\ 0 * m = 0
      BY <2>1
    <3> QED
      BY <3>1, <3>2, <3>3
  <2>4. 0 * (rise * rise) = 0
    BY <2>2
  <2> QED
    BY <2>1, <2>2, <2>3, <2>4
<1> HIDE DEF rise, ahead
<1> QED
  BY <1>1, <1>2, <1>3

\* What an edge adds to how often a ring goes round the point.
Turn(p, q, point) == IF ~Crosses(q, p, point) THEN 0 ELSE IF q[2] > p[2] THEN 1 ELSE -1

\* A corner of a cell, and where a centre lies of it.
Corner(a, b) == <<bounds.minX + a * resolution, bounds.minY + b * resolution>>

LEMMA CenterAndCorner ==
  ASSUME OnGrid, NEW k \in 0 .. Cells - 1, NEW a \in Int, NEW b \in Int
  PROVE  /\ Center(k) = <<Center(k)[1], Center(k)[2]>> /\ Center(k)[1] \in Int /\ Center(k)[2] \in Int
         /\ Corner(a, b) \in Int \X Int
         /\ Center(k)[1] < Corner(a, b)[1] <=> k % Columns < a
         /\ Corner(a, b)[2] > Center(k)[2] <=> k \div Columns < b
<1> DEFINE u == k % Columns
           v == k \div Columns
           half == resolution \div 2
<1>1. Columns \in Nat \ {0} /\ k \in Int /\ bounds.minX \in Int /\ bounds.minY \in Int
  BY GridSize DEF Box
<1>2. u \in Int /\ v \in Int
  BY <1>1, RowAndColumn
<1>3. resolution \in Nat \ {0} /\ half \in Nat \ {0} /\ half < resolution
  BY HalfOf DEF OnGrid
<1>4. Center(k) = <<bounds.minX + u * resolution + half, bounds.minY + v * resolution + half>>
  BY DEF Center, bounds
<1> HIDE DEF u, v, half
<1>5. ASSUME NEW m \in Int, NEW n \in Int, NEW c \in Int
      PROVE  /\ c + m * resolution + half < c + n * resolution <=> m < n
             /\ c + m * resolution + half \in Int /\ c + n * resolution \in Int
  <2>1. m * resolution \in Int /\ n * resolution \in Int
    BY <1>3
  <2>2. m < n => m * resolution + resolution <= n * resolution
    BY <1>3, Products
  <2>3. m * resolution + half < n * resolution => m * resolution < n * resolution
    BY <1>3, <2>1
  <2>4. m * resolution < n * resolution => m < n
    BY <1>3, Products
  <2>5. m < n => c + m * resolution + half < c + n * resolution
    BY <1>3, <2>1, <2>2
  <2>6. c + m * resolution + half < c + n * resolution => m < n
    BY <1>3, <2>1, <2>3, <2>4
  <2> QED
    BY <1>3, <2>1, <2>5, <2>6
<1>6. /\ Center(k)[1] = bounds.minX + u * resolution + half
      /\ Center(k)[2] = bounds.minY + v * resolution + half
  BY <1>4
<1>7. /\ Corner(a, b)[1] = bounds.minX + a * resolution
      /\ Corner(a, b)[2] = bounds.minY + b * resolution
      /\ Corner(a, b) = <<Corner(a, b)[1], Corner(a, b)[2]>>
  BY DEF Corner
<1>8. /\ Center(k)[1] < Corner(a, b)[1] <=> u < a
      /\ Center(k)[1] \in Int /\ Corner(a, b)[1] \in Int
  <2>1. /\ bounds.minX + u * resolution + half < bounds.minX + a * resolution <=> u < a
        /\ bounds.minX + u * resolution + half \in Int /\ bounds.minX + a * resolution \in Int
    BY <1>1, <1>2, <1>5
  <2> QED
    BY <1>6, <1>7, <2>1
<1>9. /\ Center(k)[2] < Corner(a, b)[2] <=> v < b
      /\ Center(k)[2] \in Int /\ Corner(a, b)[2] \in Int
  <2>1. /\ bounds.minY + v * resolution + half < bounds.minY + b * resolution <=> v < b
        /\ bounds.minY + v * resolution + half \in Int /\ bounds.minY + b * resolution \in Int
    BY <1>1, <1>2, <1>5
  <2> QED
    BY <1>6, <1>7, <2>1
<1>10. /\ Center(k)[1] \in Int /\ Center(k)[2] \in Int
       /\ Corner(a, b)[1] \in Int /\ Corner(a, b)[2] \in Int
  BY <1>8, <1>9
<1>11. Corner(a, b) \in Int \X Int /\ Center(k) = <<Center(k)[1], Center(k)[2]>>
  BY <1>4, <1>7, <1>10
<1> QED
  BY <1>8, <1>9, <1>10, <1>11 DEF u, v

LEMMA TurnOfEdge ==
  ASSUME OnGrid, NEW k \in 0 .. Cells - 1,
         NEW a \in Int, NEW a2 \in Int, NEW b \in Int, NEW c \in Int,
         a = a2 \/ b = c
  PROVE  Turn(Corner(a, b), Corner(a2, c), Center(k)) =
           IF k % Columns < a /\ b <= k \div Columns /\ k \div Columns < c THEN 1
           ELSE IF k % Columns < a /\ c <= k \div Columns /\ k \div Columns < b THEN -1
           ELSE 0
<1> DEFINE p == Corner(a, b)
           q == Corner(a2, c)
           z == Center(k)
           u == k % Columns
           v == k \div Columns
<1>1. /\ z = <<z[1], z[2]>> /\ z[1] \in Int /\ z[2] \in Int
      /\ p \in Int \X Int /\ q \in Int \X Int
      /\ z[1] < p[1] <=> u < a
      /\ p[2] > z[2] <=> v < b
      /\ q[2] > z[2] <=> v < c
  BY CenterAndCorner
<1>2. u \in Int /\ v \in Int
  <2>1. Columns \in Nat \ {0} /\ k \in Int
    BY GridSize
  <2> QED
    BY <2>1, RowAndColumn
<1>3. a = a2 => p[1] = q[1]
  BY DEF Corner
<1>4. b = c => p[2] = q[2]
  BY DEF Corner
<1> HIDE DEF p, q, z, u, v
<1>5. CASE b = c
  <2>1. ~Crosses(q, p, z)
    BY <1>4, <1>5 DEF Crosses
  <2> QED
    BY <1>2, <1>5, <2>1 DEF Turn, p, q, z, u, v
<1>6. CASE a = a2
  <2>1. p = <<p[1], p[2]>> /\ q = <<p[1], q[2]>> /\ p[1] \in Int /\ p[2] \in Int /\ q[2] \in Int
    BY <1>1, <1>3, <1>6
  <2>2. Crosses(q, p, z) <=> (q[2] > z[2]) # (p[2] > z[2]) /\ z[1] < p[1]
    BY <1>1, <2>1, CrossesUpright
  <2>3. Crosses(q, p, z) <=> (v < c) # (v < b) /\ u < a
    BY <1>1, <2>2
  <2>4. CASE v < c /\ ~(v < b)
    BY <1>1, <1>2, <2>1, <2>3, <2>4 DEF Turn, p, q, z, u, v
  <2>5. CASE ~(v < c) /\ v < b
    BY <1>1, <1>2, <2>1, <2>3, <2>5 DEF Turn, p, q, z, u, v
  <2>6. CASE (v < c) = (v < b)
    BY <1>1, <1>2, <2>1, <2>3, <2>6 DEF Turn, p, q, z, u, v
  <2> QED
    BY <2>4, <2>5, <2>6
<1> QED
  BY <1>5, <1>6

\* Over all cells, an edge adds as many turns as there are cells between it
\* and the left side of the grid.
AllCells == 0 .. Cells - 1

Turns(p, q) == [k \in AllCells |-> Turn(p, q, Center(k))]

LEMMA TurnsOfEdge ==
  ASSUME OnGrid, NEW a \in 0 .. Columns, NEW a2 \in 0 .. Columns,
         NEW b \in 0 .. Rows, NEW c \in 0 .. Rows,
         a = a2 \/ b = c
  PROVE  Sum(Turns(Corner(a, b), Corner(a2, c)), AllCells) = a * (c - b)
<1> DEFINE t == Turns(Corner(a, b), Corner(a2, c))
           part(low, high) == {k \in AllCells :
                                  k % Columns < a /\ low <= k \div Columns /\ k \div Columns < high}
           count(low, high) == [k \in AllCells |-> IF k \in part(low, high) THEN 1 ELSE 0]
<1>1. Columns \in Nat /\ Rows \in Nat /\ Cells \in Nat /\ Cells = Columns * Rows
  BY GridSize DEF Cells
<1>2. IsFiniteSet(AllCells)
  BY <1>1, FS_Interval DEF AllCells
<1>3. CASE Columns = 0
  <2>1. AllCells = {} /\ a = 0
    BY <1>1, <1>3 DEF AllCells
  <2>2. a * (c - b) = 0
    BY <1>1, <2>1
  <2> QED
    BY <2>1, <2>2, SumOfNone
<1>4. CASE Columns # 0
  <2>1. ASSUME NEW low \in 0 .. Rows, NEW high \in low .. Rows
        PROVE  Sum(count(low, high), AllCells) = a * (high - low)
    <3>1. Cardinality(part(low, high)) = a * (high - low)
      <4>1. Columns \in Nat \ {0}
        BY <1>1, <1>4
      <4> QED
        BY <1>1, <4>1, CellsOfRectangle DEF AllCells
    <3>2. \A k \in AllCells : count(low, high)[k] \in {0, 1}
      OBVIOUS
    <3>3. {k \in AllCells : count(low, high)[k] = 1} = part(low, high)
      OBVIOUS
    <3> HIDE DEF part, count
    <3> QED
      BY <1>2, <3>1, <3>2, <3>3, SumOfOnes
  <2>2. \A k \in AllCells : k \div Columns \in Int
    <3>1. Columns \in Nat \ {0} /\ \A k \in AllCells : k \in Int
      BY <1>1, <1>4 DEF AllCells
    <3> QED
      BY <3>1, RowAndColumn
  <2>3. \A k \in AllCells : t[k] = IF k \in part(b, c) THEN 1 ELSE IF k \in part(c, b) THEN -1 ELSE 0
    <3> TAKE k \in AllCells
    <3>1. t[k] = Turn(Corner(a, b), Corner(a2, c), Center(k))
      BY DEF Turns
    <3>2. k \in 0 .. Cells - 1 /\ a \in Int /\ a2 \in Int /\ b \in Int /\ c \in Int
      BY <1>1 DEF AllCells
    <3> HIDE DEF t
    <3> QED
      BY <3>1, <3>2, TurnOfEdge
  <2>4. CASE b <= c
    <3>1. \A k \in AllCells : k \notin part(c, b)
      BY <1>1, <2>2, <2>4
    <3>2. \A k \in AllCells : t[k] = count(b, c)[k] /\ count(b, c)[k] \in Int
      BY <2>3, <3>1
    <3>3. c \in b .. Rows
      BY <2>4
    <3> HIDE DEF t, count, part
    <3>4. Sum(t, AllCells) = Sum(count(b, c), AllCells)
      BY <1>2, <3>2, SumOfSame
    <3> QED
      BY <2>1, <3>3, <3>4 DEF t
  <2>5. CASE c < b
    <3>1. \A k \in AllCells : k \notin part(b, c)
      BY <1>1, <2>2, <2>5
    <3>2. \A k \in AllCells : t[k] = (-1) * count(c, b)[k] /\ count(c, b)[k] \in Int
      BY <2>3, <3>1
    <3>3. b \in c .. Rows /\ -1 \in Int
      BY <2>5
    <3>4. Sum(count(c, b), AllCells) = a * (b - c)
      BY <2>1, <3>3
    <3> HIDE DEF t, count, part
    <3>5. Sum(t, AllCells) = (-1) * Sum(count(c, b), AllCells)
      BY <1>2, <3>2, <3>3, SumOfMultiple
    <3>6. (-1) * (a * (b - c)) = a * (c - b)
      BY <1>1
    <3> QED
      BY <3>4, <3>5, <3>6 DEF t
  <2> QED
    BY <1>1, <2>4, <2>5
<1> QED
  BY <1>3, <1>4

\* The area of a ring is such a sum.
LEMMA RingAreaIsSum ==
  ASSUME NEW ring, IsFiniteSet(DOMAIN ring), NEW cross,
         \A i \in DOMAIN ring : cross[i] = Cross(ring[i], After(ring, i))
  PROVE  ringArea(ring) = Sum(cross, DOMAIN ring)
<1> DEFINE S == DOMAIN ring
           P(g) == g = [s \in SUBSET S |->
                          IF s = {} THEN 0
                          ELSE Cross(ring[Pick(s)], After(ring, Pick(s))) + g[s \ {Pick(s)}]]
<1>1. \A g : P(g) <=> IsTable(g, cross, S)
  <2> TAKE g
  <2>1. \A s \in SUBSET S : s # {} => cross[Pick(s)] = Cross(ring[Pick(s)], After(ring, Pick(s)))
    BY PickIsMember
  <2>2. [s \in SUBSET S |-> IF s = {} THEN 0
                            ELSE Cross(ring[Pick(s)], After(ring, Pick(s))) + g[s \ {Pick(s)}]]
        = [s \in SUBSET S |-> IF s = {} THEN 0 ELSE cross[Pick(s)] + g[s \ {Pick(s)}]]
    BY <2>1
  <2> QED
    BY <2>2 DEF IsTable
<1>2. (CHOOSE g : P(g)) = (CHOOSE g : IsTable(g, cross, S))
  <2> HIDE DEF P
  <2> QED BY <1>1
<1>3. ringArea(ring) = (CHOOSE g : P(g))[S]
  BY DEF ringArea, MapThenSumSet, MapThenFoldSet, Pick
<1> QED
  BY <1>2, <1>3 DEF Sum

\* What is left of the area when that of the cells is taken off.
Left(p) == 2 * bounds.minX * p[2] - p[1] * p[2]

\* Each edge contributes twice the cells to the left of it, and a difference
\* of its ends.
LEMMA CrossOfEdge ==
  ASSUME OnGrid, NEW a \in 0 .. Columns, NEW a2 \in 0 .. Columns,
         NEW b \in 0 .. Rows, NEW c \in 0 .. Rows,
         a = a2 \/ b = c
  PROVE  Cross(Corner(a, b), Corner(a2, c)) =
           (2 * resolution * resolution) * (a * (c - b)) + (Left(Corner(a2, c)) - Left(Corner(a, b)))
<1> DEFINE p == Corner(a, b)
           q == Corner(a2, c)
           x == bounds.minX
           y == bounds.minY
           r == resolution
<1>1. x \in Int /\ y \in Int /\ r \in Int /\ a \in Int /\ a2 \in Int /\ b \in Int /\ c \in Int
  BY GridSize DEF Box, OnGrid
<1>2. /\ p[1] = x + a * r /\ p[2] = y + b * r
      /\ q[1] = x + a2 * r /\ q[2] = y + c * r
  BY DEF Corner
<1> SUFFICES Cross(p, q) = 2 * r * r * (a * (c - b))
                             + ((2 * x * q[2] - q[1] * q[2]) - (2 * x * p[2] - p[1] * p[2]))
  BY DEF Left
<1> HIDE DEF p, q, x, y, r
<1>3. Cross(p, q) = (x + a * r) * (y + c * r) - (x + a2 * r) * (y + b * r)
  BY <1>2 DEF Cross
<1>4. CASE a = a2
  <2>1. (x + a * r) * (y + c * r) - (x + a * r) * (y + b * r)
          = 2 * r * r * (a * (c - b))
             + ((2 * x * (y + c * r) - (x + a * r) * (y + c * r))
                 - (2 * x * (y + b * r) - (x + a * r) * (y + b * r)))
    BY <1>1
  <2> QED
    BY <1>2, <1>3, <1>4, <2>1
<1>5. CASE b = c
  <2>1. (x + a * r) * (y + b * r) - (x + a2 * r) * (y + b * r)
          = 2 * r * r * (a * (b - b))
             + ((2 * x * (y + b * r) - (x + a2 * r) * (y + b * r))
                 - (2 * x * (y + b * r) - (x + a * r) * (y + b * r)))
    BY <1>1
  <2> QED
    BY <1>2, <1>3, <1>5, <2>1
<1> QED
  BY <1>4, <1>5

\* A ring of corners of cells and sides of cells.
OfCells(ring) ==
    /\ ring \in Seq(Int \X Int)
    /\ \A i \in DOMAIN ring :
          \E a, a2 \in 0 .. Columns : \E b, c \in 0 .. Rows :
             ring[i] = Corner(a, b) /\ After(ring, i) = Corner(a2, c) /\ (a = a2 \/ b = c)

LEMMA NextCorner ==
  ASSUME NEW ring \in Seq(Int \X Int), NEW i \in DOMAIN ring
  PROVE  /\ Len(ring) \in Nat \ {0} /\ DOMAIN ring = 1 .. Len(ring)
         /\ (i % Len(ring)) + 1 \in DOMAIN ring
         /\ ring[i] \in Int \X Int /\ After(ring, i) \in Int \X Int
<1>1. Len(ring) \in Nat \ {0} /\ i \in Nat /\ DOMAIN ring = 1 .. Len(ring)
  OBVIOUS
<1>2. (i % Len(ring)) + 1 \in DOMAIN ring
  <2>1. \A m \in Nat \ {0} : (i % m) + 1 \in 1 .. m
    BY <1>1
  <2> QED
    BY <1>1, <2>1
<1> QED
  BY <1>1, <1>2 DEF After

LEMMA RingAreaByTurns ==
  ASSUME OnGrid, NEW ring, OfCells(ring)
  PROVE  LET turns == [i \in DOMAIN ring |-> Turns(ring[i], After(ring, i))]
             at == [k \in AllCells |-> [i \in DOMAIN ring |-> turns[i][k]]]
             around == [k \in AllCells |-> Sum(at[k], DOMAIN ring)]
         IN  ringArea(ring) = 2 * resolution * resolution * Sum(around, AllCells)
<1> DEFINE I == DOMAIN ring
           n == Len(ring)
           x == bounds.minX
           turns == [i \in I |-> Turns(ring[i], After(ring, i))]
           at == [k \in AllCells |-> [i \in I |-> turns[i][k]]]
           around == [k \in AllCells |-> Sum(at[k], I)]
           rows == [i \in I |-> Sum(turns[i], AllCells)]
           cross == [i \in I |-> Cross(ring[i], After(ring, i))]
           ends == [i \in I |-> Left(ring[i])]
           rest == [i \in I |-> ends[(i % n) + 1] - ends[i]]
           area == [i \in I |-> (2 * resolution * resolution) * rows[i]]
<1>1. n \in Nat /\ I = 1 .. n /\ IsFiniteSet(I) /\ ring \in Seq(Int \X Int)
  BY FS_Interval DEF OfCells
<1>2. x \in Int /\ bounds.minY \in Int /\ resolution \in Int /\ 2 * resolution * resolution \in Int
  <2>1. x \in Int /\ bounds.minY \in Int
    BY GridSize DEF Box
  <2>2. resolution \in Int
    BY DEF OnGrid
  <2> QED
    BY <2>1, <2>2
<1>3. IsFiniteSet(AllCells)
  BY GridSize, FS_Interval DEF AllCells
<1>4. \A i \in I : /\ (i % n) + 1 \in I /\ ring[i][1] \in Int /\ ring[i][2] \in Int
                   /\ After(ring, i) = ring[(i % n) + 1]
  BY <1>1, NextCorner DEF After
<1>5. \A i \in I : ends[i] \in Int
  <2>1. \A u, v, w \in Int : 2 * u * v - w * v \in Int
    OBVIOUS
  <2> HIDE DEF x
  <2>2. \A i \in I : 2 * x * ring[i][2] - ring[i][1] * ring[i][2] \in Int
    BY <1>2, <1>4, <2>1
  <2> QED
    BY <2>2 DEF Left, x
<1>6. \A i \in I : rows[i] \in Int /\ cross[i] = area[i] + rest[i]
  <2> TAKE i \in I
  <2>1. PICK a, a2 \in 0 .. Columns : \E b, c \in 0 .. Rows :
           ring[i] = Corner(a, b) /\ After(ring, i) = Corner(a2, c) /\ (a = a2 \/ b = c)
    BY DEF OfCells
  <2>2. PICK b, c \in 0 .. Rows :
           ring[i] = Corner(a, b) /\ After(ring, i) = Corner(a2, c) /\ (a = a2 \/ b = c)
    BY <2>1
  <2>3. rows[i] = Sum(Turns(Corner(a, b), Corner(a2, c)), AllCells)
    BY <2>2
  <2>4. rows[i] = a * (c - b)
    BY <2>2, <2>3, TurnsOfEdge
  <2>5. a \in Int /\ a2 \in Int /\ b \in Int /\ c \in Int /\ a * (c - b) \in Int
    OBVIOUS
  <2>6. /\ cross[i] = Cross(ring[i], After(ring, i))
        /\ rest[i] = Left(After(ring, i)) - Left(ring[i])
        /\ area[i] = (2 * resolution * resolution) * rows[i]
    BY <1>4
  <2> HIDE DEF cross, rest, area, rows
  <2>7. Cross(ring[i], After(ring, i)) = (2 * resolution * resolution) * (a * (c - b))
                                           + (Left(After(ring, i)) - Left(ring[i]))
    <3>1. Cross(Corner(a, b), Corner(a2, c)) =
           (2 * resolution * resolution) * (a * (c - b)) + (Left(Corner(a2, c)) - Left(Corner(a, b)))
      BY <2>2, <2>5, CrossOfEdge
    <3> QED
      BY <2>2, <3>1
  <2> QED
    BY <2>4, <2>5, <2>6, <2>7
<1>7. Sum(rest, I) = 0
  <2>1. CASE n = 0
    <3>1. I = {}
      BY <1>1, <2>1
    <3> QED
      BY <3>1, SumOfNone
  <2>2. CASE n # 0
    <3>1. \A i \in 1 .. n : ends[i] \in Int /\ rest[i] = ends[(i % n) + 1] - ends[i]
      BY <1>1, <1>5
    <3>2. n \in Nat \ {0}
      BY <1>1, <2>2
    <3> HIDE DEF n, ends, rest
    <3>3. Sum(rest, 1 .. n) = 0
      BY <3>1, <3>2, DifferencesCancel
    <3> QED
      BY <1>1, <3>3
  <2> QED
    BY <2>1, <2>2
<1>8. \A i \in I : rest[i] \in Int
  BY <1>4, <1>5
<1>9. \A i \in I : area[i] = (2 * resolution * resolution) * rows[i] /\ area[i] \in Int
  <2>1. \A u, v \in Int : u * v \in Int
    OBVIOUS
  <2> DEFINE m == 2 * resolution * resolution
  <2>2. m \in Int
    BY <1>2
  <2> HIDE DEF m, rows
  <2>3. \A i \in I : m * rows[i] \in Int
    BY <1>6, <2>1, <2>2
  <2> QED
    BY <2>3 DEF m
<1>10. ringArea(ring) = Sum(cross, I)
  BY <1>1, RingAreaIsSum
<1>11. Sum(cross, I) = Sum(area, I) + Sum(rest, I)
  <2>1. IsFiniteSet(I) /\ \A i \in I : area[i] \in Int /\ rest[i] \in Int /\ cross[i] = area[i] + rest[i]
    BY <1>1, <1>6, <1>8, <1>9
  <2> HIDE DEF cross, area, rest, I
  <2> QED BY <2>1, SumOfBoth
<1>12. Sum(area, I) = (2 * resolution * resolution) * Sum(rows, I)
  <2> DEFINE m == 2 * resolution * resolution
  <2>1. m \in Int /\ \A i \in I : rows[i] \in Int /\ area[i] = m * rows[i]
    BY <1>2, <1>6, <1>9
  <2> HIDE DEF area, rows, I, m
  <2>2. Sum(area, I) = m * Sum(rows, I)
    BY <1>1, <2>1, SumOfMultiple
  <2> QED
    BY <2>2 DEF m
<1>13. Sum(rows, I) = Sum(around, AllCells)
  <2>1. \A i \in I : \A k \in AllCells : turns[i][k] \in Int
    BY DEF Turns, Turn
  <2>2. \A i \in I : rows[i] = Sum(turns[i], AllCells)
    OBVIOUS
  <2>3. \A k \in AllCells : around[k] = Sum(at[k], I) /\ \A i \in I : at[k][i] = turns[i][k]
    OBVIOUS
  <2>4. IsFiniteSet(I)
    BY <1>1
  <2> HIDE DEF rows, around, turns, at, I
  <2> QED
    BY <1>3, <2>1, <2>2, <2>3, <2>4, SumsExchange
<1>14. Sum(area, I) \in Int
  <2> HIDE DEF area, I
  <2> QED BY <1>1, <1>9, SumIsInteger
<1>15. ringArea(ring) = 2 * resolution * resolution * Sum(around, AllCells)
  BY <1>7, <1>10, <1>11, <1>12, <1>13, <1>14
<1> QED
  BY <1>15

\* The turns of all edges make how often a ring goes round, and a point it
\* goes round an odd number of times is contained.
LEMMA WindingOfRing ==
  ASSUME NEW ring \in Seq(Int \X Int), NEW point,
         NEW t, \A i \in DOMAIN ring : t[i] = Turn(ring[i], After(ring, i), point)
  PROVE  /\ Sum(t, DOMAIN ring) = Winding(ring, point)
         /\ Winding(ring, point) \in {0, 1, -1} =>
               (ringContains(ring, point) <=> Winding(ring, point) # 0)
<1> DEFINE I == DOMAIN ring
           crossing == {i \in I : Crosses(After(ring, i), ring[i], point)}
           ups == {i \in crossing : Upward(ring, i)}
           downs == {i \in crossing : ~Upward(ring, i)}
           up == [i \in I |-> IF i \in ups THEN 1 ELSE 0]
           down == [i \in I |-> IF i \in downs THEN 1 ELSE 0]
           minus == [i \in I |-> (-1) * down[i]]
<1>1. IsFiniteSet(I)
  <2>1. I = 1 .. Len(ring) /\ Len(ring) \in Nat
    OBVIOUS
  <2> QED
    BY <2>1, FS_Interval
<1>2. IsFiniteSet(ups) /\ IsFiniteSet(downs) /\ crossing = ups \cup downs /\ ups \cap downs = {}
  BY <1>1, FS_Subset
<1>3. Cardinality(ups) \in Nat /\ Cardinality(downs) \in Nat
      /\ Cardinality(crossing) = Cardinality(ups) + Cardinality(downs)
  <2>1. Cardinality(ups) \in Nat /\ Cardinality(downs) \in Nat
    BY <1>2, FS_CardinalityType
  <2>2. Cardinality(ups \cup downs)
          = Cardinality(ups) + Cardinality(downs) - Cardinality(ups \cap downs)
    <3> HIDE DEF ups, downs
    <3> QED BY <1>2, FS_Union
  <2>3. Cardinality(ups \cap downs) = 0
    BY <1>2, FS_EmptySet
  <2> HIDE DEF ups, downs, crossing
  <2> QED
    BY <1>2, <2>1, <2>2, <2>3
<1>4. \A i \in I : t[i] = up[i] + minus[i]
  <2> TAKE i \in I
  <2>1. Upward(ring, i) <=> After(ring, i)[2] > ring[i][2]
    BY DEF Upward
  <2> QED
    BY <2>1 DEF Turn
<1>5. Sum(up, I) = Cardinality(ups) /\ Sum(down, I) = Cardinality(downs)
  <2>1. \A i \in I : up[i] \in {0, 1} /\ down[i] \in {0, 1}
    OBVIOUS
  <2>2. {i \in I : up[i] = 1} = ups /\ {i \in I : down[i] = 1} = downs
    OBVIOUS
  <2> HIDE DEF up, down, ups, downs, I
  <2> QED
    BY <1>1, <2>1, <2>2, SumOfOnes
<1>6. Sum(minus, I) = (-1) * Sum(down, I)
  <2>1. \A i \in I : down[i] \in Int /\ minus[i] = (-1) * down[i]
    OBVIOUS
  <2>2. -1 \in Int
    OBVIOUS
  <2> HIDE DEF minus, down, I
  <2> QED
    BY <1>1, <2>1, <2>2, SumOfMultiple
<1>7. Sum(t, I) = Sum(up, I) + Sum(minus, I)
  <2>1. \A i \in I : up[i] \in Int /\ minus[i] \in Int
    OBVIOUS
  <2> HIDE DEF minus, up, I
  <2> QED
    BY <1>1, <1>4, <2>1, SumOfBoth
<1>8. Winding(ring, point) = Cardinality(ups) - Cardinality(downs)
  BY DEF Winding
<1>9. Sum(t, I) = Winding(ring, point)
  <2> HIDE DEF ups, downs, up, down, minus, I
  <2> QED BY <1>3, <1>5, <1>6, <1>7, <1>8
<1>10. ringContains(ring, point) <=> Cardinality(crossing) % 2 = 1
  BY DEF ringContains
<1>11. \A u, d \in Nat : u - d \in {0, 1, -1} => ((u + d) % 2 = 1 <=> u - d # 0)
  <2> TAKE u, d \in Nat
  <2> HAVE u - d \in {0, 1, -1}
  <2>1. CASE u = d
    BY <2>1
  <2>2. CASE u = d + 1
    BY <2>2
  <2>3. CASE d = u + 1
    BY <2>3
  <2> QED
    BY <2>1, <2>2, <2>3
<1> HIDE DEF ups, downs, crossing
<1> QED
  BY <1>3, <1>8, <1>9, <1>10, <1>11

\* Twice the size of a cell for each cell that a simple ring encloses.
LEMMA AreaOfSimpleRing ==
  ASSUME OnGrid, NEW ring, OfCells(ring), Simple(ring)
  PROVE  /\ IsFiniteSet(Enclosed(ring)) /\ Cardinality(Enclosed(ring)) \in Nat
         /\ Abs(ringArea(ring)) = 2 * resolution * resolution * Cardinality(Enclosed(ring))
<1> DEFINE I == DOMAIN ring
           turns == [i \in I |-> Turns(ring[i], After(ring, i))]
           at == [k \in AllCells |-> [i \in I |-> turns[i][k]]]
           around == [k \in AllCells |-> Sum(at[k], I)]
           one == [k \in AllCells |-> IF k \in Enclosed(ring) THEN 1 ELSE 0]
           m == 2 * resolution * resolution
           n == Cardinality(Enclosed(ring))
<1>1. IsFiniteSet(AllCells) /\ ring \in Seq(Int \X Int)
  BY GridSize, FS_Interval DEF AllCells, OfCells
<1>2. IsFiniteSet(Enclosed(ring)) /\ n \in Nat /\ Enclosed(ring) \in SUBSET AllCells
  <2>1. Enclosed(ring) \in SUBSET AllCells
    BY DEF Enclosed, AllCells
  <2> QED
    BY <1>1, <2>1, FS_Subset, FS_CardinalityType
<1>3. PICK way \in {1, -1} : \A k \in AllCells : Winding(ring, Center(k)) \in {0, way}
  BY DEF Simple, AllCells
<1>4. \A k \in AllCells : around[k] = way * one[k] /\ one[k] \in {0, 1}
  <2> TAKE k \in AllCells
  <2>1. \A i \in I : at[k][i] = Turn(ring[i], After(ring, i), Center(k))
    BY DEF Turns
  <2>2. around[k] = Sum(at[k], I)
    OBVIOUS
  <2>3. one[k] = IF k \in Enclosed(ring) THEN 1 ELSE 0
    OBVIOUS
  <2>4. k \in Enclosed(ring) <=> ringContains(ring, Center(k))
    BY DEF Enclosed, AllCells
  <2> DEFINE t == at[k]
  <2> HIDE DEF at, around, one, t
  <2>5. /\ Sum(t, I) = Winding(ring, Center(k))
        /\ Winding(ring, Center(k)) \in {0, 1, -1} =>
               (ringContains(ring, Center(k)) <=> Winding(ring, Center(k)) # 0)
    BY <1>1, <2>1, WindingOfRing DEF t
  <2>6. around[k] \in {0, way} /\ (k \in Enclosed(ring) <=> around[k] # 0)
    BY <1>3, <2>2, <2>4, <2>5 DEF t
  <2> QED
    BY <2>3, <2>6
<1>5. Sum(one, AllCells) = n
  <2>1. \A k \in AllCells : one[k] \in {0, 1}
    OBVIOUS
  <2>2. {k \in AllCells : one[k] = 1} = Enclosed(ring)
    BY <1>2
  <2> HIDE DEF one
  <2> QED
    BY <1>1, <2>1, <2>2, SumOfOnes
<1>6. Sum(around, AllCells) = way * n
  <2>1. \A k \in AllCells : one[k] \in Int /\ around[k] = way * one[k]
    BY <1>4
  <2>2. way \in Int
    OBVIOUS
  <2> HIDE DEF one, around
  <2>3. Sum(around, AllCells) = way * Sum(one, AllCells)
    BY <1>1, <2>1, <2>2, SumOfMultiple
  <2> QED
    BY <1>5, <2>3
<1>7. ringArea(ring) = m * Sum(around, AllCells)
  BY RingAreaByTurns
<1>8. m \in Nat
  <2>1. resolution \in Nat
    BY DEF OnGrid
  <2> QED
    BY <2>1
<1> HIDE DEF m, n, around
<1>9. m * n \in Nat /\ m * (1 * n) = m * n /\ m * ((-1) * n) = -(m * n)
  BY <1>2, <1>8
<1>10. Abs(ringArea(ring)) = m * n
  <2>1. ringArea(ring) = m * (way * n)
    BY <1>6, <1>7
  <2>2. ringArea(ring) = m * n \/ ringArea(ring) = -(m * n)
    BY <1>9, <2>1
  <2>3. \A a \in Nat : Abs(a) = a /\ Abs(-a) = a
    BY DEF Abs
  <2> QED
    BY <1>9, <2>2, <2>3
<1> QED
  BY <1>2, <1>10 DEF m, n

\* An aligned coordinate is that of a column, or of a row, of the grid.
LEMMA AlignedCoordinate ==
  ASSUME resolution \in Nat \ {0}, NEW low \in Int, NEW high \in Int, NEW at \in Int,
         low <= at, at <= high, (at - low) % resolution = 0
  PROVE  /\ (at - low) \div resolution \in 0 .. Ceiling(high - low)
         /\ at = low + ((at - low) \div resolution) * resolution
<1> DEFINE r == resolution
           n == at - low
           a == n \div r
           m == high - low + r - 1
           c == m \div r
<1>1. n \in Nat /\ m \in Int /\ r \in Nat \ {0} /\ n <= m + 1 - r /\ n % r = 0
  OBVIOUS
<1>2. Ceiling(high - low) = c
  BY DEF Ceiling
<1> HIDE DEF n, m, r
<1>3. n = a * r + (n % r) /\ a \in Int /\ m = c * r + (m % r) /\ c \in Int /\ m % r \in 0 .. r - 1
  BY <1>1, RowAndColumn
<1> HIDE DEF a, c
<1>4. a * r \in Int /\ c * r \in Int /\ a * r = n /\ a * r <= c * r
  BY <1>1, <1>3
<1>5. ~(c < a)
  <2>1. c < a => c * r + r <= a * r
    BY <1>1, <1>3, Products
  <2> QED
    BY <1>1, <1>4, <2>1
<1>6. ~(a < 0)
  <2>1. a < 0 => a * r + r <= 0 * r
    BY <1>1, <1>3, Products
  <2>2. 0 * r = 0
    BY <1>1
  <2> QED
    BY <1>1, <1>4, <2>1, <2>2
<1>7. a \in 0 .. c /\ at = low + a * r
  BY <1>1, <1>3, <1>4, <1>5, <1>6 DEF n
<1> QED
  BY <1>2, <1>7 DEF a, c, n, r

LEMMA AlignedIsOfCells ==
  ASSUME OnGrid, Aligned, NEW n \in DOMAIN boundary
  PROVE  OfCells(boundary[n])
<1> DEFINE ring == boundary[n]
           A(p) == (p[1] - bounds.minX) \div resolution
           B(p) == (p[2] - bounds.minY) \div resolution
<1>1. ring \in Seq(Int \X Int) /\ resolution \in Nat \ {0}
  BY BoundaryAssumption DEF OnGrid
<1>2. /\ bounds.minX \in Int /\ bounds.minY \in Int /\ bounds.maxX \in Int /\ bounds.maxY \in Int
      /\ Columns = Ceiling(bounds.maxX - bounds.minX) /\ Rows = Ceiling(bounds.maxY - bounds.minY)
  BY GridSize DEF Box, Columns, Rows, bounds
<1>3. ASSUME NEW i \in DOMAIN ring
      PROVE  A(ring[i]) \in 0 .. Columns /\ B(ring[i]) \in 0 .. Rows
             /\ ring[i] = Corner(A(ring[i]), B(ring[i]))
  <2> DEFINE p == ring[i]
  <2>1. /\ p \in Int \X Int
        /\ bounds.minX <= p[1] /\ p[1] <= bounds.maxX
        /\ bounds.minY <= p[2] /\ p[2] <= bounds.maxY
    BY BoundsOfPolygon DEF OnGrid, bounds
  <2>2. (p[1] - bounds.minX) % resolution = 0 /\ (p[2] - bounds.minY) % resolution = 0
    BY DEF Aligned, bounds
  <2> HIDE DEF p
  <2>3. p[1] \in Int /\ p[2] \in Int /\ p = <<p[1], p[2]>>
    BY <2>1
  <2>4. A(p) \in 0 .. Columns /\ p[1] = bounds.minX + A(p) * resolution
    BY <1>1, <1>2, <2>1, <2>2, <2>3, AlignedCoordinate
  <2>5. B(p) \in 0 .. Rows /\ p[2] = bounds.minY + B(p) * resolution
    BY <1>1, <1>2, <2>1, <2>2, <2>3, AlignedCoordinate
  <2>6. p = Corner(A(p), B(p))
    BY <2>3, <2>4, <2>5 DEF Corner
  <2> QED
    BY <2>4, <2>5, <2>6 DEF p
<1>4. ASSUME NEW i \in DOMAIN ring
      PROVE  \E a, a2 \in 0 .. Columns : \E b, c \in 0 .. Rows :
                ring[i] = Corner(a, b) /\ After(ring, i) = Corner(a2, c) /\ (a = a2 \/ b = c)
  <2> DEFINE p == ring[i]
             q == After(ring, i)
  <2>1. /\ A(p) \in 0 .. Columns /\ B(p) \in 0 .. Rows /\ p = Corner(A(p), B(p))
        /\ A(q) \in 0 .. Columns /\ B(q) \in 0 .. Rows /\ q = Corner(A(q), B(q))
    <3>1. (i % Len(ring)) + 1 \in DOMAIN ring
      BY <1>1, NextCorner
    <3> QED
      BY <1>3, <3>1 DEF After
  <2>2. p[1] = q[1] \/ p[2] = q[2]
    BY DEF Aligned
  <2>3. A(p) = A(q) \/ B(p) = B(q)
    BY <2>2
  <2> HIDE DEF A, B
  <2> QED
    BY <2>1, <2>3
<1> QED
  BY <1>1, <1>4 DEF OfCells

-----------------------------------------------------------------------------
(***************************************************************************)
(* Holes, and the theorem.                                                 *)
(***************************************************************************)

\* Parts of a set that have no member in common can be taken off one by one.
LEMMA WithoutParts ==
  ASSUME NEW E, IsFiniteSet(E), NEW H, IsFiniteSet(H),
         NEW part, \A h \in H : part[h] \in SUBSET E,
         \A h \in H : \A other \in H \ {h} : part[h] \cap part[other] = {},
         NEW size, \A h \in H : size[h] = Cardinality(part[h])
  PROVE  Cardinality({k \in E : \A h \in H : k \notin part[h]}) = Cardinality(E) - Sum(size, H)
<1> DEFINE left(T) == {k \in E : \A h \in T : k \notin part[h]}
           Good == {T \in SUBSET H : Cardinality(left(T)) = Cardinality(E) - Sum(size, T)}
<1>0. Cardinality(E) \in Int /\ \A h \in H : size[h] \in Int /\ IsFiniteSet(part[h])
  BY FS_Subset, FS_CardinalityType
<1>1. {} \in Good
  <2>1. left({}) = E /\ Sum(size, {}) = 0
    BY SumOfNone
  <2> HIDE DEF left
  <2>2. Cardinality(left({})) = Cardinality(E) - Sum(size, {})
    BY <1>0, <2>1
  <2> QED
    BY <2>2
<1>2. ASSUME NEW T \in SUBSET H, NEW x \in H \ T, T \in Good PROVE T \cup {x} \in Good
  <2>1. IsFiniteSet(T) /\ IsFiniteSet(left(T)) /\ left(T) \in SUBSET E
    BY FS_Subset
  <2>2. left(T \cup {x}) = left(T) \ part[x] /\ left(T) \cap part[x] = part[x]
    OBVIOUS
  <2>3. Cardinality(left(T) \ part[x]) = Cardinality(left(T)) - Cardinality(left(T) \cap part[x])
    BY <2>1, FS_Difference
  <2>4. Sum(size, T \cup {x}) = size[x] + Sum(size, T) /\ Sum(size, T) \in Int
    BY <1>0, <2>1, SumWith, SumIsInteger
  <2>5. Cardinality(left(T)) = Cardinality(E) - Sum(size, T)
    BY <1>2
  <2>6. size[x] = Cardinality(part[x]) /\ size[x] \in Int
    BY <1>0
  <2> HIDE DEF left
  <2>7. Cardinality(left(T \cup {x})) = Cardinality(left(T)) - size[x]
    BY <2>2, <2>3, <2>6
  <2>8. Cardinality(left(T \cup {x})) = Cardinality(E) - Sum(size, T \cup {x})
    <3>1. Cardinality(E) \in Int /\ Sum(size, T) \in Int /\ size[x] \in Int
      BY <1>0, <2>4
    <3> HIDE DEF Good
    <3> QED
      BY <2>4, <2>5, <2>7, <3>1
  <2> QED
    BY <2>8
<1>3. H \in Good
  <2> HIDE DEF Good
  <2> QED BY <1>1, <1>2, ByMembers
<1> QED
  BY <1>3

\* So is the area of the holes.
LEMMA HolesAreaIsSum ==
  ASSUME NEW polygon, IsFiniteSet(DOMAIN Holes(polygon)), NEW area,
         \A h \in DOMAIN Holes(polygon) : area[h] = Abs(ringArea(Holes(polygon)[h]))
  PROVE  PolygonArea(polygon)
            = Max({0, Abs(ringArea(polygon[1])) - Sum(area, DOMAIN Holes(polygon))})
<1> DEFINE S == DOMAIN Holes(polygon)
           P(g) == g = [s \in SUBSET S |->
                          IF s = {} THEN 0
                          ELSE Abs(ringArea(Holes(polygon)[Pick(s)])) + g[s \ {Pick(s)}]]
<1>1. \A g : P(g) <=> IsTable(g, area, S)
  <2> TAKE g
  <2>1. \A s \in SUBSET S : s # {} => area[Pick(s)] = Abs(ringArea(Holes(polygon)[Pick(s)]))
    BY PickIsMember
  <2>2. [s \in SUBSET S |-> IF s = {} THEN 0
                            ELSE Abs(ringArea(Holes(polygon)[Pick(s)])) + g[s \ {Pick(s)}]]
        = [s \in SUBSET S |-> IF s = {} THEN 0 ELSE area[Pick(s)] + g[s \ {Pick(s)}]]
    BY <2>1
  <2> QED
    BY <2>2 DEF IsTable
<1>2. (CHOOSE g : P(g)) = (CHOOSE g : IsTable(g, area, S))
  <2> HIDE DEF P
  <2> QED BY <1>1
<1>3. PolygonArea(polygon) = Max({0, Abs(ringArea(polygon[1])) - (CHOOSE g : P(g))[S]})
  BY DEF PolygonArea, MapThenSumSet, MapThenFoldSet, Pick
<1> QED
  BY <1>2, <1>3 DEF Sum

LEMMA RingsOfBoundary ==
  ASSUME OnGrid
  PROVE  /\ 1 \in DOMAIN boundary /\ IsFiniteSet(DOMAIN Holes(boundary))
         /\ \A h \in DOMAIN Holes(boundary) :
               h + 1 \in DOMAIN boundary /\ Holes(boundary)[h] = boundary[h + 1]
<1>1. boundary \in Seq(Seq(Int \X Int)) /\ boundary # <<>>
  BY BoundaryAssumption DEF OnGrid
<1>2. Len(boundary) \in Nat \ {0} /\ DOMAIN boundary = 1 .. Len(boundary)
  BY <1>1
<1>3. /\ DOMAIN Holes(boundary) = 1 .. Len(boundary) - 1
      /\ \A h \in 1 .. Len(boundary) - 1 : Holes(boundary)[h] = boundary[h + 1]
  BY <1>1, <1>2 DEF Holes
<1>4. IsFiniteSet(1 .. Len(boundary) - 1)
  BY <1>2, FS_Interval
<1> QED
  BY <1>2, <1>3, <1>4

LEMMA AreaByCells ==
  ASSUME OnGrid, Aligned, Nested, \A n \in DOMAIN boundary : Simple(boundary[n])
  PROVE  PolygonArea(boundary) = 2 * resolution * resolution * Cardinality(InsideCells)
<1> DEFINE H == DOMAIN Holes(boundary)
           E == Enclosed(boundary[1])
           m == 2 * resolution * resolution
           part == [h \in H |-> Enclosed(Holes(boundary)[h])]
           size == [h \in H |-> Cardinality(part[h])]
           area == [h \in H |-> Abs(ringArea(Holes(boundary)[h]))]
<1>1. IsFiniteSet(H) /\ 1 \in DOMAIN boundary
  BY RingsOfBoundary
<1>2. \A n \in DOMAIN boundary :
         /\ IsFiniteSet(Enclosed(boundary[n])) /\ Cardinality(Enclosed(boundary[n])) \in Nat
         /\ Abs(ringArea(boundary[n])) = m * Cardinality(Enclosed(boundary[n]))
  BY AlignedIsOfCells, AreaOfSimpleRing
<1>3. IsFiniteSet(E) /\ Cardinality(E) \in Nat /\ Abs(ringArea(boundary[1])) = m * Cardinality(E)
  BY <1>1, <1>2
<1>4. \A h \in H : size[h] \in Nat /\ area[h] = m * size[h]
  <2> TAKE h \in H
  <2>1. h + 1 \in DOMAIN boundary /\ Holes(boundary)[h] = boundary[h + 1]
    BY RingsOfBoundary
  <2>2. area[h] = Abs(ringArea(boundary[h + 1])) /\ size[h] = Cardinality(Enclosed(boundary[h + 1]))
    BY <2>1
  <2> HIDE DEF area, size, m
  <2> QED
    BY <1>2, <2>1, <2>2
<1>5. InsideCells = {k \in E : \A h \in H : k \notin part[h]}
  <2>1. \A k \in 0 .. Cells - 1 : k \in E <=> ringContains(boundary[1], Center(k))
    BY DEF Enclosed
  <2>2. \A h \in H : \A k \in 0 .. Cells - 1 :
           k \in part[h] <=> ringContains(Holes(boundary)[h], Center(k))
    BY DEF Enclosed
  <2>3. \A k \in E : k \in 0 .. Cells - 1
    BY DEF Enclosed
  <2> HIDE DEF E, part
  <2> QED
    BY <2>1, <2>2, <2>3 DEF InsideCells, polygonContains
<1>6. Cardinality(InsideCells) = Cardinality(E) - Sum(size, H)
  <2>1. \A h \in H : part[h] \in SUBSET E
    BY DEF Nested
  <2>2. \A h \in H : \A other \in H \ {h} : part[h] \cap part[other] = {}
    BY DEF Nested
  <2>3. \A h \in H : size[h] = Cardinality(part[h])
    OBVIOUS
  <2> HIDE DEF E, H, part, size
  <2> QED
    BY <1>1, <1>3, <1>5, <2>1, <2>2, <2>3, WithoutParts
<1>7. m \in Nat /\ Cardinality(InsideCells) \in Nat
  <2>1. resolution \in Nat
    BY DEF OnGrid
  <2>2. InsideCells \in SUBSET E
    BY <1>5
  <2> HIDE DEF E
  <2>3. Cardinality(InsideCells) \in Nat
    BY <1>3, <2>2, FS_Subset, FS_CardinalityType
  <2> QED
    BY <2>1, <2>3
<1>8. Sum(area, H) = m * Sum(size, H) /\ Sum(size, H) \in Int
  <2>1. \A h \in H : size[h] \in Int /\ area[h] = m * size[h]
    BY <1>4
  <2> HIDE DEF area, size, m, H
  <2> QED
    BY <1>1, <1>7, <2>1, SumOfMultiple, SumIsInteger
<1>9. PolygonArea(boundary) = Max({0, m * Cardinality(E) - m * Sum(size, H)})
  <2>1. PolygonArea(boundary) = Max({0, Abs(ringArea(boundary[1])) - Sum(area, H)})
    BY <1>1, HolesAreaIsSum
  <2> HIDE DEF area, size, m, E, H
  <2> QED
    BY <1>3, <1>8, <2>1
<1> DEFINE n == Cardinality(InsideCells)
           e == Cardinality(E)
           t == Sum(size, H)
<1> HIDE DEF m, n, e, t
<1>10. m * e - m * t = m * n /\ m * n \in Nat
  <2>1. n = e - t /\ e \in Int /\ t \in Int /\ n \in Nat
    BY <1>3, <1>6, <1>7, <1>8 DEF n, e, t
  <2>2. m * (e - t) = m * e - m * t
    BY <1>7, <2>1
  <2>3. m * n \in Nat
    BY <1>7, <2>1
  <2> QED
    BY <2>1, <2>2, <2>3
<1>11. Max({0, m * n}) = m * n
  <2>1. \A w \in Nat : Max({0, w}) = w
    BY MinMaxOfTwo
  <2> QED
    BY <1>10, <2>1
<1> QED
  BY <1>9, <1>10, <1>11 DEF m, n, e, t

(***************************************************************************)
(* Theorem: a boundary of simple rings made of whole cells has the area of *)
(* the cells that are counted inside it, so that the share of uncovered    *)
(* cells that CalculateCoverage returns is a share of PolygonArea.         *)
(***************************************************************************)
THEOREM AreaCorrect == Spec => []AreaIsThatOfTheCells
<1>1. TypeOK /\ GridInv => AreaIsThatOfTheCells
  <2> SUFFICES ASSUME TypeOK, GridInv, phase = "answered", Aligned, Nested,
                      \A n \in DOMAIN boundary : Simple(boundary[n])
               PROVE  PolygonArea(boundary) = 2 * resolution * resolution * counts.inside
    BY DEF AreaIsThatOfTheCells
  <2>1. OnGrid /\ counts.inside = Cardinality(InsideCells)
    BY AnswerIsOfAllCells
  <2> QED
    BY <2>1, AreaByCells
<1>2. Init => TypeOK /\ FiniteSurvey /\ GridInv
  BY InitType, InitGrid
<1>3. TypeOK /\ FiniteSurvey /\ GridInv /\ [Next]_vars => (TypeOK /\ FiniteSurvey /\ GridInv)'
  BY StepType, StepGrid
<1> QED
  BY <1>1, <1>2, <1>3, PTL DEF Spec

-----------------------------------------------------------------------------
(***************************************************************************)
(* Convex rings (ringContains).  A convex ring rises past the height of a  *)
(* point along one edge and falls past it along another.  The point is     *)
(* counted as inside if it lies between the two, and then it lies on the   *)
(* side of every edge on which the corners are.                            *)
(***************************************************************************)

\* The sign of a product tells that of a factor.
LEMMA SignOfProduct ==
  ASSUME NEW m \in Nat \ {0}, NEW a \in Int
  PROVE  (a * m > 0 <=> a > 0) /\ (a * m < 0 <=> a < 0) /\ a * m \in Int
<1>1. a * m \in Int /\ 0 * m = 0
  OBVIOUS
<1>2. /\ a * m < 0 * m => a < 0
      /\ 0 * m < a * m => 0 < a
      /\ a < 0 => a * m + m <= 0 * m
      /\ 0 < a => 0 * m + m <= a * m
  BY Products
<1> QED
  BY <1>1, <1>2

\* On which side of an edge a point lies, in coordinates.
LEMMA SideIs ==
  ASSUME NEW ring \in Seq(Int \X Int), NEW i \in DOMAIN ring, NEW z \in Int \X Int,
         NEW p, p = ring[i], NEW q, q = After(ring, i)
  PROVE  /\ p[1] \in Int /\ p[2] \in Int /\ q[1] \in Int /\ q[2] \in Int
         /\ p = <<p[1], p[2]>> /\ q = <<q[1], q[2]>>
         /\ Side(ring, i, z) \in Int
         /\ Side(ring, i, z) = (q[1] - p[1]) * (z[2] - p[2]) - (z[1] - p[1]) * (q[2] - p[2])
<1>1. p \in Int \X Int /\ q \in Int \X Int
  BY NextCorner
<1>2. /\ p[1] \in Int /\ p[2] \in Int /\ q[1] \in Int /\ q[2] \in Int /\ z[1] \in Int /\ z[2] \in Int
      /\ p = <<p[1], p[2]>> /\ q = <<q[1], q[2]>>
  BY <1>1
<1>3. Side(ring, i, z) = (q[1] - p[1]) * (z[2] - p[2]) - (z[1] - p[1]) * (q[2] - p[2])
  BY DEF Side, Cross, Minus
<1>4. \A a, b, c, d \in Int : a * b - c * d \in Int
  OBVIOUS
<1>5. /\ q[1] - p[1] \in Int /\ z[2] - p[2] \in Int /\ z[1] - p[1] \in Int /\ q[2] - p[2] \in Int
  BY <1>2
<1>6. (q[1] - p[1]) * (z[2] - p[2]) - (z[1] - p[1]) * (q[2] - p[2]) \in Int
  BY <1>4, <1>5
<1>7. Side(ring, i, z) \in Int
  BY <1>3, <1>6
<1> QED
  BY <1>2, <1>3, <1>7

Rises(ring, i, y) == ring[i][2] <= y /\ y < After(ring, i)[2]
Falls(ring, i, y) == After(ring, i)[2] <= y /\ y < ring[i][2]

\* An edge is counted if the point lies to the left of it.
LEMMA CrossesInCoordinates ==
  ASSUME NEW p1 \in Int, NEW p2 \in Int, NEW q1 \in Int, NEW q2 \in Int,
         NEW x \in Int, NEW y \in Int,
         NEW s \in Int, s = (q1 - p1) * (y - p2) - (x - p1) * (q2 - p2)
  PROVE  Crosses(<<q1, q2>>, <<p1, p2>>, <<x, y>>) <=>
            \/ p2 <= y /\ y < q2 /\ s > 0
            \/ q2 <= y /\ y < p2 /\ s < 0
<1> DEFINE rise == p2 - q2
           a == (x - q1) * rise
           b == (p1 - q1) * (y - q2)
<1>1. Crosses(<<q1, q2>>, <<p1, p2>>, <<x, y>>) <=> (q2 > y) # (p2 > y) /\ a * rise < b * rise
  BY DEF Crosses
<1>2. rise \in Int /\ a \in Int /\ b \in Int /\ (rise < 0 <=> p2 < q2) /\ (rise > 0 <=> q2 < p2)
  OBVIOUS
<1>3. a - b = s
  OBVIOUS
<1> HIDE DEF rise, a, b
<1>4. a * rise < b * rise <=> s * rise < 0
  <2>1. a * rise - b * rise = s * rise /\ a * rise \in Int /\ b * rise \in Int
    BY <1>2, <1>3
  <2> QED
    BY <2>1
<1>5. p2 < q2 => (s * rise < 0 <=> s > 0)
  <2> HAVE p2 < q2
  <2>1. -rise \in Nat \ {0}
    BY <1>2
  <2>2. s * (-rise) > 0 <=> s > 0
    BY <2>1, SignOfProduct
  <2>3. s * (-rise) = -(s * rise) /\ s * rise \in Int
    BY <1>2
  <2> QED
    BY <2>2, <2>3
<1>6. q2 < p2 => (s * rise < 0 <=> s < 0)
  <2> HAVE q2 < p2
  <2>1. rise \in Nat \ {0}
    BY <1>2
  <2> QED
    BY <2>1, SignOfProduct
<1>7. (q2 > y) # (p2 > y) <=> (p2 <= y /\ y < q2) \/ (q2 <= y /\ y < p2)
  OBVIOUS
<1>8. (p2 <= y /\ y < q2 => p2 < q2 /\ ~(q2 <= y)) /\ (q2 <= y /\ y < p2 => q2 < p2)
  OBVIOUS
<1> QED
  BY <1>1, <1>4, <1>5, <1>6, <1>7, <1>8

LEMMA CrossesBySide ==
  ASSUME NEW ring \in Seq(Int \X Int), NEW i \in DOMAIN ring, NEW x \in Int, NEW y \in Int
  PROVE  Crosses(After(ring, i), ring[i], <<x, y>>) <=>
            \/ Rises(ring, i, y) /\ Side(ring, i, <<x, y>>) > 0
            \/ Falls(ring, i, y) /\ Side(ring, i, <<x, y>>) < 0
<1> DEFINE p == ring[i]
           q == After(ring, i)
           s == Side(ring, i, <<x, y>>)
           p1 == p[1]
           p2 == p[2]
           q1 == q[1]
           q2 == q[2]
<1>1. /\ p1 \in Int /\ p2 \in Int /\ q1 \in Int /\ q2 \in Int /\ s \in Int
      /\ p = <<p1, p2>> /\ q = <<q1, q2>>
      /\ s = (q1 - p1) * (y - p2) - (x - p1) * (q2 - p2)
  BY SideIs
<1>2. /\ Rises(ring, i, y) <=> p2 <= y /\ y < q2
      /\ Falls(ring, i, y) <=> q2 <= y /\ y < p2
  BY DEF Rises, Falls
<1> SUFFICES Crosses(q, p, <<x, y>>) <=>
                (p2 <= y /\ y < q2 /\ s > 0) \/ (q2 <= y /\ y < p2 /\ s < 0)
  BY <1>2
<1> HIDE DEF p, q, s, p1, p2, q1, q2
<1>3. Crosses(<<q1, q2>>, <<p1, p2>>, <<x, y>>) <=>
         (p2 <= y /\ y < q2 /\ s > 0) \/ (q2 <= y /\ y < p2 /\ s < 0)
  BY <1>1, CrossesInCoordinates
<1> QED
  BY <1>1, <1>3

LEMMA NextIndex ==
  ASSUME NEW n \in Nat \ {0}, NEW i \in 1 .. n
  PROVE  (i # n => (i % n) + 1 = i + 1) /\ (i = n => (i % n) + 1 = 1)
<1>1. CASE i = n
  <2>1. n % n = 0
    OBVIOUS
  <2> QED
    BY <1>1, <2>1
<1>2. CASE i # n
  <2>1. i \in 1 .. n - 1
    BY <1>2
  <2>2. \A m \in 1 .. n - 1 : m % n = m
    OBVIOUS
  <2>3. i % n = i
    BY <2>1, <2>2
  <2> QED
    BY <1>2, <2>3
<1> QED
  BY <1>1, <1>2

\* Going round, one cannot enter a part for good.
LEMMA RoundTheRing ==
  ASSUME NEW n \in Nat \ {0}, NEW T \in SUBSET (1 .. n), T # {}, T # 1 .. n
  PROVE  \E i \in T : (i % n) + 1 \notin T
<1> SUFFICES ASSUME \A i \in T : (i % n) + 1 \in T PROVE FALSE
  OBVIOUS
<1> DEFINE B == (1 .. n) \ T
<1>0. IsFiniteSet(1 .. n) /\ n \in Nat /\ n >= 1
  BY FS_Interval
<1>1. IsFiniteSet(1 .. n) /\ B \in SUBSET Int /\ T \in SUBSET Int /\ B # {}
  <2>1. B # {}
    <3> DEFINE I == 1 .. n
    <3>1. T \in SUBSET I /\ T # I
      OBVIOUS
    <3> HIDE DEF I
    <3>2. I \ T # {}
      BY <3>1
    <3> QED
      BY <3>2 DEF I
  <2>2. 1 .. n \in SUBSET Int
    BY <1>0
  <2> QED
    BY <1>0, <2>1, <2>2
<1>2. IsFiniteSet(B) /\ IsFiniteSet(T)
  BY <1>1, FS_Subset
<1>3. PICK low \in B : \A j \in B : low <= j
  BY <1>1, <1>2, ExtremesExist DEF HasLeast
<1>4. PICK high \in T : \A j \in T : high >= j
  BY <1>1, <1>2, ExtremesExist DEF HasGreatest
<1>5. \A i \in 1 .. n : (i # n => (i % n) + 1 = i + 1) /\ (i = n => (i % n) + 1 = 1)
  BY NextIndex
<1>6. high = n
  <2> SUFFICES ASSUME high # n PROVE FALSE
    OBVIOUS
  <2>1. high + 1 \in T
    BY <1>4, <1>5
  <2> QED
    BY <1>4, <2>1
<1>7. 1 \in T
  BY <1>4, <1>5, <1>6
<1>8. low - 1 \in T /\ low \in 2 .. n
  <2>1. low # 1 /\ low \in 1 .. n
    BY <1>3, <1>7
  <2>2. low - 1 \in 1 .. n /\ low - 1 \notin B
    BY <1>3, <2>1
  <2> QED
    BY <2>1, <2>2
<1>9. low \in T
  BY <1>5, <1>8
<1> QED
  BY <1>3, <1>9

LEMMA SlopesInOrder ==
  ASSUME NEW a \in Int, NEW c \in Int, NEW e \in Int,
         NEW b \in Nat \ {0}, NEW d \in Nat \ {0}, NEW f \in Nat \ {0},
         a * d <= c * b, c * f <= e * d
  PROVE  a * f <= e * b
<1>1. ASSUME NEW u \in Int, NEW v \in Int, NEW m \in Nat \ {0}
      PROVE  (u <= v => u * m <= v * m) /\ (u * m <= v * m => u <= v)
  <2>1. u * m \in Int /\ v * m \in Int
    OBVIOUS
  <2>2. u < v => u * m + m <= v * m
    BY Products
  <2>3. v < u => v * m + m <= u * m
    BY Products
  <2>4. u = v => u * m = v * m
    OBVIOUS
  <2> QED
    BY <2>1, <2>2, <2>3, <2>4
<1> DEFINE ad == a * d
           cb == c * b
           cf == c * f
           ed == e * d
           af == a * f
           eb == e * b
<1>2. ad \in Int /\ cb \in Int /\ cf \in Int /\ ed \in Int /\ af \in Int /\ eb \in Int
  OBVIOUS
<1>3. ad * f = af * d /\ cb * f = cf * b /\ ed * b = eb * d
  OBVIOUS
<1>4. ad <= cb /\ cf <= ed
  OBVIOUS
<1> HIDE DEF ad, cb, cf, ed, af, eb
<1>5. ad * f <= cb * f /\ cf * b <= ed * b
  BY <1>1, <1>2, <1>4
<1>6. ad * f \in Int /\ cf * b \in Int /\ ed * b \in Int
  BY <1>2
<1>7. af * d <= eb * d
  BY <1>3, <1>5, <1>6
<1>8. af <= eb
  BY <1>1, <1>2, <1>7
<1> QED
  BY <1>8 DEF af, eb

\* In half a plane, one cannot go round a point and come back, turning
\* always the same way: the directions are in order.
TurnsOneWay(n, a, b) ==
    \A i \in 1 .. n : \/ a[i] = a[(i % n) + 1] /\ b[i] = b[(i % n) + 1]
                      \/ a[i] * b[(i % n) + 1] - a[(i % n) + 1] * b[i] > 0

StandsStill(n, a, b) == \A i \in 1 .. n : a[i] = a[(i % n) + 1] /\ b[i] = b[(i % n) + 1]

LEMMA HalfPlane ==
  ASSUME NEW n \in Nat \ {0}, NEW a, NEW b,
         \A i \in 1 .. n : a[i] \in Int /\ b[i] \in Nat,
         TurnsOneWay(n, a, b)
  PROVE  StandsStill(n, a, b)
<1> DEFINE I == 1 .. n
           next(i) == (i % n) + 1
           Same(i, j) == a[i] = a[j] /\ b[i] = b[j]
<1>1. \A i \in I : next(i) \in I
  OBVIOUS
<1>2. \A i \in I : Same(i, next(i)) \/ a[i] * b[next(i)] - a[next(i)] * b[i] > 0
  BY DEF TurnsOneWay
<1>3. \A T \in SUBSET I : T # {} /\ T # I => \E i \in T : next(i) \in I \ T
  BY <1>1, RoundTheRing
<1>4. \A i \in I : a[i] \in Int /\ b[i] \in Nat
  OBVIOUS
<1> SUFFICES ASSUME NEW e \in I, ~Same(e, next(e)) PROVE FALSE
  BY DEF StandsStill
<1> HIDE DEF I, next
<1>5. \A m \in I : b[m] # 0
  <2> SUFFICES ASSUME NEW m \in I, b[m] = 0 PROVE FALSE
    OBVIOUS
  <2> DEFINE T == {i \in I : Same(i, m)}
  <2>1. m \in T
    OBVIOUS
  <2>2. T # I
    <3> SUFFICES ASSUME T = I PROVE FALSE
      OBVIOUS
    <3>1. Same(e, m) /\ Same(next(e), m)
      BY <1>1
    <3> QED
      BY <3>1
  <2>3. PICK i \in T : next(i) \in I \ T
    <3> HIDE DEF T, Same
    <3>1. T \in SUBSET I
      BY DEF T
    <3> QED
      BY <1>3, <2>1, <2>2, <3>1
  <2>4. a[m] > 0
    <3>1. ~Same(i, next(i)) /\ i \in I
      BY <2>3
    <3>2. a[i] * b[next(i)] - a[next(i)] * b[i] > 0 /\ a[i] = a[m] /\ b[i] = 0
      BY <1>2, <2>3, <3>1
    <3> DEFINE u == a[m]
               v == b[next(i)]
               w == a[next(i)]
    <3>3. u \in Int /\ v \in Nat /\ w \in Int /\ u * v - w * 0 > 0
      BY <1>1, <1>4, <3>1, <3>2
    <3> HIDE DEF u, v, w
    <3>4. u * v > 0
      BY <3>3
    <3>5. v # 0
      BY <3>3, <3>4
    <3>6. u > 0
      BY <3>3, <3>4, <3>5, SignOfProduct
    <3> QED
      BY <3>6 DEF u
  <2>5. PICK j \in I \ T : next(j) \in I \ (I \ T)
    <3>1. I \ T \in SUBSET I /\ I \ T # {} /\ I \ T # I
      BY <2>1, <2>2
    <3> HIDE DEF T, Same
    <3> QED
      BY <1>3, <3>1
  <2>6. a[m] < 0
    <3>1. ~Same(j, next(j)) /\ Same(next(j), m)
      BY <2>5
    <3>2. a[j] * b[next(j)] - a[next(j)] * b[j] > 0 /\ a[next(j)] = a[m] /\ b[next(j)] = 0
      BY <1>2, <2>5, <3>1
    <3> DEFINE u == a[m]
               v == b[j]
               w == a[j]
    <3>3. u \in Int /\ v \in Nat /\ w \in Int /\ w * 0 - u * v > 0
      BY <1>1, <1>4, <3>1, <3>2
    <3> HIDE DEF u, v, w
    <3>4. u * v < 0
      <4>1. u * v \in Int /\ w * 0 = 0
        BY <3>3
      <4> QED
        BY <3>3, <4>1
    <3>5. v # 0
      BY <3>3, <3>4
    <3>6. u < 0
      BY <3>3, <3>4, <3>5, SignOfProduct
    <3> QED
      BY <3>6 DEF u
  <2> QED
    BY <1>4, <2>4, <2>6
<1> DEFINE q == next(e)
           T == {i \in I : a[i] * b[q] <= a[q] * b[i]}
<1>6. q \in I /\ q \in T /\ e \notin T
  <2>1. q \in I
    BY <1>1
  <2>2. \A u, v \in Int : u * v <= u * v /\ u * v \in Int
    OBVIOUS
  <2>3. a[q] \in Int /\ b[q] \in Int /\ a[e] \in Int /\ b[e] \in Int
    BY <1>4, <2>1
  <2>4. a[e] * b[q] - a[q] * b[e] > 0
    BY <1>2
  <2>5. a[e] * b[q] \in Int /\ a[q] * b[e] \in Int
    BY <2>2, <2>3
  <2>6. ~(a[e] * b[q] <= a[q] * b[e])
    BY <2>4, <2>5
  <2> HIDE DEF q
  <2> QED
    BY <2>1, <2>2, <2>3, <2>6
<1>7. PICK i \in T : next(i) \in I \ T
  <2>1. T \in SUBSET I /\ T # {} /\ T # I
    BY <1>6
  <2> HIDE DEF T
  <2> QED
    BY <1>3, <2>1
<1>8. a[next(i)] * b[q] <= a[q] * b[next(i)]
  <2> DEFINE u == a[i]
             v == b[i]
             s == a[next(i)]
             t == b[next(i)]
             x == a[q]
             y == b[q]
  <2>1. u \in Int /\ s \in Int /\ x \in Int /\ v \in Nat \ {0} /\ t \in Nat \ {0} /\ y \in Nat \ {0}
    BY <1>1, <1>4, <1>5, <1>6, <1>7
  <2>2. (u = s /\ v = t) \/ u * t - s * v > 0
    BY <1>2, <1>7
  <2>3. u * y <= x * v
    BY <1>7
  <2> HIDE DEF u, v, s, t, x, y
  <2>4. s * v <= u * t
    <3>1. u * t \in Int /\ s * v \in Int
      BY <2>1
    <3> QED
      BY <2>2, <3>1
  <2>5. s * y <= x * t
    BY <2>1, <2>3, <2>4, SlopesInOrder
  <2> QED
    BY <2>5 DEF s, t, x, y
<1> QED
  BY <1>7, <1>8

LEMMA SideFromPoint ==
  ASSUME NEW ring \in Seq(Int \X Int), NEW i \in DOMAIN ring, NEW x \in Int, NEW y \in Int,
         NEW p, p = ring[i], NEW q, q = After(ring, i)
  PROVE  Side(ring, i, <<x, y>>) = (p[1] - x) * (q[2] - y) - (q[1] - x) * (p[2] - y)
<1> DEFINE z == <<x, y>>
<1>1. z \in Int \X Int /\ z[1] = x /\ z[2] = y
  OBVIOUS
<1>2. /\ p[1] \in Int /\ p[2] \in Int /\ q[1] \in Int /\ q[2] \in Int
      /\ Side(ring, i, z) = (q[1] - p[1]) * (z[2] - p[2]) - (z[1] - p[1]) * (q[2] - p[2])
  <2> HIDE DEF z
  <2> QED BY <1>1, SideIs
<1>3. \A p1, p2, q1, q2 \in Int :
         (q1 - p1) * (y - p2) - (x - p1) * (q2 - p2) = (p1 - x) * (q2 - y) - (q1 - x) * (p2 - y)
  OBVIOUS
<1>4. /\ p[1] \in Int /\ p[2] \in Int /\ q[1] \in Int /\ q[2] \in Int
      /\ Side(ring, i, z) = (q[1] - p[1]) * (y - p[2]) - (x - p[1]) * (q[2] - p[2])
  BY <1>1, <1>2
<1> DEFINE p1 == p[1]
           p2 == p[2]
           q1 == q[1]
           q2 == q[2]
<1>5. /\ p1 \in Int /\ p2 \in Int /\ q1 \in Int /\ q2 \in Int
      /\ Side(ring, i, <<x, y>>) = (q1 - p1) * (y - p2) - (x - p1) * (q2 - p2)
  BY <1>4
<1> HIDE DEF p1, p2, q1, q2
<1>6. Side(ring, i, <<x, y>>) = (p1 - x) * (q2 - y) - (q1 - x) * (p2 - y)
  BY <1>3, <1>5
<1> QED
  BY <1>6 DEF p1, p2, q1, q2

\* A ring that rises past a height falls past it; one that does not stays on
\* one side.
LEMMA RisesAndFalls ==
  ASSUME NEW ring \in Seq(Int \X Int), NEW y \in Int
  PROVE  /\ (\E i \in DOMAIN ring : Rises(ring, i, y))
            <=> (\E i \in DOMAIN ring : Falls(ring, i, y))
         /\ \/ \E i \in DOMAIN ring : Rises(ring, i, y)
            \/ \A i \in DOMAIN ring : ring[i][2] <= y
            \/ \A i \in DOMAIN ring : ring[i][2] > y
<1> DEFINE I == DOMAIN ring
           n == Len(ring)
           low == {i \in I : ring[i][2] <= y}
<1>1. CASE n = 0
  <2>1. I = {}
    BY <1>1
  <2> QED
    BY <2>1
<1>2. CASE n # 0
  <2>1. n \in Nat \ {0} /\ I = 1 .. n
    BY <1>2
  <2>2. \A i \in I : (i % n) + 1 \in I /\ After(ring, i) = ring[(i % n) + 1]
    BY NextCorner DEF After
  <2>3. \A i \in I : ring[i][2] \in Int
    BY NextCorner
  <2>4. \A i \in I : /\ Rises(ring, i, y) <=> i \in low /\ (i % n) + 1 \in I \ low
                     /\ Falls(ring, i, y) <=> i \in I \ low /\ (i % n) + 1 \in low
    BY <2>2, <2>3 DEF Rises, Falls
  <2>5. low \in SUBSET I /\ I \ low \in SUBSET I
    OBVIOUS
  <2>6. CASE low = {}
    BY <2>3, <2>4, <2>6
  <2>7. CASE low = I
    BY <2>4, <2>7
  <2>8. CASE low # {} /\ low # I
    <3> HIDE DEF low, n, I
    <3>1. PICK i \in low : (i % n) + 1 \notin low
      BY <2>1, <2>5, <2>8, RoundTheRing
    <3>2. I \ low # {} /\ I \ low # I
      BY <2>5, <2>8
    <3>3. PICK j \in I \ low : (j % n) + 1 \notin I \ low
      BY <2>1, <2>5, <3>2, RoundTheRing
    <3>4. i \in I /\ (i % n) + 1 \in I \ low /\ j \in I /\ (j % n) + 1 \in low
      BY <2>2, <2>5, <3>1, <3>3
    <3>5. Rises(ring, i, y) /\ Falls(ring, j, y)
      BY <2>4, <3>1, <3>3, <3>4
    <3> QED
      BY <3>4, <3>5 DEF I
  <2> QED
    BY <2>6, <2>7, <2>8
<1> QED
  BY <1>1, <1>2

\* A point that the ring does not rise past is not within it.
LEMMA NotWithinAside ==
  ASSUME NEW ring \in Seq(Int \X Int), NEW x \in Int, NEW y \in Int,
         \A i \in DOMAIN ring : ~Rises(ring, i, y)
  PROVE  ~Within(ring, <<x, y>>)
<1> SUFFICES ASSUME Within(ring, <<x, y>>) PROVE FALSE
  OBVIOUS
<1> DEFINE I == DOMAIN ring
           n == Len(ring)
           S(i) == Side(ring, i, <<x, y>>)
           next(i) == (i % n) + 1
<1>1. \E e \in I : ring[e] # After(ring, e)
  BY DEF Within
<1>2. n \in Nat \ {0} /\ I = 1 .. n
  BY <1>1, NextCorner
<1>3. PICK s \in {1, -1} : \A i \in I : ring[i] # After(ring, i) => s * S(i) > 0
  <2>1. \A i \in I : S(i) \in Int
    <3>1. <<x, y>> \in Int \X Int
      OBVIOUS
    <3> QED
      BY <3>1, SideIs
  <2>2. \/ \A i \in I : ring[i] # After(ring, i) => S(i) > 0
        \/ \A i \in I : ring[i] # After(ring, i) => S(i) < 0
    BY DEF Within
  <2>3. 1 \in {1, -1} /\ -1 \in {1, -1}
    OBVIOUS
  <2> HIDE DEF S
  <2>4. \A i \in I : 1 * S(i) = S(i) /\ (-1) * S(i) = -S(i)
    BY <2>1
  <2>5. CASE \A i \in I : ring[i] # After(ring, i) => S(i) > 0
    <3>1. \A i \in I : ring[i] # After(ring, i) => 1 * S(i) > 0
      BY <2>4, <2>5
    <3> QED
      BY <3>1
  <2>6. CASE \A i \in I : ring[i] # After(ring, i) => S(i) < 0
    <3>1. \A i \in I : ring[i] # After(ring, i) => (-1) * S(i) > 0
      BY <2>1, <2>4, <2>6
    <3> QED
      BY <3>1
  <2> QED
    BY <2>2, <2>5, <2>6
<1>4. \A i \in I : /\ next(i) \in I /\ After(ring, i) = ring[next(i)]
                   /\ ring[i][1] \in Int /\ ring[i][2] \in Int
                   /\ ring[i] = <<ring[i][1], ring[i][2]>>
  BY NextCorner DEF After
<1>5. PICK t \in {1, -1} : \A i \in I : t * (ring[i][2] - y) \in Nat
  <2>1. \/ \A i \in I : ring[i][2] <= y
        \/ \A i \in I : ring[i][2] > y
    BY RisesAndFalls
  <2>2. CASE \A i \in I : ring[i][2] <= y
    <3>1. \A u \in Int : u <= y => (-1) * (u - y) \in Nat
      OBVIOUS
    <3>2. \A i \in I : (-1) * (ring[i][2] - y) \in Nat
      BY <1>4, <2>2, <3>1
    <3> QED
      BY <3>2
  <2>3. CASE \A i \in I : ring[i][2] > y
    <3>1. \A u \in Int : u > y => 1 * (u - y) \in Nat
      OBVIOUS
    <3>2. \A i \in I : 1 * (ring[i][2] - y) \in Nat
      BY <1>4, <2>3, <3>1
    <3> QED
      BY <3>2
  <2> QED
    BY <2>1, <2>2, <2>3
<1> DEFINE c == s * t
           a == [i \in I |-> c * (ring[i][1] - x)]
           b == [i \in I |-> t * (ring[i][2] - y)]
<1>6. c \in {1, -1} /\ c \in Int /\ t \in Int /\ c * t = s
  OBVIOUS
<1>7. \A i \in I : a[i] \in Int /\ b[i] \in Nat
  <2> TAKE i \in I
  <2>1. c * (ring[i][1] - x) \in Int
    <3>1. \A u \in Int : c * u \in Int
      BY <1>6
    <3>2. ring[i][1] - x \in Int
      BY <1>4
    <3> HIDE DEF c
    <3> QED
      BY <3>1, <3>2
  <2> QED
    BY <1>5, <2>1
<1>8. \A i \in I : \/ a[i] = a[next(i)] /\ b[i] = b[next(i)]
                   \/ a[i] * b[next(i)] - a[next(i)] * b[i] > 0
  <2> TAKE i \in I
  <2>1. CASE ring[i] = After(ring, i)
    BY <1>4, <2>1
  <2>2. CASE ring[i] # After(ring, i)
    <3> DEFINE u == ring[i][1] - x
               v == ring[next(i)][2] - y
               w == ring[next(i)][1] - x
               z == ring[i][2] - y
    <3>1. s * S(i) > 0
      BY <1>3, <2>2
    <3>2. S(i) = u * v - w * z
      BY <1>4, SideFromPoint
    <3>3. u \in Int /\ v \in Int /\ w \in Int /\ z \in Int
      <4>1. /\ ring[i][1] \in Int /\ ring[i][2] \in Int
            /\ ring[next(i)][1] \in Int /\ ring[next(i)][2] \in Int
        <5> HIDE DEF next
        <5> QED BY <1>4
      <4>2. \A r \in Int : r - x \in Int /\ r - y \in Int
        OBVIOUS
      <4> HIDE DEF next, a, b, c, S
      <4> QED
        BY <4>1, <4>2
    <3>4. a[i] = c * u /\ b[next(i)] = t * v /\ a[next(i)] = c * w /\ b[i] = t * z
      BY <1>4
    <3> HIDE DEF u, v, w, z, a, b, c, S, next
    <3>5. (c * u) * (t * v) - (c * w) * (t * z) = (c * t) * (u * v - w * z)
      BY <1>6, <3>3
    <3> QED
      BY <1>6, <3>1, <3>2, <3>4, <3>5
  <2> QED
    BY <2>1, <2>2
<1>9. PICK e \in I : ring[e] # After(ring, e)
  BY <1>1
<1>10. a[e] = a[next(e)] /\ b[e] = b[next(e)]
  <2>1. n \in Nat \ {0} /\ \A i \in 1 .. n : a[i] \in Int /\ b[i] \in Nat
    BY <1>2, <1>7
  <2>2. TurnsOneWay(n, a, b)
    BY <1>2, <1>8 DEF TurnsOneWay
  <2> HIDE DEF a, b, n
  <2>3. StandsStill(n, a, b)
    BY <2>1, <2>2, HalfPlane
  <2> QED
    BY <1>2, <2>3 DEF StandsStill
<1>11. ring[e] = ring[next(e)]
  <2> DEFINE u == ring[e][1]
             v == ring[next(e)][1]
             w == ring[e][2]
             z == ring[next(e)][2]
  <2>1. u \in Int /\ v \in Int /\ w \in Int /\ z \in Int
        /\ ring[e] = <<u, w>> /\ ring[next(e)] = <<v, z>>
    BY <1>4
  <2>2. c * (u - x) = c * (v - x) /\ t * (w - y) = t * (z - y)
    BY <1>4, <1>10
  <2> HIDE DEF u, v, w, z, c
  <2>3. u = v /\ w = z
    BY <1>6, <2>1, <2>2
  <2> QED
    BY <2>1, <2>3
<1> QED
  BY <1>4, <1>9, <1>11

LEMMA FourProducts ==
  ASSUME NEW k1 \in Nat, NEW k2 \in Nat, NEW k3 \in Nat, NEW k4 \in Nat,
         NEW a \in Nat, NEW b \in Nat, NEW c \in Nat, NEW d \in Nat,
         k1 * a + k2 * b + k3 * c + k4 * d = 0
  PROVE  /\ k1 # 0 => a = 0
         /\ k2 # 0 => b = 0
         /\ k3 # 0 => c = 0
         /\ k4 # 0 => d = 0
<1>1. k1 * a \in Nat /\ k2 * b \in Nat /\ k3 * c \in Nat /\ k4 * d \in Nat
  OBVIOUS
<1>2. k1 * a = 0 /\ k2 * b = 0 /\ k3 * c = 0 /\ k4 * d = 0
  BY <1>1
<1>3. \A u, v \in Nat : u * v = 0 /\ u # 0 => v = 0
  OBVIOUS
<1> QED
  BY <1>2, <1>3

LEMMA FourOfOneSign ==
  ASSUME NEW k1 \in Int, NEW k2 \in Int, NEW k3 \in Int, NEW k4 \in Int,
         NEW a \in Int, NEW b \in Int, NEW c \in Int, NEW d \in Int,
         k1 * a + k2 * b + k3 * c + k4 * d = 0,
         \/ k1 > 0 /\ k2 >= 0 /\ k3 > 0 /\ k4 >= 0
         \/ k1 <= 0 /\ k2 < 0 /\ k3 <= 0 /\ k4 < 0,
         \/ a >= 0 /\ b >= 0 /\ c >= 0 /\ d >= 0
         \/ a <= 0 /\ b <= 0 /\ c <= 0 /\ d <= 0
  PROVE  (a = 0 /\ c = 0) \/ (b = 0 /\ d = 0)
<1>1. CASE k1 > 0 /\ k2 >= 0 /\ k3 > 0 /\ k4 >= 0
  <2>0. k1 \in Nat /\ k2 \in Nat /\ k3 \in Nat /\ k4 \in Nat /\ k1 # 0 /\ k3 # 0
    BY <1>1
  <2>1. CASE a >= 0 /\ b >= 0 /\ c >= 0 /\ d >= 0
    <3>1. a \in Nat /\ b \in Nat /\ c \in Nat /\ d \in Nat
      BY <2>1
    <3> QED
      BY <2>0, <3>1, FourProducts
  <2>2. CASE a <= 0 /\ b <= 0 /\ c <= 0 /\ d <= 0
    <3> DEFINE e == -a
               f == -b
               g == -c
               h == -d
    <3>1. e \in Nat /\ f \in Nat /\ g \in Nat /\ h \in Nat
      BY <2>2
    <3>2. k1 * e + k2 * f + k3 * g + k4 * h = 0
      OBVIOUS
    <3> HIDE DEF e, f, g, h
    <3>3. e = 0 /\ g = 0
      BY <2>0, <3>1, <3>2, FourProducts
    <3> QED
      BY <3>3 DEF e, g
  <2> QED
    BY <2>1, <2>2
<1>2. CASE k1 <= 0 /\ k2 < 0 /\ k3 <= 0 /\ k4 < 0
  <2> DEFINE l1 == -k1
             l2 == -k2
             l3 == -k3
             l4 == -k4
  <2>0. l1 \in Nat /\ l2 \in Nat /\ l3 \in Nat /\ l4 \in Nat /\ l2 # 0 /\ l4 # 0
    BY <1>2
  <2>1. CASE a >= 0 /\ b >= 0 /\ c >= 0 /\ d >= 0
    <3>1. a \in Nat /\ b \in Nat /\ c \in Nat /\ d \in Nat
      BY <2>1
    <3>2. l1 * a + l2 * b + l3 * c + l4 * d = 0
      OBVIOUS
    <3> HIDE DEF l1, l2, l3, l4
    <3> QED
      BY <2>0, <3>1, <3>2, FourProducts
  <2>2. CASE a <= 0 /\ b <= 0 /\ c <= 0 /\ d <= 0
    <3> DEFINE e == -a
               f == -b
               g == -c
               h == -d
    <3>1. e \in Nat /\ f \in Nat /\ g \in Nat /\ h \in Nat
      BY <2>2
    <3>2. l1 * e + l2 * f + l3 * g + l4 * h = 0
      OBVIOUS
    <3> HIDE DEF e, f, g, h, l1, l2, l3, l4
    <3>3. f = 0 /\ h = 0
      BY <2>0, <3>1, <3>2, FourProducts
    <3> QED
      BY <3>3 DEF f, h
  <2> QED
    BY <2>1, <2>2
<1> QED
  BY <1>1, <1>2

\* The same as Side, of coordinates.
Line(p1, p2, q1, q2, z1, z2) == (q1 - p1) * (z2 - p2) - (z1 - p1) * (q2 - p2)

\* Where two lines cross is known from each of them.
LEMMA LinesMeet ==
  ASSUME NEW p1 \in Int, NEW p2 \in Int, NEW q1 \in Int, NEW q2 \in Int,
         NEW r1 \in Int, NEW r2 \in Int, NEW s1 \in Int, NEW s2 \in Int, NEW y \in Int
  PROVE  /\ (s2 - y) * Line(p1, p2, q1, q2, r1, r2) + (y - r2) * Line(p1, p2, q1, q2, s1, s2)
             + (q2 - y) * Line(r1, r2, s1, s2, p1, p2) + (y - p2) * Line(r1, r2, s1, s2, q1, q2) = 0
         /\ Line(p1, p2, q1, q2, s1, s2) - Line(p1, p2, q1, q2, r1, r2)
              = Line(r1, r2, s1, s2, p1, p2) - Line(r1, r2, s1, s2, q1, q2)
         /\ (q1 - p1) * (q2 - r2) - (q1 - r1) * (q2 - p2) = -Line(p1, p2, q1, q2, r1, r2)
         /\ (q1 - p1) * (s2 - p2) - (s1 - p1) * (q2 - p2) = Line(p1, p2, q1, q2, s1, s2)
BY DEF Line

LEMMA SameWay ==
  ASSUME NEW u1 \in Int, NEW u2 \in Int, NEW v1 \in Int, NEW v2 \in Int,
         u1 * v2 = v1 * u2, (u2 > 0 /\ v2 > 0) \/ (u2 < 0 /\ v2 < 0)
  PROVE  v1 * u1 + v2 * u2 > 0
<1>1. \A a, b \in Nat \ {0} : a * b \in Nat \ {0}
  OBVIOUS
<1>2. v2 * u2 \in Nat \ {0}
  <2>1. CASE u2 > 0 /\ v2 > 0
    BY <1>1, <2>1
  <2>2. CASE u2 < 0 /\ v2 < 0
    <3>1. -u2 \in Nat \ {0} /\ -v2 \in Nat \ {0} /\ (-v2) * (-u2) = v2 * u2
      BY <2>2
    <3> QED
      BY <1>1, <3>1
  <2> QED
    BY <2>1, <2>2
<1> DEFINE w == u1 * v2
           m == v2 * u2
           d == v1 * u1
<1>3. d * m = w * (v1 * u2) /\ w = v1 * u2 /\ w \in Int /\ d \in Int
  OBVIOUS
<1> HIDE DEF w, d, m
<1>4. w * w \in Nat
  BY <1>3
<1>5. d * m >= 0
  BY <1>3, <1>4
<1>6. ~(d < 0)
  <2>1. m \in Nat \ {0}
    BY <1>2 DEF m
  <2>2. d * m < 0 <=> d < 0
    BY <1>3, <2>1, SignOfProduct
  <2>3. d * m \in Int
    BY <1>3, <2>1
  <2> QED
    BY <1>5, <2>2, <2>3
<1> QED
  BY <1>2, <1>3, <1>6 DEF d, m

\* A convex ring rises past a height once at most, and falls past it once.
LEMMA PassesOnce ==
  ASSUME NEW ring \in Seq(Int \X Int), Convex(ring), NEW y \in Int,
         NEW i \in DOMAIN ring, NEW j \in DOMAIN ring,
         (Rises(ring, i, y) /\ Rises(ring, j, y)) \/ (Falls(ring, i, y) /\ Falls(ring, j, y))
  PROVE  i = j
<1> SUFFICES Together(ring, i, j)
  BY DEF Convex
<1> DEFINE p1 == ring[i][1]
           p2 == ring[i][2]
           q1 == After(ring, i)[1]
           q2 == After(ring, i)[2]
           r1 == ring[j][1]
           r2 == ring[j][2]
           s1 == After(ring, j)[1]
           s2 == After(ring, j)[2]
           a == Side(ring, i, ring[j])
           b == Side(ring, i, After(ring, j))
           c == Side(ring, j, ring[i])
           d == Side(ring, j, After(ring, i))
<1>1. /\ ring[i] \in Int \X Int /\ After(ring, i) \in Int \X Int
      /\ ring[j] \in Int \X Int /\ After(ring, j) \in Int \X Int
  BY NextCorner
<1>2. /\ p1 \in Int /\ p2 \in Int /\ q1 \in Int /\ q2 \in Int
      /\ r1 \in Int /\ r2 \in Int /\ s1 \in Int /\ s2 \in Int
  BY <1>1
<1>3. /\ a \in Int /\ a = Line(p1, p2, q1, q2, r1, r2)
      /\ b \in Int /\ b = Line(p1, p2, q1, q2, s1, s2)
      /\ c \in Int /\ c = Line(r1, r2, s1, s2, p1, p2)
      /\ d \in Int /\ d = Line(r1, r2, s1, s2, q1, q2)
  BY <1>1, SideIs DEF Line
<1>4. \/ a >= 0 /\ b >= 0 /\ c >= 0 /\ d >= 0
      \/ a <= 0 /\ b <= 0 /\ c <= 0 /\ d <= 0
  <2>1. /\ After(ring, i) = ring[(i % Len(ring)) + 1] /\ (i % Len(ring)) + 1 \in DOMAIN ring
        /\ After(ring, j) = ring[(j % Len(ring)) + 1] /\ (j % Len(ring)) + 1 \in DOMAIN ring
    BY NextCorner DEF After
  <2> QED
    BY <2>1 DEF Convex
<1>5. \/ p2 <= y /\ y < q2 /\ r2 <= y /\ y < s2
      \/ q2 <= y /\ y < p2 /\ s2 <= y /\ y < r2
  BY DEF Rises, Falls
<1>6. Together(ring, i, j) <=> /\ a = 0 /\ b = 0
                               /\ (q1 - r1) * (q1 - p1) + (q2 - r2) * (q2 - p2) > 0
                               /\ (s1 - p1) * (q1 - p1) + (s2 - p2) * (q2 - p2) > 0
  BY DEF Together, Dot, Minus
<1> HIDE DEF p1, p2, q1, q2, r1, r2, s1, s2, a, b, c, d
<1>10. /\ (s2 - y) * Line(p1, p2, q1, q2, r1, r2) + (y - r2) * Line(p1, p2, q1, q2, s1, s2)
            + (q2 - y) * Line(r1, r2, s1, s2, p1, p2) + (y - p2) * Line(r1, r2, s1, s2, q1, q2) = 0
       /\ Line(p1, p2, q1, q2, s1, s2) - Line(p1, p2, q1, q2, r1, r2)
             = Line(r1, r2, s1, s2, p1, p2) - Line(r1, r2, s1, s2, q1, q2)
       /\ (q1 - p1) * (q2 - r2) - (q1 - r1) * (q2 - p2) = -Line(p1, p2, q1, q2, r1, r2)
       /\ (q1 - p1) * (s2 - p2) - (s1 - p1) * (q2 - p2) = Line(p1, p2, q1, q2, s1, s2)
  BY <1>2 DEF Line
<1>11. /\ (s2 - y) * a + (y - r2) * b + (q2 - y) * c + (y - p2) * d = 0
       /\ b - a = c - d
       /\ (q1 - p1) * (q2 - r2) - (q1 - r1) * (q2 - p2) = -a
       /\ (q1 - p1) * (s2 - p2) - (s1 - p1) * (q2 - p2) = b
  BY <1>3, <1>10
<1>7. a = 0 /\ b = 0
  <2> DEFINE k1 == s2 - y
             k2 == y - r2
             k3 == q2 - y
             k4 == y - p2
  <2>1. k1 * a + k2 * b + k3 * c + k4 * d = 0 /\ b - a = c - d
    BY <1>11
  <2>2. /\ k1 \in Int /\ k2 \in Int /\ k3 \in Int /\ k4 \in Int
        /\ \/ k1 > 0 /\ k2 >= 0 /\ k3 > 0 /\ k4 >= 0
           \/ k1 <= 0 /\ k2 < 0 /\ k3 <= 0 /\ k4 < 0
    BY <1>2, <1>5
  <2> HIDE DEF k1, k2, k3, k4
  <2>3. a \in Int /\ b \in Int /\ c \in Int /\ d \in Int
    BY <1>3
  <2>4. (a = 0 /\ c = 0) \/ (b = 0 /\ d = 0)
    BY <1>4, <2>1, <2>2, <2>3, FourOfOneSign
  <2> QED
    BY <1>4, <2>1, <2>3, <2>4
<1>8. (q1 - r1) * (q1 - p1) + (q2 - r2) * (q2 - p2) > 0
  <2> DEFINE u1 == q1 - p1
             u2 == q2 - p2
             v1 == q1 - r1
             v2 == q2 - r2
  <2>1. u1 * v2 - v1 * u2 = -a
    BY <1>11
  <2>2. u1 \in Int /\ u2 \in Int /\ v1 \in Int /\ v2 \in Int
        /\ ((u2 > 0 /\ v2 > 0) \/ (u2 < 0 /\ v2 < 0))
    BY <1>2, <1>5
  <2> HIDE DEF u1, u2, v1, v2
  <2>3. u1 * v2 = v1 * u2
    <3>1. u1 * v2 \in Int /\ v1 * u2 \in Int
      BY <2>2
    <3> QED
      BY <1>7, <2>1, <3>1
  <2>4. v1 * u1 + v2 * u2 > 0
    BY <2>2, <2>3, SameWay
  <2> QED
    BY <2>4 DEF u1, u2, v1, v2
<1>9. (s1 - p1) * (q1 - p1) + (s2 - p2) * (q2 - p2) > 0
  <2> DEFINE u1 == q1 - p1
             u2 == q2 - p2
             v1 == s1 - p1
             v2 == s2 - p2
  <2>1. u1 * v2 - v1 * u2 = b
    BY <1>11
  <2>2. u1 \in Int /\ u2 \in Int /\ v1 \in Int /\ v2 \in Int
        /\ ((u2 > 0 /\ v2 > 0) \/ (u2 < 0 /\ v2 < 0))
    BY <1>2, <1>5
  <2> HIDE DEF u1, u2, v1, v2
  <2>3. u1 * v2 = v1 * u2
    <3>1. u1 * v2 \in Int /\ v1 * u2 \in Int
      BY <2>2
    <3> QED
      BY <1>7, <2>1, <3>1
  <2>4. v1 * u1 + v2 * u2 > 0
    BY <2>2, <2>3, SameWay
  <2> QED
    BY <2>4 DEF u1, u2, v1, v2
<1> QED
  BY <1>6, <1>7, <1>8, <1>9

\* Where a point at the height of an edge lies of a line, from the ends of the edge.
LEMMA BetweenTheEnds ==
  ASSUME NEW a1 \in Int, NEW a2 \in Int, NEW b1 \in Int, NEW b2 \in Int,
         NEW p1 \in Int, NEW p2 \in Int, NEW q1 \in Int, NEW q2 \in Int,
         NEW x \in Int, NEW y \in Int
  PROVE  (q2 - y) * Line(a1, a2, b1, b2, p1, p2) + (y - p2) * Line(a1, a2, b1, b2, q1, q2)
            = (q2 - p2) * Line(a1, a2, b1, b2, x, y) + (a2 - b2) * Line(p1, p2, q1, q2, x, y)
BY DEF Line

\* Two bounds on where a point lies settle it.
LEMMA Settled ==
  ASSUME NEW f \in Int, NEW g \in Nat \ {0}, NEW h \in Nat \ {0},
         NEW w \in Int, NEW u \in Int, NEW v \in Int,
         g * f + w * u >= 0, h * f - w * v >= 0,
         (u > 0 /\ v >= 0) \/ (u <= 0 /\ v < 0)
  PROVE  f >= 0
<1>1. \A k, l \in Nat : k * l \in Nat /\ (k # 0 /\ l # 0 => k * l # 0)
  OBVIOUS
<1>2. ASSUME NEW k \in Nat, NEW l \in Nat, k # 0 \/ l # 0,
             (g * f + w * u) * k + (h * f - w * v) * l = f * (g * k + h * l)
      PROVE  f >= 0
  <2> DEFINE m == g * k + h * l
             e == g * f + w * u
             d == h * f - w * v
             ek == e * k
             dl == d * l
  <2>1. m \in Nat \ {0}
    BY <1>1, <1>2
  <2>2. e \in Nat /\ d \in Nat
    OBVIOUS
  <2>3. ek + dl = f * m
    BY <1>2
  <2> HIDE DEF m, e, d
  <2>4. ek \in Nat /\ dl \in Nat
    BY <1>1, <2>2
  <2> HIDE DEF ek, dl
  <2>5. f * m \in Int /\ (f * m < 0 <=> f < 0)
    BY <2>1, SignOfProduct
  <2> QED
    BY <2>3, <2>4, <2>5
<1>3. CASE u > 0 /\ v >= 0
  <2>1. v \in Nat /\ u \in Nat /\ u # 0
    BY <1>3
  <2>2. (g * f + w * u) * v + (h * f - w * v) * u = f * (g * v + h * u)
    OBVIOUS
  <2> QED
    BY <1>2, <2>1, <2>2
<1>4. CASE u <= 0 /\ v < 0
  <2>1. -v \in Nat /\ -u \in Nat /\ -v # 0
    BY <1>4
  <2>2. (g * f + w * u) * (-v) + (h * f - w * v) * (-u) = f * (g * (-v) + h * (-u))
    OBVIOUS
  <2> QED
    BY <1>2, <2>1, <2>2
<1> QED
  BY <1>3, <1>4

\* If a point is between two edges, on whose sides u and v it lies, and the ends
\* of these edges are on one side of a line, the point is on that side, too.
OnTheirSide(f, u, v, ip, iq, ir, is) ==
    (u > 0 /\ v >= 0) \/ (u <= 0 /\ v < 0)
    => /\ ip >= 0 /\ iq >= 0 /\ ir >= 0 /\ is >= 0 => f >= 0
       /\ ip <= 0 /\ iq <= 0 /\ ir <= 0 /\ is <= 0 => f <= 0

LEMMA OnTheSideOfCorners ==
  ASSUME NEW a1 \in Int, NEW a2 \in Int, NEW b1 \in Int, NEW b2 \in Int,
         NEW p1 \in Int, NEW p2 \in Int, NEW q1 \in Int, NEW q2 \in Int,
         NEW r1 \in Int, NEW r2 \in Int, NEW s1 \in Int, NEW s2 \in Int,
         NEW x \in Int, NEW y \in Int,
         p2 <= y, y < q2, s2 <= y, y < r2
  PROVE  OnTheirSide(Line(a1, a2, b1, b2, x, y),
                     Line(p1, p2, q1, q2, x, y), Line(r1, r2, s1, s2, x, y),
                     Line(a1, a2, b1, b2, p1, p2), Line(a1, a2, b1, b2, q1, q2),
                     Line(a1, a2, b1, b2, r1, r2), Line(a1, a2, b1, b2, s1, s2))
<1> DEFINE u == Line(p1, p2, q1, q2, x, y)
           v == Line(r1, r2, s1, s2, x, y)
           f == Line(a1, a2, b1, b2, x, y)
           ip == Line(a1, a2, b1, b2, p1, p2)
           iq == Line(a1, a2, b1, b2, q1, q2)
           ir == Line(a1, a2, b1, b2, r1, r2)
           is == Line(a1, a2, b1, b2, s1, s2)
<1> SUFFICES ASSUME (u > 0 /\ v >= 0) \/ (u <= 0 /\ v < 0)
             PROVE  /\ ip >= 0 /\ iq >= 0 /\ ir >= 0 /\ is >= 0 => f >= 0
                    /\ ip <= 0 /\ iq <= 0 /\ ir <= 0 /\ is <= 0 => f <= 0
  BY DEF OnTheirSide
<1>0. /\ u \in Int /\ v \in Int /\ f \in Int
      /\ ip \in Int /\ iq \in Int /\ ir \in Int /\ is \in Int
  BY DEF Line
<1> HIDE DEF u, v, f, ip, iq, ir, is
<1> DEFINE g == q2 - p2
           h == r2 - s2
           w == a2 - b2
           k1 == q2 - y
           k2 == y - p2
           k3 == y - s2
           k4 == r2 - y
<1>1. g \in Nat \ {0} /\ h \in Nat \ {0} /\ w \in Int
      /\ k1 \in Nat /\ k2 \in Nat /\ k3 \in Nat /\ k4 \in Nat
  OBVIOUS
<1>2. (q2 - y) * ip + (y - p2) * iq = (q2 - p2) * f + (a2 - b2) * u
  <2>1. (q2 - y) * Line(a1, a2, b1, b2, p1, p2) + (y - p2) * Line(a1, a2, b1, b2, q1, q2)
            = (q2 - p2) * Line(a1, a2, b1, b2, x, y) + (a2 - b2) * Line(p1, p2, q1, q2, x, y)
    BY BetweenTheEnds
  <2> QED
    BY <2>1 DEF u, f, ip, iq
<1>3. (s2 - y) * ir + (y - r2) * is = (s2 - r2) * f + (a2 - b2) * v
  <2>1. (s2 - y) * Line(a1, a2, b1, b2, r1, r2) + (y - r2) * Line(a1, a2, b1, b2, s1, s2)
            = (s2 - r2) * Line(a1, a2, b1, b2, x, y) + (a2 - b2) * Line(r1, r2, s1, s2, x, y)
    BY BetweenTheEnds
  <2> QED
    BY <2>1 DEF v, f, ir, is
<1>4. k3 * ir + k4 * is = h * f - w * v
  <2>1. (y - s2) * ir + (r2 - y) * is = -((s2 - y) * ir + (y - r2) * is)
    BY <1>0
  <2>2. (r2 - s2) * f - (a2 - b2) * v = -((s2 - r2) * f + (a2 - b2) * v)
    BY <1>0
  <2> QED
    BY <1>3, <2>1, <2>2
<1>5. k1 * ip + k2 * iq = g * f + w * u
  BY <1>2
<1> HIDE DEF g, h, w, k1, k2, k3, k4
<1>6. \A k, l, m, n \in Nat : k * l + m * n >= 0
  OBVIOUS
<1>7. ASSUME ip >= 0, iq >= 0, ir >= 0, is >= 0 PROVE f >= 0
  <2>1. ip \in Nat /\ iq \in Nat /\ ir \in Nat /\ is \in Nat
    BY <1>0, <1>7
  <2>2. g * f + w * u >= 0 /\ h * f - w * v >= 0
    BY <1>1, <1>4, <1>5, <1>6, <2>1
  <2> QED
    BY <1>0, <1>1, <2>2, Settled
<1>8. ASSUME ip <= 0, iq <= 0, ir <= 0, is <= 0 PROVE f <= 0
  <2> DEFINE n == -f
             m == -w
  <2>1. -ip \in Nat /\ -iq \in Nat /\ -ir \in Nat /\ -is \in Nat /\ n \in Int /\ m \in Int
    BY <1>0, <1>1, <1>8
  <2>2. k1 * (-ip) + k2 * (-iq) >= 0 /\ k3 * (-ir) + k4 * (-is) >= 0
    BY <1>1, <1>6, <2>1
  <2>3. g * n + m * u = -(g * f + w * u) /\ h * n - m * v = -(h * f - w * v)
    BY <1>0, <1>1
  <2>4. /\ k1 * (-ip) + k2 * (-iq) = -(k1 * ip + k2 * iq)
        /\ k3 * (-ir) + k4 * (-is) = -(k3 * ir + k4 * is)
    BY <1>0, <1>1
  <2> HIDE DEF n, m
  <2>5. g * n + m * u >= 0 /\ h * n - m * v >= 0
    BY <1>4, <1>5, <2>2, <2>3, <2>4
  <2>6. n >= 0
    BY <1>0, <1>1, <2>1, <2>5, Settled
  <2> QED
    BY <1>0, <2>6 DEF n
<1> QED
  BY <1>7, <1>8

LEMMA SideIsLine ==
  ASSUME NEW ring \in Seq(Int \X Int), NEW k \in DOMAIN ring, NEW z \in Int \X Int
  PROVE  /\ Side(ring, k, z) \in Int
         /\ Side(ring, k, z) = Line(ring[k][1], ring[k][2], After(ring, k)[1], After(ring, k)[2],
                                   z[1], z[2])
BY SideIs DEF Line

\* A point between the edge a convex ring rises along and the one it falls along
\* is not beyond the ring.
LEMMA BetweenIsNotBeyond ==
  ASSUME NEW ring \in Seq(Int \X Int), Convex(ring), NEW x \in Int, NEW y \in Int,
         NEW i \in DOMAIN ring, Rises(ring, i, y),
         NEW j \in DOMAIN ring, Falls(ring, j, y),
         NEW u, u = Side(ring, i, <<x, y>>),
         NEW v, v = Side(ring, j, <<x, y>>),
         (u > 0 /\ v >= 0) \/ (u <= 0 /\ v < 0)
  PROVE  ~Beyond(ring, <<x, y>>)
<1>1. \A k \in DOMAIN ring :
         /\ ring[k] \in Int \X Int /\ After(ring, k) \in Int \X Int
         /\ After(ring, k) = ring[(k % Len(ring)) + 1] /\ (k % Len(ring)) + 1 \in DOMAIN ring
  BY NextCorner DEF After
<1>2. ASSUME NEW k \in DOMAIN ring
      PROVE  LET f == Side(ring, k, <<x, y>>)
                 ip == Side(ring, k, ring[i])
                 iq == Side(ring, k, After(ring, i))
                 ir == Side(ring, k, ring[j])
                 is == Side(ring, k, After(ring, j))
             IN  /\ f \in Int
                 /\ ip >= 0 /\ iq >= 0 /\ ir >= 0 /\ is >= 0 => f >= 0
                 /\ ip <= 0 /\ iq <= 0 /\ ir <= 0 /\ is <= 0 => f <= 0
  <2> DEFINE a1 == ring[k][1]
             a2 == ring[k][2]
             b1 == After(ring, k)[1]
             b2 == After(ring, k)[2]
             p1 == ring[i][1]
             p2 == ring[i][2]
             q1 == After(ring, i)[1]
             q2 == After(ring, i)[2]
             r1 == ring[j][1]
             r2 == ring[j][2]
             s1 == After(ring, j)[1]
             s2 == After(ring, j)[2]
             f == Side(ring, k, <<x, y>>)
             ip == Side(ring, k, ring[i])
             iq == Side(ring, k, After(ring, i))
             ir == Side(ring, k, ring[j])
             is == Side(ring, k, After(ring, j))
  <2>1. /\ a1 \in Int /\ a2 \in Int /\ b1 \in Int /\ b2 \in Int
        /\ p1 \in Int /\ p2 \in Int /\ q1 \in Int /\ q2 \in Int
        /\ r1 \in Int /\ r2 \in Int /\ s1 \in Int /\ s2 \in Int
    BY <1>1
  <2>2. p2 <= y /\ y < q2 /\ s2 <= y /\ y < r2
    BY DEF Rises, Falls
  <2>3. <<x, y>> \in Int \X Int /\ <<x, y>>[1] = x /\ <<x, y>>[2] = y
    OBVIOUS
  <2>4. /\ u \in Int /\ u = Line(p1, p2, q1, q2, x, y)
        /\ v \in Int /\ v = Line(r1, r2, s1, s2, x, y)
        /\ f \in Int /\ f = Line(a1, a2, b1, b2, x, y)
    BY <2>3, SideIsLine
  <2>5. /\ ip \in Int /\ ip = Line(a1, a2, b1, b2, p1, p2)
        /\ iq \in Int /\ iq = Line(a1, a2, b1, b2, q1, q2)
        /\ ir \in Int /\ ir = Line(a1, a2, b1, b2, r1, r2)
        /\ is \in Int /\ is = Line(a1, a2, b1, b2, s1, s2)
    BY <1>1, SideIsLine
  <2> HIDE DEF a1, a2, b1, b2, p1, p2, q1, q2, r1, r2, s1, s2, f, ip, iq, ir, is
  <2>6. OnTheirSide(Line(a1, a2, b1, b2, x, y),
                    Line(p1, p2, q1, q2, x, y), Line(r1, r2, s1, s2, x, y),
                    Line(a1, a2, b1, b2, p1, p2), Line(a1, a2, b1, b2, q1, q2),
                    Line(a1, a2, b1, b2, r1, r2), Line(a1, a2, b1, b2, s1, s2))
    BY <2>1, <2>2, OnTheSideOfCorners
  <2>7. OnTheirSide(f, u, v, ip, iq, ir, is)
    BY <2>4, <2>5, <2>6
  <2> QED
    BY <2>4, <2>7 DEF OnTheirSide, f, ip, iq, ir, is
<1>3. CASE \A k, l \in DOMAIN ring : Side(ring, k, ring[l]) >= 0
  <2>1. \A k \in DOMAIN ring : Side(ring, k, <<x, y>>) \in Int /\ Side(ring, k, <<x, y>>) >= 0
    BY <1>1, <1>2, <1>3
  <2>2. \A n \in Int : n >= 0 => ~(n < 0)
    OBVIOUS
  <2>3. \A k \in DOMAIN ring : ~(Side(ring, k, <<x, y>>) < 0)
    BY <2>1, <2>2
  <2> QED
    BY <2>3 DEF Beyond
<1>4. CASE \A k, l \in DOMAIN ring : Side(ring, k, ring[l]) <= 0
  <2>1. \A k \in DOMAIN ring : Side(ring, k, <<x, y>>) \in Int /\ Side(ring, k, <<x, y>>) <= 0
    BY <1>1, <1>2, <1>4
  <2>2. \A n \in Int : n <= 0 => ~(n > 0)
    OBVIOUS
  <2>3. \A k \in DOMAIN ring : ~(Side(ring, k, <<x, y>>) > 0)
    BY <2>1, <2>2
  <2> QED
    BY <2>3 DEF Beyond
<1> QED
  BY <1>3, <1>4 DEF Convex

\* The crossings of a convex ring: none if it does not rise past the point, and
\* at most two otherwise.
LEMMA CrossingsOfConvex ==
  ASSUME NEW ring \in Seq(Int \X Int), Convex(ring), NEW x \in Int, NEW y \in Int,
         NEW i \in DOMAIN ring, Rises(ring, i, y),
         NEW j \in DOMAIN ring, Falls(ring, j, y),
         NEW u, u = Side(ring, i, <<x, y>>),
         NEW v, v = Side(ring, j, <<x, y>>)
  PROVE  ringContains(ring, <<x, y>>) <=> (u > 0 /\ v >= 0) \/ (u <= 0 /\ v < 0)
<1> DEFINE C == {k \in DOMAIN ring : Crosses(After(ring, k), ring[k], <<x, y>>)}
<1>1. u \in Int /\ v \in Int
  <2>1. <<x, y>> \in Int \X Int
    OBVIOUS
  <2> QED
    BY <2>1, SideIs
<1>2. i # j
  <2>1. ring[i][2] \in Int /\ After(ring, i)[2] \in Int
    BY NextCorner
  <2> QED
    BY <2>1 DEF Rises, Falls
<1>3. \A k \in DOMAIN ring : (Rises(ring, k, y) => k = i) /\ (Falls(ring, k, y) => k = j)
  BY PassesOnce
<1>4. \A k \in DOMAIN ring : k \in C <=> (k = i /\ u > 0) \/ (k = j /\ v < 0)
  <2> TAKE k \in DOMAIN ring
  <2>1. k \in C <=> \/ Rises(ring, k, y) /\ Side(ring, k, <<x, y>>) > 0
                    \/ Falls(ring, k, y) /\ Side(ring, k, <<x, y>>) < 0
    BY CrossesBySide
  <2> HIDE DEF C
  <2> QED
    BY <1>3, <2>1
<1>5. C \subseteq DOMAIN ring
  OBVIOUS
<1>6. ringContains(ring, <<x, y>>) <=> Cardinality(C) % 2 = 1
  BY DEF ringContains
<1> HIDE DEF C
<1>7. CASE u > 0 /\ v >= 0
  <2>4. u > 0 /\ ~(v < 0)
    BY <1>1, <1>7
  <2>3. \A k \in DOMAIN ring : k \in C <=> k = i
    BY <1>4, <2>4
  <2>1. C = {i}
    BY <1>5, <2>3
  <2>2. Cardinality(C) = 1
    BY <2>1, FS_Singleton
  <2> QED
    BY <1>6, <1>7, <2>2
<1>8. CASE u <= 0 /\ v < 0
  <2>4. ~(u > 0) /\ v < 0
    BY <1>1, <1>8
  <2>3. \A k \in DOMAIN ring : k \in C <=> k = j
    BY <1>4, <2>4
  <2>1. C = {j}
    BY <1>5, <2>3
  <2>2. Cardinality(C) = 1
    BY <2>1, FS_Singleton
  <2> QED
    BY <1>6, <1>8, <2>2
<1>9. CASE u <= 0 /\ v >= 0
  <2>4. ~(u > 0) /\ ~(v < 0)
    BY <1>1, <1>9
  <2>3. \A k \in DOMAIN ring : k \in C <=> FALSE
    BY <1>4, <2>4
  <2>1. C = {}
    BY <1>5, <2>3
  <2>2. Cardinality(C) = 0
    BY <2>1, FS_EmptySet
  <2> QED
    BY <1>1, <1>6, <1>9, <2>2
<1>10. CASE u > 0 /\ v < 0
  <2>4. u > 0 /\ v < 0
    BY <1>1, <1>10
  <2>3. \A k \in DOMAIN ring : k \in C <=> k = i \/ k = j
    BY <1>4, <2>4
  <2>1. C = {i} \cup {j}
    BY <1>5, <2>3
  <2>2. Cardinality(C) = 2
    <3>1. IsFiniteSet({i}) /\ Cardinality({i}) = 1
      BY FS_Singleton
    <3>2. Cardinality({i} \cup {j}) = Cardinality({i}) + 1
      BY <1>2, <3>1, FS_AddElement
    <3>3. Cardinality(C) = 1 + 1
      BY <2>1, <3>1, <3>2
    <3> QED
      BY <3>3
  <2> QED
    BY <1>1, <1>6, <1>10, <2>2
<1> QED
  BY <1>1, <1>7, <1>8, <1>9, <1>10

LEMMA ConvexRing ==
  ASSUME NEW ring \in Seq(Int \X Int), Convex(ring), NEW x \in Int, NEW y \in Int
  PROVE  /\ Within(ring, <<x, y>>) => ringContains(ring, <<x, y>>)
         /\ Beyond(ring, <<x, y>>) => ~ringContains(ring, <<x, y>>)
<1>1. CASE \A i \in DOMAIN ring : ~Rises(ring, i, y)
  <2>1. \A k \in DOMAIN ring : ~Falls(ring, k, y)
    BY <1>1, RisesAndFalls
  <2>2. \A k \in DOMAIN ring : ~Crosses(After(ring, k), ring[k], <<x, y>>)
    BY <1>1, <2>1, CrossesBySide
  <2>3. {k \in DOMAIN ring : Crosses(After(ring, k), ring[k], <<x, y>>)} = {}
    BY <2>2
  <2>4. ~ringContains(ring, <<x, y>>)
    <3>1. Cardinality({}) % 2 # 1
      BY FS_EmptySet
    <3> QED
      BY <2>3, <3>1 DEF ringContains
  <2> QED
    BY <1>1, <2>4, NotWithinAside
<1>2. CASE \E i \in DOMAIN ring : Rises(ring, i, y)
  <2>1. PICK i \in DOMAIN ring : Rises(ring, i, y)
    BY <1>2
  <2>2. PICK j \in DOMAIN ring : Falls(ring, j, y)
    BY <1>2, RisesAndFalls
  <2> DEFINE u == Side(ring, i, <<x, y>>)
             v == Side(ring, j, <<x, y>>)
  <2>3. ringContains(ring, <<x, y>>) <=> (u > 0 /\ v >= 0) \/ (u <= 0 /\ v < 0)
    BY <2>1, <2>2, CrossingsOfConvex
  <2>4. (u > 0 /\ v >= 0) \/ (u <= 0 /\ v < 0) => ~Beyond(ring, <<x, y>>)
    BY <2>1, <2>2, BetweenIsNotBeyond
  <2>5. Within(ring, <<x, y>>) => (u > 0 /\ v > 0) \/ (u < 0 /\ v < 0)
    <3>1. ring[i] # After(ring, i) /\ ring[j] # After(ring, j)
      <4>1. ring[i][2] \in Int /\ ring[j][2] \in Int
        BY NextCorner
      <4> QED
        BY <2>1, <2>2, <4>1 DEF Rises, Falls
    <3> QED
      BY <3>1 DEF Within
  <2>6. u \in Int /\ v \in Int
    <3>1. <<x, y>> \in Int \X Int
      OBVIOUS
    <3> QED
      BY <3>1, SideIs
  <2> HIDE DEF u, v
  <2> QED
    BY <2>3, <2>4, <2>5, <2>6
<1> QED
  BY <1>1, <1>2

(***************************************************************************)
(* Theorem: the cell that CalculateCoverage looks at next is counted as    *)
(* inside if it is within a convex exterior and beyond its convex holes,   *)
(* and as outside if it is beyond the exterior or within a hole            *)
(* (polygonContains), whichever way round the rings go.                    *)
(***************************************************************************)
THEOREM InsideCorrect == Spec => []InsideMeansInside
<1>1. TypeOK /\ GridInv => InsideMeansInside
  <2> SUFFICES ASSUME TypeOK, GridInv, phase = "scan", cell < Cells,
                      \A n \in DOMAIN boundary : Convex(boundary[n])
               PROVE  LET point == Center(cell)
                          inside == /\ Within(boundary[1], point)
                                    /\ \A h \in DOMAIN Holes(boundary) : Beyond(Holes(boundary)[h], point)
                          outside == \/ Beyond(boundary[1], point)
                                     \/ \E h \in DOMAIN Holes(boundary) : Within(Holes(boundary)[h], point)
                      IN  (inside => polygonContains(boundary, point))
                          /\ (outside => ~polygonContains(boundary, point))
    BY DEF InsideMeansInside
  <2>1. OnGrid
    BY TypedIsOnGrid DEF GridInv
  <2>2. cell \in 0 .. Cells - 1
    <3>1. cell \in Nat /\ Cells \in Nat
      BY <2>1, GridSize DEF TypeOK
    <3> QED
      BY <3>1
  <2> DEFINE point == Center(cell)
  <2>3. point = <<point[1], point[2]>> /\ point[1] \in Int /\ point[2] \in Int
    BY <2>1, <2>2, CentersOfCells
  <2>4. \A n \in DOMAIN boundary : boundary[n] \in Seq(Int \X Int)
    BY <2>1, BoundaryAssumption DEF OnGrid
  <2> HIDE DEF point
  <2>5. \A n \in DOMAIN boundary : /\ Within(boundary[n], point) => ringContains(boundary[n], point)
                                   /\ Beyond(boundary[n], point) => ~ringContains(boundary[n], point)
    BY <2>3, <2>4, ConvexRing
  <2>6. /\ 1 \in DOMAIN boundary
        /\ \A h \in DOMAIN Holes(boundary) :
              h + 1 \in DOMAIN boundary /\ Holes(boundary)[h] = boundary[h + 1]
    BY <2>1, RingsOfBoundary
  <2>7. \A h \in DOMAIN Holes(boundary) :
           /\ Within(Holes(boundary)[h], point) => ringContains(Holes(boundary)[h], point)
           /\ Beyond(Holes(boundary)[h], point) => ~ringContains(Holes(boundary)[h], point)
    BY <2>5, <2>6
  <2> SUFFICES /\ /\ Within(boundary[1], point)
                  /\ \A h \in DOMAIN Holes(boundary) : Beyond(Holes(boundary)[h], point)
                  => polygonContains(boundary, point)
               /\ \/ Beyond(boundary[1], point)
                  \/ \E h \in DOMAIN Holes(boundary) : Within(Holes(boundary)[h], point)
                  => ~polygonContains(boundary, point)
    BY DEF point
  <2> QED
    BY <2>5, <2>6, <2>7 DEF polygonContains
<1>2. Init => TypeOK /\ FiniteSurvey /\ GridInv
  BY InitType, InitGrid
<1>3. TypeOK /\ FiniteSurvey /\ GridInv /\ [Next]_vars => (TypeOK /\ FiniteSurvey /\ GridInv)'
  BY StepType, StepGrid
<1> QED
  BY <1>1, <1>2, <1>3, PTL DEF Spec

=============================================================================
