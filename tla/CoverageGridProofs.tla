-------------------------- MODULE CoverageGridProofs --------------------------
(***************************************************************************)
(* Theorems about CoverageGrid, for boundaries, grids, plans and surveys   *)
(* of any size and shape.                                                  *)
(***************************************************************************)
EXTENDS CoverageGrid, FiniteSetTheorems, TLAPS

-----------------------------------------------------------------------------
(***************************************************************************)
(* Least and greatest members of finite sets of integers.  A set without   *)
(* one would contain a smallest such set, from which one member can still  *)
(* be taken away.                                                          *)
(***************************************************************************)
HasLeast(S) == \E x \in S : \A y \in S : x <= y
HasGreatest(S) == \E x \in S : \A y \in S : x >= y

LEMMA ExtremesExist ==
  ASSUME NEW S \in SUBSET Int, IsFiniteSet(S), S # {}
  PROVE  HasLeast(S) /\ HasGreatest(S)
<1> DEFINE Bad == {T \in FiniteSubsetsOf(Int) : T # {} /\ ~(HasLeast(T) /\ HasGreatest(T))}
<1>1. SUFFICES ASSUME Bad # {} PROVE FALSE
  BY DEF FiniteSubsetsOf
<1>2. PICK T \in Bad : \A U \in Bad : ~ (<<U, T>> \in StrictSubsetOrdering(Int))
  <2> HIDE DEF Bad
  <2>1. IsWellFoundedOn(StrictSubsetOrdering(Int), FiniteSubsetsOf(Int))
    BY FS_StrictSubsetOrderingWellFounded
  <2>2. Bad \subseteq FiniteSubsetsOf(Int)
    BY DEF Bad
  <2> QED
    BY <1>1, <2>1, <2>2, WFMin
<1>3. T \in SUBSET Int /\ IsFiniteSet(T) /\ T # {}
  BY DEF FiniteSubsetsOf
<1>4. PICK x \in T : TRUE
  BY <1>3
<1> DEFINE U == T \ {x}
<1>5. IsFiniteSet(U) /\ U \in SUBSET Int
  BY <1>3, FS_RemoveElement
<1>6. CASE U = {}
  <2>1. T = {x} /\ x \in Int
    BY <1>3, <1>4, <1>6
  <2> QED
    BY <2>1 DEF HasLeast, HasGreatest
<1>7. CASE U # {}
  <2>1. <<U, T>> \in StrictSubsetOrdering(Int)
    BY <1>3, <1>4 DEF StrictSubsetOrdering
  <2>2. HasLeast(U) /\ HasGreatest(U)
    BY <1>2, <1>5, <1>7, <2>1 DEF FiniteSubsetsOf
  <2>3. PICK low \in U : \A y \in U : low <= y
    BY <2>2 DEF HasLeast
  <2>4. PICK high \in U : \A y \in U : high >= y
    BY <2>2 DEF HasGreatest
  <2>5. x \in Int /\ low \in Int /\ high \in Int /\ T = U \cup {x}
    BY <1>3, <1>4, <1>5
  <2>6. HasLeast(T)
    BY <1>5, <2>3, <2>5 DEF HasLeast
  <2>7. HasGreatest(T)
    BY <1>5, <2>4, <2>5 DEF HasGreatest
  <2> QED
    BY <2>6, <2>7
<1> QED
  BY <1>6, <1>7

LEMMA MinMaxOf ==
  ASSUME NEW S \in SUBSET Int, IsFiniteSet(S), S # {}
  PROVE  /\ Min(S) \in S /\ \A y \in S : Min(S) <= y
         /\ Max(S) \in S /\ \A y \in S : Max(S) >= y
BY ExtremesExist DEF HasLeast, HasGreatest, Min, Max

\* The least member is what Min chooses.
LEMMA MinIs ==
  ASSUME NEW S \in SUBSET Int, NEW x \in S, \A y \in S : x <= y
  PROVE  Min(S) = x
<1>1. Min(S) \in S /\ Min(S) <= x
  BY DEF Min
<1>2. Min(S) \in Int /\ x \in Int /\ x <= Min(S)
  BY <1>1
<1> QED
  BY <1>1, <1>2

LEMMA MaxIs ==
  ASSUME NEW S \in SUBSET Int, NEW x \in S, \A y \in S : x >= y
  PROVE  Max(S) = x
<1>1. Max(S) \in S /\ Max(S) >= x
  BY DEF Max
<1>2. Max(S) \in Int /\ x \in Int /\ x >= Max(S)
  BY <1>1
<1> QED
  BY <1>1, <1>2

LEMMA MinMaxOfTwo ==
  ASSUME NEW a \in Int, NEW b \in Int
  PROVE  /\ Min({a, b}) = IF a <= b THEN a ELSE b
         /\ Max({a, b}) = IF a >= b THEN a ELSE b
BY MinIs, MaxIs

-----------------------------------------------------------------------------
(***************************************************************************)
(* The bounds of a polygon.                                                *)
(***************************************************************************)
\* The image of a finite set under a function is finite.
LEMMA FiniteRange ==
  ASSUME NEW f, IsFiniteSet(DOMAIN f), f = [x \in DOMAIN f |-> f[x]]
  PROVE  IsFiniteSet(Range(f))
<1>1. f \in Surjection(DOMAIN f, Range(f))
  BY DEF Surjection, Range
<1> QED
  BY <1>1, FS_Surjection

LEMMA BoundsOfPolygon ==
  ASSUME NEW polygon \in Boundaries, polygon[1] # <<>>,
         NEW bounds, bounds = polygonBounds(polygon)
  PROVE  /\ bounds \in Box
         /\ \A n \in DOMAIN polygon : \A i \in DOMAIN polygon[n] :
               /\ polygon[n][i] \in Int \X Int
               /\ bounds.minX <= polygon[n][i][1] /\ polygon[n][i][1] <= bounds.maxX
               /\ bounds.minY <= polygon[n][i][2] /\ polygon[n][i][2] <= bounds.maxY
         /\ bounds.minX <= bounds.maxX /\ bounds.minY <= bounds.maxY
<1> DEFINE points == UNION {Range(polygon[ring]) : ring \in DOMAIN polygon}
           Xs == {p[1] : p \in points}
           Ys == {p[2] : p \in points}
<1>1. polygon \in Seq(Seq(Int \X Int)) /\ 1 \in DOMAIN polygon
  BY BoundaryAssumption
<1>2. \A n \in DOMAIN polygon : /\ polygon[n] \in Seq(Int \X Int)
                                /\ IsFiniteSet(Range(polygon[n]))
                                /\ Range(polygon[n]) \subseteq Int \X Int
  <2> TAKE n \in DOMAIN polygon
  <2>1. polygon[n] \in Seq(Int \X Int)
    BY <1>1
  <2>2. IsFiniteSet(DOMAIN polygon[n])
    BY <2>1, FS_Interval
  <2> QED
    BY <2>1, <2>2, FiniteRange DEF Range
<1>3. IsFiniteSet(points) /\ points \subseteq Int \X Int
  <2> DEFINE rings == [n \in DOMAIN polygon |-> Range(polygon[n])]
  <2>1. IsFiniteSet(DOMAIN polygon)
    BY <1>1, FS_Interval
  <2>2. IsFiniteSet(Range(rings))
    BY <2>1, FiniteRange
  <2>3. Range(rings) = {Range(polygon[ring]) : ring \in DOMAIN polygon}
    BY DEF Range
  <2>4. IsFiniteSet(UNION Range(rings))
    BY <1>2, <2>2, <2>3, FS_UNION
  <2> QED
    BY <1>2, <2>3, <2>4
<1>4. \A n \in DOMAIN polygon : \A i \in DOMAIN polygon[n] : polygon[n][i] \in points
  BY DEF Range
<1>5. points # {}
  <2>1. 1 \in DOMAIN polygon[1]
    BY <1>1, <1>2
  <2> QED
    BY <1>1, <1>4, <2>1
<1> HIDE DEF points
<1>6. IsFiniteSet(Xs) /\ IsFiniteSet(Ys)
  <2> DEFINE first == [p \in points |-> p[1]]
             second == [p \in points |-> p[2]]
  <2>1. IsFiniteSet(Range(first)) /\ IsFiniteSet(Range(second))
    BY <1>3, FiniteRange
  <2>2. Range(first) = Xs /\ Range(second) = Ys
    BY DEF Range
  <2> QED
    BY <2>1, <2>2
<1>7. Xs \in SUBSET Int /\ Ys \in SUBSET Int /\ Xs # {} /\ Ys # {}
  BY <1>3, <1>5
<1>8. /\ Min(Xs) \in Int /\ Max(Xs) \in Int /\ \A x \in Xs : Min(Xs) <= x /\ x <= Max(Xs)
      /\ Min(Ys) \in Int /\ Max(Ys) \in Int /\ \A y \in Ys : Min(Ys) <= y /\ y <= Max(Ys)
  <2> HIDE DEF Xs, Ys
  <2> QED
    BY <1>6, <1>7, MinMaxOf
<1>9. bounds = [minX |-> Min(Xs), minY |-> Min(Ys), maxX |-> Max(Xs), maxY |-> Max(Ys)]
  BY DEF polygonBounds, points
<1>10. \A p \in points : p[1] \in Xs /\ p[2] \in Ys
  OBVIOUS
<1>11. \E x \in Xs, y \in Ys : x \in Int /\ y \in Int
  BY <1>7
<1> HIDE DEF Xs, Ys
<1>12. Min(Xs) <= Max(Xs) /\ Min(Ys) <= Max(Ys)
  BY <1>8, <1>11
<1> QED
  BY <1>3, <1>4, <1>8, <1>9, <1>10, <1>12 DEF Box

-----------------------------------------------------------------------------
(***************************************************************************)
(* Counting the cells of a grid row by row.                                *)
(***************************************************************************)
First(S, n) == S \cap (0 .. n - 1)

LEMMA CountedSoFar ==
  ASSUME NEW S, NEW n \in Nat
  PROVE  /\ First(S, 0) = {}
         /\ First(S, n + 1) = IF n \in S THEN First(S, n) \cup {n} ELSE First(S, n)
         /\ IsFiniteSet(First(S, n))
         /\ Cardinality(First(S, n)) \in Nat
         /\ Cardinality(First(S, n + 1)) = Cardinality(First(S, n)) + Counted(n \in S)
<1>1. First(S, 0) = {}
  BY DEF First
<1>2. First(S, n + 1) = IF n \in S THEN First(S, n) \cup {n} ELSE First(S, n)
  <2>1. 0 .. (n + 1) - 1 = (0 .. n - 1) \cup {n} /\ n \notin 0 .. n - 1
    OBVIOUS
  <2> QED
    BY <2>1 DEF First
<1>3. IsFiniteSet(First(S, n)) /\ Cardinality(First(S, n)) \in Nat
  <2>1. IsFiniteSet(0 .. n - 1)
    BY FS_Interval
  <2>2. IsFiniteSet(First(S, n))
    BY <2>1, FS_Subset DEF First
  <2> QED
    BY <2>2, FS_CardinalityType
<1>4. n \notin First(S, n)
  BY DEF First
<1>5. Cardinality(First(S, n) \cup {n}) = Cardinality(First(S, n)) + 1
  BY <1>3, <1>4, FS_AddElement
<1> QED
  BY <1>1, <1>2, <1>3, <1>5 DEF Counted

\* What the number of members says of a finite set.
LEMMA AtLeastOneOrTwo ==
  ASSUME NEW S, IsFiniteSet(S)
  PROVE  /\ Cardinality(S) \in Nat
         /\ Cardinality(S) > 0 <=> S # {}
         /\ Cardinality(S) > 1 <=> \E a \in S : \E b \in S \ {a} : TRUE
<1>1. Cardinality(S) \in Nat /\ (Cardinality(S) = 0 <=> S = {})
  BY FS_CardinalityType, FS_EmptySet
<1>2. ASSUME NEW a \in S
      PROVE  /\ Cardinality(S \ {a}) = Cardinality(S) - 1
             /\ Cardinality(S \ {a}) \in Nat
             /\ Cardinality(S \ {a}) = 0 <=> S \ {a} = {}
  <2>1. IsFiniteSet(S \ {a}) /\ Cardinality(S \ {a}) = Cardinality(S) - 1
    BY FS_RemoveElement
  <2> QED
    BY <2>1, FS_CardinalityType, FS_EmptySet
<1>3. CASE S = {}
  BY <1>1, <1>3
<1>4. CASE S # {}
  <2>1. PICK a \in S : TRUE
    BY <1>4
  <2>2. Cardinality(S) > 1 <=> S \ {a} # {}
    <3>1. \A n, m \in Nat : m = n - 1 => (n > 1 <=> m # 0)
      OBVIOUS
    <3> QED
      BY <1>1, <1>2, <2>1, <3>1
  <2>3. S \ {a} # {} <=> \E c \in S : \E b \in S \ {c} : TRUE
    BY <2>1
  <2> QED
    BY <1>1, <1>4, <2>2, <2>3
<1> QED
  BY <1>3, <1>4

-----------------------------------------------------------------------------
(***************************************************************************)
(* The grid over a boundary with corners.                                  *)
(***************************************************************************)
bounds == polygonBounds(boundary)

\* A survey of an area that passes validation, on a grid of cells of even size.
OnGrid ==
    /\ boundary \in Boundaries /\ boundary[1] # <<>>
    /\ resolution \in Nat \ {0} /\ resolution % 2 = 0

LEMMA ValidHasCorners ==
  ASSUME NEW polygon \in Boundaries, validatePolygon(polygon)
  PROVE  polygon[1] # <<>>
BY DEF validatePolygon

LEMMA HalfOf ==
  ASSUME NEW n \in Nat \ {0}, n % 2 = 0
  PROVE  n \div 2 \in Nat \ {0} /\ 2 * (n \div 2) = n
OBVIOUS

LEMMA GridSize ==
  ASSUME OnGrid
  PROVE  /\ bounds \in Box /\ bounds.minX <= bounds.maxX /\ bounds.minY <= bounds.maxY
         /\ Columns \in Nat /\ Rows \in Nat /\ Cells \in Nat
         /\ Cells > 0 => Columns > 0
<1>1. bounds \in Box /\ bounds.minX <= bounds.maxX /\ bounds.minY <= bounds.maxY
  BY BoundsOfPolygon DEF OnGrid, bounds
<1>2. ASSUME NEW length \in Nat PROVE Ceiling(length) \in Nat
  BY DEF Ceiling, OnGrid
<1>3. bounds.maxX - bounds.minX \in Nat /\ bounds.maxY - bounds.minY \in Nat
  BY <1>1 DEF Box
<1>4. Columns \in Nat /\ Rows \in Nat
  BY <1>2, <1>3 DEF Columns, Rows, bounds
<1> QED
  BY <1>1, <1>4 DEF Cells

LEMMA CentersOfCells ==
  ASSUME OnGrid, NEW k \in 0 .. Cells - 1
  PROVE  /\ Center(k) = <<Center(k)[1], Center(k)[2]>>
         /\ Center(k)[1] \in Int /\ Center(k)[1] >= bounds.minX + resolution \div 2
         /\ Center(k)[2] \in Int /\ Center(k)[2] >= bounds.minY + resolution \div 2
         /\ Square(Center(k)) \in Box
<1>1. Columns \in Nat \ {0} /\ k \in Nat /\ bounds \in Box
  BY GridSize
<1>2. k % Columns \in Nat /\ k \div Columns \in Nat
  BY <1>1
<1>3. resolution \in Nat /\ resolution \div 2 \in Nat
  BY HalfOf DEF OnGrid
<1>4. (k % Columns) * resolution \in Nat /\ (k \div Columns) * resolution \in Nat
  BY <1>2, <1>3
<1>5. Center(k) = << bounds.minX + (k % Columns) * resolution + resolution \div 2,
                     bounds.minY + (k \div Columns) * resolution + resolution \div 2 >>
  BY DEF Center, bounds
<1>6. bounds.minX \in Int /\ bounds.minY \in Int
  BY <1>1 DEF Box
<1>7. ASSUME NEW a \in Int, NEW b \in Nat, NEW c \in Nat PROVE a + b + c \in Int /\ a + b + c >= a + c
  OBVIOUS
<1>8. /\ Center(k)[1] \in Int /\ Center(k)[1] >= bounds.minX + resolution \div 2
      /\ Center(k)[2] \in Int /\ Center(k)[2] >= bounds.minY + resolution \div 2
  BY <1>3, <1>4, <1>5, <1>6, <1>7
<1> QED
  BY <1>3, <1>5, <1>8 DEF Square, Box

-----------------------------------------------------------------------------
(***************************************************************************)
(* Type correctness.  The counts stay in order because a point that two    *)
(* runs pass is passed by one.                                             *)
(***************************************************************************)
FiniteSurvey == IsFiniteSet(DOMAIN survey)

LEMMA PassesOfPoint ==
  ASSUME FiniteSurvey, NEW point
  PROVE  /\ coveragePasses(point, survey) \in Nat
         /\ coveragePasses(point, survey) > 0 <=> \E r \in DOMAIN survey : Covers(survey[r], point)
         /\ coveragePasses(point, survey) > 1 <=>
               \E r \in DOMAIN survey : \E other \in DOMAIN survey \ {r} :
                  Covers(survey[r], point) /\ Covers(survey[other], point)
<1> DEFINE passing == {r \in DOMAIN survey : Covers(survey[r], point)}
<1>1. IsFiniteSet(passing)
  BY FS_Subset DEF FiniteSurvey
<1>2. /\ Cardinality(passing) \in Nat
      /\ Cardinality(passing) > 0 <=> passing # {}
      /\ Cardinality(passing) > 1 <=> \E a \in passing : \E b \in passing \ {a} : TRUE
  <2> HIDE DEF passing
  <2> QED
    BY <1>1, AtLeastOneOrTwo
<1>3. (\E a \in passing : \E b \in passing \ {a} : TRUE)
      <=> \E r \in DOMAIN survey : \E other \in DOMAIN survey \ {r} :
             Covers(survey[r], point) /\ Covers(survey[other], point)
  OBVIOUS
<1> QED
  BY <1>2, <1>3 DEF coveragePasses

LEMMA InitType == Init => TypeOK /\ FiniteSurvey
<1> SUFFICES ASSUME Init PROVE TypeOK /\ FiniteSurvey
  OBVIOUS
<1>1. FiniteSurvey
  <2>1. CASE survey = <<>>
    <3>1. DOMAIN survey = {}
      BY <2>1
    <3> QED
      BY <3>1, FS_EmptySet DEF FiniteSurvey
  <2> QED
    BY <2>1, RunsAssumption DEF Init, FiniteSurvey
<1> QED
  BY <1>1 DEF Init, TypeOK, Phases

LEMMA TallyInOrder ==
  ASSUME TypeOK, NEW point, NEW passes \in Nat
  PROVE  /\ Tally(point, passes) \in [inside : Nat, covered : Nat, overlap : Nat]
         /\ Tally(point, passes).overlap <= Tally(point, passes).covered
         /\ Tally(point, passes).covered <= Tally(point, passes).inside
         /\ Tally(point, passes).inside <= cell + 1
BY DEF TypeOK, Tally, Counted

LEMMA StepType == TypeOK /\ FiniteSurvey /\ [Next]_vars => TypeOK' /\ FiniteSurvey'
<1> SUFFICES ASSUME TypeOK, FiniteSurvey, [Next]_vars PROVE TypeOK' /\ FiniteSurvey'
  OBVIOUS
<1>1. CASE Generate
  <2>1. DOMAIN survey' = {PlannedRun}
    BY <1>1 DEF Generate
  <2>2. FiniteSurvey'
    <3>1. IsFiniteSet({PlannedRun})
      BY FS_Singleton
    <3> QED
      BY <2>1, <3>1 DEF FiniteSurvey
  <2> QED
    BY <1>1, <2>2 DEF TypeOK, Generate, Phases
<1>2. CASE GenerateRefused
  BY <1>2 DEF TypeOK, FiniteSurvey, GenerateRefused, Phases
<1>3. CASE Start
  BY <1>3 DEF TypeOK, FiniteSurvey, Start, Phases
<1>4. CASE Scan
  <2>1. coveragePasses(Center(cell), survey) \in Nat
    BY PassesOfPoint
  <2>2. counts' = Tally(Center(cell), coveragePasses(Center(cell), survey)) /\ cell' = cell + 1
    BY <1>4 DEF Scan
  <2>3. /\ counts' \in [inside : Nat, covered : Nat, overlap : Nat]
        /\ counts'.overlap <= counts'.covered /\ counts'.covered <= counts'.inside
        /\ counts'.inside <= cell'
    BY <2>1, <2>2, TallyInOrder
  <2> QED
    BY <1>4, <2>3 DEF TypeOK, FiniteSurvey, Scan, Phases
<1>5. CASE Finish
  BY <1>5 DEF TypeOK, FiniteSurvey, Finish, Phases
<1>6. CASE FlyRecommendation
  <2>1. DOMAIN survey' = DOMAIN survey \cup {Resurvey}
    BY <1>6 DEF FlyRecommendation
  <2>2. FiniteSurvey'
    <3>1. IsFiniteSet(DOMAIN survey \cup {Resurvey})
      BY FS_AddElement DEF FiniteSurvey
    <3> QED
      BY <2>1, <3>1 DEF FiniteSurvey
  <2> QED
    BY <1>6, <2>2 DEF TypeOK, FlyRecommendation, Phases
<1>7. CASE UNCHANGED vars
  BY <1>7 DEF TypeOK, FiniteSurvey, vars
<1> QED
  BY <1>1, <1>2, <1>3, <1>4, <1>5, <1>6, <1>7 DEF Next

\* The counts of an analysis are numbers in order: a cell that is covered
\* twice is covered, one that is covered is inside, whatever the survey.
THEOREM TypeCorrect == Spec => []TypeOK
<1>1. TypeOK /\ FiniteSurvey /\ [Next]_vars => (TypeOK /\ FiniteSurvey)'
  BY StepType
<1> QED
  BY <1>1, InitType, PTL DEF Spec

-----------------------------------------------------------------------------
(***************************************************************************)
(* The smallest box around squares, as it grows square by square.          *)
(***************************************************************************)
Holds(b, s) == b.minX <= s.minX /\ b.minY <= s.minY /\ s.maxX <= b.maxX /\ s.maxY <= b.maxY

IsBoxOf(b, squares) ==
    IF squares = {} THEN b = Nothing
    ELSE /\ b \in Box
         /\ \A s \in squares : Holds(b, s)
         /\ \E s \in squares : b.minX = s.minX
         /\ \E s \in squares : b.minY = s.minY
         /\ \E s \in squares : b.maxX = s.maxX
         /\ \E s \in squares : b.maxY = s.maxY

LEMMA WidenedIsBox ==
  ASSUME NEW squares \in SUBSET Box, NEW s \in Box, NEW b, IsBoxOf(b, squares)
  PROVE  IsBoxOf(Widened(b, s), squares \cup {s})
<1>1. CASE squares = {}
  <2>1. Widened(b, s) = s /\ squares \cup {s} = {s}
    BY <1>1 DEF IsBoxOf, Widened
  <2>2. Holds(s, s)
    BY DEF Holds, Box
  <2> QED
    BY <2>1, <2>2 DEF IsBoxOf
<1>2. CASE squares # {}
  <2> DEFINE w == Widened(b, s)
  <2>1. b \in Box /\ b # Nothing
    BY <1>2, NothingAssumption DEF IsBoxOf
  <2>2. /\ b.minX \in Int /\ b.minY \in Int /\ b.maxX \in Int /\ b.maxY \in Int
        /\ s.minX \in Int /\ s.minY \in Int /\ s.maxX \in Int /\ s.maxY \in Int
    BY <2>1 DEF Box
  <2>3. w = [minX |-> IF b.minX <= s.minX THEN b.minX ELSE s.minX,
             minY |-> IF b.minY <= s.minY THEN b.minY ELSE s.minY,
             maxX |-> IF b.maxX >= s.maxX THEN b.maxX ELSE s.maxX,
             maxY |-> IF b.maxY >= s.maxY THEN b.maxY ELSE s.maxY]
    BY <2>1, <2>2, MinMaxOfTwo DEF Widened
  <2> HIDE DEF w
  <2>4. w \in Box /\ Holds(w, s) /\ Holds(w, b)
    BY <2>2, <2>3 DEF Box, Holds
  <2>5. \A t \in squares : Holds(w, t)
    <3> TAKE t \in squares
    <3>1. Holds(b, t) /\ t \in Box
      BY <1>2 DEF IsBoxOf
    <3> QED
      BY <2>1, <2>4, <3>1 DEF Holds, Box
  <2>6. /\ w.minX \in {b.minX, s.minX} /\ w.minY \in {b.minY, s.minY}
        /\ w.maxX \in {b.maxX, s.maxX} /\ w.maxY \in {b.maxY, s.maxY}
    BY <2>3
  <2>7. /\ \E t \in squares \cup {s} : w.minX = t.minX
        /\ \E t \in squares \cup {s} : w.minY = t.minY
        /\ \E t \in squares \cup {s} : w.maxX = t.maxX
        /\ \E t \in squares \cup {s} : w.maxY = t.maxY
    BY <1>2, <2>6 DEF IsBoxOf
  <2>8. IsBoxOf(w, squares \cup {s})
    BY <2>4, <2>5, <2>7 DEF IsBoxOf
  <2> QED
    BY <2>8 DEF w
<1> QED
  BY <1>1, <1>2

LEMMA BoxIsSmallest ==
  ASSUME NEW squares \in SUBSET Box, squares # {}, NEW b, IsBoxOf(b, squares)
  PROVE  b = [minX |-> Min({s.minX : s \in squares}), minY |-> Min({s.minY : s \in squares}),
              maxX |-> Max({s.maxX : s \in squares}), maxY |-> Max({s.maxY : s \in squares})]
<1>1. b \in Box /\ \A s \in squares : Holds(b, s)
  BY DEF IsBoxOf
<1>2. Min({s.minX : s \in squares}) = b.minX
  <2> DEFINE S == {s.minX : s \in squares}
  <2>1. S \in SUBSET Int /\ b.minX \in S /\ \A x \in S : b.minX <= x
    BY <1>1 DEF IsBoxOf, Box, Holds
  <2> HIDE DEF S
  <2> SUFFICES Min(S) = b.minX
    BY DEF S
  <2> QED
    BY <2>1, MinIs
<1>3. Min({s.minY : s \in squares}) = b.minY
  <2> DEFINE S == {s.minY : s \in squares}
  <2>1. S \in SUBSET Int /\ b.minY \in S /\ \A x \in S : b.minY <= x
    BY <1>1 DEF IsBoxOf, Box, Holds
  <2> HIDE DEF S
  <2> SUFFICES Min(S) = b.minY
    BY DEF S
  <2> QED
    BY <2>1, MinIs
<1>4. Max({s.maxX : s \in squares}) = b.maxX
  <2> DEFINE S == {s.maxX : s \in squares}
  <2>1. S \in SUBSET Int /\ b.maxX \in S /\ \A x \in S : b.maxX >= x
    BY <1>1 DEF IsBoxOf, Box, Holds
  <2> HIDE DEF S
  <2> SUFFICES Max(S) = b.maxX
    BY DEF S
  <2> QED
    BY <2>1, MaxIs
<1>5. Max({s.maxY : s \in squares}) = b.maxY
  <2> DEFINE S == {s.maxY : s \in squares}
  <2>1. S \in SUBSET Int /\ b.maxY \in S /\ \A x \in S : b.maxY >= x
    BY <1>1 DEF IsBoxOf, Box, Holds
  <2> HIDE DEF S
  <2> SUFFICES Max(S) = b.maxY
    BY DEF S
  <2> QED
    BY <2>1, MaxIs
<1> QED
  BY <1>1, <1>2, <1>3, <1>4, <1>5 DEF Box

-----------------------------------------------------------------------------
(***************************************************************************)
(* Half-way through an analysis, the counts and the box are those of the   *)
(* cells already classified.                                               *)
(***************************************************************************)
CoveredTwice ==
    {k \in InsideCells : \E r \in DOMAIN survey : \E other \in DOMAIN survey \ {r} :
        Covers(survey[r], Center(k)) /\ Covers(survey[other], Center(k))}

Squares(cells) == {Square(Center(k)) : k \in cells}

GridInv ==
    phase \in {"scan", "answered"} =>
        /\ boundary[1] # <<>>
        /\ cell <= Cells
        /\ phase = "answered" => cell = Cells
        /\ counts.inside = Cardinality(First(InsideCells, cell))
        /\ counts.inside - counts.covered = Cardinality(First(GapCells, cell))
        /\ counts.overlap = Cardinality(First(CoveredTwice, cell))
        /\ IsBoxOf(box, Squares(First(GapCells, cell)))

LEMMA TypedIsOnGrid ==
  ASSUME TypeOK, boundary[1] # <<>>
  PROVE  OnGrid
BY EvenAssumption DEF TypeOK, OnGrid

LEMMA SquaresAreBoxes ==
  ASSUME OnGrid, NEW n \in Nat
  PROVE  Squares(First(GapCells, n)) \in SUBSET Box
BY CentersOfCells DEF Squares, First, GapCells, InsideCells

LEMMA SameGrid ==
  ASSUME UNCHANGED <<boundary, resolution>>
  PROVE  /\ bounds' = bounds /\ Cells' = Cells /\ \A k : Center(k)' = Center(k)
         /\ InsideCells' = InsideCells
         /\ \A cells : Squares(cells)' = Squares(cells)
BY DEF bounds, Cells, Columns, Rows, Ceiling, Center, InsideCells, Squares, Square

LEMMA SameGaps ==
  ASSUME UNCHANGED <<boundary, resolution, survey>>
  PROVE  GapCells' = GapCells /\ CoveredTwice' = CoveredTwice
BY SameGrid DEF GapCells, CoveredTwice

LEMMA ScanKeepsGrid ==
  ASSUME TypeOK, FiniteSurvey, GridInv, Scan
  PROVE  GridInv'
<1> DEFINE point == Center(cell)
           passes == coveragePasses(point, survey)
<1>1. /\ phase = "scan" /\ cell < Cells /\ cell \in Nat /\ cell' = cell + 1
      /\ phase' = phase /\ boundary' = boundary
      /\ counts' = Tally(point, passes)
      /\ box' = IF polygonContains(boundary, point) /\ passes = 0
                THEN Widened(box, Square(point)) ELSE box
  BY DEF Scan, TypeOK
<1>2. /\ boundary[1] # <<>> /\ OnGrid
      /\ counts.inside = Cardinality(First(InsideCells, cell))
      /\ counts.inside - counts.covered = Cardinality(First(GapCells, cell))
      /\ counts.overlap = Cardinality(First(CoveredTwice, cell))
      /\ IsBoxOf(box, Squares(First(GapCells, cell)))
  BY <1>1, TypedIsOnGrid DEF GridInv
<1>3. /\ Cells' = Cells /\ InsideCells' = InsideCells /\ GapCells' = GapCells
      /\ CoveredTwice' = CoveredTwice /\ \A cells : Squares(cells)' = Squares(cells)
  BY SameGrid, SameGaps DEF Scan
<1>4. Cells \in Nat /\ cell \in 0 .. Cells - 1
  BY <1>1, <1>2, GridSize
<1>5. /\ passes \in Nat
      /\ passes > 0 <=> \E r \in DOMAIN survey : Covers(survey[r], point)
      /\ passes > 1 <=> \E r \in DOMAIN survey : \E other \in DOMAIN survey \ {r} :
                           Covers(survey[r], point) /\ Covers(survey[other], point)
  BY PassesOfPoint
<1>6. /\ cell \in InsideCells <=> polygonContains(boundary, point)
      /\ cell \in GapCells <=> polygonContains(boundary, point) /\ ~(passes > 0)
      /\ cell \in CoveredTwice <=> polygonContains(boundary, point) /\ passes > 1
  <2> HIDE DEF passes
  <2> QED
    BY <1>4, <1>5 DEF InsideCells, GapCells, CoveredTwice
<1>7. counts.inside \in Nat /\ counts.covered \in Nat /\ counts.overlap \in Nat
  BY DEF TypeOK
<1>8. /\ counts'.inside = counts.inside + Counted(cell \in InsideCells)
      /\ counts'.inside - counts'.covered = (counts.inside - counts.covered) + Counted(cell \in GapCells)
      /\ counts'.overlap = counts.overlap + Counted(cell \in CoveredTwice)
  <2> HIDE DEF passes, point
  <2>1. CASE polygonContains(boundary, point)
    <3>1. counts' = [inside  |-> counts.inside + 1,
                     covered |-> counts.covered + Counted(passes > 0),
                     overlap |-> counts.overlap + Counted(passes > 1)]
      BY <1>1, <2>1 DEF Tally
    <3>2. /\ Counted(cell \in InsideCells) = 1
          /\ Counted(cell \in GapCells) = 1 - Counted(passes > 0)
          /\ Counted(cell \in CoveredTwice) = Counted(passes > 1)
          /\ Counted(passes > 0) \in Int
      BY <1>6, <2>1 DEF Counted
    <3> QED
      BY <1>7, <3>1, <3>2
  <2>2. CASE ~polygonContains(boundary, point)
    <3>1. counts' = counts
      BY <1>1, <2>2 DEF Tally
    <3>2. /\ Counted(cell \in InsideCells) = 0 /\ Counted(cell \in GapCells) = 0
          /\ Counted(cell \in CoveredTwice) = 0
      BY <1>6, <2>2 DEF Counted
    <3> QED
      BY <1>7, <3>1, <3>2
  <2> QED
    BY <2>1, <2>2
<1>9. \A S : Cardinality(First(S, cell + 1)) = Cardinality(First(S, cell)) + Counted(cell \in S)
  BY <1>1, CountedSoFar
<1>10. IsBoxOf(box', Squares(First(GapCells, cell + 1)))
  <2>1. CASE cell \in GapCells
    <3>1. First(GapCells, cell + 1) = First(GapCells, cell) \cup {cell}
      BY <1>1, <2>1, CountedSoFar
    <3>2. Squares(First(GapCells, cell + 1)) = Squares(First(GapCells, cell)) \cup {Square(point)}
      BY <3>1 DEF Squares
    <3>3. Square(point) \in Box /\ Squares(First(GapCells, cell)) \in SUBSET Box
      BY <1>1, <1>2, <1>4, CentersOfCells, SquaresAreBoxes
    <3>4. passes = 0
      <4> HIDE DEF passes
      <4> QED
        BY <1>5, <1>6, <2>1
    <3>5. box' = Widened(box, Square(point))
      BY <1>1, <1>6, <2>1, <3>4
    <3> QED
      BY <1>2, <3>2, <3>3, <3>5, WidenedIsBox
  <2>2. CASE cell \notin GapCells
    <3>1. First(GapCells, cell + 1) = First(GapCells, cell)
      BY <1>1, <2>2, CountedSoFar
    <3>2. box' = box
      <4> HIDE DEF passes
      <4> QED
        BY <1>1, <1>5, <1>6, <2>2
    <3> QED
      BY <1>2, <3>1, <3>2
  <2> QED
    BY <2>1, <2>2
<1>11. cell' <= Cells
  BY <1>1, <1>4
<1>12. /\ counts'.inside = Cardinality(First(InsideCells, cell'))
       /\ counts'.inside - counts'.covered = Cardinality(First(GapCells, cell'))
       /\ counts'.overlap = Cardinality(First(CoveredTwice, cell'))
       /\ IsBoxOf(box', Squares(First(GapCells, cell')))
  BY <1>1, <1>2, <1>8, <1>9, <1>10
<1>13. Squares(First(GapCells, cell))' = Squares(First(GapCells, cell'))
  BY <1>3, <1>1 DEF Scan, Squares, Center, Square, Columns, Ceiling
<1> QED
  BY <1>1, <1>2, <1>3, <1>11, <1>12, <1>13 DEF GridInv

LEMMA StepGrid == TypeOK /\ FiniteSurvey /\ GridInv /\ [Next]_vars => GridInv'
<1> SUFFICES ASSUME TypeOK, FiniteSurvey, GridInv, [Next]_vars PROVE GridInv'
  OBVIOUS
<1>1. CASE Generate
  BY <1>1 DEF Generate, GridInv
<1>2. CASE GenerateRefused
  BY <1>2 DEF GenerateRefused, GridInv
<1>3. CASE Start
  <2>1. CASE phase' = "scan"
    <3>1. /\ boundary[1] # <<>> /\ boundary' = boundary /\ cell' = 0 /\ box' = Nothing
          /\ counts' = [inside |-> 0, covered |-> 0, overlap |-> 0]
      BY <1>3, <2>1, ValidHasCorners DEF Start, TypeOK
    <3>2. Cells' \in Nat
      BY <1>3, <3>1, TypedIsOnGrid, GridSize, SameGrid DEF Start
    <3>3. \A S : First(S, 0) = {} /\ Cardinality(First(S, 0)) = 0
      BY CountedSoFar, FS_EmptySet
    <3>4. IsBoxOf(Nothing, {})
      BY DEF IsBoxOf
    <3>5. Squares(First(GapCells, cell))' = {}
      BY <3>1, <3>3 DEF Squares
    <3>6. IsBoxOf(box, Squares(First(GapCells, cell)))'
      BY <3>1, <3>4, <3>5
    <3>7. /\ Cardinality(First(InsideCells, cell))' = 0 /\ Cardinality(First(GapCells, cell))' = 0
          /\ Cardinality(First(CoveredTwice, cell))' = 0
      BY <3>1, <3>3
    <3>8. /\ (boundary[1] # <<>>)' /\ (cell <= Cells)' /\ phase' # "answered"
          /\ counts'.inside = 0 /\ counts'.inside - counts'.covered = 0 /\ counts'.overlap = 0
      BY <2>1, <3>1, <3>2
    <3> QED
      BY <3>6, <3>7, <3>8 DEF GridInv
  <2>2. CASE phase' = "refused"
    BY <2>2 DEF GridInv
  <2> QED
    BY <1>3, <2>1, <2>2 DEF Start
<1>4. CASE Scan
  BY <1>4, ScanKeepsGrid
<1>5. CASE Finish
  <2>1. UNCHANGED <<boundary, resolution, survey, cell, counts, box>> /\ phase = "scan" /\ cell = Cells
    BY <1>5 DEF Finish
  <2>2. /\ Cells' = Cells /\ InsideCells' = InsideCells /\ GapCells' = GapCells
        /\ CoveredTwice' = CoveredTwice
    BY <2>1, SameGrid, SameGaps
  <2>3. Squares(First(GapCells, cell))' = Squares(First(GapCells, cell))
    BY <2>1, <2>2 DEF Squares, Center, Square, Columns, Ceiling
  <2> QED
    BY <2>1, <2>2, <2>3 DEF GridInv
<1>6. CASE FlyRecommendation
  BY <1>6 DEF FlyRecommendation, GridInv
<1>7. CASE UNCHANGED vars
  <2>1. UNCHANGED <<boundary, resolution, survey, cell, counts, box, phase>>
    BY <1>7 DEF vars
  <2>2. /\ Cells' = Cells /\ InsideCells' = InsideCells /\ GapCells' = GapCells
        /\ CoveredTwice' = CoveredTwice
    BY <2>1, SameGrid, SameGaps
  <2>3. Squares(First(GapCells, cell))' = Squares(First(GapCells, cell))
    BY <2>1, <2>2 DEF Squares, Center, Square, Columns, Ceiling
  <2> QED
    BY <2>1, <2>2, <2>3 DEF GridInv
<1> QED
  BY <1>1, <1>2, <1>3, <1>4, <1>5, <1>6, <1>7 DEF Next

LEMMA InitGrid == Init => GridInv
BY DEF Init, GridInv

\* First of all cells is all of them.
LEMMA WholeGrid ==
  ASSUME OnGrid
  PROVE  /\ First(InsideCells, Cells) = InsideCells
         /\ First(GapCells, Cells) = GapCells
         /\ First(CoveredTwice, Cells) = CoveredTwice
BY DEF First, InsideCells, GapCells, CoveredTwice

LEMMA AnswerIsOfAllCells ==
  ASSUME TypeOK, GridInv, phase = "answered"
  PROVE  /\ OnGrid
         /\ counts.inside = Cardinality(InsideCells)
         /\ counts.inside - counts.covered = Cardinality(GapCells)
         /\ counts.overlap = Cardinality(CoveredTwice)
         /\ IsBoxOf(box, Squares(GapCells)) /\ Squares(GapCells) \in SUBSET Box
         /\ box = Nothing <=> GapCells = {}
<1>1. OnGrid /\ cell = Cells /\ cell \in Nat
  BY TypedIsOnGrid DEF GridInv, TypeOK
<1>2. /\ First(InsideCells, cell) = InsideCells /\ First(GapCells, cell) = GapCells
      /\ First(CoveredTwice, cell) = CoveredTwice
  BY <1>1, WholeGrid
<1>3. IsBoxOf(box, Squares(GapCells)) /\ Squares(GapCells) \in SUBSET Box
  BY <1>1, <1>2, SquaresAreBoxes DEF GridInv
<1>4. Squares(GapCells) = {} <=> GapCells = {}
  BY DEF Squares
<1>5. box = Nothing <=> GapCells = {}
  BY <1>3, <1>4, NothingAssumption DEF IsBoxOf
<1> QED
  BY <1>1, <1>2, <1>3, <1>5 DEF GridInv

LEMMA GridResult == TypeOK /\ GridInv => ResultIsOfTheWholeGrid
<1> SUFFICES ASSUME TypeOK, GridInv, phase = "answered" PROVE ResultIsOfTheWholeGrid
  BY DEF ResultIsOfTheWholeGrid
<1>1. /\ counts.inside = Cardinality(InsideCells)
      /\ counts.inside - counts.covered = Cardinality(GapCells)
      /\ counts.overlap = Cardinality(CoveredTwice)
      /\ box = Nothing <=> GapCells = {}
  BY AnswerIsOfAllCells
<1>2. ASSUME box # Nothing
      PROVE  box = [minX |-> Min({s.minX : s \in Squares(GapCells)}),
                    minY |-> Min({s.minY : s \in Squares(GapCells)}),
                    maxX |-> Max({s.maxX : s \in Squares(GapCells)}),
                    maxY |-> Max({s.maxY : s \in Squares(GapCells)})]
  <2>1. Squares(GapCells) # {}
    BY <1>1, <1>2 DEF Squares
  <2> QED
    BY <2>1, AnswerIsOfAllCells, BoxIsSmallest
<1> QED
  BY <1>1, <1>2 DEF ResultIsOfTheWholeGrid, CoveredTwice, Squares

\* An analysis that was answered accounts for every cell of the grid once, and
\* its box is the smallest around the uncovered ones (CalculateCoverage).
THEOREM ResultCorrect == Spec => []ResultIsOfTheWholeGrid
<1> DEFINE Inv == TypeOK /\ FiniteSurvey /\ GridInv
<1>1. Init => Inv
  BY InitType, InitGrid
<1>2. Inv /\ [Next]_vars => Inv'
  BY StepType, StepGrid
<1>3. Inv => ResultIsOfTheWholeGrid
  BY GridResult
<1> QED
  BY <1>1, <1>2, <1>3, PTL DEF Spec

-----------------------------------------------------------------------------
(***************************************************************************)
(* The recommended line.  It runs through the middle of the box, rounded   *)
(* down, past both of its short sides; no cell has its centre in the outer *)
(* half cell of the box, so the rounding costs nothing.                    *)
(***************************************************************************)
LEMMA SquareOfProduct ==
  ASSUME NEW a \in Int, NEW b \in Int, NEW w \in Nat, -w <= a, a <= w
  PROVE  (b * a) * (b * a) <= w * w * (b * b)
<1>1. a * a <= w * w
  <2>1. (w - a) * (w + a) >= 0
    <3>1. \A p, q \in Nat : p * q >= 0
      OBVIOUS
    <3> QED
      BY <3>1
  <2>2. (w - a) * (w + a) = w * w - a * a
    OBVIOUS
  <2> QED
    BY <2>1, <2>2
<1>2. b * b \in Nat
  OBVIOUS
<1>3. (a * a) * (b * b) <= (w * w) * (b * b)
  <2>1. \A p, q \in Int, n \in Nat : p <= q => p * n <= q * n
    OBVIOUS
  <2> QED
    BY <1>1, <1>2, <2>1
<1>4. (b * a) * (b * a) = (a * a) * (b * b)
  OBVIOUS
<1> QED
  BY <1>3, <1>4

\* A point beside a horizontal or a vertical segment, at most half a swath away.
LEMMA BesideHorizontal ==
  ASSUME NEW x \in Int, NEW y \in Int, NEW left \in Int, NEW right \in Int, NEW at \in Int,
         NEW swath \in Nat, left < x, x < right,
         -swath <= 2 * (y - at), 2 * (y - at) <= swath
  PROVE  WithinSwath(<<x, y>>, <<left, at>>, <<right, at>>, swath)
<1> DEFINE along == <<right - left, 0>>
           off == <<x - left, y - at>>
           length == right - left
           ahead == x - left
           t == ahead * length
<1>1. Dot(off, along) = t /\ Dot(along, along) = length * length
  BY DEF Dot
<1>2. 0 < t /\ t < length * length
  <2>1. \A p, q \in Nat : 0 < p /\ p < q => 0 < p * q /\ p * q < q * q
    OBVIOUS
  <2>2. ahead \in Nat /\ length \in Nat /\ 0 < ahead /\ ahead < length
    OBVIOUS
  <2> QED
    BY <2>1, <2>2
<1>3. Cross(along, off) = length * (y - at)
  BY DEF Cross
<1>4. (length * (2 * (y - at))) * (length * (2 * (y - at))) <= swath * swath * (length * length)
  BY SquareOfProduct
<1>5. 4 * Cross(along, off) * Cross(along, off)
      = (length * (2 * (y - at))) * (length * (2 * (y - at)))
  BY <1>3
<1>6. along = Minus(<<right, at>>, <<left, at>>) /\ off = Minus(<<x, y>>, <<left, at>>)
  BY DEF Minus
<1> QED
  BY <1>1, <1>2, <1>4, <1>5, <1>6 DEF WithinSwath

LEMMA BesideVertical ==
  ASSUME NEW x \in Int, NEW y \in Int, NEW low \in Int, NEW high \in Int, NEW at \in Int,
         NEW swath \in Nat, low < y, y < high,
         -swath <= 2 * (x - at), 2 * (x - at) <= swath
  PROVE  WithinSwath(<<x, y>>, <<at, low>>, <<at, high>>, swath)
<1> DEFINE along == <<0, high - low>>
           off == <<x - at, y - low>>
           length == high - low
           ahead == y - low
           t == ahead * length
<1>1. Dot(off, along) = t /\ Dot(along, along) = length * length
  BY DEF Dot
<1>2. 0 < t /\ t < length * length
  <2>1. \A p, q \in Nat : 0 < p /\ p < q => 0 < p * q /\ p * q < q * q
    OBVIOUS
  <2>2. ahead \in Nat /\ length \in Nat /\ 0 < ahead /\ ahead < length
    OBVIOUS
  <2> QED
    BY <2>1, <2>2
<1>3. Cross(along, off) = -((x - at) * length)
  BY DEF Cross
<1>4. (length * (2 * (x - at))) * (length * (2 * (x - at))) <= swath * swath * (length * length)
  BY SquareOfProduct
<1>5. 4 * Cross(along, off) * Cross(along, off)
      = (length * (2 * (x - at))) * (length * (2 * (x - at)))
  BY <1>3
<1>6. along = Minus(<<at, high>>, <<at, low>>) /\ off = Minus(<<x, y>>, <<at, low>>)
  BY DEF Minus
<1> QED
  BY <1>1, <1>2, <1>4, <1>5, <1>6 DEF WithinSwath

LEMMA MiddleIsClose ==
  ASSUME NEW low \in Int, NEW high \in Int, NEW half \in Nat \ {0}, NEW y \in Int,
         low <= y - half, y + half <= high
  PROVE  LET at == (low + high) \div 2
         IN  /\ at \in Int
             /\ -(high - low) <= 2 * (y - at) /\ 2 * (y - at) <= high - low
OBVIOUS

LEMMA LineCovers ==
  ASSUME NEW lines, NEW swath, NEW a, NEW b, <<a, b>> \in lines, NEW point,
         WithinSwath(point, a, b, swath)
  PROVE  Covers([lines |-> lines, swath |-> swath], point)
<1> DEFINE line == <<a, b>>
<1>1. 2 \in 2 .. Len(line) /\ line[2 - 1] = a /\ line[2] = b
  OBVIOUS
<1> QED
  BY <1>1 DEF Covers

LEMMA RecommendedCovers ==
  ASSUME OnGrid, NEW b \in Box, NEW x \in Int, NEW y \in Int, Holds(b, Square(<<x, y>>))
  PROVE  Covers([lines |-> {gapArtifacts(b)}, swath |-> Min({Width(b), Height(b)})], <<x, y>>)
<1> DEFINE half == resolution \div 2
<1>1. half \in Nat \ {0} /\ resolution \in Nat
  BY HalfOf DEF OnGrid
<1>2. b.minX \in Int /\ b.minY \in Int /\ b.maxX \in Int /\ b.maxY \in Int
  BY DEF Box
<1>3. /\ b.minX <= x - half /\ x + half <= b.maxX
      /\ b.minY <= y - half /\ y + half <= b.maxY
  BY DEF Holds, Square
<1>4. /\ Width(b) = b.maxX - b.minX /\ Height(b) = b.maxY - b.minY
      /\ Width(b) \in Nat /\ Height(b) \in Nat
  BY <1>1, <1>2, <1>3 DEF Width, Height
<1>5. CASE Width(b) >= Height(b)
  <2> DEFINE at == (b.minY + b.maxY) \div 2
             left == b.minX - resolution
             right == b.maxX + resolution
  <2>1. Min({Width(b), Height(b)}) = b.maxY - b.minY
    BY <1>4, <1>5, MinMaxOfTwo
  <2>2. at \in Int /\ -Height(b) <= 2 * (y - at) /\ 2 * (y - at) <= Height(b)
    BY <1>1, <1>2, <1>3, <1>4, MiddleIsClose
  <2>3. left \in Int /\ right \in Int /\ left < x /\ x < right
    BY <1>1, <1>2, <1>3
  <2> HIDE DEF at, left, right
  <2>4. WithinSwath(<<x, y>>, <<left, at>>, <<right, at>>, Height(b))
    BY <1>4, <2>2, <2>3, BesideHorizontal
  <2>5. gapArtifacts(b) = << <<left, at>>, <<right, at>> >>
    BY <1>5 DEF gapArtifacts, at, left, right
  <2> QED
    BY <1>4, <2>1, <2>4, <2>5, LineCovers
<1>6. CASE ~(Width(b) >= Height(b))
  <2> DEFINE at == (b.minX + b.maxX) \div 2
             low == b.minY - resolution
             high == b.maxY + resolution
  <2>1. Min({Width(b), Height(b)}) = b.maxX - b.minX
    BY <1>4, <1>6, MinMaxOfTwo
  <2>2. at \in Int /\ -Width(b) <= 2 * (x - at) /\ 2 * (x - at) <= Width(b)
    BY <1>1, <1>2, <1>3, <1>4, MiddleIsClose
  <2>3. low \in Int /\ high \in Int /\ low < y /\ y < high
    BY <1>1, <1>2, <1>3
  <2> HIDE DEF at, low, high
  <2>4. WithinSwath(<<x, y>>, <<at, low>>, <<at, high>>, Width(b))
    BY <1>4, <2>2, <2>3, BesideVertical
  <2>5. gapArtifacts(b) = << <<at, low>>, <<at, high>> >>
    BY <1>6 DEF gapArtifacts, at, low, high
  <2> QED
    BY <1>4, <2>1, <2>4, <2>5, LineCovers
<1> QED
  BY <1>5, <1>6

\* Once the recommended line is flown there is no gap, and there stays none.
ClosedInv == Resurvey \in DOMAIN survey => GapCells = {}

LEMMA FlownClosesGap ==
  ASSUME TypeOK, FiniteSurvey, GridInv, FlyRecommendation
  PROVE  GapCells' = {}
<1>1. /\ phase = "answered" /\ Resurvey \notin DOMAIN survey
      /\ UNCHANGED <<boundary, resolution>>
      /\ DOMAIN survey' = DOMAIN survey \cup {Resurvey}
      /\ \A r \in DOMAIN survey : survey'[r] = survey[r]
      /\ survey'[Resurvey] = [lines |-> {gapArtifacts(box)}, swath |-> Min({Width(box), Height(box)})]
  BY DEF FlyRecommendation
<1>2. OnGrid /\ IsBoxOf(box, Squares(GapCells))
  BY <1>1, AnswerIsOfAllCells
<1>3. InsideCells' = InsideCells /\ \A k : Center(k)' = Center(k)
  BY <1>1, SameGrid
<1>4. SUFFICES ASSUME NEW k \in InsideCells PROVE \E r \in DOMAIN survey' : Covers(survey'[r], Center(k))
  BY <1>3 DEF GapCells
<1>5. CASE k \in GapCells
  <2>1. Square(Center(k)) \in Squares(GapCells)
    BY <1>5 DEF Squares
  <2>2. box \in Box /\ Holds(box, Square(Center(k)))
    BY <1>2, <2>1 DEF IsBoxOf
  <2>3. /\ Center(k) = <<Center(k)[1], Center(k)[2]>>
        /\ Center(k)[1] \in Int /\ Center(k)[2] \in Int
    BY <1>2, CentersOfCells DEF InsideCells
  <2>4. Covers(survey'[Resurvey], Center(k))
    BY <1>1, <1>2, <2>2, <2>3, RecommendedCovers
  <2> QED
    BY <1>1, <2>4
<1>6. CASE k \notin GapCells
  <2>1. PICK r \in DOMAIN survey : Covers(survey[r], Center(k))
    BY <1>6 DEF GapCells
  <2> QED
    BY <1>1, <2>1
<1> QED
  BY <1>5, <1>6

LEMMA StepClosed == TypeOK /\ FiniteSurvey /\ GridInv /\ ClosedInv /\ [Next]_vars => ClosedInv'
<1> SUFFICES ASSUME TypeOK, FiniteSurvey, GridInv, ClosedInv, [Next]_vars PROVE ClosedInv'
  OBVIOUS
<1>1. CASE Generate
  BY <1>1, RunsAssumption DEF Generate, ClosedInv
<1>2. CASE FlyRecommendation
  BY <1>2, FlownClosesGap DEF ClosedInv
<1>3. CASE UNCHANGED <<boundary, resolution, survey>>
  BY <1>3, SameGaps DEF ClosedInv
<1> QED
  BY <1>1, <1>2, <1>3 DEF Next, GenerateRefused, Start, Scan, Finish, vars

LEMMA InitClosed == Init => ClosedInv
<1> SUFFICES ASSUME Init PROVE Resurvey \notin DOMAIN survey
  BY DEF ClosedInv
<1>1. DOMAIN <<>> = {}
  OBVIOUS
<1> QED
  BY <1>1, RunsAssumption DEF Init

\* Whatever was surveyed before, a further run along the recommended line with
\* the recommended swath leaves no cell uncovered (gapArtifacts).
THEOREM RecommendationCorrect == Spec => []RecommendationClosesGap
<1> DEFINE Inv == TypeOK /\ FiniteSurvey /\ GridInv /\ ClosedInv
<1>1. Init => Inv
  BY InitType, InitGrid, InitClosed
<1>2. Inv /\ [Next]_vars => Inv'
  BY StepType, StepGrid, StepClosed
<1>3. Inv => RecommendationClosesGap
  BY AnswerIsOfAllCells DEF ClosedInv, RecommendationClosesGap
<1> QED
  BY <1>1, <1>2, <1>3, PTL DEF Spec

-----------------------------------------------------------------------------
(***************************************************************************)
(* No cell that lies beyond the far sides is inside: the grid may overhang *)
(* the boundary there, but no edge crosses the line to the right of it.    *)
(***************************************************************************)
LEMMA NoCrossingOfEdge ==
  ASSUME NEW a \in Int \X Int, NEW b \in Int \X Int, NEW x \in Int, NEW y \in Int,
         \/ a[1] < x /\ b[1] < x
         \/ a[2] <= y /\ b[2] <= y
  PROVE  ~Crosses(a, b, <<x, y>>)
<1> SUFFICES ASSUME Crosses(a, b, <<x, y>>) PROVE FALSE
  OBVIOUS
<1> DEFINE rise == b[2] - a[2]
           up == y - a[2]
           ahead == x - a[1]
           across == b[1] - a[1]
<1>1. /\ (a[2] > y) # (b[2] > y)
      /\ ahead * rise * rise < across * up * rise
  BY DEF Crosses
<1>2. /\ a[1] \in Int /\ a[2] \in Int /\ b[1] \in Int /\ b[2] \in Int
      /\ a[1] < x /\ b[1] < x
  BY <1>1
<1>3. rise \in Int /\ up \in Int /\ ahead \in Int /\ across \in Int /\ 0 < ahead /\ across < ahead
  BY <1>2
<1>4. \/ rise <= up /\ up <= 0
      \/ 0 <= up /\ up <= rise
  BY <1>1, <1>2
<1> HIDE DEF rise, up, ahead, across
<1>5. 0 <= up * rise /\ up * rise <= rise * rise
  <2>1. \A p, q \in Nat : p <= q => 0 <= p * q /\ p * q <= q * q
    OBVIOUS
  <2>2. CASE 0 <= up /\ up <= rise
    BY <1>3, <2>1, <2>2
  <2>3. CASE rise <= up /\ up <= 0
    <3>1. -up \in Nat /\ -rise \in Nat /\ -up <= -rise
      BY <1>3, <2>3
    <3>2. 0 <= (-up) * (-rise) /\ (-up) * (-rise) <= (-rise) * (-rise)
      BY <2>1, <3>1
    <3>3. (-up) * (-rise) = up * rise /\ (-rise) * (-rise) = rise * rise
      BY <1>3
    <3> QED
      BY <3>2, <3>3
  <2> QED
    BY <1>4, <2>2, <2>3
<1>6. across * (up * rise) <= ahead * (rise * rise)
  <2>1. \A p \in Int, q, n, m \in Nat : p <= q /\ n <= m => p * n <= q * m
    <3> TAKE p \in Int, q, n, m \in Nat
    <3> HAVE p <= q /\ n <= m
    <3>1. p * n <= q * n
      OBVIOUS
    <3>2. q * n <= q * m
      OBVIOUS
    <3> QED
      BY <3>1, <3>2
  <2>2. up * rise \in Nat /\ rise * rise \in Nat /\ ahead \in Nat
    BY <1>3, <1>5
  <2> QED
    BY <1>3, <1>5, <2>1, <2>2
<1>7. ahead * rise * rise = ahead * (rise * rise) /\ across * up * rise = across * (up * rise)
  BY <1>3
<1> QED
  BY <1>1, <1>3, <1>6, <1>7

LEMMA NotBeyond ==
  ASSUME NEW polygon \in Boundaries, polygon[1] # <<>>, NEW x \in Int, NEW y \in Int,
         polygonContains(polygon, <<x, y>>)
  PROVE  x <= polygonBounds(polygon).maxX /\ y < polygonBounds(polygon).maxY
<1> DEFINE ring == polygon[1]
           b == polygonBounds(polygon)
<1> SUFFICES ASSUME ~(x <= b.maxX /\ y < b.maxY) PROVE FALSE
  OBVIOUS
<1>1. polygon \in Seq(Seq(Int \X Int)) /\ 1 \in DOMAIN polygon /\ ring \in Seq(Int \X Int)
  BY BoundaryAssumption
<1>2. b \in Box /\ \A i \in DOMAIN ring : ring[i][1] <= b.maxX /\ ring[i][2] <= b.maxY
  BY <1>1, BoundsOfPolygon
<1>3. \A i \in DOMAIN ring : After(ring, i) \in Int \X Int /\ ring[i] \in Int \X Int
                             /\ After(ring, i)[1] <= b.maxX /\ After(ring, i)[2] <= b.maxY
  <2> TAKE i \in DOMAIN ring
  <2>1. Len(ring) \in Nat \ {0} /\ i \in Nat /\ DOMAIN ring = 1 .. Len(ring)
    BY <1>1
  <2>2. (i % Len(ring)) + 1 \in DOMAIN ring
    <3>1. \A m \in Nat \ {0} : (i % m) + 1 \in 1 .. m
      BY <2>1
    <3> QED
      BY <2>1, <3>1
  <2> QED
    BY <1>1, <1>2, <2>2 DEF After
<1>4. b.maxX \in Int /\ b.maxY \in Int
  BY <1>2 DEF Box
<1>5. \A i \in DOMAIN ring : ~Crosses(After(ring, i), ring[i], <<x, y>>)
  <2> TAKE i \in DOMAIN ring
  <2> DEFINE p == After(ring, i)
             q == ring[i]
  <2>1. p \in Int \X Int /\ q \in Int \X Int
    BY <1>3
  <2>2. p[1] <= b.maxX /\ q[1] <= b.maxX /\ p[2] <= b.maxY /\ q[2] <= b.maxY
    BY <1>2, <1>3
  <2> HIDE DEF p, q, b
  <2>3. \/ p[1] < x /\ q[1] < x
        \/ p[2] <= y /\ q[2] <= y
    BY <1>4, <2>1, <2>2
  <2>4. ~Crosses(p, q, <<x, y>>)
    BY <2>1, <2>3, NoCrossingOfEdge
  <2> QED
    BY <2>4 DEF p, q
<1>6. Cardinality({i \in DOMAIN ring : Crosses(After(ring, i), ring[i], <<x, y>>)}) = 0
  <2>1. {i \in DOMAIN ring : Crosses(After(ring, i), ring[i], <<x, y>>)} = {}
    BY <1>5
  <2> QED
    BY <2>1, FS_EmptySet
<1>7. ~ringContains(ring, <<x, y>>)
  BY <1>6 DEF ringContains
<1> QED
  BY <1>7 DEF polygonContains

-----------------------------------------------------------------------------
(***************************************************************************)
(* Generated lines.  Below half a spacing from the far side, every point   *)
(* lies within half a spacing of a line.                                   *)
(***************************************************************************)
LEMMA LineWithinHalfSpacing ==
  ASSUME NEW min \in Int, NEW max \in Int, NEW spacing \in Nat \ {0}, spacing % 2 = 0,
         NEW y \in Int, min < y, 2 * y + spacing <= 2 * max
  PROVE  \E at \in Offsets(min, max, spacing) :
            at \in Int /\ -spacing <= 2 * (y - at) /\ 2 * (y - at) <= spacing
<1> DEFINE half == spacing \div 2
           before == y - min - 1
           j == before \div spacing
           rest == before % spacing
           at == min + half + spacing * j
<1>1. half \in Nat \ {0} /\ 2 * half = spacing
  BY HalfOf
<1>2. before \in Nat
  OBVIOUS
<1>3. j \in Nat /\ rest \in Nat /\ rest < spacing /\ before = spacing * j + rest
  BY <1>2
<1>4. spacing * j \in Nat /\ (spacing * j) % spacing = 0
  BY <1>3
<1> HIDE DEF j, rest
<1>5. at \in Int /\ y - at = rest + 1 - half /\ at - min - half = spacing * j
  BY <1>1, <1>3, <1>4
<1>6. at >= min + half /\ at <= max - 1
  BY <1>1, <1>3, <1>4, <1>5
<1>7. at \in Offsets(min, max, spacing)
  <2>1. (at - min - half) % spacing = 0
    BY <1>4, <1>5
  <2> QED
    BY <1>1, <1>5, <1>6, <2>1 DEF Offsets
<1>8. -spacing <= 2 * (y - at) /\ 2 * (y - at) <= spacing
  BY <1>1, <1>3, <1>5
<1> QED
  BY <1>5, <1>7, <1>8

\* A plan that is flown is flown as it was drawn.
PlanInv ==
    (plan # Nothing /\ DOMAIN survey = {PlannedRun}) =>
        survey[PlannedRun] = [lines |-> Generated(bounds, plan), swath |-> plan.swath]

LEMMA InitPlan == Init => PlanInv
<1> SUFFICES ASSUME Init, plan # Nothing PROVE DOMAIN survey # {PlannedRun}
  BY DEF PlanInv
<1>1. survey = <<>>
  BY DEF Init
<1>2. DOMAIN <<>> = {}
  OBVIOUS
<1> QED
  BY <1>1, <1>2

LEMMA StepPlan == PlanInv /\ [Next]_vars => PlanInv'
<1> SUFFICES ASSUME PlanInv, [Next]_vars PROVE PlanInv'
  OBVIOUS
<1>1. CASE Generate
  <2>1. bounds' = bounds /\ plan' = plan
    BY <1>1, SameGrid DEF Generate
  <2>2. survey'[PlannedRun] = [lines |-> Generated(bounds, plan), swath |-> plan.swath]
    BY <1>1 DEF Generate, bounds
  <2> QED
    BY <2>1, <2>2 DEF PlanInv
<1>2. CASE FlyRecommendation
  <2>1. Resurvey \in DOMAIN survey'
    BY <1>2 DEF FlyRecommendation
  <2> QED
    BY <2>1, RunsAssumption DEF PlanInv
<1>3. CASE UNCHANGED <<boundary, resolution, plan, survey>>
  <2>1. bounds' = bounds /\ plan' = plan /\ survey' = survey
    BY <1>3, SameGrid
  <2> QED
    BY <2>1 DEF PlanInv
<1> QED
  BY <1>1, <1>2, <1>3 DEF Next, GenerateRefused, Start, Scan, Finish, vars

\* A point on the far side, beside the end of a line.
LEMMA AtTheEndOfLine ==
  ASSUME NEW a \in Int, NEW b \in Int, NEW x \in Int, NEW at \in Int, NEW y \in Int, NEW swath \in Nat,
         a < x, x = b, -swath <= 2 * (y - at), 2 * (y - at) <= swath
  PROVE  WithinSwath(<<x, y>>, <<a, at>>, <<b, at>>, swath)
<1>1. 4 * ((y - at) * (y - at)) <= swath * swath
  <2>1. (1 * (2 * (y - at))) * (1 * (2 * (y - at))) <= swath * swath * (1 * 1)
    BY SquareOfProduct
  <2> QED
    BY <2>1
<1> DEFINE along == <<b - a, 0>>
           off == <<x - a, y - at>>
           back == <<0, y - at>>
<1>2. Dot(off, along) >= Dot(along, along) /\ Dot(back, back) = (y - at) * (y - at)
  BY DEF Dot
<1>3. /\ along = Minus(<<b, at>>, <<a, at>>) /\ off = Minus(<<x, y>>, <<a, at>>)
      /\ back = Minus(<<x, y>>, <<b, at>>)
  BY DEF Minus
<1> QED
  BY <1>1, <1>2, <1>3 DEF WithinSwath

LEMMA PlannedCovers ==
  ASSUME NEW b \in Box, NEW request \in Plans, request.swath >= request.spacing,
         NEW x \in Int, NEW y \in Int, b.minX < x, b.minY < y, x <= b.maxX, y < b.maxY,
         IF Horizontal(request.heading) THEN 2 * y + request.spacing <= 2 * b.maxY
                                        ELSE 2 * x + request.spacing <= 2 * b.maxX
  PROVE  Covers([lines |-> Generated(b, request), swath |-> request.swath], <<x, y>>)
<1>1. /\ b.minX \in Int /\ b.minY \in Int /\ b.maxX \in Int /\ b.maxY \in Int
      /\ request.spacing \in Nat \ {0} /\ request.spacing % 2 = 0 /\ request.swath \in Nat
  BY EvenAssumption DEF Box
<1>2. CASE Horizontal(request.heading)
  <2>1. PICK at \in Offsets(b.minY, b.maxY, request.spacing) :
           at \in Int /\ -request.spacing <= 2 * (y - at) /\ 2 * (y - at) <= request.spacing
    BY <1>1, <1>2, LineWithinHalfSpacing
  <2>2. << <<b.minX, at>>, <<b.maxX, at>> >> \in Generated(b, request)
    BY <1>2, <2>1 DEF Generated
  <2>3. -request.swath <= 2 * (y - at) /\ 2 * (y - at) <= request.swath
    BY <1>1, <2>1
  <2>4. WithinSwath(<<x, y>>, <<b.minX, at>>, <<b.maxX, at>>, request.swath)
    <3>1. CASE x = b.maxX
      BY <1>1, <2>1, <2>3, <3>1, AtTheEndOfLine
    <3>2. CASE x < b.maxX
      BY <1>1, <2>1, <2>3, <3>2, BesideHorizontal
    <3> QED
      BY <1>1, <3>1, <3>2
  <2> QED
    BY <2>2, <2>4, LineCovers
<1>3. CASE ~Horizontal(request.heading)
  <2>1. PICK at \in Offsets(b.minX, b.maxX, request.spacing) :
           at \in Int /\ -request.spacing <= 2 * (x - at) /\ 2 * (x - at) <= request.spacing
    BY <1>1, <1>3, LineWithinHalfSpacing
  <2>2. << <<at, b.minY>>, <<at, b.maxY>> >> \in Generated(b, request)
    BY <1>3, <2>1 DEF Generated
  <2>3. -request.swath <= 2 * (x - at) /\ 2 * (x - at) <= request.swath
    BY <1>1, <2>1
  <2>4. WithinSwath(<<x, y>>, <<at, b.minY>>, <<at, b.maxY>>, request.swath)
    BY <1>1, <2>1, <2>3, BesideVertical
  <2> QED
    BY <2>2, <2>4, LineCovers
<1> QED
  BY <1>2, <1>3

LEMMA GridPlan == TypeOK /\ GridInv /\ PlanInv => PlannedSurveyReachesFarSide
<1> SUFFICES ASSUME TypeOK, GridInv, PlanInv, phase = "answered", DOMAIN survey = {PlannedRun},
                    plan # Nothing, box # Nothing, plan.swath >= plan.spacing
             PROVE  IF Horizontal(plan.heading)
                    THEN 2 * box.minY > 2 * bounds.maxY - plan.spacing - resolution
                    ELSE 2 * box.minX > 2 * bounds.maxX - plan.spacing - resolution
  BY DEF PlannedSurveyReachesFarSide, bounds
<1> DEFINE half == resolution \div 2
<1>1. OnGrid /\ IsBoxOf(box, Squares(GapCells)) /\ plan \in Plans
  BY AnswerIsOfAllCells DEF TypeOK
<1>2. half \in Nat \ {0} /\ 2 * half = resolution /\ resolution \in Nat
  BY <1>1, HalfOf DEF OnGrid
<1>3. bounds \in Box /\ boundary \in Boundaries /\ boundary[1] # <<>>
  BY <1>1, GridSize DEF OnGrid
<1>4. /\ bounds.minX \in Int /\ bounds.minY \in Int /\ bounds.maxX \in Int /\ bounds.maxY \in Int
      /\ plan.spacing \in Nat
  BY <1>1, <1>3, EvenAssumption DEF Box
<1>5. Squares(GapCells) # {}
  BY <1>1 DEF IsBoxOf
<1>6. survey[PlannedRun] = [lines |-> Generated(bounds, plan), swath |-> plan.swath]
  BY DEF PlanInv
<1>7. ASSUME NEW k \in GapCells
      PROVE  IF Horizontal(plan.heading)
             THEN 2 * Square(Center(k)).minY > 2 * bounds.maxY - plan.spacing - resolution
             ELSE 2 * Square(Center(k)).minX > 2 * bounds.maxX - plan.spacing - resolution
  <2> DEFINE x == Center(k)[1]
             y == Center(k)[2]
  <2>1. k \in 0 .. Cells - 1 /\ polygonContains(boundary, Center(k)) /\ ~Covers(survey[PlannedRun], Center(k))
    BY <1>7 DEF GapCells, InsideCells
  <2>2. /\ Center(k) = <<x, y>> /\ x \in Int /\ y \in Int
        /\ x >= bounds.minX + half /\ y >= bounds.minY + half
    BY <1>1, <2>1, CentersOfCells
  <2>3. Square(Center(k)).minX = x - half /\ Square(Center(k)).minY = y - half
    BY DEF Square
  <2> HIDE DEF x, y
  <2>4. x <= bounds.maxX /\ y < bounds.maxY
    BY <1>3, <2>1, <2>2, NotBeyond DEF bounds
  <2>5. bounds.minX < x /\ bounds.minY < y
    BY <1>2, <1>4, <2>2, <2>4
  <2>6. IF Horizontal(plan.heading) THEN 2 * y + plan.spacing > 2 * bounds.maxY
                                    ELSE 2 * x + plan.spacing > 2 * bounds.maxX
    <3>1. ~(IF Horizontal(plan.heading) THEN 2 * y + plan.spacing <= 2 * bounds.maxY
                                        ELSE 2 * x + plan.spacing <= 2 * bounds.maxX)
      BY <1>1, <1>3, <1>6, <2>1, <2>2, <2>4, <2>5, PlannedCovers
    <3> QED
      BY <1>4, <2>2, <3>1
  <2>7. \A z, m, s \in Int : 2 * z + s > 2 * m => 2 * (z - half) > 2 * m - s - resolution
    BY <1>2
  <2> QED
    BY <1>4, <2>2, <2>3, <2>6, <2>7
<1>8. /\ \E k \in GapCells : box.minX = Square(Center(k)).minX
      /\ \E k \in GapCells : box.minY = Square(Center(k)).minY
  BY <1>1, <1>5 DEF IsBoxOf, Squares
<1> QED
  BY <1>7, <1>8

\* A generated plan that is flown with a swath as wide as its spacing leaves
\* nothing uncovered but within half a spacing of the far side (Generate).
THEOREM PlanReachesFarSide == Spec => []PlannedSurveyReachesFarSide
<1> DEFINE Inv == TypeOK /\ FiniteSurvey /\ GridInv /\ PlanInv
<1>1. Init => Inv
  BY InitType, InitGrid, InitPlan
<1>2. Inv /\ [Next]_vars => Inv'
  BY StepType, StepGrid, StepPlan
<1>3. Inv => PlannedSurveyReachesFarSide
  BY GridPlan
<1> QED
  BY <1>1, <1>2, <1>3, PTL DEF Spec

=============================================================================
