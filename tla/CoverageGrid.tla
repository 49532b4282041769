---------------------------- MODULE CoverageGrid ----------------------------
(***************************************************************************)
(* The geometry behind plans and gaps: TransectPlanService.Generate draws  *)
(* parallel lines in a boundary; CalculateCoverage lays a grid over the    *)
(* boundary, classifies each cell by its centre, and reports the box of    *)
(* the uncovered cells and one line to survey it along.                    *)
(*                                                                         *)
(* One behaviour follows one survey: lines are drawn or given, flown,      *)
(* analysed cell by cell, flown again along the recommended line, and      *)
(* analysed again.  Coordinates are integers and comparisons exact: the    *)
(* code's quotients are multiplied out, its float64 rounding is left out.  *)
(***************************************************************************)
EXTENDS Integers, Sequences, FiniteSets, FiniteSetsExt, Functions

CONSTANTS
    Boundaries,   \* polygons: an exterior ring, then holes; rings of points <<x, y>>
    Resolutions,  \* sizes of a cell
    Surveys,      \* tracks flown by hand: run -> [lines, swath]
    Plans,        \* requests to draw lines: [heading, spacing, swath]
    MaxCells,     \* the largest grid that is analysed
    PlannedRun,   \* the run that flies a generated plan
    Resurvey,     \* the run that flies the recommended line
    Nothing       \* no plan, no box, no line

\* Centres of cells, and lines half a spacing inside, have integer coordinates.
ASSUME EvenAssumption ==
    /\ \A resolution \in Resolutions : resolution \in Nat \ {0} /\ resolution % 2 = 0
    /\ \A plan \in Plans : plan.spacing \in Nat \ {0} /\ plan.spacing % 2 = 0 /\ plan.swath \in Nat

\* A boundary without a ring does not get past the parser.
ASSUME BoundaryAssumption == Boundaries \subseteq Seq(Seq(Int \X Int)) \ {<<>>}

ASSUME RunsAssumption ==
    /\ \A survey \in Surveys : /\ Resurvey \notin DOMAIN survey
                               /\ DOMAIN survey # {} /\ IsFiniteSet(DOMAIN survey)
    /\ PlannedRun # Resurvey

Box == [minX : Int, minY : Int, maxX : Int, maxY : Int]

ASSUME NothingAssumption == Nothing \notin Box

VARIABLES
    boundary,    \* the boundary of the area
    resolution,  \* the size of a cell
    plan,        \* the request the lines were generated for
    survey,      \* the tracks: a function from runs
    phase,       \* what is computed next, or how it was answered
    cell,        \* how many cells have been classified, row by row
    counts,      \* how many of these are inside, covered, covered twice
    box          \* the bounding box of the uncovered ones

vars == <<boundary, resolution, plan, survey, phase, cell, counts, box>>

-----------------------------------------------------------------------------
(***************************************************************************)
(* Rings and polygons                                                      *)
(***************************************************************************)
After(ring, i) == ring[(i % Len(ring)) + 1]

Cross(a, b) == a[1] * b[2] - b[1] * a[2]

\* Twice the signed area, by the shoelace formula.
ringArea(ring) == MapThenSumSet(LAMBDA i : Cross(ring[i], After(ring, i)), DOMAIN ring)

Abs(x) == IF x < 0 THEN -x ELSE x

Holes(polygon) == Tail(polygon)

\* Mutant: holes are not taken off.
PolygonArea_Filled(polygon) == Abs(ringArea(polygon[1]))

PolygonArea(polygon) ==
    Max({0, Abs(ringArea(polygon[1]))
            - MapThenSumSet(LAMBDA h : Abs(ringArea(Holes(polygon)[h])),
                            DOMAIN Holes(polygon))})

validatePolygon(polygon) == Len(polygon[1]) >= 4 /\ PolygonArea(polygon) > 0

polygonBounds(polygon) ==
    LET points == UNION {Range(polygon[ring]) : ring \in DOMAIN polygon}
        Xs == {p[1] : p \in points}
        Ys == {p[2] : p \in points}
    IN  [minX |-> Min(Xs), minY |-> Min(Ys), maxX |-> Max(Xs), maxY |-> Max(Ys)]

\* Mutant: the inequality is multiplied out without regard to the sign.
Crosses_Unsigned(a, b, point) ==
    /\ (a[2] > point[2]) # (b[2] > point[2])
    /\ (point[1] - a[1]) * (b[2] - a[2]) < (b[1] - a[1]) * (point[2] - a[2])

\* The edge from b to a crosses the line that goes from the point to the right.
Crosses(a, b, point) ==
    LET rise == b[2] - a[2]
    IN  /\ (a[2] > point[2]) # (b[2] > point[2])
        /\ (point[1] - a[1]) * rise * rise < (b[1] - a[1]) * (point[2] - a[2]) * rise

ringContains(ring, point) ==
    Cardinality({i \in DOMAIN ring : Crosses(After(ring, i), ring[i], point)}) % 2 = 1

polygonContains(polygon, point) ==
    /\ ringContains(polygon[1], point)
    /\ \A h \in DOMAIN Holes(polygon) : ~ringContains(Holes(polygon)[h], point)

-----------------------------------------------------------------------------
(***************************************************************************)
(* Tracks                                                                  *)
(***************************************************************************)
Minus(a, b) == <<a[1] - b[1], a[2] - b[2]>>

Dot(a, b) == a[1] * b[1] + a[2] * b[2]

\* pointSegmentDistance(point, start, end) <= swath / 2, with both sides
\* squared and the foot of the perpendicular clamped to the segment.
WithinSwath(point, start, end, swath) ==
    LET along == Minus(end, start)
        off   == Minus(point, start)
        back  == Minus(point, end)
        t     == Dot(off, along)
    IN  \/ t <= 0 /\ 4 * Dot(off, off) <= swath * swath
        \/ t >= Dot(along, along) /\ 4 * Dot(back, back) <= swath * swath
        \/ /\ 0 < t /\ t < Dot(along, along)
           /\ 4 * Cross(along, off) * Cross(along, off) <= swath * swath * Dot(along, along)

Covers(track, point) ==
    \E line \in track.lines : \E i \in 2 .. Len(line) :
        WithinSwath(point, line[i - 1], line[i], track.swath)

\* How many runs pass the point: one run counts once, whatever its lines.
coveragePasses(point, tracks) == Cardinality({r \in DOMAIN tracks : Covers(tracks[r], point)})

-----------------------------------------------------------------------------
(***************************************************************************)
(* POST /transect-plans/generate-lines                                     *)
(***************************************************************************)
Horizontal(heading) == (heading >= 45 /\ heading < 135) \/ (heading >= 225 /\ heading < 315)

\* Mutant: the first line is a whole spacing inside.
Offsets_Whole(min, max, spacing) == {at \in min .. max - 1 : (at - min) % spacing = 0 /\ at > min}

\* Where lines lie between the two sides of the boundary they are parallel to.
Offsets(min, max, spacing) ==
    {at \in min .. max - 1 : at >= min + spacing \div 2
                             /\ (at - min - spacing \div 2) % spacing = 0}

Generated(bounds, request) ==
    IF Horizontal(request.heading)
    THEN {<< <<bounds.minX, y>>, <<bounds.maxX, y>> >> :
             y \in Offsets(bounds.minY, bounds.maxY, request.spacing)}
    ELSE {<< <<x, bounds.minY>>, <<x, bounds.maxY>> >> :
             x \in Offsets(bounds.minX, bounds.maxX, request.spacing)}

Span(bounds) == Max({bounds.maxX - bounds.minX, bounds.maxY - bounds.minY})

Drawable(request) ==
    /\ validatePolygon(boundary)
    /\ request.spacing <= Span(polygonBounds(boundary))
    /\ Generated(polygonBounds(boundary), request) # {}

Init ==
    /\ boundary \in Boundaries
    /\ resolution \in Resolutions
    /\ \/ plan \in Plans /\ survey = <<>> /\ phase = "generate"
       \/ plan = Nothing /\ survey \in Surveys /\ phase = "detect"
    /\ cell = 0
    /\ counts = [inside |-> 0, covered |-> 0, overlap |-> 0]
    /\ box = Nothing

\* The lines are drawn, and flown as they are.
Generate ==
    /\ phase = "generate"
    /\ Drawable(plan)
    /\ survey' = [r \in {PlannedRun} |->
                     [lines |-> Generated(polygonBounds(boundary), plan), swath |-> plan.swath]]
    /\ phase' = "detect"
    /\ UNCHANGED <<boundary, resolution, plan, cell, counts, box>>

GenerateRefused ==
    /\ phase = "generate"
    /\ ~Drawable(plan)
    /\ phase' = "refused"
    /\ UNCHANGED <<boundary, resolution, plan, survey, cell, counts, box>>

-----------------------------------------------------------------------------
(***************************************************************************)
(* CalculateCoverage                                                       *)
(***************************************************************************)
Ceiling(length) == (length + resolution - 1) \div resolution

Columns == LET bounds == polygonBounds(boundary) IN Ceiling(bounds.maxX - bounds.minX)
Rows    == LET bounds == polygonBounds(boundary) IN Ceiling(bounds.maxY - bounds.minY)
Cells   == Columns * Rows

Center(k) ==
    LET bounds == polygonBounds(boundary)
    IN  << bounds.minX + (k % Columns) * resolution + resolution \div 2,
           bounds.minY + (k \div Columns) * resolution + resolution \div 2 >>

Start ==
    /\ phase = "detect"
    /\ phase' = IF validatePolygon(boundary) /\ Cells <= MaxCells THEN "scan" ELSE "refused"
    /\ cell' = 0
    /\ counts' = [inside |-> 0, covered |-> 0, overlap |-> 0]
    /\ box' = Nothing
    /\ UNCHANGED <<boundary, resolution, plan, survey>>

Counted(condition) == IF condition THEN 1 ELSE 0

\* Mutant: cells are counted as covered outside the boundary, too.
Tally_Everywhere(point, passes) ==
    [inside  |-> counts.inside + Counted(polygonContains(boundary, point)),
     covered |-> counts.covered + Counted(passes > 0),
     overlap |-> counts.overlap + Counted(passes > 1)]

Tally(point, passes) ==
    IF polygonContains(boundary, point)
    THEN [inside  |-> counts.inside + 1,
          covered |-> counts.covered + Counted(passes > 0),
          overlap |-> counts.overlap + Counted(passes > 1)]
    ELSE counts

\* The cell around the point.
Square(point) ==
    LET half == resolution \div 2
    IN  [minX |-> point[1] - half, minY |-> point[2] - half,
         maxX |-> point[1] + half, maxY |-> point[2] + half]

\* Mutant: the last uncovered cell replaces the box.
Widened_Last(known, square) == square

Widened(known, square) ==
    IF known = Nothing THEN square
    ELSE [minX |-> Min({known.minX, square.minX}), minY |-> Min({known.minY, square.minY}),
          maxX |-> Max({known.maxX, square.maxX}), maxY |-> Max({known.maxY, square.maxY})]

Scan ==
    LET point  == Center(cell)
        passes == coveragePasses(point, survey)
    IN  /\ phase = "scan" /\ cell < Cells
        /\ counts' = Tally(point, passes)
        /\ box' = IF polygonContains(boundary, point) /\ passes = 0
                  THEN Widened(box, Square(point)) ELSE box
        /\ cell' = cell + 1
        /\ UNCHANGED <<boundary, resolution, plan, survey, phase>>

\* A boundary between the centres of its cells has no analysis.
Finish ==
    /\ phase = "scan" /\ cell = Cells
    /\ phase' = IF counts.inside = 0 THEN "refused" ELSE "answered"
    /\ UNCHANGED <<boundary, resolution, plan, survey, cell, counts, box>>

Width(b) == b.maxX - b.minX
Height(b) == b.maxY - b.minY

\* Mutant: the line is drawn across the box instead of along it.
gapArtifacts_Across(b) ==
    IF Width(b) < Height(b)
    THEN << <<b.minX - resolution, (b.minY + b.maxY) \div 2>>,
            <<b.maxX + resolution, (b.minY + b.maxY) \div 2>> >>
    ELSE << <<(b.minX + b.maxX) \div 2, b.minY - resolution>>,
            <<(b.minX + b.maxX) \div 2, b.maxY + resolution>> >>

\* The recommended line.
gapArtifacts(b) ==
    IF Width(b) >= Height(b)
    THEN << <<b.minX - resolution, (b.minY + b.maxY) \div 2>>,
            <<b.maxX + resolution, (b.minY + b.maxY) \div 2>> >>
    ELSE << <<(b.minX + b.maxX) \div 2, b.minY - resolution>>,
            <<(b.minX + b.maxX) \div 2, b.maxY + resolution>> >>

\* The gap is surveyed along the recommended line, by a swath as wide as the
\* shorter side of its box, and coverage is calculated with this run added.
FlyRecommendation ==
    /\ phase = "answered" /\ box # Nothing /\ Resurvey \notin DOMAIN survey
    /\ survey' = [r \in DOMAIN survey \cup {Resurvey} |->
                     IF r = Resurvey
                     THEN [lines |-> {gapArtifacts(box)}, swath |-> Min({Width(box), Height(box)})]
                     ELSE survey[r]]
    /\ phase' = "detect"
    /\ UNCHANGED <<boundary, resolution, plan, cell, counts, box>>

Next ==
    \/ Generate
    \/ GenerateRefused
    \/ Start
    \/ Scan
    \/ Finish
    \/ FlyRecommendation

Spec == Init /\ [][Next]_vars

-----------------------------------------------------------------------------
(***************************************************************************)
(* Properties                                                              *)
(***************************************************************************)
Phases == {"generate", "detect", "scan", "answered", "refused"}

TypeOK ==
    /\ boundary \in Boundaries /\ resolution \in Resolutions
    /\ plan \in Plans \cup {Nothing}
    /\ phase \in Phases
    /\ cell \in Nat
    /\ counts \in [inside: Nat, covered: Nat, overlap: Nat]
    /\ counts.overlap <= counts.covered
    /\ counts.covered <= counts.inside
    /\ counts.inside <= cell

InsideCells == {k \in 0 .. Cells - 1 : polygonContains(boundary, Center(k))}
GapCells == {k \in InsideCells : \A r \in DOMAIN survey : ~Covers(survey[r], Center(k))}

\* The reported box is the smallest one that holds every uncovered cell of the
\* boundary, and the counts account for each cell, whatever the order of rows.
ResultIsOfTheWholeGrid ==
    phase = "answered" =>
        /\ counts.inside = Cardinality(InsideCells)
        /\ counts.inside - counts.covered = Cardinality(GapCells)
        /\ counts.overlap = Cardinality({k \in InsideCells :
               \E r \in DOMAIN survey : \E other \in DOMAIN survey \ {r} :
                   Covers(survey[r], Center(k)) /\ Covers(survey[other], Center(k))})
        /\ box = Nothing <=> GapCells = {}
        /\ box # Nothing =>
              LET squares == {Square(Center(k)) : k \in GapCells}
              IN  box = [minX |-> Min({s.minX : s \in squares}), minY |-> Min({s.minY : s \in squares}),
                         maxX |-> Max({s.maxX : s \in squares}), maxY |-> Max({s.maxY : s \in squares})]

\* Where a point lies of the line through an edge.
Side(ring, i, point) ==
    Cross(Minus(After(ring, i), ring[i]), Minus(point, ring[i]))

\* Two edges that go the same way along one stretch.
Together(ring, i, j) ==
    LET way == Minus(After(ring, i), ring[i])
    IN  /\ Side(ring, i, ring[j]) = 0 /\ Side(ring, i, After(ring, j)) = 0
        /\ Dot(Minus(After(ring, i), ring[j]), way) > 0
        /\ Dot(Minus(After(ring, j), ring[i]), way) > 0

\* All corners on one side of each edge, and no stretch gone twice.
Convex(ring) ==
    /\ \/ \A i, j \in DOMAIN ring : Side(ring, i, ring[j]) >= 0
       \/ \A i, j \in DOMAIN ring : Side(ring, i, ring[j]) <= 0
    /\ \A i, j \in DOMAIN ring : i # j => ~Together(ring, i, j)

\* Strictly on one side of all edges, or of different sides of two.
Within(ring, point) ==
    LET sides == {Side(ring, i, point) : i \in {i \in DOMAIN ring : ring[i] # After(ring, i)}}
    IN  sides # {} /\ ((\A s \in sides : s > 0) \/ (\A s \in sides : s < 0))
Beyond(ring, point) ==
    \E i, j \in DOMAIN ring : Side(ring, i, point) > 0 /\ Side(ring, j, point) < 0

\* Counting crossings agrees with the sides of the edges wherever these decide:
\* cells of a convex boundary are inside it and outside its holes, whichever
\* way round the rings go and whether or not they repeat their first point.
InsideMeansInside ==
    (phase = "scan" /\ cell < Cells /\ \A ring \in DOMAIN boundary : Convex(boundary[ring]))
    => LET point == Center(cell)
           inside == /\ Within(boundary[1], point)
                     /\ \A h \in DOMAIN Holes(boundary) : Beyond(Holes(boundary)[h], point)
           outside == \/ Beyond(boundary[1], point)
                      \/ \E h \in DOMAIN Holes(boundary) : Within(Holes(boundary)[h], point)
       IN  (inside => polygonContains(boundary, point))
           /\ (outside => ~polygonContains(boundary, point))

\* All corners of the boundary are corners of cells, all edges sides of cells.
Aligned ==
    LET bounds == polygonBounds(boundary)
    IN  \A k \in DOMAIN boundary : \A i \in DOMAIN boundary[k] :
           LET a == boundary[k][i]
               b == After(boundary[k], i)
           IN  /\ (a[1] - bounds.minX) % resolution = 0
               /\ (a[2] - bounds.minY) % resolution = 0
               /\ a[1] = b[1] \/ a[2] = b[2]

Upward(ring, i) == After(ring, i)[2] > ring[i][2]

\* How often a ring goes round a point, to be told to the right of it.
Winding(ring, point) ==
    LET crossing == {i \in DOMAIN ring : Crosses(After(ring, i), ring[i], point)}
    IN  Cardinality({i \in crossing : Upward(ring, i)})
            - Cardinality({i \in crossing : ~Upward(ring, i)})

\* A simple ring goes once round what it encloses, and always the same way.
Simple(ring) ==
    \E way \in {1, -1} : \A k \in 0 .. Cells - 1 : Winding(ring, Center(k)) \in {0, way}

Enclosed(ring) == {k \in 0 .. Cells - 1 : ringContains(ring, Center(k))}

\* Holes are holes of the exterior, and apart from each other.
Nested ==
    \A h \in DOMAIN Holes(boundary) :
        /\ Enclosed(Holes(boundary)[h]) \subseteq Enclosed(boundary[1])
        /\ \A other \in DOMAIN Holes(boundary) \ {h} :
              Enclosed(Holes(boundary)[h]) \cap Enclosed(Holes(boundary)[other]) = {}

\* The area of a gap is reported as a share of PolygonArea by count of cells:
\* where a simple boundary consists of whole cells, the two agree.
AreaIsThatOfTheCells ==
    (phase = "answered" /\ Aligned /\ Nested /\ \A n \in DOMAIN boundary : Simple(boundary[n])) =>
        PolygonArea(boundary) = 2 * resolution * resolution * counts.inside

\* A plan that is flown as generated, with a swath as wide as its spacing,
\* leaves nothing uncovered but within half a spacing of the far side.
PlannedSurveyReachesFarSide ==
    (phase = "answered" /\ DOMAIN survey = {PlannedRun} /\ plan # Nothing /\ box # Nothing)
    => LET bounds == polygonBounds(boundary)
       IN  plan.swath >= plan.spacing
           => IF Horizontal(plan.heading)
              THEN 2 * box.minY > 2 * bounds.maxY - plan.spacing - resolution
              ELSE 2 * box.minX > 2 * bounds.maxX - plan.spacing - resolution

\* A gap that was surveyed along the recommended line is closed: the next
\* analysis finds no uncovered cell.
RecommendationClosesGap ==
    (phase = "answered" /\ Resurvey \in DOMAIN survey) => box = Nothing

=============================================================================
