--------------------------- MODULE MCCoverageGrid ---------------------------
(***************************************************************************)
(* CoverageGrid on small boundaries, with corners on and off the grid.     *)
(***************************************************************************)
EXTENDS CoverageGrid

Rectangle(x, y, width, height) ==
    << <<x, y>>, <<x + width, y>>, <<x + width, y + height>>, <<x, y + height>>, <<x, y>> >>

Reversed(ring) == [i \in DOMAIN ring |-> ring[Len(ring) + 1 - i]]

SmallBoundaries == {
    << Rectangle(0, 0, 8, 8) >>,
    << Reversed(Rectangle(2, 4, 12, 6)) >>,
    << Rectangle(-5, -3, 11, 7) >>,
    << Rectangle(0, 0, 8, 8), Reversed(Rectangle(4, 4, 4, 4)) >>,
    << Rectangle(0, 0, 12, 8), Rectangle(4, 0, 4, 4), Rectangle(4, 6, 6, 2) >>,
    << << <<0, 0>>, <<8, 0>>, <<8, 4>>, <<4, 4>>, <<4, 8>>, <<0, 8>> >> >>,
    << << <<0, 0>>, <<9, 2>>, <<3, 8>>, <<0, 0>> >> >>,
    << << <<0, 7>>, <<4, 0>>, <<10, 3>>, <<7, 9>> >> >>,
    \* not simple: a hole that is a point, one outside, a part enclosed twice
    << Rectangle(0, 0, 8, 8), << <<3, 3>>, <<3, 3>> >> >>,
    << Rectangle(0, 0, 8, 4), Rectangle(0, 4, 4, 4) >>,
    << << <<0, 0>>, <<8, 0>>, <<8, 8>>, <<0, 8>>, <<0, 0>>, <<4, 0>>, <<4, 4>>, <<0, 4>> >> >>,
    \* refused: area zero, too few corners, no centre inside, too many cells
    << << <<0, 0>>, <<6, 6>>, <<6, 0>>, <<0, 6>> >> >>,
    << << <<0, 0>>, <<6, 0>>, <<0, 6>> >> >>,
    << << <<0, 0>>, <<8, 0>>, <<8, 1>>, <<0, 0>> >> >>,
    << Rectangle(0, 0, 16, 14) >> }

SmallPlans == [heading: {0, 60, 224, 270}, spacing: {2, 4, 6, 10}, swath: {4, 6}]

Track(lines, swath) == [lines |-> lines, swath |-> swath]

SmallSurveys == {
    [r \in {1} |-> Track({<< <<0, 2>>, <<9, 2>> >>}, 4)],
    [r \in {1} |-> Track({<< <<1, 1>>, <<7, 3>>, <<3, 8>> >>}, 3)],
    [r \in {1} |-> Track({<< <<3, 3>>, <<3, 3>> >>}, 5)],
    [r \in {1, 2} |-> Track({<< <<0, 2 * r>>, <<12, 3 * r>> >>, << <<5, 0>>, <<5, 8>> >>}, 3)],
    [r \in {1} |-> Track({<< <<-20, 4>>, <<20, 4>> >>}, 60)],
    [r \in {1} |-> Track({<< <<40, 0>>, <<40, 8>> >>}, 6)] }

=============================================================================
