--------------------------- MODULE MCCornerMap ---------------------------
(* Instances of CornerMap for TLC: constants a .cfg cannot write. *)
EXTENDS CornerMap, TLC

S(brake, turn, apex, full, exit, speed) ==
  [brake |-> brake, turn |-> turn, apex |-> apex, apexes |-> {apex},
   full |-> full, exit |-> exit, speed |-> speed]
L(role, spans) == [role |-> role, spans |-> spans, first |-> 0, last |-> 49]

\* One corner at 10 that everybody drives; one at 30 the founder has not seen;
\* a lap that turns in before it brakes; somebody else's line, whose trace begins
\* where the founder has braked already.
Founder == L("self", <<S(4, 6, 10, 14, 16, 80)>>)
Early == L("self", <<S(8, 0, 10, 14, 16, 120), S(24, 26, 30, None, 36, 60)>>)
Stranger == [L("reference", <<S(None, 8, 12, 18, 18, 90),
                              S(24, 28, 32, 40, 40, 60)>>) EXCEPT !.first = 5]
Symmetric == Permutations(Workers)
MCPast == {Founder}
MCLaps == {Founder, Early, Stranger}

\* A long complex at 30 that the segmenter cuts in two.
Twice == L("self", <<S(4, 6, 10, 14, 16, 80), S(24, 26, 30, None, 31, 60),
                     S(31, 32, 33, 34, 36, 60)>>)
MCLapsTwice == {Founder, Twice}
=============================================================================
