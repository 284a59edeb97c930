----------------------------- MODULE MCTendency -----------------------------
(* Instances of Tendency for TLC: constants a .cfg cannot write. *)
EXTENDS Tendency

F(b, s, e) == [band |-> b, strength |-> s, evaluated |-> e]

\* No signal; a strength; fired in three bands, one of them where it is a
\* strength elsewhere and one in an era too thin for the gates.
MCFacts == {F(Quiet, FALSE, FALSE), F(Quiet, TRUE, TRUE),
            F(0, FALSE, TRUE), F(1, TRUE, TRUE), F(2, FALSE, FALSE)}

\* The same with an era that was quiet although the gates could run.
MCQuietFacts == MCFacts \cup {F(Quiet, FALSE, TRUE)}
\* One of each kind, for the runs with overlapping refreshes.
MCFewFacts == {F(Quiet, FALSE, FALSE), F(Quiet, TRUE, TRUE), F(0, FALSE, TRUE)}
=============================================================================
