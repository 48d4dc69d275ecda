-------------------------- MODULE MCGatedScheduler --------------------------
EXTENDS GatedScheduler

CONSTANTS p1, p2

MCFirst == [policy |-> p1, complexity |-> FALSE]

\* A resumed process may have other model settings, or run the additional audit.
MCConfigurations ==
    {MCFirst, [policy |-> p2, complexity |-> FALSE],
     [policy |-> p1, complexity |-> TRUE]}
=============================================================================
