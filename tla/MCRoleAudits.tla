---------------------------- MODULE MCRoleAudits ----------------------------
EXTENDS RoleAudits, TLC

CONSTANTS c1, c2, c3

\* The trusted contents are alike, and so are the roles.
Symmetry == Permutations({c1, c2}) \cup Permutations({Verifier, Falsifier})
=============================================================================
