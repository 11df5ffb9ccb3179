--------------------------- MODULE MCPermissions ---------------------------
(***************************************************************************)
(* The instance of the run "permissions": two roles and two channels, which *)
(* no definition of Permissions tells apart.                               *)
(***************************************************************************)
EXTENDS Permissions, TLC

CONSTANTS r1, r2, c1, c2

MCRoles    == {r1, r2}
MCChannels == {c1, c2}
Symmetry   == Permutations(MCRoles) \cup Permutations(MCChannels)
=============================================================================
