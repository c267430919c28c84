------------------------------ MODULE MCIBBackend ------------------------------
(***************************************************************************)
(* Three PEs, a barrier_sync of three longs, and a pool of three slots in  *)
(* chars of two bits (slot 2 alone in the second byte).  Two team handles  *)
(* fill the two slots TEAM_WORLD leaves free, so a third create returns    *)
(* TOO_MANY_TEAMS.                                                         *)
(***************************************************************************)
EXTENDS IBBackend

CONSTANTS p1, p2, p3     \* model values for the PEs

MCGroups == {{p1, p2}, {p2, p3}, {p1, p2, p3}}
=============================================================================
