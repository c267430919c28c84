------------------------------ MODULE MCBcastFlood ------------------------------
(***************************************************************************)
(* An option list for bcast_flood whose -e count wraps in the int cast.   *)
(***************************************************************************)
EXTENDS BcastFlood

Opt(o, n, s) == [opt |-> o, arg |-> [num |-> n, suf |-> s]]

(* -e 5g: 5 * 2^30 is cast to the int 2^30.                                *)
MCArgvsLarge == { << Opt("e", 5, "g"), Opt("l", 2, "") >> }
=============================================================================
