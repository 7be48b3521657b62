----------------------------- MODULE MCSessions -----------------------------
(***************************************************************************)
(* Two runs and two users share one session name; the bank gives out two   *)
(* devices.                                                                *)
(***************************************************************************)
EXTENDS Sessions, TLC

CONSTANTS p1, p2, u1, u2, dev1, dev2

MCSymmetry ==
    Permutations({p1, p2}) \cup Permutations({u1, u2}) \cup Permutations({dev1, dev2})
=============================================================================
