-------------------------------- MODULE MCSync --------------------------------
(* Small instances of Sync for TLC.                                           *)
EXTENDS Sync, TLC

CONSTANTS c1, c2, u1, u2, t1, t2

MCUrlOf     == (c1 :> u1) @@ (c2 :> u2)
MCSharedUrl == (c1 :> u1) @@ (c2 :> u1)
MCOneUrl    == (c1 :> u1)

TargetSymmetry == Permutations({t1, t2})

\* With MCSharedUrl the containers are interchangeable, too.
SharedSymmetry == Permutations({c1, c2}) \cup TargetSymmetry
=============================================================================
