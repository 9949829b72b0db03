---------------------------- MODULE MCManagerFactory ----------------------------
(*****************************************************************************)
(* TLC instances of ManagerFactory: three workers, two combinations.          *)
(*****************************************************************************)
EXTENDS ManagerFactory, TLC

CONSTANTS w1, w2, w3, r1, r2, nobody

MCWorkers == {w1, w2, w3}
MCRmIds == {r1, r2}
MCSymmetry == Permutations(MCWorkers) \cup Permutations(MCRmIds)
=================================================================================
