---------------------------- MODULE MCLdGateway ----------------------------
(***************************************************************************)
(* Instances of LdGateway for TLC.  The connections are interchangeable;    *)
(* the symmetry is used in the run without a liveness property.             *)
(***************************************************************************)
EXTENDS LdGateway, TLC

CONSTANTS w1, w2

MCWsis == {w1, w2}
MCOneWsi == {w1}
MCSymmetry == Permutations(MCWsis)
============================================================================
