-------------------------- MODULE MCTrustProfiles --------------------------
(* TrustProfiles with files to start from.                                 *)
EXTENDS TrustProfiles, TLC

CONSTANTS a1, a2

Hand(agent, tampered, score, band) ==
  [agent |-> agent, counters |-> [NoCounters EXCEPT !.tampered = tampered, !.violations = 2],
   score |-> score, band |-> band, count |-> 0]

(* No file, and a profile whose score was written by hand and whose        *)
(* counters take it below zero.                                            *)
MCAuthoredFiles == {<<>>, <<Hand(a1, 13, 400, "high_risk")>>}

MCProcSymmetry == Permutations(Procs)

=============================================================================
