----------------------------- MODULE MCRegistry -----------------------------
(* Registry with candidates and symmetry.                                  *)
EXTENDS Registry, TLC

(* One draft per agent, with no keys, which declares nothing.              *)
MCDrafts ==
  {[agent |-> a, declares |-> {}, keys |-> [id \in KeyIds |-> NoKey], sig |-> NoSig] : a \in Agents}

MCSymmetry == Permutations(Procs) \cup Permutations(Agents)

=============================================================================
