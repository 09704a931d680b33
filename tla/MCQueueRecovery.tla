--------------------------- MODULE MCQueueRecovery ---------------------------
(***************************************************************************)
(* Small instances of QueueRecovery for TLC.  Recovery is interesting with *)
(* many threads of which few are inside an operation at the crash:         *)
(* MaxActive bounds how many.                                              *)
(***************************************************************************)
EXTENDS QueueRecoveryInv, TLC

CONSTANT MaxActive

Active == Cardinality({p \in Producers : push_pc[p] # "idle"})
          + Cardinality({c \in Consumers : pop_pc[c] # "idle"})

ActiveNext == \/ RunStep /\ Active' <= MaxActive
              \/ Crash
              \/ RecStep

ActiveSpec == RecInit /\ [][ActiveNext]_allVars

\* The queue copies items and never looks at them.
Symmetry == Permutations(Items)
==============================================================================
