----------------------------- MODULE MCAdrQueue ------------------------------
(***************************************************************************)
(* Small instances of AdrQueue for TLC.                                    *)
(***************************************************************************)
EXTENDS AdrQueue, TLC

CONSTANTS MaxActive,     \* bound: operations under way at a time, eADR build
          MaxAdrActive   \* and the two others

Active == Cardinality({p \in Producers : push_pc[p] # "idle" \/ PushReturning(p)})
          + Cardinality({c \in Consumers : pop_pc[c] # "idle" \/ PopReturning(c)})

ActiveNext == \/ Call /\ Active' <= IF build = "eadr" THEN MaxActive
                                                      ELSE MaxAdrActive
              \/ AdrRun
              \/ PowerFailure
              \/ EadrRecover
              \/ ExpRecover
              \/ TxRecover

ActiveSpec == AdrInit /\ [][ActiveNext]_adrVars

\* The queue copies items and never looks at them.
Symmetry == Permutations(Items)
==============================================================================
