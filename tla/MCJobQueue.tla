----------------------------- MODULE MCJobQueue -----------------------------
(***************************************************************************)
(* Small instances of the two queues, in one state space: the durable one, *)
(* whose worker processes both report one id, and that of the former hunt  *)
(* service with its import.  They share no row; each behaviour moves one   *)
(* of them, its focus, and the other stays at its initial value.           *)
(***************************************************************************)
EXTENDS JobQueue, LegacyStore, TLC

CONSTANTS
  w1, w2, shared, j1, j2,
  Focuses        \* the queues that move

VARIABLE focus

MCWorkers == {w1, w2}
MCJobs == {j1, j2}
MCShared == [w \in MCWorkers |-> shared]
MCServesAll == [w \in MCWorkers |-> Jobs]
MCPriority == [j \in Jobs |-> IF j = j1 THEN 75 ELSE 100]
MCSkews == {-1, 0, 1}

MCInit == focus \in Focuses /\ Init /\ LegacyInit

QueueStep == /\ focus = "durable" /\ Next
             /\ UNCHANGED <<focus, legacyVars>>

LegacyStep == /\ focus = "legacy" /\ LegacyNext
              /\ UNCHANGED <<focus, vars>>

MCNext == QueueStep \/ LegacyStep

MCSpec == MCInit /\ [][MCNext]_<<focus, vars, legacyVars>>

\* Exchanging two tokens at a time finds as few representatives as all permutations here.
MCSymmetry ==
  {f \in Permutations(Tokens) : Cardinality({t \in Tokens : f[t] # t}) \in {0, 2}}
=============================================================================
