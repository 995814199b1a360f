---------------------------- MODULE MCWorkspace ----------------------------
(***************************************************************************)
(* Small instances of the components around an application, in one state   *)
(* space: its lifecycle, the locks its transactions take, its documents,   *)
(* the posting it came from and the messages sent for it.  What one of     *)
(* them reads of another is part of its own module; so each behaviour      *)
(* moves one component, its focus, and the rest stay at their initial      *)
(* values.                                                                 *)
(***************************************************************************)
EXTENDS ApplicationLifecycle, LockOrder, Documents, PostingIdentity, Outreach, TLC

CONSTANT Focuses       \* the components that move

VARIABLE focus

\* A component that does not move has one initial state.
MCInit == /\ focus \in Focuses
          /\ Init /\ LockInit /\ DocumentsInit /\ PostingInit /\ OutreachInit
          /\ focus # "paper" => \A e \in Evidence : evidence[e].state = "pending"
          /\ focus # "posting" => inventory = {}

LifeStep == /\ focus = "life" /\ Next
            /\ UNCHANGED <<focus, lockVars, documentVars, postingVars, outreachVars>>

LockStep == /\ focus = "lock" /\ LockNext
            /\ UNCHANGED <<focus, vars, documentVars, postingVars, outreachVars>>

PaperStep == /\ focus = "paper" /\ DocumentsNext
             /\ UNCHANGED <<focus, vars, lockVars, postingVars, outreachVars>>

PostingStep == /\ focus = "posting" /\ PostingNext
               /\ UNCHANGED <<focus, vars, lockVars, documentVars, outreachVars>>

MessageStep == /\ focus = "message" /\ OutreachNext
               /\ UNCHANGED <<focus, vars, lockVars, documentVars, postingVars>>

MCNext == LifeStep \/ LockStep \/ PaperStep \/ PostingStep \/ MessageStep

MCSpec == MCInit /\ [][MCNext]_<<focus, vars, lockVars, documentVars, postingVars, outreachVars>>

MCSymmetry == Permutations(Apps) \cup Permutations(People)
=============================================================================
