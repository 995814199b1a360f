------------------------- MODULE MCBackgroundWork -------------------------
(***************************************************************************)
(* Small instances of the components that work in the background, in one   *)
(* state space.  A job of one kind shares no row with a job of another     *)
(* kind, and what a poll does to jobs of several kinds is in JobQueue; so  *)
(* each behaviour moves one component, its focus, and the rest stay at     *)
(* their initial values.                                                   *)
(***************************************************************************)
EXTENDS BackgroundWork, TLC

CONSTANTS
  Focuses,       \* the components that move
  Items          \* jobs of the queue

VARIABLES focus, queueJob, queueClaim, queueRequeues

\* Only one of the two workers serves the kind of the items.
ServesAll == CHOOSE w \in Workers : TRUE

Plain == INSTANCE JobQueue
  WITH Jobs <- Items, WorkerId <- [w \in Workers |-> w],
       Serves <- [w \in Workers |-> IF w = ServesAll THEN Items ELSE {}],
       Priority <- [j \in Items |-> 100], Skews <- {0}, Delays <- {0, 1},
       MaxAttempts <- 2, MaxRequeues <- 0,
       job <- queueJob, claim <- queueClaim, requeues <- queueRequeues

\* All runs are posted under one key, all applications belong to one owner.
MCKeyOf == [r \in Runs |-> "key"]
MCOwnerOf == [a \in Apps |-> "owner"]
MCLimits == [owner_day |-> 1, global_day |-> 2, global_month |-> 2]

queueVars == <<queueJob, queueClaim, queueRequeues>>

Init == /\ focus \in Focuses
        /\ Plain!Init /\ ScanInit /\ HuntInit /\ ContactInit /\ FitInit /\ ScheduleInit

QueueStep == /\ focus = "queue" /\ Plain!Next
             /\ UNCHANGED <<focus, scanVars, huntVars, contactVars, fitVars, scheduleVars>>

ScanStep == /\ focus = "scan" /\ ScanNext
            /\ UNCHANGED <<focus, queueVars, huntVars, contactVars, fitVars, scheduleVars>>

HuntStep == /\ focus = "hunt" /\ HuntNext
            /\ UNCHANGED <<focus, queueVars, scanVars, contactVars, fitVars, scheduleVars>>

ContactStep == /\ focus = "contact" /\ ContactNext
               /\ UNCHANGED <<focus, queueVars, scanVars, huntVars, fitVars, scheduleVars>>

FitStep == /\ focus = "fit" /\ FitNext
           /\ UNCHANGED <<focus, queueVars, scanVars, huntVars, contactVars, scheduleVars>>

ScheduleStep == /\ focus = "schedule" /\ ScheduleNext
                /\ UNCHANGED <<focus, queueVars, scanVars, huntVars, contactVars, fitVars>>

Next == QueueStep \/ ScanStep \/ HuntStep \/ ContactStep \/ FitStep \/ ScheduleStep

vars == <<focus, queueVars, scanVars, huntVars, contactVars, fitVars, scheduleVars>>

Spec == Init /\ [][Next]_vars

\* The fairness of each component, for the behaviours it moves in.
QueueFairness ==
  /\ WF_queueVars(focus = "queue" /\ Plain!Tick)
  /\ \A w \in Workers : /\ WF_queueVars(focus = "queue" /\ Plain!UnlockedPoll(w))
                        /\ WF_queueVars(focus = "queue" /\ Plain!Return(w))

ScanFairness ==
  /\ WF_scanVars(focus = "scan" /\ ScanTick)
  /\ \A w \in Workers : /\ WF_scanVars(focus = "scan" /\ PollScan(w))
                        /\ WF_scanVars(focus = "scan" /\ ReturnScan(w))

ContactFairness ==
  /\ WF_contactVars(focus = "contact" /\ ContactTick)
  /\ \A w \in Workers : /\ WF_contactVars(focus = "contact" /\ PollContacts(w))
                        /\ WF_contactVars(focus = "contact" /\ ReturnSearch(w))

FitFairness ==
  /\ WF_fitVars(focus = "fit" /\ Backfill) /\ WF_fitVars(focus = "fit" /\ FitTick)
  /\ \A w \in Workers : /\ WF_fitVars(focus = "fit" /\ PollFit(w))
                        /\ WF_fitVars(focus = "fit" /\ HandleFit(w))

FairSpec == Spec /\ QueueFairness /\ ScanFairness /\ ContactFairness /\ FitFairness

MCSymmetry == Permutations(Workers) \cup Permutations(Tokens) \cup Permutations(Items)

(***************************************************************************)
(* The properties of the components.                                       *)
(***************************************************************************)
\* Every queued job is settled, whoever serves its kind, and a cancellation asked of a running
\* one is carried out.
JobsSettle == Plain!EverySettles /\ Plain!CancelSettles

\* Every scan ends with a verdict and every source closed.
ScanEveryAccounted == EveryScanAccounted

\* Every contact search ends, or goes with its application; every matched posting is
\* evaluated on the facts as they are.
SearchesAndMatchesEnd == EverySearchEnds /\ EveryMatchEvaluated
=============================================================================
