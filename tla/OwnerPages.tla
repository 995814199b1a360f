----------------------------- MODULE OwnerPages -----------------------------
(***************************************************************************)
(* The pages an owner works on an application with: the lists of open      *)
(* work, the changes that are asked for and whose answers may be missing,  *)
(* and the notes for an interview.  Each is a component by itself; here is *)
(* what the owner can rely on in all of them.                              *)
(***************************************************************************)
EXTENDS InterviewPreparation, ActionLists, PendingUpdates

\* A list of open work fails only while commands are committed, and its pages leave out nobody
\* at rest; the list of prompts asks about every required requirement with evidence.
ListsHold == QuietReadsAreServed /\ PagesCoverTheQuiet /\ PromptsCover

\* An action that is put off is the one the list showed.  Of what a page said was not done,
\* only an attempt earlier than the one that was turned down can be done afterwards; what it
\* called confirmed is new and as much of what was asked as the page looks at; and it shows
\* nothing older than before.
PagesKeepTheirWord == PostponedAsShown /\ OnlyEarlierAttemptsLand /\ ConfirmedIsNew /\ ShownNeverOlder
=============================================================================
