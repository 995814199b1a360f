------------------------ MODULE InterviewPreparation ------------------------
(***************************************************************************)
(* The notes an owner writes before an interview.  A page loads what is    *)
(* asked (prompts, from the evidence the application was sent with), for   *)
(* which conversation (the target: the scheduled round in its version, or  *)
(* the recruiter screen), and the notes saved last: in the prompts if they *)
(* were written for this target, read-only below them if not.              *)
(*                                                                         *)
(* A revision is never changed; it names the revision it was written over. *)
(* The first save is made against the version of the application, later    *)
(* ones against that of the preparation: two counters that can be equal.   *)
(* A command holds the application, the preparation and the mapped         *)
(* evidence, so it is one action; a page reads row after row.              *)
(*                                                                         *)
(* Submission, posting and reviewed requirements of a submitted            *)
(* application do not change, so the context (source fingerprint) is told  *)
(* by the target, and a text by the request that saved it.                 *)
(***************************************************************************)
EXTENDS Integers, Sequences, FiniteSets, SequencesExt

CONSTANTS
  Requirements,  \* what the reviewed requirements may be: sequences of [required, backed]
  Capacity,      \* MAX_PREPARATION_PROMPTS
  Categories,    \* how many categories of questions are not about one requirement
  Submitted,     \* version of the application when it was submitted
  MaxRounds, MaxSaves      \* bounds: versions of rounds, requests to save

ASSUME RequirementsAssumption == Requirements \subseteq Seq([required : BOOLEAN, backed : BOOLEAN])
ASSUME CapacityAssumption == Capacity \in Nat \ {0} /\ Categories \in Nat

VARIABLES
  needs,         \* the reviewed requirements
  version,       \* of the application
  closed,
  talk,          \* the target: 0 for the recruiter screen, else the version of the scheduled round
  rounds,        \* versions of rounds there have been
  exact,         \* the mapped evidence is what it was
  revisions,     \* the notes
  saves          \* the requests to save, which a page may repeat at any time

vars == <<needs, version, closed, talk, rounds, exact, revisions, saves>>

Init == /\ needs \in Requirements
        /\ version = Submitted /\ closed = FALSE
        /\ talk = 0 /\ rounds = 0 /\ exact = TRUE
        /\ revisions = <<>> /\ saves = <<>>

(***************************************************************************)
(* The prompts: one (0) for each required requirement with evidence, then  *)
(* one for each other category as long as there is room.                   *)
(***************************************************************************)
Backed == {i \in DOMAIN needs : needs[i].backed}
Required == {i \in Backed : needs[i].required}

\* candidates, sorted by (importance != required, ordinal).
ComesBefore(i, j) == \/ needs[i].required /\ ~needs[j].required
                     \/ needs[i].required = needs[j].required /\ i < j

Ordered ==
  [n \in 1..Cardinality(Backed) |->
     CHOOSE i \in Backed : Cardinality({j \in Backed : ComesBefore(j, i)}) = n - 1]

Least(m, n) == IF m < n THEN m ELSE n

KeyPrompts == [i \in 1..Least(Cardinality(Required), Capacity) |-> <<0, Ordered[i]>>]

OtherPrompts == [c \in 1..Least(Categories, Capacity - Len(KeyPrompts)) |->
                   <<c, Ordered[((c - 1) % Len(Ordered)) + 1]>>]

Plan == LET plan == KeyPrompts \o OtherPrompts
        IN  IF Backed = {} THEN <<>>
            ELSE IF Required = {} /\ Len(plan) < Capacity THEN <<<<0, Ordered[1]>>>> \o plan
            ELSE plan

\* blocked_for_write, on a submitted application.
Blocked == Cardinality(Required) > Capacity \/ Backed = {} \/ ~exact

(***************************************************************************)
(* A page reads the application and the preparation, then the round, the   *)
(* evidence and the latest revision.  So the version it goes by may be one *)
(* that the rest of what it shows has left behind; and where it found no   *)
(* preparation it shows no notes, though there may be some by now.         *)
(***************************************************************************)
Context == talk

\* The version of the preparation, which every save raises.
PreparationVersion == Len(revisions)

Projection(scope, read, n) ==
  [scope |-> scope, version |-> read, latest |-> n, context |-> Context,
   notes |-> n # 0 /\ revisions[n].context = Context]

Projections ==
  {Projection("application", v, 0) : v \in Submitted..version}
  \cup {Projection("preparation", v, Len(revisions)) : v \in 1..PreparationVersion}

\* The owner changed the notes of a page and saves; the page makes a key for it.
Save(shown) ==
  /\ Len(saves) < MaxSaves /\ ~closed /\ ~Blocked
  /\ saves' = Append(saves, shown)
  /\ UNCHANGED <<needs, version, closed, talk, rounds, exact, revisions>>

(***************************************************************************)
(* create_interview_preparation_revision.                                  *)
(***************************************************************************)
Landed(key) == \E n \in DOMAIN revisions : revisions[n].by = key

\* Mutant of Continues: the versions agree.
ContinuesVersion(shown) ==
  shown.version = IF revisions = <<>> THEN version ELSE PreparationVersion

\* The version is that of what there is to be changed, and so is the revision written over.
Continues(shown) ==
  /\ shown.version = IF revisions = <<>> THEN version ELSE PreparationVersion
  /\ shown.latest = Len(revisions)

\* Mutant of Fits: whatever the conversation is now.
FitsAny(shown) == ~closed /\ ~Blocked

Fits(shown) == shown.context = Context /\ ~closed /\ ~Blocked

\* What is kept of a request: the notes, with what they are for as it is now.
Revision(key) == [by |-> key, context |-> Context]

\* The answer to a repeated request is made of what is there, and changes nothing.
Store(key) ==
  /\ ~Landed(key) /\ Continues(saves[key]) /\ Fits(saves[key])
  /\ revisions' = Append(revisions, Revision(key))
  /\ UNCHANGED <<needs, version, closed, talk, rounds, exact, saves>>

(***************************************************************************)
(* Other commands.                                                         *)
(***************************************************************************)
\* A round is scheduled, scheduled anew, or over.
MoveRound == /\ ~closed
             /\ \/ rounds < MaxRounds /\ rounds' = rounds + 1 /\ talk' = rounds'
                \/ talk # 0 /\ talk' = 0 /\ UNCHANGED rounds
             /\ version' = version + 1
             /\ UNCHANGED <<needs, closed, exact, revisions, saves>>

\* A scheduled round has to be over before.
Close == /\ ~closed /\ talk = 0
         /\ closed' = TRUE /\ version' = version + 1
         /\ UNCHANGED <<needs, talk, rounds, exact, revisions, saves>>

\* A version once left does not come back.
ChangeEvidence == /\ exact /\ exact' = FALSE
                  /\ UNCHANGED <<needs, version, closed, talk, rounds, revisions, saves>>

Next == \/ \E shown \in Projections : Save(shown)
        \/ \E key \in DOMAIN saves : Store(key)
        \/ MoveRound \/ Close \/ ChangeEvidence

Spec == Init /\ [][Next]_vars

(***************************************************************************)
(* Properties.                                                             *)
(***************************************************************************)
\* However many pages save, repeat what they asked and read between the commands of others:
\* notes are written only over notes that their author had on the page, in the prompts if they
\* are for the conversation the new ones are for; and the notes of one request are stored once.
NotesAnswerTheirPage ==
  \A n \in DOMAIN revisions :
    LET shown == saves[revisions[n].by]
    IN  /\ shown.latest = n - 1
        /\ shown.notes = (n > 1 /\ revisions[n - 1].context = revisions[n].context)
        /\ \A m \in DOMAIN revisions : revisions[m].by = revisions[n].by => m = n

\* docs/PHASE_6_OUTCOME_LEARNING.md:250 "The scaffold is capped at 12 prompts. If more than 12
\* required requirements already have evidence, preparation is explicitly blocked": whenever a
\* page can save, it asks about every required requirement that has evidence, and asks nothing
\* twice.
PromptsCover ==
  ~Blocked => /\ Plan # <<>> /\ Len(Plan) <= Capacity
              /\ \A i \in Required : \E n \in DOMAIN Plan : Plan[n] = <<0, i>>
              /\ \A m, n \in DOMAIN Plan : Plan[m] = Plan[n] => m = n
=============================================================================
