------------------------------ MODULE MCIntake ------------------------------
(***************************************************************************)
(* Small instances of what is read for the owner: the boards of a scan,    *)
(* the list of Today, what a role is judged to be, the search for people,  *)
(* the lists of open work, the pages on which the owner changes an         *)
(* application, and the notes for its interview.  Each behaviour moves one *)
(* component, its focus, and the others stay at their initial values.      *)
(***************************************************************************)
EXTENDS OwnerPages, TodayInbox, Assessment, SourceFetch, ContactDiscovery

CONSTANT Focuses    \* the components that move

VARIABLE focus

(***************************************************************************)
(* Postings found by one keyword and by both, two that lead to one page,   *)
(* and one that does not suit.                                             *)
(***************************************************************************)
MCBoards == {<<1, 2, 3, 4, 5>>, <<2, 3, 4, 5>>}
MCHits == <<{"k"}, {"k", "l"}, {"l"}, {"k"}, {"k", "l"}>>
MCUrl == <<"u1", "u2", "u3", "u2", "u1">>
MCKeywords == <<"k", "l">>
MCWanted == Ids \ {4}

(***************************************************************************)
(* Two roles of one company and one of another.  A bound: of three kinds   *)
(* of change there is one in a behaviour.  The clock moves, or the owner   *)
(* decides, edits or is judged anew, or the second company lists a role.   *)
(***************************************************************************)
MCCompany == <<"A", "A", "B">>

OneKindOfChange ==
  LET kinds == <<now' > 0,
                 \/ search'.version > 1
                 \/ \E r \in Roles : role'[r].tier > 1 \/ role'[r].decision = "watch",
                 role'[3].decision # "unknown">>
  IN  Cardinality({i \in DOMAIN kinds : kinds[i]}) <= 1

(***************************************************************************)
(* Postings that ask for alternatives, for a wish under a soft heading,    *)
(* for years, for more than anybody has, for hardly anything.              *)
(***************************************************************************)
Clause == [heading |-> "none", soft |-> FALSE, negated |-> FALSE, skills |-> {}, either |-> {},
           quarters |-> 0, firm |-> FALSE, wished |-> FALSE]

Texts ==
  <<<<[Clause EXCEPT !.skills = {"a", "b"}], [Clause EXCEPT !.skills = {"c"}, !.quarters = 2]>>,
   <<[Clause EXCEPT !.skills = {"a", "b", "c"}, !.either = {"b", "c"}],
     [Clause EXCEPT !.heading = "soft"], [Clause EXCEPT !.quarters = 2, !.skills = {"b"}]>>,
   <<[Clause EXCEPT !.skills = {"a", "b", "c", "d", "e"}]>>,
   <<[Clause EXCEPT !.skills = {"a"}, !.negated = TRUE],
     [Clause EXCEPT !.skills = {"b"}, !.quarters = 2, !.wished = TRUE]>>>>

Place(m, c) == [given |-> TRUE, modes |-> m, countries |-> c, named |-> {}]
Nowhere == [given |-> FALSE, modes |-> {}, countries |-> {}, named |-> {}]

Posting(groups, text, length, place, level) ==
  [groups |-> groups, named |-> {}, clauses |-> text, length |-> length, place |-> place,
   employment |-> "full", level |-> level]

MCPostings ==
  {Posting({"backend"}, Texts[level], 400, Place({"remote"}, {"IN"}), level) : level \in {1, 2}}
  \cup {Posting({}, Texts[3], 400, Nowhere, Unstated), Posting({"platform"}, Texts[4], 200, Nowhere, Unstated)}

MCTargets == {[families |-> {[name |-> "backend", groups |-> {"backend"}]}, levels |-> {1},
               places |-> {[name |-> "India", countries |-> {"IN"}]}]}

(***************************************************************************)
(* Three people: one of whom some results say that they left, one with a   *)
(* title that does not fit, one read as a leader and as a recruiter.       *)
(***************************************************************************)
Title(kind, order) == [kind |-> kind, fits |-> TRUE, overlaps |-> kind = "peer", order |-> order]
Result(p, title, says) == [profile |-> p, named |-> TRUE, title |-> title, says |-> says]

Peer == Result(1, Title("peer", 1), "current")
Left == Result(1, Title("peer", 1), "former")
Other == Result(2, Title("peer", 2), "current")
Leader == Result(3, Title("leader", 3), "current")
Recruiter == Result(3, Title("recruiter", 4), "current")
AtAnother == Result(2, [Title("peer", 2) EXCEPT !.fits = FALSE], "elsewhere")

MCLists ==
  {<<>>, <<Peer>>, <<Left>>, <<Leader>>, <<Peer, Other>>, <<Other, Peer>>, <<Leader, Recruiter>>,
   <<Recruiter, Leader>>, <<AtAnother, Peer>>, <<Other, Left, Leader>>,
   <<Leader, AtAnother, Peer, Other>>, <<Other>>, <<Recruiter, Peer>>}

MCShows == [e \in Evidence |-> IF e = "e1" THEN {"a", "b"} ELSE {"f"}]

(***************************************************************************)
(* A follow-up that is overdue, and an interview that is due today.        *)
(***************************************************************************)
MCStarts ==
  LET start(stage, scheduled, due) ==
        [stage |-> stage, scheduled |-> scheduled, version |-> 1, updated |-> 0,
         action |-> [id |-> 1, round |-> scheduled, due |-> due,
                     kind |-> IF scheduled THEN "prepare_interview" ELSE "follow_up_application"]]
  IN  {start("applied", FALSE, 0), start("screening", TRUE, 1)}

(***************************************************************************)
(* What a page asks for, twice with different contents where the page can  *)
(* tell them apart.                                                        *)
(***************************************************************************)
Request(p, what, on, due) == [page |-> p, what |-> what, on |-> on, due |-> due]

MCRequests ==
  {Request(p[1], p[2], on, 1) : on \in {1, 2},
     p \in {<<"progress", "screening">>, <<"round", "slot">>, <<"pack", "revision">>,
            <<"outreach", "message">>}}
  \cup {Request(p[1], p[2], 1, 1) :
          p \in {<<"progress", "offer">>, <<"submission", "submit">>, <<"correction", "date">>,
                 <<"review", "plan">>, <<"materials", "revision">>, <<"materials", "approve">>,
                 <<"pack", "start">>, <<"pack", "review">>, <<"outreach", "sent">>,
                 <<"outreach", "reply">>, <<"outreach", "pause">>, <<"people", "search">>}}

(***************************************************************************)
(* Requirements with and without evidence; in one case more of them than   *)
(* there is room for prompts.                                              *)
(***************************************************************************)
Need(required, backed) == [required |-> required, backed |-> backed]

MCRequirements ==
  {<<>>, <<Need(TRUE, TRUE), Need(FALSE, TRUE)>>,
   <<Need(FALSE, TRUE), Need(TRUE, FALSE)>>,
   <<Need(TRUE, TRUE), Need(TRUE, TRUE), Need(TRUE, TRUE), Need(TRUE, TRUE)>>}

(***************************************************************************)
\* A component that does not move has one initial state.
MCInit == /\ focus \in Focuses
          /\ FetchInit /\ (focus # "source" => Len(board) = Cardinality(Ids))
          /\ ListsInit /\ (focus # "work" => \A a \in Apps : row[a].scheduled)
          /\ AssessmentInit /\ (focus # "assessment" => posting = CHOOSE p \in Postings : TRUE)
          /\ UpdatesInit /\ (focus # "page" => page = "round")
          /\ Init /\ (focus # "notes" <=> needs = <<>>)
          /\ TodayInit /\ PeopleInit

SourceStep == /\ focus = "source" /\ FetchNext
              /\ UNCHANGED <<focus, todayVars, assessmentVars, peopleVars, listVars, updateVars, vars>>

TodayStep == /\ focus = "today" /\ TodayNext /\ OneKindOfChange
             /\ UNCHANGED <<focus, fetchVars, assessmentVars, peopleVars, listVars, updateVars, vars>>

AssessmentStep == /\ focus = "assessment" /\ AssessmentNext
                  /\ UNCHANGED <<focus, fetchVars, todayVars, peopleVars, listVars, updateVars, vars>>

PeopleStep == /\ focus = "people" /\ PeopleNext
              /\ UNCHANGED <<focus, fetchVars, todayVars, assessmentVars, listVars, updateVars, vars>>

WorkStep == /\ focus = "work" /\ ListsNext
            /\ UNCHANGED <<focus, fetchVars, todayVars, assessmentVars, peopleVars, updateVars, vars>>

PageStep == /\ focus = "page" /\ UpdatesNext
            /\ UNCHANGED <<focus, fetchVars, todayVars, assessmentVars, peopleVars, listVars, vars>>

NoteStep == /\ focus = "notes" /\ Next
            /\ UNCHANGED <<focus, fetchVars, todayVars, assessmentVars, peopleVars, listVars, updateVars>>

MCNext == SourceStep \/ TodayStep \/ AssessmentStep \/ PeopleStep \/ WorkStep \/ PageStep \/ NoteStep

MCSpec ==
  MCInit /\ [][MCNext]_<<focus, fetchVars, todayVars, assessmentVars, peopleVars, listVars, updateVars,
                        vars>>

=============================================================================
