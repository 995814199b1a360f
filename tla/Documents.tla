----------------------------- MODULE Documents -----------------------------
(***************************************************************************)
(* What an application is made of: achievement evidence the owner approves *)
(* and changes, resume versions, and for each application a pack of        *)
(* requirements mapped to evidence (grounds) and of generated materials    *)
(* (papers), until the application is ready and then applied.              *)
(*                                                                         *)
(* A command on a pack holds its row, and the rows of the evidence it      *)
(* maps, so it is one action.  It read the stage of the application before *)
(* it waited for the pack, and the objects of its session keep what was    *)
(* read.  The transition to ready holds the rows of the owner (which every *)
(* change of evidence waits for), the application and the pack.            *)
(*                                                                         *)
(* What a requirement or a document says is abstracted to the versions of  *)
(* the evidence it uses.  Postings stay open (see PostingIdentity).        *)
(***************************************************************************)
EXTENDS Integers, Sequences, FiniteSets

CONSTANTS
  Applications,
  Evidence,
  Sessions,    \* requests on packs at the same time
  Texts,       \* what resumes the owner wrote may say
  MaxVersion,  \* bound: versions of a piece of evidence
  MaxResumes,  \* bound: resume versions
  MaxGrounds,  \* bound: revisions of the grounds of a pack
  MaxPapers,   \* bound: revisions of its papers
  NoPack, NoWork

VARIABLES
  evidence,    \* approval_state and version
  resume,      \* the resume versions, by number
  pack,        \* of each application
  stage,       \* of each application
  work         \* the pack a request waits for

documentVars == <<evidence, resume, pack, stage, work>>

NoResume == 0

DocumentsInit == /\ evidence \in [Evidence -> [state : {"pending", "approved"}, version : {1}]]
                 /\ \E t \in Texts : resume = <<[text |-> <<t>>, parent |-> NoResume, base |-> TRUE]>>
                 /\ pack = [a \in Applications |-> NoPack]
                 /\ stage = [a \in Applications |-> "pursuing"]
                 /\ work = [s \in Sessions |-> NoWork]

(***************************************************************************)
(* Evidence.                                                               *)
(***************************************************************************)
Exact == {<<e, evidence[e].version>> : e \in {x \in Evidence : evidence[x].state = "approved"}}

\* _apply_approval_transition.
Transitions == {<<"pending", "approved">>, <<"pending", "rejected">>, <<"approved", "retired">>}

SetEvidence(e, state) ==
  /\ evidence[e].version < MaxVersion
  /\ evidence' = [evidence EXCEPT ![e] = [state |-> state, version |-> @.version + 1]]
  /\ UNCHANGED <<resume, pack, stage, work>>

ReviewEvidence(e) ==
  \E state \in {"approved", "rejected", "retired"} :
    <<evidence[e].state, state>> \in Transitions /\ SetEvidence(e, state)

Edit(e) == evidence[e].state # "retired" /\ SetEvidence(e, "pending")

(***************************************************************************)
(* Resume versions: a text is stored once, whoever writes it.              *)
(***************************************************************************)
Holding(text) == {r \in DOMAIN resume : resume[r].text = text}

Based(rows, r) == [x \in DOMAIN rows |-> [rows[x] EXCEPT !.base = (x = r)]]

\* create_or_reuse_resume_version: the rows after it, and the number of the text.
NumberOf(text) == IF Holding(text) # {} THEN CHOOSE r \in Holding(text) : TRUE
                  ELSE Len(resume) + 1

Stored(text, parent, makeBase) ==
  LET rows == IF Holding(text) # {} THEN resume
              ELSE Append(resume, [text |-> text, parent |-> parent, base |-> FALSE])
  IN  IF makeBase THEN Based(rows, NumberOf(text)) ELSE rows

\* Texts of the owner, and what was generated, handed in again.
Uploads == {<<t>> : t \in Texts}
           \cup UNION {{pack[a].papers[n].text : n \in DOMAIN pack[a].papers} :
                       a \in {x \in Applications : pack[x] # NoPack}}

Write(text, parent, makeBase) ==
  /\ NumberOf(text) <= MaxResumes
  /\ resume' = Stored(text, parent, makeBase)
  /\ UNCHANGED <<evidence, pack, stage, work>>

SetBase(r) == /\ ~resume[r].base
              /\ resume' = Based(resume, r)
              /\ UNCHANGED <<evidence, pack, stage, work>>

(***************************************************************************)
(* Packs.                                                                  *)
(***************************************************************************)
Last(seq) == seq[Len(seq)]

\* The extracted requirements need a review, so they cannot be confirmed as they are.
Extracted == [uses |-> {}, open |-> TRUE, reviewed |-> FALSE]

CreatePack(a, r) ==
  /\ stage[a] = "pursuing" /\ pack[a] = NoPack
  /\ pack' = [pack EXCEPT ![a] =
       [base |-> r, papers |-> <<>>, grounds |-> <<Extracted>>]]
  /\ UNCHANGED <<evidence, resume, stage, work>>

\* As good as the version column: every command on the pack raises it.
Version(a) ==
  LET p == pack[a]
  IN  Len(p.grounds) + Cardinality({n \in DOMAIN p.grounds : p.grounds[n].reviewed})
      + Len(p.papers) + Cardinality({n \in DOMAIN p.papers : p.papers[n].verdict # "none"})

\* A request has read the application and goes on to wait for the pack.
Enter(s, a) ==
  /\ work[s] = NoWork /\ stage[a] = "pursuing" /\ pack[a] # NoPack
  /\ work' = [work EXCEPT ![s] = [app |-> a, version |-> Version(a)]]
  /\ UNCHANGED <<evidence, resume, pack, stage>>

\* It is refused: what it depends on has changed, or its transaction failed.
Leave(s) == /\ work[s] # NoWork
            /\ work' = [work EXCEPT ![s] = NoWork]
            /\ UNCHANGED <<evidence, resume, pack, stage>>

Paper(p, n, selected) == [on |-> n, uses |-> selected, verdict |-> "none", resume |-> NoResume,
                          text |-> Append(resume[p.base].text, selected)]

\* Mutant of Grounded: evidence is not compared with what was reviewed.
GroundedOnce(p) == Last(p.grounds).reviewed

\* The latest grounds are reviewed, and their evidence is still what it was.
Grounded(p) == Last(p.grounds).reviewed /\ Last(p.grounds).uses \subseteq Exact

\* Mutant of Adoptable: whoever wrote the text before.
AdoptableAnyway(p, text) == \A r \in Holding(text) : ~resume[r].base

\* A resume of that text may be named in the approval.
Adoptable(p, text) == \A r \in Holding(text) : resume[r].parent = p.base /\ ~resume[r].base

\* create_application_pack_revision: it may leave something open, and may be the review.
Saves(p) ==
  {[pack |-> [p EXCEPT !.grounds = Append(@, g)], resume |-> resume] :
     g \in {x \in [uses : SUBSET Exact, open : BOOLEAN, reviewed : BOOLEAN] :
             ~(x.open /\ x.reviewed)}}

\* record_application_pack_event.
Reviews(p) ==
  LET g == Last(p.grounds)
  IN  {[pack |-> [p EXCEPT !.grounds[Len(p.grounds)].reviewed = TRUE], resume |-> resume] :
         once \in {x \in {1} : ~g.open /\ ~g.reviewed /\ g.uses \subseteq Exact}}

\* create_application_artifact_revision.
Generates(p) ==
  {[pack |-> [p EXCEPT !.papers = Append(@, Paper(p, Len(p.grounds), selected))],
    resume |-> resume] :
     selected \in IF Grounded(p) THEN SUBSET Last(p.grounds).uses ELSE {}}

\* record_application_artifact_event.
Judgeable(p) ==
  /\ p.papers # <<>> /\ Last(p.papers).verdict = "none"
  /\ Last(p.papers).on = Len(p.grounds) /\ Grounded(p)

Rejects(p) ==
  IF ~Judgeable(p) THEN {}
  ELSE {[pack |-> [p EXCEPT !.papers[Len(p.papers)].verdict = "rejected"], resume |-> resume]}

Approves(p) ==
  LET paper == Last(p.papers)
  IN  IF ~Judgeable(p) \/ paper.uses = {} \/ ~Adoptable(p, paper.text) THEN {}
      ELSE {[pack   |-> [p EXCEPT !.papers[Len(p.papers)].verdict = "approved",
                                  !.papers[Len(p.papers)].resume = NumberOf(paper.text)],
             resume |-> Stored(paper.text, p.base, FALSE)]}

\* What a dossier shows before it is approved: grounds saved as reviewed, and papers on them.
Prepared(p) ==
  UNION {Generates(grounds.pack) : grounds \in
    {saved \in Saves(p) : Last(saved.pack.grounds).reviewed}}

\* approve_application_dossier: save, review, generate and approve in one transaction.
Dossiers(p) == UNION {Approves(papers.pack) : papers \in Prepared(p)}

\* The pack is locked, and its version is the one the request names.
Commit(s, a, outcomes) ==
  /\ work[s] # NoWork /\ work[s].app = a
  /\ pack[a] # NoPack /\ Version(a) = work[s].version
  /\ \E o \in outcomes :
       /\ Len(o.pack.grounds) <= MaxGrounds /\ Len(o.pack.papers) <= MaxPapers
       /\ Len(o.resume) <= MaxResumes
       /\ pack' = [pack EXCEPT ![a] = o.pack]
       /\ resume' = o.resume
  /\ work' = [work EXCEPT ![s] = NoWork]
  /\ UNCHANGED <<evidence, stage>>

(***************************************************************************)
(* The stage.                                                              *)
(***************************************************************************)
\* _require_exact_reviewed_materials, but for the freshness.
Complete(p) ==
  /\ p # NoPack /\ p.papers # <<>>
  /\ Last(p.grounds).reviewed
  /\ Last(p.papers).verdict = "approved" /\ Last(p.papers).on = Len(p.grounds)
  /\ resume[Last(p.papers).resume].parent = p.base

MakeReady(a) ==
  /\ stage[a] = "pursuing"
  /\ Complete(pack[a]) /\ Grounded(pack[a]) /\ ~resume[Last(pack[a].papers).resume].base
  /\ stage' = [stage EXCEPT ![a] = "ready_to_apply"]
  /\ UNCHANGED <<evidence, resume, pack, work>>

Submit(a) ==
  /\ stage[a] = "ready_to_apply" /\ Complete(pack[a])
  /\ stage' = [stage EXCEPT ![a] = "applied"]
  /\ UNCHANGED <<evidence, resume, pack, work>>

\* The pursuit is undone, and the pack goes; the resume versions stay.
UndoApplication(a) ==
  /\ stage[a] \in {"pursuing", "ready_to_apply"}
  /\ stage' = [stage EXCEPT ![a] = "undone"]
  /\ pack' = [pack EXCEPT ![a] = NoPack]
  /\ UNCHANGED <<evidence, resume, work>>

DocumentsNext ==
  \/ \E e \in Evidence : ReviewEvidence(e) \/ Edit(e)
  \/ \E r \in DOMAIN resume : SetBase(r)
  \/ \E text \in Uploads, parent \in {NoResume} \cup DOMAIN resume, makeBase \in BOOLEAN :
       Write(text, parent, makeBase)
  \/ \E a \in Applications : \/ \E r \in DOMAIN resume : CreatePack(a, r)
                             \/ \E s \in Sessions : Enter(s, a)
                             \/ MakeReady(a) \/ Submit(a) \/ UndoApplication(a)
  \/ \E s \in Sessions : \/ Leave(s)
                         \/ \E a \in Applications :
                              \/ Commit(s, a, Saves(pack[a]))
                              \/ Commit(s, a, Reviews(pack[a]))
                              \/ Commit(s, a, Generates(pack[a]))
                              \/ Commit(s, a, Rejects(pack[a]))
                              \/ Commit(s, a, Approves(pack[a]))
                              \/ Commit(s, a, Dossiers(pack[a]))

DocumentsSpec == DocumentsInit /\ [][DocumentsNext]_documentVars

(***************************************************************************)
(* Properties.                                                             *)
(***************************************************************************)
\* Whatever the owner edits, retires or uploads between the steps, and in however many
\* requests: what is approved, and what an application becomes ready with, is the latest
\* revision, rests on the latest reviewed grounds, and cites only evidence that is approved
\* at this moment in exactly this version.
ApprovalsGrounded ==
  [][\A a \in Applications : stage'[a] # "undone" =>
       LET p == pack'[a]
       IN  \/ stage[a] = "pursuing" /\ stage'[a] = "ready_to_apply"
           \/ /\ p # NoPack /\ pack[a] # p /\ p.papers # <<>>
              /\ Last(p.papers).verdict = "approved" /\ Last(p.papers).on = Len(p.grounds)
         => /\ Last(p.papers).verdict = "approved" /\ Last(p.papers).on = Len(p.grounds)
            /\ Last(p.grounds).reviewed /\ Last(p.papers).uses \subseteq Last(p.grounds).uses
            /\ Last(p.grounds).uses \subseteq Exact]_documentVars

\* An approval names a resume that says what was approved and descends from the one the pack
\* is pinned to; no text is stored twice, and there is one base resume.
ApprovalsNameTheirText ==
  /\ \A a \in Applications : pack[a] # NoPack =>
       \A n \in DOMAIN pack[a].papers :
         LET paper == pack[a].papers[n]
         IN  paper.verdict = "approved" =>
               /\ resume[paper.resume].text = paper.text
               /\ resume[paper.resume].parent = pack[a].base
  /\ \A r, s \in DOMAIN resume : resume[r].text = resume[s].text => r = s
  /\ Cardinality({r \in DOMAIN resume : resume[r].base}) = 1

\* docs/PHASE_5_APPLICATION_PACK.md:250 "Fit and material mutations are accepted only while
\* `pursuing` and freeze after readiness": what an application became ready with stays what
\* it can be applied with.
ReadyStaysComplete == \A a \in Applications : stage[a] = "ready_to_apply" => Complete(pack[a])
=============================================================================
