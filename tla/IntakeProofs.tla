---------------------------- MODULE IntakeProofs ----------------------------
(***************************************************************************)
(* Theorems about InterviewPreparation, TodayInbox and Assessment.         *)
(*                                                                         *)
(* Notes: what a request says of the notes it was made over is true of     *)
(* them as long as they exist, because notes are never changed; and it is  *)
(* the next to be stored only while those notes are the last.              *)
(*                                                                         *)
(* Today: the order of the recommended list leaves no two roles without a  *)
(* place, so that a list is determined by its set of roles, and a cursor   *)
(* points into it.  A scan has one source of a company, which alone can    *)
(* overtake the source that a role in the inbox owes its place to.         *)
(*                                                                         *)
(* Assessment: each part of a judgement stays or turns for the better when *)
(* the owner grows.  Only a place that was out of the question may become  *)
(* one of which nothing is known; the four points this takes from what is  *)
(* known never decide about the confidence.                                *)
(***************************************************************************)
EXTENDS InterviewPreparation, TodayInbox, Assessment, SequenceTheorems, FiniteSetTheorems, TLAPS

Shown == [scope : {"application", "preparation"}, version : Int, latest : Nat, context : Nat,
          notes : BOOLEAN]

Notes == [by : Nat, context : Nat]

TypeOK ==
  /\ version \in Int /\ talk \in Nat /\ rounds \in Nat
  /\ revisions \in Seq(Notes)
  /\ saves \in Seq(Shown)

\* What a page showed is there, and is as the page showed it.
AskedOverNotes ==
  \A k \in DOMAIN saves :
    LET shown == saves[k]
    IN  /\ shown.latest <= Len(revisions)
        /\ shown.notes = (shown.latest # 0 /\ revisions[shown.latest].context = shown.context)

\* Notes are those of a request that was made over the notes before them.
NotesAsAsked ==
  \A n \in DOMAIN revisions :
    /\ revisions[n].by \in DOMAIN saves
    /\ saves[revisions[n].by].latest = n - 1
    /\ saves[revisions[n].by].context = revisions[n].context

StoredOnce ==
  \A m, n \in DOMAIN revisions : revisions[m].by = revisions[n].by => m = n

Inv == TypeOK /\ AskedOverNotes /\ NotesAsAsked /\ StoredOnce

(***************************************************************************)
(* Sequences that grow.                                                    *)
(***************************************************************************)
LEMMA Appended ==
  ASSUME NEW S, NEW s \in Seq(S), NEW e \in S
  PROVE  /\ Append(s, e) \in Seq(S)
         /\ Len(s) \in Nat /\ Len(Append(s, e)) = Len(s) + 1
         /\ DOMAIN s = 1..Len(s) /\ DOMAIN Append(s, e) = 1..(Len(s) + 1)
         /\ \A n \in DOMAIN s : Append(s, e)[n] = s[n] /\ s[n] \in S
         /\ Append(s, e)[Len(s) + 1] = e
OBVIOUS

\* A page shows what is there when it reads it.
LEMMA PagesShowWhatIs ==
  ASSUME TypeOK, Submitted \in Int, NEW shown \in Projections
  PROVE  /\ shown \in Shown
         /\ shown.latest <= Len(revisions)
         /\ shown.notes = (shown.latest # 0 /\ revisions[shown.latest].context = shown.context)
<1>1. Len(revisions) \in Nat /\ talk \in Nat
  BY DEF TypeOK
<1>2. CASE \E v \in Submitted..version : shown = Projection("application", v, 0)
  BY <1>1, <1>2 DEF Projection, Context, Shown, TypeOK
<1>3. CASE \E v \in 1..PreparationVersion :
             shown = Projection("preparation", v, Len(revisions))
  BY <1>1, <1>3 DEF Projection, Context, Shown, TypeOK
<1> QED  BY <1>2, <1>3 DEF Projections

(***************************************************************************)
(* The steps.                                                              *)
(***************************************************************************)
LEMMA InitInv == ASSUME Submitted \in Int, Init PROVE Inv
BY DEF Init, Inv, TypeOK, AskedOverNotes, NotesAsAsked, StoredOnce

LEMMA SaveInv ==
  ASSUME Inv, Submitted \in Int, NEW shown \in Projections, Save(shown)
  PROVE  Inv'
<1>1. /\ saves' = Append(saves, shown)
      /\ UNCHANGED <<version, talk, rounds, revisions>>
  BY DEF Save
<1>2. saves \in Seq(Shown) /\ shown \in Shown
  BY PagesShowWhatIs DEF Inv, TypeOK
<1>3. /\ saves' \in Seq(Shown) /\ DOMAIN saves' = 1..(Len(saves) + 1)
      /\ DOMAIN saves = 1..Len(saves) /\ Len(saves) \in Nat
      /\ \A k \in DOMAIN saves : saves'[k] = saves[k]
      /\ saves'[Len(saves) + 1] = shown
  BY <1>1, <1>2, Appended
<1>4. TypeOK'
  BY <1>1, <1>3 DEF Inv, TypeOK
<1>5. AskedOverNotes'
  <2> SUFFICES ASSUME NEW k \in DOMAIN saves'
               PROVE  /\ saves'[k].latest <= Len(revisions)
                      /\ saves'[k].notes = (saves'[k].latest # 0
                           /\ revisions[saves'[k].latest].context = saves'[k].context)
    BY <1>1 DEF AskedOverNotes
  <2>1. CASE k \in DOMAIN saves
    BY <2>1, <1>3 DEF Inv, AskedOverNotes
  <2>2. CASE k = Len(saves) + 1
    BY <2>2, <1>3, PagesShowWhatIs DEF Inv
  <2> QED  BY <1>3, <2>1, <2>2
<1>6. NotesAsAsked' /\ StoredOnce'
  BY <1>1, <1>3 DEF Inv, NotesAsAsked, StoredOnce
<1> QED  BY <1>4, <1>5, <1>6 DEF Inv

LEMMA StoreInv ==
  ASSUME Inv, NEW key \in DOMAIN saves, Store(key)
  PROVE  Inv'
<1> DEFINE last == Len(revisions)
           row == [by |-> key, context |-> talk]
<1>1. /\ revisions' = Append(revisions, row)
      /\ UNCHANGED <<version, talk, rounds, saves>>
  BY DEF Store, Revision, Context
<1>2. /\ \A n \in DOMAIN revisions : revisions[n].by # key
      /\ saves[key].latest = last /\ saves[key].context = talk
  BY DEF Store, Landed, Continues, Fits, Context
<1>3. saves \in Seq(Shown) /\ revisions \in Seq(Notes) /\ row \in Notes
  BY DEF Inv, TypeOK, Notes
<1>4. /\ revisions' \in Seq(Notes) /\ DOMAIN revisions' = 1..(last + 1)
      /\ DOMAIN revisions = 1..last /\ last \in Nat /\ Len(revisions') = last + 1
      /\ \A n \in DOMAIN revisions : revisions'[n] = revisions[n]
      /\ revisions'[last + 1] = row
  BY <1>1, <1>3, Appended
<1>5. TypeOK'
  BY <1>1, <1>4 DEF Inv, TypeOK
<1>6. AskedOverNotes'
  <2> SUFFICES ASSUME NEW k \in DOMAIN saves
               PROVE  /\ saves[k].latest <= Len(revisions')
                      /\ saves[k].notes = (saves[k].latest # 0
                           /\ revisions'[saves[k].latest].context = saves[k].context)
    BY <1>1 DEF AskedOverNotes
  <2>1. /\ saves[k].latest \in Nat /\ saves[k].latest <= last
        /\ saves[k].notes = (saves[k].latest # 0
             /\ revisions[saves[k].latest].context = saves[k].context)
    <3>1. saves[k] \in Shown
      BY <1>3
    <3> QED  BY <3>1 DEF Inv, AskedOverNotes, Shown
  <2>2. saves[k].latest # 0 => revisions'[saves[k].latest] = revisions[saves[k].latest]
    BY <1>4, <2>1
  <2> QED  BY <1>4, <2>1, <2>2
<1>7. NotesAsAsked'
  <2> SUFFICES ASSUME NEW n \in DOMAIN revisions'
               PROVE  /\ revisions'[n].by \in DOMAIN saves
                      /\ saves[revisions'[n].by].latest = n - 1
                      /\ saves[revisions'[n].by].context = revisions'[n].context
    BY <1>1 DEF NotesAsAsked
  <2>1. CASE n \in DOMAIN revisions
    BY <2>1, <1>4 DEF Inv, NotesAsAsked
  <2>2. CASE n = last + 1
    BY <2>2, <1>2, <1>4
  <2> QED  BY <1>4, <2>1, <2>2
<1>8. StoredOnce'
  BY <1>2, <1>4 DEF Inv, StoredOnce
<1> QED  BY <1>5, <1>6, <1>7, <1>8 DEF Inv

LEMMA OthersInv ==
  ASSUME Inv, MoveRound \/ Close \/ ChangeEvidence
  PROVE  Inv'
<1>1. /\ UNCHANGED <<revisions, saves>>
      /\ version' \in Int /\ talk' \in Nat /\ rounds' \in Nat
  BY DEF MoveRound, Close, ChangeEvidence, Inv, TypeOK
<1> QED
  BY <1>1 DEF Inv, TypeOK, AskedOverNotes, NotesAsAsked, StoredOnce

\* What the property says follows.
LEMMA InvAnswers == ASSUME Inv PROVE NotesAnswerTheirPage
<1> SUFFICES ASSUME NEW n \in DOMAIN revisions
             PROVE  LET shown == saves[revisions[n].by]
                    IN  /\ shown.latest = n - 1
                        /\ shown.notes = (n > 1 /\ revisions[n - 1].context = revisions[n].context)
                        /\ \A m \in DOMAIN revisions : revisions[m].by = revisions[n].by => m = n
  BY DEF NotesAnswerTheirPage
<1>1. n \in Nat /\ n >= 1
  BY DEF Inv, TypeOK
<1> QED  BY <1>1 DEF Inv, AskedOverNotes, NotesAsAsked, StoredOnce

\* interview_preparation_repository.py, create_interview_preparation_revision: whatever pages
\* save, repeat and read in between, notes are written only over notes their author had on the
\* page, for the conversation they are for, and once.
THEOREM NotesOverNotes ==
  ASSUME Submitted \in Int
  PROVE  Spec => []NotesAnswerTheirPage
<1>1. Init => Inv
  BY InitInv
<1>2. Inv /\ [Next]_vars => Inv'
  <2> SUFFICES ASSUME Inv, [Next]_vars PROVE Inv'
    OBVIOUS
  <2>1. CASE \E shown \in Projections : Save(shown)
    BY <2>1, SaveInv
  <2>2. CASE \E key \in DOMAIN saves : Store(key)
    BY <2>2, StoreInv
  <2>3. CASE MoveRound \/ Close \/ ChangeEvidence
    BY <2>3, OthersInv
  <2>4. CASE UNCHANGED vars
    BY <2>4 DEF vars, Inv, TypeOK, AskedOverNotes, NotesAsAsked, StoredOnce
  <2> QED  BY <2>1, <2>2, <2>3, <2>4 DEF Next
<1>3. Inv => NotesAnswerTheirPage
  BY InvAnswers
<1> QED  BY <1>1, <1>2, <1>3, PTL DEF Spec

(***************************************************************************)
(* The inbox of Today.                                                     *)
(***************************************************************************)
RoleRows == [decision : {"unknown", "inbox", "watch"}, surfaced : Nat, tier : Tiers]

SourceRows == [scan : ScanRows, company : Companies, version : Nat, at : Nat,
               seen : SUBSET Roles, clean : BOOLEAN]

RowsTyped ==
  /\ now \in Nat
  /\ search \in [version : Nat, active : BOOLEAN]
  /\ role \in [Roles -> RoleRows]
  /\ sources \in SUBSET SourceRows /\ IsFiniteSet(sources)
  /\ scan \in ScanRows \cup {None}

\* What a source listed is of its company.
ListedAtHome == \A s \in sources : \A r \in s.seen : Company[r] = s.company

\* A scan has one source per company.
OncePerScan ==
  \A s, o \in sources : s.scan = o.scan /\ s.company = o.company => s = o

\* A cursor of the recommended list points behind its first role and before its end.
CursorPoints ==
  \/ cursor = None
  \/ cursor.sort = "newest"
  \/ cursor \in Cursors /\ cursor.offset < Len(cursor.order)

TodayInv == RowsTyped /\ ListedAtHome /\ OncePerScan /\ CursorPoints

(***************************************************************************)
(* The recommended list of any finite set of roles is that set in the      *)
(* order of Precedes: the place of a role, the number of those before it,  *)
(* leads from the set onto the positions of the list.                      *)
(***************************************************************************)
LEMMA RoundCounts ==
  ASSUME RowsTyped, NEW list \in SUBSET Roles, NEW r \in Roles
  PROVE  Round(r, list) \in Nat
<1> DEFINE same == {s \in list : Company[s] = Company[r]
                                 /\ role[s].tier = role[r].tier /\ Newer(s, r)}
<1>1. IsFiniteSet(list)
  BY FS_Subset, RolesAssumption
<1>2. same \in SUBSET list
  OBVIOUS
<1>3. IsFiniteSet(same)
  BY <1>1, <1>2, FS_Subset
<1>4. Cardinality(same) \in Nat
  BY <1>3, FS_CardinalityType
<1> QED BY <1>4 DEF Round

LEMMA RoleFields ==
  ASSUME RowsTyped, NEW r \in Roles
  PROVE  r \in Int /\ role[r].tier \in Tiers /\ role[r].tier \in Int /\ role[r].surfaced \in Nat
<1>1. role[r] \in RoleRows
  BY DEF RowsTyped
<1> QED BY <1>1, RolesAssumption, TiersAssumption DEF RoleRows

\* Precedes is a strict order in which any two roles have a place.
LEMMA PrecedesOrders ==
  ASSUME RowsTyped, NEW list \in SUBSET Roles, NEW r \in Roles, NEW s \in Roles, NEW t \in Roles
  PROVE  /\ ~Precedes(r, r, list)
         /\ Precedes(r, s, list) /\ Precedes(s, t, list) => Precedes(r, t, list)
         /\ r # s => Precedes(r, s, list) \/ Precedes(s, r, list)
<1>1. /\ Round(r, list) \in Nat /\ Round(s, list) \in Nat /\ Round(t, list) \in Nat
  BY RoundCounts
<1>2. /\ r \in Int /\ role[r].tier \in Int /\ role[r].surfaced \in Nat
      /\ s \in Int /\ role[s].tier \in Int /\ role[s].surfaced \in Nat
      /\ t \in Int /\ role[t].tier \in Int /\ role[t].surfaced \in Nat
  BY RoleFields
<1>3. ~Precedes(r, r, list)
  BY <1>1, <1>2 DEF Precedes, Newer
<1>4. r # s => Precedes(r, s, list) \/ Precedes(s, r, list)
  BY <1>1, <1>2 DEF Precedes, Newer
<1>5. Newer(r, s) /\ Newer(s, t) => Newer(r, t)
  BY <1>2 DEF Newer
<1>6. Precedes(r, s, list) /\ Precedes(s, t, list) => Precedes(r, t, list)
  BY <1>1, <1>2, <1>5 DEF Precedes
<1> QED BY <1>3, <1>4, <1>6

LEMMA PlacesGrow ==
  ASSUME RowsTyped, NEW list \in SUBSET Roles, NEW r \in list, NEW s \in list,
         Precedes(r, s, list)
  PROVE  Cardinality({o \in list : Precedes(o, r, list)})
           < Cardinality({o \in list : Precedes(o, s, list)})
<1> DEFINE before(t) == {o \in list : Precedes(o, t, list)}
<1>1. IsFiniteSet(list)
  BY FS_Subset, RolesAssumption
<1>2. before(r) \in SUBSET before(s)
  BY PrecedesOrders
<1>3. r \in before(s) /\ r \notin before(r)
  BY PrecedesOrders
<1>4. before(s) \in SUBSET list
  OBVIOUS
<1>5. IsFiniteSet(before(s))
  BY <1>1, <1>4, FS_Subset
<1> HIDE DEF before
<1>6. /\ IsFiniteSet(before(r)) /\ Cardinality(before(r)) <= Cardinality(before(s))
      /\ Cardinality(before(s)) = Cardinality(before(r)) => before(s) = before(r)
  BY <1>2, <1>5, FS_Subset
<1>7. Cardinality(before(r)) \in Nat /\ Cardinality(before(s)) \in Nat
  BY <1>5, <1>6, FS_CardinalityType
<1>8. Cardinality(before(r)) < Cardinality(before(s))
  BY <1>3, <1>6, <1>7
<1> QED BY <1>8 DEF before

LEMMA PlacesTaken ==
  ASSUME RowsTyped, NEW list \in SUBSET Roles
  PROVE  /\ IsFiniteSet(list) /\ Cardinality(list) \in Nat
         /\ \A i \in 1..Cardinality(list) : \E r \in list :
              Cardinality({s \in list : Precedes(s, r, list)}) = i - 1
<1> DEFINE n == Cardinality(list)
           before(r) == {s \in list : Precedes(s, r, list)}
           place == [r \in list |-> Cardinality(before(r)) + 1]
<1>1. IsFiniteSet(list)
  BY FS_Subset, RolesAssumption
<1>2. n \in Nat
  BY <1>1, FS_CardinalityType
<1>3. ASSUME NEW r \in list
      PROVE  Cardinality(before(r)) \in Nat /\ Cardinality(before(r)) < n
  <2>1. before(r) \in SUBSET list
    OBVIOUS
  <2>2. r \notin before(r)
    BY PrecedesOrders
  <2> HIDE DEF before
  <2>3. /\ IsFiniteSet(before(r)) /\ Cardinality(before(r)) <= n
        /\ n = Cardinality(before(r)) => list = before(r)
    BY <1>1, <2>1, FS_Subset
  <2>4. Cardinality(before(r)) \in Nat
    BY <2>3, FS_CardinalityType
  <2> HIDE DEF n
  <2> QED BY <1>2, <2>2, <2>3, <2>4
<1>4. place \in [list -> 1..n]
  BY <1>2, <1>3
<1>5. ASSUME NEW r \in list, NEW s \in list, r # s
      PROVE  place[r] # place[s]
  <2>1. Precedes(r, s, list) \/ Precedes(s, r, list)
    BY <1>5, PrecedesOrders
  <2>2. Cardinality(before(r)) # Cardinality(before(s))
    BY <2>1, <1>3, PlacesGrow
  <2> HIDE DEF before
  <2> QED BY <2>2, <1>3
<1>6. place \in Injection(list, 1..n)
  BY <1>4, <1>5 DEF Injection, IsInjective
<1>7. IsFiniteSet(1..n) /\ Cardinality(1..n) = n
  BY <1>2, FS_Interval
<1>8. place \in Surjection(list, 1..n)
  BY <1>6, <1>7, FS_Injection
<1>9. ASSUME NEW i \in 1..n
      PROVE  \E r \in list : Cardinality(before(r)) = i - 1
  <2>1. PICK r \in list : place[r] = i
    BY <1>8 DEF Surjection
  <2>2. Cardinality(before(r)) + 1 = i
    BY <2>1
  <2>3. Cardinality(before(r)) \in Nat
    BY <1>3
  <2> HIDE DEF before, n
  <2> QED BY <2>2, <2>3
<1> QED BY <1>1, <1>2, <1>9

LEMMA RankedSorts ==
  ASSUME RowsTyped, NEW list \in SUBSET Roles
  PROVE  /\ Ranked(list) \in Seq(list) /\ Len(Ranked(list)) = Cardinality(list)
         /\ \A r \in list : \E i \in DOMAIN Ranked(list) : Ranked(list)[i] = r
         /\ \A i, j \in DOMAIN Ranked(list) :
              i < j => Precedes(Ranked(list)[i], Ranked(list)[j], list)
<1> DEFINE n == Cardinality(list)
           place(r) == Cardinality({s \in list : Precedes(s, r, list)})
<1>1. IsFiniteSet(list) /\ n \in Nat /\ \A i \in 1..n : \E r \in list : place(r) = i - 1
  BY PlacesTaken
<1>2. Ranked(list) = [i \in 1..n |-> CHOOSE r \in list : place(r) = i - 1]
  BY DEF Ranked
<1>3. \A r, s \in list : Precedes(r, s, list) => place(r) < place(s)
  BY PlacesGrow
<1>4. \A r, s \in list : r # s => Precedes(r, s, list) \/ Precedes(s, r, list)
  BY PrecedesOrders
<1>5. \A r \in list : place(r) \in 0..(n - 1)
  <2> SUFFICES ASSUME NEW r \in list PROVE place(r) \in 0..(n - 1)
    OBVIOUS
  <2>1. {s \in list : Precedes(s, r, list)} \in SUBSET (list \ {r})
    BY PrecedesOrders
  <2>2. IsFiniteSet(list \ {r}) /\ Cardinality(list \ {r}) = n - 1
    BY <1>1, FS_RemoveElement
  <2>3. IsFiniteSet({s \in list : Precedes(s, r, list)}) /\ place(r) <= n - 1
    BY <2>1, <2>2, FS_Subset
  <2>4. place(r) \in Nat
    BY <2>3, FS_CardinalityType
  <2> HIDE DEF place, n
  <2> QED BY <1>1, <2>3, <2>4
<1> HIDE DEF place, n
<1>6. \A i \in 1..n : Ranked(list)[i] \in list /\ place(Ranked(list)[i]) = i - 1
  BY <1>1, <1>2
<1>7. Ranked(list) \in Seq(list) /\ Len(Ranked(list)) = n /\ DOMAIN Ranked(list) = 1..n
  <2>1. Ranked(list) \in [1..n -> list]
    BY <1>2, <1>6
  <2> QED BY <1>1, <2>1
<1>8. ASSUME NEW r \in list
      PROVE  \E i \in 1..n : Ranked(list)[i] = r
  <2> DEFINE i == place(r) + 1
  <2>1. i \in 1..n
    BY <1>1, <1>5
  <2>2. Ranked(list)[i] \in list /\ place(Ranked(list)[i]) = place(r)
    BY <1>6, <2>1, <1>5
  <2>3. Ranked(list)[i] = r
    BY <2>2, <1>3, <1>4, <1>5
  <2> QED BY <2>1, <2>3
<1>9. ASSUME NEW i \in 1..n, NEW j \in 1..n, i < j
      PROVE  Precedes(Ranked(list)[i], Ranked(list)[j], list)
  <2> DEFINE r == Ranked(list)[i]
             s == Ranked(list)[j]
  <2>1. r \in list /\ s \in list /\ place(r) = i - 1 /\ place(s) = j - 1
    BY <1>6
  <2> HIDE DEF r, s
  <2>2. r # s /\ ~(place(s) < place(r))
    BY <2>1, <1>9
  <2>3. Precedes(r, s, list)
    BY <2>1, <2>2, <1>3, <1>4
  <2> QED BY <2>3 DEF r, s
<1> QED BY <1>7, <1>8, <1>9 DEF n

(***************************************************************************)
(* What the inbox is made of.                                              *)
(***************************************************************************)
LEMMA InboxIsOfRoles ==
  ASSUME RowsTyped, NEW at
  PROVE  Inbox(at) \in SUBSET Roles
<1>1. Reliable(at) \subseteq sources /\ CurrentSources(at) \subseteq Reliable(at)
  BY DEF Reliable, CurrentSources
<1>2. \A s \in sources : s.seen \subseteq Roles
  BY DEF RowsTyped, SourceRows
<1>3. UNION {s.seen : s \in CurrentSources(at)} \subseteq Roles
  BY <1>1, <1>2
<1>4. Current(at) \subseteq Roles
  BY <1>3 DEF Current
<1> QED BY <1>4 DEF Inbox

(***************************************************************************)
(* Pages.                                                                  *)
(***************************************************************************)
LEMMA PageShape ==
  ASSUME NEW S, NEW seq \in Seq(S), NEW offset \in Nat, offset <= Len(seq)
  PROVE  LET items == Prefix(SubSeq(seq, offset + 1, Len(seq)))
         IN  /\ items \in Seq(S) /\ Len(items) \in Nat
             /\ offset + Len(items) <= Len(seq)
             /\ offset < Len(seq) => items # <<>> /\ Len(items) > 0
             /\ \A i \in DOMAIN items : offset + i \in DOMAIN seq /\ items[i] = seq[offset + i]
<1> DEFINE rest == SubSeq(seq, offset + 1, Len(seq))
           size == IF Len(rest) < Limit THEN Len(rest) ELSE Limit
           items == Prefix(rest)
<1>1. Len(seq) \in Nat /\ DOMAIN seq = 1..Len(seq)
  OBVIOUS
<1>2. /\ rest \in Seq(S) /\ Len(rest) = Len(seq) - offset
      /\ \A i \in 1..Len(rest) : rest[i] = seq[offset + i]
  <2>1. \A i \in (offset + 1)..Len(seq) : seq[i] \in S
    BY <1>1
  <2>2. rest \in Seq(S)
    BY <1>1, <2>1, SubSeqProperties
  <2>3. Len(rest) = Len(seq) - offset
    <3>1. Len(rest) = IF offset + 1 <= Len(seq) THEN Len(seq) - (offset + 1) + 1 ELSE 0
      BY <1>1, <2>1, SubSeqProperties
    <3> HIDE DEF rest
    <3>2. CASE offset + 1 <= Len(seq)
      BY <1>1, <3>1, <3>2
    <3>3. CASE offset = Len(seq)
      BY <1>1, <3>1, <3>3
    <3>4. offset + 1 <= Len(seq) \/ offset = Len(seq)
      <4>1. Len(seq) \in Nat /\ offset <= Len(seq)
        BY <1>1
      <4> QED BY <4>1
    <3> QED BY <3>2, <3>3, <3>4
  <2>4. ASSUME NEW i \in 1..Len(rest)
        PROVE  rest[i] = seq[offset + i]
    <3>1. i \in 1..(Len(seq) - (offset + 1) + 1)
      <4> HIDE DEF rest
      <4> QED BY <1>1, <2>3
    <3>2. rest[i] = seq[offset + 1 + i - 1]
      BY <1>1, <2>1, <3>1, SubSeqProperties
    <3>3. offset + 1 + i - 1 = offset + i
      BY <3>1
    <3> QED BY <3>2, <3>3
  <2> QED BY <2>2, <2>3, <2>4
<1> HIDE DEF rest
<1>3. size \in Nat /\ size <= Len(rest) /\ (Len(rest) > 0 => size > 0) /\ Limit \in Nat
  BY <1>1, <1>2, LimitAssumption
<1>4. items = SubSeq(rest, 1, size)
  BY DEF Prefix
<1> HIDE DEF size, items
<1>5. /\ items \in Seq(S) /\ Len(items) = size
      /\ \A i \in 1..size : items[i] = rest[i]
  BY <1>2, <1>3, <1>4
<1>6. DOMAIN items = 1..size
  BY <1>5
<1>7. \A i \in DOMAIN items : offset + i \in DOMAIN seq /\ items[i] = seq[offset + i]
  BY <1>1, <1>2, <1>3, <1>5, <1>6
<1>8. offset < Len(seq) => items # <<>> /\ Len(items) > 0
  BY <1>1, <1>2, <1>3, <1>5
<1>9. items \in Seq(S) /\ Len(items) \in Nat /\ offset + Len(items) <= Len(seq)
  BY <1>1, <1>2, <1>3, <1>5
<1>10. Prefix(SubSeq(seq, offset + 1, Len(seq))) = items
  BY DEF items, rest
<1> QED BY <1>7, <1>8, <1>9, <1>10

LEMMA FingerprintType ==
  ASSUME RowsTyped, NEW seq \in Seq(Roles)
  PROVE  /\ Fingerprint(seq) \in Seq(Roles \X Nat \X Tiers)
         /\ Len(Fingerprint(seq)) = Len(seq)
         /\ \A i \in DOMAIN seq :
              Fingerprint(seq)[i] = <<seq[i], role[seq[i]].surfaced, role[seq[i]].tier>>
<1>1. DOMAIN seq = 1..Len(seq) /\ Len(seq) \in Nat /\ \A i \in DOMAIN seq : seq[i] \in Roles
  OBVIOUS
<1>2. \A r \in Roles : role[r].surfaced \in Nat /\ role[r].tier \in Tiers
  BY RoleFields
<1>3. Fingerprint(seq) \in [1..Len(seq) -> Roles \X Nat \X Tiers]
  BY <1>1, <1>2 DEF Fingerprint
<1> QED BY <1>1, <1>3 DEF Fingerprint

\* What an answer of the recommended list holds: the list from the offset on, and a cursor into
\* what is left of it.
PageOf(order, at, offset, answer) ==
  LET items == answer.items
  IN  /\ order \in Seq(Roles)
      /\ items \in Seq(Roles) /\ Len(items) \in Nat
      /\ offset + Len(items) <= Len(order)
      /\ offset < Len(order) => items # <<>> /\ Len(items) > 0
      /\ \A i \in DOMAIN items : offset + i \in DOMAIN order /\ items[i] = order[offset + i]
      /\ IF offset + Len(items) >= Len(order) THEN answer.next = None
         ELSE /\ answer.next = [sort |-> "recommended", at |-> at, offset |-> offset + Len(items),
                                order |-> Fingerprint(order)]
              /\ answer.next \in Cursors
              /\ answer.next.offset < Len(answer.next.order)

LEMMA RecommendedPage ==
  ASSUME RowsTyped, NEW at \in Nat, NEW offset \in Nat,
         offset <= Len(Ranked(Inbox(at)))
  PROVE  PageOf(Ranked(Inbox(at)), at, offset, Recommended(at, offset))
<1> DEFINE order  == Ranked(Inbox(at))
           answer == Recommended(at, offset)
           items  == Prefix(SubSeq(order, offset + 1, Len(order)))
<1>1. order \in Seq(Roles)
  <2>1. order \in Seq(Inbox(at)) /\ Inbox(at) \in SUBSET Roles
    BY InboxIsOfRoles, RankedSorts
  <2> HIDE DEF order
  <2> QED BY <2>1
<1>2. answer = [items |-> items,
                next |-> IF offset + Len(items) >= Len(order) THEN None
                         ELSE [sort |-> "recommended", at |-> at, offset |-> offset + Len(items),
                               order |-> Fingerprint(order)]]
  BY DEF Recommended
<1> HIDE DEF order, answer
<1>3. /\ items \in Seq(Roles) /\ Len(items) \in Nat
      /\ offset + Len(items) <= Len(order)
      /\ offset < Len(order) => items # <<>> /\ Len(items) > 0
      /\ \A i \in DOMAIN items : offset + i \in DOMAIN order /\ items[i] = order[offset + i]
  <2>1. offset <= Len(order)
    BY DEF order
  <2> QED BY <1>1, <2>1, PageShape
<1>4. answer.items = items
  BY <1>2
<1>5. CASE offset + Len(items) >= Len(order)
  <2>1. answer.next = None
    BY <1>2, <1>5
  <2> HIDE DEF items
  <2>2. PageOf(order, at, offset, answer)
    BY <1>1, <1>3, <1>4, <1>5, <2>1 DEF PageOf
  <2> QED BY <2>2 DEF order, answer
<1>6. CASE ~(offset + Len(items) >= Len(order))
  <2> HIDE DEF items
  <2>1. answer.next = [sort |-> "recommended", at |-> at, offset |-> offset + Len(items),
                       order |-> Fingerprint(order)]
    BY <1>2, <1>6
  <2>2. Len(order) \in Nat
    BY <1>1
  <2>3. offset + Len(items) \in Nat \ {0} /\ offset + Len(items) < Len(order)
    BY <1>3, <1>6, <2>2
  <2>4. Fingerprint(order) \in Seq(Roles \X Nat \X Tiers) /\ Len(Fingerprint(order)) = Len(order)
    BY <1>1, FingerprintType
  <2>5. answer.next \in Cursors /\ answer.next.offset < Len(answer.next.order)
    BY <2>1, <2>3, <2>4 DEF Cursors
  <2>6. PageOf(order, at, offset, answer)
    BY <1>1, <1>3, <1>4, <1>6, <2>1, <2>5 DEF PageOf
  <2> QED BY <2>6 DEF order, answer
<1> QED BY <1>5, <1>6

LEMMA RecommendedCursor ==
  ASSUME RowsTyped, NEW at \in Nat, NEW offset \in Nat,
         offset <= Len(Ranked(Inbox(at)))
  PROVE  LET c == Recommended(at, offset).next
         IN  c = None \/ (c \in Cursors /\ c.offset < Len(c.order))
<1> DEFINE c == Recommended(at, offset).next
           end == offset + Len(Recommended(at, offset).items)
<1>1. IF end >= Len(Ranked(Inbox(at))) THEN c = None
      ELSE c \in Cursors /\ c.offset < Len(c.order)
  BY RecommendedPage DEF PageOf
<1> HIDE DEF c, end
<1>2. c = None \/ (c \in Cursors /\ c.offset < Len(c.order))
  <2>1. CASE end >= Len(Ranked(Inbox(at)))
    BY <1>1, <2>1
  <2>2. CASE ~(end >= Len(Ranked(Inbox(at))))
    BY <1>1, <2>2
  <2> QED BY <2>1, <2>2
<1> QED BY <1>2 DEF c

LEMMA RecentCursor ==
  ASSUME NEW at, NEW list, NEW rest
  PROVE  LET c == Recent(at, list, rest).next IN c = None \/ c.sort = "newest"
<1> DEFINE items == Prefix(Newest(rest))
           last  == items[Len(items)]
           key   == [position |-> Position(last, list), surfaced |-> role[last].surfaced,
                     id |-> last]
<1>1. Recent(at, list, rest) =
        [items |-> items,
         next  |-> IF Len(items) = Cardinality(rest) THEN None
                   ELSE [sort |-> "newest", at |-> at, key |-> key]]
  BY DEF Recent
<1> HIDE DEF items, key
<1> QED BY <1>1

\* What a recommended cursor is answered.
LEMMA NextOfRecommended ==
  ASSUME RowsTyped, NEW c \in Cursors, c.offset < Len(c.order)
  PROVE  \/ NextPage(c) = Refused
         \/ /\ Fingerprint(Ranked(Inbox(c.at))) = c.order
            /\ NextPage(c) = Recommended(c.at, c.offset)
            /\ Len(Ranked(Inbox(c.at))) = Len(c.order)
            /\ c.at \in Nat /\ c.offset \in Nat
<1>1. c.sort = "recommended" /\ c.at \in Nat /\ c.offset \in Nat
  BY DEF Cursors
<1>2. Ranked(Inbox(c.at)) \in Seq(Inbox(c.at)) /\ Inbox(c.at) \in SUBSET Roles
  BY InboxIsOfRoles, RankedSorts
<1>3. Ranked(Inbox(c.at)) \in Seq(Roles)
  BY <1>2
<1>4. Len(Fingerprint(Ranked(Inbox(c.at)))) = Len(Ranked(Inbox(c.at)))
  BY <1>3, FingerprintType
<1>5. NextPage(c) = IF Fingerprint(Ranked(Inbox(c.at))) # c.order THEN Refused
                    ELSE Recommended(c.at, c.offset)
  BY <1>1 DEF NextPage
<1> QED BY <1>1, <1>4, <1>5

LEMMA FirstCursor ==
  ASSUME RowsTyped, NEW sort \in {"recommended", "newest"}
  PROVE  LET c == FirstPage(sort).next
         IN  c = None \/ c.sort = "newest" \/ (c \in Cursors /\ c.offset < Len(c.order))
<1>1. CASE sort = "recommended"
  <2>1. Ranked(Inbox(now)) \in Seq(Inbox(now))
    BY InboxIsOfRoles, RankedSorts
  <2>2. 0 <= Len(Ranked(Inbox(now))) /\ now \in Nat
    BY <2>1 DEF RowsTyped
  <2>3. FirstPage(sort) = Recommended(now, 0)
    BY <1>1 DEF FirstPage
  <2> QED BY <2>2, <2>3, RecommendedCursor
<1>2. CASE sort = "newest"
  <2>1. FirstPage(sort) = Recent(now, Inbox(now), Inbox(now))
    BY <1>2 DEF FirstPage
  <2>2. \/ Recent(now, Inbox(now), Inbox(now)).next = None
        \/ Recent(now, Inbox(now), Inbox(now)).next.sort = "newest"
    BY RecentCursor
  <2> QED BY <2>1, <2>2
<1> QED BY <1>1, <1>2

(***************************************************************************)
(* The invariant.                                                          *)
(***************************************************************************)
LEMMA StartedCounts ==
  ASSUME RowsTyped
  PROVE  Started \in Nat
<1> DEFINE ids == {s.scan.id : s \in sources}
           id == [s \in sources |-> s.scan.id]
<1>1. id \in Surjection(sources, ids)
  BY DEF Surjection
<1>2. IsFiniteSet(ids)
  BY <1>1, FS_Surjection DEF RowsTyped
<1>3. Cardinality(ids) \in Nat
  BY <1>2, FS_CardinalityType
<1>4. CASE scan # None
  <2>1. scan \in ScanRows
    BY <1>4 DEF RowsTyped
  <2> QED BY <1>4, <2>1 DEF Started, ScanRows
<1>5. CASE scan = None
  BY <1>3, <1>5 DEF Started
<1> QED BY <1>4, <1>5

LEMMA TodayBegins == TodayInit => TodayInv
<1> SUFFICES ASSUME TodayInit PROVE TodayInv
  OBVIOUS
<1>1. RowsTyped
  <2>1. Unknown \in RoleRows
    BY TiersAssumption DEF Unknown, RoleRows
  <2>2. IsFiniteSet({})
    BY FS_EmptySet
  <2> QED BY <2>1, <2>2 DEF TodayInit, RowsTyped
<1>2. ListedAtHome /\ OncePerScan
  BY DEF TodayInit, ListedAtHome, OncePerScan
<1>3. CursorPoints
  <2>1. cursor = FirstPage("recommended").next
    BY DEF TodayInit
  <2>2. LET c == FirstPage("recommended").next
        IN  c = None \/ c.sort = "newest" \/ (c \in Cursors /\ c.offset < Len(c.order))
    BY <1>1, FirstCursor
  <2> QED BY <2>1, <2>2 DEF CursorPoints
<1> QED BY <1>1, <1>2, <1>3 DEF TodayInv

\* The rows stay typed and unique in every step that leaves the cursor alone.
LEMMA RowsStay ==
  ASSUME TodayInv, TodayNext
  PROVE  RowsTyped' /\ ListedAtHome' /\ OncePerScan'
<1> USE DEF TodayInv
<1>1. ASSUME NEW sort \in {"recommended", "newest"}, Load(sort) \/ LoadMore(sort)
      PROVE  RowsTyped' /\ ListedAtHome' /\ OncePerScan'
  BY <1>1 DEF Load, LoadMore, RowsTyped, ListedAtHome, OncePerScan
<1>2. ASSUME Begin
      PROVE  RowsTyped' /\ ListedAtHome' /\ OncePerScan'
  <2>1. scan' \in ScanRows
    BY <1>2, StartedCounts DEF Begin, ScanRows, RowsTyped
  <2> QED BY <1>2, <2>1 DEF Begin, RowsTyped, ListedAtHome, OncePerScan
<1>3. ASSUME Finalize
      PROVE  RowsTyped' /\ ListedAtHome' /\ OncePerScan'
  BY <1>3 DEF Finalize, RowsTyped, ListedAtHome, OncePerScan
<1>4. ASSUME EditSearch
      PROVE  RowsTyped' /\ ListedAtHome' /\ OncePerScan'
  BY <1>4 DEF EditSearch, RowsTyped, ListedAtHome, OncePerScan
<1>5. ASSUME Tick
      PROVE  RowsTyped' /\ ListedAtHome' /\ OncePerScan'
  BY <1>5 DEF Tick, RowsTyped, ListedAtHome, OncePerScan
<1>6. ASSUME NEW c \in Companies, NEW seen \in SUBSET {r \in Roles : Company[r] = c},
             NEW changed \in SUBSET seen, NEW clean \in BOOLEAN, Fetch(c, seen, changed, clean)
      PROVE  RowsTyped' /\ ListedAtHome' /\ OncePerScan'
  <2> DEFINE new == [scan |-> scan, company |-> c, version |-> scan.version, at |-> now,
                     seen |-> seen, clean |-> clean]
  <2>1. /\ scan \in ScanRows /\ sources' = sources \cup {new}
        /\ \A s \in sources : s.scan = scan => s.company # c
    BY <1>6 DEF Fetch, RowsTyped
  <2>2. new \in SourceRows
    BY <2>1 DEF RowsTyped, SourceRows, ScanRows
  <2>3. IsFiniteSet(sources')
    BY <2>1, FS_AddElement DEF RowsTyped
  <2>4. role' \in [Roles -> RoleRows]
    <3>1. ASSUME NEW r \in Roles
          PROVE  role'[r] \in RoleRows
      <4>1. role[r] \in RoleRows /\ now \in Nat
        BY DEF RowsTyped
      <4>2. role'[r] = IF r \notin seen THEN role[r]
                       ELSE IF role[r].decision = "unknown"
                       THEN [decision |-> "inbox", surfaced |-> now, tier |-> role[r].tier]
                       ELSE IF r \in changed THEN [role[r] EXCEPT !.surfaced = now] ELSE role[r]
        BY <1>6 DEF Fetch
      <4> QED BY <4>1, <4>2 DEF RoleRows
    <3>2. role' = [r \in Roles |-> role'[r]]
      BY <1>6 DEF Fetch
    <3> QED BY <3>1, <3>2
  <2>5. RowsTyped'
    BY <1>6, <2>1, <2>2, <2>3, <2>4 DEF Fetch, RowsTyped
  <2>6. ListedAtHome'
    <3>1. \A r \in new.seen : Company[r] = new.company
      OBVIOUS
    <3> QED BY <2>1, <3>1 DEF ListedAtHome
  <2>7. OncePerScan'
    <3>1. new.scan = scan /\ new.company = c
      OBVIOUS
    <3> HIDE DEF new
    <3> QED BY <2>1, <3>1 DEF OncePerScan
  <2> QED BY <2>5, <2>6, <2>7
<1>7. ASSUME NEW r \in Roles, Decide(r)
      PROVE  RowsTyped' /\ ListedAtHome' /\ OncePerScan'
  <2>1. role' \in [Roles -> RoleRows]
    BY <1>7 DEF Decide, RowsTyped, RoleRows
  <2> QED BY <1>7, <2>1 DEF Decide, RowsTyped, ListedAtHome, OncePerScan
<1>8. ASSUME NEW r \in Roles, Judge(r)
      PROVE  RowsTyped' /\ ListedAtHome' /\ OncePerScan'
  <2>1. role' \in [Roles -> RoleRows]
    BY <1>8 DEF Judge, RowsTyped, RoleRows
  <2> QED BY <1>8, <2>1 DEF Judge, RowsTyped, ListedAtHome, OncePerScan
<1>9. ASSUME EndInVain
      PROVE  RowsTyped' /\ ListedAtHome' /\ OncePerScan'
  <2> DEFINE vain == [s \in sources |-> [s EXCEPT !.clean = @ /\ s.scan # scan]]
  <2>1. vain \in Surjection(sources, sources') /\ IsFiniteSet(sources)
    BY <1>9 DEF EndInVain, Surjection, RowsTyped
  <2>2. IsFiniteSet(sources')
    BY <2>1, FS_Surjection
  <2>3. \A s \in sources : /\ vain[s] \in SourceRows /\ vain[s].scan = s.scan
                           /\ vain[s].company = s.company /\ vain[s].seen = s.seen
    BY DEF RowsTyped, SourceRows
  <2>4. \A o \in sources' : \E s \in sources : o = vain[s]
    BY <1>9 DEF EndInVain
  <2> HIDE DEF vain
  <2>5. RowsTyped'
    BY <1>9, <2>2, <2>3, <2>4 DEF EndInVain, RowsTyped
  <2>6. ListedAtHome'
    BY <2>3, <2>4 DEF ListedAtHome
  <2>7. OncePerScan'
    BY <2>3, <2>4 DEF OncePerScan
  <2> QED BY <2>5, <2>6, <2>7
<1> QED BY <1>1, <1>2, <1>3, <1>4, <1>5, <1>6, <1>7, <1>8, <1>9 DEF TodayNext

LEMMA CursorStays ==
  ASSUME TodayInv, TodayNext
  PROVE  CursorPoints'
<1> USE DEF TodayInv
<1>1. ASSUME NEW sort \in {"recommended", "newest"}, Load(sort)
      PROVE  CursorPoints'
  <2>1. cursor' = FirstPage(sort).next
    BY <1>1 DEF Load
  <2>2. LET c == FirstPage(sort).next
        IN  c = None \/ c.sort = "newest" \/ (c \in Cursors /\ c.offset < Len(c.order))
    BY FirstCursor
  <2> QED BY <2>1, <2>2 DEF CursorPoints
<1>2. ASSUME NEW sort \in {"recommended", "newest"}, LoadMore(sort)
      PROVE  CursorPoints'
  <2>1. CASE NextPage(cursor) = Refused
    <3>1. cursor' = FirstPage(sort).next
      BY <1>2, <2>1 DEF LoadMore
    <3>2. LET c == FirstPage(sort).next
          IN  c = None \/ c.sort = "newest" \/ (c \in Cursors /\ c.offset < Len(c.order))
      BY FirstCursor
    <3> QED BY <3>1, <3>2 DEF CursorPoints
  <2>2. CASE NextPage(cursor) # Refused /\ cursor.sort = "newest"
    <3> DEFINE rest == {r \in Inbox(cursor.at) : After(r, Inbox(cursor.at), cursor.key)}
    <3>1. cursor' = NextPage(cursor).next
      BY <1>2, <2>2 DEF LoadMore
    <3>2. NextPage(cursor) = Recent(cursor.at, Inbox(cursor.at), rest)
      BY <2>2 DEF NextPage
    <3> HIDE DEF rest
    <3>3. LET c == Recent(cursor.at, Inbox(cursor.at), rest).next
          IN  c = None \/ c.sort = "newest"
      BY RecentCursor
    <3> QED BY <3>1, <3>2, <3>3 DEF CursorPoints
  <2>3. CASE NextPage(cursor) # Refused /\ cursor.sort # "newest"
    <3>1. cursor' = NextPage(cursor).next /\ cursor # None
      BY <1>2, <2>3 DEF LoadMore
    <3>2. cursor \in Cursors /\ cursor.offset < Len(cursor.order)
      BY <2>3, <3>1 DEF CursorPoints
    <3>3. /\ NextPage(cursor) = Recommended(cursor.at, cursor.offset)
          /\ Len(Ranked(Inbox(cursor.at))) = Len(cursor.order)
          /\ cursor.at \in Nat /\ cursor.offset \in Nat
      BY <2>3, <3>2, NextOfRecommended
    <3>4. cursor.offset <= Len(Ranked(Inbox(cursor.at)))
      <4>1. Len(cursor.order) \in Nat
        BY <3>2 DEF Cursors
      <4> QED BY <3>2, <3>3, <4>1
    <3>5. LET c == Recommended(cursor.at, cursor.offset).next
          IN  c = None \/ (c \in Cursors /\ c.offset < Len(c.order))
      BY <3>3, <3>4, RecommendedCursor
    <3> QED BY <3>1, <3>3, <3>5 DEF CursorPoints
  <2> QED BY <2>1, <2>2, <2>3
<1>3. ASSUME UNCHANGED cursor
      PROVE  CursorPoints'
  BY <1>3 DEF CursorPoints
<1> QED
  BY <1>1, <1>2, <1>3
  DEF TodayNext, Begin, Finalize, EndInVain, EditSearch, Tick, Fetch, Decide, Judge

LEMMA TodayInvStays == TodayInv /\ [TodayNext]_todayVars => TodayInv'
<1>1. ASSUME TodayInv, TodayNext PROVE TodayInv'
  BY <1>1, RowsStay, CursorStays DEF TodayInv
<1>2. ASSUME TodayInv, UNCHANGED todayVars PROVE TodayInv'
  BY <1>2 DEF TodayInv, todayVars, RowsTyped, ListedAtHome, OncePerScan, CursorPoints
<1> QED BY <1>1, <1>2

\* The invariant behind both theorems on Today.
THEOREM TodayCorrect == TodaySpec => []TodayInv
BY TodayBegins, TodayInvStays, PTL DEF TodaySpec

(***************************************************************************)
(* A page continues its list.                                              *)
(***************************************************************************)
LEMMA PagesContinue ==
  ASSUME TodayInv
  PROVE  PagesContinueTheirList
<1> DEFINE answer == NextPage(cursor)
           items  == answer.items
<1> SUFFICES ASSUME cursor # None, cursor.sort = "recommended", answer # Refused
             PROVE  /\ items # <<>> /\ cursor.offset + Len(items) <= Len(cursor.order)
                    /\ \A i \in DOMAIN items : cursor.order[cursor.offset + i] =
                         <<items[i], role[items[i]].surfaced, role[items[i]].tier>>
                    /\ IF answer.next = None THEN cursor.offset + Len(items) = Len(cursor.order)
                       ELSE answer.next = [cursor EXCEPT !.offset = @ + Len(items)]
  BY DEF PagesContinueTheirList
<1> DEFINE order == Ranked(Inbox(cursor.at))
           end   == cursor.offset + Len(items)
<1>1. RowsTyped /\ cursor \in Cursors /\ cursor.offset < Len(cursor.order)
  BY DEF TodayInv, CursorPoints
<1>2. /\ Fingerprint(order) = cursor.order
      /\ answer = Recommended(cursor.at, cursor.offset)
      /\ Len(order) = Len(cursor.order)
      /\ cursor.at \in Nat /\ cursor.offset \in Nat
  BY <1>1, NextOfRecommended
<1>3. Len(cursor.order) \in Nat
  BY <1>1 DEF Cursors
<1>4. cursor.offset <= Len(order) /\ cursor.offset < Len(order)
  BY <1>1, <1>2, <1>3
<1>5. PageOf(order, cursor.at, cursor.offset, answer)
  BY <1>1, <1>2, <1>4, RecommendedPage
<1> HIDE DEF answer, order
<1>6. /\ order \in Seq(Roles)
      /\ Len(items) \in Nat
      /\ end <= Len(order)
      /\ cursor.offset < Len(order) => items # <<>> /\ Len(items) > 0
      /\ \A i \in DOMAIN items :
           cursor.offset + i \in DOMAIN order /\ items[i] = order[cursor.offset + i]
      /\ IF end >= Len(order) THEN answer.next = None
         ELSE /\ answer.next = [sort |-> "recommended", at |-> cursor.at, offset |-> end,
                                order |-> Fingerprint(order)]
              /\ answer.next \in Cursors
              /\ answer.next.offset < Len(answer.next.order)
  BY <1>5 DEF PageOf
<1> HIDE DEF items
<1>7. \A i \in DOMAIN items : cursor.order[cursor.offset + i] =
                                <<items[i], role[items[i]].surfaced, role[items[i]].tier>>
  <2>1. \A i \in DOMAIN order :
          Fingerprint(order)[i] = <<order[i], role[order[i]].surfaced, role[order[i]].tier>>
    BY <1>1, <1>6, FingerprintType
  <2> QED BY <1>2, <1>6, <2>1
<1>8. CASE end >= Len(order)
  <2>1. answer.next = None /\ end = Len(cursor.order)
    BY <1>2, <1>3, <1>6, <1>8
  <2> QED BY <1>2, <1>4, <1>6, <1>7, <2>1
<1>9. CASE ~(end >= Len(order))
  <2>1. answer.next = [sort |-> "recommended", at |-> cursor.at, offset |-> end,
                       order |-> cursor.order]
    BY <1>2, <1>6, <1>9
  <2>2. cursor = [sort |-> "recommended", at |-> cursor.at, offset |-> cursor.offset,
                  order |-> cursor.order]
    BY <1>1 DEF Cursors
  <2>3. answer.next = [cursor EXCEPT !.offset = @ + Len(items)]
    BY <2>1, <2>2
  <2>4. answer.next # None
    BY <1>6, <1>9, NoneAssumption
  <2> QED BY <1>2, <1>4, <1>6, <1>7, <2>3, <2>4
<1> QED BY <1>8, <1>9

\* docs/PHASE_2_OPPORTUNITY_RADAR.md:103, for any number of roles, companies, scans and pages
\* of any length.
THEOREM PagesAgree == TodaySpec => []PagesContinueTheirList
<1>1. TodayInv => PagesContinueTheirList
  BY PagesContinue
<1> QED BY <1>1, TodayCorrect, PTL

(***************************************************************************)
(* Only what a source without a warning does not list leaves.              *)
(***************************************************************************)
LEMMA ScanEnds ==
  ASSUME TodayInv, Finalize, Reliable(now) # {}, NEW r \in Inbox(now), r \notin Inbox(now)'
  PROVE  \E s \in sources : s.scan = scan /\ s.clean /\ s.company = Company[r] /\ r \notin s.seen
<1> USE DEF TodayInv
<1> DEFINE Later(s, o) == o.at < s.at \/ (o.at = s.at /\ o.scan.id <= s.scan.id)
           own == {s \in sources : s.clean /\ s.at <= now /\ s.version = search.version}
<1>1. /\ now' = now /\ search' = search /\ role' = role /\ sources' = sources /\ scan' = None
      /\ scan # None
  BY DEF Finalize
<1>2. \A s \in sources : s.at \in Nat /\ s.scan.id \in Nat /\ s.scan # None
  BY NoneAssumption DEF RowsTyped, SourceRows, ScanRows
<1>3. PICK s \in CurrentSources(now) : r \in s.seen
  BY DEF Inbox, Current
<1>4. s \in own /\ search.active /\ s.scan # scan
  BY <1>3 DEF CurrentSources, Reliable
<1>5. \A o \in own : o.scan # scan /\ o.company = s.company => Later(s, o)
  BY <1>3, <1>4 DEF CurrentSources, Reliable
<1>6. Reliable(now)' = {o \in sources : o.clean /\ o.at <= now}
  BY <1>1, <1>2, <1>4 DEF Reliable
<1>7. CurrentSources(now)' = {o \in own : \A p \in own : p.company = o.company => Later(o, p)}
  BY <1>1, <1>6 DEF CurrentSources
<1>8. Reliable(now)' # {}
  BY <1>4, <1>6
<1>9. \A o \in CurrentSources(now)' : r \notin o.seen
  <2>1. Current(now)' = UNION {o.seen : o \in CurrentSources(now)'}
    BY <1>8 DEF Current
  <2>2. role[r].decision = "inbox" /\ role[r].surfaced <= now
    BY DEF Inbox
  <2>3. r \notin Current(now)'
    BY <1>1, <2>2 DEF Inbox
  <2> QED BY <2>1, <2>3
<1>10. PICK o \in own : o.company = s.company /\ ~Later(s, o)
  <2>1. s \notin CurrentSources(now)'
    BY <1>3, <1>9
  <2> QED BY <1>4, <1>7, <2>1
<1>11. o.scan = scan
  BY <1>5, <1>10
<1>12. o \in CurrentSources(now)'
  <2> SUFFICES ASSUME NEW p \in own, p.company = o.company
               PROVE  Later(o, p)
    BY <1>7
  <2>1. /\ o.at \in Nat /\ o.scan.id \in Nat /\ p.at \in Nat /\ p.scan.id \in Nat
        /\ s.at \in Nat /\ s.scan.id \in Nat
    BY <1>2, <1>4
  <2>2. CASE p.scan = scan
    <3>1. p = o
      BY <1>11, <2>2 DEF OncePerScan
    <3> QED BY <2>1, <3>1
  <2>3. CASE p.scan # scan
    <3>1. Later(s, p)
      BY <1>5, <1>10, <2>3
    <3> QED BY <1>10, <2>1, <3>1
  <2> QED BY <2>2, <2>3
<1>13. r \notin o.seen
  BY <1>9, <1>12
<1>14. Company[r] = s.company
  BY <1>3, <1>4 DEF ListedAtHome
<1> QED BY <1>10, <1>11, <1>13, <1>14

\* Nothing ever counted what a scan that ends in vain has read.
LEMMA VainChangesNothing ==
  ASSUME TodayInv, EndInVain
  PROVE  Inbox(now)' = Inbox(now)
<1>1. /\ now' = now /\ search' = search /\ role' = role /\ scan' = None /\ scan # None
      /\ sources' = {[s EXCEPT !.clean = @ /\ s.scan # scan] : s \in sources}
  BY DEF EndInVain
<1>2. \A s \in sources : /\ s.scan # None /\ s.clean \in BOOLEAN
                         /\ s = [s EXCEPT !.clean = @]
  BY NoneAssumption DEF TodayInv, RowsTyped, SourceRows, ScanRows
<1>3. Reliable(now)' = Reliable(now)
  <2>1. ASSUME NEW s, s \in Reliable(now)' PROVE s \in Reliable(now)
    <3>1. PICK o \in sources : s = [o EXCEPT !.clean = @ /\ o.scan # scan]
      BY <1>1, <2>1 DEF Reliable
    <3>2. s.clean /\ search.active /\ s.at <= now
      BY <1>1, <2>1 DEF Reliable
    <3>3. o.clean /\ o.scan # scan /\ s = o
      BY <1>2, <3>1, <3>2 DEF TodayInv, RowsTyped, SourceRows
    <3> QED BY <3>2, <3>3 DEF Reliable
  <2>2. ASSUME NEW s \in Reliable(now) PROVE s \in Reliable(now)'
    <3>1. s \in sources /\ s.clean /\ s.scan # scan /\ s.scan # None
      BY <1>2 DEF Reliable
    <3>2. s = [s EXCEPT !.clean = @ /\ s.scan # scan]
      BY <3>1 DEF TodayInv, RowsTyped, SourceRows
    <3> QED BY <1>1, <3>1, <3>2 DEF Reliable
  <2> QED BY <2>1, <2>2
<1>4. CurrentSources(now)' = CurrentSources(now)
  BY <1>1, <1>3 DEF CurrentSources
<1>5. Current(now)' = Current(now)
  BY <1>1, <1>3, <1>4 DEF Current
<1> QED BY <1>1, <1>5 DEF Inbox

LEMMA ScansEnd ==
  ASSUME TodayNext, scan # None, scan' = None
  PROVE  Finalize \/ EndInVain
BY DEF TodayNext, Load, LoadMore, Begin, EditSearch, Tick, Fetch, Decide, Judge

\* The part of LastGoodStays that holds by what counts, for any number of roles and companies:
\* sources that warned or failed, other companies and scans that ended in vain hide nothing.
THEOREM LastGoodKept == TodaySpec => LastGoodStays
<1>1. TodayInv /\ [TodayNext]_todayVars =>
        [scan # None /\ scan' = None /\ Reliable(now) # {} =>
           \A r \in Inbox(now) \ Inbox(now)' :
             \E s \in sources' :
               s.scan = scan /\ s.clean /\ s.company = Company[r] /\ r \notin s.seen]_todayVars
  <2> SUFFICES ASSUME TodayInv, TodayNext, scan # None, scan' = None, Reliable(now) # {},
                      NEW r \in Inbox(now) \ Inbox(now)'
               PROVE  \E s \in sources' :
                        s.scan = scan /\ s.clean /\ s.company = Company[r] /\ r \notin s.seen
    OBVIOUS
  <2>1. ~EndInVain
    BY VainChangesNothing
  <2>2. Finalize
    BY <2>1, ScansEnd
  <2> QED BY <2>2, ScanEnds DEF Finalize
<1> QED BY <1>1, TodayCorrect, PTL DEF LastGoodStays, TodaySpec

(***************************************************************************)
(* The parts of the assessment, named.                                     *)
(***************************************************************************)
Met == Matched(owner.resume \cup Evidenced)

MetSkills == (asks.required \cup UNION asks.alternatives) \cap (owner.resume \cup Evidenced)

Fitness ==
  Eligibility({EmploymentAlignment.verdict, LocationAlignment.verdict, Authorization, Experience})

Known == RoleAlignment.known + EmploymentAlignment.known + LocationAlignment.known
           + SeniorityAlignment.known + IF Units = 0 THEN 0 ELSE 60

Points == RoleAlignment.earned + EmploymentAlignment.earned + LocationAlignment.earned
            + SeniorityAlignment.earned

Whole == Max({1, Units}) * BackedUnits.whole

Earned == Points * Whole + 40 * Met * BackedUnits.whole + 20 * BackedUnits.part * Max({1, Units})

Scores(percent) == Known > 0 /\ 100 * Earned >= percent * Known * Whole

Sure == Confidence(Known, Fitness)

Strong == /\ Scores(70) /\ Known >= 70 /\ Fitness = "eligible"
          /\ Cardinality(MetSkills) >= 3 /\ Matched(Evidenced) >= 2

Promising == Scores(50) /\ Known >= 50 /\ Sure # "low"

Capped == \/ RoleAlignment.verdict \in {"uncertain", "adjacent"}
          \/ SeniorityAlignment.verdict = "above"
          \/ Units >= 4 /\ 10 * Met < 4 * Units
          \/ Experience = "wish"

Band == IF RoleAlignment.verdict = "conflict" \/ Fitness = "likely_ineligible" THEN "low"
        ELSE IF ~ Sufficient THEN "insufficient_data"
        ELSE IF Strong /\ ~ Capped THEN "strong"
        ELSE IF ~ Strong /\ Promising /\ ~ Capped THEN "promising"
        ELSE IF Strong \/ (Sure # "low" /\ Scores(30)) THEN "stretch"
        ELSE IF Sure # "low" THEN "low" ELSE "insufficient_data"

LEMMA JudgedParts ==
  /\ Judged = [band |-> Band, confidence |-> Sure, eligibility |-> Fitness]
  /\ Judged' = [band |-> Band', confidence |-> Sure', eligibility |-> Fitness']
BY DEF Judged, Band, Sure, Fitness, Strong, Promising, Capped, Scores, Known, Points, Whole, Earned,
       Met, MetSkills

(***************************************************************************)
(* The invariant: what is shown is the judgement of the facts of now.      *)
(***************************************************************************)
Owners == [resume : SUBSET Skills, evidence : SUBSET Evidence, quarters : Nat \cup {Unstated},
           authorized : [Countries -> Statuses \cup {Unstated}], modes : SUBSET Modes,
           employments : SUBSET Employments]

JudgedNow ==
  /\ posting \in Postings /\ asks = Read(posting.clauses)
  /\ owner \in Owners
  /\ judgement = Judged

LEMMA JudgedBegins == AssessmentInit => JudgedNow
BY DEF AssessmentInit, JudgedNow, Owners

LEMMA OwnerStays ==
  ASSUME owner \in Owners, Add
  PROVE  owner' \in Owners
<1>1. CASE \E s \in Skills \ owner.resume : owner' = [owner EXCEPT !.resume = @ \cup {s}]
  BY <1>1 DEF Owners
<1>2. CASE \E e \in Evidence \ owner.evidence : owner' = [owner EXCEPT !.evidence = @ \cup {e}]
  BY <1>2 DEF Owners
<1>3. CASE \E q \in 0..MaxQuarters : /\ owner.quarters # Unstated => q > owner.quarters
                                     /\ owner' = [owner EXCEPT !.quarters = q]
  BY <1>3, QuartersAssumption DEF Owners
<1>4. CASE \E c \in Countries, s \in Statuses :
             /\ owner.authorized[c] \notin {s, "permitted"}
             /\ owner' = [owner EXCEPT !.authorized[c] = s]
  BY <1>4 DEF Owners
<1>5. CASE \E m \in Modes \ owner.modes : owner' = [owner EXCEPT !.modes = @ \cup {m}]
  BY <1>5 DEF Owners
<1>6. CASE \E e \in Employments \ owner.employments :
             owner' = [owner EXCEPT !.employments = @ \cup {e}]
  BY <1>6 DEF Owners
<1> QED BY <1>1, <1>2, <1>3, <1>4, <1>5, <1>6 DEF Add

LEMMA JudgedStays == JudgedNow /\ [AssessmentNext]_assessmentVars => JudgedNow'
<1>1. ASSUME JudgedNow, AssessmentNext PROVE JudgedNow'
  BY <1>1, OwnerStays DEF JudgedNow, AssessmentNext
<1>2. ASSUME JudgedNow, UNCHANGED assessmentVars PROVE JudgedNow'
  <2>1. /\ posting' = posting /\ target' = target /\ asks' = asks /\ owner' = owner
        /\ judgement' = judgement
    BY <1>2 DEF assessmentVars
  <2>2. Judged' = Judged
    <3>1. TargetCountries' = TargetCountries /\ Units' = Units /\ Evidenced' = Evidenced
      BY <2>1 DEF TargetCountries, Units, Evidenced
    <3>2. /\ RoleAlignment' = RoleAlignment /\ EmploymentAlignment' = EmploymentAlignment
          /\ LocationAlignment' = LocationAlignment /\ SeniorityAlignment' = SeniorityAlignment
      BY <2>1, <3>1 DEF RoleAlignment, EmploymentAlignment, LocationAlignment, SeniorityAlignment
    <3>3. /\ Authorization' = Authorization /\ Experience' = Experience
          /\ Sufficient' = Sufficient
      BY <2>1, <3>1 DEF Authorization, Experience, Sufficient, Signals
    <3>4. /\ Matched(Evidenced)' = Matched(Evidenced) /\ Met' = Met /\ MetSkills' = MetSkills
          /\ BackedUnits' = BackedUnits
      BY <2>1, <3>1 DEF Matched, Met, MetSkills, BackedUnits
    <3>5. Fitness' = Fitness /\ Known' = Known /\ Points' = Points
      BY <3>1, <3>2, <3>3 DEF Fitness, Known, Points
    <3>6. Whole' = Whole /\ Earned' = Earned
      BY <3>1, <3>4, <3>5 DEF Whole, Earned
    <3>7. Sure' = Sure
      BY <2>1, <3>1, <3>5 DEF Sure, Confidence, Signals, Sufficient
    <3>8. Strong' = Strong /\ Promising' = Promising /\ Capped' = Capped
      BY <3>1, <3>2, <3>3, <3>4, <3>5, <3>6, <3>7 DEF Strong, Promising, Capped, Scores
    <3>9. Scores(30)' = Scores(30)
      BY <3>5, <3>6 DEF Scores
    <3>10. Band' = Band
      BY <3>2, <3>3, <3>5, <3>7, <3>8, <3>9 DEF Band
    <3> QED BY <3>5, <3>7, <3>10, JudgedParts
  <2> QED BY <1>2, <2>1, <2>2 DEF JudgedNow
<1> QED BY <1>1, <1>2

THEOREM JudgedCorrect == AssessmentSpec => []JudgedNow
BY JudgedBegins, JudgedStays, PTL DEF AssessmentSpec

(***************************************************************************)
(* Extremes of finite sets of numbers.                                     *)
(***************************************************************************)
LEMMA Greatest ==
  ASSUME NEW S \in SUBSET Int, IsFiniteSet(S), S # {}
  PROVE  Max(S) \in S /\ \A y \in S : Max(S) >= y
<1> DEFINE n == Cardinality(S)
           before(x) == {y \in S : y < x}
           place == [x \in S |-> Cardinality(before(x)) + 1]
<1>1. n \in Nat
  BY FS_CardinalityType
<1>2. ASSUME NEW x \in S
      PROVE  IsFiniteSet(before(x)) /\ Cardinality(before(x)) \in Nat /\ Cardinality(before(x)) < n
  <2>1. before(x) \in SUBSET S /\ x \notin before(x)
    OBVIOUS
  <2> HIDE DEF before
  <2>2. /\ IsFiniteSet(before(x)) /\ Cardinality(before(x)) <= n
        /\ n = Cardinality(before(x)) => S = before(x)
    BY <2>1, FS_Subset
  <2>3. Cardinality(before(x)) \in Nat
    BY <2>2, FS_CardinalityType
  <2> HIDE DEF n
  <2> QED BY <1>1, <2>1, <2>2, <2>3
<1>3. ASSUME NEW x \in S, NEW y \in S, x < y
      PROVE  Cardinality(before(x)) < Cardinality(before(y))
  <2>1. before(x) \in SUBSET before(y) /\ x \in before(y) /\ x \notin before(x)
    <3>1. \A z \in S : z \in Int /\ (z < x => z < y)
      BY <1>3
    <3>2. \A z \in before(x) : z \in S /\ z < y
      BY <3>1
    <3>3. x \in before(y) /\ x \notin before(x)
      BY <1>3
    <3> QED BY <3>2, <3>3
  <2>2. IsFiniteSet(before(y)) /\ Cardinality(before(x)) \in Nat /\ Cardinality(before(y)) \in Nat
    BY <1>2
  <2> HIDE DEF before
  <2>3. /\ Cardinality(before(x)) <= Cardinality(before(y))
        /\ Cardinality(before(y)) = Cardinality(before(x)) => before(y) = before(x)
    BY <2>1, <2>2, FS_Subset
  <2> QED BY <2>1, <2>2, <2>3
<1>4. place \in [S -> 1..n]
  BY <1>1, <1>2
<1>5. ASSUME NEW x \in S, NEW y \in S, x # y
      PROVE  place[x] # place[y]
  <2>1. x < y \/ y < x
    BY <1>5
  <2>2. Cardinality(before(x)) # Cardinality(before(y))
    BY <1>2, <1>3, <2>1
  <2>3. Cardinality(before(x)) \in Nat /\ Cardinality(before(y)) \in Nat
    BY <1>2
  <2> HIDE DEF before
  <2> QED BY <2>2, <2>3
<1>6. place \in Injection(S, 1..n)
  BY <1>4, <1>5 DEF Injection, IsInjective
<1>7. IsFiniteSet(1..n) /\ Cardinality(1..n) = n
  BY <1>1, FS_Interval
<1>8. place \in Surjection(S, 1..n)
  BY <1>6, <1>7, FS_Injection
<1>9. n \in 1..n
  BY <1>1, FS_EmptySet
<1>10. PICK m \in S : place[m] = n
  BY <1>8, <1>9 DEF Surjection
<1>11. \A y \in S : m >= y
  <2> SUFFICES ASSUME NEW y \in S, y > m PROVE FALSE
    OBVIOUS
  <2>1. Cardinality(before(m)) < Cardinality(before(y)) /\ Cardinality(before(y)) < n
    BY <1>2, <1>3
  <2>2. Cardinality(before(m)) + 1 = n
    BY <1>10
  <2>3. Cardinality(before(m)) \in Nat /\ Cardinality(before(y)) \in Nat
    BY <1>2
  <2> HIDE DEF before, n
  <2> QED BY <1>1, <2>1, <2>2, <2>3
<1> HIDE DEF place, before, n
<1> QED BY <1>11 DEF Max

LEMMA GreatestOfTwo ==
  ASSUME NEW u \in Nat
  PROVE  Max({1, u}) \in Nat /\ Max({1, u}) >= 1 /\ Max({1, u}) >= u
<1>1. {1, u} \in SUBSET Int /\ {1, u} # {}
  OBVIOUS
<1>2. IsFiniteSet({1, u})
  <2>1. IsFiniteSet({1}) /\ {1, u} = {1} \cup {u}
    BY FS_Singleton
  <2> QED BY <2>1, FS_AddElement
<1> QED BY <1>1, <1>2, Greatest

LEMMA LeastOfTwo ==
  ASSUME NEW u \in Nat, NEW v \in Nat
  PROVE  Min({u, v}) = IF u <= v THEN u ELSE v
<1> DEFINE m == IF u <= v THEN u ELSE v
<1>1. m \in {u, v} /\ \A y \in {u, v} : m <= y
  OBVIOUS
<1>2. \A x \in {u, v} : (\A y \in {u, v} : x <= y) => x = m
  OBVIOUS
<1>3. Min({u, v}) = CHOOSE x \in {u, v} : \A y \in {u, v} : x <= y
  BY DEF Min
<1> HIDE DEF m
<1>4. Min({u, v}) = m
  BY <1>1, <1>2, <1>3
<1> QED BY <1>4 DEF m

(***************************************************************************)
(* What a step of growth does to the parts.                                *)
(***************************************************************************)
Growth ==
  /\ JudgedNow
  /\ posting' = posting /\ target' = target /\ asks' = asks
  /\ owner.resume \subseteq owner'.resume /\ owner.evidence \subseteq owner'.evidence
  /\ owner.modes \subseteq owner'.modes /\ (owner.modes = {} <=> owner'.modes = {})
  /\ owner.employments \subseteq owner'.employments
  /\ owner.employments = {} <=> owner'.employments = {}
  /\ \/ owner'.quarters = owner.quarters
     \/ /\ owner.quarters # Unstated /\ owner'.quarters # Unstated
        /\ owner.quarters \in Nat /\ owner'.quarters \in Nat /\ owner.quarters <= owner'.quarters
  /\ \A c \in Countries : owner'.authorized[c] \in {owner.authorized[c], "permitted"}

LEMMA AddGrows ==
  ASSUME JudgedNow, AssessmentNext, Grown(owner, owner')
  PROVE  Growth
<1>1. posting' = posting /\ target' = target /\ asks' = asks /\ Add /\ owner \in Owners
  BY DEF AssessmentNext, JudgedNow
<1>2. /\ owner.resume \subseteq owner'.resume /\ owner.evidence \subseteq owner'.evidence
      /\ owner.modes \subseteq owner'.modes /\ owner.employments \subseteq owner'.employments
      /\ \/ owner'.quarters = owner.quarters
         \/ \E q \in 0..MaxQuarters : /\ owner.quarters # Unstated => q > owner.quarters
                                      /\ owner'.quarters = q
  <2>1. CASE \E s \in Skills \ owner.resume : owner' = [owner EXCEPT !.resume = @ \cup {s}]
    BY <1>1, <2>1 DEF Owners
  <2>2. CASE \E e \in Evidence \ owner.evidence : owner' = [owner EXCEPT !.evidence = @ \cup {e}]
    BY <1>1, <2>2 DEF Owners
  <2>3. CASE \E q \in 0..MaxQuarters : /\ owner.quarters # Unstated => q > owner.quarters
                                       /\ owner' = [owner EXCEPT !.quarters = q]
    BY <1>1, <2>3 DEF Owners
  <2>4. CASE \E c \in Countries, s \in Statuses :
               /\ owner.authorized[c] \notin {s, "permitted"}
               /\ owner' = [owner EXCEPT !.authorized[c] = s]
    BY <1>1, <2>4 DEF Owners
  <2>5. CASE \E m \in Modes \ owner.modes : owner' = [owner EXCEPT !.modes = @ \cup {m}]
    BY <1>1, <2>5 DEF Owners
  <2>6. CASE \E e \in Employments \ owner.employments :
               owner' = [owner EXCEPT !.employments = @ \cup {e}]
    BY <1>1, <2>6 DEF Owners
  <2> QED BY <1>1, <2>1, <2>2, <2>3, <2>4, <2>5, <2>6 DEF Add
<1>3. /\ owner.quarters = Unstated <=> owner'.quarters = Unstated
      /\ owner.modes = {} <=> owner'.modes = {}
      /\ owner.employments = {} <=> owner'.employments = {}
      /\ \A c \in Countries : owner'.authorized[c] \in {owner.authorized[c], "permitted"}
  BY DEF Grown
<1>4. \/ owner'.quarters = owner.quarters
      \/ /\ owner.quarters # Unstated /\ owner'.quarters # Unstated
         /\ owner.quarters \in Nat /\ owner'.quarters \in Nat /\ owner.quarters <= owner'.quarters
  <2>1. ASSUME NEW q \in 0..MaxQuarters, owner.quarters # Unstated => q > owner.quarters,
               owner'.quarters = q
        PROVE  \/ owner'.quarters = owner.quarters
               \/ /\ owner.quarters # Unstated /\ owner'.quarters # Unstated
                  /\ owner.quarters \in Nat /\ owner'.quarters \in Nat
                  /\ owner.quarters <= owner'.quarters
    <3>1. CASE owner.quarters = Unstated
      BY <1>3, <3>1
    <3>2. CASE owner.quarters # Unstated
      <4>1. owner.quarters \in Nat /\ q \in Nat
        BY <1>1, <3>2, QuartersAssumption DEF Owners
      <4> QED BY <1>3, <2>1, <3>2, <4>1
    <3> QED BY <3>1, <3>2
  <2> QED BY <1>2, <2>1
<1> QED BY <1>1, <1>2, <1>3, <1>4 DEF Growth

LEMMA RolePart ==
  /\ RoleAlignment.known \in {0, 30} /\ RoleAlignment.earned \in {0, 20, 30}
  /\ Growth => RoleAlignment' = RoleAlignment
<1>1. RoleAlignment.known \in {0, 30} /\ RoleAlignment.earned \in {0, 20, 30}
  BY DEF RoleAlignment, Part
<1>2. Growth => RoleAlignment' = RoleAlignment
  BY DEF Growth, RoleAlignment
<1> QED BY <1>1, <1>2

LEMMA SeniorityPart ==
  /\ SeniorityAlignment.known \in {0, 2} /\ SeniorityAlignment.earned \in {0, 2}
  /\ Growth => SeniorityAlignment' = SeniorityAlignment
<1>1. SeniorityAlignment.known \in {0, 2} /\ SeniorityAlignment.earned \in {0, 2}
  BY DEF SeniorityAlignment, Part
<1>2. Growth => SeniorityAlignment' = SeniorityAlignment
  BY DEF Growth, SeniorityAlignment
<1> QED BY <1>1, <1>2

LEMMA EmploymentPart ==
  /\ EmploymentAlignment.known \in {0, 4} /\ EmploymentAlignment.earned \in {0, 4}
  /\ EmploymentAlignment.verdict \in {"fits", "unknown", "conflict"}
  /\ Growth =>
       /\ EmploymentAlignment'.known = EmploymentAlignment.known
       /\ \/ EmploymentAlignment' = EmploymentAlignment
          \/ /\ EmploymentAlignment.verdict = "conflict"
             /\ EmploymentAlignment'.verdict = "fits"
<1>1. /\ EmploymentAlignment.known \in {0, 4} /\ EmploymentAlignment.earned \in {0, 4}
      /\ EmploymentAlignment.verdict \in {"fits", "unknown", "conflict"}
  BY DEF EmploymentAlignment, Part
<1>2. Growth => /\ EmploymentAlignment'.known = EmploymentAlignment.known
                /\ \/ EmploymentAlignment' = EmploymentAlignment
                   \/ /\ EmploymentAlignment.verdict = "conflict"
                      /\ EmploymentAlignment'.verdict = "fits"
  BY DEF Growth, EmploymentAlignment, Part
<1> QED BY <1>1, <1>2

\* A place that was out of the question may turn out one of which nothing is known.
LEMMA LocationPart ==
  /\ LocationAlignment.known \in {0, 4} /\ LocationAlignment.earned \in {0, 4}
  /\ LocationAlignment.verdict \in {"fits", "unknown", "conflict"}
  /\ LocationAlignment'.known \in {0, 4}
  /\ Growth =>
       \/ LocationAlignment' = LocationAlignment
       \/ /\ LocationAlignment.verdict = "conflict"
          /\ LocationAlignment'.verdict \in {"fits", "unknown"}
<1> DEFINE wrong == \/ /\ posting.place.modes # {} /\ owner.modes # {}
                       /\ posting.place.modes \cap owner.modes = {}
                    \/ /\ posting.place.countries # {} /\ TargetCountries # {}
                       /\ posting.place.countries \cap TargetCountries = {}
           right == \/ posting.place.countries \cap TargetCountries # {}
                    \/ \E p \in target.places : p.name \in posting.place.named
           part(w, r) == IF ~ posting.place.given THEN Part(0, 0, "unknown")
                         ELSE IF w THEN Part(0, 4, "conflict")
                         ELSE IF r THEN Part(4, 4, "fits") ELSE Part(0, 0, "unknown")
<1>1. LocationAlignment = part(wrong, right)
  BY DEF LocationAlignment
<1>2. \A w, r \in BOOLEAN : /\ part(w, r).known \in {0, 4} /\ part(w, r).earned \in {0, 4}
                            /\ part(w, r).verdict \in {"fits", "unknown", "conflict"}
  BY DEF Part
<1>3. /\ LocationAlignment.known \in {0, 4} /\ LocationAlignment.earned \in {0, 4}
      /\ LocationAlignment.verdict \in {"fits", "unknown", "conflict"}
  BY DEF LocationAlignment, Part
<1>4. LocationAlignment'.known \in {0, 4}
  BY DEF LocationAlignment, Part
<1>5. ASSUME Growth
      PROVE  \/ LocationAlignment' = LocationAlignment
             \/ /\ LocationAlignment.verdict = "conflict"
                /\ LocationAlignment'.verdict \in {"fits", "unknown"}
  <2>1. posting' = posting /\ target' = target /\ TargetCountries' = TargetCountries
    BY <1>5 DEF Growth, TargetCountries
  <2>2. right' = right
    BY <2>1
  <2>3. wrong' => wrong
    BY <1>5, <2>1 DEF Growth
  <2>4. LocationAlignment' = part(wrong, right)'
    BY DEF LocationAlignment
  <2> HIDE DEF wrong, right
  <2> QED BY <1>1, <2>1, <2>2, <2>3, <2>4 DEF Part
<1> QED BY <1>3, <1>4, <1>5

LEMMA AuthorizationPart ==
  /\ Authorization \in {"fits", "unknown", "conflict"}
  /\ Growth => Authorization' = Authorization \/ Authorization' = "fits"
<1> DEFINE open == IF TargetCountries = {} THEN posting.place.countries
                   ELSE posting.place.countries \cap TargetCountries
           has(s) == \E c \in open : owner.authorized[c] \in s
<1>1. Authorization = IF open = {} \/ has({"permitted"}) THEN "fits"
                      ELSE IF has({Unstated, "needs_sponsorship"}) THEN "unknown" ELSE "conflict"
  BY DEF Authorization
<1>2. ASSUME Growth
      PROVE  Authorization' = Authorization \/ Authorization' = "fits"
  <2>1. open' = open
    BY <1>2 DEF Growth, TargetCountries
  <2>2. \A c \in open : owner'.authorized[c] \in {owner.authorized[c], "permitted"}
    BY <1>2, PostingsAssumption DEF Growth, JudgedNow
  <2>3. Authorization' =
          IF open' = {} \/ has({"permitted"})' THEN "fits"
          ELSE IF has({Unstated, "needs_sponsorship"})' THEN "unknown" ELSE "conflict"
    BY DEF Authorization
  <2> HIDE DEF open
  <2>4. CASE \E c \in open : owner'.authorized[c] = "permitted"
    BY <2>1, <2>3, <2>4
  <2>5. CASE ~ \E c \in open : owner'.authorized[c] = "permitted"
    <3>1. \A c \in open : owner'.authorized[c] = owner.authorized[c]
      BY <2>2, <2>5
    <3>2. has({"permitted"})' = has({"permitted"})
      BY <2>1, <3>1
    <3>3. has({Unstated, "needs_sponsorship"})' = has({Unstated, "needs_sponsorship"})
      BY <2>1, <3>1
    <3> HIDE DEF has
    <3> QED BY <1>1, <2>1, <2>3, <3>2, <3>3
  <2> QED BY <2>4, <2>5
<1> HIDE DEF has, open
<1> QED BY <1>1, <1>2

LEMMA YearsAsked ==
  ASSUME JudgedNow
  PROVE  asks.years.quarters \in Nat
<1> DEFINE clauses == posting.clauses
           asked == {i \in DOMAIN clauses : clauses[i].quarters # 0}
           firm  == {i \in asked : ~ clauses[i].negated
                       /\ (clauses[i].firm \/ ~ (Soft(clauses, i) \/ clauses[i].wished))}
           from  == IF firm # {} THEN firm ELSE asked
           counts == {clauses[i].quarters : i \in from}
           of == [i \in from |-> clauses[i].quarters]
<1>1. asks.years.quarters = Max(counts \cup {0})
  BY DEF JudgedNow, Read, Years
<1>2. IsFiniteSet(DOMAIN clauses) /\ \A i \in DOMAIN clauses : clauses[i].quarters \in Nat
  BY PostingsAssumption DEF JudgedNow
<1>3. from \in SUBSET DOMAIN clauses
  OBVIOUS
<1> HIDE DEF from, clauses
<1>4. IsFiniteSet(from)
  BY <1>2, <1>3, FS_Subset
<1>5. of \in Surjection(from, counts)
  BY DEF Surjection
<1>6. IsFiniteSet(counts)
  BY <1>4, <1>5, FS_Surjection
<1>7. IsFiniteSet(counts \cup {0})
  BY <1>6, FS_AddElement
<1>8. counts \cup {0} \in SUBSET Nat /\ counts \cup {0} # {}
  BY <1>2, <1>3
<1> HIDE DEF counts
<1>9. Max(counts \cup {0}) \in counts \cup {0}
  BY <1>7, <1>8, Greatest
<1> QED BY <1>1, <1>8, <1>9

LEMMA ExperiencePart ==
  /\ Experience \in {"fits", "unknown", "conflict", "wish"}
  /\ Growth => Experience' = Experience \/ Experience' = "fits"
<1>1. Experience \in {"fits", "unknown", "conflict", "wish"}
  BY DEF Experience
<1>2. ASSUME Growth
      PROVE  Experience' = Experience \/ Experience' = "fits"
  <2>1. asks.years.quarters \in Nat /\ asks' = asks
    BY <1>2, YearsAsked DEF Growth
  <2>2. CASE owner'.quarters = owner.quarters
    BY <2>1, <2>2 DEF Experience
  <2>3. CASE /\ owner.quarters # Unstated /\ owner'.quarters # Unstated
             /\ owner.quarters \in Nat /\ owner'.quarters \in Nat
             /\ owner.quarters <= owner'.quarters
    BY <2>1, <2>3 DEF Experience
  <2> QED BY <1>2, <2>2, <2>3 DEF Growth
<1> QED BY <1>1, <1>2

(***************************************************************************)
(* What is counted.                                                        *)
(***************************************************************************)
LEMMA AskedFinite ==
  ASSUME JudgedNow
  PROVE  /\ IsFiniteSet(asks.required) /\ IsFiniteSet(asks.alternatives)
         /\ IsFiniteSet(asks.required \cup UNION asks.alternatives)
         /\ Units \in Nat
<1> DEFINE clauses == posting.clauses
           asking == Asking(clauses)
           named == {clauses[i].skills \ clauses[i].either : i \in asking}
           nameOf == [i \in asking |-> clauses[i].skills \ clauses[i].either]
           groups == {clauses[i].either \ RequiredSkills(clauses) : i \in asking}
           groupOf == [i \in asking |-> clauses[i].either \ RequiredSkills(clauses)]
<1>1. /\ asks.required = UNION named
      /\ asks.alternatives = {g \in groups : Cardinality(g) >= 2}
  BY DEF JudgedNow, Read, RequiredSkills, Alternatives
<1>2. /\ IsFiniteSet(DOMAIN clauses)
      /\ \A i \in DOMAIN clauses : IsFiniteSet(clauses[i].skills) /\ IsFiniteSet(clauses[i].either)
  BY PostingsAssumption DEF JudgedNow
<1>3. asking \in SUBSET DOMAIN clauses
  BY DEF Asking
<1> HIDE DEF clauses, asking
<1>4. IsFiniteSet(asking)
  BY <1>2, <1>3, FS_Subset
<1>5. nameOf \in Surjection(asking, named) /\ groupOf \in Surjection(asking, groups)
  BY DEF Surjection
<1>6. IsFiniteSet(named) /\ IsFiniteSet(groups)
  BY <1>4, <1>5, FS_Surjection
<1>7. \A s \in named : IsFiniteSet(s)
  <2> SUFFICES ASSUME NEW i \in asking PROVE IsFiniteSet(clauses[i].skills \ clauses[i].either)
    OBVIOUS
  <2>1. IsFiniteSet(clauses[i].skills)
    BY <1>2, <1>3
  <2>2. clauses[i].skills \ clauses[i].either \in SUBSET clauses[i].skills
    OBVIOUS
  <2> QED BY <2>1, <2>2, FS_Subset
<1>8. \A g \in groups : IsFiniteSet(g)
  <2> SUFFICES ASSUME NEW i \in asking
               PROVE  IsFiniteSet(clauses[i].either \ RequiredSkills(clauses))
    OBVIOUS
  <2>1. IsFiniteSet(clauses[i].either)
    BY <1>2, <1>3
  <2>2. clauses[i].either \ RequiredSkills(clauses) \in SUBSET clauses[i].either
    OBVIOUS
  <2> QED BY <2>1, <2>2, FS_Subset
<1> HIDE DEF named, groups
<1>9. IsFiniteSet(asks.required)
  BY <1>1, <1>6, <1>7, FS_UNION
<1>10. asks.alternatives \in SUBSET groups
  BY <1>1
<1>11. IsFiniteSet(asks.alternatives)
  BY <1>6, <1>10, FS_Subset
<1>12. \A g \in asks.alternatives : IsFiniteSet(g)
  BY <1>8, <1>10
<1>13. IsFiniteSet(UNION asks.alternatives)
  BY <1>11, <1>12, FS_UNION
<1>14. IsFiniteSet(asks.required \cup UNION asks.alternatives)
  BY <1>9, <1>13, FS_Union
<1>15. Cardinality(asks.required) \in Nat /\ Cardinality(asks.alternatives) \in Nat
  BY <1>9, <1>11, FS_CardinalityType
<1> QED BY <1>9, <1>11, <1>14, <1>15 DEF Units

LEMMA CountGrows ==
  ASSUME NEW S, IsFiniteSet(S), NEW A \in SUBSET S, NEW B \in SUBSET S, A \subseteq B
  PROVE  Cardinality(A) \in Nat /\ Cardinality(B) \in Nat /\ Cardinality(A) <= Cardinality(B)
<1>1. IsFiniteSet(B)
  BY FS_Subset
<1>2. IsFiniteSet(A) /\ Cardinality(A) <= Cardinality(B)
  BY <1>1, FS_Subset
<1> QED BY <1>1, <1>2, FS_CardinalityType

\* More skills match no less.
LEMMA MatchedGrows ==
  ASSUME JudgedNow, NEW A, NEW B, A \subseteq B
  PROVE  Matched(A) \in Nat /\ Matched(B) \in Nat /\ Matched(A) <= Matched(B)
<1> DEFINE units(S) == {g \in asks.alternatives : g \cap S # {}}
<1>1. /\ Cardinality(asks.required \cap A) \in Nat /\ Cardinality(asks.required \cap B) \in Nat
      /\ Cardinality(asks.required \cap A) <= Cardinality(asks.required \cap B)
  <2>1. /\ asks.required \cap A \in SUBSET asks.required
        /\ asks.required \cap B \in SUBSET asks.required
        /\ asks.required \cap A \subseteq asks.required \cap B
    OBVIOUS
  <2> QED BY <2>1, AskedFinite, CountGrows
<1>2. /\ Cardinality(units(A)) \in Nat /\ Cardinality(units(B)) \in Nat
      /\ Cardinality(units(A)) <= Cardinality(units(B))
  <2>1. /\ units(A) \in SUBSET asks.alternatives /\ units(B) \in SUBSET asks.alternatives
        /\ units(A) \subseteq units(B)
    OBVIOUS
  <2> HIDE DEF units
  <2> QED BY <2>1, AskedFinite, CountGrows
<1>3. /\ Matched(A) = Cardinality(asks.required \cap A) + Cardinality(units(A))
      /\ Matched(B) = Cardinality(asks.required \cap B) + Cardinality(units(B))
  BY DEF Matched
<1> HIDE DEF units
<1> QED BY <1>1, <1>2, <1>3

LEMMA CountsGrow ==
  ASSUME Growth
  PROVE  /\ Units \in Nat /\ Units' = Units
         /\ Met \in Nat /\ Met' \in Nat /\ Met <= Met'
         /\ Matched(Evidenced) \in Nat /\ Matched(Evidenced)' \in Nat
         /\ Matched(Evidenced) <= Matched(Evidenced)'
         /\ Cardinality(MetSkills) \in Nat /\ Cardinality(MetSkills)' \in Nat
         /\ Cardinality(MetSkills) <= Cardinality(MetSkills)'
<1>1. JudgedNow /\ asks' = asks
  BY DEF Growth
<1>2. Evidenced \subseteq Evidenced'
  BY DEF Growth, Evidenced
<1>3. owner.resume \cup Evidenced \subseteq owner'.resume \cup Evidenced'
  BY <1>2 DEF Growth
<1>4. Matched(Evidenced)' = Matched(Evidenced') /\ Met' = Matched(owner'.resume \cup Evidenced')
  BY <1>1 DEF Matched, Met
<1>5. Met \in Nat /\ Met' \in Nat /\ Met <= Met'
  BY <1>1, <1>3, <1>4, MatchedGrows DEF Met
<1>6. /\ Matched(Evidenced) \in Nat /\ Matched(Evidenced)' \in Nat
      /\ Matched(Evidenced) <= Matched(Evidenced)'
  BY <1>1, <1>2, <1>4, MatchedGrows
<1>7. /\ Cardinality(MetSkills) \in Nat /\ Cardinality(MetSkills)' \in Nat
      /\ Cardinality(MetSkills) <= Cardinality(MetSkills)'
  <2> DEFINE all == asks.required \cup UNION asks.alternatives
  <2>1. /\ MetSkills \in SUBSET all /\ MetSkills' \in SUBSET all
        /\ MetSkills \subseteq MetSkills'
    BY <1>1, <1>3 DEF MetSkills
  <2>2. IsFiniteSet(all)
    BY <1>1, AskedFinite
  <2> HIDE DEF all
  <2> QED BY <2>1, <2>2, CountGrows
<1>8. Units \in Nat /\ Units' = Units
  BY <1>1, AskedFinite DEF Units
<1> QED BY <1>5, <1>6, <1>7, <1>8

LEMMA BackingGrows ==
  ASSUME Growth
  PROVE  /\ BackedUnits.whole \in Nat /\ BackedUnits'.whole = BackedUnits.whole
         /\ BackedUnits.part \in Nat /\ BackedUnits'.part \in Nat
         /\ BackedUnits.part <= BackedUnits'.part
<1> DEFINE whole == Max({1, Min({3, Units})})
           m == Matched(Evidenced)
<1>1. BackedUnits = [part |-> Min({whole, m}), whole |-> whole]
  BY DEF BackedUnits
<1>2. BackedUnits' = [part |-> Min({whole', m'}), whole |-> whole']
  BY DEF BackedUnits
<1>3. Units \in Nat /\ Units' = Units /\ m \in Nat /\ m' \in Nat /\ m <= m'
  BY CountsGrow
<1>4. whole' = whole
  BY <1>3
<1>5. Min({3, Units}) \in Nat
  BY <1>3, LeastOfTwo
<1>6. whole \in Nat
  BY <1>5, GreatestOfTwo
<1> HIDE DEF whole, m
<1>7. /\ Min({whole, m}) = IF whole <= m THEN whole ELSE m
      /\ Min({whole, m'}) = IF whole <= m' THEN whole ELSE m'
  BY <1>3, <1>6, LeastOfTwo
<1> QED BY <1>1, <1>2, <1>3, <1>4, <1>6, <1>7

(***************************************************************************)
(* The verdicts.                                                           *)
(***************************************************************************)
FitnessVerdicts == {"eligible", "uncertain", "likely_ineligible"}

\* Nothing that spoke for the owner is lost, and where nothing spoke against, all stays known.
LEMMA FitnessGrows ==
  ASSUME Growth
  PROVE  /\ Fitness \in FitnessVerdicts /\ Fitness' \in FitnessVerdicts
         /\ Fitness # "likely_ineligible" =>
              /\ Fitness' # "likely_ineligible"
              /\ Fitness = "eligible" => Fitness' = "eligible"
              /\ EmploymentAlignment' = EmploymentAlignment
              /\ LocationAlignment' = LocationAlignment
<1> DEFINE e == EmploymentAlignment.verdict
           l == LocationAlignment.verdict
           a == Authorization
           x == Experience
<1>1. Fitness = Eligibility({e, l, a, x}) /\ Fitness' = Eligibility({e', l', a', x'})
  BY DEF Fitness
<1>2. \A s : Eligibility(s) \in FitnessVerdicts
  BY DEF Eligibility, FitnessVerdicts
<1>3. /\ EmploymentAlignment' = EmploymentAlignment \/ (e = "conflict" /\ e' = "fits")
      /\ LocationAlignment' = LocationAlignment
           \/ (l = "conflict" /\ l' \in {"fits", "unknown"})
      /\ a' = a \/ a' = "fits"
      /\ x' = x \/ x' = "fits"
  BY EmploymentPart, LocationPart, AuthorizationPart, ExperiencePart
<1>4. e' = e \/ (e = "conflict" /\ e' = "fits")
  BY <1>3
<1>5. l' = l \/ (l = "conflict" /\ l' \in {"fits", "unknown"})
  BY <1>3
<1> HIDE DEF e, l, a, x
<1>6. ASSUME Fitness # "likely_ineligible"
      PROVE  /\ Fitness' # "likely_ineligible"
             /\ Fitness = "eligible" => Fitness' = "eligible"
             /\ e # "conflict" /\ l # "conflict"
  BY <1>1, <1>3, <1>4, <1>5, <1>6 DEF Eligibility
<1> QED BY <1>1, <1>2, <1>3, <1>6

\* A part that is no longer known never decides about the confidence.
LEMMA KnownGrows ==
  ASSUME Growth
  PROVE  /\ Known \in Nat /\ Known' \in Nat
         /\ Known >= 80 <=> Known' >= 80
         /\ Known >= 50 <=> Known' >= 50
         /\ Fitness # "likely_ineligible" => Known' = Known /\ Points' = Points
         /\ Points \in Nat
<1> DEFINE units == IF Units = 0 THEN 0 ELSE 60
           r == RoleAlignment.known
           e == EmploymentAlignment.known
           l == LocationAlignment.known
           s == SeniorityAlignment.known
<1>1. /\ r \in {0, 30} /\ e \in {0, 4} /\ l \in {0, 4} /\ l' \in {0, 4} /\ s \in {0, 2}
      /\ r' = r /\ e' = e /\ s' = s
  BY RolePart, EmploymentPart, LocationPart, SeniorityPart
<1>2. units \in {0, 60} /\ units' = units
  BY CountsGrow
<1>3. Known = r + e + l + s + units /\ Known' = r' + e' + l' + s' + units'
  BY DEF Known
<1>4. Points \in Nat
  BY RolePart, EmploymentPart, LocationPart, SeniorityPart DEF Points
<1>5. Fitness # "likely_ineligible" => Known' = Known /\ Points' = Points
  BY <1>1, <1>2, <1>3, FitnessGrows, RolePart, SeniorityPart DEF Points
<1> HIDE DEF units, r, e, l, s
<1>6. PICK b \in {0, 2, 4, 6, 30, 32, 34, 36, 60, 62, 64, 66, 90, 92, 94, 96},
           v \in {0, 4}, w \in {0, 4} : Known = b + v /\ Known' = b + w
  <2>1. r + e + s + units \in {0, 2, 4, 6, 30, 32, 34, 36, 60, 62, 64, 66, 90, 92, 94, 96}
    BY <1>1, <1>2
  <2>2. Known = (r + e + s + units) + l /\ Known' = (r + e + s + units) + l'
    BY <1>1, <1>2, <1>3
  <2> QED BY <1>1, <2>1, <2>2
<1>7. Known \in Nat /\ Known' \in Nat
  BY <1>6
<1>8. /\ b + v >= 80 <=> b + w >= 80
      /\ b + v >= 50 <=> b + w >= 50
  OBVIOUS
<1>9. /\ Known >= 80 <=> Known' >= 80
      /\ Known >= 50 <=> Known' >= 50
  BY <1>6, <1>8
<1> QED BY <1>4, <1>5, <1>7, <1>9

LEMMA SufficientStays ==
  ASSUME Growth
  PROVE  /\ Sufficient' = Sufficient /\ (Signals >= 3)' = (Signals >= 3)
         /\ (posting.length >= 400)' = (posting.length >= 400)
BY CountsGrow DEF Growth, Sufficient, Signals

(***************************************************************************)
(* The score, the confidence and the band.                                 *)
(***************************************************************************)
LEMMA EarnsMore ==
  ASSUME Growth, Points' = Points
  PROVE  /\ Whole \in Nat /\ Whole' = Whole
         /\ Earned \in Nat /\ Earned' \in Nat /\ Earned <= Earned'
<1> DEFINE mu == Max({1, Units})
           bw == BackedUnits.whole
           bp == BackedUnits.part
<1>1. mu \in Nat /\ mu' = mu
  BY CountsGrow, GreatestOfTwo
<1>2. bw \in Nat /\ bw' = bw /\ bp \in Nat /\ bp' \in Nat /\ bp <= bp'
  BY BackingGrows
<1>3. Met \in Nat /\ Met' \in Nat /\ Met <= Met' /\ Points \in Nat
  BY CountsGrow, KnownGrows
<1>4. /\ Whole = mu * bw /\ Whole' = mu' * bw'
      /\ Earned = Points * Whole + 40 * Met * bw + 20 * bp * mu
      /\ Earned' = Points' * Whole' + 40 * Met' * bw' + 20 * bp' * mu'
  BY DEF Whole, Earned
<1> HIDE DEF mu, bw, bp
<1>5. Whole \in Nat /\ Whole' = Whole
  BY <1>1, <1>2, <1>4
<1>6. \A u, v, w \in Nat :
        u <= v => u * w \in Nat /\ v * w \in Nat /\ u * w <= v * w
  OBVIOUS
<1>7. Met * bw \in Nat /\ Met' * bw \in Nat /\ Met * bw <= Met' * bw
  BY <1>2, <1>3, <1>6
<1>8. bp * mu \in Nat /\ bp' * mu \in Nat /\ bp * mu <= bp' * mu
  BY <1>1, <1>2, <1>6
<1>9. /\ 40 * Met * bw = 40 * (Met * bw) /\ 40 * Met' * bw = 40 * (Met' * bw)
      /\ 20 * bp * mu = 20 * (bp * mu) /\ 20 * bp' * mu = 20 * (bp' * mu)
  <2>1. \A u, v \in Nat : 40 * u * v = 40 * (u * v) /\ 20 * u * v = 20 * (u * v)
    OBVIOUS
  <2> QED BY <1>1, <1>2, <1>3, <2>1
<1>10. PICK p \in Nat : p = Points * Whole
  BY <1>3, <1>5
<1>11. /\ Earned = p + 40 * (Met * bw) + 20 * (bp * mu)
       /\ Earned' = p + 40 * (Met' * bw) + 20 * (bp' * mu)
  BY <1>1, <1>2, <1>4, <1>5, <1>9, <1>10
<1>12. \A p1, u1, v1, u2, v2 \in Nat :
         u1 <= v1 /\ u2 <= v2 =>
           /\ p1 + 40 * u1 + 20 * u2 \in Nat /\ p1 + 40 * v1 + 20 * v2 \in Nat
           /\ p1 + 40 * u1 + 20 * u2 <= p1 + 40 * v1 + 20 * v2
  OBVIOUS
<1>13. Earned \in Nat /\ Earned' \in Nat /\ Earned <= Earned'
  BY <1>7, <1>8, <1>10, <1>11, <1>12
<1> QED BY <1>5, <1>13

LEMMA ScoresMore ==
  ASSUME Growth, Fitness # "likely_ineligible"
  PROVE  /\ Scores(30) => Scores(30)'
         /\ Scores(50) => Scores(50)'
         /\ Scores(70) => Scores(70)'
<1>1. Known \in Nat /\ Known' = Known /\ Points' = Points
  BY KnownGrows
<1>2. /\ Whole \in Nat /\ Whole' = Whole
      /\ Earned \in Nat /\ Earned' \in Nat /\ Earned <= Earned'
  BY <1>1, EarnsMore
<1>3. \A p \in {30, 50, 70} : p * Known * Whole \in Nat
  BY <1>1, <1>2
<1>4. \A n \in Nat : 100 * Earned >= n => 100 * Earned' >= n
  <2>1. \A u, v, n \in Nat : u <= v /\ 100 * u >= n => 100 * v >= n
    OBVIOUS
  <2> QED BY <1>2, <2>1
<1>5. \A p \in {30, 50, 70} :
        100 * Earned >= p * Known * Whole => 100 * Earned' >= p * Known * Whole
  BY <1>3, <1>4
<1>6. /\ 100 * Earned >= 30 * Known * Whole => 100 * Earned' >= 30 * Known' * Whole'
      /\ 100 * Earned >= 50 * Known * Whole => 100 * Earned' >= 50 * Known' * Whole'
      /\ 100 * Earned >= 70 * Known * Whole => 100 * Earned' >= 70 * Known' * Whole'
  BY <1>1, <1>2, <1>5
<1> QED BY <1>1, <1>6 DEF Scores

\* How sure one is of a role depends on the eligibility, and else on nothing that grows.
LEMMA SureStays ==
  ASSUME Growth
  PROVE  /\ Sure \in {"high", "medium", "low"} /\ Sure' \in {"high", "medium", "low"}
         /\ Fitness' = Fitness => Sure' = Sure
         /\ Sure = "low" <=> Sure' = "low"
<1>1. /\ Known >= 80 <=> Known' >= 80
      /\ Known >= 50 <=> Known' >= 50
  BY KnownGrows
<1>2. /\ Sufficient' = Sufficient /\ (Signals >= 3)' = (Signals >= 3)
      /\ (posting.length >= 400)' = (posting.length >= 400)
  BY SufficientStays
<1>3. Sure = IF Known >= 80 /\ posting.length >= 400 /\ Signals >= 3
             THEN IF Fitness = "uncertain" THEN "medium" ELSE "high"
             ELSE IF Known >= 50 /\ Sufficient THEN "medium" ELSE "low"
  BY DEF Sure, Confidence
<1>4. Sure' = IF Known' >= 80 /\ (posting.length >= 400)' /\ (Signals >= 3)'
              THEN IF Fitness' = "uncertain" THEN "medium" ELSE "high"
              ELSE IF Known' >= 50 /\ Sufficient' THEN "medium" ELSE "low"
  BY DEF Sure, Confidence
<1>5. CASE Known >= 80 /\ posting.length >= 400 /\ Signals >= 3
  BY <1>1, <1>2, <1>3, <1>4, <1>5
<1>6. CASE ~ (Known >= 80 /\ posting.length >= 400 /\ Signals >= 3)
  BY <1>1, <1>2, <1>3, <1>4, <1>6
<1> QED BY <1>5, <1>6

LEMMA StrongStays ==
  ASSUME Growth, Fitness # "likely_ineligible"
  PROVE  /\ Strong => Strong'
         /\ Promising => Promising'
         /\ Capped' => Capped
<1>1. Known \in Nat /\ Known' = Known
  BY KnownGrows
<1>2. /\ Fitness = "eligible" => Fitness' = "eligible"
      /\ Sure = "low" <=> Sure' = "low"
  BY FitnessGrows, SureStays
<1>3. Strong => Strong'
  <2>1. /\ Cardinality(MetSkills) >= 3 => Cardinality(MetSkills)' >= 3
        /\ Matched(Evidenced) >= 2 => Matched(Evidenced)' >= 2
    BY CountsGrow
  <2> QED BY <1>1, <1>2, <2>1, ScoresMore DEF Strong
<1>4. Promising => Promising'
  BY <1>1, <1>2, ScoresMore DEF Promising
<1>5. Capped' => Capped
  <2>1. RoleAlignment' = RoleAlignment /\ SeniorityAlignment' = SeniorityAlignment
    BY RolePart, SeniorityPart
  <2>2. Experience' = "wish" => Experience = "wish"
    BY ExperiencePart
  <2>3. (Units >= 4 /\ 10 * Met < 4 * Units)' => (Units >= 4 /\ 10 * Met < 4 * Units)
    BY CountsGrow
  <2> QED BY <2>1, <2>2, <2>3 DEF Capped
<1> QED BY <1>3, <1>4, <1>5

Bands == {"strong", "promising", "stretch", "insufficient_data", "low"}

LEMMA BandGrows ==
  ASSUME Growth
  PROVE  BandRank[Band'] >= BandRank[Band]
<1>1. Band \in Bands /\ Band' \in Bands
  BY DEF Band, Bands
<1>2. \A b \in Bands : BandRank[b] \in 0..4
  BY DEF Bands, BandRank
<1>3. CASE RoleAlignment.verdict = "conflict" \/ Fitness = "likely_ineligible"
  <2>1. Band = "low"
    BY <1>3 DEF Band
  <2>2. BandRank[Band] = 0
    BY <2>1 DEF BandRank
  <2> QED BY <1>1, <1>2, <2>2
<1>4. CASE ~ (RoleAlignment.verdict = "conflict" \/ Fitness = "likely_ineligible")
  <2>1. /\ RoleAlignment'.verdict # "conflict" /\ Fitness' # "likely_ineligible"
        /\ Sufficient' = Sufficient /\ (Sure = "low" <=> Sure' = "low")
    BY <1>4, RolePart, FitnessGrows, SufficientStays, SureStays
  <2>2. /\ Strong => Strong'
        /\ Promising => Promising'
        /\ Capped' => Capped
        /\ Scores(30) => Scores(30)'
    BY <1>4, StrongStays, ScoresMore
  <2>3. Band = IF ~ Sufficient THEN "insufficient_data"
               ELSE IF Strong /\ ~ Capped THEN "strong"
               ELSE IF ~ Strong /\ Promising /\ ~ Capped THEN "promising"
               ELSE IF Strong \/ (Sure # "low" /\ Scores(30)) THEN "stretch"
               ELSE IF Sure # "low" THEN "low" ELSE "insufficient_data"
    BY <1>4 DEF Band
  <2>4. Band' = IF ~ Sufficient' THEN "insufficient_data"
                ELSE IF Strong' /\ ~ Capped' THEN "strong"
                ELSE IF ~ Strong' /\ Promising' /\ ~ Capped' THEN "promising"
                ELSE IF Strong' \/ (Sure' # "low" /\ Scores(30)') THEN "stretch"
                ELSE IF Sure' # "low" THEN "low" ELSE "insufficient_data"
    BY <2>1 DEF Band
  <2>5. /\ Band = "strong" => Band' = "strong"
        /\ Band = "promising" => Band' \in {"strong", "promising"}
        /\ Band = "stretch" => Band' \in {"strong", "promising", "stretch"}
        /\ Band = "insufficient_data" =>
             Band' \in {"strong", "promising", "stretch", "insufficient_data"}
    BY <2>1, <2>2, <2>3, <2>4
  <2> HIDE DEF Band
  <2>6. BandRank = [strong |-> 4, promising |-> 3, stretch |-> 2, insufficient_data |-> 1, low |-> 0]
    BY DEF BandRank
  <2>7. /\ BandRank["strong"] = 4 /\ BandRank["promising"] = 3 /\ BandRank["stretch"] = 2
        /\ BandRank["insufficient_data"] = 1 /\ BandRank["low"] = 0
    BY <2>6
  <2> QED BY <1>1, <2>5, <2>7 DEF Bands
<1> QED BY <1>3, <1>4

\* The owner who shows more, and is permitted more, is never judged lower for it (GrowthNeverHurts).
THEOREM GrowthHelps == AssessmentSpec => GrowthNeverHurts
<1> DEFINE Better ==
      /\ BandRank[judgement.band'] >= BandRank[judgement.band]
      /\ EligibilityRank[judgement.eligibility'] >= EligibilityRank[judgement.eligibility]
      /\ judgement.eligibility' = judgement.eligibility =>
           ConfidenceRank[judgement.confidence'] >= ConfidenceRank[judgement.confidence]
<1>1. ASSUME JudgedNow, AssessmentNext, Grown(owner, owner') PROVE Better
  <2>1. Growth
    BY <1>1, AddGrows
  <2>2. judgement = Judged /\ judgement' = Judged'
    BY <1>1 DEF JudgedNow, AssessmentNext
  <2>3. /\ judgement.band = Band /\ judgement.band' = Band'
        /\ judgement.confidence = Sure /\ judgement.confidence' = Sure'
        /\ judgement.eligibility = Fitness /\ judgement.eligibility' = Fitness'
    BY <2>2, JudgedParts
  <2>4. EligibilityRank[Fitness'] >= EligibilityRank[Fitness]
    <3>1. /\ Fitness \in FitnessVerdicts /\ Fitness' \in FitnessVerdicts
          /\ Fitness # "likely_ineligible" => Fitness' # "likely_ineligible"
          /\ Fitness = "eligible" => Fitness' = "eligible"
      BY <2>1, FitnessGrows
    <3>2. /\ EligibilityRank["eligible"] = 2 /\ EligibilityRank["uncertain"] = 1
          /\ EligibilityRank["likely_ineligible"] = 0
      BY DEF EligibilityRank
    <3> QED BY <3>1, <3>2 DEF FitnessVerdicts
  <2>5. Fitness' = Fitness => ConfidenceRank[Sure'] >= ConfidenceRank[Sure]
    <3>1. Sure \in {"high", "medium", "low"} /\ (Fitness' = Fitness => Sure' = Sure)
      BY <2>1, SureStays
    <3>2. /\ ConfidenceRank["high"] = 2 /\ ConfidenceRank["medium"] = 1
          /\ ConfidenceRank["low"] = 0
      BY DEF ConfidenceRank
    <3> QED BY <3>1, <3>2
  <2> QED BY <2>1, <2>3, <2>4, <2>5, BandGrows
<1>2. JudgedNow /\ [AssessmentNext]_assessmentVars
        => [Grown(owner, owner') => Better]_assessmentVars
  BY <1>1
<1> QED BY <1>2, JudgedCorrect, PTL DEF GrowthNeverHurts, AssessmentSpec
=============================================================================
