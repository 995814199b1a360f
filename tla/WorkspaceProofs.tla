-------------------------- MODULE WorkspaceProofs --------------------------
(***************************************************************************)
(* Theorems about the rows of a workspace: the postings that scans find,   *)
(* the papers of applications, and the messages to people.                 *)
(***************************************************************************)
EXTENDS PostingIdentity, Documents, Outreach, FiniteSetTheorems, TLAPS

(***************************************************************************)
(* For any number of overlapping scans, requisitions and URLs, the rows    *)
(* they leave keep the requisitions of a company apart.                    *)
(*                                                                         *)
(* RequisitionsApart is inductive together with the types.  What keeps a   *)
(* stale find from doing harm is Placed: the identity a posting would take *)
(* must not lead to another posting, and every posting named for a         *)
(* requisition is led to by it.                                            *)
(***************************************************************************)
AllKeys == {"url", "native"} \X (Urls \cup Natives \cup {NoNative})

PostingTypes ==
  /\ \E size \in 0..MaxPostings :
       posting \in [1..size -> [key : AllKeys, content : Contents, version : Nat]]
  /\ alias \in [DOMAIN alias -> DOMAIN posting]
  /\ sighting \in [ScanRuns -> [role : Roles, found : DOMAIN posting \cup {New}] \cup {NoSighting}]
  /\ inventory \subseteq Roles

PostingInv == PostingTypes /\ RequisitionsApart

(***************************************************************************)
(* Lemmas on the operators.                                                *)
(***************************************************************************)
LEMMA IdentityType ==
  ASSUME NEW role \in Roles
  PROVE  /\ Identity(role) \in AllKeys
         /\ (Identity(role)[1] = "native") <=> (role.native # NoNative)
         /\ \A k \in Keys(role) : k[1] = "native" => k = Identity(role) /\ role.native # NoNative
         /\ Identity(role) \in Keys(role)
<1>1. role.native \in Natives \cup {NoNative} /\ role.url \in Urls
  BY DEF Roles
<1>2. CASE role.native = NoNative
  BY <1>1, <1>2 DEF Identity, Keys, AllKeys
<1>3. CASE role.native # NoNative
  BY <1>1, <1>3 DEF Identity, Keys, AllKeys
<1> QED BY <1>2, <1>3

\* The rows are numbered without gaps, so the next number is free.
LEMMA NextNumber ==
  ASSUME MaxPostings \in Nat, PostingTypes
  PROVE  /\ Cardinality(DOMAIN posting) \in 0..MaxPostings
         /\ DOMAIN posting = 1..Cardinality(DOMAIN posting)
         /\ DOMAIN posting \subseteq Ids
         /\ New \notin DOMAIN posting
         /\ Cardinality(DOMAIN posting) + 1 \notin DOMAIN posting
<1>1. PICK size \in 0..MaxPostings :
        posting \in [1..size -> [key : AllKeys, content : Contents, version : Nat]]
  BY DEF PostingTypes
<1>2. DOMAIN posting = 1..size
  BY <1>1
<1>3. Cardinality(1..size) = size
  BY FS_Interval
<1> QED BY <1>2, <1>3 DEF Ids, New

\* What a find returns, and what it tells about the posting.
LEMMA FindWorks ==
  ASSUME MaxPostings \in Nat, PostingTypes, RequisitionsApart, NEW role \in Roles
  PROVE  /\ Find(role) \in DOMAIN posting \cup {New}
         /\ Find(role) = New => \A n \in DOMAIN posting : posting[n].key # Identity(role)
         /\ (/\ Find(role) # New /\ role.native # NoNative
             /\ posting[Find(role)].key[1] = "native")
              => posting[Find(role)].key = Identity(role)
<1> DEFINE own == {n \in DOMAIN posting : posting[n].key = Identity(role)}
           by(key) == IF key \in DOMAIN alias THEN {alias[key]} ELSE {}
           shared == {n \in by(<<"url", role.url>>) : MayMerge(n, role)}
           Right(n) == IF own # {} THEN n \in own
                       ELSE IF by(Identity(role)) # {} THEN n \in by(Identity(role))
                       ELSE IF shared # {} THEN n \in shared ELSE n = New
<1>1. Find(role) = CHOOSE n \in Ids \cup {New} : Right(n)
  BY DEF Find
<1>2. \A key : by(key) \subseteq DOMAIN posting
  BY DEF PostingTypes
<1>3. DOMAIN posting \subseteq Ids /\ New \notin DOMAIN posting
  BY NextNumber
<1>4. own \subseteq DOMAIN posting /\ shared \subseteq DOMAIN posting
  BY <1>2
<1>5. \E n \in Ids \cup {New} : Right(n)
  <2>1. CASE own # {}
    BY <2>1, <1>3, <1>4
  <2>2. CASE own = {} /\ by(Identity(role)) # {}
    BY <2>2, <1>3, <1>2
  <2>3. CASE own = {} /\ by(Identity(role)) = {} /\ shared # {}
    BY <2>3, <1>3, <1>4
  <2>4. CASE own = {} /\ by(Identity(role)) = {} /\ shared = {}
    BY <2>4
  <2> QED BY <2>1, <2>2, <2>3, <2>4
<1>6. Right(Find(role))
  <2> HIDE DEF Right
  <2> QED BY <1>1, <1>5
<1>7. Find(role) \in DOMAIN posting \cup {New}
  BY <1>6, <1>2, <1>4
<1>8. ASSUME Find(role) = New
      PROVE  \A n \in DOMAIN posting : posting[n].key # Identity(role)
  <2>1. own = {}
    BY <1>8, <1>6, <1>3, <1>4
  <2> QED BY <2>1
<1>9. ASSUME Find(role) # New, role.native # NoNative, posting[Find(role)].key[1] = "native"
      PROVE  posting[Find(role)].key = Identity(role)
  <2> DEFINE f == Find(role)
  <2>0. f \in DOMAIN posting
    BY <1>7, <1>9
  <2>1. CASE f \in own
    BY <2>1
  <2>2. CASE f \in by(Identity(role))
    <3>1. Identity(role) \in DOMAIN alias /\ alias[Identity(role)] = f
      BY <2>2
    <3>2. Identity(role) \in NativesOf(f)
      BY <3>1, <1>9, IdentityType DEF NativesOf
    <3>3. NativesOf(f) = {posting[f].key}
      BY <2>0, <1>9 DEF RequisitionsApart
    <3> QED BY <3>2, <3>3
  <2>3. CASE f \in shared
    <3>1. MayMerge(f, role)
      BY <2>3
    <3> QED BY <3>1, <1>9 DEF MayMerge
  <2>4. CASE f = New
    BY <2>4, <1>9
  <2> QED BY <1>6, <2>1, <2>2, <2>3, <2>4
<1> QED BY <1>7, <1>8, <1>9

\* The row that is locked in the end, if its aliases may be placed.
LEMMA LocatedWorks ==
  ASSUME MaxPostings \in Nat, PostingTypes, RequisitionsApart,
         NEW s \in ScanRuns, sighting[s] # NoSighting
  PROVE  LET n    == Located(sighting[s])
             role == sighting[s].role
         IN  /\ n \in DOMAIN posting \cup {Cardinality(DOMAIN posting) + 1}
             /\ n \notin DOMAIN posting =>
                  \A m \in DOMAIN posting : posting[m].key # Identity(role)
             /\ (n \in DOMAIN posting /\ role.native # NoNative /\ posting[n].key[1] = "native")
                  => posting[n].key = Identity(role)
<1> DEFINE w == sighting[s]
           found == IF Moved(w) \/ Taken(w) THEN Find(w.role) ELSE w.found
<1>1. w.role \in Roles /\ w.found \in DOMAIN posting \cup {New}
  BY DEF PostingTypes
<1>2. /\ found \in DOMAIN posting \cup {New}
      /\ found = New => \A m \in DOMAIN posting : posting[m].key # Identity(w.role)
      /\ (found # New /\ w.role.native # NoNative /\ posting[found].key[1] = "native")
           => posting[found].key = Identity(w.role)
  <2>1. CASE Moved(w) \/ Taken(w)
    <3>1. found = Find(w.role)
      BY <2>1
    <3> HIDE DEF found
    <3> QED BY <3>1, <1>1, FindWorks
  <2>2. CASE ~Moved(w) /\ ~Taken(w)
    <3>1. found = w.found
      BY <2>2
    <3> HIDE DEF found
    <3> QED BY <3>1, <2>2, <1>1 DEF Moved, Taken
  <2> QED BY <2>1, <2>2
<1>3. Located(w) = IF found = New THEN Cardinality(DOMAIN posting) + 1 ELSE found
  BY DEF Located
<1>4. New \notin DOMAIN posting /\ Cardinality(DOMAIN posting) + 1 \notin DOMAIN posting
  BY NextNumber
<1> HIDE DEF found
<1> QED BY <1>2, <1>3, <1>4

(***************************************************************************)
(* The invariant.                                                          *)
(***************************************************************************)
LEMMA InitApart == ASSUME MaxPostings \in Nat, PostingInit PROVE PostingInv
<1>1. posting \in [1..0 -> [key : AllKeys, content : Contents, version : Nat]]
  BY DEF PostingInit
<1>2. alias \in [DOMAIN alias -> DOMAIN posting] /\ DOMAIN posting = {}
  BY DEF PostingInit
<1>3. PostingTypes
  BY <1>1, <1>2 DEF PostingTypes, PostingInit
<1>4. RequisitionsApart
  BY <1>2 DEF RequisitionsApart
<1> QED BY <1>3, <1>4 DEF PostingInv

\* Finding, skipping and finishing leave the rows alone.
LEMMA OthersKeepApart ==
  ASSUME MaxPostings \in Nat, PostingInv, UNCHANGED <<posting, alias>>, inventory' \subseteq Roles,
         sighting' \in [ScanRuns -> [role : Roles, found : DOMAIN posting \cup {New}] \cup {NoSighting}]
  PROVE  PostingInv'
BY DEF PostingInv, PostingTypes, RequisitionsApart, NativesOf

LEMMA PersistKeepsApart ==
  ASSUME MaxPostings \in Nat, PostingInv, NEW s \in ScanRuns, Persist(s)
  PROVE  PostingInv'
<1>0. PICK n \in Ids : n = Located(sighting[s])
  BY DEF Persist
<1> DEFINE role == sighting[s].role
           row  == Row(n, role)
           free == Free(n, role)
           size == Cardinality(DOMAIN posting)
<1>1. /\ sighting[s] # NoSighting /\ Placed(n, role)
      /\ posting' = [m \in DOMAIN posting \cup {n} |-> IF m = n THEN row ELSE posting[m]]
      /\ alias' = [k \in DOMAIN alias \cup free |-> IF k \in free THEN n ELSE alias[k]]
      /\ sighting' = [sighting EXCEPT ![s] = NoSighting] /\ inventory' = inventory
  BY <1>0 DEF Persist, Deal
<1>2. PostingTypes /\ RequisitionsApart
  BY DEF PostingInv
<1>3. role \in Roles
  BY <1>1, <1>2 DEF PostingTypes
<1>4. /\ n \in DOMAIN posting \cup {size + 1}
      /\ n \notin DOMAIN posting => \A m \in DOMAIN posting : posting[m].key # Identity(role)
      /\ (n \in DOMAIN posting /\ role.native # NoNative /\ posting[n].key[1] = "native")
           => posting[n].key = Identity(role)
  BY <1>0, <1>1, <1>2, LocatedWorks
<1>5. /\ size \in 0..MaxPostings /\ DOMAIN posting = 1..size
      /\ DOMAIN posting \subseteq Ids /\ size + 1 \notin DOMAIN posting
  BY <1>2, NextNumber
<1>6. posting \in [DOMAIN posting -> [key : AllKeys, content : Contents, version : Nat]]
  BY <1>2 DEF PostingTypes
<1>7. /\ Identity(role) \in AllKeys
      /\ Identity(role)[1] = "native" <=> role.native # NoNative
      /\ \A k \in Keys(role) : k[1] = "native" => k = Identity(role) /\ role.native # NoNative
      /\ Identity(role) \in Keys(role)
  BY <1>3, IdentityType
<1>8. role.content \in Contents
  BY <1>3 DEF Roles
<1> HIDE DEF role, size
\* The row named, and what it is named for.
<1>9. /\ row \in [key : AllKeys, content : Contents, version : Nat]
      /\ n \in DOMAIN posting => (row.key = posting[n].key \/ (/\ posting[n].key[1] = "url"
                                                            /\ role.native # NoNative
                                                            /\ row.key = Identity(role)))
      /\ (n \in DOMAIN posting /\ role.native # NoNative) => row.key = Identity(role)
      /\ n \notin DOMAIN posting => row.key = Identity(role)
  <2>1. CASE n \notin DOMAIN posting
    BY <2>1, <1>7, <1>8 DEF Row
  <2>2. CASE n \in DOMAIN posting
    <3>1. PICK key \in AllKeys, content \in Contents, version \in Nat :
            posting[n] = [key |-> key, content |-> content, version |-> version]
      BY <2>2, <1>6
    <3>2. row = [key     |-> IF role.native # NoNative /\ key[1] = "url"
                             THEN Identity(role) ELSE key,
                 content |-> role.content,
                 version |-> version + IF content = role.content THEN 0 ELSE 1]
      BY <2>2, <3>1 DEF Row
    <3>3. key[1] \in {"url", "native"}
      BY DEF AllKeys
    <3>4. posting[n].key = key
      BY <3>1
    <3> QED BY <2>2, <3>2, <3>3, <3>4, <1>4, <1>7, <1>8
  <2> QED BY <2>1, <2>2
<1> HIDE DEF row
<1>10. /\ DOMAIN posting' = DOMAIN posting \cup {n}
       /\ posting'[n] = row
       /\ \A m \in DOMAIN posting : m # n => posting'[m] = posting[m]
  BY <1>1
<1>11. /\ DOMAIN alias' = DOMAIN alias \cup free
       /\ \A k \in free : alias'[k] = n
       /\ \A k \in DOMAIN alias : k \notin free => alias'[k] = alias[k]
       /\ \A k \in free : k \in Keys(role) /\ (k \in DOMAIN alias => alias[k] = n)
       /\ Identity(role) \in free
  BY <1>1 DEF Free, Placed
<1> HIDE DEF free
<1>12. PostingTypes'
  <2>1. CASE n \in DOMAIN posting
    <3>1. posting' \in [1..size -> [key : AllKeys, content : Contents, version : Nat]]
      BY <2>1, <1>1, <1>5, <1>6, <1>9
    <3>2. \E x \in 0..MaxPostings :
            posting' \in [1..x -> [key : AllKeys, content : Contents, version : Nat]]
      BY <3>1, <1>5
    <3>3. DOMAIN posting' = DOMAIN posting
      BY <2>1, <1>10
    <3>4. alias' \in [DOMAIN alias' -> DOMAIN posting']
      BY <2>1, <3>3, <1>1, <1>2, <1>11 DEF PostingTypes
    <3> QED BY <3>2, <3>3, <3>4, <1>1, <1>2 DEF PostingTypes
  <2>2. CASE n \notin DOMAIN posting
    <3>1. n = size + 1 /\ DOMAIN posting' = 1..(size + 1) /\ size + 1 \in 0..MaxPostings
      BY <2>2, <1>1, <1>4, <1>5, <1>10 DEF Ids
    <3>2. posting' \in [1..(size + 1) -> [key : AllKeys, content : Contents, version : Nat]]
      BY <3>1, <1>1, <1>6, <1>9, <1>10
    <3>3. \E x \in 0..MaxPostings :
            posting' \in [1..x -> [key : AllKeys, content : Contents, version : Nat]]
      BY <3>1, <3>2
    <3>4. alias' \in [DOMAIN alias' -> DOMAIN posting']
      BY <1>1, <1>2, <1>10, <1>11 DEF PostingTypes
    <3>5. sighting' \in [ScanRuns -> [role : Roles, found : DOMAIN posting' \cup {New}] \cup {NoSighting}]
      BY <1>1, <1>2, <1>10 DEF PostingTypes
    <3> QED BY <3>3, <3>4, <3>5, <1>1, <1>2 DEF PostingTypes
  <2> QED BY <2>1, <2>2
\* The requisitions that led to the posting before.
<1>13. \A m \in DOMAIN posting :
         NativesOf(m) = IF posting[m].key[1] = "native" THEN {posting[m].key} ELSE {}
  BY <1>2 DEF RequisitionsApart
<1>14. \A k \in DOMAIN alias : alias[k] \in DOMAIN posting
  BY <1>2 DEF PostingTypes
\* No other posting has the name: its requisition leads here, or to no posting.
<1>15. ASSUME NEW m \in DOMAIN posting, m # n
       PROVE  posting[m].key # row.key
  <2>1. CASE n \in DOMAIN posting /\ row.key = posting[n].key
    BY <2>1, <1>2, <1>15 DEF RequisitionsApart
  <2>2. CASE n \in DOMAIN posting /\ role.native # NoNative /\ row.key = Identity(role)
    <3>1. SUFFICES ASSUME posting[m].key = Identity(role) PROVE FALSE
      BY <2>2
    <3>2. NativesOf(m) = {Identity(role)}
      BY <3>1, <2>2, <1>7, <1>13
    <3>3. Identity(role) \in DOMAIN alias /\ alias[Identity(role)] = m
      BY <3>2 DEF NativesOf
    <3> QED BY <3>3, <1>11, <1>15
  <2>3. CASE n \notin DOMAIN posting
    BY <2>3, <1>4, <1>9
  <2> QED BY <2>1, <2>2, <2>3, <1>9
<1>16. ASSUME NEW m \in DOMAIN posting, m # n
       PROVE  NativesOf(m)' = NativesOf(m)
  BY <1>11, <1>16 DEF NativesOf
<1>17. NativesOf(n)' = IF row.key[1] = "native" THEN {row.key} ELSE {}
  <2>1. NativesOf(n)' = {k \in DOMAIN alias : alias[k] = n /\ k[1] = "native"}
                          \cup {k \in free : k[1] = "native"}
    BY <1>11 DEF NativesOf
  <2>2. {k \in free : k[1] = "native"} =
          IF role.native # NoNative THEN {Identity(role)} ELSE {}
    BY <1>7, <1>11
  <2>3. {k \in DOMAIN alias : alias[k] = n /\ k[1] = "native"} = NativesOf(n)
    BY DEF NativesOf
  <2>4. CASE n \notin DOMAIN posting
    <3>1. NativesOf(n) = {}
      BY <2>4, <1>14 DEF NativesOf
    <3> QED BY <2>1, <2>2, <2>3, <2>4, <3>1, <1>7, <1>9
  <2>5. CASE n \in DOMAIN posting /\ role.native # NoNative
    <3>1. NativesOf(n) \subseteq {Identity(role)}
      BY <2>5, <1>4, <1>13
    <3> QED BY <2>1, <2>2, <2>3, <2>5, <3>1, <1>7, <1>9
  <2>6. CASE n \in DOMAIN posting /\ role.native = NoNative
    BY <2>1, <2>2, <2>3, <2>6, <1>9, <1>13
  <2> QED BY <2>4, <2>5, <2>6
<1>18. RequisitionsApart'
  <2>1. ASSUME NEW a \in DOMAIN posting', NEW b \in DOMAIN posting',
               posting'[a].key = posting'[b].key
        PROVE  a = b
    BY <2>1, <1>2, <1>10, <1>15 DEF RequisitionsApart
  <2>2. ASSUME NEW a \in DOMAIN posting'
        PROVE  NativesOf(a)' = IF posting'[a].key[1] = "native" THEN {posting'[a].key} ELSE {}
    BY <1>10, <1>13, <1>16, <1>17
  <2> QED BY <2>1, <2>2 DEF RequisitionsApart
<1> QED BY <1>12, <1>18 DEF PostingInv

LEMMA NextKeepsApart ==
  ASSUME MaxPostings \in Nat, PostingInv, [PostingNext]_postingVars
  PROVE  PostingInv'
<1>1. ASSUME NEW s \in ScanRuns, NEW role \in Roles, Begin(s, role) PROVE PostingInv'
  <2>1. Find(role) \in DOMAIN posting \cup {New}
    BY FindWorks DEF PostingInv
  <2>2. /\ sighting' = [sighting EXCEPT ![s] = [role |-> role, found |-> Find(role)]]
        /\ UNCHANGED <<posting, alias, inventory>>
    BY <1>1 DEF Begin
  <2>3. sighting \in [ScanRuns -> [role : Roles, found : DOMAIN posting \cup {New}] \cup {NoSighting}]
    BY DEF PostingInv, PostingTypes
  <2>4. sighting' \in [ScanRuns -> [role : Roles, found : DOMAIN posting \cup {New}] \cup {NoSighting}]
    BY <2>1, <2>2, <2>3
  <2>5. inventory' \subseteq Roles
    BY <2>2 DEF PostingInv, PostingTypes
  <2> QED BY <2>2, <2>4, <2>5, OthersKeepApart
<1>2. ASSUME NEW s \in ScanRuns, Persist(s) PROVE PostingInv'
  BY <1>2, PersistKeepsApart
<1>3. ASSUME NEW s \in ScanRuns, Skip(s) PROVE PostingInv'
  <2>1. UNCHANGED <<posting, alias, inventory>> /\ sighting' = [sighting EXCEPT ![s] = NoSighting]
    BY <1>3 DEF Skip, Deal
  <2> QED BY <2>1, OthersKeepApart DEF PostingInv, PostingTypes
<1>4. ASSUME NEW s \in ScanRuns, Finish(s) PROVE PostingInv'
  <2>1. UNCHANGED <<posting, alias, sighting, inventory>>
    BY <1>4 DEF Finish
  <2> QED BY <2>1, OthersKeepApart DEF PostingInv, PostingTypes
<1>5. CASE Change
  <2>1. UNCHANGED <<posting, alias, sighting>> /\ inventory' \subseteq Roles
    BY <1>5 DEF Change
  <2> QED BY <2>1, OthersKeepApart DEF PostingInv, PostingTypes
<1>6. CASE UNCHANGED postingVars
  BY <1>6, OthersKeepApart DEF postingVars, PostingInv, PostingTypes
<1> QED BY <1>1, <1>2, <1>3, <1>4, <1>5, <1>6 DEF PostingNext

\* However scans overlap, whatever the company lists, and whichever URLs its requisitions
\* share: no two postings have one identity, and none holds two requisitions.
THEOREM Apart ==
  ASSUME MaxPostings \in Nat
  PROVE  PostingSpec => []RequisitionsApart
<1>1. PostingInit => PostingInv
  BY InitApart
<1>2. PostingInv /\ [PostingNext]_postingVars => PostingInv'
  BY NextKeepsApart
<1>3. PostingInv => RequisitionsApart
  BY DEF PostingInv
<1> QED BY <1>1, <1>2, <1>3, PTL DEF PostingSpec

(***************************************************************************)
(* Theorems about Documents, for any number of applications, requests,     *)
(* pieces of evidence, resumes and revisions.                              *)
(*                                                                         *)
(* What a paper rests on is settled when it is generated: reviewed grounds *)
(* never change, so an approval on the latest grounds has only to ask      *)
(* whether their evidence is still what it was.                            *)
(***************************************************************************)
Uses == SUBSET (Evidence \X Nat)

Wording == Seq(Texts \cup Uses)

ResumeRow == [text : Wording, parent : Nat, base : BOOLEAN]

Ground == [uses : Uses, open : BOOLEAN, reviewed : BOOLEAN]

PaperRow == [on : Nat, uses : Uses, verdict : {"none", "approved", "rejected"}, resume : Nat,
             text : Wording]

Pack == [base : Nat, papers : Seq(PaperRow), grounds : Seq(Ground)]

DocumentTypes ==
  /\ evidence \in [Evidence -> [state : {"pending", "approved", "rejected", "retired"},
                                version : Nat]]
  /\ resume \in Seq(ResumeRow)
  /\ pack \in [Applications -> Pack \cup {NoPack}]
  /\ stage \in [Applications -> {"pursuing", "ready_to_apply", "applied", "undone"}]

\* A text is stored once, and one resume is the base.
ResumesApart(rows) ==
  /\ \A r, s \in DOMAIN rows : rows[r].text = rows[s].text => r = s
  /\ \E b \in DOMAIN rows : \A r \in DOMAIN rows : rows[r].base <=> r = b

\* A paper was generated on reviewed grounds and uses nothing else.
PapersGrounded(p) ==
  \A n \in DOMAIN p.papers :
    LET paper == p.papers[n]
    IN  /\ paper.on \in DOMAIN p.grounds
        /\ p.grounds[paper.on].reviewed
        /\ paper.uses \subseteq p.grounds[paper.on].uses

PapersNamed(p, rows) ==
  \A n \in DOMAIN p.papers :
    LET paper == p.papers[n]
    IN  paper.verdict = "approved" => /\ paper.resume \in DOMAIN rows
                                      /\ rows[paper.resume].text = paper.text
                                      /\ rows[paper.resume].parent = p.base

PackGood(p, rows) ==
  /\ p \in Pack /\ p.base \in DOMAIN rows /\ p.grounds # <<>>
  /\ PapersGrounded(p) /\ PapersNamed(p, rows)

DocumentInv == /\ DocumentTypes /\ ResumesApart(resume)
       /\ \A a \in Applications : pack[a] # NoPack => PackGood(pack[a], resume)

\* The latest paper is approved on the latest grounds.
Approved(p) == /\ p.papers # <<>>
               /\ Last(p.papers).verdict = "approved" /\ Last(p.papers).on = Len(p.grounds)

\* Rows are added; of those there were, at most the base changes.
Grows(old, new) ==
  /\ DOMAIN old \subseteq DOMAIN new
  /\ \A r \in DOMAIN old : new[r].text = old[r].text /\ new[r].parent = old[r].parent

(***************************************************************************)
(* Resumes.                                                                *)
(***************************************************************************)
LEMMA RebasedGood ==
  ASSUME NEW rows \in Seq(ResumeRow), ResumesApart(rows), NEW b \in DOMAIN rows
  PROVE  /\ Based(rows, b) \in Seq(ResumeRow) /\ ResumesApart(Based(rows, b))
         /\ Grows(rows, Based(rows, b)) /\ DOMAIN Based(rows, b) = DOMAIN rows
<1> DEFINE new == Based(rows, b)
<1>1. PICK n \in Nat : rows \in [1..n -> ResumeRow]
  OBVIOUS
<1>2. /\ DOMAIN rows = 1..n /\ DOMAIN new = 1..n
      /\ \A r \in 1..n : /\ new[r] \in ResumeRow /\ new[r].text = rows[r].text
                         /\ new[r].parent = rows[r].parent /\ (new[r].base <=> r = b)
  <2>1. \A r \in 1..n : new[r] = [rows[r] EXCEPT !.base = (r = b)]
    BY <1>1 DEF Based
  <2>2. \A r \in 1..n : rows[r] \in ResumeRow
    BY <1>1
  <2>3. DOMAIN rows = 1..n /\ DOMAIN new = 1..n
    BY <1>1 DEF Based
  <2>4. ASSUME NEW r \in 1..n
        PROVE  /\ new[r] \in ResumeRow /\ new[r].text = rows[r].text
               /\ new[r].parent = rows[r].parent /\ (new[r].base <=> r = b)
    <3>1. PICK t \in Wording, p \in Nat, f \in BOOLEAN :
            rows[r] = [text |-> t, parent |-> p, base |-> f]
      BY <2>2 DEF ResumeRow
    <3>2. new[r] = [text |-> t, parent |-> p, base |-> (r = b)]
      BY <2>1, <3>1
    <3> HIDE DEF new
    <3>3. new[r] \in ResumeRow
      <4> DEFINE f2 == r = b
      <4>1. f2 \in BOOLEAN /\ new[r] = [text |-> t, parent |-> p, base |-> f2]
        BY <3>2
      <4> HIDE DEF f2
      <4> QED BY <4>1 DEF ResumeRow
    <3>4. new[r].base <=> r = b
      <4>1. CASE r = b
        <5>1. new[r] = [text |-> t, parent |-> p, base |-> TRUE]
          BY <3>2, <4>1
        <5> QED BY <4>1, <5>1
      <4>2. CASE r # b
        <5>1. new[r] = [text |-> t, parent |-> p, base |-> FALSE]
          BY <3>2, <4>2
        <5> QED BY <4>2, <5>1
      <4> QED BY <4>1, <4>2
    <3>5. new[r].text = rows[r].text /\ new[r].parent = rows[r].parent
      BY <3>1, <3>2
    <3> QED BY <3>3, <3>4, <3>5
  <2> QED BY <2>3, <2>4
<1>3. new \in [1..n -> ResumeRow]
  <2>1. new = [x \in 1..n |-> new[x]]
    BY <1>2 DEF Based
  <2> QED BY <1>2, <2>1
<1>4. new \in Seq(ResumeRow)
  BY <1>3
<1> HIDE DEF new
<1>5. ResumesApart(new)
  <2>1. \A r, s \in DOMAIN new : new[r].text = new[s].text => r = s
    BY <1>2 DEF ResumesApart
  <2>2. b \in DOMAIN new /\ \A r \in DOMAIN new : new[r].base <=> r = b
    BY <1>2
  <2> QED BY <2>1, <2>2, Zenon DEF ResumesApart
<1>6. Grows(rows, new)
  BY <1>2 DEF Grows
<1> QED BY <1>2, <1>4, <1>5, <1>6 DEF new

LEMMA StoredGood ==
  ASSUME DocumentTypes, ResumesApart(resume),
         NEW text \in Wording, NEW parent \in Nat, NEW makeBase \in BOOLEAN
  PROVE  LET rows == Stored(text, parent, makeBase)
         IN  /\ rows \in Seq(ResumeRow) /\ ResumesApart(rows) /\ Grows(resume, rows)
             /\ NumberOf(text) \in DOMAIN rows
             /\ rows[NumberOf(text)].text = text
             /\ Holding(text) = {} => rows[NumberOf(text)].parent = parent
<1> DEFINE row == [text |-> text, parent |-> parent, base |-> FALSE]
           added == IF Holding(text) # {} THEN resume ELSE Append(resume, row)
<1>1. resume \in Seq(ResumeRow) /\ row \in ResumeRow
  BY DEF DocumentTypes, ResumeRow
<1>2. /\ added \in Seq(ResumeRow) /\ ResumesApart(added) /\ Grows(resume, added)
      /\ NumberOf(text) \in DOMAIN added /\ added[NumberOf(text)].text = text
      /\ Holding(text) = {} => added[NumberOf(text)].parent = parent
  <2>1. CASE Holding(text) # {}
    <3>1. NumberOf(text) \in Holding(text) /\ added = resume
      BY <2>1 DEF NumberOf
    <3> QED BY <1>1, <2>1, <3>1 DEF Holding, Grows
  <2>2. CASE Holding(text) = {}
    <3>1. added = Append(resume, row) /\ NumberOf(text) = Len(resume) + 1
      BY <2>2 DEF NumberOf
    <3>2. /\ added \in Seq(ResumeRow) /\ DOMAIN added = 1..(Len(resume) + 1)
          /\ DOMAIN resume = 1..Len(resume) /\ Len(resume) \in Nat
          /\ \A r \in DOMAIN resume : added[r] = resume[r]
          /\ added[Len(resume) + 1] = row
      BY <1>1, <3>1
    <3>3. \A r \in DOMAIN resume : resume[r].text # text
      BY <2>2 DEF Holding
    <3>4. ResumesApart(added)
      <4>1. PICK b \in DOMAIN resume : \A r \in DOMAIN resume : resume[r].base <=> r = b
        BY DEF ResumesApart
      <4>2. \A r \in DOMAIN added : added[r].base <=> r = b
        BY <3>2, <4>1
      <4>3. \A r, s \in DOMAIN added : added[r].text = added[s].text => r = s
        BY <3>2, <3>3 DEF ResumesApart
      <4> QED BY <3>2, <4>1, <4>2, <4>3 DEF ResumesApart
    <3> QED BY <3>1, <3>2, <3>4 DEF Grows
  <2> QED BY <2>1, <2>2
<1> HIDE DEF added, row
<1>3. Stored(text, parent, makeBase)
        = IF makeBase THEN Based(added, NumberOf(text)) ELSE added
  BY DEF Stored, added, row
<1>4. CASE makeBase
  <2> DEFINE rows == Based(added, NumberOf(text))
  <2>1. /\ rows \in Seq(ResumeRow) /\ ResumesApart(rows) /\ Grows(added, rows)
        /\ DOMAIN rows = DOMAIN added
    BY <1>2, RebasedGood
  <2>2. Stored(text, parent, makeBase) = rows
    BY <1>3, <1>4
  <2> HIDE DEF rows
  <2> QED BY <1>2, <2>1, <2>2 DEF Grows
<1>5. CASE ~makeBase
  BY <1>2, <1>3, <1>5
<1> QED BY <1>4, <1>5

LEMMA GrownGood ==
  ASSUME NEW old, NEW new, Grows(old, new), NEW p, PackGood(p, old)
  PROVE  PackGood(p, new)
BY DEF PackGood, PapersNamed, Grows

(***************************************************************************)
(* Packs.  What each command may make of a pack, given as an outcome.      *)
(***************************************************************************)
OutcomeGood(o) == /\ o.resume \in Seq(ResumeRow) /\ ResumesApart(o.resume) /\ Grows(resume, o.resume)
                  /\ PackGood(o.pack, o.resume)
                  /\ Approved(o.pack) => Grounded(o.pack)

LEMMA PackShape ==
  ASSUME NEW rows, NEW p, PackGood(p, rows)
  PROVE  /\ p = [base |-> p.base, papers |-> p.papers, grounds |-> p.grounds]
         /\ p.base \in Nat /\ p.papers \in Seq(PaperRow) /\ p.grounds \in Seq(Ground)
         /\ Len(p.papers) \in Nat /\ DOMAIN p.papers = 1..Len(p.papers)
         /\ Len(p.grounds) \in Nat \ {0} /\ DOMAIN p.grounds = 1..Len(p.grounds)
         /\ Last(p.grounds) \in Ground
         /\ p.papers # <<>> => Len(p.papers) \in DOMAIN p.papers /\ Last(p.papers) \in PaperRow
BY DEF PackGood, Pack, Last

LEMMA PackChange ==
  ASSUME NEW rows, NEW p, PackGood(p, rows), NEW x
  PROVE  /\ [p EXCEPT !.grounds = x] = [base |-> p.base, papers |-> p.papers, grounds |-> x]
         /\ [p EXCEPT !.papers = x] = [base |-> p.base, papers |-> x, grounds |-> p.grounds]
<1>1. PICK b \in Nat, papers \in Seq(PaperRow), grounds \in Seq(Ground) :
        p = [base |-> b, papers |-> papers, grounds |-> grounds]
  BY DEF PackGood, Pack
<1> QED BY <1>1

LEMMA GroundReviewed ==
  ASSUME NEW g \in Ground
  PROVE  LET row == [g EXCEPT !.reviewed = TRUE]
         IN  row \in Ground /\ row.uses = g.uses /\ row.reviewed
<1>1. PICK uses \in Uses, open \in BOOLEAN, reviewed \in BOOLEAN :
        g = [uses |-> uses, open |-> open, reviewed |-> reviewed]
  BY DEF Ground
<1> QED BY <1>1 DEF Ground

LEMMA ExactType ==
  ASSUME DocumentTypes
  PROVE  Exact \in Uses
BY DEF DocumentTypes, Exact, Uses

LEMMA SavesGood ==
  ASSUME DocumentInv, NEW p, PackGood(p, resume), NEW o \in Saves(p)
  PROVE  OutcomeGood(o) /\ o.resume = resume /\ o.pack.papers = p.papers
<1>1. PICK row \in [uses : SUBSET Exact, open : BOOLEAN, reviewed : BOOLEAN] :
        o = [pack |-> [p EXCEPT !.grounds = Append(@, row)], resume |-> resume]
  BY DEF Saves
<1>2. row \in Ground
  BY ExactType DEF DocumentInv, Uses, Ground
<1>3. /\ o.pack = [p EXCEPT !.grounds = Append(p.grounds, row)] /\ o.resume = resume
  BY <1>1
<1>4. /\ o.pack.base = p.base /\ o.pack.papers = p.papers
      /\ o.pack.grounds = Append(p.grounds, row)
      /\ o.pack = [base |-> p.base, papers |-> p.papers, grounds |-> Append(p.grounds, row)]
  <2>1. o.pack = [base |-> p.base, papers |-> p.papers, grounds |-> Append(p.grounds, row)]
    BY <1>3, PackChange
  <2> QED BY <2>1
<1>5. /\ o.pack.grounds \in Seq(Ground) /\ Len(o.pack.grounds) = Len(p.grounds) + 1
      /\ DOMAIN o.pack.grounds = 1..(Len(p.grounds) + 1)
      /\ \A n \in DOMAIN p.grounds : o.pack.grounds[n] = p.grounds[n]
  BY <1>2, <1>4, PackShape
<1>6. PapersGrounded(o.pack)
  <2>1. PapersGrounded(p) /\ DOMAIN p.grounds \subseteq DOMAIN o.pack.grounds
    BY <1>5, PackShape DEF PackGood
  <2> QED BY <1>4, <1>5, <2>1 DEF PapersGrounded
<1>7. PapersNamed(o.pack, resume)
  BY <1>4 DEF PackGood, PapersNamed
<1>8. o.pack \in Pack
  BY <1>4, <1>5, PackShape DEF Pack
<1>9. PackGood(o.pack, o.resume)
  BY <1>3, <1>4, <1>5, <1>6, <1>7, <1>8, PackShape, SMTT(20) DEF PackGood
<1>10. ~Approved(o.pack)
  <2> SUFFICES ASSUME Approved(o.pack) PROVE FALSE
    OBVIOUS
  <2>1. p.papers # <<>> /\ Last(p.papers).on = Len(p.grounds) + 1
    BY <1>4, <1>5 DEF Approved
  <2>2. Last(p.papers).on \in 1..Len(p.grounds)
    BY <2>1, PackShape DEF PackGood, PapersGrounded, Last
  <2> QED BY <2>1, <2>2, PackShape
<1> QED BY <1>3, <1>4, <1>9, <1>10 DEF OutcomeGood, DocumentInv, DocumentTypes, Grows

LEMMA ReviewsGood ==
  ASSUME DocumentInv, NEW p, PackGood(p, resume), NEW o \in Reviews(p)
  PROVE  OutcomeGood(o)
<1> DEFINE k   == Len(p.grounds)
           row == [Last(p.grounds) EXCEPT !.reviewed = TRUE]
<1>1. /\ o.pack = [p EXCEPT !.grounds[Len(p.grounds)].reviewed = TRUE] /\ o.resume = resume
      /\ ~Last(p.grounds).reviewed
  BY DEF Reviews
<1>2. /\ row \in Ground /\ row.uses = Last(p.grounds).uses /\ row.reviewed
      /\ k \in DOMAIN p.grounds /\ p.grounds[k] = Last(p.grounds)
  <2>1. /\ Last(p.grounds) \in Ground
        /\ k \in DOMAIN p.grounds /\ p.grounds[k] = Last(p.grounds)
    BY PackShape DEF Last
  <2> HIDE DEF k
  <2> QED BY <2>1, GroundReviewed
<1>3. o.pack = [base |-> p.base, papers |-> p.papers, grounds |-> [p.grounds EXCEPT ![k] = row]]
  <2>1. [p.grounds EXCEPT ![k].reviewed = TRUE] = [p.grounds EXCEPT ![k] = row]
    BY <1>2
  <2>2. o.pack = [p EXCEPT !.grounds = [p.grounds EXCEPT ![k].reviewed = TRUE]]
    BY <1>1
  <2> QED BY <2>1, <2>2, PackChange
<1> HIDE DEF k, row
<1>4. /\ o.pack.base = p.base /\ o.pack.papers = p.papers
      /\ o.pack.grounds = [p.grounds EXCEPT ![k] = row]
  BY <1>3
<1>5. /\ o.pack.grounds \in Seq(Ground) /\ Len(o.pack.grounds) = Len(p.grounds)
      /\ DOMAIN o.pack.grounds = DOMAIN p.grounds
      /\ \A n \in DOMAIN p.grounds : /\ o.pack.grounds[n].uses = p.grounds[n].uses
                                     /\ p.grounds[n].reviewed => o.pack.grounds[n].reviewed
  BY <1>2, <1>4, PackShape
<1>6. PapersGrounded(o.pack)
  BY <1>4, <1>5 DEF PackGood, PapersGrounded
<1>7. PapersNamed(o.pack, resume)
  BY <1>4 DEF PackGood, PapersNamed
<1>8. o.pack \in Pack /\ o.pack.grounds # <<>>
  BY <1>3, <1>5, PackShape DEF Pack
<1>9. PackGood(o.pack, o.resume)
  BY <1>1, <1>4, <1>6, <1>7, <1>8 DEF PackGood
<1>10. ~Approved(o.pack)
  <2> SUFFICES ASSUME Approved(o.pack) PROVE FALSE
    OBVIOUS
  <2>1. p.papers # <<>> /\ Last(p.papers).on = Len(p.grounds)
    BY <1>4, <1>5 DEF Approved
  <2>2. p.grounds[Last(p.papers).on].reviewed
    BY <2>1, PackShape DEF PackGood, PapersGrounded, Last
  <2> QED BY <1>1, <2>1, <2>2 DEF Last
<1> QED BY <1>1, <1>9, <1>10 DEF OutcomeGood, DocumentInv, DocumentTypes, Grows

LEMMA GeneratesGood ==
  ASSUME DocumentInv, NEW p, PackGood(p, resume), NEW o \in Generates(p)
  PROVE  OutcomeGood(o) /\ o.resume = resume
<1>1. PICK selected \in SUBSET Last(p.grounds).uses :
        /\ o = [pack |-> [p EXCEPT !.papers = Append(@, Paper(p, Len(p.grounds), selected))],
                resume |-> resume]
        /\ Grounded(p)
  BY DEF Generates
<1> DEFINE row == Paper(p, Len(p.grounds), selected)
<1>2. /\ row \in PaperRow /\ row.on = Len(p.grounds) /\ row.uses = selected
      /\ row.verdict = "none"
  <2>1. selected \in Uses
    BY PackShape DEF Ground, Uses
  <2>2. resume[p.base].text \in Wording
    <3>1. p.base \in DOMAIN resume /\ resume \in Seq(ResumeRow)
      BY DEF PackGood, DocumentInv, DocumentTypes
    <3>2. resume[p.base] \in ResumeRow
      BY <3>1
    <3> QED BY <3>2 DEF ResumeRow
  <2>3. Append(resume[p.base].text, selected) \in Wording
    BY <2>1, <2>2 DEF Wording
  <2> QED BY <2>1, <2>3, PackShape DEF Paper, PaperRow, NoResume
<1> HIDE DEF row
<1>3. /\ o.pack = [base |-> p.base, papers |-> Append(p.papers, row), grounds |-> p.grounds]
      /\ o.resume = resume
  <2>1. o.pack = [p EXCEPT !.papers = Append(p.papers, row)] /\ o.resume = resume
    BY <1>1 DEF row
  <2> QED BY <2>1, PackChange
<1>4. /\ o.pack.papers \in Seq(PaperRow) /\ Len(o.pack.papers) = Len(p.papers) + 1
      /\ DOMAIN o.pack.papers = 1..(Len(p.papers) + 1)
      /\ \A n \in DOMAIN p.papers : o.pack.papers[n] = p.papers[n]
      /\ o.pack.papers[Len(p.papers) + 1] = row
  BY <1>2, <1>3, PackShape
<1>5. \A n \in DOMAIN o.pack.papers : n \in DOMAIN p.papers \/ n = Len(p.papers) + 1
  BY <1>4, PackShape
<1>6. PapersGrounded(o.pack)
  <2>1. /\ Len(p.grounds) \in DOMAIN p.grounds /\ p.grounds[Len(p.grounds)].reviewed
        /\ selected \subseteq p.grounds[Len(p.grounds)].uses
    BY <1>1, PackShape DEF Grounded, Last
  <2>2. PapersGrounded(p) /\ o.pack.grounds = p.grounds
    BY <1>3 DEF PackGood
  <2> QED BY <1>2, <1>4, <1>5, <2>1, <2>2 DEF PapersGrounded
<1>7. PapersNamed(o.pack, resume)
  <2>1. PapersNamed(p, resume) /\ o.pack.base = p.base
    BY <1>3 DEF PackGood
  <2> QED BY <1>2, <1>4, <1>5, <2>1 DEF PapersNamed
<1>8. o.pack \in Pack /\ o.pack.grounds # <<>>
  BY <1>3, <1>4, PackShape DEF Pack
<1>9. PackGood(o.pack, o.resume)
  BY <1>3, <1>6, <1>7, <1>8 DEF PackGood
<1>10. ~Approved(o.pack)
  BY <1>2, <1>4 DEF Approved, Last
<1> QED BY <1>3, <1>9, <1>10 DEF OutcomeGood, DocumentInv, DocumentTypes, Grows

\* The last paper gets a verdict.
LEMMA JudgedGood ==
  ASSUME DocumentInv, NEW p, PackGood(p, resume), Judgeable(p),
         NEW row \in PaperRow, row.on = Last(p.papers).on, row.uses = Last(p.papers).uses,
         NEW o, o.pack = [p EXCEPT !.papers = [@ EXCEPT ![Len(p.papers)] = row]],
         o.resume \in Seq(ResumeRow), ResumesApart(o.resume), Grows(resume, o.resume),
         row.verdict = "approved" => /\ row.resume \in DOMAIN o.resume
                                     /\ o.resume[row.resume].text = row.text
                                     /\ o.resume[row.resume].parent = p.base
  PROVE  OutcomeGood(o)
<1> DEFINE k == Len(p.papers)
<1>1. o.pack = [base |-> p.base, papers |-> [p.papers EXCEPT ![k] = row], grounds |-> p.grounds]
  BY PackChange
<1>2. k \in DOMAIN p.papers /\ p.papers[k] = Last(p.papers)
  BY PackShape DEF Judgeable, Last
<1>3. /\ o.pack.papers \in Seq(PaperRow) /\ DOMAIN o.pack.papers = DOMAIN p.papers
      /\ Len(o.pack.papers) = Len(p.papers)
      /\ o.pack.papers[k] = row
      /\ \A n \in DOMAIN p.papers \ {k} : o.pack.papers[n] = p.papers[n]
  BY <1>1, <1>2, PackShape
<1> HIDE DEF k
<1>4. PapersGrounded(o.pack)
  <2>1. PapersGrounded(p) /\ o.pack.grounds = p.grounds
    BY <1>1 DEF PackGood
  <2> QED BY <1>2, <1>3, <2>1 DEF PapersGrounded
<1>5. PapersNamed(o.pack, o.resume)
  <2>1. PapersNamed(p, o.resume) /\ o.pack.base = p.base
    BY <1>1, GrownGood DEF PackGood
  <2> QED BY <1>3, <2>1 DEF PapersNamed
<1>6. o.pack \in Pack /\ o.pack.grounds # <<>> /\ o.pack.base \in DOMAIN o.resume
  BY <1>1, <1>3, PackShape DEF Pack, PackGood, Grows
<1>7. PackGood(o.pack, o.resume)
  BY <1>4, <1>5, <1>6 DEF PackGood
<1>8. Grounded(o.pack)
  BY <1>1 DEF Judgeable, Grounded
<1> QED BY <1>7, <1>8 DEF OutcomeGood

LEMMA RejectsGood ==
  ASSUME DocumentInv, NEW p, PackGood(p, resume), NEW o \in Rejects(p)
  PROVE  OutcomeGood(o)
<1> DEFINE row == [Last(p.papers) EXCEPT !.verdict = "rejected"]
<1>1. /\ Judgeable(p) /\ o.resume = resume
      /\ o.pack = [p EXCEPT !.papers[Len(p.papers)].verdict = "rejected"]
  BY DEF Rejects
<1>2. /\ Last(p.papers) \in PaperRow /\ Len(p.papers) \in DOMAIN p.papers
      /\ p.papers[Len(p.papers)] = Last(p.papers)
  BY <1>1, PackShape DEF Judgeable, Last
<1>3. /\ row \in PaperRow /\ row.on = Last(p.papers).on /\ row.uses = Last(p.papers).uses
      /\ row.verdict = "rejected"
  BY <1>2 DEF PaperRow
<1>4. o.pack = [p EXCEPT !.papers = [@ EXCEPT ![Len(p.papers)] = row]]
  <2>1. [p.papers EXCEPT ![Len(p.papers)].verdict = "rejected"]
          = [p.papers EXCEPT ![Len(p.papers)] = row]
    BY <1>2
  <2>2. o.pack = [p EXCEPT !.papers = [p.papers EXCEPT ![Len(p.papers)].verdict = "rejected"]]
    BY <1>1
  <2> QED BY <2>1, <2>2
<1>5. /\ o.resume \in Seq(ResumeRow) /\ ResumesApart(o.resume) /\ Grows(resume, o.resume)
  BY <1>1 DEF DocumentInv, DocumentTypes, Grows
<1> HIDE DEF row
<1> QED BY <1>1, <1>3, <1>4, <1>5, JudgedGood

LEMMA ApprovesGood ==
  ASSUME DocumentInv, NEW p, PackGood(p, resume), NEW o \in Approves(p)
  PROVE  OutcomeGood(o)
<1> DEFINE paper == Last(p.papers)
           rows  == Stored(paper.text, p.base, FALSE)
           row   == [paper EXCEPT !.verdict = "approved", !.resume = NumberOf(paper.text)]
<1>1. /\ Judgeable(p) /\ Adoptable(p, paper.text) /\ o.resume = rows
      /\ o.pack = [p EXCEPT !.papers[Len(p.papers)].verdict = "approved",
                            !.papers[Len(p.papers)].resume = NumberOf(paper.text)]
  <2>1. Judgeable(p) /\ Adoptable(p, paper.text)
    BY DEF Approves
  <2>2. o = [pack   |-> [p EXCEPT !.papers[Len(p.papers)].verdict = "approved",
                                  !.papers[Len(p.papers)].resume = NumberOf(paper.text)],
             resume |-> rows]
    BY <2>1 DEF Approves
  <2> HIDE DEF rows
  <2> QED BY <2>1, <2>2
<1>2. /\ paper \in PaperRow /\ Len(p.papers) \in DOMAIN p.papers
      /\ p.papers[Len(p.papers)] = paper
  BY <1>1, PackShape DEF Judgeable, Last
<1>3. /\ rows \in Seq(ResumeRow) /\ ResumesApart(rows) /\ Grows(resume, rows)
      /\ NumberOf(paper.text) \in DOMAIN rows
      /\ rows[NumberOf(paper.text)].text = paper.text
      /\ Holding(paper.text) = {} => rows[NumberOf(paper.text)].parent = p.base
  <2>1. paper.text \in Wording /\ p.base \in Nat
    BY <1>2, PackShape DEF PaperRow
  <2> QED BY <2>1, StoredGood DEF DocumentInv
<1>4. rows[NumberOf(paper.text)].parent = p.base
  <2>1. CASE Holding(paper.text) = {}
    BY <1>3, <2>1
  <2>2. CASE Holding(paper.text) # {}
    <3>1. NumberOf(paper.text) \in Holding(paper.text)
      BY <2>2 DEF NumberOf
    <3>2. /\ NumberOf(paper.text) \in DOMAIN resume
          /\ resume[NumberOf(paper.text)].parent = p.base
      BY <1>1, <3>1 DEF Adoptable, Holding
    <3> QED BY <1>3, <3>2 DEF Grows
  <2> QED BY <2>1, <2>2
<1>5. NumberOf(paper.text) \in Nat
  <2>1. rows \in Seq(ResumeRow) /\ NumberOf(paper.text) \in DOMAIN rows
    BY <1>3
  <2> HIDE DEF rows
  <2> QED BY <2>1
<1>6. /\ row \in PaperRow /\ row.on = paper.on /\ row.uses = paper.uses
      /\ row.resume = NumberOf(paper.text) /\ row.text = paper.text
  BY <1>2, <1>5 DEF PaperRow
<1>7. o.pack = [p EXCEPT !.papers = [@ EXCEPT ![Len(p.papers)] = row]]
  <2> DEFINE k == Len(p.papers)
             once == [p.papers EXCEPT ![k].verdict = "approved"]
  <2>1. o.pack = [p EXCEPT !.papers = [once EXCEPT ![k].resume = NumberOf(paper.text)]]
    BY <1>1, PackShape
  <2>2. [once EXCEPT ![k].resume = NumberOf(paper.text)] = [p.papers EXCEPT ![k] = row]
    BY <1>2
  <2> QED BY <2>1, <2>2
<1> HIDE DEF rows, row
<1>8. /\ o.resume \in Seq(ResumeRow) /\ ResumesApart(o.resume) /\ Grows(resume, o.resume)
      /\ row.resume \in DOMAIN o.resume /\ o.resume[row.resume].text = row.text
      /\ o.resume[row.resume].parent = p.base
  BY <1>1, <1>3, <1>4, <1>6
<1> QED BY <1>1, <1>6, <1>7, <1>8, JudgedGood

LEMMA DossiersGood ==
  ASSUME DocumentInv, NEW p, PackGood(p, resume), NEW o \in Dossiers(p)
  PROVE  OutcomeGood(o)
<1>1. PICK papers \in Prepared(p) : o \in Approves(papers.pack)
  BY DEF Dossiers
<1>2. PICK grounds \in Saves(p) : papers \in Generates(grounds.pack)
  BY DEF Prepared
<1>3. PackGood(grounds.pack, resume)
  BY SavesGood DEF OutcomeGood
<1>4. PackGood(papers.pack, resume)
  BY <1>2, <1>3, GeneratesGood DEF OutcomeGood
<1> QED BY <1>1, <1>4, ApprovesGood

(***************************************************************************)
(* Steps.                                                                  *)
(***************************************************************************)
LEMMA InitGood == DocumentsInit => DocumentInv
<1> SUFFICES ASSUME DocumentsInit PROVE DocumentInv
  OBVIOUS
<1>1. PICK t \in Texts : resume = <<[text |-> <<t>>, parent |-> NoResume, base |-> TRUE]>>
  BY DEF DocumentsInit
<1> DEFINE row == [text |-> <<t>>, parent |-> NoResume, base |-> TRUE]
<1>2. row \in ResumeRow
  BY DEF ResumeRow, Wording, NoResume
<1> HIDE DEF row
<1>3. resume = <<row>>
  BY <1>1 DEF row
<1>4. resume \in Seq(ResumeRow) /\ DOMAIN resume = {1} /\ resume[1] = row
  BY <1>2, <1>3
<1>5. row.base
  BY DEF row
<1>6. ResumesApart(resume)
  BY <1>4, <1>5 DEF ResumesApart
<1>7. DocumentTypes
  BY <1>4 DEF DocumentsInit, DocumentTypes
<1>8. \A a \in Applications : pack[a] = NoPack
  BY DEF DocumentsInit
<1> QED BY <1>6, <1>7, <1>8 DEF DocumentInv

\* The resumes move on while the packs stay.
LEMMA ResumesMove ==
  ASSUME DocumentInv, UNCHANGED <<evidence, pack, stage>>,
         NEW rows \in Seq(ResumeRow), resume' = rows, ResumesApart(rows), Grows(resume, rows)
  PROVE  DocumentInv'
<1>1. \A a \in Applications : pack[a] # NoPack => PackGood(pack[a], rows)
  BY GrownGood DEF DocumentInv
<1> QED BY <1>1 DEF DocumentInv, DocumentTypes

LEMMA CommitGood ==
  ASSUME DocumentInv, NEW a \in Applications, pack[a] # NoPack, NEW o, OutcomeGood(o),
         pack' = [pack EXCEPT ![a] = o.pack], resume' = o.resume, UNCHANGED <<evidence, stage>>
  PROVE  DocumentInv'
<1>1. /\ o.resume \in Seq(ResumeRow) /\ ResumesApart(o.resume) /\ Grows(resume, o.resume)
      /\ PackGood(o.pack, o.resume)
  BY DEF OutcomeGood
<1>2. o.pack \in Pack
  BY <1>1 DEF PackGood
<1>3. DocumentTypes'
  BY <1>1, <1>2 DEF DocumentInv, DocumentTypes
<1>4. ASSUME NEW b \in Applications, pack'[b] # NoPack
      PROVE  PackGood(pack'[b], o.resume)
  <2>1. CASE b = a
    <3>1. pack'[b] = o.pack
      BY <2>1 DEF DocumentInv, DocumentTypes
    <3> QED BY <1>1, <3>1
  <2>2. CASE b # a
    <3>1. pack'[b] = pack[b]
      BY <2>2 DEF DocumentInv, DocumentTypes
    <3>2. PackGood(pack[b], resume)
      BY <1>4, <3>1 DEF DocumentInv
    <3> QED BY <1>1, <3>1, <3>2, GrownGood
  <2> QED BY <2>1, <2>2
<1> QED BY <1>1, <1>3, <1>4 DEF DocumentInv

\* What a command on a pack does.
LEMMA CommitOutcome ==
  ASSUME DocumentInv, NEW s \in Sessions, NEW a \in Applications,
         \/ Commit(s, a, Saves(pack[a])) \/ Commit(s, a, Reviews(pack[a]))
         \/ Commit(s, a, Generates(pack[a])) \/ Commit(s, a, Rejects(pack[a]))
         \/ Commit(s, a, Approves(pack[a])) \/ Commit(s, a, Dossiers(pack[a]))
  PROVE  \E o : /\ OutcomeGood(o) /\ pack[a] # NoPack
                /\ pack' = [pack EXCEPT ![a] = o.pack] /\ resume' = o.resume
                /\ UNCHANGED <<evidence, stage>>
<1>1. pack[a] # NoPack
  BY DEF Commit
<1>2. PackGood(pack[a], resume)
  BY <1>1 DEF DocumentInv
<1>3. PICK outcomes \in {Saves(pack[a]), Reviews(pack[a]), Generates(pack[a]),
                         Rejects(pack[a]), Approves(pack[a]), Dossiers(pack[a])} :
        Commit(s, a, outcomes)
  OBVIOUS
<1>4. PICK o \in outcomes :
        /\ pack' = [pack EXCEPT ![a] = o.pack] /\ resume' = o.resume
        /\ UNCHANGED <<evidence, stage>>
  BY <1>3 DEF Commit
<1>5. OutcomeGood(o)
  BY <1>2, <1>3, <1>4, SavesGood, ReviewsGood, GeneratesGood, RejectsGood, ApprovesGood,
     DossiersGood
<1> QED BY <1>1, <1>4, <1>5

LEMMA WriteGood ==
  ASSUME DocumentInv, NEW text \in Wording, NEW parent \in Nat, NEW makeBase \in BOOLEAN,
         Write(text, parent, makeBase)
  PROVE  DocumentInv'
<1> DEFINE rows == Stored(text, parent, makeBase)
<1>1. rows \in Seq(ResumeRow) /\ ResumesApart(rows) /\ Grows(resume, rows)
  BY StoredGood DEF DocumentInv
<1>2. resume' = rows /\ UNCHANGED <<evidence, pack, stage>>
  BY DEF Write
<1> HIDE DEF rows
<1> QED BY <1>1, <1>2, ResumesMove

LEMMA SetBaseGood ==
  ASSUME DocumentInv, NEW r \in DOMAIN resume, SetBase(r)
  PROVE  DocumentInv'
<1>1. resume \in Seq(ResumeRow) /\ ResumesApart(resume)
  BY DEF DocumentInv, DocumentTypes
<1> DEFINE rows == Based(resume, r)
<1>2. rows \in Seq(ResumeRow) /\ ResumesApart(rows) /\ Grows(resume, rows)
  BY <1>1, RebasedGood
<1>3. resume' = rows /\ UNCHANGED <<evidence, pack, stage>>
  BY DEF SetBase
<1> HIDE DEF rows
<1> QED BY <1>2, <1>3, ResumesMove

LEMMA CreateGood ==
  ASSUME DocumentInv, NEW a \in Applications, NEW r \in DOMAIN resume, CreatePack(a, r)
  PROVE  DocumentInv' /\ UNCHANGED <<evidence, resume, stage>>
         /\ \A b \in Applications : pack'[b] # pack[b] => b = a /\ pack'[a].papers = <<>>
<1> DEFINE new == [base |-> r, papers |-> <<>>, grounds |-> <<Extracted>>]
<1>1. /\ pack' = [pack EXCEPT ![a] = new] /\ UNCHANGED <<evidence, resume, stage>>
  BY DEF CreatePack
<1>2. Extracted \in Ground
  BY DEF Extracted, Ground, Uses
<1>3. r \in Nat
  BY DEF DocumentInv, DocumentTypes
<1>4. PackGood(new, resume)
  BY <1>2, <1>3 DEF PackGood, Pack, PapersGrounded, PapersNamed
<1>5. new \in Pack /\ new.papers = <<>>
  BY <1>2, <1>3 DEF Pack
<1> HIDE DEF new
<1>6. \A b \in Applications : pack'[b] = IF b = a THEN new ELSE pack[b]
  BY <1>1 DEF DocumentInv, DocumentTypes
<1>7. DocumentTypes'
  BY <1>1, <1>5 DEF DocumentInv, DocumentTypes
<1>8. \A b \in Applications : pack'[b] # NoPack => PackGood(pack'[b], resume')
  BY <1>1, <1>4, <1>6 DEF DocumentInv
<1> QED BY <1>1, <1>5, <1>6, <1>7, <1>8 DEF DocumentInv

LEMMA StageMoves ==
  ASSUME DocumentInv, NEW a \in Applications, MakeReady(a) \/ Submit(a) \/ UndoApplication(a)
  PROVE  DocumentInv'
<1>1. /\ UNCHANGED <<evidence, resume>>
      /\ stage' \in [Applications -> {"pursuing", "ready_to_apply", "applied", "undone"}]
  BY DEF MakeReady, Submit, UndoApplication, DocumentInv, DocumentTypes
<1>2. \A b \in Applications : pack'[b] = pack[b] \/ pack'[b] = NoPack
  BY DEF MakeReady, Submit, UndoApplication, DocumentInv, DocumentTypes
<1>3. pack' \in [Applications -> Pack \cup {NoPack}]
  BY DEF MakeReady, Submit, UndoApplication, DocumentInv, DocumentTypes
<1>4. \A b \in Applications : pack'[b] # NoPack => PackGood(pack'[b], resume')
  BY <1>1, <1>2 DEF DocumentInv
<1> QED BY <1>1, <1>3, <1>4 DEF DocumentInv, DocumentTypes

LEMMA EvidenceMoves ==
  ASSUME DocumentInv, NEW e \in Evidence, ReviewEvidence(e) \/ Edit(e)
  PROVE  DocumentInv'
<1>1. PICK state \in {"pending", "approved", "rejected", "retired"} : SetEvidence(e, state)
  BY DEF ReviewEvidence, Edit
<1>2. UNCHANGED <<resume, pack, stage>>
  BY <1>1 DEF SetEvidence
<1>3. DocumentTypes'
  BY <1>1 DEF SetEvidence, DocumentInv, DocumentTypes
<1> QED BY <1>2, <1>3 DEF DocumentInv

LEMMA UploadsType ==
  ASSUME DocumentInv
  PROVE  Uploads \subseteq Wording
<1>1. ASSUME NEW t \in Texts PROVE <<t>> \in Wording
  BY DEF Wording
<1>2. ASSUME NEW a \in Applications, pack[a] # NoPack, NEW n \in DOMAIN pack[a].papers
      PROVE  pack[a].papers[n].text \in Wording
  <2>1. pack[a].papers \in Seq(PaperRow)
    BY <1>2, PackShape DEF DocumentInv
  <2>2. pack[a].papers[n] \in PaperRow
    BY <1>2, <2>1
  <2> QED BY <2>2 DEF PaperRow
<1> QED BY <1>1, <1>2 DEF Uploads

LEMMA NextGood ==
  ASSUME DocumentInv, [DocumentsNext]_documentVars
  PROVE  DocumentInv'
<1>1. ASSUME NEW e \in Evidence, ReviewEvidence(e) \/ Edit(e) PROVE DocumentInv'
  BY <1>1, EvidenceMoves
<1>2. ASSUME NEW r \in DOMAIN resume, SetBase(r) PROVE DocumentInv'
  BY <1>2, SetBaseGood
<1>3. ASSUME NEW text \in Uploads, NEW parent \in {NoResume} \cup DOMAIN resume,
             NEW makeBase \in BOOLEAN, Write(text, parent, makeBase)
      PROVE  DocumentInv'
  <2>1. text \in Wording
    BY UploadsType
  <2>2. parent \in Nat
    BY DEF NoResume, DocumentInv, DocumentTypes
  <2> QED BY <1>3, <2>1, <2>2, WriteGood
<1>4. ASSUME NEW a \in Applications, NEW r \in DOMAIN resume, CreatePack(a, r) PROVE DocumentInv'
  BY <1>4, CreateGood
<1>5. ASSUME UNCHANGED <<evidence, resume, pack, stage>> PROVE DocumentInv'
  BY <1>5 DEF DocumentInv, DocumentTypes
<1>6. ASSUME NEW a \in Applications, MakeReady(a) \/ Submit(a) \/ UndoApplication(a) PROVE DocumentInv'
  BY <1>6, StageMoves
<1>7. ASSUME NEW s \in Sessions, NEW a \in Applications,
             \/ Commit(s, a, Saves(pack[a])) \/ Commit(s, a, Reviews(pack[a]))
             \/ Commit(s, a, Generates(pack[a])) \/ Commit(s, a, Rejects(pack[a]))
             \/ Commit(s, a, Approves(pack[a])) \/ Commit(s, a, Dossiers(pack[a]))
      PROVE  DocumentInv'
  BY <1>7, CommitOutcome, CommitGood
<1>8. ASSUME NEW s \in Sessions, Leave(s) \/ \E a \in Applications : Enter(s, a) PROVE DocumentInv'
  BY <1>5, <1>8 DEF Leave, Enter
<1>9. CASE UNCHANGED documentVars
  BY <1>5, <1>9 DEF documentVars
<1>10. CASE DocumentsNext
  BY <1>1, <1>2, <1>3, <1>4, <1>6, <1>7, <1>8, <1>10 DEF DocumentsNext
<1> QED BY <1>9, <1>10

(***************************************************************************)
(* Theorems.                                                               *)
(***************************************************************************)
LEMMA NamesFollow == DocumentInv => ApprovalsNameTheirText
<1> SUFFICES ASSUME DocumentInv PROVE ApprovalsNameTheirText
  OBVIOUS
<1>1. ASSUME NEW a \in Applications, pack[a] # NoPack, NEW n \in DOMAIN pack[a].papers,
             pack[a].papers[n].verdict = "approved"
      PROVE  /\ resume[pack[a].papers[n].resume].text = pack[a].papers[n].text
             /\ resume[pack[a].papers[n].resume].parent = pack[a].base
  BY <1>1 DEF DocumentInv, PackGood, PapersNamed
<1>2. \A r, s \in DOMAIN resume : resume[r].text = resume[s].text => r = s
  BY DEF DocumentInv, ResumesApart
<1>3. Cardinality({r \in DOMAIN resume : resume[r].base}) = 1
  <2>1. PICK b \in DOMAIN resume : \A r \in DOMAIN resume : resume[r].base <=> r = b
    BY DEF DocumentInv, ResumesApart
  <2>2. {r \in DOMAIN resume : resume[r].base} = {b}
    BY <2>1
  <2> QED BY <2>2, FS_Singleton
<1> QED BY <1>1, <1>2, <1>3 DEF ApprovalsNameTheirText

\* application_artifact_repository.py, profile_repository.py: in every state an approval names
\* a resume that says what was approved and descends from the one the pack is pinned to.
THEOREM Naming == DocumentsSpec => []ApprovalsNameTheirText
<1>1. DocumentInv /\ [DocumentsNext]_documentVars => DocumentInv'
  BY NextGood
<1> QED BY <1>1, InitGood, NamesFollow, PTL DEF DocumentsSpec

LEMMA ApprovedGrounded ==
  ASSUME NEW rows, NEW p, PackGood(p, rows), Approved(p), Grounded(p)
  PROVE  /\ Last(p.papers).verdict = "approved" /\ Last(p.papers).on = Len(p.grounds)
         /\ Last(p.grounds).reviewed /\ Last(p.papers).uses \subseteq Last(p.grounds).uses
         /\ Last(p.grounds).uses \subseteq Exact
<1>1. Len(p.papers) \in DOMAIN p.papers /\ PapersGrounded(p)
  BY PackShape DEF Approved, PackGood
<1>2. Last(p.papers).uses \subseteq p.grounds[Last(p.papers).on].uses
  BY <1>1 DEF PapersGrounded, Last
<1> QED BY <1>2 DEF Approved, Grounded, Last

LEMMA StepGrounded ==
  ASSUME DocumentInv, DocumentsNext, NEW a \in Applications, stage'[a] # "undone",
         \/ stage[a] = "pursuing" /\ stage'[a] = "ready_to_apply"
         \/ pack'[a] # NoPack /\ pack[a] # pack'[a] /\ Approved(pack'[a])
  PROVE  \E rows : PackGood(pack'[a], rows) /\ Approved(pack'[a]) /\ Grounded(pack'[a])
<1> DEFINE Goal == \E rows : /\ PackGood(pack'[a], rows)
                             /\ Approved(pack'[a]) /\ Grounded(pack'[a])
<1>1. ASSUME UNCHANGED <<pack, stage>> PROVE FALSE
  BY <1>1
<1>2. ASSUME NEW b \in Applications, NEW r \in DOMAIN resume, CreatePack(b, r) PROVE FALSE
  <2>1. stage' = stage /\ pack'[a] # pack[a]
    BY <1>2, CreateGood
  <2>2. pack'[a].papers = <<>>
    BY <1>2, <2>1, CreateGood
  <2> QED BY <1>2, <2>1, <2>2, CreateGood DEF Approved
<1>3. ASSUME NEW b \in Applications, Submit(b) \/ UndoApplication(b) PROVE FALSE
  BY <1>3 DEF Submit, UndoApplication, DocumentInv, DocumentTypes
<1>4. ASSUME NEW b \in Applications, MakeReady(b) PROVE Goal
  <2>1. b = a /\ pack' = pack
    BY <1>4 DEF MakeReady, DocumentInv, DocumentTypes
  <2>2. Complete(pack[a]) /\ Grounded(pack[a])
    BY <1>4, <2>1 DEF MakeReady
  <2>3. Approved(pack[a]) /\ pack[a] # NoPack
    BY <2>2 DEF Complete, Approved
  <2>4. PackGood(pack[a], resume)
    BY <2>3 DEF DocumentInv
  <2> QED BY <2>1, <2>2, <2>3, <2>4
<1>5. ASSUME NEW s \in Sessions, NEW b \in Applications,
             \/ Commit(s, b, Saves(pack[b])) \/ Commit(s, b, Reviews(pack[b]))
             \/ Commit(s, b, Generates(pack[b])) \/ Commit(s, b, Rejects(pack[b]))
             \/ Commit(s, b, Approves(pack[b])) \/ Commit(s, b, Dossiers(pack[b]))
      PROVE  Goal
  <2>1. PICK o : /\ OutcomeGood(o) /\ pack' = [pack EXCEPT ![b] = o.pack] /\ stage' = stage
    BY <1>5, CommitOutcome
  <2>2. b = a /\ pack'[a] = o.pack
    BY <2>1 DEF DocumentInv, DocumentTypes
  <2>3. PackGood(o.pack, o.resume) /\ (Approved(o.pack) => Grounded(o.pack))
    BY <2>1 DEF OutcomeGood
  <2>4. Approved(pack'[a])
    BY <2>1, <2>2
  <2> QED BY <2>2, <2>3, <2>4
<1> HIDE DEF Goal
<1>6. ASSUME NEW e \in Evidence, ReviewEvidence(e) \/ Edit(e) PROVE FALSE
  BY <1>1, <1>6 DEF ReviewEvidence, Edit, SetEvidence
<1>7. ASSUME NEW r \in DOMAIN resume, SetBase(r) PROVE FALSE
  BY <1>1, <1>7 DEF SetBase
<1>8. ASSUME NEW text, NEW parent, NEW makeBase, Write(text, parent, makeBase) PROVE FALSE
  BY <1>1, <1>8 DEF Write
<1>9. ASSUME NEW s \in Sessions, Leave(s) PROVE FALSE
  BY <1>1, <1>9 DEF Leave
<1>10. ASSUME NEW s \in Sessions, NEW b \in Applications, Enter(s, b) PROVE FALSE
  BY <1>1, <1>10 DEF Enter
<1>11. Goal
  BY <1>2, <1>3, <1>4, <1>5, <1>6, <1>7, <1>8, <1>9, <1>10 DEF DocumentsNext
<1> QED BY <1>11 DEF Goal

\* What is approved, and what an application becomes ready with, rests on the latest reviewed
\* grounds and on evidence as it is at that moment: in every step.
THEOREM Grounding == DocumentsSpec => ApprovalsGrounded
<1>1. DocumentInv /\ [DocumentsNext]_documentVars => DocumentInv'
  BY NextGood
<1>2. DocumentInv /\ [DocumentsNext]_documentVars =>
        [\A a \in Applications : stage'[a] # "undone" =>
           LET p == pack'[a]
           IN  \/ stage[a] = "pursuing" /\ stage'[a] = "ready_to_apply"
               \/ /\ p # NoPack /\ pack[a] # p /\ p.papers # <<>>
                  /\ Last(p.papers).verdict = "approved" /\ Last(p.papers).on = Len(p.grounds)
             => /\ Last(p.papers).verdict = "approved" /\ Last(p.papers).on = Len(p.grounds)
                /\ Last(p.grounds).reviewed /\ Last(p.papers).uses \subseteq Last(p.grounds).uses
                /\ Last(p.grounds).uses \subseteq Exact]_documentVars
  <2> SUFFICES ASSUME DocumentInv, DocumentsNext, NEW a \in Applications, stage'[a] # "undone",
                      \/ stage[a] = "pursuing" /\ stage'[a] = "ready_to_apply"
                      \/ pack'[a] # NoPack /\ pack[a] # pack'[a] /\ Approved(pack'[a])
               PROVE  LET p == pack'[a]
                      IN  /\ Last(p.papers).verdict = "approved"
                          /\ Last(p.papers).on = Len(p.grounds) /\ Last(p.grounds).reviewed
                          /\ Last(p.papers).uses \subseteq Last(p.grounds).uses
                          /\ Last(p.grounds).uses \subseteq Exact
    BY DEF Approved
  <2>1. PICK p, rows : p = pack'[a] /\ PackGood(p, rows) /\ Approved(p) /\ Grounded(p)
    BY StepGrounded
  <2> QED BY <2>1, ApprovedGrounded
<1> QED BY <1>1, <1>2, InitGood, PTL DEF DocumentsSpec, ApprovalsGrounded

(***************************************************************************)
(* Theorems about Outreach, for any number of applications and people, any *)
(* limits, and however long commands wait for their rows.                  *)
(***************************************************************************)
States == {"reserve", "excluded", "ready", "paused", "stopped"}

Event == [app : Apps, person : People, kind : Kinds, event : {"copied", "sent"},
          version : Nat, at : Int]

OutreachTypes ==
  /\ clock \in Nat
  /\ sequence \in [Apps -> {"none", "active", "paused", "stopped", "completed"}]
  /\ bench \in [Apps -> [People -> States]]
  /\ drafts \in [Apps -> [People -> [Kinds -> Nat]]]
  /\ log \subseteq Event
  /\ answered \subseteq Apps \X People
  /\ restricted \subseteq People

\* Strangers with a first message between t - ColdWindow and t.
Strangers(t) == {f.person : f \in {x \in Releases :
                   x.person \in Cold /\ t - ColdWindow <= x.at /\ x.at <= t}}

CooldownsSpan ==
  \A e, f \in Releases : e.person = f.person /\ e.app # f.app =>
    e.at + PersonCooldown <= f.at \/ f.at + PersonCooldown <= e.at

\* The limit holds in the window before any instant, not only before a release.
WindowsHold == \A t \in Int : Cardinality(Strangers(t)) <= ColdLimit

\* Who was written to is, or was, one of those the sequence may write to.
WrittenWereReady ==
  \A e \in log : bench[e.app][e.person] \in {"ready", "paused", "stopped"}

OutreachInv == /\ OutreachTypes /\ CooldownsSpan /\ WindowsHold /\ WrittenWereReady
       /\ SequencesMatchBenches /\ OutreachReadable

(***************************************************************************)
(* The limits.                                                             *)
(***************************************************************************)
LEMMA StrangersFinite ==
  ASSUME IsFiniteSet(People), OutreachTypes, NEW t \in Int
  PROVE  IsFiniteSet(Strangers(t)) /\ Strangers(t) \subseteq People
<1>1. Strangers(t) \subseteq People
  BY DEF Strangers, Releases, OutreachTypes, Event
<1> QED BY <1>1, FS_Subset

LEMMA LimitsFollow ==
  ASSUME OutreachTypes, CooldownsSpan, WindowsHold
  PROVE  LimitsSpanApplications
<1>1. \A e \in Releases : e.at \in Int
  BY DEF Releases, OutreachTypes, Event
<1> QED BY <1>1 DEF CooldownsSpan, WindowsHold, Strangers, LimitsSpanApplications

\* Fewer releases than before.
LEMMA FewerHold ==
  ASSUME IsFiniteSet(People), ColdLimit \in Nat, OutreachTypes, CooldownsSpan, WindowsHold,
         log' \subseteq log
  PROVE  CooldownsSpan' /\ WindowsHold'
<1>1. Releases' \subseteq Releases
  BY DEF Releases
<1>2. CooldownsSpan'
  BY <1>1 DEF CooldownsSpan
<1>3. ASSUME NEW t \in Int
      PROVE  Cardinality(Strangers(t)') <= Cardinality(Strangers(t))
  <2>1. Strangers(t)' \subseteq Strangers(t)
    BY <1>1 DEF Strangers
  <2> QED BY <2>1, StrangersFinite, FS_Subset
<1>4. \A t \in Int : Cardinality(Strangers(t)) \in Nat /\ Cardinality(Strangers(t)') \in Nat
  <2> SUFFICES ASSUME NEW t \in Int
               PROVE  Cardinality(Strangers(t)) \in Nat /\ Cardinality(Strangers(t)') \in Nat
    OBVIOUS
  <2>1. Strangers(t)' \subseteq Strangers(t)
    BY <1>1 DEF Strangers
  <2> QED BY <2>1, StrangersFinite, FS_Subset, FS_CardinalityType
<1>5. ASSUME NEW t \in Int PROVE Cardinality(Strangers(t)') <= ColdLimit
  <2>1. Cardinality(Strangers(t)) <= ColdLimit
    BY DEF WindowsHold
  <2> QED BY <2>1, <1>3, <1>4
<1> QED BY <1>2, <1>5 DEF WindowsHold

\* One more release that was found releasable.
LEMMA ReleaseHolds ==
  ASSUME IsFiniteSet(People), {ColdWindow, ColdLimit, PersonCooldown} \subseteq Nat,
         OutreachTypes, CooldownsSpan, WindowsHold,
         NEW e \in Event, log' = log \cup {e},
         Releasable(e.app, e.person, e.kind, e.at)
  PROVE  CooldownsSpan' /\ WindowsHold'
<1>1. /\ e.app \in Apps /\ e.person \in People /\ e.at \in Int /\ ColdWindow \in Int
      /\ ColdLimit \in Nat /\ PersonCooldown \in Int
  BY DEF Event
<1>2. CASE e.kind # "initial"
  <2>1. Releases' = Releases
    BY <1>2 DEF Releases
  <2> QED BY <2>1 DEF CooldownsSpan, WindowsHold, Strangers
<1>3. CASE e.kind = "initial"
  <2>1. Releases' = Releases \cup {e}
    BY <1>3 DEF Releases
  <2>2. Cooled(e.person, Apps \ {e.app}, e.at) /\ RoomAtCompany(e.person, e.at)
    BY <1>3 DEF Releasable
  <2>3. Releases \subseteq Event
    BY DEF Releases, OutreachTypes
  <2>4. CooldownsSpan'
    <3>1. ASSUME NEW f \in Releases, f.person = e.person, f.app # e.app
          PROVE  f.at + PersonCooldown <= e.at
      BY <3>1, <2>2, <2>3 DEF Cooled, Event
    <3> QED BY <2>1, <3>1 DEF CooldownsSpan
  <2>5. ASSUME NEW t \in Int PROVE Cardinality(Strangers(t)') <= ColdLimit
    <3>1. Cardinality(Strangers(t)) <= ColdLimit
      BY DEF WindowsHold
    <3>2. CASE ~(e.person \in Cold /\ t - ColdWindow <= e.at /\ e.at <= t)
      <4>1. Strangers(t)' = Strangers(t)
        BY <2>1, <3>2 DEF Strangers
      <4> QED BY <3>1, <4>1
    <3>3. CASE e.person \in Cold /\ t - ColdWindow <= e.at /\ e.at <= t
      <4> DEFINE others == {x.person : x \in {y \in Releases :
                              y.person \in Cold \ {e.person} /\ y.at >= e.at - ColdWindow}}
      <4>1. Cardinality(others) < ColdLimit
        BY <2>2, <3>3 DEF RoomAtCompany
      <4>2. others \subseteq People
        BY <2>3 DEF Event
      <4>3. IsFiniteSet(others) /\ IsFiniteSet(others \cup {e.person})
            /\ Cardinality(others \cup {e.person}) <= Cardinality(others) + 1
            /\ Cardinality(others) \in Nat
        BY <4>2, FS_Subset, FS_AddElement, FS_CardinalityType
      <4>4. ASSUME NEW f \in Releases, f.person \in Cold, t - ColdWindow <= f.at, f.at <= t
            PROVE  f.person \in others \cup {e.person}
        <5>1. f.at \in Int
          BY <2>3 DEF Event
        <5>2. f.at >= e.at - ColdWindow
          BY <5>1, <4>4, <3>3, <1>1
        <5> QED BY <5>2, <4>4
      <4>5. Strangers(t)' \subseteq others \cup {e.person}
        BY <2>1, <4>4 DEF Strangers
      <4>6. Cardinality(Strangers(t)') <= Cardinality(others \cup {e.person})
            /\ Cardinality(others \cup {e.person}) \in Nat /\ Cardinality(Strangers(t)') \in Nat
        <5> HIDE DEF others
        <5> QED BY <4>3, <4>5, FS_Subset, FS_CardinalityType
      <4> HIDE DEF others
      <4> QED BY <4>1, <4>3, <4>6, <1>1
    <3> QED BY <3>2, <3>3
  <2> QED BY <2>4, <2>5 DEF WindowsHold
<1> QED BY <1>2, <1>3

(***************************************************************************)
(* Sequences and benches.                                                  *)
(***************************************************************************)
\* A status and a bench that go together, with who answered.
Agree(status, row, answers) ==
  /\ status = "active" => \E p \in People : row[p] = "ready"
  /\ status = "paused" => \E p \in People : row[p] = "paused"
  /\ status # "active" => \A p \in People : row[p] # "ready"
  /\ status # "paused" => \A p \in People : row[p] # "paused"
  /\ \A p \in answers : row[p] = "stopped"

AnswersOf(a) == {p \in People : <<a, p>> \in answered}

WrittenTo(a) == {e.person : e \in {x \in log : x.app = a}}

Written == {"ready", "paused", "stopped"}

LEMMA BenchesAgree ==
  ASSUME OutreachInv, NEW a \in Apps
  PROVE  /\ Agree(sequence[a], bench[a], AnswersOf(a))
         /\ bench[a] \in [People -> States]
         /\ \A p \in WrittenTo(a) : p \in People /\ bench[a][p] \in Written
BY DEF OutreachInv, OutreachTypes, SequencesMatchBenches, Agree, AnswersOf, WrittenWereReady, WrittenTo, Written,
       Event

\* A command that moves the rows of one sequence.
LEMMA OneSequenceMoves ==
  ASSUME OutreachInv, NEW a \in Apps,
         NEW status \in {"none", "active", "paused", "stopped", "completed"},
         NEW row \in [People -> States],
         sequence' = [sequence EXCEPT ![a] = status], bench' = [bench EXCEPT ![a] = row],
         UNCHANGED <<clock, drafts, log>>, restricted' \subseteq People,
         answered' \subseteq Apps \X People,
         \A x \in answered' : x[1] # a => x \in answered,
         Agree(status, row, AnswersOf(a)'),
         \A p \in WrittenTo(a) : row[p] \in Written
  PROVE  OutreachInv'
<1>1. /\ sequence'[a] = status /\ bench'[a] = row
      /\ \A b \in Apps : b # a => sequence'[b] = sequence[b] /\ bench'[b] = bench[b]
  BY DEF OutreachInv, OutreachTypes
<1>2. OutreachTypes'
  BY DEF OutreachInv, OutreachTypes
<1>3. CooldownsSpan' /\ WindowsHold'
  BY DEF OutreachInv, CooldownsSpan, WindowsHold, Strangers, Releases
<1>4. WrittenWereReady'
  BY <1>1 DEF OutreachInv, OutreachTypes, Event, WrittenWereReady, WrittenTo, Written
<1>5. OutreachReadable'
  BY DEF OutreachInv, OutreachReadable, ThreadShown, MessageShown, Sent, EventsOf
<1>6. SequencesMatchBenches'
  <2>1. ASSUME NEW b \in Apps, b # a PROVE AnswersOf(b)' \subseteq AnswersOf(b)
    BY <2>1 DEF AnswersOf
  <2>2. \A b \in Apps : Agree(sequence'[b], bench'[b], AnswersOf(b)')
    <3>1. ASSUME NEW b \in Apps, b # a PROVE Agree(sequence'[b], bench'[b], AnswersOf(b)')
      BY <1>1, <2>1, <3>1, BenchesAgree DEF Agree
    <3> QED BY <1>1, <3>1
  <2> QED BY <2>2 DEF SequencesMatchBenches, Agree, AnswersOf
<1> QED BY <1>2, <1>3, <1>4, <1>5, <1>6 DEF OutreachInv

\* Who is paused or ready is stopped.
LEMMA StopKeeps ==
  ASSUME OutreachInv, NEW a \in Apps, Live(a), Stopped(a), UNCHANGED <<clock, drafts, log>>,
         restricted' \subseteq People, answered' \subseteq Apps \X People,
         \A x \in answered' : x \in answered \/ (x[1] = a /\ x[2] \in WrittenTo(a))
  PROVE  OutreachInv'
<1> DEFINE row == [p \in People |-> IF bench[a][p] \in {"ready", "paused"} THEN "stopped"
                                    ELSE bench[a][p]]
<1>1. /\ sequence' = [sequence EXCEPT ![a] = "stopped"] /\ bench' = [bench EXCEPT ![a] = row]
  BY DEF Stopped, Bench
<1>2. /\ Agree(sequence[a], bench[a], AnswersOf(a)) /\ bench[a] \in [People -> States]
      /\ \A p \in WrittenTo(a) : p \in People /\ bench[a][p] \in Written
  BY BenchesAgree
<1>3. row \in [People -> States]
  BY <1>2 DEF States
<1>4. \A p \in WrittenTo(a) : row[p] = "stopped"
  BY <1>2 DEF Written
<1>5. AnswersOf(a)' \subseteq AnswersOf(a) \cup WrittenTo(a)
  BY DEF AnswersOf
<1>6. Agree("stopped", row, AnswersOf(a)')
  BY <1>2, <1>4, <1>5 DEF Agree, AnswersOf
<1>7. \A p \in WrittenTo(a) : row[p] \in Written
  BY <1>4 DEF Written
<1>8. \A x \in answered' : x[1] # a => x \in answered
  OBVIOUS
<1> HIDE DEF row
<1> QED BY <1>1, <1>3, <1>6, <1>7, <1>8, OneSequenceMoves

\* One person is out, and the rest of the bench waits: after a reply, or by request.
LEMMA PauseKeeps ==
  ASSUME OutreachInv, NEW a \in Apps, Live(a), NEW row \in [People -> States], Paused(a, row),
         ~Resolved(row), UNCHANGED <<clock, drafts, log>>,
         restricted' \subseteq People, answered' \subseteq Apps \X People,
         \A x \in answered' : x[1] # a => x \in answered,
         \A p \in AnswersOf(a)' : row[p] = "stopped",
         \A p \in WrittenTo(a) : row[p] \in Written
  PROVE  OutreachInv'
<1> DEFINE after == [p \in People |-> IF row[p] = "ready" THEN "paused" ELSE row[p]]
<1>1. /\ sequence' = [sequence EXCEPT ![a] = "paused"] /\ bench' = [bench EXCEPT ![a] = after]
  BY DEF Paused
<1>2. after \in [People -> States]
  BY DEF States
<1>3. Agree("paused", after, AnswersOf(a)')
  BY DEF Agree, Resolved, AnswersOf
<1>4. \A p \in WrittenTo(a) : after[p] \in Written
  BY BenchesAgree DEF Written
<1> HIDE DEF after
<1> QED BY <1>1, <1>2, <1>3, <1>4, OneSequenceMoves

\* One person is out, and so the sequence goes on or is completed.
LEMMA SettleKeeps ==
  ASSUME OutreachInv, NEW a \in Apps, NEW p \in People, Live(a),
         sequence[a] = "active" \/ Resolved([bench[a] EXCEPT ![p] = "stopped"]),
         Settled(a, p), UNCHANGED <<clock, drafts, log>>, restricted' \subseteq People,
         answered' = answered \cup {<<a, p>>}
  PROVE  OutreachInv'
<1> DEFINE row == [bench[a] EXCEPT ![p] = "stopped"]
           status == IF Resolved(row) THEN "completed" ELSE sequence[a]
<1>1. /\ sequence' = [sequence EXCEPT ![a] = status] /\ bench' = [bench EXCEPT ![a] = row]
  BY DEF Settled
<1>2. /\ Agree(sequence[a], bench[a], AnswersOf(a)) /\ bench[a] \in [People -> States]
      /\ \A q \in WrittenTo(a) : q \in People /\ bench[a][q] \in Written
  BY BenchesAgree
<1>3. /\ row \in [People -> States]
      /\ status \in {"none", "active", "paused", "stopped", "completed"}
  BY <1>2 DEF States, OutreachInv, OutreachTypes
<1>4. /\ row[p] = "stopped" /\ \A q \in People : q # p => row[q] = bench[a][q]
  BY <1>2
<1> HIDE DEF row
<1>5. AnswersOf(a)' = AnswersOf(a) \cup {p}
  BY DEF AnswersOf
<1>6. \A q \in AnswersOf(a)' : row[q] = "stopped"
  BY <1>2, <1>4, <1>5 DEF Agree, AnswersOf
<1>9. /\ \A q \in WrittenTo(a) : row[q] \in Written
      /\ answered' \subseteq Apps \X People
      /\ \A x \in answered' : x[1] # a => x \in answered
  <2>1. \A q \in WrittenTo(a) : row[q] \in Written
    BY <1>2, <1>4 DEF Written
  <2>2. answered' \subseteq Apps \X People
    BY DEF OutreachInv, OutreachTypes
  <2> QED BY <2>1, <2>2
<1>7. CASE Resolved(row)
  <2>1. status = "completed"
    BY <1>7
  <2>2. Agree(status, row, AnswersOf(a)')
    BY <1>6, <1>7, <2>1 DEF Agree, Resolved
  <2> HIDE DEF status
  <2> QED BY <1>1, <1>3, <1>9, <2>2, OneSequenceMoves
<1>8. CASE ~Resolved(row)
  <2>1. status = "active" /\ sequence[a] = "active"
    BY <1>8 DEF row
  <2>2. Agree(status, row, AnswersOf(a)')
    BY <1>2, <1>4, <1>6, <1>8, <2>1 DEF Agree, Resolved
  <2> HIDE DEF status
  <2> QED BY <1>1, <1>3, <1>9, <2>2, OneSequenceMoves
<1> QED BY <1>7, <1>8

LEMMA StartKeeps == ASSUME OutreachInv, NEW a \in Apps, Start(a) PROVE OutreachInv'
<1>1. PICK at \in Clock(a) :
        /\ Eligible(a, at) # {}
        /\ sequence' = [sequence EXCEPT ![a] = "active"]
        /\ bench' = [bench EXCEPT ![a] = [p \in People |->
                       IF bench[a][p] = "excluded" THEN "excluded"
                       ELSE IF p \in Eligible(a, at) THEN "ready" ELSE "stopped"]]
  BY DEF Start
<1> DEFINE row == [p \in People |-> IF bench[a][p] = "excluded" THEN "excluded"
                                    ELSE IF p \in Eligible(a, at) THEN "ready" ELSE "stopped"]
<1>2. /\ Agree(sequence[a], bench[a], AnswersOf(a)) /\ bench[a] \in [People -> States]
      /\ \A q \in WrittenTo(a) : q \in People /\ bench[a][q] \in Written
  BY BenchesAgree
<1>3. \A p \in Eligible(a, at) : p \in People /\ bench[a][p] = "reserve"
  BY DEF Eligible
<1>4. row \in [People -> States] /\ \A p \in WrittenTo(a) : row[p] \in Written
  BY <1>2 DEF States, Written
<1>5. AnswersOf(a)' = AnswersOf(a)
  BY DEF Start, AnswersOf
<1>6. /\ \E p \in People : row[p] = "ready"
      /\ \A p \in People : row[p] # "paused"
      /\ \A p \in AnswersOf(a) : row[p] = "stopped"
  BY <1>1, <1>2, <1>3 DEF Agree, AnswersOf
<1>7. Agree("active", row, AnswersOf(a)')
  BY <1>5, <1>6 DEF Agree
<1>8. UNCHANGED <<clock, drafts, log, answered, restricted>> /\ bench' = [bench EXCEPT ![a] = row]
  BY <1>1 DEF Start
<1> HIDE DEF row
<1> QED BY <1>1, <1>4, <1>7, <1>8, OneSequenceMoves DEF OutreachInv, OutreachTypes

LEMMA ResumeKeeps == ASSUME OutreachInv, NEW a \in Apps, Resume(a) PROVE OutreachInv'
<1> DEFINE row == Restored(a)
           status == IF Resolved(row) THEN "completed" ELSE "active"
<1>1. /\ sequence[a] = "paused" /\ UNCHANGED <<clock, drafts, log, answered, restricted>>
      /\ sequence' = [sequence EXCEPT ![a] = status] /\ bench' = [bench EXCEPT ![a] = row]
  BY DEF Resume
<1>2. /\ Agree(sequence[a], bench[a], AnswersOf(a)) /\ bench[a] \in [People -> States]
      /\ \A q \in WrittenTo(a) : q \in People /\ bench[a][q] \in Written
  BY BenchesAgree
<1>3. /\ row \in [People -> States] /\ \A p \in WrittenTo(a) : row[p] \in Written
      /\ \A p \in People : row[p] # "paused"
      /\ \A p \in AnswersOf(a) : row[p] = "stopped"
  BY <1>2 DEF Restored, States, Written, Agree, AnswersOf
<1>4. AnswersOf(a)' = AnswersOf(a)
  BY <1>1 DEF AnswersOf
<1> HIDE DEF row
<1>5. Agree(status, row, AnswersOf(a)')
  BY <1>3, <1>4 DEF Agree, Resolved
<1>6. status \in {"none", "active", "paused", "stopped", "completed"}
  OBVIOUS
<1> HIDE DEF status
<1> QED BY <1>1, <1>3, <1>5, <1>6, OneSequenceMoves DEF OutreachInv, OutreachTypes

LEMMA ReplyKeeps ==
  ASSUME OutreachInv, NEW a \in Apps, NEW p \in People, NEW kind, Reply(a, p, kind)
  PROVE  OutreachInv'
<1> DEFINE row == [bench[a] EXCEPT ![p] = "stopped"]
<1>1. /\ UNCHANGED <<clock, drafts, log>> /\ restricted' \subseteq People
      /\ answered' = answered \cup {<<a, p>>} /\ p \in WrittenTo(a)
  BY DEF Reply, Sent, EventsOf, WrittenTo, OutreachInv, OutreachTypes
<1>2. /\ Agree(sequence[a], bench[a], AnswersOf(a)) /\ bench[a] \in [People -> States]
      /\ \A q \in WrittenTo(a) : q \in People /\ bench[a][q] \in Written
      /\ sequence[a] \in {"none", "active", "paused", "stopped", "completed"}
  BY BenchesAgree DEF OutreachInv, OutreachTypes
<1>3. /\ answered' \subseteq Apps \X People
      /\ \A x \in answered' : x[1] # a => x \in answered
      /\ AnswersOf(a)' = AnswersOf(a) \cup {p}
  BY <1>1 DEF OutreachInv, OutreachTypes, AnswersOf
<1>4. /\ row \in [People -> States]
      /\ row[p] = "stopped" /\ \A q \in People : q # p => row[q] = bench[a][q]
  BY <1>2 DEF States
<1> HIDE DEF row
<1>5. /\ \A q \in WrittenTo(a) : row[q] \in Written
      /\ \A q \in AnswersOf(a)' : row[q] = "stopped"
  BY <1>2, <1>3, <1>4 DEF Written, Agree, AnswersOf
<1>6. CASE ~Live(a)
  <2>1. UNCHANGED sequence /\ bench' = [bench EXCEPT ![a] = row]
    BY <1>6 DEF Reply, AfterReply, row
  <2>2. PICK status \in {"none", "active", "paused", "stopped", "completed"} : status = sequence[a]
    BY <1>2
  <2>3. Agree(status, row, AnswersOf(a)')
    BY <1>2, <1>4, <1>5, <1>6, <2>2 DEF Agree, Live
  <2>4. sequence' = [sequence EXCEPT ![a] = status]
    BY <2>1, <2>2 DEF OutreachInv, OutreachTypes
  <2>5. bench' = [bench EXCEPT ![a] = row]
    BY <2>1
  <2>6. restricted' \subseteq People /\ UNCHANGED <<clock, drafts, log>>
    BY <1>1
  <2>7. \A q \in WrittenTo(a) : row[q] \in Written
    BY <1>5
  <2> QED BY <1>3, <1>4, <2>3, <2>4, <2>5, <2>6, <2>7, OneSequenceMoves
<1>7. CASE Live(a) /\ (a \in over \/ kind # "other")
  <2>1. Stopped(a)
    BY <1>7 DEF Reply, AfterReply
  <2>2. \A x \in answered' : x \in answered \/ (x[1] = a /\ x[2] \in WrittenTo(a))
    BY <1>1
  <2> QED BY <1>1, <1>3, <1>7, <2>1, <2>2, StopKeeps
<1>8. CASE Live(a) /\ ~(a \in over \/ kind # "other") /\ Resolved(row)
  <2>1. Settled(a, p)
    BY <1>8 DEF Reply, AfterReply, row
  <2>2. Resolved([bench[a] EXCEPT ![p] = "stopped"])
    BY <1>8 DEF row
  <2> QED BY <1>1, <1>8, <2>1, <2>2, SettleKeeps
<1>9. CASE Live(a) /\ ~(a \in over \/ kind # "other") /\ ~Resolved(row)
  <2>1. Paused(a, row) /\ ~Resolved(row)
    BY <1>9 DEF Reply, AfterReply, row
  <2> QED BY <1>1, <1>3, <1>4, <1>5, <1>9, <2>1, PauseKeeps
<1> QED BY <1>6, <1>7, <1>8, <1>9

(***************************************************************************)
(* Messages.                                                               *)
(***************************************************************************)
\* What only concerns the benches is not touched by a message.
LEMMA BenchesStay ==
  ASSUME OutreachInv, UNCHANGED <<sequence, bench, answered>>,
         \A e \in log' : e \in log \/ bench[e.app][e.person] = "ready"
  PROVE  SequencesMatchBenches' /\ WrittenWereReady'
BY DEF OutreachInv, SequencesMatchBenches, WrittenWereReady

LEMMA SaveKeeps ==
  ASSUME OutreachInv, NEW a \in Apps, NEW p \in People, NEW k \in Kinds, Save(a, p, k)
  PROVE  OutreachInv'
<1>1. /\ Editable(a, p, k) /\ UNCHANGED <<clock, over, sequence, bench, log, answered, restricted>>
      /\ drafts' = [drafts EXCEPT ![a][p][k] = @ + 1]
  BY DEF Save
<1>2. /\ drafts' \in [Apps -> [People -> [Kinds -> Nat]]]
      /\ \A b \in Apps, q \in People, j \in Kinds :
           <<b, q, j>> # <<a, p, k>> => drafts'[b][q][j] = drafts[b][q][j]
  BY <1>1 DEF OutreachInv, OutreachTypes
<1>3. OutreachTypes'
  BY <1>1, <1>2 DEF OutreachInv, OutreachTypes
<1>4. CooldownsSpan' /\ WindowsHold'
  BY <1>1 DEF OutreachInv, CooldownsSpan, WindowsHold, Strangers, Releases
<1>5. SequencesMatchBenches' /\ WrittenWereReady'
  BY <1>1, BenchesStay
<1>6. ~Sent(a, p, k) /\ (k = "follow_up" => Sent(a, p, "initial"))
  BY <1>1 DEF Editable
<1>7. \A b, q, j, event : EventsOf(b, q, j, event)' = EventsOf(b, q, j, event)
  BY <1>1 DEF EventsOf
<1>8. ASSUME NEW b \in Apps, NEW q \in People PROVE ThreadShown(b, q)'
  <2>1. ThreadShown(b, q)
    BY DEF OutreachInv, OutreachReadable
  <2>2. ASSUME NEW j \in Kinds PROVE MessageShown(b, q, j)'
    <3>1. MessageShown(b, q, j)
      BY <2>1 DEF ThreadShown
    <3>2. CASE <<b, q, j>> = <<a, p, k>>
      <4>1. EventsOf(b, q, j, "sent") = {}
        BY <1>6, <3>2 DEF Sent
      <4> QED BY <4>1, <1>7 DEF MessageShown
    <3>3. CASE <<b, q, j>> # <<a, p, k>>
      BY <3>1, <3>3, <1>2, <1>7 DEF MessageShown
    <3> QED BY <3>2, <3>3
  <2>3. Sent(b, q, "initial")' = Sent(b, q, "initial")
    BY <1>7 DEF Sent
  <2>4. drafts'[b][q]["follow_up"] > 0 => Sent(b, q, "initial")
    <3>1. CASE <<b, q, "follow_up">> = <<a, p, k>>
      BY <3>1, <1>6
    <3>2. CASE <<b, q, "follow_up">> # <<a, p, k>>
      BY <3>2, <1>2, <2>1 DEF ThreadShown, Kinds
    <3> QED BY <3>1, <3>2
  <2> QED BY <2>2, <2>3, <2>4 DEF ThreadShown
<1> QED BY <1>3, <1>4, <1>5, <1>8 DEF OutreachInv, OutreachReadable

\* A message is copied or marked as sent, on its latest version.
LEMMA ReleaseKeeps ==
  ASSUME IsFiniteSet(People), {ColdWindow, ColdLimit, PersonCooldown, MaxWait} \subseteq Nat, OutreachInv,
         NEW a \in Apps, NEW p \in People, NEW k \in Kinds, NEW event \in {"copied", "sent"},
         Release(a, p, k, event), Writable(a, p), ~Sent(a, p, k),
         event = "sent" =>
           \E e \in EventsOf(a, p, k, "copied") : e.version = drafts[a][p][k]
  PROVE  OutreachInv'
<1>1. PICK at \in Clock(a) :
        /\ Releasable(a, p, k, at)
        /\ log' = log \cup {[app |-> a, person |-> p, kind |-> k, event |-> event,
                             version |-> drafts[a][p][k], at |-> at]}
        /\ UNCHANGED <<clock, over, sequence, bench, drafts, answered, restricted>>
  BY DEF Release
<1>2. at \in Int /\ \A e \in log : e.app = a => e.at <= at
  BY DEF Clock, OutreachInv, OutreachTypes
<1>3. drafts[a][p][k] \in Nat
  BY DEF OutreachInv, OutreachTypes
<1>4. PICK e \in Event : e = [app |-> a, person |-> p, kind |-> k, event |-> event,
                             version |-> drafts[a][p][k], at |-> at]
  BY <1>2, <1>3 DEF Event
<1>5. /\ log' = log \cup {e} /\ e.app = a /\ e.person = p /\ e.kind = k /\ e.event = event
      /\ e.version = drafts[a][p][k] /\ e.at = at
  BY <1>1, <1>4
<1>6. OutreachTypes'
  BY <1>1, <1>5 DEF OutreachInv, OutreachTypes
<1>7. CooldownsSpan' /\ WindowsHold'
  <2>1. Releasable(e.app, e.person, e.kind, e.at)
    BY <1>1, <1>5
  <2> QED BY <1>5, <2>1, ReleaseHolds DEF OutreachInv
<1>8. SequencesMatchBenches' /\ WrittenWereReady'
  BY <1>1, <1>5, BenchesStay DEF Writable
<1>9. \A b, q, j, x : EventsOf(b, q, j, x)' =
         IF <<b, q, j, x>> = <<a, p, k, event>> THEN EventsOf(b, q, j, x) \cup {e}
                                               ELSE EventsOf(b, q, j, x)
  BY <1>5 DEF EventsOf
<1>10. EventsOf(a, p, k, "sent") = {}
  BY DEF Sent
<1>11. ASSUME NEW b \in Apps, NEW q \in People PROVE ThreadShown(b, q)'
  <2>1. ThreadShown(b, q)
    BY DEF OutreachInv, OutreachReadable
  <2>2. ASSUME NEW j \in Kinds PROVE MessageShown(b, q, j)'
    <3>1. MessageShown(b, q, j)
      BY <2>1 DEF ThreadShown
    <3>2. CASE <<b, q, j, "sent">> # <<a, p, k, event>>
      <4>1. EventsOf(b, q, j, "sent")' = EventsOf(b, q, j, "sent")
        BY <3>2, <1>9
      <4>2. EventsOf(b, q, j, "copied") \subseteq EventsOf(b, q, j, "copied")'
        BY <1>9
      <4> QED BY <3>1, <4>1, <4>2, <1>1 DEF MessageShown
    <3>3. CASE <<b, q, j, "sent">> = <<a, p, k, event>>
      <4>1. EventsOf(b, q, j, "sent")' = {e}
        BY <3>3, <1>9, <1>10
      <4>2. EventsOf(b, q, j, "copied")' = EventsOf(a, p, k, "copied")
        BY <3>3, <1>9
      <4>3. PICK f \in EventsOf(a, p, k, "copied") : f.version = drafts[a][p][k]
        BY <3>3
      <4>4. f.at <= e.at
        BY <1>2, <1>5 DEF EventsOf
      <4>5. drafts'[b][q][j] = drafts[a][p][k]
        BY <3>3, <1>1
      <4> QED BY <4>1, <4>2, <4>3, <4>4, <4>5, <1>5 DEF MessageShown
    <3> QED BY <3>2, <3>3
  <2>3. Sent(b, q, "initial") => Sent(b, q, "initial")'
    BY <1>9 DEF Sent
  <2> QED BY <2>1, <2>2, <2>3, <1>1 DEF ThreadShown
<1> QED BY <1>6, <1>7, <1>8, <1>11 DEF OutreachInv, OutreachReadable

\* The rows of one application are deleted.
LEMMA UndoKeeps ==
  ASSUME IsFiniteSet(People), ColdLimit \in Nat, OutreachInv, NEW a \in Apps, UndoPursuit(a)
  PROVE  OutreachInv'
<1>1. /\ Discardable(a) /\ UNCHANGED <<clock, over, answered, restricted>>
      /\ sequence' = [sequence EXCEPT ![a] = "none"]
      /\ bench' = [bench EXCEPT ![a] = Fresh]
      /\ drafts' = [drafts EXCEPT ![a] = NoDrafts]
      /\ log' = {e \in log : e.app # a}
  BY DEF UndoPursuit
<1>2. Fresh \in [People -> {"reserve", "excluded"}] /\ NoDrafts \in [People -> [Kinds -> {0}]]
  BY DEF Fresh, NoDrafts
<1>3. OutreachTypes'
  BY <1>1, <1>2 DEF OutreachInv, OutreachTypes, States
<1>4. CooldownsSpan' /\ WindowsHold'
  BY <1>1, FewerHold DEF OutreachInv
<1>5. WrittenWereReady'
  BY <1>1 DEF OutreachInv, OutreachTypes, Event, WrittenWereReady
<1>6. SequencesMatchBenches'
  <2>1. \A p \in People : <<a, p>> \notin answered'
    BY <1>1 DEF Discardable
  <2>2. sequence'[a] = "none" /\ \A p \in People : bench'[a][p] \in {"reserve", "excluded"}
    BY <1>1, <1>2 DEF OutreachInv, OutreachTypes
  <2>3. \A b \in Apps : b # a => sequence'[b] = sequence[b] /\ bench'[b] = bench[b]
    BY <1>1 DEF OutreachInv, OutreachTypes
  <2>4. answered' = answered
    BY <1>1
  <2> QED BY <2>1, <2>2, <2>3, <2>4 DEF OutreachInv, SequencesMatchBenches
<1>7. ASSUME NEW b \in Apps, NEW q \in People PROVE ThreadShown(b, q)'
  <2>1. CASE b = a
    <3>1. \A j, x : EventsOf(b, q, j, x)' = {}
      BY <1>1, <2>1 DEF EventsOf
    <3>2. drafts'[b][q]["follow_up"] = 0
      BY <1>1, <1>2, <2>1 DEF OutreachInv, OutreachTypes, Kinds
    <3> QED BY <3>1, <3>2 DEF ThreadShown, MessageShown
  <2>2. CASE b # a
    <3>1. \A j, x : EventsOf(b, q, j, x)' = EventsOf(b, q, j, x)
      BY <1>1, <2>2 DEF EventsOf
    <3>2. drafts'[b] = drafts[b]
      BY <1>1, <2>2 DEF OutreachInv, OutreachTypes
    <3>3. ThreadShown(b, q)
      BY DEF OutreachInv, OutreachReadable
    <3> QED BY <3>1, <3>2, <3>3 DEF ThreadShown, MessageShown, Sent
  <2> QED BY <2>1, <2>2
<1> QED BY <1>3, <1>4, <1>5, <1>6, <1>7 DEF OutreachInv, OutreachReadable

(***************************************************************************)
(* The theorems.                                                           *)
(***************************************************************************)
LEMMA InitAgrees ==
  ASSUME {ColdWindow, ColdLimit} \subseteq Nat, OutreachInit
  PROVE  OutreachInv
<1>1. Fresh = [p \in People |-> "reserve"] /\ NoDrafts \in [People -> [Kinds -> {0}]]
  BY DEF Fresh, NoDrafts, OutreachInit
<1>2. OutreachTypes
  BY <1>1 DEF OutreachInit, OutreachTypes, States
<1>3. \A t \in Int : Strangers(t) = {}
  BY DEF OutreachInit, Strangers, Releases
<1>4. CooldownsSpan /\ WindowsHold
  BY <1>3, FS_EmptySet DEF OutreachInit, CooldownsSpan, WindowsHold, Releases
<1>5. WrittenWereReady /\ SequencesMatchBenches
  BY <1>1 DEF OutreachInit, WrittenWereReady, SequencesMatchBenches
<1>6. \A a \in Apps, p \in People : drafts[a][p]["follow_up"] = 0
  BY <1>1 DEF OutreachInit, Kinds
<1>7. \A a, p, k, x : EventsOf(a, p, k, x) = {}
  BY DEF OutreachInit, EventsOf
<1>8. OutreachReadable
  BY <1>6, <1>7 DEF OutreachReadable, ThreadShown, MessageShown
<1> QED BY <1>2, <1>4, <1>5, <1>8 DEF OutreachInv

\* The clock and the applications go on.
LEMMA RowsStay ==
  ASSUME OutreachInv, clock' \in Nat, UNCHANGED <<sequence, bench, drafts, log, answered, restricted>>
  PROVE  OutreachInv'
<1>1. OutreachTypes'
  BY DEF OutreachInv, OutreachTypes
<1>2. CooldownsSpan' /\ WindowsHold'
  BY DEF OutreachInv, CooldownsSpan, WindowsHold, Strangers, Releases
<1>3. WrittenWereReady' /\ SequencesMatchBenches'
  BY BenchesStay
<1>4. OutreachReadable'
  BY DEF OutreachInv, OutreachReadable, ThreadShown, MessageShown, Sent, EventsOf
<1> QED BY <1>1, <1>2, <1>3, <1>4 DEF OutreachInv

LEMMA NextAgrees ==
  ASSUME IsFiniteSet(People), {ColdWindow, ColdLimit, PersonCooldown, MaxWait} \subseteq Nat,
         OutreachInv, [OutreachNext]_outreachVars
  PROVE  OutreachInv'
<1>1. CASE ClockTick
  BY <1>1, RowsStay DEF ClockTick, OutreachInv, OutreachTypes
<1>2. ASSUME NEW a \in Apps, Start(a) PROVE OutreachInv'
  BY <1>2, StartKeeps
<1>3. ASSUME NEW a \in Apps, Halt(a) \/ Stop(a) PROVE OutreachInv'
  BY <1>3, StopKeeps DEF Halt, Stop, OutreachInv, OutreachTypes
<1>4. ASSUME NEW a \in Apps, Pause(a) PROVE OutreachInv'
  <2>1. /\ Live(a) /\ Paused(a, bench[a]) /\ sequence[a] = "active"
        /\ UNCHANGED <<clock, drafts, log, answered, restricted>>
    BY <1>4 DEF Pause, Acts, Live
  <2>2. PICK row \in [People -> States] : row = bench[a]
    BY BenchesAgree
  <2>3. ~Resolved(row) /\ (\A p \in AnswersOf(a)' : row[p] = "stopped")
        /\ \A p \in WrittenTo(a) : row[p] \in Written
    BY <2>1, <2>2, BenchesAgree DEF Resolved, Agree, AnswersOf
  <2> QED BY <2>1, <2>2, <2>3, PauseKeeps DEF OutreachInv, OutreachTypes
<1>5. ASSUME NEW a \in Apps, Resume(a) PROVE OutreachInv'
  BY <1>5, ResumeKeeps
<1>6. ASSUME NEW a \in Apps, Advance(a) PROVE OutreachInv'
  BY <1>6, RowsStay DEF Advance, OutreachInv, OutreachTypes
<1>7. ASSUME NEW a \in Apps, UndoPursuit(a) PROVE OutreachInv'
  BY <1>7, UndoKeeps
<1>8. ASSUME NEW a \in Apps, NEW p \in People, NEW k \in Kinds, Save(a, p, k) PROVE OutreachInv'
  BY <1>8, SaveKeeps
<1>9. ASSUME NEW a \in Apps, NEW p \in People, NEW k \in Kinds, Copy(a, p, k) PROVE OutreachInv'
  BY <1>9, ReleaseKeeps DEF Copy
<1>10. ASSUME NEW a \in Apps, NEW p \in People, NEW k \in Kinds, MarkSent(a, p, k) PROVE OutreachInv'
  BY <1>10, ReleaseKeeps DEF MarkSent
<1>11. ASSUME NEW a \in Apps, NEW p \in People, NEW kind, Outcome(a, p, kind) PROVE OutreachInv'
  BY <1>11, SettleKeeps DEF Outcome, Acts, Live, OutreachInv, OutreachTypes
<1>12. ASSUME NEW a \in Apps, NEW p \in People, NEW kind, Reply(a, p, kind) PROVE OutreachInv'
  BY <1>12, ReplyKeeps
<1>13. CASE UNCHANGED outreachVars
  BY <1>13, RowsStay DEF outreachVars, OutreachInv, OutreachTypes
<1> QED BY <1>1, <1>2, <1>3, <1>4, <1>5, <1>6, <1>7, <1>8, <1>9, <1>10, <1>11, <1>12, <1>13
     DEF OutreachNext

\* Whatever applications share people, whatever commands wait, and whatever is undone: the
\* cooldowns and the company limit span the applications, sequences agree with their benches,
\* and what was released can be shown.
THEOREM Agreement ==
  ASSUME IsFiniteSet(People), {ColdWindow, ColdLimit, PersonCooldown, MaxWait} \subseteq Nat
  PROVE  OutreachSpec => []OutreachAgrees
<1>1. OutreachInit => OutreachInv
  BY InitAgrees
<1>2. OutreachInv /\ [OutreachNext]_outreachVars => OutreachInv'
  BY NextAgrees
<1>3. OutreachInv => OutreachAgrees
  BY LimitsFollow DEF OutreachInv, OutreachAgrees
<1> QED BY <1>1, <1>2, <1>3, PTL DEF OutreachSpec

\* In no step is anything released to somebody who asked not to be contacted, is such a wish
\* forgotten, or a message that was sent.
THEOREM WishesRespected == OutreachSpec => RestrictionsHold
<1>1. ASSUME OutreachNext
      PROVE  /\ \A e \in log' \ log : e.person \notin restricted
             /\ restricted \subseteq restricted'
             /\ \A e \in log \ log' : e.event = "copied"
  <2>1. ASSUME NEW a \in Apps, NEW p \in People, NEW k \in Kinds, Copy(a, p, k) \/ MarkSent(a, p, k)
        PROVE  /\ \A e \in log' \ log : e.person \notin restricted
               /\ restricted' = restricted /\ log \subseteq log'
    <3>1. PICK event \in {"copied", "sent"} : Release(a, p, k, event) /\ Writable(a, p)
      BY <2>1 DEF Copy, MarkSent
    <3>2. PICK at \in Clock(a) :
            log' = log \cup {[app |-> a, person |-> p, kind |-> k, event |-> event,
                             version |-> drafts[a][p][k], at |-> at]}
      BY <3>1 DEF Release
    <3>3. restricted' = restricted /\ p \notin restricted
      BY <3>1 DEF Release, Writable
    <3>4. \A e \in log' \ log : e.person = p
      BY <3>2
    <3> QED BY <3>2, <3>3, <3>4
  <2>2. ASSUME NEW a \in Apps, UndoPursuit(a)
        PROVE  /\ log' \subseteq log /\ restricted' = restricted
               /\ \A e \in log \ log' : e.event = "copied"
    BY <2>2 DEF UndoPursuit, Discardable
  <2>3. ASSUME NEW a \in Apps, NEW p \in People, NEW o, Reply(a, p, o)
        PROVE  log' = log /\ restricted \subseteq restricted'
    BY <2>3 DEF Reply
  <2>4. \/ UNCHANGED <<log, restricted>>
        \/ \E a \in Apps : \/ UndoPursuit(a)
                          \/ \E p \in People : \/ \E k \in Kinds : Copy(a, p, k) \/ MarkSent(a, p, k)
                                               \/ \E o : Reply(a, p, o)
    <3>1. ASSUME NEW a \in Apps,
                 Start(a) \/ Halt(a) \/ Pause(a) \/ Resume(a) \/ Stop(a) \/ Advance(a)
          PROVE  UNCHANGED <<log, restricted>>
      BY <3>1 DEF Start, Halt, Pause, Resume, Stop, Advance
    <3>2. ASSUME NEW a \in Apps, NEW p \in People, NEW k, Save(a, p, k) \/ Outcome(a, p, k)
          PROVE  UNCHANGED <<log, restricted>>
      BY <3>2 DEF Save, Outcome
    <3>3. CASE ClockTick
      BY <3>3 DEF ClockTick
    <3> QED BY <1>1, <3>1, <3>2, <3>3 DEF OutreachNext
  <2>5. CASE UNCHANGED <<log, restricted>>
    BY <2>5
  <2> QED BY <2>1, <2>2, <2>3, <2>4, <2>5
<1>2. [OutreachNext]_outreachVars =>
        [/\ \A e \in log' \ log : e.person \notin restricted
         /\ restricted \subseteq restricted'
         /\ \A e \in log \ log' : e.event = "copied"]_outreachVars
  <2> SUFFICES ASSUME OutreachNext
               PROVE  /\ \A e \in log' \ log : e.person \notin restricted
                      /\ restricted \subseteq restricted'
                      /\ \A e \in log \ log' : e.event = "copied"
    OBVIOUS
  <2> QED BY <1>1
<1> QED BY <1>2, PTL DEF OutreachSpec, RestrictionsHold
=============================================================================
