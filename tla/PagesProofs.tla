---------------------------- MODULE PagesProofs -----------------------------
(***************************************************************************)
(* Theorems about OwnerPages.                                              *)
(*                                                                         *)
(* Lists: what a statement found of an application and what a later one    *)
(* finds belong together as long as the application has the version that   *)
(* was found, because every command raises it.  So a read nothing came     *)
(* between puts together what is, which can always be shown; and an item   *)
(* whose version is still that of the application shows its action.        *)
(*                                                                         *)
(* Prompts: every required requirement with evidence has a place among the *)
(* first of the order.                                                     *)
(*                                                                         *)
(* Pages: all attempts of a request expect one version.  So none is        *)
(* carried out once the owner was told that the record passed it; after    *)
(* another refusal the attempts that went out before may still be.         *)
(***************************************************************************)
EXTENDS OwnerPages, SequenceTheorems, FiniteSetTheorems, TLAPS

(***************************************************************************)
(* The place of a member of a finite set, by a strict order of all of      *)
(* them: the number of those before it.  Every place is taken, once.       *)
(***************************************************************************)
LEMMA Places ==
  ASSUME NEW S, IsFiniteSet(S), NEW before \in [S -> SUBSET S],
         \A x \in S : x \notin before[x],
         \A x, y \in S : x \in before[y] => before[x] \subseteq before[y],
         \A x, y \in S : x # y => x \in before[y] \/ y \in before[x]
  PROVE  /\ Cardinality(S) \in Nat
         /\ \A x \in S : Cardinality(before[x]) \in 0..(Cardinality(S) - 1)
         /\ \A x, y \in S : x \in before[y] => Cardinality(before[x]) < Cardinality(before[y])
         /\ \A x, y \in S : Cardinality(before[x]) = Cardinality(before[y]) => x = y
         /\ \A i \in 0..(Cardinality(S) - 1) : \E x \in S : Cardinality(before[x]) = i
<1> DEFINE n == Cardinality(S)
           place == [x \in S |-> Cardinality(before[x]) + 1]
<1>1. n \in Nat
  BY FS_CardinalityType
<1>2. ASSUME NEW x \in S
      PROVE  /\ IsFiniteSet(before[x]) /\ Cardinality(before[x]) \in Nat
             /\ Cardinality(before[x]) < n
  <2>1. before[x] \in SUBSET S /\ x \notin before[x]
    OBVIOUS
  <2>2. /\ IsFiniteSet(before[x]) /\ Cardinality(before[x]) <= n
        /\ n = Cardinality(before[x]) => S = before[x]
    BY <2>1, FS_Subset
  <2>3. Cardinality(before[x]) \in Nat
    BY <2>2, FS_CardinalityType
  <2> HIDE DEF n
  <2> QED BY <1>1, <2>1, <2>2, <2>3
<1>3. ASSUME NEW x \in S, NEW y \in S, x \in before[y]
      PROVE  Cardinality(before[x]) < Cardinality(before[y])
  <2>1. before[x] \in SUBSET before[y] /\ x \in before[y] /\ x \notin before[x]
    BY <1>3
  <2>2. /\ IsFiniteSet(before[y])
        /\ Cardinality(before[x]) \in Nat /\ Cardinality(before[y]) \in Nat
    BY <1>2
  <2>3. /\ Cardinality(before[x]) <= Cardinality(before[y])
        /\ Cardinality(before[y]) = Cardinality(before[x]) => before[y] = before[x]
    BY <2>1, <2>2, FS_Subset
  <2> QED BY <2>1, <2>2, <2>3
<1>4. ASSUME NEW x \in S, NEW y \in S, x # y
      PROVE  Cardinality(before[x]) # Cardinality(before[y])
  <2>1. x \in before[y] \/ y \in before[x]
    BY <1>4
  <2>2. Cardinality(before[x]) \in Nat /\ Cardinality(before[y]) \in Nat
    BY <1>2
  <2> QED BY <2>1, <2>2, <1>3
<1>5. place \in Injection(S, 1..n)
  <2>1. place \in [S -> 1..n]
    <3> HIDE DEF n
    <3> QED BY <1>1, <1>2
  <2>2. ASSUME NEW x \in S, NEW y \in S, x # y
        PROVE  place[x] # place[y]
    <3> QED BY <2>2, <1>2, <1>4
  <2> QED BY <2>1, <2>2 DEF Injection, IsInjective
<1>6. IsFiniteSet(1..n) /\ Cardinality(1..n) = n
  BY <1>1, FS_Interval
<1>7. place \in Surjection(S, 1..n)
  BY <1>5, <1>6, FS_Injection
<1>8. ASSUME NEW i \in 0..(n - 1)
      PROVE  \E x \in S : Cardinality(before[x]) = i
  <2>1. i + 1 \in 1..n
    <3> HIDE DEF n
    <3> QED BY <1>1
  <2>2. PICK x \in S : place[x] = i + 1
    BY <2>1, <1>7 DEF Surjection
  <2>3. Cardinality(before[x]) + 1 = i + 1 /\ Cardinality(before[x]) \in Nat
    BY <2>2, <1>2
  <2> HIDE DEF n
  <2> QED BY <2>3, <1>1
<1> QED BY <1>1, <1>2, <1>3, <1>4, <1>8

(***************************************************************************)
(* The lists: what has to be true of a read.                               *)
(***************************************************************************)
Fit(r) == ~Malformed(r) /\ (r.scheduled => r.stage \in Schedulable)

Founds == [app : Apps, version : Nat, stage : Stages, pinned : Actions \cup {None}]

Items == [app : Apps, version : Nat, stage : Stages, action : Actions \cup {None}]

Answers == UNION {[S -> Actions \cup {None}] : S \in SUBSET Founds}

Readers ==
  [view : {"today", "weekly", "list"}, group : 1..4, total : Nat \cup {None},
   batches : Seq(SUBSET Founds), actions : Answers \cup {None}, items : Seq(SUBSET Items),
   next : Marks \cup {None}]

ListsTyped ==
  /\ row \in [Apps -> Rows] /\ \A a \in Apps : Fit(row[a])
  /\ clock \in Int
  /\ reader \in Readers \cup {None}
  /\ shown \in SUBSET Items /\ listed \in SUBSET Items
  /\ mark \in Marks \cup {None}
  /\ disturbed \in BOOLEAN /\ failed \in BOOLEAN

\* What a statement found of an application and what is later made of it belong together, as
\* long as the application has the version that was found.
AsFound(f) ==
  /\ f.version <= row[f.app].version
  /\ f.version = row[f.app].version =>
       f.stage = row[f.app].stage /\ f.pinned \in {None, row[f.app].action}

AsShown(i) ==
  /\ i.version <= row[i.app].version
  /\ i.version = row[i.app].version => i.stage = row[i.app].stage /\ i.action = row[i.app].action

BatchesTrue == \A n \in DOMAIN reader.batches : \A f \in reader.batches[n] : AsFound(f)

ActionsTrue ==
  reader.actions # None =>
    /\ reader.batches # <<>>
    /\ DOMAIN reader.actions = Head(reader.batches)
    /\ \A f \in Head(reader.batches) :
         f.version = row[f.app].version => reader.actions[f] = row[f.app].action

ItemsTrue == \A n \in DOMAIN reader.items : \A i \in reader.items[n] : AsShown(i)

ShownTrue == \A i \in shown : AsShown(i)

ReadTrue == (reader # None => BatchesTrue /\ ActionsTrue /\ ItemsTrue) /\ ShownTrue

\* While no command comes in between, all that was read is of now.
StillAsFound ==
  /\ \A n \in DOMAIN reader.batches : \A f \in reader.batches[n] : f.version = row[f.app].version
  /\ \A n \in DOMAIN reader.items : \A i \in reader.items[n] : i.version = row[i.app].version

\* The rows are named, so that what is due can be compared before and after a step.
Due(rows, group) == {a \in Apps : rows[a].stage # "closed" /\ InGroup(group, rows[a].action.due)}

FoundIn(rows, a) ==
  [app |-> a, version |-> rows[a].version, stage |-> rows[a].stage, pinned |-> None]

\* Group by group.
InGroups ==
  /\ reader.batches = <<>> =>
       /\ Len(reader.items) = reader.group - 1
       /\ reader.total # None => reader.total = Cardinality(Due(row, Groups[reader.group]))
  /\ reader.batches # <<>> =>
       /\ Len(reader.batches) = 1 /\ reader.group > 1
       /\ Len(reader.items) = reader.group - 2
       /\ reader.total = Cardinality(Due(row, Groups[reader.group - 1]))
       /\ Head(reader.batches) = {FoundIn(row, a) : a \in Due(row, Groups[reader.group - 1])}
  /\ \A n \in DOMAIN reader.items : \A i \in reader.items[n] : i.app \in Due(row, Groups[n])

Undisturbed ==
  reader # None /\ ~disturbed => StillAsFound /\ (reader.view = "today" => InGroups)

FailsDisturbed == (failed => disturbed) /\ (reader # None => ~failed)

Follows(a, m) == \/ row[a].updated < m.updated
                 \/ row[a].updated = m.updated /\ a < m.app

Has(items, a) == \E i \in items : i.app = a

Begun == reader # None => /\ mark = None => listed = {}
                          /\ reader.view # "list" => mark = None

PageRead == reader # None /\ reader.view = "list" /\ reader.group = 4

OnPage(a) == \/ reader.next # None /\ Follows(a, reader.next)
             \/ \E n \in DOMAIN reader.batches : Has(reader.batches[n], a)
             \/ \E n \in DOMAIN reader.items : Has(reader.items[n], a)

Covered ==
  \A a \in Apps \ touched :
    /\ mark # None => Follows(a, mark) \/ Has(listed, a)
    /\ reader = None /\ mark = None /\ listed # {} => Has(listed, a)
    /\ PageRead => OnPage(a) \/ Has(listed, a)

ListsInv == ListsTyped /\ ReadTrue /\ Undisturbed /\ FailsDisturbed /\ Begun /\ Covered

\* What the invariant is for.
LEMMA ListsShown ==
  ASSUME ListsInv
  PROVE  QuietReadsAreServed /\ PagesCoverTheQuiet
BY DEF ListsInv, FailsDisturbed, Covered, Has, QuietReadsAreServed, PagesCoverTheQuiet

LEMMA ShownIsOpen ==
  ASSUME ListsInv, NEW item \in shown, NEW due, Postpone(item, due)
  PROVE  item.action = row[item.app].action
BY DEF ListsInv, ReadTrue, ShownTrue, AsShown, Postpone

LEMMA ListsBegin == ASSUME ListsInit PROVE ListsInv
<1>1. row \in [Apps -> Rows] /\ \A a \in Apps : Fit(row[a])
  <2>1. \A r \in Starts : r \in Rows /\ Fit(r)
    BY StartsAssumption DEF Fit
  <2>2. row \in [Apps -> Starts]
    BY DEF ListsInit
  <2> HIDE DEF Fit
  <2> QED BY <2>1, <2>2
<1>2. ListsTyped
  <2>1. clock \in Int /\ shown \in SUBSET Items /\ listed \in SUBSET Items
    BY DEF ListsInit
  <2>2. /\ disturbed \in BOOLEAN /\ failed \in BOOLEAN
        /\ reader \in Readers \cup {None} /\ mark \in Marks \cup {None}
    BY DEF ListsInit
  <2> QED BY <1>1, <2>1, <2>2 DEF ListsTyped
<1>3. ReadTrue /\ Undisturbed /\ FailsDisturbed /\ Begun /\ Covered
  BY DEF ListsInit, ReadTrue, ShownTrue, Undisturbed, FailsDisturbed, Begun, Covered, PageRead
<1> QED BY <1>2, <1>3 DEF ListsInv

LEMMA ListsStutter == ASSUME ListsInv, UNCHANGED listVars PROVE ListsInv'
BY DEF listVars, ListsInv, ListsTyped, ReadTrue, BatchesTrue, ActionsTrue, ItemsTrue, ShownTrue,
       AsFound, AsShown, Undisturbed, StillAsFound, InGroups, FailsDisturbed, Begun, Covered,
       Follows, Has, PageRead, OnPage

(***************************************************************************)
(* Commands.                                                               *)
(***************************************************************************)
LEMMA RowFields ==
  ASSUME ListsTyped, NEW a \in Apps
  PROVE  /\ row[a] \in Rows /\ Fit(row[a])
         /\ row[a].version \in Nat /\ row[a].updated \in Int /\ row[a].stage \in Stages
         /\ row[a].action \in Actions \cup {None}
         /\ Open(a) <=> row[a].action \in Actions
BY AbsentAssumption DEF ListsTyped, Rows, Fit, Malformed, Open

OpenKinds == {ActionKind[s] : s \in Stages \ {"closed"}}

LEMMA RoundAction ==
  ASSUME ListsTyped, NEW a \in Apps, NEW due \in Int, Open(a), NEW kind \in OpenKinds,
         NEW r, r = Replaced(a, kind, TRUE, due)
  PROVE  /\ r \in Rows /\ r.action \in Actions /\ r.action.round
<1> DEFINE new == [id |-> row[a].action.id + 1, kind |-> kind, round |-> TRUE, due |-> due]
<1>1. row[a] \in Rows /\ row[a].action \in Actions
  BY RowFields
<1>2. new \in Actions /\ new.kind \in {kind} /\ new.round
  BY <1>1 DEF Actions, OpenKinds
<1>3. r = [row[a] EXCEPT !.action = new]
  BY <1>1 DEF Replaced, Rows
<1> HIDE DEF new
<1> QED BY <1>1, <1>2, <1>3 DEF Rows

LEMMA PlainAction ==
  ASSUME ListsTyped, NEW a \in Apps, NEW due \in Int, Open(a), NEW kind \in OpenKinds,
         NEW r, r = Replaced(a, kind, FALSE, due)
  PROVE  /\ r \in Rows /\ r.action \in Actions /\ ~r.action.round
<1> DEFINE new == [id |-> row[a].action.id + 1, kind |-> kind, round |-> FALSE, due |-> due]
<1>1. row[a] \in Rows /\ row[a].action \in Actions
  BY RowFields
<1>2. new \in Actions /\ new.kind \in {kind} /\ ~new.round
  BY <1>1 DEF Actions, OpenKinds
<1>3. r = [row[a] EXCEPT !.action = new]
  BY <1>1 DEF Replaced, Rows
<1> HIDE DEF new
<1> QED BY <1>1, <1>2, <1>3 DEF Rows

LEMMA Kinds ==
  /\ \A s \in Stages \ {"closed"} : ActionKind[s] \in OpenKinds
  /\ "prepare_interview" \in OpenKinds
  /\ "interviewing" \in Stages \ {"closed"} /\ ActionKind["interviewing"] = "prepare_interview"
BY DEF ActionKind, Stages, OpenKinds

\* A command puts one row in a state that is fit again.
LEMMA CloseCommits ==
  ASSUME ListsTyped, NEW a \in Apps, NEW due \in Int, Open(a), CloseApplication(a)
  PROVE  \E new \in Rows : Fit(new) /\ new.version = row[a].version /\ Commit(a, new)
<1>0. /\ row[a] \in Rows /\ Fit(row[a]) /\ row[a].stage \in Stages \ {"closed"}
  BY RowFields DEF Open
<1> DEFINE new == [row[a] EXCEPT !.stage = "closed", !.action = None]
<1>1. ~row[a].scheduled /\ Commit(a, new)
  BY DEF CloseApplication
<1>2. /\ new \in Rows /\ new.stage = "closed" /\ new.action = None
      /\ new.scheduled = row[a].scheduled /\ new.version = row[a].version
  BY <1>0 DEF Rows, Stages
<1> HIDE DEF new
<1>3. Fit(new)
  <2>1. ~new.scheduled
    BY <1>1, <1>2
  <2>2. new.scheduled = FALSE
    BY <1>2, <2>1 DEF Rows
  <2> QED BY <1>2, <2>2 DEF Fit, Malformed
<1> QED BY <1>1, <1>2, <1>3

LEMMA ScheduleCommits ==
  ASSUME ListsTyped, NEW a \in Apps, NEW due \in Int, Open(a), Schedule(a, due)
  PROVE  \E new \in Rows : Fit(new) /\ new.version = row[a].version /\ Commit(a, new)
<1>0. /\ row[a] \in Rows /\ Fit(row[a]) /\ row[a].stage \in Stages \ {"closed"}
  BY RowFields DEF Open
<1>r. PICK r : r = Replaced(a, "prepare_interview", TRUE, due)
  OBVIOUS
<1>k. /\ r.action.kind = "prepare_interview" /\ r.stage = row[a].stage
      /\ r.scheduled = row[a].scheduled /\ r.version = row[a].version
  BY <1>0, <1>r DEF Replaced, Rows
<1> DEFINE new == [r EXCEPT !.scheduled = TRUE]
<1>1. row[a].stage \in Schedulable /\ Commit(a, new)
  BY <1>r DEF Schedule
<1>2. r \in Rows /\ r.action \in Actions /\ r.action.round
  BY <1>r, Kinds, RoundAction
<1>3. /\ new \in Rows /\ new.action = r.action /\ new.stage = r.stage
      /\ new.scheduled = TRUE /\ new.version = r.version
  BY <1>k, <1>2 DEF Rows
<1> HIDE DEF new
<1>4. Fit(new)
  BY <1>k, <1>0, <1>1, <1>2, <1>3, AbsentAssumption DEF Fit, Malformed
<1> QED BY <1>k, <1>1, <1>2, <1>3, <1>4

LEMMA CompleteCommits ==
  ASSUME ListsTyped, NEW a \in Apps, NEW due \in Int, Open(a), Complete(a, due)
  PROVE  \E new \in Rows : Fit(new) /\ new.version = row[a].version /\ Commit(a, new)
<1>0. /\ row[a] \in Rows /\ Fit(row[a]) /\ row[a].stage \in Stages \ {"closed"}
  BY RowFields DEF Open
<1>r. PICK r : r = Replaced(a, "prepare_interview", FALSE, due)
  OBVIOUS
<1>k. /\ r.action.kind = "prepare_interview" /\ r.stage = row[a].stage
      /\ r.scheduled = row[a].scheduled /\ r.version = row[a].version
  BY <1>0, <1>r DEF Replaced, Rows
<1> DEFINE new == [r EXCEPT !.scheduled = FALSE, !.stage = "interviewing"]
<1>1. Commit(a, new)
  BY <1>r DEF Complete
<1>2. r \in Rows /\ r.action \in Actions /\ ~r.action.round
  BY <1>r, Kinds, PlainAction
<1>3. /\ new \in Rows /\ new.action = r.action /\ new.stage = "interviewing"
      /\ new.scheduled = FALSE /\ new.version = r.version
  BY <1>k, <1>2, Kinds DEF Rows
<1> HIDE DEF new
<1>4. Fit(new)
  BY <1>k, <1>2, <1>3, Kinds, AbsentAssumption DEF Fit, Malformed
<1> QED BY <1>k, <1>1, <1>2, <1>3, <1>4

LEMMA CancelCommits ==
  ASSUME ListsTyped, NEW a \in Apps, NEW due \in Int, Open(a), CancelRound(a, due)
  PROVE  \E new \in Rows : Fit(new) /\ new.version = row[a].version /\ Commit(a, new)
<1>0. /\ row[a] \in Rows /\ Fit(row[a]) /\ row[a].stage \in Stages \ {"closed"}
  BY RowFields DEF Open
<1>1. PICK kind : kind = ActionKind[row[a].stage]
  OBVIOUS
<1>r. PICK r : r = Replaced(a, kind, FALSE, due)
  OBVIOUS
<1>k. /\ r.action.kind = kind /\ r.stage = row[a].stage
      /\ r.scheduled = row[a].scheduled /\ r.version = row[a].version
  BY <1>0, <1>r DEF Replaced, Rows
<1> DEFINE new == [r EXCEPT !.scheduled = FALSE]
<1>2. Commit(a, new)
  BY <1>r, <1>1 DEF CancelRound
<1>3. r \in Rows /\ r.action \in Actions /\ ~r.action.round
  BY <1>0, <1>r, <1>1, Kinds, PlainAction
<1>4. /\ new \in Rows /\ new.action = r.action /\ new.stage = r.stage
      /\ new.scheduled = FALSE /\ new.version = r.version
  BY <1>k, <1>3 DEF Rows
<1> HIDE DEF new
<1>5. Fit(new)
  BY <1>k, <1>0, <1>1, <1>3, <1>4, AbsentAssumption DEF Fit, Malformed
<1> QED BY <1>k, <1>2, <1>3, <1>4, <1>5

LEMMA TransitionCommits ==
  ASSUME ListsTyped, NEW a \in Apps, NEW due \in Int, Open(a), NEW to \in Onward[row[a].stage], Transition(a, to, due)
  PROVE  \E new \in Rows : Fit(new) /\ new.version = row[a].version /\ Commit(a, new)
<1>0. /\ row[a] \in Rows /\ Fit(row[a]) /\ row[a].stage \in Stages \ {"closed"}
  BY RowFields DEF Open
<1>2. PICK kind : kind = ActionKind[to]
  OBVIOUS
<1>r. PICK r : r = Replaced(a, kind, FALSE, due)
  OBVIOUS
<1>k. /\ r.action.kind = kind /\ r.stage = row[a].stage
      /\ r.scheduled = row[a].scheduled /\ r.version = row[a].version
  BY <1>0, <1>r DEF Replaced, Rows
<1> DEFINE new == [r EXCEPT !.stage = to]
<1>3. to \in Stages \ {"closed"} /\ ~row[a].scheduled /\ Commit(a, new)
  BY <1>r, <1>0, <1>2 DEF Onward, Stages, Transition
<1>4. r \in Rows /\ r.action \in Actions /\ ~r.action.round
  BY <1>r, <1>2, <1>3, Kinds, PlainAction
<1>5. /\ new \in Rows /\ new.action = r.action /\ new.stage = to
      /\ new.scheduled = r.scheduled /\ new.version = r.version
  BY <1>k, <1>3, <1>4 DEF Rows
<1> HIDE DEF new
<1>6. new.scheduled \in BOOLEAN
  BY <1>5 DEF Rows
<1>7. Fit(new)
  BY <1>k, <1>2, <1>3, <1>4, <1>5, <1>6, AbsentAssumption DEF Fit, Malformed
<1> QED BY <1>k, <1>3, <1>4, <1>5, <1>7

LEMMA PostponeCommits ==
  ASSUME ListsTyped, NEW item, item.app \in Apps, NEW due \in Int, Postpone(item, due)
  PROVE  \E new \in Rows :
           Fit(new) /\ new.version = row[item.app].version /\ Commit(item.app, new)
<1> DEFINE a == item.app
           new == [row[a] EXCEPT !.action.due = due]
<1>1. Open(a) /\ Commit(a, new)
  BY DEF Postpone
<1>2. row[a] \in Rows /\ Fit(row[a]) /\ row[a].action \in Actions
  BY <1>1, RowFields
<1>3. new = [row[a] EXCEPT !.action = [row[a].action EXCEPT !.due = due]]
  BY <1>2 DEF Rows
<1>4. [row[a].action EXCEPT !.due = due] \in Actions
  BY <1>2 DEF Actions
<1>5. new \in Rows /\ new.version = row[a].version
  BY <1>2, <1>3, <1>4 DEF Rows
<1>6. /\ new.action.kind = row[a].action.kind /\ new.action.round = row[a].action.round
      /\ new.stage = row[a].stage /\ new.scheduled = row[a].scheduled
      /\ new.action # None
  BY <1>2, <1>3, <1>4, AbsentAssumption DEF Rows, Actions
<1>7. Fit(new)
  BY <1>2, <1>6, AbsentAssumption DEF Fit, Malformed
<1> QED BY <1>1, <1>5, <1>7

\* Whatever is being read or shown of the row is told apart from it by its version.
LEMMA CommitRows ==
  ASSUME ListsTyped, NEW a \in Apps, NEW new \in Rows, Fit(new),
         new.version = row[a].version, Commit(a, new)
  PROVE  /\ row' \in [Apps -> Rows] /\ \A b \in Apps : Fit(row'[b])
         /\ row'[a].version = row[a].version + 1
         /\ \A b \in Apps : b # a => row'[b] = row[b]
         /\ clock' \in Int
<1>1. PICK at \in {clock - 1, clock} :
        row' = [row EXCEPT ![a] = [new EXCEPT !.version = @ + 1, !.updated = at]]
  BY DEF Commit
<1> DEFINE saved == [new EXCEPT !.version = new.version + 1, !.updated = at]
<1>2. at \in Int /\ clock' \in Int
  BY DEF ListsTyped, Commit
<1>3. saved \in Rows /\ saved.version = row[a].version + 1
  <2>1. new.version \in Nat /\ new.version + 1 \in Nat
    BY DEF Rows
  <2>2. saved.version = new.version + 1
    BY DEF Rows
  <2>3. saved \in Rows
    BY <1>2, <2>1 DEF Rows
  <2> QED BY <2>2, <2>3
<1>4. saved.stage = new.stage /\ saved.action = new.action /\ saved.scheduled = new.scheduled
  BY DEF Rows
<1>5. Fit(saved)
  BY <1>4 DEF Fit, Malformed
<1>6. row' = [row EXCEPT ![a] = saved] /\ row \in [Apps -> Rows] /\ \A b \in Apps : Fit(row[b])
  BY <1>1 DEF ListsTyped
<1> HIDE DEF saved, Fit
<1> QED BY <1>2, <1>3, <1>5, <1>6

\* Whatever is being read or shown of the row is told apart from it by its version.
LEMMA CommitKeeps ==
  ASSUME ListsInv, NEW a \in Apps, NEW new \in Rows, Fit(new), new.version = row[a].version,
         Commit(a, new)
  PROVE  ListsInv'
<1>1. /\ row' \in [Apps -> Rows] /\ \A b \in Apps : Fit(row'[b])
      /\ row'[a].version = row[a].version + 1
      /\ \A b \in Apps : b # a => row'[b] = row[b]
      /\ clock' \in Int /\ touched' = touched \cup {a} /\ disturbed' = TRUE
      /\ UNCHANGED <<reader, shown, listed, mark, failed>>
  BY CommitRows DEF ListsInv, Commit
<1>2. ListsTyped'
  <2> HIDE DEF Fit
  <2> QED BY <1>1 DEF ListsInv, ListsTyped
<1>3. row[a].version \in Nat
  BY RowFields DEF ListsInv
<1>4. ASSUME NEW f \in Founds, AsFound(f)
      PROVE  AsFound(f)'
  BY <1>1, <1>3, <1>4 DEF AsFound, Founds
<1>5. ASSUME NEW i \in Items, AsShown(i)
      PROVE  AsShown(i)'
  BY <1>1, <1>3, <1>5 DEF AsShown, Items
<1>6. reader # None => /\ \A n \in DOMAIN reader.batches : reader.batches[n] \in SUBSET Founds
                       /\ \A n \in DOMAIN reader.items : reader.items[n] \in SUBSET Items
                       /\ reader.batches # <<>> => Head(reader.batches) \in SUBSET Founds
                                                   /\ Head(reader.batches) = reader.batches[1]
                                                   /\ 1 \in DOMAIN reader.batches
  BY DEF ListsInv, ListsTyped, Readers
<1>7. ReadTrue'
  <2>1. ShownTrue'
    BY <1>1, <1>5 DEF ListsInv, ListsTyped, ReadTrue, ShownTrue
  <2>2. ASSUME reader # None PROVE BatchesTrue' /\ ItemsTrue'
    BY <1>1, <1>4, <1>5, <1>6, <2>2 DEF ListsInv, ReadTrue, BatchesTrue, ItemsTrue
  <2>3. ASSUME reader # None PROVE ActionsTrue'
    <3> SUFFICES ASSUME reader.actions # None, NEW f \in Head(reader.batches),
                        f.version = row'[f.app].version
                 PROVE  f.app # a
      <4>1. reader' = reader /\ ActionsTrue
        BY <1>1, <2>3 DEF ListsInv, ReadTrue
      <4>2. ASSUME reader.actions # None, NEW f \in Head(reader.batches)
            PROVE  f.app # a => row'[f.app] = row[f.app]
        <5>1. f \in Founds
          BY <1>6, <2>3, <4>1, <4>2 DEF ActionsTrue
        <5> QED BY <1>1, <5>1 DEF Founds
      <4> QED BY <4>1, <4>2 DEF ActionsTrue
    <3>1. f \in Founds /\ f.version \in Nat /\ AsFound(f)
      BY <1>6, <2>3 DEF ListsInv, ReadTrue, BatchesTrue, ActionsTrue, Founds
    <3>2. ASSUME f.app = a PROVE FALSE
      <4>1. f.version <= row[a].version
        BY <3>1, <3>2 DEF AsFound
      <4> QED BY <1>1, <1>3, <3>1, <3>2, <4>1
    <3> QED BY <3>2
  <2> QED BY <1>1, <2>1, <2>2, <2>3 DEF ReadTrue
<1>8. Undisturbed' /\ FailsDisturbed' /\ Begun'
  BY <1>1 DEF ListsInv, Undisturbed, FailsDisturbed, Begun
<1>9. Covered'
  <2> SUFFICES ASSUME NEW b \in Apps \ touched, b # a
               PROVE  /\ mark # None => Follows(b, mark)' \/ Has(listed, b)
                      /\ reader = None /\ mark = None /\ listed # {} => Has(listed, b)
                      /\ PageRead => OnPage(b)' \/ Has(listed, b)
    BY <1>1 DEF Covered, PageRead, Has
  <2>1. row'[b] = row[b]
    BY <1>1
  <2> QED BY <1>1, <2>1 DEF ListsInv, Covered, PageRead, OnPage, Has, Follows
<1> QED BY <1>2, <1>7, <1>8, <1>9 DEF ListsInv

LEMMA CommandsKeep ==
  ASSUME ListsInv, NEW a \in Apps, NEW due \in Int, Open(a),
         \/ CloseApplication(a) \/ Schedule(a, due) \/ Complete(a, due) \/ CancelRound(a, due)
         \/ \E to \in Onward[row[a].stage] : Transition(a, to, due)
  PROVE  ListsInv'
<1>1. ListsTyped
  BY DEF ListsInv
<1>2. \E new \in Rows : Fit(new) /\ new.version = row[a].version /\ Commit(a, new)
  BY <1>1, CloseCommits, ScheduleCommits, CompleteCommits, CancelCommits, TransitionCommits
<1> QED BY <1>2, CommitKeeps

LEMMA PostponeKeeps ==
  ASSUME ListsInv, NEW item, item.app \in Apps, NEW due \in Int, Postpone(item, due)
  PROVE  ListsInv'
<1>1. \E new \in Rows :
         Fit(new) /\ new.version = row[item.app].version /\ Commit(item.app, new)
  BY PostponeCommits DEF ListsInv
<1> QED BY <1>1, CommitKeeps

(***************************************************************************)
(* A read begins, and statement follows statement.                         *)
(***************************************************************************)
LEMMA BeginKeeps ==
  ASSUME ListsInv, NEW kind \in {"today", "weekly", "list"}, BeginRead(kind)
  PROVE  ListsInv'
<1>1. /\ reader = None /\ disturbed' = FALSE /\ shown' = {} /\ failed' = FALSE
      /\ UNCHANGED <<row, clock>> /\ reader' = Reader(kind)
      /\ \/ kind = "list" /\ mark # None /\ UNCHANGED <<listed, mark, touched>>
         \/ listed' = {} /\ mark' = None /\ touched' = {}
  BY DEF BeginRead, ListsInv, ListsTyped, Fit
<1>2. /\ Reader(kind) \in Readers
      /\ Reader(kind).batches = <<>> /\ Reader(kind).items = <<>> /\ Reader(kind).actions = None
      /\ Reader(kind).total = None /\ Reader(kind).group = 1 /\ Reader(kind).view = kind
  BY DEF Reader, Readers
<1>3. ListsTyped'
  <2>1. disturbed' \in BOOLEAN /\ failed' \in BOOLEAN
    BY <1>1
  <2> QED BY <1>1, <1>2, <2>1 DEF ListsInv, ListsTyped
<1>4. ReadTrue' /\ Undisturbed' /\ FailsDisturbed'
  BY <1>1, <1>2 DEF ReadTrue, BatchesTrue, ActionsTrue, ItemsTrue, ShownTrue, Undisturbed,
                    StillAsFound, InGroups, FailsDisturbed
<1>5. Begun'
  BY <1>1, <1>2 DEF ListsInv, Begun
<1>6. Covered'
  BY <1>1, <1>2 DEF ListsInv, Covered, PageRead, Has, Follows
<1> QED BY <1>3, <1>4, <1>5, <1>6 DEF ListsInv

LEMMA DueNow ==
  /\ \A group : DueBy(group) = Due(row, group)
  /\ \A a \in Apps : Found(a) = FoundIn(row, a)
BY DEF DueBy, DueIn, Due, Open, Found, FoundIn

LEMMA CountKeeps == ASSUME ListsInv, CountGroup PROVE ListsInv'
<1>1. reader # None /\ reader \in Readers /\ reader.view = "today" /\ reader.batches = <<>>
      /\ reader.group \in 1..3
  BY DEF CountGroup, Reading, ListsInv, ListsTyped, Readers
<1>2. PICK total : total = Cardinality(DueBy(Groups[reader.group]))
                   /\ total = Cardinality(Due(row, Groups[reader.group]))
  BY DueNow
<1>3. total \in Nat
  <2>1. DueBy(Groups[reader.group]) \in SUBSET Apps
    BY DEF DueBy, DueIn
  <2>2. IsFiniteSet(DueBy(Groups[reader.group]))
    BY <2>1, FS_Subset, AppsAssumption
  <2> QED BY <1>2, <2>2, FS_CardinalityType
<1>4. /\ reader' = [reader EXCEPT !.total = total]
      /\ UNCHANGED <<row, clock, shown, listed, mark, touched, disturbed, failed>>
  BY <1>2 DEF CountGroup, Batched
<1>5. /\ reader' \in Readers /\ reader'.total = total
      /\ reader'.view = reader.view /\ reader'.group = reader.group /\ reader'.next = reader.next
      /\ reader'.batches = reader.batches /\ reader'.actions = reader.actions
      /\ reader'.items = reader.items
  BY <1>1, <1>3, <1>4 DEF Readers
<1>6. ListsTyped'
  BY <1>4, <1>5 DEF ListsInv, ListsTyped
<1>7. ReadTrue'
  BY <1>1, <1>4, <1>5 DEF ListsInv, ReadTrue, BatchesTrue, ActionsTrue, ItemsTrue, ShownTrue, AsFound, AsShown
<1>8. Undisturbed'
  BY <1>1, <1>2, <1>4, <1>5 DEF ListsInv, Undisturbed, StillAsFound, InGroups
<1>9. FailsDisturbed' /\ Begun'
  BY <1>1, <1>4, <1>5 DEF ListsInv, FailsDisturbed, Begun
<1>10. Covered'
  BY <1>1, <1>4, <1>5 DEF ListsInv, Begun, Covered, PageRead, OnPage, Has, Follows
<1> QED BY <1>6, <1>7, <1>8, <1>9, <1>10 DEF ListsInv

LEMMA FoundIsNow ==
  ASSUME ListsTyped, NEW a \in Apps
  PROVE  /\ Found(a) \in Founds /\ AsFound(Found(a)) /\ Found(a).version = row[a].version
         /\ Found(a).app = a /\ Found(a).stage = row[a].stage /\ Found(a).pinned = None
<1>1. row[a].version \in Nat /\ row[a].stage \in Stages
  BY RowFields
<1> QED BY <1>1 DEF Found, Founds, AsFound

LEMMA SelectGroupKeeps == ASSUME ListsInv, SelectGroup PROVE ListsInv'
<1>1. /\ reader # None /\ reader \in Readers /\ reader.view = "today" /\ reader.batches = <<>>
      /\ reader.group \in 1..3 /\ reader.total # None
  BY DEF SelectGroup, Reading, ListsInv, ListsTyped, Readers
<1>2. PICK due : due = Due(row, Groups[reader.group])
  OBVIOUS
<1>3. due = DueBy(Groups[reader.group]) /\ due \in SUBSET Apps
  BY <1>2, DueNow DEF Due
<1>a. PICK found : found = {FoundIn(row, a) : a \in due} /\ found = {Found(a) : a \in due}
  BY <1>3, DueNow
<1>4. found \in SUBSET Founds /\ \A f \in found : AsFound(f) /\ f.version = row[f.app].version
  BY <1>a, <1>3, FoundIsNow DEF ListsInv
<1>5. /\ reader' = [reader EXCEPT !.batches = <<found>>, !.group = @ + 1]
      /\ UNCHANGED <<row, clock, shown, listed, mark, touched, disturbed, failed>>
  BY <1>a, <1>3 DEF SelectGroup, Batched
<1>6. /\ <<found>> \in Seq(SUBSET Founds) /\ Len(<<found>>) = 1 /\ Head(<<found>>) = found
      /\ <<found>> # <<>> /\ DOMAIN <<found>> = {1} /\ <<found>>[1] = found
  BY <1>4
<1>7. reader.group + 1 \in 1..4
  BY <1>1
<1>8. /\ reader' \in Readers /\ reader'.batches = <<found>> /\ reader'.group = reader.group + 1
      /\ reader'.view = reader.view /\ reader'.total = reader.total /\ reader'.next = reader.next
      /\ reader'.actions = reader.actions /\ reader'.items = reader.items
  BY <1>1, <1>5, <1>6, <1>7 DEF Readers
<1>9. ListsTyped'
  BY <1>5, <1>8 DEF ListsInv, ListsTyped
<1>10. ReadTrue'
  <2>1. reader.actions = None
    BY <1>1 DEF ListsInv, ReadTrue, ActionsTrue
  <2>2. BatchesTrue'
    BY <1>4, <1>5, <1>6, <1>8 DEF BatchesTrue, AsFound
  <2> QED BY <1>1, <1>5, <1>8, <2>1, <2>2
          DEF ListsInv, ReadTrue, ActionsTrue, ItemsTrue, ShownTrue, AsShown
<1>11. Undisturbed'
  <2> SUFFICES ASSUME ~disturbed PROVE StillAsFound' /\ InGroups'
    BY <1>1, <1>5, <1>8 DEF Undisturbed
  <2>1. StillAsFound /\ InGroups
    BY <1>1 DEF ListsInv, Undisturbed
  <2>2. StillAsFound'
    BY <1>4, <1>5, <1>6, <1>8, <2>1 DEF StillAsFound
  <2>3. /\ Len(reader.items) = reader.group - 1
        /\ reader.total = Cardinality(due)
        /\ \A n \in DOMAIN reader.items : \A i \in reader.items[n] : i.app \in Due(row, Groups[n])
    BY <1>1, <1>2, <2>1 DEF InGroups
  <2>4. PICK g \in 1..3 : g = reader.group
    BY <1>1
  <2>a. reader'.group = g + 1 /\ g + 1 - 1 = g /\ g + 1 > 1 /\ g + 1 - 2 = g - 1
    BY <1>8, <2>4
  <2>5. reader'.group - 1 = reader.group /\ row' = row
    BY <1>5, <2>4, <2>a
  <2>6. /\ Len(reader'.batches) = 1 /\ reader'.group > 1 /\ Len(reader'.items) = reader'.group - 2
        /\ reader'.batches # <<>>
    BY <1>6, <1>8, <2>3, <2>4, <2>a
  <2>7. /\ reader'.total = Cardinality(Due(row', Groups[reader'.group - 1]))
        /\ Head(reader'.batches) = {FoundIn(row', a) : a \in Due(row', Groups[reader'.group - 1])}
    BY <1>2, <1>a, <1>6, <1>8, <2>3, <2>5
  <2>8. \A n \in DOMAIN reader'.items : \A i \in reader'.items[n] : i.app \in Due(row', Groups[n])
    BY <1>8, <2>3, <2>5
  <2>9. InGroups'
    BY <2>6, <2>7, <2>8 DEF InGroups
  <2> QED BY <2>2, <2>9
<1>12. FailsDisturbed' /\ Begun'
  BY <1>1, <1>5, <1>8 DEF ListsInv, FailsDisturbed, Begun
<1>13. Covered'
  BY <1>1, <1>5, <1>8 DEF ListsInv, Begun, Covered, PageRead, Has, Follows
<1> QED BY <1>9, <1>10, <1>11, <1>12, <1>13 DEF ListsInv

LEMMA StaleListed ==
  ASSUME NEW S \in SUBSET Apps
  PROVE  SetToSeq(S) \in [1..Cardinality(S) -> S] /\ Cardinality(S) \in Nat
<1>1. IsFiniteSet(S)
  BY FS_Subset, AppsAssumption
<1>2. Cardinality(S) \in Nat /\ ExistsBijection(1..Cardinality(S), S)
  BY <1>1, FS_CardinalityType
<1>3. \E f \in [1..Cardinality(S) -> S] : IsInjective(f)
  BY <1>2 DEF ExistsBijection, Bijection, Injection, IsInjective
<1>4. \E f : f \in [1..Cardinality(S) -> S] /\ IsInjective(f)
  BY <1>3
<1>5. SetToSeq(S) \in [1..Cardinality(S) -> S]
  BY <1>3 DEF SetToSeq
<1> QED BY <1>2, <1>5

LEMMA SelectStaleKeeps == ASSUME ListsInv, SelectStale PROVE ListsInv'
<1> DEFINE S == {a \in Apps : Open(a) /\ row[a].action.due < ThisDay}
<1>1. /\ reader # None /\ reader \in Readers /\ reader.view = "weekly" /\ reader.batches = <<>>
      /\ reader.group = 1
  BY DEF SelectStale, Reading, ListsInv, ListsTyped, Readers
<1>a. S \in SUBSET Apps
  OBVIOUS
<1>b. SetToSeq(S) \in [1..Cardinality(S) -> S] /\ Cardinality(S) \in Nat
  BY <1>a, StaleListed
<1>2. PICK n \in Nat : n = Cardinality(S)
  BY <1>b
<1>c. PICK stale : stale = SetToSeq(S)
  OBVIOUS
<1>d. stale \in [1..n -> Apps]
  BY <1>a, <1>b, <1>2, <1>c
<1>3. PICK batches : batches = [i \in DOMAIN stale |->
                                  {[Found(stale[i]) EXCEPT !.pinned = row[stale[i]].action]}]
  OBVIOUS
<1>4. ASSUME NEW i \in 1..n
      PROVE  \E f : /\ batches[i] = {f} /\ f \in Founds /\ AsFound(f)
                    /\ f.version = row[f.app].version
  <2> DEFINE a == stale[i]
             f == [Found(a) EXCEPT !.pinned = row[a].action]
  <2>1. a \in Apps /\ batches[i] = {f}
    BY <1>d, <1>3
  <2>2. /\ row[a].version \in Nat /\ row[a].stage \in Stages
        /\ row[a].action \in Actions \cup {None}
    BY <2>1, RowFields DEF ListsInv
  <2>3. f = [app |-> a, version |-> row[a].version, stage |-> row[a].stage, pinned |-> row[a].action]
    BY DEF Found
  <2>4. f \in Founds
    BY <2>1, <2>2, <2>3 DEF Founds
  <2>5. f.app = a /\ f.version = row[a].version /\ f.stage = row[a].stage /\ f.pinned = row[a].action
    BY <2>3
  <2> HIDE DEF f
  <2>6. AsFound(f)
    BY <2>2, <2>5 DEF AsFound
  <2> QED BY <2>1, <2>4, <2>5, <2>6
<1>5. batches \in Seq(SUBSET Founds) /\ DOMAIN batches = 1..n
  <2>1. DOMAIN batches = 1..n
    BY <1>d, <1>3
  <2>2. batches \in [1..n -> SUBSET Founds]
    BY <1>d, <1>3, <1>4
  <2> QED BY <2>1, <2>2
<1>6. /\ reader' = [reader EXCEPT !.group = 4, !.batches = batches]
      /\ UNCHANGED <<row, clock, shown, listed, mark, touched, disturbed, failed>>
  BY <1>c, <1>3 DEF SelectStale, Batched
<1>7. /\ reader' \in Readers /\ reader'.batches = batches /\ reader'.group = 4
      /\ reader'.view = reader.view /\ reader'.total = reader.total /\ reader'.next = reader.next
      /\ reader'.actions = reader.actions /\ reader'.items = reader.items
  <2>1. 4 \in 1..4 /\ batches \in Seq(SUBSET Founds)
    BY <1>5
  <2>2. reader' \in Readers
    BY <1>1, <1>6, <2>1 DEF Readers
  <2> QED BY <1>1, <1>6, <2>2 DEF Readers
<1>8. ListsTyped'
  BY <1>6, <1>7 DEF ListsInv, ListsTyped
<1>9. ReadTrue'
  <2>1. reader.actions = None
    BY <1>1 DEF ListsInv, ReadTrue, ActionsTrue
  <2>2. BatchesTrue'
    BY <1>4, <1>5, <1>6, <1>7 DEF BatchesTrue, AsFound
  <2> QED BY <1>1, <1>6, <1>7, <2>1, <2>2
          DEF ListsInv, ReadTrue, ActionsTrue, ItemsTrue, ShownTrue, AsShown
<1>10. Undisturbed'
  BY <1>1, <1>4, <1>5, <1>6, <1>7 DEF ListsInv, Undisturbed, StillAsFound
<1>11. FailsDisturbed' /\ Begun'
  BY <1>1, <1>6, <1>7 DEF ListsInv, FailsDisturbed, Begun
<1>12. Covered'
  BY <1>1, <1>6, <1>7 DEF ListsInv, Begun, Covered, PageRead, Has, Follows
<1> QED BY <1>8, <1>9, <1>10, <1>11, <1>12 DEF ListsInv

\* A page that is not the last one has a last application, which all that are left come after.
LEMMA PageEnds ==
  ASSUME ListsTyped, Page # Rest
  PROVE  LET last == CHOOSE a \in Page : \A b \in Page \ {a} : ChangedLater(b, a)
         IN  last \in Page /\ \A a \in Rest \ Page : ChangedLater(last, a)
<1> DEFINE before == [a \in Rest |-> {b \in Rest : ChangedLater(b, a)}]
           Place(a) == Cardinality(before[a])
           n == Cardinality(Rest)
<1>1. Rest \in SUBSET Apps /\ IsFiniteSet(Rest)
  BY FS_Subset, AppsAssumption DEF Rest
<1>2. before \in [Rest -> SUBSET Rest] /\ \A a, b \in Rest : b \in before[a] <=> ChangedLater(b, a)
  OBVIOUS
<1>3. \A a \in Rest : a \in Int /\ row[a].updated \in Int
  BY <1>1, RowFields, AppsAssumption
<1>4. /\ \A a \in Rest : ~ChangedLater(a, a)
      /\ \A a, b, c \in Rest : ChangedLater(a, b) /\ ChangedLater(b, c) => ChangedLater(a, c)
      /\ \A a, b \in Rest : a # b => ChangedLater(a, b) \/ ChangedLater(b, a)
  BY <1>3 DEF ChangedLater
<1>5. \A a \in Rest : a \in Page <=> Place(a) < PageSize
  BY DEF Page
<1>6. Page \in SUBSET Rest
  BY DEF Page
<1> HIDE DEF before
<1>7. /\ \A a \in Rest : a \notin before[a]
      /\ \A a, b \in Rest : a \in before[b] => before[a] \subseteq before[b]
      /\ \A a, b \in Rest : a # b => a \in before[b] \/ b \in before[a]
  BY <1>2, <1>4
<1>9. /\ n \in Nat
      /\ \A a \in Rest : Place(a) \in 0..(n - 1)
      /\ \A a, b \in Rest : a \in before[b] => Place(a) < Place(b)
      /\ \A a, b \in Rest : Place(a) = Place(b) => a = b
      /\ \A i \in 0..(n - 1) : \E a \in Rest : Place(a) = i
  BY <1>1, <1>2, <1>7, Places
<1> HIDE DEF Place, n
<1>10. PICK x \in Rest : ~(Place(x) < PageSize)
  BY <1>5, <1>6
<1>11. PageSize - 1 \in 0..(n - 1)
  BY <1>9, <1>10, PageSizeAssumption
<1>12. PICK last \in Rest : Place(last) = PageSize - 1
  BY <1>9, <1>11
<1>13. ASSUME NEW a \in Rest, NEW b \in Rest, Place(a) < Place(b)
       PROVE  ChangedLater(a, b)
  <2>1. a # b /\ ~(Place(b) < Place(a))
    BY <1>9, <1>13
  <2> QED BY <2>1, <1>2, <1>7, <1>9
<1>14. last \in Page /\ \A b \in Page \ {last} : ChangedLater(b, last)
  <2>1. last \in Page
    BY <1>5, <1>12, PageSizeAssumption
  <2>2. ASSUME NEW b \in Page \ {last} PROVE ChangedLater(b, last)
    <3>1. b \in Rest /\ Place(b) < PageSize /\ Place(b) # Place(last) /\ Place(b) \in Nat
      BY <1>5, <1>6, <1>9, <2>2
    <3>2. Place(b) < Place(last)
      BY <3>1, <1>12, PageSizeAssumption
    <3> QED BY <3>1, <3>2, <1>13
  <2> QED BY <2>1, <2>2
<1>15. ASSUME NEW a \in Rest \ Page PROVE ChangedLater(last, a)
  <2>1. ~(Place(a) < PageSize) /\ Place(a) \in Nat
    BY <1>5, <1>9, <1>15
  <2>2. Place(last) < Place(a)
    BY <2>1, <1>12, PageSizeAssumption
  <2> QED BY <2>2, <1>13, <1>15
<1>16. ASSUME NEW other \in Page, \A b \in Page \ {other} : ChangedLater(b, other)
       PROVE  other = last
  <2>1. ASSUME other # last PROVE FALSE
    <3>1. ChangedLater(last, other) /\ ChangedLater(other, last)
      BY <1>14, <1>16, <2>1
    <3> QED BY <3>1, <1>4, <1>6, <1>16
  <2> QED BY <2>1
<1>17. last = CHOOSE a \in Page : \A b \in Page \ {a} : ChangedLater(b, a)
  BY <1>14, <1>16
<1> QED BY <1>14, <1>15, <1>17

LEMMA SelectPageKeeps == ASSUME ListsInv, SelectPage PROVE ListsInv'
<1>1. /\ reader # None /\ reader \in Readers /\ reader.view = "list" /\ reader.batches = <<>>
      /\ reader.group = 1
  BY DEF SelectPage, Reading, ListsInv, ListsTyped, Readers
<1>2. PICK last : last = CHOOSE a \in Page : \A b \in Page \ {a} : ChangedLater(b, a)
  OBVIOUS
<1>3. PICK found : found = {Found(a) : a \in Page}
  OBVIOUS
<1>4. PICK next : next = IF Page = Rest THEN None ELSE [updated |-> row[last].updated, app |-> last]
  OBVIOUS
<1>5. /\ reader' = [reader EXCEPT !.group = 4, !.batches = <<found>>, !.next = next]
      /\ touched' = IF mark = None THEN {} ELSE touched
      /\ UNCHANGED <<row, clock, shown, listed, mark, disturbed, failed>>
  BY <1>2, <1>3, <1>4 DEF SelectPage
<1>6. Page \in SUBSET Rest /\ Rest \in SUBSET Apps
  BY DEF Page, Rest
<1>7. Page # Rest => last \in Page /\ \A a \in Rest \ Page : ChangedLater(last, a)
  BY <1>2, PageEnds DEF ListsInv
<1>8. next \in Marks \cup {None} /\ (next = None <=> Page = Rest)
  <2>1. CASE Page = Rest
    BY <2>1, <1>4
  <2>2. CASE Page # Rest
    <3>1. last \in Apps /\ row[last].updated \in Int
      BY <2>2, <1>6, <1>7, RowFields DEF ListsInv
    <3>2. next \in Marks
      BY <2>2, <3>1, <1>4 DEF Marks
    <3> QED BY <2>2, <3>2, AbsentAssumption
  <2> QED BY <2>1, <2>2
<1>9. found \in SUBSET Founds /\ \A f \in found : AsFound(f) /\ f.version = row[f.app].version
  BY <1>3, <1>6, FoundIsNow DEF ListsInv
<1>10. /\ <<found>> \in Seq(SUBSET Founds) /\ DOMAIN <<found>> = {1} /\ <<found>>[1] = found
       /\ 4 \in 1..4
  BY <1>9
<1>11. /\ reader' \in Readers /\ reader'.batches = <<found>> /\ reader'.group = 4
       /\ reader'.view = reader.view /\ reader'.total = reader.total /\ reader'.next = next
       /\ reader'.actions = reader.actions /\ reader'.items = reader.items
  <2>1. reader' \in Readers
    BY <1>1, <1>5, <1>8, <1>10 DEF Readers
  <2> QED BY <1>1, <1>5, <2>1 DEF Readers
<1>12. ListsTyped'
  BY <1>5, <1>11 DEF ListsInv, ListsTyped
<1>13. ReadTrue'
  <2>1. reader.actions = None
    BY <1>1 DEF ListsInv, ReadTrue, ActionsTrue
  <2>2. BatchesTrue'
    BY <1>9, <1>5, <1>10, <1>11 DEF BatchesTrue, AsFound
  <2> QED BY <1>1, <1>5, <1>11, <2>1, <2>2
          DEF ListsInv, ReadTrue, ActionsTrue, ItemsTrue, ShownTrue, AsShown
<1>14. Undisturbed'
  BY <1>1, <1>9, <1>5, <1>10, <1>11 DEF ListsInv, Undisturbed, StillAsFound
<1>15. FailsDisturbed' /\ Begun'
  BY <1>1, <1>5, <1>11 DEF ListsInv, FailsDisturbed, Begun
<1>16. Covered'
  <2> SUFFICES ASSUME NEW a \in Apps \ touched'
               PROVE  /\ mark # None => Follows(a, mark) \/ Has(listed, a)
                      /\ OnPage(a)' \/ Has(listed, a)
    BY <1>1, <1>5, <1>11 DEF Covered, PageRead, Follows, Has, ListsInv, Begun
  <2>1. mark # None => Follows(a, mark) \/ Has(listed, a)
    BY <1>5 DEF ListsInv, Covered
  <2>2. a \in Rest \/ Has(listed, a)
    BY <2>1 DEF Rest, Below, Follows
  <2>3. ASSUME a \in Page PROVE OnPage(a)'
    <3>1. Found(a) \in found /\ Found(a).app = a
      BY <2>3, <1>3 DEF Found
    <3>2. Has(found, a)
      BY <3>1 DEF Has
    <3> QED BY <3>2, <1>10, <1>11 DEF OnPage, Has
  <2>4. ASSUME a \in Rest \ Page PROVE OnPage(a)'
    <3>1. ChangedLater(last, a) /\ next = [updated |-> row[last].updated, app |-> last]
      BY <2>4, <1>4, <1>7
    <3>2. last \in Int /\ row[last].updated \in Int /\ a \in Int /\ row[a].updated \in Int
      BY <2>4, <1>6, <1>7, RowFields, AppsAssumption DEF ListsInv
    <3>3. Follows(a, next)
      BY <3>1, <3>2 DEF ChangedLater, Follows
    <3>4. next # None
      BY <2>4, <1>8
    <3> QED BY <3>3, <3>4, <1>5, <1>11 DEF OnPage, Follows
  <2> QED BY <2>1, <2>2, <2>3, <2>4
<1> QED BY <1>12, <1>13, <1>14, <1>15, <1>16 DEF ListsInv

LEMMA ActionsKeep == ASSUME ListsInv, ReadActions PROVE ListsInv'
<1>1. /\ reader # None /\ reader \in Readers /\ reader.batches # <<>> /\ reader.actions = None
  BY DEF ReadActions, ListsInv, ListsTyped
<1>2. PICK batch : batch = Head(reader.batches)
  OBVIOUS
<1>3. PICK actions : actions = [f \in batch |-> Loaded(f)]
  OBVIOUS
<1>4. batch \in SUBSET Founds /\ batch = reader.batches[1] /\ 1 \in DOMAIN reader.batches
  BY <1>1, <1>2 DEF Readers
<1>5. ASSUME NEW f \in batch
      PROVE  /\ Loaded(f) \in Actions \cup {None}
             /\ f.version = row[f.app].version => Loaded(f) = row[f.app].action
  <2>1. f \in Founds /\ AsFound(f)
    BY <1>1, <1>4, <1>5 DEF ListsInv, ReadTrue, BatchesTrue
  <2>2. f.app \in Apps /\ f.pinned \in Actions \cup {None}
    BY <2>1 DEF Founds
  <2>3. row[f.app].action \in Actions \cup {None}
    BY <2>2, RowFields DEF ListsInv
  <2> QED BY <2>1, <2>2, <2>3 DEF AsFound, Loaded
<1>6. actions \in [batch -> Actions \cup {None}]
  BY <1>3, <1>5
<1>7. actions \in Answers
  BY <1>4, <1>6 DEF Answers
<1>8. /\ reader' = [reader EXCEPT !.actions = actions]
      /\ UNCHANGED <<row, clock, shown, listed, mark, touched, disturbed, failed>>
  BY <1>2, <1>3 DEF ReadActions, Batched
<1>9. /\ reader' \in Readers /\ reader'.actions = actions
      /\ reader'.view = reader.view /\ reader'.group = reader.group /\ reader'.next = reader.next
      /\ reader'.batches = reader.batches /\ reader'.total = reader.total
      /\ reader'.items = reader.items
  <2>1. reader' \in Readers
    BY <1>1, <1>7, <1>8 DEF Readers
  <2> QED BY <1>1, <1>8, <2>1 DEF Readers
<1>10. ListsTyped'
  BY <1>8, <1>9 DEF ListsInv, ListsTyped
<1>11. ReadTrue'
  <2>1. ActionsTrue'
    BY <1>1, <1>2, <1>3, <1>5, <1>6, <1>8, <1>9 DEF ActionsTrue
  <2> QED BY <1>1, <1>8, <1>9, <2>1
          DEF ListsInv, ReadTrue, BatchesTrue, ItemsTrue, ShownTrue, AsFound, AsShown
<1>12. Undisturbed'
  BY <1>1, <1>8, <1>9 DEF ListsInv, Undisturbed, StillAsFound, InGroups
<1>13. FailsDisturbed' /\ Begun'
  BY <1>1, <1>8, <1>9 DEF ListsInv, FailsDisturbed, Begun
<1>14. Covered'
  <2> SUFFICES ASSUME NEW a \in Apps \ touched
               PROVE  /\ mark # None => Follows(a, mark) \/ Has(listed, a)
                      /\ reader' = None /\ mark = None /\ listed # {} => Has(listed, a)
                      /\ PageRead' => OnPage(a)' \/ Has(listed, a)
    BY <1>8 DEF Covered, Follows, Has
  <2>1. mark = None => listed = {}
    BY <1>1 DEF ListsInv, Begun
  <2>2. PageRead' => PageRead
    BY <1>1, <1>9 DEF PageRead
  <2>3. OnPage(a) => OnPage(a)'
    BY <1>8, <1>9 DEF OnPage, Has, Follows
  <2> QED BY <2>1, <2>2, <2>3 DEF ListsInv, Covered
<1> QED BY <1>10, <1>11, <1>12, <1>13, <1>14 DEF ListsInv

\* What is made of a batch.
LEMMA BatchRead ==
  ASSUME ListsInv, reader # None, reader.actions # None
  PROVE  /\ reader \in Readers /\ reader.batches # <<>>
         /\ Head(reader.batches) \in SUBSET Founds /\ Head(reader.batches) = reader.batches[1]
         /\ 1 \in DOMAIN reader.batches
         /\ \A f \in Head(reader.batches) :
              /\ f \in Founds /\ AsFound(f) /\ f.app \in Apps
              /\ reader.actions[f] \in Actions \cup {None}
              /\ f.version = row[f.app].version => reader.actions[f] = row[f.app].action
              /\ Item(f, reader.actions[f]) \in Items /\ AsShown(Item(f, reader.actions[f]))
<1>1. reader \in Readers /\ reader.batches # <<>>
  BY DEF ListsInv, ListsTyped, ReadTrue, ActionsTrue
<1>2. /\ Head(reader.batches) \in SUBSET Founds /\ Head(reader.batches) = reader.batches[1]
      /\ 1 \in DOMAIN reader.batches
  BY <1>1 DEF Readers
<1>3. reader.actions \in Answers /\ DOMAIN reader.actions = Head(reader.batches)
  BY <1>1 DEF Readers, ListsInv, ReadTrue, ActionsTrue
<1>4. \A f \in Head(reader.batches) : reader.actions[f] \in Actions \cup {None}
  BY <1>3 DEF Answers
<1>5. ASSUME NEW f \in Head(reader.batches)
      PROVE  /\ f \in Founds /\ AsFound(f) /\ f.app \in Apps
             /\ f.version = row[f.app].version => reader.actions[f] = row[f.app].action
             /\ Item(f, reader.actions[f]) \in Items /\ AsShown(Item(f, reader.actions[f]))
  <2>1. f \in Founds /\ AsFound(f)
    BY <1>2, <1>5 DEF ListsInv, ReadTrue, BatchesTrue
  <2>2. f.version = row[f.app].version => reader.actions[f] = row[f.app].action
    BY <1>5 DEF ListsInv, ReadTrue, ActionsTrue
  <2>3. f.app \in Apps /\ f.version \in Nat /\ f.stage \in Stages
    BY <2>1 DEF Founds
  <2>4. Item(f, reader.actions[f]) \in Items
    BY <1>4, <1>5, <2>3 DEF Item, Items
  <2>5. AsShown(Item(f, reader.actions[f]))
    BY <2>1, <2>2 DEF AsShown, AsFound, Item
  <2> QED BY <2>1, <2>2, <2>3, <2>4, <2>5
<1> QED BY <1>1, <1>2, <1>4, <1>5

\* What nothing came between is put together.
LEMMA QuietFits ==
  ASSUME ListsInv, reader # None, reader.actions # None, ~disturbed
  PROVE  LET batch == Head(reader.batches)
             items == {Item(f, reader.actions[f]) : f \in batch}
         IN  /\ \A f \in batch : ~Torn(f, reader.actions[f])
             /\ reader.view = "today" =>
                  /\ ~(reader.total < Cardinality(items))
                  /\ \A i \in items : ~Misplaced(i, Groups[reader.group - 1])
                  /\ \A i \in items, j \in UNION Range(reader.items) : i.app # j.app
<1> DEFINE batch == Head(reader.batches)
           Made(f) == Item(f, reader.actions[f])
           items == {Made(f) : f \in batch}
<1>1. StillAsFound /\ (reader.view = "today" => InGroups)
  BY DEF ListsInv, Undisturbed
<1>2. reader \in Readers /\ batch \in SUBSET Founds /\ batch = reader.batches[1]
      /\ 1 \in DOMAIN reader.batches /\ reader.batches # <<>>
  BY BatchRead
<1>3. ASSUME NEW f \in batch
      PROVE  /\ f.app \in Apps /\ f \in Founds
             /\ f.version = row[f.app].version /\ f.stage = row[f.app].stage
             /\ f.pinned \in {None, row[f.app].action} /\ reader.actions[f] = row[f.app].action
  <2>1. f.version = row[f.app].version
    BY <1>1, <1>2, <1>3 DEF StillAsFound
  <2> QED BY <1>3, <2>1, BatchRead DEF AsFound
<1>4. ASSUME NEW f \in batch
      PROVE  ~Torn(f, reader.actions[f])
  <2>1. PICK r \in Rows : r = row[f.app] /\ Fit(r)
    BY <1>3, <1>4, RowFields DEF ListsInv
  <2>2. /\ f.stage = r.stage /\ reader.actions[f] = r.action
        /\ f.pinned # None => f.pinned = r.action
    BY <1>3, <1>4, <2>1
  <2>3. (r.stage # "closed") <=> (r.action # None)
    BY <2>1 DEF Fit, Malformed
  <2>4. r.action # None => (r.action.round <=> r.scheduled)
    BY <2>1, <2>3 DEF Fit, Malformed
  <2>5. r.action # None => r.action.round = r.scheduled
    <3>1. r.action # None => r.action.round \in BOOLEAN
      BY <2>1 DEF Rows, Actions
    <3>2. r.scheduled \in BOOLEAN
      BY <2>1 DEF Rows
    <3> QED BY <3>1, <3>2, <2>4
  <2> HIDE DEF batch
  <2> QED BY <2>1, <2>2, <2>3, <2>5 DEF Torn
<1>5. ASSUME reader.view = "today"
      PROVE  /\ ~(reader.total < Cardinality(items))
             /\ \A i \in items : ~Misplaced(i, Groups[reader.group - 1])
             /\ \A i \in items, j \in UNION Range(reader.items) : i.app # j.app
  <2>1. PICK g \in 1..3 : g = reader.group - 1
    BY <1>1, <1>2, <1>5 DEF InGroups, Readers
  <2>2. PICK due : due = Due(row, Groups[g])
    OBVIOUS
  <2>3. /\ reader.total = Cardinality(due) /\ Len(reader.items) = g - 1
        /\ batch = {FoundIn(row, a) : a \in due}
        /\ \A n \in DOMAIN reader.items : \A i \in reader.items[n] : i.app \in Due(row, Groups[n])
    <3>1. reader.group - 2 = g - 1
      BY <2>1, <1>2 DEF Readers
    <3> QED BY <1>1, <1>2, <1>5, <2>1, <2>2, <3>1 DEF InGroups
  <2>4. due \in SUBSET Apps /\ IsFiniteSet(due)
    <3>1. due \in SUBSET Apps
      BY <2>2 DEF Due
    <3> QED BY <3>1, FS_Subset, AppsAssumption
  <2>5. items = {Made(FoundIn(row, a)) : a \in due}
    BY <2>3
  <2>6. ASSUME NEW i \in items
        PROVE  /\ i.app \in due /\ i.stage = row[i.app].stage /\ i.action = row[i.app].action
    <3>1. PICK a \in due : i = Made(FoundIn(row, a))
      BY <2>5, <2>6
    <3>2. FoundIn(row, a) \in batch /\ FoundIn(row, a).app = a
      BY <2>3 DEF FoundIn
    <3> HIDE DEF batch
    <3>3. i.app = a /\ i.stage = row[a].stage /\ i.action = row[a].action
      BY <1>3, <3>1, <3>2 DEF Item
    <3> QED BY <3>3
  <2>7. ~(reader.total < Cardinality(items))
    <3> DEFINE joined == [a \in due |-> Made(FoundIn(row, a))]
    <3>1. joined \in Surjection(due, items)
      BY <2>5 DEF Surjection
    <3>2. IsFiniteSet(items) /\ Cardinality(items) <= Cardinality(due)
      BY <3>1, <2>4, FS_Surjection
    <3>3. Cardinality(items) \in Nat /\ Cardinality(due) \in Nat
      BY <2>4, <3>2, FS_CardinalityType
    <3> HIDE DEF items
    <3> QED BY <2>3, <3>2, <3>3
  <2>8. ASSUME NEW i \in items PROVE ~Misplaced(i, Groups[reader.group - 1])
    <3>1. /\ i.app \in Apps /\ row[i.app].stage # "closed"
          /\ InGroup(Groups[g], row[i.app].action.due)
      BY <2>2, <2>6, <2>8 DEF Due
    <3>2. Fit(row[i.app]) /\ row[i.app] \in Rows
      BY <3>1, RowFields DEF ListsInv
    <3>3. IF row[i.app].action.round THEN row[i.app].stage \in Schedulable
          ELSE row[i.app].action.kind = ActionKind[row[i.app].stage]
      BY <3>1, <3>2 DEF Fit, Malformed, Rows
    <3> HIDE DEF items
    <3> QED BY <2>1, <2>6, <2>8, <3>1, <3>3 DEF Misplaced
  <2>9. ASSUME NEW i \in items, NEW j \in UNION Range(reader.items) PROVE i.app # j.app
    <3>1. PICK n \in DOMAIN reader.items : j \in reader.items[n]
      BY <2>9 DEF Range
    <3>2. j.app \in Due(row, Groups[n]) /\ n \in 1..(g - 1)
      <4>1. DOMAIN reader.items = 1..(g - 1)
        BY <1>2, <2>1, <2>3 DEF Readers
      <4> QED BY <3>1, <4>1, <2>3
    <3>3. ASSUME i.app = j.app PROVE FALSE
      <4>1. /\ i.app \in Apps /\ row[i.app].action \in Actions
            /\ InGroup(Groups[g], row[i.app].action.due) /\ InGroup(Groups[n], row[i.app].action.due)
        <5>1. i.app \in Apps /\ row[i.app].stage # "closed"
          BY <2>2, <2>6, <2>9 DEF Due
        <5>2. row[i.app].action \in Actions
          BY <5>1, RowFields DEF ListsInv, Open
        <5> HIDE DEF items
        <5> QED BY <5>1, <5>2, <2>2, <2>6, <2>9, <3>2, <3>3 DEF Due
      <4>2. row[i.app].action.due \in Int
        BY <4>1 DEF Actions
      <4>3. <<n, g>> \in {<<1, 2>>, <<1, 3>>, <<2, 3>>}
        BY <2>1, <3>2
      <4> HIDE DEF items
      <4>4. PICK d \in Int : d = row[i.app].action.due
        BY <4>2
      <4>5. /\ InGroup("overdue", d) => d < ThisDay
            /\ InGroup("today", d) => d = ThisDay
            /\ InGroup("next", d) => d > ThisDay
        BY DEF InGroup
      <4>6. Groups[1] = "overdue" /\ Groups[2] = "today" /\ Groups[3] = "next"
        BY DEF Groups
      <4>7. InGroup(Groups[n], d) /\ InGroup(Groups[g], d)
        BY <4>1, <4>4
      <4>8. CASE n = 1 /\ g = 2
        BY <4>5, <4>6, <4>7, <4>8, DaysAssumption
      <4>9. CASE n = 1 /\ g = 3
        BY <4>5, <4>6, <4>7, <4>9, DaysAssumption
      <4>10. CASE n = 2 /\ g = 3
        BY <4>5, <4>6, <4>7, <4>10, DaysAssumption
      <4> QED BY <4>3, <4>8, <4>9, <4>10
    <3> QED BY <3>3
  <2> QED BY <2>7, <2>8, <2>9
<1> QED BY <1>4, <1>5

LEMMA FailKeeps ==
  ASSUME ListsInv, Summarise, Fail
  PROVE  ListsInv'
<1>1. /\ reader # None /\ reader.actions # None /\ failed' = TRUE /\ reader' = None
      /\ UNCHANGED <<row, clock, shown, listed, mark, touched, disturbed>>
  BY DEF Summarise, Fail
<1>2. disturbed
  <2> SUFFICES ASSUME ~disturbed PROVE FALSE
    OBVIOUS
  <2>1. failed' # FALSE
    BY <1>1
  <2> DEFINE batch == Head(reader.batches)
             items == {Item(f, reader.actions[f]) : f \in batch}
  <2>2. \/ \E f \in batch : Torn(f, reader.actions[f])
        \/ reader.view = "today" /\
             \/ reader.total < Cardinality(items)
             \/ \E i \in items : Misplaced(i, Groups[reader.group - 1])
             \/ \E i \in items, j \in UNION Range(reader.items) : i.app = j.app
    BY <2>1 DEF Summarise
  <2>3. /\ \A f \in batch : ~Torn(f, reader.actions[f])
        /\ reader.view = "today" =>
             /\ ~(reader.total < Cardinality(items))
             /\ \A i \in items : ~Misplaced(i, Groups[reader.group - 1])
             /\ \A i \in items, j \in UNION Range(reader.items) : i.app # j.app
    BY <1>1, QuietFits
  <2> HIDE DEF batch, items
  <2> QED BY <2>2, <2>3
<1>3. ListsTyped'
  <2>1. failed' \in BOOLEAN /\ disturbed' \in BOOLEAN
    BY <1>1 DEF ListsInv, ListsTyped
  <2> QED BY <1>1, <2>1 DEF ListsInv, ListsTyped
<1>4. ReadTrue' /\ Undisturbed' /\ FailsDisturbed'
  BY <1>1, <1>2 DEF ListsInv, ReadTrue, ShownTrue, AsShown, Undisturbed, FailsDisturbed
<1>5. Begun' /\ Covered'
  BY <1>1 DEF ListsInv, Begun, Covered, PageRead, Follows, Has
<1> QED BY <1>3, <1>4, <1>5 DEF ListsInv

LEMMA SummariseKeeps == ASSUME ListsInv, Summarise, ~Fail PROVE ListsInv'
<1>1. PICK batch : batch = Head(reader.batches)
  OBVIOUS
<1>2. PICK items : items = {Item(f, reader.actions[f]) : f \in batch}
  OBVIOUS
<1>3. /\ reader # None /\ reader.actions # None
      /\ reader' = [reader EXCEPT !.items = Append(@, items), !.total = None,
                                  !.batches = Tail(@), !.actions = None]
      /\ failed' = FALSE
      /\ UNCHANGED <<row, clock, shown, listed, mark, touched, disturbed>>
  BY <1>1, <1>2 DEF Summarise
<1>4. /\ reader \in Readers /\ reader.batches # <<>> /\ batch \in SUBSET Founds
      /\ batch = reader.batches[1] /\ 1 \in DOMAIN reader.batches
      /\ \A f \in batch : /\ f \in Founds /\ f.app \in Apps
                          /\ Item(f, reader.actions[f]) \in Items
                          /\ AsShown(Item(f, reader.actions[f]))
  BY <1>1, <1>3, BatchRead
<1>5. items \in SUBSET Items /\ \A i \in items : AsShown(i)
  BY <1>2, <1>4
<1>6. PICK n \in Nat : n = Len(reader.batches) /\ n > 0
  BY <1>4 DEF Readers
<1>7. PICK m \in Nat : m = Len(reader.items)
  BY <1>4 DEF Readers
<1>8. PICK rest : rest = Tail(reader.batches)
  OBVIOUS
<1>9. /\ rest \in Seq(SUBSET Founds) /\ DOMAIN rest = 1..(n - 1) /\ Len(rest) = n - 1
      /\ DOMAIN reader.batches = 1..n
      /\ \A k \in 1..(n - 1) : rest[k] = reader.batches[k + 1] /\ k + 1 \in 1..n
  <2>1. reader.batches \in Seq(SUBSET Founds)
    BY <1>4 DEF Readers
  <2> QED BY <2>1, <1>4, <1>6, <1>8, HeadTailProperties
<1>10. PICK joined : joined = Append(reader.items, items)
  OBVIOUS
<1>11. /\ joined \in Seq(SUBSET Items) /\ DOMAIN joined = 1..(m + 1) /\ Len(joined) = m + 1
       /\ DOMAIN reader.items = 1..m
       /\ \A k \in 1..m : joined[k] = reader.items[k] /\ k \in 1..(m + 1)
       /\ joined[m + 1] = items /\ m + 1 \in 1..(m + 1)
  <2>1. reader.items \in Seq(SUBSET Items)
    BY <1>4 DEF Readers
  <2> QED BY <2>1, <1>5, <1>7, <1>10, AppendProperties
<1>12. /\ reader' \in Readers /\ reader'.items = joined /\ reader'.total = None
       /\ reader'.batches = rest /\ reader'.actions = None
       /\ reader'.view = reader.view /\ reader'.group = reader.group /\ reader'.next = reader.next
  <2>1. reader' = [reader EXCEPT !.items = joined, !.total = None, !.batches = rest, !.actions = None]
    BY <1>3, <1>4, <1>8, <1>10 DEF Readers
  <2>2. reader' \in Readers
    BY <2>1, <1>4, <1>9, <1>11 DEF Readers
  <2> QED BY <2>1, <2>2, <1>4 DEF Readers
<1>13. ListsTyped'
  <2>1. failed' \in BOOLEAN /\ disturbed' \in BOOLEAN
    BY <1>3 DEF ListsInv, ListsTyped
  <2> QED BY <1>3, <1>12, <2>1 DEF ListsInv, ListsTyped
<1>14. ReadTrue'
  <2>1. \A k \in DOMAIN rest : \A f \in rest[k] : AsFound(f)
    BY <1>3, <1>9 DEF ListsInv, ReadTrue, BatchesTrue
  <2>2. BatchesTrue'
    BY <2>1, <1>3, <1>12 DEF BatchesTrue, AsFound
  <2>3. \A k \in DOMAIN joined : \A i \in joined[k] : AsShown(i)
    <3> SUFFICES ASSUME NEW k \in 1..(m + 1), NEW i \in joined[k] PROVE AsShown(i)
      BY <1>11
    <3>1. CASE k \in 1..m
      BY <3>1, <1>3, <1>11 DEF ListsInv, ReadTrue, ItemsTrue
    <3>2. CASE k = m + 1
      BY <3>2, <1>5, <1>11
    <3> QED BY <3>1, <3>2
  <2>4. ItemsTrue'
    BY <2>3, <1>3, <1>12 DEF ItemsTrue, AsShown
  <2> QED BY <1>3, <1>12, <2>2, <2>4 DEF ListsInv, ReadTrue, ActionsTrue, ShownTrue, AsShown
<1>15. Undisturbed'
  <2> SUFFICES ASSUME ~disturbed PROVE StillAsFound' /\ (reader.view = "today" => InGroups')
    BY <1>3, <1>12 DEF Undisturbed
  <2>1. StillAsFound /\ (reader.view = "today" => InGroups)
    BY <1>3 DEF ListsInv, Undisturbed
  <2>2. \A k \in DOMAIN rest : \A f \in rest[k] : f.version = row[f.app].version
    <3> SUFFICES ASSUME NEW k \in 1..(n - 1), NEW f \in rest[k] PROVE f.version = row[f.app].version
      BY <1>9
    <3>1. f \in reader.batches[k + 1] /\ k + 1 \in DOMAIN reader.batches
      BY <1>9
    <3> QED BY <2>1, <3>1 DEF StillAsFound
  <2>3. \A i \in items : i.version = row[i.app].version
    BY <1>2, <1>4, <2>1 DEF StillAsFound, Item
  <2>4. \A k \in DOMAIN joined : \A i \in joined[k] : i.version = row[i.app].version
    <3> SUFFICES ASSUME NEW k \in 1..(m + 1), NEW i \in joined[k] PROVE i.version = row[i.app].version
      BY <1>11
    <3>1. CASE k \in 1..m
      BY <3>1, <1>11, <2>1 DEF StillAsFound
    <3>2. CASE k = m + 1
      BY <3>2, <1>11, <2>3
    <3> QED BY <3>1, <3>2
  <2>5. StillAsFound'
    BY <1>3, <1>12, <2>2, <2>4 DEF StillAsFound
  <2>6. ASSUME reader.view = "today" PROVE InGroups'
    <3>1. PICK g \in 2..4 : g = reader.group
      BY <1>4, <2>1, <2>6 DEF InGroups, Readers
    <3>2. /\ n = 1 /\ m = g - 2
          /\ batch = {FoundIn(row, a) : a \in Due(row, Groups[g - 1])}
          /\ \A k \in DOMAIN reader.items : \A i \in reader.items[k] : i.app \in Due(row, Groups[k])
      BY <1>1, <1>4, <1>6, <1>7, <2>1, <2>6, <3>1 DEF InGroups
    <3>3. rest = <<>> /\ m + 1 = g - 1
      BY <1>9, <3>1, <3>2
    <3>4. \A i \in items : i.app \in Due(row, Groups[m + 1])
      BY <1>2, <3>2, <3>3 DEF Item, FoundIn
    <3>5. \A k \in DOMAIN joined : \A i \in joined[k] : i.app \in Due(row, Groups[k])
      <4> SUFFICES ASSUME NEW k \in 1..(m + 1), NEW i \in joined[k] PROVE i.app \in Due(row, Groups[k])
        BY <1>11
      <4>1. CASE k \in 1..m
        BY <4>1, <1>11, <3>2
      <4>2. CASE k = m + 1
        BY <4>2, <1>11, <3>4
      <4> QED BY <4>1, <4>2
    <3>6. Len(joined) = reader'.group - 1
      BY <1>11, <1>12, <3>1, <3>3
    <3> QED BY <1>3, <1>12, <3>3, <3>5, <3>6 DEF InGroups
  <2> QED BY <2>5, <2>6
<1>16. FailsDisturbed' /\ Begun'
  BY <1>3, <1>12 DEF ListsInv, FailsDisturbed, Begun
<1>17. Covered'
  <2> SUFFICES ASSUME NEW a \in Apps \ touched
               PROVE  /\ mark # None => Follows(a, mark) \/ Has(listed, a)
                      /\ reader' = None /\ mark = None /\ listed # {} => Has(listed, a)
                      /\ PageRead' => OnPage(a)' \/ Has(listed, a)
    BY <1>3 DEF Covered, Follows, Has
  <2>1. mark = None => listed = {}
    BY <1>3 DEF ListsInv, Begun
  <2>2. PageRead' => PageRead
    BY <1>3, <1>12 DEF PageRead
  <2>3. ASSUME OnPage(a) PROVE OnPage(a)'
    <3>1. CASE reader.next # None /\ Follows(a, reader.next)
      BY <3>1, <1>3, <1>12 DEF OnPage, Follows
    <3>2. CASE \E k \in DOMAIN reader.batches : Has(reader.batches[k], a)
      <4>1. PICK k \in 1..n : Has(reader.batches[k], a)
        BY <3>2, <1>9
      <4>2. CASE k = 1
        <5>1. Has(batch, a)
          BY <4>1, <4>2, <1>4
        <5>2. Has(items, a)
          <6>1. PICK f \in batch : f.app = a
            BY <5>1 DEF Has
          <6>2. Item(f, reader.actions[f]) \in items /\ Item(f, reader.actions[f]).app = a
            BY <6>1, <1>2 DEF Item
          <6> QED BY <6>2 DEF Has
        <5> QED BY <5>2, <1>11, <1>12 DEF OnPage, Has
      <4>3. CASE k # 1
        <5>1. k - 1 \in 1..(n - 1) /\ rest[k - 1] = reader.batches[k]
          BY <4>3, <1>6, <1>9
        <5> QED BY <4>1, <5>1, <1>9, <1>12 DEF OnPage, Has
      <4> QED BY <4>2, <4>3
    <3>3. CASE \E k \in DOMAIN reader.items : Has(reader.items[k], a)
      BY <3>3, <1>11, <1>12 DEF OnPage, Has
    <3> QED BY <2>3, <3>1, <3>2, <3>3 DEF OnPage
  <2> QED BY <2>1, <2>2, <2>3 DEF ListsInv, Covered
<1> QED BY <1>13, <1>14, <1>15, <1>16, <1>17 DEF ListsInv

LEMMA DeliverKeeps == ASSUME ListsInv, Deliver PROVE ListsInv'
<1>1. /\ reader # None /\ reader \in Readers /\ reader.group = 4 /\ reader.batches = <<>>
      /\ reader' = None /\ disturbed' = FALSE
      /\ UNCHANGED <<row, clock, touched, failed>>
  BY DEF Deliver, ListsInv, ListsTyped
<1>2. PICK items : items = UNION Range(reader.items)
  OBVIOUS
<1>3. /\ shown' = {i \in items : i.action # None}
      /\ IF reader.view = "list"
         THEN /\ listed' = listed \cup {i \in items : \A j \in listed : i.app # j.app}
              /\ mark' = reader.next
         ELSE UNCHANGED <<listed, mark>>
  BY <1>2 DEF Deliver
<1>4. \A i \in items : \E n \in DOMAIN reader.items : i \in reader.items[n]
  BY <1>2 DEF Range
<1>5. \A n \in DOMAIN reader.items : reader.items[n] \in SUBSET items
  BY <1>2 DEF Range
<1>6. items \in SUBSET Items /\ \A i \in items : AsShown(i)
  <2>1. \A n \in DOMAIN reader.items : reader.items[n] \in SUBSET Items
    BY <1>1 DEF Readers
  <2> QED BY <1>1, <1>4, <2>1 DEF ListsInv, ReadTrue, ItemsTrue
<1>7. ListsTyped'
  <2>1. shown' \in SUBSET Items /\ listed' \in SUBSET Items
    BY <1>3, <1>6 DEF ListsInv, ListsTyped
  <2>2. mark' \in Marks \cup {None}
    BY <1>1, <1>3 DEF ListsInv, ListsTyped, Readers
  <2>3. failed' \in BOOLEAN /\ disturbed' \in BOOLEAN
    BY <1>1 DEF ListsInv, ListsTyped
  <2> QED BY <1>1, <2>1, <2>2, <2>3 DEF ListsInv, ListsTyped
<1>8. ReadTrue' /\ Undisturbed' /\ FailsDisturbed' /\ Begun'
  BY <1>1, <1>3, <1>6 DEF ListsInv, ReadTrue, ShownTrue, AsShown, Undisturbed, FailsDisturbed, Begun
<1>9. Covered'
  <2> SUFFICES ASSUME NEW a \in Apps \ touched
               PROVE  /\ mark' # None => Follows(a, mark') \/ Has(listed', a)
                      /\ mark' = None /\ listed' # {} => Has(listed', a)
    BY <1>1 DEF Covered, PageRead, Follows, Has
  <2>1. CASE reader.view = "list"
    <3>1. OnPage(a) \/ Has(listed, a)
      BY <1>1, <2>1 DEF ListsInv, Covered, PageRead
    <3>2. listed' = listed \cup {i \in items : \A j \in listed : i.app # j.app} /\ mark' = reader.next
      BY <1>3, <2>1
    <3>3. Has(listed, a) => Has(listed', a)
      BY <3>2 DEF Has
    <3>4. Has(items, a) => Has(listed', a)
      BY <3>2 DEF Has
    <3>5. OnPage(a) => (reader.next # None /\ Follows(a, reader.next)) \/ Has(items, a)
      BY <1>1, <1>5 DEF OnPage, Has
    <3> QED BY <3>1, <3>2, <3>3, <3>4, <3>5
  <2>2. CASE reader.view # "list"
    BY <1>1, <1>3, <2>2 DEF ListsInv, Begun
  <2> QED BY <2>1, <2>2
<1> QED BY <1>7, <1>8, <1>9 DEF ListsInv

LEMMA ListsStay == ListsInv /\ [ListsNext]_listVars => ListsInv'
<1> SUFFICES ASSUME ListsInv, [ListsNext]_listVars PROVE ListsInv'
  OBVIOUS
<1>1. \A due \in ThisDay..Furthest : due \in Int
  BY DaysAssumption
<1>2. ASSUME NEW a \in Apps, Open(a), NEW due \in ThisDay..Furthest,
             \/ CloseApplication(a) \/ Postpone(Latest(a), due)
             \/ \E to \in Onward[row[a].stage] : Transition(a, to, due)
             \/ Schedule(a, due) \/ Complete(a, due) \/ CancelRound(a, due)
      PROVE  ListsInv'
  <2>1. Latest(a).app = a
    BY DEF Latest
  <2>2. CASE Postpone(Latest(a), due)
    BY <1>1, <2>1, <2>2, PostponeKeeps
  <2> QED BY <1>1, <1>2, <2>2, CommandsKeep
<1>3. ASSUME NEW item \in shown, NEW due \in ThisDay..Furthest, Postpone(item, due)
      PROVE  ListsInv'
  <2>1. item.app \in Apps
    BY DEF ListsInv, ListsTyped, Items
  <2> QED BY <1>1, <1>3, <2>1, PostponeKeeps
<1>4. CASE Summarise
  BY <1>4, FailKeeps, SummariseKeeps
<1> QED BY <1>2, <1>3, <1>4, BeginKeeps, CountKeeps, SelectGroupKeeps, SelectStaleKeeps,
           SelectPageKeeps, ActionsKeep, DeliverKeeps, ListsStutter DEF ListsNext

LEMMA ListsAlways == ListsSpec => []ListsInv
<1>1. ListsInit => ListsInv
  BY ListsBegin
<1> QED BY <1>1, ListsStay, PTL DEF ListsSpec

(***************************************************************************)
(* The prompts.                                                            *)
(***************************************************************************)
\* The requirements with evidence have each its place in the order they are asked about, and
\* the required ones have the first places.
LEMMA OrderedPlaces ==
  ASSUME needs \in Requirements
  PROVE  /\ Cardinality(Backed) \in Nat /\ Cardinality(Required) \in Nat
         /\ Cardinality(Required) <= Cardinality(Backed)
         /\ Backed # {} => Cardinality(Backed) > 0
         /\ Required # {} => Cardinality(Required) > 0
         /\ \A m, n \in 1..Cardinality(Backed) : Ordered[m] = Ordered[n] => m = n
         /\ \A i \in Required : \E n \in 1..Cardinality(Required) : Ordered[n] = i
<1> DEFINE before == [i \in Backed |-> {j \in Backed : ComesBefore(j, i)}]
           Place(i) == Cardinality(before[i])
<1>1. needs \in Seq([required : BOOLEAN, backed : BOOLEAN])
  BY RequirementsAssumption
<1>2. /\ IsFiniteSet(Backed) /\ Backed \in SUBSET Nat
      /\ \A i \in Backed : needs[i] \in [required : BOOLEAN, backed : BOOLEAN]
  <2>1. DOMAIN needs = 1..Len(needs) /\ Len(needs) \in Nat
        /\ \A i \in DOMAIN needs : needs[i] \in [required : BOOLEAN, backed : BOOLEAN]
    <3> DEFINE T == [required : BOOLEAN, backed : BOOLEAN]
    <3>1. needs \in Seq(T)
      BY <1>1
    <3> HIDE DEF T
    <3>2. DOMAIN needs = 1..Len(needs) /\ Len(needs) \in Nat
          /\ \A i \in DOMAIN needs : needs[i] \in T
      BY <3>1, LenProperties, ElementOfSeq
    <3> QED BY <3>2 DEF T
  <2>2. Backed \in SUBSET (1..Len(needs)) /\ IsFiniteSet(1..Len(needs))
    BY <2>1, FS_Interval DEF Backed
  <2> QED BY <2>1, <2>2, FS_Subset DEF Backed
<1>3. Required \in SUBSET Backed /\ \A i \in Backed : i \in Required <=> needs[i].required
  BY DEF Required
<1>4. PICK n \in Nat : n = Cardinality(Backed)
  BY <1>2, FS_CardinalityType
<1>5. PICK m \in Nat : m = Cardinality(Required) /\ m <= n /\ IsFiniteSet(Required)
  BY <1>2, <1>3, <1>4, FS_Subset, FS_CardinalityType
<1>6. /\ before \in [Backed -> SUBSET Backed]
      /\ \A i, j \in Backed : j \in before[i] <=> ComesBefore(j, i)
  OBVIOUS
<1>7. /\ \A i \in Backed : ~ComesBefore(i, i)
      /\ \A i, j, k \in Backed : ComesBefore(i, j) /\ ComesBefore(j, k) => ComesBefore(i, k)
      /\ \A i, j \in Backed : i # j => ComesBefore(i, j) \/ ComesBefore(j, i)
  <2>1. \A i \in Backed : needs[i].required \in BOOLEAN /\ i \in Nat
    BY <1>2
  <2>2. \A i \in Backed : ~ComesBefore(i, i)
    BY <2>1 DEF ComesBefore
  <2>3. \A i, j, k \in Backed : ComesBefore(i, j) /\ ComesBefore(j, k) => ComesBefore(i, k)
    BY <2>1 DEF ComesBefore
  <2>4. \A i, j \in Backed : i # j => ComesBefore(i, j) \/ ComesBefore(j, i)
    BY <2>1 DEF ComesBefore
  <2> QED BY <2>2, <2>3, <2>4
<1>8. \A k \in 1..n : Ordered[k] = CHOOSE i \in Backed : Place(i) = k - 1
  BY <1>4 DEF Ordered
<1> HIDE DEF before
<1>9. /\ \A i \in Backed : i \notin before[i]
      /\ \A i, j \in Backed : i \in before[j] => before[i] \subseteq before[j]
      /\ \A i, j \in Backed : i # j => i \in before[j] \/ j \in before[i]
  BY <1>6, <1>7
<1>10. /\ \A i \in Backed : Place(i) \in 0..(n - 1)
       /\ \A i, j \in Backed : Place(i) = Place(j) => i = j
       /\ \A k \in 0..(n - 1) : \E i \in Backed : Place(i) = k
  <2>1. /\ IsFiniteSet(Backed) /\ before \in [Backed -> SUBSET Backed]
        /\ \A i \in Backed : i \notin before[i]
        /\ \A i, j \in Backed : i \in before[j] => before[i] \subseteq before[j]
        /\ \A i, j \in Backed : i # j => i \in before[j] \/ j \in before[i]
    BY <1>2, <1>6, <1>9
  <2>2. /\ \A i \in Backed : Cardinality(before[i]) \in 0..(Cardinality(Backed) - 1)
        /\ \A i, j \in Backed : Cardinality(before[i]) = Cardinality(before[j]) => i = j
        /\ \A k \in 0..(Cardinality(Backed) - 1) : \E i \in Backed : Cardinality(before[i]) = k
    BY <2>1, Places
  <2> QED BY <2>2, <1>4
<1>11. ASSUME NEW i \in Required PROVE Place(i) \in 0..(m - 1)
  <2>1. before[i] \in SUBSET Required /\ i \notin before[i] /\ i \in Backed
    <3>1. i \in Backed /\ needs[i].required
      BY <1>3, <1>11
    <3>2. \A j \in before[i] : j \in Backed /\ needs[j].required
      BY <3>1, <1>6 DEF ComesBefore
    <3> QED BY <3>1, <3>2, <1>3, <1>9
  <2>2. /\ IsFiniteSet(before[i]) /\ Cardinality(before[i]) <= m
        /\ m = Cardinality(before[i]) => Required = before[i]
    BY <2>1, <1>5, FS_Subset
  <2>3. Cardinality(before[i]) \in Nat
    BY <2>2, FS_CardinalityType
  <2> QED BY <2>1, <2>2, <2>3, <1>5, <1>11
<1> HIDE DEF Place
<1>12. ASSUME NEW k \in 1..n PROVE Ordered[k] \in Backed /\ Place(Ordered[k]) = k - 1
  <2>1. k - 1 \in 0..(n - 1)
    BY <1>12
  <2>2. \E i \in Backed : Place(i) = k - 1
    BY <2>1, <1>10
  <2> QED BY <2>2, <1>8, <1>12
<1>13. \A k, l \in 1..n : Ordered[k] = Ordered[l] => k = l
  <2> SUFFICES ASSUME NEW k \in 1..n, NEW l \in 1..n, Ordered[k] = Ordered[l] PROVE k = l
    OBVIOUS
  <2>1. k - 1 = l - 1
    BY <1>12
  <2> QED BY <2>1
<1>14. \A i \in Required : \E k \in 1..m : Ordered[k] = i
  <2> SUFFICES ASSUME NEW i \in Required PROVE \E k \in 1..m : Ordered[k] = i
    OBVIOUS
  <2>1. PICK k \in 1..m : k - 1 = Place(i)
    <3>1. PICK p \in 0..(m - 1) : p = Place(i)
      BY <1>11
    <3>2. p + 1 \in 1..m /\ (p + 1) - 1 = p
      BY <1>5
    <3> QED BY <3>1, <3>2
  <2>2. k \in 1..n
    BY <1>5
  <2> QED BY <2>1, <2>2, <1>3, <1>10, <1>12
<1>15. /\ Backed # {} => n > 0
       /\ Required # {} => m > 0
  BY <1>2, <1>4, <1>5, FS_EmptySet
<1> QED BY <1>4, <1>5, <1>13, <1>14, <1>15

LEMMA FunctionIsSequence ==
  \A T : /\ \A n \in Nat : \A s \in [1..n -> T] : s \in Seq(T)
        /\ \A x \in T : <<x>> \in Seq(T)
OBVIOUS

LEMMA PlanCovers == ASSUME needs \in Requirements PROVE PromptsCover
<1> SUFFICES ASSUME ~Blocked
             PROVE  /\ Plan # <<>> /\ Len(Plan) <= Capacity
                    /\ \A i \in Required : \E k \in DOMAIN Plan : Plan[k] = <<0, i>>
                    /\ \A j, k \in DOMAIN Plan : Plan[j] = Plan[k] => j = k
  BY DEF PromptsCover
<1>0. PICK f : f = Ordered
  OBVIOUS
<1>1. PICK n \in Nat, m \in Nat :
        /\ n = Cardinality(Backed) /\ m = Cardinality(Required) /\ m <= n /\ n > 0
        /\ f = Ordered
        /\ Required # {} => m > 0
        /\ \A k, l \in 1..n : f[k] = f[l] => k = l
        /\ \A i \in Required : \E k \in 1..m : f[k] = i
  BY <1>0, OrderedPlaces DEF Blocked
<1>2. Backed # {} /\ m <= Capacity
  BY <1>1, CapacityAssumption DEF Blocked
<1>3. Required = {} <=> m = 0
  BY <1>1, FS_EmptySet
<1>4. Least(m, Capacity) = m
  BY <1>2, CapacityAssumption DEF Least
<1>5. PICK o \in Nat : o = Least(Categories, Capacity - m) /\ o <= Capacity - m
                       /\ ((m = 0 /\ o < Capacity) \/ m + o > 0)
  BY <1>2, CapacityAssumption DEF Least
<1>6. PICK keys : keys = KeyPrompts
  OBVIOUS
<1>7. PICK others : others = OtherPrompts
  OBVIOUS
<1>8. keys = [i \in 1..m |-> <<0, f[i]>>] /\ Len(keys) = m
  <2>1. keys = [i \in 1..m |-> <<0, f[i]>>]
    BY <1>1, <1>4, <1>6 DEF KeyPrompts
  <2> QED BY <2>1, <1>1
<1>9. /\ others = [c \in 1..o |-> <<c, f[((c - 1) % Len(f)) + 1]>>]
      /\ Len(others) = o /\ \A c \in 1..o : others[c][1] = c
  <2>1. others = [c \in 1..o |-> <<c, f[((c - 1) % Len(f)) + 1]>>]
    BY <1>1, <1>5, <1>6, <1>7, <1>8 DEF OtherPrompts
  <2> QED BY <2>1
<1>10. PICK T : keys \in Seq(T) /\ others \in Seq(T) /\ <<<<0, f[1]>>>> \in Seq(T)
  <2> DEFINE T == {keys[i] : i \in 1..m} \cup {others[c] : c \in 1..o} \cup {<<0, f[1]>>}
  <2>1. keys \in [1..m -> T] /\ others \in [1..o -> T] /\ <<0, f[1]>> \in T
    BY <1>8, <1>9
  <2> HIDE DEF T
  <2> QED BY <2>1, <1>1, <1>5, FunctionIsSequence
<1>11. PICK plan : plan = keys \o others
  OBVIOUS
<1>12. /\ plan \in Seq(T) /\ Len(plan) = m + o /\ DOMAIN plan = 1..(m + o)
       /\ \A k \in 1..m : plan[k] = <<0, f[k]>> /\ plan[k][1] = 0 /\ k \in 1..(m + o)
       /\ \A k \in (m + 1)..(m + o) : plan[k][1] = k - m
  <2>1. /\ plan \in Seq(T) /\ Len(plan) = m + o
        /\ \A k \in 1..(m + o) : plan[k] = IF k <= m THEN keys[k] ELSE others[k - m]
    BY <1>8, <1>9, <1>10, <1>11, ConcatProperties
  <2>2. DOMAIN plan = 1..(m + o)
    BY <2>1, LenProperties
  <2>3. \A k \in 1..m : plan[k] = keys[k] /\ k \in 1..(m + o)
    BY <2>1, <1>1, <1>5
  <2>4. \A k \in (m + 1)..(m + o) : plan[k] = others[k - m] /\ k - m \in 1..o
    BY <2>1, <1>1, <1>5
  <2>5. \A k \in 1..m : plan[k] = <<0, f[k]>>
    BY <2>3, <1>8
  <2>6. \A k \in 1..m : plan[k][1] = 0
    BY <2>5
  <2>7. \A k \in (m + 1)..(m + o) : plan[k][1] = k - m
    BY <2>4, <1>9
  <2> QED BY <2>1, <2>2, <2>3, <2>5, <2>6, <2>7
<1>13. Plan = IF m = 0 /\ m + o < Capacity THEN <<<<0, f[1]>>>> \o plan ELSE plan
  BY <1>1, <1>2, <1>3, <1>6, <1>7, <1>11, <1>12 DEF Plan
<1>14. ASSUME NEW j \in 1..(m + o), NEW k \in 1..(m + o), plan[j] = plan[k]
       PROVE  j = k
  <2>1. CASE j <= m /\ k <= m
    <3>1. <<0, f[j]>> = <<0, f[k]>> /\ j \in 1..n /\ k \in 1..n
      BY <2>1, <1>1, <1>12, <1>14
    <3> QED BY <3>1, <1>1
  <2>2. CASE j <= m /\ k > m
    <3>1. j \in 1..m /\ k \in (m + 1)..(m + o)
      BY <2>2, <1>1, <1>5
    <3>2. plan[j][1] = 0 /\ plan[k][1] = k - m
      BY <3>1, <1>12
    <3> QED BY <2>2, <3>2, <1>14
  <2>3. CASE j > m /\ k <= m
    <3>1. plan[k][1] = 0 /\ plan[j][1] = j - m
      BY <2>3, <1>12
    <3> QED BY <2>3, <3>1, <1>14
  <2>4. CASE j > m /\ k > m
    <3>1. plan[j][1] = j - m /\ plan[k][1] = k - m
      BY <2>4, <1>12
    <3> QED BY <3>1, <1>14
  <2> QED BY <2>1, <2>2, <2>3, <2>4
<1>15. CASE ~(m = 0 /\ m + o < Capacity)
  <2>1. Plan = plan
    BY <1>13, <1>15
  <2>2. m + o > 0 /\ m + o <= Capacity
    BY <1>2, <1>5, <1>15, CapacityAssumption
  <2>3. plan # <<>>
    BY <2>2, <1>12
  <2>4. ASSUME NEW i \in Required PROVE \E k \in DOMAIN plan : plan[k] = <<0, i>>
    <3>1. PICK k \in 1..m : f[k] = i
      BY <1>1
    <3>2. plan[k] = <<0, i>> /\ k \in DOMAIN plan
      BY <3>1, <1>12
    <3> QED BY <3>2
  <2> QED BY <2>1, <2>2, <2>3, <2>4, <1>12, <1>14
<1>16. CASE m = 0 /\ m + o < Capacity
  <2>1. PICK first : first = <<<<0, f[1]>>>>
    OBVIOUS
  <2>2. Plan = first \o plan
    BY <2>1, <1>13, <1>16
  <2>3. first \in Seq(T) /\ Len(first) = 1 /\ first[1] = <<0, f[1]>> /\ Len(plan) = o
    BY <2>1, <1>10, <1>12, <1>16
  <2>4. /\ Plan \in Seq(T) /\ Len(Plan) = 1 + o
        /\ \A k \in 1..(1 + o) : Plan[k] = IF k <= 1 THEN first[k] ELSE plan[k - 1]
    <3>1. plan \in Seq(T)
      BY <1>12
    <3>2. PICK whole : whole = first \o plan
      OBVIOUS
    <3>3. /\ whole \in Seq(T) /\ Len(whole) = Len(first) + Len(plan)
          /\ \A k \in 1..(Len(first) + Len(plan)) :
               whole[k] = IF k <= Len(first) THEN first[k] ELSE plan[k - Len(first)]
      BY <2>3, <3>1, <3>2, ConcatProperties
    <3> QED BY <2>2, <2>3, <3>2, <3>3
  <2>5. DOMAIN Plan = 1..(1 + o)
    BY <2>4, LenProperties
  <2>6. ASSUME NEW k \in 1..(1 + o) PROVE Plan[k][1] = k - 1
    <3>1. CASE k = 1
      BY <3>1, <2>3, <2>4
    <3>2. CASE k # 1
      <4>1. k - 1 \in (m + 1)..(m + o) /\ ~(k <= 1) /\ (k - 1) - m = k - 1
        BY <3>2, <1>16
      <4> QED BY <4>1, <2>4, <1>12
    <3> QED BY <3>1, <3>2
  <2>7. ASSUME NEW j \in 1..(1 + o), NEW k \in 1..(1 + o), Plan[j] = Plan[k] PROVE j = k
    <3>1. j - 1 = k - 1
      BY <2>6, <2>7
    <3> QED BY <3>1
  <2>8. Required = {}
    BY <1>3, <1>16
  <2>9. Plan # <<>> /\ Len(Plan) <= Capacity
    BY <2>4, <1>16, CapacityAssumption
  <2> QED BY <2>5, <2>7, <2>8, <2>9
<1> QED BY <1>15, <1>16

NeedsGiven == needs \in Requirements

LEMMA NeedsStay == NeedsGiven /\ [Next]_vars => NeedsGiven'
BY DEF NeedsGiven, Next, vars, Save, Store, MoveRound, Close, ChangeEvidence

\* opportunity_repository.py and the pages of applications: what the lists of open work are
\* read from, whatever is committed in between, and what a page of prompts asks about.
THEOREM ListsServed == Spec /\ ListsSpec => []ListsHold
<1>1. Init => NeedsGiven
  BY DEF Init, NeedsGiven
<1>2. NeedsGiven => PromptsCover
  BY PlanCovers DEF NeedsGiven
<1>3. Spec => []PromptsCover
  BY <1>1, <1>2, NeedsStay, PTL DEF Spec
<1>4. ListsInv => QuietReadsAreServed /\ PagesCoverTheQuiet
  BY ListsShown
<1>5. ListsHold <=> (QuietReadsAreServed /\ PagesCoverTheQuiet) /\ PromptsCover
  BY DEF ListsHold
<1> QED BY <1>3, <1>4, <1>5, ListsAlways, PTL

(***************************************************************************)
(* The pages: what has to be true of a request whose answer is missing.    *)
(***************************************************************************)
\* What an entry of the record can be.
Lines(p) == {a \in Asks : a.page = p} \cup {[page |-> p, what |-> "first", on |-> 0, due |-> 0]}

\* The same when the date may have been corrected.
Dated(p) == [page : {p}, what : {a.what : a \in Lines(p)}, on : {a.on : a \in Lines(p)},
             due : {a.due : a \in Lines(p)}]

\* What is saved or was read; the version counts the entries, where none is corrected in place.
Saved(p, s) ==
  /\ s = [version |-> s.version, entries |-> s.entries] /\ s.version \in Nat \ {0}
  /\ p = "progress" => s.entries \in Seq(Dated(p))
  /\ p # "progress" => s.entries \in Seq(Lines(p)) /\ Len(s.entries) = s.version

\* s was read before t was: of the entries at most the dates have changed.
ReadBefore(p, s, t) ==
  /\ s.version <= t.version
  /\ p = "progress" => /\ Len(s.entries) <= Len(t.entries)
                       /\ \A i \in 1..Len(s.entries) : s.entries[i].what = t.entries[i].what
  /\ p # "progress" => \A i \in 1..s.version : s.entries[i] = t.entries[i]

Snapshot(p, s, t) == Saved(p, s) /\ ReadBefore(p, s, t)

Once == {"submit", "start", "review", "approve", "sent", "pause"}

\* A request of a page that shows version v of a record that is now s: what is asked only once
\* was not among what the page knew, a milestone not under any date, and what was to be
\* reviewed was overdue.
Meant(p, n, v, s, r) ==
  /\ r = [key |-> r.key, tries |-> r.tries, asked |-> r.asked, expected |-> r.expected,
           known |-> r.known]
  /\ r.key \in 1..n /\ r.tries \in Nat \ {0} /\ r.asked \in {a \in Asks : a.page = p}
  /\ r.expected \in Nat /\ r.expected <= v
  /\ p # "progress" => r.known = r.expected
  /\ p # "progress" /\ r.asked.what \in Once => \A i \in 1..r.known : s.entries[i] # r.asked
  /\ p = "progress" => /\ r.known \in Nat /\ r.known <= Len(s.entries)
                       /\ \A i \in 1..r.known : s.entries[i].what # r.asked.what
  /\ p = "review" => r.known # 0 /\ s.entries[r.known].due = 0

Attempts(p, n) ==
  [key : 1..n, tries : Nat \ {0}, asked : {a \in Asks : a.page = p}, expected : Nat]

\* An attempt is one of those made for a request, as far as that is known.
Serves(t, r) == r # None /\ t.key = r.key => t.expected = r.expected /\ t.tries <= r.tries

Replies == {"saved", "lost", "pending", "conflict", "refused", "unknown"}

Fates == [told : {"open", "saved", "confirmed", "elsewhere", "rejected"}, tries : Nat,
          reply : Replies \cup {None}]

\* What still makes no difference after the owner was told so: an attempt that is made from a
\* version that is no longer current, or one that went out before the one that was turned down.
Behind(t, word, at) ==
  /\ word.told = "elsewhere" => t.expected < at
  /\ word.told = "rejected" =>
       t.tries < word.tries /\ (word.reply = "conflict" => t.expected < at)

RecordsTrue ==
  /\ page \in Pages
  /\ Saved(page, record) /\ Snapshot(page, view, record)
  /\ glance # None => Snapshot(page, glance, record)

BackTrue ==
  reply = "saved" \/ back \notin {None, Unread} =>
    /\ Snapshot(page, back, record)
    /\ view.version <= back.version
    /\ glance # None => glance.version <= back.version

RequestsTrue ==
  /\ made \in Nat /\ made <= MaxRequests
  /\ pending # None => Meant(page, made, view.version, record, pending)
  /\ doing # None => Meant(page, made, view.version, record, doing) /\ pending \in {None, doing}

WireTrue ==
  /\ wire \subseteq Attempts(page, made)
  /\ \A t, u \in wire : t.key = u.key /\ t.tries = u.tries => t = u
  /\ \A t \in wire : Serves(t, pending) /\ Serves(t, doing)

FateTrue ==
  /\ fate \in [1..MaxRequests -> Fates]
  /\ \A k \in 1..MaxRequests : k > made => fate[k] = Untold
  /\ pending # None => fate[pending.key] = Untold
  /\ \A t \in wire : Behind(t, fate[t.key], record.version)

ReplyTrue ==
  /\ reply \in Replies \cup {None}
  /\ doing = None => reply = None /\ back = None
  /\ reply = None => back = None
  /\ reply = "conflict" => doing.expected < record.version
  /\ reply \in {"conflict", "refused"} => \A t \in wire : t.key # doing.key \/ t.tries # doing.tries

UpdatesInv == RecordsTrue /\ BackTrue /\ RequestsTrue /\ WireTrue /\ FateTrue /\ ReplyTrue

LEMMA UpdatesStart == UpdatesInit => UpdatesInv
<1> SUFFICES ASSUME UpdatesInit PROVE UpdatesInv
  OBVIOUS
<1>1. Saved(page, record) /\ Snapshot(page, view, record)
  <2>1. record = [version |-> 1, entries |-> <<First>>] /\ view = record /\ First \in Lines(page)
    BY DEF UpdatesInit, Lines, First
  <2>2. First \in Dated(page)
    BY DEF Dated, Lines, First
  <2>3. <<First>> \in Seq(Lines(page)) /\ <<First>> \in Seq(Dated(page)) /\ Len(<<First>>) = 1
    BY <2>1, <2>2, FunctionIsSequence
  <2> QED BY <2>1, <2>3 DEF Saved, Snapshot, ReadBefore
<1>2. RecordsTrue
  BY <1>1 DEF RecordsTrue, UpdatesInit
<1>3. BackTrue
  BY NothingAssumption DEF BackTrue, UpdatesInit
<1>4. RequestsTrue
  BY RequestsAssumption DEF RequestsTrue, UpdatesInit
<1>5. WireTrue
  BY DEF WireTrue, UpdatesInit
<1>6. FateTrue
  BY DEF FateTrue, UpdatesInit, Fates, Untold
<1>7. ReplyTrue
  BY NothingAssumption DEF ReplyTrue, UpdatesInit
<1> QED BY <1>2, <1>3, <1>4, <1>5, <1>6, <1>7 DEF UpdatesInv

LEMMA ReadBeforeBoth ==
  ASSUME NEW p, NEW s, NEW t, NEW u, Saved(p, s), Saved(p, t), Saved(p, u),
         ReadBefore(p, s, t), ReadBefore(p, t, u)
  PROVE  ReadBefore(p, s, u)
<1>1. s.version \in Nat /\ t.version \in Nat /\ u.version \in Nat
      /\ s.version <= t.version /\ t.version <= u.version
  BY DEF Saved, ReadBefore
<1>2. ASSUME p # "progress", NEW i \in 1..s.version PROVE s.entries[i] = u.entries[i]
  <2>1. i \in 1..t.version
    BY <1>1
  <2> QED BY <2>1, <1>2 DEF ReadBefore
<1>3. ASSUME p = "progress"
      PROVE  /\ Len(s.entries) <= Len(u.entries)
             /\ \A i \in 1..Len(s.entries) : s.entries[i].what = u.entries[i].what
  <2>1. Len(s.entries) \in Nat /\ Len(t.entries) \in Nat /\ Len(u.entries) \in Nat
    BY <1>3, LenProperties DEF Saved
  <2>2. Len(s.entries) <= Len(t.entries) /\ Len(t.entries) <= Len(u.entries)
    BY <1>3 DEF ReadBefore
  <2>3. ASSUME NEW i \in 1..Len(s.entries) PROVE s.entries[i].what = u.entries[i].what
    <3>1. i \in 1..Len(t.entries)
      BY <2>1, <2>2
    <3> QED BY <3>1, <1>3 DEF ReadBefore
  <2> QED BY <2>1, <2>2, <2>3
<1> QED BY <1>1, <1>2, <1>3 DEF ReadBefore

LEMMA MeantLater ==
  ASSUME NEW p, NEW s, NEW t, Saved(p, s), Saved(p, t), ReadBefore(p, s, t),
         NEW n \in Nat, NEW m \in Nat, n <= m,
         NEW v \in Nat, NEW w \in Nat, v <= w, v <= s.version,
         NEW r, Meant(p, n, v, s, r)
  PROVE  Meant(p, m, w, t, r)
<1>1. r.key \in 1..m /\ r.expected <= w /\ r.expected \in Nat /\ s.version \in Nat
  BY DEF Meant, Saved
<1>2. ASSUME p # "progress", r.asked.what \in Once, NEW i \in 1..r.known
      PROVE  t.entries[i] # r.asked
  <2>1. r.known = r.expected /\ r.expected <= v /\ s.entries[i] # r.asked
    BY <1>2 DEF Meant
  <2>2. i \in 1..s.version
    BY <2>1, <1>1
  <2> QED BY <2>1, <2>2, <1>2 DEF ReadBefore
<1>3. ASSUME p = "progress"
      PROVE  /\ r.known \in Nat /\ r.known <= Len(t.entries)
             /\ \A i \in 1..r.known : t.entries[i].what # r.asked.what
  <2>1. Len(s.entries) \in Nat /\ Len(t.entries) \in Nat
    BY <1>3, LenProperties DEF Saved
  <2>2. r.known \in Nat /\ r.known <= Len(s.entries) /\ Len(s.entries) <= Len(t.entries)
    BY <1>3 DEF Meant, ReadBefore
  <2>3. ASSUME NEW i \in 1..r.known PROVE t.entries[i].what # r.asked.what
    <3>1. i \in 1..Len(s.entries)
      BY <2>1, <2>2
    <3>2. s.entries[i].what # r.asked.what
      BY <2>3, <1>3 DEF Meant
    <3>3. s.entries[i].what = t.entries[i].what
      BY <3>1, <1>3 DEF ReadBefore
    <3> QED BY <3>2, <3>3
  <2> QED BY <2>1, <2>2, <2>3
<1>4. ASSUME p = "review" PROVE r.known # 0 /\ t.entries[r.known].due = 0
  <2>1. r.known = r.expected /\ r.known # 0 /\ s.entries[r.known].due = 0 /\ r.expected <= v
    BY <1>4 DEF Meant
  <2>2. r.known \in 1..s.version
    BY <2>1, <1>1
  <2> QED BY <2>1, <2>2, <1>4 DEF ReadBefore
<1> QED BY <1>1, <1>2, <1>3, <1>4 DEF Meant

LEMMA LinesAreDated == ASSUME NEW p, NEW a \in Lines(p) PROVE a \in Dated(p)
<1>1. a = [page |-> p, what |-> a.what, on |-> a.on, due |-> a.due]
  <2>1. CASE a \in Asks /\ a.page = p
    <3>1. a = [page |-> a.page, what |-> a.what, on |-> a.on, due |-> a.due]
      BY <2>1, AsksAssumption
    <3> QED BY <3>1, <2>1
  <2>2. CASE a = [page |-> p, what |-> "first", on |-> 0, due |-> 0]
    BY <2>2
  <2> QED BY <2>1, <2>2 DEF Lines
<1> QED BY <1>1 DEF Dated

\* The record gets one more entry.
LEMMA Appended ==
  ASSUME NEW p, NEW s, Saved(p, s), NEW a \in Lines(p), NEW t,
         t = [version |-> s.version + 1, entries |-> Append(s.entries, a)]
  PROVE  Saved(p, t) /\ ReadBefore(p, s, t)
<1>1. s.version \in Nat /\ t.version = s.version + 1 /\ t.entries = Append(s.entries, a)
  BY DEF Saved
<1>2. ASSUME p # "progress"
      PROVE  /\ t.entries \in Seq(Lines(p)) /\ Len(t.entries) = t.version
             /\ \A i \in 1..s.version : s.entries[i] = t.entries[i]
  <2>1. s.entries \in Seq(Lines(p)) /\ Len(s.entries) = s.version
    BY <1>2 DEF Saved
  <2> QED BY <1>1, <2>1, AppendProperties
<1>3. ASSUME p = "progress"
      PROVE  /\ t.entries \in Seq(Dated(p)) /\ Len(s.entries) <= Len(t.entries)
             /\ \A i \in 1..Len(s.entries) : s.entries[i].what = t.entries[i].what
  <2>1. s.entries \in Seq(Dated(p)) /\ Len(s.entries) \in Nat /\ a \in Dated(p)
    BY <1>3, LenProperties, LinesAreDated DEF Saved
  <2> QED BY <1>1, <2>1, AppendProperties
<1>4. t = [version |-> t.version, entries |-> t.entries]
  BY <1>1
<1> QED BY <1>1, <1>2, <1>3, <1>4 DEF Saved, ReadBefore

\* The date of the last entry is corrected.
LEMMA Redated ==
  ASSUME NEW p, p = "progress", NEW s, Saved(p, s), NEW a \in Lines(p), NEW t,
         t = [s EXCEPT !.version = @ + 1, !.entries[Len(s.entries)].on = a.on]
  PROVE  Len(s.entries) > 1 => Saved(p, t) /\ ReadBefore(p, s, t)
<1> SUFFICES ASSUME Len(s.entries) > 1 PROVE Saved(p, t) /\ ReadBefore(p, s, t)
  OBVIOUS
<1>1. /\ s.version \in Nat /\ s.entries \in Seq(Dated(p)) /\ Len(s.entries) \in 1..Len(s.entries)
      /\ s.entries \in [1..Len(s.entries) -> Dated(p)] /\ Len(s.entries) \in Nat
  BY LenProperties DEF Saved
<1>2. PICK e \in Dated(p) : e = s.entries[Len(s.entries)]
  BY <1>1
<1>3. PICK f : f = [e EXCEPT !.on = a.on]
  OBVIOUS
<1>4. f \in Dated(p) /\ f.what = e.what
  BY <1>3 DEF Dated
<1>5. /\ t = [version |-> t.version, entries |-> t.entries] /\ t.version = s.version + 1
      /\ t.entries = [s.entries EXCEPT ![Len(s.entries)] = [@ EXCEPT !.on = a.on]]
  BY DEF Saved
<1>6. t.entries = [s.entries EXCEPT ![Len(s.entries)] = f]
  BY <1>1, <1>2, <1>3, <1>5
<1>7. /\ t.entries \in [1..Len(s.entries) -> Dated(p)]
      /\ \A i \in 1..Len(s.entries) : s.entries[i].what = t.entries[i].what
  BY <1>1, <1>2, <1>4, <1>6
<1>8. t.entries \in Seq(Dated(p)) /\ Len(t.entries) = Len(s.entries)
  BY <1>1, <1>7, FunctionIsSequence
<1> QED BY <1>1, <1>5, <1>7, <1>8 DEF Saved, ReadBefore

(***************************************************************************)
(* The record changes.                                                     *)
(***************************************************************************)
LEMMA RecordMoves ==
  ASSUME UpdatesInv, page' = page, Saved(page, record'), ReadBefore(page, record, record'),
         UNCHANGED <<view, pending, doing, glance, made, fate>>, wire' \subseteq wire
  PROVE  RecordsTrue' /\ RequestsTrue' /\ WireTrue' /\ FateTrue'
<1>1. /\ Saved(page, record) /\ Snapshot(page, view, record)
      /\ (glance # None => Snapshot(page, glance, record)) /\ page \in Pages
  BY DEF UpdatesInv, RecordsTrue
<1>2. Snapshot(page, view, record') /\ (glance # None => Snapshot(page, glance, record'))
  BY <1>1, ReadBeforeBoth DEF Snapshot
<1>3. /\ view.version \in Nat /\ view.version <= record.version /\ record.version \in Nat
      /\ record'.version \in Nat /\ record.version <= record'.version
  BY <1>1 DEF Snapshot, Saved, ReadBefore
<1>4. RecordsTrue'
  BY <1>1, <1>2 DEF RecordsTrue
<1>5. made \in Nat /\ made <= MaxRequests
  BY DEF UpdatesInv, RequestsTrue
<1>6. ASSUME NEW r, Meant(page, made, view.version, record, r)
      PROVE  Meant(page, made, view.version, record', r)
  BY <1>1, <1>3, <1>5, <1>6, MeantLater
<1>7. RequestsTrue'
  BY <1>5, <1>6 DEF UpdatesInv, RequestsTrue
<1>8. WireTrue'
  BY DEF UpdatesInv, WireTrue
<1>9. FateTrue'
  <2>1. \A t \in wire : t.expected \in Nat
    BY DEF UpdatesInv, WireTrue, Attempts
  <2>2. \A t \in wire : Behind(t, fate[t.key], record'.version)
    BY <2>1, <1>3 DEF UpdatesInv, FateTrue, Behind
  <2> QED BY <2>2 DEF UpdatesInv, FateTrue
<1> QED BY <1>4, <1>7, <1>8, <1>9

LEMMA BackStays ==
  ASSUME UpdatesInv, page' = page, Saved(page, record'), ReadBefore(page, record, record'),
         UNCHANGED <<view, glance, reply, back>>
  PROVE  BackTrue'
<1> SUFFICES ASSUME reply = "saved" \/ back \notin {None, Unread}
             PROVE  /\ Snapshot(page, back, record') /\ view.version <= back.version
                    /\ glance # None => glance.version <= back.version
  BY DEF BackTrue
<1>1. /\ Snapshot(page, back, record) /\ view.version <= back.version
      /\ glance # None => glance.version <= back.version
  BY DEF UpdatesInv, BackTrue
<1>2. Saved(page, record) /\ Saved(page, back) /\ ReadBefore(page, back, record)
  BY <1>1 DEF UpdatesInv, RecordsTrue, Snapshot
<1>3. ReadBefore(page, back, record')
  BY <1>2, ReadBeforeBoth
<1> QED BY <1>1, <1>2, <1>3 DEF Snapshot

LEMMA ElsewhereKeeps == UpdatesInv /\ Elsewhere => UpdatesInv'
<1> SUFFICES ASSUME UpdatesInv, Elsewhere PROVE UpdatesInv'
  OBVIOUS
<1>1. page' = page /\ UNCHANGED <<view, pending, doing, glance, made, fate>> /\ wire' = wire
      /\ UNCHANGED <<reply, back>>
  BY DEF Elsewhere
<1>2. Saved(page, record)
  BY DEF UpdatesInv, RecordsTrue
<1>3. Saved(page, record') /\ ReadBefore(page, record, record')
  <2>1. CASE \E a \in Given \cup {First} : record' = With(a)
    <3>1. PICK a \in Lines(page) : record' = With(a)
      BY <2>1 DEF Given, First, Lines
    <3> QED BY <3>1, <1>2, Appended DEF With
  <2>2. CASE page = "progress" /\ Len(record.entries) > 1 /\ \E a \in Given : record' = Corrected(a)
    <3>1. PICK a \in Lines(page) : record' = Corrected(a)
      BY <2>2 DEF Given, Lines
    <3>2. record' = [record EXCEPT !.version = @ + 1, !.entries[Len(record.entries)].on = a.on]
      BY <3>1 DEF Corrected
    <3>3. Len(record.entries) > 1 => Saved(page, record') /\ ReadBefore(page, record, record')
      BY <2>2, <3>2, <1>2, Redated, Zenon
    <3> QED BY <2>2, <3>3
  <2> QED BY <2>1, <2>2 DEF Elsewhere
<1>4. RecordsTrue' /\ RequestsTrue' /\ WireTrue' /\ FateTrue'
  BY <1>1, <1>3, RecordMoves
<1>5. BackTrue'
  BY <1>1, <1>3, BackStays
<1>6. ReplyTrue'
  <2>1. reply = "conflict" => doing.expected < record'.version
    <3> SUFFICES ASSUME reply = "conflict" PROVE doing.expected < record'.version
      OBVIOUS
    <3>1. doing.expected < record.version /\ doing # None
      BY NothingAssumption DEF UpdatesInv, ReplyTrue
    <3>2. doing.expected \in Nat /\ record.version \in Nat /\ record'.version \in Nat
          /\ record.version <= record'.version
      BY <3>1, <1>2, <1>3 DEF UpdatesInv, RequestsTrue, Meant, Saved, ReadBefore
    <3> QED BY <3>1, <3>2
  <2> QED BY <1>1, <2>1 DEF UpdatesInv, ReplyTrue
<1> QED BY <1>4, <1>5, <1>6 DEF UpdatesInv

(***************************************************************************)
(* The server deals with an attempt.                                       *)
(***************************************************************************)
LEMMA AnswerKeeps ==
  ASSUME UpdatesInv, NEW t \in wire, wire' = wire \ {t}, page' = page,
         Saved(page, record'), ReadBefore(page, record, record'),
         UNCHANGED <<view, pending, doing, glance, made, fate>>,
         NEW answer \in {"saved", "pending", "conflict", "refused"}, Answered(t, answer),
         answer = "conflict" => ~Timely(t)
  PROVE  BackTrue' /\ ReplyTrue'
<1>1. /\ Saved(page, record) /\ Saved(page, view) /\ ReadBefore(page, view, record)
      /\ glance # None => Saved(page, glance) /\ ReadBefore(page, glance, record)
  BY DEF UpdatesInv, RecordsTrue, Snapshot
<1>2. /\ record.version \in Nat /\ record'.version \in Nat /\ record.version <= record'.version
      /\ view.version \in Nat /\ view.version <= record'.version
      /\ glance # None => glance.version <= record'.version
  BY <1>1 DEF Saved, ReadBefore
<1>3. doing # None => /\ doing.expected \in Nat /\ doing.expected <= view.version
                      /\ view.version <= record.version
                      /\ (t.key = doing.key => t.expected = doing.expected)
  BY <1>1 DEF UpdatesInv, RequestsTrue, Meant, WireTrue, Serves, ReadBefore
<1>4. \A u \in wire : u.key = t.key /\ u.tries = t.tries => u = t
  BY DEF UpdatesInv, WireTrue
<1>5. CASE Awaited(t)
  <2>1. reply' = answer /\ back' = (IF answer = "saved" THEN record' ELSE None)
    BY <1>5 DEF Answered
  <2>2. doing # None /\ doing.key = t.key /\ doing.tries = t.tries
    BY <1>5 DEF Awaited
  <2>3. BackTrue'
    <3>1. Snapshot(page, record', record')
      BY <1>2 DEF Snapshot, ReadBefore
    <3>2. reply' = "saved" \/ back' \notin {None, Unread} => back' = record'
      BY <2>1
    <3> QED BY <3>1, <3>2, <1>2 DEF BackTrue
  <2>4. answer = "conflict" => doing.expected < record'.version
    BY <1>2, <1>3, <2>2 DEF Timely
  <2>5. \A u \in wire' : u.key # doing.key \/ u.tries # doing.tries
    BY <1>4, <2>2
  <2>6. reply' \in Replies /\ reply' # None
    BY <2>1, NothingAssumption DEF Replies
  <2> QED BY <2>1, <2>2, <2>3, <2>4, <2>5, <2>6 DEF ReplyTrue
<1>6. CASE ~Awaited(t)
  <2>1. UNCHANGED <<reply, back>>
    BY <1>6 DEF Answered
  <2>2. BackTrue'
    BY <2>1, BackStays
  <2>3. reply = "conflict" => doing.expected < record'.version
    <3> SUFFICES ASSUME reply = "conflict" PROVE doing.expected < record'.version
      OBVIOUS
    <3>1. doing.expected < record.version /\ doing # None
      BY NothingAssumption DEF UpdatesInv, ReplyTrue
    <3> QED BY <3>1, <1>2, <1>3
  <2> QED BY <2>1, <2>2, <2>3 DEF UpdatesInv, ReplyTrue
<1> QED BY <1>5, <1>6

LEMMA ServeKeeps == ASSUME UpdatesInv, NEW t \in wire, Serve(t) PROVE UpdatesInv'
<1>1. /\ wire' = wire \ {t} /\ UNCHANGED <<page, view, pending, doing, glance, made, fate>>
      /\ Carried(t) \/ Replayed(t) \/ Conflict(t) \/ Claimed(t) \/ TurnedDown(t)
  BY DEF Serve
<1>2. Saved(page, record) /\ ReadBefore(page, record, record)
  BY DEF UpdatesInv, RecordsTrue, ReadBefore, Saved
<1>3. Saved(page, record') /\ ReadBefore(page, record, record')
  <2>1. CASE Carried(t)
    <3>1. record' = With(t.asked) /\ t.asked \in Lines(page)
      BY <2>1 DEF Carried, UpdatesInv, WireTrue, Attempts, Lines
    <3> QED BY <3>1, <1>2, Appended DEF With
  <2>2. CASE ~Carried(t)
    <3>1. record' = record
      BY <2>2, <1>1 DEF Replayed, Conflict, Claimed, TurnedDown
    <3> QED BY <3>1, <1>2
  <2> QED BY <2>1, <2>2
<1>4. RecordsTrue' /\ RequestsTrue' /\ WireTrue' /\ FateTrue'
  BY <1>1, <1>3, RecordMoves
<1>5. \E answer \in {"saved", "pending", "conflict", "refused"} :
        Answered(t, answer) /\ (answer = "conflict" => ~Timely(t))
  BY <1>1 DEF Carried, Replayed, Conflict, Claimed, TurnedDown
<1>6. BackTrue' /\ ReplyTrue'
  BY <1>1, <1>3, <1>5, AnswerKeeps
<1> QED BY <1>4, <1>6 DEF UpdatesInv

LEMMA LoseKeeps == UpdatesInv /\ Lose => UpdatesInv'
<1> SUFFICES ASSUME UpdatesInv, Lose PROVE UpdatesInv'
  OBVIOUS
<1>1. /\ UNCHANGED <<page, record, wire, view, pending, doing, back, glance, made, fate>>
      /\ doing # None /\ reply = None /\ reply' = "lost"
  BY DEF Lose
<1>2. RecordsTrue' /\ RequestsTrue' /\ WireTrue' /\ FateTrue'
  BY <1>1 DEF UpdatesInv, RecordsTrue, RequestsTrue, WireTrue, FateTrue
<1>3. BackTrue' /\ ReplyTrue'
  BY <1>1, NothingAssumption DEF UpdatesInv, BackTrue, ReplyTrue, Replies
<1> QED BY <1>2, <1>3 DEF UpdatesInv

(***************************************************************************)
(* The page asks.                                                          *)
(***************************************************************************)
LEMMA SendKeeps ==
  ASSUME UpdatesInv, doing = None, NEW r, Send(r), glance' = glance, made' \in {made, made + 1},
         Meant(page, made', view.version, record, r), made' <= MaxRequests,
         \A t \in wire : t.key = r.key => t.tries < r.tries /\ t.expected = r.expected,
         fate[r.key] = Untold
  PROVE  UpdatesInv'
<1>1. /\ pending' = r /\ doing' = r /\ wire' = wire \cup {Attempt(r)}
      /\ UNCHANGED <<page, record, view, reply, back, glance, fate>>
  BY DEF Send
<1>2. made \in Nat /\ made' \in Nat /\ made <= made'
  BY DEF UpdatesInv, RequestsTrue
<1>3. reply = None /\ back = None
  BY DEF UpdatesInv, ReplyTrue
<1>4. RecordsTrue'
  BY <1>1 DEF UpdatesInv, RecordsTrue
<1>5. BackTrue' /\ ReplyTrue'
  BY <1>1, <1>3, NothingAssumption DEF BackTrue, ReplyTrue
<1>6. RequestsTrue'
  BY <1>1, <1>2 DEF RequestsTrue
<1>7. PICK u : u = Attempt(r)
  OBVIOUS
<1>8. /\ u \in Attempts(page, made') /\ u.key = r.key /\ u.tries = r.tries
      /\ u.expected = r.expected /\ r.tries \in Nat
  BY <1>7 DEF Attempt, Attempts, Meant
<1>9. WireTrue'
  <2>1. \A t \in wire : t \in Attempts(page, made) /\ t \in Attempts(page, made') /\ t.tries \in Nat
    BY <1>2 DEF UpdatesInv, WireTrue, Attempts
  <2>2. \A t \in wire : ~(t.key = u.key /\ t.tries = u.tries)
    BY <1>8, <2>1
  <2>3. \A t, v \in wire' : t.key = v.key /\ t.tries = v.tries => t = v
    BY <1>1, <1>7, <2>2 DEF UpdatesInv, WireTrue
  <2>4. ASSUME NEW t \in wire' PROVE Serves(t, r)
    <3>1. CASE t \in wire
      BY <3>1, <2>1, <1>8 DEF Serves
    <3>2. CASE t = u
      BY <3>2, <1>8 DEF Serves
    <3> QED BY <3>1, <3>2, <1>1, <1>7
  <2>5. wire' \subseteq Attempts(page', made')
    BY <1>1, <1>7, <1>8, <2>1
  <2>6. \A t \in wire' : Serves(t, pending') /\ Serves(t, doing')
    BY <1>1, <2>4
  <2> QED BY <2>3, <2>5, <2>6 DEF WireTrue
<1>10. FateTrue'
  <2>1. \A k \in 1..MaxRequests : k > made' => fate'[k] = Untold
    BY <1>1, <1>2, RequestsAssumption DEF UpdatesInv, FateTrue
  <2>2. \A t \in wire' : Behind(t, fate'[t.key], record'.version)
    BY <1>1, <1>7, <1>8 DEF UpdatesInv, FateTrue, Behind, Untold
  <2> QED BY <1>1, <2>1, <2>2 DEF UpdatesInv, FateTrue
<1> QED BY <1>4, <1>5, <1>6, <1>9, <1>10 DEF UpdatesInv

LEMMA AskKeeps == ASSUME UpdatesInv, NEW a \in Given, Ask(a) PROVE UpdatesInv'
<1>1. PICK r : r = [key |-> made + 1, tries |-> 1, asked |-> a, expected |-> view.version,
                    known |-> Len(view.entries)]
  OBVIOUS
<1>2. Send(r) /\ glance' = glance /\ doing = None /\ made' = made + 1 /\ made < MaxRequests /\ Offered(a)
  BY <1>1 DEF Ask, Send
<1>3. made \in Nat /\ made' \in Nat /\ made' <= MaxRequests /\ made + 1 \in 1..MaxRequests
  BY <1>2, RequestsAssumption DEF UpdatesInv, RequestsTrue
<1>4. Saved(page, view) /\ ReadBefore(page, view, record)
  BY DEF UpdatesInv, RecordsTrue, Snapshot
<1>5. Meant(page, made', view.version, record, r)
  <2>1. /\ r = [key |-> r.key, tries |-> r.tries, asked |-> r.asked, expected |-> r.expected,
                known |-> r.known]
        /\ r.key \in 1..made' /\ r.tries \in Nat \ {0} /\ r.expected = view.version
        /\ r.asked = a /\ r.known = Len(view.entries)
    BY <1>1, <1>2, <1>3
  <2>2. a \in {b \in Asks : b.page = page} /\ view.version \in Nat
    BY <1>4 DEF Given, Saved
  <2>3. ASSUME page # "progress", a.what \in Once, NEW i \in 1..r.known
        PROVE  record.entries[i] # a
    <3>1. Len(view.entries) = view.version /\ DOMAIN view.entries = 1..view.version
      BY <2>3, <1>4, LenProperties DEF Saved
    <3>2. view.entries[i] # a
      BY <3>1, <2>1, <2>3, <1>2 DEF Offered, Entries, Once
    <3> QED BY <3>1, <3>2, <2>1, <2>3, <1>4 DEF ReadBefore
  <2>4. page # "progress" => r.known = r.expected
    BY <2>1, <1>4 DEF Saved
  <2>5. ASSUME page = "progress"
        PROVE  /\ r.known \in Nat /\ r.known <= Len(record.entries)
               /\ \A i \in 1..r.known : record.entries[i].what # r.asked.what
    <3>1. /\ DOMAIN view.entries = 1..r.known /\ r.known \in Nat
          /\ r.known <= Len(record.entries)
      BY <2>5, <2>1, <1>4, LenProperties DEF Saved, ReadBefore
    <3>2. ASSUME NEW i \in 1..r.known PROVE record.entries[i].what # r.asked.what
      <4>1. view.entries[i].what # a.what
        BY <3>1, <2>5, <1>2 DEF Offered, Entries
      <4> QED BY <4>1, <2>1, <2>5, <1>4 DEF ReadBefore
    <3> QED BY <3>1, <3>2
  <2>6. ASSUME page = "review" PROVE r.known # 0 /\ record.entries[r.known].due = 0
    <3>1. r.known = view.version /\ view.version \in Nat \ {0} /\ view.entries[r.known].due = 0
      BY <2>6, <2>1, <1>2, <1>4 DEF Saved, Offered, LastEntry
    <3> QED BY <3>1, <2>6, <1>4 DEF ReadBefore
  <2> QED BY <2>1, <2>2, <2>3, <2>4, <2>5, <2>6 DEF Meant
<1>6. r.key = made + 1 /\ fate[r.key] = Untold
  BY <1>1, <1>3 DEF UpdatesInv, FateTrue
<1>7. \A t \in wire : t.key # r.key
  BY <1>3, <1>6 DEF UpdatesInv, WireTrue, Attempts
<1> QED BY <1>2, <1>3, <1>5, <1>6, <1>7, SendKeeps

LEMMA RetryKeeps == UpdatesInv /\ Retry => UpdatesInv'
<1> SUFFICES ASSUME UpdatesInv, Retry PROVE UpdatesInv'
  OBVIOUS
<1>1. PICK r : r = [pending EXCEPT !.tries = @ + 1]
  OBVIOUS
<1>2. Send(r) /\ glance' = glance /\ doing = None /\ made' = made /\ pending # None
  BY <1>1 DEF Retry, Send
<1>3. Meant(page, made, view.version, record, pending) /\ made <= MaxRequests
  BY <1>2 DEF UpdatesInv, RequestsTrue
<1>4. /\ r = [key |-> r.key, tries |-> r.tries, asked |-> r.asked, expected |-> r.expected,
              known |-> r.known]
      /\ r.key = pending.key /\ r.tries = pending.tries + 1 /\ pending.tries \in Nat
      /\ r.asked = pending.asked /\ r.expected = pending.expected /\ r.known = pending.known
  BY <1>1, <1>3 DEF Meant
<1>5. Meant(page, made', view.version, record, r)
  BY <1>2, <1>3, <1>4 DEF Meant
<1>6. \A t \in wire : t.key = r.key => t.tries < r.tries /\ t.expected = r.expected
  <2> SUFFICES ASSUME NEW t \in wire, t.key = r.key PROVE t.tries < r.tries /\ t.expected = r.expected
    OBVIOUS
  <2>1. Serves(t, pending) /\ t.tries \in Nat
    BY DEF UpdatesInv, WireTrue, Attempts
  <2> QED BY <2>1, <1>2, <1>4 DEF Serves
<1>7. fate[r.key] = Untold
  BY <1>2, <1>4 DEF UpdatesInv, FateTrue
<1> QED BY <1>2, <1>3, <1>5, <1>6, <1>7, SendKeeps

(***************************************************************************)
(* The page looks into an answer.                                          *)
(***************************************************************************)
\* What a page shows is replaced by something that is not older, and it may let go of what it
\* asked for.
LEMMA ViewMoves ==
  ASSUME UpdatesInv, UNCHANGED <<page, record, made, wire>>,
         Snapshot(page, view', record), view.version <= view'.version,
         pending' \in {None, pending}, doing' \in {None, doing}, glance' \in {None, glance}
  PROVE  RecordsTrue' /\ RequestsTrue' /\ WireTrue'
<1>1. RecordsTrue'
  BY DEF UpdatesInv, RecordsTrue
<1>2. /\ Saved(page, record) /\ ReadBefore(page, record, record)
      /\ view.version \in Nat /\ view'.version \in Nat /\ made \in Nat /\ view.version <= record.version
  BY DEF UpdatesInv, RecordsTrue, RequestsTrue, Snapshot, Saved, ReadBefore
<1>3. ASSUME NEW r, Meant(page, made, view.version, record, r)
      PROVE  Meant(page, made, view'.version, record, r)
  BY <1>2, <1>3, MeantLater
<1>4. RequestsTrue'
  BY <1>3 DEF UpdatesInv, RequestsTrue
<1>5. WireTrue'
  <2>1. \A t \in wire : Serves(t, pending') /\ Serves(t, doing')
    BY DEF UpdatesInv, WireTrue, Serves
  <2> QED BY <2>1 DEF UpdatesInv, WireTrue
<1> QED BY <1>1, <1>4, <1>5

LEMMA DoneKeeps == Done => BackTrue' /\ ReplyTrue'
BY NothingAssumption DEF Done, BackTrue, ReplyTrue

LEMMA ToldKeeps ==
  ASSUME UpdatesInv, UNCHANGED <<record, wire, made>>, NEW r, r.key \in 1..made, r.tries \in Nat,
         NEW what \in {"saved", "confirmed", "elsewhere", "rejected"}, LetGo(r, what),
         what = "elsewhere" => \A t \in wire : t.key = r.key => t.expected < record.version,
         what = "rejected" =>
           \A t \in wire : t.key = r.key =>
             t.tries < r.tries /\ (reply = "conflict" => t.expected < record.version)
  PROVE  FateTrue' /\ pending' = None
<1>1. PICK word : word = [told |-> what, tries |-> r.tries, reply |-> reply]
  OBVIOUS
<1>2. pending' = None /\ fate' = [fate EXCEPT ![r.key] = IF @ = Untold THEN word ELSE @]
  BY <1>1 DEF LetGo, Told
<1>3. /\ fate \in [1..MaxRequests -> Fates] /\ r.key \in 1..MaxRequests
      /\ \A k \in 1..MaxRequests : k > made => fate[k] = Untold
      /\ made \in Nat /\ MaxRequests \in Nat /\ made <= MaxRequests
  BY RequestsAssumption DEF UpdatesInv, FateTrue, RequestsTrue
<1>4. word \in Fates
  BY <1>1 DEF Fates, UpdatesInv, ReplyTrue
<1>5. /\ fate' \in [1..MaxRequests -> Fates]
      /\ \A k \in 1..MaxRequests : k # r.key => fate'[k] = fate[k]
      /\ fate'[r.key] \in {fate[r.key], word}
  BY <1>2, <1>3, <1>4
<1>6. \A k \in 1..MaxRequests : k > made => fate'[k] = Untold
  BY <1>3, <1>5
<1>7. \A t \in wire : t.key \in 1..MaxRequests
  BY <1>3 DEF UpdatesInv, WireTrue, Attempts
<1>8. \A t \in wire : t.key = r.key => Behind(t, word, record.version)
  BY <1>1 DEF Behind
<1>9. \A t \in wire : Behind(t, fate[t.key], record.version)
  BY DEF UpdatesInv, FateTrue
<1>10. \A t \in wire : Behind(t, fate'[t.key], record.version)
  BY <1>5, <1>7, <1>8, <1>9
<1> QED BY <1>2, <1>5, <1>6, <1>10 DEF FateTrue

LEMMA FateStays ==
  ASSUME UpdatesInv, UNCHANGED <<record, wire, made, fate>>, pending' \in {None, pending}
  PROVE  FateTrue'
BY DEF UpdatesInv, FateTrue

\* What is said of a request whose answer was waited for.
TellsOf(r) ==
  \/ LetGo(r, "confirmed") \/ LetGo(r, "saved")
  \/ r.expected < record.version /\ LetGo(r, "elsewhere")
  \/ reply \in {"conflict", "refused"} /\ Rejected(r)

LEMMA TellingKeeps ==
  ASSUME UpdatesInv, UNCHANGED <<record, wire, made>>, doing # None, TellsOf(doing)
  PROVE  FateTrue' /\ pending' = None
<1>1. /\ doing.key \in 1..made /\ doing.tries \in Nat
      /\ \A t \in wire : t.key = doing.key => t.expected = doing.expected /\ t.tries <= doing.tries
      /\ \A t \in wire : t.tries \in Nat \ {0}
  BY DEF UpdatesInv, RequestsTrue, Meant, WireTrue, Serves, Attempts
<1>2. CASE LetGo(doing, "confirmed")
  BY <1>1, <1>2, ToldKeeps
<1>3. CASE LetGo(doing, "saved")
  BY <1>1, <1>3, ToldKeeps
<1>4. CASE doing.expected < record.version /\ LetGo(doing, "elsewhere")
  BY <1>1, <1>4, ToldKeeps
<1>5. CASE reply \in {"conflict", "refused"} /\ Rejected(doing)
  <2>1. LetGo(doing, "rejected")
    BY <1>5 DEF Rejected
  <2>2. \A t \in wire : t.key # doing.key \/ t.tries # doing.tries
    BY <1>5 DEF UpdatesInv, ReplyTrue
  <2>3. \A t \in wire : t.key = doing.key => t.tries < doing.tries
    BY <1>1, <2>2
  <2>4. reply = "conflict" => doing.expected < record.version
    BY DEF UpdatesInv, ReplyTrue
  <2> QED BY <2>1, <2>3, <2>4, <1>1, ToldKeeps
<1> QED BY <1>2, <1>3, <1>4, <1>5 DEF TellsOf

LEMMA EndKeeps ==
  ASSUME UpdatesInv, UNCHANGED <<page, record, made, wire>>, glance' \in {None, glance}, Done,
         Snapshot(page, view', record), view.version <= view'.version,
         \/ doing # None /\ TellsOf(doing)
         \/ fate' = fate /\ pending' \in {None, pending}
  PROVE  UpdatesInv'
<1>1. FateTrue' /\ pending' \in {None, pending}
  BY TellingKeeps, FateStays
<1>2. BackTrue' /\ ReplyTrue'
  BY DoneKeeps
<1>3. doing' = None
  BY DEF Done
<1>4. RecordsTrue' /\ RequestsTrue' /\ WireTrue'
  BY <1>1, <1>3, ViewMoves
<1> QED BY <1>1, <1>2, <1>4 DEF UpdatesInv

LEMMA BackRead ==
  ASSUME UpdatesInv, doing # None, back # None, reply # "saved"
  PROVE  /\ Snapshot(page, view, record) /\ view.version <= view.version
         /\ back # Unread => Snapshot(page, back, record) /\ view.version <= back.version
         /\ Moved(doing) => doing.expected < record.version
         /\ back # Unread /\ Later => doing.expected < record.version
         /\ Ambiguous \/ reply \in {"conflict", "refused"}
<1>1. /\ Snapshot(page, view, record) /\ view.version \in Nat /\ record.version \in Nat
      /\ doing.expected \in Nat /\ doing.expected <= view.version
  BY DEF UpdatesInv, RecordsTrue, RequestsTrue, Meant, Snapshot, Saved
<1>2. ASSUME back # Unread
      PROVE  /\ Snapshot(page, back, record) /\ view.version <= back.version
             /\ back.version \in Nat /\ back.version <= record.version
  BY <1>2 DEF UpdatesInv, BackTrue, Snapshot, Saved, ReadBefore
<1>3. Moved(doing) => doing.expected < record.version
  <2> SUFFICES ASSUME Moved(doing) PROVE doing.expected < record.version
    OBVIOUS
  <2>1. back # Unread /\ back.version # doing.expected
    BY DEF Moved
  <2> QED BY <2>1, <1>1, <1>2
<1>4. back # Unread /\ Later => doing.expected < record.version
  BY <1>1, <1>2 DEF Later
<1>5. Ambiguous \/ reply \in {"conflict", "refused"}
  BY DEF UpdatesInv, ReplyTrue, Replies, Ambiguous
<1> QED BY <1>1, <1>2, <1>3, <1>4, <1>5

\* The pages of the dossier and the weekly review.
LEMMA SettleKeeps ==
  ASSUME UpdatesInv, SettleProgress \/ SettleRound \/ SettleCorrection \/ SettleReview
  PROVE  UpdatesInv'
<1>1. /\ UNCHANGED <<page, record, made, wire>> /\ glance' = glance /\ Done
      /\ doing # None /\ back # None /\ reply # "saved"
      /\ view' = view \/ (back # Unread /\ view' = back)
  BY DEF SettleProgress, SettleRound, SettleCorrection, SettleReview, Settle, Looking
<1>2. Moved(doing) => doing.expected < record.version
  BY <1>1, BackRead
<1>3. Ambiguous \/ reply \in {"conflict", "refused"}
  BY <1>1, BackRead
<1>4. TellsOf(doing) \/ (fate' = fate /\ pending' = pending)
  <2>1. CASE SettleProgress
    BY <1>2, <1>3, <2>1 DEF SettleProgress, Settle, Keep, TellsOf
  <2>2. CASE SettleRound
    BY <1>2, <1>3, <2>2 DEF SettleRound, Settle, Keep, TellsOf
  <2>3. CASE SettleCorrection
    BY <1>2, <1>3, <2>3 DEF SettleCorrection, Settle, Keep, TellsOf
  <2>4. CASE SettleReview
    BY <1>2, <1>3, <2>4 DEF SettleReview, Settle, Keep, TellsOf
  <2> QED BY <2>1, <2>2, <2>3, <2>4
<1>5. Snapshot(page, view', record) /\ view.version <= view'.version
  BY <1>1, BackRead
<1> QED BY <1>1, <1>4, <1>5, EndKeeps

\* A submission that is found was not there when it was asked for.
LEMMA SettleHandoffKeeps == UpdatesInv /\ SettleHandoff => UpdatesInv'
<1> SUFFICES ASSUME UpdatesInv, SettleHandoff PROVE UpdatesInv'
  OBVIOUS
<1>1. /\ UNCHANGED <<page, record, made, wire>> /\ glance' = glance /\ Done
      /\ doing # None /\ back # None /\ reply # "saved" /\ page = "submission"
      /\ view' = IF back = Unread THEN view ELSE back
  BY DEF SettleHandoff, Looking
<1>2. back # Unread /\ doing.asked \in Entries(back) => doing.expected < record.version
  <2> SUFFICES ASSUME back # Unread, doing.asked \in Entries(back)
               PROVE  doing.expected < record.version
    OBVIOUS
  <2>1. /\ Meant(page, made, view.version, record, doing) /\ Snapshot(page, back, record)
        /\ Saved(page, record)
    BY <1>1, BackRead DEF UpdatesInv, RequestsTrue, RecordsTrue
  <2>2. PICK i \in DOMAIN back.entries : back.entries[i] = doing.asked
    BY DEF Entries
  <2>3. i \in 1..back.version /\ back.version \in Nat /\ record.entries[i] = doing.asked
        /\ back.version <= record.version /\ record.version \in Nat
    BY <1>1, <2>1, <2>2, LenProperties DEF Snapshot, Saved, ReadBefore
  <2>4. doing.asked.what \in Once
    <3>1. doing.asked \in Asks /\ doing.asked.page = "submission"
      BY <1>1, <2>1 DEF Meant
    <3>2. <<"submission", doing.asked.what>> \in Offers
      BY <3>1, AsksAssumption
    <3> QED BY <3>2 DEF Offers, Once
  <2>5. i > doing.known /\ doing.known = doing.expected /\ doing.expected \in Nat
    BY <1>1, <2>1, <2>3, <2>4 DEF Meant
  <2> QED BY <2>3, <2>5
<1>3. TellsOf(doing) \/ (fate' = fate /\ pending' = pending)
  BY <1>1, <1>2, BackRead DEF SettleHandoff, Keep, TellsOf
<1>4. Snapshot(page, view', record) /\ view.version <= view'.version
  BY <1>1, BackRead
<1> QED BY <1>1, <1>3, <1>4, EndKeeps

\* The pages of the workspace.
LEMMA ReconcileKeeps ==
  ASSUME UpdatesInv, ReconcileMaterials \/ ReconcilePack \/ ReconcileOutreach \/ ReconcilePeople
  PROVE  UpdatesInv'
<1>1. /\ UNCHANGED <<page, record, made, wire>> /\ glance' = glance /\ Done
      /\ doing # None /\ back # None /\ reply # "saved"
      /\ view' = view \/ (back # Unread /\ view' = back)
  BY DEF ReconcileMaterials, ReconcilePack, ReconcileOutreach, ReconcilePeople, Reconcile, Looking
<1>2. back # Unread /\ Later => doing.expected < record.version
  BY <1>1, BackRead
<1>3. TellsOf(doing) \/ (fate' = fate /\ pending' = pending)
  <2>1. CASE ReconcileMaterials
    BY <1>2, <2>1 DEF ReconcileMaterials, Reconcile, Keep, TellsOf
  <2>2. CASE ReconcilePack
    BY <1>2, <2>2 DEF ReconcilePack, Reconcile, Keep, TellsOf
  <2>3. CASE ReconcileOutreach
    BY <1>2, <2>3 DEF ReconcileOutreach, Reconcile, Keep, TellsOf
  <2>4. CASE ReconcilePeople
    BY <1>2, <2>4 DEF ReconcilePeople, Reconcile, Keep, TellsOf
  <2> QED BY <2>1, <2>2, <2>3, <2>4
<1>4. Snapshot(page, view', record) /\ view.version <= view'.version
  BY <1>1, BackRead
<1> QED BY <1>1, <1>3, <1>4, EndKeeps

LEMMA DismissKeeps == UpdatesInv /\ Dismiss => UpdatesInv'
<1> SUFFICES ASSUME UpdatesInv, Dismiss PROVE UpdatesInv'
  OBVIOUS
<1>1. UNCHANGED <<page, record, made, wire, view, glance>> /\ Done /\ doing # None
  BY DEF Dismiss
<1>2. TellsOf(doing) \/ (fate' = fate /\ pending' = pending)
  BY DEF Dismiss, Keep, TellsOf
<1>3. Snapshot(page, view', record) /\ view.version <= view'.version
  BY <1>1 DEF UpdatesInv, RecordsTrue, Snapshot, Saved
<1> QED BY <1>1, <1>2, <1>3, EndKeeps

LEMMA AcceptKeeps == UpdatesInv /\ Accept => UpdatesInv'
<1> SUFFICES ASSUME UpdatesInv, Accept PROVE UpdatesInv'
  OBVIOUS
<1>1. UNCHANGED <<page, record, made, wire>> /\ glance' = glance /\ Done /\ doing # None /\ reply = "saved"
  BY DEF Accept
<1>2. TellsOf(doing) \/ (fate' = fate /\ pending' = pending)
  BY DEF Accept, Keep, TellsOf
<1>3. view' \in {view, back, record}
  BY DEF Accept
<1>4. /\ Snapshot(page, view, record) /\ view.version <= view.version
      /\ Snapshot(page, record, record) /\ view.version <= record.version
  BY DEF UpdatesInv, RecordsTrue, Snapshot, Saved, ReadBefore
<1>5. Snapshot(page, back, record) /\ view.version <= back.version
  BY <1>1 DEF UpdatesInv, BackTrue
<1>6. Snapshot(page, view', record) /\ view.version <= view'.version
  BY <1>3, <1>4, <1>5
<1> QED BY <1>1, <1>2, <1>6, EndKeeps

LEMMA ReloadKeeps == UpdatesInv /\ Reload => UpdatesInv'
<1> SUFFICES ASSUME UpdatesInv, Reload PROVE UpdatesInv'
  OBVIOUS
<1>1. /\ UNCHANGED <<page, record, made, wire>> /\ glance' = None /\ Done
      /\ fate' = fate /\ pending' \in {None, pending} /\ view' = record
  BY DEF Reload
<1>2. Snapshot(page, record, record) /\ view.version <= record.version
  BY DEF UpdatesInv, RecordsTrue, Snapshot, Saved, ReadBefore
<1> QED BY <1>1, <1>2, EndKeeps

(***************************************************************************)
(* Reading.                                                                *)
(***************************************************************************)
LEMMA ReadBackKeeps == UpdatesInv /\ ReadBack => UpdatesInv'
<1> SUFFICES ASSUME UpdatesInv, ReadBack PROVE UpdatesInv'
  OBVIOUS
<1>1. /\ UNCHANGED <<page, record, wire, view, pending, doing, reply, glance, made, fate>>
      /\ doing # None /\ reply \notin {None, "saved"} /\ back' \in {record, Unread}
  BY NothingAssumption DEF ReadBack, Ambiguous
<1>2. RecordsTrue' /\ RequestsTrue' /\ WireTrue' /\ FateTrue'
  BY <1>1 DEF UpdatesInv, RecordsTrue, RequestsTrue, WireTrue, FateTrue
<1>3. /\ Snapshot(page, record, record) /\ view.version <= record.version
      /\ glance # None => glance.version <= record.version
  BY DEF UpdatesInv, RecordsTrue, Snapshot, Saved, ReadBefore
<1>4. BackTrue'
  BY <1>1, <1>3 DEF BackTrue
<1>5. ReplyTrue'
  BY <1>1 DEF UpdatesInv, ReplyTrue
<1> QED BY <1>2, <1>4, <1>5 DEF UpdatesInv

LEMMA CheckKeeps == UpdatesInv /\ Check => UpdatesInv'
<1> SUFFICES ASSUME UpdatesInv, Check PROVE UpdatesInv'
  OBVIOUS
<1>1. /\ UNCHANGED <<page, record, wire, view, pending, back, glance, made, fate>>
      /\ doing = None /\ pending # None /\ doing' = pending /\ reply' = "unknown"
  BY DEF Check
<1>2. reply = None /\ back = None
  BY <1>1 DEF UpdatesInv, ReplyTrue
<1>3. RecordsTrue' /\ RequestsTrue' /\ WireTrue' /\ FateTrue'
  BY <1>1 DEF UpdatesInv, RecordsTrue, RequestsTrue, WireTrue, FateTrue
<1>4. BackTrue' /\ ReplyTrue'
  BY <1>1, <1>2, NothingAssumption DEF BackTrue, ReplyTrue, Replies
<1> QED BY <1>3, <1>4 DEF UpdatesInv

LEMMA GlanceKeeps == UpdatesInv /\ Glance => UpdatesInv'
<1> SUFFICES ASSUME UpdatesInv, Glance PROVE UpdatesInv'
  OBVIOUS
<1>1. /\ UNCHANGED <<page, record, wire, view, pending, doing, reply, back, made, fate>>
      /\ doing = None /\ glance' = record
  BY DEF Glance
<1>2. reply = None /\ back = None
  BY <1>1 DEF UpdatesInv, ReplyTrue
<1>3. Snapshot(page, record, record)
  BY DEF UpdatesInv, RecordsTrue, Snapshot, Saved, ReadBefore
<1>4. RecordsTrue' /\ RequestsTrue' /\ WireTrue' /\ FateTrue'
  BY <1>1, <1>3 DEF UpdatesInv, RecordsTrue, RequestsTrue, WireTrue, FateTrue
<1>5. BackTrue' /\ ReplyTrue'
  BY <1>1, <1>2, NothingAssumption DEF UpdatesInv, BackTrue, ReplyTrue
<1> QED BY <1>4, <1>5 DEF UpdatesInv

\* A record that was read in the background is shown, or is too old.
LEMMA ShowKeeps ==
  ASSUME UpdatesInv, ShowRounds \/ ShowMaterials \/ ShowPack \/ ShowOutreach \/ ShowPeople
  PROVE  UpdatesInv'
<1>1. /\ UNCHANGED <<page, record, wire, doing, reply, back, made>>
      /\ glance # None /\ glance' = None
      /\ view' \in {view, glance} /\ (view' = view \/ Acceptable(glance))
  <2>1. CASE ShowRounds
    BY <2>1 DEF ShowRounds, Show
  <2>2. CASE ShowMaterials
    BY <2>2 DEF ShowMaterials, Show
  <2>3. CASE ShowPack
    BY <2>3 DEF ShowPack, Show
  <2>4. CASE ShowOutreach
    BY <2>4 DEF ShowOutreach, Show
  <2>5. CASE ShowPeople
    BY <2>5 DEF ShowPeople, Show
  <2> QED BY <2>1, <2>2, <2>3, <2>4, <2>5
<1>2. /\ Snapshot(page, view, record) /\ view.version <= view.version
      /\ Snapshot(page, glance, record) /\ glance.version \in Nat
      /\ glance.version <= record.version /\ record.version \in Nat /\ view.version \in Nat
  BY <1>1 DEF UpdatesInv, RecordsTrue, Snapshot, Saved, ReadBefore
<1>3. Snapshot(page, view', record) /\ view.version <= view'.version
  BY <1>1, <1>2 DEF Acceptable
<1>4. \/ pending # None /\ LetGo(pending, "confirmed")
      \/ pending # None /\ Overtaken /\ LetGo(pending, "elsewhere")
      \/ Keep
  BY DEF ShowRounds, ShowMaterials, ShowPack, ShowOutreach, ShowPeople, Show, Keep
<1>5. FateTrue' /\ pending' \in {None, pending}
  <2>1. CASE Keep
    BY <2>1, <1>1, FateStays DEF Keep
  <2>2. ASSUME pending # None
        PROVE  /\ pending.key \in 1..made /\ pending.expected \in Nat /\ pending.tries \in Nat
               /\ \A t \in wire : t.key = pending.key => t.expected = pending.expected
    BY <2>2 DEF UpdatesInv, RequestsTrue, Meant, WireTrue, Serves
  <2>3. CASE pending # None /\ LetGo(pending, "confirmed")
    BY <2>2, <2>3, <1>1, ToldKeeps
  <2>4. CASE pending # None /\ Overtaken /\ LetGo(pending, "elsewhere")
    <3>1. pending.expected < record.version
      BY <2>2, <2>4, <1>2 DEF Overtaken
    <3> QED BY <3>1, <2>2, <2>4, <1>1, ToldKeeps
  <2> QED BY <2>1, <2>3, <2>4, <1>4
<1>6. RecordsTrue' /\ RequestsTrue' /\ WireTrue'
  BY <1>1, <1>3, <1>5, ViewMoves
<1>7. BackTrue'
  <2>1. reply = "saved" \/ back \notin {None, Unread} => view'.version <= back.version
    BY <1>1 DEF UpdatesInv, BackTrue
  <2> QED BY <2>1, <1>1 DEF UpdatesInv, BackTrue
<1>8. ReplyTrue'
  BY <1>1 DEF UpdatesInv, ReplyTrue
<1> QED BY <1>5, <1>6, <1>7, <1>8 DEF UpdatesInv

LEMMA UpdatesStutter == UpdatesInv /\ UNCHANGED updateVars => UpdatesInv'
BY DEF updateVars, UpdatesInv, RecordsTrue, BackTrue, RequestsTrue, WireTrue, FateTrue, ReplyTrue

LEMMA UpdatesStay == UpdatesInv /\ [UpdatesNext]_updateVars => UpdatesInv'
<1> SUFFICES ASSUME UpdatesInv, [UpdatesNext]_updateVars PROVE UpdatesInv'
  OBVIOUS
<1>1. CASE SettleProgress \/ SettleRound \/ SettleCorrection \/ SettleReview \/ SettleHandoff
  BY <1>1, SettleKeeps, SettleHandoffKeeps
<1>2. CASE ReconcileMaterials \/ ReconcilePack \/ ReconcileOutreach \/ ReconcilePeople
  BY <1>2, ReconcileKeeps
<1>3. CASE Dismiss \/ Accept \/ Reload \/ Elsewhere \/ Lose
  BY <1>3, DismissKeeps, AcceptKeeps, ReloadKeeps, ElsewhereKeeps, LoseKeeps
<1>4. CASE Retry \/ ReadBack \/ Check \/ Glance
  BY <1>4, RetryKeeps, ReadBackKeeps, CheckKeeps, GlanceKeeps
<1>5. CASE ShowRounds \/ ShowMaterials \/ ShowPack \/ ShowOutreach \/ ShowPeople
  BY <1>5, ShowKeeps
<1>6. CASE \E t \in wire : Serve(t)
  BY <1>6, ServeKeeps
<1>7. CASE \E a \in Given : Ask(a)
  BY <1>7, AskKeeps
<1>8. CASE UNCHANGED updateVars
  BY <1>8, UpdatesStutter
<1> QED BY <1>1, <1>2, <1>3, <1>4, <1>5, <1>6, <1>7, <1>8 DEF UpdatesNext

LEMMA UpdatesAlways == UpdatesSpec => []UpdatesInv
BY UpdatesStart, UpdatesStay, PTL DEF UpdatesSpec

(***************************************************************************)
(* What the owner is told.                                                 *)
(***************************************************************************)
\* What the page looks at has the entry that was asked for, and the page did not know it.
LEMMA EntryIsFresh ==
  ASSUME NEW p, p # "progress", NEW n, NEW v, NEW s, NEW r, Meant(p, n, v, s, r),
         NEW b, Snapshot(p, b, s), NEW i \in 1..Len(b.entries), b.entries[i] = r.asked,
         r.asked.what \in Once \/ i > r.known
  PROVE  r.asked \in Fresh(b, r)
<1>1. /\ b.entries \in Seq(Lines(p)) /\ Len(b.entries) = b.version /\ b.version \in Nat
      /\ r.known \in Nat /\ s.entries[i] = b.entries[i]
  BY DEF Snapshot, Saved, ReadBefore, Meant
<1>2. i > r.known
  <2>1. CASE r.asked.what \in Once
    <3>1. \A k \in 1..r.known : s.entries[k] # r.asked
      BY <2>1 DEF Meant
    <3> QED BY <3>1, <1>1
  <2> QED BY <2>1
<1>3. i \in r.known + 1 .. Len(b.entries)
  BY <1>1, <1>2
<1> QED BY <1>3 DEF Fresh

LEMMA ToldOnly ==
  ASSUME FateTrue, NEW k \in 1..MaxRequests, fate[k] = Untold,
         fate'[k].told = "confirmed", NEW r, NEW what, Told(r, what)
  PROVE  k = r.key /\ what = "confirmed"
<1>1. fate \in [1..MaxRequests -> Fates]
  BY DEF FateTrue
<1>2. fate' = [fate EXCEPT ![r.key] =
                  IF @ = Untold THEN [told |-> what, tries |-> r.tries, reply |-> reply] ELSE @]
  BY DEF Told
<1>3. k = r.key
  <2>1. k # r.key => fate'[k] = Untold
    BY <1>1, <1>2
  <2> QED BY <2>1 DEF Untold
<1>4. fate'[k] = [told |-> what, tries |-> r.tries, reply |-> reply]
  BY <1>1, <1>2, <1>3
<1> QED BY <1>3, <1>4

\* What a page looks for as it was asked is there.
LEMMA AskedIsFresh ==
  ASSUME NEW n, NEW v, NEW s, NEW r, Meant(page, n, v, s, r), Saved(page, s), page \in Pages,
         NEW b, Snapshot(page, b, s),
         \/ page = "round" /\ Appointment(b, r)
         \/ page = "correction" /\ Correction(b, r)
         \/ page = "materials" /\ OnMaterials(b, r)
         \/ page = "pack" /\ OnPack(b, r)
         \/ page = "outreach" /\ OnOutreach(b, r)
  PROVE  r.asked \in Fresh(b, r)
<1>1. /\ page # "progress" /\ r.known \in Nat /\ Len(b.entries) \in Nat
      /\ b.entries \in Seq(Lines(page)) /\ DOMAIN b.entries = 1..Len(b.entries)
  BY LenProperties DEF Snapshot, Saved, Meant
<1>2. r.asked \in Asks /\ r.asked.page = page /\ <<page, r.asked.what>> \in Offers
  BY AsksAssumption DEF Meant
<1>3. SUFFICES \E i \in 1..Len(b.entries) :
                 b.entries[i] = r.asked /\ (r.asked.what \in Once \/ i > r.known)
  BY <1>1, EntryIsFresh
<1>4. ASSUME LastEntry(b) = r.asked, Len(b.entries) > r.known
      PROVE  \E i \in 1..Len(b.entries) : b.entries[i] = r.asked /\ i > r.known
  BY <1>1, <1>4 DEF LastEntry
<1>5. ASSUME r.asked \in Entries(b), r.asked.what \in Once
      PROVE  \E i \in 1..Len(b.entries) : b.entries[i] = r.asked /\ r.asked.what \in Once
  BY <1>1, <1>5 DEF Entries
<1>6. ASSUME LastEntry(b) = r.asked, r.asked.what \in Once
      PROVE  \E i \in 1..Len(b.entries) : b.entries[i] = r.asked /\ r.asked.what \in Once
  <2>1. Len(b.entries) > 0
    BY <1>1 DEF Snapshot, Saved
  <2> QED BY <1>1, <1>6, <2>1 DEF LastEntry
<1>7. CASE page = "round" /\ Appointment(b, r)
  BY <1>4, <1>7 DEF Appointment
<1>8. CASE page = "correction" /\ Correction(b, r)
  <2>1. /\ Len(b.entries) > r.known /\ r.known + 1 \in 1..Len(b.entries) /\ r.known + 1 > r.known
        /\ b.entries[r.known + 1].on = r.asked.on
    BY <1>1, <1>8 DEF Correction
  <2>2. b.entries[r.known + 1] \in Lines(page)
    BY <2>1, <1>1, ElementOfSeq
  <2>3. /\ r.asked.on # 0
        /\ \A c \in Asks : c.page = "correction" /\ c.on = r.asked.on => c = r.asked
    BY <1>2, <1>8, AsksAssumption
  <2>4. b.entries[r.known + 1] = r.asked
    BY <2>1, <2>2, <2>3, <1>8 DEF Lines
  <2> QED BY <2>1, <2>4
<1>9. CASE page = "materials" /\ OnMaterials(b, r)
  <2>1. CASE r.asked.what = "revision"
    <3>1. Len(b.entries) = r.known + 1 /\ LastEntry(b) = r.asked
      BY <2>1, <1>9 DEF OnMaterials, RevisionMade
    <3> QED BY <3>1, <1>1, <1>4
  <2>2. CASE r.asked.what # "revision"
    <3>1. r.asked.what \in Once
      BY <2>2, <1>2, <1>9 DEF Offers, Once
    <3>2. LastEntry(b) = r.asked
      BY <2>2, <1>9 DEF OnMaterials, Approved
    <3> QED BY <3>1, <3>2, <1>6
  <2> QED BY <2>1, <2>2
<1>10. CASE page = "pack" /\ OnPack(b, r)
  <2>1. r.asked.what \in {"start", "revision", "review"}
    BY <1>2, <1>10 DEF Offers
  <2>2. CASE r.asked.what = "revision"
    <3>1. Len(b.entries) = r.known + 1 /\ LastEntry(b) = r.asked
      BY <2>2, <1>10 DEF OnPack, RevisionMade
    <3> QED BY <3>1, <1>1, <1>4
  <2>3. CASE r.asked.what \in {"start", "review"}
    <3>1. r.asked \in Entries(b) /\ r.asked.what \in Once
      BY <2>3, <1>10 DEF OnPack, PackStarted, PackReviewed, Once
    <3> QED BY <3>1, <1>5
  <2> QED BY <2>1, <2>2, <2>3
<1>11. CASE page = "outreach" /\ OnOutreach(b, r)
  <2>1. r.asked.what \in {"message", "sent", "reply", "pause"}
    BY <1>2, <1>11 DEF Offers
  <2>2. CASE r.asked.what = "message"
    <3>1. Len(b.entries) > r.known /\ LastEntry(b) = r.asked
      BY <2>2, <1>11 DEF OnOutreach, Message
    <3> QED BY <3>1, <1>4
  <2>3. CASE r.asked.what = "sent"
    <3>1. r.asked \in Entries(b) /\ r.asked.what \in Once
      BY <2>3, <1>11 DEF OnOutreach, Marked, Once
    <3> QED BY <3>1, <1>5
  <2>4. CASE r.asked.what = "reply"
    <3>1. r.asked \in Fresh(b, r)
      BY <2>4, <1>11 DEF OnOutreach, Reply
    <3>2. PICK i \in r.known + 1 .. Len(b.entries) : b.entries[i] = r.asked
      BY <3>1 DEF Fresh
    <3> QED BY <3>2, <1>1
  <2>5. CASE r.asked.what = "pause"
    <3>1. LastEntry(b) = r.asked /\ r.asked.what \in Once
      BY <2>5, <1>11 DEF OnOutreach, Controlled, Once
    <3> QED BY <3>1, <1>6
  <2> QED BY <2>1, <2>2, <2>3, <2>4, <2>5
<1> QED BY <1>7, <1>8, <1>9, <1>10, <1>11

\* And what a page looks for less closely.
LEMMA FoundIsFresh ==
  ASSUME NEW n, NEW v, NEW s, NEW r, Meant(page, n, v, s, r), Saved(page, s), page \in Pages,
         NEW b, Snapshot(page, b, s),
         \/ page = "round" /\ Appointment(b, r)
         \/ page = "correction" /\ Correction(b, r)
         \/ page = "materials" /\ OnMaterials(b, r)
         \/ page = "pack" /\ OnPack(b, r)
         \/ page = "outreach" /\ OnOutreach(b, r)
         \/ page = "progress" /\ Milestone(b, r)
         \/ page = "review" /\ Reviewed(b) /\ r.expected <= b.version
         \/ page = "people" /\ Searched(b, r)
  PROVE  \E e \in Fresh(b, r) : Amounts(e, r.asked)
<1>1. r.asked.page = page
  BY DEF Meant
<1>2. CASE page = "progress" /\ Milestone(b, r)
  <2>1. /\ DOMAIN b.entries = 1..Len(b.entries) /\ Len(b.entries) \in Nat
        /\ r.known \in Nat /\ \A i \in 1..r.known : s.entries[i].what # r.asked.what
        /\ \A i \in 1..Len(b.entries) : b.entries[i].what = s.entries[i].what
    BY <1>2, LenProperties DEF Snapshot, Saved, ReadBefore, Meant
  <2>2. PICK i \in 1..Len(b.entries) :
               b.entries[i].what = r.asked.what /\ b.entries[i].on = r.asked.on
    BY <1>2, <2>1 DEF Milestone, Entries
  <2>3. i \in r.known + 1 .. Len(b.entries)
    BY <2>1, <2>2
  <2> QED BY <2>2, <2>3, <1>1, <1>2 DEF Fresh, Amounts
<1>3. CASE page = "review" /\ Reviewed(b) /\ r.expected <= b.version
  <2>1. /\ Len(b.entries) = b.version /\ b.version \in Nat /\ r.known \in Nat \ {0}
        /\ r.known <= b.version
        /\ s.entries[r.known].due = 0 /\ \A i \in 1..b.version : b.entries[i] = s.entries[i]
    BY <1>3 DEF Snapshot, Saved, ReadBefore, Meant
  <2>2. b.entries[b.version].due > 0
    BY <2>1, <1>3 DEF Reviewed, LastEntry
  <2>3. b.version # r.known
    BY <2>1, <2>2
  <2>4. b.version \in r.known + 1 .. Len(b.entries)
    BY <2>1, <2>3
  <2> QED BY <2>2, <2>4, <1>1, <1>3 DEF Fresh, Amounts
<1>4. CASE page = "people" /\ Searched(b, r)
  <2>1. Len(b.entries) \in Nat /\ r.known \in Nat /\ Len(b.entries) > r.known
    BY <1>4, LenProperties DEF Snapshot, Saved, Meant, Searched
  <2>2. r.known + 1 \in r.known + 1 .. Len(b.entries)
    BY <2>1
  <2> QED BY <2>2, <1>1, <1>4 DEF Fresh, Amounts
<1>5. CASE r.asked \in Fresh(b, r) /\ page \notin {"progress", "review", "people"}
  BY <1>1, <1>5 DEF Amounts
<1> QED BY <1>2, <1>3, <1>4, <1>5, AskedIsFresh

\* Answers and what is read change nothing on the server.
LEMMA PageSteps ==
  ASSUME UpdatesNext
  PROVE  \/ UNCHANGED landed
         \/ \E t \in wire : Serve(t)
<1>1. CASE Elsewhere \/ Lose \/ ReadBack \/ Check \/ Dismiss \/ Accept \/ Glance \/ Reload
  BY <1>1 DEF Elsewhere, Lose, ReadBack, Check, Dismiss, Accept, Glance, Reload
<1>2. CASE Retry \/ \E a \in Given : Ask(a)
  BY <1>2 DEF Retry, Ask, Send
<1>3. CASE SettleProgress \/ SettleRound \/ SettleCorrection \/ SettleReview \/ SettleHandoff
  BY <1>3 DEF SettleProgress, SettleRound, SettleCorrection, SettleReview, SettleHandoff, Settle
<1>4. CASE ReconcileMaterials \/ ReconcilePack \/ ReconcileOutreach \/ ReconcilePeople
  BY <1>4 DEF ReconcileMaterials, ReconcilePack, ReconcileOutreach, ReconcilePeople, Reconcile
<1>5. CASE ShowRounds \/ ShowMaterials \/ ShowPack \/ ShowOutreach \/ ShowPeople
  BY <1>5 DEF ShowRounds, ShowMaterials, ShowPack, ShowOutreach, ShowPeople, Show
<1> QED BY <1>1, <1>2, <1>3, <1>4, <1>5 DEF UpdatesNext

LEMMA NothingLands ==
  ASSUME UpdatesInv, UpdatesNext, NEW t \in wire \ wire', t.key \in landed' \ landed
  PROVE  /\ fate[t.key].told # "elsewhere"
         /\ fate[t.key].told = "rejected" =>
              fate[t.key].reply # "conflict" /\ t.tries < fate[t.key].tries
<1>1. PICK u \in wire : Serve(u)
  BY PageSteps
<1>2. u = t /\ Carried(t)
  BY <1>1 DEF Serve, Replayed, Conflict, Claimed, TurnedDown
<1>3. t.expected = record.version /\ record.version \in Nat
  BY <1>2 DEF Carried, Timely, UpdatesInv, RecordsTrue, Saved
<1>4. Behind(t, fate[t.key], record.version)
  BY DEF UpdatesInv, FateTrue
<1> QED BY <1>3, <1>4 DEF Behind

LEMMA NothingOlder == ASSUME UpdatesInv, UpdatesNext PROVE view'.version >= view.version
<1>1. /\ view.version \in Nat /\ record.version \in Nat /\ view.version <= record.version
      /\ glance # None => glance.version \in Nat
  BY DEF UpdatesInv, RecordsTrue, Snapshot, Saved, ReadBefore
<1>2. CASE Elsewhere \/ Lose \/ ReadBack \/ Check \/ Dismiss \/ Glance \/ \E t \in wire : Serve(t)
  BY <1>1, <1>2 DEF Elsewhere, Lose, ReadBack, Check, Dismiss, Glance, Serve
<1>3. CASE Retry \/ \E a \in Given : Ask(a)
  <2>1. view' = view
    BY <1>3 DEF Retry, Ask, Send
  <2> QED BY <2>1, <1>1
<1>4. ASSUME doing # None, back # None, reply # "saved"
      PROVE  back # Unread => view.version <= back.version /\ back.version \in Nat
  BY <1>4, BackRead DEF Snapshot, Saved
<1>5. CASE SettleProgress \/ SettleRound \/ SettleCorrection \/ SettleReview \/ SettleHandoff
  <2>1. doing # None /\ back # None /\ reply # "saved"
    BY <1>5 DEF SettleProgress, SettleRound, SettleCorrection, SettleReview, SettleHandoff, Looking
  <2>2. view' = view \/ (back # Unread /\ view' = back)
    BY <1>5 DEF SettleProgress, SettleRound, SettleCorrection, SettleReview, SettleHandoff
  <2> QED BY <2>1, <2>2, <1>1, <1>4
<1>6. CASE ReconcileMaterials \/ ReconcilePack \/ ReconcileOutreach \/ ReconcilePeople
  <2>1. doing # None /\ back # None /\ reply # "saved"
    BY <1>6 DEF ReconcileMaterials, ReconcilePack, ReconcileOutreach, ReconcilePeople, Looking
  <2>2. view' = view \/ (back # Unread /\ view' = back)
    BY <1>6 DEF ReconcileMaterials, ReconcilePack, ReconcileOutreach, ReconcilePeople, Reconcile
  <2> QED BY <2>1, <2>2, <1>1, <1>4
<1>7. CASE ShowRounds \/ ShowMaterials \/ ShowPack \/ ShowOutreach \/ ShowPeople
  <2>1. glance # None /\ (view' = view \/ (view' = glance /\ Acceptable(glance)))
    <3>1. CASE ShowRounds
      BY <3>1 DEF ShowRounds, Show
    <3>2. CASE ShowMaterials
      BY <3>2 DEF ShowMaterials, Show
    <3>3. CASE ShowPack
      BY <3>3 DEF ShowPack, Show
    <3>4. CASE ShowOutreach
      BY <3>4 DEF ShowOutreach, Show
    <3>5. CASE ShowPeople
      BY <3>5 DEF ShowPeople, Show
    <3> QED BY <1>7, <3>1, <3>2, <3>3, <3>4, <3>5
  <2> QED BY <2>1, <1>1 DEF Acceptable
<1>8. CASE Accept \/ Reload
  <2>1. view' = view \/ view' = record \/ (reply = "saved" /\ view' = back)
    BY <1>8 DEF Accept, Reload
  <2>2. reply = "saved" => view.version <= back.version /\ back.version \in Nat
    BY DEF UpdatesInv, BackTrue, Snapshot, Saved
  <2> QED BY <2>1, <2>2, <1>1
<1> QED BY <1>2, <1>3, <1>5, <1>6, <1>7, <1>8 DEF UpdatesNext

\* The request a page calls confirmed.
Subject(k) == IF doing # None /\ doing.key = k THEN doing ELSE pending

LEMMA ConfirmedIsThere ==
  ASSUME UpdatesInv, UpdatesNext, NEW k \in 1..MaxRequests, fate[k] = Untold,
         fate'[k].told = "confirmed"
  PROVE  \E e \in Fresh(view', Subject(k)) : Amounts(e, Subject(k).asked)
<1>1. /\ FateTrue /\ Saved(page, record) /\ page \in Pages
      /\ Snapshot(page, view, record) /\ (glance # None => Snapshot(page, glance, record))
      /\ doing # None => Meant(page, made, view.version, record, doing) /\ pending \in {None, doing}
      /\ pending # None => Meant(page, made, view.version, record, pending)
  BY DEF UpdatesInv, RecordsTrue, RequestsTrue
<1>2. CASE Elsewhere \/ Lose \/ ReadBack \/ Check \/ Glance \/ Reload \/ \E t \in wire : Serve(t)
  BY <1>2 DEF Elsewhere, Lose, ReadBack, Check, Glance, Serve, Reload, Untold
<1>3. CASE Retry \/ \E a \in Given : Ask(a)
  <2>1. fate' = fate
    BY <1>3 DEF Retry, Ask, Send
  <2> QED BY <2>1 DEF Untold
<1>4. ASSUME NEW r
      PROVE  /\ ~LetGo(r, "elsewhere") /\ ~LetGo(r, "saved") /\ ~Rejected(r) /\ ~Keep
             /\ LetGo(r, "confirmed") => k = r.key
  <2>1. ASSUME NEW what, LetGo(r, what) PROVE what = "confirmed" /\ k = r.key
    BY <2>1, <1>1, ToldOnly DEF LetGo
  <2>2. ~Rejected(r)
    BY <2>1 DEF Rejected
  <2>3. ~Keep
    BY DEF Keep, Untold
  <2>4. ~LetGo(r, "elsewhere") /\ ~LetGo(r, "saved")
    BY <2>1
  <2> QED BY <2>1, <2>2, <2>3, <2>4
<1>5. ~Dismiss /\ ~Accept /\ ~SettleHandoff
  BY <1>4 DEF Dismiss, Accept, SettleHandoff
<1>7. ~ShowRounds
  BY <1>4 DEF ShowRounds, Show
<1>8. ASSUME doing # None, back # None, reply # "saved", back # Unread, LetGo(doing, "confirmed")
      PROVE  /\ Subject(k) = doing /\ Snapshot(page, back, record)
             /\ Meant(page, made, view.version, record, doing) /\ doing.expected <= back.version
  <2>1. /\ Subject(k) = doing /\ Snapshot(page, back, record) /\ view.version <= back.version
        /\ Meant(page, made, view.version, record, doing)
    BY <1>8, <1>1, <1>4, BackRead DEF Subject
  <2>2. doing.expected \in Nat /\ doing.expected <= view.version /\ view.version \in Nat
        /\ back.version \in Nat
    BY <1>1, <2>1 DEF Meant, Snapshot, Saved
  <2> QED BY <2>1, <2>2
<1>9. CASE SettleRound
  <2>1. /\ page = "round" /\ doing # None /\ back # None /\ reply # "saved" /\ back # Unread
        /\ view' = back /\ Appointment(back, doing) /\ LetGo(doing, "confirmed")
    BY <1>4, <1>9 DEF SettleRound, Settle, Looking
  <2> QED BY <2>1, <1>1, <1>8, FoundIsFresh
<1>10. CASE SettleCorrection
  <2>1. /\ page = "correction" /\ doing # None /\ back # None /\ reply # "saved" /\ back # Unread
        /\ view' = back /\ Correction(back, doing) /\ LetGo(doing, "confirmed")
    BY <1>4, <1>10 DEF SettleCorrection, Settle, Looking
  <2> QED BY <2>1, <1>1, <1>8, FoundIsFresh
<1>11. CASE ReconcileMaterials
  <2>1. /\ page = "materials" /\ doing # None /\ back # None /\ reply # "saved" /\ back # Unread
        /\ view' \in {view, back} /\ OnMaterials(view', doing) /\ LetGo(doing, "confirmed")
    BY <1>4, <1>11 DEF ReconcileMaterials, Reconcile, Looking
  <2> QED BY <2>1, <1>1, <1>8, FoundIsFresh
<1>12. CASE ReconcilePack
  <2>1. /\ page = "pack" /\ doing # None /\ back # None /\ reply # "saved" /\ back # Unread
        /\ view' \in {view, back} /\ OnPack(view', doing) /\ LetGo(doing, "confirmed")
    BY <1>4, <1>12 DEF ReconcilePack, Reconcile, Looking
  <2> QED BY <2>1, <1>1, <1>8, FoundIsFresh
<1>13. CASE ReconcileOutreach
  <2>1. /\ page = "outreach" /\ doing # None /\ back # None /\ reply # "saved" /\ back # Unread
        /\ view' = back /\ OnOutreach(back, doing) /\ LetGo(doing, "confirmed")
    BY <1>4, <1>13 DEF ReconcileOutreach, Reconcile, Looking
  <2> QED BY <2>1, <1>1, <1>8, FoundIsFresh
<1>14. ASSUME pending # None, LetGo(pending, "confirmed")
       PROVE  Subject(k) = pending /\ Meant(page, made, view.version, record, pending)
  BY <1>14, <1>1, <1>4 DEF Subject
<1>15. CASE ShowMaterials
  <2>1. /\ page = "materials" /\ glance # None /\ view' = glance
        /\ pending # None /\ OnMaterials(glance, pending) /\ LetGo(pending, "confirmed")
    BY <1>4, <1>15 DEF ShowMaterials, Show
  <2> QED BY <2>1, <1>1, <1>14, FoundIsFresh
<1>16. CASE ShowPack
  <2>1. /\ page = "pack" /\ glance # None /\ view' = glance
        /\ pending # None /\ OnPack(glance, pending) /\ LetGo(pending, "confirmed")
    BY <1>4, <1>16 DEF ShowPack, Show
  <2> QED BY <2>1, <1>1, <1>14, FoundIsFresh
<1>17. CASE ShowOutreach
  <2>1. /\ page = "outreach" /\ glance # None /\ view' = glance
        /\ pending # None /\ OnOutreach(glance, pending) /\ LetGo(pending, "confirmed")
    BY <1>4, <1>17 DEF ShowOutreach, Show
  <2> QED BY <2>1, <1>1, <1>14, FoundIsFresh
<1>18. CASE SettleProgress
  <2>1. /\ page = "progress" /\ doing # None /\ back # None /\ reply # "saved" /\ back # Unread
        /\ view' = back /\ Milestone(back, doing) /\ LetGo(doing, "confirmed")
    BY <1>4, <1>18 DEF SettleProgress, Settle, Looking
  <2> QED BY <2>1, <1>1, <1>8, FoundIsFresh
<1>19. CASE SettleReview
  <2>1. /\ page = "review" /\ doing # None /\ back # None /\ reply # "saved" /\ back # Unread
        /\ view' = back /\ Reviewed(back) /\ LetGo(doing, "confirmed")
    BY <1>4, <1>19 DEF SettleReview, Settle, Looking
  <2> QED BY <2>1, <1>1, <1>8, FoundIsFresh
<1>20. CASE ReconcilePeople
  <2>1. /\ page = "people" /\ doing # None /\ back # None /\ reply # "saved" /\ back # Unread
        /\ view' = back /\ Searched(back, doing) /\ LetGo(doing, "confirmed")
    BY <1>4, <1>20 DEF ReconcilePeople, Reconcile, Looking
  <2> QED BY <2>1, <1>1, <1>8, FoundIsFresh
<1>21. CASE ShowPeople
  <2>1. /\ page = "people" /\ glance # None /\ view' = glance
        /\ pending # None /\ Searched(glance, pending) /\ LetGo(pending, "confirmed")
    BY <1>4, <1>21 DEF ShowPeople, Show
  <2> QED BY <2>1, <1>1, <1>14, FoundIsFresh
<1> QED BY <1>2, <1>3, <1>5, <1>7, <1>9, <1>10, <1>11, <1>12, <1>13, <1>15, <1>16, <1>17, <1>18,
           <1>19, <1>20, <1>21 DEF UpdatesNext

\* The weekly review, the dossier and the workspace of applications, however answers are lost,
\* repeated or overtaken by what is read: what is put off is what was shown; a request that was
\* overtaken or met a conflict is not carried out afterwards, and one that was turned down only
\* by an attempt that went out before; what is called confirmed is new, and as asked in what
\* the page compares; and what is shown is not replaced by something older.
THEOREM WordsOfPages == ListsSpec /\ UpdatesSpec => PagesKeepTheirWord
<1>1. ListsInv /\ [ListsNext]_listVars =>
        [\A item \in shown, due \in ThisDay..Furthest :
           Postpone(item, due) => item.action = row[item.app].action]_listVars
  BY ShownIsOpen
<1>2. ListsSpec => PostponedAsShown
  BY <1>1, ListsAlways, PTL DEF ListsSpec, PostponedAsShown
<1>3. UpdatesInv /\ [UpdatesNext]_updateVars =>
        [\A t \in wire \ wire' : t.key \in landed' \ landed =>
           LET word == fate[t.key]
           IN  /\ word.told # "elsewhere"
               /\ word.told = "rejected" =>
                    word.reply # "conflict" /\ t.tries < word.tries]_updateVars
  BY NothingLands
<1>4. UpdatesSpec => OnlyEarlierAttemptsLand
  BY <1>3, UpdatesAlways, PTL DEF UpdatesSpec, OnlyEarlierAttemptsLand
<1>5. UpdatesInv /\ [UpdatesNext]_updateVars =>
        [\A k \in 1..MaxRequests : fate[k] = Untold /\ fate'[k].told = "confirmed" =>
           LET r == IF doing # None /\ doing.key = k THEN doing ELSE pending
           IN  \E e \in Fresh(view', r) : Amounts(e, r.asked)]_updateVars
  BY ConfirmedIsThere DEF Subject
<1>6. UpdatesSpec => ConfirmedIsNew
  BY <1>5, UpdatesAlways, PTL DEF UpdatesSpec, ConfirmedIsNew
<1>7. UpdatesInv /\ [UpdatesNext]_updateVars => [view'.version >= view.version]_updateVars
  BY NothingOlder
<1>8. UpdatesSpec => ShownNeverOlder
  BY <1>7, UpdatesAlways, PTL DEF UpdatesSpec, ShownNeverOlder
<1> QED BY <1>2, <1>4, <1>6, <1>8 DEF PagesKeepTheirWord

=============================================================================
