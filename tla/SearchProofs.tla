---------------------------- MODULE SearchProofs ----------------------------
(***************************************************************************)
(* Theorems about SourceFetch and ContactDiscovery: what is read from the  *)
(* boards of companies and from a search for people.                       *)
(*                                                                         *)
(* Boards: of a board that did not change since a fetch began, each        *)
(* posting a request would have returned is still to come, was listed, is  *)
(* among the roles, or is of a request that failed.  People: what is found *)
(* of a person are the readings of the results that were heard, and those  *)
(* are all there are as long as no lane failed or was cut.                 *)
(*                                                                         *)
(* Places, of PagesProofs, says that the members of a finite set have each *)
(* a place of their own in a strict order of all of them.                  *)
(***************************************************************************)
EXTENDS SourceFetch, ContactDiscovery, PagesProofs, WellFoundedInduction

\* Numbers have a least one: what is said of the first of something needs no other induction.
LEMMA LeastNat ==
  ASSUME NEW T \in SUBSET Nat, T # {}
  PROVE  \E n \in T : \A m \in T : n <= m
<1> DEFINE R == OpToRel(<, Nat)
<1>1. \E x \in T : \A y \in T : ~ (<<y, x>> \in R)
  BY NatLessThanWellFounded, WFMin
<1>2. \A x, y \in Nat : x < y => <<x, y>> \in R
  BY Zenon DEF OpToRel
<1> HIDE DEF R
<1>3. PICK x \in T : \A y \in T : ~ (<<y, x>> \in R)
  BY <1>1
<1>4. ASSUME NEW y \in T PROVE x <= y
  <2>1. x \in Nat /\ y \in Nat
    OBVIOUS
  <2>2. ~(y < x)
    BY <1>2, <1>3, <2>1
  <2> QED BY <2>1, <2>2
<1> QED BY <1>4

(***************************************************************************)
(* Sequences.                                                              *)
(***************************************************************************)
LEMMA Members ==
  ASSUME NEW S, NEW seq \in Seq(S)
  PROVE  /\ ToSet(seq) = Range(seq) /\ ToSet(seq) \subseteq S
         /\ \A p : p \in ToSet(seq) <=> \E i \in 1..Len(seq) : seq[i] = p
<1>1. seq \in [1..Len(seq) -> S] /\ DOMAIN seq = 1..Len(seq)
  BY LenProperties
<1> QED BY <1>1 DEF ToSet, Range

LEMMA MembersOfBoth ==
  ASSUME NEW S, NEW s \in Seq(S), NEW t \in Seq(S)
  PROVE  s \o t \in Seq(S) /\ ToSet(s \o t) = ToSet(s) \cup ToSet(t)
<1>1. s \o t \in Seq(S)
  BY ConcatProperties
<1>2. Range(s \o t) = Range(s) \cup Range(t)
  BY RangeConcatenation
<1> QED BY <1>1, <1>2, Members

LEMMA MembersOfAppended ==
  ASSUME NEW S, NEW s \in Seq(S), NEW e \in S
  PROVE  Append(s, e) \in Seq(S) /\ ToSet(Append(s, e)) = ToSet(s) \cup {e}
<1>1. Append(s, e) = s \o <<e>> /\ Append(s, e) \in Seq(S)
  BY AppendIsConcat, AppendProperties
<1>2. <<e>> \in Seq(S)
  OBVIOUS
<1>3. ToSet(<<e>>) = {e}
  BY DEF ToSet
<1>4. ToSet(s \o <<e>>) = ToSet(s) \cup ToSet(<<e>>)
  BY <1>2, MembersOfBoth
<1> QED BY <1>1, <1>3, <1>4

LEMMA HeadAndTail ==
  ASSUME NEW S, NEW s \in Seq(S), s # <<>>
  PROVE  /\ Head(s) \in S /\ Tail(s) \in Seq(S)
         /\ ToSet(s) = {Head(s)} \cup ToSet(Tail(s))
         /\ Len(s) # 1 => Tail(s) # <<>>
         /\ Len(s) = 1 => ToSet(Tail(s)) = {}
<1>1. /\ Head(s) \in S /\ Tail(s) \in Seq(S) /\ Len(Tail(s)) = Len(s) - 1
      /\ \A i \in 1..Len(Tail(s)) : Tail(s)[i] = s[i + 1]
  BY HeadTailProperties
<1>2. Len(s) \in Nat \ {0} /\ s[1] = Head(s)
  BY EmptySeq
<1> DEFINE n == Len(s)
           t == Tail(s)
<1>3. \A p : p \in ToSet(s) <=> \E i \in 1..n : s[i] = p
  BY Members
<1>4. \A p : p \in ToSet(t) <=> \E i \in 1..(n - 1) : s[i + 1] = p
  <2>1. \A p : p \in ToSet(t) <=> \E i \in 1..Len(t) : t[i] = p
    BY <1>1, Members
  <2> QED BY <1>1, <2>1
<1>5. t = <<>> => n = 1
  <2>1. Len(Tail(s)) = Len(s) - 1 /\ Len(s) \in Nat
    BY <1>1, <1>2
  <2>2. Len(<<>>) = 0
    BY EmptySeq
  <2>3. Tail(s) = <<>> => Len(Tail(s)) = 0
    BY <2>2, Zenon
  <2> QED BY <2>1, <2>3
<1>6. n \in Nat \ {0}
  BY <1>2
<1> HIDE DEF n, t
<1>7. ASSUME NEW p \in ToSet(s) PROVE p = Head(s) \/ p \in ToSet(t)
  <2>1. PICK i \in 1..n : s[i] = p
    BY <1>3, <1>7
  <2>2. i = 1 \/ (i - 1 \in 1..(n - 1) /\ (i - 1) + 1 = i)
    BY <1>6
  <2> QED BY <1>2, <1>4, <2>1, <2>2
<1>8. ASSUME NEW p, p = Head(s) \/ p \in ToSet(t) PROVE p \in ToSet(s)
  <2>1. CASE p = Head(s)
    BY <1>2, <1>3, <1>6, <2>1
  <2>2. CASE p \in ToSet(t)
    <3>1. PICK i \in 1..(n - 1) : s[i + 1] = p
      BY <1>4, <2>2
    <3>2. i + 1 \in 1..n
      BY <1>6
    <3> QED BY <1>3, <3>1, <3>2
  <2> QED BY <1>8, <2>1, <2>2
<1>9. n = 1 => ToSet(t) = {}
  BY <1>4
<1> QED BY <1>1, <1>5, <1>7, <1>8, <1>9 DEF n, t

LEMMA NthOf ==
  ASSUME NEW at \in SUBSET Int, IsFiniteSet(at)
  PROVE  /\ Cardinality(at) \in Nat
         /\ \A k \in 1..Cardinality(at) : Nth(at, k) \in at
         /\ \A i \in at : \E k \in 1..Cardinality(at) : Nth(at, k) = i
<1> DEFINE before == [i \in at |-> {j \in at : j < i}]
           Place(i) == Cardinality(before[i])
<1>1. PICK n \in Nat : n = Cardinality(at)
  BY FS_CardinalityType
<1>2. /\ before \in [at -> SUBSET at]
      /\ \A i, j \in at : j \in before[i] <=> j < i
  OBVIOUS
<1>3. \A k \in 1..n : Nth(at, k) = CHOOSE i \in at : Place(i) = k - 1
  BY DEF Nth
<1> HIDE DEF before
<1>4. /\ \A i \in at : i \notin before[i]
      /\ \A i, j \in at : i \in before[j] => before[i] \subseteq before[j]
      /\ \A i, j \in at : i # j => i \in before[j] \/ j \in before[i]
  <2>1. \A i \in at : i \notin before[i]
    BY <1>2
  <2>2. \A i, j \in at : i # j => i \in before[j] \/ j \in before[i]
    BY <1>2
  <2>3. ASSUME NEW i \in at, NEW j \in at, i \in before[j], NEW l \in before[i] PROVE l \in before[j]
    <3>1. l \in at /\ l < i /\ i < j
      BY <1>2, <2>3
    <3> QED BY <1>2, <3>1
  <2> QED BY <2>1, <2>2, <2>3
<1>5. /\ \A i \in at : Place(i) \in 0..(n - 1)
      /\ \A i, j \in at : Place(i) = Place(j) => i = j
      /\ \A k \in 0..(n - 1) : \E i \in at : Place(i) = k
  <2>1. /\ \A i \in at : Cardinality(before[i]) \in 0..(Cardinality(at) - 1)
        /\ \A i, j \in at : Cardinality(before[i]) = Cardinality(before[j]) => i = j
        /\ \A k \in 0..(Cardinality(at) - 1) : \E i \in at : Cardinality(before[i]) = k
    BY <1>2, <1>4, Places
  <2> QED BY <1>1, <2>1
<1> HIDE DEF Place
<1>6. ASSUME NEW k \in 1..n PROVE Nth(at, k) \in at /\ Place(Nth(at, k)) = k - 1
  <2>1. k - 1 \in 0..(n - 1)
    BY <1>6
  <2>2. \E i \in at : Place(i) = k - 1
    BY <1>5, <2>1
  <2> QED BY <1>3, <2>2
<1>7. ASSUME NEW i \in at PROVE \E k \in 1..n : Nth(at, k) = i
  <2>1. PICK k \in 1..n : k - 1 = Place(i)
    <3>1. PICK p \in 0..(n - 1) : p = Place(i)
      BY <1>5
    <3>2. p + 1 \in 1..n /\ (p + 1) - 1 = p
      BY <1>1
    <3> QED BY <3>1, <3>2
  <2> QED BY <1>5, <1>6, <2>1
<1> QED BY <1>1, <1>6, <1>7

LEMMA ThoseOf ==
  ASSUME NEW S, NEW seq \in Seq(S), NEW set
  PROVE  /\ Those(seq, set) \in Seq(S \cap set)
         /\ ToSet(Those(seq, set)) = ToSet(seq) \cap set
<1> DEFINE at == {i \in DOMAIN seq : seq[i] \in set}
<1>1. IsFiniteSet(at) /\ at \in SUBSET Int
  <2>1. DOMAIN seq = 1..Len(seq) /\ Len(seq) \in Nat
    BY LenProperties
  <2>2. IsFiniteSet(1..Len(seq)) /\ at \in SUBSET (1..Len(seq))
    BY <2>1, FS_Interval
  <2> QED BY <2>1, <2>2, FS_Subset
<1>2. PICK n \in Nat : /\ n = Cardinality(at)
                       /\ \A k \in 1..n : Nth(at, k) \in at
                       /\ \A i \in at : \E k \in 1..n : Nth(at, k) = i
  <2> HIDE DEF at
  <2> QED BY <1>1, NthOf
<1>3. \A i : i \in at <=> i \in 1..Len(seq) /\ seq[i] \in set
  BY LenProperties
<1>4. Those(seq, set) = [k \in 1..n |-> seq[Nth(at, k)]]
  BY <1>2 DEF Those
<1> HIDE DEF at
<1>5. Those(seq, set) \in [1..n -> S \cap set]
  <2>1. \A i \in at : seq[i] \in S \cap set
    BY <1>3, ElementOfSeq
  <2> QED BY <1>2, <1>4, <2>1
<1>6. Those(seq, set) \in Seq(S \cap set)
  BY <1>5, SeqDef
<1>7. ToSet(Those(seq, set)) = {seq[Nth(at, k)] : k \in 1..n}
  BY <1>4 DEF ToSet
<1>8. \A p : p \in ToSet(seq) <=> \E i \in 1..Len(seq) : seq[i] = p
  BY Members
<1>9. ASSUME NEW p \in ToSet(seq) \cap set PROVE p \in ToSet(Those(seq, set))
  <2>1. PICK i \in at : seq[i] = p
    BY <1>3, <1>8
  <2>2. PICK k \in 1..n : Nth(at, k) = i
    BY <1>2
  <2> QED BY <1>7, <2>1, <2>2
<1>10. ASSUME NEW p \in ToSet(Those(seq, set)) PROVE p \in ToSet(seq) \cap set
  <2>1. PICK k \in 1..n : p = seq[Nth(at, k)]
    BY <1>7
  <2>2. Nth(at, k) \in at
    BY <1>2
  <2> QED BY <1>3, <1>8, <2>1, <2>2
<1> QED BY <1>6, <1>9, <1>10

(***************************************************************************)
(* Boards.                                                                 *)
(***************************************************************************)
Fetches == [adapter : Adapters \cup {None}, at : {"idle", "list", "detail", "done"},
            todo : Seq(STRING), seen : Nat, listed : Seq(Ids), roles : Seq(Ids), failed : BOOLEAN]

FetchTyped ==
  /\ board \in Seq(Ids)
  /\ fetch \in Fetches /\ (fetch.at = "list" => fetch.todo # <<>>)
  /\ steady \in {{}, ToSet(board)}

Matches(p) == Hits[p] \cap ToSet(Keywords)

\* On a page that was not read yet.
ToCome(answer, p) == \E i \in DOMAIN answer : i > fetch.seen /\ answer[i] = p

KeywordsAsked ==
  Fetching("keyword", "list") =>
    \A p \in steady \cap Wanted : \A k \in Asked(p) :
      k \in ToSet(fetch.todo) \cup unanswered \/ p \in ToSet(fetch.roles)

OffsetsPassed ==
  Fetching("offset", "list") =>
    \A p \in steady : \A k \in Matches(p) :
      \/ k \in ToSet(Tail(fetch.todo)) \/ p \in ToSet(fetch.listed)
      \/ k = Head(fetch.todo) /\ ToCome(FoundBy(k), p)

TokensPassed ==
  Fetching("token", "list") =>
    \A p \in steady : Matches(p) # {} => p \in ToSet(fetch.listed) \/ ToCome(AnyFound, p)

DetailsRead ==
  fetch.at = "detail" =>
    /\ fetch.adapter \in {"offset", "token"}
    /\ \A p \in steady \cap Wanted : Matches(p) # {} =>
         p \in ToSet(fetch.listed) \cup ToSet(fetch.roles) \cup unanswered

ResultStands ==
  fetch.at = "done" /\ fetch.roles # <<>> =>
    \A p \in steady \cap Wanted : p \in ToSet(fetch.roles) \/ Asked(p) \subseteq unanswered

FetchInv ==
  FetchTyped /\ KeywordsAsked /\ OffsetsPassed /\ TokensPassed /\ DetailsRead /\ ResultStands

LEMMA FetchStart == FetchInit => FetchInv
<1> SUFFICES ASSUME FetchInit PROVE FetchInv
  OBVIOUS
<1>1. fetch = Idle /\ steady = {} /\ board \in Seq(Ids)
  BY BoardsAssumption DEF FetchInit
<1>2. FetchTyped
  BY <1>1 DEF FetchTyped, Fetches, Idle
<1> QED
  BY <1>1, <1>2 DEF FetchInv, KeywordsAsked, OffsetsPassed, TokensPassed, DetailsRead, ResultStands,
                    Fetching, Idle

\* What a request is answered with.
LEMMA AnswersHold ==
  ASSUME board \in Seq(Ids)
  PROVE  /\ \A k : /\ FoundBy(k) \in Seq(Ids)
                   /\ \A p \in ToSet(board) : k \in Hits[p] => \E i \in DOMAIN FoundBy(k) : FoundBy(k)[i] = p
         /\ AnyFound \in Seq(Ids)
         /\ \A p \in ToSet(board) : Matches(p) # {} => \E i \in DOMAIN AnyFound : AnyFound[i] = p
<1>1. ASSUME NEW set
      PROVE  /\ Those(board, set) \in Seq(Ids)
             /\ \A p \in ToSet(board) \cap set : \E i \in DOMAIN Those(board, set) : Those(board, set)[i] = p
  <2>1. Those(board, set) \in Seq(Ids \cap set) /\ ToSet(Those(board, set)) = ToSet(board) \cap set
    BY ThoseOf
  <2>2. Those(board, set) \in Seq(Ids)
    BY <2>1, SeqMonotonic
  <2> QED BY <2>1, <2>2 DEF ToSet
<1>2. ToSet(board) \subseteq Ids
  BY Members
<1> QED BY <1>1, <1>2 DEF FoundBy, AnyFound, Matches

LEMMA AnswersStay ==
  ASSUME board' = board
  PROVE  (\A k : FoundBy(k)' = FoundBy(k)) /\ AnyFound' = AnyFound
BY DEF FoundBy, AnyFound, Those, Nth

LEMMA FetchBegins ==
  ASSUME FetchInv, NEW adapter \in Adapters, BeginFetch(adapter)
  PROVE  FetchInv'
<1>1. /\ fetch' = [adapter |-> adapter, at |-> "list", todo |-> Keywords, seen |-> 0, listed |-> <<>>,
                   roles |-> <<>>, failed |-> FALSE]
      /\ steady' = ToSet(board) /\ board' = board
  BY DEF BeginFetch, Idle
<1>2. FetchTyped'
  BY <1>1, KeywordsAssumption DEF FetchInv, FetchTyped, Fetches
<1>3. board' \in Seq(Ids)
  BY <1>2 DEF FetchTyped
<1>4. KeywordsAsked'
  BY <1>1 DEF KeywordsAsked, Fetching, Asked
<1>5. OffsetsPassed'
  <2>1. ToSet(Keywords) = {Head(Keywords)} \cup ToSet(Tail(Keywords))
    BY KeywordsAssumption, HeadAndTail
  <2>2. ASSUME NEW p \in ToSet(board), NEW k \in Matches(p)
        PROVE  k \in ToSet(Tail(Keywords)) \/ (k = Head(Keywords) /\ ToCome(FoundBy(k), p)')
    <3>1. \E i \in DOMAIN FoundBy(k) : FoundBy(k)[i] = p
      BY <1>1, <1>3, AnswersHold DEF Matches
    <3>2. DOMAIN FoundBy(k) \subseteq Nat \ {0}
      <4>1. FoundBy(k) \in Seq(Ids)
        BY <1>1, <1>3, AnswersHold
      <4> QED BY <4>1, LenProperties
    <3>3. ToCome(FoundBy(k), p)'
      BY <1>1, <3>1, <3>2, AnswersStay DEF ToCome
    <3> QED BY <2>1, <3>3 DEF Matches
  <2> QED BY <1>1, <2>2 DEF OffsetsPassed, Matches
<1>6. TokensPassed'
  <2>1. ASSUME NEW p \in ToSet(board), Matches(p) # {} PROVE ToCome(AnyFound, p)'
    <3>1. \E i \in DOMAIN AnyFound : AnyFound[i] = p
      BY <1>1, <1>3, <2>1, AnswersHold
    <3>2. DOMAIN AnyFound \subseteq Nat \ {0}
      <4>1. AnyFound \in Seq(Ids)
        BY <1>1, <1>3, AnswersHold
      <4> QED BY <4>1, LenProperties
    <3> QED BY <1>1, <3>1, <3>2, AnswersStay DEF ToCome
  <2> QED BY <1>1, <2>1 DEF TokensPassed, Matches
<1>7. DetailsRead' /\ ResultStands'
  BY <1>1 DEF DetailsRead, ResultStands
<1> QED BY <1>2, <1>4, <1>5, <1>6, <1>7 DEF FetchInv

LEMMA CompanyChanges ==
  ASSUME FetchInv, Change
  PROVE  FetchInv'
<1>1. steady' = {} /\ fetch' = fetch
  BY DEF Change
<1>2. board' \in Seq(Ids)
  <2>1. CASE \E p \in Ids \ ToSet(board) : board' = <<p>> \o board
    <3>1. PICK p \in Ids : board' = <<p>> \o board
      BY <2>1
    <3>2. <<p>> \in Seq(Ids) /\ board \in Seq(Ids)
      BY DEF FetchInv, FetchTyped
    <3> QED BY <3>1, <3>2, ConcatProperties
  <2>2. CASE \E i \in DOMAIN board : board' = RemoveAt(board, i)
    <3>1. PICK i \in DOMAIN board : board' = SubSeq(board, 1, i - 1) \o SubSeq(board, i + 1, Len(board))
      BY <2>2 DEF RemoveAt
    <3>2. board \in Seq(Ids)
      BY DEF FetchInv, FetchTyped
    <3>3. /\ i \in 1..Len(board) /\ Len(board) \in Nat
          /\ \A j \in 1..Len(board) : board[j] \in Ids
      BY <3>2, LenProperties, ElementOfSeq
    <3>4. SubSeq(board, 1, i - 1) \in Seq(Ids) /\ SubSeq(board, i + 1, Len(board)) \in Seq(Ids)
      <4>1. /\ 1 \in Int /\ i - 1 \in Int /\ \A j \in 1..(i - 1) : board[j] \in Ids
            /\ i + 1 \in Int /\ Len(board) \in Int /\ \A j \in (i + 1)..Len(board) : board[j] \in Ids
        BY <3>3
      <4> QED BY <4>1, SubSeqProperties
    <3> QED BY <3>1, <3>4, ConcatProperties
  <2> QED BY <2>1, <2>2 DEF Change
<1>3. FetchTyped'
  BY <1>1, <1>2 DEF FetchInv, FetchTyped
<1>4. KeywordsAsked' /\ OffsetsPassed' /\ TokensPassed'
  BY <1>1 DEF KeywordsAsked, OffsetsPassed, TokensPassed
<1>5. DetailsRead' /\ ResultStands'
  BY <1>1 DEF FetchInv, DetailsRead, ResultStands
<1> QED BY <1>3, <1>4, <1>5 DEF FetchInv

LEMMA Paging ==
  ASSUME NEW answer \in Seq(Ids), NEW seen \in Nat, NEW rest \in {SubSeq(answer, seen + 1, Len(answer))},
         NEW n \in 0..Len(rest), NEW part \in {SubSeq(rest, 1, n)}
  PROVE  /\ part \in Seq(Ids) /\ Len(part) = n /\ (part = <<>> => n = 0)
         /\ \A i \in 1..Len(answer) : i > seen /\ i <= seen + n => answer[i] \in ToSet(part)
         /\ rest = <<>> \/ n = Len(rest) => Len(answer) <= seen + n
<1>1. Len(answer) \in Nat /\ \A i \in 1..Len(answer) : answer[i] \in Ids
  BY LenProperties, ElementOfSeq
<1>2. /\ rest \in Seq(Ids)
      /\ Len(rest) = IF seen + 1 <= Len(answer) THEN Len(answer) - (seen + 1) + 1 ELSE 0
      /\ \A i \in 1..(Len(answer) - (seen + 1) + 1) : rest[i] = answer[seen + 1 + i - 1]
  <2>1. \A i \in (seen + 1)..Len(answer) : answer[i] \in Ids
    BY <1>1
  <2>2. seen + 1 \in Int /\ Len(answer) \in Int
    BY <1>1
  <2> DEFINE later == SubSeq(answer, seen + 1, Len(answer))
  <2>3. /\ later \in Seq(Ids)
        /\ Len(later) = IF seen + 1 <= Len(answer) THEN Len(answer) - (seen + 1) + 1 ELSE 0
        /\ \A i \in 1..(Len(answer) - (seen + 1) + 1) : later[i] = answer[seen + 1 + i - 1]
    BY <2>1, <2>2, SubSeqProperties
  <2>4. rest = later
    OBVIOUS
  <2> QED BY <2>3, <2>4, Zenon
<1>3. /\ part \in Seq(Ids) /\ Len(part) = (IF 1 <= n THEN n - 1 + 1 ELSE 0)
      /\ \A i \in 1..(n - 1 + 1) : part[i] = rest[1 + i - 1]
  <2>1. \A i \in 1..n : rest[i] \in Ids
    BY <1>1, <1>2
  <2> QED BY <2>1, SubSeqProperties
<1>4. Len(part) = n
  BY <1>3
<1>5. Len(<<>>) = 0
  BY EmptySeq
<1>6. (part = <<>> => Len(part) = 0) /\ (rest = <<>> => Len(rest) = 0)
  BY <1>5, Zenon
<1>7. ASSUME NEW i \in 1..Len(answer), i > seen, i <= seen + n PROVE answer[i] \in ToSet(part)
  <2>1. PICK j \in 1..n : i = seen + j
    <3>1. i - seen \in 1..n /\ i = seen + (i - seen)
      BY <1>1, <1>7
    <3> QED BY <3>1
  <2>2. /\ j \in 1..(n - 1 + 1) /\ 1 + j - 1 = j
        /\ j \in 1..(Len(answer) - (seen + 1) + 1) /\ seen + 1 + j - 1 = i
    BY <1>1, <1>7, <2>1
  <2>3. part[j] = rest[j]
    <3>1. part[j] = rest[1 + j - 1]
      BY <1>3, <2>2
    <3> QED BY <2>2, <3>1
  <2>4. rest[j] = answer[i]
    <3>1. rest[j] = answer[seen + 1 + j - 1]
      BY <1>2, <2>2
    <3> QED BY <2>2, <3>1
  <2>5. \E k \in 1..Len(part) : part[k] = answer[i]
    BY <1>4, <2>1, <2>3, <2>4
  <2>6. \A p : p \in ToSet(part) <=> \E k \in 1..Len(part) : part[k] = p
    <3>1. part \in Seq(Ids)
      BY <1>3
    <3> QED BY <3>1, Members
  <2> QED BY <2>5, <2>6
<1>8. rest = <<>> \/ n = Len(rest) => Len(answer) <= seen + n
  BY <1>1, <1>2, <1>6
<1> QED BY <1>3, <1>4, <1>6, <1>7, <1>8

LEMMA MembersAppended ==
  ASSUME NEW seq \in Seq(Ids), NEW part \in Seq(Ids)
  PROVE  /\ Joined(seq, part) \in Seq(Ids)
         /\ ToSet(Joined(seq, part)) = ToSet(seq) \cup ToSet(part)
<1>1. /\ Those(part, Unlisted(seq)) \in Seq(Ids \cap Unlisted(seq))
      /\ ToSet(Those(part, Unlisted(seq))) = ToSet(part) \cap Unlisted(seq)
  BY ThoseOf
<1>2. Those(part, Unlisted(seq)) \in Seq(Ids)
  BY <1>1, SeqMonotonic
<1>3. ToSet(part) \subseteq Ids
  BY Members
<1>4. /\ seq \o Those(part, Unlisted(seq)) \in Seq(Ids)
      /\ ToSet(seq \o Those(part, Unlisted(seq))) = ToSet(seq) \cup ToSet(Those(part, Unlisted(seq)))
  BY <1>2, MembersOfBoth
<1> QED BY <1>1, <1>3, <1>4 DEF Joined, Unlisted

LEMMA SuitedOf ==
  ASSUME NEW seq \in Seq(Ids)
  PROVE  Suited(seq) \in Seq(Ids) /\ ToSet(Suited(seq)) = ToSet(seq) \cap Wanted
<1>1. /\ Those(seq, Wanted) \in Seq(Ids \cap Wanted)
      /\ ToSet(Those(seq, Wanted)) = ToSet(seq) \cap Wanted
  BY ThoseOf
<1>2. Those(seq, Wanted) \in Seq(Ids)
  BY <1>1, SeqMonotonic
<1> QED BY <1>1, <1>2 DEF Suited

LEMMA BoardRead ==
  ASSUME FetchInv, Board
  PROVE  FetchInv'
<1>1. board \in Seq(Ids) /\ fetch \in Fetches /\ steady \in {{}, ToSet(board)} /\ Fetching("board", "list")
  BY DEF FetchInv, FetchTyped, Board
<1>2. /\ fetch' = [fetch EXCEPT !.at = "done", !.roles = Suited(board)]
      /\ board' = board /\ steady' = steady /\ unanswered' = unanswered
  BY DEF Board, Returns, world
<1>3. Suited(board) \in Seq(Ids) /\ ToSet(Suited(board)) = ToSet(board) \cap Wanted
  BY <1>1, SuitedOf
<1>4. FetchTyped'
  BY <1>1, <1>2, <1>3 DEF FetchTyped, Fetches
<1>5. fetch'.at = "done" /\ fetch'.roles = Suited(board)
  BY <1>1, <1>2 DEF Fetches
<1>6. KeywordsAsked' /\ OffsetsPassed' /\ TokensPassed' /\ DetailsRead'
  BY <1>5 DEF KeywordsAsked, OffsetsPassed, TokensPassed, DetailsRead, Fetching
<1>7. ResultStands'
  BY <1>1, <1>2, <1>3, <1>5 DEF ResultStands
<1> QED BY <1>4, <1>6, <1>7 DEF FetchInv

LEMMA OffsetRead ==
  ASSUME FetchInv, OffsetPage
  PROVE  FetchInv'
<1>1. /\ board \in Seq(Ids) /\ fetch \in Fetches /\ steady \in {{}, ToSet(board)}
      /\ Fetching("offset", "list") /\ fetch.todo # <<>> /\ OffsetsPassed
      /\ board' = board /\ steady' = steady /\ unanswered' = unanswered
  BY DEF FetchInv, FetchTyped, OffsetPage, Fetching, world
<1> DEFINE todo == fetch.todo
           seen == fetch.seen
           answer == FoundBy(Head(todo))
           rest == SubSeq(answer, seen + 1, Len(answer))
<1>2. PICK n \in 0..PageLength :
        /\ n <= Len(rest) /\ (n = 0 => rest = <<>>)
        /\ LET part == SubSeq(rest, 1, n)
               read == [fetch EXCEPT !.listed = Joined(@, part), !.seen = Further(@, part)]
           IN  fetch' = IF read.seen >= Len(answer) \/ part = <<>> THEN NextKeyword(read) ELSE read
  BY DEF OffsetPage
<1> DEFINE part == SubSeq(rest, 1, n)
           gathered == Joined(fetch.listed, part)
           read == [fetch EXCEPT !.listed = gathered, !.seen = seen + Len(part)]
<1>3. /\ fetch.adapter = "offset" /\ fetch.at = "list" /\ todo \in Seq(STRING) /\ todo # <<>>
      /\ seen \in Nat /\ fetch.listed \in Seq(Ids) /\ n \in Nat
  BY <1>1, PagesAssumption DEF Fetches, Fetching
<1>4. answer \in Seq(Ids)
  BY <1>1, AnswersHold
<1>5. /\ part \in Seq(Ids) /\ Len(part) = n /\ (part = <<>> => n = 0)
      /\ \A i \in 1..Len(answer) : i > seen /\ i <= seen + n => answer[i] \in ToSet(part)
      /\ rest = <<>> \/ n = Len(rest) => Len(answer) <= seen + n
  <2>1. answer \in Seq(Ids) /\ seen \in Nat
    BY <1>3, <1>4
  <2>2. /\ rest \in {SubSeq(answer, seen + 1, Len(answer))} /\ part \in {SubSeq(rest, 1, n)}
    OBVIOUS
  <2>3. n \in 0..Len(rest)
    <3>1. rest \in Seq(Ids)
      <4> HIDE DEF answer, seen
      <4>1. \A i \in (seen + 1)..Len(answer) : answer[i] \in Ids
        BY <2>1, LenProperties, ElementOfSeq
      <4>2. seen + 1 \in Int /\ Len(answer) \in Int
        BY <2>1, LenProperties
      <4> QED BY <4>1, <4>2, SubSeqProperties
    <3> HIDE DEF rest
    <3> QED BY <1>2, <1>3, <3>1, LenProperties
  <2> HIDE DEF answer, seen, rest, part
  <2> QED BY <2>1, <2>2, <2>3, Paging
<1>6. gathered \in Seq(Ids) /\ ToSet(gathered) = ToSet(fetch.listed) \cup ToSet(part)
  BY <1>3, <1>5, MembersAppended
<1>7. fetch' = IF read.seen >= Len(answer) \/ part = <<>> THEN NextKeyword(read) ELSE read
  BY <1>2 DEF Further
<1>8. /\ read \in Fetches /\ read.seen = seen + n /\ read.todo = todo /\ read.listed = gathered
      /\ read.adapter = "offset" /\ read.at = "list" /\ read.roles = fetch.roles
  <2>1. read = [fetch EXCEPT !.listed = gathered, !.seen = seen + Len(part)]
    OBVIOUS
  <2>2. seen + Len(part) = seen + n /\ seen + n \in Nat
    <3> HIDE DEF part, seen
    <3> QED BY <1>3, <1>5
  <2>3. todo = fetch.todo
    OBVIOUS
  <2> HIDE DEF part, gathered, read, seen, todo
  <2> QED BY <1>1, <1>3, <1>6, <2>1, <2>2, <2>3 DEF Fetches
<1>9. /\ Tail(todo) \in Seq(STRING) /\ ToSet(todo) = {Head(todo)} \cup ToSet(Tail(todo))
      /\ (Len(todo) # 1 => Tail(todo) # <<>>) /\ (Len(todo) = 1 => ToSet(Tail(todo)) = {})
  BY <1>3, HeadAndTail
<1>10. DOMAIN answer = 1..Len(answer) /\ Len(answer) \in Nat
  BY <1>4, LenProperties
<1>11. \A p \in steady : \A k \in Matches(p) :
         \/ k \in ToSet(Tail(todo)) \/ p \in ToSet(fetch.listed)
         \/ k = Head(todo) /\ ToCome(answer, p)
  BY <1>1 DEF OffsetsPassed
<1> HIDE DEF todo, seen, answer, rest, part, gathered, read
<1>12. CASE fetch' = read /\ ~(read.seen >= Len(answer))
  <2>1. FetchTyped'
    BY <1>1, <1>3, <1>8, <1>12 DEF FetchTyped
  <2>2. ASSUME NEW p \in steady, ToCome(answer, p)
        PROVE  p \in ToSet(gathered) \/ \E i \in DOMAIN answer : i > seen + n /\ answer[i] = p
    <3>1. PICK i \in DOMAIN answer : i > seen /\ answer[i] = p
      BY <2>2 DEF ToCome, seen
    <3>2. i <= seen + n \/ i > seen + n
      BY <1>3, <1>10
    <3> QED BY <1>5, <1>6, <1>10, <3>1, <3>2
  <2>3. ASSUME NEW p \in steady, NEW k \in Matches(p)
        PROVE  \/ k \in ToSet(Tail(todo)) \/ p \in ToSet(gathered)
               \/ k = Head(todo) /\ ToCome(FoundBy(k), p)'
    <3>1. CASE k = Head(todo) /\ ToCome(answer, p)
      <4>1. p \in ToSet(gathered) \/ \E i \in DOMAIN answer : i > seen + n /\ answer[i] = p
        BY <2>2, <3>1
      <4>2. FoundBy(k)' = answer
        BY <1>1, <3>1, AnswersStay DEF answer
      <4>3. fetch'.seen = seen + n
        BY <1>8, <1>12
      <4> QED BY <3>1, <4>1, <4>2, <4>3 DEF ToCome
    <3>2. CASE k \in ToSet(Tail(todo)) \/ p \in ToSet(fetch.listed)
      BY <1>6, <3>2
    <3> QED BY <1>11, <3>1, <3>2
  <2>4. OffsetsPassed'
    BY <1>1, <1>8, <1>12, <2>3 DEF OffsetsPassed, Matches
  <2>5. KeywordsAsked' /\ TokensPassed' /\ DetailsRead' /\ ResultStands'
    BY <1>8, <1>12 DEF KeywordsAsked, TokensPassed, DetailsRead, ResultStands, Fetching
  <2> QED BY <2>1, <2>4, <2>5 DEF FetchInv
<1>13. CASE fetch' = NextKeyword(read) /\ (read.seen >= Len(answer) \/ part = <<>>)
  <2>1. Len(answer) <= seen + n
    <3>1. CASE part = <<>>
      BY <1>2, <1>5, <3>1 DEF rest, seen, answer, todo
    <3>2. CASE read.seen >= Len(answer)
      BY <1>3, <1>8, <1>10, <3>2
    <3> QED BY <1>13, <3>1, <3>2
  <2>2. ASSUME NEW p \in steady, NEW k \in Matches(p)
        PROVE  k \in ToSet(Tail(todo)) \/ p \in ToSet(gathered)
    <3>1. CASE k = Head(todo) /\ ToCome(answer, p)
      <4>1. PICK i \in DOMAIN answer : i > seen /\ answer[i] = p
        BY <3>1 DEF ToCome, seen
      <4>2. i <= seen + n
        BY <1>3, <1>10, <2>1
      <4> QED BY <1>5, <1>6, <1>10, <4>1, <4>2
    <3>2. CASE k \in ToSet(Tail(todo)) \/ p \in ToSet(fetch.listed)
      BY <1>6, <3>2
    <3> QED BY <1>11, <3>1, <3>2
  <2>3. CASE Len(todo) = 1
    <3>1. fetch' = [read EXCEPT !.at = "detail"]
      BY <1>8, <1>13, <2>3 DEF NextKeyword
    <3>2. /\ fetch' \in Fetches /\ fetch'.at = "detail" /\ fetch'.listed = gathered
          /\ fetch'.adapter = "offset"
      BY <1>8, <3>1 DEF Fetches
    <3>3. FetchTyped'
      BY <1>1, <3>2 DEF FetchTyped
    <3>4. DetailsRead'
      BY <1>1, <1>9, <2>2, <2>3, <3>2 DEF DetailsRead, Matches
    <3>5. KeywordsAsked' /\ OffsetsPassed' /\ TokensPassed' /\ ResultStands'
      BY <3>2 DEF KeywordsAsked, OffsetsPassed, TokensPassed, ResultStands, Fetching
    <3> QED BY <3>3, <3>4, <3>5 DEF FetchInv
  <2>4. CASE Len(todo) # 1
    <3>1. fetch' = [read EXCEPT !.todo = Tail(todo), !.seen = 0]
      BY <1>8, <1>13, <2>4 DEF NextKeyword
    <3>2. /\ fetch' \in Fetches /\ fetch'.at = "list" /\ fetch'.listed = gathered
          /\ fetch'.adapter = "offset" /\ fetch'.todo = Tail(todo) /\ fetch'.seen = 0
      BY <1>8, <1>9, <3>1 DEF Fetches
    <3>3. FetchTyped'
      BY <1>1, <1>9, <2>4, <3>2 DEF FetchTyped
    <3>4. ToSet(Tail(todo)) = {Head(Tail(todo))} \cup ToSet(Tail(Tail(todo)))
      BY <1>9, <2>4, HeadAndTail
    <3>5. ASSUME NEW p \in steady, NEW k \in Matches(p)
          PROVE  ToCome(FoundBy(k), p)'
      <4>1. \E i \in DOMAIN FoundBy(k) : FoundBy(k)[i] = p
        BY <1>1, AnswersHold DEF Matches
      <4>2. DOMAIN FoundBy(k) \subseteq Nat \ {0}
        <5>1. FoundBy(k) \in Seq(Ids)
          BY <1>1, AnswersHold
        <5> QED BY <5>1, LenProperties
      <4> QED BY <1>1, <3>2, <4>1, <4>2, AnswersStay DEF ToCome
    <3>6. OffsetsPassed'
      BY <1>1, <2>2, <3>2, <3>4, <3>5 DEF OffsetsPassed, Matches
    <3>7. KeywordsAsked' /\ TokensPassed' /\ DetailsRead' /\ ResultStands'
      BY <3>2 DEF KeywordsAsked, TokensPassed, DetailsRead, ResultStands, Fetching
    <3> QED BY <3>3, <3>6, <3>7 DEF FetchInv
  <2> QED BY <2>3, <2>4
<1> QED BY <1>7, <1>12, <1>13

LEMMA TokenRead ==
  ASSUME FetchInv, TokenPage
  PROVE  FetchInv'
<1>1. /\ board \in Seq(Ids) /\ fetch \in Fetches /\ steady \in {{}, ToSet(board)}
      /\ Fetching("token", "list") /\ fetch.todo # <<>> /\ TokensPassed
      /\ board' = board /\ steady' = steady /\ unanswered' = unanswered
  BY DEF FetchInv, FetchTyped, TokenPage, Fetching, world
<1> DEFINE seen == fetch.seen
           rest == SubSeq(AnyFound, seen + 1, Len(AnyFound))
<1>2. PICK n \in 0..PageLength :
        /\ n <= Len(rest)
        /\ fetch' = [fetch EXCEPT !.listed = @ \o SubSeq(rest, 1, n), !.seen = @ + n,
                                  !.at = IF n = Len(rest) THEN "detail" ELSE @]
  BY DEF TokenPage
<1> DEFINE part == SubSeq(rest, 1, n)
           gathered == fetch.listed \o part
<1>3. fetch.adapter = "token" /\ fetch.at = "list" /\ seen \in Nat /\ fetch.listed \in Seq(Ids) /\ n \in Nat
  BY <1>1, PagesAssumption DEF Fetches, Fetching
<1>4. AnyFound \in Seq(Ids)
  BY <1>1, AnswersHold
<1>5. /\ part \in Seq(Ids)
      /\ \A i \in 1..Len(AnyFound) : i > seen /\ i <= seen + n => AnyFound[i] \in ToSet(part)
      /\ n = Len(rest) => Len(AnyFound) <= seen + n
  <2>1. /\ rest \in {SubSeq(AnyFound, seen + 1, Len(AnyFound))} /\ part \in {SubSeq(rest, 1, n)}
    OBVIOUS
  <2>2. n \in 0..Len(rest)
    <3>1. rest \in Seq(Ids)
      <4> HIDE DEF seen
      <4>1. \A i \in (seen + 1)..Len(AnyFound) : AnyFound[i] \in Ids
        BY <1>3, <1>4, LenProperties, ElementOfSeq
      <4>2. seen + 1 \in Int /\ Len(AnyFound) \in Int
        BY <1>3, <1>4, LenProperties
      <4> QED BY <4>1, <4>2, SubSeqProperties
    <3> HIDE DEF rest
    <3> QED BY <1>2, <1>3, <3>1, LenProperties
  <2>3. AnyFound \in Seq(Ids) /\ seen \in Nat
    BY <1>3, <1>4
  <2> HIDE DEF seen, rest, part
  <2>4. /\ part \in Seq(Ids) /\ Len(part) = n /\ (part = <<>> => n = 0)
        /\ \A i \in 1..Len(AnyFound) : i > seen /\ i <= seen + n => AnyFound[i] \in ToSet(part)
        /\ rest = <<>> \/ n = Len(rest) => Len(AnyFound) <= seen + n
    BY <2>1, <2>2, <2>3, Paging
  <2> QED BY <2>4
<1>6. gathered \in Seq(Ids) /\ ToSet(gathered) = ToSet(fetch.listed) \cup ToSet(part)
  <2> HIDE DEF part
  <2> QED BY <1>3, <1>5, MembersOfBoth
<1>7. /\ fetch' = [fetch EXCEPT !.listed = gathered, !.seen = seen + n,
                                !.at = IF n = Len(rest) THEN "detail" ELSE "list"]
      /\ seen = fetch.seen
  BY <1>2, <1>3
<1>8. DOMAIN AnyFound = 1..Len(AnyFound) /\ Len(AnyFound) \in Nat
  BY <1>4, LenProperties
<1>9. \A p \in steady : Matches(p) # {} => p \in ToSet(fetch.listed) \/ ToCome(AnyFound, p)
  BY <1>1 DEF TokensPassed
<1> HIDE DEF seen, rest, part, gathered
<1>10. /\ fetch' \in Fetches /\ fetch'.adapter = "token" /\ fetch'.listed = gathered
       /\ fetch'.seen = seen + n /\ fetch'.todo = fetch.todo
       /\ fetch'.at = IF n = Len(rest) THEN "detail" ELSE "list"
  <2>1. seen + n \in Nat
    BY <1>3
  <2> QED BY <1>1, <1>3, <1>6, <1>7, <2>1 DEF Fetches
<1>11. FetchTyped'
  BY <1>1, <1>10 DEF FetchTyped
<1>12. ASSUME NEW p \in steady, ToCome(AnyFound, p)
       PROVE  p \in ToSet(gathered) \/ \E i \in DOMAIN AnyFound : i > seen + n /\ AnyFound[i] = p
  <2>1. PICK i \in DOMAIN AnyFound : i > seen /\ AnyFound[i] = p
    BY <1>7, <1>12 DEF ToCome
  <2>2. i <= seen + n \/ i > seen + n
    BY <1>3, <1>8
  <2> QED BY <1>5, <1>6, <1>8, <2>1, <2>2
<1>13. TokensPassed'
  <2>1. ASSUME NEW p \in steady, Matches(p) # {} PROVE p \in ToSet(gathered) \/ ToCome(AnyFound, p)'
    <3>1. CASE p \in ToSet(fetch.listed)
      BY <1>6, <3>1
    <3>2. CASE ToCome(AnyFound, p)
      BY <1>1, <1>10, <1>12, <3>2, AnswersStay DEF ToCome
    <3> QED BY <1>9, <2>1, <3>1, <3>2
  <2> QED BY <1>1, <1>10, <2>1 DEF TokensPassed, Matches
<1>14. DetailsRead'
  <2>1. ASSUME n = Len(rest), NEW p \in steady, Matches(p) # {} PROVE p \in ToSet(gathered)
    <3>1. CASE p \in ToSet(fetch.listed)
      BY <1>6, <3>1
    <3>2. CASE ToCome(AnyFound, p)
      <4>1. ~ \E i \in DOMAIN AnyFound : i > seen + n
        BY <1>3, <1>5, <1>8, <2>1
      <4> QED BY <1>12, <3>2, <4>1
    <3> QED BY <1>9, <2>1, <3>1, <3>2
  <2> QED BY <1>1, <1>10, <2>1 DEF DetailsRead, Matches
<1>15. KeywordsAsked' /\ OffsetsPassed' /\ ResultStands'
  BY <1>10 DEF KeywordsAsked, OffsetsPassed, ResultStands, Fetching
<1> QED BY <1>11, <1>13, <1>14, <1>15 DEF FetchInv

\* A fetch that ends with nothing, or not at all.
LEMMA NothingRead ==
  ASSUME FetchInv, board' = board, steady' = steady, fetch' \in Fetches,
         (fetch'.at = "done" /\ fetch'.roles = <<>>) \/ fetch'.at = "idle"
  PROVE  FetchInv'
<1>1. FetchTyped'
  BY DEF FetchInv, FetchTyped
<1> QED
  BY <1>1 DEF FetchInv, KeywordsAsked, OffsetsPassed, TokensPassed, DetailsRead, ResultStands, Fetching

LEMMA FetchEnds ==
  ASSUME FetchInv, FailedList \/ Raise \/ Crash \/ KeepResult
  PROVE  FetchInv'
<1>1. fetch \in Fetches /\ <<>> \in Seq(Ids) /\ <<>> \in Seq(STRING)
  BY DEF FetchInv, FetchTyped
<1>2. board' = board /\ steady' = steady
  BY DEF FailedList, Raise, Crash, KeepResult, world
<1>3. \/ fetch' = [fetch EXCEPT !.at = "done", !.roles = <<>>]
      \/ fetch' = [[fetch EXCEPT !.at = "done", !.roles = <<>>] EXCEPT !.failed = TRUE]
      \/ fetch' = Idle
  BY DEF FailedList, ListingFailed, Raise, Crash, KeepResult, Returns
<1>4. fetch' \in Fetches /\ ((fetch'.at = "done" /\ fetch'.roles = <<>>) \/ fetch'.at = "idle")
  <2>1. Idle \in Fetches /\ Idle.at = "idle"
    BY <1>1 DEF Fetches, Idle
  <2>2. CASE fetch' = [fetch EXCEPT !.at = "done", !.roles = <<>>]
    BY <1>1, <2>2 DEF Fetches
  <2>3. CASE fetch' = [[fetch EXCEPT !.at = "done", !.roles = <<>>] EXCEPT !.failed = TRUE]
    BY <1>1, <2>3 DEF Fetches
  <2> QED BY <1>3, <2>1, <2>2, <2>3
<1> QED BY <1>2, <1>4, NothingRead

LEMMA DetailOfOne ==
  ASSUME FetchInv, Detail \/ FailedDetail
  PROVE  FetchInv'
<1>1. /\ board \in Seq(Ids) /\ fetch \in Fetches /\ steady \in {{}, ToSet(board)}
      /\ fetch.at = "detail" /\ fetch.adapter \in {"offset", "token"}
      /\ fetch.listed \in Seq(Ids) /\ fetch.roles \in Seq(Ids)
      /\ board' = board /\ steady' = steady
      /\ \A p \in steady \cap Wanted : Matches(p) # {} =>
           p \in ToSet(fetch.listed) \cup ToSet(fetch.roles) \cup unanswered
  BY DEF FetchInv, FetchTyped, DetailsRead, Detail, FailedDetail, world, Fetches
<1>2. CASE Detail /\ fetch.listed = <<>>
  <2>1. fetch' = [fetch EXCEPT !.at = "done", !.roles = fetch.roles] /\ unanswered' = unanswered
    BY <1>2 DEF Detail, Returns
  <2>2. /\ fetch' \in Fetches /\ fetch'.at = "done" /\ fetch'.roles = fetch.roles
        /\ fetch'.adapter \in {"offset", "token"}
    BY <1>1, <2>1 DEF Fetches
  <2>3. FetchTyped'
    BY <1>1, <2>2 DEF FetchTyped
  <2>4. ToSet(fetch.listed) = {}
    BY <1>2 DEF ToSet
  <2>5. ASSUME NEW p \in steady \cap Wanted
        PROVE  p \in ToSet(fetch.roles) \/ Asked(p)' \subseteq unanswered
    <3>1. Asked(p)' = IF Matches(p) # {} THEN {p} ELSE {}
      BY <2>2 DEF Asked, Matches
    <3> QED BY <1>1, <2>4, <3>1
  <2>6. ResultStands'
    BY <1>1, <2>1, <2>2, <2>5 DEF ResultStands
  <2>7. KeywordsAsked' /\ OffsetsPassed' /\ TokensPassed' /\ DetailsRead'
    BY <2>2 DEF KeywordsAsked, OffsetsPassed, TokensPassed, DetailsRead, Fetching
  <2> QED BY <2>3, <2>6, <2>7 DEF FetchInv
<1>3. ASSUME fetch.listed # <<>>, NEW roles \in Seq(Ids),
             fetch' = [fetch EXCEPT !.listed = Tail(fetch.listed), !.roles = roles],
             ToSet(fetch.roles) \subseteq ToSet(roles), unanswered \subseteq unanswered',
             Head(fetch.listed) \in steady \cap Wanted => Head(fetch.listed) \in ToSet(roles) \cup unanswered'
      PROVE  FetchInv'
  <2>1. /\ Tail(fetch.listed) \in Seq(Ids)
        /\ ToSet(fetch.listed) = {Head(fetch.listed)} \cup ToSet(Tail(fetch.listed))
    BY <1>1, <1>3, HeadAndTail
  <2>2. /\ fetch' \in Fetches /\ fetch'.at = "detail" /\ fetch'.roles = roles
        /\ fetch'.listed = Tail(fetch.listed) /\ fetch'.adapter \in {"offset", "token"}
    BY <1>1, <1>3, <2>1 DEF Fetches
  <2>3. FetchTyped'
    BY <1>1, <2>2 DEF FetchTyped
  <2>4. DetailsRead'
    BY <1>1, <1>3, <2>1, <2>2 DEF DetailsRead, Matches
  <2>5. KeywordsAsked' /\ OffsetsPassed' /\ TokensPassed' /\ ResultStands'
    BY <2>2 DEF KeywordsAsked, OffsetsPassed, TokensPassed, ResultStands, Fetching
  <2> QED BY <2>3, <2>4, <2>5 DEF FetchInv
<1>4. CASE Detail /\ fetch.listed # <<>>
  <2> DEFINE p == Head(fetch.listed)
             roles == IF p \in ToSet(board) \cap Wanted THEN Append(fetch.roles, p) ELSE fetch.roles
  <2>1. fetch' = [fetch EXCEPT !.listed = Tail(fetch.listed), !.roles = roles] /\ unanswered' = unanswered
    BY <1>4 DEF Detail
  <2>2. p \in Ids
    BY <1>1, <1>4, HeadAndTail
  <2>3. Append(fetch.roles, p) \in Seq(Ids) /\ ToSet(Append(fetch.roles, p)) = ToSet(fetch.roles) \cup {p}
    BY <1>1, <2>2, MembersOfAppended
  <2>4. /\ roles \in Seq(Ids) /\ ToSet(fetch.roles) \subseteq ToSet(roles)
        /\ p \in steady \cap Wanted => p \in ToSet(roles)
    BY <1>1, <2>3
  <2> HIDE DEF roles
  <2> QED BY <1>3, <1>4, <2>1, <2>4
<1>5. CASE FailedDetail
  <2>1. fetch' = [fetch EXCEPT !.listed = Tail(fetch.listed), !.roles = fetch.roles]
    BY <1>1, <1>5 DEF FailedDetail, Fetches
  <2> QED BY <1>1, <1>3, <1>5, <2>1 DEF FailedDetail
<1> QED BY <1>2, <1>4, <1>5

LEMMA KeywordOfOne ==
  ASSUME FetchInv, Keyword \/ FailedKeyword
  PROVE  FetchInv'
<1>1. /\ board \in Seq(Ids) /\ fetch \in Fetches /\ steady \in {{}, ToSet(board)}
      /\ Fetching("keyword", "list") /\ fetch.adapter = "keyword" /\ fetch.at = "list"
      /\ fetch.todo \in Seq(STRING) /\ fetch.todo # <<>> /\ fetch.roles \in Seq(Ids)
      /\ board' = board /\ steady' = steady
      /\ \A p \in steady \cap Wanted : \A k \in Asked(p) :
           k \in ToSet(fetch.todo) \cup unanswered \/ p \in ToSet(fetch.roles)
  BY DEF FetchInv, FetchTyped, KeywordsAsked, Keyword, FailedKeyword, world, Fetches, Fetching
<1> DEFINE k == Head(fetch.todo)
<1>2. /\ Tail(fetch.todo) \in Seq(STRING) /\ ToSet(fetch.todo) = {k} \cup ToSet(Tail(fetch.todo))
      /\ Len(fetch.todo) # 1 => Tail(fetch.todo) # <<>>
      /\ Len(fetch.todo) = 1 => ToSet(Tail(fetch.todo)) = {}
  BY <1>1, HeadAndTail
<1>3. ASSUME NEW roles \in Seq(Ids), ToSet(fetch.roles) \subseteq ToSet(roles), unanswered \subseteq unanswered',
             fetch' = IF Len(fetch.todo) = 1 THEN [fetch EXCEPT !.at = "done", !.roles = roles]
                      ELSE [fetch EXCEPT !.todo = Tail(fetch.todo), !.roles = roles],
             k \in unanswered' \/ \A p \in steady \cap Wanted : k \in Asked(p) => p \in ToSet(roles)
      PROVE  FetchInv'
  <2>1. /\ fetch' \in Fetches /\ fetch'.adapter = "keyword" /\ fetch'.roles = roles
        /\ fetch'.at = (IF Len(fetch.todo) = 1 THEN "done" ELSE "list")
        /\ Len(fetch.todo) # 1 => fetch'.todo = Tail(fetch.todo)
    BY <1>1, <1>2, <1>3 DEF Fetches
  <2>2. FetchTyped'
    BY <1>1, <1>2, <2>1 DEF FetchTyped
  <2>3. \A p : Asked(p)' = Asked(p)
    BY <1>1, <2>1, AnswersStay DEF Asked
  <2>4. ASSUME NEW p \in steady \cap Wanted, NEW l \in Asked(p)
        PROVE  l \in ToSet(Tail(fetch.todo)) \cup unanswered' \/ p \in ToSet(roles)
    BY <1>1, <1>2, <1>3
  <2>5. KeywordsAsked'
    BY <1>1, <2>1, <2>3, <2>4 DEF KeywordsAsked, Fetching
  <2>6. ResultStands'
    BY <1>1, <1>2, <2>1, <2>3, <2>4 DEF ResultStands
  <2>7. OffsetsPassed' /\ TokensPassed' /\ DetailsRead'
    BY <2>1 DEF OffsetsPassed, TokensPassed, DetailsRead, Fetching
  <2> QED BY <2>2, <2>5, <2>6, <2>7 DEF FetchInv
<1>4. CASE Keyword
  <2> DEFINE answer == FoundBy(k)
             cut == IF Len(answer) < Cap THEN Len(answer) ELSE Cap
             part == SubSeq(answer, 1, cut)
             roles == Joined(fetch.roles, Suited(part))
  <2>1. /\ fetch' = IF Len(fetch.todo) = 1 THEN [fetch EXCEPT !.at = "done", !.roles = roles]
                    ELSE [fetch EXCEPT !.todo = Tail(fetch.todo), !.roles = roles]
        /\ unanswered' = unanswered
    BY <1>4 DEF Keyword, Returns
  <2>2. answer \in Seq(Ids)
    BY <1>1, AnswersHold
  <2>3. /\ part \in Seq(Ids)
        /\ \A i \in DOMAIN answer : i <= Cap => answer[i] \in ToSet(part)
    <3>1. /\ cut \in Nat /\ cut <= Len(answer) /\ Len(answer) \in Nat /\ DOMAIN answer = 1..Len(answer)
          /\ \A i \in 1..cut : answer[i] \in Ids
      <4> HIDE DEF answer
      <4> QED BY <2>2, PagesAssumption, LenProperties, ElementOfSeq
    <3>2. \A i \in DOMAIN answer : i <= Cap => i \in 1..cut
      <4> HIDE DEF answer
      <4> QED BY <3>1, PagesAssumption
    <3> HIDE DEF answer, cut
    <3>3. /\ part \in Seq(Ids) /\ Len(part) = (IF 1 <= cut THEN cut - 1 + 1 ELSE 0)
          /\ \A i \in 1..(cut - 1 + 1) : part[i] = answer[1 + i - 1]
      BY <3>1, SubSeqProperties
    <3>4. \A i \in 1..cut : i \in 1..Len(part) /\ part[i] = answer[i]
      <4> HIDE DEF part
      <4>1. TAKE i \in 1..cut
      <4>2. i \in 1..(cut - 1 + 1) /\ 1 + i - 1 = i /\ Len(part) = cut
        BY <3>1, <3>3
      <4> QED BY <3>3, <4>2
    <3> HIDE DEF part
    <3>5. \A p : p \in ToSet(part) <=> \E i \in 1..Len(part) : part[i] = p
      BY <3>3, Members
    <3> QED BY <3>2, <3>3, <3>4, <3>5
  <2> HIDE DEF answer, part
  <2>4. Suited(part) \in Seq(Ids) /\ ToSet(Suited(part)) = ToSet(part) \cap Wanted
    BY <2>3, SuitedOf
  <2>5. roles \in Seq(Ids) /\ ToSet(roles) = ToSet(fetch.roles) \cup ToSet(Suited(part))
    BY <1>1, <2>4, MembersAppended
  <2>6. ASSUME NEW p \in steady \cap Wanted, k \in Asked(p) PROVE p \in ToSet(roles)
    <3>1. PICK i \in DOMAIN answer : answer[i] = p /\ i <= Cap
      BY <1>1, <2>6 DEF Asked, answer
    <3> QED BY <2>3, <2>4, <2>5, <3>1
  <2> HIDE DEF roles, k
  <2> QED BY <1>3, <2>1, <2>5, <2>6
<1>5. CASE FailedKeyword
  <2>1. fetch' = IF Len(fetch.todo) = 1 THEN [fetch EXCEPT !.at = "done", !.roles = fetch.roles]
                 ELSE [fetch EXCEPT !.todo = Tail(fetch.todo), !.roles = fetch.roles]
    BY <1>1, <1>5 DEF FailedKeyword, Returns, Fetches
  <2>2. unanswered \subseteq unanswered' /\ k \in unanswered'
    BY <1>5 DEF FailedKeyword
  <2> QED BY <1>1, <1>3, <2>1, <2>2
<1> QED BY <1>4, <1>5

LEMMA FetchGoesOn ==
  ASSUME FetchInv, [FetchNext]_fetchVars
  PROVE  FetchInv'
<1>1. CASE UNCHANGED fetchVars
  <2>1. /\ board' = board /\ fetch' = fetch /\ steady' = steady /\ unanswered' = unanswered
    BY <1>1 DEF fetchVars
  <2>2. \A p : Asked(p)' = Asked(p)
    BY <2>1, AnswersStay DEF Asked
  <2>3. (\A k : FoundBy(k)' = FoundBy(k)) /\ AnyFound' = AnyFound
    BY <2>1, AnswersStay
  <2>4. FetchTyped' /\ KeywordsAsked'
    BY <2>1, <2>2 DEF FetchInv, FetchTyped, KeywordsAsked, Fetching
  <2>5. OffsetsPassed' /\ TokensPassed'
    BY <2>1, <2>3 DEF FetchInv, OffsetsPassed, TokensPassed, Fetching, ToCome, Matches
  <2>6. DetailsRead' /\ ResultStands'
    BY <2>1, <2>2 DEF FetchInv, DetailsRead, ResultStands, Matches
  <2> QED BY <2>4, <2>5, <2>6 DEF FetchInv
<1>2. CASE FetchNext
  BY <1>2, FetchBegins, CompanyChanges, BoardRead, OffsetRead, TokenRead, FetchEnds, DetailOfOne,
     KeywordOfOne DEF FetchNext
<1> QED BY <1>1, <1>2

\* Of the roles that lead to one page, the first is kept.
LEMMA TwinsShareAPage ==
  ASSUME NEW roles \in Seq(Ids), NEW p \in ToSet(roles)
  PROVE  \E q \in Deduped(roles) : Url[q] = Url[p]
<1>1. DOMAIN roles = 1..Len(roles) /\ Len(roles) \in Nat
  BY LenProperties
<1> DEFINE same == {n \in DOMAIN roles : Url[roles[n]] = Url[p]}
<1>2. same \in SUBSET Nat /\ same # {}
  <2>1. \E i \in 1..Len(roles) : roles[i] = p
    BY Members
  <2> QED BY <1>1, <2>1
<1>3. PICK n \in same : \A m \in same : n <= m
  <2> HIDE DEF same
  <2> QED BY <1>2, LeastNat
<1>4. \A m \in 1..(n - 1) : Url[roles[m]] # Url[roles[n]]
  <2>1. SUFFICES ASSUME NEW m \in 1..(n - 1), Url[roles[m]] = Url[roles[n]] PROVE FALSE
    OBVIOUS
  <2>2. m \in DOMAIN roles /\ m < n
    BY <1>1
  <2> QED BY <1>3, <2>1, <2>2
<1> QED BY <1>4 DEF Deduped

(***************************************************************************)
(* What Today shows of a company is what its board publishes, but for what *)
(* could not be read (SourceFetch): of a board that did not change while   *)
(* it was read, a posting that suits and is missing is one whose requests  *)
(* all failed.                                                             *)
(***************************************************************************)
THEOREM NothingPassedOver == FetchSpec => MissingWasAskedInVain
<1>1. ASSUME FetchInv, [FetchNext]_fetchVars
      PROVE  inventory' # inventory =>
               \A p \in steady \cap Wanted :
                 \/ \E q \in inventory' : Url[q] = Url[p]
                 \/ Asked(p) \subseteq unanswered
  <2>1. CASE KeepResult
    <3> DEFINE roles == Deduped(fetch.roles)
    <3>1. PICK refused \in SUBSET roles :
            inventory' = IF Counts(refused) THEN {p \in roles \ refused : Url[p] \in Trusted} ELSE inventory
      BY <2>1 DEF KeepResult
    <3>2. CASE Counts(refused)
      <4>1. fetch.roles # <<>> /\ refused = {} /\ \A p \in roles : Url[p] \in Trusted
        BY <3>2 DEF Counts
      <4>2. inventory' = roles
        BY <3>1, <3>2, <4>1
      <4>3. fetch.roles \in Seq(Ids)
        BY <1>1 DEF FetchInv, FetchTyped, Fetches
      <4>4. \A p \in steady \cap Wanted : p \in ToSet(fetch.roles) \/ Asked(p) \subseteq unanswered
        BY <1>1, <2>1, <4>1 DEF FetchInv, ResultStands, KeepResult
      <4> QED BY <4>2, <4>3, <4>4, TwinsShareAPage
    <3> QED BY <3>1, <3>2
  <2>2. CASE ~KeepResult
    BY <1>1, <2>2
    DEF FetchNext, fetchVars, world, BeginFetch, Change, Board, OffsetPage, TokenPage, FailedList, Detail,
        FailedDetail, Keyword, FailedKeyword, Raise, Crash
  <2> QED BY <2>1, <2>2
<1> QED BY <1>1, FetchStart, FetchGoesOn, PTL DEF FetchSpec, MissingWasAskedInVain

(***************************************************************************)
(* People.                                                                 *)
(***************************************************************************)
LEMMA Rank ==
  ASSUME NEW c \in Candidates, NEW d \in Candidates
  PROVE  /\ c.score \in Int /\ ConfidenceOf(c.profile) \in Int /\ c.profile \in Int /\ c.title.order \in Int
         /\ Outranks(c, d) <=>
              \/ d.score < c.score
              \/ d.score = c.score /\ ConfidenceOf(d.profile) < ConfidenceOf(c.profile)
              \/ /\ d.score = c.score /\ ConfidenceOf(d.profile) = ConfidenceOf(c.profile)
                 /\ c.profile < d.profile
              \/ /\ d.score = c.score /\ ConfidenceOf(d.profile) = ConfidenceOf(c.profile)
                 /\ c.profile = d.profile /\ c.title.order < d.title.order
<1>1. ASSUME NEW e \in Candidates
      PROVE  e.score \in Int /\ ConfidenceOf(e.profile) \in Int /\ e.profile \in Int /\ e.title.order \in Int
  <2>1. e.score \in Int /\ e.profile \in Profiles /\ e.title \in Titles
    BY DEF Candidates
  <2>2. e.title.order \in Int
    BY <2>1 DEF Titles
  <2>3. ConfidenceOf(e.profile) \in Int
    BY DEF ConfidenceOf
  <2> QED BY <2>1, <2>2, <2>3, ProfilesAssumption
<1> DEFINE Key(e) == <<-e.score, -ConfidenceOf(e.profile), e.profile, e.title.order>>
<1>2. Outranks(c, d) <=> \E i \in 1..4 : Key(c)[i] < Key(d)[i] /\ \A j \in 1..(i - 1) : Key(c)[j] = Key(d)[j]
  BY DEF Outranks
<1>3. \A e : Key(e)[1] = -e.score /\ Key(e)[2] = -ConfidenceOf(e.profile)
             /\ Key(e)[3] = e.profile /\ Key(e)[4] = e.title.order
  OBVIOUS
<1> HIDE DEF Key
<1>4. \A i : i \in 1..4 <=> i \in {1, 2, 3, 4}
  OBVIOUS
<1>5. 1..(1 - 1) = {} /\ 1..(2 - 1) = {1} /\ 1..(3 - 1) = {1, 2} /\ 1..(4 - 1) = {1, 2, 3}
  OBVIOUS
<1>6. Outranks(c, d) <=>
        \/ Key(c)[1] < Key(d)[1]
        \/ Key(c)[2] < Key(d)[2] /\ Key(c)[1] = Key(d)[1]
        \/ Key(c)[3] < Key(d)[3] /\ Key(c)[1] = Key(d)[1] /\ Key(c)[2] = Key(d)[2]
        \/ Key(c)[4] < Key(d)[4] /\ Key(c)[1] = Key(d)[1] /\ Key(c)[2] = Key(d)[2] /\ Key(c)[3] = Key(d)[3]
  <2> DEFINE P(i, b) == Key(c)[i] < Key(d)[i] /\ \A j \in b : Key(c)[j] = Key(d)[j]
  <2>1. Outranks(c, d) <=> \E i \in {1, 2, 3, 4} : P(i, 1..(i - 1))
    BY <1>2, <1>4
  <2>2. Outranks(c, d) <=> P(1, {}) \/ P(2, {1}) \/ P(3, {1, 2}) \/ P(4, {1, 2, 3})
    <3> HIDE DEF P
    <3> QED BY <1>5, <2>1
  <2> QED BY <2>2
<1> QED BY <1>1, <1>3, <1>6

LEMMA Ranks ==
  /\ \A c \in Candidates : ~Outranks(c, c)
  /\ \A c, d, e \in Candidates : Outranks(c, d) /\ Outranks(d, e) => Outranks(c, e)
  /\ \A c, d \in Candidates : c.profile # d.profile => Outranks(c, d) \/ Outranks(d, c)
<1>1. \A c \in Candidates : ~Outranks(c, c)
  BY Rank
<1>2. ASSUME NEW c \in Candidates, NEW d \in Candidates, NEW e \in Candidates,
             Outranks(c, d), Outranks(d, e)
      PROVE  Outranks(c, e)
  BY <1>2, Rank
<1>3. ASSUME NEW c \in Candidates, NEW d \in Candidates, c.profile # d.profile
      PROVE  Outranks(c, d) \/ Outranks(d, c)
  BY <1>3, Rank
<1> QED BY <1>1, <1>2, <1>3

LEMMA Above ==
  ASSUME NEW S \in SUBSET Candidates, IsFiniteSet(S), NEW c \in S
  PROVE  /\ Cardinality({e \in S : Outranks(e, c)}) \in Nat
         /\ \A d \in S : Outranks(c, d) =>
              Cardinality({e \in S : Outranks(e, c)}) < Cardinality({e \in S : Outranks(e, d)})
<1> DEFINE over(x) == {e \in S : Outranks(e, x)}
<1>1. \A x : over(x) \in SUBSET S /\ IsFiniteSet(over(x)) /\ Cardinality(over(x)) \in Nat
  <2>1. \A x : over(x) \in SUBSET S
    OBVIOUS
  <2> HIDE DEF over
  <2> QED BY <2>1, FS_Subset, FS_CardinalityType
<1>2. ASSUME NEW d \in S, Outranks(c, d) PROVE Cardinality(over(c)) < Cardinality(over(d))
  <2>1. over(c) \in SUBSET over(d)
    BY <1>2, Ranks
  <2>2. c \in over(d) /\ c \notin over(c)
    BY <1>2, Ranks
  <2> HIDE DEF over
  <2>3. /\ Cardinality(over(c)) <= Cardinality(over(d))
        /\ Cardinality(over(d)) = Cardinality(over(c)) => over(d) = over(c)
    BY <1>1, <2>1, FS_Subset
  <2>4. Cardinality(over(c)) \in Nat /\ Cardinality(over(d)) \in Nat
    BY <1>1
  <2> QED BY <2>2, <2>3, <2>4
<1> QED BY <1>1, <1>2

LEMMA SomeoneFirst ==
  ASSUME NEW S \in SUBSET Candidates, IsFiniteSet(S), S # {}
  PROVE  \E c \in S : \A d \in S : ~Outranks(d, c)
<1> DEFINE rank == [c \in S |-> Cardinality({e \in S : Outranks(e, c)})]
           ranks == {rank[c] : c \in S}
<1>1. /\ \A c \in S : rank[c] \in Nat
      /\ \A c, d \in S : Outranks(d, c) => rank[d] < rank[c]
  BY Above
<1> HIDE DEF rank
<1>2. ranks \in SUBSET Nat /\ ranks # {}
  BY <1>1
<1>3. PICK n \in ranks : \A m \in ranks : n <= m
  <2> HIDE DEF ranks
  <2> QED BY <1>2, LeastNat
<1>4. PICK c \in S : rank[c] = n
  OBVIOUS
<1>5. ASSUME NEW d \in S, Outranks(d, c) PROVE FALSE
  <2>1. rank[d] < rank[c] /\ rank[c] <= rank[d]
    BY <1>1, <1>3, <1>4, <1>5
  <2> QED BY <1>1, <2>1
<1> QED BY <1>5

\* Whoever ranks above one of the best is one of them.
LEMMA BestAreFirst ==
  ASSUME NEW S \in SUBSET Candidates, IsFiniteSet(S), NEW n \in Int, NEW d \in Best(n, S), NEW c \in S,
         Outranks(c, d)
  PROVE  c \in Best(n, S)
<1>1. d \in S /\ Cardinality({e \in S : Outranks(e, d)}) < n
  BY DEF Best
<1>2. Cardinality({e \in S : Outranks(e, d)}) \in Nat
  BY <1>1, Above
<1>3. /\ Cardinality({e \in S : Outranks(e, c)}) \in Nat
      /\ Cardinality({e \in S : Outranks(e, c)}) < Cardinality({e \in S : Outranks(e, d)})
  BY <1>1, Above
<1>4. Cardinality({e \in S : Outranks(e, c)}) < n
  BY <1>1, <1>2, <1>3
<1> QED BY <1>4 DEF Best

\* The best are fewer than asked for only if they are all.
LEMMA BestOfFew ==
  ASSUME NEW S \in SUBSET Candidates, IsFiniteSet(S),
         \A c, d \in S : c # d => c.profile # d.profile,
         NEW n \in Int, Cardinality(Best(n, S)) < n
  PROVE  Best(n, S) = S
<1> DEFINE before == [c \in S |-> {e \in S : Outranks(e, c)}]
           Place(c) == Cardinality(before[c])
           best == {c \in S : Place(c) < n}
<1>1. best = Best(n, S)
  BY DEF Best
<1>2. /\ before \in [S -> SUBSET S]
      /\ \A c, d \in S : d \in before[c] <=> Outranks(d, c)
  OBVIOUS
<1> HIDE DEF before
<1>3. /\ \A c \in S : c \notin before[c]
      /\ \A c, d \in S : c \in before[d] => before[c] \subseteq before[d]
      /\ \A c, d \in S : c # d => c \in before[d] \/ d \in before[c]
  <2>1. \A c \in S : c \notin before[c]
    BY <1>2, Ranks
  <2>2. \A c, d \in S : c # d => c \in before[d] \/ d \in before[c]
    BY <1>2, Ranks
  <2>3. ASSUME NEW c \in S, NEW d \in S, c \in before[d], NEW e \in before[c] PROVE e \in before[d]
    <3>1. e \in S /\ Outranks(e, c) /\ Outranks(c, d)
      BY <1>2, <2>3
    <3> QED BY <1>2, <3>1, Ranks
  <2> QED BY <2>1, <2>2, <2>3
<1>4. PICK size \in Nat : size = Cardinality(S)
  BY FS_CardinalityType
<1>5. /\ \A c \in S : Cardinality(before[c]) \in 0..(Cardinality(S) - 1)
      /\ \A k \in 0..(Cardinality(S) - 1) : \E c \in S : Cardinality(before[c]) = k
  BY <1>2, <1>3, Places
<1>6. /\ \A c \in S : Place(c) \in 0..(size - 1)
      /\ \A k \in 0..(size - 1) : \E c \in S : Place(c) = k
  BY <1>4, <1>5
<1> HIDE DEF Place
<1>7. IsFiniteSet(best) /\ Cardinality(best) \in Nat
  <2>1. best \in SUBSET S
    OBVIOUS
  <2> HIDE DEF best
  <2> QED BY <2>1, FS_Subset, FS_CardinalityType
<1>8. SUFFICES ASSUME NEW c \in S, ~(Place(c) < n) PROVE FALSE
  BY <1>1
<1>9. n \in Nat /\ n <= size - 1
  <2>1. Cardinality(best) < n
    BY <1>1, Zenon
  <2> HIDE DEF best
  <2> QED BY <1>4, <1>6, <1>7, <1>8, <2>1
<1> DEFINE place == [d \in best |-> Place(d)]
<1>10. place \in Surjection(best, 0..(n - 1))
  <2>1. \A d \in best : place[d] \in 0..(n - 1)
    BY <1>4, <1>6, <1>9
  <2>2. ASSUME NEW k \in 0..(n - 1) PROVE \E d \in best : place[d] = k
    <3>1. k \in 0..(size - 1) /\ k < n
      BY <1>4, <1>9
    <3>2. PICK d \in S : Place(d) = k
      BY <1>6, <3>1
    <3> QED BY <3>1, <3>2
  <2> QED BY <2>1, <2>2 DEF Surjection
<1>11. Cardinality(0..(n - 1)) <= Cardinality(best)
  <2> HIDE DEF place, best
  <2> QED BY <1>7, <1>10, FS_Surjection
<1>12. Cardinality(0..(n - 1)) = n
  <2>1. Cardinality(0..(n - 1)) = IF 0 > n - 1 THEN 0 ELSE n - 1 - 0 + 1
    BY <1>9, FS_Interval
  <2> QED BY <1>9, <2>1
<1>13. Cardinality(best) < n
  BY <1>1, Zenon
<1> HIDE DEF best
<1> QED BY <1>7, <1>9, <1>11, <1>12, <1>13

PeopleTyped ==
  /\ heard \subseteq Results /\ existing \subseteq Results
  /\ found \in [Profiles -> Candidates \cup {None}]
  /\ \A p \in Profiles : found[p] # None => found[p].profile = p

ReadingsKept ==
  /\ evidence = [p \in Profiles |-> {x \in heard : Supports(x) /\ x.profile = p}]
  /\ blocked = {x.profile : x \in {y \in heard : Contradicts(y)}}
  /\ \A p \in Profiles : found[p] # None <=> evidence[p] # {}
  /\ failures = {} /\ complete => heard = existing

OutcomeStands ==
  outcome # None =>
    /\ asked = 3
    /\ outcome.pool = Pool /\ outcome.bench = Bench(Pool)
    /\ outcome.exhausted => failures = {} /\ complete /\ Cardinality(Pool) < CandidateLimit

PeopleInv == PeopleTyped /\ ReadingsKept /\ OutcomeStands

LEMMA PeopleStart == PeopleInit => PeopleInv
<1> SUFFICES ASSUME PeopleInit PROVE PeopleInv
  OBVIOUS
<1>1. \A p \in Profiles : found[p] = None /\ evidence[p] = {}
  BY DEF PeopleInit
<1>2. PeopleTyped
  BY <1>1 DEF PeopleInit, PeopleTyped
<1>3. ReadingsKept
  BY <1>1 DEF PeopleInit, ReadingsKept
<1>4. OutcomeStands
  BY DEF PeopleInit, OutcomeStands
<1> QED BY <1>2, <1>3, <1>4 DEF PeopleInv

\* The response shows no more than there is, and all there is if it says that it is the end.
LEMMA WhatIsShown ==
  ASSUME NEW list \in Lists, NEW r \in Responses(list)
  PROVE  /\ ResultsOf(r) \in Seq(Results)
         /\ ~Denied(r) /\ ~Failed(r) /\ Exhausted(r) => Range(ResultsOf(r)) = Range(list)
<1>1. list \in Seq(Results) /\ None # list /\ CandidateLimit \in Nat
  BY ResultsAssumption, BenchAssumption, NobodyAssumption
<1>2. Len(list) \in Nat /\ \A i \in 1..Len(list) : list[i] \in Results
  BY <1>1, LenProperties, ElementOfSeq
<1>3. ASSUME NEW n \in Nat
      PROVE  AtMost(n, list) \in Seq(Results) /\ (Len(list) <= n => AtMost(n, list) = list)
  <2> DEFINE cut == IF Len(list) < n THEN Len(list) ELSE n
             part == SubSeq(list, 1, cut)
  <2>1. cut \in Nat /\ cut <= Len(list) /\ (Len(list) <= n => cut = Len(list))
    BY <1>2
  <2> HIDE DEF cut
  <2>2. \A i \in 1..cut : list[i] \in Results
    BY <1>2, <2>1
  <2>3. /\ part \in Seq(Results) /\ Len(part) = (IF 1 <= cut THEN cut - 1 + 1 ELSE 0)
        /\ \A i \in 1..(cut - 1 + 1) : part[i] = list[1 + i - 1]
    BY <2>1, <2>2, SubSeqProperties
  <2>4. ASSUME Len(list) <= n PROVE part = list
    <3> HIDE DEF part
    <3>1. Len(part) = Len(list)
      BY <1>2, <2>1, <2>3, <2>4
    <3>2. ASSUME NEW i \in 1..Len(part) PROVE part[i] = list[i]
      <4>1. i \in 1..(cut - 1 + 1) /\ 1 + i - 1 = i
        BY <2>1, <2>3
      <4> QED BY <2>3, <4>1
    <3> QED BY <1>1, <2>3, <3>1, <3>2, SeqEqual
  <2>5. AtMost(n, list) = part
    BY DEF AtMost, cut
  <2> QED BY <2>3, <2>4, <2>5
<1>4. <<>> \in Seq(Results)
  OBVIOUS
<1> DEFINE part == AtMost(CandidateLimit, list)
           page1 == [Plain EXCEPT !.results = part, !.next = Len(list) > CandidateLimit]
           page2 == [page1 EXCEPT !.success = FALSE, !.results = AtMost(1, list)]
<1>5. \/ r = page1
      \/ r = page2
      \/ r \in {[Plain EXCEPT !.status = "unavailable"], [Plain EXCEPT !.status = "denied"],
                [Plain EXCEPT !.readable = FALSE], [Plain EXCEPT !.error = "quota"],
                [Plain EXCEPT !.error = "other"], [Plain EXCEPT !.results = None]}
      \/ /\ list = <<>>
         /\ r \in {[Plain EXCEPT !.results = None, !.empty = TRUE, !.error = e] : e \in {"none", "no results"}}
  BY DEF Responses
<1>6. CASE r = page1
  <2>1. r.results = part /\ r.next = (Len(list) > CandidateLimit)
    BY <1>6 DEF Plain
  <2> HIDE DEF part, page1, page2
  <2>2. part \in Seq(Results) /\ (Len(list) <= CandidateLimit => part = list)
    BY <1>1, <1>3 DEF part
  <2>3. ResultsOf(r) \in Seq(Results)
    BY <1>4, <2>1, <2>2 DEF ResultsOf
  <2>4. Exhausted(r) => ResultsOf(r) = list
    <3>1. Exhausted(r) => Len(list) <= CandidateLimit
      <4>1. Exhausted(r) => ~r.next
        BY DEF Exhausted
      <4>2. ~(Len(list) > CandidateLimit) => Len(list) <= CandidateLimit
        BY <1>1, <1>2
      <4> QED BY <2>1, <4>1, <4>2, Zenon
    <3> QED BY <1>1, <2>1, <2>2, <3>1 DEF ResultsOf
  <2> QED BY <2>3, <2>4
<1>7. CASE r = page2
  <2>1. r.results = AtMost(1, list) /\ r.success = FALSE
    BY <1>7 DEF Plain
  <2>2. ResultsOf(r) \in Seq(Results)
    BY <1>3, <1>4, <2>1 DEF ResultsOf
  <2> QED BY <2>1, <2>2 DEF Exhausted
<1>8. CASE r \in {[Plain EXCEPT !.status = "unavailable"], [Plain EXCEPT !.status = "denied"],
                  [Plain EXCEPT !.readable = FALSE], [Plain EXCEPT !.error = "quota"],
                  [Plain EXCEPT !.error = "other"], [Plain EXCEPT !.results = None]}
  <2>1. r.results \in {<<>>, None}
    BY <1>8 DEF Plain
  <2>2. Denied(r) \/ Failed(r)
    BY <1>8 DEF Plain, Denied, Failed
  <2> QED BY <1>4, <2>1, <2>2 DEF ResultsOf
<1>9. CASE /\ list = <<>>
           /\ r \in {[Plain EXCEPT !.results = None, !.empty = TRUE, !.error = e] : e \in {"none", "no results"}}
  <2>1. r.results = None
    BY <1>9 DEF Plain
  <2> QED BY <1>4, <1>9, <2>1 DEF ResultsOf
<1> QED BY <1>5, <1>6, <1>7, <1>8, <1>9

LEMMA RangesAreFinite ==
  ASSUME NEW S, NEW seq \in Seq(S)
  PROVE  IsFiniteSet(Range(seq)) /\ Range(seq) \subseteq S
<1>1. seq \in [1..Len(seq) -> S] /\ Len(seq) \in Nat
  BY LenProperties
<1>2. seq \in Surjection(1..Len(seq), Range(seq))
  BY <1>1 DEF Surjection, Range
<1>3. IsFiniteSet(1..Len(seq))
  BY <1>1, FS_Interval
<1>4. IsFiniteSet(Range(seq))
  BY <1>2, <1>3, FS_Surjection
<1> QED BY <1>1, <1>4 DEF Range

\* What is kept of a person is one of the readings, if there is any.
LEMMA OneReadingIsKept ==
  ASSUME PeopleTyped, NEW list \in Seq(Results), NEW lane, NEW p \in Profiles
  PROVE  /\ Merged(p, list, lane) \in Candidates \cup {None}
         /\ Merged(p, list, lane) # None => Merged(p, list, lane).profile = p
         /\ Merged(p, list, lane) # None <=> found[p] # None \/ Readings(list, p) # {}
<1> DEFINE heardNow == Readings(list, p)
           reading == [x \in heardNow |-> Candidate(x, lane)]
           now == {reading[x] : x \in heardNow}
           readings == now \cup ({found[p]} \ {None})
<1>1. IsFiniteSet(heardNow) /\ heardNow \subseteq Results
  <2>1. IsFiniteSet(Range(list)) /\ Range(list) \subseteq Results
    BY RangesAreFinite
  <2>2. heardNow \in SUBSET Range(list)
    BY DEF Readings
  <2> QED BY <2>1, <2>2, FS_Subset
<1>2. ASSUME NEW x \in heardNow PROVE reading[x] \in Candidates /\ reading[x].profile = p
  <2>1. x \in Results /\ x.profile = p /\ x.title # None
    BY <1>1 DEF Readings, Supports, Identified
  <2>2. x.title \in Titles
    BY <2>1 DEF Results
  <2>3. Score(x, lane) \in Int
    <3> DEFINE sure == (65 * ConfidenceOf(x.profile)) \div 10
               site == IF x.profile \in LinkedIn THEN 90 ELSE 60
               overlap == IF x.title.overlaps THEN 140 ELSE 80
               fit == IF x.title.kind = lane THEN 55 ELSE 20
               kind == IF x.title.kind = "peer" THEN 20 ELSE 30
               total == sure + site + overlap + fit + 45 + kind
    <3>1. total \in Int
      <4>1. ConfidenceOf(x.profile) \in {80, 90}
        BY DEF ConfidenceOf
      <4>2. sure \in Int
        BY <4>1
      <4>3. site \in Int /\ overlap \in Int /\ fit \in Int /\ kind \in Int
        OBVIOUS
      <4> HIDE DEF sure, site, overlap, fit, kind
      <4> QED BY <4>2, <4>3
    <3> HIDE DEF total
    <3>2. (IF total > 1000 THEN 1000 ELSE total) \in Int
      BY <3>1
    <3> QED BY <3>2 DEF Score, total
  <2> QED BY <2>1, <2>2, <2>3 DEF Candidate, Candidates
<1>3. found[p] # None => found[p] \in Candidates /\ found[p].profile = p
  BY DEF PeopleTyped
<1>4. readings \in SUBSET Candidates /\ \A c \in readings : c.profile = p
  BY <1>2, <1>3
<1>5. IsFiniteSet(readings)
  <2>1. reading \in Surjection(heardNow, now)
    BY DEF Surjection
  <2>2. IsFiniteSet(now)
    <3> HIDE DEF heardNow, now, reading
    <3> QED BY <1>1, <2>1, FS_Surjection
  <2>3. IsFiniteSet({found[p]}) /\ {found[p]} \ {None} \in SUBSET {found[p]}
    BY FS_Singleton
  <2>4. IsFiniteSet({found[p]} \ {None})
    BY <2>3, FS_Subset
  <2> HIDE DEF now
  <2> QED BY <2>2, <2>4, FS_Union
<1>6. Merged(p, list, lane) = IF readings = {} THEN None
                              ELSE CHOOSE c \in readings : \A d \in readings : ~Outranks(d, c)
  <2>1. now = {Candidate(x, lane) : x \in Readings(list, p)}
    OBVIOUS
  <2> QED BY <2>1 DEF Merged
<1>7. readings # {} <=> found[p] # None \/ Readings(list, p) # {}
  OBVIOUS
<1>8. None \notin Candidates
  BY NobodyAssumption
<1> HIDE DEF readings
<1>9. CASE readings = {}
  BY <1>6, <1>7, <1>9
<1>10. CASE readings # {}
  <2>1. \E c \in readings : \A d \in readings : ~Outranks(d, c)
    BY <1>4, <1>5, <1>10, SomeoneFirst
  <2>2. Merged(p, list, lane) \in readings
    BY <1>6, <1>10, <2>1
  <2> QED BY <1>4, <1>7, <1>8, <1>10, <2>2
<1> QED BY <1>9, <1>10

LEMMA LaneIsHeard ==
  ASSUME PeopleInv, NEW list \in Lists, NEW r \in Responses(list), Hear(list, r)
  PROVE  PeopleInv'
<1> DEFINE results == ResultsOf(r)
           lane == Lanes[asked + 1]
<1>1. /\ heard \subseteq Results /\ existing \subseteq Results
      /\ found \in [Profiles -> Candidates \cup {None}]
      /\ \A p \in Profiles : found[p] # None => found[p].profile = p
  BY DEF PeopleInv, PeopleTyped
<1>2. /\ evidence = [p \in Profiles |-> {x \in heard : Supports(x) /\ x.profile = p}]
      /\ blocked = {x.profile : x \in {y \in heard : Contradicts(y)}}
      /\ \A p \in Profiles : found[p] # None <=> evidence[p] # {}
      /\ failures = {} /\ complete => heard = existing
  BY DEF PeopleInv, ReadingsKept
<1>3. /\ results \in Seq(Results)
      /\ ~Denied(r) /\ ~Failed(r) /\ Exhausted(r) => Range(results) = Range(list)
  BY WhatIsShown
<1>4. Range(list) \subseteq Results /\ Range(results) \subseteq Results
  BY <1>3, ResultsAssumption, RangesAreFinite
<1>5. existing' = existing \cup Range(list)
  BY DEF Hear
<1>6. OutcomeStands'
  <2>1. outcome = None
    BY DEF PeopleInv, OutcomeStands, Hear, Lanes
  <2>2. outcome' = None
    BY <2>1 DEF Hear
  <2> QED BY <2>2 DEF OutcomeStands
<1>7. CASE Denied(r) \/ Failed(r)
  <2>1. /\ failures' # {}
        /\ heard' = heard /\ found' = found /\ evidence' = evidence /\ blocked' = blocked
    BY <1>7 DEF Hear
  <2>2. PeopleTyped'
    BY <1>1, <1>4, <1>5, <2>1 DEF PeopleTyped
  <2>3. ReadingsKept'
    BY <1>2, <2>1 DEF ReadingsKept
  <2> QED BY <1>6, <2>2, <2>3 DEF PeopleInv
<1>8. CASE ~(Denied(r) \/ Failed(r))
  <2>1. /\ heard' = heard \cup Range(results)
        /\ complete' = (complete /\ Exhausted(r))
        /\ found' = [p \in Profiles |-> Merged(p, results, lane)]
        /\ evidence' = [p \in Profiles |-> evidence[p] \cup Readings(results, p)]
        /\ blocked' = blocked \cup Contradicted(results)
        /\ failures' = failures
    BY <1>8 DEF Hear
  <2> HIDE DEF results, lane
  <2>2. ASSUME NEW p \in Profiles
        PROVE  /\ found'[p] \in Candidates \cup {None}
               /\ found'[p] # None => found'[p].profile = p
               /\ found'[p] # None <=> found[p] # None \/ Readings(results, p) # {}
    <3>1. found'[p] = Merged(p, results, lane)
      BY <2>1
    <3>2. PeopleTyped
      BY DEF PeopleInv
    <3> QED BY <1>3, <3>1, <3>2, OneReadingIsKept
  <2>3. PeopleTyped'
    <3>1. found' \in [Profiles -> Candidates \cup {None}]
      BY <2>1, <2>2
    <3>2. heard' \subseteq Results /\ existing' \subseteq Results
      BY <1>1, <1>4, <1>5, <2>1
    <3> QED BY <2>2, <3>1, <3>2 DEF PeopleTyped
  <2>4. ASSUME NEW p \in Profiles
        PROVE  evidence'[p] = {x \in heard' : Supports(x) /\ x.profile = p}
    <3>1. evidence'[p] = {x \in heard : Supports(x) /\ x.profile = p} \cup Readings(results, p)
      BY <1>2, <2>1
    <3> QED BY <2>1, <3>1 DEF Readings
  <2>5. evidence' = [p \in Profiles |-> {x \in heard' : Supports(x) /\ x.profile = p}]
    <3>1. DOMAIN evidence' = Profiles
      BY <2>1
    <3> QED BY <2>1, <2>4, <3>1
  <2>6. blocked' = {x.profile : x \in {y \in heard' : Contradicts(y)}}
    BY <1>2, <2>1 DEF Contradicted
  <2>7. ASSUME NEW p \in Profiles PROVE found'[p] # None <=> evidence'[p] # {}
    <3>1. evidence'[p] = evidence[p] \cup Readings(results, p)
      BY <2>1
    <3> QED BY <1>2, <2>2, <3>1
  <2>8. failures' = {} /\ complete' => heard' = existing'
    BY <1>2, <1>3, <1>5, <1>8, <2>1
  <2>9. ReadingsKept'
    BY <2>5, <2>6, <2>7, <2>8 DEF ReadingsKept
  <2> QED BY <1>6, <2>3, <2>9 DEF PeopleInv
<1> QED BY <1>7, <1>8

LEMMA SearchEnds ==
  ASSUME PeopleInv, Conclude
  PROVE  PeopleInv'
<1>1. /\ asked' = asked /\ heard' = heard /\ existing' = existing /\ found' = found /\ evidence' = evidence
      /\ blocked' = blocked /\ failures' = failures /\ complete' = complete /\ asked = 3
  BY DEF Conclude, Lanes
<1>2. Pool' = Pool /\ (\A pool : Bench(pool)' = Bench(pool))
  BY <1>1 DEF Pool, Bench, Eligible
<1>3. /\ outcome'.pool = Pool /\ outcome'.bench = Bench(Pool)
      /\ outcome'.exhausted = (failures = {} /\ complete /\ Cardinality(Pool) < CandidateLimit)
  BY DEF Conclude
<1>4. PeopleTyped' /\ ReadingsKept'
  BY <1>1 DEF PeopleInv, PeopleTyped, ReadingsKept
<1>5. Bench(Pool)' = Bench(Pool)
  BY <1>1, <1>2 DEF Bench, Eligible
<1>6. OutcomeStands'
  BY <1>1, <1>2, <1>3, <1>5 DEF OutcomeStands
<1> QED BY <1>4, <1>6 DEF PeopleInv

LEMMA SearchGoesOn ==
  ASSUME PeopleInv, [PeopleNext]_peopleVars
  PROVE  PeopleInv'
<1>1. CASE UNCHANGED peopleVars
  <2>1. /\ asked' = asked /\ heard' = heard /\ existing' = existing /\ found' = found /\ evidence' = evidence
        /\ blocked' = blocked /\ failures' = failures /\ complete' = complete /\ outcome' = outcome
    BY <1>1 DEF peopleVars
  <2>2. Pool' = Pool /\ Bench(Pool)' = Bench(Pool)
    BY <2>1 DEF Pool, Bench, Eligible
  <2>3. PeopleTyped' /\ ReadingsKept'
    BY <2>1 DEF PeopleInv, PeopleTyped, ReadingsKept
  <2>4. OutcomeStands'
    BY <2>1, <2>2 DEF PeopleInv, OutcomeStands
  <2> QED BY <2>3, <2>4 DEF PeopleInv
<1>2. CASE PeopleNext
  BY <1>2, LaneIsHeard, SearchEnds DEF PeopleNext
<1> QED BY <1>1, <1>2

\* Everybody who may be in the pool, each with a reading of their own.
Known == {found[p] : p \in {q \in Profiles \ blocked : found[q] # None}}

LEMMA EveryoneKnown ==
  ASSUME PeopleInv
  PROVE  /\ Known \in SUBSET Candidates /\ IsFiniteSet(Known)
         /\ \A c, d \in Known : c # d => c.profile # d.profile
         /\ {c.profile : c \in Known} = Deserving(heard)
         /\ Pool = Best(CandidateLimit, Known)
<1> DEFINE people == {q \in Profiles \ blocked : found[q] # None}
           who == [p \in people |-> found[p]]
<1>1. /\ found \in [Profiles -> Candidates \cup {None}]
      /\ \A p \in Profiles : found[p] # None => found[p].profile = p
      /\ \A p \in Profiles : evidence[p] = {x \in heard : Supports(x) /\ x.profile = p}
      /\ blocked = {x.profile : x \in {y \in heard : Contradicts(y)}}
      /\ \A p \in Profiles : found[p] # None <=> evidence[p] # {}
  BY DEF PeopleInv, PeopleTyped, ReadingsKept
<1>2. /\ Known \in SUBSET Candidates
      /\ \A c, d \in Known : c # d => c.profile # d.profile
      /\ {c.profile : c \in Known} = people
  BY <1>1 DEF Known
<1>3. IsFiniteSet(Known)
  <2>1. people \in SUBSET Profiles
    OBVIOUS
  <2>2. who \in Surjection(people, Known)
    BY DEF Known, Surjection
  <2> HIDE DEF people, who
  <2> QED BY <2>1, <2>2, ProfilesAssumption, FS_Subset, FS_Surjection
<1>4. people = Deserving(heard)
  BY <1>1 DEF Deserving
<1> QED BY <1>2, <1>3, <1>4 DEF Pool, Known

(***************************************************************************)
(* The bench is chosen from the pool by rank (ContactDiscovery, the        *)
(* selection of a contact bench): nobody whom a result contradicts is on   *)
(* it, and of one kind nobody better is left out of it.                    *)
(***************************************************************************)
LEMMA BestAreChosen == PeopleInv => BenchIsBest
<1> SUFFICES ASSUME PeopleInv, outcome # None PROVE BenchIsBest
  BY DEF BenchIsBest
<1> DEFINE ranked == {c \in Pool : Eligible(c)}
           kinds(kind) == {c \in ranked : c.title.kind = kind}
           taken == Taken(ranked)
           others == ranked \ taken
           room == TargetCount - Cardinality(taken)
           filled == Best(room, others)
           bench == taken \cup filled
<1>1. outcome.pool = Pool /\ outcome.bench = bench
  BY DEF PeopleInv, OutcomeStands, Bench
<1>2. /\ Known \in SUBSET Candidates /\ IsFiniteSet(Known)
      /\ \A c, d \in Known : c # d => c.profile # d.profile
      /\ {c.profile : c \in Known} = Deserving(heard)
      /\ Pool = Best(CandidateLimit, Known)
  BY EveryoneKnown
<1>3. \A n, S : Best(n, S) \in SUBSET S
  BY DEF Best
<1>4. \A c : c \in taken <=> \E kind \in ContactKinds : c \in Best(Turns(kind), kinds(kind))
  <2>1. taken = UNION {Best(Turns(kind), kinds(kind)) : kind \in ContactKinds}
    BY DEF Taken
  <2> HIDE DEF taken, kinds
  <2> QED BY <2>1
<1>5. ranked \in SUBSET Known /\ taken \in SUBSET ranked /\ others \in SUBSET Known /\ filled \in SUBSET others
  <2>1. Pool \in SUBSET Known /\ ranked \in SUBSET Pool
    BY <1>2, <1>3
  <2>2. \A kind : kinds(kind) \in SUBSET ranked
    OBVIOUS
  <2>3. taken \in SUBSET ranked
    <3> HIDE DEF taken, kinds, ranked
    <3> QED BY <1>3, <1>4, <2>2
  <2>4. others \in SUBSET ranked /\ filled \in SUBSET others
    BY <1>3
  <2> HIDE DEF ranked, taken, others, filled, kinds
  <2> QED BY <2>1, <2>3, <2>4
<1>6. /\ IsFiniteSet(ranked) /\ IsFiniteSet(taken) /\ IsFiniteSet(others) /\ IsFiniteSet(filled)
      /\ \A kind : IsFiniteSet(kinds(kind)) /\ kinds(kind) \in SUBSET Candidates
  <2>1. \A kind : kinds(kind) \in SUBSET Known
    BY <1>5
  <2>2. taken \in SUBSET Known /\ filled \in SUBSET Known
    BY <1>5
  <2> HIDE DEF ranked, taken, others, filled, kinds
  <2>3. \A S \in SUBSET Known : IsFiniteSet(S)
    BY <1>2, FS_Subset
  <2> QED BY <1>2, <1>5, <2>1, <2>2, <2>3
<1>7. room \in Int
  <2> HIDE DEF taken
  <2> QED BY <1>6, BenchAssumption, FS_CardinalityType
<1>8. {c.profile : c \in bench} \subseteq Deserving(heard)
  BY <1>2, <1>5
<1>9. \A kind \in ContactKinds : Turns(kind) \in Int
  <2> TAKE kind \in ContactKinds
  <2> DEFINE at == {n \in DOMAIN Mix : n <= TargetCount /\ Mix[n] = kind}
  <2>1. at \in SUBSET (1..4) /\ IsFiniteSet(1..4)
    <3>1. DOMAIN Mix = 1..4
      BY DEF Mix
    <3>2. at \in SUBSET (1..4)
      BY <3>1, Zenon
    <3>3. IsFiniteSet(1..4)
      <4>1. 1 \in Int /\ 4 \in Int
        OBVIOUS
      <4> QED BY <4>1, FS_Interval, Zenon
    <3> QED BY <3>2, <3>3
  <2>2. Cardinality(at) \in Nat
    <3> HIDE DEF at
    <3> QED BY <2>1, FS_Subset, FS_CardinalityType
  <2> QED BY <2>2 DEF Turns
<1>10. ASSUME NEW c \in Pool \ bench, NEW d \in bench, Eligible(c), c.title.kind = d.title.kind
       PROVE  Outranks(d, c)
  <2>1. c \in ranked /\ d \in ranked /\ c # d /\ c \in others /\ c \notin filled
    BY <1>5, <1>10
  <2>2. SUFFICES ASSUME Outranks(c, d) PROVE FALSE
    <3>1. c \in Candidates /\ d \in Candidates /\ c.profile # d.profile
      BY <1>2, <1>5, <2>1
    <3> QED BY <3>1, Ranks
  <2>3. CASE d \in taken
    <3>1. PICK kind \in ContactKinds : d \in Best(Turns(kind), kinds(kind))
      <4> HIDE DEF taken, kinds
      <4> QED BY <1>4, <2>3
    <3>2. d \in kinds(kind)
      BY <1>3, <3>1
    <3>3. c \in kinds(kind)
      BY <1>10, <2>1, <3>2
    <3>4. c \in Best(Turns(kind), kinds(kind))
      <4> HIDE DEF kinds
      <4> QED BY <1>6, <1>9, <2>2, <3>1, <3>3, BestAreFirst
    <3>5. c \in taken
      <4> HIDE DEF taken, kinds
      <4> QED BY <1>4, <3>4
    <3> QED BY <2>1, <3>5
  <2>4. CASE d \in filled
    <3>1. others \in SUBSET Candidates /\ IsFiniteSet(others)
      BY <1>2, <1>5, <1>6
    <3> HIDE DEF others, room
    <3>2. c \in Best(room, others)
      BY <1>7, <2>1, <2>2, <2>4, <3>1, BestAreFirst
    <3> QED BY <2>1, <3>2
  <2> QED BY <1>10, <2>3, <2>4
<1>11. ASSUME Cardinality(bench) < TargetCount, NEW c \in Pool, Eligible(c) PROVE c \in bench
  <2>1. taken \cap filled = {}
    BY <1>5
  <2>2. others \in SUBSET Candidates /\ \A a, b \in others : a # b => a.profile # b.profile
    BY <1>2, <1>5
  <2>3. c \in ranked
    BY <1>11
  <2> HIDE DEF ranked, taken, others, filled
  <2>4. Cardinality(bench) = Cardinality(taken) + Cardinality(filled)
    <3>1. Cardinality(bench) = Cardinality(taken) + Cardinality(filled) - Cardinality(taken \cap filled)
      BY <1>6, FS_Union
    <3>2. Cardinality(taken \cap filled) = 0
      BY <2>1, FS_EmptySet
    <3>3. Cardinality(taken) \in Nat /\ Cardinality(filled) \in Nat
      BY <1>6, FS_CardinalityType
    <3> QED BY <3>1, <3>2, <3>3
  <2>5. Cardinality(filled) < room
    <3>1. Cardinality(taken) \in Nat /\ Cardinality(filled) \in Nat
      BY <1>6, FS_CardinalityType
    <3> QED BY <1>11, <2>4, <3>1, BenchAssumption
  <2> HIDE DEF room
  <2>6. Best(room, others) = others
    BY <1>6, <1>7, <2>2, <2>5, BestOfFew DEF filled
  <2> QED BY <2>3, <2>6 DEF others, filled
<1> HIDE DEF bench
<1> QED BY <1>1, <1>8, <1>10, <1>11 DEF BenchIsBest

LEMMA ExhaustionProven == PeopleInv => ExhaustionIsProven
<1> SUFFICES ASSUME PeopleInv, outcome # None, outcome.exhausted
             PROVE  {c.profile : c \in outcome.pool} = Deserving(existing)
  BY DEF ExhaustionIsProven
<1>1. /\ Known \in SUBSET Candidates /\ IsFiniteSet(Known)
      /\ \A c, d \in Known : c # d => c.profile # d.profile
      /\ {c.profile : c \in Known} = Deserving(heard)
      /\ Pool = Best(CandidateLimit, Known)
  BY EveryoneKnown
<1>2. /\ outcome.pool = Pool /\ failures = {} /\ complete /\ Cardinality(Pool) < CandidateLimit
      /\ heard = existing
  BY DEF PeopleInv, OutcomeStands, ReadingsKept
<1>3. Pool = Known
  BY <1>1, <1>2, BenchAssumption, BestOfFew
<1> QED BY <1>1, <1>2, <1>3

(***************************************************************************)
(* Whatever the provider answers each of the lanes, who is shown to the    *)
(* owner has earned it, and who is not shown was not found, was            *)
(* contradicted or ranks lower (ContactDiscovery).                         *)
(***************************************************************************)
THEOREM BenchEarned == PeopleSpec => []BenchIsEarned
<1>1. PeopleInv => BenchIsEarned
  BY BestAreChosen, ExhaustionProven DEF BenchIsEarned
<1> QED BY <1>1, PeopleStart, SearchGoesOn, PTL DEF PeopleSpec
=============================================================================
