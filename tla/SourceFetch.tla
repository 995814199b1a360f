----------------------------- MODULE SourceFetch -----------------------------
(***************************************************************************)
(* How a scan reads the board of one company: by one request, by pages of  *)
(* an offset or of a token and a request for the detail of each posting,   *)
(* or by one request per keyword.  The board changes meanwhile and any     *)
(* request may fail, most of which an adapter keeps to itself.  What the   *)
(* scan keeps of the result replaces what Today shows of the company       *)
(* (TodayInbox), if the result counts as reliable.                         *)
(*                                                                         *)
(* A scan uses neither the cache of the resolver nor its fallback.         *)
(***************************************************************************)
EXTENDS Optional, Integers, SequencesExt, FiniteSetsExt

CONSTANTS
  Ids,         \* ids of postings
  Boards,      \* what the company may publish at first, sequences without repetition
  Hits,        \* the keywords a posting is found by, a set for each
  Wanted,      \* the postings that suit the criteria
  Url,         \* where a posting leads: two may lead to one page
  Trusted,     \* the pages on the company's own domains
  Keywords,    \* the keywords of the search, a sequence without repetition
  Adapters,    \* of "board", "offset", "token", "keyword"
  PageLength,  \* of an offset; a board may answer shorter pages
  Cap,         \* postings that a keyword is answered with at most
  MaxFetches, BoardChanges  \* bounds: scans, changes of the board

ASSUME BoardsAssumption == Boards \subseteq Seq(Ids)
ASSUME KeywordsAssumption == Keywords \in Seq(STRING) \ {<<>>}
ASSUME PagesAssumption == PageLength \in Nat /\ Cap \in Nat

VARIABLES
  board,       \* what the company publishes, in its order
  fetch,       \* the fetch of the running scan
  inventory,   \* the postings Today shows of the company
  steady,      \* those published since the fetch began, in an order that did not change
  unanswered,  \* the requests of the fetch that failed: postings and keywords
  fetches, changes

fetchVars == <<board, fetch, inventory, steady, unanswered, fetches, changes>>

world == <<board, inventory, steady, fetches, changes>>

Idle == [adapter |-> None, at |-> "idle", todo |-> <<>>, seen |-> 0, listed |-> <<>>,
         roles |-> <<>>, failed |-> FALSE]

\* The n-th of some positions, and the members of a sequence that are in a set, in their order.
Nth(at, n) == CHOOSE i \in at : Cardinality({j \in at : j < i}) = n - 1
Those(seq, set) == LET at == {i \in DOMAIN seq : seq[i] \in set}
                   IN  [n \in 1..Cardinality(at) |-> seq[Nth(at, n)]]

\* What the board answers to a keyword; the board of an "offset" without keywords is one.
FoundBy(k) == Those(board, {p \in Ids : k \in Hits[p]})

AnyFound == Those(board, {p \in Ids : Hits[p] \cap ToSet(Keywords) # {}})

Fetching(adapter, at) == fetch.adapter = adapter /\ fetch.at = at

FetchInit ==
  /\ board \in Boards
  /\ fetch = Idle /\ inventory = {} /\ steady = {} /\ unanswered = {} /\ fetches = 0 /\ changes = 0

\* _fetch_company.
BeginFetch(adapter) ==
  /\ fetch = Idle /\ fetches < MaxFetches
  /\ fetch' = [Idle EXCEPT !.adapter = adapter, !.at = "list", !.todo = Keywords]
  /\ steady' = ToSet(board)
  /\ unanswered' = {}
  /\ fetches' = fetches + 1
  /\ UNCHANGED <<board, inventory, changes>>

\* The company publishes on top, or withdraws.  A posting that stays behind one that
\* comes or goes is on another page now.
Change ==
  /\ changes < BoardChanges /\ changes' = changes + 1
  /\ \/ \E p \in Ids \ ToSet(board) : board' = <<p>> \o board
     \/ \E i \in DOMAIN board : board' = RemoveAt(board, i)
  /\ steady' = {}
  /\ UNCHANGED <<fetch, inventory, unanswered, fetches>>

(***************************************************************************)
(* Adapters.                                                               *)
(***************************************************************************)
Returns(roles) == [fetch EXCEPT !.at = "done", !.roles = roles]

Suited(seq) == Those(seq, Wanted)

\* An id that was listed before is skipped; the pages of a token are not compared.
Unlisted(seq) == Ids \ ToSet(seq)
Joined(seq, page) == seq \o Those(page, Unlisted(seq))

\* GreenhouseAdapter, LeverAdapter, AshbyAdapter: all postings come at once.
Board ==
  /\ Fetching("board", "list")
  /\ fetch' = Returns(Suited(board))
  /\ UNCHANGED <<world, unanswered>>

\* Mutant of Further: the next page begins a full page later.
FurtherByPages(seen, page) == seen + PageLength

\* offset += len(page).
Further(seen, page) == seen + Len(page)

\* A keyword is finished when its total was reached, or nothing came.
NextKeyword(f) == IF Len(f.todo) = 1 THEN [f EXCEPT !.at = "detail"]
                  ELSE [f EXCEPT !.todo = Tail(f.todo), !.seen = 0]

\* _fetch_postings of WorkdayAdapter and SmartRecruitersAdapter.
OffsetPage ==
  /\ Fetching("offset", "list")
  /\ LET answer == FoundBy(Head(fetch.todo))
         rest   == SubSeq(answer, fetch.seen + 1, Len(answer))
     IN  \E n \in 0..PageLength :
           /\ n <= Len(rest) /\ (n = 0 => rest = <<>>)
           /\ LET page == SubSeq(rest, 1, n)
                  read == [fetch EXCEPT !.listed = Joined(@, page), !.seen = Further(@, page)]
              IN  fetch' = IF read.seen >= Len(answer) \/ page = <<>>
                           THEN NextKeyword(read) ELSE read
  /\ UNCHANGED <<world, unanswered>>

\* _fetch_postings of WorkableAdapter: one query of all keywords, continued by tokens.
TokenPage ==
  /\ Fetching("token", "list")
  /\ LET rest == SubSeq(AnyFound, fetch.seen + 1, Len(AnyFound))
     IN  \E n \in 0..PageLength :
           /\ n <= Len(rest) /\ (n = 0 => rest = <<>>)
           /\ fetch' = [fetch EXCEPT !.listed = @ \o SubSeq(rest, 1, n), !.seen = @ + n,
                                     !.at = IF n = Len(rest) THEN "detail" ELSE @]
  /\ UNCHANGED <<world, unanswered>>

\* Mutant of ListingFailed: what the pages before had listed is used.
ListingFailedLate == [fetch EXCEPT !.at = "detail"]

\* A page that fails leaves nothing of those before it.
ListingFailed == Returns(<<>>)

FailedList ==
  /\ fetch.adapter \in {"board", "offset", "token"} /\ fetch.at = "list"
  /\ fetch' = ListingFailed
  /\ UNCHANGED <<world, unanswered>>

\* The detail of a listed posting; one that is gone or does not suit is dropped.
Detail ==
  /\ fetch.at = "detail"
  /\ IF fetch.listed = <<>> THEN fetch' = Returns(fetch.roles)
     ELSE LET p == Head(fetch.listed)
          IN  fetch' = [fetch EXCEPT !.listed = Tail(@),
                                     !.roles = IF p \in ToSet(board) \cap Wanted
                                               THEN Append(@, p) ELSE @]
  /\ UNCHANGED <<world, unanswered>>

\* A detail that cannot be read is skipped, without a warning.
FailedDetail ==
  /\ fetch.at = "detail" /\ fetch.listed # <<>>
  /\ fetch' = [fetch EXCEPT !.listed = Tail(@)]
  /\ unanswered' = unanswered \cup {Head(fetch.listed)}
  /\ UNCHANGED world

\* AmazonAdapter: a request for each keyword, and what it is answered with at once.
Keyword ==
  /\ Fetching("keyword", "list")
  /\ LET answer == FoundBy(Head(fetch.todo))
         page   == SubSeq(answer, 1, IF Len(answer) < Cap THEN Len(answer) ELSE Cap)
         roles  == Joined(fetch.roles, Suited(page))
     IN  fetch' = IF Len(fetch.todo) = 1 THEN Returns(roles)
                  ELSE [fetch EXCEPT !.todo = Tail(@), !.roles = roles]
  /\ UNCHANGED <<world, unanswered>>

\* A keyword that fails is passed over, without a warning.
FailedKeyword ==
  /\ Fetching("keyword", "list")
  /\ fetch' = IF Len(fetch.todo) = 1 THEN Returns(fetch.roles) ELSE [fetch EXCEPT !.todo = Tail(@)]
  /\ unanswered' = unanswered \cup {Head(fetch.todo)}
  /\ UNCHANGED world

\* SourceResolver._fetch: an exception no adapter catches.
Raise ==
  /\ fetch.at \in {"list", "detail"}
  /\ fetch' = [Returns(<<>>) EXCEPT !.failed = TRUE]
  /\ UNCHANGED <<world, unanswered>>

(***************************************************************************)
(* The result.                                                             *)
(***************************************************************************)
\* _filter_and_dedupe: the first of those that lead to one page.
Deduped(roles) ==
  {roles[i] : i \in {n \in DOMAIN roles : \A m \in 1..(n - 1) : Url[roles[m]] # Url[roles[n]]}}

\* reliable_source_history: something was observed, and nothing gave a warning.
Counts(refused) ==
  /\ fetch.roles # <<>>
  /\ ~ fetch.failed
  /\ \A p \in Deduped(fetch.roles) : Url[p] \in Trusted
  /\ refused = {}

\* fetch_company_roles_result and _persist_source_result; a record may be refused
\* (source_invalid_record).
KeepResult ==
  /\ fetch.at = "done"
  /\ LET roles == Deduped(fetch.roles)
     IN  \E refused \in SUBSET roles :
           inventory' = IF Counts(refused)
                    THEN {p \in roles \ refused : Url[p] \in Trusted} ELSE inventory
  /\ fetch' = Idle
  /\ UNCHANGED <<board, steady, unanswered, fetches, changes>>

\* The process ends; the scan is repeated.
Crash ==
  /\ fetch # Idle /\ fetch' = Idle
  /\ UNCHANGED <<world, unanswered>>

FetchNext ==
  \/ \E a \in Adapters : BeginFetch(a)
  \/ Change \/ Board \/ OffsetPage \/ TokenPage \/ FailedList \/ Detail \/ FailedDetail
  \/ Keyword \/ FailedKeyword \/ Raise \/ KeepResult \/ Crash

FetchSpec == FetchInit /\ [][FetchNext]_fetchVars

(***************************************************************************)
(* Properties.                                                             *)
(***************************************************************************)
\* The requests of this fetch that would have returned the posting.
Asked(p) ==
  IF fetch.adapter = "keyword"
  THEN {k \in Hits[p] \cap ToSet(Keywords) :
          \E i \in DOMAIN FoundBy(k) : FoundBy(k)[i] = p /\ i <= Cap}
  ELSE IF fetch.adapter = "board" \/ Hits[p] \cap ToSet(Keywords) # {} THEN {p} ELSE {}

\* When a result replaces what Today shows of a company whose board did not change, what is
\* published, suits and is missing was asked for in vain: no page is passed over, none of
\* the pages before one that failed is taken for the board, nothing is lost among twins.
MissingWasAskedInVain ==
  [][inventory' # inventory =>
       \A p \in steady \cap Wanted :
         \/ \E q \in inventory' : Url[q] = Url[p]
         \/ Asked(p) \subseteq unanswered]_fetchVars

\* docs/PHASE_2_OPPORTUNITY_RADAR.md:130 "source failure and incomplete inventory never close
\* or hide a posting", and :156 "Current criteria-filtered or partial scans never close or hide
\* an existing opportunity".
FailureHidesNothing ==
  [][\A p \in inventory \ inventory' : p \in steady => \E q \in inventory' : Url[q] = Url[p]]_fetchVars
=============================================================================
