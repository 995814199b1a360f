-------------------------- MODULE ContactDiscovery --------------------------
(***************************************************************************)
(* The search for people at a company: three lanes, one question each to   *)
(* the search provider, whose answers may fail, be refused, be cut or say  *)
(* nothing about whether there is more.  What the results show about a     *)
(* person is gathered over all lanes, who is contradicted anywhere leaves  *)
(* the pool, and a bench is chosen from the rest.                          *)
(*                                                                         *)
(* A result is read as what its text shows: whose profile it leads to,     *)
(* whether a person's name and a title can be read from it, and what it    *)
(* says of the employer, the first of "former", "elsewhere" and "current"  *)
(* that applies, or "nothing".                                             *)
(***************************************************************************)
EXTENDS Optional, Integers, SequencesExt, FiniteSetsExt

CONSTANTS
  Profiles,      \* addresses of profiles, numbers for their order
  LinkedIn,      \* those of them on the better of the two sites
  Lists,         \* what a lane may find, sequences of results
  CandidateLimit, \* results asked for, and the size of the pool
  TargetCount,   \* size of the bench
  Floor          \* confidence, in hundredths, that the bench asks for

ContactKinds == {"peer", "leader", "recruiter"}

Titles == [kind : ContactKinds, fits : BOOLEAN, overlaps : BOOLEAN, order : Int]

Results == [profile : Profiles \cup {None}, named : BOOLEAN, title : Titles \cup {None},
            says : {"former", "elsewhere", "current", "nothing"}]

Candidates == [profile : Profiles, title : Titles, score : Int]

ASSUME ProfilesAssumption == IsFiniteSet(Profiles) /\ Profiles \subseteq Int
ASSUME ResultsAssumption == Lists \subseteq Seq(Results)
ASSUME BenchAssumption == CandidateLimit \in Nat /\ TargetCount \in Nat
ASSUME NobodyAssumption == None \notin Candidates /\ None \notin Profiles \cup Titles
                           /\ \A list \in Lists : None # list

VARIABLES
  asked,         \* number of lanes asked
  heard,         \* the results the lanes showed
  existing,      \* the results there were to be shown
  found,         \* per profile its best reading, or None
  evidence,      \* per profile the readings that support it
  blocked,       \* profiles some result contradicts
  failures,      \* lanes that failed, with whether asking again may help
  complete,      \* no page was cut
  outcome        \* None, or the pool, its diagnostics and the bench

peopleVars == <<asked, heard, existing, found, evidence, blocked, failures, complete, outcome>>

Lanes == <<"peer", "leader", "recruiter">>

Mix == <<"peer", "leader", "recruiter", "peer">>

PeopleInit ==
  /\ asked = 0 /\ heard = {} /\ existing = {} /\ blocked = {} /\ failures = {}
  /\ complete = TRUE /\ outcome = None
  /\ found = [p \in Profiles |-> None]
  /\ evidence = [p \in Profiles |-> {}]

(***************************************************************************)
(* The provider.  A response has an HTTP status, whether it can be read,   *)
(* an error text, the search's own verdict, results or none, the claim     *)
(* that there are none, and a link to more.                                *)
(***************************************************************************)
Plain == [status |-> "ok", readable |-> TRUE, error |-> "none", success |-> TRUE,
          results |-> <<>>, empty |-> FALSE, next |-> FALSE]

AtMost(n, s) == SubSeq(s, 1, IF Len(s) < n THEN Len(s) ELSE n)

Responses(list) ==
  LET page == [Plain EXCEPT !.results = AtMost(CandidateLimit, list),
                            !.next = Len(list) > CandidateLimit]
  IN  {page,
       [page EXCEPT !.success = FALSE, !.results = AtMost(1, list)],
       [Plain EXCEPT !.status = "unavailable"], [Plain EXCEPT !.status = "denied"],
       [Plain EXCEPT !.readable = FALSE], [Plain EXCEPT !.error = "quota"],
       [Plain EXCEPT !.error = "other"], [Plain EXCEPT !.results = None]}
      \cup IF list = <<>> THEN {[Plain EXCEPT !.results = None, !.empty = TRUE, !.error = e]
                                  : e \in {"none", "no results"}}
           ELSE {}

\* What never changes by asking again: credentials, quota, a request that is not accepted.
Denied(r) == \/ r.status = "denied"
             \/ r.status = "ok" /\ r.readable /\ r.error = "quota"

Failed(r) ==
  \/ r.status = "unavailable" \/ ~r.readable
  \/ r.error = "other"
  \/ r.error = "no results" /\ ~r.empty
  \/ r.results = None /\ ~r.empty
  \/ r.empty /\ r.results \notin {None, <<>>}

ExhaustedSilently(r) == ~r.next /\ (r.results = None \/ Len(r.results) < CandidateLimit)

\* An answer proves that there is nothing more only if the search says it succeeded, links no
\* further and stayed below what was asked for.
Exhausted(r) == r.success /\ ~r.next /\ (r.results = None \/ Len(r.results) < CandidateLimit)

ResultsOf(r) == IF r.results = None THEN <<>> ELSE r.results

(***************************************************************************)
(* Readings.                                                               *)
(***************************************************************************)
Identified(x) == x.profile # None /\ x.named /\ x.title # None

Contradicts(x) == Identified(x) /\ x.says \in {"former", "elsewhere"}

Supports(x) == Identified(x) /\ x.says = "current" /\ x.title.fits

ConfidenceOf(profile) == IF profile \in LinkedIn THEN 90 ELSE 80

Score(x, lane) ==
  LET total == ((65 * ConfidenceOf(x.profile)) \div 10) + (IF x.profile \in LinkedIn THEN 90 ELSE 60)
                 + (IF x.title.overlaps THEN 140 ELSE 80) + (IF x.title.kind = lane THEN 55 ELSE 20)
                 + 45 + (IF x.title.kind = "peer" THEN 20 ELSE 30)
  IN  IF total > 1000 THEN 1000 ELSE total

Candidate(x, lane) == [profile |-> x.profile, title |-> x.title, score |-> Score(x, lane)]

\* Score, confidence, profile, title: no two candidates of one pool are level.
Outranks(c, d) ==
  LET Key(e) == <<-e.score, -ConfidenceOf(e.profile), e.profile, e.title.order>>
  IN  \E i \in 1..4 : /\ Key(c)[i] < Key(d)[i]
                      /\ \A j \in 1..(i - 1) : Key(c)[j] = Key(d)[j]

\* The first n of the candidates, by rank.
Best(n, from) == {c \in from : Cardinality({d \in from : Outranks(d, c)}) < n}

(***************************************************************************)
(* One lane is asked after the other; a lane that fails does not stop the  *)
(* search, and a contradiction is remembered for whoever comes later.      *)
(***************************************************************************)
Readings(list, p) == {x \in Range(list) : Supports(x) /\ x.profile = p}

\* The best reading of a person takes the place of the others; titles of one order are one title.
Merged(p, list, lane) ==
  LET readings == {Candidate(x, lane) : x \in Readings(list, p)} \cup ({found[p]} \ {None})
  IN  IF readings = {} THEN None
      ELSE CHOOSE c \in readings : \A d \in readings : ~Outranks(d, c)

\* Mutant of Contradicted: only who was found before.
ContradictedLater(list) == {x.profile : x \in {y \in Range(list) : Contradicts(y) /\ found[y.profile] # None}}

Contradicted(list) == {x.profile : x \in {y \in Range(list) : Contradicts(y)}}

Hear(list, r) ==
  LET lane == Lanes[asked + 1]
  IN  /\ asked < Len(Lanes)
      /\ asked' = asked + 1
      /\ existing' = existing \cup Range(list)
      /\ outcome' = outcome
      /\ IF Denied(r) \/ Failed(r)
         THEN /\ failures' = failures \cup {[lane |-> lane, retryable |-> ~Denied(r)]}
              /\ UNCHANGED <<heard, found, evidence, blocked, complete>>
         ELSE /\ heard' = heard \cup Range(ResultsOf(r))
              /\ complete' = (complete /\ Exhausted(r))
              /\ found' = [p \in Profiles |-> Merged(p, ResultsOf(r), lane)]
              /\ evidence' = [p \in Profiles |-> evidence[p] \cup Readings(ResultsOf(r), p)]
              /\ blocked' = blocked \cup Contradicted(ResultsOf(r))
              /\ failures' = failures

(***************************************************************************)
(* The pool, and the bench chosen from it: the best of each kind in turn,  *)
(* then whoever ranks highest.  What order they are kept in is left out.   *)
(***************************************************************************)
Pool == Best(CandidateLimit, {found[p] : p \in {q \in Profiles \ blocked : found[q] # None}})

Eligible(c) == ConfidenceOf(c.profile) >= Floor /\ evidence[c.profile] # {}

\* How often it is the turn of a kind.
Turns(kind) == Cardinality({n \in DOMAIN Mix : n <= TargetCount /\ Mix[n] = kind})

Taken(ranked) == UNION {Best(Turns(kind), {c \in ranked : c.title.kind = kind}) : kind \in ContactKinds}

Bench(pool) ==
  LET ranked == {c \in pool : Eligible(c)}
      taken == Taken(ranked)
  IN  taken \cup Best(TargetCount - Cardinality(taken), ranked \ taken)

LanesAnswered == asked - Cardinality(failures)

Conclude ==
  /\ asked = Len(Lanes) /\ outcome = None
  /\ outcome' = [pool |-> Pool, bench |-> Bench(Pool),
                 exhausted |-> failures = {} /\ complete /\ Cardinality(Pool) < CandidateLimit,
                 retryable |-> \E f \in failures : f.retryable,
                 verdict |-> IF LanesAnswered = 0
                             THEN IF \A f \in failures : ~f.retryable THEN "configuration" ELSE "failure"
                             ELSE IF failures # {} THEN "partial failure"
                             ELSE IF Cardinality(Pool) >= CandidateLimit THEN "limit"
                             ELSE IF complete THEN "exhausted" ELSE "incomplete"]
  /\ UNCHANGED <<asked, heard, existing, found, evidence, blocked, failures, complete>>

PeopleNext == Conclude \/ \E list \in Lists : \E r \in Responses(list) : Hear(list, r)

PeopleSpec == PeopleInit /\ [][PeopleNext]_peopleVars

(***************************************************************************)
(* Properties.                                                             *)
(***************************************************************************)
Deserving(results) == {p \in Profiles : /\ \E x \in results : Supports(x) /\ x.profile = p
                                        /\ ~\E x \in results : Contradicts(x) /\ x.profile = p}

\* The bench has nobody whom a result shown by any lane contradicts, whatever the order of the
\* lanes, and nobody without support; nobody left out of it ranks higher than a chosen person
\* of the same kind; and it is short only when the pool has nobody else.
BenchIsBest ==
  outcome # None =>
    /\ {c.profile : c \in outcome.bench} \subseteq Deserving(heard)
    /\ \A c \in outcome.pool \ outcome.bench : \A d \in outcome.bench :
         Eligible(c) /\ c.title.kind = d.title.kind => Outranks(d, c)
    /\ Cardinality(outcome.bench) < TargetCount =>
         \A c \in outcome.pool : Eligible(c) => c \in outcome.bench

\* A search that calls itself exhausted has everybody in its pool whom the provider could have
\* shown: no failure, cut or silence of any lane passes for an end.
ExhaustionIsProven ==
  outcome # None /\ outcome.exhausted => {c.profile : c \in outcome.pool} = Deserving(existing)

\* Nobody whom a result contradicts is on the bench, and nobody better is left out of it; a search
\* that calls itself exhausted had everybody to choose from.
BenchIsEarned == BenchIsBest /\ ExhaustionIsProven
=============================================================================
