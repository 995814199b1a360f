-------------------------- MODULE PostingIdentity --------------------------
(***************************************************************************)
(* Which posting a role found by a scan belongs to: persist_scan_source_role *)
(* on the postings of one company.  A role has a URL and mostly a native   *)
(* requisition id; several requisitions may share a URL.  A posting found  *)
(* by its URL alone is promoted by the first native sighting.              *)
(*                                                                         *)
(* A scan persists its roles one at a time, each in two steps: it finds a  *)
(* posting or none among the committed rows, then waits for the row (or    *)
(* for a row another transaction inserts under the same key) and does the  *)
(* rest with the row locked.  The locks it keeps until the source commits  *)
(* only take interleavings away.  The match and the opportunity that       *)
(* follow the posting are left out; Pursuit has the opportunity.           *)
(***************************************************************************)
EXTENDS Integers, FiniteSets

CONSTANTS
  ScanRuns,     \* scans running at the same time, each with one source
  Natives,      \* requisition ids
  Urls,
  Contents,     \* what the public facts of a role may say
  MaxPostings,  \* bound: postings
  MaxVersions,  \* bound: versions of a posting
  MaxChanges,   \* bound: changes of the company's inventory
  NoNative, NoSighting

VARIABLES
  posting,      \* the postings, by id
  alias,        \* alias key -> id of its posting
  seen,         \* the roles a scan has dealt with, and the posting observed, if any
  sighting,     \* the role a scan is persisting, and the posting it found
  inventory,    \* external: the roles the company offers
  changes       \* how often the inventory changed

postingVars == <<posting, alias, seen, sighting, inventory, changes>>

Ids == 1..MaxPostings

New == 0

Roles == [native : Natives \cup {NoNative}, url : Urls, content : Contents]

\* posting_identity and _alias_specs: the keys a role is known under.
Identity(role) == IF role.native = NoNative THEN <<"url", role.url>>
                  ELSE <<"native", role.native>>

Keys(role) == {Identity(role), <<"url", role.url>>}

\* external: a source lists a requisition, or a URL without one, once.
Offerable(roles) == /\ Cardinality(roles) <= 2
                    /\ \A a, b \in roles : Identity(a) = Identity(b) => a = b

PostingInit == /\ posting = <<>>
               /\ alias = <<>>
               /\ seen = [s \in ScanRuns |-> {}]
               /\ sighting = [s \in ScanRuns |-> NoSighting]
               /\ inventory \in {roles \in SUBSET Roles : Offerable(roles)}
               /\ changes = 0

\* external.
Change ==
  /\ changes < MaxChanges
  /\ changes' = changes + 1
  /\ inventory' \in {roles \in SUBSET Roles : Offerable(roles)}
  /\ UNCHANGED <<posting, alias, seen, sighting>>

\* _can_merge_url_alias_candidate.
MayMerge(n, role) ==
  LET natives == {k \in DOMAIN alias : alias[k] = n /\ k[1] = "native"}
  IN  \/ role.native = NoNative
      \/ IF posting[n].key[1] = "native" THEN posting[n].key = Identity(role)
         ELSE natives = {} \/ Identity(role) \in natives

\* _find_or_create_posting: by identity, by the alias of the identity, by the URL.
Find(role) ==
  LET own     == {n \in DOMAIN posting : posting[n].key = Identity(role)}
      by(key) == IF key \in DOMAIN alias THEN {alias[key]} ELSE {}
      shared  == {n \in by(<<"url", role.url>>) : MayMerge(n, role)}
  IN  CHOOSE n \in Ids \cup {New} :
        IF own # {} THEN n \in own
        ELSE IF by(Identity(role)) # {} THEN n \in by(Identity(role))
        ELSE IF shared # {} THEN n \in shared ELSE n = New

Begin(s, role) ==
  /\ sighting[s] = NoSighting
  /\ role \in inventory /\ \A o \in seen[s] : Identity(o.role) # Identity(role)
  /\ sighting' = [sighting EXCEPT ![s] = [role |-> role, found |-> Find(role)]]
  /\ UNCHANGED <<posting, alias, seen, inventory, changes>>

\* Mutant of Moved: the row is not looked at again.
NeverMoved(w) == FALSE

\* The posting became that of another requisition while the scan waited for its row.
Moved(w) == /\ w.found # New /\ w.role.native # NoNative
            /\ posting[w.found].key[1] = "native" /\ posting[w.found].key # Identity(w.role)

\* The key of a posting that was to be inserted is taken by now.
Taken(w) == w.found = New /\ \E n \in DOMAIN posting : posting[n].key = Identity(w.role)

\* The row that is locked in the end, a new one included.
Located(w) ==
  LET n == IF Moved(w) \/ Taken(w) THEN Find(w.role) ELSE w.found
  IN  IF n = New THEN Cardinality(DOMAIN posting) + 1 ELSE n

\* The keys that are no other posting's.
Free(n, role) == {k \in Keys(role) : k \in DOMAIN alias => alias[k] = n}

\* _ensure_alias: only the URL may belong to another posting, and only if there is an id.
Placed(n, role) == Identity(role) \in Free(n, role)

Observed(s, n) == \E o \in seen[s] : o.at = n

Row(n, role) ==
  IF n \notin DOMAIN posting
  THEN [key |-> Identity(role), content |-> role.content, version |-> 1]
  ELSE LET p == posting[n]
       IN  [key     |-> IF role.native # NoNative /\ p.key[1] = "url"
                        THEN Identity(role) ELSE p.key,
            content |-> role.content,
            version |-> p.version + IF p.content = role.content THEN 0 ELSE 1]

Deal(s, n) == /\ seen' = [seen EXCEPT ![s] = @ \cup {[role |-> sighting[s].role, at |-> n]}]
              /\ sighting' = [sighting EXCEPT ![s] = NoSighting]
              /\ UNCHANGED <<inventory, changes>>

\* persist_scan_source_role, from the lock on.
Persist(s) ==
  LET role == sighting[s].role
      n    == Located(sighting[s])
  IN  /\ sighting[s] # NoSighting /\ n \in Ids
      /\ ~Observed(s, n) /\ Placed(n, role)
      /\ Row(n, role).version <= MaxVersions
      /\ posting' = [m \in DOMAIN posting \cup {n} |-> IF m = n THEN Row(n, role) ELSE posting[m]]
      /\ alias' = [k \in DOMAIN alias \cup Free(n, role) |->
                     IF k \in Free(n, role) THEN n ELSE alias[k]]
      /\ Deal(s, n)

\* The scan has observed the posting before, or the role cannot be placed.
Skip(s) ==
  LET n == Located(sighting[s])
  IN  /\ sighting[s] # NoSighting
      /\ Observed(s, n) \/ ~Placed(n, sighting[s].role)
      /\ Deal(s, New)
      /\ UNCHANGED <<posting, alias>>

\* The source was listed to its end.  Nothing is done about the postings it left out.
Finish(s) ==
  /\ sighting[s] = NoSighting
  /\ \A role \in inventory : \E o \in seen[s] : Identity(o.role) = Identity(role)
  /\ seen' = [seen EXCEPT ![s] = {}]
  /\ UNCHANGED <<posting, alias, sighting, inventory, changes>>

PostingNext ==
  \/ \E s \in ScanRuns : \/ \E role \in Roles : Begin(s, role)
                         \/ Persist(s) \/ Skip(s) \/ Finish(s)
  \/ Change

PostingSpec == PostingInit /\ [][PostingNext]_postingVars

(***************************************************************************)
(* Properties.                                                             *)
(***************************************************************************)
NativesOf(n) == {k \in DOMAIN alias : alias[k] = n /\ k[1] = "native"}

\* However scans overlap, and whichever URLs requisitions share: no two postings have one
\* identity, no posting holds two requisitions, and the one a posting is named for leads
\* to it.
RequisitionsApart ==
  /\ \A m, n \in DOMAIN posting : posting[m].key = posting[n].key => m = n
  /\ \A n \in DOMAIN posting :
       NativesOf(n) = IF posting[n].key[1] = "native" THEN {posting[n].key} ELSE {}
=============================================================================
