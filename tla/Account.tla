------------------------------ MODULE Account ------------------------------
(***************************************************************************)
(* Workspaces, the credentials attached to them, browser sessions, the     *)
(* recovery of the workspace of the retired access key, and the erasure of *)
(* a workspace.  An HTTP request is several transactions: it is authorised *)
(* in one and carried out in another, so what it knew may be gone by then. *)
(*                                                                         *)
(* A password is right or wrong, an erased owner's rows go with the owner, *)
(* tokens are fresh.  A request may stop between two of its transactions.  *)
(***************************************************************************)
EXTENDS AuthThrottle, FiniteSets

CONSTANTS
  Clients,      \* requests being served at once
  Legacy,       \* the workspace of the retired access key
  NewOwners,    \* identifiers create_account draws from
  Emails,
  Tokens,       \* session tokens
  DeletionKeys, \* idempotency keys of deletions
  None,
  SessionTtl,
  MaxClock      \* bound of the clock

VARIABLES
  clock,
  owner,     \* owners: "unused", "present" or "erased"
  email,     \* owner_credentials: the address attached to an owner
  session,   \* owner_sessions
  issued,    \* tokens drawn so far; an erasure takes the rows of some
  login,     \* the throttle row of the login identifiers
  signup,    \* the throttle row of all signups
  deletions, \* privacy_deletion_receipts
  req        \* the request each client has under way

accountVars == <<clock, owner, email, session, issued, login, signup, deletions, req>>

Owners == NewOwners \cup {Legacy}

NoSession == [owner |-> None, until |-> 0, revoked |-> FALSE]

Idle == [op |-> "idle", owner |-> None, token |-> None, arg |-> None]

Present(o) == owner[o] = "present"

\* load_owner_session
Live(t) == session[t].owner # None /\ ~session[t].revoked /\ session[t].until > clock

LiveSessions(o) == {t \in Tokens : Live(t) /\ session[t].owner = o}

Taken(e) == \E o \in Owners : email[o] = e

\* legacy_recovery_state, with recovery required and the retired key configured.
RecoveryState ==
  IF ~Present(Legacy)
  THEN IF \E o \in Owners : Present(o) /\ email[o] = None THEN "misconfigured"
                                                          ELSE "complete"
  ELSE IF email[Legacy] # None THEN "complete" ELSE "pending"

AccountInit ==
  /\ clock = 1
  /\ owner \in {[o \in Owners |-> IF o \in P THEN "present" ELSE "unused"] :
                  P \in {{}, {Legacy}}}
  /\ email = [o \in Owners |-> None]
  /\ issued \in SUBSET Tokens /\ Cardinality(issued) <= 2
  /\ issued # {} => Present(Legacy)
  /\ session = [t \in Tokens |-> IF t \in issued
                  THEN [owner |-> Legacy, until |-> 1 + SessionTtl, revoked |-> FALSE]
                  ELSE NoSession]
  /\ login = NoBucket /\ signup = NoBucket
  /\ deletions = {}
  /\ req = [c \in Clients |-> Idle]

Tick == clock < MaxClock /\ clock' = clock + 1
        /\ UNCHANGED <<owner, email, session, issued, login, signup, deletions, req>>

(***************************************************************************)
(* What the transactions write.                                            *)
(***************************************************************************)
Done(c) == req' = [req EXCEPT ![c] = Idle]

\* create_owner_session draws a fresh token and makes sure its owner exists.
GrantFrom(rows, o) ==
  \E t \in Tokens \ issued :
    /\ issued' = issued \cup {t}
    /\ session' = [rows EXCEPT ![t] =
                     [owner |-> o, until |-> clock + SessionTtl, revoked |-> FALSE]]

EnsureOwner(o) == owner' = [owner EXCEPT ![o] = "present"]

\* The sessions once a credential is attached: none of the owner's is left.
AttachedTo(o) ==
  [t \in Tokens |-> IF session[t].owner = o THEN [session[t] EXCEPT !.revoked = TRUE]
                                            ELSE session[t]]

(***************************************************************************)
(* Signup: the state of the recovery, the capacity and the account are     *)
(* three transactions.                                                     *)
(***************************************************************************)
SignupGate(c, e) ==
  /\ req[c] = Idle
  /\ RecoveryState = "complete"
  /\ req' = [req EXCEPT ![c] = [Idle EXCEPT !.op = "capacity", !.arg = e]]
  /\ UNCHANGED <<clock, owner, email, session, issued, login, signup, deletions>>

SignupCapacity(c) ==
  /\ req[c].op = "capacity"
  /\ signup' = Consumed(signup, clock)
  /\ req' = [req EXCEPT ![c] = IF Granted(signup, clock) THEN [@ EXCEPT !.op = "create"]
                                                         ELSE Idle]
  /\ UNCHANGED <<clock, owner, email, session, issued, login, deletions>>

\* Mutant of MayAttach: the address is not looked up again.
AttachAnyway(e) == TRUE

\* The address is free; its unique constraint decides between two at once.
MayAttach(e) == ~Taken(e)

CreateAccount(c) ==
  /\ req[c].op = "create" /\ MayAttach(req[c].arg)
  /\ \E o \in NewOwners :
       /\ owner[o] = "unused"
       /\ EnsureOwner(o)
       /\ email' = [email EXCEPT ![o] = req[c].arg]
       /\ GrantFrom(session, o)
  /\ Done(c)
  /\ UNCHANGED <<clock, login, signup, deletions>>

(***************************************************************************)
(* Login: one transaction, which reads the credential and, once the        *)
(* password is verified, makes a session for its owner.  The advisory lock *)
(* of the throttle row is held in between.                                 *)
(***************************************************************************)
AnsweredNo(c, row) ==
  /\ login' = row
  /\ UNCHANGED <<clock, owner, email, session, issued, signup, deletions, req>>

LoginVerify(c, e) ==
  LET row == Reopened(login, clock) IN
  /\ req[c] = Idle
  /\ \A d \in Clients : req[d].op # "grant"
  /\ \/ \E o \in Owners :                                  \* the right password
          /\ email[o] = e
          /\ req' = [req EXCEPT ![c] = [Idle EXCEPT !.op = "grant", !.owner = o]]
          /\ UNCHANGED <<clock, owner, email, session, issued, login, signup, deletions>>
     \/ MayCount(row, clock) /\ AnsweredNo(c, Failed(row, clock))  \* a wrong one
     \/ ~(Blocked(row, clock) /\ ~Taken(e)) /\ AnsweredNo(c, row)  \* no slot to hash in

LoginGrant(c) ==
  /\ req[c].op = "grant"
  /\ login' = NoBucket
  /\ EnsureOwner(req[c].owner)
  /\ GrantFrom(session, req[c].owner)
  /\ Done(c)
  /\ UNCHANGED <<clock, email, signup, deletions>>

(***************************************************************************)
(* Requests of a session: require_owner_mutation authorises in a           *)
(* transaction of its own.                                                 *)
(***************************************************************************)
Authorise(c, t, op, arg) ==
  /\ req[c] = Idle /\ Live(t)
  /\ req' = [req EXCEPT ![c] = [op |-> op, owner |-> session[t].owner, token |-> t,
                                arg |-> arg]]
  /\ UNCHANGED <<clock, owner, email, session, issued, login, signup, deletions>>

Logout(c) ==
  /\ req[c].op = "logout"
  /\ session' = IF Live(req[c].token)
                THEN [session EXCEPT ![req[c].token].revoked = TRUE] ELSE session
  /\ Done(c)
  /\ UNCHANGED <<clock, owner, email, issued, login, signup, deletions>>

Attach(o, e) ==
  /\ Present(o) /\ email[o] = None /\ MayAttach(e)
  /\ email' = [email EXCEPT ![o] = e]
  /\ GrantFrom(AttachedTo(o), o)

\* Mutant of ClaimAuthorised: what was authorised is trusted.
ClaimTrusted(r) == Present(r.owner)

\* The claim looks again: its session is the only one left of the workspace.
ClaimAuthorised(r) == LiveSessions(r.owner) = {r.token}

Claim(c) ==
  /\ req[c].op = "claim" /\ ClaimAuthorised(req[c])
  /\ Attach(req[c].owner, req[c].arg)
  /\ Done(c)
  /\ UNCHANGED <<clock, owner, login, signup, deletions>>

\* recover_legacy_account, asked with the retired key.
Recover(e) ==
  /\ Attach(Legacy, e)
  /\ UNCHANGED <<clock, owner, login, signup, deletions, req>>

(***************************************************************************)
(* Erasure: the receipt of the key is looked up; without one the owner is  *)
(* locked and deleted with everything it owns, in the same transaction.    *)
(***************************************************************************)
Replays(o, k) == <<o, k>> \in deletions

ErasureLookup(c) ==
  /\ req[c].op = "delete"
  /\ req' = [req EXCEPT ![c] = IF Replays(@.owner, @.arg) THEN Idle
                                                          ELSE [@ EXCEPT !.op = "erase"]]
  /\ UNCHANGED <<clock, owner, email, session, issued, login, signup, deletions>>

\* The unique constraint of the receipts.
ReceiptUnique(o, k) == <<o, k>> \notin deletions

\* Mutant of KeptReceipts: receipts are rows of the owner and go with it.
ReceiptsGoWithOwner(o, k) == {r \in deletions : r[1] # o}

\* Receipts name no owner row, so they outlive it.
KeptReceipts(o, k) == deletions \cup {<<o, k>>}

\* What the owner had goes with it.
SessionsWithout(o) ==
  [t \in Tokens |-> IF session[t].owner = o THEN NoSession ELSE session[t]]

Erase(c) ==
  LET o == req[c].owner IN
  /\ req[c].op = "erase" /\ Present(o) /\ ReceiptUnique(o, req[c].arg)
  /\ deletions' = KeptReceipts(o, req[c].arg)
  /\ owner' = [owner EXCEPT ![o] = "erased"]
  /\ email' = [email EXCEPT ![o] = None]
  /\ session' = SessionsWithout(o)
  /\ Done(c)
  /\ UNCHANGED <<clock, issued, login, signup>>

\* A request refused with a conflict, or a process that dies: nothing is committed.
Abort(c) ==
  /\ req[c] # Idle /\ Done(c)
  /\ UNCHANGED <<clock, owner, email, session, issued, login, signup, deletions>>

AccountNext ==
  \/ Tick
  \/ \E e \in Emails : Recover(e)
  \/ \E c \in Clients :
       \/ \E e \in Emails : SignupGate(c, e) \/ LoginVerify(c, e)
       \/ SignupCapacity(c) \/ CreateAccount(c) \/ LoginGrant(c)
       \/ \E t \in Tokens :
            \/ Authorise(c, t, "logout", None)
            \/ \E e \in Emails : Authorise(c, t, "claim", e)
            \/ \E k \in DeletionKeys : Authorise(c, t, "delete", k)
       \/ Logout(c) \/ Claim(c) \/ ErasureLookup(c) \/ Erase(c) \/ Abort(c)

AccountSpec == AccountInit /\ [][AccountNext]_accountVars

(***************************************************************************)
(* Properties.                                                             *)
(***************************************************************************)
\* auth.py, create_account, claim_account, recover_legacy_account: whatever requests
\* overlap, an address opens one workspace, and neither credentials nor sessions outlive
\* theirs.
AccountsCoherent ==
  /\ \A o, p \in Owners : email[o] = email[p] /\ email[o] # None => o = p
  /\ \A o \in Owners : email[o] # None => Present(o)
  /\ \A t \in Tokens : session[t].owner # None => Present(session[t].owner)

\* auth.py, claim_account and recover_legacy_account: attaching a credential to an existing
\* workspace leaves its new session as the only way in, and a claim succeeds only while the
\* session that asked for it is still the only one, although it was authorised earlier.
AttachClosesTheOthers ==
  [][/\ \A o \in Owners : Present(o) /\ email[o] = None /\ email'[o] # None =>
          LiveSessions(o)' \subseteq Tokens \ issued
     /\ \A c \in Clients : req[c].op = "claim" /\ req'[c] = Idle /\ email' # email =>
          LiveSessions(req[c].owner) = {req[c].token}]_accountVars

\* privacy_repository.py, delete_owner_workspace: a deletion repeated with its key never
\* erases anything again, not even a workspace that exists anew.
OneErasurePerKey ==
  [][\A o \in Owners : Present(o) /\ ~Present(o)' =>
       \E k \in DeletionKeys :
         deletions' = deletions \cup {<<o, k>>} /\ <<o, k>> \notin deletions]_accountVars

\* auth.py, authenticate_account and _consume_auth_capacity: while a throttle row is blocked,
\* attempts neither prolong the block nor count towards the next one.
BlockKeepsItsHour ==
  [][/\ Blocked(login, clock) => login' \in {login, NoBucket}
     /\ Blocked(signup, clock) => signup' = signup]_accountVars

\* What requests promise each other: the three above.
AccountsKeepTheirWord == AttachClosesTheOthers /\ OneErasurePerKey /\ BlockKeepsItsHour

\* docs/PHASE_6_PRIVACY_CONTROLS.md: an erased workspace is gone, with every session.
ErasedStaysErased ==
  [][\A o \in Owners : owner[o] = "erased" => owner'[o] = "erased"]_accountVars
=============================================================================
