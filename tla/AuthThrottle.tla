---------------------------- MODULE AuthThrottle ----------------------------
(***************************************************************************)
(* The throttle rows of auth.py as row transformers.  A row counts the     *)
(* failures of a window and may be blocked until an instant; instants      *)
(* start at 1, so 0 is "never".  One row serves every identifier that      *)
(* hashes to it.                                                           *)
(***************************************************************************)
EXTENDS Integers

CONSTANTS
  Window,         \* AUTH_WINDOW
  Block,          \* AUTH_BLOCK
  FailureLimit,   \* AUTH_FAILURE_LIMIT
  SignupLimit     \* GLOBAL_SIGNUP_ATTEMPT_LIMIT

ThrottleLegal ==
  /\ {Window, Block, FailureLimit, SignupLimit} \subseteq Nat \ {0}
  /\ Block >= Window

NoBucket == [count |-> 0, since |-> 0, until |-> 0]

Blocked(b, now) == b.until > now

\* A login that finds the block over starts a new window.
Reopened(b, now) ==
  IF b.until # 0 /\ ~Blocked(b, now) THEN [count |-> 0, since |-> now, until |-> 0] ELSE b

Elapsed(b, now) == b = NoBucket \/ b.since + Window <= now

\* A wrong password on a row that is not blocked.
Failed(b, now) ==
  LET n == IF Elapsed(b, now) THEN 1 ELSE b.count + 1
  IN  [count |-> n, since |-> IF Elapsed(b, now) THEN now ELSE b.since,
       until |-> IF n >= FailureLimit THEN now + Block ELSE 0]

\* Mutant of MayCount: a wrong password counts while the row is blocked, too.
MayAlwaysCount(b, now) == TRUE

\* Whether a wrong password is counted.
MayCount(b, now) == ~Blocked(b, now)

\* _consume_auth_capacity: whether the operation is granted, and the row after it.
Granted(b, now) ==
  ~Blocked(b, now) /\ (Elapsed(b, now) \/ b.count < SignupLimit)

Consumed(b, now) ==
  IF Blocked(b, now) THEN b
  ELSE IF Elapsed(b, now) THEN [count |-> 1, since |-> now, until |-> 0]
  ELSE IF b.count >= SignupLimit THEN [b EXCEPT !.until = now + Block]
  ELSE [b EXCEPT !.count = @ + 1]
=============================================================================
