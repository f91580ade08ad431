------------------------- MODULE SuppressionCounter -------------------------
(***************************************************************************)
(* The per-signature suppression counter of src/domain/summary.rs.         *)
(*                                                                         *)
(* Every method that writes the counter does so under `state_lock`, and    *)
(* every caller in the crate holds the storage shard of the entry as well, *)
(* so a method is one function from counter values to counter values.      *)
(*                                                                         *)
(* Timestamps are opaque here: the methods store them and copy them, and   *)
(* compare none (the one subtraction, `duration`, is derived from the two  *)
(* stamps a claim carries).  A stamp is the value as it is stored, after   *)
(* `instant_to_nanos`; on stored values the round trip through             *)
(* `nanos_to_instant` is exact, which is why rolling a claim back may put  *)
(* the stamps of the claim into the counter.                               *)
(***************************************************************************)
EXTENDS Integers

\* A counter: how many suppressions happened and how many of them a claim
\* has taken, the stamps of the first and the last suppression, and the two
\* stamp cursors that move with reported_count.
Counter(Stamp) ==
    [suppressed_count : Nat,
     reported_count   : Nat,
     first_suppressed : Stamp,
     last_suppressed  : Stamp,
     last_reported    : Stamp,
     first_unreported : Stamp]

\* What one claim takes, and what a rollback needs to undo it.
ClaimedSuppressions(Stamp) ==
    [previous_reported_count : Nat,
     previous_last_reported  : Stamp,
     count                   : Nat,
     total_count             : Nat,
     first_suppressed        : Stamp,
     last_suppressed         : Stamp]

NewCounter(timestamp) ==
    [suppressed_count |-> 0,
     reported_count   |-> 0,
     first_suppressed |-> timestamp,
     last_suppressed  |-> timestamp,
     last_reported    |-> timestamp,
     first_unreported |-> timestamp]

SaturatingSub(m, n) == IF m > n THEN m - n ELSE 0

UnreportedCount(c) == SaturatingSub(c.suppressed_count, c.reported_count)

AfterSuppression(c, timestamp) ==
    [c EXCEPT
        !.suppressed_count = @ + 1,
        !.first_suppressed = IF c.suppressed_count = 0 THEN timestamp ELSE @,
        !.first_unreported = IF c.suppressed_count = c.reported_count
                                THEN timestamp ELSE @,
        !.last_suppressed  = timestamp]

\* Mutant: the threshold has to be exceeded.
CanClaimAbove(c, min_count) ==
    UnreportedCount(c) > (IF min_count > 1 THEN min_count ELSE 1)

\* claim_unreported returns Some claim exactly when this holds.
CanClaim(c, min_count) ==
    UnreportedCount(c) >= (IF min_count > 1 THEN min_count ELSE 1)

ClaimOf(c) ==
    [previous_reported_count |-> c.reported_count,
     previous_last_reported  |-> c.last_reported,
     count                   |-> UnreportedCount(c),
     total_count             |-> c.suppressed_count,
     first_suppressed        |-> c.first_unreported,
     last_suppressed         |-> c.last_suppressed]

\* Mutant: the claim does not move reported_count.
AfterClaimKeepsCount(c) ==
    [c EXCEPT
        !.last_reported    = c.last_suppressed,
        !.first_unreported = c.last_suppressed]

AfterClaim(c) ==
    [c EXCEPT
        !.reported_count   = c.suppressed_count,
        !.last_reported    = c.last_suppressed,
        !.first_unreported = c.last_suppressed]

\* Mutants: the newest claim is not rolled back; every claim is, whatever the
\* cursor; the start of the period is not restored.
AfterRollbackInclusive(c, claim) ==
    IF c.reported_count <= claim.total_count
        THEN c
        ELSE [c EXCEPT !.reported_count   = claim.previous_reported_count,
                       !.last_reported    = claim.previous_last_reported,
                       !.first_unreported = claim.first_suppressed]
AfterRollbackUnguarded(c, claim) ==
    [c EXCEPT !.reported_count   = claim.previous_reported_count,
              !.last_reported    = claim.previous_last_reported,
              !.first_unreported = claim.first_suppressed]
AfterRollbackKeepsStart(c, claim) ==
    IF c.reported_count < claim.total_count
        THEN c
        ELSE [c EXCEPT !.reported_count = claim.previous_reported_count,
                       !.last_reported  = claim.previous_last_reported]

\* A claim the reported cursor has already fallen below is left alone.
AfterRollback(c, claim) ==
    IF c.reported_count < claim.total_count
        THEN c
        ELSE [c EXCEPT
                !.reported_count   = claim.previous_reported_count,
                !.last_reported    = claim.previous_last_reported,
                !.first_unreported = claim.first_suppressed]
=============================================================================
