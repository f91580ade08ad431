--------------------------- MODULE SummaryDelivery ---------------------------
(***************************************************************************)
(* What the emission of summaries promises to the reader of the log, with  *)
(* one claimant: every suppression is pending, claimed or delivered, and   *)
(* moves from one to the next as a whole.  The claims of one emission are  *)
(* delivered together or all returned, though the reader may already have  *)
(* seen some of those returned: it sees every suppression of a delivered   *)
(* batch at least once, and one of a failed batch perhaps again.  A        *)
(* suppression disappears only together with the entry of its signature.   *)
(*                                                                         *)
(* SummaryEmission implements this specification.                          *)
(***************************************************************************)
EXTENDS Naturals

CONSTANTS
    Signatures,
    Threshold    \* at least one; fewer pending suppressions are not claimed

VARIABLES
    pending,    \* signature -> suppressions not yet claimed
    claimed,    \* signature -> suppressions in the hands of the emitter
    delivered,  \* signature -> suppressions that summaries have reported
    seen,       \* signature -> suppressions the reader has been shown, from the first
    returning   \* is an emission that failed giving its claims back?

vars == <<pending, claimed, delivered, seen, returning>>

SomeClaimed == \E s \in Signatures : claimed[s] > 0

Init ==
    /\ pending = [s \in Signatures |-> 0]
    /\ claimed = [s \in Signatures |-> 0]
    /\ delivered = [s \in Signatures |-> 0]
    /\ seen = [s \in Signatures |-> 0]
    /\ returning = FALSE

Suppress(s) ==
    /\ pending' = [pending EXCEPT ![s] = @ + 1]
    /\ UNCHANGED <<claimed, delivered, seen, returning>>

\* A claim takes everything that is pending for the signature.
Claim(s) ==
    /\ ~returning
    /\ pending[s] >= Threshold
    /\ claimed' = [claimed EXCEPT ![s] = @ + pending[s]]
    /\ pending' = [pending EXCEPT ![s] = 0]
    /\ UNCHANGED <<delivered, seen, returning>>

Deliver ==
    /\ ~returning
    /\ SomeClaimed
    /\ delivered' = [s \in Signatures |-> delivered[s] + claimed[s]]
    /\ seen' = [s \in Signatures |-> IF claimed[s] > 0 THEN delivered'[s] ELSE seen[s]]
    /\ claimed' = [s \in Signatures |-> 0]
    /\ UNCHANGED <<pending, returning>>

\* An emission fails after it has shown the summaries of some signatures.
Fail ==
    /\ ~returning
    /\ SomeClaimed
    /\ returning' = TRUE
    /\ \E part \in SUBSET Signatures :
          seen' = [s \in Signatures |-> IF s \in part /\ claimed[s] > 0
                                           THEN delivered[s] + claimed[s] ELSE seen[s]]
    /\ UNCHANGED <<pending, claimed, delivered>>

Return(s) ==
    /\ returning
    /\ claimed[s] > 0
    /\ pending' = [pending EXCEPT ![s] = @ + claimed[s]]
    /\ claimed' = [claimed EXCEPT ![s] = 0]
    /\ returning' = SomeClaimed'
    /\ UNCHANGED <<delivered, seen>>

\* The entry of the signature is evicted, with all it counted.
Forget(s) ==
    /\ pending' = [pending EXCEPT ![s] = 0]
    /\ claimed' = [claimed EXCEPT ![s] = 0]
    /\ delivered' = [delivered EXCEPT ![s] = 0]
    /\ seen' = [seen EXCEPT ![s] = 0]
    /\ returning' = (returning /\ SomeClaimed')

Next ==
    \/ \E s \in Signatures : Suppress(s) \/ Claim(s) \/ Return(s) \/ Forget(s)
    \/ Deliver
    \/ Fail

Spec == Init /\ [][Next]_vars
=============================================================================
