---------------------------- MODULE MCRateLimiter ----------------------------
(* Instances of RateLimiter for TLC. *)
EXTENDS RateLimiter, TLC

\* Policies of each kind, with parameters that the constructors refuse as
\* well.  One bucket holds one and a half tokens and refills half a token per
\* tick, one holds less than a token.
EveryPolicy ==
    {CountBased(n) : n \in {0, 2}} \cup {TimeWindow(n, w) : n \in {0, 2}, w \in {0, 2}}
    \cup {ExponentialBackoff} \cup {TokenBucket(c, r) : c \in {0, 1, 3}, r \in {0, 1}}

Symmetry == Permutations(Threads) \cup Permutations(Signatures)
=============================================================================
