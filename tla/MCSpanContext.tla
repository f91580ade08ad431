---------------------------- MODULE MCSpanContext ----------------------------
(* Instances of SpanContext for TLC. *)
EXTENDS SpanContext, TLC

CONSTANTS a, b, user, tenant, s1, s2, app, audit, v1, v2

TwoFilters == <<a, b>>

\* Filter a needs one field, b needs both.
Configured == (a :> {user}) @@ (b :> {user, tenant})

ExcludedByB == (a :> {}) @@ (b :> {tenant})
ExemptForA == (a :> {audit}) @@ (b :> {})

\* The outer span declares both fields, the inner one only one.
DeclaredFields == (s1 :> {user, tenant}) @@ (s2 :> {user})

Plain == [target |-> app, fields |-> <<>>]
Shadowing == [target |-> app, fields |-> user :> v1 @@ tenant :> v1]
Audited == [target |-> audit, fields |-> <<>>]
Summary == [target |-> SummaryTarget, fields |-> <<>>]

AllEvents == {Plain, Shadowing, Audited, Summary}

Symmetry == Permutations(Threads)
=============================================================================
