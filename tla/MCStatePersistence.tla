------------------------- MODULE MCStatePersistence -------------------------
(* Instances of StatePersistence for TLC. *)
EXTENDS StatePersistence

Legacy ==
    [format |-> "legacy", suppressed_count |-> 1, first_suppressed |-> 1, last_suppressed |-> 1]

\* Two suppressions of which one was reported.
Reported ==
    [format |-> "reported", suppressed_count |-> 2, reported_count |-> 1,
     first_suppressed |-> 0, last_suppressed |-> 1, last_reported |-> 0]

Stored == {None, Legacy, Reported}
=============================================================================
