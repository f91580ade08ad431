------------------------- MODULE MCEmitterLifecycle -------------------------
(* Instances of EmitterLifecycle for TLC; the runs check progress, so no symmetry is used. *)
EXTENDS EmitterLifecycle
=============================================================================
