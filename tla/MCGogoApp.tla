------------------------------ MODULE MCGogoApp ------------------------------
(* Model checking of the Android application.                               *)
EXTENDS GogoApp

=============================================================================
