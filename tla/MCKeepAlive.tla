----------------------------- MODULE MCKeepAlive -----------------------------
(* Model checking of the tunnel loop and its keepalive thread.              *)
EXTENDS KeepAlive

\* The request interval shorter and longer than the reply timeout.
MCIntervals == {1, 3}

=============================================================================
