------------------------------- MODULE MCRudp -------------------------------
(* Model checking of the reliable UDP transport.                            *)
EXTENDS Rudp

\* Timeouts below the minimum, between the limits and above the maximum.
MCRTOs == {1, 3, 5, 11}

=============================================================================
