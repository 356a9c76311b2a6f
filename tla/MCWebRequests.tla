--------------------------- MODULE MCWebRequests ---------------------------
(* An instance of WebRequests for TLC: requests with one session.            *)
EXTENDS WebRequests

CONSTANTS a1, s1, v1

OneAccount == [s \in Session |-> a1]
Defaults == [f \in Field |-> v1]
=============================================================================
