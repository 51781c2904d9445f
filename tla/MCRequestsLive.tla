--------------------------- MODULE MCRequestsLive ---------------------------
(* Requests with two handlers that are served fairly: no symmetry, which   *)
(* is not sound for liveness.                                              *)
EXTENDS Requests
=============================================================================
