------------------------------- MODULE MCCurl -------------------------------
(***************************************************************************)
(* Two origins; libcurl asks for no timer, or for one that is longer than  *)
(* the limit.                                                              *)
(***************************************************************************)
EXTENDS Curl

CONSTANTS o1, o2
MCOrigins == {o1, o2}
MCTimers == {-1, 5000}
=============================================================================
