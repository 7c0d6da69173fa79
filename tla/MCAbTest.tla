------------------------------- MODULE MCAbTest -------------------------------
(***************************************************************************)
(* AbTest for two A/B sends and a default send, one at a time.  The second *)
(* A/B send has no link and, on KakaoTalk, no remainder, so that its row   *)
(* may stay in the list of every run.                                      *)
(***************************************************************************)
EXTENDS AbTest

CONSTANTS s1, s2, d1    \* sends
=============================================================================
