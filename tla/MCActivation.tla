---------------------------- MODULE MCActivation ----------------------------
(* A Provider activated directly, twice, and two taken over: retries of one *)
(* command, direct switches, first takeovers and hot switches.              *)
EXTENDS Activation

Command(id, provider, mode) == [id |-> id, provider |-> provider, mode |-> mode]

MCActions ==
  {Command(1, "p", "direct"), Command(2, "p", "direct"),
   Command(3, "p", "takeover"), Command(4, "q", "takeover")}
=============================================================================
