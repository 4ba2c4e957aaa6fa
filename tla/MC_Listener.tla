---------------------------- MODULE MC_Listener ----------------------------
(***************************************************************************)
(* A TCP Listener (NewListener) and a UDP Listener (NewUdpListener) of one *)
(* server, each with its own Close: the steps of the two interleave.       *)
(***************************************************************************)
EXTENDS Listener, UdpListener, TLC

allvars == <<vars, uvars>>

MCInit == Init /\ UdpInit

MCNext ==
  \/ Next /\ UNCHANGED uvars
  \/ UdpNext /\ UNCHANGED vars

MCSpec == MCInit /\ [][MCNext]_allvars /\ Fairness /\ UdpFairness
=============================================================================
