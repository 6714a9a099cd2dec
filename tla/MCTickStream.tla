---------------------------- MODULE MCTickStream ----------------------------
(***************************************************************************)
(* TickStream for TLC, on two transports: any, and one that is orderly     *)
(* (nothing lost or repeated, an observation after its own pulse), which   *)
(* is the one liveness can be asked of.                                    *)
(***************************************************************************)
EXTENDS TickStream

VARIABLE orderly

\* The last run is the longest, as FollowsRestartedClock asks.
ThreeRuns == <<2, 1, 3>>

InOrderNext ==
  \/ Pulse \/ RestartClock \/ DeliverPulse \/ ResetEpisode
  \/ DeliverObservation /\ ~Contains(pulses, wire[1])

MCInit == Init /\ orderly \in BOOLEAN
MCNext ==
  /\ IF orderly THEN InOrderNext ELSE Next
  /\ UNCHANGED orderly

MCSpec == MCInit /\ [][MCNext]_<<vars, orderly>> /\ Fairness

\* FollowsRestartedClock, on an orderly transport.
FollowsOrderly == orderly => FollowsRestartedClock
=============================================================================
