---------------------------- MODULE MCDisparaGO ----------------------------
(***************************************************************************)
(* Instances of DisparaGO for TLC.  The .cfg files choose the actors; all  *)
(* clients and webhooks are served by process p1.                          *)
(***************************************************************************)
EXTENDS DisparaGO, TLC

CONSTANTS c1, c2, m1, m2, p1, k1, k2

\* All messages are of campaign c1.
OneCampaign == [m \in Messages |-> c1]

\* One message each of campaigns c1 and c2.
TwoCampaigns == [m \in Messages |-> IF m = m1 THEN c1 ELSE c2]

ClientsOnP1 == [k \in Clients |-> p1]
TrackersOnP1 == [t \in Trackers |-> p1]

\* The messages of one campaign are interchangeable.
SameCampaign == Permutations(Messages)

\* So are two clients of one process.
SameHost == Permutations(Clients)
=============================================================================
