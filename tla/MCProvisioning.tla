--------------------------- MODULE MCProvisioning ---------------------------
(***************************************************************************)
(* An instance of Provisioning for TLC: two containers start side by side, *)
(* the first serves all callers.                                           *)
(***************************************************************************)
EXTENDS Provisioning

CONSTANTS p1, p2, k1, k2

\* A company alone; two users, one of whom shares name and reference with the user of a
\* campaign; and a campaign of one company or another, created now or scheduled, with
\* and without a user.
SomeCalls ==
  {CompanyCall("c2"),
   UserCall(1, "rui", "u1"), UserCall(1, "ana", "u2"),
   CampaignCall("c1", "ana", "u1", "e1", "now"),
   CampaignCall("c2", NoName, NoRef, "e1", "scheduled")}

OnP1 == [k \in SyncClients |-> p1]
=============================================================================
