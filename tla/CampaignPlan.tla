----------------------------- MODULE CampaignPlan -----------------------------
(***************************************************************************)
(* What the service promises about when a campaign is sent, whatever       *)
(* requests race whichever schedulers: it is released only while it is     *)
(* scheduled, never while it is cancelled; one that was released is        *)
(* neither cancelled nor scheduled again, unless the scheduler that holds  *)
(* its release takes it back; and one scheduler at most holds it.          *)
(***************************************************************************)
EXTENDS FiniteSets

CONSTANTS
  Campaigns,
  Existing    \* campaigns created to be sent at once before the behaviour begins

VARIABLES
  plan,       \* of each campaign: what is to become of it
  held        \* released campaigns whose jobs a scheduler is to publish

planVars == <<plan, held>>

PlanInit ==
  /\ plan = [c \in Campaigns |-> IF c \in Existing THEN "now" ELSE "absent"]
  /\ held = {}

Change(c, from, to) ==
  /\ plan[c] \in from
  /\ plan' = [plan EXCEPT ![c] = to]
  /\ UNCHANGED held

Create(c) == Change(c, {"absent"}, "now") \/ Change(c, {"absent"}, "scheduled")
Schedule(c) == Change(c, {"now", "scheduled", "cancelled"}, "scheduled")
Cancel(c) == Change(c, {"scheduled", "cancelled"}, "cancelled")

\* Several campaigns may be due at a time; whoever released them may be lost.
Release(due) ==
  /\ due \subseteq {c \in Campaigns : plan[c] = "scheduled"}
  /\ plan' = [c \in Campaigns |-> IF c \in due THEN "released" ELSE plan[c]]
  /\ held' = held \/ held' = held \union due

TakeBack(c) ==
  /\ c \in held
  /\ plan[c] = "released"
  /\ plan' = [plan EXCEPT ![c] = "scheduled"]
  /\ held' = held \ {c}

\* Published, or given up.
LetGo == held' \subseteq held /\ UNCHANGED plan

PlanNext ==
  \/ \E c \in Campaigns : Create(c) \/ Schedule(c) \/ Cancel(c) \/ TakeBack(c)
  \/ \E due \in SUBSET Campaigns : Release(due)
  \/ LetGo

PlanSpec == PlanInit /\ [][PlanNext]_planVars
=============================================================================
