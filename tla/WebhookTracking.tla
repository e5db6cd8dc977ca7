--------------------------- MODULE WebhookTracking ---------------------------
(***************************************************************************)
(* internal/service/webhook_service.go, as the webhook handler calls it:   *)
(* an event of the provider names messages that were delivered or read.    *)
(* Each is marked by a statement of its own, then each campaign touched is *)
(* recalculated.  Events of other kinds change nothing and are left out,   *)
(* as is the token check before them.                                      *)
(***************************************************************************)
EXTENDS CampaignStore, JobQueue

CONSTANTS
  Trackers,     \* webhook requests handled at the same time
  TrackerHost   \* the process that handles each

ASSUME TrackerAssumption == TrackerHost \in [Trackers -> Procs]

VARIABLE tracker    \* of each: the call of Track in progress

NoEvent == [pc |-> "idle"]

\* What normalizeWebhookStatus makes of the events that Track does not refuse.
Events == {"delivered", "read"}

\* ids: messages still to mark; touched: campaigns still to recalculate; camp: the
\* one whose messages have been counted.
Marking ==
  [pc: {"mark"}, event: Events, ids: SUBSET Messages,
   touched: SUBSET Campaigns]

Applying ==
  [pc: {"apply"}, event: Events, touched: SUBSET Campaigns,
   camp: Campaigns, counts: [MessageStatus -> Nat]]

TrackerTypeOK == tracker \in [Trackers -> {NoEvent} \union Marking \union Applying]

TrackerInit == tracker = [t \in Trackers |-> NoEvent]

------------------------------------------------------------------------------
Tracking(t, pc) ==
  /\ Running(TrackerHost[t])
  /\ tracker[t].pc = pc

\* Track goes on in state s, or returns when nothing is left to do.
Proceed(t, s) ==
  tracker' = [tracker EXCEPT ![t] =
                IF s.ids = {} /\ s.touched = {} THEN NoEvent ELSE s]

ReceiveEvent(t) ==
  /\ Tracking(t, "idle")
  /\ \E event \in Events, ids \in (SUBSET Messages) \ {{}} :
       tracker' = [tracker EXCEPT ![t] =
         [pc |-> "mark", event |-> event, ids |-> ids, touched |-> {}]]
  /\ UNCHANGED <<storeVars, queueVars>>

\* MarkMessageDeliveredByProviderID, MarkMessageReadByProviderID
Marked(row, event) == IF event = "read" THEN MarkRead(row) ELSE MarkDelivered(row)

\* An event for a message whose provider id is not recorded (yet) is skipped.
MarkMessage(t, m) ==
  /\ Tracking(t, "mark")
  /\ m \in tracker[t].ids
  /\ LET s == [tracker[t] EXCEPT !.ids = @ \ {m}]
     IN  IF messages[m].provider_message_id
         THEN /\ messages' = [messages EXCEPT ![m] = Marked(@, s.event)]
              /\ Proceed(t, [s EXCEPT !.touched = @ \union {CampaignOf[m]}])
         ELSE /\ UNCHANGED messages
              /\ Proceed(t, s)
  /\ UNCHANGED <<stored, campaigns, lateSends, queueVars>>

CountTouched(t, c) ==
  /\ Tracking(t, "mark")
  /\ tracker[t].ids = {}
  /\ c \in tracker[t].touched
  /\ tracker' = [tracker EXCEPT ![t] =
       [pc |-> "apply", event |-> tracker[t].event, touched |-> tracker[t].touched \ {c},
        camp |-> c, counts |-> CountMessages(c)]]
  /\ UNCHANGED <<storeVars, queueVars>>

ApplyTouched(t) ==
  /\ Tracking(t, "apply")
  /\ LET s == tracker[t]
     IN  /\ campaigns' = [campaigns EXCEPT ![s.camp] = Recalculated(s.camp, s.counts)]
         /\ Proceed(t, [pc |-> "mark", event |-> s.event, ids |-> {}, touched |-> s.touched])
  /\ UNCHANGED <<stored, messages, lateSends, queueVars>>

\* Any failure ends Track: later ids are not marked, and no campaign touched so
\* far is recalculated any more.
TrackFails(t) ==
  /\ Running(TrackerHost[t])
  /\ tracker[t] # NoEvent
  /\ Fault
  /\ tracker' = [tracker EXCEPT ![t] = NoEvent]
  /\ UNCHANGED <<storeVars, queue, phase>>

TrackerStep(t) ==
  \/ ReceiveEvent(t) \/ ApplyTouched(t) \/ TrackFails(t)
  \/ \E m \in Messages : MarkMessage(t, m)
  \/ \E c \in Campaigns : CountTouched(t, c)

\* What a crash of process p takes with it.
TrackerLost(p) ==
  tracker' = [t \in Trackers |-> IF TrackerHost[t] = p THEN NoEvent ELSE tracker[t]]
=============================================================================
