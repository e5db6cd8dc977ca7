---------------------------- MODULE CampaignStore ----------------------------
(***************************************************************************)
(* The two PostgreSQL tables the dispatcher works on, campaigns and        *)
(* campaign_messages, and the statements of                                *)
(* internal/repository/campaign_repository.go as functions from a row to a *)
(* row.  The modules of the worker, of the API and of the webhooks apply   *)
(* them to the tables; one statement is one step of theirs.                *)
(*                                                                         *)
(* Kept of a message row: status, attempt_count, whether next_retry_at is  *)
(* set and whether a provider_message_id a webhook can name is recorded.   *)
(* Kept of a campaign row: status, send_mode, paused, whether released_at  *)
(* and cancelled_at are set, and the six counters.  Clock readings are     *)
(* left out: a set next_retry_at or scheduled_at_utc may be due at any     *)
(* moment.                                                                 *)
(***************************************************************************)
EXTENDS Integers, FiniteSets

CONSTANTS
  Campaigns,    \* campaign ids
  Messages,     \* message ids
  CampaignOf    \* the campaign_id of each message

ASSUME StoreAssumption ==
  /\ CampaignOf \in [Messages -> Campaigns]
  /\ IsFiniteSet(Messages)

VARIABLES
  stored,       \* the campaigns whose INSERT has committed, with their messages
  messages,     \* table campaign_messages
  campaigns,    \* table campaigns
  lateSends     \* history: sends of each campaign since it was last paused

storeVars == <<stored, messages, campaigns, lateSends>>

Sent == {"sent", "delivered", "read"}

MessageStatus == {"pending", "processing", "failed"} \union Sent

CampaignStatus ==
  {"draft", "scheduled", "pending", "processing", "paused", "failed", "partial"}
     \union Sent

MessageRow ==
  [status: MessageStatus, attempt_count: Nat,
   next_retry_at: BOOLEAN, provider_message_id: BOOLEAN]

CampaignRow ==
  [status: CampaignStatus, send_mode: {"now", "scheduled"}, paused: BOOLEAN,
   released_at: BOOLEAN, cancelled_at: BOOLEAN, counts: [MessageStatus -> Nat]]

StoreTypeOK ==
  /\ stored \subseteq Campaigns
  /\ messages \in [Messages -> MessageRow]
  /\ campaigns \in [Campaigns -> CampaignRow]
  /\ lateSends \in [Campaigns -> Nat]

MessagesOf(c) == {m \in Messages : CampaignOf[m] = c}

------------------------------------------------------------------------------
(* The rows Create inserts. *)

NewMessage ==
  [status |-> "pending", attempt_count |-> 0,
   next_retry_at |-> FALSE, provider_message_id |-> FALSE]

NewCampaign(c, mode) ==
  [status |-> IF mode = "scheduled" THEN "scheduled" ELSE "pending",
   send_mode |-> mode, paused |-> FALSE,
   released_at |-> FALSE, cancelled_at |-> FALSE,
   counts |-> [s \in MessageStatus |->
                 IF s = "pending" THEN Cardinality(MessagesOf(c)) ELSE 0]]

------------------------------------------------------------------------------
(* Statements on one row of campaign_messages. *)

MarkProcessing(row) ==
  [row EXCEPT !.status = "processing", !.attempt_count = @ + 1,
              !.next_retry_at = FALSE]

\* identified: the provider answered with a message id (SendText can return "").
MarkSent(row, identified) ==
  [row EXCEPT !.status = "sent", !.next_retry_at = FALSE,
              !.provider_message_id = identified]

MarkFailed(row) ==
  [row EXCEPT !.status = "failed", !.next_retry_at = FALSE]

MarkPendingRetry(row) ==
  [row EXCEPT !.status = "pending", !.next_retry_at = TRUE]

\* Mutant: a late "delivered" event takes a read message back.
MarkDeliveredAlways(row) == [row EXCEPT !.status = "delivered"]

MarkDelivered(row) ==
  [row EXCEPT !.status = IF @ = "read" THEN "read" ELSE "delivered"]

MarkRead(row) == [row EXCEPT !.status = "read"]

\* The rows the retry sweeper's SELECT finds.
RetryClaimable(m) ==
  LET c == campaigns[CampaignOf[m]]
  IN  /\ messages[m].status = "pending"
      /\ messages[m].next_retry_at
      /\ ~c.paused
      /\ ~c.cancelled_at

------------------------------------------------------------------------------
(* Statements on one row of campaigns. *)

\* The CTE of RecalculateCampaign: the messages of c by status.
CountMessages(c) ==
  [s \in MessageStatus |-> Cardinality({m \in MessagesOf(c) : messages[m].status = s})]

\* Mutant: whatever is not pending is counted as sent.
RecalculatedStatusLoose(row, n, total) ==
  IF row.cancelled_at THEN "failed"
  ELSE IF row.paused THEN "paused"
  ELSE IF n["pending"] = 0 THEN "sent"
  ELSE "pending"

\* Mutant: a campaign is taken to be paused for as long as its status says so.
RecalculatedStatusSticky(row, n, total) ==
  IF row.status = "paused" THEN "paused" ELSE RecalculatedStatusLoose(row, n, total)

\* The CASE of RecalculateCampaign: the first condition that holds decides.
RecalculatedStatus(row, n, total) ==
  LET delivered == n["delivered"] + n["read"]
      sent      == n["sent"] + delivered
  IN  IF row.cancelled_at THEN "failed"
      ELSE IF row.paused THEN "paused"
      ELSE IF row.send_mode = "scheduled" /\ ~row.released_at THEN "scheduled"
      ELSE IF total = 0 THEN "draft"
      ELSE IF n["read"] = total THEN "read"
      ELSE IF delivered = total THEN "delivered"
      ELSE IF sent = total THEN "sent"
      ELSE IF n["processing"] > 0 THEN "processing"
      ELSE IF n["pending"] = total THEN "pending"
      ELSE IF n["failed"] = total THEN "failed"
      ELSE IF sent > 0 /\ n["failed"] > 0 /\ n["pending"] = 0 THEN "partial"
      ELSE IF n["pending"] > 0 THEN "processing"
      ELSE row.status

\* The UPDATE of RecalculateCampaign.  PostgreSQL counts in the statement's
\* snapshot and then locks the campaign row, reading it again if another
\* transaction changed it: a caller counts in one step and applies the counts,
\* to the row as it is by then, in a later one.
Recalculated(c, n) ==
  [campaigns[c] EXCEPT
     !.counts = n,
     !.status = RecalculatedStatus(campaigns[c], n, Cardinality(MessagesOf(c)))]

\* SetCampaignPaused; resuming leaves the status "paused" to RecalculateCampaign.
PausedSet(row, paused) ==
  [row EXCEPT
     !.paused = paused,
     !.status = IF paused THEN "paused"
                ELSE IF row.send_mode = "scheduled" /\ ~row.released_at THEN "scheduled"
                ELSE @]

\* Mutant: the UPDATE trusts the released_at the service read before it.
ReschedulableAlways(row) == TRUE

\* UpdateScheduledCampaign and CancelScheduledCampaign find the row only while
\* released_at is null, whatever its send_mode.
Reschedulable(row) == ~row.released_at

Rescheduled(row) ==
  [row EXCEPT !.send_mode = "scheduled", !.status = "scheduled", !.cancelled_at = FALSE]

Cancelled(row) == [row EXCEPT !.status = "failed", !.cancelled_at = TRUE]

\* ClaimDueScheduledCampaigns: its WHERE clause (scheduled_at_utc is set exactly
\* in the rows whose send_mode is "scheduled") and its UPDATE.
DueForRelease(row) ==
  /\ row.status = "scheduled"
  /\ row.send_mode = "scheduled"
  /\ ~row.released_at
  /\ ~row.cancelled_at

Released(row) == [row EXCEPT !.status = "pending", !.released_at = TRUE]

\* RevertScheduledCampaignRelease, unconditional but for the send mode.
ReleaseReverted(row) ==
  IF row.send_mode = "scheduled"
  THEN [row EXCEPT !.status = "scheduled", !.released_at = FALSE]
  ELSE row
=============================================================================
