-------------------------- MODULE MessageLifecycle --------------------------
(***************************************************************************)
(* What the service promises about one message, whatever jobs, retries,    *)
(* restarts and webhooks it takes: the provider is asked any number of     *)
(* times while the message is open; it is recorded as sent only after the  *)
(* provider took it; from then on it is never handed over again, and it    *)
(* only moves on to delivered and read.                                    *)
(***************************************************************************)
EXTENDS Naturals

CONSTANT Messages

VARIABLES
  state,    \* of each message: "open" until it is recorded as sent
  taken     \* of each message: how often the provider took it

lifecycleVars == <<state, taken>>

LifecycleInit ==
  /\ state = [m \in Messages |-> "open"]
  /\ taken = [m \in Messages |-> 0]

HandOver(m) ==
  /\ state[m] = "open"
  /\ taken' = [taken EXCEPT ![m] = @ + 1]
  /\ UNCHANGED state

Move(m, from, to) ==
  /\ state[m] \in from
  /\ state' = [state EXCEPT ![m] = to]
  /\ UNCHANGED taken

Record(m) == taken[m] > 0 /\ Move(m, {"open"}, "sent")
Deliver(m) == Move(m, {"sent", "delivered"}, "delivered")
Read(m) == Move(m, {"sent", "delivered", "read"}, "read")

LifecycleNext ==
  \E m \in Messages : HandOver(m) \/ Record(m) \/ Deliver(m) \/ Read(m)

LifecycleSpec == LifecycleInit /\ [][LifecycleNext]_lifecycleVars
=============================================================================
