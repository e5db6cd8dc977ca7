----------------------------- MODULE TokenCache -----------------------------
(***************************************************************************)
(* internal/evolutiongo/client.go: how a send finds the token of its       *)
(* instance.  A process asks the provider for all instances when it has no *)
(* token for the one it needs, remembers every token of the answer, and    *)
(* looks at what it remembers from then on, until it ends.                 *)
(*                                                                         *)
(* The client holds no lock while it waits for the provider.  app.New      *)
(* starts one goroutine that sends; the client is written for several, and *)
(* so is this module.  The provider's instances are external:              *)
(* any token may be replaced and any instance removed or made at any time; *)
(* no two have one name.                                                   *)
(***************************************************************************)
EXTENDS Naturals

CONSTANTS
  Senders,      \* the goroutines that call SendText
  Instances,    \* the names of instances; a job names one of them
  MaxAttempts,  \* RETRY_MAX_ATTEMPTS
  MaxTokens,    \* bound on the tokens the provider hands out
  MaxFaults     \* bound on failed calls and restarts

ASSUME TokenAssumption ==
  /\ MaxAttempts \in Nat /\ MaxTokens \in Nat /\ MaxFaults \in Nat
  /\ Instances \intersect Nat = {}

VARIABLES
  provider,   \* of each instance: its token at the provider
  issued,     \* the last token handed out
  tokens,     \* Client.tokens
  call,       \* of each sender: its call of SendText
  kept,       \* history: the instances whose token is the one they had at the start
  faults      \* how many faults there have been

clientVars == <<tokens, call>>
providerVars == <<provider, issued>>
vars == <<providerVars, clientVars, kept, faults>>

\* Tokens are numbered as they are handed out; there is none for an instance that is
\* not listed, or listed without one.
NoToken == 0
Tokens == 1..MaxTokens

\* What a send may carry as its apikey: a token, or for want of one the name itself.
Keys == Tokens \union Instances

\* Where a sender is.  "sent", "retry" and "failed" are how its last message went.
Resting == {"idle", "sent", "retry", "failed"}

Ended(outcome) == [pc |-> outcome]
Call ==
  [pc: {"list"}, instance: Instances, attempt: 1..MaxAttempts]
  \union [pc: {"fill"}, instance: Instances, attempt: 1..MaxAttempts,
          listed: [Instances -> {NoToken} \union Tokens]]
  \union [pc: {"send"}, instance: Instances, attempt: 1..MaxAttempts, key: Keys]

TokenTypeOK ==
  /\ provider \in [Instances -> {NoToken} \union Tokens]
  /\ issued \in {NoToken} \union Tokens
  /\ tokens \in [Instances -> {NoToken} \union Tokens]
  /\ call \in [Senders -> [pc: Resting] \union Call]
  /\ kept \subseteq Instances
  /\ faults \in 0..MaxFaults

Nothing == [i \in Instances |-> NoToken]

Init ==
  /\ provider = Nothing
  /\ issued = NoToken
  /\ tokens = Nothing
  /\ call = [s \in Senders |-> Ended("idle")]
  /\ kept = {}
  /\ faults = 0

------------------------------------------------------------------------------
(* The provider *)

\* An instance is made, or its token replaced.
NewToken(i) ==
  /\ issued < MaxTokens
  /\ issued' = issued + 1
  /\ provider' = [provider EXCEPT ![i] = issued + 1]
  /\ kept' = kept \ {i}
  /\ UNCHANGED <<clientVars, faults>>

RemoveInstance(i) ==
  /\ provider[i] # NoToken
  /\ provider' = [provider EXCEPT ![i] = NoToken]
  /\ kept' = kept \ {i}
  /\ UNCHANGED <<issued, clientVars, faults>>

\* A token is good for the instance it was handed out for, until it is replaced.
Owners(key) == {i \in Instances : provider[i] = key}

------------------------------------------------------------------------------
(* resolveInstanceToken *)

Fault == faults < MaxFaults /\ faults' = faults + 1

At(s, pc) == call[s].pc = pc

\* shouldRetry: an answer of the provider that refuses the call is final, whether it
\* refuses the key, the number or the state of the instance.
Denied == "failed"
Broken(attempt) == IF attempt >= MaxAttempts THEN "failed" ELSE "retry"

SendWith(s, key) ==
  call' = [call EXCEPT ![s] =
    [pc |-> "send", instance |-> call[s].instance, attempt |-> call[s].attempt, key |-> key]]

\* handleJob comes with a message for instance i.
LookUp(s, i, attempt) ==
  /\ call[s].pc \in Resting
  /\ call' = [call EXCEPT ![s] =
       IF tokens[i] # NoToken
       THEN [pc |-> "send", instance |-> i, attempt |-> attempt, key |-> tokens[i]]
       ELSE [pc |-> "list", instance |-> i, attempt |-> attempt]]
  /\ UNCHANGED <<providerVars, tokens, kept, faults>>

\* The answer shows the instances as they are when the provider makes it.
ListInstances(s) ==
  /\ At(s, "list")
  /\ call' = [call EXCEPT ![s] =
       [pc |-> "fill", instance |-> call[s].instance, attempt |-> call[s].attempt,
        listed |-> provider]]
  /\ UNCHANGED <<providerVars, tokens, kept, faults>>

\* The key of the service is denied, or no answer comes that could be read.
ListFails(s) ==
  /\ At(s, "list")
  /\ \E outcome \in {Denied, Broken(call[s].attempt)} :
       call' = [call EXCEPT ![s] = Ended(outcome)]
  /\ Fault
  /\ UNCHANGED <<providerVars, tokens, kept>>

KeyOf(i, map) == IF map[i] # NoToken THEN map[i] ELSE i

\* Mutant: only what is missing is remembered.
FillMissing(s) ==
  /\ At(s, "fill")
  /\ tokens' = [i \in Instances |->
       IF tokens[i] = NoToken THEN call[s].listed[i] ELSE tokens[i]]
  /\ SendWith(s, KeyOf(call[s].instance, tokens'))
  /\ UNCHANGED <<providerVars, kept, faults>>

\* Mutant: a name that is not listed is remembered as its own token.
FillName(s) ==
  /\ At(s, "fill")
  /\ tokens' = [i \in Instances |->
       IF call[s].listed[i] # NoToken THEN call[s].listed[i]
       ELSE IF i = call[s].instance THEN KeyOf(i, tokens) ELSE tokens[i]]
  /\ SendWith(s, KeyOf(call[s].instance, tokens'))
  /\ UNCHANGED <<providerVars, kept, faults>>

\* Mutant: an instance that is listed is taken for the one asked for, whatever its name.
FillAny(s) ==
  /\ At(s, "fill")
  /\ \E i \in Instances :
       tokens' = [tokens EXCEPT ![call[s].instance] = call[s].listed[i]]
  /\ SendWith(s, KeyOf(call[s].instance, tokens'))
  /\ UNCHANGED <<providerVars, kept, faults>>

\* The write of the map, under its lock; an instance without a token leaves what is
\* remembered of it, and a name nothing is known of is the key itself.
Fill(s) ==
  /\ At(s, "fill")
  /\ tokens' = [i \in Instances |->
       IF call[s].listed[i] # NoToken THEN call[s].listed[i] ELSE tokens[i]]
  /\ SendWith(s, KeyOf(call[s].instance, tokens'))
  /\ UNCHANGED <<providerVars, kept, faults>>

------------------------------------------------------------------------------
(* SendText *)

\* What the provider makes of a name in the place of a token is not known; with a good
\* key it may still refuse the message, or find its instance disconnected.
SendText(s) ==
  /\ At(s, "send")
  /\ \E outcome \in {"sent", Denied} :
       /\ outcome = "sent" => Owners(call[s].key) # {} \/ call[s].key \in Instances
       /\ call' = [call EXCEPT ![s] = Ended(outcome)]
  /\ UNCHANGED <<providerVars, tokens, kept, faults>>

\* The call times out, breaks, its answer cannot be read, or refuses for another reason.
SendFails(s) ==
  /\ At(s, "send")
  /\ call' = [call EXCEPT ![s] = Ended(Broken(call[s].attempt))]
  /\ Fault
  /\ UNCHANGED <<providerVars, tokens, kept>>

\* Mutant: what is remembered outlives the process.
RestartRemembers ==
  /\ Fault
  /\ call' = [s \in Senders |-> Ended("idle")]
  /\ kept' = {i \in Instances : provider[i] # NoToken}
  /\ UNCHANGED <<providerVars, tokens>>

\* New: the process begins with an empty map.
Restart ==
  /\ Fault
  /\ tokens' = Nothing
  /\ call' = [s \in Senders |-> Ended("idle")]
  /\ kept' = {i \in Instances : provider[i] # NoToken}
  /\ UNCHANGED providerVars

Sending(s) ==
  ListInstances(s) \/ ListFails(s) \/ Fill(s) \/ SendText(s) \/ SendFails(s)

Next ==
  \/ \E i \in Instances : NewToken(i) \/ RemoveInstance(i)
  \/ \E s \in Senders :
       Sending(s) \/ \E i \in Instances, attempt \in 1..MaxAttempts : LookUp(s, i, attempt)
  \/ Restart

Spec == Init /\ [][Next]_vars

------------------------------------------------------------------------------
(* Safety *)

\* A message is only sent from the instance it names, although the map is filled for
\* all instances at once, with answers that may be older than their tokens.
SentFromItsInstance ==
  [][\A s \in Senders :
       At(s, "send") /\ call'[s] = Ended("sent")
         => Owners(call[s].key) \subseteq {call[s].instance}]_vars

\* Tokens are remembered for as long as the process runs, but a send carries another key
\* than its instance has now only when that instance changed since the process started:
\* no message is refused for its key before, and to start again after a change is enough.
StaleOnlyAfterAChange ==
  \A s \in Senders :
    At(s, "send") /\ call[s].instance \in kept
      => call[s].key = provider[call[s].instance]

------------------------------------------------------------------------------
(* Fairness: every call of the provider ends, the HTTP client has a timeout. *)

FairSpec == Spec /\ \A s \in Senders : WF_vars(Sending(s))

\* A replaced token is healed by any later answer of the provider, whoever asked for
\* whatever instance: the client that goes on asking ends up with the tokens of all.
HealedByAnyAnswer ==
  []<>(\E s \in Senders : At(s, "fill"))
    => <>[](\A i \in Instances : provider[i] # NoToken => tokens[i] = provider[i])
=============================================================================
