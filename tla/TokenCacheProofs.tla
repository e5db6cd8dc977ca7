-------------------------- MODULE TokenCacheProofs --------------------------
(***************************************************************************)
(* A message is sent from the instance it names, and with the token that   *)
(* instance has now unless it changed at the provider, for any number of   *)
(* senders, instances, tokens, attempts and faults.                        *)
(*                                                                         *)
(* A token travels from the provider to an answer, to the map, to the key  *)
(* of a call.  Wherever it is held it is held for the instance it was      *)
(* handed out for, and of an instance that did not change since the        *)
(* process started only one token is held.                                 *)
(***************************************************************************)
EXTENDS TokenCache, TLAPS

\* Token t is held for instance i: at the provider, in the map, in an answer that came
\* and is not in the map yet, or as the key of a send.
Held(i, t) ==
  \/ provider[i] = t
  \/ tokens[i] = t
  \/ \E s \in Senders : At(s, "fill") /\ call[s].listed[i] = t
  \/ \E s \in Senders : At(s, "send") /\ call[s].instance = i /\ call[s].key = t

\* What is held was handed out, and belongs to no other instance now.
HeldForItsInstance ==
  \A i \in Instances, t \in Tokens :
    Held(i, t) => t <= issued /\ \A j \in Instances : provider[j] = t => j = i

\* Of an instance that was kept nothing but its token is held.
KeptIsCurrent ==
  \A i \in kept :
    /\ provider[i] # NoToken
    /\ \A t \in Tokens : Held(i, t) => t = provider[i]
    /\ \A s \in Senders :
         /\ At(s, "fill") => call[s].listed[i] = provider[i]
         /\ At(s, "send") /\ call[s].instance = i => call[s].key = provider[i]

TokenInv == TokenTypeOK /\ HeldForItsInstance /\ KeptIsCurrent

------------------------------------------------------------------------------
(* Types *)

\* What a call is, by where it is.
LEMMA CallShape ==
  ASSUME TokenTypeOK, NEW s \in Senders
  PROVE  /\ call[s].pc \in Resting \/ At(s, "list") \/ At(s, "fill") \/ At(s, "send")
         /\ call[s].pc \notin Resting
              => call[s].instance \in Instances /\ call[s].attempt \in 1..MaxAttempts
         /\ At(s, "fill") => call[s].listed \in [Instances -> {NoToken} \union Tokens]
         /\ At(s, "send") => call[s].key \in Keys
<1>1. call[s] \in [pc: Resting] \union Call
  BY DEF TokenTypeOK
<1>2. CASE call[s] \in [pc: Resting]
  BY <1>2 DEF At, Resting
<1>3. CASE call[s] \in Call
  BY <1>3 DEF At, Resting, Call
<1>4. QED BY <1>1, <1>2, <1>3

LEMMA TypesStart == Init => TokenTypeOK
  BY TokenAssumption DEF Init, TokenTypeOK, Nothing, Ended, Resting, NoToken

\* The end of a call is a call.
LEMMA EndedIsResting ==
  ASSUME NEW attempt
  PROVE  /\ Ended("idle") \in [pc: Resting] /\ Ended("sent") \in [pc: Resting]
         /\ Ended(Denied) \in [pc: Resting] /\ Ended(Broken(attempt)) \in [pc: Resting]
  BY DEF Ended, Resting, Denied, Broken

\* The map after an answer, and the key that is read off it.
LEMMA FillTypes ==
  ASSUME TokenTypeOK, NEW s \in Senders, Fill(s)
  PROVE  /\ tokens' \in [Instances -> {NoToken} \union Tokens]
         /\ KeyOf(call[s].instance, tokens') \in Keys
<1>1. call[s].listed \in [Instances -> {NoToken} \union Tokens] /\ call[s].instance \in Instances
  BY CallShape DEF Fill, At, Resting
<1>2. tokens' \in [Instances -> {NoToken} \union Tokens]
  BY <1>1 DEF Fill, TokenTypeOK
<1>3. QED BY <1>1, <1>2 DEF KeyOf, Keys

LEMMA TypesStep == TokenTypeOK /\ [Next]_vars => TokenTypeOK'
<1> SUFFICES ASSUME TokenTypeOK, [Next]_vars PROVE TokenTypeOK'
  OBVIOUS
<1> USE TokenAssumption
<1>1. ASSUME NEW i \in Instances, NewToken(i) PROVE TokenTypeOK'
  <2>1. issued + 1 \in Tokens
    BY <1>1 DEF NewToken, TokenTypeOK, Tokens, NoToken
  <2>2. QED BY <1>1, <2>1 DEF NewToken, TokenTypeOK, clientVars
<1>2. ASSUME NEW i \in Instances, RemoveInstance(i) PROVE TokenTypeOK'
  BY <1>2 DEF RemoveInstance, TokenTypeOK, clientVars
<1>3. ASSUME NEW s \in Senders, NEW i \in Instances, NEW attempt \in 1..MaxAttempts,
             LookUp(s, i, attempt)
      PROVE  TokenTypeOK'
  <2>1. tokens[i] \in {NoToken} \union Tokens
    BY DEF TokenTypeOK
  <2>2. CASE tokens[i] # NoToken
    <3>1. [pc |-> "send", instance |-> i, attempt |-> attempt, key |-> tokens[i]] \in Call
      BY <2>1, <2>2 DEF Call, Keys
    <3>2. QED BY <1>3, <2>2, <3>1 DEF LookUp, TokenTypeOK, providerVars
  <2>3. CASE tokens[i] = NoToken
    <3>1. [pc |-> "list", instance |-> i, attempt |-> attempt] \in Call
      BY DEF Call
    <3>2. QED BY <1>3, <2>3, <3>1 DEF LookUp, TokenTypeOK, providerVars
  <2>4. QED BY <2>2, <2>3
<1>4. ASSUME NEW s \in Senders, ListInstances(s) PROVE TokenTypeOK'
  <2>1. call[s].instance \in Instances /\ call[s].attempt \in 1..MaxAttempts
    BY <1>4, CallShape DEF ListInstances, At, Resting
  <2>2. [pc |-> "fill", instance |-> call[s].instance, attempt |-> call[s].attempt,
         listed |-> provider] \in Call
    BY <2>1 DEF Call, TokenTypeOK
  <2>3. QED BY <1>4, <2>2 DEF ListInstances, TokenTypeOK, providerVars
<1>5. ASSUME NEW s \in Senders, ListFails(s) \/ SendFails(s) \/ SendText(s) PROVE TokenTypeOK'
  <2>1. /\ \E outcome : /\ call' = [call EXCEPT ![s] = Ended(outcome)]
                        /\ Ended(outcome) \in [pc: Resting]
        /\ faults' \in 0..MaxFaults
    BY <1>5, EndedIsResting DEF ListFails, SendFails, SendText, Fault, TokenTypeOK
  <2>2. call' \in [Senders -> [pc: Resting] \union Call]
    BY <2>1 DEF TokenTypeOK
  <2>3. UNCHANGED <<provider, issued, tokens, kept>>
    BY <1>5 DEF ListFails, SendFails, SendText, providerVars
  <2>4. QED BY <2>1, <2>2, <2>3 DEF TokenTypeOK
<1>6. ASSUME NEW s \in Senders, Fill(s) PROVE TokenTypeOK'
  <2>1. call[s].instance \in Instances /\ call[s].attempt \in 1..MaxAttempts
    BY <1>6, CallShape DEF Fill, At, Resting
  <2>2. [pc |-> "send", instance |-> call[s].instance, attempt |-> call[s].attempt,
         key |-> KeyOf(call[s].instance, tokens')] \in Call
    BY <1>6, <2>1, FillTypes DEF Call
  <2>3. call' \in [Senders -> [pc: Resting] \union Call]
    BY <1>6, <2>2 DEF Fill, SendWith, TokenTypeOK
  <2>4. tokens' \in [Instances -> {NoToken} \union Tokens]
    BY <1>6, FillTypes
  <2>5. QED BY <1>6, <2>3, <2>4 DEF Fill, TokenTypeOK, providerVars
<1>7. ASSUME Restart PROVE TokenTypeOK'
  BY <1>7, EndedIsResting DEF Restart, TokenTypeOK, Nothing, Fault, providerVars
<1>8. CASE UNCHANGED vars
  BY <1>8 DEF TokenTypeOK, vars, providerVars, clientVars
<1>9. QED BY <1>1, <1>2, <1>3, <1>4, <1>5, <1>6, <1>7, <1>8 DEF Next, Sending

------------------------------------------------------------------------------
(* Where tokens are held *)

\* A step of the client.
ClientStep ==
  \/ \E s \in Senders :
       Sending(s) \/ \E i \in Instances, attempt \in 1..MaxAttempts : LookUp(s, i, attempt)
  \/ Restart
  \/ UNCHANGED vars

\* The client makes no token: what it holds for an instance was held for it before.
LEMMA NothingIsMade ==
  ASSUME TokenTypeOK, ClientStep, NEW i \in Instances, NEW t \in Tokens, Held(i, t)'
  PROVE  Held(i, t)
<1> USE TokenAssumption DEF Held, At
<1>1. ASSUME NEW s \in Senders, NEW j \in Instances, NEW attempt \in 1..MaxAttempts,
             LookUp(s, j, attempt)
      PROVE  Held(i, t)
  BY <1>1 DEF LookUp, TokenTypeOK, providerVars
<1>2. ASSUME NEW s \in Senders, ListInstances(s) PROVE Held(i, t)
  BY <1>2 DEF ListInstances, TokenTypeOK, providerVars
<1>3. ASSUME NEW s \in Senders, ListFails(s) \/ SendFails(s) \/ SendText(s) PROVE Held(i, t)
  <2>1. PICK outcome \in Resting : call' = [call EXCEPT ![s] = Ended(outcome)]
    BY <1>3 DEF ListFails, SendFails, SendText, Denied, Broken, Resting
  <2>2. \A r \in Senders : r # s => call'[r] = call[r]
    BY <2>1 DEF TokenTypeOK
  <2>3. call'[s].pc \in Resting
    BY <2>1 DEF Ended, TokenTypeOK
  <2>4. UNCHANGED <<provider, tokens>>
    BY <1>3 DEF ListFails, SendFails, SendText, providerVars
  <2>5. QED BY <2>2, <2>3, <2>4 DEF Resting
<1>4. ASSUME NEW s \in Senders, Fill(s) PROVE Held(i, t)
  <2>1. \A r \in Senders : r # s => call'[r] = call[r]
    BY <1>4 DEF Fill, SendWith, TokenTypeOK
  <2>2. call'[s] = [pc |-> "send", instance |-> call[s].instance, attempt |-> call[s].attempt,
                    key |-> KeyOf(call[s].instance, tokens')]
    BY <1>4 DEF Fill, SendWith, TokenTypeOK
  <2>3. call[s].instance \in Instances
    BY <1>4, CallShape DEF Fill, Resting
  <2>4. call'[s].instance = i /\ call'[s].key = t => tokens'[i] = t
    BY <2>2, <2>3 DEF KeyOf, Tokens
  <2>5. tokens'[i] = t => tokens[i] = t \/ call[s].listed[i] = t
    BY <1>4 DEF Fill
  <2>6. UNCHANGED provider
    BY <1>4 DEF Fill, providerVars
  <2>7. call[s].pc = "fill"
    BY <1>4 DEF Fill
  <2>8. QED BY <2>1, <2>2, <2>4, <2>5, <2>6, <2>7
<1>5. ASSUME Restart PROVE Held(i, t)
  BY <1>5 DEF Restart, Ended, Nothing, NoToken, Tokens, providerVars
<1>6. CASE UNCHANGED vars
  BY <1>6 DEF vars, providerVars, clientVars
<1>7. QED BY <1>1, <1>2, <1>3, <1>4, <1>5, <1>6 DEF ClientStep, Sending

\* A step of the provider hands out a token that was held nowhere, or takes one away.
LEMMA ProviderHeld ==
  ASSUME TokenTypeOK, HeldForItsInstance, NEW j \in Instances,
         NewToken(j) \/ RemoveInstance(j),
         NEW i \in Instances, NEW t \in Tokens, Held(i, t)'
  PROVE  /\ Held(i, t) \/ (i = j /\ t = provider'[j] /\ t = issued + 1 /\ issued' = issued + 1)
         /\ issued' = issued \/ issued' = issued + 1
         /\ \A k \in Instances : k # j => provider'[k] = provider[k]
         /\ provider'[j] = NoToken \/ (provider'[j] = issued + 1 /\ issued' = issued + 1)
<1>1. UNCHANGED <<tokens, call>>
  BY DEF NewToken, RemoveInstance, clientVars
<1>2. \A k \in Instances : k # j => provider'[k] = provider[k]
  BY DEF NewToken, RemoveInstance, TokenTypeOK
<1>3. \/ provider'[j] = issued + 1 /\ issued' = issued + 1
      \/ provider'[j] = NoToken /\ issued' = issued
  BY DEF NewToken, RemoveInstance, TokenTypeOK
<1>4. QED BY <1>1, <1>2, <1>3 DEF Held, At, NoToken, Tokens

LEMMA HeldStep == TokenTypeOK /\ HeldForItsInstance /\ [Next]_vars => HeldForItsInstance'
<1> SUFFICES ASSUME TokenTypeOK, HeldForItsInstance, [Next]_vars,
                    NEW i \in Instances, NEW t \in Tokens, Held(i, t)'
             PROVE  t <= issued' /\ \A j \in Instances : provider'[j] = t => j = i
  BY DEF HeldForItsInstance, Tokens
<1>1. CASE ClientStep
  <2>1. UNCHANGED <<provider, issued>>
    BY <1>1 DEF ClientStep, Sending, LookUp, ListInstances, ListFails, Fill, SendText,
                SendFails, Restart, vars, providerVars
  <2>2. QED BY <1>1, <2>1, NothingIsMade DEF HeldForItsInstance
<1>2. ASSUME NEW j \in Instances, NewToken(j) \/ RemoveInstance(j)
      PROVE  t <= issued' /\ \A k \in Instances : provider'[k] = t => k = i
  <2>1. issued \in Nat /\ t \in Nat /\ t # NoToken
    BY DEF TokenTypeOK, Tokens, NoToken
  <2>2. CASE Held(i, t)
    <3>1. t <= issued /\ \A k \in Instances : provider[k] = t => k = i
      BY <2>2 DEF HeldForItsInstance
    <3>2. QED BY <1>2, <2>1, <3>1, ProviderHeld
  <2>3. CASE i = j /\ t = issued + 1 /\ issued' = issued + 1
    <3>1. \A k \in Instances : provider[k] # t
      <4>1. \A k \in Instances : provider[k] = t => t <= issued
        BY DEF HeldForItsInstance, Held
      <4>2. QED BY <4>1, <2>1, <2>3
    <3>2. QED BY <1>2, <2>1, <2>3, <3>1, ProviderHeld
  <2>4. QED BY <1>2, <2>2, <2>3, ProviderHeld
<1>3. QED BY <1>1, <1>2 DEF Next, ClientStep

------------------------------------------------------------------------------
(* Instances that were kept *)

LEMMA KeptClientStep ==
  ASSUME TokenInv, ClientStep, NEW i \in kept'
  PROVE  /\ provider'[i] # NoToken
         /\ \A t \in Tokens : Held(i, t)' => t = provider'[i]
         /\ \A s \in Senders :
              /\ At(s, "fill")' => call'[s].listed[i] = provider'[i]
              /\ At(s, "send")' /\ call'[s].instance = i => call'[s].key = provider'[i]
<1> USE DEF TokenInv
<1>1. UNCHANGED provider
  BY DEF ClientStep, Sending, LookUp, ListInstances, ListFails, Fill, SendText,
         SendFails, Restart, vars, providerVars
<1>2. CASE Restart
  <2>1. i \in Instances /\ provider[i] # NoToken
    BY <1>2 DEF Restart
  <2>2. \A t \in Tokens : Held(i, t)' => t = provider[i]
    BY <1>1, <1>2, <2>1 DEF Restart, Held, At, Ended, Nothing, NoToken, Tokens
  <2>3. \A s \in Senders : ~At(s, "fill")' /\ ~At(s, "send")'
    BY <1>2 DEF Restart, At, Ended
  <2>4. QED BY <1>1, <2>1, <2>2, <2>3
<1>3. CASE ~Restart
  <2>1. kept' = kept
    BY <1>3 DEF ClientStep, Sending, LookUp, ListInstances, ListFails, Fill, SendText,
                SendFails, vars
  <2>2. i \in Instances /\ i \in kept /\ provider[i] # NoToken
    BY <2>1 DEF KeptIsCurrent, TokenTypeOK
  <2>3. \A t \in Tokens : Held(i, t)' => t = provider[i]
    BY <2>2, NothingIsMade DEF KeptIsCurrent
  <2>4. ASSUME NEW s \in Senders, At(s, "fill")' PROVE call'[s].listed[i] = provider[i]
    <3>1. \/ call'[s] = call[s]
          \/ call'[s].listed = provider
      BY <2>4, <1>3 DEF ClientStep, Sending, LookUp, ListInstances, ListFails, Fill,
           SendText, SendFails, SendWith, Ended, Denied, Broken, At, TokenTypeOK, vars,
           clientVars
    <3>2. QED BY <2>2, <2>4, <3>1 DEF KeptIsCurrent, At
  <2>5. ASSUME NEW s \in Senders, At(s, "send")', call'[s].instance = i
        PROVE  call'[s].key = provider[i]
    <3>1. CASE call'[s] = call[s]
      BY <2>2, <2>5, <3>1 DEF KeptIsCurrent, At
    <3>2. CASE \E attempt \in 1..MaxAttempts : LookUp(s, i, attempt)
      <4>1. tokens[i] # NoToken /\ call'[s].key = tokens[i]
        BY <2>5, <3>2 DEF LookUp, At, TokenTypeOK
      <4>2. tokens[i] \in Tokens
        BY <2>2, <4>1 DEF TokenTypeOK
      <4>3. QED BY <2>2, <4>1, <4>2 DEF KeptIsCurrent, Held
    <3>3. CASE Fill(s)
      <4>1. /\ call[s].pc = "fill"
            /\ call'[s].instance = call[s].instance
            /\ call'[s].key = KeyOf(call[s].instance, tokens')
        BY <3>3 DEF Fill, SendWith, At, TokenTypeOK
      <4>2. call[s].listed[i] = provider[i]
        BY <2>2, <4>1 DEF KeptIsCurrent, At
      <4>3. tokens'[i] = provider[i]
        BY <2>2, <3>3, <4>2 DEF Fill
      <4>4. QED BY <2>2, <2>5, <4>1, <4>3 DEF KeyOf
    <3>4. \/ call'[s] = call[s]
          \/ \E attempt \in 1..MaxAttempts : LookUp(s, i, attempt)
          \/ Fill(s)
      BY <2>5, <1>3 DEF ClientStep, Sending, LookUp, ListInstances, ListFails, Fill,
           SendText, SendFails, SendWith, Ended, Denied, Broken, At, TokenTypeOK, vars,
           clientVars
    <3>5. QED BY <3>1, <3>2, <3>3, <3>4
  <2>6. QED BY <1>1, <2>2, <2>3, <2>4, <2>5
<1>4. QED BY <1>2, <1>3

LEMMA KeptStep == TokenInv /\ [Next]_vars => KeptIsCurrent'
<1> SUFFICES ASSUME TokenInv, [Next]_vars PROVE KeptIsCurrent'
  OBVIOUS
<1>1. CASE ClientStep
  BY <1>1, KeptClientStep DEF KeptIsCurrent
<1>2. ASSUME NEW j \in Instances, NewToken(j) \/ RemoveInstance(j) PROVE KeptIsCurrent'
  <2>1. UNCHANGED <<tokens, call>> /\ kept' = kept \ {j}
    BY <1>2 DEF NewToken, RemoveInstance, clientVars
  <2>2. \A i \in kept' : i \in Instances /\ i \in kept /\ provider'[i] = provider[i]
    BY <1>2, <2>1 DEF NewToken, RemoveInstance, TokenInv, TokenTypeOK
  <2>3. QED BY <2>1, <2>2 DEF KeptIsCurrent, Held, At, TokenInv
<1>3. QED BY <1>1, <1>2 DEF Next, ClientStep

------------------------------------------------------------------------------
(* The theorems *)

LEMMA TokenInvariant == Spec => []TokenInv
<1>1. Init => TokenInv
  <2> SUFFICES ASSUME Init PROVE TokenInv
    OBVIOUS
  <2>1. TokenTypeOK
    BY TypesStart
  <2>2. HeldForItsInstance /\ KeptIsCurrent
    BY DEF Init, HeldForItsInstance, KeptIsCurrent, Held, At, Ended, Nothing, NoToken, Tokens
  <2>3. QED BY <2>1, <2>2 DEF TokenInv
<1>2. TokenInv /\ [Next]_vars => TokenInv'
  BY TypesStep, HeldStep, KeptStep DEF TokenInv
<1>3. QED BY <1>1, <1>2, PTL DEF Spec

\* The client's map and calls, and the provider, always have their types.
THEOREM TokenTypes == Spec => []TokenTypeOK
  BY TokenInvariant, PTL DEF TokenInv

\* A message only goes out from the instance it names.
THEOREM SentFromInstance == Spec => SentFromItsInstance
<1>1. TokenInv /\ [Next]_vars =>
        [\A s \in Senders :
           At(s, "send") /\ call'[s] = Ended("sent")
             => Owners(call[s].key) \subseteq {call[s].instance}]_vars
  <2> SUFFICES ASSUME TokenInv, NEW s \in Senders, At(s, "send"), NEW j \in Owners(call[s].key)
               PROVE  j = call[s].instance
    BY DEF Owners
  <2>1. call[s].instance \in Instances /\ call[s].key \in Keys
    BY CallShape DEF At, Resting, TokenInv
  <2>2. j \in Instances /\ provider[j] = call[s].key
    BY DEF Owners
  <2>3. call[s].key \in Tokens
    <3>1. provider[j] \in Nat
      BY <2>2 DEF TokenInv, TokenTypeOK, Tokens, NoToken
    <3>2. QED BY <2>1, <2>2, <3>1, TokenAssumption DEF Keys
  <2>4. Held(call[s].instance, call[s].key)
    BY DEF Held
  <2>5. QED BY <2>1, <2>2, <2>3, <2>4 DEF TokenInv, HeldForItsInstance
<1>2. QED BY <1>1, TokenInvariant, PTL DEF Spec, SentFromItsInstance

\* No send carries a stale key while its instance is as it was when the process started.
THEOREM StaleAfterAChange == Spec => []StaleOnlyAfterAChange
<1>1. TokenInv => StaleOnlyAfterAChange
  BY DEF TokenInv, KeptIsCurrent, StaleOnlyAfterAChange, At
<1>2. QED BY <1>1, TokenInvariant, PTL
=============================================================================
