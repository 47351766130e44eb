------------------------------ MODULE Webhooks ------------------------------
(***************************************************************************)
(* Webhook deliveries of one organisation (src/src/integrations/           *)
(* webhooks.ts): emitEvent reads the subscribed webhooks once and then     *)
(* works through them, attempt by attempt, beside the administrator's      *)
(* changes.                                                                *)
(***************************************************************************)
EXTENDS Naturals, Sequences, SequencesExt

CONSTANTS Hooks, Events,  \* webhooks and emissions, each used once
          maxRetries      \* WEBHOOK_MAX_RETRIES

Results == {"delivered", "failed"}
New == [phase |-> "new"]
Ended == [phase |-> "ended"]
Aborted == [phase |-> "aborted"]

VARIABLES
    hooks,      \* "none", "on" (active and subscribed), "off" or "deleted"
    deliveries, \* webhook_deliveries: results per emission and webhook, by attempt
    emission,   \* what each call of emitEvent is doing
    chosen,     \* history: the webhooks each emission read
    received    \* history: how often the receiver got each event

hooksVars == <<hooks, deliveries, emission, chosen, received>>

Init ==
    /\ hooks = [h \in Hooks |-> "none"]
    /\ deliveries = [e \in Events |-> [h \in Hooks |-> <<>>]]
    /\ emission = [e \in Events |-> New]
    /\ chosen = [e \in Events |-> {}]
    /\ received = [e \in Events |-> [h \in Hooks |-> 0]]

Become(e, state) == emission' = [emission EXCEPT ![e] = state]

\* Mutant: the attempts are counted from zero.
NextFromZero(todo) ==
    IF todo = {} \/ maxRetries = 0
      THEN {Ended}
      ELSE {[phase |-> "send", hook |-> h, todo |-> todo \ {h}, attempt |-> 0, ok |-> FALSE] :
               h \in todo}

\* The loop over the webhooks read: the next one, whose order nothing fixes.
NextOf(todo) ==
    IF todo = {} \/ maxRetries = 0
      THEN {Ended}
      ELSE {[phase |-> "send", hook |-> h, todo |-> todo \ {h}, attempt |-> 1, ok |-> FALSE] :
               h \in todo}

\* SELECT of the active webhooks subscribed to the event.
BeginEmission(e) ==
    /\ emission[e] = New
    /\ LET configs == {h \in Hooks : hooks[h] = "on"}
       IN  /\ chosen' = [chosen EXCEPT ![e] = configs]
           /\ \E next \in NextOf(configs) : Become(e, next)
    /\ UNCHANGED <<hooks, deliveries, received>>

\* fetch, aborted after timeoutMs: the event may have arrived all the same.
Send(e) ==
    /\ emission[e].phase = "send"
    /\ \E arrives \in BOOLEAN : \E ok \in (IF arrives THEN BOOLEAN ELSE {FALSE}) :
          /\ Become(e, [emission[e] EXCEPT !.phase = "log", !.ok = ok])
          /\ received' = IF arrives THEN [received EXCEPT ![e][emission[e].hook] = @ + 1]
                         ELSE received
    /\ UNCHANGED <<hooks, deliveries, chosen>>

\* Mutant: a retry is sent after every attempt but the last.
AfterAttemptAlways(m) ==
    IF m.attempt < maxRetries
      THEN {[m EXCEPT !.phase = "send", !.attempt = @ + 1, !.ok = FALSE]}
      ELSE NextOf(m.todo)

\* The loop over the attempts: on until one is delivered.
AfterAttempt(m) ==
    IF ~m.ok /\ m.attempt < maxRetries
      THEN {[m EXCEPT !.phase = "send", !.attempt = @ + 1]}
      ELSE NextOf(m.todo)

\* INSERT into webhook_deliveries; if the webhook is gone the foreign key refuses it,
\* and with it the rest of the emission.
LogAttempt(e) ==
    /\ emission[e].phase = "log"
    /\ LET m == emission[e]
       IN  IF hooks[m.hook] = "deleted"
             THEN Become(e, Aborted) /\ UNCHANGED deliveries
             ELSE /\ deliveries' = [deliveries EXCEPT ![e][m.hook] =
                                        Append(@, IF m.ok THEN "delivered" ELSE "failed")]
                  /\ \E next \in AfterAttempt(m) : Become(e, next)
    /\ UNCHANGED <<hooks, chosen, received>>

\* The process ends, or a statement fails.
EmissionDies(e) ==
    /\ emission[e].phase \in {"send", "log"}
    /\ Become(e, Aborted)
    /\ UNCHANGED <<hooks, deliveries, chosen, received>>

emitEvent(e) == BeginEmission(e) \/ Send(e) \/ LogAttempt(e)

Set(h, state) == hooks' = [hooks EXCEPT ![h] = state]

createWebhook(h) ==
    hooks[h] = "none" /\ Set(h, "on") /\ UNCHANGED <<deliveries, emission, chosen, received>>

\* Address, events or the active flag: off, or on again.
updateWebhook(h) ==
    /\ hooks[h] \in {"on", "off"}
    /\ Set(h, IF hooks[h] = "on" THEN "off" ELSE "on")
    /\ UNCHANGED <<deliveries, emission, chosen, received>>

\* DELETE, which takes the deliveries with it (ON DELETE CASCADE).
deleteWebhook(h) ==
    /\ hooks[h] \in {"on", "off"}
    /\ Set(h, "deleted")
    /\ deliveries' = [e \in Events |-> [deliveries[e] EXCEPT ![h] = <<>>]]
    /\ UNCHANGED <<emission, chosen, received>>

Next ==
    \/ \E e \in Events : emitEvent(e) \/ EmissionDies(e)
    \/ \E h \in Hooks : createWebhook(h) \/ updateWebhook(h) \/ deleteWebhook(h)

\* Every fetch is aborted after timeoutMs, every delay is finite.
Fairness == \A e \in Events : WF_hooksVars(emission[e] # New /\ emitEvent(e))

Spec == Init /\ [][Next]_hooksVars /\ Fairness
-----------------------------------------------------------------------------
\* Every variable keeps its type.
TypeOK ==
    /\ hooks \in [Hooks -> {"none", "on", "off", "deleted"}]
    /\ deliveries \in [Events -> [Hooks -> BoundedSeq(Results, maxRetries)]]
    /\ emission \in [Events -> {New, Ended, Aborted}
          \cup [phase : {"send", "log"}, hook : Hooks, todo : SUBSET Hooks,
                attempt : 1 .. maxRetries, ok : BOOLEAN]]
    /\ chosen \in [Events -> SUBSET Hooks]
    /\ received \in [Events -> [Hooks -> 0 .. maxRetries]]

InFlight(e, h) == emission[e].phase = "log" /\ emission[e].hook = h

\* The log accounts for every delivery: only the last attempt of a series is a
\* success; a success was received; a series is broken off before a success or the
\* last retry only if its emission was; and the receiver never got more than the log
\* shows, but for the attempt under way or the one an emission broke off at
\* (webhooks.ts:74-75, "logs every attempt, and dead-letters after the final
\* failure").
DeliveryLogAccounts ==
    \A e \in Events, h \in Hooks : hooks[h] # "deleted" =>
        LET tries == deliveries[e][h]
        IN  /\ \A i \in 1 .. Len(tries) - 1 : tries[i] = "failed"
            /\ Contains(tries, "delivered") => received[e][h] > 0
            /\ emission[e] = Ended /\ h \in chosen[e] /\ ~Contains(tries, "delivered") =>
                  Len(tries) = maxRetries
            /\ received[e][h] <= Len(tries) +
                  (IF InFlight(e, h) \/ emission[e] = Aborted THEN 1 ELSE 0)

\* Every emission comes to an end (webhooks.ts:93-125).
EmissionsEnd ==
    \A e \in Events : emission[e] # New ~> emission[e] \in {Ended, Aborted}
=============================================================================
