----------------------------- MODULE Anomalies -----------------------------
(***************************************************************************)
(* Anomaly detection (src/src/security/anomaly.ts), run by a scheduler and *)
(* possibly overlapping.  A pass counts the incidents of every kind, each  *)
(* on a snapshot of its own, and then raises what is above its threshold,  *)
(* kind by kind.  Incidents and anomalies are events of the security log   *)
(* (module SecurityLog shows that appending one is atomic); a time stands  *)
(* for one.                                                                *)
(***************************************************************************)
EXTENDS Integers, Sequences, FiniteSets

CONSTANTS
    Passes,    \* concurrent passes
    KindList,  \* the kinds of anomaly, in the order of the checks
    threshold, \* threshold of every kind
    windowMs,  \* length of the window
    LastTime,  \* bound: the clock
    MaxPasses  \* bound: passes in all

Kinds == {KindList[i] : i \in DOMAIN KindList}
Times == 1 .. LastTime
Idle == [phase |-> "idle"]

VARIABLES
    time,      \* Date.now()
    incidents, \* incidents[k]: times of the incidents of kind k, in order
    anomalies, \* anomalies[k]: times of the security.anomaly events of kind k
    pass,      \* pass[p]: what pass p has read and has still to do
    passes     \* passes begun (bounded by MaxPasses)

anomalyVars == <<time, incidents, anomalies, pass, passes>>

Init ==
    /\ time = 1
    /\ incidents = [k \in Kinds |-> <<>>]
    /\ anomalies = [k \in Kinds |-> {}]
    /\ pass = [p \in Passes |-> Idle]
    /\ passes = 0

Recent(k, since) == Cardinality({i \in DOMAIN incidents[k] : incidents[k][i] >= since})
Burst(k, since) == Recent(k, since) >= threshold

\* Bounded: an incident more than a window holds changes nothing.
Incident(k) ==
    /\ Len(incidents[k]) < threshold + 1
    /\ incidents' = [incidents EXCEPT ![k] = Append(@, time)]
    /\ UNCHANGED <<time, anomalies, pass, passes>>

\* detectAnomalies: the bounds of the window are taken once.
BeginPass(p) ==
    /\ pass[p] = Idle
    /\ passes < MaxPasses /\ passes' = passes + 1
    /\ LET since == time - windowMs
       IN  pass' = [pass EXCEPT ![p] =
             [phase |-> "count", since |-> since, todo |-> KindList, found |-> <<>>,
              bursts |-> {k \in Kinds : Burst(k, since)},
              before |-> {k \in Kinds : \E t \in anomalies[k] : t >= since}]]
    /\ UNCHANGED <<time, incidents, anomalies>>

\* The four counts, one after the other.
CountKind(p) ==
    /\ pass[p].phase = "count"
    /\ LET w == pass[p]
           k == Head(w.todo)
           found == IF Burst(k, w.since) THEN Append(w.found, k) ELSE w.found
           rest == Tail(w.todo)
       IN  pass' = [pass EXCEPT ![p] =
             [w EXCEPT !.phase = IF rest = <<>> THEN "check" ELSE "count",
                       !.found = found, !.todo = IF rest = <<>> THEN found ELSE rest]]
    /\ UNCHANGED <<time, incidents, anomalies, passes>>

\* Mutant: an anomaly raised at the start of the window does not count.
RaisedAfter(k, since) == \E t \in anomalies[k] : t > since

alreadyRaised(k, since) == \E t \in anomalies[k] : t >= since

\* The loop over the kinds above their threshold, to its end.
CheckKind(p) ==
    /\ pass[p].phase = "check" /\ pass[p].todo # <<>>
    /\ LET w == pass[p]
       IN  pass' = [pass EXCEPT ![p] =
             IF alreadyRaised(Head(w.todo), w.since) THEN [w EXCEPT !.todo = Tail(@)]
             ELSE [w EXCEPT !.phase = "append"]]
    /\ UNCHANGED <<time, incidents, anomalies, passes>>

\* appendSecurityEvent, and the notification of the same anomaly.
RaiseKind(p) ==
    /\ pass[p].phase = "append"
    /\ anomalies' = [anomalies EXCEPT ![Head(pass[p].todo)] = @ \cup {time}]
    /\ pass' = [pass EXCEPT ![p].phase = "check", ![p].todo = Tail(@)]
    /\ UNCHANGED <<time, incidents, passes>>

Finished(p) == pass[p].phase = "check" /\ pass[p].todo = <<>>

\* The pass returns; or it dies, in an append or a notification, and with it the
\* kinds that follow.
EndPass(p) ==
    /\ pass[p] # Idle
    /\ pass' = [pass EXCEPT ![p] = Idle]
    /\ UNCHANGED <<time, incidents, anomalies, passes>>

PassTime ==
    /\ time < LastTime /\ time' = time + 1
    /\ UNCHANGED <<incidents, anomalies, pass, passes>>

Next ==
    \/ \E k \in Kinds : Incident(k)
    \/ \E p \in Passes :
          BeginPass(p) \/ CountKind(p) \/ CheckKind(p) \/ RaiseKind(p) \/ EndPass(p)
    \/ PassTime

Spec == Init /\ [][Next]_anomalyVars
-----------------------------------------------------------------------------
\* Every variable keeps its type.
TypeOK ==
    /\ time \in Times
    /\ incidents \in [Kinds -> Seq(Times)]
    /\ anomalies \in [Kinds -> SUBSET Times]
    /\ passes \in 0 .. MaxPasses
    /\ \A p \in Passes : pass[p] # Idle =>
          /\ pass[p].phase \in {"count", "check", "append"}
          /\ pass[p].since \in 1 - windowMs .. LastTime
          /\ pass[p].todo \in Seq(Kinds) /\ pass[p].found \in Seq(Kinds)
          /\ pass[p].bursts \subseteq Kinds /\ pass[p].before \subseteq Kinds

\* A pass that runs to its end leaves every burst it began with in the log, raised
\* within its window, by itself or by another; and it never raises a kind that was in
\* the log when it began: only overlapping passes raise an anomaly twice
\* (anomaly.ts:64-66, "raised at most once per window").
AnomaliesRepeatOnlyOverlaps ==
    \A p \in Passes :
        /\ Finished(p) => \A k \in pass[p].bursts : \E t \in anomalies[k] : t >= pass[p].since
        /\ pass[p].phase = "append" => Head(pass[p].todo) \notin pass[p].before
=============================================================================
