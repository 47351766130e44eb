----------------------------- MODULE MCServices -----------------------------
(* Model-checking instance of the services around the core: data exports,   *)
(* webhooks, streamed answers, anomaly detection, the start of the server,   *)
(* and migrations.  They share no state, so a behaviour exercises one of     *)
(* them, and the fairness of the others asks nothing of it.                  *)
EXTENDS Migrations, TLC

CONSTANTS Jobs, Downloads, Hooks, Events, maxRetries, Chats,
          Passes, threshold, windowMs, LastTime, MaxPasses, MaxEdits, MaxBoots

\* Retries, thresholds and windows are natural numbers (env.schema.ts:124,
\* anomaly.ts:25-38); the clock starts at one.
ASSUME ServicesAssumption ==
    /\ {maxRetries, threshold, windowMs, MaxPasses, MaxEdits, MaxBoots} \subseteq Nat
    /\ LastTime \in Nat \ {0}

VARIABLES
    module, \* the module under way
    jobs, artifacts, runner, tokens, handed, overdue, download, consumed, interrupted,
    hooks, deliveries, emission, chosen, received,
    handler, client, upstream,
    time, incidents, anomalies, pass, passes,
    env, outage, process, report, sealed, edits, boots, repaired

Exports == INSTANCE Exports WITH files <- artifacts
Webhooks == INSTANCE Webhooks
Streams == INSTANCE Streams
Anomalies == INSTANCE Anomalies WITH KindList <- <<"auth_lockout_burst", "key_rotation_burst">>
Boot == INSTANCE Boot

exportsVars == <<jobs, artifacts, runner, tokens, handed, overdue, download, consumed, interrupted>>
hooksVars == <<hooks, deliveries, emission, chosen, received>>
streamVars == <<handler, client, upstream>>
anomalyVars == <<time, incidents, anomalies, pass, passes>>
bootVars == <<env, outage, process, report, sealed, edits, boots, repaired>>
vars == <<module, exportsVars, hooksVars, streamVars, anomalyVars, bootVars, migrationVars>>

Init ==
    /\ module \in {"exports", "webhooks", "streams", "anomalies", "boot", "migrations"}
    /\ Exports!Init /\ Webhooks!Init /\ Streams!Init /\ Anomalies!Init /\ Boot!Init
    /\ module # "boot" => env = Boot!Sound
    /\ MigrationsInit

ExportsStep ==
    /\ module = "exports" /\ Exports!Next
    /\ UNCHANGED <<module, hooksVars, streamVars, anomalyVars, bootVars, migrationVars>>

WebhooksStep ==
    /\ module = "webhooks" /\ Webhooks!Next
    /\ UNCHANGED <<module, exportsVars, streamVars, anomalyVars, bootVars, migrationVars>>

StreamsStep ==
    /\ module = "streams" /\ Streams!Next
    /\ UNCHANGED <<module, exportsVars, hooksVars, anomalyVars, bootVars, migrationVars>>

AnomaliesStep ==
    /\ module = "anomalies" /\ Anomalies!Next
    /\ UNCHANGED <<module, exportsVars, hooksVars, streamVars, bootVars, migrationVars>>

BootStep ==
    /\ module = "boot" /\ Boot!Next
    /\ UNCHANGED <<module, exportsVars, hooksVars, streamVars, anomalyVars, migrationVars>>

MigrationsStep ==
    /\ module = "migrations" /\ MigrationsNext
    /\ UNCHANGED <<module, exportsVars, hooksVars, streamVars, anomalyVars, bootVars>>

Next ==
    \/ ExportsStep \/ WebhooksStep \/ StreamsStep
    \/ AnomaliesStep \/ BootStep \/ MigrationsStep

Spec ==
    /\ Init /\ [][Next]_vars
    /\ Exports!Fairness /\ Webhooks!Fairness /\ Streams!Fairness

\* Every variable of the six modules keeps its type.
TypeOK ==
    /\ Exports!TypeOK /\ Webhooks!TypeOK /\ Streams!TypeOK
    /\ Anomalies!TypeOK /\ Boot!TypeOK /\ MigrationsTypeOK

\* A finished export can be fetched, and twice only by overlapping downloads (export.ts).
ExportsRepeatOnlyOverlaps == Exports!ExportsRepeatOnlyOverlaps

\* The delivery log accounts for what the receivers got (webhooks.ts).
DeliveryLogAccounts == Webhooks!DeliveryLogAccounts

\* Every burst is raised, and twice only by overlapping passes (anomaly.ts).
AnomaliesRepeatOnlyOverlaps == Anomalies!AnomaliesRepeatOnlyOverlaps

\* What one production process sealed, the next reads (config.ts, keySource.ts).
SealedDataStaysReadable == Boot!SealedDataStaysReadable

\* The report of a refused start names all there is to repair (config.ts).
ReportsAreComplete == Boot!ReportsAreComplete

\* Exports, emissions and streams come to an end (export.ts, webhooks.ts,
\* aiStream.ts).
JobsEnd == Exports!ExportsEnd /\ Webhooks!EmissionsEnd /\ Streams!StreamsEnd
=============================================================================
