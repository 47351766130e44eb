--------------------------- MODULE ServicesProofs ---------------------------
(***************************************************************************)
(* The services around the core, for any number of jobs, webhooks, passes, *)
(* migrators and starts: what each of their models promises on every       *)
(* behaviour, and that all their variables keep their types.               *)
(***************************************************************************)
EXTENDS MCServices, FiniteSetTheorems, TLAPS

-----------------------------------------------------------------------------
(* Exports *)

\* A token is kept when its runner is done, a download needs a token, and an artifact
\* that was removed is gone for good: no job is run twice.
ExportsFlow ==
    /\ \A j \in Jobs : /\ runner[j] # "off" => jobs[j] # "none"
                       /\ runner[j] \in {"commit", "stash"} => j \in artifacts
    /\ \A j \in tokens \cup handed : runner[j] = "off" /\ jobs[j] # "none"
    /\ \A j \in Jobs : jobs[j] = "EXPIRED" => j \in handed
    /\ consumed \subseteq handed /\ consumed \cap artifacts = {}
    /\ \A d \in Downloads : download[d] # Exports!Idle =>
          /\ download[d].job \in handed
          /\ download[d].late => download[d].job \in consumed
          /\ download[d].phase = "expire" => download[d].job \in consumed

ExportsInv == Exports!TypeOK /\ ExportsFlow /\ Exports!ExportsRepeatOnlyOverlaps

DownloadRecords == [phase : {"read", "remove", "expire"}, job : Jobs, late : BOOLEAN]

LEMMA InitExportsInv == Exports!Init => ExportsInv
<1> SUFFICES ASSUME Exports!Init PROVE ExportsInv
  OBVIOUS
<1>1. Exports!TypeOK
  BY DEF Exports!Init, Exports!TypeOK, Exports!Statuses, Exports!RunnerPhases
<1>2. ExportsFlow
  BY DEF Exports!Init, ExportsFlow
<1>3. Exports!ExportsRepeatOnlyOverlaps
  BY DEF Exports!Init, Exports!ExportsRepeatOnlyOverlaps, Exports!Idle
<1> QED  BY <1>1, <1>2, <1>3 DEF ExportsInv

\* The process restarts: what was under way is interrupted.
LEMMA RestartKeepsExportsInv ==
    ASSUME ExportsInv, Exports!Restart, UNCHANGED <<jobs, artifacts, handed, overdue, consumed>>
    PROVE  ExportsInv'
<1>1. Exports!TypeOK'
  BY DEF ExportsInv, Exports!Restart, Exports!TypeOK, Exports!RunnerPhases
<1>2. ExportsFlow'
  BY DEF ExportsInv, ExportsFlow, Exports!Restart, Exports!TypeOK
<1>3. Exports!ExportsRepeatOnlyOverlaps'
  BY DEF ExportsInv, Exports!Restart, Exports!TypeOK, Exports!ExportsRepeatOnlyOverlaps, Exports!Idle,
     Exports!Unanswered
<1> QED  BY <1>1, <1>2, <1>3 DEF ExportsInv

\* What a step of a runner does to its job.
RunnerMoves(j) ==
    /\ UNCHANGED <<handed, overdue, download, consumed, interrupted>>
    /\ j \notin tokens \cup handed /\ jobs[j] # "EXPIRED"
    /\ \E phase \in Exports!RunnerPhases : runner' = [runner EXCEPT ![j] = phase]
    /\ \/ jobs' = jobs
       \/ \E s \in {"PENDING", "RUNNING", "DONE", "FAILED"} : jobs' = [jobs EXCEPT ![j] = s]
    /\ artifacts \subseteq artifacts' /\ artifacts' \subseteq artifacts \cup {j}
    /\ tokens \subseteq tokens' /\ tokens' \subseteq tokens \cup {j}
    /\ jobs'[j] = "DONE" => \/ runner'[j] \in {"stash", "fail"} \/ j \in interrupted
                            \/ j \in tokens' /\ j \in artifacts'
    /\ runner'[j] \in {"commit", "stash"} => j \in artifacts'
    /\ j \in tokens' => runner'[j] = "off"
    /\ jobs'[j] # "none"

LEMMA RunnersMove ==
    ASSUME ExportsInv, NEW j \in Jobs, Exports!createExportJob(j) \/ Exports!runExportJob(j)
    PROVE  \/ Exports!Restart /\ UNCHANGED <<jobs, artifacts, handed, overdue, consumed>>
           \/ RunnerMoves(j)
<1> USE DEF Exports!Run, Exports!SetStatus
<1>0. Exports!TypeOK /\ ExportsFlow /\ Exports!ExportsRepeatOnlyOverlaps
  BY DEF ExportsInv
<1>1. ASSUME runner[j] # "off" \/ jobs[j] = "none"
      PROVE  j \notin tokens \cup handed /\ jobs[j] # "EXPIRED"
  BY <1>0, <1>1 DEF ExportsFlow
<1>8. /\ runner[j] # "off" => jobs[j] # "none"
      /\ runner[j] \in {"commit", "stash"} => j \in artifacts
  BY <1>0 DEF ExportsFlow
<1>9. jobs[j] = "DONE" => \/ runner[j] \in {"stash", "fail"} \/ j \in interrupted
                          \/ j \in tokens \cup handed
  BY <1>0 DEF Exports!ExportsRepeatOnlyOverlaps
<1>2. CASE Exports!createExportJob(j)
  BY <1>0, <1>1, <1>2 DEF Exports!createExportJob, Exports!TypeOK, Exports!RunnerPhases, RunnerMoves
<1>3. CASE Exports!MarkRunning(j)
  BY <1>0, <1>1, <1>3, <1>8 DEF Exports!MarkRunning, Exports!TypeOK, Exports!RunnerPhases, RunnerMoves
<1>4. CASE Exports!BuildArtifact(j)
  <2>1. jobs[j] = "DONE" => j \in interrupted
    BY <1>1, <1>4, <1>9 DEF Exports!BuildArtifact
  <2>2. /\ UNCHANGED <<jobs, tokens, handed, overdue, download, consumed, interrupted>>
        /\ \/ runner' = [runner EXCEPT ![j] = "commit"] /\ artifacts' = artifacts \cup {j}
           \/ /\ runner' = [runner EXCEPT ![j] = "fail"]
              /\ artifacts' \in {artifacts, artifacts \cup {j}}
    BY <1>4 DEF Exports!BuildArtifact
  <2>3. runner[j] # "off" /\ runner'[j] \in {"commit", "fail"} /\ runner \in [Jobs -> Exports!RunnerPhases]
    BY <1>0, <1>4, <2>2 DEF Exports!BuildArtifact, Exports!TypeOK
  <2> QED  BY <1>1, <1>8, <2>1, <2>2, <2>3 DEF RunnerMoves, Exports!RunnerPhases
<1>5. CASE Exports!MarkDone(j)
  BY <1>0, <1>1, <1>5, <1>8 DEF Exports!MarkDone, Exports!TypeOK,
     Exports!RunnerPhases, RunnerMoves
<1>6. CASE Exports!StashToken(j)
  BY <1>0, <1>1, <1>6, <1>8 DEF Exports!StashToken, Exports!TypeOK, Exports!RunnerPhases, RunnerMoves
<1>7. CASE Exports!MarkFailed(j)
  BY <1>0, <1>1, <1>7, <1>8 DEF Exports!MarkFailed, Exports!TypeOK, Exports!RunnerPhases, RunnerMoves
<1> QED  BY <1>2, <1>3, <1>4, <1>5, <1>6, <1>7 DEF Exports!runExportJob

LEMMA RunnersKeepExportsInv ==
    ASSUME ExportsInv, NEW j \in Jobs, RunnerMoves(j)
    PROVE  ExportsInv'
<1>0. Exports!TypeOK /\ ExportsFlow /\ Exports!ExportsRepeatOnlyOverlaps
  BY DEF ExportsInv
<1>1. Exports!TypeOK'
  BY <1>0 DEF Exports!TypeOK, Exports!Statuses, RunnerMoves
<1>2. \A k \in Jobs \ {j} :
        /\ runner'[k] = runner[k] /\ jobs'[k] = jobs[k]
        /\ (k \in artifacts' <=> k \in artifacts) /\ (k \in tokens' <=> k \in tokens)
  BY <1>0 DEF Exports!TypeOK, RunnerMoves
<1>3. jobs'[j] # "EXPIRED" /\ UNCHANGED <<handed, overdue, download, consumed, interrupted>>
  BY <1>0 DEF Exports!TypeOK, RunnerMoves
<1>4. ExportsFlow'
  BY <1>0, <1>2, <1>3 DEF Exports!TypeOK, ExportsFlow, RunnerMoves
<1>5. Exports!ExportsRepeatOnlyOverlaps'
  BY <1>0, <1>2, <1>3 DEF Exports!TypeOK, Exports!ExportsRepeatOnlyOverlaps, RunnerMoves,
     Exports!Unanswered
<1> QED  BY <1>1, <1>4, <1>5 DEF ExportsInv

\* The other steps leave the runners alone.
LEMMA ClientsKeepExportsInv ==
    ASSUME ExportsInv,
           \/ \E j \in Jobs : Exports!HourPasses(j) \/ Exports!takeDownloadToken(j)
           \/ \E d \in Downloads, j \in Jobs : Exports!BeginDownload(d, j)
           \/ \E d \in Downloads : \/ Exports!ReadArtifact(d) \/ Exports!RemoveArtifact(d)
                                   \/ Exports!MarkExpired(d) \/ Exports!DownloadFails(d)
    PROVE  ExportsInv'
<1> USE DEF Exports!Reached, Exports!SetStatus
<1>0. Exports!TypeOK /\ ExportsFlow /\ Exports!ExportsRepeatOnlyOverlaps
  BY DEF ExportsInv
<1>1. ASSUME NEW j \in Jobs, Exports!HourPasses(j) \/ Exports!takeDownloadToken(j)
      PROVE  ExportsInv'
  <2>1. /\ UNCHANGED <<jobs, artifacts, runner, download, consumed>>
        /\ tokens' \cup handed' \subseteq tokens \cup handed /\ handed \subseteq handed'
        /\ overdue' \subseteq Jobs /\ interrupted' \subseteq Jobs /\ interrupted \subseteq interrupted'
        /\ tokens \cup handed \subseteq tokens' \cup handed' \cup interrupted'
    BY <1>0, <1>1 DEF Exports!HourPasses, Exports!takeDownloadToken, Exports!TypeOK
  <2>2. Exports!TypeOK'
    BY <1>0, <2>1 DEF Exports!TypeOK
  <2>3. ExportsFlow'
    BY <1>0, <2>1 DEF ExportsFlow
  <2>4. Exports!ExportsRepeatOnlyOverlaps'
    <3>1. \A k \in Jobs : Exports!Unanswered(k)' <=> Exports!Unanswered(k)
      BY <2>1 DEF Exports!Unanswered
    <3> QED  BY <1>0, <2>1, <3>1 DEF Exports!ExportsRepeatOnlyOverlaps
  <2> QED  BY <2>2, <2>3, <2>4 DEF ExportsInv
<1>2. ASSUME NEW d \in Downloads, NEW j \in Jobs, Exports!BeginDownload(d, j)
      PROVE  ExportsInv'
  <2> DEFINE late == j \in consumed
             new == [phase |-> "read", job |-> j, late |-> late]
  <2>1. /\ UNCHANGED <<jobs, artifacts, runner, tokens, handed, overdue, consumed, interrupted>>
        /\ download' = [download EXCEPT ![d] = new] /\ j \in handed
        /\ download[d].phase # "expire"
    BY <1>2 DEF Exports!BeginDownload, Exports!Idle
  <2>2. /\ late \in BOOLEAN /\ (late => j \in consumed)
        /\ new.phase = "read" /\ new.job = j /\ new.late = late
    OBVIOUS
  <2> HIDE DEF late
  <2>3. new \in DownloadRecords
    BY <2>2 DEF DownloadRecords
  <2> HIDE DEF new
  <2>4. download'[d] = new /\ \A e \in Downloads \ {d} : download'[e] = download[e]
    BY <1>0, <2>1 DEF Exports!TypeOK
  <2>5. Exports!TypeOK'
    BY <1>0, <2>1, <2>3 DEF Exports!TypeOK, DownloadRecords
  <2>6. ExportsFlow'
    BY <1>0, <2>1, <2>2, <2>4 DEF ExportsFlow
  <2>7. Exports!ExportsRepeatOnlyOverlaps'
    BY <1>0, <2>1, <2>2, <2>4 DEF Exports!ExportsRepeatOnlyOverlaps, Exports!Unanswered
  <2> QED  BY <2>5, <2>6, <2>7 DEF ExportsInv
<1>3. ASSUME NEW d \in Downloads,
             \/ Exports!ReadArtifact(d) \/ Exports!RemoveArtifact(d)
             \/ Exports!MarkExpired(d) \/ Exports!DownloadFails(d)
      PROVE  ExportsInv'
  <2>1. download[d] # Exports!Idle /\ download[d] \in DownloadRecords
    BY <1>0, <1>3 DEF Exports!ReadArtifact, Exports!RemoveArtifact, Exports!MarkExpired,
       Exports!DownloadFails, Exports!TypeOK, Exports!Idle, DownloadRecords
  <2>2. download[d].job \in Jobs /\ download[d].job \in handed
    BY <1>0, <2>1 DEF ExportsFlow, DownloadRecords
  <2>3. UNCHANGED <<runner, tokens, handed, overdue>>
    BY <1>3 DEF Exports!ReadArtifact, Exports!RemoveArtifact, Exports!MarkExpired, Exports!DownloadFails
  <2>4. CASE /\ UNCHANGED <<jobs, artifacts, consumed>>
            /\ download' = [download EXCEPT ![d] = Exports!Idle]
            /\ interrupted' = IF download[d].phase = "expire" THEN interrupted \cup {download[d].job}
                                                              ELSE interrupted
    <3>1. download'[d] = Exports!Idle /\ \A e \in Downloads \ {d} : download'[e] = download[e]
      BY <1>0, <2>4 DEF Exports!TypeOK
    <3>2. Exports!TypeOK'
      BY <1>0, <2>2, <2>3, <2>4 DEF Exports!TypeOK
    <3>3. ExportsFlow'
      BY <1>0, <2>3, <2>4, <3>1 DEF ExportsFlow
    <3>4. Exports!ExportsRepeatOnlyOverlaps'
      BY <1>0, <2>3, <2>4, <3>1 DEF Exports!ExportsRepeatOnlyOverlaps, Exports!Idle,
         Exports!Unanswered
    <3> QED  BY <3>2, <3>3, <3>4 DEF ExportsInv
  <2>5. ASSUME NEW phase \in {"remove", "expire"},
               download' = [download EXCEPT ![d].phase = phase],
               UNCHANGED <<jobs, interrupted>>,
               \/ /\ phase = "remove" /\ download[d].job \in artifacts
                  /\ download[d].phase = "read" /\ UNCHANGED <<artifacts, consumed>>
               \/ /\ phase = "expire" /\ download[d].phase = "remove"
                  /\ artifacts' = artifacts \ {download[d].job}
                  /\ consumed' = consumed \cup {download[d].job}
        PROVE  ExportsInv'
    <3>1. /\ download'[d] \in DownloadRecords /\ download'[d] # Exports!Idle
          /\ download'[d].job = download[d].job /\ download'[d].late = download[d].late
          /\ download'[d].phase = phase
          /\ \A e \in Downloads \ {d} : download'[e] = download[e]
      BY <1>0, <2>1, <2>5 DEF Exports!TypeOK, DownloadRecords, Exports!Idle
    <3>2. Exports!TypeOK'
      BY <1>0, <2>1, <2>3, <2>5 DEF Exports!TypeOK, DownloadRecords
    <3>3. ~download[d].late
      BY <1>0, <2>1, <2>5 DEF ExportsFlow, Exports!ExportsRepeatOnlyOverlaps
    <3>4. ExportsFlow'
      BY <1>0, <2>1, <2>2, <2>3, <2>5, <3>1 DEF ExportsFlow
    <3>5. Exports!ExportsRepeatOnlyOverlaps'
      BY <1>0, <2>3, <2>5, <3>1, <3>3 DEF Exports!ExportsRepeatOnlyOverlaps, Exports!Unanswered
    <3> QED  BY <3>2, <3>4, <3>5 DEF ExportsInv
  <2>6. CASE Exports!MarkExpired(d)
    <3> DEFINE j == download[d].job
    <3>1. /\ jobs' = [jobs EXCEPT ![j] = "EXPIRED"] /\ UNCHANGED <<artifacts, consumed, interrupted>>
          /\ download' = [download EXCEPT ![d] = Exports!Idle]
      BY <2>6 DEF Exports!MarkExpired
    <3>2. j \notin artifacts
      BY <1>0, <2>1, <2>6 DEF Exports!MarkExpired, ExportsFlow
    <3>3. download'[d] = Exports!Idle /\ \A e \in Downloads \ {d} : download'[e] = download[e]
      BY <1>0, <3>1 DEF Exports!TypeOK
    <3>4. jobs'[j] = "EXPIRED" /\ \A k \in Jobs \ {j} : jobs'[k] = jobs[k]
      BY <1>0, <2>2, <3>1 DEF Exports!TypeOK
    <3>5. Exports!TypeOK'
      BY <1>0, <2>2, <2>3, <3>1 DEF Exports!TypeOK, Exports!Statuses
    <3>6. ExportsFlow'
      BY <1>0, <2>2, <2>3, <3>1, <3>2, <3>3, <3>4 DEF ExportsFlow, Exports!TypeOK
    <3>7. Exports!ExportsRepeatOnlyOverlaps'
      BY <1>0, <2>3, <3>1, <3>2, <3>3, <3>4 DEF Exports!ExportsRepeatOnlyOverlaps, Exports!Idle,
         Exports!Unanswered
    <3> QED  BY <3>5, <3>6, <3>7 DEF ExportsInv
  <2>7. CASE Exports!ReadArtifact(d)
    BY <2>4, <2>5, <2>7 DEF Exports!ReadArtifact
  <2>8. CASE Exports!RemoveArtifact(d)
    BY <2>5, <2>8 DEF Exports!RemoveArtifact
  <2> QED  BY <1>3, <2>4, <2>6, <2>7, <2>8 DEF Exports!DownloadFails
<1> QED  BY <1>1, <1>2, <1>3

LEMMA NextExportsInv == ExportsInv /\ [Exports!Next]_exportsVars => ExportsInv'
<1> SUFFICES ASSUME ExportsInv, [Exports!Next]_exportsVars PROVE ExportsInv'
  OBVIOUS
<1>1. CASE Exports!Crash
  BY <1>1, RestartKeepsExportsInv DEF Exports!Crash
<1>2. CASE UNCHANGED exportsVars
  <2>1. Exports!TypeOK'
    BY <1>2 DEF exportsVars, ExportsInv, Exports!TypeOK
  <2> QED  BY <1>2, <2>1 DEF exportsVars, ExportsInv, ExportsFlow,
              Exports!ExportsRepeatOnlyOverlaps, Exports!Unanswered
<1>3. ASSUME NEW j \in Jobs, Exports!createExportJob(j) \/ Exports!runExportJob(j) PROVE ExportsInv'
  BY <1>3, RunnersMove, RunnersKeepExportsInv, RestartKeepsExportsInv
<1> QED  BY <1>1, <1>2, <1>3, ClientsKeepExportsInv DEF Exports!Next

LEMMA ExportsInvariance == Spec => []ExportsInv
<1>1. Init => ExportsInv
  BY InitExportsInv DEF Init
<1>2. ExportsInv /\ [Next]_vars => ExportsInv'
  BY NextExportsInv
     DEF Next, ExportsStep, WebhooksStep, StreamsStep, AnomaliesStep, BootStep, MigrationsStep, vars
<1> QED  BY <1>1, <1>2, PTL DEF Spec

\* A job marked DONE can be fetched, unless something is about to finish or was lost on
\* the way, an EXPIRED one has left nothing, and a download that began after another had
\* removed the artifact never returns it (export.ts:48-143).
THEOREM ExportsStayFetchable == Spec => []ExportsRepeatOnlyOverlaps
<1>1. ExportsInv => ExportsRepeatOnlyOverlaps
  BY DEF ExportsInv, ExportsRepeatOnlyOverlaps
<1> QED  BY <1>1, ExportsInvariance, PTL

-----------------------------------------------------------------------------
(* Webhooks *)

Records == [phase : {"send", "log"}, hook : Hooks, todo : SUBSET Hooks,
            attempt : 1 .. maxRetries, ok : BOOLEAN]

Delivered(s) == \E i \in 1 .. Len(s) : s[i] = "delivered"

\* A webhook whose attempts are over.
Settled(e, h) ==
    hooks[h] # "deleted" => Delivered(deliveries[e][h]) \/ Len(deliveries[e][h]) = maxRetries

\* One that has not had any.
Untouched(e, h) == deliveries[e][h] = <<>> /\ received[e][h] = 0

\* The webhook an emission is working on.
OnHook(e, m) ==
    /\ m.hook \in chosen[e] \ m.todo /\ m.todo \subseteq chosen[e]
    /\ m.ok => m.phase = "log" /\ received[e][m.hook] > 0
    /\ received[e][m.hook] <= IF m.phase = "log" THEN m.attempt ELSE m.attempt - 1
    /\ hooks[m.hook] # "deleted" =>
          /\ Len(deliveries[e][m.hook]) = m.attempt - 1
          /\ \A i \in 1 .. Len(deliveries[e][m.hook]) : deliveries[e][m.hook][i] = "failed"
    /\ \A h \in m.todo : Untouched(e, h)
    /\ \A h \in chosen[e] \ (m.todo \cup {m.hook}) : Settled(e, h)

\* By how much the log may be behind the receiver.
Lag(e, h) == IF Webhooks!InFlight(e, h) \/ emission[e] = Webhooks!Aborted THEN 1 ELSE 0

\* What the log shows of a webhook, whatever the emission is doing.
Logged(e, h) ==
    /\ \A i \in 1 .. Len(deliveries[e][h]) - 1 : deliveries[e][h][i] = "failed"
    /\ Delivered(deliveries[e][h]) => received[e][h] > 0
    /\ received[e][h] <= Len(deliveries[e][h]) + Lag(e, h)

EventFlow(e) ==
    /\ emission[e] = Webhooks!New => chosen[e] = {}
    /\ \A h \in Hooks \ chosen[e] : Untouched(e, h)
    /\ emission[e] \in Records => OnHook(e, emission[e])
    /\ emission[e] = Webhooks!Ended => \A h \in chosen[e] : Settled(e, h)
    /\ \A h \in Hooks : hooks[h] # "deleted" => Logged(e, h)
    /\ \A h \in Hooks : Len(deliveries[e][h]) <= maxRetries

HooksTyped ==
    /\ hooks \in [Hooks -> {"none", "on", "off", "deleted"}]
    /\ deliveries \in [Events -> [Hooks -> Seq(Webhooks!Results)]]
    /\ emission \in [Events -> {Webhooks!New, Webhooks!Ended, Webhooks!Aborted} \cup Records]
    /\ chosen \in [Events -> SUBSET Hooks]
    /\ received \in [Events -> [Hooks -> 0 .. maxRetries]]

HooksInv == HooksTyped /\ \A e \in Events : EventFlow(e)

LEMMA SameContains ==
    ASSUME NEW s, NEW x PROVE Webhooks!Contains(s, x) <=> \E i \in 1 .. Len(s) : s[i] = x
BY DEF Webhooks!Contains

LEMMA Bounded ==
    ASSUME NEW S, NEW n \in Nat, NEW s
    PROVE  s \in Webhooks!BoundedSeq(S, n) <=> s \in Seq(S) /\ Len(s) <= n
<1>1. ASSUME s \in Webhooks!BoundedSeq(S, n) PROVE s \in Seq(S) /\ Len(s) <= n
  <2>1. PICK m \in 0 .. n : s \in [1 .. m -> S]
    BY <1>1 DEF Webhooks!BoundedSeq, Webhooks!SeqOf
  <2> QED  BY <2>1
<1>2. ASSUME s \in Seq(S), Len(s) <= n PROVE s \in Webhooks!BoundedSeq(S, n)
  <2>1. Len(s) \in 0 .. n /\ s \in [1 .. Len(s) -> S]
    BY <1>2
  <2> QED  BY <2>1 DEF Webhooks!BoundedSeq, Webhooks!SeqOf
<1> QED  BY <1>1, <1>2

LEMMA NextHook ==
    ASSUME NEW todo \in SUBSET Hooks, NEW n \in Webhooks!NextOf(todo)
    PROVE  \/ n = Webhooks!Ended /\ (todo = {} \/ maxRetries = 0)
           \/ /\ n \in Records /\ n.phase = "send" /\ n.hook \in todo
              /\ n.todo = todo \ {n.hook} /\ n.attempt = 1 /\ n.ok = FALSE
<1>1. CASE todo = {} \/ maxRetries = 0
  BY <1>1 DEF Webhooks!NextOf
<1>2. CASE todo # {} /\ maxRetries # 0
  <2>1. PICK h \in todo :
           n = [phase |-> "send", hook |-> h, todo |-> todo \ {h}, attempt |-> 1, ok |-> FALSE]
    BY <1>2 DEF Webhooks!NextOf
  <2>2. 1 \in 1 .. maxRetries
    BY <1>2, ServicesAssumption
  <2> QED  BY <2>1, <2>2 DEF Records
<1> QED  BY <1>1, <1>2

LEMMA UntouchedLog ==
    ASSUME NEW e, NEW h, Untouched(e, h) PROVE Logged(e, h) /\ Len(deliveries[e][h]) = 0
<1>1. Len(deliveries[e][h]) = 0 /\ received[e][h] = 0
  BY DEF Untouched
<1>2. Lag(e, h) \in {0, 1}
  BY DEF Lag
<1> QED  BY <1>1, <1>2 DEF Logged, Delivered

LEMMA InitHooksInv == Webhooks!Init => HooksInv
<1> SUFFICES ASSUME Webhooks!Init PROVE HooksInv
  OBVIOUS
<1>1. HooksTyped
  BY ServicesAssumption DEF Webhooks!Init, HooksTyped
<1>2. ASSUME NEW e \in Events PROVE EventFlow(e)
  <2>1. emission[e] = Webhooks!New /\ emission[e].phase = "new" /\ chosen[e] = {}
    BY DEF Webhooks!Init, Webhooks!New
  <2>2. \A h \in Hooks : deliveries[e][h] = <<>> /\ received[e][h] = 0
    BY DEF Webhooks!Init
  <2>3. \A h \in Hooks : Untouched(e, h) /\ Logged(e, h) /\ Len(deliveries[e][h]) <= maxRetries
    BY <2>2, UntouchedLog, ServicesAssumption DEF Untouched
  <2>4. emission[e] \notin Records /\ emission[e] # Webhooks!Ended
    BY <2>1 DEF Records, Webhooks!Ended
  <2> QED  BY <2>1, <2>3, <2>4 DEF EventFlow
<1> QED  BY <1>1, <1>2 DEF HooksInv

\* An emission leaves the others alone.
LEMMA OthersKeepFlow ==
    ASSUME HooksTyped, NEW e \in Events, EventFlow(e), hooks' = hooks, deliveries'[e] = deliveries[e],
           emission'[e] = emission[e], chosen'[e] = chosen[e], received'[e] = received[e]
    PROVE  EventFlow(e)'
<1>1. \A h \in Hooks : /\ Untouched(e, h)' <=> Untouched(e, h)
                       /\ Settled(e, h)' <=> Settled(e, h)
                       /\ Logged(e, h)' <=> Logged(e, h)
  BY DEF Untouched, Settled, Logged, Delivered, Lag, Webhooks!InFlight
<1>2. emission[e] \in Records => OnHook(e, emission[e])'
  BY <1>1 DEF EventFlow, OnHook, Records, HooksTyped
<1>3. chosen[e] \subseteq Hooks
  BY DEF HooksTyped
<1> QED  BY <1>1, <1>2, <1>3 DEF EventFlow

\* What an administrator changes, a deletion of deliveries at most.
LEMMA HooksKeepFlow ==
    ASSUME HooksTyped, NEW e \in Events, EventFlow(e), UNCHANGED <<emission, chosen, received>>,
           \A h \in Hooks :
              \/ hooks'[h] = "deleted" /\ deliveries'[e][h] \in {deliveries[e][h], <<>>}
              \/ hooks[h] # "deleted" /\ deliveries'[e][h] = deliveries[e][h]
    PROVE  EventFlow(e)'
<1>1. \A h \in Hooks :
         /\ Untouched(e, h) => Untouched(e, h)'
         /\ Settled(e, h) => Settled(e, h)'
         /\ hooks'[h] # "deleted" =>
                hooks[h] # "deleted" /\ deliveries'[e][h] = deliveries[e][h]
         /\ hooks'[h] # "deleted" => Logged(e, h)'
         /\ Len(deliveries'[e][h]) <= maxRetries
  <2> SUFFICES ASSUME NEW h \in Hooks
               PROVE  /\ Untouched(e, h) => Untouched(e, h)'
                      /\ Settled(e, h) => Settled(e, h)'
                      /\ hooks'[h] # "deleted" =>
                            hooks[h] # "deleted" /\ deliveries'[e][h] = deliveries[e][h]
                      /\ hooks'[h] # "deleted" => Logged(e, h)'
                      /\ Len(deliveries'[e][h]) <= maxRetries
    OBVIOUS
  <2>1. CASE hooks'[h] = "deleted" /\ deliveries'[e][h] \in {deliveries[e][h], <<>>}
    BY <2>1, ServicesAssumption DEF EventFlow, Untouched, Settled
  <2>2. CASE hooks[h] # "deleted" /\ deliveries'[e][h] = deliveries[e][h]
    <3>1. received' = received /\ emission' = emission
      OBVIOUS
    <3>2. /\ Untouched(e, h) => Untouched(e, h)'
          /\ Settled(e, h) => Settled(e, h)'
          /\ Logged(e, h) => Logged(e, h)'
      BY <2>2, <3>1 DEF Untouched, Settled, Logged, Delivered, Lag, Webhooks!InFlight
    <3> QED  BY <2>2, <3>2 DEF EventFlow
  <2> QED  BY <2>1, <2>2
<1>2. emission[e] \in Records => OnHook(e, emission[e])'
  BY <1>1 DEF EventFlow, OnHook, HooksTyped, Records
<1>3. chosen[e] \subseteq Hooks
  BY DEF HooksTyped
<1> QED  BY <1>1, <1>2, <1>3 DEF EventFlow

LEMMA HooksKeepInv ==
    ASSUME HooksInv, NEW h \in Hooks,
           Webhooks!createWebhook(h) \/ Webhooks!updateWebhook(h) \/ Webhooks!deleteWebhook(h)
    PROVE  HooksInv'
<1> USE DEF Webhooks!Set
<1>1. HooksTyped /\ UNCHANGED <<emission, chosen, received>>
  BY DEF HooksInv, Webhooks!createWebhook, Webhooks!updateWebhook, Webhooks!deleteWebhook
<1>2. HooksTyped'
  <2>1. <<>> \in Seq(Webhooks!Results)
    OBVIOUS
  <2>2. deliveries' \in [Events -> [Hooks -> Seq(Webhooks!Results)]]
    <3>1. CASE deliveries' = deliveries
      BY <1>1, <3>1 DEF HooksTyped
    <3>2. CASE deliveries' = [e \in Events |-> [deliveries[e] EXCEPT ![h] = <<>>]]
      <4>1. ASSUME NEW e \in Events
            PROVE  [deliveries[e] EXCEPT ![h] = <<>>] \in [Hooks -> Seq(Webhooks!Results)]
        BY <1>1, <2>1 DEF HooksTyped
      <4> QED  BY <3>2, <4>1
    <3> QED  BY <3>1, <3>2
             DEF Webhooks!createWebhook, Webhooks!updateWebhook, Webhooks!deleteWebhook
  <2>3. hooks' \in [Hooks -> {"none", "on", "off", "deleted"}]
    BY <1>1
       DEF HooksTyped, Webhooks!createWebhook, Webhooks!updateWebhook, Webhooks!deleteWebhook
  <2> QED  BY <1>1, <2>2, <2>3 DEF HooksTyped
<1>3. ASSUME NEW e \in Events, NEW k \in Hooks
      PROVE  \/ hooks'[k] = "deleted" /\ deliveries'[e][k] \in {deliveries[e][k], <<>>}
             \/ hooks[k] # "deleted" /\ deliveries'[e][k] = deliveries[e][k]
  <2>1. CASE k = h
    BY <1>1, <2>1
       DEF HooksTyped, Webhooks!createWebhook, Webhooks!updateWebhook, Webhooks!deleteWebhook
  <2>2. CASE k # h
    BY <1>1, <2>2
       DEF HooksTyped, Webhooks!createWebhook, Webhooks!updateWebhook, Webhooks!deleteWebhook
  <2> QED  BY <2>1, <2>2
<1> QED  BY <1>1, <1>2, <1>3, HooksKeepFlow DEF HooksInv

\* A step of emission e, at its webhook or to the next.
LEMMA BeginKeepsInv ==
    ASSUME HooksInv, NEW e \in Events, Webhooks!BeginEmission(e) PROVE HooksInv'
<1> USE DEF Webhooks!Become
<1> DEFINE configs == {h \in Hooks : hooks[h] = "on"}
<1>1. HooksTyped /\ EventFlow(e) /\ emission[e] = Webhooks!New
  BY DEF HooksInv, Webhooks!BeginEmission
<1>2. /\ chosen' = [chosen EXCEPT ![e] = configs] /\ UNCHANGED <<hooks, deliveries, received>>
      /\ \E n \in Webhooks!NextOf(configs) : emission' = [emission EXCEPT ![e] = n]
  BY DEF Webhooks!BeginEmission
<1>3. PICK n \in Webhooks!NextOf(configs) : emission' = [emission EXCEPT ![e] = n]
  BY <1>2
<1>4. \/ n = Webhooks!Ended /\ (configs = {} \/ maxRetries = 0)
      \/ /\ n \in Records /\ n.phase = "send" /\ n.hook \in configs
         /\ n.todo = configs \ {n.hook} /\ n.attempt = 1 /\ n.ok = FALSE
  BY NextHook
<1>5. configs \subseteq Hooks
  OBVIOUS
<1> HIDE DEF configs
<1>6. HooksTyped'
  BY <1>1, <1>2, <1>3, <1>4, <1>5 DEF HooksTyped
<1>7. emission'[e] = n /\ chosen'[e] = configs
      /\ \A x \in Events \ {e} : emission'[x] = emission[x] /\ chosen'[x] = chosen[x]
  BY <1>1, <1>2, <1>3 DEF HooksTyped
<1>8. \A h \in Hooks : Untouched(e, h) /\ Untouched(e, h)'
  BY <1>1, <1>2 DEF EventFlow, Untouched
<1>9. \A h \in Hooks : Logged(e, h)' /\ Len(deliveries'[e][h]) <= maxRetries
  <2> SUFFICES ASSUME NEW h \in Hooks
               PROVE  Logged(e, h)' /\ Len(deliveries'[e][h]) <= maxRetries
    OBVIOUS
  <2>1. Len(deliveries'[e][h]) = 0 /\ received'[e][h] = 0
    BY <1>8 DEF Untouched
  <2>2. Lag(e, h)' \in {0, 1}
    BY DEF Lag
  <2> QED  BY <2>1, <2>2, ServicesAssumption DEF Logged, Delivered
<1>10. ASSUME n \in Records, n.phase = "send", n.hook \in configs,
              n.todo = configs \ {n.hook}, n.attempt = 1, n.ok = FALSE
       PROVE  OnHook(e, n)'
  BY <1>5, <1>7, <1>8, <1>10 DEF OnHook, Untouched
<1>11. ASSUME n = Webhooks!Ended PROVE \A h \in configs : Settled(e, h)'
  BY <1>4, <1>5, <1>8, <1>11 DEF Settled, Untouched, Records, Webhooks!Ended
<1>12. n # Webhooks!New /\ (n = Webhooks!Ended => n \notin Records)
  BY <1>4 DEF Records, Webhooks!Ended, Webhooks!New
<1>13. EventFlow(e)'
  BY <1>4, <1>7, <1>8, <1>9, <1>10, <1>11, <1>12 DEF EventFlow
<1>14. \A x \in Events \ {e} : EventFlow(x)'
  BY <1>2, <1>7, OthersKeepFlow DEF HooksInv
<1> QED  BY <1>6, <1>13, <1>14 DEF HooksInv

LEMMA SendKeepsInv ==
    ASSUME HooksInv, NEW e \in Events, Webhooks!Send(e) PROVE HooksInv'
<1> USE DEF Webhooks!Become
<1> PICK m, h : m = emission[e] /\ h = m.hook
  OBVIOUS
<1>1. HooksTyped /\ EventFlow(e) /\ m.phase = "send"
  BY DEF HooksInv, Webhooks!Send
<1>2. m \in Records /\ h \in Hooks
  <2>1. /\ Webhooks!New.phase = "new" /\ Webhooks!Ended.phase = "ended"
        /\ Webhooks!Aborted.phase = "aborted"
    BY DEF Webhooks!New, Webhooks!Ended, Webhooks!Aborted
  <2>2. m \in {Webhooks!New, Webhooks!Ended, Webhooks!Aborted} \cup Records
    BY <1>1 DEF HooksTyped
  <2>3. m \in Records
    BY <1>1, <2>1, <2>2
  <2> QED  BY <2>3 DEF Records
<1>3. PICK arrives \in BOOLEAN, ok \in BOOLEAN :
         /\ ok => arrives
         /\ emission' = [emission EXCEPT ![e] = [m EXCEPT !.phase = "log", !.ok = ok]]
         /\ received' = IF arrives THEN [received EXCEPT ![e][h] = @ + 1] ELSE received
  BY DEF Webhooks!Send
<1>4. UNCHANGED <<hooks, deliveries, chosen>>
  BY DEF Webhooks!Send
<1> PICK n : n = [m EXCEPT !.phase = "log", !.ok = ok]
  OBVIOUS
<1>5. /\ n \in Records /\ n.phase = "log" /\ n.hook = h /\ n.todo = m.todo
      /\ n.attempt = m.attempt /\ (n.ok <=> ok) /\ m.attempt \in 1 .. maxRetries
  BY <1>2 DEF Records
<1>6. OnHook(e, m)
  BY <1>1, <1>2 DEF EventFlow
<1>7. emission' = [emission EXCEPT ![e] = n]
  BY <1>3
<1>8. received[e][h] \in 0 .. m.attempt - 1 /\ h \in chosen[e]
  BY <1>1, <1>2, <1>5, <1>6 DEF OnHook, HooksTyped
<1>9. received[e][h] + 1 \in 0 .. maxRetries
  BY <1>5, <1>8, ServicesAssumption
<1>10. /\ emission'[e] = n /\ \A x \in Events \ {e} : emission'[x] = emission[x]
       /\ \A x \in Events \ {e} : received'[x] = received[x]
       /\ \A k \in Hooks \ {h} : received'[e][k] = received[e][k]
       /\ received'[e][h] = IF arrives THEN received[e][h] + 1 ELSE received[e][h]
  BY <1>1, <1>2, <1>3, <1>7 DEF HooksTyped
<1>11. HooksTyped'
  <2>1. received' \in [Events -> [Hooks -> 0 .. maxRetries]]
    BY <1>1, <1>2, <1>3, <1>9 DEF HooksTyped
  <2> QED  BY <1>1, <1>4, <1>5, <1>7, <2>1 DEF HooksTyped
<1>12. n # Webhooks!New /\ n # Webhooks!Ended /\ n # Webhooks!Aborted /\ m # Webhooks!Aborted
  <2>1. /\ Webhooks!New.phase = "new" /\ Webhooks!Ended.phase = "ended"
        /\ Webhooks!Aborted.phase = "aborted"
    BY DEF Webhooks!New, Webhooks!Ended, Webhooks!Aborted
  <2> QED  BY <1>1, <1>5, <2>1
<1>13. \A k \in Hooks \ {h} : /\ Untouched(e, k)' <=> Untouched(e, k)
                            /\ Settled(e, k)' <=> Settled(e, k)
  BY <1>4, <1>10 DEF Untouched, Settled
<1>14. ASSUME NEW k \in Hooks, hooks'[k] # "deleted" PROVE Logged(e, k)'
  <2>1. Logged(e, k) /\ ~Webhooks!InFlight(e, k)
    BY <1>1, <1>4, <1>14 DEF EventFlow, Webhooks!InFlight
  <2>2. emission[e] # Webhooks!Aborted
    BY <1>12
  <2>3. Webhooks!InFlight(e, k)' <=> k = h
    BY <1>5, <1>10 DEF Webhooks!InFlight
  <2>4. received[e][k] \in Nat /\ Len(deliveries[e][k]) \in Nat
    BY <1>1 DEF HooksTyped
  <2>5. received'[e][k] \in Nat /\ received'[e][k] >= received[e][k]
    BY <1>10, <2>4
  <2>6. received'[e][k] <= received[e][k] + IF k = h THEN 1 ELSE 0
    BY <1>10, <2>4
  <2>7. Lag(e, k) = 0 /\ (k = h => Lag(e, k)' = 1) /\ Lag(e, k)' \in {0, 1}
    BY <2>1, <2>2, <2>3 DEF Lag
  <2>8. received[e][k] <= Len(deliveries[e][k])
    BY <2>1, <2>4, <2>7 DEF Logged
  <2>9. received'[e][k] <= Len(deliveries[e][k]) + Lag(e, k)'
    BY <2>4, <2>5, <2>6, <2>7, <2>8
  <2>10. Delivered(deliveries[e][k]) => received'[e][k] > 0
    BY <2>1, <2>4, <2>5 DEF Logged
  <2> QED  BY <1>4, <2>1, <2>9, <2>10 DEF Logged
<1>15. OnHook(e, n)'
  <2>1. n.ok => received'[e][h] > 0
    BY <1>3, <1>5, <1>8, <1>10
  <2>2. received'[e][h] <= n.attempt
    BY <1>5, <1>8, <1>10
  <2>3. n.todo \subseteq Hooks
    BY <1>5 DEF Records
  <2>4. h \in chosen'[e] \ n.todo /\ n.todo \subseteq chosen'[e] /\ chosen'[e] \subseteq Hooks
    BY <1>1, <1>4, <1>5, <1>6, <1>11 DEF OnHook, HooksTyped
  <2>5. hooks'[h] # "deleted" =>
          /\ Len(deliveries'[e][h]) = n.attempt - 1
          /\ \A i \in 1 .. Len(deliveries'[e][h]) : deliveries'[e][h][i] = "failed"
    BY <1>4, <1>5, <1>6 DEF OnHook
  <2>6. \A k \in n.todo : Untouched(e, k)'
    <3> SUFFICES ASSUME NEW k \in n.todo PROVE Untouched(e, k)'
      OBVIOUS
    <3>1. k \in Hooks \ {h}
      BY <2>3, <2>4
    <3>2. Untouched(e, k)
      BY <1>5, <1>6 DEF OnHook
    <3>3. Untouched(e, k)' <=> Untouched(e, k)
      BY <1>4, <1>10, <3>1 DEF Untouched
    <3> QED  BY <3>2, <3>3
  <2>7. \A k \in chosen'[e] \ (n.todo \cup {h}) : Settled(e, k)'
    BY <1>4, <1>5, <1>6, <1>13, <2>4 DEF OnHook
  <2>8. n.hook = h /\ n.phase = "log"
    BY <1>5
  <2> QED  BY <2>1, <2>2, <2>4, <2>5, <2>6, <2>7, <2>8 DEF OnHook, Untouched, Settled
<1>16. EventFlow(e)'
  <2>1. \A k \in Hooks \ chosen'[e] : Untouched(e, k)'
    <3> SUFFICES ASSUME NEW k \in Hooks \ chosen'[e] PROVE Untouched(e, k)'
      OBVIOUS
    <3>1. k # h /\ Untouched(e, k)
      BY <1>1, <1>4, <1>8 DEF EventFlow
    <3>3. Untouched(e, k)' <=> Untouched(e, k)
      BY <1>4, <1>10, <3>1 DEF Untouched
    <3> QED  BY <3>1, <3>3
  <2>2. \A k \in Hooks : Len(deliveries'[e][k]) <= maxRetries
    BY <1>1, <1>4 DEF EventFlow
  <2>3. emission'[e] = n
    BY <1>10
  <2> QED  BY <1>12, <1>14, <1>15, <2>1, <2>2, <2>3 DEF EventFlow, Untouched
<1>17. \A x \in Events \ {e} : EventFlow(x)'
  BY <1>1, <1>4, <1>10, OthersKeepFlow DEF HooksInv
<1> QED  BY <1>11, <1>16, <1>17 DEF HooksInv

LEMMA DeathKeepsInv ==
    ASSUME HooksInv, NEW e \in Events, emission[e].phase \in {"send", "log"},
           emission' = [emission EXCEPT ![e] = Webhooks!Aborted],
           UNCHANGED <<hooks, deliveries, chosen, received>>
    PROVE  HooksInv'
<1>1. HooksTyped /\ EventFlow(e)
  BY DEF HooksInv
<1>2. HooksTyped'
  BY <1>1 DEF HooksTyped
<1>3. emission'[e] = Webhooks!Aborted /\ \A x \in Events \ {e} : emission'[x] = emission[x]
  BY <1>1 DEF HooksTyped
<1>4. /\ Webhooks!Aborted # Webhooks!New /\ Webhooks!Aborted # Webhooks!Ended
      /\ Webhooks!Aborted \notin Records
  BY DEF Records, Webhooks!Aborted, Webhooks!New, Webhooks!Ended
<1>5. \A h \in Hooks : Untouched(e, h)' <=> Untouched(e, h)
  BY DEF Untouched
<1>6. ASSUME NEW h \in Hooks, hooks'[h] # "deleted" PROVE Logged(e, h)'
  <2>1. Logged(e, h)
    BY <1>1, <1>6 DEF EventFlow
  <2>2. received[e][h] \in Nat /\ Len(deliveries[e][h]) \in Nat
    BY <1>1 DEF HooksTyped
  <2>3. Lag(e, h) \in {0, 1} /\ Lag(e, h)' = 1
    BY <1>3 DEF Lag
  <2>4. received[e][h] <= Len(deliveries[e][h]) + 1
    BY <2>1, <2>2, <2>3 DEF Logged
  <2> QED  BY <2>1, <2>3, <2>4 DEF Logged
<1>7. EventFlow(e)'
  BY <1>1, <1>3, <1>4, <1>5, <1>6 DEF EventFlow
<1>8. \A x \in Events \ {e} : EventFlow(x)'
  BY <1>1, <1>3, OthersKeepFlow DEF HooksInv
<1> QED  BY <1>2, <1>7, <1>8 DEF HooksInv

\* The insertion of the attempt, and what comes after it.
LEMMA LogKeepsInv ==
    ASSUME HooksInv, NEW e \in Events, Webhooks!LogAttempt(e),
           hooks[emission[e].hook] # "deleted"
    PROVE  HooksInv'
<1> USE DEF Webhooks!Become
<1> PICK m, h : m = emission[e] /\ h = m.hook
  OBVIOUS
<1> PICK tries : tries = deliveries[e][h]
  OBVIOUS
<1> PICK result : result = IF m.ok THEN "delivered" ELSE "failed"
  OBVIOUS
<1>1. HooksTyped /\ EventFlow(e) /\ m.phase = "log"
  BY DEF HooksInv, Webhooks!LogAttempt
<1>2. m \in Records /\ h \in Hooks
  <2>1. /\ Webhooks!New.phase = "new" /\ Webhooks!Ended.phase = "ended"
        /\ Webhooks!Aborted.phase = "aborted"
    BY DEF Webhooks!New, Webhooks!Ended, Webhooks!Aborted
  <2>2. m \in {Webhooks!New, Webhooks!Ended, Webhooks!Aborted} \cup Records
    BY <1>1 DEF HooksTyped
  <2>3. m \in Records
    BY <1>1, <2>1, <2>2
  <2> QED  BY <2>3 DEF Records
<1>3. /\ deliveries' = [deliveries EXCEPT ![e][h] = Append(@, result)]
      /\ \E n \in Webhooks!AfterAttempt(m) : emission' = [emission EXCEPT ![e] = n]
      /\ UNCHANGED <<hooks, chosen, received>>
  BY DEF Webhooks!LogAttempt
<1>4. PICK n \in Webhooks!AfterAttempt(m) : emission' = [emission EXCEPT ![e] = n]
  BY <1>3
<1>5. OnHook(e, m)
  BY <1>1, <1>2 DEF EventFlow
<1>6. /\ m.attempt \in 1 .. maxRetries /\ m.ok \in BOOLEAN
      /\ m.todo \subseteq Hooks \ {h} /\ result \in Webhooks!Results
      /\ (m.ok <=> result = "delivered")
  BY <1>2, <1>5 DEF Records, OnHook, Webhooks!Results
<1>7. \/ /\ ~m.ok /\ m.attempt < maxRetries
         /\ n \in Records /\ n.phase = "send" /\ n.hook = h /\ n.todo = m.todo
         /\ n.attempt = m.attempt + 1 /\ n.ok = FALSE
      \/ /\ m.ok \/ m.attempt = maxRetries
         /\ n \in Webhooks!NextOf(m.todo)
  <2>1. CASE ~m.ok /\ m.attempt < maxRetries
    <3>1. n = [m EXCEPT !.phase = "send", !.attempt = @ + 1]
      BY <1>4, <2>1 DEF Webhooks!AfterAttempt
    <3>2. m.attempt + 1 \in 1 .. maxRetries
      BY <1>6, <2>1, ServicesAssumption
    <3>3. n.phase = "send" /\ n.hook = m.hook /\ n.todo = m.todo
          /\ n.attempt = m.attempt + 1 /\ n.ok = m.ok /\ n \in Records
      BY <1>2, <3>1, <3>2 DEF Records
    <3> QED  BY <1>6, <2>1, <3>3
  <2>2. CASE ~(~m.ok /\ m.attempt < maxRetries)
    <3>1. n \in Webhooks!NextOf(m.todo)
      BY <1>4, <2>2 DEF Webhooks!AfterAttempt
    <3> QED  BY <1>6, <2>2, <3>1, ServicesAssumption
  <2> QED  BY <2>1, <2>2
<1>8. \/ /\ ~m.ok /\ m.attempt < maxRetries
         /\ n \in Records /\ n.phase = "send" /\ n.hook = h /\ n.todo = m.todo
         /\ n.attempt = m.attempt + 1 /\ n.ok = FALSE
      \/ /\ m.ok \/ m.attempt = maxRetries
         /\ n = Webhooks!Ended /\ m.todo = {}
      \/ /\ m.ok \/ m.attempt = maxRetries
         /\ n \in Records /\ n.phase = "send" /\ n.hook \in m.todo
         /\ n.todo = m.todo \ {n.hook} /\ n.attempt = 1 /\ n.ok = FALSE
  <2>1. maxRetries # 0 /\ m.todo \subseteq Hooks
    BY <1>6, ServicesAssumption
  <2>2. ASSUME n \in Webhooks!NextOf(m.todo)
        PROVE  \/ n = Webhooks!Ended /\ m.todo = {}
               \/ /\ n \in Records /\ n.phase = "send" /\ n.hook \in m.todo
                  /\ n.todo = m.todo \ {n.hook} /\ n.attempt = 1 /\ n.ok = FALSE
    BY <2>1, <2>2, NextHook
  <2> QED  BY <1>7, <2>2
<1>9. n \notin {Webhooks!New, Webhooks!Aborted} /\ (n \in Records <=> n # Webhooks!Ended)
      /\ m # Webhooks!Aborted
  BY <1>1, <1>8 DEF Records, Webhooks!New, Webhooks!Ended, Webhooks!Aborted
<1>10. /\ tries \in Seq(Webhooks!Results) /\ Len(tries) = m.attempt - 1
       /\ \A i \in 1 .. Len(tries) : tries[i] = "failed"
  BY <1>1, <1>2, <1>5 DEF OnHook, HooksTyped
<1>11. /\ emission'[e] = n /\ \A x \in Events \ {e} : emission'[x] = emission[x]
       /\ \A x \in Events \ {e} : deliveries'[x] = deliveries[x]
       /\ \A k \in Hooks \ {h} : deliveries'[e][k] = deliveries[e][k]
       /\ deliveries'[e][h] = Append(tries, result)
  BY <1>1, <1>2, <1>3, <1>4 DEF HooksTyped
<1>12. HooksTyped'
  <2>1. Append(tries, result) \in Seq(Webhooks!Results)
    BY <1>6, <1>10
  <2>2. deliveries' \in [Events -> [Hooks -> Seq(Webhooks!Results)]]
    BY <1>1, <1>2, <1>3, <2>1 DEF HooksTyped
  <2>3. n \in {Webhooks!New, Webhooks!Ended, Webhooks!Aborted} \cup Records
    BY <1>9
  <2> QED  BY <1>1, <1>3, <1>4, <2>2, <2>3 DEF HooksTyped
<1> PICK next : next = Append(tries, result)
  OBVIOUS
<1>13. /\ Len(next) = m.attempt
       /\ \A i \in 1 .. Len(next) - 1 : next[i] = "failed"
       /\ next[Len(next)] = result
  <2>1. /\ Len(next) = Len(tries) + 1 /\ next[Len(tries) + 1] = result
        /\ \A i \in 1 .. Len(tries) : next[i] = tries[i]
    BY <1>6, <1>10
  <2>2. Len(next) = m.attempt /\ Len(next) - 1 = Len(tries)
    BY <1>6, <1>10, <2>1
  <2>3. \A i \in 1 .. Len(next) - 1 : next[i] = "failed"
    BY <1>10, <2>1, <2>2
  <2>4. next[Len(next)] = result
    BY <2>1, <2>2
  <2> QED  BY <2>2, <2>3, <2>4
<1>14. deliveries'[e][h] = next
  BY <1>11
<1>15. Delivered(next) <=> m.ok
  BY <1>6, <1>13 DEF Delivered
<1>16. \A k \in Hooks \ {h} : /\ Untouched(e, k)' <=> Untouched(e, k)
                            /\ Settled(e, k)' <=> Settled(e, k)
  BY <1>3, <1>11 DEF Untouched, Settled
<1>17. received[e][h] \in Nat /\ received[e][h] <= m.attempt /\ (m.ok => received[e][h] > 0)
  BY <1>1, <1>2, <1>5, <1>12 DEF OnHook, HooksTyped
<1>18. ASSUME NEW k \in Hooks, hooks'[k] # "deleted" PROVE Logged(e, k)'
  <2>1. CASE k = h
    <3>1. Lag(e, k)' \in {0, 1}
      BY DEF Lag
    <3>2. received'[e][k] <= Len(next) + Lag(e, k)'
      BY <1>3, <1>6, <1>13, <1>17, <2>1, <3>1
    <3> QED  BY <1>3, <1>13, <1>14, <1>15, <1>17, <2>1, <3>2 DEF Logged
  <2>2. CASE k # h
    <3>1. Logged(e, k) /\ ~Webhooks!InFlight(e, k) /\ emission[e] # Webhooks!Aborted
      BY <1>1, <1>3, <1>9, <1>18, <2>2 DEF EventFlow, Webhooks!InFlight
    <3>2. Lag(e, k) = 0 /\ Lag(e, k)' \in {0, 1}
      BY <3>1 DEF Lag
    <3>3. received[e][k] \in Nat /\ Len(deliveries[e][k]) \in Nat
      BY <1>1 DEF HooksTyped
    <3>4. received[e][k] <= Len(deliveries[e][k]) + Lag(e, k)'
      BY <3>1, <3>2, <3>3 DEF Logged
    <3> QED  BY <1>3, <1>11, <2>2, <3>1, <3>4 DEF Logged
  <2> QED  BY <2>1, <2>2
<1>19. Settled(e, h)' \/ (~m.ok /\ m.attempt < maxRetries)
  <2>1. m.ok \/ m.attempt = maxRetries \/ m.attempt < maxRetries
    BY <1>6, ServicesAssumption
  <2> QED  BY <1>13, <1>14, <1>15, <2>1 DEF Settled
<1>20. h \in chosen'[e] \ m.todo /\ m.todo \subseteq chosen'[e] /\ chosen'[e] \subseteq Hooks
  BY <1>1, <1>3, <1>5 DEF OnHook, HooksTyped
<1>21. (\A k \in m.todo : Untouched(e, k)')
       /\ \A k \in chosen'[e] \ (m.todo \cup {h}) : Settled(e, k)'
  <2>1. (\A k \in m.todo : Untouched(e, k))
        /\ \A k \in chosen[e] \ (m.todo \cup {h}) : Settled(e, k)
    BY <1>5 DEF OnHook
  <2>2. (\A k \in m.todo : k \in Hooks \ {h})
        /\ \A k \in chosen'[e] \ (m.todo \cup {h}) : k \in Hooks \ {h}
    BY <1>20
  <2> QED  BY <1>3, <1>16, <2>1, <2>2 DEF Untouched, Settled
<1>22. ASSUME n \in Records PROVE OnHook(e, n)'
  <2>1. CASE n.hook = h
    <3>1. /\ ~m.ok /\ n.phase = "send" /\ n.todo = m.todo
          /\ n.attempt = m.attempt + 1 /\ n.ok = FALSE
      BY <1>8, <1>9, <1>20, <1>22, <2>1
    <3>2. result = "failed"
      BY <1>6, <3>1
    <3>3. Len(next) = n.attempt - 1 /\ \A i \in 1 .. Len(next) : next[i] = "failed"
      BY <1>6, <1>13, <3>1, <3>2
    <3>4. received'[e][h] <= n.attempt - 1
      BY <1>3, <1>6, <1>17, <3>1
    <3> QED  BY <1>14, <1>20, <1>21, <2>1, <3>1, <3>3, <3>4 DEF OnHook
  <2>2. CASE n.hook # h
    <3>1. /\ m.ok \/ m.attempt = maxRetries
          /\ n.phase = "send" /\ n.hook \in m.todo
          /\ n.todo = m.todo \ {n.hook} /\ n.attempt = 1 /\ n.ok = FALSE
      BY <1>8, <1>9, <1>22, <2>2
    <3>2. deliveries'[e][n.hook] = <<>> /\ received'[e][n.hook] = 0
      BY <1>21, <3>1 DEF Untouched
    <3>3. Settled(e, h)'
      BY <1>6, <1>19, <3>1, ServicesAssumption
    <3>4. \A k \in chosen'[e] \ (n.todo \cup {n.hook}) : Settled(e, k)'
      BY <1>21, <3>1, <3>3 DEF Settled
    <3>5. /\ n.hook \in chosen'[e] \ n.todo /\ n.todo \subseteq chosen'[e]
          /\ \A k \in n.todo : Untouched(e, k)'
      BY <1>20, <1>21, <3>1
    <3>6. received'[e][n.hook] <= n.attempt - 1
      BY <3>1, <3>2
    <3>7. Len(deliveries'[e][n.hook]) = n.attempt - 1
          /\ \A i \in 1 .. Len(deliveries'[e][n.hook]) : deliveries'[e][n.hook][i] = "failed"
      BY <3>1, <3>2
    <3> QED  BY <3>1, <3>4, <3>5, <3>6, <3>7 DEF OnHook
  <2> QED  BY <2>1, <2>2
<1>23. ASSUME n = Webhooks!Ended PROVE \A k \in chosen'[e] : Settled(e, k)'
  <2>1. m.todo = {} /\ (m.ok \/ m.attempt = maxRetries)
    BY <1>8, <1>9, <1>23
  <2>2. Settled(e, h)'
    BY <1>6, <1>19, <2>1, ServicesAssumption
  <2> QED  BY <1>21, <2>1, <2>2 DEF Settled
<1>24. EventFlow(e)'
  <2>1. \A k \in Hooks \ chosen'[e] : Untouched(e, k)'
    <3>1. \A k \in Hooks \ chosen'[e] : k # h
      BY <1>20
    <3> QED  BY <1>1, <1>3, <1>16, <3>1 DEF EventFlow, Untouched
  <2>2. \A k \in Hooks : Len(deliveries'[e][k]) <= maxRetries
    <3>1. Len(deliveries'[e][h]) <= maxRetries
      <4>1. Len(next) <= maxRetries
        BY <1>6, <1>13, ServicesAssumption
      <4> QED  BY <1>14, <4>1
    <3> QED  BY <1>1, <1>11, <3>1 DEF EventFlow
  <2>3. emission'[e] = n
    BY <1>11
  <2> QED  BY <1>9, <1>18, <1>22, <1>23, <2>1, <2>2, <2>3 DEF EventFlow
<1>25. \A x \in Events \ {e} : EventFlow(x)'
  BY <1>1, <1>3, <1>11, OthersKeepFlow DEF HooksInv
<1> QED  BY <1>12, <1>24, <1>25 DEF HooksInv

LEMMA NextHooksInv == HooksInv /\ [Webhooks!Next]_hooksVars => HooksInv'
<1> SUFFICES ASSUME HooksInv, [Webhooks!Next]_hooksVars PROVE HooksInv'
  OBVIOUS
<1>1. ASSUME NEW e \in Events, Webhooks!LogAttempt(e) PROVE HooksInv'
  <2>1. CASE hooks[emission[e].hook] = "deleted"
    BY <1>1, <2>1, DeathKeepsInv DEF Webhooks!LogAttempt, Webhooks!Become
  <2> QED  BY <1>1, <2>1, LogKeepsInv
<1>2. ASSUME NEW e \in Events, Webhooks!EmissionDies(e) PROVE HooksInv'
  BY <1>2, DeathKeepsInv DEF Webhooks!EmissionDies, Webhooks!Become
<1>3. CASE UNCHANGED hooksVars
  <2>1. HooksTyped /\ UNCHANGED <<hooks, deliveries, emission, chosen, received>>
    BY <1>3 DEF hooksVars, HooksInv
  <2>2. HooksTyped'
    BY <2>1 DEF HooksTyped
  <2> QED  BY <2>1, <2>2, OthersKeepFlow DEF HooksInv
<1> QED  BY <1>1, <1>2, <1>3, BeginKeepsInv, SendKeepsInv, HooksKeepInv
         DEF Webhooks!Next, Webhooks!emitEvent

LEMMA HooksInvGives == HooksInv => Webhooks!TypeOK /\ Webhooks!DeliveryLogAccounts
<1> SUFFICES ASSUME HooksInv PROVE Webhooks!TypeOK /\ Webhooks!DeliveryLogAccounts
  OBVIOUS
<1>1. HooksTyped /\ \A e \in Events : EventFlow(e)
  BY DEF HooksInv
<1>2. Webhooks!TypeOK
  <2>1. ASSUME NEW e \in Events
        PROVE  deliveries[e] \in [Hooks -> Webhooks!BoundedSeq(Webhooks!Results, maxRetries)]
    <3>1. ASSUME NEW h \in Hooks
          PROVE  deliveries[e][h] \in Webhooks!BoundedSeq(Webhooks!Results, maxRetries)
      BY <1>1, Bounded, ServicesAssumption DEF HooksTyped, EventFlow
    <3> QED  BY <1>1, <3>1 DEF HooksTyped
  <2> QED  BY <1>1, <2>1 DEF HooksTyped, Webhooks!TypeOK, Records
<1>3. ASSUME NEW e \in Events, NEW h \in Hooks, hooks[h] # "deleted"
      PROVE  /\ \A i \in 1 .. Len(deliveries[e][h]) - 1 : deliveries[e][h][i] = "failed"
             /\ Webhooks!Contains(deliveries[e][h], "delivered") => received[e][h] > 0
             /\ emission[e] = Webhooks!Ended /\ h \in chosen[e]
                    /\ ~Webhooks!Contains(deliveries[e][h], "delivered") =>
                   Len(deliveries[e][h]) = maxRetries
             /\ received[e][h] <= Len(deliveries[e][h]) + Lag(e, h)
  <2>1. Logged(e, h) /\ (emission[e] = Webhooks!Ended /\ h \in chosen[e] => Settled(e, h))
    BY <1>1, <1>3 DEF EventFlow
  <2>2. Webhooks!Contains(deliveries[e][h], "delivered") <=> Delivered(deliveries[e][h])
    BY SameContains DEF Delivered
  <2> QED  BY <1>3, <2>1, <2>2 DEF Logged, Settled
<1>4. Webhooks!DeliveryLogAccounts
  BY <1>3 DEF Webhooks!DeliveryLogAccounts, Lag
<1> QED  BY <1>2, <1>4

LEMMA HooksInvariance == Spec => []HooksInv
<1>1. Init => HooksInv
  BY InitHooksInv DEF Init
<1>2. HooksInv /\ [Next]_vars => HooksInv'
  BY NextHooksInv
     DEF Next, ExportsStep, WebhooksStep, StreamsStep, AnomaliesStep, BootStep, MigrationsStep, vars
<1> QED  BY <1>1, <1>2, PTL DEF Spec

\* The delivery log accounts for every delivery: only the last attempt of a series is a
\* success, no series is cut short, and the receiver got what the log shows, but for the
\* attempt under way (webhooks.ts:74-75).
THEOREM LogAccounts == Spec => []DeliveryLogAccounts
<1>1. HooksInv => DeliveryLogAccounts
  BY HooksInvGives DEF DeliveryLogAccounts
<1> QED  BY <1>1, HooksInvariance, PTL

-----------------------------------------------------------------------------
(* Anomaly detection *)

Members(s) == {s[i] : i \in DOMAIN s}

PassRecords == [phase : {"count", "check", "append"}, since : 1 - windowMs .. LastTime,
                todo : Seq(Anomalies!Kinds), found : Seq(Anomalies!Kinds),
                bursts : SUBSET Anomalies!Kinds, before : SUBSET Anomalies!Kinds]

\* A burst counted once is one for good, a kind raised once stays raised; and every
\* burst is still to be counted, found, or raised.
PassFlow(w) ==
    /\ w.since <= time
    /\ \A k \in w.bursts : Anomalies!Burst(k, w.since)
    /\ \A k \in w.before : Anomalies!alreadyRaised(k, w.since)
    /\ w.phase = "count" =>
          w.todo # <<>> /\ w.bursts \subseteq Members(w.todo) \cup Members(w.found)
    /\ w.phase # "count" =>
          \A k \in w.bursts : k \in Members(w.todo) \/ Anomalies!alreadyRaised(k, w.since)
    /\ w.phase = "append" => w.todo # <<>> /\ Head(w.todo) \notin w.before

AnomaliesTyped ==
    /\ time \in 1 .. LastTime
    /\ incidents \in [Anomalies!Kinds -> Seq(Anomalies!Times)]
    /\ anomalies \in [Anomalies!Kinds -> SUBSET Anomalies!Times]
    /\ pass \in [Passes -> {Anomalies!Idle} \cup PassRecords]
    /\ passes \in 0 .. MaxPasses

AnomaliesInv ==
    AnomaliesTyped /\ \A p \in Passes : pass[p] # Anomalies!Idle => PassFlow(pass[p])

LEMMA SameCount == ASSUME NEW S PROVE Anomalies!Cardinality(S) = Cardinality(S)
BY DEF Anomalies!Cardinality, Cardinality

KindOrder == <<"auth_lockout_burst", "key_rotation_burst">>

LEMMA KindsListed ==
    /\ Anomalies!Kinds = Members(KindOrder)
    /\ KindOrder \in Seq(Anomalies!Kinds) /\ KindOrder # <<>>
BY DEF Anomalies!Kinds, Members, KindOrder

\* A pass at work is a record, an idle one is not.
LEMMA IdleIsNone ==
    Anomalies!Idle.phase = "idle" /\ Anomalies!Idle \notin PassRecords
BY DEF Anomalies!Idle, PassRecords

\* The head of a sequence and the members of its tail.
LEMMA TailMembers ==
    ASSUME NEW S, NEW s \in Seq(S), s # <<>>
    PROVE  /\ Head(s) \in S /\ Tail(s) \in Seq(S)
           /\ Members(s) \subseteq {Head(s)} \cup Members(Tail(s))
<1>1. Len(s) \in Nat /\ Len(s) > 0 /\ Head(s) = s[1] /\ Head(s) \in S
  OBVIOUS
<1>2. Tail(s) \in Seq(S) /\ Len(Tail(s)) = Len(s) - 1
      /\ \A i \in 1 .. Len(s) - 1 : Tail(s)[i] = s[i + 1]
  BY <1>1
<1>3. ASSUME NEW i \in 1 .. Len(s), i # 1 PROVE s[i] \in Members(Tail(s))
  <2>1. i - 1 \in 1 .. Len(s) - 1 /\ (i - 1) + 1 = i
    BY <1>1, <1>3
  <2>2. i - 1 \in DOMAIN Tail(s) /\ Tail(s)[i - 1] = s[i]
    BY <1>2, <2>1
  <2> QED  BY <2>2 DEF Members
<1> QED  BY <1>1, <1>2, <1>3 DEF Members

LEMMA AppendMembers ==
    ASSUME NEW S, NEW s \in Seq(S), NEW x \in S
    PROVE  Append(s, x) \in Seq(S) /\ Members(Append(s, x)) = Members(s) \cup {x}
<1>1. /\ Append(s, x) \in Seq(S) /\ Len(Append(s, x)) = Len(s) + 1 /\ Len(s) \in Nat
      /\ Append(s, x)[Len(s) + 1] = x
      /\ \A i \in 1 .. Len(s) : Append(s, x)[i] = s[i]
  OBVIOUS
<1>2. DOMAIN Append(s, x) = 1 .. Len(s) + 1 /\ DOMAIN s = 1 .. Len(s)
  BY <1>1
<1> QED  BY <1>1, <1>2 DEF Members

\* Incidents are only added.
LEMMA BurstsLast ==
    ASSUME NEW k \in Anomalies!Kinds, NEW since,
           incidents[k] \in Seq(Anomalies!Times), Anomalies!Burst(k, since),
           \/ incidents'[k] = incidents[k]
           \/ \E t \in Anomalies!Times : incidents'[k] = Append(incidents[k], t)
    PROVE  Anomalies!Burst(k, since)'
<1> DEFINE S == {i \in DOMAIN incidents[k] : incidents[k][i] >= since}
           T == {i \in DOMAIN incidents'[k] : incidents'[k][i] >= since}
<1>1. /\ Len(incidents[k]) \in Nat /\ DOMAIN incidents[k] = 1 .. Len(incidents[k])
      /\ \E n \in Nat : DOMAIN incidents'[k] = 1 .. n
      /\ DOMAIN incidents[k] \subseteq DOMAIN incidents'[k]
      /\ \A i \in DOMAIN incidents[k] : incidents'[k][i] = incidents[k][i]
  <2>1. CASE incidents'[k] = incidents[k]
    BY <2>1
  <2>2. ASSUME NEW t \in Anomalies!Times, incidents'[k] = Append(incidents[k], t)
        PROVE  <1>1
    BY <2>2
  <2> QED  BY <2>1, <2>2
<1>2. S \subseteq T
  BY <1>1
<1>3. IsFiniteSet(DOMAIN incidents'[k]) /\ T \subseteq DOMAIN incidents'[k]
  <2>1. PICK n \in Nat : DOMAIN incidents'[k] = 1 .. n
    BY <1>1
  <2>2. IsFiniteSet(1 .. n)
    BY <2>1, FS_Interval
  <2> QED  BY <2>1, <2>2
<1>4. IsFiniteSet(T)
  BY <1>3, FS_Subset
<1>5. /\ IsFiniteSet(S) /\ Cardinality(S) \in Nat /\ Cardinality(T) \in Nat
      /\ Cardinality(S) <= Cardinality(T)
  BY <1>2, <1>4, FS_Subset, FS_CardinalityType
<1>6. Anomalies!Recent(k, since) = Cardinality(S)
  BY SameCount DEF Anomalies!Recent
<1>7. Anomalies!Recent(k, since)' = Cardinality(T)
  BY SameCount DEF Anomalies!Recent
<1>8. Cardinality(S) >= threshold
  BY <1>6 DEF Anomalies!Burst
<1>9. Cardinality(T) >= threshold
  <2> HIDE DEF S, T
  <2> QED  BY <1>5, <1>8, ServicesAssumption
<1> QED  BY <1>7, <1>9 DEF Anomalies!Burst

LEMMA RaisedLast ==
    ASSUME NEW k, NEW since, Anomalies!alreadyRaised(k, since), anomalies[k] \subseteq anomalies'[k]
    PROVE  Anomalies!alreadyRaised(k, since)'
BY DEF Anomalies!alreadyRaised

\* What goes on around a pass: time passes, and incidents and anomalies are added.
Around ==
    /\ AnomaliesTyped /\ time' \in Nat /\ time <= time'
    /\ \A k \in Anomalies!Kinds :
          /\ \/ incidents'[k] = incidents[k]
             \/ \E t \in Anomalies!Times : incidents'[k] = Append(incidents[k], t)
          /\ anomalies[k] \subseteq anomalies'[k]

LEMMA PassesGoOn ==
    ASSUME Around, NEW w \in PassRecords, PassFlow(w)
    PROVE  PassFlow(w)'
<1>1. w.bursts \subseteq Anomalies!Kinds /\ w.before \subseteq Anomalies!Kinds
      /\ w.since \in 1 - windowMs .. LastTime
  BY DEF PassRecords
<1>2. w.since <= time'
  <2>1. w.since \in Int /\ time \in Int /\ w.since <= time
    BY <1>1, ServicesAssumption DEF Around, AnomaliesTyped, PassFlow
  <2> QED  BY <2>1 DEF Around
<1>3. ASSUME NEW k \in w.bursts PROVE Anomalies!Burst(k, w.since)'
  <2>1. incidents[k] \in Seq(Anomalies!Times) /\ Anomalies!Burst(k, w.since)
        /\ k \in Anomalies!Kinds
    BY <1>1 DEF Around, AnomaliesTyped, PassFlow
  <2> QED  BY <2>1, BurstsLast DEF Around
<1>4. ASSUME NEW k \in Anomalies!Kinds, Anomalies!alreadyRaised(k, w.since)
      PROVE  Anomalies!alreadyRaised(k, w.since)'
  BY <1>4, RaisedLast DEF Around
<1> QED  BY <1>1, <1>2, <1>3, <1>4 DEF PassFlow

LEMMA InitAnomaliesInv == Anomalies!Init => AnomaliesInv
<1> SUFFICES ASSUME Anomalies!Init PROVE AnomaliesInv
  OBVIOUS
<1>1. <<>> \in Seq(Anomalies!Times)
  OBVIOUS
<1>2. AnomaliesTyped
  BY <1>1, ServicesAssumption DEF Anomalies!Init, AnomaliesTyped
<1>3. \A p \in Passes : pass[p] = Anomalies!Idle
  BY DEF Anomalies!Init
<1> QED  BY <1>2, <1>3 DEF AnomaliesInv

\* A step of one pass, which keeps the rest of the passes as they are.
LEMMA PassStep ==
    ASSUME AnomaliesInv, AnomaliesTyped', Around, NEW p \in Passes, NEW w,
           pass' = [pass EXCEPT ![p] = w], w # Anomalies!Idle => PassFlow(w)'
    PROVE  AnomaliesInv'
<1>1. AnomaliesTyped
  BY DEF AnomaliesInv
<1>2. pass'[p] = w /\ \A q \in Passes \ {p} : pass'[q] = pass[q]
  BY <1>1 DEF AnomaliesTyped
<1>3. ASSUME NEW q \in Passes \ {p}, pass[q] # Anomalies!Idle PROVE PassFlow(pass[q])'
  <2> PICK v : v = pass[q]
    OBVIOUS
  <2>1. v \in PassRecords /\ PassFlow(v)
    BY <1>1, <1>3 DEF AnomaliesInv, AnomaliesTyped
  <2>2. PassFlow(v)'
    BY <2>1, PassesGoOn
  <2>3. pass'[q] = v
    BY <1>2
  <2> QED  BY <2>2, <2>3
<1>4. ASSUME NEW q \in Passes, pass'[q] # Anomalies!Idle PROVE PassFlow(pass[q])'
  <2>1. CASE q = p
    <3>1. PassFlow(w)'
      BY <1>2, <1>4, <2>1
    <3> QED  BY <1>2, <2>1, <3>1
  <2>2. CASE q # p
    BY <1>2, <1>3, <1>4, <2>2
  <2> QED  BY <2>1, <2>2
<1> QED  BY <1>4 DEF AnomaliesInv

\* The steps that leave every pass where it is.
LEMMA SurroundingsKeepAnomalies ==
    ASSUME AnomaliesInv, Anomalies!PassTime \/ \E k \in Anomalies!Kinds : Anomalies!Incident(k)
    PROVE  AnomaliesInv'
<1>1. AnomaliesTyped
  BY DEF AnomaliesInv
<1>2. Around /\ AnomaliesTyped' /\ pass' = pass
  <2>1. CASE Anomalies!PassTime
    BY <1>1, <2>1, ServicesAssumption DEF Anomalies!PassTime, Around, AnomaliesTyped
  <2>2. ASSUME NEW k \in Anomalies!Kinds, Anomalies!Incident(k)
        PROVE  Around /\ AnomaliesTyped' /\ pass' = pass
    <3>1. /\ incidents' = [incidents EXCEPT ![k] = Append(@, time)]
          /\ UNCHANGED <<time, anomalies, pass, passes>>
      BY <2>2 DEF Anomalies!Incident
    <3>2. incidents[k] \in Seq(Anomalies!Times) /\ time \in Anomalies!Times /\ time \in Nat
      BY <1>1 DEF AnomaliesTyped, Anomalies!Times
    <3>3. Append(incidents[k], time) \in Seq(Anomalies!Times)
      BY <3>2
    <3>4. incidents'[k] = Append(incidents[k], time)
          /\ \A l \in Anomalies!Kinds \ {k} : incidents'[l] = incidents[l]
      BY <1>1, <3>1 DEF AnomaliesTyped
    <3>5. Around
      BY <1>1, <3>1, <3>2, <3>4 DEF Around
    <3>6. AnomaliesTyped'
      BY <1>1, <3>1, <3>3 DEF AnomaliesTyped
    <3> QED  BY <3>1, <3>5, <3>6
  <2> QED  BY <2>1, <2>2
<1>3. ASSUME NEW q \in Passes, pass'[q] # Anomalies!Idle PROVE PassFlow(pass[q])'
  <2> PICK v : v = pass[q]
    OBVIOUS
  <2>1. v \in PassRecords /\ PassFlow(v)
    BY <1>1, <1>2, <1>3 DEF AnomaliesInv, AnomaliesTyped
  <2>2. PassFlow(v)'
    BY <1>2, <2>1, PassesGoOn
  <2>3. pass'[q] = v
    BY <1>2
  <2> QED  BY <2>2, <2>3
<1> QED  BY <1>2, <1>3 DEF AnomaliesInv

LEMMA BeginKeepsAnomalies ==
    ASSUME AnomaliesInv, NEW p \in Passes, Anomalies!BeginPass(p) PROVE AnomaliesInv'
<1>1. AnomaliesTyped /\ passes < MaxPasses /\ passes' = passes + 1
      /\ UNCHANGED <<time, incidents, anomalies>>
  BY DEF AnomaliesInv, Anomalies!BeginPass
<1> PICK since : since = time - windowMs
  OBVIOUS
<1> PICK bursts : bursts = {k \in Anomalies!Kinds : Anomalies!Burst(k, since)}
  OBVIOUS
<1> PICK before : before = {k \in Anomalies!Kinds : Anomalies!alreadyRaised(k, since)}
  OBVIOUS
<1> PICK w : w = [phase |-> "count", since |-> since, todo |-> KindOrder, found |-> <<>>,
                  bursts |-> bursts, before |-> before]
  OBVIOUS
<1>2. pass' = [pass EXCEPT ![p] = w]
  BY DEF Anomalies!BeginPass, KindOrder, Anomalies!alreadyRaised
<1>3. since \in 1 - windowMs .. LastTime /\ since <= time
  BY <1>1, ServicesAssumption DEF AnomaliesTyped
<1>4. w \in PassRecords
  BY <1>3, KindsListed DEF PassRecords
<1>5. Around
  BY <1>1 DEF Around, AnomaliesTyped
<1>6. AnomaliesTyped'
  <2>1. passes' \in 0 .. MaxPasses
    BY <1>1, ServicesAssumption DEF AnomaliesTyped
  <2> QED  BY <1>1, <1>2, <1>4, <2>1 DEF AnomaliesTyped
<1>7. PassFlow(w)
  BY <1>3, KindsListed DEF PassFlow
<1>8. PassFlow(w)'
  BY <1>4, <1>5, <1>7, PassesGoOn
<1> QED  BY <1>2, <1>5, <1>6, <1>8, PassStep

\* A step of a pass that changes nothing but the pass.
LEMMA PassAlone ==
    ASSUME AnomaliesInv, NEW p \in Passes, NEW w \in PassRecords, PassFlow(w),
           pass' = [pass EXCEPT ![p] = w], UNCHANGED <<time, incidents, anomalies, passes>>
    PROVE  AnomaliesInv'
<1>1. AnomaliesTyped
  BY DEF AnomaliesInv
<1>2. Around
  BY <1>1 DEF Around, AnomaliesTyped
<1>3. AnomaliesTyped'
  BY <1>1 DEF AnomaliesTyped
<1>4. PassFlow(w)'
  BY <1>2, PassesGoOn
<1> QED  BY <1>2, <1>3, <1>4, PassStep

LEMMA AtWork ==
    ASSUME AnomaliesInv, NEW p \in Passes, pass[p] # Anomalies!Idle
    PROVE  pass[p] \in PassRecords /\ PassFlow(pass[p])
BY DEF AnomaliesInv, AnomaliesTyped

LEMMA CountKeepsAnomalies ==
    ASSUME AnomaliesInv, NEW p \in Passes, Anomalies!CountKind(p) PROVE AnomaliesInv'
<1> PICK w : w = pass[p]
  OBVIOUS
<1> PICK k : k = Head(w.todo)
  OBVIOUS
<1> PICK found : found = IF Anomalies!Burst(k, w.since) THEN Append(w.found, k) ELSE w.found
  OBVIOUS
<1> PICK rest : rest = Tail(w.todo)
  OBVIOUS
<1> PICK todo : todo = IF rest = <<>> THEN found ELSE rest
  OBVIOUS
<1> PICK phase : phase = IF rest = <<>> THEN "check" ELSE "count"
  OBVIOUS
<1> PICK n : n = [w EXCEPT !.phase = phase, !.found = found, !.todo = todo]
  OBVIOUS
<1>1. /\ w.phase = "count" /\ pass' = [pass EXCEPT ![p] = n]
      /\ UNCHANGED <<time, incidents, anomalies, passes>>
  BY DEF Anomalies!CountKind
<1>2. w \in PassRecords /\ PassFlow(w)
  BY <1>1, AtWork, IdleIsNone
<1>3. /\ w.todo \in Seq(Anomalies!Kinds) /\ w.found \in Seq(Anomalies!Kinds)
      /\ w.todo # <<>> /\ w.bursts \subseteq Anomalies!Kinds
  BY <1>1, <1>2 DEF PassRecords, PassFlow
<1>4. /\ k \in Anomalies!Kinds /\ rest \in Seq(Anomalies!Kinds)
      /\ Members(w.todo) \subseteq {k} \cup Members(rest)
  BY <1>3, TailMembers
<1>5. /\ found \in Seq(Anomalies!Kinds) /\ Members(w.found) \subseteq Members(found)
      /\ Anomalies!Burst(k, w.since) => k \in Members(found)
  BY <1>3, <1>4, AppendMembers
<1>6. todo \in Seq(Anomalies!Kinds) /\ phase \in {"count", "check"}
  BY <1>4, <1>5
<1>7. /\ n \in PassRecords /\ n.phase = phase /\ n.found = found /\ n.todo = todo
      /\ n.since = w.since /\ n.bursts = w.bursts /\ n.before = w.before
  BY <1>2, <1>5, <1>6 DEF PassRecords
<1>8. w.bursts \subseteq Members(rest) \cup Members(found)
  BY <1>1, <1>2, <1>4, <1>5 DEF PassFlow
<1>9. rest = <<>> => Members(rest) = {}
  BY DEF Members
<1>10. PassFlow(n)
  <2>1. phase = "count" => todo # <<>> /\ w.bursts \subseteq Members(todo) \cup Members(found)
    BY <1>8
  <2>2. phase # "count" => phase = "check" /\ w.bursts \subseteq Members(todo)
    BY <1>8, <1>9
  <2>3. /\ w.since <= time
        /\ \A l \in w.bursts : Anomalies!Burst(l, w.since)
        /\ \A l \in w.before : Anomalies!alreadyRaised(l, w.since)
    BY <1>2 DEF PassFlow
  <2> QED  BY <1>7, <2>1, <2>2, <2>3 DEF PassFlow
<1> QED  BY <1>1, <1>7, <1>10, PassAlone

LEMMA CheckKeepsAnomalies ==
    ASSUME AnomaliesInv, NEW p \in Passes, Anomalies!CheckKind(p) PROVE AnomaliesInv'
<1> PICK w : w = pass[p]
  OBVIOUS
<1> PICK k : k = Head(w.todo)
  OBVIOUS
<1>1. /\ w.phase = "check" /\ w.todo # <<>>
      /\ pass' = [pass EXCEPT ![p] = IF Anomalies!alreadyRaised(k, w.since)
                                       THEN [w EXCEPT !.todo = Tail(w.todo)]
                                       ELSE [w EXCEPT !.phase = "append"]]
      /\ UNCHANGED <<time, incidents, anomalies, passes>>
  <2>1. w.phase = "check" /\ w.todo # <<>> /\ UNCHANGED <<time, incidents, anomalies, passes>>
    BY DEF Anomalies!CheckKind
  <2>2. AnomaliesTyped
    BY DEF AnomaliesInv
  <2> QED  BY <2>1, <2>2 DEF Anomalies!CheckKind, AnomaliesTyped
<1>2. w \in PassRecords /\ PassFlow(w)
  BY <1>1, AtWork, IdleIsNone
<1>3. w.todo \in Seq(Anomalies!Kinds) /\ w.bursts \subseteq Anomalies!Kinds
  BY <1>2 DEF PassRecords
<1>4. /\ k \in Anomalies!Kinds /\ Tail(w.todo) \in Seq(Anomalies!Kinds)
      /\ Members(w.todo) \subseteq {k} \cup Members(Tail(w.todo))
  BY <1>1, <1>3, TailMembers
<1>5. /\ w.since <= time
      /\ \A l \in w.bursts : Anomalies!Burst(l, w.since)
      /\ \A l \in w.before : Anomalies!alreadyRaised(l, w.since)
      /\ \A l \in w.bursts : l \in Members(w.todo) \/ Anomalies!alreadyRaised(l, w.since)
  BY <1>1, <1>2 DEF PassFlow
<1>6. CASE Anomalies!alreadyRaised(k, w.since)
  <2> PICK n : n = [w EXCEPT !.todo = Tail(w.todo)]
    OBVIOUS
  <2>1. /\ n \in PassRecords /\ n.phase = "check" /\ n.todo = Tail(w.todo)
        /\ n.since = w.since /\ n.bursts = w.bursts /\ n.before = w.before
    BY <1>1, <1>2, <1>4 DEF PassRecords
  <2>2. PassFlow(n)
    <3>1. \A l \in w.bursts : l \in Members(Tail(w.todo)) \/ Anomalies!alreadyRaised(l, w.since)
      BY <1>4, <1>5, <1>6
    <3> QED  BY <1>5, <2>1, <3>1 DEF PassFlow
  <2> QED  BY <1>1, <1>6, <2>1, <2>2, PassAlone
<1>7. CASE ~Anomalies!alreadyRaised(k, w.since)
  <2> PICK n : n = [w EXCEPT !.phase = "append"]
    OBVIOUS
  <2>1. /\ n \in PassRecords /\ n.phase = "append" /\ n.todo = w.todo
        /\ n.since = w.since /\ n.bursts = w.bursts /\ n.before = w.before
    BY <1>2 DEF PassRecords
  <2>2. k \notin w.before
    BY <1>5, <1>7
  <2>3. PassFlow(n)
    BY <1>1, <1>5, <2>1, <2>2 DEF PassFlow
  <2> QED  BY <1>1, <1>7, <2>1, <2>3, PassAlone
<1> QED  BY <1>6, <1>7

LEMMA RaiseKeepsAnomalies ==
    ASSUME AnomaliesInv, NEW p \in Passes, Anomalies!RaiseKind(p) PROVE AnomaliesInv'
<1> PICK w : w = pass[p]
  OBVIOUS
<1> PICK k : k = Head(w.todo)
  OBVIOUS
<1> PICK n : n = [w EXCEPT !.phase = "check", !.todo = Tail(w.todo)]
  OBVIOUS
<1>0. AnomaliesTyped
  BY DEF AnomaliesInv
<1>1. w.phase = "append"
  BY DEF Anomalies!RaiseKind
<1>2. w \in PassRecords /\ PassFlow(w)
  BY <1>1, AtWork, IdleIsNone
<1>3. /\ w.todo \in Seq(Anomalies!Kinds) /\ w.todo # <<>> /\ w.bursts \subseteq Anomalies!Kinds
  BY <1>1, <1>2 DEF PassRecords, PassFlow
<1>4. /\ k \in Anomalies!Kinds /\ Tail(w.todo) \in Seq(Anomalies!Kinds)
      /\ Members(w.todo) \subseteq {k} \cup Members(Tail(w.todo))
  BY <1>3, TailMembers
<1>5. /\ n \in PassRecords /\ n.phase = "check" /\ n.todo = Tail(w.todo)
      /\ n.since = w.since /\ n.bursts = w.bursts /\ n.before = w.before
  BY <1>2, <1>4 DEF PassRecords
<1>6. /\ pass' = [pass EXCEPT ![p] = n]
      /\ anomalies' = [anomalies EXCEPT ![k] = @ \cup {time}]
      /\ UNCHANGED <<time, incidents, passes>>
  <2>1. /\ pass' = [pass EXCEPT ![p].phase = "check", ![p].todo = Tail(@)]
        /\ anomalies' = [anomalies EXCEPT ![k] = @ \cup {time}]
        /\ UNCHANGED <<time, incidents, passes>>
    BY DEF Anomalies!RaiseKind
  <2>2. pass' = [pass EXCEPT ![p] = n]
    BY <1>0, <2>1 DEF AnomaliesTyped
  <2> QED  BY <2>1, <2>2
<1>7. time \in Anomalies!Times /\ time \in Int
  BY <1>0 DEF AnomaliesTyped, Anomalies!Times
<1>8. /\ anomalies'[k] = anomalies[k] \cup {time}
      /\ \A l \in Anomalies!Kinds : anomalies[l] \subseteq anomalies'[l]
      /\ anomalies' \in [Anomalies!Kinds -> SUBSET Anomalies!Times]
  BY <1>0, <1>4, <1>6, <1>7 DEF AnomaliesTyped
<1>9. Around
  BY <1>0, <1>6, <1>8 DEF Around, AnomaliesTyped
<1>10. AnomaliesTyped'
  BY <1>0, <1>5, <1>6, <1>8 DEF AnomaliesTyped
<1>11. PassFlow(w)'
  BY <1>2, <1>9, PassesGoOn
<1>12. Anomalies!alreadyRaised(k, w.since)'
  <2>1. w.since <= time
    BY <1>2 DEF PassFlow
  <2>2. w.since \in Int
    BY <1>2, ServicesAssumption DEF PassRecords
  <2>3. time >= w.since
    BY <1>7, <2>1, <2>2
  <2> QED  BY <1>8, <2>3 DEF Anomalies!alreadyRaised
<1>13. PassFlow(n)'
  <2>1. /\ w.since <= time'
        /\ \A l \in w.bursts : Anomalies!Burst(l, w.since)'
        /\ \A l \in w.before : Anomalies!alreadyRaised(l, w.since)'
        /\ \A l \in w.bursts : l \in Members(w.todo) \/ Anomalies!alreadyRaised(l, w.since)'
    BY <1>1, <1>11 DEF PassFlow
  <2>2. \A l \in w.bursts : l \in Members(n.todo) \/ Anomalies!alreadyRaised(l, w.since)'
    <3> SUFFICES ASSUME NEW l \in w.bursts
                 PROVE  l \in Members(n.todo) \/ Anomalies!alreadyRaised(l, w.since)'
      OBVIOUS
    <3>1. CASE l = k
      BY <1>12, <3>1
    <3>2. CASE l # k
      BY <1>4, <1>5, <2>1, <3>2
    <3> QED  BY <3>1, <3>2
  <2> QED  BY <1>5, <2>1, <2>2 DEF PassFlow
<1> QED  BY <1>6, <1>9, <1>10, <1>13, PassStep

LEMMA NextAnomaliesInv == AnomaliesInv /\ [Anomalies!Next]_anomalyVars => AnomaliesInv'
<1> SUFFICES ASSUME AnomaliesInv, [Anomalies!Next]_anomalyVars PROVE AnomaliesInv'
  OBVIOUS
<1>0. AnomaliesTyped
  BY DEF AnomaliesInv
<1>1. ASSUME NEW p \in Passes, Anomalies!EndPass(p) PROVE AnomaliesInv'
  <2>1. /\ pass' = [pass EXCEPT ![p] = Anomalies!Idle]
        /\ UNCHANGED <<time, incidents, anomalies, passes>>
    BY <1>1 DEF Anomalies!EndPass
  <2>2. Around /\ AnomaliesTyped'
    BY <1>0, <2>1 DEF Around, AnomaliesTyped
  <2> QED  BY <2>1, <2>2, PassStep
<1>2. CASE UNCHANGED anomalyVars
  <2>1. UNCHANGED <<time, incidents, anomalies, pass, passes>> /\ Around /\ AnomaliesTyped'
    BY <1>0, <1>2 DEF anomalyVars, Around, AnomaliesTyped
  <2>2. ASSUME NEW p \in Passes PROVE pass' = [pass EXCEPT ![p] = pass[p]]
    BY <1>0, <2>1 DEF AnomaliesTyped
  <2>3. ASSUME NEW q \in Passes, pass'[q] # Anomalies!Idle PROVE PassFlow(pass[q])'
    <3> PICK v : v = pass[q]
      OBVIOUS
    <3>1. v \in PassRecords /\ PassFlow(v) /\ pass'[q] = v
      BY <1>0, <2>1, <2>3 DEF AnomaliesInv, AnomaliesTyped
    <3>2. PassFlow(v)'
      BY <2>1, <3>1, PassesGoOn
    <3> QED  BY <3>1, <3>2
  <2> QED  BY <2>1, <2>3 DEF AnomaliesInv
<1> QED  BY <1>1, <1>2, SurroundingsKeepAnomalies, BeginKeepsAnomalies, CountKeepsAnomalies,
            CheckKeepsAnomalies, RaiseKeepsAnomalies DEF Anomalies!Next

LEMMA AnomaliesInvGives ==
    AnomaliesInv => Anomalies!TypeOK /\ Anomalies!AnomaliesRepeatOnlyOverlaps
<1> SUFFICES ASSUME AnomaliesInv
             PROVE  Anomalies!TypeOK /\ Anomalies!AnomaliesRepeatOnlyOverlaps
  OBVIOUS
<1>1. AnomaliesTyped
  BY DEF AnomaliesInv
<1>2. ASSUME NEW p \in Passes, pass[p] # Anomalies!Idle
      PROVE  /\ pass[p].phase \in {"count", "check", "append"}
             /\ pass[p].since \in 1 - windowMs .. LastTime
             /\ pass[p].todo \in Seq(Anomalies!Kinds) /\ pass[p].found \in Seq(Anomalies!Kinds)
             /\ pass[p].bursts \subseteq Anomalies!Kinds
             /\ pass[p].before \subseteq Anomalies!Kinds
  BY <1>2, AtWork DEF PassRecords
<1>3. Anomalies!TypeOK
  BY <1>1, <1>2 DEF AnomaliesTyped, Anomalies!TypeOK, Anomalies!Times
<1>4. ASSUME NEW p \in Passes, Anomalies!Finished(p), NEW k \in pass[p].bursts
      PROVE  \E t \in anomalies[k] : t >= pass[p].since
  <2>1. PassFlow(pass[p]) /\ pass[p].phase = "check" /\ pass[p].todo = <<>>
    BY <1>4, AtWork, IdleIsNone DEF Anomalies!Finished
  <2>2. k \notin Members(pass[p].todo)
    BY <2>1 DEF Members
  <2> QED  BY <2>1, <2>2 DEF PassFlow, Anomalies!alreadyRaised
<1>5. ASSUME NEW p \in Passes, pass[p].phase = "append"
      PROVE  Head(pass[p].todo) \notin pass[p].before
  BY <1>5, AtWork, IdleIsNone DEF PassFlow
<1>6. Anomalies!AnomaliesRepeatOnlyOverlaps
  BY <1>4, <1>5 DEF Anomalies!AnomaliesRepeatOnlyOverlaps
<1> QED  BY <1>3, <1>6

LEMMA AnomaliesInvariance == Spec => []AnomaliesInv
<1>1. Init => AnomaliesInv
  BY InitAnomaliesInv DEF Init
<1>2. AnomaliesInv /\ [Next]_vars => AnomaliesInv'
  BY NextAnomaliesInv
     DEF Next, ExportsStep, WebhooksStep, StreamsStep, AnomaliesStep, BootStep, MigrationsStep, vars
<1> QED  BY <1>1, <1>2, PTL DEF Spec

\* However passes of the detection overlap, one that runs to its end leaves every burst
\* it began with in the log, and none raises again what was there before it began
\* (anomaly.ts:64-66).
THEOREM AnomaliesAreRaised == Spec => []AnomaliesRepeatOnlyOverlaps
<1>1. AnomaliesInv => AnomaliesRepeatOnlyOverlaps
  BY AnomaliesInvGives DEF AnomaliesRepeatOnlyOverlaps
<1> QED  BY <1>1, AnomaliesInvariance, PTL

-----------------------------------------------------------------------------
PlainSettings == {"APP_ENV", "APP_PORT", "DATABASE_URL", "DB_ALLOW_INSECURE", "SECURE_COOKIES",
                  "COOKIE_SECRET", "SESSION_SECRET", "CORS_ALLOWED_ORIGINS", "APP_BASE_URL",
                  "LLM_PROVIDERS", "LLM_DEFAULT_PROVIDER", "OIDC", "SAML", "EMBEDDING_PROVIDER",
                  "OLLAMA_BASE_URL", "OPENAI_API_KEY", "KEY_SOURCE"}

LEMMA PlainSettingsAre == DOMAIN Boot!PlainChoices = PlainSettings
BY DEF Boot!PlainChoices, PlainSettings

LEMMA Pointers ==
    /\ Boot!Pointer["file"]["ENCRYPTION_KEY"] = "ENCRYPTION_KEY_FILE"
    /\ Boot!Pointer["file"]["MASTER_KEK"] = "MASTER_KEK_FILE"
    /\ Boot!Pointer["file"]["DOCUMENT_ENCRYPTION_KEY"] = "DOCUMENT_ENCRYPTION_KEY_FILE"
    /\ Boot!Pointer["command"]["ENCRYPTION_KEY"] = "ENCRYPTION_KEY_COMMAND"
    /\ Boot!Pointer["command"]["MASTER_KEK"] = "MASTER_KEK_COMMAND"
    /\ Boot!Pointer["command"]["DOCUMENT_ENCRYPTION_KEY"] = "DOCUMENT_ENCRYPTION_KEY_COMMAND"
BY DEF Boot!Pointer

LEMMA KeyVariablesAre ==
    Boot!KeyVariables = {"ENCRYPTION_KEY", "DOCUMENT_ENCRYPTION_KEY", "MASTER_KEK",
       "ENCRYPTION_KEY_FILE", "MASTER_KEK_FILE", "DOCUMENT_ENCRYPTION_KEY_FILE",
       "ENCRYPTION_KEY_COMMAND", "MASTER_KEK_COMMAND", "DOCUMENT_ENCRYPTION_KEY_COMMAND"}
BY DEF Boot!KeyVariables, Boot!KeyNames

LEMMA SettingsApart ==
    DOMAIN Boot!Choices = Boot!KeyVariables \cup PlainSettings
    /\ Boot!KeyVariables \cap PlainSettings = {} /\ Boot!KeyNames \subseteq Boot!KeyVariables
BY PlainSettingsAre, KeyVariablesAre DEF Boot!Choices, PlainSettings, Boot!KeyNames

LEMMA SoundPlain ==
    \A v \in PlainSettings :
        Boot!Sound[v] = Boot!PlainSound[v] /\ Boot!Choices[v] = Boot!PlainChoices[v]
BY PlainSettingsAre, SettingsApart DEF Boot!Sound, Boot!Choices

LEMMA SoundKeys ==
    \A v \in Boot!KeyVariables :
        /\ Boot!Sound[v] = IF v \in Boot!KeyNames THEN "key" ELSE "missing"
        /\ Boot!Choices[v] = Boot!Judgements
BY SettingsApart DEF Boot!Sound, Boot!Choices

LEMMA SoundChosen == \A v \in PlainSettings : Boot!PlainSound[v] \in Boot!PlainChoices[v]
BY DEF PlainSettings, Boot!PlainChoices, Boot!PlainSound

BootInv ==
    /\ Boot!TypeOK
    /\ process.up /\ process.production =>
          \A k \in Boot!KeyNames : process.keys[k] = <<process.designated[k], 0>>
    /\ \A s \in sealed : s.production => s.key = <<s.designated, 0>>
    /\ report # {} => report = Boot!issues
    /\ repaired = "all" => Boot!issues = {}

LEMMA DesignatedTyped ==
    ASSUME Boot!TypeOK, NEW k \in Boot!KeyNames
    PROVE  /\ Boot!Designated(env, k) \in Boot!KeyVariables
           /\ \/ Boot!Designated(env, k) = k
              \/ /\ env.KEY_SOURCE \in Boot!Sources
                 /\ Boot!Designated(env, k) = Boot!Pointer[env.KEY_SOURCE][k]
                 /\ env[Boot!Pointer[env.KEY_SOURCE][k]] # "missing"
<1>1. env.KEY_SOURCE \in {"env"} \cup Boot!Sources
  <2>1. "KEY_SOURCE" \in PlainSettings
        /\ Boot!PlainChoices["KEY_SOURCE"] = {"env"} \cup Boot!Sources
    BY DEF PlainSettings, Boot!PlainChoices
  <2>2. env["KEY_SOURCE"] \in Boot!PlainChoices["KEY_SOURCE"]
    BY <2>1, SettingsApart, SoundPlain DEF Boot!TypeOK
  <2> QED  BY <2>1, <2>2
<1>2. \A s \in Boot!Sources : Boot!Pointer[s][k] \in Boot!KeyVariables
  BY Pointers, KeyVariablesAre DEF Boot!Sources, Boot!KeyNames
<1> QED  BY <1>1, <1>2, SettingsApart DEF Boot!Designated

\* The reading fails with the first key that cannot be read, and else finds every key
\* where it is designated.
LEMMA ReadOrThrown ==
    ASSUME Boot!TypeOK
    PROVE  /\ Boot!readFails <=> \E k \in Boot!KeyNames : Boot!Unreadable(k)
           /\ ~Boot!readFails =>
                 \A k \in Boot!KeyNames : Boot!Picked(k) = Boot!Designated(env, k)
<1>1. \A k \in Boot!KeyNames : Boot!Designated(env, k) # "throws"
  BY DesignatedTyped, KeyVariablesAre
<1> QED  BY <1>1 DEF Boot!readFails, Boot!Picked

\* What loadConfig objects to depends on the settings and the key sources alone.
LEMMA IssuesStay == UNCHANGED <<env, outage>> => Boot!issues' = Boot!issues
BY DEF Boot!issues, Boot!providerIssues, Boot!oidcIssues, Boot!samlIssues,
       Boot!productionIssues, Boot!missingIssues, Boot!secretIssues, Boot!corsIssues,
       Boot!databaseIssues, Boot!cookieIssues, Boot!keyIssues, Boot!embeddingIssues,
       Boot!isProduction, Boot!readFails, Boot!Picked, Boot!Unreadable, Boot!Designated, Boot!Parsed

\* What it can object to, as long as the schema is satisfied.
LEMMA IssuesExclude ==
    ASSUME env.APP_PORT # "malformed"
    PROVE  /\ {"APP_ENV", "APP_PORT", "EMBEDDING_PROVIDER"} \cap Boot!issues = {}
           /\ ~Boot!readFails => "KEY_SOURCE" \notin Boot!issues
           /\ "LLM_PROVIDERS" \in Boot!issues => env.LLM_PROVIDERS = "malformed"
BY DEF Boot!issues, Boot!providerIssues, Boot!oidcIssues, Boot!samlIssues,
       Boot!productionIssues, Boot!missingIssues, Boot!secretIssues, Boot!corsIssues,
       Boot!databaseIssues, Boot!cookieIssues, Boot!keyIssues, Boot!embeddingIssues,
       Boot!REQUIRED_IN_PRODUCTION, Boot!KeyNames

\* What loadConfig can object to.
LEMMA IssuesNamed == Boot!issues \subseteq Boot!KeyNames \cup PlainSettings
BY DEF Boot!issues, Boot!providerIssues, Boot!oidcIssues, Boot!samlIssues, Boot!productionIssues,
       Boot!missingIssues, Boot!secretIssues, Boot!corsIssues, Boot!databaseIssues,
       Boot!cookieIssues, Boot!keyIssues, Boot!embeddingIssues, Boot!REQUIRED_IN_PRODUCTION,
       PlainSettings

\* Wherever the keys are kept, every setting has one of its values.
LEMMA DeployedTyped ==
    ASSUME NEW e \in Boot!Deployed
    PROVE  DOMAIN e = DOMAIN Boot!Choices /\ \A v \in DOMAIN e : e[v] \in Boot!Choices[v]
<1>1. ASSUME NEW v \in DOMAIN Boot!Choices PROVE Boot!Sound[v] \in Boot!Choices[v]
  BY SettingsApart, SoundPlain, SoundKeys, SoundChosen DEF Boot!Judgements
<1>2. DOMAIN Boot!Sound = DOMAIN Boot!Choices
  BY DEF Boot!Sound
<1>3. ASSUME NEW s \in Boot!Sources, NEW K \in SUBSET Boot!KeyNames, NEW v \in DOMAIN Boot!Choices
      PROVE  Boot!Moved(s, K)[v] \in Boot!Choices[v]
  <2>1. CASE v = "KEY_SOURCE"
    <3>1. v \in PlainSettings /\ s \in Boot!PlainChoices[v]
      BY <2>1 DEF PlainSettings, Boot!PlainChoices
    <3> QED  BY <2>1, <3>1, SoundPlain DEF Boot!Moved
  <2>2. CASE v # "KEY_SOURCE" /\ v \in {Boot!Pointer[s][k] : k \in K}
    <3>1. v \in Boot!KeyVariables
      BY <2>2, Pointers DEF Boot!Sources, Boot!KeyNames, Boot!KeyVariables
    <3>2. Boot!Choices[v] = Boot!Judgements
      BY <3>1, SoundKeys
    <3> QED  BY <2>2, <3>2 DEF Boot!Moved, Boot!Judgements
  <2>3. CASE v # "KEY_SOURCE" /\ v \notin {Boot!Pointer[s][k] : k \in K}
    BY <1>1, <2>3 DEF Boot!Moved
  <2> QED  BY <2>1, <2>2, <2>3
<1>4. \A s \in Boot!Sources, K \in SUBSET Boot!KeyNames :
         DOMAIN Boot!Moved(s, K) = DOMAIN Boot!Choices
  BY DEF Boot!Moved
<1>5. \/ e = Boot!Sound
      \/ \E s \in Boot!Sources, K \in SUBSET Boot!KeyNames : e = Boot!Moved(s, K)
  BY DEF Boot!Deployed, Boot!Sources, Boot!KeyNames
<1> QED  BY <1>1, <1>2, <1>3, <1>4, <1>5

LEMMA InitBootInv == Boot!Init => BootInv
<1> SUFFICES ASSUME Boot!Init PROVE BootInv
  OBVIOUS
<1>1. /\ env \in Boot!Deployed /\ outage = {} /\ process.up = FALSE /\ report = {} /\ sealed = {}
      /\ edits = 0 /\ boots = 0 /\ repaired = "nothing"
  BY DEF Boot!Init, Boot!Down
<1>2. DOMAIN env = DOMAIN Boot!Choices /\ \A v \in DOMAIN env : env[v] \in Boot!Choices[v]
  BY <1>1, DeployedTyped
<1>4. 0 \in 0 .. MaxEdits /\ 0 \in 0 .. MaxBoots
  BY ServicesAssumption
<1> QED  BY <1>1, <1>2, <1>4 DEF BootInv, Boot!TypeOK

\* A production process runs with the keys that were read, and no others.
LEMMA StartKeepsBoot ==
    ASSUME BootInv, Boot!Start PROVE BootInv'
<1> PICK production : production = Boot!isProduction
  OBVIOUS
<1>1. /\ boots < MaxBoots /\ boots' = boots + 1 /\ report' = Boot!issues
      /\ UNCHANGED <<env, outage, sealed, edits, repaired>>
      /\ process' = IF Boot!issues = {} THEN Boot!config ELSE Boot!Down
  BY DEF Boot!Start
<1>2. Boot!issues' = Boot!issues
  BY <1>1, IssuesStay
<1>3. Boot!issues \subseteq DOMAIN Boot!Choices
  BY IssuesNamed, SettingsApart
<1>4. Boot!config.up = TRUE /\ Boot!config.production = Boot!isProduction
      /\ Boot!config.designated = [k \in Boot!KeyNames |-> Boot!Designated(env, k)]
      /\ Boot!config.keys = [k \in Boot!KeyNames |->
             IF Boot!Parsed(k) THEN <<Boot!Picked(k), 0>> ELSE <<"random", boots + 1>>]
  BY DEF Boot!config
<1>5. Boot!isProduction \in BOOLEAN
  BY DEF Boot!isProduction
<1>6. Boot!Down.up = FALSE
  BY DEF Boot!Down
<1>7. process'.up => /\ process'.production \in BOOLEAN
                     /\ DOMAIN process'.keys = Boot!KeyNames
                     /\ \A k \in Boot!KeyNames : process'.designated[k] \in Boot!KeyVariables
  <2>1. CASE Boot!issues = {}
    <3>1. process' = Boot!config
      BY <1>1, <2>1
    <3>2. \A k \in Boot!KeyNames : Boot!Designated(env, k) \in Boot!KeyVariables
      BY DesignatedTyped DEF BootInv
    <3> HIDE DEF Boot!config
    <3> QED  BY <1>4, <1>5, <3>1, <3>2
  <2>2. CASE Boot!issues # {}
    BY <1>1, <1>6, <2>2
  <2> QED  BY <2>1, <2>2
<1>8. Boot!TypeOK'
  <2>1. boots' \in 0 .. MaxBoots
    BY <1>1, ServicesAssumption DEF BootInv, Boot!TypeOK
  <2> QED  BY <1>1, <1>3, <1>7, <2>1 DEF BootInv, Boot!TypeOK
<1>9. ASSUME process'.up, process'.production, NEW k \in Boot!KeyNames
      PROVE  process'.keys[k] = <<process'.designated[k], 0>>
  <2>1. Boot!issues = {} /\ process' = Boot!config
    BY <1>1, <1>6, <1>9
  <2>2. Boot!isProduction
    BY <1>4, <1>9, <2>1
  <2>3. Boot!keyIssues = {}
    BY <2>1, <2>2 DEF Boot!issues, Boot!productionIssues
  <2>4. Boot!Parsed(k)
    BY <2>3 DEF Boot!keyIssues
  <2>5. Boot!Picked(k) = Boot!Designated(env, k)
    BY <2>4, ReadOrThrown DEF Boot!Parsed, BootInv
  <2> QED  BY <1>4, <2>1, <2>4, <2>5
<1> QED  BY <1>1, <1>2, <1>8, <1>9 DEF BootInv

LEMMA SealKeepsBoot ==
    ASSUME BootInv, NEW k \in Boot!KeyNames, Boot!Seal(k) PROVE BootInv'
<1> PICK s : s = [name |-> k, key |-> process.keys[k], production |-> process.production,
                  designated |-> process.designated[k]]
  OBVIOUS
<1>1. /\ process.up /\ sealed' = sealed \cup {s}
      /\ UNCHANGED <<env, outage, process, report, edits, boots, repaired>>
  BY DEF Boot!Seal
<1>2. s.name = k /\ s.key = process.keys[k] /\ s.production = process.production
      /\ s.designated = process.designated[k]
  OBVIOUS
<1>3. Boot!issues' = Boot!issues
  BY <1>1, IssuesStay
<1>4. Boot!TypeOK'
  BY <1>1, <1>2 DEF BootInv, Boot!TypeOK
<1>5. s.production => s.key = <<s.designated, 0>>
  BY <1>1, <1>2 DEF BootInv
<1> QED  BY <1>1, <1>3, <1>4, <1>5 DEF BootInv

LEMMA DisturbKeepsBoot ==
    ASSUME BootInv,
           \/ \E v \in DOMAIN Boot!Choices : \E x \in Boot!Choices[v] : Boot!Edit(v, x)
           \/ \E s \in Boot!Sources : Boot!Fail(s)
    PROVE  BootInv'
<1>1. /\ edits < MaxEdits /\ edits' = edits + 1 /\ report' = {} /\ repaired' = "nothing"
      /\ UNCHANGED <<process, sealed, boots>>
  BY DEF Boot!Edit, Boot!Fail, Boot!Disturb
<1>2. edits' \in 0 .. MaxEdits
  BY <1>1, ServicesAssumption DEF BootInv, Boot!TypeOK
<1>3. DOMAIN env' = DOMAIN Boot!Choices /\ \A v \in DOMAIN env' : env'[v] \in Boot!Choices[v]
  BY DEF Boot!Edit, Boot!Fail, BootInv, Boot!TypeOK
<1>4. outage' \subseteq Boot!Sources
  BY DEF Boot!Edit, Boot!Fail, BootInv, Boot!TypeOK
<1>5. Boot!TypeOK'
  BY <1>1, <1>2, <1>3, <1>4 DEF BootInv, Boot!TypeOK
<1> QED  BY <1>1, <1>5 DEF BootInv

\* What a repair names: the settings objected to, and the variables that hold the keys.
Named(e) ==
    {IF v \in Boot!KeyNames THEN Boot!Designated(e, v) ELSE v : v \in report \ {"KEY_SOURCE"}}

\* The repairs keep the types, whatever the source of the keys.
LEMMA RepairKeepsTypes ==
    ASSUME BootInv, NEW e \in Boot!Repairs, Boot!Repair(e) PROVE Boot!TypeOK'
<1>1. /\ env' = [v \in DOMAIN e |-> IF v \notin Named(e) THEN e[v]
                                    ELSE IF v \in Boot!KeyVariables THEN "key" ELSE Boot!Sound[v]]
      /\ outage' \in {outage, {}} /\ report' = {} /\ repaired' \in {"some", "all"}
      /\ UNCHANGED <<process, sealed, edits, boots>>
  BY DEF Boot!Repair, Named
<1>2. DOMAIN e = DOMAIN Boot!Choices /\ \A v \in DOMAIN e : e[v] \in Boot!Choices[v]
  <2>1. "KEY_SOURCE" \in PlainSettings /\ "env" \in Boot!PlainChoices["KEY_SOURCE"]
    BY DEF PlainSettings, Boot!PlainChoices
  <2>2. e = env \/ e = [env EXCEPT !["KEY_SOURCE"] = "env"]
    BY DEF Boot!Repairs
  <2> QED  BY <2>1, <2>2, SettingsApart, SoundPlain DEF BootInv, Boot!TypeOK
<1>3. DOMAIN env' = DOMAIN Boot!Choices
  BY <1>1, <1>2
<1>4. \A v \in DOMAIN env' : env'[v] \in Boot!Choices[v]
  <2> SUFFICES ASSUME NEW v \in DOMAIN e PROVE env'[v] \in Boot!Choices[v]
    BY <1>2, <1>3
  <2>1. env'[v] \in {e[v], IF v \in Boot!KeyVariables THEN "key" ELSE Boot!Sound[v]}
    BY <1>1
  <2>2. (IF v \in Boot!KeyVariables THEN "key" ELSE Boot!Sound[v]) \in Boot!Choices[v]
    BY <1>2, SettingsApart, SoundPlain, SoundKeys, SoundChosen DEF Boot!Judgements
  <2> QED  BY <1>2, <2>1, <2>2
<1> QED  BY <1>1, <1>3, <1>4 DEF BootInv, Boot!TypeOK

\* A variable that holds a key, and one whose key is objected to.
Pointed(v) == \E k \in Boot!KeyNames : Boot!Designated(env, k) = v
Objected(v) == \E k \in Boot!issues \cap Boot!KeyNames : Boot!Designated(env, k) = v

\* Repairing all that a complete report names leaves nothing to object to.
LEMMA RepairIsComplete ==
    ASSUME BootInv, NEW e \in Boot!Repairs, Boot!Repair(e), ~Boot!hidden PROVE Boot!issues' = {}
<1>1. /\ env.APP_PORT # "malformed" /\ ~Boot!readFails
      /\ ~(env.DB_ALLOW_INSECURE = "true" /\ env.DATABASE_URL \in {"missing", "plain"})
  BY DEF Boot!hidden
<1>2. report # {} /\ report = Boot!issues
  BY DEF Boot!Repair, BootInv
<1>3. "KEY_SOURCE" \notin Boot!issues
  BY <1>1, IssuesExclude
<1>4. e = env
  BY <1>2, <1>3 DEF Boot!Repairs
<1>5. /\ env' = [v \in DOMAIN env |-> IF v \notin Named(env) THEN env[v]
                                     ELSE IF v \in Boot!KeyVariables THEN "key" ELSE Boot!Sound[v]]
      /\ outage' = outage
  BY <1>2, <1>3, <1>4 DEF Boot!Repair, Named
<1>6. DOMAIN env = Boot!KeyVariables \cup PlainSettings
      /\ \A v \in DOMAIN env : env[v] \in Boot!Choices[v]
  BY SettingsApart DEF BootInv, Boot!TypeOK
<1>7. \A v \in PlainSettings :
         /\ v \in Boot!issues => env'[v] = Boot!PlainSound[v]
         /\ v \notin Boot!issues => env'[v] = env[v]
  <2> SUFFICES ASSUME NEW v \in PlainSettings
               PROVE  /\ v \in Boot!issues => env'[v] = Boot!PlainSound[v]
                      /\ v \notin Boot!issues => env'[v] = env[v]
    OBVIOUS
  <2>1. v \in Named(env) <=> v \in Boot!issues
    <3>1. v \notin Boot!KeyVariables /\ v \notin Boot!KeyNames
      BY SettingsApart
    <3>2. \A k \in Boot!KeyNames : Boot!Designated(env, k) # v
      BY <3>1, DesignatedTyped DEF BootInv
    <3> QED  BY <1>2, <1>3, <3>1, <3>2 DEF Named
  <2> QED  BY <1>5, <1>6, <2>1, SettingsApart, SoundPlain
<1>8. \A v \in Boot!KeyVariables :
         /\ env'[v] = env[v] \/ (env'[v] = "key" /\ Pointed(v))
         /\ Objected(v) => env'[v] = "key"
  <2> SUFFICES ASSUME NEW v \in Boot!KeyVariables
               PROVE  /\ env'[v] = env[v] \/ (env'[v] = "key" /\ Pointed(v))
                      /\ Objected(v) => env'[v] = "key"
    OBVIOUS
  <2>1. v \notin PlainSettings
    BY SettingsApart
  <2>2. v \in Named(env) <=> Objected(v)
    <3>1. ASSUME v \in Named(env) PROVE Objected(v)
      <4>1. PICK i \in Boot!issues : v = IF i \in Boot!KeyNames THEN Boot!Designated(env, i) ELSE i
        BY <1>2, <3>1 DEF Named
      <4>2. i \in Boot!KeyNames
        BY <2>1, <4>1, IssuesNamed
      <4> QED  BY <4>1, <4>2 DEF Objected
    <3>2. ASSUME NEW k \in Boot!issues \cap Boot!KeyNames, Boot!Designated(env, k) = v
          PROVE  v \in Named(env)
      BY <1>2, <1>3, <3>2 DEF Named
    <3> QED  BY <3>1, <3>2 DEF Objected
  <2> QED  BY <1>5, <1>6, <2>2 DEF Objected, Pointed
<1>9. env'.KEY_SOURCE = env.KEY_SOURCE /\ env'.APP_ENV = env.APP_ENV /\ env'.APP_PORT = env.APP_PORT
  <2>1. {"APP_ENV", "APP_PORT"} \cap Boot!issues = {}
    BY <1>1, IssuesExclude
  <2>2. {"APP_ENV", "APP_PORT", "KEY_SOURCE"} \subseteq PlainSettings
    BY DEF PlainSettings
  <2> QED  BY <1>3, <1>7, <2>1, <2>2
\* The keys are looked for where they were.
<1>10. \A k \in Boot!KeyNames : Boot!Designated(env', k) = Boot!Designated(env, k)
  <2> SUFFICES ASSUME NEW k \in Boot!KeyNames
               PROVE  Boot!Designated(env', k) = Boot!Designated(env, k)
    OBVIOUS
  <2>1. CASE env.KEY_SOURCE = "env"
    BY <1>9, <2>1 DEF Boot!Designated
  <2>2. CASE env.KEY_SOURCE # "env"
    <3> PICK v : v = Boot!Pointer[env.KEY_SOURCE][k]
      OBVIOUS
    <3>1. env.KEY_SOURCE \in Boot!Sources
      <4>1. "KEY_SOURCE" \in PlainSettings
        /\ Boot!PlainChoices["KEY_SOURCE"] = {"env"} \cup Boot!Sources
        BY DEF PlainSettings, Boot!PlainChoices
      <4>2. env["KEY_SOURCE"] \in Boot!PlainChoices["KEY_SOURCE"]
        BY <1>6, <4>1, SoundPlain
      <4> QED  BY <2>2, <4>1, <4>2
    <3>2. v \in Boot!KeyVariables /\ v \notin Boot!KeyNames
          /\ \A l \in Boot!KeyNames : Boot!Pointer[env.KEY_SOURCE][l] = v => l = k
      BY <3>1, Pointers DEF Boot!Sources, Boot!KeyNames, Boot!KeyVariables
    <3>3. ASSUME NEW l \in Boot!KeyNames, Boot!Designated(env, l) = v PROVE env[v] # "missing"
      BY <3>2, <3>3, DesignatedTyped DEF BootInv
    <3>4. env'[v] = "missing" <=> env[v] = "missing"
      BY <1>8, <3>2, <3>3 DEF Pointed
    <3> QED  BY <1>9, <2>2, <3>4 DEF Boot!Designated
  <2> QED  BY <2>1, <2>2
<1>11. /\ ~Boot!readFails'
       /\ \A k \in Boot!KeyNames : /\ Boot!Picked(k) = Boot!Designated(env, k)
                                   /\ Boot!Picked(k)' = Boot!Designated(env, k)
  <2>1. \A k \in Boot!KeyNames : ~Boot!Unreadable(k) /\ Boot!Picked(k) = Boot!Designated(env, k)
    BY <1>1, ReadOrThrown DEF BootInv
  <2>2. \A k \in Boot!KeyNames : ~Boot!Unreadable(k)'
    BY <1>5, <1>9, <1>10, <2>1 DEF Boot!Unreadable
  <2>3. \A k \in Boot!KeyNames : Boot!Picked(k)' = Boot!Designated(env, k)
    BY <1>10, <2>2 DEF Boot!Picked
  <2>4. \A k \in Boot!KeyNames : Boot!Designated(env, k) # "throws"
    BY DesignatedTyped, KeyVariablesAre DEF BootInv
  <2> QED  BY <2>1, <2>3, <2>4 DEF Boot!readFails
<1>12. ~Boot!isProduction' \/ Boot!isProduction
  BY <1>9 DEF Boot!isProduction
<1>13. Boot!providerIssues' = {}
  <2>1. Boot!providerIssues \subseteq Boot!issues
    BY <1>1 DEF Boot!issues
  <2>2. /\ Boot!PlainSound["LLM_PROVIDERS"] = "p1" /\ Boot!PlainSound["LLM_DEFAULT_PROVIDER"] = "missing"
        /\ {"LLM_PROVIDERS", "LLM_DEFAULT_PROVIDER"} \subseteq PlainSettings
        /\ Boot!PlainChoices["LLM_PROVIDERS"] = {"missing", "malformed", "p1"}
        /\ Boot!PlainChoices["LLM_DEFAULT_PROVIDER"] = {"missing", "p1", "p2"}
    BY DEF Boot!PlainSound, Boot!PlainChoices, PlainSettings
  <2>3. /\ env["LLM_PROVIDERS"] \in {"missing", "malformed", "p1"}
        /\ env["LLM_DEFAULT_PROVIDER"] \in {"missing", "p1", "p2"}
    BY <1>6, <2>2, SoundPlain
  <2>4. env'["LLM_PROVIDERS"] = IF env["LLM_PROVIDERS"] = "malformed" THEN "p1" ELSE env["LLM_PROVIDERS"]
    <3>1. "LLM_PROVIDERS" \in Boot!issues <=> env["LLM_PROVIDERS"] = "malformed"
      BY <1>1, <2>1, IssuesExclude DEF Boot!providerIssues
    <3> QED  BY <1>7, <2>2, <3>1
  <2>5. env'["LLM_DEFAULT_PROVIDER"] \in {"missing", env["LLM_PROVIDERS"]}
    <3>1. CASE "LLM_DEFAULT_PROVIDER" \in Boot!issues
      BY <1>7, <2>2, <3>1
    <3>2. CASE "LLM_DEFAULT_PROVIDER" \notin Boot!issues
      <4>1. env["LLM_DEFAULT_PROVIDER"] \in {"missing", env["LLM_PROVIDERS"]}
        BY <2>1, <3>2 DEF Boot!providerIssues
      <4> QED  BY <1>7, <2>2, <3>2, <4>1
    <3> QED  BY <3>1, <3>2
  <2>6. env'["LLM_DEFAULT_PROVIDER"] \in {"missing", "p1", "p2"}
    BY <1>7, <2>2, <2>3
  <2> QED  BY <2>3, <2>4, <2>5, <2>6 DEF Boot!providerIssues
<1>14. Boot!oidcIssues' = {} /\ Boot!samlIssues' = {}
  <2>1. Boot!oidcIssues \cup Boot!samlIssues \subseteq Boot!issues
    BY <1>1 DEF Boot!issues
  <2>2. /\ Boot!PlainSound["OIDC"] = "missing" /\ Boot!PlainSound["SAML"] = "missing"
        /\ {"OIDC", "SAML"} \subseteq PlainSettings
    BY DEF Boot!PlainSound, PlainSettings
  <2>3. env["OIDC"] = "partial" => "OIDC" \in Boot!issues
    BY <2>1 DEF Boot!oidcIssues
  <2>4. env["SAML"] = "partial" => "SAML" \in Boot!issues
    BY <2>1 DEF Boot!samlIssues
  <2>5. env'["OIDC"] # "partial" /\ env'["SAML"] # "partial"
    BY <1>7, <2>2, <2>3, <2>4
  <2> QED  BY <2>5 DEF Boot!oidcIssues, Boot!samlIssues
<1>15. ASSUME Boot!isProduction PROVE Boot!productionIssues' = {}
  <2>1. Boot!productionIssues \subseteq Boot!issues
    BY <1>1, <1>15 DEF Boot!issues
  <2>2. /\ Boot!PlainSound["DATABASE_URL"] = "tls" /\ Boot!PlainSound["DB_ALLOW_INSECURE"] = "missing"
        /\ Boot!PlainSound["SECURE_COOKIES"] = "missing" /\ Boot!PlainSound["COOKIE_SECRET"] = "strong"
        /\ Boot!PlainSound["SESSION_SECRET"] = "strong" /\ Boot!PlainSound["CORS_ALLOWED_ORIGINS"] = "listed"
        /\ Boot!PlainSound["APP_BASE_URL"] = "set" /\ Boot!PlainSound["OLLAMA_BASE_URL"] = "set"
        /\ Boot!PlainSound["OPENAI_API_KEY"] = "set"
    BY DEF Boot!PlainSound
  <2>3. {"DATABASE_URL", "DB_ALLOW_INSECURE", "SECURE_COOKIES", "COOKIE_SECRET", "SESSION_SECRET",
         "CORS_ALLOWED_ORIGINS", "APP_BASE_URL", "OLLAMA_BASE_URL", "OPENAI_API_KEY",
         "EMBEDDING_PROVIDER"} \subseteq PlainSettings
    BY DEF PlainSettings
  <2>4. Boot!missingIssues' = {} /\ Boot!secretIssues' = {} /\ Boot!corsIssues' = {}
    <3>1. Boot!missingIssues \cup Boot!secretIssues \cup Boot!corsIssues \subseteq Boot!issues
      BY <2>1 DEF Boot!productionIssues
    <3>2. \A v \in Boot!REQUIRED_IN_PRODUCTION : env'[v] # "missing"
      BY <1>7, <2>2, <2>3, <3>1 DEF Boot!missingIssues, Boot!REQUIRED_IN_PRODUCTION
    <3>3. env'["COOKIE_SECRET"] = "strong" /\ env'["SESSION_SECRET"] = "strong"
      BY <1>7, <2>2, <2>3, <3>1 DEF Boot!secretIssues
    <3>4. env'["CORS_ALLOWED_ORIGINS"] = "listed"
      BY <1>7, <2>2, <2>3, <3>1 DEF Boot!corsIssues
    <3> QED  BY <3>2, <3>3, <3>4 DEF Boot!missingIssues, Boot!secretIssues, Boot!corsIssues
  <2>5. Boot!databaseIssues' = {}
    <3>1. Boot!missingIssues \cup Boot!databaseIssues \subseteq Boot!issues
      BY <2>1 DEF Boot!productionIssues
    <3>2. env["DATABASE_URL"] \in {"missing", "trivial"} => "DATABASE_URL" \in Boot!issues
      BY <3>1 DEF Boot!missingIssues, Boot!databaseIssues, Boot!REQUIRED_IN_PRODUCTION
    <3>3. env["DATABASE_URL"] = "plain" /\ env["DB_ALLOW_INSECURE"] # "true" => "DATABASE_URL" \in Boot!issues
      BY <3>1 DEF Boot!databaseIssues
    <3>4. env["DATABASE_URL"] # "missing" /\ env["DB_ALLOW_INSECURE"] = "true" => "DB_ALLOW_INSECURE" \in Boot!issues
      BY <3>1 DEF Boot!databaseIssues
    <3>5. env["DATABASE_URL"] \in {"missing", "trivial", "plain", "tls"}
      <4>1. Boot!PlainChoices["DATABASE_URL"] = {"missing", "trivial", "plain", "tls"}
        BY DEF Boot!PlainChoices
      <4> QED  BY <1>6, <2>3, <4>1, SoundPlain
    <3>6. env'["DATABASE_URL"] = "tls"
      BY <1>1, <1>7, <2>2, <2>3, <3>2, <3>3, <3>5
    <3>7. env'["DB_ALLOW_INSECURE"] # "true"
      BY <1>1, <1>7, <2>2, <2>3, <3>4
    <3> QED  BY <3>6, <3>7 DEF Boot!databaseIssues
  <2>6. Boot!cookieIssues' = {}
    <3>1. env["SECURE_COOKIES"] = "false" => "SECURE_COOKIES" \in Boot!issues
      BY <2>1 DEF Boot!productionIssues, Boot!cookieIssues
    <3>2. env'["SECURE_COOKIES"] # "false"
      BY <1>7, <2>2, <2>3, <3>1
    <3> QED  BY <3>2 DEF Boot!cookieIssues
  <2>7. Boot!keyIssues' = {}
    <3> SUFFICES ASSUME NEW k \in Boot!KeyNames PROVE Boot!Parsed(k)'
      BY DEF Boot!keyIssues
    <3> PICK v : v = Boot!Designated(env, k)
      OBVIOUS
    <3>1. v \in Boot!KeyVariables
      BY DesignatedTyped DEF BootInv
    <3>2. env[v] # "key" => k \in Boot!issues
      BY <1>1, <1>11, <2>1 DEF Boot!productionIssues, Boot!keyIssues, Boot!Parsed
    <3>3. env'[v] = "key"
      BY <1>8, <3>1, <3>2 DEF Pointed, Objected
    <3> QED  BY <1>11, <3>3 DEF Boot!Parsed
  <2>8. Boot!embeddingIssues' = {}
    <3>1. env'["EMBEDDING_PROVIDER"] = env["EMBEDDING_PROVIDER"]
      <4>1. "EMBEDDING_PROVIDER" \notin Boot!issues
        BY <1>1, IssuesExclude
      <4> QED  BY <1>7, <2>3, <4>1
    <3>2. Boot!embeddingIssues \subseteq Boot!issues
      BY <2>1 DEF Boot!productionIssues
    <3>3. \A v \in {"OLLAMA_BASE_URL", "OPENAI_API_KEY"} :
             v \in Boot!issues => env'[v] # "missing"
      BY <1>7, <2>2, <2>3
    <3>4. \A v \in {"OLLAMA_BASE_URL", "OPENAI_API_KEY"} :
             v \notin Boot!issues => env'[v] = env[v] /\ v \notin Boot!embeddingIssues
      BY <1>7, <2>3, <3>2
    <3> QED  BY <3>1, <3>3, <3>4 DEF Boot!embeddingIssues
  <2> QED  BY <2>4, <2>5, <2>6, <2>7, <2>8 DEF Boot!productionIssues
<1> QED  BY <1>1, <1>9, <1>11, <1>12, <1>13, <1>14, <1>15 DEF Boot!issues

LEMMA NextBootInv == BootInv /\ [Boot!Next]_bootVars => BootInv'
<1> SUFFICES ASSUME BootInv, [Boot!Next]_bootVars PROVE BootInv'
  OBVIOUS
<1>1. ASSUME UNCHANGED <<env, outage, report, sealed, edits, boots, repaired>>,
             process' \in {process, Boot!Down}
      PROVE  BootInv'
  <2>1. Boot!issues' = Boot!issues
    BY <1>1, IssuesStay
  <2>2. process' = process \/ process'.up = FALSE
    BY <1>1 DEF Boot!Down
  <2>3. Boot!TypeOK'
    BY <1>1, <2>2 DEF BootInv, Boot!TypeOK
  <2> QED  BY <1>1, <2>1, <2>2, <2>3 DEF BootInv
<1>2. CASE Boot!Stop
  BY <1>1, <1>2 DEF Boot!Stop
<1>3. CASE UNCHANGED bootVars
  BY <1>1, <1>3 DEF bootVars
<1>4. ASSUME NEW e \in Boot!Repairs, Boot!Repair(e) PROVE BootInv'
  <2>1. Boot!TypeOK'
    BY <1>4, RepairKeepsTypes
  <2>2. /\ report' = {} /\ repaired' = (IF Boot!hidden THEN "some" ELSE "all")
        /\ UNCHANGED <<process, sealed>>
    BY <1>4 DEF Boot!Repair
  <2>3. repaired' = "all" => Boot!issues' = {}
    BY <1>4, <2>2, RepairIsComplete
  <2> QED  BY <2>1, <2>2, <2>3 DEF BootInv
<1> QED  BY <1>2, <1>3, <1>4, StartKeepsBoot, SealKeepsBoot, DisturbKeepsBoot DEF Boot!Next

LEMMA BootInvariance == Spec => []BootInv
<1>1. Init => BootInv
  BY InitBootInv DEF Init
<1>2. BootInv /\ [Next]_vars => BootInv'
  BY NextBootInv
     DEF Next, ExportsStep, WebhooksStep, StreamsStep, AnomaliesStep, BootStep, MigrationsStep, vars
<1> QED  BY <1>1, <1>2, PTL DEF Spec

\* What a production process encrypted, every later one whose settings designate the same
\* key can decrypt, whatever was edited and whichever source failed in between
\* (config.ts:246-267, keySource.ts:42-43).
THEOREM SealedStaysReadable == Spec => []SealedDataStaysReadable
<1>1. BootInv => SealedDataStaysReadable
  BY DEF BootInv, Boot!TypeOK, SealedDataStaysReadable, Boot!SealedDataStaysReadable
<1> QED  BY <1>1, BootInvariance, PTL

\* An operator who repairs all a refused start named succeeds with the next one, unless the
\* settings held a fault the report cannot name (config.ts:105).
THEOREM ReportsSuffice == Spec => []ReportsAreComplete
<1>1. BootInv => ReportsAreComplete
  BY DEF BootInv, ReportsAreComplete, Boot!ReportsAreComplete
<1> QED  BY <1>1, BootInvariance, PTL

-----------------------------------------------------------------------------
(* Migrations *)


\* The files are applied in the order of their numbers.
LEMMA FilesInOrder ==
    /\ Len(files) = 10
    /\ \A n \in Files : files[n] = n
<1>1. Len([n \in 1 .. 10 |-> n]) = 10
  OBVIOUS
<1>2. QED
  BY <1>1 DEF files, Files

\* The files up to the blanket GRANT withhold nothing.
LEMMA NothingBeforeGrant == Withheld[1] = {} /\ Withheld[2] = {}
BY DEF Withheld

\* What a file withholds is among the privileges.
LEMMA WithheldTyped == \A f \in Files : Withheld[f] \subseteq Privileges
BY DEF Privileges

\* What a run in progress has still to take back.
LEMMA RemainingOf ==
    ASSUME MigrationsTypeOK, NEW m \in Migrators
    PROVE  Remaining(m) =
              IF InPhase(m, "files") /\ migrator[m].next > 2
                THEN UNION {Withheld[n] : n \in migrator[m].next .. 10} ELSE {}
<1>1. migrator[m].next \in Files
  BY DEF MigrationsTypeOK
<1>2. (\E n \in Files : n < migrator[m].next /\ files[n] = BlanketGrant)
          <=> migrator[m].next > 2
  BY <1>1, FilesInOrder DEF BlanketGrant, Files
<1>3. UNION {Withheld[files[n]] : n \in migrator[m].next .. Len(files)}
          = UNION {Withheld[n] : n \in migrator[m].next .. 10}
  <2>1. \A n \in migrator[m].next .. 10 : files[n] = n
    BY <1>1, FilesInOrder DEF Files
  <2>2. QED
    BY <2>1, FilesInOrder
<1>4. QED
  BY <1>2, <1>3 DEF Remaining

\* The same of the state after a step.
LEMMA RemainingOfNext ==
    ASSUME MigrationsTypeOK', NEW m \in Migrators
    PROVE  Remaining(m)' =
              IF InPhase(m, "files")' /\ migrator'[m].next > 2
                THEN UNION {Withheld[n] : n \in migrator'[m].next .. 10} ELSE {}
<1>1. migrator'[m].next \in Files
  BY DEF MigrationsTypeOK
<1>2. (\E n \in Files : n < migrator'[m].next /\ files[n] = BlanketGrant)
          <=> migrator'[m].next > 2
  BY <1>1, FilesInOrder DEF BlanketGrant, Files
<1>3. UNION {Withheld[files[n]] : n \in migrator'[m].next .. Len(files)}
          = UNION {Withheld[n] : n \in migrator'[m].next .. 10}
  <2>1. \A n \in migrator'[m].next .. 10 : files[n] = n
    BY <1>1, FilesInOrder DEF Files
  <2>2. QED
    BY <2>1, FilesInOrder
<1>4. QED
  BY <1>2, <1>3 DEF Remaining

\* Type correctness is inductive.
LEMMA TypesInit == MigrationsInit => MigrationsTypeOK
<1>1. 1 \in Files
  BY DEF Files
<1> SUFFICES ASSUME MigrationsInit PROVE MigrationsTypeOK
  OBVIOUS
<1>2. migrator \in [Migrators -> [phase : {"new", "files", "ended", "failed"}, next : Files]]
  BY <1>1 DEF MigrationsInit
<1>3. appRole \in BOOLEAN /\ created = {} /\ excess = {} /\ broken = {}
  BY DEF MigrationsInit
<1>4. QED
  BY <1>2, <1>3 DEF MigrationsTypeOK

LEMMA TypesStep == MigrationsTypeOK /\ [MigrationsNext]_migrationVars => MigrationsTypeOK'
<1> SUFFICES ASSUME MigrationsTypeOK, [MigrationsNext]_migrationVars PROVE MigrationsTypeOK'
  OBVIOUS
<1>1. ASSUME NEW m \in Migrators, EnsureRole(m) PROVE MigrationsTypeOK'
  BY <1>1 DEF MigrationsTypeOK, EnsureRole, InPhase
<1>2. ASSUME NEW m \in Migrators, ApplyFile(m) PROVE MigrationsTypeOK'
  <2> DEFINE f == files[migrator[m].next]
  <2>1. f \in Files /\ migrator[m].next \in Files
    BY FilesInOrder DEF MigrationsTypeOK
  <2>2. Withheld[f] \subseteq Privileges
    BY <2>1, WithheldTyped
  <2>3. migrator' \in
           [Migrators -> [phase : {"new", "files", "ended", "failed"}, next : Files]]
    BY <1>2, <2>1, FilesInOrder DEF MigrationsTypeOK, ApplyFile, Files
  <2>4. created' \subseteq Privileges /\ excess' \subseteq created' /\ broken' \subseteq Privileges
    BY <1>2, <2>2 DEF MigrationsTypeOK, ApplyFile
  <2>5. QED
    BY <1>2, <2>3, <2>4 DEF MigrationsTypeOK, ApplyFile
<1>3. ASSUME NEW m \in Migrators, MigrationFails(m) PROVE MigrationsTypeOK'
  <2>1. Remaining(m) \subseteq Privileges
    BY RemainingOf, WithheldTyped DEF MigrationsTypeOK, Files
  <2>2. QED
    BY <1>3, <2>1 DEF MigrationsTypeOK, MigrationFails
<1>4. CASE UNCHANGED migrationVars
  BY <1>4 DEF MigrationsTypeOK, migrationVars
<1>5. QED
  BY <1>1, <1>2, <1>3, <1>4 DEF MigrationsNext

\* A step of run m leaves what the others have to take back as it is.
LEMMA OthersKeepRemaining ==
    ASSUME MigrationsTypeOK, MigrationsTypeOK', NEW m \in Migrators, NEW o \in Migrators, o # m,
           migrator'[o] = migrator[o]
    PROVE  Remaining(o)' = Remaining(o)
BY DEF Remaining, InPhase

\* The invariant is preserved by every step.
LEMMA RewritesStep ==
    MigrationsTypeOK /\ RewritesOnlyDuringMigrations /\ [MigrationsNext]_migrationVars
        => RewritesOnlyDuringMigrations'
<1> SUFFICES ASSUME MigrationsTypeOK, MigrationsTypeOK', RewritesOnlyDuringMigrations, [MigrationsNext]_migrationVars,
                    NEW p \in excess'
             PROVE  p \in broken' \/ \E o \in Migrators : p \in Remaining(o)'
  BY TypesStep DEF RewritesOnlyDuringMigrations
<1>1. ASSUME NEW m \in Migrators, EnsureRole(m)
      PROVE  p \in broken' \/ \E o \in Migrators : p \in Remaining(o)'
  <2>1. \A o \in Migrators \ {m} : migrator'[o] = migrator[o]
    BY <1>1 DEF EnsureRole, MigrationsTypeOK
  <2>2. Remaining(m) = {}
    BY <1>1 DEF EnsureRole, Remaining, InPhase
  <2>3. p \in broken \/ \E o \in Migrators \ {m} : p \in Remaining(o)
    BY <1>1, <2>2 DEF EnsureRole, RewritesOnlyDuringMigrations
  <2>4. QED
    BY <1>1, <2>1, <2>3, OthersKeepRemaining DEF EnsureRole
<1>2. ASSUME NEW m \in Migrators, ApplyFile(m)
      PROVE  p \in broken' \/ \E o \in Migrators : p \in Remaining(o)'
  <2> DEFINE n == migrator[m].next
  <2>1. n \in 1 .. 10 /\ files[n] = n /\ Len(files) = 10 /\ InPhase(m, "files")
    BY <1>2, FilesInOrder DEF MigrationsTypeOK, ApplyFile, Files
  <2>2. \A o \in Migrators \ {m} : migrator'[o] = migrator[o]
    BY <1>2 DEF ApplyFile, MigrationsTypeOK
  <2>3. n # 10 => InPhase(m, "files")' /\ migrator'[m].next = n + 1
    BY <1>2, <2>1 DEF ApplyFile, MigrationsTypeOK, InPhase
  <2>4. n # 10 /\ n >= 2 => Remaining(m)' = UNION {Withheld[k] : k \in n + 1 .. 10}
    <3> SUFFICES ASSUME n # 10, n >= 2
                 PROVE  Remaining(m)' = UNION {Withheld[k] : k \in n + 1 .. 10}
      OBVIOUS
    <3>1. Remaining(m)' = IF InPhase(m, "files")' /\ migrator'[m].next > 2
              THEN UNION {Withheld[k] : k \in migrator'[m].next .. 10} ELSE {}
      BY RemainingOfNext
    <3>2. QED
      BY <2>1, <2>3, <3>1
  <2>5. CASE n = BlanketGrant
    <3>1. p \in created
      BY <1>2, <2>1, <2>5 DEF ApplyFile
    <3>2. PICK k \in Files : p \in Withheld[k]
      BY <3>1 DEF MigrationsTypeOK, Privileges
    <3>3. k \in n + 1 .. 10
      BY <2>5, <3>2, NothingBeforeGrant DEF BlanketGrant, Files
    <3>4. QED
      BY <2>4, <2>5, <3>2, <3>3 DEF BlanketGrant
  <2>6. CASE n # BlanketGrant
    <3>1. p \in excess /\ p \notin Withheld[n] /\ broken' = broken \ Withheld[n]
      BY <1>2, <2>1, <2>6 DEF ApplyFile
    <3>2. CASE p \in broken
      BY <3>1, <3>2
    <3>3. CASE \E o \in Migrators \ {m} : p \in Remaining(o)
      BY <2>2, <3>3, OthersKeepRemaining
    <3>4. CASE p \in Remaining(m)
      <4>1. n > 2 /\ \E k \in n .. 10 : p \in Withheld[k]
        BY <3>4, RemainingOf
      <4>2. \E k \in n + 1 .. 10 : p \in Withheld[k]
        BY <2>1, <3>1, <4>1
      <4>3. QED
        BY <2>1, <2>4, <4>1, <4>2
    <3>5. QED
      BY <3>1, <3>2, <3>3, <3>4 DEF RewritesOnlyDuringMigrations
  <2>7. QED
    BY <2>5, <2>6
<1>3. ASSUME NEW m \in Migrators, MigrationFails(m)
      PROVE  p \in broken' \/ \E o \in Migrators : p \in Remaining(o)'
  <2>1. \A o \in Migrators \ {m} : migrator'[o] = migrator[o]
    BY <1>3 DEF MigrationFails, MigrationsTypeOK
  <2>2. p \in broken \/ p \in Remaining(m) \/ \E o \in Migrators \ {m} : p \in Remaining(o)
    BY <1>3 DEF MigrationFails, RewritesOnlyDuringMigrations
  <2>3. QED
    BY <1>3, <2>1, <2>2, OthersKeepRemaining DEF MigrationFails
<1>4. CASE UNCHANGED migrationVars
  BY <1>4 DEF migrationVars, RewritesOnlyDuringMigrations, Remaining, InPhase
<1>5. QED
  BY <1>1, <1>2, <1>3, <1>4 DEF MigrationsNext

\* However many runs of the migrator overlap and fail, what is to be append-only can
\* be rewritten only while one of them is to take the privilege back, or after one
\* broke off (migrate.ts:73-77).
THEOREM RewritesAreConfined == MigrationsSpec => []RewritesOnlyDuringMigrations
<1>1. MigrationsInit => RewritesOnlyDuringMigrations
  BY DEF MigrationsInit, RewritesOnlyDuringMigrations
<1>2. QED
  BY <1>1, TypesInit, TypesStep, RewritesStep, PTL DEF MigrationsSpec

-----------------------------------------------------------------------------
(* All of them *)

LEMMA StreamsTyped == Spec => []Streams!TypeOK
<1>1. Init => Streams!TypeOK
  BY DEF Init, Streams!Init, Streams!TypeOK, Streams!Phases
<1>2. Streams!TypeOK /\ [Streams!Next]_streamVars => Streams!TypeOK'
  <2> SUFFICES ASSUME Streams!TypeOK, [Streams!Next]_streamVars PROVE Streams!TypeOK'
    OBVIOUS
  <2>1. ASSUME NEW s \in Chats,
               \/ Streams!BeginChat(s) \/ Streams!Connect(s) \/ Streams!Chunk(s)
               \/ Streams!LastChunk(s) \/ Streams!UpstreamFails(s) \/ Streams!Drained(s)
               \/ Streams!Finish(s) \/ Streams!Timeout(s) \/ Streams!ClientLeaves(s)
        PROVE  Streams!TypeOK'
    BY <2>1 DEF Streams!TypeOK, Streams!Phases, Streams!Drains, Streams!Goto,
       Streams!CloseUpstream, Streams!Write, Streams!BeginChat, Streams!Connect, Streams!Chunk,
       Streams!LastChunk, Streams!UpstreamFails, Streams!Drained, Streams!Finish,
       Streams!Timeout, Streams!ClientLeaves
  <2>2. CASE UNCHANGED streamVars
    BY <2>2 DEF streamVars, Streams!TypeOK
  <2> QED  BY <2>1, <2>2 DEF Streams!Next
<1>3. Streams!TypeOK /\ [Next]_vars => Streams!TypeOK'
  BY <1>2
     DEF Next, ExportsStep, WebhooksStep, StreamsStep, AnomaliesStep, BootStep, MigrationsStep, vars
<1> QED  BY <1>1, <1>3, PTL DEF Spec

LEMMA MigrationsInvariance == Spec => [](MigrationsTypeOK /\ RewritesOnlyDuringMigrations)
<1>1. Init => MigrationsTypeOK /\ RewritesOnlyDuringMigrations
  BY TypesInit DEF Init, MigrationsInit, RewritesOnlyDuringMigrations
<1>2. MigrationsTypeOK /\ RewritesOnlyDuringMigrations /\ [Next]_vars
         => (MigrationsTypeOK /\ RewritesOnlyDuringMigrations)'
  <2>1. [Next]_vars => [MigrationsNext]_migrationVars
    BY DEF Next, ExportsStep, WebhooksStep, StreamsStep, AnomaliesStep, BootStep, MigrationsStep, vars
  <2> QED  BY <2>1, TypesStep, RewritesStep
<1> QED  BY <1>1, <1>2, PTL DEF Spec

\* Type correctness of the six models, whichever of them moves.
THEOREM ServicesTypeCorrect == Spec => []TypeOK
<1>1. /\ ExportsInv => Exports!TypeOK
      /\ HooksInv => Webhooks!TypeOK
      /\ AnomaliesInv => Anomalies!TypeOK
      /\ BootInv => Boot!TypeOK
  BY HooksInvGives, AnomaliesInvGives DEF ExportsInv, BootInv
<1>2. TypeOK <=> /\ Exports!TypeOK /\ Webhooks!TypeOK /\ Streams!TypeOK
                 /\ Anomalies!TypeOK /\ Boot!TypeOK /\ MigrationsTypeOK
  BY DEF TypeOK
<1> QED  BY <1>1, <1>2, ExportsInvariance, HooksInvariance, AnomaliesInvariance, BootInvariance,
            StreamsTyped, MigrationsInvariance, PTL
=============================================================================
