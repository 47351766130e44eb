------------------------------ MODULE Exports ------------------------------
(***************************************************************************)
(* Export jobs (src/src/admin/export.ts and the export routes of           *)
(* src/src/http/routes/admin.ts): the runner in the background, the token  *)
(* that is handed out once, and the download that removes the artifact.    *)
(*                                                                         *)
(* The runner, polls and downloads live in one process, which may restart  *)
(* between any two steps; job rows and artifacts survive it.               *)
(***************************************************************************)
CONSTANTS Jobs, Downloads  \* jobs, and concurrent downloads

Statuses == {"none", "PENDING", "RUNNING", "DONE", "FAILED", "EXPIRED"}
RunnerPhases == {"off", "start", "build", "commit", "stash", "fail"}
Idle == [phase |-> "idle"]

VARIABLES
    jobs,        \* export_jobs.status
    files,       \* jobs whose artifact is on disk
    runner,      \* runExportJob of each job
    tokens,      \* exportTokens: tokens not handed out yet
    handed,      \* tokens a client has received
    overdue,     \* jobs whose expires_at has passed
    download,    \* download[d]: the job and the step of a consumeDownload
    consumed,    \* history: jobs whose artifact a download has removed
    interrupted  \* history: jobs whose runner, token or answer a failure cost

exportsVars == <<jobs, files, runner, tokens, handed, overdue, download, consumed, interrupted>>

Init ==
    /\ jobs = [j \in Jobs |-> "none"]
    /\ files = {}
    /\ runner = [j \in Jobs |-> "off"]
    /\ tokens = {} /\ handed = {} /\ overdue = {}
    /\ download = [d \in Downloads |-> Idle]
    /\ consumed = {} /\ interrupted = {}

Run(j, phase) == runner' = [runner EXCEPT ![j] = phase]
SetStatus(j, s) == jobs' = [jobs EXCEPT ![j] = s]
Reached(d, phase) == download' = [download EXCEPT ![d].phase = phase]

\* A download has removed the artifact of the job, and not answered with it yet.
Unanswered(j) == \E d \in Downloads : download[d].phase = "expire" /\ download[d].job = j

-----------------------------------------------------------------------------
(* The job *)

\* POST: the row is inserted and the runner left to itself.
createExportJob(j) ==
    /\ jobs[j] = "none"
    /\ SetStatus(j, "PENDING") /\ Run(j, "start")
    /\ UNCHANGED <<files, tokens, handed, overdue, download, consumed, interrupted>>

\* The process ends, by a signal or by a rejection nobody handles, and starts again.
Restart ==
    /\ interrupted' =
          interrupted \cup tokens \cup {j \in Jobs : runner[j] # "off" \/ Unanswered(j)}
    /\ runner' = [j \in Jobs |-> "off"]
    /\ tokens' = {}
    /\ download' = [d \in Downloads |-> Idle]

Crash ==
    /\ \E j \in Jobs : runner[j] # "off" \/ j \in tokens
    /\ Restart
    /\ UNCHANGED <<jobs, files, handed, overdue, consumed>>

\* The first UPDATE is outside the try block: if it fails, nobody handles the rejection.
MarkRunning(j) ==
    /\ runner[j] = "start"
    /\ \/ SetStatus(j, "RUNNING") /\ Run(j, "build")
          /\ UNCHANGED <<tokens, download, interrupted>>
       \/ Restart /\ UNCHANGED jobs
    /\ UNCHANGED <<files, handed, overdue, consumed>>

\* Snapshot, archive, encryption and write; a failure may leave part of the artifact.
BuildArtifact(j) ==
    /\ runner[j] = "build"
    /\ \/ Run(j, "commit") /\ files' = files \cup {j}
       \/ Run(j, "fail") /\ files' \in {files, files \cup {j}}
    /\ UNCHANGED <<jobs, tokens, handed, overdue, download, consumed, interrupted>>

\* UPDATE to DONE, which may fail with or without having taken effect.
MarkDone(j) ==
    /\ runner[j] = "commit"
    /\ \/ SetStatus(j, "DONE") /\ Run(j, "stash")
       \/ Run(j, "fail") /\ (SetStatus(j, "DONE") \/ UNCHANGED jobs)
    /\ UNCHANGED <<files, tokens, handed, overdue, download, consumed, interrupted>>

StashToken(j) ==
    /\ runner[j] = "stash"
    /\ tokens' = tokens \cup {j} /\ Run(j, "off")
    /\ UNCHANGED <<jobs, files, handed, overdue, download, consumed, interrupted>>

\* Mutant: nothing is done about a job that failed.
SwallowFailure(j) ==
    /\ runner[j] = "fail"
    /\ Run(j, "off")
    /\ UNCHANGED <<jobs, files, tokens, handed, overdue, download, consumed, interrupted>>

\* The catch block; what fails in it is not handled either.
MarkFailed(j) ==
    /\ runner[j] = "fail"
    /\ \/ SetStatus(j, "FAILED") /\ Run(j, "off") /\ UNCHANGED <<tokens, download, interrupted>>
       \/ Restart /\ UNCHANGED jobs
    /\ UNCHANGED <<files, handed, overdue, consumed>>

runExportJob(j) ==
    MarkRunning(j) \/ BuildArtifact(j) \/ MarkDone(j) \/ StashToken(j) \/ MarkFailed(j)

HourPasses(j) ==
    /\ jobs[j] = "DONE" /\ j \notin overdue
    /\ overdue' = overdue \cup {j}
    /\ UNCHANGED <<jobs, files, runner, tokens, handed, download, consumed, interrupted>>

-----------------------------------------------------------------------------
(* The client *)

\* GET of a finished job: takeDownloadToken; the answer may be lost.
takeDownloadToken(j) ==
    /\ jobs[j] = "DONE" /\ j \in tokens
    /\ tokens' = tokens \ {j}
    /\ \/ handed' = handed \cup {j} /\ UNCHANGED interrupted
       \/ interrupted' = interrupted \cup {j} /\ UNCHANGED handed
    /\ UNCHANGED <<jobs, files, runner, overdue, download, consumed>>

\* consumeDownload: the row is read and checked.
BeginDownload(d, j) ==
    /\ download[d] = Idle
    /\ j \in handed /\ jobs[j] = "DONE" /\ j \notin overdue
    /\ download' = [download EXCEPT ![d] =
                        [phase |-> "read", job |-> j, late |-> j \in consumed]]
    /\ UNCHANGED <<jobs, files, runner, tokens, handed, overdue, consumed, interrupted>>

\* readFile throws if somebody has removed the artifact.
ReadArtifact(d) ==
    /\ download[d].phase = "read"
    /\ IF download[d].job \in files THEN Reached(d, "remove")
       ELSE download' = [download EXCEPT ![d] = Idle]
    /\ UNCHANGED <<jobs, files, runner, tokens, handed, overdue, consumed, interrupted>>

\* Mutant: the artifact is left where it is.
KeepArtifact(d) ==
    /\ download[d].phase = "remove"
    /\ consumed' = consumed \cup {download[d].job}
    /\ Reached(d, "expire")
    /\ UNCHANGED <<jobs, files, runner, tokens, handed, overdue, interrupted>>

RemoveArtifact(d) ==
    /\ download[d].phase = "remove"
    /\ files' = files \ {download[d].job}
    /\ consumed' = consumed \cup {download[d].job}
    /\ Reached(d, "expire")
    /\ UNCHANGED <<jobs, runner, tokens, handed, overdue, interrupted>>

\* UPDATE to EXPIRED, whatever the status is by now, and the answer.
MarkExpired(d) ==
    /\ download[d].phase = "expire"
    /\ SetStatus(download[d].job, "EXPIRED")
    /\ download' = [download EXCEPT ![d] = Idle]
    /\ UNCHANGED <<files, runner, tokens, handed, overdue, consumed, interrupted>>

\* Any step may throw; after the removal, the artifact is lost with the answer.
DownloadFails(d) ==
    /\ download[d] # Idle
    /\ download' = [download EXCEPT ![d] = Idle]
    /\ interrupted' = IF download[d].phase = "expire" THEN interrupted \cup {download[d].job}
                                                      ELSE interrupted
    /\ UNCHANGED <<jobs, files, runner, tokens, handed, overdue, consumed>>

Next ==
    \/ \E j \in Jobs :
          \/ createExportJob(j) \/ runExportJob(j) \/ HourPasses(j) \/ takeDownloadToken(j)
          \/ \E d \in Downloads : BeginDownload(d, j)
    \/ \E d \in Downloads :
          ReadArtifact(d) \/ RemoveArtifact(d) \/ MarkExpired(d) \/ DownloadFails(d)
    \/ Crash

\* The event loop goes on with every runner.
Fairness == \A j \in Jobs : WF_exportsVars(runExportJob(j))

Spec == Init /\ [][Next]_exportsVars /\ Fairness
-----------------------------------------------------------------------------
\* Every variable keeps its type.
TypeOK ==
    /\ jobs \in [Jobs -> Statuses]
    /\ files \subseteq Jobs
    /\ runner \in [Jobs -> RunnerPhases]
    /\ tokens \subseteq Jobs /\ handed \subseteq Jobs /\ overdue \subseteq Jobs
    /\ download \in [Downloads -> {Idle}
          \cup [phase : {"read", "remove", "expire"}, job : Jobs, late : BOOLEAN]]
    /\ consumed \subseteq Jobs /\ interrupted \subseteq Jobs

\* A job still marked DONE really can be fetched -- its token is kept or handed out and
\* its artifact is there -- unless its runner has a step to go, a download that removed
\* the artifact is about to answer, or a failure cost the token or that answer.  A job
\* marked EXPIRED has left nothing behind.  And two downloads both return the artifact
\* only if they overlap: none gets past readFile that began after another had removed
\* it, not even before the row says EXPIRED.  The code promises more than that,
\* "One-time download tokens" (export.ts:114, 122), but checks and removes in separate
\* steps (export.ts:131-142), and two downloads that overlap do both return it.
ExportsRepeatOnlyOverlaps ==
    /\ \A j \in Jobs :
          /\ jobs[j] = "DONE" =>
                \/ runner[j] \in {"stash", "fail"}
                \/ j \in tokens \cup handed /\ (j \in files \/ Unanswered(j))
                \/ j \in interrupted
          /\ jobs[j] = "EXPIRED" => j \notin files
    /\ \A d \in Downloads : download[d].phase \in {"remove", "expire"} => ~download[d].late

\* A job that is asked for is decided, unless the process restarts under it
\* (export.ts:48-112).
ExportsEnd ==
    \A j \in Jobs :
        jobs[j] \in {"PENDING", "RUNNING"} ~>
            jobs[j] \in {"DONE", "FAILED", "EXPIRED"} \/ j \in interrupted
=============================================================================
