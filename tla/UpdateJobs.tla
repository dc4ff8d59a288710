----------------------------- MODULE UpdateJobs -----------------------------
(***************************************************************************)
(* env_manager/update_jobs.py: the background safe update.  One thread,    *)
(* the server's event loop, calls `start`, `snapshot` and `is_running`;    *)
(* one worker thread runs the job and its done-callback.  The two share    *)
(* `_busy` and `_job` under `_state_lock`, so a step below is one critical *)
(* section of that lock, one `publish`, or one executor call.              *)
(*                                                                         *)
(* The runner's work (the upgrade itself) is the subject of another        *)
(* module: here it emits events and ends with a status or an exception.    *)
(***************************************************************************)
EXTENDS Naturals, Sequences

CONSTANTS Jobs,       \* one element per POST /api/update that reaches `start`
          NoJob,      \* the value None of `_job`
          MaxEvents   \* bound on the progress events one job emits

ASSUME JobsAssumption ==
  /\ NoJob \notin Jobs
  /\ MaxEvents \in Nat

FinalStatus == {"up_to_date", "success", "partial", "failed"}

\* How far a job's worker got: requested, claimed by `start`, in the pool's
\* queue, inside the runner, Future resolved, outcome recorded, outcome
\* announced, run lock freed; or turned away at either of `start`'s checks.
JobStages == {"new", "refused", "claimed", "queued", "running", "ended",
              "recorded", "announced", "closed", "unsubmitted"}

\* The stages in which the job is what `_busy` stands for.
Active == {"claimed", "queued", "running", "ended", "recorded", "announced"}

\* Where the event loop is inside `start`.  "inline" is `add_done_callback`
\* running the callback itself because the Future is already resolved.
CallerPhases == {"idle", "claim", "submit", "register", "inline"}

EventKinds == {"started", "progress", "final"}

VARIABLES
  busy, job,          \* UpdateJobManager._busy, ._job
  status,             \* UpdateJob.status of each job that `start` created
  stage,              \* how far each job got
  result,             \* what each job's Future holds
  emitted,            \* length of UpdateJob.events
  stream,             \* what was handed to the WebSocket broadcast, in order
  caller, subject,    \* the event loop inside `start`, and for which job
  reader, seen,       \* the event loop inside get_update_status
  reply,              \* the last GET /api/update/status answer
  loopOpen, poolOpen  \* the server's event loop, the manager's executor

jobVars  == <<busy, job, status, stage, result, emitted, stream>>
loopVars == <<caller, subject, reader, seen, reply>>
envVars  == <<loopOpen, poolOpen>>
updVars  == <<jobVars, loopVars, envVars>>

NoReply == [running |-> FALSE, job |-> NoJob, status |-> "none"]

JobInit ==
  /\ busy = FALSE
  /\ job = NoJob
  /\ status = [j \in Jobs |-> "none"]
  /\ stage = [j \in Jobs |-> "new"]
  /\ result = [j \in Jobs |-> "none"]
  /\ emitted = [j \in Jobs |-> 0]
  /\ stream = <<>>
  /\ caller = "idle" /\ subject = NoJob
  /\ reader = "idle" /\ seen = FALSE
  /\ reply = NoReply
  /\ loopOpen = TRUE /\ poolOpen = TRUE

-----------------------------------------------------------------------------
(* The event loop.  Its handlers never await between two of these steps,   *)
(* so no two of them are inside `start` or the status report at once.      *)

UpdateLoopFree == caller = "idle" /\ reader = "idle" /\ loopOpen

\* run_update reaches update_jobs.start for a request.
RequestUpdate(j) ==
  /\ UpdateLoopFree
  /\ stage[j] = "new"
  /\ caller' = "claim"
  /\ subject' = j
  /\ UNCHANGED <<jobVars, reader, seen, reply, envVars>>

\* Mutant: the busy check is dropped, a second job replaces the first.
StartClaim_NoCheck ==
  /\ caller = "claim"
  /\ busy' = TRUE
  /\ job' = subject
  /\ status' = [status EXCEPT ![subject] = "running"]
  /\ stage' = [stage EXCEPT ![subject] = "claimed"]
  /\ caller' = "submit"
  /\ UNCHANGED <<result, emitted, stream, subject, reader, seen, reply, envVars>>

\* `start` up to the end of its first critical section.
StartClaim ==
  /\ caller = "claim"
  /\ \/ /\ busy
        /\ stage' = [stage EXCEPT ![subject] = "refused"]
        /\ caller' = "idle"
        /\ UNCHANGED <<busy, job, status>>
     \/ /\ ~busy
        /\ busy' = TRUE
        /\ job' = subject
        /\ status' = [status EXCEPT ![subject] = "running"]
        /\ stage' = [stage EXCEPT ![subject] = "claimed"]
        /\ caller' = "submit"
  /\ UNCHANGED <<result, emitted, stream, subject, reader, seen, reply, envVars>>

\* executor.submit: queues the job, or raises RuntimeError after shutdown;
\* then the flag is cleared and the error leaves `start`.
StartSubmit ==
  /\ caller = "submit"
  /\ \/ /\ poolOpen
        /\ stage' = [stage EXCEPT ![subject] = "queued"]
        /\ caller' = "register"
        /\ UNCHANGED busy
     \/ /\ ~poolOpen
        /\ busy' = FALSE
        /\ stage' = [stage EXCEPT ![subject] = "unsubmitted"]
        /\ caller' = "idle"
  /\ UNCHANGED <<job, status, result, emitted, stream, subject,
                 reader, seen, reply, envVars>>

\* future.add_done_callback: a resolved Future calls back at once, in the
\* caller; otherwise the worker will call.
StartRegister ==
  /\ caller = "register"
  /\ caller' = IF stage[subject] = "ended" THEN "inline" ELSE "idle"
  /\ UNCHANGED <<jobVars, subject, reader, seen, reply, envVars>>

\* GET /api/update/status takes the lock twice: first for is_running ...
StatusRunning ==
  /\ UpdateLoopFree
  /\ reader' = "snapshot"
  /\ seen' = busy
  /\ UNCHANGED <<jobVars, caller, subject, reply, envVars>>

\* ... then for the job.
StatusSnapshot ==
  /\ reader = "snapshot"
  /\ reader' = "idle"
  /\ reply' = [running |-> seen, job |-> job,
               status |-> IF job = NoJob THEN "none" ELSE status[job]]
  /\ UNCHANGED <<jobVars, caller, subject, seen, envVars>>

-----------------------------------------------------------------------------
(* The worker thread.                                                      *)

\* run_coroutine_threadsafe hands the event over, or raises once the loop is
\* closed: then `delivered` is FALSE and nothing was handed over.
Publish(j, kind, delivered) ==
  /\ delivered = loopOpen
  /\ stream' = IF delivered THEN Append(stream, [job |-> j, kind |-> kind])
               ELSE stream

\* A resolved Future: the runner returned `outcome`, or raised ("failed").
Resolve(j, outcome) ==
  /\ stage' = [stage EXCEPT ![j] = "ended"]
  /\ result' = [result EXCEPT ![j] = outcome]

\* The pool's only thread is not executing another job or its callback.
WorkerFree == \A k \in Jobs : stage[k] \notin {"running", "ended", "recorded", "announced"}

\* _run: announce the start, then enter the runner.
RunStart(j) ==
  /\ stage[j] = "queued"
  /\ WorkerFree
  /\ \E delivered \in BOOLEAN :
       /\ Publish(j, "started", delivered)
       /\ IF delivered
          THEN /\ stage' = [stage EXCEPT ![j] = "running"]
               /\ UNCHANGED result
          ELSE Resolve(j, "failed")
  /\ UNCHANGED <<busy, job, status, emitted, loopVars, envVars>>

\* The runner calls emit: the event is kept on the job, then published.
\* If publishing raises, the exception ends the runner.
RunEmit(j) ==
  /\ stage[j] = "running"
  /\ emitted[j] < MaxEvents
  /\ emitted' = [emitted EXCEPT ![j] = @ + 1]
  /\ \E delivered \in BOOLEAN :
       /\ Publish(j, "progress", delivered)
       /\ IF delivered
          THEN UNCHANGED <<stage, result>>
          ELSE Resolve(j, "failed")
  /\ UNCHANGED <<busy, job, status, loopVars, envVars>>

\* Mutant: the run lock is freed when the runner returns, not after the
\* callback has recorded the outcome.
RunEnd_FreesEarly(j) ==
  /\ stage[j] = "running"
  /\ \E outcome \in FinalStatus : Resolve(j, outcome)
  /\ busy' = FALSE
  /\ UNCHANGED <<job, status, emitted, stream, loopVars, envVars>>

\* The runner returns, or raises: run_safe_update says "up_to_date" only
\* before its first event.
RunEnd(j) ==
  /\ stage[j] = "running"
  /\ \E outcome \in FinalStatus :
       /\ outcome = "up_to_date" => emitted[j] = 0
       /\ Resolve(j, outcome)
  /\ UNCHANGED <<busy, job, status, emitted, stream, loopVars, envVars>>

\* The done-callback runs once it is registered: on the worker, or inline.
Registered(j) == ~(caller = "register" /\ subject = j)

\* Mutant: the outcome is announced before it is recorded.
FinishRecord_AnnouncesFirst(j) ==
  /\ stage[j] = "ended"
  /\ Registered(j)
  /\ \E delivered \in BOOLEAN : Publish(j, "final", delivered)
  /\ stage' = [stage EXCEPT ![j] = "recorded"]
  /\ UNCHANGED <<busy, job, status, result, emitted, loopVars, envVars>>

\* Mutant: the status of the final event is recorded, not the job's.
FinishRecord_EventStatus(j) ==
  /\ stage[j] = "ended"
  /\ Registered(j)
  /\ status' = [status EXCEPT ![j] = IF result[j] = "failed" THEN "error" ELSE result[j]]
  /\ stage' = [stage EXCEPT ![j] = "recorded"]
  /\ UNCHANGED <<busy, job, result, emitted, stream, loopVars, envVars>>

\* _finish up to the end of its critical section.
FinishRecord(j) ==
  /\ stage[j] = "ended"
  /\ Registered(j)
  /\ status' = [status EXCEPT ![j] = result[j]]
  /\ stage' = [stage EXCEPT ![j] = "recorded"]
  /\ UNCHANGED <<busy, job, result, emitted, stream, loopVars, envVars>>

\* Mutant: without the `finally`, a publish that raises ends the callback.
FinishAnnounce_NoFinally(j) ==
  /\ stage[j] = "recorded"
  /\ loopOpen
  /\ Publish(j, "final", TRUE)
  /\ stage' = [stage EXCEPT ![j] = "announced"]
  /\ UNCHANGED <<busy, job, status, result, emitted, loopVars, envVars>>

\* _finish announces the outcome; whether or not that raises, the `finally`
\* comes next.
FinishAnnounce(j) ==
  /\ stage[j] = "recorded"
  /\ \E delivered \in BOOLEAN : Publish(j, "final", delivered)
  /\ stage' = [stage EXCEPT ![j] = "announced"]
  /\ UNCHANGED <<busy, job, status, result, emitted, loopVars, envVars>>

\* _finish's `finally`: _set_idle.
FinishSetIdle(j) ==
  /\ stage[j] = "announced"
  /\ busy' = FALSE
  /\ stage' = [stage EXCEPT ![j] = "closed"]
  /\ caller' = IF caller = "inline" /\ subject = j THEN "idle" ELSE caller
  /\ UNCHANGED <<job, status, result, emitted, stream, subject,
                 reader, seen, reply, envVars>>

-----------------------------------------------------------------------------
(* The process around them.                                                *)

\* The server stops: between two handlers its event loop is closed.
CloseLoop ==
  /\ UpdateLoopFree
  /\ loopOpen' = FALSE
  /\ UNCHANGED <<jobVars, loopVars, poolOpen>>

\* The interpreter shuts the executor down; queued work still runs.
ClosePool ==
  /\ poolOpen
  /\ poolOpen' = FALSE
  /\ UNCHANGED <<jobVars, loopVars, loopOpen>>
-----------------------------------------------------------------------------
(* The specification.                                                      *)

Worker(j) ==
  \/ RunStart(j) \/ RunEmit(j) \/ RunEnd(j)
  \/ FinishRecord(j) \/ FinishAnnounce(j) \/ FinishSetIdle(j)

\* What the event loop does inside a handler that already started.
HandlerStep == StartClaim \/ StartSubmit \/ StartRegister \/ StatusSnapshot

JobNext ==
  \/ \E j \in Jobs : RequestUpdate(j)
  \/ StatusRunning
  \/ HandlerStep
  \/ \E j \in Jobs : Worker(j)
  \/ CloseLoop
  \/ ClosePool

\* A handler that runs keeps running, and the executor's thread is not a
\* daemon: both go on until they are done.  pip and npm run under timeouts,
\* so the runner ends.  Nobody has to send requests or stop the server.
JobFairness ==
  /\ WF_updVars(HandlerStep)
  /\ \A j \in Jobs : WF_updVars(Worker(j))

JobSpec == JobInit /\ [][JobNext]_updVars /\ JobFairness

-----------------------------------------------------------------------------
(* Properties.                                                             *)

JobTypeOK ==
  /\ busy \in BOOLEAN
  /\ job \in Jobs \cup {NoJob}
  /\ status \in [Jobs -> FinalStatus \cup {"none", "running"}]
  /\ stage \in [Jobs -> JobStages]
  /\ result \in [Jobs -> FinalStatus \cup {"none"}]
  /\ emitted \in [Jobs -> 0..MaxEvents]
  /\ stream \in Seq([job : Jobs, kind : EventKinds])
  /\ caller \in CallerPhases
  /\ subject \in Jobs \cup {NoJob}
  /\ reader \in {"idle", "snapshot"}
  /\ seen \in BOOLEAN
  /\ reply \in [running : BOOLEAN, job : Jobs \cup {NoJob},
                status : FinalStatus \cup {"none", "running"}]
  /\ loopOpen \in BOOLEAN /\ poolOpen \in BOOLEAN

\* `_busy` is set exactly while some job is between its claim and the end of
\* its callback, and `_job` is that job.  So no two jobs are under way, and
\* the job a status report shows while one runs is the one that runs.
OneJobAtATime ==
  /\ \A j \in Jobs : stage[j] \in Active => busy /\ job = j
  /\ busy => job # NoJob /\ stage[job] \in Active

\* A client that has seen a job's last event and asks for the job finds its
\* outcome: _finish records before it announces.
AnnouncedMeansRecorded ==
  \A i \in DOMAIN stream :
    stream[i].kind = "final" => status[stream[i].job] \in FinalStatus

\* GET /api/update/status never answers "nothing runs" together with a job
\* in status "running", although it takes the lock twice and the worker may
\* finish in between.  The one exception is a job the pool refused: `start`
\* frees the flag and leaves that job as it is.
IdleReportIsFinal ==
  ~reply.running /\ reply.status = "running" => stage[reply.job] = "unsubmitted"

\* Every job that reached the pool ends with a final status and frees the
\* run lock, whether the runner raised or the event loop was closed.
AcceptedJobCompletes ==
  \A j \in Jobs : stage[j] = "queued" ~>
                     stage[j] = "closed" /\ status[j] \in FinalStatus

\* The manager implements the single slot.
Slot == INSTANCE JobSlot WITH
          slot <- IF busy THEN job ELSE NoJob,
          ended <- {j \in Jobs : stage[j] \in {"closed", "unsubmitted"}}

ImplementsJobSlot == Slot!Spec
=============================================================================
