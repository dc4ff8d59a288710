-------------------------- MODULE OperationControl --------------------------
(***************************************************************************)
(* Which operation may touch the virtual environments: the pipeline runs   *)
(* of env_manager/orchestrator.py, claimed and started by the handlers of  *)
(* env_manager/api/routes_pipeline.py, together with the update jobs of    *)
(* UpdateJobs.                                                             *)
(*                                                                         *)
(* A handler runs on the event loop and does not await between its checks  *)
(* and its claim; the pipeline threads and the update worker interleave    *)
(* with it freely.  None of them takes `_operation_lock`.                  *)
(*                                                                         *)
(* The full run and the single-step run claim, start, fail and release in  *)
(* the same way; what their steps do is not a matter of this module.       *)
(***************************************************************************)
EXTENDS UpdateJobs, FiniteSets

CONSTANTS Runs,    \* one element per POST /api/pipeline/run or run-step
          NoRun

ASSUME RunsAssumption == NoRun \notin Runs

\* A run's thread: not requested, turned away, claimed by its handler, thread
\* started, inside the generator, leaving it (its `finally` is next), left it
\* (the worker's own `finally` is next), gone.  "lost" is a run whose thread
\* could not be started.
RunStages == {"new", "refused", "claimed", "lost", "started", "active",
              "leaving", "released", "closed"}

\* The stages in which a run counts as running: from its claim until its
\* generator is done with the environments.
Holding == {"claimed", "started", "active", "leaving"}

RunOutcome == {"success", "warning", "failed"}

VARIABLES
  claimed,      \* PipelineOrchestrator.is_running
  lastStatus,   \* .last_status
  runStage,     \* how far each run's thread got
  launching,    \* the event loop inside run_pipeline or run_pipeline_step
  launchRun,    \* and for which run
  stolen        \* history: runs whose claim another run's thread gave back

runVars    == <<claimed, lastStatus, runStage, stolen>>
launchVars == <<launching, launchRun>>
opVars     == <<updVars, runVars, launchVars>>

Init ==
  /\ JobInit
  /\ claimed = FALSE
  /\ lastStatus = "idle"
  /\ runStage = [r \in Runs |-> "new"]
  /\ launching = "idle" /\ launchRun = NoRun
  /\ stolen = {}

-----------------------------------------------------------------------------
(* Handlers on the event loop.                                             *)

LoopFree == UpdateLoopFree /\ launching = "idle"

\* Mutant: run_update does not look at the pipeline.
PostUpdate_NoPipelineCheck(j) ==
  /\ LoopFree
  /\ RequestUpdate(j)
  /\ UNCHANGED <<runVars, launchVars>>

\* run_update, holding _operation_lock: 409 while the pipeline is claimed,
\* otherwise on to update_jobs.start.
PostUpdate(j) ==
  /\ LoopFree
  /\ \/ /\ ~claimed
        /\ RequestUpdate(j)
     \/ /\ claimed
        /\ stage[j] = "new"
        /\ stage' = [stage EXCEPT ![j] = "refused"]
        /\ UNCHANGED <<busy, job, status, result, emitted, stream, loopVars, envVars>>
  /\ UNCHANGED <<runVars, launchVars>>

\* Mutant: the claim is taken before the update job is looked at, and is not
\* given back when the request is refused.
PostPipeline_ClaimsFirst(r) ==
  /\ LoopFree
  /\ runStage[r] = "new"
  /\ ~claimed
  /\ claimed' = TRUE
  /\ runStage' = [runStage EXCEPT ![r] = IF busy THEN "refused" ELSE "claimed"]
  /\ launching' = IF busy THEN "idle" ELSE "spawn"
  /\ launchRun' = r
  /\ UNCHANGED <<lastStatus, stolen, updVars>>

\* _claim_pipeline, holding _operation_lock: refuse while an update runs.
PostPipeline(r) ==
  /\ LoopFree
  /\ runStage[r] = "new"
  /\ \/ /\ busy
        /\ runStage' = [runStage EXCEPT ![r] = "refused"]
        /\ UNCHANGED launchVars
     \/ /\ ~busy
        /\ launching' = "claim"
        /\ launchRun' = r
        /\ UNCHANGED runStage
  /\ UNCHANGED <<claimed, lastStatus, stolen, updVars>>

\* try_claim, under _claim_lock.
TryClaim ==
  /\ launching = "claim"
  /\ \/ /\ claimed
        /\ runStage' = [runStage EXCEPT ![launchRun] = "refused"]
        /\ launching' = "idle"
        /\ UNCHANGED claimed
     \/ /\ ~claimed
        /\ claimed' = TRUE
        /\ runStage' = [runStage EXCEPT ![launchRun] = "claimed"]
        /\ launching' = "spawn"
  /\ UNCHANGED <<lastStatus, stolen, launchRun, updVars>>

\* Mutant: the claim is given back whether or not thread.start() raised.
SpawnThread_AlwaysReleases ==
  /\ launching = "spawn"
  /\ \E outcome \in {"started", "lost"} :
       runStage' = [runStage EXCEPT ![launchRun] = outcome]
  /\ claimed' = FALSE
  /\ launching' = "idle"
  /\ UNCHANGED <<lastStatus, stolen, launchRun, updVars>>

\* thread.start(): the worker runs from here on, or the system has no thread
\* to give and the exception leaves the handler with the claim taken.
SpawnThread ==
  /\ launching = "spawn"
  /\ \E outcome \in {"started", "lost"} :
       runStage' = [runStage EXCEPT ![launchRun] = outcome]
  /\ launching' = "idle"
  /\ UNCHANGED <<claimed, lastStatus, stolen, launchRun, updVars>>

-----------------------------------------------------------------------------
(* A pipeline thread.                                                      *)

\* The generator's first `next`: _start sets is_running without looking.
GeneratorStart(r) ==
  /\ runStage[r] = "started"
  /\ runStage' = [runStage EXCEPT ![r] = "active"]
  /\ claimed' = TRUE
  /\ lastStatus' = "running"
  /\ UNCHANGED <<stolen, launchVars, updVars>>

\* Mutant: a run that ends well leaves last_status alone.
StepsDone_KeepsStatus(r) ==
  /\ runStage[r] = "active"
  /\ runStage' = [runStage EXCEPT ![r] = "leaving"]
  /\ UNCHANGED <<claimed, lastStatus, stolen, launchVars, updVars>>

\* The last step of a full run, or the only one of a single-step run, leaves
\* its outcome in last_status.
StepsDone(r) ==
  /\ runStage[r] = "active"
  /\ lastStatus' \in {"success", "warning"}
  /\ runStage' = [runStage EXCEPT ![r] = "leaving"]
  /\ UNCHANGED <<claimed, stolen, launchVars, updVars>>

\* Mutant: last_status takes the status of the event.
StepFails_EventStatus(r) ==
  /\ runStage[r] = "active"
  /\ lastStatus' = "error"
  /\ runStage' = [runStage EXCEPT ![r] = "leaving"]
  /\ UNCHANGED <<claimed, stolen, launchVars, updVars>>

\* A step raises: one more event, then the exception leaves the generator.
StepFails(r) ==
  /\ runStage[r] = "active"
  /\ lastStatus' = "failed"
  /\ runStage' = [runStage EXCEPT ![r] = "leaving"]
  /\ UNCHANGED <<claimed, stolen, launchVars, updVars>>

\* Publishing an event raises once the event loop is closed: the worker drops
\* the generator in the middle of a step.
DropGenerator(r) ==
  /\ runStage[r] = "active"
  /\ ~loopOpen
  /\ runStage' = [runStage EXCEPT ![r] = "leaving"]
  /\ UNCHANGED <<claimed, lastStatus, stolen, launchVars, updVars>>

\* release(), called by run r's thread: is_running becomes FALSE whoever
\* claimed it.  The other runs that count on the claim have lost it.
Release(r) ==
  /\ claimed' = FALSE
  /\ stolen' = stolen \cup {q \in Runs \ {r} : runStage[q] \in Holding}

\* The `finally` of the generator.
GeneratorRelease(r) ==
  /\ runStage[r] = "leaving"
  /\ Release(r)
  /\ runStage' = [runStage EXCEPT ![r] = "released"]
  /\ UNCHANGED <<lastStatus, launchVars, updVars>>

\* The `finally` of the worker, which releases a second time.
WorkerRelease(r) ==
  /\ runStage[r] = "released"
  /\ Release(r)
  /\ runStage' = [runStage EXCEPT ![r] = "closed"]
  /\ UNCHANGED <<lastStatus, launchVars, updVars>>

-----------------------------------------------------------------------------

PipelineThread(r) ==
  \/ GeneratorStart(r) \/ StepsDone(r) \/ StepFails(r)
  \/ DropGenerator(r) \/ GeneratorRelease(r) \/ WorkerRelease(r)

LaunchStep == TryClaim \/ SpawnThread

\* The steps of UpdateJobs that leave the pipeline's state alone.  Its status
\* report is left to UpdateJobs: it changes nothing that a handler or a
\* thread reads.  So is ClosePool: the server's executor is shut down after
\* its event loop has ended, when no handler is left that could submit.
UpdateStep ==
  /\ \/ HandlerStep
     \/ \E j \in Jobs : Worker(j)
     \/ LoopFree /\ CloseLoop
  /\ UNCHANGED <<runVars, launchVars>>

Next ==
  \/ \E j \in Jobs : PostUpdate(j)
  \/ \E r \in Runs : PostPipeline(r) \/ PipelineThread(r)
  \/ LaunchStep
  \/ UpdateStep

\* A started handler and a started thread go on; a step of the pipeline ends,
\* because every command it runs has a timeout.
Fairness ==
  /\ WF_opVars(LaunchStep)
  /\ WF_opVars(HandlerStep /\ UNCHANGED <<runVars, launchVars>>)
  /\ \A j \in Jobs : WF_opVars(Worker(j) /\ UNCHANGED <<runVars, launchVars>>)
  /\ \A r \in Runs : WF_opVars(PipelineThread(r))

Spec == Init /\ [][Next]_opVars /\ Fairness
-----------------------------------------------------------------------------
(* Properties.                                                             *)

TypeOK ==
  /\ JobTypeOK
  /\ claimed \in BOOLEAN
  /\ lastStatus \in RunOutcome \cup {"idle", "running"}
  /\ runStage \in [Runs -> RunStages]
  /\ launching \in {"idle", "claim", "spawn"}
  /\ launchRun \in Runs \cup {NoRun}
  /\ stolen \in SUBSET Runs

\* Two operations are under way together only if the claim of one of them was
\* given back by another run's thread; an update overlaps only such a run.
\* Apart from the second release, the checks of the three handlers and the
\* claims keep all operations apart.
OverlapNeedsStaleRelease ==
  /\ \A q, r \in Runs :
       runStage[q] \in Holding /\ runStage[r] \in Holding /\ q # r
         => q \in stolen \/ r \in stolen
  /\ \A r \in Runs, j \in Jobs :
       runStage[r] \in Holding /\ stage[j] \in Active => r \in stolen

\* Until another run's thread gives its claim back, a run under way is
\* covered by is_running: from the claim in the handler, through the gap
\* before its thread gets going, to the `finally` of its generator.
RunIsCovered ==
  \A r \in Runs : runStage[r] \in Holding /\ r \notin stolen => claimed

\* is_running is set only on behalf of a run that is under way, or of one
\* whose thread could not be started: no refused request, failed step or
\* dropped generator leaves the server refusing work.
ClaimNotLeaked ==
  claimed => \E r \in Runs : runStage[r] \in Holding \cup {"lost"}

\* last_status says "running" only while a generator is inside its steps,
\* however the runs overlap, as long as the server can publish events.
RunningStatusIsHonest ==
  lastStatus = "running" /\ loopOpen => \E r \in Runs : runStage[r] = "active"

\* A claimed pipeline does not refuse work for ever: the claim is given back,
\* unless a thread could not be started.
ClaimEventuallyFree ==
  claimed ~> ~claimed \/ \E r \in Runs : runStage[r] = "lost"

\* What api/state.py says of `_operation_lock`: "so the two never overlap".
PipelineAndUpdateNeverOverlap ==
  ~ /\ \E r \in Runs : runStage[r] = "active"
    /\ \E j \in Jobs : stage[j] = "running"
=============================================================================
