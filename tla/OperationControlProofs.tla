----------------------- MODULE OperationControlProofs -----------------------
(***************************************************************************)
(* What holds of the update jobs for any number of requests and of events, *)
(* and what keeps the pipeline and the updates apart.  The invariant of    *)
(* the jobs adds to the stated properties where the event loop is inside   *)
(* `start`: that is what keeps the steps of a claim, and the two halves of *)
(* a status report, from being overtaken.                                  *)
(***************************************************************************)
EXTENDS OperationControl, TLAPS

-----------------------------------------------------------------------------
(* The update jobs (module UpdateJobs).                                     *)


\* Where the event loop stands, and how far the job it stands for got.
CallerInv ==
  /\ caller # "idle" => subject \in Jobs
  /\ caller = "claim" => stage[subject] = "new"
  /\ caller = "submit" => stage[subject] = "claimed"
  /\ caller = "register" => stage[subject] \in {"queued", "running", "ended"}
  /\ caller = "inline" => stage[subject] \in {"ended", "recorded", "announced"}
  /\ reader = "snapshot" => caller = "idle"

\* What a job shows at each stage of its worker.
ResultInv ==
  \A j \in Jobs :
    /\ stage[j] = "ended" => result[j] \in FinalStatus
    /\ stage[j] \in {"recorded", "announced", "closed"} => status[j] \in FinalStatus

\* A finished claim leaves `_job` at a job that is over.
LastJobInv == job # NoJob => stage[job] \in Active \cup {"closed", "unsubmitted"}

\* The final event of a job is handed over after its outcome is recorded.
StreamInv ==
  \A i \in DOMAIN stream :
    stream[i].kind = "final" => stage[stream[i].job] \in {"announced", "closed"}

\* Between the two halves of a status report nothing is claimed.
ReportInv ==
  /\ reader = "snapshot" /\ ~seen => ~busy
  /\ reply.status = "running" => reply.job \in Jobs
  /\ IdleReportIsFinal

JobInv ==
  /\ JobTypeOK
  /\ OneJobAtATime
  /\ CallerInv
  /\ ResultInv
  /\ LastJobInv
  /\ StreamInv
  /\ ReportInv

-----------------------------------------------------------------------------

\* Handing an event over adds at most that event to the stream.
LEMMA PublishAdds ==
  ASSUME JobTypeOK, NEW j \in Jobs, NEW kind \in EventKinds,
         NEW delivered \in BOOLEAN, Publish(j, kind, delivered)
  PROVE  /\ stream' \in Seq([job : Jobs, kind : EventKinds])
         /\ \A i \in DOMAIN stream' :
              \/ i \in DOMAIN stream /\ stream'[i] = stream[i]
              \/ stream'[i] = [job |-> j, kind |-> kind]
  <1> DEFINE E == [job : Jobs, kind : EventKinds]
             e == [job |-> j, kind |-> kind]
  <1>1. stream \in Seq(E) /\ e \in E
    BY DEF JobTypeOK
  <1>2. CASE ~delivered
    BY <1>1, <1>2 DEF Publish
  <1>3. CASE delivered
    <2>1. stream' = Append(stream, e)
      BY <1>3 DEF Publish
    <2> HIDE DEF E, e
    <2>2. /\ Append(stream, e) \in Seq(E)
          /\ \A i \in DOMAIN Append(stream, e) :
               \/ i \in DOMAIN stream /\ Append(stream, e)[i] = stream[i]
               \/ Append(stream, e)[i] = e
      BY <1>1
    <2>3. QED
      BY <2>1, <2>2 DEF E, e
  <1>4. QED
    BY <1>2, <1>3

\* The events in the stream are events of jobs.
LEMMA StreamJobs ==
  ASSUME JobTypeOK
  PROVE  \A i \in DOMAIN stream : stream[i].job \in Jobs
  <1> DEFINE E == [job : Jobs, kind : EventKinds]
  <1>1. stream \in Seq(E)
    BY DEF JobTypeOK
  <1> HIDE DEF E
  <1>2. \A i \in DOMAIN stream : stream[i] \in E
    BY <1>1
  <1>3. QED
    BY <1>2 DEF E

LEMMA JobInitInv == JobInit => JobInv
  <1> SUFFICES ASSUME JobInit PROVE JobInv
    OBVIOUS
  <1> USE JobsAssumption DEF JobInit
  <1>1. JobTypeOK
    <2>1. stream \in Seq([job : Jobs, kind : EventKinds])
      OBVIOUS
    <2>2. reply \in [running : BOOLEAN, job : Jobs \cup {NoJob},
                    status : FinalStatus \cup {"none", "running"}]
      BY DEF NoReply
    <2>3. emitted \in [Jobs -> 0..MaxEvents]
      OBVIOUS
    <2>4. QED
      BY <2>1, <2>2, <2>3 DEF JobTypeOK, JobStages, CallerPhases
  <1>2. OneJobAtATime
    BY DEF OneJobAtATime, Active
  <1>3. CallerInv
    BY DEF CallerInv
  <1>4. ResultInv
    BY DEF ResultInv
  <1>5. LastJobInv
    BY DEF LastJobInv
  <1>6. StreamInv
    BY DEF StreamInv
  <1>7. ReportInv
    BY DEF ReportInv, IdleReportIsFinal, NoReply
  <1>8. QED
    BY <1>1, <1>2, <1>3, <1>4, <1>5, <1>6, <1>7 DEF JobInv

LEMMA RequestUpdateInv ==
  ASSUME NEW j \in Jobs, JobInv, RequestUpdate(j)
  PROVE  JobInv'
  <1> USE JobsAssumption DEF JobInv, RequestUpdate, UpdateLoopFree, jobVars, envVars
  <1>1. JobTypeOK'
    BY DEF JobTypeOK, FinalStatus, JobStages, CallerPhases, EventKinds
  <1>2. OneJobAtATime'
    BY DEF JobTypeOK, OneJobAtATime, Active, CallerInv
  <1>3. CallerInv'
    BY DEF JobTypeOK, CallerInv
  <1>4. ResultInv'
    BY DEF JobTypeOK, ResultInv, CallerInv, FinalStatus
  <1>5. LastJobInv'
    BY DEF JobTypeOK, LastJobInv, CallerInv, Active
  <1>6. StreamInv'
    BY DEF JobTypeOK, StreamInv, CallerInv
  <1>7. ReportInv'
    BY DEF JobTypeOK, ReportInv, IdleReportIsFinal, CallerInv, LastJobInv, ResultInv, FinalStatus, Active, OneJobAtATime
  <1>8. QED
    BY <1>1, <1>2, <1>3, <1>4, <1>5, <1>6, <1>7

LEMMA StartClaimInv ==
  ASSUME JobInv, StartClaim
  PROVE  JobInv'
  <1> USE JobsAssumption DEF JobInv, StartClaim, envVars
  <1>1. JobTypeOK'
    BY DEF JobTypeOK, FinalStatus, JobStages, CallerPhases, EventKinds, CallerInv
  <1>2. OneJobAtATime'
    BY DEF JobTypeOK, OneJobAtATime, Active, CallerInv
  <1>3. CallerInv'
    BY DEF JobTypeOK, CallerInv
  <1>4. ResultInv'
    BY DEF JobTypeOK, ResultInv, CallerInv, FinalStatus
  <1>5. LastJobInv'
    BY DEF JobTypeOK, LastJobInv, CallerInv, Active
  <1>6. StreamInv'
    BY StreamJobs DEF JobTypeOK, StreamInv, CallerInv
  <1>7. ReportInv'
    BY DEF JobTypeOK, ReportInv, IdleReportIsFinal, CallerInv, LastJobInv, ResultInv, FinalStatus, Active, OneJobAtATime
  <1>8. QED
    BY <1>1, <1>2, <1>3, <1>4, <1>5, <1>6, <1>7

LEMMA StartSubmitInv ==
  ASSUME JobInv, StartSubmit
  PROVE  JobInv'
  <1> USE JobsAssumption DEF JobInv, StartSubmit, envVars
  <1>1. JobTypeOK'
    BY DEF JobTypeOK, FinalStatus, JobStages, CallerPhases, EventKinds, CallerInv
  <1>2. OneJobAtATime'
    BY DEF JobTypeOK, OneJobAtATime, Active, CallerInv
  <1>3. CallerInv'
    BY DEF JobTypeOK, CallerInv
  <1>4. ResultInv'
    BY DEF JobTypeOK, ResultInv, CallerInv, FinalStatus
  <1>5. LastJobInv'
    BY DEF JobTypeOK, LastJobInv, CallerInv, Active
  <1>6. StreamInv'
    BY StreamJobs DEF JobTypeOK, StreamInv, CallerInv
  <1>7. ReportInv'
    BY DEF JobTypeOK, ReportInv, IdleReportIsFinal, CallerInv, LastJobInv, ResultInv, FinalStatus, Active, OneJobAtATime
  <1>8. QED
    BY <1>1, <1>2, <1>3, <1>4, <1>5, <1>6, <1>7

LEMMA StartRegisterInv ==
  ASSUME JobInv, StartRegister
  PROVE  JobInv'
  <1> USE JobsAssumption DEF JobInv, StartRegister, jobVars, envVars
  <1>1. JobTypeOK'
    BY DEF JobTypeOK, FinalStatus, JobStages, CallerPhases, EventKinds
  <1>2. OneJobAtATime'
    BY DEF JobTypeOK, OneJobAtATime, Active, CallerInv
  <1>3. CallerInv'
    BY DEF JobTypeOK, CallerInv
  <1>4. ResultInv'
    BY DEF JobTypeOK, ResultInv, CallerInv, FinalStatus
  <1>5. LastJobInv'
    BY DEF JobTypeOK, LastJobInv, CallerInv, Active
  <1>6. StreamInv'
    BY DEF JobTypeOK, StreamInv, CallerInv
  <1>7. ReportInv'
    BY DEF JobTypeOK, ReportInv, IdleReportIsFinal, CallerInv, LastJobInv, ResultInv, FinalStatus, Active, OneJobAtATime
  <1>8. QED
    BY <1>1, <1>2, <1>3, <1>4, <1>5, <1>6, <1>7

LEMMA StatusRunningInv ==
  ASSUME JobInv, StatusRunning
  PROVE  JobInv'
  <1> USE JobsAssumption DEF JobInv, StatusRunning, UpdateLoopFree, jobVars, envVars
  <1>1. JobTypeOK'
    BY DEF JobTypeOK, FinalStatus, JobStages, CallerPhases, EventKinds
  <1>2. OneJobAtATime'
    BY DEF JobTypeOK, OneJobAtATime, Active, CallerInv
  <1>3. CallerInv'
    BY DEF JobTypeOK, CallerInv
  <1>4. ResultInv'
    BY DEF JobTypeOK, ResultInv, CallerInv, FinalStatus
  <1>5. LastJobInv'
    BY DEF JobTypeOK, LastJobInv, CallerInv, Active
  <1>6. StreamInv'
    BY DEF JobTypeOK, StreamInv, CallerInv
  <1>7. ReportInv'
    BY DEF JobTypeOK, ReportInv, IdleReportIsFinal, CallerInv, LastJobInv, ResultInv, FinalStatus, Active, OneJobAtATime
  <1>8. QED
    BY <1>1, <1>2, <1>3, <1>4, <1>5, <1>6, <1>7

LEMMA StatusSnapshotInv ==
  ASSUME JobInv, StatusSnapshot
  PROVE  JobInv'
  <1> USE JobsAssumption DEF JobInv, StatusSnapshot, jobVars, envVars
  <1>1. JobTypeOK'
    BY DEF JobTypeOK, FinalStatus, JobStages, CallerPhases, EventKinds
  <1>2. OneJobAtATime'
    BY DEF JobTypeOK, OneJobAtATime, Active, CallerInv
  <1>3. CallerInv'
    BY DEF JobTypeOK, CallerInv
  <1>4. ResultInv'
    BY DEF JobTypeOK, ResultInv, CallerInv, FinalStatus
  <1>5. LastJobInv'
    BY DEF JobTypeOK, LastJobInv, CallerInv, Active
  <1>6. StreamInv'
    BY DEF JobTypeOK, StreamInv, CallerInv
  <1>7. ReportInv'
    BY DEF JobTypeOK, ReportInv, IdleReportIsFinal, CallerInv, LastJobInv, ResultInv, FinalStatus, Active, OneJobAtATime
  <1>8. QED
    BY <1>1, <1>2, <1>3, <1>4, <1>5, <1>6, <1>7

LEMMA RunStartInv ==
  ASSUME NEW j \in Jobs, JobInv, RunStart(j)
  PROVE  JobInv'
  <1> USE JobsAssumption DEF JobInv, RunStart, Resolve, loopVars, envVars
  <1>0. /\ stream' \in Seq([job : Jobs, kind : EventKinds])
        /\ \A i \in DOMAIN stream' :
             \/ i \in DOMAIN stream /\ stream'[i] = stream[i]
             \/ stream'[i] = [job |-> j, kind |-> "started"]
    BY PublishAdds DEF EventKinds
  <1>a. stage' \in [Jobs -> JobStages] /\ result' \in [Jobs -> FinalStatus \cup {"none"}]
    BY DEF JobTypeOK, JobStages, FinalStatus
  <1>1. JobTypeOK'
    BY <1>0, <1>a DEF JobTypeOK
  <1>2. OneJobAtATime'
    BY DEF JobTypeOK, OneJobAtATime, Active, CallerInv
  <1>3. CallerInv'
    BY DEF JobTypeOK, CallerInv
  <1>4. ResultInv'
    BY DEF JobTypeOK, ResultInv, CallerInv, FinalStatus
  <1>5. LastJobInv'
    BY DEF JobTypeOK, LastJobInv, CallerInv, Active
  <1>6. StreamInv'
    <2> SUFFICES ASSUME NEW i \in DOMAIN stream', stream'[i].kind = "final"
                 PROVE  stage'[stream'[i].job] \in {"announced", "closed"}
      BY DEF StreamInv
    <2>1. i \in DOMAIN stream /\ stream'[i] = stream[i]
      BY <1>0
    <2>2. /\ stream[i].job \in Jobs
          /\ stage[stream[i].job] \in {"announced", "closed"}
      BY <2>1, StreamJobs DEF StreamInv
    <2>3. QED
      BY <2>1, <2>2 DEF JobTypeOK
  <1>7. ReportInv'
    BY DEF JobTypeOK, ReportInv, IdleReportIsFinal, CallerInv, LastJobInv, ResultInv, FinalStatus, Active, OneJobAtATime
  <1>8. QED
    BY <1>1, <1>2, <1>3, <1>4, <1>5, <1>6, <1>7

LEMMA RunEmitInv ==
  ASSUME NEW j \in Jobs, JobInv, RunEmit(j)
  PROVE  JobInv'
  <1> USE JobsAssumption DEF JobInv, RunEmit, Resolve, loopVars, envVars
  <1>0. /\ stream' \in Seq([job : Jobs, kind : EventKinds])
        /\ \A i \in DOMAIN stream' :
             \/ i \in DOMAIN stream /\ stream'[i] = stream[i]
             \/ stream'[i] = [job |-> j, kind |-> "progress"]
    BY PublishAdds DEF EventKinds
  <1>a. stage' \in [Jobs -> JobStages] /\ result' \in [Jobs -> FinalStatus \cup {"none"}]
    BY DEF JobTypeOK, JobStages, FinalStatus
  <1>b. emitted' \in [Jobs -> 0..MaxEvents]
    BY DEF JobTypeOK
  <1>1. JobTypeOK'
    BY <1>0, <1>a, <1>b DEF JobTypeOK
  <1>2. OneJobAtATime'
    BY DEF JobTypeOK, OneJobAtATime, Active, CallerInv
  <1>3. CallerInv'
    BY DEF JobTypeOK, CallerInv
  <1>4. ResultInv'
    BY DEF JobTypeOK, ResultInv, CallerInv, FinalStatus
  <1>5. LastJobInv'
    BY DEF JobTypeOK, LastJobInv, CallerInv, Active
  <1>6. StreamInv'
    <2> SUFFICES ASSUME NEW i \in DOMAIN stream', stream'[i].kind = "final"
                 PROVE  stage'[stream'[i].job] \in {"announced", "closed"}
      BY DEF StreamInv
    <2>1. i \in DOMAIN stream /\ stream'[i] = stream[i]
      BY <1>0
    <2>2. /\ stream[i].job \in Jobs
          /\ stage[stream[i].job] \in {"announced", "closed"}
      BY <2>1, StreamJobs DEF StreamInv
    <2>3. QED
      BY <2>1, <2>2 DEF JobTypeOK
  <1>7. ReportInv'
    BY DEF JobTypeOK, ReportInv, IdleReportIsFinal, CallerInv, LastJobInv, ResultInv, FinalStatus, Active, OneJobAtATime
  <1>8. QED
    BY <1>1, <1>2, <1>3, <1>4, <1>5, <1>6, <1>7

LEMMA RunEndInv ==
  ASSUME NEW j \in Jobs, JobInv, RunEnd(j)
  PROVE  JobInv'
  <1> USE JobsAssumption DEF JobInv, RunEnd, Resolve, loopVars, envVars
  <1>1. JobTypeOK'
    BY DEF JobTypeOK, FinalStatus, JobStages, CallerPhases, EventKinds
  <1>2. OneJobAtATime'
    BY DEF JobTypeOK, OneJobAtATime, Active, CallerInv
  <1>3. CallerInv'
    BY DEF JobTypeOK, CallerInv
  <1>4. ResultInv'
    BY DEF JobTypeOK, ResultInv, CallerInv, FinalStatus
  <1>5. LastJobInv'
    BY DEF JobTypeOK, LastJobInv, CallerInv, Active
  <1>6. StreamInv'
    BY StreamJobs DEF JobTypeOK, StreamInv, CallerInv
  <1>7. ReportInv'
    BY DEF JobTypeOK, ReportInv, IdleReportIsFinal, CallerInv, LastJobInv, ResultInv, FinalStatus, Active, OneJobAtATime
  <1>8. QED
    BY <1>1, <1>2, <1>3, <1>4, <1>5, <1>6, <1>7

LEMMA FinishRecordInv ==
  ASSUME NEW j \in Jobs, JobInv, FinishRecord(j)
  PROVE  JobInv'
  <1> USE JobsAssumption DEF JobInv, FinishRecord, Registered, loopVars, envVars
  <1>1. JobTypeOK'
    BY DEF JobTypeOK, FinalStatus, JobStages, CallerPhases, EventKinds, ResultInv
  <1>2. OneJobAtATime'
    BY DEF JobTypeOK, OneJobAtATime, Active, CallerInv
  <1>3. CallerInv'
    BY DEF JobTypeOK, CallerInv
  <1>4. ResultInv'
    BY DEF JobTypeOK, ResultInv, CallerInv, FinalStatus
  <1>5. LastJobInv'
    BY DEF JobTypeOK, LastJobInv, CallerInv, Active
  <1>6. StreamInv'
    BY StreamJobs DEF JobTypeOK, StreamInv, CallerInv
  <1>7. ReportInv'
    BY DEF JobTypeOK, ReportInv, IdleReportIsFinal, CallerInv, LastJobInv, ResultInv, FinalStatus, Active, OneJobAtATime
  <1>8. QED
    BY <1>1, <1>2, <1>3, <1>4, <1>5, <1>6, <1>7

LEMMA FinishAnnounceInv ==
  ASSUME NEW j \in Jobs, JobInv, FinishAnnounce(j)
  PROVE  JobInv'
  <1> USE JobsAssumption DEF JobInv, FinishAnnounce, loopVars, envVars
  <1>0. /\ stream' \in Seq([job : Jobs, kind : EventKinds])
        /\ \A i \in DOMAIN stream' :
             \/ i \in DOMAIN stream /\ stream'[i] = stream[i]
             \/ stream'[i] = [job |-> j, kind |-> "final"]
    BY PublishAdds DEF EventKinds
  <1>1. JobTypeOK'
    BY <1>0 DEF JobTypeOK, FinalStatus, JobStages, CallerPhases, EventKinds
  <1>2. OneJobAtATime'
    BY DEF JobTypeOK, OneJobAtATime, Active, CallerInv
  <1>3. CallerInv'
    BY DEF JobTypeOK, CallerInv
  <1>4. ResultInv'
    BY DEF JobTypeOK, ResultInv, CallerInv, FinalStatus
  <1>5. LastJobInv'
    BY DEF JobTypeOK, LastJobInv, CallerInv, Active
  <1>6. StreamInv'
    BY <1>0, StreamJobs DEF JobTypeOK, StreamInv, CallerInv
  <1>7. ReportInv'
    BY DEF JobTypeOK, ReportInv, IdleReportIsFinal, CallerInv, LastJobInv, ResultInv, FinalStatus, Active, OneJobAtATime
  <1>8. QED
    BY <1>1, <1>2, <1>3, <1>4, <1>5, <1>6, <1>7

LEMMA FinishSetIdleInv ==
  ASSUME NEW j \in Jobs, JobInv, FinishSetIdle(j)
  PROVE  JobInv'
  <1> USE JobsAssumption DEF JobInv, FinishSetIdle, envVars
  <1>1. JobTypeOK'
    BY DEF JobTypeOK, FinalStatus, JobStages, CallerPhases, EventKinds
  <1>2. OneJobAtATime'
    BY DEF JobTypeOK, OneJobAtATime, Active, CallerInv
  <1>3. CallerInv'
    BY DEF JobTypeOK, CallerInv
  <1>4. ResultInv'
    BY DEF JobTypeOK, ResultInv, CallerInv, FinalStatus
  <1>5. LastJobInv'
    BY DEF JobTypeOK, LastJobInv, CallerInv, Active
  <1>6. StreamInv'
    BY StreamJobs DEF JobTypeOK, StreamInv, CallerInv
  <1>7. ReportInv'
    BY DEF JobTypeOK, ReportInv, IdleReportIsFinal, CallerInv, LastJobInv, ResultInv, FinalStatus, Active, OneJobAtATime
  <1>8. QED
    BY <1>1, <1>2, <1>3, <1>4, <1>5, <1>6, <1>7

LEMMA CloseLoopInv ==
  ASSUME JobInv, CloseLoop
  PROVE  JobInv'
  <1> USE JobsAssumption DEF JobInv, CloseLoop, UpdateLoopFree, jobVars, loopVars
  <1>1. JobTypeOK'
    BY DEF JobTypeOK, FinalStatus, JobStages, CallerPhases, EventKinds
  <1>2. OneJobAtATime'
    BY DEF JobTypeOK, OneJobAtATime, Active, CallerInv
  <1>3. CallerInv'
    BY DEF JobTypeOK, CallerInv
  <1>4. ResultInv'
    BY DEF JobTypeOK, ResultInv, CallerInv, FinalStatus
  <1>5. LastJobInv'
    BY DEF JobTypeOK, LastJobInv, CallerInv, Active
  <1>6. StreamInv'
    BY DEF JobTypeOK, StreamInv, CallerInv
  <1>7. ReportInv'
    BY DEF JobTypeOK, ReportInv, IdleReportIsFinal, CallerInv, LastJobInv, ResultInv, FinalStatus, Active, OneJobAtATime
  <1>8. QED
    BY <1>1, <1>2, <1>3, <1>4, <1>5, <1>6, <1>7

LEMMA ClosePoolInv ==
  ASSUME JobInv, ClosePool
  PROVE  JobInv'
  <1> USE JobsAssumption DEF JobInv, ClosePool, jobVars, loopVars
  <1>1. JobTypeOK'
    BY DEF JobTypeOK
  <1>2. OneJobAtATime'
    BY DEF JobTypeOK, OneJobAtATime, Active, CallerInv
  <1>3. CallerInv'
    BY DEF JobTypeOK, CallerInv
  <1>4. ResultInv'
    BY DEF JobTypeOK, ResultInv, CallerInv, FinalStatus
  <1>5. LastJobInv'
    BY DEF JobTypeOK, LastJobInv, CallerInv, Active
  <1>6. StreamInv'
    BY DEF JobTypeOK, StreamInv, CallerInv
  <1>7. ReportInv'
    BY DEF JobTypeOK, ReportInv, IdleReportIsFinal, CallerInv, LastJobInv, ResultInv, FinalStatus, Active, OneJobAtATime
  <1>8. QED
    BY <1>1, <1>2, <1>3, <1>4, <1>5, <1>6, <1>7

-----------------------------------------------------------------------------

LEMMA JobNextInv == JobInv /\ [JobNext]_updVars => JobInv'
  <1> SUFFICES ASSUME JobInv, [JobNext]_updVars
               PROVE  JobInv'
    OBVIOUS
  <1>1. CASE \E j \in Jobs : RequestUpdate(j)
    BY <1>1, RequestUpdateInv
  <1>2. CASE StatusRunning
    BY <1>2, StatusRunningInv
  <1>3. CASE HandlerStep
    BY <1>3, StartClaimInv, StartSubmitInv, StartRegisterInv, StatusSnapshotInv
    DEF HandlerStep
  <1>4. CASE \E j \in Jobs : Worker(j)
    BY <1>4, RunStartInv, RunEmitInv, RunEndInv, FinishRecordInv, FinishAnnounceInv,
       FinishSetIdleInv
    DEF Worker
  <1>5. CASE CloseLoop
    BY <1>5, CloseLoopInv
  <1>6. CASE ClosePool
    BY <1>6, ClosePoolInv
  <1>7. CASE UNCHANGED updVars
    BY <1>7 DEF updVars, jobVars, loopVars, envVars, JobInv, JobTypeOK, OneJobAtATime,
       CallerInv, ResultInv, LastJobInv, StreamInv, ReportInv, IdleReportIsFinal
  <1>8. QED
    BY <1>1, <1>2, <1>3, <1>4, <1>5, <1>6, <1>7 DEF JobNext

\* The inductive invariant holds throughout, for any number of requests.
THEOREM JobInvariant == JobSpec => []JobInv
  BY JobInitInv, JobNextInv, PTL DEF JobSpec

\* Every variable of the update jobs keeps its type.
THEOREM JobTypeCorrect == JobSpec => []JobTypeOK
  BY JobInvariant, PTL DEF JobInv

\* `_busy` and `_job` describe the one job that is under way: two updates
\* never run at once, whatever requests arrive and wherever the worker is.
THEOREM OneJobAtATimeCorrect == JobSpec => []OneJobAtATime
  BY JobInvariant, PTL DEF JobInv

\* Whoever has seen a job's final event finds its outcome in the status.
THEOREM AnnouncedMeansRecordedCorrect == JobSpec => []AnnouncedMeansRecorded
  <1>1. JobInv => AnnouncedMeansRecorded
    BY StreamJobs DEF JobInv, StreamInv, ResultInv, AnnouncedMeansRecorded
  <1>2. QED
    BY <1>1, JobInvariant, PTL

\* The two-part status report never shows an idle server with a running job,
\* except one the executor refused.
THEOREM IdleReportIsFinalCorrect == JobSpec => []IdleReportIsFinal
  BY JobInvariant, PTL DEF JobInv, ReportInv

-----------------------------------------------------------------------------
(* The single slot.                                                        *)

LEMMA SlotInit == JobInit => Slot!Init
  BY DEF JobInit, Slot!Init

\* The jobs that gave the slot back.
Ended == {j \in Jobs : stage[j] \in {"closed", "unsubmitted"}}

LEMMA SlotStutter ==
  ASSUME busy' = busy, job' = job, Ended' = Ended
  PROVE  UNCHANGED Slot!slotVars
  BY DEF Slot!slotVars, Ended

\* Clearing `_busy` at the end of the current job's callback, or when its
\* submission fails, gives the slot back.
LEMMA SlotGiveBack ==
  ASSUME JobInv, NEW j \in Jobs, stage[j] \in Active,
         busy' = FALSE, job' = job,
         Ended' = Ended \cup {j}
  PROVE  Slot!GiveBack
  <1>1. busy /\ job = j /\ job # NoJob
    BY JobsAssumption DEF JobInv, OneJobAtATime
  <1>2. QED
    BY <1>1 DEF Slot!GiveBack, Ended

\* Claiming a free run lock takes the slot, clearing it gives the slot back,
\* and every other step leaves the slot alone.
LEMMA SlotNext == JobInv /\ [JobNext]_updVars => [Slot!Next]_(Slot!slotVars)
  <1> SUFFICES ASSUME JobInv, [JobNext]_updVars
               PROVE  Slot!Next \/ UNCHANGED Slot!slotVars
    OBVIOUS
  <1> USE DEF JobInv, JobTypeOK
  <1>1. CASE \E j \in Jobs : RequestUpdate(j)
    BY <1>1, SlotStutter DEF RequestUpdate, jobVars, Ended
  <1>2. CASE StatusRunning
    BY <1>2, SlotStutter DEF StatusRunning, jobVars, Ended
  <1>3. CASE StartClaim
    <2>1. subject \in Jobs /\ stage[subject] = "new"
      BY <1>3 DEF StartClaim, CallerInv
    <2>2. Ended' = Ended
      BY <1>3, <2>1 DEF StartClaim, Ended
    <2>3. CASE busy
      BY <1>3, <2>2, <2>3, SlotStutter DEF StartClaim
    <2>4. CASE ~busy
      <3>1. Slot!Take(subject)
        BY <1>3, <2>1, <2>2, <2>4 DEF StartClaim, Slot!Take, Ended
      <3>2. QED
        BY <2>1, <3>1 DEF Slot!Next
    <2>5. QED
      BY <2>3, <2>4
  <1>4. CASE StartSubmit
    <2>1. subject \in Jobs /\ stage[subject] = "claimed"
      BY <1>4 DEF StartSubmit, CallerInv
    <2>2. CASE poolOpen
      <3>1. Ended' = Ended
        BY <1>4, <2>1, <2>2 DEF StartSubmit, Ended
      <3>2. QED
        BY <1>4, <2>2, <3>1, SlotStutter DEF StartSubmit
    <2>3. CASE ~poolOpen
      <3>1. Ended' = Ended \cup {subject}
        BY <1>4, <2>1, <2>3 DEF StartSubmit, Ended
      <3>2. Slot!GiveBack
        BY <1>4, <2>1, <2>3, <3>1, SlotGiveBack DEF StartSubmit, Active
      <3>3. QED
        BY <3>2 DEF Slot!Next
    <2>4. QED
      BY <2>2, <2>3
  <1>5. CASE StartRegister
    BY <1>5, SlotStutter DEF StartRegister, jobVars, Ended
  <1>6. CASE StatusSnapshot
    BY <1>6, SlotStutter DEF StatusSnapshot, jobVars, Ended
  <1>7. CASE \E j \in Jobs : RunStart(j) \/ RunEmit(j) \/ RunEnd(j)
                             \/ FinishRecord(j) \/ FinishAnnounce(j)
    <2>1. busy' = busy /\ job' = job
      BY <1>7 DEF RunStart, RunEmit, RunEnd, FinishRecord, FinishAnnounce
    <2>2. Ended' = Ended
      BY <1>7 DEF RunStart, RunEmit, RunEnd, FinishRecord, FinishAnnounce, Resolve, Ended
    <2>3. QED
      BY <2>1, <2>2, SlotStutter
  <1>8. ASSUME NEW j \in Jobs, FinishSetIdle(j)
        PROVE  Slot!Next
    <2>1. stage[j] \in Active /\ Ended' = Ended \cup {j}
      BY <1>8 DEF FinishSetIdle, Active, Ended
    <2>2. Slot!GiveBack
      BY <1>8, <2>1, SlotGiveBack DEF FinishSetIdle
    <2>3. QED
      BY <2>2 DEF Slot!Next
  <1>9. CASE CloseLoop \/ ClosePool \/ UNCHANGED updVars
    BY <1>9, SlotStutter DEF CloseLoop, ClosePool, updVars, jobVars, Ended
  <1>10. QED
    BY <1>1, <1>2, <1>3, <1>4, <1>5, <1>6, <1>7, <1>8, <1>9
    DEF JobNext, HandlerStep, Worker

\* The manager behaves as one slot that a job takes and gives back: a second
\* job never takes the place of the one that runs.
THEOREM SlotImplemented == JobSpec => ImplementsJobSlot
  BY SlotInit, SlotNext, JobInvariant, PTL DEF JobSpec, ImplementsJobSlot, Slot!Spec

-----------------------------------------------------------------------------
(* The pipeline and the updates.  A claim protects its run until another   *)
(* run's thread releases it: the history variable `stolen` names the runs  *)
(* this happened to, and every overlap involves one of them.               *)


RunTypeOK ==
  /\ claimed \in BOOLEAN
  /\ lastStatus \in RunOutcome \cup {"idle", "running"}
  /\ runStage \in [Runs -> RunStages]
  /\ launching \in {"idle", "claim", "spawn"}
  /\ launchRun \in Runs \cup {NoRun}
  /\ stolen \in SUBSET Runs

\* Where the event loop stands in a pipeline request: it is in no other
\* handler, and no update was started since it looked.
LaunchInv ==
  launching # "idle" =>
    /\ launchRun \in Runs
    /\ caller = "idle"
    /\ launching = "claim" => runStage[launchRun] = "new" /\ ~busy
    /\ launching = "spawn" => runStage[launchRun] = "claimed"

\* A run under way is covered by the claim unless its claim was given back by
\* another run; past the check of run_update there is no other kind.
CoverInv ==
  \A r \in Runs : runStage[r] \in Holding /\ r \notin stolen =>
    claimed /\ caller # "claim"

OpInv ==
  /\ JobInv
  /\ RunTypeOK
  /\ LaunchInv
  /\ CoverInv
  /\ OverlapNeedsStaleRelease
  /\ ClaimNotLeaked
  /\ RunningStatusIsHonest

-----------------------------------------------------------------------------
(* The steps that leave the update jobs alone, and the ones that leave the *)
(* pipeline alone.                                                         *)

LEMMA JobsUntouched ==
  ASSUME JobInv, UNCHANGED updVars
  PROVE  JobInv'
  BY JobNextInv

\* A refused update request never becomes a job.
LEMMA RefusedJobInv ==
  ASSUME JobInv, NEW j \in Jobs, stage[j] = "new", UpdateLoopFree,
         stage' = [stage EXCEPT ![j] = "refused"],
         UNCHANGED <<busy, job, status, result, emitted, stream, loopVars, envVars>>
  PROVE  JobInv'
  <1> USE DEF JobInv, loopVars, envVars, UpdateLoopFree
  <1>1. JobTypeOK'
    BY DEF JobTypeOK, JobStages
  <1>2. OneJobAtATime'
    BY JobsAssumption DEF JobTypeOK, OneJobAtATime, Active
  <1>3. CallerInv'
    BY DEF CallerInv
  <1>4. ResultInv'
    BY DEF ResultInv, JobTypeOK
  <1>5. LastJobInv'
    BY DEF LastJobInv, JobTypeOK, Active
  <1>6. StreamInv'
    BY StreamJobs DEF StreamInv, JobTypeOK
  <1>7. ReportInv'
    BY DEF ReportInv, IdleReportIsFinal, JobTypeOK
  <1>8. QED
    BY <1>1, <1>2, <1>3, <1>4, <1>5, <1>6, <1>7

\* The jobs that are active after a step of the update side were active
\* before, except the one that `start` claims.
LEMMA ActiveGrowsOnlyByClaim ==
  ASSUME JobInv, [JobNext]_updVars, NEW j \in Jobs,
         stage'[j] \in Active, stage[j] \notin Active
  PROVE  caller = "claim"
  <1>1. ASSUME NEW k \in Jobs, Worker(k) PROVE FALSE
    BY <1>1 DEF Worker, RunStart, RunEmit, RunEnd, FinishRecord, FinishAnnounce,
       FinishSetIdle, Resolve, JobInv, JobTypeOK, Active
  <1>2. ~StartSubmit
    BY DEF StartSubmit, JobInv, JobTypeOK, CallerInv, Active
  <1>3. QED
    BY <1>1, <1>2
    DEF JobNext, HandlerStep, StartClaim, StartRegister, StatusSnapshot, StatusRunning,
        RequestUpdate, CloseLoop, ClosePool, updVars, jobVars

-----------------------------------------------------------------------------

LEMMA OpInitInv == Init => OpInv
  <1> SUFFICES ASSUME Init PROVE OpInv
    OBVIOUS
  <1>1. JobInv
    BY JobInitInv DEF Init
  <1>2. RunTypeOK /\ LaunchInv
    BY DEF Init, RunTypeOK, LaunchInv, RunOutcome, RunStages
  <1>3. CoverInv /\ OverlapNeedsStaleRelease
    BY DEF Init, CoverInv, OverlapNeedsStaleRelease, Holding
  <1>4. ClaimNotLeaked /\ RunningStatusIsHonest
    BY DEF Init, ClaimNotLeaked, RunningStatusIsHonest
  <1>5. QED
    BY <1>1, <1>2, <1>3, <1>4 DEF OpInv

LEMMA PostPipelineInv ==
  ASSUME NEW r \in Runs, OpInv, PostPipeline(r)
  PROVE  OpInv'
  <1> USE RunsAssumption DEF OpInv, PostPipeline, LoopFree, UpdateLoopFree, launchVars, updVars, jobVars, loopVars, envVars
  <1>1. JobInv'
    BY JobsUntouched
  <1>2. RunTypeOK'
    BY DEF RunTypeOK, RunStages, RunOutcome
  <1>3. LaunchInv'
    BY DEF LaunchInv, RunTypeOK
  <1>4. CoverInv'
    BY DEF CoverInv, RunTypeOK, Holding, LaunchInv
  <1>5. OverlapNeedsStaleRelease'
    BY DEF OverlapNeedsStaleRelease, RunTypeOK, Holding, LaunchInv, CoverInv
  <1>6. ClaimNotLeaked'
    BY DEF ClaimNotLeaked, RunTypeOK, Holding, LaunchInv
  <1>7. RunningStatusIsHonest'
    BY DEF RunningStatusIsHonest, RunTypeOK, LaunchInv
  <1>8. QED
    BY <1>1, <1>2, <1>3, <1>4, <1>5, <1>6, <1>7

LEMMA TryClaimInv ==
  ASSUME OpInv, TryClaim
  PROVE  OpInv'
  <1> USE RunsAssumption DEF OpInv, TryClaim, updVars, jobVars, loopVars, envVars
  <1>1. JobInv'
    BY JobsUntouched
  <1>2. RunTypeOK'
    BY DEF RunTypeOK, RunStages, RunOutcome
  <1>3. LaunchInv'
    BY DEF LaunchInv, RunTypeOK
  <1>4. CoverInv'
    BY DEF CoverInv, RunTypeOK, Holding, LaunchInv
  <1>5. OverlapNeedsStaleRelease'
    BY DEF OverlapNeedsStaleRelease, RunTypeOK, Holding, LaunchInv, CoverInv, JobInv, OneJobAtATime
  <1>6. ClaimNotLeaked'
    BY DEF ClaimNotLeaked, RunTypeOK, Holding, LaunchInv
  <1>7. RunningStatusIsHonest'
    BY DEF RunningStatusIsHonest, RunTypeOK, LaunchInv
  <1>8. QED
    BY <1>1, <1>2, <1>3, <1>4, <1>5, <1>6, <1>7

LEMMA SpawnThreadInv ==
  ASSUME OpInv, SpawnThread
  PROVE  OpInv'
  <1> USE RunsAssumption DEF OpInv, SpawnThread, updVars, jobVars, loopVars, envVars
  <1>1. JobInv'
    BY JobsUntouched
  <1>2. RunTypeOK'
    BY DEF RunTypeOK, RunStages, RunOutcome
  <1>3. LaunchInv'
    BY DEF LaunchInv, RunTypeOK
  <1>4. CoverInv'
    BY DEF CoverInv, RunTypeOK, Holding, LaunchInv
  <1>5. OverlapNeedsStaleRelease'
    BY DEF OverlapNeedsStaleRelease, RunTypeOK, Holding, LaunchInv, CoverInv
  <1>6. ClaimNotLeaked'
    BY DEF ClaimNotLeaked, RunTypeOK, Holding, LaunchInv
  <1>7. RunningStatusIsHonest'
    BY DEF RunningStatusIsHonest, RunTypeOK, LaunchInv
  <1>8. QED
    BY <1>1, <1>2, <1>3, <1>4, <1>5, <1>6, <1>7

LEMMA GeneratorStartInv ==
  ASSUME NEW r \in Runs, OpInv, GeneratorStart(r)
  PROVE  OpInv'
  <1> USE RunsAssumption DEF OpInv, GeneratorStart, launchVars, updVars, jobVars, loopVars, envVars
  <1>1. JobInv'
    BY JobsUntouched
  <1>2. RunTypeOK'
    BY DEF RunTypeOK, RunStages, RunOutcome
  <1>3. LaunchInv'
    BY DEF LaunchInv, RunTypeOK
  <1>4. CoverInv'
    BY DEF CoverInv, RunTypeOK, Holding, LaunchInv
  <1>5. OverlapNeedsStaleRelease'
    BY DEF OverlapNeedsStaleRelease, RunTypeOK, Holding, LaunchInv, CoverInv
  <1>6. ClaimNotLeaked'
    BY DEF ClaimNotLeaked, RunTypeOK, Holding, LaunchInv
  <1>7. RunningStatusIsHonest'
    BY DEF RunningStatusIsHonest, RunTypeOK, LaunchInv
  <1>8. QED
    BY <1>1, <1>2, <1>3, <1>4, <1>5, <1>6, <1>7

LEMMA StepsDoneInv ==
  ASSUME NEW r \in Runs, OpInv, StepsDone(r)
  PROVE  OpInv'
  <1> USE RunsAssumption DEF OpInv, StepsDone, launchVars, updVars, jobVars, loopVars, envVars
  <1>1. JobInv'
    BY JobsUntouched
  <1>2. RunTypeOK'
    BY DEF RunTypeOK, RunStages, RunOutcome
  <1>3. LaunchInv'
    BY DEF LaunchInv, RunTypeOK
  <1>4. CoverInv'
    BY DEF CoverInv, RunTypeOK, Holding, LaunchInv
  <1>5. OverlapNeedsStaleRelease'
    BY DEF OverlapNeedsStaleRelease, RunTypeOK, Holding, LaunchInv, CoverInv
  <1>6. ClaimNotLeaked'
    BY DEF ClaimNotLeaked, RunTypeOK, Holding, LaunchInv
  <1>7. RunningStatusIsHonest'
    BY DEF RunningStatusIsHonest, RunTypeOK, LaunchInv
  <1>8. QED
    BY <1>1, <1>2, <1>3, <1>4, <1>5, <1>6, <1>7

LEMMA StepFailsInv ==
  ASSUME NEW r \in Runs, OpInv, StepFails(r)
  PROVE  OpInv'
  <1> USE RunsAssumption DEF OpInv, StepFails, launchVars, updVars, jobVars, loopVars, envVars
  <1>1. JobInv'
    BY JobsUntouched
  <1>2. RunTypeOK'
    BY DEF RunTypeOK, RunStages, RunOutcome
  <1>3. LaunchInv'
    BY DEF LaunchInv, RunTypeOK
  <1>4. CoverInv'
    BY DEF CoverInv, RunTypeOK, Holding, LaunchInv
  <1>5. OverlapNeedsStaleRelease'
    BY DEF OverlapNeedsStaleRelease, RunTypeOK, Holding, LaunchInv, CoverInv
  <1>6. ClaimNotLeaked'
    BY DEF ClaimNotLeaked, RunTypeOK, Holding, LaunchInv
  <1>7. RunningStatusIsHonest'
    BY DEF RunningStatusIsHonest, RunTypeOK, LaunchInv
  <1>8. QED
    BY <1>1, <1>2, <1>3, <1>4, <1>5, <1>6, <1>7

LEMMA DropGeneratorInv ==
  ASSUME NEW r \in Runs, OpInv, DropGenerator(r)
  PROVE  OpInv'
  <1> USE RunsAssumption DEF OpInv, DropGenerator, launchVars, updVars, jobVars, loopVars, envVars
  <1>1. JobInv'
    BY JobsUntouched
  <1>2. RunTypeOK'
    BY DEF RunTypeOK, RunStages, RunOutcome
  <1>3. LaunchInv'
    BY DEF LaunchInv, RunTypeOK
  <1>4. CoverInv'
    BY DEF CoverInv, RunTypeOK, Holding, LaunchInv
  <1>5. OverlapNeedsStaleRelease'
    BY DEF OverlapNeedsStaleRelease, RunTypeOK, Holding, LaunchInv, CoverInv
  <1>6. ClaimNotLeaked'
    BY DEF ClaimNotLeaked, RunTypeOK, Holding, LaunchInv
  <1>7. RunningStatusIsHonest'
    BY DEF RunningStatusIsHonest, RunTypeOK, LaunchInv
  <1>8. QED
    BY <1>1, <1>2, <1>3, <1>4, <1>5, <1>6, <1>7

LEMMA GeneratorReleaseInv ==
  ASSUME NEW r \in Runs, OpInv, GeneratorRelease(r)
  PROVE  OpInv'
  <1> USE RunsAssumption DEF OpInv, GeneratorRelease, Release, launchVars, updVars, jobVars, loopVars, envVars
  <1>1. JobInv'
    BY JobsUntouched
  <1>2. RunTypeOK'
    BY DEF RunTypeOK, RunStages, RunOutcome
  <1>3. LaunchInv'
    BY DEF LaunchInv, RunTypeOK
  <1>4. CoverInv'
    BY DEF CoverInv, RunTypeOK, Holding, LaunchInv
  <1>5. OverlapNeedsStaleRelease'
    BY DEF OverlapNeedsStaleRelease, RunTypeOK, Holding, LaunchInv, CoverInv
  <1>6. ClaimNotLeaked'
    BY DEF ClaimNotLeaked, RunTypeOK, Holding, LaunchInv
  <1>7. RunningStatusIsHonest'
    BY DEF RunningStatusIsHonest, RunTypeOK, LaunchInv
  <1>8. QED
    BY <1>1, <1>2, <1>3, <1>4, <1>5, <1>6, <1>7

LEMMA WorkerReleaseInv ==
  ASSUME NEW r \in Runs, OpInv, WorkerRelease(r)
  PROVE  OpInv'
  <1> USE RunsAssumption DEF OpInv, WorkerRelease, Release, launchVars, updVars, jobVars, loopVars, envVars
  <1>1. JobInv'
    BY JobsUntouched
  <1>2. RunTypeOK'
    BY DEF RunTypeOK, RunStages, RunOutcome
  <1>3. LaunchInv'
    BY DEF LaunchInv, RunTypeOK
  <1>4. CoverInv'
    BY DEF CoverInv, RunTypeOK, Holding, LaunchInv
  <1>5. OverlapNeedsStaleRelease'
    BY DEF OverlapNeedsStaleRelease, RunTypeOK, Holding, LaunchInv, CoverInv
  <1>6. ClaimNotLeaked'
    BY DEF ClaimNotLeaked, RunTypeOK, Holding, LaunchInv
  <1>7. RunningStatusIsHonest'
    BY DEF RunningStatusIsHonest, RunTypeOK, LaunchInv
  <1>8. QED
    BY <1>1, <1>2, <1>3, <1>4, <1>5, <1>6, <1>7

\* The check of run_update: past it every run under way has lost its claim to
\* another run, so the job about to be claimed overlaps no other kind.
LEMMA PostUpdateInv ==
  ASSUME NEW j \in Jobs, OpInv, PostUpdate(j)
  PROVE  OpInv'
  <1> USE DEF OpInv, PostUpdate, LoopFree, runVars, launchVars
  <1>1. JobInv'
    <2>1. CASE RequestUpdate(j)
      BY <2>1, RequestUpdateInv
    <2>2. CASE ~RequestUpdate(j)
      BY <2>2, RefusedJobInv
    <2>3. QED
      BY <2>1, <2>2
  <1>2. RunTypeOK' /\ LaunchInv'
    BY DEF RunTypeOK, LaunchInv
  <1>3. CoverInv'
    BY DEF CoverInv, UpdateLoopFree, loopVars
  <1>4. OverlapNeedsStaleRelease'
    BY DEF OverlapNeedsStaleRelease, RequestUpdate, jobVars, Active, JobInv, JobTypeOK
  <1>5. ClaimNotLeaked'
    BY DEF ClaimNotLeaked
  <1>6. RunningStatusIsHonest'
    BY DEF RunningStatusIsHonest, RequestUpdate, envVars
  <1>7. QED
    BY <1>1, <1>2, <1>3, <1>4, <1>5, <1>6

\* Only the claim of `start` makes a job active, and that needs a caller that
\* passed run_update's check.
LEMMA UpdateStepInv ==
  ASSUME OpInv, UpdateStep
  PROVE  OpInv'
  <1> USE DEF OpInv, runVars, launchVars
  <1>0. JobNext /\ UNCHANGED <<runVars, launchVars>>
    BY DEF UpdateStep, JobNext
  <1>1. JobInv'
    BY <1>0, JobNextInv
  <1>2. RunTypeOK'
    BY <1>0 DEF RunTypeOK
  <1>3. /\ caller = "idle" => caller' = "idle"
        /\ ~busy /\ caller = "idle" => ~busy'
        /\ caller' = "claim" => caller = "claim"
        /\ loopOpen' => loopOpen
    BY DEF UpdateStep, HandlerStep, StartClaim, StartSubmit, StartRegister,
       StatusSnapshot, Worker, RunStart, RunEmit, RunEnd, FinishRecord,
       FinishAnnounce, FinishSetIdle, CloseLoop, jobVars, loopVars, envVars
  <1>4. LaunchInv'
    BY <1>0, <1>3 DEF LaunchInv
  <1>5. CoverInv'
    BY <1>0, <1>3 DEF CoverInv
  <1>6. OverlapNeedsStaleRelease'
    BY <1>0, ActiveGrowsOnlyByClaim DEF OverlapNeedsStaleRelease, CoverInv
  <1>7. ClaimNotLeaked' /\ RunningStatusIsHonest'
    BY <1>0, <1>3 DEF ClaimNotLeaked, RunningStatusIsHonest
  <1>8. QED
    BY <1>1, <1>2, <1>4, <1>5, <1>6, <1>7

LEMMA OpNextInv == OpInv /\ [Next]_opVars => OpInv'
  <1> SUFFICES ASSUME OpInv, [Next]_opVars PROVE OpInv'
    OBVIOUS
  <1>1. CASE UNCHANGED opVars
    <2>1. JobInv'
      BY <1>1, JobsUntouched DEF OpInv, opVars
    <2>2. QED
      BY <1>1, <2>1
      DEF OpInv, opVars, runVars, launchVars, updVars, jobVars, loopVars, envVars,
          RunTypeOK, LaunchInv, CoverInv, OverlapNeedsStaleRelease, ClaimNotLeaked,
          RunningStatusIsHonest
  <1>2. ASSUME NEW j \in Jobs, PostUpdate(j) PROVE OpInv'
    BY <1>2, PostUpdateInv
  <1>3. ASSUME NEW r \in Runs, PostPipeline(r) PROVE OpInv'
    BY <1>3, PostPipelineInv
  <1>4. ASSUME NEW r \in Runs, PipelineThread(r) PROVE OpInv'
    BY <1>4, GeneratorStartInv, StepsDoneInv, StepFailsInv, DropGeneratorInv,
       GeneratorReleaseInv, WorkerReleaseInv DEF PipelineThread
  <1>5. CASE LaunchStep
    BY <1>5, TryClaimInv, SpawnThreadInv DEF LaunchStep
  <1>6. CASE UpdateStep
    BY <1>6, UpdateStepInv
  <1>7. QED
    BY <1>1, <1>2, <1>3, <1>4, <1>5, <1>6 DEF Next

-----------------------------------------------------------------------------
(* The theorems.                                                           *)

\* The inductive invariant holds of every behaviour, with no fairness.
THEOREM OperationInvariant == Spec => []OpInv
  BY OpInitInv, OpNextInv, PTL DEF Spec

\* Type correctness of handlers, pipeline threads and update jobs.
THEOREM OperationTypeCorrect == Spec => []TypeOK
  <1>1. OpInv => TypeOK
    BY DEF OpInv, JobInv, RunTypeOK, TypeOK
  <1>2. QED
    BY <1>1, OperationInvariant, PTL

\* No two operations are under way together unless a run's second release
\* gave another run's claim back: the checks of the handlers, `_claim_pipeline`
\* and run_update, leave no other way.
THEOREM OverlapNeedsStaleReleaseCorrect == Spec => []OverlapNeedsStaleRelease
  BY OperationInvariant, PTL DEF OpInv

\* A run under way is covered by is_running until another run's thread gives
\* its claim back, from try_claim to the generator's `finally`.
THEOREM RunIsCoveredCorrect == Spec => []RunIsCovered
  <1>1. OpInv => RunIsCovered
    BY DEF OpInv, CoverInv, RunIsCovered
  <1>2. QED
    BY <1>1, OperationInvariant, PTL

\* The claim is held for a run that is under way or could not get a thread: no
\* refused request and no failed or dropped generator leaves it taken.
THEOREM ClaimNotLeakedCorrect == Spec => []ClaimNotLeaked
  BY OperationInvariant, PTL DEF OpInv

\* last_status says "running" only while some generator is inside its steps,
\* as long as the event loop can be handed events.
THEOREM RunningStatusIsHonestCorrect == Spec => []RunningStatusIsHonest
  BY OperationInvariant, PTL DEF OpInv
=============================================================================
