------------------------ MODULE SidecarServicesProofs ------------------------
(***************************************************************************)
(* What start and stop calls may rely on, for any number of executor       *)
(* threads, processes and calls.  The invariant says what a call knows of  *)
(* the processes at each of its stages as long as nothing crossed it:      *)
(* which process of the service may live, where its PID is written down,   *)
(* and that a process that is still coming up has a launch that waits for  *)
(* it.                                                                     *)
(***************************************************************************)
EXTENDS SidecarServices, FiniteSetTheorems, TLAPS

Awaiting == {"await", "poll"}

\* The stages of a stop, those that come after each of its PID files, those where
\* it is about to kill, and the first stages of the calls.
Stopping == {"read server.pid", "kill server.pid", "unlink server.pid"} \cup
            {"read pid", "kill pid", "unlink pid", "holder", "kill holder"}
Killing  == {"kill server.pid", "kill pid"}
First    == {"health", "read server.pid"}
Later    == {"read pid", "kill pid", "unlink pid", "holder", "kill holder"}
Last     == {"holder", "kill holder"}

\* A thread without a call remembers none; only a launch that waits has a
\* process of its own, which is a process of the service; a stop kills a PID it
\* has seen.
Sound(c) ==
  /\ c.at \in Killing => c.seen # NoPid
  /\ c.at = "idle" => c = Idle
  /\ c.mine # NoPid => c.at \in Awaiting /\ c.mine \in Services

\* What a launch knows: the only process of the service is its own.
Lone(c) ==
  /\ c.at \in Awaiting => Services \subseteq {c.mine}
  /\ c.at = "spawn" => Services = {}

\* What a stop knows: it kills what the file names, or processes with a socket of
\* the port's number, what is left of the service among them; the files it is
\* done with are gone, and once a file led to a hit, no service is left.
Trail(c) ==
  /\ \A f \in Files : c.at = KillAt[f] => c.seen = file[f] /\ file[f] # NoPid
  /\ c.at \in Later => file["server.pid"] = NoPid
  /\ c.at \in Last => file["pid"] = NoPid
  /\ c.at = "kill holder" => /\ Services \subseteq c.left
                              /\ \A p \in c.left : p = port \/ state[p] = "sharing"
  /\ c.at \in Stopping \ {"kill holder"} /\ c.hit => Services = {}

Clear == ~crossed /\ ~usurped

CallInv == \A t \in Threads : Sound(call[t])

\* Only the holder of the port has bound it, and no PID is in both files.
WorldInv ==
  /\ \A p \in Pids : state[p] \in {"bound", "serving"} => port = p
  /\ file["pid"] # NoPid => file["server.pid"] # file["pid"]

\* Calls that did not cross come one after the other.
OneCall ==
  ~crossed => /\ \A t, u \in Active : t = u
              /\ Active # {} => answer = "none"

\* Until something crosses or another program answers for the service, there is
\* at most one process of it, and one that is coming up has a launch that waits
\* for it.
LoneInv ==
  Clear => /\ \A p, q \in Services : p = q
           /\ \A p \in Pids : state[p] = "booting" => \E t \in Threads : call[t].mine = p
           /\ \A t \in Threads : Lone(call[t])
           /\ ~wrongPid

\* A file names a process of the service, or a stop is about to remove it.
Named(f) == file[f] \in Services \cup {NoPid} \/ \E t \in Threads : call[t].at = UnlinkAt[f]

TrailInv ==
  Clear /\ ~broken => /\ \A f \in Files : Named(f)
                      /\ \A t \in Threads : Trail(call[t])
                      /\ answer \in {"stopped", "not_running"} => Services = {}
                      /\ "stranger" \notin innocent

ServiceInv == ServiceTypeOK /\ CallInv /\ WorldInv /\ OneCall /\ LoneInv /\ TrailInv

-----------------------------------------------------------------------------
(* The names of the stages.                                                 *)

USE DEF States, Holding

LEMMA StageNames ==
  /\ Files = {"server.pid", "pid"} /\ "pid" # "server.pid"
  /\ ReadAt["server.pid"] = "read server.pid" /\ ReadAt["pid"] = "read pid"
  /\ KillAt["server.pid"] = "kill server.pid" /\ KillAt["pid"] = "kill pid"
  /\ UnlinkAt["server.pid"] = "unlink server.pid" /\ UnlinkAt["pid"] = "unlink pid"
  BY DEF Files, ReadAt, KillAt, UnlinkAt

LEMMA StagesAre ==
  Stages = {"idle", "health", "port", "spawn", "await", "poll"} \cup Stopping
  BY StageNames, ZenonT(60) DEF Stages, Stopping

LEMMA LiveIsSome == \A p \in Pids : p # NoPid
  BY DEF Pids, NoPid

LEMMA IdleIsCall == Idle \in Calls
  BY StagesAre DEF Idle, Calls

\* A step of one call that leaves the processes, the port and the files alone:
\* the invariant holds if the call that goes on knows what it has to.
LEMMA CallMoves ==
  ASSUME ServiceInv, NEW t \in Threads, NEW c \in Calls,
         call' = [call EXCEPT ![t] = c], UNCHANGED <<state, port, file, kin, ending, innocent>>,
         up', calls' \in 0..MaxCalls, {crossed', broken', usurped', wrongPid'} \subseteq BOOLEAN,
         answer' \in {"none", "already_running", "starting", "started", "error",
                      "stopped", "not_running"},
         crossed => crossed', usurped => usurped', broken => broken',
         Sound(c),
         ~crossed' => (\A u \in Active : u = t) /\ (c.at # "idle" => answer' = "none"),
         Clear' => (call[t].mine # c.mine => \A p \in Pids : state[p] # "booting")
                   /\ Lone(c) /\ ~wrongPid',
         Clear' /\ ~broken' =>
           /\ \A f \in Files : call[t].at = UnlinkAt[f] => c.at = UnlinkAt[f]
           /\ Trail(c)
           /\ answer' \in {"stopped", "not_running"} => Services = {}
  PROVE  ServiceInv'
  <1> USE DEF ServiceInv
  <1>1. /\ call \in [Threads -> Calls] /\ call' \in [Threads -> Calls]
        /\ call'[t] = c /\ \A u \in Threads \ {t} : call'[u] = call[u]
    BY DEF ServiceTypeOK
  <1>2. Services' = Services
    BY DEF Services
  <1>3. ServiceTypeOK'
    BY <1>1, <1>2 DEF ServiceTypeOK
  <1>4. CallInv' /\ WorldInv'
    BY <1>1, <1>2 DEF CallInv, WorldInv, Sound
  <1>5. OneCall'
    BY <1>1 DEF OneCall, Active
  <1>6. ASSUME Clear' PROVE Clear /\ (~broken' => ~broken)
    BY <1>6 DEF Clear, ServiceTypeOK
  <1>7. LoneInv'
    <2> SUFFICES ASSUME Clear'
                 PROVE  /\ \A p \in Pids : state[p] = "booting" => \E u \in Threads : call'[u].mine = p
                        /\ \A u \in Threads : Lone(call'[u])
      BY <1>2, <1>6 DEF LoneInv, Lone
    <2>1. ASSUME NEW p \in Pids, state[p] = "booting" PROVE \E u \in Threads : call'[u].mine = p
      BY <2>1, <1>1, <1>6 DEF LoneInv
    <2>2. ASSUME NEW u \in Threads PROVE Lone(call'[u])
      BY <1>1, <1>6 DEF LoneInv
    <2>3. QED
      BY <2>1, <2>2
  <1>8. TrailInv'
    <2> SUFFICES ASSUME Clear', ~broken'
                 PROVE  /\ \A f \in Files : Named(f)'
                        /\ \A u \in Threads : Trail(call[u])'
      BY <1>2, <1>6 DEF TrailInv
    <2>1. TrailInv /\ Clear /\ ~broken
      BY <1>6
    <2>2. ASSUME NEW f \in Files PROVE Named(f)'
      <3>1. Named(f)
        BY <2>1 DEF TrailInv
      <3>2. CASE file[f] \in Services \cup {NoPid}
        BY <3>2, <1>2 DEF Named
      <3>3. ASSUME NEW u \in Threads, call[u].at = UnlinkAt[f] PROVE call'[u].at = UnlinkAt[f]
        BY <3>3, <1>1
      <3>4. QED
        BY <3>1, <3>2, <3>3 DEF Named
    <2>3. ASSUME NEW u \in Threads PROVE Trail(call[u])'
      <3>1. Trail(call'[u])
        BY <2>1, <1>1 DEF TrailInv
      <3>2. QED
        BY <3>1, <1>2 DEF Trail
    <2>4. QED
      BY <2>2, <2>3
  <1>9. QED
    BY <1>3, <1>4, <1>5, <1>7, <1>8

-----------------------------------------------------------------------------
(* The beginning.                                                           *)

LEMMA AtMostOneServing ==
  ASSUME NEW p \in Pids \cup {NoPid},
         state = [q \in Pids |-> IF q = p THEN "serving" ELSE "free"]
  PROVE  Services = {p} \ {NoPid}
  BY DEF Services, Pids, NoPid

LEMMA ServiceInit == Init => ServiceInv
  <1> SUFFICES ASSUME Init PROVE ServiceInv
    OBVIOUS
  <1> USE ServiceAssumption
  <1>1. PICK p \in Pids \cup {NoPid} :
          /\ state = [q \in Pids |-> IF q = p THEN "serving" ELSE "free"] /\ port = p
          /\ kin \in {{}, {p} \ {NoPid}}
          /\ file \in {[f \in Files |-> IF f \in with THEN p ELSE NoPid] :
                        with \in {{}, {"server.pid"}, {"pid"}}}
    BY DEF Init
  <1>2. /\ up = TRUE /\ ending = "no" /\ answer = "none" /\ calls = 0
        /\ call = [t \in Threads |-> Idle]
        /\ ~crossed /\ ~broken /\ ~usurped /\ ~wrongPid /\ "stranger" \notin innocent
        /\ {crossed, broken, usurped, wrongPid} \subseteq BOOLEAN /\ innocent \subseteq Kinds
    BY DEF Init
  <1>3. Services = {p} \ {NoPid}
    BY <1>1, AtMostOneServing
  <1>4. Active = {} /\ \A t \in Threads : call[t].at = "idle" /\ call[t].mine = NoPid
    BY <1>2 DEF Active, Idle
  <1>5. file \in [Files -> {p, NoPid}] /\ (file["pid"] # NoPid => file["server.pid"] = NoPid)
    <2>1. PICK with \in {{}, {"server.pid"}, {"pid"}} :
            file = [f \in Files |-> IF f \in with THEN p ELSE NoPid]
      BY <1>1
    <2>2. QED
      BY <2>1, StageNames
  <1>6. ServiceTypeOK
    <2>1. state \in [Pids -> States]
      BY <1>1
    <2>2. port \in {q \in Pids : state[q] \in Holding} \cup {NoPid}
      BY <1>1 DEF NoPid
    <2>3. file \in [Files -> Pids \cup {NoPid}]
      BY <1>5
    <2>4. kin \subseteq Services
      BY <1>1, <1>3
    <2>5. QED
      BY <1>2, <1>4, <2>1, <2>2, <2>3, <2>4, IdleIsCall DEF ServiceTypeOK
  <1>7. CallInv /\ OneCall
    BY <1>2, <1>4 DEF CallInv, Sound, OneCall, Killing
  <1>8. WorldInv
    BY <1>1, <1>5 DEF WorldInv
  <1>9. LoneInv
    BY <1>1, <1>2, <1>3, <1>4 DEF LoneInv, Lone, Awaiting
  <1>10. TrailInv
    <2>1. \A f \in Files : Named(f)
      BY <1>3, <1>5 DEF Named
    <2>2. \A t \in Threads : Trail(call[t])
      BY <1>4, StageNames DEF Trail, Later, Last, Stopping
    <2>3. QED
      BY <1>2, <2>1, <2>2 DEF TrailInv
  <1>11. QED
    BY <1>6, <1>7, <1>8, <1>9, <1>10 DEF ServiceInv

-----------------------------------------------------------------------------
(* The steps of a start.                                                    *)

\* While nothing has crossed, the call of t is the only one.
LEMMA Alone ==
  ASSUME ServiceInv, NEW t \in Threads, call[t].at # "idle"
  PROVE  /\ t \in Active /\ up
         /\ ~crossed => (\A u \in Active : u = t) /\ answer = "none"
         /\ ~crossed => \A u \in Threads \ {t} : call[u] = Idle
  <1>1. t \in Active
    BY DEF Active
  <1>2. QED
    BY <1>1 DEF ServiceInv, ServiceTypeOK, OneCall, CallInv, Sound, Active

\* While nothing has crossed, no process is coming up but that of a launch that
\* waits.
LEMMA NoneBooting ==
  ASSUME ServiceInv, Clear, NEW t \in Threads, call[t].at # "idle", call[t].at \notin Awaiting
  PROVE  \A p \in Pids : state[p] # "booting"
  <1> SUFFICES ASSUME NEW p \in Pids, state[p] = "booting" PROVE FALSE
    OBVIOUS
  <1>1. PICK u \in Threads : call[u].mine = p
    BY DEF ServiceInv, LoneInv
  <1>2. p # NoPid
    BY DEF Pids, NoPid
  <1>3. u = t
    BY <1>1, <1>2, Alone DEF Clear, Idle
  <1>4. QED
    BY <1>1, <1>2, <1>3 DEF ServiceInv, CallInv, Sound

\* ... so without anything on the port no process of the service is left.
LEMMA NoneLeft ==
  ASSUME ServiceInv, Clear, NEW t \in Threads, call[t].at # "idle", call[t].at \notin Awaiting,
         port = NoPid
  PROVE  Services = {}
  <1>1. \A p \in Pids : p # NoPid
    BY DEF Pids, NoPid
  <1>2. QED
    BY <1>1, NoneBooting DEF ServiceInv, WorldInv, Services

\* A call that goes on to another stage.
LEMMA GotoCall ==
  ASSUME ServiceInv, NEW t \in Threads, NEW stage \in Stages,
         call' = [call EXCEPT ![t].at = stage]
  PROVE  \E c \in Calls :
           /\ call' = [call EXCEPT ![t] = c] /\ c.at = stage
           /\ c.mine = call[t].mine /\ c.seen = call[t].seen /\ c.hit = call[t].hit
  <1>1. call \in [Threads -> Calls] /\ call[t] \in Calls
    BY DEF ServiceInv, ServiceTypeOK
  <1>2. PICK c : c = [call[t] EXCEPT !.at = stage]
    OBVIOUS
  <1>3. c \in Calls
    BY <1>1, <1>2 DEF Calls
  <1>4. call' = [call EXCEPT ![t] = c]
    BY <1>1, <1>2
  <1>5. c.at = stage /\ c.mine = call[t].mine /\ c.seen = call[t].seen /\ c.hit = call[t].hit
    BY <1>1, <1>2 DEF Calls
  <1>6. QED
    BY <1>3, <1>4, <1>5

LEMMA HistoryTypes ==
  ASSUME ServiceInv
  PROVE  /\ {crossed, broken, usurped, wrongPid} \subseteq BOOLEAN /\ innocent \subseteq Kinds
         /\ calls \in 0..MaxCalls
         /\ answer \in {"none", "already_running", "starting", "started", "error",
                        "stopped", "not_running"}
         /\ call \in [Threads -> Calls]
  BY Zenon DEF ServiceInv, ServiceTypeOK

LEMMA BeginKeeps ==
  ASSUME ServiceInv, NEW t \in Threads, NEW stage \in First, Begin(t, stage)
  PROVE  ServiceInv'
  <1>1. stage \in Stages
    BY StagesAre DEF Stopping, First
  <1>2. call[t] = Idle
    BY DEF ServiceInv, CallInv, Sound, Begin, Active
  <1>3. call[t].at = "idle" /\ call[t].mine = NoPid /\ call[t].hit = FALSE
    BY <1>2 DEF Idle
  <1>4. PICK c \in Calls :
          /\ call' = [call EXCEPT ![t] = c] /\ c.at = stage
          /\ c.mine = call[t].mine /\ c.seen = call[t].seen /\ c.hit = call[t].hit
    BY <1>1, GotoCall DEF Begin
  <1>5. Sound(c) /\ Lone(c)
    BY <1>3, <1>4 DEF Sound, Lone, Awaiting, First, Killing
  <1>6. Trail(c)
    BY <1>3, <1>4, StageNames DEF Trail, Later, Last, First
  <1>7. \A f \in Files : call[t].at # UnlinkAt[f]
    BY <1>3, StageNames
  <1>8. /\ UNCHANGED <<state, port, file, kin, up, ending, broken, usurped, wrongPid, innocent>>
        /\ up /\ answer' = "none" /\ calls' = calls + 1 /\ calls < MaxCalls
        /\ crossed' = (crossed \/ Active # {})
    BY DEF Begin, world, server
  <1>9. calls' \in 0..MaxCalls
    BY <1>8, HistoryTypes, ServiceAssumption
  <1>10. Clear' => Clear /\ ~wrongPid'
    BY <1>8 DEF Clear, ServiceInv, LoneInv
  <1>11. {crossed', broken', usurped', wrongPid'} \subseteq BOOLEAN
    BY <1>8, HistoryTypes
  <1>12. QED
    BY <1>3, <1>4, <1>5, <1>6, <1>7, <1>8, <1>9, <1>10, <1>11, CallMoves

\* A call that goes on while everything else stays as it is.
LEMMA GotoKeeps ==
  ASSUME ServiceInv, NEW t \in Threads, call[t].at # "idle",
         NEW stage \in Stages, stage # "idle", Goto(t, stage),
         UNCHANGED <<world, server, calls, crossed, usurped, wrongPid, innocent>>,
         broken' \in BOOLEAN, broken => broken',
         call[t].mine # NoPid => stage \in Awaiting, stage \notin Killing,
         Clear => /\ stage \in Awaiting => Services \subseteq {call[t].mine}
                  /\ stage = "spawn" => Services = {},
         Clear /\ ~broken' => /\ \A f \in Files : call[t].at # UnlinkAt[f] /\ stage # KillAt[f]
                              /\ stage # "kill holder"
                              /\ stage \in Later => file["server.pid"] = NoPid
                              /\ stage \in Last => file["pid"] = NoPid
                              /\ stage \in Stopping /\ call[t].hit => Services = {}
  PROVE  ServiceInv'
  <1>1. PICK c \in Calls :
          /\ call' = [call EXCEPT ![t] = c] /\ c.at = stage
          /\ c.mine = call[t].mine /\ c.seen = call[t].seen /\ c.hit = call[t].hit
    BY GotoCall DEF Goto
  <1>2. Sound(c)
    BY <1>1 DEF ServiceInv, CallInv, Sound
  <1>3. Clear => Lone(c) /\ ~wrongPid
    BY <1>1 DEF Lone, ServiceInv, LoneInv
  <1>4. Clear /\ ~broken' => Trail(c)
    BY <1>1 DEF Trail
  <1>5. QED
    BY <1>1, <1>2, <1>3, <1>4, CallMoves, Alone, HistoryTypes, ZenonT(60) DEF Goto, world, server, Clear

\* A call that answers while the processes, the port and the files stay.
LEMMA AnswerKeeps ==
  ASSUME ServiceInv, NEW t \in Threads, call[t].at # "idle",
         NEW a \in {"already_running", "starting", "started", "error", "stopped", "not_running"},
         Answer(t, a), UNCHANGED <<world, server, calls, innocent>>,
         {crossed', broken', usurped', wrongPid'} \subseteq BOOLEAN,
         crossed => crossed', usurped => usurped', broken => broken',
         Clear' => (call[t].mine # NoPid => \A p \in Pids : state[p] # "booting") /\ ~wrongPid',
         Clear' /\ ~broken' => /\ \A f \in Files : call[t].at # UnlinkAt[f]
                               /\ a \in {"stopped", "not_running"} => Services = {}
  PROVE  ServiceInv'
  <1>1. Idle.at = "idle" /\ Idle.mine = NoPid
    BY DEF Idle
  <1>2. Sound(Idle) /\ Lone(Idle)
    BY <1>1 DEF Sound, Lone, Awaiting, Killing
  <1>3. Trail(Idle)
    BY <1>1, StageNames DEF Trail, Later, Last, Stopping
  <1>4. QED
    BY <1>1, <1>2, <1>3, IdleIsCall, CallMoves, Alone, HistoryTypes
    DEF Answer, world, server, Clear

LEMMA HealthCheckKeeps ==
  ASSUME ServiceInv, NEW t \in Threads, HealthCheck(t) PROVE ServiceInv'
  <1>1. /\ call[t].at = "health" /\ call[t].mine = NoPid
        /\ UNCHANGED <<world, server, calls, crossed, broken, usurped, wrongPid, innocent>>
    BY DEF HealthCheck, history, ServiceInv, CallInv, Sound, Awaiting
  <1>2. \A f \in Files : call[t].at # UnlinkAt[f] /\ "port" # KillAt[f]
    BY <1>1, StageNames
  <1>3. Clear' => ~wrongPid'
    BY <1>1 DEF Clear, ServiceInv, LoneInv
  <1>4. CASE Healthy
    BY <1>1, <1>2, <1>3, <1>4, AnswerKeeps, HistoryTypes DEF HealthCheck
  <1>5. CASE ~Healthy
    <2>1. "port" \in Stages /\ "port" \notin Awaiting \cup Later \cup Last \cup Stopping \cup Killing
      BY StagesAre DEF Awaiting, Later, Last, Stopping, Killing
    <2>2. Goto(t, "port")
      BY <1>5 DEF HealthCheck
    <2>3. QED
      BY <1>1, <1>2, <2>1, <2>2, GotoKeeps, HistoryTypes
  <1>6. QED
    BY <1>4, <1>5

LEMMA PortCheckKeeps ==
  ASSUME ServiceInv, NEW t \in Threads, PortCheck(t) PROVE ServiceInv'
  <1>1. /\ call[t].at = "port" /\ call[t].mine = NoPid
        /\ UNCHANGED <<world, server, calls, crossed, broken, usurped, wrongPid, innocent>>
    BY DEF PortCheck, history, ServiceInv, CallInv, Sound, Awaiting
  <1>2. \A f \in Files : call[t].at # UnlinkAt[f] /\ "spawn" # KillAt[f]
    BY <1>1, StageNames
  <1>3. Clear' => ~wrongPid'
    BY <1>1 DEF Clear, ServiceInv, LoneInv
  <1>4. CASE port # NoPid
    BY <1>1, <1>2, <1>3, <1>4, AnswerKeeps, HistoryTypes DEF PortCheck
  <1>5. CASE port = NoPid
    <2>1. "spawn" \in Stages /\ "spawn" \notin Awaiting \cup Later \cup Last \cup Stopping \cup Killing
      BY StagesAre DEF Awaiting, Later, Last, Stopping, Killing
    <2>2. Goto(t, "spawn")
      BY <1>5 DEF PortCheck
    <2>3. Clear => Services = {}
      BY <1>1, <1>5, NoneLeft DEF Awaiting
    <2>4. QED
      BY <1>1, <1>2, <2>1, <2>2, <2>3, GotoKeeps, HistoryTypes
  <1>6. QED
    BY <1>4, <1>5

LEMMA SpawnFailsKeeps ==
  ASSUME ServiceInv, NEW t \in Threads, SpawnFails(t) PROVE ServiceInv'
  <1>1. /\ call[t].at = "spawn" /\ call[t].mine = NoPid
        /\ UNCHANGED <<world, server, calls, crossed, broken, usurped, wrongPid, innocent>>
        /\ Answer(t, "error")
    BY DEF SpawnFails, history, ServiceInv, CallInv, Sound, Awaiting
  <1>2. \A f \in Files : call[t].at # UnlinkAt[f]
    BY <1>1, StageNames
  <1>3. Clear' => ~wrongPid'
    BY <1>1 DEF Clear, ServiceInv, LoneInv
  <1>4. QED
    BY <1>1, <1>2, <1>3, AnswerKeeps, HistoryTypes

\* Whoever answers the probe of a launch: if no other program does, it is the
\* process that the launch waits for.
LEMMA PollHealthKeeps ==
  ASSUME ServiceInv, NEW t \in Threads, PollHealth(t) PROVE ServiceInv'
  <1>1. /\ call[t].at = "await"
        /\ UNCHANGED <<world, server, calls, crossed, broken, innocent>>
    BY DEF PollHealth
  <1>2. \A f \in Files : call[t].at # UnlinkAt[f] /\ "poll" # KillAt[f]
    BY <1>1, StageNames
  <1>3. CASE Healthy
    <2>1. /\ Answer(t, "started") /\ port # NoPid /\ state[port] \in {"serving", "mimic"}
          /\ wrongPid' = (wrongPid \/ port # call[t].mine)
          /\ usurped' = (usurped \/ state[port] = "mimic")
      BY <1>3 DEF PollHealth, Healthy
    <2>2. port \in Pids
      BY <2>1, Zenon DEF ServiceInv, ServiceTypeOK
    <2>3. ASSUME Clear' PROVE port = call[t].mine /\ ~wrongPid /\ state[port] = "serving"
      <3>1. Clear /\ state[port] = "serving"
        BY <1>1, <2>1, <2>3 DEF Clear
      <3>2. Services \subseteq {call[t].mine} /\ ~wrongPid
        BY <1>1, <3>1 DEF ServiceInv, LoneInv, Lone, Awaiting
      <3>3. QED
        BY <2>2, <3>1, <3>2 DEF Services
    <2>4. ASSUME Clear' PROVE \A p \in Pids : state[p] # "booting"
      <3>1. Services \subseteq {call[t].mine}
        BY <1>1, <2>1, <2>4 DEF Clear, ServiceInv, LoneInv, Lone, Awaiting
      <3>2. QED
        BY <2>3, <2>4, <3>1 DEF Services
    <2>5. Clear' => ~wrongPid'
      BY <2>1, <2>3
    <2>6. {crossed', broken', usurped', wrongPid'} \subseteq BOOLEAN
      BY <1>1, <2>1, HistoryTypes
    <2>7. QED
      BY <1>1, <1>2, <2>1, <2>4, <2>5, <2>6, AnswerKeeps
  <1>4. CASE ~Healthy
    <2>1. /\ "poll" \in Stages /\ "poll" \in Awaiting
          /\ "poll" \notin Later \cup Last \cup Stopping \cup Killing
      BY StagesAre DEF Awaiting, Later, Last, Stopping, Killing
    <2>2. Goto(t, "poll") /\ UNCHANGED <<wrongPid, usurped>>
      BY <1>4 DEF PollHealth
    <2>3. Clear => Services \subseteq {call[t].mine}
      BY <1>1 DEF ServiceInv, LoneInv, Lone, Awaiting
    <2>4. QED
      BY <1>1, <1>2, <2>1, <2>2, <2>3, GotoKeeps, HistoryTypes
  <1>5. QED
    BY <1>3, <1>4

LEMMA PollExitKeeps ==
  ASSUME ServiceInv, NEW t \in Threads, PollExit(t) PROVE ServiceInv'
  <1>1. /\ call[t].at = "poll"
        /\ UNCHANGED <<world, server, calls, crossed, broken, usurped, wrongPid, innocent>>
    BY DEF PollExit, history
  <1>2. \A f \in Files : call[t].at # UnlinkAt[f] /\ "await" # KillAt[f]
    BY <1>1, StageNames
  <1>3. CASE call[t].mine = NoPid
    <2>1. Answer(t, "error")
      BY <1>3 DEF PollExit
    <2>2. Clear' => ~wrongPid'
      BY <1>1 DEF Clear, ServiceInv, LoneInv
    <2>3. QED
      BY <1>1, <1>2, <1>3, <2>1, <2>2, AnswerKeeps, HistoryTypes
  <1>4. CASE call[t].mine # NoPid
    <2>1. /\ "await" \in Stages /\ "await" \in Awaiting
          /\ "await" \notin Later \cup Last \cup Stopping \cup Killing
      BY StagesAre DEF Awaiting, Later, Last, Stopping, Killing
    <2>2. Goto(t, "await")
      BY <1>4 DEF PollExit
    <2>3. Clear => Services \subseteq {call[t].mine}
      BY <1>1 DEF ServiceInv, LoneInv, Lone, Awaiting
    <2>4. QED
      BY <1>1, <1>2, <2>1, <2>2, <2>3, GotoKeeps, HistoryTypes
  <1>5. QED
    BY <1>3, <1>4

LEMMA GiveUpKeeps ==
  ASSUME ServiceInv, NEW t \in Threads, GiveUp(t) PROVE ServiceInv'
  <1>1. /\ call[t].at = "await" /\ Answer(t, "starting")
        /\ crossed' = (crossed \/ call[t].mine # NoPid)
        /\ UNCHANGED <<world, server, calls, broken, usurped, wrongPid, innocent>>
    BY DEF GiveUp
  <1>2. \A f \in Files : call[t].at # UnlinkAt[f]
    BY <1>1, StageNames
  <1>3. Clear' => call[t].mine = NoPid /\ ~wrongPid'
    BY <1>1 DEF Clear, ServiceInv, LoneInv
  <1>4. {crossed', broken', usurped', wrongPid'} \subseteq BOOLEAN
    BY <1>1, HistoryTypes
  <1>5. QED
    BY <1>1, <1>2, <1>3, <1>4, AnswerKeeps

LEMMA TimePassesKeeps ==
  ASSUME ServiceInv, NEW t \in Threads, TimePasses(t) PROVE ServiceInv'
  <1>1. /\ call[t].at \in Awaiting /\ call' = [call EXCEPT ![t].expired = TRUE]
        /\ UNCHANGED <<world, server, answer, calls, crossed, broken, usurped, wrongPid, innocent>>
    BY DEF TimePasses, history, Awaiting
  <1>2. call \in [Threads -> Calls] /\ call[t] \in Calls
    BY HistoryTypes
  <1>3. PICK c : c = [call[t] EXCEPT !.expired = TRUE]
    OBVIOUS
  <1>4. /\ c \in Calls /\ call' = [call EXCEPT ![t] = c]
        /\ c.at = call[t].at /\ c.mine = call[t].mine
        /\ c.seen = call[t].seen /\ c.hit = call[t].hit
    BY <1>1, <1>2, <1>3 DEF Calls
  <1>5. c.at \in {"await", "poll"}
    BY <1>1, <1>4 DEF Awaiting
  <1>6. Sound(c) /\ Trail(c)
    BY <1>4, <1>5, StageNames DEF ServiceInv, CallInv, Sound, Trail, Later, Last, Stopping, Killing
  <1>7. Clear => Lone(c) /\ ~wrongPid
    BY <1>4, <1>5 DEF ServiceInv, LoneInv, Lone
  <1>8. Clear /\ ~broken /\ answer \in {"stopped", "not_running"} => Services = {}
    BY DEF ServiceInv, TrailInv
  <1>9. call[t].at # "idle"
    BY <1>4, <1>5
  <1>10. QED
    BY <1>1, <1>4, <1>6, <1>7, <1>8, <1>9, CallMoves, Alone, HistoryTypes
    DEF world, server, Clear

\* _spawn_detached: the process that comes up is the only one, because nothing
\* was on the port and nothing was coming up when the launch looked.
LEMMA SpawnKeeps ==
  ASSUME ServiceInv, NEW t \in Threads, Spawn(t) PROVE ServiceInv'
  <1>1. PICK p \in Pids :
          /\ call[t].at = "spawn" /\ state[p] = "free"
          /\ state' = [state EXCEPT ![p] = "booting"] /\ kin' = kin \cup {p}
          /\ call' = [call EXCEPT ![t].at = "await", ![t].mine = p]
    BY DEF Spawn
  <1>2. UNCHANGED <<port, file, up, ending, answer, calls, crossed, broken, usurped, wrongPid, innocent>>
    BY DEF Spawn, history
  <1>3. /\ call \in [Threads -> Calls] /\ call[t] \in Calls
        /\ state \in [Pids -> States]
    BY Zenon DEF ServiceInv, ServiceTypeOK
  <1>4. PICK c : c = [call[t] EXCEPT !.at = "await", !.mine = p]
    OBVIOUS
  <1>5. c \in Calls /\ call' = [call EXCEPT ![t] = c] /\ c.at = "await" /\ c.mine = p
    BY <1>1, <1>3, <1>4, StagesAre DEF Calls
  <1>6. Services' = Services \cup {p} /\ p # NoPid
    BY <1>1, <1>3 DEF Services, Pids, NoPid
  <1>7. /\ call' \in [Threads -> Calls] /\ call'[t] = c
        /\ \A u \in Threads \ {t} : call'[u] = call[u]
    BY <1>3, <1>5
  <1>8. Active' = Active /\ t \in Active
    BY <1>1, <1>5, <1>7 DEF Active
  <1>9. ServiceTypeOK'
    <2>1. state' \in [Pids -> States]
      BY <1>1, <1>3
    <2>2. (port \in {q \in Pids : state[q] \in Holding} \cup {NoPid})'
      BY <1>1, <1>2, <1>3 DEF ServiceInv, ServiceTypeOK
    <2>3. (kin \subseteq Services)'
      BY <1>1, <1>6 DEF ServiceInv, ServiceTypeOK
    <2>4. QED
      BY <1>2, <1>7, <1>8, <2>1, <2>2, <2>3 DEF ServiceInv, ServiceTypeOK
  <1>10. CallInv'
    BY <1>5, <1>6, <1>7 DEF ServiceInv, CallInv, Sound, Awaiting, Killing
  <1>11. WorldInv'
    BY <1>1, <1>2, <1>3 DEF ServiceInv, WorldInv
  <1>12. OneCall'
    BY <1>2, <1>8 DEF ServiceInv, OneCall
  <1>13. LoneInv'
    <2> SUFFICES ASSUME Clear
                 PROVE  /\ Services' = {p} /\ ~wrongPid
                        /\ \A q \in Pids : state'[q] = "booting" => q = p
                        /\ \A u \in Threads \ {t} : call[u] = Idle
      BY <1>2, <1>5, <1>7 DEF LoneInv, Clear, Lone, Idle, Awaiting
    <2>1. Services = {} /\ ~wrongPid
      BY <1>1 DEF ServiceInv, LoneInv, Lone
    <2>2. \A u \in Threads \ {t} : call[u] = Idle
      BY <1>1, Alone DEF Clear
    <2>3. QED
      BY <1>1, <1>3, <1>6, <2>1, <2>2 DEF Services
  <1>14. TrailInv'
    <2> SUFFICES ASSUME Clear, ~broken
                 PROVE  /\ \A f \in Files : Named(f)'
                        /\ \A u \in Threads : Trail(call[u])'
                        /\ answer \notin {"stopped", "not_running"} /\ "stranger" \notin innocent
      BY <1>2 DEF TrailInv, Clear
    <2>1. \A u \in Threads \ {t} : call[u] = Idle
      BY <1>1, Alone DEF Clear
    <2>2. \A f \in Files : call[t].at # UnlinkAt[f] /\ "await" # KillAt[f]
      BY <1>1, StageNames
    <2>3. \A f \in Files : Named(f)'
      BY <1>2, <1>6, <1>7, <2>1, <2>2 DEF ServiceInv, TrailInv, Named
    <2>4. ASSUME NEW u \in Threads PROVE Trail(call[u])'
      <3>1. CASE u = t
        BY <3>1, <1>5, <1>7, <2>2 DEF Trail, Later, Last, Stopping
      <3>2. CASE u # t
        <4>1. call'[u].at = "idle"
          BY <3>2, <1>7, <2>1 DEF Idle
        <4>2. QED
          BY <4>1, StageNames DEF Trail, Later, Last, Stopping
      <3>3. QED
        BY <3>1, <3>2
    <2>5. answer = "none" /\ "stranger" \notin innocent
      BY <1>1, Alone DEF Clear, ServiceInv, TrailInv
    <2>6. QED
      BY <2>3, <2>4, <2>5
  <1>15. QED
    BY <1>9, <1>10, <1>11, <1>12, <1>13, <1>14 DEF ServiceInv

-----------------------------------------------------------------------------
(* The steps of a stop.                                                     *)

\* The stage that follows a PID file, and what a stop knows there.
LEMMA AfterFileStage ==
  ASSUME NEW f \in Files
  PROVE  /\ AfterFile(f) \in Stages /\ AfterFile(f) \in Later
         /\ AfterFile(f) \notin Awaiting \cup Killing \cup {"idle", "spawn"}
         /\ AfterFile(f) \in Last => f = "pid"
         /\ \A g \in Files : AfterFile(f) # KillAt[g] /\ AfterFile(f) # UnlinkAt[g]
         /\ AfterFile(f) # "kill holder"
  BY StageNames, StagesAre DEF AfterFile, Later, Awaiting, Killing, Last, Stopping

\* The stages of a stop at one of its files.
LEMMA FileStages ==
  ASSUME NEW f \in Files
  PROVE  /\ {ReadAt[f], KillAt[f], UnlinkAt[f]} \subseteq Stages \cap Stopping
         /\ {ReadAt[f], KillAt[f], UnlinkAt[f]} \cap
              (Awaiting \cup Last \cup {"idle", "spawn", "kill holder"}) = {}
         /\ KillAt[f] \in Killing /\ ReadAt[f] \notin Killing /\ UnlinkAt[f] \notin Killing
         /\ ReadAt[f] \in Later <=> f = "pid"
         /\ KillAt[f] \in Later <=> f = "pid"
         /\ UnlinkAt[f] \in Later <=> f = "pid"
         /\ \A g \in Files : /\ ReadAt[f] # KillAt[g] /\ ReadAt[f] # UnlinkAt[g]
                             /\ KillAt[f] # UnlinkAt[g]
                             /\ KillAt[f] = KillAt[g] => g = f
                             /\ UnlinkAt[f] = UnlinkAt[g] => g = f
  BY StageNames, StagesAre DEF Later, Awaiting, Killing, Last, Stopping

LEMMA ReadPidKeeps ==
  ASSUME ServiceInv, NEW t \in Threads, NEW f \in Files, ReadPid(t, f) PROVE ServiceInv'
  <1>1. PICK stage : stage = IF file[f] = NoPid THEN AfterFile(f) ELSE KillAt[f]
    OBVIOUS
  <1>2. /\ call[t].at = ReadAt[f]
        /\ call' = [call EXCEPT ![t].seen = file[f], ![t].at = stage]
        /\ UNCHANGED <<world, server, answer, calls, crossed, broken, usurped, wrongPid, innocent>>
    BY <1>1 DEF ReadPid, history
  <1>3. /\ call \in [Threads -> Calls] /\ call[t] \in Calls /\ file[f] \in Pids \cup {NoPid}
        /\ stage \in Stages
    BY <1>1, HistoryTypes, AfterFileStage, FileStages, Zenon DEF ServiceInv, ServiceTypeOK
  <1>4. PICK c : c = [call[t] EXCEPT !.seen = file[f], !.at = stage]
    OBVIOUS
  <1>5. c \in Calls /\ c.at = stage /\ c.mine = call[t].mine /\ c.hit = call[t].hit
        /\ c.seen = file[f]
    BY <1>3, <1>4 DEF Calls
  <1>6. call' = [call EXCEPT ![t] = c]
    BY <1>2, <1>3, <1>4
  <1>7. call[t].mine = NoPid /\ call[t].at # "idle" /\ call[t].at \in Stopping
    BY <1>2, FileStages DEF ServiceInv, CallInv, Sound
  <1>8. Sound(c) /\ Lone(c)
    <2>1. CASE file[f] = NoPid
      BY <1>1, <1>5, <1>7, <2>1, AfterFileStage DEF Sound, Lone
    <2>2. CASE file[f] # NoPid
      BY <1>1, <1>5, <1>7, <2>2, FileStages, ZenonT(60) DEF Sound, Lone
    <2>3. QED
      BY <2>1, <2>2
  <1>9. ASSUME Clear, ~broken PROVE Trail(c)
    <2>1. Trail(call[t])
      BY <1>9 DEF ServiceInv, TrailInv
    <2>2. call[t].hit => Services = {}
      BY <1>2, <1>7, <2>1, FileStages, ZenonT(60) DEF Trail
    <2>3. f = "pid" => file["server.pid"] = NoPid
      BY <1>2, <2>1, FileStages DEF Trail
    <2>4. CASE file[f] = NoPid
      <3>1. c.at # "kill holder"
        BY <1>1, <1>5, <2>4, StageNames DEF AfterFile
      <3>2. QED
        BY <1>1, <1>5, <2>2, <2>3, <2>4, <3>1, AfterFileStage, StageNames DEF Trail
    <2>5. CASE file[f] # NoPid
      BY <1>1, <1>5, <2>2, <2>3, <2>5, FileStages DEF Trail
    <2>6. QED
      BY <2>4, <2>5
  <1>10. \A g \in Files : call[t].at # UnlinkAt[g]
    BY <1>2, FileStages
  <1>11. Clear => ~wrongPid /\ (~broken /\ answer \in {"stopped", "not_running"} => Services = {})
    BY DEF ServiceInv, LoneInv, TrailInv
  <1>12. /\ UNCHANGED <<state, port, file, kin, up, ending, innocent, answer, calls>>
         /\ UNCHANGED <<crossed, broken, usurped, wrongPid>>
    BY <1>2 DEF world, server
  <1>13. QED
    BY <1>5, <1>6, <1>7, <1>8, <1>9, <1>10, <1>11, <1>12, CallMoves, Alone, HistoryTypes DEF Clear

\* A thread without a call.
LEMMA IdleKnowsNothing ==
  Idle.at = "idle" /\ Idle.mine = NoPid /\ Sound(Idle) /\ Lone(Idle) /\ Trail(Idle)
  <1>1. Idle.at = "idle" /\ Idle.mine = NoPid
    BY DEF Idle
  <1>2. QED
    BY <1>1, StageNames DEF Sound, Lone, Trail, Awaiting, Killing, Later, Last, Stopping

\* A process ends.  The calls in going go on with what they know; the others
\* learn that it is gone if it was theirs.
LEMMA EndKeeps ==
  ASSUME ServiceInv, NEW p \in Pids, End({p}),
         UNCHANGED <<file, up, ending, calls, crossed, usurped, wrongPid>>,
         broken' \in BOOLEAN, innocent' \subseteq Kinds,
         answer' \in {"none", "already_running", "starting", "started", "error",
                      "stopped", "not_running"},
         NEW going \in SUBSET Threads, call' \in [Threads -> Calls],
         \A u \in Threads \ going : call'[u] = Bereft(call[u], {p}),
         \A u \in going : /\ call[u].at # "idle" /\ call[u].mine = NoPid
                          /\ call'[u].mine = NoPid /\ Sound(call'[u])
                          /\ call'[u].at \notin Awaiting \cup {"spawn"},
         ~crossed /\ (\E u \in Threads : call'[u].at # "idle") => answer' = "none"
  PROVE  /\ Services' = Services \ {p}
         /\ ServiceTypeOK' /\ CallInv' /\ WorldInv' /\ OneCall' /\ LoneInv'
  <1>1. /\ state' = [q \in Pids |-> IF q = p THEN "free" ELSE state[q]]
        /\ port' = IF port = p THEN NoPid ELSE port
        /\ kin' = kin \ {p}
    BY DEF End
  <1>2. /\ state \in [Pids -> States]
        /\ call \in [Threads -> Calls]
        /\ port \in {q \in Pids : state[q] \in Holding} \cup {NoPid}
        /\ kin \subseteq Services /\ (up \/ Active = {})
    BY Zenon DEF ServiceInv, ServiceTypeOK
  <1>pid. p # NoPid
    BY DEF Pids, NoPid
  <1>3. Services' = Services \ {p}
    BY <1>1, <1>2 DEF Services
  <1>4. ASSUME NEW u \in Threads \ going
        PROVE  /\ call'[u].at = call[u].at
               /\ call[u].mine # p => call'[u] = call[u]
               /\ call[u].mine = p => call'[u].mine = NoPid /\ call'[u].seen = call[u].seen
    BY <1>2, <1>pid DEF Bereft, Calls
  <1>5. Active' \subseteq Active
    BY <1>4 DEF Active
  <1>6. ServiceTypeOK'
    <2>1. state' \in [Pids -> States]
      BY <1>1, <1>2
    <2>2. (port \in {q \in Pids : state[q] \in Holding} \cup {NoPid})'
      BY <1>1, <1>2
    <2>3. (kin \subseteq Services)'
      BY <1>1, <1>2, <1>3
    <2>4. up' \/ Active' = {}
      BY <1>2, <1>5
    <2>5. QED
      BY <2>1, <2>2, <2>3, <2>4, HistoryTypes DEF ServiceInv, ServiceTypeOK
  <1>7. CallInv'
    <2> SUFFICES ASSUME NEW u \in Threads PROVE Sound(call[u])'
      BY DEF CallInv
    <2>1. CASE u \in going
      BY <2>1, <1>pid DEF Sound
    <2>2. CASE u \notin going
      <3>1. Sound(call[u])
        BY DEF ServiceInv, CallInv
      <3>2. CASE call[u].mine = p
        BY <2>2, <3>1, <3>2, <1>pid, <1>4 DEF Sound, Awaiting
      <3>3. CASE call[u].mine # p
        BY <2>2, <3>1, <3>3, <1>3, <1>4 DEF Sound
      <3>4. QED
        BY <3>2, <3>3
    <2>3. QED
      BY <2>1, <2>2
  <1>8. WorldInv'
    BY <1>1, <1>2 DEF ServiceInv, WorldInv
  <1>9. OneCall'
    BY <1>5 DEF ServiceInv, OneCall, Active
  <1>10. LoneInv'
    <2> SUFFICES ASSUME Clear
                 PROVE  /\ \A q, r \in Services' : q = r
                        /\ \A q \in Pids : state'[q] = "booting" => \E u \in Threads : call'[u].mine = q
                        /\ \A u \in Threads : Lone(call[u])'
                        /\ ~wrongPid
      BY DEF LoneInv, Clear
    <2>1. LoneInv
      BY DEF ServiceInv
    <2>2. ASSUME NEW q \in Pids, state'[q] = "booting" PROVE \E u \in Threads : call'[u].mine = q
      <3>1. q # p /\ state[q] = "booting" /\ q # NoPid
        BY <1>1, <2>2 DEF Pids, NoPid
      <3>2. PICK u \in Threads : call[u].mine = q
        BY <2>1, <3>1 DEF LoneInv
      <3>3. QED
        BY <1>4, <3>1, <3>2
    <2>3. ASSUME NEW u \in Threads PROVE Lone(call[u])'
      <3>1. CASE u \in going
        BY <3>1 DEF Lone
      <3>2. CASE u \notin going
        BY <3>2, <1>3, <1>4, <2>1 DEF LoneInv, Lone, Awaiting
      <3>3. QED
        BY <3>1, <3>2
    <2>4. QED
      BY <1>3, <2>1, <2>2, <2>3 DEF LoneInv
  <1>11. QED
    BY <1>3, <1>6, <1>7, <1>8, <1>9, <1>10

\* A stop kills p, or finds it gone, or may not kill it; the call goes on as
\* after.  As long as nothing crossed or broke, what it kills is the service or
\* has a socket of the port's number.
LEMMA KillKeeps ==
  ASSUME ServiceInv, NEW t \in Threads, NEW p \in Pids, NEW kind \in Kinds,
         NEW after \in [BOOLEAN -> Calls], KillSeen(t, p, kind, after),
         call[t].at \in Killing \cup {"kill holder"},
         UNCHANGED <<file, up, ending, calls, crossed, usurped, wrongPid>>,
         answer' \in {"none", "already_running", "starting", "started", "error",
                      "stopped", "not_running"},
         \A h \in BOOLEAN : /\ after[h].mine = NoPid /\ Sound(after[h])
                            /\ after[h].at \notin Awaiting \cup {"spawn"}
                            /\ after[h].at # "idle" => answer' = "none" \/ crossed,
         Clear /\ ~broken =>
           /\ state[p] # "free" /\ (kind # "stranger" \/ p \in Services)
           /\ \A g \in Files : file[g] = NoPid \/ after[TRUE].at = UnlinkAt[g]
           /\ End({p}) /\ Services' = Services \ {p} =>
                /\ Trail(after[TRUE])'
                /\ answer' \in {"stopped", "not_running"} => Services' = {}
  PROVE  ServiceInv'
  <1>2. /\ call[t] \in Calls /\ call \in [Threads -> Calls]
        /\ call[t].hit \in BOOLEAN /\ call[t].mine = NoPid /\ call[t].at # "idle"
        /\ call[t].at \notin Awaiting
    BY HistoryTypes DEF Calls, ServiceInv, CallInv, Sound, Awaiting, Killing
  <1>3. p # NoPid
    BY LiveIsSome
  <1>4. (~crossed => \A u \in Active : u = t) /\ (Clear => ~wrongPid)
    BY <1>2, Alone DEF ServiceInv, LoneInv
  <1>5. \A h \in BOOLEAN : Lone(after[h])
    BY DEF Lone
  <1>6. ASSUME NEW h \in BOOLEAN, call' = [call EXCEPT ![t] = after[h]],
               UNCHANGED <<state, port, kin, innocent>>, broken => broken', broken' \in BOOLEAN,
               ~(Clear /\ ~broken')
        PROVE  ServiceInv'
    <2>1. after[h] \in Calls /\ Sound(after[h]) /\ Lone(after[h]) /\ after[h].mine = NoPid
      BY <1>5
    <2>2. ~crossed' => (\A u \in Active : u = t) /\ (after[h].at # "idle" => answer' = "none")
      BY <1>4
    <2>3. /\ up' /\ calls' \in 0..MaxCalls
          /\ {crossed', broken', usurped', wrongPid'} \subseteq BOOLEAN
      BY <1>2, <1>6, Alone, HistoryTypes
    <2>4. QED
      BY <1>2, <1>4, <1>6, <2>1, <2>2, <2>3, CallMoves DEF Clear
  <1>7. CASE /\ state[p] = "free"
             /\ call' = [call EXCEPT ![t] = after[call[t].hit]]
             /\ UNCHANGED <<state, port, kin, broken, innocent>>
    BY <1>2, <1>6, <1>7, HistoryTypes
  <1>8. CASE /\ call' = [call EXCEPT ![t] = after[FALSE]]
             /\ broken' = TRUE
             /\ UNCHANGED <<state, port, kin, innocent>>
    BY <1>6, <1>8
  <1>9. CASE /\ state[p] # "free" /\ End({p})
             /\ call' = [u \in Threads |-> IF u = t THEN after[TRUE] ELSE Bereft(call[u], {p})]
             /\ innocent' = innocent \cup (IF p \in Services THEN {} ELSE {kind})
             /\ UNCHANGED broken
    <2>1. \A u \in Threads : Bereft(call[u], {p}) \in Calls
      BY <1>2 DEF Bereft, Calls
    <2>2. call' \in [Threads -> Calls] /\ call'[t] = after[TRUE]
          /\ \A u \in Threads \ {t} : call'[u] = Bereft(call[u], {p})
      BY <1>9, <2>1
    <2>3. ~crossed => \A u \in Threads \ {t} : call'[u] = Idle
      <3>1. ASSUME ~crossed, NEW u \in Threads \ {t} PROVE call'[u] = Idle
        <4>1. call[u] = Idle
          BY <1>2, <3>1, Alone
        <4>2. Idle.mine \notin {p}
          BY <1>3, IdleKnowsNothing
        <4>3. QED
          BY <2>2, <4>1, <4>2 DEF Bereft
      <3>2. QED
        BY <3>1
    <2>4. ~crossed /\ (\E u \in Threads : call'[u].at # "idle") => answer' = "none"
      BY <2>2, <2>3, IdleKnowsNothing
    <2>5. broken' \in BOOLEAN /\ innocent' \subseteq Kinds
      BY <1>9, HistoryTypes
    <2>6. /\ Services' = Services \ {p}
          /\ ServiceTypeOK' /\ CallInv' /\ WorldInv' /\ OneCall' /\ LoneInv'
      <3>1. {t} \in SUBSET Threads
        OBVIOUS
      <3>2. \A u \in {t} : /\ call[u].at # "idle" /\ call[u].mine = NoPid
                           /\ call'[u].mine = NoPid /\ Sound(call'[u])
                           /\ call'[u].at \notin Awaiting \cup {"spawn"}
        <4>1. Sound(call'[t])
          BY <1>2, <1>9, <2>2
        <4>2. QED
          BY <1>2, <2>2, <4>1
      <3>3. QED
        BY <1>9, <2>2, <2>4, <2>5, <3>1, <3>2, EndKeeps
    <2>7. TrailInv'
      <3> SUFFICES ASSUME Clear, ~broken
                   PROVE  /\ \A g \in Files : Named(g)'
                          /\ \A u \in Threads : Trail(call[u])'
                          /\ answer' \in {"stopped", "not_running"} => Services' = {}
                          /\ "stranger" \notin innocent'
        BY <1>9 DEF TrailInv, Clear
      <3>1. answer' \in {"stopped", "not_running"} => Services' = {}
        BY <1>9, <2>6
      <3>2. "stranger" \notin innocent'
        BY <1>9 DEF ServiceInv, TrailInv
      <3>3. \A g \in Files : Named(g)'
        BY <2>2 DEF Named
      <3>4. ASSUME NEW u \in Threads PROVE Trail(call[u])'
        <4>1. CASE u = t
          BY <1>9, <2>2, <2>6, <4>1 DEF Trail
        <4>2. CASE u # t
          <5>1. call'[u].at = "idle"
            BY <2>3, <4>2, IdleKnowsNothing DEF Clear
          <5>2. QED
            BY <5>1, StageNames DEF Trail, Later, Last, Stopping
        <4>3. QED
          BY <4>1, <4>2
      <3>5. QED
        BY <3>1, <3>2, <3>3, <3>4
    <2>8. QED
      BY <2>6, <2>7 DEF ServiceInv
  <1>10. QED
    BY <1>7, <1>8, <1>9 DEF KillSeen

\* _stop_via_pid_files: what a file names is the process of the service, and no
\* other file names one.
LEMMA KillReadKeeps ==
  ASSUME ServiceInv, NEW t \in Threads, NEW f \in Files, KillRead(t, f) PROVE ServiceInv'
  <1>1. PICK after : after = [h \in BOOLEAN |->
                                [call[t] EXCEPT !.seen = NoPid, !.hit = h, !.at = UnlinkAt[f]]]
    OBVIOUS
  <1>2. /\ call[t].at = KillAt[f] /\ KillSeen(t, call[t].seen, "stranger", after)
        /\ UNCHANGED <<file, up, ending, answer, calls, crossed, usurped, wrongPid>>
    BY <1>1 DEF KillRead
  <1>3. /\ call[t] \in Calls /\ call[t].mine = NoPid /\ call[t].at \in Killing
        /\ call[t].at # "idle" /\ call[t].seen \in Pids
    BY <1>2, FileStages, HistoryTypes DEF ServiceInv, CallInv, Sound, Calls
  <1>4. UnlinkAt[f] \in Stages
    BY FileStages
  <1>5. \A h \in BOOLEAN : /\ after[h] \in Calls /\ after[h].at = UnlinkAt[f]
                           /\ after[h].mine = NoPid
    BY <1>1, <1>3, <1>4 DEF Calls
  <1>6. after \in [BOOLEAN -> Calls]
    BY <1>1, <1>5
  <1>7. \A h \in BOOLEAN : Sound(after[h]) /\ after[h].at \notin Awaiting \cup {"spawn"}
    BY <1>5, FileStages DEF Sound
  <1>8. crossed \/ answer' = "none"
    BY <1>2, <1>3, Alone
  <1>9. ASSUME Clear, ~broken
        PROVE  /\ state[call[t].seen] # "free" /\ call[t].seen \in Services
               /\ \A g \in Files : file[g] = NoPid \/ after[TRUE].at = UnlinkAt[g]
               /\ Services' = Services \ {call[t].seen} => Services' = {} /\ Trail(after[TRUE])'
    <2>1. /\ Trail(call[t]) /\ \A g \in Files : Named(g)
          /\ \A p, q \in Services : p = q
          /\ file["pid"] # NoPid => file["server.pid"] # file["pid"]
      BY <1>9 DEF ServiceInv, TrailInv, LoneInv, WorldInv
    <2>2. \A u \in Threads, g \in Files : call[u].at # UnlinkAt[g]
      <3>1. \A u \in Threads \ {t} : call[u].at = "idle"
        BY <1>3, <1>9, Alone, IdleKnowsNothing DEF Clear
      <3>2. \A g \in Files : "idle" # UnlinkAt[g] /\ KillAt[f] # UnlinkAt[g]
        BY StageNames, FileStages
      <3>3. QED
        BY <1>2, <3>1, <3>2
    <2>3. \A g \in Files : file[g] \in Services \cup {NoPid}
      BY <2>1, <2>2 DEF Named
    <2>4. call[t].seen = file[f] /\ file[f] \in Services
      BY <1>2, <2>1, <2>3 DEF Trail
    <2>5. /\ state[file[f]] \in {"booting", "bound", "serving"} /\ Services \subseteq {file[f]}
      BY <2>1, <2>4 DEF Services
    <2>6. \A g \in Files : file[g] = NoPid \/ g = f
      BY <2>1, <2>3, <2>4, StageNames DEF Services, Pids, NoPid
    <2>7. f = "pid" => file'["server.pid"] = NoPid
      BY <1>2, <2>1, FileStages DEF Trail
    <2>8. Services' = {} => Trail(after[TRUE])'
      BY <1>5, <2>7, FileStages DEF Trail
    <2>9. QED
      BY <1>5, <2>4, <2>5, <2>6, <2>8
  <1>10. answer' \in {"none", "already_running", "starting", "started", "error",
                      "stopped", "not_running"}
    BY <1>2, HistoryTypes
  <1>11. "stranger" \in Kinds /\ call[t].at \in Killing \cup {"kill holder"}
    BY <1>3 DEF Kinds
  <1>12. QED
    BY <1>2, <1>3, <1>5, <1>6, <1>7, <1>8, <1>9, <1>10, <1>11, KillKeeps

\* _stop_port_holder: whatever is left of the service is on the list, and so are
\* only processes with a socket of the port's number.
LEMMA KillHolderKeeps ==
  ASSUME ServiceInv, NEW t \in Threads, KillHolder(t) PROVE ServiceInv'
  <1>1. PICK p, rest, kind, after :
          /\ p \in call[t].left
          /\ rest = call[t].left \ {p}
          /\ kind = IF port = p THEN "listener"
                    ELSE IF state[p] = "sharing" THEN "sharer" ELSE "stranger"
          /\ after = [h \in BOOLEAN |-> IF rest = {} THEN Idle
                                        ELSE [call[t] EXCEPT !.left = rest, !.hit = @ \/ h]]
          /\ KillSeen(t, p, kind, after)
          /\ answer' = IF rest = {} THEN StopAnswer(call[t].hit \/ state'[p] # state[p])
                       ELSE answer
    BY DEF KillHolder
  <1>2. /\ call[t].at = "kill holder" /\ call[t].at # "idle" /\ call[t].at \notin Awaiting
        /\ call[t].at \in Last /\ call[t].at \in Later /\ call[t].at \in Killing \cup {"kill holder"}
        /\ UNCHANGED <<file, up, ending, calls, crossed, usurped, wrongPid>>
    BY DEF KillHolder, Awaiting, Last, Later
  <1>3. /\ call[t] \in Calls /\ call[t].mine = NoPid /\ p \in Pids /\ rest \subseteq Pids
        /\ kind \in Kinds
    BY <1>1, <1>2, HistoryTypes DEF ServiceInv, CallInv, Sound, Calls, Kinds
  <1>4. \A h \in BOOLEAN :
          /\ after[h] \in Calls /\ after[h].mine = NoPid /\ after[h].at \in {"idle", "kill holder"}
          /\ rest = {} => after[h] = Idle
          /\ rest # {} => after[h].at = "kill holder" /\ after[h].left = rest
    BY <1>1, <1>2, <1>3, IdleIsCall, IdleKnowsNothing DEF Calls
  <1>5. after \in [BOOLEAN -> Calls]
    BY <1>1, <1>4
  <1>6. \A h \in BOOLEAN : Sound(after[h]) /\ after[h].at \notin Awaiting \cup {"spawn"}
    <2>1. ASSUME NEW h \in BOOLEAN, rest = {} PROVE Sound(after[h])
      BY <1>4, <2>1, IdleKnowsNothing
    <2>2. ASSUME NEW h \in BOOLEAN, rest # {} PROVE Sound(after[h])
      BY <1>4, <2>2 DEF Sound, Killing
    <2>3. QED
      BY <1>4, <2>1, <2>2 DEF Awaiting
  <1>7. /\ ~crossed => answer = "none"
        /\ rest = {} => answer' \in {"stopped", "not_running"}
        /\ rest # {} => answer' = answer
    BY <1>1, <1>2, Alone DEF StopAnswer
  <1>8. ASSUME Clear, ~broken
        PROVE  /\ state[p] # "free" /\ kind # "stranger"
               /\ \A g \in Files : file[g] = NoPid
               /\ End({p}) /\ Services' = Services \ {p} =>
                    /\ Trail(after[TRUE])'
                    /\ answer' \in {"stopped", "not_running"} => Services' = {}
    <2>1. /\ Services \subseteq call[t].left
          /\ \A q \in call[t].left : q = port \/ state[q] = "sharing"
          /\ file["server.pid"] = NoPid /\ file["pid"] = NoPid
      BY <1>2, <1>8 DEF ServiceInv, TrailInv, Trail
    <2>2. port \in {q \in Pids : state[q] \in Holding} \cup {NoPid}
      BY Zenon DEF ServiceInv, ServiceTypeOK
    <2>3. state[p] # "free" /\ kind # "stranger"
      <3>1. p = port \/ state[p] = "sharing"
        BY <1>1, <2>1
      <3>2. p # NoPid
        BY <1>3 DEF Pids, NoPid
      <3>3. QED
        BY <1>1, <2>2, <3>1, <3>2
    <2>4. \A g \in Files : file[g] = NoPid
      BY <2>1, StageNames
    <2>5. ASSUME End({p}), Services' = Services \ {p}
          PROVE  Trail(after[TRUE])'
      <3>1. CASE rest = {}
        BY <1>4, <3>1, StageNames, IdleKnowsNothing DEF Trail, Later, Last, Stopping
      <3>2. CASE rest # {}
        <4>1. Services' \subseteq rest /\ file' = file
          BY <1>1, <1>2, <2>1, <2>5
        <4>2. ASSUME NEW q \in rest PROVE q = port' \/ state'[q] = "sharing"
          <5>1. q \in Pids /\ q # p /\ (q = port \/ state[q] = "sharing")
            BY <1>1, <1>3, <2>1
          <5>2. QED
            BY <2>5, <5>1 DEF End
        <4>3. after[TRUE].at = "kill holder" /\ after[TRUE].left = rest
          BY <1>4, <3>2
        <4>4. \A g \in Files : "kill holder" # KillAt[g]
          BY StageNames
        <4>5. QED
          BY <2>1, <4>1, <4>2, <4>3, <4>4 DEF Trail
      <3>3. QED
        BY <3>1, <3>2
    <2>6. ASSUME Services' = Services \ {p}, answer' \in {"stopped", "not_running"}
          PROVE  Services' = {}
      <3>1. rest = {}
        BY <1>7, <1>8, <2>6 DEF Clear
      <3>2. QED
        BY <1>1, <2>1, <2>6, <3>1
    <2>7. QED
      BY <2>3, <2>4, <2>5, <2>6
  <1>9. answer' \in {"none", "already_running", "starting", "started", "error",
                     "stopped", "not_running"}
    BY <1>7, HistoryTypes
  <1>10. \A h \in BOOLEAN : after[h].at # "idle" => answer' = "none" \/ crossed
    BY <1>1, <1>4, <1>7, IdleKnowsNothing
  <1>11. QED
    BY <1>1, <1>2, <1>3, <1>5, <1>4, <1>6, <1>8, <1>9, <1>10, KillKeeps, ZenonT(60)

\* The file goes, and with it what Named allowed it.
LEMMA UnlinkKeeps ==
  ASSUME ServiceInv, NEW t \in Threads, NEW f \in Files, Unlink(t, f) PROVE ServiceInv'
  <1>1. PICK stage : stage = AfterFile(f)
    OBVIOUS
  <1>2. /\ call[t].at = UnlinkAt[f] /\ file' = [file EXCEPT ![f] = NoPid]
        /\ call' = [call EXCEPT ![t].at = stage]
        /\ UNCHANGED <<state, port, kin, up, ending, answer, calls>>
        /\ UNCHANGED <<crossed, broken, usurped, wrongPid, innocent>>
    BY <1>1 DEF Unlink, Goto, server, history
  <1>3. /\ stage \in Stages /\ stage \in Later
        /\ stage \notin Awaiting \cup Killing \cup {"idle", "spawn"}
        /\ stage \in Last => f = "pid"
        /\ \A g \in Files : stage # KillAt[g] /\ stage # UnlinkAt[g]
        /\ stage # "kill holder"
    BY <1>1, AfterFileStage
  <1>4. PICK c \in Calls :
          /\ call' = [call EXCEPT ![t] = c] /\ c.at = stage
          /\ c.mine = call[t].mine /\ c.seen = call[t].seen /\ c.hit = call[t].hit
    BY <1>2, <1>3, GotoCall
  <1>5. /\ call[t].at # "idle" /\ call[t].mine = NoPid /\ call[t].at \in Stopping
        /\ (call[t].at \in Later <=> f = "pid")
        /\ \A g \in Files : call[t].at = UnlinkAt[g] => g = f
    BY <1>2, FileStages DEF ServiceInv, CallInv, Sound
  <1>6. file \in [Files -> Pids \cup {NoPid}] /\ call \in [Threads -> Calls]
    BY Zenon DEF ServiceInv, ServiceTypeOK
  <1>7. /\ call' \in [Threads -> Calls] /\ call'[t] = c
        /\ \A u \in Threads \ {t} : call'[u] = call[u]
    BY <1>4, <1>6
  <1>8. /\ file' \in [Files -> Pids \cup {NoPid}] /\ file'[f] = NoPid
        /\ \A g \in Files \ {f} : file'[g] = file[g]
    BY <1>2, <1>6
  <1>9. Services' = Services /\ Active' = Active
    BY <1>2, <1>3, <1>4, <1>5, <1>7, ZenonT(60) DEF Services, Active
  <1>10. ServiceTypeOK'
    BY <1>2, <1>7, <1>8, <1>9 DEF ServiceInv, ServiceTypeOK
  <1>11. Sound(c) /\ Lone(c)
    BY <1>3, <1>4, <1>5 DEF Sound, Lone
  <1>12. CallInv'
    BY <1>7, <1>9, <1>11 DEF ServiceInv, CallInv, Sound
  <1>13. WorldInv'
    BY <1>2, <1>8, StageNames DEF ServiceInv, WorldInv
  <1>14. OneCall'
    BY <1>2, <1>9 DEF ServiceInv, OneCall
  <1>15. LoneInv'
    <2> SUFFICES ASSUME Clear
                 PROVE  /\ \A p \in Pids : state[p] = "booting" => \E u \in Threads : call'[u].mine = p
                        /\ \A u \in Threads : Lone(call'[u])
                        /\ LoneInv
      BY <1>2, <1>9 DEF LoneInv, Lone, Clear
    <2>1. LoneInv
      BY DEF ServiceInv
    <2>2. ASSUME NEW p \in Pids, state[p] = "booting" PROVE \E u \in Threads : call'[u].mine = p
      BY <2>1, <2>2, <1>4, <1>7 DEF LoneInv
    <2>3. \A u \in Threads : Lone(call'[u])
      BY <2>1, <1>7, <1>11 DEF LoneInv
    <2>4. QED
      BY <2>1, <2>2, <2>3
  <1>16. TrailInv'
    <2> SUFFICES ASSUME Clear, ~broken
                 PROVE  /\ \A g \in Files : Named(g)'
                        /\ \A u \in Threads : Trail(call[u])'
                        /\ answer \in {"stopped", "not_running"} => Services = {}
                        /\ "stranger" \notin innocent
      BY <1>2, <1>9 DEF TrailInv, Clear
    <2>1. /\ \A g \in Files : Named(g)
          /\ Trail(call[t]) /\ "stranger" \notin innocent
          /\ answer \in {"stopped", "not_running"} => Services = {}
      BY DEF ServiceInv, TrailInv
    <2>2. \A u \in Threads \ {t} : call[u] = Idle
      BY <1>5, Alone DEF Clear
    <2>3. ASSUME NEW g \in Files PROVE Named(g)'
      <3>1. CASE g = f
        BY <1>8, <3>1 DEF Named
      <3>2. CASE g # f
        <4>1. \A u \in Threads : call[u].at # UnlinkAt[g]
          <5>1. "idle" # UnlinkAt[g]
            BY StageNames
          <5>2. QED
            BY <1>5, <2>2, <3>2, <5>1, IdleKnowsNothing
        <4>2. file[g] \in Services \cup {NoPid}
          BY <2>1, <4>1 DEF Named
        <4>3. QED
          BY <1>8, <1>9, <3>2, <4>2 DEF Named
      <3>3. QED
        BY <3>1, <3>2
    <2>4. ASSUME NEW u \in Threads PROVE Trail(call[u])'
      <3>1. CASE u = t
        <4>1. file'["server.pid"] = NoPid /\ (stage \in Last => file'["pid"] = NoPid)
          BY <1>3, <1>5, <1>8, <2>1, StageNames DEF Trail
        <4>2. call[t].hit => Services = {}
          BY <1>2, <1>5, <2>1, FileStages DEF Trail
        <4>3. QED
          BY <1>3, <1>4, <1>7, <1>9, <3>1, <4>1, <4>2 DEF Trail
      <3>2. CASE u # t
        <4>1. call'[u].at = "idle"
          BY <1>7, <2>2, <3>2, IdleKnowsNothing
        <4>2. QED
          BY <4>1, StageNames DEF Trail, Later, Last, Stopping
      <3>3. QED
        BY <3>1, <3>2
    <2>5. QED
      BY <2>1, <2>3, <2>4
  <1>17. QED
    BY <1>10, <1>12, <1>13, <1>14, <1>15, <1>16 DEF ServiceInv

\* A file that cannot be used leaves its mark.
LEMMA PidFileFailsKeeps ==
  ASSUME ServiceInv, NEW t \in Threads, NEW f \in Files, PidFileFails(t, f) PROVE ServiceInv'
  <1>1. PICK stage : stage = AfterFile(f)
    OBVIOUS
  <1>2. /\ call[t].at \in {ReadAt[f], UnlinkAt[f]} /\ Goto(t, stage) /\ broken' = TRUE
        /\ UNCHANGED <<world, server, calls, crossed, usurped, wrongPid, innocent>>
    BY <1>1 DEF PidFileFails
  <1>3. /\ stage \in Stages /\ stage \notin Awaiting \cup Killing \cup {"idle", "spawn"}
    BY <1>1, AfterFileStage
  <1>4. call[t].at # "idle" /\ call[t].mine = NoPid
    BY <1>2, FileStages DEF ServiceInv, CallInv, Sound
  <1>5. QED
    BY <1>2, <1>3, <1>4, GotoKeeps

\* The end of a stop: without anything on the port nothing is left, and after a
\* hit neither.
LEMMA FindHolderKeeps ==
  ASSUME ServiceInv, NEW t \in Threads, FindHolder(t) PROVE ServiceInv'
  <1>1. /\ call[t].at = "holder"
        /\ UNCHANGED <<world, server, calls, crossed, usurped, wrongPid, innocent>>
    BY DEF FindHolder
  <1>2. /\ call[t].at # "idle" /\ call[t].mine = NoPid /\ call[t].at \notin Awaiting
        /\ call[t].at \in Stopping /\ call[t].at \in Later \cap Last
        /\ \A f \in Files : call[t].at # UnlinkAt[f]
    BY <1>1, StageNames DEF ServiceInv, CallInv, Sound, Awaiting, Stopping, Later, Last
  <1>3. Clear' => Clear /\ ~wrongPid'
    BY <1>1 DEF Clear, ServiceInv, LoneInv
  <1>4. CASE call[t].hit \/ port = NoPid
    <2>1. PICK a \in {"stopped", "not_running"} : Answer(t, a) /\ broken' = broken
      BY <1>4 DEF FindHolder, StopAnswer
    <2>2. ASSUME Clear, ~broken PROVE Services = {}
      <3>1. call[t].hit => Services = {}
        BY <1>1, <1>2, <2>2 DEF ServiceInv, TrailInv, Trail
      <3>2. QED
        BY <1>2, <1>4, <2>2, <3>1, NoneLeft
    <2>3. a \in {"already_running", "starting", "started", "error", "stopped", "not_running"}
      OBVIOUS
    <2>4. {crossed', broken', usurped', wrongPid'} \subseteq BOOLEAN
      BY <1>1, <2>1, HistoryTypes
    <2>5. QED
      BY <1>1, <1>2, <1>3, <2>1, <2>2, <2>3, <2>4, AnswerKeeps
  <1>5. ASSUME ~call[t].hit, port # NoPid, NEW found \in SUBSET PortUsers, found = {},
               Answer(t, "not_running"), broken' = (broken \/ port \notin found)
        PROVE  ServiceInv'
    <2>1. broken' = TRUE
      BY <1>5
    <2>2. {crossed', broken', usurped', wrongPid'} \subseteq BOOLEAN
      BY <1>1, <2>1, HistoryTypes
    <2>3. QED
      BY <1>1, <1>2, <1>3, <1>5, <2>1, <2>2, AnswerKeeps
  <1>6. ASSUME ~call[t].hit, port # NoPid, NEW found \in SUBSET PortUsers,
               call' = [call EXCEPT ![t].left = found, ![t].at = "kill holder"],
               answer' = answer, broken' = (broken \/ port \notin found)
        PROVE  ServiceInv'
    <2>1. /\ call \in [Threads -> Calls] /\ call[t] \in Calls /\ port \in Pids \cup {NoPid}
      BY HistoryTypes, Zenon DEF ServiceInv, ServiceTypeOK
    <2>2. PICK c : c = [call[t] EXCEPT !.left = found, !.at = "kill holder"]
      OBVIOUS
    <2>3. found \subseteq Pids /\ \A q \in found : q = port \/ state[q] = "sharing"
      BY <1>6, <2>1 DEF PortUsers
    <2>4. /\ c \in Calls /\ c.at = "kill holder" /\ c.mine = call[t].mine
          /\ c.hit = call[t].hit /\ c.left = found
      BY <2>1, <2>2, <2>3, StagesAre DEF Calls, Stopping
    <2>5. call' = [call EXCEPT ![t] = c]
      BY <1>6, <2>1, <2>2
    <2>6. c.at \in Last /\ c.at \in Later /\ c.at \notin Awaiting /\ c.at # "idle" /\ c.at # "spawn"
      BY <2>4 DEF Last, Later, Awaiting
    <2>7. Sound(c) /\ Lone(c)
      BY <1>2, <2>4, <2>6 DEF Sound, Lone, Killing
    <2>8. ASSUME Clear, ~broken' PROVE Trail(c)
      <3>1. Trail(call[t])
        BY <1>6, <2>8 DEF ServiceInv, TrailInv
      <3>2. file["server.pid"] = NoPid /\ file["pid"] = NoPid
        BY <1>2, <3>1 DEF Trail
      <3>3. \A f \in Files : c.at # KillAt[f]
        BY <2>4, StageNames
      <3>4. \A p \in Pids : state[p] # "booting"
        BY <1>2, <2>8, NoneBooting
      <3>5. Services \subseteq found
        BY <1>6, <2>8, <3>4 DEF Services, ServiceInv, WorldInv
      <3>6. QED
        BY <2>3, <2>4, <3>2, <3>3, <3>5 DEF Trail
    <2>9. /\ UNCHANGED <<state, port, file, kin, ending, innocent, calls, answer>> /\ up' = up
          /\ UNCHANGED <<crossed, usurped, wrongPid>> /\ broken' \in BOOLEAN /\ (broken => broken')
      BY <1>1, <1>6, HistoryTypes DEF world, server
    <2>10. Clear => ~(answer \in {"stopped", "not_running"})
      BY <1>2, Alone DEF Clear
    <2>11. QED
      BY <1>2, <1>3, <2>4, <2>5, <2>6, <2>7, <2>8, <2>9, <2>10, CallMoves, Alone, HistoryTypes
      DEF Clear
  <1>7. QED
    BY <1>4, <1>5, <1>6 DEF FindHolder

-----------------------------------------------------------------------------
(* The steps of the server.                                                 *)

\* A step that leaves the processes, the port, the files and the calls alone.
LEMMA ScheduleEndKeeps ==
  ASSUME ServiceInv, ScheduleEnd PROVE ServiceInv'
  <1>1. /\ ending' \in {"tree", "self"}
        /\ UNCHANGED <<state, port, file, kin, up, call, answer, calls>>
        /\ UNCHANGED <<crossed, broken, usurped, wrongPid, innocent>>
    BY DEF ScheduleEnd, world, history
  <1>2. Services' = Services /\ Active' = Active
    BY <1>1 DEF Services, Active
  <1>3. ServiceTypeOK'
    BY <1>1, <1>2 DEF ServiceInv, ServiceTypeOK
  <1>4. CallInv' /\ WorldInv' /\ OneCall'
    BY <1>1, <1>2 DEF ServiceInv, CallInv, Sound, WorldInv, OneCall
  <1>5. LoneInv'
    BY <1>1, <1>2 DEF ServiceInv, LoneInv, Lone, Clear
  <1>6. TrailInv'
    BY <1>1, <1>2 DEF ServiceInv, TrailInv, Trail, Named, Clear
  <1>7. QED
    BY <1>3, <1>4, <1>5, <1>6 DEF ServiceInv

\* The server ends: its calls end with it, and what it takes along leaves its
\* mark.
LEMMA ServerEndsKeeps ==
  ASSUME ServiceInv, ServerEnds PROVE ServiceInv'
  <1>1. PICK gone : gone = IF ending = "tree" THEN kin ELSE {}
    OBVIOUS
  <1>2. /\ state' = [p \in Pids |-> IF p \in gone THEN "free" ELSE state[p]]
        /\ port' = IF port \in gone THEN NoPid ELSE port
        /\ broken' = (broken \/ gone # {}) /\ crossed' = (crossed \/ Active # {})
        /\ up' = FALSE /\ ending' = "no" /\ kin' = {}
        /\ call' = [t \in Threads |-> Idle]
        /\ UNCHANGED <<file, answer, calls, usurped, wrongPid, innocent>>
    BY <1>1 DEF ServerEnds
  <1>3. /\ state \in [Pids -> States]
        /\ port \in {q \in Pids : state[q] \in Holding} \cup {NoPid}
        /\ kin \subseteq Services
    BY Zenon DEF ServiceInv, ServiceTypeOK
  <1>4. gone \subseteq Pids
    BY <1>1, <1>3 DEF Services
  <1>5. Services' = Services \ gone
    BY <1>2, <1>3 DEF Services
  <1>6. Active' = {} /\ \A t \in Threads : call'[t] = Idle
    BY <1>2, IdleKnowsNothing DEF Active
  <1>7. ServiceTypeOK'
    <2>1. state' \in [Pids -> States]
      BY <1>2, <1>3
    <2>2. (port \in {q \in Pids : state[q] \in Holding} \cup {NoPid})'
      BY <1>2, <1>3
    <2>3. call' \in [Threads -> Calls]
      BY <1>2, IdleIsCall
    <2>4. {crossed', broken', usurped', wrongPid'} \subseteq BOOLEAN /\ innocent' \subseteq Kinds
      BY <1>2, HistoryTypes
    <2>5. QED
      BY <1>2, <1>6, <2>1, <2>2, <2>3, <2>4 DEF ServiceInv, ServiceTypeOK
  <1>8. CallInv'
    BY <1>6, IdleKnowsNothing DEF CallInv, Sound, Killing
  <1>9. WorldInv'
    BY <1>2, <1>3 DEF ServiceInv, WorldInv
  <1>10. OneCall'
    BY <1>6 DEF OneCall
  <1>11. LoneInv'
    <2> SUFFICES ASSUME Clear, Active = {}
                 PROVE  LoneInv'
      BY <1>2, HistoryTypes DEF LoneInv, Clear
    <2>1. /\ \A p, q \in Services : p = q
          /\ \A p \in Pids : state[p] # "booting"
          /\ ~wrongPid
      <3>1. \A t \in Threads : call[t].mine = NoPid
        BY DEF Active, ServiceInv, CallInv, Sound, Awaiting
      <3>2. QED
        BY <3>1 DEF ServiceInv, LoneInv, Pids, NoPid
    <2>2. \A t \in Threads : Lone(call[t])'
      BY <1>6, IdleKnowsNothing DEF Lone, Awaiting
    <2>3. QED
      BY <1>2, <1>5, <2>1, <2>2 DEF LoneInv
  <1>12. TrailInv'
    <2> SUFFICES ASSUME Clear, Active = {}, ~broken, gone = {}
                 PROVE  TrailInv'
      BY <1>2, HistoryTypes DEF TrailInv, Clear
    <2>1. /\ \A f \in Files : file[f] \in Services \cup {NoPid}
          /\ answer \in {"stopped", "not_running"} => Services = {}
          /\ "stranger" \notin innocent
      <3>1. \A t \in Threads, f \in Files : call[t].at # UnlinkAt[f]
        BY StageNames DEF Active
      <3>2. QED
        BY <3>1 DEF ServiceInv, TrailInv, Named
    <2>2. \A t \in Threads : Trail(call[t])'
      BY <1>6, IdleKnowsNothing, StageNames DEF Trail, Later, Last, Stopping
    <2>3. QED
      BY <1>2, <1>5, <2>1, <2>2 DEF TrailInv, Named
  <1>13. QED
    BY <1>7, <1>8, <1>9, <1>10, <1>11, <1>12 DEF ServiceInv

\* lifespan: the calls of a new server begin where none was under way.
LEMMA ServerStartsKeeps ==
  ASSUME ServiceInv, NEW t \in Threads, ServerStarts(t) PROVE ServiceInv'
  <1>1. /\ ~up /\ calls < MaxCalls /\ up' = TRUE /\ calls' = calls + 1
        /\ call' = [call EXCEPT ![t].at = "health"] /\ answer' = "none"
        /\ UNCHANGED <<state, port, file, kin, ending>>
        /\ UNCHANGED <<crossed, broken, usurped, wrongPid, innocent>>
    BY DEF ServerStarts, world, history
  <1>2. Active = {}
    BY <1>1 DEF ServiceInv, ServiceTypeOK
  <1>3. call[t] = Idle
    BY <1>2 DEF Active, ServiceInv, CallInv, Sound
  <1>4. call[t].at = "idle" /\ call[t].mine = NoPid /\ call[t].hit = FALSE
    BY <1>3 DEF Idle
  <1>5. PICK c \in Calls :
          /\ call' = [call EXCEPT ![t] = c] /\ c.at = "health"
          /\ c.mine = call[t].mine /\ c.seen = call[t].seen /\ c.hit = call[t].hit
    <2>1. "health" \in Stages
      BY StagesAre
    <2>2. QED
      BY <1>1, <2>1, GotoCall
  <1>6. Sound(c) /\ Lone(c) /\ Trail(c)
    BY <1>4, <1>5, StageNames DEF Sound, Lone, Trail, Awaiting, Killing, Later, Last, Stopping
  <1>7. \A f \in Files : call[t].at # UnlinkAt[f]
    BY <1>4, StageNames
  <1>8. calls' \in 0..MaxCalls
    BY <1>1, HistoryTypes, ServiceAssumption
  <1>9. Clear' => Clear /\ ~wrongPid'
    BY <1>1 DEF Clear, ServiceInv, LoneInv
  <1>10. {crossed', broken', usurped', wrongPid'} \subseteq BOOLEAN
    BY <1>1, HistoryTypes
  <1>11. QED
    BY <1>1, <1>2, <1>4, <1>5, <1>6, <1>7, <1>8, <1>9, <1>10, CallMoves

-----------------------------------------------------------------------------
(* The service and other processes.                                         *)

\* A step of the world around the calls, which all stay where they are.
LEMMA WorldMoves ==
  ASSUME ServiceInv, UNCHANGED <<server, call, answer, calls>>,
         UNCHANGED <<broken, usurped, wrongPid, innocent>>, crossed' \in BOOLEAN,
         crossed => crossed',
         state' \in [Pids -> States],
         port' \in {p \in Pids : state'[p] \in Holding} \cup {NoPid},
         file' \in [Files -> Pids \cup {NoPid}],
         WorldInv', Services \subseteq Services', Clear' => Services' = Services,
         Clear' => \A p \in Pids : state'[p] = "booting" => state[p] = "booting",
         port # NoPid => port' = port,
         \A p \in Pids : state[p] = "sharing" => state'[p] = "sharing",
         \/ file' = file
         \/ Clear => /\ \E t \in Threads : call[t].at \in Awaiting
                     /\ \A f \in Files : file'[f] \in Services \cup {file[f]}
  PROVE  ServiceInv'
  <1>1. /\ kin' = kin /\ up' = up /\ ending' = ending /\ call' = call
        /\ answer' = answer /\ calls' = calls
    BY DEF server
  <1>2. Active' = Active
    BY <1>1 DEF Active
  <1>3. ServiceTypeOK'
    <2>1. (kin \subseteq Services)' /\ (up' \/ Active' = {})
      BY <1>1, <1>2, Zenon DEF ServiceInv, ServiceTypeOK
    <2>2. /\ kin' \subseteq Services' /\ up' \in BOOLEAN /\ ending' \in {"no", "tree", "self"}
      BY <1>1, <2>1 DEF ServiceInv, ServiceTypeOK
    <2>3. /\ {crossed', broken', usurped', wrongPid'} \subseteq BOOLEAN
          /\ innocent' \subseteq Kinds
          /\ call' \in [Threads -> Calls] /\ calls' \in 0..MaxCalls
          /\ answer' \in {"none", "already_running", "starting", "started", "error",
                          "stopped", "not_running"}
      BY <1>1, HistoryTypes
    <2>4. QED
      BY <2>1, <2>2, <2>3, Zenon DEF ServiceTypeOK
  <1>4. CallInv'
    BY <1>1 DEF ServiceInv, CallInv, Sound
  <1>5. OneCall'
    BY <1>1, <1>2 DEF ServiceInv, OneCall
  <1>6. LoneInv'
    <2> SUFFICES ASSUME Clear' PROVE LoneInv'
      BY DEF LoneInv
    <2>1. Clear /\ Services' = Services
      BY HistoryTypes DEF Clear
    <2>2. \A p \in Pids : state'[p] = "booting" => state[p] = "booting"
      OBVIOUS
    <2>3. QED
      BY <1>1, <2>1, <2>2 DEF ServiceInv, LoneInv, Lone
  <1>7. TrailInv'
    <2> SUFFICES ASSUME Clear', ~broken PROVE TrailInv'
      BY DEF TrailInv
    <2>1. Clear /\ Services' = Services /\ TrailInv
      BY HistoryTypes DEF Clear, ServiceInv
    <2>2. ASSUME file' # file
          PROVE  /\ \A t \in Threads : call[t].at \in Awaiting \cup {"idle"}
                 /\ \A f \in Files : file'[f] \in Services \cup {file[f]}
      <3>1. PICK t \in Threads : call[t].at \in Awaiting
        BY <2>1, <2>2
      <3>2. \A u \in Threads \ {t} : call[u].at = "idle"
        BY <2>1, <3>1, Alone, IdleKnowsNothing DEF Awaiting, Clear
      <3>3. QED
        BY <2>1, <2>2, <3>1, <3>2
    <2>3. ASSUME NEW t \in Threads PROVE Trail(call[t])'
      <3>1. CASE file' = file
        <4>1. Trail(call[t])
          BY <2>1 DEF TrailInv
        <4>2. call[t].left \subseteq Pids
          BY HistoryTypes DEF Calls
        <4>3. \A p \in call[t].left :
                p = port \/ state[p] = "sharing" => p = port' \/ state'[p] = "sharing"
          BY <4>2 DEF Pids, NoPid
        <4>4. QED
          BY <1>1, <2>1, <3>1, <4>1, <4>3 DEF Trail
      <3>2. CASE file' # file
        BY <1>1, <2>2, <3>2, StageNames, ZenonT(60) DEF Trail, Awaiting, Later, Last, Stopping
      <3>3. QED
        BY <3>1, <3>2
    <2>4. ASSUME NEW f \in Files PROVE Named(f)'
      <3>1. Named(f)
        BY <2>1 DEF TrailInv
      <3>2. CASE file' = file
        BY <1>1, <2>1, <3>1, <3>2 DEF Named
      <3>3. CASE file' # file
        <4>1. \A t \in Threads : call[t].at # UnlinkAt[f]
          BY <2>2, <3>3, StageNames DEF Awaiting
        <4>2. QED
          BY <2>1, <2>2, <3>1, <3>3, <4>1 DEF Named
      <3>4. QED
        BY <3>2, <3>3
    <2>5. QED
      BY <1>1, <2>1, <2>3, <2>4 DEF TrailInv
  <1>8. QED
    BY <1>3, <1>4, <1>5, <1>6, <1>7 DEF ServiceInv

LEMMA LiveAre ==
  ASSUME ServiceInv
  PROVE  /\ state \in [Pids -> States]
         /\ port \in {q \in Pids : state[q] \in Holding} \cup {NoPid}
         /\ file \in [Files -> Pids \cup {NoPid}]
         /\ WorldInv
  BY Zenon DEF ServiceInv, ServiceTypeOK

\* The service writes its PID while its launch waits for it, so no stop is under
\* way that would miss the file.
LEMMA WritePidKeeps ==
  ASSUME ServiceInv, NEW p \in Pids, WritePid(p) PROVE ServiceInv'
  <1>1. PICK f \in Files : file' = [file EXCEPT ![f] = p]
    BY DEF WritePid
  <1>2. /\ state[p] = "booting" /\ \A g \in Files : file[g] # p
        /\ state' = state /\ port' = port /\ UNCHANGED <<server, call, answer, calls>>
        /\ UNCHANGED <<crossed, broken, usurped, wrongPid, innocent>>
    BY DEF WritePid, history
  <1>3. /\ file' \in [Files -> Pids \cup {NoPid}] /\ p \in Services
        /\ \A g \in Files : file'[g] = p \/ file'[g] = file[g]
        /\ \A g \in Files : file'[g] = p => g = f
    BY <1>1, <1>2, LiveAre DEF Services
  <1>4. WorldInv'
    BY <1>1, <1>2, <1>3, LiveAre, StageNames DEF WorldInv
  <1>5. Clear => \E t \in Threads : call[t].at \in Awaiting
    <2> SUFFICES ASSUME Clear PROVE \E t \in Threads : call[t].at \in Awaiting
      OBVIOUS
    <2>1. PICK t \in Threads : call[t].mine = p
      BY <1>2 DEF ServiceInv, LoneInv
    <2>2. QED
      BY <2>1 DEF ServiceInv, CallInv, Sound, Pids, NoPid
  <1>6. Services' = Services
    BY <1>2 DEF Services
  <1>7. QED
    BY <1>1, <1>2, <1>3, <1>4, <1>5, <1>6, WorldMoves, LiveAre, HistoryTypes

LEMMA BindKeeps ==
  ASSUME ServiceInv, NEW p \in Pids, Bind(p) PROVE ServiceInv'
  <1>1. /\ state[p] = "booting" /\ port = NoPid
        /\ state' = [state EXCEPT ![p] = "bound"] /\ port' = p
        /\ file' = file /\ UNCHANGED <<server, call, answer, calls>>
        /\ UNCHANGED <<crossed, broken, usurped, wrongPid, innocent>>
    BY DEF Bind, history
  <1>2. Services' = Services
    BY <1>1, LiveAre DEF Services
  <1>3. state' \in [Pids -> States]
    BY <1>1, LiveAre
  <1>4. port' \in {q \in Pids : state'[q] \in Holding} \cup {NoPid}
    BY <1>1, LiveAre
  <1>5. WorldInv'
    BY <1>1, LiveAre DEF WorldInv, Pids, NoPid
  <1>6. \A q \in Pids : state'[q] = "booting" => state[q] = "booting"
    BY <1>1, LiveAre
  <1>7. QED
    BY <1>1, <1>2, <1>3, <1>4, <1>5, <1>6, WorldMoves, LiveAre, HistoryTypes

LEMMA ReadyKeeps ==
  ASSUME ServiceInv, NEW p \in Pids, Ready(p) \/ Unready(p) PROVE ServiceInv'
  <1>1. PICK s \in {"serving", "bound"} : state' = [state EXCEPT ![p] = s]
    BY DEF Ready, Unready
  <1>2. /\ state[p] \in {"bound", "serving"} /\ port' = port
        /\ file' = file /\ UNCHANGED <<server, call, answer, calls>>
        /\ UNCHANGED <<crossed, broken, usurped, wrongPid, innocent>>
    BY DEF Ready, Unready, history
  <1>3. Services' = Services
    BY <1>1, <1>2, LiveAre DEF Services
  <1>4. state' \in [Pids -> States]
    BY <1>1, LiveAre
  <1>5. port' \in {q \in Pids : state'[q] \in Holding} \cup {NoPid}
    BY <1>1, <1>2, LiveAre
  <1>6. WorldInv'
    BY <1>1, <1>2, LiveAre DEF WorldInv
  <1>7. \A q \in Pids : state'[q] = "booting" => state[q] = "booting"
    BY <1>1, LiveAre
  <1>8. QED
    BY <1>1, <1>2, <1>3, <1>4, <1>5, <1>6, <1>7, WorldMoves, LiveAre, HistoryTypes

LEMMA ByHandKeeps ==
  ASSUME ServiceInv, NEW p \in Pids, ByHand(p) PROVE ServiceInv'
  <1>1. /\ state[p] = "free" /\ state' = [state EXCEPT ![p] = "booting"] /\ crossed' = TRUE
        /\ port' = port /\ file' = file /\ UNCHANGED <<server, call, answer, calls>>
        /\ UNCHANGED <<broken, usurped, wrongPid, innocent>>
    BY DEF ByHand
  <1>2. state' \in [Pids -> States]
    BY <1>1, LiveAre
  <1>3. port' \in {q \in Pids : state'[q] \in Holding} \cup {NoPid}
    BY <1>1, LiveAre
  <1>4. WorldInv' /\ Services \subseteq Services'
    BY <1>1, LiveAre DEF WorldInv, Services
  <1>5. ~Clear'
    BY <1>1 DEF Clear
  <1>6. QED
    BY <1>1, <1>2, <1>3, <1>4, <1>5, WorldMoves, LiveAre

LEMMA OtherStartsKeeps ==
  ASSUME ServiceInv, NEW p \in Pids, OtherStarts(p) PROVE ServiceInv'
  <1>1. /\ state[p] = "free" /\ state' = [state EXCEPT ![p] = "other"]
        /\ port' = port /\ file' = file /\ UNCHANGED <<server, call, answer, calls>>
        /\ UNCHANGED <<crossed, broken, usurped, wrongPid, innocent>>
    BY DEF OtherStarts, history
  <1>2. state' \in [Pids -> States]
    BY <1>1, LiveAre
  <1>3. port' \in {q \in Pids : state'[q] \in Holding} \cup {NoPid}
    BY <1>1, LiveAre
  <1>4. WorldInv' /\ Services' = Services
    BY <1>1, LiveAre DEF WorldInv, Services
  <1>5. \A q \in Pids : state'[q] = "booting" => state[q] = "booting"
    BY <1>1, LiveAre
  <1>6. QED
    BY <1>1, <1>2, <1>3, <1>4, <1>5, WorldMoves, LiveAre, HistoryTypes

LEMMA OtherListensKeeps ==
  ASSUME ServiceInv, NEW p \in Pids, OtherListens(p) PROVE ServiceInv'
  <1>1. PICK s \in {"other", "mimic"} : state' = [state EXCEPT ![p] = s]
    BY DEF OtherListens
  <1>2. /\ state[p] = "other" /\ port = NoPid /\ port' = p
        /\ file' = file /\ UNCHANGED <<server, call, answer, calls>>
        /\ UNCHANGED <<crossed, broken, usurped, wrongPid, innocent>>
    BY DEF OtherListens, history
  <1>3. state' \in [Pids -> States]
    BY <1>1, LiveAre
  <1>4. port' \in {q \in Pids : state'[q] \in Holding} \cup {NoPid}
    BY <1>1, <1>2, LiveAre
  <1>5. WorldInv' /\ Services' = Services
    BY <1>1, <1>2, LiveAre DEF WorldInv, Services, Pids, NoPid
  <1>6. \A q \in Pids : state'[q] = "booting" => state[q] = "booting"
    BY <1>1, LiveAre
  <1>7. QED
    BY <1>1, <1>2, <1>3, <1>4, <1>5, <1>6, WorldMoves, LiveAre, HistoryTypes

LEMMA OtherSharesKeeps ==
  ASSUME ServiceInv, NEW p \in Pids, OtherShares(p) PROVE ServiceInv'
  <1>1. /\ state[p] = "other" /\ port # p /\ state' = [state EXCEPT ![p] = "sharing"]
        /\ port' = port /\ file' = file /\ UNCHANGED <<server, call, answer, calls>>
        /\ UNCHANGED <<crossed, broken, usurped, wrongPid, innocent>>
    BY DEF OtherShares, history
  <1>2. state' \in [Pids -> States]
    BY <1>1, LiveAre
  <1>3. port' \in {q \in Pids : state'[q] \in Holding} \cup {NoPid}
    BY <1>1, LiveAre
  <1>4. WorldInv' /\ Services' = Services
    BY <1>1, LiveAre DEF WorldInv, Services
  <1>5. \A q \in Pids : /\ state'[q] = "booting" => state[q] = "booting"
                        /\ state[q] = "sharing" => state'[q] = "sharing"
    BY <1>1, LiveAre
  <1>6. QED
    BY <1>1, <1>2, <1>3, <1>4, <1>5, WorldMoves, LiveAre, HistoryTypes

\* A process that ends by itself is another's, or leaves its mark.
LEMMA DieKeeps ==
  ASSUME ServiceInv, NEW p \in Pids, Die(p) PROVE ServiceInv'
  <1>1. /\ End({p}) /\ call' = [t \in Threads |-> Bereft(call[t], {p})]
        /\ broken' = (broken \/ p \in Services \/ \E t \in Threads : p \in call[t].left)
        /\ UNCHANGED <<file, up, ending, answer, calls, crossed, usurped, wrongPid, innocent>>
    BY DEF Die
  <1>2. call \in [Threads -> Calls] /\ \A t \in Threads : Bereft(call[t], {p}) \in Calls
    BY HistoryTypes DEF Bereft, Calls
  <1>3. call' \in [Threads -> Calls] /\ \A t \in Threads : call'[t] = Bereft(call[t], {p})
    BY <1>1, <1>2
  <1>4. \A t \in Threads : call'[t].at = call[t].at
    BY <1>2, <1>3 DEF Bereft, Calls
  <1>5. ~crossed /\ (\E t \in Threads : call'[t].at # "idle") => answer' = "none"
    BY <1>1, <1>4, Alone
  <1>6. broken' \in BOOLEAN /\ innocent' \subseteq Kinds
    BY <1>1, HistoryTypes
  <1>7. /\ Services' = Services \ {p}
        /\ ServiceTypeOK' /\ CallInv' /\ WorldInv' /\ OneCall' /\ LoneInv'
    <2>1. {} \in SUBSET Threads /\ Threads \ {} = Threads
      OBVIOUS
    <2>2. answer' \in {"none", "already_running", "starting", "started", "error",
                       "stopped", "not_running"}
      BY <1>1, HistoryTypes
    <2>3. QED
      BY <1>1, <1>3, <1>5, <1>6, <2>1, <2>2, EndKeeps
  <1>8. TrailInv'
    <2> SUFFICES ASSUME Clear, ~broken, p \notin Services, \A t \in Threads : p \notin call[t].left
                 PROVE  TrailInv'
      BY <1>1, HistoryTypes DEF TrailInv, Clear
    <2>1. /\ Services' = Services /\ (port # p => port' = port)
          /\ \A q \in Pids \ {p} : state'[q] = state[q]
      BY <1>1, <1>7 DEF End
    <2>2. \A t \in Threads : call'[t] = call[t]
      BY <1>3 DEF Bereft, ServiceInv, CallInv, Sound, Pids, NoPid
    <2>3. /\ TrailInv /\ file' = file
      BY <1>1 DEF ServiceInv
    <2>4. \A f \in Files : Named(f)'
      BY <2>1, <2>2, <2>3 DEF TrailInv, Named
    <2>5. ASSUME NEW t \in Threads PROVE Trail(call[t])'
      <3>1. Trail(call[t]) /\ call[t].left \subseteq Pids \ {p}
        BY <2>3, HistoryTypes DEF TrailInv, Calls
      <3>2. \A q \in call[t].left :
              q = port \/ state[q] = "sharing" => q = port' \/ state'[q] = "sharing"
        BY <2>1, <3>1
      <3>3. QED
        BY <2>1, <2>2, <2>3, <3>1, <3>2 DEF Trail
    <2>6. QED
      BY <1>1, <2>1, <2>3, <2>4, <2>5 DEF TrailInv
  <1>9. QED
    BY <1>7, <1>8 DEF ServiceInv

-----------------------------------------------------------------------------
(* The theorems.                                                            *)

LEMMA ServiceNext == ServiceInv /\ [Next]_vars => ServiceInv'
  <1> SUFFICES ASSUME ServiceInv, [Next]_vars PROVE ServiceInv'
    OBVIOUS
  <1>1. ASSUME NEW t \in Threads, BeginStart(t) \/ BeginStop(t) PROVE ServiceInv'
    <2>1. PICK stage \in First : Begin(t, stage)
      BY <1>1 DEF BeginStart, BeginStop, First
    <2>2. QED
      BY <2>1, BeginKeeps
  <1>2. ASSUME NEW t \in Threads, StartStep(t) PROVE ServiceInv'
    BY <1>2, HealthCheckKeeps, PortCheckKeeps, SpawnFailsKeeps, SpawnKeeps, PollHealthKeeps,
       PollExitKeeps, GiveUpKeeps, Zenon DEF StartStep
  <1>3. ASSUME NEW t \in Threads, StopStep(t) PROVE ServiceInv'
    <2>1. ASSUME NEW f \in Files,
                 ReadPid(t, f) \/ KillRead(t, f) \/ Unlink(t, f) \/ PidFileFails(t, f)
          PROVE  ServiceInv'
      BY <2>1, ReadPidKeeps, KillReadKeeps, UnlinkKeeps, PidFileFailsKeeps, Zenon
    <2>2. QED
      BY <1>3, <2>1, FindHolderKeeps, KillHolderKeeps, Zenon DEF StopStep
  <1>4. ASSUME NEW t \in Threads, TimePasses(t) \/ ServerStarts(t) PROVE ServiceInv'
    BY <1>4, TimePassesKeeps, ServerStartsKeeps, Zenon
  <1>5. ASSUME ScheduleEnd \/ ServerEnds PROVE ServiceInv'
    BY <1>5, ScheduleEndKeeps, ServerEndsKeeps, Zenon
  <1>6. ASSUME NEW p \in Pids,
               WritePid(p) \/ Bind(p) \/ Ready(p) \/ Unready(p) \/ Die(p)
                 \/ ByHand(p) \/ OtherStarts(p) \/ OtherListens(p) \/ OtherShares(p)
        PROVE  ServiceInv'
    BY <1>6, WritePidKeeps, BindKeeps, ReadyKeeps, DieKeeps, ByHandKeeps, OtherStartsKeeps,
       OtherListensKeeps, OtherSharesKeeps, Zenon
  <1>7. CASE UNCHANGED vars
    <2>1. /\ UNCHANGED <<state, port, file, server, call, answer, calls>>
          /\ UNCHANGED <<crossed, broken, usurped, wrongPid, innocent>>
      BY <1>7 DEF vars, world, history
    <2>2. Services' = Services
      BY <2>1 DEF Services
    <2>3. WorldInv' /\ Clear' = Clear
      BY <2>1, LiveAre DEF WorldInv, Clear
    <2>4. QED
      BY <2>1, <2>2, <2>3, WorldMoves, LiveAre, HistoryTypes
  <1>8. QED
    BY <1>1, <1>2, <1>3, <1>4, <1>5, <1>6, <1>7, Zenon DEF Next

LEMMA ServiceInvariant == Spec => []ServiceInv
  BY ServiceInit, ServiceNext, PTL DEF Spec

\* Whatever calls, processes and people do: the port belongs to a live process,
\* what a tree kill of the server reaches are live services, and no call is under
\* way while the server is down.
THEOREM ServiceTypes == Spec => []ServiceTypeOK
  <1>1. ServiceInv => ServiceTypeOK
    BY Zenon DEF ServiceInv
  <1>2. QED
    BY <1>1, ServiceInvariant, PTL

\* start_service, stop_service: two processes of the service live at once only
\* after calls that crossed or another program that answered for the service.
THEOREM NoSecondService == Spec => []TwoOnlyByRace
  <1>1. ServiceInv => TwoOnlyByRace
    <2> SUFFICES ASSUME ServiceInv, Clear PROVE ~(Cardinality(Services) > 1)
      BY DEF TwoOnlyByRace, Clear
    <2>1. \A p, q \in Services : p = q
      BY DEF ServiceInv, LoneInv
    <2>2. CASE Services = {}
      <3>1. Cardinality(Services) = 0
        BY <2>2, FS_EmptySet
      <3>2. QED
        BY <3>1
    <2>3. CASE Services # {}
      <3>1. PICK p : Services = {p}
        BY <2>1, <2>3
      <3>2. Cardinality(Services) = 1
        BY <3>1, FS_Singleton
      <3>3. QED
        BY <3>2
    <2>4. QED
      BY <2>2, <2>3
  <1>2. QED
    BY <1>1, ServiceInvariant, PTL

\* _await_service_health: "started" names the process that answers on the port,
\* unless calls crossed or another program answered.
THEOREM StartIsTrue == Spec => []StartedNamesTheServer
  <1>1. ServiceInv => StartedNamesTheServer
    BY DEF ServiceInv, LoneInv, Clear, StartedNamesTheServer
  <1>2. QED
    BY <1>1, ServiceInvariant, PTL

\* stop_service: when nothing crossed or broke, a stop leaves no process of the
\* service, whether its PID is in the first file, in the second or in none.
THEOREM StopIsComplete == Spec => []StopLeavesNothing
  <1>1. ServiceInv => StopLeavesNothing
    BY DEF ServiceInv, TrailInv, Clear, StopLeavesNothing
  <1>2. QED
    BY <1>1, ServiceInvariant, PTL

\* _kill_process_tree: a stop kills a process that is not the service's and has
\* no socket of the port's number only when a PID outlived its process.
THEOREM BystandersAreSafe == Spec => []BystanderNeedsStalePid
  <1>1. ServiceInv => BystanderNeedsStalePid
    BY DEF ServiceInv, TrailInv, Clear, BystanderNeedsStalePid
  <1>2. QED
    BY <1>1, ServiceInvariant, PTL
=============================================================================
