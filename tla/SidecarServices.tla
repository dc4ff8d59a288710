--------------------------- MODULE SidecarServices ---------------------------
(***************************************************************************)
(* One sidecar service (env_manager/service_manager.py) under concurrent   *)
(* start and stop calls, each on an executor thread of the server          *)
(* (env_manager/api/routes_ecosystem.py), and the end and the restart of   *)
(* the server itself (env_manager/server.py).  The service is external: it *)
(* may write its PID into one of the two PID files while it starts, binds  *)
(* the port or exits when the port is taken, answers health probes or not, *)
(* and may die at any time.  A PID is used again once its process is gone. *)
(***************************************************************************)
EXTENDS Integers, FiniteSets

CONSTANTS Threads,    \* executor threads that serve the calls
          MaxPid,     \* bound on the processes alive at once
          MaxCalls    \* bound on the start and stop calls

ASSUME ServiceAssumption == MaxPid \in Nat \ {0} /\ MaxCalls \in Nat

Pids  == 1..MaxPid
NoPid == 0
Files == {"server.pid", "pid"}

VARIABLES
  state,      \* per PID: "free", a service's "booting", "bound", "serving", or
              \* another process: "other", "mimic" if it answers health probes, or
              \* "sharing" if it has or had a socket of the port's number without
              \* listening there (an outgoing connection, UDP, another address)
  port,       \* the process that listens on the service's port
  file,       \* what the PID files hold
  kin,        \* the services this run of the server has started itself
  up, ending, \* the server runs; a delayed kill it has scheduled
  call,       \* per thread: its call
  answer,     \* what the last call answered
  calls,
  crossed,    \* history: calls, launches or people got in each other's way
  broken,     \* history: a process died on its own or would not die, a PID file stayed
  usurped,    \* history: a launch took another program's answer for its service's
  wrongPid,   \* history: a launch answered "started" for another process
  innocent    \* history: what a stop has killed that is not the service: a
              \* "listener" on the port, a "sharer" of its number, a "stranger"

world   == <<state, port, file>>
server  == <<kin, up, ending>>
history == <<crossed, broken, usurped, wrongPid, innocent>>
vars    == <<world, server, call, answer, calls, history>>

\* A call: where it is, the process it launched (NoPid once that is gone), the
\* PID that a stop read from a file, the PIDs its list of sockets still holds,
\* `terminated`, and whether STARTUP_TIMEOUT_S is over.
Idle == [at |-> "idle", mine |-> NoPid, seen |-> NoPid, left |-> {}, hit |-> FALSE,
         expired |-> FALSE]

Services == {p \in Pids : state[p] \in {"booting", "bound", "serving"}}
Healthy  == port # NoPid /\ state[port] \in {"serving", "mimic"}
Active   == {t \in Threads : call[t].at # "idle"}

\* Nothing runs, or a service of an earlier start does.
Init ==
  /\ \E p \in Pids \cup {NoPid} :
       /\ state = [q \in Pids |-> IF q = p THEN "serving" ELSE "free"] /\ port = p
       /\ kin \in {{}, {p} \ {NoPid}}
       /\ file \in {[f \in Files |-> IF f \in with THEN p ELSE NoPid] :
                     with \in {{}, {"server.pid"}, {"pid"}}}
  /\ up = TRUE /\ ending = "no"
  /\ call = [t \in Threads |-> Idle] /\ answer = "none" /\ calls = 0
  /\ crossed = FALSE /\ broken = FALSE /\ usurped = FALSE
  /\ wrongPid = FALSE /\ innocent = {}

-----------------------------------------------------------------------------
(* Helpers of the actions.                                                  *)

Answer(t, a)   == call' = [call EXCEPT ![t] = Idle] /\ answer' = a
Goto(t, stage) == call' = [call EXCEPT ![t].at = stage] /\ UNCHANGED answer

\* What a call knows once the processes in gone are no more: a launch that
\* polls one of them finds that it exited.
Bereft(c, gone) == IF c.mine \in gone THEN [c EXCEPT !.mine = NoPid] ELSE c

\* The processes in gone end: their port and their PIDs are free.
End(gone) ==
  /\ state' = [p \in Pids |-> IF p \in gone THEN "free" ELSE state[p]]
  /\ port' = IF port \in gone THEN NoPid ELSE port
  /\ kin' = kin \ gone

\* A call begins on a free thread.
Begin(t, stage) ==
  /\ up /\ t \notin Active /\ calls < MaxCalls
  /\ calls' = calls + 1
  /\ call' = [call EXCEPT ![t].at = stage] /\ answer' = "none"
  /\ crossed' = (crossed \/ Active # {})
  /\ UNCHANGED <<world, server, broken, usurped, wrongPid, innocent>>

-----------------------------------------------------------------------------
(* start_service.                                                           *)

BeginStart(t) == Begin(t, "health")

\* _preflight_service: a healthy service is left alone.
HealthCheck(t) ==
  /\ call[t].at = "health"
  /\ IF Healthy THEN Answer(t, "already_running") ELSE Goto(t, "port")
  /\ UNCHANGED <<world, server, calls, history>>

\* Mutant: only health counts; a port in use does not stop the launch.
PortCheck_Ignored(t) ==
  /\ call[t].at = "port"
  /\ Goto(t, "spawn")
  /\ UNCHANGED <<world, server, calls, history>>

\* ... nor is one launched while anything accepts connections on the port.
PortCheck(t) ==
  /\ call[t].at = "port"
  /\ IF port # NoPid THEN Answer(t, "starting") ELSE Goto(t, "spawn")
  /\ UNCHANGED <<world, server, calls, history>>

\* No project, no virtual environment, no process.
SpawnFails(t) ==
  /\ call[t].at = "spawn"
  /\ Answer(t, "error")
  /\ UNCHANGED <<world, server, calls, history>>

\* _launch_service up to _spawn_detached.
Spawn(t) ==
  /\ call[t].at = "spawn"
  /\ \E p \in Pids :
       /\ state[p] = "free"
       /\ state' = [state EXCEPT ![p] = "booting"] /\ kin' = kin \cup {p}
       /\ call' = [call EXCEPT ![t].at = "await", ![t].mine = p]
  /\ UNCHANGED <<port, file, up, ending, answer, calls, history>>

\* _await_service_health: whoever answers the probe, the launch has started.
PollHealth(t) ==
  /\ call[t].at = "await" /\ ~call[t].expired
  /\ IF Healthy THEN /\ Answer(t, "started")
                     /\ wrongPid' = (wrongPid \/ port # call[t].mine)
                     /\ usurped' = (usurped \/ state[port] = "mimic")
                ELSE Goto(t, "poll") /\ UNCHANGED <<wrongPid, usurped>>
  /\ UNCHANGED <<world, server, calls, crossed, broken, innocent>>

\* Mutant: a launch whose process has exited answers a status of its own.
PollExit_Exited(t) ==
  /\ call[t].at = "poll"
  /\ IF call[t].mine = NoPid THEN Answer(t, "exited") ELSE Goto(t, "await")
  /\ UNCHANGED <<world, server, calls, history>>

\* ... and a launch whose process has exited fails.
PollExit(t) ==
  /\ call[t].at = "poll"
  /\ IF call[t].mine = NoPid THEN Answer(t, "error") ELSE Goto(t, "await")
  /\ UNCHANGED <<world, server, calls, history>>

TimePasses(t) ==
  /\ call[t].at \in {"await", "poll"} /\ ~call[t].expired
  /\ call' = [call EXCEPT ![t].expired = TRUE]
  /\ UNCHANGED <<world, server, answer, calls, history>>

\* The launch stops waiting; the process may still be coming up.
GiveUp(t) ==
  /\ call[t].at = "await" /\ call[t].expired
  /\ Answer(t, "starting")
  /\ crossed' = (crossed \/ call[t].mine # NoPid)
  /\ UNCHANGED <<world, server, calls, broken, usurped, wrongPid, innocent>>

-----------------------------------------------------------------------------
(* stop_service.                                                            *)

\* The stages of _stop_via_pid_files for one file, and what follows them.
ReadAt   == [f \in Files |-> IF f = "pid" THEN "read pid" ELSE "read server.pid"]
KillAt   == [f \in Files |-> IF f = "pid" THEN "kill pid" ELSE "kill server.pid"]
UnlinkAt == [f \in Files |-> IF f = "pid" THEN "unlink pid" ELSE "unlink server.pid"]
AfterFile(f) == IF f = "server.pid" THEN "read pid" ELSE "holder"

BeginStop(t) == Begin(t, "read server.pid")

\* _kill_process_tree of p: the process is gone already, it is killed, or it may
\* not be killed.  after is the call that goes on, given whether anything was
\* terminated; kind is what p counts as if it is not the service.
KillSeen(t, p, kind, after) ==
  \/ /\ state[p] = "free"
     /\ call' = [call EXCEPT ![t] = after[call[t].hit]]
     /\ UNCHANGED <<state, port, kin, broken, innocent>>
  \/ /\ state[p] # "free"
     /\ End({p})
     /\ call' = [u \in Threads |-> IF u = t THEN after[TRUE] ELSE Bereft(call[u], {p})]
     /\ innocent' = innocent \cup (IF p \in Services THEN {} ELSE {kind})
     /\ UNCHANGED broken
  \/ /\ state[p] # "free"
     /\ call' = [call EXCEPT ![t] = after[FALSE]]
     /\ broken' = TRUE
     /\ UNCHANGED <<state, port, kin, innocent>>

\* One PID file: an absent one is passed over.
ReadPid(t, f) ==
  /\ call[t].at = ReadAt[f]
  /\ call' = [call EXCEPT ![t].seen = file[f],
                          ![t].at = IF file[f] = NoPid THEN AfterFile(f) ELSE KillAt[f]]
  /\ UNCHANGED <<world, server, answer, calls, history>>

KillRead(t, f) ==
  /\ call[t].at = KillAt[f]
  /\ KillSeen(t, call[t].seen, "stranger",
              [h \in BOOLEAN |-> [call[t] EXCEPT !.seen = NoPid, !.hit = h, !.at = UnlinkAt[f]]])
  /\ UNCHANGED <<file, up, ending, answer, calls, crossed, usurped, wrongPid>>

\* Mutant: the PID file stays.
Unlink_Never(t, f) ==
  /\ call[t].at = UnlinkAt[f]
  /\ Goto(t, AfterFile(f))
  /\ UNCHANGED <<world, server, calls, history>>

\* The file goes, whoever has written it meanwhile.
Unlink(t, f) ==
  /\ call[t].at = UnlinkAt[f]
  /\ file' = [file EXCEPT ![f] = NoPid]
  /\ Goto(t, AfterFile(f))
  /\ UNCHANGED <<state, port, server, calls, history>>

\* The file cannot be read, holds no number, or cannot be removed: it stays.
PidFileFails(t, f) ==
  /\ file[f] # NoPid /\ call[t].at \in {ReadAt[f], UnlinkAt[f]}
  /\ Goto(t, AfterFile(f))
  /\ broken' = TRUE
  /\ UNCHANGED <<world, server, calls, crossed, usurped, wrongPid, innocent>>

StopAnswer(h) == IF h THEN "stopped" ELSE "not_running"

\* Mutant: without a PID file the service is taken to be stopped.
FindHolder_FilesOnly(t) ==
  /\ call[t].at = "holder"
  /\ Answer(t, StopAnswer(call[t].hit))
  /\ UNCHANGED <<world, server, calls, history>>

\* The processes with a socket of the port's number: nobody asks whether they
\* listen.
PortUsers == {port} \cup {p \in Pids : state[p] = "sharing"}

\* Only a stop whose PID files led to no kill, and that finds the port in use,
\* lists the sockets; some or all of them may be hidden from it.
FindHolder(t) ==
  /\ call[t].at = "holder"
  /\ IF call[t].hit \/ port = NoPid
     THEN Answer(t, StopAnswer(call[t].hit)) /\ UNCHANGED broken
     ELSE \E found \in SUBSET PortUsers :
            /\ IF found = {} THEN Answer(t, "not_running")
               ELSE /\ call' = [call EXCEPT ![t].left = found, ![t].at = "kill holder"]
                    /\ UNCHANGED answer
            /\ broken' = (broken \/ port \notin found)
  /\ UNCHANGED <<world, server, calls, crossed, usurped, wrongPid, innocent>>

\* _stop_port_holder: one round of its loop, over the sockets in any order.
KillHolder(t) ==
  /\ call[t].at = "kill holder"
  /\ \E p \in call[t].left :
       LET rest == call[t].left \ {p}
           kind == IF port = p THEN "listener"
                   ELSE IF state[p] = "sharing" THEN "sharer" ELSE "stranger"
       IN /\ KillSeen(t, p, kind,
                      [h \in BOOLEAN |-> IF rest = {} THEN Idle
                                         ELSE [call[t] EXCEPT !.left = rest, !.hit = @ \/ h]])
          /\ answer' = IF rest = {} THEN StopAnswer(call[t].hit \/ state'[p] # state[p])
                       ELSE answer
  /\ UNCHANGED <<file, up, ending, calls, crossed, usurped, wrongPid>>

-----------------------------------------------------------------------------
(* The server.                                                              *)

\* stop_service for the server itself: its whole tree in half a second; and
\* /api/shutdown: only itself.
ScheduleEnd ==
  /\ up /\ ending = "no" /\ ending' \in {"tree", "self"}
  /\ UNCHANGED <<world, kin, up, call, answer, calls, history>>

\* The tree of the server holds every sidecar it launched; their PID files stay.
ServerEnds ==
  /\ up /\ ending # "no"
  /\ LET gone == IF ending = "tree" THEN kin ELSE {} IN
       /\ state' = [p \in Pids |-> IF p \in gone THEN "free" ELSE state[p]]
       /\ port' = IF port \in gone THEN NoPid ELSE port
       /\ broken' = (broken \/ gone # {})
  /\ crossed' = (crossed \/ Active # {})
  /\ up' = FALSE /\ ending' = "no" /\ kin' = {}
  /\ call' = [t \in Threads |-> Idle]
  /\ UNCHANGED <<file, answer, calls, usurped, wrongPid, innocent>>

\* lifespan: a new server starts every sidecar that is offline.
ServerStarts(t) ==
  /\ ~up /\ calls < MaxCalls
  /\ up' = TRUE /\ calls' = calls + 1
  /\ call' = [call EXCEPT ![t].at = "health"] /\ answer' = "none"
  /\ UNCHANGED <<world, kin, ending, history>>

-----------------------------------------------------------------------------
(* The service and other processes.                                         *)

WritePid(p) ==
  /\ state[p] = "booting" /\ \A f \in Files : file[f] # p
  /\ \E f \in Files : file' = [file EXCEPT ![f] = p]
  /\ UNCHANGED <<state, port, server, call, answer, calls, history>>

Bind(p) ==
  /\ state[p] = "booting" /\ port = NoPid
  /\ state' = [state EXCEPT ![p] = "bound"] /\ port' = p
  /\ UNCHANGED <<file, server, call, answer, calls, history>>

Ready(p) ==
  /\ state[p] = "bound" /\ state' = [state EXCEPT ![p] = "serving"]
  /\ UNCHANGED <<port, file, server, call, answer, calls, history>>

Unready(p) ==
  /\ state[p] = "serving" /\ state' = [state EXCEPT ![p] = "bound"]
  /\ UNCHANGED <<port, file, server, call, answer, calls, history>>

\* A process ends by itself: the service dies, or exits because the port is
\* taken, or another process ends, perhaps one that a stop is about to kill.
Die(p) ==
  /\ state[p] # "free"
  /\ End({p})
  /\ call' = [t \in Threads |-> Bereft(call[t], {p})]
  /\ broken' = (broken \/ p \in Services \/ \E t \in Threads : p \in call[t].left)
  /\ UNCHANGED <<file, up, ending, answer, calls, crossed, usurped, wrongPid, innocent>>

\* Somebody starts the service by hand, once; another process starts, takes the
\* port, or uses its number elsewhere.
ByHand(p) ==
  /\ state[p] = "free" /\ ~crossed
  /\ state' = [state EXCEPT ![p] = "booting"] /\ crossed' = TRUE
  /\ UNCHANGED <<port, file, server, call, answer, calls, broken, usurped, wrongPid, innocent>>

OtherStarts(p) ==
  /\ state[p] = "free" /\ state' = [state EXCEPT ![p] = "other"]
  /\ UNCHANGED <<port, file, server, call, answer, calls, history>>

OtherListens(p) ==
  /\ state[p] = "other" /\ port = NoPid /\ port' = p
  /\ \E kind \in {"other", "mimic"} : state' = [state EXCEPT ![p] = kind]
  /\ UNCHANGED <<file, server, call, answer, calls, history>>

OtherShares(p) ==
  /\ state[p] = "other" /\ port # p
  /\ state' = [state EXCEPT ![p] = "sharing"]
  /\ UNCHANGED <<port, file, server, call, answer, calls, history>>

StartStep(t) ==
  \/ HealthCheck(t) \/ PortCheck(t) \/ SpawnFails(t) \/ Spawn(t)
  \/ PollHealth(t) \/ PollExit(t) \/ GiveUp(t)

StopStep(t) ==
  \/ \E f \in Files : ReadPid(t, f) \/ KillRead(t, f) \/ Unlink(t, f) \/ PidFileFails(t, f)
  \/ FindHolder(t) \/ KillHolder(t)

Next ==
  \/ \E t \in Threads : BeginStart(t) \/ BeginStop(t) \/ StartStep(t) \/ StopStep(t)
                          \/ TimePasses(t) \/ ServerStarts(t)
  \/ ScheduleEnd \/ ServerEnds
  \/ \E p \in Pids : \/ WritePid(p) \/ Bind(p) \/ Ready(p) \/ Unready(p) \/ Die(p)
                     \/ ByHand(p) \/ OtherStarts(p) \/ OtherListens(p) \/ OtherShares(p)

Spec == Init /\ [][Next]_vars

-----------------------------------------------------------------------------
Stages == {"idle", "health", "port", "spawn", "await", "poll", "holder", "kill holder"}
            \cup {ReadAt[f] : f \in Files} \cup {KillAt[f] : f \in Files}
            \cup {UnlinkAt[f] : f \in Files}

Calls == [at : Stages, mine : Pids \cup {NoPid}, seen : Pids \cup {NoPid},
          left : SUBSET Pids, hit : BOOLEAN, expired : BOOLEAN]

States  == {"free", "booting", "bound", "serving", "other", "mimic", "sharing"}
Holding == {"bound", "serving", "other", "mimic"}
Kinds   == {"listener", "sharer", "stranger"}

\* Types; the port belongs to a live process, only live services are kin, and
\* no call is under way while the server is down.
ServiceTypeOK ==
  /\ state \in [Pids -> States]
  /\ port \in {p \in Pids : state[p] \in Holding} \cup {NoPid}
  /\ file \in [Files -> Pids \cup {NoPid}]
  /\ kin \subseteq Services /\ up \in BOOLEAN /\ ending \in {"no", "tree", "self"}
  /\ call \in [Threads -> Calls] /\ (up \/ Active = {})
  /\ answer \in {"none", "already_running", "starting", "started", "error",
                 "stopped", "not_running"}
  /\ calls \in 0..MaxCalls
  /\ {crossed, broken, usurped, wrongPid} \subseteq BOOLEAN
  /\ innocent \subseteq Kinds

\* Two processes of the service live at once only if two calls crossed, a launch
\* stopped waiting for a process that was still coming up, the server was
\* replaced in the middle of a call, somebody started the service by hand, or
\* another program that took the port answered for the service.
TwoOnlyByRace == Cardinality(Services) > 1 => crossed \/ usurped

\* With none of that, the PID that "started" reports is the process that
\* answers on the port, however often services died or were stopped before.
StartedNamesTheServer == wrongPid => crossed \/ usurped

\* After the answer of a stop no process of the service is left, whether or not
\* it wrote a PID file and into which of the two, and whoever else has a socket of
\* the port's number, unless something crossed, a kill was denied, the holder of
\* the port was hidden, a service died and its PID file outlived it, a process
\* died before its kill, a PID file could not be used, or a launch ended on
\* another program's answer.
StopLeavesNothing ==
  answer \in {"stopped", "not_running"} /\ Active = {} /\ Services # {} =>
    crossed \/ broken \/ usurped

\* A stop kills a stranger, a process that is not the service and has no socket
\* of the port's number, only when a PID outlived its process in a file or in the
\* call: the service died by itself or together with the server, a process died
\* between the list of the sockets and the kill, a file would not go, calls
\* crossed, or a launch that ended on another program's answer left a process
\* behind that writes its file behind the back of a stop.  A stop removes the file
\* it used, so starts and stops in turn never leave such a file.  Other programs
\* that listen on the port or share its number are no strangers: a stop kills
\* them with no stale PID at all, though service_manager.py:328 speaks of those
\* "listening on ``port``" only.
BystanderNeedsStalePid == "stranger" \in innocent => crossed \/ broken \/ usurped
=============================================================================
