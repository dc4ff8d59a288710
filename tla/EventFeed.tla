------------------------------ MODULE EventFeed ------------------------------
(***************************************************************************)
(* The event log and the WebSocket feed (env_manager/api/state.py,         *)
(* env_manager/api/routes_ecosystem.py).  A pipeline thread records each   *)
(* event in the recent events and schedules a broadcast on the event loop; *)
(* an update job only schedules.  A broadcast is a task of its own that    *)
(* sends to one client after the other and may be suspended at each send,  *)
(* so broadcasts overtake each other.  A client is registered first and    *)
(* then sent the newest recorded events.  Recorded events are numbered in  *)
(* the order they are recorded.                                            *)
(***************************************************************************)
EXTENDS Integers, Sequences, SequencesExt

CONSTANTS Clients,     \* WebSocket connections
          MaxEvents,   \* bound on the recorded events
          Updates,     \* the events of update jobs, which are not recorded
          MaxRecent,   \* MAX_RECENT_EVENTS
          ReplayLimit  \* how many recorded events a new client is sent

ASSUME FeedAssumption ==
  /\ MaxEvents \in Nat /\ MaxRecent \in Nat \ {0} /\ ReplayLimit \in Nat \ {0}
  /\ Updates \cap Int = {}

VARIABLES
  last,       \* the number of the newest recorded event
  thread,     \* the pipeline thread: between record_event and the scheduling?
  emitted,    \* the update events scheduled so far
  ready,      \* broadcasts that have been scheduled and have not started
  left,       \* per running broadcast: the clients it has still to send to
  active,     \* active_connections
  handler,    \* per client: its handler
  alive,      \* per client: its socket is open
  replay,     \* per client: the numbers still to be replayed, an interval
  first,      \* history: the oldest recorded event a client was to be sent, and
  received    \* the recorded ones it has received; forgotten when its handler ends

log  == <<last, thread, emitted>>
vars == <<log, ready, left, active, handler, alive, replay, first, received>>

Recorded == 1..MaxEvents
Events   == Recorded \cup Updates
Empty    == [from |-> 1, to |-> 0]

Init ==
  /\ last = 0 /\ thread = "idle" /\ emitted = {}
  /\ ready = <<>> /\ left = [e \in Events |-> <<>>] /\ active = <<>>
  /\ handler = [c \in Clients |-> "new"] /\ alive = [c \in Clients |-> TRUE]
  /\ replay = [c \in Clients |-> Empty] /\ first = [c \in Clients |-> 0]
  /\ received = [c \in Clients |-> {}]

Disconnected(c) == RemoveFirst(active, c)

-----------------------------------------------------------------------------
(* The threads that publish.                                                *)

\* _publish_pipeline_event: record_event ...
Record ==
  /\ thread = "idle" /\ last < MaxEvents
  /\ last' = last + 1 /\ thread' = "recorded"
  /\ UNCHANGED <<emitted, ready, left, active, handler, alive, replay, first, received>>

\* ... and then run_coroutine_threadsafe.
Schedule ==
  /\ thread = "recorded"
  /\ ready' = Append(ready, last) /\ thread' = "idle"
  /\ UNCHANGED <<last, emitted, left, active, handler, alive, replay, first, received>>

\* The sink of _broadcast_from_thread.
PublishUpdate(u) ==
  /\ u \notin emitted /\ emitted' = emitted \cup {u}
  /\ ready' = Append(ready, u)
  /\ UNCHANGED <<last, thread, left, active, handler, alive, replay, first, received>>

-----------------------------------------------------------------------------
(* Tasks of the event loop.                                                 *)

\* broadcast takes a copy of the list of clients.
StartBroadcast ==
  /\ ready # <<>>
  /\ left' = [left EXCEPT ![Head(ready)] = active]
  /\ ready' = Tail(ready)
  /\ UNCHANGED <<log, active, handler, alive, replay, first, received>>

\* Mutant: a client whose socket is gone ends the broadcast.
Send_StopsAtGone(e) ==
  /\ left[e] # <<>>
  /\ LET c == Head(left[e]) IN
       IF alive[c]
       THEN /\ left' = [left EXCEPT ![e] = Tail(@)]
            /\ received' = [received EXCEPT ![c] = @ \cup ({e} \cap Recorded)]
            /\ UNCHANGED active
       ELSE left' = [left EXCEPT ![e] = <<>>] /\ active' = Disconnected(c) /\ UNCHANGED received
  /\ UNCHANGED <<log, ready, handler, alive, replay, first>>

\* One send of a broadcast; a client whose socket is gone is dropped.
Send(e) ==
  /\ left[e] # <<>>
  /\ left' = [left EXCEPT ![e] = Tail(@)]
  /\ LET c == Head(left[e]) IN
       IF alive[c]
       THEN received' = [received EXCEPT ![c] = @ \cup ({e} \cap Recorded)] /\ UNCHANGED active
       ELSE active' = Disconnected(c) /\ UNCHANGED received
  /\ UNCHANGED <<log, ready, handler, alive, replay, first>>

-----------------------------------------------------------------------------
(* websocket_logs, one handler per client.                                  *)

\* manager.connect.
Connect(c) ==
  /\ handler[c] = "new"
  /\ active' = Append(active, c)
  /\ handler' = [handler EXCEPT ![c] = "joined"]
  /\ UNCHANGED <<log, ready, left, alive, replay, first, received>>

\* Mutant: the slice is not clipped at the beginning of the log.
Snapshot_Unclipped(c) ==
  /\ handler[c] = "joined"
  /\ LET kept == last - ReplayLimit + 1 IN
       /\ replay' = [replay EXCEPT ![c] = [from |-> kept, to |-> last]]
       /\ first' = [first EXCEPT ![c] = kept]
  /\ handler' = [handler EXCEPT ![c] = "replay"]
  /\ UNCHANGED <<log, ready, left, active, alive, received>>

\* recent_events_snapshot: the newest of the events that are kept.
Snapshot(c) ==
  /\ handler[c] = "joined"
  /\ LET kept == Max({1, last - MaxRecent + 1, last - ReplayLimit + 1}) IN
       /\ replay' = [replay EXCEPT ![c] = [from |-> kept, to |-> last]]
       /\ first' = [first EXCEPT ![c] = kept]
  /\ handler' = [handler EXCEPT ![c] = "replay"]
  /\ UNCHANGED <<log, ready, left, active, alive, received>>

\* One send of the replay; then the handler only waits for the client.
Replay(c) ==
  /\ handler[c] = "replay" /\ alive[c]
  /\ IF replay[c].from <= replay[c].to
     THEN /\ received' = [received EXCEPT ![c] = @ \cup {replay[c].from}]
          /\ replay' = [replay EXCEPT ![c].from = @ + 1]
          /\ UNCHANGED handler
     ELSE handler' = [handler EXCEPT ![c] = "open"] /\ UNCHANGED <<received, replay>>
  /\ UNCHANGED <<log, ready, left, active, alive, first>>

\* The client goes away; nobody has noticed yet.
Lose(c) ==
  /\ handler[c] \in {"joined", "replay", "open"} /\ alive[c]
  /\ alive' = [alive EXCEPT ![c] = FALSE]
  /\ UNCHANGED <<log, ready, left, active, handler, replay, first, received>>

\* A send or receive of the handler raises: `finally` takes the client off the list.
Close(c) ==
  /\ handler[c] \in {"replay", "open"} /\ ~alive[c]
  /\ active' = Disconnected(c)
  /\ handler' = [handler EXCEPT ![c] = "closed"]
  /\ replay' = [replay EXCEPT ![c] = Empty]
  /\ first' = [first EXCEPT ![c] = 0] /\ received' = [received EXCEPT ![c] = {}]
  /\ UNCHANGED <<log, ready, left, alive>>

HandlerStep(c) == Snapshot(c) \/ Replay(c) \/ Close(c)

Next ==
  \/ Record \/ Schedule \/ \E u \in Updates : PublishUpdate(u)
  \/ StartBroadcast \/ \E e \in Events : Send(e)
  \/ \E c \in Clients : Connect(c) \/ HandlerStep(c) \/ Lose(c)

\* The loop runs its tasks, and a thread that recorded goes on to schedule.
Fairness ==
  /\ WF_vars(Schedule) /\ WF_vars(StartBroadcast)
  /\ \A e \in Events : WF_vars(Send(e))
  /\ \A c \in Clients : WF_vars(HandlerStep(c))

Spec == Init /\ [][Next]_vars /\ Fairness

-----------------------------------------------------------------------------
\* Types; a client is on the list at most once, and a replay starts at the first
\* event or later.
FeedTypeOK ==
  /\ last \in 0..MaxEvents /\ thread \in {"idle", "recorded"} /\ emitted \subseteq Updates
  /\ ready \in Seq(Events) /\ left \in [Events -> Seq(Clients)] /\ active \in Seq(Clients)
  /\ handler \in [Clients -> {"new", "joined", "replay", "open", "closed"}]
  /\ alive \in [Clients -> BOOLEAN]
  /\ replay \in [Clients -> [from : 1..(MaxEvents + 1), to : 0..MaxEvents]]
  /\ first \in [Clients -> 0..(MaxEvents + 1)]
  /\ received \in [Clients -> SUBSET Recorded]
  /\ \A i, j \in DOMAIN active : active[i] = active[j] => i = j

\* The event is on its way to the client.
OnItsWay(c, e) ==
  \/ e = last /\ thread = "recorded"
  \/ e \in Range(ready) \/ c \in Range(left[e])
  \/ handler[c] = "replay" /\ replay[c].from <= e /\ e <= replay[c].to

\* No gap: a connected client has every recorded event from the first one of its
\* replay on, or it is on its way, however the thread, the broadcasts and the
\* handler interleave while the client connects.
NoGap ==
  \A c \in Clients, e \in Recorded :
    handler[c] \in {"replay", "open"} /\ alive[c] /\ first[c] <= e /\ e <= last
      => e \in received[c] \/ OnItsWay(c, e)

\* Every recorded event reaches every client that stays, although broadcasts
\* wait for slow clients and drop those that are gone.
EventArrives ==
  \A c \in Clients, e \in Recorded :
    handler[c] \in {"replay", "open"} /\ first[c] <= e /\ e <= last
      ~> e \in received[c] \/ ~alive[c]
=============================================================================
