---------------------------- MODULE ProcessRunner ----------------------------
(***************************************************************************)
(* How every pip and npm command runs (env_manager/utils.py): a child with *)
(* two pipes, a reader thread for each pipe, the queue between them and    *)
(* the consumer, the deadline and the kill, and around that the retry      *)
(* without pip's cache.  The child may hang, close its pipes, or start a   *)
(* process of its own, the kid, which inherits the pipes; the caller may   *)
(* drop the generator at any line.                                         *)
(***************************************************************************)
EXTENDS Integers, Sequences

CONSTANTS PipeSize,     \* lines a pipe holds before a writer blocks
          MaxLines,     \* bound on the lines written to a stream per attempt
          MaxAttempts   \* max_attempts of stream_pip_with_recovery

ASSUME RunnerAssumption ==
  PipeSize \in Nat \ {0} /\ MaxLines \in Nat /\ MaxAttempts \in Nat \ {0}

VARIABLES
  pc, attempt,          \* the consumer, in the code between two yields
  ending,               \* how the attempt ends, once the consumer knows
  late,                 \* the deadline of this attempt has passed
  child, kid,           \* the processes
  outcome,              \* what the child's exit means to the retry
  missed,               \* history: why the kill missed the kid, or "no"
  writers, pipe,        \* per stream: who holds its write end, lines inside
  closed,               \* per stream: our read end is closed
  reader, queue, open,  \* reader threads, their queue, streams without end mark
  written, delivered    \* history: lines written, lines handed to the consumer

consumer == <<pc, attempt, ending, open, delivered>>
procs    == <<child, kid, outcome, missed, writers, written>>
threads  == <<reader, queue, closed>>
vars     == <<consumer, late, procs, pipe, threads>>

Streams  == {"stdout", "stderr"}
Outcomes == {"ok", "corrupt", "other"}
Endings  == Outcomes \cup {"timeout", "unlaunched", "dropped"}
Stages   == {"launch", "get", "yield", "list", "kill", "join", "wait", "leave", "reap",
             "judge", "purge", "notice", "done"}

\* Orphaned: its parent had exited, and the listing of children did not show it;
\* late: it started after the listing; unlisted: psutil failed, and the list was
\* taken to be empty; refused: psutil could not kill it.
Misses == {"no", "orphaned", "late", "unlisted", "refused"}

NoLines == [s \in Streams |-> 0]

Init ==
  /\ pc = "launch" /\ attempt = 1 /\ ending = "none" /\ late = FALSE
  /\ child = "none" /\ kid = "none" /\ outcome = "none" /\ missed = "no"
  /\ writers = [s \in Streams |-> {}] /\ pipe = NoLines
  /\ closed = [s \in Streams |-> TRUE] /\ reader = [s \in Streams |-> "done"]
  /\ queue = <<>> /\ open = 0
  /\ written = NoLines /\ delivered = NoLines

-----------------------------------------------------------------------------
(* The child and the kid: nothing obliges them to do any of this.          *)

\* A write to a pipe that nobody reads any more ends the writer.
ChildWrites(s) ==
  /\ "child" \in writers[s] /\ child = "running"
  /\ ~closed[s] /\ pipe[s] < PipeSize /\ written[s] < MaxLines
  /\ pipe' = [pipe EXCEPT ![s] = @ + 1]
  /\ written' = [written EXCEPT ![s] = @ + 1]
  /\ UNCHANGED <<consumer, late, child, kid, outcome, missed, writers, threads>>

KidWrites(s) ==
  /\ "kid" \in writers[s]
  /\ ~closed[s] /\ pipe[s] < PipeSize /\ written[s] < MaxLines
  /\ pipe' = [pipe EXCEPT ![s] = @ + 1]
  /\ written' = [written EXCEPT ![s] = @ + 1]
  /\ UNCHANGED <<consumer, late, child, kid, outcome, missed, writers, threads>>

ChildCloses(s) ==
  /\ child = "running" /\ "child" \in writers[s]
  /\ writers' = [writers EXCEPT ![s] = @ \ {"child"}]
  /\ UNCHANGED <<consumer, late, child, kid, outcome, missed, written, pipe, threads>>

\* A kid inherits the write ends its parent has; one started once the kill has
\* listed the children is not found.
ChildSpawns ==
  /\ child = "running" /\ kid = "none"
  /\ kid' = "alive" /\ missed' = IF pc = "kill" THEN "late" ELSE "no"
  /\ writers' = [s \in Streams |->
                   IF "child" \in writers[s] THEN writers[s] \cup {"kid"} ELSE writers[s]]
  /\ UNCHANGED <<consumer, late, child, outcome, written, pipe, threads>>

Without(p) == [s \in Streams |-> writers[s] \ {p}]

ChildExits ==
  /\ child = "running"
  /\ child' = "gone" /\ outcome' \in Outcomes
  /\ writers' = Without("child")
  /\ UNCHANGED <<consumer, late, kid, missed, written, pipe, threads>>

KidExits ==
  /\ kid = "alive"
  /\ kid' = "gone" /\ writers' = Without("kid")
  /\ UNCHANGED <<consumer, late, child, outcome, missed, written, pipe, threads>>

\* The kid gives up the pipes and goes on in the background.
KidDetaches ==
  /\ kid = "alive" /\ \E s \in Streams : "kid" \in writers[s]
  /\ writers' = Without("kid")
  /\ UNCHANGED <<consumer, late, child, kid, outcome, missed, written, pipe, threads>>

DeadlinePasses ==
  /\ child # "none" /\ ~late /\ pc \in {"get", "yield", "join", "wait"}
  /\ late' = TRUE
  /\ UNCHANGED <<consumer, procs, pipe, threads>>

-----------------------------------------------------------------------------
(* _pump_stream, one thread per pipe.                                       *)

ReadLine(s) ==
  /\ reader[s] = "read" /\ pipe[s] > 0
  /\ pipe' = [pipe EXCEPT ![s] = @ - 1]
  /\ reader' = [reader EXCEPT ![s] = "put"]
  /\ UNCHANGED <<consumer, late, procs, queue, closed>>

ReadEnd(s) ==
  /\ reader[s] = "read" /\ pipe[s] = 0 /\ writers[s] = {}
  /\ reader' = [reader EXCEPT ![s] = "end"]
  /\ UNCHANGED <<consumer, late, procs, pipe, queue, closed>>

\* Back to readline, which raises when the stream was closed meanwhile.
PutLine(s) ==
  /\ reader[s] = "put"
  /\ queue' = Append(queue, [stream |-> s, end |-> FALSE])
  /\ reader' = [reader EXCEPT ![s] = IF closed[s] THEN "end" ELSE "read"]
  /\ UNCHANGED <<consumer, late, procs, pipe, closed>>

\* The `finally`: close the stream and leave the end mark.
PutEnd(s) ==
  /\ reader[s] = "end"
  /\ closed' = [closed EXCEPT ![s] = TRUE]
  /\ queue' = Append(queue, [stream |-> s, end |-> TRUE])
  /\ reader' = [reader EXCEPT ![s] = "done"]
  /\ UNCHANGED <<consumer, late, procs, pipe>>

ReaderStep(s) == ReadLine(s) \/ ReadEnd(s) \/ PutLine(s) \/ PutEnd(s)

-----------------------------------------------------------------------------
(* The consumer: stream_process_lines inside stream_command's `with Popen`.  *)

\* Popen fails, or the child starts and the readers with it.  A kid that an
\* earlier attempt left in the background is not followed any further.
Launch ==
  /\ pc = "launch"
  /\ late' = FALSE
  /\ \/ /\ ending' = "unlaunched" /\ pc' = "judge"
        /\ UNCHANGED <<procs, pipe, threads, open, delivered>>
     \/ /\ pc' = "get" /\ ending' = "none" /\ open' = 2
        /\ child' = "running" /\ kid' = "none" /\ outcome' = "none" /\ missed' = "no"
        /\ writers' = [s \in Streams |-> {"child"}]
        /\ pipe' = NoLines /\ written' = NoLines /\ delivered' = NoLines
        /\ closed' = [s \in Streams |-> FALSE]
        /\ reader' = [s \in Streams |-> "read"] /\ queue' = <<>>
  /\ UNCHANGED attempt

\* Mutant: the first end mark ends the loop.
Get_FirstEnd ==
  /\ pc = "get" /\ queue # <<>>
  /\ queue' = Tail(queue)
  /\ IF Head(queue).end
     THEN open' = open - 1 /\ pc' = "wait" /\ UNCHANGED delivered
     ELSE pc' = "yield" /\ delivered' = [delivered EXCEPT ![Head(queue).stream] = @ + 1]
          /\ UNCHANGED open
  /\ UNCHANGED <<attempt, ending, late, procs, pipe, reader, closed>>

\* sink.get finds something, however late it is; a line is yielded.
Get ==
  /\ pc = "get" /\ queue # <<>>
  /\ queue' = Tail(queue)
  /\ IF Head(queue).end
     THEN /\ open' = open - 1
          /\ pc' = IF open = 1 THEN "join" ELSE "get"
          /\ UNCHANGED delivered
     ELSE /\ pc' = "yield"
          /\ delivered' = [delivered EXCEPT ![Head(queue).stream] = @ + 1]
          /\ UNCHANGED open
  /\ UNCHANGED <<attempt, ending, late, procs, pipe, reader, closed>>

Resume ==
  /\ pc = "yield" /\ pc' = "get"
  /\ UNCHANGED <<attempt, ending, open, delivered, late, procs, pipe, threads>>

\* queue.Empty at the deadline.
GetTimeout ==
  /\ pc = "get" /\ queue = <<>> /\ late
  /\ pc' = "list"
  /\ UNCHANGED <<attempt, ending, open, delivered, late, procs, pipe, threads>>

\* _kill_tree, the listing: the children of a process that is gone may or may
\* not be found any more, and an error of psutil counts as no children.
List ==
  /\ pc = "list"
  /\ missed' \in {"no"} \cup (IF kid = "alive" THEN {"unlisted"} ELSE {})
                         \cup (IF kid = "alive" /\ child = "gone" THEN {"orphaned"} ELSE {})
  /\ pc' = "kill"
  /\ UNCHANGED <<attempt, ending, open, delivered, late, child, kid, outcome, writers,
                 written, pipe, threads>>

\* Mutant: only the child itself is killed.
Kill_ChildOnly ==
  /\ pc = "kill"
  /\ child' = "gone" /\ UNCHANGED kid
  /\ writers' = Without("child")
  /\ ending' = "timeout" /\ pc' = "leave"
  /\ UNCHANGED <<attempt, open, delivered, late, outcome, missed, written, pipe, threads>>

\* _kill_tree, the kill, and TimeoutExpired.  A kid whose kill is refused lives
\* on like one that was not listed.
Kill ==
  /\ pc = "kill"
  /\ child' = "gone"
  /\ \/ /\ missed = "no" /\ kid = "alive" /\ kid' = "gone"
        /\ writers' = [s \in Streams |-> {}]
        /\ UNCHANGED missed
     \/ /\ missed = "no" /\ kid = "alive" /\ missed' = "refused"
        /\ writers' = Without("child")
        /\ UNCHANGED kid
     \/ /\ missed # "no" \/ kid # "alive"
        /\ writers' = Without("child")
        /\ UNCHANGED <<kid, missed>>
  /\ ending' = "timeout" /\ pc' = "leave"
  /\ UNCHANGED <<attempt, open, delivered, late, outcome, written, pipe, threads>>

Join ==
  /\ pc = "join" /\ \A s \in Streams : reader[s] = "done"
  /\ pc' = "wait"
  /\ UNCHANGED <<attempt, ending, open, delivered, late, procs, pipe, threads>>

\* wait_or_kill, the child exits in time.
Wait ==
  /\ pc = "wait" /\ child = "gone"
  /\ ending' = outcome /\ pc' = "leave"
  /\ UNCHANGED <<attempt, open, delivered, late, procs, pipe, threads>>

\* wait_or_kill, a child that closed its pipes and runs on: it alone is killed.
WaitTimeout ==
  /\ pc = "wait" /\ child = "running" /\ late
  /\ child' = "gone" /\ writers' = Without("child")
  /\ ending' = "timeout" /\ pc' = "leave"
  /\ UNCHANGED <<attempt, open, delivered, late, kid, outcome, missed, written, pipe,
                 threads>>

\* The caller drops the generator at a line it was given: GeneratorExit.
Drop ==
  /\ pc = "yield"
  /\ ending' = "dropped" /\ pc' = "leave"
  /\ UNCHANGED <<attempt, open, delivered, late, procs, pipe, threads>>

\* Popen.__exit__ closes the pipes; closing waits for a reader that is inside
\* a read of that pipe.
Leave ==
  /\ pc = "leave" /\ \A s \in Streams : reader[s] # "read"
  /\ closed' = [s \in Streams |-> TRUE] /\ pc' = "reap"
  /\ UNCHANGED <<attempt, ending, open, delivered, late, procs, pipe, reader, queue>>

\* ... and waits for the child, however long that takes.
Reap ==
  /\ pc = "reap" /\ child # "running"
  /\ pc' = IF ending = "dropped" THEN "done" ELSE "judge"
  /\ UNCHANGED <<attempt, ending, open, delivered, late, procs, pipe, threads>>

\* Mutant: the attempts are counted one too far.
Judge_OneMore ==
  /\ pc = "judge"
  /\ pc' = IF ending = "corrupt" /\ attempt <= MaxAttempts THEN "purge" ELSE "done"
  /\ UNCHANGED <<attempt, ending, open, delivered, late, procs, pipe, threads>>

\* stream_pip_with_recovery: only a failure that looks like a corrupt cache
\* is tried again.
Judge ==
  /\ pc = "judge"
  /\ pc' = IF ending = "corrupt" /\ attempt < MaxAttempts THEN "purge" ELSE "done"
  /\ UNCHANGED <<attempt, ending, open, delivered, late, procs, pipe, threads>>

\* _purge_pip_cache: its failures are swallowed, so it always gets here.
Purge ==
  /\ pc = "purge" /\ pc' = "notice"
  /\ UNCHANGED <<attempt, ending, open, delivered, late, procs, pipe, threads>>

\* The notice of the retry is a line too: the caller may drop the generator.
Retry ==
  /\ pc = "notice"
  /\ \/ pc' = "launch" /\ attempt' = attempt + 1 /\ UNCHANGED ending
     \/ pc' = "done" /\ ending' = "dropped" /\ UNCHANGED attempt
  /\ UNCHANGED <<open, delivered, late, procs, pipe, threads>>

ConsumerStep ==
  \/ Launch \/ Get \/ Resume \/ GetTimeout \/ List \/ Kill \/ Join \/ Wait \/ WaitTimeout
  \/ Leave \/ Reap \/ Judge \/ Purge \/ Retry

Next ==
  \/ ConsumerStep \/ Drop \/ DeadlinePasses
  \/ ChildSpawns \/ ChildExits \/ KidExits \/ KidDetaches
  \/ \E s \in Streams : ChildWrites(s) \/ KidWrites(s) \/ ChildCloses(s) \/ ReaderStep(s)

\* The consumer, the readers and the clock go on; the child and the kid may hang.
Fairness ==
  /\ WF_vars(ConsumerStep) /\ WF_vars(DeadlinePasses)
  /\ \A s \in Streams : WF_vars(ReaderStep(s))

Spec == Init /\ [][Next]_vars /\ Fairness

-----------------------------------------------------------------------------
\* Types; no more than two streams are waited for, and no pipe overflows.
RunnerTypeOK ==
  /\ pc \in Stages /\ attempt \in 1..MaxAttempts
  /\ ending \in Endings \cup {"none"}
  /\ late \in BOOLEAN /\ missed \in Misses
  /\ child \in {"none", "running", "gone"} /\ kid \in {"none", "alive", "gone"}
  /\ outcome \in Outcomes \cup {"none"}
  /\ writers \in [Streams -> SUBSET {"child", "kid"}]
  /\ pipe \in [Streams -> 0..PipeSize] /\ closed \in [Streams -> BOOLEAN]
  /\ reader \in [Streams -> {"read", "put", "end", "done"}]
  /\ queue \in Seq([stream : Streams, end : BOOLEAN]) /\ open \in 0..2
  /\ written \in [Streams -> 0..MaxLines] /\ delivered \in [Streams -> 0..MaxLines]

\* The output handed to a parser is all of it: when an attempt is judged by the
\* child's exit code, every line that was written to either stream, by the
\* child or by the kid, has been handed over.
OutputIsComplete ==
  pc = "judge" /\ ending \in Outcomes => delivered = written

\* What timed out is over, which the rollback of an upgrade relies on: the
\* child is gone, and a kid that lives on was missed for a reason, or had let go of
\* the pipes and the child was killed for outliving them.  These exceptions are
\* what utils.py:226, "after killing the process tree", passes over.
TimeoutLeavesNothing ==
  pc \in {"judge", "done"} /\ ending = "timeout" =>
    /\ child = "gone"
    /\ kid = "alive" => missed # "no" \/ \A s \in Streams : "kid" \notin writers[s]

\* A kid that the kill missed holds a pipe open.
PipeHeld == missed # "no" /\ \E s \in Streams : "kid" \in writers[s]

\* Once its deadline has passed, an attempt comes to its end although the child
\* hangs, as long as it falls silent, the caller keeps asking, and no kid that
\* the kill missed holds a pipe: then the end of `with Popen` waits for the reader
\* that is inside it, which utils.py:181-182, "the whole run must finish within
\* ``timeout`` seconds", passes over.
HangIsCaught ==
  late ~> (~late \/ pc = "done" \/ ending = "dropped" \/ PipeHeld)
=============================================================================
