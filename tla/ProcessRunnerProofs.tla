-------------------------- MODULE ProcessRunnerProofs --------------------------
(***************************************************************************)
(* What a pip or npm command promises its caller, for pipes, outputs and   *)
(* attempts of any size: the output is whole and what timed out is over.   *)
(* The lines are counted where they are, delivered, in the queue, in a     *)
(* reader's hand or in a pipe, and the end marks are followed through the  *)
(* queue: the consumer stops at the second of them.                        *)
(***************************************************************************)
EXTENDS ProcessRunner, TLAPS

Entries == [stream : Streams, end : BOOLEAN]

IsMark(entry, s) == entry.stream = s /\ entry.end

\* Until the pipes are closed, what the readers know of them is so.
Attended == {"get", "yield", "list", "kill", "join", "wait", "leave"}
Leaving  == {"leave", "reap", "judge"}

\* One for a line of s, for a line in its reader's hand.
LineOf(entry, s) == IF entry.stream = s /\ ~entry.end THEN 1 ELSE 0
InHand(s) == IF reader[s] = "put" THEN 1 ELSE 0

\* tally[i]: the lines of s delivered once i more entries are taken.
Counts(s, tally) ==
  /\ tally[0] = delivered[s]
  /\ \A i \in 1..Len(queue) :
       tally[i] = tally[i - 1] + LineOf(queue[i], s)
  /\ tally[Len(queue)] + InHand(s) + pipe[s] = written[s]

\* No line is lost on its way to the consumer, and none comes twice.
Tallied == \A s \in Streams : \E tally \in [0..Len(queue) -> 0..MaxLines] : Counts(s, tally)

\* The end mark of a stream is in the queue, or still to come.
MarkIn(s)  == \E i \in 1..Len(queue) : IsMark(queue[i], s)
Pending(s) == reader[s] # "done" \/ MarkIn(s)
Awaited(s) == IF Pending(s) THEN 1 ELSE 0

\* A reader leaves one mark, and nothing after it; `open` counts those pending.
Marks ==
  /\ \A s \in Streams : reader[s] # "done" => ~MarkIn(s)
  /\ \A s \in Streams : reader[s] = "done" /\ ~MarkIn(s) =>
       \A i \in 1..Len(queue) : queue[i].stream # s
  /\ \A i, j \in 1..Len(queue) : i < j => ~IsMark(queue[i], queue[j].stream)
  /\ open = Awaited("stdout") + Awaited("stderr")

\* A reader that ended by itself has seen an empty pipe that nobody writes to.
EndsSeen ==
  pc \in Attended =>
    \A s \in Streams : /\ reader[s] \in {"end", "done"} => pipe[s] = 0 /\ writers[s] = {}
                       /\ closed[s] <=> reader[s] = "done"

\* Past the second end mark, everything that was written has been delivered.
AllIn ==
  pc \in {"join", "wait"} \/ (pc \in Leaving /\ ending \in Outcomes) =>
    \A s \in Streams : reader[s] = "done" /\ writers[s] = {} /\ delivered[s] = written[s]

\* The kill got the child, and the kid unless it was missed or off the pipes.
Over ==
  pc \in Leaving \cup {"done"} /\ ending = "timeout" =>
    /\ child = "gone"
    /\ kid = "alive" => missed # "no" \/ \A s \in Streams : "kid" \notin writers[s]

\* A purge is made for an attempt that has another one to follow.
Tries == pc \in {"purge", "notice"} => attempt < MaxAttempts

RunnerInv == RunnerTypeOK /\ Tallied /\ Marks /\ EndsSeen /\ AllIn /\ Over /\ Tries

-----------------------------------------------------------------------------
(* The queue between the readers and the consumer.                          *)

LEMMA AppendFacts ==
  ASSUME NEW q \in Seq(Entries), NEW e \in Entries
  PROVE  /\ Append(q, e) \in Seq(Entries) /\ Len(Append(q, e)) = Len(q) + 1
         /\ \A i \in 1..Len(q) : Append(q, e)[i] = q[i]
         /\ Append(q, e)[Len(q) + 1] = e
  OBVIOUS

LEMMA TailFacts ==
  ASSUME NEW q \in Seq(Entries), q # <<>>
  PROVE  /\ Tail(q) \in Seq(Entries) /\ Len(q) \in Nat \ {0} /\ Len(Tail(q)) = Len(q) - 1
         /\ Head(q) = q[1] /\ q[1] \in Entries
         /\ \A i \in 1..Len(q) - 1 : Tail(q)[i] = q[i + 1]
  OBVIOUS

LEMMA QueueType ==
  ASSUME RunnerTypeOK
  PROVE  /\ queue \in Seq(Entries) /\ Len(queue) \in Nat
         /\ \A i \in 1..Len(queue) : queue[i] \in Entries
  <1>1. queue \in Seq(Entries)
    BY Zenon DEF RunnerTypeOK, Entries
  <1>2. QED
    BY <1>1

LEMMA Numbers ==
  ASSUME RunnerTypeOK, NEW s \in Streams
  PROVE  /\ written[s] \in 0..MaxLines /\ delivered[s] \in 0..MaxLines /\ pipe[s] \in 0..PipeSize
         /\ written[s] \in Nat /\ delivered[s] \in Nat /\ pipe[s] \in Nat
  <1>1. /\ written \in [Streams -> 0..MaxLines] /\ delivered \in [Streams -> 0..MaxLines]
        /\ pipe \in [Streams -> 0..PipeSize]
    BY Zenon DEF RunnerTypeOK
  <1>2. QED
    BY <1>1, RunnerAssumption

\* While no entry comes or goes, a line may move between a writer, a pipe and a
\* reader's hand.
LEMMA QueueStays ==
  ASSUME RunnerInv, UNCHANGED <<delivered, queue, open>>,
         \A s \in Streams : reader'[s] = "done" <=> reader[s] = "done",
         \A s \in Streams :
           written'[s] - pipe'[s] - InHand(s)'
             = written[s] - pipe[s] - InHand(s),
         \A s \in Streams : written'[s] \in Int /\ pipe'[s] \in Int
  PROVE  Tallied' /\ Marks'
  <1>1. ASSUME NEW s \in Streams, NEW tally \in [0..Len(queue) -> 0..MaxLines], Counts(s, tally)
        PROVE  Counts(s, tally)'
    <2>1. /\ written[s] \in Int /\ pipe[s] \in Int /\ tally[Len(queue)] \in Int
          /\ InHand(s) \in Int /\ InHand(s)' \in Int
      <3>1. written[s] \in Int /\ pipe[s] \in Int
        BY Numbers DEF RunnerInv
      <3>2. tally[Len(queue)] \in 0..MaxLines
        BY QueueType DEF RunnerInv
      <3>3. QED
        BY <3>1, <3>2, RunnerAssumption DEF InHand
    <2>2. tally[Len(queue)] + InHand(s)' + pipe'[s] = written'[s]
      BY <1>1, <2>1, SMTT(30) DEF Counts
    <2>3. QED
      BY <1>1, <2>2 DEF Counts
  <1>2. Tallied'
    BY <1>1 DEF RunnerInv, Tallied
  <1>3. Marks'
    <2>1. \A s \in Streams : (MarkIn(s)' <=> MarkIn(s)) /\ (Pending(s)' <=> Pending(s))
      BY DEF MarkIn, Pending
    <2>2. open' = Awaited("stdout")' + Awaited("stderr")'
      BY <2>1 DEF RunnerInv, Marks, Streams, Awaited
    <2>3. QED
      BY <2>1, <2>2 DEF RunnerInv, Marks
  <1>4. QED
    BY <1>2, <1>3

\* A reader puts a line, which it had in hand, or its end mark.
LEMMA QueueGrows ==
  ASSUME RunnerInv, NEW s \in Streams, NEW e \in Entries, e.stream = s,
         reader[s] = IF e.end THEN "end" ELSE "put",
         queue' = Append(queue, e), UNCHANGED <<delivered, open, pipe, written>>,
         \A t \in Streams \ {s} : reader'[t] = reader[t],
         reader'[s] \in IF e.end THEN {"done"} ELSE {"read", "end"}
  PROVE  Tallied' /\ Marks'
  <1>0. PICK n : n = Len(queue)
    OBVIOUS
  <1>1. /\ n \in Nat /\ Len(queue') = n + 1 /\ queue'[n + 1] = e
        /\ \A i \in 1..n : queue'[i] = queue[i] /\ queue[i] \in Entries
    BY <1>0, QueueType, AppendFacts DEF RunnerInv
  <1>2. ASSUME NEW t \in Streams
        PROVE  \E tally \in [0..Len(queue') -> 0..MaxLines] : Counts(t, tally)'
    <2>1. PICK tally \in [0..n -> 0..MaxLines] : Counts(t, tally)
      BY <1>0 DEF RunnerInv, Tallied
    <2>2. /\ tally[0] = delivered[t] /\ tally[n] \in 0..MaxLines
          /\ \A i \in 1..n :
               tally[i] = tally[i - 1] + LineOf(queue[i], t)
          /\ tally[n] + InHand(t) + pipe[t] = written[t]
          /\ written[t] \in 0..MaxLines /\ pipe[t] \in Nat
      BY <1>0, <1>1, <2>1, SMTT(30) DEF Counts, RunnerInv, RunnerTypeOK
    <2>more. PICK last, more : /\ last = tally[n] + LineOf(e, t)
                            /\ more = [i \in 0..(n + 1) |-> IF i = n + 1 THEN last ELSE tally[i]]
      OBVIOUS
    <2>3. InHand(t) = LineOf(e, t) + InHand(t)'
      BY DEF LineOf, InHand, Entries
    <2>4. /\ last \in 0..MaxLines
          /\ last + InHand(t)' + pipe'[t] = written'[t]
      BY <2>more, <2>2, <2>3, RunnerAssumption DEF LineOf, InHand
    <2>5. more \in [0..(n + 1) -> 0..MaxLines]
      BY <1>1, <2>more, <2>1, <2>4
    <2>6. more[0] = delivered'[t] /\ more[n + 1] = last
      BY <1>1, <2>more, <2>2
    <2>7. \A i \in 1..(n + 1) :
            more[i] = more[i - 1] + LineOf(queue'[i], t)
      <3> SUFFICES ASSUME NEW i \in 1..(n + 1)
                   PROVE  more[i] = more[i - 1] + LineOf(queue'[i], t)
        OBVIOUS
      <3>1. CASE i = n + 1
        BY <1>1, <2>more, <3>1
      <3>2. CASE i # n + 1
        BY <1>1, <2>more, <2>2, <3>2
      <3>3. QED
        BY <3>1, <3>2
    <2>8. Counts(t, more)'
      BY <1>1, <2>4, <2>6, <2>7 DEF Counts
    <2>9. QED
      BY <1>1, <2>5, <2>8
  <1>3. \A t \in Streams : MarkIn(t)' <=> MarkIn(t) \/ (t = s /\ e.end)
    BY <1>0, <1>1 DEF MarkIn, IsMark
  <1>4. \A t \in Streams : Pending(t)' <=> Pending(t)
    BY <1>3 DEF Pending
  <1>5. open' = Awaited("stdout")' + Awaited("stderr")'
    BY <1>4 DEF RunnerInv, Marks, Streams, Awaited
  <1>6. ASSUME NEW t \in Streams, reader'[t] # "done" PROVE ~MarkIn(t)'
    BY <1>3, <1>6 DEF RunnerInv, Marks
  <1>7. ASSUME NEW t \in Streams, reader'[t] = "done", ~MarkIn(t)'
        PROVE  \A i \in 1..Len(queue') : queue'[i].stream # t
    <2>1. t # s
      BY <1>3, <1>7
    <2>2. \A i \in 1..n : queue[i].stream # t
      BY <1>0, <1>3, <1>7, <2>1 DEF RunnerInv, Marks
    <2>3. QED
      BY <1>1, <2>1, <2>2
  <1>8. ASSUME NEW i \in 1..Len(queue'), NEW j \in 1..Len(queue'), i < j
        PROVE  ~IsMark(queue'[i], queue'[j].stream)
    <2>1. i \in 1..n /\ queue'[i] = queue[i]
      BY <1>1, <1>8
    <2>2. CASE j = n + 1
      <3>1. ~MarkIn(s)
        BY DEF RunnerInv, Marks
      <3>2. QED
        BY <1>0, <1>1, <2>1, <2>2, <3>1 DEF MarkIn
    <2>3. CASE j # n + 1
      BY <1>0, <1>1, <1>8, <2>1, <2>3 DEF RunnerInv, Marks
    <2>4. QED
      BY <2>2, <2>3
  <1>9. Marks'
    BY <1>5, <1>6, <1>7, <1>8 DEF Marks
  <1>10. QED
    BY <1>2, <1>9 DEF Tallied

\* The consumer takes the first entry: a line it delivers, an end mark it counts.
LEMMA QueueShrinks ==
  ASSUME RunnerInv, queue # <<>>, queue' = Tail(queue),
         UNCHANGED <<pipe, written, reader>>,
         open' = open - (IF Head(queue).end THEN 1 ELSE 0),
         delivered' = IF Head(queue).end THEN delivered
                      ELSE [delivered EXCEPT ![Head(queue).stream] = @ + 1]
  PROVE  /\ Tallied' /\ Marks' /\ open' \in 0..2
         /\ delivered' \in [Streams -> 0..MaxLines]
  <1>0. PICK n, e : n = Len(queue) /\ e = queue[1]
    OBVIOUS
  <1>1. /\ n \in Nat \ {0} /\ Len(queue') = n - 1 /\ Head(queue) = e /\ e \in Entries
        /\ \A i \in 1..(n - 1) : queue'[i] = queue[i + 1]
    BY <1>0, QueueType, TailFacts DEF RunnerInv
  <1>2. \A i \in 1..n : queue[i] \in Entries
    BY <1>0, QueueType DEF RunnerInv
  <1>3. delivered \in [Streams -> 0..MaxLines] /\ open \in 0..2
    BY DEF RunnerInv, RunnerTypeOK
  <1>4. ASSUME NEW t \in Streams
        PROVE  /\ \E tally \in [0..Len(queue') -> 0..MaxLines] : Counts(t, tally)'
               /\ delivered'[t] \in 0..MaxLines
    <2>1. PICK tally \in [0..n -> 0..MaxLines] : Counts(t, tally)
      BY <1>0 DEF RunnerInv, Tallied
    <2>2. /\ tally[0] = delivered[t]
          /\ \A i \in 1..n :
               tally[i] = tally[i - 1] + LineOf(queue[i], t)
          /\ tally[n] + InHand(t) + pipe[t] = written[t]
      BY <1>0, <2>1 DEF Counts
    <2>rest. PICK rest : rest = [i \in 0..(n - 1) |-> tally[i + 1]]
      OBVIOUS
    <2>3. rest \in [0..(n - 1) -> 0..MaxLines]
      BY <1>1, <2>rest, <2>1
    <2>4. tally[1] = delivered'[t]
      <3>1. tally[1] = delivered[t] + LineOf(e, t)
        BY <1>1, <2>2
      <3>2. delivered'[t] = delivered[t] + LineOf(e, t)
        BY <1>1, <1>3 DEF LineOf, Entries
      <3>3. QED
        BY <3>1, <3>2
    <2>5. rest[0] = delivered'[t] /\ rest[n - 1] = tally[n]
      BY <1>1, <2>rest, <2>4
    <2>6. \A i \in 1..(n - 1) :
            rest[i] = rest[i - 1] + LineOf(queue'[i], t)
      BY <1>1, <2>rest, <2>2
    <2>7. rest[n - 1] + InHand(t)' + pipe'[t] = written'[t]
      BY <2>2, <2>5 DEF InHand
    <2>8. Counts(t, rest)'
      BY <1>1, <2>5, <2>6, <2>7 DEF Counts
    <2>9. QED
      BY <1>1, <2>1, <2>3, <2>4, <2>8
  <1>5. delivered' \in [Streams -> 0..MaxLines]
    BY <1>1, <1>3, <1>4 DEF Entries
  <1>6. \A i, j \in 1..n : i < j => ~IsMark(queue[i], queue[j].stream)
    BY <1>0 DEF RunnerInv, Marks
  <1>7. \A t \in Streams : MarkIn(t)' => MarkIn(t)
    BY <1>0, <1>1 DEF MarkIn
  <1>8. \A t \in Streams : MarkIn(t) /\ ~IsMark(e, t) => MarkIn(t)'
    <2> SUFFICES ASSUME NEW t \in Streams, NEW i \in 1..n, IsMark(queue[i], t), ~IsMark(e, t)
                 PROVE  MarkIn(t)'
      BY <1>0 DEF MarkIn
    <2>1. i - 1 \in 1..(n - 1) /\ queue'[i - 1] = queue[i]
      BY <1>1
    <2>2. QED
      BY <1>1, <2>1 DEF MarkIn
  <1>9. \A t \in Streams : IsMark(e, t) => \A i \in 1..(n - 1) : queue'[i].stream # t
    BY <1>1, <1>6 DEF IsMark
  <1>10. \A t \in Streams : IsMark(e, t) => MarkIn(t) /\ ~MarkIn(t)' /\ reader[t] = "done"
    <2>1. \A t \in Streams : IsMark(e, t) => MarkIn(t) /\ ~MarkIn(t)'
      BY <1>0, <1>1, <1>9 DEF MarkIn, IsMark
    <2>2. QED
      BY <2>1 DEF RunnerInv, Marks
  <1>11. open' = Awaited("stdout")' + Awaited("stderr")' /\ open' \in 0..2
    <2>1. open = Awaited("stdout") + Awaited("stderr")
      BY DEF RunnerInv, Marks
    <2>2. \A t \in Streams : Pending(t)' <=> Pending(t) /\ ~IsMark(e, t)
      BY <1>7, <1>8, <1>10 DEF Pending
    <2>3. \A t \in Streams : IsMark(e, t) => Pending(t)
      BY <1>10 DEF Pending
    <2>4. e.stream \in {"stdout", "stderr"} /\ (IsMark(e, e.stream) <=> e.end)
          /\ \A t \in Streams : IsMark(e, t) <=> t = e.stream /\ e.end
      BY <1>1 DEF IsMark, Entries, Streams
    <2>5. QED
      BY <1>1, <1>3, <2>1, <2>2, <2>3, <2>4 DEF Awaited, Streams
  <1>12. ASSUME NEW t \in Streams, reader'[t] = "done", ~MarkIn(t)'
         PROVE  \A i \in 1..(n - 1) : queue'[i].stream # t
    <2>1. CASE IsMark(e, t)
      BY <1>9, <2>1
    <2>2. CASE ~IsMark(e, t)
      <3>1. \A i \in 1..n : queue[i].stream # t
        BY <1>0, <1>8, <1>12, <2>2 DEF RunnerInv, Marks
      <3>2. QED
        BY <1>1, <3>1
    <2>3. QED
      BY <2>1, <2>2
  <1>13. \A i, j \in 1..(n - 1) : i < j => ~IsMark(queue'[i], queue'[j].stream)
    BY <1>1, <1>6
  <1>14. Marks'
    BY <1>1, <1>7, <1>11, <1>12, <1>13 DEF RunnerInv, Marks
  <1>15. QED
    BY <1>4, <1>5, <1>11, <1>14 DEF Tallied

LEMMA QueueUntouched ==
  ASSUME RunnerInv, UNCHANGED <<delivered, queue, open, reader, pipe, written>>
  PROVE  Tallied' /\ Marks'
  BY QueueStays, Numbers DEF InHand, RunnerInv

LEMMA InitInv == Init => RunnerInv
  <1> SUFFICES ASSUME Init PROVE RunnerInv
    OBVIOUS
  <1>1. RunnerTypeOK
    <2>1. NoLines \in [Streams -> 0..PipeSize] /\ NoLines \in [Streams -> 0..MaxLines]
      BY RunnerAssumption DEF NoLines
    <2>2. /\ pc \in Stages /\ attempt \in 1..MaxAttempts /\ open \in 0..2
          /\ queue \in Seq([stream : Streams, end : BOOLEAN])
      BY RunnerAssumption DEF Init, Stages
    <2>3. QED
      BY <2>1, <2>2 DEF Init, RunnerTypeOK, Misses
  <1>2. Len(queue) = 0 /\ 0..Len(queue) = {0} /\ 1..Len(queue) = {}
    BY DEF Init
  <1>3. Tallied
    <2> SUFFICES ASSUME NEW s \in Streams
                 PROVE  \E tally \in [0..Len(queue) -> 0..MaxLines] : Counts(s, tally)
      BY DEF Tallied
    <2>1. [i \in {0} |-> 0] \in [0..Len(queue) -> 0..MaxLines]
      BY <1>2, RunnerAssumption
    <2>2. /\ delivered[s] = 0 /\ written[s] = 0 /\ pipe[s] = 0 /\ InHand(s) = 0
      BY DEF Init, NoLines, InHand
    <2>3. Counts(s, [i \in {0} |-> 0])
      BY <1>2, <2>2 DEF Counts
    <2>4. QED
      BY <2>1, <2>3
  <1>4. Marks
    BY <1>2 DEF Marks, MarkIn, Pending, Awaited, Init, Streams
  <1>5. EndsSeen /\ AllIn /\ Over /\ Tries
    BY DEF Init, EndsSeen, AllIn, Over, Tries, Attended, Leaving
  <1>6. QED
    BY <1>1, <1>3, <1>4, <1>5 DEF RunnerInv

-----------------------------------------------------------------------------
(* The child and the kid.                                                   *)

\* A line is written while someone holds the pipe: no reader has seen its end.
LEMMA WriteKeeps ==
  ASSUME RunnerInv, NEW s \in Streams, ChildWrites(s) \/ KidWrites(s)
  PROVE  RunnerInv'
  <1>1. /\ writers[s] # {} /\ ~closed[s] /\ pipe[s] < PipeSize /\ written[s] < MaxLines
        /\ pipe' = [pipe EXCEPT ![s] = @ + 1] /\ written' = [written EXCEPT ![s] = @ + 1]
        /\ UNCHANGED <<pc, attempt, ending, open, delivered, late, child, kid, outcome>>
        /\ UNCHANGED <<missed, writers, reader, queue, closed>>
    BY DEF ChildWrites, KidWrites, consumer, threads
  <1>2. /\ pipe \in [Streams -> 0..PipeSize] /\ written \in [Streams -> 0..MaxLines]
    BY Zenon DEF RunnerInv, RunnerTypeOK
  <1>3. pipe' \in [Streams -> 0..PipeSize] /\ written' \in [Streams -> 0..MaxLines]
    BY <1>1, <1>2, RunnerAssumption
  <1>4. RunnerTypeOK'
    BY <1>1, <1>3 DEF RunnerInv, RunnerTypeOK
  <1>5. Tallied' /\ Marks'
    <2>1. \A t \in Streams : written'[t] \in Int /\ pipe'[t] \in Int
      BY <1>3, RunnerAssumption
    <2>2. \A t \in Streams : InHand(t)' = InHand(t) /\ InHand(t) \in Int
      BY <1>1 DEF InHand
    <2>3. \A t \in Streams : written'[t] - pipe'[t] = written[t] - pipe[t]
      BY <1>1, <1>2, RunnerAssumption
    <2>4. \A t \in Streams :
            written'[t] - pipe'[t] - InHand(t)' = written[t] - pipe[t] - InHand(t)
      BY <2>2, <2>3
    <2>5. QED
      BY <1>1, <2>1, <2>4, QueueStays
  <1>6. EndsSeen'
    BY <1>1, <1>2 DEF RunnerInv, EndsSeen
  <1>7. AllIn'
    BY <1>1 DEF RunnerInv, AllIn
  <1>8. Over' /\ Tries'
    BY <1>1 DEF RunnerInv, Over, Tries
  <1>9. QED
    BY <1>4, <1>5, <1>6, <1>7, <1>8 DEF RunnerInv

\* No process takes up a pipe that nobody holds, and after the child nothing
\* comes into being.
LEMMA ProcessKeeps ==
  ASSUME RunnerInv,
         \/ \E s \in Streams : ChildCloses(s)
         \/ ChildSpawns \/ ChildExits \/ KidExits \/ KidDetaches
  PROVE  RunnerInv'
  <1>1. /\ UNCHANGED <<pc, attempt, ending, open, delivered, late, pipe, written>>
        /\ UNCHANGED <<reader, queue, closed>>
    BY DEF ChildCloses, ChildSpawns, ChildExits, KidExits, KidDetaches, consumer, threads
  <1>2. /\ writers \in [Streams -> SUBSET {"child", "kid"}]
        /\ child \in {"none", "running", "gone"} /\ kid \in {"none", "alive", "gone"}
        /\ outcome \in Outcomes \cup {"none"} /\ missed \in Misses
    BY Zenon DEF RunnerInv, RunnerTypeOK
  <1>3. /\ writers' \in [Streams -> SUBSET {"child", "kid"}]
        /\ \A s \in Streams : writers[s] = {} => writers'[s] = {}
    BY <1>2 DEF ChildCloses, ChildSpawns, ChildExits, KidExits, KidDetaches, Without
  <1>4. /\ child' \in {"none", "running", "gone"} /\ kid' \in {"none", "alive", "gone"}
        /\ outcome' \in Outcomes \cup {"none"} /\ missed' \in Misses
    BY <1>2 DEF ChildCloses, ChildSpawns, ChildExits, KidExits, KidDetaches, Misses
  <1>5. child = "gone" => /\ child' = "gone" /\ missed' = missed
                          /\ kid' = "alive" => kid = "alive"
                          /\ \A s \in Streams : writers'[s] \subseteq writers[s]
    BY <1>2 DEF ChildCloses, ChildSpawns, ChildExits, KidExits, KidDetaches, Without
  <1>6. RunnerTypeOK'
    BY <1>1, <1>3, <1>4 DEF RunnerInv, RunnerTypeOK
  <1>7. Tallied' /\ Marks'
    BY <1>1, QueueUntouched
  <1>8. EndsSeen'
    BY <1>1, <1>3 DEF RunnerInv, EndsSeen
  <1>9. AllIn'
    BY <1>1, <1>3 DEF RunnerInv, AllIn
  <1>10. Over'
    BY <1>1, <1>5 DEF RunnerInv, Over
  <1>11. Tries'
    BY <1>1 DEF RunnerInv, Tries
  <1>12. QED
    BY <1>6, <1>7, <1>8, <1>9, <1>10, <1>11 DEF RunnerInv

-----------------------------------------------------------------------------
(* _pump_stream.                                                            *)

LEMMA ReadKeeps ==
  ASSUME RunnerInv, NEW s \in Streams, ReadLine(s) \/ ReadEnd(s)
  PROVE  RunnerInv'
  <1>1. /\ reader[s] = "read"
        /\ \/ pipe[s] > 0 /\ pipe' = [pipe EXCEPT ![s] = @ - 1]
                          /\ reader' = [reader EXCEPT ![s] = "put"]
           \/ pipe[s] = 0 /\ writers[s] = {} /\ pipe' = pipe
                          /\ reader' = [reader EXCEPT ![s] = "end"]
        /\ UNCHANGED <<pc, attempt, ending, open, delivered, late, child, kid, outcome>>
        /\ UNCHANGED <<missed, writers, written, queue, closed>>
    BY DEF ReadLine, ReadEnd, consumer, procs
  <1>2. /\ pipe \in [Streams -> 0..PipeSize] /\ written \in [Streams -> 0..MaxLines]
        /\ reader \in [Streams -> {"read", "put", "end", "done"}]
    BY Zenon DEF RunnerInv, RunnerTypeOK
  <1>3. /\ pipe' \in [Streams -> 0..PipeSize]
        /\ reader' \in [Streams -> {"read", "put", "end", "done"}]
    BY <1>1, <1>2, RunnerAssumption
  <1>4. RunnerTypeOK'
    BY <1>1, <1>3 DEF RunnerInv, RunnerTypeOK
  <1>5. \A t \in Streams : reader'[t] = "done" <=> reader[t] = "done"
    BY <1>1, <1>2
  <1>6. Tallied' /\ Marks'
    <2>1. \A t \in Streams : written'[t] \in Int /\ pipe'[t] \in Int
      BY <1>1, <1>2, <1>3, RunnerAssumption
    <2>2. \A t \in Streams : pipe'[t] + InHand(t)' = pipe[t] + InHand(t)
      BY <1>1, <1>2, RunnerAssumption DEF InHand
    <2>3. \A t \in Streams : InHand(t) \in Int /\ InHand(t)' \in Int /\ pipe[t] \in Int
      <3>1. \A t \in Streams : InHand(t) \in Int /\ InHand(t)' \in Int
        BY DEF InHand
      <3>2. \A t \in Streams : pipe[t] \in Int
        BY <1>2, RunnerAssumption
      <3>3. QED
        BY <3>1, <3>2
    <2>4. \A t \in Streams :
            written'[t] - pipe'[t] - InHand(t)' = written[t] - pipe[t] - InHand(t)
      <3> SUFFICES ASSUME NEW t \in Streams
                   PROVE  written'[t] - pipe'[t] - InHand(t)' = written[t] - pipe[t] - InHand(t)
        OBVIOUS
      <3>1. PICK w, p, h, p2, h2 : /\ w = written[t] /\ p = pipe[t] /\ h = InHand(t)
                                   /\ p2 = pipe'[t] /\ h2 = InHand(t)'
        OBVIOUS
      <3>2. w \in Int /\ p \in Int /\ h \in Int /\ p2 \in Int /\ h2 \in Int
        BY <1>1, <2>1, <2>3, <3>1
      <3>3. p2 + h2 = p + h
        BY <2>2, <3>1
      <3>4. w - p2 - h2 = w - p - h
        BY <3>2, <3>3
      <3>5. QED
        BY <1>1, <3>1, <3>4
    <2>5. QED
      BY <1>1, <1>5, <2>1, <2>4, QueueStays
  <1>7. EndsSeen'
    <2>1. \A t \in Streams : reader'[t] \in {"end", "done"} =>
            \/ reader[t] \in {"end", "done"} /\ pipe'[t] = pipe[t]
            \/ pipe'[t] = 0 /\ writers[t] = {}
      BY <1>1, <1>2
    <2>2. QED
      BY <1>1, <1>5, <2>1 DEF RunnerInv, EndsSeen
  <1>8. AllIn'
    BY <1>1, <1>5 DEF RunnerInv, AllIn
  <1>9. Over' /\ Tries'
    BY <1>1 DEF RunnerInv, Over, Tries
  <1>10. QED
    BY <1>4, <1>6, <1>7, <1>8, <1>9 DEF RunnerInv

LEMMA PutKeeps ==
  ASSUME RunnerInv, NEW s \in Streams, PutLine(s) \/ PutEnd(s)
  PROVE  RunnerInv'
  <1>1. PICK e \in Entries, next \in {"read", "end", "done"} :
          /\ e.stream = s /\ reader[s] = IF e.end THEN "end" ELSE "put"
          /\ next \in IF e.end THEN {"done"} ELSE {"read", "end"}
          /\ next = "end" => closed[s]
          /\ queue' = Append(queue, e) /\ reader' = [reader EXCEPT ![s] = next]
          /\ closed' = IF e.end THEN [closed EXCEPT ![s] = TRUE] ELSE closed
    <2>1. CASE PutLine(s)
      <3>1. PICK e : e = [stream |-> s, end |-> FALSE]
        OBVIOUS
      <3>2. e \in Entries /\ e.stream = s /\ ~e.end
        BY <3>1 DEF Entries
      <3>3. QED
        BY <2>1, <3>1, <3>2 DEF PutLine
    <2>2. CASE PutEnd(s)
      <3>1. PICK e : e = [stream |-> s, end |-> TRUE]
        OBVIOUS
      <3>2. e \in Entries /\ e.stream = s /\ e.end
        BY <3>1 DEF Entries
      <3>3. QED
        BY <2>2, <3>1, <3>2 DEF PutEnd
    <2>3. QED
      BY <2>1, <2>2
  <1>2. /\ UNCHANGED <<pc, attempt, ending, open, delivered, late, child, kid, outcome>>
        /\ UNCHANGED <<missed, writers, written, pipe>>
    BY DEF PutLine, PutEnd, consumer, procs
  <1>3. /\ reader \in [Streams -> {"read", "put", "end", "done"}]
        /\ closed \in [Streams -> BOOLEAN] /\ queue \in Seq(Entries)
    BY Zenon DEF RunnerInv, RunnerTypeOK, Entries
  <1>4. /\ reader' \in [Streams -> {"read", "put", "end", "done"}]
        /\ closed' \in [Streams -> BOOLEAN] /\ queue' \in Seq(Entries)
    <2>1. queue' \in Seq(Entries)
      BY <1>1, <1>3, AppendFacts
    <2>2. closed' \in [Streams -> BOOLEAN]
      BY <1>1, <1>3
    <2>3. reader' \in [Streams -> {"read", "put", "end", "done"}]
      BY <1>1, <1>3
    <2>4. QED
      BY <2>1, <2>2, <2>3
  <1>5. RunnerTypeOK'
    BY <1>2, <1>4 DEF RunnerInv, RunnerTypeOK, Entries
  <1>6. /\ reader'[s] = next /\ \A t \in Streams \ {s} : reader'[t] = reader[t]
        /\ closed'[s] = (e.end \/ closed[s]) /\ \A t \in Streams \ {s} : closed'[t] = closed[t]
    BY <1>1, <1>3 DEF Entries
  <1>7. Tallied' /\ Marks'
    BY <1>1, <1>2, <1>6, QueueGrows
  <1>8. EndsSeen'
    <2>1. ASSUME pc \in Attended
          PROVE  /\ \A t \in Streams : reader'[t] \in {"end", "done"} => reader[t] \in {"end", "done"}
                 /\ \A t \in Streams : closed'[t] <=> reader'[t] = "done"
      BY <1>1, <1>6, <2>1, ZenonT(60) DEF RunnerInv, EndsSeen, Entries
    <2>2. QED
      BY <1>2, <2>1 DEF RunnerInv, EndsSeen
  <1>9. AllIn'
    <2>1. reader[s] # "done"
      BY <1>1
    <2>2. QED
      BY <1>2, <2>1 DEF RunnerInv, AllIn
  <1>10. Over' /\ Tries'
    BY <1>2 DEF RunnerInv, Over, Tries
  <1>11. QED
    BY <1>5, <1>7, <1>8, <1>9, <1>10 DEF RunnerInv

-----------------------------------------------------------------------------
(* stream_process_lines and what is around it.                              *)

\* A launch that succeeds starts every count anew.
LEMMA LaunchKeeps ==
  ASSUME RunnerInv, Launch PROVE RunnerInv'
  <1>1. pc = "launch" /\ late' = FALSE /\ attempt' = attempt
    BY DEF Launch
  <1>2. CASE ending' = "unlaunched" /\ pc' = "judge" /\ UNCHANGED <<procs, pipe, threads, open, delivered>>
    <2>1. UNCHANGED <<child, kid, outcome, missed, writers, written, pipe>>
          /\ UNCHANGED <<reader, queue, closed, open, delivered>>
      BY <1>2 DEF procs, threads
    <2>2. RunnerTypeOK'
      BY <1>1, <1>2, <2>1 DEF RunnerInv, RunnerTypeOK, Endings, Stages
    <2>3. Tallied' /\ Marks'
      BY <2>1, QueueUntouched
    <2>4. EndsSeen' /\ AllIn' /\ Over' /\ Tries'
      BY <1>2 DEF EndsSeen, AllIn, Over, Tries, Attended, Leaving, Outcomes
    <2>5. QED
      BY <2>2, <2>3, <2>4 DEF RunnerInv
  <1>3. CASE /\ pc' = "get" /\ ending' = "none" /\ open' = 2
             /\ child' = "running" /\ kid' = "none" /\ outcome' = "none" /\ missed' = "no"
             /\ writers' = [s \in Streams |-> {"child"}]
             /\ pipe' = NoLines /\ written' = NoLines /\ delivered' = NoLines
             /\ closed' = [s \in Streams |-> FALSE]
             /\ reader' = [s \in Streams |-> "read"] /\ queue' = <<>>
    <2>1. RunnerTypeOK'
      <3>1. NoLines \in [Streams -> 0..PipeSize] /\ NoLines \in [Streams -> 0..MaxLines]
        BY RunnerAssumption DEF NoLines
      <3>2. /\ pc' \in Stages /\ attempt' \in 1..MaxAttempts /\ open' \in 0..2
            /\ queue' \in Seq([stream : Streams, end : BOOLEAN])
        BY <1>1, <1>3 DEF RunnerInv, RunnerTypeOK, Stages
      <3>3. QED
        BY <1>1, <1>3, <3>1, <3>2 DEF RunnerTypeOK, Misses
    <2>2. Len(queue') = 0 /\ 0..Len(queue') = {0} /\ 1..Len(queue') = {}
      BY <1>3
    <2>3. Tallied'
      <3> SUFFICES ASSUME NEW s \in Streams
                   PROVE  \E tally \in [0..Len(queue') -> 0..MaxLines] : Counts(s, tally)'
        BY DEF Tallied
      <3>1. [i \in {0} |-> 0] \in [0..Len(queue') -> 0..MaxLines]
        BY <2>2, RunnerAssumption
      <3>2. delivered'[s] = 0 /\ written'[s] = 0 /\ pipe'[s] = 0 /\ InHand(s)' = 0
        BY <1>3 DEF NoLines, InHand
      <3>3. Counts(s, [i \in {0} |-> 0])'
        BY <2>2, <3>2 DEF Counts
      <3>4. QED
        BY <3>1, <3>3
    <2>4. Marks'
      BY <1>3, <2>2 DEF Marks, MarkIn, Pending, Awaited, Streams
    <2>5. EndsSeen' /\ AllIn' /\ Over' /\ Tries'
      BY <1>3 DEF EndsSeen, AllIn, Over, Tries, Attended, Leaving
    <2>6. QED
      BY <2>1, <2>3, <2>4, <2>5 DEF RunnerInv
  <1>4. QED
    BY <1>2, <1>3 DEF Launch

\* After the second end mark no entry is left, so that nothing is underway.
AllTaken == \A s \in Streams : reader[s] = "done" /\ delivered[s] + pipe[s] = written[s]

LEMMA AllMarksTaken == RunnerTypeOK /\ Tallied /\ Marks /\ open = 0 => AllTaken
  <1> SUFFICES ASSUME RunnerTypeOK, Tallied, Marks, open = 0
               PROVE  AllTaken
    OBVIOUS
  <1>1. \A s \in Streams : ~Pending(s)
    BY DEF Marks, Awaited, Streams
  <1>2. \A s \in Streams : reader[s] = "done" /\ ~MarkIn(s)
    BY <1>1 DEF Pending
  <1>3. \A s \in Streams : \A i \in 1..Len(queue) : queue[i].stream # s
    BY <1>2 DEF Marks
  <1>4. Len(queue) = 0
    <2>1. ASSUME Len(queue) # 0 PROVE FALSE
      <3>1. 1 \in 1..Len(queue) /\ queue[1] \in Entries
        BY <2>1, QueueType
      <3>2. QED
        BY <1>3, <3>1 DEF Entries
    <2>2. QED
      BY <2>1
  <1>5. ASSUME NEW s \in Streams PROVE delivered[s] + pipe[s] = written[s]
    <2>1. PICK tally \in [0..Len(queue) -> 0..MaxLines] : Counts(s, tally)
      BY DEF Tallied
    <2>2. delivered[s] + InHand(s) + pipe[s] = written[s]
      BY <1>4, <2>1 DEF Counts
    <2>3. InHand(s) = 0 /\ delivered[s] \in Nat /\ pipe[s] \in Nat
      BY <1>2, Numbers DEF InHand
    <2>4. QED
      BY <2>2, <2>3
  <1>6. QED
    BY <1>2, <1>5 DEF AllTaken

LEMMA GetKeeps ==
  ASSUME RunnerInv, Get PROVE RunnerInv'
  <1>1. /\ pc = "get" /\ queue # <<>> /\ queue' = Tail(queue)
        /\ UNCHANGED <<attempt, ending, late, child, kid, outcome, missed, writers, written>>
        /\ UNCHANGED <<pipe, reader, closed>>
        /\ open' = open - (IF Head(queue).end THEN 1 ELSE 0)
        /\ delivered' = IF Head(queue).end THEN delivered
                        ELSE [delivered EXCEPT ![Head(queue).stream] = @ + 1]
        /\ pc' \in {"get", "join", "yield"} /\ (pc' = "join" => open' = 0)
    <2>1. open \in 0..2
      BY Zenon DEF RunnerInv, RunnerTypeOK
    <2>2. open - 0 = open /\ (open = 1 => open - 1 = 0)
      BY <2>1
    <2>3. QED
      BY <2>2 DEF Get, procs
  <1>2. /\ Tallied' /\ Marks' /\ open' \in 0..2
        /\ delivered' \in [Streams -> 0..MaxLines]
    BY <1>1, QueueShrinks
  <1>3. queue' \in Seq(Entries)
    BY <1>1, QueueType, TailFacts DEF RunnerInv
  <1>4. RunnerTypeOK'
    <2>1. pc' \in Stages
      BY <1>1 DEF Stages
    <2>2. QED
      BY <1>1, <1>2, <1>3, <2>1 DEF RunnerInv, RunnerTypeOK, Entries
  <1>5. EndsSeen'
    BY <1>1 DEF RunnerInv, EndsSeen, Attended
  <1>6. Over' /\ Tries'
    BY <1>1 DEF Over, Tries, Leaving
  <1>7. AllIn'
    <2>1. ASSUME pc' = "join"
          PROVE  \A s \in Streams : reader'[s] = "done" /\ writers'[s] = {} /\ delivered'[s] = written'[s]
      <3>1. AllTaken'
        <4>1. (RunnerTypeOK /\ Tallied /\ Marks /\ open = 0)' => AllTaken'
          BY AllMarksTaken, PTL
        <4>2. QED
          BY <1>1, <1>2, <1>4, <2>1, <4>1
      <3>2. \A s \in Streams : pipe'[s] = 0 /\ writers'[s] = {}
        BY <1>5, <2>1, <3>1 DEF EndsSeen, AllTaken, Attended
      <3>3. \A s \in Streams : delivered'[s] \in Nat
        BY <1>2, RunnerAssumption
      <3>4. QED
        BY <3>1, <3>2, <3>3 DEF AllTaken
    <2>2. QED
      BY <1>1, <2>1 DEF AllIn, Leaving
  <1>8. QED
    BY <1>2, <1>4, <1>5, <1>6, <1>7 DEF RunnerInv

\* Every other step of the consumer leaves the lines where they are.
LEMMA StepKeeps ==
  ASSUME RunnerInv,
         \/ Resume \/ GetTimeout \/ List \/ Kill \/ Join \/ Wait \/ WaitTimeout \/ Drop \/ Leave
         \/ Reap \/ Judge \/ Purge \/ Retry \/ DeadlinePasses
  PROVE  RunnerInv'
  <1>1. UNCHANGED <<delivered, queue, open, reader, pipe, written>>
    BY DEF Resume, GetTimeout, List, Kill, Join, Wait, WaitTimeout, Drop, Leave, Reap, Judge,
           Purge, Retry, DeadlinePasses, consumer, procs, threads
  <1>2. Tallied' /\ Marks'
    BY <1>1, QueueUntouched
  <1>3. /\ pc \in Stages /\ attempt \in 1..MaxAttempts /\ ending \in Endings \cup {"none"}
        /\ late \in BOOLEAN /\ missed \in Misses
        /\ child \in {"none", "running", "gone"} /\ kid \in {"none", "alive", "gone"}
        /\ outcome \in Outcomes \cup {"none"}
        /\ writers \in [Streams -> SUBSET {"child", "kid"}] /\ closed \in [Streams -> BOOLEAN]
    BY Zenon DEF RunnerInv, RunnerTypeOK
  <1>4. CASE Resume \/ GetTimeout \/ Join \/ Drop \/ Reap \/ Judge \/ Purge
    <2>1. UNCHANGED <<attempt, late, missed, child, kid, outcome, writers, closed>>
      BY <1>4 DEF Resume, GetTimeout, Join, Drop, Reap, Judge, Purge, procs, threads
    <2>2. /\ pc' \in Stages
          /\ ending' = ending \/ (pc = "yield" /\ pc' = "leave" /\ ending' = "dropped")
          /\ pc' \in Attended \ {"leave"} => pc \in Attended
          /\ pc' = "leave" => pc \in Attended /\ ending' = "dropped"
          /\ pc' = "join" => FALSE
          /\ pc' = "wait" => pc = "join"
          /\ pc' \in {"reap", "judge"} => pc \in Leaving
          /\ pc' = "done" => pc \in Leaving
          /\ pc' = "purge" => attempt < MaxAttempts
          /\ pc' = "notice" => pc = "purge"
      BY <1>4 DEF Resume, GetTimeout, Join, Drop, Reap, Judge, Purge, Stages, Attended, Leaving
    <2>3. RunnerTypeOK'
      BY <1>1, <1>3, <2>1, <2>2 DEF RunnerInv, RunnerTypeOK, Endings
    <2>4. EndsSeen'
      BY <1>1, <2>1, <2>2 DEF RunnerInv, EndsSeen, Attended
    <2>5. AllIn'
      BY <1>1, <2>1, <2>2 DEF RunnerInv, AllIn, Leaving, Outcomes
    <2>6. Over' /\ Tries'
      BY <1>1, <2>1, <2>2 DEF RunnerInv, Over, Tries, Leaving
    <2>7. QED
      BY <1>2, <2>3, <2>4, <2>5, <2>6 DEF RunnerInv
  <1>5. CASE List
    <2>1. /\ pc = "list" /\ pc' = "kill" /\ missed' \in Misses
          /\ UNCHANGED <<attempt, ending, late, child, kid, outcome, writers, closed>>
      BY <1>5 DEF List, threads, Misses
    <2>2. RunnerTypeOK'
      BY <1>1, <1>3, <2>1 DEF RunnerInv, RunnerTypeOK, Stages
    <2>3. EndsSeen' /\ AllIn' /\ Over' /\ Tries'
      BY <1>1, <2>1 DEF RunnerInv, EndsSeen, AllIn, Over, Tries, Attended, Leaving
    <2>4. QED
      BY <1>2, <2>2, <2>3 DEF RunnerInv
  <1>6. CASE Kill \/ WaitTimeout
    <2>1. /\ pc \in {"kill", "wait"} /\ pc' = "leave" /\ ending' = "timeout" /\ child' = "gone"
          /\ UNCHANGED <<attempt, late, outcome, closed>> /\ missed' \in Misses
          /\ kid' \in {kid, "gone"}
          /\ pc = "kill" => (kid' = "alive" => missed' # "no")
          /\ pc = "wait" => writers' = Without("child")
          /\ writers' \in [Streams -> SUBSET {"child", "kid"}]
          /\ \A s \in Streams : writers'[s] \subseteq writers[s]
      BY <1>3, <1>6 DEF Kill, WaitTimeout, Without, threads, Misses
    <2>2. RunnerTypeOK'
      BY <1>1, <1>3, <2>1 DEF RunnerInv, RunnerTypeOK, Stages, Endings
    <2>3. EndsSeen'
      BY <1>1, <2>1 DEF RunnerInv, EndsSeen, Attended
    <2>4. AllIn' /\ Tries'
      BY <2>1 DEF AllIn, Tries, Outcomes
    <2>5. Over'
      BY <2>1 DEF RunnerInv, AllIn, Over
    <2>6. QED
      BY <1>2, <2>2, <2>3, <2>4, <2>5 DEF RunnerInv
  <1>7. CASE Wait
    <2>1. /\ pc = "wait" /\ pc' = "leave" /\ ending' = outcome
          /\ UNCHANGED <<attempt, late, missed, child, kid, outcome, writers, closed>>
      BY <1>7 DEF Wait, procs, threads
    <2>2. RunnerTypeOK'
      BY <1>1, <1>3, <2>1 DEF RunnerInv, RunnerTypeOK, Stages, Endings
    <2>3. EndsSeen' /\ AllIn'
      BY <1>1, <2>1 DEF RunnerInv, EndsSeen, AllIn, Attended
    <2>4. Over' /\ Tries'
      BY <1>3, <2>1 DEF Over, Tries, Outcomes
    <2>5. QED
      BY <1>2, <2>2, <2>3, <2>4 DEF RunnerInv
  <1>8. CASE Leave
    <2>1. /\ pc = "leave" /\ pc' = "reap" /\ closed' = [s \in Streams |-> TRUE]
          /\ UNCHANGED <<attempt, ending, late, missed, child, kid, outcome, writers>>
      BY <1>8 DEF Leave, procs
    <2>2. RunnerTypeOK'
      BY <1>1, <1>3, <2>1 DEF RunnerInv, RunnerTypeOK, Stages
    <2>3. EndsSeen' /\ AllIn' /\ Over' /\ Tries'
      BY <1>1, <2>1 DEF RunnerInv, EndsSeen, AllIn, Over, Tries, Attended, Leaving
    <2>4. QED
      BY <1>2, <2>2, <2>3 DEF RunnerInv
  <1>9. CASE Retry
    <2>1. /\ pc = "notice" /\ UNCHANGED <<late, missed, child, kid, outcome, writers, closed>>
          /\ \/ pc' = "launch" /\ attempt' = attempt + 1 /\ ending' = ending
             \/ pc' = "done" /\ attempt' = attempt /\ ending' = "dropped"
      BY <1>9 DEF Retry, procs, threads
    <2>2. attempt' \in 1..MaxAttempts
      BY <1>3, <2>1, RunnerAssumption DEF RunnerInv, Tries
    <2>3. RunnerTypeOK'
      BY <1>1, <1>3, <2>1, <2>2 DEF RunnerInv, RunnerTypeOK, Stages, Endings
    <2>4. EndsSeen' /\ AllIn' /\ Over' /\ Tries'
      BY <2>1 DEF EndsSeen, AllIn, Over, Tries, Attended, Leaving
    <2>5. QED
      BY <1>2, <2>3, <2>4 DEF RunnerInv
  <1>10. CASE DeadlinePasses
    <2>1. late' = TRUE /\ UNCHANGED <<pc, attempt, ending, missed, child, kid, outcome, writers, closed>>
      BY <1>10 DEF DeadlinePasses, consumer, procs, threads
    <2>2. RunnerTypeOK'
      BY <1>1, <1>3, <2>1 DEF RunnerInv, RunnerTypeOK
    <2>3. EndsSeen' /\ AllIn' /\ Over' /\ Tries'
      BY <1>1, <2>1 DEF RunnerInv, EndsSeen, AllIn, Over, Tries
    <2>4. QED
      BY <1>2, <2>2, <2>3 DEF RunnerInv
  <1>11. QED
    BY <1>4, <1>5, <1>6, <1>7, <1>8, <1>9, <1>10

LEMMA NextKeeps == RunnerInv /\ [Next]_vars => RunnerInv'
  <1> SUFFICES ASSUME RunnerInv, [Next]_vars PROVE RunnerInv'
    OBVIOUS
  <1>1. CASE UNCHANGED vars
    <2>1. /\ UNCHANGED <<pc, attempt, ending, open, delivered, late, child, kid, outcome>>
          /\ UNCHANGED <<missed, writers, written, pipe, reader, queue, closed>>
      BY <1>1 DEF vars, consumer, procs, threads
    <2>2. Tallied' /\ Marks'
      BY <2>1, QueueUntouched
    <2>3. RunnerTypeOK'
      BY <2>1 DEF RunnerInv, RunnerTypeOK
    <2>4. EndsSeen' /\ AllIn' /\ Over' /\ Tries'
      BY <2>1 DEF RunnerInv, EndsSeen, AllIn, Over, Tries
    <2>5. QED
      BY <2>2, <2>3, <2>4 DEF RunnerInv
  <1>2. CASE Next
    BY <1>2, LaunchKeeps, GetKeeps, StepKeeps, ProcessKeeps, WriteKeeps, ReadKeeps, PutKeeps, Zenon
    DEF Next, ConsumerStep, ReaderStep
  <1>3. QED
    BY <1>1, <1>2

LEMMA RunnerInvariant == Spec => []RunnerInv
  BY InitInv, NextKeeps, PTL DEF Spec

-----------------------------------------------------------------------------
\* stream_process_lines and stream_pip_with_recovery: the consumer waits for two
\* streams at most, no pipe holds more than it can, no more lines are delivered
\* than a stream may bring, and no attempt is made past max_attempts.
THEOREM RunnerTypes == Spec => []RunnerTypeOK
  <1>1. RunnerInv => RunnerTypeOK
    BY DEF RunnerInv
  <1>2. QED
    BY <1>1, RunnerInvariant, PTL

\* stream_process_lines: whatever the readers, the child and the kid do in which
\* order, an attempt that is judged by the child's exit code has handed over
\* every line that was written, each once.
THEOREM OutputIsWhole == Spec => []OutputIsComplete
  <1>1. RunnerInv => OutputIsComplete
    <2> SUFFICES ASSUME RunnerInv, pc = "judge", ending \in Outcomes
                 PROVE  delivered = written
      BY DEF OutputIsComplete
    <2>1. \A s \in Streams : delivered[s] = written[s]
      BY DEF RunnerInv, AllIn, Leaving
    <2>2. delivered \in [Streams -> 0..MaxLines] /\ written \in [Streams -> 0..MaxLines]
      BY Zenon DEF RunnerInv, RunnerTypeOK
    <2>3. QED
      BY <2>1, <2>2
  <1>2. QED
    BY <1>1, RunnerInvariant, PTL

\* _kill_tree and wait_or_kill: what timed out is over, but for a kid that the
\* listing did not show or failed to show, that could not be killed, or that had
\* let go of the pipes.
THEOREM TimeoutIsFinal == Spec => []TimeoutLeavesNothing
  <1>1. RunnerInv => TimeoutLeavesNothing
    BY DEF RunnerInv, Over, Leaving, TimeoutLeavesNothing
  <1>2. QED
    BY <1>1, RunnerInvariant, PTL
=============================================================================
