--------------------------- MODULE EventFeedProofs ---------------------------
(***************************************************************************)
(* No recorded event is lost between the threads that publish and a client *)
(* that connects meanwhile, for any number of clients, events and updates. *)
(* The argument follows one event to one client: from the thread to the    *)
(* scheduled broadcasts, from there to the copy of the list of clients     *)
(* that a broadcast takes, and from the copy to the client.  It needs that *)
(* a client whose socket is open is on the list at that moment.            *)
(***************************************************************************)
EXTENDS EventFeed, SequenceTheorems, TLAPS

\* A client that has not connected yet is not on the list and still there, and a connected
\* client whose socket is open is.
OnList ==
  \A c \in Clients :
    /\ handler[c] = "new" => c \notin Range(active) /\ alive[c]
    /\ handler[c] \in {"joined", "replay", "open"} /\ alive[c] => c \in Range(active)

\* The thread that goes on to schedule has recorded an event.
Numbered == thread = "recorded" => last \in Recorded

FeedInv == FeedTypeOK /\ OnList /\ Numbered /\ NoGap

-----------------------------------------------------------------------------
(* The operators on sequences.                                              *)

Distinct(s) == \A i, j \in DOMAIN s : s[i] = s[j] => i = j

LEMMA RangeAppend ==
  ASSUME NEW S, NEW s \in Seq(S), NEW e \in S
  PROVE  Append(s, e) \in Seq(S) /\ Range(Append(s, e)) = Range(s) \cup {e}
  <1>1. /\ Append(s, e) \in Seq(S)
        /\ DOMAIN Append(s, e) = DOMAIN s \cup {Len(s) + 1}
        /\ \A i \in DOMAIN s : Append(s, e)[i] = s[i]
        /\ Append(s, e)[Len(s) + 1] = e
    BY AppendProperties
  <1>2. QED
    BY <1>1, Zenon DEF Range

LEMMA RangeHeadTail ==
  ASSUME NEW S, NEW s \in Seq(S), s # <<>>
  PROVE  /\ Head(s) \in S /\ Tail(s) \in Seq(S)
         /\ Range(s) = {Head(s)} \cup Range(Tail(s))
  <1>1. /\ Head(s) \in S /\ Tail(s) \in Seq(S)
        /\ Len(Tail(s)) = Len(s) - 1
        /\ \A i \in 1..Len(Tail(s)) : Tail(s)[i] = s[i + 1]
    BY HeadTailProperties
  <1>2. Len(s) \in Nat /\ Len(s) # 0 /\ DOMAIN s = 1..Len(s) /\ Head(s) = s[1]
    BY EmptySeq, LenProperties
  <1>3. DOMAIN Tail(s) = 1..(Len(s) - 1)
    BY <1>1, LenProperties
  <1>4. ASSUME NEW x \in Range(s) PROVE x \in {Head(s)} \cup Range(Tail(s))
    <2>1. PICK i \in 1..Len(s) : x = s[i]
      BY <1>2, <1>4 DEF Range
    <2>2. CASE i = 1
      BY <2>1, <2>2, <1>2
    <2>3. CASE i # 1
      <3>1. i - 1 \in DOMAIN Tail(s) /\ Tail(s)[i - 1] = x
        BY <2>1, <2>3, <1>1, <1>2, <1>3
      <3>2. QED
        BY <3>1 DEF Range
    <2>4. QED
      BY <2>2, <2>3
  <1>5. ASSUME NEW x \in Range(Tail(s)) PROVE x \in Range(s)
    <2>1. PICK i \in 1..(Len(s) - 1) : x = Tail(s)[i]
      BY <1>3, <1>5 DEF Range
    <2>2. i + 1 \in 1..Len(s) /\ x = s[i + 1]
      BY <2>1, <1>1, <1>2
    <2>3. QED
      BY <2>2, <1>2 DEF Range
  <1>6. Head(s) \in Range(s)
    BY <1>2 DEF Range
  <1>7. QED
    BY <1>1, <1>4, <1>5, <1>6

LEMMA DistinctAppend ==
  ASSUME NEW S, NEW s \in Seq(S), NEW e \in S, Distinct(s), e \notin Range(s)
  PROVE  Distinct(Append(s, e))
  <1>1. /\ DOMAIN s = 1..Len(s) /\ Len(s) \in Nat
        /\ DOMAIN Append(s, e) = 1..(Len(s) + 1)
        /\ \A i \in 1..Len(s) : Append(s, e)[i] = s[i]
        /\ Append(s, e)[Len(s) + 1] = e
    BY AppendProperties, LenProperties
  <1>2. \A i \in 1..Len(s) : s[i] # e
    BY <1>1 DEF Range
  <1>3. QED
    BY <1>1, <1>2 DEF Distinct

\* A sequence without its element at k.
LEMMA RemoveAtElements ==
  ASSUME NEW S, NEW s \in Seq(S), NEW n \in Nat, n = Len(s), NEW k \in Nat,
         1 <= k, k <= n
  PROVE  /\ RemoveAt(s, k) \in Seq(S) /\ Len(RemoveAt(s, k)) = n - 1
         /\ \A i \in 1..(n - 1) : RemoveAt(s, k)[i] = IF i < k THEN s[i] ELSE s[i + 1]
  <1> DEFINE a == SubSeq(s, 1, k - 1)
             b == SubSeq(s, k + 1, n)
  <1>1. \A i \in 1..n : s[i] \in S
    BY ElementOfSeq
  <1>2. a \in Seq(S) /\ Len(a) = k - 1 /\ \A i \in 1..(k - 1) : a[i] = s[i]
    <2>1. \A i \in 1..(k - 1) : s[i] \in S
      BY <1>1
    <2>2. /\ a \in Seq(S) /\ Len(a) = IF 1 <= k - 1 THEN k - 1 - 1 + 1 ELSE 0
          /\ \A i \in 1..(k - 1 - 1 + 1) : a[i] = s[1 + i - 1]
      BY <2>1, SubSeqProperties
    <2> HIDE DEF a
    <2>3. QED
      BY <2>2
  <1>3. b \in Seq(S) /\ Len(b) = n - k /\ \A i \in 1..(n - k) : b[i] = s[k + i]
    <2>1. \A i \in (k + 1)..n : s[i] \in S
      BY <1>1
    <2>2. /\ b \in Seq(S) /\ Len(b) = IF k + 1 <= n THEN n - (k + 1) + 1 ELSE 0
          /\ \A i \in 1..(n - (k + 1) + 1) : b[i] = s[(k + 1) + i - 1]
      BY <2>1, SubSeqProperties
    <2> HIDE DEF b
    <2>3. QED
      BY <2>2
  <1>4. RemoveAt(s, k) = a \o b
    BY DEF RemoveAt
  <1> HIDE DEF a, b
  <1>5. /\ a \o b \in Seq(S) /\ Len(a \o b) = (k - 1) + (n - k)
        /\ \A i \in 1..((k - 1) + (n - k)) :
             (a \o b)[i] = IF i <= k - 1 THEN a[i] ELSE b[i - (k - 1)]
    <2>1. a \in Seq(S) /\ b \in Seq(S) /\ Len(a) = k - 1 /\ Len(b) = n - k
      BY <1>2, <1>3
    <2>2. /\ a \o b \in Seq(S) /\ Len(a \o b) = Len(a) + Len(b)
          /\ \A i \in 1..(Len(a) + Len(b)) :
               (a \o b)[i] = IF i <= Len(a) THEN a[i] ELSE b[i - Len(a)]
      BY <2>1, ConcatProperties, Zenon
    <2>3. QED
      BY <2>1, <2>2, Zenon
  <1>6. ASSUME NEW i \in 1..(n - 1)
        PROVE  (a \o b)[i] = IF i < k THEN s[i] ELSE s[i + 1]
    <2>1. CASE i < k
      BY <2>1, <1>2, <1>5
    <2>2. CASE i >= k
      <3>1. i - (k - 1) \in 1..(n - k) /\ k + (i - (k - 1)) = i + 1
        BY <2>2
      <3>2. (a \o b)[i] = b[i - (k - 1)]
        BY <2>2, <1>5
      <3>3. QED
        BY <3>1, <3>2, <1>3, <2>2
    <2>3. QED
      <3>1. i < k \/ i >= k
        OBVIOUS
      <3>2. QED
        BY <3>1, <2>1, <2>2, Zenon
  <1>7. QED
    BY <1>4, <1>5, <1>6

\* disconnect takes exactly this client off a list without duplicates.
LEMMA RemoveFirstDistinct ==
  ASSUME NEW S, NEW s \in Seq(S), NEW e, Distinct(s)
  PROVE  /\ RemoveFirst(s, e) \in Seq(S)
         /\ Distinct(RemoveFirst(s, e))
         /\ Range(RemoveFirst(s, e)) = Range(s) \ {e}
  <1>1. PICK n \in Nat : n = Len(s) /\ DOMAIN s = 1..n
    BY LenProperties
  <1>2. CASE ~ \E i \in 1..n : s[i] = e
    BY <1>1, <1>2 DEF RemoveFirst, Range
  <1>3. ASSUME NEW k \in 1..n, s[k] = e
        PROVE  /\ RemoveFirst(s, e) \in Seq(S)
               /\ Distinct(RemoveFirst(s, e))
               /\ Range(RemoveFirst(s, e)) = Range(s) \ {e}
    <2> DEFINE t == RemoveAt(s, k)
    <2>1. k \in Nat /\ 1 <= k /\ k <= n
      OBVIOUS
    <2>2. {i \in 1..n : s[i] = e} = {k}
      BY <1>1, <1>3 DEF Distinct
    <2>3. Min({k}) = k
      BY DEF Min
    <2>4. RemoveFirst(s, e) = t
      BY <1>1, <1>3, <2>2, <2>3 DEF RemoveFirst, SelectInSeq
    <2>5. /\ t \in Seq(S) /\ Len(t) = n - 1
          /\ \A i \in 1..(n - 1) : t[i] = IF i < k THEN s[i] ELSE s[i + 1]
      <3>1. n = Len(s)
        BY <1>1
      <3>2. \A m \in Nat : 1 <= m /\ m <= n =>
              /\ RemoveAt(s, m) \in Seq(S) /\ Len(RemoveAt(s, m)) = n - 1
              /\ \A i \in 1..(n - 1) :
                   RemoveAt(s, m)[i] = IF i < m THEN s[i] ELSE s[i + 1]
        BY <3>1, RemoveAtElements, ZenonT(40)
      <3>3. QED
        BY <3>2, <2>1, Zenon
    <2> HIDE DEF t
    <2>6. DOMAIN t = 1..(n - 1)
      BY <2>5, LenProperties
    <2>7. ASSUME NEW i \in 1..(n - 1)
          PROVE  \E j \in 1..n : t[i] = s[j] /\ j # k /\ j = IF i < k THEN i ELSE i + 1
      <3>1. CASE i < k
        BY <3>1, <2>1, <2>5
      <3>2. CASE i >= k
        BY <3>2, <2>1, <2>5
      <3>3. i < k \/ i >= k
        BY <2>1
      <3>4. QED
        BY <3>1, <3>2, <3>3, Zenon
    <2>8. Distinct(t)
      <3> SUFFICES ASSUME NEW i \in 1..(n - 1), NEW j \in 1..(n - 1), t[i] = t[j]
                   PROVE  i = j
        BY <2>6 DEF Distinct
      <3>1. PICK p \in 1..n : t[i] = s[p] /\ p = IF i < k THEN i ELSE i + 1
        BY <2>7
      <3>2. PICK q \in 1..n : t[j] = s[q] /\ q = IF j < k THEN j ELSE j + 1
        BY <2>7
      <3>3. p = q
        BY <1>1, <3>1, <3>2, Zenon DEF Distinct
      <3>4. QED
        BY <2>1, <3>1, <3>2, <3>3
    <2>9. ASSUME NEW x \in Range(t) PROVE x \in Range(s) \ {e}
      <3>1. PICK i \in 1..(n - 1) : x = t[i]
        BY <2>6, <2>9 DEF Range
      <3>2. PICK j \in 1..n : x = s[j] /\ j # k
        BY <3>1, <2>7
      <3>3. QED
        BY <1>1, <1>3, <3>2, Zenon DEF Distinct, Range
    <2>10. ASSUME NEW x \in Range(s), x # e PROVE x \in Range(t)
      <3>1. PICK i \in 1..n : s[i] = x /\ i # k
        BY <1>1, <1>3, <2>10 DEF Range
      <3>2. CASE i < k
        BY <3>1, <3>2, <2>5, <2>6 DEF Range
      <3>3. CASE i > k
        <4>1. i - 1 \in 1..(n - 1) /\ t[i - 1] = x
          BY <3>1, <3>3, <2>5
        <4>2. QED
          BY <4>1, <2>6 DEF Range
      <3>4. QED
        BY <3>1, <3>2, <3>3
    <2>11. QED
      BY <2>4, <2>5, <2>8, <2>9, <2>10
  <1>4. QED
    BY <1>2, <1>3
-----------------------------------------------------------------------------
(* The invariant holds at the beginning and every step keeps it.            *)

LEMMA FeedInit == Init => FeedInv
  <1> SUFFICES ASSUME Init PROVE FeedInv
    OBVIOUS
  <1> USE FeedAssumption DEF Init
  <1>1. Range(<<>>) = {}
    BY DEF Range
  <1>2. FeedTypeOK
    BY DEF FeedTypeOK, Recorded, Empty
  <1>3. OnList
    BY <1>1 DEF OnList
  <1>4. NoGap /\ Numbered
    BY DEF NoGap, Numbered
  <1>5. QED
    BY <1>2, <1>3, <1>4 DEF FeedInv

LEMMA RecordKeeps ==
  ASSUME FeedInv, Record PROVE FeedInv'
  <1> USE FeedAssumption DEF FeedInv, Record
  <1>1. FeedTypeOK'
    BY DEF FeedTypeOK
  <1>2. OnList'
    BY DEF OnList
  <1>3. Numbered'
    BY DEF Numbered, FeedTypeOK, Recorded
  <1>4. NoGap'
    BY DEF NoGap, OnItsWay, FeedTypeOK, Recorded
  <1>5. QED
    BY <1>1, <1>2, <1>3, <1>4

\* A broadcast of e joins the others.
LEMMA ScheduledKeeps ==
  ASSUME FeedInv, NEW e \in Events, ready' = Append(ready, e),
         emitted' \subseteq Updates, thread' \in {"idle", "recorded"},
         thread' = "recorded" => thread = "recorded",
         thread = "recorded" /\ thread' # "recorded" => e = last,
         UNCHANGED <<last, left, active, handler, alive, replay, first, received>>
  PROVE  FeedInv'
  <1> USE DEF FeedInv
  <1>1. ready' \in Seq(Events) /\ Range(ready') = Range(ready) \cup {e}
    BY RangeAppend DEF FeedTypeOK
  <1>2. FeedTypeOK'
    BY <1>1 DEF FeedTypeOK
  <1>3. OnList' /\ Numbered'
    BY DEF OnList, Numbered
  <1>4. NoGap'
    BY <1>1 DEF NoGap, OnItsWay, FeedTypeOK
  <1>5. QED
    BY <1>2, <1>3, <1>4

LEMMA ScheduleKeeps ==
  ASSUME FeedInv, Schedule PROVE FeedInv'
  <1>1. last \in Events /\ emitted \subseteq Updates
    BY DEF FeedInv, FeedTypeOK, Schedule, Numbered, Events
  <1>2. QED
    BY <1>1, ScheduledKeeps DEF Schedule

LEMMA PublishUpdateKeeps ==
  ASSUME FeedInv, NEW u \in Updates, PublishUpdate(u) PROVE FeedInv'
  <1>1. u \in Events /\ emitted' \subseteq Updates /\ thread' \in {"idle", "recorded"}
    BY DEF FeedInv, FeedTypeOK, PublishUpdate, Events
  <1>2. QED
    BY <1>1, ScheduledKeeps DEF PublishUpdate

LEMMA StartBroadcastKeeps ==
  ASSUME FeedInv, StartBroadcast PROVE FeedInv'
  <1> USE DEF FeedInv, StartBroadcast, log
  <1>1. /\ Head(ready) \in Events /\ ready' \in Seq(Events)
        /\ Range(ready) = {Head(ready)} \cup Range(ready')
    BY RangeHeadTail DEF FeedTypeOK
  <1>2. FeedTypeOK'
    BY <1>1 DEF FeedTypeOK
  <1>3. OnList' /\ Numbered'
    BY DEF OnList, Numbered
  <1>4. NoGap'
    <2> SUFFICES ASSUME NEW c \in Clients, NEW e \in Recorded,
                        handler[c] \in {"replay", "open"}, alive[c],
                        first[c] <= e, e <= last, e \notin received[c]
                 PROVE  OnItsWay(c, e)'
      BY DEF NoGap
    <2>1. OnItsWay(c, e)
      BY DEF NoGap
    <2>2. CASE e = Head(ready)
      BY <2>2, <1>1 DEF OnItsWay, OnList, FeedTypeOK
    <2>3. CASE e # Head(ready)
      BY <2>1, <2>3, <1>1 DEF OnItsWay, FeedTypeOK, Events
    <2>4. QED
      BY <2>2, <2>3
  <1>5. QED
    BY <1>2, <1>3, <1>4

\* A list that loses a client whose socket is gone still serves the others.
LEMMA DisconnectKeeps ==
  ASSUME FeedTypeOK, OnList, NEW c \in Clients, active' = Disconnected(c),
         ~alive'[c], handler'[c] # "new",
         \A d \in Clients \ {c} : handler'[d] = handler[d] /\ alive'[d] = alive[d]
  PROVE  /\ active' \in Seq(Clients)
         /\ \A i, j \in DOMAIN active' : active'[i] = active'[j] => i = j
         /\ OnList'
  <1>1. active \in Seq(Clients) /\ Distinct(active)
    BY DEF FeedTypeOK, Distinct
  <1>2. /\ active' \in Seq(Clients) /\ Distinct(active')
        /\ Range(active') = Range(active) \ {c}
    BY <1>1, RemoveFirstDistinct, Zenon DEF Disconnected
  <1>3. OnList'
    BY <1>2 DEF OnList
  <1>4. QED
    BY <1>2, <1>3 DEF Distinct

LEMMA SendKeeps ==
  ASSUME FeedInv, NEW e \in Events, Send(e) PROVE FeedInv'
  <1> DEFINE c == Head(left[e])
  <1> USE FeedAssumption DEF FeedInv, Send, log
  <1>1. /\ c \in Clients /\ left'[e] \in Seq(Clients)
        /\ Range(left[e]) = {c} \cup Range(left'[e])
        /\ \A f \in Events \ {e} : left'[f] = left[f]
        /\ left' \in [Events -> Seq(Clients)]
    <2>1. left[e] \in Seq(Clients) /\ left[e] # <<>> /\ left' = [left EXCEPT ![e] = Tail(@)]
      BY DEF FeedTypeOK
    <2>2. /\ c \in Clients /\ Tail(left[e]) \in Seq(Clients)
          /\ Range(left[e]) = {c} \cup Range(Tail(left[e]))
      BY <2>1, RangeHeadTail, Zenon
    <2>3. QED
      BY <2>1, <2>2 DEF FeedTypeOK
  <1> HIDE DEF c
  <1>2. /\ alive[c] => received' = [received EXCEPT ![c] = @ \cup ({e} \cap Recorded)]
                       /\ active' = active
        /\ ~alive[c] => active' = Disconnected(c) /\ received' = received
    BY DEF c
  <1>3. received' \in [Clients -> SUBSET Recorded]
    BY <1>1, <1>2 DEF FeedTypeOK
  <1>4. FeedTypeOK' /\ OnList'
    <2>1. CASE alive[c]
      BY <2>1, <1>1, <1>2, <1>3 DEF FeedTypeOK, OnList
    <2>2. CASE ~alive[c]
      <3>1. /\ active' \in Seq(Clients)
            /\ \A i, j \in DOMAIN active' : active'[i] = active'[j] => i = j
            /\ OnList'
        BY <2>2, <1>1, <1>2, DisconnectKeeps DEF OnList
      <3>2. QED
        BY <3>1, <1>1, <1>3 DEF FeedTypeOK
    <2>3. QED
      BY <2>1, <2>2
  <1>5. Numbered'
    BY DEF Numbered
  <1>6. NoGap'
    <2> SUFFICES ASSUME NEW d \in Clients, NEW f \in Recorded,
                        handler[d] \in {"replay", "open"}, alive[d],
                        first[d] <= f, f <= last, f \notin received'[d]
                 PROVE  OnItsWay(d, f)'
      BY DEF NoGap
    <2>1. f \notin received[d]
      <3>1. received[d] \subseteq received'[d]
        <4>1. CASE alive[c]
          <5>1. received \in [Clients -> SUBSET Recorded]
            BY DEF FeedTypeOK
          <5>2. received' = [received EXCEPT ![c] = @ \cup ({e} \cap Recorded)]
            BY <4>1, <1>2
          <5>3. QED
            BY <5>1, <5>2
        <4>2. CASE ~alive[c]
          BY <4>2, <1>2
        <4>3. QED
          BY <4>1, <4>2
      <3>2. QED
        BY <3>1
    <2>2. OnItsWay(d, f) /\ f \in Events
      BY <2>1 DEF NoGap, Events
    <2>3. ~(f = e /\ d = c)
      BY <1>2 DEF FeedTypeOK
    <2>4. d \in Range(left[f]) => d \in Range(left'[f])
      BY <2>2, <2>3, <1>1
    <2>5. QED
      BY <2>2, <2>4 DEF OnItsWay
  <1>7. QED
    BY <1>4, <1>5, <1>6

LEMMA ConnectKeeps ==
  ASSUME FeedInv, NEW c \in Clients, Connect(c) PROVE FeedInv'
  <1> USE DEF FeedInv, Connect, log
  <1>1. active \in Seq(Clients) /\ Distinct(active) /\ c \notin Range(active)
    BY DEF FeedTypeOK, OnList, Distinct
  <1>2. /\ active' \in Seq(Clients) /\ Distinct(active')
        /\ Range(active') = Range(active) \cup {c}
    BY <1>1, RangeAppend, DistinctAppend, Zenon
  <1>3. handler' = [handler EXCEPT ![c] = "joined"]
    OBVIOUS
  <1>4. FeedTypeOK'
    BY <1>2, <1>3 DEF FeedTypeOK, Distinct
  <1>5. OnList' /\ Numbered'
    BY <1>2, <1>3 DEF OnList, Numbered, FeedTypeOK
  <1>6. NoGap'
    BY <1>3 DEF NoGap, OnItsWay, FeedTypeOK
  <1>7. QED
    BY <1>4, <1>5, <1>6

\* Where the replay begins: in the log, or right after it.
LEMMA SnapshotBegins ==
  ASSUME NEW n \in 0..MaxEvents
  PROVE  Max({1, n - MaxRecent + 1, n - ReplayLimit + 1}) \in 1..(n + 1)
  <1> DEFINE S == {1, n - MaxRecent + 1, n - ReplayLimit + 1}
  <1>1. n \in Nat /\ MaxRecent \in Nat \ {0} /\ ReplayLimit \in Nat \ {0}
    BY FeedAssumption
  <1>2. \E x \in S : \A y \in S : x >= y
    BY <1>1
  <1>3. Max(S) \in S /\ \A y \in S : Max(S) >= y
    BY <1>2 DEF Max
  <1>4. QED
    BY <1>1, <1>3

LEMMA SnapshotKeeps ==
  ASSUME FeedInv, NEW c \in Clients, Snapshot(c) PROVE FeedInv'
  <1> DEFINE kept == Max({1, last - MaxRecent + 1, last - ReplayLimit + 1})
  <1> USE FeedAssumption DEF FeedInv
  <1>1. kept \in 1..(last + 1) /\ last \in 0..MaxEvents
    BY SnapshotBegins DEF FeedTypeOK
  <1>2. /\ handler[c] = "joined"
        /\ handler' = [handler EXCEPT ![c] = "replay"]
        /\ replay' = [replay EXCEPT ![c] = [from |-> kept, to |-> last]]
        /\ first' = [first EXCEPT ![c] = kept]
        /\ UNCHANGED <<last, thread, emitted, ready, left, active, alive, received>>
    BY DEF Snapshot, log
  <1> HIDE DEF kept
  <1>3. FeedTypeOK'
    BY <1>1, <1>2 DEF FeedTypeOK
  <1>4. OnList' /\ Numbered'
    BY <1>2 DEF OnList, Numbered, FeedTypeOK
  <1>5. NoGap'
    BY <1>1, <1>2 DEF NoGap, OnItsWay, FeedTypeOK
  <1>6. QED
    BY <1>3, <1>4, <1>5

LEMMA ReplayKeeps ==
  ASSUME FeedInv, NEW c \in Clients, Replay(c) PROVE FeedInv'
  <1> USE FeedAssumption DEF FeedInv
  <1>0. /\ handler[c] = "replay" /\ alive[c]
        /\ UNCHANGED <<last, thread, emitted, ready, left, active, alive, first>>
    BY DEF Replay, log
  <1>1. CASE replay[c].from <= replay[c].to
    <2>1. replay[c].from \in Recorded /\ replay[c] \in [from : 1..(MaxEvents + 1), to : 0..MaxEvents]
      BY <1>1 DEF FeedTypeOK, Recorded
    <2>2. /\ received' = [received EXCEPT ![c] = @ \cup {replay[c].from}]
          /\ replay' = [replay EXCEPT ![c].from = @ + 1] /\ handler' = handler
      BY <1>1 DEF Replay
    <2>3. FeedTypeOK'
      <3>1. replay' \in [Clients -> [from : 1..(MaxEvents + 1), to : 0..MaxEvents]]
        <4>1. replay[c].from + 1 \in 1..(MaxEvents + 1)
          BY <2>1 DEF Recorded
        <4>2. [replay[c] EXCEPT !.from = @ + 1] \in [from : 1..(MaxEvents + 1), to : 0..MaxEvents]
          BY <2>1, <4>1
        <4>3. replay' = [replay EXCEPT ![c] = [replay[c] EXCEPT !.from = @ + 1]]
          BY <2>2
        <4>4. QED
          BY <4>2, <4>3 DEF FeedTypeOK
      <3>2. received' \in [Clients -> SUBSET Recorded]
        BY <2>1, <2>2 DEF FeedTypeOK
      <3>3. QED
        BY <1>0, <2>2, <3>1, <3>2 DEF FeedTypeOK
    <2>4. OnList' /\ Numbered'
      BY <1>0, <2>2 DEF OnList, Numbered
    <2>5. NoGap'
      <3> SUFFICES ASSUME NEW d \in Clients, NEW e \in Recorded,
                          handler[d] \in {"replay", "open"}, alive[d],
                          first[d] <= e, e <= last, e \notin received'[d]
                   PROVE  OnItsWay(d, e)'
        BY <1>0, <2>2 DEF NoGap
      <3>1. e \notin received[d] /\ (d = c => e # replay[c].from)
        BY <2>2 DEF FeedTypeOK
      <3>2. OnItsWay(d, e)
        BY <3>1 DEF NoGap
      <3>3. d # c => replay'[d] = replay[d]
        BY <2>2 DEF FeedTypeOK
      <3>4. /\ replay'[c].from = replay[c].from + 1 /\ replay'[c].to = replay[c].to
            /\ replay[c].from \in Int /\ e \in Int
        BY <2>1, <2>2 DEF FeedTypeOK, Recorded
      <3>5. QED
        BY <1>0, <3>1, <3>2, <3>3, <3>4, <2>2 DEF OnItsWay
    <2>6. QED
      BY <2>3, <2>4, <2>5
  <1>2. CASE ~(replay[c].from <= replay[c].to)
    <2>1. /\ handler[c] = "replay" /\ handler' = [handler EXCEPT ![c] = "open"]
          /\ received' = received /\ replay' = replay
      BY <1>0, <1>2, Zenon DEF Replay
    <2>2. FeedTypeOK'
      BY <1>0, <2>1 DEF FeedTypeOK
    <2>3. OnList' /\ Numbered'
      BY <1>0, <2>1 DEF OnList, Numbered, FeedTypeOK
    <2>4. \A e \in Recorded : ~(replay[c].from <= e /\ e <= replay[c].to)
      BY <1>2 DEF FeedTypeOK, Recorded
    <2>5. NoGap'
      BY <1>0, <2>1, <2>4 DEF NoGap, OnItsWay, FeedTypeOK
    <2>6. QED
      BY <2>2, <2>3, <2>5
  <1>3. QED
    BY <1>1, <1>2

LEMMA LoseKeeps ==
  ASSUME FeedInv, NEW c \in Clients, Lose(c) PROVE FeedInv'
  <1> USE DEF FeedInv, Lose, log
  <1>1. FeedTypeOK'
    BY DEF FeedTypeOK
  <1>2. OnList' /\ Numbered'
    BY DEF OnList, Numbered, FeedTypeOK
  <1>3. NoGap'
    BY DEF NoGap, OnItsWay, FeedTypeOK
  <1>4. QED
    BY <1>1, <1>2, <1>3

LEMMA CloseKeeps ==
  ASSUME FeedInv, NEW c \in Clients, Close(c) PROVE FeedInv'
  <1> USE FeedAssumption DEF FeedInv
  <1>1. /\ handler[c] \in {"replay", "open"} /\ ~alive[c] /\ active' = Disconnected(c)
        /\ handler' = [handler EXCEPT ![c] = "closed"]
        /\ replay' = [replay EXCEPT ![c] = [from |-> 1, to |-> 0]]
        /\ first' = [first EXCEPT ![c] = 0] /\ received' = [received EXCEPT ![c] = {}]
        /\ UNCHANGED <<last, thread, emitted, ready, left, alive>>
    BY DEF Close, log, Empty
  <1>2. /\ active' \in Seq(Clients)
        /\ \A i, j \in DOMAIN active' : active'[i] = active'[j] => i = j
        /\ OnList'
    <2>1. ~alive'[c] /\ handler'[c] # "new"
      BY <1>1 DEF FeedTypeOK
    <2>2. \A d \in Clients \ {c} : handler'[d] = handler[d] /\ alive'[d] = alive[d]
      BY <1>1 DEF FeedTypeOK
    <2>3. QED
      BY <1>1, <2>1, <2>2, DisconnectKeeps
  <1>3. FeedTypeOK'
    BY <1>1, <1>2 DEF FeedTypeOK
  <1>4. Numbered'
    BY <1>1 DEF Numbered
  <1>5. NoGap'
    BY <1>1 DEF NoGap, OnItsWay, FeedTypeOK
  <1>6. QED
    BY <1>2, <1>3, <1>4, <1>5

LEMMA FeedNext == FeedInv /\ [Next]_vars => FeedInv'
  <1> SUFFICES ASSUME FeedInv, [Next]_vars PROVE FeedInv'
    OBVIOUS
  <1>1. CASE Record
    BY <1>1, RecordKeeps
  <1>2. CASE Schedule
    BY <1>2, ScheduleKeeps
  <1>3. ASSUME NEW u \in Updates, PublishUpdate(u) PROVE FeedInv'
    BY <1>3, PublishUpdateKeeps
  <1>4. CASE StartBroadcast
    BY <1>4, StartBroadcastKeeps
  <1>5. ASSUME NEW e \in Events, Send(e) PROVE FeedInv'
    BY <1>5, SendKeeps
  <1>6. ASSUME NEW c \in Clients, Connect(c) PROVE FeedInv'
    BY <1>6, ConnectKeeps
  <1>7. ASSUME NEW c \in Clients, Snapshot(c) PROVE FeedInv'
    BY <1>7, SnapshotKeeps
  <1>8. ASSUME NEW c \in Clients, Replay(c) PROVE FeedInv'
    BY <1>8, ReplayKeeps
  <1>9. ASSUME NEW c \in Clients, Close(c) PROVE FeedInv'
    BY <1>9, CloseKeeps
  <1>10. ASSUME NEW c \in Clients, Lose(c) PROVE FeedInv'
    BY <1>10, LoseKeeps
  <1>11. CASE UNCHANGED vars
    BY <1>11 DEF vars, log, FeedInv, FeedTypeOK, OnList, Numbered, NoGap, OnItsWay
  <1>12. QED
    BY <1>1, <1>2, <1>3, <1>4, <1>5, <1>6, <1>7, <1>8, <1>9, <1>10, <1>11
    DEF Next, HandlerStep

-----------------------------------------------------------------------------
LEMMA FeedInvariant == Spec => []FeedInv
  BY FeedInit, FeedNext, PTL DEF Spec

\* The types of the feed hold, no client is on the list twice, and a replay
\* never begins before the first event, whatever MAX_RECENT_EVENTS and the
\* number of replayed events are.
THEOREM FeedTypes == Spec => []FeedTypeOK
  <1>1. FeedInv => FeedTypeOK
    BY DEF FeedInv
  <1>2. QED
    BY <1>1, FeedInvariant, PTL

\* A client that connects while a pipeline publishes misses nothing: from the
\* first event of its replay on, each recorded event is received, in a broadcast
\* that will reach it, in its replay, or in the thread between record_event and
\* run_coroutine_threadsafe.
THEOREM NoEventIsLost == Spec => []NoGap
  <1>1. FeedInv => NoGap
    BY DEF FeedInv
  <1>2. QED
    BY <1>1, FeedInvariant, PTL
=============================================================================
