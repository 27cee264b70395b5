----------------------- MODULE ActivityTrackerProofs -----------------------
(***************************************************************************)
(* What the activity tracker keeps, for any number of sessions and         *)
(* connections, any capacity of the channel and of the map, and any times. *)
(***************************************************************************)
EXTENDS ActivityTracker, FiniteSetTheorems, TLAPS

-----------------------------------------------------------------------------
(* Messages and the map.                                                   *)

Records == [kind : {"record"}, id : Sessions, at : Nat]
Flushes == [kind : {"flush"}, id : Flushers, at : {0}]

LEMMA Messages ==
    /\ Message = Records \cup Flushes
    /\ NoMessage \notin Message
    /\ \A m \in Message : m.kind = "record" => m \in Records
    /\ \A m \in Message : m.kind = "flush" => m \in Flushes
    /\ \A m \in Records : m.kind = "record" /\ m.id \in Sessions /\ m.at \in Nat
    /\ \A m \in Flushes : m.kind = "flush" /\ m.id \in Flushers
  BY DEF Message, Records, Flushes, NoMessage

\* The keys of the map p.
Keys(p) == {s \in Sessions : p[s] # 0}

Maps == [Sessions -> Nat]

LEMMA Finite ==
    ASSUME ActivityAssumption, NEW S \in SUBSET Sessions
    PROVE  IsFiniteSet(S) /\ Cardinality(S) \in Nat
  BY FS_Subset, FS_CardinalityType DEF ActivityAssumption

\* insert keeps the types, moves times forward only, and takes up one entry at most.
LEMMA InsertFacts ==
    ASSUME ActivityAssumption, NEW p \in Maps, NEW m \in Records
    PROVE  /\ insert(p, m) \in Maps
           /\ insert(p, m)[m.id] >= m.at
           /\ \A s \in Sessions : insert(p, m)[s] >= p[s]
           /\ Cardinality(Keys(insert(p, m))) <= Cardinality(Keys(p)) + 1
<1>1. m.id \in Sessions /\ m.at \in Nat
  BY Messages
<1>2. /\ insert(p, m) \in Maps
      /\ insert(p, m)[m.id] >= m.at
      /\ \A s \in Sessions : insert(p, m)[s] >= p[s]
      /\ \A s \in Sessions \ {m.id} : insert(p, m)[s] = p[s]
  BY <1>1 DEF insert, Later, Maps
<1>3. Keys(insert(p, m)) \subseteq Keys(p) \cup {m.id}
  BY <1>2 DEF Keys
<1>4. Keys(p) \in SUBSET Sessions /\ Keys(p) \cup {m.id} \in SUBSET Sessions
  BY <1>1 DEF Keys
<1>5. /\ IsFiniteSet(Keys(p)) /\ Cardinality(Keys(p)) \in Nat
      /\ IsFiniteSet(Keys(p) \cup {m.id}) /\ Cardinality(Keys(p) \cup {m.id}) \in Nat
  BY <1>4, Finite
<1>6. Cardinality(Keys(p) \cup {m.id}) <= Cardinality(Keys(p)) + 1
  BY <1>5, FS_AddElement
<1>7. Cardinality(Keys(insert(p, m))) \in Nat
  <2>1. Keys(insert(p, m)) \in SUBSET Sessions
    BY DEF Keys
  <2> QED
    BY <2>1, Finite
<1>8. Cardinality(Keys(insert(p, m))) <= Cardinality(Keys(p) \cup {m.id})
  BY <1>3, <1>5, FS_Subset
<1> QED
  BY <1>2, <1>5, <1>6, <1>7, <1>8

NoEntries == [s \in Sessions |-> 0]

LEMMA EmptyMap == NoEntries \in Maps /\ Keys(NoEntries) = {} /\ Cardinality(Keys(NoEntries)) = 0
<1>1. NoEntries \in Maps /\ Keys(NoEntries) = {}
  BY DEF NoEntries, Maps, Keys
<1> QED
  BY <1>1, FS_EmptySet

-----------------------------------------------------------------------------
(* Types.                                                                  *)

\* The variables of the worker; the message it holds is of the right kind.
WorkerTypes ==
    /\ active \in Maps /\ pending \in Maps /\ Cardinality(Pending) <= MaxPending
    /\ soft \in {"live", "cancelled"}
    /\ flusher \in [Flushers -> {"idle", "sending", "waiting"}]
    /\ channel \in {"open", "closed"} /\ queue \in Seq(Message)
    /\ worker \in {"select", "full", "asked", "last", "done"}
    /\ cur \in Message \cup {NoMessage}
    /\ givenUp \subseteq Sessions
    /\ worker = "full" => cur \in Records
    /\ worker = "asked" => cur \in Flushes

\* The others; a record that is sent is one.
OtherTypes ==
    /\ row \in [Sessions -> {"none", "creating", "stored", "gone"}]
    /\ manager \in {"running", "reloading", "draining", "aborting", "exited"}
    /\ listener \in {"accepting", "draining", "done"}
    /\ conn \in [Connections -> {"idle", "sending", "recorded"}]
    /\ msg \in [Connections -> Message \cup {NoMessage}]
    /\ loop \in {"running", "done"}
    /\ accepted \in Maps
    /\ \A c \in Connections : conn[c] = "sending" => msg[c] \in Records

TrackerInv == WorkerTypes /\ OtherTypes

LEMMA TypesFollow == TrackerInv => TypeOK
  BY DEF TrackerInv, TypeOK, WorkerTypes, OtherTypes, Maps

LEMMA TrackerInit == ActivityAssumption /\ Init => TrackerInv
<1> SUFFICES ASSUME ActivityAssumption, Init PROVE WorkerTypes /\ OtherTypes
  BY DEF TrackerInv
<1>1. Pending = {} /\ Cardinality(Pending) = 0
  BY FS_EmptySet DEF Init, Pending
<1>2. WorkerTypes
  BY <1>1 DEF Init, WorkerTypes, Maps, ActivityAssumption
<1>3. OtherTypes
  BY DEF Init, OtherTypes, Maps
<1> QED
  BY <1>2, <1>3

\* What follows a flush that left the entries p.
LEMMA ContinueTypes ==
    ASSUME ActivityAssumption, WorkerTypes, worker \in {"full", "asked", "last"},
           NEW p \in Maps, Cardinality(Keys(p)) <= MaxPending, Continue(p),
           active' \in Maps, UNCHANGED <<channel, queue>>
    PROVE  WorkerTypes'
<1>1. /\ worker' \in {"select", "done"} /\ cur' = NoMessage
      /\ soft' \in {soft, "cancelled"}
  BY DEF Continue
<1>2. flusher' \in [Flushers -> {"idle", "sending", "waiting"}]
  BY Messages DEF Continue, WorkerTypes
<1>3. worker = "full" => cur \in Records /\ cur.id \in Sessions
  BY Messages DEF WorkerTypes
<1>4. givenUp' \subseteq Sessions
  BY <1>3 DEF Continue, WorkerTypes
<1>5. pending' \in Maps /\ Cardinality(Keys(pending')) <= MaxPending
  <2>1. CASE worker = "full" /\ ~(Cardinality(Keys(p)) >= MaxPending)
    <3>1. pending' = insert(p, cur)
      BY <2>1 DEF Continue, Keys
    <3>2. Keys(p) \in SUBSET Sessions /\ Keys(insert(p, cur)) \in SUBSET Sessions
      BY DEF Keys
    <3>3. Cardinality(Keys(p)) \in Nat /\ Cardinality(Keys(insert(p, cur))) \in Nat
      BY <3>2, Finite
    <3>4. insert(p, cur) \in Maps /\ Cardinality(Keys(insert(p, cur))) <= Cardinality(Keys(p)) + 1
      BY <1>3, <2>1, InsertFacts
    <3> QED
      BY <2>1, <3>1, <3>3, <3>4 DEF ActivityAssumption
  <2>2. CASE worker = "last"
    BY <2>2, EmptyMap DEF Continue, NoEntries, ActivityAssumption
  <2>3. CASE ~(worker = "full" /\ ~(Cardinality(Keys(p)) >= MaxPending)) /\ worker # "last"
    <3>1. pending' = p
      BY <2>3 DEF Continue, Keys
    <3> QED
      BY <3>1
  <2> QED
    BY <2>1, <2>2, <2>3
<1>6. Pending' = Keys(pending')
  BY DEF Pending, Keys
<1> QED
  BY <1>1, <1>2, <1>4, <1>5, <1>6 DEF WorkerTypes

\* record_batch_activity takes the later of the two times.
LEMMA BatchFacts ==
    ASSUME ActivityAssumption, WorkerTypes
    PROVE  /\ record_batch_activity \in Maps
           /\ \A s \in Sessions : /\ record_batch_activity[s] >= active[s]
                                  /\ record_batch_activity[s] >= pending[s]
  BY DEF record_batch_activity, Later, Maps, WorkerTypes

LEMMA FlushTypes ==
    ASSUME ActivityAssumption, TrackerInv, FlushOk \/ FlushError
    PROVE  TrackerInv'
<1> USE DEF TrackerInv
<1>1. OtherTypes'
  BY DEF FlushOk, FlushError, OtherTypes, requests
<1>2. CASE FlushOk
  <2>1. /\ worker \in {"full", "asked", "last"} /\ Continue(NoEntries) /\ active' = record_batch_activity
        /\ UNCHANGED <<channel, queue>>
    BY <1>2 DEF FlushOk, NoEntries
  <2>2. Cardinality(Keys(NoEntries)) <= MaxPending /\ NoEntries \in Maps
    BY EmptyMap DEF ActivityAssumption
  <2>3. WorkerTypes'
    BY <2>1, <2>2, BatchFacts, ContinueTypes
  <2> QED
    BY <1>1, <2>3
<1>3. CASE FlushError
  <2>1. /\ worker \in {"full", "asked", "last"} /\ Continue(pending) /\ active' = active
        /\ UNCHANGED <<channel, queue>>
    BY <1>3 DEF FlushError
  <2>2. pending \in Maps /\ active \in Maps /\ Keys(pending) = Pending /\ Cardinality(Pending) <= MaxPending
    BY DEF WorkerTypes, Keys, Pending
  <2>3. WorkerTypes'
    BY <2>1, <2>2, ContinueTypes
  <2> QED
    BY <1>1, <2>3
<1> QED
  BY <1>2, <1>3

LEMMA ReceiveTypes ==
    ASSUME ActivityAssumption, TrackerInv, ReceiveRecord \/ ReceiveFlush \/ ReceiveNone
    PROVE  TrackerInv'
<1> USE DEF TrackerInv
<1>1. OtherTypes'
  BY DEF ReceiveRecord, ReceiveFlush, ReceiveNone, OtherTypes, process, requests, history
<1>2. CASE ReceiveNone
  <2>1. Pending' = Pending
    BY <1>2 DEF ReceiveNone, Pending
  <2> QED
    BY <1>1, <1>2, <2>1 DEF ReceiveNone, WorkerTypes, process, history
<1>3. CASE ReceiveFlush
  <2>1. Pending' = Pending
    BY <1>3 DEF ReceiveFlush, Pending
  <2>2. Head(queue) \in Flushes /\ queue' \in Seq(Message) /\ Head(queue) \in Message
    BY <1>3, Messages DEF ReceiveFlush, WorkerTypes
  <2> QED
    BY <1>1, <1>3, <2>1, <2>2 DEF ReceiveFlush, WorkerTypes, process, history
<1>4. CASE ReceiveRecord
  <2>1. Head(queue) \in Records /\ queue' \in Seq(Message) /\ Head(queue) \in Message
    BY <1>4, Messages DEF ReceiveRecord, WorkerTypes
  <2>2. Pending = Keys(pending) /\ Pending' = Keys(pending') /\ pending \in Maps
    BY DEF Pending, Keys, WorkerTypes
  <2>3. pending' \in Maps /\ Cardinality(Pending') <= MaxPending
    <3>1. CASE Cardinality(Pending) >= MaxPending
      <4>1. pending' = pending
        BY <1>4, <3>1 DEF ReceiveRecord
      <4> QED
        BY <2>2, <4>1 DEF WorkerTypes
    <3>2. CASE ~(Cardinality(Pending) >= MaxPending)
      <4>1. pending' = insert(pending, Head(queue))
        BY <1>4, <3>2 DEF ReceiveRecord
      <4>2. Pending \in SUBSET Sessions /\ Keys(insert(pending, Head(queue))) \in SUBSET Sessions
        BY DEF Pending, Keys
      <4>3. Cardinality(Pending) \in Nat /\ Cardinality(Keys(insert(pending, Head(queue)))) \in Nat
        BY <4>2, Finite
      <4>4. /\ insert(pending, Head(queue)) \in Maps
            /\ Cardinality(Keys(insert(pending, Head(queue)))) <= Cardinality(Keys(pending)) + 1
        BY <2>1, <2>2, InsertFacts
      <4> QED
        BY <2>2, <3>2, <4>1, <4>3, <4>4 DEF ActivityAssumption
    <3> QED
      BY <3>1, <3>2
  <2>4. worker' \in {"select", "full"} /\ cur' \in {cur, Head(queue)}
        /\ (worker' = "full" => cur' = Head(queue))
    BY <1>4 DEF ReceiveRecord
  <2>5. UNCHANGED <<active, soft, flusher, channel, givenUp>>
    BY <1>4 DEF ReceiveRecord, process, history
  <2> QED
    BY <1>1, <2>1, <2>3, <2>4, <2>5 DEF WorkerTypes
<1> QED
  BY <1>2, <1>3, <1>4

LEMMA RequestTypes ==
    ASSUME ActivityAssumption, TrackerInv, NEW c \in Connections,
           Request(c) \/ \E s \in Sessions, t \in 1 .. MaxTime : Handle(c, s, t)
    PROVE  TrackerInv'
<1> USE DEF TrackerInv
<1>1. ASSUME NEW s \in Sessions, NEW t \in 1 .. MaxTime, Handle(c, s, t) PROVE TrackerInv'
  <2>1. Record(s, t) \in Records /\ Record(s, t) \in Message
    BY DEF Record, Records, Message, ActivityAssumption
  <2>2. OtherTypes'
    BY <1>1, <2>1 DEF Handle, OtherTypes, process, history
  <2>3. WorkerTypes'
    BY <1>1 DEF Handle, WorkerTypes, Pending, process, history
  <2> QED
    BY <2>2, <2>3
<1>2. CASE SendRecord(c)
  <2>1. msg[c] \in Records /\ msg[c] \in Message /\ msg[c].id \in Sessions /\ msg[c].at \in Nat
    BY <1>2, Messages DEF SendRecord, OtherTypes
  <2>2. OtherTypes'
    BY <1>2, <2>1 DEF SendRecord, OtherTypes, process, Later, Maps
  <2>3. WorkerTypes'
    BY <1>2, <2>1 DEF SendRecord, WorkerTypes, Pending, process
  <2> QED
    BY <2>2, <2>3
<1>3. CASE SendFails(c)
  BY <1>3 DEF SendFails, OtherTypes, WorkerTypes, Pending, process, history
<1>4. CASE Respond(c) \/ Drop(c)
  <2>1. row' \in [Sessions -> {"none", "creating", "stored", "gone"}]
    BY <1>4 DEF Respond, Drop, Ended, OtherTypes
  <2>2. OtherTypes'
    BY <1>4, <2>1 DEF Respond, Drop, OtherTypes, process, history
  <2>3. WorkerTypes'
    BY <1>4 DEF Respond, Drop, WorkerTypes, Pending, process, history
  <2> QED
    BY <2>2, <2>3
<1> QED
  BY <1>1, <1>2, <1>3, <1>4 DEF Request

LEMMA FlusherTypes ==
    ASSUME ActivityAssumption, TrackerInv,
           \/ LoopTick \/ LoopExit \/ Reload
           \/ \E f \in Flushers : SendFlush(f) \/ FlushFails(f)
    PROVE  TrackerInv'
<1> USE DEF TrackerInv
<1>1. OtherTypes'
  BY DEF LoopTick, LoopExit, Reload, SendFlush, FlushFails, OtherTypes, process, requests, history
<1>2. CASE LoopTick \/ LoopExit \/ Reload
  <2>1. flusher' \in [Flushers -> {"idle", "sending", "waiting"}]
    BY <1>2 DEF LoopTick, LoopExit, Reload, WorkerTypes, Flushers
  <2>2. /\ soft' \in {soft, "cancelled"}
        /\ UNCHANGED <<active, pending, channel, queue, worker, cur, givenUp>>
    BY <1>2 DEF LoopTick, LoopExit, Reload, process, history
  <2> QED
    BY <1>1, <2>1, <2>2 DEF WorkerTypes, Pending
<1>3. ASSUME NEW f \in Flushers, SendFlush(f) \/ FlushFails(f) PROVE TrackerInv'
  <2>1. Flush(f) \in Message
    BY DEF Flush, Message
  <2>2. /\ flusher' \in [Flushers -> {"idle", "sending", "waiting"}]
        /\ queue' \in {queue, Append(queue, Flush(f))}
        /\ UNCHANGED <<active, pending, soft, channel, worker, cur, givenUp>>
    BY <1>3 DEF SendFlush, FlushFails, WorkerTypes, process, history
  <2>3. queue' \in Seq(Message)
    BY <2>1, <2>2 DEF WorkerTypes
  <2> QED
    BY <1>1, <2>2, <2>3 DEF WorkerTypes, Pending
<1> QED
  BY <1>2, <1>3

LEMMA ProcessTypes ==
    ASSUME ActivityAssumption, TrackerInv,
           \/ Close \/ Crash \/ Signal \/ Manager \/ StopListening \/ StopServing \/ UNCHANGED vars
    PROVE  TrackerInv'
<1> USE DEF TrackerInv
<1>1. CASE Crash
  <2>1. Pending' = {} /\ Cardinality(Pending') = 0
    BY <1>1, FS_EmptySet DEF Crash, Pending
  <2>2. WorkerTypes'
    BY <1>1, <2>1 DEF Crash, WorkerTypes, Maps, ActivityAssumption
  <2>3. OtherTypes'
    BY <1>1 DEF Crash, OtherTypes, requests
  <2> QED
    BY <2>2, <2>3
<1>2. CASE StopServing
  <2>1. row' \in [Sessions -> {"none", "creating", "stored", "gone"}]
    BY <1>2 DEF StopServing, Ended, OtherTypes
  <2>2. OtherTypes'
    BY <1>2, <2>1 DEF StopServing, OtherTypes, history
  <2>3. WorkerTypes'
    BY <1>2 DEF StopServing, WorkerTypes, Pending, history
  <2> QED
    BY <2>2, <2>3
<1>3. CASE Close \/ Signal \/ Manager \/ StopListening \/ UNCHANGED vars
  <2>1. OtherTypes'
    BY <1>3 DEF Close, Signal, Manager, ReloadDone, NoticeCrash, Abort, Exit, StopListening, vars,
                OtherTypes, process, requests, history
  <2>2. WorkerTypes'
    BY <1>3 DEF Close, Signal, Manager, ReloadDone, NoticeCrash, Abort, Exit, StopListening, vars,
                WorkerTypes, Pending, process, requests, history
  <2> QED
    BY <2>1, <2>2
<1> QED
  BY <1>1, <1>2, <1>3

LEMMA TrackerStep == ActivityAssumption /\ TrackerInv /\ [Next]_vars => TrackerInv'
  BY FlushTypes, ReceiveTypes, RequestTypes, FlusherTypes, ProcessTypes DEF Next, Worker, Done

-----------------------------------------------------------------------------
(* Where the activity of a session is.                                     *)

InQueue(s, t) ==
    \E i \in 1 .. Len(queue) : queue[i].kind = "record" /\ queue[i].id = s /\ queue[i].at >= t

InHand(s, t) == worker = "full" /\ cur.id = s /\ cur.at >= t

Kept(s) ==
    \/ active[s] >= accepted[s] \/ pending[s] >= accepted[s]
    \/ InHand(s, accepted[s]) \/ InQueue(s, accepted[s])

ActivityInv == TrackerInv /\ \A s \in Sessions \ givenUp : Kept(s)

LEMMA KeptIsNotLost == ActivityInv => NoActivityLost
<1> SUFFICES ASSUME ActivityInv, NEW s \in Sessions \ givenUp
             PROVE  \E t \in OnItsWay(s) \cup {active[s]} : t >= accepted[s]
  BY DEF NoActivityLost
<1>1. CASE InQueue(s, accepted[s])
  <2>1. PICK i \in 1 .. Len(queue) :
           queue[i].kind = "record" /\ queue[i].id = s /\ queue[i].at >= accepted[s]
    BY <1>1 DEF InQueue
  <2>2. queue[i].at \in OnItsWay(s)
    BY <2>1 DEF OnItsWay
  <2> QED
    BY <2>1, <2>2
<1>2. CASE InHand(s, accepted[s])
  <2>1. cur.at \in OnItsWay(s) /\ cur.at >= accepted[s]
    BY <1>2 DEF OnItsWay, InHand
  <2> QED
    BY <2>1
<1>3. pending[s] \in OnItsWay(s)
  BY DEF OnItsWay
<1> QED
  BY <1>1, <1>2, <1>3 DEF ActivityInv, Kept

\* Steps that move no record.
LEMMA Unmoved ==
    ASSUME ActivityInv, UNCHANGED <<active, pending, queue, worker, cur, accepted, givenUp>>
    PROVE  \A s \in Sessions \ givenUp' : Kept(s)'
  BY DEF ActivityInv, Kept, InHand, InQueue

\* The queue grows at its end.
LEMMA Queued ==
    ASSUME queue \in Seq(Message), NEW m \in Message, queue' = Append(queue, m)
    PROVE  /\ \A i \in 1 .. Len(queue) : i \in 1 .. Len(queue') /\ queue'[i] = queue[i]
           /\ Len(queue) + 1 \in 1 .. Len(queue') /\ queue'[Len(queue) + 1] = m
  OBVIOUS

\* The queue loses its head.
LEMMA Dequeued ==
    ASSUME queue \in Seq(Message), queue # <<>>, queue' = Tail(queue)
    PROVE  \A i \in 1 .. Len(queue) :
               \/ queue[i] = Head(queue)
               \/ i - 1 \in 1 .. Len(queue') /\ queue'[i - 1] = queue[i]
<1> SUFFICES ASSUME NEW i \in 1 .. Len(queue)
             PROVE  \/ queue[i] = Head(queue)
                    \/ i - 1 \in 1 .. Len(queue') /\ queue'[i - 1] = queue[i]
  OBVIOUS
<1>1. CASE i = 1
  BY <1>1
<1>2. CASE i # 1
  BY <1>2
<1> QED
  BY <1>1, <1>2

LEMMA SendKeeps ==
    ASSUME ActivityAssumption, ActivityInv, NEW c \in Connections, SendRecord(c)
    PROVE  \A s \in Sessions \ givenUp' : Kept(s)'
<1> USE DEF ActivityInv, TrackerInv
<1>1. /\ queue' = Append(queue, msg[c])
      /\ accepted' = [accepted EXCEPT ![msg[c].id] = Later(@, msg[c].at)]
      /\ UNCHANGED <<active, pending, worker, cur, givenUp>>
  BY DEF SendRecord
<1>2. msg[c] \in Message /\ msg[c].kind = "record" /\ msg[c].id \in Sessions /\ msg[c].at \in Nat
  BY Messages DEF SendRecord, OtherTypes
<1>3. queue \in Seq(Message)
  BY DEF WorkerTypes
<1>4. /\ \A i \in 1 .. Len(queue) : i \in 1 .. Len(queue') /\ queue'[i] = queue[i]
      /\ Len(queue) + 1 \in 1 .. Len(queue') /\ queue'[Len(queue) + 1] = msg[c]
  BY <1>1, <1>2, <1>3, Queued
<1>5. TAKE s \in Sessions \ givenUp'
<1>6. Kept(s)
  BY <1>1
<1>7. CASE accepted'[s] = accepted[s]
  <2>1. InQueue(s, accepted[s]) => InQueue(s, accepted[s])'
    BY <1>4, <1>7 DEF InQueue
  <2>2. InHand(s, accepted[s]) => InHand(s, accepted[s])'
    BY <1>1, <1>7 DEF InHand
  <2> QED
    BY <1>1, <1>6, <1>7, <2>1, <2>2 DEF Kept
<1>8. CASE accepted'[s] # accepted[s]
  <2>1. msg[c].id = s /\ accepted'[s] = msg[c].at
    BY <1>1, <1>2, <1>8 DEF Later, OtherTypes, Maps
  <2>2. InQueue(s, accepted[s])'
    BY <1>2, <1>4, <2>1 DEF InQueue
  <2> QED
    BY <2>2 DEF Kept
<1> QED
  BY <1>7, <1>8

LEMMA FlushSent ==
    ASSUME ActivityAssumption, ActivityInv, NEW f \in Flushers, SendFlush(f)
    PROVE  \A s \in Sessions \ givenUp' : Kept(s)'
<1> USE DEF ActivityInv, TrackerInv
<1>1. /\ queue' = Append(queue, Flush(f))
      /\ UNCHANGED <<active, pending, worker, cur, accepted, givenUp>>
  BY DEF SendFlush, history
<1>2. Flush(f) \in Message /\ queue \in Seq(Message)
  BY DEF Flush, Message, WorkerTypes
<1>3. \A i \in 1 .. Len(queue) : i \in 1 .. Len(queue') /\ queue'[i] = queue[i]
  BY <1>1, <1>2, Queued
<1>4. TAKE s \in Sessions \ givenUp'
<1>5. InQueue(s, accepted[s]) => InQueue(s, accepted[s])'
  BY <1>1, <1>3 DEF InQueue
<1>6. InHand(s, accepted[s]) => InHand(s, accepted[s])'
  BY <1>1 DEF InHand
<1> QED
  BY <1>1, <1>5, <1>6 DEF Kept

LEMMA ReceiveKeeps ==
    ASSUME ActivityAssumption, ActivityInv, ReceiveRecord \/ ReceiveFlush
    PROVE  \A s \in Sessions \ givenUp' : Kept(s)'
<1> USE DEF ActivityInv, TrackerInv
<1>1. /\ queue # <<>> /\ queue' = Tail(queue) /\ worker = "select"
      /\ UNCHANGED <<active, accepted, givenUp>>
  BY DEF ReceiveRecord, ReceiveFlush, history
<1>2. queue \in Seq(Message) /\ Head(queue) \in Message
  BY <1>1 DEF WorkerTypes
<1>3. \A i \in 1 .. Len(queue) :
         \/ queue[i] = Head(queue)
         \/ i - 1 \in 1 .. Len(queue') /\ queue'[i - 1] = queue[i]
  BY <1>1, <1>2, Dequeued
<1>4. TAKE s \in Sessions \ givenUp'
<1>5. Kept(s) /\ ~InHand(s, accepted[s])
  BY <1>1 DEF InHand
<1>6. pending \in Maps /\ accepted \in Maps
  BY DEF WorkerTypes, OtherTypes
<1>7. InQueue(s, accepted[s]) => \/ InQueue(s, accepted[s])'
                                 \/ /\ Head(queue).kind = "record" /\ Head(queue).id = s
                                    /\ Head(queue).at >= accepted[s]
  BY <1>1, <1>3 DEF InQueue
<1>8. CASE ReceiveFlush
  <2>1. Head(queue).kind = "flush" /\ pending' = pending
    BY <1>8 DEF ReceiveFlush
  <2> QED
    BY <1>1, <1>5, <1>7, <2>1 DEF Kept
<1>9. CASE ReceiveRecord
  <2>1. Head(queue) \in Records /\ Head(queue).at \in Nat /\ Head(queue).id \in Sessions
    BY <1>2, <1>9, Messages DEF ReceiveRecord
  <2>2. CASE Cardinality(Pending) >= MaxPending
    <3>1. worker' = "full" /\ cur' = Head(queue) /\ pending' = pending
      BY <1>9, <2>2 DEF ReceiveRecord
    <3>2. Head(queue).id = s /\ Head(queue).at >= accepted[s] => InHand(s, accepted[s])'
      BY <1>1, <3>1 DEF InHand
    <3> QED
      BY <1>1, <1>5, <1>7, <3>1, <3>2 DEF Kept
  <2>3. CASE ~(Cardinality(Pending) >= MaxPending)
    <3>1. pending' = insert(pending, Head(queue))
      BY <1>9, <2>3 DEF ReceiveRecord
    <3>2. /\ pending' \in Maps
          /\ pending'[Head(queue).id] >= Head(queue).at /\ pending'[s] >= pending[s]
      BY <1>6, <2>1, <3>1, InsertFacts
    <3>3. accepted[s] \in Nat /\ pending[s] \in Nat /\ pending'[s] \in Nat
      BY <1>6, <3>2 DEF Maps
    <3>4. Head(queue).id = s /\ Head(queue).at >= accepted[s] => pending'[s] >= accepted[s]
      BY <2>1, <3>2, <3>3
    <3>5. pending[s] >= accepted[s] => pending'[s] >= accepted[s]
      BY <3>2, <3>3
    <3> QED
      BY <1>1, <1>5, <1>7, <3>4, <3>5 DEF Kept
  <2> QED
    BY <2>2, <2>3
<1> QED
  BY <1>8, <1>9

\* A flush writes the whole map; the record in hand finds room then.
LEMMA FlushOkKeeps ==
    ASSUME ActivityAssumption, ActivityInv, FlushOk
    PROVE  \A s \in Sessions \ givenUp' : Kept(s)'
<1> USE DEF ActivityInv, TrackerInv
<1>1. /\ worker \in {"full", "asked", "last"} /\ active' = record_batch_activity
      /\ Continue(NoEntries) /\ queue' = queue /\ accepted' = accepted
  BY DEF FlushOk, NoEntries
<1>2. ~(Cardinality(Keys(NoEntries)) >= MaxPending)
  BY EmptyMap DEF ActivityAssumption
<1>3. /\ worker = "full" => pending' = insert(NoEntries, cur)
      /\ givenUp \subseteq givenUp'
  BY <1>1, <1>2 DEF Continue, Keys
<1>4. TAKE s \in Sessions \ givenUp'
<1>5. Kept(s)
  BY <1>3
<1>6. /\ active'[s] \in Nat /\ active[s] \in Nat /\ pending[s] \in Nat /\ accepted[s] \in Nat
      /\ active'[s] >= active[s] /\ active'[s] >= pending[s]
  BY <1>1, BatchFacts DEF WorkerTypes, OtherTypes, Maps
<1>7. active[s] >= accepted[s] \/ pending[s] >= accepted[s] => active'[s] >= accepted'[s]
  BY <1>1, <1>6
<1>8. InQueue(s, accepted[s]) => InQueue(s, accepted[s])'
  BY <1>1 DEF InQueue
<1>9. ASSUME InHand(s, accepted[s]) PROVE pending'[s] >= accepted'[s]
  <2>1. worker = "full" /\ cur \in Records /\ cur.id = s /\ cur.at >= accepted[s] /\ cur.at \in Nat
    BY <1>9, Messages DEF InHand, WorkerTypes
  <2>2. insert(NoEntries, cur) \in Maps /\ insert(NoEntries, cur)[cur.id] >= cur.at
    BY <2>1, EmptyMap, InsertFacts
  <2>3. pending'[s] \in Nat /\ pending'[s] >= cur.at
    BY <1>3, <2>1, <2>2 DEF Maps
  <2> QED
    BY <1>1, <1>6, <2>1, <2>3
<1> QED
  BY <1>5, <1>7, <1>8, <1>9 DEF Kept

\* A flush that fails keeps the map; what cannot be kept then is given up.
LEMMA FlushErrorKeeps ==
    ASSUME ActivityAssumption, ActivityInv, FlushError
    PROVE  \A s \in Sessions \ givenUp' : Kept(s)'
<1> USE DEF ActivityInv, TrackerInv
<1>1. /\ worker \in {"full", "asked", "last"} /\ active' = active
      /\ Continue(pending) /\ queue' = queue /\ accepted' = accepted
  BY DEF FlushError
<1>2. givenUp \subseteq givenUp'
  BY <1>1 DEF Continue
<1>3. TAKE s \in Sessions \ givenUp'
<1>4. Kept(s)
  BY <1>2
<1>5. InQueue(s, accepted[s]) => InQueue(s, accepted[s])'
  BY <1>1 DEF InQueue
<1>6. active[s] \in Nat /\ pending[s] \in Nat /\ accepted[s] \in Nat /\ pending \in Maps
  BY DEF WorkerTypes, OtherTypes, Maps
<1>7. CASE worker = "full"
  <2>1. cur \in Records /\ cur.id \in Sessions /\ cur.at \in Nat
    BY <1>7, Messages DEF WorkerTypes
  <2>2. CASE Cardinality(Keys(pending)) >= MaxPending
    <3>1. pending' = pending /\ cur.id \in givenUp'
      BY <1>1, <1>7, <2>2 DEF Continue, Keys
    <3>2. ~InHand(s, accepted[s])
      BY <3>1 DEF InHand
    <3> QED
      BY <1>1, <1>4, <1>5, <3>1, <3>2 DEF Kept
  <2>3. CASE ~(Cardinality(Keys(pending)) >= MaxPending)
    <3>1. pending' = insert(pending, cur)
      BY <1>1, <1>7, <2>3 DEF Continue, Keys
    <3>2. pending' \in Maps /\ pending'[cur.id] >= cur.at /\ pending'[s] >= pending[s]
      BY <1>6, <2>1, <3>1, InsertFacts
    <3>3. pending'[s] \in Nat
      BY <3>2 DEF Maps
    <3>4. InHand(s, accepted[s]) \/ pending[s] >= accepted[s] => pending'[s] >= accepted[s]
      BY <1>6, <2>1, <3>2, <3>3 DEF InHand
    <3> QED
      BY <1>1, <1>4, <1>5, <3>4 DEF Kept
  <2> QED
    BY <2>2, <2>3
<1>8. CASE worker = "asked"
  <2>1. pending' = pending /\ ~InHand(s, accepted[s])
    BY <1>1, <1>8 DEF Continue, InHand
  <2> QED
    BY <1>1, <1>4, <1>5, <2>1 DEF Kept
<1>9. CASE worker = "last"
  <2>1. pending[s] = 0 /\ ~InHand(s, accepted[s])
    BY <1>1, <1>9 DEF Continue, InHand
  <2>2. pending[s] >= accepted[s] => active[s] >= accepted[s]
    BY <1>6, <2>1
  <2> QED
    BY <1>1, <1>4, <1>5, <2>1, <2>2 DEF Kept
<1> QED
  BY <1>1, <1>7, <1>8, <1>9

LEMMA ActivityInit == ActivityAssumption /\ Init => ActivityInv
<1> SUFFICES ASSUME ActivityAssumption, Init PROVE \A s \in Sessions : Kept(s)
  BY TrackerInit DEF ActivityInv
<1>1. \A s \in Sessions : active[s] = 0 /\ accepted[s] = 0
  BY DEF Init
<1> QED
  BY <1>1 DEF Kept

LEMMA ActivityStep == ActivityAssumption /\ ActivityInv /\ [Next]_vars => ActivityInv'
<1> SUFFICES ASSUME ActivityAssumption, ActivityInv, [Next]_vars
             PROVE  \A s \in Sessions \ givenUp' : Kept(s)'
  BY TrackerStep DEF ActivityInv
<1>1. CASE FlushOk
  BY <1>1, FlushOkKeeps
<1>2. CASE FlushError
  BY <1>2, FlushErrorKeeps
<1>3. CASE ReceiveRecord \/ ReceiveFlush
  BY <1>3, ReceiveKeeps
<1>4. CASE \E f \in Flushers : SendFlush(f)
  BY <1>4, FlushSent
<1>5. CASE \E c \in Connections : SendRecord(c)
  BY <1>5, SendKeeps
<1>6. CASE Crash
  BY <1>6 DEF Crash
<1>7. CASE ReceiveNone
  <2>1. /\ UNCHANGED <<active, pending, queue, accepted, givenUp>> /\ queue = <<>>
        /\ worker = "select"
    BY <1>7 DEF ReceiveNone, history
  <2>2. \A s \in Sessions \ givenUp : active[s] >= accepted[s] \/ pending[s] >= accepted[s]
    BY <2>1 DEF ActivityInv, Kept, InHand, InQueue
  <2> QED
    BY <2>1, <2>2 DEF Kept
<1>8. CASE \/ \E c \in Connections : \/ SendFails(c) \/ Respond(c) \/ Drop(c)
                                     \/ \E s \in Sessions, t \in 1 .. MaxTime : Handle(c, s, t)
           \/ LoopTick \/ LoopExit \/ Close \/ Reload \/ Signal \/ Manager \/ StopListening
           \/ StopServing \/ UNCHANGED vars
           \/ \E f \in Flushers : FlushFails(f)
  <2>1. UNCHANGED <<active, pending, queue, worker, cur, accepted, givenUp>>
    BY <1>8 DEF SendFails, Respond, Drop, Handle, LoopTick, LoopExit, Close, Reload, Signal, Manager,
                ReloadDone, NoticeCrash, Abort, Exit, StopListening, StopServing, FlushFails, vars,
                process, requests, history
  <2> QED
    BY <2>1, Unmoved
<1> QED
  BY <1>1, <1>2, <1>3, <1>4, <1>5, <1>6, <1>7, <1>8 DEF Next, Worker, Request, Done

-----------------------------------------------------------------------------

\* Type correctness; the worker's map (worker.rs, pending_records) never holds more than
\* MAX_PENDING_RECORDS entries.
THEOREM TrackerTypes == ActivityAssumption /\ Spec => []TypeOK
<1> SUFFICES ASSUME ActivityAssumption PROVE Spec => []TypeOK
  OBVIOUS
<1>1. Init => TrackerInv
  BY TrackerInit
<1>2. TrackerInv /\ [Next]_vars => TrackerInv'
  BY TrackerStep
<1> QED
  BY <1>1, <1>2, TypesFollow, PTL DEF Spec

\* However records of a session overtake each other on the way through requests, channel and map, and
\* however many flushes fail, what the channel took is in the row or on its way there,
\* unless it was given up (worker.rs, Worker::run).
THEOREM ActivityKept == ActivityAssumption /\ Spec => []NoActivityLost
<1> SUFFICES ASSUME ActivityAssumption PROVE Spec => []NoActivityLost
  OBVIOUS
<1>1. Init => ActivityInv
  BY ActivityInit
<1>2. ActivityInv /\ [Next]_vars => ActivityInv'
  BY ActivityStep
<1> QED
  BY <1>1, <1>2, KeptIsNotLost, PTL DEF Spec

\* No step moves last_active_at of a row back (record_batch_activity of the repositories).
THEOREM ActivityMonotonic == ActivityAssumption /\ Spec => NeverBackwards
<1> SUFFICES ASSUME ActivityAssumption PROVE Spec => NeverBackwards
  OBVIOUS
<1> DEFINE Forward == \A s \in Sessions : active'[s] >= active[s]
<1>1. Init => TrackerInv
  BY TrackerInit
<1>2. TrackerInv /\ [Next]_vars => TrackerInv'
  BY TrackerStep
<1>3. TrackerInv /\ [Next]_vars => [Forward]_vars
  <2> SUFFICES ASSUME TrackerInv, Next PROVE Forward
    OBVIOUS
  <2>1. \A s \in Sessions : active[s] \in Nat
    BY DEF TrackerInv, WorkerTypes, Maps
  <2>2. CASE FlushOk
    BY <2>2, BatchFacts DEF FlushOk, TrackerInv
  <2>3. CASE ~FlushOk
    <3>1. active' = active
      BY <2>3 DEF Next, Worker, Request, Done, SendRecord, SendFails, Respond, Drop, Handle, LoopTick, LoopExit,
                  SendFlush, FlushFails, ReceiveRecord, ReceiveFlush, ReceiveNone, FlushError, Close, Crash,
                  Reload, Signal, Manager, ReloadDone, NoticeCrash, Abort, Exit, StopListening, StopServing, vars
    <3> QED
      BY <2>1, <3>1
  <2> QED
    BY <2>2, <2>3
<1> QED
  BY <1>1, <1>2, <1>3, PTL DEF Spec, NeverBackwards
=============================================================================
