--------------------------- MODULE ActivityTracker ---------------------------
(***************************************************************************)
(* The activity tracker (crates/handlers/src/activity_tracker) in the      *)
(* server process that runs it: the lifecycle manager                      *)
(* (crates/cli/src/lifecycle.rs), the listener that serves connections     *)
(* (crates/listener/src/server.rs), the loop that asks for a flush every   *)
(* minute and the worker that writes last_active_at to the session tables. *)
(*                                                                         *)
(* Requests send records through a bounded channel: a sender waits while   *)
(* the channel is full and fails once it is closed.  A request that        *)
(* creates a session records its activity BEFORE its transaction commits.  *)
(***************************************************************************)
EXTENDS Naturals, Sequences, FiniteSets

CONSTANTS
    Sessions,      \* sessions of any kind: browser, OAuth 2.0, compat, personal
    Connections,   \* connections that can be served at a time
    QueueSize,     \* MESSAGE_QUEUE_SIZE
    MaxPending,    \* MAX_PENDING_RECORDS
    MaxTime        \* bound: the times the clock may show

ASSUME ActivityAssumption ==
    /\ IsFiniteSet(Sessions)
    /\ Sessions \cap {"loop", "manager", "none"} = {}
    /\ QueueSize \in Nat \ {0} /\ MaxPending \in Nat \ {0} /\ MaxTime \in Nat \ {0}

VARIABLES
    row,           \* session rows: none yet, creating (not committed), stored, gone
    active,        \* last_active_at of each row
    manager,       \* LifecycleManager::run
    soft,          \* the soft shutdown token
    listener,      \* run_servers
    conn,          \* what each connection is doing
    msg,           \* the record it sends
    loop,          \* flush_loop: running or done
    flusher,       \* the two callers of flush(): the loop, and the manager on SIGHUP
    channel,       \* the channel: open or closed
    queue,         \* the messages in it
    worker,        \* Worker::run: select, one of the three flushes, or done
    cur,           \* the message the worker handles
    pending,       \* pending_records: the end_time of each entry, 0 for none
    accepted,      \* (history) the latest activity the channel took, per session
    givenUp        \* (history) the sessions of which a record was given up

process == <<manager, soft, listener>>
requests == <<conn, msg>>
history == <<accepted, givenUp>>
vars == <<row, active, process, requests, loop, flusher, channel, queue,
          worker, cur, pending, history>>

-----------------------------------------------------------------------------

Flushers == {"loop", "manager"}

Record(s, t) == [kind |-> "record", id |-> s, at |-> t]
Flush(f) == [kind |-> "flush", id |-> f, at |-> 0]
NoMessage == [kind |-> "none", id |-> "none", at |-> 0]
Message == [kind : {"record"}, id : Sessions, at : Nat]
             \cup [kind : {"flush"}, id : Flushers, at : {0}]

Later(a, b) == IF a < b THEN b ELSE a

\* The keys of pending_records.
Pending == {s \in Sessions : pending[s] # 0}

\* An entry is inserted into pending_records, or its end_time moves forward.
insert(p, m) == [p EXCEPT ![m.id] = Later(@, m.at)]

Init ==
    /\ row \in [Sessions -> {"none", "stored"}]
    /\ active = [s \in Sessions |-> 0]
    /\ manager = "running" /\ soft = "live" /\ listener = "accepting"
    /\ conn = [c \in Connections |-> "idle"]
    /\ msg = [c \in Connections |-> NoMessage]
    /\ loop = "running"
    /\ flusher = [f \in Flushers |-> "idle"]
    /\ channel = "open" /\ queue = <<>>
    /\ worker = "select" /\ cur = NoMessage
    /\ pending = [s \in Sessions |-> 0]
    /\ accepted = [s \in Sessions |-> 0]
    /\ givenUp = {}

-----------------------------------------------------------------------------
(* Requests.                                                               *)

\* A connection is accepted and its request handled up to record_*_session, for
\* a session that is there or one that this request creates.  Clock::now is the
\* wall clock, of one of several servers: its readings come in any order.
Handle(c, s, t) ==
    /\ conn[c] = "idle" /\ listener = "accepting"
    /\ row[s] \in {"none", "stored"}
    /\ row' = [row EXCEPT ![s] = IF @ = "none" THEN "creating" ELSE @]
    /\ conn' = [conn EXCEPT ![c] = "sending"]
    /\ msg' = [msg EXCEPT ![c] = Record(s, t)]
    /\ UNCHANGED <<active, process, loop, flusher, channel, queue, worker,
                   cur, pending, history>>

\* channel.send succeeds: there is room.
SendRecord(c) ==
    /\ conn[c] = "sending"
    /\ channel = "open" /\ Len(queue) < QueueSize
    /\ queue' = Append(queue, msg[c])
    /\ accepted' = [accepted EXCEPT ![msg[c].id] = Later(@, msg[c].at)]
    /\ conn' = [conn EXCEPT ![c] = "recorded"]
    /\ UNCHANGED <<row, active, process, msg, loop, flusher, channel, worker,
                   cur, pending, givenUp>>

\* channel.send fails: the worker has closed the channel.
SendFails(c) ==
    /\ conn[c] = "sending" /\ channel = "closed"
    /\ conn' = [conn EXCEPT ![c] = "recorded"]
    /\ UNCHANGED <<row, active, process, msg, loop, flusher, channel, queue,
                   worker, cur, pending, history>>

\* The rows once the requests of the connections in C ended in this way.
Ended(C, how) ==
    [s \in Sessions |-> IF row[s] = "creating" /\ \E c \in C : msg[c].id = s
                        THEN how ELSE row[s]]

\* save() commits, the response is sent.
Respond(c) ==
    /\ conn[c] = "recorded"
    /\ row' = Ended({c}, "stored")
    /\ conn' = [conn EXCEPT ![c] = "idle"]
    /\ msg' = [msg EXCEPT ![c] = NoMessage]
    /\ UNCHANGED <<active, process, loop, flusher, channel, queue,
                   worker, cur, pending, history>>

\* save() fails, or the client goes away and the request is dropped.
Drop(c) ==
    /\ conn[c] # "idle"
    /\ row' = Ended({c}, "gone")
    /\ conn' = [conn EXCEPT ![c] = "idle"]
    /\ msg' = [msg EXCEPT ![c] = NoMessage]
    /\ UNCHANGED <<active, process, loop, flusher, channel, queue,
                   worker, cur, pending, history>>

-----------------------------------------------------------------------------
(* ActivityTracker::flush and flush_loop.                                  *)

\* interval.tick(): the loop calls flush().
LoopTick ==
    /\ loop = "running" /\ flusher["loop"] = "idle"
    /\ soft = "live" /\ channel = "open"
    /\ flusher' = [flusher EXCEPT !["loop"] = "sending"]
    /\ UNCHANGED <<row, active, process, requests, loop, channel, queue,
                   worker, cur, pending, history>>

\* The flush message goes into the channel; the caller waits for the answer.
SendFlush(f) ==
    /\ flusher[f] = "sending"
    /\ channel = "open" /\ Len(queue) < QueueSize
    /\ queue' = Append(queue, Flush(f))
    /\ flusher' = [flusher EXCEPT ![f] = "waiting"]
    /\ UNCHANGED <<row, active, process, requests, loop, channel, worker,
                   cur, pending, history>>

\* The channel is closed: flush() logs it and returns.
FlushFails(f) ==
    /\ flusher[f] = "sending" /\ channel = "closed"
    /\ flusher' = [flusher EXCEPT ![f] = "idle"]
    /\ UNCHANGED <<row, active, process, requests, loop, channel, queue,
                   worker, cur, pending, history>>

\* The token is cancelled or the channel closed: the loop returns.
LoopExit ==
    /\ loop = "running" /\ flusher["loop"] = "idle"
    /\ soft = "cancelled" \/ channel = "closed"
    /\ loop' = "done"
    /\ soft' = "cancelled"
    /\ UNCHANGED <<row, active, manager, listener, requests, flusher, channel,
                   queue, worker, cur, pending, history>>

-----------------------------------------------------------------------------
(* Worker::run.                                                            *)

\* The token is cancelled: the channel is closed, and what is in it is handled.
Close ==
    /\ worker = "select" /\ channel = "open" /\ soft = "cancelled"
    /\ channel' = "closed"
    /\ UNCHANGED <<row, active, process, requests, loop, flusher, queue,
                   worker, cur, pending, history>>

\* A record is received: it is inserted if there is room, else a flush comes first.
ReceiveRecord ==
    /\ worker = "select" /\ queue # <<>> /\ Head(queue).kind = "record"
    /\ queue' = Tail(queue)
    /\ IF Cardinality(Pending) >= MaxPending
       THEN /\ worker' = "full" /\ cur' = Head(queue)
            /\ UNCHANGED pending
       ELSE /\ pending' = insert(pending, Head(queue))
            /\ UNCHANGED <<worker, cur>>
    /\ UNCHANGED <<row, active, process, requests, loop, flusher, channel,
                   history>>

\* Mutant of ReceiveFlush: a map within its bound is not flushed, the caller is answered.
ReceiveFlush_Lazy ==
    /\ worker = "select" /\ queue # <<>> /\ Head(queue).kind = "flush"
    /\ queue' = Tail(queue)
    /\ flusher' = [flusher EXCEPT ![Head(queue).id] = "idle"]
    /\ UNCHANGED <<row, active, process, requests, loop, channel, worker, cur,
                   pending, history>>

\* A flush message is received.
ReceiveFlush ==
    /\ worker = "select" /\ queue # <<>> /\ Head(queue).kind = "flush"
    /\ queue' = Tail(queue)
    /\ worker' = "asked" /\ cur' = Head(queue)
    /\ UNCHANGED <<row, active, process, requests, loop, flusher, channel,
                   pending, history>>

\* recv() returns None: one last flush.
ReceiveNone ==
    /\ worker = "select" /\ channel = "closed" /\ queue = <<>>
    /\ worker' = "last"
    /\ UNCHANGED <<row, active, process, requests, loop, flusher, channel,
                   queue, cur, pending, history>>

\* What follows a flush that left the entries p: the record that found the map
\* full is inserted, or dropped if it still is; the caller of flush() is answered;
\* the worker ends, and what it could not write is lost.
Continue(p) ==
    LET full == worker = "full" /\ Cardinality({s \in Sessions : p[s] # 0}) >= MaxPending
    IN  /\ worker' = IF worker = "last" THEN "done" ELSE "select"
        /\ cur' = NoMessage
        /\ soft' = IF worker = "last" THEN "cancelled" ELSE soft
        /\ flusher' = IF worker = "asked" THEN [flusher EXCEPT ![cur.id] = "idle"] ELSE flusher
        /\ pending' = IF worker = "full" /\ ~full THEN insert(p, cur)
                      ELSE IF worker = "last" THEN [s \in Sessions |-> 0] ELSE p
        /\ givenUp' = IF full THEN givenUp \cup {cur.id}
                      ELSE IF worker = "last" THEN givenUp \cup {s \in Sessions : p[s] # 0}
                      ELSE givenUp

\* SET last_active_at = GREATEST(t.last_active_at, last_active_at), on every row.
record_batch_activity == [s \in Sessions |-> Later(active[s], pending[s])]

\* flush, when try_flush succeeds: every row was there (ensure_affected_rows).
FlushOk ==
    /\ worker \in {"full", "asked", "last"}
    /\ \A s \in Pending : row[s] = "stored"
    /\ active' = record_batch_activity
    /\ Continue([s \in Sessions |-> 0])
    /\ UNCHANGED <<row, manager, listener, requests, loop, channel, queue,
                   accepted>>

\* Mutant of FlushError: the entries are cleared before the transaction is saved.
FlushError_Cleared ==
    /\ worker \in {"full", "asked", "last"} /\ Pending # {}
    /\ Continue([s \in Sessions |-> 0])
    /\ UNCHANGED <<row, active, manager, listener, requests, loop, channel,
                   queue, accepted>>

\* flush, when try_flush fails: the database is out of reach, or one of the rows
\* is not there; nothing is written and every entry is kept.
FlushError ==
    /\ worker \in {"full", "asked", "last"} /\ Pending # {}
    /\ Continue(pending)
    /\ UNCHANGED <<row, active, manager, listener, requests, loop, channel,
                   queue, accepted>>

\* The worker task panics: the guard cancels the token, the receiver is dropped
\* with what is in the channel, and so are the senders of the answers.
Crash ==
    /\ worker # "done"
    /\ worker' = "done" /\ channel' = "closed" /\ queue' = <<>> /\ cur' = NoMessage
    /\ pending' = [s \in Sessions |-> 0]
    /\ soft' = "cancelled"
    /\ flusher' = [f \in Flushers |-> IF flusher[f] = "waiting" THEN "idle" ELSE flusher[f]]
    /\ givenUp' = Sessions
    /\ UNCHANGED <<row, active, manager, listener, requests, loop, accepted>>

-----------------------------------------------------------------------------
(* LifecycleManager::run and run_servers.                                  *)

\* SIGHUP: the reload handlers run, one of them flushes the tracker.
Reload ==
    /\ manager = "running"
    /\ manager' = "reloading"
    /\ flusher' = [flusher EXCEPT !["manager"] = "sending"]
    /\ UNCHANGED <<row, active, soft, listener, requests, loop, channel, queue,
                   worker, cur, pending, history>>

\* Every reload handler has returned.
ReloadDone ==
    /\ manager = "reloading" /\ flusher["manager"] = "idle"
    /\ manager' = "running"
    /\ UNCHANGED <<row, active, soft, listener, requests, loop, flusher, channel,
                   queue, worker, cur, pending, history>>

\* SIGTERM or SIGINT.
Signal ==
    /\ manager = "running"
    /\ manager' = "draining" /\ soft' = "cancelled"
    /\ UNCHANGED <<row, active, listener, requests, loop, flusher, channel,
                   queue, worker, cur, pending, history>>

\* "Another task triggered a shutdown, it likely crashed!"
NoticeCrash ==
    /\ manager = "running" /\ soft = "cancelled"
    /\ manager' = "draining"
    /\ UNCHANGED <<row, active, soft, listener, requests, loop, flusher, channel,
                   queue, worker, cur, pending, history>>

TasksDone == worker = "done" /\ loop = "done" /\ listener = "done"

\* The wait for the tasks ends, with all of them done, at a second signal or after
\* the timeout: the hard shutdown token is cancelled.
Abort ==
    /\ manager = "draining"
    /\ manager' = "aborting"
    /\ UNCHANGED <<row, active, soft, listener, requests, loop, flusher, channel,
                   queue, worker, cur, pending, history>>

\* task_tracker.wait(), then the process exits.
Exit ==
    /\ manager = "aborting" /\ TasksDone
    /\ manager' = "exited"
    /\ UNCHANGED <<row, active, soft, listener, requests, loop, flusher, channel,
                   queue, worker, cur, pending, history>>

\* The listener accepts no more connections.
StopListening ==
    /\ listener = "accepting" /\ soft = "cancelled"
    /\ listener' = "draining"
    /\ UNCHANGED <<row, active, manager, soft, requests, loop, flusher, channel,
                   queue, worker, cur, pending, history>>

\* Mutant of StopServing: the hard shutdown token is not looked at.
StopServing_Graceful ==
    /\ listener = "draining"
    /\ \A c \in Connections : conn[c] = "idle"
    /\ listener' = "done"
    /\ UNCHANGED <<row, active, manager, soft, requests, loop, flusher, channel,
                   queue, worker, cur, pending, history>>

\* The last connection has ended, or the hard shutdown drops those that have not.
StopServing ==
    /\ listener = "draining"
    /\ manager = "aborting" \/ \A c \in Connections : conn[c] = "idle"
    /\ listener' = "done"
    /\ row' = Ended(Connections, "gone")
    /\ conn' = [c \in Connections |-> "idle"]
    /\ msg' = [c \in Connections |-> NoMessage]
    /\ UNCHANGED <<active, manager, soft, loop, flusher, channel, queue,
                   worker, cur, pending, history>>

-----------------------------------------------------------------------------

Done == manager = "exited" /\ UNCHANGED vars

Worker == ReceiveRecord \/ ReceiveFlush \/ ReceiveNone \/ FlushOk \/ FlushError
Manager == ReloadDone \/ NoticeCrash \/ Abort \/ Exit
Request(c) == SendRecord(c) \/ SendFails(c) \/ Respond(c) \/ Drop(c)

Next ==
    \/ \E c \in Connections : Request(c) \/ \E s \in Sessions, t \in 1 .. MaxTime : Handle(c, s, t)
    \/ LoopTick \/ LoopExit
    \/ \E f \in Flushers : SendFlush(f) \/ FlushFails(f)
    \/ Worker \/ Close \/ Crash
    \/ Reload \/ Signal \/ Manager
    \/ StopListening \/ StopServing
    \/ Done

Spec == Init /\ [][Next]_vars

\* Every task that can go on is run again; a select that finds two of its branches
\* ready takes each of them in turn; the channel serves its senders in the order
\* they came; the statements of a flush end, and succeed again and again while every
\* row is there.  A request may take for ever.
Fairness ==
    /\ WF_vars(Worker) /\ SF_vars(FlushOk) /\ SF_vars(Close)
    /\ WF_vars(LoopTick \/ LoopExit)
    /\ \A f \in Flushers : SF_vars(SendFlush(f))
    /\ WF_vars(\E f \in Flushers : FlushFails(f))
    /\ WF_vars(ReloadDone \/ Abort \/ Exit) /\ SF_vars(NoticeCrash)
    /\ WF_vars(StopListening \/ StopServing)

FairSpec == Spec /\ Fairness

-----------------------------------------------------------------------------
(* Properties.                                                             *)

\* The process is in one of its states, and the map of the worker holds no more
\* than MAX_PENDING_RECORDS entries.
TypeOK ==
    /\ row \in [Sessions -> {"none", "creating", "stored", "gone"}]
    /\ active \in [Sessions -> Nat]
    /\ manager \in {"running", "reloading", "draining", "aborting", "exited"}
    /\ soft \in {"live", "cancelled"}
    /\ listener \in {"accepting", "draining", "done"}
    /\ conn \in [Connections -> {"idle", "sending", "recorded"}]
    /\ msg \in [Connections -> Message \cup {NoMessage}]
    /\ loop \in {"running", "done"}
    /\ flusher \in [Flushers -> {"idle", "sending", "waiting"}]
    /\ channel \in {"open", "closed"} /\ queue \in Seq(Message)
    /\ worker \in {"select", "full", "asked", "last", "done"}
    /\ cur \in Message \cup {NoMessage}
    /\ pending \in [Sessions -> Nat] /\ Cardinality(Pending) <= MaxPending
    /\ accepted \in [Sessions -> Nat] /\ givenUp \subseteq Sessions

\* The activity of s that is on its way to its row.
OnItsWay(s) ==
    {queue[i].at : i \in {j \in 1 .. Len(queue) : queue[j].kind = "record" /\ queue[j].id = s}}
      \cup {pending[s]}
      \cup (IF worker = "full" /\ cur.id = s THEN {cur.at} ELSE {})

\* Activity that the channel took is in the row of its session, or on its way
\* there, however its records are ordered and however many flushes fail, unless a
\* record was dropped with the map full, or the worker ended without writing it.
NoActivityLost ==
    \A s \in Sessions \ givenUp :
        \E t \in OnItsWay(s) \cup {active[s]} : t >= accepted[s]

\* last_active_at never goes back, although records of a session may reach the
\* worker, and batches the database, in another order than that of their times.
NeverBackwards == [][\A s \in Sessions : active'[s] >= active[s]]_vars

\* "This guard on the shutdown token is to ensure that if this task crashes for any
\* reason, the server will shut down": once the token is cancelled, or the worker
\* or the loop has ended, the process exits, whoever waits for whom: requests and
\* flushes at a full channel, a reload that is under way, connections that do not end.
Stops == (soft = "cancelled" \/ worker = "done" \/ loop = "done") ~> manager = "exited"

\* A record in the map is written, or given up, as long as requests end and the row of
\* every session in the map is there or will be.
Written ==
    (\A c \in Connections : []<>(conn[c] = "idle")) =>
    \A s \in Sessions, t \in 1 .. MaxTime :
        pending[s] = t ~> active[s] >= t \/ s \in givenUp \/ \E u \in Pending : row[u] = "gone"

\* What flush_loop is for, "Regularly flush the activity tracker": a record in the
\* map is written, or given up, whatever becomes of other sessions.
WrittenRegardless ==
    \A s \in Sessions, t \in 1 .. MaxTime :
        pending[s] = t ~> active[s] >= t \/ s \in givenUp
=============================================================================
