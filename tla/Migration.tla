------------------------------ MODULE Migration ------------------------------
(***************************************************************************)
(* syn2mas: the import of users, sessions and tokens from Synapse into an  *)
(* empty MAS database.  A run takes an advisory lock on its main           *)
(* connection, renames the tables out of the sight of servers and drops    *)
(* their constraints, copies row by row through several writer             *)
(* transactions, and in a last transaction puts constraints and names      *)
(* back.  Runs fail or are killed at any point, and are started again.     *)
(***************************************************************************)
EXTENDS Naturals, FiniteSets, Sequences, SequencesExt

CONSTANTS
    Runs,          \* invocations of `syn2mas migrate`
    Connections,   \* the writer connections of a run (NUM_WRITER_CONNECTIONS)
    BatchSize,     \* WRITE_BUFFER_BATCH_SIZE
    Databases,     \* contents of Synapse's tables: sets of records
                   \* [table, id, user, device, kind], where device stands for a user's device
    Passwords,     \* the users with a password
    Tables,        \* MAS_TABLES_AFFECTED_BY_MIGRATION, a sequence
    Constraints,   \* of the MAS schema: [name, on, kind, to]; kind "p" is the key of the
                   \* table `on`, "f" a foreign key to the table `to`
    MaxFaults, MaxStray   \* bounds on the faults and on the runs that lose the lock

VARIABLES
    synapse,       \* what is in Synapse's database
    names,         \* "own", or "syn2mas" with the prefix syn2mas__
    constraints,   \* those in force
    restore,       \* the restore tables: no element if they are not there, or their contents
    rows,          \* committed rows of the tables: [table, key, refs, by]
    lock,          \* SYN2MAS_ADVISORY_LOCK: the run whose main connection has it, or "free"
    run,           \* of each run [stage, dry, left, cut, buffer, order, broken]
    conn,          \* of each writer connection [state, batch, rows]
    success,       \* runs, not dry, whose last transaction has committed
    faults, hit,   \* how many faults there were, and the runs they hit
    stray          \* runs that lost the lock and went on

database == <<names, constraints, restore, rows>>
history == <<success, faults, hit, stray>>
vars == <<synapse, database, lock, run, conn, history>>

ASSUME MigrationAssumption ==
    /\ BatchSize \in Nat \ {0} /\ MaxFaults \in Nat /\ MaxStray \in Nat
    /\ "free" \notin Runs
    /\ IsFiniteSet(Constraints)

\* Names of users are unique and so are a user's devices; no device has the name of a token.
ASSUME DatabasesAssumption ==
    \A D \in Databases : \A x, y \in D :
        /\ x.table = "users" => x.kind \in {"plain", "deactivated", "guest", "appservice", "invalid"}
        /\ x.table = "users" /\ y.table = "users" /\ x.id = y.id => x = y
        /\ x.table = "external_ids" => x.kind \in {"mapped", "ignored", "unmapped"}
        /\ x.table = "devices" => x.device # "none"
        /\ x.table = "devices" /\ y.table = "devices" /\ x.device = y.device => x = y
        /\ x.table = "devices" /\ y.table = "access_tokens" => x.device # y.id

\* Links and tokens are unique.  Hidden devices only store keys: they have no tokens, unless
\* of guests and others whose tokens are not copied.
ASSUME TokensAssumption ==
    \A D \in Databases : \A x, y \in D :
        /\ x.table = "external_ids" /\ y.table = "external_ids" /\ x.id = y.id => x = y
        /\ {x.table, y.table} \subseteq {"access_tokens", "refresh_tokens"} /\ x.id = y.id => x = y
        /\ /\ x.table = "devices" /\ y.table \in {"access_tokens", "refresh_tokens"}
           /\ x.user = y.user /\ x.device = y.device
           /\ \E u \in D : u.table = "users" /\ u.id = x.user /\ u.kind = "plain"
           => x.kind = "shown"

-----------------------------------------------------------------------------
(* Synapse's side.                                                         *)

\* The tables in the order in which migrate reads them.
After == [users |-> "threepids", threepids |-> "external_ids",
          external_ids |-> "access_tokens", access_tokens |-> "refresh_tokens",
          refresh_tokens |-> "devices", devices |-> "committing"]

Copying == DOMAIN After

Live == {"locked", "checked", "reading", "committing", "restoring", "unlocking"} \cup Copying

HasDevice(r) ==
    \E d \in synapse : d.table = "devices" /\ d.user = r.user /\ d.device = r.device

\* The queries of SynapseReader: no hidden devices, no puppeting tokens, no token pairs
\* that were replaced, and no tokens of a device that is not there.
Wanted(r) ==
    /\ r.table = "devices" => r.kind = "shown"
    /\ r.table = "access_tokens" => r.kind = "plain" /\ (r.device = "none" \/ HasDevice(r))
    /\ r.table = "refresh_tokens" => r.kind = "current" /\ HasDevice(r)

Read(t) == {r \in synapse : r.table = t /\ Wanted(r)}

\* The kind of a user that migrate_users has put into MigrationState::users.
KindOf(u) == {r.kind : r \in {x \in synapse : x.table = "users" /\ x.id = u /\ x.kind # "invalid"}}

Known(u) == KindOf(u) # {}

\* mas_user_id is set.
HasAccount(u) == KindOf(u) \subseteq {"plain", "deactivated", "guest"}

\* Neither deactivated, nor a guest, nor of an application service.
IsActive(u) == KindOf(u) \subseteq {"plain"}

-----------------------------------------------------------------------------
(* The schema.                                                             *)

TablePos(t) == {k \in 1 .. Len(Tables) : Tables[k] = t}

\* pause_indices goes through the tables and drops the foreign keys to a table first and
\* then its own constraints, in the order in which they are found.
DropTurns(c) == {2 * k - 1 : k \in TablePos(c.to)} \cup {2 * k : k \in TablePos(c.on)}

Affected == {c \in Constraints : DropTurns(c) # {}}

DropTurn(c) == CHOOSE n \in DropTurns(c) : \A m \in DropTurns(c) : n <= m

DropOrders ==
    {s \in SetToSeqs(Affected) : \A m, n \in 1 .. Len(s) : m < n => DropTurn(s[m]) <= DropTurn(s[n])}

NeedsKey(c, p) == c.kind = "f" /\ p.kind = "p" /\ p.on = c.to

\* A key refers to no table; a foreign key has a key that it needs.
ASSUME SchemaAssumption ==
    \A c \in Constraints : /\ c.kind = "p" => TablePos(c.to) = {}
                           /\ c.kind = "f" => \E p \in Constraints : NeedsKey(c, p)

\* PostgreSQL drops a key only when no foreign key needs it ...
Droppable(s) ==
    \A c \in constraints : \A n \in 1 .. Len(s) :
        NeedsKey(c, s[n]) => \E m \in 1 .. n - 1 : s[m] = c

\* ... and adds a foreign key only when there is a key. restore_indices goes backwards.
Restorable(s) ==
    \A n \in 1 .. Len(s) : s[n].kind = "f" =>
        \E p \in constraints \cup {s[m] : m \in n + 1 .. Len(s)} : NeedsKey(s[n], p)

\* The names of users and the texts of tokens and links are unique, and each row
\* finds the rows that it refers to, which have the ids that its own run gave them.
UniqueTables == {"users", "upstream_oauth_links", "compat_access_tokens", "compat_refresh_tokens"}

Valid(R) ==
    /\ \A x, y \in R : x.table \in UniqueTables /\ x.table = y.table /\ x.key = y.key => x = y
    /\ \A x \in R : \A f \in x.refs : \E y \in R : y.by = x.by /\ <<y.table, y.key>> = f

-----------------------------------------------------------------------------
(* A run.                                                                  *)

Closed == [state |-> "closed", batch |-> {}, rows |-> {}]

Idle == [stage |-> "idle", dry |-> "no", left |-> {}, cut |-> "no",
         buffer |-> {}, order |-> <<>>, broken |-> "no"]

\* The process ends: open transactions are rolled back and the lock is free.
End(i, how) ==
    /\ run' = [run EXCEPT ![i] = [Idle EXCEPT !.stage = how]]
    /\ conn' = [conn EXCEPT ![i] = [c \in Connections |-> Closed]]
    /\ lock' = IF lock = i THEN "free" ELSE lock

\* LockedMasDatabase::try_new
Begin(i) ==
    /\ run[i].stage = "idle"
    /\ \/ /\ lock = "free" /\ lock' = i
          /\ \E d \in {"yes", "no"} :
                run' = [run EXCEPT ![i].stage = "locked", ![i].dry = d]
          /\ UNCHANGED conn
       \/ lock # "free" /\ End(i, "refused")
    /\ UNCHANGED <<synapse, database, history>>

InProgress == restore # {}

\* synapse_database_check finds no identity provider that the configuration does not
\* map and the operator did not want to ignore.
SynapseReady == \A r \in synapse : r.table = "external_ids" => r.kind # "unmapped"

\* Mutant of Check: the tables are not looked at.
Check_Unread(i) ==
    /\ run[i].stage = "locked" /\ lock = i
    /\ \/ /\ SynapseReady /\ run' = [run EXCEPT ![i].stage = "checked"]
          /\ UNCHANGED <<lock, conn>>
       \/ ~SynapseReady /\ End(i, "refused")
    /\ UNCHANGED <<synapse, database, history>>

\* mas_pre_migration_checks, and then synapse_database_check
Check(i) ==
    /\ run[i].stage = "locked" /\ lock = i
    /\ \/ /\ (InProgress \/ rows = {}) /\ SynapseReady
          /\ run' = [run EXCEPT ![i].stage = "checked"]
          /\ UNCHANGED <<lock, conn>>
       \/ (InProgress \/ rows = {}) /\ ~SynapseReady /\ End(i, "refused")
       \/ ~InProgress /\ rows # {} /\ End(i, "not_empty")
    /\ UNCHANGED <<synapse, database, history>>

\* SynapseReader::new: LOCK TABLE ... NOWAIT, of which only EXCLUSIVE excludes another.
LockSynapse(i) ==
    LET held == {j \in Runs \ {i} : run[j].stage \in {"reading"} \cup Copying /\ run[j].dry = "no"}
    IN
    /\ run[i].stage = "checked"
    /\ \/ /\ run[i].dry = "yes" \/ held = {}
          /\ run' = [run EXCEPT ![i].stage = "reading"]
          /\ UNCHANGED <<lock, conn>>
       \/ run[i].dry = "no" /\ held # {} /\ End(i, "refused")
    /\ UNCHANGED <<synapse, database, history>>

\* TRUNCATE and ALTER TABLE wait for the transactions that wrote to a table.
NobodyElseWrites(i) == \A j \in Runs \ {i} : \A c \in Connections : conn[j][c].rows = {}

StartWriting(i, s) ==
    /\ run' = [run EXCEPT ![i].stage = "users", ![i].left = Read("users"), ![i].order = s]
    /\ conn' = [conn EXCEPT ![i] = [c \in Connections |-> [Closed EXCEPT !.state = "ready"]]]
    /\ UNCHANGED lock

\* MasWriter::new, the database as a server knows it
StartNew(i) ==
    /\ run[i].stage = "reading" /\ lock = i /\ ~InProgress /\ NobodyElseWrites(i)
    /\ \E s \in DropOrders :
          \/ /\ Droppable(s)
             /\ names' = "syn2mas" /\ constraints' = constraints \ Affected /\ restore' = {s}
             /\ StartWriting(i, s)
          \/ ~Droppable(s) /\ End(i, "failed") /\ UNCHANGED <<names, constraints, restore>>
    /\ UNCHANGED <<synapse, rows, history>>

\* Mutant of Resume: the rows of the run before are kept.
Resume_Kept(i) ==
    /\ run[i].stage = "reading" /\ lock = i /\ InProgress /\ NobodyElseWrites(i)
    /\ \E s \in restore : StartWriting(i, s)
    /\ UNCHANGED <<synapse, database, history>>

\* MasWriter::new, after a run that did not get to its end
Resume(i) ==
    /\ run[i].stage = "reading" /\ lock = i /\ InProgress /\ NobodyElseWrites(i)
    /\ rows' = {}
    /\ \E s \in restore : StartWriting(i, s)
    /\ UNCHANGED <<synapse, names, constraints, restore, history>>

-----------------------------------------------------------------------------
(* Copying.                                                                *)

Buffered(i, t) == {b \in run[i].buffer : b.table = t}

Full(i, t) == Cardinality(Buffered(i, t)) >= BatchSize

MasTables == {Tables[k] : k \in 1 .. Len(Tables)}

\* A row that the ingest task takes from the channel, in any order; MasWriteBuffer::write
\* waits when it has to flush.
Take(i, r) ==
    /\ run[i].stage = r.table /\ r \in run[i].left
    /\ \A t \in MasTables : ~Full(i, t)

Ingest(i, r, new) ==
    /\ Take(i, r)
    /\ run' = [run EXCEPT ![i].left = @ \ {r}, ![i].buffer = @ \cup new]
    /\ UNCHANGED <<synapse, database, lock, conn, history>>

New(i, t, k, refs) == [table |-> t, key |-> k, refs |-> refs, by |-> i]

OfUser(i, t, r) == New(i, t, r.id, {<<"users", r.user>>})

\* Each device has one session; a token without one has a session of its own.
SessionKey(r) == IF r.device = "none" THEN r.id ELSE r.device

MigrateUser(i, r) ==
    /\ r.table = "users"
    /\ Ingest(i, r,
          IF r.kind \in {"invalid", "appservice"} THEN {}
          ELSE {New(i, "users", r.id, {})}
               \cup {New(i, "user_passwords", u, {<<"users", u>>}) : u \in Passwords \cap {r.id}})

MigrateThreepid(i, r) ==
    /\ r.table = "threepids" /\ Known(r.user)
    /\ Ingest(i, r,
          IF ~HasAccount(r.user) THEN {}
          ELSE {OfUser(i, IF r.kind = "email" THEN "user_emails" ELSE "user_unsupported_third_party_ids", r)})

MigrateExternalId(i, r) ==
    /\ r.table = "external_ids" /\ Known(r.user)
    /\ Ingest(i, r,
          IF ~HasAccount(r.user) \/ r.kind = "ignored" THEN {} ELSE {OfUser(i, "upstream_oauth_links", r)})

MigrateAccessToken(i, r) ==
    /\ r.table = "access_tokens" /\ Known(r.user)
    /\ Ingest(i, r,
          IF ~IsActive(r.user) THEN {}
          ELSE {New(i, "compat_access_tokens", r.id, {<<"compat_sessions", SessionKey(r)>>})}
               \cup {OfUser(i, "compat_sessions", x) : x \in {y \in {r} : y.device = "none"}})

MigrateTokenPair(i, r) ==
    /\ r.table = "refresh_tokens" /\ Known(r.user)
    /\ Ingest(i, r,
          IF ~IsActive(r.user) THEN {}
          ELSE LET session == <<"compat_sessions", SessionKey(r)>> IN
               {New(i, "compat_access_tokens", r.id, {session}),
                New(i, "compat_refresh_tokens", r.id, {session, <<"compat_access_tokens", r.id>>})})

MigrateDevice(i, r) ==
    /\ r.table = "devices" /\ Known(r.user)
    /\ Ingest(i, r,
          IF ~IsActive(r.user) THEN {}
          ELSE {New(i, "compat_sessions", SessionKey(r), {<<"users", r.user>>})})

\* MissingUserFromDependentTable
NobodysRow(r) == r.table # "users" /\ ~Known(r.user)

MigrateFails(i, r) ==
    /\ Take(i, r) /\ NobodysRow(r)
    /\ End(i, "failed")
    /\ UNCHANGED <<synapse, database, history>>

Migrate(i) ==
    \E r \in run[i].left :
        \/ MigrateUser(i, r) \/ MigrateThreepid(i, r) \/ MigrateExternalId(i, r)
        \/ MigrateAccessToken(i, r) \/ MigrateTokenPair(i, r) \/ MigrateDevice(i, r)
        \/ MigrateFails(i, r)

NoMoreRows(i) == run[i].stage \in Copying /\ (run[i].left = {} \/ run[i].cut = "yes")

\* MasWriteBuffer::flush and finish, with spawn_with_connection: the next connection in the
\* channel takes the batch, unless an error came back in its place.
Flush(i, t) ==
    /\ Buffered(i, t) # {} /\ (Full(i, t) \/ NoMoreRows(i))
    /\ \E c \in Connections :
          \/ /\ conn[i][c].state = "ready"
             /\ conn' = [conn EXCEPT ![i][c].state = "writing", ![i][c].batch = Buffered(i, t)]
             /\ run' = [run EXCEPT ![i].buffer = @ \ Buffered(i, t)]
             /\ UNCHANGED lock
          \/ conn[i][c].state = "error" /\ End(i, "failed")
    /\ UNCHANGED <<synapse, database, history>>

\* write_batch, in the task that was spawned: the tables may have got their names back.
WriteBatch(i, c) ==
    /\ conn[i][c].state = "writing"
    /\ \/ /\ names = "syn2mas"
          /\ conn' = [conn EXCEPT ![i][c] =
                [state |-> "ready", batch |-> {}, rows |-> @.rows \cup @.batch]]
       \/ names = "own" /\ conn' = [conn EXCEPT ![i][c] = [Closed EXCEPT !.state = "error"]]
    /\ UNCHANGED <<synapse, database, lock, run, history>>

\* The end of one of the functions migrate_*: the ingest task is joined, and only then the
\* error of the reader is looked at.
EndStage(i) ==
    /\ NoMoreRows(i) /\ run[i].buffer = {}
    /\ \/ /\ run[i].cut = "no"
          /\ run' = [run EXCEPT ![i].stage = After[@],
                ![i].left = IF After[run[i].stage] \in Copying THEN Read(After[run[i].stage]) ELSE {}]
          /\ UNCHANGED <<lock, conn>>
       \/ run[i].cut = "yes" /\ End(i, "failed")
    /\ UNCHANGED <<synapse, database, history>>

-----------------------------------------------------------------------------
(* The end of a run.                                                       *)

\* WriterConnectionPool::finish takes what comes back and commits it.
CommitWriter(i, c) ==
    /\ run[i].stage = "committing" /\ conn[i][c].state \in {"ready", "error"}
    /\ rows' = rows \cup conn[i][c].rows
    /\ conn' = [conn EXCEPT ![i][c] = Closed]
    /\ run' = [run EXCEPT ![i].broken = IF conn[i][c].state = "error" THEN "yes" ELSE @]
    /\ UNCHANGED <<synapse, names, constraints, restore, lock, history>>

CommitFails(i, c) ==
    /\ run[i].stage = "committing" /\ conn[i][c].state = "ready" /\ faults < MaxFaults
    /\ conn' = [conn EXCEPT ![i][c] = Closed]
    /\ run' = [run EXCEPT ![i].broken = "yes"]
    /\ faults' = faults + 1 /\ hit' = hit \cup {i}
    /\ UNCHANGED <<synapse, database, success, lock, stray>>

\* Mutant of AllCommitted: the errors that came back are not looked at.
AllCommitted_Lenient(i) ==
    /\ run[i].stage = "committing" /\ \A c \in Connections : conn[i][c].state = "closed"
    /\ run' = [run EXCEPT ![i].stage = "restoring"]
    /\ UNCHANGED <<synapse, database, lock, conn, history>>

AllCommitted(i) ==
    /\ run[i].stage = "committing" /\ \A c \in Connections : conn[i][c].state = "closed"
    /\ \/ /\ run[i].broken = "no" /\ run' = [run EXCEPT ![i].stage = "restoring"]
          /\ UNCHANGED <<lock, conn>>
       \/ run[i].broken = "yes" /\ End(i, "failed")
    /\ UNCHANGED <<synapse, database, history>>

\* MasWriter::finish: one transaction, which the constraints may refuse ...
Finish(i) ==
    /\ run[i].stage = "restoring" /\ lock = i /\ NobodyElseWrites(i)
    /\ \/ /\ Restorable(run[i].order) /\ Valid(rows)
          /\ names' = "own" /\ restore' = {}
          /\ constraints' = constraints \cup {run[i].order[n] : n \in 1 .. Len(run[i].order)}
          /\ rows' = IF run[i].dry = "yes" THEN {} ELSE rows
          /\ success' = success \cup {j \in {i} : run[j].dry = "no"}
          /\ run' = [run EXCEPT ![i] = [Idle EXCEPT !.stage = "unlocking"]]
          /\ UNCHANGED <<lock, conn>>
       \/ /\ ~(Restorable(run[i].order) /\ Valid(rows))
          /\ End(i, "failed") /\ UNCHANGED <<database, success>>
    /\ UNCHANGED <<synapse, faults, hit, stray>>

\* ... and unlock
Unlock(i) ==
    /\ run[i].stage = "unlocking" /\ lock = i
    /\ End(i, "done")
    /\ UNCHANGED <<synapse, database, history>>

-----------------------------------------------------------------------------
(* Faults.                                                                 *)

Fault(i) ==
    /\ faults < MaxFaults /\ faults' = faults + 1
    /\ hit' = hit \cup {i}
    /\ UNCHANGED <<synapse, database, success>>

\* Reading from Synapse fails; what was read before is still written.
ReaderFails(i) ==
    /\ run[i].stage \in Copying /\ run[i].cut = "no"
    /\ run' = [run EXCEPT ![i].cut = "yes"]
    /\ Fault(i) /\ UNCHANGED <<lock, conn, stray>>

\* A batch is refused: the connection with all it wrote is dropped.
WriteFails(i, c) ==
    /\ conn[i][c].state = "writing"
    /\ conn' = [conn EXCEPT ![i][c] = [Closed EXCEPT !.state = "error"]]
    /\ Fault(i) /\ UNCHANGED <<lock, run, stray>>

\* The main connection, idle while rows are copied, goes away and the lock with it.
LoseLock(i) ==
    /\ run[i].stage \in Live /\ lock = i
    /\ Cardinality(stray) < MaxStray
    /\ lock' = "free" /\ stray' = stray \cup {i}
    /\ UNCHANGED <<synapse, database, run, conn, success, faults, hit>>

\* The next query on the main connection fails.
LockGone(i) ==
    /\ run[i].stage \in {"locked", "reading", "restoring", "unlocking"} /\ lock # i
    /\ End(i, "failed")
    /\ UNCHANGED <<synapse, database, history>>

\* The process is killed.
Crash(i) ==
    /\ run[i].stage \in Live
    /\ End(i, "failed")
    /\ Fault(i) /\ UNCHANGED stray

Finished == (\A i \in Runs : run[i].stage \notin Live \cup {"idle"}) /\ UNCHANGED vars

-----------------------------------------------------------------------------

Init ==
    /\ synapse \in Databases
    /\ names = "own" /\ constraints = Constraints /\ restore = {} /\ rows = {}
    /\ lock = "free"
    /\ run = [i \in Runs |-> Idle]
    /\ conn = [i \in Runs |-> [c \in Connections |-> Closed]]
    /\ success = {} /\ faults = 0 /\ hit = {} /\ stray = {}

Next ==
    \/ \E i \in Runs :
          \/ Begin(i) \/ Check(i) \/ LockSynapse(i) \/ StartNew(i) \/ Resume(i)
          \/ Migrate(i) \/ EndStage(i) \/ AllCommitted(i) \/ Finish(i) \/ Unlock(i)
          \/ ReaderFails(i) \/ LoseLock(i) \/ LockGone(i) \/ Crash(i)
          \/ \E t \in MasTables : Flush(i, t)
          \/ \E c \in Connections :
                WriteBatch(i, c) \/ CommitWriter(i, c) \/ CommitFails(i, c) \/ WriteFails(i, c)
    \/ Finished

Spec == Init /\ [][Next]_vars

-----------------------------------------------------------------------------
(* Properties.                                                             *)

\* The rows that runs make.
Made ==
    {x \in rows \cup UNION {run[i].buffer : i \in Runs}
        \cup UNION {conn[i][c].batch \cup conn[i][c].rows : i \in Runs, c \in Connections} :
        x.table \in MasTables /\ x.by \in Runs}

TypeOK ==
    /\ rows \subseteq Made
    /\ names \in {"own", "syn2mas"} /\ constraints \subseteq Constraints
    /\ restore \subseteq DropOrders
    /\ lock \in Runs \cup {"free"}
    /\ run \in [Runs -> [stage : Live \cup {"idle", "refused", "not_empty", "failed", "done"},
                         dry : {"yes", "no"}, left : SUBSET synapse, cut : {"yes", "no"},
                         buffer : SUBSET Made, order : DropOrders \cup {<<>>},
                         broken : {"yes", "no"}]]
    /\ conn \in [Runs -> [Connections -> [state : {"closed", "ready", "writing", "error"},
                                          batch : SUBSET Made, rows : SUBSET Made]]]
    /\ success \subseteq Runs /\ faults \in 0 .. MaxFaults /\ hit \subseteq Runs /\ stray \subseteq Runs

Of(t) == {r \in synapse : r.table = t}

\* What a whole migration consists of, said of Synapse's tables as such.
Complete ==
    LET accounts == {r \in Of("users") : r.kind \notin {"invalid", "appservice"}}
        active == {r.id : r \in {x \in accounts : x.kind = "plain"}}
        threepids == {r \in Of("threepids") : \E u \in accounts : u.id = r.user}
        links == {r \in Of("external_ids") : r.kind = "mapped" /\ \E u \in accounts : u.id = r.user}
        devices == {r \in Of("devices") : r.user \in active /\ r.kind = "shown"}
        tokens == {r \in Of("access_tokens") : r.user \in active /\ r.kind = "plain"}
        deviceless == {r \in tokens : r.device = "none"}
        bound == {r \in tokens : \E d \in devices : d.user = r.user /\ d.device = r.device}
        pairs == {r \in Of("refresh_tokens") : /\ r.user \in active /\ r.kind = "current"
                                                /\ \E d \in devices : d.user = r.user /\ d.device = r.device}
    IN  {<<"users", r.id>> : r \in accounts}
        \cup {<<"user_passwords", r.id>> : r \in {x \in accounts : x.id \in Passwords}}
        \cup {<<"user_emails", r.id>> : r \in {x \in threepids : x.kind = "email"}}
        \cup {<<"user_unsupported_third_party_ids", r.id>> : r \in {x \in threepids : x.kind # "email"}}
        \cup {<<"upstream_oauth_links", r.id>> : r \in links}
        \cup {<<"compat_sessions", r.device>> : r \in devices}
        \cup {<<"compat_sessions", r.id>> : r \in deviceless}
        \cup {<<"compat_access_tokens", r.id>> : r \in deviceless \cup bound \cup pairs}
        \cup {<<"compat_refresh_tokens", r.id>> : r \in pairs}

\* "Renames important tables ... to prevent running MAS instances from having any opportunity
\* to see or modify the partial data in the database, especially whilst it is not protected by
\* constraints": where tables have their own names, all constraints are in force and
\* the tables are empty or hold everything, from one single run.
AllOrNothing ==
    names = "own" =>
        /\ constraints = Constraints /\ ~InProgress
        /\ \/ rows = {}
           \/ \E i \in success : /\ {<<r.table, r.key>> : r \in rows} = Complete
                                 /\ \A r \in rows : r.by = i

\* "You can try to fix the error and make another attempt by re-running the command", and a dry
\* run "is safe to run multiple times": what a run leaves behind, whatever point it
\* reached, is never the reason why a later one fails.
FailsForACause ==
    \A i \in Runs :
        /\ run[i].stage = "failed" =>
              i \in hit \/ stray # {} \/ \E r \in synapse : Wanted(r) /\ NobodysRow(r)
        /\ run[i].stage = "not_empty" => success # {}

\* A migration that has succeeded is never undone by running the command again.
SuccessStays == [][success # {} => UNCHANGED database]_vars
=============================================================================
