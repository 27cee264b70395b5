--------------------------- MODULE MigrationProofs ---------------------------
(***************************************************************************)
(* What syn2mas leaves in the database, for any content of Synapse's       *)
(* tables, any number of runs, of connections and of faults, and of runs   *)
(* that have lost the lock.                                                *)
(***************************************************************************)
EXTENDS Migration, FiniteSetTheorems, WellFoundedInduction, TLAPS

\* The stages in which a run has writer connections.
Writing == Copying \cup {"committing", "restoring"}

Ends == {"idle", "refused", "not_empty", "failed", "done"}

-----------------------------------------------------------------------------
(* The rows that a run makes of a row of Synapse.                          *)

RowsOfUser(i, r) ==
    IF r.kind \in {"invalid", "appservice"} THEN {}
    ELSE {New(i, "users", r.id, {})}
         \cup {New(i, "user_passwords", u, {<<"users", u>>}) : u \in Passwords \cap {r.id}}

RowsOfThreepid(i, r) ==
    IF ~HasAccount(r.user) THEN {}
    ELSE {OfUser(i, IF r.kind = "email" THEN "user_emails" ELSE "user_unsupported_third_party_ids", r)}

RowsOfExternalId(i, r) ==
    IF ~HasAccount(r.user) \/ r.kind = "ignored" THEN {} ELSE {OfUser(i, "upstream_oauth_links", r)}

RowsOfAccessToken(i, r) ==
    IF ~IsActive(r.user) THEN {}
    ELSE {New(i, "compat_access_tokens", r.id, {<<"compat_sessions", SessionKey(r)>>})}
         \cup {OfUser(i, "compat_sessions", x) : x \in {y \in {r} : y.device = "none"}}

RowsOfTokenPair(i, r) ==
    IF ~IsActive(r.user) THEN {}
    ELSE LET session == <<"compat_sessions", SessionKey(r)>> IN
         {New(i, "compat_access_tokens", r.id, {session}),
          New(i, "compat_refresh_tokens", r.id, {session, <<"compat_access_tokens", r.id>>})}

RowsOfDevice(i, r) ==
    IF ~IsActive(r.user) THEN {}
    ELSE {New(i, "compat_sessions", SessionKey(r), {<<"users", r.user>>})}

NewRows(i, r) ==
    CASE r.table = "users" -> RowsOfUser(i, r)
      [] r.table = "threepids" -> RowsOfThreepid(i, r)
      [] r.table = "external_ids" -> RowsOfExternalId(i, r)
      [] r.table = "access_tokens" -> RowsOfAccessToken(i, r)
      [] r.table = "refresh_tokens" -> RowsOfTokenPair(i, r)
      [] r.table = "devices" -> RowsOfDevice(i, r)
      [] OTHER -> {}

\* The rows of Synapse that a run can copy.
Sound == {r \in synapse : Wanted(r) /\ ~NobodysRow(r)}

AllMade == UNION {NewRows(i, r) : i \in Runs, r \in Sound}

-----------------------------------------------------------------------------
(* The inductive invariant.                                                *)

RunRow ==
    [stage : Live \cup Ends, dry : {"yes", "no"}, left : SUBSET synapse, cut : {"yes", "no"},
     buffer : SUBSET AllMade, order : DropOrders \cup {<<>>}, broken : {"yes", "no"}]

ConnRow ==
    [state : {"closed", "ready", "writing", "error"}, batch : SUBSET AllMade, rows : SUBSET AllMade]

MigrationTypes ==
    /\ synapse \in Databases
    /\ names \in {"own", "syn2mas"} /\ rows \subseteq AllMade
    /\ lock \in Runs \cup {"free"}
    /\ run \in [Runs -> RunRow]
    /\ conn \in [Runs -> [Connections -> ConnRow]]
    /\ success \subseteq Runs /\ hit \subseteq Runs /\ stray \subseteq Runs

\* A row that the run i has and has not committed.
InHand(i, x) ==
    x \in run[i].buffer \/ \E c \in Connections : x \in conn[i][c].batch \/ x \in conn[i][c].rows

\* What is in a connection, and where a run has nothing in hand.
HandSound(i) ==
    /\ \A x : InHand(i, x) => x.by = i
    /\ run[i].stage \notin Copying => run[i].buffer = {} /\ run[i].left = {}
    /\ \A c \in Connections :
          /\ conn[i][c].state # "writing" => conn[i][c].batch = {}
          /\ conn[i][c].state \in {"closed", "error"} => conn[i][c].rows = {}
          /\ run[i].stage \notin Copying \cup {"committing"} => conn[i][c].state = "closed"
    /\ run[i].stage \in Copying => \A r \in run[i].left : r.table = run[i].stage /\ Wanted(r)
    /\ run[i].stage = "restoring" => run[i].broken = "no"

\* The schema is whole, or it is the one that the restore tables are about.
SchemaInv ==
    /\ names = "own" => /\ constraints = Constraints /\ restore = {}
                        /\ \A i \in Runs, c \in Connections : conn[i][c].rows = {}
    /\ names = "syn2mas" => \E s \in DropOrders : restore = {s} /\ constraints = Constraints \ Affected

\* What the run that has the lock has found out still holds.
LockSound(i) ==
    lock = i =>
        /\ run[i].stage \in Live
        /\ run[i].stage \in {"checked", "reading"} => SynapseReady /\ (InProgress \/ rows = {})
        /\ run[i].stage \in Writing => SynapseReady /\ restore = {run[i].order}

\* A connection of the run was lost with what it had written.
Broken(i) == run[i].broken = "yes" \/ \E c \in Connections : conn[i][c].state = "error"

Before ==
    [users |-> {}, threepids |-> {"users"}, external_ids |-> {"users", "threepids"},
     access_tokens |-> {"users", "threepids", "external_ids"},
     refresh_tokens |-> {"users", "threepids", "external_ids", "access_tokens"},
     devices |-> {"users", "threepids", "external_ids", "access_tokens", "refresh_tokens"},
     committing |-> Copying, restoring |-> Copying]

\* The run i has read the row r.
Seen(i, r) ==
    /\ r \in synapse /\ Wanted(r) /\ r.table \in Copying
    /\ r.table \in Before[run[i].stage] \/ (r.table = run[i].stage /\ r \notin run[i].left)

\* The run that has the lock has lost nothing of what it has read.
NothingLost(i) ==
    lock = i /\ run[i].stage \in Writing =>
        \A r : Seen(i, r) =>
            /\ ~NobodysRow(r)
            /\ Broken(i) \/ \A x \in NewRows(i, r) : x \in rows \/ InHand(i, x)

\* What servers see is nothing, or the whole of one run.
Whole ==
    names = "own" =>
        \/ rows = {}
        \/ \E i \in success : /\ {<<r.table, r.key>> : r \in rows} = Complete
                              /\ \A r \in rows : r.by = i

MigrationInv ==
    /\ MigrationTypes /\ SchemaInv /\ Whole
    /\ \A i \in Runs : HandSound(i) /\ LockSound(i) /\ NothingLost(i)

\* Somebody is there to be migrated.
Somebody ==
    \A D \in Databases : \E r \in D : r.table = "users" /\ r.kind \notin {"invalid", "appservice"}

\* After a success, the run that has the lock will do no more than to let go of it.
SuccessInv ==
    success # {} => /\ names = "own" /\ rows # {}
                    /\ \A i \in Runs : lock = i => run[i].stage \in {"locked", "unlocking"}

\* What a run can fail for.
Cause(i) == i \in hit \/ stray # {} \/ \E r \in synapse : Wanted(r) /\ NobodysRow(r)

\* As long as no run has lost the lock, runs follow one another, each with rows of its own.
CauseOf(i) ==
    /\ Broken(i) \/ run[i].cut = "yes" => i \in hit \/ stray # {}
    /\ stray = {} /\ run[i].stage \in Live => lock = i
    /\ stray = {} /\ run[i].stage \in Writing => \A x \in rows : x.by = i
    /\ run[i].stage = "failed" => Cause(i)
    /\ run[i].stage = "not_empty" => success # {}

CauseInv == \A i \in Runs : CauseOf(i)

-----------------------------------------------------------------------------
(* The schema.                                                             *)

\* A set of natural numbers has a least element.
LEMMA LeastNatural ==
    ASSUME NEW S, S \subseteq Nat, S # {}
    PROVE  \E n \in S : \A m \in S : n <= m
<1>1. PICK n \in S : \A m \in S : ~(<<m, n>> \in OpToRel(<, Nat))
  BY NatLessThanWellFounded, WFMin
<1>2. ASSUME NEW m \in S PROVE n <= m
  <2>1. m \in Nat /\ n \in Nat
    OBVIOUS
  <2>2. ~(m < n)
    BY <1>1, <2>1 DEF OpToRel
  <2> QED
    BY <2>1, <2>2
<1> QED
  BY <1>2

\* A sequence of the restore tables holds the affected constraints.
LEMMA OrdersAffected ==
    ASSUME NEW s \in DropOrders
    PROVE  /\ \A n \in 1 .. Len(s) : s[n] \in Affected
           /\ \A c \in Affected : \E n \in 1 .. Len(s) : s[n] = c
           /\ {s[n] : n \in 1 .. Len(s)} = Affected
           /\ Len(s) \in Nat
<1> DEFINE N == Cardinality(Affected)
<1>1. IsFiniteSet(Affected)
  BY MigrationAssumption, FS_Subset DEF MigrationAssumption, Affected
<1>2. N \in Nat
  BY <1>1, FS_CardinalityType
<1> HIDE DEF N
<1>3. s \in [1 .. N -> Affected] /\ \A m, n \in 1 .. N : m # n => s[m] # s[n]
  BY DEF DropOrders, SetToSeqs, N
<1>4. Len(s) = N
  BY <1>2, <1>3
<1>5. s \in Injection(1 .. N, Affected)
  BY <1>3 DEF Injection, IsInjective
<1>6. IsFiniteSet(1 .. N) /\ Cardinality(1 .. N) = N
  BY <1>2, FS_Interval
<1>7. s \in Surjection(1 .. N, Affected)
  BY <1>1, <1>5, <1>6, FS_Injection DEF N
<1> QED
  BY <1>2, <1>3, <1>4, <1>7 DEF Surjection

\* The turn at which an affected constraint is dropped is its first.
LEMMA FirstTurn ==
    ASSUME NEW c, DropTurns(c) # {}
    PROVE  DropTurn(c) \in DropTurns(c) /\ \A m \in DropTurns(c) : DropTurn(c) <= m
<1>1. DropTurns(c) \subseteq Nat
  BY DEF DropTurns, TablePos
<1>2. \E n \in DropTurns(c) : \A m \in DropTurns(c) : n <= m
  BY <1>1, LeastNatural
<1> QED
  BY <1>2 DEF DropTurn

\* A foreign key is dropped before the key it needs.
LEMMA ForeignKeysFirst ==
    ASSUME NEW s \in DropOrders, NEW c \in Constraints, NEW n \in 1 .. Len(s), NeedsKey(c, s[n])
    PROVE  \E m \in 1 .. n - 1 : s[m] = c
<1> DEFINE p == s[n]
<1>1. p \in Affected /\ p \in Constraints /\ Len(s) \in Nat
  BY OrdersAffected DEF Affected
<1>2. c.kind = "f" /\ p.kind = "p" /\ p.on = c.to /\ TablePos(p.to) = {}
  BY <1>1, SchemaAssumption DEF SchemaAssumption, NeedsKey
<1>3. DropTurns(p) # {}
  BY <1>1 DEF Affected
<1>4. PICK k \in TablePos(p.on) : DropTurn(p) = 2 * k
  BY <1>2, <1>3, FirstTurn DEF DropTurns
<1>5. 2 * k - 1 \in DropTurns(c) /\ k \in Nat
  BY <1>2, <1>4 DEF DropTurns, TablePos
<1>6. DropTurn(c) <= 2 * k - 1 /\ DropTurn(c) \in Nat
  <2>1. DropTurn(c) <= 2 * k - 1 /\ DropTurn(c) \in DropTurns(c)
    BY <1>5, FirstTurn
  <2>2. DropTurns(c) \subseteq Nat
    BY DEF DropTurns, TablePos
  <2> QED
    BY <2>1, <2>2
<1>7. c \in Affected
  BY <1>5 DEF Affected
<1>8. PICK m \in 1 .. Len(s) : s[m] = c
  BY <1>7, OrdersAffected
<1>9. m # n
  BY <1>2, <1>8
<1>10. ~(n < m)
  <2>1. ASSUME n < m PROVE DropTurn(s[n]) <= DropTurn(s[m])
    BY <2>1 DEF DropOrders
  <2> QED
    BY <1>4, <1>5, <1>6, <1>8, <2>1
<1> QED
  BY <1>1, <1>8, <1>9, <1>10

\* pause_indices never asks for a key to be dropped that is needed ...
LEMMA SchemaDroppable ==
    ASSUME NEW s \in DropOrders, constraints = Constraints
    PROVE  Droppable(s)
  BY ForeignKeysFirst DEF Droppable

\* ... and restore_indices, going backwards, finds the keys.
LEMMA SchemaRestorable ==
    ASSUME NEW s \in DropOrders, constraints = Constraints \ Affected
    PROVE  Restorable(s)
<1> SUFFICES ASSUME NEW n \in 1 .. Len(s), s[n].kind = "f"
             PROVE  \E p \in constraints \cup {s[m] : m \in n + 1 .. Len(s)} : NeedsKey(s[n], p)
  BY DEF Restorable
<1>1. s[n] \in Constraints /\ Len(s) \in Nat
  BY OrdersAffected DEF Affected
<1>2. PICK p \in Constraints : NeedsKey(s[n], p)
  BY <1>1, SchemaAssumption DEF SchemaAssumption
<1>3. CASE p \notin Affected
  BY <1>2, <1>3
<1>4. CASE p \in Affected
  <2>1. PICK k \in 1 .. Len(s) : s[k] = p
    BY <1>4, OrdersAffected
  <2>2. PICK m \in 1 .. k - 1 : s[m] = s[n]
    BY <1>1, <1>2, <2>1, ForeignKeysFirst
  <2>3. m = n
    <3>1. s \in SetToSeqs(Affected)
      BY DEF DropOrders
    <3>2. s \in [1 .. Cardinality(Affected) -> Affected]
          /\ \A i, j \in 1 .. Cardinality(Affected) : i # j => s[i] # s[j]
      BY <3>1 DEF SetToSeqs
    <3>3. Cardinality(Affected) \in Nat
      BY MigrationAssumption, FS_Subset, FS_CardinalityType DEF MigrationAssumption, Affected
    <3>4. Len(s) = Cardinality(Affected)
      BY <3>2, <3>3
    <3> QED
      BY <1>1, <2>1, <2>2, <3>2, <3>4
  <2> QED
    BY <1>1, <1>2, <2>1, <2>2, <2>3
<1> QED
  BY <1>3, <1>4

-----------------------------------------------------------------------------
(* Copying.                                                                *)

\* Each function migrate_* makes the rows of NewRows, or it fails.
LEMMA MigrateMakes ==
    ASSUME NEW i, Migrate(i)
    PROVE  \E r \in run[i].left : \/ ~NobodysRow(r) /\ Ingest(i, r, NewRows(i, r))
                                  \/ MigrateFails(i, r)
<1>1. PICK r \in run[i].left :
         \/ MigrateUser(i, r) \/ MigrateThreepid(i, r) \/ MigrateExternalId(i, r)
         \/ MigrateAccessToken(i, r) \/ MigrateTokenPair(i, r) \/ MigrateDevice(i, r)
         \/ MigrateFails(i, r)
  BY DEF Migrate
<1>2. CASE MigrateUser(i, r)
  BY <1>2 DEF MigrateUser, NewRows, RowsOfUser, NobodysRow
<1>3. CASE MigrateThreepid(i, r)
  BY <1>3 DEF MigrateThreepid, NewRows, RowsOfThreepid, NobodysRow
<1>4. CASE MigrateExternalId(i, r)
  BY <1>4 DEF MigrateExternalId, NewRows, RowsOfExternalId, NobodysRow
<1>5. CASE MigrateAccessToken(i, r)
  BY <1>5 DEF MigrateAccessToken, NewRows, RowsOfAccessToken, NobodysRow
<1>6. CASE MigrateTokenPair(i, r)
  BY <1>6 DEF MigrateTokenPair, NewRows, RowsOfTokenPair, NobodysRow
<1>7. CASE MigrateDevice(i, r)
  BY <1>7 DEF MigrateDevice, NewRows, RowsOfDevice, NobodysRow
<1> QED
  BY <1>1, <1>2, <1>3, <1>4, <1>5, <1>6, <1>7

\* The rows of a run bear its name.
LEMMA MadeByRun ==
    ASSUME NEW i, NEW r, NEW x \in NewRows(i, r)
    PROVE  x.by = i
<1>1. CASE r.table = "users"
  BY <1>1 DEF NewRows, RowsOfUser, New
<1>2. CASE r.table = "threepids"
  BY <1>2 DEF NewRows, RowsOfThreepid, New, OfUser
<1>3. CASE r.table = "external_ids"
  BY <1>3 DEF NewRows, RowsOfExternalId, New, OfUser
<1>4. CASE r.table = "access_tokens"
  BY <1>4 DEF NewRows, RowsOfAccessToken, New, OfUser
<1>5. CASE r.table = "refresh_tokens"
  BY <1>5 DEF NewRows, RowsOfTokenPair, New
<1>6. CASE r.table = "devices"
  BY <1>6 DEF NewRows, RowsOfDevice, New
<1> QED
  BY <1>1, <1>2, <1>3, <1>4, <1>5, <1>6 DEF NewRows

\* A row is made by its run, of a row that can be copied.
LEMMA MadeOf ==
    ASSUME NEW x \in AllMade
    PROVE  x.by \in Runs /\ \E r \in Sound : x \in NewRows(x.by, r)
<1>1. PICK i \in Runs, r \in Sound : x \in NewRows(i, r)
  BY DEF AllMade
<1>2. x.by = i
  BY <1>1, MadeByRun
<1> QED
  BY <1>1, <1>2

\* Nothing is written to Synapse's database.
SameSource ==
    /\ Sound' = Sound /\ AllMade' = AllMade /\ RunRow' = RunRow /\ ConnRow' = ConnRow
    /\ Complete' = Complete /\ (SynapseReady' <=> SynapseReady)
    /\ \A r : (Wanted(r)' <=> Wanted(r)) /\ (NobodysRow(r)' <=> NobodysRow(r))
    /\ \A i, r : NewRows(i, r)' = NewRows(i, r)
    /\ \A t : Read(t)' = Read(t)

LEMMA SourceStays == UNCHANGED synapse => SameSource
<1> SUFFICES ASSUME UNCHANGED synapse PROVE SameSource
  OBVIOUS
<1>1. \A r : HasDevice(r)' <=> HasDevice(r)
  BY DEF HasDevice
<1>2. \A r : Wanted(r)' <=> Wanted(r)
  BY <1>1 DEF Wanted
<1>3. \A u : KindOf(u)' = KindOf(u)
  BY DEF KindOf
<1>4. \A u : /\ Known(u)' <=> Known(u)
             /\ HasAccount(u)' <=> HasAccount(u)
             /\ IsActive(u)' <=> IsActive(u)
  BY <1>3 DEF Known, HasAccount, IsActive
<1>5. \A r : NobodysRow(r)' <=> NobodysRow(r)
  BY <1>4 DEF NobodysRow
<1>6. \A i, r : NewRows(i, r)' = NewRows(i, r)
  BY <1>4 DEF NewRows, RowsOfUser, RowsOfThreepid, RowsOfExternalId, RowsOfAccessToken,
              RowsOfTokenPair, RowsOfDevice
<1>7. Sound' = Sound
  BY <1>2, <1>5 DEF Sound
<1>8. AllMade' = AllMade
  BY <1>6, <1>7 DEF AllMade
<1>9. RunRow' = RunRow /\ ConnRow' = ConnRow
  BY <1>8 DEF RunRow, ConnRow
<1>10. Complete' = Complete
  BY DEF Complete, Of
<1>11. SynapseReady' <=> SynapseReady
  BY DEF SynapseReady
<1>12. \A t : Read(t)' = Read(t)
  BY <1>2 DEF Read
<1> QED
  BY <1>2, <1>5, <1>6, <1>7, <1>8, <1>9, <1>10, <1>11, <1>12 DEF SameSource

-----------------------------------------------------------------------------
(* What a run that has copied everything has made.                         *)

Account(u) ==
    \E a \in synapse : a.table = "users" /\ a.id = u /\ a.kind \notin {"invalid", "appservice"}
Active(u) == \E a \in synapse : a.table = "users" /\ a.id = u /\ a.kind = "plain"

LEMMA Kinds ==
    ASSUME synapse \in Databases, NEW u
    PROVE  /\ Known(u) => (HasAccount(u) <=> Account(u)) /\ (IsActive(u) <=> Active(u))
           /\ Active(u) => Account(u)
           /\ Account(u) => Known(u)
<1>1. ASSUME Known(u)
      PROVE  (HasAccount(u) <=> Account(u)) /\ (IsActive(u) <=> Active(u))
  <2>1. PICK a \in synapse : a.table = "users" /\ a.id = u /\ a.kind # "invalid"
    BY <1>1 DEF Known, KindOf
  <2>2. \A b \in synapse : b.table = "users" /\ b.id = u => b = a
    BY <2>1, DatabasesAssumption DEF DatabasesAssumption
  <2>3. KindOf(u) = {a.kind}
    BY <2>1, <2>2 DEF KindOf
  <2>4. a.kind \in {"plain", "deactivated", "guest", "appservice"}
    BY <2>1, DatabasesAssumption DEF DatabasesAssumption
  <2>5. HasAccount(u) <=> a.kind \notin {"invalid", "appservice"}
    BY <2>3, <2>4 DEF HasAccount
  <2>6. IsActive(u) <=> a.kind = "plain"
    BY <2>3 DEF IsActive
  <2> QED
    BY <2>1, <2>2, <2>5, <2>6 DEF Account, Active
<1>2. Active(u) => Account(u)
  BY DEF Active, Account
<1>3. Account(u) => Known(u)
  BY DEF Account, Known, KindOf
<1> QED
  BY <1>1, <1>2, <1>3

\* The row x is one that the run i makes of r.
Shape(i, r, x) ==
    \/ /\ r.table = "users" /\ r.kind \notin {"invalid", "appservice"}
       /\ \/ x = New(i, "users", r.id, {})
          \/ r.id \in Passwords /\ x = New(i, "user_passwords", r.id, {<<"users", r.id>>})
    \/ /\ r.table = "threepids" /\ Account(r.user)
       /\ \/ r.kind = "email" /\ x = New(i, "user_emails", r.id, {<<"users", r.user>>})
          \/ /\ r.kind # "email"
             /\ x = New(i, "user_unsupported_third_party_ids", r.id, {<<"users", r.user>>})
    \/ /\ r.table = "external_ids" /\ Account(r.user) /\ r.kind # "ignored"
       /\ x = New(i, "upstream_oauth_links", r.id, {<<"users", r.user>>})
    \/ /\ r.table = "access_tokens" /\ Active(r.user)
       /\ \/ x = New(i, "compat_access_tokens", r.id, {<<"compat_sessions", SessionKey(r)>>})
          \/ r.device = "none" /\ x = New(i, "compat_sessions", r.id, {<<"users", r.user>>})
    \/ /\ r.table = "refresh_tokens" /\ Active(r.user)
       /\ \/ x = New(i, "compat_access_tokens", r.id, {<<"compat_sessions", SessionKey(r)>>})
          \/ x = New(i, "compat_refresh_tokens", r.id,
                     {<<"compat_sessions", SessionKey(r)>>, <<"compat_access_tokens", r.id>>})
    \/ /\ r.table = "devices" /\ Active(r.user)
       /\ x = New(i, "compat_sessions", SessionKey(r), {<<"users", r.user>>})

LEMMA Shapes ==
    ASSUME synapse \in Databases, NEW i, NEW r \in Sound, NEW x
    PROVE  x \in NewRows(i, r) <=> Shape(i, r, x)
<1>1. r.table # "users" =>
         (HasAccount(r.user) <=> Account(r.user)) /\ (IsActive(r.user) <=> Active(r.user))
  BY Kinds DEF Sound, NobodysRow
<1>2. CASE r.table = "users"
  BY <1>2 DEF Shape, NewRows, RowsOfUser
<1>3. CASE r.table = "threepids"
  BY <1>1, <1>3 DEF Shape, NewRows, RowsOfThreepid, OfUser
<1>4. CASE r.table = "external_ids"
  BY <1>1, <1>4 DEF Shape, NewRows, RowsOfExternalId, OfUser
<1>5. CASE r.table = "access_tokens"
  BY <1>1, <1>5 DEF Shape, NewRows, RowsOfAccessToken, OfUser
<1>6. CASE r.table = "refresh_tokens"
  BY <1>1, <1>6 DEF Shape, NewRows, RowsOfTokenPair
<1>7. CASE r.table = "devices"
  BY <1>1, <1>7 DEF Shape, NewRows, RowsOfDevice
<1>8. CASE r.table \notin {"users", "threepids", "external_ids", "access_tokens", "refresh_tokens",
                           "devices"}
  BY <1>8 DEF Shape, NewRows
<1> QED
  BY <1>2, <1>3, <1>4, <1>5, <1>6, <1>7, <1>8

\* The run i has copied every row there is.
Copied(i) ==
    \A r \in synapse : Wanted(r) /\ r.table \in Copying => ~NobodysRow(r) /\ NewRows(i, r) \subseteq rows

LEMMA CopiedShape ==
    ASSUME synapse \in Databases, NEW i, Copied(i), NEW r \in synapse, Wanted(r),
           r.table \in Copying, NEW x, Shape(i, r, x)
    PROVE  x \in rows
<1>1. r \in Sound /\ NewRows(i, r) \subseteq rows
  BY DEF Copied, Sound
<1> QED
  BY <1>1, Shapes

LEMMA CopyingTables ==
    Copying = {"users", "threepids", "external_ids", "access_tokens", "refresh_tokens", "devices"}
  BY DEF Copying, After

LEMMA CopiedUser ==
    ASSUME synapse \in Databases, NEW i, Copied(i), NEW u, Account(u)
    PROVE  New(i, "users", u, {}) \in rows
<1>1. PICK a \in synapse : a.table = "users" /\ a.id = u /\ a.kind \notin {"invalid", "appservice"}
  BY DEF Account
<1>2. Wanted(a) /\ a.table \in Copying
  BY <1>1, CopyingTables DEF Wanted
<1>3. Shape(i, a, New(i, "users", u, {}))
  BY <1>1 DEF Shape
<1> QED
  BY <1>2, <1>3, CopiedShape

\* Where a run has copied everything and the constraints hold, there are no rows of another.
LEMMA OneRun ==
    ASSUME synapse \in Databases, rows \subseteq AllMade, NEW i, Copied(i), Valid(rows),
           NEW x \in rows
    PROVE  x.by = i
<1> DEFINE j == x.by
<1>1. ASSUME NEW z \in rows, z.by = j
      PROVE  \E r \in Sound : Shape(j, r, z)
  BY <1>1, MadeOf, Shapes
<1>2. ASSUME NEW z \in rows, z.by = j, NEW t, NEW k, <<t, k>> \in z.refs
      PROVE  \E y \in rows : y.by = j /\ y.table = t /\ y.key = k
  BY <1>2 DEF Valid
<1>3. ASSUME NEW y \in rows, y.by = j, y.table = "users"
      PROVE  j = i
  <2>1. PICK r \in Sound : Shape(j, r, y)
    BY <1>1, <1>3
  <2>2. r.table = "users" /\ r.kind \notin {"invalid", "appservice"} /\ y.key = r.id
    BY <1>3, <2>1 DEF Shape, New
  <2>3. New(i, "users", y.key, {}) \in rows
    BY <2>2, CopiedUser DEF Account, Sound
  <2>4. New(i, "users", y.key, {}) = y
    BY <1>3, <2>3 DEF Valid, UniqueTables, New
  <2> QED
    BY <1>3, <2>4 DEF New
<1>4. ASSUME NEW z \in rows, z.by = j, NEW k, <<"users", k>> \in z.refs
      PROVE  j = i
  BY <1>2, <1>3, <1>4
<1>5. ASSUME NEW z \in rows, z.by = j, z.table = "compat_sessions"
      PROVE  j = i
  <2>1. PICK r \in Sound : Shape(j, r, z)
    BY <1>1, <1>5
  <2>2. <<"users", r.user>> \in z.refs
    BY <1>5, <2>1 DEF Shape, New
  <2> QED
    BY <1>4, <1>5, <2>2
<1>6. PICK r \in Sound : Shape(j, r, x)
  BY <1>1
<1>7. \/ x.table = "users" \/ <<"users", r.id>> \in x.refs \/ <<"users", r.user>> \in x.refs
      \/ <<"compat_sessions", SessionKey(r)>> \in x.refs
  BY <1>6 DEF Shape, New
<1> QED
  BY <1>2, <1>3, <1>4, <1>5, <1>7

\* The row r is to be found as the row k of the table t.
Belongs(r, t, k) ==
    \/ r.table = "users" /\ r.kind \notin {"invalid", "appservice"} /\ t = "users" /\ k = r.id
    \/ /\ r.table = "users" /\ r.kind \notin {"invalid", "appservice"} /\ r.id \in Passwords
       /\ t = "user_passwords" /\ k = r.id
    \/ /\ r.table = "threepids" /\ Account(r.user) /\ r.kind = "email"
       /\ t = "user_emails" /\ k = r.id
    \/ /\ r.table = "threepids" /\ Account(r.user) /\ r.kind # "email"
       /\ t = "user_unsupported_third_party_ids" /\ k = r.id
    \/ /\ r.table = "external_ids" /\ Account(r.user) /\ r.kind = "mapped"
       /\ t = "upstream_oauth_links" /\ k = r.id
    \/ /\ r.table = "devices" /\ Active(r.user) /\ r.kind = "shown"
       /\ t = "compat_sessions" /\ k = r.device
    \/ /\ r.table = "access_tokens" /\ Active(r.user) /\ r.kind = "plain" /\ r.device = "none"
       /\ t \in {"compat_sessions", "compat_access_tokens"} /\ k = r.id

\* The row r has a shown device.
OnDevice(r) ==
    \E d \in synapse : /\ d.table = "devices" /\ d.kind = "shown"
                       /\ d.user = r.user /\ d.device = r.device

BelongsOnDevice(r, t, k) ==
    \/ /\ r.table = "access_tokens" /\ Active(r.user) /\ r.kind = "plain" /\ OnDevice(r)
       /\ t = "compat_access_tokens" /\ k = r.id
    \/ /\ r.table = "refresh_tokens" /\ Active(r.user) /\ r.kind = "current" /\ OnDevice(r)
       /\ t \in {"compat_access_tokens", "compat_refresh_tokens"} /\ k = r.id

LEMMA WhatBelongs ==
    ASSUME NEW t, NEW k
    PROVE  <<t, k>> \in Complete <=> \E r \in synapse : Belongs(r, t, k) \/ BelongsOnDevice(r, t, k)
<1> DEFINE accounts == {r \in Of("users") : r.kind \notin {"invalid", "appservice"}}
           active == {r.id : r \in {x \in accounts : x.kind = "plain"}}
           threepids == {r \in Of("threepids") : \E u \in accounts : u.id = r.user}
           links == {r \in Of("external_ids") : r.kind = "mapped" /\ \E u \in accounts : u.id = r.user}
           devices == {r \in Of("devices") : r.user \in active /\ r.kind = "shown"}
           tokens == {r \in Of("access_tokens") : r.user \in active /\ r.kind = "plain"}
           deviceless == {r \in tokens : r.device = "none"}
           bound == {r \in tokens : \E d \in devices : d.user = r.user /\ d.device = r.device}
           pairs == {r \in Of("refresh_tokens") :
                       /\ r.user \in active /\ r.kind = "current"
                       /\ \E d \in devices : d.user = r.user /\ d.device = r.device}
<1>1. \A u : (u \in active <=> Active(u)) /\ ((\E a \in accounts : a.id = u) <=> Account(u))
  BY DEF Of, Active, Account
<1>2. \A r : r \in accounts <=> /\ r \in synapse /\ r.table = "users"
                                /\ r.kind \notin {"invalid", "appservice"}
  BY DEF Of
<1>3. \A r : /\ r \in threepids <=> r \in synapse /\ r.table = "threepids" /\ Account(r.user)
             /\ r \in links <=> /\ r \in synapse /\ r.table = "external_ids" /\ r.kind = "mapped"
                                /\ Account(r.user)
             /\ r \in devices <=> /\ r \in synapse /\ r.table = "devices" /\ Active(r.user)
                                  /\ r.kind = "shown"
             /\ r \in tokens <=> /\ r \in synapse /\ r.table = "access_tokens" /\ Active(r.user)
                                 /\ r.kind = "plain"
  BY <1>1 DEF Of
<1>4. \A r : /\ r \in deviceless <=> r \in tokens /\ r.device = "none"
             /\ r \in bound <=> r \in tokens /\ OnDevice(r)
  BY <1>3 DEF OnDevice
<1>5. \A r : r \in pairs <=> /\ r \in synapse /\ r.table = "refresh_tokens" /\ Active(r.user)
                             /\ r.kind = "current" /\ OnDevice(r)
  BY <1>1, <1>3 DEF OnDevice, Of
<1>6. Complete =
        {<<"users", r.id>> : r \in accounts}
        \cup {<<"user_passwords", r.id>> : r \in {x \in accounts : x.id \in Passwords}}
        \cup {<<"user_emails", r.id>> : r \in {x \in threepids : x.kind = "email"}}
        \cup {<<"user_unsupported_third_party_ids", r.id>> : r \in {x \in threepids : x.kind # "email"}}
        \cup {<<"upstream_oauth_links", r.id>> : r \in links}
        \cup {<<"compat_sessions", r.device>> : r \in devices}
        \cup {<<"compat_sessions", r.id>> : r \in deviceless}
        \cup {<<"compat_access_tokens", r.id>> : r \in deviceless \cup bound \cup pairs}
        \cup {<<"compat_refresh_tokens", r.id>> : r \in pairs}
  BY DEF Complete
<1> HIDE DEF accounts, active, threepids, links, devices, tokens, deviceless, bound, pairs
<1>7. <<t, k>> \in Complete <=>
        \/ \E r \in accounts : t = "users" /\ k = r.id
        \/ \E r \in accounts : r.id \in Passwords /\ t = "user_passwords" /\ k = r.id
        \/ \E r \in threepids : r.kind = "email" /\ t = "user_emails" /\ k = r.id
        \/ \E r \in threepids : r.kind # "email" /\ t = "user_unsupported_third_party_ids" /\ k = r.id
        \/ \E r \in links : t = "upstream_oauth_links" /\ k = r.id
        \/ \E r \in devices : t = "compat_sessions" /\ k = r.device
        \/ \E r \in deviceless : t = "compat_sessions" /\ k = r.id
        \/ \E r \in deviceless \cup bound \cup pairs : t = "compat_access_tokens" /\ k = r.id
        \/ \E r \in pairs : t = "compat_refresh_tokens" /\ k = r.id
  BY <1>6
<1>8. ASSUME <<t, k>> \in Complete
      PROVE  \E r \in synapse : Belongs(r, t, k) \/ BelongsOnDevice(r, t, k)
  BY <1>2, <1>3, <1>4, <1>5, <1>7, <1>8 DEF Belongs, BelongsOnDevice
<1>9. ASSUME NEW r \in synapse, Belongs(r, t, k) \/ BelongsOnDevice(r, t, k)
      PROVE  <<t, k>> \in Complete
  BY <1>2, <1>3, <1>4, <1>5, <1>7, <1>9 DEF Belongs, BelongsOnDevice
<1> QED
  BY <1>8, <1>9

\* A token whose session is there has a shown device.
LEMMA SessionsOfDevices ==
    ASSUME synapse \in Databases, rows \subseteq AllMade, NEW r \in Sound,
           r.table \in {"access_tokens", "refresh_tokens"}, HasDevice(r), r.device # "none",
           NEW z \in rows, z.table = "compat_sessions", z.key = r.device
    PROVE  OnDevice(r)
<1>1. PICK d \in synapse : d.table = "devices" /\ d.user = r.user /\ d.device = r.device
  BY DEF HasDevice
<1>2. PICK q \in Sound : Shape(z.by, q, z)
  BY MadeOf, Shapes
<1>3. \/ q.table = "access_tokens" /\ z.key = q.id
      \/ q.table = "devices" /\ z.key = SessionKey(q)
  BY <1>2 DEF Shape, New
<1>4. q \in synapse /\ Wanted(q)
  BY DEF Sound
<1>5. q.table = "devices" /\ z.key = q.device
  BY <1>1, <1>3, <1>4, DatabasesAssumption DEF DatabasesAssumption, SessionKey
<1>6. q = d /\ q.kind = "shown"
  BY <1>1, <1>4, <1>5, DatabasesAssumption DEF DatabasesAssumption, Wanted
<1> QED
  BY <1>1, <1>6 DEF OnDevice

\* What a run has made that has copied everything, and that the constraints accept.
LEMMA RowsComplete ==
    ASSUME synapse \in Databases, rows \subseteq AllMade, NEW i, Copied(i), Valid(rows),
           SynapseReady
    PROVE  {<<x.table, x.key>> : x \in rows} = Complete
<1>1. ASSUME NEW x \in rows
      PROVE  <<x.table, x.key>> \in Complete
  <2>1. PICK r \in Sound : Shape(x.by, r, x)
    BY MadeOf, Shapes
  <2>2. r \in synapse /\ Wanted(r)
    BY DEF Sound
  <2>3. CASE r.table \in {"users", "threepids", "external_ids"}
    <3>1. r.table = "external_ids" /\ r.kind # "ignored" => r.kind = "mapped"
      BY <2>2, DatabasesAssumption DEF DatabasesAssumption, SynapseReady
    <3>2. Belongs(r, x.table, x.key)
      BY <2>1, <2>3, <3>1 DEF Belongs, Shape, New
    <3> QED
      BY <2>2, <3>2, WhatBelongs
  <2>4. CASE r.table = "devices"
    <3>1. r.kind = "shown" /\ SessionKey(r) = r.device
      BY <2>2, <2>4, DatabasesAssumption DEF DatabasesAssumption, Wanted, SessionKey
    <3>2. Belongs(r, x.table, x.key)
      BY <2>1, <2>4, <3>1 DEF Belongs, Shape, New
    <3> QED
      BY <2>2, <3>2, WhatBelongs
  <2>5. CASE r.table = "access_tokens" /\ r.device = "none"
    <3>1. Belongs(r, x.table, x.key)
      BY <2>1, <2>2, <2>5 DEF Belongs, Shape, New, Wanted
    <3> QED
      BY <2>2, <3>1, WhatBelongs
  <2>6. CASE r.table = "refresh_tokens" \/ (r.table = "access_tokens" /\ r.device # "none")
    <3>1. HasDevice(r) /\ r.device # "none"
      BY <2>2, <2>6, DatabasesAssumption DEF DatabasesAssumption, Wanted, HasDevice
    <3>2. <<"compat_sessions", r.device>> \in x.refs
      BY <2>1, <2>6, <3>1 DEF Shape, New, SessionKey
    <3>3. PICK z \in rows : z.table = "compat_sessions" /\ z.key = r.device
      BY <3>2 DEF Valid
    <3>4. OnDevice(r)
      BY <2>6, <3>1, <3>3, SessionsOfDevices
    <3>5. BelongsOnDevice(r, x.table, x.key)
      BY <2>1, <2>2, <2>6, <3>1, <3>4 DEF BelongsOnDevice, Shape, New, Wanted
    <3> QED
      BY <2>2, <3>5, WhatBelongs
  <2> QED
    BY <2>1, <2>3, <2>4, <2>5, <2>6 DEF Shape
<1>2. ASSUME NEW t, NEW k, <<t, k>> \in Complete
      PROVE  \E x \in rows : x.table = t /\ x.key = k
  <2>1. PICK r \in synapse : Belongs(r, t, k) \/ BelongsOnDevice(r, t, k)
    BY <1>2, WhatBelongs
  <2>2. Wanted(r) /\ r.table \in Copying
    BY <2>1, CopyingTables DEF Belongs, BelongsOnDevice, Wanted, OnDevice, HasDevice
  <2>3. \E x : Shape(i, r, x) /\ x.table = t /\ x.key = k
    <3> DEFINE u == {<<"users", r.user>>}
               v == {<<"compat_sessions", SessionKey(r)>>}
               w == {<<"compat_sessions", SessionKey(r)>>, <<"compat_access_tokens", r.id>>}
    <3> HIDE DEF u, v, w
    <3>1. \A b, c, e : New(i, b, c, e).table = b /\ New(i, b, c, e).key = c
      BY DEF New
    <3>2. CASE r.table = "users"
      <4>1. \/ t = "users" /\ Shape(i, r, New(i, t, k, {}))
            \/ t = "user_passwords" /\ Shape(i, r, New(i, t, k, {<<"users", k>>}))
        BY <2>1, <3>2 DEF Belongs, BelongsOnDevice, Shape
      <4> QED
        BY <3>1, <4>1
    <3>3. CASE r.table \in {"threepids", "external_ids"}
      <4>1. Shape(i, r, New(i, t, k, u))
        BY <2>1, <3>3 DEF Belongs, BelongsOnDevice, Shape, u
      <4> QED
        BY <3>1, <4>1
    <3>4. CASE r.table = "devices"
      <4>1. SessionKey(r) = r.device
        BY <3>4, DatabasesAssumption DEF DatabasesAssumption, SessionKey
      <4>2. Shape(i, r, New(i, t, k, u))
        BY <2>1, <3>4, <4>1 DEF Belongs, BelongsOnDevice, Shape, u
      <4> QED
        BY <3>1, <4>2
    <3>5. CASE r.table = "access_tokens"
      <4>1. Shape(i, r, New(i, t, k, u)) \/ Shape(i, r, New(i, t, k, v))
        BY <2>1, <3>5 DEF Belongs, BelongsOnDevice, Shape, u, v
      <4> QED
        BY <3>1, <4>1
    <3>6. CASE r.table = "refresh_tokens"
      <4>1. Shape(i, r, New(i, t, k, v)) \/ Shape(i, r, New(i, t, k, w))
        BY <2>1, <3>6 DEF Belongs, BelongsOnDevice, Shape, v, w
      <4> QED
        BY <3>1, <4>1
    <3> QED
      BY <2>1, <3>2, <3>3, <3>4, <3>5, <3>6 DEF Belongs, BelongsOnDevice
  <2> QED
    BY <2>2, <2>3, CopiedShape
<1>3. ASSUME NEW p \in Complete PROVE \E t, k : p = <<t, k>>
  BY DEF Complete
<1> QED
  BY <1>1, <1>2, <1>3

\* The constraints accept what a single run has made.
LEMMA RowsValid ==
    ASSUME synapse \in Databases, rows \subseteq AllMade, NEW i, Copied(i),
           \A x \in rows : x.by = i
    PROVE  Valid(rows)
<1>1. ASSUME NEW x \in rows PROVE \E r \in Sound : Shape(i, r, x)
  BY MadeOf, Shapes
<1>2. ASSUME NEW r \in synapse, NEW q \in synapse, r.id = q.id,
             \/ r.table = "users" /\ q.table = "users"
             \/ r.table = "external_ids" /\ q.table = "external_ids"
             \/ {r.table, q.table} \subseteq {"access_tokens", "refresh_tokens"}
      PROVE  r = q
  BY <1>2, DatabasesAssumption, TokensAssumption DEF DatabasesAssumption, TokensAssumption
<1>3. ASSUME NEW x \in rows, NEW y \in rows, x.table \in UniqueTables, x.table = y.table,
             x.key = y.key
      PROVE  x = y
  <2>1. PICK r \in Sound : Shape(i, r, x)
    BY <1>1
  <2>2. PICK q \in Sound : Shape(i, q, y)
    BY <1>1
  <2>3. r \in synapse /\ q \in synapse
    BY DEF Sound
  <2>4. CASE x.table = "users"
    <3>1. x = New(i, "users", r.id, {}) /\ x.key = r.id
      BY <2>1, <2>4 DEF Shape, New
    <3>2. y = New(i, "users", q.id, {}) /\ y.key = q.id
      <4>1. y.table = "users"
        BY <1>3, <2>4
      <4> QED
        BY <2>2, <4>1 DEF Shape, New
    <3> QED
      BY <1>3, <3>1, <3>2
  <2>5. CASE x.table = "upstream_oauth_links"
    <3>1. /\ r.table = "external_ids" /\ r.id = x.key
          /\ x = New(i, "upstream_oauth_links", r.id, {<<"users", r.user>>})
      BY <2>1, <2>5 DEF Shape, New
    <3>2. /\ q.table = "external_ids" /\ q.id = y.key
          /\ y = New(i, "upstream_oauth_links", q.id, {<<"users", q.user>>})
      <4>1. y.table = "upstream_oauth_links"
        BY <1>3, <2>5
      <4> QED
        BY <2>2, <4>1 DEF Shape, New
    <3>3. r = q
      BY <1>2, <1>3, <2>3, <3>1, <3>2
    <3> QED
      BY <3>1, <3>2, <3>3
  <2>6. CASE x.table \in {"compat_access_tokens", "compat_refresh_tokens"}
    <3>1. /\ r.table \in {"access_tokens", "refresh_tokens"} /\ r.id = x.key
          /\ q.table \in {"access_tokens", "refresh_tokens"} /\ q.id = y.key
      BY <1>3, <2>1, <2>2, <2>6 DEF Shape, New
    <3>2. r = q
      BY <1>2, <1>3, <2>3, <3>1
    <3> QED
      BY <1>3, <2>1, <2>2, <2>6, <3>1, <3>2 DEF Shape, New
  <2> QED
    BY <1>3, <2>4, <2>5, <2>6 DEF UniqueTables
<1>4. ASSUME NEW u, Account(u)
      PROVE  \E y \in rows : y.table = "users" /\ y.key = u
  <2>1. New(i, "users", u, {}) \in rows
    BY <1>4, CopiedUser
  <2>2. New(i, "users", u, {}).table = "users" /\ New(i, "users", u, {}).key = u
    BY DEF New
  <2> QED
    BY <2>1, <2>2
<1>5. ASSUME NEW r \in Sound, r.table \in {"access_tokens", "refresh_tokens"}, Active(r.user)
      PROVE  \E y \in rows : y.table = "compat_sessions" /\ y.key = SessionKey(r)
  <2>1. r \in synapse /\ Wanted(r) /\ r.table \in Copying
    BY <1>5, CopyingTables DEF Sound
  <2>2. CASE r.table = "access_tokens" /\ r.device = "none"
    <3>1. Shape(i, r, New(i, "compat_sessions", r.id, {<<"users", r.user>>}))
      BY <1>5, <2>2 DEF Shape
    <3>2. New(i, "compat_sessions", r.id, {<<"users", r.user>>}) \in rows
      BY <2>1, <3>1, CopiedShape
    <3> QED
      BY <2>2, <3>2 DEF New, SessionKey
  <2>3. CASE r.table = "refresh_tokens" \/ r.device # "none"
    <3>1. PICK d \in synapse : d.table = "devices" /\ d.user = r.user /\ d.device = r.device
      BY <1>5, <2>1, <2>3 DEF Wanted, HasDevice
    <3>2. r.device # "none" /\ SessionKey(r) = r.device /\ SessionKey(d) = r.device
      BY <3>1, DatabasesAssumption DEF DatabasesAssumption, SessionKey
    <3>3. d.kind = "shown"
      BY <1>5, <2>1, <3>1, TokensAssumption DEF TokensAssumption, Active
    <3>4. Wanted(d) /\ d.table \in Copying
      BY <3>1, <3>3, CopyingTables DEF Wanted
    <3>5. Shape(i, d, New(i, "compat_sessions", r.device, {<<"users", d.user>>}))
      BY <1>5, <3>1, <3>2 DEF Shape
    <3>6. New(i, "compat_sessions", r.device, {<<"users", d.user>>}) \in rows
      BY <3>1, <3>4, <3>5, CopiedShape
    <3> QED
      BY <3>2, <3>6 DEF New
  <2> QED
    BY <1>5, <2>2, <2>3
<1>6. ASSUME NEW x \in rows, NEW f \in x.refs
      PROVE  \E y \in rows : y.by = x.by /\ <<y.table, y.key>> = f
  <2>1. PICK r \in Sound : Shape(i, r, x)
    BY <1>1
  <2>2. r \in synapse /\ Wanted(r)
    BY DEF Sound
  <2>3. CASE f = <<"users", r.id>> /\ r.table = "users"
    <3>1. Account(r.id)
      BY <2>1, <2>2, <2>3 DEF Shape, Account
    <3> QED
      BY <1>4, <2>3, <3>1
  <2>4. CASE f = <<"users", r.user>> /\ r.table # "users"
    <3>1. Account(r.user)
      BY <2>1, <2>4, Kinds DEF Shape
    <3> QED
      BY <1>4, <2>4, <3>1
  <2>5. CASE f = <<"compat_sessions", SessionKey(r)>>
             /\ r.table \in {"access_tokens", "refresh_tokens"} /\ Active(r.user)
    BY <1>5, <2>5
  <2>6. CASE f = <<"compat_access_tokens", r.id>> /\ r.table = "refresh_tokens"
    <3> DEFINE y == New(i, "compat_access_tokens", r.id, {<<"compat_sessions", SessionKey(r)>>})
    <3>1. Shape(i, r, y)
      BY <2>1, <2>6 DEF Shape
    <3>2. y \in rows
      BY <2>2, <2>6, <3>1, CopiedShape, CopyingTables
    <3>3. y.table = "compat_access_tokens" /\ y.key = r.id
      BY DEF New
    <3> QED
      BY <2>6, <3>2, <3>3
  <2>7. \/ f = <<"users", r.id>> /\ r.table = "users"
        \/ f = <<"users", r.user>> /\ r.table # "users"
        \/ /\ f = <<"compat_sessions", SessionKey(r)>>
           /\ r.table \in {"access_tokens", "refresh_tokens"} /\ Active(r.user)
        \/ f = <<"compat_access_tokens", r.id>> /\ r.table = "refresh_tokens"
    BY <2>1 DEF Shape, New
  <2> QED
    BY <2>3, <2>4, <2>5, <2>6, <2>7
<1> QED
  BY <1>3, <1>6 DEF Valid

-----------------------------------------------------------------------------
(* Steps.                                                                  *)

\* A run that takes no step, while the database does not change under the one with the lock.
LEMMA OtherRuns ==
    ASSUME MigrationInv, UNCHANGED synapse, NEW j \in Runs, run'[j] = run[j], conn'[j] = conn[j],
           lock' = j => /\ lock = j /\ restore' = restore /\ rows \subseteq rows'
                        /\ restore # {} \/ rows' = rows
    PROVE  HandSound(j)' /\ LockSound(j)' /\ NothingLost(j)'
<1>1. HandSound(j) /\ LockSound(j) /\ NothingLost(j)
  BY DEF MigrationInv
<1>2. SameSource
  BY SourceStays
<1>3. \A x : InHand(j, x)' <=> InHand(j, x)
  BY DEF InHand
<1>4. \A r : (Wanted(r)' <=> Wanted(r)) /\ (NobodysRow(r)' <=> NobodysRow(r))
  BY <1>2 DEF SameSource
<1>5. HandSound(j)'
  BY <1>1, <1>3, <1>4 DEF HandSound
<1>6. LockSound(j)'
  BY <1>1, <1>2 DEF LockSound, SameSource, InProgress
<1>7. \A r : (Seen(j, r)' <=> Seen(j, r)) /\ NewRows(j, r)' = NewRows(j, r)
  BY <1>2, <1>4 DEF Seen, SameSource
<1>8. Broken(j)' <=> Broken(j)
  BY DEF Broken
<1>9. NothingLost(j)'
  BY <1>1, <1>3, <1>4, <1>7, <1>8 DEF NothingLost
<1> QED
  BY <1>5, <1>6, <1>9

\* A step of the run i that leaves the schema, and adds rows only out of the sight of servers.
LEMMA RunStep ==
    ASSUME MigrationInv, NEW i \in Runs, UNCHANGED <<synapse, names, constraints, restore, success>>,
           NEW R \in RunRow, run' = [run EXCEPT ![i] = R],
           NEW C \in [Connections -> ConnRow], conn' = [conn EXCEPT ![i] = C],
           rows' = rows \/ (names = "syn2mas" /\ rows \subseteq rows' /\ rows' \subseteq AllMade),
           lock' \in Runs \cup {"free"}, \A j \in Runs \ {i} : lock' = j => lock = j,
           names = "own" => \A c \in Connections : C[c].rows = {},
           hit' \subseteq Runs, stray' \subseteq Runs,
           HandSound(i)', LockSound(i)', NothingLost(i)'
    PROVE  MigrationInv'
<1> USE DEF MigrationInv
<1>1. SameSource
  BY SourceStays
<1>2. MigrationTypes'
  <2>1. run' \in [Runs -> RunRow] /\ conn' \in [Runs -> [Connections -> ConnRow]]
    BY DEF MigrationTypes
  <2>2. rows' \subseteq AllMade
    BY DEF MigrationTypes
  <2> QED
    BY <1>1, <2>1, <2>2 DEF MigrationTypes, SameSource
<1>3. \A j \in Runs \ {i} : run'[j] = run[j] /\ conn'[j] = conn[j]
  BY DEF MigrationTypes
<1>4. conn'[i] = C
  BY DEF MigrationTypes
<1>5. SchemaInv'
  BY <1>3, <1>4 DEF SchemaInv
<1>6. Whole'
  <2>1. names = "own" => rows' = rows
    OBVIOUS
  <2>2. Complete' = Complete
    BY <1>1 DEF SameSource
  <2>3. names = "syn2mas" => Whole'
    BY DEF Whole
  <2>4. rows' = rows => Whole'
    BY <2>2 DEF Whole
  <2> QED
    BY <2>1, <2>3, <2>4
<1>7. ASSUME NEW j \in Runs \ {i}
      PROVE  HandSound(j)' /\ LockSound(j)' /\ NothingLost(j)'
  <2>1. names = "syn2mas" => restore # {}
    BY DEF SchemaInv
  <2>2. rows \subseteq rows' /\ (restore # {} \/ rows' = rows)
    BY <2>1
  <2>3. lock' = j => lock = j
    BY <1>7
  <2> QED
    BY <1>3, <2>2, <2>3, OtherRuns
<1> QED
  BY <1>2, <1>5, <1>6, <1>7

LEMMA Stages ==
    /\ Copying \subseteq Live /\ {"locked", "checked", "reading", "committing", "restoring", "unlocking"} \subseteq Live
    /\ Writing \subseteq Live /\ Live \cap Ends = {}
    /\ {"idle", "locked", "checked", "reading", "unlocking"} \cap Writing = {}
  BY CopyingTables DEF Live, Ends, Writing

LEMMA IdleRow ==
    ASSUME NEW how \in Live \cup Ends
    PROVE  /\ [Idle EXCEPT !.stage = how] \in RunRow
           /\ [Idle EXCEPT !.stage = how].stage = how
           /\ [Idle EXCEPT !.stage = how].buffer = {} /\ [Idle EXCEPT !.stage = how].left = {}
           /\ [Idle EXCEPT !.stage = how].broken = "no" /\ [Idle EXCEPT !.stage = how].cut = "no"
  BY DEF Idle, RunRow

LEMMA ClosedRow ==
    /\ Closed \in ConnRow /\ Closed.state = "closed" /\ Closed.batch = {} /\ Closed.rows = {}
  BY DEF Closed, ConnRow

\* The end of a run, at any point.
LEMMA EndStep ==
    ASSUME MigrationInv, NEW i \in Runs, NEW how \in Ends, End(i, how),
           UNCHANGED <<synapse, database, success>>, hit' \subseteq Runs, stray' \subseteq Runs
    PROVE  MigrationInv'
<1> DEFINE R == [Idle EXCEPT !.stage = how]
           C == [c \in Connections |-> Closed]
<1>1. R \in RunRow /\ R.stage = how /\ R.buffer = {} /\ R.left = {} /\ R.broken = "no"
  BY IdleRow
<1>2. C \in [Connections -> ConnRow] /\ \A c \in Connections : C[c] = Closed
  BY ClosedRow
<1>3. run' = [run EXCEPT ![i] = R] /\ conn' = [conn EXCEPT ![i] = C]
  BY DEF End
<1> HIDE DEF R, C
<1>4. run'[i] = R /\ conn'[i] = C
  BY <1>3 DEF MigrationInv, MigrationTypes
<1>5. lock' \in Runs \cup {"free"} /\ lock' # i /\ \A j \in Runs \ {i} : lock' = j => lock = j
  BY MigrationAssumption DEF End, MigrationInv, MigrationTypes, MigrationAssumption
<1>6. how \notin Live /\ how \notin Copying /\ how \notin Writing /\ how # "restoring"
  BY Stages DEF Ends, Writing
<1>7. HandSound(i)'
  BY <1>1, <1>2, <1>4, <1>6, ClosedRow DEF HandSound, InHand
<1>8. LockSound(i)' /\ NothingLost(i)'
  BY <1>5 DEF LockSound, NothingLost
<1>9. UNCHANGED <<names, constraints, restore, rows>>
  BY DEF database
<1> QED
  BY <1>1, <1>2, <1>3, <1>5, <1>7, <1>8, <1>9, ClosedRow, RunStep

\* A step of the run i before it has connections.
LEMMA EarlyStep ==
    ASSUME MigrationInv, NEW i \in Runs, NEW k \in {"locked", "checked", "reading"},
           run[i].stage \in {"idle", "locked", "checked"},
           NEW d \in {"yes", "no"}, run' = [run EXCEPT ![i].stage = k, ![i].dry = d],
           lock' \in {lock, i}, UNCHANGED <<synapse, database, conn, history>>,
           k \in {"checked", "reading"} => SynapseReady /\ (InProgress \/ rows = {})
    PROVE  MigrationInv'
<1> DEFINE R == [run[i] EXCEPT !.stage = k, !.dry = d]
<1> USE DEF MigrationInv
<1>1. run[i] \in RunRow /\ conn[i] \in [Connections -> ConnRow]
  BY DEF MigrationTypes
<1>2. R \in RunRow
  BY <1>1, Stages DEF RunRow
<1>3. R.stage = k /\ R.buffer = run[i].buffer /\ R.left = run[i].left
  BY <1>1 DEF RunRow
<1>4. run' = [run EXCEPT ![i] = R] /\ run'[i] = R
  BY DEF MigrationTypes
<1> HIDE DEF R
<1>5. k \in Live /\ k \notin Copying /\ k \notin Writing
      /\ run[i].stage \notin Copying \cup {"committing"}
  BY Stages, CopyingTables
<1>6. HandSound(i)'
  BY <1>3, <1>4, <1>5 DEF HandSound, InHand
<1>7. SynapseReady' <=> SynapseReady
  BY SourceStays DEF SameSource
<1>8. UNCHANGED <<names, constraints, restore, rows, success, hit, stray>>
  BY DEF database, history
<1>9. LockSound(i)'
  BY <1>3, <1>4, <1>5, <1>7, <1>8 DEF LockSound, InProgress
<1>10. NothingLost(i)'
  BY <1>3, <1>4, <1>5 DEF NothingLost
<1>11. /\ lock' \in Runs \cup {"free"} /\ hit' \subseteq Runs /\ stray' \subseteq Runs
       /\ conn' = [conn EXCEPT ![i] = conn[i]]
       /\ \A j \in Runs \ {i} : lock' = j => lock = j
  BY <1>8 DEF MigrationTypes
<1>12. names = "own" => \A c \in Connections : conn[i][c].rows = {}
  BY DEF SchemaInv
<1> QED
  BY <1>1, <1>2, <1>4, <1>6, <1>8, <1>9, <1>10, <1>11, <1>12, RunStep

LEMMA BeginStep ==
    ASSUME MigrationInv, NEW i \in Runs, Begin(i)
    PROVE  MigrationInv'
<1>1. UNCHANGED <<success, hit, stray>> /\ hit \subseteq Runs /\ stray \subseteq Runs
  BY DEF Begin, history, MigrationInv, MigrationTypes
<1>2. CASE End(i, "refused")
  BY <1>1, <1>2, EndStep DEF Begin, Ends
<1>3. CASE lock' = i /\ \E d \in {"yes", "no"} : run' = [run EXCEPT ![i].stage = "locked", ![i].dry = d]
           /\ UNCHANGED conn
  BY <1>3, EarlyStep DEF Begin
<1> QED
  BY <1>2, <1>3 DEF Begin

LEMMA StageOnly ==
    ASSUME MigrationInv, NEW i \in Runs, NEW k, run' = [run EXCEPT ![i].stage = k]
    PROVE  /\ run[i].dry \in {"yes", "no"}
           /\ run' = [run EXCEPT ![i].stage = k, ![i].dry = run[i].dry]
<1>1. run[i] \in RunRow /\ run \in [Runs -> RunRow]
  BY DEF MigrationInv, MigrationTypes
<1>2. run[i].dry \in {"yes", "no"}
  BY <1>1 DEF RunRow
<1>3. [run[i] EXCEPT !.stage = k] = [run[i] EXCEPT !.stage = k, !.dry = run[i].dry]
  BY <1>1 DEF RunRow
<1> QED
  BY <1>1, <1>2, <1>3

LEMMA CheckStep ==
    ASSUME MigrationInv, NEW i \in Runs, Check(i)
    PROVE  MigrationInv'
<1>1. UNCHANGED <<success, hit, stray>> /\ hit \subseteq Runs /\ stray \subseteq Runs
  BY DEF Check, history, MigrationInv, MigrationTypes
<1>2. CASE End(i, "refused") \/ End(i, "not_empty")
  BY <1>1, <1>2, EndStep DEF Check, Ends
<1>3. CASE /\ run' = [run EXCEPT ![i].stage = "checked"] /\ UNCHANGED <<lock, conn>>
           /\ (InProgress \/ rows = {}) /\ SynapseReady
  <2>1. /\ run[i].dry \in {"yes", "no"}
        /\ run' = [run EXCEPT ![i].stage = "checked", ![i].dry = run[i].dry]
    BY <1>3, StageOnly
  <2>2. run[i].stage = "locked" /\ lock' \in {lock, i} /\ UNCHANGED <<synapse, database, conn, history>>
    BY <1>3 DEF Check
  <2> QED
    BY <1>3, <2>1, <2>2, EarlyStep
<1> QED
  BY <1>2, <1>3 DEF Check

LEMMA LockSynapseStep ==
    ASSUME MigrationInv, NEW i \in Runs, LockSynapse(i)
    PROVE  MigrationInv'
<1>1. UNCHANGED <<success, hit, stray>> /\ hit \subseteq Runs /\ stray \subseteq Runs
  BY DEF LockSynapse, history, MigrationInv, MigrationTypes
<1>2. CASE End(i, "refused")
  BY <1>1, <1>2, EndStep DEF LockSynapse, Ends
<1>3. CASE run' = [run EXCEPT ![i].stage = "reading"] /\ UNCHANGED <<lock, conn>>
  <2>1. run[i].stage = "checked" /\ UNCHANGED <<synapse, database, history>>
    BY DEF LockSynapse
  <2>2. CASE lock = i
    <3>1. SynapseReady /\ (InProgress \/ rows = {})
      BY <2>1, <2>2 DEF MigrationInv, LockSound
    <3>2. /\ run[i].dry \in {"yes", "no"}
          /\ run' = [run EXCEPT ![i].stage = "reading", ![i].dry = run[i].dry]
      BY <1>3, StageOnly
    <3>3. lock' \in {lock, i} /\ UNCHANGED conn
      BY <1>3
    <3> QED
      BY <2>1, <3>1, <3>2, <3>3, EarlyStep
  <2>3. CASE lock # i
    <3> DEFINE R == [run[i] EXCEPT !.stage = "reading"]
    <3> USE DEF MigrationInv
    <3>1. run[i] \in RunRow /\ conn[i] \in [Connections -> ConnRow]
      BY DEF MigrationTypes
    <3>2. R \in RunRow /\ R.stage = "reading" /\ R.buffer = run[i].buffer /\ R.left = run[i].left
      BY <3>1, Stages DEF RunRow
    <3>3. run' = [run EXCEPT ![i] = R] /\ run'[i] = R
      BY <1>3 DEF MigrationTypes
    <3> HIDE DEF R
    <3>4. HandSound(i)'
      BY <1>3, <2>1, <3>2, <3>3, CopyingTables DEF HandSound, InHand
    <3>5. LockSound(i)' /\ NothingLost(i)'
      BY <1>3, <2>3 DEF LockSound, NothingLost
    <3>6. UNCHANGED <<names, constraints, restore, rows, success, hit, stray>>
      BY <2>1 DEF database, history
    <3>7. /\ lock' \in Runs \cup {"free"} /\ hit' \subseteq Runs /\ stray' \subseteq Runs
          /\ conn' = [conn EXCEPT ![i] = conn[i]]
          /\ \A j \in Runs \ {i} : lock' = j => lock = j
      BY <1>3, <3>6 DEF MigrationTypes
    <3>8. names = "own" => \A c \in Connections : conn[i][c].rows = {}
      BY DEF SchemaInv
    <3> QED
      BY <2>1, <3>1, <3>2, <3>3, <3>4, <3>5, <3>6, <3>7, <3>8, RunStep
  <2> QED
    BY <2>2, <2>3
<1> QED
  BY <1>2, <1>3 DEF LockSynapse

\* A step of the run i that does not touch the database.
LEMMA QuietStep ==
    ASSUME MigrationInv, NEW i \in Runs, UNCHANGED <<synapse, database, success>>,
           NEW R \in RunRow, run' = [run EXCEPT ![i] = R],
           NEW C \in [Connections -> ConnRow], conn' = [conn EXCEPT ![i] = C],
           lock' \in {lock, "free"}, names = "own" => \A c \in Connections : C[c].rows = {},
           hit' \subseteq Runs, stray' \subseteq Runs,
           HandSound(i)', LockSound(i)', NothingLost(i)'
    PROVE  MigrationInv'
<1>1. UNCHANGED <<names, constraints, restore, rows>>
  BY DEF database
<1>2. lock' \in Runs \cup {"free"} /\ \A j \in Runs \ {i} : lock' = j => lock = j
  BY MigrationAssumption DEF MigrationInv, MigrationTypes, MigrationAssumption
<1> QED
  BY <1>1, <1>2, RunStep

\* A step that changes the row of the run only.
LEMMA RowStep ==
    ASSUME MigrationInv, NEW i \in Runs, UNCHANGED <<synapse, database, success, conn>>,
           NEW R \in RunRow, run' = [run EXCEPT ![i] = R],
           lock' \in {lock, "free"}, hit' \subseteq Runs, stray' \subseteq Runs,
           HandSound(i)', LockSound(i)', NothingLost(i)'
    PROVE  MigrationInv'
<1>1. /\ conn[i] \in [Connections -> ConnRow] /\ conn' = [conn EXCEPT ![i] = conn[i]]
      /\ names = "own" => \A c \in Connections : conn[i][c].rows = {}
  BY DEF MigrationInv, MigrationTypes, SchemaInv
<1> QED
  BY <1>1, QuietStep

LEMMA AfterBefore ==
    ASSUME NEW t \in Copying
    PROVE  /\ After[t] \in Copying \cup {"committing"} /\ After[t] # t
           /\ Before[After[t]] = Before[t] \cup {t}
<1>1. CASE t = "users"
  BY <1>1, CopyingTables DEF After, Before
<1>2. CASE t = "threepids"
  BY <1>2, CopyingTables DEF After, Before
<1>3. CASE t = "external_ids"
  BY <1>3, CopyingTables DEF After, Before
<1>4. CASE t = "access_tokens"
  BY <1>4, CopyingTables DEF After, Before
<1>5. CASE t = "refresh_tokens"
  BY <1>5, CopyingTables DEF After, Before
<1>6. CASE t = "devices"
  BY <1>6, CopyingTables DEF After, Before
<1> QED
  BY <1>1, <1>2, <1>3, <1>4, <1>5, <1>6, CopyingTables

LEMMA MigrateStep ==
    ASSUME MigrationInv, NEW i \in Runs, Migrate(i)
    PROVE  MigrationInv'
<1> USE DEF MigrationInv
<1>1. PICK r \in run[i].left : \/ ~NobodysRow(r) /\ Ingest(i, r, NewRows(i, r))
                               \/ MigrateFails(i, r)
  BY MigrateMakes
<1>2. CASE MigrateFails(i, r)
  <2>1. UNCHANGED <<success, hit, stray>> /\ hit \subseteq Runs /\ stray \subseteq Runs
    BY <1>2 DEF MigrateFails, history, MigrationTypes
  <2> QED
    BY <1>2, <2>1, EndStep DEF MigrateFails, Ends
<1>3. CASE ~NobodysRow(r) /\ Ingest(i, r, NewRows(i, r))
  <2> DEFINE N == NewRows(i, r)
             R == [run[i] EXCEPT !.left = @ \ {r}, !.buffer = @ \cup N]
  <2>1. /\ UNCHANGED <<synapse, database, lock, conn, history>>
        /\ run[i].stage = r.table
        /\ run' = [run EXCEPT ![i].left = @ \ {r}, ![i].buffer = @ \cup N]
    BY <1>3 DEF Ingest, Take
  <2>2. run[i] \in RunRow /\ run \in [Runs -> RunRow]
    BY DEF MigrationTypes
  <2>3. r \in synapse /\ r.table \in Copying /\ Wanted(r)
    BY <2>1, <2>2 DEF HandSound, RunRow
  <2>4. N \subseteq AllMade /\ \A x \in N : x.by = i
    BY <1>3, <2>3, MadeByRun DEF AllMade, Sound
  <2> HIDE DEF N
  <2>5. R \in RunRow
    BY <2>2, <2>4 DEF RunRow
  <2>6. /\ R.stage = run[i].stage /\ R.left = run[i].left \ {r} /\ R.buffer = run[i].buffer \cup N
        /\ R.broken = run[i].broken /\ R.order = run[i].order
    BY <2>2 DEF RunRow
  <2>7. run' = [run EXCEPT ![i] = R] /\ run'[i] = R /\ conn'[i] = conn[i]
    BY <2>1, <2>2
  <2> HIDE DEF R
  <2>8. SameSource /\ UNCHANGED <<restore, rows>>
    BY <2>1, SourceStays DEF database
  <2>9. \A x : InHand(i, x)' <=> InHand(i, x) \/ x \in N
    BY <2>6, <2>7 DEF InHand
  <2>10. HandSound(i)'
    BY <2>1, <2>3, <2>4, <2>6, <2>7, <2>8, <2>9 DEF HandSound, SameSource
  <2>11. LockSound(i)'
    BY <2>1, <2>6, <2>7, <2>8 DEF LockSound, SameSource, InProgress
  <2>12. NothingLost(i)'
    <3>1. ASSUME NEW q PROVE Seen(i, q)' => Seen(i, q) \/ q = r
      BY <2>1, <2>6, <2>7, <2>8 DEF Seen, SameSource
    <3>2. Broken(i) <=> Broken(i)'
      BY <2>6, <2>7 DEF Broken
    <3> QED
      BY <1>3, <2>1, <2>6, <2>7, <2>8, <2>9, <3>1, <3>2 DEF NothingLost, SameSource, N
  <2>13. UNCHANGED <<success, hit, stray>> /\ hit \subseteq Runs /\ stray \subseteq Runs
    BY <2>1 DEF history, MigrationTypes
  <2> QED
    BY <2>1, <2>5, <2>7, <2>10, <2>11, <2>12, <2>13, RowStep
<1> QED
  BY <1>1, <1>2, <1>3

LEMMA EndStageStep ==
    ASSUME MigrationInv, NEW i \in Runs, EndStage(i)
    PROVE  MigrationInv'
<1> USE DEF MigrationInv
<1>1. /\ UNCHANGED <<synapse, database, history>> /\ run[i].stage \in Copying /\ run[i].buffer = {}
      /\ run[i].left = {} \/ run[i].cut = "yes"
  BY DEF EndStage, NoMoreRows
<1>2. UNCHANGED <<success, hit, stray, restore, rows>> /\ hit \subseteq Runs /\ stray \subseteq Runs
  BY <1>1 DEF history, database, MigrationTypes
<1>3. CASE End(i, "failed")
  BY <1>1, <1>2, <1>3, EndStep DEF Ends
<1>4. CASE /\ run[i].cut = "no"
           /\ run' = [run EXCEPT ![i].stage = After[@],
                ![i].left = IF After[run[i].stage] \in Copying THEN Read(After[run[i].stage]) ELSE {}]
           /\ UNCHANGED <<lock, conn>>
  <2> DEFINE k == After[run[i].stage]
             L == IF k \in Copying THEN Read(k) ELSE {}
             R == [run[i] EXCEPT !.stage = k, !.left = L]
  <2>1. run[i] \in RunRow /\ run \in [Runs -> RunRow]
    BY DEF MigrationTypes
  <2>2. /\ k \in Copying \cup {"committing"} /\ k # run[i].stage
        /\ Before[k] = Before[run[i].stage] \cup {run[i].stage}
    BY <1>1, AfterBefore
  <2>3. L \subseteq synapse
    BY DEF Read
  <2>4. run[i].left = {} /\ run' = [run EXCEPT ![i] = R] /\ run'[i] = R /\ conn'[i] = conn[i]
    BY <1>1, <1>4, <2>1
  <2> HIDE DEF k
  <2>5. R \in RunRow
    <3> HIDE DEF L
    <3> QED
      BY <2>1, <2>2, <2>3, Stages DEF RunRow
  <2>6. /\ R.stage = k /\ R.left = L /\ R.buffer = {} /\ R.broken = run[i].broken
        /\ R.order = run[i].order
    BY <1>1, <2>1 DEF RunRow
  <2> HIDE DEF R
  <2>7. SameSource
    BY <1>1, SourceStays
  <2>8. \A x : InHand(i, x)' <=> InHand(i, x)
    BY <1>1, <2>4, <2>6 DEF InHand
  <2>9. k \notin Copying => k = "committing" /\ L = {}
    BY <2>2
  <2>10. \A r \in L : r.table = k /\ Wanted(r)
    BY DEF Read
  <2>11. HandSound(i)'
    BY <1>1, <2>2, <2>4, <2>6, <2>7, <2>8, <2>9, <2>10, CopyingTables DEF HandSound, SameSource
  <2>12. LockSound(i)'
    BY <1>1, <1>2, <1>4, <2>2, <2>4, <2>6, <2>7, Stages, CopyingTables
    DEF LockSound, SameSource, Writing
  <2>13. NothingLost(i)'
    <3>1. ASSUME NEW q, Seen(i, q)' PROVE Seen(i, q)
      <4>1. q \in synapse /\ Wanted(q) /\ q.table \in Copying
        BY <1>1, <2>7, <3>1 DEF Seen, SameSource
      <4>2. q.table \in Before[k] \/ (q.table = k /\ q \notin L)
        BY <2>4, <2>6, <3>1 DEF Seen
      <4>3. ~(q.table = k /\ q \notin L)
        BY <4>1 DEF Read
      <4> QED
        BY <2>2, <2>4, <4>1, <4>2, <4>3 DEF Seen
    <3>2. Broken(i) <=> Broken(i)'
      BY <2>4, <2>6 DEF Broken
    <3>3. run[i].stage \in Writing
      BY <1>1 DEF Writing
    <3> QED
      BY <1>2, <1>4, <2>7, <2>8, <3>1, <3>2, <3>3 DEF NothingLost, SameSource
  <2> QED
    BY <1>1, <1>2, <1>4, <2>4, <2>5, <2>11, <2>12, <2>13, RowStep
<1> QED
  BY <1>3, <1>4 DEF EndStage

\* A step of the run i with its connection c.
ConnMove(i, c, X, R) ==
    /\ X \in ConnRow /\ R \in RunRow
    /\ conn' = [conn EXCEPT ![i][c] = X] /\ run' = [run EXCEPT ![i] = R]
    /\ R.stage = run[i].stage /\ R.left = run[i].left /\ R.order = run[i].order
    /\ R.buffer \subseteq run[i].buffer /\ run[i].stage \in Copying \cup {"committing"}
    /\ UNCHANGED <<synapse, names, constraints, restore, success, lock>>
    /\ rows' = rows \/ (names = "syn2mas" /\ rows \subseteq rows' /\ rows' \subseteq AllMade)
    /\ names = "own" => X.rows = {}
    /\ X.state # "writing" => X.batch = {}
    /\ X.state \in {"closed", "error"} => X.rows = {}
    /\ hit' \subseteq Runs /\ stray' \subseteq Runs

\* What the run has in hand comes from where it was ...
NoMore(i, c, X) ==
    \A x : x \in X.batch \/ x \in X.rows =>
              x \in run[i].buffer \/ x \in conn[i][c].batch \/ x \in conn[i][c].rows

\* ... and is not lost.
NoLess(i, c, X, R) ==
    \/ R.broken = "yes" \/ X.state = "error"
    \/ /\ R.broken = run[i].broken /\ conn[i][c].state # "error"
       /\ \A x : x \in run[i].buffer \/ x \in conn[i][c].batch \/ x \in conn[i][c].rows =>
                    x \in R.buffer \/ x \in X.batch \/ x \in X.rows \/ x \in rows'

LEMMA ConnStep ==
    ASSUME MigrationInv, NEW i \in Runs, NEW c \in Connections, NEW X, NEW R,
           ConnMove(i, c, X, R), NoMore(i, c, X), NoLess(i, c, X, R)
    PROVE  MigrationInv'
<1> USE DEF ConnMove
<1> DEFINE C == [conn[i] EXCEPT ![c] = X]
<1> USE DEF MigrationInv
<1>1. /\ run \in [Runs -> RunRow] /\ conn \in [Runs -> [Connections -> ConnRow]]
      /\ conn[i] \in [Connections -> ConnRow]
  BY DEF MigrationTypes
<1>2. C \in [Connections -> ConnRow] /\ C[c] = X /\ \A d \in Connections \ {c} : C[d] = conn[i][d]
  BY <1>1
<1>3. conn' = [conn EXCEPT ![i] = C] /\ conn'[i] = C /\ run'[i] = R
  BY <1>1
<1> HIDE DEF C
<1>4. SameSource
  BY SourceStays
<1>5. ASSUME NEW x, InHand(i, x)' PROVE InHand(i, x)
  BY <1>2, <1>3, <1>5 DEF InHand, NoMore
<1>6. HandSound(i)'
  <2>1. run'[i].stage \notin Copying => run'[i].buffer = {} /\ run'[i].left = {}
    BY <1>3 DEF HandSound
  <2>2. ASSUME NEW d \in Connections
        PROVE  /\ conn'[i][d].state # "writing" => conn'[i][d].batch = {}
               /\ conn'[i][d].state \in {"closed", "error"} => conn'[i][d].rows = {}
    BY <1>2, <1>3 DEF HandSound
  <2>3. run'[i].stage \in Copying \cup {"committing"} /\ run'[i].stage # "restoring"
    BY <1>3, CopyingTables
  <2>4. run'[i].stage \in Copying => \A r \in run'[i].left : r.table = run'[i].stage /\ Wanted(r)'
    BY <1>3, <1>4 DEF HandSound, SameSource
  <2> QED
    BY <1>5, <2>1, <2>2, <2>3, <2>4 DEF HandSound
<1>7. LockSound(i)'
  BY <1>3, <1>4, CopyingTables DEF LockSound, SameSource
<1>8. NothingLost(i)'
  <2>1. \A q : Seen(i, q)' <=> Seen(i, q)
    BY <1>3, <1>4 DEF Seen, SameSource
  <2>2. CASE R.broken = "yes" \/ X.state = "error"
    <3>1. Broken(i)'
      BY <1>2, <1>3, <2>2 DEF Broken
    <3> QED
      BY <1>3, <1>4, <2>1, <3>1 DEF NothingLost, SameSource
  <2>3. CASE /\ R.broken = run[i].broken /\ conn[i][c].state # "error"
             /\ \A x : x \in run[i].buffer \/ x \in conn[i][c].batch \/ x \in conn[i][c].rows =>
                          x \in R.buffer \/ x \in X.batch \/ x \in X.rows \/ x \in rows'
    <3>1. Broken(i) => Broken(i)'
      BY <1>2, <1>3, <2>3 DEF Broken
    <3>2. ASSUME NEW x, InHand(i, x) PROVE x \in rows' \/ InHand(i, x)'
      BY <1>2, <1>3, <2>3, <3>2 DEF InHand
    <3>3. rows \subseteq rows'
      OBVIOUS
    <3> QED
      BY <1>3, <1>4, <2>1, <3>1, <3>2, <3>3 DEF NothingLost, SameSource
  <2> QED
    BY <2>2, <2>3 DEF NoLess
<1>9. names = "own" => \A d \in Connections : C[d].rows = {}
  BY <1>2 DEF SchemaInv
<1>10. lock' \in Runs \cup {"free"} /\ \A j \in Runs \ {i} : lock' = j => lock = j
  BY DEF MigrationTypes
<1> QED
  BY <1>2, <1>3, <1>6, <1>7, <1>8, <1>9, <1>10, RunStep

\* The row of a run and of a connection, for the steps that follow.
LEMMA RowsOfRun ==
    ASSUME MigrationInv, NEW i \in Runs
    PROVE  /\ run \in [Runs -> RunRow] /\ run[i] \in RunRow
           /\ conn \in [Runs -> [Connections -> ConnRow]]
           /\ \A c \in Connections : conn[i][c] \in ConnRow
           /\ run = [run EXCEPT ![i] = run[i]]
           /\ hit \subseteq Runs /\ stray \subseteq Runs /\ HandSound(i)
  BY DEF MigrationInv, MigrationTypes

LEMMA FlushStep ==
    ASSUME MigrationInv, NEW i \in Runs, NEW t, Flush(i, t)
    PROVE  MigrationInv'
<1>1. UNCHANGED <<synapse, database, history>> /\ Buffered(i, t) # {}
  BY DEF Flush
<1>2. UNCHANGED <<names, constraints, restore, rows, success, hit, stray>>
  BY <1>1 DEF database, history
<1>3. ASSUME End(i, "failed") PROVE MigrationInv'
  BY <1>1, <1>2, <1>3, RowsOfRun, EndStep DEF Ends
<1>4. ASSUME NEW c \in Connections, conn[i][c].state = "ready",
             conn' = [conn EXCEPT ![i][c].state = "writing", ![i][c].batch = Buffered(i, t)],
             run' = [run EXCEPT ![i].buffer = @ \ Buffered(i, t)], UNCHANGED lock
      PROVE  MigrationInv'
  <2> DEFINE B == Buffered(i, t)
             X == [conn[i][c] EXCEPT !.state = "writing", !.batch = B]
             R == [run[i] EXCEPT !.buffer = @ \ B]
  <2>1. /\ run \in [Runs -> RunRow] /\ run[i] \in RunRow
        /\ conn \in [Runs -> [Connections -> ConnRow]]
        /\ conn[i][c] \in ConnRow /\ hit' \subseteq Runs /\ stray' \subseteq Runs /\ HandSound(i)
    BY <1>2, RowsOfRun
  <2>2. B \subseteq run[i].buffer /\ B \subseteq AllMade
    BY <2>1 DEF Buffered, RunRow
  <2> HIDE DEF B
  <2>3. run[i].stage \in Copying /\ conn[i][c].batch = {}
    BY <1>1, <1>4, <2>1, <2>2 DEF HandSound, B
  <2>4. conn' = [conn EXCEPT ![i][c] = X] /\ run' = [run EXCEPT ![i] = R]
    BY <1>4, <2>1 DEF B
  <2>5. X \in ConnRow /\ X.state = "writing" /\ X.batch = B /\ X.rows = conn[i][c].rows
    BY <2>1, <2>2 DEF ConnRow
  <2>6. /\ R \in RunRow /\ R.stage = run[i].stage /\ R.left = run[i].left
        /\ R.order = run[i].order /\ R.broken = run[i].broken /\ R.buffer = run[i].buffer \ B
    BY <2>1, <2>2 DEF RunRow
  <2> HIDE DEF X, R
  <2>7. names = "own" => X.rows = {}
    BY <2>5 DEF MigrationInv, SchemaInv
  <2>8. /\ \A x : x \in X.batch \/ x \in X.rows =>
                     x \in run[i].buffer \/ x \in conn[i][c].batch \/ x \in conn[i][c].rows
        /\ \A x : x \in run[i].buffer \/ x \in conn[i][c].batch \/ x \in conn[i][c].rows =>
                     x \in R.buffer \/ x \in X.batch \/ x \in X.rows \/ x \in rows'
    BY <2>2, <2>3, <2>5, <2>6
  <2>9. /\ R.buffer \subseteq run[i].buffer /\ run[i].stage \in Copying \cup {"committing"}
        /\ X.state # "error" /\ X.state # "closed" /\ conn[i][c].state # "error"
    BY <1>4, <2>3, <2>5, <2>6
  <2>10. X.state # "writing" => X.batch = {}
    BY <2>5
  <2>11. X.state \in {"closed", "error"} => X.rows = {}
    BY <2>5
  <2>12. ConnMove(i, c, X, R)
    BY <1>1, <1>2, <1>4, <2>1, <2>4, <2>5, <2>6, <2>7, <2>9, <2>10, <2>11 DEF ConnMove
  <2>13. NoMore(i, c, X) /\ NoLess(i, c, X, R)
    BY <2>6, <2>8, <2>9 DEF NoMore, NoLess
  <2> QED
    BY <2>12, <2>13, ConnStep
<1> QED
  BY <1>3, <1>4 DEF Flush

\* The connection of a batch that is refused.
LEMMA ErrorStep ==
    ASSUME MigrationInv, NEW i \in Runs, NEW c \in Connections, conn[i][c].state = "writing",
           conn' = [conn EXCEPT ![i][c] = [Closed EXCEPT !.state = "error"]],
           UNCHANGED <<synapse, database, lock, run, success>>, hit' \subseteq Runs, stray' \subseteq Runs
    PROVE  MigrationInv'
<1> DEFINE X == [Closed EXCEPT !.state = "error"]
<1>1. X \in ConnRow /\ X.state = "error" /\ X.batch = {} /\ X.rows = {}
  BY ClosedRow DEF ConnRow, Closed
<1>2. /\ run[i] \in RunRow /\ run' = [run EXCEPT ![i] = run[i]] /\ HandSound(i)
      /\ UNCHANGED <<names, constraints, restore, rows>>
  BY RowsOfRun DEF database
<1>3. run[i].stage \in Copying \cup {"committing"}
  BY <1>2 DEF HandSound
<1>4. run[i].buffer \subseteq run[i].buffer
  OBVIOUS
<1> HIDE DEF X
<1>5. conn' = [conn EXCEPT ![i][c] = X]
  BY DEF X
<1>6. \A x : x \in X.batch \/ x \in X.rows =>
               x \in run[i].buffer \/ x \in conn[i][c].batch \/ x \in conn[i][c].rows
  BY <1>1
<1>7. ConnMove(i, c, X, run[i])
  BY <1>1, <1>2, <1>3, <1>4, <1>5 DEF ConnMove
<1>8. NoMore(i, c, X) /\ NoLess(i, c, X, run[i])
  BY <1>1, <1>6 DEF NoMore, NoLess
<1> QED
  BY <1>7, <1>8, ConnStep

LEMMA WriteBatchStep ==
    ASSUME MigrationInv, NEW i \in Runs, NEW c \in Connections, WriteBatch(i, c)
    PROVE  MigrationInv'
<1>1. UNCHANGED <<synapse, database, lock, run, history>> /\ conn[i][c].state = "writing"
  BY DEF WriteBatch
<1>2. /\ UNCHANGED <<names, constraints, restore, rows, success>>
      /\ hit' \subseteq Runs /\ stray' \subseteq Runs
  BY <1>1, RowsOfRun DEF database, history
<1>3. CASE conn' = [conn EXCEPT ![i][c] = [Closed EXCEPT !.state = "error"]]
  BY <1>1, <1>2, <1>3, ErrorStep
<1>4. CASE /\ names = "syn2mas"
           /\ conn' = [conn EXCEPT ![i][c] =
                [state |-> "ready", batch |-> {}, rows |-> @.rows \cup @.batch]]
  <2> DEFINE X == [state |-> "ready", batch |-> {}, rows |-> conn[i][c].rows \cup conn[i][c].batch]
  <2>1. /\ run[i] \in RunRow /\ run' = [run EXCEPT ![i] = run[i]] /\ HandSound(i)
        /\ conn \in [Runs -> [Connections -> ConnRow]] /\ conn[i][c] \in ConnRow
    BY <1>1, RowsOfRun
  <2>2. /\ X \in ConnRow /\ X.state = "ready" /\ X.batch = {}
        /\ X.rows = conn[i][c].rows \cup conn[i][c].batch
    BY <2>1 DEF ConnRow
  <2>3. conn' = [conn EXCEPT ![i][c] = X]
    BY <1>4, <2>1
  <2> HIDE DEF X
  <2>4. run[i].stage \in Copying \cup {"committing"} /\ run[i].buffer \subseteq run[i].buffer
    BY <1>1, <2>1 DEF HandSound
  <2>5. /\ \A x : x \in X.batch \/ x \in X.rows =>
                     x \in run[i].buffer \/ x \in conn[i][c].batch \/ x \in conn[i][c].rows
        /\ \A x : x \in run[i].buffer \/ x \in conn[i][c].batch \/ x \in conn[i][c].rows =>
                     x \in run[i].buffer \/ x \in X.batch \/ x \in X.rows \/ x \in rows'
    BY <2>2
  <2>6. names # "own" /\ conn[i][c].state # "error"
    BY <1>1, <1>4
  <2> QED
    BY <1>1, <1>2, <2>1, <2>2, <2>3, <2>4, <2>5, <2>6, ConnStep DEF ConnMove, NoMore, NoLess
<1> QED
  BY <1>3, <1>4 DEF WriteBatch

LEMMA WriteFailsStep ==
    ASSUME MigrationInv, NEW i \in Runs, NEW c \in Connections, WriteFails(i, c)
    PROVE  MigrationInv'
<1>1. hit' \subseteq Runs /\ stray' \subseteq Runs /\ UNCHANGED success
  BY RowsOfRun DEF WriteFails, Fault
<1> QED
  BY <1>1, ErrorStep DEF WriteFails, Fault

\* A connection is closed, committed or not.
LEMMA CloseStep ==
    ASSUME MigrationInv, NEW i \in Runs, NEW c \in Connections, run[i].stage = "committing",
           conn[i][c].state \in {"ready", "error"}, conn' = [conn EXCEPT ![i][c] = Closed],
           NEW k \in {"yes", "no"}, run' = [run EXCEPT ![i].broken = k],
           \/ k = "yes" /\ rows' \in {rows, rows \cup conn[i][c].rows}
           \/ /\ k = run[i].broken /\ conn[i][c].state # "error"
              /\ rows' = rows \cup conn[i][c].rows,
           UNCHANGED <<synapse, names, constraints, restore, success, lock>>,
           hit' \subseteq Runs, stray' \subseteq Runs
    PROVE  MigrationInv'
<1> DEFINE R == [run[i] EXCEPT !.broken = k]
<1>1. /\ run \in [Runs -> RunRow] /\ run[i] \in RunRow
      /\ conn \in [Runs -> [Connections -> ConnRow]]
      /\ conn[i][c] \in ConnRow /\ HandSound(i)
  BY RowsOfRun
<1>2. /\ R \in RunRow /\ R.stage = run[i].stage /\ R.left = run[i].left /\ R.buffer = run[i].buffer
      /\ R.order = run[i].order /\ R.broken = k
  BY <1>1 DEF RunRow
<1>3. run' = [run EXCEPT ![i] = R]
  BY <1>1
<1> HIDE DEF R
<1>4. conn[i][c].batch = {}
  BY <1>1 DEF HandSound
<1>5. /\ rows \subseteq rows' /\ rows' \subseteq AllMade /\ (names = "own" => rows' = rows)
      /\ names \in {"own", "syn2mas"}
  BY <1>1 DEF MigrationInv, MigrationTypes, SchemaInv, ConnRow
<1>6. \/ k = "yes"
      \/ /\ k = run[i].broken /\ conn[i][c].state # "error"
         /\ \A x : x \in run[i].buffer \/ x \in conn[i][c].batch \/ x \in conn[i][c].rows =>
                      x \in R.buffer \/ x \in Closed.batch \/ x \in Closed.rows \/ x \in rows'
  BY <1>2, <1>4
<1>7. R.buffer \subseteq run[i].buffer /\ run[i].stage \in Copying \cup {"committing"}
  BY <1>2
<1>8. rows' = rows \/ (names = "syn2mas" /\ rows \subseteq rows' /\ rows' \subseteq AllMade)
  BY <1>5
<1>9. \A x : x \in Closed.batch \/ x \in Closed.rows =>
               x \in run[i].buffer \/ x \in conn[i][c].batch \/ x \in conn[i][c].rows
  BY ClosedRow
<1>10. \/ R.broken = "yes"
       \/ /\ R.broken = run[i].broken /\ conn[i][c].state # "error"
          /\ \A x : x \in run[i].buffer \/ x \in conn[i][c].batch \/ x \in conn[i][c].rows =>
                       x \in R.buffer \/ x \in Closed.batch \/ x \in Closed.rows \/ x \in rows'
  BY <1>2, <1>6
<1>11. ConnMove(i, c, Closed, R)
  BY <1>2, <1>3, <1>7, <1>8, ClosedRow DEF ConnMove
<1>12. NoMore(i, c, Closed) /\ NoLess(i, c, Closed, R)
  BY <1>9, <1>10 DEF NoMore, NoLess
<1> QED
  BY <1>11, <1>12, ConnStep

LEMMA CommitStep ==
    ASSUME MigrationInv, NEW i \in Runs, NEW c \in Connections, CommitWriter(i, c) \/ CommitFails(i, c)
    PROVE  MigrationInv'
<1>1. run[i].broken \in {"yes", "no"} /\ hit \subseteq Runs /\ stray \subseteq Runs
  BY RowsOfRun DEF RunRow
<1>2. CASE CommitWriter(i, c)
  <2> DEFINE k == IF conn[i][c].state = "error" THEN "yes" ELSE run[i].broken
  <2>1. run' = [run EXCEPT ![i].broken = k] /\ k \in {"yes", "no"}
    BY <1>1, <1>2, RowsOfRun DEF CommitWriter
  <2>2. k = "yes" \/ (k = run[i].broken /\ conn[i][c].state # "error")
    OBVIOUS
  <2> HIDE DEF k
  <2>3. UNCHANGED <<success, hit, stray>>
    BY <1>2 DEF CommitWriter, history
  <2> QED
    BY <1>1, <1>2, <2>1, <2>2, <2>3, CloseStep DEF CommitWriter
<1>3. CASE CommitFails(i, c)
  <2>1. UNCHANGED <<names, constraints, restore, rows>> /\ hit' \subseteq Runs /\ stray' \subseteq Runs
    BY <1>1, <1>3 DEF CommitFails, database
  <2> QED
    BY <1>3, <2>1, CloseStep DEF CommitFails
<1> QED
  BY <1>2, <1>3

LEMMA AllCommittedStep ==
    ASSUME MigrationInv, NEW i \in Runs, AllCommitted(i)
    PROVE  MigrationInv'
<1> USE DEF MigrationInv
<1>1. /\ UNCHANGED <<synapse, database, history>> /\ run[i].stage = "committing"
      /\ \A c \in Connections : conn[i][c].state = "closed"
  BY DEF AllCommitted
<1>2. UNCHANGED <<success, hit, stray, restore, rows>> /\ hit \subseteq Runs /\ stray \subseteq Runs
  BY <1>1 DEF history, database, MigrationTypes
<1>3. CASE End(i, "failed")
  BY <1>1, <1>2, <1>3, EndStep DEF Ends
<1>4. CASE /\ run[i].broken = "no" /\ run' = [run EXCEPT ![i].stage = "restoring"]
           /\ UNCHANGED <<lock, conn>>
  <2> DEFINE R == [run[i] EXCEPT !.stage = "restoring"]
  <2>1. run[i] \in RunRow /\ run \in [Runs -> RunRow] /\ HandSound(i)
    BY RowsOfRun
  <2>2. run' = [run EXCEPT ![i] = R] /\ run'[i] = R /\ conn'[i] = conn[i]
    BY <1>4, <2>1
  <2>3. R \in RunRow
    BY <2>1, Stages DEF RunRow
  <2>4. /\ R.stage = "restoring" /\ R.left = run[i].left /\ R.buffer = run[i].buffer
        /\ R.broken = run[i].broken /\ R.order = run[i].order
    BY <2>1 DEF RunRow
  <2> HIDE DEF R
  <2>5. SameSource
    BY <1>1, SourceStays
  <2>6. \A x : InHand(i, x)' <=> InHand(i, x)
    BY <2>2, <2>4 DEF InHand
  <2>7. "restoring" \notin Copying /\ "committing" \notin Copying
    BY CopyingTables
  <2>8. HandSound(i)'
    BY <1>1, <1>4, <2>1, <2>2, <2>4, <2>6, <2>7 DEF HandSound
  <2>9. {"committing", "restoring"} \subseteq Writing
    BY DEF Writing
  <2>10. LockSound(i)'
    BY <1>1, <1>2, <1>4, <2>2, <2>4, <2>5, <2>9, Stages DEF LockSound, SameSource
  <2>11. NothingLost(i)'
    <3>1. Before["restoring"] = Before["committing"]
      BY DEF Before
    <3>2. \A q : Seen(i, q)' => Seen(i, q)
      BY <1>1, <2>2, <2>4, <2>5, <2>7, <3>1 DEF Seen, SameSource
    <3>3. Broken(i) <=> Broken(i)'
      BY <2>2, <2>4 DEF Broken
    <3> QED
      BY <1>1, <1>2, <1>4, <2>5, <2>6, <2>9, <3>2, <3>3 DEF NothingLost, SameSource
  <2> QED
    BY <1>1, <1>2, <1>4, <2>2, <2>3, <2>8, <2>10, <2>11, RowStep
<1> QED
  BY <1>3, <1>4 DEF AllCommitted

LEMMA ReaderFailsStep ==
    ASSUME MigrationInv, NEW i \in Runs, ReaderFails(i)
    PROVE  MigrationInv'
<1> USE DEF MigrationInv
<1> DEFINE R == [run[i] EXCEPT !.cut = "yes"]
<1>1. /\ UNCHANGED <<synapse, database, success, lock, conn>>
      /\ hit' \subseteq Runs /\ stray' \subseteq Runs /\ run' = [run EXCEPT ![i].cut = "yes"]
  BY RowsOfRun DEF ReaderFails, Fault
<1>2. run[i] \in RunRow /\ run \in [Runs -> RunRow] /\ HandSound(i)
  BY RowsOfRun
<1>3. run' = [run EXCEPT ![i] = R] /\ run'[i] = R /\ conn'[i] = conn[i]
  BY <1>1, <1>2
<1>4. R \in RunRow
  BY <1>2 DEF RunRow
<1>5. /\ R.stage = run[i].stage /\ R.left = run[i].left /\ R.buffer = run[i].buffer
      /\ R.broken = run[i].broken /\ R.order = run[i].order
  BY <1>2 DEF RunRow
<1> HIDE DEF R
<1>6. SameSource /\ UNCHANGED <<restore, rows>>
  BY <1>1, SourceStays DEF database
<1>7. \A x : InHand(i, x)' <=> InHand(i, x)
  BY <1>3, <1>5 DEF InHand
<1>8. HandSound(i)'
  BY <1>2, <1>3, <1>5, <1>6, <1>7 DEF HandSound, SameSource
<1>9. LockSound(i)'
  BY <1>1, <1>3, <1>5, <1>6 DEF LockSound, SameSource, InProgress
<1>10. NothingLost(i)'
  <2>1. \A q : Seen(i, q)' <=> Seen(i, q)
    BY <1>1, <1>3, <1>5, <1>6 DEF Seen, SameSource
  <2>2. Broken(i) <=> Broken(i)'
    BY <1>3, <1>5 DEF Broken
  <2> QED
    BY <1>1, <1>3, <1>5, <1>6, <1>7, <2>1, <2>2 DEF NothingLost, SameSource
<1> QED
  BY <1>1, <1>3, <1>4, <1>8, <1>9, <1>10, RowStep

LEMMA LoseLockStep ==
    ASSUME MigrationInv, NEW i \in Runs, LoseLock(i)
    PROVE  MigrationInv'
<1>1. /\ UNCHANGED <<synapse, database, run, conn, success>> /\ lock' = "free"
      /\ hit' \subseteq Runs /\ stray' \subseteq Runs
  BY RowsOfRun DEF LoseLock
<1>2. lock' # i /\ run[i] \in RunRow /\ run' = [run EXCEPT ![i] = run[i]]
  BY <1>1, RowsOfRun, MigrationAssumption DEF MigrationAssumption
<1>3. HandSound(i)' /\ LockSound(i)' /\ NothingLost(i)'
  BY <1>1, <1>2, OtherRuns
<1> QED
  BY <1>1, <1>2, <1>3, RowStep

LEMMA LeaveStep ==
    ASSUME MigrationInv, NEW i \in Runs, Unlock(i) \/ LockGone(i) \/ Crash(i)
    PROVE  MigrationInv'
<1>1. /\ End(i, "done") \/ End(i, "failed")
      /\ UNCHANGED <<synapse, database, success>> /\ hit' \subseteq Runs /\ stray' \subseteq Runs
  BY RowsOfRun DEF Unlock, LockGone, Crash, Fault, history
<1> QED
  BY <1>1, EndStep DEF Ends

\* A step of the run that has the lock, which may change the schema.
LEMMA OwnerStep ==
    ASSUME MigrationInv, NEW i \in Runs, lock = i, UNCHANGED <<synapse, lock>>,
           NEW R \in RunRow, run' = [run EXCEPT ![i] = R],
           NEW C \in [Connections -> ConnRow], conn' = [conn EXCEPT ![i] = C],
           names' \in {"own", "syn2mas"}, rows' \subseteq AllMade,
           success' \subseteq Runs, hit' \subseteq Runs, stray' \subseteq Runs,
           SchemaInv', Whole', HandSound(i)', LockSound(i)', NothingLost(i)'
    PROVE  MigrationInv'
<1>1. SameSource
  BY SourceStays
<1>2. run \in [Runs -> RunRow] /\ conn \in [Runs -> [Connections -> ConnRow]]
  BY RowsOfRun
<1>3. MigrationTypes'
  <2>1. run' \in [Runs -> RunRow] /\ conn' \in [Runs -> [Connections -> ConnRow]]
    BY <1>2
  <2> QED
    BY <1>1, <2>1 DEF MigrationInv, MigrationTypes, SameSource
<1>4. ASSUME NEW j \in Runs, j # i
      PROVE  HandSound(j)' /\ LockSound(j)' /\ NothingLost(j)'
  <2>1. run'[j] = run[j] /\ conn'[j] = conn[j] /\ lock' # j
    BY <1>2, <1>4
  <2> QED
    BY <2>1, OtherRuns
<1> QED
  BY <1>3, <1>4 DEF MigrationInv

\* What StartWriting makes of a run.
LEMMA StartSound ==
    ASSUME MigrationInv, NEW i \in Runs, NEW s \in DropOrders, run[i].stage = "reading", lock = i,
           StartWriting(i, s), UNCHANGED synapse, restore' = {s},
           rows' \subseteq AllMade, names' = "syn2mas", SchemaInv', UNCHANGED history
    PROVE  MigrationInv'
<1> DEFINE R == [run[i] EXCEPT !.stage = "users", !.left = Read("users"), !.order = s]
           K == [Closed EXCEPT !.state = "ready"]
           C == [c \in Connections |-> K]
<1>1. /\ run \in [Runs -> RunRow] /\ run[i] \in RunRow /\ HandSound(i)
      /\ conn \in [Runs -> [Connections -> ConnRow]]
  BY RowsOfRun
<1>2. run' = [run EXCEPT ![i] = R] /\ run'[i] = R /\ lock' = lock
  BY <1>1 DEF StartWriting
<1>3. conn' = [conn EXCEPT ![i] = C] /\ conn'[i] = C
  BY <1>1 DEF StartWriting
<1>4. Read("users") \subseteq synapse /\ \A r \in Read("users") : r.table = "users" /\ Wanted(r)
  BY DEF Read
<1>5. "users" \in Copying /\ "users" \in Live /\ "users" \in Writing
  BY CopyingTables, Stages DEF Writing
<1>6. R \in RunRow
  BY <1>1, <1>4, <1>5 DEF RunRow
<1>7. /\ R.stage = "users" /\ R.left = Read("users") /\ R.buffer = run[i].buffer /\ R.order = s
  BY <1>1 DEF RunRow
<1>8. K \in ConnRow /\ K.state = "ready" /\ K.batch = {} /\ K.rows = {}
  BY DEF Closed, ConnRow
<1> HIDE DEF R, K
<1>9. C \in [Connections -> ConnRow] /\ \A c \in Connections : C[c] = K
  BY <1>8
<1> HIDE DEF C
<1>10. SameSource
  BY SourceStays
<1>11. run[i].buffer = {}
  BY <1>1, CopyingTables DEF HandSound
<1>12. \A x : ~InHand(i, x)'
  BY <1>2, <1>3, <1>7, <1>8, <1>9, <1>11 DEF InHand
<1>13. HandSound(i)'
  BY <1>2, <1>3, <1>4, <1>5, <1>7, <1>8, <1>9, <1>10, <1>12 DEF HandSound, SameSource
<1>14. SynapseReady
  BY DEF MigrationInv, LockSound
<1>15. LockSound(i)'
  BY <1>2, <1>5, <1>7, <1>10, <1>14 DEF LockSound, SameSource
<1>16. \A r : ~Seen(i, r)'
  <2>1. Before["users"] = {}
    BY DEF Before
  <2> QED
    BY <1>2, <1>7, <1>10, <2>1 DEF Seen, SameSource, Read
<1>17. NothingLost(i)'
  BY <1>16 DEF NothingLost
<1>18. Whole'
  BY DEF Whole
<1>19. success' \subseteq Runs /\ hit' \subseteq Runs /\ stray' \subseteq Runs
  BY DEF history, MigrationInv, MigrationTypes
<1> QED
  BY <1>2, <1>3, <1>6, <1>9, <1>13, <1>15, <1>17, <1>18, <1>19, OwnerStep

LEMMA StartNewStep ==
    ASSUME MigrationInv, NEW i \in Runs, StartNew(i)
    PROVE  MigrationInv'
<1>1. /\ run[i].stage = "reading" /\ lock = i /\ restore = {}
      /\ UNCHANGED <<synapse, rows, history>>
  BY DEF StartNew, InProgress
<1>2. UNCHANGED <<success, hit, stray>>
  BY <1>1 DEF history
<1>3. ASSUME End(i, "failed"), UNCHANGED <<names, constraints, restore>> PROVE MigrationInv'
  BY <1>1, <1>2, <1>3, RowsOfRun, EndStep DEF database, Ends
<1>4. ASSUME NEW s \in DropOrders, names' = "syn2mas", constraints' = constraints \ Affected,
             restore' = {s}, StartWriting(i, s)
      PROVE  MigrationInv'
  <2>1. names = "own" /\ constraints = Constraints
    BY <1>1 DEF MigrationInv, MigrationTypes, SchemaInv
  <2>2. SchemaInv'
    BY <1>4, <2>1 DEF SchemaInv
  <2>3. rows' \subseteq AllMade
    BY <1>1 DEF MigrationInv, MigrationTypes
  <2> QED
    BY <1>1, <1>4, <2>2, <2>3, StartSound
<1> QED
  BY <1>3, <1>4 DEF StartNew

LEMMA ResumeStep ==
    ASSUME MigrationInv, NEW i \in Runs, Resume(i)
    PROVE  MigrationInv'
<1>1. /\ run[i].stage = "reading" /\ lock = i /\ restore # {} /\ rows' = {}
      /\ UNCHANGED <<synapse, names, constraints, restore, history>>
  BY DEF Resume, InProgress
<1>2. PICK s \in restore : StartWriting(i, s)
  BY DEF Resume
<1>3. /\ names = "syn2mas" /\ s \in DropOrders /\ restore = {s}
      /\ constraints = Constraints \ Affected
  BY <1>1 DEF MigrationInv, MigrationTypes, SchemaInv
<1>4. SchemaInv'
  BY <1>1, <1>3 DEF SchemaInv
<1> QED
  BY <1>1, <1>2, <1>3, <1>4, StartSound

\* A run that has got to its last transaction has copied everything.
LEMMA CopiedAll ==
    ASSUME MigrationInv, NEW i \in Runs, lock = i, run[i].stage = "restoring"
    PROVE  Copied(i)
<1>1. HandSound(i) /\ NothingLost(i)
  BY DEF MigrationInv
<1>2. /\ run[i].buffer = {} /\ run[i].broken = "no"
      /\ \A c \in Connections :
            conn[i][c].state = "closed" /\ conn[i][c].batch = {} /\ conn[i][c].rows = {}
  BY <1>1, CopyingTables DEF HandSound
<1>3. \A x : ~InHand(i, x)
  BY <1>2 DEF InHand
<1>4. ~Broken(i)
  BY <1>2 DEF Broken
<1>5. "restoring" \in Writing /\ Before["restoring"] = Copying
  BY DEF Writing, Before
<1>6. ASSUME NEW r \in synapse, Wanted(r), r.table \in Copying PROVE Seen(i, r)
  BY <1>5, <1>6 DEF Seen
<1> QED
  BY <1>1, <1>3, <1>4, <1>5, <1>6 DEF NothingLost, Copied

\* The schema under the run that has the lock and writes.
LEMMA WriterSchema ==
    ASSUME MigrationInv, NEW i \in Runs, lock = i, run[i].stage \in Writing
    PROVE  /\ names = "syn2mas" /\ run[i].order \in DropOrders
           /\ constraints = Constraints \ Affected /\ SynapseReady
<1>1. restore = {run[i].order} /\ SynapseReady
  BY DEF MigrationInv, LockSound
<1>2. restore # {}
  BY <1>1
<1>3. names = "syn2mas"
  BY <1>2 DEF MigrationInv, MigrationTypes, SchemaInv
<1>4. PICK s \in DropOrders : restore = {s} /\ constraints = Constraints \ Affected
  BY <1>3 DEF MigrationInv, SchemaInv
<1> QED
  BY <1>1, <1>3, <1>4

LEMMA FinishStep ==
    ASSUME MigrationInv, NEW i \in Runs, Finish(i)
    PROVE  MigrationInv'
<1>1. /\ run[i].stage = "restoring" /\ lock = i /\ NobodyElseWrites(i)
      /\ UNCHANGED <<synapse, hit, stray>>
  BY DEF Finish
<1>2. /\ run \in [Runs -> RunRow] /\ run[i] \in RunRow /\ HandSound(i)
      /\ conn \in [Runs -> [Connections -> ConnRow]] /\ conn[i] \in [Connections -> ConnRow]
      /\ hit' \subseteq Runs /\ stray' \subseteq Runs
  BY <1>1, RowsOfRun
<1>3. CASE End(i, "failed") /\ UNCHANGED <<database, success>>
  BY <1>1, <1>2, <1>3, EndStep DEF Ends
<1>4. CASE /\ Restorable(run[i].order) /\ Valid(rows)
           /\ names' = "own" /\ restore' = {}
           /\ constraints' = constraints \cup {run[i].order[n] : n \in 1 .. Len(run[i].order)}
           /\ rows' = IF run[i].dry = "yes" THEN {} ELSE rows
           /\ success' = success \cup {j \in {i} : run[j].dry = "no"}
           /\ run' = [run EXCEPT ![i] = [Idle EXCEPT !.stage = "unlocking"]]
           /\ UNCHANGED <<lock, conn>>
  <2> DEFINE R == [Idle EXCEPT !.stage = "unlocking"]
  <2>1. R \in RunRow /\ R.stage = "unlocking" /\ R.buffer = {} /\ R.left = {} /\ R.broken = "no"
    BY IdleRow, Stages
  <2>2. run' = [run EXCEPT ![i] = R]
    BY <1>4
  <2> HIDE DEF R
  <2>3. run'[i] = R /\ conn'[i] = conn[i]
    BY <1>2, <1>4, <2>2
  <2>4. "restoring" \in Writing /\ "restoring" \notin Copying /\ "unlocking" \notin Copying
        /\ "unlocking" \notin Writing /\ "unlocking" \in Live
    BY CopyingTables, Stages DEF Writing
  <2>5. /\ names = "syn2mas" /\ run[i].order \in DropOrders
        /\ constraints = Constraints \ Affected /\ SynapseReady
    BY <1>1, <2>4, WriterSchema
  <2>6. constraints' = Constraints
    <3>1. constraints' = (Constraints \ Affected) \cup Affected
      BY <1>4, <2>5, OrdersAffected
    <3>2. Affected \subseteq Constraints
      BY DEF Affected
    <3> QED
      BY <3>1, <3>2
  <2>7. \A c \in Connections :
           conn[i][c].state = "closed" /\ conn[i][c].batch = {} /\ conn[i][c].rows = {}
    BY <1>1, <1>2, <2>4 DEF HandSound
  <2>8. \A j \in Runs, c \in Connections : conn[j][c].rows = {}
    BY <1>1, <2>7 DEF NobodyElseWrites
  <2>9. SchemaInv'
    BY <1>4, <2>6, <2>8 DEF SchemaInv
  <2>10. synapse \in Databases /\ rows \subseteq AllMade /\ success \subseteq Runs
    BY DEF MigrationInv, MigrationTypes
  <2>11. Whole'
    <3>1. CASE run[i].dry = "yes"
      BY <1>4, <3>1 DEF Whole
    <3>2. CASE run[i].dry # "yes"
      <4>1. run[i].dry = "no"
        BY <1>2, <3>2 DEF RunRow
      <4>2. rows' = rows /\ i \in success'
        BY <1>4, <4>1
      <4>3. Copied(i)
        BY <1>1, CopiedAll
      <4>4. {<<x.table, x.key>> : x \in rows} = Complete
        BY <1>4, <2>5, <2>10, <4>3, RowsComplete
      <4>5. \A x \in rows : x.by = i
        BY <1>4, <2>10, <4>3, OneRun
      <4>6. Complete' = Complete
        BY <1>1, SourceStays DEF SameSource
      <4> QED
        BY <4>2, <4>4, <4>5, <4>6 DEF Whole
    <3> QED
      BY <3>1, <3>2
  <2>12. \A x : ~InHand(i, x)'
    BY <2>1, <2>3, <2>7 DEF InHand
  <2>13. HandSound(i)'
    BY <2>1, <2>3, <2>4, <2>7, <2>12 DEF HandSound
  <2>14. LockSound(i)' /\ NothingLost(i)'
    BY <2>1, <2>3, <2>4 DEF LockSound, NothingLost
  <2>15. rows' \subseteq AllMade /\ success' \subseteq Runs /\ conn' = [conn EXCEPT ![i] = conn[i]]
    BY <1>2, <1>4, <2>10
  <2>16. names' \in {"own", "syn2mas"} /\ UNCHANGED <<synapse, lock>>
    BY <1>1, <1>4
  <2> QED
    BY <1>1, <1>2, <2>1, <2>2, <2>9, <2>11, <2>13, <2>14, <2>15, <2>16, OwnerStep
<1> QED
  BY <1>3, <1>4 DEF Finish

LEMMA IdleStep == MigrationInv /\ UNCHANGED vars => MigrationInv'
<1> SUFFICES ASSUME MigrationInv, UNCHANGED vars PROVE MigrationInv'
  OBVIOUS
<1>1. /\ UNCHANGED <<synapse, names, constraints, restore, rows, lock, run, conn, success, hit, stray>>
  BY DEF vars, database, history
<1>2. SameSource
  BY <1>1, SourceStays
<1>3. ASSUME NEW j \in Runs PROVE HandSound(j)' /\ LockSound(j)' /\ NothingLost(j)'
  BY <1>1, OtherRuns
<1>4. MigrationTypes'
  BY <1>1, <1>2 DEF MigrationInv, MigrationTypes, SameSource
<1>5. SchemaInv'
  BY <1>1 DEF MigrationInv, SchemaInv
<1>6. Whole'
  BY <1>1, <1>2 DEF MigrationInv, Whole, SameSource
<1> QED
  BY <1>3, <1>4, <1>5, <1>6 DEF MigrationInv

LEMMA MigrationInit == Init => MigrationInv
<1> SUFFICES ASSUME Init PROVE MigrationInv
  OBVIOUS
<1>1. Idle \in RunRow /\ Idle.stage = "idle" /\ Idle.buffer = {} /\ Idle.left = {}
  BY DEF Idle, RunRow, Ends
<1>2. /\ \A i \in Runs : run[i] = Idle
      /\ \A i \in Runs, c \in Connections : conn[i][c] = Closed
      /\ run \in [Runs -> RunRow] /\ conn \in [Runs -> [Connections -> ConnRow]]
  BY <1>1, ClosedRow DEF Init
<1>3. MigrationTypes
  BY <1>2 DEF Init, MigrationTypes
<1>4. SchemaInv
  BY <1>2, ClosedRow DEF Init, SchemaInv
<1>5. Whole
  BY DEF Init, Whole
<1>6. ASSUME NEW i \in Runs PROVE HandSound(i) /\ LockSound(i) /\ NothingLost(i)
  <2>1. lock # i
    BY MigrationAssumption DEF Init, MigrationAssumption
  <2>2. \A x : ~InHand(i, x)
    BY <1>1, <1>2, ClosedRow DEF InHand
  <2> QED
    BY <1>1, <1>2, <2>1, <2>2, ClosedRow, CopyingTables DEF HandSound, LockSound, NothingLost
<1> QED
  BY <1>3, <1>4, <1>5, <1>6 DEF MigrationInv

LEMMA MigrationNext == MigrationInv /\ [Next]_vars => MigrationInv'
<1> SUFFICES ASSUME MigrationInv, [Next]_vars PROVE MigrationInv'
  OBVIOUS
<1>1. CASE UNCHANGED vars
  BY <1>1, IdleStep
<1>2. ASSUME NEW i \in Runs, Begin(i) \/ Check(i) \/ LockSynapse(i) \/ StartNew(i) \/ Resume(i)
      PROVE  MigrationInv'
  BY <1>2, BeginStep, CheckStep, LockSynapseStep, StartNewStep, ResumeStep
<1>3. ASSUME NEW i \in Runs, Migrate(i) \/ EndStage(i) \/ AllCommitted(i) \/ Finish(i) \/ Unlock(i)
      PROVE  MigrationInv'
  BY <1>3, MigrateStep, EndStageStep, AllCommittedStep, FinishStep, LeaveStep
<1>4. ASSUME NEW i \in Runs, ReaderFails(i) \/ LoseLock(i) \/ LockGone(i) \/ Crash(i)
      PROVE  MigrationInv'
  BY <1>4, ReaderFailsStep, LoseLockStep, LeaveStep
<1>5. ASSUME NEW i \in Runs, NEW t \in MasTables, Flush(i, t)
      PROVE  MigrationInv'
  BY <1>5, FlushStep
<1>6. ASSUME NEW i \in Runs, NEW c \in Connections,
             WriteBatch(i, c) \/ CommitWriter(i, c) \/ CommitFails(i, c) \/ WriteFails(i, c)
      PROVE  MigrationInv'
  BY <1>6, WriteBatchStep, CommitStep, WriteFailsStep
<1>7. CASE Finished
  BY <1>1, <1>7 DEF Finished
<1> QED
  BY <1>1, <1>2, <1>3, <1>4, <1>5, <1>6, <1>7 DEF Next

-----------------------------------------------------------------------------
(* Theorems.                                                               *)

\* The schema, the restore tables, and what each run has read, holds and has committed
\* fit together at any time.
THEOREM MigrationInvariant == Spec => []MigrationInv
  BY MigrationInit, MigrationNext, PTL DEF Spec

\* Whatever runs fail, are killed or lose the lock while they go on writing: where servers can
\* see the tables, all constraints are in force, and they are empty or hold everything that is
\* to be migrated, from one single run.
THEOREM SeenWhole == Spec => []AllOrNothing
<1>1. MigrationInv => AllOrNothing
  BY DEF MigrationInv, SchemaInv, Whole, AllOrNothing, InProgress
<1> QED
  BY <1>1, MigrationInvariant, PTL

-----------------------------------------------------------------------------
(* After a success.                                                        *)

\* The disjuncts of Next that are about the run i.
StepOf(i) ==
    \/ Begin(i) \/ Check(i) \/ LockSynapse(i) \/ StartNew(i) \/ Resume(i)
    \/ Migrate(i) \/ EndStage(i) \/ AllCommitted(i) \/ Finish(i) \/ Unlock(i)
    \/ ReaderFails(i) \/ LoseLock(i) \/ LockGone(i) \/ Crash(i)
    \/ \E t \in MasTables : Flush(i, t)
    \/ \E c \in Connections :
          WriteBatch(i, c) \/ CommitWriter(i, c) \/ CommitFails(i, c) \/ WriteFails(i, c)

Others(i) ==
    /\ \A j \in Runs \ {i} : run'[j] = run[j] /\ conn'[j] = conn[j] /\ (lock' = j => lock = j)
    /\ UNCHANGED synapse
    /\ success \subseteq success' /\ hit \subseteq hit' /\ stray \subseteq stray'

\* What no step of the run i does to another.
LEMMA OthersKept ==
    ASSUME MigrationInv, NEW i \in Runs, StepOf(i)
    PROVE  Others(i)
<1>1. run \in [Runs -> RunRow] /\ conn \in [Runs -> [Connections -> ConnRow]] /\ "free" \notin Runs
  BY RowsOfRun, MigrationAssumption DEF MigrationAssumption
<1>2. ASSUME NEW how, End(i, how)
      PROVE  \A j \in Runs \ {i} : run'[j] = run[j] /\ conn'[j] = conn[j] /\ (lock' = j => lock = j)
  BY <1>1, <1>2 DEF End
<1>3. CASE Begin(i) \/ Check(i) \/ LockSynapse(i) \/ Unlock(i) \/ LockGone(i) \/ AllCommitted(i)
  <2>1. UNCHANGED <<synapse, success, hit, stray>>
    BY <1>3 DEF Begin, Check, LockSynapse, Unlock, LockGone, AllCommitted, history
  <2>2. CASE \E how : End(i, how)
    BY <1>2, <2>1, <2>2 DEF Others
  <2>3. CASE ~\E how : End(i, how)
    BY <1>1, <1>3, <2>1, <2>3 DEF Others, Begin, Check, LockSynapse, Unlock, LockGone, AllCommitted
  <2> QED
    BY <2>2, <2>3
<1>4. CASE StartNew(i) \/ Resume(i)
  <2>1. UNCHANGED <<synapse, success, hit, stray>>
    BY <1>4 DEF StartNew, Resume, history
  <2>2. CASE \E how : End(i, how)
    BY <1>2, <2>1, <2>2 DEF Others
  <2>3. CASE \E s : StartWriting(i, s)
    BY <1>1, <2>1, <2>3 DEF Others, StartWriting
  <2> QED
    BY <1>4, <2>2, <2>3 DEF StartNew, Resume
<1>5. CASE Migrate(i)
  <2>1. PICK r \in run[i].left : Ingest(i, r, NewRows(i, r)) \/ MigrateFails(i, r)
    BY <1>5, MigrateMakes
  <2>2. UNCHANGED <<synapse, success, hit, stray>>
    BY <2>1 DEF Ingest, MigrateFails, history
  <2>3. CASE MigrateFails(i, r)
    BY <1>2, <2>2, <2>3 DEF Others, MigrateFails
  <2>4. CASE Ingest(i, r, NewRows(i, r))
    BY <1>1, <2>2, <2>4 DEF Others, Ingest
  <2> QED
    BY <2>1, <2>3, <2>4
<1>6. CASE EndStage(i)
  <2>1. UNCHANGED <<synapse, success, hit, stray>>
    BY <1>6 DEF EndStage, history
  <2>2. CASE End(i, "failed")
    BY <1>2, <2>1, <2>2 DEF Others
  <2>3. CASE ~End(i, "failed")
    BY <1>1, <1>6, <2>1, <2>3 DEF Others, EndStage
  <2> QED
    BY <2>2, <2>3
<1>7. CASE Finish(i)
  <2>1. UNCHANGED <<synapse, hit, stray>> /\ success \subseteq success'
    BY <1>7 DEF Finish
  <2>2. CASE End(i, "failed")
    BY <1>2, <2>1, <2>2 DEF Others
  <2>3. CASE ~End(i, "failed")
    BY <1>1, <1>7, <2>1, <2>3 DEF Others, Finish
  <2> QED
    BY <2>2, <2>3
<1>8. CASE ReaderFails(i) \/ LoseLock(i)
  BY <1>1, <1>8 DEF Others, ReaderFails, LoseLock, Fault
<1>9. CASE Crash(i)
  BY <1>2, <1>9 DEF Others, Crash, Fault
<1>10. ASSUME NEW t, Flush(i, t) PROVE Others(i)
  <2>1. UNCHANGED <<synapse, success, hit, stray>>
    BY <1>10 DEF Flush, history
  <2>2. CASE End(i, "failed")
    BY <1>2, <2>1, <2>2 DEF Others
  <2>3. CASE ~End(i, "failed")
    BY <1>1, <1>10, <2>1, <2>3 DEF Others, Flush
  <2> QED
    BY <2>2, <2>3
<1>11. ASSUME NEW c \in Connections, CommitWriter(i, c) \/ CommitFails(i, c) PROVE Others(i)
  BY <1>1, <1>11 DEF Others, CommitWriter, CommitFails, history
<1>12. ASSUME NEW c \in Connections, WriteBatch(i, c) \/ WriteFails(i, c) PROVE Others(i)
  BY <1>1, <1>12 DEF Others, WriteBatch, WriteFails, Fault, history
<1> QED
  BY <1>3, <1>4, <1>5, <1>6, <1>7, <1>8, <1>9, <1>10, <1>11, <1>12 DEF StepOf

\* Where a migration has succeeded, no step changes the database.
LEMMA DatabaseStays ==
    ASSUME MigrationInv, SuccessInv, success # {}, NEW i \in Runs, StepOf(i)
    PROVE  UNCHANGED <<database, success>>
<1>1. names = "own" /\ \A c \in Connections : conn[i][c].rows = {}
  BY DEF MigrationInv, SchemaInv, SuccessInv
<1>2. lock = i => run[i].stage \in {"locked", "unlocking"}
  BY DEF SuccessInv
<1>3. CASE Begin(i) \/ Check(i) \/ LockSynapse(i) \/ Unlock(i) \/ LockGone(i) \/ AllCommitted(i)
  BY <1>3 DEF Begin, Check, LockSynapse, Unlock, LockGone, AllCommitted, history
<1>4. CASE StartNew(i) \/ Resume(i) \/ Finish(i)
  BY <1>2, <1>4 DEF StartNew, Resume, Finish
<1>5. CASE Migrate(i)
  <2>1. PICK r \in run[i].left : Ingest(i, r, NewRows(i, r)) \/ MigrateFails(i, r)
    BY <1>5, MigrateMakes
  <2> QED
    BY <2>1 DEF Ingest, MigrateFails, history
<1>6. CASE EndStage(i) \/ ReaderFails(i) \/ LoseLock(i) \/ Crash(i)
  BY <1>6 DEF EndStage, ReaderFails, LoseLock, Crash, Fault, history
<1>7. ASSUME NEW t, Flush(i, t) PROVE UNCHANGED <<database, success>>
  BY <1>7 DEF Flush, history
<1>8. ASSUME NEW c \in Connections, CommitWriter(i, c) PROVE UNCHANGED <<database, success>>
  BY <1>1, <1>8 DEF CommitWriter, history, database
<1>9. ASSUME NEW c \in Connections, CommitFails(i, c) \/ WriteBatch(i, c) \/ WriteFails(i, c)
      PROVE  UNCHANGED <<database, success>>
  BY <1>9 DEF CommitFails, WriteBatch, WriteFails, Fault, history
<1> QED
  BY <1>3, <1>4, <1>5, <1>6, <1>7, <1>8, <1>9 DEF StepOf

\* ... and a run that has the lock has just taken it, or lets go of it.
LEMMA LockStays ==
    ASSUME MigrationInv, SuccessInv, success # {}, NEW i \in Runs, StepOf(i), lock' = i
    PROVE  run'[i].stage \in {"locked", "unlocking"}
<1>1. /\ run \in [Runs -> RunRow] /\ run[i] \in RunRow /\ i # "free" /\ HandSound(i)
      /\ conn[i] \in [Connections -> ConnRow]
  BY RowsOfRun, MigrationAssumption DEF MigrationAssumption
<1>2. lock = i => run[i].stage \in {"locked", "unlocking"} /\ run[i].stage \notin Copying
  BY CopyingTables DEF SuccessInv
<1>3. restore = {} /\ rows # {}
  BY DEF SuccessInv, MigrationInv, SchemaInv
<1>4. ASSUME NEW how PROVE ~End(i, how)
  BY <1>1 DEF End
<1>5. CASE Begin(i)
  BY <1>1, <1>4, <1>5 DEF Begin, RunRow
<1>6. CASE Check(i) \/ Unlock(i) \/ LockGone(i) \/ Crash(i)
  BY <1>3, <1>4, <1>6 DEF Check, Unlock, LockGone, Crash, InProgress
<1>7. CASE StartNew(i) \/ Resume(i) \/ Finish(i) \/ LoseLock(i)
  BY <1>1, <1>2, <1>7 DEF StartNew, Resume, Finish, LoseLock
<1>8. CASE LockSynapse(i) \/ AllCommitted(i)
  BY <1>2, <1>4, <1>8 DEF LockSynapse, AllCommitted
<1>9. CASE Migrate(i)
  <2>1. PICK r \in run[i].left : Ingest(i, r, NewRows(i, r)) \/ MigrateFails(i, r)
    BY <1>9, MigrateMakes
  <2>2. lock = i
    BY <1>4, <2>1 DEF Ingest, MigrateFails
  <2> QED
    BY <1>1, <1>2, <2>1, <2>2 DEF HandSound
<1>10. CASE EndStage(i) \/ ReaderFails(i)
  BY <1>2, <1>4, <1>10 DEF EndStage, ReaderFails, NoMoreRows
<1>11. ASSUME NEW t, Flush(i, t) PROVE FALSE
  <2>1. lock = i /\ run[i].buffer # {}
    BY <1>4, <1>11 DEF Flush, Buffered
  <2> QED
    BY <1>1, <1>2, <2>1 DEF HandSound
<1>12. ASSUME NEW c \in Connections, CommitWriter(i, c) \/ CommitFails(i, c) PROVE FALSE
  BY <1>2, <1>12 DEF CommitWriter, CommitFails
<1>13. ASSUME NEW c \in Connections, WriteBatch(i, c) \/ WriteFails(i, c)
       PROVE  run'[i].stage \in {"locked", "unlocking"}
  BY <1>2, <1>13 DEF WriteBatch, WriteFails
<1> QED
  BY <1>5, <1>6, <1>7, <1>8, <1>9, <1>10, <1>11, <1>12, <1>13 DEF StepOf

\* The first success.
LEMMA FirstSuccess ==
    ASSUME Somebody, MigrationInv, success = {}, success' # {}, NEW i \in Runs, StepOf(i)
    PROVE  SuccessInv'
<1>1. CASE Finish(i)
  <2>1. /\ run[i].stage = "restoring" /\ lock = i /\ names' = "own" /\ UNCHANGED lock
        /\ run' = [run EXCEPT ![i] = [Idle EXCEPT !.stage = "unlocking"]]
        /\ rows' = IF run[i].dry = "yes" THEN {} ELSE rows
        /\ success' = success \cup {j \in {i} : run[j].dry = "no"}
    BY <1>1 DEF Finish
  <2>2. rows' = rows
    BY <2>1
  <2>3. Copied(i) /\ synapse \in Databases
    BY <2>1, CopiedAll DEF MigrationInv, MigrationTypes
  <2>4. PICK a \in synapse : a.table = "users" /\ a.kind \notin {"invalid", "appservice"}
    BY <2>3 DEF Somebody
  <2>5. Account(a.id)
    BY <2>4 DEF Account
  <2>6. rows' # {}
    BY <2>2, <2>3, <2>5, CopiedUser
  <2>7. run'[i].stage = "unlocking"
    <3>1. run'[i] = [Idle EXCEPT !.stage = "unlocking"]
      BY <2>1, RowsOfRun
    <3> QED
      BY <3>1, IdleRow, Stages
  <2> QED
    BY <2>1, <2>6, <2>7 DEF SuccessInv
<1>2. CASE ~Finish(i)
  <2>1. success' = success
    <3>1. CASE Begin(i) \/ Check(i) \/ LockSynapse(i) \/ StartNew(i) \/ Resume(i) \/ Unlock(i)
               \/ LockGone(i) \/ AllCommitted(i) \/ EndStage(i)
      BY <3>1 DEF Begin, Check, LockSynapse, StartNew, Resume, Unlock, LockGone, AllCommitted,
                  EndStage, history
    <3>2. CASE Migrate(i)
      BY <3>2, MigrateMakes DEF Ingest, MigrateFails, history
    <3>3. CASE ReaderFails(i) \/ LoseLock(i) \/ Crash(i)
      BY <3>3 DEF ReaderFails, LoseLock, Crash, Fault
    <3>4. CASE \E t \in MasTables : Flush(i, t)
      BY <3>4 DEF Flush, history
    <3>5. CASE \E c \in Connections :
                 WriteBatch(i, c) \/ CommitWriter(i, c) \/ CommitFails(i, c) \/ WriteFails(i, c)
      BY <3>5 DEF WriteBatch, CommitWriter, CommitFails, WriteFails, Fault, history
    <3> QED
      BY <1>2, <3>1, <3>2, <3>3, <3>4, <3>5 DEF StepOf
  <2> QED
    BY <2>1
<1> QED
  BY <1>1, <1>2

LEMMA SuccessNext ==
    ASSUME Somebody, MigrationInv, SuccessInv, [Next]_vars
    PROVE  SuccessInv' /\ (success # {} => UNCHANGED database)
<1>1. CASE UNCHANGED vars
  BY <1>1 DEF vars, SuccessInv, database, history
<1>2. ASSUME NEW i \in Runs, StepOf(i)
      PROVE  SuccessInv' /\ (success # {} => UNCHANGED database)
  <2>1. CASE success = {}
    <3>1. CASE success' = {}
      BY <2>1, <3>1 DEF SuccessInv
    <3>2. CASE success' # {}
      BY <1>2, <2>1, <3>2, FirstSuccess
    <3> QED
      BY <2>1, <3>1, <3>2
  <2>2. CASE success # {}
    <3>1. UNCHANGED <<database, success>>
      BY <1>2, <2>2, DatabaseStays
    <3>2. names' = "own" /\ rows' # {}
      BY <2>2, <3>1 DEF SuccessInv, database
    <3>3. ASSUME NEW j \in Runs, lock' = j PROVE run'[j].stage \in {"locked", "unlocking"}
      <4>1. CASE j = i
        BY <1>2, <2>2, <3>3, <4>1, LockStays
      <4>2. CASE j # i
        <5>1. run'[j] = run[j] /\ lock = j
          BY <1>2, <3>3, <4>2, OthersKept DEF Others
        <5> QED
          BY <2>2, <5>1 DEF SuccessInv
      <4> QED
        BY <4>1, <4>2
    <3> QED
      BY <3>1, <3>2, <3>3 DEF SuccessInv
  <2> QED
    BY <2>1, <2>2
<1> QED
  BY <1>1, <1>2 DEF Next, StepOf, Finished

\* A migration that has succeeded is never undone, whatever is run, killed or goes on without
\* the lock afterwards, provided that there was somebody to be migrated: of a migration that
\* made no rows no later run can know.
THEOREM SuccessIsKept == Somebody => (Spec => SuccessStays)
<1> SUFFICES ASSUME Somebody PROVE Spec => SuccessStays
  OBVIOUS
<1>1. Init => SuccessInv
  BY DEF Init, SuccessInv
<1>2. MigrationInv /\ SuccessInv /\ [Next]_vars => SuccessInv'
  BY SuccessNext
<1>3. MigrationInv /\ SuccessInv /\ [Next]_vars => [success # {} => UNCHANGED database]_vars
  BY SuccessNext
<1> QED
  BY <1>1, <1>2, <1>3, MigrationInvariant, PTL DEF Spec, SuccessStays

-----------------------------------------------------------------------------
(* What runs fail for.                                                     *)

\* A step of a run under way.
LEMMA CauseStep ==
    ASSUME MigrationInv, CauseInv, NEW i \in Runs, run[i].stage \in Live, Others(i), CauseOf(i)'
    PROVE  CauseInv'
<1>1. ASSUME NEW j \in Runs, j # i PROVE CauseOf(j)'
  <2>1. /\ run'[j] = run[j] /\ conn'[j] = conn[j] /\ CauseOf(j) /\ UNCHANGED synapse
        /\ success \subseteq success' /\ hit \subseteq hit' /\ stray \subseteq stray'
    BY <1>1 DEF Others, CauseInv
  <2>2. stray' = {} => stray = {} /\ run[j].stage \notin Live
    BY <1>1, <2>1 DEF CauseInv, CauseOf
  <2>3. Broken(j)' <=> Broken(j)
    BY <2>1 DEF Broken
  <2>4. Cause(j) => Cause(j)'
    BY <2>1, SourceStays DEF Cause, SameSource
  <2> QED
    BY <2>1, <2>2, <2>3, <2>4, Stages DEF CauseOf
<1> QED
  BY <1>1 DEF CauseInv

\* It goes on ...
LEMMA GoesOn ==
    ASSUME MigrationInv, CauseInv, NEW i \in Runs, run[i].stage \in Live, Others(i),
           run'[i].stage \in Live, lock' = lock \/ stray' # {},
           (Broken(i) \/ run[i].cut = "yes" => i \in hit \/ stray # {}) =>
               (Broken(i)' \/ run'[i].cut = "yes" => i \in hit' \/ stray' # {}),
           stray' = {} /\ lock = i /\ run'[i].stage \in Writing =>
               \/ run[i].stage \in Writing /\ rows' = rows
               \/ \A x \in rows' : x.by = i
               \/ run[i].stage \in Writing /\ \A x \in rows' : x \in rows \/ x.by = i
    PROVE  CauseInv'
<1>1. CauseOf(i) /\ stray \subseteq stray'
  BY DEF CauseInv, Others
<1>2. stray' = {} => stray = {} /\ lock = i /\ lock' = i
  BY <1>1 DEF CauseOf
<1>3. run'[i].stage # "failed" /\ run'[i].stage # "not_empty"
  BY Stages DEF Ends
<1>4. CauseOf(i)'
  BY <1>1, <1>2, <1>3 DEF CauseOf
<1> QED
  BY <1>4, CauseStep

\* ... or ends.
LEMMA EndsFor ==
    ASSUME MigrationInv, CauseInv, NEW i \in Runs, run[i].stage \in Live, Others(i),
           NEW how \in Ends, End(i, how), how = "failed" => Cause(i) \/ Cause(i)',
           how = "not_empty" => success # {}
    PROVE  CauseInv'
<1>1. run'[i] = [Idle EXCEPT !.stage = how] /\ conn'[i] = [c \in Connections |-> Closed]
  BY RowsOfRun DEF End
<1>2. run'[i].stage = how /\ run'[i].broken = "no" /\ run'[i].cut = "no"
  BY <1>1, IdleRow
<1>3. ~Broken(i)'
  BY <1>1, <1>2, ClosedRow DEF Broken
<1>4. how \notin Live /\ how \notin Writing
  BY Stages
<1>5. Cause(i) => Cause(i)'
  BY SourceStays DEF Cause, SameSource, Others
<1>6. success # {} => success' # {}
  BY DEF Others
<1>7. CauseOf(i)'
  BY <1>2, <1>3, <1>4, <1>5, <1>6 DEF CauseOf
<1> QED
  BY <1>7, CauseStep

LEMMA BeginCause ==
    ASSUME MigrationInv, CauseInv, NEW i \in Runs, Begin(i)
    PROVE  CauseInv'
<1>1. /\ run \in [Runs -> RunRow] /\ run[i] \in RunRow /\ conn \in [Runs -> [Connections -> ConnRow]]
      /\ "free" \notin Runs
  BY RowsOfRun, MigrationAssumption DEF MigrationAssumption
<1>2. run[i].stage = "idle" /\ UNCHANGED <<synapse, rows, success, hit, stray>> /\ Others(i)
  BY OthersKept DEF Begin, StepOf, database, history
<1>3. ASSUME NEW j \in Runs, j # i, \A k \in Runs : lock = k => lock' = k \/ k = i
      PROVE  CauseOf(j)'
  <2>1. run'[j] = run[j] /\ conn'[j] = conn[j] /\ CauseOf(j)
    BY <1>2, <1>3 DEF Others, CauseInv
  <2>2. stray = {} /\ run[j].stage \in Live => lock' = j
    BY <1>3, <2>1 DEF CauseOf
  <2>3. (Broken(j)' <=> Broken(j)) /\ (Cause(j) => Cause(j)')
    BY <1>2, <2>1, SourceStays DEF Broken, Cause, SameSource
  <2> QED
    BY <1>2, <2>1, <2>2, <2>3 DEF CauseOf
<1>4. CASE End(i, "refused")
  <2>1. run'[i] = [Idle EXCEPT !.stage = "refused"] /\ conn'[i] = [c \in Connections |-> Closed]
    BY <1>1, <1>4 DEF End
  <2>2. "refused" \in Ends /\ "refused" \notin Live /\ "refused" \notin Writing
    BY Stages DEF Ends
  <2>3. run'[i].stage = "refused" /\ run'[i].broken = "no" /\ run'[i].cut = "no"
    BY <2>1, <2>2, IdleRow
  <2>4. ~Broken(i)'
    BY <2>1, <2>3, ClosedRow DEF Broken
  <2>5. CauseOf(i)'
    BY <2>2, <2>3, <2>4 DEF CauseOf
  <2>6. \A k \in Runs : lock = k => lock' = k \/ k = i
    BY <1>4 DEF End
  <2> QED
    BY <1>3, <2>5, <2>6 DEF CauseInv
<1>5. CASE /\ lock = "free" /\ lock' = i /\ UNCHANGED conn
           /\ \E d \in {"yes", "no"} : run' = [run EXCEPT ![i].stage = "locked", ![i].dry = d]
  <2>1. PICK d \in {"yes", "no"} : run' = [run EXCEPT ![i].stage = "locked", ![i].dry = d]
    BY <1>5
  <2>2. run'[i] = [run[i] EXCEPT !.stage = "locked", !.dry = d]
    BY <1>1, <2>1
  <2>3. run'[i].stage = "locked" /\ run'[i].broken = run[i].broken /\ run'[i].cut = run[i].cut
    BY <1>1, <2>2 DEF RunRow
  <2>4. CauseOf(i) /\ (Broken(i)' <=> Broken(i)) /\ "locked" \notin Writing
    BY <1>5, <2>3, Stages DEF CauseInv, Broken
  <2>5. CauseOf(i)'
    BY <1>2, <1>5, <2>3, <2>4 DEF CauseOf
  <2>6. \A k \in Runs : lock = k => lock' = k \/ k = i
    BY <1>1, <1>5
  <2> QED
    BY <1>3, <2>5, <2>6 DEF CauseInv
<1> QED
  BY <1>4, <1>5 DEF Begin

LEMMA EarlyCause ==
    ASSUME MigrationInv, CauseInv, NEW i \in Runs, Check(i) \/ LockSynapse(i)
    PROVE  CauseInv'
<1>1. run \in [Runs -> RunRow] /\ run[i] \in RunRow
  BY RowsOfRun
<1>2. Others(i) /\ run[i].stage \in Live /\ "checked" \in Live /\ "reading" \in Live
      /\ "checked" \notin Writing /\ "reading" \notin Writing
  BY OthersKept, Stages DEF Check, LockSynapse, StepOf
<1>3. CASE End(i, "refused")
  BY <1>2, <1>3, EndsFor DEF Ends
<1>4. CASE ~InProgress /\ rows # {} /\ End(i, "not_empty")
  <2>1. names = "own"
    BY <1>4 DEF InProgress, MigrationInv, MigrationTypes, SchemaInv
  <2>2. success # {}
    BY <1>4, <2>1 DEF MigrationInv, Whole
  <2> QED
    BY <1>2, <1>4, <2>2, EndsFor DEF Ends
<1>5. CASE \E k \in {"checked", "reading"} :
              run' = [run EXCEPT ![i].stage = k] /\ UNCHANGED <<lock, conn>>
  <2>1. PICK k \in {"checked", "reading"} : run' = [run EXCEPT ![i].stage = k]
    BY <1>5
  <2>2. run'[i] = [run[i] EXCEPT !.stage = k]
    BY <1>1, <2>1
  <2>3. run'[i].stage = k /\ run'[i].broken = run[i].broken /\ run'[i].cut = run[i].cut
    BY <1>1, <2>2 DEF RunRow
  <2>4. Broken(i)' <=> Broken(i)
    BY <1>5, <2>3 DEF Broken
  <2>5. UNCHANGED <<hit, stray, lock>>
    BY <1>5 DEF Check, LockSynapse, history
  <2> QED
    BY <1>2, <2>3, <2>4, <2>5, GoesOn
<1> QED
  BY <1>3, <1>4, <1>5 DEF Check, LockSynapse

LEMMA StartCause ==
    ASSUME MigrationInv, CauseInv, NEW i \in Runs, StartNew(i) \/ Resume(i)
    PROVE  CauseInv'
<1>1. /\ run \in [Runs -> RunRow] /\ run[i] \in RunRow
      /\ conn \in [Runs -> [Connections -> ConnRow]]
  BY RowsOfRun
<1>2. /\ Others(i) /\ run[i].stage = "reading" /\ lock = i /\ run[i].stage \in Live
      /\ UNCHANGED <<hit, stray>>
  BY OthersKept, Stages DEF StartNew, Resume, StepOf, history
<1>3. rows' = {}
  <2>1. StartNew(i) => rows = {}
    BY <1>2 DEF StartNew, MigrationInv, LockSound
  <2> QED
    BY <2>1 DEF StartNew, Resume
<1>4. ASSUME NEW s \in DropOrders, ~Droppable(s), StartNew(i) PROVE FALSE
  <2>1. constraints = Constraints
    BY <1>4 DEF StartNew, InProgress, MigrationInv, MigrationTypes, SchemaInv
  <2> QED
    BY <1>4, <2>1, SchemaDroppable
<1>5. PICK s : StartWriting(i, s)
  BY <1>4 DEF StartNew, Resume
<1>6. /\ run'[i] = [run[i] EXCEPT !.stage = "users", !.left = Read("users"), !.order = s]
      /\ conn'[i] = [c \in Connections |-> [Closed EXCEPT !.state = "ready"]] /\ lock' = lock
  BY <1>1, <1>5 DEF StartWriting
<1>7. run'[i].stage = "users" /\ run'[i].broken = run[i].broken /\ run'[i].cut = run[i].cut
  BY <1>1, <1>6 DEF RunRow
<1>8. Broken(i)' => Broken(i)
  BY <1>6, <1>7 DEF Broken, Closed
<1>9. "users" \in Live
  BY CopyingTables, Stages
<1> QED
  BY <1>2, <1>3, <1>6, <1>7, <1>8, <1>9, GoesOn

LEMMA CopyCause ==
    ASSUME MigrationInv, CauseInv, NEW i \in Runs, Migrate(i) \/ EndStage(i) \/ AllCommitted(i)
    PROVE  CauseInv'
<1>1. /\ run \in [Runs -> RunRow] /\ run[i] \in RunRow /\ HandSound(i)
      /\ conn \in [Runs -> [Connections -> ConnRow]]
  BY RowsOfRun
<1>2. Others(i) /\ CauseOf(i)
  BY OthersKept DEF StepOf, CauseInv
<1>3. ASSUME run[i].stage \in Writing, run'[i].stage \in Writing, UNCHANGED <<lock, conn, rows, hit, stray>>,
             run'[i].broken = run[i].broken, run'[i].cut = run[i].cut
      PROVE  CauseInv'
  <2>1. Broken(i)' <=> Broken(i)
    BY <1>3 DEF Broken
  <2>2. run[i].stage \in Live /\ run'[i].stage \in Live
    BY <1>3, Stages
  <2> QED
    BY <1>2, <1>3, <2>1, <2>2, GoesOn
<1>4. CASE Migrate(i)
  <2>1. PICK r \in run[i].left : \/ ~NobodysRow(r) /\ Ingest(i, r, NewRows(i, r))
                                 \/ MigrateFails(i, r)
    BY <1>4, MigrateMakes
  <2>2. run[i].stage \in Copying /\ Wanted(r) /\ r \in synapse
    BY <1>1, <2>1 DEF HandSound, RunRow
  <2>3. run[i].stage \in Writing /\ run[i].stage \in Live
    BY <2>2, Stages DEF Writing
  <2>4. CASE MigrateFails(i, r)
    <3>1. Cause(i) /\ End(i, "failed")
      BY <2>2, <2>4 DEF MigrateFails, Cause
    <3> QED
      BY <1>2, <2>3, <3>1, EndsFor DEF Ends
  <2>5. CASE Ingest(i, r, NewRows(i, r))
    <3> DEFINE N == NewRows(i, r)
    <3>1. run' = [run EXCEPT ![i].left = @ \ {r}, ![i].buffer = @ \cup N]
          /\ UNCHANGED <<lock, conn, rows, hit, stray>>
      BY <2>5 DEF Ingest, database, history
    <3> HIDE DEF N
    <3>2. run'[i] = [run[i] EXCEPT !.left = @ \ {r}, !.buffer = @ \cup N]
      BY <1>1, <3>1
    <3>3. run'[i].stage = run[i].stage /\ run'[i].broken = run[i].broken /\ run'[i].cut = run[i].cut
      BY <1>1, <3>2 DEF RunRow
    <3> QED
      BY <1>3, <2>3, <3>1, <3>3
  <2> QED
    BY <2>1, <2>4, <2>5
<1>5. CASE EndStage(i)
  <2>1. run[i].stage \in Copying /\ run[i].stage \in Writing /\ run[i].stage \in Live
    BY <1>5, Stages DEF EndStage, NoMoreRows, Writing
  <2>2. CASE run[i].cut = "yes" /\ End(i, "failed")
    <3>1. Cause(i)
      BY <1>2, <2>2 DEF CauseOf, Cause
    <3> QED
      BY <1>2, <2>1, <2>2, <3>1, EndsFor DEF Ends
  <2>3. CASE ~(run[i].cut = "yes" /\ End(i, "failed"))
    <3> DEFINE k == After[run[i].stage]
               L == IF k \in Copying THEN Read(k) ELSE {}
    <3>1. /\ run' = [run EXCEPT ![i].stage = After[@], ![i].left = L]
          /\ UNCHANGED <<lock, conn, rows, hit, stray>>
      BY <1>5, <2>3 DEF EndStage, database, history
    <3> HIDE DEF L
    <3>2. run'[i] = [run[i] EXCEPT !.stage = k, !.left = L]
      BY <1>1, <3>1
    <3>3. k \in Writing
      BY <2>1, AfterBefore DEF Writing
    <3> HIDE DEF k
    <3>4. run'[i].stage = k /\ run'[i].broken = run[i].broken /\ run'[i].cut = run[i].cut
      BY <1>1, <3>2 DEF RunRow
    <3> QED
      BY <1>3, <2>1, <3>1, <3>3, <3>4
  <2> QED
    BY <2>2, <2>3
<1>6. CASE AllCommitted(i)
  <2>1. run[i].stage = "committing" /\ run[i].stage \in Writing /\ "restoring" \in Writing
        /\ run[i].stage \in Live
    BY <1>6, Stages DEF AllCommitted, Writing
  <2>2. CASE run[i].broken = "yes" /\ End(i, "failed")
    <3>1. Cause(i)
      BY <1>2, <2>2 DEF CauseOf, Cause, Broken
    <3> QED
      BY <1>2, <2>1, <2>2, <3>1, EndsFor DEF Ends
  <2>3. CASE ~(run[i].broken = "yes" /\ End(i, "failed"))
    <3>1. run' = [run EXCEPT ![i].stage = "restoring"] /\ UNCHANGED <<lock, conn, rows, hit, stray>>
      BY <1>6, <2>3 DEF AllCommitted, database, history
    <3>2. run'[i] = [run[i] EXCEPT !.stage = "restoring"]
      BY <1>1, <3>1
    <3>3. run'[i].stage = "restoring" /\ run'[i].broken = run[i].broken /\ run'[i].cut = run[i].cut
      BY <1>1, <3>2 DEF RunRow
    <3> QED
      BY <1>3, <2>1, <3>1, <3>3
  <2> QED
    BY <2>2, <2>3
<1> QED
  BY <1>4, <1>5, <1>6

LEMMA FinishCause ==
    ASSUME MigrationInv, CauseInv, NEW i \in Runs, Finish(i)
    PROVE  CauseInv'
<1>1. /\ run \in [Runs -> RunRow] /\ run[i] \in RunRow /\ HandSound(i)
      /\ conn \in [Runs -> [Connections -> ConnRow]]
  BY RowsOfRun
<1>2. /\ Others(i) /\ CauseOf(i) /\ run[i].stage = "restoring" /\ lock = i
      /\ UNCHANGED <<hit, stray>> /\ run[i].stage \in Live /\ run[i].stage \in Writing
  BY OthersKept, Stages DEF StepOf, CauseInv, Finish, Writing
<1>3. CASE ~(Restorable(run[i].order) /\ Valid(rows)) /\ End(i, "failed")
  <2>1. Restorable(run[i].order)
    BY <1>2, WriterSchema, SchemaRestorable
  <2>2. stray # {}
    <3> SUFFICES ASSUME stray = {} PROVE FALSE
      OBVIOUS
    <3>1. \A x \in rows : x.by = i
      BY <1>2 DEF CauseOf
    <3>2. Copied(i) /\ synapse \in Databases /\ rows \subseteq AllMade
      BY <1>2, CopiedAll DEF MigrationInv, MigrationTypes
    <3>3. Valid(rows)
      BY <3>1, <3>2, RowsValid
    <3> QED
      BY <1>3, <2>1, <3>3
  <2>3. Cause(i)
    BY <2>2 DEF Cause
  <2> QED
    BY <1>2, <1>3, <2>3, EndsFor DEF Ends
<1>4. CASE run' = [run EXCEPT ![i] = [Idle EXCEPT !.stage = "unlocking"]] /\ UNCHANGED <<lock, conn>>
  <2>1. run'[i] = [Idle EXCEPT !.stage = "unlocking"] /\ conn'[i] = conn[i]
    BY <1>1, <1>4
  <2>2. "unlocking" \in Live /\ "unlocking" \notin Writing
    BY Stages
  <2>3. run'[i].stage = "unlocking" /\ run'[i].broken = "no" /\ run'[i].cut = "no"
    BY <2>1, <2>2, IdleRow
  <2>4. Broken(i)' => Broken(i)
    BY <2>1, <2>3 DEF Broken
  <2> QED
    BY <1>2, <1>4, <2>2, <2>3, <2>4, GoesOn
<1> QED
  BY <1>3, <1>4 DEF Finish

LEMMA LeaveCause ==
    ASSUME MigrationInv, CauseInv, NEW i \in Runs, Unlock(i) \/ LockGone(i) \/ Crash(i)
    PROVE  CauseInv'
<1>1. Others(i) /\ CauseOf(i) /\ run[i].stage \in Live
  BY OthersKept, Stages DEF StepOf, CauseInv, Unlock, LockGone, Crash
<1>2. CASE Unlock(i)
  BY <1>1, <1>2, EndsFor DEF Unlock, Ends
<1>3. CASE LockGone(i)
  <2>1. Cause(i)
    BY <1>1, <1>3 DEF LockGone, CauseOf, Cause
  <2> QED
    BY <1>1, <1>3, <2>1, EndsFor DEF LockGone, Ends
<1>4. CASE Crash(i)
  <2>1. Cause(i)'
    BY <1>4 DEF Crash, Fault, Cause
  <2> QED
    BY <1>1, <1>4, <2>1, EndsFor DEF Crash, Ends
<1> QED
  BY <1>2, <1>3, <1>4

LEMMA FaultCause ==
    ASSUME MigrationInv, CauseInv, NEW i \in Runs, ReaderFails(i) \/ LoseLock(i)
    PROVE  CauseInv'
<1>1. run \in [Runs -> RunRow] /\ run[i] \in RunRow
  BY RowsOfRun
<1>2. Others(i) /\ CauseOf(i) /\ run[i].stage \in Live /\ UNCHANGED rows
  BY OthersKept, Stages DEF StepOf, CauseInv, ReaderFails, LoseLock, Fault, database
<1>3. CASE ReaderFails(i)
  <2>1. run'[i] = [run[i] EXCEPT !.cut = "yes"] /\ i \in hit' /\ lock' = lock
    BY <1>1, <1>3 DEF ReaderFails, Fault
  <2>2. run'[i].stage = run[i].stage
    BY <1>1, <2>1 DEF RunRow
  <2> QED
    BY <1>2, <2>1, <2>2, GoesOn
<1>4. CASE LoseLock(i)
  <2>1. stray' # {} /\ run' = run
    BY <1>4 DEF LoseLock
  <2> QED
    BY <1>2, <2>1, GoesOn
<1> QED
  BY <1>3, <1>4

LEMMA FlushCause ==
    ASSUME MigrationInv, CauseInv, NEW i \in Runs, NEW t \in MasTables, Flush(i, t)
    PROVE  CauseInv'
<1>1. /\ run \in [Runs -> RunRow] /\ run[i] \in RunRow /\ HandSound(i)
      /\ conn \in [Runs -> [Connections -> ConnRow]]
  BY RowsOfRun
<1>2. Others(i) /\ CauseOf(i) /\ UNCHANGED <<rows, hit, stray>>
  BY OthersKept DEF StepOf, CauseInv, Flush, database, history
<1>3. run[i].stage \in Copying /\ run[i].stage \in Live /\ run[i].stage \in Writing
  <2>1. run[i].buffer # {}
    BY DEF Flush, Buffered
  <2>2. run[i].stage \in Copying
    BY <1>1, <2>1 DEF HandSound
  <2> QED
    BY <2>2, Stages DEF Writing
<1>4. ASSUME NEW c \in Connections, conn[i][c].state = "error", End(i, "failed")
      PROVE  CauseInv'
  <2>1. Cause(i)
    BY <1>2, <1>4 DEF CauseOf, Broken, Cause
  <2> QED
    BY <1>2, <1>3, <1>4, <2>1, EndsFor DEF Ends
<1>5. ASSUME NEW c \in Connections, UNCHANGED lock,
             conn' = [conn EXCEPT ![i][c].state = "writing", ![i][c].batch = Buffered(i, t)],
             run' = [run EXCEPT ![i].buffer = @ \ Buffered(i, t)]
      PROVE  CauseInv'
  <2> DEFINE B == Buffered(i, t)
  <2>1. run'[i] = [run[i] EXCEPT !.buffer = @ \ B]
    BY <1>1, <1>5
  <2>2. conn'[i] = [conn[i] EXCEPT ![c] = [conn[i][c] EXCEPT !.state = "writing", !.batch = B]]
    BY <1>1, <1>5
  <2> HIDE DEF B
  <2>3. run'[i].stage = run[i].stage /\ run'[i].broken = run[i].broken /\ run'[i].cut = run[i].cut
    BY <1>1, <2>1 DEF RunRow
  <2>4. \A d \in Connections : conn'[i][d].state = "error" => conn[i][d].state = "error"
    BY <1>1, <2>2 DEF ConnRow
  <2>5. Broken(i)' => Broken(i)
    BY <2>3, <2>4 DEF Broken
  <2> QED
    BY <1>2, <1>3, <1>5, <2>3, <2>5, GoesOn
<1> QED
  BY <1>4, <1>5 DEF Flush

LEMMA WriteCause ==
    ASSUME MigrationInv, CauseInv, NEW i \in Runs, NEW c \in Connections,
           WriteBatch(i, c) \/ WriteFails(i, c)
    PROVE  CauseInv'
<1>1. conn \in [Runs -> [Connections -> ConnRow]] /\ HandSound(i)
  BY RowsOfRun
<1>2. Others(i) /\ CauseOf(i) /\ UNCHANGED <<lock, run, rows, stray>>
  BY OthersKept DEF StepOf, CauseInv, WriteBatch, WriteFails, Fault, database, history
<1>3. run[i].stage \in Live /\ run[i].stage \in Writing
  <2>1. run[i].stage \in Copying \cup {"committing"}
    BY <1>1 DEF HandSound, WriteBatch, WriteFails
  <2> QED
    BY <2>1, Stages DEF Writing
<1>4. CASE WriteFails(i, c)
  <2>1. i \in hit'
    BY <1>4 DEF WriteFails, Fault
  <2> QED
    BY <1>2, <1>3, <2>1, GoesOn
<1>5. CASE WriteBatch(i, c)
  <2>1. UNCHANGED hit
    BY <1>5 DEF WriteBatch, history
  <2>2. CASE names = "own"
    <3>1. stray # {}
      BY <1>2, <1>3, <2>2, WriterSchema DEF CauseOf
    <3> QED
      BY <1>2, <1>3, <3>1, GoesOn
  <2>3. CASE names # "own"
    <3>1. conn' = [conn EXCEPT ![i][c] =
                      [state |-> "ready", batch |-> {}, rows |-> @.rows \cup @.batch]]
      BY <1>5, <2>3 DEF WriteBatch
    <3>2. \A d \in Connections : conn'[i][d].state = "error" => conn[i][d].state = "error"
      BY <1>1, <3>1
    <3>3. Broken(i)' => Broken(i)
      BY <1>2, <3>2 DEF Broken
    <3> QED
      BY <1>2, <1>3, <2>1, <3>3, GoesOn
  <2> QED
    BY <2>2, <2>3
<1> QED
  BY <1>4, <1>5

LEMMA CommitCause ==
    ASSUME MigrationInv, CauseInv, NEW i \in Runs, NEW c \in Connections,
           CommitWriter(i, c) \/ CommitFails(i, c)
    PROVE  CauseInv'
<1>1. /\ run \in [Runs -> RunRow] /\ run[i] \in RunRow /\ HandSound(i)
      /\ conn \in [Runs -> [Connections -> ConnRow]]
  BY RowsOfRun
<1>2. /\ Others(i) /\ CauseOf(i) /\ UNCHANGED <<lock, stray>> /\ run[i].stage = "committing"
      /\ run[i].stage \in Live /\ run[i].stage \in Writing
  BY OthersKept, Stages DEF StepOf, CauseInv, CommitWriter, CommitFails, history, Writing
<1>3. PICK k : run' = [run EXCEPT ![i].broken = k]
  BY DEF CommitWriter, CommitFails
<1>4. run'[i] = [run[i] EXCEPT !.broken = k]
  BY <1>1, <1>3
<1>5. run'[i].stage = run[i].stage /\ run'[i].cut = run[i].cut /\ run'[i].broken = k
  BY <1>1, <1>4 DEF RunRow
<1>6. CASE CommitFails(i, c)
  <2>1. i \in hit' /\ UNCHANGED rows
    BY <1>6 DEF CommitFails, database
  <2> QED
    BY <1>2, <1>5, <2>1, GoesOn
<1>7. CASE CommitWriter(i, c)
  <2>1. /\ UNCHANGED hit /\ rows' = rows \cup conn[i][c].rows
        /\ conn' = [conn EXCEPT ![i][c] = Closed]
    BY <1>7 DEF CommitWriter, history
  <2>2. run'[i].broken = "yes" => Broken(i)
    BY <1>1, <1>7 DEF CommitWriter, Broken
  <2>3. \A d \in Connections : conn'[i][d].state = "error" => conn[i][d].state = "error"
    BY <1>1, <2>1, ClosedRow
  <2>4. Broken(i)' => Broken(i)
    BY <2>2, <2>3 DEF Broken
  <2>5. \A x \in conn[i][c].rows : x.by = i
    BY <1>1 DEF HandSound, InHand
  <2> QED
    BY <1>2, <1>5, <2>1, <2>4, <2>5, GoesOn
<1> QED
  BY <1>6, <1>7

LEMMA CauseNext ==
    ASSUME MigrationInv, CauseInv, [Next]_vars
    PROVE  CauseInv'
<1>1. CASE UNCHANGED vars
  <2>1. UNCHANGED <<synapse, rows, lock, run, conn, success, hit, stray>>
    BY <1>1 DEF vars, database, history
  <2>2. \A i : (Broken(i)' <=> Broken(i)) /\ (Cause(i)' <=> Cause(i))
    BY <2>1, SourceStays DEF Broken, Cause, SameSource
  <2> QED
    BY <2>1, <2>2 DEF CauseInv, CauseOf
<1>2. ASSUME NEW i \in Runs, StepOf(i) PROVE CauseInv'
  <2>1. CASE Begin(i) \/ Check(i) \/ LockSynapse(i) \/ StartNew(i) \/ Resume(i) \/ Migrate(i)
             \/ EndStage(i) \/ AllCommitted(i)
    BY <2>1, BeginCause, EarlyCause, StartCause, CopyCause
  <2>2. CASE Finish(i) \/ Unlock(i) \/ ReaderFails(i) \/ LoseLock(i) \/ LockGone(i) \/ Crash(i)
    BY <2>2, FinishCause, LeaveCause, FaultCause
  <2>3. CASE \E t \in MasTables : Flush(i, t)
    BY <2>3, FlushCause
  <2>4. CASE \E c \in Connections :
               WriteBatch(i, c) \/ CommitWriter(i, c) \/ CommitFails(i, c) \/ WriteFails(i, c)
    BY <2>4, WriteCause, CommitCause
  <2> QED
    BY <1>2, <2>1, <2>2, <2>3, <2>4 DEF StepOf
<1> QED
  BY <1>1, <1>2 DEF Next, StepOf, Finished

\* A run fails only when a fault hits it, when some run has lost the lock, or for a row of
\* nobody in Synapse's tables, and it finds the tables filled only after a success: what
\* runs leave behind, at whatever point they end, does not make a later one fail.
THEOREM FailuresHaveCauses == Spec => []FailsForACause
<1>1. Init => CauseInv
  <2>1. ASSUME Init, NEW i \in Runs PROVE CauseOf(i)
    <3>1. run[i] = Idle /\ \A c \in Connections : conn[i][c] = Closed
      BY <2>1 DEF Init
    <3>2. run[i].stage = "idle" /\ run[i].broken = "no" /\ run[i].cut = "no"
      BY <3>1 DEF Idle
    <3>3. ~Broken(i)
      BY <3>1, <3>2, ClosedRow DEF Broken
    <3>4. "idle" \notin Live /\ "idle" \notin Writing
      BY Stages DEF Ends
    <3> QED
      BY <3>2, <3>3, <3>4 DEF CauseOf
  <2> QED
    BY <2>1 DEF CauseInv
<1>2. MigrationInv /\ CauseInv /\ [Next]_vars => CauseInv'
  BY CauseNext
<1>3. CauseInv => FailsForACause
  BY DEF CauseInv, CauseOf, Cause, FailsForACause
<1> QED
  BY <1>1, <1>2, <1>3, MigrationInvariant, PTL DEF Spec
=============================================================================
