----------------------------- MODULE MCMigration -----------------------------
(* An instance of Migration for TLC.                                       *)
EXTENDS Migration, TLC

Row(t, id, u, d, k) == [table |-> t, id |-> id, user |-> u, device |-> d, kind |-> k]

User(u, k) == Row("users", u, u, "none", k)

\* A device with a pair of tokens; the pair before it, and a token of a device that is gone.
Pairs ==
    {User("alice", "plain"), Row("devices", "D1", "alice", "D1", "shown"),
     Row("access_tokens", "gone", "alice", "D9", "plain"),
     Row("refresh_tokens", "pair", "alice", "D1", "current"),
     Row("refresh_tokens", "spent", "alice", "D1", "obsolete")}

\* A full batch of users, one of them deactivated, with a password.
Batch == {User("alice", "plain"), User("bob", "deactivated"), Row("devices", "D2", "bob", "D2", "shown")}

\* A token without device.
Deviceless == {User("alice", "plain"), Row("access_tokens", "old", "alice", "none", "plain")}

\* A guest, who has a link; a user of an application service; and one whose
\* name is not valid, who is ignored.
Guests ==
    {User("carol", "guest"), User("bot", "appservice"), User("bad", "invalid"),
     Row("external_ids", "link", "carol", "none", "mapped"), Row("threepids", "phone", "bot", "none", "msisdn"),
     Row("devices", "keys", "carol", "keys", "hidden")}

\* An address.
Mails == {User("alice", "plain"), Row("threepids", "mail", "alice", "none", "email")}

\* A device of a user who is not there; a provider that was to be ignored.
Orphans ==
    {User("alice", "plain"), Row("external_ids", "link", "alice", "none", "ignored"),
     Row("devices", "D4", "ghost", "D4", "shown")}

\* A provider that the configuration does not map.
Unmapped == {User("alice", "plain"), Row("external_ids", "link", "alice", "none", "unmapped")}

MCDatabases == {Pairs, Batch, Deviceless, Guests, Mails, Orphans, Unmapped}

MCTables == <<"users", "user_passwords", "user_emails", "user_unsupported_third_party_ids", "upstream_oauth_links",
              "compat_sessions", "compat_access_tokens", "compat_refresh_tokens">>

Key(t) == [name |-> "key", on |-> t, kind |-> "p", to |-> "none"]
Foreign(t, u) == [name |-> "fkey", on |-> t, kind |-> "f", to |-> u]

\* A part of the schema: a chain of references that begins outside of the affected
\* tables, and a table that is not affected.
MCConstraints ==
    {Key("users"), Key("compat_sessions"), Key("user_sessions"),
     Foreign("compat_sessions", "users"), Foreign("compat_sso_logins", "compat_sessions")}

Symmetry == Permutations(Runs) \cup Permutations(Connections)
=============================================================================
