---------------------------- MODULE Registration ----------------------------
(***************************************************************************)
(* Registration of users (crates/handlers/src/views/register,              *)
(* crates/storage-pg/src/user/registration.rs and registration_token.rs),  *)
(* beside the upstream logins it may come from.  A registration is a row   *)
(* that the browser completes step by step; finish.rs checks it again and  *)
(* turns it into a user.  finish.rs reads at READ COMMITTED: each of its   *)
(* checks is a step, and its writes are the last one.                      *)
(***************************************************************************)
EXTENDS UpstreamLogin

CONSTANTS
    Regs,            \* registrations
    Emails,
    EmailOf,         \* the address the provider claims for each upstream account, or "none"
    Sites            \* configurations, each with the users there from the start and the
                     \* limit of the one registration token

\* The settings that say whether a registration needs a token: for all, for the ones by
\* password, for the ones through the provider.
TokenSettings == {"token", "passwordToken", "providerToken"}

\* Registration by password, with an address or without one, an upstream provider,
\* changes of address and recovery of accounts.
Settings == {"registration", "address", "upstream", "email", "recovery"} \cup TokenSettings

ASSUME RegistrationAssumption ==
    /\ Sites \subseteq (SUBSET Settings) \X (SUBSET Names) \X Nat
    /\ "none" \notin Emails
    /\ \A l \in Links : EmailOf[SubjectOf[l]] \in Emails \cup {"none"}

VARIABLES
    config,          \* SiteConfig, which stays
    reg,             \* each registration
    verified,        \* registrations whose email authentication is completed
    emails,          \* the addresses of each user
    passwords,       \* users with a password
    used, limit,     \* the registration token
    revoked,
    doing, snap,     \* the registration each request finishes, and its row when loaded
    orphaned         \* (history) registrations that lost their upstream session

token == <<used, limit, revoked>>
accounts == <<emails, passwords>>
finishing == <<doing, snap>>
regVars == <<config, reg, verified, accounts, token, finishing, orphaned>>
vars == <<upstreamVars, regVars>>

-----------------------------------------------------------------------------
NoReg == [state |-> "none", name |-> "none", browser |-> "none", email |-> "none",
          session |-> 0, password |-> "no", token |-> "no", display |-> "no"]

Init ==
    /\ UpstreamInit
    /\ \E s \in Sites : config = s[1] /\ users = s[2] /\ limit = s[3]
    /\ reg = [g \in Regs |-> NoReg]
    /\ verified = {} /\ orphaned = {}
    /\ emails = [u \in Names |-> {}]
    /\ passwords = users
    /\ used = 0 /\ revoked = "no"
    /\ doing = [r \in Requests |-> "none"]
    /\ snap = [r \in Requests |-> NoReg]

\* register/password.rs post: the form is valid, the name does not exist.  An address is
\* asked for and kept only where one is required.
RegisterPassword(g, b, n, e) ==
    /\ "registration" \in config /\ (e = "none" <=> "address" \notin config)
    /\ reg[g].state = "none" /\ ~Exists(n)
    /\ reg' = [reg EXCEPT ![g] = [NoReg EXCEPT !.state = "open", !.name = n, !.browser = b,
                                               !.email = e, !.password = "yes"]]
    /\ UNCHANGED <<upstreamVars, config, verified, accounts, token, finishing, orphaned>>

\* link.rs get with skip_confirmation, or post with the form Register: nobody is logged
\* in, the link is free and the name does not exist (prepare_user_registration).  The
\* session is not consumed, and an address the provider gives is verified.
RegisterUpstream(r, g, n, e, d) ==
    /\ req[r].step = "loaded" /\ req[r].login = 0 /\ req[r].owner = "free"
    /\ OnConflict = "suggest" \/ n = NameOf[SubjectOf[req[r].link]]
    /\ e \in {"none", EmailOf[SubjectOf[req[r].link]]}
    /\ reg[g].state = "none" /\ ~Exists(n)
    /\ "added" \in marks[req[r].session]
    /\ reg' = [reg EXCEPT ![g] =
           [NoReg EXCEPT !.state = "open", !.name = n, !.browser = req[r].browser,
                         !.email = e, !.session = req[r].session, !.display = d]]
    /\ verified' = IF e = "none" THEN verified ELSE verified \cup {g}
    /\ Answer(r, consume_link(req[r].jar, req[r].link), at[req[r].browser])
    /\ UNCHANGED <<users, call, link, sessions, logins, config, accounts, token, finishing, orphaned>>

\* steps/verify_email.rs post, with the right code.
VerifyEmail(g) ==
    /\ reg[g].state = "open" /\ reg[g].email # "none" /\ g \notin verified
    /\ verified' = verified \cup {g}
    /\ UNCHANGED <<upstreamVars, config, reg, accounts, token, finishing, orphaned>>

\* UserRegistrationToken::is_valid.
TokenValid == revoked = "no" /\ used < limit

\* steps/registration_token.rs post.
SetToken(g) ==
    /\ reg[g].state = "open" /\ TokenValid
    /\ reg' = [reg EXCEPT ![g].token = "yes"]
    /\ UNCHANGED <<upstreamVars, config, verified, accounts, token, finishing, orphaned>>

\* steps/display_name.rs post.
SetDisplayName(g) ==
    /\ reg[g].state = "open"
    /\ reg' = [reg EXCEPT ![g].display = "yes"]
    /\ UNCHANGED <<upstreamVars, config, verified, accounts, token, finishing, orphaned>>

\* user_registration_tokens/{revoke,unrevoke}.rs, where registration tokens are in use.
SetRevoked(v) ==
    /\ config \cap TokenSettings # {} /\ revoked # v
    /\ revoked' = v
    /\ UNCHANGED <<upstreamVars, config, reg, verified, accounts, used, limit, finishing, orphaned>>

\* The clean-up of links, and what it does to registrations: the column that names a
\* session that is deleted becomes NULL (ON DELETE SET NULL).
Cleanup(l) ==
    LET Hit == {g \in Regs : reg[g].session \in Orphans(l)} IN
    /\ CleanupLink(l)
    /\ reg' = [g \in Regs |-> IF g \in Hit THEN [reg[g] EXCEPT !.session = 0] ELSE reg[g]]
    /\ orphaned' = orphaned \cup Hit
    /\ UNCHANGED <<config, verified, accounts, token, finishing>>

-----------------------------------------------------------------------------
(* finish.rs get.                                                          *)

\* One check of the request r: from the step a to the step b of the handler.
Check(r, a, b, ok) ==
    /\ req[r].step = a /\ ok
    /\ req' = [req EXCEPT ![r].step = b]
    /\ UNCHANGED <<users, call, link, sessions, logins, cookies, regVars>>

\* The registration is loaded: it is open, and the browser's.
Finish(r, g) ==
    /\ req[r].step = "idle" /\ reg[g].state = "open"
    /\ req' = [req EXCEPT ![r] = [Idle EXCEPT !.step = "name", !.browser = reg[g].browser]]
    /\ doing' = [doing EXCEPT ![r] = g]
    /\ snap' = [snap EXCEPT ![r] = reg[g]]
    /\ UNCHANGED <<users, call, link, sessions, logins, cookies, config, reg, verified, accounts,
                   token, orphaned>>

\* The request is over.
Done(r) ==
    /\ doing' = [doing EXCEPT ![r] = "none"]
    /\ snap' = [snap EXCEPT ![r] = NoReg]

\* A check fails, an error, or a page of another request.
Abandon(r) ==
    /\ Drop(r) /\ Done(r)
    /\ UNCHANGED <<config, reg, verified, accounts, token, orphaned>>

\* Mutant of CheckName: only the exact name counts.
CheckName_Exact(r) == Check(r, "name", "token", snap[r].name \notin users)

\* The name is free (the homeserver may refuse it as well: Drop).
CheckName(r) == Check(r, "name", "token", ~Exists(snap[r].name))

\* Whether the registration of the row g needs a token.
TokenRequired(g) ==
    config \cap {"token", IF g.session # 0 THEN "providerToken" ELSE "passwordToken"} # {}

\* Mutant of CheckToken: the limit was checked when the token was entered.
CheckToken_Entered(r) ==
    Check(r, "token", "email", TokenRequired(snap[r]) => snap[r].token = "yes" /\ revoked = "no")

\* A token that is required was entered and is valid still.
CheckToken(r) ==
    Check(r, "token", "email", TokenRequired(snap[r]) => snap[r].token = "yes" /\ TokenValid)

\* The address is verified, and nobody has it.
CheckEmail(r) ==
    Check(r, "email", "upstream",
          snap[r].email # "none" => /\ doing[r] \in verified
                                    /\ \A u \in users : snap[r].email \notin emails[u])

\* The request r keeps the upstream session and the link it has loaded, if any.
Keep(r) ==
    LET s == snap[r].session IN
    /\ req' = [req EXCEPT ![r].step = "write",
                          ![r].link = IF s = 0 THEN "none" ELSE linkOf[s],
                          ![r].owner = IF s = 0 THEN "none" ELSE link[linkOf[s]]]
    /\ UNCHANGED <<users, call, link, sessions, logins, cookies, regVars>>

\* The upstream session is there and not consumed, and its link has no user.
CheckUpstream(r) ==
    LET s == snap[r].session IN
    /\ req[r].step = "upstream"
    /\ s # 0 => /\ Readable(s) /\ linkOf[s] # "none"
                /\ "consumed" \notin marks[s]
                /\ link[linkOf[s]] = "free"
    /\ Keep(r)

\* Mutant of Adopt: the upstream account is not associated.
Adopt_Unlinked(r, i) ==
    IF snap[r].session = 0
    THEN UNCHANGED <<link, sessions, auth>>
    ELSE consume(snap[r].session, i) /\ UNCHANGED link

\* The part of the upstream session in the commit, for the new browser session i.  The
\* link is the one that was checked, whether it is there still or not.
Adopt(r, i) ==
    IF snap[r].session = 0
    THEN UNCHANGED <<link, sessions, auth>>
    ELSE /\ consume(snap[r].session, i)
         /\ associate_to_user(req[r].link, snap[r].name)

\* UserRepository::add: nothing is inserted on a conflict of names, which is an error.
AddUser(n) == n \notin users /\ users' = users \cup {n}

\* The writes, in one transaction: the registration is completed, the token used, the
\* user added (its name is unique in the database), logged in, given its address, its
\* password and its upstream account.
Write(r, i) ==
    LET g == doing[r]   n == snap[r].name IN
    /\ req[r].step = "write" /\ snap[r].display = "yes"
    /\ reg[g].state = "open"
    /\ TokenRequired(snap[r]) => revoked = "no"
    /\ reg' = [reg EXCEPT ![g].state = "done"]
    /\ used' = IF TokenRequired(snap[r]) THEN used + 1 ELSE used
    /\ AddUser(n)
    /\ NewLogin(i, n)
    /\ emails' = [emails EXCEPT ![n] = {snap[r].email} \ {"none"}]
    /\ passwords' = IF snap[r].password = "yes" THEN passwords \cup {n} ELSE passwords
    /\ Adopt(r, i)
    /\ Answer(r, jar[req[r].browser], i) /\ Done(r)
    /\ UNCHANGED <<call, config, verified, limit, revoked, orphaned>>

Next ==
    \/ "upstream" \in config /\ UpstreamNext /\ UNCHANGED regVars
    \/ \E b \in Browsers :
          \/ Logout(b) /\ UNCHANGED regVars
          \/ \E u \in passwords, i \in Logins : PasswordLogin(b, u, i) /\ UNCHANGED regVars
    \/ \E g \in Regs :
          \/ VerifyEmail(g) \/ SetToken(g) \/ SetDisplayName(g)
          \/ \E n \in Names, e \in Emails \cup {"none"} :
                \/ \E b \in Browsers : RegisterPassword(g, b, n, e)
                \/ \E r \in Requests, d \in {"yes", "no"} : RegisterUpstream(r, g, n, e, d)
          \/ \E r \in Requests : Finish(r, g)
    \/ \E v \in {"yes", "no"} : SetRevoked(v)
    \/ \E l \in Links : Cleanup(l)
    \/ \E r \in Requests :
          \/ Abandon(r)
          \/ CheckName(r) \/ CheckToken(r) \/ CheckEmail(r) \/ CheckUpstream(r)
          \/ \E i \in Logins : Write(r, i)

Spec == Init /\ [][Next]_vars

-----------------------------------------------------------------------------
(* Properties.                                                             *)

\* Types of the rows that the registration writes.
TypeOK ==
    /\ users \subseteq Names /\ passwords \subseteq users
    /\ link \in [Links -> {"none", "gone", "free"} \cup users]
    /\ owner \in [Logins -> users \cup {"none"}]
    /\ live \subseteq {i \in Logins : owner[i] # "none"}
    /\ auth \subseteq Logins \X Sessions
    /\ emails \in [Names -> SUBSET Emails]
    /\ used \in 0..Cardinality(Regs)

\* No two users have names that differ in case only (the last minute check of finish.rs
\* and the forms; the unique constraint compares exactly).
NamesDistinct == \A u, v \in users : Fold[u] = Fold[v] => u = v

\* The registration token is not used more often than its limit allows (is_valid), even
\* though every registration checks the limit when the token is entered.
LimitKept == used <= limit

\* The request r creates the user u, and the link that it had checked was removed since.
Unlinked(r, u) ==
    req[r].step = "write" /\ snap[r].name = u /\ req[r].link \in Links /\ link[req[r].link] = "gone"

\* A user that finish.rs creates can log in again, with a password or an upstream
\* account, whatever other requests do meanwhile, unless the clean-up took the upstream
\* session of its registration, or the link was removed between the check and the writes.
Credentials ==
    [][\A u \in users' \ users :
          \/ u \in passwords' \/ \E l \in Links : link'[l] = u
          \/ \E g \in orphaned : reg[g].name = u
          \/ \E r \in Requests : Unlinked(r, u)]_vars

\* The same without the exception: "check it is still valid and wasn't linked to a user
\* in the meantime" (finish.rs).
CredentialsRegardless ==
    [][\A u \in users' \ users :
          u \in passwords' \/ \E l \in Links : link'[l] = u]_vars

=============================================================================
