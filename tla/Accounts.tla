------------------------------ MODULE Accounts ------------------------------
(***************************************************************************)
(* Addresses and recovery of accounts, beside the registrations that give  *)
(* accounts their first address: the GraphQL mutations of user_email.rs    *)
(* and user.rs, the admin API and the command line, the forms of           *)
(* views/recovery, and the jobs that send codes and links.                 *)
(*                                                                         *)
(* Expiry only makes a step impossible; codes that have expired are not    *)
(* told apart, tickets are, because a link that has expired can still be   *)
(* sent again.                                                             *)
(***************************************************************************)
EXTENDS Registration

CONSTANTS
    Auths,         \* email authentications of logged-in users
    Recoveries     \* recovery sessions

ASSUME AccountsAssumption == Auths \cap Recoveries = {}

VARIABLES
    proof,         \* each email authentication
    codes,         \* the ones that have a code
    recovery,      \* each recovery session
    tickets,       \* rows: a recovery session, the user of the address, fresh or expired
    queued,        \* whose codes or links a queued job will send
    sending,       \* recovery sessions whose job has checked that they are open
    forced,        \* (history) addresses given to a user although others may have them
    added,         \* (history) how often each authentication added its address
    sent,          \* (history) for whom each recovery session sent a link
    reset          \* (history) the users whose password each recovery session set

mails == <<codes, tickets, queued, sending>>
accountHistory == <<forced, added, sent, reset>>
accountVars == <<proof, recovery, mails, accountHistory>>
rows == <<users, call, link, sessions, logins, cookies, config, reg, verified, token, finishing,
          orphaned>>
allVars == <<vars, accountVars>>

-----------------------------------------------------------------------------
AccountsInit ==
    /\ Init
    /\ proof = [a \in Auths |-> [state |-> "none", email |-> "none", login |-> 0]]
    /\ recovery = [s \in Recoveries |-> [state |-> "none", email |-> "none"]]
    /\ codes = {} /\ tickets = {} /\ queued = {} /\ sending = {}
    /\ forced = {} /\ sent = {}
    /\ added = [a \in Auths |-> 0]
    /\ reset = [s \in Recoveries |-> <<>>]

Uses(e) == {u \in users : e \in emails[u]}

\* The tickets that go when the addresses E of the user u are deleted (ON DELETE CASCADE).
Lost(u, E) == {t \in tickets : t[2] = u /\ recovery[t[1]].email \in E}

-----------------------------------------------------------------------------
(* Email authentication.                                                   *)

\* start_email_authentication, by the user who is logged in.
StartEmail(b, a, e) ==
    /\ "email" \in config
    /\ ActiveLogin(b) # 0 /\ proof[a].state = "none"
    /\ e \notin emails[owner[ActiveLogin(b)]]
    /\ proof' = [proof EXCEPT ![a] = [state |-> "open", email |-> e, login |-> ActiveLogin(b)]]
    /\ queued' = queued \cup {a}
    /\ UNCHANGED <<vars, recovery, codes, tickets, sending, accountHistory>>

\* resend_email_authentication_code.
ResendCode(b, a) ==
    /\ proof[a].state = "open" /\ proof[a].login = ActiveLogin(b)
    /\ queued' = queued \cup {a}
    /\ UNCHANGED <<vars, proof, recovery, codes, tickets, sending, accountHistory>>

\* SendEmailAuthenticationCodeJob: a failure to send or to save is final.
SendCode(a) ==
    /\ a \in queued
    /\ queued' = queued \ {a}
    /\ codes' \in IF proof[a].state = "open" THEN {codes, codes \cup {a}} ELSE {codes}
    /\ UNCHANGED <<vars, proof, recovery, tickets, sending, accountHistory>>

\* complete_email_authentication, with a right code: the authentication is the browser
\* session's.  Whether it is completed is not checked here.
LoadProof(r, b, a) ==
    /\ req[r].step = "idle"
    /\ a \in codes /\ proof[a].login = ActiveLogin(b)
    /\ req' = [req EXCEPT ![r] = [Idle EXCEPT !.step = "complete", !.item = a]]
    /\ UNCHANGED <<rows, accounts, accountVars>>

\* Mutant of NotCompleted: the UPDATE is by id.
NotCompleted_Any(a) == proof[a].state # "gone"

\* complete_authentication_with_code: "in case they haven't, the update will not affect
\* any rows, which will raise an error".
NotCompleted(a) == proof[a].state = "open"

\* Mutant of CountAddress: only the user's own addresses count, as at the start.
CountAddress_Own(r) ==
    LET p == proof[req[r].item] IN
    /\ req[r].step = "complete" /\ NotCompleted(req[r].item)
    /\ req' = [req EXCEPT ![r].step =
                  IF owner[p.login] \in Uses(p.email) THEN "inUse" ELSE "unused"]
    /\ UNCHANGED <<rows, accounts, accountVars>>

\* "Check the email is not already in use by anyone, including the current user".
CountAddress(r) ==
    /\ req[r].step = "complete" /\ NotCompleted(req[r].item)
    /\ req' = [req EXCEPT ![r].step =
                  IF Uses(proof[req[r].item].email) # {} THEN "inUse" ELSE "unused"]
    /\ UNCHANGED <<rows, accounts, accountVars>>

\* The commit: the authentication is completed in either case.
SaveProof(r) ==
    LET a == req[r].item   u == owner[proof[a].login] IN
    /\ req[r].step \in {"inUse", "unused"} /\ NotCompleted(a)
    /\ proof' = [proof EXCEPT ![a].state = "completed"]
    /\ IF req[r].step = "inUse"
       THEN UNCHANGED <<emails, added>>
       ELSE /\ emails' = [emails EXCEPT ![u] = @ \cup {proof[a].email}]
            /\ added' = [added EXCEPT ![a] = @ + 1]
    /\ req' = [req EXCEPT ![r] = Idle]
    /\ UNCHANGED <<rows, passwords, recovery, mails, forced, sent, reset>>

\* CleanupUserEmailAuthenticationsJob.
CleanupProof(a) ==
    /\ proof[a].state \in {"open", "completed"}
    /\ proof' = [proof EXCEPT ![a].state = "gone"]
    /\ codes' = codes \ {a}
    /\ UNCHANGED <<vars, recovery, tickets, queued, sending, accountHistory>>

-----------------------------------------------------------------------------
(* Addresses given and taken away.                                         *)

\* admin/v1/user_emails/add.rs: nobody may have the address ...
AdminAddEmail(r, u, e) ==
    /\ req[r].step = "idle" /\ u \in users /\ Uses(e) = {}
    /\ req' = [req EXCEPT ![r] = [Idle EXCEPT !.step = "address", !.user = u, !.item = e]]
    /\ UNCHANGED <<rows, accounts, accountVars>>

\* ... when it is looked for.
AdminSaveEmail(r) ==
    /\ req[r].step = "address"
    /\ emails' = [emails EXCEPT ![req[r].user] = @ \cup {req[r].item}]
    /\ req' = [req EXCEPT ![r] = Idle]
    /\ UNCHANGED <<rows, passwords, accountVars>>

\* The user gets the address, whoever else has it.
Give(u, e) ==
    /\ u \in users /\ e \notin emails[u]
    /\ emails' = [emails EXCEPT ![u] = @ \cup {e}]
    /\ forced' = forced \cup {<<u, e>>}
    /\ UNCHANGED <<rows, req, passwords, proof, recovery, mails, added, sent, reset>>

\* add_email of GraphQL and "manage add-email" look at the addresses of the user only.
AddEmail(u, e) == Give(u, e)
CliAddEmail(u, e) == Give(u, e)

\* The addresses E of u are deleted, and their tickets.
Remove(u, E) ==
    /\ E # {} /\ E \subseteq emails[u]
    /\ emails' = [emails EXCEPT ![u] = @ \ E]
    /\ tickets' = tickets \ Lost(u, E)
    /\ forced' = forced \ ({u} \X E)
    /\ UNCHANGED <<rows, req, passwords, proof, recovery, codes, queued, sending,
                   added, sent, reset>>

\* remove_email of GraphQL, and admin/v1/user_emails/delete.rs.
RemoveEmail(u, e) == Remove(u, {e})
AdminRemoveEmail(u, e) == Remove(u, {e})

\* DeactivateUserJob removes them all.
RemoveEmails(u) == Remove(u, emails[u])

\* UserPasswordRepository::add: the latest password of the user counts.
AddPassword(u) ==
    /\ u \in users
    /\ passwords' = passwords \cup {u}
    /\ UNCHANGED <<rows, req, emails, accountVars>>

\* set_password of GraphQL, by an administrator or a user who has a password, the admin
\* API and "manage set-password".
SetPassword(u, admin) == (admin \/ u \in passwords) /\ AddPassword(u)
AdminSetPassword(u) == AddPassword(u)
CliSetPassword(u) == AddPassword(u)

-----------------------------------------------------------------------------
(* Account recovery.                                                       *)

\* views/recovery/start.rs post, with any address.
StartRecovery(s, e) ==
    /\ "recovery" \in config
    /\ recovery[s].state = "none"
    /\ recovery' = [recovery EXCEPT ![s] = [state |-> "open", email |-> e]]
    /\ queued' = queued \cup {s}
    /\ UNCHANGED <<vars, proof, codes, tickets, sending, accountHistory>>

\* views/recovery/progress.rs post.
ResendRecovery(s) ==
    /\ recovery[s].state = "open"
    /\ queued' = queued \cup {s}
    /\ UNCHANGED <<vars, proof, recovery, codes, tickets, sending, accountHistory>>

\* resend_recovery_email of GraphQL, with a ticket of any kind.
ResendLink(t) ==
    /\ t \in tickets
    /\ queued' = queued \cup {t[1]}
    /\ UNCHANGED <<vars, proof, recovery, codes, tickets, sending, accountHistory>>

\* SendAccountRecoveryEmailsJob: nothing is sent for a session that is consumed or gone.
BeginLinks(s) ==
    /\ s \in queued
    /\ queued' = queued \ {s}
    /\ sending' = IF recovery[s].state = "open" THEN sending \cup {s} ELSE sending
    /\ UNCHANGED <<vars, proof, recovery, codes, tickets, accountHistory>>

\* A ticket for each user with the address, and its commit ...
SaveLinks(s) ==
    LET New == {s} \X Uses(recovery[s].email) IN
    /\ s \in sending /\ recovery[s].state # "gone"
    /\ tickets' = tickets \cup {<<t[1], t[2], "fresh">> : t \in New}
    /\ sending' = sending \ {s}
    /\ sent' = sent \cup New
    /\ UNCHANGED <<vars, proof, recovery, codes, queued, forced, added, reset>>

\* ... or a failure: to save is final, others are tried again.
FailLinks(s) ==
    /\ s \in sending
    /\ sending' = sending \ {s}
    /\ queued' \in {queued, queued \cup {s}}
    /\ UNCHANGED <<vars, proof, recovery, codes, tickets, accountHistory>>

\* UserRecoveryTicket::active: ten minutes have passed.
ExpireTicket(t) ==
    /\ t \in tickets /\ t[3] = "fresh"
    /\ tickets' = (tickets \ {t}) \cup {<<t[1], t[2], "expired">>}
    /\ UNCHANGED <<vars, proof, recovery, codes, queued, sending, accountHistory>>

\* Mutant of OpenSession: the session was checked when the link was opened.
OpenSession_Any(s) == recovery[s].state # "gone"

\* The session of the ticket is there, and not consumed.
OpenSession(s) == recovery[s].state = "open"

\* set_password_by_recovery, up to the hash of the new password.
LoadTicket(r, t) ==
    /\ req[r].step = "idle"
    /\ t \in tickets /\ t[3] = "fresh" /\ OpenSession(t[1])
    /\ req' = [req EXCEPT ![r] = [Idle EXCEPT !.step = "recover", !.item = t[1], !.user = t[2]]]
    /\ UNCHANGED <<rows, accounts, accountVars>>

\* The password is added and the session consumed (an UPDATE by id).
Recover(r) ==
    LET s == req[r].item IN
    /\ req[r].step = "recover" /\ recovery[s].state # "gone"
    /\ recovery' = [recovery EXCEPT ![s].state = "consumed"]
    /\ passwords' = passwords \cup {req[r].user}
    /\ reset' = [reset EXCEPT ![s] = Append(@, req[r].user)]
    /\ req' = [req EXCEPT ![r] = Idle]
    /\ UNCHANGED <<rows, emails, proof, mails, forced, added, sent>>

\* CleanupUserRecoverySessionsJob.
CleanupRecovery(s) ==
    /\ recovery[s].state \in {"open", "consumed"}
    /\ recovery' = [recovery EXCEPT ![s].state = "gone"]
    /\ tickets' = {t \in tickets : t[1] # s}
    /\ UNCHANGED <<vars, proof, codes, queued, sending, accountHistory>>

-----------------------------------------------------------------------------

EmailStep ==
    \/ \E a \in Auths :
          \/ SendCode(a) \/ CleanupProof(a)
          \/ \E b \in Browsers :
                \/ ResendCode(b, a)
                \/ \E e \in Emails : StartEmail(b, a, e)
                \/ \E r \in Requests : LoadProof(r, b, a)
    \/ \E r \in Requests : CountAddress(r) \/ SaveProof(r) \/ AdminSaveEmail(r)
    \/ \E u \in Names :
          \/ RemoveEmails(u) \/ AdminSetPassword(u) \/ CliSetPassword(u)
          \/ \E admin \in BOOLEAN : SetPassword(u, admin)
          \/ \E e \in Emails : \/ AddEmail(u, e) \/ CliAddEmail(u, e)
                               \/ RemoveEmail(u, e) \/ AdminRemoveEmail(u, e)
                               \/ \E r \in Requests : AdminAddEmail(r, u, e)

RecoveryStep ==
    \/ \E s \in Recoveries :
          \/ ResendRecovery(s) \/ BeginLinks(s) \/ SaveLinks(s) \/ FailLinks(s)
          \/ CleanupRecovery(s)
          \/ \E e \in Emails : StartRecovery(s, e)
    \/ \E t \in tickets :
          \/ ResendLink(t) \/ ExpireTicket(t)
          \/ \E r \in Requests : LoadTicket(r, t)
    \/ \E r \in Requests : Recover(r)

AccountsNext == (Next /\ UNCHANGED accountVars) \/ EmailStep \/ RecoveryStep

AccountsSpec == AccountsInit /\ [][AccountsNext]_allVars

-----------------------------------------------------------------------------
(* Properties.                                                             *)

\* "Check the email is not already in use by anyone": no two users have the same address,
\* whichever of finish.rs, complete_email_authentication and the admin API gave it, unless
\* an administrator gave it to one of them without that check (add_email, add-email).
EmailOnce ==
    \A u, v \in users : \A e \in emails[u] \cap emails[v] :
        u = v \/ {<<u, e>>, <<v, e>>} \cap forced # {}

\* A code that was used does not bring the address back once it was removed
\* (complete_authentication_with_code).
AddedOnce == \A a \in Auths : added[a] <= 1

\* A recovery session sets one password, however many links were sent for it and whenever
\* they are used, and it is the password of somebody a link was sent for.
RecoveredOnce ==
    \A s \in Recoveries : /\ Len(reset[s]) <= 1
                          /\ \A i \in DOMAIN reset[s] : <<s, reset[s][i]>> \in sent
=============================================================================
