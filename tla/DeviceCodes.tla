----------------------------- MODULE DeviceCodes -----------------------------
(***************************************************************************)
(* The life of one device code: a device shows a code, the user opens the  *)
(* consent page in a browser session and allows or rejects the device      *)
(* (crates/handlers/src/oauth2/device/consent.rs), and the device polls    *)
(* the token endpoint, whose device_code_grant                             *)
(* (crates/handlers/src/oauth2/token.rs) exchanges the code for a session. *)
(*                                                                         *)
(* The row of oauth2_device_code_grant has the columns of an authorization *)
(* grant, in the variable grant, and rejected_at.  Browser sessions, the   *)
(* sessions started with the code and what ends them are as in             *)
(* AuthorizationCodes, and so is the reading of rows in READ COMMITTED.    *)
(* GrantSpec is the two flows under one roof: a grant of one kind or the   *)
(* other.                                                                  *)
(***************************************************************************)
EXTENDS AuthorizationCodes

VARIABLES
    rejected,   \* rejected_at (0 for NULL)
    answer,     \* consent form -> the button pressed: consent or reject
    flow        \* what the grant is: an authorization code or a device code

deviceVars == <<vars, rejected, answer>>
grantVars == <<deviceVars, flow>>

-----------------------------------------------------------------------------

\* The state TryFrom<OAuth2DeviceGrantLookup> reads off the columns; any other
\* combination is an inconsistency of the database.
DevicePending == Pending(grant) /\ rejected = 0
DeviceFulfilled == Fulfilled(grant) /\ rejected = 0
DeviceRejected == rejected # 0 /\ grant = [NewGrant EXCEPT !.browser = grant.browser]
                    /\ grant.browser # NoBrowser
DeviceExchanged == Exchanged(grant) /\ grant.browser # NoBrowser /\ rejected = 0

DeviceStates == DevicePending \/ DeviceFulfilled \/ DeviceRejected \/ DeviceExchanged

\* expires_at < now, for a grant created at time 1.
Expired == now > 1 + CodeLifetime

DeviceInit ==
    /\ Init
    /\ rejected = 0
    /\ answer = [p \in Posts |-> "consent"]

-----------------------------------------------------------------------------
(* The consent page.                                                       *)

\* Mutant of LoadDevice: the form of a grant that is not pending is applied.
LoadDevice_Any(p, b, a) ==
    /\ post[p] = NoBrowser /\ browsers[b] = "active"
    /\ row = "kept" /\ DeviceStates /\ ~Expired
    /\ post' = [post EXCEPT ![p] = b]
    /\ answer' = [answer EXCEPT ![p] = a]
    /\ UNCHANGED <<now, grant, row, browsers, started, sessions, pc, snap, history, rejected>>

\* Load the browser session and the grant, which must not have expired; one that
\* is not pending is shown as it is.
LoadDevice(p, b, a) ==
    /\ post[p] = NoBrowser /\ browsers[b] = "active"
    /\ row = "kept" /\ DevicePending /\ ~Expired
    /\ post' = [post EXCEPT ![p] = b]
    /\ answer' = [answer EXCEPT ![p] = a]
    /\ UNCHANGED <<now, grant, row, browsers, started, sessions, pc, snap, history, rejected>>

\* reject of the repository, but for rejected_at.
reject(g, b) == [g EXCEPT !.browser = b]

\* fulfill or reject, on the row as it is by then; save.
SaveDevice(p) ==
    /\ post[p] # NoBrowser /\ row = "kept"
    /\ \/ /\ answer[p] = "consent"
          /\ grant' = fulfill(grant, post[p])
          /\ consented' = consented \cup {post[p]}
          /\ UNCHANGED rejected
       \/ /\ answer[p] = "reject"
          /\ grant' = reject(grant, post[p])
          /\ rejected' = now
          /\ UNCHANGED consented
    /\ Overlap("answers", \E q \in Posts : post[q] # NoBrowser /\ answer[q] # answer[p])
    /\ post' = [post EXCEPT ![p] = NoBrowser]
    /\ answer' = [answer EXCEPT ![p] = "consent"]
    /\ UNCHANGED <<now, row, browsers, started, sessions, pc, snap>>

\* The policy refuses, the box is not ticked, or the request fails.
DropDevice(p) ==
    /\ DropConsent(p)
    /\ answer' = [answer EXCEPT ![p] = "consent"]
    /\ UNCHANGED rejected

-----------------------------------------------------------------------------
(* device_code_grant                                                       *)

\* Mutant of Poll: an exchanged code can be exchanged again.
Poll_Again(r) ==
    /\ pc[r] = "idle" /\ row = "kept" /\ ~Expired
    /\ DeviceFulfilled \/ DeviceExchanged
    /\ pc' = [pc EXCEPT ![r] = "issue"]
    /\ snap' = [snap EXCEPT ![r] = grant]
    /\ UNCHANGED <<now, grant, row, browsers, started, sessions, post, history, rejected, answer>>

\* Mutant of Poll: rejected_at is not looked at.
Poll_Rejected(r) ==
    /\ pc[r] = "idle" /\ row = "kept" /\ ~Expired
    /\ Fulfilled(grant)
    /\ pc' = [pc EXCEPT ![r] = "issue"]
    /\ snap' = [snap EXCEPT ![r] = grant]
    /\ UNCHANGED <<now, grant, row, browsers, started, sessions, post, history, rejected, answer>>

\* find_by_device_code: pending, rejected, exchanged and expired grants are
\* refused; lookup of the browser session, in whatever state it is.
Poll(r) ==
    /\ pc[r] = "idle" /\ row = "kept" /\ ~Expired
    /\ DeviceFulfilled
    /\ pc' = [pc EXCEPT ![r] = "issue"]
    /\ snap' = [snap EXCEPT ![r] = grant]
    /\ UNCHANGED <<now, grant, row, browsers, started, sessions, post, history, rejected, answer>>

\* add_from_browser_session, exchange, the tokens and the device; save.
ExchangeDevice(r) == ExchangeCode(r) /\ UNCHANGED <<rejected, answer>>

\* The request is refused or fails.
DropPoll(r) == DropRequest(r) /\ UNCHANGED <<rejected, answer>>

-----------------------------------------------------------------------------

\* The clock, log-outs, revocations and CleanupOAuthDeviceCodeGrantsJob.
Others ==
    /\ \/ Advance
       \/ \E b \in Browsers : Logout(b) \/ RevokeWithLogout(b)
       \/ \E s \in DOMAIN sessions : Revoke(s)
       \/ Cleanup
    /\ UNCHANGED <<rejected, answer>>

DeviceNext ==
    \/ \E p \in Posts :
          \/ \E b \in Browsers, a \in {"consent", "reject"} : LoadDevice(p, b, a)
          \/ SaveDevice(p) \/ DropDevice(p)
    \/ \E r \in Requests : Poll(r) \/ ExchangeDevice(r) \/ DropPoll(r)
    \/ Others

GrantInit == DeviceInit /\ flow \in {"code", "device"}

GrantNext ==
    /\ \/ flow = "code" /\ Next /\ UNCHANGED <<rejected, answer>>
       \/ flow = "device" /\ DeviceNext
    /\ UNCHANGED flow

GrantSpec == GrantInit /\ [][GrantNext]_grantVars

-----------------------------------------------------------------------------
(* Properties.                                                             *)

\* The rows are well formed.
DeviceTypeOK ==
    /\ TypeOK
    /\ rejected \in Nat
    /\ answer \in [Posts -> {"consent", "reject"}]
    /\ flow \in {"code", "device"}

\* The row stays one that can be read, however consents, polls, exchanges and replays
\* are ordered: of a device code, fulfilled_at "is mutually exclusive with rejected_at"
\* and the other columns go with one of the two, unless a form that allows the device and
\* one that rejects it were open when one of them was saved; of an authorization code see
\* GrantReadable.
RowReadable ==
    IF flow = "device" THEN "answers" \notin overlapped => DeviceStates ELSE GrantReadable

\* "This has 4 possible states, only going in one direction": a code that was exchanged or
\* rejected stays so, and is not found good for a session any more, whatever forms are
\* still open that have seen it pending, and whatever requests have found it good before.
ClosedForGood ==
    [][ \A r \in Requests :
           grant.exchanged # 0 \/ rejected # 0 =>
              /\ grant'.exchanged # 0 \/ rejected' # 0
              /\ Exchanging(r)' => Exchanging(r) ]_grantVars

\* A revocation with the mas-logout scope ends "the linked browser session (MAS session)
\* and all other OAuth2 sessions linked to that browser session", and no authorization code
\* gives a session in it afterwards, unless its exchange had seen the browser session
\* active before.  (A device code does: device_code_grant does not look at that.)
LogoutEndsSessions ==
    flow = "code" /\ "logout" \notin overlapped =>
        \A s \in 1 .. started : browsers[sessions[s].browser] = "ended" => sessions[s].finished
=============================================================================
