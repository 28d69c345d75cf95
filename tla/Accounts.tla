----------------------------- MODULE Accounts -----------------------------
(***************************************************************************)
(* Accounts of the admin API: login with lockout and a second factor,      *)
(* refresh tokens that rotate on use, access tokens, the Users API, and    *)
(* MFA enrolment.  An access token is checked without the database: what   *)
(* it says of its account holds until it runs out.                         *)
(*                                                                         *)
(* Each handler runs on its own task and takes the database connection's   *)
(* mutex once per query, so two handlers interleave between their queries. *)
(* A request is one step per query that matters to another; acReq is its   *)
(* handler's local state.  Ids and usernames are the same thing here: an   *)
(* id is a fresh uuid, so a deleted account never comes back.              *)
(***************************************************************************)
EXTENDS Naturals, FiniteSets

CONSTANTS AcUsers, AcRequests, AcTokens, NoAc,
          AcAdmin,            \* the account ensure_admin_exists created
          AcMaxFailed,        \* MAX_FAILED_ATTEMPTS
          AcTtl,              \* ACCESS_TOKEN_TTL_SECS, in ticks of the model's clock
          AcMaxRequests, AcMaxVer, AcMaxSecret, AcMaxFaults   \* bounds of the model

ASSUME AcAssumption ==
    /\ AcAdmin \in AcUsers /\ IsFiniteSet(AcRequests)
    /\ AcMaxFailed \in Nat \ {0} /\ AcMaxVer \in Nat \ {0} /\ AcTtl \in Nat \ {0}

VARIABLES acUser,     \* users and user_scopes: the row of each id
          acTok,      \* refresh_tokens: the row of each token hash
          acAccess,   \* access tokens that have not run out
          acFails,    \* login_attempts: username -> failed_count
          acLock,     \* login_attempts: locked_until is in the future
          acPending,  \* accounts an mfa_pending token was issued to
          acReq,      \* request -> its handler
          acTries,    \* account -> wrong guesses since the count was cleared or the lock ran out
          acQuiet,    \* account -> ticks since a change, or a request one overtook, was under way
          acMissed,   \* accounts an update of which ended before it revoked
          acOverlap,  \* two requests of the Users API have run at the same time
          acFaults,
          acStarted   \* requests so far

acVars == <<acUser, acTok, acAccess, acFails, acLock, acPending, acReq, acTries, acQuiet,
            acMissed, acOverlap, acFaults, acStarted>>

\* ver counts the changes of role and password; secret 0 is none; proven is
\* the secret whose code the confirmation checked, 0 when it was overtaken.
\* The ver of a refresh token is that of the sign-in its session began with,
\* the ver of an access token that of the row its role was read from.
NoUser == [live |-> FALSE, role |-> "user", mfa |-> FALSE, secret |-> 0, proven |-> 0, ver |-> 0]
NoTok == [st |-> "none", user |-> NoAc, ver |-> 0, over |-> FALSE]
Idle == [pc |-> "idle", op |-> "none", user |-> NoAc, tok |-> NoAc, row |-> NoUser, begun |-> 0, over |-> FALSE]

\* bootstrap::ensure_admin_exists ran on an empty users table.
AccountsInit ==
    /\ acUser = [u \in AcUsers |-> IF u = AcAdmin THEN [NoUser EXCEPT !.live = TRUE, !.role = "admin"] ELSE NoUser]
    /\ acTok = [t \in AcTokens |-> NoTok]
    /\ acAccess = {}
    /\ acFails = [u \in AcUsers |-> 0]
    /\ acLock = [u \in AcUsers |-> FALSE]
    /\ acPending = {}
    /\ acReq = [r \in AcRequests |-> Idle]
    /\ acTries = [u \in AcUsers |-> 0]
    /\ acQuiet = [u \in AcUsers |-> AcTtl]
    /\ acMissed = {} /\ acOverlap = FALSE /\ acFaults = 0 /\ acStarted = 0

Admins == {u \in AcUsers : acUser[u].live /\ acUser[u].role = "admin"}
FreeTokens == {t \in AcTokens : acTok[t].st = "none"}
Becomes(r, rec) == acReq' = [acReq EXCEPT ![r] = rec]
Ends(r) == Becomes(r, Idle)
At(r, pc) == acReq[r].pc = pc
Start(r, rec) ==
    /\ At(r, "idle") /\ acStarted < AcMaxRequests
    /\ acStarted' = acStarted + 1
    /\ Becomes(r, rec)

\* A write of u's row overtakes every other request that has read it.
RowOvertaken(r, u) ==
    [q \in AcRequests |-> IF q = r THEN Idle
                          ELSE IF acReq[q].user = u THEN [acReq[q] EXCEPT !.over = TRUE] ELSE acReq[q]]

\* jwt::issue_access_token, for the role and version in row.
Minted(u, row) == [user |-> u, role |-> row.role, ver |-> row.ver, age |-> 0]

\* require_admin, and the account a token speaks for: what the token says.
AdminCalls == \E a \in acAccess : a.role = "admin"
UserCalls(u) == \E a \in acAccess : a.user = u

accessVars == <<acAccess, acQuiet>>
lockVars == <<acFails, acLock, acTries>>
manageVars == <<acMissed, acOverlap, acFaults>>

-----------------------------------------------------------------------------
(* Login *)

\* login_handler: the lockout check comes first.
LoginStart(r, u) ==
    /\ ~acLock[u]
    /\ Start(r, [Idle EXCEPT !.pc = "lookup", !.op = "login", !.user = u])
    /\ UNCHANGED <<acUser, acTok, acPending, lockVars, manageVars, accessVars>>

\* by_username and the password check.
LoginLookup(r, ok) ==
    /\ At(r, "lookup")
    /\ LET u == acReq[r].user
       IN  IF ok /\ acUser[u].live
           THEN Becomes(r, [acReq[r] EXCEPT !.pc = "clear", !.over = FALSE,
                                            !.begun = acUser[u].ver, !.row = acUser[u]])
           ELSE Becomes(r, [acReq[r] EXCEPT !.pc = "fail", !.over = FALSE])
    /\ UNCHANGED <<acUser, acTok, acPending, lockVars, manageVars, acStarted, accessVars>>

FaultyRecordFailure(r) ==
    /\ At(r, "fail")
    /\ LET u == acReq[r].user
           n == acFails[u] + 1
       IN  /\ acFails' = [acFails EXCEPT ![u] = n]
           /\ acLock' = [acLock EXCEPT ![u] = n > AcMaxFailed]
           /\ acTries' = [acTries EXCEPT ![u] = @ + 1]
    /\ Ends(r)
    /\ UNCHANGED <<acUser, acTok, acPending, manageVars, acStarted, accessVars>>

\* record_failure: one critical section; the count outlives the lock.
RecordFailure(r) ==
    /\ At(r, "fail")
    /\ LET u == acReq[r].user
           n == acFails[u] + 1
       IN  /\ acFails' = [acFails EXCEPT ![u] = n]
           /\ acLock' = [acLock EXCEPT ![u] = n >= AcMaxFailed]
           /\ acTries' = [acTries EXCEPT ![u] = @ + 1]
    /\ Ends(r)
    /\ UNCHANGED <<acUser, acTok, acPending, manageVars, acStarted, accessVars>>

\* The lock runs out: the next failure locks again at once.
LockExpires(u) ==
    /\ acLock[u]
    /\ acLock' = [acLock EXCEPT ![u] = FALSE]
    /\ acTries' = [acTries EXCEPT ![u] = 0]
    /\ UNCHANGED <<acUser, acTok, acFails, acPending, acReq, manageVars, acStarted, accessVars>>

\* clear, then a challenge for an account whose row had MFA confirmed.
LoginClear(r) ==
    /\ At(r, "clear")
    /\ LET u == acReq[r].user
           challenged == acReq[r].op = "login" /\ acReq[r].row.mfa
       IN  /\ acFails' = [acFails EXCEPT ![u] = 0]
           /\ acLock' = [acLock EXCEPT ![u] = FALSE]
           /\ acTries' = [acTries EXCEPT ![u] = 0]
           /\ acPending' = IF challenged THEN acPending \cup {u} ELSE acPending
           /\ IF challenged THEN Ends(r) ELSE Becomes(r, [acReq[r] EXCEPT !.pc = "issue"])
    /\ UNCHANGED <<acUser, acTok, manageVars, acStarted, accessVars>>

\* mfa_verify_handler: the account is read before the lockout check.
VerifyStart(r, u) ==
    /\ u \in acPending /\ acUser[u].live
    /\ Start(r, [Idle EXCEPT !.pc = "vlock", !.op = "verify", !.user = u,
                           !.begun = acUser[u].ver, !.row = acUser[u]])
    /\ UNCHANGED <<acUser, acTok, acPending, lockVars, manageVars, accessVars>>

VerifyLock(r, ok) ==
    /\ At(r, "vlock")
    /\ IF acLock[acReq[r].user] \/ acReq[r].row.secret = 0
       THEN Ends(r)
       ELSE Becomes(r, [acReq[r] EXCEPT !.pc = IF ok THEN "clear" ELSE "fail"])
    /\ UNCHANGED <<acUser, acTok, acPending, lockVars, manageVars, acStarted, accessVars>>

\* issue_session: the access token goes out with the refresh token; insert
\* fails on the foreign key when the account is gone.
Issue(r) ==
    /\ At(r, "issue")
    /\ LET u == acReq[r].user
       IN  IF acUser[u].live
           THEN /\ \E t \in FreeTokens :
                    acTok' = [acTok EXCEPT ![t] = [st |-> "active", user |-> u,
                                                   ver |-> acReq[r].begun, over |-> acReq[r].begun < acUser[u].ver]]
                /\ acAccess' = acAccess \cup {Minted(u, acReq[r].row)}
           ELSE UNCHANGED <<acTok, acAccess>>
    /\ Ends(r)
    /\ UNCHANGED <<acUser, acPending, lockVars, manageVars, acStarted, acQuiet>>

-----------------------------------------------------------------------------
(* Refresh and logout *)

\* refresh_handler: find_active.
RefreshFind(r, t) ==
    /\ acTok[t].st = "active"
    /\ Start(r, [Idle EXCEPT !.pc = "ruser", !.op = "refresh", !.user = acTok[t].user, !.tok = t, !.begun = acTok[t].ver])
    /\ UNCHANGED <<acUser, acTok, acPending, lockVars, manageVars, accessVars>>

FaultyRefreshUser(r) ==
    /\ At(r, "ruser")
    /\ LET u == acReq[r].user
       IN  IF acUser[u].live
           THEN Becomes(r, [acReq[r] EXCEPT !.pc = "rotate", !.row = [acUser[u] EXCEPT !.ver = acReq[r].begun]])
           ELSE Ends(r)
    /\ UNCHANGED <<acUser, acTok, acPending, lockVars, manageVars, acStarted, accessVars>>

\* by_id and role_and_scopes: the role of the new access token.
RefreshUser(r) ==
    /\ At(r, "ruser")
    /\ LET u == acReq[r].user
       IN  IF acUser[u].live THEN Becomes(r, [acReq[r] EXCEPT !.pc = "rotate", !.row = acUser[u]])
           ELSE Ends(r)
    /\ UNCHANGED <<acUser, acTok, acPending, lockVars, manageVars, acStarted, accessVars>>

\* rotate: the old row is revoked and the new one inserted under one lock,
\* whatever became of the old one since find_active; the session stays the
\* one it was.
Rotate(r) ==
    /\ At(r, "rotate")
    /\ LET u == acReq[r].user
       IN  /\ \E t \in FreeTokens :
               acTok' = [x \in AcTokens |->
                           IF x = acReq[r].tok /\ acTok[x].st = "active" THEN [acTok[x] EXCEPT !.st = "revoked"]
                           ELSE IF x = t /\ acUser[u].live
                           THEN [st |-> "active", user |-> u, ver |-> acReq[r].begun, over |-> acReq[r].begun < acUser[u].ver]
                           ELSE acTok[x]]
           /\ acAccess' = IF acUser[u].live THEN acAccess \cup {Minted(u, acReq[r].row)} ELSE acAccess
    /\ Ends(r)
    /\ UNCHANGED <<acUser, acPending, lockVars, manageVars, acStarted, acQuiet>>

\* logout_handler.
Logout(t) ==
    /\ acTok[t].st = "active"
    /\ acTok' = [acTok EXCEPT ![t].st = "revoked"]
    /\ UNCHANGED <<acUser, acPending, acReq, lockVars, manageVars, acStarted, accessVars>>

-----------------------------------------------------------------------------
(* The Users API *)

Managing(r) == acReq[r].op \in {"demote", "promote", "password", "delete"}

\* create_handler: UNIQUE(username) decides between two creations.
Create(u, role) ==
    /\ AdminCalls /\ ~acUser[u].live /\ acUser[u].ver = 0
    /\ acUser' = [acUser EXCEPT ![u] = [NoUser EXCEPT !.live = TRUE, !.role = role, !.ver = 1]]
    /\ UNCHANGED <<acTok, acPending, acReq, lockVars, manageVars, acStarted, accessVars>>

\* update_handler and delete_handler: by_id.
Manage(r, op, u) ==
    /\ AdminCalls /\ acUser[u].live /\ acUser[u].ver < AcMaxVer
    /\ op \in {"demote", "promote", "password", "delete"}
    /\ Start(r, [Idle EXCEPT !.pc = "guard", !.op = op, !.user = u, !.row = acUser[u]])
    /\ acOverlap' = (acOverlap \/ \E q \in AcRequests : Managing(q))
    /\ UNCHANGED <<acUser, acTok, acPending, lockVars, acMissed, acFaults, accessVars>>

FaultyGuard(r) ==
    /\ At(r, "guard")
    /\ IF acReq[r].op = "delete" /\ acReq[r].row.role = "admin" /\ Cardinality(Admins) <= 1
       THEN Ends(r)
       ELSE Becomes(r, [acReq[r] EXCEPT !.pc = "write"])
    /\ UNCHANGED <<acUser, acTok, acPending, lockVars, manageVars, acStarted, accessVars>>

\* The last-admin guard: the role as it was read, the count as it is now.
Guard(r) ==
    /\ At(r, "guard")
    /\ IF acReq[r].op \in {"demote", "delete"} /\ acReq[r].row.role = "admin" /\ Cardinality(Admins) <= 1
       THEN Ends(r)
       ELSE Becomes(r, [acReq[r] EXCEPT !.pc = "write"])
    /\ UNCHANGED <<acUser, acTok, acPending, lockVars, manageVars, acStarted, accessVars>>

\* The row that users().update or users().delete leaves of old.
ManagedRow(op, old) ==
    IF op = "delete" THEN [NoUser EXCEPT !.ver = old.ver + 1]
    ELSE IF ~old.live THEN old
    ELSE [old EXCEPT !.role = CASE op = "demote" -> "user" [] op = "promote" -> "admin" [] OTHER -> @, !.ver = @ + 1]

\* users().update, or users().delete with its cascade.
ManageWrite(r) ==
    /\ At(r, "write")
    /\ LET u == acReq[r].user
           op == acReq[r].op
       IN  /\ acUser' = [acUser EXCEPT ![u] = ManagedRow(op, acUser[u])]
           /\ acTok' = [t \in AcTokens |-> IF op = "delete" /\ acTok[t].user = u THEN NoTok ELSE acTok[t]]
           /\ acReq' = [RowOvertaken(r, u) EXCEPT ![r] = [acReq[r] EXCEPT !.pc = "revoke"]]
           /\ acQuiet' = [acQuiet EXCEPT ![u] = 0]
    /\ UNCHANGED <<acPending, lockVars, manageVars, acStarted, acAccess>>

FaultyRevokeAll(r) ==
    /\ At(r, "revoke")
    /\ acTok' = [t \in AcTokens |->
            IF acTok[t].user = acReq[r].user /\ acTok[t].st = "active" /\ acReq[r].op # "password"
            THEN [acTok[t] EXCEPT !.st = "revoked"] ELSE acTok[t]]
    /\ Ends(r)
    /\ UNCHANGED <<acUser, acPending, lockVars, manageVars, acStarted, accessVars>>

\* revoke_all_for_user, the last thing an update does.
RevokeAll(r) ==
    /\ At(r, "revoke")
    /\ acTok' = [t \in AcTokens |->
            IF acTok[t].user = acReq[r].user /\ acTok[t].st = "active"
            THEN [acTok[t] EXCEPT !.st = "revoked"] ELSE acTok[t]]
    /\ Ends(r)
    /\ UNCHANGED <<acUser, acPending, lockVars, manageVars, acStarted, accessVars>>

\* An update whose scopes or MFA reset fail returns before it revokes; one
\* whose revocation fails answers success.
ManageFails(r) ==
    /\ At(r, "revoke") /\ acFaults < AcMaxFaults
    /\ acFaults' = acFaults + 1
    /\ acMissed' = acMissed \cup {acReq[r].user}
    /\ Ends(r)
    /\ UNCHANGED <<acUser, acTok, acPending, lockVars, acOverlap, acStarted, accessVars>>

-----------------------------------------------------------------------------
(* MFA enrolment *)

\* setup_handler, confirm_handler, disable_handler (and reset_mfa of update,
\* which reads the same row): the row is read and the code checked.
MfaRead(r, op, u) ==
    /\ UserCalls(u) /\ acUser[u].live
    /\ CASE op = "setup" -> acUser[u].secret < AcMaxSecret
         [] op \in {"confirm", "disable"} -> acUser[u].secret # 0
    /\ Start(r, [Idle EXCEPT !.pc = op, !.op = op, !.user = u, !.row = acUser[u]])
    /\ UNCHANGED <<acUser, acTok, acPending, lockVars, manageVars, accessVars>>

FaultyMfaWrite(r) ==
    /\ acReq[r].pc \in {"setup", "confirm", "disable"}
    /\ LET u == acReq[r].user
           row == acReq[r].row
       IN  /\ acUser' = [acUser EXCEPT ![u] = IF ~@.live THEN @ ELSE
                CASE acReq[r].pc = "setup" -> [@ EXCEPT !.secret = row.secret + 1]
                  [] acReq[r].pc = "confirm" -> [@ EXCEPT !.mfa = TRUE, !.proven = IF acReq[r].over THEN 0 ELSE row.secret]
                  [] acReq[r].pc = "disable" -> [@ EXCEPT !.secret = 0, !.mfa = FALSE]]
           /\ acReq' = RowOvertaken(r, u)
    /\ UNCHANGED <<acTok, acPending, lockVars, manageVars, acStarted, accessVars>>

\* set_mfa_pending, confirm_mfa, clear_mfa: no write looks at the row again.
MfaWrite(r) ==
    /\ acReq[r].pc \in {"setup", "confirm", "disable"}
    /\ LET u == acReq[r].user
           row == acReq[r].row
       IN  /\ acUser' = [acUser EXCEPT ![u] = IF ~@.live THEN @ ELSE
                CASE acReq[r].pc = "setup" -> [@ EXCEPT !.secret = row.secret + 1, !.mfa = FALSE]
                  [] acReq[r].pc = "confirm" -> [@ EXCEPT !.mfa = TRUE, !.proven = IF acReq[r].over THEN 0 ELSE row.secret]
                  [] acReq[r].pc = "disable" -> [@ EXCEPT !.secret = 0, !.mfa = FALSE]]
           /\ acReq' = RowOvertaken(r, u)
    /\ UNCHANGED <<acTok, acPending, lockVars, manageVars, acStarted, accessVars>>

-----------------------------------------------------------------------------
(* Time *)

\* A sign-in or a refresh of u is under way on a row that has changed since.
OnOldRow(u) ==
    \E r \in AcRequests :
        /\ acReq[r].pc \in {"vlock", "clear", "issue", "rotate"}
        /\ acReq[r].user = u /\ acReq[r].row.ver < acUser[u].ver

\* Access tokens run out by their own date, and by nothing else.
Tick ==
    /\ acAccess' = {[a EXCEPT !.age = @ + 1] : a \in {x \in acAccess : x.age + 1 < AcTtl}}
    /\ acQuiet' = [u \in AcUsers |-> IF OnOldRow(u) THEN 0 ELSE IF acQuiet[u] < AcTtl THEN acQuiet[u] + 1 ELSE AcTtl]
    /\ UNCHANGED <<acUser, acTok, acPending, acReq, lockVars, manageVars, acStarted>>

-----------------------------------------------------------------------------
AccountsNext ==
    \/ \E r \in AcRequests, u \in AcUsers :
           LoginStart(r, u) \/ VerifyStart(r, u)
        \/ (\E op \in {"demote", "promote", "password", "delete"} : Manage(r, op, u))
        \/ (\E op \in {"setup", "confirm", "disable"} : MfaRead(r, op, u))
    \/ \E r \in AcRequests, ok \in BOOLEAN : LoginLookup(r, ok) \/ VerifyLock(r, ok)
    \/ \E r \in AcRequests :
           \/ RecordFailure(r) \/ LoginClear(r) \/ Issue(r)
           \/ RefreshUser(r) \/ Rotate(r)
           \/ Guard(r) \/ ManageWrite(r) \/ RevokeAll(r) \/ ManageFails(r) \/ MfaWrite(r)
    \/ \E r \in AcRequests, t \in AcTokens : RefreshFind(r, t)
    \/ \E t \in AcTokens : Logout(t)
    \/ \E u \in AcUsers : LockExpires(u)
    \/ Tick
    \/ \E u \in AcUsers, role \in {"admin", "user"} : Create(u, role)

AccountsSpec == AccountsInit /\ [][AccountsNext]_acVars

-----------------------------------------------------------------------------
\* While the Users API serves one request at a time, an admin remains: the
\* guard of update_handler and delete_handler counts before it writes.
AdminRemains == ~acOverlap => Admins # {}

\* A change of role or password that was answered leaves no session begun
\* before it that can be refreshed, except one whose sign-in or refresh was
\* finished after the write, or when the change failed after its write.
ChangeEndsSessions ==
    \A t \in AcTokens :
        LET u == acTok[t].user
        IN  acTok[t].st = "active" /\ acTok[t].ver < acUser[u].ver =>
                \/ acTok[t].over
                \/ u \in acMissed
                \/ \E r \in AcRequests : acReq[r].user = u /\ At(r, "revoke")

\* What an access token says of its account is out of date for at most the
\* life of one access token: counted from the change, or from the end of the
\* last sign-in or refresh the change overtook.  This needs no revocation: a
\* session that escaped one reads the row again when it is refreshed.
StaleRunsOut == \A a \in acAccess : acQuiet[a.user] >= AcTtl => a.ver >= acUser[a.user].ver

\* "Changing role/password revokes the user's existing sessions so the change
\* takes effect immediately rather than waiting for their access token to expire"
\* (users.rs:178-180): no access token of an earlier version once it is answered.
\* This is not so, since require_auth never looks at the database; what holds is
\* StaleRunsOut.
ChangeIsImmediate ==
    \A a \in acAccess :
        a.ver < acUser[a.user].ver => \E r \in AcRequests : acReq[r].user = a.user /\ At(r, "revoke")

\* Confirmed MFA is confirmed with the secret that is stored: a new
\* enrolment withdraws the old confirmation.  Only a confirmation that
\* another write overtook can be of another secret.
ConfirmedIsStored ==
    \A u \in AcUsers : acUser[u].mfa /\ acUser[u].proven # 0 => acUser[u].secret = acUser[u].proven

\* Between two times the count is cleared or the lock runs out, no more than
\* the maximum of passwords and codes are tried for an account, but for the
\* other requests that were past the check when the last failure was recorded.
PastCheck(u) == {r \in AcRequests : acReq[r].user = u /\ acReq[r].pc \in {"lookup", "fail"}}
GuessesBounded ==
    \A u \in AcUsers : acTries[u] + Cardinality(PastCheck(u)) <= (AcMaxFailed - 1) + Cardinality(AcRequests)

\* An administrator remains, a change of an account ends its sessions and
\* reaches every access token within its life, the second factor asked for is
\* the one confirmed, and guesses are bounded (http_server/auth).
AccountsGuarded == AdminRemains /\ ChangeEndsSessions /\ StaleRunsOut /\ ConfirmedIsStored /\ GuessesBounded
=============================================================================
