-------------------------- MODULE ServerParts_proof --------------------------
(***************************************************************************)
(* Theorems about the parts of the server that say who is who: the         *)
(* accounts of the admin API (Accounts) and the certificates               *)
(* (Certificates).  The parts share no state.                              *)
(***************************************************************************)
EXTENDS Accounts, Certificates, FiniteSetTheorems, SequenceTheorems, TLAPS

-----------------------------------------------------------------------------
(* Accounts.  The invariant says of each request what of the row it read   *)
(* still holds: the version it will stamp on a session, the secret whose   *)
(* code it checked, the role it guards, unless a write of the row overtook *)
(* it; of each session that it is of the current version or is about to be *)
(* revoked; of an access token that is out of date that it is at least as  *)
(* old as the quiet since the change, and that there is no quiet while a   *)
(* request may yet make one (FreshInv); of the guesses that those counted  *)
(* since the lock was last open are fewer than the maximum (GuessInv).     *)
(* One manager at a time, and the guard leaves another administrator.      *)

Manages == {"demote", "promote", "password", "delete"}
ManageSteps == {"guard", "write", "revoke"}
SessionSteps == {"clear", "issue", "vlock", "rotate"}
MfaSteps == {"setup", "confirm", "disable"}
GuessSteps == {"lookup", "fail"}

UserRow == [live : BOOLEAN, role : {"admin", "user"}, mfa : BOOLEAN, secret : Nat, proven : Nat, ver : Nat]
TokRow == [st : {"none", "active", "revoked"}, user : AcUsers \cup {NoAc}, ver : Nat, over : BOOLEAN]
ReqRow == [pc : {"idle", "lookup", "fail", "ruser"} \cup ManageSteps \cup SessionSteps \cup MfaSteps,
           op : {"none", "login", "verify", "refresh"} \cup Manages \cup MfaSteps,
           user : AcUsers \cup {NoAc}, tok : AcTokens \cup {NoAc}, row : UserRow, begun : Nat, over : BOOLEAN]
AccessRow == [user : AcUsers, role : {"admin", "user"}, ver : Nat, age : Nat]

AccountTypes ==
    /\ acUser \in [AcUsers -> UserRow]
    /\ acTok \in [AcTokens -> TokRow]
    /\ acReq \in [AcRequests -> ReqRow]
    /\ acFails \in [AcUsers -> Nat] /\ acLock \in [AcUsers -> BOOLEAN] /\ acTries \in [AcUsers -> Nat]
    /\ acAccess \subseteq AccessRow /\ acQuiet \in [AcUsers -> Nat]
    /\ acOverlap \in BOOLEAN

\* The account exists or has existed: its id is not given out again.
Seen(u) == u \in AcUsers /\ (acUser[u].live \/ acUser[u].ver # 0)

IsAdmin(u) == u \in AcUsers /\ acUser[u].live /\ acUser[u].role = "admin"

ReqOk(q) ==
    /\ q.pc # "idle" => q.user \in AcUsers
    /\ q.op \in Manages <=> q.pc \in ManageSteps
    /\ q.pc \in SessionSteps \cup MfaSteps \cup {"guard", "write"} => Seen(q.user)
    /\ q.pc \in MfaSteps => q.over \/ q.row.secret = acUser[q.user].secret
    /\ ~acOverlap /\ q.pc = "guard" => q.row.role = acUser[q.user].role
    /\ ~acOverlap /\ q.pc = "write" /\ q.op \in {"demote", "delete"} => \E a \in AcUsers : IsAdmin(a) /\ a # q.user

Revoking(u) == \E r \in AcRequests : acReq[r].user = u /\ acReq[r].pc = "revoke"

TokOk(x) ==
    x.st = "active" =>
        /\ Seen(x.user)
        /\ x.ver >= acUser[x.user].ver \/ x.over \/ x.user \in acMissed \/ Revoking(x.user)

OneManager == ~acOverlap => \A q, r \in AcRequests : Managing(q) /\ Managing(r) => q = r

AccessOk(a) ==
    /\ Seen(a.user) /\ a.age < AcTtl
    /\ a.ver < acUser[a.user].ver => a.age >= acQuiet[a.user]

FreshInv ==
    /\ \A a \in acAccess : AccessOk(a)
    /\ \A u \in AcUsers : OnOldRow(u) => acQuiet[u] = 0

LockOk(u) == acTries[u] <= acFails[u] /\ (~acLock[u] /\ acTries[u] # 0 => acFails[u] < AcMaxFailed)

GuessInv == GuessesBounded /\ \A u \in AcUsers : LockOk(u)

AccountsInv ==
    /\ AccountTypes
    /\ \A r \in AcRequests : ReqOk(acReq[r])
    /\ \A x \in AcTokens : TokOk(acTok[x])
    /\ OneManager /\ AdminRemains /\ ConfirmedIsStored /\ FreshInv /\ GuessInv

\* What q read is the row as it is, or it goes on with what it had read.
Follows(q) ==
    acReq'[q].pc \in SessionSteps =>
        \/ acReq'[q].row.ver = acUser'[acReq'[q].user].ver
        \/ acReq[q].pc \in SessionSteps /\ acReq'[q].user = acReq[q].user /\ acReq'[q].row = acReq[q].row

\* Tokens out of date stay older than the quiet, whoever writes a row.
LEMMA FreshKept ==
    ASSUME AccountsInv, AccountTypes', \A u : Seen(u) => Seen(u)',
           \A u \in AcUsers : \/ acQuiet'[u] = 0
                              \/ acQuiet'[u] = acQuiet[u] /\ (Seen(u) => acUser'[u].ver = acUser[u].ver),
           \A q \in AcRequests : Follows(q),
           \A a \in acAccess' : a \in acAccess \/ AccessOk(a)
    PROVE  FreshInv'
  <1>1. AccountTypes /\ FreshInv
    BY DEF AccountsInv
  <1>2. ASSUME NEW a \in acAccess' PROVE AccessOk(a)'
    <2>1. a \in AccessRow /\ AccessOk(a)
      BY <1>1, <1>2 DEF AccountTypes, FreshInv
    <2>2. a.user \in AcUsers /\ a.age \in Nat /\ Seen(a.user)' /\ Seen(a.user) /\ a.age < AcTtl
      BY <2>1 DEF AccessRow, AccessOk
    <2>3. CASE acQuiet'[a.user] = 0
      BY <2>2, <2>3 DEF AccessOk
    <2>4. CASE acQuiet'[a.user] = acQuiet[a.user] /\ acUser'[a.user].ver = acUser[a.user].ver
      BY <2>1, <2>2, <2>4 DEF AccessOk
    <2>. QED BY <2>2, <2>3, <2>4
  <1>3. ASSUME NEW u \in AcUsers, OnOldRow(u)', acQuiet'[u] # 0 PROVE FALSE
    <2>1. PICK q \in AcRequests : acReq'[q].pc \in SessionSteps /\ acReq'[q].user = u /\ acReq'[q].row.ver < acUser'[u].ver
      BY <1>3 DEF OnOldRow, SessionSteps
    <2>2. acReq'[q].row.ver # acUser'[u].ver
      BY <2>1 DEF AccountTypes, ReqRow, UserRow
    <2>3. acReq[q].pc \in SessionSteps /\ acReq[q].user = u /\ acReq[q].row = acReq'[q].row
      BY <2>1, <2>2 DEF Follows
    <2>4. Seen(u)
      BY <2>3 DEF AccountsInv, ReqOk
    <2>5. OnOldRow(u)
      BY <1>3, <2>1, <2>3, <2>4 DEF OnOldRow, SessionSteps
    <2>. QED BY <1>1, <1>3, <2>5 DEF FreshInv
  <1>. QED BY <1>2, <1>3 DEF FreshInv

\* Guesses stay bounded: of each account a guess is counted, or no request
\* passes the check but while the lock is open.
LEMMA GuessesKept ==
    ASSUME AccountsInv, AccountTypes', \A u \in AcUsers : LockOk(u)',
           \A u \in AcUsers : \/ acTries'[u] = acTries[u] /\ PastCheck(u)' \subseteq PastCheck(u)
                              \/ acTries'[u] = acTries[u] /\ ~acLock[u]
                              \/ acTries'[u] = 0
                              \/ /\ acTries'[u] = acTries[u] + 1
                                 /\ \E q \in PastCheck(u) : PastCheck(u)' \subseteq PastCheck(u) \ {q}
    PROVE  GuessInv'
  <1> SUFFICES ASSUME NEW u \in AcUsers
               PROVE  acTries'[u] + Cardinality(PastCheck(u)') <= (AcMaxFailed - 1) + Cardinality(AcRequests)
    BY DEF GuessInv, GuessesBounded
  <1> DEFINE n == Cardinality(PastCheck(u)')
             m == Cardinality(PastCheck(u))
             all == Cardinality(AcRequests)
  <1>1. PastCheck(u) \subseteq AcRequests /\ PastCheck(u)' \subseteq AcRequests /\ IsFiniteSet(AcRequests)
    BY AcAssumption DEF PastCheck
  <1>2. n \in Nat /\ m \in Nat /\ all \in Nat /\ n <= all /\ IsFiniteSet(PastCheck(u)) /\ IsFiniteSet(PastCheck(u)')
    BY <1>1, FS_Subset, FS_CardinalityType
  <1>3. PastCheck(u)' \subseteq PastCheck(u) => n <= m
    BY <1>2, FS_Subset
  <1>4. ASSUME NEW q \in PastCheck(u), PastCheck(u)' \subseteq PastCheck(u) \ {q} PROVE n + 1 <= m
    <2>1. IsFiniteSet(PastCheck(u) \ {q}) /\ Cardinality(PastCheck(u) \ {q}) = m - 1
      BY <1>2, <1>4, FS_RemoveElement
    <2>2. n <= Cardinality(PastCheck(u) \ {q})
      BY <1>4, <2>1, FS_Subset
    <2>. QED BY <1>2, <2>1, <2>2
  <1>5. /\ acTries[u] + m <= (AcMaxFailed - 1) + all /\ LockOk(u)
        /\ acTries[u] \in Nat /\ acTries'[u] \in Nat /\ acFails[u] \in Nat /\ AcMaxFailed \in Nat \ {0}
    BY AcAssumption DEF AccountsInv, GuessInv, GuessesBounded, AccountTypes
  <1>6. ~acLock[u] => acTries[u] <= AcMaxFailed - 1
    BY <1>5 DEF LockOk
  <1> HIDE DEF n, m, all
  <1>7. acTries'[u] + n <= (AcMaxFailed - 1) + all
    BY <1>2, <1>3, <1>4, <1>5, <1>6
  <1>. QED BY <1>7 DEF n, all

\* A request that goes on from o as t has just read the row, or had read it
\* before; and has found the lock open, or had passed it before.
ReadsRow(o, t) ==
    t.pc \in SessionSteps =>
        t.row.ver = acUser[t.user].ver \/ (o.pc \in SessionSteps /\ t.user = o.user /\ t.row = o.row)
PassesOpen(o, t) ==
    t.pc \in GuessSteps => ~acLock[t.user] \/ (o.pc \in GuessSteps /\ t.user = o.user)

\* What a request that is not at its revocation may do: it moves to t, and a
\* session it opens is of the version it read.
LEMMA RequestMoves ==
    ASSUME AccountsInv, NEW r \in AcRequests, acReq[r].pc # "revoke",
           NEW t \in ReqRow, Becomes(r, t),
           UNCHANGED <<acUser, acMissed>>,
           ReqOk(t), acOverlap => acOverlap', acOverlap' \in BOOLEAN,
           ~acOverlap' /\ t.op \in Manages => \A q \in AcRequests : Managing(q) => q = r,
           acFails' \in [AcUsers -> Nat], acLock' \in [AcUsers -> BOOLEAN], acTries' \in [AcUsers -> Nat],
           AccountTypes' => GuessInv',
           ReadsRow(acReq[r], t),
           acQuiet' = acQuiet, acAccess' \subseteq AccessRow, \A a \in acAccess' : a \in acAccess \/ AccessOk(a),
           acTok' \in [AcTokens -> TokRow],
           \A x \in AcTokens : \/ acTok'[x] = acTok[x] \/ acTok'[x].st # "active"
                               \/ Seen(acTok'[x].user) /\ (acTok'[x].over \/ acTok'[x].ver >= acUser[acTok'[x].user].ver)
    PROVE  AccountsInv'
  <1>1. AccountTypes /\ OneManager /\ AdminRemains /\ ConfirmedIsStored
    BY DEF AccountsInv
  <1>2. acReq' = [acReq EXCEPT ![r] = t]
    BY DEF Becomes
  <1>3. \A q \in AcRequests : acReq'[q] = IF q = r THEN t ELSE acReq[q]
    BY <1>1, <1>2 DEF AccountTypes
  <1>4. acReq' \in [AcRequests -> ReqRow]
    BY <1>1, <1>2 DEF AccountTypes
  <1>5. AccountTypes'
    BY <1>1, <1>4 DEF AccountTypes
  <1>6. \A u : (Seen(u)' <=> Seen(u)) /\ (IsAdmin(u)' <=> IsAdmin(u))
    BY DEF Seen, IsAdmin
  <1>7. \A q \in AcRequests : ReqOk(acReq[q])'
    <2> SUFFICES ASSUME NEW q \in AcRequests PROVE ReqOk(acReq[q])'
      OBVIOUS
    <2>1. CASE q = r
      <3>1. acReq'[q] = t
        BY <1>3, <2>1
      <3>. QED BY <1>6, <3>1 DEF ReqOk
    <2>2. CASE q # r
      <3>1. acReq'[q] = acReq[q] /\ ReqOk(acReq[q])
        BY <1>3, <2>2 DEF AccountsInv
      <3>. QED BY <1>6, <3>1 DEF ReqOk
    <2>. QED BY <2>1, <2>2
  <1>8. \A x \in AcTokens : TokOk(acTok[x])'
    <2> SUFFICES ASSUME NEW x \in AcTokens PROVE TokOk(acTok[x])'
      OBVIOUS
    <2>1. ASSUME NEW u, Revoking(u) PROVE Revoking(u)'
      BY <1>3, <2>1 DEF Revoking
    <2>2. CASE acTok'[x] = acTok[x]
      <3>1. TokOk(acTok[x])
        BY DEF AccountsInv
      <3>. QED BY <1>6, <2>1, <2>2, <3>1 DEF TokOk
    <2>3. CASE acTok'[x] # acTok[x]
      BY <1>6, <2>3 DEF TokOk
    <2>. QED BY <2>2, <2>3
  <1>9. OneManager'
    <2> SUFFICES ASSUME ~acOverlap', NEW p \in AcRequests, NEW q \in AcRequests, Managing(p)', Managing(q)' PROVE p = q
      BY DEF OneManager
    <2>1. (Managing(p)' => IF p = r THEN t.op \in Manages ELSE Managing(p))
          /\ (Managing(q)' => IF q = r THEN t.op \in Manages ELSE Managing(q))
      BY <1>3 DEF Managing, Manages
    <2>2. ~acOverlap
      OBVIOUS
    <2>. QED BY <1>1, <2>1, <2>2 DEF OneManager
  <1>10. AdminRemains' /\ ConfirmedIsStored'
    BY <1>1 DEF AdminRemains, ConfirmedIsStored, Admins
  <1>11. FreshInv'
    <2>1. \A q \in AcRequests : Follows(q)
      BY <1>3 DEF Follows, ReadsRow
    <2>. QED BY <1>5, <1>6, <2>1, FreshKept
  <1>. QED BY <1>5, <1>7, <1>8, <1>9, <1>10, <1>11 DEF AccountsInv

LEMMA IdleOk == Idle \in ReqRow /\ NoTok \in TokRow /\ NoUser \in UserRow /\ ReqOk(Idle)
  <1>1. NoUser \in UserRow
    BY DEF NoUser, UserRow
  <1>2. Idle \in ReqRow /\ NoTok \in TokRow
    BY <1>1 DEF Idle, ReqRow, TokRow, NoTok
  <1>3. ReqOk(Idle)
    BY DEF Idle, ReqOk, SessionSteps, MfaSteps, ManageSteps, Manages
  <1>. QED BY <1>1, <1>2, <1>3

\* The request moves and nothing but the bound on requests goes with it.
LEMMA OnlyMoves ==
    ASSUME AccountsInv, NEW r \in AcRequests, acReq[r].pc # "revoke",
           NEW t \in ReqRow, Becomes(r, t), ReqOk(t),
           UNCHANGED <<acUser, acMissed, acOverlap, acTok, lockVars, accessVars>>,
           t.op \in Manages => acReq[r].op \in Manages,
           ReadsRow(acReq[r], t), PassesOpen(acReq[r], t)
    PROVE  AccountsInv'
  <1>1. AccountTypes /\ OneManager
    BY DEF AccountsInv
  <1>0. UNCHANGED <<acFails, acLock, acTries, acAccess, acQuiet>>
    BY DEF lockVars, accessVars
  <1>3. GuessInv'
    <2>1. \A q \in AcRequests : acReq'[q] = IF q = r THEN t ELSE acReq[q]
      BY <1>1 DEF Becomes, AccountTypes
    <2>2. \A u \in AcUsers : acLock[u] => PastCheck(u)' \subseteq PastCheck(u)
      BY <2>1 DEF PastCheck, GuessSteps, PassesOpen
    <2>3. \A u \in AcUsers : LockOk(u)'
      BY <1>0 DEF AccountsInv, GuessInv, LockOk
    <2>4. AccountTypes'
      BY <1>0, <1>1 DEF AccountTypes, Becomes
    <2>. QED BY <1>0, <2>2, <2>3, <2>4, GuessesKept
  <1>2. ~acOverlap' /\ t.op \in Manages => \A q \in AcRequests : Managing(q) => q = r
    <2>1. acReq[r].op \in Manages => Managing(r)
      BY DEF Managing, Manages
    <2>. QED BY <1>1, <2>1 DEF OneManager
  <1>. QED BY <1>0, <1>1, <1>2, <1>3, RequestMoves DEF AccountTypes

-----------------------------------------------------------------------------
(* Sign-in *)

LEMMA LoginStartStep ==
    ASSUME AccountsInv, NEW r \in AcRequests, NEW u \in AcUsers, LoginStart(r, u)
    PROVE  AccountsInv'
  <1> DEFINE t == [Idle EXCEPT !.pc = "lookup", !.op = "login", !.user = u]
  <1>1. /\ acReq[r].pc = "idle" /\ ~acLock[u] /\ Becomes(r, t)
        /\ UNCHANGED <<acUser, acMissed, acOverlap, acTok, lockVars, accessVars>>
    BY DEF LoginStart, Start, At, manageVars
  <1>4. t \in ReqRow /\ t.pc = "lookup" /\ t.op = "login" /\ t.user = u
    BY IdleOk DEF ReqRow
  <1> HIDE DEF t
  <1>5. ReqOk(t)
    BY <1>4 DEF ReqOk, SessionSteps, MfaSteps, ManageSteps, Manages
  <1>6. ReadsRow(acReq[r], t) /\ PassesOpen(acReq[r], t) /\ t.op \notin Manages /\ acReq[r].pc # "revoke"
    BY <1>1, <1>4 DEF SessionSteps, Manages, ReadsRow, PassesOpen
  <1>. QED BY <1>1, <1>4, <1>5, <1>6, OnlyMoves

LEMMA LoginLookupStep ==
    ASSUME AccountsInv, NEW r \in AcRequests, NEW ok \in BOOLEAN, LoginLookup(r, ok)
    PROVE  AccountsInv'
  <1> DEFINE o == acReq[r]
             row == acUser[o.user]
             ver == acUser[o.user].ver
             c == [o EXCEPT !.pc = "clear", !.over = FALSE, !.begun = ver, !.row = row]
             f == [o EXCEPT !.pc = "fail", !.over = FALSE]
  <1>1. /\ o.pc = "lookup" /\ o \in ReqRow /\ ReqOk(o)
        /\ IF ok /\ acUser[o.user].live THEN Becomes(r, c) ELSE Becomes(r, f)
        /\ UNCHANGED <<acUser, acMissed, acOverlap, acTok, lockVars, accessVars>>
    BY DEF LoginLookup, At, manageVars, AccountsInv, AccountTypes
  <1>2. o.user \in AcUsers /\ acUser[o.user] \in UserRow /\ o.op \notin Manages
    BY <1>1 DEF AccountsInv, AccountTypes, ReqOk, ManageSteps
  <1>3. acReq[r].pc # "revoke" /\ acReq[r] = o
    BY <1>1
  <1> HIDE DEF o
  <1>4. row \in UserRow /\ row.ver = acUser[o.user].ver /\ ver \in Nat
    BY <1>2 DEF UserRow
  <1> HIDE DEF row, ver
  <1>5. /\ c \in ReqRow /\ c.pc = "clear" /\ c.row = row /\ c.user = o.user /\ c.op = o.op
        /\ f \in ReqRow /\ f.pc = "fail" /\ f.user = o.user /\ f.op = o.op
    BY <1>1, <1>4 DEF ReqRow, SessionSteps
  <1> HIDE DEF c, f
  <1>6. CASE ok /\ acUser[o.user].live
    <2>1. ReqOk(c)
      BY <1>1, <1>2, <1>4, <1>5, <1>6 DEF ReqOk, Seen, SessionSteps, MfaSteps, ManageSteps
    <2>2. ReadsRow(o, c) /\ PassesOpen(o, c) /\ c.op \notin Manages
      BY <1>2, <1>4, <1>5 DEF GuessSteps, ReadsRow, PassesOpen
    <2>. QED BY <1>1, <1>3, <1>5, <1>6, <2>1, <2>2, OnlyMoves
  <1>7. CASE ~(ok /\ acUser[o.user].live)
    <2>1. ReqOk(f)
      BY <1>2, <1>5 DEF ReqOk, SessionSteps, MfaSteps, ManageSteps
    <2>2. ReadsRow(o, f) /\ PassesOpen(o, f) /\ f.op \notin Manages
      BY <1>1, <1>2, <1>5 DEF GuessSteps, SessionSteps, ReadsRow, PassesOpen
    <2>. QED BY <1>1, <1>3, <1>5, <1>7, <2>1, <2>2, OnlyMoves
  <1>. QED BY <1>6, <1>7

\* The request is answered; what it wrote of the lockout keeps guesses bounded.
LEMMA AnsweredRequest ==
    ASSUME AccountsInv, NEW r \in AcRequests, acReq[r].pc # "revoke", Ends(r),
           UNCHANGED <<acUser, acMissed, acOverlap, acTok, accessVars>>,
           acFails' \in [AcUsers -> Nat], acLock' \in [AcUsers -> BOOLEAN], acTries' \in [AcUsers -> Nat],
           AccountTypes' => GuessInv'
    PROVE  AccountsInv'
  <1>1. Becomes(r, Idle) /\ AccountTypes /\ UNCHANGED <<acAccess, acQuiet>>
    BY DEF Ends, AccountsInv, accessVars
  <1>2. Idle.op \notin Manages /\ Idle.pc \notin SessionSteps
    BY DEF Idle, Manages, SessionSteps
  <1>3. ReadsRow(acReq[r], Idle)
    BY <1>2 DEF ReadsRow
  <1>. QED BY <1>1, <1>2, <1>3, IdleOk, RequestMoves DEF AccountTypes

\* The request is answered and nothing else changes.
LEMMA PlainlyAnswered ==
    ASSUME AccountsInv, NEW r \in AcRequests, acReq[r].pc # "revoke", Ends(r),
           UNCHANGED <<acUser, acMissed, acOverlap, acTok, lockVars, accessVars>>
    PROVE  AccountsInv'
  <1>1. Becomes(r, Idle) /\ Idle.op \notin Manages /\ Idle.pc \notin SessionSteps \cup GuessSteps
    BY DEF Ends, Idle, Manages, SessionSteps, GuessSteps
  <1>2. ReadsRow(acReq[r], Idle) /\ PassesOpen(acReq[r], Idle)
    BY <1>1 DEF ReadsRow, PassesOpen
  <1>. QED BY <1>1, <1>2, IdleOk, OnlyMoves

LEMMA RecordFailureStep ==
    ASSUME AccountsInv, NEW r \in AcRequests, RecordFailure(r)
    PROVE  AccountsInv'
  <1> DEFINE u == acReq[r].user
             n == acFails[u] + 1
             k == acTries[u] + 1
             full == n >= AcMaxFailed
  <1>1. /\ acReq[r].pc = "fail" /\ Ends(r) /\ UNCHANGED <<acUser, acMissed, acOverlap, acTok, accessVars>>
        /\ acFails' = [acFails EXCEPT ![u] = n] /\ acLock' = [acLock EXCEPT ![u] = full]
        /\ acTries' = [acTries EXCEPT ![u] = k]
    BY DEF RecordFailure, At, manageVars
  <1>2. u \in AcUsers /\ AccountTypes /\ r \in PastCheck(u) /\ LockOk(u)
    BY <1>1 DEF AccountsInv, ReqOk, PastCheck, GuessInv
  <1>3. n \in Nat /\ k \in Nat /\ k <= n /\ full \in BOOLEAN /\ (~full => n < AcMaxFailed)
    BY <1>2, AcAssumption DEF AccountTypes, LockOk
  <1> HIDE DEF n, k, full
  <1>4. acFails' \in [AcUsers -> Nat] /\ acLock' \in [AcUsers -> BOOLEAN] /\ acTries' \in [AcUsers -> Nat]
    BY <1>1, <1>2, <1>3 DEF AccountTypes
  <1>5. \A v \in AcUsers : LockOk(v)'
    <2> SUFFICES ASSUME NEW v \in AcUsers PROVE LockOk(v)'
      OBVIOUS
    <2>1. CASE v = u
      <3>1. acFails'[v] = n /\ acLock'[v] = full /\ acTries'[v] = k
        BY <1>1, <1>2, <2>1 DEF AccountTypes
      <3>. QED BY <1>3, <3>1 DEF LockOk
    <2>2. CASE v # u
      <3>1. acFails'[v] = acFails[v] /\ acLock'[v] = acLock[v] /\ acTries'[v] = acTries[v]
        BY <1>1, <1>2, <2>2 DEF AccountTypes
      <3>. QED BY <3>1 DEF AccountsInv, GuessInv, LockOk
    <2>. QED BY <2>1, <2>2
  <1>6. \A v \in AcUsers : PastCheck(v)' \subseteq PastCheck(v) \ {r}
    <2>1. \A q \in AcRequests : acReq'[q] = IF q = r THEN Idle ELSE acReq[q]
      BY <1>1, <1>2 DEF Ends, Becomes, AccountTypes
    <2>. QED BY <2>1 DEF PastCheck, Idle
  <1>7. AccountTypes' => GuessInv'
    <2>1. \A v \in AcUsers : \/ acTries'[v] = acTries[v] /\ PastCheck(v)' \subseteq PastCheck(v)
                             \/ /\ acTries'[v] = acTries[v] + 1
                                /\ \E q \in PastCheck(v) : PastCheck(v)' \subseteq PastCheck(v) \ {q}
      BY <1>1, <1>2, <1>6 DEF AccountTypes, k
    <2>. QED BY <1>5, <2>1, GuessesKept
  <1>. QED BY <1>1, <1>4, <1>7, AnsweredRequest

LEMMA LoginClearStep ==
    ASSUME AccountsInv, NEW r \in AcRequests, LoginClear(r)
    PROVE  AccountsInv'
  <1> DEFINE o == acReq[r]
             t == [o EXCEPT !.pc = "issue"]
  <1>1. /\ o.pc = "clear" /\ o \in ReqRow /\ ReqOk(o) /\ acReq[r] = o
        /\ Ends(r) \/ Becomes(r, t)
        /\ UNCHANGED <<acUser, acMissed, acOverlap, acTok, accessVars>>
    BY DEF LoginClear, At, manageVars, AccountsInv, AccountTypes
  <1>2. /\ acFails' = [acFails EXCEPT ![o.user] = 0] /\ acLock' = [acLock EXCEPT ![o.user] = FALSE]
        /\ acTries' = [acTries EXCEPT ![o.user] = 0]
    BY DEF LoginClear
  <1>3. AccountTypes
    BY DEF AccountsInv
  <1> HIDE DEF o
  <1>4. /\ acFails' \in [AcUsers -> Nat] /\ acLock' \in [AcUsers -> BOOLEAN] /\ acTries' \in [AcUsers -> Nat]
        /\ \A v \in AcUsers : \/ acFails'[v] = acFails[v] /\ acLock'[v] = acLock[v] /\ acTries'[v] = acTries[v]
                              \/ acFails'[v] = 0 /\ acTries'[v] = 0
    BY <1>2, <1>3 DEF AccountTypes
  <1>7. AccountTypes' => GuessInv'
    <2>1. \A v \in AcUsers : LockOk(v)'
      BY <1>4 DEF LockOk, AccountsInv, GuessInv
    <2>2. \A q \in AcRequests : acReq'[q] = acReq[q] \/ acReq'[q].pc \notin GuessSteps
      <3>1. t.pc = "issue" /\ Idle.pc = "idle"
        BY <1>1 DEF ReqRow, Idle
      <3> HIDE DEF t
      <3>. QED BY <1>1, <1>3, <3>1 DEF Ends, Becomes, AccountTypes, GuessSteps
    <2>3. \A v \in AcUsers : PastCheck(v)' \subseteq PastCheck(v)
      BY <2>2 DEF PastCheck, GuessSteps
    <2>. QED BY <1>4, <2>1, <2>3, GuessesKept
  <1>5. CASE Ends(r)
    BY <1>1, <1>4, <1>5, <1>7, AnsweredRequest
  <1>6. CASE Becomes(r, t)
    <2>1. t \in ReqRow /\ t.pc = "issue" /\ t.op = o.op /\ t.user = o.user /\ t.row = o.row
      BY <1>1 DEF ReqRow, SessionSteps
    <2> HIDE DEF t
    <2>2. t.op \notin Manages /\ Seen(t.user) /\ t.user \in AcUsers /\ o.pc \in SessionSteps
      BY <1>1, <2>1 DEF ReqOk, ManageSteps, SessionSteps
    <2>3. ReqOk(t)
      BY <1>1, <2>1, <2>2 DEF ReqOk, Seen, SessionSteps, MfaSteps, ManageSteps
    <2>4. UNCHANGED <<acAccess, acQuiet>> /\ ReadsRow(o, t)
      BY <1>1, <2>1, <2>2 DEF accessVars, ReadsRow
    <2>. QED BY <1>1, <1>3, <1>4, <1>6, <1>7, <2>1, <2>2, <2>3, <2>4, RequestMoves DEF AccountTypes
  <1>. QED BY <1>1, <1>5, <1>6

LEMMA VerifyStartStep ==
    ASSUME AccountsInv, NEW r \in AcRequests, NEW u \in AcUsers, VerifyStart(r, u)
    PROVE  AccountsInv'
  <1> DEFINE row == acUser[u]
             ver == acUser[u].ver
             t == [Idle EXCEPT !.pc = "vlock", !.op = "verify", !.user = u, !.begun = ver, !.row = row]
  <1>1. /\ acReq[r].pc = "idle" /\ acUser[u].live /\ Becomes(r, t)
        /\ UNCHANGED <<acUser, acMissed, acOverlap, acTok, lockVars, accessVars>>
    BY DEF VerifyStart, Start, At, manageVars
  <1>3. row \in UserRow /\ row.ver = acUser[u].ver /\ ver \in Nat
    BY DEF UserRow, AccountsInv, AccountTypes
  <1> HIDE DEF row, ver
  <1>4. t \in ReqRow /\ t.pc = "vlock" /\ t.op = "verify" /\ t.user = u /\ t.row = row
    BY <1>3, IdleOk DEF ReqRow, SessionSteps
  <1> HIDE DEF t
  <1>6. ReqOk(t)
    BY <1>1, <1>3, <1>4 DEF ReqOk, Seen, SessionSteps, MfaSteps, ManageSteps, Manages
  <1>7. ReadsRow(acReq[r], t) /\ PassesOpen(acReq[r], t) /\ t.op \notin Manages /\ acReq[r].pc # "revoke"
    BY <1>1, <1>3, <1>4 DEF GuessSteps, Manages, ReadsRow, PassesOpen
  <1>. QED BY <1>1, <1>4, <1>6, <1>7, OnlyMoves

LEMMA VerifyLockStep ==
    ASSUME AccountsInv, NEW r \in AcRequests, NEW ok \in BOOLEAN, VerifyLock(r, ok)
    PROVE  AccountsInv'
  <1> DEFINE o == acReq[r]
             t == [o EXCEPT !.pc = IF ok THEN "clear" ELSE "fail"]
  <1>1. /\ o.pc = "vlock" /\ o \in ReqRow /\ ReqOk(o) /\ acReq[r] = o
        /\ IF acLock[o.user] \/ o.row.secret = 0 THEN Ends(r) ELSE Becomes(r, t)
        /\ UNCHANGED <<acUser, acMissed, acOverlap, acTok, lockVars, accessVars>>
    BY DEF VerifyLock, At, manageVars, AccountsInv, AccountTypes
  <1> HIDE DEF o
  <1>3. CASE Ends(r)
    BY <1>1, <1>3, PlainlyAnswered
  <1>4. CASE ~acLock[o.user] /\ Becomes(r, t)
    <2>1. /\ t \in ReqRow /\ t.pc = (IF ok THEN "clear" ELSE "fail") /\ t.op = o.op /\ t.user = o.user
          /\ t.row = o.row
      BY <1>1 DEF ReqRow, SessionSteps
    <2> HIDE DEF t
    <2>4. t.op \notin Manages /\ Seen(t.user) /\ t.user \in AcUsers /\ o.pc \in SessionSteps
      BY <1>1, <2>1 DEF ReqOk, ManageSteps, SessionSteps
    <2>5. ReqOk(t)
      BY <1>1, <2>1, <2>4 DEF ReqOk, Seen, SessionSteps, MfaSteps, ManageSteps
    <2>6. ReadsRow(o, t) /\ PassesOpen(o, t)
      BY <1>4, <2>1, <2>4 DEF ReadsRow, PassesOpen
    <2>. QED BY <1>1, <1>4, <2>1, <2>4, <2>5, <2>6, OnlyMoves
  <1>. QED BY <1>1, <1>3, <1>4

\* The refresh and access tokens a request opens a session with.
SessionTok(r) ==
    [st |-> "active", user |-> acReq[r].user, ver |-> acReq[r].begun, over |-> acReq[r].begun < acUser[acReq[r].user].ver]

LEMMA OpenedSession ==
    ASSUME AccountsInv, NEW r \in AcRequests, acReq[r].pc \in {"issue", "rotate"}
    PROVE  /\ \E n \in TokRow : /\ n = SessionTok(r) /\ Seen(n.user) /\ (n.over \/ n.ver >= acUser[n.user].ver)
           /\ \E a \in AccessRow : a = Minted(acReq[r].user, acReq[r].row) /\ AccessOk(a)
  <1> DEFINE o == acReq[r]
  <1>1. o \in ReqRow /\ ReqOk(o) /\ o.pc \in {"issue", "rotate"} /\ AccountTypes /\ FreshInv
    BY DEF AccountsInv, AccountTypes
  <1>2. OnOldRow(o.user) \/ ~(o.row.ver < acUser[o.user].ver)
    BY <1>1 DEF OnOldRow
  <1> HIDE DEF o
  <1>3. Seen(o.user) /\ o.user \in AcUsers /\ o.begun \in Nat /\ o.row \in UserRow /\ acUser[o.user].ver \in Nat
    BY <1>1 DEF ReqOk, SessionSteps, ReqRow, AccountTypes, UserRow
  <1> DEFINE late == o.begun < acUser[o.user].ver
             n == [st |-> "active", user |-> o.user, ver |-> o.begun, over |-> late]
             a == [user |-> o.user, role |-> o.row.role, ver |-> o.row.ver, age |-> 0]
  <1>4. late \in BOOLEAN /\ (late \/ o.begun >= acUser[o.user].ver)
    BY <1>3
  <1>5. n = SessionTok(r) /\ a = Minted(acReq[r].user, acReq[r].row)
    BY DEF o, SessionTok, Minted
  <1> HIDE DEF late
  <1>6. n \in TokRow /\ n.user = o.user /\ n.ver = o.begun /\ n.over = late
    BY <1>3, <1>4 DEF TokRow
  <1> HIDE DEF n
  <1>7. a \in AccessRow /\ a.user = o.user /\ a.ver = o.row.ver /\ a.age = 0
    BY <1>3 DEF UserRow, AccessRow
  <1> HIDE DEF a
  <1>8. AccessOk(a)
    <2>1. 0 < AcTtl
      BY AcAssumption
    <2>2. a.ver < acUser[a.user].ver => acQuiet[a.user] = 0
      BY <1>1, <1>2, <1>3, <1>7 DEF FreshInv
    <2>. QED BY <1>3, <1>7, <2>1, <2>2 DEF AccessOk
  <1>9. \E x \in TokRow : x = SessionTok(r) /\ Seen(x.user) /\ (x.over \/ x.ver >= acUser[x.user].ver)
    BY <1>3, <1>4, <1>5, <1>6
  <1>. QED BY <1>5, <1>7, <1>8, <1>9

\* r is answered, and opens no session but its own.
LEMMA SessionOpened ==
    ASSUME AccountsInv, NEW r \in AcRequests, acReq[r].pc \in {"issue", "rotate"}, Ends(r),
           UNCHANGED <<acUser, acMissed, acOverlap, lockVars, acQuiet>>,
           acAccess' \subseteq acAccess \cup {Minted(acReq[r].user, acReq[r].row)},
           acTok' \in [AcTokens -> TokRow],
           \A x \in AcTokens : acTok'[x] = acTok[x] \/ acTok'[x].st # "active" \/ acTok'[x] = SessionTok(r)
    PROVE  AccountsInv'
  <1>1. PICK n \in TokRow : n = SessionTok(r) /\ Seen(n.user) /\ (n.over \/ n.ver >= acUser[n.user].ver)
    BY OpenedSession
  <1>2. PICK a \in AccessRow : a = Minted(acReq[r].user, acReq[r].row) /\ AccessOk(a)
    BY OpenedSession
  <1>3. AccountTypes /\ Becomes(r, Idle) /\ UNCHANGED <<acFails, acLock, acTries>>
    BY DEF AccountsInv, Ends, lockVars
  <1>4. Idle.op \notin Manages /\ Idle.pc \notin SessionSteps /\ Idle.pc \notin GuessSteps
    BY DEF Idle, Manages, SessionSteps, GuessSteps
  <1>5. AccountTypes' => GuessInv'
    <2>1. \A v \in AcUsers : LockOk(v)'
      BY <1>3 DEF LockOk, AccountsInv, GuessInv
    <2>2. \A q \in AcRequests : acReq'[q] = IF q = r THEN Idle ELSE acReq[q]
      BY <1>3 DEF Becomes, AccountTypes
    <2>3. \A v \in AcUsers : PastCheck(v)' \subseteq PastCheck(v)
      BY <1>4, <2>2 DEF PastCheck, GuessSteps
    <2>. QED BY <1>3, <2>1, <2>3, GuessesKept
  <1>6. acAccess' \subseteq AccessRow /\ \A x \in acAccess' : x \in acAccess \/ AccessOk(x)
    BY <1>2, <1>3 DEF AccountTypes
  <1>7. \A x \in AcTokens : \/ acTok'[x] = acTok[x] \/ acTok'[x].st # "active"
                            \/ Seen(acTok'[x].user) /\ (acTok'[x].over \/ acTok'[x].ver >= acUser[acTok'[x].user].ver)
    BY <1>1
  <1>8. ReadsRow(acReq[r], Idle)
    BY <1>4 DEF ReadsRow
  <1>. QED BY <1>3, <1>4, <1>5, <1>6, <1>7, <1>8, IdleOk, RequestMoves DEF AccountTypes

LEMMA IssueStep ==
    ASSUME AccountsInv, NEW r \in AcRequests, Issue(r)
    PROVE  AccountsInv'
  <1>1. /\ acReq[r].pc = "issue" /\ Ends(r) /\ UNCHANGED <<acUser, acMissed, acOverlap, lockVars, acQuiet>>
        /\ \/ UNCHANGED <<acTok, acAccess>>
           \/ /\ \E t \in FreeTokens : acTok' = [acTok EXCEPT ![t] = SessionTok(r)]
              /\ acAccess' = acAccess \cup {Minted(acReq[r].user, acReq[r].row)}
    BY DEF Issue, At, manageVars, SessionTok
  <1>2. PICK n \in TokRow : n = SessionTok(r)
    BY <1>1, OpenedSession
  <1>3. acTok \in [AcTokens -> TokRow]
    BY DEF AccountsInv, AccountTypes
  <1>4. UNCHANGED acTok \/ \E t \in AcTokens : acTok' = [acTok EXCEPT ![t] = n]
    BY <1>1, <1>2 DEF FreeTokens
  <1>5. acTok' \in [AcTokens -> TokRow] /\ \A x \in AcTokens : acTok'[x] \in {acTok[x], n}
    BY <1>3, <1>4
  <1>. QED BY <1>1, <1>2, <1>5, SessionOpened

LEMMA RotateStep ==
    ASSUME AccountsInv, NEW r \in AcRequests, Rotate(r)
    PROVE  AccountsInv'
  <1>1. /\ acReq[r].pc = "rotate" /\ Ends(r) /\ UNCHANGED <<acUser, acMissed, acOverlap, lockVars, acQuiet>>
        /\ acAccess' \subseteq acAccess \cup {Minted(acReq[r].user, acReq[r].row)}
        /\ \E t \in FreeTokens :
               acTok' = [x \in AcTokens |->
                           IF x = acReq[r].tok /\ acTok[x].st = "active" THEN [acTok[x] EXCEPT !.st = "revoked"]
                           ELSE IF x = t /\ acUser[acReq[r].user].live THEN SessionTok(r)
                           ELSE acTok[x]]
    BY DEF Rotate, At, manageVars, SessionTok
  <1>2. acTok \in [AcTokens -> TokRow]
    BY DEF AccountsInv, AccountTypes
  <1>3. PICK n \in TokRow : n = SessionTok(r)
    BY <1>1, OpenedSession
  <1>4. \A x \in AcTokens : acTok'[x] \in {acTok[x], n, [acTok[x] EXCEPT !.st = "revoked"]}
    BY <1>1, <1>3
  <1>5. \A x \in AcTokens : [acTok[x] EXCEPT !.st = "revoked"] \in TokRow /\ [acTok[x] EXCEPT !.st = "revoked"].st # "active"
    BY <1>2 DEF TokRow
  <1>6. acTok' \in [AcTokens -> TokRow]
    <2>1. acTok' = [x \in AcTokens |-> acTok'[x]]
      BY <1>1
    <2>2. \A x \in AcTokens : acTok'[x] \in TokRow
      BY <1>2, <1>4, <1>5
    <2>. QED BY <2>1, <2>2
  <1>. QED BY <1>1, <1>3, <1>4, <1>5, <1>6, SessionOpened

LEMMA RefreshFindStep ==
    ASSUME AccountsInv, NEW r \in AcRequests, NEW x \in AcTokens, RefreshFind(r, x)
    PROVE  AccountsInv'
  <1> DEFINE u == acTok[x].user
             ver == acTok[x].ver
             t == [Idle EXCEPT !.pc = "ruser", !.op = "refresh", !.user = u, !.tok = x, !.begun = ver]
  <1>1. /\ acReq[r].pc = "idle" /\ acTok[x].st = "active" /\ Becomes(r, t)
        /\ UNCHANGED <<acUser, acMissed, acOverlap, acTok, lockVars, accessVars>>
    BY DEF RefreshFind, Start, At, manageVars
  <1>2. u \in AcUsers /\ ver \in Nat
    BY <1>1 DEF AccountsInv, TokOk, Seen, AccountTypes, TokRow
  <1> HIDE DEF u, ver
  <1>3. t \in ReqRow /\ t.pc = "ruser" /\ t.op = "refresh" /\ t.user = u
    BY <1>2, IdleOk DEF ReqRow
  <1> HIDE DEF t
  <1>4. ReqOk(t)
    BY <1>2, <1>3 DEF ReqOk, SessionSteps, MfaSteps, ManageSteps, Manages
  <1>5. ReadsRow(acReq[r], t) /\ PassesOpen(acReq[r], t) /\ t.op \notin Manages
    BY <1>3 DEF Manages, SessionSteps, GuessSteps, ReadsRow, PassesOpen
  <1>. QED BY <1>1, <1>3, <1>4, <1>5, OnlyMoves

LEMMA RefreshUserStep ==
    ASSUME AccountsInv, NEW r \in AcRequests, RefreshUser(r)
    PROVE  AccountsInv'
  <1> DEFINE o == acReq[r]
             row == acUser[o.user]
             t == [o EXCEPT !.pc = "rotate", !.row = row]
  <1>1. /\ o.pc = "ruser" /\ o \in ReqRow /\ ReqOk(o) /\ acReq[r] = o
        /\ (acUser[o.user].live /\ Becomes(r, t)) \/ Ends(r)
        /\ UNCHANGED <<acUser, acMissed, acOverlap, acTok, lockVars, accessVars>>
    BY DEF RefreshUser, At, manageVars, AccountsInv, AccountTypes
  <1>2. o.user \in AcUsers /\ acUser[o.user] \in UserRow /\ o.op \notin Manages
    BY <1>1 DEF AccountsInv, AccountTypes, ReqOk, ManageSteps
  <1> HIDE DEF o
  <1>3. CASE acUser[o.user].live /\ Becomes(r, t)
    <2>1. row \in UserRow /\ row.ver = acUser[o.user].ver
      BY <1>2
    <2> HIDE DEF row
    <2>2. t \in ReqRow /\ t.pc = "rotate" /\ t.row = row /\ t.user = o.user /\ t.op = o.op
      BY <1>1, <2>1 DEF ReqRow, SessionSteps
    <2> HIDE DEF t
    <2>3. ReqOk(t)
      BY <1>2, <1>3, <2>1, <2>2 DEF ReqOk, Seen, SessionSteps, MfaSteps, ManageSteps
    <2>4. ReadsRow(o, t) /\ PassesOpen(o, t) /\ t.op \notin Manages
      BY <1>1, <1>2, <2>1, <2>2 DEF GuessSteps, ReadsRow, PassesOpen
    <2>. QED BY <1>1, <1>3, <2>2, <2>3, <2>4, OnlyMoves
  <1>4. CASE Ends(r)
    BY <1>1, <1>4, PlainlyAnswered
  <1>. QED BY <1>1, <1>3, <1>4

-----------------------------------------------------------------------------
(* The Users API and the second factor *)

LEMMA ManageStartStep ==
    ASSUME AccountsInv, NEW r \in AcRequests, NEW op \in Manages, NEW u \in AcUsers, Manage(r, op, u)
    PROVE  AccountsInv'
  <1> DEFINE row == acUser[u]
             t == [Idle EXCEPT !.pc = "guard", !.op = op, !.user = u, !.row = row]
  <1>1. /\ acReq[r].pc = "idle" /\ acUser[u].live /\ Becomes(r, t)
        /\ acOverlap' = (acOverlap \/ \E q \in AcRequests : Managing(q))
        /\ UNCHANGED <<acUser, acMissed, acTok, acFails, acLock, acTries, acAccess, acQuiet>>
    BY DEF Manage, Start, At, lockVars, accessVars
  <1>2. acUser[u] \in UserRow /\ acOverlap \in BOOLEAN
    BY DEF AccountsInv, AccountTypes
  <1>3. row \in UserRow /\ row.role = acUser[u].role
    BY <1>2
  <1> HIDE DEF row
  <1>4. t \in ReqRow /\ t.pc = "guard" /\ t.op = op /\ t.user = u /\ t.row = row
    BY <1>3, IdleOk DEF ReqRow, ManageSteps
  <1> HIDE DEF t
  <1>5. ReqOk(t)
    BY <1>1, <1>3, <1>4 DEF ReqOk, Seen, SessionSteps, MfaSteps, ManageSteps
  <1>6. acOverlap' \in BOOLEAN /\ (acOverlap => acOverlap') /\ (~acOverlap' => \A q \in AcRequests : ~Managing(q))
    BY <1>1, <1>2
  <1>7. AccountTypes' => GuessInv'
    <2>1. \A v \in AcUsers : LockOk(v)'
      BY <1>1 DEF LockOk, AccountsInv, GuessInv
    <2>2. \A q \in AcRequests : acReq'[q] = IF q = r THEN t ELSE acReq[q]
      BY <1>1 DEF Becomes, AccountsInv, AccountTypes
    <2>3. \A v \in AcUsers : PastCheck(v)' \subseteq PastCheck(v)
      BY <1>4, <2>2 DEF PastCheck
    <2>. QED BY <1>1, <2>1, <2>3, GuessesKept
  <1>8. ReadsRow(acReq[r], t)
    BY <1>4 DEF ReadsRow, SessionSteps
  <1>. QED BY <1>1, <1>4, <1>5, <1>6, <1>7, <1>8, RequestMoves DEF AccountsInv, AccountTypes

LEMMA GuardStep ==
    ASSUME AccountsInv, NEW r \in AcRequests, Guard(r)
    PROVE  AccountsInv'
  <1> DEFINE o == acReq[r]
             t == [o EXCEPT !.pc = "write"]
             refused == o.op \in {"demote", "delete"} /\ o.row.role = "admin" /\ Cardinality(Admins) <= 1
  <1>1. /\ o.pc = "guard" /\ o \in ReqRow /\ ReqOk(o) /\ acReq[r] = o
        /\ IF refused THEN Ends(r) ELSE Becomes(r, t)
        /\ UNCHANGED <<acUser, acMissed, acOverlap, acTok, lockVars, accessVars>>
    BY DEF Guard, At, manageVars, AccountsInv, AccountTypes
  <1>2. o.user \in AcUsers /\ o.op \in Manages /\ Seen(o.user)
    BY <1>1 DEF ReqOk, ManageSteps
  <1> HIDE DEF o
  <1>3. CASE refused
    BY <1>1, <1>3, PlainlyAnswered
  <1>4. CASE ~refused
    <2>1. t \in ReqRow /\ t.pc = "write" /\ t.user = o.user /\ t.op = o.op
      BY <1>1 DEF ReqRow, ManageSteps
    <2> HIDE DEF t
    <2>2. ASSUME ~acOverlap, t.op \in {"demote", "delete"} PROVE \E a \in AcUsers : IsAdmin(a) /\ a # t.user
      <3>1. CASE o.row.role = "admin"
        <4>1. ~(Cardinality(Admins) <= 1)
          BY <1>4, <2>1, <2>2, <3>1
        <4>2. ~(Admins \subseteq {o.user})
          <5> SUFFICES ASSUME Admins \subseteq {o.user} PROVE Cardinality(Admins) <= 1
            BY <4>1
          <5>1. IsFiniteSet({o.user}) /\ Cardinality({o.user}) = 1
            BY FS_Singleton
          <5>. QED BY <5>1, FS_Subset
        <4>. QED BY <2>1, <4>2 DEF Admins, IsAdmin
      <3>2. CASE o.row.role # "admin"
        <4>1. acUser[o.user].role # "admin"
          BY <1>1, <2>2, <3>2 DEF ReqOk
        <4>2. Admins # {}
          BY <2>2 DEF AccountsInv, AdminRemains
        <4>. QED BY <2>1, <4>1, <4>2 DEF Admins, IsAdmin
      <3>. QED BY <3>1, <3>2
    <2>3. ReqOk(t)
      BY <1>2, <2>1, <2>2 DEF ReqOk, SessionSteps, MfaSteps, ManageSteps
    <2>4. ReadsRow(o, t) /\ PassesOpen(o, t)
      BY <2>1 DEF SessionSteps, GuessSteps, ReadsRow, PassesOpen
    <2>. QED BY <1>1, <1>2, <1>4, <2>1, <2>3, <2>4, OnlyMoves
  <1>. QED BY <1>3, <1>4

LEMMA MfaReadStep ==
    ASSUME AccountsInv, NEW r \in AcRequests, NEW op \in MfaSteps, NEW u \in AcUsers, MfaRead(r, op, u)
    PROVE  AccountsInv'
  <1> DEFINE row == acUser[u]
             t == [Idle EXCEPT !.pc = op, !.op = op, !.user = u, !.row = row]
  <1>1. /\ acReq[r].pc = "idle" /\ acUser[u].live /\ Becomes(r, t)
        /\ UNCHANGED <<acUser, acMissed, acOverlap, acTok, lockVars, accessVars>>
    BY DEF MfaRead, Start, At, manageVars
  <1>2. acUser[u] \in UserRow
    BY DEF AccountsInv, AccountTypes
  <1>3. row \in UserRow /\ row.secret = acUser[u].secret
    BY <1>2
  <1> HIDE DEF row
  <1>4. t \in ReqRow /\ t.pc = op /\ t.op = op /\ t.user = u /\ t.row = row
    BY <1>3, IdleOk DEF ReqRow
  <1> HIDE DEF t
  <1>5. ReqOk(t) /\ t.op \notin Manages
    BY <1>1, <1>3, <1>4 DEF ReqOk, Seen, SessionSteps, MfaSteps, ManageSteps, Manages
  <1>6. ReadsRow(acReq[r], t) /\ PassesOpen(acReq[r], t)
    BY <1>4 DEF SessionSteps, GuessSteps, MfaSteps, ReadsRow, PassesOpen
  <1>. QED BY <1>1, <1>4, <1>5, <1>6, OnlyMoves

-----------------------------------------------------------------------------
(* Writes of a row *)

\* What the write of u's row leaves of another request.
AfterWrite(q, u) == IF acReq[q].user = u THEN [acReq[q] EXCEPT !.over = TRUE] ELSE acReq[q]

LEMMA RequestOvertaken ==
    ASSUME AccountsInv, NEW u \in AcUsers, NEW row \in UserRow, acUser' = [acUser EXCEPT ![u] = row],
           Seen(u) => row.live \/ row.ver # 0, acOverlap' = acOverlap,
           NEW q \in AcRequests,
           ~acOverlap /\ Managing(q) => row.role = acUser[u].role /\ row.live = acUser[u].live,
           NEW p, p = AfterWrite(q, u)
    PROVE  /\ p \in ReqRow /\ ReqOk(p)' /\ p.pc = acReq[q].pc /\ p.user = acReq[q].user /\ p.op = acReq[q].op
           /\ p.row = acReq[q].row
  <1> DEFINE o == acReq[q]
  <1>1. o \in ReqRow /\ ReqOk(o) /\ acUser \in [AcUsers -> UserRow] /\ (Managing(q) <=> o.op \in Manages)
    BY DEF AccountsInv, AccountTypes, Managing, Manages
  <1>2. p = IF o.user = u THEN [o EXCEPT !.over = TRUE] ELSE o
    BY DEF AfterWrite
  <1> HIDE DEF o
  <1>3. /\ p \in ReqRow /\ p.pc = o.pc /\ p.user = o.user /\ p.op = o.op /\ p.row = o.row
        /\ IF o.user = u THEN p.over = TRUE ELSE p.over = o.over
    BY <1>1, <1>2 DEF ReqRow
  <1>4. \A v \in AcUsers : acUser'[v] = IF v = u THEN row ELSE acUser[v]
    BY <1>1
  <1>5. \A v : Seen(v) => Seen(v)'
    BY <1>4 DEF Seen
  <1>6. (p.pc # "idle" => p.user \in AcUsers) /\ (p.op \in Manages <=> p.pc \in ManageSteps)
    BY <1>1, <1>3 DEF ReqOk
  <1>7. p.pc \in SessionSteps \cup MfaSteps \cup {"guard", "write"} => Seen(p.user)'
    BY <1>1, <1>3, <1>5 DEF ReqOk
  <1>8. p.pc \in MfaSteps => p.over \/ p.row.secret = acUser'[p.user].secret
    <2>1. CASE o.user = u
      BY <1>3, <2>1
    <2>2. CASE o.user # u
      <3>1. o.pc \in MfaSteps => acUser'[o.user] = acUser[o.user]
        BY <1>1, <1>4, <2>2 DEF ReqOk, MfaSteps
      <3>. QED BY <1>1, <1>3, <2>2, <3>1 DEF ReqOk
    <2>. QED BY <2>1, <2>2
  <1>9. ASSUME ~acOverlap, p.pc \in {"guard", "write"}
        PROVE  /\ acUser'[p.user].role = acUser[p.user].role
               /\ \A a : IsAdmin(a)' <=> IsAdmin(a)
    <2>1. row.role = acUser[u].role /\ row.live = acUser[u].live
      BY <1>1, <1>3, <1>9 DEF ReqOk, ManageSteps
    <2>2. p.user \in AcUsers
      BY <1>6, <1>9
    <2>. QED BY <1>4, <2>1, <2>2 DEF IsAdmin
  <1>10. /\ ~acOverlap' /\ p.pc = "guard" => p.row.role = acUser'[p.user].role
         /\ ~acOverlap' /\ p.pc = "write" /\ p.op \in {"demote", "delete"} => \E a \in AcUsers : IsAdmin(a)' /\ a # p.user
    BY <1>1, <1>3, <1>9 DEF ReqOk
  <1>11. ReqOk(p)'
    BY <1>6, <1>7, <1>8, <1>10 DEF ReqOk
  <1>. QED BY <1>3, <1>11 DEF o

LEMMA CreateStep ==
    ASSUME AccountsInv, NEW u \in AcUsers, NEW role \in {"admin", "user"}, Create(u, role)
    PROVE  AccountsInv'
  <1> DEFINE row == [NoUser EXCEPT !.live = TRUE, !.role = role, !.ver = 1]
  <1>1. /\ ~acUser[u].live /\ acUser[u].ver = 0 /\ acUser' = [acUser EXCEPT ![u] = row]
        /\ UNCHANGED <<acTok, acReq, acMissed, acOverlap, acFails, acLock, acTries, acAccess, acQuiet>>
    BY DEF Create, lockVars, manageVars, accessVars
  <1>2. row \in UserRow /\ row.live /\ row.ver = 1 /\ row.mfa = NoUser.mfa
    BY IdleOk DEF UserRow
  <1>3. ~row.mfa
    BY <1>2 DEF NoUser
  <1> HIDE DEF row
  <1>4. AccountTypes
    BY DEF AccountsInv
  <1>5. \A v \in AcUsers : acUser'[v] = IF v = u THEN row ELSE acUser[v]
    BY <1>1, <1>4 DEF AccountTypes
  <1>6. AccountTypes'
    BY <1>1, <1>2, <1>4 DEF AccountTypes
  <1>7. ~Seen(u) /\ (\A v : Seen(v) => Seen(v)' /\ acUser'[v] = acUser[v]) /\ \A v : IsAdmin(v) => IsAdmin(v)'
    BY <1>1, <1>5 DEF Seen, IsAdmin
  <1>8. \A r \in AcRequests : ReqOk(acReq[r])'
    <2> SUFFICES ASSUME NEW r \in AcRequests PROVE ReqOk(acReq[r])'
      OBVIOUS
    <2>1. ReqOk(acReq[r]) /\ acReq'[r] = acReq[r]
      BY <1>1 DEF AccountsInv
    <2>. QED BY <1>1, <1>7, <2>1 DEF ReqOk
  <1>9. \A x \in AcTokens : TokOk(acTok[x])'
    <2> SUFFICES ASSUME NEW x \in AcTokens PROVE TokOk(acTok[x])'
      OBVIOUS
    <2>1. TokOk(acTok[x]) /\ acTok'[x] = acTok[x]
      BY <1>1 DEF AccountsInv
    <2>. QED BY <1>1, <1>7, <2>1 DEF TokOk, Revoking
  <1>10. OneManager'
    BY <1>1 DEF AccountsInv, OneManager, Managing
  <1>13. FreshInv'
    <2>1. \A q \in AcRequests : Follows(q)
      BY <1>1 DEF Follows
    <2>. QED BY <1>1, <1>6, <1>7, <2>1, FreshKept
  <1>14. GuessInv'
    BY <1>1 DEF AccountsInv, GuessInv, GuessesBounded, PastCheck, LockOk
  <1>11. AdminRemains'
    BY <1>1, <1>7 DEF AccountsInv, AdminRemains, Admins, IsAdmin
  <1>12. ConfirmedIsStored'
    BY <1>3, <1>5 DEF AccountsInv, ConfirmedIsStored
  <1>. QED BY <1>6, <1>8, <1>9, <1>10, <1>11, <1>12, <1>13, <1>14 DEF AccountsInv

\* r writes the row of its account and goes on as t.
RowWrite(r, row, t) ==
    /\ acReq[r].pc \notin {"idle", "revoke"}
    /\ acUser' = [acUser EXCEPT ![acReq[r].user] = row]
    /\ Seen(acReq[r].user) => row.live \/ row.ver # 0
    /\ row.mfa /\ row.proven # 0 => row.secret = row.proven
    /\ UNCHANGED <<acMissed, acOverlap, lockVars, acAccess>>
    /\ \/ acQuiet' = [acQuiet EXCEPT ![acReq[r].user] = 0]
       \/ acQuiet' = acQuiet /\ row.ver = acUser[acReq[r].user].ver
    /\ t.op \in Manages => Managing(r)
    /\ t.pc \notin SessionSteps \cup GuessSteps
    /\ acReq' = [RowOvertaken(r, acReq[r].user) EXCEPT ![r] = t]
    /\ ~acOverlap /\ ~Managing(r) => row.role = acUser[acReq[r].user].role /\ row.live = acUser[acReq[r].user].live
    /\ ~acOverlap /\ Managing(r) => Admins' # {}
    /\ acTok' \in [AcTokens -> TokRow]
    /\ \A x \in AcTokens : \/ acTok'[x].st # "active"
                           \/ acTok'[x] = acTok[x] /\ \/ acTok[x].user # acReq[r].user
                                                      \/ row.ver = acUser[acReq[r].user].ver
                                                      \/ t.pc = "revoke" /\ t.user = acReq[r].user

LEMMA RowWritten ==
    ASSUME AccountsInv, NEW r \in AcRequests, NEW row \in UserRow, NEW t \in ReqRow, ReqOk(t)', RowWrite(r, row, t)
    PROVE  AccountsInv'
  <1>1. PICK u : u = acReq[r].user
    OBVIOUS
  <1>2. AccountTypes /\ OneManager /\ u \in AcUsers
    BY <1>1 DEF AccountsInv, ReqOk, RowWrite
  <1>3. acUser' = [acUser EXCEPT ![u] = row] /\ acReq' = [RowOvertaken(r, u) EXCEPT ![r] = t]
    BY <1>1 DEF RowWrite
  <1>4. \A v \in AcUsers : acUser'[v] = IF v = u THEN row ELSE acUser[v]
    BY <1>2, <1>3 DEF AccountTypes
  <1>5. \A q \in AcRequests : acReq'[q] = IF q = r THEN t
                                          ELSE IF acReq[q].user = u THEN [acReq[q] EXCEPT !.over = TRUE] ELSE acReq[q]
    BY <1>3 DEF RowOvertaken
  <1>6. ASSUME NEW q \in AcRequests, q # r
        PROVE  /\ acReq'[q] \in ReqRow /\ ReqOk(acReq[q])' /\ acReq'[q].pc = acReq[q].pc
               /\ acReq'[q].user = acReq[q].user /\ acReq'[q].op = acReq[q].op /\ acReq'[q].row = acReq[q].row
    <2>1. PICK p : p = acReq'[q]
      OBVIOUS
    <2>2. p = AfterWrite(q, u)
      BY <1>5, <1>6, <2>1 DEF AfterWrite
    <2>3. ~acOverlap /\ Managing(q) => row.role = acUser[u].role /\ row.live = acUser[u].live
      BY <1>1, <1>2, <1>6 DEF OneManager, RowWrite
    <2>4. (Seen(u) => row.live \/ row.ver # 0) /\ acOverlap' = acOverlap
      BY <1>1 DEF RowWrite
    <2>5. /\ p \in ReqRow /\ ReqOk(p)' /\ p.pc = acReq[q].pc /\ p.user = acReq[q].user /\ p.op = acReq[q].op
          /\ p.row = acReq[q].row
      BY <1>2, <1>3, <2>2, <2>3, <2>4, RequestOvertaken
    <2>. QED BY <2>1, <2>5 DEF ReqOk
  <1>7. \A q \in AcRequests : acReq'[q] \in ReqRow /\ ReqOk(acReq[q])'
    <2> SUFFICES ASSUME NEW q \in AcRequests PROVE acReq'[q] \in ReqRow /\ ReqOk(acReq[q])'
      OBVIOUS
    <2>1. CASE q = r
      <3>1. acReq'[q] = t
        BY <1>5, <2>1
      <3>. QED BY <3>1 DEF ReqOk
    <2>2. CASE q # r
      BY <1>6, <2>2
    <2>. QED BY <2>1, <2>2
  <1>8. AccountTypes'
    <2>1. acReq' \in [AcRequests -> ReqRow]
      <3>1. acReq' = [q \in AcRequests |-> acReq'[q]]
        BY <1>3 DEF RowOvertaken
      <3>. QED BY <1>7, <3>1
    <2>2. acUser' \in [AcUsers -> UserRow]
      BY <1>2, <1>3 DEF AccountTypes
    <2>3. acQuiet' \in [AcUsers -> Nat]
      BY <1>2 DEF AccountTypes, RowWrite
    <2>. QED BY <1>2, <2>1, <2>2, <2>3 DEF AccountTypes, RowWrite, lockVars
  <1>9. \A x \in AcTokens : TokOk(acTok[x])'
    <2> SUFFICES ASSUME NEW x \in AcTokens, acTok'[x].st = "active" PROVE TokOk(acTok[x])'
      BY DEF TokOk
    <2>1. /\ acTok'[x] = acTok[x] /\ TokOk(acTok[x]) /\ UNCHANGED acMissed
          /\ acTok[x].user # u \/ row.ver = acUser[u].ver \/ (t.pc = "revoke" /\ t.user = u)
      BY <1>1 DEF AccountsInv, RowWrite
    <2>2. \A v : Seen(v) => Seen(v)'
      BY <1>1, <1>4 DEF Seen, RowWrite
    <2>3. \A v : Revoking(v) => Revoking(v)'
      <3> SUFFICES ASSUME NEW v, Revoking(v) PROVE Revoking(v)'
        OBVIOUS
      <3>1. PICK q \in AcRequests : acReq[q].user = v /\ acReq[q].pc = "revoke"
        BY DEF Revoking
      <3>2. q # r
        BY <3>1 DEF RowWrite
      <3>. QED BY <1>6, <3>1, <3>2 DEF Revoking
    <2>4. CASE acTok[x].user # u \/ row.ver = acUser[u].ver
      <3>1. acTok[x].user \in AcUsers
        BY <2>1 DEF TokOk, Seen
      <3>2. acUser'[acTok[x].user].ver = acUser[acTok[x].user].ver
        BY <1>4, <2>4, <3>1
      <3>. QED BY <2>1, <2>2, <2>3, <3>2 DEF TokOk
    <2>5. CASE acTok[x].user = u /\ t.pc = "revoke" /\ t.user = u
      <3>1. Revoking(u)'
        BY <1>5, <2>5 DEF Revoking
      <3>. QED BY <2>1, <2>2, <2>5, <3>1 DEF TokOk
    <2>. QED BY <2>1, <2>4, <2>5
  <1>10. OneManager'
    <2> SUFFICES ASSUME ~acOverlap', NEW p \in AcRequests, NEW q \in AcRequests, Managing(p)', Managing(q)' PROVE p = q
      BY DEF OneManager
    <2>1. ASSUME NEW y \in AcRequests, Managing(y)' PROVE Managing(y)
      <3>1. CASE y = r
        BY <1>5, <2>1, <3>1 DEF Managing, Manages, RowWrite
      <3>2. CASE y # r
        BY <1>6, <2>1, <3>2 DEF Managing
      <3>. QED BY <3>1, <3>2
    <2>2. ~acOverlap
      BY DEF RowWrite
    <2>. QED BY <1>2, <2>1, <2>2 DEF OneManager
  <1>11. AdminRemains'
    <2> SUFFICES ASSUME ~acOverlap' PROVE Admins' # {}
      BY DEF AdminRemains
    <2>1. ~acOverlap
      BY DEF RowWrite
    <2>2. CASE Managing(r)
      BY <2>1, <2>2 DEF RowWrite
    <2>3. CASE ~Managing(r)
      <3>1. \A a \in AcUsers : acUser'[a].live = acUser[a].live /\ acUser'[a].role = acUser[a].role
        BY <1>1, <1>4, <2>1, <2>3 DEF RowWrite
      <3>2. Admins # {}
        BY <2>1 DEF AccountsInv, AdminRemains
      <3>. QED BY <3>1, <3>2 DEF Admins
    <2>. QED BY <2>2, <2>3
  <1>12. ConfirmedIsStored'
    BY <1>4 DEF AccountsInv, ConfirmedIsStored, RowWrite
  <1>13. FreshInv'
    <2>1. \A v : Seen(v) => Seen(v)'
      BY <1>1, <1>4 DEF Seen, RowWrite
    <2>2. \A q \in AcRequests : Follows(q)
      BY <1>5, <1>6 DEF Follows, RowWrite
    <2>3. \A v \in AcUsers : acQuiet'[v] = 0 \/ (acQuiet'[v] = acQuiet[v] /\ acUser'[v].ver = acUser[v].ver)
      BY <1>1, <1>2, <1>4 DEF RowWrite, AccountTypes
    <2>4. acAccess' = acAccess
      BY DEF RowWrite
    <2>. QED BY <1>8, <2>1, <2>2, <2>3, <2>4, FreshKept
  <1>14. GuessInv'
    <2>1. UNCHANGED <<acFails, acLock, acTries>> /\ t.pc \notin GuessSteps
      BY DEF RowWrite, lockVars
    <2>2. \A v \in AcUsers : PastCheck(v)' \subseteq PastCheck(v)
      BY <1>5, <1>6, <2>1 DEF PastCheck, GuessSteps
    <2>3. \A v \in AcUsers : LockOk(v)'
      BY <2>1 DEF LockOk, AccountsInv, GuessInv
    <2>. QED BY <1>8, <2>1, <2>2, <2>3, GuessesKept
  <1>. QED BY <1>7, <1>8, <1>9, <1>10, <1>11, <1>12, <1>13, <1>14 DEF AccountsInv

LEMMA ManagedRowOk ==
    ASSUME NEW op \in Manages, NEW old \in UserRow, old.mfa /\ old.proven # 0 => old.secret = old.proven,
           old.live \/ old.ver # 0
    PROVE  /\ ManagedRow(op, old) \in UserRow
           /\ ManagedRow(op, old).live \/ ManagedRow(op, old).ver # 0
           /\ ManagedRow(op, old).mfa /\ ManagedRow(op, old).proven # 0
                => ManagedRow(op, old).secret = ManagedRow(op, old).proven
           /\ op \notin {"demote", "delete"} /\ old.live /\ old.role = "admin"
                => ManagedRow(op, old).live /\ ManagedRow(op, old).role = "admin"
  <1>1. CASE op = "delete"
    <2> DEFINE ver == old.ver + 1
    <2>1. ManagedRow(op, old) = [NoUser EXCEPT !.ver = ver]
      BY <1>1 DEF ManagedRow
    <2>4. ver \in Nat /\ ver # 0
      BY DEF UserRow
    <2> HIDE DEF ver
    <2>2. /\ ManagedRow(op, old) \in UserRow /\ ManagedRow(op, old).ver = ver
          /\ ManagedRow(op, old).mfa = NoUser.mfa
      BY <2>1, <2>4, IdleOk DEF UserRow
    <2>3. ~NoUser.mfa /\ ManagedRow(op, old).ver # 0
      BY <2>2, <2>4 DEF NoUser
    <2>. QED BY <1>1, <2>2, <2>3
  <1>2. CASE op # "delete" /\ ~old.live
    BY <1>2 DEF ManagedRow
  <1>3. CASE op # "delete" /\ old.live
    <2> DEFINE role == CASE op = "demote" -> "user" [] op = "promote" -> "admin" [] OTHER -> old.role
    <2>1. ManagedRow(op, old) = [old EXCEPT !.role = role, !.ver = old.ver + 1]
      BY <1>3 DEF ManagedRow
    <2>2. role \in {"admin", "user"} /\ (op # "demote" /\ old.role = "admin" => role = "admin")
      BY DEF UserRow
    <2> DEFINE ver == old.ver + 1
    <2>4. ver \in Nat /\ ver # 0
      BY DEF UserRow
    <2> HIDE DEF role, ver
    <2>3. /\ ManagedRow(op, old) \in UserRow /\ ManagedRow(op, old).live = old.live
          /\ ManagedRow(op, old).ver = ver /\ ManagedRow(op, old).role = role
          /\ ManagedRow(op, old).mfa = old.mfa /\ ManagedRow(op, old).proven = old.proven
          /\ ManagedRow(op, old).secret = old.secret
      BY <2>1, <2>2, <2>4 DEF UserRow, ver
    <2>. QED BY <1>3, <2>2, <2>3, <2>4
  <1>. QED BY <1>1, <1>2, <1>3

LEMMA ManageWriteStep ==
    ASSUME AccountsInv, NEW r \in AcRequests, ManageWrite(r)
    PROVE  AccountsInv'
  <1>1. PICK o : o = acReq[r]
    OBVIOUS
  <1>2. PICK u : u = o.user
    OBVIOUS
  <1>3. PICK old : old = acUser[u]
    OBVIOUS
  <1>4. PICK row : row = ManagedRow(o.op, old)
    OBVIOUS
  <1>5. PICK t : t = [o EXCEPT !.pc = "revoke"]
    OBVIOUS
  <1>6. o \in ReqRow /\ ReqOk(o) /\ o.pc = "write" /\ AccountTypes
    BY <1>1 DEF ManageWrite, At, AccountsInv, AccountTypes
  <1>7. u \in AcUsers /\ o.op \in Manages /\ Seen(u) /\ Managing(r)
    BY <1>1, <1>2, <1>6 DEF ReqOk, ManageSteps, Managing, Manages
  <1>8. old \in UserRow /\ (old.mfa /\ old.proven # 0 => old.secret = old.proven) /\ (old.live \/ old.ver # 0)
    BY <1>3, <1>6, <1>7 DEF AccountTypes, AccountsInv, ConfirmedIsStored, Seen
  <1>9. /\ row \in UserRow /\ (row.live \/ row.ver # 0) /\ (row.mfa /\ row.proven # 0 => row.secret = row.proven)
        /\ o.op \notin {"demote", "delete"} /\ old.live /\ old.role = "admin" => row.live /\ row.role = "admin"
    BY <1>4, <1>7, <1>8, ManagedRowOk
  <1>10. acUser' = [acUser EXCEPT ![u] = row]
    BY <1>1, <1>2, <1>3, <1>4 DEF ManageWrite
  <1>11. /\ acTok' = [x \in AcTokens |-> IF o.op = "delete" /\ acTok[x].user = u THEN NoTok ELSE acTok[x]]
         /\ acReq' = [RowOvertaken(r, u) EXCEPT ![r] = t]
         /\ UNCHANGED <<acMissed, acOverlap, lockVars, acAccess>> /\ acQuiet' = [acQuiet EXCEPT ![u] = 0]
    BY <1>1, <1>2, <1>5 DEF ManageWrite, manageVars
  <1>12. t \in ReqRow /\ t.pc = "revoke" /\ t.user = u /\ t.op = o.op
    BY <1>2, <1>5, <1>6 DEF ReqRow, ManageSteps
  <1>18. t.pc \notin SessionSteps \cup GuessSteps
    BY <1>12 DEF SessionSteps, GuessSteps
  <1>13. ReqOk(t)'
    BY <1>7, <1>12 DEF ReqOk, ManageSteps, SessionSteps, MfaSteps
  <1>14. ~acOverlap => Admins' # {}
    <2> SUFFICES ASSUME ~acOverlap PROVE \E a \in AcUsers : acUser'[a].live /\ acUser'[a].role = "admin"
      BY DEF Admins
    <2>1. \A a \in AcUsers : acUser'[a] = IF a = u THEN row ELSE acUser[a]
      BY <1>6, <1>10 DEF AccountTypes
    <2>2. CASE o.op \in {"demote", "delete"}
      <3>1. PICK a \in AcUsers : IsAdmin(a) /\ a # u
        BY <1>2, <1>6, <2>2 DEF ReqOk
      <3>. QED BY <2>1, <3>1 DEF IsAdmin
    <2>3. CASE o.op \notin {"demote", "delete"}
      <3>1. PICK a \in AcUsers : acUser[a].live /\ acUser[a].role = "admin"
        BY DEF AccountsInv, AdminRemains, Admins
      <3>. QED BY <1>3, <1>9, <2>1, <2>3, <3>1
    <2>. QED BY <2>2, <2>3
  <1>15. acTok' \in [AcTokens -> TokRow]
    BY <1>6, <1>11, IdleOk DEF AccountTypes
  <1>16. \A x \in AcTokens : acTok'[x].st # "active" \/ acTok'[x] = acTok[x]
    <2>1. NoTok.st # "active"
      BY DEF NoTok
    <2>. QED BY <1>11, <2>1
  <1>17. RowWrite(r, row, t)
    BY <1>1, <1>2, <1>3, <1>6, <1>7, <1>9, <1>10, <1>11, <1>12, <1>14, <1>15, <1>16, <1>18 DEF RowWrite
  <1>. QED BY <1>9, <1>12, <1>13, <1>17, RowWritten

\* The row setup, confirm or disable writes over old.
MfaRow(q, old) ==
    IF ~old.live THEN old ELSE
    CASE q.pc = "setup" -> [old EXCEPT !.secret = q.row.secret + 1, !.mfa = FALSE]
      [] q.pc = "confirm" -> [old EXCEPT !.mfa = TRUE, !.proven = IF q.over THEN 0 ELSE q.row.secret]
      [] q.pc = "disable" -> [old EXCEPT !.secret = 0, !.mfa = FALSE]

LEMMA MfaRowOk ==
    ASSUME NEW q \in ReqRow, q.pc \in MfaSteps, NEW old \in UserRow, old.mfa /\ old.proven # 0 => old.secret = old.proven,
           q.over \/ q.row.secret = old.secret
    PROVE  /\ MfaRow(q, old) \in UserRow
           /\ MfaRow(q, old).live = old.live /\ MfaRow(q, old).role = old.role /\ MfaRow(q, old).ver = old.ver
           /\ MfaRow(q, old).mfa /\ MfaRow(q, old).proven # 0 => MfaRow(q, old).secret = MfaRow(q, old).proven
  <1>0. q.row.secret \in Nat /\ q.row.secret + 1 \in Nat
    BY DEF ReqRow, UserRow
  <1>1. CASE ~old.live
    BY <1>1 DEF MfaRow
  <1>2. CASE old.live /\ q.pc = "setup"
    <2>1. MfaRow(q, old) = [old EXCEPT !.secret = q.row.secret + 1, !.mfa = FALSE]
      BY <1>2 DEF MfaRow
    <2>. QED BY <1>0, <2>1 DEF UserRow
  <1>3. CASE old.live /\ q.pc = "confirm"
    <2> DEFINE proven == IF q.over THEN 0 ELSE q.row.secret
    <2>1. MfaRow(q, old) = [old EXCEPT !.mfa = TRUE, !.proven = proven]
      BY <1>3 DEF MfaRow
    <2>2. proven \in Nat /\ (proven # 0 => proven = old.secret)
      BY <1>0
    <2> HIDE DEF proven
    <2>. QED BY <2>1, <2>2 DEF UserRow
  <1>4. CASE old.live /\ q.pc = "disable"
    <2>1. MfaRow(q, old) = [old EXCEPT !.secret = 0, !.mfa = FALSE]
      BY <1>4 DEF MfaRow
    <2> DEFINE none == 0
    <2>2. none \in Nat /\ MfaRow(q, old) = [old EXCEPT !.secret = none, !.mfa = FALSE]
      BY <2>1
    <2> HIDE DEF none
    <2>. QED BY <2>2 DEF UserRow
  <1>. QED BY <1>1, <1>2, <1>3, <1>4 DEF MfaSteps

LEMMA MfaWriteStep ==
    ASSUME AccountsInv, NEW r \in AcRequests, MfaWrite(r)
    PROVE  AccountsInv'
  <1>1. PICK o : o = acReq[r]
    OBVIOUS
  <1>2. PICK u : u = o.user
    OBVIOUS
  <1>3. PICK old : old = acUser[u]
    OBVIOUS
  <1>4. PICK row : row = MfaRow(o, old)
    OBVIOUS
  <1>5. o \in ReqRow /\ ReqOk(o) /\ o.pc \in MfaSteps /\ AccountTypes
    BY <1>1 DEF MfaWrite, MfaSteps, AccountsInv, AccountTypes
  <1>6. u \in AcUsers /\ Seen(u) /\ (o.over \/ o.row.secret = acUser[u].secret) /\ ~Managing(r)
    BY <1>1, <1>2, <1>5 DEF ReqOk, MfaSteps, ManageSteps, Managing, Manages
  <1>7. old \in UserRow /\ (old.mfa /\ old.proven # 0 => old.secret = old.proven) /\ (old.live \/ old.ver # 0)
    BY <1>3, <1>5, <1>6 DEF AccountTypes, AccountsInv, ConfirmedIsStored, Seen
  <1>8. /\ row \in UserRow /\ row.live = old.live /\ row.role = old.role /\ row.ver = old.ver
        /\ row.mfa /\ row.proven # 0 => row.secret = row.proven
    BY <1>3, <1>4, <1>5, <1>6, <1>7, MfaRowOk
  <1>9. acUser' = [acUser EXCEPT ![u] = row]
    BY <1>1, <1>2, <1>3, <1>4 DEF MfaWrite, MfaRow
  <1>10. acReq' = RowOvertaken(r, u) /\ UNCHANGED <<acTok, acMissed, acOverlap, lockVars, acAccess, acQuiet>>
    BY <1>1, <1>2 DEF MfaWrite, manageVars, accessVars
  <1>11. acReq' = [RowOvertaken(r, u) EXCEPT ![r] = Idle]
    BY <1>10 DEF RowOvertaken
  <1>12. ReqOk(Idle)' /\ Idle \in ReqRow /\ Idle.op \notin Manages /\ Idle.pc \notin SessionSteps \cup GuessSteps
    BY IdleOk DEF ReqOk, Idle, Manages, ManageSteps, SessionSteps, MfaSteps, GuessSteps
  <1>13. o.pc \notin {"idle", "revoke"}
    BY <1>5 DEF MfaSteps
  <1>14. RowWrite(r, row, Idle)
    BY <1>1, <1>2, <1>3, <1>5, <1>6, <1>7, <1>8, <1>9, <1>10, <1>11, <1>12, <1>13 DEF RowWrite, AccountTypes
  <1>. QED BY <1>8, <1>12, <1>14, RowWritten

-----------------------------------------------------------------------------
(* The end of an update, signing out, and time *)

\* An update ends: no session of its account is left, or the account is noted.
LEMMA UpdateEnds ==
    ASSUME AccountsInv, NEW r \in AcRequests, Ends(r),
           UNCHANGED <<acUser, acOverlap, lockVars, accessVars>>,
           acMissed \subseteq acMissed',
           acTok' \in [AcTokens -> TokRow],
           \A x \in AcTokens : \/ acTok'[x].st # "active"
                               \/ acTok'[x] = acTok[x] /\ (acTok[x].user # acReq[r].user \/ acTok[x].user \in acMissed')
    PROVE  AccountsInv'
  <1>0. UNCHANGED <<acFails, acLock, acTries, acAccess, acQuiet>>
    BY DEF lockVars, accessVars
  <1>1. AccountTypes /\ OneManager /\ AdminRemains /\ ConfirmedIsStored
    BY DEF AccountsInv
  <1>2. \A q \in AcRequests : acReq'[q] = IF q = r THEN Idle ELSE acReq[q]
    BY <1>1 DEF Ends, Becomes, AccountTypes
  <1>3. acReq' \in [AcRequests -> ReqRow]
    BY <1>1, IdleOk DEF Ends, Becomes, AccountTypes
  <1>4. AccountTypes'
    BY <1>0, <1>1, <1>3 DEF AccountTypes
  <1>5. \A u : (Seen(u)' <=> Seen(u)) /\ (IsAdmin(u)' <=> IsAdmin(u))
    BY DEF Seen, IsAdmin
  <1>6. \A q \in AcRequests : ReqOk(acReq[q])'
    <2> SUFFICES ASSUME NEW q \in AcRequests PROVE ReqOk(acReq[q])'
      OBVIOUS
    <2>1. PICK p : p = acReq'[q]
      OBVIOUS
    <2>2. ReqOk(p)
      BY <1>2, <2>1, IdleOk DEF AccountsInv
    <2>3. ReqOk(p)'
      BY <1>5, <2>2 DEF ReqOk
    <2>. QED BY <2>1, <2>3 DEF ReqOk
  <1>7. \A x \in AcTokens : TokOk(acTok[x])'
    <2> SUFFICES ASSUME NEW x \in AcTokens, acTok'[x].st = "active" PROVE TokOk(acTok[x])'
      BY DEF TokOk
    <2>1. acTok'[x] = acTok[x] /\ TokOk(acTok[x]) /\ (acTok[x].user # acReq[r].user \/ acTok[x].user \in acMissed')
      BY DEF AccountsInv
    <2>2. Seen(acTok[x].user) /\ (\/ acTok[x].ver >= acUser[acTok[x].user].ver \/ acTok[x].over
                                  \/ acTok[x].user \in acMissed \/ Revoking(acTok[x].user))
      BY <2>1 DEF TokOk
    <2>3. CASE acTok[x].user \in acMissed'
      BY <1>5, <2>1, <2>2, <2>3 DEF TokOk
    <2>4. CASE acTok[x].user # acReq[r].user
      <3>1. Revoking(acTok[x].user) => \E q \in AcRequests : acReq'[q].user = acTok[x].user /\ acReq'[q].pc = "revoke"
        BY <1>2, <2>4 DEF Revoking
      <3>. QED BY <1>5, <2>1, <2>2, <3>1 DEF TokOk, Revoking
    <2>. QED BY <2>1, <2>3, <2>4
  <1>8. OneManager'
    <2>1. \A q \in AcRequests : Managing(q)' => Managing(q)
      BY <1>2 DEF Managing, Idle
    <2>. QED BY <1>1, <2>1 DEF OneManager
  <1>9. AdminRemains' /\ ConfirmedIsStored'
    BY <1>1 DEF AdminRemains, ConfirmedIsStored, Admins
  <1>10. FreshInv'
    <2>1. \A q \in AcRequests : Follows(q)
      BY <1>2 DEF Follows, Idle, SessionSteps
    <2>. QED BY <1>0, <1>4, <1>5, <2>1, FreshKept
  <1>11. GuessInv'
    <2>1. \A v \in AcUsers : PastCheck(v)' \subseteq PastCheck(v)
      BY <1>2 DEF PastCheck, Idle
    <2>2. \A v \in AcUsers : LockOk(v)'
      BY <1>0 DEF LockOk, AccountsInv, GuessInv
    <2>. QED BY <1>0, <1>4, <2>1, <2>2, GuessesKept
  <1>. QED BY <1>4, <1>6, <1>7, <1>8, <1>9, <1>10, <1>11 DEF AccountsInv

LEMMA RevokeAllStep ==
    ASSUME AccountsInv, NEW r \in AcRequests, RevokeAll(r)
    PROVE  AccountsInv'
  <1>1. PICK u : u = acReq[r].user
    OBVIOUS
  <1>2. /\ Ends(r) /\ UNCHANGED <<acUser, acOverlap, lockVars, accessVars, acMissed>>
        /\ acTok' = [x \in AcTokens |-> IF acTok[x].user = u /\ acTok[x].st = "active"
                                        THEN [acTok[x] EXCEPT !.st = "revoked"] ELSE acTok[x]]
    BY <1>1 DEF RevokeAll, manageVars
  <1>3. acTok \in [AcTokens -> TokRow]
    BY DEF AccountsInv, AccountTypes
  <1>4. \A x \in AcTokens : [acTok[x] EXCEPT !.st = "revoked"] \in TokRow /\ [acTok[x] EXCEPT !.st = "revoked"].st = "revoked"
    BY <1>3 DEF TokRow
  <1>5. acTok' \in [AcTokens -> TokRow]
    BY <1>2, <1>3, <1>4
  <1>6. \A x \in AcTokens : acTok'[x].st # "active" \/ (acTok'[x] = acTok[x] /\ acTok[x].user # acReq[r].user)
    BY <1>1, <1>2, <1>4
  <1>. QED BY <1>2, <1>5, <1>6, UpdateEnds

LEMMA ManageFailsStep ==
    ASSUME AccountsInv, NEW r \in AcRequests, ManageFails(r)
    PROVE  AccountsInv'
  <1>1. /\ Ends(r) /\ UNCHANGED <<acUser, acOverlap, lockVars, accessVars, acTok>>
        /\ acMissed' = acMissed \cup {acReq[r].user}
    BY DEF ManageFails
  <1>2. acTok' \in [AcTokens -> TokRow]
    BY <1>1 DEF AccountsInv, AccountTypes
  <1>3. \A x \in AcTokens : acTok'[x] = acTok[x] /\ (acTok[x].user # acReq[r].user \/ acTok[x].user \in acMissed')
    BY <1>1
  <1>4. acMissed \subseteq acMissed'
    BY <1>1
  <1>. QED BY <1>1, <1>2, <1>3, <1>4, UpdateEnds

\* No request moves: sessions may end, locks and access tokens run out.
LEMMA RequestsStand ==
    ASSUME AccountsInv, UNCHANGED <<acUser, acReq, acOverlap, acFails, acMissed>>,
           AccountTypes' => FreshInv' /\ GuessInv',
           acLock' \in [AcUsers -> BOOLEAN], acTries' \in [AcUsers -> Nat],
           acAccess' \subseteq AccessRow, acQuiet' \in [AcUsers -> Nat],
           acTok' \in [AcTokens -> TokRow],
           \A x \in AcTokens : acTok'[x].st # "active" \/ acTok'[x] = acTok[x]
    PROVE  AccountsInv'
  <1>1. AccountTypes /\ OneManager /\ AdminRemains /\ ConfirmedIsStored
    BY DEF AccountsInv
  <1>2. AccountTypes' /\ OneManager' /\ AdminRemains' /\ ConfirmedIsStored'
    BY <1>1 DEF AccountTypes, OneManager, Managing, AdminRemains, Admins, ConfirmedIsStored
  <1>3. \A q \in AcRequests : ReqOk(acReq[q])'
    BY DEF AccountsInv, ReqOk, Seen, IsAdmin
  <1>4. \A x \in AcTokens : TokOk(acTok[x])'
    <2> SUFFICES ASSUME NEW x \in AcTokens, acTok'[x].st = "active" PROVE TokOk(acTok[x])'
      BY DEF TokOk
    <2>1. acTok'[x] = acTok[x] /\ TokOk(acTok[x])
      BY DEF AccountsInv
    <2>. QED BY <2>1 DEF TokOk, Seen, Revoking
  <1>. QED BY <1>2, <1>3, <1>4 DEF AccountsInv

LEMMA FreshStands ==
    ASSUME AccountsInv, UNCHANGED <<acUser, acReq, acAccess, acQuiet>> PROVE FreshInv'
  BY DEF AccountsInv, FreshInv, AccessOk, Seen, OnOldRow

LEMMA GuessesStand ==
    ASSUME AccountsInv, UNCHANGED <<acReq, acFails, acLock, acTries>> PROVE GuessInv'
  BY DEF AccountsInv, GuessInv, GuessesBounded, PastCheck, LockOk

LEMMA LogoutStep ==
    ASSUME AccountsInv, NEW t \in AcTokens, Logout(t)
    PROVE  AccountsInv'
  <1>1. AccountTypes
    BY DEF AccountsInv
  <1>2. /\ UNCHANGED <<acUser, acReq, acOverlap, acFails, acMissed, acLock, acTries, acAccess, acQuiet>>
        /\ acTok' = [acTok EXCEPT ![t].st = "revoked"]
    BY DEF Logout, lockVars, manageVars, accessVars
  <1>3. PICK row : row = [acTok[t] EXCEPT !.st = "revoked"]
    OBVIOUS
  <1>4. row \in TokRow /\ row.st = "revoked"
    BY <1>1, <1>3 DEF AccountTypes, TokRow
  <1>5. acTok' = [acTok EXCEPT ![t] = row]
    BY <1>2, <1>3
  <1>6. acTok' \in [AcTokens -> TokRow] /\ \A x \in AcTokens : acTok'[x].st # "active" \/ acTok'[x] = acTok[x]
    BY <1>1, <1>4, <1>5 DEF AccountTypes
  <1>. QED BY <1>1, <1>2, <1>6, RequestsStand, FreshStands, GuessesStand DEF AccountTypes

LEMMA LockExpiresStep ==
    ASSUME AccountsInv, NEW u \in AcUsers, LockExpires(u)
    PROVE  AccountsInv'
  <1>1. AccountTypes
    BY DEF AccountsInv
  <1>2. /\ UNCHANGED <<acUser, acReq, acOverlap, acFails, acMissed, acTok, acAccess, acQuiet>>
        /\ acLock' = [acLock EXCEPT ![u] = FALSE] /\ acTries' = [acTries EXCEPT ![u] = 0]
    BY DEF LockExpires, manageVars, accessVars
  <1>3. /\ acLock' \in [AcUsers -> BOOLEAN] /\ acTries' \in [AcUsers -> Nat]
        /\ \A v \in AcUsers : acTries'[v] = 0 \/ (acLock'[v] = acLock[v] /\ acTries'[v] = acTries[v])
    BY <1>1, <1>2 DEF AccountTypes
  <1>4. AccountTypes' => GuessInv'
    <2>1. \A v \in AcUsers : LockOk(v)'
      BY <1>1, <1>2, <1>3 DEF LockOk, AccountsInv, GuessInv, AccountTypes
    <2>2. \A v \in AcUsers : PastCheck(v)' = PastCheck(v)
      BY <1>2 DEF PastCheck
    <2>. QED BY <1>3, <2>1, <2>2, GuessesKept
  <1>. QED BY <1>1, <1>2, <1>3, <1>4, RequestsStand, FreshStands DEF AccountTypes

\* The tokens that are left are a tick older, and so is the quiet, unless a
\* request is under way on an old row.
LEMMA TickStep ==
    ASSUME AccountsInv, Tick
    PROVE  AccountsInv'
  <1> DEFINE Older(a) == [a EXCEPT !.age = @ + 1]
  <1>1. AccountTypes /\ FreshInv
    BY DEF AccountsInv
  <1>2. /\ UNCHANGED <<acUser, acReq, acOverlap, acFails, acMissed, acTok, acLock, acTries>>
        /\ acAccess' = {Older(a) : a \in {x \in acAccess : x.age + 1 < AcTtl}}
        /\ acQuiet' = [u \in AcUsers |-> IF OnOldRow(u) THEN 0 ELSE IF acQuiet[u] < AcTtl THEN acQuiet[u] + 1 ELSE AcTtl]
    BY DEF Tick, lockVars, manageVars
  <1>3. \A a \in AccessRow : /\ Older(a) \in AccessRow /\ Older(a).user = a.user /\ Older(a).ver = a.ver
                             /\ Older(a).age = a.age + 1
    BY DEF AccessRow
  <1> HIDE DEF Older
  <1>4. acAccess' \subseteq AccessRow
    BY <1>1, <1>2, <1>3 DEF AccountTypes
  <1>5. \A u \in AcUsers : acQuiet'[u] \in Nat /\ acQuiet'[u] <= acQuiet[u] + 1 /\ (OnOldRow(u) => acQuiet'[u] = 0)
    <2> SUFFICES ASSUME NEW u \in AcUsers
                 PROVE  acQuiet'[u] \in Nat /\ acQuiet'[u] <= acQuiet[u] + 1 /\ (OnOldRow(u) => acQuiet'[u] = 0)
      OBVIOUS
    <2>1. acQuiet[u] \in Nat /\ AcTtl \in Nat
      BY <1>1, AcAssumption DEF AccountTypes
    <2>2. acQuiet'[u] = IF OnOldRow(u) THEN 0 ELSE IF acQuiet[u] < AcTtl THEN acQuiet[u] + 1 ELSE AcTtl
      BY <1>2
    <2>. QED BY <2>1, <2>2
  <1>6. acQuiet' \in [AcUsers -> Nat]
    <2>1. acQuiet' = [u \in AcUsers |-> acQuiet'[u]]
      BY <1>2
    <2>. QED BY <1>5, <2>1
  <1>7. FreshInv'
    <2>1. ASSUME NEW b \in acAccess' PROVE AccessOk(b)'
      <3>1. PICK a \in acAccess : b = Older(a) /\ a.age + 1 < AcTtl
        BY <1>2, <2>1
      <3>2. a \in AccessRow /\ AccessOk(a)
        BY <1>1 DEF AccountTypes, FreshInv
      <3>3. b.user = a.user /\ b.ver = a.ver /\ b.age = a.age + 1 /\ a.user \in AcUsers /\ a.age \in Nat
        BY <1>3, <3>1, <3>2 DEF AccessRow
      <3>4. Seen(b.user)'
        BY <1>2, <3>2, <3>3 DEF AccessOk, Seen
      <3>5. acQuiet'[a.user] \in Nat /\ acQuiet'[a.user] <= acQuiet[a.user] + 1 /\ acQuiet[a.user] \in Nat
        BY <1>1, <1>5, <3>3 DEF AccountTypes
      <3>6. b.ver < acUser'[b.user].ver => b.age >= acQuiet'[b.user]
        BY <1>2, <3>2, <3>3, <3>5 DEF AccessOk
      <3>. QED BY <3>1, <3>3, <3>4, <3>6 DEF AccessOk
    <2>2. \A u \in AcUsers : OnOldRow(u)' => acQuiet'[u] = 0
      BY <1>2, <1>5 DEF OnOldRow
    <2>. QED BY <2>1, <2>2 DEF FreshInv
  <1>. QED BY <1>1, <1>2, <1>4, <1>6, <1>7, RequestsStand, GuessesStand DEF AccountTypes

-----------------------------------------------------------------------------
LEMMA AccountsStart == AccountsInit => AccountsInv
  <1> SUFFICES ASSUME AccountsInit PROVE AccountsInv
    OBVIOUS
  <1>1. PICK admin : admin = [NoUser EXCEPT !.live = TRUE, !.role = "admin"]
    OBVIOUS
  <1>2. admin \in UserRow /\ admin.live /\ admin.role = "admin" /\ admin.mfa = NoUser.mfa
    BY <1>1, IdleOk DEF UserRow
  <1>3. acUser = [u \in AcUsers |-> IF u = AcAdmin THEN admin ELSE NoUser]
    BY <1>1 DEF AccountsInit
  <1>4. AccountTypes
    <2>1. acUser \in [AcUsers -> UserRow]
      BY <1>2, <1>3, IdleOk
    <2>. QED BY <2>1, IdleOk, AcAssumption DEF AccountsInit, AccountTypes
  <1>5. \A r \in AcRequests : acReq[r] = Idle
    BY DEF AccountsInit
  <1>6. \A r \in AcRequests : ReqOk(acReq[r])
    BY <1>5, IdleOk
  <1>7. \A x \in AcTokens : TokOk(acTok[x])
    BY DEF AccountsInit, TokOk, NoTok
  <1>8. OneManager
    BY <1>5 DEF OneManager, Managing, Idle
  <1>9. AdminRemains
    BY <1>2, <1>3, AcAssumption DEF AdminRemains, Admins
  <1>10. FreshInv
    BY <1>5 DEF AccountsInit, FreshInv, OnOldRow, Idle
  <1>12. GuessInv
    <2>1. \A u \in AcUsers : PastCheck(u) = {}
      BY <1>5 DEF PastCheck, Idle
    <2>2. Cardinality({}) = 0 /\ Cardinality(AcRequests) \in Nat /\ AcMaxFailed \in Nat \ {0}
      BY AcAssumption, FS_EmptySet, FS_CardinalityType
    <2>3. \A u \in AcUsers : acTries[u] = 0 /\ acFails[u] = 0
      BY DEF AccountsInit
    <2>4. GuessesBounded
      <3>1. \A u \in AcUsers : Cardinality(PastCheck(u)) = 0
        BY <2>1, <2>2
      <3>. QED BY <2>2, <2>3, <3>1 DEF GuessesBounded
    <2>5. \A u \in AcUsers : LockOk(u)
      BY <2>3 DEF LockOk
    <2>. QED BY <2>4, <2>5 DEF GuessInv
  <1>11. ConfirmedIsStored
    BY <1>2, <1>3 DEF ConfirmedIsStored, NoUser
  <1>. QED BY <1>4, <1>6, <1>7, <1>8, <1>9, <1>10, <1>11, <1>12 DEF AccountsInv

LEMMA AccountsStep == AccountsInv /\ [AccountsNext]_acVars => AccountsInv'
  <1> SUFFICES ASSUME AccountsInv, [AccountsNext]_acVars PROVE AccountsInv'
    OBVIOUS
  <1>1. CASE UNCHANGED acVars
    <2>1. UNCHANGED <<acUser, acReq, acOverlap, acFails, acMissed, acTok, acLock, acTries, acAccess, acQuiet>>
      BY <1>1 DEF acVars
    <2>2. AccountTypes
      BY DEF AccountsInv
    <2>. QED BY <2>1, <2>2, RequestsStand, FreshStands, GuessesStand DEF AccountTypes
  <1>2. ASSUME NEW r \in AcRequests, NEW u \in AcUsers, LoginStart(r, u) PROVE AccountsInv'
    BY <1>2, LoginStartStep
  <1>3. ASSUME NEW r \in AcRequests, NEW u \in AcUsers, VerifyStart(r, u) PROVE AccountsInv'
    BY <1>3, VerifyStartStep
  <1>4. ASSUME NEW r \in AcRequests, NEW u \in AcUsers, NEW op \in {"demote", "promote", "password", "delete"}, Manage(r, op, u)
        PROVE  AccountsInv'
    BY <1>4, ManageStartStep DEF Manages
  <1>5. ASSUME NEW r \in AcRequests, NEW u \in AcUsers, NEW op \in {"setup", "confirm", "disable"}, MfaRead(r, op, u)
        PROVE  AccountsInv'
    BY <1>5, MfaReadStep DEF MfaSteps
  <1>6. ASSUME NEW r \in AcRequests, NEW ok \in BOOLEAN, LoginLookup(r, ok) \/ VerifyLock(r, ok) PROVE AccountsInv'
    BY <1>6, LoginLookupStep, VerifyLockStep
  <1>7. ASSUME NEW r \in AcRequests, RecordFailure(r) \/ LoginClear(r) \/ Issue(r) \/ RefreshUser(r) \/ Rotate(r)
        PROVE  AccountsInv'
    BY <1>7, RecordFailureStep, LoginClearStep, IssueStep, RefreshUserStep, RotateStep
  <1>8. ASSUME NEW r \in AcRequests, Guard(r) \/ ManageWrite(r) \/ RevokeAll(r) \/ ManageFails(r) \/ MfaWrite(r)
        PROVE  AccountsInv'
    BY <1>8, GuardStep, ManageWriteStep, RevokeAllStep, ManageFailsStep, MfaWriteStep
  <1>9. ASSUME NEW r \in AcRequests, NEW t \in AcTokens, RefreshFind(r, t) PROVE AccountsInv'
    BY <1>9, RefreshFindStep
  <1>10. ASSUME NEW t \in AcTokens, Logout(t) PROVE AccountsInv'
    BY <1>10, LogoutStep
  <1>11. ASSUME NEW u \in AcUsers, LockExpires(u) PROVE AccountsInv'
    BY <1>11, LockExpiresStep
  <1>12. ASSUME NEW u \in AcUsers, NEW role \in {"admin", "user"}, Create(u, role) PROVE AccountsInv'
    BY <1>12, CreateStep
  <1>13. ASSUME Tick PROVE AccountsInv'
    BY <1>13, TickStep
  <1>. QED BY <1>1, <1>2, <1>3, <1>4, <1>5, <1>6, <1>7, <1>8, <1>9, <1>10, <1>11, <1>12, <1>13 DEF AccountsNext

\* While updates do not overlap an administrator remains; no session begun
\* before an update can be refreshed after it, unless its sign-in or refresh
\* ended after the update's write or the update failed; what an access token
\* says is out of date for no longer than its life, counted from the change
\* or from the last request the change overtook; a confirmed second factor is
\* the stored one; guesses are bounded by the maximum and the requests at
\* once.  For any accounts, requests, tokens and life of a token, in every
\* interleaving of the handlers' queries.
THEOREM AccountsGuardedAlways == AccountsSpec => []AccountsGuarded
  <1>1. AccountsInit => AccountsInv
    BY AccountsStart
  <1>2. AccountsInv /\ [AccountsNext]_acVars => AccountsInv'
    BY AccountsStep
  <1>3. AccountsInv => AccountsGuarded
    <2> SUFFICES ASSUME AccountsInv PROVE AccountsGuarded
      OBVIOUS
    <2>1. StaleRunsOut
      <3> SUFFICES ASSUME NEW a \in acAccess, acQuiet[a.user] >= AcTtl, ~(a.ver >= acUser[a.user].ver) PROVE FALSE
        BY DEF StaleRunsOut
      <3>1. a \in AccessRow /\ AccessOk(a) /\ AccountTypes
        BY DEF AccountsInv, AccountTypes, FreshInv
      <3>2. a.user \in AcUsers /\ a.ver \in Nat /\ a.age \in Nat /\ acUser[a.user] \in UserRow /\ acQuiet[a.user] \in Nat
        BY <3>1 DEF AccessRow, AccountTypes
      <3>3. acUser[a.user].ver \in Nat /\ AcTtl \in Nat
        BY <3>2, AcAssumption DEF UserRow
      <3>. QED BY <3>1, <3>2, <3>3 DEF AccessOk
    <2>2. ChangeEndsSessions
      <3> SUFFICES ASSUME NEW t \in AcTokens, acTok[t].st = "active", acTok[t].ver < acUser[acTok[t].user].ver
                   PROVE  \/ acTok[t].over \/ acTok[t].user \in acMissed
                          \/ \E r \in AcRequests : acReq[r].user = acTok[t].user /\ At(r, "revoke")
        BY DEF ChangeEndsSessions
      <3>1. TokOk(acTok[t]) /\ acTok[t].ver \in Nat /\ AccountTypes
        BY DEF AccountsInv, AccountTypes, TokRow
      <3>2. acTok[t].user \in AcUsers
        BY <3>1 DEF TokOk, Seen
      <3>3. acUser[acTok[t].user].ver \in Nat
        BY <3>1, <3>2 DEF AccountTypes, UserRow
      <3>4. ~(acTok[t].ver >= acUser[acTok[t].user].ver)
        BY <3>1, <3>3
      <3>. QED BY <3>1, <3>4 DEF TokOk, Revoking, At
    <2>. QED BY <2>1, <2>2 DEF AccountsGuarded, AccountsInv, GuessInv
  <1>. QED BY <1>1, <1>2, <1>3, PTL DEF AccountsSpec

-----------------------------------------------------------------------------
(* Certificates.  Of the files of a domain the invariant says what the     *)
(* tasks that write and the handler that deletes them have left, unless    *)
(* the history says that they got in each other's way (FilesOk, TaskOk);   *)
(* of the watcher that what it has read is what the directory holds,       *)
(* unless an event is waiting (ReadOk); of the receivers that they have    *)
(* taken the bundle unless it is marked unseen (Taken).                    *)

NoDomain == CtIdle.d
Pairs == [chain : Nat, key : Nat]
Files == [dir : BOOLEAN, chain : Nat, key : Nat, plain : Nat, creds : BOOLEAN]
TaskRow == [pc : {"idle", "txt", "chain", "key", "creds"}, d : CtDomains \cup {NoDomain}, n : Nat]
DeleteRow == [d : CtDomains \cup {NoDomain}, left : SUBSET {"chain", "key", "plain", "creds"}, on : BOOLEAN]
WatchRow == [pc : {"ready", "load", "read_key", "migrate", "quiet"}, todo : SUBSET CtDomains, got : [CtDomains -> Pairs],
             d : CtDomains \cup {NoDomain}, chain : Nat, files : Files]

CertTypes ==
    /\ ctDisk \in [CtDomains -> Files]
    /\ ctTask \in [CtTasks -> TaskRow]
    /\ ctDelete \in DeleteRow /\ (ctDelete.on => ctDelete.d \in CtDomains)
    /\ ctIssued \in Nat
    /\ ctWatch \in WatchRow
    /\ ctBundle \in [CtDomains -> Pairs] /\ ctProxy \in [CtDomains -> Pairs]
    /\ ctPending \in BOOLEAN /\ ctUnseen \in BOOLEAN /\ ctMissed \in BOOLEAN

\* What a task knows of the files of its domain.
TaskOk(k) ==
    /\ k.pc # "idle" => k.d \in CtDomains /\ k.n # 0
    /\ k.pc = "key" /\ k.d \notin ctTorn => ctDisk[k.d].chain \in {0, k.n}
    /\ k.pc \in {"key", "creds"} => ctDisk[k.d].chain # 0 \/ k.d \in ctHit
    /\ k.pc \in {"key", "creds"} /\ Deleting(k.d) => k.d \in ctHit

Bare(f) == f.chain = 0 /\ f.key = 0 /\ f.plain = 0 /\ ~f.creds

FilesOk(d, f) ==
    /\ f.dir \/ Bare(f)
    /\ f.key = 0 \/ f.plain = 0
    /\ f.chain # 0 /\ KeyOf(f) # 0 /\ Writing(d) = {} => f.chain = KeyOf(f) \/ d \in ctTorn
    /\ f.creds => d \in ctHit \/ IF Deleting(d) THEN "creds" \in ctDelete.left ELSE f.chain # 0
    /\ d \notin ctTorn => \A t, u \in Writing(d) : t = u

NoPairs == [d \in CtDomains |-> NoPair]

\* What the watcher w has read.
ReadOk(w) ==
    /\ w.pc \in {"ready", "quiet"} => w.got = NoPairs
    /\ w.pc \in {"read_key", "migrate"} => w.d \in CtDomains
    /\ w.pc = "migrate" => w.files.key = 0 /\ w.files.plain # 0
    /\ ~ctPending /\ w.pc \in {"load", "read_key"} =>
           \A d \in CtDomains : w.got[d] = IF d \in w.todo \/ (w.pc = "read_key" /\ d = w.d) THEN NoPair
                                           ELSE LoadCertificates(ctDisk)[d]
    /\ ~ctPending /\ w.pc = "read_key" => w.d \notin w.todo /\ w.chain = ctDisk[w.d].chain /\ w.chain # 0
    /\ ~ctPending /\ w.pc = "migrate" => ctDisk[w.d] = w.files

Taken ==
    ~ctUnseen =>
        /\ ctProxy = StoreFromBundle(ctBundle)
        /\ ValidPair(SelectForUi(ctBundle)) => ctUi = SelectForUi(ctBundle)

CertInv ==
    /\ CertTypes
    /\ \A t \in CtTasks : TaskOk(ctTask[t])
    /\ \A d \in CtDomains : FilesOk(d, ctDisk[d])
    /\ ReadOk(ctWatch)
    /\ PublishedUnlessMissed /\ Taken /\ TxtRecordsGone

LEMMA EmptyRecords ==
    /\ NoPair \in Pairs /\ NoFiles \in Files /\ NoPairs \in [CtDomains -> Pairs]
    /\ CtIdle \in TaskRow /\ CtIdle.pc = "idle" /\ TaskOk(CtIdle)
    /\ NoDelete \in DeleteRow /\ ~NoDelete.on
  <1>1. NoPair \in Pairs /\ NoFiles \in Files
    BY DEF NoPair, Pairs, NoFiles, Files
  <1>2. CtIdle.pc = "idle" /\ CtIdle.d = CHOOSE d \in CtDomains : TRUE
    BY DEF CtIdle
  <1>3. CtIdle \in TaskRow
    BY <1>2 DEF CtIdle, TaskRow, NoDomain
  <1>4. NoDelete \in DeleteRow /\ ~NoDelete.on
    BY <1>2 DEF NoDelete, DeleteRow, NoDomain
  <1>5. TaskOk(CtIdle)
    BY <1>2 DEF TaskOk
  <1>. QED BY <1>1, <1>2, <1>3, <1>4, <1>5 DEF NoPairs

\* A task goes on without touching a file; one that leaves its write unfinished
\* is on record.
LEMMA TaskMoves ==
    ASSUME CertInv, NEW t \in CtTasks, NEW k \in TaskRow, ctTask' = [ctTask EXCEPT ![t] = k], k.pc # "key", TaskOk(k),
           UNCHANGED <<ctDisk, ctDelete, ctWatch, ctPending, ctBundle, ctUnseen, ctProxy, ctUi, ctMissed, ctHit>>,
           ctIssued' \in Nat, ctTorn \subseteq ctTorn',
           ctTask[t].pc = "key" => ctTask[t].d \in ctTorn',
           \A n \in ctTxt' \ ctLeak' : \/ n \in ctTxt \ ctLeak /\ (ctTask[t].pc = "txt" => n # ctTask[t].n)
                                       \/ k.pc = "txt" /\ k.n = n
    PROVE  CertInv'
  <1>1. /\ CertTypes /\ (\A u \in CtTasks : TaskOk(ctTask[u])) /\ (\A d \in CtDomains : FilesOk(d, ctDisk[d]))
        /\ ReadOk(ctWatch) /\ PublishedUnlessMissed /\ Taken /\ TxtRecordsGone
    BY DEF CertInv
  <1>2. \A u \in CtTasks : ctTask'[u] = IF u = t THEN k ELSE ctTask[u]
    BY <1>1 DEF CertTypes
  <1>3. CertTypes'
    BY <1>1 DEF CertTypes
  <1>4. \A u \in CtTasks : TaskOk(ctTask[u])'
    <2> SUFFICES ASSUME NEW u \in CtTasks PROVE TaskOk(ctTask[u])'
      OBVIOUS
    <2>1. PICK q : q = ctTask'[u]
      OBVIOUS
    <2>2. TaskOk(q)
      BY <1>1, <1>2, <2>1
    <2>3. TaskOk(q)'
      BY <2>2 DEF TaskOk, Deleting
    <2>. QED BY <2>1, <2>3 DEF TaskOk
  <1>5. \A d \in CtDomains : FilesOk(d, ctDisk[d])'
    <2> SUFFICES ASSUME NEW d \in CtDomains PROVE FilesOk(d, ctDisk[d])'
      OBVIOUS
    <2>1. FilesOk(d, ctDisk[d])
      BY <1>1
    <2>2. Writing(d)' \subseteq Writing(d) /\ (d \notin ctTorn' => Writing(d)' = Writing(d))
      BY <1>2 DEF Writing
    <2>3. PICK f : f = ctDisk[d]
      OBVIOUS
    <2>4. FilesOk(d, f)'
      BY <2>1, <2>2, <2>3 DEF FilesOk, Deleting
    <2>. QED BY <2>3, <2>4
  <1>6. ReadOk(ctWatch)'
    BY <1>1 DEF ReadOk
  <1>7. PublishedUnlessMissed' /\ Taken'
    BY <1>1 DEF PublishedUnlessMissed, Taken
  <1>8. TxtRecordsGone'
    <2> SUFFICES ASSUME NEW n \in ctTxt' \ ctLeak' PROVE \E u \in CtTasks : ctTask'[u].n = n /\ ctTask'[u].pc = "txt"
      BY DEF TxtRecordsGone
    <2>1. CASE k.pc = "txt" /\ k.n = n
      BY <1>2, <2>1
    <2>2. CASE n \in ctTxt \ ctLeak /\ (ctTask[t].pc = "txt" => n # ctTask[t].n)
      BY <1>1, <1>2, <2>2 DEF TxtRecordsGone
    <2>. QED BY <2>1, <2>2
  <1>. QED BY <1>3, <1>4, <1>5, <1>6, <1>7, <1>8 DEF CertInv

\* The files of one domain change, and an event is raised.
LEMMA DomainChanges ==
    ASSUME CertInv, NEW d \in CtDomains, NEW f \in Files, ctDisk' = [ctDisk EXCEPT ![d] = f], ctPending' = TRUE,
           UNCHANGED <<ctBundle, ctUnseen, ctProxy, ctUi, ctMissed>>,
           ctTask' \in [CtTasks -> TaskRow], ctDelete' \in DeleteRow, ctDelete'.on => ctDelete'.d \in CtDomains,
           ctIssued' \in Nat, ctWatch' \in WatchRow,
           ctWatch' = ctWatch \/ ctWatch'.pc = "load",
           FilesOk(d, f)',
           \A x \in CtDomains \ {d} : /\ (x \in ctTorn' <=> x \in ctTorn) /\ (x \in ctHit' <=> x \in ctHit)
                                      /\ (Deleting(x)' <=> Deleting(x)) /\ (Deleting(x) => ctDelete'.left = ctDelete.left),
           \A t \in CtTasks : \/ ctTask'[t] = ctTask[t] /\ ctTask[t].d # d
                              \/ /\ TaskOk(ctTask[t])' /\ (ctTask'[t].pc = "key" => ctTask'[t].d = d)
                                 /\ ctTask[t].pc = "key" => ctTask[t].d = d,
           TxtRecordsGone'
    PROVE  CertInv'
  <1>1. /\ CertTypes /\ (\A u \in CtTasks : TaskOk(ctTask[u])) /\ (\A x \in CtDomains : FilesOk(x, ctDisk[x]))
        /\ ReadOk(ctWatch) /\ Taken
    BY DEF CertInv
  <1>2. \A x \in CtDomains : ctDisk'[x] = IF x = d THEN f ELSE ctDisk[x]
    BY <1>1 DEF CertTypes
  <1>3. CertTypes'
    BY <1>1 DEF CertTypes
  <1>4. \A u \in CtTasks : TaskOk(ctTask[u])'
    <2> SUFFICES ASSUME NEW u \in CtTasks, ctTask'[u] = ctTask[u], ctTask[u].d # d PROVE TaskOk(ctTask[u])'
      OBVIOUS
    <2>1. PICK q : q = ctTask'[u]
      OBVIOUS
    <2>2. TaskOk(q) /\ q.d # d
      BY <1>1, <2>1
    <2>3. TaskOk(q)'
      <3>1. CASE q.pc = "idle"
        BY <3>1 DEF TaskOk
      <3>2. CASE q.pc # "idle"
        <4>1. q.d \in CtDomains \ {d}
          BY <2>2, <3>2 DEF TaskOk
        <4>. QED BY <1>2, <2>2, <4>1 DEF TaskOk
      <3>. QED BY <3>1, <3>2
    <2>. QED BY <2>1, <2>3 DEF TaskOk
  <1>5. \A x \in CtDomains : FilesOk(x, ctDisk[x])'
    <2> SUFFICES ASSUME NEW x \in CtDomains PROVE FilesOk(x, ctDisk[x])'
      OBVIOUS
    <2>1. CASE x = d
      <3>1. ctDisk'[x] = f
        BY <1>2, <2>1
      <3>. QED BY <2>1, <3>1 DEF FilesOk
    <2>2. CASE x # d
      <3>1. FilesOk(x, ctDisk[x]) /\ ctDisk'[x] = ctDisk[x]
        BY <1>1, <1>2, <2>2
      <3>2. Writing(x)' = Writing(x)
        BY <2>2 DEF Writing
      <3>3. PICK g : g = ctDisk[x]
        OBVIOUS
      <3>4. FilesOk(x, g)
        BY <3>1, <3>3
      <3>5. FilesOk(x, g)'
        BY <2>2, <3>2, <3>4 DEF FilesOk
      <3>. QED BY <3>1, <3>3, <3>5
    <2>. QED BY <2>1, <2>2
  <1>6. ReadOk(ctWatch)'
    <2>1. CASE ctWatch' = ctWatch
      BY <1>1, <2>1 DEF ReadOk
    <2>2. CASE ctWatch'.pc = "load"
      BY <2>2 DEF ReadOk
    <2>. QED BY <2>1, <2>2
  <1>7. PublishedUnlessMissed' /\ Taken'
    BY <1>1 DEF PublishedUnlessMissed, Taken
  <1>. QED BY <1>3, <1>4, <1>5, <1>6, <1>7 DEF CertInv

\* The watcher or a receiver goes on.
LEMMA WatchMoves ==
    ASSUME CertInv, NEW w \in WatchRow, ctWatch' = w, ctTorn \subseteq ctTorn',
           UNCHANGED <<ctDisk, ctTask, ctDelete, ctIssued, ctHit, ctTxt, ctLeak>>,
           ctBundle' \in [CtDomains -> Pairs], ctProxy' \in [CtDomains -> Pairs],
           ctPending' \in BOOLEAN, ctUnseen' \in BOOLEAN, ctMissed' \in BOOLEAN,
           ReadOk(w)', PublishedUnlessMissed', Taken'
    PROVE  CertInv'
  <1>1. /\ CertTypes /\ (\A u \in CtTasks : TaskOk(ctTask[u])) /\ (\A x \in CtDomains : FilesOk(x, ctDisk[x]))
        /\ TxtRecordsGone
    BY DEF CertInv
  <1>2. CertTypes' /\ TxtRecordsGone'
    BY <1>1 DEF CertTypes, TxtRecordsGone
  <1>3. \A u \in CtTasks : TaskOk(ctTask[u])'
    BY <1>1 DEF TaskOk, Deleting
  <1>4. \A x \in CtDomains : FilesOk(x, ctDisk[x])'
    BY <1>1 DEF FilesOk, Deleting, Writing
  <1>5. ReadOk(ctWatch)'
    BY DEF ReadOk
  <1>. QED BY <1>2, <1>3, <1>4, <1>5 DEF CertInv

-----------------------------------------------------------------------------
(* Issuing *)

LEMMA StepTo ==
    ASSUME CertInv, NEW t \in CtTasks, NEW pc \in {"chain", "key", "creds"}, Step(t, pc)
    PROVE  \E k \in TaskRow : ctTask' = [ctTask EXCEPT ![t] = k] /\ k.pc = pc /\ k.d = ctTask[t].d /\ k.n = ctTask[t].n
  <1>1. PICK k : k = [ctTask[t] EXCEPT !.pc = pc]
    OBVIOUS
  <1>2. ctTask[t] \in TaskRow
    BY DEF CertInv, CertTypes
  <1>3. k \in TaskRow /\ k.pc = pc /\ k.d = ctTask[t].d /\ k.n = ctTask[t].n
    BY <1>1, <1>2 DEF TaskRow
  <1>4. ctTask' = [ctTask EXCEPT ![t] = k]
    BY <1>1 DEF Step
  <1>. QED BY <1>3, <1>4

LEMMA StartIssueStep ==
    ASSUME CertInv, NEW t \in CtTasks, NEW d \in CtDomains, StartIssue(t, d)
    PROVE  CertInv'
  <1>1. PICK n : n = ctIssued + 1
    OBVIOUS
  <1>2. PICK k : k = [pc |-> "txt", d |-> d, n |-> n]
    OBVIOUS
  <1>3. /\ ctTask[t].pc = "idle" /\ ctIssued' = n /\ ctTask' = [ctTask EXCEPT ![t] = k] /\ ctTxt' = ctTxt \cup {n}
        /\ UNCHANGED <<ctDisk, ctDelete, ctWatch, ctPending, ctBundle, ctUnseen, ctProxy, ctUi, ctMissed, ctHit, ctTorn, ctLeak>>
    BY <1>1, <1>2 DEF StartIssue, filesVars, feedVars, servedVars, blameVars
  <1>4. n \in Nat /\ n # 0
    BY <1>1 DEF CertInv, CertTypes
  <1>5. k \in TaskRow /\ k.pc = "txt" /\ k.d = d /\ k.n = n
    BY <1>2, <1>4 DEF TaskRow
  <1>6. TaskOk(k)
    BY <1>4, <1>5 DEF TaskOk
  <1>. QED BY <1>3, <1>4, <1>5, <1>6, TaskMoves

\* A task ends with its TXT record removed or on record as left behind, and an
\* unfinished write on record as torn.
LEMMA TaskEnds ==
    ASSUME CertInv, NEW t \in CtTasks, EndTask(t),
           UNCHANGED <<ctDisk, ctDelete, ctIssued, ctWatch, ctPending, ctBundle, ctUnseen, ctProxy, ctUi, ctMissed, ctHit>>,
           ctTorn \subseteq ctTorn',
           ctTask[t].pc = "key" => ctTask[t].d \in ctTorn',
           ctTxt' \subseteq ctTxt, ctLeak \subseteq ctLeak',
           ctTask[t].pc = "txt" => ctTask[t].n \notin ctTxt' \ ctLeak'
    PROVE  CertInv'
  <1>1. ctTask' = [ctTask EXCEPT ![t] = CtIdle] /\ ctIssued' \in Nat
    BY DEF EndTask, CertInv, CertTypes
  <1>2. \A n \in ctTxt' \ ctLeak' : n \in ctTxt \ ctLeak /\ (ctTask[t].pc = "txt" => n # ctTask[t].n)
    OBVIOUS
  <1>. QED BY <1>1, <1>2, EmptyRecords, TaskMoves

LEMMA SetReadyFailsStep ==
    ASSUME CertInv, NEW t \in CtTasks, SetReadyFails(t)
    PROVE  CertInv'
  <1>1. /\ ctTask[t].pc = "txt" /\ EndTask(t) /\ ctLeak' = ctLeak \cup {ctTask[t].n}
        /\ UNCHANGED <<ctDisk, ctDelete, ctIssued, ctTxt, ctWatch, ctPending, ctBundle, ctUnseen, ctProxy, ctUi, ctMissed, ctHit, ctTorn>>
    BY DEF SetReadyFails, filesVars, feedVars, servedVars, blameVars
  <1>. QED BY <1>1, TaskEnds

LEMMA FinalizeOrderStep ==
    ASSUME CertInv, NEW t \in CtTasks, FinalizeOrder(t)
    PROVE  CertInv'
  <1>1. /\ ctTask[t].pc = "txt" /\ (Step(t, "chain") \/ EndTask(t))
        /\ \/ ctTxt' = ctTxt \ {ctTask[t].n} /\ UNCHANGED ctLeak
           \/ ctLeak' = ctLeak \cup {ctTask[t].n} /\ UNCHANGED ctTxt
        /\ UNCHANGED <<ctDisk, ctDelete, ctIssued, ctWatch, ctPending, ctBundle, ctUnseen, ctProxy, ctUi, ctMissed, ctHit, ctTorn>>
    BY DEF FinalizeOrder, filesVars, feedVars, servedVars, blameVars
  <1>2. ctTxt' \subseteq ctTxt /\ ctLeak \subseteq ctLeak' /\ ctTask[t].n \notin ctTxt' \ ctLeak'
    BY <1>1
  <1>3. CASE EndTask(t)
    BY <1>1, <1>2, <1>3, TaskEnds
  <1>4. CASE Step(t, "chain")
    <2>1. PICK k \in TaskRow : ctTask' = [ctTask EXCEPT ![t] = k] /\ k.pc = "chain" /\ k.d = ctTask[t].d /\ k.n = ctTask[t].n
      BY <1>4, StepTo
    <2>2. TaskOk(k) /\ ctIssued' \in Nat
      BY <1>1, <2>1 DEF CertInv, CertTypes, TaskOk
    <2>3. \A n \in ctTxt' \ ctLeak' : n \in ctTxt \ ctLeak /\ n # ctTask[t].n
      BY <1>2
    <2>. QED BY <1>1, <2>1, <2>2, <2>3, TaskMoves
  <1>. QED BY <1>1, <1>3, <1>4

LEMMA WriteFailsStep ==
    ASSUME CertInv, NEW t \in CtTasks, WriteFails(t)
    PROVE  CertInv'
  <1>1. /\ ctTask[t].pc \in {"chain", "key"} /\ EndTask(t)
        /\ ctTorn' = IF ctTask[t].pc = "key" THEN ctTorn \cup {ctTask[t].d} ELSE ctTorn
        /\ UNCHANGED <<ctDisk, ctDelete, ctIssued, ctTxt, ctLeak, ctWatch, ctPending, ctBundle, ctUnseen, ctProxy, ctUi, ctMissed, ctHit>>
    BY DEF WriteFails, filesVars, feedVars, servedVars
  <1>2. ctTorn \subseteq ctTorn' /\ (ctTask[t].pc = "key" => ctTask[t].d \in ctTorn')
    BY <1>1
  <1>. QED BY <1>1, <1>2, TaskEnds

LEMMA HandlerDroppedStep ==
    ASSUME CertInv, NEW t \in CtTasks, HandlerDropped(t)
    PROVE  CertInv'
  <1>1. /\ EndTask(t) /\ ctLeak' = ctLeak \cup (ctTxt \cap {ctTask[t].n})
        /\ ctTorn' = IF ctTask[t].pc = "key" THEN ctTorn \cup {ctTask[t].d} ELSE ctTorn
        /\ UNCHANGED <<ctDisk, ctDelete, ctIssued, ctTxt, ctWatch, ctPending, ctBundle, ctUnseen, ctProxy, ctUi, ctMissed, ctHit>>
    BY DEF HandlerDropped, filesVars, feedVars, servedVars
  <1>2. ctTorn \subseteq ctTorn' /\ (ctTask[t].pc = "key" => ctTask[t].d \in ctTorn')
    BY <1>1
  <1>. QED BY <1>1, <1>2, TaskEnds

-----------------------------------------------------------------------------
(* Writing *)

\* A task writes f into its domain's directory and goes on as k.
LEMMA TaskWrites ==
    ASSUME CertInv, NEW t \in CtTasks, NEW k \in TaskRow, NEW f \in Files, NEW d \in CtDomains,
           ctTask[t].d = d, ctTask[t].pc \in {"chain", "key", "creds"}, k.pc # "txt", k.d = d \/ k.pc = "idle",
           ctTask' = [ctTask EXCEPT ![t] = k], ctDisk' = [ctDisk EXCEPT ![d] = f], ctPending' = TRUE,
           UNCHANGED <<ctBundle, ctUnseen, ctProxy, ctUi, ctMissed, ctDelete, ctIssued, ctWatch, ctTxt, ctLeak>>,
           FilesOk(d, f)', TaskOk(k)',
           \A x \in CtDomains \ {d} : (x \in ctTorn' <=> x \in ctTorn) /\ (x \in ctHit' <=> x \in ctHit),
           \A u \in CtTasks \ {t} : ctTask[u].d = d => TaskOk(ctTask[u])'
    PROVE  CertInv'
  <1>1. CertTypes /\ TxtRecordsGone
    BY DEF CertInv
  <1>2. \A u \in CtTasks : ctTask'[u] = IF u = t THEN k ELSE ctTask[u]
    BY <1>1 DEF CertTypes
  <1>3. /\ ctTask' \in [CtTasks -> TaskRow] /\ ctIssued' \in Nat /\ ctWatch' \in WatchRow
        /\ ctDelete' \in DeleteRow /\ (ctDelete'.on => ctDelete'.d \in CtDomains)
    BY <1>1 DEF CertTypes
  <1>4. TxtRecordsGone'
    BY <1>1, <1>2 DEF TxtRecordsGone
  <1>5. \A x \in CtDomains : Deleting(x)' <=> Deleting(x)
    BY DEF Deleting
  <1>6. ASSUME NEW u \in CtTasks
        PROVE  \/ ctTask'[u] = ctTask[u] /\ ctTask[u].d # d
               \/ /\ TaskOk(ctTask[u])' /\ (ctTask'[u].pc = "key" => ctTask'[u].d = d)
                  /\ ctTask[u].pc = "key" => ctTask[u].d = d
    <2>1. CASE u = t
      <3>1. ctTask'[u] = k
        BY <1>2, <2>1
      <3>2. TaskOk(ctTask[u])'
        BY <3>1 DEF TaskOk
      <3>. QED BY <2>1, <3>1, <3>2
    <2>2. CASE u # t
      BY <1>2, <2>2
    <2>. QED BY <2>1, <2>2
  <1>. QED BY <1>3, <1>4, <1>5, <1>6, DomainChanges

LEMMA WriteChainStep ==
    ASSUME CertInv, NEW t \in CtTasks, WriteChain(t)
    PROVE  CertInv'
  <1>1. PICK d : d = ctTask[t].d
    OBVIOUS
  <1>2. PICK n : n = ctTask[t].n
    OBVIOUS
  <1>3. /\ ctTask[t].pc = "chain" /\ Step(t, "key") /\ ctPending' = TRUE
        /\ ctDisk' = [ctDisk EXCEPT ![d].dir = TRUE, ![d].chain = n]
        /\ UNCHANGED <<ctBundle, ctUnseen, ctProxy, ctUi, ctMissed, ctDelete, ctIssued, ctWatch, ctTxt, ctLeak>>
    BY <1>1, <1>2 DEF WriteChain, ChangeFiles, feedVars, servedVars
  <1>4. /\ Writing(d) # {} => d \in ctTorn'
        /\ \A x : x # d => (x \in ctTorn' <=> x \in ctTorn) /\ (x \in ctHit' <=> x \in ctHit)
        /\ Deleting(d) => d \in ctHit'
    BY <1>1 DEF WriteChain
  <1>5. /\ CertTypes /\ (\A u \in CtTasks : TaskOk(ctTask[u])) /\ (\A x \in CtDomains : FilesOk(x, ctDisk[x]))
    BY DEF CertInv
  <1>6. d \in CtDomains /\ n \in Nat \ {0} /\ ctDisk[d] \in Files
    BY <1>1, <1>2, <1>3, <1>5 DEF CertTypes, TaskRow, TaskOk
  <1>7. PICK k \in TaskRow : ctTask' = [ctTask EXCEPT ![t] = k] /\ k.pc = "key" /\ k.d = d /\ k.n = n
    BY <1>1, <1>2, <1>3, StepTo
  <1>8. PICK f : f = [ctDisk[d] EXCEPT !.dir = TRUE, !.chain = n]
    OBVIOUS
  <1>9. /\ f \in Files /\ f.dir = TRUE /\ f.chain = n /\ f.key = ctDisk[d].key /\ f.plain = ctDisk[d].plain
        /\ f.creds = ctDisk[d].creds
    BY <1>6, <1>8 DEF Files
  <1>10. ctDisk' = [ctDisk EXCEPT ![d] = f]
    BY <1>3, <1>5, <1>6, <1>8 DEF CertTypes
  <1>11. \A u \in CtTasks : ctTask'[u] = IF u = t THEN k ELSE ctTask[u]
    BY <1>5, <1>7 DEF CertTypes
  <1>12. ctDisk'[d] = f
    BY <1>5, <1>6, <1>10 DEF CertTypes
  <1>13. t \in Writing(d)' /\ (d \notin ctTorn' => Writing(d)' = {t})
    BY <1>4, <1>7, <1>11 DEF Writing
  <1>14. Deleting(d)' <=> Deleting(d)
    BY <1>3 DEF Deleting
  <1>15. FilesOk(d, f)'
    <2>1. FilesOk(d, ctDisk[d])
      BY <1>5, <1>6
    <2>. QED BY <1>4, <1>6, <1>9, <1>13, <1>14, <2>1 DEF FilesOk
  <1>16. TaskOk(k)'
    BY <1>4, <1>6, <1>7, <1>9, <1>12, <1>14 DEF TaskOk
  <1>17. ASSUME NEW u \in CtTasks \ {t}, ctTask[u].d = d PROVE TaskOk(ctTask[u])'
    <2>1. PICK q : q = ctTask[u]
      OBVIOUS
    <2>2. ctTask'[u] = q /\ TaskOk(q) /\ q.d = d /\ (q.pc = "key" => u \in Writing(d))
      BY <1>5, <1>11, <1>17, <2>1 DEF Writing
    <2>3. TaskOk(q)'
      BY <1>4, <1>6, <1>9, <1>12, <1>14, <2>2 DEF TaskOk
    <2>. QED BY <2>2, <2>3 DEF TaskOk
  <1>. QED BY <1>1, <1>3, <1>4, <1>6, <1>7, <1>9, <1>10, <1>15, <1>16, <1>17, TaskWrites

LEMMA WriteKeyStep ==
    ASSUME CertInv, NEW t \in CtTasks, WriteKey(t)
    PROVE  CertInv'
  <1>1. PICK d : d = ctTask[t].d
    OBVIOUS
  <1>2. PICK n : n = ctTask[t].n
    OBVIOUS
  <1>3. PICK none : none = 0
    OBVIOUS
  <1>4. /\ ctTask[t].pc = "key" /\ ctDisk[d].dir /\ (EndTask(t) \/ Step(t, "creds")) /\ ctPending' = TRUE
        /\ ctDisk' = [ctDisk EXCEPT ![d].key = n, ![d].plain = none]
        /\ UNCHANGED <<ctBundle, ctUnseen, ctProxy, ctUi, ctMissed, ctDelete, ctIssued, ctWatch, ctTxt, ctLeak, ctTorn, ctHit>>
    BY <1>1, <1>2, <1>3 DEF WriteKey, ChangeFiles, feedVars, servedVars, blameVars
  <1>5. /\ CertTypes /\ (\A u \in CtTasks : TaskOk(ctTask[u])) /\ (\A x \in CtDomains : FilesOk(x, ctDisk[x]))
    BY DEF CertInv
  <1>6. d \in CtDomains /\ n \in Nat \ {0} /\ ctDisk[d] \in Files
    BY <1>1, <1>2, <1>4, <1>5 DEF CertTypes, TaskRow, TaskOk
  <1>7. PICK k \in TaskRow : ctTask' = [ctTask EXCEPT ![t] = k] /\ k.pc \in {"idle", "creds"} /\ (k.pc = "creds" => k.d = d /\ k.n = n)
    <2>1. CASE EndTask(t)
      <3>1. ctTask' = [ctTask EXCEPT ![t] = CtIdle]
        BY <2>1 DEF EndTask
      <3>2. PICK q \in TaskRow : q = CtIdle /\ q.pc = "idle"
        BY EmptyRecords
      <3>3. ctTask' = [ctTask EXCEPT ![t] = q]
        BY <3>1, <3>2
      <3>. QED BY <3>2, <3>3
    <2>2. CASE Step(t, "creds")
      BY <1>1, <1>2, <2>2, StepTo
    <2>. QED BY <1>4, <2>1, <2>2
  <1>8. k.pc \in {"idle", "creds"} /\ (k.pc = "creds" => k.d = d /\ k.n = n)
    BY <1>7, EmptyRecords
  <1>9. PICK f : f = [ctDisk[d] EXCEPT !.key = n, !.plain = none]
    OBVIOUS
  <1>10. /\ f \in Files /\ f.dir = ctDisk[d].dir /\ f.chain = ctDisk[d].chain /\ f.key = n /\ f.plain = none
         /\ f.creds = ctDisk[d].creds
    BY <1>3, <1>6, <1>9 DEF Files
  <1>11. ctDisk' = [ctDisk EXCEPT ![d] = f]
    BY <1>4, <1>5, <1>6, <1>9 DEF CertTypes
  <1>12. \A u \in CtTasks : ctTask'[u] = IF u = t THEN k ELSE ctTask[u]
    BY <1>5, <1>7 DEF CertTypes
  <1>13. ctDisk'[d] = f
    BY <1>5, <1>6, <1>11 DEF CertTypes
  <1>14. Writing(d)' = Writing(d) \ {t} /\ t \in Writing(d)
    BY <1>1, <1>4, <1>8, <1>12 DEF Writing
  <1>15. Deleting(d)' <=> Deleting(d)
    BY <1>4 DEF Deleting
  <1>16. KeyOf(f) = n
    BY <1>6, <1>10 DEF KeyOf
  <1>17. FilesOk(d, f)'
    <2>1. FilesOk(d, ctDisk[d])
      BY <1>5, <1>6
    <2>2. TaskOk(ctTask[t])
      BY <1>5
    <2>3. f.chain # 0 /\ d \notin ctTorn => f.chain = n
      BY <1>1, <1>2, <1>4, <1>10, <2>2 DEF TaskOk
    <2>. QED BY <1>3, <1>4, <1>10, <1>14, <1>15, <1>16, <2>1, <2>3 DEF FilesOk
  <1>18. TaskOk(k)'
    <2>1. TaskOk(ctTask[t])
      BY <1>5
    <2>. QED BY <1>1, <1>2, <1>4, <1>6, <1>8, <1>10, <1>13, <1>15, <2>1 DEF TaskOk
  <1>19. ASSUME NEW u \in CtTasks \ {t}, ctTask[u].d = d PROVE TaskOk(ctTask[u])'
    <2>1. PICK q : q = ctTask[u]
      OBVIOUS
    <2>2. ctTask'[u] = q /\ TaskOk(q) /\ q.d = d
      BY <1>5, <1>12, <1>19, <2>1
    <2>3. TaskOk(q)'
      BY <1>4, <1>6, <1>10, <1>13, <1>15, <2>2 DEF TaskOk
    <2>. QED BY <2>2, <2>3 DEF TaskOk
  <1>. QED BY <1>1, <1>4, <1>6, <1>7, <1>8, <1>10, <1>11, <1>17, <1>18, <1>19, TaskWrites

LEMMA StoreDnsCredentialsStep ==
    ASSUME CertInv, NEW t \in CtTasks, StoreDnsCredentials(t)
    PROVE  CertInv'
  <1>1. PICK d : d = ctTask[t].d
    OBVIOUS
  <1>2. /\ ctTask[t].pc = "creds" /\ EndTask(t)
        /\ UNCHANGED <<ctBundle, ctUnseen, ctProxy, ctUi, ctMissed, ctDelete, ctIssued, ctWatch, ctTxt, ctLeak, ctTorn>>
    BY DEF StoreDnsCredentials, feedVars, servedVars
  <1>3. CASE UNCHANGED <<filesVars, ctHit>>
    <2>1. UNCHANGED <<ctDisk, ctPending, ctHit>>
      BY <1>3 DEF filesVars
    <2>. QED BY <1>2, <2>1, TaskEnds
  <1>4. CASE ChangeFiles([ctDisk EXCEPT ![d].dir = TRUE, ![d].creds = TRUE]) /\ ctHit' = IF Deleting(d) THEN ctHit \cup {d} ELSE ctHit
    <2>1. ctDisk' = [ctDisk EXCEPT ![d].dir = TRUE, ![d].creds = TRUE] /\ ctPending' = TRUE
      BY <1>4 DEF ChangeFiles
    <2>2. /\ CertTypes /\ (\A u \in CtTasks : TaskOk(ctTask[u])) /\ (\A x \in CtDomains : FilesOk(x, ctDisk[x]))
      BY DEF CertInv
    <2>3. d \in CtDomains /\ ctDisk[d] \in Files
      BY <1>1, <1>2, <2>2 DEF CertTypes, TaskOk
    <2>4. PICK f : f = [ctDisk[d] EXCEPT !.dir = TRUE, !.creds = TRUE]
      OBVIOUS
    <2>5. /\ f \in Files /\ f.dir = TRUE /\ f.chain = ctDisk[d].chain /\ f.key = ctDisk[d].key
          /\ f.plain = ctDisk[d].plain /\ f.creds = TRUE
      BY <2>3, <2>4 DEF Files
    <2>6. ctDisk' = [ctDisk EXCEPT ![d] = f] /\ ctTask' = [ctTask EXCEPT ![t] = CtIdle]
      BY <1>2, <2>1, <2>2, <2>3, <2>4 DEF CertTypes, EndTask
    <2>7. \A u \in CtTasks : ctTask'[u] = IF u = t THEN CtIdle ELSE ctTask[u]
      BY <2>2, <2>6 DEF CertTypes
    <2>8. ctDisk'[d] = f
      BY <2>2, <2>3, <2>6 DEF CertTypes
    <2>9. Writing(d)' = Writing(d)
      BY <1>2, <2>7, EmptyRecords DEF Writing
    <2>10. (Deleting(d)' <=> Deleting(d)) /\ ctHit \subseteq ctHit' /\ (Deleting(d) => d \in ctHit')
      BY <1>2, <1>4 DEF Deleting
    <2>11. FilesOk(d, f)'
      <3>1. FilesOk(d, ctDisk[d]) /\ TaskOk(ctTask[t])
        BY <2>2, <2>3
      <3>2. f.chain # 0 \/ d \in ctHit
        BY <1>1, <1>2, <2>5, <3>1 DEF TaskOk
      <3>. QED BY <1>2, <2>5, <2>9, <2>10, <3>1, <3>2 DEF FilesOk, KeyOf
    <2>12. TaskOk(CtIdle)'
      BY EmptyRecords DEF TaskOk
    <2>13. ASSUME NEW u \in CtTasks \ {t}, ctTask[u].d = d PROVE TaskOk(ctTask[u])'
      <3>1. PICK q : q = ctTask[u]
        OBVIOUS
      <3>2. ctTask'[u] = q /\ TaskOk(q) /\ q.d = d
        BY <2>2, <2>7, <2>13, <3>1
      <3>3. TaskOk(q)'
        BY <1>2, <2>3, <2>5, <2>8, <2>10, <3>2 DEF TaskOk
      <3>. QED BY <3>2, <3>3 DEF TaskOk
    <2>14. \A x \in CtDomains \ {d} : (x \in ctTorn' <=> x \in ctTorn) /\ (x \in ctHit' <=> x \in ctHit)
      BY <1>2, <1>4
    <2>. QED BY <1>1, <1>2, <2>1, <2>3, <2>5, <2>6, <2>11, <2>12, <2>13, <2>14, EmptyRecords, TaskWrites
  <1>. QED BY <1>1, <1>3, <1>4 DEF StoreDnsCredentials

-----------------------------------------------------------------------------
(* Files put in by hand, deletes *)

\* The files of d change and no task moves.
LEMMA FilesChange ==
    ASSUME CertInv, NEW d \in CtDomains, NEW f \in Files, ctDisk' = [ctDisk EXCEPT ![d] = f], ctPending' = TRUE,
           UNCHANGED <<ctTask, ctBundle, ctUnseen, ctProxy, ctUi, ctMissed, ctTxt, ctLeak>>,
           ctDelete' \in DeleteRow, ctDelete'.on => ctDelete'.d \in CtDomains, ctIssued' \in Nat, ctWatch' \in WatchRow,
           ctWatch' = ctWatch \/ ctWatch'.pc = "load",
           FilesOk(d, f)',
           \A x \in CtDomains \ {d} : /\ (x \in ctTorn' <=> x \in ctTorn) /\ (x \in ctHit' <=> x \in ctHit)
                                      /\ (Deleting(x)' <=> Deleting(x)) /\ (Deleting(x) => ctDelete'.left = ctDelete.left),
           \A t \in CtTasks : ctTask[t].d = d => TaskOk(ctTask[t])'
    PROVE  CertInv'
  <1>1. CertTypes /\ TxtRecordsGone
    BY DEF CertInv
  <1>2. ctTask' \in [CtTasks -> TaskRow] /\ TxtRecordsGone'
    BY <1>1 DEF CertTypes, TxtRecordsGone
  <1>3. \A t \in CtTasks : \/ ctTask'[t] = ctTask[t] /\ ctTask[t].d # d
                           \/ /\ TaskOk(ctTask[t])' /\ (ctTask'[t].pc = "key" => ctTask'[t].d = d)
                              /\ ctTask[t].pc = "key" => ctTask[t].d = d
    OBVIOUS
  <1>. QED BY <1>2, <1>3, DomainChanges

LEMMA FileDropStep ==
    ASSUME CertInv, NEW d \in CtDomains, FileDrop(d)
    PROVE  CertInv'
  <1>1. PICK n : n = ctIssued + 1
    OBVIOUS
  <1>2. /\ ctIssued' = n /\ ctDisk[d].key = 0 /\ ctPending' = TRUE
        /\ ctDisk' = [ctDisk EXCEPT ![d].dir = TRUE, ![d].chain = n, ![d].plain = n]
        /\ ctTorn' = IF Writing(d) = {} THEN ctTorn ELSE ctTorn \cup {d}
        /\ UNCHANGED <<ctTask, ctBundle, ctUnseen, ctProxy, ctUi, ctMissed, ctTxt, ctLeak, ctDelete, ctWatch, ctHit>>
    BY <1>1 DEF FileDrop, ChangeFiles, feedVars, servedVars
  <1>3. /\ CertTypes /\ (\A u \in CtTasks : TaskOk(ctTask[u])) /\ (\A x \in CtDomains : FilesOk(x, ctDisk[x]))
    BY DEF CertInv
  <1>4. n \in Nat \ {0} /\ ctDisk[d] \in Files
    BY <1>1, <1>3 DEF CertTypes
  <1>5. PICK f : f = [ctDisk[d] EXCEPT !.dir = TRUE, !.chain = n, !.plain = n]
    OBVIOUS
  <1>6. /\ f \in Files /\ f.dir = TRUE /\ f.chain = n /\ f.key = ctDisk[d].key /\ f.plain = n /\ f.creds = ctDisk[d].creds
    BY <1>4, <1>5 DEF Files
  <1>7. ctDisk' = [ctDisk EXCEPT ![d] = f] /\ ctDisk'[d] = f
    BY <1>2, <1>3, <1>4, <1>5 DEF CertTypes
  <1>8. (Writing(d)' = Writing(d)) /\ \A x : Deleting(x)' <=> Deleting(x)
    BY <1>2 DEF Writing, Deleting
  <1>9. FilesOk(d, f)'
    <2>1. FilesOk(d, ctDisk[d])
      BY <1>3
    <2>. QED BY <1>2, <1>4, <1>6, <1>8, <2>1 DEF FilesOk, KeyOf
  <1>10. ASSUME NEW u \in CtTasks, ctTask[u].d = d PROVE TaskOk(ctTask[u])'
    <2>1. PICK q : q = ctTask[u]
      OBVIOUS
    <2>2. ctTask'[u] = q /\ TaskOk(q) /\ q.d = d /\ (q.pc = "key" => u \in Writing(d))
      BY <1>2, <1>3, <1>10, <2>1 DEF Writing
    <2>3. TaskOk(q)'
      BY <1>2, <1>4, <1>6, <1>7, <1>8, <2>2 DEF TaskOk
    <2>. QED BY <2>2, <2>3 DEF TaskOk
  <1>11. \A x \in CtDomains \ {d} : (x \in ctTorn' <=> x \in ctTorn) /\ (x \in ctHit' <=> x \in ctHit)
    BY <1>2
  <1>12. /\ ctDelete' \in DeleteRow /\ (ctDelete'.on => ctDelete'.d \in CtDomains)
         /\ ctIssued' \in Nat /\ ctWatch' \in WatchRow
    BY <1>2, <1>3, <1>4 DEF CertTypes
  <1>. QED BY <1>2, <1>6, <1>7, <1>8, <1>9, <1>10, <1>11, <1>12, FilesChange

\* A delete begins or ends and no file changes.
LEMMA DeleteMoves ==
    ASSUME CertInv, ctDelete' \in DeleteRow, ctDelete'.on => ctDelete'.d \in CtDomains,
           UNCHANGED <<ctDisk, ctTask, ctWatch, ctPending, ctBundle, ctUnseen, ctProxy, ctUi, ctMissed, ctTxt, ctLeak, ctIssued, ctTorn>>,
           ctHit \subseteq ctHit',
           \A d \in CtDomains : Deleting(d)' /\ (\E t \in CtTasks : ctTask[t].pc \in {"key", "creds"} /\ ctTask[t].d = d) => d \in ctHit',
           \A d \in CtDomains : ctDisk[d].creds => d \in ctHit' \/ IF Deleting(d)' THEN "creds" \in ctDelete'.left ELSE ctDisk[d].chain # 0
    PROVE  CertInv'
  <1>1. /\ CertTypes /\ (\A u \in CtTasks : TaskOk(ctTask[u])) /\ (\A x \in CtDomains : FilesOk(x, ctDisk[x]))
        /\ ReadOk(ctWatch) /\ PublishedUnlessMissed /\ Taken /\ TxtRecordsGone
    BY DEF CertInv
  <1>2. CertTypes' /\ ReadOk(ctWatch)' /\ PublishedUnlessMissed' /\ Taken' /\ TxtRecordsGone'
    BY <1>1 DEF CertTypes, ReadOk, PublishedUnlessMissed, Taken, TxtRecordsGone
  <1>3. \A u \in CtTasks : TaskOk(ctTask[u])'
    BY <1>1 DEF TaskOk
  <1>4. \A x \in CtDomains : FilesOk(x, ctDisk[x])'
    <2> SUFFICES ASSUME NEW x \in CtDomains PROVE FilesOk(x, ctDisk[x])'
      OBVIOUS
    <2>1. FilesOk(x, ctDisk[x]) /\ Writing(x)' = Writing(x)
      BY <1>1 DEF Writing
    <2>. QED BY <2>1 DEF FilesOk
  <1>. QED BY <1>2, <1>3, <1>4 DEF CertInv

LEMMA DeleteCertificateStep ==
    ASSUME CertInv, NEW d \in CtDomains, DeleteCertificate(d)
    PROVE  CertInv'
  <1>1. PICK left : left = {f \in {"chain", "key", "plain"} : ctDisk[d][f] # 0} \cup {f \in {"creds"} : ctDisk[d][f]}
    OBVIOUS
  <1>2. /\ ~ctDelete.on /\ ctDelete' = [d |-> d, on |-> TRUE, left |-> left]
        /\ ctHit' = IF \E t \in CtTasks : ctTask[t].pc \in {"key", "creds"} /\ ctTask[t].d = d
                    THEN ctHit \cup {d} ELSE ctHit
        /\ UNCHANGED <<ctDisk, ctTask, ctWatch, ctPending, ctBundle, ctUnseen, ctProxy, ctUi, ctMissed, ctTxt, ctLeak, ctIssued, ctTorn>>
    BY <1>1 DEF DeleteCertificate, filesVars, issueVars, feedVars
  <1>3. left \subseteq {"chain", "key", "plain", "creds"} /\ (ctDisk[d].creds => "creds" \in left)
    BY <1>1
  <1>4. ctDelete' \in DeleteRow /\ ctDelete'.d = d /\ ctDelete'.left = left
    BY <1>2, <1>3 DEF DeleteRow
  <1>5. \A x : (Deleting(x)' => x = d) /\ ~Deleting(x)
    BY <1>2, <1>4 DEF Deleting
  <1>6. \A x \in CtDomains : ctDisk[x].creds => x \in ctHit' \/ IF Deleting(x)' THEN "creds" \in ctDelete'.left ELSE ctDisk[x].chain # 0
    <2> SUFFICES ASSUME NEW x \in CtDomains, ctDisk[x].creds
                 PROVE  x \in ctHit' \/ IF Deleting(x)' THEN "creds" \in ctDelete'.left ELSE ctDisk[x].chain # 0
      OBVIOUS
    <2>1. x \in ctHit \/ ctDisk[x].chain # 0
      BY <1>5 DEF CertInv, FilesOk
    <2>2. ctHit \subseteq ctHit'
      BY <1>2
    <2>. QED BY <1>3, <1>4, <1>5, <2>1, <2>2
  <1>7. ctHit \subseteq ctHit' /\ \A x \in CtDomains : Deleting(x)' /\ (\E t \in CtTasks : ctTask[t].pc \in {"key", "creds"} /\ ctTask[t].d = x) => x \in ctHit'
    BY <1>2, <1>5
  <1>. QED BY <1>2, <1>4, <1>6, <1>7, DeleteMoves

LEMMA RemoveDirStep ==
    ASSUME CertInv, RemoveDir
    PROVE  CertInv'
  <1>1. PICK d : d = ctDelete.d
    OBVIOUS
  <1>2. /\ ctDelete.on /\ ctDelete.left = {} /\ ctDelete' = NoDelete
        /\ \/ ctDisk' = [ctDisk EXCEPT ![d] = NoFiles] /\ ctPending' = TRUE
           \/ UNCHANGED <<ctDisk, ctPending>>
        /\ UNCHANGED <<ctTask, ctWatch, ctBundle, ctUnseen, ctProxy, ctUi, ctMissed, ctTxt, ctLeak, ctIssued, ctTorn, ctHit>>
    BY <1>1 DEF RemoveDir, ChangeFiles, filesVars, issueVars, feedVars, servedVars, blameVars
  <1>3. /\ CertTypes /\ (\A u \in CtTasks : TaskOk(ctTask[u])) /\ (\A x \in CtDomains : FilesOk(x, ctDisk[x]))
    BY DEF CertInv
  <1>4. d \in CtDomains /\ Deleting(d) /\ \A x : ~Deleting(x)' /\ (x # d => ~Deleting(x))
    BY <1>1, <1>2, <1>3, EmptyRecords DEF CertTypes, Deleting
  <1>5. ctDelete' \in DeleteRow /\ ~ctDelete'.on
    BY <1>2, EmptyRecords
  <1>6. CASE UNCHANGED <<ctDisk, ctPending>>
    <2>1. \A x \in CtDomains : ctDisk[x].creds => x \in ctHit \/ ctDisk[x].chain # 0
      BY <1>2, <1>3, <1>4 DEF FilesOk
    <2>. QED BY <1>2, <1>4, <1>5, <1>6, <2>1, DeleteMoves
  <1>7. CASE ctDisk' = [ctDisk EXCEPT ![d] = NoFiles] /\ ctPending' = TRUE
    <2>1. NoFiles \in Files /\ NoFiles.key = 0 /\ NoFiles.plain = 0 /\ NoFiles.chain = 0 /\ ~NoFiles.creds
      BY EmptyRecords DEF NoFiles
    <2>2. ctDisk'[d] = NoFiles /\ Writing(d)' = Writing(d)
      BY <1>2, <1>3, <1>4, <1>7 DEF CertTypes, Writing
    <2>3. FilesOk(d, NoFiles)'
      <3>1. FilesOk(d, ctDisk[d])
        BY <1>3, <1>4
      <3>2. Bare(NoFiles)
        BY <2>1 DEF Bare
      <3>. QED BY <1>2, <2>1, <2>2, <3>1, <3>2 DEF FilesOk
    <2>4. ASSUME NEW u \in CtTasks, ctTask[u].d = d PROVE TaskOk(ctTask[u])'
      <3>1. PICK q : q = ctTask[u]
        OBVIOUS
      <3>2. ctTask'[u] = q /\ TaskOk(q) /\ q.d = d
        BY <1>2, <1>3, <2>4, <3>1
      <3>3. TaskOk(q)'
        BY <1>2, <1>4, <2>1, <2>2, <3>2 DEF TaskOk
      <3>. QED BY <3>2, <3>3 DEF TaskOk
    <2>5. ctIssued' \in Nat /\ ctWatch' \in WatchRow
      BY <1>2, <1>3 DEF CertTypes
    <2>. QED BY <1>2, <1>4, <1>5, <1>7, <2>1, <2>3, <2>4, <2>5, FilesChange
  <1>. QED BY <1>2, <1>6, <1>7

\* g is r with the file f unlinked.
FileGone(r, f, g) ==
    /\ g = [r EXCEPT ![f] = IF f = "creds" THEN FALSE ELSE 0]
    /\ g.dir = r.dir /\ g.chain \in {0, r.chain} /\ g.key \in {0, r.key} /\ g.plain \in {0, r.plain}
    /\ (f = "creds" => ~g.creds) /\ (f # "creds" => g.creds = r.creds)
    /\ ~r.creds => ~g.creds

LEMMA Unlinked ==
    ASSUME NEW r \in Files, NEW f \in {"chain", "key", "plain", "creds"}
    PROVE  \E g \in Files : FileGone(r, f, g)
  <1>1. PICK none : none = 0
    OBVIOUS
  <1>2. CASE f = "chain"
    <2>1. PICK g : g = [r EXCEPT !.chain = none]
      OBVIOUS
    <2>2. /\ g \in Files /\ g.dir = r.dir /\ g.chain = none /\ g.key = r.key /\ g.plain = r.plain /\ g.creds = r.creds
      BY <1>1, <2>1 DEF Files
    <2>4. g = [r EXCEPT ![f] = IF f = "creds" THEN FALSE ELSE 0]
      BY <1>1, <1>2, <2>1
    <2>. QED BY <1>1, <1>2, <2>2, <2>4 DEF FileGone
  <1>3. CASE f = "key"
    <2>1. PICK g : g = [r EXCEPT !.key = none]
      OBVIOUS
    <2>2. /\ g \in Files /\ g.dir = r.dir /\ g.chain = r.chain /\ g.key = none /\ g.plain = r.plain /\ g.creds = r.creds
      BY <1>1, <2>1 DEF Files
    <2>4. g = [r EXCEPT ![f] = IF f = "creds" THEN FALSE ELSE 0]
      BY <1>1, <1>3, <2>1
    <2>. QED BY <1>1, <1>3, <2>2, <2>4 DEF FileGone
  <1>4. CASE f = "plain"
    <2>1. PICK g : g = [r EXCEPT !.plain = none]
      OBVIOUS
    <2>2. /\ g \in Files /\ g.dir = r.dir /\ g.chain = r.chain /\ g.key = r.key /\ g.plain = none /\ g.creds = r.creds
      BY <1>1, <2>1 DEF Files
    <2>4. g = [r EXCEPT ![f] = IF f = "creds" THEN FALSE ELSE 0]
      BY <1>1, <1>4, <2>1
    <2>. QED BY <1>1, <1>4, <2>2, <2>4 DEF FileGone
  <1>5. CASE f = "creds"
    <2>1. PICK g : g = [r EXCEPT !.creds = FALSE]
      OBVIOUS
    <2>2. /\ g \in Files /\ g.dir = r.dir /\ g.chain = r.chain /\ g.key = r.key /\ g.plain = r.plain /\ g.creds = FALSE
      BY <2>1 DEF Files
    <2>4. g = [r EXCEPT ![f] = IF f = "creds" THEN FALSE ELSE 0]
      BY <1>5, <2>1
    <2>. QED BY <1>5, <2>2, <2>4 DEF FileGone
  <1>. QED BY <1>2, <1>3, <1>4, <1>5

LEMMA UnlinkFileStep ==
    ASSUME CertInv, UnlinkFile
    PROVE  CertInv'
  <1>1. PICK d : d = ctDelete.d
    OBVIOUS
  <1>2. PICK f \in ctDelete.left : /\ ctDelete' = [ctDelete EXCEPT !.left = ctDelete.left \ {f}]
                                   /\ ChangeFiles([ctDisk EXCEPT ![d][f] = IF f = "creds" THEN FALSE ELSE 0])
    BY <1>1 DEF UnlinkFile
  <1>3. /\ ctDelete.on /\ ctPending' = TRUE
        /\ UNCHANGED <<ctTask, ctWatch, ctBundle, ctUnseen, ctProxy, ctUi, ctMissed, ctTxt, ctLeak, ctIssued, ctTorn, ctHit>>
    BY <1>2 DEF UnlinkFile, ChangeFiles, issueVars, feedVars, servedVars, blameVars
  <1>4. /\ CertTypes /\ (\A u \in CtTasks : TaskOk(ctTask[u])) /\ (\A x \in CtDomains : FilesOk(x, ctDisk[x]))
    BY DEF CertInv
  <1>5. d \in CtDomains /\ ctDisk[d] \in Files /\ f \in {"chain", "key", "plain", "creds"}
    BY <1>1, <1>2, <1>3, <1>4 DEF CertTypes, DeleteRow
  <1>6. PICK g \in Files : FileGone(ctDisk[d], f, g)
    BY <1>5, Unlinked
  <1>7. ctDisk' = [ctDisk EXCEPT ![d] = g]
    BY <1>2, <1>6 DEF ChangeFiles, FileGone
  <1>8. /\ ctDelete' \in DeleteRow /\ ctDelete'.on /\ ctDelete'.d = d /\ ctDelete'.left = ctDelete.left \ {f}
    BY <1>1, <1>2, <1>3, <1>4 DEF CertTypes, DeleteRow
  <1>9. Deleting(d) /\ Deleting(d)' /\ \A x : x # d => ~Deleting(x) /\ ~Deleting(x)'
    BY <1>1, <1>3, <1>8 DEF Deleting
  <1>10. ctDisk'[d] = g /\ Writing(d)' = Writing(d)
    BY <1>3, <1>4, <1>5, <1>7 DEF CertTypes, Writing
  <1>11. FilesOk(d, g)'
    <2>1. FilesOk(d, ctDisk[d])
      BY <1>4, <1>5
    <2>2. g.chain # 0 /\ KeyOf(g) # 0 => g.chain = ctDisk[d].chain /\ KeyOf(g) = KeyOf(ctDisk[d])
      BY <1>6, <2>1 DEF KeyOf, FilesOk, FileGone
    <2>3. g.dir \/ Bare(g)
      <3>1. CASE ctDisk[d].dir
        BY <1>6, <3>1 DEF FileGone
      <3>2. CASE Bare(ctDisk[d])
        <4>1. g.chain = 0 /\ g.key = 0 /\ g.plain = 0
          BY <1>6, <3>2 DEF FileGone, Bare
        <4>2. ~g.creds
          BY <1>6, <3>2 DEF FileGone, Bare
        <4>. QED BY <4>1, <4>2 DEF Bare
      <3>. QED BY <2>1, <3>1, <3>2 DEF FilesOk
    <2>4. g.key = 0 \/ g.plain = 0
      BY <1>6, <2>1 DEF FilesOk, FileGone
    <2>5. g.creds => d \in ctHit' \/ "creds" \in ctDelete'.left
      BY <1>3, <1>6, <1>8, <1>9, <2>1 DEF FilesOk, FileGone
    <2>. QED BY <1>3, <1>9, <1>10, <2>1, <2>2, <2>3, <2>4, <2>5 DEF FilesOk
  <1>12. ASSUME NEW u \in CtTasks, ctTask[u].d = d PROVE TaskOk(ctTask[u])'
    <2>1. PICK q : q = ctTask[u]
      OBVIOUS
    <2>2. ctTask'[u] = q /\ TaskOk(q) /\ q.d = d
      BY <1>3, <1>4, <1>12, <2>1
    <2>3. TaskOk(q)'
      BY <1>3, <1>5, <1>6, <1>9, <1>10, <2>2 DEF TaskOk, FileGone
    <2>. QED BY <2>2, <2>3 DEF TaskOk
  <1>13. ctIssued' \in Nat /\ ctWatch' \in WatchRow
    BY <1>3, <1>4 DEF CertTypes
  <1>. QED BY <1>3, <1>5, <1>7, <1>8, <1>9, <1>11, <1>12, <1>13, FilesChange

-----------------------------------------------------------------------------
(* The watcher *)

LEMMA LoadOf ==
    ASSUME NEW disk, NEW d \in CtDomains
    PROVE  /\ LoadCertificates(disk)[d] = IF disk[d].chain = 0 \/ KeyOf(disk[d]) = 0 THEN NoPair
                                           ELSE [chain |-> disk[d].chain, key |-> KeyOf(disk[d])]
           /\ disk[d].chain = 0 => LoadCertificates(disk)[d] = NoPair
  BY DEF LoadCertificates

LEMMA LoadType ==
    ASSUME NEW disk \in [CtDomains -> Files]
    PROVE  LoadCertificates(disk) \in [CtDomains -> Pairs]
  <1>1. ASSUME NEW d \in CtDomains PROVE LoadCertificates(disk)[d] \in Pairs
    <2>1. disk[d].chain \in Nat /\ KeyOf(disk[d]) \in Nat
      BY DEF Files, KeyOf
    <2>2. [chain |-> disk[d].chain, key |-> KeyOf(disk[d])] \in Pairs
      BY <2>1 DEF Pairs
    <2>. QED BY <2>2, LoadOf, EmptyRecords
  <1>2. LoadCertificates(disk) = [d \in CtDomains |-> LoadCertificates(disk)[d]]
    BY DEF LoadCertificates
  <1>. QED BY <1>1, <1>2

LEMMA ReceiveEventStep ==
    ASSUME CertInv, ReceiveEvent
    PROVE  CertInv'
  <1>1. PICK todo : todo = {d \in CtDomains : ctDisk[d].dir}
    OBVIOUS
  <1>2. PICK w : w = [ctWatch EXCEPT !.pc = "load", !.todo = todo]
    OBVIOUS
  <1>3. /\ ctWatch.pc = "ready" /\ ctPending' \in BOOLEAN /\ ctWatch' = w
        /\ UNCHANGED <<ctDisk, ctDelete, ctTask, ctIssued, ctTxt, ctLeak, ctBundle, ctUnseen, ctMissed, ctProxy, ctUi, ctTorn, ctHit>>
    BY <1>1, <1>2 DEF ReceiveEvent, issueVars, servedVars, blameVars
  <1>4. CertTypes /\ (\A d \in CtDomains : FilesOk(d, ctDisk[d])) /\ ReadOk(ctWatch) /\ Taken
    BY DEF CertInv
  <1>5. w \in WatchRow /\ w.pc = "load" /\ w.todo = todo /\ w.got = ctWatch.got
    BY <1>1, <1>2, <1>4 DEF CertTypes, WatchRow
  <1>6. w.got = NoPairs
    BY <1>3, <1>4, <1>5 DEF ReadOk
  <1>7. \A d \in CtDomains : w.got[d] = IF d \in w.todo THEN NoPair ELSE LoadCertificates(ctDisk)[d]
    <2>1. \A d \in CtDomains : w.got[d] = NoPair
      BY <1>6 DEF NoPairs
    <2>2. ASSUME NEW d \in CtDomains, d \notin w.todo PROVE LoadCertificates(ctDisk)[d] = NoPair
      <3>1. ctDisk[d].chain = 0
        BY <1>1, <1>4, <1>5, <2>2 DEF FilesOk, Bare
      <3>. QED BY <3>1, LoadOf
    <2>3. ASSUME NEW d \in CtDomains PROVE w.got[d] = IF d \in w.todo THEN NoPair ELSE LoadCertificates(ctDisk)[d]
      BY <2>1, <2>2
    <2>. QED BY <2>3
  <1>8. LoadCertificates(ctDisk)' = LoadCertificates(ctDisk)
    BY <1>3
  <1>9. ReadOk(w)'
    BY <1>5, <1>7, <1>8 DEF ReadOk
  <1>10. PublishedUnlessMissed' /\ Taken'
    BY <1>3, <1>4, <1>5 DEF PublishedUnlessMissed, Taken
  <1>. QED BY <1>3, <1>4, <1>5, <1>9, <1>10, WatchMoves DEF CertTypes

LEMMA ReadChainStep ==
    ASSUME CertInv, NEW d \in CtDomains, ReadChain(d)
    PROVE  CertInv'
  <1>1. PICK c : c = ctDisk[d].chain
    OBVIOUS
  <1>2. PICK pc \in {"load", "read_key"} : pc = IF c = 0 THEN "load" ELSE "read_key"
    OBVIOUS
  <1>3. PICK todo : todo = ctWatch.todo \ {d}
    OBVIOUS
  <1>4. PICK w : w = [ctWatch EXCEPT !.pc = pc, !.todo = todo, !.d = d, !.chain = c]
    OBVIOUS
  <1>5. /\ ctWatch.pc = "load" /\ d \in ctWatch.todo /\ ctWatch' = w
        /\ UNCHANGED <<ctDisk, ctPending, ctDelete, ctTask, ctIssued, ctTxt, ctLeak, ctBundle, ctUnseen, ctMissed, ctProxy, ctUi, ctTorn, ctHit>>
    BY <1>1, <1>2, <1>3, <1>4 DEF ReadChain, filesVars, issueVars, servedVars, blameVars
  <1>6. CertTypes /\ ReadOk(ctWatch) /\ Taken
    BY DEF CertInv
  <1>7. c \in Nat /\ todo \subseteq CtDomains
    BY <1>1, <1>3, <1>6 DEF CertTypes, Files, WatchRow
  <1>8. w \in WatchRow /\ w.pc = pc /\ w.todo = todo /\ w.got = ctWatch.got /\ w.d = d /\ w.chain = c
    BY <1>4, <1>6, <1>7 DEF CertTypes, WatchRow
  <1>9. ASSUME ~ctPending, NEW x \in CtDomains
        PROVE  w.got[x] = IF x \in w.todo \/ (w.pc = "read_key" /\ x = w.d) THEN NoPair ELSE LoadCertificates(ctDisk)[x]
    <2>1. ctWatch.got[x] = IF x \in ctWatch.todo THEN NoPair ELSE LoadCertificates(ctDisk)[x]
      BY <1>5, <1>6, <1>9 DEF ReadOk
    <2>2. CASE x = d
      <3>1. c = 0 => LoadCertificates(ctDisk)[x] = NoPair
        BY <1>1, <2>2, LoadOf
      <3>. QED BY <1>2, <1>3, <1>5, <1>8, <2>1, <2>2, <3>1
    <2>3. CASE x # d
      BY <1>3, <1>8, <2>1, <2>3
    <2>. QED BY <2>2, <2>3
  <1>10. LoadCertificates(ctDisk)' = LoadCertificates(ctDisk)
    BY <1>5
  <1>11. ReadOk(w)'
    <2>1. ~ctPending /\ w.pc = "read_key" => w.d \notin w.todo /\ w.chain = ctDisk[w.d].chain /\ w.chain # 0
      BY <1>1, <1>2, <1>3, <1>8
    <2>. QED BY <1>2, <1>5, <1>8, <1>9, <1>10, <2>1 DEF ReadOk
  <1>12. PublishedUnlessMissed' /\ Taken'
    BY <1>2, <1>5, <1>6, <1>8 DEF PublishedUnlessMissed, Taken
  <1>. QED BY <1>5, <1>6, <1>8, <1>11, <1>12, WatchMoves DEF CertTypes

LEMMA PublishStep ==
    ASSUME CertInv, Publish
    PROVE  CertInv'
  <1>1. PICK w : w = [ctWatch EXCEPT !.pc = "quiet", !.got = NoPairs]
    OBVIOUS
  <1>2. /\ ctWatch.pc = "load" /\ ctWatch.todo = {} /\ ctWatch' = w /\ ctBundle' = ctWatch.got /\ ctUnseen' = TRUE /\ ctMissed' = FALSE
        /\ UNCHANGED <<ctDisk, ctPending, ctDelete, ctTask, ctIssued, ctTxt, ctLeak, ctProxy, ctUi, ctTorn, ctHit>>
    BY <1>1 DEF Publish, NoPairs, filesVars, issueVars, servedVars, blameVars
  <1>3. CertTypes /\ ReadOk(ctWatch)
    BY DEF CertInv
  <1>4. w \in WatchRow /\ w.pc = "quiet" /\ w.got = NoPairs
    BY <1>1, <1>3, EmptyRecords DEF CertTypes, WatchRow
  <1>5. ctWatch.got \in [CtDomains -> Pairs]
    BY <1>3 DEF CertTypes, WatchRow
  <1>6. ReadOk(w)'
    BY <1>4 DEF ReadOk
  <1>7. ~ctPending => ctWatch.got = LoadCertificates(ctDisk)
    <2>1. ~ctPending => \A d \in CtDomains : ctWatch.got[d] = LoadCertificates(ctDisk)[d]
      BY <1>2, <1>3 DEF ReadOk
    <2>2. LoadCertificates(ctDisk) \in [CtDomains -> Pairs]
      BY <1>3, LoadType DEF CertTypes
    <2>. QED BY <1>5, <2>1, <2>2
  <1>8. LoadCertificates(ctDisk)' = LoadCertificates(ctDisk)
    BY <1>2
  <1>9. PublishedUnlessMissed' /\ Taken'
    BY <1>2, <1>7, <1>8 DEF PublishedUnlessMissed, Taken
  <1>. QED BY <1>2, <1>3, <1>4, <1>5, <1>6, <1>9, WatchMoves DEF CertTypes

LEMMA DebounceEventsStep ==
    ASSUME CertInv, DebounceEvents
    PROVE  CertInv'
  <1>1. PICK w : w = ctWatch
    OBVIOUS
  <1>2. /\ w.pc = "quiet" /\ ctWatch' = w /\ ctPending' = FALSE /\ ctMissed' = (ctMissed \/ ctBundle # LoadCertificates(ctDisk))
        /\ UNCHANGED <<ctDisk, ctDelete, ctTask, ctIssued, ctTxt, ctLeak, ctBundle, ctUnseen, ctProxy, ctUi, ctTorn, ctHit>>
    BY <1>1 DEF DebounceEvents, issueVars, servedVars, blameVars
  <1>3. CertTypes /\ ReadOk(w) /\ Taken
    BY <1>1 DEF CertInv
  <1>4. ReadOk(w)'
    BY <1>2, <1>3 DEF ReadOk
  <1>5. LoadCertificates(ctDisk)' = LoadCertificates(ctDisk)
    BY <1>2
  <1>6. PublishedUnlessMissed' /\ Taken'
    BY <1>2, <1>3, <1>5 DEF PublishedUnlessMissed, Taken
  <1>7. w \in WatchRow /\ ctMissed' \in BOOLEAN
    BY <1>1, <1>2, <1>3 DEF CertTypes
  <1>. QED BY <1>2, <1>3, <1>4, <1>6, <1>7, WatchMoves DEF CertTypes

LEMMA WindowEndsStep ==
    ASSUME CertInv, WindowEnds
    PROVE  CertInv'
  <1>1. PICK w : w = [ctWatch EXCEPT !.pc = "ready"]
    OBVIOUS
  <1>2. /\ ctWatch.pc = "quiet" /\ ctWatch' = w
        /\ UNCHANGED <<ctDisk, ctPending, ctDelete, ctTask, ctIssued, ctTxt, ctLeak, ctBundle, ctUnseen, ctMissed, ctProxy, ctUi, ctTorn, ctHit>>
    BY <1>1 DEF WindowEnds, filesVars, issueVars, servedVars, blameVars
  <1>3. CertTypes /\ ReadOk(ctWatch) /\ Taken /\ PublishedUnlessMissed
    BY DEF CertInv
  <1>4. w \in WatchRow /\ w.pc = "ready" /\ w.got = ctWatch.got
    BY <1>1, <1>3 DEF CertTypes, WatchRow
  <1>5. ReadOk(w)'
    BY <1>2, <1>3, <1>4 DEF ReadOk
  <1>6. LoadCertificates(ctDisk)' = LoadCertificates(ctDisk)
    BY <1>2
  <1>7. PublishedUnlessMissed' /\ Taken'
    BY <1>2, <1>3, <1>4, <1>6 DEF PublishedUnlessMissed, Taken
  <1>. QED BY <1>2, <1>3, <1>4, <1>5, <1>7, WatchMoves DEF CertTypes

\* The watcher w has read the pair of d.
LEMMA PairRead ==
    ASSUME CertInv, NEW d \in CtDomains, ctWatch.d = d, ctWatch.pc = "read_key", ~ctPending,
           NEW x \in CtDomains \ {d}
    PROVE  ctWatch.got[x] = IF x \in ctWatch.todo THEN NoPair ELSE LoadCertificates(ctDisk)[x]
  BY DEF CertInv, ReadOk

LEMMA ReadKeyStep ==
    ASSUME CertInv, ReadKey
    PROVE  CertInv'
  <1>1. PICK d : d = ctWatch.d
    OBVIOUS
  <1>2. PICK f : f = ctDisk[d]
    OBVIOUS
  <1>3. PICK pair : pair = [chain |-> ctWatch.chain, key |-> f.key]
    OBVIOUS
  <1>4. /\ ctWatch.pc = "read_key"
        /\ UNCHANGED <<ctDisk, ctPending, ctDelete, ctTask, ctIssued, ctTxt, ctLeak, ctBundle, ctUnseen, ctMissed, ctProxy, ctUi, ctTorn, ctHit>>
    BY DEF ReadKey, filesVars, issueVars, servedVars, blameVars
  <1>5. CertTypes /\ ReadOk(ctWatch) /\ Taken /\ (\A x \in CtDomains : FilesOk(x, ctDisk[x]))
    BY DEF CertInv
  <1>6. d \in CtDomains /\ f \in Files /\ FilesOk(d, f) /\ ctWatch \in WatchRow
    BY <1>1, <1>2, <1>4, <1>5 DEF CertTypes, ReadOk
  <1>7. ~ctPending => d \notin ctWatch.todo /\ ctWatch.chain = f.chain /\ f.chain # 0
    BY <1>1, <1>2, <1>4, <1>5 DEF ReadOk
  <1>8. LoadCertificates(ctDisk)' = LoadCertificates(ctDisk)
    BY <1>4
  <1>9. CASE f.key # 0
    <2>1. PICK w : w = [ctWatch EXCEPT !.pc = "load", !.got = [ctWatch.got EXCEPT ![d] = pair]]
      OBVIOUS
    <2>2. ctWatch' = w
      BY <1>1, <1>2, <1>3, <1>9, <2>1 DEF ReadKey
    <2>3. pair \in Pairs /\ ctWatch.got \in [CtDomains -> Pairs]
      BY <1>3, <1>6 DEF Pairs, Files, WatchRow
    <2>4. w \in WatchRow /\ w.pc = "load" /\ w.todo = ctWatch.todo /\ w.got = [ctWatch.got EXCEPT ![d] = pair]
      BY <1>6, <2>1, <2>3 DEF WatchRow
    <2>5. \A x \in CtDomains : w.got[x] = IF x = d THEN pair ELSE ctWatch.got[x]
      BY <2>3, <2>4
    <2>6. ~ctPending => LoadCertificates(ctDisk)[d] = pair
      <3>1. KeyOf(f) = f.key
        BY <1>9 DEF KeyOf
      <3>. QED BY <1>2, <1>3, <1>6, <1>7, <1>9, <3>1, LoadOf
    <2>7. ASSUME ~ctPending, NEW x \in CtDomains
          PROVE  w.got[x] = IF x \in w.todo THEN NoPair ELSE LoadCertificates(ctDisk)[x]
      <3>1. CASE x = d
        BY <1>7, <2>4, <2>5, <2>6, <2>7, <3>1
      <3>2. CASE x # d
        BY <1>1, <1>4, <1>6, <2>4, <2>5, <2>7, <3>2, PairRead
      <3>. QED BY <3>1, <3>2
    <2>8. ReadOk(w)'
      BY <1>4, <1>8, <2>4, <2>7 DEF ReadOk
    <2>9. PublishedUnlessMissed' /\ Taken'
      BY <1>4, <1>5, <2>2, <2>4 DEF PublishedUnlessMissed, Taken
    <2>. QED BY <1>4, <1>5, <2>2, <2>4, <2>8, <2>9, WatchMoves DEF CertTypes
  <1>10. CASE f.key = 0 /\ f.plain # 0
    <2>1. PICK w : w = [ctWatch EXCEPT !.pc = "migrate", !.files = f]
      OBVIOUS
    <2>2. ctWatch' = w
      BY <1>1, <1>2, <1>10, <2>1 DEF ReadKey
    <2>3. w \in WatchRow /\ w.pc = "migrate" /\ w.files = f /\ w.d = d
      BY <1>1, <1>6, <2>1 DEF WatchRow
    <2>4. ReadOk(w)'
      BY <1>2, <1>4, <1>6, <1>10, <2>3 DEF ReadOk
    <2>5. PublishedUnlessMissed' /\ Taken'
      BY <1>4, <1>5, <2>2, <2>3 DEF PublishedUnlessMissed, Taken
    <2>. QED BY <1>4, <1>5, <2>2, <2>3, <2>4, <2>5, WatchMoves DEF CertTypes
  <1>11. CASE f.key = 0 /\ f.plain = 0
    <2>1. PICK w : w = [ctWatch EXCEPT !.pc = "load"]
      OBVIOUS
    <2>2. ctWatch' = w
      BY <1>1, <1>2, <1>11, <2>1 DEF ReadKey
    <2>3. w \in WatchRow /\ w.pc = "load" /\ w.todo = ctWatch.todo /\ w.got = ctWatch.got
      BY <1>6, <2>1 DEF WatchRow
    <2>4. LoadCertificates(ctDisk)[d] = NoPair
      <3>1. KeyOf(f) = 0
        BY <1>11 DEF KeyOf
      <3>. QED BY <1>2, <1>6, <3>1, LoadOf
    <2>5. ~ctPending => ctWatch.got[d] = NoPair
      BY <1>1, <1>4, <1>5, <1>6 DEF ReadOk
    <2>6. ASSUME ~ctPending, NEW x \in CtDomains
          PROVE  w.got[x] = IF x \in w.todo THEN NoPair ELSE LoadCertificates(ctDisk)[x]
      <3>1. CASE x = d
        BY <2>3, <2>4, <2>5, <2>6, <3>1
      <3>2. CASE x # d
        BY <1>1, <1>4, <1>6, <2>3, <2>6, <3>2, PairRead
      <3>. QED BY <3>1, <3>2
    <2>7. ReadOk(w)'
      BY <1>4, <1>8, <2>3, <2>6 DEF ReadOk
    <2>8. PublishedUnlessMissed' /\ Taken'
      BY <1>4, <1>5, <2>2, <2>3 DEF PublishedUnlessMissed, Taken
    <2>. QED BY <1>4, <1>5, <2>2, <2>3, <2>7, <2>8, WatchMoves DEF CertTypes
  <1>. QED BY <1>9, <1>10, <1>11

LEMMA ReceiversTakeStep ==
    ASSUME CertInv, ReceiversTake
    PROVE  CertInv'
  <1>1. PICK w : w = ctWatch
    OBVIOUS
  <1>2. /\ ctWatch' = w /\ ctUnseen' = FALSE /\ ctProxy' = StoreFromBundle(ctBundle) /\ ctUi' = UiAfter(ctBundle, ctUi)
        /\ UNCHANGED <<ctDisk, ctPending, ctDelete, ctTask, ctIssued, ctTxt, ctLeak, ctBundle, ctMissed, ctTorn, ctHit>>
    BY <1>1 DEF ReceiversTake, filesVars, issueVars, blameVars
  <1>3. CertTypes /\ ReadOk(w) /\ PublishedUnlessMissed /\ w \in WatchRow
    BY <1>1 DEF CertInv, CertTypes
  <1>4. ReadOk(w)' /\ PublishedUnlessMissed'
    BY <1>1, <1>2, <1>3 DEF ReadOk, PublishedUnlessMissed
  <1>5. Taken'
    BY <1>2 DEF Taken, UiAfter, StoreFromBundle, SelectForUi
  <1>6. StoreFromBundle(ctBundle) \in [CtDomains -> Pairs]
    BY <1>3, EmptyRecords DEF StoreFromBundle, CertTypes
  <1>. QED BY <1>2, <1>3, <1>4, <1>5, <1>6, WatchMoves DEF CertTypes

LEMMA ProxyRestartsStep ==
    ASSUME CertInv, ProxyRestarts
    PROVE  CertInv'
  <1>1. PICK w : w = ctWatch
    OBVIOUS
  <1>2. /\ ctWatch' = w /\ ctUnseen' = TRUE /\ ctProxy' = NoPairs
        /\ UNCHANGED <<ctDisk, ctPending, ctDelete, ctTask, ctIssued, ctTxt, ctLeak, ctBundle, ctMissed, ctTorn, ctHit>>
    BY <1>1 DEF ProxyRestarts, NoPairs, filesVars, issueVars, blameVars
  <1>3. CertTypes /\ ReadOk(w) /\ PublishedUnlessMissed /\ w \in WatchRow
    BY <1>1 DEF CertInv, CertTypes
  <1>4. ReadOk(w)' /\ PublishedUnlessMissed' /\ Taken'
    BY <1>1, <1>2, <1>3 DEF ReadOk, PublishedUnlessMissed, Taken
  <1>. QED BY <1>2, <1>3, <1>4, EmptyRecords, WatchMoves DEF CertTypes

LEMMA MigrateKeyStep ==
    ASSUME CertInv, MigrateKey
    PROVE  CertInv'
  <1>1. PICK d : d = ctWatch.d
    OBVIOUS
  <1>2. PICK key : key = ctWatch.files.plain
    OBVIOUS
  <1>3. PICK none : none = 0
    OBVIOUS
  <1>4. PICK pair : pair = [chain |-> ctWatch.chain, key |-> key]
    OBVIOUS
  <1>5. PICK w : w = [ctWatch EXCEPT !.pc = "load", !.files = NoFiles, !.got = [ctWatch.got EXCEPT ![d] = pair]]
    OBVIOUS
  <1>6. /\ ctWatch.pc = "migrate" /\ ctWatch' = w
        /\ IF ctDisk[d].dir
           THEN ctDisk' = [ctDisk EXCEPT ![d].key = key, ![d].plain = none] /\ ctPending' = TRUE
           ELSE UNCHANGED <<ctDisk, ctPending>>
        /\ ctTorn' = IF ctDisk[d] = ctWatch.files THEN ctTorn ELSE ctTorn \cup {d}
        /\ UNCHANGED <<ctDelete, ctTask, ctIssued, ctTxt, ctLeak, ctBundle, ctUnseen, ctMissed, ctProxy, ctUi, ctHit>>
    BY <1>1, <1>2, <1>3, <1>4, <1>5 DEF MigrateKey, ChangeFiles, filesVars, issueVars, servedVars
  <1>7. /\ CertTypes /\ (\A u \in CtTasks : TaskOk(ctTask[u])) /\ (\A x \in CtDomains : FilesOk(x, ctDisk[x]))
        /\ ReadOk(ctWatch) /\ Taken
    BY DEF CertInv
  <1>8. d \in CtDomains /\ ctWatch.files.key = 0 /\ key # 0
    BY <1>1, <1>2, <1>6, <1>7 DEF ReadOk
  <1>9. ctWatch \in WatchRow /\ key \in Nat /\ ctDisk[d] \in Files /\ FilesOk(d, ctDisk[d])
    BY <1>2, <1>7, <1>8 DEF CertTypes, WatchRow, Files
  <1>10. w \in WatchRow /\ w.pc = "load"
    <2>1. pair \in Pairs /\ ctWatch.got \in [CtDomains -> Pairs]
      BY <1>4, <1>9 DEF Pairs, WatchRow
    <2>. QED BY <1>5, <1>9, <2>1, EmptyRecords DEF WatchRow
  <1>11. CASE ctDisk[d].dir
    <2>1. PICK f : f = [ctDisk[d] EXCEPT !.key = key, !.plain = none]
      OBVIOUS
    <2>2. /\ f \in Files /\ f.dir = ctDisk[d].dir /\ f.chain = ctDisk[d].chain /\ f.key = key /\ f.plain = none
          /\ f.creds = ctDisk[d].creds
      BY <1>3, <1>9, <2>1 DEF Files
    <2>3. ctDisk' = [ctDisk EXCEPT ![d] = f] /\ ctDisk'[d] = f /\ ctPending' = TRUE
      BY <1>6, <1>7, <1>8, <1>11, <2>1 DEF CertTypes
    <2>4. (Writing(d)' = Writing(d)) /\ \A x : Deleting(x)' <=> Deleting(x)
      BY <1>6 DEF Writing, Deleting
    <2>5. KeyOf(f) = key /\ (ctDisk[d] = ctWatch.files => KeyOf(ctDisk[d]) = key)
      BY <1>2, <1>8, <2>2 DEF KeyOf
    <2>6. ctTorn \subseteq ctTorn' /\ (d \notin ctTorn' => ctDisk[d] = ctWatch.files)
      BY <1>6
    <2>7. FilesOk(d, f)'
      BY <1>3, <1>6, <1>9, <1>11, <2>2, <2>4, <2>5, <2>6 DEF FilesOk
    <2>8. ASSUME NEW u \in CtTasks, ctTask[u].d = d PROVE TaskOk(ctTask[u])'
      <3>1. PICK q : q = ctTask[u]
        OBVIOUS
      <3>2. ctTask'[u] = q /\ TaskOk(q) /\ q.d = d
        BY <1>6, <1>7, <2>8, <3>1
      <3>3. TaskOk(q)'
        BY <1>6, <1>8, <2>2, <2>3, <2>4, <2>6, <3>2 DEF TaskOk
      <3>. QED BY <3>2, <3>3 DEF TaskOk
    <2>9. \A x \in CtDomains \ {d} : (x \in ctTorn' <=> x \in ctTorn) /\ (x \in ctHit' <=> x \in ctHit)
      BY <1>6
    <2>10. /\ ctDelete' \in DeleteRow /\ (ctDelete'.on => ctDelete'.d \in CtDomains) /\ ctIssued' \in Nat
           /\ ctWatch' \in WatchRow /\ ctWatch'.pc = "load"
      BY <1>6, <1>7, <1>10 DEF CertTypes
    <2>. QED BY <1>6, <1>8, <2>2, <2>3, <2>4, <2>7, <2>8, <2>9, <2>10, FilesChange
  <1>12. CASE ~ctDisk[d].dir
    <2>1. Bare(ctDisk[d]) /\ UNCHANGED <<ctDisk, ctPending>>
      BY <1>6, <1>9, <1>12 DEF FilesOk
    <2>2. ctDisk[d] # ctWatch.files
      BY <1>2, <1>8, <2>1 DEF Bare
    <2>3. ctPending = TRUE
      BY <1>1, <1>6, <1>7, <2>2 DEF ReadOk, CertTypes
    <2>4. ReadOk(w)' /\ PublishedUnlessMissed' /\ Taken' /\ ctTorn \subseteq ctTorn'
      BY <1>6, <1>7, <1>10, <2>1, <2>3 DEF ReadOk, PublishedUnlessMissed, Taken
    <2>. QED BY <1>6, <1>7, <1>10, <2>1, <2>4, WatchMoves DEF CertTypes
  <1>. QED BY <1>11, <1>12

-----------------------------------------------------------------------------
(* A restart of the server *)

\* What the start makes of the files r of a directory.
Restarted(r) == IF r.chain # 0 /\ r.key = 0 THEN [r EXCEPT !.key = r.plain, !.plain = 0] ELSE r

LEMMA RestartedFiles ==
    ASSUME NEW r \in Files, r.key = 0 \/ r.plain = 0
    PROVE  /\ Restarted(r) \in Files
           /\ Restarted(r).dir = r.dir /\ Restarted(r).chain = r.chain /\ Restarted(r).creds = r.creds
           /\ Restarted(r).key = 0 \/ Restarted(r).plain = 0
           /\ KeyOf(Restarted(r)) = KeyOf(r)
           /\ Bare(r) => Bare(Restarted(r))
  <1>1. CASE r.chain # 0 /\ r.key = 0
    <2>1. PICK none : none = 0
      OBVIOUS
    <2>2. PICK f : f = [r EXCEPT !.key = r.plain, !.plain = none]
      OBVIOUS
    <2>3. f \in Files /\ f.dir = r.dir /\ f.chain = r.chain /\ f.creds = r.creds /\ f.key = r.plain /\ f.plain = none
      BY <2>1, <2>2 DEF Files
    <2>4. Restarted(r) = f
      BY <1>1, <2>1, <2>2 DEF Restarted
    <2>5. KeyOf(f) = KeyOf(r)
      BY <1>1, <2>1, <2>3 DEF KeyOf
    <2>. QED BY <1>1, <2>1, <2>3, <2>4, <2>5 DEF Bare
  <1>2. CASE ~(r.chain # 0 /\ r.key = 0)
    <2>1. Restarted(r) = r
      BY <1>2 DEF Restarted
    <2>. QED BY <2>1
  <1>. QED BY <1>1, <1>2

LEMMA CertServerRestartsStep ==
    ASSUME CertInv, CertServerRestarts
    PROVE  CertInv'
  <1>1. /\ CertTypes /\ (\A x \in CtDomains : FilesOk(x, ctDisk[x]))
    BY DEF CertInv
  <1>2. PICK disk : disk = [d \in CtDomains |-> Restarted(ctDisk[d])]
    OBVIOUS
  <1>3. PICK w : w = [ctWatch EXCEPT !.pc = "ready", !.todo = {}, !.files = NoFiles, !.got = NoPairs]
    OBVIOUS
  <1>4. /\ ctDisk' = disk /\ ctPending' = FALSE /\ ctTask' = [t \in CtTasks |-> CtIdle] /\ ctDelete' = NoDelete
        /\ ctLeak' = ctLeak \cup ctTxt /\ ctTorn' = ctTorn \cup {d \in CtDomains : Writing(d) # {}}
        /\ ctWatch' = w /\ ctBundle' = LoadCertificates(disk) /\ ctProxy' = NoPairs /\ ctUnseen' = TRUE /\ ctMissed' = FALSE
        /\ ctHit' = ctHit \cup {d \in CtDomains : Deleting(d)} /\ UNCHANGED <<ctIssued, ctTxt>>
    BY <1>2, <1>3 DEF CertServerRestarts, Restarted, NoPairs
  <1>5. ASSUME NEW d \in CtDomains PROVE ctDisk[d] \in Files /\ disk[d] = Restarted(ctDisk[d]) /\ (ctDisk[d].key = 0 \/ ctDisk[d].plain = 0)
    BY <1>1, <1>2 DEF CertTypes, FilesOk
  <1>6. disk \in [CtDomains -> Files]
    BY <1>2, <1>5, RestartedFiles
  <1>7. LoadCertificates(disk) \in [CtDomains -> Pairs]
    BY <1>6, LoadType
  <1>8. w \in WatchRow /\ w.pc = "ready" /\ w.got = NoPairs
    BY <1>1, <1>3, EmptyRecords DEF CertTypes, WatchRow
  <1>9. CertTypes'
    BY <1>1, <1>4, <1>6, <1>7, <1>8, EmptyRecords DEF CertTypes
  <1>10. \A t \in CtTasks : ctTask'[t] = CtIdle
    BY <1>4
  <1>11. \A t \in CtTasks : TaskOk(ctTask[t])'
    BY <1>10, EmptyRecords DEF TaskOk
  <1>12. \A d \in CtDomains : FilesOk(d, ctDisk[d])'
    <2> SUFFICES ASSUME NEW d \in CtDomains PROVE FilesOk(d, ctDisk[d])'
      OBVIOUS
    <2>1. PICK f : f = Restarted(ctDisk[d])
      OBVIOUS
    <2>2. PICK r : r = ctDisk[d]
      OBVIOUS
    <2>3. r \in Files /\ (r.key = 0 \/ r.plain = 0) /\ f = Restarted(r) /\ ctDisk'[d] = f
      BY <1>4, <1>5, <2>1, <2>2
    <2>4. /\ f.dir = r.dir /\ f.chain = r.chain /\ f.creds = r.creds /\ (f.key = 0 \/ f.plain = 0) /\ KeyOf(f) = KeyOf(r)
          /\ Bare(r) => Bare(f)
      BY <2>3, RestartedFiles
    <2>5. Writing(d)' = {} /\ ~Deleting(d)'
      BY <1>4, <1>10, EmptyRecords DEF Writing, Deleting
    <2>6. FilesOk(d, r)
      BY <1>1, <2>2
    <2>7. /\ (d \in ctTorn \/ Writing(d) # {} => d \in ctTorn')
          /\ (d \in ctHit \/ Deleting(d) => d \in ctHit')
      BY <1>4
    <2>8. FilesOk(d, f)'
      BY <2>4, <2>5, <2>6, <2>7 DEF FilesOk
    <2>. QED BY <2>3, <2>8
  <1>13. ReadOk(ctWatch)'
    BY <1>4, <1>8 DEF ReadOk
  <1>14. PublishedUnlessMissed' /\ Taken' /\ TxtRecordsGone'
    BY <1>4 DEF PublishedUnlessMissed, Taken, TxtRecordsGone
  <1>. QED BY <1>9, <1>11, <1>12, <1>13, <1>14 DEF CertInv

LEMMA CertStart == CertificatesInit => CertInv
  <1> SUFFICES ASSUME CertificatesInit PROVE CertInv
    OBVIOUS
  <1>1. /\ ctDisk = [d \in CtDomains |-> NoFiles] /\ ctTask = [t \in CtTasks |-> CtIdle] /\ ctDelete = NoDelete
        /\ ctTxt = {} /\ ctPending = FALSE /\ ctBundle = NoPairs /\ ctProxy = NoPairs /\ ctUnseen = FALSE
        /\ ctUi = NoPair /\ ctMissed = FALSE /\ ctIssued = 0
        /\ ctWatch = [pc |-> "ready", todo |-> {}, got |-> NoPairs, d |-> NoDomain, chain |-> 0, files |-> NoFiles]
    BY DEF CertificatesInit, NoPairs, NoDomain, CtIdle
  <1>2. ctWatch \in WatchRow /\ ctWatch.pc = "ready" /\ ctWatch.got = NoPairs
    BY <1>1, EmptyRecords DEF WatchRow
  <1>3. CertTypes
    BY <1>1, <1>2, EmptyRecords DEF CertTypes
  <1>4. \A t \in CtTasks : TaskOk(ctTask[t])
    BY <1>1, EmptyRecords
  <1>5. \A d \in CtDomains : FilesOk(d, ctDisk[d])
    <2>1. NoFiles.chain = 0 /\ NoFiles.key = 0 /\ NoFiles.plain = 0 /\ ~NoFiles.creds
      BY DEF NoFiles
    <2>2. Bare(NoFiles)
      BY <2>1 DEF Bare
    <2>3. \A d \in CtDomains : Writing(d) = {}
      BY <1>1, EmptyRecords DEF Writing
    <2>. QED BY <1>1, <2>1, <2>2, <2>3 DEF FilesOk
  <1>6. ReadOk(ctWatch)
    BY <1>2 DEF ReadOk
  <1>7. LoadCertificates(ctDisk) = NoPairs
    BY <1>1 DEF LoadCertificates, NoPairs, NoFiles
  <1>8. PublishedUnlessMissed /\ TxtRecordsGone
    BY <1>1, <1>7 DEF PublishedUnlessMissed, TxtRecordsGone
  <1>9. \A d \in CtDomains : NoPairs[d] = NoPair
    BY DEF NoPairs
  <1>10. ~ValidPair(NoPair)
    BY DEF ValidPair, NoPair
  <1>11. StoreFromBundle(ctBundle) = NoPairs
    BY <1>1, <1>9 DEF StoreFromBundle, NoPairs
  <1>12. SelectForUi(ctBundle) = NoPair
    <2>1. ASSUME NEW i \in DOMAIN CtUiNames PROVE ctBundle[CtUiNames[i]] = NoPair
      <3>1. CtUiNames[i] \in CtDomains
        BY CtAssumption
      <3>. QED BY <1>1, <1>9, <3>1
    <2>. QED BY <2>1 DEF SelectForUi
  <1>13. Taken
    BY <1>1, <1>10, <1>11, <1>12 DEF Taken
  <1>. QED BY <1>3, <1>4, <1>5, <1>6, <1>8, <1>13 DEF CertInv

LEMMA CertStep == CertInv /\ [CertificatesNext]_ctVars => CertInv'
  <1> SUFFICES ASSUME CertInv, [CertificatesNext]_ctVars PROVE CertInv'
    OBVIOUS
  <1>1. ASSUME NEW t \in CtTasks, NEW d \in CtDomains, RequestCertificate(t, d) PROVE CertInv'
    BY <1>1, StartIssueStep DEF RequestCertificate
  <1>2. ASSUME NEW d \in CtDomains, RenewalScan(d) PROVE CertInv'
    BY <1>2, StartIssueStep DEF RenewalScan, CtTasks
  <1>3. ASSUME NEW d \in CtDomains, FileDrop(d) \/ DeleteCertificate(d) \/ ReadChain(d) PROVE CertInv'
    BY <1>3, FileDropStep, DeleteCertificateStep, ReadChainStep
  <1>4. ASSUME NEW t \in CtTasks, SetReadyFails(t) \/ FinalizeOrder(t) \/ WriteFails(t) \/ HandlerDropped(t) PROVE CertInv'
    BY <1>4, SetReadyFailsStep, FinalizeOrderStep, WriteFailsStep, HandlerDroppedStep
  <1>5. ASSUME NEW t \in CtTasks, WriteChain(t) \/ WriteKey(t) \/ StoreDnsCredentials(t) PROVE CertInv'
    BY <1>5, WriteChainStep, WriteKeyStep, StoreDnsCredentialsStep
  <1>6. CASE UnlinkFile \/ RemoveDir \/ MigrateKey
    BY <1>6, UnlinkFileStep, RemoveDirStep, MigrateKeyStep
  <1>7. CASE ReceiveEvent \/ ReadKey \/ Publish
    BY <1>7, ReceiveEventStep, ReadKeyStep, PublishStep
  <1>8. CASE DebounceEvents \/ WindowEnds \/ ReceiversTake
    BY <1>8, DebounceEventsStep, WindowEndsStep, ReceiversTakeStep
  <1>9. CASE ProxyRestarts \/ CertServerRestarts
    BY <1>9, ProxyRestartsStep, CertServerRestartsStep
  <1>10. CASE UNCHANGED ctVars
    <2>1. PICK w : w = ctWatch
      OBVIOUS
    <2>2. /\ ctWatch' = w
          /\ UNCHANGED <<ctDisk, ctTask, ctDelete, ctIssued, ctTxt, ctPending, ctBundle, ctUnseen, ctProxy, ctUi, ctTorn, ctHit, ctLeak, ctMissed>>
      BY <1>10, <2>1 DEF ctVars
    <2>3. CertTypes /\ ReadOk(w) /\ PublishedUnlessMissed /\ Taken /\ w \in WatchRow
      BY <2>1 DEF CertInv, CertTypes
    <2>4. ReadOk(w)' /\ PublishedUnlessMissed' /\ Taken'
      BY <2>1, <2>2, <2>3 DEF ReadOk, PublishedUnlessMissed, Taken
    <2>. QED BY <2>2, <2>3, <2>4, WatchMoves DEF CertTypes
  <1>. QED BY <1>1, <1>2, <1>3, <1>4, <1>5, <1>6, <1>7, <1>8, <1>9, <1>10 DEF CertificatesNext

LEMMA CertAgrees == CertInv => CertificatesAgree
  <1> SUFFICES ASSUME CertInv PROVE CertificatesAgree
    OBVIOUS
  <1>1. PublishedUnlessMissed /\ TxtRecordsGone /\ Taken /\ CertTypes /\ \A d \in CtDomains : FilesOk(d, ctDisk[d])
    BY DEF CertInv
  <1>2. PairOnDisk
    BY <1>1 DEF PairOnDisk, FilesOk
  <1>3. CredsHaveCert
    BY <1>1 DEF CredsHaveCert, FilesOk
  <1>4. ServedWhenSettled
    <2> SUFFICES ASSUME ctWatch.pc = "ready", ~ctPending, ~ctMissed, ~ctUnseen
                 PROVE  /\ \A d \in CtDomains : ctProxy[d] = IF ValidPair(LoadCertificates(ctDisk)[d]) THEN LoadCertificates(ctDisk)[d] ELSE NoPair
                        /\ ValidPair(SelectForUi(LoadCertificates(ctDisk))) => ctUi = SelectForUi(LoadCertificates(ctDisk))
      BY DEF ServedWhenSettled
    <2>1. ctBundle = LoadCertificates(ctDisk)
      BY <1>1 DEF PublishedUnlessMissed
    <2>2. /\ ctProxy = StoreFromBundle(ctBundle)
          /\ ValidPair(SelectForUi(ctBundle)) => ctUi = SelectForUi(ctBundle)
      BY <1>1 DEF Taken
    <2>. QED BY <2>1, <2>2 DEF StoreFromBundle
  <1>. QED BY <1>1, <1>2, <1>3, <1>4 DEF CertificatesAgree

\* What is published is what the directories hold unless an event was debounced
\* away; the chain and the key of a directory belong together unless a write of
\* it was interrupted or two overlapped; credentials stand beside a certificate;
\* a settled proxy and UI serve exactly the valid pairs; and a TXT record stands
\* only while its challenge is under way (certs.rs, certificates.rs,
\* authority.rs): for any domains, handlers and bounds.
THEOREM CertificatesAgreeAlways == CertificatesSpec => []CertificatesAgree
  <1>1. CertificatesInit => CertInv
    BY CertStart
  <1>2. CertInv /\ [CertificatesNext]_ctVars => CertInv'
    BY CertStep
  <1>3. CertInv => CertificatesAgree
    BY CertAgrees
  <1>. QED BY <1>1, <1>2, <1>3, PTL DEF CertificatesSpec
=============================================================================
