------------------------------- MODULE Accounts ------------------------------
(***************************************************************************)
(* Accounts, their refresh sessions and the version number every token     *)
(* carries (services/auth_service.py, services/user_service.py,            *)
(* repositories/user_repository.py, security/current_user.py).             *)
(*                                                                         *)
(* A request is a thread with a database session of its own.  What it      *)
(* reads it reads outside any transaction, row by row, and keeps; what it  *)
(* writes goes out in one transaction at the end: the columns it gave      *)
(* another value than it had read, computed from what it had read.         *)
(***************************************************************************)
EXTENDS Naturals, FiniteSets, TLC

CONSTANTS
  Users,       \* people who may have an account
  FirstAdmin,  \* the account create-admin makes
  Requests,    \* requests that may run side by side
  MaxRows,     \* bound: accounts and refresh sessions, together
  MaxVersion   \* bound: token_version

ASSUME AccountBounds ==
  /\ FirstAdmin \in Users /\ IsFiniteSet(Users)
  /\ MaxRows \in Nat /\ MaxVersion \in Nat

VARIABLES
  account, \* users: [exists, admin, active, version]
  issued,  \* refresh sessions issued so far; they are numbered
  session, \* per refresh session the token it was issued with, and its row
  request, \* per request, what it does and what it has read
  raced    \* history: what was decided on rows another request changed meanwhile

vars == <<account, issued, session, request, raced>>

Sessions == 1..MaxRows - 1
Issued   == 1..issued

NoAccount == [exists |-> FALSE, admin |-> FALSE, active |-> FALSE, version |-> 0]

\* The row of a session bears one mark, the one that tells most: revoked_at before
\* rotated_at.  Its row can go; its token, and the access token issued
\* with it, stay in the world.  login is the first session of its chain of rotations;
\* killed, a history: a new version was written after the account was read for it.
Marks == {"open", "rotated", "revoked", "gone"}

NoSession == [owner |-> FirstAdmin, version |-> 0, login |-> 0, mark |-> "gone",
              killed |-> FALSE]

\* overtaken, a history: a removal of an administrator was committed meanwhile.
Idle == [op |-> "none", at |-> "idle", on |-> FirstAdmin, token |-> 0, role |-> "keep",
         active |-> "keep", seen |-> NoAccount, rows |-> {}, overtaken |-> FALSE]

Init ==
  /\ account = [u \in Users |->
       IF u = FirstAdmin THEN [exists |-> TRUE, admin |-> TRUE, active |-> TRUE, version |-> 0]
       ELSE NoAccount]
  /\ issued = 0
  /\ session = [s \in Sessions |-> NoSession]
  /\ request = [r \in Requests |-> Idle]
  /\ raced = [admins |-> FALSE, users |-> {}, logins |-> {}]

RoomForRow == Cardinality({u \in Users : account[u].exists}) + issued < MaxRows

\* count_active_admins
ActiveAdmins == {u \in Users : account[u].exists /\ account[u].admin /\ account[u].active}

\* is_usable
Usable(s) == session[s].mark = "open"

There(s) == session[s].mark # "gone"

\* revoke_all_sessions: the rows it finds.
Unrevoked(u) ==
  {s \in Issued : session[s].owner = u /\ session[s].mark \notin {"revoked", "gone"}}

\* resolve_user_from_token; refresh tests the same.
Accepts(s) ==
  LET user == account[session[s].owner]
  IN user.exists /\ user.active /\ user.version = session[s].version

SignedIn(u) == \E s \in Issued : session[s].owner = u /\ Accepts(s)

-----------------------------------------------------------------------------
(* The steps of a request. *)

Becomes(r, q) ==
  /\ request' = [request EXCEPT ![r] = q]
  /\ UNCHANGED <<account, issued, session, raced>>

AfterRead(q) == IF q.op = "endAll" THEN "revoking" ELSE "read"

\* An administrator's request about user u, or a user's about himself: the read that
\* admits it is also the one that answers later reads of the same row.
Admitted(r, u, onlyAdmins, q) ==
  /\ request[r].at = "idle" /\ account[u].exists
  /\ \E actor \in Users :
       /\ SignedIn(actor) /\ IF onlyAdmins THEN account[actor].admin ELSE actor = u
       /\ Becomes(r, [q EXCEPT !.on = u, !.at = IF actor = u THEN AfterRead(q) ELSE "admitted",
                               !.seen = IF actor = u THEN account[u] ELSE @])

Read(r) ==
  /\ request[r].at = "admitted"
  /\ request[r].op = "refresh" \/ account[request[r].on].version < MaxVersion
  /\ Becomes(r, [request[r] EXCEPT !.at = AfterRead(request[r]),
                                    !.seen = account[request[r].on]])

\* A refusal, an error, or a row that is not there.
GivesUp(r) ==
  /\ request[r].at # "idle"
  /\ Becomes(r, Idle)

\* The rows that end with this request are looked for just before it commits.
FindsSessions(r) ==
  /\ request[r].at = "revoking"
  /\ Becomes(r, [request[r] EXCEPT !.at = "ready", !.rows = Unrevoked(request[r].on)])

RowsGone(rows) == \E s \in rows : ~There(s)

Revoked(rows) == [s \in Sessions |->
  IF s \in rows THEN [session[s] EXCEPT !.mark = "revoked"] ELSE session[s]]

SameVersion(q) == q.seen.version

NextVersion(q) == q.seen.version + 1

\* token_version += 1: a new version of what this request had read.
Bumped(q, sessions) == [s \in Sessions |->
  IF s \in Issued /\ session[s].owner = q.on THEN [sessions[s] EXCEPT !.killed = TRUE]
  ELSE sessions[s]]

OverlapOfBumps(q) == IF q.seen.version = account[q.on].version THEN {} ELSE {q.on}

-----------------------------------------------------------------------------
(* Administration of accounts: user_service.py, create_admin.py. *)

\* create_user: the name is unique, so that the later of two fails.
Creates(u, admin) ==
  /\ ~account[u].exists /\ RoomForRow
  /\ \E actor \in ActiveAdmins : SignedIn(actor)
  /\ account' = [account EXCEPT ![u] =
       [exists |-> TRUE, admin |-> admin, active |-> TRUE, version |-> 0]]
  /\ UNCHANGED <<issued, session, request, raced>>

\* create-admin
CreateAdmin(u) ==
  /\ ~account[u].exists /\ RoomForRow
  /\ account' = [account EXCEPT ![u] =
       [exists |-> TRUE, admin |-> TRUE, active |-> TRUE, version |-> 0]]
  /\ UNCHANGED <<issued, session, request, raced>>

\* The dashboard changes one thing at a time; display_name is left out.
Patches == [role : {"admin", "other"}, active : {"keep"}]
             \cup [role : {"keep"}, active : {"yes", "no"}]

AskForPatch(r, u, patch) ==
  /\ account[u].version < MaxVersion
  /\ Admitted(r, u, TRUE, [Idle EXCEPT !.op = "patch", !.role = patch.role,
                                       !.active = patch.active])

IsRemoval(q) == q.role = "other" \/ q.active = "no"

LosingAdmin(q) == q.seen.admin /\ IsRemoval(q)

\* The account in question is counted too.
CountsHimself(u) == ActiveAdmins = {}

LastAdmin(u) == ActiveAdmins \ {u} = {}

ChecksAdmins(r) ==
  LET q == request[r]
  IN /\ q.op = "patch" /\ q.at = "read"
     /\ LosingAdmin(q) => ~LastAdmin(q.on)
     /\ Becomes(r, [q EXCEPT !.at = IF q.active = "no" THEN "revoking" ELSE "ready"])

Column(wanted, seen, now) == IF wanted = seen THEN now ELSE wanted

Patched(q) ==
  LET user == account[q.on]
  IN [user EXCEPT
       !.admin = IF q.role = "keep" THEN @ ELSE Column(q.role = "admin", q.seen.admin, @),
       !.active = IF q.active = "keep" THEN @ ELSE Column(q.active = "yes", q.seen.active, @),
       !.version = IF q.active = "no" THEN NextVersion(q) ELSE @]

CommitsPatch(r) ==
  LET q == request[r]
      removal == IsRemoval(q)
  IN /\ q.op = "patch" /\ q.at = "ready" /\ ~RowsGone(q.rows)
     /\ account' = [account EXCEPT ![q.on] = Patched(q)]
     /\ session' = IF q.active = "no" THEN Bumped(q, Revoked(q.rows)) ELSE session
     /\ request' = [o \in Requests |->
          IF o = r THEN Idle
          ELSE IF removal /\ IsRemoval(request[o]) THEN [request[o] EXCEPT !.overtaken = TRUE]
          ELSE request[o]]
     /\ raced' = [raced EXCEPT !.admins = @ \/ (removal /\ q.overtaken),
                               !.users = @ \cup IF q.active = "no" THEN OverlapOfBumps(q)
                                                ELSE {}]
     /\ UNCHANGED issued

\* reset_password and revoke-sessions, by an administrator; change_own_password and
\* logout-all, by the user: all of them revoke what is open and write a new version.
AskToEndAll(r, u) ==
  /\ account[u].version < MaxVersion
  /\ Admitted(r, u, TRUE, [Idle EXCEPT !.op = "endAll"])

AskToEndOwn(r, u) ==
  /\ account[u].version < MaxVersion
  /\ Admitted(r, u, FALSE, [Idle EXCEPT !.op = "endAll"])

CommitsEndAll(r) ==
  LET q == request[r]
  IN /\ q.op = "endAll" /\ q.at = "ready" /\ ~RowsGone(q.rows)
     /\ account' = [account EXCEPT ![q.on].version = NextVersion(q)]
     /\ session' = Bumped(q, Revoked(q.rows))
     /\ request' = [request EXCEPT ![r] = Idle]
     /\ raced' = [raced EXCEPT !.users = @ \cup OverlapOfBumps(q)]
     /\ UNCHANGED issued

-----------------------------------------------------------------------------
(* Signing in, rotation, signing out: auth_service.py. *)

LogsIn(r, u) ==
  /\ request[r].at = "idle" /\ account[u].exists /\ account[u].active
  /\ Becomes(r, [Idle EXCEPT !.op = "login", !.at = "ready", !.on = u,
                            !.seen.version = account[u].version])

\* _issue_pair
NewSession(q, login) ==
  [NoSession EXCEPT !.owner = q.on, !.version = q.seen.version, !.login = login, !.mark = "open",
                    !.killed = q.seen.version # account[q.on].version]

CommitsLogin(r) ==
  LET q == request[r]
  IN /\ q.op = "login" /\ q.at = "ready" /\ RoomForRow
     /\ issued' = issued + 1
     /\ session' = [session EXCEPT ![issued + 1] = NewSession(q, issued + 1)]
     /\ request' = [request EXCEPT ![r] = Idle]
     /\ UNCHANGED <<account, raced>>

\* Whoever holds the token of session s presents it.
PresentsToken(r, s) ==
  LET q == [Idle EXCEPT !.on = session[s].owner, !.token = s]
  IN /\ request[r].at = "idle" /\ There(s)
     /\ Becomes(r, IF Usable(s) THEN [q EXCEPT !.op = "refresh", !.at = "admitted"]
                   ELSE [q EXCEPT !.op = "replay", !.at = "revoking"])

RefreshChecksUser(r) ==
  LET q == request[r]
  IN /\ q.op = "refresh" /\ q.at = "read"
     /\ q.seen.active /\ q.seen.version = session[q.token].version
     /\ Becomes(r, [q EXCEPT !.at = "ready"])

Rotated(s) == [session EXCEPT ![s].mark = IF @ = "revoked" THEN @ ELSE "rotated"]

CommitsRefresh(r) ==
  LET q == request[r]
      old == session[q.token]
  IN /\ q.op = "refresh" /\ q.at = "ready" /\ RoomForRow
     /\ There(q.token)
     /\ issued' = issued + 1
     /\ session' = [Rotated(q.token) EXCEPT ![issued + 1] = NewSession(q, old.login)]
     /\ request' = [request EXCEPT ![r] = Idle]
     /\ raced' = [raced EXCEPT !.logins = @ \cup IF old.mark \in {"rotated", "revoked"}
                                                 THEN {old.login} ELSE {}]
     /\ UNCHANGED account

\* Every session of the owner is closed, but no new version is written.
CommitsReplay(r) ==
  LET q == request[r]
  IN /\ q.op = "replay" /\ q.at = "ready" /\ ~RowsGone(q.rows)
     /\ session' = Revoked(q.rows)
     /\ request' = [request EXCEPT ![r] = Idle]
     /\ UNCHANGED <<account, issued, raced>>

\* logout, and the revocation of one session from the list of one's own.
LogsOut(r, s) ==
  /\ request[r].at = "idle" /\ There(s) /\ session[s].mark # "revoked"
  /\ Becomes(r, [Idle EXCEPT !.op = "logout", !.at = "ready", !.on = session[s].owner,
                             !.token = s])

CommitsLogout(r) ==
  LET q == request[r]
  IN /\ q.op = "logout" /\ q.at = "ready" /\ There(q.token)
     /\ session' = Revoked({q.token})
     /\ request' = [request EXCEPT ![r] = Idle]
     /\ UNCHANGED <<account, issued, raced>>

-----------------------------------------------------------------------------
(* Time *)

\* purge_expired_refresh_sessions.  A token that has expired is refused before its row
\* is looked for (decode_token), so that expiry shows in nothing but this.
Purge(expired) ==
  /\ session' = [s \in Sessions |->
       IF Usable(s) /\ s \notin expired THEN session[s]
       ELSE [session[s] EXCEPT !.mark = "gone"]]
  /\ UNCHANGED <<account, issued, request, raced>>

Next ==
  \/ \E u \in Users : CreateAdmin(u) \/ \E admin \in BOOLEAN : Creates(u, admin)
  \/ \E r \in Requests :
       \/ Read(r) \/ GivesUp(r) \/ FindsSessions(r)
       \/ ChecksAdmins(r) \/ CommitsPatch(r) \/ CommitsEndAll(r)
       \/ CommitsLogin(r) \/ RefreshChecksUser(r) \/ CommitsRefresh(r)
       \/ CommitsReplay(r) \/ CommitsLogout(r)
       \/ \E u \in Users :
            \/ AskToEndAll(r, u) \/ AskToEndOwn(r, u) \/ LogsIn(r, u)
            \/ \E p \in Patches : AskForPatch(r, u, p)
       \/ \E s \in Issued : PresentsToken(r, s) \/ LogsOut(r, s)
  \/ \E expired \in SUBSET Issued : Purge(expired)

Spec == Init /\ [][Next]_vars

\* Requests are alike.
Alike == Permutations(Requests)

-----------------------------------------------------------------------------
(* Properties *)

\* update_user: whatever requests overlap, the system can still be administered, unless
\* two removals of administrators did.
SomeoneCanAdminister == ActiveAdmins # {} \/ raced.admins

\* The kill switch (current_user.py, auth_service.py): no token issued before a new
\* version was written is accepted again, unless two such writes of one account
\* overlapped and the second wrote the same number again.
KillSwitch ==
  \A s \in Issued : session[s].killed /\ Accepts(s) => session[s].owner \in raced.users

\* Rotation: a login is one session at any time, whichever of its tokens are presented
\* and whoever presents them, unless a rotation overlapped another or a revocation.
OneSessionPerLogin ==
  \A s, t \in Issued :
    Usable(s) /\ Usable(t) /\ session[s].login = session[t].login /\ s # t =>
      session[s].login \in raced.logins

\* A token that has been replaced or revoked is of no use, to whoever holds it.
OldTokensAreDead == KillSwitch /\ OneSessionPerLogin
=============================================================================
