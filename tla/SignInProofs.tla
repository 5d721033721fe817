----------------------------- MODULE SignInProofs -----------------------------
(***************************************************************************)
(* For any set of users, any number of requests that overlap, of sessions  *)
(* and of versions: somebody can administer the system, and what has been  *)
(* revoked or replaced stays of no use, but for the overlaps named.        *)
(***************************************************************************)
EXTENDS SignIn, FiniteSetTheorems, SequenceTheorems, WellFoundedInduction, TLAPS

-----------------------------------------------------------------------------
(* Types *)

AccountRows == [exists : BOOLEAN, admin : BOOLEAN, active : BOOLEAN, version : Nat]

SessionRows ==
  [owner : Users, version : Nat, login : Nat, mark : Marks, killed : BOOLEAN]

RequestStates ==
  [op : {"none", "patch", "endAll", "login", "refresh", "replay", "logout"},
   at : {"idle", "admitted", "read", "revoking", "ready"},
   on : Users, token : Nat, role : {"keep", "admin", "other"}, active : {"keep", "yes", "no"},
   seen : AccountRows, rows : SUBSET Sessions, overtaken : BOOLEAN]

AccountTypes ==
  /\ account \in [Users -> AccountRows]
  /\ issued \in Nat /\ Issued \subseteq Sessions
  /\ session \in [Sessions -> SessionRows]
  /\ request \in [Requests -> RequestStates]
  /\ raced \in [admins : BOOLEAN, users : SUBSET Users, logins : SUBSET Nat]

\* Accounts stay; a request and a session are about one that is there.
RowsExist ==
  /\ account[FirstAdmin].exists
  /\ \A u \in Users : ~account[u].exists => account[u].version = 0
  /\ \A r \in Requests : account[request[r].on].exists
  /\ \A s \in Issued : account[session[s].owner].exists

-----------------------------------------------------------------------------
(* Who can administer *)

\* The request takes away an administrator's rights, and has seen that it may.
MayRemove(q) ==
  /\ q.op = "patch" /\ IsRemoval(q)
  /\ q.at \in {"revoking", "ready"} \/ (q.at = "read" /\ ~q.seen.admin)

\* Until another removal is committed there stays an administrator beside the account.
AdminsRemain ==
  ~raced.admins =>
    /\ ActiveAdmins # {}
    /\ \A r \in Requests :
         MayRemove(request[r]) /\ ~request[r].overtaken => ActiveAdmins \ {request[r].on} # {}

-----------------------------------------------------------------------------
(* Which tokens are dead *)

\* Of an account no two new versions overlapped, the version has only grown: nothing was
\* issued or read with a later one, and what was killed has an earlier one.
VersionsGrow ==
  \A u \in Users \ raced.users :
    /\ \A r \in Requests : request[r].on = u => request[r].seen.version <= account[u].version
    /\ \A s \in Issued : session[s].owner = u =>
         /\ session[s].version <= account[u].version
         /\ session[s].killed => session[s].version # account[u].version

LoginsAreOld ==
  /\ \A s \in Issued : session[s].login \in Issued
  /\ \A r \in Requests : request[r].op = "refresh" => request[r].token \in Issued

SignInInv ==
  /\ AccountTypes /\ RowsExist /\ AdminsRemain
  /\ VersionsGrow /\ LoginsAreOld /\ OneSessionPerLogin

LEMMA IdleIsARequest == Idle \in RequestStates
  BY AccountBounds DEF Idle, RequestStates, NoAccount, AccountRows

LEMMA SignInStarts == Init => SignInInv
<1> SUFFICES ASSUME Init PROVE SignInInv
  OBVIOUS
<1> USE AccountBounds
<1>1. account \in [Users -> AccountRows] /\ ActiveAdmins # {}
      /\ account[FirstAdmin].exists
      /\ \A u \in Users : ~account[u].exists => account[u].version = 0
  BY DEF Init, NoAccount, AccountRows, ActiveAdmins
<1>2. /\ issued = 0 /\ Issued = {}
      /\ raced = [admins |-> FALSE, users |-> {}, logins |-> {}]
  BY DEF Init, Issued
<1>3. session \in [Sessions -> SessionRows]
  BY DEF Init, NoSession, SessionRows, Marks
<1>4. /\ request \in [Requests -> RequestStates]
      /\ \A r \in Requests : request[r] = Idle
  BY IdleIsARequest DEF Init
<1>5. AccountTypes
  BY <1>1, <1>2, <1>3, <1>4 DEF AccountTypes
<1>6. AdminsRemain
  BY <1>1, <1>4 DEF AdminsRemain, MayRemove, Idle
<1>7. RowsExist /\ VersionsGrow /\ LoginsAreOld /\ OneSessionPerLogin
  BY <1>1, <1>2, <1>4 DEF RowsExist, VersionsGrow, LoginsAreOld, OneSessionPerLogin, Idle,
                          AccountRows, NoAccount
<1> QED
  BY <1>5, <1>6, <1>7 DEF SignInInv

-----------------------------------------------------------------------------
(* A request goes on, without a commit *)

LEMMA BecomesKeeps ==
  ASSUME SignInInv, NEW r \in Requests, NEW q \in RequestStates, Becomes(r, q),
         MayRemove(q) /\ ~q.overtaken /\ ~raced.admins => ActiveAdmins \ {q.on} # {},
         account[q.on].exists,
         q.on \notin raced.users => q.seen.version <= account[q.on].version,
         q.op = "refresh" => q.token \in Issued
  PROVE  SignInInv'
<1>1. /\ request' = [request EXCEPT ![r] = q]
      /\ UNCHANGED <<account, issued, session, raced>>
  BY DEF Becomes
<1>2. /\ request' \in [Requests -> RequestStates] /\ request'[r] = q
      /\ \A o \in Requests \ {r} : request'[o] = request[o]
  BY <1>1 DEF SignInInv, AccountTypes
<1>3. AccountTypes'
  BY <1>1, <1>2 DEF SignInInv, AccountTypes, Issued, Sessions
<1>4. AdminsRemain'
  BY <1>1, <1>2 DEF SignInInv, AdminsRemain, ActiveAdmins, MayRemove, IsRemoval
<1>5. VersionsGrow'
  BY <1>1, <1>2 DEF SignInInv, VersionsGrow, Issued
<1>6. RowsExist' /\ LoginsAreOld' /\ OneSessionPerLogin'
  BY <1>1, <1>2 DEF SignInInv, RowsExist, LoginsAreOld, OneSessionPerLogin, Issued, Usable
<1> QED
  BY <1>3, <1>4, <1>5, <1>6 DEF SignInInv

\* An administrator is at hand when a request is admitted that may take rights away.
LEMMA AdmissionKeeps ==
  ASSUME SignInInv, NEW r \in Requests, NEW u \in Users, NEW onlyAdmins,
         NEW q \in RequestStates, q.op \in {"patch", "endAll"}, ~q.overtaken,
         q.seen = NoAccount, Admitted(r, u, onlyAdmins, q)
  PROVE  SignInInv'
<1> PICK actor \in Users :
      Becomes(r, [q EXCEPT !.on = u, !.at = IF actor = u THEN AfterRead(q) ELSE "admitted",
                           !.seen = IF actor = u THEN account[u] ELSE @])
  BY DEF Admitted
<1> DEFINE new == [q EXCEPT !.on = u, !.at = IF actor = u THEN AfterRead(q) ELSE "admitted",
                            !.seen = IF actor = u THEN account[u] ELSE @]
<1>1. account \in [Users -> AccountRows]
  BY DEF SignInInv, AccountTypes
<1>2. new \in RequestStates
  BY <1>1 DEF RequestStates, AfterRead
<1>3. new.on = u /\ new.op = q.op
  BY DEF RequestStates
<1>4. new.seen.version <= account[u].version
  BY <1>1 DEF RequestStates, NoAccount, AccountRows
<1>5. MayRemove(new) => new.at = "read" /\ ~new.seen.admin /\ new.seen = account[u]
  BY DEF MayRemove, RequestStates, AfterRead
<1>6. MayRemove(new) /\ ~raced.admins => ActiveAdmins \ {u} # {}
  BY <1>5 DEF SignInInv, AdminsRemain, ActiveAdmins
<1> HIDE DEF new
<1>7. Becomes(r, new) /\ account[u].exists
  BY DEF new, Admitted
<1> QED
  BY <1>2, <1>3, <1>4, <1>6, <1>7, BecomesKeeps

LEMMA AsksKeep ==
  ASSUME SignInInv, NEW r \in Requests, NEW u \in Users,
         \/ AskToEndAll(r, u) \/ AskToEndOwn(r, u)
         \/ \E p \in Patches : AskForPatch(r, u, p)
  PROVE  SignInInv'
<1>1. CASE AskToEndAll(r, u) \/ AskToEndOwn(r, u)
  <2> DEFINE q == [Idle EXCEPT !.op = "endAll"]
  <2>1. q \in RequestStates /\ q.op = "endAll" /\ ~q.overtaken /\ q.seen = NoAccount
    BY IdleIsARequest DEF RequestStates, Idle
  <2>2. Admitted(r, u, TRUE, q) \/ Admitted(r, u, FALSE, q)
    BY <1>1 DEF AskToEndAll, AskToEndOwn
  <2> HIDE DEF q
  <2> QED
    BY <2>1, <2>2, AdmissionKeeps
<1>2. ASSUME NEW p \in Patches, AskForPatch(r, u, p) PROVE SignInInv'
  <2> DEFINE q == [Idle EXCEPT !.op = "patch", !.role = p.role, !.active = p.active]
  <2>1. q \in RequestStates /\ q.op = "patch" /\ ~q.overtaken /\ q.seen = NoAccount
    BY IdleIsARequest DEF RequestStates, Idle, Patches
  <2>2. Admitted(r, u, TRUE, q)
    BY <1>2 DEF AskForPatch
  <2> HIDE DEF q
  <2> QED
    BY <2>1, <2>2, AdmissionKeeps
<1> QED
  BY <1>1, <1>2

LEMMA ReadKeeps ==
  ASSUME SignInInv, NEW r \in Requests, Read(r)
  PROVE  SignInInv'
<1> DEFINE old == request[r]
           new == [old EXCEPT !.at = AfterRead(old), !.seen = account[old.on]]
<1>1. old \in RequestStates /\ account \in [Users -> AccountRows]
  BY DEF SignInInv, AccountTypes
<1>2. /\ new \in RequestStates /\ new.on = old.on /\ new.op = old.op /\ new.token = old.token
      /\ new.overtaken = old.overtaken /\ new.seen = account[old.on] /\ new.at = AfterRead(old)
      /\ new.role = old.role /\ new.active = old.active
  BY <1>1 DEF RequestStates, AfterRead
<1>3. Becomes(r, new)
  BY DEF Read
<1> HIDE DEF new
<1>4. new.seen.version <= account[new.on].version
  BY <1>1, <1>2 DEF RequestStates, AccountRows
<1>5. MayRemove(new) /\ ~raced.admins => ActiveAdmins \ {new.on} # {}
  BY <1>2 DEF SignInInv, AdminsRemain, ActiveAdmins, MayRemove, AfterRead
<1>6. account[new.on].exists /\ (new.op = "refresh" => new.token \in Issued)
  BY <1>2 DEF SignInInv, RowsExist, LoginsAreOld
<1> QED
  BY <1>2, <1>3, <1>4, <1>5, <1>6, BecomesKeeps

\* Where a request goes on with what it has read.
LEMMA GoesOnKeeps ==
  ASSUME SignInInv, NEW r \in Requests, NEW to \in {"revoking", "ready"},
         NEW rows \in SUBSET Sessions,
         Becomes(r, [request[r] EXCEPT !.at = to, !.rows = rows]),
         \/ request[r].at \in {"revoking", "ready"}
         \/ request[r].op # "patch"
         \/ /\ request[r].at = "read"
            /\ LosingAdmin(request[r]) => ~LastAdmin(request[r].on)
  PROVE  SignInInv'
<1> DEFINE old == request[r]
           new == [old EXCEPT !.at = to, !.rows = rows]
<1>1. old \in RequestStates
  BY DEF SignInInv, AccountTypes
<1>2. /\ new \in RequestStates /\ new.on = old.on /\ new.op = old.op /\ new.token = old.token
      /\ new.overtaken = old.overtaken /\ new.seen = old.seen /\ new.at = to
      /\ new.role = old.role /\ new.active = old.active
  BY <1>1 DEF RequestStates
<1>3. Becomes(r, new)
  OBVIOUS
<1> HIDE DEF new
<1>4. new.on \notin raced.users => new.seen.version <= account[new.on].version
  BY <1>1, <1>2 DEF SignInInv, VersionsGrow, RequestStates
<1>5. MayRemove(new) /\ ~new.overtaken /\ ~raced.admins => ActiveAdmins \ {new.on} # {}
  BY <1>2 DEF SignInInv, AdminsRemain, MayRemove, LosingAdmin, LastAdmin, IsRemoval
<1>6. account[new.on].exists /\ (new.op = "refresh" => new.token \in Issued)
  BY <1>2 DEF SignInInv, RowsExist, LoginsAreOld
<1> QED
  BY <1>2, <1>3, <1>4, <1>5, <1>6, BecomesKeeps

LEMMA StaysInRows ==
  ASSUME SignInInv, NEW r \in Requests
  PROVE  /\ request[r] \in RequestStates
         /\ request[r].rows \in SUBSET Sessions
         /\ \A to \in {"revoking", "ready"} :
              [request[r] EXCEPT !.at = to] =
                [request[r] EXCEPT !.at = to, !.rows = request[r].rows]
<1>1. request[r] \in RequestStates
  BY DEF SignInInv, AccountTypes
<1> QED
  BY <1>1 DEF RequestStates

\* The other steps of a request before its commit.
LEMMA StepsKeep ==
  ASSUME SignInInv, NEW r \in Requests,
         \/ GivesUp(r) \/ FindsSessions(r) \/ ChecksAdmins(r) \/ RefreshChecksUser(r)
  PROVE  SignInInv'
<1>1. CASE GivesUp(r)
  <2>1. Idle.op = "none" /\ Idle.on \in Users /\ Idle.seen.version = 0
    BY AccountBounds DEF Idle, NoAccount
  <2>2. account[Idle.on].version >= 0 /\ account[Idle.on].exists
    BY <2>1 DEF SignInInv, AccountTypes, AccountRows, RowsExist, Idle
  <2> QED
    BY <1>1, <2>1, <2>2, IdleIsARequest, BecomesKeeps DEF GivesUp, MayRemove
<1>2. CASE FindsSessions(r)
  <2>1. Unrevoked(request[r].on) \in SUBSET Sessions
    BY DEF SignInInv, AccountTypes, Unrevoked
  <2> QED
    BY <1>2, <2>1, GoesOnKeeps DEF FindsSessions
<1>3. CASE ChecksAdmins(r)
  BY <1>3, StaysInRows, GoesOnKeeps DEF ChecksAdmins
<1>4. CASE RefreshChecksUser(r)
  BY <1>4, StaysInRows, GoesOnKeeps DEF RefreshChecksUser
<1> QED
  BY <1>1, <1>2, <1>3, <1>4

LEMMA TokensKeep ==
  ASSUME SignInInv, NEW r \in Requests,
         \/ \E u \in Users : LogsIn(r, u)
         \/ \E s \in Issued : PresentsToken(r, s) \/ LogsOut(r, s)
  PROVE  SignInInv'
<1> USE AccountBounds
<1>1. ASSUME NEW u \in Users, LogsIn(r, u) PROVE SignInInv'
  <2> DEFINE q == [Idle EXCEPT !.op = "login", !.at = "ready", !.on = u,
                               !.seen.version = account[u].version]
  <2>1. account[u].version \in Nat
    BY DEF SignInInv, AccountTypes, AccountRows
  <2>2. Idle \in RequestStates
    BY IdleIsARequest
  <2>3. q \in RequestStates
    BY <2>1, <2>2 DEF RequestStates, AccountRows
  <2>4. q.op = "login" /\ q.on = u /\ q.seen.version = account[u].version
    BY <2>2 DEF RequestStates, AccountRows
  <2>5. Becomes(r, q) /\ account[u].exists
    BY <1>1 DEF LogsIn
  <2> HIDE DEF q
  <2> QED
    BY <2>1, <2>3, <2>4, <2>5, BecomesKeeps DEF MayRemove
<1>2. ASSUME NEW s \in Issued, PresentsToken(r, s) \/ LogsOut(r, s) PROVE SignInInv'
  <2>1. session[s].owner \in Users /\ s \in Nat /\ account[session[s].owner].exists
    BY DEF SignInInv, AccountTypes, SessionRows, Issued, RowsExist
  <2> PICK op \in {"refresh", "replay", "logout"}, at \in {"admitted", "revoking", "ready"} :
        Becomes(r, [[Idle EXCEPT !.on = session[s].owner, !.token = s] EXCEPT !.op = op, !.at = at])
    BY <1>2, ZenonT(30) DEF PresentsToken, LogsOut, Idle
  <2> DEFINE q == [[Idle EXCEPT !.on = session[s].owner, !.token = s] EXCEPT !.op = op, !.at = at]
  <2>2. Idle \in RequestStates /\ Idle.seen.version = 0
    BY IdleIsARequest DEF Idle, NoAccount
  <2>3. q \in RequestStates
    BY <2>1, <2>2 DEF RequestStates
  <2>4. /\ q.op = op /\ q.token = s /\ q.on \in Users /\ q.seen.version = 0
        /\ account[q.on].exists
    BY <2>1, <2>2 DEF RequestStates
  <2>5. Becomes(r, q)
    OBVIOUS
  <2> HIDE DEF q
  <2>6. account[q.on].version >= 0
    BY <2>4 DEF SignInInv, AccountTypes, AccountRows
  <2> QED
    BY <2>3, <2>4, <2>5, <2>6, BecomesKeeps DEF MayRemove, SignInInv, AccountTypes, AccountRows
<1> QED
  BY <1>1, <1>2

-----------------------------------------------------------------------------
(* Commits *)

\* A session is what it was, or is closed.
Closes(new, old) ==
  /\ new.owner = old.owner /\ new.version = old.version /\ new.login = old.login
  /\ new.mark = "open" => old.mark = "open"

LEMMA RevokedIs ==
  ASSUME AccountTypes, NEW rows
  PROVE  /\ Revoked(rows) \in [Sessions -> SessionRows]
         /\ \A s \in Sessions : /\ Closes(Revoked(rows)[s], session[s])
                                /\ Revoked(rows)[s].killed = session[s].killed
  BY DEF AccountTypes, Revoked, SessionRows, Marks, Closes

LEMMA BumpedIs ==
  ASSUME AccountTypes, NEW q, NEW sessions \in [Sessions -> SessionRows],
         \A s \in Sessions : /\ Closes(sessions[s], session[s])
                             /\ sessions[s].killed = session[s].killed
  PROVE  /\ Bumped(q, sessions) \in [Sessions -> SessionRows]
         /\ \A s \in Sessions :
              /\ Closes(Bumped(q, sessions)[s], session[s])
              /\ Bumped(q, sessions)[s].killed => session[s].killed \/ session[s].owner = q.on
<1> DEFINE new == Bumped(q, sessions)
<1>1. \A s \in Sessions :
        new[s] = IF s \in Issued /\ session[s].owner = q.on
                 THEN [sessions[s] EXCEPT !.killed = TRUE] ELSE sessions[s]
  BY DEF Bumped
<1>2. \A s \in Sessions : sessions[s] \in SessionRows
  OBVIOUS
<1>3. ASSUME NEW s \in Sessions
      PROVE  /\ new[s] \in SessionRows /\ Closes(new[s], sessions[s])
             /\ new[s].killed => sessions[s].killed \/ session[s].owner = q.on
  BY <1>1, <1>2, ZenonT(30) DEF SessionRows, Closes
<1>4. new \in [Sessions -> SessionRows]
  <2>1. new = [s \in Sessions |-> new[s]]
    BY DEF Bumped
  <2> QED
    BY <1>3, <2>1
<1> QED
  BY <1>3, <1>4 DEF Closes

\* Closing sessions leaves every login with one at the most.
LEMMA ClosingKeeps ==
  ASSUME SignInInv, issued' = issued, raced.logins \subseteq raced'.logins,
         \A s \in Sessions : Closes(session'[s], session[s]),
         \A r \in Requests : /\ request'[r].op = "refresh" => request[r].op = "refresh"
                             /\ request'[r].token = request[r].token \/ request'[r].op = "none"
  PROVE  LoginsAreOld' /\ OneSessionPerLogin'
<1>1. Issued' = Issued /\ Issued \subseteq Sessions
  BY DEF Issued, SignInInv, AccountTypes
<1>2. LoginsAreOld'
  BY <1>1 DEF SignInInv, LoginsAreOld, Closes
<1>3. OneSessionPerLogin'
  BY <1>1 DEF SignInInv, OneSessionPerLogin, Closes, Usable
<1> QED
  BY <1>2, <1>3

LEMMA CommitsReplayOrLogoutKeep ==
  ASSUME SignInInv,
         \/ \E r \in Requests : CommitsReplay(r) \/ CommitsLogout(r)
         \/ \E expired \in SUBSET Issued : Purge(expired)
  PROVE  SignInInv'
<1>1. AccountTypes
  BY DEF SignInInv
<1>2. /\ session' \in [Sessions -> SessionRows]
      /\ \A s \in Sessions : /\ Closes(session'[s], session[s])
                             /\ session'[s].killed = session[s].killed
      /\ UNCHANGED <<account, issued, raced>>
      /\ request' = request \/ \E r \in Requests : request' = [request EXCEPT ![r] = Idle]
  <2>1. CASE \E r \in Requests : CommitsReplay(r)
    BY <1>1, <2>1, RevokedIs DEF CommitsReplay
  <2>2. CASE \E r \in Requests : CommitsLogout(r)
    <3> PICK r \in Requests : CommitsLogout(r)
      BY <2>2
    <3>1. /\ session' = Revoked({request[r].token}) /\ UNCHANGED <<account, issued, raced>>
          /\ request' = [request EXCEPT ![r] = Idle]
      BY DEF CommitsLogout
    <3> QED
      BY <1>1, <3>1, RevokedIs
  <2>3. ASSUME NEW expired \in SUBSET Issued, Purge(expired)
        PROVE  /\ session' \in [Sessions -> SessionRows]
               /\ \A s \in Sessions : /\ Closes(session'[s], session[s])
                                      /\ session'[s].killed = session[s].killed
               /\ UNCHANGED <<account, issued, raced, request>>
    BY <1>1, <2>3 DEF Purge, Closes, AccountTypes, SessionRows, Marks
  <2> QED
    BY <2>1, <2>2, <2>3
<1>3. /\ request' \in [Requests -> RequestStates]
      /\ \A r \in Requests : request'[r] = request[r] \/ request'[r] = Idle
  BY <1>1, <1>2, IdleIsARequest DEF AccountTypes
<1>4. Idle.op = "none" /\ Idle.seen.version = 0
  BY DEF Idle, NoAccount
<1>5. AccountTypes'
  BY <1>1, <1>2, <1>3 DEF AccountTypes, Issued, Sessions
<1>6. AdminsRemain'
  BY <1>2, <1>3, <1>4 DEF SignInInv, AdminsRemain, ActiveAdmins, MayRemove, IsRemoval
<1>7. VersionsGrow'
  <2> SUFFICES ASSUME NEW u \in Users \ raced.users
               PROVE  /\ \A r \in Requests : request'[r].on = u =>
                           request'[r].seen.version <= account[u].version
                      /\ \A s \in Issued : session'[s].owner = u =>
                           /\ session'[s].version <= account[u].version
                           /\ session'[s].killed => session'[s].version # account[u].version
    BY <1>2 DEF VersionsGrow, Issued
  <2>1. account[u].version >= 0
    BY <1>1 DEF AccountTypes, AccountRows
  <2>2. Issued \subseteq Sessions
    BY <1>1 DEF AccountTypes
  <2> QED
    BY <1>2, <1>3, <1>4, <2>1, <2>2 DEF SignInInv, VersionsGrow, Closes
<1>8. LoginsAreOld' /\ OneSessionPerLogin'
  BY <1>2, <1>3, <1>4, ClosingKeeps
<1>9. RowsExist'
  BY <1>1, <1>2, <1>3 DEF SignInInv, RowsExist, AccountTypes, Issued, Closes, Idle
<1> QED
  BY <1>5, <1>6, <1>7, <1>8, <1>9 DEF SignInInv

\* An account takes a row, so that the next session has one of its own.
LEMMA RoomIsRoom ==
  ASSUME AccountTypes, RowsExist, RoomForRow
  PROVE  issued + 1 \in Sessions
<1> DEFINE there == {u \in Users : account[u].exists}
<1>1. IsFiniteSet(there) /\ there # {}
  BY AccountBounds, FS_Subset DEF AccountTypes, RowsExist
<1>2. Cardinality(there) \in Nat /\ Cardinality(there) # 0
  BY <1>1, FS_CardinalityType, FS_EmptySet
<1>3. Cardinality(there) + issued < MaxRows
  BY DEF RoomForRow
<1> HIDE DEF there
<1> QED
  BY <1>2, <1>3, AccountBounds DEF AccountTypes, Sessions

LEMMA CreationKeeps ==
  ASSUME SignInInv, NEW u \in Users, CreateAdmin(u) \/ \E admin \in BOOLEAN : Creates(u, admin)
  PROVE  SignInInv'
<1>1. \E row \in AccountRows :
        /\ row.exists /\ row.version = 0 /\ ~account[u].exists
        /\ account' = [account EXCEPT ![u] = row]
        /\ UNCHANGED <<issued, session, request, raced>>
  <2> DEFINE Row(admin) == [exists |-> TRUE, admin |-> admin, active |-> TRUE, version |-> 0]
  <2>1. /\ ~account[u].exists /\ UNCHANGED <<issued, session, request, raced>>
        /\ \E admin \in BOOLEAN : account' = [account EXCEPT ![u] = Row(admin)]
    BY DEF CreateAdmin, Creates
  <2>2. \A admin \in BOOLEAN : /\ Row(admin) \in AccountRows
                               /\ Row(admin).exists /\ Row(admin).version = 0
    BY DEF AccountRows
  <2> HIDE DEF Row
  <2> QED
    BY <2>1, <2>2
<1> PICK row \in AccountRows :
      /\ row.exists /\ row.version = 0 /\ ~account[u].exists
      /\ account' = [account EXCEPT ![u] = row]
      /\ UNCHANGED <<issued, session, request, raced>>
  BY <1>1
<1>2. AccountTypes'
  BY DEF SignInInv, AccountTypes, Issued, Sessions
<1>3. ActiveAdmins \subseteq ActiveAdmins'
  BY DEF SignInInv, AccountTypes, ActiveAdmins
<1>4. AdminsRemain'
  BY <1>3 DEF SignInInv, AdminsRemain, MayRemove, IsRemoval
<1>5. LoginsAreOld' /\ OneSessionPerLogin'
  BY DEF SignInInv, LoginsAreOld, OneSessionPerLogin, Issued, Usable
<1>6. RowsExist'
  BY DEF SignInInv, AccountTypes, RowsExist, Issued
<1>7. VersionsGrow'
  BY DEF SignInInv, AccountTypes, RowsExist, VersionsGrow, Issued
<1> QED
  BY <1>2, <1>4, <1>5, <1>6, <1>7 DEF SignInInv

\* A new version of the account of request q is written, over what q has read.
Bumps(q) ==
  /\ account'[q.on].version = q.seen.version + 1
  /\ \A u \in Users \ {q.on} : account'[u] = account[u]
  /\ session' = Bumped(q, Revoked(q.rows))
  /\ raced'.users = raced.users \cup OverlapOfBumps(q)
  /\ issued' = issued

LEMMA BumpKeeps ==
  ASSUME SignInInv, NEW r \in Requests, Bumps(request[r]),
         \A o \in Requests : /\ request'[o].on = request[o].on \/ request'[o].on = FirstAdmin
                             /\ \/ /\ request'[o].seen = request[o].seen
                                   /\ request'[o].on = request[o].on
                                \/ request'[o].seen.version = 0
  PROVE  /\ VersionsGrow'
         /\ session' \in [Sessions -> SessionRows]
         /\ \A s \in Sessions : Closes(session'[s], session[s])
<1> DEFINE q == request[r]
<1>1. AccountTypes /\ q \in RequestStates /\ Issued \subseteq Sessions /\ Issued' = Issued
  BY DEF SignInInv, AccountTypes, Issued, Bumps
<1>2. /\ Revoked(q.rows) \in [Sessions -> SessionRows]
      /\ \A s \in Sessions : /\ Closes(Revoked(q.rows)[s], session[s])
                             /\ Revoked(q.rows)[s].killed = session[s].killed
  BY <1>1, RevokedIs
<1>3. /\ session' \in [Sessions -> SessionRows]
      /\ \A s \in Sessions :
           /\ Closes(session'[s], session[s])
           /\ session'[s].killed => session[s].killed \/ session[s].owner = q.on
  BY <1>1, <1>2, BumpedIs DEF Bumps
<1>4. \A u \in Users : account[u].version \in Nat
  BY <1>1 DEF AccountTypes, AccountRows
<1>5. ASSUME NEW u \in Users \ raced'.users
      PROVE  /\ u \notin raced.users
             /\ account'[u].version = IF u = q.on THEN account[u].version + 1
                                      ELSE account[u].version
  <2>1. u \notin raced.users /\ u \notin OverlapOfBumps(q)
    BY DEF Bumps
  <2>2. CASE u = q.on
    BY <2>1, <2>2 DEF Bumps, OverlapOfBumps
  <2>3. CASE u # q.on
    BY <2>1, <2>3 DEF Bumps
  <2> QED
    BY <2>2, <2>3, <2>1
<1>6. ASSUME NEW u \in Users \ raced'.users, NEW o \in Requests, request'[o].on = u
      PROVE  request'[o].seen.version <= account'[u].version
  <2>1. CASE request'[o].seen.version = 0
    BY <1>4, <1>5, <2>1
  <2>2. CASE request'[o].seen = request[o].seen /\ request'[o].on = request[o].on
    <3>1. request[o].seen.version <= account[u].version /\ request[o].seen.version \in Nat
      BY <1>1, <1>5, <1>6, <2>2 DEF SignInInv, VersionsGrow, AccountTypes, RequestStates,
                                    AccountRows
    <3> QED
      BY <1>4, <1>5, <2>2, <3>1
  <2> QED
    BY <2>1, <2>2
<1>7. ASSUME NEW u \in Users \ raced'.users, NEW s \in Issued, session'[s].owner = u
      PROVE  /\ session'[s].version <= account'[u].version
             /\ session'[s].killed => session'[s].version # account'[u].version
  <2>1. /\ session[s].owner = u /\ session[s].version \in Nat
        /\ session'[s].version = session[s].version
    BY <1>1, <1>3, <1>7 DEF Closes, AccountTypes, SessionRows
  <2>2. /\ session[s].version <= account[u].version
        /\ session[s].killed => session[s].version # account[u].version
    BY <1>5, <2>1 DEF SignInInv, VersionsGrow
  <2>3. session'[s].killed => session[s].killed \/ u = q.on
    BY <1>1, <1>3, <2>1
  <2> QED
    BY <1>4, <1>5, <2>1, <2>2, <2>3
<1>8. VersionsGrow'
  BY <1>1, <1>6, <1>7 DEF VersionsGrow
<1> QED
  BY <1>3, <1>8

LEMMA EndAllKeeps ==
  ASSUME SignInInv, NEW r \in Requests, CommitsEndAll(r)
  PROVE  SignInInv'
<1> DEFINE q == request[r]
<1>1. AccountTypes /\ RowsExist /\ q \in RequestStates /\ q.on \in Users /\ account[q.on].exists
  BY DEF SignInInv, AccountTypes, RequestStates, RowsExist
<1>2. /\ account' = [account EXCEPT ![q.on].version = q.seen.version + 1]
      /\ session' = Bumped(q, Revoked(q.rows))
      /\ request' = [request EXCEPT ![r] = Idle]
      /\ raced' = [raced EXCEPT !.users = @ \cup OverlapOfBumps(q)]
      /\ issued' = issued
  BY DEF CommitsEndAll, NextVersion
<1>3. /\ account' \in [Users -> AccountRows]
      /\ account'[q.on].version = q.seen.version + 1
      /\ \A u \in Users \ {q.on} : account'[u] = account[u]
      /\ \A u \in Users : /\ account'[u].exists = account[u].exists
                          /\ account'[u].admin = account[u].admin
                          /\ account'[u].active = account[u].active
  BY <1>1, <1>2 DEF AccountTypes, AccountRows, RequestStates
<1>4. /\ raced' \in [admins : BOOLEAN, users : SUBSET Users, logins : SUBSET Nat]
      /\ raced'.users = raced.users \cup OverlapOfBumps(q)
      /\ raced'.admins = raced.admins /\ raced'.logins = raced.logins
  BY <1>1, <1>2 DEF AccountTypes, OverlapOfBumps
<1>5. /\ request' \in [Requests -> RequestStates]
      /\ \A o \in Requests : request'[o] = request[o] \/ request'[o] = Idle
      /\ Idle.op = "none" /\ Idle.seen.version = 0 /\ Idle.on = FirstAdmin
  BY <1>1, <1>2, IdleIsARequest DEF AccountTypes, Idle, NoAccount
<1>6. Bumps(q)
  BY <1>2, <1>3, <1>4 DEF Bumps
<1>7. /\ VersionsGrow' /\ session' \in [Sessions -> SessionRows]
      /\ \A s \in Sessions : Closes(session'[s], session[s])
  BY <1>5, <1>6, BumpKeeps
<1>8. AccountTypes'
  BY <1>1, <1>2, <1>3, <1>4, <1>5, <1>7 DEF AccountTypes, Issued, Sessions
<1>9. RowsExist'
  <2>1. account'[FirstAdmin].exists
    BY <1>1, <1>3, AccountBounds DEF RowsExist
  <2>2. \A u \in Users : ~account'[u].exists => account'[u].version = 0
    BY <1>1, <1>3 DEF RowsExist
  <2>3. \A o \in Requests : account'[request'[o].on].exists
    <3>1. \A o \in Requests : request[o].on \in Users
      BY <1>1 DEF AccountTypes, RequestStates
    <3> QED
      BY <1>1, <1>3, <1>5, <2>1, <3>1, AccountBounds DEF RowsExist
  <2>4. ASSUME NEW s \in Issued
        PROVE  account'[session'[s].owner].exists
    <3>1. s \in Sessions /\ session[s].owner \in Users
      BY <1>1 DEF AccountTypes, SessionRows
    <3>2. session'[s].owner = session[s].owner
      BY <1>7, <3>1 DEF Closes
    <3> QED
      BY <1>1, <1>3, <3>1, <3>2 DEF RowsExist
  <2>5. Issued' = Issued
    BY <1>2 DEF Issued
  <2> QED
    BY <2>1, <2>2, <2>3, <2>4, <2>5 DEF RowsExist
<1>10. ActiveAdmins' = ActiveAdmins
  BY <1>3 DEF ActiveAdmins
<1>11. AdminsRemain'
  BY <1>4, <1>5, <1>10 DEF SignInInv, AdminsRemain, MayRemove, IsRemoval
<1>12. LoginsAreOld' /\ OneSessionPerLogin'
  BY <1>2, <1>4, <1>5, <1>7, ClosingKeeps
<1> QED
  BY <1>7, <1>8, <1>9, <1>11, <1>12 DEF SignInInv

LEMMA PatchedIs ==
  ASSUME AccountTypes, NEW r \in Requests
  PROVE  LET q == request[r] IN
         /\ Patched(q) \in AccountRows
         /\ Patched(q).exists = account[q.on].exists
         /\ Patched(q).version = IF q.active = "no" THEN q.seen.version + 1
                                 ELSE account[q.on].version
         /\ ~IsRemoval(q) => /\ account[q.on].admin => Patched(q).admin
                             /\ account[q.on].active => Patched(q).active
<1> DEFINE q == request[r]
           user == account[q.on]
<1>1. q \in RequestStates /\ user \in AccountRows
  BY DEF AccountTypes, RequestStates
<1> DEFINE admin  == IF q.role = "keep" THEN user.admin
                     ELSE Column(q.role = "admin", q.seen.admin, user.admin)
           active == IF q.active = "keep" THEN user.active
                     ELSE Column(q.active = "yes", q.seen.active, user.active)
           version == IF q.active = "no" THEN NextVersion(q) ELSE user.version
<1>2. admin \in BOOLEAN /\ active \in BOOLEAN
  BY <1>1 DEF AccountRows, Column
<1>3. version \in Nat /\ version = IF q.active = "no" THEN q.seen.version + 1 ELSE user.version
  BY <1>1 DEF RequestStates, AccountRows, NextVersion
<1>4. ~IsRemoval(q) => (user.admin => admin) /\ (user.active => active)
  BY <1>1 DEF RequestStates, AccountRows, IsRemoval, Column
<1>5. Patched(q) = [user EXCEPT !.admin = admin, !.active = active, !.version = version]
  BY DEF Patched
<1> HIDE DEF admin, active, version
<1>6. /\ Patched(q) \in AccountRows /\ Patched(q).exists = user.exists
      /\ Patched(q).admin = admin /\ Patched(q).active = active /\ Patched(q).version = version
  BY <1>1, <1>2, <1>3, <1>5 DEF AccountRows
<1> QED
  BY <1>3, <1>4, <1>6

LEMMA PatchKeeps ==
  ASSUME SignInInv, NEW r \in Requests, CommitsPatch(r)
  PROVE  SignInInv'
<1> DEFINE q == request[r]
<1>1. AccountTypes /\ RowsExist /\ q \in RequestStates /\ q.on \in Users /\ account[q.on].exists
  BY DEF SignInInv, AccountTypes, RequestStates, RowsExist
<1>2. /\ account' = [account EXCEPT ![q.on] = Patched(q)]
      /\ session' = IF q.active = "no" THEN Bumped(q, Revoked(q.rows)) ELSE session
      /\ issued' = issued /\ q.op = "patch" /\ q.at = "ready"
  BY DEF CommitsPatch
<1>3. /\ account' \in [Users -> AccountRows]
      /\ \A u \in Users \ {q.on} : account'[u] = account[u]
      /\ \A u \in Users : account'[u].exists = account[u].exists
      /\ account'[q.on].version = IF q.active = "no" THEN q.seen.version + 1
                                  ELSE account[q.on].version
      /\ ~IsRemoval(q) => /\ account[q.on].admin => account'[q.on].admin
                          /\ account[q.on].active => account'[q.on].active
  BY <1>1, <1>2, PatchedIs DEF AccountTypes
<1>4. /\ raced' \in [admins : BOOLEAN, users : SUBSET Users, logins : SUBSET Nat]
      /\ raced'.users = raced.users \cup IF q.active = "no" THEN OverlapOfBumps(q) ELSE {}
      /\ raced'.admins <=> raced.admins \/ (IsRemoval(q) /\ q.overtaken)
      /\ raced'.logins = raced.logins
  BY <1>1 DEF AccountTypes, OverlapOfBumps, CommitsPatch
<1>5. ASSUME NEW o \in Requests
      PROVE  /\ request'[o] \in RequestStates
             /\ \/ o = r /\ request'[o] = Idle
                \/ /\ o # r
                   /\ \A f \in {"op", "at", "on", "token", "role", "active", "seen", "rows"} :
                        request'[o][f] = request[o][f]
                   /\ request'[o].overtaken <=>
                        request[o].overtaken \/ (IsRemoval(q) /\ IsRemoval(request[o]))
  <2>1. request[o] \in RequestStates
    BY <1>1 DEF AccountTypes
  <2>2. request'[o] = IF o = r THEN Idle
          ELSE IF IsRemoval(q) /\ IsRemoval(request[o])
               THEN [request[o] EXCEPT !.overtaken = TRUE] ELSE request[o]
    BY DEF CommitsPatch
  <2> QED
    BY <2>1, <2>2, IdleIsARequest DEF RequestStates
<1>6. request' \in [Requests -> RequestStates]
  <2>1. request' = [o \in Requests |-> request'[o]]
    BY DEF CommitsPatch
  <2> QED
    BY <1>5, <2>1
<1>7. Idle.op = "none" /\ Idle.seen.version = 0 /\ Idle.on = FirstAdmin
  BY DEF Idle, NoAccount
<1>8. /\ VersionsGrow' /\ session' \in [Sessions -> SessionRows]
      /\ \A s \in Sessions : Closes(session'[s], session[s])
  <2>1. CASE q.active = "no"
    <3>1. Bumps(q)
      BY <1>2, <1>3, <1>4, <2>1 DEF Bumps
    <3> QED
      BY <1>5, <1>7, <3>1, BumpKeeps
  <2>2. CASE q.active # "no"
    <3>1. session' = session /\ raced'.users = raced.users /\ Issued' = Issued
          /\ \A u \in Users : account'[u].version = account[u].version /\ account[u].version \in Nat
      BY <1>1, <1>2, <1>3, <1>4, <2>2 DEF Issued, AccountTypes, AccountRows
    <3>2. VersionsGrow'
      BY <1>5, <1>7, <3>1 DEF SignInInv, VersionsGrow
    <3> QED
      BY <1>1, <3>1, <3>2 DEF Closes, AccountTypes
  <2> QED
    BY <2>1, <2>2
<1>9. AccountTypes'
  BY <1>1, <1>2, <1>3, <1>4, <1>6, <1>8 DEF AccountTypes, Issued, Sessions
<1>10. RowsExist'
  <2>1. \A u \in Users : ~account'[u].exists => account'[u].version = 0
    BY <1>1, <1>3 DEF RowsExist
  <2>2. \A o \in Requests : /\ request[o].on \in Users
                            /\ request'[o].on \in {request[o].on, FirstAdmin}
    BY <1>1, <1>5, <1>7 DEF AccountTypes, RequestStates
  <2>3. \A o \in Requests : account'[request'[o].on].exists
    BY <1>1, <1>3, <2>2, AccountBounds DEF RowsExist
  <2>4. \A s \in Issued : s \in Sessions /\ session'[s].owner = session[s].owner
                          /\ session[s].owner \in Users
    BY <1>1, <1>8 DEF Closes, AccountTypes, SessionRows
  <2> QED
    BY <1>1, <1>2, <1>3, <2>1, <2>3, <2>4, AccountBounds DEF RowsExist, Issued
<1>11. AdminsRemain'
  <2> SUFFICES ASSUME ~raced'.admins
               PROVE  /\ ActiveAdmins' # {}
                      /\ \A o \in Requests : MayRemove(request'[o]) /\ ~request'[o].overtaken =>
                           ActiveAdmins' \ {request'[o].on} # {}
    BY DEF AdminsRemain, MayRemove, IsRemoval
  <2>1. CASE IsRemoval(q)
    <3>1. MayRemove(q) /\ ~q.overtaken /\ ~raced.admins
      BY <1>2, <1>4, <2>1 DEF MayRemove
    <3>2. ActiveAdmins \ {q.on} # {}
      BY <3>1 DEF SignInInv, AdminsRemain
    <3>3. ActiveAdmins \ {q.on} \subseteq ActiveAdmins'
      BY <1>3 DEF ActiveAdmins
    <3>4. \A o \in Requests : ~(MayRemove(request'[o]) /\ ~request'[o].overtaken)
      BY <1>5, <1>7, <2>1 DEF MayRemove, IsRemoval
    <3> QED
      BY <3>2, <3>3, <3>4
  <2>2. CASE ~IsRemoval(q)
    <3>1. ActiveAdmins \subseteq ActiveAdmins' /\ ~raced.admins
      BY <1>3, <1>4, <2>2 DEF ActiveAdmins
    <3>2. \A o \in Requests : MayRemove(request'[o]) /\ ~request'[o].overtaken =>
            MayRemove(request[o]) /\ ~request[o].overtaken /\ request'[o].on = request[o].on
      BY <1>5, <1>7 DEF MayRemove, IsRemoval
    <3> QED
      BY <3>1, <3>2 DEF SignInInv, AdminsRemain
  <2> QED
    BY <2>1, <2>2
<1>12. LoginsAreOld' /\ OneSessionPerLogin'
  BY <1>2, <1>4, <1>5, <1>7, <1>8, ClosingKeeps
<1> QED
  BY <1>8, <1>9, <1>10, <1>11, <1>12 DEF SignInInv

\* Request r ends with a new session of a login of which no other session is open.
LEMMA IssueKeeps ==
  ASSUME SignInInv, NEW r \in Requests, RoomForRow, NEW login \in 1..issued + 1,
         NEW sessions \in [Sessions -> SessionRows],
         \A s \in Sessions : /\ Closes(sessions[s], session[s])
                             /\ sessions[s].killed = session[s].killed,
         issued' = issued + 1, account' = account,
         session' = [sessions EXCEPT ![issued + 1] = NewSession(request[r], login)],
         request' = [request EXCEPT ![r] = Idle],
         raced' \in [admins : BOOLEAN, users : SUBSET Users, logins : SUBSET Nat],
         raced'.admins = raced.admins, raced'.users = raced.users,
         raced.logins \subseteq raced'.logins,
         \A s \in Issued : sessions[s].mark = "open" /\ session[s].login = login =>
                             login \in raced'.logins
  PROVE  SignInInv'
<1> DEFINE q == request[r]
           n == issued + 1
           row == NewSession(q, login)
<1>1. /\ AccountTypes /\ RowsExist /\ q \in RequestStates /\ q.on \in Users
      /\ account[q.on].exists /\ issued \in Nat
  BY DEF SignInInv, AccountTypes, RequestStates, RowsExist
<1>2. n \in Sessions
  BY <1>1, RoomIsRoom
<1>3. Issued' = Issued \cup {n} /\ n \notin Issued /\ Issued \subseteq Sessions
  BY <1>1 DEF Issued, AccountTypes
<1>4. /\ row \in SessionRows /\ row.owner = q.on /\ row.version = q.seen.version
      /\ row.login = login /\ (row.killed <=> q.seen.version # account[q.on].version)
  <2>1. q.seen.version \in Nat /\ login \in Nat /\ q.on \in Users
    BY <1>1 DEF RequestStates, AccountRows
  <2>2. NoSession \in SessionRows
    BY AccountBounds DEF NoSession, SessionRows, Marks
  <2> DEFINE killed == q.seen.version # account[q.on].version
  <2>3. killed \in BOOLEAN
    OBVIOUS
  <2> HIDE DEF killed
  <2>4. row = [NoSession EXCEPT !.owner = q.on, !.version = q.seen.version, !.login = login,
                                !.mark = "open", !.killed = killed]
    BY DEF NewSession, killed
  <2> HIDE DEF row
  <2>5. /\ row \in SessionRows /\ row.owner = q.on /\ row.version = q.seen.version
        /\ row.login = login /\ row.killed = killed
    BY <2>1, <2>2, <2>3, <2>4 DEF SessionRows, Marks
  <2> QED
    BY <2>5 DEF killed
<1>5. /\ session' \in [Sessions -> SessionRows] /\ session'[n] = row
      /\ \A s \in Issued : session'[s] = sessions[s] /\ Closes(session'[s], session[s])
                           /\ session'[s].killed = session[s].killed
  <2> HIDE DEF row
  <2>1. session' = [sessions EXCEPT ![n] = row]
    BY DEF row
  <2> QED
    BY <1>2, <1>3, <1>4, <2>1
<1> HIDE DEF row, n
<1>6. /\ request' \in [Requests -> RequestStates]
      /\ \A o \in Requests : request'[o] = request[o] \/ request'[o] = Idle
      /\ Idle.op = "none" /\ Idle.seen.version = 0 /\ Idle.on = FirstAdmin
  BY <1>1, IdleIsARequest DEF AccountTypes, Idle, NoAccount
<1>7. AccountTypes'
  <2>1. Issued' \subseteq Sessions /\ Sessions' = Sessions /\ issued' \in Nat
    BY <1>1, <1>2, <1>3 DEF Sessions
  <2> QED
    BY <1>1, <1>5, <1>6, <2>1 DEF AccountTypes
<1>8. RowsExist'
  <2>1. \A s \in Issued' : account[session'[s].owner].exists
    BY <1>1, <1>3, <1>4, <1>5 DEF RowsExist, Closes
  <2> QED
    BY <1>1, <1>6, <2>1 DEF RowsExist
<1>9. AdminsRemain'
  BY <1>6 DEF SignInInv, AdminsRemain, ActiveAdmins, MayRemove, IsRemoval
<1>10. VersionsGrow'
  <2> SUFFICES ASSUME NEW u \in Users \ raced.users
               PROVE  /\ \A o \in Requests : request'[o].on = u =>
                           request'[o].seen.version <= account[u].version
                      /\ \A s \in Issued \cup {n} : session'[s].owner = u =>
                           /\ session'[s].version <= account[u].version
                           /\ session'[s].killed => session'[s].version # account[u].version
    BY <1>3 DEF VersionsGrow
  <2>1. account[u].version >= 0
    BY <1>1 DEF AccountTypes, AccountRows
  <2> QED
    BY <1>4, <1>5, <1>6, <2>1 DEF SignInInv, VersionsGrow, Closes
<1>11. LoginsAreOld'
  <2>1. \A s \in Issued : session'[s].login \in Issued
    BY <1>3, <1>5 DEF SignInInv, LoginsAreOld, Closes
  <2>2. login \in Issued'
    BY <1>1 DEF Issued
  <2>3. \A o \in Requests : request'[o].op = "refresh" => request'[o].token \in Issued
    BY <1>6 DEF SignInInv, LoginsAreOld
  <2> QED
    BY <1>3, <1>4, <1>5, <2>1, <2>2, <2>3 DEF LoginsAreOld
<1>12. OneSessionPerLogin'
  <2> SUFFICES ASSUME NEW s \in Issued \cup {n}, NEW t \in Issued \cup {n}, s # t,
                      session'[s].mark = "open", session'[t].mark = "open",
                      session'[s].login = session'[t].login
               PROVE  session'[s].login \in raced'.logins
    BY <1>3 DEF OneSessionPerLogin, Usable
  <2>1. CASE s \in Issued /\ t \in Issued
    BY <1>5, <2>1 DEF SignInInv, OneSessionPerLogin, Usable, Closes
  <2>2. CASE s = n /\ t \in Issued
    BY <1>4, <1>5, <2>2 DEF Closes
  <2>3. CASE t = n /\ s \in Issued
    BY <1>4, <1>5, <2>3 DEF Closes
  <2> QED
    BY <2>1, <2>2, <2>3
<1> QED
  BY <1>7, <1>8, <1>9, <1>10, <1>11, <1>12 DEF SignInInv

LEMMA LoginKeeps ==
  ASSUME SignInInv, NEW r \in Requests, CommitsLogin(r)
  PROVE  SignInInv'
<1>1. AccountTypes /\ issued \in Nat /\ LoginsAreOld
  BY DEF SignInInv, AccountTypes
<1>2. /\ RoomForRow /\ issued' = issued + 1 /\ account' = account /\ raced' = raced
      /\ session' = [session EXCEPT ![issued + 1] = NewSession(request[r], issued + 1)]
      /\ request' = [request EXCEPT ![r] = Idle]
  BY DEF CommitsLogin
<1>3. session \in [Sessions -> SessionRows] /\ \A s \in Sessions : Closes(session[s], session[s])
  BY <1>1 DEF AccountTypes, Closes
<1>4. \A s \in Issued : session[s].login # issued + 1
  BY <1>1 DEF LoginsAreOld, Issued
<1>5. raced \in [admins : BOOLEAN, users : SUBSET Users, logins : SUBSET Nat]
      /\ issued + 1 \in 1..issued + 1
  BY <1>1 DEF AccountTypes
<1> QED
  BY <1>2, <1>3, <1>4, <1>5, IssueKeeps

LEMMA RefreshKeeps ==
  ASSUME SignInInv, NEW r \in Requests, CommitsRefresh(r)
  PROVE  SignInInv'
<1> DEFINE q == request[r]
           old == session[q.token]
           sessions == Rotated(q.token)
<1>1. AccountTypes /\ issued \in Nat /\ LoginsAreOld /\ OneSessionPerLogin
  BY DEF SignInInv, AccountTypes
<1>2. /\ RoomForRow /\ issued' = issued + 1 /\ account' = account
      /\ session' = [sessions EXCEPT ![issued + 1] = NewSession(q, old.login)]
      /\ request' = [request EXCEPT ![r] = Idle]
      /\ q.op = "refresh" /\ There(q.token)
      /\ raced' = [raced EXCEPT !.logins = @ \cup IF old.mark \in {"rotated", "revoked"}
                                                  THEN {old.login} ELSE {}]
  BY DEF CommitsRefresh
<1>3. q.token \in Issued /\ Issued \subseteq Sessions /\ old \in SessionRows /\ old.login \in Issued
  BY <1>1, <1>2 DEF AccountTypes, LoginsAreOld
<1>4. old.login \in 1..issued + 1 /\ old.login \in Nat
  BY <1>1, <1>3 DEF Issued
<1>5. /\ sessions \in [Sessions -> SessionRows]
      /\ \A s \in Sessions : /\ Closes(sessions[s], session[s])
                             /\ sessions[s].killed = session[s].killed
      /\ sessions[q.token].mark # "open"
  BY <1>1, <1>3 DEF Rotated, AccountTypes, SessionRows, Marks, Closes
<1>6. /\ raced' \in [admins : BOOLEAN, users : SUBSET Users, logins : SUBSET Nat]
      /\ raced'.admins = raced.admins /\ raced'.users = raced.users
      /\ raced.logins \subseteq raced'.logins
      /\ old.mark \in {"rotated", "revoked"} => old.login \in raced'.logins
  BY <1>1, <1>2, <1>4 DEF AccountTypes
<1>7. ASSUME NEW s \in Issued, sessions[s].mark = "open", session[s].login = old.login
      PROVE  old.login \in raced'.logins
  <2>1. s # q.token /\ session[s].mark = "open"
    BY <1>3, <1>5, <1>7 DEF Closes
  <2>2. old.mark \in {"open", "rotated", "revoked"}
    BY <1>2, <1>3 DEF SessionRows, Marks, There
  <2> QED
    BY <1>1, <1>3, <1>6, <1>7, <2>1, <2>2 DEF OneSessionPerLogin, Usable
<1>8. \A s \in Issued : sessions[s].mark = "open" /\ session[s].login = old.login =>
                            old.login \in raced'.logins
  BY <1>7
<1> DEFINE login == old.login
<1>9. login \in 1..issued + 1
  BY <1>4
<1>10. session' = [sessions EXCEPT ![issued + 1] = NewSession(request[r], login)]
  BY <1>2
<1>11. \A s \in Issued : sessions[s].mark = "open" /\ session[s].login = login =>
                             login \in raced'.logins
  BY <1>8
<1> HIDE DEF sessions, login
<1> QED
  BY <1>2, <1>5, <1>6, <1>9, <1>10, <1>11, IssueKeeps, ZenonT(30)

-----------------------------------------------------------------------------
(* The theorems *)

LEMMA NextKeeps == SignInInv /\ Next => SignInInv'
<1> SUFFICES ASSUME SignInInv, Next PROVE SignInInv'
  OBVIOUS
<1>1. ASSUME NEW u \in Users, CreateAdmin(u) \/ \E admin \in BOOLEAN : Creates(u, admin)
      PROVE  SignInInv'
  BY <1>1, CreationKeeps
<1>2. ASSUME NEW r \in Requests,
             \/ Read(r) \/ GivesUp(r) \/ FindsSessions(r)
             \/ ChecksAdmins(r) \/ RefreshChecksUser(r)
      PROVE  SignInInv'
  BY <1>2, ReadKeeps, StepsKeep
<1>3. ASSUME NEW r \in Requests, CommitsPatch(r) \/ CommitsEndAll(r)
      PROVE  SignInInv'
  BY <1>3, PatchKeeps, EndAllKeeps
<1>4. ASSUME NEW r \in Requests, CommitsLogin(r) \/ CommitsRefresh(r)
      PROVE  SignInInv'
  BY <1>4, LoginKeeps, RefreshKeeps
<1>5. ASSUME NEW r \in Requests, CommitsReplay(r) \/ CommitsLogout(r)
      PROVE  SignInInv'
  BY <1>5, CommitsReplayOrLogoutKeep
<1>6. ASSUME NEW r \in Requests, NEW u \in Users,
             \/ AskToEndAll(r, u) \/ AskToEndOwn(r, u) \/ LogsIn(r, u)
             \/ \E p \in Patches : AskForPatch(r, u, p)
      PROVE  SignInInv'
  BY <1>6, AsksKeep, TokensKeep
<1>7. ASSUME NEW r \in Requests, NEW s \in Issued, PresentsToken(r, s) \/ LogsOut(r, s)
      PROVE  SignInInv'
  BY <1>7, TokensKeep
<1>8. ASSUME NEW expired \in SUBSET Issued, Purge(expired)
      PROVE  SignInInv'
  BY <1>8, CommitsReplayOrLogoutKeep
<1> QED
  BY <1>1, <1>2, <1>3, <1>4, <1>5, <1>6, <1>7, <1>8 DEF Next

LEMMA StutterKeeps == SignInInv /\ UNCHANGED vars => SignInInv'
  BY DEF SignInInv, vars, AccountTypes, RowsExist, AdminsRemain, VersionsGrow, LoginsAreOld,
         OneSessionPerLogin, Issued, Sessions, ActiveAdmins, MayRemove, IsRemoval, Usable

\* The invariant, with the limiters beside the accounts.
THEOREM Inductive == SignInSpec => []SignInInv
<1>1. SignInInit => SignInInv
  BY SignInStarts DEF SignInInit
<1>2. SignInInv /\ [Limits \/ Admits]_signInVars => SignInInv'
  BY NextKeeps, StutterKeeps DEF Limits, Admits, signInVars
<1> QED
  BY <1>1, <1>2, PTL DEF SignInSpec

\* update_user and its check (count_active_admins): whichever requests overlap, somebody can
\* administer the system, unless two removals of administrators overlapped.
THEOREM SomeoneAdministers == SignInSpec => []SomeoneCanAdminister
<1>1. SignInInv => SomeoneCanAdminister
  BY DEF SignInInv, AdminsRemain, SomeoneCanAdminister
<1> QED
  BY <1>1, Inductive, PTL

\* token_version and the rotation of refresh sessions (auth_service.py): a token issued before
\* a new version was written is refused, and a login is one session at any time, but for the
\* overlaps the properties name.
THEOREM OldTokensDead == SignInSpec => []OldTokensAreDead
<1>1. SignInInv => OldTokensAreDead
  <2> SUFFICES ASSUME SignInInv PROVE KillSwitch
    BY DEF SignInInv, OldTokensAreDead
  <2> SUFFICES ASSUME NEW s \in Issued, session[s].killed, Accepts(s)
               PROVE  session[s].owner \in raced.users
    BY DEF KillSwitch
  <2>1. session[s].owner \in Users
    BY DEF SignInInv, AccountTypes, SessionRows
  <2>2. account[session[s].owner].version = session[s].version
    BY DEF Accepts
  <2> QED
    BY <2>1, <2>2 DEF SignInInv, VersionsGrow
<1> QED
  BY <1>1, Inductive, PTL

-----------------------------------------------------------------------------
(* The limiters *)

\* A set of numbers that is not empty has a least one.
LEMMA LeastExists ==
  ASSUME NEW A, A \subseteq Nat, A # {}
  PROVE  \E x \in A : \A y \in A : x <= y
<1> DEFINE R == {ss \in Nat \X Nat : ss[1] < ss[2]}
<1>1. IsWellFoundedOn(R, Nat)
  BY NatLessThanWellFounded DEF OpToRel
<1>2. PICK x \in A : \A y \in A : ~(<<y, x>> \in R)
  <2> HIDE DEF R
  <2> QED
    BY <1>1, WFMin
<1>3. ASSUME NEW y \in A PROVE x <= y
  <2>1. CASE y < x
    <3>1. <<y, x>> \in Nat \X Nat /\ <<y, x>>[1] < <<y, x>>[2]
      BY <2>1
    <3>2. <<y, x>> \in R
      BY <3>1
    <3> QED
      BY <1>2, <3>2
  <2> QED
    BY <2>1
<1> QED
  BY <1>3

Ages == 0..(Window + 1)

OldestFirst(ages) == \A i, j \in DOMAIN ages : i < j => ages[i] >= ages[j]

\* What is pruned is what is old.
LEMMA GoneAreOld ==
  ASSUME NEW ages \in Seq(Ages), OldestFirst(ages)
  PROVE  /\ Gone(ages) \in 0..Len(ages) /\ Len(ages) \in Nat
         /\ \A i \in 1..Len(ages) : ages[i] \in Ages /\ (IsOld(ages[i]) <=> i <= Gone(ages))
<1> DEFINE A == {n \in 0..Len(ages) : n < Len(ages) => ~IsOld(ages[n + 1])}
<1>1. Len(ages) \in Nat /\ DOMAIN ages = 1..Len(ages) /\ Window \in Nat
      /\ \A i \in 1..Len(ages) : ages[i] \in Ages
  BY ThrottleBounds
<1>2. Len(ages) \in A /\ A \subseteq Nat
  BY <1>1
<1>3. PICK n \in A : \A m \in A : n <= m
  <2> HIDE DEF A
  <2> QED
    BY <1>2, LeastExists
<1>4. ASSUME NEW i \in 1..n
      PROVE  IsOld(ages[i])
  <2>1. i - 1 \in 0..Len(ages) /\ i - 1 < n /\ (i - 1) + 1 = i
    BY <1>1, <1>3
  <2>2. i - 1 \notin A
    <3> HIDE DEF A
    <3>1. n \in Nat
      BY <1>2, <1>3
    <3> QED
      BY <1>3, <2>1, <3>1
  <2> QED
    BY <2>1, <2>2
<1> DEFINE g == Gone(ages)
<1>5. /\ g \in 0..Len(ages)
      /\ \A i \in 1..g : IsOld(ages[i])
      /\ g < Len(ages) => ~IsOld(ages[g + 1])
  BY <1>3, <1>4 DEF Gone
<1> HIDE DEF g
<1>6. ASSUME NEW i \in 1..Len(ages), i > g
      PROVE  ~IsOld(ages[i])
  <2>1. g + 1 \in 1..Len(ages) /\ ~IsOld(ages[g + 1])
    BY <1>1, <1>5, <1>6
  <2>2. ages[g + 1] >= ages[i]
    <3>1. CASE i = g + 1
      BY <1>1, <2>1, <3>1 DEF Ages
    <3>2. CASE g + 1 < i
      BY <1>1, <2>1, <3>2 DEF OldestFirst
    <3> QED
      BY <1>1, <1>5, <1>6, <3>1, <3>2
  <2> QED
    BY <1>1, <2>1, <2>2 DEF IsOld, Ages
<1> QED
  BY <1>1, <1>5, <1>6 DEF g

\* What is in a sequence.
LEMMA ElementsOf ==
  ASSUME NEW S, NEW s \in Seq(S)
  PROVE  /\ Len(s) \in Nat /\ DOMAIN s = 1..Len(s)
         /\ \A i \in DOMAIN s : s[i] \in S
         /\ \A i \in 1..Len(s) : s[i] \in S
OBVIOUS

\* The end of a sequence.
LEMMA EndOf ==
  ASSUME NEW S, NEW s \in Seq(S), NEW n \in 0..Len(s), NEW t, t = SubSeq(s, n + 1, Len(s))
  PROVE  /\ t \in Seq(S) /\ Len(t) = Len(s) - n /\ Len(s) \in Nat
         /\ \A i \in 1..Len(t) : t[i] = s[n + i]
<1>1. Len(s) \in Nat /\ DOMAIN s = 1..Len(s) /\ n \in Nat
  OBVIOUS
<1>2. \A i \in (n + 1)..Len(s) : s[i] \in S
  BY <1>1
<1>3. n + 1 \in Int /\ Len(s) \in Int
  BY <1>1
<1>4. /\ t \in Seq(S)
      /\ Len(t) = IF n + 1 <= Len(s) THEN Len(s) - (n + 1) + 1 ELSE 0
      /\ \A i \in 1..(Len(s) - (n + 1) + 1) : t[i] = s[(n + 1) + i - 1]
  BY <1>2, <1>3, SubSeqProperties
<1> DEFINE l == Len(s)
           m == Len(t)
<1>5. m = l - n /\ l - (n + 1) + 1 = l - n /\ l \in Nat
  <2>1. l \in Nat /\ n \in 0..l /\ m = IF n + 1 <= l THEN l - (n + 1) + 1 ELSE 0
    BY <1>1, <1>4
  <2> HIDE DEF l, m
  <2> QED
    BY <2>1
<1>6. ASSUME NEW i \in 1..m
      PROVE  t[i] = s[n + i]
  <2>1. t[i] = s[(n + 1) + i - 1]
    BY <1>4, <1>5
  <2>2. (n + 1) + i - 1 = n + i
    <3> HIDE DEF l, m
    <3> QED
      BY <1>5
  <2> QED
    BY <2>1, <2>2
<1> QED
  BY <1>1, <1>4, <1>5, <1>6

LEMMA PrunedAreAges ==
  ASSUME NEW ages \in Seq(Ages), OldestFirst(ages),
         NEW t, t = SubSeq(ages, Gone(ages) + 1, Len(ages))
  PROVE  t \in Seq(Ages) /\ Len(t) \in Nat
<1>1. Gone(ages) \in 0..Len(ages)
  BY GoneAreOld
<1>2. t \in Seq(Ages)
  BY <1>1, EndOf
<1> QED
  BY <1>2, ElementsOf

\* Events are in their order, and those within the window are the ones that count.
EventsInOrder(k) ==
  /\ events[k] \in Seq(Ages) /\ OldestFirst(events[k])
  /\ counted[k] = Pruned(k)

\* What follows for the key: none of what counts is old.
LEMMA CountedAreRecent ==
  ASSUME NEW k \in Keys, EventsInOrder(k)
  PROVE  /\ counted[k] \in Seq(0..Window) /\ Len(counted[k]) \in Nat
         /\ Len(counted[k]) = Len(events[k]) - Gone(events[k])
         /\ Gone(events[k]) \in 0..Len(events[k]) /\ Len(events[k]) \in Nat
         /\ \A i \in 1..Len(counted[k]) : counted[k][i] = events[k][Gone(events[k]) + i]
         /\ OldestFirst(counted[k])
<1> DEFINE e == events[k]
           g == Gone(e)
           c == counted[k]
<1>1. e \in Seq(Ages) /\ OldestFirst(e) /\ c = SubSeq(e, g + 1, Len(e))
  BY DEF EventsInOrder, Pruned
<1>2. /\ g \in 0..Len(e) /\ Len(e) \in Nat
      /\ \A i \in 1..Len(e) : e[i] \in Ages /\ (IsOld(e[i]) <=> i <= g)
  BY <1>1, GoneAreOld
<1> HIDE DEF e, g, c
<1>3. /\ c \in Seq(Ages) /\ Len(c) = Len(e) - g
      /\ \A i \in 1..Len(c) : c[i] = e[g + i]
  BY <1>1, <1>2, EndOf
<1>4. \A i \in 1..Len(c) : g + i \in 1..Len(e) /\ ~(g + i <= g)
  BY <1>2, <1>3
<1>5. \A i \in 1..Len(c) : c[i] \in 0..Window
  BY <1>2, <1>3, <1>4, ThrottleBounds, SMTT(30) DEF IsOld, Ages
<1>6. c \in [1..Len(c) -> 0..Window] /\ Len(c) \in Nat
  BY <1>3, <1>5
<1>7. c \in Seq(0..Window)
  BY <1>6, SeqDef
<1>8. OldestFirst(c)
  <2> SUFFICES ASSUME NEW i \in 1..Len(c), NEW j \in 1..Len(c), i < j
               PROVE  c[i] >= c[j]
    BY <1>6 DEF OldestFirst
  <2>1. g + i < g + j /\ g + i \in DOMAIN e /\ g + j \in DOMAIN e
    BY <1>1, <1>2, <1>4
  <2> QED
    BY <1>1, <1>3, <2>1 DEF OldestFirst
<1> QED
  BY <1>2, <1>3, <1>6, <1>7, <1>8 DEF c, e, g

\* Events none of which is old are pruned of nothing.
LEMMA NoneGone ==
  ASSUME NEW ages \in Seq(0..Window), OldestFirst(ages)
  PROVE  ages \in Seq(Ages) /\ SubSeq(ages, Gone(ages) + 1, Len(ages)) = ages
<1>1. Len(ages) \in Nat /\ DOMAIN ages = 1..Len(ages) /\ Window \in Nat
      /\ \A i \in 1..Len(ages) : ages[i] \in 0..Window
  BY ThrottleBounds
<1>2. ages \in [1..Len(ages) -> Ages]
  BY <1>1 DEF Ages
<1>3. ages \in Seq(Ages)
  BY <1>1, <1>2, SeqDef
<1>4. /\ Gone(ages) \in 0..Len(ages)
      /\ \A i \in 1..Len(ages) : IsOld(ages[i]) <=> i <= Gone(ages)
  BY <1>3, GoneAreOld
<1>5. Gone(ages) = 0
  <2>1. CASE Gone(ages) # 0
    <3>1. Gone(ages) \in 1..Len(ages)
      BY <1>1, <1>4, <2>1
    <3>2. IsOld(ages[Gone(ages)])
      BY <1>4, <3>1
    <3> QED
      BY <1>1, <3>1, <3>2 DEF IsOld
  <2> QED
    BY <2>1
<1> DEFINE t == SubSeq(ages, 1, Len(ages))
<1>6. /\ t \in Seq(Ages) /\ Len(t) = Len(ages) /\ \A i \in 1..Len(t) : t[i] = ages[i]
  <2>1. 0 \in 0..Len(ages) /\ 0 + 1 = 1 /\ Len(ages) - 0 = Len(ages)
    BY <1>1
  <2>2. /\ t \in Seq(Ages) /\ Len(t) = Len(ages) - 0
        /\ \A i \in 1..Len(t) : t[i] = ages[0 + i]
    BY <1>3, <2>1, EndOf
  <2> HIDE DEF t
  <2> QED
    BY <1>1, <2>1, <2>2
<1> HIDE DEF t
<1>7. t = ages
  BY <1>3, <1>6, SeqEqual
<1> QED
  BY <1>3, <1>5, <1>7 DEF t

\* To prune keeps what counts.
LEMMA PruningKeeps ==
  ASSUME NEW k \in Keys, EventsInOrder(k), events'[k] = Pruned(k), counted'[k] = counted[k]
  PROVE  EventsInOrder(k)'
<1>1. counted[k] \in Seq(0..Window) /\ OldestFirst(counted[k]) /\ events'[k] = counted[k]
  BY CountedAreRecent DEF EventsInOrder
<1> QED
  BY <1>1, NoneGone DEF EventsInOrder, Pruned

LEMMA CountKeeps ==
  ASSUME NEW k \in Keys, EventsInOrder(k), events'[k] = Append(Pruned(k), 0),
         counted'[k] = Append(counted[k], 0)
  PROVE  EventsInOrder(k)' /\ Len(counted'[k]) = Len(counted[k]) + 1
<1> DEFINE c == counted[k]
           d == Append(c, 0)
<1>1. c \in Seq(0..Window) /\ OldestFirst(c) /\ events'[k] = d /\ counted'[k] = d
  BY CountedAreRecent DEF EventsInOrder
<1>2. 0 \in 0..Window
  BY ThrottleBounds
<1> HIDE DEF c
<1>3. d \in Seq(0..Window) /\ Len(d) = Len(c) + 1
  BY <1>1, <1>2
<1>4. \A i \in DOMAIN c : c[i] \in 0..Window
  BY <1>1, ElementsOf
<1>5. /\ DOMAIN d = 1..(Len(c) + 1) /\ DOMAIN c = 1..Len(c) /\ Len(c) \in Nat
      /\ \A i \in DOMAIN d : d[i] = IF i \in DOMAIN c THEN c[i] ELSE 0
  BY <1>1
<1> HIDE DEF d
<1>6. OldestFirst(d)
  <2> SUFFICES ASSUME NEW i \in DOMAIN d, NEW j \in DOMAIN d, i < j
               PROVE  d[i] >= d[j]
    BY DEF OldestFirst
  <2>1. i \in DOMAIN c /\ d[i] = c[i] /\ c[i] \in 0..Window
    BY <1>4, <1>5
  <2>2. CASE j \in DOMAIN c
    BY <1>1, <1>5, <2>1, <2>2 DEF OldestFirst
  <2>3. CASE j \notin DOMAIN c
    BY <1>5, <2>1, <2>3
  <2> QED
    BY <2>2, <2>3
<1>7. EventsInOrder(k)'
  BY <1>1, <1>3, <1>6, NoneGone DEF EventsInOrder, Pruned
<1> QED
  BY <1>1, <1>3, <1>7 DEF c

LEMMA ResetKeeps ==
  ASSUME NEW k \in Keys, events'[k] = << >>, counted'[k] = << >>
  PROVE  EventsInOrder(k)' /\ Len(counted'[k]) = 0
<1>1. << >> \in Seq(0..Window) /\ OldestFirst(<< >>) /\ Len(<< >>) = 0
  BY DEF OldestFirst
<1> QED
  BY <1>1, NoneGone DEF EventsInOrder, Pruned

\* A tick later all are a tick older, or stay past the window.
LEMMA OlderIs ==
  ASSUME NEW ages \in Seq(Ages), OldestFirst(ages), NEW t, t = Older(ages)
  PROVE  /\ t \in Seq(Ages) /\ OldestFirst(t) /\ Len(t) = Len(ages) /\ Len(ages) \in Nat
         /\ \A i \in 1..Len(ages) :
              /\ ages[i] \in Ages
              /\ t[i] = IF IsOld(ages[i]) THEN ages[i] ELSE ages[i] + 1
<1>1. /\ Len(ages) \in Nat /\ DOMAIN ages = 1..Len(ages) /\ Window \in Nat
      /\ \A i \in 1..Len(ages) : ages[i] \in Ages
  BY ThrottleBounds
<1>2. \A i \in 1..Len(ages) : t[i] = IF IsOld(ages[i]) THEN ages[i] ELSE ages[i] + 1
  BY <1>1 DEF Older
<1>3. \A i \in 1..Len(ages) : t[i] \in Ages
  BY <1>1, <1>2 DEF Ages, IsOld
<1>4. t \in [1..Len(ages) -> Ages]
  BY <1>1, <1>3 DEF Older
<1>5. t \in Seq(Ages)
  BY <1>1, <1>4, SeqDef
<1>6. Len(t) = Len(ages) /\ DOMAIN t = 1..Len(ages)
  BY <1>1, <1>4, <1>5
<1>7. OldestFirst(t)
  <2> SUFFICES ASSUME NEW i \in 1..Len(ages), NEW j \in 1..Len(ages), i < j
               PROVE  t[i] >= t[j]
    BY <1>6 DEF OldestFirst
  <2>1. ages[i] >= ages[j] /\ ages[i] \in Ages /\ ages[j] \in Ages
    BY <1>1 DEF OldestFirst
  <2>2. /\ t[i] = IF IsOld(ages[i]) THEN ages[i] ELSE ages[i] + 1
        /\ t[j] = IF IsOld(ages[j]) THEN ages[j] ELSE ages[j] + 1
    BY <1>2
  <2> QED
    BY <1>1, <2>1, <2>2 DEF Ages, IsOld
<1> QED
  BY <1>1, <1>2, <1>5, <1>6, <1>7

LEMMA TickKeeps ==
  ASSUME NEW k \in Keys, EventsInOrder(k), events'[k] = Older(events[k]),
         counted'[k] = WithinWindow(Older(counted[k]))
  PROVE  /\ EventsInOrder(k)'
         /\ Len(counted'[k]) <= Len(counted[k])
         /\ counted[k] # << >> /\ Len(counted'[k]) = Len(counted[k])
              => counted'[k][1] = counted[k][1] + 1
<1> DEFINE e == events[k]
           g == Gone(e)
           c == counted[k]
           f == Older(e)
           q == Older(c)
           h == Gone(f)
<1>1. /\ e \in Seq(Ages) /\ OldestFirst(e)
      /\ c \in Seq(0..Window) /\ OldestFirst(c) /\ Len(c) \in Nat /\ Len(e) \in Nat
      /\ Len(c) = Len(e) - g /\ g \in 0..Len(e)
      /\ \A i \in 1..Len(c) : c[i] = e[g + i]
  BY CountedAreRecent DEF EventsInOrder
<1>2. \A i \in 1..Len(e) : IsOld(e[i]) <=> i <= g
  BY <1>1, GoneAreOld
<1>3. c \in Seq(Ages)
  BY <1>1, NoneGone
<1> HIDE DEF e, c, g
<1>4. /\ f \in Seq(Ages) /\ OldestFirst(f) /\ Len(f) = Len(e)
      /\ \A i \in 1..Len(e) : /\ e[i] \in Ages
                              /\ f[i] = IF IsOld(e[i]) THEN e[i] ELSE e[i] + 1
  BY <1>1, OlderIs
<1>5. /\ q \in Seq(Ages) /\ Len(q) = Len(c)
      /\ \A i \in 1..Len(c) : q[i] = IF IsOld(c[i]) THEN c[i] ELSE c[i] + 1
  BY <1>1, <1>3, OlderIs
<1> HIDE DEF f, q
<1>6. h \in 0..Len(e) /\ \A i \in 1..Len(e) : f[i] \in Ages /\ (IsOld(f[i]) <=> i <= h)
  BY <1>4, GoneAreOld
<1> HIDE DEF h
<1>7. g <= h
  <2>1. CASE g = 0
    BY <1>1, <1>6, <2>1
  <2>2. CASE g # 0
    <3>1. g \in 1..Len(e) /\ IsOld(e[g])
      BY <1>1, <1>2, <2>2
    <3>2. IsOld(f[g])
      BY <1>4, <3>1
    <3> QED
      BY <1>6, <3>1, <3>2
  <2> QED
    BY <2>1, <2>2
<1>8. \A i \in 1..Len(c) : g + i \in 1..Len(e) /\ q[i] = f[g + i] /\ q[i] \in Ages
  BY <1>1, <1>4, <1>5, <1>6
<1> DEFINE D == {n \in DOMAIN q : q[n] > Window}
           d == h - g
<1>9. Cardinality(D) = d /\ d \in 0..Len(q)
  <2>1. d \in Nat /\ d <= Len(c)
    BY <1>1, <1>6, <1>7
  <2>2. DOMAIN q = 1..Len(c)
    BY <1>1, <1>5
  <2>3. \A n \in 1..Len(c) : q[n] > Window <=> n <= d
    <3> SUFFICES ASSUME NEW n \in 1..Len(c)
                 PROVE  q[n] > Window <=> n <= d
      OBVIOUS
    <3>1. g + n \in 1..Len(e) /\ q[n] = f[g + n]
      BY <1>8
    <3>2. q[n] > Window <=> g + n <= h
      BY <1>6, <3>1 DEF IsOld
    <3> QED
      BY <1>1, <1>6, <3>2
  <2> HIDE DEF d
  <2>4. D = 1..d
    BY <1>1, <2>1, <2>2, <2>3
  <2> HIDE DEF D
  <2>5. 1 \in Int /\ d \in Int
    BY <2>1
  <2>6. Cardinality(1..d) = IF 1 > d THEN 0 ELSE d - 1 + 1
    BY <2>5, FS_Interval
  <2> QED
    BY <1>5, <2>1, <2>4, <2>6
<1>10. counted'[k] = SubSeq(q, d + 1, Len(q))
  BY <1>9 DEF WithinWindow, q, c
<1> HIDE DEF D, d
<1> DEFINE new == counted'[k]
           kept == SubSeq(f, h + 1, Len(f))
<1>11. /\ new \in Seq(Ages) /\ Len(new) = Len(q) - d
       /\ \A i \in 1..Len(new) : new[i] = q[d + i]
  BY <1>5, <1>9, <1>10, EndOf
<1>12. /\ kept \in Seq(Ages) /\ Len(kept) = Len(f) - h
       /\ \A i \in 1..Len(kept) : kept[i] = f[h + i]
  BY <1>4, <1>6, EndOf
<1> HIDE DEF kept
<1>13. Len(new) = Len(kept) /\ Len(new) \in Nat
  BY <1>1, <1>4, <1>5, <1>6, <1>9, <1>11, <1>12 DEF d
<1>14. \A i \in 1..Len(new) : new[i] = kept[i]
  <2> SUFFICES ASSUME NEW i \in 1..Len(new)
               PROVE  new[i] = kept[i]
    OBVIOUS
  <2>1. d + i \in 1..Len(c) /\ g + (d + i) = h + i
    BY <1>1, <1>5, <1>6, <1>9, <1>11, <1>13, SMTT(30) DEF d
  <2>2. new[i] = q[d + i] /\ kept[i] = f[h + i]
    BY <1>11, <1>12, <1>13
  <2> QED
    BY <1>8, <2>1, <2>2
<1>15. new = kept
  BY <1>11, <1>12, <1>13, <1>14, SeqEqual
<1>16. EventsInOrder(k)'
  BY <1>4, <1>15 DEF EventsInOrder, Pruned, kept, h, f, e
<1>17. Len(new) <= Len(c)
  BY <1>1, <1>5, <1>9, <1>11
<1>18. ASSUME c # << >>, Len(new) = Len(c)
       PROVE  new[1] = c[1] + 1
  <2>1. d = 0 /\ 1 \in 1..Len(c)
    BY <1>1, <1>5, <1>9, <1>11, <1>18
  <2>2. new[1] = q[1]
    BY <1>11, <1>18, <2>1
  <2>3. ~IsOld(c[1])
    BY <1>1, <2>1, ThrottleBounds DEF IsOld
  <2> QED
    BY <1>5, <2>1, <2>2, <2>3
<1> QED
  BY <1>16, <1>17, <1>18 DEF c

\* Who was refused is told a time after which the oldest that counts is old, unless there is
\* room already.
ToldEnough(k) ==
  /\ told[k] \in 0..NotTold
  /\ told[k] # NotTold => \/ Len(counted[k]) < Budget
                          \/ counted[k] # << >> /\ counted[k][1] + told[k] > Window

KeysHold ==
  /\ DOMAIN events = Keys /\ DOMAIN counted = Keys /\ DOMAIN told = Keys
  /\ \A k \in Keys : EventsInOrder(k) /\ ToldEnough(k)

\* To divide by the ticks of a second and to round up.
LEMMA Rounding ==
  ASSUME NEW x \in Nat
  PROVE  /\ TicksPerSecond * ((x \div TicksPerSecond) + 1) \in Nat
         /\ TicksPerSecond * ((x \div TicksPerSecond) + 1) > x
         /\ TicksPerSecond * ((x \div TicksPerSecond) + 1) <= x + TicksPerSecond
<1> DEFINE n == TicksPerSecond
           m == x \div n
<1>1. n \in Nat \ {0}
  BY ThrottleBounds
<1> HIDE DEF n
<1>2. m \in Nat /\ n * m <= x /\ x < n * m + n
  BY <1>1
<1> HIDE DEF m
<1>3. n * (m + 1) = n * m + n /\ n * m \in Nat
  BY <1>1, <1>2
<1> QED
  BY <1>1, <1>2, <1>3 DEF n, m

LEMMA RefuseKeeps ==
  ASSUME KeysHold, NEW k \in Keys, IsFull(k), Refuse(k), UNCHANGED use
  PROVE  KeysHold' /\ UNCHANGED counted
<1>1. /\ events' = [events EXCEPT ![k] = Pruned(k)] /\ UNCHANGED counted
      /\ told' = [told EXCEPT ![k] = TicksPerSecond * RetryAfter(Head(Pruned(k)))]
      /\ DOMAIN events = Keys /\ DOMAIN counted = Keys /\ DOMAIN told = Keys
      /\ \A j \in Keys : EventsInOrder(j) /\ ToldEnough(j)
  BY DEF Refuse, KeysHold
<1>2. Budget' = Budget
  BY DEF Budget
<1>3. \A j \in Keys : EventsInOrder(j)'
  <2> SUFFICES ASSUME NEW j \in Keys PROVE EventsInOrder(j)'
    OBVIOUS
  <2>1. CASE j = k
    BY <1>1, <2>1, PruningKeeps
  <2>2. CASE j # k
    BY <1>1, <2>2 DEF EventsInOrder, Pruned
  <2> QED
    BY <2>1, <2>2
<1>4. ASSUME NEW j \in Keys, j # k
      PROVE  ToldEnough(j)'
  <2>1. ToldEnough(j) /\ told'[j] = told[j] /\ counted'[j] = counted[j]
    BY <1>1, <1>4
  <2> QED
    BY <1>2, <2>1 DEF ToldEnough, NotTold
<1>5. ToldEnough(k)'
  <2> DEFINE c == counted[k]
  <2>1. c \in Seq(0..Window) /\ Len(c) \in Nat /\ c = Pruned(k)
    BY <1>1, CountedAreRecent DEF EventsInOrder
  <2>2. MaxAttempts \in Nat \ {0} /\ Window \in Nat /\ TicksPerSecond \in Nat
    BY ThrottleBounds
  <2>3. Len(c) >= MaxAttempts
    BY <2>1 DEF IsFull
  <2> HIDE DEF c
  <2>4. c # << >> /\ c[1] \in 0..Window /\ Head(c) = c[1]
    BY <2>1, <2>2, <2>3
  <2>5. Window - c[1] \in Nat
    BY <2>2, <2>4
  <2> DEFINE wait == TicksPerSecond * (((Window - c[1]) \div TicksPerSecond) + 1)
  <2>6. wait \in Nat /\ wait > Window - c[1] /\ wait <= Window - c[1] + TicksPerSecond
    BY <2>5, Rounding
  <2>7. told'[k] = wait
    BY <1>1, <2>1, <2>4 DEF RetryAfter
  <2> HIDE DEF wait
  <2>8. wait \in 0..NotTold /\ c[1] + wait > Window
    BY <2>2, <2>4, <2>6 DEF NotTold
  <2>9. counted'[k] = c
    BY <1>1 DEF c
  <2> QED
    BY <2>4, <2>7, <2>8, <2>9 DEF ToldEnough, NotTold
<1> QED
  BY <1>1, <1>3, <1>4, <1>5 DEF KeysHold

LEMMA CountingKeeps ==
  ASSUME KeysHold, NEW k \in Keys, Count(k), UNCHANGED use
  PROVE  /\ KeysHold' /\ Len(counted'[k]) = Len(counted[k]) + 1
         /\ \A j \in Keys : j # k => counted'[j] = counted[j]
<1>1. /\ events' = [events EXCEPT ![k] = Append(Pruned(k), 0)]
      /\ counted' = [counted EXCEPT ![k] = Append(counted[k], 0)]
      /\ told' = [told EXCEPT ![k] = NotTold]
      /\ DOMAIN events = Keys /\ DOMAIN counted = Keys /\ DOMAIN told = Keys
      /\ \A j \in Keys : EventsInOrder(j) /\ ToldEnough(j)
  BY DEF Count, KeysHold
<1>2. Budget' = Budget
  BY DEF Budget
<1>3. EventsInOrder(k)' /\ Len(counted'[k]) = Len(counted[k]) + 1
  BY <1>1, CountKeeps
<1>4. ToldEnough(k)'
  BY <1>1, ThrottleBounds DEF ToldEnough, NotTold
<1>5. ASSUME NEW j \in Keys, j # k
      PROVE  EventsInOrder(j)' /\ ToldEnough(j)'
  <2>1. /\ EventsInOrder(j) /\ ToldEnough(j) /\ told'[j] = told[j]
        /\ counted'[j] = counted[j] /\ events'[j] = events[j]
    BY <1>1, <1>5
  <2> QED
    BY <1>2, <2>1 DEF ToldEnough, NotTold, EventsInOrder, Pruned
<1> QED
  BY <1>1, <1>3, <1>4, <1>5 DEF KeysHold

LEMMA ResettingKeeps ==
  ASSUME KeysHold, NEW k \in Keys, UNCHANGED use,
         events' = [events EXCEPT ![k] = << >>], counted' = [counted EXCEPT ![k] = << >>],
         told' = [told EXCEPT ![k] = NotTold]
  PROVE  /\ KeysHold' /\ Len(counted'[k]) = 0
         /\ \A j \in Keys : j # k => counted'[j] = counted[j]
<1>1. /\ DOMAIN events = Keys /\ DOMAIN counted = Keys /\ DOMAIN told = Keys
      /\ \A j \in Keys : EventsInOrder(j) /\ ToldEnough(j)
  BY DEF KeysHold
<1>2. Budget' = Budget
  BY DEF Budget
<1>3. EventsInOrder(k)' /\ Len(counted'[k]) = 0
  BY <1>1, ResetKeeps
<1>4. ToldEnough(k)'
  BY <1>1, ThrottleBounds DEF ToldEnough, NotTold
<1>5. ASSUME NEW j \in Keys, j # k
      PROVE  EventsInOrder(j)' /\ ToldEnough(j)'
  <2>1. /\ EventsInOrder(j) /\ ToldEnough(j) /\ told'[j] = told[j]
        /\ counted'[j] = counted[j] /\ events'[j] = events[j]
    BY <1>1, <1>5
  <2> QED
    BY <1>2, <2>1 DEF ToldEnough, NotTold, EventsInOrder, Pruned
<1> QED
  BY <1>1, <1>3, <1>4, <1>5 DEF KeysHold

\* A key is pruned, or all are, and nothing else is done.
LEMMA KeysArePruned ==
  ASSUME KeysHold, UNCHANGED <<use, counted, told>>, DOMAIN events' = Keys,
         \A k \in Keys : events'[k] \in {events[k], Pruned(k)}
  PROVE  KeysHold'
<1>1. /\ DOMAIN counted = Keys /\ DOMAIN told = Keys
      /\ \A j \in Keys : EventsInOrder(j) /\ ToldEnough(j)
  BY DEF KeysHold
<1>2. Budget' = Budget
  BY DEF Budget
<1>3. ASSUME NEW j \in Keys
      PROVE  EventsInOrder(j)' /\ ToldEnough(j)'
  <2>1. EventsInOrder(j)'
    <3>1. CASE events'[j] = Pruned(j)
      BY <1>1, <3>1, PruningKeeps
    <3>2. CASE events'[j] = events[j]
      BY <1>1, <3>2 DEF EventsInOrder, Pruned
    <3> QED
      BY <3>1, <3>2
  <2>2. ToldEnough(j) /\ told'[j] = told[j] /\ counted'[j] = counted[j]
    BY <1>1
  <2> QED
    BY <1>2, <2>1, <2>2 DEF ToldEnough, NotTold
<1> QED
  BY <1>1, <1>3 DEF KeysHold

LEMMA TickKeepsKeys ==
  ASSUME KeysHold, Tick, \A k \in Keys : Len(counted[k]) <= Budget, Budget \in Nat
  PROVE  KeysHold' /\ \A k \in Keys : Len(counted'[k]) <= Len(counted[k])
<1>1. /\ events' = [k \in Keys |-> Older(events[k])]
      /\ counted' = [k \in Keys |-> WithinWindow(Older(counted[k]))]
      /\ told' = [k \in Keys |-> IF told[k] \in {0, NotTold} THEN told[k] ELSE told[k] - 1]
      /\ \A j \in Keys : EventsInOrder(j) /\ ToldEnough(j)
  BY DEF Tick, KeysHold
<1>2. Budget' = Budget
  BY DEF Tick, Budget
<1>3. ASSUME NEW k \in Keys
      PROVE  EventsInOrder(k)' /\ ToldEnough(k)' /\ Len(counted'[k]) <= Len(counted[k])
  <2> DEFINE c == counted[k]
             d == counted'[k]
  <2>1. /\ EventsInOrder(k)' /\ Len(d) <= Len(c)
        /\ c # << >> /\ Len(d) = Len(c) => d[1] = c[1] + 1
    BY <1>1, TickKeeps
  <2>2. c \in Seq(0..Window) /\ Len(c) \in Nat /\ Window \in Nat
    BY <1>1, CountedAreRecent, ThrottleBounds
  <2>3. d \in Seq(Ages) /\ Len(d) \in Nat
    <3>1. EventsInOrder(k)'
      BY <2>1
    <3> QED
      BY <3>1, PrunedAreAges DEF EventsInOrder, Pruned
  <2> DEFINE n == told[k]
             m == told'[k]
  <2>4. /\ n \in 0..NotTold /\ NotTold \in Nat
        /\ n # NotTold => Len(c) < Budget \/ (c # << >> /\ c[1] + n > Window)
        /\ m = IF n \in {0, NotTold} THEN n ELSE n - 1
    BY <1>1, ThrottleBounds DEF ToldEnough, NotTold
  <2>5. Len(c) <= Budget
    OBVIOUS
  <2>6. c # << >> => c[1] \in 0..Window /\ Len(c) > 0
    BY <2>2
  <2> HIDE DEF c, d, n, m
  <2>7. m \in 0..NotTold
    BY <2>4
  <2>8. ASSUME m # NotTold
        PROVE  Len(d) < Budget \/ (d # << >> /\ d[1] + m > Window)
    <3>1. n # NotTold
      BY <2>4, <2>8
    <3>2. CASE Len(d) < Len(c)
      BY <2>2, <2>3, <2>5, <3>2
    <3>3. CASE Len(d) = Len(c)
      <4>1. CASE Len(c) < Budget
        BY <3>3, <4>1
      <4>2. CASE c # << >> /\ c[1] + n > Window
        <5>1. n # 0 /\ m = n - 1
          BY <2>2, <2>4, <2>6, <3>1, <4>2
        <5>2. d[1] = c[1] + 1 /\ d # << >>
          BY <2>1, <2>2, <2>6, <3>3, <4>2
        <5> QED
          BY <2>2, <2>4, <2>6, <4>2, <5>1, <5>2
      <4> QED
        BY <2>4, <3>1, <4>1, <4>2
    <3> QED
      BY <2>1, <2>2, <2>3, <3>2, <3>3
  <2>9. ToldEnough(k)'
    BY <1>2, <2>7, <2>8 DEF ToldEnough, NotTold, m, d
  <2> QED
    BY <2>1, <2>9 DEF c, d
<1> QED
  BY <1>1, <1>3 DEF KeysHold

\* What a thread may be at.
Caller(at, name, left) == [at |-> at, keys |-> <<name, Address>>, left |-> left]

IsAt(c, name) ==
  \/ c = Caller("check", name, <<name, Address>>)
  \/ c = Caller("check", name, <<Address>>)
  \/ c = Caller("verify", name, << >>)
  \/ \E at \in {"record", "reset"} :
       \/ c = Caller(at, name, <<name, Address>>)
       \/ c = Caller(at, name, <<Address>>)
       \/ c = Caller(at, name, << >>)

IsCaller(c) == c = Free \/ \E name \in Names : IsAt(c, name)

\* The check of a key is passed, and its failure not yet recorded.
MayCount(c, k) ==
  \/ c.at = "check" /\ c.left = <<Address>> /\ k = c.keys[1]
  \/ c.at = "verify" /\ (k = c.keys[1] \/ k = Address)
  \/ c.at = "record" /\ \E i \in DOMAIN c.left : c.left[i] = k

PassedCheck(k) == {t \in Threads : MayCount(caller[t], k)}

\* Of a search's key no more counts than the limit; of a login's, every thread that has passed
\* the check may still count.
WithinBudget ==
  IF use = "login"
  THEN \A k \in Keys : Len(counted[k]) + Cardinality(PassedCheck(k)) <= Budget
  ELSE /\ \A k \in Keys : Len(counted[k]) <= Budget
       /\ \A t \in Threads : caller[t] = Free

ThrottleInv ==
  /\ use \in {"search", "login", "none"}
  /\ DOMAIN caller = Threads /\ \A t \in Threads : IsCaller(caller[t])
  /\ KeysHold /\ WithinBudget

LEMMA AdmittedIsFinite ==
  ASSUME NEW A, A \subseteq Threads
  PROVE  IsFiniteSet(A) /\ Cardinality(A) \in Nat /\ Cardinality(A) <= Cardinality(Threads)
         /\ Cardinality(Threads) \in Nat
  BY FS_Subset, FS_CardinalityType, ThrottleBounds

LEMMA BudgetIs ==
  ASSUME ThrottleInv
  PROVE  /\ Budget \in Nat
         /\ \A k \in Keys : Len(counted[k]) \in Nat /\ Len(counted[k]) <= Budget
<1>1. Cardinality(Threads) \in Nat /\ MaxAttempts \in Nat \ {0}
  BY AdmittedIsFinite, ThrottleBounds
<1>2. Budget \in Nat
  BY <1>1 DEF Budget
<1>3. ASSUME NEW k \in Keys
      PROVE  Len(counted[k]) \in Nat /\ Len(counted[k]) <= Budget
  <2>1. Len(counted[k]) \in Nat
    BY CountedAreRecent DEF ThrottleInv, KeysHold
  <2>2. Cardinality(PassedCheck(k)) \in Nat
    BY AdmittedIsFinite DEF PassedCheck
  <2>3. CASE use = "login"
    <3>1. Len(counted[k]) + Cardinality(PassedCheck(k)) <= Budget
      BY <2>3 DEF ThrottleInv, WithinBudget
    <3> QED
      BY <1>2, <2>1, <2>2, <3>1
  <2>4. CASE use # "login"
    BY <2>1, <2>4 DEF ThrottleInv, WithinBudget
  <2> QED
    BY <2>3, <2>4
<1> QED
  BY <1>2, <1>3

\* A free thread may count nothing.
LEMMA FreeCountsNothing == \A k : ~MayCount(Free, k)
  BY DEF MayCount, Free

\* One thread moves: no key has more that counts and it may not count more, or there is room
\* for every thread, or it has counted what it might.
LEMMA ThreadMoves ==
  ASSUME ThrottleInv, KeysHold', use = "login", use' = use, NEW t \in Threads,
         NEW c, IsCaller(c), caller' = [caller EXCEPT ![t] = c],
         \A k \in Keys :
           \/ /\ Len(counted'[k]) <= Len(counted[k])
              /\ MayCount(c, k) => MayCount(caller[t], k)
           \/ Len(counted'[k]) < MaxAttempts
           \/ /\ Len(counted'[k]) = Len(counted[k]) + 1
              /\ MayCount(caller[t], k) /\ ~MayCount(c, k)
  PROVE  ThrottleInv'
<1>1. /\ DOMAIN caller' = Threads /\ caller'[t] = c
      /\ \A u \in Threads : u # t => caller'[u] = caller[u]
  BY DEF ThrottleInv
<1>2. \A u \in Threads : IsCaller(caller'[u])
  BY <1>1 DEF ThrottleInv
<1>3. ASSUME NEW k \in Keys
      PROVE  Len(counted'[k]) + Cardinality(PassedCheck(k)') <= Budget'
  <2> DEFINE A == PassedCheck(k)
             B == PassedCheck(k)'
             m == Len(counted[k])
             n == Len(counted'[k])
  <2>1. A \subseteq Threads /\ B \subseteq Threads /\ B \ {t} \subseteq A
    BY <1>1 DEF PassedCheck
  <2>2. /\ IsFiniteSet(A) /\ Cardinality(A) \in Nat /\ IsFiniteSet(B) /\ Cardinality(B) \in Nat
        /\ Cardinality(B) <= Cardinality(Threads) /\ Cardinality(Threads) \in Nat
    BY <2>1, AdmittedIsFinite
  <2>3. /\ m + Cardinality(A) <= Budget /\ m \in Nat /\ Budget \in Nat
        /\ Budget = MaxAttempts - 1 + Cardinality(Threads) /\ MaxAttempts \in Nat \ {0}
    BY BudgetIs, ThrottleBounds DEF ThrottleInv, WithinBudget, Budget
  <2>4. n \in Nat /\ Budget' = Budget
    <3>1. EventsInOrder(k)'
      BY DEF KeysHold
    <3> QED
      BY <3>1, PrunedAreAges DEF EventsInOrder, Pruned, Budget
  <2>5. CASE n <= m /\ (MayCount(c, k) => MayCount(caller[t], k))
    <3>1. B \subseteq A
      BY <1>1, <2>5 DEF PassedCheck
    <3> HIDE DEF A, B
    <3>2. Cardinality(B) <= Cardinality(A)
      BY <2>2, <3>1, FS_Subset
    <3> HIDE DEF m, n
    <3> QED
      BY <2>2, <2>3, <2>4, <2>5, <3>2 DEF B, n
  <2>6. CASE n < MaxAttempts
    <3> HIDE DEF m, n, B
    <3> QED
      BY <2>2, <2>3, <2>4, <2>6 DEF B, n
  <2>7. CASE n = m + 1 /\ MayCount(caller[t], k) /\ ~MayCount(c, k)
    <3>1. B \subseteq A \ {t} /\ t \in A
      BY <1>1, <2>7 DEF PassedCheck
    <3> HIDE DEF A, B
    <3>2. IsFiniteSet(A \ {t}) /\ Cardinality(A \ {t}) = Cardinality(A) - 1
      BY <2>2, <3>1, FS_RemoveElement
    <3>3. Cardinality(B) <= Cardinality(A \ {t})
      BY <3>1, <3>2, FS_Subset
    <3> HIDE DEF m, n
    <3> QED
      BY <2>2, <2>3, <2>4, <2>7, <3>2, <3>3 DEF B, n
  <2> QED
    BY <2>5, <2>6, <2>7
<1> QED
  BY <1>1, <1>2, <1>3 DEF ThrottleInv, WithinBudget

LEMMA ThrottleStarts == ThrottleInit => ThrottleInv
<1> SUFFICES ASSUME ThrottleInit PROVE ThrottleInv
  OBVIOUS
<1>1. /\ use \in {"search", "login", "none"} /\ events = [k \in Keys |-> << >>]
      /\ counted = [k \in Keys |-> << >>] /\ caller = [t \in Threads |-> Free]
      /\ told = [k \in Keys |-> NotTold]
  BY DEF ThrottleInit
<1>2. NotTold \in Nat /\ Budget \in Nat
  BY ThrottleBounds, AdmittedIsFinite DEF NotTold, Budget
<1>3. << >> \in Seq(0..Window) /\ OldestFirst(<< >>) /\ Len(<< >>) = 0
  BY DEF OldestFirst
<1>4. << >> \in Seq(Ages) /\ SubSeq(<< >>, Gone(<< >>) + 1, Len(<< >>)) = << >>
  BY <1>3, NoneGone
<1>5. ASSUME NEW k \in Keys
      PROVE  EventsInOrder(k) /\ ToldEnough(k)
  <2>1. events[k] = << >> /\ counted[k] = << >> /\ told[k] = NotTold
    BY <1>1
  <2>2. EventsInOrder(k)
    BY <1>3, <1>4, <2>1 DEF EventsInOrder, Pruned
  <2>3. ToldEnough(k)
    BY <1>2, <2>1 DEF ToldEnough
  <2> QED
    BY <2>2, <2>3
<1>6. KeysHold
  BY <1>1, <1>5 DEF KeysHold
<1>7. ASSUME NEW k \in Keys
      PROVE  PassedCheck(k) = {} /\ Len(counted[k]) = 0
  BY <1>1, <1>3, FreeCountsNothing DEF PassedCheck
<1>8. WithinBudget
  <2>1. Cardinality({}) = 0
    BY FS_EmptySet
  <2>2. \A k \in Keys : /\ Len(counted[k]) <= Budget
                        /\ Len(counted[k]) + Cardinality(PassedCheck(k)) <= Budget
    <3> SUFFICES ASSUME NEW k \in Keys
                 PROVE  /\ Len(counted[k]) <= Budget
                        /\ Len(counted[k]) + Cardinality(PassedCheck(k)) <= Budget
      OBVIOUS
    <3>1. Cardinality(PassedCheck(k)) = 0
      BY <1>7, <2>1
    <3>2. Len(counted[k]) = 0
      BY <1>7
    <3> QED
      BY <1>2, <3>1, <3>2
  <2>3. \A t \in Threads : caller[t] = Free
    BY <1>1
  <2> QED
    BY <2>2, <2>3 DEF WithinBudget
<1> QED
  BY <1>1, <1>6, <1>8 DEF ThrottleInv, IsCaller

\* What the callers do.
LEMMA UntouchedKeys ==
  ASSUME KeysHold, UNCHANGED <<use, events, counted, told>>
  PROVE  KeysHold'
  BY DEF KeysHold, EventsInOrder, Pruned, ToldEnough, NotTold, Budget

\* The keys of a login, gone through one after the other.
LEMMA KeysOfLogin ==
  ASSUME NEW name
  PROVE  /\ Head(<<name, Address>>) = name /\ Tail(<<name, Address>>) = <<Address>>
         /\ Head(<<Address>>) = Address /\ Tail(<<Address>>) = << >>
         /\ <<Address>> # << >> /\ <<name, Address>> # << >> /\ <<name, Address>> # <<Address>>
  OBVIOUS

\* What a caller may still count, wherever he is.
LEMMA MayCountIs ==
  ASSUME NEW name, NEW k
  PROVE  /\ ~MayCount(Caller("check", name, <<name, Address>>), k)
         /\ MayCount(Caller("check", name, <<Address>>), k) <=> k = name
         /\ MayCount(Caller("verify", name, << >>), k) <=> k \in {name, Address}
         /\ MayCount(Caller("record", name, <<name, Address>>), k) <=> k \in {name, Address}
         /\ MayCount(Caller("record", name, <<Address>>), k) <=> k = Address
         /\ ~MayCount(Caller("record", name, << >>), k)
         /\ \A left : ~MayCount(Caller("reset", name, left), k)
<1>1. \A at, left : /\ Caller(at, name, left).at = at /\ Caller(at, name, left).left = left
                    /\ Caller(at, name, left).keys[1] = name
  BY DEF Caller
<1>2. <<name, Address>> # <<Address>>
  BY KeysOfLogin
<1>3. /\ \E i \in DOMAIN <<name, Address>> : <<name, Address>>[i] = name
      /\ \E i \in DOMAIN <<name, Address>> : <<name, Address>>[i] = Address
      /\ \A i \in DOMAIN <<name, Address>> : <<name, Address>>[i] \in {name, Address}
  <2>1. 1 \in DOMAIN <<name, Address>> /\ 2 \in DOMAIN <<name, Address>>
    OBVIOUS
  <2>2. <<name, Address>>[1] = name /\ <<name, Address>>[2] = Address
    OBVIOUS
  <2>3. DOMAIN <<name, Address>> = {1, 2}
    OBVIOUS
  <2> QED
    BY <2>1, <2>2, <2>3
<1>4. /\ \E i \in DOMAIN <<Address>> : <<Address>>[i] = Address
      /\ \A i \in DOMAIN <<Address>> : <<Address>>[i] = Address
      /\ DOMAIN << >> = {}
  OBVIOUS
<1> HIDE DEF Caller
<1> QED
  BY <1>1, <1>2, <1>3, <1>4 DEF MayCount

\* A caller goes on to the next step.
LEMMA CallerMoves ==
  ASSUME NEW t \in Threads, DOMAIN caller = Threads,
         NEW name, NEW at, NEW left, caller[t] = Caller(at, name, left),
         NEW then, NEW rest, Moves(t, then, rest)
  PROVE  caller' = [caller EXCEPT ![t] = Caller(then, name, rest)] /\ use' = use
<1> DEFINE c == Caller(at, name, left)
           d == [[c EXCEPT !.at = then] EXCEPT !.left = rest]
<1>1. d = Caller(then, name, rest)
  <2>1. [c EXCEPT !.at = then] = Caller(then, name, left)
    BY DEF Caller
  <2>2. [Caller(then, name, left) EXCEPT !.left = rest] = Caller(then, name, rest)
    BY DEF Caller
  <2> QED
    BY <2>1, <2>2
<1>2. caller' = [caller EXCEPT ![t] = d] /\ use' = use
  <2> HIDE DEF c
  <2> QED
    BY DEF Moves, c
<1> QED
  BY <1>1, <1>2

\* A thread that is not free is in a login, at one of its steps.
LEMMA CallerIsAt ==
  ASSUME ThrottleInv, NEW t \in Threads, NEW at, caller[t].at = at, at # "idle"
  PROVE  /\ use = "login" /\ DOMAIN caller = Threads
         /\ \E name \in Names : IsAt(caller[t], name)
         /\ \A other, name, left : other # at => caller[t] # Caller(other, name, left)
<1>1. caller[t] # Free
  BY DEF Free
<1>2. use = "login"
  BY <1>1 DEF ThrottleInv, WithinBudget
<1>3. \A other, name, left : Caller(other, name, left).at = other
  BY DEF Caller
<1> QED
  BY <1>1, <1>2, <1>3 DEF ThrottleInv, IsCaller

LEMMA AsksKeeps ==
  ASSUME ThrottleInv, NEW t \in Threads, NEW name \in Names, Asks(t, name)
  PROVE  ThrottleInv'
<1> DEFINE c == Caller("check", name, <<name, Address>>)
<1>1. /\ use = "login" /\ caller' = [caller EXCEPT ![t] = c]
      /\ UNCHANGED <<use, events, counted, told>>
  BY DEF Asks, Caller
<1>2. IsCaller(c)
  BY DEF IsCaller, IsAt
<1>3. \A k : ~MayCount(c, k)
  BY MayCountIs
<1>4. KeysHold'
  BY <1>1, UntouchedKeys DEF ThrottleInv
<1> HIDE DEF c
<1>5. \A k \in Keys : Len(counted'[k]) <= Len(counted[k])
  BY <1>1, BudgetIs
<1> QED
  BY <1>1, <1>2, <1>3, <1>4, <1>5, ThreadMoves

\* A check that lets pass leaves room for every thread.
LEMMA PassedKeeps ==
  ASSUME ThrottleInv, NEW t \in Threads, use = "login", use' = use, NEW k \in Keys, ~IsFull(k),
         events' = [events EXCEPT ![k] = Pruned(k)], UNCHANGED <<counted, told>>,
         NEW c, IsCaller(c), caller' = [caller EXCEPT ![t] = c],
         \A j \in Keys : MayCount(c, j) => j = k \/ MayCount(caller[t], j)
  PROVE  ThrottleInv'
<1>1. KeysHold'
  <2>1. KeysHold /\ DOMAIN events = Keys
    BY DEF ThrottleInv, KeysHold
  <2>2. DOMAIN events' = Keys /\ \A j \in Keys : events'[j] \in {events[j], Pruned(j)}
    BY <2>1
  <2> QED
    BY <2>1, <2>2, KeysArePruned
<1>2. Len(counted'[k]) < MaxAttempts
  <2>1. counted[k] = Pruned(k)
    BY DEF ThrottleInv, KeysHold, EventsInOrder
  <2>2. Len(counted[k]) \in Nat /\ MaxAttempts \in Nat
    BY BudgetIs, ThrottleBounds
  <2> QED
    BY <2>1, <2>2 DEF IsFull
<1>3. \A j \in Keys : Len(counted'[j]) <= Len(counted[j])
  BY BudgetIs
<1>4. \A j \in Keys : \/ /\ Len(counted'[j]) <= Len(counted[j])
                         /\ MayCount(c, j) => MayCount(caller[t], j)
                      \/ Len(counted'[j]) < MaxAttempts
  BY <1>2, <1>3
<1> QED
  BY <1>1, <1>4, ThreadMoves

LEMMA ChecksKeeps ==
  ASSUME ThrottleInv, NEW t \in Threads, Checks(t)
  PROVE  ThrottleInv'
<1>1. caller[t].at = "check"
  BY DEF Checks
<1>2. PICK name \in Names : IsAt(caller[t], name)
  BY <1>1, CallerIsAt
<1>3. PICK left \in {<<name, Address>>, <<Address>>} : caller[t] = Caller("check", name, left)
  BY <1>1, <1>2, CallerIsAt DEF IsAt
<1>4. use = "login" /\ DOMAIN caller = Threads /\ caller[t].left = left
  BY <1>1, <1>3, CallerIsAt DEF Caller
<1>5. PICK k : k = Head(left)
  OBVIOUS
<1>6. k \in Keys
  BY <1>3, <1>5, KeysOfLogin DEF Keys
<1>7. CASE IsFull(k)
  <2>1. Refuse(k) /\ caller' = [caller EXCEPT ![t] = Free] /\ UNCHANGED use
    BY <1>4, <1>5, <1>7 DEF Checks
  <2>2. KeysHold' /\ UNCHANGED counted
    BY <1>6, <1>7, <2>1, RefuseKeeps DEF ThrottleInv
  <2>3. \A j \in Keys : /\ Len(counted'[j]) <= Len(counted[j])
                        /\ MayCount(Free, j) => MayCount(caller[t], j)
    BY <2>2, BudgetIs, FreeCountsNothing
  <2>4. IsCaller(Free)
    BY DEF IsCaller
  <2> QED
    BY <1>4, <2>1, <2>2, <2>3, <2>4, ThreadMoves
<1>8. CASE ~IsFull(k)
  <2>1. /\ events' = [events EXCEPT ![k] = Pruned(k)] /\ UNCHANGED <<use, counted, told>>
        /\ Moves(t, IF Tail(left) = << >> THEN "verify" ELSE "check", Tail(left))
    BY <1>4, <1>5, <1>8 DEF Checks, Moves
  <2>2. CASE left = <<name, Address>>
    <3>1. Moves(t, "check", <<Address>>) /\ k = name
      BY <1>5, <2>1, <2>2, KeysOfLogin
    <3>2. caller' = [caller EXCEPT ![t] = Caller("check", name, <<Address>>)]
      BY <1>3, <1>4, <3>1, CallerMoves
    <3>3. IsCaller(Caller("check", name, <<Address>>))
      BY DEF IsCaller, IsAt
    <3>4. \A j \in Keys : MayCount(Caller("check", name, <<Address>>), j) => j = k
      BY <3>1, MayCountIs
    <3> QED
      BY <1>4, <1>6, <1>8, <2>1, <3>2, <3>3, <3>4, PassedKeeps
  <2>3. CASE left = <<Address>>
    <3>1. Moves(t, "verify", << >>) /\ k = Address
      BY <1>5, <2>1, <2>3, KeysOfLogin
    <3>2. caller' = [caller EXCEPT ![t] = Caller("verify", name, << >>)]
      BY <1>3, <1>4, <3>1, CallerMoves
    <3>3. IsCaller(Caller("verify", name, << >>))
      BY DEF IsCaller, IsAt
    <3>4. \A j \in Keys : MayCount(Caller("verify", name, << >>), j)
                            => j = k \/ MayCount(caller[t], j)
      <4>1. caller[t] = Caller("check", name, <<Address>>)
        BY <1>3, <2>3
      <4>2. MayCount(caller[t], name)
        <5>1. MayCount(Caller("check", name, <<Address>>), name)
          BY MayCountIs
        <5> QED
          BY <4>1, <5>1
      <4> QED
        BY <3>1, <4>2, MayCountIs
    <3> QED
      BY <1>4, <1>6, <1>8, <2>1, <3>2, <3>3, <3>4, PassedKeeps
  <2> QED
    BY <1>3, <2>2, <2>3
<1> QED
  BY <1>7, <1>8

LEMMA VerifiesKeeps ==
  ASSUME ThrottleInv, NEW t \in Threads, Verifies(t)
  PROVE  ThrottleInv'
<1>1. caller[t].at = "verify" /\ UNCHANGED <<use, events, counted, told>>
  BY DEF Verifies, Moves
<1>2. PICK name \in Names : IsAt(caller[t], name)
  BY <1>1, CallerIsAt
<1>3. caller[t] = Caller("verify", name, << >>)
  BY <1>1, <1>2, CallerIsAt DEF IsAt
<1>4. use = "login" /\ DOMAIN caller = Threads /\ caller[t].keys = <<name, Address>>
  BY <1>1, <1>3, CallerIsAt DEF Caller
<1>5. PICK outcome \in {"record", "reset"} : Moves(t, outcome, <<name, Address>>)
  BY <1>4 DEF Verifies
<1> DEFINE c == Caller(outcome, name, <<name, Address>>)
<1>6. caller' = [caller EXCEPT ![t] = c]
  BY <1>3, <1>4, <1>5, CallerMoves
<1>7. IsCaller(c)
  BY DEF IsCaller, IsAt
<1>8. \A k \in Keys : MayCount(c, k) => MayCount(caller[t], k)
  BY <1>3, MayCountIs
<1>9. KeysHold'
  BY <1>1, UntouchedKeys DEF ThrottleInv
<1> HIDE DEF c
<1>10. \A k \in Keys : Len(counted'[k]) <= Len(counted[k])
  BY <1>1, BudgetIs
<1> QED
  BY <1>1, <1>4, <1>6, <1>7, <1>8, <1>9, <1>10, ThreadMoves

LEMMA RecordsKeeps ==
  ASSUME ThrottleInv, NEW t \in Threads, Records(t)
  PROVE  ThrottleInv'
<1>1. caller[t].at = "record" /\ caller[t].left # << >>
  BY DEF Records
<1>2. PICK name \in Names : IsAt(caller[t], name)
  BY <1>1, CallerIsAt
<1>3. PICK left \in {<<name, Address>>, <<Address>>} : caller[t] = Caller("record", name, left)
  BY <1>1, <1>2, CallerIsAt DEF IsAt, Caller
<1>4. use = "login" /\ DOMAIN caller = Threads /\ caller[t].left = left
  BY <1>1, <1>3, CallerIsAt DEF Caller
<1>5. PICK k, rest : k = Head(left) /\ rest = Tail(left)
  OBVIOUS
<1> DEFINE c == Caller("record", name, rest)
<1>6. caller' = [caller EXCEPT ![t] = c] /\ Count(k) /\ UNCHANGED use
  BY <1>3, <1>4, <1>5, CallerMoves DEF Records
<1>7. /\ k \in Keys /\ IsCaller(c) /\ MayCount(caller[t], k) /\ ~MayCount(c, k)
      /\ \A j \in Keys : MayCount(c, j) => MayCount(caller[t], j)
  <2>1. Address # name
    BY ThrottleBounds
  <2>2. CASE left = <<name, Address>>
    <3>1. k = name /\ rest = <<Address>>
      BY <1>5, <2>2, KeysOfLogin
    <3>2. IsCaller(c) /\ k \in Keys
      BY <3>1 DEF IsCaller, IsAt, Keys
    <3>3. \A j : /\ MayCount(caller[t], j) <=> j \in {name, Address}
                 /\ MayCount(c, j) <=> j = Address
      BY <1>3, <2>2, <3>1, MayCountIs
    <3> QED
      BY <2>1, <3>1, <3>2, <3>3
  <2>3. CASE left = <<Address>>
    <3>1. k = Address /\ rest = << >>
      BY <1>5, <2>3, KeysOfLogin
    <3>2. IsCaller(c) /\ k \in Keys
      BY <3>1 DEF IsCaller, IsAt, Keys
    <3>3. caller[t] = Caller("record", name, <<Address>>)
      BY <1>3, <2>3
    <3>4. \A j : ~MayCount(c, j) /\ (MayCount(caller[t], j) <=> j = Address)
      <4> SUFFICES ASSUME NEW j
                   PROVE  ~MayCount(c, j) /\ (MayCount(caller[t], j) <=> j = Address)
        OBVIOUS
      <4>1. MayCount(Caller("record", name, <<Address>>), j) <=> j = Address
        BY MayCountIs
      <4>2. ~MayCount(Caller("record", name, << >>), j)
        BY MayCountIs
      <4> QED
        BY <3>1, <3>3, <4>1, <4>2
    <3> QED
      BY <3>1, <3>2, <3>4
  <2> QED
    BY <1>3, <2>2, <2>3
<1> HIDE DEF c
<1>8. /\ KeysHold' /\ Len(counted'[k]) = Len(counted[k]) + 1
      /\ \A j \in Keys : j # k => counted'[j] = counted[j]
  BY <1>6, <1>7, CountingKeeps DEF ThrottleInv
<1>9. \A j \in Keys : j # k => Len(counted'[j]) <= Len(counted[j])
  BY <1>8, BudgetIs
<1>10. \A j \in Keys : \/ /\ Len(counted'[j]) <= Len(counted[j])
                          /\ MayCount(c, j) => MayCount(caller[t], j)
                       \/ /\ Len(counted'[j]) = Len(counted[j]) + 1
                          /\ MayCount(caller[t], j) /\ ~MayCount(c, j)
  BY <1>7, <1>8, <1>9
<1> QED
  BY <1>4, <1>6, <1>7, <1>8, <1>10, ThreadMoves

LEMMA ResetsKeeps ==
  ASSUME ThrottleInv, NEW t \in Threads, Resets(t)
  PROVE  ThrottleInv'
<1>1. caller[t].at = "reset" /\ caller[t].left # << >>
  BY DEF Resets
<1>2. PICK name \in Names : IsAt(caller[t], name)
  BY <1>1, CallerIsAt
<1>3. PICK left \in {<<name, Address>>, <<Address>>} : caller[t] = Caller("reset", name, left)
  BY <1>1, <1>2, CallerIsAt DEF IsAt, Caller
<1>4. use = "login" /\ DOMAIN caller = Threads /\ caller[t].left = left
  BY <1>1, <1>3, CallerIsAt DEF Caller
<1>5. PICK k, rest : k = Head(left) /\ rest = Tail(left)
  OBVIOUS
<1> DEFINE c == Caller("reset", name, rest)
<1>6. /\ caller' = [caller EXCEPT ![t] = c] /\ UNCHANGED use
      /\ events' = [events EXCEPT ![k] = << >>] /\ counted' = [counted EXCEPT ![k] = << >>]
      /\ told' = [told EXCEPT ![k] = NotTold]
  <2>1. Moves(t, "reset", rest)
    BY <1>4, <1>5 DEF Resets
  <2>2. caller' = [caller EXCEPT ![t] = c] /\ UNCHANGED use
    BY <1>3, <1>4, <2>1, CallerMoves
  <2> QED
    BY <1>4, <1>5, <2>2 DEF Resets
<1>7. k \in Keys /\ rest \in {<<Address>>, << >>}
  BY <1>3, <1>5, KeysOfLogin DEF Keys
<1>8. IsCaller(c) /\ \A j \in Keys : ~MayCount(c, j)
  BY <1>7, MayCountIs DEF IsCaller, IsAt
<1> HIDE DEF c
<1>9. /\ KeysHold' /\ Len(counted'[k]) = 0
      /\ \A j \in Keys : j # k => counted'[j] = counted[j]
  BY <1>6, <1>7, ResettingKeeps DEF ThrottleInv
<1>10. \A j \in Keys : Len(counted'[j]) <= Len(counted[j])
  BY <1>9, BudgetIs
<1> QED
  BY <1>4, <1>6, <1>8, <1>9, <1>10, ThreadMoves

LEMMA ReturnsKeeps ==
  ASSUME ThrottleInv, NEW t \in Threads, Returns(t)
  PROVE  ThrottleInv'
<1>1. /\ caller[t].at \in {"record", "reset"} /\ caller' = [caller EXCEPT ![t] = Free]
      /\ UNCHANGED <<use, events, counted, told>>
  BY DEF Returns
<1>2. use = "login"
  BY <1>1, CallerIsAt
<1>3. KeysHold' /\ IsCaller(Free)
  BY <1>1, UntouchedKeys DEF ThrottleInv, IsCaller
<1>4. \A k \in Keys : /\ Len(counted'[k]) <= Len(counted[k])
                      /\ MayCount(Free, k) => MayCount(caller[t], k)
  BY <1>1, BudgetIs, FreeCountsNothing
<1> QED
  BY <1>1, <1>2, <1>3, <1>4, ThreadMoves

\* Nobody moves, and no key has more that counts.
LEMMA NobodyMoves ==
  ASSUME ThrottleInv, KeysHold', UNCHANGED <<use, caller>>,
         \A k \in Keys : Len(counted'[k]) <= Len(counted[k])
  PROVE  ThrottleInv'
<1>1. Budget' = Budget /\ Budget \in Nat
  BY BudgetIs DEF Budget
<1>2. ASSUME NEW k \in Keys
      PROVE  /\ Len(counted'[k]) \in Nat /\ Len(counted[k]) \in Nat
             /\ PassedCheck(k)' = PassedCheck(k) /\ Cardinality(PassedCheck(k)) \in Nat
  <2>1. EventsInOrder(k)'
    BY DEF KeysHold
  <2>2. Len(counted'[k]) \in Nat
    BY <2>1, PrunedAreAges DEF EventsInOrder, Pruned
  <2>3. PassedCheck(k)' = PassedCheck(k)
    BY DEF PassedCheck
  <2> QED
    BY <2>2, <2>3, BudgetIs, AdmittedIsFinite DEF PassedCheck
<1>3. CASE use = "login"
  <2>1. ASSUME NEW k \in Keys
        PROVE  Len(counted'[k]) + Cardinality(PassedCheck(k)') <= Budget'
    <3>1. Len(counted[k]) + Cardinality(PassedCheck(k)) <= Budget
      BY <1>3 DEF ThrottleInv, WithinBudget
    <3> QED
      BY <1>1, <1>2, <3>1
  <2> QED
    BY <1>3, <2>1 DEF ThrottleInv, WithinBudget
<1>4. CASE use # "login"
  <2>1. ASSUME NEW k \in Keys
        PROVE  Len(counted'[k]) <= Budget'
    BY <1>1, <1>2, BudgetIs
  <2> QED
    BY <1>4, <2>1 DEF ThrottleInv, WithinBudget
<1> QED
  BY <1>3, <1>4

LEMMA SearchesKeeps ==
  ASSUME ThrottleInv, Searches
  PROVE  ThrottleInv'
<1>1. /\ use = "search" /\ UNCHANGED <<use, caller>>
      /\ IF IsFull(Address) THEN Refuse(Address) ELSE Count(Address)
  BY DEF Searches
<1>2. Address \in Keys /\ KeysHold
  BY DEF Keys, ThrottleInv
<1>3. CASE IsFull(Address)
  <2>1. KeysHold' /\ UNCHANGED counted
    BY <1>1, <1>2, <1>3, RefuseKeeps
  <2>2. \A k \in Keys : Len(counted'[k]) <= Len(counted[k])
    BY <2>1, BudgetIs
  <2> QED
    BY <1>1, <2>1, <2>2, NobodyMoves
<1>4. CASE ~IsFull(Address)
  <2>1. /\ KeysHold' /\ Len(counted'[Address]) = Len(counted[Address]) + 1
        /\ \A k \in Keys : k # Address => counted'[k] = counted[k]
    BY <1>1, <1>2, <1>4, CountingKeeps
  <2>2. Budget' = MaxAttempts /\ Budget = MaxAttempts /\ MaxAttempts \in Nat
    BY <1>1, ThrottleBounds DEF Budget
  <2>3. Len(counted[Address]) < MaxAttempts
    <3>1. counted[Address] = Pruned(Address)
      BY <1>2 DEF KeysHold, EventsInOrder
    <3>2. Len(counted[Address]) \in Nat
      BY <1>2, BudgetIs
    <3> QED
      BY <1>4, <2>2, <3>1, <3>2 DEF IsFull
  <2>4. Len(counted'[Address]) <= Budget'
    BY <1>2, <2>1, <2>2, <2>3, BudgetIs
  <2>5. \A k \in Keys : Len(counted'[k]) <= Budget'
    BY <2>1, <2>2, <2>4, BudgetIs
  <2> QED
    BY <1>1, <2>1, <2>5 DEF ThrottleInv, WithinBudget
<1> QED
  BY <1>3, <1>4

LEMMA SweepsKeeps ==
  ASSUME ThrottleInv, Sweeps
  PROVE  ThrottleInv'
<1>1. UNCHANGED <<use, caller, counted, told>> /\ events' = [k \in Keys |-> Pruned(k)]
  BY DEF Sweeps
<1>2. KeysHold'
  <2>1. DOMAIN events' = Keys /\ \A k \in Keys : events'[k] \in {events[k], Pruned(k)}
    BY <1>1
  <2> QED
    BY <1>1, <2>1, KeysArePruned DEF ThrottleInv
<1>3. \A k \in Keys : Len(counted'[k]) <= Len(counted[k])
  BY <1>1, BudgetIs
<1> QED
  BY <1>1, <1>2, <1>3, NobodyMoves

LEMMA TickKeepsInv ==
  ASSUME ThrottleInv, Tick
  PROVE  ThrottleInv'
<1>1. UNCHANGED <<use, caller>>
  BY DEF Tick
<1>2. Budget \in Nat /\ \A k \in Keys : Len(counted[k]) <= Budget
  BY BudgetIs
<1>3. KeysHold' /\ \A k \in Keys : Len(counted'[k]) <= Len(counted[k])
  BY <1>2, TickKeepsKeys DEF ThrottleInv
<1> QED
  BY <1>1, <1>3, NobodyMoves

LEMMA ThrottleNextKeeps == ThrottleInv /\ ThrottleNext => ThrottleInv'
<1> SUFFICES ASSUME ThrottleInv, ThrottleNext PROVE ThrottleInv'
  OBVIOUS
<1>1. CASE Searches
  BY <1>1, SearchesKeeps
<1>2. CASE Sweeps
  BY <1>2, SweepsKeeps
<1>3. CASE Tick
  BY <1>3, TickKeepsInv
<1>4. ASSUME NEW t \in Threads,
             \/ Checks(t) \/ Verifies(t) \/ Records(t) \/ Resets(t) \/ Returns(t)
             \/ \E name \in Names : Asks(t, name)
      PROVE  ThrottleInv'
  BY <1>4, ChecksKeeps, VerifiesKeeps, RecordsKeeps, ResetsKeeps, ReturnsKeeps, AsksKeeps
<1> QED
  BY <1>1, <1>2, <1>3, <1>4 DEF ThrottleNext

LEMMA ThrottleStutters ==
  ASSUME ThrottleInv, UNCHANGED throttleVars
  PROVE  ThrottleInv'
<1>1. UNCHANGED <<use, events, caller, counted, told>>
  BY DEF throttleVars
<1>2. KeysHold'
  BY <1>1, UntouchedKeys DEF ThrottleInv
<1>3. \A k \in Keys : Len(counted'[k]) <= Len(counted[k])
  BY <1>1, BudgetIs
<1> QED
  BY <1>1, <1>2, <1>3, NobodyMoves

\* What is counted is what is kept and not old, and leaves room for all who have passed the
\* check; what a refused caller was told lasts until the oldest is old.
THEOREM ThrottleInductive == SignInSpec => []ThrottleInv
<1>1. SignInInit => ThrottleInv
  BY ThrottleStarts DEF SignInInit
<1>2. ThrottleInv /\ [Limits \/ Admits]_signInVars => ThrottleInv'
  <2> SUFFICES ASSUME ThrottleInv, [Limits \/ Admits]_signInVars
               PROVE  ThrottleInv'
    OBVIOUS
  <2>1. ThrottleNext \/ UNCHANGED throttleVars
    BY DEF Limits, Admits, signInVars
  <2> QED
    BY <2>1, ThrottleNextKeeps, ThrottleStutters
<1> QED
  BY <1>1, <1>2, PTL DEF SignInSpec

LEMMA RoomWhenWaited == ThrottleInv => AttemptsAreThrottled
<1> SUFFICES ASSUME ThrottleInv, NEW k \in Keys
             PROVE  Len(counted[k]) <= Budget /\ (told[k] = 0 => Len(Pruned(k)) < Budget)
  BY DEF AttemptsAreThrottled
<1>1. EventsInOrder(k) /\ ToldEnough(k) /\ counted[k] = Pruned(k)
  BY DEF ThrottleInv, KeysHold, EventsInOrder
<1>2. Len(counted[k]) <= Budget
  BY BudgetIs
<1>3. ASSUME told[k] = 0
      PROVE  Len(counted[k]) < Budget
  <2>1. 0 # NotTold
    BY ThrottleBounds DEF NotTold
  <2>2. Len(counted[k]) < Budget \/ (counted[k] # << >> /\ counted[k][1] + 0 > Window)
    BY <1>1, <1>3, <2>1 DEF ToldEnough
  <2>3. counted[k] # << >> => counted[k][1] \in 0..Window
    <3> DEFINE c == counted[k]
    <3>1. c \in Seq(0..Window) /\ Len(c) \in Nat /\ Window \in Nat
      BY <1>1, CountedAreRecent, ThrottleBounds
    <3> HIDE DEF c
    <3> QED
      BY <3>1 DEF c
  <2> QED
    BY <2>2, <2>3, ThrottleBounds
<1> QED
  BY <1>1, <1>2, <1>3

\* rate_limiter.py, for any number of threads, names and attempts allowed: no window holds more
\* than the limit and the threads that had passed the check by then, and whoever has waited as
\* long as he was told finds a place.
THEOREM AttemptsStayThrottled == SignInSpec => []AttemptsAreThrottled
<1>1. ThrottleInv => AttemptsAreThrottled
  BY RoomWhenWaited
<1> QED
  BY <1>1, ThrottleInductive, PTL
=============================================================================
