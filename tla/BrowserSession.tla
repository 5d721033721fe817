---------------------------- MODULE BrowserSession ----------------------------
(***************************************************************************)
(* A signed-in browser: tabs of the dashboard that share one refresh       *)
(* cookie, each with its own access token and at most one refresh under    *)
(* way (frontend core/api/refresh-single-flight.ts, api-client.ts,         *)
(* core/auth/auth-context.tsx), against a server that gives every refresh  *)
(* token away once and takes a second use of it for theft.                 *)
(*                                                                         *)
(* Signing in and out are one step each.  Accounts has what the server     *)
(* does with overlapping requests; here it has one account.                *)
(***************************************************************************)
EXTENDS Naturals, FiniteSets

CONSTANTS
  Tabs,
  Requests, \* what a page asks for at a time
  Cookies,  \* refresh tokens; those nobody holds any more are used again
  NoCookie

ASSUME CookiesSuffice ==
  /\ NoCookie \notin Cookies /\ "boot" \notin Requests
  /\ Cardinality(Cookies) > 1 + 2 * Cardinality(Tabs)

VARIABLES
  jar,       \* the browser's refresh cookie
  live,      \* sessions of the server that can be refreshed
  access,    \* per tab, authTokenStore: "none", "good", or "stale"
  screen,    \* per tab, AuthStatus
  flight,    \* per tab, inFlight: [at, cookie, new]
  call,      \* per tab and caller of apiRequest or refreshAccessToken: [at, token]
  served,    \* history, per tab and request: the last one asked was answered
  replayed,  \* history: the server has taken a refresh token for stolen
  provoked,  \* history: an answer was dropped, or a session ended, with a refresh under way
  holds       \* history: from now on the network holds, and nobody interferes

sessionVars == <<jar, live, access, screen, flight, call, served, replayed, provoked, holds>>

around == <<jar, live, replayed, provoked, holds>>

Callers == Requests \cup {"boot"}

NoFlight == [at |-> "none", cookie |-> NoCookie, new |-> NoCookie]

Idle == [at |-> "idle", token |-> "none"]
Asked(tk) == [at |-> "asked", token |-> tk]
Again(tk) == [at |-> "again", token |-> tk]
Waits == [at |-> "waits", token |-> "none"]

InFlight(t) == flight[t].at # "none"

Held == {jar} \cup {flight[t].cookie : t \in Tabs} \cup {flight[t].new : t \in Tabs}

Fresh == CHOOSE c \in Cookies : c \notin Held

\* A tab is opened: AuthProvider begins with a refresh.
OpenedTab == [c \in Callers |-> IF c = "boot" THEN Waits ELSE Idle]

\* runRefresh: the browser adds the cookie it has at this moment.
SentRefresh == [at |-> "sent", cookie |-> jar, new |-> NoCookie]

SessionInit ==
  /\ jar \in Cookies \cup {NoCookie}
  /\ jar # NoCookie => jar = (CHOOSE c \in Cookies : TRUE)
  /\ live = {jar} \ {NoCookie}
  /\ access = [t \in Tabs |-> "none"] /\ screen = [t \in Tabs |-> "booting"]
  /\ flight = [t \in Tabs |-> SentRefresh]
  /\ call = [t \in Tabs |-> OpenedTab]
  /\ served = [t \in Tabs |-> [r \in Requests |-> FALSE]]
  /\ replayed = FALSE /\ provoked = FALSE /\ holds = FALSE

-----------------------------------------------------------------------------
(* refreshAccessToken *)

\* inFlight ??= runRefresh()
Shared(t) == IF InFlight(t) THEN flight[t] ELSE SentRefresh

\* auth_service.refresh
ServerRefreshes(t) ==
  LET c == flight[t].cookie
      Answer(at, new) == flight' = [flight EXCEPT ![t].at = at, ![t].new = new]
  IN /\ flight[t].at = "sent"
     /\ \/ /\ c = NoCookie
           /\ Answer("refused", NoCookie) /\ UNCHANGED <<live, replayed>>
        \/ /\ c \in live
           /\ Answer("answered", Fresh)
           /\ live' = (live \ {c}) \cup {Fresh}
           /\ UNCHANGED replayed
        \/ /\ c \notin live /\ c # NoCookie
           /\ Answer("refused", NoCookie)
           /\ live' = {} /\ replayed' = TRUE
     /\ UNCHANGED <<jar, access, screen, call, served, provoked, holds>>

KeptWhenItFails(t) ==
  IF flight[t].at = "answered" THEN NoFlight ELSE [flight[t] EXCEPT !.at = "refused"]

\* .finally(() => { inFlight = null })
Settled(t) == NoFlight

\* What waits for the refresh goes on with its result, before anything else runs.  The
\* start asks /auth/me; a request repeats itself, or ends the session.
Resumed(t, tk) ==
  [c \in Callers |-> IF call[t][c].at # "waits" THEN call[t][c]
                     ELSE IF tk = "none" THEN Idle
                     ELSE IF c = "boot" THEN Asked(tk) ELSE Again(tk)]

IsAwaited(t) == \E c \in Callers : call[t][c].at = "waits"

\* 401 or network error: emitAuthExpired for a request, anonymous for the start.
RefreshFailed(t, tk) ==
  /\ call' = [call EXCEPT ![t] = Resumed(t, "none")]
  /\ access' = [access EXCEPT ![t] = IF \E r \in Requests : call[t][r].at = "waits"
                                   THEN "none" ELSE tk]
  /\ screen' = [screen EXCEPT ![t] = IF IsAwaited(t) THEN "anonymous" ELSE @]

RefreshSucceeds(t) ==
  /\ flight[t].at = "answered"
  /\ jar' = flight[t].new
  /\ access' = [access EXCEPT ![t] = "good"]
  /\ flight' = [flight EXCEPT ![t] = Settled(t)]
  /\ call' = [call EXCEPT ![t] = Resumed(t, "good")]
  /\ UNCHANGED <<live, screen, served, replayed, provoked, holds>>

RefreshIsRefused(t) ==
  /\ flight[t].at = "refused"
  /\ flight' = [flight EXCEPT ![t] = Settled(t)]
  /\ RefreshFailed(t, "none")
  /\ UNCHANGED <<around, served>>

\* The request is lost on its way, or its answer is.
RefreshIsLost(t) ==
  /\ InFlight(t) /\ ~holds
  /\ flight' = [flight EXCEPT ![t] = Settled(t)]
  /\ RefreshFailed(t, access[t])
  /\ provoked' = TRUE
  /\ UNCHANGED <<jar, live, served, replayed, holds>>

-----------------------------------------------------------------------------
(* apiRequest *)

Calls(t, c, how) == call' = [call EXCEPT ![t][c] = how]

Asks(t, r) ==
  /\ screen[t] = "authenticated" /\ call[t][r].at = "idle"
  /\ Calls(t, r, Asked(access[t]))
  /\ served' = [served EXCEPT ![t][r] = FALSE]
  /\ UNCHANGED <<around, access, screen, flight>>

\* /auth/me was the last step of the start.
Ends(t, c, ok) ==
  /\ Calls(t, c, Idle)
  /\ served' = IF c = "boot" THEN served ELSE [served EXCEPT ![t][c] = ok]
  /\ screen' = IF c # "boot" THEN screen
               ELSE [screen EXCEPT ![t] = IF ok THEN "authenticated" ELSE "anonymous"]

IsAnswered(t, c) ==
  /\ call[t][c].at \in {"asked", "again"} /\ call[t][c].token = "good"
  /\ Ends(t, c, TRUE)
  /\ UNCHANGED <<around, access, flight>>

\* 401
IsUnauthorized(t, c) ==
  /\ call[t][c].at = "asked" /\ call[t][c].token # "good"
  /\ Calls(t, c, Waits)
  /\ flight' = [flight EXCEPT ![t] = Shared(t)]
  /\ UNCHANGED <<around, access, screen, served>>

\* 401 for the second time, an error of another kind, or the network.
CallFails(t, c) ==
  /\ \/ call[t][c].at = "again" /\ call[t][c].token # "good"
     \/ call[t][c].at \in {"asked", "again"} /\ ~holds
  /\ Ends(t, c, FALSE)
  /\ UNCHANGED <<around, access, flight>>

-----------------------------------------------------------------------------
(* The user, the clock and an administrator *)

SignsIn(t) ==
  /\ screen[t] = "anonymous" /\ ~holds
  /\ jar' = Fresh /\ live' = live \cup {Fresh}
  /\ access' = [access EXCEPT ![t] = "good"]
  /\ screen' = [screen EXCEPT ![t] = "authenticated"]
  /\ provoked' = (provoked \/ \E u \in Tabs : InFlight(u))
  /\ UNCHANGED <<flight, call, served, replayed, holds>>

\* logout: what is kept in the tab goes even if the request fails.
SignsOut(t) ==
  /\ screen[t] = "authenticated" /\ ~holds
  /\ access' = [access EXCEPT ![t] = "none"]
  /\ screen' = [screen EXCEPT ![t] = "anonymous"]
  /\ \/ /\ live' = live \ {jar} /\ jar' = NoCookie
     \/ live' \in {live, live \ {jar}} /\ UNCHANGED jar
  /\ provoked' = (provoked \/ jar' = jar \/ \E u \in Tabs : InFlight(u))
  /\ UNCHANGED <<flight, call, served, replayed, holds>>

\* A page that is loaded again forgets its refresh; the server may have taken it.
Reloads(t) ==
  /\ ~holds
  /\ flight' = [flight EXCEPT ![t] = SentRefresh]
  /\ live' \in {live} \cup IF flight[t].at = "sent" /\ flight[t].cookie \in live
                           THEN {live \ {flight[t].cookie}} ELSE {}
  /\ access' = [access EXCEPT ![t] = "none"]
  /\ screen' = [screen EXCEPT ![t] = "booting"]
  /\ call' = [call EXCEPT ![t] = OpenedTab]
  /\ provoked' = (provoked \/ InFlight(t))
  /\ UNCHANGED <<jar, served, replayed, holds>>

TokenExpires(t) ==
  /\ access[t] = "good"
  /\ access' = [access EXCEPT ![t] = "stale"]
  /\ UNCHANGED <<around, screen, flight, call, served>>

\* The sessions are revoked, and the version of every token with them.
SessionsAreEnded ==
  /\ ~holds /\ live # {}
  /\ live' = {} /\ provoked' = TRUE
  /\ access' = [t \in Tabs |-> IF access[t] = "good" THEN "stale" ELSE access[t]]
  /\ call' = [t \in Tabs |-> [c \in Callers |->
       IF call[t][c].token = "good" THEN [call[t][c] EXCEPT !.token = "stale"] ELSE call[t][c]]]
  /\ UNCHANGED <<jar, screen, flight, served, replayed, holds>>

Settles ==
  /\ ~holds
  /\ holds' = TRUE
  /\ UNCHANGED <<jar, live, access, screen, flight, call, served, replayed, provoked>>

Refreshes(t) == ServerRefreshes(t) \/ RefreshSucceeds(t) \/ RefreshIsRefused(t)

Replies(t, c) == IsAnswered(t, c) \/ IsUnauthorized(t, c) \/ CallFails(t, c)

SessionNext ==
  \/ \E t \in Tabs :
       \/ Refreshes(t) \/ RefreshIsLost(t)
       \/ \E c \in Callers : Replies(t, c)
       \/ \E r \in Requests : Asks(t, r)
       \/ SignsIn(t) \/ SignsOut(t) \/ Reloads(t) \/ TokenExpires(t)
  \/ SessionsAreEnded \/ Settles

-----------------------------------------------------------------------------
(* Properties *)

\* Loading a page logs nobody out: the server meets a refresh token for the second time
\* only if an answer was dropped, or the session was changed while a refresh was under
\* way.  Every request of a page may find the token expired at the same moment.
LoadingAPageIsNoReplay == replayed => provoked

\* Once the network holds, a request of a tab whose cookie is good is answered, however
\* often its access token expires, and whatever was lost before.  (A refresh that is still
\* under way with a cookie of before the last sign-in may yet end the session.)
GoodSessionsAreServed ==
  \A t \in Tabs, r \in Requests :
    (/\ holds /\ jar \in live /\ call[t][r].at = "asked"
     /\ InFlight(t) => flight[t].cookie = jar) ~> served[t][r]

\* Whoever is signed in stays so, however often tokens expire, whatever is asked at the
\* same moment, and after what the network lost (refresh-single-flight.ts, apiRequest).
SessionsAreKept == []LoadingAPageIsNoReplay /\ GoodSessionsAreServed
=============================================================================
