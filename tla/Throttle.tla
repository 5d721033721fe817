------------------------------ MODULE Throttle -------------------------------
(***************************************************************************)
(* The sliding-window counters of security/rate_limiter.py, and how their  *)
(* callers' threads use them: the public plate search takes a place in one *)
(* step, a login checks, verifies the password, and then records or resets *)
(* each of its keys.  A key is a name or the address of the client; an     *)
(* event is its age in ticks.                                              *)
(***************************************************************************)
EXTENDS Naturals, SequencesExt

CONSTANTS
  Names,          \* user names that are tried
  Address,        \* the client's address
  Threads,        \* threads of the server's pool
  MaxAttempts,    \* login_max_attempts, public_search_max
  Window,         \* the window, in ticks
  TicksPerSecond  \* retry_after is told in whole seconds

ASSUME ThrottleBounds ==
  /\ {MaxAttempts, Window, TicksPerSecond} \subseteq Nat \ {0}
  /\ IsFiniteSet(Threads) /\ Address \notin Names

VARIABLES
  use,     \* which limiter this is, "search" or "login"; "none": nobody asks
  events,  \* _events, per key, oldest first
  caller,  \* per thread: at, and the keys it has still to go through
  counted, \* history, per key: the ages of what was admitted (search) or failed (login)
  told     \* history, per key: ticks left of what a refused caller was told to wait

throttleVars == <<use, events, caller, counted, told>>

Keys == Names \cup {Address}

NotTold == Window + TicksPerSecond + 1

Free == [at |-> "idle", keys |-> <<>>, left |-> <<>>]

ThrottleInit ==
  /\ use \in {"search", "login", "none"}
  /\ events = [k \in Keys |-> <<>>] /\ counted = events
  /\ caller = [t \in Threads |-> Free]
  /\ told = [k \in Keys |-> NotTold]

IsOld(age) == age > Window

\* How many _prune takes from the left.
Gone(ages) ==
  CHOOSE n \in 0..Len(ages) :
    /\ \A i \in 1..n : IsOld(ages[i])
    /\ n < Len(ages) => ~IsOld(ages[n + 1])

Pruned(k) == SubSeq(events[k], Gone(events[k]) + 1, Len(events[k]))

IsFull(k) == Len(Pruned(k)) >= MaxAttempts

\* The fraction of a second that is left is not waited for.
RoundedDown(age) == (Window - age) \div TicksPerSecond

RetryAfter(age) == ((Window - age) \div TicksPerSecond) + 1

\* RateLimitedError
Refuse(k) ==
  /\ events' = [events EXCEPT ![k] = Pruned(k)]
  /\ told' = [told EXCEPT ![k] = TicksPerSecond * RetryAfter(Head(Pruned(k)))]
  /\ UNCHANGED counted

Count(k) ==
  /\ events' = [events EXCEPT ![k] = Append(Pruned(k), 0)]
  /\ counted' = [counted EXCEPT ![k] = Append(@, 0)]
  /\ told' = [told EXCEPT ![k] = NotTold]

\* try_acquire, by search_public_plates
Searches ==
  /\ use = "search"
  /\ IF IsFull(Address) THEN Refuse(Address) ELSE Count(Address)
  /\ UNCHANGED <<use, caller>>

Moves(t, at, left) ==
  /\ caller' = [caller EXCEPT ![t].at = at, ![t].left = left]
  /\ UNCHANGED use

Asks(t, name) ==
  /\ use = "login" /\ caller[t].at = "idle"
  /\ LET keys == <<name, Address>>
     IN caller' = [caller EXCEPT ![t] = [at |-> "check", keys |-> keys, left |-> keys]]
  /\ UNCHANGED <<use, events, counted, told>>

\* check
Checks(t) ==
  /\ caller[t].at = "check"
  /\ LET k == Head(caller[t].left)
         rest == Tail(caller[t].left)
     IN IF IsFull(k)
        THEN Refuse(k) /\ caller' = [caller EXCEPT ![t] = Free] /\ UNCHANGED use
        ELSE /\ events' = [events EXCEPT ![k] = Pruned(k)]
             /\ Moves(t, IF rest = <<>> THEN "verify" ELSE "check", rest)
             /\ UNCHANGED <<counted, told>>

Verifies(t) ==
  /\ caller[t].at = "verify"
  /\ \E outcome \in {"record", "reset"} : Moves(t, outcome, caller[t].keys)
  /\ UNCHANGED <<events, counted, told>>

\* record, for each key in turn
Records(t) ==
  /\ caller[t].at = "record" /\ caller[t].left # <<>>
  /\ Count(Head(caller[t].left))
  /\ Moves(t, "record", Tail(caller[t].left))

\* reset, for each key in turn
Resets(t) ==
  /\ caller[t].at = "reset" /\ caller[t].left # <<>>
  /\ LET k == Head(caller[t].left)
     IN /\ events' = [events EXCEPT ![k] = <<>>]
        /\ counted' = [counted EXCEPT ![k] = <<>>]
        /\ told' = [told EXCEPT ![k] = NotTold]
  /\ Moves(t, "reset", Tail(caller[t].left))

Returns(t) ==
  /\ caller[t].at \in {"record", "reset"} /\ caller[t].left = <<>>
  /\ caller' = [caller EXCEPT ![t] = Free]
  /\ UNCHANGED <<use, events, counted, told>>

\* sweep_idle: a key without events is a key that was never tried.
Sweeps ==
  /\ events' = [k \in Keys |-> Pruned(k)]
  /\ UNCHANGED <<use, caller, counted, told>>

\* What has left the window has one age.
Older(ages) == [n \in DOMAIN ages |-> IF IsOld(ages[n]) THEN ages[n] ELSE ages[n] + 1]

WithinWindow(ages) ==
  SubSeq(ages, Cardinality({n \in DOMAIN ages : ages[n] > Window}) + 1, Len(ages))

Tick ==
  /\ events' = [k \in Keys |-> Older(events[k])]
  /\ counted' = [k \in Keys |-> WithinWindow(Older(counted[k]))]
  /\ told' = [k \in Keys |-> IF told[k] \in {0, NotTold} THEN told[k] ELSE told[k] - 1]
  /\ UNCHANGED <<use, caller>>

ThrottleNext ==
  \/ Searches
  \/ use # "none" /\ (Sweeps \/ Tick)
  \/ \E t \in Threads :
       Checks(t) \/ Verifies(t) \/ Records(t) \/ Resets(t) \/ Returns(t)
         \/ \E name \in Names : Asks(t, name)

-----------------------------------------------------------------------------
(* Properties *)

\* A login counts after it was admitted, so that every other thread may still count.
Budget == IF use = "search" THEN MaxAttempts ELSE MaxAttempts - 1 + Cardinality(Threads)

\* rate_limiter.py: no window ever holds more searches of one address than the limit,
\* nor more failed logins of one key than the limit and the other threads that had
\* passed the check by then; and when a refused caller has waited as long as he was
\* told, a place is free unless somebody else took it (a login's, unless the limit was
\* exceeded so).
AttemptsAreThrottled ==
  use # "none" => \A k \in Keys :
    Len(counted[k]) <= Budget /\ (told[k] = 0 => Len(Pruned(k)) < Budget)
=============================================================================
