------------------------------- MODULE SignIn --------------------------------
(***************************************************************************)
(* What guards a request: the limiters of Throttle, then the accounts and  *)
(* sessions of Accounts.  A limiter lets a request through or not and      *)
(* reads no account, so the two are explored one at a time.                *)
(***************************************************************************)
EXTENDS Accounts, Throttle

signInVars == <<vars, throttleVars>>

SignInInit == Init /\ ThrottleInit

Limits == ThrottleNext /\ UNCHANGED vars

Admits == use = "none" /\ Next /\ UNCHANGED throttleVars

SignInSpec == SignInInit /\ [][Limits \/ Admits]_signInVars
=============================================================================
