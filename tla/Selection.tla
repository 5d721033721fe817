------------------------------ MODULE Selection ------------------------------
(***************************************************************************)
(* The rows of a sequence at some of its places, in their order: what a    *)
(* WHERE clause leaves of a table, a cancellation of a queue.  SelectSeq   *)
(* gives the same for a test, but is no definition the provers can expand. *)
(***************************************************************************)
EXTENDS Naturals, Sequences

Picked(s, places) ==
  LET upTo[n \in 0..Len(s)] ==
        IF n = 0 THEN << >>
        ELSE IF n \in places THEN Append(upTo[n - 1], s[n]) ELSE upTo[n - 1]
  IN upTo[Len(s)]
=============================================================================
