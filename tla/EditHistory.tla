----------------------------- MODULE EditHistory ------------------------------
(***************************************************************************)
(* What undo and redo promise: the versions of a document on a line, and   *)
(* a place on it.  An edit drops what lies ahead and puts a version there; *)
(* a drag changes the version it has put there until it is dropped.        *)
(***************************************************************************)
EXTENDS Naturals, Sequences

CONSTANTS
  Versions,
  Limit     \* versions that can be gone back

VARIABLES
  line,
  place

Versioned == line[place]

HistoryInit == line \in {<<v>> : v \in Versions} /\ place = 1

Edit ==
  \E v \in Versions :
    LET all == Append(SubSeq(line, 1, place), v)
        cut == IF Len(all) > Limit + 1 THEN Tail(all) ELSE all
    IN line' = cut /\ place' = Len(cut)

Adjust == \E v \in Versions : line' = [line EXCEPT ![place] = v] /\ UNCHANGED place

Undo == place > 1 /\ place' = place - 1 /\ UNCHANGED line

Redo == place < Len(line) /\ place' = place + 1 /\ UNCHANGED line

Load == \E v \in Versions : line' = <<v>> /\ place' = 1

HistoryNext == Edit \/ Adjust \/ Undo \/ Redo \/ Load

HistorySpec == HistoryInit /\ [][HistoryNext]_<<line, place>>
=============================================================================
