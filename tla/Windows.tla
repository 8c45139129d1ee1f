------------------------------ MODULE Windows ------------------------------
(***************************************************************************)
(* What the deserializer promises about where it reads: a cursor moves     *)
(* over the data, and each length delimited value is a window, which lies  *)
(* within the windows around it.  The cursor stays in the innermost        *)
(* window and leaves it at its end.  Positions are counted from the end of *)
(* the data: `left` bytes are not yet read and `floors[k]` of them lie     *)
(* behind the k-th open window.                                            *)
(***************************************************************************)
EXTENDS Integers, Sequences

VARIABLES left, floors, ended

vars == <<left, floors, ended>>

Floor == IF floors = <<>> THEN 0 ELSE floors[Len(floors)]

Init == left \in Nat /\ floors = <<>> /\ ended = FALSE

(* Reads without leaving the innermost window.                             *)
Advance ==
    /\ ~ended
    /\ left' \in Floor .. left
    /\ UNCHANGED <<floors, ended>>

(* Reads a length field, if there is one, and opens the window behind it.  *)
Enter ==
    /\ ~ended
    /\ left' \in Floor .. left
    /\ \E floor \in Floor .. left' : floors' = Append(floors, floor)
    /\ UNCHANGED ended

Leave ==
    /\ ~ended
    /\ floors # <<>>
    /\ left = Floor
    /\ floors' = SubSeq(floors, 1, Len(floors) - 1)
    /\ UNCHANGED <<left, ended>>

(* The value is complete when all its windows are left.                    *)
End ==
    /\ ~ended
    /\ floors = <<>>
    /\ ended' = TRUE
    /\ UNCHANGED <<left, floors>>

Next == Advance \/ Enter \/ Leave \/ End

Spec == Init /\ [][Next]_vars

(* The cursor is inside every open window, and the windows are nested.     *)
WindowsNested ==
    /\ left \in Nat
    /\ floors \in Seq(Nat)
    /\ \A k \in DOMAIN floors : floors[k] <= left
    /\ \A j, k \in DOMAIN floors : j <= k => floors[j] <= floors[k]
=============================================================================
