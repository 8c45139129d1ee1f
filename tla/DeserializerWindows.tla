------------------------- MODULE DeserializerWindows -------------------------
(***************************************************************************)
(* The deserializer implements Windows: what it counts down for the reader *)
(* and for each section are distances between the cursor and the windows.  *)
(***************************************************************************)
EXTENDS Deserializer

(* What is left of the reader when each of the sections is at its end.     *)
Ends(secs, left) ==
    LET end[k \in DOMAIN secs] ==
            (IF k = Len(secs) THEN left ELSE end[k + 1]) - secs[k]
    IN  end

W == INSTANCE Windows WITH
        left <- reader.remaining,
        floors <- Ends(sections, reader.remaining),
        ended <- pc = "ok"

(* Only the innermost section is counted down, and beginning a section     *)
(* takes its length from the one around it.  This amounts to reading       *)
(* within nested windows: no read leaves the innermost one, a section is   *)
(* ended only where its data ends, and none is open at the end.            *)
ImplementsWindows == W!Spec
=============================================================================
