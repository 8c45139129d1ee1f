-------------------------- MODULE SerializerFraming --------------------------
(***************************************************************************)
(* The serializer implements Framing: its buffer is the segments laid end  *)
(* to end, with the reserved bytes of each open section in between.        *)
(***************************************************************************)
EXTENDS Serializer

Segment(k) ==
    SubSeq(buf, IF k = 0 THEN 1 ELSE SectionEnd(k) + 1,
                IF k = Len(sections) THEN Len(buf) ELSE sections[k + 1].pos)

Segments ==
    IF Running THEN [k \in 1 .. Len(sections) + 1 |-> Segment(k - 1)] ELSE <<buf>>

CallState ==
    CASE pc = "idle" -> "idle"
      [] Running -> "open"
      [] pc = "ok" -> "ok"
      [] pc \in Errors -> "failed"
      [] pc \in Panics -> "panicked"

F == INSTANCE Framing WITH segs <- Segments, state <- CallState

(* Every message is built as nested segments: sections may be reserved too *)
(* large, shifted and patched in place, and tags written, taken back and   *)
(* rewritten, yet each step amounts to one on segments or changes nothing. *)
ImplementsFraming == F!Spec
=============================================================================
