------------------------------- MODULE Framing -------------------------------
(***************************************************************************)
(* What the serializer promises about its output, without positions,       *)
(* reserved bytes and patching: a message is built from nested segments.   *)
(* The bottom segment holds the caller's bytes and the top level of the    *)
(* message; each open length delimited value has a segment of its own,     *)
(* which is put behind its length when it is closed.                       *)
(***************************************************************************)
EXTENDS SomeIpTypes, Cells

VARIABLES
    segs,   \* the segments, outermost first
    base,   \* how many bytes of the bottom segment are the caller's
    state   \* of the call

vars == <<segs, base, state>>

Body == Last(segs)
Floor == IF Len(segs) = 1 THEN base ELSE 0

(* Only the innermost segment changes, at its end or up to offset p.       *)
OnlyBody == Len(segs') = Len(segs) /\ Front(segs') = Front(segs)
Grows == OnlyBody /\ IsPrefix(Body, Body')
Added == SubSeq(Body', Len(Body) + 1, Len(Body'))

IsTagAt(s, p) == p + 2 <= Len(s) /\ SubSeq(s, p + 1, p + 2) = TagBytes(s[p + 1].val)
Framed(s, size) == LengthBytes(size, Len(s)) \o s
Fits(s, size) == Len(s) <= Capacity(size)

Init ==
    /\ state = "idle"
    /\ Len(segs) = 1
    /\ base = Len(segs[1])

Begin ==
    /\ state \in {"idle", "ok", "failed"}
    /\ state' \in {"open", "panicked"}
    /\ base' = Len(segs[1])
    /\ UNCHANGED segs

(* Content of fixed size, or a tag.                                        *)
Write ==
    /\ state = "open"
    /\ Grows
    /\ \/ Added = Data(Len(Added))
       \/ Len(Added) = 2 /\ IsTagAt(Added, 0)
    /\ UNCHANGED <<base, state>>

Open ==
    /\ state = "open"
    /\ segs' = Append(segs, <<>>)
    /\ UNCHANGED <<base, state>>

(* A segment is closed behind a length field that can hold its length.     *)
Close ==
    /\ state = "open"
    /\ Len(segs) > 1
    /\ \E size \in LengthFieldSize :
        /\ Fits(Body, size)
        /\ segs' = [Front(segs) EXCEPT ![Len(segs) - 1] = @ \o Framed(Body, size)]
    /\ UNCHANGED <<base, state>>

(* A string or a slice of bytes.                                           *)
WriteFramed ==
    /\ state = "open"
    /\ Grows
    /\ \E size \in LengthFieldSize :
        /\ size <= Len(Added)
        /\ Fits(Data(Len(Added) - size), size)
        /\ Added = Framed(Data(Len(Added) - size), size)
    /\ UNCHANGED <<base, state>>

(* A field that is None takes its tag back.                                *)
Retract ==
    /\ state = "open"
    /\ Len(Body) >= Floor + 2
    /\ IsTagAt(Body, Len(Body) - 2)
    /\ segs' = [segs EXCEPT ![Len(segs)] = SubSeq(@, 1, Len(@) - 2)]
    /\ UNCHANGED <<base, state>>

(* A tag gets the wire type of the length field behind it.                 *)
Announce ==
    /\ state = "open"
    /\ \E p \in Floor .. Len(Body) - 3 :
        LET id == Body[p + 1].val % (MaxFieldId + 1)
            field == Body[p + 3]
        IN  /\ IsTagAt(Body, p)
            /\ TagWire(Body[p + 1].val) = FromConfig
            /\ field.kind = "len" /\ field.part = 1
            /\ segs' = [segs EXCEPT ![Len(segs)] =
                          WriteAt(@, p, TagBytes(Tag(WireOfLengthField(field.of), id)))]
    /\ UNCHANGED <<base, state>>

End ==
    /\ state = "open"
    /\ Len(segs) = 1
    /\ state' = "ok"
    /\ UNCHANGED <<segs, base>>

(* A call that fails leaves the caller's bytes and any others behind them. *)
Fail ==
    /\ state = "open"
    /\ state' \in {"failed", "panicked"}
    /\ Len(segs') = 1
    /\ IsPrefix(SubSeq(segs[1], 1, base), segs'[1])
    /\ UNCHANGED base

Next == Begin \/ Write \/ Open \/ Close \/ WriteFramed \/ Retract \/ Announce \/ End \/ Fail

Spec == Init /\ [][Next]_vars
=============================================================================
