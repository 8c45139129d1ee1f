------------------------------- MODULE Reader -------------------------------
(***************************************************************************)
(* SomeIpReader (de.rs) for `&[u8]` and for ExtendedReader, which reads at *)
(* most `remaining` bytes of a std::io::Read that has `available` bytes    *)
(* before it reports the end of file.                                      *)
(*                                                                         *)
(* The bytes themselves are not part of the state: each is read at most    *)
(* once, so that the deserializer lets the environment choose its value    *)
(* when it is read.                                                        *)
(***************************************************************************)
EXTENDS Integers, FiniteSetsExt

Reader == [kind: {"slice", "read"}, remaining: Nat, available: Nat]

Slice(n) == [kind |-> "slice", remaining |-> n, available |-> n]
Stream(len, available) ==
    [kind |-> "read", remaining |-> len, available |-> available]

CanBorrow(r) == r.kind = "slice"

(* updat_remaining and next_slice.                                         *)
Advance(r, n) ==
    [r EXCEPT !.remaining = @ - n, !.available = @ - Min({n, r.available})]

(* How read(n, ..) may end.  read_exact reports the end of file, and a     *)
(* Read may fail for reasons of its own.                                   *)
ReadOutcomes(r, n) ==
    IF CanBorrow(r) THEN IF r.remaining < n THEN {"TooShort"} ELSE {"ok"}
    ELSE IF n >= 8 THEN {"AssertLen"}
    ELSE IF r.remaining < n THEN {"TooShort"}
    ELSE IF r.available < n THEN {"IoError"}
    ELSE {"ok", "IoError"}

(* How read_vec(n) may end.  take(n).read_to_end takes the end of file for *)
(* the end of the value.                                                   *)
ReadVecOutcomes(r, n) ==
    IF r.remaining < n THEN {"TooShort"}
    ELSE IF CanBorrow(r) \/ n = 0 THEN {"ok"} ELSE {"ok", "IoError"}
Received(r, n) == Min({n, r.available})
=============================================================================
