------------------------------ MODULE MCStrings ------------------------------
(***************************************************************************)
(* Texts, data and options on which TLC checks the string codecs.          *)
(***************************************************************************)
EXTENDS Strings

UpTo(n, S) == UNION {[1 .. k -> S] : k \in 0 .. n}

(* NUL, a, e with acute accent, the byte order mark and a character of two *)
(* UTF-16 units and four UTF-8 bytes.                                      *)
MCTexts == UpTo(2, {0, 97, 233, 65279, 128512})

(* NUL, a, the two bytes of the e with accent, and the first bytes of      *)
(* surrogates and of UTF-16 byte order marks.                              *)
MCGarbage == UpTo(4, {0, 97, 195, 169, 216, 220, 254, 255})
             \cup {Bom8 \o s : s \in UpTo(1, {0, 97, 195, 187})}

Option(encoding, ord, bom, terminator, action) ==
    [encoding |-> encoding, order |-> ord, bom |-> bom,
     terminator |-> terminator, tooMuchData |-> action]

MCOptions == {
    Option("Ascii", "Big", FALSE, TRUE, "Keep"),
    Option("Utf8", "Big", FALSE, FALSE, "Fail"),
    Option("Utf8", "Big", TRUE, TRUE, "Discard"),
    Option("Utf16", "Little", FALSE, TRUE, "Discard"),
    Option("Utf16", "Little", TRUE, FALSE, "Discard"),
    Option("Utf16Be", "Little", FALSE, FALSE, "Keep"),
    Option("Utf16Be", "Little", TRUE, FALSE, "Discard") }

LittleOnly == {Option("Utf16Le", "Big", FALSE, FALSE, "Discard")}
NoGarbage == {}
=============================================================================
