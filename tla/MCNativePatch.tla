---------------------------- MODULE MCNativePatch ----------------------------
(* Small instances of NativePatch for TLC. *)
EXTENDS NativePatch

CONSTANTS s1, s2, p1, p2

Contents == {s1, s2}
Paths == {p1, p2}
=============================================================================
