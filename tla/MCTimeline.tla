----------------------------- MODULE MCTimeline -----------------------------
(* Small instances of Timeline for TLC.                                     *)
EXTENDS Timeline

\* A page size that is refused, defaulted, kept and clamped.
ClientSizes == {-1, 0, 1, 9}

\* Every page number an int can hold.
AllPages == 1..MaxInt
=============================================================================
