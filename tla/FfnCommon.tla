----------------------------- MODULE FfnCommon -----------------------------
(* What the modules share, so that one run can compose several of them.    *)

CONSTANT None   \* absent: a null pointer, an empty slot, no record
============================================================================
