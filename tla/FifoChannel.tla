---------------------------- MODULE FifoChannel ----------------------------
(***************************************************************************)
(* What a ring promises while both ends stay up: a bounded channel that    *)
(* neither loses, repeats nor reorders.  Frames are numbered in the order  *)
(* the sender took them.                                                   *)
(***************************************************************************)
EXTENDS Integers, Sequences

CONSTANTS N, MaxFrames

VARIABLES queue, out, next

Init == queue = << >> /\ out = << >> /\ next = 1

Send ==
  /\ Len(queue) < N /\ next <= MaxFrames
  /\ queue' = Append(queue, next)
  /\ next' = next + 1
  /\ out' = out

Receive ==
  /\ queue # << >>
  /\ out' = Append(out, Head(queue))
  /\ queue' = Tail(queue)
  /\ next' = next

Next == Send \/ Receive

Spec == Init /\ [][Next]_<<queue, out, next>>
============================================================================
