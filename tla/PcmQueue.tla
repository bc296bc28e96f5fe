------------------------------ MODULE PcmQueue ------------------------------
(***************************************************************************)
(* What the ring buffer of a sound card is for: a queue of bytes between   *)
(* the program and the card.  The program never puts what would cover      *)
(* bytes not yet played.  The card does not wait: when the program is late *)
(* it plays on, the old content of the buffer, and once the program sees   *)
(* it, that old content counts as queued.                                  *)
(***************************************************************************)
EXTENDS Integers

CONSTANTS
  Size,       (* of the buffer            *)
  Capacity,   (* the most the program puts *)
  New         (* what a new queue holds   *)

VARIABLES ahead   (* how far the program is ahead of the card *)

Init == ahead = New

Put   == ahead' \in ahead + 1 .. Capacity
Play  == ahead' = ahead - 1
Late  == ahead < 0 /\ ahead' = ahead + Size
Renew == ahead' = New

Spec == Init /\ [][Put \/ Play \/ Late \/ Renew]_ahead
=============================================================================
