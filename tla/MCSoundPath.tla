---------------------------- MODULE MCSoundPath ----------------------------
(***************************************************************************)
(* A ring of four frames with a frame of protection; buffers in            *)
(* conventional memory, at and off the start of a page and longer than the *)
(* window, and above the first megabyte.                                   *)
(***************************************************************************)
EXTENDS SoundPath

Buffer(addr, size, auto) == [addr |-> addr, size |-> size, auto |-> auto]
MixedBuffers ==
  { Buffer(2, 3, TRUE), Buffer(5, 1, FALSE), Buffer(12, 3, TRUE), Buffer(13, 4, TRUE) }
=============================================================================
