---------------------------- MODULE MCVirtualIrq ----------------------------
(***************************************************************************)
(* Instances of VirtualIrq: the card on either controller, with a line of  *)
(* higher priority whose handler allows interrupts, and one of lower; one  *)
(* whose line is shared with a device whose handler allows them; and one   *)
(* alone, under an HDPMI that may refuse the routing of a line.            *)
(***************************************************************************)
EXTENDS VirtualIrq

WorkingSetups ==
  { [card |-> 11, others |-> {4, 9}, sti |-> {9}, sb |-> {5, 7}, unsure |-> {}],
    [card |-> 6,  others |-> {1, 7}, sti |-> {7}, sb |-> {10}, unsure |-> {}],
    [card |-> 11, others |-> {4}, sti |-> {11}, sb |-> {5}, unsure |-> {}],
    [card |-> 11, others |-> {}, sti |-> {}, sb |-> {5, 7}, unsure |-> {5}] }

(* A handler of lower priority and a lower number allows interrupts. *)
NestingSetups == { [card |-> 11, others |-> {4}, sti |-> {4}, sb |-> {5}, unsure |-> {}] }
OneSetup == { [card |-> 11, others |-> {1}, sti |-> {}, sb |-> {5}, unsure |-> {}] }
=============================================================================
