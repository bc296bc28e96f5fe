----------------------------- MODULE ClientPic -----------------------------
(***************************************************************************)
(* What SBEMU promises a client's interrupt handler: the controllers it    *)
(* finds are real ones that have taken its line and no other.              *)
(***************************************************************************)
EXTENDS Pic

CONSTANTS Irqs, NoIrq

VARIABLES
  line,       (* the line whose handler runs, or NoIrq               *)
  service,    (* the lines in service                                *)
  shown       (* what a read of a controller gives: lines in service *)

Nothing == [c \in Controllers |-> {}]
Init == line = NoIrq /\ service = {} /\ shown = Nothing

(* A selection made before the interrupt may still hold. *)
Take ==
  /\ line = NoIrq /\ line' \in Irqs /\ service' = Taken(line')
  /\ \E cs \in SUBSET Controllers :
       shown' = [c \in Controllers |-> IF c \in cs THEN service' \cap Of(c) ELSE {}]

End(c) ==
  /\ line # NoIrq /\ service' = EOI(service, {c}) /\ line' = line
  /\ shown' = [d \in Controllers |-> shown[d] \cap service']

(* The handler selects the lines in service to be read, or deselects them. *)
Select(c) ==
  /\ line # NoIrq /\ shown' = [shown EXCEPT ![c] = service \cap Of(c)]
  /\ UNCHANGED <<line, service>>

Deselect(c) ==
  /\ line # NoIrq /\ shown' = [shown EXCEPT ![c] = {}]
  /\ UNCHANGED <<line, service>>

Return == line # NoIrq /\ line' = NoIrq /\ service' = {} /\ shown' = Nothing

Next == Take \/ Return \/ \E c \in Controllers : End(c) \/ Select(c) \/ Deselect(c)
Spec == Init /\ [][Next]_<<line, service, shown>>
=============================================================================
