-------------------------------- MODULE Pic --------------------------------
(***************************************************************************)
(* The two interrupt controllers of a PC, as pic.c and virq.c drive them.  *)
(* A register of eight bits is the set of the lines whose bits are set; a  *)
(* controller is known by "master" (ports 0x20, 0x21) or "slave" (0xA0,    *)
(* 0xA1), which is wired to the master's line 2.                           *)
(***************************************************************************)
EXTENDS Integers

Lines == 0 .. 15
Cascade == 2
Controllers == {"master", "slave"}
Of(c) == IF c = "master" THEN 0 .. 7 ELSE 8 .. 15
ControllersOf(l) == IF l >= 8 THEN Controllers ELSE {"master"}

(* The lowest of a set of lines: empty or a single line. *)
Lowest(S) == {l \in S : \A m \in S : l <= m}

(* A controller accepts a line that is not masked and that no line of the  *)
(* same or of a higher priority keeps waiting; the slave's come at line 2. *)
Level(l) == IF l >= 8 THEN Cascade ELSE l
Accepts(service, mask, l) ==
  /\ {l, Level(l)} \cap mask = {}
  /\ \A s \in service \cap Of("master") : Level(l) < s
  /\ l >= 8 => \A s \in service \cap Of("slave") : l < s
Taken(l) == {l, Level(l)}
Before(l, m) == Level(l) < Level(m) \/ (Level(l) = Level(m) /\ l < m)

(* The end of an interrupt, sent to the controllers cs: the highest line   *)
(* each has in service is done.                                            *)
EOI(service, cs) == service \ UNION {Lowest(service \cap Of(c)) : c \in cs}

(* The line pic.c takes for the one in service: the lowest bit set. *)
Seen(service) ==
  ((service \cap Of("master")) \ {Cascade})
    \cup (IF Cascade \in service THEN service \cap Of("slave") ELSE {})
IsIRQ(service, irq) == irq \in Lowest(Seen(service))

(* To look at the lines in service is to select that register. *)
Looked(select, service) ==
  [c \in Controllers |-> IF c = "master" \/ Cascade \in service THEN "isr" ELSE select[c]]

SendEOI(service) == EOI(service, IF Cascade \in service THEN Controllers ELSE {"master"})
SendEOIUnchecked(service, irq) == EOI(service, ControllersOf(irq))
SendEOIWithIRQ(service, irq) ==
  IF ~IsIRQ(service, irq) THEN service
  ELSE IF irq \in {7, 15} THEN SendEOI(service)
  ELSE EOI(service, ControllersOf(irq))

Unmasked(mask, irq) == mask \ {irq, Level(irq)}
=============================================================================
