----------------------------- MODULE VirtualIrq -----------------------------
(***************************************************************************)
(* From the sound card's interrupt to the client's handler: the entry      *)
(* (MAIN_InterruptPM), the virtual interrupt (MAIN_InvokeIRQ, virq.c,      *)
(* irqguard.c and the routing of hdpmipt.c) and the end of the interrupt   *)
(* (pic.c), among the handlers of other devices.  What MAIN_Interrupt does *)
(* between two virtual interrupts is SbIsr's.                              *)
(*                                                                         *)
(* The processor runs the handler on top of the stack, or the program.     *)
(* Another device's handler may allow interrupts before it ends its own;   *)
(* so may the client's, and that of a device on the card's line.           *)
(* Interrupts come at the program's every step.                            *)
(*                                                                         *)
(* Assumed of the handlers that are not SBEMU's: each ends its interrupt,  *)
(* once and with an end that names no line, and returns.  The wrapper of   *)
(* MAIN_InterruptPM, which is not SBEMU's either, does not enter it twice. *)
(* (An operator named for what it leaves out is a faulty variant of the    *)
(* one that follows it.)                                                   *)
(***************************************************************************)
EXTENDS Pic, Sequences

CONSTANTS
  Setups,      (* [card, others, sti, sb, unsure]: the card's line, the     *)
               (* other devices', those with a handler that allows          *)
               (* interrupts (the card's: that of a device that shares it), *)
               (* the lines the client may select, and those of which HDPMI *)
               (* may refuse to tell or to change the routing               *)
  MaxRaises    (* bound on the interrupts of the other devices              *)

ASSUME VirtualIrqAssumption ==
  /\ \A s \in Setups :
       /\ s.card \in Lines \ {Cascade} /\ s.others \subseteq Lines \ {Cascade, s.card}
       /\ s.sti \subseteq s.others \cup {s.card} /\ s.sb \subseteq Lines \ {s.card}
  /\ MaxRaises \in Nat

(* A routed handler: is its selector and offset set, and the halves of its *)
(* real-mode address, of which 0 is none.                                  *)
Halves == {"0", "cs", "offset"}
Routes == [pm : BOOLEAN, rmcs : Halves, rmoffset : Halves]
NoRoute == [pm |-> FALSE, rmcs |-> "0", rmoffset |-> "0"]
DefaultRoute == [pm |-> TRUE, rmcs |-> "cs", rmoffset |-> "offset"]

Devices == {"card", "shared"}
Commands == {"eoi", "isr", "irr"}

VARIABLES
  inService,    (* the lines in service, the cascade among them              *)
  mask,         (* the lines that are masked                                 *)
  ocw3,         (* the register a read of a controller returns: "isr", "irr" *)
  setup, raised,
  request,      (* the other devices' lines that are raised                 *)
  device,       (* the devices that hold the card's line up                 *)
  stack,        (* the handlers that run: [line, at], the innermost first   *)
  wanted,       (* the lines the program masked                             *)
  VIRQ_Irq, VIRQ_ISR, VIRQ_OCW, savedMask,
  guard, routing,
  cache,        (* DPMIPT_IRQROutingCache: [valid, route]                   *)
  called,       (* the line whose handler the virtual interrupt called      *)
  refused,      (* not in the code: the lines whose routing HDPMI refused   *)
                (* to take off this time, or at last to set again           *)
  skipped       (* not in the code: an interrupt of the card came while     *)
                (* MAIN_InterruptPM ran, and was not handled                *)

picVars  == <<inService, mask, ocw3>>
busVars  == <<setup, raised, request, device>>
virqVars == <<VIRQ_Irq, VIRQ_ISR, VIRQ_OCW, savedMask>>
pathVars == <<guard, routing, cache, called, refused, skipped>>
vars == <<picVars, busVars, virqVars, pathVars, stack, wanted>>

Card == setup.card
SbLines == UNION {s.sb : s \in Setups}
NoIrq == -1
Virtualizing == VIRQ_Irq # NoIrq
Frames ==
  [line : Lines, at : {"start", "open", "done", "main", "client", "chain", "late"}]

VirtualIrqTypeOK ==
  /\ inService \subseteq Lines /\ mask \subseteq Lines
  /\ ocw3 \in [Controllers -> {"isr", "irr"}]
  /\ setup \in Setups /\ raised \in 0 .. MaxRaises
  /\ request \subseteq setup.others /\ device \subseteq Devices
  /\ stack \in Seq(Frames) /\ wanted \subseteq Lines
  /\ VIRQ_Irq \in SbLines \cup {NoIrq}
  /\ VIRQ_ISR \subseteq Lines
  /\ VIRQ_OCW \in [Controllers -> Commands]
  /\ savedMask \subseteq Lines
  /\ guard \in BOOLEAN /\ called \in SbLines \cup {7, NoIrq}
  /\ routing \in [SbLines -> Routes]
  /\ cache \in [SbLines -> [valid : BOOLEAN, route : Routes]]
  /\ refused \in [{"off", "on"} -> SUBSET SbLines] /\ skipped \in BOOLEAN

Init ==
  /\ setup \in Setups /\ raised = 0 /\ request = {} /\ device = {}
  /\ inService = {} /\ mask = {} /\ ocw3 = [c \in Controllers |-> "irr"]
  /\ stack = <<>> /\ wanted = {}
  /\ VIRQ_Irq = NoIrq /\ VIRQ_ISR = {}
  /\ VIRQ_OCW = [c \in Controllers |-> "irr"] /\ savedMask = {}
  /\ guard = FALSE /\ called = NoIrq
  /\ routing = [l \in SbLines |-> DefaultRoute]
  /\ cache = [l \in SbLines |-> [valid |-> FALSE, route |-> NoRoute]]
  /\ refused = [w \in {"off", "on"} |-> {}] /\ skipped = FALSE

---------------------------------------------------------------------------
(* Devices. *)
Raise ==
  /\ raised < MaxRaises /\ raised' = raised + 1
  /\ \E l \in setup.others : request' = request \cup {l}
  /\ UNCHANGED <<picVars, setup, device, virqVars, pathVars, stack, wanted>>

RaiseCard ==
  /\ \E d \in Devices : device' = device \cup {d}
  /\ UNCHANGED <<picVars, setup, raised, request, virqVars, pathVars, stack, wanted>>

(* The handler on top of the stack. *)
Runs(at) == stack # <<>> /\ Head(stack).at = at
GoTo(at) == stack' = <<[Head(stack) EXCEPT !.at = at]>> \o Tail(stack)
Push(line, at) == stack' = <<[line |-> line, at |-> at]>> \o stack
Return == stack' = Tail(stack)

Interruptible ==
  \/ stack = <<>> \/ Runs("open") \/ Runs("client")
  \/ (Runs("chain") \/ Runs("late")) /\ Card \in setup.sti
Waiting == request \cup (IF device = {} THEN {} ELSE {Card})
Delivers(l) ==
  /\ Interruptible
  /\ l \in Waiting /\ Accepts(inService, mask, l)
  /\ \A m \in Waiting : Accepts(inService, mask, m) => ~Before(m, l)

(* A command written to the controllers cs (VIRQ_Write): while a virtual   *)
(* interrupt is served, it stays with virq.c.                              *)
VIRQ_WriteAnyIndex(cs, w) ==
  /\ VIRQ_OCW' = [c \in Controllers |-> IF c \in cs THEN w ELSE VIRQ_OCW[c]]
  /\ IF Virtualizing
     THEN /\ VIRQ_ISR' = IF w = "eoi" THEN {} ELSE VIRQ_ISR
          /\ UNCHANGED picVars
     ELSE /\ inService' = IF w = "eoi" THEN EOI(inService, cs) ELSE inService
          /\ ocw3' = IF w = "eoi" THEN ocw3
                     ELSE [c \in Controllers |-> IF c \in cs THEN w ELSE ocw3[c]]
          /\ UNCHANGED <<VIRQ_ISR, mask>>
  /\ UNCHANGED <<VIRQ_Irq, savedMask>>
VIRQ_Write(cs, w) ==
  /\ VIRQ_OCW' = [c \in Controllers |-> IF c \in cs THEN w ELSE VIRQ_OCW[c]]
  /\ IF Virtualizing
     THEN /\ VIRQ_ISR' = IF w = "eoi" THEN VIRQ_ISR \ UNION {Of(c) : c \in cs} ELSE VIRQ_ISR
          /\ UNCHANGED picVars
     ELSE /\ inService' = IF w = "eoi" THEN EOI(inService, cs) ELSE inService
          /\ ocw3' = IF w = "eoi" THEN ocw3
                     ELSE [c \in Controllers |-> IF c \in cs THEN w ELSE ocw3[c]]
          /\ UNCHANGED <<VIRQ_ISR, mask>>
  /\ UNCHANGED <<VIRQ_Irq, savedMask>>

(* What a read of a controller gives (VIRQ_Read).  While a virtual         *)
(* interrupt is served virq.c answers; otherwise the controller does, and  *)
(* a program that selected the lines in service is shown those that are    *)
(* edge triggered, which the card's and the cascade are not.               *)
VIRQ_Mask == Lines \ {Card, Cascade}
RegisterRead(c) == Of(c) \cap (IF ocw3[c] = "isr" THEN inService ELSE Waiting)
VIRQ_Read(c) ==
  IF Virtualizing
  THEN IF VIRQ_OCW[c] = "isr" THEN VIRQ_ISR \cap Of(c) ELSE {}
  ELSE RegisterRead(c) \cap (IF VIRQ_OCW[c] = "isr" THEN VIRQ_Mask ELSE Lines)

---------------------------------------------------------------------------
(* The other devices' handlers. *)
EnterOther ==
  /\ \E l \in request :
       /\ Delivers(l)
       /\ inService' = inService \cup Taken(l) /\ request' = request \ {l}
       /\ Push(l, "start")
  /\ UNCHANGED <<mask, ocw3, setup, raised, device, virqVars, pathVars, wanted>>

AllowInterrupts ==
  /\ Runs("start") /\ Head(stack).line \in setup.sti
  /\ GoTo("open")
  /\ UNCHANGED <<picVars, busVars, virqVars, pathVars, wanted>>

EndOther ==
  /\ Runs("start") \/ Runs("open")
  /\ VIRQ_Write(ControllersOf(Head(stack).line), "eoi")
  /\ GoTo("done")
  /\ UNCHANGED <<busVars, pathVars, wanted>>

ReturnOther ==
  /\ Runs("done") /\ Return
  /\ UNCHANGED <<picVars, busVars, virqVars, pathVars, wanted>>

(* The program: it selects the register to read, and masks lines but the   *)
(* sound card's, whose driver is not its own.                              *)
ProgramSelects ==
  /\ stack = <<>>
  /\ \E c \in Controllers, w \in {"isr", "irr"} : VIRQ_Write({c}, w)
  /\ UNCHANGED <<busVars, pathVars, stack, wanted>>

ProgramMasks ==
  /\ stack = <<>>
  /\ \E l \in setup.others :
       mask' = IF l \in mask THEN mask \ {l} ELSE mask \cup {l}
  /\ wanted' = mask'
  /\ UNCHANGED <<inService, ocw3, busVars, virqVars, pathVars, stack>>

---------------------------------------------------------------------------
(* The sound card's interrupt: it is the card's if the controllers say so  *)
(* and the card does; another device's is left to the handler before.      *)
Inside == {"main", "client", "chain", "late"}
Entered == \E i \in DOMAIN stack : stack[i].at \in Inside

EnterSoundUnacknowledged ==
  /\ ~Entered /\ Delivers(Card)
  /\ inService' = inService \cup Taken(Card) /\ ocw3' = Looked(ocw3, inService')
  /\ IF ~IsIRQ(inService', Card) THEN UNCHANGED <<device, stack>>
     ELSE IF "card" \in device
     THEN Push(Card, "main") /\ UNCHANGED device
     ELSE Push(Card, "chain") /\ UNCHANGED device
  /\ UNCHANGED <<mask, setup, raised, request, virqVars, pathVars, wanted>>
EnterSound ==
  /\ ~Entered /\ Delivers(Card)
  /\ inService' = inService \cup Taken(Card) /\ ocw3' = Looked(ocw3, inService')
  /\ IF ~IsIRQ(inService', Card) THEN UNCHANGED <<device, stack>>
     ELSE IF "card" \in device
     THEN device' = device \ {"card"} /\ Push(Card, "main")
     ELSE Push(Card, "chain") /\ UNCHANGED device
  /\ UNCHANGED <<mask, setup, raised, request, virqVars, pathVars, wanted>>

(* MAIN_InterruptPM is not entered again: the wrapper returns, and the     *)
(* interrupt stays in service.                                             *)
EnterAgain ==
  /\ Entered /\ Delivers(Card)
  /\ inService' = inService \cup Taken(Card) /\ skipped' = TRUE
  /\ UNCHANGED <<mask, ocw3, busVars, virqVars, guard, routing, cache, called, refused>>
  /\ UNCHANGED <<stack, wanted>>

(* The old handler serves the other device; it may mask the line, and goes *)
(* on when it ended the interrupt.                                         *)
OldMasks ==
  /\ Runs("chain") \/ Runs("late")
  /\ mask' = mask \cup {Card}
  /\ UNCHANGED <<inService, ocw3, busVars, virqVars, pathVars, stack, wanted>>

OldEnds ==
  /\ Runs("chain") /\ GoTo("late")
  /\ VIRQ_Write(ControllersOf(Card), "eoi")
  /\ device' = device \ {"shared"}
  /\ UNCHANGED <<setup, raised, request, pathVars, wanted>>

CallOldISR ==
  /\ Runs("late") /\ Return
  /\ mask' = Unmasked(mask, Card)
  /\ UNCHANGED <<inService, ocw3, busVars, virqVars, pathVars, wanted>>

(* The routing that hdpmipt.c reads back: the real-mode address is shifted *)
(* out of the register that is to give its second half.                    *)
GetIRQRoutedHandler(irq) ==
  [pm |-> routing[irq].pm, rmcs |-> routing[irq].rmoffset, rmoffset |-> "0"]

(* The routing of a line is kept and taken off, then set again.  HDPMI may *)
(* refuse each call, which MAIN_InvokeIRQ does not look at.                *)
Refusing(what, irq) == refused' = [refused EXCEPT ![what] = @ \cup {irq}]
Obeying(what, irq) == refused' = [refused EXCEPT ![what] = @ \ {irq}]
Keeping(irq, ok, route) == cache' = [cache EXCEPT ![irq] = [valid |-> ok, route |-> route]]

DisableByCacheOnly(irq) ==
  /\ Keeping(irq, TRUE, GetIRQRoutedHandler(irq)) /\ Obeying("off", irq)
  /\ routing' = routing
DisableIRQRouting(irq) ==
  \/ /\ Keeping(irq, TRUE, GetIRQRoutedHandler(irq)) /\ Obeying("off", irq)
     /\ routing' = IF GetIRQRoutedHandler(irq) = NoRoute THEN routing
                   ELSE [routing EXCEPT ![irq] = NoRoute]
  \/ /\ irq \in setup.unsure /\ Refusing("off", irq) /\ routing' = routing
     /\ \/ Keeping(irq, FALSE, NoRoute)
        \/ Keeping(irq, TRUE, GetIRQRoutedHandler(irq)) /\ GetIRQRoutedHandler(irq) # NoRoute

RoutingStaysOff(irq) == UNCHANGED <<routing, refused>>
EnableIRQRouting(irq) ==
  IF ~cache[irq].valid \/ cache[irq].route = NoRoute THEN UNCHANGED <<routing, refused>>
  ELSE \/ routing' = [routing EXCEPT ![irq] = cache[irq].route] /\ Obeying("on", irq)
       \/ irq \in setup.unsure /\ routing' = routing /\ Refusing("on", irq)

(* In protected mode line 5 and "else" line 7 are called. *)
CalledVector(irq, vm) == (IF vm \/ irq = 5 THEN irq ELSE 7) + 8
CalledLine(irq, vm) == IF vm \/ irq = 5 THEN irq ELSE 7

InvokeIRQOpen ==
  /\ Runs("main") /\ GoTo("client")
  /\ \E irq \in setup.sb, vm \in BOOLEAN :
       /\ DisableIRQRouting(irq)
       /\ VIRQ_Irq' = irq /\ VIRQ_ISR' = Taken(irq)
       /\ called' = CalledLine(irq, vm)
  /\ guard' = TRUE
  /\ savedMask' = mask
  /\ UNCHANGED <<inService, ocw3, mask, busVars, VIRQ_OCW, skipped, wanted>>
InvokeIRQ ==
  /\ Runs("main") /\ GoTo("client")
  /\ \E irq \in setup.sb, vm \in BOOLEAN :
       /\ DisableIRQRouting(irq)
       /\ VIRQ_Irq' = irq /\ VIRQ_ISR' = Taken(irq)
       /\ called' = CalledLine(irq, vm)
  /\ guard' = TRUE
  /\ savedMask' = mask /\ mask' = Lines
  /\ UNCHANGED <<inService, ocw3, busVars, VIRQ_OCW, skipped, wanted>>

(* The client's handler talks to the controllers as it would in a real     *)
(* interrupt; what it masks is lost.                                       *)
ClientWrite ==
  /\ Runs("client")
  /\ \E c \in Controllers, w \in Commands : VIRQ_Write({c}, w)
  /\ UNCHANGED <<busVars, pathVars, stack, wanted>>

ClientReturns ==
  /\ Runs("client") /\ GoTo("main")
  /\ VIRQ_Irq' = NoIrq /\ mask' = savedMask /\ savedMask' = {}
  /\ guard' = FALSE /\ EnableIRQRouting(VIRQ_Irq)
  /\ called' = NoIrq
  /\ UNCHANGED <<inService, ocw3, busVars, VIRQ_ISR, VIRQ_OCW, cache, skipped, wanted>>

(* System management code may have ended the interrupt already. *)
SmmEnds ==
  /\ Runs("main") /\ Card \in inService
  /\ inService' = EOI(inService, ControllersOf(Card))
  /\ UNCHANGED <<mask, ocw3, busVars, virqVars, pathVars, stack, wanted>>

FinishSound ==
  /\ Runs("main") /\ Return
  /\ inService' = SendEOIWithIRQ(inService, Card) /\ ocw3' = Looked(ocw3, inService)
  /\ UNCHANGED <<mask, busVars, virqVars, pathVars, wanted>>

Handlers ==
  AllowInterrupts \/ EndOther \/ ReturnOther \/ OldMasks \/ OldEnds \/ CallOldISR
    \/ InvokeIRQ \/ ClientWrite \/ ClientReturns \/ SmmEnds \/ FinishSound
Next ==
  Raise \/ RaiseCard \/ EnterOther \/ EnterSound \/ EnterAgain \/ ProgramSelects
    \/ ProgramMasks \/ Handlers

(* The processor takes an interrupt at the next chance it has (SF: a       *)
(* program that masks lines takes some away), every handler comes to its   *)
(* end, and so does the sound interrupt's loop over the blocks.            *)
Fairness ==
  /\ SF_vars(EnterSound) /\ SF_vars(EnterOther)
  /\ WF_vars(EndOther) /\ WF_vars(ReturnOther) /\ WF_vars(OldEnds) /\ WF_vars(CallOldISR)
  /\ WF_vars(ClientReturns) /\ SF_vars(FinishSound)
Spec == Init /\ [][Next]_vars /\ Fairness

---------------------------------------------------------------------------
(* Every end of interrupt reaches the line it is meant for and comes once: *)
(* what the controllers have in service are the handlers that have not     *)
(* ended their interrupt.  Only the card's may have been ended for it.  An *)
(* interrupt that was not handled is not ended either.                     *)
Active(f) == f.at \in {"start", "open", "main", "client", "chain"}
ServiceIsHandlers ==
  LET active == {f \in {stack[i] : i \in DOMAIN stack} : Active(f)}
      lines  == inService \ {Cascade}
  IN ~skipped =>
       /\ {f.line : f \in active} \ {Card} \subseteq lines
       /\ lines \subseteq {f.line : f \in active}
       /\ Cascade \in inService <=> lines \cap Of("slave") # {}

(* The virtual interrupt is served alone: no other handler runs on top of  *)
(* the client's, whose port writes would not reach the controllers.        *)
ServedAlone == Virtualizing => Runs("client")

(* When no client handler runs, all that a virtual interrupt changed is as *)
(* it was: the mask is the program's, but for a line that a device sharing *)
(* it masked, the guard is off, and protected-mode interrupts of the Sound *)
(* Blaster's line are routed past the client, if HDPMI did not refuse it.  *)
Sharing == \E i \in DOMAIN stack : stack[i].at \in {"chain", "late"}
Restored ==
  ~Virtualizing => /\ mask = wanted \/ (Sharing /\ mask = wanted \cup {Card})
                   /\ ~guard
                   /\ \A l \in SbLines : routing[l].pm \/ l \in refused["on"]

(* The client's handler is the one that is called, if it is that of a line *)
(* a game may be told of: the routing that leads past it is off, if HDPMI  *)
(* did not refuse that.                                                    *)
ClientReached ==
  VIRQ_Irq \in {5, 7} =>
    called = VIRQ_Irq /\ (~routing[called].pm \/ called \in refused["off"])

(* The card's interrupt is served, whatever handlers it comes between, and *)
(* although its line is shared: unless the handler of the device it is     *)
(* shared with allows interrupts, and one came meanwhile ("the newly       *)
(* coming irq will never be processed", main.c:1136).                      *)
CardServed ==
  "card" \in device ~> "card" \notin device \/ (skipped /\ Card \in setup.sti)

(* The handler finds real controllers that serve its line alone, and reads *)
(* from each what it has in service if it selected that.                   *)
Service == IF Virtualizing THEN VIRQ_ISR ELSE {}
Shown == [c \in Controllers |-> IF Virtualizing THEN VIRQ_Read(c) ELSE {}]
View == INSTANCE ClientPic WITH
  Irqs <- SbLines, line <- VIRQ_Irq, service <- Service, shown <- Shown
ClientSeesItsLine == View!Spec

(* "restore routing" (main.c:515). *)
RoutingRestored == ~Virtualizing => \A l \in SbLines : routing[l] = DefaultRoute

(* "new irq arrived after EOI but not for us" (main.c:1121): an interrupt  *)
(* that is taken for another's is not left in service.                     *)
NotOursIsEnded == Runs("main") \/ Runs("client") \/ Runs("chain") \/ Card \notin inService
=============================================================================
