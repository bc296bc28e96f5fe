-------------------------- MODULE VirtualIrqProofs --------------------------
(***************************************************************************)
(* The virtual interrupt runs alone and leaves no trace, for every set of  *)
(* lines and any number of devices and interrupts.  The argument: with     *)
(* every line masked no handler comes on top of the client's, so that the  *)
(* client's frame is the innermost one, and what MAIN_InvokeIRQ put aside  *)
(* is what it puts back, or HDPMI refused to.  The mask that it put aside  *)
(* is the program's, since the sound interrupt is not entered twice: it    *)
(* is not for a sharing device and for the card at a time.                 *)
(***************************************************************************)
EXTENDS VirtualIrq, TLAPS

(* Only the innermost handler can be the client's, and it is exactly while *)
(* virq.c serves a virtual interrupt.                                      *)
ClientOnTop ==
  /\ Virtualizing <=> Runs("client")
  /\ \A i \in 2 .. Len(stack) : stack[i].at # "client"

(* A routing that is read back is that of a routed line, or none. *)
RoutesWhole == \A l \in SbLines : routing[l].pm \/ routing[l] = NoRoute

(* A line's routing is on, unless HDPMI refused to set it again. *)
Routed(l) == routing[l].pm \/ l \in refused["on"]

(* What is put aside during a virtual interrupt. *)
RoutePutAside ==
  /\ \A l \in SbLines : l # VIRQ_Irq => Routed(l)
  /\ IF ~cache[VIRQ_Irq].valid \/ cache[VIRQ_Irq].route = NoRoute THEN Routed(VIRQ_Irq)
     ELSE cache[VIRQ_Irq].route.pm
  /\ ~routing[VIRQ_Irq].pm \/ VIRQ_Irq \in refused["off"]
PutAside ==
  Virtualizing =>
    /\ mask = Lines /\ savedMask = wanted /\ guard
    /\ RoutePutAside
    /\ VIRQ_Irq \in {5, 7} => called = VIRQ_Irq

(* The program's mask never holds the card's line. *)
CardUnmasked == wanted \subseteq setup.others

(* The sound interrupt is entered once. *)
OneSound ==
  \A i, j \in 1 .. Len(stack) : stack[i].at \in Inside /\ stack[j].at \in Inside => i = j

Inv ==
  /\ VirtualIrqTypeOK /\ ClientOnTop /\ PutAside /\ Restored /\ CardUnmasked
  /\ RoutesWhole /\ OneSound

---------------------------------------------------------------------------
LEMMA LineFacts ==
  ASSUME NEW l \in Lines
  PROVE  Taken(l) \subseteq Lines /\ ControllersOf(l) \subseteq Controllers
  BY SMT DEF Taken, Level, Cascade, Lines, ControllersOf, Controllers

LEMMA SetupFacts ==
  ASSUME VirtualIrqTypeOK
  PROVE  /\ Card \in Lines \ {Cascade} /\ setup.others \subseteq Lines \ {Cascade, Card}
         /\ setup.sb \subseteq SbLines /\ SbLines \subseteq Lines
  BY VirtualIrqAssumption DEF VirtualIrqTypeOK, Card, SbLines

LEMMA EOIFacts ==
  ASSUME NEW service \in SUBSET Lines, NEW cs
  PROVE  EOI(service, cs) \subseteq Lines
  BY DEF EOI

LEMMA SendFacts ==
  ASSUME NEW service \in SUBSET Lines, NEW irq
  PROVE  SendEOIWithIRQ(service, irq) \subseteq Lines
  BY EOIFacts, Zenon DEF SendEOIWithIRQ, SendEOI

LEMMA LookedFacts ==
  ASSUME NEW select \in [Controllers -> {"isr", "irr"}], NEW service
  PROVE  Looked(select, service) \in [Controllers -> {"isr", "irr"}]
  BY SMT DEF Looked, Controllers

LEMMA RouteFacts ==
  /\ NoRoute \in Routes /\ DefaultRoute \in Routes /\ ~NoRoute.pm /\ DefaultRoute.pm
  BY SMT DEF NoRoute, DefaultRoute, Routes, Halves

LEMMA GetFacts ==
  ASSUME VirtualIrqTypeOK, NEW irq \in SbLines
  PROVE  /\ GetIRQRoutedHandler(irq) \in Routes
         /\ GetIRQRoutedHandler(irq).pm = routing[irq].pm
  <1>1. routing[irq] \in Routes BY DEF VirtualIrqTypeOK
  <1>2. QED BY <1>1, SMT DEF GetIRQRoutedHandler, Routes, Halves

(* The stack. *)
LEMMA StackFacts ==
  ASSUME stack \in Seq(Frames), NEW f \in Frames, stack' = <<f>> \o stack
  PROVE  /\ stack' \in Seq(Frames) /\ stack' # <<>> /\ Head(stack') = f
         /\ Len(stack') = Len(stack) + 1 /\ \A i \in 2 .. Len(stack') : stack'[i] = stack[i - 1]
  BY SMT

LEMMA GoToFacts ==
  ASSUME stack \in Seq(Frames), stack # <<>>, NEW at, GoTo(at),
         at \in {"start", "open", "done", "main", "client", "chain", "late"}
  PROVE  /\ stack' \in Seq(Frames) /\ stack' # <<>>
         /\ Head(stack').at = at /\ Head(stack').line = Head(stack).line
         /\ Len(stack') = Len(stack) /\ \A i \in 2 .. Len(stack') : stack'[i] = stack[i]
  <1> DEFINE f == [Head(stack) EXCEPT !.at = at]
  <1>1. Head(stack) \in Frames BY SMT
  <1>2. f \in Frames /\ f.at = at /\ f.line = Head(stack).line BY <1>1, SMT DEF Frames
  <1>3. stack' = <<f>> \o Tail(stack) BY Zenon DEF GoTo
  <1> HIDE DEF f
  <1>4. QED BY <1>2, <1>3, SMT

LEMMA ReturnFacts ==
  ASSUME stack \in Seq(Frames), stack # <<>>, Return
  PROVE  /\ stack' \in Seq(Frames) /\ Len(stack') = Len(stack) - 1
         /\ \A i \in 1 .. Len(stack') : stack'[i] = stack[i + 1]
         /\ stack' # <<>> => Head(stack') = stack[2] /\ Len(stack) >= 2
  BY SMT DEF Return

(* No handler is on top of the client's, and none comes. *)
LEMMA NothingDelivered ==
  ASSUME Inv, NEW l \in Lines, Delivers(l)
  PROVE  ~Virtualizing /\ ~Runs("client")
  <1>1. Level(l) \in Lines BY SMT DEF Level, Lines, Cascade
  <1>2. mask # Lines BY <1>1, Zenon DEF Delivers, Accepts
  <1>3. QED BY <1>2, Zenon DEF Inv, PutAside, ClientOnTop

---------------------------------------------------------------------------
LEMMA InitInv == Init => Inv
  <1> SUFFICES ASSUME Init PROVE Inv OBVIOUS
  <1>1. VirtualIrqTypeOK
    <2>1. /\ inService \subseteq Lines /\ mask \subseteq Lines /\ wanted \subseteq Lines
          /\ VIRQ_ISR \subseteq Lines /\ savedMask \subseteq Lines
          /\ request \subseteq setup.others /\ device \subseteq Devices
      BY Zenon DEF Init
    <2>2. /\ ocw3 \in [Controllers -> {"isr", "irr"}] /\ VIRQ_OCW \in [Controllers -> Commands]
      BY SMT DEF Init, Commands
    <2>3. /\ routing \in [SbLines -> Routes]
          /\ cache \in [SbLines -> [valid : BOOLEAN, route : Routes]]
          /\ refused \in [{"off", "on"} -> SUBSET SbLines] /\ skipped \in BOOLEAN
      <3>1. routing \in [SbLines -> Routes] BY RouteFacts, SMT DEF Init
      <3> DEFINE none == [valid |-> FALSE, route |-> NoRoute]
      <3>2. none \in [valid : BOOLEAN, route : Routes] BY RouteFacts, SMT
      <3>3. cache \in [SbLines -> [valid : BOOLEAN, route : Routes]]
        <4>1. cache = [l \in SbLines |-> none] BY Zenon DEF Init
        <4> HIDE DEF none
        <4>2. QED BY <3>2, <4>1, SMT
      <3>4. refused \in [{"off", "on"} -> SUBSET SbLines] /\ skipped \in BOOLEAN
        BY Zenon DEF Init
      <3>5. QED BY <3>1, <3>3, <3>4
    <2>4. /\ raised \in 0 .. MaxRaises /\ stack \in Seq(Frames)
      BY VirtualIrqAssumption, SMT DEF Init
    <2>5. /\ setup \in Setups /\ guard \in BOOLEAN /\ VIRQ_Irq \in SbLines \cup {NoIrq}
          /\ called \in SbLines \cup {7, NoIrq}
      BY Zenon DEF Init
    <2>6. QED BY <2>1, <2>2, <2>3, <2>4, <2>5 DEF VirtualIrqTypeOK
  <1>2. ClientOnTop BY SMT DEF Init, ClientOnTop, Virtualizing, Runs
  <1>3. PutAside /\ CardUnmasked BY SMT DEF Init, PutAside, Virtualizing, CardUnmasked
  <1>4. Restored /\ RoutesWhole BY RouteFacts, SMT DEF Init, Restored, RoutesWhole
  <1>5. OneSound
    <2>1. 1 .. Len(stack) = {} BY SMT DEF Init
    <2>2. QED BY <2>1, Zenon DEF OneSound
  <1>6. QED BY <1>1, <1>2, <1>3, <1>4, <1>5 DEF Inv

(* A step of the devices or of another handler: it touches neither the     *)
(* mask nor virq.c nor the routing.                                        *)
Calm ==
  UNCHANGED <<mask, wanted, VIRQ_Irq, savedMask, setup, guard, routing, cache, called, refused>>

LEMMA CalmKeeps ==
  ASSUME Inv, Calm, Sharing => Sharing'
  PROVE  PutAside' /\ Restored' /\ CardUnmasked' /\ RoutesWhole'
  <1>1. SbLines' = SbLines BY DEF SbLines
  <1>2. Card' = Card /\ Virtualizing' = Virtualizing BY Zenon DEF Calm, Card, Virtualizing
  <1>3. RoutesWhole' BY <1>1, Zenon DEF Inv, Calm, RoutesWhole
  <1>4. PutAside'
    <2>1. RoutePutAside' = RoutePutAside BY <1>1, Zenon DEF Calm, RoutePutAside, Routed
    <2>2. QED BY <1>2, <2>1, Zenon DEF Inv, Calm, PutAside
  <1>5. Restored' BY <1>1, <1>2, Zenon DEF Inv, Calm, Restored
  <1>6. CardUnmasked' BY Zenon DEF Inv, Calm, CardUnmasked
  <1>7. QED BY <1>3, <1>4, <1>5, <1>6

(* While the sound interrupt is the card's, or not entered, the mask is    *)
(* the program's.                                                          *)
LEMMA NotSharing ==
  ASSUME Inv, ~Entered \/ Runs("main")
  PROVE  ~Sharing
  <1>1. stack \in Seq(Frames) /\ OneSound BY DEF Inv, VirtualIrqTypeOK
  <1>2. DOMAIN stack = 1 .. Len(stack) BY <1>1, SMT
  <1>3. CASE ~Entered BY <1>3, Zenon DEF Entered, Sharing, Inside
  <1>4. CASE Runs("main")
    <2>1. 1 \in 1 .. Len(stack) /\ stack[1].at = "main" BY <1>1, <1>4, SMT DEF Runs
    <2>2. \A i \in 1 .. Len(stack) : stack[i].at \in Inside => i = 1
      BY <1>1, <2>1, Zenon DEF OneSound, Inside
    <2>3. \A i \in 1 .. Len(stack) : stack[i].at \in {"chain", "late"} => FALSE
      <3> SUFFICES ASSUME NEW i \in 1 .. Len(stack), stack[i].at \in {"chain", "late"}
                   PROVE  FALSE
        OBVIOUS
      <3>1. stack[i].at \in Inside BY Zenon DEF Inside
      <3>2. i = 1 BY <2>2, <3>1
      <3>3. QED BY <2>1, <3>2, SMT
    <2>4. QED BY <1>2, <2>3, Zenon DEF Sharing
  <1>5. QED BY <1>3, <1>4

LEMMA PushKeeps ==
  ASSUME Inv, ~Virtualizing, ~Runs("client"), VIRQ_Irq' = VIRQ_Irq,
         NEW line \in Lines, NEW at \in {"start", "main", "chain"}, Push(line, at),
         at = "start" \/ ~Entered
  PROVE  ClientOnTop' /\ OneSound' /\ stack' \in Seq(Frames) /\ (Sharing => Sharing')
  <1> DEFINE f == [line |-> line, at |-> at]
  <1>1. f \in Frames /\ f.at = at BY SMT DEF Frames
  <1>2. stack' = <<f>> \o stack BY DEF Push
  <1>3. stack \in Seq(Frames) BY DEF Inv, VirtualIrqTypeOK
  <1> HIDE DEF f
  <1>4. /\ stack' \in Seq(Frames) /\ stack' # <<>> /\ Head(stack') = f
        /\ Len(stack') = Len(stack) + 1 /\ \A i \in 2 .. Len(stack') : stack'[i] = stack[i - 1]
    BY <1>1, <1>2, <1>3, StackFacts
  <1>5. stack # <<>> => stack[1].at # "client" BY <1>3, SMT DEF Runs
  <1>6. \A i \in 2 .. Len(stack) : stack[i].at # "client" BY DEF Inv, ClientOnTop
  <1>7. \A i \in 2 .. Len(stack') : stack'[i].at # "client"
    <2> TAKE i \in 2 .. Len(stack')
    <2>1. CASE i = 2 BY <2>1, <1>3, <1>4, <1>5, SMT
    <2>2. CASE i # 2
      <3>1. i - 1 \in 2 .. Len(stack) BY <2>2, <1>3, <1>4, SMT
      <3>2. QED BY <3>1, <1>4, <1>6
    <2>3. QED BY <2>1, <2>2
  <1>8. ~Virtualizing' BY Zenon DEF Virtualizing
  <1>9. ~Runs("client")' BY <1>1, <1>4, SMT DEF Runs
  <1>10. ClientOnTop' BY <1>4, <1>7, <1>8, <1>9 DEF ClientOnTop
  <1>11. /\ stack'[1] = f
         /\ \A i \in 1 .. Len(stack') : i = 1 \/ (i - 1 \in 1 .. Len(stack) /\ stack'[i] = stack[i - 1])
         /\ \A i \in 1 .. Len(stack) : i + 1 \in 1 .. Len(stack') /\ stack'[i + 1] = stack[i]
         /\ DOMAIN stack = 1 .. Len(stack) /\ DOMAIN stack' = 1 .. Len(stack')
    BY <1>3, <1>4, SMT
  <1>12. OneSound'
    <2>1. at = "start" => f.at \notin Inside BY <1>1, SMT DEF Inside
    <2>2. ~Entered => \A i \in 1 .. Len(stack) : stack[i].at \notin Inside
      BY <1>11, Zenon DEF Entered
    <2>3. SUFFICES ASSUME NEW i \in 1 .. Len(stack'), NEW j \in 1 .. Len(stack'),
                          stack'[i].at \in Inside, stack'[j].at \in Inside
                   PROVE  i = j
      BY Zenon DEF OneSound
    <2>4. CASE at = "start"
      <3>1. i # 1 /\ j # 1 BY <2>1, <2>3, <2>4, <1>11
      <3>2. i - 1 = j - 1 BY <1>11, <2>3, <3>1 DEF Inv, OneSound
      <3>3. QED BY <3>2, SMT
    <2>5. CASE ~Entered
      <3>1. i = 1 /\ j = 1 BY <2>2, <2>3, <2>5, <1>11
      <3>2. QED BY <3>1
    <2>6. QED BY <2>4, <2>5
  <1>13. Sharing => Sharing' BY <1>11 DEF Sharing
  <1>14. QED BY <1>4, <1>10, <1>12, <1>13

LEMMA GoToKeeps ==
  ASSUME Inv, stack # <<>>,
         NEW at \in {"start", "open", "done", "main", "client", "chain", "late"}, GoTo(at),
         at \in Inside => Head(stack).at \in Inside,
         Virtualizing' <=> at = "client"
  PROVE  /\ ClientOnTop' /\ OneSound' /\ stack' \in Seq(Frames)
         /\ (Head(stack).at \in {"chain", "late"} => at \in {"chain", "late"})
              => (Sharing => Sharing')
  <1>1. stack \in Seq(Frames) BY DEF Inv, VirtualIrqTypeOK
  <1>2. /\ stack' \in Seq(Frames) /\ stack' # <<>> /\ Head(stack').at = at
        /\ Len(stack') = Len(stack) /\ \A i \in 2 .. Len(stack') : stack'[i] = stack[i]
    BY <1>1, GoToFacts
  <1>3. \A i \in 2 .. Len(stack) : stack[i].at # "client" BY DEF Inv, ClientOnTop
  <1>4. ClientOnTop' BY <1>2, <1>3, SMT DEF ClientOnTop, Runs
  <1>5. /\ stack'[1].at = at /\ stack[1] = Head(stack)
        /\ \A i \in 1 .. Len(stack') : i \in 1 .. Len(stack) /\ (i = 1 \/ stack'[i] = stack[i])
        /\ \A i \in 1 .. Len(stack) : i \in 1 .. Len(stack') /\ (i = 1 \/ stack'[i] = stack[i])
        /\ DOMAIN stack = 1 .. Len(stack) /\ DOMAIN stack' = 1 .. Len(stack')
    BY <1>1, <1>2, SMT
  <1>6. OneSound'
    <2>1. \A i \in 1 .. Len(stack') : stack'[i].at \in Inside => stack[i].at \in Inside
      BY <1>5
    <2>2. QED BY <1>5, <2>1, Zenon DEF Inv, OneSound
  <1>7. ASSUME Head(stack).at \in {"chain", "late"} => at \in {"chain", "late"}, Sharing
        PROVE  Sharing'
    <2>1. PICK i \in 1 .. Len(stack) : stack[i].at \in {"chain", "late"}
      BY <1>5, <1>7, Zenon DEF Sharing
    <2>2. i \in 1 .. Len(stack') /\ stack'[i].at \in {"chain", "late"} BY <1>5, <1>7, <2>1
    <2>3. QED BY <1>5, <2>2, Zenon DEF Sharing
  <1>8. QED BY <1>2, <1>4, <1>6, <1>7

LEMMA ReturnKeeps ==
  ASSUME Inv, stack # <<>>, ~Runs("client"), Return, VIRQ_Irq' = VIRQ_Irq
  PROVE  /\ ClientOnTop' /\ OneSound' /\ stack' \in Seq(Frames)
         /\ Head(stack).at \notin {"chain", "late"} => (Sharing => Sharing')
  <1>1. stack \in Seq(Frames) BY DEF Inv, VirtualIrqTypeOK
  <1>2. /\ stack' \in Seq(Frames) /\ Len(stack') = Len(stack) - 1
        /\ \A i \in 1 .. Len(stack') : stack'[i] = stack[i + 1]
        /\ stack' # <<>> => Head(stack') = stack[2] /\ Len(stack) >= 2
    BY <1>1, ReturnFacts
  <1>3. \A i \in 2 .. Len(stack) : stack[i].at # "client" BY DEF Inv, ClientOnTop
  <1>4. ~Virtualizing BY DEF Inv, ClientOnTop
  <1>5. ~Virtualizing' BY <1>4, Zenon DEF Virtualizing
  <1>6. ~Runs("client")'
    <2>1. stack' # <<>> => 2 \in 2 .. Len(stack) BY <1>1, <1>2, SMT
    <2>2. QED BY <2>1, <1>2, <1>3, Zenon DEF Runs
  <1>7. \A i \in 2 .. Len(stack') : stack'[i].at # "client"
    <2> TAKE i \in 2 .. Len(stack')
    <2>1. i \in 1 .. Len(stack') /\ i + 1 \in 2 .. Len(stack) BY <1>1, <1>2, SMT
    <2>2. QED BY <2>1, <1>2, <1>3
  <1>8. /\ \A i \in 1 .. Len(stack') : i + 1 \in 1 .. Len(stack) /\ stack'[i] = stack[i + 1]
        /\ \A i \in 1 .. Len(stack) : i = 1 \/ (i - 1 \in 1 .. Len(stack') /\ stack'[i - 1] = stack[i])
        /\ DOMAIN stack = 1 .. Len(stack) /\ DOMAIN stack' = 1 .. Len(stack')
        /\ stack[1] = Head(stack)
    BY <1>1, <1>2, SMT
  <1>9. OneSound'
    <2>1. SUFFICES ASSUME NEW i \in 1 .. Len(stack'), NEW j \in 1 .. Len(stack'),
                          stack'[i].at \in Inside, stack'[j].at \in Inside
                   PROVE  i = j
      BY Zenon DEF OneSound
    <2>2. i + 1 = j + 1 BY <1>8, <2>1 DEF Inv, OneSound
    <2>3. QED BY <2>2, SMT
  <1>10. Head(stack).at \notin {"chain", "late"} => (Sharing => Sharing') BY <1>8 DEF Sharing
  <1>11. QED BY <1>2, <1>5, <1>6, <1>7, <1>9, <1>10 DEF ClientOnTop

(* A command to the controllers keeps all but what it is meant for.        *)
LEMMA WriteKeeps ==
  ASSUME VirtualIrqTypeOK, NEW cs \in SUBSET Controllers, NEW w \in Commands, VIRQ_Write(cs, w)
  PROVE  /\ inService' \subseteq Lines /\ mask' = mask
         /\ ocw3' \in [Controllers -> {"isr", "irr"}]
         /\ VIRQ_ISR' \subseteq Lines /\ VIRQ_OCW' \in [Controllers -> Commands]
         /\ VIRQ_Irq' = VIRQ_Irq /\ savedMask' = savedMask
  <1>1. inService \in SUBSET Lines /\ VIRQ_ISR \subseteq Lines
        /\ ocw3 \in [Controllers -> {"isr", "irr"}] /\ VIRQ_OCW \in [Controllers -> Commands]
    BY DEF VirtualIrqTypeOK
  <1>2. EOI(inService, cs) \subseteq Lines BY <1>1, EOIFacts
  <1>3. VIRQ_OCW' \in [Controllers -> Commands] BY <1>1, SMT DEF VIRQ_Write
  <1>4. inService' \subseteq Lines BY <1>1, <1>2, Zenon DEF VIRQ_Write, picVars
  <1>5. VIRQ_ISR' \subseteq Lines
    <2>1. VIRQ_ISR' = VIRQ_ISR \/ VIRQ_ISR' = VIRQ_ISR \ UNION {Of(c) : c \in cs}
      BY Zenon DEF VIRQ_Write
    <2>2. QED BY <2>1, <1>1, Zenon
  <1>6. ocw3' \in [Controllers -> {"isr", "irr"}]
    <2>1. CASE Virtualizing \/ w = "eoi" BY <2>1, <1>1, Zenon DEF VIRQ_Write, picVars
    <2>2. CASE ~Virtualizing /\ w # "eoi"
      <3>1. w \in {"isr", "irr"} BY <2>2, Zenon DEF Commands
      <3>2. ocw3' = [c \in Controllers |-> IF c \in cs THEN w ELSE ocw3[c]]
        BY <2>2, Zenon DEF VIRQ_Write
      <3>3. QED BY <3>1, <3>2, <1>1, SMT
    <2>3. QED BY <2>1, <2>2
  <1>7. mask' = mask BY Zenon DEF VIRQ_Write, picVars
  <1>8. VIRQ_Irq' = VIRQ_Irq /\ savedMask' = savedMask BY Zenon DEF VIRQ_Write
  <1>9. QED BY <1>3, <1>4, <1>5, <1>6, <1>7, <1>8

---------------------------------------------------------------------------
(* A step that leaves the handlers where they are. *)
LEMMA SameStack ==
  ASSUME Inv, stack' = stack, VIRQ_Irq' = VIRQ_Irq
  PROVE  ClientOnTop' /\ OneSound' /\ (Sharing => Sharing')
  BY Zenon DEF Inv, ClientOnTop, OneSound, Sharing, Virtualizing, Runs

LEMMA RaiseKeeps == ASSUME Inv, Raise PROVE Inv'
  <1>1. Calm BY Zenon DEF Raise, picVars, virqVars, pathVars, Calm
  <1>2. raised' \in 0 .. MaxRaises
    BY VirtualIrqAssumption, SMT DEF Raise, Inv, VirtualIrqTypeOK
  <1>3. request' \subseteq setup'.others BY Zenon DEF Raise, Inv, VirtualIrqTypeOK
  <1>4. VirtualIrqTypeOK'
    BY <1>2, <1>3, Zenon DEF Raise, Inv, VirtualIrqTypeOK, picVars, virqVars, pathVars
  <1>5. ClientOnTop' /\ OneSound' /\ (Sharing => Sharing')
    BY SameStack, Zenon DEF Raise, virqVars
  <1>6. QED BY <1>1, <1>4, <1>5, CalmKeeps DEF Inv

LEMMA RaiseCardKeeps == ASSUME Inv, RaiseCard PROVE Inv'
  <1>1. Calm BY Zenon DEF RaiseCard, picVars, virqVars, pathVars, Calm
  <1>2. device' \subseteq Devices BY Zenon DEF RaiseCard, Inv, VirtualIrqTypeOK
  <1>3. VirtualIrqTypeOK'
    BY <1>2, Zenon DEF RaiseCard, Inv, VirtualIrqTypeOK, picVars, virqVars, pathVars
  <1>4. ClientOnTop' /\ OneSound' /\ (Sharing => Sharing')
    BY SameStack, Zenon DEF RaiseCard, virqVars
  <1>5. QED BY <1>1, <1>3, <1>4, CalmKeeps DEF Inv

LEMMA EnterOtherKeeps == ASSUME Inv, EnterOther PROVE Inv'
  <1> PICK l \in request :
        Delivers(l) /\ inService' = inService \cup Taken(l) /\ request' = request \ {l} /\ Push(l, "start")
    BY Zenon DEF EnterOther
  <1>1. VirtualIrqTypeOK BY DEF Inv
  <1>2. l \in Lines BY <1>1, SetupFacts DEF VirtualIrqTypeOK
  <1>3. Calm BY Zenon DEF EnterOther, virqVars, pathVars, Calm
  <1>4. ~Virtualizing /\ ~Runs("client") BY <1>2, NothingDelivered
  <1>5. ClientOnTop' /\ OneSound' /\ stack' \in Seq(Frames) /\ (Sharing => Sharing')
    BY <1>2, <1>3, <1>4, PushKeeps DEF Calm
  <1>6. inService' \subseteq Lines BY <1>1, <1>2, LineFacts DEF VirtualIrqTypeOK
  <1>7. VirtualIrqTypeOK'
    BY <1>1, <1>5, <1>6, Zenon DEF EnterOther, VirtualIrqTypeOK, virqVars, pathVars
  <1>8. QED BY <1>3, <1>5, <1>7, CalmKeeps DEF Inv

LEMMA AllowKeeps == ASSUME Inv, AllowInterrupts PROVE Inv'
  <1>1. VirtualIrqTypeOK BY DEF Inv
  <1>2. Calm BY Zenon DEF AllowInterrupts, picVars, busVars, virqVars, pathVars, Calm
  <1>3. /\ stack # <<>> /\ ~Runs("client") /\ Head(stack).at \notin {"chain", "late"}
        /\ "open" \notin Inside
    BY SMT DEF AllowInterrupts, Runs, Inside
  <1>4. ~Virtualizing' BY <1>2, <1>3, Zenon DEF Inv, ClientOnTop, Calm, Virtualizing
  <1>5. GoTo("open") BY DEF AllowInterrupts
  <1>6. ClientOnTop' /\ OneSound' /\ stack' \in Seq(Frames) /\ (Sharing => Sharing')
    BY <1>3, <1>4, <1>5, GoToKeeps
  <1>7. VirtualIrqTypeOK'
    BY <1>1, <1>6, Zenon DEF AllowInterrupts, VirtualIrqTypeOK, picVars, busVars, virqVars, pathVars
  <1>8. QED BY <1>2, <1>6, <1>7, CalmKeeps DEF Inv

(* A handler, other than the client's, ends the interrupt of the line l.   *)
LEMMA HandlerEnds ==
  ASSUME Inv, stack # <<>>, ~Runs("client"), NEW l \in Lines, NEW at \in {"done", "late"},
         VIRQ_Write(ControllersOf(l), "eoi"), GoTo(at),
         at = "late" => Runs("chain"), at = "done" => ~Runs("chain") /\ ~Runs("late"),
         UNCHANGED <<setup, raised, request, pathVars, wanted>>, device' \subseteq device
  PROVE  Inv'
  <1>1. VirtualIrqTypeOK BY DEF Inv
  <1>2. ControllersOf(l) \in SUBSET Controllers /\ "eoi" \in Commands
    BY LineFacts, Zenon DEF Commands
  <1>3. /\ inService' \subseteq Lines /\ mask' = mask
        /\ ocw3' \in [Controllers -> {"isr", "irr"}]
        /\ VIRQ_ISR' \subseteq Lines /\ VIRQ_OCW' \in [Controllers -> Commands]
        /\ VIRQ_Irq' = VIRQ_Irq /\ savedMask' = savedMask
    BY <1>1, <1>2, WriteKeeps
  <1>4. Calm BY <1>3, Zenon DEF pathVars, Calm
  <1>5. ~Virtualizing' BY <1>3, Zenon DEF Inv, ClientOnTop, Virtualizing
  <1>6. /\ at \in {"start", "open", "done", "main", "client", "chain", "late"} /\ at # "client"
        /\ at \in Inside => Head(stack).at \in Inside
        /\ Head(stack).at \in {"chain", "late"} => at \in {"chain", "late"}
    BY SMT DEF Inside, Runs
  <1>7. ClientOnTop' /\ OneSound' /\ stack' \in Seq(Frames) /\ (Sharing => Sharing')
    BY <1>5, <1>6, GoToKeeps
  <1>8. VirtualIrqTypeOK'
    BY <1>1, <1>3, <1>7, Zenon DEF VirtualIrqTypeOK, pathVars
  <1>9. QED BY <1>4, <1>7, <1>8, CalmKeeps DEF Inv

LEMMA EndOtherKeeps == ASSUME Inv, EndOther PROVE Inv'
  <1>1. stack # <<>> /\ ~Runs("client") /\ ~Runs("chain") /\ ~Runs("late")
    BY SMT DEF EndOther, Runs
  <1>2. Head(stack).line \in Lines
    <2>1. stack \in Seq(Frames) BY DEF Inv, VirtualIrqTypeOK
    <2>2. Head(stack) \in Frames BY <1>1, <2>1, SMT
    <2>3. QED BY <2>2, SMT DEF Frames
  <1>3. /\ VIRQ_Write(ControllersOf(Head(stack).line), "eoi") /\ GoTo("done")
        /\ UNCHANGED <<setup, raised, request, pathVars, wanted>> /\ device' = device
    BY Zenon DEF EndOther, busVars
  <1>4. "done" \in {"done", "late"} /\ "done" # "late" /\ device' \subseteq device BY <1>3, SMT
  <1>5. QED BY <1>1, <1>2, <1>3, <1>4, HandlerEnds

LEMMA OldEndsKeeps == ASSUME Inv, OldEnds PROVE Inv'
  <1>1. stack # <<>> /\ ~Runs("client") /\ Runs("chain") BY SMT DEF OldEnds, Runs
  <1>2. Card \in Lines BY SetupFacts DEF Inv
  <1>3. /\ VIRQ_Write(ControllersOf(Card), "eoi") /\ GoTo("late")
        /\ UNCHANGED <<setup, raised, request, pathVars, wanted>> /\ device' \subseteq device
    BY Zenon DEF OldEnds
  <1>4. "late" \in {"done", "late"} /\ "done" # "late" BY SMT
  <1>5. QED BY <1>1, <1>2, <1>3, <1>4, HandlerEnds

LEMMA ReturnOtherKeeps == ASSUME Inv, ReturnOther PROVE Inv'
  <1>1. VirtualIrqTypeOK BY DEF Inv
  <1>2. Calm BY Zenon DEF ReturnOther, picVars, busVars, virqVars, pathVars, Calm
  <1>3. stack # <<>> /\ ~Runs("client") /\ Head(stack).at \notin {"chain", "late"}
    BY SMT DEF ReturnOther, Runs
  <1>4. ClientOnTop' /\ OneSound' /\ stack' \in Seq(Frames) /\ (Sharing => Sharing')
    BY <1>2, <1>3, ReturnKeeps DEF ReturnOther, Calm
  <1>5. VirtualIrqTypeOK'
    BY <1>1, <1>4, Zenon DEF ReturnOther, VirtualIrqTypeOK, picVars, busVars, virqVars, pathVars
  <1>6. QED BY <1>2, <1>4, <1>5, CalmKeeps DEF Inv

(* The program's steps and the client's writes, which leave the stack. *)
LEMMA WritesKeep ==
  ASSUME Inv, NEW c \in Controllers, NEW w \in Commands, VIRQ_Write({c}, w),
         UNCHANGED <<busVars, pathVars, stack, wanted>>
  PROVE  Inv'
  <1>1. VirtualIrqTypeOK BY DEF Inv
  <1>2. /\ inService' \subseteq Lines /\ mask' = mask
        /\ ocw3' \in [Controllers -> {"isr", "irr"}]
        /\ VIRQ_ISR' \subseteq Lines /\ VIRQ_OCW' \in [Controllers -> Commands]
        /\ VIRQ_Irq' = VIRQ_Irq /\ savedMask' = savedMask
    <2>1. {c} \in SUBSET Controllers OBVIOUS
    <2>2. QED BY <1>1, <2>1, WriteKeeps
  <1>3. Calm BY <1>2, Zenon DEF busVars, pathVars, Calm
  <1>4. ClientOnTop' /\ OneSound' /\ (Sharing => Sharing') BY <1>2, SameStack
  <1>5. VirtualIrqTypeOK' BY <1>1, <1>2, Zenon DEF VirtualIrqTypeOK, busVars, pathVars
  <1>6. QED BY <1>3, <1>4, <1>5, CalmKeeps DEF Inv

LEMMA ProgramMasksKeeps == ASSUME Inv, ProgramMasks PROVE Inv'
  <1>1. VirtualIrqTypeOK BY DEF Inv
  <1>2. ~Virtualizing /\ ~Virtualizing'
    BY Zenon DEF ProgramMasks, Inv, ClientOnTop, Runs, virqVars, Virtualizing
  <1>3. mask = wanted
    <2>1. stack = <<>> BY DEF ProgramMasks
    <2>2. ~Entered BY <2>1, SMT DEF Entered
    <2>3. QED BY <1>2, <2>2, NotSharing DEF Inv, Restored
  <1>4. wanted' \subseteq setup'.others /\ mask' = wanted'
    <2>1. wanted \subseteq setup.others BY DEF Inv, CardUnmasked
    <2>2. setup' = setup /\ wanted' = mask' BY Zenon DEF ProgramMasks, busVars
    <2>3. PICK l \in setup.others : mask' = IF l \in mask THEN mask \ {l} ELSE mask \cup {l}
      BY Zenon DEF ProgramMasks
    <2>4. QED BY <1>3, <2>1, <2>2, <2>3
  <1>5. wanted' \subseteq Lines
    <2>1. setup' = setup BY Zenon DEF ProgramMasks, busVars
    <2>2. QED BY <1>1, <1>4, <2>1, SetupFacts
  <1>6. VirtualIrqTypeOK'
    BY <1>1, <1>4, <1>5, Zenon DEF ProgramMasks, VirtualIrqTypeOK, busVars, virqVars, pathVars
  <1>7. ClientOnTop' /\ OneSound' BY SameStack, Zenon DEF ProgramMasks, virqVars
  <1>8. Restored'
    BY <1>2, <1>4, Zenon DEF ProgramMasks, Inv, Restored, pathVars, SbLines
  <1>9. PutAside' /\ CardUnmasked' BY <1>2, <1>4 DEF PutAside, CardUnmasked
  <1>10. RoutesWhole' BY Zenon DEF ProgramMasks, pathVars, Inv, RoutesWhole, SbLines
  <1>11. QED BY <1>6, <1>7, <1>8, <1>9, <1>10 DEF Inv

---------------------------------------------------------------------------
(* The sound interrupt. *)
LEMMA EnterSoundKeeps == ASSUME Inv, EnterSound PROVE Inv'
  <1>1. VirtualIrqTypeOK BY DEF Inv
  <1>2. Card \in Lines BY <1>1, SetupFacts
  <1>3. Delivers(Card) /\ ~Entered BY DEF EnterSound
  <1>4. ~Virtualizing /\ ~Runs("client") BY <1>2, <1>3, NothingDelivered
  <1>5. Calm BY Zenon DEF EnterSound, virqVars, pathVars, Calm
  <1>6. ClientOnTop' /\ OneSound' /\ stack' \in Seq(Frames) /\ (Sharing => Sharing')
    <2>1. CASE UNCHANGED stack BY <2>1, <1>1, <1>5, SameStack, Zenon DEF Calm, VirtualIrqTypeOK
    <2>2. CASE Push(Card, "main") BY <2>2, <1>2, <1>3, <1>4, <1>5, PushKeeps DEF Calm
    <2>3. CASE Push(Card, "chain") BY <2>3, <1>2, <1>3, <1>4, <1>5, PushKeeps DEF Calm
    <2>4. QED BY <2>1, <2>2, <2>3, Zenon DEF EnterSound
  <1>7. inService' \subseteq Lines
    <2>1. inService' = inService \cup Taken(Card) BY DEF EnterSound
    <2>2. QED BY <1>1, <1>2, <2>1, LineFacts DEF VirtualIrqTypeOK
  <1>8. ocw3' \in [Controllers -> {"isr", "irr"}]
    <2>1. ocw3' = Looked(ocw3, inService') BY DEF EnterSound
    <2>2. QED BY <1>1, <2>1, LookedFacts DEF VirtualIrqTypeOK
  <1>9. device' \subseteq Devices
    <2>1. device' = device \/ device' = device \ {"card"} BY Zenon DEF EnterSound
    <2>2. QED BY <1>1, <2>1 DEF VirtualIrqTypeOK
  <1>10. VirtualIrqTypeOK'
    BY <1>1, <1>6, <1>7, <1>8, <1>9, Zenon DEF EnterSound, VirtualIrqTypeOK, virqVars, pathVars
  <1>11. QED BY <1>5, <1>6, <1>10, CalmKeeps DEF Inv

LEMMA EnterAgainKeeps == ASSUME Inv, EnterAgain PROVE Inv'
  <1>1. VirtualIrqTypeOK BY DEF Inv
  <1>2. Calm BY Zenon DEF EnterAgain, virqVars, busVars, Calm
  <1>3. ClientOnTop' /\ OneSound' /\ (Sharing => Sharing')
    BY SameStack, Zenon DEF EnterAgain, virqVars
  <1>4. inService' \subseteq Lines
    <2>1. inService' = inService \cup Taken(Card) BY DEF EnterAgain
    <2>2. QED BY <1>1, <2>1, SetupFacts, LineFacts DEF VirtualIrqTypeOK
  <1>5. skipped' \in BOOLEAN BY DEF EnterAgain
  <1>6. VirtualIrqTypeOK'
    BY <1>1, <1>4, <1>5, Zenon DEF EnterAgain, VirtualIrqTypeOK, virqVars, busVars
  <1>7. QED BY <1>2, <1>3, <1>6, CalmKeeps DEF Inv

(* Nothing but the sharing device's handler masks the card's line, and     *)
(* CallOldISR undoes it.                                                   *)
LEMMA MaskFacts ==
  ASSUME Inv
  PROVE  {Card, Level(Card)} \cap wanted = {}
  <1>1. {Card, Level(Card)} \cap setup.others = {}
    BY SetupFacts, Zenon DEF Level, Inv
  <1>2. QED BY <1>1, Zenon DEF Inv, CardUnmasked

LEMMA OldMasksKeeps == ASSUME Inv, OldMasks PROVE Inv'
  <1>1. VirtualIrqTypeOK /\ Card \in Lines BY SetupFacts DEF Inv
  <1>2. stack # <<>> /\ ~Runs("client") BY SMT DEF OldMasks, Runs
  <1>3. ~Virtualizing /\ ~Virtualizing'
    BY <1>2, Zenon DEF OldMasks, Inv, ClientOnTop, virqVars, Virtualizing
  <1>4. Sharing'
    <2>1. stack \in Seq(Frames) BY <1>1 DEF VirtualIrqTypeOK
    <2>2. 1 \in DOMAIN stack /\ stack[1] = Head(stack) BY <1>2, <2>1, SMT
    <2>3. Sharing BY <2>2, Zenon DEF OldMasks, Runs, Sharing
    <2>4. QED BY <2>3, Zenon DEF OldMasks, Sharing
  <1>5. mask' = wanted' \cup {Card'}
    <2>1. mask = wanted \/ mask = wanted \cup {Card} BY <1>3 DEF Inv, Restored
    <2>2. mask' = mask \cup {Card} /\ wanted' = wanted /\ Card' = Card
      BY Zenon DEF OldMasks, busVars, Card
    <2>3. QED BY <2>1, <2>2
  <1>6. VirtualIrqTypeOK'
    <2>1. mask' \subseteq Lines BY <1>1 DEF OldMasks, VirtualIrqTypeOK
    <2>2. QED BY <1>1, <2>1, Zenon DEF OldMasks, VirtualIrqTypeOK, virqVars, busVars, pathVars
  <1>7. ClientOnTop' /\ OneSound' BY SameStack, Zenon DEF OldMasks, virqVars
  <1>8. Restored' BY <1>3, <1>4, <1>5, Zenon DEF OldMasks, Inv, Restored, pathVars, SbLines
  <1>9. PutAside' BY <1>3 DEF PutAside
  <1>10. CardUnmasked' /\ RoutesWhole'
    BY Zenon DEF OldMasks, busVars, pathVars, Inv, CardUnmasked, RoutesWhole, SbLines
  <1>11. QED BY <1>6, <1>7, <1>8, <1>9, <1>10 DEF Inv

LEMMA CallOldISRKeeps == ASSUME Inv, CallOldISR PROVE Inv'
  <1>1. VirtualIrqTypeOK BY DEF Inv
  <1>2. stack # <<>> /\ ~Runs("client") /\ Return BY SMT DEF CallOldISR, Runs
  <1>3. ~Virtualizing /\ ~Virtualizing'
    BY <1>2, Zenon DEF CallOldISR, Inv, ClientOnTop, virqVars, Virtualizing
  <1>4. mask' = wanted'
    <2>1. mask = wanted \/ mask = wanted \cup {Card} BY <1>3 DEF Inv, Restored
    <2>2. mask' = mask \ {Card, Level(Card)} /\ wanted' = wanted
      BY Zenon DEF CallOldISR, Unmasked
    <2>3. QED BY <2>1, <2>2, MaskFacts
  <1>5. VIRQ_Irq' = VIRQ_Irq BY Zenon DEF CallOldISR, virqVars
  <1>6. ClientOnTop' /\ OneSound' /\ stack' \in Seq(Frames) BY <1>2, <1>5, ReturnKeeps
  <1>7. VirtualIrqTypeOK'
    <2>1. mask' \subseteq Lines BY <1>1 DEF CallOldISR, Unmasked, VirtualIrqTypeOK
    <2>2. QED
      BY <1>1, <1>6, <2>1, Zenon DEF CallOldISR, VirtualIrqTypeOK, virqVars, busVars, pathVars
  <1>8. Restored' BY <1>3, <1>4, Zenon DEF CallOldISR, Inv, Restored, pathVars, SbLines
  <1>9. PutAside' BY <1>3 DEF PutAside
  <1>10. CardUnmasked' /\ RoutesWhole'
    BY Zenon DEF CallOldISR, busVars, pathVars, Inv, CardUnmasked, RoutesWhole, SbLines
  <1>11. QED BY <1>6, <1>7, <1>8, <1>9, <1>10 DEF Inv

LEMMA FinishKeeps == ASSUME Inv, FinishSound PROVE Inv'
  <1>1. VirtualIrqTypeOK BY DEF Inv
  <1>2. stack # <<>> /\ ~Runs("client") /\ Head(stack).at \notin {"chain", "late"}
    BY SMT DEF FinishSound, Runs
  <1>3. Calm BY Zenon DEF FinishSound, busVars, virqVars, pathVars, Calm
  <1>4. ClientOnTop' /\ OneSound' /\ stack' \in Seq(Frames) /\ (Sharing => Sharing')
    BY <1>2, <1>3, ReturnKeeps DEF FinishSound, Calm
  <1>5. inService' \subseteq Lines
    BY <1>1, SendFacts DEF FinishSound, VirtualIrqTypeOK
  <1>6. ocw3' \in [Controllers -> {"isr", "irr"}]
    BY <1>1, LookedFacts DEF FinishSound, VirtualIrqTypeOK
  <1>7. VirtualIrqTypeOK'
    BY <1>1, <1>4, <1>5, <1>6, Zenon DEF FinishSound, VirtualIrqTypeOK, busVars, virqVars, pathVars
  <1>8. QED BY <1>3, <1>4, <1>7, CalmKeeps DEF Inv

LEMMA SmmKeeps == ASSUME Inv, SmmEnds PROVE Inv'
  <1>1. VirtualIrqTypeOK BY DEF Inv
  <1>2. Calm BY Zenon DEF SmmEnds, busVars, virqVars, pathVars, Calm
  <1>3. inService' \subseteq Lines BY <1>1, EOIFacts DEF SmmEnds, VirtualIrqTypeOK
  <1>4. VirtualIrqTypeOK'
    BY <1>1, <1>3, Zenon DEF SmmEnds, VirtualIrqTypeOK, busVars, virqVars, pathVars
  <1>5. ClientOnTop' /\ OneSound' /\ (Sharing => Sharing')
    BY SameStack, Zenon DEF SmmEnds, virqVars
  <1>6. QED BY <1>2, <1>4, <1>5, CalmKeeps DEF Inv

---------------------------------------------------------------------------
(* The routing of a line is put aside and set again, or HDPMI refuses. *)
LEMMA DisableFacts ==
  ASSUME VirtualIrqTypeOK, RoutesWhole, \A l \in SbLines : Routed(l),
         NEW irq \in SbLines, DisableIRQRouting(irq), VIRQ_Irq' = irq
  PROVE  /\ routing' \in [SbLines -> Routes]
         /\ cache' \in [SbLines -> [valid : BOOLEAN, route : Routes]]
         /\ refused' \in [{"off", "on"} -> SUBSET SbLines]
         /\ RoutePutAside' /\ RoutesWhole'
  <1> DEFINE get == GetIRQRoutedHandler(irq)
  <1>1. get \in Routes /\ get.pm = routing[irq].pm BY GetFacts
  <1>2. /\ routing \in [SbLines -> Routes]
        /\ cache \in [SbLines -> [valid : BOOLEAN, route : Routes]]
        /\ refused \in [{"off", "on"} -> SUBSET SbLines]
    BY DEF VirtualIrqTypeOK
  <1>3. routing[irq] = NoRoute => get = NoRoute
    BY SMT DEF GetIRQRoutedHandler, NoRoute
  <1>4. get # NoRoute => routing[irq].pm BY <1>3 DEF RoutesWhole
  <1>5. get = NoRoute => ~routing[irq].pm BY <1>1, RouteFacts
  <1>6. SbLines' = SbLines BY DEF SbLines
  <1> HIDE DEF get
  <1>7. \E ok \in BOOLEAN, route \in {get, NoRoute} :
          /\ cache' = [cache EXCEPT ![irq] = [valid |-> ok, route |-> route]]
          /\ ok /\ route # NoRoute => get # NoRoute /\ route = get
    BY Zenon DEF DisableIRQRouting, Keeping, get
  <1>8. \/ /\ refused' = [refused EXCEPT !["off"] = @ \ {irq}]
           /\ routing' = IF get = NoRoute THEN routing ELSE [routing EXCEPT ![irq] = NoRoute]
           /\ cache' = [cache EXCEPT ![irq] = [valid |-> TRUE, route |-> get]]
        \/ refused' = [refused EXCEPT !["off"] = @ \cup {irq}] /\ routing' = routing
    BY Zenon DEF DisableIRQRouting, Keeping, Refusing, Obeying, get
  <1>9. PICK ok \in BOOLEAN, route \in {get, NoRoute} :
          /\ cache' = [cache EXCEPT ![irq] = [valid |-> ok, route |-> route]]
          /\ ok /\ route # NoRoute => get # NoRoute /\ route = get
    BY <1>7
  <1>10. [valid |-> ok, route |-> route] \in [valid : BOOLEAN, route : Routes]
    BY <1>1, RouteFacts
  <1>11. /\ cache' \in [SbLines -> [valid : BOOLEAN, route : Routes]]
         /\ cache'[irq] = [valid |-> ok, route |-> route]
    BY <1>2, <1>9, <1>10
  <1>12. /\ refused' \in [{"off", "on"} -> SUBSET SbLines]
         /\ refused'["on"] = refused["on"]
    BY <1>2, <1>8
  <1>13. \/ routing' = routing
         \/ routing' = [routing EXCEPT ![irq] = NoRoute] /\ get # NoRoute
    BY <1>8
  <1>14. routing' \in [SbLines -> Routes] BY <1>2, <1>13, RouteFacts
  <1>15. RoutesWhole' BY <1>2, <1>6, <1>13 DEF RoutesWhole
  <1>16. ~routing'[irq].pm \/ irq \in refused'["off"]
    <2>1. CASE refused' = [refused EXCEPT !["off"] = @ \cup {irq}] BY <2>1, <1>2
    <2>2. CASE routing' = IF get = NoRoute THEN routing ELSE [routing EXCEPT ![irq] = NoRoute]
      BY <2>2, <1>2, <1>5, RouteFacts
    <2>3. QED BY <2>1, <2>2, <1>8
  <1>17. \A l \in SbLines : l # irq => routing'[l] = routing[l] BY <1>2, <1>13
  <1>18. IF ~ok \/ route = NoRoute THEN Routed(irq)' ELSE route.pm
    <2>1. CASE ok /\ route # NoRoute BY <2>1, <1>1, <1>4, <1>9
    <2>2. CASE ~ok \/ route = NoRoute
      <3>1. routing' = routing
        <4>1. SUFFICES ASSUME routing' # routing PROVE FALSE OBVIOUS
        <4>2. get # NoRoute /\ cache' = [cache EXCEPT ![irq] = [valid |-> TRUE, route |-> get]]
          BY <1>8, <4>1
        <4>3. cache'[irq] = [valid |-> TRUE, route |-> get] BY <1>2, <4>2
        <4>4. ok = TRUE /\ route = get BY <1>11, <4>3
        <4>5. QED BY <2>2, <4>2, <4>4
      <3>2. Routed(irq) BY Zenon
      <3>3. QED BY <2>2, <3>1, <3>2, <1>12 DEF Routed
    <2>3. QED BY <2>1, <2>2
  <1>19. RoutePutAside'
    <2>1. \A l \in SbLines : l # irq => Routed(l)' BY <1>12, <1>17 DEF Routed
    <2>2. cache'[irq].valid = ok /\ cache'[irq].route = route BY <1>11
    <2>3. Routed(irq)' = Routed(VIRQ_Irq)' BY DEF Routed
    <2>4. QED BY <1>6, <1>16, <1>18, <2>1, <2>2, <2>3 DEF RoutePutAside
  <1>20. QED BY <1>11, <1>12, <1>14, <1>15, <1>19

LEMMA EnableFacts ==
  ASSUME VirtualIrqTypeOK, RoutesWhole, VIRQ_Irq \in SbLines, RoutePutAside,
         EnableIRQRouting(VIRQ_Irq)
  PROVE  /\ routing' \in [SbLines -> Routes]
         /\ refused' \in [{"off", "on"} -> SUBSET SbLines]
         /\ RoutesWhole' /\ \A l \in SbLines : routing'[l].pm \/ l \in refused'["on"]
  <1> DEFINE irq == VIRQ_Irq
             c == cache[VIRQ_Irq]
  <1>1. /\ routing \in [SbLines -> Routes] /\ c.route \in Routes
        /\ refused \in [{"off", "on"} -> SUBSET SbLines] /\ SbLines' = SbLines
    <2>1. c \in [valid : BOOLEAN, route : Routes] BY DEF VirtualIrqTypeOK
    <2>2. QED BY <2>1 DEF VirtualIrqTypeOK, SbLines
  <1>2. \A l \in SbLines : l # irq => Routed(l) BY DEF RoutePutAside
  <1>3. CASE ~c.valid \/ c.route = NoRoute
    <2>1. UNCHANGED <<routing, refused>> BY <1>3, Zenon DEF EnableIRQRouting
    <2>2. Routed(irq) BY <1>3, Zenon DEF RoutePutAside
    <2>3. QED BY <1>1, <1>2, <2>1, <2>2 DEF Routed, RoutesWhole
  <1>4. CASE ~(~c.valid \/ c.route = NoRoute)
    <2>1. c.route.pm BY <1>4, Zenon DEF RoutePutAside
    <2>2. \/ /\ routing' = [routing EXCEPT ![irq] = c.route]
             /\ refused' = [refused EXCEPT !["on"] = @ \ {irq}]
          \/ routing' = routing /\ refused' = [refused EXCEPT !["on"] = @ \cup {irq}]
      BY <1>4, Zenon DEF EnableIRQRouting, Obeying, Refusing
    <2> HIDE DEF c, irq
    <2>3. CASE /\ routing' = [routing EXCEPT ![irq] = c.route]
               /\ refused' = [refused EXCEPT !["on"] = @ \ {irq}]
      <3>1. \A l \in SbLines : routing'[l] = IF l = irq THEN c.route ELSE routing[l]
        BY <1>1, <2>3
      <3>2. refused'["on"] = refused["on"] \ {irq} BY <1>1, <2>3
      <3>3. RoutesWhole' BY <1>1, <2>1, <3>1 DEF RoutesWhole
      <3>4. QED BY <1>1, <1>2, <2>1, <2>3, <3>1, <3>2, <3>3 DEF Routed
    <2>4. CASE routing' = routing /\ refused' = [refused EXCEPT !["on"] = @ \cup {irq}]
      <3>1. refused'["on"] = refused["on"] \cup {irq} BY <1>1, <2>4
      <3>2. RoutesWhole' BY <1>1, <2>4 DEF RoutesWhole
      <3>3. irq \in SbLines BY DEF irq
      <3>4. QED BY <1>1, <1>2, <2>4, <3>1, <3>2, <3>3 DEF Routed
    <2>5. QED BY <2>2, <2>3, <2>4
  <1>5. QED BY <1>3, <1>4

(* The virtual interrupt: everything is put aside ... *)
LEMMA InvokeKeeps == ASSUME Inv, InvokeIRQ PROVE Inv'
  <1>1. VirtualIrqTypeOK /\ RoutesWhole BY DEF Inv
  <1>2. /\ stack # <<>> /\ Runs("main") /\ ~Runs("client") /\ Head(stack).at = "main"
        /\ "main" \in Inside
    BY SMT DEF InvokeIRQ, Runs, Inside
  <1>3. ~Virtualizing BY <1>2 DEF Inv, ClientOnTop
  <1>4. mask = wanted /\ \A l \in SbLines : Routed(l)
    BY <1>2, <1>3, NotSharing DEF Inv, Restored, Routed
  <1> PICK irq \in setup.sb, vm \in BOOLEAN :
        /\ DisableIRQRouting(irq)
        /\ VIRQ_Irq' = irq /\ VIRQ_ISR' = Taken(irq)
        /\ called' = CalledLine(irq, vm)
    BY Zenon DEF InvokeIRQ
  <1>5. irq \in SbLines /\ irq \in Lines BY <1>1, SetupFacts
  <1>6. irq # NoIrq BY <1>5, SMT DEF Lines, NoIrq
  <1>7. Virtualizing' BY <1>6, Zenon DEF Virtualizing
  <1>8. /\ routing' \in [SbLines -> Routes]
        /\ cache' \in [SbLines -> [valid : BOOLEAN, route : Routes]]
        /\ refused' \in [{"off", "on"} -> SUBSET SbLines]
        /\ RoutePutAside' /\ RoutesWhole'
    BY <1>1, <1>4, <1>5, DisableFacts
  <1>9. called' \in SbLines \cup {7, NoIrq} /\ (irq \in {5, 7} => called' = irq)
    BY <1>5, SMT DEF CalledLine
  <1>10. mask' = Lines /\ savedMask' = mask /\ guard' = TRUE /\ wanted' = wanted
         /\ setup' = setup
    BY Zenon DEF InvokeIRQ, busVars
  <1>11. PutAside' BY <1>4, <1>8, <1>9, <1>10, Zenon DEF PutAside
  <1>12. Restored' BY <1>7 DEF Restored
  <1>13. CardUnmasked' BY <1>10 DEF Inv, CardUnmasked
  <1>14. GoTo("client") BY DEF InvokeIRQ
  <1>15. ClientOnTop' /\ OneSound' /\ stack' \in Seq(Frames) BY <1>2, <1>7, <1>14, GoToKeeps
  <1>16. VIRQ_ISR' \subseteq Lines BY <1>5, LineFacts
  <1>17. VirtualIrqTypeOK'
    BY <1>1, <1>5, <1>8, <1>9, <1>10, <1>15, <1>16, Zenon
    DEF InvokeIRQ, VirtualIrqTypeOK, busVars, SbLines
  <1>18. QED BY <1>8, <1>11, <1>12, <1>13, <1>15, <1>17 DEF Inv

(* ... and put back. *)
LEMMA ClientReturnsKeeps == ASSUME Inv, ClientReturns PROVE Inv'
  <1>1. VirtualIrqTypeOK /\ RoutesWhole BY DEF Inv
  <1>2. stack # <<>> /\ Head(stack).at = "client" /\ "client" \in Inside /\ "main" # "client"
    BY SMT DEF ClientReturns, Runs, Inside
  <1>3. Virtualizing BY DEF Inv, ClientOnTop, ClientReturns
  <1>4. ~Virtualizing' BY Zenon DEF ClientReturns, Virtualizing
  <1>5. VIRQ_Irq \in SbLines BY <1>1, <1>3, Zenon DEF VirtualIrqTypeOK, Virtualizing
  <1>6. savedMask = wanted /\ RoutePutAside BY <1>3, Zenon DEF Inv, PutAside
  <1>7. /\ routing' \in [SbLines -> Routes]
        /\ refused' \in [{"off", "on"} -> SUBSET SbLines]
        /\ RoutesWhole' /\ \A l \in SbLines : routing'[l].pm \/ l \in refused'["on"]
    <2>1. EnableIRQRouting(VIRQ_Irq) BY DEF ClientReturns
    <2>2. QED BY <1>1, <1>5, <1>6, <2>1, EnableFacts
  <1>8. /\ mask' = savedMask /\ savedMask' = {} /\ guard' = FALSE /\ wanted' = wanted
        /\ setup' = setup /\ VIRQ_Irq' = NoIrq /\ called' = NoIrq /\ cache' = cache
    BY Zenon DEF ClientReturns, busVars
  <1>9. Restored' BY <1>6, <1>7, <1>8, Zenon DEF Restored, SbLines
  <1>10. PutAside' BY <1>4 DEF PutAside
  <1>11. CardUnmasked' BY <1>8 DEF Inv, CardUnmasked
  <1>12. GoTo("main") BY DEF ClientReturns
  <1>13. ClientOnTop' /\ OneSound' /\ stack' \in Seq(Frames) BY <1>2, <1>4, <1>12, GoToKeeps
  <1>14. mask' \subseteq Lines BY <1>1, <1>8 DEF VirtualIrqTypeOK
  <1>15. VirtualIrqTypeOK'
    BY <1>1, <1>7, <1>8, <1>13, <1>14, Zenon
    DEF ClientReturns, VirtualIrqTypeOK, busVars, SbLines
  <1>16. QED BY <1>7, <1>9, <1>10, <1>11, <1>13, <1>15 DEF Inv

---------------------------------------------------------------------------
LEMMA NextKeeps == ASSUME Inv, [Next]_vars PROVE Inv'
  <1>1. CASE UNCHANGED vars
    BY <1>1, Zenon DEF vars, picVars, busVars, virqVars, pathVars, Inv, VirtualIrqTypeOK,
      ClientOnTop, PutAside, RoutePutAside, Routed, Restored, CardUnmasked, RoutesWhole, OneSound,
      Sharing, Virtualizing, Runs, SbLines, Card
  <1>2. CASE ProgramSelects
    <2> PICK c \in Controllers, w \in {"isr", "irr"} : VIRQ_Write({c}, w) BY <1>2 DEF ProgramSelects
    <2>1. w \in Commands BY DEF Commands
    <2>2. UNCHANGED <<busVars, pathVars, stack, wanted>> BY <1>2 DEF ProgramSelects
    <2>3. QED BY <2>1, <2>2, WritesKeep
  <1>3. CASE ClientWrite
    <2> PICK c \in Controllers, w \in Commands : VIRQ_Write({c}, w) BY <1>3 DEF ClientWrite
    <2>1. UNCHANGED <<busVars, pathVars, stack, wanted>> BY <1>3 DEF ClientWrite
    <2>2. QED BY <2>1, WritesKeep
  <1>4. QED
    BY <1>1, <1>2, <1>3, RaiseKeeps, RaiseCardKeeps, EnterOtherKeeps, EnterSoundKeeps,
      EnterAgainKeeps, ProgramMasksKeeps, AllowKeeps, EndOtherKeeps, ReturnOtherKeeps,
      OldMasksKeeps, OldEndsKeeps, CallOldISRKeeps, InvokeKeeps, ClientReturnsKeeps, SmmKeeps, FinishKeeps
    DEF Next, Handlers

(* The inductive invariant holds in every reachable state.                *)
THEOREM InvHolds == Spec => []Inv
  BY InitInv, NextKeeps, PTL DEF Spec

(* Every variable of the interrupt path keeps its type. *)
THEOREM VirtualIrqTypeCorrect == Spec => []VirtualIrqTypeOK
  <1>1. Inv => VirtualIrqTypeOK BY DEF Inv
  <1>2. QED BY <1>1, InvHolds, PTL

(* No handler runs on top of the client's during a virtual interrupt. *)
THEOREM ServedAloneHolds == Spec => []ServedAlone
  <1>1. Inv => ServedAlone BY DEF Inv, ClientOnTop, ServedAlone
  <1>2. QED BY <1>1, InvHolds, PTL

(* After a virtual interrupt the mask is the program's, but for a line     *)
(* that a sharing device masked, the guard is off, and protected-mode      *)
(* interrupts are routed past the client again, if HDPMI does not refuse.  *)
THEOREM RestoredHolds == Spec => []Restored
  <1>1. Inv => Restored BY DEF Inv
  <1>2. QED BY <1>1, InvHolds, PTL

(* The client's handler is called, on lines 5 and 7, unless HDPMI refuses  *)
(* to take the routing off.                                                *)
THEOREM ClientReachedHolds == Spec => []ClientReached
  <1>1. ASSUME Inv, VIRQ_Irq \in {5, 7} PROVE called = VIRQ_Irq /\ (~routing[called].pm \/ called \in refused["off"])
    <2>1. Virtualizing BY <1>1, SMT DEF Virtualizing, NoIrq
    <2>2. QED BY <1>1, <2>1, Zenon DEF Inv, PutAside, RoutePutAside
  <1>2. Inv => ClientReached BY <1>1 DEF ClientReached
  <1>3. QED BY <1>2, InvHolds, PTL

---------------------------------------------------------------------------
(* What virq.c has in service is no more than the line it serves takes.    *)
Served == Virtualizing => VIRQ_ISR \subseteq Taken(VIRQ_Irq)

ViewNext == View!Next \/ UNCHANGED <<VIRQ_Irq, Service, Shown>>

(* The abstract controllers are the same ones. *)
LEMMA SameControllers ==
  /\ View!Controllers = Controllers
  /\ \A c : View!Of(c) = Of(c)
  /\ \A l : View!Taken(l) = Taken(l)
  /\ \A S, cs : View!EOI(S, cs) = EOI(S, cs)
  BY Zenon DEF View!Controllers, Controllers, View!Of, Of, View!Taken, Taken, View!Level, Level,
    View!Cascade, Cascade, View!EOI, EOI, View!Lowest, Lowest

(* A controller has at most one of these lines in service, and the end of  *)
(* an interrupt is the end of all it has.                                  *)
LEMMA OneEach ==
  ASSUME NEW l \in Lines, NEW c \in Controllers, NEW S \in SUBSET Taken(l)
  PROVE  /\ Lowest(S \cap Of(c)) = S \cap Of(c)
         /\ EOI(S, {c}) = S \ Of(c)
  <1>1. \A x, y \in S \cap Of(c) : x = y
    BY SMT DEF Taken, Level, Lines, Cascade, Controllers, Of
  <1>2. \A x \in S : x \in Int BY SMT DEF Taken, Level, Lines, Cascade
  <1>3. Lowest(S \cap Of(c)) = S \cap Of(c) BY <1>1, <1>2, SMT DEF Lowest
  <1>4. EOI(S, {c}) = S \ (S \cap Of(c)) BY <1>3, Zenon DEF EOI
  <1>5. QED BY <1>3, <1>4

LEMMA ShownIs ==
  /\ Shown = [c \in Controllers |->
       IF Virtualizing /\ VIRQ_OCW[c] = "isr" THEN VIRQ_ISR \cap Of(c) ELSE {}]
  /\ Shown' = [c \in Controllers |->
       IF Virtualizing' /\ VIRQ_OCW'[c] = "isr" THEN VIRQ_ISR' \cap Of(c) ELSE {}]
  BY SMT DEF Shown, VIRQ_Read

(* A step that leaves virq.c alone, or outside a virtual interrupt. *)
LEMMA QuietView ==
  ASSUME Served, VIRQ_Irq' = VIRQ_Irq,
         Virtualizing => VIRQ_ISR' = VIRQ_ISR /\ VIRQ_OCW' = VIRQ_OCW
  PROVE  Served' /\ UNCHANGED <<VIRQ_Irq, Service, Shown>>
  <1>1. Virtualizing' = Virtualizing BY Zenon DEF Virtualizing
  <1>2. Service' = Service BY <1>1, Zenon DEF Service
  <1>3. CASE Virtualizing
    <2>1. VIRQ_ISR' = VIRQ_ISR /\ VIRQ_OCW' = VIRQ_OCW BY <1>3
    <2>2. Shown' = Shown BY <1>1, <1>3, <2>1, ShownIs
    <2>3. QED BY <1>1, <1>2, <2>1, <2>2 DEF Served
  <1>4. CASE ~Virtualizing
    <2>1. Shown' = Shown BY <1>1, <1>4, ShownIs
    <2>2. QED BY <1>1, <1>2, <1>4, <2>1 DEF Served
  <1>5. QED BY <1>3, <1>4

LEMMA InvokeView ==
  ASSUME Inv, InvokeIRQ
  PROVE  Served' /\ View!Take
  <1>1. ~Virtualizing BY SMT DEF InvokeIRQ, Runs, Inv, ClientOnTop
  <1> PICK irq \in setup.sb : VIRQ_Irq' = irq /\ VIRQ_ISR' = Taken(irq)
    BY Zenon DEF InvokeIRQ
  <1>2. irq \in SbLines /\ irq \in Lines BY SetupFacts DEF Inv
  <1>3. Virtualizing' BY <1>2, SMT DEF Virtualizing, Lines, NoIrq
  <1>4. Service' = Taken(irq) BY <1>3, Zenon DEF Service
  <1> DEFINE cs == {c \in Controllers : VIRQ_OCW'[c] = "isr"}
  <1>5. Shown' = [c \in Controllers |-> IF c \in cs THEN Service' \cap Of(c) ELSE {}]
    BY <1>3, <1>4, ShownIs
  <1>6. cs \in SUBSET Controllers OBVIOUS
  <1> HIDE DEF cs
  <1>7. Shown' = [c \in View!Controllers |-> IF c \in cs THEN Service' \cap View!Of(c) ELSE {}]
    BY <1>5, SameControllers
  <1>8. Service' = View!Taken(VIRQ_Irq') BY <1>4, SameControllers
  <1>9. cs \in SUBSET View!Controllers BY <1>6, SameControllers
  <1>10. View!Take BY <1>1, <1>2, <1>7, <1>8, <1>9, Zenon DEF View!Take, Virtualizing
  <1>11. QED BY <1>10 DEF Served

LEMMA ReturnView ==
  ASSUME Inv, ClientReturns
  PROVE  Served' /\ View!Return
  <1>1. Virtualizing BY Zenon DEF ClientReturns, Inv, ClientOnTop
  <1>2. VIRQ_Irq' = NoIrq BY DEF ClientReturns
  <1>3. ~Virtualizing' BY <1>2, Zenon DEF Virtualizing
  <1>4. Service' = {} BY <1>3, Zenon DEF Service
  <1>5. Shown' = View!Nothing BY <1>3, ShownIs, SameControllers DEF View!Nothing
  <1>6. QED BY <1>1, <1>2, <1>3, <1>4, <1>5 DEF View!Return, Virtualizing, Served

LEMMA WriteView ==
  ASSUME Inv, Served, ClientWrite
  PROVE  Served' /\ ViewNext
  <1>1. Virtualizing BY Zenon DEF ClientWrite, Inv, ClientOnTop
  <1> PICK c \in Controllers, w \in Commands : VIRQ_Write({c}, w) BY Zenon DEF ClientWrite
  <1>2. VIRQ_Irq' = VIRQ_Irq BY Zenon DEF VIRQ_Write
  <1>3. Virtualizing' BY <1>1, <1>2, Zenon DEF Virtualizing
  <1>4. Service = VIRQ_ISR /\ Service' = VIRQ_ISR' BY <1>1, <1>3, Zenon DEF Service
  <1>5. VIRQ_OCW' = [d \in Controllers |-> IF d = c THEN w ELSE VIRQ_OCW[d]]
    BY SMT DEF VIRQ_Write
  <1>6. VIRQ_Irq \in Lines
    <2>1. VIRQ_Irq \in SbLines BY <1>1, Zenon DEF Inv, VirtualIrqTypeOK, Virtualizing
    <2>2. QED BY <2>1, SetupFacts DEF Inv
  <1>7. VIRQ_ISR \in SUBSET Taken(VIRQ_Irq) BY <1>1 DEF Served
  <1>8. VIRQ_Irq # NoIrq BY <1>1, Zenon DEF Virtualizing
  <1>9. Shown = [d \in Controllers |-> IF VIRQ_OCW[d] = "isr" THEN VIRQ_ISR \cap Of(d) ELSE {}]
    BY <1>1, ShownIs
  <1>10. Shown' = [d \in Controllers |-> IF VIRQ_OCW'[d] = "isr" THEN VIRQ_ISR' \cap Of(d) ELSE {}]
    BY <1>3, ShownIs
  <1>11. CASE w = "eoi"
    <2>1. VIRQ_ISR' = VIRQ_ISR \ Of(c) BY <1>1, <1>11, SMT DEF VIRQ_Write
    <2>2. VIRQ_ISR' = View!EOI(VIRQ_ISR, {c})
      BY <1>6, <1>7, <2>1, OneEach, SameControllers, Zenon
    <2>3. VIRQ_ISR' \cap Of(c) = {} BY <2>1
    <2>4. \A d \in Controllers \ {c} : Of(d) \cap Of(c) = {}
      BY SMT DEF Of, Controllers
    <2>5. Shown' = [d \in Controllers |-> Shown[d] \cap VIRQ_ISR']
      BY <1>5, <1>9, <1>10, <1>11, <2>1, <2>3, <2>4, SMT
    <2>6. Shown' = [d \in View!Controllers |-> Shown[d] \cap Service']
      BY <1>4, <2>5, SameControllers
    <2>7. View!End(c) BY <1>2, <1>4, <1>8, <2>2, <2>6, Zenon DEF View!End
    <2>8. ViewNext BY <2>7, SameControllers, Zenon DEF ViewNext, View!Next
    <2>9. QED BY <1>2, <1>7, <2>1, <2>8, Zenon DEF Served
  <1>12. CASE w # "eoi"
    <2>1. VIRQ_ISR' = VIRQ_ISR BY <1>1, <1>12, SMT DEF VIRQ_Write
    <2>2. CASE w = "isr"
      <3> DEFINE s == [d \in Controllers |-> IF d = c THEN VIRQ_ISR \cap Of(c) ELSE Shown[d]]
      <3>1. \A d \in Controllers : VIRQ_OCW'[d] = "isr" <=> (IF d = c THEN w = "isr" ELSE VIRQ_OCW[d] = "isr")
        BY <1>5
      <3>2. \A d \in Controllers : Shown'[d] = s[d]
        BY <1>9, <1>10, <2>1, <2>2, <3>1
      <3>3. Shown' = s BY <1>10, <3>2
      <3>4. Shown' = [Shown EXCEPT ![c] = VIRQ_ISR \cap Of(c)] BY <1>9, <3>3
      <3>5. View!Select(c) BY <1>2, <1>4, <1>8, <2>1, <3>4, SameControllers DEF View!Select
      <3>6. ViewNext BY <3>5, SameControllers, Zenon DEF ViewNext, View!Next
      <3>7. QED BY <1>2, <1>7, <2>1, <3>6, Zenon DEF Served
    <2>3. CASE w # "isr"
      <3> DEFINE s == [d \in Controllers |-> IF d = c THEN {} ELSE Shown[d]]
      <3>1. \A d \in Controllers : VIRQ_OCW'[d] = "isr" <=> (IF d = c THEN w = "isr" ELSE VIRQ_OCW[d] = "isr")
        BY <1>5
      <3>2. \A d \in Controllers : Shown'[d] = s[d]
        BY <1>9, <1>10, <2>1, <2>3, <3>1
      <3>3. Shown' = s BY <1>10, <3>2
      <3>4. Shown' = [Shown EXCEPT ![c] = {}] BY <1>9, <3>3
      <3>5. View!Deselect(c) BY <1>2, <1>4, <1>8, <2>1, <3>4, SameControllers DEF View!Deselect
      <3>6. ViewNext BY <3>5, SameControllers, Zenon DEF ViewNext, View!Next
      <3>7. QED BY <1>2, <1>7, <2>1, <3>6, Zenon DEF Served
    <2>4. QED BY <2>2, <2>3
  <1>13. QED BY <1>11, <1>12

LEMMA NextView ==
  ASSUME Inv, Served, [Next]_vars
  PROVE  Served' /\ ViewNext
  <1>1. CASE InvokeIRQ BY <1>1, InvokeView, Zenon DEF ViewNext, View!Next
  <1>2. CASE ClientReturns BY <1>2, ReturnView, Zenon DEF ViewNext, View!Next
  <1>3. CASE ClientWrite BY <1>3, WriteView
  <1>4. CASE UNCHANGED virqVars
    BY <1>4, QuietView, Zenon DEF virqVars, ViewNext
  <1>5. CASE EndOther \/ OldEnds
    <2>1. ~Virtualizing BY <1>5, SMT DEF EndOther, OldEnds, Runs, Inv, ClientOnTop
    <2>2. VIRQ_Irq' = VIRQ_Irq BY <1>5, Zenon DEF EndOther, OldEnds, VIRQ_Write
    <2>3. QED BY <2>1, <2>2, QuietView DEF ViewNext
  <1>6. CASE ProgramSelects
    <2>1. ~Virtualizing BY <1>6, Zenon DEF ProgramSelects, Runs, Inv, ClientOnTop
    <2>2. VIRQ_Irq' = VIRQ_Irq BY <1>6, Zenon DEF ProgramSelects, VIRQ_Write
    <2>3. QED BY <2>1, <2>2, QuietView DEF ViewNext
  <1>7. \/ UNCHANGED virqVars \/ InvokeIRQ \/ ClientReturns \/ ClientWrite
        \/ EndOther \/ OldEnds \/ ProgramSelects
    BY Zenon DEF Next, Handlers, vars, Raise, RaiseCard, EnterOther, EnterSound, ProgramMasks,
      EnterAgain, AllowInterrupts, ReturnOther, OldMasks, CallOldISR, SmmEnds, FinishSound, virqVars
  <1>8. QED BY <1>1, <1>2, <1>3, <1>4, <1>5, <1>6, <1>7

(* What a client's handler finds in the controllers and reads from them is *)
(* what real ones would have and show that serve its line alone.           *)
THEOREM ClientSeesItsLineHolds == Spec => ClientSeesItsLine
  <1>1. Init => Served /\ View!Init
    <2> SUFFICES ASSUME Init PROVE Served /\ View!Init OBVIOUS
    <2>1. ~Virtualizing BY Zenon DEF Init, Virtualizing
    <2>2. Service = {} /\ VIRQ_Irq = NoIrq BY <2>1, Zenon DEF Service, Init
    <2>3. Shown = View!Nothing BY <2>1, ShownIs, SameControllers DEF View!Nothing
    <2>4. QED BY <2>1, <2>2, <2>3 DEF Served, View!Init
  <1>2. Inv /\ Served /\ [Next]_vars => Served' /\ [View!Next]_<<VIRQ_Irq, Service, Shown>>
    BY NextView DEF ViewNext
  <1>3. QED BY <1>1, <1>2, InvHolds, PTL DEF Spec, ClientSeesItsLine, View!Spec
=============================================================================
