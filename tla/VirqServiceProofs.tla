------------------------- MODULE VirqServiceProofs -------------------------
(***************************************************************************)
(* Every end of interrupt reaches the line it is meant for, for every set  *)
(* of lines where no handler that allows interrupts has a lower priority   *)
(* than the card and a lower number, until an interrupt of the card comes  *)
(* that is not handled.  The argument: only handlers that allow interrupts *)
(* are interrupted, each by one of a higher priority if it has not ended   *)
(* its own, so that the line an end of interrupt clears, the highest in    *)
(* service, is that of the innermost handler.                              *)
(***************************************************************************)
EXTENDS VirtualIrqProofs

(* pic.c takes the lowest number for the highest priority: it is, if no    *)
(* handler that the card's interrupt may come upon has a lower number.     *)
NumbersArePriorities ==
  \A s \in Setups : \A l \in s.sti : Before(s.card, l) => s.card < l

(* Whose the handlers are; those that are interrupted allowed it. *)
Interrupted == {"open", "chain", "late"}
HandlersOwn ==
  \A i \in 1 .. Len(stack) :
    /\ stack[i].at \in {"start", "open", "done"} => stack[i].line \in setup.others
    /\ stack[i].at = "open" => stack[i].line \in setup.sti
    /\ stack[i].at \in {"main", "client", "chain", "late"} => stack[i].line = Card
    /\ i > 1 => stack[i].at \in Interrupted /\ stack[i].line \in setup.sti

(* A handler that has not ended its interrupt is interrupted by one of a   *)
(* higher priority.                                                        *)
Ordered ==
  \A i, j \in 1 .. Len(stack) :
    i < j /\ stack[j].at # "late" => Level(stack[i].line) < Level(stack[j].line)

(* The controllers have in service what the interrupted handlers keep and, *)
(* until it ends, the line of the innermost one.                           *)
Keepers == {i \in 2 .. Len(stack) : stack[i].at # "late"}
Kept == UNION {Taken(stack[i].line) : i \in Keepers}
Over == Runs("done") \/ Runs("late")
Ended == Over \/ Runs("main") \/ Runs("client")
InServiceIs ==
  IF stack = <<>> THEN inService = {}
  ELSE \/ ~Over /\ inService = Kept \cup Taken(Head(stack).line)
       \/ Ended /\ inService = Kept

ServiceInv == Inv /\ HandlersOwn /\ Ordered /\ InServiceIs

---------------------------------------------------------------------------
(* The controllers: what a line taken on top of others adds, and its end   *)
(* takes away.                                                             *)
Beneath(l, service) ==
  /\ service \subseteq Lines
  /\ \A s \in service : /\ s < 8 => Level(l) < s
                        /\ s >= 8 => Cascade \in service

LEMMA LevelFacts ==
  ASSUME NEW l \in Lines \ {Cascade}
  PROVE  /\ Level(l) \in 0 .. 7 /\ Level(l) <= l
         /\ l < 8 => Level(l) = l
         /\ l >= 8 => Level(l) = Cascade
         /\ \A m \in Taken(l) : m \in Lines /\ (m = l \/ m = Level(l))
         /\ l \in Taken(l) /\ Level(l) \in Taken(l)
  BY SMT DEF Lines, Cascade, Level, Taken

LEMMA BeneathSlave ==
  ASSUME NEW l \in Lines \ {Cascade}, NEW service, Beneath(l, service), l >= 8
  PROVE  \A s \in service : s < 8 /\ s # Cascade
  <1>1. Level(l) = 2 BY SMT DEF Level, Cascade
  <1>2. Cascade \notin service BY <1>1, SMT DEF Beneath, Cascade
  <1>3. QED BY <1>2, SMT DEF Beneath, Lines

LEMMA NotTwice ==
  ASSUME NEW l \in Lines \ {Cascade}, NEW service, Beneath(l, service)
  PROVE  l \notin service /\ Level(l) \notin service
  <1>1. Level(l) \notin service BY LevelFacts, SMT DEF Beneath
  <1>2. CASE l < 8 BY <1>1, <1>2, LevelFacts
  <1>3. CASE l >= 8 BY <1>1, <1>3, BeneathSlave, SMT DEF Lines
  <1>4. QED BY <1>1, <1>2, <1>3, SMT DEF Lines

(* The end of the innermost handler's interrupt clears its line alone. *)
LEMMA EOIEnds ==
  ASSUME NEW l \in Lines \ {Cascade}, NEW service, Beneath(l, service)
  PROVE  EOI(service \cup Taken(l), ControllersOf(l)) = service
  <1> DEFINE all == service \cup Taken(l)
  <1>1. l \notin service /\ Level(l) \notin service BY NotTwice
  <1>2. Lowest(all \cap Of("master")) = {Level(l)}
    <2>1. Level(l) \in all \cap Of("master") BY LevelFacts, SMT DEF Of
    <2>2. \A m \in all \cap Of("master") : Level(l) <= m
      <3> TAKE m \in all \cap Of("master")
      <3>1. m \in 0 .. 7 BY SMT DEF Of
      <3>2. CASE m \in service BY <3>1, <3>2, LevelFacts, SMT DEF Beneath
      <3>3. CASE m \in Taken(l) BY <3>1, <3>3, LevelFacts, SMT
      <3>4. QED BY <3>2, <3>3
    <2>3. \A m \in all \cap Of("master") : m \in Int BY SMT DEF Of
    <2> HIDE DEF all
    <2>4. QED BY <2>1, <2>2, <2>3, LevelFacts, SMT DEF Lowest
  <1>3. CASE l < 8
    <2>1. ControllersOf(l) = {"master"} BY <1>3, SMT DEF ControllersOf, Lines
    <2>2. Level(l) = l /\ Taken(l) = {l} BY <1>3, SMT DEF Level, Taken, Lines
    <2>3. EOI(all, ControllersOf(l)) = all \ {l}
      BY <1>2, <2>1, <2>2, Zenon DEF EOI
    <2>4. QED BY <2>2, <2>3, <1>1
  <1>4. CASE l >= 8
    <2>1. ControllersOf(l) = {"master", "slave"} BY <1>4, SMT DEF ControllersOf, Controllers
    <2>2. \A s \in service : s < 8 BY <1>4, BeneathSlave
    <2>3. Lowest(all \cap Of("slave")) = {l}
      <3>1. all \cap Of("slave") = {l}
        <4>1. l \in all \cap Of("slave") BY <1>4, LevelFacts, SMT DEF Of, Lines
        <4>2. \A m \in all \cap Of("slave") : m = l
          BY <2>2, LevelFacts, SMT DEF Of
        <4>3. QED BY <4>1, <4>2
      <3>2. QED BY <3>1, SMT DEF Lowest, Lines
    <2>4. Taken(l) = {l, Level(l)} BY DEF Taken
    <2>5. EOI(all, ControllersOf(l)) = all \ {l, Level(l)}
      BY <1>2, <2>1, <2>3, Zenon DEF EOI
    <2>6. QED BY <2>4, <2>5, <1>1
  <1>5. QED BY <1>3, <1>4, SMT DEF Lines

(* pic.c sees the line it asks for if no other has a lower number. *)
LEMMA Recognised ==
  ASSUME NEW l \in Lines \ {Cascade}, NEW service \in SUBSET Lines,
         \A s \in service \ {Cascade} : l < s
  PROVE  IsIRQ(service \cup Taken(l), l)
  <1> DEFINE all == service \cup Taken(l)
  <1>1. l \in Seen(all)
    <2>1. CASE l < 8 BY <2>1, LevelFacts, SMT DEF Seen, Of, Lines
    <2>2. CASE l >= 8
      <3>1. Cascade \in all /\ l \in all \cap Of("slave")
        BY <2>2, LevelFacts, SMT DEF Of, Lines
      <3>2. QED BY <3>1, Zenon DEF Seen
    <2>3. QED BY <2>1, <2>2, SMT DEF Lines
  <1>2. \A m \in Seen(all) : m \in all /\ m # Cascade
    BY SMT DEF Seen, Of, Cascade
  <1>3. \A m \in Seen(all) : l <= m
    <2> TAKE m \in Seen(all)
    <2>1. m \in all /\ m # Cascade BY <1>2
    <2>2. CASE m \in service BY <2>1, <2>2, SMT DEF Lines
    <2>3. CASE m \in Taken(l)
      <3>1. m = l BY <2>1, <2>3, LevelFacts, SMT DEF Lines
      <3>2. QED BY <3>1, SMT DEF Lines
    <2>4. QED BY <2>1, <2>2, <2>3
  <1> HIDE DEF all
  <1>4. IsIRQ(all, l) BY <1>1, <1>3 DEF IsIRQ, Lowest
  <1>5. QED BY <1>4 DEF all

LEMMA SendEnds ==
  ASSUME NEW l \in Lines \ {Cascade}, NEW service, Beneath(l, service),
         \A s \in service \ {Cascade} : l < s
  PROVE  /\ SendEOIWithIRQ(service \cup Taken(l), l) = service
         /\ SendEOIWithIRQ(service, l) = service
  <1>1. service \in SUBSET Lines BY DEF Beneath
  <1>2. IsIRQ(service \cup Taken(l), l) BY <1>1, Recognised
  <1>3. EOI(service \cup Taken(l), ControllersOf(l)) = service BY EOIEnds
  <1>4. SendEOIWithIRQ(service \cup Taken(l), l) = service
    <2>1. CASE l \notin {7, 15} BY <2>1, <1>2, <1>3, Zenon DEF SendEOIWithIRQ
    <2>2. CASE l = 15
      <3>1. Cascade \in service \cup Taken(l) BY <2>2, LevelFacts, SMT DEF Lines
      <3>2. ControllersOf(l) = Controllers BY <2>2, SMT DEF ControllersOf
      <3>3. QED BY <2>2, <3>1, <3>2, <1>2, <1>3, Zenon DEF SendEOIWithIRQ, SendEOI
    <2>3. CASE l = 7
      <3>1. ControllersOf(l) = {"master"} /\ Taken(l) = {l} /\ Level(l) = 7
        BY <2>3, SMT DEF ControllersOf, Taken, Level
      <3>2. Cascade \notin service BY <3>1, SMT DEF Beneath, Cascade
      <3>3. Cascade \notin service \cup Taken(l) BY <3>1, <3>2
      <3>4. QED BY <2>3, <3>1, <3>3, <1>2, <1>3, Zenon DEF SendEOIWithIRQ, SendEOI
    <2>4. QED BY <2>1, <2>2, <2>3
  <1>5. ~IsIRQ(service, l)
    <2>1. l \notin service BY NotTwice
    <2>2. QED BY <2>1, Zenon DEF IsIRQ, Lowest, Seen
  <1>6. QED BY <1>4, <1>5, Zenon DEF SendEOIWithIRQ

---------------------------------------------------------------------------
(* The handlers. *)
LEMMA InvParts ==
  ASSUME ServiceInv
  PROVE  /\ VirtualIrqTypeOK /\ stack \in Seq(Frames)
         /\ Card \in Lines \ {Cascade} /\ setup.others \subseteq Lines \ {Cascade, Card}
         /\ setup.sti \subseteq setup.others \cup {Card}
         /\ \A l \in setup.sti : Before(Card, l) => Card < l \/ ~NumbersArePriorities
         /\ Virtualizing <=> Runs("client")
  <1>1. VirtualIrqTypeOK /\ ClientOnTop BY DEF ServiceInv, Inv
  <1>2. stack \in Seq(Frames) /\ setup \in Setups BY <1>1 DEF VirtualIrqTypeOK
  <1>3. Card \in Lines \ {Cascade} /\ setup.others \subseteq Lines \ {Cascade, Card}
    BY <1>1, SetupFacts
  <1>4. setup.sti \subseteq setup.others \cup {Card} BY <1>2, VirtualIrqAssumption DEF Card
  <1>5. NumbersArePriorities => \A l \in setup.sti : Before(Card, l) => Card < l
    BY <1>2, Zenon DEF NumbersArePriorities, Card
  <1>6. QED BY <1>1, <1>2, <1>3, <1>4, <1>5, Zenon DEF ClientOnTop

LEMMA LineOf ==
  ASSUME ServiceInv, NEW i \in 1 .. Len(stack)
  PROVE  /\ stack[i] \in Frames /\ stack[i].line \in Lines \ {Cascade}
         /\ i > 1 => stack[i].line \in setup.sti
  <1>1. stack[i] \in Frames BY InvParts, SMT
  <1>2. stack[i].at \in {"start", "open", "done", "main", "client", "chain", "late"}
    BY <1>1, SMT DEF Frames
  <1>3. HandlersOwn BY DEF ServiceInv
  <1>4. i > 1 => stack[i].line \in setup.sti BY <1>3 DEF HandlersOwn
  <1>5. stack[i].line \in setup.others \cup {Card}
    BY <1>2, <1>3, InvParts, Zenon DEF HandlersOwn
  <1>6. QED BY <1>1, <1>4, <1>5, InvParts

(* What is in service is beneath the innermost handler. *)
LEMMA KeptBeneath ==
  ASSUME ServiceInv, stack # <<>>
  PROVE  /\ Head(stack).line \in Lines \ {Cascade}
         /\ Beneath(Head(stack).line, Kept)
  <1>1. stack \in Seq(Frames) BY InvParts
  <1>2. 1 \in 1 .. Len(stack) /\ Head(stack) = stack[1] BY <1>1, SMT
  <1>3. stack[1].line \in Lines \ {Cascade} BY <1>2, LineOf
  <1>4. \A s \in Kept : /\ s \in Lines
                        /\ s < 8 => Level(stack[1].line) < s
                        /\ s >= 8 => Cascade \in Kept
    <2> TAKE s \in Kept
    <2>1. PICK i \in Keepers : s \in Taken(stack[i].line) BY DEF Kept
    <2>2. i \in 1 .. Len(stack) /\ 1 < i /\ stack[i].at # "late" BY <2>1, <1>1, SMT DEF Keepers
    <2> DEFINE l == stack[i].line
    <2>3. l \in Lines \ {Cascade} BY <2>2, LineOf
    <2>4. Level(stack[1].line) < Level(l) BY <1>2, <2>2 DEF ServiceInv, Ordered
    <2>5. Level(l) \in Kept
      <3>1. Level(l) \in Taken(l) BY <2>3, LevelFacts
      <3>2. QED BY <2>1, <3>1 DEF Kept
    <2>6. s \in Lines /\ (s = l \/ s = Level(l)) BY <2>1, <2>3, LevelFacts
    <2> HIDE DEF l
    <2>7. /\ Level(l) \in 0 .. 7
          /\ l < 8 => Level(l) = l
          /\ l >= 8 => Level(l) = Cascade
      BY <2>3, LevelFacts
    <2>8. s < 8 => s = Level(l)
      <3>1. s = l => (s < 8 => s = Level(l)) BY <2>7
      <3>2. QED BY <2>6, <3>1
    <2>9. s >= 8 => Cascade \in Kept
      <3>1. s >= 8 => s # Level(l) BY <2>7, SMT
      <3>2. s >= 8 => s = l BY <2>6, <3>1
      <3>3. QED BY <3>2, <2>5, <2>7
    <2>10. QED BY <2>4, <2>6, <2>8, <2>9
  <1>5. Kept \subseteq Lines BY <1>4
  <1>6. Beneath(stack[1].line, Kept) BY <1>4, <1>5 DEF Beneath
  <1>7. QED BY <1>2, <1>3, <1>6

(* An interrupt that is delivered has a higher priority than every handler *)
(* that has not ended its own.                                             *)
LEMMA DeliveredAbove ==
  ASSUME ServiceInv, NEW l \in Lines, Delivers(l)
  PROVE  /\ stack # <<>> => Head(stack).at \in Interrupted /\ Head(stack).line \in setup.sti
         /\ \A i \in 1 .. Len(stack) :
              stack[i].at # "late" => Level(l) < Level(stack[i].line)
         /\ ~Virtualizing /\ ~Runs("client")
         /\ stack # <<>> =>
              inService = Kept \cup (IF Runs("late") THEN {} ELSE Taken(Head(stack).line))
  <1>1. ~Virtualizing /\ ~Runs("client") BY NothingDelivered DEF ServiceInv
  <1>2. \/ stack = <<>> \/ Runs("open")
        \/ (Runs("chain") \/ Runs("late")) /\ Card \in setup.sti
    BY <1>1, Zenon DEF Delivers, Interruptible
  <1>3. stack # <<>> => 1 \in 1 .. Len(stack) /\ Head(stack) = stack[1]
    <2>1. stack \in Seq(Frames) BY InvParts
    <2>2. QED BY <2>1, SMT
  <1>4. stack # <<>> => Head(stack).at \in Interrupted /\ Head(stack).line \in setup.sti
    <2>1. SUFFICES ASSUME stack # <<>>
                   PROVE  stack[1].at \in Interrupted /\ stack[1].line \in setup.sti
      BY <1>3
    <2>2. CASE Runs("open")
      <3>1. stack[1].at = "open" BY <1>3, <2>1, <2>2, Zenon DEF Runs
      <3>2. QED BY <1>3, <2>1, <3>1, Zenon DEF ServiceInv, HandlersOwn, Interrupted
    <2>3. CASE (Runs("chain") \/ Runs("late")) /\ Card \in setup.sti
      <3>1. stack[1].at \in {"chain", "late"} BY <1>3, <2>1, <2>3, Zenon DEF Runs
      <3>2. stack[1].line = Card BY <1>3, <2>1, <3>1, SMT DEF ServiceInv, HandlersOwn
      <3>3. QED BY <2>3, <3>1, <3>2, Zenon DEF Interrupted
    <2>4. QED BY <1>2, <2>1, <2>2, <2>3
  <1>5. stack # <<>> =>
          inService = Kept \cup (IF Runs("late") THEN {} ELSE Taken(Head(stack).line))
    <2>1. SUFFICES ASSUME stack # <<>>
                   PROVE inService = Kept \cup (IF Runs("late") THEN {} ELSE Taken(Head(stack).line))
      OBVIOUS
    <2>2. CASE Runs("late")
      <3>1. inService = Kept BY <2>1, <2>2, Zenon DEF ServiceInv, InServiceIs, Over
      <3>2. QED BY <2>2, <3>1
    <2>3. CASE ~Runs("late")
      <3>1. ~Ended BY <1>2, <2>1, <2>3, SMT DEF Runs, Ended, Over
      <3>2. inService = Kept \cup Taken(Head(stack).line)
        BY <2>1, <3>1, Zenon DEF ServiceInv, InServiceIs
      <3>3. QED BY <2>3, <3>2
    <2>4. QED BY <2>2, <2>3
  <1>6. ASSUME NEW i \in 1 .. Len(stack), stack[i].at # "late"
        PROVE  Level(l) < Level(stack[i].line)
    <2>1. stack \in Seq(Frames) BY InvParts
    <2>2. stack # <<>> /\ Head(stack) = stack[1] BY <2>1, SMT
    <2>3. stack[i].line \in Lines \ {Cascade} BY LineOf
    <2>4. Level(stack[i].line) \in Taken(stack[i].line) /\ Level(stack[i].line) \in 0 .. 7
      BY <2>3, LevelFacts
    <2>5. Level(stack[i].line) \in inService
      <3>1. CASE i = 1
        <4>1. ~Runs("late") BY <1>6, <2>2, <3>1, Zenon DEF Runs
        <4>2. QED BY <3>1, <1>5, <2>2, <2>4, <4>1
      <3>2. CASE i # 1
        <4>1. i \in Keepers BY <1>6, <2>1, <3>2, SMT DEF Keepers
        <4>2. Level(stack[i].line) \in Kept BY <4>1, <2>4 DEF Kept
        <4>3. QED BY <4>2, <1>5, <2>2
      <3>3. QED BY <3>1, <3>2
    <2>6. Level(stack[i].line) \in inService \cap Of("master") BY <2>4, <2>5, Zenon DEF Of
    <2>7. QED BY <2>6, Zenon DEF Delivers, Accepts
  <1>7. QED BY <1>1, <1>4, <1>5, <1>6

(* A handler that comes. *)
LEMMA EnterService ==
  ASSUME ServiceInv, NEW l \in Lines, Delivers(l), NEW at \in {"start", "main", "chain"},
         Push(l, at), inService' = inService \cup Taken(l), setup' = setup,
         \/ l = Card /\ at # "start"
         \/ l \in setup.others /\ at = "start"
  PROVE  HandlersOwn' /\ Ordered' /\ InServiceIs'
  <1> DEFINE f == [line |-> l, at |-> at]
  <1>1. f \in Frames /\ f.at = at /\ f.line = l BY SMT DEF Frames
  <1>2. stack' = <<f>> \o stack BY DEF Push
  <1>3. stack \in Seq(Frames) BY InvParts
  <1> HIDE DEF f
  <1>4. /\ stack' \in Seq(Frames) /\ stack' # <<>> /\ Head(stack') = f
        /\ Len(stack') = Len(stack) + 1 /\ \A i \in 2 .. Len(stack') : stack'[i] = stack[i - 1]
    BY <1>1, <1>2, <1>3, StackFacts
  <1>5. stack'[1] = f BY <1>4, SMT
  <1>6. /\ stack # <<>> => Head(stack).at \in Interrupted /\ Head(stack).line \in setup.sti
        /\ \A i \in 1 .. Len(stack) :
             stack[i].at # "late" => Level(l) < Level(stack[i].line)
        /\ stack # <<>> =>
             inService = Kept \cup (IF Runs("late") THEN {} ELSE Taken(Head(stack).line))
    BY DeliveredAbove
  <1>7. Card' = Card BY DEF Card
  <1>8. \A i \in 2 .. Len(stack') : i - 1 \in 1 .. Len(stack) /\ stack'[i] = stack[i - 1]
    BY <1>3, <1>4, SMT
  <1>9. \A i \in 1 .. Len(stack) : i + 1 \in 2 .. Len(stack') /\ stack'[i + 1] = stack[i]
    BY <1>3, <1>4, SMT
  <1>10. HandlersOwn'
    <2> SUFFICES ASSUME NEW i \in 1 .. Len(stack')
                 PROVE /\ stack'[i].at \in {"start", "open", "done"} => stack'[i].line \in setup.others
                       /\ stack'[i].at = "open" => stack'[i].line \in setup.sti
                       /\ stack'[i].at \in {"main", "client", "chain", "late"} => stack'[i].line = Card
                       /\ i > 1 => stack'[i].at \in Interrupted /\ stack'[i].line \in setup.sti
      BY <1>7, Zenon DEF HandlersOwn
    <2>1. CASE i = 1 BY <2>1, <1>1, <1>5, SMT
    <2>2. CASE i # 1
      <3>1. i \in 2 .. Len(stack') BY <2>2, <1>4, SMT
      <3> DEFINE j == i - 1
      <3>2. j \in 1 .. Len(stack) /\ stack'[i] = stack[j] BY <3>1, <1>8
      <3> HIDE DEF j
      <3>3. stack[j].at \in Interrupted /\ stack[j].line \in setup.sti
        <4>1. CASE j = 1
          <5>1. stack # <<>> /\ Head(stack) = stack[1] BY <1>3, <3>2, <4>1, SMT
          <5>2. QED BY <4>1, <5>1, <1>6
        <4>2. CASE j # 1
          <5>1. j > 1 BY <4>2, <3>2, <1>3, SMT
          <5>2. QED BY <5>1, <3>2 DEF ServiceInv, HandlersOwn
        <4>3. QED BY <4>1, <4>2
      <3>4. /\ stack[j].at \in {"start", "open", "done"} => stack[j].line \in setup.others
            /\ stack[j].at \in {"main", "client", "chain", "late"} => stack[j].line = Card
        BY <3>2, Zenon DEF ServiceInv, HandlersOwn
      <3>5. QED BY <3>2, <3>3, <3>4
    <2>3. QED BY <2>1, <2>2
  <1>11. Ordered'
    <2> SUFFICES ASSUME NEW i \in 1 .. Len(stack'), NEW j \in 1 .. Len(stack'), i < j,
                        stack'[j].at # "late"
                 PROVE  Level(stack'[i].line) < Level(stack'[j].line)
      BY Zenon DEF Ordered
    <2>1. j \in 2 .. Len(stack') BY <1>4, SMT
    <2>2. CASE i = 1 BY <2>1, <2>2, <1>1, <1>5, <1>6, <1>8
    <2>3. CASE i # 1
      <3>1. i \in 2 .. Len(stack') BY <2>3, <1>4, SMT
      <3>2. i - 1 < j - 1 BY SMT
      <3>3. Level(stack[i - 1].line) < Level(stack[j - 1].line)
        BY <3>1, <3>2, <2>1, <1>8 DEF ServiceInv, Ordered
      <3>4. QED BY <3>1, <3>3, <2>1, <1>8
    <2>4. QED BY <2>2, <2>3
  <1>12. Kept' = inService
    <2> DEFINE Old == {i \in 1 .. Len(stack) : stack[i].at # "late"}
    <2>1. Kept' = UNION {Taken(stack'[i].line) : i \in Keepers'} BY DEF Kept
    <2>2. Kept' = UNION {Taken(stack[i].line) : i \in Old}
      <3>1. \A s : s \in Kept' => \E i \in Old : s \in Taken(stack[i].line)
        BY <2>1, <1>8 DEF Keepers
      <3>2. \A i \in Old : Taken(stack[i].line) \subseteq Kept'
        <4> TAKE i \in Old
        <4>1. PICK j \in 2 .. Len(stack') : stack'[j] = stack[i] BY <1>9
        <4>2. j \in Keepers' BY <4>1 DEF Keepers
        <4>3. QED BY <2>1, <4>1, <4>2
      <3>3. QED BY <3>1, <3>2
    <2>3. CASE stack = <<>>
      <3>1. Old = {} BY <2>3, SMT
      <3>2. inService = {} BY <2>3, Zenon DEF ServiceInv, InServiceIs
      <3>3. QED BY <3>1, <3>2, <2>2
    <2>4. CASE stack # <<>>
      <3>1. 1 .. Len(stack) = {1} \cup 2 .. Len(stack) /\ Head(stack) = stack[1]
        BY <2>4, <1>3, SMT
      <3>2. Old = Keepers \cup (IF Runs("late") THEN {} ELSE {1})
        BY <2>4, <3>1, Zenon DEF Keepers, Runs
      <3>3. Kept' = Kept \cup (IF Runs("late") THEN {} ELSE Taken(stack[1].line))
        BY <2>2, <3>2 DEF Kept
      <3>4. QED BY <1>6, <2>4, <3>1, <3>3
    <2>5. QED BY <2>3, <2>4
  <1>13. ~Over' BY <1>1, <1>4, SMT DEF Runs, Over
  <1>14. InServiceIs' BY <1>1, <1>4, <1>12, <1>13, Zenon DEF InServiceIs
  <1>15. QED BY <1>10, <1>11, <1>14

(* The innermost handler goes on: what lies beneath it stays. *)
LEMMA GoToService ==
  ASSUME ServiceInv, stack # <<>>, NEW at, GoTo(at), setup' = setup,
         \/ Head(stack).line \in setup.others /\ at \in {"start", "done"}
         \/ Head(stack).line \in setup.sti \cap setup.others /\ at = "open"
         \/ Head(stack).line = Card /\ at \in {"main", "client", "late"}
  PROVE  /\ HandlersOwn' /\ Ordered' /\ Kept' = Kept
         /\ stack' # <<>> /\ Head(stack').line = Head(stack).line
         /\ \A w : Runs(w)' <=> w = at
  <1>1. stack \in Seq(Frames) BY InvParts
  <1>2. at \in {"start", "open", "done", "main", "client", "chain", "late"} BY Zenon
  <1>3. /\ stack' \in Seq(Frames) /\ stack' # <<>>
        /\ Head(stack').at = at /\ Head(stack').line = Head(stack).line
        /\ Len(stack') = Len(stack) /\ \A i \in 2 .. Len(stack') : stack'[i] = stack[i]
    BY <1>1, <1>2, GoToFacts
  <1>4. stack'[1] = Head(stack') /\ stack[1] = Head(stack) BY <1>1, <1>3, SMT
  <1>5. \A i \in 1 .. Len(stack') : i \in 1 .. Len(stack) /\ stack'[i].line = stack[i].line
    <2> TAKE i \in 1 .. Len(stack')
    <2>1. CASE i = 1 BY <2>1, <1>3, <1>4
    <2>2. CASE i # 1
      <3>1. i \in 2 .. Len(stack') BY <2>2, <1>3, SMT
      <3>2. QED BY <3>1, <1>3
    <2>3. QED BY <2>1, <2>2
  <1>6. Card' = Card BY DEF Card
  <1>7. HandlersOwn'
    <2> SUFFICES ASSUME NEW i \in 1 .. Len(stack')
                 PROVE /\ stack'[i].at \in {"start", "open", "done"} => stack'[i].line \in setup.others
                       /\ stack'[i].at = "open" => stack'[i].line \in setup.sti
                       /\ stack'[i].at \in {"main", "client", "chain", "late"} => stack'[i].line = Card
                       /\ i > 1 => stack'[i].at \in Interrupted /\ stack'[i].line \in setup.sti
      BY <1>6, Zenon DEF HandlersOwn
    <2>1. CASE i = 1 BY <2>1, <1>3, <1>4, SMT
    <2>2. CASE i # 1
      <3>1. i \in 2 .. Len(stack') BY <2>2, <1>3, SMT
      <3>2. stack'[i] = stack[i] /\ i \in 1 .. Len(stack) BY <3>1, <1>3, <1>5
      <3>3. QED BY <3>2 DEF ServiceInv, HandlersOwn
    <2>3. QED BY <2>1, <2>2
  <1>8. Ordered'
    <2> SUFFICES ASSUME NEW i \in 1 .. Len(stack'), NEW j \in 1 .. Len(stack'), i < j,
                        stack'[j].at # "late"
                 PROVE  Level(stack'[i].line) < Level(stack'[j].line)
      BY Zenon DEF Ordered
    <2>1. j \in 2 .. Len(stack') BY <1>3, SMT
    <2>2. stack'[j] = stack[j] BY <2>1, <1>3
    <2>3. QED BY <2>2, <1>5 DEF ServiceInv, Ordered
  <1>9. Kept' = Kept
    <2>1. Keepers' = Keepers BY <1>3 DEF Keepers
    <2>2. \A i \in Keepers : stack'[i] = stack[i] BY <1>3 DEF Keepers
    <2>3. Kept' = UNION {Taken(stack'[i].line) : i \in Keepers} BY <2>1 DEF Kept
    <2>4. QED BY <2>2, <2>3 DEF Kept
  <1>10. \A w : Runs(w)' <=> w = at BY <1>3, Zenon DEF Runs
  <1>11. QED BY <1>3, <1>7, <1>8, <1>9, <1>10

(* The innermost handler returns to the one beneath it. *)
LEMMA ReturnService ==
  ASSUME ServiceInv, stack # <<>>, Return, setup' = setup, inService' = Kept
  PROVE  HandlersOwn' /\ Ordered' /\ InServiceIs'
  <1>1. stack \in Seq(Frames) BY InvParts
  <1>2. /\ stack' \in Seq(Frames) /\ Len(stack') = Len(stack) - 1
        /\ \A i \in 1 .. Len(stack') : stack'[i] = stack[i + 1]
        /\ stack' # <<>> => Head(stack') = stack[2] /\ Len(stack) >= 2
    BY <1>1, ReturnFacts
  <1>3. Card' = Card BY DEF Card
  <1>4. \A i \in 1 .. Len(stack') : i + 1 \in 2 .. Len(stack) /\ i + 1 \in 1 .. Len(stack)
    BY <1>1, <1>2, SMT
  <1>5. \A i \in 1 .. Len(stack') :
          /\ stack'[i].at \in Interrupted /\ stack'[i].line \in setup.sti
          /\ stack'[i].at \in {"start", "open", "done"} => stack'[i].line \in setup.others
          /\ stack'[i].at \in {"main", "client", "chain", "late"} => stack'[i].line = Card
    <2> TAKE i \in 1 .. Len(stack')
    <2>1. i + 1 \in 1 .. Len(stack) /\ stack'[i] = stack[i + 1] BY <1>2, <1>4
    <2>2. i + 1 > 1 BY <1>2, SMT
    <2>3. stack[i + 1].at \in Interrupted /\ stack[i + 1].line \in setup.sti
      BY <2>1, <2>2 DEF ServiceInv, HandlersOwn
    <2>4. /\ stack[i + 1].at \in {"start", "open", "done"} => stack[i + 1].line \in setup.others
          /\ stack[i + 1].at \in {"main", "client", "chain", "late"} => stack[i + 1].line = Card
      BY <2>1 DEF ServiceInv, HandlersOwn
    <2>5. QED BY <2>1, <2>3, <2>4
  <1>6. HandlersOwn' BY <1>5, <1>3, SMT DEF HandlersOwn, Interrupted
  <1>7. Ordered'
    <2> SUFFICES ASSUME NEW i \in 1 .. Len(stack'), NEW j \in 1 .. Len(stack'), i < j,
                        stack'[j].at # "late"
                 PROVE  Level(stack'[i].line) < Level(stack'[j].line)
      BY Zenon DEF Ordered
    <2>1. i + 1 < j + 1 BY SMT
    <2>2. QED BY <2>1, <1>2, <1>4 DEF ServiceInv, Ordered
  <1>8. CASE stack' = <<>>
    <2>1. 2 .. Len(stack) = {} BY <1>8, <1>1, <1>2, SMT
    <2>2. Kept = {} BY <2>1 DEF Kept, Keepers
    <2>3. InServiceIs' BY <1>8, <2>2 DEF InServiceIs
    <2>4. QED BY <1>6, <1>7, <2>3
  <1>9. CASE stack' # <<>>
    <2>1. 1 \in 1 .. Len(stack') /\ Head(stack') = stack'[1] BY <1>9, <1>2, SMT
    <2>2. ~Runs("done")' /\ (Runs("late")' <=> stack'[1].at = "late")
      BY <1>9, <2>1, <1>5, SMT DEF Runs, Interrupted
    <2>3. Kept = Kept' \cup (IF Runs("late")' THEN {} ELSE Taken(Head(stack').line))
      <3>1. Kept' = UNION {Taken(stack'[i].line) : i \in Keepers'} BY DEF Kept
      <3>2. \A i \in Keepers' : i + 1 \in Keepers /\ stack'[i] = stack[i + 1]
        BY <1>1, <1>2, SMT DEF Keepers
      <3>3. \A i \in Keepers : i = 2 \/ (i - 1 \in Keepers' /\ stack'[i - 1] = stack[i])
        BY <1>1, <1>2, SMT DEF Keepers
      <3>4. 2 \in 2 .. Len(stack) /\ stack'[1] = stack[2] BY <1>9, <1>1, <1>2, <2>1, SMT
      <3>5. ~Runs("late")' <=> 2 \in Keepers BY <2>2, <3>4 DEF Keepers
      <3>6. \A s \in Kept : s \in Kept' \/ (~Runs("late")' /\ s \in Taken(Head(stack').line))
        <4> TAKE s \in Kept
        <4>1. PICK i \in Keepers : s \in Taken(stack[i].line) BY DEF Kept
        <4>2. CASE i = 2 BY <4>1, <4>2, <2>1, <3>4, <3>5
        <4>3. CASE i # 2
          <5> DEFINE j == i - 1
          <5>1. j \in Keepers' /\ stack'[j] = stack[i] BY <4>1, <4>3, <3>3
          <5> HIDE DEF j
          <5>2. QED BY <4>1, <5>1, <3>1
        <4>4. QED BY <4>2, <4>3
      <3>7. Kept' \subseteq Kept BY <3>1, <3>2 DEF Kept
      <3>8. ~Runs("late")' => Taken(Head(stack').line) \subseteq Kept
        BY <2>1, <3>4, <3>5 DEF Kept
      <3>9. QED BY <3>6, <3>7, <3>8
    <2>4. InServiceIs'
      <3>1. CASE Runs("late")'
        <4>1. Ended' BY <3>1 DEF Ended, Over
        <4>2. inService' = Kept' BY <2>3, <3>1
        <4>3. QED BY <1>9, <4>1, <4>2, Zenon DEF InServiceIs
      <3>2. CASE ~Runs("late")'
        <4>1. ~Over' BY <2>2, <3>2 DEF Over
        <4>2. inService' = Kept' \cup Taken(Head(stack').line) BY <2>3, <3>2
        <4>3. QED BY <1>9, <4>1, <4>2, Zenon DEF InServiceIs
      <3>3. QED BY <3>1, <3>2
    <2>5. QED BY <1>6, <1>7, <2>4
  <1>10. QED BY <1>8, <1>9

(* Steps that leave the handlers and what is in service alone. *)
LEMMA QuietService ==
  ASSUME ServiceInv, setup' = setup, stack' = stack, inService' = inService
  PROVE  HandlersOwn' /\ Ordered' /\ InServiceIs'
  <1>1. Card' = Card BY DEF Card
  <1>2. HandlersOwn' /\ Ordered'
    BY <1>1, Zenon DEF ServiceInv, HandlersOwn, Ordered
  <1>3. InServiceIs'
    BY Zenon DEF ServiceInv, InServiceIs, Kept, Keepers, Ended, Over, Runs
  <1>4. QED BY <1>2, <1>3

(* The card's interrupt has the lowest number in service, above handlers   *)
(* of a lower priority that allow interrupts.                              *)
LEMMA CardLowest ==
  ASSUME ServiceInv, NumbersArePriorities, NEW l \in setup.sti, Level(Card) < Level(l),
         NEW s \in Taken(l) \ {Cascade}
  PROVE  Card < s
  <1>1. l \in Lines \ {Cascade} BY InvParts
  <1>2. Card < l BY InvParts, Zenon DEF Before
  <1>3. s = l BY <1>1, LevelFacts, SMT DEF Lines
  <1>4. QED BY <1>2, <1>3

LEMMA CardBeneath ==
  ASSUME ServiceInv, NumbersArePriorities, stack # <<>>, Head(stack).line = Card
  PROVE  \A s \in Kept \ {Cascade} : Card < s
  <1> TAKE s \in Kept \ {Cascade}
  <1>1. stack \in Seq(Frames) BY InvParts
  <1>2. PICK i \in Keepers : s \in Taken(stack[i].line) BY DEF Kept
  <1>3. /\ 1 \in 1 .. Len(stack) /\ i \in 1 .. Len(stack) /\ 1 < i /\ stack[1] = Head(stack)
        /\ stack[i].at # "late"
    BY <1>1, <1>2, SMT DEF Keepers
  <1>4. stack[i].line \in setup.sti BY <1>3, LineOf
  <1>5. Level(stack[1].line) < Level(stack[i].line) BY <1>3 DEF ServiceInv, Ordered
  <1>6. QED BY <1>2, <1>3, <1>4, <1>5, CardLowest

---------------------------------------------------------------------------
Serves == HandlersOwn /\ Ordered /\ InServiceIs

LEMMA HeadOf ==
  ASSUME ServiceInv, stack # <<>>
  PROVE  /\ Runs("start") \/ Runs("open") => Head(stack).line \in setup.others
         /\ Runs("open") => Head(stack).line \in setup.sti
         /\ Runs("main") \/ Runs("client") \/ Runs("chain") \/ Runs("late")
              => Head(stack).line = Card
         /\ ~Ended => inService = Kept \cup Taken(Head(stack).line)
         /\ Over => inService = Kept
         /\ ~Over =>
              inService = Kept \cup Taken(Head(stack).line) \/ (Ended /\ inService = Kept)
  <1>1. stack \in Seq(Frames) BY InvParts
  <1>2. 1 \in 1 .. Len(stack) /\ stack[1] = Head(stack) BY <1>1, SMT
  <1>3. /\ stack[1].at \in {"start", "open", "done"} => stack[1].line \in setup.others
        /\ stack[1].at = "open" => stack[1].line \in setup.sti
        /\ stack[1].at \in {"main", "client", "chain", "late"} => stack[1].line = Card
    BY <1>2, Zenon DEF ServiceInv, HandlersOwn
  <1>4. InServiceIs BY DEF ServiceInv
  <1>5. /\ ~Ended => inService = Kept \cup Taken(Head(stack).line)
        /\ Over => inService = Kept
        /\ ~Over =>
             inService = Kept \cup Taken(Head(stack).line) \/ (Ended /\ inService = Kept)
    BY <1>4, Zenon DEF InServiceIs, Ended
  <1>6. QED BY <1>2, <1>3, <1>5, Zenon DEF Runs

LEMMA EnterOtherServes == ASSUME ServiceInv, EnterOther PROVE Serves'
  <1>1. PICK l \in request :
          Delivers(l) /\ inService' = inService \cup Taken(l) /\ Push(l, "start")
    BY Zenon DEF EnterOther
  <1>2. setup' = setup BY Zenon DEF EnterOther
  <1>3. l \in setup.others BY InvParts, Zenon DEF VirtualIrqTypeOK
  <1>4. l \in Lines BY <1>3, InvParts
  <1>5. QED BY <1>1, <1>2, <1>3, <1>4, EnterService DEF Serves

LEMMA AllowServes == ASSUME ServiceInv, AllowInterrupts PROVE Serves'
  <1>1. stack # <<>> /\ Runs("start") /\ ~Ended
    BY SMT DEF AllowInterrupts, Runs, Ended, Over
  <1>2. /\ Head(stack).line \in setup.sti \cap setup.others /\ GoTo("open")
        /\ setup' = setup /\ inService' = inService
    BY <1>1, HeadOf, Zenon DEF AllowInterrupts, busVars, picVars
  <1>3. /\ HandlersOwn' /\ Ordered' /\ Kept' = Kept
        /\ stack' # <<>> /\ Head(stack').line = Head(stack).line
        /\ \A w : Runs(w)' <=> w = "open"
    BY <1>1, <1>2, GoToService
  <1>4. inService = Kept \cup Taken(Head(stack).line) BY <1>1, HeadOf
  <1>5. ~Over' BY <1>3, SMT DEF Over
  <1>6. InServiceIs' BY <1>2, <1>3, <1>4, <1>5, Zenon DEF InServiceIs
  <1>7. QED BY <1>3, <1>6 DEF Serves

LEMMA EndOtherServes == ASSUME ServiceInv, EndOther PROVE Serves'
  <1>1. stack # <<>> /\ (Runs("start") \/ Runs("open")) /\ ~Ended /\ ~Runs("client")
    BY SMT DEF EndOther, Runs, Ended, Over
  <1>2. /\ VIRQ_Write(ControllersOf(Head(stack).line), "eoi") /\ GoTo("done")
        /\ setup' = setup
    BY Zenon DEF EndOther, busVars
  <1>3. Head(stack).line \in setup.others BY <1>1, HeadOf, InvParts
  <1>4. /\ HandlersOwn' /\ Ordered' /\ Kept' = Kept
        /\ stack' # <<>> /\ \A w : Runs(w)' <=> w = "done"
    BY <1>1, <1>2, <1>3, GoToService
  <1>5. inService = Kept \cup Taken(Head(stack).line) BY <1>1, HeadOf
  <1>6. ~Virtualizing BY <1>1, InvParts
  <1>7. inService' = EOI(inService, ControllersOf(Head(stack).line))
    BY <1>2, <1>6, Zenon DEF VIRQ_Write
  <1>8. inService' = Kept BY <1>1, <1>5, <1>7, KeptBeneath, EOIEnds
  <1>9. Ended' BY <1>4 DEF Ended, Over
  <1>10. InServiceIs' BY <1>4, <1>8, <1>9, Zenon DEF InServiceIs
  <1>11. QED BY <1>4, <1>10 DEF Serves

LEMMA ReturnOtherServes == ASSUME ServiceInv, ReturnOther PROVE Serves'
  <1>1. stack # <<>> /\ Runs("done") /\ Return BY Zenon DEF ReturnOther, Runs
  <1>2. setup' = setup /\ inService' = inService BY Zenon DEF ReturnOther, busVars, picVars
  <1>3. inService = Kept BY <1>1, HeadOf DEF Over
  <1>4. QED BY <1>1, <1>2, <1>3, ReturnService DEF Serves

LEMMA EnterSoundServes ==
  ASSUME ServiceInv, NumbersArePriorities, EnterSound
  PROVE  Serves'
  <1>1. Delivers(Card) /\ inService' = inService \cup Taken(Card) /\ setup' = setup
    BY Zenon DEF EnterSound
  <1>2. Card \in Lines \ {Cascade} BY InvParts
  <1>3. /\ stack # <<>> => Head(stack).at \in Interrupted /\ Head(stack).line \in setup.sti
        /\ \A i \in 1 .. Len(stack) :
             stack[i].at # "late" => Level(Card) < Level(stack[i].line)
        /\ stack # <<>> =>
             inService = Kept \cup (IF Runs("late") THEN {} ELSE Taken(Head(stack).line))
    BY <1>1, <1>2, DeliveredAbove
  <1>4. \A s \in inService \ {Cascade} : Card < s
    <2> TAKE s \in inService \ {Cascade}
    <2>1. stack # <<>> BY Zenon DEF ServiceInv, InServiceIs
    <2>2. stack \in Seq(Frames) BY InvParts
    <2>3. 1 \in 1 .. Len(stack) /\ stack[1] = Head(stack) BY <2>1, <2>2, SMT
    <2>4. CASE ~Runs("late") /\ s \in Taken(stack[1].line)
      <3>1. stack[1].line \in setup.sti BY <1>3, <2>1, <2>3
      <3>2. stack[1].at # "late" BY <2>1, <2>3, <2>4, Zenon DEF Runs
      <3>3. QED BY <2>3, <2>4, <3>1, <3>2, <1>3, CardLowest
    <2>5. CASE s \in Kept
      <3>1. PICK i \in Keepers : s \in Taken(stack[i].line) BY <2>5 DEF Kept
      <3>2. i \in 1 .. Len(stack) /\ i > 1 /\ stack[i].at # "late"
        BY <2>2, <3>1, SMT DEF Keepers
      <3>3. stack[i].line \in setup.sti BY <3>2, LineOf
      <3>4. QED BY <3>1, <3>2, <3>3, <1>3, CardLowest
    <2>6. s \in Kept \/ (~Runs("late") /\ s \in Taken(stack[1].line))
      BY <1>3, <2>1, <2>3
    <2>7. QED BY <2>4, <2>5, <2>6
  <1>5. inService \in SUBSET Lines BY InvParts DEF VirtualIrqTypeOK
  <1>6. IsIRQ(inService', Card) BY <1>1, <1>2, <1>4, <1>5, Recognised
  <1>7. PICK at \in {"main", "chain"} : Push(Card, at) BY <1>6, Zenon DEF EnterSound
  <1>8. at \in {"start", "main", "chain"} /\ at # "start" BY SMT
  <1>9. HandlersOwn' /\ Ordered' /\ InServiceIs'
    <2>1. Card \in Lines BY <1>2
    <2>2. \/ Card = Card /\ at # "start"
          \/ Card \in setup.others /\ at = "start"
      BY <1>8
    <2>3. QED BY <1>1, <1>7, <1>8, <2>1, <2>2, EnterService
  <1>10. QED BY <1>9 DEF Serves

(* The handler that was there before ends the interrupt, then returns. *)
LEMMA OldEndsServes == ASSUME ServiceInv, OldEnds PROVE Serves'
  <1>1. stack # <<>> /\ Runs("chain") /\ ~Ended /\ ~Runs("client")
    BY SMT DEF OldEnds, Runs, Ended, Over
  <1>2. VIRQ_Write(ControllersOf(Card), "eoi") /\ GoTo("late") /\ setup' = setup
    BY Zenon DEF OldEnds
  <1>3. Head(stack).line = Card /\ inService = Kept \cup Taken(Head(stack).line)
    BY <1>1, HeadOf
  <1>4. /\ HandlersOwn' /\ Ordered' /\ Kept' = Kept
        /\ stack' # <<>> /\ \A w : Runs(w)' <=> w = "late"
    BY <1>1, <1>2, <1>3, GoToService
  <1>5. ~Virtualizing BY <1>1, InvParts
  <1>6. inService' = EOI(inService, ControllersOf(Card))
    BY <1>2, <1>5, Zenon DEF VIRQ_Write
  <1>7. inService' = Kept BY <1>1, <1>3, <1>6, KeptBeneath, EOIEnds
  <1>8. Ended' BY <1>4 DEF Ended, Over
  <1>9. InServiceIs' BY <1>4, <1>7, <1>8, Zenon DEF InServiceIs
  <1>10. QED BY <1>4, <1>9 DEF Serves

LEMMA CallOldServes == ASSUME ServiceInv, CallOldISR PROVE Serves'
  <1>1. stack # <<>> /\ Runs("late") /\ Return BY Zenon DEF CallOldISR, Runs
  <1>2. setup' = setup /\ inService' = inService BY Zenon DEF CallOldISR, busVars
  <1>3. inService = Kept BY <1>1, HeadOf DEF Over
  <1>4. QED BY <1>1, <1>2, <1>3, ReturnService DEF Serves

(* Between main and the client's handler, the interrupt may have ended. *)
LEMMA TurnServes ==
  ASSUME ServiceInv, Runs("main") \/ Runs("client"), NEW at \in {"main", "client"}, GoTo(at),
         setup' = setup, inService' = inService
  PROVE  Serves'
  <1>1. stack # <<>> /\ Head(stack).line = Card /\ ~Over
    <2>1. stack # <<>> /\ ~Over BY SMT DEF Runs, Over
    <2>2. QED BY <2>1, HeadOf
  <1>2. \/ Head(stack).line \in setup.others /\ at \in {"start", "done"}
        \/ Head(stack).line \in setup.sti \cap setup.others /\ at = "open"
        \/ Head(stack).line = Card /\ at \in {"main", "client", "late"}
    BY <1>1
  <1>3. /\ HandlersOwn' /\ Ordered' /\ Kept' = Kept
        /\ stack' # <<>> /\ Head(stack').line = Head(stack).line
        /\ \A w : Runs(w)' <=> w = at
    BY <1>1, <1>2, GoToService
  <1>4. inService = Kept \cup Taken(Head(stack).line) \/ inService = Kept BY <1>1, HeadOf
  <1>5. Ended' /\ ~Over'
    <2>1. at # "done" /\ at # "late" BY SMT
    <2>2. QED BY <2>1, <1>3, Zenon DEF Ended, Over
  <1>6. InServiceIs' BY <1>3, <1>4, <1>5, Zenon DEF InServiceIs
  <1>7. QED BY <1>3, <1>6 DEF Serves

LEMMA InvokeServes == ASSUME ServiceInv, InvokeIRQ PROVE Serves'
  <1>1. Runs("main") /\ GoTo("client") /\ setup' = setup /\ inService' = inService
    BY Zenon DEF InvokeIRQ, busVars
  <1>2. "client" \in {"main", "client"} OBVIOUS
  <1>3. QED BY <1>1, <1>2, TurnServes

LEMMA ClientReturnsServes == ASSUME ServiceInv, ClientReturns PROVE Serves'
  <1>1. Runs("client") /\ GoTo("main") /\ setup' = setup /\ inService' = inService
    BY Zenon DEF ClientReturns, busVars
  <1>2. "main" \in {"main", "client"} OBVIOUS
  <1>3. QED BY <1>1, <1>2, TurnServes

LEMMA SmmServes == ASSUME ServiceInv, SmmEnds PROVE Serves'
  <1>1. /\ stack # <<>> /\ Runs("main") /\ Card \in inService
        /\ inService' = EOI(inService, ControllersOf(Card))
        /\ setup' = setup /\ stack' = stack
    BY Zenon DEF SmmEnds, Runs, busVars
  <1>2. Head(stack).line = Card BY <1>1, HeadOf
  <1>3. ~Over BY <1>1, SMT DEF Runs, Over
  <1>4. Card \in Lines \ {Cascade} /\ Beneath(Card, Kept) BY <1>1, <1>2, KeptBeneath
  <1>5. Card \notin Kept BY <1>4, NotTwice
  <1>6. inService = Kept \cup Taken(Card) BY <1>1, <1>2, <1>3, <1>5, HeadOf
  <1>7. inService' = Kept BY <1>1, <1>4, <1>6, EOIEnds
  <1>8. HandlersOwn' /\ Ordered'
    <2>1. Card' = Card BY <1>1 DEF Card
    <2>2. QED BY <1>1, <2>1, Zenon DEF ServiceInv, HandlersOwn, Ordered
  <1>9. Kept' = Kept /\ Ended' /\ stack' # <<>>
    BY <1>1, Zenon DEF Kept, Keepers, Ended, Runs
  <1>10. InServiceIs' BY <1>7, <1>9, Zenon DEF InServiceIs
  <1>11. QED BY <1>8, <1>10 DEF Serves

LEMMA FinishServes ==
  ASSUME ServiceInv, NumbersArePriorities, FinishSound
  PROVE  Serves'
  <1>1. stack # <<>> /\ Runs("main") /\ ~Over BY SMT DEF FinishSound, Runs, Over
  <1>2. Return /\ setup' = setup /\ inService' = SendEOIWithIRQ(inService, Card)
    BY Zenon DEF FinishSound, busVars
  <1>3. Head(stack).line = Card BY <1>1, HeadOf
  <1>4. Card \in Lines \ {Cascade} /\ Beneath(Card, Kept) BY <1>1, <1>3, KeptBeneath
  <1>5. \A s \in Kept \ {Cascade} : Card < s BY <1>1, <1>3, CardBeneath
  <1>6. inService = Kept \cup Taken(Card) \/ inService = Kept BY <1>1, <1>3, HeadOf
  <1>7. inService' = Kept BY <1>2, <1>4, <1>5, <1>6, SendEnds
  <1>8. QED BY <1>1, <1>2, <1>7, ReturnService DEF Serves

(* A write to the controllers while the program or the client runs ends    *)
(* nothing: the program's are no ends, and the client's stay with virq.c.  *)
LEMMA WritesServe ==
  ASSUME ServiceInv, ProgramSelects \/ ClientWrite
  PROVE  Serves'
  <1>1. stack' = stack /\ setup' = setup
    BY Zenon DEF ProgramSelects, ClientWrite, busVars
  <1>2. inService' = inService
    <2>1. CASE ProgramSelects
      <3>1. PICK c \in Controllers, w \in {"isr", "irr"} : VIRQ_Write({c}, w)
        BY <2>1, Zenon DEF ProgramSelects
      <3>2. w # "eoi" BY SMT
      <3>3. QED BY <3>1, <3>2, Zenon DEF VIRQ_Write, picVars
    <2>2. CASE ClientWrite
      <3>1. Virtualizing BY <2>2, InvParts, Zenon DEF ClientWrite
      <3>2. PICK c \in Controllers, w \in Commands : VIRQ_Write({c}, w)
        BY <2>2, Zenon DEF ClientWrite
      <3>3. QED BY <3>1, <3>2, Zenon DEF VIRQ_Write, picVars
    <2>3. QED BY <2>1, <2>2
  <1>3. QED BY <1>1, <1>2, QuietService DEF Serves

LEMMA DevicesServe ==
  ASSUME ServiceInv, Raise \/ RaiseCard \/ ProgramMasks \/ OldMasks \/ UNCHANGED vars
  PROVE  Serves'
  <1>1. stack' = stack /\ setup' = setup /\ inService' = inService
    BY Zenon DEF Raise, RaiseCard, ProgramMasks, OldMasks, busVars, picVars, vars
  <1>2. QED BY <1>1, QuietService DEF Serves

---------------------------------------------------------------------------
LEMMA NextServes ==
  ASSUME NumbersArePriorities, ServiceInv, [Next]_vars, ~EnterAgain
  PROVE  ServiceInv'
  <1>1. Inv' BY NextKeeps DEF ServiceInv
  <1> SUFFICES Serves' BY <1>1, Zenon DEF ServiceInv, Serves
  <1>2. CASE Raise \/ RaiseCard \/ ProgramMasks \/ OldMasks \/ UNCHANGED vars
    BY <1>2, DevicesServe
  <1>3. CASE EnterOther BY <1>3, EnterOtherServes
  <1>4. CASE EnterSound BY <1>4, EnterSoundServes
  <1>5. CASE ProgramSelects \/ ClientWrite BY <1>5, WritesServe
  <1>6. CASE AllowInterrupts BY <1>6, AllowServes
  <1>7. CASE EndOther BY <1>7, EndOtherServes
  <1>8. CASE ReturnOther BY <1>8, ReturnOtherServes
  <1>9. CASE OldEnds BY <1>9, OldEndsServes
  <1>10. CASE CallOldISR BY <1>10, CallOldServes
  <1>11. CASE InvokeIRQ BY <1>11, InvokeServes
  <1>12. CASE ClientReturns BY <1>12, ClientReturnsServes
  <1>13. CASE SmmEnds BY <1>13, SmmServes
  <1>14. CASE FinishSound BY <1>14, FinishServes
  <1>15. QED
    BY <1>2, <1>3, <1>4, <1>5, <1>6, <1>7, <1>8, <1>9, <1>10, <1>11, <1>12, <1>13, <1>14
    DEF Next, Handlers

LEMMA InitServes == Init => ServiceInv
  <1> SUFFICES ASSUME Init PROVE ServiceInv OBVIOUS
  <1>1. Inv BY InitInv
  <1>2. stack = <<>> /\ inService = {} BY Zenon DEF Init
  <1>3. 1 .. Len(stack) = {} BY <1>2, SMT
  <1>4. HandlersOwn /\ Ordered BY <1>3, Zenon DEF HandlersOwn, Ordered
  <1>5. InServiceIs BY <1>2 DEF InServiceIs
  <1>6. QED BY <1>1, <1>4, <1>5 DEF ServiceInv

(* An interrupt of the card that is not handled is remembered. *)
LEMMA SkippedStays ==
  ASSUME Inv, [Next]_vars
  PROVE  (skipped => skipped') /\ (EnterAgain => skipped')
  <1>1. skipped' = skipped \/ skipped' = TRUE
    BY Zenon DEF Next, Handlers, Raise, RaiseCard, EnterOther, EnterSound, EnterAgain,
       ProgramSelects, ProgramMasks, AllowInterrupts, EndOther, ReturnOther, OldMasks,
       OldEnds, CallOldISR, InvokeIRQ, ClientWrite, ClientReturns, SmmEnds, FinishSound,
       vars, pathVars
  <1>2. EnterAgain => skipped' = TRUE BY Zenon DEF EnterAgain
  <1>3. QED BY <1>1, <1>2, SMT

(* The inductive invariant: until an interrupt of the card comes while its *)
(* handler runs, the handlers are stacked by priority and what the         *)
(* controllers have in service is theirs, if the lowest number is always   *)
(* the highest priority.                                                   *)
THEOREM ServiceInvHolds == NumbersArePriorities => (Spec => [](skipped \/ ServiceInv))
  <1> SUFFICES ASSUME NumbersArePriorities PROVE Spec => [](skipped \/ ServiceInv) OBVIOUS
  <1> DEFINE SI == Inv /\ (skipped \/ ServiceInv)
  <1>1. Init => SI BY InitServes, InitInv
  <1>2. SI /\ [Next]_vars => SI'
    <2> SUFFICES ASSUME SI, [Next]_vars PROVE SI' OBVIOUS
    <2>1. Inv' BY NextKeeps
    <2>2. CASE skipped \/ EnterAgain BY <2>1, <2>2, SkippedStays
    <2>3. CASE ~skipped /\ ~EnterAgain BY <2>1, <2>3, NextServes
    <2>4. QED BY <2>2, <2>3
  <1>3. SI => skipped \/ ServiceInv OBVIOUS
  <1> HIDE DEF SI
  <1>4. QED BY <1>1, <1>2, <1>3, PTL DEF Spec

(* What is in service is some handler's that has not ended. *)
LEMMA InServiceOf ==
  ASSUME ServiceInv, NEW s \in inService
  PROVE  \E i \in 1 .. Len(stack) :
           /\ stack[i].at \notin {"done", "late"} /\ s \in Taken(stack[i].line)
           /\ Taken(stack[i].line) \subseteq inService
  <1>1. stack # <<>> BY Zenon DEF ServiceInv, InServiceIs
  <1>2. stack \in Seq(Frames) BY InvParts
  <1>3. 1 \in 1 .. Len(stack) /\ stack[1] = Head(stack) BY <1>1, <1>2, SMT
  <1>4. Kept \subseteq inService BY <1>1, Zenon DEF ServiceInv, InServiceIs
  <1>5. CASE s \in Kept
    <2>1. PICK i \in Keepers : s \in Taken(stack[i].line) BY <1>5 DEF Kept
    <2>2. i \in 1 .. Len(stack) /\ i > 1 /\ stack[i].at # "late"
      BY <1>2, <2>1, SMT DEF Keepers
    <2>3. stack[i].at \in Interrupted BY <2>2 DEF ServiceInv, HandlersOwn
    <2>4. stack[i].at \notin {"done", "late"} BY <2>2, <2>3, SMT DEF Interrupted
    <2>5. Taken(stack[i].line) \subseteq inService BY <2>1, <1>4 DEF Kept
    <2>6. QED BY <2>1, <2>2, <2>4, <2>5
  <1>6. CASE s \notin Kept
    <2>1. ~Over BY <1>1, <1>6, HeadOf
    <2>2. inService = Kept \cup Taken(Head(stack).line) BY <1>1, <1>6, <2>1, HeadOf
    <2>3. stack[1].at \notin {"done", "late"} BY <1>1, <1>3, <2>1, Zenon DEF Over, Runs
    <2>4. QED BY <1>3, <1>6, <2>2, <2>3
  <1>7. QED BY <1>5, <1>6

(* Every end of interrupt reaches the line it is meant for and comes once: *)
(* what is in service are the handlers that have not ended their interrupt *)
(* (pic.c, virq.c), where numbers are priorities.                          *)
THEOREM ServiceIsHandlersHolds == NumbersArePriorities => (Spec => []ServiceIsHandlers)
  <1>1. skipped \/ ServiceInv => ServiceIsHandlers
    <2> SUFFICES ASSUME ServiceInv PROVE ServiceIsHandlers BY Zenon DEF ServiceIsHandlers
    <2> DEFINE active == {f \in {stack[i] : i \in DOMAIN stack} : Active(f)}
               lines == inService \ {Cascade}
    <2>1. stack \in Seq(Frames) BY InvParts
    <2>2. DOMAIN stack = 1 .. Len(stack) BY <2>1, SMT
    <2>3. {f.line : f \in active} \ {Card} \subseteq lines
      <3> SUFFICES ASSUME NEW i \in 1 .. Len(stack), Active(stack[i]), stack[i].line # Card
                   PROVE  stack[i].line \in lines
        BY <2>2
      <3> DEFINE l == stack[i].line
      <3>1. l \in Lines \ {Cascade} BY LineOf
      <3>2. l \in Taken(l) BY <3>1, LevelFacts
      <3>3. stack # <<>> /\ Head(stack) = stack[1] BY <2>1, SMT
      <3>4. CASE i = 1
        <4>1. ~Ended
          <5>1. ~Runs("main") /\ ~Runs("client") BY <3>3, <3>4, HeadOf
          <5>2. ~Over BY <3>3, <3>4, SMT DEF Active, Runs, Over
          <5>3. QED BY <5>1, <5>2 DEF Ended
        <4>2. QED BY <3>1, <3>2, <3>3, <3>4, <4>1, HeadOf
      <3>5. CASE i # 1
        <4>1. i \in Keepers BY <3>5, <2>1, SMT DEF Keepers, Active
        <4>2. l \in Kept BY <4>1, <3>2 DEF Kept
        <4>3. Kept \subseteq inService BY <3>3, Zenon DEF ServiceInv, InServiceIs
        <4>4. QED BY <3>1, <4>2, <4>3
      <3>6. QED BY <3>4, <3>5
    <2>4. lines \subseteq {f.line : f \in active}
      <3> SUFFICES ASSUME NEW s \in lines PROVE s \in {f.line : f \in active} OBVIOUS
      <3>1. PICK i \in 1 .. Len(stack) : stack[i].at \notin {"done", "late"} /\ s \in Taken(stack[i].line)
        BY InServiceOf
      <3>2. stack[i] \in Frames /\ stack[i].line \in Lines \ {Cascade} BY LineOf
      <3>3. s = stack[i].line
        <4> DEFINE l == stack[i].line
        <4>1. /\ s = l \/ s = Level(l)
              /\ l < 8 => Level(l) = l
              /\ l >= 8 => Level(l) = Cascade
              /\ l \in Lines
          BY <3>1, <3>2, LevelFacts
        <4> HIDE DEF l
        <4>2. s = l BY <4>1, SMT DEF Lines
        <4>3. QED BY <4>2 DEF l
      <3>4. Active(stack[i]) BY <3>1, <3>2, SMT DEF Active, Frames
      <3>5. stack[i] \in active BY <2>2, <3>4
      <3>6. QED BY <3>3, <3>5
    <2>5. Cascade \in inService <=> lines \cap Of("slave") # {}
      <3>1. ASSUME Cascade \in inService PROVE lines \cap Of("slave") # {}
        <4>1. PICK i \in 1 .. Len(stack) :
                Cascade \in Taken(stack[i].line) /\ Taken(stack[i].line) \subseteq inService
          BY <3>1, InServiceOf
        <4>2. stack[i].line \in Lines \ {Cascade} BY LineOf
        <4> DEFINE l == stack[i].line
        <4>3. /\ Cascade = Level(l)
              /\ l < 8 => Level(l) = l
              /\ l \in Lines /\ l # Cascade
              /\ l \in inService
          BY <4>1, <4>2, LevelFacts
        <4> HIDE DEF l
        <4>4. l \in Of("slave") BY <4>3, SMT DEF Of, Lines
        <4>5. QED BY <4>3, <4>4
      <3>2. ASSUME NEW s \in lines \cap Of("slave") PROVE Cascade \in inService
        <4>1. PICK i \in 1 .. Len(stack) :
                s \in Taken(stack[i].line) /\ Taken(stack[i].line) \subseteq inService
          BY InServiceOf
        <4>2. stack[i].line \in Lines \ {Cascade} BY LineOf
        <4> DEFINE l == stack[i].line
        <4>3. /\ s = l \/ s = Level(l)
              /\ Level(l) \in 0 .. 7
              /\ l >= 8 => Level(l) = Cascade
              /\ Level(l) \in inService
          BY <4>1, <4>2, LevelFacts
        <4> HIDE DEF l
        <4>4. s >= 8 BY SMT DEF Of
        <4>5. s = l BY <4>3, <4>4, SMT
        <4>6. QED BY <4>3, <4>4, <4>5
      <3>3. QED BY <3>1, <3>2
    <2>6. QED BY <2>3, <2>4, <2>5 DEF ServiceIsHandlers
  <1>2. NumbersArePriorities => (Spec => [](skipped \/ ServiceInv)) BY ServiceInvHolds
  <1>3. QED BY <1>1, <1>2, PTL
=============================================================================
