--------------------------- MODULE ResidentProofs ---------------------------
(***************************************************************************)
(* A failed start leaves nothing behind, whatever it was asked for.  After *)
(* a start as it is by default the traps follow the options through the    *)
(* updates, but for those a server refused, and until one of these is      *)
(* removed.  The argument: a server's QEMM_IOPTs tell exactly which of its *)
(* traps are linked; the flags of the start tell which of them the start   *)
(* made; and an update removes all that are linked and, of the others,     *)
(* only the refused.                                                       *)
(***************************************************************************)
EXTENDS Resident, TLAPS

(* As by default, real mode and the OPL3 are asked for at the start. *)
DefaultStart == \A o \in Options : o.RM /\ o.OPL

Bases == Addresses \cup {0}
IoOK(i) ==
  /\ i \in [links : [Servers -> [Traps("RM") -> Seq(Bases)] \cup [Traps("PM") -> Seq(Bases)]],
            iopt : [Servers -> SUBSET AllTraps], callback : Words \X Words, old : Words \X Words,
            stale : BOOLEAN]
  /\ \A s \in Servers : i.links[s] \in [Traps(s) -> Seq(Bases)] /\ i.iopt[s] \subseteq Traps(s)

(* Each trap is linked once if its QEMM_IOPT says so, and QEMM calls SBEMU *)
(* exactly as long as it has one of its traps.                             *)
Linked(i, o) ==
  \A s \in Servers : \A t \in Traps(s) :
    i.links[s][t] = IF t \in i.iopt[s] THEN <<Base(t, o)>> ELSE <<>>
Hooked(i) == i.old # Ours /\ (i.callback = Ours <=> i.iopt["RM"] # {})
Good(i, o) == IoOK(i) /\ Linked(i, o) /\ Hooked(i)

Starting == {"opl", "mpu", "traps", "playing", "exit"}

(* What the start has made so far. *)
StartMade ==
  phase \in Starting =>
    /\ Good(io, MAIN_Options)
    /\ phase = "opl" => installed["OPL"] = {}
    /\ phase \in {"opl", "mpu"} => installed["MPU"] = {}
    /\ \A s \in Servers :
         /\ io.iopt[s] \cap {"OPL", "MPU"} = Flagged(s)
         /\ io.iopt[s] \cap Kept(s) # {} => phase = "playing"
         /\ "PIC" \in io.iopt[s] => serving
OnlyEnabled ==
  phase \in Starting => \A s \in Servers : ~MAIN_Options[s] => io.iopt[s] = {}
NothingServed == serving => phase \in {"playing", "resident"}
StartInv ==
  ResidentTypeOK /\ IoOK(io) /\ StartMade /\ OnlyEnabled /\ NothingServed /\ NothingLeftBehind

(* After a default start. *)
FlagsTell ==
  /\ phase \in Starting => MAIN_Options.OPL /\ \A s \in Servers : present[s] => MAIN_Options[s]
  /\ phase \in {"mpu", "traps", "playing", "resident"} =>
       \A s \in Servers : present[s] => s \in installed["OPL"]
  /\ phase \in {"traps", "playing"} =>
       \A s \in Servers : MAIN_Options[s] => (s \in installed["MPU"] <=> MAIN_Options.MPU)
  /\ \A s \in Servers, t \in {"OPL", "MPU"} : s \in installed[t] => present[s]
StartNoticed ==
  phase \in Starting => ~io.stale /\ \A s \in Servers : refused[s] = {}
ServedTrapped ==
  serving /\ MAIN_Options.RM => "PIC" \in io.iopt["RM"] \cup refused["RM"]
WhileServing(s) == IF s = "RM" /\ MAIN_Options.RM /\ serving THEN {"PIC"} ELSE {}
ResidentMade ==
  phase = "resident" /\ ~io.stale =>
    /\ Good(io, MAIN_Options)
    /\ "PIC" \in refused["RM"] => serving /\ MAIN_Options.RM
    /\ \A s \in Servers :
         io.iopt[s] = (Wanted(s, MAIN_Options) \cup WhileServing(s)) \ refused[s]
DefaultInv ==
  StartInv /\ FlagsTell /\ StartNoticed /\ ServedTrapped /\ ResidentMade /\ RemovedOnce

---------------------------------------------------------------------------
LEMMA IoParts ==
  ASSUME NEW i, IoOK(i)
  PROVE  /\ i.links = [s \in Servers |-> i.links[s]] /\ i.iopt = [s \in Servers |-> i.iopt[s]]
         /\ i.callback \in Words \X Words /\ i.old \in Words \X Words /\ i.stale \in BOOLEAN
         /\ i = [links |-> i.links, iopt |-> i.iopt, callback |-> i.callback, old |-> i.old,
                  stale |-> i.stale]
  BY DEF IoOK

LEMMA TrapFacts ==
  /\ Servers = {"RM", "PM"}
  /\ \A s \in Servers : Traps(s) \subseteq AllTraps /\ Kept(s) \subseteq Traps(s)
                        /\ {"OPL", "MPU"} \subseteq Traps(s)
                        /\ Kept(s) \cap {"OPL", "MPU", "PIC"} = {}
                        /\ Traps(s) = Kept(s) \cup {"OPL", "MPU"} \cup (IF s = "RM" THEN {"PIC"} ELSE {})
  BY DEF Servers, AllTraps, Traps, Kept

(* What is kept of an address is one, and SBEMU's only of SBEMU's. *)
LEMMA SavedFacts ==
  ASSUME NEW c \in Words \X Words
  PROVE  Saved(c) \in Words \X Words /\ (Saved(c) = Ours <=> c = Ours)
  BY DEF Saved, Ours

LEMMA BaseType == ASSUME NEW t, NEW o \in AllOptions PROVE Base(t, o) \in Bases
  BY DEF Base, Bases, AllOptions

(* Installing adds a link to each of the traps. *)
Installs(i, j, s, T, o) ==
  /\ \A t \in Traps(s) : /\ t \notin T => j.links[s][t] = i.links[s][t]
                         /\ t \in T /\ i.links[s][t] = <<>> => j.links[s][t] = <<Base(t, o)>>
  /\ j.iopt[s] = i.iopt[s] \cup T
  /\ \A r \in Servers \ {s} : j.links[r] = i.links[r] /\ j.iopt[r] = i.iopt[r]
  /\ LET first == s = "RM" /\ T # {} /\ Empty(i.links, "RM")
     IN /\ j.callback = IF first THEN Ours ELSE i.callback
        /\ j.old = IF first THEN Saved(i.callback) ELSE i.old
  /\ j.stale = i.stale

LEMMA InstallFacts ==
  ASSUME NEW i, IoOK(i), NEW s \in Servers, NEW T \in SUBSET Traps(s), NEW o \in AllOptions,
         NEW j, j = Install(i, s, T, o)
  PROVE  IoOK(j) /\ Installs(i, j, s, T, o)
  <1> DEFINE l == [t \in Traps(s) |-> IF t \in T THEN Append(i.links[s][t], Base(t, o)) ELSE i.links[s][t]]
             first == s = "RM" /\ T # {} /\ Empty(i.links, "RM")
  <1>1. j = [links |-> [i.links EXCEPT ![s] = l], iopt |-> [i.iopt EXCEPT ![s] = @ \cup T],
             callback |-> IF first THEN Ours ELSE i.callback,
             old |-> IF first THEN Saved(i.callback) ELSE i.old, stale |-> i.stale]
    BY DEF Install
  <1>2. i.links[s] \in [Traps(s) -> Seq(Bases)] BY DEF IoOK
  <1>3. l \in [Traps(s) -> Seq(Bases)] BY <1>2, BaseType
  <1> HIDE DEF l, first
  <1>4. j.links = [i.links EXCEPT ![s] = l] /\ j.iopt = [i.iopt EXCEPT ![s] = @ \cup T] BY <1>1
  <1>5. DOMAIN i.links = Servers /\ DOMAIN i.iopt = Servers BY IoParts
  <1>6. j.links[s] = l /\ j.iopt[s] = i.iopt[s] \cup T BY <1>4, <1>5
  <1>7. \A r \in Servers \ {s} : j.links[r] = i.links[r] /\ j.iopt[r] = i.iopt[r] BY <1>4, <1>5
  <1>8. /\ j.callback = (IF first THEN Ours ELSE i.callback)
        /\ j.old = (IF first THEN Saved(i.callback) ELSE i.old) /\ j.stale = i.stale
    BY <1>1
  <1>9. j.callback \in Words \X Words /\ j.old \in Words \X Words /\ j.stale \in BOOLEAN
    <2>1. Ours \in Words \X Words BY DEF Ours, Words
    <2>2. QED BY <1>8, <2>1, IoParts, SavedFacts
  <1>10. \A r \in Servers : j.links[r] \in [Traps(r) -> Seq(Bases)] /\ j.iopt[r] \subseteq Traps(r)
    BY <1>3, <1>6, <1>7 DEF IoOK
  <1>11. DOMAIN j.links = Servers /\ DOMAIN j.iopt = Servers BY <1>4, <1>5
  <1>12. j.links = [r \in Servers |-> j.links[r]] /\ j.iopt = [r \in Servers |-> j.iopt[r]]
    BY <1>4, <1>5
  <1>13. IoOK(j) BY <1>1, <1>9, <1>10, <1>12, TrapFacts DEF IoOK
  <1>14. \A t \in Traps(s) :
           /\ t \notin T => j.links[s][t] = i.links[s][t]
           /\ t \in T /\ i.links[s][t] = <<>> => j.links[s][t] = <<Base(t, o)>>
    <2> TAKE t \in Traps(s)
    <2>1. j.links[s][t] = IF t \in T THEN Append(i.links[s][t], Base(t, o)) ELSE i.links[s][t]
      BY <1>6 DEF l
    <2>2. Append(<<>>, Base(t, o)) = <<Base(t, o)>> OBVIOUS
    <2>3. QED BY <2>1, <2>2, Zenon
  <1>15. QED BY <1>6, <1>7, <1>8, <1>13, <1>14, Zenon DEF Installs, first

(* Removing takes the last link of each of the traps; QEMM gets its old    *)
(* callback back if none is left.                                          *)
Uninstalls(i, j, s, T) ==
  /\ \A t \in Traps(s) :
       j.links[s][t] = IF t \in T /\ i.links[s][t] # <<>> THEN Front(i.links[s][t])
                       ELSE i.links[s][t]
  /\ j.iopt[s] = i.iopt[s] \ T
  /\ \A r \in Servers \ {s} : j.links[r] = i.links[r] /\ j.iopt[r] = i.iopt[r]
  /\ j.callback = IF s = "RM" /\ T # {} /\ Empty(j.links, "RM") THEN i.old ELSE i.callback
  /\ j.old = i.old
  /\ j.stale = (i.stale \/ ~(T \subseteq i.iopt[s]))

LEMMA UninstallFacts ==
  ASSUME NEW i, IoOK(i), NEW s \in Servers, NEW T \in SUBSET Traps(s),
         NEW j, j = Uninstall(i, s, T)
  PROVE  IoOK(j) /\ Uninstalls(i, j, s, T)
  <1> DEFINE l == [t \in Traps(s) |-> IF t \in T /\ i.links[s][t] # <<>> THEN Front(i.links[s][t])
                                       ELSE i.links[s][t]]
             left == [i.links EXCEPT ![s] = l]
  <1>1. Unlinked(i, s, T) = left BY IoParts DEF Unlinked
  <1>2. i.links[s] \in [Traps(s) -> Seq(Bases)] BY DEF IoOK
  <1>3. l \in [Traps(s) -> Seq(Bases)] BY <1>2 DEF Front
  <1> HIDE DEF l, left
  <1>4. j = [links |-> left, iopt |-> [i.iopt EXCEPT ![s] = @ \ T],
             callback |-> IF s = "RM" /\ T # {} /\ Empty(left, "RM") THEN i.old ELSE i.callback,
             old |-> i.old, stale |-> i.stale \/ ~(T \subseteq i.iopt[s])]
    BY <1>1 DEF Uninstall
  <1>5. j.links = left /\ j.iopt = [i.iopt EXCEPT ![s] = @ \ T] BY <1>4
  <1>6. DOMAIN i.links = Servers /\ DOMAIN i.iopt = Servers BY IoParts
  <1>7. j.links[s] = l /\ j.iopt[s] = i.iopt[s] \ T BY <1>5, <1>6 DEF left
  <1>8. \A r \in Servers \ {s} : j.links[r] = i.links[r] /\ j.iopt[r] = i.iopt[r]
    BY <1>5, <1>6 DEF left
  <1>9. /\ j.callback = (IF s = "RM" /\ T # {} /\ Empty(j.links, "RM") THEN i.old ELSE i.callback)
        /\ j.old = i.old /\ j.stale = (i.stale \/ ~(T \subseteq i.iopt[s]))
    BY <1>4, <1>5
  <1>10. j.callback \in Words \X Words /\ j.old \in Words \X Words /\ j.stale \in BOOLEAN
    BY <1>9, IoParts
  <1>11. \A r \in Servers : j.links[r] \in [Traps(r) -> Seq(Bases)] /\ j.iopt[r] \subseteq Traps(r)
    BY <1>3, <1>7, <1>8 DEF IoOK
  <1>12. j.links = [r \in Servers |-> j.links[r]] /\ j.iopt = [r \in Servers |-> j.iopt[r]]
    BY <1>5, <1>6 DEF left
  <1>13. IoOK(j) BY <1>4, <1>10, <1>11, <1>12, TrapFacts DEF IoOK
  <1>14. \A t \in Traps(s) :
           j.links[s][t] = IF t \in T /\ i.links[s][t] # <<>> THEN Front(i.links[s][t])
                           ELSE i.links[s][t]
    BY <1>7 DEF l
  <1>15. QED BY <1>7, <1>8, <1>9, <1>13, <1>14, Zenon DEF Uninstalls

(* A server has no link exactly if no QEMM_IOPT points to one. *)
LEMMA EmptyMeans ==
  ASSUME NEW o, NEW i, IoOK(i), Linked(i, o), NEW s \in Servers
  PROVE  Empty(i.links, s) <=> i.iopt[s] = {}
  <1>1. i.iopt[s] \subseteq Traps(s) BY DEF IoOK
  <1>2. ASSUME NEW t \in Traps(s) PROVE (i.links[s][t] = <<>>) <=> (t \notin i.iopt[s])
    <2>1. i.links[s][t] = IF t \in i.iopt[s] THEN <<Base(t, o)>> ELSE <<>> BY DEF Linked
    <2>2. <<Base(t, o)>> # <<>> OBVIOUS
    <2>3. QED BY <2>1, <2>2, Zenon
  <1>3. ASSUME Empty(i.links, s) PROVE i.iopt[s] = {}
    <2>1. \A t \in Traps(s) : i.links[s][t] = <<>> BY <1>3, Zenon DEF Empty
    <2>2. QED BY <1>1, <1>2, <2>1, Zenon
  <1>4. ASSUME i.iopt[s] = {} PROVE Empty(i.links, s)
    <2>1. \A t \in Traps(s) : i.links[s][t] = <<>> BY <1>2, <1>4, Zenon
    <2>2. QED BY <2>1, Zenon DEF Empty
  <1>5. QED BY <1>3, <1>4

(* A trap that was not linked is linked once, one that was is not linked. *)
Adds(i, j, s, T) ==
  /\ j.stale = i.stale /\ j.iopt[s] = i.iopt[s] \cup T
  /\ \A r \in Servers \ {s} : j.iopt[r] = i.iopt[r]

LEMMA InstallGood ==
  ASSUME NEW o \in AllOptions, NEW i, Good(i, o), NEW s \in Servers, NEW T \in SUBSET Traps(s),
         T \cap i.iopt[s] = {}, NEW j, j = Install(i, s, T, o)
  PROVE  Good(j, o) /\ Adds(i, j, s, T)
  <1>1. IoOK(i) /\ Linked(i, o) /\ Hooked(i) BY DEF Good
  <1>2. IoOK(j) /\ Installs(i, j, s, T, o) BY <1>1, InstallFacts
  <1>3. Adds(i, j, s, T) BY <1>2 DEF Adds, Installs
  <1>4. \A t \in Traps(s) : j.links[s][t] = IF t \in j.iopt[s] THEN <<Base(t, o)>> ELSE <<>>
    BY <1>1, <1>2 DEF Linked, Installs
  <1>5. Linked(j, o) BY <1>1, <1>2, <1>4 DEF Linked, Installs
  <1>6. Hooked(j)
    <2>1. CASE s = "RM" /\ T # {} /\ i.iopt["RM"] = {}
      <3>1. Empty(i.links, "RM") BY <1>1, <2>1, EmptyMeans, TrapFacts
      <3>2. j.callback = Ours /\ j.old = Saved(i.callback) /\ j.iopt["RM"] = i.iopt["RM"] \cup T
        BY <1>2, <2>1, <3>1 DEF Installs
      <3>3. i.callback # Ours /\ i.callback \in Words \X Words BY <1>1, <2>1, IoParts DEF Hooked
      <3>4. QED BY <2>1, <3>2, <3>3, SavedFacts DEF Hooked
    <2>2. CASE s = "RM" /\ (T = {} \/ i.iopt["RM"] # {})
      <3>1. T = {} \/ ~Empty(i.links, "RM") BY <1>1, <2>2, EmptyMeans, TrapFacts
      <3>2. j.callback = i.callback /\ j.old = i.old /\ j.iopt["RM"] = i.iopt["RM"] \cup T
        BY <1>2, <2>2, <3>1 DEF Installs
      <3>3. QED BY <1>1, <2>2, <3>2 DEF Hooked
    <2>3. CASE s # "RM"
      <3>1. j.iopt["RM"] = i.iopt["RM"] /\ j.callback = i.callback /\ j.old = i.old
        BY <1>2, <2>3, TrapFacts DEF Installs
      <3>2. QED BY <1>1, <3>1 DEF Hooked
    <2>4. QED BY <2>1, <2>2, <2>3
  <1>7. QED BY <1>2, <1>3, <1>5, <1>6 DEF Good

Removes(i, j, s, T) ==
  /\ T \subseteq i.iopt[s] => j.stale = i.stale
  /\ j.iopt[s] = i.iopt[s] \ T
  /\ \A r \in Servers \ {s} : j.iopt[r] = i.iopt[r]

LEMMA UninstallGood ==
  ASSUME NEW o \in AllOptions, NEW i, Good(i, o), NEW s \in Servers, NEW T \in SUBSET Traps(s),
         NEW j, j = Uninstall(i, s, T)
  PROVE  Good(j, o) /\ Removes(i, j, s, T)
  <1>1. IoOK(i) /\ Linked(i, o) /\ Hooked(i) BY DEF Good
  <1>2. IoOK(j) /\ Uninstalls(i, j, s, T) BY <1>1, UninstallFacts
  <1>3. Removes(i, j, s, T) BY <1>1, <1>2, IoParts DEF Removes, Uninstalls
  <1>4. \A t \in Traps(s) : j.links[s][t] = IF t \in j.iopt[s] THEN <<Base(t, o)>> ELSE <<>>
    <2> TAKE t \in Traps(s)
    <2>1. i.links[s][t] = IF t \in i.iopt[s] THEN <<Base(t, o)>> ELSE <<>> BY <1>1 DEF Linked
    <2>2. Front(<<Base(t, o)>>) = <<>> BY DEF Front
    <2>3. QED BY <1>2, <2>1, <2>2 DEF Uninstalls
  <1>5. Linked(j, o) BY <1>1, <1>2, <1>4 DEF Linked, Uninstalls
  <1>6. Empty(j.links, "RM") <=> j.iopt["RM"] = {} BY <1>2, <1>5, EmptyMeans, TrapFacts
  <1>7. Hooked(j)
    <2>1. CASE s = "RM"
      <3>1. j.old = i.old /\ j.iopt["RM"] = i.iopt["RM"] \ T BY <1>2, <2>1 DEF Uninstalls
      <3>2. CASE T = {} BY <1>1, <1>2, <2>1, <3>1, <3>2 DEF Hooked, Uninstalls
      <3>3. CASE T # {} /\ j.iopt["RM"] = {}
        <4>1. j.callback = i.old BY <1>2, <1>6, <2>1, <3>3 DEF Uninstalls
        <4>2. QED BY <1>1, <3>1, <3>3, <4>1 DEF Hooked
      <3>4. CASE T # {} /\ j.iopt["RM"] # {}
        <4>1. j.callback = i.callback BY <1>2, <1>6, <2>1, <3>4 DEF Uninstalls
        <4>2. QED BY <1>1, <3>1, <3>4, <4>1 DEF Hooked
      <3>5. QED BY <3>2, <3>3, <3>4
    <2>2. CASE s # "RM" BY <1>1, <1>2, <2>2, TrapFacts DEF Hooked, Uninstalls
    <2>3. QED BY <2>1, <2>2
  <1>8. QED BY <1>2, <1>3, <1>5, <1>7 DEF Good

(* What is granted was asked for, and QEMM refuses none when it has a link. *)
LEMMA GrantsFacts ==
  ASSUME NEW i, NEW s, NEW T, NEW d \in Grants(i, s, T)
  PROVE  d \in SUBSET T /\ (s = "RM" /\ ~Empty(i.links, "RM") => d = T)
  BY DEF Grants

(* With nothing linked, the address does not matter. *)
LEMMA NoneLinked ==
  ASSUME NEW o, NEW p, NEW i, Good(i, o), \A s \in Servers : i.iopt[s] = {}
  PROVE  Good(i, p)
  BY DEF Good, Linked
---------------------------------------------------------------------------
(* What the steps of the start do to the traps. *)
TypeApart ==
  /\ phase \in {"opl", "mpu", "traps", "playing", "resident", "exit", "exited"}
  /\ MAIN_Options \in AllOptions /\ present \in [Servers -> BOOLEAN]
  /\ \A s \in Servers : MAIN_Options[s] => present[s]
  /\ installed \in [{"OPL", "MPU"} -> SUBSET Servers]
  /\ serving \in BOOLEAN /\ refused \in [Servers -> SUBSET AllTraps]

LEMMA TypeParts ==
  /\ IoOK(io) => (ResidentTypeOK <=> TypeApart)
  /\ IoOK(io') => (ResidentTypeOK' <=> TypeApart')
  BY IoParts DEF ResidentTypeOK, TypeApart, IoOK, Bases

TrapMade(t, next, done) ==
  /\ installed' = [installed EXCEPT ![t] = done]
  /\ phase' = IF done = Enabled THEN next ELSE "exit"
  /\ Good(io', MAIN_Options) /\ io'.stale = io.stale
  /\ \A s \in Servers : io'.iopt[s] = io.iopt[s] \cup (IF s \in done THEN {t} ELSE {})

LEMMA StartTrapMakes ==
  ASSUME MAIN_Options \in AllOptions, Good(io, MAIN_Options), NEW t \in {"OPL", "MPU"}, NEW next,
         \A s \in Servers : t \notin io.iopt[s], StartTrap(t, next)
  PROVE  \E done \in SUBSET Enabled : TrapMade(t, next, done)
  <1>1. PICK done \in SUBSET Enabled :
          /\ installed' = [installed EXCEPT ![t] = done]
          /\ io' = LET i == IF "RM" \in done THEN Install(io, "RM", {t}, MAIN_Options) ELSE io
                   IN IF "PM" \in done THEN Install(i, "PM", {t}, MAIN_Options) ELSE i
          /\ phase' = IF done = Enabled THEN next ELSE "exit"
    BY DEF StartTrap
  <1> DEFINE i == IF "RM" \in done THEN Install(io, "RM", {t}, MAIN_Options) ELSE io
  <1>2. \A s \in Servers : {t} \in SUBSET Traps(s) BY TrapFacts
  <1>3. /\ Good(i, MAIN_Options) /\ i.stale = io.stale
        /\ i.iopt["RM"] = io.iopt["RM"] \cup (IF "RM" \in done THEN {t} ELSE {})
        /\ i.iopt["PM"] = io.iopt["PM"]
    <2>1. CASE "RM" \in done
      <3>1. i = Install(io, "RM", {t}, MAIN_Options) BY <2>1
      <3>2. Good(i, MAIN_Options) /\ Adds(io, i, "RM", {t})
        BY <1>2, <3>1, InstallGood, TrapFacts
      <3>3. QED BY <2>1, <3>2, TrapFacts DEF Adds
    <2>2. CASE "RM" \notin done BY <2>2
    <2>3. QED BY <2>1, <2>2
  <1>4. io' = IF "PM" \in done THEN Install(i, "PM", {t}, MAIN_Options) ELSE i BY <1>1
  <1> HIDE DEF i
  <1>5. /\ Good(io', MAIN_Options) /\ io'.stale = i.stale
        /\ io'.iopt["PM"] = i.iopt["PM"] \cup (IF "PM" \in done THEN {t} ELSE {})
        /\ io'.iopt["RM"] = i.iopt["RM"]
    <2>1. CASE "PM" \in done
      <3>1. io' = Install(i, "PM", {t}, MAIN_Options) BY <1>4, <2>1
      <3>2. Good(io', MAIN_Options) /\ Adds(i, io', "PM", {t})
        BY <1>2, <1>3, <3>1, InstallGood, TrapFacts
      <3>3. QED BY <2>1, <3>2, TrapFacts DEF Adds
    <2>2. CASE "PM" \notin done BY <1>3, <1>4, <2>2
    <2>3. QED BY <2>1, <2>2
  <1>6. \A s \in Servers : io'.iopt[s] = io.iopt[s] \cup (IF s \in done THEN {t} ELSE {})
    BY <1>3, <1>5, TrapFacts
  <1>7. QED BY <1>1, <1>3, <1>5, <1>6 DEF TrapMade
---------------------------------------------------------------------------
(* Every step keeps StartInv, whatever the options are. *)
Limited(p, o, a, b) ==
  /\ p \in AllOptions /\ p.OPL = o.OPL
  /\ p["RM"] = (o.RM /\ a) /\ p["PM"] = (o.PM /\ b)

LEMMA LimitedOptions ==
  ASSUME NEW o \in AllOptions, NEW a \in BOOLEAN, NEW b \in BOOLEAN,
         NEW p, p = [o EXCEPT !.RM = @ /\ a, !.PM = @ /\ b]
  PROVE  Limited(p, o, a, b)
  <1>1. /\ o.RM \in BOOLEAN /\ o.PM \in BOOLEAN /\ o.OPL \in BOOLEAN
        /\ o.MPU \in BOOLEAN /\ o.ADDR \in Addresses
        /\ o = [RM |-> o.RM, PM |-> o.PM, OPL |-> o.OPL, MPU |-> o.MPU, ADDR |-> o.ADDR]
    BY DEF AllOptions
  <1>2. p = [RM |-> o.RM /\ a, PM |-> o.PM /\ b, OPL |-> o.OPL, MPU |-> o.MPU, ADDR |-> o.ADDR]
    BY <1>1
  <1>3. QED BY <1>1, <1>2 DEF AllOptions, Limited

LEMMA StartInit == ResidentInit => StartInv
  <1> SUFFICES ASSUME ResidentInit PROVE StartInv OBVIOUS
  <1>1. PICK m \in Machines, o \in Options :
          /\ present = [RM |-> m.RM \/ ~o.RM, PM |-> m.PM /\ o.PM]
          /\ MAIN_Options = [o EXCEPT !.RM = @ /\ m.RM, !.PM = @ /\ m.PM]
    BY DEF ResidentInit
  <1>2. m \in [Servers -> BOOLEAN] /\ o \in AllOptions BY ResidentAssumption
  <1>3. /\ present \in [Servers -> BOOLEAN] /\ MAIN_Options \in AllOptions
        /\ \A s \in Servers : MAIN_Options[s] => present[s]
    <2>1. m.RM \in BOOLEAN /\ m.PM \in BOOLEAN /\ o.RM \in BOOLEAN /\ o.PM \in BOOLEAN
      BY <1>2 DEF Servers, AllOptions
    <2>2. present["RM"] = (m.RM \/ ~o.RM) /\ present["PM"] = (m.PM /\ o.PM) BY <1>1
    <2>3. present \in [Servers -> BOOLEAN]
      <3>1. DOMAIN present = Servers BY <1>1 DEF Servers
      <3>2. present = [s \in DOMAIN present |-> present[s]] BY <1>1
      <3>3. present["RM"] \in BOOLEAN /\ present["PM"] \in BOOLEAN BY <2>2
      <3>4. QED BY <3>1, <3>2, <3>3, TrapFacts
    <2>4. /\ MAIN_Options \in AllOptions
          /\ MAIN_Options["RM"] = (o.RM /\ m.RM) /\ MAIN_Options["PM"] = (o.PM /\ m.PM)
      <3>1. Limited(MAIN_Options, o, m.RM, m.PM) BY <1>1, <1>2, <2>1, LimitedOptions
      <3>2. QED BY <3>1 DEF Limited
    <2>5. QED BY <2>2, <2>3, <2>4, TrapFacts
  <1>4. TypeApart
    <2>1. phase \in {"opl", "exited"} BY DEF ResidentInit
    <2>2. installed \in [{"OPL", "MPU"} -> SUBSET Servers] BY DEF ResidentInit
    <2>3. serving \in BOOLEAN BY DEF ResidentInit
    <2>4. refused \in [Servers -> SUBSET AllTraps] BY DEF ResidentInit
    <2>5. QED BY <1>3, <2>1, <2>2, <2>3, <2>4 DEF TypeApart
  <1>5. /\ \A s \in Servers : io.links[s] = [t \in Traps(s) |-> <<>>] /\ io.iopt[s] = {}
        /\ io.callback = Theirs /\ io.old = <<"0", "0">> /\ io.stale = FALSE
    BY DEF ResidentInit
  <1>6. IoOK(io) BY TrapFacts DEF ResidentInit, IoOK, Theirs, Words
  <1>7. Good(io, MAIN_Options)
    <2>1. io.old # Ours /\ io.callback # Ours BY <1>5 DEF Ours, Theirs
    <2>2. QED BY <1>5, <1>6, <2>1, TrapFacts DEF Good, Linked, Hooked
  <1>8. \A s \in Servers : Flagged(s) = {} /\ installed["OPL"] = {} /\ installed["MPU"] = {}
    BY DEF ResidentInit, Flagged
  <1>9. StartMade /\ OnlyEnabled
    <2>1. \A s \in Servers : /\ io.iopt[s] \cap {"OPL", "MPU"} = Flagged(s)
                             /\ io.iopt[s] \cap Kept(s) = {}
                             /\ "PIC" \notin io.iopt[s]
      BY <1>5, <1>8
    <2>2. installed["OPL"] = {} /\ installed["MPU"] = {} BY DEF ResidentInit
    <2>3. StartMade BY <1>7, <2>1, <2>2, Zenon DEF StartMade
    <2>4. OnlyEnabled BY <1>5, Zenon DEF OnlyEnabled
    <2>5. QED BY <2>3, <2>4
  <1>10. NothingLeftBehind
    <2>1. Theirs # Ours BY DEF Ours, Theirs
    <2>2. QED BY <1>5, <2>1 DEF NothingLeftBehind, Empty
  <1>11. NothingServed BY DEF NothingServed, ResidentInit
  <1>12. QED BY <1>4, <1>6, <1>9, <1>10, <1>11, TypeParts DEF StartInv

LEMMA StartTrapKeeps ==
  ASSUME StartInv, NEW t \in {"OPL", "MPU"}, NEW next \in {"mpu", "traps"},
         NEW done \in SUBSET Enabled, TrapMade(t, next, done),
         phase = (IF t = "OPL" THEN "opl" ELSE "mpu"), next = (IF t = "OPL" THEN "mpu" ELSE "traps"),
         UNCHANGED <<MAIN_Options, present, serving, refused>>
  PROVE  StartInv'
  <1>1. TypeApart /\ IoOK(io) /\ StartMade /\ OnlyEnabled /\ NothingServed
    BY TypeParts DEF StartInv
  <1>2. /\ installed' = [installed EXCEPT ![t] = done]
        /\ phase' \in {next, "exit"}
        /\ Good(io', MAIN_Options)
        /\ \A s \in Servers : io'.iopt[s] = io.iopt[s] \cup (IF s \in done THEN {t} ELSE {})
    BY DEF TrapMade
  <1>3. done \subseteq Servers /\ \A s \in done : MAIN_Options[s] BY DEF Enabled
  <1>4. TypeApart' BY <1>1, <1>2, <1>3 DEF TypeApart
  <1>5. IoOK(io') BY <1>2 DEF Good
  <1>6. phase \in Starting /\ serving = FALSE /\ serving' = FALSE
    BY <1>1 DEF Starting, NothingServed, TypeApart
  <1>7. ASSUME NEW s \in Servers
        PROVE  /\ io'.iopt[s] \cap {"OPL", "MPU"} = Flagged(s)'
               /\ io'.iopt[s] \cap Kept(s) = {}
               /\ "PIC" \notin io'.iopt[s]
    <2>1. io.iopt[s] \cap {"OPL", "MPU"} = Flagged(s) /\ io.iopt[s] \cap Kept(s) = {}
          /\ "PIC" \notin io.iopt[s]
      BY <1>1, <1>6 DEF StartMade
    <2>2. DOMAIN installed = {"OPL", "MPU"} BY <1>1 DEF TypeApart
    <2>3. Flagged(s)' = Flagged(s) \cup (IF s \in done THEN {t} ELSE {})
      BY <1>1, <1>2, <2>2 DEF Flagged, StartMade, Starting
    <2>4. t \notin Kept(s) /\ t # "PIC" BY TrapFacts
    <2>5. QED BY <1>2, <2>1, <2>3, <2>4
  <1>8. StartMade'
    <2>1. phase' = "mpu" => t = "OPL" BY <1>2
    <2>2. phase' = "mpu" => installed'["MPU"] = {} BY <1>1, <1>2, <2>1 DEF StartMade, Starting
    <2>3. phase' # "opl" BY <1>2
    <2>4. QED BY <1>2, <1>7, <2>2, <2>3, Zenon DEF StartMade
  <1>9. OnlyEnabled' BY <1>1, <1>2, <1>3, <1>6 DEF OnlyEnabled
  <1>10. NothingServed' /\ NothingLeftBehind' BY <1>2, <1>6 DEF NothingServed, NothingLeftBehind
  <1>11. QED BY <1>4, <1>5, <1>8, <1>9, <1>10, TypeParts DEF StartInv

(* Nothing trapped, only the phase goes on. *)
LEMMA PhaseKeeps ==
  ASSUME StartInv, phase \in Starting, UNCHANGED <<MAIN_Options, present, io, installed, serving, refused>>,
         \/ phase = "opl" /\ phase' = "mpu"
         \/ phase = "mpu" /\ phase' = "traps"
         \/ phase = "playing" /\ phase' = "resident" /\ ~serving
  PROVE  StartInv'
  <1>1. TypeApart /\ IoOK(io) /\ StartMade /\ OnlyEnabled /\ NothingServed
    BY TypeParts DEF StartInv
  <1>2. TypeApart' BY <1>1 DEF TypeApart
  <1>3. \A s \in Servers : Flagged(s)' = Flagged(s) BY DEF Flagged
  <1>4. IoOK(io') /\ (IoOK(io') <=> IoOK(io)') BY <1>1
  <1>5. StartMade' /\ OnlyEnabled' BY <1>1, <1>3 DEF StartMade, OnlyEnabled, Starting
  <1>6. NothingServed' /\ NothingLeftBehind' BY <1>1 DEF NothingServed, NothingLeftBehind
  <1>7. QED BY <1>2, <1>4, <1>5, <1>6, TypeParts DEF StartInv

LEMMA StartOplKeeps == StartInv /\ StartOpl => StartInv'
  <1> SUFFICES ASSUME StartInv, StartOpl PROVE StartInv' OBVIOUS
  <1>1. TypeApart /\ StartMade /\ phase = "opl" /\ UNCHANGED <<MAIN_Options, present, serving, refused>>
    BY TypeParts DEF StartInv, StartOpl
  <1>2. CASE MAIN_Options.OPL
    <2>1. StartTrap("OPL", "mpu") BY <1>2 DEF StartOpl
    <2>2. \A s \in Servers : "OPL" \notin io.iopt[s] BY <1>1 DEF StartMade, Starting, Flagged
    <2>3. Good(io, MAIN_Options) /\ MAIN_Options \in AllOptions
      BY <1>1 DEF StartMade, Starting, TypeApart
    <2>4. PICK done \in SUBSET Enabled : TrapMade("OPL", "mpu", done)
      BY <2>1, <2>2, <2>3, StartTrapMakes
    <2>5. QED BY <1>1, <2>4, StartTrapKeeps
  <1>3. CASE ~MAIN_Options.OPL BY <1>1, <1>3, PhaseKeeps DEF StartOpl, Starting
  <1>4. QED BY <1>2, <1>3

LEMMA StartMpuKeeps == StartInv /\ StartMpu => StartInv'
  <1> SUFFICES ASSUME StartInv, StartMpu PROVE StartInv' OBVIOUS
  <1>1. TypeApart /\ StartMade /\ phase = "mpu" /\ UNCHANGED <<MAIN_Options, present, serving, refused>>
    BY TypeParts DEF StartInv, StartMpu
  <1>2. CASE MAIN_Options.MPU
    <2>1. StartTrap("MPU", "traps") BY <1>2 DEF StartMpu
    <2>2. \A s \in Servers : "MPU" \notin io.iopt[s] BY <1>1 DEF StartMade, Starting, Flagged
    <2>3. Good(io, MAIN_Options) /\ MAIN_Options \in AllOptions
      BY <1>1 DEF StartMade, Starting, TypeApart
    <2>4. PICK done \in SUBSET Enabled : TrapMade("MPU", "traps", done)
      BY <2>1, <2>2, <2>3, StartTrapMakes
    <2>5. QED BY <1>1, <2>4, StartTrapKeeps
  <1>3. CASE ~MAIN_Options.MPU BY <1>1, <1>3, PhaseKeeps DEF StartMpu, Starting
  <1>4. QED BY <1>2, <1>3

(* The traps made for playing, in done. *)
LEMMA StartTrapsMakes ==
  ASSUME StartInv, StartTraps
  PROVE  \E done \in [Servers -> SUBSET (Kept("RM") \cup Kept("PM"))] :
           /\ \A s \in Servers : /\ done[s] \subseteq IF s \in Enabled THEN Kept(s) ELSE {}
                                 /\ io'.iopt[s] = io.iopt[s] \cup done[s]
           /\ Good(io', MAIN_Options) /\ io'.stale = io.stale
  <1>1. TypeApart /\ StartMade /\ phase = "traps" BY TypeParts DEF StartInv, StartTraps
  <1>2. /\ MAIN_Options \in AllOptions /\ Good(io, MAIN_Options)
        /\ \A s \in Servers : io.iopt[s] \cap Kept(s) = {}
    BY <1>1 DEF TypeApart, StartMade, Starting
  <1>0. PICK rm \in (IF "RM" \in Enabled THEN Grants(io, "RM", Kept("RM")) ELSE {{}}),
             pm \in (IF "PM" \in Enabled THEN Grants(io, "PM", Kept("PM")) ELSE {{}}) :
          io' = Install(Install(io, "RM", rm, MAIN_Options), "PM", pm, MAIN_Options)
    BY DEF StartTraps
  <1>3. PICK done \in [Servers -> SUBSET (Kept("RM") \cup Kept("PM"))] :
          /\ \A s \in Servers : done[s] \subseteq IF s \in Enabled THEN Kept(s) ELSE {}
          /\ io' = Install(Install(io, "RM", done["RM"], MAIN_Options), "PM", done["PM"], MAIN_Options)
    <2> DEFINE both == [s \in Servers |-> IF s = "RM" THEN rm ELSE pm]
    <2>1. /\ rm \subseteq (IF "RM" \in Enabled THEN Kept("RM") ELSE {})
          /\ pm \subseteq (IF "PM" \in Enabled THEN Kept("PM") ELSE {})
      BY GrantsFacts
    <2>2. both["RM"] = rm /\ both["PM"] = pm BY TrapFacts
    <2>3. both \in [Servers -> SUBSET (Kept("RM") \cup Kept("PM"))] BY <2>1
    <2>4. io' = Install(Install(io, "RM", both["RM"], MAIN_Options), "PM", both["PM"], MAIN_Options)
      BY <1>0, <2>2
    <2> HIDE DEF both
    <2>5. \A s \in Servers : both[s] \subseteq IF s \in Enabled THEN Kept(s) ELSE {}
      BY <2>1, <2>2, TrapFacts
    <2>6. QED BY <2>3, <2>4, <2>5
  <1> DEFINE i == Install(io, "RM", done["RM"], MAIN_Options)
  <1>4. \A s \in Servers : done[s] \in SUBSET Kept(s) /\ done[s] \in SUBSET Traps(s)
    BY <1>3, TrapFacts
  <1>5. io' = Install(i, "PM", done["PM"], MAIN_Options) BY <1>3
  <1>6. Good(i, MAIN_Options) /\ Adds(io, i, "RM", done["RM"])
    <2>1. done["RM"] \cap io.iopt["RM"] = {} BY <1>2, <1>4, TrapFacts
    <2>2. QED BY <1>2, <1>4, <2>1, InstallGood, TrapFacts
  <1> HIDE DEF i
  <1>7. Good(io', MAIN_Options) /\ Adds(i, io', "PM", done["PM"])
    <2>1. i.iopt["PM"] = io.iopt["PM"] BY <1>6, TrapFacts DEF Adds
    <2>2. done["PM"] \cap i.iopt["PM"] = {} BY <1>2, <1>4, <2>1, TrapFacts
    <2>3. QED BY <1>2, <1>4, <1>5, <1>6, <2>2, InstallGood, TrapFacts
  <1>8. \A s \in Servers : io'.iopt[s] = io.iopt[s] \cup done[s]
    BY <1>6, <1>7, TrapFacts DEF Adds
  <1>9. io'.stale = io.stale BY <1>6, <1>7 DEF Adds
  <1>10. QED BY <1>3, <1>7, <1>8, <1>9, Zenon

LEMMA StartTrapsKeeps == StartInv /\ StartTraps => StartInv'
  <1> SUFFICES ASSUME StartInv, StartTraps PROVE StartInv' OBVIOUS
  <1>1. /\ TypeApart /\ StartMade /\ OnlyEnabled /\ NothingServed
        /\ phase = "traps" /\ phase' = "playing"
        /\ UNCHANGED <<MAIN_Options, present, installed, serving, refused>>
    BY TypeParts DEF StartInv, StartTraps
  <1>2. PICK done \in [Servers -> SUBSET (Kept("RM") \cup Kept("PM"))] :
           /\ \A s \in Servers : /\ done[s] \subseteq IF s \in Enabled THEN Kept(s) ELSE {}
                                 /\ io'.iopt[s] = io.iopt[s] \cup done[s]
           /\ Good(io', MAIN_Options)
    BY StartTrapsMakes
  <1>3. TypeApart' BY <1>1 DEF TypeApart
  <1>4. ASSUME NEW s \in Servers
        PROVE  io'.iopt[s] \cap {"OPL", "MPU"} = Flagged(s)' /\ "PIC" \notin io'.iopt[s]
    <2>1. io.iopt[s] \cap {"OPL", "MPU"} = Flagged(s) /\ "PIC" \notin io.iopt[s]
      BY <1>1 DEF StartMade, Starting, NothingServed
    <2>2. Flagged(s)' = Flagged(s) BY <1>1 DEF Flagged
    <2>3. done[s] \cap {"OPL", "MPU", "PIC"} = {} BY <1>2, TrapFacts
    <2>4. QED BY <1>2, <2>1, <2>2, <2>3
  <1>5. StartMade' BY <1>1, <1>2, <1>4 DEF StartMade
  <1>6. OnlyEnabled' BY <1>1, <1>2 DEF OnlyEnabled, Enabled, Starting
  <1>7. NothingServed' /\ NothingLeftBehind' BY <1>1 DEF NothingServed, NothingLeftBehind
  <1>8. IoOK(io') BY <1>2 DEF Good
  <1>9. QED BY <1>3, <1>5, <1>6, <1>7, <1>8, TypeParts DEF StartInv

(* Both servers' traps are removed, one server after the other. *)
LEMMA BothRemoved ==
  ASSUME NEW o \in AllOptions, NEW i, Good(i, o),
         NEW A \in SUBSET Traps("RM"), NEW B \in SUBSET Traps("PM"),
         NEW j, j = Uninstall(Uninstall(i, "RM", A), "PM", B)
  PROVE  /\ Good(j, o)
         /\ j.iopt["RM"] = i.iopt["RM"] \ A /\ j.iopt["PM"] = i.iopt["PM"] \ B
         /\ A \subseteq i.iopt["RM"] /\ B \subseteq i.iopt["PM"] => j.stale = i.stale
  <1> DEFINE k == Uninstall(i, "RM", A)
  <1>1. Good(k, o) /\ Removes(i, k, "RM", A) BY UninstallGood, TrapFacts
  <1>2. j = Uninstall(k, "PM", B) OBVIOUS
  <1> HIDE DEF k
  <1>3. Good(j, o) /\ Removes(k, j, "PM", B) BY <1>1, <1>2, UninstallGood, TrapFacts
  <1>4. QED BY <1>1, <1>3, TrapFacts DEF Removes

LEMMA GiveUpKeeps == StartInv /\ GiveUp => StartInv' /\ io'.stale = io.stale
  <1> SUFFICES ASSUME StartInv, GiveUp PROVE StartInv' /\ io'.stale = io.stale OBVIOUS
  <1>1. /\ TypeApart /\ StartMade /\ OnlyEnabled /\ NothingServed
        /\ phase = "playing" /\ phase' = "exit" /\ ~serving
        /\ UNCHANGED <<MAIN_Options, present, installed, serving, refused>>
        /\ io' = Uninstall(Uninstall(io, "RM", Made("RM")), "PM", Made("PM"))
    BY TypeParts DEF StartInv, GiveUp
  <1>2. MAIN_Options \in AllOptions /\ Good(io, MAIN_Options)
    BY <1>1 DEF TypeApart, StartMade, Starting
  <1>3. \A s \in Servers : Made(s) \in SUBSET Traps(s) /\ Made(s) \subseteq io.iopt[s]
    BY TrapFacts DEF Made
  <1>4. /\ Good(io', MAIN_Options) /\ io'.stale = io.stale
        /\ \A s \in Servers : io'.iopt[s] = io.iopt[s] \ Made(s)
    BY <1>1, <1>2, <1>3, BothRemoved, TrapFacts
  <1>5. TypeApart' BY <1>1 DEF TypeApart
  <1>6. ASSUME NEW s \in Servers
        PROVE  /\ io'.iopt[s] \cap {"OPL", "MPU"} = Flagged(s)'
               /\ io'.iopt[s] \cap Kept(s) = {} /\ "PIC" \notin io'.iopt[s]
    <2>1. io.iopt[s] \cap {"OPL", "MPU"} = Flagged(s) /\ "PIC" \notin io.iopt[s]
      BY <1>1 DEF StartMade, Starting, NothingServed
    <2>2. Flagged(s)' = Flagged(s) BY <1>1 DEF Flagged
    <2>3. io'.iopt[s] = io.iopt[s] \ (io.iopt[s] \cap Kept(s)) BY <1>4 DEF Made
    <2>4. Kept(s) \cap {"OPL", "MPU"} = {} BY TrapFacts
    <2>5. QED BY <2>1, <2>2, <2>3, <2>4
  <1>7. StartMade' BY <1>1, <1>4, <1>6 DEF StartMade
  <1>8. OnlyEnabled' BY <1>1, <1>4 DEF OnlyEnabled, Starting
  <1>9. NothingServed' /\ NothingLeftBehind' BY <1>1 DEF NothingServed, NothingLeftBehind
  <1>10. IoOK(io') BY <1>4 DEF Good
  <1>11. QED BY <1>4, <1>5, <1>7, <1>8, <1>9, <1>10, TypeParts DEF StartInv

(* The flags tell all that is trapped when the cleanup comes. *)
LEMMA CleanupKeeps == StartInv /\ MAIN_Cleanup => StartInv' /\ io'.stale = io.stale
  <1> SUFFICES ASSUME StartInv, MAIN_Cleanup PROVE StartInv' /\ io'.stale = io.stale OBVIOUS
  <1>1. /\ TypeApart /\ StartMade /\ NothingServed
        /\ phase = "exit" /\ phase' = "exited"
        /\ UNCHANGED <<MAIN_Options, present, installed, serving, refused>>
        /\ io' = Uninstall(Uninstall(io, "RM", Flagged("RM")), "PM", Flagged("PM"))
    BY TypeParts DEF StartInv, MAIN_Cleanup
  <1>2. MAIN_Options \in AllOptions /\ Good(io, MAIN_Options)
    BY <1>1 DEF TypeApart, StartMade, Starting
  <1>3. \A s \in Servers : /\ io.iopt[s] \cap {"OPL", "MPU"} = Flagged(s)
                           /\ io.iopt[s] \cap Kept(s) = {} /\ "PIC" \notin io.iopt[s]
    BY <1>1 DEF StartMade, Starting, NothingServed
  <1>4. \A s \in Servers : io.iopt[s] \subseteq Traps(s) BY <1>2 DEF Good, IoOK
  <1>5. \A s \in Servers : io.iopt[s] = Flagged(s)
    <2> TAKE s \in Servers
    <2>1. Traps(s) \subseteq Kept(s) \cup {"OPL", "MPU"} \cup {"PIC"} BY TrapFacts
    <2>2. QED BY <1>3, <1>4, <2>1
  <1>6. \A s \in Servers : Flagged(s) \in SUBSET Traps(s) BY <1>4, <1>5
  <1>7. /\ Good(io', MAIN_Options) /\ io'.stale = io.stale
        /\ \A s \in Servers : io'.iopt[s] = {}
    BY <1>1, <1>2, <1>5, <1>6, BothRemoved, TrapFacts
  <1>8. NothingLeftBehind'
    <2>1. IoOK(io') /\ Linked(io', MAIN_Options) /\ Hooked(io') BY <1>7 DEF Good
    <2>2. \A s \in Servers : Empty(io'.links, s) BY <1>7, <2>1, EmptyMeans
    <2>3. io'.callback # Ours BY <1>7, <2>1, TrapFacts DEF Hooked
    <2>4. QED BY <2>2, <2>3 DEF NothingLeftBehind, Empty
  <1>9. TypeApart' BY <1>1 DEF TypeApart
  <1>10. StartMade' /\ OnlyEnabled' BY <1>1 DEF StartMade, OnlyEnabled, Starting
  <1>11. NothingServed' BY <1>1 DEF NothingServed
  <1>12. IoOK(io') BY <1>7 DEF Good
  <1>13. QED BY <1>7, <1>8, <1>9, <1>10, <1>11, <1>12, TypeParts DEF StartInv

(* What a virtual interrupt does to the traps. *)
LEMMA InvokeStep ==
  ASSUME InvokeIRQ
  PROVE  \/ ~MAIN_Options.RM /\ UNCHANGED <<io, refused>>
         \/ /\ MAIN_Options.RM
            /\ \E done \in SUBSET {"PIC"} :
                 /\ ~Empty(io.links, "RM") => done = {"PIC"}
                 /\ io' = Install(io, "RM", done, MAIN_Options)
                 /\ refused' = [refused EXCEPT !["RM"] = @ \cup ({"PIC"} \ done)]
  <1>1. CASE MAIN_Options.RM
    <2>1. PICK done \in Grants(io, "RM", {"PIC"}) :
            /\ io' = Install(io, "RM", done, MAIN_Options)
            /\ refused' = [refused EXCEPT !["RM"] = @ \cup ({"PIC"} \ done)]
      BY <1>1 DEF InvokeIRQ
    <2>2. done \in SUBSET {"PIC"} /\ (~Empty(io.links, "RM") => done = {"PIC"}) BY GrantsFacts
    <2>3. QED BY <1>1, <2>1, <2>2
  <1>2. CASE ~MAIN_Options.RM BY <1>2 DEF InvokeIRQ
  <1>3. QED BY <1>1, <1>2

LEMMA InvokeKeeps == StartInv /\ InvokeIRQ => StartInv'
  <1> SUFFICES ASSUME StartInv, InvokeIRQ PROVE StartInv' OBVIOUS
  <1>1. /\ TypeApart /\ IoOK(io) /\ StartMade /\ OnlyEnabled
        /\ phase \in {"playing", "resident"} /\ ~serving /\ serving' = TRUE
        /\ UNCHANGED <<phase, MAIN_Options, present, installed>>
    BY TypeParts DEF StartInv, InvokeIRQ
  <1>2. \/ io' = io /\ refused' = refused
        \/ /\ "RM" \in Enabled
           /\ \E done \in SUBSET {"PIC"} :
                /\ io' = Install(io, "RM", done, MAIN_Options)
                /\ refused' = [refused EXCEPT !["RM"] = @ \cup ({"PIC"} \ done)]
    BY InvokeStep, TrapFacts DEF Enabled
  <1>3. MAIN_Options \in AllOptions /\ {"PIC"} \in SUBSET Traps("RM") /\ "RM" \in Servers
    BY <1>1 DEF TypeApart, Traps, Servers
  <1>4. IoOK(io')
    <2>1. SUBSET {"PIC"} \subseteq SUBSET Traps("RM") BY <1>3
    <2>2. QED BY <1>1, <1>2, <1>3, <2>1, InstallFacts
  <1>5. TypeApart'
    <2>1. refused' \in [Servers -> SUBSET AllTraps]
      <3>1. "PIC" \in AllTraps BY <1>3, TrapFacts
      <3>2. QED BY <1>1, <1>2, <3>1 DEF TypeApart
    <2>2. QED BY <1>1, <2>1 DEF TypeApart
  <1>6. NothingServed' /\ NothingLeftBehind' BY <1>1 DEF NothingServed, NothingLeftBehind
  <1>7. StartMade' /\ OnlyEnabled'
    <2>1. CASE phase = "resident" BY <1>1, <2>1 DEF StartMade, OnlyEnabled, Starting
    <2>2. CASE phase = "playing" /\ io' = io
      <3>1. \A s \in Servers : Flagged(s)' = Flagged(s) BY <1>1 DEF Flagged
      <3>2. QED BY <1>1, <2>2, <3>1 DEF StartMade, OnlyEnabled, Starting
    <2>3. CASE phase = "playing" /\ io' # io
      <3>0. PICK done \in SUBSET {"PIC"} : io' = Install(io, "RM", done, MAIN_Options)
        BY <1>2, <2>3
      <3>1. /\ Good(io, MAIN_Options) /\ {"PIC"} \cap io.iopt["RM"] = {} /\ "RM" \in Enabled
            /\ \A s \in Servers : io.iopt[s] \cap {"OPL", "MPU"} = Flagged(s)
        BY <1>1, <1>2, <1>3, <2>3 DEF StartMade, Starting
      <3>2. Good(io', MAIN_Options) /\ Adds(io, io', "RM", done)
        <4>1. done \in SUBSET Traps("RM") /\ done \cap io.iopt["RM"] = {} BY <1>3, <3>1
        <4>2. QED BY <1>3, <3>0, <3>1, <4>1, InstallGood
      <3>3. \A s \in Servers : io'.iopt[s] \cap {"OPL", "MPU"} = io.iopt[s] \cap {"OPL", "MPU"}
        BY <3>2 DEF Adds
      <3>4. \A s \in Servers : Flagged(s)' = Flagged(s) BY <1>1 DEF Flagged
      <3>5. StartMade' BY <1>1, <2>3, <3>1, <3>2, <3>3, <3>4 DEF StartMade
      <3>6. OnlyEnabled' BY <1>1, <3>1, <3>2 DEF OnlyEnabled, Starting, Adds, Enabled
      <3>7. QED BY <3>5, <3>6
    <2>4. QED BY <1>1, <1>2, <2>1, <2>2, <2>3
  <1>8. QED BY <1>4, <1>5, <1>6, <1>7, TypeParts DEF StartInv

LEMMA ReturnsKeeps == StartInv /\ ClientReturns => StartInv'
  <1> SUFFICES ASSUME StartInv, ClientReturns PROVE StartInv' OBVIOUS
  <1>1. /\ TypeApart /\ IoOK(io) /\ StartMade /\ OnlyEnabled
        /\ phase \in {"playing", "resident"} /\ serving' = FALSE
        /\ UNCHANGED <<phase, MAIN_Options, present, installed, refused>>
        /\ io' = IF MAIN_Options.RM THEN Uninstall(io, "RM", {"PIC"}) ELSE io
    BY TypeParts DEF StartInv, ClientReturns, NothingServed
  <1>2. MAIN_Options \in AllOptions /\ {"PIC"} \in SUBSET Traps("RM") /\ "RM" \in Servers
    BY <1>1 DEF TypeApart, Traps, Servers
  <1>3. IoOK(io') BY <1>1, <1>2, UninstallFacts
  <1>4. TypeApart' BY <1>1 DEF TypeApart
  <1>5. NothingServed' /\ NothingLeftBehind' BY <1>1 DEF NothingServed, NothingLeftBehind
  <1>6. StartMade' /\ OnlyEnabled'
    <2>1. CASE phase = "resident" BY <1>1, <2>1 DEF StartMade, OnlyEnabled, Starting
    <2>2. CASE phase = "playing"
      <3>1. /\ Good(io, MAIN_Options)
            /\ \A s \in Servers : io.iopt[s] \cap {"OPL", "MPU"} = Flagged(s)
            /\ \A s \in Servers : ~MAIN_Options[s] => io.iopt[s] = {}
        BY <1>1, <2>2 DEF StartMade, OnlyEnabled, Starting
      <3>2. /\ Good(io', MAIN_Options)
            /\ \A s \in Servers : io'.iopt[s] = io.iopt[s] \ {"PIC"}
        <4>1. CASE MAIN_Options.RM
          <5>1. Good(io', MAIN_Options) /\ Removes(io, io', "RM", {"PIC"})
            BY <1>1, <1>2, <3>1, <4>1, UninstallGood
          <5>2. "PIC" \notin io.iopt["PM"]
            BY <1>1, TrapFacts DEF IoOK, Traps, Kept
          <5>3. QED BY <5>1, <5>2, TrapFacts DEF Removes
        <4>2. CASE ~MAIN_Options.RM
          <5>1. io' = io /\ io.iopt["RM"] = {} BY <1>1, <1>2, <3>1, <4>2
          <5>2. "PIC" \notin io.iopt["PM"]
            BY <1>1, TrapFacts DEF IoOK, Traps, Kept
          <5>3. QED BY <3>1, <5>1, <5>2, TrapFacts
        <4>3. QED BY <4>1, <4>2
      <3>3. \A s \in Servers : Flagged(s)' = Flagged(s) BY <1>1 DEF Flagged
      <3>4. StartMade' BY <1>1, <2>2, <3>1, <3>2, <3>3 DEF StartMade
      <3>5. OnlyEnabled' BY <1>1, <3>1, <3>2 DEF OnlyEnabled
      <3>6. QED BY <3>4, <3>5
    <2>3. QED BY <1>1, <2>1, <2>2
  <1>7. QED BY <1>3, <1>4, <1>5, <1>6, TypeParts DEF StartInv

LEMMA WantedTraps == \A s \in Servers : \A o : Wanted(s, o) \in SUBSET Traps(s)
  BY TrapFacts DEF Wanted

LEMMA OldTrapsAre == \A s \in Servers : OldTraps(s) \in SUBSET Traps(s)
  BY WantedTraps DEF OldTraps

(* What an update makes of the options and the traps. *)
Reinstalled(i) ==
  /\ ~i.stale /\ MAIN_Options' \in AllOptions
  /\ \A s \in Servers : MAIN_Options'[s] => present[s]
  /\ \E rm \in SUBSET Wanted("RM", MAIN_Options'), pm \in SUBSET Wanted("PM", MAIN_Options') :
       /\ io' = Install(Install(i, "RM", rm, MAIN_Options'), "PM", pm, MAIN_Options')
       /\ refused' = [RM |-> Wanted("RM", MAIN_Options') \ rm, PM |-> Wanted("PM", MAIN_Options') \ pm]

LEMMA UpdateStep ==
  ASSUME TypeApart, Update,
         NEW i, i = Uninstall(Uninstall(io, "RM", OldTraps("RM")), "PM", OldTraps("PM"))
  PROVE  \/ UNCHANGED <<MAIN_Options, io, refused>>
         \/ i.stale /\ io' = i /\ UNCHANGED <<MAIN_Options, refused>>
         \/ Reinstalled(i)
  <1>1. PICK r \in Requests :
          LET opt == Asked(MAIN_Options, r)
              new == Granted(opt)
          IN \/ opt = MAIN_Options /\ UNCHANGED <<MAIN_Options, io, refused>>
             \/ opt # MAIN_Options /\ i.stale /\ io' = i /\ UNCHANGED <<MAIN_Options, refused>>
             \/ /\ opt # MAIN_Options /\ ~i.stale /\ MAIN_Options' = new
                /\ \E rm \in Grants(i, "RM", Wanted("RM", new)), pm \in Grants(i, "PM", Wanted("PM", new)) :
                     /\ io' = Install(Install(i, "RM", rm, new), "PM", pm, new)
                     /\ refused' = [RM |-> Wanted("RM", new) \ rm, PM |-> Wanted("PM", new) \ pm]
    BY DEF Update
  <1> DEFINE opt == Asked(MAIN_Options, r)
  <1>2. opt \in AllOptions BY ResidentAssumption DEF TypeApart
  <1>3. CASE UNCHANGED <<MAIN_Options, io, refused>> BY <1>3
  <1>4. CASE i.stale /\ io' = i /\ UNCHANGED <<MAIN_Options, refused>> BY <1>4
  <1>5. ASSUME ~i.stale, MAIN_Options' = Granted(opt),
               \E rm \in Grants(i, "RM", Wanted("RM", Granted(opt))),
                  pm \in Grants(i, "PM", Wanted("PM", Granted(opt))) :
                 /\ io' = Install(Install(i, "RM", rm, Granted(opt)), "PM", pm, Granted(opt))
                 /\ refused' = [RM |-> Wanted("RM", Granted(opt)) \ rm, PM |-> Wanted("PM", Granted(opt)) \ pm]
        PROVE  Reinstalled(i)
    <2> HIDE DEF opt
    <2>1. PICK rm \in Grants(i, "RM", Wanted("RM", MAIN_Options')),
               pm \in Grants(i, "PM", Wanted("PM", MAIN_Options')) :
            /\ io' = Install(Install(i, "RM", rm, MAIN_Options'), "PM", pm, MAIN_Options')
            /\ refused' = [RM |-> Wanted("RM", MAIN_Options') \ rm, PM |-> Wanted("PM", MAIN_Options') \ pm]
      BY <1>5
    <2>2. rm \in SUBSET Wanted("RM", MAIN_Options') /\ pm \in SUBSET Wanted("PM", MAIN_Options')
      BY GrantsFacts
    <2>3. present["RM"] \in BOOLEAN /\ present["PM"] \in BOOLEAN BY DEF TypeApart, Servers
    <2>4. MAIN_Options' = [opt EXCEPT !.RM = @ /\ present["RM"], !.PM = @ /\ present["PM"]]
      BY <1>5 DEF Granted
    <2>5. Limited(MAIN_Options', opt, present["RM"], present["PM"])
      BY <1>2, <2>3, <2>4, LimitedOptions
    <2>6. MAIN_Options' \in AllOptions /\ \A s \in Servers : MAIN_Options'[s] => present[s]
      <3>1. /\ MAIN_Options' \in AllOptions
            /\ MAIN_Options'["RM"] = (opt.RM /\ present["RM"])
            /\ MAIN_Options'["PM"] = (opt.PM /\ present["PM"])
        BY <2>5 DEF Limited
      <3>2. (MAIN_Options'["RM"] => present["RM"]) /\ (MAIN_Options'["PM"] => present["PM"]) BY <3>1
      <3>3. QED BY <3>1, <3>2, TrapFacts
    <2>7. \E R \in SUBSET Wanted("RM", MAIN_Options'), P \in SUBSET Wanted("PM", MAIN_Options') :
            /\ io' = Install(Install(i, "RM", R, MAIN_Options'), "PM", P, MAIN_Options')
            /\ refused' = [RM |-> Wanted("RM", MAIN_Options') \ R, PM |-> Wanted("PM", MAIN_Options') \ P]
      BY <2>1, <2>2, Zenon
    <2>8. QED BY <1>5, <2>6, <2>7, Zenon DEF Reinstalled
  <1>6. QED BY <1>1, <1>3, <1>4, <1>5

LEMMA RefusedType ==
  ASSUME NEW R \in SUBSET AllTraps, NEW P \in SUBSET AllTraps
  PROVE  [RM |-> R, PM |-> P] \in [Servers -> SUBSET AllTraps]
  BY DEF Servers

LEMMA UpdateKeeps == StartInv /\ Update => StartInv'
  <1> SUFFICES ASSUME StartInv, Update PROVE StartInv' OBVIOUS
  <1>1. /\ TypeApart /\ IoOK(io) /\ phase = "resident" /\ phase' = "resident" /\ ~serving
        /\ UNCHANGED <<phase, present, installed, serving>>
    BY TypeParts DEF StartInv, Update
  <1>2. PICK i : i = Uninstall(Uninstall(io, "RM", OldTraps("RM")), "PM", OldTraps("PM")) OBVIOUS
  <1>3. IoOK(i)
    <2>1. IoOK(Uninstall(io, "RM", OldTraps("RM")))
      BY <1>1, OldTrapsAre, UninstallFacts, TrapFacts
    <2>2. QED BY <1>2, <2>1, OldTrapsAre, UninstallFacts, TrapFacts
  <1>4. \/ UNCHANGED <<MAIN_Options, io, refused>>
        \/ i.stale /\ io' = i /\ UNCHANGED <<MAIN_Options, refused>>
        \/ Reinstalled(i)
    BY <1>1, <1>2, UpdateStep
  <1>5. TypeApart' /\ IoOK(io')
    <2>1. CASE UNCHANGED <<MAIN_Options, io, refused>> BY <1>1, <2>1 DEF TypeApart
    <2>2. CASE i.stale /\ io' = i /\ UNCHANGED <<MAIN_Options, refused>>
      BY <1>1, <1>3, <2>2 DEF TypeApart
    <2>3. CASE Reinstalled(i)
      <3>1. PICK rm \in SUBSET Wanted("RM", MAIN_Options'), pm \in SUBSET Wanted("PM", MAIN_Options') :
              /\ io' = Install(Install(i, "RM", rm, MAIN_Options'), "PM", pm, MAIN_Options')
              /\ refused' = [RM |-> Wanted("RM", MAIN_Options') \ rm, PM |-> Wanted("PM", MAIN_Options') \ pm]
        BY <2>3 DEF Reinstalled
      <3>2. /\ MAIN_Options' \in AllOptions
            /\ \A s \in Servers : MAIN_Options'[s] => present[s]
        BY <2>3 DEF Reinstalled
      <3>3. rm \in SUBSET Traps("RM") /\ pm \in SUBSET Traps("PM") BY WantedTraps, TrapFacts
      <3>4. IoOK(Install(i, "RM", rm, MAIN_Options'))
        BY <1>3, <3>2, <3>3, InstallFacts, TrapFacts
      <3>5. IoOK(io') BY <3>1, <3>2, <3>3, <3>4, InstallFacts, TrapFacts
      <3>6. refused' \in [Servers -> SUBSET AllTraps]
        <4>1. \A s \in Servers : Wanted(s, MAIN_Options') \subseteq AllTraps
          BY WantedTraps, TrapFacts
        <4>2. /\ Wanted("RM", MAIN_Options') \ rm \in SUBSET AllTraps
              /\ Wanted("PM", MAIN_Options') \ pm \in SUBSET AllTraps
          BY <4>1, TrapFacts
        <4>3. QED BY <3>1, <4>2, RefusedType
      <3>7. TypeApart' BY <1>1, <3>2, <3>6 DEF TypeApart
      <3>8. QED BY <3>5, <3>7
    <2>4. QED BY <1>4, <2>1, <2>2, <2>3
  <1>6. StartMade' /\ OnlyEnabled' /\ NothingServed' /\ NothingLeftBehind'
    BY <1>1 DEF StartMade, OnlyEnabled, NothingServed, NothingLeftBehind, Starting
  <1>7. QED BY <1>5, <1>6, TypeParts DEF StartInv

LEMMA StutterKeeps == StartInv /\ UNCHANGED residentVars => StartInv'
  <1> SUFFICES ASSUME StartInv, UNCHANGED residentVars PROVE StartInv' OBVIOUS
  <1>1. /\ phase' = phase /\ MAIN_Options' = MAIN_Options /\ present' = present
        /\ io' = io /\ installed' = installed /\ serving' = serving /\ refused' = refused
    BY DEF residentVars
  <1>2. ResidentTypeOK' /\ IoOK(io') BY <1>1 DEF StartInv, ResidentTypeOK
  <1>3. \A s \in Servers : Flagged(s)' = Flagged(s) BY <1>1 DEF Flagged
  <1>4. StartMade' BY <1>1, <1>3 DEF StartInv, StartMade
  <1>5. OnlyEnabled' /\ NothingServed' /\ NothingLeftBehind'
    BY <1>1 DEF StartInv, OnlyEnabled, NothingServed, NothingLeftBehind
  <1>6. QED BY <1>2, <1>4, <1>5 DEF StartInv

LEMMA StartStep == StartInv /\ [ResidentNext]_residentVars => StartInv'
  <1>1. StayResident /\ StartInv => StartInv' BY PhaseKeeps DEF StayResident, Starting
  <1>2. QED
    BY <1>1, StartOplKeeps, StartMpuKeeps, StartTrapsKeeps, GiveUpKeeps, CleanupKeeps, InvokeKeeps,
       ReturnsKeeps, UpdateKeeps, StutterKeeps DEF ResidentNext

(* The invariant of the start holds whatever was asked for. *)
THEOREM StartInvHolds == ResidentSpec => []StartInv
  <1>1. QED BY StartInit, StartStep, PTL DEF ResidentSpec

(* Type correctness, for all options and requests. *)
THEOREM ResidentTypeCorrect == ResidentSpec => []ResidentTypeOK
  <1>1. StartInv => ResidentTypeOK BY DEF StartInv
  <1>2. QED BY <1>1, StartInvHolds, PTL

(* A start that fails, wherever it does and whatever was asked for, leaves *)
(* no port trapped and no callback of SBEMU's with QEMM (main and          *)
(* MAIN_Cleanup).                                                          *)
THEOREM NothingLeftBehindHolds == ResidentSpec => []NothingLeftBehind
  <1>1. StartInv => NothingLeftBehind BY DEF StartInv
  <1>2. QED BY <1>1, StartInvHolds, PTL

---------------------------------------------------------------------------
(* After a start with real mode and the OPL3, DefaultInv is kept. *)
DefaultPart == FlagsTell /\ StartNoticed /\ ServedTrapped /\ ResidentMade /\ RemovedOnce

LEMMA DefaultInit == DefaultStart /\ ResidentInit => DefaultPart
  <1> SUFFICES ASSUME DefaultStart, ResidentInit PROVE DefaultPart OBVIOUS
  <1>1. PICK m \in Machines, o \in Options :
          /\ present = [RM |-> m.RM \/ ~o.RM, PM |-> m.PM /\ o.PM]
          /\ MAIN_Options = [o EXCEPT !.RM = @ /\ m.RM, !.PM = @ /\ m.PM]
    BY DEF ResidentInit
  <1>2. o.RM /\ o.OPL BY DEF DefaultStart
  <1>3. m \in [Servers -> BOOLEAN] /\ o \in AllOptions BY ResidentAssumption
  <1>4. m.RM \in BOOLEAN /\ m.PM \in BOOLEAN /\ o.PM \in BOOLEAN
    BY <1>3 DEF Servers, AllOptions
  <1>5. Limited(MAIN_Options, o, m.RM, m.PM) BY <1>1, <1>3, <1>4, LimitedOptions
  <1>6. present["RM"] = (m.RM \/ ~o.RM) /\ present["PM"] = (m.PM /\ o.PM) BY <1>1
  <1>7. MAIN_Options.OPL /\ \A s \in Servers : present[s] => MAIN_Options[s]
    BY <1>2, <1>5, <1>6, TrapFacts DEF Limited
  <1>8. /\ phase \in {"opl", "exited"} /\ serving = FALSE /\ io.stale = FALSE
        /\ installed["OPL"] = {} /\ installed["MPU"] = {}
        /\ \A s \in Servers : refused[s] = {}
    BY DEF ResidentInit
  <1>9. FlagsTell BY <1>7, <1>8 DEF FlagsTell
  <1>10. QED BY <1>8, <1>9 DEF DefaultPart, StartNoticed, ServedTrapped, ResidentMade, RemovedOnce

LEMMA DefaultOpl == DefaultInv /\ StartOpl => DefaultPart'
  <1> SUFFICES ASSUME DefaultInv, StartOpl PROVE DefaultPart' OBVIOUS
  <1>1. TypeApart /\ StartMade /\ FlagsTell /\ StartNoticed /\ NothingServed /\ phase = "opl"
        /\ UNCHANGED <<MAIN_Options, present, serving, refused>>
    BY TypeParts DEF DefaultInv, StartInv, StartOpl
  <1>2. MAIN_Options.OPL /\ \A s \in Servers : present[s] => s \in Enabled
    BY <1>1 DEF FlagsTell, Starting, Enabled
  <1>3. \A s \in Servers : "OPL" \notin io.iopt[s] BY <1>1 DEF StartMade, Starting, Flagged
  <1>4. Good(io, MAIN_Options) /\ MAIN_Options \in AllOptions /\ installed["MPU"] = {}
    BY <1>1 DEF StartMade, Starting, TypeApart
  <1>5. PICK done \in SUBSET Enabled : TrapMade("OPL", "mpu", done)
    BY <1>2, <1>3, <1>4, StartTrapMakes DEF StartOpl
  <1>6. installed'["OPL"] = done /\ installed'["MPU"] = {} /\ io'.stale = io.stale
    BY <1>1, <1>4, <1>5 DEF TrapMade, TypeApart
  <1>7. phase' \in {"mpu", "exit"} /\ (phase' = "mpu" => done = Enabled) BY <1>5 DEF TrapMade
  <1>8. \A s \in done : present[s] BY <1>1 DEF TypeApart, Enabled
  <1>9. FlagsTell'
    <2>1. \A s \in Servers, t \in {"OPL", "MPU"} : s \in installed'[t] => present[s]
      BY <1>6, <1>8
    <2>2. QED BY <1>1, <1>2, <1>6, <1>7, <2>1 DEF FlagsTell, Starting
  <1>10. serving' = FALSE BY <1>1 DEF NothingServed, TypeApart
  <1>11. phase \in Starting BY <1>1 DEF Starting
  <1>12. QED
    BY <1>1, <1>11, <1>6, <1>7, <1>9, <1>10 DEF DefaultPart, StartNoticed, ServedTrapped, ResidentMade, RemovedOnce

LEMMA DefaultMpu == DefaultInv /\ StartMpu => DefaultPart'
  <1> SUFFICES ASSUME DefaultInv, StartMpu PROVE DefaultPart' OBVIOUS
  <1>1. TypeApart /\ StartMade /\ FlagsTell /\ StartNoticed /\ NothingServed /\ phase = "mpu"
        /\ UNCHANGED <<MAIN_Options, present, serving, refused>>
    BY TypeParts DEF DefaultInv, StartInv, StartMpu
  <1>2. /\ \A s \in Servers : present[s] => s \in installed["OPL"]
        /\ \A s \in Servers : s \in installed["OPL"] => present[s]
        /\ FlagsTell /\ MAIN_Options.OPL
        /\ \A s \in Servers : present[s] => MAIN_Options[s]
    BY <1>1 DEF FlagsTell, Starting
  <1>3. Good(io, MAIN_Options) /\ MAIN_Options \in AllOptions /\ installed["MPU"] = {}
    BY <1>1 DEF StartMade, Starting, TypeApart
  <1>4. serving' = FALSE /\ phase \in Starting BY <1>1 DEF NothingServed, TypeApart, Starting
  <1>5. CASE MAIN_Options.MPU
    <2>1. \A s \in Servers : "MPU" \notin io.iopt[s] BY <1>1 DEF StartMade, Starting, Flagged
    <2>2. PICK done \in SUBSET Enabled : TrapMade("MPU", "traps", done)
      BY <1>3, <1>5, <2>1, StartTrapMakes DEF StartMpu
    <2>3. installed'["OPL"] = installed["OPL"] /\ installed'["MPU"] = done /\ io'.stale = io.stale
      BY <1>1, <2>2 DEF TrapMade, TypeApart
    <2>4. phase' \in {"traps", "exit"} /\ (phase' = "traps" => done = Enabled)
      BY <2>2 DEF TrapMade
    <2>5. \A s \in done : present[s] BY <1>1 DEF TypeApart, Enabled
    <2>6. \A s \in Servers, t \in {"OPL", "MPU"} : s \in installed'[t] => present[s]
      BY <1>2, <2>3, <2>5
    <2>7. phase' = "traps" => \A s \in Servers : MAIN_Options[s] <=> s \in installed'["MPU"]
      BY <2>3, <2>4 DEF Enabled
    <2>8. FlagsTell' BY <1>1, <1>2, <1>5, <2>3, <2>4, <2>6, <2>7 DEF FlagsTell, Starting
    <2>9. QED
      BY <1>1, <1>4, <2>3, <2>4, <2>8 DEF DefaultPart, StartNoticed, ServedTrapped, ResidentMade, RemovedOnce
  <1>6. CASE ~MAIN_Options.MPU
    <2>1. phase' = "traps" /\ UNCHANGED <<io, installed>> BY <1>6 DEF StartMpu
    <2>2. FlagsTell' BY <1>1, <1>2, <1>3, <1>6, <2>1 DEF FlagsTell, Starting
    <2>3. QED
      BY <1>1, <1>4, <2>1, <2>2 DEF DefaultPart, StartNoticed, ServedTrapped, ResidentMade, RemovedOnce
  <1>7. QED BY <1>5, <1>6

LEMMA DefaultTraps == DefaultInv /\ StartTraps => DefaultPart'
  <1> SUFFICES ASSUME DefaultInv, StartTraps PROVE DefaultPart' OBVIOUS
  <1>1. /\ StartInv /\ FlagsTell /\ StartNoticed /\ TypeApart /\ NothingServed
        /\ phase = "traps" /\ phase' = "playing"
        /\ UNCHANGED <<MAIN_Options, present, installed, serving, refused>>
    BY TypeParts DEF DefaultInv, StartInv, StartTraps
  <1>2. io'.stale = io.stale BY <1>1, StartTrapsMakes
  <1>3. FlagsTell' BY <1>1 DEF FlagsTell, Starting
  <1>4. serving' = FALSE /\ phase \in Starting BY <1>1 DEF NothingServed, TypeApart, Starting
  <1>5. QED
    BY <1>1, <1>2, <1>3, <1>4 DEF DefaultPart, StartNoticed, ServedTrapped, ResidentMade, RemovedOnce

LEMMA DefaultEnd == DefaultInv /\ (GiveUp \/ MAIN_Cleanup) => DefaultPart'
  <1> SUFFICES ASSUME DefaultInv, GiveUp \/ MAIN_Cleanup PROVE DefaultPart' OBVIOUS
  <1>1. /\ StartInv /\ FlagsTell /\ StartNoticed /\ TypeApart /\ NothingServed
        /\ phase \in {"playing", "exit"} /\ phase' \in {"exit", "exited"}
        /\ phase' = "exit" => phase = "playing"
        /\ ~serving /\ UNCHANGED <<MAIN_Options, present, installed, serving, refused>>
    BY TypeParts DEF DefaultInv, StartInv, GiveUp, MAIN_Cleanup, NothingServed
  <1>2. io'.stale = io.stale /\ phase \in Starting
    BY <1>1, GiveUpKeeps, CleanupKeeps DEF Starting
  <1>3. FlagsTell' BY <1>1 DEF FlagsTell, Starting
  <1>4. QED
    BY <1>1, <1>2, <1>3 DEF DefaultPart, StartNoticed, ServedTrapped, ResidentMade, RemovedOnce

(* What is trapped when it stays resident is what the options ask for. *)
LEMMA DefaultStay == DefaultInv /\ StayResident => DefaultPart'
  <1> SUFFICES ASSUME DefaultInv, StayResident PROVE DefaultPart' OBVIOUS
  <1>1. /\ StartMade /\ OnlyEnabled /\ FlagsTell /\ StartNoticed /\ TypeApart
        /\ phase = "playing" /\ phase' = "resident" /\ ~serving
        /\ UNCHANGED <<MAIN_Options, present, io, installed, serving, refused>>
        /\ \A s \in Enabled : Made(s) = Kept(s)
    BY TypeParts DEF DefaultInv, StartInv, StayResident
  <1>2. Good(io, MAIN_Options) BY <1>1 DEF StartMade, Starting
  <1>3. ASSUME NEW s \in Servers PROVE io.iopt[s] = Wanted(s, MAIN_Options)
    <2>1. CASE ~MAIN_Options[s] BY <1>1, <2>1 DEF OnlyEnabled, Starting, Wanted
    <2>2. CASE MAIN_Options[s]
      <3>1. /\ io.iopt[s] \cap {"OPL", "MPU"} = Flagged(s) /\ "PIC" \notin io.iopt[s]
            /\ Kept(s) \subseteq io.iopt[s] /\ io.iopt[s] \subseteq Traps(s)
        BY <1>1, <1>2, <2>2 DEF StartMade, Starting, Enabled, Made, Good, IoOK
      <3>2. Traps(s) \subseteq Kept(s) \cup {"OPL", "MPU"} \cup {"PIC"} BY TrapFacts
      <3>3. io.iopt[s] = Kept(s) \cup Flagged(s) BY <3>1, <3>2
      <3>4. present[s] BY <1>1, <2>2 DEF TypeApart
      <3>5. "OPL" \in Flagged(s) /\ MAIN_Options.OPL
        BY <1>1, <3>4 DEF FlagsTell, Flagged, Starting
      <3>6. "MPU" \in Flagged(s) <=> MAIN_Options.MPU
        BY <1>1, <2>2 DEF FlagsTell, Flagged
      <3>7. Flagged(s) \subseteq {"OPL", "MPU"} BY DEF Flagged
      <3>8. QED BY <2>2, <3>3, <3>5, <3>6, <3>7 DEF Wanted
    <2>3. QED BY <2>1, <2>2
  <1>4. ~io.stale /\ \A s \in Servers : refused[s] = {} BY <1>1 DEF StartNoticed, Starting
  <1>5. ResidentMade'
    <2>1. \A s \in Servers : Wanted(s, MAIN_Options)' = Wanted(s, MAIN_Options) /\ WhileServing(s)' = {}
      BY <1>1 DEF Wanted, WhileServing
    <2>2. "RM" \in Servers BY TrapFacts
    <2>3. QED BY <1>1, <1>2, <1>3, <1>4, <2>1, <2>2 DEF ResidentMade
  <1>6. FlagsTell' BY <1>1 DEF FlagsTell, Starting
  <1>7. StartNoticed' /\ ServedTrapped' /\ RemovedOnce'
    BY <1>1, <1>4 DEF StartNoticed, ServedTrapped, RemovedOnce, Starting
  <1>8. QED BY <1>5, <1>6, <1>7 DEF DefaultPart

(* While it starts, with QEMM, the OPL3's trap is there, so that the       *)
(* controllers' is made; later it may be refused.                          *)
LEMMA DefaultInvoke == DefaultInv /\ ~io.stale /\ InvokeIRQ => DefaultPart'
  <1> SUFFICES ASSUME DefaultInv, ~io.stale, InvokeIRQ PROVE DefaultPart' OBVIOUS
  <1>1. /\ IoOK(io) /\ StartMade /\ FlagsTell /\ StartNoticed /\ ResidentMade /\ TypeApart
        /\ phase \in {"playing", "resident"} /\ ~serving /\ serving' = TRUE
        /\ UNCHANGED <<phase, MAIN_Options, present, installed>>
    BY TypeParts DEF DefaultInv, StartInv, InvokeIRQ
  <1>2. /\ MAIN_Options \in AllOptions /\ Good(io, MAIN_Options) /\ "PIC" \notin io.iopt["RM"]
        /\ {"PIC"} \in SUBSET Traps("RM") /\ "RM" \in Servers
    <2>1. Good(io, MAIN_Options) BY <1>1 DEF StartMade, ResidentMade, Starting
    <2>2. CASE phase = "playing" BY <1>1, <2>1, <2>2 DEF StartMade, Starting, TypeApart, Traps, Servers
    <2>3. CASE phase = "resident"
      <3>1. "PIC" \notin Wanted("RM", MAIN_Options) BY TrapFacts DEF Wanted, Kept
      <3>2. "PIC" \notin WhileServing("RM") BY <1>1 DEF WhileServing
      <3>3. QED BY <1>1, <2>1, <2>3, <3>1, <3>2 DEF ResidentMade, TypeApart, Traps, Servers
    <2>4. QED BY <1>1, <2>2, <2>3
  <1>3. FlagsTell' BY <1>1 DEF FlagsTell
  <1>4. \A s \in Servers : Wanted(s, MAIN_Options)' = Wanted(s, MAIN_Options) BY <1>1 DEF Wanted
  <1>5. CASE ~MAIN_Options.RM
    <2>1. io' = io /\ refused' = refused BY <1>5, InvokeStep
    <2>2. \A s \in Servers : WhileServing(s)' = {} /\ WhileServing(s) = {}
      BY <1>1, <1>5 DEF WhileServing
    <2>3. ResidentMade' BY <1>1, <1>4, <2>1, <2>2 DEF ResidentMade
    <2>4. StartNoticed' /\ RemovedOnce' BY <1>1, <2>1 DEF StartNoticed, RemovedOnce
    <2>5. QED BY <1>1, <1>3, <1>5, <2>3, <2>4 DEF DefaultPart, ServedTrapped
  <1>6. CASE MAIN_Options.RM
    <2>1. PICK done \in SUBSET {"PIC"} :
            /\ ~Empty(io.links, "RM") => done = {"PIC"}
            /\ io' = Install(io, "RM", done, MAIN_Options)
            /\ refused' = [refused EXCEPT !["RM"] = @ \cup ({"PIC"} \ done)]
      BY <1>6, InvokeStep
    <2>2. Good(io', MAIN_Options) /\ Adds(io, io', "RM", done)
      <3>1. done \in SUBSET Traps("RM") /\ done \cap io.iopt["RM"] = {} BY <1>2
      <3>2. QED BY <1>2, <2>1, <3>1, InstallGood
    <2>3. refused'["RM"] = refused["RM"] \cup ({"PIC"} \ done) /\ refused'["PM"] = refused["PM"]
      BY <1>1, <2>1, TrapFacts DEF TypeApart
    <2>4. io'.stale = FALSE BY <1>1, <2>2, IoParts DEF Adds
    <2>5. phase = "playing" => done = {"PIC"}
      <3>1. SUFFICES ASSUME phase = "playing" PROVE ~Empty(io.links, "RM") BY <2>1
      <3>2. present["RM"] /\ "RM" \in installed["OPL"]
        BY <1>1, <1>2, <1>6, <3>1 DEF TypeApart, FlagsTell
      <3>3. "OPL" \in Flagged("RM") BY <3>2 DEF Flagged
      <3>4. io.iopt["RM"] # {} BY <1>1, <1>2, <3>1, <3>3 DEF StartMade, Starting
      <3>5. QED BY <1>2, <3>4, EmptyMeans DEF Good
    <2>6. StartNoticed'
      <3>1. SUFFICES ASSUME phase' \in Starting
                     PROVE  ~io'.stale /\ \A s \in Servers : refused'[s] = {}
        BY DEF StartNoticed
      <3>2. phase = "playing" /\ \A s \in Servers : refused[s] = {}
        BY <1>1, <3>1 DEF StartNoticed, Starting
      <3>3. QED BY <2>3, <2>4, <2>5, <3>2, TrapFacts
    <2>7. ResidentMade'
      <3>1. SUFFICES ASSUME phase' = "resident", NEW s \in Servers
                     PROVE  io'.iopt[s] = (Wanted(s, MAIN_Options)' \cup WhileServing(s)') \ refused'[s]
        BY <1>1, <1>6, <2>2 DEF ResidentMade
      <3>2. /\ io.iopt[s] = (Wanted(s, MAIN_Options) \cup WhileServing(s)) \ refused[s]
            /\ "PIC" \notin refused["RM"]
        BY <1>1, <3>1 DEF ResidentMade
      <3>3. WhileServing(s) = {} /\ WhileServing(s)' = (IF s = "RM" THEN {"PIC"} ELSE {})
        BY <1>1, <1>6 DEF WhileServing
      <3>4. CASE s = "RM"
        <4>1. io'.iopt[s] = io.iopt[s] \cup done BY <2>2, <3>4 DEF Adds
        <4>2. refused'[s] = refused[s] \cup ({"PIC"} \ done) BY <2>3, <3>4
        <4>3. "PIC" \notin Wanted(s, MAIN_Options) BY TrapFacts DEF Wanted, Kept
        <4>4. QED BY <1>4, <3>2, <3>3, <3>4, <4>1, <4>2, <4>3
      <3>5. CASE s # "RM"
        <4>1. io'.iopt[s] = io.iopt[s] /\ refused'[s] = refused[s]
          BY <2>2, <2>3, <3>5, TrapFacts DEF Adds
        <4>2. QED BY <1>4, <3>2, <3>3, <3>5, <4>1
      <3>6. QED BY <3>4, <3>5
    <2>8. ServedTrapped' BY <2>2, <2>3 DEF ServedTrapped, Adds
    <2>9. RemovedOnce' BY <2>4 DEF RemovedOnce
    <2>10. QED BY <1>3, <2>6, <2>7, <2>8, <2>9 DEF DefaultPart
  <1>7. QED BY <1>5, <1>6

(* The handler returns: the controllers' trap goes if it was made, and if  *)
(* it was not, it was refused.                                             *)
LEMMA DefaultReturns == DefaultInv /\ ~io.stale /\ ClientReturns => DefaultPart'
  <1> SUFFICES ASSUME DefaultInv, ~io.stale, ClientReturns PROVE DefaultPart' OBVIOUS
  <1>1. /\ IoOK(io) /\ StartMade /\ FlagsTell /\ StartNoticed /\ ResidentMade /\ ServedTrapped
        /\ TypeApart /\ phase \in {"playing", "resident"} /\ serving /\ serving' = FALSE
        /\ UNCHANGED <<phase, MAIN_Options, present, installed, refused>>
        /\ io' = IF MAIN_Options.RM THEN Uninstall(io, "RM", {"PIC"}) ELSE io
    BY TypeParts DEF DefaultInv, StartInv, ClientReturns, NothingServed
  <1>2. /\ MAIN_Options \in AllOptions /\ Good(io, MAIN_Options)
        /\ {"PIC"} \in SUBSET Traps("RM") /\ "RM" \in Servers
    BY <1>1 DEF StartMade, ResidentMade, Starting, TypeApart, Traps, Servers
  <1>3. FlagsTell' BY <1>1 DEF FlagsTell
  <1>4. ServedTrapped' BY <1>1 DEF ServedTrapped
  <1>5. io.stale = FALSE /\ io'.stale \in BOOLEAN
    <2>1. IoOK(io') BY <1>1, <1>2, UninstallFacts
    <2>2. QED BY <1>1, <2>1, IoParts
  <1>6. /\ io'.stale => "PIC" \in refused["RM"]
        /\ Good(io', MAIN_Options)
        /\ io'.iopt["RM"] = (IF MAIN_Options.RM THEN io.iopt["RM"] \ {"PIC"} ELSE io.iopt["RM"])
        /\ io'.iopt["PM"] = io.iopt["PM"]
    <2>1. CASE MAIN_Options.RM
      <3>1. Good(io', MAIN_Options) /\ Removes(io, io', "RM", {"PIC"})
        BY <1>1, <1>2, <2>1, UninstallGood
      <3>2. {"PIC"} \subseteq io.iopt["RM"] \cup refused["RM"] BY <1>1, <2>1 DEF ServedTrapped
      <3>3. QED BY <1>5, <2>1, <3>1, <3>2, TrapFacts DEF Removes
    <2>2. CASE ~MAIN_Options.RM BY <1>1, <1>2, <1>5, <2>2
    <2>3. QED BY <2>1, <2>2
  <1>7. RemovedOnce' BY <1>1, <1>2, <1>6 DEF RemovedOnce
  <1>8. StartNoticed'
    <2>1. phase \in Starting => \A s \in Servers : refused[s] = {} BY <1>1 DEF StartNoticed
    <2>2. QED BY <1>1, <1>2, <1>6, <2>1 DEF StartNoticed
  <1>9. ResidentMade'
    <2>1. SUFFICES ASSUME phase' = "resident", ~io'.stale
                   PROVE  /\ "PIC" \notin refused["RM"]
                          /\ \A s \in Servers :
                               io'.iopt[s] = (Wanted(s, MAIN_Options)' \cup WhileServing(s)') \ refused[s]
      BY <1>1, <1>6 DEF ResidentMade
    <2>2. "PIC" \notin refused["RM"]
      <3>1. CASE MAIN_Options.RM
        <4>1. Uninstalls(io, io', "RM", {"PIC"}) BY <1>1, <1>2, <3>1, UninstallFacts
        <4>2. "PIC" \in io.iopt["RM"] BY <2>1, <4>1 DEF Uninstalls
        <4>3. QED BY <1>1, <1>2, <2>1, <4>2 DEF ResidentMade
      <3>2. CASE ~MAIN_Options.RM BY <1>1, <1>5, <2>1, <3>2 DEF ResidentMade
      <3>3. QED BY <3>1, <3>2
    <2>3. ASSUME NEW s \in Servers
          PROVE  io'.iopt[s] = (Wanted(s, MAIN_Options)' \cup WhileServing(s)') \ refused[s]
      <3>1. Wanted(s, MAIN_Options)' = Wanted(s, MAIN_Options) BY <1>1 DEF Wanted
      <3>2. io.iopt[s] = (Wanted(s, MAIN_Options) \cup WhileServing(s)) \ refused[s]
        BY <1>1, <2>1 DEF ResidentMade
      <3>3. /\ WhileServing(s) = (IF s = "RM" /\ MAIN_Options.RM THEN {"PIC"} ELSE {})
            /\ WhileServing(s)' = {}
        BY <1>1 DEF WhileServing
      <3>4. "PIC" \notin Wanted(s, MAIN_Options) BY TrapFacts DEF Wanted, Kept
      <3>5. QED BY <1>6, <3>1, <3>2, <3>3, <3>4, TrapFacts
    <2>4. QED BY <2>2, <2>3
  <1>10. QED BY <1>3, <1>4, <1>7, <1>8, <1>9 DEF DefaultPart

(* Installing what is granted of the wanted traps, on both servers. *)
LEMMA BothInstalled ==
  ASSUME NEW o \in AllOptions, NEW i, Good(i, o), \A s \in Servers : i.iopt[s] = {},
         NEW R \in SUBSET Traps("RM"), NEW P \in SUBSET Traps("PM"),
         NEW j, j = Install(Install(i, "RM", R, o), "PM", P, o)
  PROVE  Good(j, o) /\ j.stale = i.stale /\ j.iopt["RM"] = R /\ j.iopt["PM"] = P
  <1> DEFINE k == Install(i, "RM", R, o)
  <1>1. Good(k, o) /\ Adds(i, k, "RM", R) BY InstallGood, TrapFacts
  <1>2. j = Install(k, "PM", P, o) OBVIOUS
  <1> HIDE DEF k
  <1>3. k.iopt["RM"] = R /\ k.iopt["PM"] = {} BY <1>1, TrapFacts DEF Adds
  <1>4. Good(j, o) /\ Adds(k, j, "PM", P) BY <1>1, <1>2, <1>3, InstallGood, TrapFacts
  <1>5. QED BY <1>1, <1>3, <1>4, TrapFacts DEF Adds

(* An update removes what is linked, and of the traps that are not only    *)
(* those that were refused; then it links what is granted of the wanted.   *)
LEMMA DefaultUpdate == DefaultInv /\ ~io.stale /\ Update => DefaultPart'
  <1> SUFFICES ASSUME DefaultInv, ~io.stale, Update PROVE DefaultPart' OBVIOUS
  <1>1. /\ IoOK(io) /\ FlagsTell /\ RemovedOnce /\ ResidentMade /\ TypeApart
        /\ phase = "resident" /\ ~serving
        /\ UNCHANGED <<phase, present, installed, serving>>
    BY TypeParts DEF DefaultInv, StartInv, Update
  <1>2. FlagsTell' /\ StartNoticed' BY <1>1 DEF FlagsTell, StartNoticed, Starting
  <1>3. ServedTrapped' BY <1>1 DEF ServedTrapped
  <1>4. PICK i : i = Uninstall(Uninstall(io, "RM", OldTraps("RM")), "PM", OldTraps("PM")) OBVIOUS
  <1>5. Good(io, MAIN_Options) /\ MAIN_Options \in AllOptions
    BY <1>1 DEF ResidentMade, TypeApart
  <1>6. \A s \in Servers : io.iopt[s] = OldTraps(s) \ refused[s]
    <2> TAKE s \in Servers
    <2>1. io.iopt[s] = Wanted(s, MAIN_Options) \ refused[s]
      BY <1>1 DEF ResidentMade, WhileServing
    <2>2. MAIN_Options[s] => s \in installed["OPL"] BY <1>1 DEF FlagsTell, TypeApart
    <2>3. QED BY <2>1, <2>2 DEF OldTraps, Wanted
  <1>7. /\ Good(i, MAIN_Options)
        /\ i.iopt["RM"] = io.iopt["RM"] \ OldTraps("RM") /\ i.iopt["PM"] = io.iopt["PM"] \ OldTraps("PM")
        /\ OldTraps("RM") \subseteq io.iopt["RM"] /\ OldTraps("PM") \subseteq io.iopt["PM"] => i.stale = io.stale
    BY <1>4, <1>5, OldTrapsAre, BothRemoved, TrapFacts
  <1>8. \A s \in Servers : i.iopt[s] = {} BY <1>6, <1>7, TrapFacts
  <1>9. i.stale => \E s \in Servers : refused[s] # {}
    <2>1. SUFFICES ASSUME \A s \in Servers : refused[s] = {} PROVE ~i.stale OBVIOUS
    <2>2. io.iopt["RM"] = OldTraps("RM") /\ io.iopt["PM"] = OldTraps("PM")
      BY <1>6, <2>1, TrapFacts
    <2>3. i.stale = io.stale BY <1>7, <2>2
    <2>4. QED BY <2>3
  <1>10. \/ UNCHANGED <<MAIN_Options, io, refused>>
         \/ i.stale /\ io' = i /\ UNCHANGED <<MAIN_Options, refused>>
         \/ Reinstalled(i)
    BY <1>1, <1>4, UpdateStep
  <1>11. CASE UNCHANGED <<MAIN_Options, io, refused>>
    <2>1. \A s \in Servers : WhileServing(s)' = WhileServing(s) BY <1>1, <1>11 DEF WhileServing
    <2>2. ResidentMade' BY <1>1, <1>11, <2>1 DEF ResidentMade, Wanted
    <2>3. RemovedOnce' BY <1>1, <1>11 DEF RemovedOnce
    <2>4. QED BY <1>2, <1>3, <2>2, <2>3 DEF DefaultPart
  <1>12. CASE i.stale /\ io' = i /\ UNCHANGED <<MAIN_Options, refused>>
    <2>1. RemovedOnce' BY <1>9, <1>12 DEF RemovedOnce
    <2>2. ResidentMade' BY <1>12 DEF ResidentMade
    <2>3. QED BY <1>2, <1>3, <2>1, <2>2 DEF DefaultPart
  <1>13. CASE Reinstalled(i)
    <2>1. PICK rm \in SUBSET Wanted("RM", MAIN_Options'), pm \in SUBSET Wanted("PM", MAIN_Options') :
            /\ io' = Install(Install(i, "RM", rm, MAIN_Options'), "PM", pm, MAIN_Options')
            /\ refused' = [RM |-> Wanted("RM", MAIN_Options') \ rm, PM |-> Wanted("PM", MAIN_Options') \ pm]
      BY <1>13 DEF Reinstalled
    <2>2. MAIN_Options' \in AllOptions /\ ~i.stale BY <1>13 DEF Reinstalled
    <2>3. Good(i, MAIN_Options') BY <1>7, <1>8, NoneLinked
    <2>4. rm \in SUBSET Traps("RM") /\ pm \in SUBSET Traps("PM") BY WantedTraps, TrapFacts
    <2>5. /\ Good(io', MAIN_Options') /\ io'.stale = i.stale
          /\ io'.iopt["RM"] = rm /\ io'.iopt["PM"] = pm
      BY <1>8, <2>1, <2>2, <2>3, <2>4, BothInstalled
    <2>6. /\ refused'["RM"] = Wanted("RM", MAIN_Options') \ rm
          /\ refused'["PM"] = Wanted("PM", MAIN_Options') \ pm
      BY <2>1
    <2>7. ResidentMade'
      <3>1. "PIC" \notin refused'["RM"]
        <4>1. "PIC" \notin Wanted("RM", MAIN_Options') BY TrapFacts DEF Wanted, Kept
        <4>2. QED BY <2>6, <4>1
      <3>2. \A s \in Servers : WhileServing(s)' = {} BY <1>1 DEF WhileServing
      <3>3. \A s \in Servers : Wanted(s, MAIN_Options)' = Wanted(s, MAIN_Options') BY DEF Wanted
      <3>4. \A s \in Servers : io'.iopt[s] = Wanted(s, MAIN_Options') \ refused'[s]
        <4>1. io'.iopt["RM"] = Wanted("RM", MAIN_Options') \ refused'["RM"] BY <2>5, <2>6
        <4>2. io'.iopt["PM"] = Wanted("PM", MAIN_Options') \ refused'["PM"] BY <2>5, <2>6
        <4>3. QED BY <4>1, <4>2, TrapFacts
      <3>5. QED BY <2>5, <3>1, <3>2, <3>3, <3>4 DEF ResidentMade
    <2>8. RemovedOnce' BY <2>2, <2>5 DEF RemovedOnce
    <2>9. QED BY <1>2, <1>3, <2>7, <2>8 DEF DefaultPart
  <1>14. QED BY <1>10, <1>11, <1>12, <1>13

LEMMA DefaultStutter == DefaultInv /\ UNCHANGED residentVars => DefaultPart'
  <1> SUFFICES ASSUME DefaultInv, UNCHANGED residentVars PROVE DefaultPart' OBVIOUS
  <1>1. /\ phase' = phase /\ MAIN_Options' = MAIN_Options /\ present' = present
        /\ io' = io /\ installed' = installed /\ serving' = serving /\ refused' = refused
    BY DEF residentVars
  <1>2. FlagsTell' /\ StartNoticed' /\ ServedTrapped' /\ RemovedOnce'
    BY <1>1 DEF DefaultInv, FlagsTell, StartNoticed, ServedTrapped, RemovedOnce
  <1>3. ResidentMade' BY <1>1 DEF DefaultInv, ResidentMade, Wanted, WhileServing
  <1>4. QED BY <1>2, <1>3 DEF DefaultPart

LEMMA DefaultStep == DefaultInv /\ [ResidentNext]_residentVars => DefaultInv'
  <1> SUFFICES ASSUME DefaultInv, [ResidentNext]_residentVars PROVE DefaultInv' OBVIOUS
  <1>1. StartInv' BY StartStep DEF DefaultInv
  <1>2. DefaultPart'
    BY DefaultOpl, DefaultMpu, DefaultTraps, DefaultEnd, DefaultStay, DefaultInvoke, DefaultReturns,
       DefaultUpdate, DefaultStutter DEF ResidentNext
  <1>3. QED BY <1>1, <1>2 DEF DefaultInv, DefaultPart

(* DefaultInv is inductive after a start with real mode and the OPL3. *)
THEOREM DefaultInvHolds == DefaultStart => (ResidentSpec => []DefaultInv)
  <1>1. DefaultStart /\ ResidentInit => DefaultInv
    BY StartInit, DefaultInit DEF DefaultInv, DefaultPart
  <1>2. QED BY <1>1, DefaultStep, PTL DEF ResidentSpec

(* What is trapped is what the options say but for what was refused last,  *)
(* each trap once and at its address, until a link is removed through a    *)
(* pointer to none ("re-install all", main.c:1629).                        *)
THEOREM TrapsFollowOptionsHolds == DefaultStart => (ResidentSpec => []TrapsFollowOptions)
  <1>1. ASSUME DefaultInv PROVE TrapsFollowOptions
    <2>1. SUFFICES ASSUME phase = "resident", ~io.stale, NEW s \in Servers, NEW t \in Traps(s)
                   PROVE  io.links[s][t] =
                            IF /\ t \in Wanted(s, MAIN_Options) \/ (t = "PIC" /\ MAIN_Options[s] /\ serving)
                               /\ t \notin refused[s]
                            THEN <<Base(t, MAIN_Options)>> ELSE <<>>
      BY DEF TrapsFollowOptions
    <2>2. Linked(io, MAIN_Options) BY <1>1, <2>1 DEF DefaultInv, ResidentMade, Good
    <2>3. io.links[s][t] = IF t \in io.iopt[s] THEN <<Base(t, MAIN_Options)>> ELSE <<>>
      BY <2>1, <2>2 DEF Linked
    <2>4. io.iopt[s] = (Wanted(s, MAIN_Options) \cup WhileServing(s)) \ refused[s]
      BY <1>1, <2>1 DEF DefaultInv, ResidentMade
    <2>5. t = "PIC" => s = "RM" BY <2>1, TrapFacts DEF Traps, Kept
    <2>6. t \in io.iopt[s] <=> /\ t \in Wanted(s, MAIN_Options) \/ (t = "PIC" /\ MAIN_Options[s] /\ serving)
                              /\ t \notin refused[s]
      BY <2>4, <2>5 DEF WhileServing
    <2>7. QED BY <2>3, <2>6
  <1>2. DefaultInv => TrapsFollowOptions BY <1>1
  <1>3. QED BY <1>2, DefaultInvHolds, PTL

(* A link is removed twice, or before it was made, only after a server     *)
(* refused a trap to an update or a virtual interrupt (the Uninstall_IO-   *)
(* PortTraps free it).                                                     *)
THEOREM RemovedOnceHolds == DefaultStart => (ResidentSpec => []RemovedOnce)
  <1>1. DefaultInv => RemovedOnce BY DEF DefaultInv
  <1>2. QED BY <1>1, DefaultInvHolds, PTL
=============================================================================
