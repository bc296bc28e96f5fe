------------------------------ MODULE Resident ------------------------------
(***************************************************************************)
(* SBEMU from its start until it stays resident, and the updates of a      *)
(* resident one (main, MAIN_Cleanup and MAIN_TSR_Interrupt of main.c): the *)
(* I/O ports that are trapped for the client, in real mode by QEMM         *)
(* (qemm.c) and in protected mode by HDPMI (hdpmipt.c).                    *)
(*                                                                         *)
(* A trap is named for its ports; installing one makes a link in the       *)
(* server's list and points the trap's QEMM_IOPT at it.  The multiplex     *)
(* handler is entered with interrupts off, so that an update is one step.  *)
(* The machine's card has no OPL3 of its own at port 388.                  *)
(*                                                                         *)
(* A server may refuse a trap.  The start looks at that; an update and a   *)
(* virtual interrupt do not, and a later removal goes through a pointer to *)
(* no link: what the program does from there is undefined, and the model   *)
(* stops.  A refused install changes nothing that is used again.           *)
(* (An operator named for what it leaves out is a faulty variant of the    *)
(* one that follows it.)                                                   *)
(***************************************************************************)
EXTENDS Integers, SequencesExt

CONSTANTS
  Machines,    (* [RM, PM]: have they QEMM, and HDPMI                    *)
  Options,     (* [RM, PM, OPL, MPU, ADDR]: what the user may start with *)
  Requests,    (* functions: new values of some of the options           *)
  Refusable    (* the traps HDPMI may refuse                              *)

Servers == {"RM", "PM"}
Kept(s) ==
  IF s = "RM" THEN {"DMA", "SB"}
  ELSE {"DMA1", "DMA2", "DMA3", "HDMA1", "HDMA2", "HDMA3", "PIC1", "PIC2", "SB"}
Traps(s) == Kept(s) \cup {"OPL", "MPU"} \cup (IF s = "RM" THEN {"PIC"} ELSE {})
AllTraps == Traps("RM") \cup Traps("PM")
Addresses == {544, 576}
AllOptions == [RM : BOOLEAN, PM : BOOLEAN, OPL : BOOLEAN, MPU : BOOLEAN, ADDR : Addresses]
Asked(o, r) == [k \in DOMAIN o |-> IF k \in DOMAIN r THEN r[k] ELSE o[k]]

ASSUME ResidentAssumption ==
  /\ Machines \subseteq [Servers -> BOOLEAN]
  /\ Options \subseteq AllOptions
  /\ \A r \in Requests, o \in AllOptions : Asked(o, r) \in AllOptions
  /\ Refusable \subseteq Traps("PM")

VARIABLES
  phase,           (* what the start does next, or "resident", "exited"      *)
  MAIN_Options,
  present,         (* MAIN_QEMM_Present, MAIN_HDPMI_Present                  *)
  io,              (* the traps: [links, iopt, callback, old, stale]         *)
  installed,       (* the servers of OPLRMInstalled .. MPUPMInstalled        *)
  serving,         (* a virtual interrupt's handler runs                     *)
  refused          (* not in the code: the traps a server refused to an      *)
                   (* update or a virtual interrupt that did not notice      *)

residentVars == <<phase, MAIN_Options, present, io, installed, serving, refused>>

(* io: a server's links are known by the base address they were made with, *)
(* 0 for ports that stay; iopt are the traps whose QEMM_IOPT points to a   *)
(* link; callback is the address QEMM calls, <<ES, DI>>, and old is        *)
(* <<QEMM_OldCallbackCS, QEMM_OldCallbackIP>>; stale, not in the code,     *)
(* tells whether a link was removed through a pointer to none.             *)
Words == {"0", "segment", "offset", "sbemu"}
Theirs == <<"segment", "offset">>
Ours == <<"sbemu", "sbemu">>
ResidentTypeOK ==
  /\ phase \in {"opl", "mpu", "traps", "playing", "resident", "exit", "exited"}
  /\ MAIN_Options \in AllOptions /\ present \in [Servers -> BOOLEAN]
  /\ \A s \in Servers : MAIN_Options[s] => present[s]
  /\ \A s \in Servers : /\ io.links[s] \in [Traps(s) -> Seq(Addresses \cup {0})]
                        /\ io.iopt[s] \subseteq Traps(s)
  /\ io.callback \in Words \X Words /\ io.old \in Words \X Words /\ io.stale \in BOOLEAN
  /\ installed \in [{"OPL", "MPU"} -> SUBSET Servers]
  /\ serving \in BOOLEAN /\ refused \in [Servers -> SUBSET AllTraps]

---------------------------------------------------------------------------
(* QEMM_Install_IOPortTrap, HDPMIPT_Install_IOPortTrap: of the traps T.    *)
(* QEMM's first link takes its callback, keeping ES as the offset and DI   *)
(* as the segment of the one before; the removal of the last gives it back *)
(* (a DPMI host that fails that call is left out).                         *)
Empty(links, s) == \A t \in Traps(s) : links[s][t] = <<>>
Saved(callback) == <<callback[2], callback[1]>>

BaseBeforeMove(t, o) == IF t = "SB" THEN MAIN_Options.ADDR ELSE 0
Base(t, o) == IF t = "SB" THEN o.ADDR ELSE 0
Install(i, s, T, o) ==
  LET linked == [t \in Traps(s) |->
                   IF t \in T THEN Append(i.links[s][t], Base(t, o)) ELSE i.links[s][t]]
      first  == s = "RM" /\ T # {} /\ Empty(i.links, "RM")
  IN [links |-> [i.links EXCEPT ![s] = linked], iopt |-> [i.iopt EXCEPT ![s] = @ \cup T],
      callback |-> IF first THEN Ours ELSE i.callback,
      old |-> IF first THEN Saved(i.callback) ELSE i.old, stale |-> i.stale]

(* QEMM_Uninstall_IOPortTrap, HDPMIPT_Uninstall_IOPortTrap. *)
Unlinked(i, s, T) ==
  [i.links EXCEPT ![s] =
     [t \in Traps(s) |-> IF t \in T /\ @[t] # <<>> THEN Front(@[t]) ELSE @[t]]]
Uninstall(i, s, T) ==
  LET left == Unlinked(i, s, T)
      last == s = "RM" /\ T # {} /\ Empty(left, "RM")
  IN [links |-> left, iopt |-> [i.iopt EXCEPT ![s] = @ \ T],
      callback |-> IF last THEN i.old ELSE i.callback,
      old |-> i.old, stale |-> i.stale \/ ~(T \subseteq i.iopt[s])]

(* The traps of T that may be granted.  QEMM is asked for its callback by  *)
(* the first link only, so that it refuses none after one it granted.      *)
Turn == [OPL |-> 1, MPU |-> 2, DMA |-> 3, SB |-> 4, PIC |-> 5]
Grants(i, s, T) ==
  {d \in SUBSET T :
     /\ s = "RM" => /\ Empty(i.links, "RM") \/ d = T
                    /\ \A t \in d, u \in T : Turn[t] < Turn[u] => u \in d
     /\ s = "PM" => T \ d \subseteq Refusable}
Enabled == {s \in Servers : MAIN_Options[s]}

---------------------------------------------------------------------------
(* The start.  The servers are looked for only if they are asked for, and  *)
(* QEMM is taken to be there if it is not.                                 *)
ResidentInit ==
  /\ \E m \in Machines, o \in Options :
       /\ present = [RM |-> m.RM \/ ~o.RM, PM |-> m.PM /\ o.PM]
       /\ MAIN_Options = [o EXCEPT !.RM = @ /\ m.RM, !.PM = @ /\ m.PM]
  /\ phase = IF Enabled = {} THEN "exited" ELSE "opl"
  /\ io = [links |-> [s \in Servers |-> [t \in Traps(s) |-> <<>>]],
           iopt |-> [s \in Servers |-> {}], callback |-> Theirs, old |-> <<"0", "0">>, stale |-> FALSE]
  /\ installed = [t \in {"OPL", "MPU"} |-> {}]
  /\ serving = FALSE /\ refused = [s \in Servers |-> {}]

(* One trap after the other, QEMM's before HDPMI's, up to the first that   *)
(* fails.                                                                  *)
StartTrap(t, next) ==
  \E done \in SUBSET Enabled :
    /\ \A s \in Enabled \ done : {} \in Grants(io, s, {t})
    /\ "RM" \in Enabled \ done => done = {}
    /\ installed' = [installed EXCEPT ![t] = done]
    /\ io' = LET i == IF "RM" \in done THEN Install(io, "RM", {t}, MAIN_Options) ELSE io
             IN IF "PM" \in done THEN Install(i, "PM", {t}, MAIN_Options) ELSE i
    /\ phase' = IF done = Enabled THEN next ELSE "exit"

StartOpl ==
  /\ phase = "opl"
  /\ IF MAIN_Options.OPL THEN StartTrap("OPL", "mpu")
     ELSE phase' = "mpu" /\ UNCHANGED <<io, installed>>
  /\ UNCHANGED <<MAIN_Options, present, serving, refused>>

StartMpu ==
  /\ phase = "mpu"
  /\ IF MAIN_Options.MPU THEN StartTrap("MPU", "traps")
     ELSE phase' = "traps" /\ UNCHANGED <<io, installed>>
  /\ UNCHANGED <<MAIN_Options, present, serving, refused>>

(* The others are all tried; then the card plays. *)
StartTraps ==
  /\ phase = "traps" /\ phase' = "playing"
  /\ \E rm \in IF "RM" \in Enabled THEN Grants(io, "RM", Kept("RM")) ELSE {{}},
        pm \in IF "PM" \in Enabled THEN Grants(io, "PM", Kept("PM")) ELSE {{}} :
       io' = Install(Install(io, "RM", rm, MAIN_Options), "PM", pm, MAIN_Options)
  /\ UNCHANGED <<MAIN_Options, present, installed, serving, refused>>

(* It stays resident if nothing failed: a trap, a handler or DPMI_TSR. *)
Made(s) == io.iopt[s] \cap Kept(s)
StayResident ==
  /\ phase = "playing" /\ ~serving
  /\ \A s \in Enabled : Made(s) = Kept(s)
  /\ phase' = "resident"
  /\ UNCHANGED <<MAIN_Options, present, io, installed, serving, refused>>

GiveUp ==
  /\ phase = "playing" /\ ~serving
  /\ io' = Uninstall(Uninstall(io, "RM", Made("RM")), "PM", Made("PM"))
  /\ phase' = "exit"
  /\ UNCHANGED <<MAIN_Options, present, installed, serving, refused>>

(* The traps the start remembers by a flag. *)
FlaggedOplOnly(s) == {t \in {"OPL"} : s \in installed[t]}
Flagged(s) == {t \in {"OPL", "MPU"} : s \in installed[t]}
MAIN_Cleanup ==
  /\ phase = "exit" /\ phase' = "exited"
  /\ io' = Uninstall(Uninstall(io, "RM", Flagged("RM")), "PM", Flagged("PM"))
  /\ UNCHANGED <<MAIN_Options, present, installed, serving, refused>>

---------------------------------------------------------------------------
(* MAIN_InvokeIRQ: in real mode the controllers' ports are trapped only    *)
(* while the client's handler runs.                                        *)
InvokeIRQ ==
  /\ phase \in {"playing", "resident"} /\ ~serving /\ serving' = TRUE
  /\ IF MAIN_Options.RM
     THEN \E done \in Grants(io, "RM", {"PIC"}) :
            /\ io' = Install(io, "RM", done, MAIN_Options)
            /\ refused' = [refused EXCEPT !["RM"] = @ \cup ({"PIC"} \ done)]
     ELSE UNCHANGED <<io, refused>>
  /\ UNCHANGED <<phase, MAIN_Options, present, installed>>

ClientReturns ==
  /\ serving /\ serving' = FALSE
  /\ io' = IF MAIN_Options.RM THEN Uninstall(io, "RM", {"PIC"}) ELSE io
  /\ UNCHANGED <<phase, MAIN_Options, present, installed, refused>>

---------------------------------------------------------------------------
(* The update of a resident SBEMU: unless nothing of this changes, all     *)
(* traps go, and come back if they are granted; the options are the new    *)
(* ones in any case.                                                       *)
Wanted(s, o) ==
  IF ~o[s] THEN {}
  ELSE Kept(s) \cup (IF o.OPL THEN {"OPL"} ELSE {}) \cup (IF o.MPU THEN {"MPU"} ELSE {})
OldTrapsByFlagOnly(s) ==
  (Wanted(s, MAIN_Options) \ {"OPL"})
    \cup (IF MAIN_Options[s] /\ s \in installed["OPL"] THEN {"OPL"} ELSE {})
OldTraps(s) == Wanted(s, MAIN_Options) \ (IF s \in installed["OPL"] THEN {} ELSE {"OPL"})
GrantedUnchecked(o) == o
Granted(o) == [o EXCEPT !.RM = @ /\ present.RM, !.PM = @ /\ present.PM]

Update ==
  /\ phase = "resident" /\ ~serving
  /\ \E r \in Requests :
       LET opt == Asked(MAIN_Options, r)
           new == Granted(opt)
           i   == Uninstall(Uninstall(io, "RM", OldTraps("RM")), "PM", OldTraps("PM"))
       IN \/ opt = MAIN_Options /\ UNCHANGED <<MAIN_Options, io, refused>>
          \/ opt # MAIN_Options /\ i.stale /\ io' = i /\ UNCHANGED <<MAIN_Options, refused>>
          \/ /\ opt # MAIN_Options /\ ~i.stale /\ MAIN_Options' = new
             /\ \E rm \in Grants(i, "RM", Wanted("RM", new)), pm \in Grants(i, "PM", Wanted("PM", new)) :
                  /\ io' = Install(Install(i, "RM", rm, new), "PM", pm, new)
                  /\ refused' = [RM |-> Wanted("RM", new) \ rm, PM |-> Wanted("PM", new) \ pm]
  /\ UNCHANGED <<phase, present, installed, serving>>

ResidentNext ==
  /\ ~io.stale
  /\ \/ StartOpl \/ StartMpu \/ StartTraps \/ StayResident \/ GiveUp \/ MAIN_Cleanup
     \/ InvokeIRQ \/ ClientReturns \/ Update
ResidentSpec == ResidentInit /\ [][ResidentNext]_residentVars

---------------------------------------------------------------------------
(* What is trapped is what the options say but for what the last update,   *)
(* or the virtual interrupt, was refused: each trap once, the Sound        *)
(* Blaster's at its address, and the controllers as long as the client's   *)
(* handler runs ("re-install all", main.c:1629).                           *)
TrapsFollowOptions ==
  phase = "resident" /\ ~io.stale =>
    \A s \in Servers : \A t \in Traps(s) :
      io.links[s][t] =
        IF /\ t \in Wanted(s, MAIN_Options) \/ (t = "PIC" /\ MAIN_Options[s] /\ serving)
           /\ t \notin refused[s]
        THEN <<Base(t, MAIN_Options)>> ELSE <<>>

(* A start that fails, wherever it does, leaves no port trapped and no     *)
(* callback of SBEMU's with QEMM (main and MAIN_Cleanup).                  *)
NothingLeftBehind ==
  phase = "exited" => /\ \A s \in Servers : Empty(io.links, s)
                      /\ io.callback # Ours

(* A link is removed twice, or before it was made, only after a server     *)
(* refused a trap that no one looked after: otherwise its memory is freed  *)
(* with it once (QEMM_Uninstall_IOPortTrap, HDPMIPT_Uninstall_IOPortTrap). *)
RemovedOnce == io.stale => \E s \in Servers : refused[s] # {}

(* "restore old handler" (qemm.c:293): after a start that fails, QEMM      *)
(* calls the address it called before.                                     *)
CallbackRestored == phase = "exited" => io.callback = Theirs

(* "/OPL: Enable OPL3 emulation" (main.c): without it, the OPL3's ports are *)
(* not trapped.                                                             *)
OplAsAsked ==
  phase = "resident" /\ ~MAIN_Options.OPL => \A s \in Servers : io.links[s]["OPL"] = <<>>
=============================================================================
