------------------------------- MODULE Tuning -------------------------------
(***************************************************************************)
(* src/examples/atu.c: the program that tunes the antenna, with BASE's     *)
(* tuner, the packets that tell it of the tuner, and the panel's light.    *)
(*                                                                         *)
(* The program asks BASE to tune (a bit of a register and a host command,  *)
(* two transactions of x6200_control_atu_tune whose results nobody looks   *)
(* at), turns the light on, waits for a packet with tx set and then for    *)
(* one without, and takes the bit and the light back.  It never calls      *)
(* x6200_control_idle, so that a lost command stays lost.                  *)
(*                                                                         *)
(* The packets are FrameQueue's: each once, in order, and not before the   *)
(* next one has begun to arrive, so that the program is behind BASE.       *)
(***************************************************************************)
EXTENDS Gpio, Sequences

CONSTANT MaxPackets   \* bound on the packets on their way

ASSUME PacketsAssumption == MaxPackets \in Nat \ {0, 1}

VARIABLES
  pc,     \* what the program does next
  atu,    \* its state
  asked,  \* BASE: the bit x6200_atu_tune
  tuner,  \* BASE: "off", "tuning", "over"
  flow,   \* packets sent and not read: their flag tx
  shown,  \* history: a packet with tx was sent
  lost    \* history: commands that did not reach BASE

base == <<asked, tuner>>
vars == <<gpioVars, pc, atu, base, flow, shown, lost>>

Init ==
  /\ GpioInit
  /\ pc = "control_init" /\ atu = "IDLE"
  /\ asked \in BOOLEAN /\ tuner = "off"
  /\ flow = <<>> /\ shown = FALSE
  /\ lost = {}

-----------------------------------------------------------------------------
(* main, up to the loop: return 1 when anything fails.                      *)

Goto(point) == pc' = point /\ UNCHANGED atu

(* The start writes all registers, and may fail after it did. *)
control_init ==
  /\ pc = "control_init"
  /\ \/ asked' = FALSE /\ Goto("flow_init")
     \/ asked' \in {asked, FALSE} /\ Goto("return 1")
  /\ UNCHANGED <<gpioVars, tuner, flow, shown, lost>>

(* What was sent before the port was open is gone. *)
flow_init ==
  /\ pc = "flow_init"
  /\ flow' = <<>>
  /\ Goto("gpio_init") \/ Goto("return 1")
  /\ UNCHANGED <<gpioVars, base, shown, lost>>

(* The frequency is set as well, a register that is not of interest here. *)
gpio_init ==
  /\ pc = "gpio_init"
  /\ \/ x6200_gpio_init(TRUE) /\ Goto("read")
     \/ x6200_gpio_init(FALSE) /\ Goto("return 1")
  /\ UNCHANGED <<base, flow, shown, lost>>

-----------------------------------------------------------------------------
(* The loop.  x6200_flow_read returns true when a packet is followed by the *)
(* beginning of another; otherwise the program sleeps.                      *)

Packet(tx) ==
  /\ pc = "read" /\ Len(flow) >= 2
  /\ tx = Head(flow)
  /\ flow' = Tail(flow)
  /\ UNCHANGED <<gpioVars, base, shown, lost>>

read_idle ==
  /\ atu = "IDLE" /\ \E tx \in BOOLEAN : Packet(tx)
  /\ Goto("bit on")

read_start ==
  /\ atu = "START"
  /\ \E tx \in BOOLEAN : Packet(tx) /\ atu' = IF tx THEN "RUN" ELSE "START"
  /\ UNCHANGED pc

(* Slip: any packet will do. *)
read_run_any ==
  /\ atu = "RUN"
  /\ \E tx \in BOOLEAN : Packet(tx)
  /\ Goto("bit off")

read_run ==
  /\ atu = "RUN"
  /\ \E tx \in BOOLEAN : Packet(tx) /\ Goto(IF tx THEN "read" ELSE "bit off")

-----------------------------------------------------------------------------
(* x6200_control_atu_tune and the light                                     *)

(* A command reaches BASE or is lost; the program goes on either way. *)
Command(name, effect) ==
  /\ \/ effect /\ UNCHANGED lost
     \/ lost' = lost \cup {name} /\ UNCHANGED base
  /\ UNCHANGED <<gpioVars, flow, shown>>

bit_on ==
  /\ pc = "bit on"
  /\ Command("bit on", asked' = TRUE /\ UNCHANGED tuner)
  /\ Goto("host 8004")

(* BASE starts the tuner that it has been asked for.  Whether it does when  *)
(* the bit was lost is not known.                                           *)
host_8004 ==
  /\ pc = "host 8004"
  /\ Command("host 8004",
       tuner' \in {"tuning"} \cup (IF asked THEN {} ELSE {tuner}) /\ UNCHANGED asked)
  /\ Goto("light on")

(* Slip: the program does not note that it has asked. *)
light_on_unnoted ==
  /\ pc = "light on"
  /\ x6200_gpio_set(light, 1)
  /\ Goto("read")
  /\ UNCHANGED <<base, flow, shown, lost>>

light_on ==
  /\ pc = "light on"
  /\ x6200_gpio_set(light, 1)
  /\ pc' = "read" /\ atu' = "START"
  /\ UNCHANGED <<base, flow, shown, lost>>

(* No host command ends the tuning. *)
bit_off ==
  /\ pc = "bit off"
  /\ Command("bit off", asked' = FALSE /\ UNCHANGED tuner)
  /\ Goto("light off")

(* Slip: the light stays on. *)
light_off_forgotten ==
  /\ pc = "light off"
  /\ pc' = "return 0" /\ atu' = "DONE"
  /\ UNCHANGED <<gpioVars, base, flow, shown, lost>>

light_off ==
  /\ pc = "light off"
  /\ x6200_gpio_set(light, 0)
  /\ pc' = "return 0" /\ atu' = "DONE"
  /\ UNCHANGED <<base, flow, shown, lost>>

-----------------------------------------------------------------------------
(* BASE.  A packet may be lost or damaged on its way, and the tuner may     *)
(* have finished before one was sent: then none shows tx.                   *)

SendPacket ==
  /\ Len(flow) < MaxPackets
  /\ flow' = Append(flow, tuner = "tuning")
  /\ shown' = (shown \/ tuner = "tuning")
  /\ UNCHANGED <<gpioVars, pc, atu, base, lost>>

TunerEnds ==
  /\ tuner = "tuning"
  /\ tuner' = "over"
  /\ UNCHANGED <<gpioVars, pc, atu, asked, flow, shown, lost>>

-----------------------------------------------------------------------------

Start == control_init \/ flow_init \/ gpio_init
Loop == read_idle \/ read_start \/ read_run
Switch == bit_on \/ host_8004 \/ light_on \/ bit_off \/ light_off

Program == Start \/ Loop \/ Switch

Next == Program \/ SendPacket \/ TunerEnds

Spec == Init /\ [][Next]_vars

(* The program runs, BASE sends a packet every 35 ms (low/flow.h:94) and a  *)
(* tuning takes its time and no longer.                                     *)
FairSpec ==
  Spec /\ WF_vars(Program) /\ WF_vars(SendPacket) /\ WF_vars(TunerEnds)

-----------------------------------------------------------------------------

TuningTypeOK ==
  /\ GpioTypeOK
  /\ pc \in { "control_init", "flow_init", "gpio_init", "read", "bit on",
              "host 8004", "light on", "bit off", "light off", "return 0",
              "return 1" }
  /\ atu \in {"IDLE", "START", "RUN", "DONE"}
  /\ asked \in BOOLEAN /\ tuner \in {"off", "tuning", "over"}
  /\ flow \in Seq(BOOLEAN) /\ Len(flow) <= MaxPackets
  /\ shown \in BOOLEAN
  /\ lost \subseteq {"bit on", "host 8004", "bit off"}

(* The program withdraws what it asked of BASE only when the tuner has      *)
(* finished, though it knows of the tuner from packets that are behind,     *)
(* may be missing, and may still be those from before it asked; and it does *)
(* not ask again once the tuner has begun.                                  *)
Once == INSTANCE OneTuning

TunesOnce == Once!Spec

(* When the program returns 0 the tuner has run and finished and the light  *)
(* is off.  The bit may have stayed set in BASE only because that very      *)
(* command was lost: nothing sends it again (atu.c:69).                     *)
LeavesClean ==
  pc = "return 0" =>
    /\ tuner = "over"
    /\ level[light] = 0
    /\ asked => "bit off" \in lost

(* x6200_gpio_set, which does not look at the pointer, gets a line that can *)
(* be used, whatever part of x6200_gpio_init failed (gpio.c:62-73).         *)
LineHeld == pc \in {"light on", "light off"} => handle[light] = "held"

(* The program ends once the tuner has shown in one packet.  Without such a *)
(* packet (a short tuning, a lost packet, a lost command) it waits for ever *)
(* (atu.c:60).                                                              *)
LoopEnds == shown ~> pc = "return 0"

=============================================================================
