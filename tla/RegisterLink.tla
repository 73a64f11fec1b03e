---------------------------- MODULE RegisterLink ----------------------------
(***************************************************************************)
(* src/src/low/control.c: the registers of BASE, reached over I2C.         *)
(*                                                                         *)
(* The library keeps a shadow of all registers in all_cmd.  A command      *)
(* changes one register of the shadow and sends it; x6200_control_idle     *)
(* sends the whole shadow again and reopens the I2C device when that       *)
(* fails; x6200_control_init waits for BASE, reads its data, greets it     *)
(* with two host commands and sends the defaults.                          *)
(*                                                                         *)
(* The process is one thread.  Its steps are the I2C transactions and what *)
(* the code does up to the next one; between two of them BASE may restart, *)
(* the descriptor may stop working and the process may be killed.          *)
(***************************************************************************)
EXTENDS Integers

CONSTANTS
  NRegs,      \* number of registers, sent in this order
  Value,      \* what a register can hold
  Zero,       \* what memset leaves
  Defaults,   \* registers as x6200_control_init fills them in
  PowerOn,    \* registers of BASE after it restarted
  StickAt,    \* control points at which the descriptor may stop working
  MaxFaults   \* bound on the number of faults

Reg == 1 .. NRegs

Zeros == [r \in Reg |-> Zero]

ASSUME RegisterAssumption ==
  /\ NRegs \in Nat
  /\ Zero \in Value
  /\ Defaults \in [Reg -> Value]
  /\ PowerOn \in [Reg -> Value]

ASSUME FaultAssumption == MaxFaults \in Nat

Points ==
  { "down",                                          \* no process
    "poll", "info", "calibration",                   \* x6200_control_init
    "host_8003", "host_8002", "push", "failed",
    "up",                                            \* init returned true
    "reopen", "resend" }                             \* x6200_control_idle

VARIABLES
  all_cmd,  \* the shadow
  i2c_fd,   \* "open", or "closed" for -1
  pc,       \* what the process does next
  dev,      \* BASE: its registers
  ready,    \* BASE: register 0x2000 is not 0
  hosted,   \* history: host commands BASE has taken from this start of the
            \* library, which begins with x6200_control_init
  restarted,\* history: BASE has restarted in this start, since it was polled
  bus,      \* "up", or "stuck" until the device is opened again
  faults,   \* number of faults so far
  trouble   \* history: something failed since the last good full write

process == <<all_cmd, i2c_fd, pc>>
base == <<dev, ready>>
greeting == <<hosted, restarted>>
vars == <<all_cmd, i2c_fd, pc, dev, ready, hosted, restarted, bus, faults, trouble>>

TypeOK ==
  /\ all_cmd \in [Reg -> Value]
  /\ i2c_fd \in {"open", "closed"}
  /\ pc \in Points
  /\ dev \in [Reg -> Value]
  /\ ready \in BOOLEAN
  /\ hosted \subseteq {"8002", "8003", "8004"}
  /\ restarted \in BOOLEAN
  /\ bus \in {"up", "stuck"}
  /\ faults \in 0 .. MaxFaults
  /\ trouble \in BOOLEAN

(* The process has not started; BASE is in any state. *)
Init ==
  /\ all_cmd = Zeros
  /\ i2c_fd = "closed"
  /\ pc = "down"
  /\ dev \in [Reg -> Value]
  /\ ready \in BOOLEAN
  /\ hosted = {} /\ restarted = FALSE
  /\ bus = "up"
  /\ faults = 0
  /\ trouble = TRUE

-----------------------------------------------------------------------------
(* Transactions.  Whether one succeeds is up to the bus and to BASE; each   *)
(* operator leaves process and pc to the step that makes the transaction.   *)

Fault == faults < MaxFaults /\ faults' = faults + 1

(* Slip (see Mutants in README.md): registers sent in the wrong byte order. *)
TakeSwapped(part) ==
  dev' = [r \in Reg |-> IF r \in part THEN 256 * all_cmd'[r] ELSE dev[r]]

(* BASE takes the registers in part as they are in the shadow now. *)
Take(part) ==
  dev' = [r \in Reg |-> IF r \in part THEN all_cmd'[r] ELSE dev[r]]

Prefixes(regs) ==
  {part \in SUBSET regs : \A r \in regs, s \in part : r < s => r \in part}

Works == i2c_fd = "open" /\ bus = "up"

(* send_regs returns true.  BASE may acknowledge while it is starting and   *)
(* not take the registers.                                                  *)
SendOk(regs) ==
  /\ Works
  /\ Take(regs) \/ (~ ready /\ UNCHANGED dev)
  /\ trouble' = (trouble /\ ~ (ready /\ regs = Reg))
  /\ UNCHANGED <<ready, greeting, bus, faults>>

(* send_regs returns false; BASE may have taken the first registers.        *)
SendFails(regs) ==
  /\ IF Works /\ ready
     THEN Fault /\ \E part \in Prefixes(regs) : Take(part)
     ELSE UNCHANGED <<dev, faults>>
  /\ trouble' = TRUE
  /\ UNCHANGED <<ready, greeting, bus>>

HostOk(cmd) ==
  /\ Works
  /\ hosted' \in {hosted \cup {cmd}} \cup (IF ready THEN {} ELSE {hosted})
  /\ UNCHANGED <<base, restarted, bus, faults, trouble>>

HostFails ==
  /\ IF Works /\ ready THEN Fault ELSE UNCHANGED faults
  /\ UNCHANGED <<base, greeting, bus, trouble>>

ReadOk == Works /\ UNCHANGED <<base, hosted, bus, faults, trouble>>

ReadFails == HostFails

(* The descriptor is the thing that was stuck. *)
OpenOk ==
  /\ i2c_fd' = "open" /\ bus' = "up"
  /\ UNCHANGED <<base, faults, trouble>>

OpenFails ==
  /\ Fault
  /\ i2c_fd' = "closed"
  /\ UNCHANGED <<base, bus, trouble>>

-----------------------------------------------------------------------------
(* x6200_control_init, also called again after it returned false.  A        *)
(* failure returns at once and leaves the descriptor as it is.              *)

Goto(point) == pc' = point /\ UNCHANGED <<all_cmd, i2c_fd>>

(* Slip (see Mutants in README.md): a start that is repeated takes BASE for  *)
(* greeted by the start that failed.                                        *)
init_open_resuming ==
  /\ pc \in {"down", "failed"}
  /\ hosted' = {} /\ restarted' = FALSE
  /\ \/ OpenOk /\ all_cmd' = Zeros /\ pc' = IF pc = "failed" THEN "push" ELSE "poll"
     \/ OpenFails /\ pc' = "failed" /\ UNCHANGED all_cmd

init_open ==
  /\ pc \in {"down", "failed"}
  /\ hosted' = {} /\ restarted' = FALSE
  /\ \/ OpenOk /\ all_cmd' = Zeros /\ pc' = "poll"
     \/ OpenFails /\ pc' = "failed" /\ UNCHANGED all_cmd

(* Slip: the condition of the loop is the wrong way round. *)
init_poll_inverted ==
  /\ pc = "poll"
  /\ \/ ReadOk /\ Goto(IF ready THEN "poll" ELSE "info") /\ restarted' = FALSE
     \/ ReadFails /\ Goto("poll")

(* The loop ends when register 0x2000 can be read and is not 0. *)
init_poll ==
  /\ pc = "poll"
  /\ \/ ReadOk /\ ready /\ Goto("info") /\ restarted' = FALSE
     \/ ReadOk /\ ~ ready /\ Goto("poll") /\ UNCHANGED restarted
     \/ ReadFails /\ Goto("poll")

init_info ==
  /\ pc = "info"
  /\ \/ ReadOk /\ Goto("calibration") /\ UNCHANGED restarted
     \/ ReadFails /\ Goto("failed")

init_calibration ==
  /\ pc = "calibration"
  /\ \/ ReadOk /\ Goto("host_8003") /\ UNCHANGED restarted
     \/ ReadFails /\ Goto("failed")

init_host_8003 ==
  /\ pc = "host_8003"
  /\ \/ HostOk("8003") /\ Goto("host_8002")
     \/ HostFails /\ Goto("failed")

init_host_8002 ==
  /\ pc = "host_8002"
  /\ \/ HostOk("8002") /\ Goto("push")
     \/ HostFails /\ Goto("failed")

init_push ==
  /\ pc = "push"
  /\ all_cmd' = Defaults
  /\ \/ SendOk(Reg) /\ pc' = "up"
     \/ SendFails(Reg) /\ pc' = "failed"
  /\ UNCHANGED i2c_fd

InitStep ==
  \/ init_open \/ init_poll \/ init_info \/ init_calibration
  \/ init_host_8003 \/ init_host_8002 \/ init_push

-----------------------------------------------------------------------------
(* Operations of a process that is up                                       *)

(* Slip: the address is that of another register. *)
x6200_control_cmd_misplaced(cmd, arg) ==
  /\ pc = "up"
  /\ all_cmd' = [all_cmd EXCEPT ![cmd] = arg]
  /\ SendOk({(cmd % NRegs) + 1}) \/ SendFails({(cmd % NRegs) + 1})
  /\ UNCHANGED <<i2c_fd, pc>>

(* The shadow changes before the register is sent, and stays changed when   *)
(* that fails.                                                              *)
x6200_control_cmd(cmd, arg) ==
  /\ pc = "up"
  /\ all_cmd' = [all_cmd EXCEPT ![cmd] = arg]
  /\ SendOk({cmd}) \/ SendFails({cmd})
  /\ UNCHANGED <<i2c_fd, pc>>

(* 0x8004 starts the antenna tuner. *)
x6200_control_host_cmd ==
  /\ pc = "up"
  /\ HostOk("8004") \/ HostFails
  /\ UNCHANGED process

(* i2c_close follows a failed write at once. *)
idle_send ==
  /\ pc = "up"
  /\ UNCHANGED all_cmd
  /\ \/ SendOk(Reg) /\ UNCHANGED <<i2c_fd, pc>>
     \/ SendFails(Reg) /\ i2c_fd' = "closed" /\ pc' = "reopen"

(* Slip: the device is closed and not opened again. *)
idle_open_forgotten ==
  /\ pc = "reopen"
  /\ pc' = "resend"
  /\ UNCHANGED <<all_cmd, i2c_fd, bus, base, greeting, faults, trouble>>

idle_open ==
  /\ pc = "reopen"
  /\ OpenOk \/ OpenFails
  /\ pc' = "resend"
  /\ UNCHANGED <<all_cmd, greeting>>

(* The second write is not looked at. *)
idle_resend ==
  /\ pc = "resend"
  /\ UNCHANGED all_cmd
  /\ SendOk(Reg) \/ SendFails(Reg)
  /\ pc' = "up"
  /\ UNCHANGED i2c_fd

x6200_control_idle == idle_send \/ idle_open \/ idle_resend

-----------------------------------------------------------------------------
(* BASE, the bus and the operating system                                   *)

(* BASE restarts and forgets its registers. *)
BaseReset ==
  /\ Fault
  /\ dev' = PowerOn /\ ready' = FALSE
  /\ trouble' = TRUE /\ restarted' = TRUE
  /\ UNCHANGED <<process, hosted, bus>>

BaseBoots ==
  /\ ~ ready
  /\ ready' = TRUE
  /\ UNCHANGED <<process, dev, greeting, bus, faults, trouble>>

Stick ==
  /\ Fault
  /\ Works /\ pc \in StickAt
  /\ bus' = "stuck"
  /\ UNCHANGED <<process, base, greeting, trouble>>

(* The kernel closes the descriptor; a new process starts with a zeroed     *)
(* shadow.                                                                  *)
Crash ==
  /\ Fault
  /\ pc # "down"
  /\ pc' = "down" /\ i2c_fd' = "closed" /\ all_cmd' = Zeros
  /\ trouble' = TRUE
  /\ UNCHANGED <<base, greeting, bus>>

-----------------------------------------------------------------------------

Application ==
  \/ \E cmd \in Reg, arg \in Value : x6200_control_cmd(cmd, arg)
  \/ x6200_control_host_cmd
  \/ x6200_control_idle

Next ==
  \/ InitStep \/ Application
  \/ BaseReset \/ BaseBoots \/ Stick \/ Crash

Spec == Init /\ [][Next]_vars

(* The application starts again after a crash or a failed start and calls   *)
(* x6200_control_idle again and again (its period would be REFRASH_TIMEOUT, *)
(* low/control.c:22); BASE finishes starting.  No command need be given.    *)
Fairness ==
  /\ WF_vars(InitStep)
  /\ WF_vars(x6200_control_idle)
  /\ WF_vars(BaseBoots)

FairSpec == Spec /\ Fairness

-----------------------------------------------------------------------------
(* Refinement: BASE's registers follow the shadow and catch up with it      *)
(* again after any number of faults: failed writes, writes cut short, a     *)
(* stuck or unopenable I2C device, restarts of BASE and of the application. *)
TheMirror == INSTANCE Mirror WITH wanted <- all_cmd, actual <- dev

Follows == TheMirror!SafeSpec
CatchesUp == TheMirror!Spec

(* As long as nothing fails the single-register commands alone keep BASE    *)
(* equal to the shadow; a full write that BASE took whole ends the trouble  *)
(* whatever was lost before.                                                *)
InStep == pc = "up" /\ ~ trouble => dev = all_cmd

(* BASE takes no register from a start of the library before it has taken   *)
(* both host commands from that very start, unless BASE restarted on its    *)
(* own after the start had found it ready (low/control.c:137, 220-228).     *)
(* Nothing an earlier start sent counts.                                    *)
GreetedFirst ==
  [][dev' # dev => {"8003", "8002"} \subseteq hosted \/ restarted']_vars

(* x6200_control_init returns once BASE is there, though it polls without   *)
(* a limit (low/control.c:137).                                             *)
InitReturns == pc = "poll" ~> pc \in {"up", "failed", "down"}

=============================================================================
