------------------------- MODULE RegisterLink_proofs -------------------------
(***************************************************************************)
(* Proofs about RegisterLink, for any number of registers, any values and  *)
(* any number of faults.                                                   *)
(***************************************************************************)
EXTENDS RegisterLink, TLAPS

-----------------------------------------------------------------------------
(* What the transactions do                                                 *)

(* A transfer puts values of the shadow into registers of BASE.             *)
LEMMA TakeType ==
  ASSUME dev \in [Reg -> Value], all_cmd' \in [Reg -> Value],
         NEW part, Take(part)
  PROVE  dev' \in [Reg -> Value]
BY DEF Take

(* A write, good or bad, keeps the types and does nothing to the process.   *)
LEMMA SendType ==
  ASSUME TypeOK, all_cmd' \in [Reg -> Value],
         NEW regs, SendOk(regs) \/ SendFails(regs)
  PROVE  /\ dev' \in [Reg -> Value]
         /\ faults' \in 0 .. MaxFaults
         /\ trouble' \in BOOLEAN
         /\ UNCHANGED <<ready, hosted, restarted, bus>>
<1>1. CASE SendOk(regs)
  <2>1. dev' \in [Reg -> Value]
    BY <1>1, TakeType DEF SendOk, TypeOK
  <2>2. UNCHANGED <<ready, hosted, restarted, bus, faults>> /\ trouble' \in BOOLEAN
    BY <1>1 DEF SendOk, greeting, TypeOK
  <2> QED
    BY <2>1, <2>2 DEF TypeOK
<1>2. CASE SendFails(regs)
  <2>1. dev' \in [Reg -> Value]
    BY <1>2, TakeType DEF SendFails, TypeOK
  <2>2. faults' \in 0 .. MaxFaults
    BY <1>2, FaultAssumption DEF SendFails, Fault, TypeOK
  <2> QED
    BY <1>2, <2>1, <2>2 DEF SendFails, greeting
<1> QED
  BY <1>1, <1>2

(* The number of faults stays within its bound.                             *)
LEMMA FaultType ==
  TypeOK /\ (Fault \/ UNCHANGED faults) => faults' \in 0 .. MaxFaults
BY FaultAssumption DEF TypeOK, Fault

LEMMA ZerosType == Zeros \in [Reg -> Value]
BY RegisterAssumption DEF Zeros

-----------------------------------------------------------------------------
(* Types                                                                    *)

LEMMA InitType == Init => TypeOK
<1> SUFFICES ASSUME Init PROVE TypeOK
  OBVIOUS
<1>1. all_cmd \in [Reg -> Value] /\ dev \in [Reg -> Value]
  BY ZerosType DEF Init
<1>2. faults \in 0 .. MaxFaults
  BY FaultAssumption DEF Init
<1> QED
  BY <1>1, <1>2 DEF Init, TypeOK, Points

LEMMA InitStepType == TypeOK /\ InitStep => TypeOK'
<1> SUFFICES ASSUME TypeOK, InitStep PROVE TypeOK'
  OBVIOUS
<1> USE DEF TypeOK, Points, Goto, base, greeting
<1>1. CASE init_open
  BY <1>1, ZerosType, FaultType DEF init_open, OpenOk, OpenFails
<1>2. CASE init_poll
  BY <1>2, FaultType DEF init_poll, ReadOk, ReadFails, HostFails
<1>3. CASE init_info
  BY <1>3, FaultType DEF init_info, ReadOk, ReadFails, HostFails
<1>4. CASE init_calibration
  BY <1>4, FaultType DEF init_calibration, ReadOk, ReadFails, HostFails
<1>5. CASE init_host_8003
  BY <1>5, FaultType DEF init_host_8003, HostOk, HostFails
<1>6. CASE init_host_8002
  BY <1>6, FaultType DEF init_host_8002, HostOk, HostFails
<1>7. CASE init_push
  <2>1. all_cmd' \in [Reg -> Value]
    BY <1>7, RegisterAssumption DEF init_push
  <2>2. pc' \in Points /\ UNCHANGED i2c_fd
    BY <1>7 DEF init_push
  <2>3. SendOk(Reg) \/ SendFails(Reg)
    BY <1>7 DEF init_push
  <2> QED
    BY <2>1, <2>2, <2>3, SendType
<1> QED
  BY <1>1, <1>2, <1>3, <1>4, <1>5, <1>6, <1>7 DEF InitStep

LEMMA ApplicationType == TypeOK /\ Application => TypeOK'
<1> SUFFICES ASSUME TypeOK, Application PROVE TypeOK'
  OBVIOUS
<1>1. CASE \E cmd \in Reg, arg \in Value : x6200_control_cmd(cmd, arg)
  <2>1. PICK cmd \in Reg, arg \in Value : x6200_control_cmd(cmd, arg)
    BY <1>1
  <2>2. all_cmd' \in [Reg -> Value] /\ UNCHANGED <<i2c_fd, pc>>
    BY <2>1 DEF x6200_control_cmd, TypeOK
  <2>3. SendOk({cmd}) \/ SendFails({cmd})
    BY <2>1 DEF x6200_control_cmd
  <2> QED
    BY <2>2, <2>3, SendType DEF TypeOK
<1>2. CASE x6200_control_host_cmd
  BY <1>2, FaultType
  DEF x6200_control_host_cmd, HostOk, HostFails, process, base, greeting,
      TypeOK, Points
<1>3. CASE idle_send \/ idle_resend
  <2>1. all_cmd' \in [Reg -> Value]
    BY <1>3 DEF idle_send, idle_resend, TypeOK
  <2>2. pc' \in Points /\ i2c_fd' \in {"open", "closed"}
    BY <1>3 DEF idle_send, idle_resend, TypeOK, Points
  <2>3. SendOk(Reg) \/ SendFails(Reg)
    BY <1>3 DEF idle_send, idle_resend
  <2> QED
    BY <2>1, <2>2, <2>3, SendType DEF TypeOK
<1>4. CASE idle_open
  BY <1>4, FaultType
  DEF idle_open, OpenOk, OpenFails, base, greeting, TypeOK, Points
<1> QED
  BY <1>1, <1>2, <1>3, <1>4 DEF Application, x6200_control_idle

LEMMA EnvironmentType ==
  TypeOK /\ (BaseReset \/ BaseBoots \/ Stick \/ Crash) => TypeOK'
<1> SUFFICES ASSUME TypeOK, BaseReset \/ BaseBoots \/ Stick \/ Crash
             PROVE  TypeOK'
  OBVIOUS
<1> USE DEF TypeOK, Points, process, base, greeting
<1>1. CASE BaseReset
  BY <1>1, FaultType, RegisterAssumption DEF BaseReset
<1>2. CASE BaseBoots
  BY <1>2 DEF BaseBoots
<1>3. CASE Stick
  BY <1>3, FaultType DEF Stick
<1>4. CASE Crash
  BY <1>4, FaultType, ZerosType DEF Crash
<1> QED
  BY <1>1, <1>2, <1>3, <1>4

LEMMA StepType == TypeOK /\ [Next]_vars => TypeOK'
<1> SUFFICES ASSUME TypeOK, [Next]_vars PROVE TypeOK'
  OBVIOUS
<1>1. CASE Next
  BY <1>1, InitStepType, ApplicationType, EnvironmentType DEF Next
<1>2. CASE UNCHANGED vars
  BY <1>2 DEF vars, TypeOK
<1> QED
  BY <1>1, <1>2

(* The types of the link's state, whatever fails (low/control.c:36-39).     *)
THEOREM TypeCorrect == Spec => []TypeOK
BY InitType, StepType, PTL DEF Spec

-----------------------------------------------------------------------------
(* BASE equals the shadow while nothing fails                               *)

(* Once a full write has gone through, BASE is there until it restarts, and *)
(* then there is trouble again; so a write that is acknowledged is taken.   *)
InStepInv == TypeOK /\ InStep /\ (~ trouble => ready)

(* A write of the registers that changed, acknowledged.                     *)
LEMMA SendOkInStep ==
  ASSUME TypeOK, ~ trouble => ready /\ dev = all_cmd,
         all_cmd' \in [Reg -> Value],
         NEW regs \in SUBSET Reg,
         \A r \in Reg \ regs : all_cmd'[r] = all_cmd[r],
         SendOk(regs)
  PROVE  ~ trouble' => ready' /\ dev' = all_cmd'
<1> SUFFICES ASSUME ~ trouble' PROVE ready' /\ dev' = all_cmd'
  OBVIOUS
<1>1. ready /\ UNCHANGED ready
  BY DEF SendOk
<1>2. Take(regs)
  BY <1>1 DEF SendOk
<1>3. \A r \in Reg \ regs : dev[r] = all_cmd'[r]
  BY DEF SendOk
<1>4. dev' = all_cmd'
  BY <1>2, <1>3 DEF Take, TypeOK
<1> QED
  BY <1>1, <1>4

(* A full write, acknowledged, whatever was the matter before it.           *)
LEMMA SendAllInStep ==
  ASSUME ~ trouble => ready, all_cmd' \in [Reg -> Value], SendOk(Reg)
  PROVE  ~ trouble' => ready' /\ dev' = all_cmd'
<1> SUFFICES ASSUME ~ trouble' PROVE ready' /\ dev' = all_cmd'
  OBVIOUS
<1>1. ready /\ UNCHANGED ready
  BY DEF SendOk
<1>2. Take(Reg)
  BY <1>1 DEF SendOk
<1> QED
  BY <1>1, <1>2 DEF Take

LEMMA InStepStep == InStepInv /\ [Next]_vars => InStepInv'
<1> SUFFICES ASSUME InStepInv, [Next]_vars PROVE InStepInv'
  OBVIOUS
<1>0. TypeOK /\ TypeOK' /\ (~ trouble => ready)
  BY StepType DEF InStepInv
<1>a. all_cmd' \in [Reg -> Value]
  BY <1>0 DEF TypeOK
<1>b. pc = "up" /\ ~ trouble => dev = all_cmd
  BY DEF InStepInv, InStep
<1> SUFFICES ASSUME ~ trouble'
             PROVE  ready' /\ (pc' = "up" => dev' = all_cmd')
  BY <1>0 DEF InStepInv, InStep
<1>1. CASE InitStep
  <2>1. CASE init_push
    <3>1. SendOk(Reg)
      BY <2>1 DEF init_push, SendFails
    <3> QED
      BY <1>0, <1>a, <3>1, SendAllInStep
  <2>2. CASE init_open
    BY <2>2, <1>0 DEF init_open, OpenOk, OpenFails, base
  <2>3. CASE init_poll \/ init_info \/ init_calibration
    BY <2>3, <1>0
    DEF init_poll, init_info, init_calibration, Goto, ReadOk, ReadFails, HostFails,
        base
  <2>4. CASE init_host_8003 \/ init_host_8002
    BY <2>4, <1>0
    DEF init_host_8003, init_host_8002, Goto, HostOk, HostFails, base
  <2> QED
    BY <1>1, <2>1, <2>2, <2>3, <2>4 DEF InitStep
<1>2. CASE \E cmd \in Reg, arg \in Value : x6200_control_cmd(cmd, arg)
  <2>1. PICK cmd \in Reg, arg \in Value : x6200_control_cmd(cmd, arg)
    BY <1>2
  <2>2. SendOk({cmd})
    BY <2>1 DEF x6200_control_cmd, SendFails
  <2>3. \A r \in Reg \ {cmd} : all_cmd'[r] = all_cmd[r]
    BY <2>1, <1>0 DEF x6200_control_cmd, TypeOK
  <2>4. ~ trouble => ready /\ dev = all_cmd
    BY <2>1, <1>0, <1>b DEF x6200_control_cmd
  <2>5. {cmd} \in SUBSET Reg
    OBVIOUS
  <2> HIDE DEF Reg
  <2> QED
    BY <1>0, <1>a, <2>2, <2>3, <2>4, <2>5, SendOkInStep
<1>3. CASE x6200_control_host_cmd
  BY <1>3, <1>0, <1>b
  DEF x6200_control_host_cmd, HostOk, HostFails, process, base
<1>4. CASE idle_send \/ idle_resend
  <2>1. SendOk(Reg)
    BY <1>4 DEF idle_send, idle_resend, SendFails
  <2> QED
    BY <1>0, <1>a, <2>1, SendAllInStep
<1>5. CASE idle_open
  BY <1>5, <1>0 DEF idle_open, OpenOk, OpenFails, base
<1>6. CASE BaseReset \/ BaseBoots \/ Stick \/ Crash
  BY <1>6, <1>0, <1>b DEF BaseReset, BaseBoots, Stick, Crash, process, base
<1>7. CASE UNCHANGED vars
  BY <1>7, <1>0, <1>b DEF vars
<1> QED
  BY <1>1, <1>2, <1>3, <1>4, <1>5, <1>6, <1>7
  DEF Next, Application, x6200_control_idle

(* InStep for every run: the commands of one register keep BASE equal to    *)
(* the shadow from one full write to the next failure                       *)
(* (x6200_control_cmd, low/control.c:445-456).                              *)
THEOREM StaysInStep == Spec => []InStep
<1>1. Init => InStepInv
  BY InitType DEF Init, InStepInv, InStep
<1>2. InStepInv => InStep
  BY DEF InStepInv
<1> QED
  BY <1>1, <1>2, InStepStep, PTL DEF Spec

-----------------------------------------------------------------------------
(* The host commands come first                                             *)

Greeted == {"8003", "8002"} \subseteq hosted

(* Where the process is says what this start has told BASE, as long as BASE *)
(* has not restarted: it was ready when polled, and took what it was sent.  *)
GreetInv ==
  /\ TypeOK
  /\ ~ restarted =>
       /\ pc \notin {"down", "failed", "poll"} => ready
       /\ pc = "host_8002" => "8003" \in hosted
       /\ pc \in {"push", "up", "reopen", "resend"} => Greeted

LEMMA GreetStep == GreetInv /\ [Next]_vars => GreetInv'
<1> SUFFICES ASSUME GreetInv, [Next]_vars PROVE GreetInv'
  OBVIOUS
<1>0. TypeOK'
  BY StepType DEF GreetInv
<1> USE <1>0 DEF GreetInv, Greeted, base, greeting
<1>1. CASE init_open
  BY <1>1 DEF init_open, OpenOk, OpenFails
<1>2. CASE init_poll
  BY <1>2 DEF init_poll, Goto, ReadOk, ReadFails, HostFails
<1>3. CASE init_info \/ init_calibration
  BY <1>3 DEF init_info, init_calibration, Goto, ReadOk, ReadFails, HostFails
<1>4. CASE init_host_8003
  BY <1>4 DEF init_host_8003, Goto, HostOk, HostFails
<1>5. CASE init_host_8002
  BY <1>5 DEF init_host_8002, Goto, HostOk, HostFails
<1>6. CASE init_push
  BY <1>6 DEF init_push, SendOk, SendFails
<1>7. CASE \E cmd \in Reg, arg \in Value : x6200_control_cmd(cmd, arg)
  <2>1. pc = "up" /\ UNCHANGED <<pc, ready, hosted, restarted>>
    BY <1>7 DEF x6200_control_cmd, SendOk, SendFails
  <2> QED
    BY <2>1
<1>8. CASE x6200_control_host_cmd
  BY <1>8 DEF x6200_control_host_cmd, HostOk, HostFails, process
<1>9. CASE x6200_control_idle
  BY <1>9
  DEF x6200_control_idle, idle_send, idle_open, idle_resend, SendOk, SendFails,
      OpenOk, OpenFails
<1>10. CASE BaseReset \/ BaseBoots \/ Stick \/ Crash
  BY <1>10 DEF BaseReset, BaseBoots, Stick, Crash, process
<1>11. CASE UNCHANGED vars
  BY <1>11 DEF vars
<1> QED
  BY <1>1, <1>2, <1>3, <1>4, <1>5, <1>6, <1>7, <1>8, <1>9, <1>10, <1>11
  DEF Next, InitStep, Application

LEMMA GreetAction ==
  GreetInv /\ [Next]_vars => (dev' # dev => Greeted \/ restarted')
<1> SUFFICES ASSUME GreetInv, [Next]_vars, dev' # dev
             PROVE  Greeted \/ restarted'
  OBVIOUS
<1>1. CASE InitStep
  <2>1. init_push
    BY <1>1
    DEF InitStep, init_open, OpenOk, OpenFails, init_poll, init_info,
        init_calibration, init_host_8003, init_host_8002, ReadOk, ReadFails,
        HostOk, HostFails, base
  <2> QED
    BY <2>1 DEF init_push, SendOk, SendFails, greeting, GreetInv
<1>2. CASE Application
  <2>1. pc \in {"up", "reopen", "resend"}
    BY <1>2
    DEF Application, x6200_control_cmd, x6200_control_host_cmd,
        x6200_control_idle, idle_send, idle_open, idle_resend
  <2>2. UNCHANGED restarted
    BY <1>2
    DEF Application, x6200_control_cmd, x6200_control_host_cmd,
        x6200_control_idle, idle_send, idle_open, idle_resend, SendOk,
        SendFails, HostOk, HostFails, OpenOk, OpenFails, greeting
  <2> QED
    BY <2>1, <2>2 DEF GreetInv
<1>3. CASE BaseReset
  BY <1>3 DEF BaseReset
<1>4. CASE BaseBoots \/ Stick \/ Crash \/ UNCHANGED vars
  BY <1>4 DEF BaseBoots, Stick, Crash, base, vars
<1> QED
  BY <1>1, <1>2, <1>3, <1>4 DEF Next

(* BASE takes registers from a start of the library only after both host    *)
(* commands of that start, through failed starts, crashes and any other     *)
(* faults, or after it has restarted meanwhile (low/control.c:220-228).     *)
THEOREM GreetingComesFirst == Spec => GreetedFirst
<1>1. Init => GreetInv
  BY InitType DEF Init, GreetInv
<1>2. GreetInv /\ [Next]_vars
        => [dev' # dev => {"8003", "8002"} \subseteq hosted \/ restarted']_vars
  BY GreetAction DEF Greeted
<1> QED
  BY <1>1, <1>2, GreetStep, PTL DEF Spec, GreetedFirst

-----------------------------------------------------------------------------
(* Refinement                                                               *)

(* A write moves registers of BASE to their values in the shadow only.      *)
LEMMA SendFollows ==
  ASSUME TypeOK, NEW regs \in SUBSET Reg, SendOk(regs) \/ SendFails(regs)
  PROVE  \E part \in SUBSET regs :
           dev' = [r \in Reg |-> IF r \in part THEN all_cmd'[r] ELSE dev[r]]
<1>1. CASE UNCHANGED dev
  <2>1. dev' = [r \in Reg |-> IF r \in {} THEN all_cmd'[r] ELSE dev[r]]
    BY <1>1 DEF TypeOK
  <2>2. {} \in SUBSET regs
    OBVIOUS
  <2> QED
    BY <2>1, <2>2
<1>2. CASE \E part \in SUBSET regs : Take(part)
  BY <1>2 DEF Take
<1>3. UNCHANGED dev \/ \E part \in SUBSET regs : Take(part)
  <2>1. regs \in SUBSET regs
    OBVIOUS
  <2>2. SendOk(regs) => UNCHANGED dev \/ Take(regs)
    BY DEF SendOk
  <2>3. SendFails(regs) => UNCHANGED dev \/ \E part \in Prefixes(regs) : Take(part)
    BY DEF SendFails
  <2>4. Prefixes(regs) \subseteq SUBSET regs
    BY DEF Prefixes
  <2> QED
    BY <2>1, <2>2, <2>3, <2>4
<1> QED
  BY <1>1, <1>2, <1>3

LEMMA MirrorStep ==
  TypeOK /\ [Next]_vars => [TheMirror!Next]_(TheMirror!vars)
<1> SUFFICES ASSUME TypeOK, [Next]_vars
             PROVE  TheMirror!Next \/ UNCHANGED <<all_cmd, dev>>
  BY DEF TheMirror!vars
<1>0. Reg \in SUBSET Reg
  OBVIOUS
<1>1. CASE init_open
  BY <1>1 DEF init_open, OpenOk, OpenFails, base, TheMirror!Next, TheMirror!Forget
<1>2. CASE init_poll \/ init_info \/ init_calibration \/ init_host_8003 \/ init_host_8002
  BY <1>2
  DEF init_poll, init_info, init_calibration, init_host_8003, init_host_8002,
      Goto, ReadOk, ReadFails, HostOk, HostFails, base
<1>3. CASE init_push
  <2>1. SendOk(Reg) \/ SendFails(Reg)
    BY <1>3 DEF init_push
  <2>2. TheMirror!Follow
    BY <1>0, <2>1, SendFollows DEF TheMirror!Follow
  <2> QED
    BY <1>3, <2>2 DEF init_push, TheMirror!Next, TheMirror!Configure
<1>4. CASE \E cmd \in Reg, arg \in Value : x6200_control_cmd(cmd, arg)
  <2>1. PICK cmd \in Reg, arg \in Value : x6200_control_cmd(cmd, arg)
    BY <1>4
  <2>2. all_cmd' = [all_cmd EXCEPT ![cmd] = arg]
    BY <2>1 DEF x6200_control_cmd
  <2>3. SendOk({cmd}) \/ SendFails({cmd})
    BY <2>1 DEF x6200_control_cmd
  <2>4. {cmd} \in SUBSET Reg
    OBVIOUS
  <2>5. PICK part \in SUBSET {cmd} :
          dev' = [r \in Reg |-> IF r \in part THEN all_cmd'[r] ELSE dev[r]]
    BY <2>3, <2>4, SendFollows
  <2>6. dev \in [Reg -> Value] /\ all_cmd \in [Reg -> Value]
    BY DEF TypeOK
  <2>7. CASE part = {}
    <3>1. dev' = dev
      BY <2>5, <2>6, <2>7
    <3> QED
      BY <2>2, <3>1 DEF TheMirror!Next, TheMirror!Ask
  <2>8. CASE part = {cmd}
    <3>1. all_cmd'[cmd] = arg
      BY <2>2, <2>6
    <3>2. dev' = [dev EXCEPT ![cmd] = arg]
      BY <2>5, <2>6, <2>8, <3>1
    <3> QED
      BY <2>2, <3>2 DEF TheMirror!Next, TheMirror!Ask
  <2> QED
    BY <2>5, <2>7, <2>8
<1>5. CASE x6200_control_host_cmd
  BY <1>5 DEF x6200_control_host_cmd, HostOk, HostFails, process, base
<1>6. CASE idle_send \/ idle_resend
  <2>1. SendOk(Reg) \/ SendFails(Reg)
    BY <1>6 DEF idle_send, idle_resend
  <2>2. TheMirror!Follow
    BY <1>0, <2>1, SendFollows DEF TheMirror!Follow
  <2> QED
    BY <1>6, <2>2 DEF idle_send, idle_resend, TheMirror!Next, TheMirror!Refresh
<1>7. CASE idle_open
  BY <1>7 DEF idle_open, OpenOk, OpenFails, base
<1>8. CASE BaseReset
  BY <1>8 DEF BaseReset, process, TheMirror!Next, TheMirror!BaseRestarts
<1>9. CASE BaseBoots \/ Stick
  BY <1>9 DEF BaseBoots, Stick, process, base
<1>10. CASE Crash
  BY <1>10 DEF Crash, base, TheMirror!Next, TheMirror!Forget
<1>11. CASE UNCHANGED vars
  BY <1>11 DEF vars
<1> QED
  BY <1>1, <1>2, <1>3, <1>4, <1>5, <1>6, <1>7, <1>8, <1>9, <1>10, <1>11
  DEF Next, InitStep, Application, x6200_control_idle

(* The link implements the mirror's safety part: no step moves a register   *)
(* of BASE anywhere but to the value the shadow has at that moment, short   *)
(* of a restart of BASE.                                                    *)
THEOREM LinkImplementsMirror == Spec => Follows
<1>1. Init => TheMirror!Init
  BY DEF Init, TheMirror!Init
<1> QED
  BY <1>1, MirrorStep, TypeCorrect, PTL DEF Spec, Follows, TheMirror!SafeSpec

=============================================================================
