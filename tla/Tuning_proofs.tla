---------------------------- MODULE Tuning_proofs ---------------------------
(***************************************************************************)
(* Proofs about module Tuning: the safety of the tuner example, for any    *)
(* number of packets on their way.                                         *)
(***************************************************************************)
EXTENDS Tuning, SequenceTheorems, TLAPS

-----------------------------------------------------------------------------
(* What the packets tell                                                    *)

(* A packet with tx was sent by a tuner at work, and one without that came  *)
(* later by one that had finished.                                          *)
PacketsTell ==
  /\ \A i \in DOMAIN flow : flow[i] => tuner # "off"
  /\ \A i, j \in DOMAIN flow : i < j /\ flow[i] /\ ~ flow[j] => tuner = "over"

(* Once the program has read a packet with tx, the first without is one     *)
(* from after the tuning.                                                   *)
RunTells ==
  atu = "RUN" =>
    /\ tuner # "off"
    /\ pc = "read" => \A i \in DOMAIN flow : ~ flow[i] => tuner = "over"

(* Where the program is says how far BASE can be.                           *)
PlaceTells ==
  /\ pc \in {"control_init", "flow_init", "gpio_init", "bit on", "host 8004"} =>
       atu = "IDLE" /\ tuner = "off"
  /\ pc = "read" /\ atu = "IDLE" => tuner = "off"
  /\ pc = "read" => atu \in {"IDLE", "START", "RUN"}
  /\ pc = "light on" => atu = "IDLE"
  /\ pc \in {"bit off", "light off"} => atu = "RUN"
  /\ pc \in {"bit off", "light off", "return 0"} => tuner = "over"
  /\ pc \in {"light off", "return 0"} => (asked => "bit off" \in lost)

(* The line of the light can be used from the end of x6200_gpio_init on.    *)
LightTells ==
  /\ pc \in {"read", "bit on", "host 8004", "light on", "bit off", "light off",
             "return 0"} => handle[light] = "held"
  /\ pc = "return 0" => level[light] = 0

TuningInv == TuningTypeOK /\ PacketsTell /\ RunTells /\ PlaceTells /\ LightTells

-----------------------------------------------------------------------------
(* The queue and the lines                                                  *)

LEMMA TailShifts ==
  ASSUME NEW s \in Seq(BOOLEAN), Len(s) >= 2
  PROVE  /\ Head(s) \in BOOLEAN /\ Head(s) = s[1] /\ 1 \in DOMAIN s
         /\ Tail(s) \in Seq(BOOLEAN) /\ Len(Tail(s)) = Len(s) - 1
         /\ \A i \in DOMAIN Tail(s) :
              i \in Nat /\ i + 1 \in DOMAIN s /\ Tail(s)[i] = s[i + 1]
<1>1. s # <<>> /\ Len(s) \in Nat /\ DOMAIN s = 1 .. Len(s)
  BY LenProperties
<1>2. /\ Head(s) \in BOOLEAN /\ Tail(s) \in Seq(BOOLEAN)
      /\ Len(Tail(s)) = Len(s) - 1
      /\ \A i \in 1 .. Len(Tail(s)) : Tail(s)[i] = s[i + 1]
  BY <1>1, HeadTailProperties
<1>3. DOMAIN Tail(s) = 1 .. Len(s) - 1
  BY <1>1, <1>2, LenProperties
<1>4. Head(s) = s[1]
  OBVIOUS
<1> QED
  BY <1>1, <1>2, <1>3, <1>4

LEMMA NoPackets ==
  <<>> \in Seq(BOOLEAN) /\ Len(<<>>) = 0 /\ DOMAIN <<>> = {}
<1>1. <<>> \in Seq(BOOLEAN) /\ Len(<<>>) = 0
  BY EmptySeq
<1>2. DOMAIN <<>> = 1 .. 0
  BY <1>1, LenProperties
<1> QED
  BY <1>1, <1>2

LEMMA AppendAddsOne ==
  ASSUME NEW s \in Seq(BOOLEAN), NEW b \in BOOLEAN
  PROVE  /\ Append(s, b) \in Seq(BOOLEAN) /\ Len(Append(s, b)) = Len(s) + 1
         /\ \A i \in DOMAIN Append(s, b) :
              \/ i \in DOMAIN s /\ Append(s, b)[i] = s[i]
              \/ i = Len(s) + 1 /\ Append(s, b)[i] = b
         /\ DOMAIN s = 1 .. Len(s) /\ Len(s) \in Nat
<1>1. /\ Append(s, b) \in Seq(BOOLEAN) /\ Len(Append(s, b)) = Len(s) + 1
      /\ \A i \in 1 .. Len(s) : Append(s, b)[i] = s[i]
      /\ Append(s, b)[Len(s) + 1] = b
  BY AppendProperties
<1>2. DOMAIN s = 1 .. Len(s) /\ Len(s) \in Nat
  BY LenProperties
<1>3. DOMAIN Append(s, b) = 1 .. Len(s) + 1
  BY <1>1, LenProperties
<1> QED
  BY <1>1, <1>2, <1>3

LEMMA GpioInitEnds ==
  ASSUME GpioTypeOK, NEW returns \in BOOLEAN, x6200_gpio_init(returns)
  PROVE  GpioTypeOK' /\ (returns => handle'[light] = "held")
<1>1. PICK bad \in Parts \cup {8}, how \in {"null", "found"} :
        /\ returns = (bad = 8)
        /\ handle' = [p \in Parts |->
                        IF p = bad THEN how ELSE IF p < bad THEN "held" ELSE handle[p]]
        /\ level' = [l \in Lines |-> IF l < bad THEN FirstLevel(l) ELSE level[l]]
  BY DEF x6200_gpio_init
<1>2. handle' \in [Parts -> {"null", "found", "held"}]
  BY <1>1 DEF GpioTypeOK
<1>3. level' \in [Lines -> {0, 1}]
  BY <1>1 DEF GpioTypeOK, FirstLevel
<1>4. light = 6 /\ light \in Parts
  BY DEF light, Parts, Lines
<1>5. ASSUME returns PROVE handle'[light] = "held"
  <2>1. bad = 8
    BY <1>1, <1>5
  <2> QED
    BY <1>1, <1>4, <2>1
<1> QED
  BY <1>2, <1>3, <1>5 DEF GpioTypeOK

LEMMA GpioSets ==
  ASSUME GpioTypeOK, NEW value \in {0, 1}, x6200_gpio_set(light, value)
  PROVE  /\ GpioTypeOK' /\ handle' = handle
         /\ handle[light] = "held" => level'[light] = value
<1>1. light \in Lines
  BY DEF light, Lines
<1> QED
  BY <1>1 DEF x6200_gpio_set, GpioTypeOK

-----------------------------------------------------------------------------
(* The invariant is inductive                                               *)

LEMMA InitTuning == Init => TuningInv
<1> SUFFICES ASSUME Init PROVE TuningInv
  OBVIOUS
<1>1. TuningTypeOK
  <2>1. flow \in Seq(BOOLEAN) /\ Len(flow) <= MaxPackets
    BY PacketsAssumption, NoPackets DEF Init, PacketsAssumption
  <2> QED
    BY <2>1 DEF Init, GpioInit, TuningTypeOK, GpioTypeOK
<1>2. PacketsTell /\ RunTells /\ PlaceTells /\ LightTells
  BY NoPackets DEF Init, PacketsTell, RunTells, PlaceTells, LightTells
<1> QED
  BY <1>1, <1>2 DEF TuningInv

LEMMA StartKeeps ==
  ASSUME TuningInv, Start
  PROVE  TuningInv'
<1> USE DEF TuningInv
<1>1. CASE control_init
  <2>1. TuningTypeOK'
    BY <1>1 DEF control_init, Goto, TuningTypeOK, GpioTypeOK, gpioVars
  <2>2. PacketsTell' /\ RunTells' /\ PlaceTells' /\ LightTells'
    BY <1>1 DEF control_init, Goto, PacketsTell, RunTells, PlaceTells, LightTells
  <2> QED
    BY <2>1, <2>2
<1>2. CASE flow_init
  <2>1. TuningTypeOK'
    <3>1. flow' \in Seq(BOOLEAN) /\ Len(flow') <= MaxPackets
      <4>1. flow' = <<>>
        BY <1>2 DEF flow_init
      <4>2. 0 <= MaxPackets
        BY PacketsAssumption DEF PacketsAssumption
      <4> QED
        BY <4>1, <4>2, NoPackets
    <3>2. /\ UNCHANGED <<handle, level, atu, asked, tuner, shown, lost>>
          /\ pc' \in {"gpio_init", "return 1"}
      BY <1>2 DEF flow_init, Goto, gpioVars, base
    <3> QED
      BY <3>1, <3>2 DEF TuningTypeOK, GpioTypeOK
  <2>2. PacketsTell' /\ RunTells' /\ PlaceTells' /\ LightTells'
    BY <1>2, NoPackets DEF flow_init, Goto, base, PacketsTell, RunTells, PlaceTells, LightTells
  <2> QED
    BY <2>1, <2>2
<1>3. CASE gpio_init
  <2>1. PICK returns \in BOOLEAN :
          x6200_gpio_init(returns) /\ Goto(IF returns THEN "read" ELSE "return 1")
    BY <1>3 DEF gpio_init
  <2>2. GpioTypeOK' /\ (returns => handle'[light] = "held")
    BY <2>1, GpioInitEnds DEF TuningTypeOK
  <2>3. /\ pc = "gpio_init" /\ pc' \in {"read", "return 1"} /\ (pc' = "read" => returns)
        /\ UNCHANGED <<atu, asked, tuner, flow, shown, lost>>
    BY <1>3, <2>1 DEF gpio_init, Goto, base
  <2>4. TuningTypeOK'
    BY <2>2, <2>3 DEF TuningTypeOK
  <2>5. PacketsTell' /\ RunTells' /\ PlaceTells' /\ LightTells'
    BY <2>2, <2>3 DEF PacketsTell, RunTells, PlaceTells, LightTells
  <2> QED
    BY <2>4, <2>5
<1> QED
  BY <1>1, <1>2, <1>3 DEF Start

LEMMA PacketComes ==
  ASSUME TuningInv, NEW tx \in BOOLEAN, Packet(tx)
  PROVE  /\ flow' \in Seq(BOOLEAN) /\ Len(flow') <= MaxPackets
         /\ PacketsTell' /\ GpioTypeOK'
         /\ tx => tuner # "off"
         /\ tx => \A i \in DOMAIN flow' : ~ flow'[i] => tuner = "over"
         /\ \A i \in DOMAIN flow' : \E j \in DOMAIN flow : flow'[i] = flow[j]
         /\ \E j \in DOMAIN flow : tx = flow[j]
<1>1. /\ flow \in Seq(BOOLEAN) /\ Len(flow) <= MaxPackets /\ Len(flow) >= 2
      /\ tx = Head(flow) /\ flow' = Tail(flow) /\ PacketsTell
      /\ Len(flow) \in Nat /\ MaxPackets \in Nat
      /\ UNCHANGED <<handle, level, tuner>>
  BY PacketsAssumption, LenProperties
  DEF TuningInv, TuningTypeOK, Packet, gpioVars, base, PacketsAssumption
<1>2. /\ tx = flow[1] /\ 1 \in DOMAIN flow
      /\ flow' \in Seq(BOOLEAN) /\ Len(flow') = Len(flow) - 1
      /\ \A i \in DOMAIN flow' :
           i \in Nat /\ i + 1 \in DOMAIN flow /\ flow'[i] = flow[i + 1]
  BY <1>1, TailShifts
<1>3. DOMAIN flow = 1 .. Len(flow) /\ DOMAIN flow' = 1 .. Len(flow')
  BY <1>1, <1>2, LenProperties
<1>4. PacketsTell'
  BY <1>1, <1>2, <1>3 DEF PacketsTell
<1>5. tx => tuner # "off"
  BY <1>1, <1>2 DEF PacketsTell
<1>6. tx => \A i \in DOMAIN flow' : ~ flow'[i] => tuner = "over"
  <2> SUFFICES ASSUME tx, NEW i \in DOMAIN flow', ~ flow'[i]
               PROVE  tuner = "over"
    OBVIOUS
  <2>1. i + 1 \in DOMAIN flow /\ flow[1] /\ ~ flow[i + 1] /\ 1 < i + 1
    <3>1. i \in Nat /\ i + 1 \in DOMAIN flow /\ flow'[i] = flow[i + 1]
      BY <1>2
    <3>2. i # 0
      BY <1>3
    <3> QED
      BY <1>2, <3>1, <3>2
  <2> QED
    BY <1>1, <1>2, <2>1 DEF PacketsTell
<1>7. GpioTypeOK'
  BY <1>1 DEF TuningInv, TuningTypeOK, GpioTypeOK
<1> QED
  BY <1>1, <1>2, <1>4, <1>5, <1>6, <1>7

LEMMA LoopKeeps ==
  ASSUME TuningInv, Loop
  PROVE  TuningInv'
<1>1. PICK tx \in BOOLEAN : Packet(tx)
  BY DEF Loop, read_idle, read_start, read_run
<1>2. /\ flow' \in Seq(BOOLEAN) /\ Len(flow') <= MaxPackets
      /\ PacketsTell' /\ GpioTypeOK'
      /\ tx => tuner # "off"
      /\ tx => \A i \in DOMAIN flow' : ~ flow'[i] => tuner = "over"
      /\ \A i \in DOMAIN flow' : \E j \in DOMAIN flow : flow'[i] = flow[j]
      /\ \E j \in DOMAIN flow : tx = flow[j]
  BY <1>1, PacketComes
<1>3. pc = "read" /\ tx = Head(flow) /\ UNCHANGED <<handle, level, asked, tuner, shown, lost>>
  BY <1>1 DEF Packet, gpioVars, base
<1>4. \/ atu = "IDLE" /\ pc' = "bit on" /\ UNCHANGED atu
      \/ atu = "START" /\ atu' = (IF tx THEN "RUN" ELSE "START") /\ UNCHANGED pc
      \/ atu = "RUN" /\ pc' = (IF tx THEN "read" ELSE "bit off") /\ UNCHANGED atu
  BY <1>3 DEF Loop, read_idle, read_start, read_run, Packet, Goto
<1>5. TuningTypeOK'
  BY <1>2, <1>3, <1>4 DEF TuningInv, TuningTypeOK
<1>6. RunTells'
  BY <1>2, <1>3, <1>4 DEF TuningInv, RunTells
<1>7. PlaceTells'
  BY <1>2, <1>3, <1>4 DEF TuningInv, PlaceTells, RunTells
<1>8. LightTells'
  BY <1>3, <1>4 DEF TuningInv, LightTells
<1> QED
  BY <1>2, <1>5, <1>6, <1>7, <1>8 DEF TuningInv

LEMMA SwitchKeeps ==
  ASSUME TuningInv, Switch
  PROVE  TuningInv'
<1> USE DEF TuningInv
<1> DEFINE Same == UNCHANGED <<handle, level, flow, shown>>
<1>1. CASE bit_on
  <2>1. /\ pc = "bit on" /\ pc' = "host 8004" /\ Same /\ UNCHANGED <<atu, tuner>>
        /\ asked' \in {TRUE, asked} /\ lost' \in {lost, lost \cup {"bit on"}}
    BY <1>1 DEF bit_on, Command, Goto, gpioVars, base
  <2>2. TuningTypeOK'
    BY <2>1 DEF TuningTypeOK, GpioTypeOK
  <2>3. PacketsTell' /\ RunTells' /\ PlaceTells' /\ LightTells'
    BY <2>1 DEF PacketsTell, RunTells, PlaceTells, LightTells
  <2> QED
    BY <2>2, <2>3
<1>2. CASE host_8004
  <2>1. /\ pc = "host 8004" /\ pc' = "light on" /\ Same /\ UNCHANGED <<atu, asked>>
        /\ tuner' \in {"tuning", tuner} /\ lost' \in {lost, lost \cup {"host 8004"}}
    BY <1>2 DEF host_8004, Command, Goto, gpioVars, base
  <2>2. TuningTypeOK'
    BY <2>1 DEF TuningTypeOK, GpioTypeOK
  <2>3. PacketsTell' /\ RunTells' /\ PlaceTells' /\ LightTells'
    BY <2>1 DEF PacketsTell, RunTells, PlaceTells, LightTells
  <2> QED
    BY <2>2, <2>3
<1>3. CASE light_on
  <2>1. GpioTypeOK' /\ handle' = handle
    BY <1>3, GpioSets DEF light_on, TuningTypeOK
  <2>2. /\ pc = "light on" /\ pc' = "read" /\ atu' = "START"
        /\ UNCHANGED <<asked, tuner, flow, shown, lost>>
    BY <1>3 DEF light_on, base
  <2>3. TuningTypeOK'
    BY <2>1, <2>2 DEF TuningTypeOK
  <2>4. PacketsTell' /\ RunTells' /\ PlaceTells' /\ LightTells'
    BY <2>1, <2>2 DEF PacketsTell, RunTells, PlaceTells, LightTells
  <2> QED
    BY <2>3, <2>4
<1>4. CASE bit_off
  <2>1. /\ pc = "bit off" /\ pc' = "light off" /\ Same /\ UNCHANGED <<atu, tuner>>
        /\ \/ asked' = FALSE /\ lost' = lost
           \/ asked' = asked /\ lost' = lost \cup {"bit off"}
    BY <1>4 DEF bit_off, Command, Goto, gpioVars, base
  <2>2. TuningTypeOK'
    BY <2>1 DEF TuningTypeOK, GpioTypeOK
  <2>3. PacketsTell' /\ RunTells' /\ LightTells'
    BY <2>1 DEF PacketsTell, RunTells, LightTells
  <2>4. PlaceTells'
    BY <2>1 DEF PlaceTells
  <2> QED
    BY <2>2, <2>3, <2>4
<1>5. CASE light_off
  <2>1. /\ pc = "light off" /\ pc' = "return 0" /\ atu' = "DONE"
        /\ UNCHANGED <<asked, tuner, flow, shown, lost>>
    BY <1>5 DEF light_off, base
  <2>2. GpioTypeOK' /\ handle' = handle /\ level'[light] = 0
    BY <1>5, <2>1, GpioSets DEF light_off, TuningTypeOK, LightTells
  <2>3. TuningTypeOK'
    BY <2>1, <2>2 DEF TuningTypeOK
  <2>4. PacketsTell' /\ RunTells' /\ PlaceTells' /\ LightTells'
    BY <2>1, <2>2 DEF PacketsTell, RunTells, PlaceTells, LightTells
  <2> QED
    BY <2>3, <2>4
<1> QED
  BY <1>1, <1>2, <1>3, <1>4, <1>5 DEF Switch

LEMMA BaseKeeps ==
  ASSUME TuningInv, SendPacket \/ TunerEnds
  PROVE  TuningInv'
<1>1. CASE SendPacket
  <2>1. /\ UNCHANGED <<handle, level, pc, atu, asked, tuner, lost>>
        /\ flow' = Append(flow, tuner = "tuning") /\ Len(flow) < MaxPackets
        /\ shown' \in BOOLEAN
    BY <1>1 DEF SendPacket, gpioVars, base
  <2>2. /\ flow \in Seq(BOOLEAN) /\ (tuner = "tuning") \in BOOLEAN
        /\ MaxPackets \in Nat
    BY PacketsAssumption DEF TuningInv, TuningTypeOK, PacketsAssumption
  <2>3. /\ flow' \in Seq(BOOLEAN) /\ Len(flow') = Len(flow) + 1
        /\ \A i \in DOMAIN flow' :
             \/ i \in DOMAIN flow /\ flow'[i] = flow[i]
             \/ i = Len(flow) + 1 /\ flow'[i] = (tuner = "tuning")
        /\ DOMAIN flow = 1 .. Len(flow) /\ Len(flow) \in Nat
    BY <2>1, <2>2, AppendAddsOne
  <2>4. TuningTypeOK'
    <3>1. flow' \in Seq(BOOLEAN) /\ Len(flow') <= MaxPackets
      BY <2>1, <2>2, <2>3
    <3> QED
      BY <2>1, <3>1 DEF TuningInv, TuningTypeOK, GpioTypeOK
  <2>5. PacketsTell'
    <3>1. PacketsTell /\ tuner \in {"off", "tuning", "over"}
      BY DEF TuningInv, TuningTypeOK
    <3>2. ASSUME NEW i \in DOMAIN flow', flow'[i]
          PROVE  tuner' # "off"
      BY <2>1, <2>3, <3>1, <3>2 DEF PacketsTell
    <3>3. ASSUME NEW i \in DOMAIN flow', NEW j \in DOMAIN flow',
                 i < j, flow'[i], ~ flow'[j]
          PROVE  tuner' = "over"
      <4>1. i \in DOMAIN flow /\ flow[i]
        BY <2>3, <3>3
      <4>2. CASE j \in DOMAIN flow /\ flow'[j] = flow[j]
        BY <2>1, <3>1, <3>3, <4>1, <4>2 DEF PacketsTell
      <4>3. CASE flow'[j] = (tuner = "tuning")
        BY <2>1, <3>1, <3>3, <4>1, <4>3 DEF PacketsTell
      <4> QED
        BY <2>3, <4>2, <4>3
    <3> QED
      BY <3>2, <3>3 DEF PacketsTell
  <2>6. RunTells'
    BY <2>1, <2>3 DEF TuningInv, TuningTypeOK, RunTells
  <2>7. PlaceTells' /\ LightTells'
    BY <2>1 DEF TuningInv, PlaceTells, LightTells
  <2> QED
    BY <2>4, <2>5, <2>6, <2>7 DEF TuningInv
<1>2. CASE TunerEnds
  <2>1. /\ UNCHANGED <<handle, level, pc, atu, asked, flow, shown, lost>>
        /\ tuner = "tuning" /\ tuner' = "over"
    BY <1>2 DEF TunerEnds, gpioVars
  <2>2. TuningTypeOK'
    BY <2>1 DEF TuningInv, TuningTypeOK, GpioTypeOK
  <2>3. PacketsTell' /\ RunTells' /\ PlaceTells' /\ LightTells'
    BY <2>1 DEF TuningInv, PacketsTell, RunTells, PlaceTells, LightTells
  <2> QED
    BY <2>2, <2>3 DEF TuningInv
<1> QED
  BY <1>1, <1>2

LEMMA NextTuning == TuningInv /\ [Next]_vars => TuningInv'
<1> SUFFICES ASSUME TuningInv, [Next]_vars PROVE TuningInv'
  OBVIOUS
<1>1. CASE UNCHANGED vars
  <2>1. UNCHANGED <<handle, level, pc, atu, asked, tuner, flow, shown, lost>>
    BY <1>1 DEF vars, gpioVars, base
  <2>2. TuningTypeOK'
    BY <2>1 DEF TuningInv, TuningTypeOK, GpioTypeOK
  <2>3. PacketsTell' /\ RunTells' /\ PlaceTells' /\ LightTells'
    BY <2>1 DEF TuningInv, PacketsTell, RunTells, PlaceTells, LightTells
  <2> QED
    BY <2>2, <2>3 DEF TuningInv
<1> QED
  BY <1>1, StartKeeps, LoopKeeps, SwitchKeeps, BaseKeeps DEF Next, Program

(* For any number of packets on their way: what the program knows of the    *)
(* tuner from packets that are late, lost or from before it asked.          *)
THEOREM TuningInvariant == Spec => []TuningInv
BY InitTuning, NextTuning, PTL DEF Spec

-----------------------------------------------------------------------------
(* What the example keeps to                                                *)

(* Every variable keeps its type, and the packets their bound.              *)
THEOREM TuningTypes == Spec => []TuningTypeOK
<1>1. TuningInv => TuningTypeOK
  BY DEF TuningInv
<1> QED
  BY <1>1, TuningInvariant, PTL

(* A program that returned 0 leaves a tuner that has finished, the light    *)
(* off, and a bit in BASE only if the command that clears it was lost.      *)
THEOREM ProgramLeavesClean == Spec => []LeavesClean
<1>1. TuningInv => LeavesClean
  BY DEF TuningInv, PlaceTells, LightTells, LeavesClean
<1> QED
  BY <1>1, TuningInvariant, PTL

(* x6200_gpio_set is never given the pointer of a line that was not         *)
(* requested, whichever step of x6200_gpio_init failed.                     *)
THEOREM LightLineHeld == Spec => []LineHeld
<1>1. TuningInv => LineHeld
  BY DEF TuningInv, LightTells, LineHeld
<1> QED
  BY <1>1, TuningInvariant, PTL

LEMMA StepIsOnce ==
  ASSUME TuningInv, [Next]_vars
  PROVE  [Once!Next]_<<asked, tuner>>
<1> USE DEF TuningInv, PlaceTells
<1>1. CASE Start
  BY <1>1 DEF Start, control_init, flow_init, gpio_init, base, Once!Next, Once!Forget
<1>2. CASE Loop
  BY <1>2 DEF Loop, read_idle, read_start, read_run, Packet, base
<1>3. CASE bit_on
  BY <1>3 DEF bit_on, Command, base, Once!Next, Once!Ask
<1>4. CASE host_8004
  BY <1>4 DEF host_8004, Command, base, Once!Next, Once!Begin
<1>5. CASE light_on \/ light_off
  BY <1>5 DEF light_on, light_off, base
<1>6. CASE bit_off
  BY <1>6 DEF bit_off, Command, base, Once!Next, Once!Withdraw
<1>7. CASE SendPacket
  BY <1>7 DEF SendPacket, base
<1>8. CASE TunerEnds
  BY <1>8 DEF TunerEnds, Once!Next, Once!End
<1>9. CASE UNCHANGED vars
  BY <1>9 DEF vars, base
<1> QED
  BY <1>1, <1>2, <1>3, <1>4, <1>5, <1>6, <1>7, <1>8, <1>9
  DEF Next, Program, Switch

(* The program withdraws its request only when the tuner has finished and   *)
(* does not ask again once it has begun, for any number of packets it is    *)
(* behind (examples/atu.c:59-73).                                           *)
THEOREM ImplementsOneTuning == Spec => TunesOnce
<1>1. Init => Once!Init
  BY DEF Init, Once!Init
<1>2. TuningInv /\ [Next]_vars => [Once!Next]_<<asked, tuner>>
  BY StepIsOnce
<1> QED
  BY <1>1, <1>2, TuningInvariant, PTL DEF Spec, TunesOnce, Once!Spec

=============================================================================
