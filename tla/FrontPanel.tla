----------------------------- MODULE FrontPanel -----------------------------
(***************************************************************************)
(* An application that calls the setters of src/src/control.c in any order,*)
(* and what the registers then say of the calls that were made.            *)
(*                                                                         *)
(* asked is what the application asked for last, setting by setting; the   *)
(* setters know nothing of it.                                             *)
(***************************************************************************)
EXTENDS Setters

CONSTANTS
  Offered,    \* the one-field setters the application calls
  Arg(_),     \* the arguments it gives a field
  Passbands,  \* edges it gives the filter setters, records low and high
  VfoCalls,   \* does it change VFOs, modes and filters?
  MaxCalls    \* bound on the number of calls

PlainFields ==
  VfoFields \cup SoundFields \cup OperationFields \cup MonitorFields
    \cup KeyerFields \cup LineFields \cup DspFields \cup AgcFields
    \cup VoxCompFields \cup EqFields \cup TuneFields \cup {SqlEnable, Vm}

Squelches == {Sql, SqlFm}

Fields == PlainFields \cup Squelches \cup {AtuTune, PowerOff, Vfo}

Place(f) == f.at .. f.at + f.width - 1

FilterRegs == {"filter_ssb", "filter_cw", "filter_am", "filter_nfm", "filter_wfm"}

(* The fields lie beside each other, in registers that nothing else uses.   *)
ASSUME LayoutAssumption ==
  /\ \A f \in Fields :
       /\ f.reg \in Reg \ (FilterRegs \cup {"rxfilter", "vfoa_mode", "vfob_mode"})
       /\ f.at \in Bit /\ f.width \in 1 .. 32 /\ Place(f) \subseteq Bit
       /\ f.take \in 1 .. 32
  /\ \A f, g \in Fields :
       f # g /\ f.reg = g.reg => Place(f) \cap Place(g) = {}

(* Arguments are within the range of the setting: what the header says of   *)
(* txpwr (0 - 10.0), and for the setters that do not mask theirs            *)
(* (agc_slope, mic, vfo) values that fit the bits they clear.               *)
ASSUME ArgAssumption ==
  /\ Offered \subseteq PlainFields \cup Squelches
  /\ \A f \in Fields :
       \A v \in Arg(f) : v \subseteq 0 .. f.width - 1 /\ v \subseteq 0 .. f.take - 1

ASSUME PassbandAssumption ==
  Passbands \subseteq [low : SUBSET LowHalf, high : SUBSET (0 .. 14)]

ASSUME CallsAssumption == VfoCalls \in BOOLEAN /\ MaxCalls \in Nat

VARIABLES
  asked,     \* argument of the last call for each field
  passband,  \* edges asked for last
  kept,      \* filter register they were asked for, "none" if they are mixed
  calls

vars == <<code, asked, passband, kept, calls>>

(* What a field of the shadow says. *)
Shown(f) == {i \in 0 .. f.width - 1 : f.at + i \in all_cmd[f.reg]}

PanelInit ==
  /\ Init
  /\ asked = [f \in Fields |-> Shown(f)]
  /\ passband = [low |-> {}, high |-> {}]
  /\ kept = "none"
  /\ calls = 0

-----------------------------------------------------------------------------

Ask(f, v) == asked' = [asked EXCEPT ![f] = v]

Unfiltered == UNCHANGED <<passband, kept>>

CallField(f, v) ==
  /\ f \in PlainFields
  /\ SetField(f, v) /\ Ask(f, v) /\ Unfiltered

CallSquelch(f, v) ==
  /\ f \in Squelches
  /\ SetSquelch(f, v)
  /\ asked' = [asked EXCEPT ![f] = v, ![SqlEnable] = IF v = {} THEN {} ELSE {0}]
  /\ Unfiltered

CallAtuTune(on) == x6200_control_atu_tune(on) /\ Ask(AtuTune, on) /\ Unfiltered

CallPoweroff == x6200_control_poweroff /\ Ask(PowerOff, {0}) /\ Unfiltered

CallVfo(vfo) == x6200_control_vfo_set(vfo) /\ Ask(Vfo, vfo) /\ Unfiltered

CallMode(vfo, mode) ==
  x6200_control_vfo_mode_set(vfo, mode) /\ UNCHANGED asked /\ Unfiltered

Current == FilterReg(vfo_modes[fg_vfo])

CallFilter(p) ==
  /\ x6200_control_rx_filter_set(p.low, p.high)
  /\ passband' = p /\ kept' = Current
  /\ UNCHANGED asked

(* One edge keeps the other one, which is that of another kind of mode if   *)
(* the mode has changed since.                                              *)
CallFilterLow(low) ==
  /\ x6200_control_rx_filter_set_low(low)
  /\ passband' = [passband EXCEPT !.low = low]
  /\ kept' = IF kept = Current THEN kept ELSE "none"
  /\ UNCHANGED asked

CallFilterHigh(high) ==
  /\ x6200_control_rx_filter_set_high(high)
  /\ passband' = [passband EXCEPT !.high = high]
  /\ kept' = IF kept = Current THEN kept ELSE "none"
  /\ UNCHANGED asked

(* The filter that is kept for ssb is not the one asked for any more. *)
CallSsbFilter(p) ==
  /\ x6200_control_ssb_filter_set_set(p.low, p.high)
  /\ kept' = IF kept = "filter_ssb" THEN "none" ELSE kept
  /\ UNCHANGED <<asked, passband>>

VfoCall ==
  \/ \E vfo \in {VfoA, VfoB} : CallVfo(vfo)
  \/ \E vfo \in {VfoA, VfoB}, mode \in Modes : CallMode(vfo, mode)
  \/ \E p \in Passbands :
       \/ CallFilter(p) \/ CallFilterLow(p.low) \/ CallFilterHigh(p.high)
       \/ CallSsbFilter(p)

Call ==
  \/ \E f \in Offered : \E v \in Arg(f) : CallField(f, v) \/ CallSquelch(f, v)
  \/ \E on \in {{}, {0}} : CallAtuTune(on)
  \/ CallPoweroff
  \/ VfoCalls /\ VfoCall

Next == calls < MaxCalls /\ calls' = calls + 1 /\ Call

Spec == PanelInit /\ [][Next]_vars

-----------------------------------------------------------------------------

PanelTypeOK ==
  /\ all_cmd \in [Reg -> Word]
  /\ fg_vfo \in {VfoA, VfoB}
  /\ vfo_modes \in [{VfoA, VfoB} -> Modes]
  /\ tunes \in Nat /\ halting \in BOOLEAN
  /\ asked \in [Fields -> Word]
  /\ passband \in [low : SUBSET LowHalf, high : SUBSET LowHalf]
  /\ kept \in FilterRegs \cup {"none"}
  /\ calls \in 0 .. MaxCalls

(* Every field shows the argument of the last call that was for it: no      *)
(* setter of another field clears it, sets it or writes it to the wrong     *)
(* place, whatever else was called in between.                              *)
LastCallWins == \A f \in Fields : Shown(f) = asked[f]

(* Of the filters: as long as the kind of mode of the VFO in front has not  *)
(* changed since both edges were given, the register in use and the one     *)
(* that is kept for that mode hold exactly the edges given last.            *)
PassbandKept ==
  kept # "none" =>
    \A reg \in {"rxfilter", kept} :
      all_cmd[reg] = Shift(passband.low, 16) \cup passband.high

(* The filter setters choose the register by the library's own copy of VFO  *)
(* and mode (control.c:15-16); it is that of the mode BASE has been told    *)
(* for the VFO that BASE has been told.                                     *)
RightFilter == Current = FilterReg(all_cmd[ModeReg(Shown(Vfo))])

(* "0bb8 - 3000, 012c - 300", "0320 - 800", "1707 - 6000", "2328 - 9000"    *)
(* and "3e80 - 16000" in low/control.c:328-337: the edges that the default  *)
(* filters are meant to have.                                               *)
DefaultFilters ==
  calls = 0 =>
    LET High(reg) == all_cmd[reg] \cap LowHalf
        Low(reg) == {i \in LowHalf : i + 16 \in all_cmd[reg]}
    IN  /\ Low("filter_ssb") = Bits(300) /\ High("filter_ssb") = Bits(3000)
        /\ High("filter_cw") = Bits(800)
        /\ High("filter_am") = Bits(6000)
        /\ High("filter_nfm") = Bits(9000)
        /\ High("filter_wfm") = Bits(16000)

=============================================================================
