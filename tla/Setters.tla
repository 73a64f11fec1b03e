------------------------------ MODULE Setters -------------------------------
(***************************************************************************)
(* The setters of src/src/control.c and the registers they build.          *)
(*                                                                         *)
(* BASE has some forty 32-bit registers and most of them hold several      *)
(* settings.  A setter reads a register from the shadow all_cmd, clears    *)
(* some bits, puts its argument there and gives the result to              *)
(* x6200_control_cmd, which stores it in the shadow whether or not BASE    *)
(* can be reached (module RegisterLink is about that).                     *)
(*                                                                         *)
(* A word is the set of the numbers of its bits that are 1.  An argument   *)
(* is a word, too, as the C type of the parameter holds it: floats after   *)
(* the multiplication by ten, negative numbers in two's complement.        *)
(***************************************************************************)
EXTENDS Integers

Bit == 0 .. 31

Word == SUBSET Bit

(* n as an unsigned word; n < 2^31 *)
Bits(n) == {i \in 0 .. 30 : (n \div 2^i) % 2 = 1}

(* w << at *)
Shift(w, at) == {i \in Bit : i - at \in w}

(* An int16_t converted to uint32_t. *)
SignExtend(w) == IF 15 \in w THEN w \cup 16 .. 31 ELSE w

Reg ==
  { "vfoa_ham_band", "vfoa_freq", "vfoa_att", "vfoa_pre", "vfoa_mode",
    "vfoa_agc", "vfob_ham_band", "vfob_freq", "vfob_att", "vfob_pre",
    "vfob_mode", "vfob_agc", "sple_atue_trx", "vi_vm", "rxvol", "rfg_txpwr",
    "atu_network", "ling_loutg_imicg_hmicg",
    "micsel_pttmode_chge_spmode_auxiqgen_sqlthr", "voxg_voxag_voxdly_voxe",
    "nrthr_nbw_nbthr_nre_nbe", "dnfcnt_dnfwidth_dnfe", "cmplevel_cmpe",
    "agcknee_agcslope_agchang", "agctime", "monilevel_fftdec_fftzoomcw",
    "rxfilter", "reg_32", "ks_km_kimb_cwtone_cwvol_cwtrain", "qsktime_kr",
    "rxeq", "rxeqwfm", "miceq", "biasdrive_biasfinal", "rit", "xit",
    "filter_ssb", "filter_ssb_2", "filter_cw", "filter_am", "filter_nfm",
    "filter_wfm" }

-----------------------------------------------------------------------------
(* Setters of one field.  x6200_control_<name>_set clears width bits of reg *)
(* from bit number at on and puts the low take bits of its argument there.  *)

F(name, reg, at, width, take) ==
  [name |-> name, reg |-> reg, at |-> at, width |-> width, take |-> take]

(* Setters that replace the register. *)
Whole(name, take) == F(name, name, 0, 32, take)

Flag(name, reg, at) == F(name, reg, at, 1, 1)

VfoFields ==
  { Whole("vfoa_freq", 32), Whole("vfob_freq", 32),
    Whole("vfoa_agc", 32), Whole("vfob_agc", 32),
    Whole("vfoa_att", 32), Whole("vfob_att", 32),
    Whole("vfoa_pre", 32), Whole("vfob_pre", 32) }

SoundFields ==
  { Whole("rxvol", 8),
    Flag("record", "sple_atue_trx", 3),
    Flag("spmode", "micsel_pttmode_chge_spmode_auxiqgen_sqlthr", 5) }

OperationFields ==
  { Flag("ptt", "sple_atue_trx", 18),
    Flag("split", "sple_atue_trx", 1),
    Flag("atu", "sple_atue_trx", 12),
    Flag("modem", "sple_atue_trx", 14),
    Flag("swrscan", "sple_atue_trx", 4),
    Flag("calibration", "sple_atue_trx", 20),
    F("rfg", "rfg_txpwr", 0, 8, 8),
    F("txpwr", "rfg_txpwr", 8, 24, 8),
    Flag("charger", "micsel_pttmode_chge_spmode_auxiqgen_sqlthr", 4),
    F("bias_drive", "biasdrive_biasfinal", 0, 16, 16),
    F("bias_final", "biasdrive_biasfinal", 16, 16, 16) }

AtuTune == Flag("atu_tune", "sple_atue_trx", 13)

PowerOff == Flag("poweroff", "sple_atue_trx", 16)

Sql == F("sql", "micsel_pttmode_chge_spmode_auxiqgen_sqlthr", 8, 8, 8)

SqlFm == F("sql_fm", "micsel_pttmode_chge_spmode_auxiqgen_sqlthr", 16, 8, 8)

SqlEnable == Flag("sql_enable", "micsel_pttmode_chge_spmode_auxiqgen_sqlthr", 24)

MonitorFields ==
  { F("monitor_level", "monilevel_fftdec_fftzoomcw", 0, 8, 8),
    F("fft_dec", "monilevel_fftdec_fftzoomcw", 8, 4, 4),
    F("fft_zoom_cw", "monilevel_fftdec_fftzoomcw", 12, 4, 4) }

KeyerFields ==
  { F("key_speed", "ks_km_kimb_cwtone_cwvol_cwtrain", 0, 8, 8),
    F("key_mode", "ks_km_kimb_cwtone_cwvol_cwtrain", 8, 2, 2),
    F("iambic_mode", "ks_km_kimb_cwtone_cwvol_cwtrain", 10, 2, 2),
    F("key_tone", "ks_km_kimb_cwtone_cwvol_cwtrain", 12, 11, 11),
    F("key_vol", "ks_km_kimb_cwtone_cwvol_cwtrain", 23, 6, 6),
    Flag("key_train", "ks_km_kimb_cwtone_cwvol_cwtrain", 29),
    F("qsk_time", "qsktime_kr", 0, 16, 16),
    F("key_ratio", "qsktime_kr", 16, 16, 16) }

LineFields ==
  { F("linein", "ling_loutg_imicg_hmicg", 0, 8, 8),
    F("lineout", "ling_loutg_imicg_hmicg", 8, 8, 8),
    Flag("iqout", "micsel_pttmode_chge_spmode_auxiqgen_sqlthr", 6),
    F("imic", "ling_loutg_imicg_hmicg", 16, 8, 8),
    F("hmic", "ling_loutg_imicg_hmicg", 24, 8, 8),
    F("mic", "micsel_pttmode_chge_spmode_auxiqgen_sqlthr", 0, 2, 32) }

(* The VFO in front also has a copy in fg_vfo. *)
Vfo == F("vfo", "vi_vm", 0, 8, 32)

Vm == Flag("vm", "vi_vm", 16)

DspFields ==
  { F("dnf", "dnfcnt_dnfwidth_dnfe", 24, 2, 2),
    F("dnf_center", "dnfcnt_dnfwidth_dnfe", 0, 12, 12),
    F("dnf_width", "dnfcnt_dnfwidth_dnfe", 12, 12, 12),
    Flag("nb", "nrthr_nbw_nbthr_nre_nbe", 25),
    F("nb_level", "nrthr_nbw_nbthr_nre_nbe", 16, 8, 8),
    F("nb_width", "nrthr_nbw_nbthr_nre_nbe", 8, 8, 8),
    Flag("nr", "nrthr_nbw_nbthr_nre_nbe", 24),
    F("nr_level", "nrthr_nbw_nbthr_nre_nbe", 0, 8, 8) }

AgcFields ==
  { Flag("agc_hang", "agcknee_agcslope_agchang", 12),
    F("agc_knee", "agcknee_agcslope_agchang", 0, 8, 8),
    F("agc_slope", "agcknee_agcslope_agchang", 8, 4, 8),
    Whole("agctime", 16) }

VoxCompFields ==
  { Flag("vox", "voxg_voxag_voxdly_voxe", 26),
    F("vox_ag", "voxg_voxag_voxdly_voxe", 7, 7, 7),
    F("vox_delay", "voxg_voxag_voxdly_voxe", 14, 12, 12),
    F("vox_gain", "voxg_voxag_voxdly_voxe", 0, 7, 7),
    Flag("comp", "cmplevel_cmpe", 4),
    F("comp_level", "cmplevel_cmpe", 0, 4, 4) }

(* Three equalizers of five bands, each in a register of its own. *)
EqFields ==
  UNION { { Flag("on", reg, 25), F("p1", reg, 0, 5, 5), F("p2", reg, 5, 5, 5),
            F("p3", reg, 10, 5, 5), F("p4", reg, 15, 5, 5),
            F("p5", reg, 20, 5, 5) } : reg \in {"rxeq", "rxeqwfm", "miceq"} }

(* Set with the sign extended. *)
TuneFields == { Whole("rit", 32), Whole("xit", 32) }

-----------------------------------------------------------------------------
VARIABLES
  all_cmd,    \* the shadow registers
  fg_vfo,     \* the VFO in front
  vfo_modes,  \* mode of each VFO, for the choice of a filter register
  tunes,      \* number of host commands 0x8004 given to BASE
  halting     \* init has been told to switch off

code == <<all_cmd, fg_vfo, vfo_modes, tunes, halting>>

(* Slip (see Mutants in README.md): the old bits stay. *)
InsertOver(f, v, word) == word \cup Shift(v \cap 0 .. f.take - 1, f.at)

(* The register with an argument put into a field. *)
Insert(f, v, word) ==
  (word \ (f.at .. f.at + f.width - 1)) \cup Shift(v \cap 0 .. f.take - 1, f.at)

x6200_control_cmd(reg, word) == [all_cmd EXCEPT ![reg] = word]

SetField(f, v) ==
  /\ all_cmd' = x6200_control_cmd(f.reg, Insert(f, v, all_cmd[f.reg]))
  /\ UNCHANGED <<fg_vfo, vfo_modes, tunes, halting>>

(* Both squelch setters end with x6200_control_sql_enable_set(sql > 0). *)
SetSquelch(f, v) ==
  /\ all_cmd' = x6200_control_cmd(f.reg,
       Insert(SqlEnable, IF v = {} THEN {} ELSE {0}, Insert(f, v, all_cmd[f.reg])))
  /\ UNCHANGED <<fg_vfo, vfo_modes, tunes, halting>>

(* The tuner is started by a host command and stopped by the bit alone. *)
x6200_control_atu_tune(on) ==
  /\ all_cmd' = x6200_control_cmd(AtuTune.reg, Insert(AtuTune, on, all_cmd[AtuTune.reg]))
  /\ tunes' = IF on = {} THEN tunes ELSE tunes + 1
  /\ UNCHANGED <<fg_vfo, vfo_modes, halting>>

(* The bit is never taken back. *)
x6200_control_poweroff ==
  /\ all_cmd' = x6200_control_cmd(PowerOff.reg, Insert(PowerOff, {0}, all_cmd[PowerOff.reg]))
  /\ halting' = TRUE
  /\ UNCHANGED <<fg_vfo, vfo_modes, tunes>>

(* Slip: fg_vfo gets the register. *)
vfo_set_whole(vfo) ==
  /\ fg_vfo' = Insert(Vfo, vfo, all_cmd["vi_vm"])
  /\ all_cmd' = x6200_control_cmd("vi_vm", Insert(Vfo, vfo, all_cmd["vi_vm"]))
  /\ UNCHANGED <<vfo_modes, tunes, halting>>

x6200_control_vfo_set(vfo) ==
  /\ fg_vfo' = vfo
  /\ all_cmd' = x6200_control_cmd("vi_vm", Insert(Vfo, vfo, all_cmd["vi_vm"]))
  /\ UNCHANGED <<vfo_modes, tunes, halting>>

(* X6200_VFO_A and X6200_VFO_B *)
VfoA == {}
VfoB == {0}

ModeReg(vfo) == IF vfo = VfoA THEN "vfoa_mode" ELSE "vfob_mode"

(* Slip: the mode is noted for the VFO in front, whichever it is for. *)
vfo_mode_set_in_front(vfo, mode) ==
  /\ vfo_modes' = [vfo_modes EXCEPT ![fg_vfo] = mode]
  /\ all_cmd' = x6200_control_cmd(ModeReg(vfo), mode)
  /\ UNCHANGED <<fg_vfo, tunes, halting>>

x6200_control_vfo_mode_set(vfo, mode) ==
  /\ vfo_modes' = [vfo_modes EXCEPT ![vfo] = mode]
  /\ all_cmd' = x6200_control_cmd(ModeReg(vfo), mode)
  /\ UNCHANGED <<fg_vfo, tunes, halting>>

-----------------------------------------------------------------------------
(* Receive filters.  The low edge is the upper half of the word.            *)

(* x6200_mode_t, as words: lsb is 0 and usb 2, with their _dig modes 1 and 3; *)
(* then come cw and cwr, am and sam, nfm and wfm.                            *)
Lsb == {}
Usb == {1}
SsbModes == SUBSET {0, 1}
CwModes == {{2}, {0, 2}}
AmModes == {{1, 2}, {0, 1, 2}}
Nfm == {3}
Wfm == {0, 3}

Modes == SsbModes \cup CwModes \cup AmModes \cup {Nfm, Wfm}

(* The register that keeps the filter of a kind of mode. *)
FilterReg(mode) ==
  CASE mode \in SsbModes -> "filter_ssb"
    [] mode \in CwModes -> "filter_cw"
    [] mode \in AmModes -> "filter_am"
    [] mode = Nfm -> "filter_nfm"
    [] mode = Wfm -> "filter_wfm"

LowHalf == 0 .. 15
HighHalf == 16 .. 31

(* Not in the header (control.h:52), and the only setter with the high edge *)
(* in the upper half; the register in use is left as it is.                 *)
x6200_control_ssb_filter_set_set(low, high) ==
  /\ all_cmd' = x6200_control_cmd("filter_ssb", Shift(high, 16) \cup low)
  /\ UNCHANGED <<fg_vfo, vfo_modes, tunes, halting>>

set_rx_filters(val) ==
  /\ all_cmd' = [all_cmd EXCEPT !["rxfilter"] = val,
                                ![FilterReg(vfo_modes[fg_vfo])] = val]
  /\ UNCHANGED <<fg_vfo, vfo_modes, tunes, halting>>

x6200_control_rx_filter_set(low, high) ==
  set_rx_filters(Shift(low, 16) \cup SignExtend(high))

(* Slip: the old low edge is not cleared. *)
rx_filter_set_low_over(low) ==
  set_rx_filters(all_cmd["rxfilter"] \cup Shift(low, 16))

x6200_control_rx_filter_set_low(low) ==
  set_rx_filters((all_cmd["rxfilter"] \cap LowHalf) \cup Shift(low, 16))

x6200_control_rx_filter_set_high(high) ==
  set_rx_filters((all_cmd["rxfilter"] \cap HighHalf) \cup SignExtend(high))

-----------------------------------------------------------------------------
(* The shadow after x6200_control_init (src/src/low/control.c)              *)

Halves(high, low) == Shift(Bits(high), 16) \cup Bits(low)

DefaultWord(reg) ==
  CASE reg \in {"filter_ssb", "filter_ssb_2"} -> Halves(\hb80b, \h2c01)
    [] reg = "filter_cw" -> Halves(\h2003, \hfce0)
    [] reg = "filter_am" -> Halves(\h7017, \he890)
    [] reg = "filter_nfm" -> Halves(\h2823, \hdcd8)
    [] reg = "filter_wfm" -> Halves(\h803e, \hc180)
    [] reg \in {"vfoa_freq", "vfob_freq"} -> Bits(14074000)
    [] reg \in {"vfoa_mode", "vfob_mode"} -> Usb
    [] reg \in {"vfoa_agc", "vfob_agc"} -> Bits(3)
    [] reg = "rfg_txpwr" -> Bits(10 * 256 + 64)
    [] OTHER -> {}

Init ==
  /\ all_cmd = [reg \in Reg |-> DefaultWord(reg)]
  /\ fg_vfo = VfoA
  /\ vfo_modes = [vfo \in {VfoA, VfoB} |-> Lsb]
  /\ tunes = 0
  /\ halting = FALSE

=============================================================================
