-------------------------- MODULE FrontPanel_proofs --------------------------
(***************************************************************************)
(* Proofs about FrontPanel, for any arguments within the range of their    *)
(* setting, any passbands with edges of 15 and 16 bits, and any number of  *)
(* calls.  The layout of the registers enters through LayoutAssumption,    *)
(* which TLC evaluates on the tables of module Setters.                    *)
(***************************************************************************)
EXTENDS FrontPanel, TLAPS

-----------------------------------------------------------------------------
(* Words                                                                    *)

LEMMA BitsWord == \A n : Bits(n) \in Word /\ Bits(n) \subseteq 0 .. 30
BY DEF Bits, Word, Bit

LEMMA ShiftWord == \A w, at : Shift(w, at) \in Word
BY DEF Shift, Word, Bit

(* What the setters put into a field: whatever fits it.                     *)
Fits(f, v) == v \subseteq 0 .. f.width - 1 /\ v \subseteq 0 .. f.take - 1

ShownIn(f, word) == {i \in 0 .. f.width - 1 : f.at + i \in word}

LEMMA FieldShape ==
  ASSUME NEW f \in Fields
  PROVE  /\ f.reg \in Reg
         /\ f.reg \notin FilterRegs
         /\ f.reg # "rxfilter" /\ f.reg # "vfoa_mode" /\ f.reg # "vfob_mode"
         /\ f.at \in Nat /\ f.width \in Nat /\ f.take \in Nat
         /\ Place(f) = f.at .. f.at + f.width - 1
         /\ Place(f) \subseteq Bit
BY LayoutAssumption DEF LayoutAssumption, Bit, Place

LEMMA InsertWord ==
  ASSUME NEW f, NEW v, NEW word \in Word
  PROVE  Insert(f, v, word) \in Word
BY ShiftWord DEF Insert, Word

(* A field shows what was inserted there ...                                *)
LEMMA InsertHere ==
  ASSUME NEW f \in Fields, NEW v, Fits(f, v), NEW word \in Word
  PROVE  ShownIn(f, Insert(f, v, word)) = v
<1>1. f.at \in Nat /\ f.width \in Nat /\ f.take \in Nat
  BY FieldShape
<1>2. \A i \in 0 .. f.width - 1 : f.at + i \in Bit
  BY <1>1, FieldShape DEF Place
<1>3. v \cap 0 .. f.take - 1 = v
  BY DEF Fits
<1>4. \A i \in 0 .. f.width - 1 : f.at + i \in Insert(f, v, word) <=> i \in v
  <2> SUFFICES ASSUME NEW i \in 0 .. f.width - 1
               PROVE  f.at + i \in Insert(f, v, word) <=> i \in v
    OBVIOUS
  <2>1. f.at + i \in f.at .. f.at + f.width - 1
    BY <1>1
  <2>2. (f.at + i) - f.at = i
    BY <1>1
  <2> QED
    BY <1>2, <1>3, <2>1, <2>2 DEF Insert, Shift
<1>5. v \subseteq 0 .. f.width - 1
  BY DEF Fits
<1> QED
  BY <1>4, <1>5 DEF ShownIn

(* ... and every other field of the register shows what it did before.      *)
LEMMA InsertBeside ==
  ASSUME NEW f \in Fields, NEW v, Fits(f, v), NEW word \in Word,
         NEW g \in Fields, g # f, g.reg = f.reg
  PROVE  ShownIn(g, Insert(f, v, word)) = ShownIn(g, word)
<1>1. /\ f.at \in Nat /\ f.width \in Nat /\ f.take \in Nat
      /\ g.at \in Nat /\ g.width \in Nat
  BY FieldShape
<1>2. \A i \in 0 .. g.width - 1 : g.at + i \notin f.at .. f.at + f.width - 1
  BY <1>1, LayoutAssumption DEF LayoutAssumption, Place
<1>3. ASSUME NEW i \in 0 .. g.width - 1
      PROVE  g.at + i \in Insert(f, v, word) <=> g.at + i \in word
  <2>1. g.at + i \notin f.at .. f.at + f.width - 1
    BY <1>2
  <2>2. (g.at + i) - f.at \notin v
    <3> SUFFICES ASSUME (g.at + i) - f.at \in v PROVE FALSE
      OBVIOUS
    <3>1. (g.at + i) - f.at \in 0 .. f.width - 1
      BY DEF Fits
    <3> QED
      BY <1>1, <2>1, <3>1
  <2> QED
    BY <2>1, <2>2 DEF Insert, Shift
<1> QED
  BY <1>3 DEF ShownIn

(* One setter changes what one field shows.                                 *)
LEMMA SetterShows ==
  ASSUME all_cmd \in [Reg -> Word], NEW f \in Fields, NEW v, Fits(f, v),
         all_cmd' = [all_cmd EXCEPT ![f.reg] = Insert(f, v, all_cmd[f.reg])]
  PROVE  /\ Shown(f)' = v
         /\ \A g \in Fields \ {f} : Shown(g)' = Shown(g)
<1>1. f.reg \in Reg /\ all_cmd[f.reg] \in Word
  BY FieldShape
<1>2. all_cmd'[f.reg] = Insert(f, v, all_cmd[f.reg])
  BY <1>1
<1>3. Shown(f)' = v
  <2>1. Shown(f)' = ShownIn(f, all_cmd'[f.reg])
    BY DEF Shown, ShownIn
  <2> QED
    BY <1>1, <1>2, <2>1, InsertHere
<1>4. ASSUME NEW g \in Fields \ {f} PROVE Shown(g)' = Shown(g)
  <2>1. Shown(g)' = ShownIn(g, all_cmd'[g.reg]) /\ Shown(g) = ShownIn(g, all_cmd[g.reg])
    BY DEF Shown, ShownIn
  <2>2. CASE g.reg = f.reg
    BY <1>1, <1>2, <2>1, <2>2, InsertBeside
  <2>3. CASE g.reg # f.reg
    BY <2>1, <2>3
  <2> QED
    BY <2>2, <2>3
<1> QED
  BY <1>3, <1>4

-----------------------------------------------------------------------------
(* The fields with setters of their own                                     *)

LEMMA SpecialFields ==
  /\ AtuTune \in Fields /\ PowerOff \in Fields /\ Vfo \in Fields
  /\ SqlEnable \in Fields
  /\ Squelches \subseteq Fields /\ PlainFields \subseteq Fields
BY DEF Fields, PlainFields, Squelches

LEMMA SpecialArgs ==
  /\ \A v \in {{}, {0}} : Fits(AtuTune, v) /\ Fits(PowerOff, v) /\ Fits(SqlEnable, v)
  /\ \A v \in {VfoA, VfoB} : Fits(Vfo, v)
  /\ Vfo.reg = "vi_vm"
BY DEF AtuTune, PowerOff, SqlEnable, Vfo, VfoA, VfoB, Fits, Flag, F

LEMMA SquelchPlace ==
  \A f \in Squelches : f.reg = SqlEnable.reg /\ f # SqlEnable
BY DEF Squelches, Sql, SqlFm, SqlEnable, Flag, F

LEMMA OfferedArgs ==
  ASSUME NEW f \in Offered, NEW v \in Arg(f)
  PROVE  f \in Fields /\ Fits(f, v)
BY SpecialFields, ArgAssumption DEF ArgAssumption, Fits

LEMMA FitsWord ==
  ASSUME NEW f \in Fields, NEW v, Fits(f, v)
  PROVE  v \in Word
<1>1. \A i \in v : f.at + i \in Bit /\ f.at \in Nat /\ i \in Nat
  BY FieldShape DEF Fits, Place
<1> QED
  BY <1>1 DEF Word, Bit

LEMMA FilterRegType == \A mode \in Modes : FilterReg(mode) \in FilterRegs
<1> SUFFICES ASSUME NEW mode \in Modes PROVE FilterReg(mode) \in FilterRegs
  OBVIOUS
<1>1. \/ mode \in SsbModes \/ mode \in CwModes \/ mode \in AmModes
      \/ mode = Nfm \/ mode = Wfm
  BY DEF Modes
<1> QED
  BY <1>1 DEF FilterReg, FilterRegs

LEMMA FilterRegIsReg == FilterRegs \subseteq Reg /\ "rxfilter" \in Reg \ FilterRegs
BY DEF FilterRegs, Reg

-----------------------------------------------------------------------------
(* Types                                                                    *)

LEMMA SetFiltersType ==
  ASSUME PanelTypeOK, NEW val \in Word, set_rx_filters(val)
  PROVE  /\ all_cmd' \in [Reg -> Word]
         /\ Current \in FilterRegs
         /\ UNCHANGED <<fg_vfo, vfo_modes, tunes, halting>>
<1>1. Current \in FilterRegs
  BY FilterRegType DEF PanelTypeOK, Current
<1> QED
  BY <1>1 DEF PanelTypeOK, set_rx_filters

LEMMA PassbandWords ==
  ASSUME PanelTypeOK, NEW p \in Passbands
  PROVE  /\ p \in [low : SUBSET LowHalf, high : SUBSET LowHalf]
         /\ p.low \in SUBSET LowHalf /\ p.high \in SUBSET LowHalf
         /\ SignExtend(p.high) = p.high /\ p.high \in Word
         /\ all_cmd["rxfilter"] \in Word
BY PassbandAssumption, FilterRegIsReg
DEF PassbandAssumption, PanelTypeOK, LowHalf, SignExtend, Word, Bit

LEMMA InitTypes == PanelInit => PanelTypeOK
<1> SUFFICES ASSUME PanelInit PROVE PanelTypeOK
  OBVIOUS
<1>1. \A reg \in Reg : DefaultWord(reg) \in Word
  <2>1. \A a, b : Halves(a, b) \in Word
    BY ShiftWord, BitsWord DEF Halves, Word
  <2>2. {} \in Word /\ Usb \in Word
    BY DEF Word, Bit, Usb
  <2> QED
    BY <2>1, <2>2, BitsWord DEF DefaultWord
<1>2. \A f \in Fields : Shown(f) \in Word
  <2> SUFFICES ASSUME NEW f \in Fields PROVE Shown(f) \in Word
    OBVIOUS
  <2>1. \A i \in 0 .. f.width - 1 : i \in Bit
    <3>1. f.at \in Nat /\ f.width \in Nat
      BY FieldShape
    <3>2. \A i \in 0 .. f.width - 1 : f.at + i \in Bit
      BY <3>1, FieldShape
    <3> QED
      BY <3>1, <3>2 DEF Bit
  <2> QED
    BY <2>1 DEF Shown, Word
<1>3. Lsb \in Modes
  BY DEF Modes, SsbModes, Lsb
<1>4. asked \in [Fields -> Word]
  BY <1>2 DEF PanelInit
<1>5. all_cmd \in [Reg -> Word] /\ vfo_modes \in [{VfoA, VfoB} -> Modes]
  BY <1>1, <1>3 DEF PanelInit, Init
<1>6. passband \in [low : SUBSET LowHalf, high : SUBSET LowHalf]
  BY DEF PanelInit
<1>7. tunes \in Nat /\ calls \in 0 .. MaxCalls
  BY CallsAssumption DEF PanelInit, Init, CallsAssumption
<1>8. fg_vfo \in {VfoA, VfoB} /\ halting \in BOOLEAN /\ kept = "none"
  BY DEF PanelInit, Init
<1> QED
  BY <1>4, <1>5, <1>6, <1>7, <1>8 DEF PanelTypeOK

LEMMA FieldCallType ==
  ASSUME PanelTypeOK, NEW f \in Offered, NEW v \in Arg(f),
         CallField(f, v) \/ CallSquelch(f, v)
  PROVE  /\ all_cmd' \in [Reg -> Word]
         /\ asked' \in [Fields -> Word]
         /\ UNCHANGED <<fg_vfo, vfo_modes, tunes, halting, passband, kept>>
<1>1. f \in Fields /\ v \in Word /\ f.reg \in Reg
  BY OfferedArgs, FitsWord, FieldShape
<1>2. all_cmd[f.reg] \in Word
  BY <1>1 DEF PanelTypeOK
<1>3. \A w \in Word : /\ Insert(f, v, w) \in Word
                      /\ \A e : Insert(SqlEnable, e, w) \in Word
  BY InsertWord
<1>4. {} \in Word /\ {0} \in Word
  BY DEF Word, Bit
<1>5. CASE CallField(f, v)
  BY <1>1, <1>2, <1>3, <1>5
  DEF CallField, SetField, x6200_control_cmd, Ask, Unfiltered, PanelTypeOK
<1>6. CASE CallSquelch(f, v)
  <2>1. all_cmd' \in [Reg -> Word]
    BY <1>1, <1>2, <1>3, <1>6
    DEF CallSquelch, SetSquelch, x6200_control_cmd, PanelTypeOK
  <2>2. asked' \in [Fields -> Word]
    BY <1>1, <1>4, <1>6 DEF CallSquelch, PanelTypeOK
  <2> QED
    BY <1>6, <2>1, <2>2 DEF CallSquelch, SetSquelch, Unfiltered
<1> QED
  BY <1>5, <1>6

LEMMA SwitchCallType ==
  ASSUME PanelTypeOK,
         (\E on \in {{}, {0}} : CallAtuTune(on)) \/ CallPoweroff
           \/ \E vfo \in {VfoA, VfoB} : CallVfo(vfo)
  PROVE  /\ all_cmd' \in [Reg -> Word] /\ asked' \in [Fields -> Word]
         /\ fg_vfo' \in {VfoA, VfoB}
         /\ tunes' \in Nat /\ halting' \in BOOLEAN
         /\ UNCHANGED <<vfo_modes, passband, kept>>
<1>1. {} \in Word /\ {0} \in Word
  BY DEF Word, Bit
<1>2. AtuTune.reg \in Reg /\ PowerOff.reg \in Reg /\ "vi_vm" \in Reg
  BY SpecialFields, FieldShape DEF Reg
<1>3. \A f, v : \A w \in Word : Insert(f, v, w) \in Word
  BY InsertWord
<1>4. CASE \E on \in {{}, {0}} : CallAtuTune(on)
  <2>1. PICK on \in {{}, {0}} : CallAtuTune(on)
    BY <1>4
  <2>2. asked' \in [Fields -> Word]
    BY <1>1, <2>1 DEF CallAtuTune, Ask, PanelTypeOK
  <2>3. all_cmd' \in [Reg -> Word]
    BY <1>2, <1>3, <2>1
    DEF CallAtuTune, x6200_control_atu_tune, x6200_control_cmd, PanelTypeOK
  <2>4. tunes' \in Nat
    BY <2>1 DEF CallAtuTune, x6200_control_atu_tune, PanelTypeOK
  <2> QED
    BY <2>1, <2>2, <2>3, <2>4
    DEF CallAtuTune, x6200_control_atu_tune, Unfiltered, PanelTypeOK
<1>5. CASE CallPoweroff
  BY <1>1, <1>2, <1>3, <1>5
  DEF CallPoweroff, x6200_control_poweroff, x6200_control_cmd, Ask, Unfiltered,
      PanelTypeOK
<1>6. CASE \E vfo \in {VfoA, VfoB} : CallVfo(vfo)
  <2>1. PICK vfo \in {VfoA, VfoB} : CallVfo(vfo)
    BY <1>6
  <2>2. asked' \in [Fields -> Word]
    BY <1>1, <2>1 DEF CallVfo, Ask, PanelTypeOK, VfoA, VfoB
  <2>3. all_cmd' \in [Reg -> Word]
    BY <1>2, <1>3, <2>1
    DEF CallVfo, x6200_control_vfo_set, x6200_control_cmd, PanelTypeOK
  <2> QED
    BY <2>1, <2>2, <2>3
    DEF CallVfo, x6200_control_vfo_set, Unfiltered, PanelTypeOK
<1> QED
  BY <1>4, <1>5, <1>6

LEMMA ModeWord == Modes \subseteq Word
<1>1. SsbModes \subseteq Word /\ CwModes \subseteq Word
  BY DEF SsbModes, CwModes, Word, Bit
<1>2. AmModes \subseteq Word /\ Nfm \in Word /\ Wfm \in Word
  BY DEF AmModes, Nfm, Wfm, Word, Bit
<1> QED
  BY <1>1, <1>2 DEF Modes

LEMMA ModeCallType ==
  ASSUME PanelTypeOK, NEW vfo \in {VfoA, VfoB}, NEW mode \in Modes,
         CallMode(vfo, mode)
  PROVE  /\ all_cmd' \in [Reg -> Word]
         /\ vfo_modes' \in [{VfoA, VfoB} -> Modes]
         /\ UNCHANGED <<fg_vfo, tunes, halting, asked, passband, kept>>
<1>1. ModeReg(vfo) \in Reg /\ mode \in Word
  BY ModeWord DEF ModeReg, Reg
<1> QED
  BY <1>1
  DEF CallMode, x6200_control_vfo_mode_set, x6200_control_cmd, Unfiltered,
      PanelTypeOK

LEMMA FilterCallType ==
  ASSUME PanelTypeOK, NEW p \in Passbands,
         CallFilter(p) \/ CallFilterLow(p.low) \/ CallFilterHigh(p.high)
  PROVE  /\ all_cmd' \in [Reg -> Word]
         /\ passband' \in [low : SUBSET LowHalf, high : SUBSET LowHalf]
         /\ kept' \in FilterRegs \cup {"none"}
         /\ UNCHANGED <<fg_vfo, vfo_modes, tunes, halting, asked>>
<1>1. PICK val \in Word : set_rx_filters(val)
  <2>1. \A a, b \in Word : a \cup b \in Word /\ \A c : a \cap c \in Word
    BY DEF Word
  <2>2. p.high \in Word /\ SignExtend(p.high) = p.high /\ all_cmd["rxfilter"] \in Word
    BY PassbandWords
  <2> QED
    BY <2>1, <2>2, ShiftWord
    DEF CallFilter, CallFilterLow, CallFilterHigh, x6200_control_rx_filter_set,
        x6200_control_rx_filter_set_low, x6200_control_rx_filter_set_high
<1>2. /\ all_cmd' \in [Reg -> Word] /\ Current \in FilterRegs
      /\ UNCHANGED <<fg_vfo, vfo_modes, tunes, halting>>
  BY <1>1, SetFiltersType
<1>3. passband' \in [low : SUBSET LowHalf, high : SUBSET LowHalf]
  BY PassbandWords DEF CallFilter, CallFilterLow, CallFilterHigh, PanelTypeOK
<1>4. kept' \in FilterRegs \cup {"none"} /\ UNCHANGED asked
  BY <1>2 DEF CallFilter, CallFilterLow, CallFilterHigh, PanelTypeOK
<1> QED
  BY <1>2, <1>3, <1>4

LEMMA SsbCallWrites ==
  ASSUME PanelTypeOK, NEW p \in Passbands, CallSsbFilter(p)
  PROVE  /\ all_cmd' \in [Reg -> Word]
         /\ \A reg \in Reg \ {"filter_ssb"} : all_cmd'[reg] = all_cmd[reg]
         /\ UNCHANGED <<fg_vfo, vfo_modes, tunes, halting, asked, passband>>
         /\ kept' = IF kept = "filter_ssb" THEN "none" ELSE kept
         /\ kept' \in FilterRegs \cup {"none"}
<1>1. Shift(p.high, 16) \cup p.low \in Word
  <2>1. p.low \subseteq Bit
    BY PassbandWords DEF LowHalf, Bit
  <2> QED
    BY <2>1, ShiftWord DEF Word
<1>2. all_cmd' = [all_cmd EXCEPT !["filter_ssb"] = Shift(p.high, 16) \cup p.low]
  BY DEF CallSsbFilter, x6200_control_ssb_filter_set_set, x6200_control_cmd
<1>3. all_cmd' \in [Reg -> Word]
  BY <1>1, <1>2 DEF PanelTypeOK
<1>4. \A reg \in Reg \ {"filter_ssb"} : all_cmd'[reg] = all_cmd[reg]
  BY <1>2 DEF PanelTypeOK
<1> QED
  BY <1>3, <1>4 DEF CallSsbFilter, x6200_control_ssb_filter_set_set, PanelTypeOK

LEMMA CallType == PanelTypeOK /\ [Next]_vars => PanelTypeOK'
<1> SUFFICES ASSUME PanelTypeOK, [Next]_vars PROVE PanelTypeOK'
  OBVIOUS
<1>1. CASE UNCHANGED vars
  BY <1>1 DEF vars, code, PanelTypeOK
<1>2. CASE Next
  <2>1. calls' \in 0 .. MaxCalls
    BY <1>2, CallsAssumption DEF Next, CallsAssumption, PanelTypeOK
  <2>2. CASE \E f \in Offered : \E v \in Arg(f) : CallField(f, v) \/ CallSquelch(f, v)
    BY <2>1, <2>2, FieldCallType DEF PanelTypeOK
  <2>3. CASE \/ \E on \in {{}, {0}} : CallAtuTune(on)
             \/ CallPoweroff
             \/ \E vfo \in {VfoA, VfoB} : CallVfo(vfo)
    BY <2>1, <2>3, SwitchCallType DEF PanelTypeOK
  <2>4. CASE \E vfo \in {VfoA, VfoB}, mode \in Modes : CallMode(vfo, mode)
    BY <2>1, <2>4, ModeCallType DEF PanelTypeOK
  <2>5. CASE \E p \in Passbands :
               CallFilter(p) \/ CallFilterLow(p.low) \/ CallFilterHigh(p.high)
    BY <2>1, <2>5, FilterCallType DEF PanelTypeOK
  <2>6. CASE \E p \in Passbands : CallSsbFilter(p)
    BY <2>1, <2>6, SsbCallWrites DEF PanelTypeOK
  <2> QED
    BY <1>2, <2>2, <2>3, <2>4, <2>5, <2>6 DEF Next, Call, VfoCall
<1> QED
  BY <1>1, <1>2

(* The types of the shadow and of the library's own copies (control.c:15).  *)
THEOREM PanelTypeCorrect == Spec => []PanelTypeOK
BY InitTypes, CallType, PTL DEF Spec

-----------------------------------------------------------------------------
(* The last call wins                                                       *)

LEMMA FieldCallShows ==
  ASSUME PanelTypeOK, LastCallWins, NEW f \in Offered, NEW v \in Arg(f),
         CallField(f, v)
  PROVE  LastCallWins'
<1>1. f \in Fields /\ Fits(f, v)
  BY OfferedArgs
<1>2. /\ Shown(f)' = v
      /\ \A g \in Fields \ {f} : Shown(g)' = Shown(g)
  BY <1>1, SetterShows
  DEF CallField, SetField, x6200_control_cmd, PanelTypeOK
<1>3. asked' = [asked EXCEPT ![f] = v]
  BY DEF CallField, Ask
<1> QED
  BY <1>1, <1>2, <1>3 DEF LastCallWins, PanelTypeOK

LEMMA SquelchCallShows ==
  ASSUME PanelTypeOK, LastCallWins, NEW f \in Offered, NEW v \in Arg(f),
         CallSquelch(f, v)
  PROVE  LastCallWins'
<1> DEFINE e == IF v = {} THEN {} ELSE {0}
           once == Insert(f, v, all_cmd[f.reg])
<1>1. /\ f \in Fields /\ Fits(f, v) /\ f.reg = SqlEnable.reg /\ f # SqlEnable
      /\ f.reg \in Reg
  BY OfferedArgs, SquelchPlace, FieldShape DEF CallSquelch
<1>2. SqlEnable \in Fields /\ Fits(SqlEnable, e)
  BY SpecialFields, SpecialArgs
<1>3. all_cmd[f.reg] \in Word /\ once \in Word
  BY <1>1, InsertWord DEF PanelTypeOK
<1>4. all_cmd' = [all_cmd EXCEPT ![f.reg] = Insert(SqlEnable, e, once)]
  BY DEF CallSquelch, SetSquelch, x6200_control_cmd
<1>5. asked' = [asked EXCEPT ![f] = v, ![SqlEnable] = e]
  BY DEF CallSquelch
<1> HIDE DEF e
<1>6. ASSUME NEW g \in Fields
      PROVE  Shown(g)' = IF g = SqlEnable THEN e ELSE IF g = f THEN v ELSE Shown(g)
  <2>1. Shown(g)' = ShownIn(g, all_cmd'[g.reg]) /\ Shown(g) = ShownIn(g, all_cmd[g.reg])
    BY DEF Shown, ShownIn
  <2>2. CASE g.reg # f.reg
    BY <1>1, <1>4, <2>1, <2>2
  <2>3. CASE g.reg = f.reg
    <3>1. all_cmd'[g.reg] = Insert(SqlEnable, e, once)
      BY <1>1, <1>4, <2>3 DEF PanelTypeOK
    <3> HIDE DEF once
    <3>2. CASE g = SqlEnable
      BY <1>2, <1>3, <2>1, <3>1, <3>2, InsertHere
    <3>3. CASE g # SqlEnable
      <4>1. Shown(g)' = ShownIn(g, once)
        BY <1>1, <1>2, <1>3, <2>1, <2>3, <3>1, <3>3, InsertBeside
      <4>2. CASE g = f
        BY <1>1, <1>3, <3>3, <4>1, <4>2, InsertHere DEF once
      <4>3. CASE g # f
        BY <1>1, <1>3, <2>1, <2>3, <3>3, <4>1, <4>3, InsertBeside DEF once
      <4> QED
        BY <4>2, <4>3
    <3> QED
      BY <3>2, <3>3
  <2> QED
    BY <2>2, <2>3
<1> QED
  BY <1>1, <1>2, <1>5, <1>6 DEF LastCallWins, PanelTypeOK

LEMMA SwitchCallShows ==
  ASSUME PanelTypeOK, LastCallWins,
         (\E on \in {{}, {0}} : CallAtuTune(on)) \/ CallPoweroff
           \/ \E vfo \in {VfoA, VfoB} : CallVfo(vfo)
  PROVE  LastCallWins'
<1>1. PICK f \in Fields, v \in SUBSET {0} :
        /\ Fits(f, v)
        /\ all_cmd' = [all_cmd EXCEPT ![f.reg] = Insert(f, v, all_cmd[f.reg])]
        /\ asked' = [asked EXCEPT ![f] = v]
  <2>1. CASE \E on \in {{}, {0}} : CallAtuTune(on)
    BY <2>1, SpecialFields, SpecialArgs
    DEF CallAtuTune, x6200_control_atu_tune, x6200_control_cmd, Ask
  <2>2. CASE CallPoweroff
    BY <2>2, SpecialFields, SpecialArgs
    DEF CallPoweroff, x6200_control_poweroff, x6200_control_cmd, Ask
  <2>3. CASE \E vfo \in {VfoA, VfoB} : CallVfo(vfo)
    <3>1. PICK vfo \in {VfoA, VfoB} : CallVfo(vfo)
      BY <2>3
    <3>2. vfo \in SUBSET {0}
      BY DEF VfoA, VfoB
    <3>3. all_cmd' = [all_cmd EXCEPT ![Vfo.reg] = Insert(Vfo, vfo, all_cmd[Vfo.reg])]
      BY <3>1, SpecialArgs DEF CallVfo, x6200_control_vfo_set, x6200_control_cmd
    <3>4. asked' = [asked EXCEPT ![Vfo] = vfo]
      BY <3>1 DEF CallVfo, Ask
    <3> QED
      BY <3>2, <3>3, <3>4, SpecialFields, SpecialArgs
  <2> QED
    BY <2>1, <2>2, <2>3
<1>2. /\ Shown(f)' = v
      /\ \A g \in Fields \ {f} : Shown(g)' = Shown(g)
  BY <1>1, SetterShows DEF PanelTypeOK
<1> QED
  BY <1>1, <1>2 DEF LastCallWins, PanelTypeOK

(* The setters of modes and filters write registers that have no fields.    *)
LEMMA OtherCallShows ==
  ASSUME PanelTypeOK, LastCallWins, UNCHANGED asked,
         \A g \in Fields : all_cmd'[g.reg] = all_cmd[g.reg]
  PROVE  LastCallWins'
BY DEF LastCallWins, Shown

LEMMA FilterCallKeepsFields ==
  ASSUME PanelTypeOK, NEW val, set_rx_filters(val), NEW g \in Fields
  PROVE  all_cmd'[g.reg] = all_cmd[g.reg]
<1>1. g.reg \in Reg /\ g.reg \notin FilterRegs /\ g.reg # "rxfilter"
  BY FieldShape
<1>2. FilterReg(vfo_modes[fg_vfo]) \in FilterRegs
  BY FilterRegType DEF PanelTypeOK
<1> QED
  BY <1>1, <1>2 DEF set_rx_filters, PanelTypeOK

LEMMA CallShows == PanelTypeOK /\ LastCallWins /\ [Next]_vars => LastCallWins'
<1> SUFFICES ASSUME PanelTypeOK, LastCallWins, [Next]_vars PROVE LastCallWins'
  OBVIOUS
<1>1. CASE \E f \in Offered : \E v \in Arg(f) : CallField(f, v) \/ CallSquelch(f, v)
  BY <1>1, FieldCallShows, SquelchCallShows
<1>2. CASE \/ \E on \in {{}, {0}} : CallAtuTune(on)
           \/ CallPoweroff
           \/ \E vfo \in {VfoA, VfoB} : CallVfo(vfo)
  BY <1>2, SwitchCallShows
<1>3. CASE \E vfo \in {VfoA, VfoB}, mode \in Modes : CallMode(vfo, mode)
  <2>1. PICK vfo \in {VfoA, VfoB}, mode \in Modes : CallMode(vfo, mode)
    BY <1>3
  <2>2. all_cmd' = [all_cmd EXCEPT ![ModeReg(vfo)] = mode] /\ UNCHANGED asked
    BY <2>1 DEF CallMode, x6200_control_vfo_mode_set, x6200_control_cmd
  <2>3. \A g \in Fields : g.reg # ModeReg(vfo)
    BY FieldShape DEF ModeReg
  <2>4. \A g \in Fields : all_cmd'[g.reg] = all_cmd[g.reg]
    BY <2>2, <2>3 DEF PanelTypeOK
  <2> QED
    BY <2>2, <2>4, OtherCallShows
<1>4. CASE \E p \in Passbands :
             CallFilter(p) \/ CallFilterLow(p.low) \/ CallFilterHigh(p.high)
  <2>1. UNCHANGED asked
    BY <1>4 DEF CallFilter, CallFilterLow, CallFilterHigh
  <2>2. PICK p \in Passbands :
          CallFilter(p) \/ CallFilterLow(p.low) \/ CallFilterHigh(p.high)
    BY <1>4
  <2>3. \E val : set_rx_filters(val)
    <3>1. CASE CallFilter(p)
      BY <3>1 DEF CallFilter, x6200_control_rx_filter_set
    <3>2. CASE CallFilterLow(p.low)
      BY <3>2 DEF CallFilterLow, x6200_control_rx_filter_set_low
    <3>3. CASE CallFilterHigh(p.high)
      BY <3>3 DEF CallFilterHigh, x6200_control_rx_filter_set_high
    <3> QED
      BY <2>2, <3>1, <3>2, <3>3
  <2> QED
    BY <2>1, <2>3, FilterCallKeepsFields, OtherCallShows
<1>5. CASE \E p \in Passbands : CallSsbFilter(p)
  <2>1. \A g \in Fields : g.reg \in Reg \ {"filter_ssb"}
    BY FieldShape DEF FilterRegs
  <2> QED
    BY <1>5, <2>1, SsbCallWrites, OtherCallShows
<1>6. CASE UNCHANGED vars
  BY <1>6, OtherCallShows DEF vars, code
<1> QED
  BY <1>1, <1>2, <1>3, <1>4, <1>5, <1>6 DEF Next, Call, VfoCall

(* LastCallWins for any sequence of calls of any length: the setters of     *)
(* control.c share registers and never touch each other's settings.         *)
THEOREM LastCallAlwaysWins == Spec => []LastCallWins
<1>1. PanelInit => LastCallWins
  BY DEF PanelInit, LastCallWins
<1> QED
  BY <1>1, InitTypes, CallType, CallShows, PTL DEF Spec

-----------------------------------------------------------------------------
(* Registers without fields                                                 *)

Unshared == FilterRegs \cup {"rxfilter", "vfoa_mode", "vfob_mode"}

(* Only the setters of filters and modes write them.                        *)
LEMMA FieldCallsKeepUnshared ==
  ASSUME PanelTypeOK,
         \/ \E f \in Offered : \E v \in Arg(f) : CallField(f, v) \/ CallSquelch(f, v)
         \/ \E on \in {{}, {0}} : CallAtuTune(on)
         \/ CallPoweroff
         \/ \E vfo \in {VfoA, VfoB} : CallVfo(vfo)
  PROVE  \A reg \in Unshared : all_cmd'[reg] = all_cmd[reg]
<1>1. \A f \in Fields : f.reg \notin Unshared
  BY FieldShape DEF Unshared
<1>2. Unshared \subseteq Reg
  BY FilterRegIsReg DEF Unshared, Reg
<1>3. PICK f, word : f \in Fields /\ all_cmd' = [all_cmd EXCEPT ![f.reg] = word]
  <2>1. CASE \E f \in Offered : \E v \in Arg(f) : CallField(f, v) \/ CallSquelch(f, v)
    BY <2>1, OfferedArgs
    DEF CallField, SetField, CallSquelch, SetSquelch, x6200_control_cmd
  <2>2. CASE \E on \in {{}, {0}} : CallAtuTune(on)
    BY <2>2, SpecialFields DEF CallAtuTune, x6200_control_atu_tune, x6200_control_cmd
  <2>3. CASE CallPoweroff
    BY <2>3, SpecialFields DEF CallPoweroff, x6200_control_poweroff, x6200_control_cmd
  <2>4. CASE \E vfo \in {VfoA, VfoB} : CallVfo(vfo)
    BY <2>4, SpecialFields, SpecialArgs
    DEF CallVfo, x6200_control_vfo_set, x6200_control_cmd
  <2> QED
    BY <2>1, <2>2, <2>3, <2>4
<1> QED
  BY <1>1, <1>2, <1>3 DEF PanelTypeOK

-----------------------------------------------------------------------------
(* The passband that was asked for                                          *)

LEMMA Halved ==
  ASSUME NEW low \in SUBSET LowHalf, NEW high \in SUBSET LowHalf
  PROVE  /\ (Shift(low, 16) \cup high) \cap LowHalf = high
         /\ (Shift(low, 16) \cup high) \cap HighHalf = Shift(low, 16)
<1>1. \A i \in Shift(low, 16) : i \in HighHalf /\ i \notin LowHalf
  BY DEF Shift, Bit, LowHalf, HighHalf
<1>2. \A i \in high : i \in LowHalf /\ i \notin HighHalf
  BY DEF LowHalf, HighHalf
<1> QED
  BY <1>1, <1>2

LEMMA SetFiltersWrites ==
  ASSUME PanelTypeOK, NEW val, set_rx_filters(val)
  PROVE  /\ all_cmd'["rxfilter"] = val /\ all_cmd'[Current] = val
         /\ Current \in FilterRegs
<1>1. Current \in FilterRegs
  BY FilterRegType DEF PanelTypeOK, Current
<1>2. "rxfilter" \in Reg \ FilterRegs /\ FilterRegs \subseteq Reg
  BY FilterRegIsReg
<1>3. all_cmd' = [all_cmd EXCEPT !["rxfilter"] = val, ![Current] = val]
  BY DEF set_rx_filters, Current
<1> QED
  BY <1>1, <1>2, <1>3 DEF PanelTypeOK

LEMMA FilterCallKeepsPassband ==
  ASSUME PanelTypeOK, PassbandKept, NEW p \in Passbands,
         CallFilter(p) \/ CallFilterLow(p.low) \/ CallFilterHigh(p.high)
  PROVE  PassbandKept'
<1>1. /\ p.low \in SUBSET LowHalf /\ p.high \in SUBSET LowHalf
      /\ SignExtend(p.high) = p.high
  BY PassbandWords
<1>2. passband.low \in SUBSET LowHalf /\ passband.high \in SUBSET LowHalf
  BY DEF PanelTypeOK
<1>3. "none" \notin FilterRegs
  BY DEF FilterRegs
<1>4. CASE CallFilter(p)
  <2>1. set_rx_filters(Shift(p.low, 16) \cup p.high)
    BY <1>1, <1>4 DEF CallFilter, x6200_control_rx_filter_set
  <2> QED
    BY <1>4, <2>1, SetFiltersWrites DEF CallFilter, PassbandKept
<1>5. CASE CallFilterLow(p.low)
  <2>1. set_rx_filters((all_cmd["rxfilter"] \cap LowHalf) \cup Shift(p.low, 16))
    BY <1>5 DEF CallFilterLow, x6200_control_rx_filter_set_low
  <2>2. CASE kept # Current
    BY <1>5, <2>2 DEF CallFilterLow, PassbandKept
  <2>3. CASE kept = Current
    <3>1. Current \in FilterRegs
      BY <2>1, SetFiltersWrites
    <3>2. all_cmd["rxfilter"] = Shift(passband.low, 16) \cup passband.high
      BY <1>3, <2>3, <3>1 DEF PassbandKept
    <3>3. all_cmd["rxfilter"] \cap LowHalf = passband.high
      BY <1>2, <3>2, Halved
    <3>4. passband'.low = p.low /\ passband'.high = passband.high /\ kept' = Current
      BY <1>5, <2>3 DEF CallFilterLow, PanelTypeOK
    <3> QED
      BY <2>1, <3>3, <3>4, SetFiltersWrites DEF PassbandKept
  <2> QED
    BY <2>2, <2>3
<1>6. CASE CallFilterHigh(p.high)
  <2>1. set_rx_filters((all_cmd["rxfilter"] \cap HighHalf) \cup p.high)
    BY <1>1, <1>6 DEF CallFilterHigh, x6200_control_rx_filter_set_high
  <2>2. CASE kept # Current
    BY <1>6, <2>2 DEF CallFilterHigh, PassbandKept
  <2>3. CASE kept = Current
    <3>1. Current \in FilterRegs
      BY <2>1, SetFiltersWrites
    <3>2. all_cmd["rxfilter"] = Shift(passband.low, 16) \cup passband.high
      BY <1>3, <2>3, <3>1 DEF PassbandKept
    <3>3. all_cmd["rxfilter"] \cap HighHalf = Shift(passband.low, 16)
      BY <1>2, <3>2, Halved
    <3>4. passband'.low = passband.low /\ passband'.high = p.high /\ kept' = Current
      BY <1>6, <2>3 DEF CallFilterHigh, PanelTypeOK
    <3> QED
      BY <2>1, <3>3, <3>4, SetFiltersWrites DEF PassbandKept
  <2> QED
    BY <2>2, <2>3
<1> QED
  BY <1>4, <1>5, <1>6

LEMMA CallKeepsPassband ==
  PanelTypeOK /\ PassbandKept /\ [Next]_vars => PassbandKept'
<1> SUFFICES ASSUME PanelTypeOK, PassbandKept, [Next]_vars PROVE PassbandKept'
  OBVIOUS
<1>0. kept \in FilterRegs \cup {"none"} /\ kept \in Unshared \cup {"none"}
        /\ "rxfilter" \in Unshared
  BY DEF PanelTypeOK, Unshared
<1>1. CASE \/ \E f \in Offered : \E v \in Arg(f) : CallField(f, v) \/ CallSquelch(f, v)
           \/ \E on \in {{}, {0}} : CallAtuTune(on)
           \/ CallPoweroff
           \/ \E vfo \in {VfoA, VfoB} : CallVfo(vfo)
  <2>1. \A reg \in Unshared : all_cmd'[reg] = all_cmd[reg]
    BY <1>1, FieldCallsKeepUnshared
  <2>2. UNCHANGED <<passband, kept>>
    BY <1>1
    DEF CallField, CallSquelch, CallAtuTune, CallPoweroff, CallVfo, Unfiltered
  <2> QED
    BY <1>0, <2>1, <2>2 DEF PassbandKept
<1>2. CASE \E vfo \in {VfoA, VfoB}, mode \in Modes : CallMode(vfo, mode)
  <2>1. PICK vfo \in {VfoA, VfoB}, mode \in Modes : CallMode(vfo, mode)
    BY <1>2
  <2>2. ModeReg(vfo) \notin FilterRegs \cup {"rxfilter"}
    BY DEF ModeReg, FilterRegs
  <2>3. \A reg \in FilterRegs \cup {"rxfilter"} : all_cmd'[reg] = all_cmd[reg]
    BY <2>1, <2>2, FilterRegIsReg
    DEF CallMode, x6200_control_vfo_mode_set, x6200_control_cmd, PanelTypeOK
  <2>4. UNCHANGED <<passband, kept>>
    BY <2>1 DEF CallMode, Unfiltered
  <2> QED
    BY <1>0, <2>3, <2>4 DEF PassbandKept
<1>3. CASE \E p \in Passbands :
             CallFilter(p) \/ CallFilterLow(p.low) \/ CallFilterHigh(p.high)
  BY <1>3, FilterCallKeepsPassband
<1>4. CASE \E p \in Passbands : CallSsbFilter(p)
  <2>1. FilterRegs \cup {"rxfilter"} \subseteq Reg /\ "rxfilter" # "filter_ssb"
    BY FilterRegIsReg
  <2>2. /\ passband' = passband
        /\ kept' = IF kept = "filter_ssb" THEN "none" ELSE kept
        /\ \A reg \in Reg \ {"filter_ssb"} : all_cmd'[reg] = all_cmd[reg]
    BY <1>4, SsbCallWrites
  <2> QED
    BY <1>0, <2>1, <2>2 DEF PassbandKept, Unshared
<1>5. CASE UNCHANGED vars
  BY <1>5 DEF vars, code, PassbandKept
<1> QED
  BY <1>1, <1>2, <1>3, <1>4, <1>5 DEF Next, Call, VfoCall

(* PassbandKept for any edges and any number of calls                       *)
(* (control.c:134-152).                                                     *)
THEOREM PassbandAlwaysKept == Spec => []PassbandKept
<1>1. PanelInit => PassbandKept
  BY DEF PanelInit, PassbandKept
<1> QED
  BY <1>1, InitTypes, CallType, CallKeepsPassband, PTL DEF Spec

-----------------------------------------------------------------------------
(* The filter of the VFO in front                                           *)

(* The library's copies agree with the registers: the VFO exactly, the mode *)
(* of each VFO up to its kind, as they start with lsb and usb.              *)
CopiesAgree ==
  /\ asked[Vfo] = fg_vfo
  /\ \A vfo \in {VfoA, VfoB} :
       FilterReg(vfo_modes[vfo]) = FilterReg(all_cmd[ModeReg(vfo)])

LEMMA VfoIsNotPlain == Vfo \notin PlainFields \cup Squelches \cup {AtuTune, PowerOff}
<1> USE DEF Vfo, F, Flag, Whole
<1>1. Vfo \notin VfoFields \cup SoundFields \cup TuneFields
  BY DEF VfoFields, SoundFields, TuneFields
<1>2. Vfo \notin OperationFields
  BY DEF OperationFields
<1>3. Vfo \notin MonitorFields \cup KeyerFields
  BY DEF MonitorFields, KeyerFields
<1>4. Vfo \notin LineFields
  BY DEF LineFields
<1>5. Vfo \notin DspFields \cup AgcFields
  BY DEF DspFields, AgcFields
<1>6. Vfo \notin VoxCompFields
  BY DEF VoxCompFields
<1>7. Vfo \notin EqFields
  BY DEF EqFields
<1>8. Vfo \notin {SqlEnable, Vm, Sql, SqlFm, AtuTune, PowerOff}
  BY DEF SqlEnable, Vm, Sql, SqlFm, AtuTune, PowerOff
<1> HIDE DEF Vfo
<1> QED
  BY <1>1, <1>2, <1>3, <1>4, <1>5, <1>6, <1>7, <1>8 DEF PlainFields, Squelches

LEMMA ModeRegUnshared ==
  \A vfo : ModeReg(vfo) \in Unshared /\ ModeReg(vfo) \in Reg
BY DEF ModeReg, Unshared, Reg

LEMMA InitCopies == PanelInit => CopiesAgree
<1> SUFFICES ASSUME PanelInit PROVE CopiesAgree
  OBVIOUS
<1>1. asked[Vfo] = {}
  <2>1. all_cmd["vi_vm"] = {}
    BY DEF PanelInit, Init, DefaultWord, Reg
  <2>2. Shown(Vfo) = {}
    BY <2>1, SpecialArgs DEF Shown
  <2> QED
    BY <2>2, SpecialFields DEF PanelInit
<1>2. \A vfo \in {VfoA, VfoB} :
        vfo_modes[vfo] = Lsb /\ all_cmd[ModeReg(vfo)] = Usb
  BY DEF PanelInit, Init, DefaultWord, ModeReg, Reg
<1>3. FilterReg(Lsb) = FilterReg(Usb)
  <2>1. Lsb \in SsbModes /\ Usb \in SsbModes
    BY DEF Lsb, Usb, SsbModes
  <2>2. ASSUME NEW mode \in SsbModes PROVE FilterReg(mode) = "filter_ssb"
    <3>1. mode # Nfm /\ mode # Wfm
      BY DEF SsbModes, Nfm, Wfm
    <3>2. mode \notin CwModes
      BY DEF SsbModes, CwModes
    <3>3. mode \notin AmModes
      BY DEF SsbModes, AmModes
    <3> QED
      BY <3>1, <3>2, <3>3 DEF FilterReg
  <2> QED
    BY <2>1, <2>2
<1> QED
  BY <1>1, <1>2, <1>3 DEF CopiesAgree, PanelInit, Init, VfoA

LEMMA CallKeepsCopies ==
  PanelTypeOK /\ CopiesAgree /\ [Next]_vars => CopiesAgree'
<1> SUFFICES ASSUME PanelTypeOK, CopiesAgree, [Next]_vars PROVE CopiesAgree'
  OBVIOUS
<1>1. ASSUME UNCHANGED vfo_modes,
             \A reg \in {"vfoa_mode", "vfob_mode"} : all_cmd'[reg] = all_cmd[reg],
             asked'[Vfo] = fg_vfo'
      PROVE  CopiesAgree'
  BY <1>1 DEF CopiesAgree, ModeReg
<1>2. {"vfoa_mode", "vfob_mode"} \subseteq Unshared
  BY DEF Unshared
<1>3. CASE \E f \in Offered : \E v \in Arg(f) : CallField(f, v) \/ CallSquelch(f, v)
  <2>1. PICK f \in Offered : \E v \in Arg(f) : CallField(f, v) \/ CallSquelch(f, v)
    BY <1>3
  <2>2. f # Vfo /\ SqlEnable # Vfo
    BY VfoIsNotPlain, ArgAssumption DEF ArgAssumption, PlainFields
  <2>3. asked'[Vfo] = asked[Vfo] /\ UNCHANGED <<vfo_modes, fg_vfo>>
    BY <2>1, <2>2, SpecialFields
    DEF CallField, CallSquelch, SetField, SetSquelch, Ask, PanelTypeOK
  <2> QED
    BY <1>1, <1>2, <1>3, <2>3, FieldCallsKeepUnshared DEF CopiesAgree
<1>4. CASE (\E on \in {{}, {0}} : CallAtuTune(on)) \/ CallPoweroff
  <2>1. asked'[Vfo] = asked[Vfo] /\ UNCHANGED <<vfo_modes, fg_vfo>>
    BY <1>4, VfoIsNotPlain, SpecialFields
    DEF CallAtuTune, CallPoweroff, x6200_control_atu_tune,
        x6200_control_poweroff, Ask, PanelTypeOK
  <2> QED
    BY <1>1, <1>2, <1>4, <2>1, FieldCallsKeepUnshared DEF CopiesAgree
<1>5. CASE \E vfo \in {VfoA, VfoB} : CallVfo(vfo)
  <2>1. asked'[Vfo] = fg_vfo' /\ UNCHANGED vfo_modes
    BY <1>5, SpecialFields DEF CallVfo, x6200_control_vfo_set, Ask, PanelTypeOK
  <2> QED
    BY <1>1, <1>2, <1>5, <2>1, FieldCallsKeepUnshared
<1>6. CASE \E vfo \in {VfoA, VfoB}, mode \in Modes : CallMode(vfo, mode)
  <2>1. PICK vfo \in {VfoA, VfoB}, mode \in Modes : CallMode(vfo, mode)
    BY <1>6
  <2>2. /\ all_cmd' = [all_cmd EXCEPT ![ModeReg(vfo)] = mode]
        /\ vfo_modes' = [vfo_modes EXCEPT ![vfo] = mode]
        /\ UNCHANGED <<asked, fg_vfo>>
    BY <2>1 DEF CallMode, x6200_control_vfo_mode_set, x6200_control_cmd
  <2>3. \A other \in {VfoA, VfoB} \ {vfo} : ModeReg(other) # ModeReg(vfo)
    BY DEF ModeReg, VfoA, VfoB
  <2>4. ASSUME NEW other \in {VfoA, VfoB}
        PROVE  FilterReg(vfo_modes'[other]) = FilterReg(all_cmd'[ModeReg(other)])
    <3>1. CASE other = vfo
      <4>1. vfo_modes'[other] = mode /\ all_cmd'[ModeReg(other)] = mode
        BY <2>2, <3>1, ModeRegUnshared DEF PanelTypeOK
      <4> QED
        BY <4>1
    <3>2. CASE other # vfo
      <4>1. /\ vfo_modes'[other] = vfo_modes[other]
            /\ all_cmd'[ModeReg(other)] = all_cmd[ModeReg(other)]
        BY <2>2, <2>3, <3>2, ModeRegUnshared DEF PanelTypeOK
      <4> QED
        BY <4>1 DEF CopiesAgree
    <3> QED
      BY <3>1, <3>2
  <2> QED
    BY <2>2, <2>4 DEF CopiesAgree
<1>7. CASE \E p \in Passbands :
             CallFilter(p) \/ CallFilterLow(p.low) \/ CallFilterHigh(p.high)
  <2>1. PICK val : set_rx_filters(val)
    BY <1>7
    DEF CallFilter, CallFilterLow, CallFilterHigh, x6200_control_rx_filter_set,
        x6200_control_rx_filter_set_low, x6200_control_rx_filter_set_high
  <2>2. Current \notin {"vfoa_mode", "vfob_mode"}
    BY FilterRegType DEF PanelTypeOK, Current, FilterRegs
  <2>3. \A reg \in {"vfoa_mode", "vfob_mode"} : all_cmd'[reg] = all_cmd[reg]
    BY <2>1, <2>2 DEF set_rx_filters, Current, PanelTypeOK, Reg
  <2>4. UNCHANGED <<asked, vfo_modes, fg_vfo>>
    BY <1>7, <2>1 DEF CallFilter, CallFilterLow, CallFilterHigh, set_rx_filters
  <2> QED
    BY <1>1, <2>3, <2>4 DEF CopiesAgree
<1>8. CASE \E p \in Passbands : CallSsbFilter(p)
  <2>1. {"vfoa_mode", "vfob_mode"} \subseteq Reg \ {"filter_ssb"}
    BY DEF Reg
  <2>2. \A reg \in {"vfoa_mode", "vfob_mode"} : all_cmd'[reg] = all_cmd[reg]
    BY <1>8, <2>1, SsbCallWrites
  <2>3. UNCHANGED <<asked, vfo_modes, fg_vfo>>
    BY <1>8, SsbCallWrites
  <2> QED
    BY <1>1, <2>2, <2>3 DEF CopiesAgree
<1>9. CASE UNCHANGED vars
  BY <1>9 DEF vars, code, CopiesAgree
<1> QED
  BY <1>3, <1>4, <1>5, <1>6, <1>7, <1>8, <1>9 DEF Next, Call, VfoCall

(* RightFilter for any number of calls: what the user hears is filtered as  *)
(* the mode of the VFO in front wants it (control.c:15-24, 99-132).         *)
THEOREM FilterIsRight == Spec => []RightFilter
<1>1. PanelTypeOK /\ LastCallWins /\ CopiesAgree => RightFilter
  BY SpecialFields DEF LastCallWins, CopiesAgree, RightFilter, Current, PanelTypeOK
<1>2. PanelInit => LastCallWins
  BY DEF PanelInit, LastCallWins
<1> QED
  BY <1>1, <1>2, InitTypes, InitCopies, CallType, CallShows, CallKeepsCopies, PTL
  DEF Spec

=============================================================================
