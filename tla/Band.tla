-------------------------------- MODULE Band --------------------------------
(***************************************************************************)
(* Band selection in src/src/low/control.c: band_index numbers the amateur *)
(* bands and the gaps between them, x6200_control_set_band remembers the   *)
(* number and tells its caller whether it has changed.                     *)
(*                                                                         *)
(* The caller has a frequency as uint32_t, two halves of 16 bits here; the *)
(* numbers are those of C's int.  It reacts to a changed band (the library *)
(* once called x6200_control_vfo_set then, src/src/control.c:28-35), so    *)
(* all it knows of the band is from the frequencies that were answered     *)
(* with true.                                                              *)
(***************************************************************************)
EXTENDS Integers

CONSTANT Freqs   \* the frequencies the caller sets

Half == 0 .. 65535

Uint32 == [hi : Half, lo : Half]

ASSUME FreqsAssumption == Freqs \subseteq Uint32

(* A uint32_t converted to int, which has 32 bits. *)
ToInt(u) == (IF u.hi < 32768 THEN u.hi ELSE u.hi - 65536) * 65536 + u.lo

(* The n-th comparison is with Limit[n]: less than the lower end of a band  *)
(* for odd n, not above its upper end for even n.                           *)
Limit ==
  <<  1800000,  2000000,  3500000,  4000000,  5330500,  5405000,
      7000000,  7300000, 10100000, 10150000, 14000000, 14350000,
     18068000, 18168000, 21000000, 21450000, 24890000, 24990000,
     28000000, 29700000, 50000000, 54000000 >>

Comparisons == 1 .. 22

(* Slip (see Mutants in README.md): the upper end is left out of a band. *)
StrictlyBelow(freq, n) == freq < Limit[n]

Below(freq, n) == IF n % 2 = 1 THEN freq < Limit[n] ELSE freq <= Limit[n]

(* The first comparison that holds decides. *)
Decides(freq, n) == Below(freq, n) /\ \A m \in 1 .. n - 1 : ~ Below(freq, m)

(* Slip: the numbers start at one. *)
band_index_from_one(freq) ==
  IF \E n \in Comparisons : Decides(freq, n)
  THEN CHOOSE n \in Comparisons : Decides(freq, n)
  ELSE 23

band_index(freq) ==
  IF \E n \in Comparisons : Decides(freq, n)
  THEN (CHOOSE n \in Comparisons : Decides(freq, n)) - 1
  ELSE 22

-----------------------------------------------------------------------------
VARIABLES
  cur_band,
  answer,   \* what x6200_control_set_band returned last
  freq,     \* the frequency set last
  acted     \* the frequency set last that was answered with true

vars == <<cur_band, answer, freq, acted>>

Lowest == [hi |-> 0, lo |-> 0]

Init ==
  /\ cur_band = 0
  /\ answer = FALSE
  /\ freq = Lowest /\ acted = Lowest

(* Slip: the new band is not remembered. *)
set_band_forgetting(u) ==
  /\ answer' = (band_index(ToInt(u)) # cur_band)
  /\ UNCHANGED cur_band

(* x6200_control_set_band *)
set_band(u) ==
  LET band == band_index(ToInt(u))
  IN  /\ answer' = (band # cur_band)
      /\ cur_band' = band

SetBand(u) ==
  /\ set_band(u)
  /\ freq' = u
  /\ acted' = IF answer' THEN u ELSE acted

Next == \E u \in Freqs : SetBand(u)

Spec == Init /\ [][Next]_vars

-----------------------------------------------------------------------------
(* The amateur bands as the list at low/control.c:341-351 has them, from    *)
(* 160 m to 6 m, both ends included: <<lower end, upper end>>.              *)
Ham == 1 .. 11

Listed ==
  << << 1800000,  2000000>>, << 3500000,  4000000>>, << 5332000,  5405000>>,
     << 7000000,  7300000>>, <<10100000, 10150000>>, <<14000000, 14350000>>,
     <<18068000, 18168000>>, <<21000000, 21450000>>, <<24890000, 24990000>>,
     <<28000000, 29700000>>, <<50000000, 54000000>> >>

Lower(b) == Listed[b][1]
Upper(b) == Listed[b][2]

(* The number the list gives a frequency: 2b - 1 inside the b-th band, 2b   *)
(* above it and below the next.                                             *)
Meant(f, index) ==
  /\ index \in 0 .. 22
  /\ \A b \in Ham :
       /\ index >= 2 * b - 1 <=> f >= Lower(b)
       /\ index >= 2 * b <=> f > Upper(b)

(* Where the code and the list differ: band_index begins 60 m earlier.      *)
Disputed(f) == Limit[5] <= f /\ f < Lower(3)

BandTypeOK ==
  /\ cur_band \in 0 .. 22
  /\ answer \in BOOLEAN
  /\ freq \in Uint32 /\ acted \in Uint32

(* What the list promises a caller that looks only at the frequencies       *)
(* answered with true (control.c:28-35): the band of the frequency set      *)
(* last, taken from low/control.c:341-351, is that of the one it acted on   *)
(* last.                                                                    *)
ListedBandKnown ==
  \E index \in 0 .. 22 : Meant(ToInt(acted), index) /\ Meant(ToInt(freq), index)

(* The same outside the disputed end of 60 m, frequencies at the end of a   *)
(* band or past 2^31 - 1 (negative as int) included, for a caller that      *)
(* starts from where cur_band starts.                                       *)
CallerKnowsBand ==
  ~ Disputed(ToInt(freq)) /\ ~ Disputed(ToInt(acted)) => ListedBandKnown

(* An answer of true is never wrong outside the disputed end of 60 m: the   *)
(* two frequencies lie in different bands of the list, or one of them in    *)
(* none (x6200_control_set_band, low/control.c:534-546).                    *)
NoIdleChange ==
  [][/\ answer'
     /\ ~ Disputed(ToInt(freq)) /\ ~ Disputed(ToInt(freq'))
     => \E b \in Ham :
          \/ (ToInt(freq') >= Lower(b)) # (ToInt(freq) >= Lower(b))
          \/ (ToInt(freq') > Upper(b)) # (ToInt(freq) > Upper(b))]_vars

=============================================================================
