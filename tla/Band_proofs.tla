---------------------------- MODULE Band_proofs -----------------------------
(***************************************************************************)
(* band_index numbers frequencies as the list of bands has them, and the   *)
(* caller of x6200_control_set_band knows the band; the lower end of 60 m, *)
(* on which code and list differ, is left out of both.                     *)
(***************************************************************************)
EXTENDS Band, TLAPS

(* The comparisons of band_index (low/control.c:483-532) are with ascending *)
(* limits.                                                                  *)
LEMMA LimitsAscend ==
  /\ \A n \in Comparisons : Limit[n] \in Int
  /\ \A m, n \in Comparisons : m < n => Limit[m] < Limit[n]
BY SMTT(30) DEF Limit, Comparisons

(* When no comparison is the first that holds, none holds.                  *)
LEMMA FirstOrNone ==
  ASSUME NEW f \in Int, \A n \in Comparisons : ~ Decides(f, n)
  PROVE  \A n \in Comparisons : ~ Below(f, n)
<1> DEFINE None(k) == \A n \in Comparisons : n <= k => ~ Below(f, n)
<1>1. ASSUME NEW k \in 0 .. 21, None(k) PROVE None(k + 1)
  BY <1>1 DEF Decides, Comparisons
<1>2. None(0)
  BY DEF Comparisons
<1> HIDE DEF None
<1>3. None(1) /\ None(2) /\ None(3) /\ None(4) /\ None(5)
  BY <1>1, <1>2
<1>4. None(6) /\ None(7) /\ None(8) /\ None(9) /\ None(10) /\ None(11)
  BY <1>1, <1>3
<1>5. None(12) /\ None(13) /\ None(14) /\ None(15) /\ None(16) /\ None(17)
  BY <1>1, <1>4
<1>6. None(18) /\ None(19) /\ None(20) /\ None(21) /\ None(22)
  BY <1>1, <1>5
<1> QED
  BY <1>6 DEF None, Comparisons

(* The number by the code's own limits, odd inside a band, both ends        *)
(* included, and even between two.                                          *)
Placed(f, index) ==
  /\ index \in 0 .. 22
  /\ \A b \in Ham :
       /\ index >= 2 * b - 1 <=> f >= Limit[2 * b - 1]
       /\ index >= 2 * b <=> f > Limit[2 * b]

(* A comparison that is the first to hold lies between the limits before it *)
(* and those after it.                                                      *)
LEMMA DeciderIsPlace ==
  ASSUME NEW f \in Int, NEW n \in Comparisons, Decides(f, n)
  PROVE  Placed(f, n - 1)
<1> SUFFICES ASSUME NEW b \in Ham
             PROVE  /\ n - 1 >= 2 * b - 1 <=> f >= Limit[2 * b - 1]
                    /\ n - 1 >= 2 * b <=> f > Limit[2 * b]
  BY DEF Placed, Comparisons
<1>1. 2 * b - 1 \in Comparisons /\ 2 * b \in Comparisons
  BY DEF Ham, Comparisons
<1>2. (2 * b - 1) % 2 = 1 /\ (2 * b) % 2 = 0
  BY DEF Ham
<1>3. /\ Below(f, 2 * b - 1) <=> f < Limit[2 * b - 1]
      /\ Below(f, 2 * b) <=> f <= Limit[2 * b]
  BY <1>2 DEF Below
<1>4. \A m \in Comparisons : m >= n => f <= Limit[m] /\ (m > n => f < Limit[m])
  <2>1. f <= Limit[n] /\ n \in Int /\ Limit[n] \in Int
    BY LimitsAscend DEF Decides, Below, Comparisons
  <2>2. ASSUME NEW m \in Comparisons, m > n PROVE f < Limit[m]
    BY <2>1, <2>2, LimitsAscend DEF Comparisons
  <2> SUFFICES ASSUME NEW m \in Comparisons, m >= n
               PROVE  f <= Limit[m] /\ (m > n => f < Limit[m])
    OBVIOUS
  <2>3. CASE m = n
    BY <2>1, <2>3
  <2>4. CASE m > n
    BY <2>2, <2>4, LimitsAscend
  <2> QED
    BY <2>3, <2>4 DEF Comparisons
<1>5. \A m \in Comparisons : m < n => ~ Below(f, m)
  BY DEF Decides, Comparisons
<1>6. Limit[2 * b - 1] \in Int /\ Limit[2 * b] \in Int
  BY <1>1, LimitsAscend
<1>7. n - 1 >= 2 * b - 1 <=> f >= Limit[2 * b - 1]
  <2>1. CASE n > 2 * b - 1
    BY <2>1, <1>1, <1>3, <1>5, <1>6 DEF Comparisons, Ham
  <2>2. CASE n = 2 * b - 1
    BY <2>2, <1>3, <1>6 DEF Decides, Ham
  <2>3. CASE n < 2 * b - 1
    BY <2>3, <1>1, <1>4, <1>6 DEF Comparisons, Ham
  <2> QED
    BY <2>1, <2>2, <2>3 DEF Comparisons, Ham
<1>8. n - 1 >= 2 * b <=> f > Limit[2 * b]
  <2>1. CASE n > 2 * b
    BY <2>1, <1>1, <1>3, <1>5, <1>6 DEF Comparisons, Ham
  <2>2. CASE n <= 2 * b
    BY <2>2, <1>1, <1>4, <1>6 DEF Comparisons, Ham
  <2> QED
    BY <2>1, <2>2 DEF Comparisons, Ham
<1> QED
  BY <1>7, <1>8

(* band_index gives every int, negative ones included, its place among the  *)
(* limits (low/control.c:485-531).                                          *)
LEMMA BandIndexIsPlace ==
  ASSUME NEW f \in Int
  PROVE  Placed(f, band_index(f))
<1>1. CASE \E n \in Comparisons : Decides(f, n)
  <2>1. PICK n \in Comparisons : band_index(f) = n - 1 /\ Decides(f, n)
    BY <1>1, Zenon DEF band_index
  <2> QED
    BY <2>1, DeciderIsPlace
<1>2. CASE \A n \in Comparisons : ~ Decides(f, n)
  <2>1. band_index(f) = 22
    BY <1>2 DEF band_index
  <2>2. ASSUME NEW b \in Ham PROVE f >= Limit[2 * b - 1] /\ f > Limit[2 * b]
    <3>1. ~ Below(f, 2 * b - 1) /\ ~ Below(f, 2 * b)
      BY <1>2, FirstOrNone DEF Ham, Comparisons
    <3> QED
      BY <3>1, LimitsAscend DEF Below, Ham, Comparisons
  <2> QED
    BY <2>1, <2>2 DEF Placed, Ham
<1> QED
  BY <1>1, <1>2

(* The list and the code have the same ends, the lower one of 60 m aside    *)
(* (low/control.c:341-351, 485-527).                                        *)
LEMMA SameEnds ==
  ASSUME NEW b \in Ham
  PROVE  /\ Upper(b) = Limit[2 * b]
         /\ b # 3 => Lower(b) = Limit[2 * b - 1]
         /\ Lower(3) = 5332000 /\ Limit[5] = 5330500
<1>1. b \in {1, 2, 3, 4, 5, 6, 7, 8, 9, 10, 11}
  BY DEF Ham
<1>2. Lower(3) = 5332000 /\ Limit[5] = 5330500
  BY DEF Lower, Listed, Limit
<1>3. Upper(b) = Limit[2 * b]
  BY <1>1, SMTT(30) DEF Upper, Listed, Limit
<1>4. b # 3 => Lower(b) = Limit[2 * b - 1]
  BY <1>1, SMTT(30) DEF Lower, Listed, Limit
<1> QED
  BY <1>2, <1>3, <1>4

(* Outside the disputed end the place is the number the list gives.         *)
LEMMA PlaceIsMeant ==
  ASSUME NEW f \in Int, ~ Disputed(f), NEW i
  PROVE  Placed(f, i) <=> Meant(f, i)
<1>1. ASSUME NEW b \in Ham
      PROVE  /\ f >= Lower(b) <=> f >= Limit[2 * b - 1]
             /\ f > Upper(b) <=> f > Limit[2 * b]
  <2>1. CASE b = 3
    BY <2>1, SameEnds DEF Disputed
  <2>2. CASE b # 3
    BY <2>2, SameEnds
  <2> QED
    BY <2>1, <2>2
<1> QED
  BY <1>1, Zenon DEF Placed, Meant

(* band_index numbers every int as the list of bands has it, negative ones  *)
(* included, but those at the start of 60 m on which the two differ: the    *)
(* twenty-two comparisons (low/control.c:485-531) have their ends right.    *)
THEOREM BandIndexIsMeant ==
  ASSUME NEW f \in Int, ~ Disputed(f)
  PROVE  Meant(f, band_index(f))
BY BandIndexIsPlace, PlaceIsMeant

LEMMA ToIntInt == ASSUME NEW u \in Uint32 PROVE ToInt(u) \in Int
<1>1. u.hi \in Half /\ u.lo \in Half
  BY DEF Uint32
<1>2. \A x \in Half : x \in Int
  BY DEF Half
<1>3. u.hi \in Int /\ u.lo \in Int
  BY <1>1, <1>2, Zenon
<1> QED
  BY <1>3 DEF ToInt

(* A frequency has one place.                                               *)
LEMMA PlaceIsUnique ==
  ASSUME NEW f \in Int, NEW i, NEW j, Placed(f, i), Placed(f, j)
  PROVE  i = j
<1>1. i \in 0 .. 22 /\ j \in 0 .. 22
  BY DEF Placed
<1>2. \A b \in Ham : (i >= 2 * b - 1 <=> j >= 2 * b - 1) /\ (i >= 2 * b <=> j >= 2 * b)
  BY DEF Placed
<1>3. \A k \in Comparisons : \E b \in Ham : k = 2 * b \/ k = 2 * b - 1
  BY DEF Comparisons, Ham
<1>4. \A k \in Comparisons : i >= k <=> j >= k
  BY <1>2, <1>3 DEF Ham
<1>5. i >= 1 => j >= i
  BY <1>1, <1>4 DEF Comparisons
<1>6. j >= 1 => i >= j
  BY <1>1, <1>4 DEF Comparisons
<1> QED
  BY <1>1, <1>5, <1>6

(* cur_band is the place of the frequency set last, and of the one the      *)
(* caller acted on.                                                         *)
BandInv ==
  /\ BandTypeOK
  /\ Placed(ToInt(freq), cur_band)
  /\ Placed(ToInt(acted), cur_band)

LEMMA LowestIsBandZero == Placed(ToInt(Lowest), 0)
<1>1. ToInt(Lowest) = 0
  BY DEF ToInt, Lowest
<1>2. \A n \in Comparisons : Limit[n] \in Int /\ Limit[n] >= 1800000
  BY LimitsAscend, Limit[1] = 1800000 DEF Comparisons, Limit
<1>3. \A b \in Ham : 2 * b - 1 \in Comparisons /\ 2 * b \in Comparisons
  BY DEF Ham, Comparisons
<1> QED
  BY <1>1, <1>2, <1>3 DEF Placed, Ham

LEMMA BandInductive == BandInv /\ [Next]_vars => BandInv'
<1> SUFFICES ASSUME BandInv, [Next]_vars PROVE BandInv'
  OBVIOUS
<1>1. CASE UNCHANGED vars
  BY <1>1 DEF vars, BandInv, BandTypeOK
<1>2. ASSUME NEW u \in Freqs, SetBand(u) PROVE BandInv'
  <2>1. u \in Uint32 /\ Placed(ToInt(u), band_index(ToInt(u)))
    BY FreqsAssumption, ToIntInt, BandIndexIsPlace
  <2>2. cur_band' = band_index(ToInt(u)) /\ freq' = u
    BY <1>2 DEF SetBand, set_band
  <2>3. acted' = u \/ (acted' = acted /\ cur_band' = cur_band)
    BY <1>2 DEF SetBand, set_band
  <2>4. Placed(ToInt(acted'), cur_band')
    BY <2>1, <2>2, <2>3 DEF BandInv
  <2>5. BandTypeOK'
    BY <1>2, <2>1, <2>2, <2>3 DEF SetBand, set_band, BandInv, BandTypeOK, Placed
  <2> QED
    BY <2>1, <2>2, <2>4, <2>5 DEF BandInv
<1> QED
  BY <1>1, <1>2 DEF Next

(* The number x6200_control_set_band keeps (low/control.c:534-546) is that  *)
(* of the frequency set last and of the one answered with true last.        *)
THEOREM BandInvariant == Spec => []BandInv
<1>1. Init => BandInv
  <2>1. Lowest \in Uint32
    BY DEF Lowest, Uint32, Half
  <2>2. 0 \in 0 .. 22 /\ FALSE \in BOOLEAN
    OBVIOUS
  <2> QED
    BY <2>1, <2>2, LowestIsBandZero, Zenon DEF Init, BandInv, BandTypeOK
<1> QED
  BY <1>1, BandInductive, PTL DEF Spec

(* cur_band is always one of the 23 numbers band_index gives out            *)
(* (low/control.c:483-532), for any frequencies.                            *)
THEOREM BandTypes == Spec => []BandTypeOK
<1>1. BandInv => BandTypeOK
  BY DEF BandInv
<1> QED
  BY <1>1, BandInvariant, PTL

(* The caller that acts on answers of true alone (control.c:28-35) has the  *)
(* band of the frequency set last, for any frequencies outside the disputed *)
(* end of 60 m.                                                             *)
THEOREM CallerAlwaysKnowsBand == Spec => []CallerKnowsBand
<1>1. ASSUME BandInv PROVE CallerKnowsBand
  <2> SUFFICES ASSUME ~ Disputed(ToInt(freq)), ~ Disputed(ToInt(acted))
               PROVE  ListedBandKnown
    BY DEF CallerKnowsBand
  <2>1. ToInt(freq) \in Int /\ ToInt(acted) \in Int /\ cur_band \in 0 .. 22
    BY <1>1, ToIntInt DEF BandInv, BandTypeOK
  <2>2. Meant(ToInt(freq), cur_band) /\ Meant(ToInt(acted), cur_band)
    BY <1>1, <2>1, PlaceIsMeant DEF BandInv
  <2> QED
    BY <2>1, <2>2 DEF ListedBandKnown
<1> QED
  BY <1>1, BandInvariant, PTL

(* An answer of true is never wrong, for any frequencies outside the        *)
(* disputed end of 60 m (x6200_control_set_band, low/control.c:534-546).    *)
THEOREM NeverAnIdleChange == Spec => NoIdleChange
<1> DEFINE Undisputed == ~ Disputed(ToInt(freq)) /\ ~ Disputed(ToInt(freq'))
<1> DEFINE Crossed ==
      \E b \in Ham :
        \/ (ToInt(freq') >= Lower(b)) # (ToInt(freq) >= Lower(b))
        \/ (ToInt(freq') > Upper(b)) # (ToInt(freq) > Upper(b))
<1>1. ASSUME BandInv, BandInv', [Next]_vars
      PROVE  [answer' /\ Undisputed => Crossed]_vars
  <2> SUFFICES ASSUME NEW u \in Freqs, SetBand(u), answer', Undisputed, ~ Crossed
               PROVE  FALSE
    BY <1>1 DEF Next
  <2>1. cur_band' # cur_band
    BY DEF SetBand, set_band
  <2>2. ToInt(freq) \in Int /\ ToInt(freq') \in Int
    BY <1>1, ToIntInt DEF BandInv, BandTypeOK
  <2>3. Meant(ToInt(freq), cur_band) /\ Placed(ToInt(freq'), cur_band')
    BY <1>1, <2>2, PlaceIsMeant DEF BandInv
  <2>4. Meant(ToInt(freq'), cur_band)
    BY <2>3 DEF Meant
  <2>5. Placed(ToInt(freq'), cur_band)
    BY <2>2, <2>4, PlaceIsMeant
  <2> QED
    BY <2>1, <2>2, <2>3, <2>5, PlaceIsUnique
<1> QED
  BY <1>1, BandInvariant, PTL DEF Spec, NoIdleChange

=============================================================================
