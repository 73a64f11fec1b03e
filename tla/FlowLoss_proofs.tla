--------------------------- MODULE FlowLoss_proofs ---------------------------
(***************************************************************************)
(* Proofs about FlowLine on streams with damage: what is handed out twice, *)
(* late, and what is lost.  They need no ideal checksum: whatever Crc is,  *)
(* the places of the packets follow from how the buffer is searched.       *)
(***************************************************************************)
EXTENDS FlowLine_proofs

-----------------------------------------------------------------------------
(* How far into the stream each step looks                                  *)

LEMMA Numbers ==
  ASSUME PieceInv
  PROVE  /\ TypeOK /\ buf \in Seq(Cell) /\ stream \in Seq(Cell)
         /\ arrived \in Nat /\ Len(buf) \in Nat /\ Len(stream) \in Nat
         /\ ReadUpTo \in Nat /\ ReadUpTo = arrived - Len(buf)
         /\ opened \in Nat /\ opened <= ReadUpTo
         /\ read_ptr \in Nat /\ Len(buf) <= 3 * PackLen
         /\ pc # "idle" => read_ptr <= Len(buf)
         /\ pc \in {"idle", "scan", "compact"}
         /\ Len(delivered) \in Nat
         /\ DOMAIN places = 1 .. Len(delivered)
         /\ DOMAIN delivered = 1 .. Len(delivered)
         /\ \A i \in 1 .. Len(delivered) : places[i] \in Nat
<1>1. TypeOK /\ BufferInv /\ places \in Seq(Nat) /\ Len(places) = Len(delivered)
  BY DEF PieceInv, CheckedInv, BufferInv, Handed
<1>2. delivered \in Seq(Seq(Cell)) /\ Len(delivered) \in Nat
  BY <1>1, LenProperties DEF TypeOK
<1>3. DOMAIN places = 1 .. Len(delivered) /\ DOMAIN delivered = 1 .. Len(delivered)
  BY <1>1, <1>2, LenProperties
<1>4. \A i \in 1 .. Len(delivered) : places[i] \in Nat
  BY <1>1, ElementOfSeq
<1>5. Len(buf) <= 3 * PackLen /\ (pc # "idle" => read_ptr <= Len(buf))
  BY <1>1, Sizes DEF BufferInv
<1> QED
  BY <1>1, <1>2, <1>3, <1>4, <1>5, Places DEF TypeOK, ReadUpTo, PieceInv

(* The cells kept when room is made: two packets' worth at most.            *)
KeptLen == IF Len(buf) > 2 * PackLen THEN 2 * PackLen ELSE Len(buf)

LEMMA KeptIsShifted ==
  ASSUME PieceInv
  PROVE  Len(Shifted) = KeptLen /\ KeptLen \in Nat /\ KeptLen <= Len(buf)
<1>1. /\ buf \in Seq(Cell) /\ Len(buf) \in Nat /\ Len(buf) <= 3 * PackLen
      /\ PackLen \in Nat
  BY Numbers, Sizes
<1>2. CASE Len(buf) > 2 * PackLen
  <2> DEFINE n == PackLen - (BufSize - Len(buf))
  <2>1. n \in Nat /\ n <= Len(buf) /\ Len(buf) - n = 2 * PackLen
    BY <1>1, <1>2, Sizes
  <2>2. Shifted = Drop(buf, n)
    BY <1>1, <1>2, Sizes DEF Shifted
  <2> QED
    BY <1>1, <1>2, <2>1, <2>2, DropType DEF KeptLen
<1>3. CASE ~ (Len(buf) > 2 * PackLen)
  <2>1. Shifted = buf
    BY <1>1, <1>3, Sizes DEF Shifted
  <2> QED
    BY <1>1, <1>3, <2>1 DEF KeptLen
<1> QED
  BY <1>2, <1>3

(* Where in the stream the oldest of them stands.                           *)
KeptFrom == arrived - KeptLen

NumbersInv ==
  /\ arrived \in Nat /\ ReadUpTo \in Nat /\ Len(buf) \in Nat /\ KeptFrom \in Int
  /\ ReadUpTo <= KeptFrom /\ arrived - 2 * PackLen <= KeptFrom
  /\ KeptFrom <= arrived
  /\ Len(buf) <= 2 * PackLen => KeptFrom = ReadUpTo

LEMMA AreNumbers == PieceInv => NumbersInv
<1> SUFFICES ASSUME PieceInv PROVE NumbersInv
  OBVIOUS
<1>1. /\ arrived \in Nat /\ ReadUpTo \in Nat /\ Len(buf) \in Nat
      /\ ReadUpTo = arrived - Len(buf) /\ PackLen \in Nat
      /\ KeptLen \in Nat /\ KeptLen <= Len(buf)
  BY Numbers, KeptIsShifted, Sizes
<1>2. KeptLen <= 2 * PackLen /\ (Len(buf) <= 2 * PackLen => KeptLen = Len(buf))
  BY <1>1 DEF KeptLen
<1> QED
  BY <1>1, <1>2 DEF NumbersInv, KeptFrom

LEMMA AreNumbersNext == PieceInv' => NumbersInv'
BY AreNumbers, PTL

(* A read makes room, and only the arrival of cells starts a scan.          *)
LEMMA ReadLooks ==
  ASSUME PieceInv, LineCall, Read
  PROVE  /\ pc = "idle" /\ UNCHANGED <<stream, opened, delivered, places>>
         /\ ReadUpTo' = KeptFrom /\ arrived' >= arrived
         /\ \/ pc' = "idle" /\ Len(buf') <= 2 * PackLen
            \/ pc' = "scan" /\ read_ptr' = 0 /\ arrived' > arrived
<1>1. /\ pc = "idle" /\ UNCHANGED <<stream, opened, delivered, places>>
  BY DEF LineCall, Read, ReadNothing, ReadCells
<1>2. /\ Shifted \in Seq(Cell) /\ Len(Shifted) = KeptLen /\ KeptLen \in Nat
      /\ KeptLen <= 2 * PackLen /\ arrived \in Nat
  BY ShiftedPiece, KeptIsShifted, Numbers, Sizes DEF KeptLen
<1>3. CASE ReadNothing
  <2>1. buf' = Shifted /\ arrived' = arrived /\ pc' = "idle"
    BY <1>1, <1>3 DEF ReadNothing, arrived
  <2> QED
    BY <1>1, <1>2, <2>1 DEF ReadUpTo, KeptFrom
<1>4. CASE \E n \in 1 .. PackLen : ReadCells(n)
  <2>1. PICK n \in 1 .. PackLen : ReadCells(n)
    BY <1>4
  <2>2. n \in Nat /\ n >= 1 /\ n <= Len(line) /\ line \in Seq(Cell) /\ Len(line) \in Nat
    BY <2>1, Sizes, Places DEF ReadCells
  <2>3. SubSeq(line, 1, n) \in Seq(Cell) /\ Len(SubSeq(line, 1, n)) = n
    BY <2>2, PieceType
  <2>4. Len(buf') = KeptLen + n
    <3>1. buf' = Shifted \o SubSeq(line, 1, n)
      BY <2>1 DEF ReadCells
    <3>2. Len(Shifted \o SubSeq(line, 1, n)) = Len(Shifted) + Len(SubSeq(line, 1, n))
      BY <1>2, <2>3, ConcatProperties
    <3> QED
      BY <1>2, <2>3, <3>1, <3>2
  <2>5. arrived' = arrived + n
    <3>1. Len(line') = Len(line) - n
      BY <2>1, <2>2, DropType DEF ReadCells
    <3> QED
      BY <1>1, <2>2, <3>1, Places DEF arrived
  <2>6. /\ \/ pc' = "scan" /\ read_ptr' = 0
           \/ pc' = "idle" /\ ~ (Len(buf') > PackLen)
    BY <2>1 DEF ReadCells
  <2> QED
    BY <1>1, <1>2, <2>2, <2>4, <2>5, <2>6, Sizes DEF ReadUpTo, KeptFrom
<1> QED
  BY <1>3, <1>4 DEF Read

(* The steps of a scan that hand nothing out.                               *)
Searches ==
  \/ ScanExhausted
  \/ ScanNoMagic
  \/ \E b \in 0 .. Len(buf) : ScanIncomplete(b) \/ ScanBad(b)

(* The steps that do, at place b of the buffer.                             *)
Gives(b) == ScanGood(b) \/ ScanGoodWithPrevHkey(b)

(* A step of a scan leaves the buffer where it is.                          *)
LEMMA ScanLooks ==
  ASSUME PieceInv, LineCall,
         Searches \/ \E b \in 0 .. Len(buf) : Gives(b)
  PROVE  /\ pc = "scan" /\ UNCHANGED <<line, stream, opened>>
         /\ UNCHANGED <<arrived, ReadUpTo>> /\ Len(buf') = Len(buf)
         /\ pc' \in {"scan", "compact"}
<1>1. /\ pc = "scan" /\ UNCHANGED <<line, stream, opened>>
      /\ pc' \in {"scan", "compact"}
  BY DEF LineCall, Searches, Gives, ScanExhausted, ScanNoMagic, ScanIncomplete,
         ScanBad, ScanGood, ScanGoodWithPrevHkey, Deliver, Scanning
<1>2. \/ UNCHANGED buf
      \/ \E b \in 0 .. Len(buf) :
           Len(buf) - b >= PackLen /\ buf' = [buf EXCEPT ![b + HkeyAt] = prev_hkey]
  BY DEF Searches, Gives, ScanExhausted, ScanNoMagic, ScanIncomplete,
         ScanBad, ScanGood, ScanGoodWithPrevHkey
<1>3. Len(buf') = Len(buf)
  <2>1. CASE UNCHANGED buf
    BY <2>1
  <2>2. ASSUME NEW b \in 0 .. Len(buf), Len(buf) - b >= PackLen,
               buf' = [buf EXCEPT ![b + HkeyAt] = prev_hkey]
        PROVE  Len(buf') = Len(buf)
    <3>1. b + HkeyAt \in 1 .. Len(buf) /\ buf \in Seq(Cell) /\ prev_hkey \in Cell
      BY <2>2, Numbers, CandidateType DEF TypeOK
    <3> QED
      BY <2>2, <3>1, ReplaceType
  <2> QED
    BY <1>2, <2>1, <2>2
<1> QED
  BY <1>1, <1>3 DEF arrived, ReadUpTo

LEMMA SearchLooks ==
  ASSUME PieceInv, LineCall, Searches
  PROVE  UNCHANGED <<delivered, places>>
BY DEF LineCall, Searches, ScanExhausted, ScanNoMagic, ScanIncomplete, ScanBad

(* A packet is looked for from read_ptr on.                                 *)
LEMMA GiveLooks ==
  ASSUME PieceInv, LineCall, NEW b \in 0 .. Len(buf), Gives(b)
  PROVE  /\ pc' = "compact" /\ read_ptr' = b + PackLen /\ b + PackLen <= Len(buf)
         /\ read_ptr <= b
         /\ FirstHit(b) /\ Deliver(b)
         /\ Len(delivered') = Len(delivered) + 1
         /\ DOMAIN places' = 1 .. Len(delivered) + 1
         /\ \A i \in 1 .. Len(delivered) :
              places'[i] = places[i] /\ delivered'[i] = delivered[i]
         /\ places'[Len(delivered) + 1] = ReadUpTo + b
         /\ delivered'[Len(delivered) + 1] = Candidate(b)
<1>1. Deliver(b) /\ FirstHit(b) /\ Len(buf) - b >= PackLen
  BY DEF Gives, ScanGood, ScanGoodWithPrevHkey
<1>2. /\ pc' = "compact" /\ read_ptr' = b + PackLen /\ b + PackLen <= Len(buf)
      /\ read_ptr <= b
  BY <1>1, Numbers, Sizes DEF Deliver, FirstHit, Hits
<1>3. DOMAIN places' = 1 .. Len(delivered) + 1
  BY <1>1, PlaceNoted, LenProperties
<1> QED
  BY <1>1, <1>2, <1>3, PlaceNoted

(* The memmove drops what the scan is done with, unless that is everything. *)
LEMMA CompactLooks ==
  ASSUME PieceInv, LineCall, Compact
  PROVE  /\ pc = "compact" /\ pc' = "idle" /\ read_ptr \in Nat
         /\ UNCHANGED <<line, stream, opened, delivered, places, arrived>>
         /\ \/ /\ read_ptr < Len(buf)
               /\ buf' = Drop(buf, read_ptr)
               /\ Len(buf') = Len(buf) - read_ptr
               /\ ReadUpTo' = ReadUpTo + read_ptr
            \/ read_ptr = Len(buf) /\ UNCHANGED <<buf, ReadUpTo>>
<1>1. /\ pc = "compact" /\ pc' = "idle"
      /\ UNCHANGED <<line, stream, opened, delivered, places, arrived>>
  BY DEF LineCall, Compact, arrived
<1>2. read_ptr \in Nat /\ read_ptr <= Len(buf) /\ Len(buf) \in Nat /\ buf \in Seq(Cell)
  BY <1>1, Numbers
<1>3. CASE read_ptr < Len(buf)
  <2>1. buf' = Drop(buf, read_ptr)
    BY <1>3 DEF Compact
  <2>2. Len(buf') = Len(buf) - read_ptr
    BY <1>2, <2>1, DropType
  <2> QED
    BY <1>1, <1>2, <1>3, <2>1, <2>2, Numbers DEF ReadUpTo
<1>4. CASE ~ (read_ptr < Len(buf))
  <2>1. UNCHANGED buf /\ read_ptr = Len(buf)
    BY <1>2, <1>4 DEF Compact
  <2> QED
    BY <1>1, <1>2, <2>1 DEF ReadUpTo
<1> QED
  BY <1>3, <1>4

(* A restart throws the buffer away and skips what was lost.                *)
LEMMA RestartLooks ==
  ASSUME PieceInv, NEW lost \in 0 .. Len(line), NEW outcome \in {"open", "dead"},
         LineRestart(lost, outcome)
  PROVE  /\ pc = "idle" /\ pc' = "idle" /\ UNCHANGED <<stream, delivered, places>>
         /\ Len(buf') = 0 /\ arrived' >= arrived
         /\ ReadUpTo' = arrived' /\ opened' = arrived'
<1>1. /\ pc = "idle" /\ pc' = "idle" /\ UNCHANGED <<stream, delivered, places>>
      /\ buf' = <<>> /\ line' = Drop(line, lost) /\ opened' = arrived + lost
  BY DEF LineRestart, Restart
<1>2. lost \in Nat /\ lost <= Len(line) /\ line \in Seq(Cell) /\ Len(line) \in Nat
  BY Places
<1>3. Len(line') = Len(line) - lost /\ Len(buf') = 0
  BY <1>1, <1>2, DropType, EmptySeq
<1> QED
  BY <1>1, <1>2, <1>3, Places DEF arrived, ReadUpTo

(* The other steps do not touch the buffer.                                 *)
LEMMA IdleLooks ==
  ASSUME PieceInv,
         \/ PortDies /\ UNCHANGED <<stream, opened, places>>
         \/ UNCHANGED lineVars
  PROVE  /\ UNCHANGED <<line, buf, stream, opened, delivered, places, pc, read_ptr>>
         /\ UNCHANGED <<arrived, ReadUpTo>>
BY DEF PortDies, lineVars, vars, arrived, ReadUpTo

(* The steps there are.                                                     *)
LEMMA Steps ==
  ASSUME [LineNext]_lineVars
  PROVE  \/ LineCall /\ Read
         \/ LineCall /\ Searches
         \/ LineCall /\ \E b \in 0 .. Len(buf) : Gives(b)
         \/ LineCall /\ Compact
         \/ \E lost \in 0 .. Len(line), outcome \in {"open", "dead"} :
              LineRestart(lost, outcome)
         \/ PortDies /\ UNCHANGED <<stream, opened, places>>
         \/ UNCHANGED lineVars
<1>1. LineCall => Read \/ Scan
  BY DEF LineCall, Call
<1>2. Scan => Searches \/ (\E b \in 0 .. Len(buf) : Gives(b)) \/ Compact
  BY DEF Scan, Searches, Gives
<1> QED
  BY <1>1, <1>2 DEF LineNext

-----------------------------------------------------------------------------
(* Handed out twice, but not a third time                                   *)

(* A packet is read to its end before it is handed out, and more of the     *)
(* stream before the next scan.  When the same packet is handed out again,  *)
(* cells stand behind it in the buffer, so that the memmove moves past it.  *)
TwiceInv ==
  /\ PieceInv
  /\ \A i \in DOMAIN places :
       /\ places[i] + PackLen <= arrived
       /\ pc = "scan" => places[i] + PackLen < arrived
  /\ \A i, j \in DOMAIN places :
       i < j /\ places[i] = places[j] =>
         \/ places[i] < ReadUpTo
         \/ /\ pc = "compact" /\ read_ptr < Len(buf)
            /\ places[i] + PackLen <= ReadUpTo + read_ptr
  /\ AtMostTwice

LEMMA InitTwice == LineInit => TwiceInv
<1> SUFFICES ASSUME LineInit PROVE TwiceInv
  OBVIOUS
<1>1. DOMAIN places = {}
  BY DEF LineInit
<1> QED
  BY <1>1, InitPiece DEF TwiceInv, AtMostTwice

(* Steps that hand nothing out, look no less far and do not lose track.     *)
LEMMA TwiceKept ==
  ASSUME TwiceInv, PieceInv', UNCHANGED places, ReadUpTo' >= ReadUpTo,
         arrived' >= arrived,
         pc' = "scan" => pc = "scan" \/ arrived' > arrived,
         pc # "compact"
  PROVE  TwiceInv'
<1>1. arrived' \in Nat /\ ReadUpTo' \in Nat
  BY AreNumbersNext DEF NumbersInv
<1>2. /\ arrived \in Nat /\ ReadUpTo \in Nat
      /\ PackLen \in Nat /\ \A i \in DOMAIN places : places[i] \in Nat
  BY Numbers, Sizes DEF TwiceInv
<1> QED
  BY <1>1, <1>2 DEF TwiceInv, AtMostTwice

LEMMA TwiceGiven ==
  ASSUME TwiceInv, PieceInv', LineCall, NEW b \in 0 .. Len(buf), Gives(b)
  PROVE  TwiceInv'
<1> DEFINE n == Len(delivered)
           q == ReadUpTo + b
<1>0. /\ PieceInv /\ n \in Nat /\ b \in Nat /\ ReadUpTo \in Nat /\ q \in Nat
      /\ PackLen \in Nat /\ Len(buf) \in Nat /\ arrived \in Nat
      /\ arrived = ReadUpTo + Len(buf)
      /\ DOMAIN places = 1 .. n /\ \A i \in 1 .. n : places[i] \in Nat
  BY Numbers, Sizes DEF TwiceInv
<1>1. /\ pc = "scan" /\ pc' = "compact" /\ UNCHANGED <<arrived, ReadUpTo>>
      /\ Len(buf') = Len(buf) /\ read_ptr' = b + PackLen /\ b + PackLen <= Len(buf)
      /\ DOMAIN places' = 1 .. n + 1 /\ places'[n + 1] = q
      /\ \A i \in 1 .. n : places'[i] = places[i]
  BY <1>0, GiveLooks, ScanLooks
<1>2. \A i \in 1 .. n : places[i] + PackLen < arrived
  BY <1>0, <1>1 DEF TwiceInv
<1>3. \A i \in 1 .. n + 1 : places'[i] + PackLen <= arrived'
  <2> TAKE i \in 1 .. n + 1
  <2>1. CASE i = n + 1
    BY <1>0, <1>1, <2>1
  <2>2. CASE i # n + 1
    <3>1. i \in 1 .. n
      BY <1>0, <2>2
    <3> QED
      BY <1>0, <1>1, <1>2, <3>1
  <2> QED
    BY <2>1, <2>2
<1>4. ASSUME NEW i \in 1 .. n + 1, NEW j \in 1 .. n + 1, i < j,
             places'[i] = places'[j]
      PROVE  \/ places'[i] < ReadUpTo'
             \/ /\ pc' = "compact" /\ read_ptr' < Len(buf')
                /\ places'[i] + PackLen <= ReadUpTo' + read_ptr'
  <2>1. i \in 1 .. n
    BY <1>0, <1>4
  <2>2. CASE j = n + 1
    <3>1. places'[i] = q /\ q + PackLen < arrived
      BY <1>1, <1>2, <1>4, <2>1, <2>2
    <3>2. b + PackLen < Len(buf) /\ q + PackLen = ReadUpTo + (b + PackLen)
      BY <1>0, <3>1
    <3> QED
      BY <1>0, <1>1, <3>1, <3>2
  <2>3. CASE j # n + 1
    <3>1. j \in 1 .. n
      BY <1>0, <2>3
    <3>2. places[i] < ReadUpTo
      BY <1>0, <1>1, <1>4, <2>1, <3>1 DEF TwiceInv
    <3> QED
      BY <1>1, <2>1, <3>2
  <2> QED
    BY <2>2, <2>3
<1>5. ASSUME NEW i \in 1 .. n + 1, NEW j \in 1 .. n + 1, NEW k \in 1 .. n + 1,
             i < j, j < k
      PROVE  ~ (places'[i] = places'[j] /\ places'[j] = places'[k])
  <2>1. i \in 1 .. n /\ j \in 1 .. n
    BY <1>0, <1>5
  <2>2. CASE k = n + 1
    <3>1. places[i] = places[j] => places[i] < ReadUpTo
      BY <1>0, <1>1, <1>5, <2>1 DEF TwiceInv
    <3>2. ReadUpTo <= q
      BY <1>0
    <3> QED
      BY <1>0, <1>1, <2>1, <2>2, <3>1, <3>2
  <2>3. CASE k # n + 1
    <3>1. k \in 1 .. n
      BY <1>0, <2>3
    <3> QED
      BY <1>0, <1>1, <1>5, <2>1, <3>1 DEF TwiceInv, AtMostTwice
  <2> QED
    BY <2>2, <2>3
<1>6. AtMostTwice'
  BY <1>1, <1>5 DEF AtMostTwice
<1> QED
  BY <1>1, <1>3, <1>4, <1>6 DEF TwiceInv

LEMMA TwiceCompacted ==
  ASSUME TwiceInv, PieceInv', LineCall, Compact
  PROVE  TwiceInv'
<1>0. /\ PieceInv /\ ReadUpTo \in Nat /\ PackLen \in Nat /\ PackLen > 0
      /\ arrived \in Nat
      /\ \A i \in DOMAIN places : places[i] \in Nat
  BY Numbers, Sizes DEF TwiceInv
<1>1. /\ pc' = "idle" /\ UNCHANGED <<places, arrived>> /\ read_ptr \in Nat
      /\ \/ read_ptr < Len(buf) /\ ReadUpTo' = ReadUpTo + read_ptr
         \/ read_ptr = Len(buf) /\ ReadUpTo' = ReadUpTo
  BY <1>0, CompactLooks
<1>2. ASSUME NEW i \in DOMAIN places, NEW j \in DOMAIN places, i < j,
             places[i] = places[j]
      PROVE  places[i] < ReadUpTo'
  <2>1. \/ places[i] < ReadUpTo
        \/ read_ptr < Len(buf) /\ places[i] + PackLen <= ReadUpTo + read_ptr
    BY <1>2 DEF TwiceInv
  <2>2. Len(buf) \in Nat /\ places[i] \in Nat
    BY <1>0, Numbers
  <2> QED
    BY <1>0, <1>1, <2>1, <2>2
<1>3. /\ \A i \in DOMAIN places : places[i] + PackLen <= arrived'
      /\ AtMostTwice'
  BY <1>1 DEF TwiceInv, AtMostTwice
<1> QED
  BY <1>1, <1>2, <1>3 DEF TwiceInv

LEMMA StepTwice == TwiceInv /\ [LineNext]_lineVars => TwiceInv'
<1> SUFFICES ASSUME TwiceInv, [LineNext]_lineVars PROVE TwiceInv'
  OBVIOUS
<1>0. PieceInv /\ PieceInv' /\ ReadUpTo \in Nat /\ arrived \in Nat
      /\ Len(buf) \in Nat /\ ReadUpTo = arrived - Len(buf)
  BY StepPiece, Numbers DEF TwiceInv
<1>1. CASE LineCall /\ Read
  <2>1. KeptFrom >= ReadUpTo /\ KeptFrom \in Int
    BY <1>0, AreNumbers DEF NumbersInv
  <2>2. /\ pc = "idle" /\ UNCHANGED places /\ arrived' >= arrived
        /\ ReadUpTo' = KeptFrom
        /\ pc' = "scan" => arrived' > arrived
    BY <1>0, <1>1, ReadLooks
  <2> QED
    BY <1>0, <2>1, <2>2, TwiceKept
<1>2. CASE LineCall /\ Searches
  <2>1. UNCHANGED <<places, arrived, ReadUpTo>> /\ pc = "scan"
    BY <1>0, <1>2, ScanLooks, SearchLooks
  <2> QED
    BY <1>0, <2>1, TwiceKept
<1>3. CASE LineCall /\ \E b \in 0 .. Len(buf) : Gives(b)
  BY <1>0, <1>3, TwiceGiven
<1>4. CASE LineCall /\ Compact
  BY <1>0, <1>4, TwiceCompacted
<1>5. CASE \E lost \in 0 .. Len(line), outcome \in {"open", "dead"} :
             LineRestart(lost, outcome)
  <2>1. /\ pc = "idle" /\ pc' = "idle" /\ UNCHANGED places /\ arrived' >= arrived
        /\ ReadUpTo' = arrived'
    BY <1>0, <1>5, RestartLooks
  <2>2. arrived' \in Nat
    BY <1>0, AreNumbersNext DEF NumbersInv
  <2> QED
    BY <1>0, <2>1, <2>2, TwiceKept
<1>6. CASE \/ PortDies /\ UNCHANGED <<stream, opened, places>>
           \/ UNCHANGED lineVars
  <2>1. UNCHANGED <<buf, places, arrived, ReadUpTo, pc, read_ptr>>
    BY <1>0, <1>6, IdleLooks
  <2> QED
    BY <1>0, <2>1 DEF TwiceInv, AtMostTwice
<1> QED
  BY <1>1, <1>2, <1>3, <1>4, <1>5, <1>6, Steps

(* AtMostTwice for any stream, checksum, slicing and restarts: an empty     *)
(* tail, which leaves a packet in the buffer that has been handed out       *)
(* (flow.c:213), costs one repetition and no more.                          *)
THEOREM NothingThreeTimes == LineSpec => []AtMostTwice
<1>1. TwiceInv => AtMostTwice
  BY DEF TwiceInv
<1> QED
  BY <1>1, InitTwice, StepTwice, PTL DEF LineSpec

-----------------------------------------------------------------------------
(* Late, but by one packet only                                             *)

(* The buffer reaches back by one packet from any packet handed out, at     *)
(* most, once room has been made in it: what is found in it later stands    *)
(* there or after.  The packet handed out last may be further ahead, until  *)
(* the memmove.                                                             *)
Behind(p) ==
  /\ pc = "idle" => p <= KeptFrom
  /\ pc = "scan" => p <= ReadUpTo
  /\ pc = "compact" => p <= ReadUpTo \/ p = ReadUpTo + read_ptr - 2 * PackLen

LateInv ==
  /\ PieceInv
  /\ \A i \in DOMAIN places : Behind(places[i] - PackLen)
  /\ OneLate

LEMMA InitLate == LineInit => LateInv
<1> SUFFICES ASSUME LineInit PROVE LateInv
  OBVIOUS
<1>1. DOMAIN places = {}
  BY DEF LineInit
<1> QED
  BY <1>1, InitPiece DEF LateInv, OneLate

(* A step that hands nothing out has only to keep what is behind, behind.   *)
LEMMA LateKept ==
  ASSUME LateInv, PieceInv', UNCHANGED places,
         \A p \in Int : Behind(p) => Behind(p)'
  PROVE  LateInv'
<1>1. \A i \in DOMAIN places : places[i] - PackLen \in Int
  BY Numbers, Sizes DEF LateInv
<1>2. PackLen' = PackLen
  OBVIOUS
<1> QED
  BY <1>1, <1>2 DEF LateInv, OneLate, Behind

LEMMA LateGiven ==
  ASSUME LateInv, PieceInv', LineCall, NEW b \in 0 .. Len(buf), Gives(b)
  PROVE  LateInv'
<1> DEFINE n == Len(delivered)
           q == ReadUpTo + b
<1>0. /\ PieceInv /\ n \in Nat /\ b \in Nat /\ ReadUpTo \in Nat /\ q \in Nat
      /\ PackLen \in Nat
      /\ DOMAIN places = 1 .. n /\ \A i \in 1 .. n : places[i] \in Nat
  BY Numbers, Sizes DEF LateInv
<1>1. /\ pc = "scan" /\ pc' = "compact" /\ UNCHANGED ReadUpTo
      /\ read_ptr' = b + PackLen
      /\ DOMAIN places' = 1 .. n + 1 /\ places'[n + 1] = q
      /\ \A i \in 1 .. n : places'[i] = places[i]
  BY <1>0, GiveLooks, ScanLooks
<1>2. \A i \in 1 .. n : places[i] - PackLen <= ReadUpTo
  BY <1>0, <1>1 DEF LateInv, Behind
<1>3. ASSUME NEW i \in 1 .. n + 1 PROVE Behind(places[i] - PackLen)'
  <2>1. CASE i = n + 1
    <3>1. places'[i] - PackLen = ReadUpTo' + read_ptr' - 2 * PackLen
      BY <1>0, <1>1, <2>1
    <3> QED
      BY <1>1, <3>1 DEF Behind
  <2>2. CASE i # n + 1
    <3>1. i \in 1 .. n
      BY <1>0, <2>2
    <3>2. places'[i] - PackLen <= ReadUpTo'
      BY <1>1, <1>2, <3>1
    <3> QED
      BY <1>1, <3>2 DEF Behind
  <2> QED
    BY <2>1, <2>2
<1>4. ASSUME NEW i \in 1 .. n + 1, NEW j \in 1 .. n + 1, i < j
      PROVE  places'[i] - PackLen <= places'[j]
  <2>1. i \in 1 .. n
    BY <1>0, <1>4
  <2>2. CASE j = n + 1
    <3>1. places[i] - PackLen <= ReadUpTo /\ places'[j] = q /\ places'[i] = places[i]
      BY <1>1, <1>2, <2>1, <2>2
    <3> QED
      BY <1>0, <2>1, <3>1
  <2>3. CASE j # n + 1
    <3>1. j \in 1 .. n
      BY <1>0, <2>3
    <3> QED
      BY <1>0, <1>1, <1>4, <2>1, <3>1 DEF LateInv, OneLate
  <2> QED
    BY <2>2, <2>3
<1>5. OneLate'
  BY <1>1, <1>4 DEF OneLate
<1>6. \A i \in DOMAIN places' : Behind(places[i] - PackLen)'
  BY <1>1, <1>3
<1> QED
  BY <1>5, <1>6 DEF LateInv

LEMMA StepLate == LateInv /\ [LineNext]_lineVars => LateInv'
<1> SUFFICES ASSUME LateInv, [LineNext]_lineVars PROVE LateInv'
  OBVIOUS
<1>0. PieceInv /\ PieceInv'
  BY StepPiece DEF LateInv
<1>00. NumbersInv /\ NumbersInv' /\ PackLen \in Nat /\ PackLen > 0
  BY <1>0, AreNumbers, AreNumbersNext, Sizes
<1>1. CASE LineCall /\ Read
  <2>1. /\ pc = "idle" /\ UNCHANGED places /\ ReadUpTo' = KeptFrom
        /\ \/ pc' = "idle" /\ Len(buf') <= 2 * PackLen
           \/ pc' = "scan"
    BY <1>0, <1>1, ReadLooks
  <2>2. pc' = "idle" => KeptFrom' = ReadUpTo'
    BY <1>00, <2>1 DEF NumbersInv
  <2>3. ASSUME NEW p \in Int, Behind(p) PROVE Behind(p)'
    BY <2>1, <2>2, <2>3 DEF Behind
  <2> QED
    BY <1>0, <2>1, <2>3, LateKept
<1>2. CASE LineCall /\ Searches
  <2>1. /\ UNCHANGED <<places, ReadUpTo>> /\ pc = "scan" /\ pc' \in {"scan", "compact"}
    BY <1>0, <1>2, ScanLooks, SearchLooks
  <2>2. ASSUME NEW p \in Int, Behind(p) PROVE Behind(p)'
    BY <2>1, <2>2 DEF Behind
  <2> QED
    BY <1>0, <2>1, <2>2, LateKept
<1>3. CASE LineCall /\ \E b \in 0 .. Len(buf) : Gives(b)
  BY <1>0, <1>3, LateGiven
<1>4. CASE LineCall /\ Compact
  <2>1. /\ pc = "compact" /\ pc' = "idle" /\ UNCHANGED <<places, arrived>>
        /\ read_ptr \in Nat
        /\ \/ read_ptr < Len(buf) /\ ReadUpTo' = ReadUpTo + read_ptr
           \/ read_ptr = Len(buf) /\ ReadUpTo' = ReadUpTo
    BY <1>0, <1>4, CompactLooks
  <2>2. /\ ReadUpTo' <= KeptFrom' /\ arrived - 2 * PackLen <= KeptFrom'
        /\ ReadUpTo \in Nat /\ ReadUpTo' \in Nat /\ KeptFrom' \in Int
        /\ arrived \in Nat
    BY <1>00, <2>1 DEF NumbersInv
  <2>3. arrived = ReadUpTo + Len(buf)
    BY <1>0, Numbers
  <2>4. ASSUME NEW p \in Int, Behind(p) PROVE Behind(p)'
    <3>1. p <= ReadUpTo \/ p = ReadUpTo + read_ptr - 2 * PackLen
      BY <2>1, <2>4 DEF Behind
    <3>2. ReadUpTo <= ReadUpTo'
      BY <2>1, <2>2
    <3>3. CASE p <= ReadUpTo
      <4>1. p <= KeptFrom'
        BY <2>2, <3>2, <3>3
      <4> QED
        BY <2>1, <4>1 DEF Behind
    <3>4. CASE p = ReadUpTo + read_ptr - 2 * PackLen
      <4>1. CASE read_ptr = Len(buf)
        <5>1. p = arrived - 2 * PackLen
          BY <1>00, <2>1, <2>2, <2>3, <3>4, <4>1
        <5> QED
          BY <2>1, <2>2, <5>1 DEF Behind
      <4>2. CASE read_ptr # Len(buf)
        <5>1. p <= ReadUpTo'
          BY <1>00, <2>1, <2>2, <3>4, <4>2
        <5>2. p <= KeptFrom'
          BY <2>2, <5>1
        <5> QED
          BY <2>1, <5>2 DEF Behind
      <4> QED
        BY <4>1, <4>2
    <3> QED
      BY <3>1, <3>3, <3>4
  <2> QED
    BY <1>0, <2>1, <2>4, LateKept
<1>5. CASE \E lost \in 0 .. Len(line), outcome \in {"open", "dead"} :
             LineRestart(lost, outcome)
  <2>1. /\ pc = "idle" /\ pc' = "idle" /\ UNCHANGED places /\ arrived' >= arrived
        /\ ReadUpTo' = arrived'
    BY <1>0, <1>5, RestartLooks
  <2>2. KeptFrom \in Int /\ KeptFrom' \in Int /\ KeptFrom <= KeptFrom'
    BY <1>00, <2>1 DEF NumbersInv
  <2>3. ASSUME NEW p \in Int, Behind(p) PROVE Behind(p)'
    <3>1. p <= KeptFrom'
      BY <2>1, <2>2, <2>3 DEF Behind
    <3> QED
      BY <2>1, <3>1 DEF Behind
  <2> QED
    BY <1>0, <2>1, <2>3, LateKept
<1>6. CASE \/ PortDies /\ UNCHANGED <<stream, opened, places>>
           \/ UNCHANGED lineVars
  <2>1. UNCHANGED <<buf, places, arrived, ReadUpTo, pc, read_ptr>>
    BY <1>0, <1>6, IdleLooks
  <2> QED
    BY <1>0, <2>1, LateKept DEF Behind, KeptFrom, KeptLen
<1> QED
  BY <1>1, <1>2, <1>3, <1>4, <1>5, <1>6, Steps

(* OneLate for any stream, checksum, slicing and restarts: a packet comes   *)
(* out before or right after the packet behind it, because making room for  *)
(* a read (flow.c:227) leaves at most one packet before the place where the *)
(* last one ended, and the memmove (flow.c:215) less.                       *)
THEOREM OnlyOneLate == LineSpec => []OneLate
<1>1. LateInv => OneLate
  BY DEF LateInv
<1> QED
  BY <1>1, InitLate, StepLate, PTL DEF LineSpec

-----------------------------------------------------------------------------
(* What the caller has not been given yet                                   *)

(* A scan that hands nothing out leaves less than two packets' worth of     *)
(* cells and something to move, so an empty tail is that of a packet.       *)
BacklogInv ==
  /\ PieceInv
  /\ BacklogBounded
  /\ pc = "scan" => read_ptr < Len(buf)
  /\ pc = "compact" =>
       \/ read_ptr < Len(buf) /\ Len(buf) - read_ptr <= 2 * PackLen
       \/ CaughtUp

LEMMA InitBacklog == LineInit => BacklogInv
<1> SUFFICES ASSUME LineInit PROVE BacklogInv
  OBVIOUS
<1>1. pc = "idle" /\ Len(buf) = 0
  BY EmptySeq DEF LineInit, Init
<1> QED
  BY <1>1, InitPiece, Sizes DEF BacklogInv, BacklogBounded

(* A search that ends leaves less than a packet, or the last cells that     *)
(* could be the start of a magic word.                                      *)
LEMMA SearchLeaves ==
  ASSUME BacklogInv, PieceInv', LineCall, Searches
  PROVE  BacklogInv'
<1>0. /\ PieceInv /\ Len(buf) \in Nat /\ read_ptr \in Nat
      /\ PackLen \in Nat /\ MagicLen \in Nat /\ MagicLen >= 2 /\ MagicLen < PackLen
  BY Numbers, Sizes DEF BacklogInv
<1>1. pc = "scan" /\ Len(buf') = Len(buf) /\ pc' \in {"scan", "compact"}
  BY <1>0, ScanLooks
<1>2. read_ptr < Len(buf)
  BY <1>1 DEF BacklogInv
<1>3. CASE ScanExhausted
  <2>1. read_ptr' = read_ptr /\ Len(buf) - read_ptr < PackLen
    BY <1>3 DEF ScanExhausted
  <2> QED
    BY <1>0, <1>1, <1>2, <2>1 DEF BacklogInv, BacklogBounded
<1>4. CASE ScanNoMagic
  <2>1. read_ptr' = Len(buf) - MagicLen
    BY <1>4 DEF ScanNoMagic
  <2> QED
    BY <1>0, <1>1, <2>1 DEF BacklogInv, BacklogBounded
<1>5. ASSUME NEW b \in 0 .. Len(buf), ScanIncomplete(b)
      PROVE  BacklogInv'
  <2>1. /\ read_ptr' = b /\ Len(buf) - b < PackLen /\ b <= Len(buf) - MagicLen
    BY <1>5 DEF ScanIncomplete, FirstHit, Hits
  <2> QED
    BY <1>0, <1>1, <2>1 DEF BacklogInv, BacklogBounded
<1>6. ASSUME NEW b \in 0 .. Len(buf), ScanBad(b)
      PROVE  BacklogInv'
  <2>1. read_ptr' = b + MagicLen - 1 /\ Len(buf) - b >= PackLen /\ pc' = "scan"
    BY <1>1, <1>6 DEF ScanBad
  <2> QED
    BY <1>0, <1>1, <2>1 DEF BacklogInv, BacklogBounded
<1> QED
  BY <1>3, <1>4, <1>5, <1>6 DEF Searches

(* What is kept behind a packet handed out is two packets' worth at most,   *)
(* the buffer being three; nothing behind it means that it is the newest.   *)
LEMMA GiveLeaves ==
  ASSUME BacklogInv, PieceInv', LineCall, NEW b \in 0 .. Len(buf), Gives(b)
  PROVE  BacklogInv'
<1> DEFINE n == Len(delivered)
<1>0. /\ PieceInv /\ Len(buf) \in Nat /\ Len(buf) <= 3 * PackLen /\ PackLen \in Nat
      /\ ReadUpTo \in Nat /\ arrived \in Nat /\ arrived = ReadUpTo + Len(buf)
      /\ n \in Nat
  BY Numbers, Sizes DEF BacklogInv
<1>1. /\ pc' = "compact" /\ read_ptr' = b + PackLen /\ b + PackLen <= Len(buf)
      /\ places'[n + 1] = ReadUpTo + b
      /\ DOMAIN places' = 1 .. n + 1
      /\ Len(buf') = Len(buf) /\ arrived' = arrived
  BY <1>0, GiveLooks, ScanLooks
<1>2. CASE b + PackLen < Len(buf)
  BY <1>0, <1>1, <1>2 DEF BacklogInv, BacklogBounded
<1>3. CASE b + PackLen = Len(buf)
  <2>1. Len(places') = n + 1 /\ places' # <<>>
    <3>1. places' \in Seq(Nat)
      BY DEF PieceInv, Handed
    <3> QED
      BY <1>0, <1>1, <3>1, LenProperties, EmptySeq
  <2>2. places'[Len(places')] + PackLen = arrived'
    BY <1>0, <1>1, <1>3, <2>1
  <2>3. CaughtUp'
    BY <2>1, <2>2 DEF CaughtUp
  <2> QED
    BY <1>1, <2>3 DEF BacklogInv, BacklogBounded
<1> QED
  BY <1>0, <1>1, <1>2, <1>3

LEMMA StepBacklog == BacklogInv /\ [LineNext]_lineVars => BacklogInv'
<1> SUFFICES ASSUME BacklogInv, [LineNext]_lineVars PROVE BacklogInv'
  OBVIOUS
<1>0. PieceInv /\ PieceInv'
  BY StepPiece DEF BacklogInv
<1>00. /\ PackLen \in Nat /\ PackLen > 0
       /\ NumbersInv /\ NumbersInv' /\ Len(buf) \in Nat /\ Len(buf') \in Nat
  BY <1>0, AreNumbers, AreNumbersNext, Sizes DEF NumbersInv
<1>1. CASE LineCall /\ Read
  <2>1. \/ pc' = "idle" /\ Len(buf') <= 2 * PackLen
        \/ pc' = "scan" /\ read_ptr' = 0 /\ arrived' > arrived
    BY <1>0, <1>1, ReadLooks
  <2>2. CASE pc' = "idle" /\ Len(buf') <= 2 * PackLen
    BY <1>0, <1>00, <2>2 DEF BacklogInv, BacklogBounded
  <2>3. CASE pc' = "scan" /\ read_ptr' = 0 /\ arrived' > arrived
    <3>1. Len(buf') > 0
      <4>1. /\ KeptFrom <= arrived /\ KeptFrom \in Int /\ arrived \in Nat
        BY <1>00 DEF NumbersInv
      <4>2. arrived' \in Nat
        BY <1>00 DEF NumbersInv
      <4>3. ReadUpTo' = KeptFrom
        BY <1>0, <1>1, ReadLooks
      <4>4. arrived' - Len(buf') = ReadUpTo'
        BY DEF ReadUpTo
      <4> QED
        BY <1>00, <2>3, <4>1, <4>2, <4>3, <4>4
    <3> QED
      BY <1>0, <2>3, <3>1 DEF BacklogInv, BacklogBounded
  <2> QED
    BY <2>1, <2>2, <2>3
<1>2. CASE LineCall /\ Searches
  BY <1>0, <1>2, SearchLeaves
<1>3. CASE LineCall /\ \E b \in 0 .. Len(buf) : Gives(b)
  BY <1>0, <1>3, GiveLeaves
<1>4. CASE LineCall /\ Compact
  <2>1. /\ pc = "compact" /\ pc' = "idle" /\ UNCHANGED <<places, arrived>>
        /\ read_ptr \in Nat
        /\ \/ read_ptr < Len(buf) /\ Len(buf') = Len(buf) - read_ptr
           \/ read_ptr = Len(buf)
    BY <1>0, <1>4, CompactLooks
  <2>2. CASE CaughtUp
    BY <1>0, <2>1, <2>2 DEF BacklogInv, BacklogBounded, CaughtUp
  <2>3. CASE read_ptr < Len(buf) /\ Len(buf) - read_ptr <= 2 * PackLen
    BY <1>0, <1>00, <2>1, <2>3 DEF BacklogInv, BacklogBounded
  <2> QED
    BY <2>1, <2>2, <2>3 DEF BacklogInv
<1>5. CASE \E lost \in 0 .. Len(line), outcome \in {"open", "dead"} :
             LineRestart(lost, outcome)
  <2>1. pc' = "idle" /\ Len(buf') = 0
    BY <1>0, <1>5, RestartLooks
  <2> QED
    BY <1>0, <1>00, <2>1 DEF BacklogInv, BacklogBounded
<1>6. CASE \/ PortDies /\ UNCHANGED <<stream, opened, places>>
           \/ UNCHANGED lineVars
  <2>1. UNCHANGED <<buf, places, arrived, pc, read_ptr>>
    BY <1>0, <1>6, IdleLooks
  <2> QED
    BY <1>0, <2>1 DEF BacklogInv, BacklogBounded, CaughtUp
<1> QED
  BY <1>1, <1>2, <1>3, <1>4, <1>5, <1>6, Steps

(* BacklogBounded for any stream, checksum, slicing and restarts: each call *)
(* takes in a packet's worth at most and, if more than one is there, moves  *)
(* past a packet or past all but the start of one (flow.c:175-219).         *)
THEOREM CallerKeepsUp == LineSpec => []BacklogBounded
<1>1. BacklogInv => BacklogBounded
  BY DEF BacklogInv
<1> QED
  BY <1>1, InitBacklog, StepBacklog, PTL DEF LineSpec

-----------------------------------------------------------------------------
(* Damage is local                                                          *)

(* No hkey handed out so far is a part of the magic word.  flow_check       *)
(* writes such hkeys over the buffer (flow.c:196) and would find a magic    *)
(* word there that BASE never sent.                                         *)
KeysApart == \A i \in 1 .. MagicLen : Magic[i] \notin KeysSeen

HandedOut(p) ==
  \E i \in DOMAIN delivered : places[i] = p /\ delivered[i] = Frame(stream, p)

(* What LossIsLocal promises to hand out and has not been yet.              *)
Expected(p) == opened <= p /\ Intact(p) /\ Clear(p) /\ ~ HandedOut(p)

(* The cell of buf that was read at place x of the stream.                  *)
CellAt(x) == buf[x - ReadUpTo]

(* flow_check has not written into the packet at place p.                   *)
Untouched(p) ==
  \A i \in 1 .. PackLen : p + i <= arrived => CellAt(p + i) = stream[p + i]

(* The packet at place p is still to come: the search has not passed it,    *)
(* and making room leaves it in the buffer.                                 *)
Waiting(p) ==
  /\ ReadUpTo <= p
  /\ pc # "idle" => ReadUpTo + read_ptr <= p
  /\ pc = "idle" /\ Len(buf) > 2 * PackLen => p + PackLen > arrived
  /\ Untouched(p)

LossInv ==
  /\ PieceInv
  /\ pc = "compact" => read_ptr = Len(buf) \/ Len(buf) - read_ptr <= 2 * PackLen
  /\ \A p \in Starts : Expected(p) => Waiting(p)

LEMMA FrameType ==
  ASSUME NEW s \in Seq(Cell), NEW p \in Nat, p + PackLen <= Len(s)
  PROVE  /\ Frame(s, p) \in Seq(Cell) /\ Len(Frame(s, p)) = PackLen
         /\ \A i \in 1 .. PackLen : Frame(s, p)[i] = s[p + i]
<1>1. PackLen \in Nat
  BY Sizes
<1> QED
  BY <1>1, CutType DEF Frame

LEMMA MagicCut ==
  ASSUME NEW s \in Seq(Cell), NEW q \in Nat, q + MagicLen <= Len(s)
  PROVE  SubSeq(s, q + 1, q + MagicLen) = Magic
           <=> \A i \in 1 .. MagicLen : s[q + i] = Magic[i]
<1>1. Magic \in Seq(Cell)
  BY LayoutAssumption DEF LayoutAssumption
<1>2. q + Len(Magic) <= Len(s)
  BY DEF MagicLen
<1>3. SubSeq(s, q + 1, q + Len(Magic)) = Magic
        <=> \A i \in 1 .. Len(Magic) : s[q + i] = Magic[i]
  BY <1>1, <1>2, CutIs
<1> QED
  BY <1>3 DEF MagicLen

LEMMA StartNumbers ==
  ASSUME PieceInv, NEW p \in Starts
  PROVE  p \in Nat /\ p + PackLen <= Len(stream) /\ PackLen \in Nat
BY Numbers, Sizes DEF Starts

(* The magic word of an intact packet, cell by cell.                        *)
LEMMA MagicOfPacket ==
  ASSUME PieceInv, NEW p \in Starts, Intact(p)
  PROVE  \A i \in 1 .. MagicLen : stream[p + i] = Magic[i]
<1>1. p \in Nat /\ p + PackLen <= Len(stream) /\ stream \in Seq(Cell)
  BY StartNumbers, Numbers
<1>2. /\ Len(Frame(stream, p)) = PackLen
      /\ Frame(stream, p) \in Seq(Cell)
      /\ \A i \in 1 .. PackLen : Frame(stream, p)[i] = stream[p + i]
  BY <1>1, FrameType
<1>3. SubSeq(Frame(stream, p), 1, MagicLen) = Magic
  BY DEF Intact, Good, HasMagic
<1>4. /\ 0 \in Nat /\ 0 + 1 = 1 /\ MagicLen \in Nat /\ 0 + MagicLen = MagicLen
      /\ MagicLen <= PackLen /\ \A i \in 1 .. MagicLen : 0 + i = i
  BY Sizes
<1>5. \A i \in 1 .. MagicLen : SubSeq(Frame(stream, p), 1, MagicLen)[i] = Frame(stream, p)[i]
  BY <1>2, <1>4, CutType
<1>6. \A i \in 1 .. MagicLen : i \in 1 .. PackLen
  BY Sizes
<1> QED
  BY <1>2, <1>3, <1>5, <1>6

(* A packet still to come is found as soon as its magic word has arrived.   *)
LEMMA FoundInBuffer ==
  ASSUME LossInv, NEW p \in Starts, Expected(p), pc = "scan",
         p + MagicLen <= arrived
  PROVE  p - ReadUpTo \in Hits
<1>0. /\ PieceInv /\ Intact(p) /\ p \in Nat /\ MagicLen \in Nat
      /\ PackLen \in Nat /\ MagicLen <= PackLen
      /\ ReadUpTo + read_ptr <= p /\ Untouched(p)
      /\ ReadUpTo \in Nat /\ read_ptr \in Nat /\ arrived \in Nat /\ Len(buf) \in Nat
      /\ arrived = ReadUpTo + Len(buf) /\ buf \in Seq(Cell)
  <2>1. PieceInv /\ Intact(p) /\ ReadUpTo + read_ptr <= p /\ Untouched(p)
    BY DEF LossInv, Expected, Waiting
  <2> QED
    BY <2>1, Numbers, StartNumbers, Sizes
<1> DEFINE b == p - ReadUpTo
<1>1. b \in Nat /\ b \in read_ptr .. Len(buf) - MagicLen /\ b + MagicLen <= Len(buf)
  BY <1>0
<1>2. ASSUME NEW i \in 1 .. MagicLen PROVE buf[b + i] = Magic[i]
  <2>1. i \in 1 .. PackLen /\ p + i <= arrived
    BY <1>0
  <2>2. (p + i) - ReadUpTo = b + i
    BY <1>0
  <2> QED
    BY <1>0, <2>1, <2>2, MagicOfPacket DEF Untouched, CellAt
<1> HIDE DEF b
<1>4. MagicAt(b)
  BY <1>0, <1>1, <1>2, MagicCut DEF MagicAt
<1> QED
  BY <1>1, <1>4 DEF b, Hits

(* What is found in the buffer stood in the stream like that.               *)
LEMMA MagicArrived ==
  ASSUME PieceInv, KeysApart, NEW b \in Nat, b + MagicLen <= Len(buf), MagicAt(b)
  PROVE  SubSeq(stream, (ReadUpTo + b) + 1, (ReadUpTo + b) + MagicLen) = Magic
<1>0. /\ buf \in Seq(Cell) /\ stream \in Seq(Cell) /\ ReadUpTo \in Nat
      /\ Len(buf) \in Nat /\ arrived \in Nat /\ arrived = ReadUpTo + Len(buf)
      /\ arrived <= Len(stream) /\ Len(stream) \in Nat
  BY Numbers, Places
<1>1. MagicLen \in Nat
  BY Sizes
<1>2. \A i \in 1 .. MagicLen : buf[b + i] = Magic[i]
  BY <1>0, <1>1, MagicCut DEF MagicAt
<1>3. ASSUME NEW i \in 1 .. MagicLen PROVE stream[(ReadUpTo + b) + i] = Magic[i]
  <2>1. b + i \in 1 .. Len(buf) /\ ReadUpTo + (b + i) = (ReadUpTo + b) + i
    BY <1>0, <1>1
  <2>2. buf[b + i] = stream[ReadUpTo + (b + i)] \/ buf[b + i] \in KeysSeen
    BY <2>1 DEF PieceInv, PieceOf, ReadUpTo
  <2> QED
    BY <1>2, <2>1, <2>2 DEF KeysApart
<1>4. ReadUpTo + b \in Nat /\ (ReadUpTo + b) + MagicLen <= Len(stream)
  BY <1>0, <1>1
<1> QED
  BY <1>0, <1>3, <1>4, MagicCut

(* The search stops at or before a packet that is still to come, and so far *)
(* before it that the two do not overlap.                                   *)
LEMMA StopsBefore ==
  ASSUME LossInv, KeysApart, NEW p \in Starts, Expected(p), pc = "scan",
         NEW b \in 0 .. Len(buf), FirstHit(b)
  PROVE  /\ ReadUpTo + b <= p
         /\ ReadUpTo + b = p \/ ReadUpTo + b + PackLen <= p
<1>0. /\ PieceInv /\ p \in Nat /\ MagicLen \in Nat /\ MagicLen <= PackLen
      /\ PackLen \in Nat
      /\ ReadUpTo \in Nat /\ read_ptr \in Nat /\ arrived \in Nat /\ Len(buf) \in Nat
      /\ arrived = ReadUpTo + Len(buf) /\ opened \in Nat /\ opened <= ReadUpTo
  <2>1. PieceInv
    BY DEF LossInv
  <2> QED
    BY <2>1, Numbers, StartNumbers, Sizes
<1>1. b \in Nat /\ b + MagicLen <= Len(buf) /\ MagicAt(b)
  BY <1>0 DEF FirstHit, Hits
<1>2. ReadUpTo + b <= p
  <2>1. SUFFICES ASSUME ~ (ReadUpTo + b <= p) PROVE FALSE
    OBVIOUS
  <2>2. p + MagicLen <= arrived
    BY <1>0, <1>1, <2>1
  <2>3. b <= p - ReadUpTo
    BY <2>2, FoundInBuffer DEF FirstHit
  <2> QED
    BY <1>0, <1>1, <2>1, <2>3
<1>3. ASSUME ReadUpTo + b # p PROVE ReadUpTo + b + PackLen <= p
  <2> DEFINE q == ReadUpTo + b
  <2>1. q \in opened .. p - 1
    BY <1>0, <1>1, <1>2, <1>3
  <2>2. SubSeq(stream, q + 1, q + MagicLen) = Magic
    BY <1>0, <1>1, MagicArrived
  <2>3. ~ (q > p - PackLen)
    BY <2>1, <2>2 DEF Expected, Clear
  <2> QED
    BY <1>0, <1>1, <2>3
<1> QED
  BY <1>2, <1>3

(* Found there, it is the packet as it was sent.                            *)
LEMMA FoundAsSent ==
  ASSUME LossInv, NEW p \in Starts, Expected(p), pc = "scan",
         NEW b \in 0 .. Len(buf), Len(buf) - b >= PackLen, p = ReadUpTo + b
  PROVE  Candidate(b) = Frame(stream, p) /\ CrcOk(Candidate(b))
<1>0. /\ PieceInv /\ Untouched(p) /\ Intact(p)
  BY DEF LossInv, Expected, Waiting
<1>1. /\ p \in Nat /\ p + PackLen <= Len(stream) /\ PackLen \in Nat
      /\ ReadUpTo \in Nat /\ arrived \in Nat /\ Len(buf) \in Nat /\ b \in Nat
      /\ arrived = ReadUpTo + Len(buf) /\ buf \in Seq(Cell) /\ stream \in Seq(Cell)
  <2>1. p \in Nat /\ p + PackLen <= Len(stream) /\ PackLen \in Nat
    BY <1>0, StartNumbers
  <2>2. /\ ReadUpTo \in Nat /\ arrived \in Nat /\ Len(buf) \in Nat
        /\ arrived = ReadUpTo + Len(buf) /\ buf \in Seq(Cell) /\ stream \in Seq(Cell)
    BY <1>0, Numbers
  <2> QED
    BY <2>1, <2>2
<1>2. /\ Frame(stream, p) \in Seq(Cell) /\ Len(Frame(stream, p)) = PackLen
      /\ \A i \in 1 .. PackLen : Frame(stream, p)[i] = stream[p + i]
  BY <1>1, FrameType
<1>3. /\ Candidate(b) \in Seq(Cell) /\ Len(Candidate(b)) = PackLen
      /\ \A i \in 1 .. PackLen : Candidate(b)[i] = buf[b + i]
  <2>1. b + PackLen <= Len(buf)
    BY <1>1
  <2> QED
    BY <1>1, <2>1, CutType DEF Candidate
<1>4. \A i \in 1 .. PackLen : buf[b + i] = stream[p + i]
  <2>1. \A i \in 1 .. PackLen : (p + i) - ReadUpTo = b + i /\ p + i <= arrived
    BY <1>1
  <2> QED
    BY <1>0, <2>1 DEF Untouched, CellAt
<1>5. Candidate(b) = Frame(stream, p)
  <2>1. \A i \in 1 .. PackLen : Candidate(b)[i] = Frame(stream, p)[i]
    BY <1>2, <1>3, <1>4
  <2> QED
    BY <1>2, <1>3, <2>1, SameCells
<1> QED
  BY <1>0, <1>5 DEF Intact, Good

(* Making room leaves the cells it keeps as they are, and the new ones come *)
(* as they stand in the stream.                                             *)
LEMMA ReadBrings ==
  ASSUME PieceInv, LineCall, Read, NEW x \in Nat, KeptFrom < x, x <= arrived'
  PROVE  CellAt(x)' = IF x <= arrived THEN CellAt(x) ELSE stream[x]
<1>0. /\ ReadUpTo' = KeptFrom /\ KeptFrom = arrived - KeptLen
      /\ ReadUpTo = arrived - Len(buf) /\ arrived \in Nat /\ Len(buf) \in Nat
      /\ KeptLen \in Nat /\ KeptLen <= Len(buf)
      /\ Shifted \in Seq(Cell) /\ Len(Shifted) = KeptLen /\ buf \in Seq(Cell)
  <2>1. ReadUpTo' = KeptFrom
    BY ReadLooks
  <2>2. /\ KeptLen \in Nat /\ KeptLen <= Len(buf)
        /\ Shifted \in Seq(Cell) /\ Len(Shifted) = KeptLen
    BY KeptIsShifted, ShiftedPiece
  <2> QED
    BY <2>1, <2>2, Numbers DEF KeptFrom
<1> DEFINE k == x - KeptFrom
<1>1. k \in Nat /\ k >= 1
  BY <1>0
<1>2. x <= arrived => k \in 1 .. KeptLen /\ Shifted[k] = CellAt(x)
  <2> SUFFICES ASSUME x <= arrived
               PROVE  k \in 1 .. KeptLen /\ Shifted[k] = CellAt(x)
    OBVIOUS
  <2> DEFINE n == PackLen - (BufSize - Len(buf))
  <2>1. k \in 1 .. KeptLen
    BY <1>0
  <2>2. CASE Len(buf) > 2 * PackLen
    <3>1. /\ n \in Nat /\ n <= Len(buf) /\ n = Len(buf) - KeptLen
          /\ BufSize - Len(buf) < PackLen
      BY <1>0, <2>2, Sizes, Numbers DEF KeptLen
    <3>2. Shifted = SubSeq(buf, n + 1, n + KeptLen)
      <4>1. n + KeptLen = Len(buf)
        BY <1>0, <3>1
      <4> QED
        BY <3>1, <4>1 DEF Shifted, Drop
    <3>3. n + k = x - ReadUpTo
      BY <1>0, <3>1
    <3> HIDE DEF n, k
    <3>4. n + KeptLen <= Len(buf)
      BY <1>0, <3>1
    <3>5. SubSeq(buf, n + 1, n + KeptLen)[k] = buf[n + k]
      BY <1>0, <2>1, <3>1, <3>4, CutType
    <3> QED
      BY <2>1, <3>2, <3>3, <3>5 DEF CellAt
  <2>3. CASE ~ (Len(buf) > 2 * PackLen)
    <3>1. KeptLen = Len(buf)
      BY <2>3 DEF KeptLen
    <3>2. Shifted = buf
      BY <1>0, <2>3, Sizes DEF Shifted
    <3> QED
      BY <1>0, <2>1, <3>1, <3>2 DEF CellAt
  <2> QED
    BY <2>2, <2>3
<1>3. CASE ReadNothing
  <2>1. buf' = Shifted /\ x <= arrived
    BY <1>3 DEF ReadNothing, LineCall, arrived
  <2> QED
    BY <1>0, <1>2, <2>1 DEF CellAt
<1>4. CASE \E n \in 1 .. PackLen : ReadCells(n)
  <2>1. PICK n \in 1 .. PackLen : ReadCells(n)
    BY <1>4
  <2>2. n \in Nat /\ n <= Len(line) /\ line \in Seq(Cell) /\ Len(line) \in Nat
    BY <2>1, Sizes, Places DEF ReadCells
  <2> DEFINE new == SubSeq(line, 1, n)
  <2>3. /\ new \in Seq(Cell) /\ Len(new) = n
        /\ \A i \in 1 .. n : new[i] = line[i]
    <3>1. 0 \in Nat /\ 0 + 1 = 1 /\ 0 + n = n /\ \A i \in 1 .. n : 0 + i = i
      BY <2>2
    <3> QED
      BY <2>2, <3>1, CutType
  <2>4. buf' = Shifted \o new
    BY <2>1 DEF ReadCells
  <2> HIDE DEF new
  <2>5. \A i \in 1 .. KeptLen + n :
          buf'[i] = IF i <= KeptLen THEN Shifted[i] ELSE new[i - KeptLen]
    BY <1>0, <2>3, <2>4, ConcatProperties
  <2>6. arrived' = arrived + n
    <3>1. Len(line') = Len(line) - n
      BY <2>1, <2>2, DropType DEF ReadCells
    <3>2. UNCHANGED stream
      BY DEF LineCall
    <3> QED
      BY <2>2, <3>1, <3>2, Places DEF arrived
  <2>7. CASE x <= arrived
    <3>1. k \in 1 .. KeptLen + n /\ k <= KeptLen
      BY <1>0, <1>1, <1>2, <2>2, <2>7
    <3> QED
      BY <1>0, <1>2, <2>5, <2>7, <3>1 DEF CellAt
  <2>8. CASE ~ (x <= arrived)
    <3>1. /\ k \in 1 .. KeptLen + n /\ ~ (k <= KeptLen)
          /\ k - KeptLen \in 1 .. n /\ arrived + (k - KeptLen) = x
          /\ k - KeptLen \in 1 .. Len(line)
      BY <1>0, <1>1, <2>2, <2>6, <2>8
    <3>2. line[k - KeptLen] = stream[arrived + (k - KeptLen)]
      BY <3>1 DEF PieceInv, PieceOf
    <3> QED
      BY <1>0, <2>3, <2>5, <2>8, <3>1, <3>2 DEF CellAt
  <2> QED
    BY <2>7, <2>8
<1> QED
  BY <1>3, <1>4 DEF Read

LEMMA ReadLoss ==
  ASSUME LossInv, PieceInv', LineCall, Read
  PROVE  LossInv'
<1>0. /\ PieceInv /\ pc = "idle" /\ UNCHANGED <<stream, opened, delivered, places>>
      /\ ReadUpTo' = KeptFrom
      /\ \/ pc' = "idle" /\ Len(buf') <= 2 * PackLen
         \/ pc' = "scan" /\ read_ptr' = 0
  BY ReadLooks DEF LossInv
<1>1. NumbersInv /\ NumbersInv' /\ PackLen \in Nat
  BY <1>0, AreNumbers, AreNumbersNext, Sizes
<1>2. ASSUME NEW p \in Starts', Expected(p)' PROVE Waiting(p)'
  <2>1. p \in Starts /\ Expected(p)
    BY <1>0, <1>2 DEF Starts, Expected, Intact, Clear, HandedOut
  <2>2. /\ Waiting(p) /\ p \in Nat
    BY <1>0, <2>1, StartNumbers DEF LossInv
  <2>3. KeptFrom <= p
    <3>1. CASE Len(buf) > 2 * PackLen
      <4>1. p + PackLen > arrived
        BY <1>0, <2>2, <3>1 DEF Waiting
      <4>2. KeptFrom = arrived - 2 * PackLen
        BY <3>1 DEF KeptFrom, KeptLen
      <4> QED
        BY <1>1, <2>2, <4>1, <4>2 DEF NumbersInv
    <3>2. CASE ~ (Len(buf) > 2 * PackLen)
      BY <1>1, <2>2, <3>2 DEF NumbersInv, Waiting
    <3> QED
      BY <3>1, <3>2
  <2>4. ASSUME NEW i \in 1 .. PackLen, p + i <= arrived'
        PROVE  CellAt(p + i)' = stream[p + i]
    <3>1. p + i \in Nat /\ KeptFrom < p + i
      BY <1>1, <2>2, <2>3 DEF NumbersInv
    <3>2. CellAt(p + i)' = IF p + i <= arrived THEN CellAt(p + i) ELSE stream[p + i]
      BY <1>0, <2>4, <3>1, ReadBrings
    <3> QED
      BY <2>2, <3>2 DEF Waiting, Untouched
  <2>5. Untouched(p)'
    BY <1>0, <2>4 DEF Untouched
  <2>6. pc' # "idle" => ReadUpTo' + read_ptr' <= p
    BY <1>0, <1>1, <2>2, <2>3 DEF NumbersInv
  <2>7. ~ (pc' = "idle" /\ Len(buf') > 2 * PackLen)
    BY <1>0, <1>1 DEF NumbersInv
  <2> QED
    BY <1>0, <2>3, <2>5, <2>6, <2>7 DEF Waiting
<1> QED
  BY <1>0, <1>2 DEF LossInv

(* A step of a scan that leaves buf alone, but for an hkey it writes into a *)
(* packet found before p, does not touch the packet at p.                   *)
LEMMA StaysUntouched ==
  ASSUME PieceInv, NEW p \in Starts, Untouched(p), ReadUpTo <= p,
         UNCHANGED <<stream, arrived, ReadUpTo>>,
         \/ UNCHANGED buf
         \/ \E b \in 0 .. Len(buf) :
              /\ Len(buf) - b >= PackLen /\ ReadUpTo + b + PackLen <= p
              /\ buf' = [buf EXCEPT ![b + HkeyAt] = prev_hkey]
  PROVE  Untouched(p)'
<1>0. /\ p \in Nat /\ PackLen \in Nat /\ ReadUpTo \in Nat /\ arrived \in Nat
      /\ Len(buf) \in Nat /\ arrived = ReadUpTo + Len(buf) /\ TypeOK
      /\ HkeyAt \in Nat /\ HkeyAt < PackLen
  <2>1. p \in Nat /\ PackLen \in Nat /\ HkeyAt \in Nat /\ HkeyAt < PackLen
    BY StartNumbers, Sizes
  <2>2. /\ ReadUpTo \in Nat /\ arrived \in Nat /\ Len(buf) \in Nat
        /\ arrived = ReadUpTo + Len(buf) /\ TypeOK
    BY Numbers
  <2> QED
    BY <2>1, <2>2
<1>1. CASE UNCHANGED buf
  BY <1>1 DEF Untouched, CellAt
<1>2. CASE \E b \in 0 .. Len(buf) :
             /\ Len(buf) - b >= PackLen /\ ReadUpTo + b + PackLen <= p
             /\ buf' = [buf EXCEPT ![b + HkeyAt] = prev_hkey]
  <2>1. PICK b \in 0 .. Len(buf) :
               /\ Len(buf) - b >= PackLen /\ ReadUpTo + b + PackLen <= p
               /\ buf' = [buf EXCEPT ![b + HkeyAt] = prev_hkey]
    BY <1>2
  <2>2. b + HkeyAt \in 1 .. Len(buf)
    BY <1>0, <2>1, CandidateType DEF TypeOK
  <2>3. \A j \in 1 .. Len(buf) : buf'[j] = IF j = b + HkeyAt THEN prev_hkey ELSE buf[j]
    BY <1>0, <2>1, <2>2, ExceptSeq DEF TypeOK
  <2>4. ASSUME NEW i \in 1 .. PackLen, p + i <= arrived
        PROVE  CellAt(p + i)' = stream[p + i]
    <3>1. /\ (p + i) - ReadUpTo \in 1 .. Len(buf)
          /\ (p + i) - ReadUpTo # b + HkeyAt
      BY <1>0, <2>1, <2>4
    <3>2. buf'[(p + i) - ReadUpTo] = buf[(p + i) - ReadUpTo]
      BY <2>3, <3>1
    <3> QED
      BY <2>4, <3>2 DEF Untouched, CellAt
  <2> QED
    BY <2>4 DEF Untouched
<1> QED
  BY <1>1, <1>2

LEMMA SearchLoss ==
  ASSUME LossInv, KeysApart, PieceInv', LineCall, Searches
  PROVE  LossInv'
<1>0. /\ PieceInv /\ pc = "scan"
      /\ UNCHANGED <<stream, opened, delivered, places, arrived, ReadUpTo>>
      /\ Len(buf') = Len(buf) /\ pc' \in {"scan", "compact"}
  BY ScanLooks, SearchLooks DEF LossInv
<1>1. /\ PackLen \in Nat /\ PackLen > 0 /\ MagicLen \in Nat /\ MagicLen <= PackLen
      /\ Len(buf) \in Nat /\ read_ptr \in Nat /\ read_ptr <= Len(buf)
      /\ ReadUpTo \in Nat /\ arrived \in Nat /\ arrived = ReadUpTo + Len(buf)
  <2>1. /\ Len(buf) \in Nat /\ read_ptr \in Nat /\ read_ptr <= Len(buf)
        /\ ReadUpTo \in Nat /\ arrived \in Nat /\ arrived = ReadUpTo + Len(buf)
    BY <1>0, Numbers
  <2> QED
    BY <2>1, Sizes
<1>2. pc' = "compact" => Len(buf) - read_ptr' <= 2 * PackLen
  <2>1. CASE ScanExhausted
    BY <1>1, <2>1 DEF ScanExhausted
  <2>2. CASE ScanNoMagic
    BY <1>1, <2>2 DEF ScanNoMagic
  <2>3. ASSUME NEW b \in 0 .. Len(buf), ScanIncomplete(b)
        PROVE  Len(buf) - read_ptr' <= 2 * PackLen
    BY <1>1, <2>3 DEF ScanIncomplete
  <2>4. ASSUME NEW b \in 0 .. Len(buf), ScanBad(b) PROVE pc' # "compact"
    BY <1>0, <2>4 DEF ScanBad
  <2> QED
    BY <2>1, <2>2, <2>3, <2>4 DEF Searches
<1>3. ASSUME NEW p \in Starts', Expected(p)' PROVE Waiting(p)'
  <2>1. p \in Starts /\ Expected(p)
    BY <1>0, <1>3 DEF Starts, Expected, Intact, Clear, HandedOut
  <2>2. /\ p \in Nat /\ ReadUpTo <= p /\ ReadUpTo + read_ptr <= p /\ Untouched(p)
    BY <1>0, <2>1, StartNumbers DEF LossInv, Waiting
  <2>3. ReadUpTo + read_ptr' <= p /\ Untouched(p)'
    <3>1. CASE ScanExhausted
      <4>1. UNCHANGED <<buf, read_ptr>>
        BY <3>1 DEF ScanExhausted
      <4> QED
        BY <1>0, <2>1, <2>2, <4>1, StaysUntouched
    <3>2. CASE ScanNoMagic
      <4>1. UNCHANGED buf /\ read_ptr' = Len(buf) - MagicLen /\ Hits = {}
        BY <3>2 DEF ScanNoMagic
      <4>2. ~ (p + MagicLen <= arrived)
        BY <1>0, <2>1, <4>1, FoundInBuffer
      <4>3. ReadUpTo + read_ptr' <= p
        BY <1>1, <2>2, <4>1, <4>2
      <4> QED
        BY <1>0, <2>1, <2>2, <4>1, <4>3, StaysUntouched
    <3>3. ASSUME NEW b \in 0 .. Len(buf), ScanIncomplete(b)
          PROVE  ReadUpTo + read_ptr' <= p /\ Untouched(p)'
      <4>1. UNCHANGED buf /\ read_ptr' = b /\ FirstHit(b)
        BY <3>3 DEF ScanIncomplete
      <4>2. ReadUpTo + b <= p
        BY <1>0, <2>1, <4>1, StopsBefore
      <4> QED
        BY <1>0, <2>1, <2>2, <4>1, <4>2, StaysUntouched
    <3>4. ASSUME NEW b \in 0 .. Len(buf), ScanBad(b)
          PROVE  ReadUpTo + read_ptr' <= p /\ Untouched(p)'
      <4>1. /\ buf' = [buf EXCEPT ![b + HkeyAt] = prev_hkey] /\ FirstHit(b)
            /\ read_ptr' = b + MagicLen - 1
            /\ Len(buf) - b >= PackLen /\ ~ CrcOk(Candidate(b))
        BY <3>4 DEF ScanBad
      <4>2. ReadUpTo + b # p
        BY <1>0, <2>1, <4>1, FoundAsSent
      <4>3. ReadUpTo + b + PackLen <= p
        BY <1>0, <2>1, <4>1, <4>2, StopsBefore
      <4>4. ReadUpTo + read_ptr' <= p
        BY <1>1, <2>2, <4>1, <4>3
      <4> QED
        BY <1>0, <2>1, <2>2, <4>1, <4>3, <4>4, StaysUntouched
    <3> QED
      BY <3>1, <3>2, <3>3, <3>4 DEF Searches
  <2> QED
    BY <1>0, <2>2, <2>3 DEF Waiting
<1> QED
  BY <1>0, <1>2, <1>3 DEF LossInv

LEMMA GiveLoss ==
  ASSUME LossInv, KeysApart, PieceInv', LineCall, NEW b \in 0 .. Len(buf), Gives(b)
  PROVE  LossInv'
<1> DEFINE n == Len(delivered)
<1>0. /\ PieceInv /\ pc = "scan" /\ pc' = "compact"
      /\ UNCHANGED <<stream, opened, arrived, ReadUpTo>>
      /\ Len(buf') = Len(buf)
  BY ScanLooks, GiveLooks DEF LossInv
<1>1. /\ read_ptr' = b + PackLen /\ b + PackLen <= Len(buf) /\ FirstHit(b)
      /\ DOMAIN delivered = 1 .. n /\ n \in Nat
      /\ \A i \in 1 .. n : places'[i] = places[i] /\ delivered'[i] = delivered[i]
      /\ places'[n + 1] = ReadUpTo + b /\ delivered'[n + 1] = Candidate(b)
  BY <1>0, GiveLooks, Numbers
<1>2. DOMAIN delivered' = 1 .. n + 1
  <2>1. delivered' \in Seq(Seq(Cell))
    BY DEF PieceInv, CheckedInv, BufferInv, TypeOK
  <2>2. Len(delivered') = n + 1
    BY <1>0, GiveLooks
  <2> QED
    BY <2>1, <2>2, LenProperties
<1>3. /\ PackLen \in Nat /\ PackLen > 0 /\ Len(buf) \in Nat /\ Len(buf) <= 3 * PackLen
      /\ b \in Nat /\ ReadUpTo \in Nat
  BY <1>0, Numbers, Sizes
<1>4. Len(buf') - read_ptr' <= 2 * PackLen
  BY <1>0, <1>1, <1>3
<1>5. ASSUME NEW p \in Starts', Expected(p)' PROVE Waiting(p)'
  <2>0. p \in Starts
    BY <1>0 DEF Starts
  <2>1. Expected(p)
    <3>1. HandedOut(p) => HandedOut(p)'
      <4> SUFFICES ASSUME HandedOut(p) PROVE HandedOut(p)'
        OBVIOUS
      <4>1. PICK i \in 1 .. n : places[i] = p /\ delivered[i] = Frame(stream, p)
        BY <1>1 DEF HandedOut
      <4>2. i \in 1 .. n + 1
        BY <1>1
      <4> QED
        BY <1>0, <1>1, <1>2, <4>1, <4>2 DEF HandedOut
    <3> QED
      BY <1>0, <1>5, <3>1 DEF Expected, Intact, Clear
  <2>2. /\ p \in Nat /\ ReadUpTo <= p /\ Untouched(p)
    BY <1>0, <2>0, <2>1, StartNumbers DEF LossInv, Waiting
  <2>3. Len(buf) - b >= PackLen
    BY <1>1, <1>3
  <2>4. ReadUpTo + b # p
    <3> SUFFICES ASSUME ReadUpTo + b = p PROVE FALSE
      OBVIOUS
    <3>1. delivered'[n + 1] = Frame(stream, p) /\ places'[n + 1] = p
      BY <1>0, <1>1, <2>0, <2>1, <2>3, FoundAsSent
    <3>2. n + 1 \in DOMAIN delivered'
      BY <1>1, <1>2
    <3> QED
      BY <1>0, <1>5, <3>1, <3>2 DEF Expected, HandedOut
  <2>5. ReadUpTo + b + PackLen <= p
    BY <1>0, <1>1, <2>0, <2>1, <2>4, StopsBefore
  <2>6. UNCHANGED buf \/ buf' = [buf EXCEPT ![b + HkeyAt] = prev_hkey]
    BY DEF Gives, ScanGood, ScanGoodWithPrevHkey
  <2>7. Untouched(p)'
    BY <1>0, <2>0, <2>2, <2>3, <2>5, <2>6, StaysUntouched
  <2>8. ReadUpTo' + read_ptr' <= p
    BY <1>0, <1>1, <1>3, <2>2, <2>5
  <2> QED
    BY <1>0, <2>2, <2>7, <2>8 DEF Waiting
<1> QED
  BY <1>0, <1>4, <1>5 DEF LossInv

LEMMA CompactLoss ==
  ASSUME LossInv, PieceInv', LineCall, Compact
  PROVE  LossInv'
<1>0. /\ PieceInv /\ pc = "compact" /\ pc' = "idle" /\ read_ptr \in Nat
      /\ UNCHANGED <<stream, opened, delivered, places, arrived>>
      /\ \/ /\ read_ptr < Len(buf)
            /\ buf' = Drop(buf, read_ptr)
            /\ Len(buf') = Len(buf) - read_ptr
            /\ ReadUpTo' = ReadUpTo + read_ptr
         \/ read_ptr = Len(buf) /\ UNCHANGED <<buf, ReadUpTo>>
  BY CompactLooks DEF LossInv
<1>1. /\ PackLen \in Nat /\ PackLen > 0 /\ Len(buf) \in Nat /\ ReadUpTo \in Nat
      /\ arrived \in Nat /\ arrived = ReadUpTo + Len(buf) /\ buf \in Seq(Cell)
  BY <1>0, Numbers, Sizes
<1>2. ASSUME NEW p \in Starts', Expected(p)' PROVE Waiting(p)'
  <2>1. p \in Starts /\ Expected(p)
    BY <1>0, <1>2 DEF Starts, Expected, Intact, Clear, HandedOut
  <2>2. /\ p \in Nat /\ ReadUpTo <= p /\ ReadUpTo + read_ptr <= p /\ Untouched(p)
    BY <1>0, <2>1, StartNumbers DEF LossInv, Waiting
  <2>3. CASE read_ptr < Len(buf)
    <3>1. /\ buf' = Drop(buf, read_ptr) /\ Len(buf') = Len(buf) - read_ptr
          /\ ReadUpTo' = ReadUpTo + read_ptr
      BY <1>0, <2>3
    <3>2. ~ (Len(buf') > 2 * PackLen)
      BY <1>0, <1>1, <2>3, <3>1 DEF LossInv
    <3>3. ASSUME NEW i \in 1 .. PackLen, p + i <= arrived
          PROVE  CellAt(p + i)' = stream[p + i]
      <4> DEFINE k == (p + i) - ReadUpTo'
                 m == Len(buf) - read_ptr
      <4>1. /\ k \in 1 .. m /\ read_ptr + k = (p + i) - ReadUpTo
            /\ m \in Nat /\ read_ptr + m = Len(buf)
        BY <1>0, <1>1, <2>2, <2>3, <3>1, <3>3
      <4>2. buf' = SubSeq(buf, read_ptr + 1, read_ptr + m)
        BY <3>1, <4>1 DEF Drop
      <4> HIDE DEF m
      <4>3. \A j \in 1 .. m : buf'[j] = buf[read_ptr + j]
        <5>1. read_ptr + m <= Len(buf)
          BY <1>1, <4>1
        <5> QED
          BY <1>0, <1>1, <4>1, <4>2, <5>1, CutType
      <4>4. buf'[k] = buf[(p + i) - ReadUpTo]
        BY <4>1, <4>3
      <4> QED
        BY <2>2, <3>3, <4>4 DEF Untouched, CellAt
    <3> QED
      BY <1>0, <2>2, <3>1, <3>2, <3>3 DEF Waiting, Untouched
  <2>4. CASE ~ (read_ptr < Len(buf))
    <3>1. read_ptr = Len(buf) /\ UNCHANGED <<buf, ReadUpTo>>
      BY <1>0, <2>4
    <3>2. p + PackLen > arrived
      BY <1>1, <2>2, <3>1
    <3> QED
      BY <1>0, <2>2, <3>1, <3>2 DEF Waiting, Untouched, CellAt
  <2> QED
    BY <2>3, <2>4
<1> QED
  BY <1>0, <1>2 DEF LossInv

LEMMA RestartLoss ==
  ASSUME LossInv, PieceInv', NEW lost \in 0 .. Len(line),
         NEW outcome \in {"open", "dead"}, LineRestart(lost, outcome)
  PROVE  LossInv'
<1>0. /\ pc' = "idle" /\ UNCHANGED <<stream, delivered, places>>
      /\ Len(buf') = 0 /\ ReadUpTo' = arrived' /\ opened' = arrived'
  BY RestartLooks DEF LossInv
<1>1. arrived' \in Nat /\ PackLen \in Nat
  BY AreNumbersNext, Sizes DEF NumbersInv
<1>2. ASSUME NEW p \in Starts', Expected(p)' PROVE Waiting(p)'
  <2>1. p \in Nat /\ arrived' <= p
    <3>1. p \in Starts /\ PieceInv
      BY <1>0 DEF Starts, LossInv
    <3> QED
      BY <1>0, <1>2, <3>1, StartNumbers DEF Expected
  <2>2. \A i \in 1 .. PackLen : ~ (p + i <= arrived')
    BY <1>1, <2>1
  <2>3. ~ (Len(buf') > 2 * PackLen)
    BY <1>0, <1>1
  <2> QED
    BY <1>0, <2>1, <2>2, <2>3 DEF Waiting, Untouched
<1> QED
  BY <1>0, <1>2 DEF LossInv

LEMMA StepLoss == LossInv /\ KeysApart /\ [LineNext]_lineVars => LossInv'
<1> SUFFICES ASSUME LossInv, KeysApart, [LineNext]_lineVars PROVE LossInv'
  OBVIOUS
<1>0. PieceInv /\ PieceInv'
  BY StepPiece DEF LossInv
<1>1. CASE LineCall /\ Read
  BY <1>0, <1>1, ReadLoss
<1>2. CASE LineCall /\ Searches
  BY <1>0, <1>2, SearchLoss
<1>3. CASE LineCall /\ \E b \in 0 .. Len(buf) : Gives(b)
  BY <1>0, <1>3, GiveLoss
<1>4. CASE LineCall /\ Compact
  BY <1>0, <1>4, CompactLoss
<1>5. CASE \E lost \in 0 .. Len(line), outcome \in {"open", "dead"} :
             LineRestart(lost, outcome)
  BY <1>0, <1>5, RestartLoss
<1>6. CASE \/ PortDies /\ UNCHANGED <<stream, opened, places>>
           \/ UNCHANGED lineVars
  <2>1. /\ UNCHANGED <<buf, stream, opened, delivered, places, pc, read_ptr>>
        /\ UNCHANGED <<arrived, ReadUpTo>>
    BY <1>0, <1>6, IdleLooks
  <2>2. ASSUME NEW p \in Starts', Expected(p)' PROVE Waiting(p)'
    <3>1. p \in Starts /\ Expected(p)
      BY <2>1, <2>2 DEF Starts, Expected, Intact, Clear, HandedOut
    <3> QED
      BY <2>1, <3>1 DEF LossInv, Waiting, Untouched, CellAt
  <2> QED
    BY <1>0, <2>1, <2>2 DEF LossInv
<1> QED
  BY <1>1, <1>2, <1>3, <1>4, <1>5, <1>6, Steps

LEMMA InitLoss == LineInit => LossInv
<1> SUFFICES ASSUME LineInit PROVE LossInv
  OBVIOUS
<1>1. PieceInv /\ pc = "idle" /\ buf = <<>> /\ stream = line
  BY InitPiece DEF LineInit, Init
<1>2. Len(buf) = 0 /\ arrived = 0 /\ ReadUpTo = 0 /\ PackLen \in Nat
  <2>1. Len(line) \in Nat /\ Len(buf) = 0 /\ PackLen \in Nat
    BY <1>1, Places, Sizes, EmptySeq
  <2>2. arrived = 0
    BY <1>1, <2>1 DEF arrived
  <2> QED
    BY <2>1, <2>2 DEF ReadUpTo
<1>3. ASSUME NEW p \in Starts PROVE Waiting(p)
  <2>1. p \in Nat
    BY <1>1, StartNumbers
  <2>2. \A i \in 1 .. PackLen : ~ (p + i <= arrived)
    BY <1>2, <2>1
  <2> QED
    BY <1>1, <1>2, <2>1, <2>2 DEF Waiting, Untouched
<1> QED
  BY <1>1, <1>3 DEF LossInv

(* LossIsLocal for any checksum, damage, slicing and restarts, as long as   *)
(* no hkey looks like a part of the magic word: what flow_check writes into *)
(* one packet (flow.c:196) never costs another that does not overlap it,    *)
(* and neither does the search going on 3 bytes further (flow.c:204).       *)
THEOREM DamageStaysLocal == LineSpec /\ []KeysApart => []LossIsLocal
<1>1. LossInv => LossIsLocal
  <2> SUFFICES ASSUME LossInv, pc = "idle", NEW p \in Starts, opened <= p,
                      p < ReadUpTo, Intact(p), Clear(p)
               PROVE  HandedOut(p)
    BY DEF LossIsLocal, HandedOut
  <2>1. PieceInv
    BY DEF LossInv
  <2>2. Expected(p) => ReadUpTo <= p
    BY DEF LossInv, Waiting
  <2>3. p \in Nat /\ ReadUpTo \in Nat
    BY <2>1, Numbers, StartNumbers
  <2> QED
    BY <2>2, <2>3 DEF Expected
<1> QED
  BY <1>1, InitLoss, StepLoss, PTL DEF LineSpec

=============================================================================
