-------------------------- MODULE FlowQueue_proofs ---------------------------
(***************************************************************************)
(* On whole packets the packet reader is a queue: each step of a call is a *)
(* step of FrameQueue or none, for any packets, any checksum they carry    *)
(* and any slicing of the stream by read().                                *)
(***************************************************************************)
EXTENDS FlowLoss_proofs

(* Multiples of the packet length.                                          *)
LEMMA Multiples ==
  ASSUME NEW k \in Nat, NEW m \in Nat
  PROVE  /\ k * PackLen \in Nat /\ (k + 1) * PackLen = k * PackLen + PackLen
         /\ PackLen * (k + 1) = k * PackLen + PackLen
         /\ k * PackLen + PackLen < m * PackLen => k + 1 <= m
<1>1. PackLen \in Nat /\ PackLen > 0
  BY Sizes
<1>2. k * PackLen \in Nat /\ (k + 1) * PackLen = k * PackLen + PackLen
  BY <1>1
<1>3. PackLen * (k + 1) = k * PackLen + PackLen
  BY <1>1
<1>4. ASSUME ~ (k + 1 <= m) PROVE ~ (k * PackLen + PackLen < m * PackLen)
  <2>1. PICK d \in Nat : k = m + d
    <3>1. k - m \in Nat /\ k = m + (k - m)
      BY <1>4
    <3> QED
      BY <3>1
  <2>2. k * PackLen = m * PackLen + d * PackLen /\ d * PackLen \in Nat
    BY <1>1, <2>1
  <2>3. m * PackLen \in Nat
    BY <1>1
  <2> QED
    BY <1>1, <2>2, <2>3
<1> QED
  BY <1>2, <1>3, <1>4

-----------------------------------------------------------------------------
(* Where the reader is between two packets                                  *)

(* Cells of the stream up to the end of the last packet handed out.         *)
HandedCells == Len(delivered) * PackLen

(* Between calls the buffer starts at the end of that packet and holds at   *)
(* most one; a scan starts with a whole packet and at least one cell more,  *)
(* so there is always a tail for the memmove.  hkeys are written before     *)
(* that place only.                                                         *)
QueueInv ==
  /\ PieceInv
  /\ WellFormed(stream)
  /\ pc = "idle" => ReadUpTo = HandedCells /\ Len(buf) <= PackLen
  /\ pc = "scan" => /\ ReadUpTo = HandedCells /\ read_ptr = 0
                    /\ Len(buf) > PackLen /\ Len(buf) <= 2 * PackLen
  /\ pc = "compact" => /\ ReadUpTo + PackLen = HandedCells /\ read_ptr = PackLen
                       /\ Len(buf) > PackLen /\ Len(buf) <= 2 * PackLen
  /\ \A x \in HandedCells + 1 .. arrived : CellAt(x) = stream[x]
  /\ prev_hkey = KeyBefore(stream, Len(delivered) + 1)

LEMMA QueueNumbers ==
  ASSUME QueueInv
  PROVE  /\ PieceInv /\ NumbersInv /\ buf \in Seq(Cell) /\ stream \in Seq(Cell)
         /\ Len(delivered) \in Nat /\ HandedCells \in Nat
         /\ Len(buf) \in Nat /\ ReadUpTo \in Nat /\ arrived \in Nat
         /\ arrived = ReadUpTo + Len(buf) /\ arrived <= Len(stream)
         /\ Len(stream) \in Nat
         /\ PackLen \in Nat /\ PackLen > 0
         /\ PackLen * (Len(delivered) + 1) = HandedCells + PackLen
<1>1. PieceInv
  BY DEF QueueInv
<1>2. /\ NumbersInv /\ buf \in Seq(Cell) /\ stream \in Seq(Cell)
      /\ Len(delivered) \in Nat
      /\ Len(buf) \in Nat /\ ReadUpTo \in Nat /\ arrived \in Nat
      /\ arrived = ReadUpTo + Len(buf) /\ Len(stream) \in Nat
  BY <1>1, Numbers, AreNumbers
<1>3. arrived <= Len(stream)
  BY <1>1, <1>2, Places
<1> QED
  BY <1>1, <1>2, <1>3, Sizes, Multiples DEF HandedCells

(* A scan starts with the next packet, and its checksum fits.               *)
LEMMA NextPacket ==
  ASSUME QueueInv, pc = "scan"
  PROVE  /\ Candidate(0) = Frame(stream, HandedCells)
         /\ MagicAt(0) /\ 0 \in Hits
         /\ CrcOk(Candidate(0)) \/ CrcOk(WithHkey(Candidate(0), prev_hkey))
<1> DEFINE n == Len(delivered)
           h == HandedCells
<1>0. /\ buf \in Seq(Cell) /\ stream \in Seq(Cell) /\ n \in Nat /\ h \in Nat
      /\ Len(buf) \in Nat /\ arrived = h + Len(buf) /\ arrived <= Len(stream)
      /\ Len(buf) > PackLen /\ Len(stream) \in Nat /\ ReadUpTo = h /\ read_ptr = 0
      /\ PackLen \in Nat /\ MagicLen \in Nat /\ MagicLen < PackLen
  BY QueueNumbers, Sizes DEF QueueInv
<1>1. h + PackLen <= Len(stream) /\ 0 + PackLen <= Len(buf) /\ 0 \in Nat
  BY <1>0
<1>2. /\ Frame(stream, h) \in Seq(Cell) /\ Len(Frame(stream, h)) = PackLen
      /\ \A i \in 1 .. PackLen : Frame(stream, h)[i] = stream[h + i]
  BY <1>0, <1>1, FrameType
<1>3. /\ Candidate(0) \in Seq(Cell) /\ Len(Candidate(0)) = PackLen
      /\ \A i \in 1 .. PackLen : Candidate(0)[i] = buf[0 + i]
  BY <1>0, <1>1, CutType DEF Candidate
<1>4. \A i \in 1 .. PackLen : buf[0 + i] = stream[h + i]
  <2> TAKE i \in 1 .. PackLen
  <2>1. h + i \in h + 1 .. arrived /\ (h + i) - ReadUpTo = 0 + i
    BY <1>0
  <2> QED
    BY <2>1 DEF QueueInv, CellAt
<1>5. Candidate(0) = Frame(stream, h)
  <2>1. \A i \in 1 .. PackLen : Candidate(0)[i] = Frame(stream, h)[i]
    BY <1>2, <1>3, <1>4
  <2> QED
    BY <1>2, <1>3, <2>1, SameCells
<1>6. Valid(Frame(stream, h), prev_hkey)
  <2>1. PICK k \in 0 .. Len(stream) :
               /\ Len(stream) = k * PackLen
               /\ \A i \in 1 .. k :
                    Valid(Frame(stream, (i - 1) * PackLen), KeyBefore(stream, i))
    BY DEF QueueInv, WellFormed
  <2>2. h + PackLen < k * PackLen /\ k \in Nat
    BY <1>0, <2>1
  <2>3. n + 1 \in 1 .. k
    BY <1>0, <2>2, Multiples DEF HandedCells
  <2>4. ((n + 1) - 1) * PackLen = h
    <3>1. (n + 1) - 1 = n
      BY <1>0
    <3> QED
      BY <3>1 DEF HandedCells
  <2>5. Valid(Frame(stream, ((n + 1) - 1) * PackLen), KeyBefore(stream, n + 1))
    BY <2>1, <2>3
  <2> QED
    BY <2>4, <2>5 DEF QueueInv
<1>7. MagicAt(0)
  <2>1. SubSeq(Candidate(0), 1, MagicLen) = Magic
    BY <1>5, <1>6 DEF Valid, HasMagic
  <2>2. 0 + MagicLen <= PackLen /\ 0 + 1 = 1 /\ 0 + MagicLen = MagicLen
    BY <1>0
  <2>3. \A i \in 1 .. MagicLen : Candidate(0)[0 + i] = Magic[i]
    BY <1>1, <1>3, <2>1, <2>2, MagicCut
  <2>4. \A i \in 1 .. MagicLen : buf[0 + i] = Magic[i]
    <3>1. \A i \in 1 .. MagicLen : i \in 1 .. PackLen /\ 0 + i = i
      BY <1>0
    <3> QED
      BY <1>3, <2>3, <3>1
  <2>5. 0 + MagicLen <= Len(buf)
    BY <1>0
  <2> QED
    BY <1>0, <1>1, <2>4, <2>5, MagicCut DEF MagicAt
<1>8. 0 \in Hits
  BY <1>0, <1>7 DEF Hits
<1> QED
  BY <1>5, <1>6, <1>7, <1>8 DEF Valid

(* So a scan is one iteration of the loop, which hands the packet out.      *)
LEMMA ScanGives ==
  ASSUME QueueInv, LineCall, Scan, pc = "scan"
  PROVE  Gives(0)
<1>0. Len(buf) > PackLen /\ read_ptr = 0 /\ Len(buf) \in Nat /\ PackLen \in Nat
  BY QueueNumbers DEF QueueInv
<1>1. /\ 0 \in Hits
      /\ CrcOk(Candidate(0)) \/ CrcOk(WithHkey(Candidate(0), prev_hkey))
  BY NextPacket
<1>2. \A b \in 0 .. Len(buf) : FirstHit(b) => b = 0
  <2> TAKE b \in 0 .. Len(buf)
  <2>1. FirstHit(b) => b <= 0
    BY <1>1 DEF FirstHit
  <2> QED
    BY <1>0, <2>1
<1>3. ~ ScanExhausted /\ ~ ScanNoMagic /\ ~ Compact
  BY <1>0, <1>1 DEF ScanExhausted, ScanNoMagic, Compact
<1>4. \A b \in 0 .. Len(buf) : ~ ScanIncomplete(b) /\ ~ ScanBad(b)
  <2> TAKE b \in 0 .. Len(buf)
  <2>1. ~ ScanIncomplete(b)
    BY <1>0, <1>2 DEF ScanIncomplete
  <2>2. ~ ScanBad(b)
    BY <1>1, <1>2 DEF ScanBad
  <2> QED
    BY <2>1, <2>2
<1>5. \E b \in 0 .. Len(buf) : Gives(b)
  BY <1>3, <1>4 DEF Scan, Gives
<1> QED
  BY <1>2, <1>5 DEF Gives, ScanGood, ScanGoodWithPrevHkey

-----------------------------------------------------------------------------
(* The invariant, and what each step is to the queue                        *)

LEMMA ReadQueue ==
  ASSUME QueueInv, PieceInv', LineCall, Read
  PROVE  QueueInv'
<1> DEFINE h == HandedCells
<1>0. /\ PieceInv /\ pc = "idle" /\ UNCHANGED <<stream, opened, delivered, places>>
      /\ ReadUpTo' = KeptFrom /\ arrived' >= arrived
  BY ReadLooks DEF QueueInv
<1>1. /\ ReadUpTo = h /\ Len(buf) <= PackLen /\ Len(buf) \in Nat /\ h \in Nat
      /\ arrived \in Nat /\ arrived' \in Nat /\ PackLen \in Nat /\ PackLen > 0
      /\ arrived = h + Len(buf) /\ Len(delivered) \in Nat
  BY <1>0, QueueNumbers, AreNumbersNext DEF QueueInv, NumbersInv
<1>2. KeptLen = Len(buf) /\ KeptFrom = h
  BY <1>1 DEF KeptLen, KeptFrom
<1>3. h' = h /\ UNCHANGED prev_hkey
  BY <1>0 DEF HandedCells, Read, ReadNothing, ReadCells
<1>4. /\ pc' = "idle" => Len(buf') <= PackLen
      /\ pc' = "scan" => read_ptr' = 0 /\ Len(buf') > PackLen /\ Len(buf') <= 2 * PackLen
      /\ pc' # "compact"
  <2>1. CASE ReadNothing
    <3>1. buf' = Shifted /\ pc' = "idle"
      BY <1>0, <2>1 DEF ReadNothing
    <3> QED
      BY <1>0, <1>1, <1>2, <3>1, KeptIsShifted
  <2>2. CASE \E n \in 1 .. PackLen : ReadCells(n)
    <3>1. PICK n \in 1 .. PackLen : ReadCells(n)
      BY <2>2
    <3>2. /\ \/ pc' = "scan" /\ read_ptr' = 0 /\ Len(buf') > PackLen
             \/ pc' = "idle" /\ ~ (Len(buf') > PackLen)
      BY <1>0, <3>1 DEF ReadCells
    <3>3. Len(buf') = Len(buf) + n
      <4>1. /\ buf' = Shifted \o SubSeq(line, 1, n)
            /\ n \in Nat /\ n <= Len(line) /\ line \in Seq(Cell)
        BY <1>0, <1>1, <3>1, Places DEF ReadCells
      <4>2. SubSeq(line, 1, n) \in Seq(Cell) /\ Len(SubSeq(line, 1, n)) = n
        BY <4>1, PieceType
      <4>3. Shifted \in Seq(Cell) /\ Len(Shifted) = Len(buf)
        BY <1>0, <1>2, ShiftedPiece, KeptIsShifted
      <4>4. Len(Shifted \o SubSeq(line, 1, n)) = Len(Shifted) + Len(SubSeq(line, 1, n))
        BY <4>2, <4>3, ConcatProperties
      <4> QED
        BY <4>1, <4>2, <4>3, <4>4
    <3> QED
      BY <1>1, <3>2, <3>3
  <2> QED
    BY <2>1, <2>2 DEF Read
<1>5. ASSUME NEW x \in h + 1 .. arrived' PROVE CellAt(x)' = stream[x]
  <2>1. x \in Nat /\ KeptFrom < x /\ x <= arrived'
    BY <1>1, <1>2
  <2>2. CellAt(x)' = IF x <= arrived THEN CellAt(x) ELSE stream[x]
    BY <1>0, <2>1, ReadBrings
  <2>3. x <= arrived => CellAt(x) = stream[x]
    BY <1>1 DEF QueueInv
  <2> QED
    BY <2>2, <2>3
<1> QED
  BY <1>0, <1>2, <1>3, <1>4, <1>5 DEF QueueInv, KeyBefore

(* What a step that hands a packet out leaves.                              *)
LEMMA GiveQueue ==
  ASSUME QueueInv, PieceInv', LineCall, Gives(0)
  PROVE  /\ QueueInv' /\ UNCHANGED <<stream, arrived>> /\ pc = "scan"
         /\ delivered' = Append(delivered, Frame(stream, HandedCells))
<1> DEFINE n == Len(delivered)
           h == HandedCells
<1>00. QueueInv /\ PieceInv /\ 0 \in 0 .. Len(buf)
  BY QueueNumbers
<1>0. /\ pc = "scan" /\ pc' = "compact"
      /\ UNCHANGED <<stream, arrived, ReadUpTo>> /\ Len(buf') = Len(buf)
      /\ read_ptr' = 0 + PackLen /\ Deliver(0) /\ Len(delivered') = n + 1
  BY <1>00, ScanLooks, GiveLooks
<1>1. /\ ReadUpTo = h /\ Len(buf) > PackLen /\ Len(buf) <= 2 * PackLen
      /\ Len(buf) \in Nat /\ h \in Nat /\ n \in Nat
      /\ arrived \in Nat /\ PackLen \in Nat /\ PackLen > 0
      /\ arrived = h + Len(buf) /\ buf \in Seq(Cell)
  BY <1>0, QueueNumbers DEF QueueInv
<1>2. Candidate(0) = Frame(stream, h)
  BY <1>0, NextPacket
<1>3. h' = h + PackLen
  BY <1>0, <1>1, Multiples DEF HandedCells
<1>4. prev_hkey' = KeyBefore(stream, (n + 1) + 1)
  <2>1. prev_hkey' = Frame(stream, h)[HkeyAt]
    BY <1>0, <1>2 DEF Deliver
  <2>2. (n + 1) + 1 # 1 /\ ((n + 1) + 1) - 2 = n
    BY <1>1
  <2> QED
    BY <2>1, <2>2 DEF KeyBefore, HandedCells
<1>5. ASSUME NEW x \in h' + 1 .. arrived PROVE CellAt(x)' = stream[x]
  <2>1. x \in h + 1 .. arrived /\ x - ReadUpTo \in 1 .. Len(buf) /\ x - ReadUpTo > PackLen
    BY <1>1, <1>3
  <2>2. CellAt(x) = stream[x]
    BY <2>1 DEF QueueInv
  <2>3. buf'[x - ReadUpTo] = buf[x - ReadUpTo]
    <3>1. CASE UNCHANGED buf
      BY <3>1
    <3>2. CASE buf' = [buf EXCEPT ![0 + HkeyAt] = prev_hkey]
      <4>1. 0 + HkeyAt \in 1 .. Len(buf) /\ 0 + HkeyAt # x - ReadUpTo
        BY <1>1, <2>1, Sizes
      <4>2. prev_hkey \in Cell
        BY <1>00, Places
      <4> QED
        BY <1>1, <2>1, <3>2, <4>1, <4>2, ExceptSeq
    <3> QED
      BY <3>1, <3>2 DEF Gives, ScanGood, ScanGoodWithPrevHkey
  <2> QED
    BY <1>0, <2>2, <2>3 DEF CellAt
<1>6. QueueInv'
  BY <1>00, <1>0, <1>1, <1>3, <1>4, <1>5 DEF QueueInv
<1> QED
  BY <1>0, <1>2, <1>6 DEF Deliver

LEMMA CompactQueue ==
  ASSUME QueueInv, PieceInv', LineCall, Compact
  PROVE  QueueInv' /\ UNCHANGED <<stream, arrived, delivered>>
<1> DEFINE h == HandedCells
<1>0. /\ PieceInv /\ pc = "compact" /\ pc' = "idle"
      /\ UNCHANGED <<stream, delivered, arrived, prev_hkey>>
      /\ \/ /\ read_ptr < Len(buf)
            /\ buf' = Drop(buf, read_ptr)
            /\ Len(buf') = Len(buf) - read_ptr
            /\ ReadUpTo' = ReadUpTo + read_ptr
         \/ read_ptr = Len(buf)
  BY CompactLooks DEF QueueInv, Compact
<1>1. /\ ReadUpTo + PackLen = h /\ read_ptr = PackLen
      /\ Len(buf) > PackLen /\ Len(buf) <= 2 * PackLen /\ Len(buf) \in Nat
      /\ h \in Nat /\ ReadUpTo \in Nat /\ PackLen \in Nat /\ arrived \in Nat
      /\ arrived = ReadUpTo + Len(buf) /\ buf \in Seq(Cell)
  BY <1>0, QueueNumbers DEF QueueInv
<1>2. /\ buf' = Drop(buf, PackLen) /\ Len(buf') = Len(buf) - PackLen
      /\ ReadUpTo' = h /\ h' = h
  BY <1>0, <1>1 DEF HandedCells
<1>3. ASSUME NEW x \in h + 1 .. arrived PROVE CellAt(x)' = stream[x]
  <2> DEFINE m == Len(buf) - PackLen
             k == x - h
  <2>1. /\ m \in Nat /\ PackLen + m <= Len(buf) /\ PackLen + m = Len(buf)
        /\ k \in 1 .. m /\ PackLen + k = x - ReadUpTo
    BY <1>1
  <2>2. buf' = SubSeq(buf, PackLen + 1, PackLen + m)
    BY <1>2, <2>1 DEF Drop
  <2> HIDE DEF m
  <2>3. \A j \in 1 .. m : buf'[j] = buf[PackLen + j]
    <3>1. /\ buf \in Seq(Cell) /\ PackLen \in Nat /\ m \in Nat
          /\ PackLen + m <= Len(buf)
      BY <1>1, <2>1
    <3>2. \A j \in 1 .. m : SubSeq(buf, PackLen + 1, PackLen + m)[j] = buf[PackLen + j]
      BY <3>1, CutType
    <3> QED
      BY <2>2, <3>2
  <2>4. buf'[k] = buf[x - ReadUpTo]
    BY <2>1, <2>3
  <2> QED
    BY <1>2, <2>4 DEF QueueInv, CellAt
<1>4. Len(buf') <= PackLen
  BY <1>1, <1>2
<1>5. QueueInv'
  BY <1>0, <1>2, <1>3, <1>4 DEF QueueInv
<1> QED
  BY <1>0, <1>5

(* A scan hands the packet out, the memmove follows.                        *)
LEMMA CallSteps ==
  ASSUME QueueInv, LineCall
  PROVE  \/ Read
         \/ pc = "scan" /\ Gives(0)
         \/ Compact
<1>1. Scan => pc = "scan" \/ Compact
  BY DEF Scan, ScanExhausted, ScanNoMagic, ScanIncomplete, ScanGood,
         ScanGoodWithPrevHkey, ScanBad, Scanning
<1> QED
  BY <1>1, ScanGives DEF LineCall, Call

LEMMA StepQueueInv == QueueInv /\ [LineCall]_lineVars => QueueInv'
<1> SUFFICES ASSUME QueueInv, [LineCall]_lineVars PROVE QueueInv'
  OBVIOUS
<1>0. PieceInv'
  <2>1. [LineNext]_lineVars
    BY DEF LineNext
  <2> QED
    BY <2>1, StepPiece DEF QueueInv
<1>1. CASE LineCall
  BY <1>0, <1>1, CallSteps, ReadQueue, GiveQueue, CompactQueue
<1>2. CASE UNCHANGED lineVars
  <2>1. UNCHANGED <<line, buf, stream, delivered, pc, read_ptr, prev_hkey>>
    BY <1>2 DEF lineVars, vars
  <2>2. UNCHANGED <<arrived, ReadUpTo>>
    BY <2>1 DEF arrived, ReadUpTo
  <2> QED
    BY <1>0, <2>1, <2>2 DEF QueueInv, HandedCells, CellAt
<1> QED
  BY <1>1, <1>2

LEMMA InitQueueInv ==
  ASSUME \A s \in Streams : WellFormed(s)
  PROVE  LineInit => QueueInv
<1> SUFFICES ASSUME LineInit PROVE QueueInv
  OBVIOUS
<1>1. /\ PieceInv /\ stream \in Streams /\ stream = line /\ pc = "idle" /\ buf = <<>>
      /\ delivered = <<>> /\ prev_hkey = NoKey
  BY InitPiece DEF LineInit, Init
<1>2. /\ Len(buf) = 0 /\ Len(delivered) = 0 /\ Len(line) \in Nat
      /\ PackLen \in Nat
  BY <1>1, Places, Sizes, EmptySeq
<1>3. arrived = 0 /\ HandedCells = 0
  BY <1>1, <1>2 DEF arrived, HandedCells
<1>4. ReadUpTo = 0
  BY <1>2, <1>3 DEF ReadUpTo
<1>5. \A x \in HandedCells + 1 .. arrived : FALSE
  BY <1>3
<1>6. prev_hkey = KeyBefore(stream, Len(delivered) + 1)
  BY <1>1, <1>2 DEF KeyBefore
<1> QED
  BY <1>1, <1>2, <1>3, <1>4, <1>5, <1>6 DEF QueueInv

-----------------------------------------------------------------------------
(* The refinement                                                           *)

LEMMA InitIsQueueInit == LineInit => Queue!Init
<1> SUFFICES ASSUME LineInit PROVE Queue!Init
  OBVIOUS
<1>1. stream = line /\ stream \in Streams /\ delivered = <<>>
  BY DEF LineInit, Init
<1>2. Len(line) \in Nat
  BY InitPiece, Places
<1>3. arrived = 0
  BY <1>1, <1>2 DEF arrived
<1> QED
  BY <1>1, <1>3 DEF Queue!Init

(* Cells arrive only while no packet is due.                                *)
LEMMA ReadIsArrive ==
  ASSUME QueueInv, LineCall, Read
  PROVE  [Queue!Next]_Queue!vars
<1>0. /\ pc = "idle" /\ UNCHANGED <<stream, delivered>> /\ PieceInv
  BY ReadLooks DEF QueueInv
<1>1. CASE ReadNothing
  BY <1>0, <1>1 DEF ReadNothing, arrived, Queue!vars
<1>2. CASE \E n \in 1 .. PackLen : ReadCells(n)
  <2>1. PICK n \in 1 .. PackLen : ReadCells(n)
    BY <1>2
  <2>2. n \in Nat /\ n <= Len(line) /\ line \in Seq(Cell) /\ Len(line) \in Nat
    BY <1>0, <2>1, Sizes, Places DEF ReadCells
  <2>3. Len(line') = Len(line) - n
    BY <2>1, <2>2, DropType DEF ReadCells
  <2>4. arrived' = arrived + n /\ arrived + n <= Len(stream)
    BY <1>0, <2>2, <2>3, Places DEF arrived
  <2>5. ~ Queue!Due
    <3>1. ~ (arrived > PackLen * (Len(delivered) + 1))
      BY <1>0, QueueNumbers DEF QueueInv
    <3> QED
      BY <3>1 DEF Queue!Due
  <2>6. Queue!Arrive(n)
    BY <1>0, <2>4, <2>5 DEF Queue!Arrive
  <2> QED
    BY <2>1, <2>6 DEF Queue!Next
<1> QED
  BY <1>1, <1>2 DEF Read

LEMMA GiveIsHandOver ==
  ASSUME QueueInv, PieceInv', LineCall, Gives(0)
  PROVE  Queue!HandOver
<1>1. /\ pc = "scan" /\ UNCHANGED <<stream, arrived>>
      /\ delivered' = Append(delivered, Frame(stream, HandedCells))
  BY GiveQueue
<1>2. Queue!Due
  <2>1. arrived > PackLen * (Len(delivered) + 1)
    BY <1>1, QueueNumbers DEF QueueInv
  <2> QED
    BY <2>1 DEF Queue!Due
<1>3. Frame(stream, HandedCells) = Queue!FrameOf(stream, Len(delivered) + 1)
  <2>1. /\ Len(delivered) \in Nat /\ (Len(delivered) + 1) - 1 = Len(delivered)
        /\ (Len(delivered) + 1) * PackLen = HandedCells + PackLen
    BY QueueNumbers, Multiples DEF HandedCells
  <2> QED
    BY <2>1 DEF Frame, HandedCells, Queue!FrameOf
<1> QED
  BY <1>1, <1>2, <1>3 DEF Queue!HandOver

LEMMA StepIsQueueStep ==
  QueueInv /\ [LineCall]_lineVars => [Queue!Next]_Queue!vars
<1> SUFFICES ASSUME QueueInv, [LineCall]_lineVars PROVE [Queue!Next]_Queue!vars
  OBVIOUS
<1>0. PieceInv'
  <2>1. [LineNext]_lineVars
    BY DEF LineNext
  <2> QED
    BY <2>1, StepPiece DEF QueueInv
<1>1. CASE LineCall /\ Read
  BY <1>1, ReadIsArrive
<1>2. CASE LineCall /\ Gives(0)
  BY <1>0, <1>2, GiveIsHandOver DEF Queue!Next
<1>3. CASE LineCall /\ Compact
  BY <1>0, <1>3, CompactQueue DEF Queue!vars
<1>4. CASE UNCHANGED lineVars
  BY <1>4 DEF lineVars, vars, arrived, Queue!vars
<1> QED
  BY <1>1, <1>2, <1>3, <1>4, CallSteps

(* The calls of x6200_flow_read on whole packets implement the queue: every *)
(* packet is handed out exactly once, in order and as it was sent, before   *)
(* any further read, also when its hkey changed after the checksum was      *)
(* taken (flow.c:195-201).  That they are handed out at all is checked by   *)
(* TLC (QueueSpec).                                                         *)
THEOREM CallsAreAQueue ==
  ASSUME \A s \in Streams : WellFormed(s)
  PROVE  LineInit /\ [][LineCall]_lineVars => Queue!Spec
<1>1. LineInit => QueueInv
  BY InitQueueInv
<1> QED
  BY <1>1, InitIsQueueInit, StepQueueInv, StepIsQueueStep, PTL DEF Queue!Spec

=============================================================================
