--------------------------- MODULE FlowLine_proofs ---------------------------
(***************************************************************************)
(* Proofs about FlowLine, for any packet length, magic word, checksum and  *)
(* streams, with restarts and a port that dies.                            *)
(***************************************************************************)
EXTENDS FlowLine, SequenceTheorems, TLAPS

-----------------------------------------------------------------------------
(* Pieces of sequences                                                      *)

LEMMA CutType ==
  ASSUME NEW S, NEW s \in Seq(S), NEW b \in Nat, NEW n \in Nat, b + n <= Len(s)
  PROVE  /\ SubSeq(s, b + 1, b + n) \in Seq(S)
         /\ Len(SubSeq(s, b + 1, b + n)) = n
         /\ \A i \in 1 .. n : SubSeq(s, b + 1, b + n)[i] = s[b + i]
<1>1. Len(s) \in Nat /\ \A i \in b + 1 .. b + n : s[i] \in S
  BY LenProperties
<1>2. /\ SubSeq(s, b + 1, b + n) \in Seq(S)
      /\ \A i \in 1 .. (b + n) - (b + 1) + 1 :
           SubSeq(s, b + 1, b + n)[i] = s[(b + 1) + i - 1]
  BY <1>1, SubSeqProperties
<1>3. Len(SubSeq(s, b + 1, b + n)) = n
  <2>1. (b + n) - (b + 1) + 1 = n
    OBVIOUS
  <2>2. CASE n = 0
    <3>1. b + 1 > b + n
      BY <2>2
    <3> QED
      BY <1>1, <2>2, <3>1, SubSeqProperties
  <2>3. CASE n # 0
    <3>1. b + 1 <= b + n
      BY <2>3
    <3> QED
      BY <1>1, <2>1, <3>1, SubSeqProperties
  <2> QED
    BY <2>2, <2>3
<1>4. ASSUME NEW i \in 1 .. n PROVE SubSeq(s, b + 1, b + n)[i] = s[b + i]
  <2>1. i \in 1 .. (b + n) - (b + 1) + 1 /\ (b + 1) + i - 1 = b + i
    OBVIOUS
  <2> QED
    BY <1>2, <2>1
<1> QED
  BY <1>2, <1>3, <1>4

(* Sequences of n cells that are alike cell by cell are the same.           *)
LEMMA SameCells ==
  ASSUME NEW n, NEW s \in Seq(Cell), NEW t \in Seq(Cell), Len(s) = n, Len(t) = n,
         \A i \in 1 .. n : s[i] = t[i]
  PROVE  s = t
<1>1. \A i \in 1 .. Len(s) : s[i] = t[i]
  OBVIOUS
<1> QED
  BY <1>1, SeqEqual

(* What has the length and the cells of t, is t.                            *)
LEMMA CutIs ==
  ASSUME NEW S, NEW s \in Seq(S), NEW t \in Seq(S), NEW b \in Nat,
         b + Len(t) <= Len(s)
  PROVE  SubSeq(s, b + 1, b + Len(t)) = t
           <=> \A i \in 1 .. Len(t) : s[b + i] = t[i]
<1>1. Len(t) \in Nat
  BY LenProperties
<1> DEFINE c == SubSeq(s, b + 1, b + Len(t))
<1>2. c \in Seq(S) /\ Len(c) = Len(t) /\ \A i \in 1 .. Len(t) : c[i] = s[b + i]
  BY <1>1, CutType
<1>3. (\A i \in 1 .. Len(c) : c[i] = t[i]) => c = t
  BY <1>2, SeqEqual
<1> QED
  BY <1>2, <1>3

LEMMA DropType ==
  ASSUME NEW S, NEW s \in Seq(S), NEW n \in Nat, n <= Len(s)
  PROVE  Drop(s, n) \in Seq(S) /\ Len(Drop(s, n)) = Len(s) - n
<1>1. Len(s) - n \in Nat /\ n + (Len(s) - n) = Len(s)
  BY LenProperties
<1> DEFINE m == Len(s) - n
<1>2. Drop(s, n) = SubSeq(s, n + 1, n + m)
  BY <1>1 DEF Drop
<1>3. m \in Nat /\ n + m <= Len(s)
  BY <1>1, LenProperties
<1> HIDE DEF m
<1>4. /\ SubSeq(s, n + 1, n + m) \in Seq(S)
      /\ Len(SubSeq(s, n + 1, n + m)) = m
  BY <1>3, CutType
<1> QED
  BY <1>2, <1>4 DEF m

LEMMA PieceType ==
  ASSUME NEW S, NEW s \in Seq(S), NEW n \in Nat, n <= Len(s)
  PROVE  SubSeq(s, 1, n) \in Seq(S) /\ Len(SubSeq(s, 1, n)) = n
<1>1. 0 \in Nat /\ 0 + 1 = 1 /\ 0 + n = n
  OBVIOUS
<1> QED
  BY <1>1, CutType

LEMMA ReplaceType ==
  ASSUME NEW S, NEW s \in Seq(S), NEW i \in 1 .. Len(s), NEW e \in S
  PROVE  [s EXCEPT ![i] = e] \in Seq(S) /\ Len([s EXCEPT ![i] = e]) = Len(s)
BY ExceptSeq

LEMMA Sizes ==
  /\ MagicLen \in Nat /\ MagicLen >= 2 /\ MagicLen < PackLen
  /\ HkeyAt \in 1 .. PackLen - 1 /\ MagicLen < HkeyAt
  /\ PackLen \in Nat /\ PackLen > 3
  /\ BufSize \in Nat /\ BufSize = 3 * PackLen
BY LayoutAssumption DEF LayoutAssumption, BufSize

-----------------------------------------------------------------------------
(* The buffer                                                               *)

(* Between calls and inside flow_check the buffer holds at most BUF_SIZE    *)
(* cells and read_ptr stays within it.                                      *)
BufferInv ==
  /\ TypeOK
  /\ Len(buf) <= BufSize
  /\ pc # "idle" => read_ptr <= Len(buf)

(* Room for one read() is always made (flow.c:227-231).                     *)
LEMMA ShiftedFits ==
  ASSUME buf \in Seq(Cell), Len(buf) <= BufSize
  PROVE  /\ Shifted \in Seq(Cell)
         /\ Len(Shifted) \in Nat
         /\ Len(Shifted) + PackLen <= BufSize
<1>1. Len(buf) \in Nat
  BY LenProperties
<1> DEFINE space == BufSize - Len(buf)
<1>2. CASE space < PackLen
  <2>1. PackLen - space \in Nat /\ PackLen - space <= Len(buf)
    BY <1>1, <1>2, Sizes
  <2>2. /\ Drop(buf, PackLen - space) \in Seq(Cell)
        /\ Len(Drop(buf, PackLen - space)) = Len(buf) - (PackLen - space)
    BY <2>1, DropType
  <2> QED
    BY <1>1, <1>2, <2>1, <2>2, Sizes DEF Shifted
<1>3. CASE ~ (space < PackLen)
  BY <1>1, <1>3, Sizes DEF Shifted
<1> QED
  BY <1>2, <1>3

LEMMA CandidateType ==
  ASSUME buf \in Seq(Cell), NEW b \in 0 .. Len(buf), Len(buf) - b >= PackLen
  PROVE  /\ Candidate(b) \in Seq(Cell)
         /\ Len(Candidate(b)) = PackLen
         /\ Candidate(b)[HkeyAt] \in Cell
         /\ b + HkeyAt \in 1 .. Len(buf)
<1>1. Len(buf) \in Nat
  BY LenProperties
<1>2. /\ SubSeq(buf, b + 1, b + PackLen) \in Seq(Cell)
      /\ Len(SubSeq(buf, b + 1, b + PackLen)) = PackLen
  BY <1>1, Sizes, CutType
<1>3. HkeyAt \in 1 .. Len(Candidate(b))
  BY <1>2, Sizes DEF Candidate
<1> QED
  BY <1>1, <1>2, <1>3, Sizes, ElementOfSeq DEF Candidate

LEMMA DeliverType ==
  ASSUME TypeOK, NEW b \in 0 .. Len(buf), Len(buf) - b >= PackLen, Deliver(b)
  PROVE  /\ delivered' \in Seq(Seq(Cell))
         /\ prev_hkey' \in Cell
         /\ read_ptr' \in Nat /\ read_ptr' <= Len(buf)
         /\ pc' = "compact"
         /\ UNCHANGED <<line, port>>
<1>1. Candidate(b) \in Seq(Cell) /\ Candidate(b)[HkeyAt] \in Cell
  BY CandidateType DEF TypeOK
<1>2. Append(delivered, Candidate(b)) \in Seq(Seq(Cell))
  BY <1>1, AppendProperties DEF TypeOK
<1>3. Len(buf) \in Nat
  BY LenProperties DEF TypeOK
<1> QED
  BY <1>1, <1>2, <1>3, Sizes DEF Deliver

LEMMA ReadBuffer == BufferInv /\ Read => BufferInv'
<1> SUFFICES ASSUME BufferInv, Read PROVE BufferInv'
  OBVIOUS
<1>1. /\ Shifted \in Seq(Cell) /\ Len(Shifted) \in Nat
      /\ Len(Shifted) + PackLen <= BufSize
  BY ShiftedFits DEF BufferInv, TypeOK
<1>2. CASE ReadNothing
  BY <1>1, <1>2, Sizes DEF ReadNothing, BufferInv, TypeOK
<1>3. CASE \E n \in 1 .. PackLen : ReadCells(n)
  <2>1. PICK n \in 1 .. PackLen : ReadCells(n)
    BY <1>3
  <2>2. line \in Seq(Cell) /\ Len(line) \in Nat /\ n \in Nat /\ n <= Len(line)
    BY <2>1, Sizes, LenProperties DEF ReadCells, BufferInv, TypeOK
  <2>3. SubSeq(line, 1, n) \in Seq(Cell) /\ Len(SubSeq(line, 1, n)) = n
    BY <2>2, PieceType
  <2>4. buf' \in Seq(Cell) /\ Len(buf') = Len(Shifted) + n
    BY <1>1, <2>1, <2>3, ConcatProperties DEF ReadCells
  <2>5. line' \in Seq(Cell)
    BY <2>1, <2>2, DropType DEF ReadCells
  <2>6. Len(buf') \in Nat /\ Len(buf') <= BufSize
    BY <1>1, <2>4, Sizes
  <2> QED
    BY <2>1, <2>4, <2>5, <2>6 DEF ReadCells, BufferInv, TypeOK
<1> QED
  BY <1>2, <1>3 DEF Read

LEMMA ScanBuffer == BufferInv /\ Scan => BufferInv'
<1> SUFFICES ASSUME BufferInv, Scan PROVE BufferInv'
  OBVIOUS
<1>0. TypeOK /\ Len(buf) \in Nat /\ Len(buf) <= BufSize
  BY LenProperties DEF BufferInv, TypeOK
<1>1. CASE ScanExhausted
  BY <1>1 DEF ScanExhausted, BufferInv, TypeOK
<1>2. CASE ScanNoMagic
  <2>1. read_ptr \in Nat /\ Len(buf) - read_ptr >= PackLen
    BY <1>0, <1>2 DEF ScanNoMagic, Scanning, TypeOK
  <2>2. read_ptr' \in Nat /\ read_ptr' <= Len(buf)
    BY <1>0, <1>2, <2>1, Sizes DEF ScanNoMagic
  <2> QED
    BY <1>0, <1>2, <2>2 DEF ScanNoMagic, BufferInv, TypeOK
<1>3. ASSUME NEW b \in 0 .. Len(buf), ScanIncomplete(b) PROVE BufferInv'
  BY <1>0, <1>3 DEF ScanIncomplete, BufferInv, TypeOK
<1>4. ASSUME NEW b \in 0 .. Len(buf), ScanGood(b) PROVE BufferInv'
  <2>1. Len(buf) - b >= PackLen /\ Deliver(b) /\ UNCHANGED buf
    BY <1>4 DEF ScanGood
  <2> QED
    BY <1>0, <2>1, DeliverType DEF BufferInv, TypeOK
<1>5. ASSUME NEW b \in 0 .. Len(buf), ScanGoodWithPrevHkey(b) PROVE BufferInv'
  <2>1. Len(buf) - b >= PackLen /\ Deliver(b)
    BY <1>5 DEF ScanGoodWithPrevHkey
  <2>2. buf' \in Seq(Cell) /\ Len(buf') = Len(buf)
    BY <1>0, <1>5, <2>1, CandidateType, ReplaceType
    DEF ScanGoodWithPrevHkey, TypeOK
  <2> QED
    BY <1>0, <2>1, <2>2, DeliverType DEF BufferInv, TypeOK
<1>6. ASSUME NEW b \in 0 .. Len(buf), ScanBad(b) PROVE BufferInv'
  <2>1. Len(buf) - b >= PackLen
    BY <1>6 DEF ScanBad
  <2>2. buf' \in Seq(Cell) /\ Len(buf') = Len(buf)
    BY <1>0, <1>6, <2>1, CandidateType, ReplaceType DEF ScanBad, TypeOK
  <2>3. read_ptr' \in Nat /\ read_ptr' <= Len(buf)
    BY <1>0, <1>6, <2>1, Sizes DEF ScanBad
  <2> QED
    BY <1>0, <1>6, <2>2, <2>3 DEF ScanBad, BufferInv, TypeOK
<1>7. CASE Compact
  <2>1. read_ptr \in Nat /\ read_ptr <= Len(buf)
    BY <1>7 DEF Compact, BufferInv, TypeOK
  <2>2. buf' \in Seq(Cell) /\ Len(buf') <= Len(buf) /\ Len(buf') \in Nat
    BY <1>0, <1>7, <2>1, DropType DEF Compact, TypeOK
  <2> QED
    BY <1>0, <1>7, <2>2, Sizes DEF Compact, BufferInv, TypeOK
<1> QED
  BY <1>1, <1>2, <1>3, <1>4, <1>5, <1>6, <1>7 DEF Scan

LEMMA RestartBuffer ==
  ASSUME BufferInv, NEW lost \in 0 .. Len(line), NEW outcome \in {"open", "dead"},
         Restart(lost, outcome)
  PROVE  BufferInv'
<1>1. line' \in Seq(Cell)
  <2>1. lost \in Nat /\ lost <= Len(line)
    BY LenProperties DEF BufferInv, TypeOK
  <2> QED
    BY <2>1, DropType DEF Restart, BufferInv, TypeOK
<1>2. buf' \in Seq(Cell) /\ Len(buf') = 0 /\ pc' = "idle"
  BY EmptySeq DEF Restart
<1> QED
  BY <1>1, <1>2, Sizes DEF Restart, BufferInv, TypeOK

LEMMA InitBuffer == LineInit => BufferInv
<1> SUFFICES ASSUME LineInit PROVE BufferInv
  OBVIOUS
<1>1. buf \in Seq(Cell) /\ Len(buf) = 0 /\ delivered \in Seq(Seq(Cell))
  BY EmptySeq DEF LineInit, Init
<1> QED
  BY <1>1, Sizes, StreamsAssumption, LayoutAssumption
  DEF LineInit, Init, BufferInv, TypeOK, StreamsAssumption, LayoutAssumption

LEMMA StepBuffer == BufferInv /\ [LineNext]_lineVars => BufferInv'
<1> SUFFICES ASSUME BufferInv, [LineNext]_lineVars PROVE BufferInv'
  OBVIOUS
<1>1. CASE LineCall
  BY <1>1, ReadBuffer, ScanBuffer DEF LineCall, Call
<1>2. CASE PortDies
  BY <1>2 DEF PortDies, BufferInv, TypeOK
<1>3. CASE \E lost \in 0 .. Len(line), outcome \in {"open", "dead"} :
             LineRestart(lost, outcome)
  BY <1>3, RestartBuffer DEF LineRestart
<1>4. CASE UNCHANGED lineVars
  BY <1>4 DEF lineVars, vars, BufferInv, TypeOK
<1> QED
  BY <1>1, <1>2, <1>3, <1>4 DEF LineNext

LEMMA BufferInvSafe == BufferInv => BufferSafe
BY ShiftedFits DEF BufferInv, TypeOK, BufferSafe

(* Types of the reader's state, with restarts (flow.c:21-28).               *)
THEOREM LineTypeCorrect == LineSpec => []TypeOK
<1>1. BufferInv => TypeOK
  BY DEF BufferInv
<1> QED
  BY <1>1, InitBuffer, StepBuffer, PTL DEF LineSpec

(* BufferSafe for any stream and any slicing of it: memory outside of buf   *)
(* is never written and never looked at (flow.c:175, 225-239).              *)
THEOREM BufferAlwaysSafe == LineSpec => []BufferSafe
BY InitBuffer, StepBuffer, BufferInvSafe, PTL DEF LineSpec

-----------------------------------------------------------------------------
(* What the caller gets has been checked                                    *)

(* hkey of the packet that stands before place i in a sequence of packets.  *)
KeyAhead(packets, i) == IF i = 1 THEN NoKey ELSE packets[i - 1][HkeyAt]

(* prev_hkey is that of the packet handed out last, in every state: a scan, *)
(* a false start and a restart leave it alone.                              *)
CheckedInv ==
  /\ BufferInv
  /\ Checked
  /\ prev_hkey = KeyAhead(delivered, Len(delivered) + 1)

(* The place where memmem finds the magic word starts a packet with it.     *)
LEMMA CandidateHasMagic ==
  ASSUME TypeOK, NEW b \in 0 .. Len(buf), FirstHit(b), Len(buf) - b >= PackLen
  PROVE  HasMagic(Candidate(b))
<1>1. Len(buf) \in Nat /\ buf \in Seq(Cell)
  BY LenProperties DEF TypeOK
<1>2. /\ b + 1 \in 1 .. Len(buf) /\ b + PackLen \in 1 .. Len(buf)
      /\ 1 \in 1 .. (b + PackLen) - (b + 1) + 1
      /\ MagicLen \in 1 .. (b + PackLen) - (b + 1) + 1
  BY <1>1, Sizes
<1>3. SubSeq(SubSeq(buf, b + 1, b + PackLen), 1, MagicLen)
        = SubSeq(buf, (b + 1) + 1 - 1, (b + 1) + MagicLen - 1)
  BY <1>1, <1>2, SubSeqOfSubSeq
<1>4. (b + 1) + 1 - 1 = b + 1 /\ (b + 1) + MagicLen - 1 = b + MagicLen
  BY Sizes
<1>5. SubSeq(buf, b + 1, b + MagicLen) = Magic
  BY DEF FirstHit, Hits, MagicAt
<1> QED
  BY <1>3, <1>4, <1>5 DEF HasMagic, Candidate

LEMMA DeliverChecks ==
  ASSUME CheckedInv, NEW b \in 0 .. Len(buf), FirstHit(b),
         Len(buf) - b >= PackLen,
         CrcOk(Candidate(b)) \/ CrcOk(WithHkey(Candidate(b), prev_hkey)),
         Deliver(b)
  PROVE  Checked' /\ prev_hkey' = KeyAhead(delivered', Len(delivered') + 1)
<1> DEFINE d == Candidate(b)
           n == Len(delivered)
<1>1. TypeOK /\ delivered \in Seq(Seq(Cell)) /\ n \in Nat
  BY LenProperties DEF CheckedInv, BufferInv, TypeOK
<1>2. d \in Seq(Cell)
  BY <1>1, CandidateType DEF TypeOK
<1>3. /\ Len(delivered') = n + 1
      /\ \A i \in 1 .. n : delivered'[i] = delivered[i]
      /\ delivered'[n + 1] = d
  BY <1>1, <1>2, AppendProperties DEF Deliver
<1>4. DOMAIN delivered = 1 .. n /\ DOMAIN delivered' = 1 .. n + 1
  <2>1. delivered' \in Seq(Seq(Cell))
    BY <1>1, <1>2, AppendProperties DEF Deliver
  <2> QED
    BY <1>1, <1>3, <2>1, LenProperties
<1>5. Valid(d, prev_hkey)
  BY <1>1, CandidateHasMagic DEF Valid
<1>6. \A i \in 1 .. n + 1 : KeyAhead(delivered', i) = KeyAhead(delivered, i)
  <2> TAKE i \in 1 .. n + 1
  <2>1. CASE i = 1
    BY <2>1 DEF KeyAhead
  <2>2. CASE i # 1
    <3>1. i - 1 \in 1 .. n
      BY <1>1, <2>2
    <3> QED
      BY <1>3, <2>2, <3>1 DEF KeyAhead
  <2> QED
    BY <2>1, <2>2
<1>7. ASSUME NEW i \in 1 .. n + 1 PROVE Valid(delivered'[i], KeyAhead(delivered', i))
  <2>1. CASE i = n + 1
    BY <1>3, <1>5, <1>6, <2>1 DEF CheckedInv
  <2>2. CASE i # n + 1
    <3>1. i \in 1 .. n
      BY <1>1, <2>2
    <3>2. Valid(delivered[i], KeyAhead(delivered, i))
      BY <1>4, <3>1 DEF CheckedInv, Checked, KeyAhead
    <3> QED
      BY <1>3, <1>6, <3>1, <3>2
  <2> QED
    BY <2>1, <2>2
<1>8. Checked'
  BY <1>4, <1>7 DEF Checked, KeyAhead
<1>9. KeyAhead(delivered', n + 2) = d[HkeyAt]
  <2>1. n + 2 # 1 /\ (n + 2) - 1 = n + 1
    BY <1>1
  <2> QED
    BY <1>3, <2>1 DEF KeyAhead
<1>10. prev_hkey' = KeyAhead(delivered', Len(delivered') + 1)
  <2>1. (n + 1) + 1 = n + 2
    BY <1>1
  <2> QED
    BY <1>3, <1>9, <2>1 DEF Deliver
<1> QED
  BY <1>8, <1>10

(* A step that hands nothing out and keeps prev_hkey.                       *)
LEMMA NothingHandedOut ==
  CheckedInv /\ UNCHANGED <<delivered, prev_hkey>>
    => Checked' /\ prev_hkey' = KeyAhead(delivered', Len(delivered') + 1)
BY DEF CheckedInv, Checked, KeyAhead

LEMMA StepChecked == CheckedInv /\ [LineNext]_lineVars => CheckedInv'
<1> SUFFICES ASSUME CheckedInv, [LineNext]_lineVars PROVE CheckedInv'
  OBVIOUS
<1>1. BufferInv'
  BY StepBuffer DEF CheckedInv
<1>2. ASSUME NEW b \in 0 .. Len(buf), ScanGood(b)
      PROVE  Checked' /\ prev_hkey' = KeyAhead(delivered', Len(delivered') + 1)
  BY <1>2, DeliverChecks DEF ScanGood
<1>3. ASSUME NEW b \in 0 .. Len(buf), ScanGoodWithPrevHkey(b)
      PROVE  Checked' /\ prev_hkey' = KeyAhead(delivered', Len(delivered') + 1)
  BY <1>3, DeliverChecks DEF ScanGoodWithPrevHkey
<1>4. CASE UNCHANGED <<delivered, prev_hkey>>
  BY <1>1, <1>4, NothingHandedOut DEF CheckedInv
<1>5. \/ UNCHANGED <<delivered, prev_hkey>>
      \/ \E b \in 0 .. Len(buf) : ScanGood(b) \/ ScanGoodWithPrevHkey(b)
  <2>1. CASE Read
    BY <2>1 DEF Read, ReadNothing, ReadCells
  <2>2. CASE Scan
    BY <2>2 DEF Scan, ScanExhausted, ScanNoMagic, ScanIncomplete, ScanBad, Compact
  <2>3. CASE PortDies
    BY <2>3 DEF PortDies
  <2>4. CASE \E lost \in 0 .. Len(line), outcome \in {"open", "dead"} :
               LineRestart(lost, outcome)
    BY <2>4 DEF LineRestart, Restart
  <2>5. CASE UNCHANGED lineVars
    BY <2>5 DEF lineVars, vars
  <2> QED
    BY <2>1, <2>2, <2>3, <2>4, <2>5 DEF LineNext, LineCall, Call
<1> QED
  BY <1>1, <1>2, <1>3, <1>4, <1>5 DEF CheckedInv

LEMMA InitChecked == LineInit => CheckedInv
<1> SUFFICES ASSUME LineInit PROVE CheckedInv
  OBVIOUS
<1>1. delivered = <<>> /\ Len(delivered) = 0 /\ prev_hkey = NoKey
  BY DEF LineInit, Init
<1>2. DOMAIN delivered = {}
  BY <1>1
<1> QED
  BY <1>1, <1>2, InitBuffer DEF CheckedInv, Checked, KeyAhead

(* Checked for any checksum, any bytes, any slicing and restarts at any     *)
(* moment: no packet reaches the caller of x6200_flow_read whose magic word *)
(* and checksum flow_check has not found right (flow.c:188-210).            *)
THEOREM OnlyCheckedPackets == LineSpec => []Checked
<1>1. CheckedInv => Checked
  BY DEF CheckedInv
<1> QED
  BY <1>1, InitChecked, StepChecked, PTL DEF LineSpec

-----------------------------------------------------------------------------
(* The buffer is one piece of the stream                                    *)

(* The cells of piece are those of whole from place at on, or keys.         *)
PieceOf(piece, whole, at, keys) ==
  \A i \in 1 .. Len(piece) : piece[i] = whole[at + i] \/ piece[i] \in keys

LEMMA PieceWithin ==
  ASSUME NEW piece \in Seq(Cell), NEW whole, NEW at \in Int, NEW keys,
         PieceOf(piece, whole, at, keys), NEW b \in Nat, NEW n \in Nat,
         b + n <= Len(piece)
  PROVE  PieceOf(SubSeq(piece, b + 1, b + n), whole, at + b, keys)
<1>1. Len(piece) \in Nat
  BY LenProperties
<1>2. /\ Len(SubSeq(piece, b + 1, b + n)) = n
      /\ \A i \in 1 .. n : SubSeq(piece, b + 1, b + n)[i] = piece[b + i]
  BY CutType
<1>3. \A i \in 1 .. n : b + i \in 1 .. Len(piece) /\ (at + b) + i = at + (b + i)
  BY <1>1
<1> QED
  BY <1>2, <1>3 DEF PieceOf

LEMMA PieceDropped ==
  ASSUME NEW piece \in Seq(Cell), NEW whole, NEW at \in Int, NEW keys,
         PieceOf(piece, whole, at, keys), NEW n \in Nat, n <= Len(piece)
  PROVE  PieceOf(Drop(piece, n), whole, at + n, keys)
<1>1. Len(piece) \in Nat
  BY LenProperties
<1> DEFINE m == Len(piece) - n
<1>2. m \in Nat /\ n + m <= Len(piece) /\ n + m = Len(piece)
  BY <1>1
<1>3. Drop(piece, n) = SubSeq(piece, n + 1, n + m)
  BY <1>2 DEF Drop
<1> HIDE DEF m
<1> QED
  BY <1>2, <1>3, PieceWithin

LEMMA PieceCut ==
  ASSUME NEW piece \in Seq(Cell), NEW whole, NEW at \in Int, NEW keys,
         PieceOf(piece, whole, at, keys), NEW n \in Nat, n <= Len(piece)
  PROVE  PieceOf(SubSeq(piece, 1, n), whole, at, keys)
<1>1. 0 + 1 = 1 /\ 0 + n = n /\ at + 0 = at /\ 0 \in Nat
  OBVIOUS
<1> QED
  BY <1>1, PieceWithin

LEMMA PiecesJoined ==
  ASSUME NEW s \in Seq(Cell), NEW t \in Seq(Cell), NEW whole, NEW at \in Int,
         NEW keys, PieceOf(s, whole, at, keys), PieceOf(t, whole, at + Len(s), keys)
  PROVE  PieceOf(s \o t, whole, at, keys)
<1>1. Len(s) \in Nat /\ Len(t) \in Nat /\ Len(s \o t) = Len(s) + Len(t)
  BY LenProperties, ConcatProperties
<1>2. \A i \in 1 .. Len(s) + Len(t) :
        (s \o t)[i] = IF i <= Len(s) THEN s[i] ELSE t[i - Len(s)]
  BY ConcatProperties
<1> SUFFICES ASSUME NEW i \in 1 .. Len(s) + Len(t)
             PROVE  (s \o t)[i] = whole[at + i] \/ (s \o t)[i] \in keys
  BY <1>1 DEF PieceOf
<1>3. CASE i <= Len(s)
  <2>1. i \in 1 .. Len(s)
    BY <1>1, <1>3
  <2> QED
    BY <1>2, <1>3, <2>1 DEF PieceOf
<1>4. CASE ~ (i <= Len(s))
  <2>1. i - Len(s) \in 1 .. Len(t) /\ (at + Len(s)) + (i - Len(s)) = at + i
    BY <1>1, <1>4
  <2> QED
    BY <1>2, <1>4, <2>1 DEF PieceOf
<1> QED
  BY <1>3, <1>4

LEMMA KeyWritten ==
  ASSUME NEW piece \in Seq(Cell), NEW whole, NEW at \in Int, NEW keys,
         PieceOf(piece, whole, at, keys),
         NEW j \in 1 .. Len(piece), NEW key \in keys, key \in Cell
  PROVE  PieceOf([piece EXCEPT ![j] = key], whole, at, keys)
<1>1. /\ Len([piece EXCEPT ![j] = key]) = Len(piece)
      /\ \A i \in 1 .. Len(piece) :
           [piece EXCEPT ![j] = key][i] = IF i = j THEN key ELSE piece[i]
  BY ExceptSeq
<1> QED
  BY <1>1 DEF PieceOf

LEMMA MoreKeys ==
  ASSUME NEW piece, NEW whole, NEW at, NEW keys, NEW more, keys \subseteq more,
         PieceOf(piece, whole, at, keys)
  PROVE  PieceOf(piece, whole, at, more)
BY DEF PieceOf

(* Each packet handed out has a place in the stream and was read there.     *)
Handed ==
  /\ places \in Seq(Nat) /\ Len(places) = Len(delivered)
  /\ \A i \in 1 .. Len(delivered) :
       PieceOf(delivered[i], stream, places[i], KeysSeen)

(* Where in the stream the oldest cell of buf stood, and what has yet to    *)
(* be read: the rest of the stream from arrived on.                         *)
PieceInv ==
  /\ CheckedInv
  /\ stream \in Seq(Cell) /\ Len(line) <= Len(stream)
  /\ opened \in Nat /\ opened <= arrived - Len(buf)
  /\ PieceOf(line, stream, arrived, {})
  /\ PieceOf(buf, stream, arrived - Len(buf), KeysSeen)
  /\ Handed

LEMMA NothingHanded == Handed /\ UNCHANGED <<stream, delivered, places>> => Handed'
BY DEF Handed, KeysSeen

LEMMA Places ==
  ASSUME PieceInv
  PROVE  /\ line \in Seq(Cell) /\ buf \in Seq(Cell) /\ prev_hkey \in Cell
         /\ Len(line) \in Nat /\ Len(stream) \in Nat /\ Len(buf) \in Nat
         /\ arrived \in Nat /\ arrived - Len(buf) \in Nat
         /\ arrived = Len(stream) - Len(line)
         /\ prev_hkey \in KeysSeen
<1>1. /\ line \in Seq(Cell) /\ buf \in Seq(Cell) /\ stream \in Seq(Cell)
      /\ delivered \in Seq(Seq(Cell)) /\ prev_hkey \in Cell
  BY DEF PieceInv, CheckedInv, BufferInv, TypeOK
<1>2. /\ Len(line) \in Nat /\ Len(stream) \in Nat /\ Len(buf) \in Nat
      /\ Len(delivered) \in Nat /\ DOMAIN delivered = 1 .. Len(delivered)
  BY <1>1, LenProperties
<1>3. arrived \in Nat /\ arrived - Len(buf) \in Nat
  BY <1>2 DEF PieceInv, arrived
<1>4. prev_hkey \in KeysSeen
  <2>1. prev_hkey = KeyAhead(delivered, Len(delivered) + 1)
    BY DEF PieceInv, CheckedInv
  <2>2. CASE Len(delivered) = 0
    BY <2>1, <2>2 DEF KeyAhead, KeysSeen
  <2>3. CASE Len(delivered) # 0
    <3>1. /\ Len(delivered) + 1 # 1 /\ (Len(delivered) + 1) - 1 = Len(delivered)
          /\ Len(delivered) \in DOMAIN delivered
      BY <1>2, <2>3
    <3> QED
      BY <2>1, <3>1 DEF KeyAhead, KeysSeen
  <2> QED
    BY <2>2, <2>3
<1> QED
  BY <1>1, <1>2, <1>3, <1>4 DEF arrived

(* Making room keeps the end of the piece where it was.                     *)
LEMMA ShiftedPiece ==
  ASSUME PieceInv
  PROVE  /\ Shifted \in Seq(Cell) /\ Len(Shifted) \in Nat
         /\ Len(Shifted) <= Len(buf)
         /\ PieceOf(Shifted, stream, arrived - Len(Shifted), KeysSeen)
<1>0. /\ buf \in Seq(Cell) /\ Len(buf) \in Nat /\ Len(buf) <= BufSize
      /\ arrived \in Nat /\ arrived - Len(buf) \in Nat
      /\ PieceOf(buf, stream, arrived - Len(buf), KeysSeen)
  BY Places DEF PieceInv, CheckedInv, BufferInv
<1> DEFINE space == BufSize - Len(buf)
           n == PackLen - space
<1>1. CASE space < PackLen
  <2>1. n \in Nat /\ n <= Len(buf)
    BY <1>0, <1>1, Sizes
  <2>2. Drop(buf, n) \in Seq(Cell) /\ Len(Drop(buf, n)) = Len(buf) - n
    BY <1>0, <2>1, DropType
  <2>3. PieceOf(Drop(buf, n), stream, (arrived - Len(buf)) + n, KeysSeen)
    BY <1>0, <2>1, PieceDropped
  <2>4. (arrived - Len(buf)) + n = arrived - (Len(buf) - n)
    BY <1>0, <2>1
  <2>5. Shifted = Drop(buf, n)
    BY <1>1 DEF Shifted
  <2>6. Len(buf) - n \in Nat /\ Len(buf) - n <= Len(buf)
    BY <1>0, <2>1
  <2> QED
    BY <2>2, <2>3, <2>4, <2>5, <2>6
<1>2. CASE ~ (space < PackLen)
  <2>1. Shifted = buf
    BY <1>2 DEF Shifted
  <2> QED
    BY <1>0, <2>1
<1> QED
  BY <1>1, <1>2

LEMMA ReadPiece == PieceInv /\ LineCall /\ Read => PieceInv'
<1> SUFFICES ASSUME PieceInv, LineCall, Read PROVE PieceInv'
  OBVIOUS
<1>0. /\ Shifted \in Seq(Cell) /\ Len(Shifted) \in Nat /\ Len(Shifted) <= Len(buf)
      /\ PieceOf(Shifted, stream, arrived - Len(Shifted), KeysSeen)
  BY ShiftedPiece
<1>1. /\ CheckedInv' /\ Handed'
      /\ UNCHANGED <<delivered, KeysSeen, stream, opened>>
  <2>1. LineNext
    BY DEF LineNext
  <2>2. UNCHANGED <<delivered, stream, opened, places>>
    BY DEF LineCall, Read, ReadNothing, ReadCells
  <2> QED
    BY <2>1, <2>2, StepChecked, NothingHanded DEF PieceInv, KeysSeen
<1>2. CASE ReadNothing
  <2>1. buf' = Shifted /\ line' = line /\ arrived' = arrived
    BY <1>1, <1>2 DEF ReadNothing, arrived
  <2>2. opened <= arrived - Len(Shifted)
    BY <1>0, Places DEF PieceInv
  <2> QED
    BY <1>0, <1>1, <2>1, <2>2 DEF PieceInv
<1>3. CASE \E n \in 1 .. PackLen : ReadCells(n)
  <2>1. PICK n \in 1 .. PackLen : ReadCells(n)
    BY <1>3
  <2> DEFINE new == SubSeq(line, 1, n)
  <2>2. n \in Nat /\ n <= Len(line) /\ line \in Seq(Cell) /\ Len(line) \in Nat
    BY <2>1, Sizes, Places DEF ReadCells
  <2>3. new \in Seq(Cell) /\ Len(new) = n
    BY <2>2, PieceType
  <2>4. line' = Drop(line, n) /\ buf' = Shifted \o new
    BY <2>1 DEF ReadCells
  <2>5. Len(line') = Len(line) - n
    BY <2>2, <2>4, DropType
  <2>6. Len(buf') = Len(Shifted) + n
    BY <1>0, <2>3, <2>4, ConcatProperties
  <2>7. arrived' = arrived + n /\ Len(line') <= Len(stream)
    BY <1>1, <2>2, <2>5, Places DEF arrived, PieceInv
  <2>8. PieceOf(line', stream, arrived', {})
    BY <2>2, <2>4, <2>7, PieceDropped, Places DEF PieceInv
  <2>9. PieceOf(new, stream, arrived, KeysSeen)
    <3>1. PieceOf(new, stream, arrived, {})
      BY <2>2, PieceCut, Places DEF PieceInv
    <3> QED
      BY <3>1, MoreKeys
  <2>10. arrived' - Len(buf') = arrived - Len(Shifted)
    BY <1>0, <2>2, <2>6, <2>7, Places
  <2>11. PieceOf(buf', stream, arrived' - Len(buf'), KeysSeen)
    <3>1. (arrived - Len(Shifted)) + Len(Shifted) = arrived
      BY <1>0, Places
    <3>2. arrived - Len(Shifted) \in Int
      BY <1>0, Places
    <3>3. PieceOf(Shifted \o new, stream, arrived - Len(Shifted), KeysSeen)
      BY <1>0, <2>3, <2>9, <3>1, <3>2, PiecesJoined
    <3> QED
      BY <2>4, <2>10, <3>3
  <2>12. opened <= arrived' - Len(buf')
    BY <1>0, <2>10, Places DEF PieceInv
  <2> QED
    BY <1>1, <2>7, <2>8, <2>11, <2>12 DEF PieceInv
<1> QED
  BY <1>2, <1>3 DEF Read

(* Handing a packet out adds its hkey to those seen.                        *)
LEMMA KeysGrow ==
  ASSUME TypeOK, NEW b \in 0 .. Len(buf), Len(buf) - b >= PackLen, Deliver(b)
  PROVE  KeysSeen \subseteq KeysSeen'
<1>1. Candidate(b) \in Seq(Cell) /\ delivered \in Seq(Seq(Cell))
  BY CandidateType DEF TypeOK
<1>2. Len(delivered) \in Nat /\ DOMAIN delivered = 1 .. Len(delivered)
  BY <1>1, LenProperties
<1>3. /\ Len(delivered') = Len(delivered) + 1
      /\ delivered' \in Seq(Seq(Cell))
      /\ \A i \in 1 .. Len(delivered) : delivered'[i] = delivered[i]
  BY <1>1, AppendProperties DEF Deliver
<1>4. DOMAIN delivered' = 1 .. Len(delivered) + 1
  BY <1>3, LenProperties
<1>5. \A i \in DOMAIN delivered : i \in DOMAIN delivered' /\ delivered'[i] = delivered[i]
  BY <1>2, <1>3, <1>4
<1> QED
  BY <1>5 DEF KeysSeen

(* Its place is where its first cell stood.                                 *)
LEMMA PlaceNoted ==
  ASSUME PieceInv, LineCall, NEW b \in 0 .. Len(buf), Len(buf) - b >= PackLen,
         Deliver(b)
  PROVE  /\ places' = Append(places, ReadUpTo + b) /\ ReadUpTo + b \in Nat
         /\ places \in Seq(Nat) /\ delivered \in Seq(Seq(Cell))
         /\ Candidate(b) \in Seq(Cell)
         /\ Len(places) = Len(delivered) /\ Len(delivered) \in Nat
         /\ places' \in Seq(Nat)
         /\ Len(places') = Len(delivered) + 1 /\ Len(delivered') = Len(delivered) + 1
         /\ \A i \in 1 .. Len(delivered) :
              places'[i] = places[i] /\ delivered'[i] = delivered[i]
         /\ places'[Len(delivered) + 1] = ReadUpTo + b
         /\ delivered'[Len(delivered) + 1] = Candidate(b)
<1>1. /\ delivered \in Seq(Seq(Cell)) /\ Candidate(b) \in Seq(Cell)
      /\ places \in Seq(Nat) /\ Len(places) = Len(delivered)
  BY CandidateType DEF PieceInv, CheckedInv, BufferInv, TypeOK, Handed
<1>2. ReadUpTo + b \in Nat /\ ReadUpTo \in Int /\ b \in Int
  BY Places DEF ReadUpTo
<1>3. Len(delivered) \in Nat
  BY <1>1, LenProperties
<1>4. /\ Len(delivered') = Len(delivered) + 1
      /\ \A i \in 1 .. Len(delivered) : delivered'[i] = delivered[i]
      /\ delivered'[Len(delivered) + 1] = Candidate(b)
  BY <1>1, AppendProperties DEF Deliver
<1>5. places' = Append(places, ReadUpTo + b)
  <2>1. delivered' # delivered
    BY <1>3, <1>4
  <2>2. ReadUpTo + (b + PackLen) - PackLen = ReadUpTo + b
    BY <1>2, Sizes
  <2> QED
    BY <2>1, <2>2 DEF LineCall, Deliver
<1>6. /\ places' \in Seq(Nat) /\ Len(places') = Len(places) + 1
      /\ \A i \in 1 .. Len(places) : places'[i] = places[i]
      /\ places'[Len(places) + 1] = ReadUpTo + b
  BY <1>1, <1>2, <1>5, AppendProperties
<1> QED
  BY <1>1, <1>2, <1>3, <1>4, <1>5, <1>6

LEMMA HandsOut ==
  ASSUME PieceInv, LineCall, NEW b \in 0 .. Len(buf), Len(buf) - b >= PackLen,
         Deliver(b)
  PROVE  Handed'
<1> DEFINE n == Len(delivered)
<1>1. /\ n \in Nat /\ places' \in Seq(Nat)
      /\ Len(places') = n + 1 /\ Len(delivered') = n + 1
      /\ \A i \in 1 .. n : places'[i] = places[i] /\ delivered'[i] = delivered[i]
      /\ places'[n + 1] = ReadUpTo + b /\ delivered'[n + 1] = Candidate(b)
  BY PlaceNoted
<1>2. UNCHANGED stream /\ KeysSeen \subseteq KeysSeen'
  BY KeysGrow DEF LineCall, PieceInv, CheckedInv, BufferInv
<1>3. PieceOf(Candidate(b), stream, ReadUpTo + b, KeysSeen)
  <2>1. /\ buf \in Seq(Cell) /\ arrived - Len(buf) \in Int
        /\ b \in Nat /\ PackLen \in Nat /\ b + PackLen <= Len(buf)
        /\ PieceOf(buf, stream, arrived - Len(buf), KeysSeen)
    BY Places, Sizes DEF PieceInv
  <2> QED
    BY <2>1, PieceWithin DEF Candidate, ReadUpTo
<1>4. ASSUME NEW i \in 1 .. n + 1
      PROVE  PieceOf(delivered'[i], stream', places'[i], KeysSeen')
  <2>1. CASE i = n + 1
    BY <1>1, <1>2, <1>3, <2>1, MoreKeys
  <2>2. CASE i # n + 1
    <3>1. i \in 1 .. n
      BY <1>1, <2>2
    <3> QED
      BY <1>1, <1>2, <3>1, MoreKeys DEF PieceInv, Handed
  <2> QED
    BY <2>1, <2>2
<1> QED
  BY <1>1, <1>4 DEF Handed

(* Steps of flow_check that leave the length of the buffer alone.           *)
LEMMA SameLength ==
  ASSUME PieceInv, CheckedInv', Handed', UNCHANGED <<line, stream, opened>>,
         KeysSeen \subseteq KeysSeen',
         \/ UNCHANGED buf
         \/ \E j \in 1 .. Len(buf) : buf' = [buf EXCEPT ![j] = prev_hkey]
  PROVE  PieceInv'
<1>1. Len(buf') = Len(buf) /\ PieceOf(buf', stream, arrived - Len(buf), KeysSeen)
  <2>1. CASE UNCHANGED buf
    BY <2>1 DEF PieceInv
  <2>2. CASE \E j \in 1 .. Len(buf) : buf' = [buf EXCEPT ![j] = prev_hkey]
    <3>1. PICK j \in 1 .. Len(buf) : buf' = [buf EXCEPT ![j] = prev_hkey]
      BY <2>2
    <3>2. /\ buf \in Seq(Cell) /\ prev_hkey \in Cell /\ prev_hkey \in KeysSeen
          /\ arrived - Len(buf) \in Int
      BY Places
    <3>3. PieceOf([buf EXCEPT ![j] = prev_hkey], stream, arrived - Len(buf), KeysSeen)
      BY <3>2, KeyWritten DEF PieceInv
    <3>4. Len([buf EXCEPT ![j] = prev_hkey]) = Len(buf)
      BY <3>2, ReplaceType
    <3> QED
      BY <3>1, <3>3, <3>4
  <2> QED
    BY <2>1, <2>2
<1>2. arrived' = arrived
  BY DEF arrived
<1>3. PieceOf(buf', stream, arrived - Len(buf), KeysSeen')
  BY <1>1, MoreKeys
<1> QED
  BY <1>1, <1>2, <1>3 DEF PieceInv

LEMMA ScanPiece == PieceInv /\ LineCall /\ Scan => PieceInv'
<1> SUFFICES ASSUME PieceInv, LineCall, Scan PROVE PieceInv'
  OBVIOUS
<1>0. /\ CheckedInv' /\ TypeOK /\ UNCHANGED <<stream, opened>>
      /\ UNCHANGED delivered => Handed'
  <2>1. LineNext
    BY DEF LineNext
  <2>2. UNCHANGED <<stream, opened>> /\ (UNCHANGED delivered => UNCHANGED places)
    BY DEF LineCall
  <2>3. UNCHANGED delivered => Handed'
    BY <2>2, NothingHanded DEF PieceInv
  <2> QED
    BY <2>1, <2>2, <2>3, StepChecked DEF PieceInv, CheckedInv, BufferInv
<1>1. CASE ScanExhausted \/ ScanNoMagic \/ \E b \in 0 .. Len(buf) : ScanIncomplete(b)
  <2>1. UNCHANGED <<line, buf, delivered>>
    BY <1>1 DEF ScanExhausted, ScanNoMagic, ScanIncomplete
  <2>2. KeysSeen' = KeysSeen
    BY <2>1 DEF KeysSeen
  <2> QED
    BY <1>0, <2>1, <2>2, SameLength
<1>2. ASSUME NEW b \in 0 .. Len(buf), ScanGood(b) PROVE PieceInv'
  <2>1. UNCHANGED <<line, buf>> /\ Len(buf) - b >= PackLen /\ Deliver(b)
    BY <1>2 DEF ScanGood, Deliver
  <2>2. KeysSeen \subseteq KeysSeen' /\ Handed'
    BY <1>0, <2>1, KeysGrow, HandsOut
  <2> QED
    BY <1>0, <2>1, <2>2, SameLength
<1>3. ASSUME NEW b \in 0 .. Len(buf), ScanGoodWithPrevHkey(b) PROVE PieceInv'
  <2>1. /\ UNCHANGED line /\ Len(buf) - b >= PackLen /\ Deliver(b)
        /\ buf' = [buf EXCEPT ![b + HkeyAt] = prev_hkey]
    BY <1>3 DEF ScanGoodWithPrevHkey, Deliver
  <2>2. KeysSeen \subseteq KeysSeen' /\ Handed'
    BY <1>0, <2>1, KeysGrow, HandsOut
  <2>3. b + HkeyAt \in 1 .. Len(buf)
    BY <1>0, <2>1, CandidateType DEF TypeOK
  <2> QED
    BY <1>0, <2>1, <2>2, <2>3, SameLength
<1>4. ASSUME NEW b \in 0 .. Len(buf), ScanBad(b) PROVE PieceInv'
  <2>1. /\ UNCHANGED <<line, delivered>> /\ Len(buf) - b >= PackLen
        /\ buf' = [buf EXCEPT ![b + HkeyAt] = prev_hkey]
    BY <1>4 DEF ScanBad
  <2>2. KeysSeen' = KeysSeen
    BY <2>1 DEF KeysSeen
  <2>3. b + HkeyAt \in 1 .. Len(buf)
    BY <1>0, <2>1, CandidateType DEF TypeOK
  <2> QED
    BY <1>0, <2>1, <2>2, <2>3, SameLength
<1>5. CASE Compact
  <2>1. UNCHANGED <<line, delivered>> /\ read_ptr \in Nat
    BY <1>0, <1>5 DEF Compact, TypeOK
  <2>2. KeysSeen' = KeysSeen /\ arrived' = arrived
    BY <1>0, <2>1 DEF KeysSeen, arrived
  <2>3. CASE read_ptr < Len(buf)
    <3>1. buf' = Drop(buf, read_ptr) /\ read_ptr <= Len(buf)
      BY <1>5, <2>1, <2>3, Places DEF Compact
    <3>2. Len(buf') = Len(buf) - read_ptr
      BY <2>1, <3>1, DropType, Places
    <3>3. PieceOf(buf', stream, (arrived - Len(buf)) + read_ptr, KeysSeen)
      <4>1. arrived - Len(buf) \in Int /\ buf \in Seq(Cell)
        BY Places
      <4> QED
        BY <2>1, <3>1, <4>1, PieceDropped DEF PieceInv
    <3>4. (arrived - Len(buf)) + read_ptr = arrived - Len(buf')
      BY <2>1, <3>2, Places
    <3>5. opened <= arrived - Len(buf')
      BY <2>1, <3>4, Places DEF PieceInv
    <3> QED
      BY <1>0, <2>1, <2>2, <3>3, <3>4, <3>5 DEF PieceInv
  <2>4. CASE ~ (read_ptr < Len(buf))
    <3>1. UNCHANGED buf
      BY <1>5, <2>4 DEF Compact
    <3> QED
      BY <1>0, <2>1, <2>2, <3>1, SameLength
  <2> QED
    BY <2>3, <2>4
<1> QED
  BY <1>1, <1>2, <1>3, <1>4, <1>5 DEF Scan

LEMMA RestartPiece ==
  ASSUME PieceInv, NEW lost \in 0 .. Len(line), NEW outcome \in {"open", "dead"},
         LineRestart(lost, outcome)
  PROVE  PieceInv'
<1>1. CheckedInv'
  BY StepChecked DEF LineNext, PieceInv
<1>2. /\ line' = Drop(line, lost) /\ buf' = <<>>
      /\ UNCHANGED <<stream, delivered, places>> /\ opened' = arrived + lost
  BY DEF LineRestart, Restart
<1>9. Handed'
  BY <1>2, NothingHanded DEF PieceInv
<1>3. lost \in Nat /\ lost <= Len(line) /\ line \in Seq(Cell) /\ arrived \in Nat
  BY Places
<1>4. Len(line') = Len(line) - lost /\ Len(buf') = 0
  BY <1>2, <1>3, DropType, EmptySeq
<1>5. arrived' = arrived + lost /\ Len(line') <= Len(stream)
  BY <1>2, <1>3, <1>4, Places DEF arrived, PieceInv
<1>6. PieceOf(line', stream, arrived', {})
  BY <1>2, <1>3, <1>5, PieceDropped DEF PieceInv
<1>7. PieceOf(buf', stream', arrived' - Len(buf'), KeysSeen')
  BY <1>4 DEF PieceOf
<1>8. opened' \in Nat /\ opened' <= arrived' - Len(buf')
  BY <1>2, <1>3, <1>4, <1>5
<1> QED
  BY <1>1, <1>2, <1>5, <1>6, <1>7, <1>8, <1>9 DEF PieceInv

LEMMA StepPiece == PieceInv /\ [LineNext]_lineVars => PieceInv'
<1> SUFFICES ASSUME PieceInv, [LineNext]_lineVars PROVE PieceInv'
  OBVIOUS
<1>1. CASE LineCall
  BY <1>1, ReadPiece, ScanPiece DEF LineCall, Call
<1>2. CASE PortDies /\ UNCHANGED <<stream, opened, places>>
  <2>1. CheckedInv' /\ Handed'
    BY <1>2, StepChecked, NothingHanded DEF PieceInv, PortDies
  <2>2. UNCHANGED <<line, buf, delivered>>
    BY <1>2 DEF PortDies
  <2> QED
    BY <1>2, <2>1, <2>2 DEF PieceInv, KeysSeen, arrived
<1>3. CASE \E lost \in 0 .. Len(line), outcome \in {"open", "dead"} :
             LineRestart(lost, outcome)
  BY <1>3, RestartPiece
<1>4. CASE UNCHANGED lineVars
  <2>1. CheckedInv' /\ Handed'
    BY <1>4, StepChecked, NothingHanded DEF PieceInv, lineVars, vars
  <2> QED
    BY <1>4, <2>1 DEF lineVars, vars, PieceInv, KeysSeen, arrived
<1> QED
  BY <1>1, <1>2, <1>3, <1>4 DEF LineNext

LEMMA InitPiece == LineInit => PieceInv
<1> SUFFICES ASSUME LineInit PROVE PieceInv
  OBVIOUS
<1>1. /\ CheckedInv /\ stream = line /\ line \in Seq(Cell) /\ opened = 0
      /\ buf = <<>> /\ Len(buf) = 0
  BY InitChecked DEF LineInit, Init, CheckedInv, BufferInv, TypeOK
<1>2. Len(line) \in Nat /\ arrived = 0
  BY <1>1, LenProperties DEF arrived
<1>3. PieceOf(line, stream, arrived, {})
  BY <1>1, <1>2 DEF PieceOf
<1>4. PieceOf(buf, stream, arrived - Len(buf), KeysSeen)
  BY <1>1 DEF PieceOf
<1>5. Handed
  <2>1. places = <<>> /\ delivered = <<>>
    BY DEF LineInit, Init
  <2> QED
    BY <2>1, EmptySeq DEF Handed
<1> QED
  BY <1>1, <1>2, <1>3, <1>4, <1>5 DEF PieceInv

(* OnePiece for any stream, any slicing and restarts at any moment: the     *)
(* shift, the memmove and the restart of flow.c (155, 215, 227) never       *)
(* leave cells beside each other that did not arrive that way, and so every *)
(* packet handed out is a piece of the stream.                              *)
THEOREM BufferIsOnePiece == LineSpec => []OnePiece
<1>1. PieceInv => OnePiece
  <2> SUFFICES ASSUME PieceInv PROVE OnePiece
    OBVIOUS
  <2>1. opened <= ReadUpTo /\ AsRead(buf, ReadUpTo)
    <3>1. DOMAIN buf = 1 .. Len(buf)
      BY Places, LenProperties
    <3> QED
      BY <3>1 DEF PieceInv, PieceOf, AsRead, ReadUpTo
  <2>2. ASSUME NEW i \in DOMAIN delivered PROVE AsRead(delivered[i], places[i])
    <3>1. delivered \in Seq(Seq(Cell))
      BY DEF PieceInv, CheckedInv, BufferInv, TypeOK
    <3>2. i \in 1 .. Len(delivered) /\ delivered[i] \in Seq(Cell)
      BY <3>1, LenProperties, ElementOfSeq
    <3>3. DOMAIN delivered[i] = 1 .. Len(delivered[i])
      BY <3>2, LenProperties
    <3> QED
      BY <3>2, <3>3 DEF PieceInv, Handed, PieceOf, AsRead
  <2> QED
    BY <2>1, <2>2 DEF OnePiece
<1> QED
  BY <1>1, InitPiece, StepPiece, PTL DEF LineSpec

=============================================================================
