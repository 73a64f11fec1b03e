----------------------------- MODULE FlowReader -----------------------------
(***************************************************************************)
(* The packet reader of src/src/low/flow.c: x6200_flow_read, its scanning  *)
(* loop flow_check, and x6200_flow_restart.                                *)
(*                                                                         *)
(* BASE streams fixed-size packets over /dev/ttyS1 with no delimiter but a *)
(* magic word at the start and a checksum at the end.  The reader collects *)
(* bytes in buf, looks for a packet, hands at most one to the caller per   *)
(* call and keeps the rest.                                                *)
(*                                                                         *)
(* Scale.  A packet is PackLen cells instead of 2088 bytes: the magic      *)
(* word, a payload (samples, flags, meters), one cell for hkey and one for *)
(* crc.  Offsets into buf are 0-based like the pointers they stand for.    *)
(* The pointer buf_write is Len(buf): bytes past it are never looked at.   *)
(*                                                                         *)
(* A call is a sequence of steps of one thread: the read() itself, one     *)
(* step per iteration of flow_check's loop, and the final memmove.         *)
(***************************************************************************)
EXTENDS Integers, Sequences

CONSTANTS
  Cell,      \* what one position of the stream can hold
  Magic,     \* the magic word: a sequence of cells
  PackLen,   \* sizeof(x6200_flow_t)
  HkeyAt,    \* position of hkey in a packet, counted from 1
  NoKey,     \* initial value of prev_hkey
  Crc(_),    \* calc_crc32 over all of a packet but its last cell
  Streams    \* the byte streams the serial line may carry

MagicLen == Len(Magic)

(* BUF_SIZE *)
BufSize == 3 * PackLen

ASSUME LayoutAssumption ==
  /\ Magic \in Seq(Cell) /\ MagicLen \in Nat /\ MagicLen >= 2
  /\ PackLen \in Nat /\ HkeyAt \in Nat
  /\ MagicLen < HkeyAt /\ HkeyAt < PackLen
  /\ NoKey \in Cell

ASSUME StreamsAssumption == Streams \subseteq Seq(Cell)

VARIABLES
  line,       \* cells sent by BASE that the process has not read yet
  port,       \* "open" when flow_fd can be read, "dead" when it cannot
  buf,        \* the cells from buf up to buf_write
  read_ptr,   \* flow_check's read_ptr - buf
  prev_hkey,
  pc,         \* "idle" between calls, "scan" and "compact" inside flow_check
  delivered   \* history: the packets handed to the caller, oldest first

vars == <<line, port, buf, read_ptr, prev_hkey, pc, delivered>>

TypeOK ==
  /\ line \in Seq(Cell)
  /\ port \in {"open", "dead"}
  /\ buf \in Seq(Cell)
  /\ read_ptr \in Nat
  /\ prev_hkey \in Cell
  /\ pc \in {"idle", "scan", "compact"}
  /\ delivered \in Seq(Seq(Cell))

(* State after x6200_flow_init: an empty buffer on an open port. *)
Init ==
  /\ line \in Streams
  /\ port = "open"
  /\ buf = <<>>
  /\ read_ptr = 0
  /\ prev_hkey = NoKey
  /\ pc = "idle"
  /\ delivered = <<>>

-----------------------------------------------------------------------------
(* x6200_flow_read, up to the call of flow_check                            *)

Drop(s, n) == SubSeq(s, n + 1, Len(s))

(* Slip (see Mutants in README.md): no room is made. *)
NeverShifted == buf

(* Slip: the newest cells give way. *)
ShiftedTheWrongWay ==
  LET space == BufSize - Len(buf)
  IN  IF space < PackLen THEN SubSeq(buf, 1, Len(buf) - (PackLen - space)) ELSE buf

(* The oldest cells give way when a whole packet would not fit any more. *)
Shifted ==
  LET space == BufSize - Len(buf)
  IN  IF space < PackLen THEN Drop(buf, PackLen - space) ELSE buf

(* read() returns 0 or an error: nothing is scanned, whatever buf holds. *)
ReadNothing ==
  /\ pc = "idle"
  /\ buf' = Shifted
  /\ UNCHANGED <<line, port, read_ptr, prev_hkey, pc, delivered>>

(* read() returns n cells; a buffer of one packet or less is not scanned. *)
ReadCells(n) ==
  /\ pc = "idle" /\ port = "open"
  /\ n <= Len(line)
  /\ buf' = Shifted \o SubSeq(line, 1, n)
  /\ line' = Drop(line, n)
  /\ IF Len(buf') > PackLen
     THEN pc' = "scan" /\ read_ptr' = 0
     ELSE UNCHANGED <<pc, read_ptr>>
  /\ UNCHANGED <<port, prev_hkey, delivered>>

-----------------------------------------------------------------------------
(* flow_check                                                               *)

MagicAt(i) == SubSeq(buf, i + 1, i + MagicLen) = Magic

(* Offsets at which memmem would find the magic word. *)
Hits == {i \in read_ptr .. (Len(buf) - MagicLen) : MagicAt(i)}

FirstHit(b) == b \in Hits /\ \A h \in Hits : b <= h

(* The loop runs while a whole packet's worth of cells is left. *)
Scanning == pc = "scan" /\ Len(buf) - read_ptr >= PackLen

Candidate(b) == SubSeq(buf, b + 1, b + PackLen)

WithHkey(p, k) == [p EXCEPT ![HkeyAt] = k]

CrcOk(p) == p[PackLen] = Crc(SubSeq(p, 1, PackLen - 1))

(* Slip: what was looked at stays in the buffer. *)
ScanExhaustedKeepingAll ==
  /\ pc = "scan" /\ Len(buf) - read_ptr < PackLen
  /\ read_ptr' = 0 /\ pc' = "compact"
  /\ UNCHANGED <<line, port, buf, prev_hkey, delivered>>

ScanExhausted ==
  /\ pc = "scan" /\ Len(buf) - read_ptr < PackLen
  /\ pc' = "compact"
  /\ UNCHANGED <<line, port, buf, read_ptr, prev_hkey, delivered>>

(* Slip: the start of a magic word at the end of the buffer is dropped. *)
ScanNoMagicDroppingAll ==
  /\ Scanning /\ Hits = {}
  /\ read_ptr' = Len(buf) - 1
  /\ pc' = "compact"
  /\ UNCHANGED <<line, port, buf, prev_hkey, delivered>>

(* No magic word: the last cells could be the start of one and are kept. *)
ScanNoMagic ==
  /\ Scanning /\ Hits = {}
  /\ read_ptr' = Len(buf) - MagicLen
  /\ pc' = "compact"
  /\ UNCHANGED <<line, port, buf, prev_hkey, delivered>>

ScanIncomplete(b) ==
  /\ Scanning /\ FirstHit(b)
  /\ Len(buf) - b < PackLen
  /\ read_ptr' = b
  /\ pc' = "compact"
  /\ UNCHANGED <<line, port, buf, prev_hkey, delivered>>

(* Slip: prev_hkey is not updated. *)
DeliverForgettingKey(b) ==
  /\ delivered' = Append(delivered, Candidate(b))
  /\ read_ptr' = b + PackLen
  /\ pc' = "compact"
  /\ UNCHANGED <<line, port, prev_hkey>>

(* The caller gets the packet with the hkey that was received.              *)
Deliver(b) ==
  /\ delivered' = Append(delivered, Candidate(b))
  /\ prev_hkey' = Candidate(b)[HkeyAt]
  /\ read_ptr' = b + PackLen
  /\ pc' = "compact"
  /\ UNCHANGED <<line, port>>

ScanGood(b) ==
  /\ Scanning /\ FirstHit(b)
  /\ Len(buf) - b >= PackLen
  /\ CrcOk(Candidate(b))
  /\ Deliver(b)
  /\ UNCHANGED buf

(* Slip: the result of the second check is not looked at. *)
ScanGoodUnchecked(b) ==
  /\ Scanning /\ FirstHit(b)
  /\ Len(buf) - b >= PackLen
  /\ ~ CrcOk(Candidate(b))
  /\ Deliver(b)
  /\ buf' = [buf EXCEPT ![b + HkeyAt] = prev_hkey]

(* The previous hkey is written into the buffer before the second check. *)
ScanGoodWithPrevHkey(b) ==
  /\ Scanning /\ FirstHit(b)
  /\ Len(buf) - b >= PackLen
  /\ ~ CrcOk(Candidate(b))
  /\ CrcOk(WithHkey(Candidate(b), prev_hkey))
  /\ Deliver(b)
  /\ buf' = [buf EXCEPT ![b + HkeyAt] = prev_hkey]

(* Slip: the search goes on one cell too early. *)
ScanBadOneBack(b) ==
  /\ Scanning /\ FirstHit(b)
  /\ Len(buf) - b >= PackLen
  /\ ~ CrcOk(Candidate(b))
  /\ ~ CrcOk(WithHkey(Candidate(b), prev_hkey))
  /\ read_ptr' = b - 1
  /\ UNCHANGED <<line, port, buf, prev_hkey, pc, delivered>>

(* A false start: the overwritten hkey cell stays in the buffer. *)
ScanBad(b) ==
  /\ Scanning /\ FirstHit(b)
  /\ Len(buf) - b >= PackLen
  /\ ~ CrcOk(Candidate(b))
  /\ ~ CrcOk(WithHkey(Candidate(b), prev_hkey))
  /\ buf' = [buf EXCEPT ![b + HkeyAt] = prev_hkey]
  /\ read_ptr' = b + MagicLen - 1
  /\ UNCHANGED <<line, port, prev_hkey, pc, delivered>>

(* Slip: no memmove. *)
CompactNothing ==
  /\ pc = "compact"
  /\ read_ptr' = 0 /\ pc' = "idle"
  /\ UNCHANGED <<line, port, buf, prev_hkey, delivered>>

(* The tail moves to the front; an empty tail leaves buf_write in place. *)
Compact ==
  /\ pc = "compact"
  /\ buf' = IF read_ptr < Len(buf) THEN Drop(buf, read_ptr) ELSE buf
  /\ read_ptr' = 0
  /\ pc' = "idle"
  /\ UNCHANGED <<line, port, prev_hkey, delivered>>

-----------------------------------------------------------------------------
(* x6200_flow_restart and the failures it is there for                      *)

(* The serial port dies: read() returns nothing until a restart. *)
PortDies ==
  /\ port = "open"
  /\ port' = "dead"
  /\ UNCHANGED <<line, buf, read_ptr, prev_hkey, pc, delivered>>

(* Slip: buf_write is not reset. *)
RestartKeepingBuffer(lost, outcome) ==
  /\ pc = "idle"
  /\ line' = Drop(line, lost)
  /\ port' = outcome
  /\ UNCHANGED <<buf, read_ptr, prev_hkey, pc, delivered>>

(* What BASE sent while the port was closed is lost; reopening may fail. *)
Restart(lost, outcome) ==
  /\ pc = "idle"
  /\ buf' = <<>>
  /\ line' = Drop(line, lost)
  /\ port' = outcome
  /\ UNCHANGED <<read_ptr, prev_hkey, pc, delivered>>

-----------------------------------------------------------------------------

Read == ReadNothing \/ \E n \in 1 .. PackLen : ReadCells(n)

Scan ==
  \/ ScanExhausted
  \/ ScanNoMagic
  \/ \E b \in 0 .. Len(buf) :
        \/ ScanIncomplete(b)
        \/ ScanGood(b)
        \/ ScanGoodWithPrevHkey(b)
        \/ ScanBad(b)
  \/ Compact

Call == Read \/ Scan

Next ==
  \/ Call
  \/ PortDies
  \/ \E lost \in 0 .. Len(line), outcome \in {"open", "dead"} :
        Restart(lost, outcome)

Spec == Init /\ [][Next]_vars

=============================================================================
