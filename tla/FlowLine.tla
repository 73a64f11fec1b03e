------------------------------ MODULE FlowLine ------------------------------
(***************************************************************************)
(* The packet reader together with the serial line that feeds it, and what *)
(* the caller of x6200_flow_read may rely on.                              *)
(*                                                                         *)
(* stream is the whole of what the line carries; line is the part of it    *)
(* that the process has not read.  A well-formed stream is a concatenation *)
(* of packets.  A stream with cells missing or changed is what a reader    *)
(* sees that opened the port in the middle of a packet, polled too late,   *)
(* or was reached by noise.                                                *)
(***************************************************************************)
EXTENDS FlowReader

VARIABLES
  stream,  \* everything BASE has sent or will send
  opened,  \* place in stream from which the open port has been read
  places   \* history: where in stream each packet of delivered stood

lineVars == <<vars, stream, opened, places>>

arrived == Len(stream) - Len(line)

(* Where in the stream the oldest cell of buf stood.                        *)
ReadUpTo == arrived - Len(buf)

LineInit == Init /\ stream = line /\ opened = 0 /\ places = <<>>

LineCall ==
  /\ Call
  /\ places' = IF UNCHANGED delivered THEN places
               ELSE Append(places, ReadUpTo + read_ptr' - PackLen)
  /\ UNCHANGED <<stream, opened>>

LineRestart(lost, outcome) ==
  /\ Restart(lost, outcome)
  /\ opened' = arrived + lost
  /\ UNCHANGED <<stream, places>>

LineNext ==
  \/ LineCall
  \/ PortDies /\ UNCHANGED <<stream, opened, places>>
  \/ \E lost \in 0 .. Len(line), outcome \in {"open", "dead"} :
        LineRestart(lost, outcome)

LineSpec == LineInit /\ [][LineNext]_lineVars

(* The application polls for ever (src/examples/vfo.c), so a call is made   *)
(* whenever BASE's bytes are there to be read, and a call returns.          *)
LineCallSpec ==
  /\ LineInit /\ [][LineCall]_lineVars
  /\ WF_lineVars(LineCall /\ \E n \in 1 .. PackLen : ReadCells(n))
  /\ WF_lineVars(LineCall /\ Scan)

-----------------------------------------------------------------------------
(* Packets in the stream                                                    *)

Frame(s, p) == SubSeq(s, p + 1, p + PackLen)

HasMagic(f) == SubSeq(f, 1, MagicLen) = Magic

(* The checksum was taken with the hkey in the packet, or with key.         *)
Valid(f, key) == HasMagic(f) /\ (CrcOk(f) \/ CrcOk(WithHkey(f, key)))

(* hkey of the packet before the i-th one *)
KeyBefore(s, i) ==
  IF i = 1 THEN NoKey ELSE Frame(s, (i - 2) * PackLen)[HkeyAt]

(* Whole packets and nothing else.  BASE may change hkey after it has       *)
(* computed the checksum with the hkey of the packet before.                *)
WellFormed(s) ==
  \E k \in 0 .. Len(s) :
    /\ Len(s) = k * PackLen
    /\ \A i \in 1 .. k : Valid(Frame(s, (i - 1) * PackLen), KeyBefore(s, i))

(* Refinement: calls on a well-formed stream behave like a queue.           *)
Queue == INSTANCE FrameQueue

QueueSpec == Queue!FairSpec

-----------------------------------------------------------------------------
(* Properties on any stream                                                 *)

(* read() never writes past the end of buf (flow.c:233), and flow_check's   *)
(* read_ptr never passes buf_write: the loop condition (flow.c:175) is an   *)
(* unsigned comparison that would stay true if it did.                      *)
BufferSafe ==
  /\ Len(buf) <= BufSize
  /\ pc # "idle" => read_ptr <= Len(buf)
  /\ pc = "idle" => Len(Shifted) + PackLen <= BufSize

(* What prev_hkey has been. *)
KeysSeen == {NoKey} \cup {delivered[i][HkeyAt] : i \in DOMAIN delivered}

(* The cells of piece stood in the stream from place at on, but for the     *)
(* hkeys written into it (flow.c:196).                                      *)
AsRead(piece, at) ==
  \A i \in DOMAIN piece : piece[i] = stream[at + i] \/ piece[i] \in KeysSeen

(* The buffer is the piece of the stream that was read last, since the port *)
(* was opened: no shift (flow.c:227), memmove (flow.c:215) or restart       *)
(* (flow.c:155) splices cells that did not stand beside each other, and so, *)
(* whatever the checksum is, no packet is put together from two.            *)
OnePiece ==
  /\ opened <= ReadUpTo
  /\ AsRead(buf, ReadUpTo)
  /\ \A i \in DOMAIN delivered : AsRead(delivered[i], places[i])

(* Nothing reaches the caller unchecked: the checksum of each packet fits   *)
(* the hkey it came with or that of the packet handed out before it         *)
(* (flow.c:190-210), and a restart does not make the reader forget which    *)
(* one that was (flow.c:153-160 leave prev_hkey alone).                     *)
Checked ==
  \A i \in DOMAIN delivered :
    Valid(delivered[i], IF i = 1 THEN NoKey ELSE delivered[i - 1][HkeyAt])

-----------------------------------------------------------------------------
(* Properties on damaged streams                                            *)

Starts == 0 .. Len(stream) - PackLen

Good(f) == HasMagic(f) /\ CrcOk(f)

Intact(p) == Good(Frame(stream, p))

(* No magic word in the cells before place p that a packet ending after p   *)
(* could start from.                                                        *)
Clear(p) ==
  \A q \in opened .. p - 1 :
    q > p - PackLen => SubSeq(stream, q + 1, q + MagicLen) # Magic

(* Damage is local, and so is a restart in the middle of a packet: an       *)
(* intact packet is handed out by the time its first cell leaves the        *)
(* buffer, unless what looks like the start of another one overlaps it      *)
(* (flow.c:196 then writes prev_hkey into it, and does not undo it).        *)
LossIsLocal ==
  pc = "idle" =>
    \A p \in Starts :
      opened <= p /\ p < ReadUpTo /\ Intact(p) /\ Clear(p) =>
        \E i \in DOMAIN delivered :
          places[i] = p /\ delivered[i] = Frame(stream, p)

(* No packet is handed out a third time, however late the second one comes. *)
AtMostTwice ==
  \A i, j, k \in DOMAIN places :
    i < j /\ j < k => ~ (places[i] = places[j] /\ places[j] = places[k])

(* Packets come out in the order they went in, but for one case: with a     *)
(* wrong hkey a packet can be passed over and become valid again when the   *)
(* key of the packet after it is written over its own.  It comes out after  *)
(* that one packet, and never later.                                        *)
OneLate ==
  \A i, j \in DOMAIN places : i < j => places[i] - PackLen <= places[j]

(* The packet handed out last is the newest thing that was read.            *)
CaughtUp == places # <<>> /\ places[Len(places)] + PackLen = arrived

(* The caller never lags by more than two packets' worth of cells: if more  *)
(* are kept between calls, because the memmove leaves everything when its   *)
(* tail is empty (flow.c:215), they are old, and the shift in               *)
(* x6200_flow_read (flow.c:227) discards nothing that stood behind the      *)
(* packet handed out last.                                                  *)
BacklogBounded == pc = "idle" /\ Len(buf) > 2 * PackLen => CaughtUp

=============================================================================
