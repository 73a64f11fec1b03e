----------------------------- MODULE FrameQueue -----------------------------
(***************************************************************************)
(* What x6200_flow_read promises its caller on a line that carries nothing *)
(* but whole packets: every packet exactly once, in the order BASE sent    *)
(* them, as they were sent.  A packet is handed over only after a cell of  *)
(* the next one has arrived, and then before any further read.             *)
(***************************************************************************)
EXTENDS Integers, Sequences

CONSTANTS PackLen, Streams

VARIABLES stream, arrived, delivered

vars == <<stream, arrived, delivered>>

FrameOf(s, i) == SubSeq(s, (i - 1) * PackLen + 1, i * PackLen)

Init ==
  /\ stream \in Streams
  /\ arrived = 0
  /\ delivered = <<>>

Due == arrived > PackLen * (Len(delivered) + 1)

Arrive(n) ==
  /\ ~ Due
  /\ arrived + n <= Len(stream)
  /\ arrived' = arrived + n
  /\ UNCHANGED <<stream, delivered>>

HandOver ==
  /\ Due
  /\ delivered' = Append(delivered, FrameOf(stream, Len(delivered) + 1))
  /\ UNCHANGED <<stream, arrived>>

Next == HandOver \/ \E n \in 1 .. PackLen : Arrive(n)

Spec == Init /\ [][Next]_vars

FairSpec ==
  /\ Spec
  /\ WF_vars(HandOver)
  /\ WF_vars(\E n \in 1 .. PackLen : Arrive(n))

=============================================================================
