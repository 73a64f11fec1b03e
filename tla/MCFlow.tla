------------------------------- MODULE MCFlow -------------------------------
(***************************************************************************)
(* Small streams for FlowLine: K or KLate packets of 6 cells, payload one  *)
(* cell that tells the packets apart, two hkeys, and an ideal checksum (two*)
(* different contents never have the same one).  The magic word overlaps   *)
(* with itself in one cell as 0xAA5555AA does in one byte.                 *)
(***************************************************************************)
EXTENDS FlowLine, FiniteSets, SequencesExt

CONSTANTS K, KLate, MaxCut

MCCrc(s) == <<"crc", s>>

Noise == <<9>>
MCMagic == << <<1>>, <<2>>, <<1>> >>
MCNoKey == <<20>>
Keys == {<<20>>, <<21>>}
Payload(i) == <<10 + i>>

(* Packet i with the hkey sent and the hkey the checksum was taken with. *)
Packet(i, sent, summed) ==
  LET head == MCMagic \o <<Payload(i)>>
  IN  head \o <<sent, MCCrc(head \o <<summed>>)>>

KeySeqs == [1 .. K -> Keys]

Concat(packets) == FlattenSeq(packets)

(* Checksum and hkey agree. *)
SteadyStreams ==
  {Concat([i \in 1 .. K |-> Packet(i, key[i], key[i])]) : key \in KeySeqs}

(* hkey may have changed after the checksum was taken. *)
RacingStreams ==
  {Concat([i \in 1 .. K |->
      Packet(i, key[i],
             IF i \notin race THEN key[i]
             ELSE IF i = 1 THEN MCNoKey ELSE key[i - 1])]) :
     key \in KeySeqs, race \in SUBSET (1 .. K)}

(* Up to MaxCut cells missing from some place on. *)
Cut(s, p, n) == SubSeq(s, 1, p - 1) \o SubSeq(s, p + n, Len(s))

CutIn(S) ==
  {Cut(s, p, n) : s \in S, p \in 1 .. (K - 1) * 6, n \in 0 .. MaxCut}

(* One cell replaced by noise or by a cell of the magic word. *)
GarbledIn(S, where) ==
  {ReplaceAt(s, p, c) : s \in S, p \in where, c \in {Noise, <<1>>}}

HkeyPlaces == {6 * i + 5 : i \in 0 .. K - 1}

(* Damage that spares the one word the checksum does not protect. *)
DamagedSteady ==
  CutIn(SteadyStreams)
    \cup GarbledIn(SteadyStreams, (1 .. K * 6) \ HkeyPlaces)

(* The packet's hkey and the one its checksum was taken with: it fits the   *)
(* hkey sent, the one at the start, the other one, or none.                 *)
Kinds ==
  { <<key, MCNoKey>> : key \in Keys } \cup { <<MCNoKey, sum>> : sum \in {<<21>>, Noise} }

(* Any mixture of K packets; and of KLate packets when the first comes out  *)
(* after the second, which fills the buffer up to the point where           *)
(* x6200_flow_read has to make room.                                        *)
MixedStreams ==
  {Concat([i \in DOMAIN kinds |-> Packet(i, kinds[i][1], kinds[i][2])]) :
     kinds \in [1 .. K -> Kinds]
             \cup {c \in [1 .. KLate -> Kinds] :
                     c[1] = << <<20>>, <<21>> >> /\ c[2] = << <<21>>, <<20>> >>}}

AnyStreams == DamagedSteady \cup MixedStreams

MCCell ==
  {<<1>>, <<2>>, Noise} \cup Keys \cup {Payload(i) : i \in 1 .. KLate}
    \cup {Packet(i, k, k)[6] : i \in 1 .. KLate, k \in Keys \cup {Noise}}

ASSUME \A s \in RacingStreams : WellFormed(s)

=============================================================================
