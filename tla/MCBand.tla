------------------------------- MODULE MCBand -------------------------------
(***************************************************************************)
(* Frequencies at both ends of every band, as the code and as the list has *)
(* them, and one to either side of them, and the ends of the range of      *)
(* uint32_t and of int.                                                    *)
(***************************************************************************)
EXTENDS Band

FromNat(n) == [hi |-> n \div 65536, lo |-> n % 65536]

Ends ==
  {Limit[n] : n \in Comparisons} \cup {Lower(b) : b \in Ham} \cup {Upper(b) : b \in Ham}

MCFreqs ==
  {FromNat(end + d) : end \in Ends, d \in {-1, 0, 1}}
    \cup {[hi |-> h, lo |-> l] : h \in {0, 32767, 32768, 65535}, l \in {0, 65535}}

=============================================================================
