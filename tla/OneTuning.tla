----------------------------- MODULE OneTuning ------------------------------
(***************************************************************************)
(* What src/examples/atu.c means to do to BASE: ask for the tuner, not     *)
(* again after the tuner has begun, and withdraw that only when it has     *)
(* finished by itself.                                                     *)
(***************************************************************************)

VARIABLES
  asked,  \* the bit x6200_atu_tune of BASE's register
  tuner   \* "off", then "tuning", then "over"

Init == asked \in BOOLEAN /\ tuner = "off"

(* A run before this one may have left the bit. *)
Forget == tuner = "off" /\ asked' = FALSE /\ UNCHANGED tuner

Ask == tuner = "off" /\ asked' = TRUE /\ UNCHANGED tuner

Begin == tuner = "off" /\ tuner' = "tuning" /\ UNCHANGED asked

End == tuner = "tuning" /\ tuner' = "over" /\ UNCHANGED asked

Withdraw == tuner = "over" /\ asked' = FALSE /\ UNCHANGED tuner

Next == Forget \/ Ask \/ Begin \/ End \/ Withdraw

Spec == Init /\ [][Next]_<<asked, tuner>>

=============================================================================
