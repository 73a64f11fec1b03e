------------------------------- MODULE Mirror -------------------------------
(***************************************************************************)
(* What the register link promises: BASE's registers follow the ones the   *)
(* application asked for.  A step never moves a register of BASE anywhere  *)
(* but to the value wanted at that moment, save when BASE itself restarts; *)
(* and however often something fails, the two are equal again.             *)
(***************************************************************************)
CONSTANTS Reg, Value, Zeros, Defaults, PowerOn

VARIABLES wanted, actual

vars == <<wanted, actual>>

Init == wanted = Zeros /\ actual \in [Reg -> Value]

(* Some registers of BASE take the wanted value. *)
Follow ==
  \E part \in SUBSET Reg :
    actual' = [r \in Reg |-> IF r \in part THEN wanted'[r] ELSE actual[r]]

(* Only the register asked for follows at once. *)
Ask(r, v) ==
  /\ wanted' = [wanted EXCEPT ![r] = v]
  /\ actual' \in {actual, [actual EXCEPT ![r] = v]}

Configure == wanted' = Defaults /\ Follow

Refresh == wanted' = wanted /\ Follow

Forget == wanted' = Zeros /\ UNCHANGED actual

BaseRestarts == actual' = PowerOn /\ UNCHANGED wanted

Next ==
  \/ \E r \in Reg, v \in Value : Ask(r, v)
  \/ Configure
  \/ Refresh
  \/ Forget
  \/ BaseRestarts

SafeSpec == Init /\ [][Next]_vars

Spec == SafeSpec /\ []<>(actual = wanted)

=============================================================================
