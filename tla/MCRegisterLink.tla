--------------------------- MODULE MCRegisterLink ---------------------------
(***************************************************************************)
(* Three registers with two values; the defaults and the registers of a    *)
(* restarted BASE differ from each other and from zero in one register.    *)
(***************************************************************************)
EXTENDS RegisterLink

MCDefaults == [r \in Reg |-> IF r = 1 THEN 1 ELSE 0]
MCPowerOn == [r \in Reg |-> IF r = NRegs THEN 1 ELSE 0]

Running == {"up", "reopen", "resend"}

=============================================================================
