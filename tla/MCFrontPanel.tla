---------------------------- MODULE MCFrontPanel ----------------------------
(***************************************************************************)
(* Arguments for FrontPanel: no bit, all bits, and the outermost bits of a *)
(* setting.                                                                *)
(***************************************************************************)
EXTENDS FrontPanel

ArgBits(f) == IF f.take < f.width THEN f.take ELSE f.width

MCArg(f) == {{}, 0 .. ArgBits(f) - 1, {0, ArgBits(f) - 1}}

AllFields == PlainFields \cup Squelches

NoField == {}

(* 300 - 3000, -4500 - 4500, 100 - 200 *)
MCPassbands ==
  { [low |-> Bits(300), high |-> Bits(3000)],
    [low |-> Bits(65536 - 4500), high |-> Bits(4500)],
    [low |-> Bits(100), high |-> Bits(200)] }

=============================================================================
