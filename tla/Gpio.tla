-------------------------------- MODULE Gpio --------------------------------
(***************************************************************************)
(* src/src/low/gpio.c: five GPIO lines on two chips, opened in a fixed     *)
(* order and never released.  x6200_gpio_init returns false at the first   *)
(* step that fails and leaves what came before it as it is;                *)
(* x6200_gpio_set uses the line's pointer without looking at it.           *)
(***************************************************************************)
EXTENDS Naturals

(* What x6200_gpio_init opens, by the order in which it does. *)
Chips == 1 .. 2
Lines == 3 .. 7

morse_key == 3
bb_reset == 4
usb == 5
light == 6
wifi == 7

Parts == Chips \cup Lines

VARIABLES
  handle,  \* the static pointers: "null", "found" for a line that is not
           \* requested, "held" for a chip or line that can be used
  level    \* output of each line

gpioVars == <<handle, level>>

GpioTypeOK ==
  /\ handle \in [Parts -> {"null", "found", "held"}]
  /\ level \in [Lines -> {0, 1}]

GpioInit ==
  /\ handle = [p \in Parts |-> "null"]
  /\ level \in [Lines -> {0, 1}]

FirstLevel(line) == IF line = morse_key THEN 1 ELSE 0

(* Slip (see Mutants in README.md): the result of the last step but one is  *)
(* not looked at.                                                           *)
gpio_init_unchecked(returns) ==
  \E bad \in Parts \cup {8}, how \in {"null", "found"} :
    /\ how = "found" => bad \in Lines
    /\ returns = (bad \in {light, 8})
    /\ handle' = [p \in Parts |->
                    IF p = bad THEN how
                    ELSE IF p < bad \/ returns THEN "held" ELSE handle[p]]
    /\ level' = [l \in Lines |-> IF l < bad THEN FirstLevel(l) ELSE level[l]]

(* The first bad step ends it; 8 is none.  gpiod_chip_get_line may fail or  *)
(* gpiod_line_request_output.                                               *)
x6200_gpio_init(returns) ==
  \E bad \in Parts \cup {8}, how \in {"null", "found"} :
    /\ how = "found" => bad \in Lines
    /\ returns = (bad = 8)
    /\ handle' = [p \in Parts |->
                    IF p = bad THEN how ELSE IF p < bad THEN "held" ELSE handle[p]]
    /\ level' = [l \in Lines |-> IF l < bad THEN FirstLevel(l) ELSE level[l]]

(* Slip: the line's number is written in place of the value. *)
gpio_set_swapped(line, value) ==
  /\ level' = [level EXCEPT ![line] = IF handle[line] = "held" THEN line ELSE @]
  /\ UNCHANGED handle

(* On a line that is found and not held it fails, without a sign. *)
x6200_gpio_set(line, value) ==
  /\ level' = [level EXCEPT ![line] = IF handle[line] = "held" THEN value ELSE @]
  /\ UNCHANGED handle

=============================================================================
