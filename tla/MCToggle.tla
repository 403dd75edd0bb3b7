------------------------------ MODULE MCToggle ------------------------------
(* Toggle with one task (the calls for a GPIO are made one after another, as *)
(* the claim of button.c has it) or with two, on one core or on two.         *)
EXTENDS Toggle
=============================================================================
