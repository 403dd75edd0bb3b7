------------------------------ MODULE MCButton ------------------------------
(* Button on every combination of the configurations that take a different   *)
(* path: no time, a time shorter than a tick, a time of two ticks that is    *)
(* rounded down; from no repetition to one press more than the events name.  *)
EXTENDS Button

AllConfigs == [active_level : {"low", "high"},
               long_press_time : {0, 5, 25},
               repeat_press_timeout : {0, 4, 20},
               max_repeat_presses : 0 .. 4]
=============================================================================
