------------------------------ MODULE Gesture ------------------------------
(***************************************************************************)
(* What a registered button promises to its client: presses and releases   *)
(* of a debounced contact are grouped into gestures, and every gesture     *)
(* with a press in it is reported once.  Nothing here knows of timers,     *)
(* timer modes or a command queue: the report of a gesture is constrained  *)
(* only by how many presses it has and by how long the contact has kept    *)
(* its level.  Button implements this specification.                       *)
(***************************************************************************)
EXTENDS Naturals

CONSTANTS Policies,    \* records [long, repeat, max], the times in timer ticks
          MaxElapsed   \* elapsed time is not counted beyond this bound

VARIABLES policy,      \* the button's policy, fixed when it is created
          down,        \* is the contact pressed?
          presses,     \* presses that no report covers yet
          elapsed,     \* ticks since the contact last changed
          last         \* the last event reported

vars == <<policy, down, presses, elapsed, last>>

\* The event that reports a gesture of n presses.
Kind(n) == CASE n = 1 -> "single_press"
             [] n = 2 -> "double_press"
             [] OTHER -> "tripple_press"

\* May one more press still join a gesture of n presses?
MayGrow(n) == policy.repeat > 0 /\ n < policy.max

Init == /\ policy \in Policies
        /\ down \in BOOLEAN
        /\ presses = 0
        /\ elapsed = 0
        /\ last = "none"

Press == /\ ~down
         /\ down' = TRUE
         /\ presses' = presses + 1
         /\ elapsed' = 0
         /\ UNCHANGED <<policy, last>>

Report(event) == presses' = 0 /\ last' = event

\* A release reports the gesture at once unless another press may join it; the
\* release that follows a reported long press reports nothing.
Release == /\ down
           /\ down' = FALSE
           /\ elapsed' = 0
           /\ UNCHANGED policy
           /\ IF presses = 0 \/ MayGrow(presses)
                THEN UNCHANGED <<presses, last>>
                ELSE Report(Kind(presses))

\* The first press has been held for the long-press time.
ReportLong == /\ down
              /\ presses = 1
              /\ policy.long > 0
              /\ elapsed >= policy.long
              /\ Report("long_press")
              /\ UNCHANGED <<policy, down, elapsed>>

\* No press followed within the repeat time.
ReportGap == /\ ~down
             /\ presses > 0
             /\ elapsed >= policy.repeat
             /\ Report(Kind(presses))
             /\ UNCHANGED <<policy, down, elapsed>>

Tick == /\ elapsed' = IF elapsed < MaxElapsed THEN elapsed + 1 ELSE elapsed
        /\ UNCHANGED <<policy, down, presses, last>>

Next == Press \/ Release \/ ReportLong \/ ReportGap \/ Tick

SafeSpec == Init /\ [][Next]_vars

\* The client may press or release or not; a due report is made eventually.
Spec == SafeSpec /\ WF_vars(ReportLong) /\ WF_vars(ReportGap)
=============================================================================
