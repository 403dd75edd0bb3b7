------------------------------- MODULE Registry -------------------------------
(***************************************************************************)
(* What button_create and button_destroy promise the tasks that call them  *)
(* for one GPIO: each call takes effect at one moment between its start    *)
(* and its end.  A creation owns the GPIO from the moment it is accepted   *)
(* to the moment its button is there or it has failed, a destruction from  *)
(* the moment the button is gone; a call that does nothing found, at some  *)
(* moment, that it could not.  Nothing here knows of mutexes, claims,      *)
(* slots or toggles.  ButtonLifecycle implements this specification.       *)
(***************************************************************************)
CONSTANTS Tasks,     \* the callers
          Failures   \* may a creation fail that nothing else stands against?

VARIABLES calls,     \* what each task has called, and whether it owns the GPIO
          registered \* is there a button that works?

vars == <<calls, registered>>

Owning == {"creating", "destroying"}
Free == ~registered /\ \A t \in Tasks : calls[t] \notin Owning

Goes(t, from, to) == calls[t] = from /\ calls' = [calls EXCEPT ![t] = to]

Init == calls = [t \in Tasks |-> "idle"] /\ registered = FALSE

Call(t) == /\ Goes(t, "idle", "create") \/ Goes(t, "idle", "destroy")
           /\ UNCHANGED registered

\* A creation is refused because the GPIO is another's, or fails for itself.
Refused(t) == (~Free \/ Failures) /\ Goes(t, "create", "idle") /\ UNCHANGED registered
Accepted(t) == Free /\ Goes(t, "create", "creating") /\ UNCHANGED registered
Failed(t) == Failures /\ Goes(t, "creating", "idle") /\ UNCHANGED registered
Created(t) == Goes(t, "creating", "idle") /\ registered' = TRUE

\* A destruction does nothing only when there is nothing to destroy.
Nothing(t) == ~registered /\ Goes(t, "destroy", "idle") /\ UNCHANGED registered
Removed(t) == registered /\ Goes(t, "destroy", "destroying") /\ registered' = FALSE
Destroyed(t) == Goes(t, "destroying", "idle") /\ UNCHANGED registered

Next == \E t \in Tasks : \/ Call(t) \/ Refused(t) \/ Accepted(t) \/ Failed(t)
                         \/ Created(t) \/ Nothing(t) \/ Removed(t) \/ Destroyed(t)

SafeSpec == Init /\ [][Next]_vars
=============================================================================
