----------------------------- MODULE Settings ------------------------------
(***************************************************************************)
(* What administration promises to the rest of the system: a setting that  *)
(* is stored, and the effective copy of it that chat requests are served   *)
(* from, which is at every moment some value the store held when it was    *)
(* last copied.  How createRuntimeBundle and the admin routes carry this   *)
(* out is the subject of AdminControl.                                     *)
(***************************************************************************)

CONSTANTS Values

VARIABLES stored, effective

vars == <<stored, effective>>

Init == stored \in Values /\ effective = stored

\* An administrator changes the stored setting.
Store ==
    /\ stored' \in Values
    /\ UNCHANGED effective

\* The effective copy is renewed; it is never anything but a full, current copy.
Apply ==
    /\ effective' = stored
    /\ UNCHANGED stored

Next == Store \/ Apply

Spec == Init /\ [][Next]_vars
=============================================================================
