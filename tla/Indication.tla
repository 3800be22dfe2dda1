------------------------------ MODULE Indication ------------------------------
(***************************************************************************)
(* What a wait with indication promises its caller, with the clock left   *)
(* out: input is blocked while the wait runs until either the indication  *)
(* is shown or the wait returns; the indication is shown at most once and *)
(* only while the wait runs; the wait returns only once the awaited work  *)
(* has ended, hiding a shown indication (when it has a hide callback) as  *)
(* it returns.  A wait cancelled while it keeps a shown indication up     *)
(* returns without hiding it.                                             *)
(***************************************************************************)
CONSTANT HasHide

VARIABLES
    work,      \* "running" or "ended"
    blocked,   \* input is blocked
    dialog,    \* the indication: "none" yet, "up", or "down" (hidden)
    state      \* the wait: "waiting" or "returned"

vars == <<work, blocked, dialog, state>>

Init ==
    /\ work = "running" /\ blocked = TRUE
    /\ dialog = "none" /\ state = "waiting"

End ==
    /\ work = "running"
    /\ work' = "ended"
    /\ UNCHANGED <<blocked, dialog, state>>

Show ==
    /\ state = "waiting" /\ dialog = "none"
    /\ dialog' = "up" /\ blocked' = FALSE
    /\ UNCHANGED <<work, state>>

ReturnQuiet ==
    /\ state = "waiting" /\ work = "ended" /\ dialog = "none"
    /\ blocked' = FALSE /\ state' = "returned"
    /\ UNCHANGED <<work, dialog>>

ReturnHidden ==
    /\ state = "waiting" /\ work = "ended" /\ dialog = "up"
    /\ dialog' = IF HasHide THEN "down" ELSE "up"
    /\ state' = "returned"
    /\ UNCHANGED <<work, blocked>>

Abort ==
    /\ state = "waiting" /\ work = "ended" /\ dialog = "up"
    /\ state' = "returned"
    /\ UNCHANGED <<work, blocked, dialog>>

Next == End \/ Show \/ ReturnQuiet \/ ReturnHidden \/ Abort

Spec == Init /\ [][Next]_vars

=============================================================================
