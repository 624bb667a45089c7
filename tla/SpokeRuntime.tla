---------------------------- MODULE SpokeRuntime ----------------------------
(***************************************************************************)
(* What the cluster manager promises the engine about ONE spoke: at most   *)
(* one runtime at a time; the ready hooks run once per start, one start at *)
(* a time; the gone hooks run when the runtime has stopped and its ready   *)
(* hooks have returned, and stand until the next start.                    *)
(*                                                                         *)
(* ClusterManager is shown to implement this (ImplementsSpokeRuntime), up  *)
(* to the moment a drop meets a registration that is under way (raced);    *)
(* Drift composes it with the drift detector.                              *)
(***************************************************************************)

VARIABLES
    up,       \* a runtime works on the spoke
    hooks,    \* its OnClusterReady hooks are running
    told,     \* what the hooks have last been told
    raced     \* the promise is off

promise == <<up, hooks, told>>

Init ==
    /\ up = FALSE
    /\ hooks = FALSE
    /\ told = "nothing"
    /\ raced = FALSE

StartUp ==
    /\ ~up /\ ~hooks
    /\ up' = TRUE
    /\ hooks' = TRUE
    /\ told' = "ready"

HooksReturn ==
    /\ hooks
    /\ hooks' = FALSE
    /\ UNCHANGED <<up, told>>

\* It was cancelled, or failed: then it may start up again without a word.
Stop ==
    /\ up
    /\ up' = FALSE
    /\ UNCHANGED <<hooks, told>>

Gone ==
    /\ ~up /\ ~hooks
    /\ told' = "gone"
    /\ UNCHANGED <<up, hooks>>

Next == StartUp \/ HooksReturn \/ Stop \/ Gone

Spec == Init /\ [][Next \/ raced']_promise

=============================================================================
