----------------------------- MODULE Supervisor -----------------------------
(***************************************************************************)
(* What the configuration engine promises to the back-ends: a supervisor   *)
(* that keeps services up in the order of their needs.  One change at a    *)
(* time is made, in two phases: first services only go down, each after    *)
(* those that need it; then the item is rewired while it is down; then     *)
(* services only come up, each after those it needs.  A change is over     *)
(* only when everything that can be up is.                                 *)
(***************************************************************************)

CONSTANT Key        \* the names a service can have

VARIABLES
    up,             \* the services that are up
    needs,          \* the pairs <<c, d>> where service c needs d
    wanted,         \* the services that should be up if all they need is
    phase           \* "idle", or the phase of the change under way

state == <<up, needs, wanted, phase>>

Init ==
    /\ up = {} /\ needs = {} /\ wanted = {}
    /\ phase = "idle"

\* The services that need one that is not up.
Lacking == {x[1] : x \in {y \in needs : y[2] \notin up}}

\* A service is up exactly when it is wanted and all it needs is up.
Balanced == up = wanted \ Lacking

Begin ==
    /\ phase = "idle" /\ phase' = "down"
    /\ UNCHANGED <<up, needs, wanted>>

\* A service that needs one that is going for good is no longer wanted.
GiveUp ==
    /\ phase = "down"
    /\ wanted' \subseteq wanted
    /\ UNCHANGED <<up, needs, phase>>

Stop(k) ==
    /\ phase = "down"
    /\ k \in up
    /\ up' = up \ {k}
    /\ \A x \in needs : x[2] = k => x[1] \notin up
    /\ UNCHANGED <<needs, wanted, phase>>

\* The needs of others for others.
Others(old, new) == {x \in needs : {x[1], x[2]} \cap {old, new} = {}}

\* Service old becomes new, both names being down: nothing else changes, and
\* nobody who is up gets a new need.
Rewire(old, new) ==
    /\ old \notin up /\ new \notin up
    /\ \A x \in needs' \ needs : x[1] \notin up
    /\ Others(old, new)' = Others(old, new)
    /\ wanted' \ {old, new} = wanted \ {old, new}
    /\ UNCHANGED up

Change(old, new) ==
    /\ phase = "down" /\ phase' = "up"
    /\ Rewire(old, new)

Remove(old) ==
    /\ phase = "down" /\ phase' = "idle"
    /\ Rewire(old, old)
    /\ \A x \in needs' : old \notin {x[1], x[2]}
    /\ old \notin wanted'
    /\ Balanced'

Start(k) ==
    /\ phase = "up"
    /\ k \in wanted \ (up \cup Lacking)
    /\ up' = up \cup {k}
    /\ UNCHANGED <<needs, wanted, phase>>

End ==
    /\ phase = "up" /\ phase' = "idle"
    /\ Balanced
    /\ UNCHANGED <<up, needs, wanted>>

Next ==
    \/ Begin
    \/ GiveUp
    \/ \E k \in Key : Stop(k) \/ Start(k) \/ Remove(k)
    \/ \E old \in Key, new \in Key : Change(old, new)
    \/ End

Spec == Init /\ [][Next]_state
=============================================================================
