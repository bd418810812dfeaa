------------------------------- MODULE Routes -------------------------------
(***************************************************************************)
(* The section /ip/route (core/route.lua): the live table, which holds the *)
(* configured routes, the dynamic ones of live_set() and the external ones *)
(* found in the kernel, and route_list(), which decides which of them are  *)
(* active.                                                                 *)
(*                                                                         *)
(* A destination stands for dst-address@routing-mark, the text by which    *)
(* route_list() and system_routes() match routes; their types, which the   *)
(* comments count in (core/route.lua:123), are not part of it.  Of a       *)
(* kernel route only its distance matters (0 when connected, 256           *)
(* otherwise).  The kernel may have several routes to a destination, which *)
(* differ in metric or type; system_routes() keeps the last that ip shows. *)
(* The section has no dependencies and its hooks are empty, so a           *)
(* cf_set() of it is one step.  Routes have random keys.  route_list() is  *)
(* executed one turn of a loop at a time: the kernel's table, which it     *)
(* reads at its beginning, may change under it.                            *)
(***************************************************************************)
EXTENDS Naturals, FiniteSets

CONSTANTS
    Key,            \* keys of the section, drawn by random_key()
    Dest,           \* destinations
    Distance,       \* distances a route may be given
    MaxRoutes,      \* bound on the configured and dynamic routes
    Nil

None == 256         \* the distance of no route at all

ASSUME DistanceAssumption == Distance \subseteq 1 .. None - 1

Route == [dest : Dest, distance : Distance, disabled : BOOLEAN]
LiveRoute == [dest : Dest, distance : Distance \cup {0, None}, disabled : BOOLEAN,
              external : BOOLEAN, active : BOOLEAN, static : BOOLEAN]

ASSUME NilAssumption == Nil \notin Key \cup Route \cup LiveRoute \cup {0, None}

VARIABLES
    cf,             \* configured routes
    live,           \* live routes
    system,         \* kernel: the distances of its routes to every destination
    listed,         \* nothing has changed since route_list() read the kernel's
    loop,           \* the loop route_list() is in, "none" when it is not called
    todo,           \* the keys or destinations it has still to visit
    found,          \* the kernel's route it keeps for every destination
    dests           \* the route chosen for every destination, or Nil

listing   == <<loop, todo, found, dests>>
routeVars == <<cf, live, system, listed, listing>>

\* Distances of the kernel's routes.
Distances == {0, None}

(* The tables have their types, and every configured route is in the live  *)
(* table under its key, which is never lent to an external or dynamic one. *)
RouteTypeOK ==
    /\ cf \in [Key -> Route \cup {Nil}]
    /\ live \in [Key -> LiveRoute \cup {Nil}]
    /\ system \in [Dest -> SUBSET Distances]
    /\ listed \in BOOLEAN
    /\ loop \in {"none", "choose", "activate", "import"}
    /\ todo \subseteq IF loop = "choose" THEN Key ELSE Dest
    /\ found \in [Dest -> Distances \cup {Nil}]
    /\ dests \in [Dest -> Key \cup {Nil}]
    /\ \A k \in Key : cf[k] # Nil =>
          /\ live[k] # Nil /\ ~live[k].external
          /\ live[k].dest = cf[k].dest /\ live[k].distance = cf[k].distance

Nothing == [d \in Dest |-> Nil]

RouteInit ==
    /\ cf = [k \in Key |-> Nil]
    /\ live = [k \in Key |-> Nil]
    /\ system \in [Dest -> SUBSET Distances]
    /\ listed = FALSE
    /\ loop = "none" /\ todo = {} /\ found = Nothing /\ dests = Nothing

Idle == loop = "none"

Fresh == {k \in Key : live[k] = Nil}

\* The routes that route_list() chooses from.
Own == {k \in Key : live[k] # Nil /\ ~live[k].external}

\* The live view of route r that had flags f.
Shown(r, f) ==
    [dest |-> r.dest, distance |-> r.distance, disabled |-> r.disabled,
     external |-> FALSE, active |-> f.active, static |-> f.static]

NoFlags == [active |-> FALSE, static |-> FALSE]

-----------------------------------------------------------------------------
(* cf_set() and live_set() for routes, and the kernel (external).          *)

CfAdd(r) ==
    /\ Idle
    /\ Cardinality(Own) < MaxRoutes
    /\ \E k \in Fresh :
        /\ cf' = [cf EXCEPT ![k] = r]
        /\ live' = [live EXCEPT ![k] = Shown(r, NoFlags)]
    /\ listed' = FALSE
    /\ UNCHANGED <<system, listing>>

\* Mutant: the old key is left in the configuration.
CfChangeCopies(k, r) ==
    /\ Idle
    /\ cf[k] # Nil
    /\ \E n \in Fresh :
        /\ cf' = [cf EXCEPT ![n] = r]
        /\ live' = [live EXCEPT ![k] = Nil, ![n] = Shown(r, live[k])]
    /\ listed' = FALSE
    /\ UNCHANGED <<system, listing>>

\* The live table moves to the new key with the flags it has.
CfChange(k, r) ==
    /\ Idle
    /\ cf[k] # Nil
    /\ \E n \in Fresh :
        /\ cf' = [cf EXCEPT ![k] = Nil, ![n] = r]
        /\ live' = [live EXCEPT ![k] = Nil, ![n] = Shown(r, live[k])]
    /\ listed' = FALSE
    /\ UNCHANGED <<system, listing>>

CfRemove(k) ==
    /\ Idle
    /\ cf[k] # Nil
    /\ cf' = [cf EXCEPT ![k] = Nil]
    /\ live' = [live EXCEPT ![k] = Nil]
    /\ listed' = FALSE
    /\ UNCHANGED <<system, listing>>

\* A dynamic route: nothing says it is disabled.
LiveAdd(r) ==
    /\ Idle
    /\ ~r.disabled
    /\ Cardinality(Own) < MaxRoutes
    /\ \E k \in Fresh : live' = [live EXCEPT ![k] = Shown(r, NoFlags)]
    /\ listed' = FALSE
    /\ UNCHANGED <<cf, system, listing>>

LiveRemove(k) ==
    /\ Idle
    /\ k \in Own /\ cf[k] = Nil
    /\ live' = [live EXCEPT ![k] = Nil]
    /\ listed' = FALSE
    /\ UNCHANGED <<cf, system, listing>>

\* The kernel has routes of distances x.
KernelRoute(d, x) ==
    /\ system' = [system EXCEPT ![d] = x]
    /\ listed' = FALSE
    /\ UNCHANGED <<cf, live, listing>>

-----------------------------------------------------------------------------
(* route_list().  pairs() visits a table in any order.                     *)

\* What system_routes() may keep for a destination: one line hides the others.
Kept(d) == IF system[d] = {} THEN {Nil} ELSE system[d]

SystemRoutes == {f \in [Dest -> Distances \cup {Nil}] : \A d \in Dest : f[d] \in Kept(d)}

ListBegin ==
    /\ Idle
    /\ loop' = "choose"
    /\ todo' = {k \in Key : live[k] # Nil}
    /\ found' \in SystemRoutes
    /\ dests' = Nothing
    /\ listed' = TRUE
    /\ UNCHANGED <<cf, live, system>>

FoundDistance(d) == IF found[d] # Nil THEN found[d] ELSE None

\* Mutant: a later route wins, also one of a longer distance.
ConsiderLast(k) ==
    IF live[k].distance < FoundDistance(live[k].dest)
      THEN [dests EXCEPT ![live[k].dest] = k] ELSE dests

Consider(k) ==
    LET d    == live[k].dest
        prev == IF dests[d] # Nil THEN live[dests[d]].distance ELSE None
    IN  IF live[k].distance < FoundDistance(d) /\ live[k].distance < prev
          THEN [dests EXCEPT ![d] = k] ELSE dests

\* Mutant: external routes of an earlier call stay.
DropNothing(k) == UNCHANGED live

\* External routes are those of an earlier call.
DropExternal(k) == live' = [live EXCEPT ![k] = Nil]

\* Route k before it is known whether it will be active.
Visited(k) == [live[k] EXCEPT !.active = FALSE, !.static = (live[k].static \/ cf[k] # Nil)]

\* One turn of the first loop.
Choose(k) ==
    /\ loop = "choose" /\ k \in todo
    /\ todo' = todo \ {k}
    /\ IF live[k].external
         THEN DropExternal(k) /\ UNCHANGED dests
         ELSE /\ live' = [live EXCEPT ![k] = Visited(k)]
              /\ dests' = Consider(k)
    /\ UNCHANGED <<cf, system, listed, loop, found>>

\* Between the loops.
Chosen ==
    /\ loop = "choose" /\ todo = {}
    /\ loop' = "activate"
    /\ todo' = {d \in Dest : dests[d] # Nil}
    /\ UNCHANGED <<cf, live, system, listed, found, dests>>

\* One turn of the second loop.
Activate(d) ==
    /\ loop = "activate" /\ d \in todo
    /\ todo' = todo \ {d}
    /\ live' = [live EXCEPT ![dests[d]] = [@ EXCEPT !.active = TRUE]]
    /\ UNCHANGED <<cf, system, listed, loop, found, dests>>

Activated ==
    /\ loop = "activate" /\ todo = {}
    /\ loop' = "import"
    /\ todo' = {d \in Dest : found[d] # Nil /\ dests[d] = Nil}
    /\ UNCHANGED <<cf, live, system, listed, found, dests>>

External(d) ==
    [dest |-> d, distance |-> found[d], disabled |-> FALSE,
     external |-> TRUE, active |-> TRUE, static |-> FALSE]

\* One turn of the third loop.
Import(d) ==
    /\ loop = "import" /\ d \in todo
    /\ todo' = todo \ {d}
    /\ \E k \in Fresh : live' = [live EXCEPT ![k] = External(d)]
    /\ UNCHANGED <<cf, system, listed, loop, found, dests>>

ListEnd ==
    /\ loop = "import" /\ todo = {}
    /\ loop' = "none" /\ found' = Nothing /\ dests' = Nothing
    /\ UNCHANGED <<cf, live, system, listed, todo>>

RouteList ==
    \/ ListBegin
    \/ \E k \in Key : Choose(k)
    \/ Chosen
    \/ \E d \in Dest : Activate(d)
    \/ Activated
    \/ \E d \in Dest : Import(d)
    \/ ListEnd

RouteNext ==
    \/ \E r \in Route : CfAdd(r)
    \/ \E k \in Key, r \in Route : CfChange(k, r)
    \/ \E k \in Key : CfRemove(k)
    \/ \E r \in Route : LiveAdd(r)
    \/ \E k \in Key : LiveRemove(k)
    \/ \E d \in Dest, x \in SUBSET Distances : KernelRoute(d, x)
    \/ RouteList

RouteSpec == RouteInit /\ [][RouteNext]_routeVars

-----------------------------------------------------------------------------
(* Properties.                                                             *)

\* route_list() has returned, and nothing has changed since.
UpToDate == Idle /\ listed

Active(d) == {k \in Key : live[k] # Nil /\ live[k].dest = d /\ live[k].active}

\* The routes of the daemon to d that beat the kernel's route x.
Candidates(d, x) ==
    {k \in Own : live[k].dest = d /\ live[k].distance < IF x = Nil THEN None ELSE x}

(* After route_list(), in whatever order the table was visited and         *)
(* whatever earlier calls left in it, a destination has at most one active *)
(* route: one of the smallest distance among those that beat the kernel's  *)
(* route system_routes() kept, else that one.  The comment says "we only   *)
(* pick the one with the smallest distance in each case" of "dst-address/  *)
(* routing-mark/type" (core/route.lua:123-124); the code, and this         *)
(* property, do it for dst-address and routing-mark: routes of different   *)
(* types compete.                                                          *)
ActiveIsShortest ==
    UpToDate => \A d \in Dest : \E x \in Kept(d) :
        /\ \A j, k \in Active(d) : j = k
        /\ Active(d) = {} <=> Candidates(d, x) = {} /\ x = Nil
        /\ \A k \in Active(d) :
              IF Candidates(d, x) = {} THEN live[k].external /\ live[k].distance = x
              ELSE /\ k \in Candidates(d, x)
                   /\ \A j \in Candidates(d, x) : live[k].distance <= live[j].distance

ShownExternal(d) == {k \in Key : live[k] # Nil /\ live[k].external /\ live[k].dest = d}

(* After route_list() one of the kernel's routes to a destination is shown *)
(* as external, and only one however often it ran, when the kernel has any *)
(* and no route of the daemon to it is active.                             *)
ExternalExact ==
    UpToDate => \A d \in Dest :
        /\ ShownExternal(d) # {} <=> system[d] # {} /\ Active(d) \cap Own = {}
        /\ \A j, k \in ShownExternal(d) : j = k
        /\ \A k \in ShownExternal(d) : live[k].distance \in system[d]

(* A disabled route is never active ("DISABLED means not in the real       *)
(* system", lib/cf.lua:38).                                                *)
DisabledIsInactive ==
    UpToDate => \A k \in Key : live[k] # Nil /\ live[k].active => ~live[k].disabled

-----------------------------------------------------------------------------
(* The invariants of the loops of route_list(), behind these properties.   *)

\* The best of the visited routes is chosen.
ChoiceInv ==
    LET seen == {k \in Own : loop = "choose" => k \notin todo}
    IN  \A d \in Dest :
            /\ dests[d] # Nil =>
                /\ dests[d] \in seen /\ live[dests[d]].dest = d
                /\ live[dests[d]].distance < FoundDistance(d)
            /\ \A k \in seen : live[k].dest = d /\ live[k].distance < FoundDistance(d) =>
                  dests[d] # Nil /\ live[dests[d]].distance <= live[k].distance

\* Flags and external routes of earlier calls are gone from what was visited.
ClearInv ==
    loop = "choose" => \A k \in Key :
        /\ k \in todo => live[k] # Nil
        /\ live[k] # Nil /\ k \notin todo => ~live[k].external /\ ~live[k].active

\* The chosen routes that were visited are active, and no others.
ActivateInv ==
    loop \in {"activate", "import"} => \A k \in Own :
        live[k].active <=> dests[live[k].dest] = k /\ (loop = "activate" => live[k].dest \notin todo)

\* The kernel's routes that were visited are shown, once each.
ImportInv ==
    /\ loop = "activate" => /\ \A k \in Key : live[k] # Nil => ~live[k].external
                            /\ \A d \in todo : dests[d] # Nil
    /\ loop = "import" =>
        /\ \A d \in todo : found[d] # Nil /\ dests[d] = Nil
        /\ \A k \in Key : live[k] # Nil /\ live[k].external =>
              LET d == live[k].dest
              IN  /\ d \notin todo /\ found[d] # Nil /\ dests[d] = Nil
                  /\ live[k].active /\ live[k].distance = found[d]
                  /\ \A j \in Key : live[j] # Nil /\ live[j].external /\ live[j].dest = d => j = k
        /\ \A d \in Dest \ todo : found[d] # Nil /\ dests[d] = Nil =>
              \E k \in Key : live[k] # Nil /\ live[k].external /\ live[k].dest = d

RouteInv ==
    /\ RouteTypeOK
    /\ ~Idle => ChoiceInv /\ (listed => found \in SystemRoutes)
    /\ ClearInv
    /\ ActivateInv
    /\ ImportInv
    /\ ActiveIsShortest
    /\ ExternalExact
=============================================================================
