---------------------------- MODULE RoutesProofs ----------------------------
(***************************************************************************)
(* The choice that route_list() makes is right for any routes, kernel      *)
(* routes and destinations, in whatever order it visits its tables: the    *)
(* invariants of its loops, and the properties they end in.                *)
(***************************************************************************)
EXTENDS Routes, TLAPS

-----------------------------------------------------------------------------
(* Routes in the tables.                                                   *)

LEMMA RouteFacts ==
    ASSUME RouteTypeOK, NEW k \in Key, live[k] # Nil
    PROVE  /\ live[k] \in LiveRoute /\ live[k].dest \in Dest /\ live[k].distance \in Nat
           /\ live[k].external \in BOOLEAN /\ live[k].active \in BOOLEAN
<1>1. live[k] \in LiveRoute
  BY DEF RouteTypeOK
<1>2. live[k].distance \in Distance \cup {0, None}
  BY <1>1 DEF LiveRoute
<1>3. Distance \subseteq Nat /\ None \in Nat
  BY DistanceAssumption DEF None
<1>4. live[k].distance \in Nat
  BY <1>2, <1>3
<1> QED
  BY <1>1, <1>4 DEF LiveRoute

LEMMA FoundFacts ==
    ASSUME RouteTypeOK, NEW d \in Dest
    PROVE  FoundDistance(d) \in Nat /\ FoundDistance(d) \in {0, None}
BY DEF RouteTypeOK, FoundDistance, Distances, None

LEMMA ShownRoute ==
    ASSUME NEW r \in Route, NEW f, f.active \in BOOLEAN, f.static \in BOOLEAN
    PROVE  /\ Shown(r, f) \in LiveRoute /\ Shown(r, f) # Nil /\ ~Shown(r, f).external
           /\ Shown(r, f).dest = r.dest /\ Shown(r, f).distance = r.distance
<1>1. Shown(r, f) \in LiveRoute
  BY DEF Shown, LiveRoute, Route
<1> QED
  BY <1>1, NilAssumption DEF Shown

LEMMA NoFlagsSet == NoFlags.active \in BOOLEAN /\ NoFlags.static \in BOOLEAN
BY DEF NoFlags

-----------------------------------------------------------------------------
(* Calls from outside: they come between two listings.                     *)

LEMMA CallKeeps ==
    ASSUME RouteInv, Idle, loop' = loop, todo' = todo, found' = found, dests' = dests,
           listed' = FALSE, system' = system,
           cf' \in [Key -> Route \cup {Nil}], live' \in [Key -> LiveRoute \cup {Nil}],
           \A k \in Key : cf'[k] # Nil =>
               /\ live'[k] # Nil /\ ~live'[k].external
               /\ live'[k].dest = cf'[k].dest /\ live'[k].distance = cf'[k].distance
    PROVE  RouteInv'
<1>1. RouteTypeOK'
  BY DEF RouteInv, RouteTypeOK
<1>2. ClearInv' /\ ActivateInv' /\ ImportInv' /\ Idle'
  BY DEF Idle, ClearInv, ActivateInv, ImportInv
<1>3. ActiveIsShortest' /\ ExternalExact'
  BY DEF ActiveIsShortest, ExternalExact, UpToDate
<1> QED
  BY <1>1, <1>2, <1>3 DEF RouteInv

LEMMA CfAddInv ==
    ASSUME RouteInv, NEW r \in Route, CfAdd(r)
    PROVE  RouteInv'
<1>1. PICK k \in Fresh : /\ cf' = [cf EXCEPT ![k] = r]
                         /\ live' = [live EXCEPT ![k] = Shown(r, NoFlags)]
  BY DEF CfAdd
<1>2. /\ Shown(r, NoFlags) \in LiveRoute /\ Shown(r, NoFlags) # Nil /\ ~Shown(r, NoFlags).external
      /\ Shown(r, NoFlags).dest = r.dest /\ Shown(r, NoFlags).distance = r.distance
  BY ShownRoute, NoFlagsSet
<1>3. /\ k \in Key /\ cf'[k] = r /\ live'[k] = Shown(r, NoFlags)
      /\ \A j \in Key : j # k => cf'[j] = cf[j] /\ live'[j] = live[j]
      /\ cf' \in [Key -> Route \cup {Nil}] /\ live' \in [Key -> LiveRoute \cup {Nil}]
  BY <1>1, <1>2 DEF Fresh, RouteInv, RouteTypeOK
<1>4. \A j \in Key : cf'[j] # Nil =>
          /\ live'[j] # Nil /\ ~live'[j].external
          /\ live'[j].dest = cf'[j].dest /\ live'[j].distance = cf'[j].distance
  BY <1>2, <1>3 DEF RouteInv, RouteTypeOK
<1>5. Idle /\ listed' = FALSE /\ system' = system
      /\ loop' = loop /\ todo' = todo /\ found' = found /\ dests' = dests
  BY DEF CfAdd, listing
<1> QED
  BY <1>3, <1>4, <1>5, CallKeeps

LEMMA CfChangeInv ==
    ASSUME RouteInv, NEW k \in Key, NEW r \in Route, CfChange(k, r)
    PROVE  RouteInv'
<1> DEFINE s == Shown(r, live[k])
<1>1. PICK n \in Fresh : /\ cf' = [cf EXCEPT ![k] = Nil, ![n] = r]
                         /\ live' = [live EXCEPT ![k] = Nil, ![n] = s]
  BY DEF CfChange
<1>2. live[k] # Nil /\ live[k].active \in BOOLEAN /\ live[k].static \in BOOLEAN
  BY DEF CfChange, RouteInv, RouteTypeOK, LiveRoute
<1>3. s \in LiveRoute /\ s # Nil /\ ~s.external /\ s.dest = r.dest /\ s.distance = r.distance
  BY <1>2, ShownRoute
<1> HIDE DEF s
<1>4. /\ n \in Key /\ n # k /\ cf'[n] = r /\ live'[n] = s /\ cf'[k] = Nil /\ live'[k] = Nil
      /\ \A j \in Key : j # k /\ j # n => cf'[j] = cf[j] /\ live'[j] = live[j]
      /\ cf' \in [Key -> Route \cup {Nil}] /\ live' \in [Key -> LiveRoute \cup {Nil}]
  BY <1>1, <1>2, <1>3 DEF Fresh, RouteInv, RouteTypeOK
<1>5. \A j \in Key : cf'[j] # Nil =>
          /\ live'[j] # Nil /\ ~live'[j].external
          /\ live'[j].dest = cf'[j].dest /\ live'[j].distance = cf'[j].distance
  BY <1>3, <1>4 DEF RouteInv, RouteTypeOK
<1>6. Idle /\ listed' = FALSE /\ system' = system
      /\ loop' = loop /\ todo' = todo /\ found' = found /\ dests' = dests
  BY DEF CfChange, listing
<1> QED
  BY <1>4, <1>5, <1>6, CallKeeps

LEMMA RemoveInv ==
    ASSUME RouteInv, NEW k \in Key, CfRemove(k) \/ LiveRemove(k)
    PROVE  RouteInv'
<1>1. /\ Idle /\ listed' = FALSE /\ system' = system
      /\ loop' = loop /\ todo' = todo /\ found' = found /\ dests' = dests
      /\ live' = [live EXCEPT ![k] = Nil]
      /\ cf' = [cf EXCEPT ![k] = Nil] \/ (cf' = cf /\ cf[k] = Nil)
  BY DEF CfRemove, LiveRemove, listing
<1>2. /\ cf'[k] = Nil /\ live'[k] = Nil
      /\ \A j \in Key : j # k => cf'[j] = cf[j] /\ live'[j] = live[j]
      /\ cf' \in [Key -> Route \cup {Nil}] /\ live' \in [Key -> LiveRoute \cup {Nil}]
  BY <1>1 DEF RouteInv, RouteTypeOK
<1>3. \A j \in Key : cf'[j] # Nil =>
          /\ live'[j] # Nil /\ ~live'[j].external
          /\ live'[j].dest = cf'[j].dest /\ live'[j].distance = cf'[j].distance
  BY <1>2 DEF RouteInv, RouteTypeOK
<1> QED
  BY <1>1, <1>2, <1>3, CallKeeps

LEMMA LiveAddInv ==
    ASSUME RouteInv, NEW r \in Route, LiveAdd(r)
    PROVE  RouteInv'
<1>1. PICK k \in Fresh : live' = [live EXCEPT ![k] = Shown(r, NoFlags)]
  BY DEF LiveAdd
<1>2. Shown(r, NoFlags) \in LiveRoute
  BY ShownRoute, NoFlagsSet
<1>3. /\ k \in Key /\ live[k] = Nil /\ \A j \in Key : j # k => live'[j] = live[j]
      /\ live' \in [Key -> LiveRoute \cup {Nil}]
  BY <1>1, <1>2 DEF Fresh, RouteInv, RouteTypeOK
<1>4. Idle /\ listed' = FALSE /\ system' = system /\ cf' = cf
      /\ loop' = loop /\ todo' = todo /\ found' = found /\ dests' = dests
  BY DEF LiveAdd, listing
<1>5. \A j \in Key : cf'[j] # Nil =>
          /\ live'[j] # Nil /\ ~live'[j].external
          /\ live'[j].dest = cf'[j].dest /\ live'[j].distance = cf'[j].distance
  BY <1>3, <1>4 DEF RouteInv, RouteTypeOK
<1>6. cf' \in [Key -> Route \cup {Nil}]
  BY <1>4 DEF RouteInv, RouteTypeOK
<1> QED
  BY <1>3, <1>4, <1>5, <1>6, CallKeeps

\* The kernel's table changes, also under a listing.
LEMMA KernelRouteInv ==
    ASSUME RouteInv, NEW d \in Dest, NEW x \in SUBSET Distances, KernelRoute(d, x)
    PROVE  RouteInv'
<1>1. /\ cf' = cf /\ live' = live /\ listed' = FALSE
      /\ loop' = loop /\ todo' = todo /\ found' = found /\ dests' = dests
      /\ system' = [system EXCEPT ![d] = x]
  BY DEF KernelRoute, listing
<1>2. RouteTypeOK'
  BY <1>1 DEF RouteInv, RouteTypeOK
<1>3. ~Idle' => ChoiceInv'
  BY <1>1 DEF RouteInv, Idle, ChoiceInv, Own, FoundDistance
<1>4. ClearInv' /\ ActivateInv' /\ ImportInv'
  BY <1>1 DEF RouteInv, ClearInv, ActivateInv, ImportInv, Own
<1>5. ActiveIsShortest' /\ ExternalExact'
  BY <1>1 DEF ActiveIsShortest, ExternalExact, UpToDate
<1> QED
  BY <1>1, <1>2, <1>3, <1>4, <1>5 DEF RouteInv

-----------------------------------------------------------------------------
(* The loops of route_list().                                              *)

LEMMA ListBeginInv ==
    ASSUME RouteInv, ListBegin
    PROVE  RouteInv'
<1>1. /\ loop' = "choose" /\ todo' = {k \in Key : live[k] # Nil} /\ found' \in SystemRoutes
      /\ dests' = Nothing /\ listed' = TRUE /\ cf' = cf /\ live' = live /\ system' = system
  BY DEF ListBegin
<1>2. \A d \in Dest : dests'[d] = Nil
  BY <1>1 DEF Nothing
<1>3. RouteTypeOK'
  BY <1>1 DEF RouteInv, RouteTypeOK, Nothing, SystemRoutes
<1>4. ChoiceInv'
  BY <1>1, <1>2 DEF ChoiceInv, Own
<1>5. ClearInv' /\ ActivateInv' /\ ImportInv' /\ ~Idle'
  BY <1>1 DEF ClearInv, ActivateInv, ImportInv, Idle
<1>6. ActiveIsShortest' /\ ExternalExact'
  BY <1>5 DEF ActiveIsShortest, ExternalExact, UpToDate
<1> QED
  BY <1>1, <1>3, <1>4, <1>5, <1>6 DEF RouteInv, SystemRoutes, Kept

\* A turn of the first loop: the route is forgotten if it is external, and
\* takes the place of a longer one otherwise.
LEMMA ChooseInv ==
    ASSUME RouteInv, NEW k \in Key, Choose(k)
    PROVE  RouteInv'
<1> USE DEF RouteInv
<1>1. /\ loop = "choose" /\ k \in todo /\ todo' = todo \ {k} /\ ~Idle
      /\ cf' = cf /\ system' = system /\ listed' = listed /\ loop' = loop /\ found' = found
  BY DEF Choose, Idle
<1>2. live[k] # Nil /\ live[k] \in LiveRoute /\ live[k].dest \in Dest /\ live[k].distance \in Nat
  BY <1>1, RouteFacts DEF ClearInv
<1>3. ActivateInv' /\ ImportInv' /\ ~Idle'
  BY <1>1 DEF ActivateInv, ImportInv, Idle
<1>4. ActiveIsShortest' /\ ExternalExact'
  BY <1>3 DEF ActiveIsShortest, ExternalExact, UpToDate
<1>5. \A d \in Dest : dests[d] # Nil => dests[d] # k
  BY <1>1 DEF ChoiceInv
<1>6. \A d \in Dest : FoundDistance(d)' = FoundDistance(d)
  BY <1>1 DEF FoundDistance
<1>7. CASE live[k].external
  <2>1. live' = [live EXCEPT ![k] = Nil] /\ dests' = dests
    BY <1>7 DEF Choose, DropExternal
  <2>2. live'[k] = Nil /\ \A j \in Key : j # k => live'[j] = live[j]
    BY <2>1 DEF RouteTypeOK
  <2>3. RouteTypeOK'
    <3>1. live' \in [Key -> LiveRoute \cup {Nil}]
      BY <2>1 DEF RouteTypeOK
    <3> QED
      BY <1>1, <1>7, <2>1, <2>2, <3>1 DEF RouteTypeOK
  <2>4. ClearInv'
    BY <1>1, <2>2 DEF ClearInv
  <2>5. ChoiceInv'
    <3>1. \A j : j \in Own' /\ j \notin todo' <=> j \in Own /\ j \notin todo
      BY <1>1, <1>7, <2>2 DEF Own
    <3>2. \A j \in Own : j \notin todo => j # k /\ j \in Key /\ live'[j] = live[j]
      BY <1>1, <2>2 DEF Own
    <3> QED
      BY <1>1, <1>6, <2>1, <3>1, <3>2 DEF ChoiceInv
  <2> QED
    BY <1>1, <1>3, <1>4, <2>3, <2>4, <2>5 DEF SystemRoutes, Kept
<1>8. CASE ~live[k].external
  <2> DEFINE x == Visited(k)
  <2>1. live' = [live EXCEPT ![k] = x] /\ dests' = Consider(k)
    BY <1>8 DEF Choose
  <2>2. /\ x \in LiveRoute /\ x # Nil /\ ~x.external /\ ~x.active
        /\ x.dest = live[k].dest /\ x.distance = live[k].distance
    <3>1. PICK s : s = (live[k].static \/ cf[k] # Nil)
      OBVIOUS
    <3>2. s \in BOOLEAN
      BY <3>1
    <3>3. x = [live[k] EXCEPT !.active = FALSE, !.static = s]
      BY <3>1 DEF Visited
    <3>4. x \in LiveRoute /\ x.external = live[k].external
      BY <1>2, <3>2, <3>3 DEF LiveRoute
    <3> QED
      BY <1>2, <1>8, <3>3, <3>4, NilAssumption DEF LiveRoute
  <2> HIDE DEF x
  <2>3. live'[k] = x /\ \A j \in Key : j # k => live'[j] = live[j]
    BY <2>1 DEF RouteTypeOK
  <2> DEFINE e == live[k].dest
  <2>4. /\ dests' \in [Dest -> Key \cup {Nil}]
        /\ \A d \in Dest : d # e => dests'[d] = dests[d]
        /\ dests'[e] = IF live[k].distance < FoundDistance(e)
                            /\ (dests[e] # Nil => live[k].distance < live[dests[e]].distance)
                         THEN k ELSE dests[e]
    <3>1. FoundDistance(e) \in Nat /\ FoundDistance(e) <= None
      BY <1>2, FoundFacts DEF None
    <3>2. dests[e] = Nil => (live[k].distance < FoundDistance(e) => live[k].distance < None)
      BY <1>2, <3>1 DEF None
    <3> QED
      BY <1>2, <2>1, <3>2 DEF RouteTypeOK, Consider
  <2>5. RouteTypeOK'
    <3>1. live' \in [Key -> LiveRoute \cup {Nil}]
      BY <2>1, <2>2 DEF RouteTypeOK
    <3> QED
      BY <1>1, <2>2, <2>3, <2>4, <3>1 DEF RouteTypeOK
  <2>6. ClearInv'
    BY <1>1, <2>2, <2>3 DEF ClearInv
  <2>7. ChoiceInv'
    <3> DEFINE seen == {j \in Own : j \notin todo}
    <3>1. \A j : j \in Own' /\ j \notin todo' <=> j \in seen \/ j = k
      BY <1>1, <1>2, <1>8, <2>2, <2>3 DEF Own
    <3>2. \A j \in seen : /\ j # k /\ j \in Key /\ live'[j] = live[j] /\ live[j].distance \in Nat
      BY <1>1, <2>3, RouteFacts DEF Own
    <3>3. live'[k].dest = e /\ live'[k].distance = live[k].distance /\ e \in Dest
      BY <1>2, <2>2, <2>3
    <3>4. ASSUME NEW d \in Dest
          PROVE  /\ dests[d] # Nil =>
                      /\ dests[d] \in seen /\ live[dests[d]].dest = d
                      /\ live[dests[d]].distance < FoundDistance(d)
                 /\ \A j \in seen : live[j].dest = d /\ live[j].distance < FoundDistance(d) =>
                      dests[d] # Nil /\ live[dests[d]].distance <= live[j].distance
      BY <1>1 DEF ChoiceInv
    <3> HIDE DEF seen, e
    <3>5. ASSUME NEW d \in Dest
          PROVE  /\ dests'[d] # Nil =>
                      /\ dests'[d] \in seen \cup {k} /\ live'[dests'[d]].dest = d
                      /\ live'[dests'[d]].distance < FoundDistance(d)
                 /\ \A j \in seen \cup {k} : live'[j].dest = d /\ live'[j].distance < FoundDistance(d) =>
                      dests'[d] # Nil /\ live'[dests'[d]].distance <= live'[j].distance
      <4>1. FoundDistance(d) \in Nat
        BY FoundFacts
      <4>2. k # Nil
        BY NilAssumption
      <4>3. CASE d # e
        BY <2>4, <3>2, <3>3, <3>4, <4>3
      <4>4. CASE d = e /\ dests'[d] = k
        <5>1. live[k].distance < FoundDistance(d) /\ (dests[d] # Nil => live[k].distance < live[dests[d]].distance)
          BY <1>5, <2>4, <4>2, <4>4
        <5>2. \A j \in seen : live[j].dest = d /\ live[j].distance < FoundDistance(d) =>
                  live[k].distance <= live[j].distance
          BY <1>2, <3>2, <3>4, <5>1
        <5> QED
          BY <1>2, <3>2, <3>3, <4>2, <4>4, <5>1, <5>2
      <4>5. CASE d = e /\ dests'[d] # k
        <5>1. /\ dests'[d] = dests[d]
              /\ live[k].distance < FoundDistance(d) =>
                     dests[d] # Nil /\ ~(live[k].distance < live[dests[d]].distance)
          BY <2>4, <4>5
        <5>2. dests[d] # Nil => dests[d] \in seen /\ live'[dests[d]] = live[dests[d]]
                                /\ live[dests[d]].distance \in Nat
          BY <3>2, <3>4
        <5> QED
          BY <1>2, <3>2, <3>3, <3>4, <5>1, <5>2
      <4> QED
        BY <4>3, <4>4, <4>5
    <3>6. \A j : j \in seen \cup {k} <=> j \in {i \in Own' : loop' = "choose" => i \notin todo'}
      BY <1>1, <3>1
    <3> QED
      BY <1>6, <3>5, <3>6 DEF ChoiceInv
  <2> QED
    BY <1>1, <1>3, <1>4, <2>5, <2>6, <2>7 DEF SystemRoutes, Kept
<1> QED
  BY <1>7, <1>8


LEMMA ChosenInv ==
    ASSUME RouteInv, Chosen
    PROVE  RouteInv'
<1> USE DEF RouteInv
<1>1. /\ loop = "choose" /\ todo = {} /\ loop' = "activate" /\ ~Idle /\ ~Idle'
      /\ todo' = {d \in Dest : dests[d] # Nil}
      /\ cf' = cf /\ live' = live /\ system' = system /\ listed' = listed
      /\ found' = found /\ dests' = dests
  BY DEF Chosen, Idle
<1>2. RouteTypeOK'
  BY <1>1 DEF RouteTypeOK
<1>3. ChoiceInv'
  BY <1>1 DEF ChoiceInv, Own, FoundDistance
<1>4. \A k \in Key : live[k] # Nil => ~live[k].external /\ ~live[k].active
  BY <1>1 DEF ClearInv
<1>5. ClearInv' /\ ImportInv'
  BY <1>1, <1>4 DEF ClearInv, ImportInv
<1>6. ActivateInv'
  <2>1. ASSUME NEW k \in Key, live[k] # Nil, dests[live[k].dest] = k
        PROVE  live[k].dest \in todo'
    BY <1>1, <2>1, RouteFacts, NilAssumption
  <2> QED
    BY <1>1, <1>4, <2>1 DEF ActivateInv, Own
<1>7. ActiveIsShortest' /\ ExternalExact'
  BY <1>1 DEF ActiveIsShortest, ExternalExact, UpToDate
<1> QED
  BY <1>1, <1>2, <1>3, <1>5, <1>6, <1>7 DEF SystemRoutes, Kept

\* A turn of the second loop.
LEMMA ActivateStepInv ==
    ASSUME RouteInv, NEW d \in Dest, Activate(d)
    PROVE  RouteInv'
<1> USE DEF RouteInv
<1> DEFINE k == dests[d]
           x == [live[k] EXCEPT !.active = TRUE]
<1>1. /\ loop = "activate" /\ d \in todo /\ todo' = todo \ {d} /\ ~Idle /\ ~Idle' /\ loop' = loop
      /\ cf' = cf /\ system' = system /\ listed' = listed /\ found' = found /\ dests' = dests
      /\ live' = [live EXCEPT ![k] = x]
  BY DEF Activate, Idle
<1>2. dests[d] # Nil
  BY <1>1 DEF ImportInv
<1>3. k \in Own /\ k \in Key /\ live[k] # Nil /\ ~live[k].external /\ live[k].dest = d /\ live[k] \in LiveRoute
  BY <1>1, <1>2 DEF ChoiceInv, Own, RouteTypeOK
<1>4. /\ x \in LiveRoute /\ x # Nil /\ ~x.external /\ x.active
      /\ x.dest = d /\ x.distance = live[k].distance
  <2>1. x \in LiveRoute /\ x.external = live[k].external
    BY <1>3 DEF LiveRoute
  <2> QED
    BY <1>3, <2>1, NilAssumption DEF LiveRoute
<1> HIDE DEF x
<1>5. live'[k] = x /\ \A j \in Key : j # k => live'[j] = live[j]
  BY <1>1, <1>3 DEF RouteTypeOK
<1>6. /\ \A j \in Key : live'[j] # Nil <=> live[j] # Nil
      /\ \A j \in Key : live[j] # Nil => /\ live'[j].dest = live[j].dest /\ live'[j].distance = live[j].distance
                                         /\ live'[j].external <=> live[j].external
  BY <1>3, <1>4, <1>5
<1>7. Own' = Own /\ Own \subseteq Key /\ \A j \in Own : live[j] # Nil
  BY <1>6 DEF Own
<1>8. RouteTypeOK'
  <2>1. live' \in [Key -> LiveRoute \cup {Nil}]
    BY <1>1, <1>4 DEF RouteTypeOK
  <2>2. \A j \in Key : cf'[j] # Nil =>
            /\ live'[j] # Nil /\ ~live'[j].external
            /\ live'[j].dest = cf'[j].dest /\ live'[j].distance = cf'[j].distance
    BY <1>1, <1>6 DEF RouteTypeOK
  <2> QED
    BY <1>1, <2>1, <2>2 DEF RouteTypeOK
<1>9. ChoiceInv'
  <2>1. \A e \in Dest : FoundDistance(e)' = FoundDistance(e)
    BY <1>1 DEF FoundDistance
  <2>2. \A j \in Own : live'[j].dest = live[j].dest /\ live'[j].distance = live[j].distance
    BY <1>6, <1>7
  <2>3. ASSUME NEW e \in Dest
        PROVE  /\ dests[e] # Nil =>
                    /\ dests[e] \in Own /\ live[dests[e]].dest = e
                    /\ live[dests[e]].distance < FoundDistance(e)
               /\ \A j \in Own : live[j].dest = e /\ live[j].distance < FoundDistance(e) =>
                     dests[e] # Nil /\ live[dests[e]].distance <= live[j].distance
    BY <1>1 DEF ChoiceInv
  <2> QED
    BY <1>1, <1>7, <2>1, <2>2, <2>3 DEF ChoiceInv
<1>10. ClearInv' /\ ImportInv'
  BY <1>1, <1>6 DEF ClearInv, ImportInv
<1>11. ActivateInv'
  <2>1. ASSUME NEW j \in Own
        PROVE  live'[j].active <=> dests[live[j].dest] = j /\ live[j].dest \notin todo'
    <3>1. CASE j = k
      BY <1>1, <1>3, <1>4, <1>5, <3>1
    <3>2. CASE j # k
      BY <1>1, <1>3, <1>5, <1>7, <3>2 DEF ActivateInv
    <3> QED
      BY <3>1, <3>2
  <2> QED
    BY <1>1, <1>6, <1>7, <2>1 DEF ActivateInv
<1>12. ActiveIsShortest' /\ ExternalExact'
  BY <1>1 DEF ActiveIsShortest, ExternalExact, UpToDate
<1> QED
  BY <1>1, <1>8, <1>9, <1>10, <1>11, <1>12 DEF SystemRoutes, Kept

LEMMA ActivatedInv ==
    ASSUME RouteInv, Activated
    PROVE  RouteInv'
<1> USE DEF RouteInv
<1>1. /\ loop = "activate" /\ todo = {} /\ loop' = "import" /\ ~Idle /\ ~Idle'
      /\ todo' = {d \in Dest : found[d] # Nil /\ dests[d] = Nil}
      /\ cf' = cf /\ live' = live /\ system' = system /\ listed' = listed
      /\ found' = found /\ dests' = dests
  BY DEF Activated, Idle
<1>2. RouteTypeOK'
  BY <1>1 DEF RouteTypeOK
<1>3. ChoiceInv'
  BY <1>1 DEF ChoiceInv, Own, FoundDistance
<1>4. ClearInv' /\ ImportInv'
  BY <1>1 DEF ClearInv, ImportInv
<1>5. ActivateInv'
  BY <1>1 DEF ActivateInv, Own
<1>6. ActiveIsShortest' /\ ExternalExact'
  BY <1>1 DEF ActiveIsShortest, ExternalExact, UpToDate
<1> QED
  BY <1>1, <1>2, <1>3, <1>4, <1>5, <1>6 DEF SystemRoutes, Kept

\* A turn of the third loop.
LEMMA ImportStepInv ==
    ASSUME RouteInv, NEW d \in Dest, Import(d)
    PROVE  RouteInv'
<1> USE DEF RouteInv
<1> DEFINE x == External(d)
<1>1. PICK k \in Fresh : live' = [live EXCEPT ![k] = x]
  BY DEF Import
<1>2. /\ loop = "import" /\ d \in todo /\ todo' = todo \ {d} /\ ~Idle /\ ~Idle' /\ loop' = loop
      /\ cf' = cf /\ system' = system /\ listed' = listed /\ found' = found /\ dests' = dests
  BY DEF Import, Idle
<1>3. found[d] # Nil /\ dests[d] = Nil /\ found[d] \in {0, None}
  BY <1>2 DEF ImportInv, RouteTypeOK, Distances
<1>4. /\ x \in LiveRoute /\ x # Nil /\ x.external /\ x.active /\ x.dest = d /\ x.distance = found[d]
  <2>1. x \in LiveRoute
    BY <1>3 DEF External, LiveRoute
  <2> QED
    BY <2>1, NilAssumption DEF External
<1> HIDE DEF x
<1>5. /\ k \in Key /\ live[k] = Nil /\ cf[k] = Nil
      /\ live'[k] = x /\ \A j \in Key : j # k => live'[j] = live[j]
  BY <1>1 DEF Fresh, RouteTypeOK
<1>6. Own' = Own /\ Own \subseteq Key /\ \A j \in Own : j # k /\ live'[j] = live[j]
  BY <1>4, <1>5 DEF Own
<1>7. RouteTypeOK'
  <2>1. live' \in [Key -> LiveRoute \cup {Nil}]
    BY <1>1, <1>4 DEF RouteTypeOK
  <2>2. \A j \in Key : cf'[j] # Nil =>
            /\ live'[j] # Nil /\ ~live'[j].external
            /\ live'[j].dest = cf'[j].dest /\ live'[j].distance = cf'[j].distance
    BY <1>2, <1>5 DEF RouteTypeOK
  <2> QED
    BY <1>2, <2>1, <2>2 DEF RouteTypeOK
<1>8. ChoiceInv'
  <2>1. \A e \in Dest : FoundDistance(e)' = FoundDistance(e)
    BY <1>2 DEF FoundDistance
  <2>2. ASSUME NEW e \in Dest
        PROVE  /\ dests[e] # Nil =>
                    /\ dests[e] \in Own /\ live[dests[e]].dest = e
                    /\ live[dests[e]].distance < FoundDistance(e)
               /\ \A j \in Own : live[j].dest = e /\ live[j].distance < FoundDistance(e) =>
                     dests[e] # Nil /\ live[dests[e]].distance <= live[j].distance
    BY <1>2 DEF ChoiceInv
  <2> QED
    BY <1>2, <1>6, <2>1, <2>2 DEF ChoiceInv
<1>9. ClearInv'
  BY <1>2 DEF ClearInv
<1>10. ActivateInv'
  BY <1>2, <1>6 DEF ActivateInv
<1>11. ImportInv'
  <2>1. \A e \in todo' : found[e] # Nil /\ dests[e] = Nil
    BY <1>2 DEF ImportInv
  <2>2. ASSUME NEW j \in Key, live'[j] # Nil, live'[j].external
        PROVE  /\ live'[j].dest \notin todo' /\ found[live'[j].dest] # Nil /\ dests[live'[j].dest] = Nil
               /\ live'[j].active /\ live'[j].distance = found[live'[j].dest]
               /\ \A i \in Key : live'[i] # Nil /\ live'[i].external /\ live'[i].dest = live'[j].dest => i = j
    <3>1. CASE j = k
      BY <1>2, <1>3, <1>4, <1>5, <3>1 DEF ImportInv
    <3>2. CASE j # k
      BY <1>2, <1>4, <1>5, <2>2, <3>2 DEF ImportInv
    <3> QED
      BY <3>1, <3>2
  <2>3. ASSUME NEW e \in Dest \ todo', found[e] # Nil, dests[e] = Nil
        PROVE  \E j \in Key : live'[j] # Nil /\ live'[j].external /\ live'[j].dest = e
    <3>1. CASE e = d
      BY <1>4, <1>5, <3>1
    <3>2. CASE e # d
      <4>1. PICK j \in Key : live[j] # Nil /\ live[j].external /\ live[j].dest = e
        BY <1>2, <2>3, <3>2 DEF ImportInv
      <4> QED
        BY <1>5, <4>1
    <3> QED
      BY <3>1, <3>2
  <2> QED
    BY <1>2, <2>1, <2>2, <2>3 DEF ImportInv
<1>12. ActiveIsShortest' /\ ExternalExact'
  BY <1>2 DEF ActiveIsShortest, ExternalExact, UpToDate
<1> QED
  BY <1>2, <1>7, <1>8, <1>9, <1>10, <1>11, <1>12 DEF SystemRoutes, Kept

\* The third loop is done: what the three have established is what route_list()
\* promises.
LEMMA ListEndInv ==
    ASSUME RouteInv, ListEnd
    PROVE  RouteInv'
<1> USE DEF RouteInv
<1>1. /\ loop = "import" /\ todo = {} /\ loop' = "none" /\ todo' = todo /\ ~Idle /\ Idle'
      /\ found' = Nothing /\ dests' = Nothing
      /\ cf' = cf /\ live' = live /\ system' = system /\ listed' = listed
  BY DEF ListEnd, Idle
<1>2. RouteTypeOK'
  BY <1>1 DEF RouteTypeOK, Nothing, Distances
<1>3. ClearInv' /\ ActivateInv' /\ ImportInv'
  BY <1>1 DEF ClearInv, ActivateInv, ImportInv
<1>4. SUFFICES ASSUME listed
               PROVE  ActiveIsShortest' /\ ExternalExact'
  BY <1>1, <1>2, <1>3 DEF ActiveIsShortest, ExternalExact, UpToDate
<1>5. \A d \in Dest : found[d] \in Kept(d) /\ found[d] \in Distances \cup {Nil}
  BY <1>1, <1>4 DEF SystemRoutes
<1> DEFINE Better(d) == Candidates(d, found[d])
<1>6. ASSUME NEW d \in Dest
      PROVE  /\ dests[d] # Nil => dests[d] \in Better(d)
             /\ \A k \in Better(d) : dests[d] # Nil /\ live[dests[d]].distance <= live[k].distance
  BY <1>1 DEF ChoiceInv, Candidates, FoundDistance
<1>7. \A d \in Dest : Better(d) = {} <=> dests[d] = Nil
  BY <1>6
<1>8. ASSUME NEW k \in Key, live[k] # Nil, live[k].external
      PROVE  /\ found[live[k].dest] # Nil /\ dests[live[k].dest] = Nil
             /\ live[k].active /\ live[k].distance = found[live[k].dest]
             /\ \A j \in Key : live[j] # Nil /\ live[j].external /\ live[j].dest = live[k].dest => j = k
  BY <1>1, <1>8 DEF ImportInv
<1>9. ASSUME NEW d \in Dest, found[d] # Nil, dests[d] = Nil
      PROVE  \E k \in Key : live[k] # Nil /\ live[k].external /\ live[k].dest = d
  BY <1>1, <1>9 DEF ImportInv
<1>10. ASSUME NEW k \in Key, live[k] # Nil, ~live[k].external
       PROVE  live[k].active <=> dests[live[k].dest] = k
  BY <1>1, <1>10 DEF ActivateInv, Own
<1>11. ASSUME NEW d \in Dest, NEW k \in Key
       PROVE  k \in Active(d) <=> /\ live[k] # Nil /\ live[k].dest = d
                                  /\ IF live[k].external THEN dests[d] = Nil ELSE dests[d] = k
  BY <1>8, <1>10 DEF Active
<1>12. \A d \in Dest : dests[d] # Nil => /\ dests[d] \in Own /\ dests[d] \in Key /\ live[dests[d]] # Nil
                                         /\ ~live[dests[d]].external /\ live[dests[d]].dest = d
  BY <1>6 DEF Candidates, Own
<1>13. \A d \in Dest : Active(d) \subseteq Key /\ Nil \notin Key
  BY NilAssumption DEF Active
<1>14. \A d \in Dest : dests[d] # Nil => Active(d) = {dests[d]}
  BY <1>11, <1>12, <1>13
<1> HIDE DEF Better
<1>15. ASSUME NEW d \in Dest
       PROVE  /\ \A j, k \in Active(d) : j = k
              /\ Active(d) = {} <=> Better(d) = {} /\ found[d] = Nil
              /\ \A k \in Active(d) :
                    IF Better(d) = {} THEN live[k].external /\ live[k].distance = found[d]
                    ELSE /\ k \in Better(d)
                         /\ \A j \in Better(d) : live[k].distance <= live[j].distance
  <2>1. CASE dests[d] = Nil
    <3>1. Better(d) = {}
      BY <1>7, <2>1
    <3>2. \A k \in Active(d) : k \in Key /\ live[k] # Nil /\ live[k].external /\ live[k].dest = d
      BY <1>11, <1>13, <2>1
    <3>3. \A j, k \in Active(d) : j = k
      BY <1>8, <3>2
    <3>4. Active(d) = {} <=> found[d] = Nil
      BY <1>8, <1>9, <1>11, <2>1, <3>2
    <3>5. \A k \in Active(d) : live[k].distance = found[d]
      BY <1>8, <3>2
    <3> QED
      BY <3>1, <3>2, <3>3, <3>4, <3>5
  <2>2. CASE dests[d] # Nil
    BY <1>6, <1>7, <1>14, <2>2
  <2> QED
    BY <2>1, <2>2
<1>16. ActiveIsShortest'
  <2>1. \A d \in Dest : Active(d)' = Active(d) /\ Kept(d)' = Kept(d)
    BY <1>1 DEF Active, Kept
  <2> QED
    BY <1>1, <1>5, <1>15, <2>1 DEF ActiveIsShortest, Better, Candidates, Own
<1>17. ExternalExact'
  <2> SUFFICES ASSUME NEW d \in Dest
               PROVE  /\ ShownExternal(d) # {} <=> system[d] # {} /\ Active(d) \cap Own = {}
                      /\ \A j, k \in ShownExternal(d) : j = k
                      /\ \A k \in ShownExternal(d) : live[k].distance \in system[d]
    BY <1>1 DEF ExternalExact, ShownExternal, Active, Own
  <2>1. found[d] # Nil <=> system[d] # {}
    BY <1>5, NilAssumption DEF Kept, RouteTypeOK, Distances
  <2>2. Active(d) \cap Own = {} <=> dests[d] = Nil
    <3>1. CASE dests[d] = Nil
      BY <1>11, <1>13, <3>1 DEF Own
    <3>2. CASE dests[d] # Nil
      BY <1>12, <1>14, <3>2
    <3> QED
      BY <3>1, <3>2
  <2>3. ShownExternal(d) # {} <=> found[d] # Nil /\ dests[d] = Nil
    BY <1>8, <1>9 DEF ShownExternal
  <2>4. \A k \in ShownExternal(d) : live[k].distance = found[d] /\ \A j \in ShownExternal(d) : j = k
    BY <1>8 DEF ShownExternal
  <2>5. system[d] # {} => found[d] \in system[d]
    BY <1>5 DEF Kept
  <2> QED
    BY <2>1, <2>2, <2>3, <2>4, <2>5
<1> QED
  BY <1>16, <1>17

LEMMA RouteNextInv ==
    ASSUME RouteInv, [RouteNext]_routeVars
    PROVE  RouteInv'
<1>1. CASE UNCHANGED routeVars
  <2> USE <1>1 DEF routeVars, listing
  <2>1. RouteTypeOK' /\ ClearInv' /\ ActivateInv' /\ ImportInv'
    BY DEF RouteInv, RouteTypeOK, ClearInv, ActivateInv, ImportInv, Own
  <2>2. ~Idle' => ChoiceInv' /\ (listed' => (found \in SystemRoutes)')
    BY DEF RouteInv, Idle, ChoiceInv, Own, FoundDistance, SystemRoutes, Kept
  <2>3. ActiveIsShortest'
    BY DEF RouteInv, ActiveIsShortest, UpToDate, Idle, Active, Kept, Candidates, Own
  <2>4. ExternalExact'
    BY DEF RouteInv, ExternalExact, UpToDate, Idle, ShownExternal, Active, Own
  <2> QED
    BY <2>1, <2>2, <2>3, <2>4 DEF RouteInv
<1>2. ASSUME NEW r \in Route, CfAdd(r) \/ LiveAdd(r)
      PROVE  RouteInv'
  BY <1>2, CfAddInv, LiveAddInv
<1>3. ASSUME NEW k \in Key, NEW r \in Route, CfChange(k, r)
      PROVE  RouteInv'
  BY <1>3, CfChangeInv
<1>4. ASSUME NEW k \in Key, CfRemove(k) \/ LiveRemove(k)
      PROVE  RouteInv'
  BY <1>4, RemoveInv
<1>5. ASSUME NEW d \in Dest, NEW x \in SUBSET Distances, KernelRoute(d, x)
      PROVE  RouteInv'
  BY <1>5, KernelRouteInv
<1>6. ASSUME RouteList
      PROVE  RouteInv'
  BY <1>6, ListBeginInv, ChooseInv, ChosenInv, ActivateStepInv, ActivatedInv, ImportStepInv,
     ListEndInv DEF RouteList
<1> QED
  BY <1>1, <1>2, <1>3, <1>4, <1>5, <1>6 DEF RouteNext

LEMMA RouteInitInv ==
    ASSUME RouteInit
    PROVE  RouteInv
<1>1. RouteTypeOK
  BY DEF RouteInit, RouteTypeOK, Nothing, Distances
<1> QED
  BY <1>1 DEF RouteInit, RouteInv, Idle, ClearInv, ActivateInv, ImportInv,
              ActiveIsShortest, ExternalExact, UpToDate

-----------------------------------------------------------------------------
(* Theorems.                                                               *)

(* The invariants of the loops of route_list() hold for any routes.        *)
THEOREM RouteInvariance == RouteSpec => []RouteInv
<1>1. RouteInit => RouteInv
  BY RouteInitInv
<1>2. RouteInv /\ [RouteNext]_routeVars => RouteInv'
  BY RouteNextInv
<1> QED
  BY <1>1, <1>2, PTL DEF RouteSpec

(* The tables have their types, and a configured route keeps its key in    *)
(* the live table, whatever route_list() adds and removes.                 *)
THEOREM RouteTypeCorrect == RouteSpec => []RouteTypeOK
<1>1. RouteInv => RouteTypeOK
  BY DEF RouteInv
<1> QED
  BY <1>1, RouteInvariance, PTL

(* However many routes compete for a destination, in whatever order        *)
(* route_list() meets them and whatever an earlier call left in the table, *)
(* one of the shortest that beat the kernel route system_routes() kept is  *)
(* active, and no other.                                                   *)
THEOREM ActiveCorrect == RouteSpec => []ActiveIsShortest
<1>1. RouteInv => ActiveIsShortest
  BY DEF RouteInv
<1> QED
  BY <1>1, RouteInvariance, PTL

(* One of the kernel's routes to a destination is shown as external, and   *)
(* only one, exactly when it has any and no route of the daemon is active. *)
THEOREM ExternalCorrect == RouteSpec => []ExternalExact
<1>1. RouteInv => ExternalExact
  BY DEF RouteInv
<1> QED
  BY <1>1, RouteInvariance, PTL
=============================================================================
