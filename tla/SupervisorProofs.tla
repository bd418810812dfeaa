-------------------------- MODULE SupervisorProofs --------------------------
(***************************************************************************)
(* The configuration engine implements the supervisor, for all sections,   *)
(* keys, items and dependency graphs, as long as callers reuse no key:     *)
(* every step of cf_set() is a step of Supervisor or leaves its state as   *)
(* it is.                                                                  *)
(***************************************************************************)
EXTENDS CfEngineProofs

-----------------------------------------------------------------------------
(* The stack and the flags around a step of state_change().                *)

LEMMA ReturnStack ==
    ASSUME TypeOK, Return
    PROVE  /\ Len(stack') = Len(stack) - 1 /\ Len(stack) \in Nat
           /\ \A i \in 1 .. Len(stack') : i \in 1 .. Len(stack) /\ stack'[i] = stack[i]
<1> DEFINE n == Len(stack)
<1>1. stack # <<>> /\ stack' = SubSeq(stack, 1, n - 1)
  BY DEF Return
<1>2. n \in Nat /\ n >= 1 /\ \A i \in 1 .. n : stack[i] \in Frame
  BY <1>1, TopFrame
<1>3. 1 \in Int /\ n - 1 \in Int /\ (\A i \in 1 .. n - 1 : stack[i] \in Frame) /\ 1 .. n - 1 \subseteq 1 .. n
  BY <1>2
<1>4. /\ Len(stack') = IF 1 <= n - 1 THEN (n - 1) - 1 + 1 ELSE 0
      /\ \A i \in 1 .. (n - 1) - 1 + 1 : stack'[i] = stack[1 + i - 1]
  BY <1>1, <1>3, SubSeqProperties
<1>5. Len(stack') = n - 1
  BY <1>2, <1>4, LastFrame
<1>6. ASSUME NEW i \in 1 .. n - 1 PROVE stack'[i] = stack[i]
  <2>1. i \in 1 .. (n - 1) - 1 + 1 /\ 1 + i - 1 = i
    BY <1>2
  <2> QED
    BY <1>4, <2>1
<1> QED
  BY <1>2, <1>3, <1>5, <1>6

LEMMA NotifyStack ==
    ASSUME TypeOK, NEW c \in Key, NEW g \in Field, Notify(c, g)
    PROVE  /\ Len(stack') = Len(stack) + 1 /\ Len(stack) \in Nat
           /\ \A i \in 1 .. Len(stack) : /\ stack'[i].key = stack[i].key
                                         /\ stack'[i].entered = stack[i].entered
                                         /\ stack'[i].stop = stack[i].stop
           /\ stack'[Len(stack) + 1] = Call(c, FALSE, FALSE)
<1> DEFINE n == Len(stack)
           fr == [Top EXCEPT !.todo = @ \ {<<c, g>>}]
           a == Call(c, FALSE, FALSE)
           q == [stack EXCEPT ![Len(stack)] = fr]
<1>1. stack # <<>> /\ stack \in Seq(Frame) /\ stack' = Append(q, a)
  BY DEF Notify, TypeOK
<1>2. /\ n \in Nat /\ n \in 1 .. n /\ Top \in Frame /\ stack[n] = Top
      /\ \A i \in 1 .. n : stack[i] \in Frame
  BY <1>1, TopFrame DEF Top
<1>3. /\ fr \in Frame /\ a \in Frame
      /\ fr.key = Top.key /\ fr.entered = Top.entered /\ fr.stop = Top.stop
  BY <1>2 DEF Frame, Call
<1> HIDE DEF fr, a
<1>4. /\ q \in Seq(Frame) /\ Len(q) = n /\ q[n] = fr
      /\ \A i \in 1 .. n : i # n => q[i] = stack[i]
  BY <1>1, <1>3, ReplaceLast
<1> HIDE DEF q
<1>5. /\ Len(stack') = n + 1
      /\ \A i \in 1 .. n : stack'[i] = q[i]
      /\ stack'[n + 1] = a
  BY <1>1, <1>3, <1>4, AppendProperties
<1> QED
  BY <1>2, <1>3, <1>4, <1>5 DEF a

LEMMA StateChangeStack ==
    ASSUME IInv, StateChange
    PROVE  /\ Len(stack') = Len(stack) /\ Len(stack) \in Nat /\ Len(stack) \in 1 .. Len(stack)
           /\ \A i \in 1 .. Len(stack) : i # Len(stack) => /\ stack'[i] = stack[i]
                                                            /\ stack[i].key # Top.key
           /\ stack'[Len(stack)].key = Top.key
           /\ stack'[Len(stack)].entered
           /\ stack'[Len(stack)].stop <=> live[Top.key].backed /\ ~Dependable(Top)
           /\ Top = stack[Len(stack)] /\ Top.key \in Key /\ cf[Top.key] # Nil
           /\ live'[Top.key].dependable = Dependable(Top) /\ live'[Top.key] # Nil
           /\ \A k \in Key : k # Top.key => live'[k] = live[k]
<1> USE ConstantsAssumption DEF IInv
<1> DEFINE n == Len(stack)
           t == Top.key
           up == Dependable(Top)
           fl == [backed |-> live[t].backed \/ up, invalid |-> Invalid(Top), dependable |-> up]
           td == IF Changed(Top) THEN dependents[t] ELSE {}
           st == live[t].backed /\ ~up
           fr == [Top EXCEPT !.entered = TRUE, !.todo = td, !.stop = st]
<1>1. /\ stack # <<>> /\ stack \in Seq(Frame) /\ ~Top.entered
      /\ live' = [live EXCEPT ![t] = fl]
      /\ stack' = [stack EXCEPT ![Len(stack)] = fr]
  BY DEF StateChange, TypeOK
<1>2. n \in Nat /\ n \in 1 .. n /\ t \in Key /\ Top \in Frame /\ stack[n] = Top
  BY <1>1, TopFrame DEF Top
<1>3. cf[t] # Nil
  BY <1>2 DEF StackInv
<1>4. Invalid(Top) \in BOOLEAN /\ up \in BOOLEAN
  BY DEF Invalid, Dependable
<1> HIDE DEF up
<1>5. fl \in Live /\ fl.dependable = up
  BY <1>2, <1>3, <1>4 DEF Live, TypeOK, TablesInv
<1>6. live'[t] = fl /\ \A k \in Key : k # t => live'[k] = live[k]
  BY <1>1, <1>2 DEF TypeOK
<1>7. fl # Nil
  BY <1>5 DEF Live
<1>8. td \in SUBSET Entry /\ st \in BOOLEAN
  BY <1>2 DEF TypeOK
<1> HIDE DEF td, st, fl
<1>9. fr \in Frame /\ fr.key = t /\ fr.entered = TRUE /\ fr.stop = st
  BY <1>2, <1>8 DEF Frame
<1> HIDE DEF fr
<1>10. /\ Len(stack') = n /\ stack'[n] = fr
       /\ \A i \in 1 .. n : i # n => stack'[i] = stack[i]
  BY <1>1, <1>9, ReplaceLast
<1>11. \A i \in 1 .. n : i # n => stack[i].key # t
  BY <1>1, <1>2, StackKeys
<1> QED
  BY <1>2, <1>3, <1>5, <1>6, <1>7, <1>9, <1>10, <1>11 DEF up, st

-----------------------------------------------------------------------------
(* Services only go down, then only come up: PhaseInv is inductive.        *)

LEMMA BeginPhase ==
    ASSUME IInv, PhaseInv, CfSet
    PROVE  PhaseInv'
<1> USE DEF IInv
<1>1. /\ UNCHANGED <<cf, live, backend>> /\ edit'.phase = "down"
      /\ stack' = stack \/ \E k \in Key, g \in BOOLEAN, h \in BOOLEAN : stack' = <<Call(k, g, h)>>
  <2>1. ASSUME NEW p \in Path, NEW ci \in Items(p), CfAdd(p, ci)
        PROVE  UNCHANGED <<cf, live, backend, stack>> /\ edit'.phase = "down"
    BY <2>1 DEF CfAdd
  <2>2. ASSUME NEW k \in Key, NEW ci \in Items(k[1]), CfChange(k, ci)
        PROVE  /\ UNCHANGED <<cf, live, backend>> /\ edit'.phase = "down"
               /\ stack' = <<Call(k, FALSE, TRUE)>>
    BY <2>2 DEF CfChange
  <2>3. ASSUME NEW k \in Key, CfRemove(k)
        PROVE  /\ UNCHANGED <<cf, live, backend>> /\ edit'.phase = "down"
               /\ stack' = <<Call(k, TRUE, FALSE)>>
    BY <2>3 DEF CfRemove
  <2>4. TRUE \in BOOLEAN /\ FALSE \in BOOLEAN
    OBVIOUS
  <2> QED
    BY <2>1, <2>2, <2>3, <2>4, Zenon DEF CfSet
<1>2. stack = <<>>
  BY DEF CfSet, CfAdd, CfChange, CfRemove, Idle, EditInv
<1>3. \A i \in 1 .. Len(stack') : i = 1 /\ ~stack'[i].entered
  <2>1. CASE stack' = stack
    BY <1>2, <2>1
  <2>2. ASSUME NEW k \in Key, NEW g \in BOOLEAN, NEW h \in BOOLEAN, stack' = <<Call(k, g, h)>>
        PROVE  \A i \in 1 .. Len(stack') : i = 1 /\ ~stack'[i].entered
    <3> DEFINE a == Call(k, g, h)
    <3>1. ~a.entered
      BY DEF Call
    <3> HIDE DEF a
    <3>2. stack' = <<a>>
      BY <2>2 DEF a
    <3> QED
      BY <3>1, <3>2
  <2> QED
    BY <1>1, <2>1, <2>2
<1> QED
  BY <1>1, <1>3 DEF PhaseInv, ShutInv, StartInv

LEMMA StateChangePhase ==
    ASSUME IInv, PhaseInv, StateChange
    PROVE  PhaseInv'
<1> USE ConstantsAssumption, AcyclicAssumption DEF IInv
<1> DEFINE n == Len(stack)
           t == Top.key
           up == Dependable(Top)
<1>1. /\ Len(stack') = n /\ n \in Nat /\ n \in 1 .. n
      /\ \A i \in 1 .. n : i # n => stack'[i] = stack[i] /\ stack[i].key # t
      /\ stack'[n].key = t /\ stack'[n].entered
      /\ stack'[n].stop <=> live[t].backed /\ ~up
      /\ Top = stack[n] /\ t \in Key /\ cf[t] # Nil
      /\ live'[t].dependable = up /\ live'[t] # Nil
      /\ \A k \in Key : k # t => live'[k] = live[k]
  BY StateChangeStack
<1>2. stack # <<>> /\ ~Top.entered /\ UNCHANGED <<cf, dependents, edit>>
  BY DEF StateChange
<1>3. \A i \in 1 .. n : stack[i].key \in Key
  BY <1>2, TopFrame
<1>4. /\ up => \A f \in DepFields(t[1]) : Up(DependsOn(t, f))
      /\ Top.going \/ Top.goinvalid => ~up
      /\ ~up => Top.going \/ Top.goinvalid \/ cf[t].disabled \/ \E f \in DepFields(t[1]) : ~Up(DependsOn(t, f))
  BY DEF Dependable, Invalid, AllDependable, DependencyList, DependsOn, Up
<1> HIDE DEF up
<1>5. ShutInv'
  <2> SUFFICES ASSUME edit.phase = "down", NEW i \in 1 .. n
               PROVE  stack'[i].entered /\ ~live'[stack'[i].key].dependable
    BY <1>1, <1>2 DEF ShutInv
  <2>1. ~up
    <3>1. CASE n = 1
      <4>1. Top.going \/ Top.goinvalid
        BY <1>1, <1>2, <3>1 DEF StackInv, Removing
      <4> QED
        BY <1>4, <4>1
    <3>2. CASE n > 1
      BY <1>1, <1>2, <1>4, <3>2 DEF PhaseInv, ShutInv
    <3> QED
      BY <1>1, <3>1, <3>2
  <2>2. CASE i = n
    BY <1>1, <2>1, <2>2
  <2>3. CASE i # n
    <3>1. stack[i].entered
      BY <1>1, <1>2, <2>3 DEF StackInv
    <3>2. ~live[stack[i].key].dependable
      BY <3>1 DEF PhaseInv, ShutInv
    <3> QED
      BY <1>1, <1>3, <2>3, <3>1, <3>2
  <2> QED
    BY <2>2, <2>3
<1>6. StartInv'
  <2> SUFFICES ASSUME edit.phase = "up"
               PROVE  /\ \A i \in 1 .. n : ~stack'[i].stop
                      /\ \A c \in Key : \A f \in DepFields(c[1]) :
                             cf[c] # Nil /\ live'[c].dependable => Up(DependsOn(c, f))'
    BY <1>1, <1>2 DEF StartInv
  <2>1. ~Top.going /\ ~Top.goinvalid
    <3>1. CASE n = 1
      BY <1>1, <1>2, <3>1 DEF StackInv, Removing
    <3>2. CASE n > 1
      BY <1>1, <3>2 DEF StackInv
    <3> QED
      BY <1>1, <3>1, <3>2
  <2>2. /\ \A i \in 1 .. n : ~stack[i].stop
        /\ \A c \in Key : \A f \in DepFields(c[1]) :
               cf[c] # Nil /\ live[c].dependable => Up(DependsOn(c, f))
    BY DEF PhaseInv, StartInv
  <2>3. live[t].dependable => up
    BY <1>1, <1>4, <2>1, <2>2 DEF FlagsInv
  <2>4. ~StopDue(t)
    BY <2>2 DEF StopDue
  <2>5. live[t].backed => up
    BY <1>1, <2>3, <2>4 DEF FlagsInv
  <2>6. \A i \in 1 .. n : ~stack'[i].stop
    BY <1>1, <2>2, <2>5
  <2>7. ASSUME NEW c \in Key, NEW f \in DepFields(c[1]), cf[c] # Nil, live'[c].dependable
        PROVE  Up(DependsOn(c, f))'
    <3>1. DependsOn(c, f)' = DependsOn(c, f) /\ DependsOn(c, f) \in Key
      BY <1>2, <2>7, DependsOnKey DEF DependsOn
    <3>2. Up(DependsOn(c, f))
      <4>1. CASE c = t
        BY <1>1, <1>4, <2>7, <4>1
      <4>2. CASE c # t
        BY <1>1, <2>2, <2>7, <4>2
      <4> QED
        BY <4>1, <4>2
    <3> QED
      BY <1>1, <2>3, <3>1, <3>2 DEF Up, Exists
  <2> QED
    BY <2>6, <2>7
<1> QED
  BY <1>5, <1>6 DEF PhaseInv

LEMMA NotifyPhase ==
    ASSUME IInv, PhaseInv, NEW c \in Key, NEW g \in Field, Notify(c, g)
    PROVE  PhaseInv'
<1> USE ConstantsAssumption, AcyclicAssumption DEF IInv
<1> DEFINE n == Len(stack)
           t == Top.key
<1>1. /\ Len(stack') = n + 1 /\ n \in Nat
      /\ \A i \in 1 .. n : /\ stack'[i].key = stack[i].key
                           /\ stack'[i].entered = stack[i].entered
                           /\ stack'[i].stop = stack[i].stop
      /\ stack'[n + 1] = Call(c, FALSE, FALSE)
  BY NotifyStack
<1>2. /\ stack # <<>> /\ Top.entered /\ <<c, g>> \in Top.todo
      /\ UNCHANGED <<live, dependents, backend, edit>>
      /\ cf' = IF Top.going THEN DependencyChange(c, g, Unknown) ELSE cf
  BY DEF Notify
<1>3. /\ n \in 1 .. n /\ Top = stack[n] /\ t \in Key
      /\ \A i \in 1 .. n : stack[i].key \in Key /\ stack[i].entered
  BY <1>1, <1>2, TopFrame DEF Top, StackInv
<1>4. /\ <<c, g>> \in dependents[t] /\ cf[c] # Nil /\ cf[c] \in Item
      /\ g \in DepFields(c[1]) /\ Parent(c[1], g) = t[1]
      /\ cf[c].dep[g] = t[2] \/ cf[c].dep[g] = Unknown
  <2>1. <<c, g>> \in dependents[t]
    BY <1>2, <1>3 DEF StackInv
  <2> QED
    BY <1>3, <2>1 DEF RegisterInv, TypeOK
<1>5. \A i \in 1 .. n + 1 : i \in 1 .. n \/ i = n + 1
  BY <1>1
<1>6. stack'[n + 1].key = c /\ ~stack'[n + 1].entered /\ ~stack'[n + 1].stop
  BY <1>1 DEF Call
<1>7. ShutInv'
  <2> SUFFICES ASSUME edit.phase = "down"
               PROVE  /\ \A i \in 1 .. n : ~live[stack[i].key].dependable
                      /\ ~Up(DependsOn(c, g))'
    BY <1>1, <1>2, <1>3, <1>4, <1>5, <1>6 DEF ShutInv
  <2>1. \A i \in 1 .. n : ~live[stack[i].key].dependable
    BY <1>3 DEF PhaseInv, ShutInv
  <2>2. cf'[c].dep[g] = t[2] \/ cf'[c].dep[g] = Unknown
    <3>1. CASE Top.going
      <4>1. cf' = [cf EXCEPT ![c].dep[g] = Unknown]
        BY <1>2, <3>1 DEF DependencyChange
      <4> QED
        BY <1>4, <4>1 DEF TypeOK, Item
    <3>2. CASE ~Top.going
      BY <1>2, <1>4, <3>2
    <3> QED
      BY <3>1, <3>2
  <2>3. t = <<t[1], t[2]>>
    BY <1>3 DEF Key
  <2>4. DependsOn(c, g)' = <<t[1], cf'[c].dep[g]>>
    BY <1>4 DEF DependsOn, DependencyOf
  <2>5. DependsOn(c, g)' = t \/ DependsOn(c, g)' = <<t[1], Unknown>>
    BY <2>2, <2>3, <2>4
  <2>6. ~live[t].dependable
    BY <1>3, <2>1
  <2>7. <<t[1], Unknown>> \in Key /\ live[<<t[1], Unknown>>] = Nil
    BY <1>3 DEF TablesInv, Key
  <2>8. ~Up(DependsOn(c, g))'
    BY <1>2, <2>5, <2>6, <2>7 DEF Up, Exists
  <2> QED
    BY <2>1, <2>8
<1>8. StartInv'
  <2> SUFFICES ASSUME edit.phase = "up" PROVE StartInv'
    BY <1>2 DEF StartInv
  <2>1. ~Top.going
    <3>1. CASE n = 1
      BY <1>2, <1>3, <3>1 DEF StackInv, Removing
    <3>2. CASE n > 1
      BY <1>3, <3>2 DEF StackInv
    <3> QED
      BY <1>1, <1>3, <3>1, <3>2, FirstFrame
  <2>2. cf' = cf
    BY <1>2, <2>1
  <2>3. \A d : Up(d)' <=> Up(d)
    BY <1>2 DEF Up, Exists
  <2>4. \A k, f : DependsOn(k, f)' = DependsOn(k, f)
    BY <2>2 DEF DependsOn
  <2>5. \A i \in 1 .. n : ~stack[i].stop
    BY DEF PhaseInv, StartInv
  <2>6. \A i \in 1 .. Len(stack') : ~stack'[i].stop
    BY <1>1, <1>5, <1>6, <2>5
  <2>7. \A k \in Key : \A f \in DepFields(k[1]) :
            cf'[k] # Nil /\ live'[k].dependable => Up(DependsOn(k, f))'
    BY <1>2, <2>2, <2>3, <2>4 DEF PhaseInv, StartInv, Up, Exists, DependsOn
  <2> QED
    BY <2>6, <2>7 DEF StartInv
<1> QED
  BY <1>7, <1>8 DEF PhaseInv

LEMMA ReturnPhase ==
    ASSUME IInv, PhaseInv, Return
    PROVE  PhaseInv'
<1> USE ConstantsAssumption, AcyclicAssumption DEF IInv
<1> DEFINE n == Len(stack)
           t == Top.key
<1>1. /\ Len(stack') = n - 1 /\ n \in Nat
      /\ \A i \in 1 .. Len(stack') : i \in 1 .. n /\ stack'[i] = stack[i]
  BY ReturnStack
<1>2. /\ stack # <<>> /\ Top.entered /\ UNCHANGED <<cf, dependents, edit>>
      /\ IF Top.stop
           THEN live' = [live EXCEPT ![t] = [@ EXCEPT !.backed = FALSE]]
           ELSE live' = live
  BY DEF Return
<1>3. /\ n \in 1 .. n /\ Top = stack[n] /\ t \in Key /\ cf[t] # Nil
      /\ \A i \in 1 .. n : stack[i].key \in Key /\ stack[i].entered
  BY <1>1, <1>2, TopFrame DEF Top, StackInv
<1>4. live[t] \in Live
  BY <1>3 DEF TypeOK, TablesInv
<1>5. \A k \in Key : /\ live'[k].dependable = live[k].dependable
                     /\ live'[k] = Nil <=> live[k] = Nil
  <2>1. CASE Top.stop
    <3> DEFINE z == [live[t] EXCEPT !.backed = FALSE]
    <3>1. z \in Live /\ z.dependable = live[t].dependable
      BY <1>4 DEF Live
    <3>2. z # Nil
      BY <3>1 DEF Live
    <3>3. live' = [live EXCEPT ![t] = z]
      BY <1>2, <2>1
    <3> HIDE DEF z
    <3> QED
      BY <1>3, <1>4, <3>1, <3>2, <3>3 DEF TypeOK, Live
  <2>2. CASE ~Top.stop
    BY <1>2, <2>2
  <2> QED
    BY <2>1, <2>2
<1>6. ShutInv'
  BY <1>1, <1>2, <1>3, <1>5 DEF PhaseInv, ShutInv
<1>7. StartInv'
  <2> SUFFICES ASSUME edit.phase = "up" PROVE StartInv'
    BY <1>2 DEF StartInv
  <2>1. \A k \in Key : Up(k)' <=> Up(k)
    BY <1>5 DEF Up, Exists
  <2>2. ASSUME NEW k \in Key, NEW f \in DepFields(k[1]), cf'[k] # Nil, live'[k].dependable
        PROVE  Up(DependsOn(k, f))'
    <3>1. DependsOn(k, f)' = DependsOn(k, f) /\ DependsOn(k, f) \in Key /\ cf[k] # Nil
      BY <1>2, <2>2, DependsOnKey DEF DependsOn
    <3>2. Up(DependsOn(k, f))
      BY <1>5, <2>2, <3>1 DEF PhaseInv, StartInv
    <3> QED
      BY <2>1, <3>1, <3>2
  <2>3. \A i \in 1 .. Len(stack') : ~stack'[i].stop
    BY <1>1 DEF PhaseInv, StartInv
  <2> QED
    BY <2>2, <2>3 DEF StartInv
<1> QED
  BY <1>6, <1>7 DEF PhaseInv

-----------------------------------------------------------------------------
(* cf_set() between its two phases: the item that moves from key o to m    *)
(* is down, and every other item keeps what it has, but for the new key in *)
(* those that refer to o.                                                  *)
LEMMA InstallFacts ==
    ASSUME IInv, Install, NEW o, NEW m, NEW ci, o = edit.old, m = edit.new, ci = edit.ci
    PROVE  /\ m \in Key /\ m[2] # Unknown /\ o \in Key \cup {Nil}
           /\ o # Nil => cf[o] # Nil
           /\ m = o \/ cf[m] = Nil
           /\ m \notin backend /\ o \notin backend
           /\ cf'[m] # Nil /\ ~live'[m].dependable
           /\ o # m => o = Nil \/ cf'[o] = Nil
           /\ \A d \in Key : dependents'[d] =
                  (IF d = m THEN IF o = Nil THEN {} ELSE dependents[o]
                   ELSE IF d = o THEN {} ELSE dependents[d]) \cup Registrations(m, ci, d)
           /\ \A d \in Key : \A e \in dependents[d] : e[1] # m /\ e[1] # o
           /\ \A c \in Key : c # m /\ c # o =>
                  /\ live'[c] = live[c]
                  /\ cf'[c] = Nil <=> cf[c] = Nil
                  /\ cf[c] # Nil => cf'[c].disabled = cf[c].disabled
                  /\ cf[c] # Nil => \A f \in DepFields(c[1]) :
                         /\ DependsOn(c, f) \in Key /\ DependsOn(c, f)' \in Key
                         /\ DependsOn(c, f)' = IF DependsOn(c, f) = o THEN m ELSE DependsOn(c, f)
                         /\ DependsOn(c, f) = m => m = o
<1> USE ConstantsAssumption, AcyclicAssumption DEF IInv
<1> DEFINE fl == IF o # Nil THEN live[o] ELSE EmptyLive
<1>1. /\ edit.phase = "down" /\ stack = <<>> /\ m # Nil
      /\ cf' = [k \in Key |-> IF k = m THEN ci ELSE IF k = o THEN Nil ELSE Repointed(k)]
      /\ live' = [k \in Key |-> IF k = m THEN fl ELSE IF k = o THEN Nil ELSE live[k]]
      /\ dependents' = [k \in Key |->
             (IF k = m THEN Inherited ELSE IF k = o THEN {} ELSE dependents[k])
             \cup Registrations(m, ci, k)]
  BY DEF Install
<1>2. /\ m \in Key /\ ci \in Item /\ ci # Nil /\ m[2] # Unknown /\ o \in Key \cup {Nil}
      /\ m = o \/ cf[m] = Nil
      /\ o # Nil => o[1] = m[1] /\ cf[o] # Nil /\ live[o] \in Live
  BY <1>1 DEF EditInv, TypeOK, Edit, TablesInv
<1>3. Detached = o /\ Held = o /\ ~Removing
  BY <1>1 DEF Detached, Held, Removing
<1>4. \A c : ~StopDue(c)
  BY <1>1 DEF StopDue
<1>5. /\ ~fl.dependable
      /\ o # Nil => ~live[o].dependable /\ ~live[o].backed
  <2>1. o # Nil => ~live[o].dependable
    BY <1>1, <1>3 DEF HeldInv
  <2>2. o # Nil => ~live[o].backed
    BY <1>2, <1>4, <2>1 DEF FlagsInv
  <2> QED
    BY <2>1, <2>2 DEF EmptyLive
<1>6. m \notin backend /\ o \notin backend
  <2>1. o \notin backend
    BY <1>2, <1>5 DEF BackedIsTrue, TypeOK
  <2> QED
    BY <1>2, <2>1 DEF BackedIsTrue, TablesInv, Exists
<1> HIDE DEF fl
<1>7. /\ cf'[m] = ci /\ live'[m] = fl
      /\ o # m => o = Nil \/ cf'[o] = Nil
      /\ \A k \in Key : k # m /\ k # o => live'[k] = live[k] /\ cf'[k] = Repointed(k)
  BY <1>1, <1>2
<1>8. \A d \in Key : dependents'[d] =
          (IF d = m THEN IF o = Nil THEN {} ELSE dependents[o]
           ELSE IF d = o THEN {} ELSE dependents[d]) \cup Registrations(m, ci, d)
  BY <1>1 DEF Inherited
<1>9. ASSUME NEW d \in Key, NEW e \in dependents[d]
      PROVE  e[1] # m /\ e[1] # o
  <2>1. e = <<e[1], e[2]>> /\ e[1] \in Key /\ e[2] \in Field
    BY <1>9, EntryOf
  <2>2. cf[e[1]] # Nil /\ e[1] # Detached
    BY <1>9, <2>1 DEF RegisterInv
  <2> QED
    BY <1>2, <1>3, <2>2
<1>10. \A k \in Key : cf[k] = Nil => Repointed(k) = Nil
  BY DEF Repointed
<1>11. ASSUME NEW k \in Key, cf[k] # Nil
       PROVE  /\ Repointed(k) \in Item /\ Repointed(k).disabled = cf[k].disabled
              /\ \A f \in Field : Repointed(k).dep[f] =
                    IF o # Nil /\ o # m /\ <<k, f>> \in dependents[o] THEN m[2] ELSE cf[k].dep[f]
  <2>1. cf[k] \in Item
    BY <1>11 DEF TypeOK
  <2>2. CASE MovedFrom # Nil
    <3> DEFINE dp == [f \in Field |-> IF <<k, f>> \in Inherited THEN edit.new[2] ELSE cf[k].dep[f]]
    <3>1. Repointed(k) = [cf[k] EXCEPT !.dep = dp]
      BY <1>11, <2>2 DEF Repointed
    <3>2. dp \in [Field -> Uniq]
      <4>1. edit.new[2] \in Uniq
        BY <1>2 DEF Key
      <4>2. cf[k].dep \in [Field -> Uniq]
        BY <2>1 DEF Item
      <4> QED
        BY <4>1, <4>2
    <3>3. o # Nil /\ o # m /\ Inherited = dependents[o]
      BY <2>2 DEF MovedFrom, Inherited
    <3>4. \A f \in Field : dp[f] = IF <<k, f>> \in dependents[o] THEN m[2] ELSE cf[k].dep[f]
      BY <3>3
    <3> HIDE DEF dp
    <3>5. Repointed(k) \in Item /\ Repointed(k).disabled = cf[k].disabled /\ Repointed(k).dep = dp
      BY <2>1, <3>1, <3>2 DEF Item
    <3> QED
      BY <3>3, <3>4, <3>5
  <2>3. CASE MovedFrom = Nil
    <3>1. Repointed(k) = cf[k] /\ (o = Nil \/ o = m)
      BY <2>3 DEF Repointed, MovedFrom
    <3> QED
      BY <2>1, <3>1
  <2> QED
    BY <2>2, <2>3
<1>12. ASSUME NEW c \in Key, c # m, c # o, cf[c] # Nil, NEW f \in DepFields(c[1])
       PROVE  /\ DependsOn(c, f) \in Key /\ DependsOn(c, f)' \in Key
              /\ DependsOn(c, f)' = IF DependsOn(c, f) = o THEN m ELSE DependsOn(c, f)
              /\ DependsOn(c, f) = m => m = o
  <2>1. f \in Field /\ DependsOn(c, f) \in Key
    BY <1>12, DependsOnKey
  <2>2. cf[c].dep[f] # Unknown => <<c, f>> \in dependents[DependsOn(c, f)]
    BY <1>3, <1>12, <2>1 DEF RegisterInv
  <2>3. DependsOn(c, f) = <<Parent(c[1], f), cf[c].dep[f]>>
    BY DEF DependsOn, DependencyOf
  <2>4. ASSUME DependsOn(c, f) = m PROVE m = o
    <3>1. cf[c].dep[f] = m[2]
      BY <2>3, <2>4
    <3>2. <<c, f>> \in dependents[m]
      BY <1>2, <2>2, <2>4, <3>1
    <3> QED
      BY <1>2, <2>1, <3>2 DEF RegisterInv
  <2>5. ASSUME o # Nil PROVE <<c, f>> \in dependents[o] <=> DependsOn(c, f) = o
    <3>1. o \in Key /\ o[2] # Unknown /\ o = <<o[1], o[2]>>
      BY <1>2, <2>5 DEF TablesInv, Key
    <3>2. DependsOn(c, f) = o => cf[c].dep[f] = o[2]
      BY <2>3
    <3>3. <<c, f>> \in dependents[o] => Parent(c[1], f) = o[1] /\ cf[c].dep[f] = o[2]
      BY <1>3, <2>1, <3>1 DEF RegisterInv
    <3> QED
      BY <2>2, <2>3, <3>1, <3>2, <3>3
  <2>6. cf'[c].dep[f] = IF o # Nil /\ o # m /\ <<c, f>> \in dependents[o] THEN m[2] ELSE cf[c].dep[f]
    BY <1>7, <1>11, <1>12, <2>1
  <2>7. DependsOn(c, f)' = <<Parent(c[1], f), cf'[c].dep[f]>>
    BY DEF DependsOn, DependencyOf
  <2>8. CASE DependsOn(c, f) = o
    <3>1. o # Nil /\ o[1] = Parent(c[1], f) /\ o[1] = m[1] /\ m = <<m[1], m[2]>>
      BY <1>2, <2>1, <2>3, <2>8 DEF Key
    <3>2. o = m => cf[c].dep[f] = m[2]
      BY <2>3, <2>8
    <3>3. cf'[c].dep[f] = m[2]
      BY <2>5, <2>6, <2>8, <3>1, <3>2
    <3> QED
      BY <1>2, <2>1, <2>4, <2>7, <2>8, <3>1, <3>3
  <2>9. CASE DependsOn(c, f) # o
    <3>1. cf'[c].dep[f] = cf[c].dep[f]
      BY <2>5, <2>6, <2>9
    <3> QED
      BY <2>1, <2>3, <2>4, <2>7, <2>9, <3>1
  <2> QED
    BY <2>8, <2>9
<1>13. ASSUME NEW c \in Key, c # m, c # o
       PROVE  /\ live'[c] = live[c]
              /\ cf'[c] = Nil <=> cf[c] = Nil
              /\ cf[c] # Nil => cf'[c].disabled = cf[c].disabled
  BY <1>7, <1>10, <1>11, <1>13
<1> QED
  BY <1>2, <1>5, <1>6, <1>7, <1>8, <1>9, <1>12, <1>13

LEMMA InstallPhase ==
    ASSUME IInv, PhaseInv, Install
    PROVE  PhaseInv'
<1> USE ConstantsAssumption, AcyclicAssumption DEF IInv
<1> DEFINE o == edit.old
           m == edit.new
<1>1. /\ m \in Key /\ o \in Key \cup {Nil}
      /\ o # Nil => cf[o] # Nil
      /\ m = o \/ cf[m] = Nil
      /\ ~live'[m].dependable
      /\ o # m => o = Nil \/ cf'[o] = Nil
      /\ \A c \in Key : c # m /\ c # o =>
             /\ live'[c] = live[c]
             /\ cf'[c] = Nil <=> cf[c] = Nil
             /\ cf[c] # Nil => \A f \in DepFields(c[1]) :
                    /\ DependsOn(c, f) \in Key
                    /\ DependsOn(c, f)' = IF DependsOn(c, f) = o THEN m ELSE DependsOn(c, f)
                    /\ DependsOn(c, f) = m => m = o
  BY InstallFacts
<1>2. /\ edit.phase = "down" /\ stack = <<>> /\ m # Nil
      /\ stack' = <<Call(m, FALSE, FALSE)>>
      /\ edit' = [edit EXCEPT !.phase = "up"]
  BY DEF Install
<1>3. edit'.phase = "up"
  BY <1>2 DEF TypeOK, Edit
<1>4. \A i \in 1 .. Len(stack') : ~stack'[i].stop
  <2> DEFINE a == Call(m, FALSE, FALSE)
  <2>1. ~a.stop
    BY DEF Call
  <2> HIDE DEF a
  <2>2. stack' = <<a>>
    BY <1>2 DEF a
  <2> QED
    BY <2>1, <2>2
<1>5. \A c, f, d : ~Owed(c, f, d) /\ ~Called(c)
  BY <1>2 DEF Owed, Called
<1>6. o # Nil => ~Up(o)
  BY <1>2 DEF HeldInv, Held, Up
<1>7. ASSUME NEW c \in Key, NEW f \in DepFields(c[1]), cf'[c] # Nil, live'[c].dependable
      PROVE  Up(DependsOn(c, f))'
  <2>1. c # m /\ c # o /\ cf[c] # Nil /\ live[c].dependable
    BY <1>1, <1>7
  <2>2. Up(DependsOn(c, f))
    BY <1>5, <2>1 DEF DownInv
  <2>3. DependsOn(c, f) \in Key /\ DependsOn(c, f) # o
    BY <1>1, <1>6, <2>1, <2>2
  <2>4. DependsOn(c, f)' = DependsOn(c, f) /\ DependsOn(c, f) # m
    BY <1>1, <2>1, <2>3
  <2>5. live'[DependsOn(c, f)] = live[DependsOn(c, f)]
    BY <1>1, <2>3, <2>4
  <2> QED
    BY <2>2, <2>4, <2>5 DEF Up, Exists
<1> QED
  BY <1>3, <1>4, <1>7 DEF PhaseInv, ShutInv, StartInv

(* PhaseInv holds in every reachable state.                                *)
THEOREM Phases == ASSUME Disciplined PROVE Spec => []PhaseInv
<1>1. Init => PhaseInv
  BY DEF Init, NoEdit, PhaseInv, ShutInv, StartInv
<1>2. IInv /\ PhaseInv /\ [Next]_vars => PhaseInv'
  <2> SUFFICES ASSUME IInv, PhaseInv, [Next]_vars PROVE PhaseInv'
    OBVIOUS
  <2>1. CASE CfSet
    BY <2>1, BeginPhase
  <2>2. CASE StateChange \/ Return \/ Install
    BY <2>2, StateChangePhase, ReturnPhase, InstallPhase
  <2>3. ASSUME NEW c \in Key, NEW f \in Field, Notify(c, f) PROVE PhaseInv'
    BY <2>3, NotifyPhase
  <2>4. CASE Delete \/ Finish
    BY <2>4 DEF Delete, Finish, NoEdit, PhaseInv, ShutInv, StartInv
  <2>5. CASE UNCHANGED vars
    BY <2>5 DEF vars, PhaseInv, ShutInv, StartInv, Up, Exists, DependsOn
  <2> QED
    BY <2>1, <2>2, <2>3, <2>4, <2>5 DEF Next, Step
<1> QED
  BY <1>1, <1>2, Invariance, PTL DEF Spec

-----------------------------------------------------------------------------
(* The refinement mapping, in terms of items and fields.                   *)

Registered(c, d) == \E f \in Field : <<c, f>> \in dependents[d]

\* What the item of the call needs while it goes down.
Holding(c, d) ==
    /\ edit.phase = "down" /\ edit.old # Nil /\ c = edit.old
    /\ cf[d] # Nil /\ \E f \in DepFields(c[1]) : DependsOn(c, f) = d

NeedsAre ==
    \A x : x \in Needs <=> \E c \in Key, d \in Key :
                               x = <<c, d>> /\ (Registered(c, d) \/ Holding(c, d))

WantedAre ==
    \A k \in Key : k \in Wanted <=>
        /\ cf[k] # Nil /\ ~cf[k].disabled
        /\ \A f \in DepFields(k[1]) : cf[DependsOn(k, f)] # Nil

LEMMA MappingFacts == IInv => NeedsAre /\ WantedAre /\ Wanted \subseteq Key
<1> SUFFICES ASSUME IInv PROVE NeedsAre /\ WantedAre /\ Wanted \subseteq Key
  OBVIOUS
<1> USE ConstantsAssumption, AcyclicAssumption DEF IInv
<1>1. WantedAre /\ Wanted \subseteq Key
  BY DEF WantedAre, Wanted, DependencyList, DependsOn
<1>2. NeedsAre
  <2> SUFFICES ASSUME NEW x
               PROVE  x \in Needs <=> \E c \in Key, d \in Key :
                                          x = <<c, d>> /\ (Registered(c, d) \/ Holding(c, d))
    BY DEF NeedsAre
  <2>1. (\E d \in Key : \E e \in dependents[d] : x = <<e[1], d>>)
            <=> \E c \in Key, d \in Key : x = <<c, d>> /\ Registered(c, d)
    <3>1. ASSUME NEW d \in Key, NEW e \in dependents[d], x = <<e[1], d>>
          PROVE  \E c \in Key, dd \in Key : x = <<c, dd>> /\ Registered(c, dd)
      <4>1. e = <<e[1], e[2]>> /\ e[1] \in Key /\ e[2] \in Field
        BY <3>1, EntryOf
      <4>2. Registered(e[1], d)
        BY <3>1, <4>1 DEF Registered
      <4> QED
        BY <3>1, <4>1, <4>2
    <3>2. ASSUME NEW c \in Key, NEW d \in Key, x = <<c, d>>, Registered(c, d)
          PROVE  \E dd \in Key : \E e \in dependents[dd] : x = <<e[1], dd>>
      <4>1. PICK f \in Field : <<c, f>> \in dependents[d]
        BY <3>2 DEF Registered
      <4>2. <<c, f>>[1] = c
        OBVIOUS
      <4> QED
        BY <3>2, <4>1, <4>2
    <3> QED
      BY <3>1, <3>2
  <2>2. x \in RegisteredNeeds <=> \E d \in Key : \E e \in dependents[d] : x = <<e[1], d>>
    BY DEF RegisteredNeeds
  <2>3. x \in HeldNeeds <=> \E c \in Key, d \in Key : x = <<c, d>> /\ Holding(c, d)
    <3>1. CASE edit.phase = "down" /\ edit.old # Nil
      <4>1. edit.old \in Key /\ cf[edit.old] # Nil
        BY <3>1 DEF EditInv, TypeOK, Edit
      <4>2. \A d : d \in DependencyList(edit.old[1], cf[edit.old])
                       <=> \E f \in DepFields(edit.old[1]) : DependsOn(edit.old, f) = d
        BY DEF DependencyList, DependsOn
      <4>3. \A f \in DepFields(edit.old[1]) : DependsOn(edit.old, f) \in Key
        BY <4>1, DependsOnKey
      <4> QED
        BY <3>1, <4>1, <4>2, <4>3 DEF HeldNeeds, Holding
    <3>2. CASE ~(edit.phase = "down" /\ edit.old # Nil)
      BY <3>2 DEF HeldNeeds, Holding
    <3> QED
      BY <3>1, <3>2
  <2> QED
    BY <2>1, <2>2, <2>3 DEF Needs
<1> QED
  BY <1>1, <1>2

\* The same after the step.
LEMMA MappingFactsNext == IInv' => NeedsAre' /\ WantedAre' /\ (Wanted \subseteq Key)'
BY MappingFacts, PTL

\* A registration names a reference, but for the item that is being removed.
LEMMA RegisteredFacts ==
    ASSUME IInv, NEW c \in Key, NEW d \in Key, Registered(c, d)
    PROVE  /\ cf[c] # Nil /\ cf[d] # Nil /\ c # Detached /\ c # d
           /\ Rank(d[1]) < Rank(c[1])
           /\ ~Removing => \E f \in DepFields(c[1]) : DependsOn(c, f) = d
<1> USE AcyclicAssumption DEF IInv
<1>1. PICK f \in Field : <<c, f>> \in dependents[d]
  BY DEF Registered
<1>2. /\ cf[d] # Nil /\ cf[c] # Nil /\ c # Detached
      /\ f \in DepFields(c[1]) /\ Parent(c[1], f) = d[1]
      /\ ~Removing => cf[c].dep[f] = d[2]
  BY <1>1 DEF RegisterInv
<1>3. d = <<d[1], d[2]>> /\ c[1] \in Path
  BY DEF Key
<1>4. Rank(d[1]) < Rank(c[1]) /\ Rank(d[1]) \in Nat /\ Rank(c[1]) \in Nat
  BY <1>2, <1>3
<1>5. ~Removing => DependsOn(c, f) = d
  BY <1>2, <1>3 DEF DependsOn, DependencyOf
<1> QED
  BY <1>2, <1>4, <1>5

\* And the other way round.
LEMMA ReferenceRegistered ==
    ASSUME IInv, NEW c \in Key, cf[c] # Nil, c # Detached,
           NEW f \in DepFields(c[1]), cf[DependsOn(c, f)] # Nil
    PROVE  Registered(c, DependsOn(c, f)) /\ DependsOn(c, f) \in Key
<1> USE AcyclicAssumption DEF IInv
<1>1. f \in Field /\ DependsOn(c, f) \in Key
  BY DependsOnKey
<1>2. cf[c].dep[f] # Unknown
  <2>1. DependsOn(c, f) = <<Parent(c[1], f), cf[c].dep[f]>> /\ Parent(c[1], f) \in Path
    BY DEF DependsOn, DependencyOf, Key
  <2> QED
    BY <2>1 DEF TablesInv
<1> QED
  BY <1>1, <1>2 DEF RegisterInv, Registered

(* With nothing on the stack and no item on its way down, the back-ends    *)
(* that are up are those that can be.                                      *)
LEMMA BalancedAtEnd ==
    IInv /\ stack = <<>> /\ edit.phase # "down" => Promise!Balanced
<1> SUFFICES ASSUME IInv, stack = <<>>, edit.phase # "down"
             PROVE  Promise!Balanced
  OBVIOUS
<1> USE ConstantsAssumption, AcyclicAssumption DEF IInv
<1>1. NeedsAre /\ WantedAre /\ Wanted \subseteq Key
  BY MappingFacts
<1>2. \A c, f, d : ~Owed(c, f, d) /\ ~Pending(c) /\ ~Called(c) /\ ~StopDue(c)
  BY DEF Owed, Pending, Called, StopDue
<1>3. Held = Nil /\ ~Removing /\ Detached = Nil
  BY DEF Held, Removing, Detached
<1>4. ASSUME NEW k \in Key, cf[k] # Nil
      PROVE  /\ live[k].dependable <=>
                    ~cf[k].disabled /\ \A f \in DepFields(k[1]) : Up(DependsOn(k, f))
             /\ k \in backend <=> live[k].dependable
             /\ Exists(k)
  <2>1. live[k].dependable => ~cf[k].disabled /\ \A f \in DepFields(k[1]) : Up(DependsOn(k, f))
    BY <1>2, <1>4 DEF DownInv, FlagsInv
  <2>2. ~cf[k].disabled /\ (\A f \in DepFields(k[1]) : Up(DependsOn(k, f))) => live[k].dependable
    BY <1>2, <1>3, <1>4 DEF UpInv
  <2>3. (k \in backend <=> live[k].dependable) /\ Exists(k)
    BY <1>2, <1>4 DEF FlagsInv, BackedIsTrue, TablesInv, Exists
  <2> QED
    BY <2>1, <2>2, <2>3
<1>5. \A k \in Key : Up(k) <=> k \in backend
  BY <1>4 DEF Up, BackedIsTrue, TablesInv, Exists
<1>6. \A k \in backend : k \in Key /\ cf[k] # Nil
  BY DEF TypeOK, BackedIsTrue, TablesInv, Exists
<1>7. \A c, d : ~Holding(c, d)
  BY DEF Holding
<1>8. ASSUME NEW k \in backend
      PROVE  k \in Wanted /\ \A x \in Needs : x[1] = k => x[2] \in backend
  <2>1. k \in Key /\ cf[k] # Nil /\ ~cf[k].disabled
        /\ \A f \in DepFields(k[1]) : Up(DependsOn(k, f)) /\ DependsOn(k, f) \in Key
    BY <1>4, <1>6, <1>8, DependsOnKey
  <2>2. \A f \in DepFields(k[1]) : DependsOn(k, f) \in backend /\ cf[DependsOn(k, f)] # Nil
    BY <1>5, <1>6, <2>1
  <2>3. k \in Wanted
    BY <1>1, <2>1, <2>2 DEF WantedAre
  <2>4. ASSUME NEW x \in Needs, x[1] = k PROVE x[2] \in backend
    <3>1. PICK c \in Key, d \in Key : x = <<c, d>> /\ Registered(c, d)
      BY <1>1, <1>7, <2>4 DEF NeedsAre
    <3>2. c = k /\ x[2] = d
      BY <2>4, <3>1
    <3> QED
      BY <1>3, <2>2, <3>1, <3>2, RegisteredFacts
  <2> QED
    BY <2>3, <2>4
<1>9. ASSUME NEW k \in Wanted, \A x \in Needs : x[1] = k => x[2] \in backend
      PROVE  k \in backend
  <2>1. k \in Key /\ cf[k] # Nil /\ ~cf[k].disabled
        /\ \A f \in DepFields(k[1]) : cf[DependsOn(k, f)] # Nil
    BY <1>1, <1>9 DEF WantedAre
  <2>2. ASSUME NEW f \in DepFields(k[1]) PROVE Up(DependsOn(k, f))
    <3> DEFINE d == DependsOn(k, f)
    <3>1. Registered(k, d) /\ d \in Key
      BY <1>3, <2>1, <2>2, ReferenceRegistered
    <3>2. <<k, d>> \in Needs
      BY <1>1, <2>1, <3>1 DEF NeedsAre
    <3>3. <<k, d>>[1] = k /\ <<k, d>>[2] = d
      OBVIOUS
    <3>4. d \in backend
      BY <1>9, <3>2, <3>3
    <3> QED
      BY <1>5, <3>1, <3>4
  <2> QED
    BY <1>4, <2>1, <2>2
<1>10. \A k : k \in Promise!Lacking <=> \E x \in Needs : x[1] = k /\ x[2] \notin backend
  BY DEF Promise!Lacking
<1>11. \A k : k \in backend <=> k \in Wanted \ Promise!Lacking
  BY <1>8, <1>9, <1>10
<1> QED
  BY <1>11 DEF Promise!Balanced

-----------------------------------------------------------------------------
(* Step by step: each action of the engine is an action of the supervisor, *)
(* or changes nothing it sees.                                             *)

\* A call begins: what the item of the call needs is now told by its fields.
LEMMA BeginRefines ==
    ASSUME Disciplined, IInv, IInv', CfSet
    PROVE  Promise!Begin
<1> USE ConstantsAssumption, AcyclicAssumption DEF IInv
<1>1. NeedsAre /\ NeedsAre'
  BY MappingFacts, MappingFactsNext
<1>2. UNCHANGED <<cf, backend>> /\ edit.phase = "idle" /\ edit'.phase = "down"
  <2>1. ASSUME NEW p \in Path, NEW ci \in Items(p), CfAdd(p, ci)
        PROVE  UNCHANGED <<cf, backend>> /\ edit.phase = "idle" /\ edit'.phase = "down"
    BY <2>1 DEF CfAdd, Idle
  <2>2. ASSUME NEW k \in Key, NEW ci \in Items(k[1]), CfChange(k, ci)
        PROVE  UNCHANGED <<cf, backend>> /\ edit.phase = "idle" /\ edit'.phase = "down"
    BY <2>2 DEF CfChange, Idle
  <2>3. ASSUME NEW k \in Key, CfRemove(k)
        PROVE  UNCHANGED <<cf, backend>> /\ edit.phase = "idle" /\ edit'.phase = "down"
    BY <2>3 DEF CfRemove, Idle
  <2> QED
    BY <2>1, <2>2, <2>3 DEF CfSet
<1>3. ~Removing /\ Detached = Nil /\ \A c, d : ~Holding(c, d)
  BY <1>2 DEF Removing, Detached, Holding
<1>4. ASSUME NEW c \in Key, NEW d \in Key
      PROVE  (Registered(c, d) \/ Holding(c, d))' <=> Registered(c, d)
  <2>1. ASSUME dependents' = dependents, edit'.old = Nil
        PROVE  (Registered(c, d) \/ Holding(c, d))' <=> Registered(c, d)
    BY <2>1 DEF Registered, Holding
  <2>2. ASSUME NEW k \in Key, Exists(k), edit'.old = k, Unregister(k)
        PROVE  (Registered(c, d) \/ Holding(c, d))' <=> Registered(c, d)
    <3>1. cf[k] # Nil /\ k # Nil
      BY <2>2 DEF TablesInv, Exists
    <3>2. dependents'[d] = dependents[d] \ Registrations(k, cf[k], d)
      BY <2>2 DEF Unregister
    <3>3. CASE c # k
      <4>1. \A f : <<c, f>> \notin Registrations(k, cf[k], d)
        BY <3>3 DEF Registrations
      <4>2. Registered(c, d)' <=> Registered(c, d)
        BY <3>2, <4>1 DEF Registered
      <4> QED
        BY <2>2, <3>3, <4>2 DEF Holding
    <3>4. CASE c = k
      <4>1. Registered(c, d) => Holding(c, d)'
        <5> SUFFICES ASSUME Registered(c, d) PROVE Holding(c, d)'
          OBVIOUS
        <5>1. cf[d] # Nil /\ \E f \in DepFields(c[1]) : DependsOn(c, f) = d
          BY <1>3, RegisteredFacts
        <5> QED
          BY <1>2, <2>2, <3>1, <3>4, <5>1 DEF Holding, DependsOn
      <4>2. Holding(c, d)' => Registered(c, d)
        <5> SUFFICES ASSUME Holding(c, d)' PROVE Registered(c, d)
          OBVIOUS
        <5>1. cf[d] # Nil /\ \E f \in DepFields(c[1]) : DependsOn(c, f) = d
          BY <1>2 DEF Holding, DependsOn
        <5> QED
          BY <1>3, <3>1, <3>4, <5>1, ReferenceRegistered
      <4>3. Registered(c, d)' => Registered(c, d)
        BY <3>2 DEF Registered
      <4> QED
        BY <4>1, <4>2, <4>3
    <3> QED
      BY <3>3, <3>4
  <2>3. \/ dependents' = dependents /\ edit'.old = Nil
        \/ \E k \in Key : Exists(k) /\ edit'.old = k /\ Unregister(k)
    <3>1. ASSUME NEW p \in Path, NEW ci \in Items(p), CfAdd(p, ci)
          PROVE  dependents' = dependents /\ edit'.old = Nil
      BY <3>1 DEF CfAdd
    <3>2. ASSUME NEW k \in Key, NEW ci \in Items(k[1]), CfChange(k, ci)
          PROVE  Exists(k) /\ edit'.old = k /\ Unregister(k)
      BY <3>2 DEF CfChange
    <3>3. ASSUME NEW k \in Key, CfRemove(k)
          PROVE  Exists(k) /\ edit'.old = k /\ Unregister(k)
      BY <3>3 DEF CfRemove
    <3> QED
      BY <3>1, <3>2, <3>3 DEF CfSet
  <2> QED
    BY <2>1, <2>2, <2>3
<1>5. Needs' = Needs
  <2>1. \A x : x \in Needs' <=> x \in Needs
    BY <1>1, <1>3, <1>4 DEF NeedsAre
  <2> QED
    BY <2>1
<1>6. Wanted' = Wanted
  BY <1>2 DEF Wanted
<1> QED
  BY <1>2, <1>5, <1>6 DEF Promise!Begin

\* state_change() looks at an item: nothing, or it starts the back-end, in
\* the second phase only and with everything it needs up.
LEMMA StateChangeRefines ==
    ASSUME IInv, IInv', PhaseInv, PhaseInv', StateChange
    PROVE  (\E k \in Key : Promise!Start(k)) \/ UNCHANGED Promise!state
<1> USE ConstantsAssumption, AcyclicAssumption DEF IInv
<1> DEFINE t == Top.key
           up == Dependable(Top)
<1>1. /\ UNCHANGED <<cf, dependents, edit>> /\ stack # <<>>
      /\ backend' = IF up /\ ~live[t].backed THEN backend \cup {t} ELSE backend
  BY DEF StateChange
<1>2. Needs' = Needs /\ Wanted' = Wanted
  BY <1>1 DEF Needs, RegisteredNeeds, HeldNeeds, Wanted
<1>3. CASE ~(up /\ ~live[t].backed)
  BY <1>1, <1>2, <1>3 DEF Promise!state
<1>4. CASE up /\ ~live[t].backed
  <2>1. /\ t \in Key /\ cf[t] # Nil /\ Len(stack) \in 1 .. Len(stack) /\ Len(stack') = Len(stack)
        /\ stack'[Len(stack)].key = t /\ stack'[Len(stack)].entered
        /\ live'[t].dependable = up
    BY StateChangeStack
  <2>2. edit.phase = "up"
    <3>1. edit.phase # "down"
      BY <1>1, <1>4, <2>1 DEF PhaseInv, ShutInv
    <3>2. edit.phase # "idle"
      BY <1>1 DEF EditInv
    <3> QED
      BY <3>1, <3>2 DEF TypeOK, Edit
  <2>3. ~cf[t].disabled /\ \A f \in DepFields(t[1]) : Up(DependsOn(t, f))
    BY <1>4 DEF Dependable, Invalid, AllDependable, DependencyList, DependsOn, Up
  <2>4. ASSUME NEW f \in DepFields(t[1])
        PROVE  cf[DependsOn(t, f)] # Nil /\ DependsOn(t, f) \in backend
    <3>1. DependsOn(t, f) \in Key
      BY <2>1, <2>4, DependsOnKey
    <3>2. Up(DependsOn(t, f))
      BY <2>3, <2>4
    <3> QED
      BY <3>1, <3>2 DEF Up, Exists, TablesInv, FlagsInv, BackedIsTrue
  <2>5. t \in Wanted
    <3>1. WantedAre
      BY MappingFacts
    <3> QED
      BY <2>1, <2>3, <2>4, <3>1 DEF WantedAre
  <2>6. t \notin backend
    BY <1>4, <2>1 DEF BackedIsTrue
  <2>7. t \notin Promise!Lacking
    <3> SUFFICES ASSUME NEW x \in Needs, x[1] = t PROVE x[2] \in backend
      BY DEF Promise!Lacking
    <3>1. NeedsAre
      BY MappingFacts
    <3>2. \A c, d : ~Holding(c, d)
      BY <2>2 DEF Holding
    <3>3. PICK c \in Key, d \in Key : x = <<c, d>> /\ Registered(c, d)
      BY <3>1, <3>2 DEF NeedsAre
    <3>4. c = t /\ x[2] = d
      BY <3>3
    <3>5. ~Removing
      BY <2>2 DEF Removing
    <3> QED
      BY <2>4, <3>3, <3>4, <3>5, RegisteredFacts
  <2>8. Promise!Start(t)
    BY <1>1, <1>2, <1>4, <2>2, <2>5, <2>6, <2>7 DEF Promise!Start
  <2> QED
    BY <2>1, <2>8
<1> QED
  BY <1>3, <1>4

\* A dependent of a removed item is given up, else nothing is to be seen.
LEMMA NotifyRefines ==
    ASSUME IInv, IInv', NEW c \in Key, NEW g \in Field, Notify(c, g)
    PROVE  Promise!GiveUp \/ UNCHANGED Promise!state
<1> USE ConstantsAssumption, AcyclicAssumption DEF IInv
<1> DEFINE t == Top.key
<1>1. /\ stack # <<>> /\ <<c, g>> \in Top.todo
      /\ UNCHANGED <<live, dependents, backend, edit>>
      /\ cf' = IF Top.going THEN DependencyChange(c, g, Unknown) ELSE cf
  BY DEF Notify
<1>2. CASE ~Top.going
  <2>1. cf' = cf
    BY <1>1, <1>2
  <2>2. Needs' = Needs /\ Wanted' = Wanted
    BY <1>1, <2>1 DEF Needs, RegisteredNeeds, HeldNeeds, Wanted
  <2> QED
    BY <1>1, <2>2 DEF Promise!state
<1>3. CASE Top.going
  <2>1. Len(stack) \in Nat /\ Len(stack) \in 1 .. Len(stack) /\ Top = stack[Len(stack)] /\ t \in Key
    BY <1>1, TopFrame DEF Top
  <2>2. edit.phase = "down"
    <3>1. Len(stack) = 1
      BY <1>3, <2>1, FirstFrame DEF StackInv
    <3> QED
      BY <1>1, <1>3, <2>1, <3>1 DEF StackInv, Removing
  <2>3. <<c, g>> \in dependents[t]
    BY <1>1, <2>1 DEF StackInv
  <2>4. /\ cf[c] \in Item /\ cf[c] # Nil /\ c # Detached
        /\ g \in DepFields(c[1]) /\ Parent(c[1], g) = t[1]
    BY <2>1, <2>3 DEF RegisterInv, TypeOK
  <2>5. cf' = [cf EXCEPT ![c].dep[g] = Unknown]
    BY <1>1, <1>3 DEF DependencyChange
  <2>6. \A k \in Key : k # c => cf'[k] = cf[k]
    BY <2>5 DEF TypeOK
  <2>7. cf'[c] \in Item /\ cf'[c] # Nil /\ cf'[c].dep[g] = Unknown
    <3> DEFINE z == [cf[c] EXCEPT !.dep[g] = Unknown]
    <3>1. z \in Item /\ z.dep[g] = Unknown
      BY <2>4 DEF Item
    <3>2. cf'[c] = z
      BY <2>5 DEF TypeOK
    <3> QED
      BY <3>1, <3>2
  <2>8. \A k \in Key : cf'[k] = Nil <=> cf[k] = Nil
    BY <2>4, <2>6, <2>7
  <2>9. NeedsAre /\ NeedsAre' /\ WantedAre /\ WantedAre' /\ (Wanted \subseteq Key)'
    BY MappingFacts, MappingFactsNext
  <2>10. ASSUME NEW k \in Key, NEW d \in Key
         PROVE  (Registered(k, d) \/ Holding(k, d))' <=> Registered(k, d) \/ Holding(k, d)
    <3>1. Registered(k, d)' <=> Registered(k, d)
      BY <1>1 DEF Registered
    <3>2. Holding(k, d)' <=> Holding(k, d)
      <4>1. k = edit.old => k # c
        BY <2>2, <2>4 DEF Detached
      <4>2. k = edit.old => \A f : DependsOn(k, f)' = DependsOn(k, f)
        BY <2>6, <4>1 DEF DependsOn
      <4> QED
        BY <1>1, <2>8, <4>2 DEF Holding
    <3> QED
      BY <3>1, <3>2
  <2>11. Needs' = Needs
    <3>1. \A x : x \in Needs' <=> x \in Needs
      BY <2>9, <2>10 DEF NeedsAre
    <3> QED
      BY <3>1
  <2>12. c \notin Wanted'
    <3>1. DependsOn(c, g)' = <<t[1], Unknown>>
      BY <2>4, <2>7 DEF DependsOn, DependencyOf
    <3>2. cf'[<<t[1], Unknown>>] = Nil
      BY <2>1 DEF TablesInv, Key
    <3> QED
      BY <2>4, <2>9, <3>1, <3>2 DEF WantedAre
  <2>13. \A k \in Key : k # c => (k \in Wanted' => k \in Wanted)
    <3> SUFFICES ASSUME NEW k \in Key, k # c, k \in Wanted' PROVE k \in Wanted
      OBVIOUS
    <3>1. cf[k] # Nil /\ ~cf[k].disabled
      BY <2>6, <2>9 DEF WantedAre
    <3>2. ASSUME NEW f \in DepFields(k[1]) PROVE cf[DependsOn(k, f)] # Nil
      <4>1. DependsOn(k, f)' = DependsOn(k, f) /\ DependsOn(k, f) \in Key
        BY <2>6, <3>1, <3>2, DependsOnKey DEF DependsOn
      <4>2. cf'[DependsOn(k, f)'] # Nil
        BY <2>9, <3>2 DEF WantedAre
      <4> QED
        BY <2>8, <4>1, <4>2
    <3> QED
      BY <2>9, <3>1, <3>2 DEF WantedAre
  <2>14. Wanted' \subseteq Wanted
    BY <2>9, <2>12, <2>13
  <2> QED
    BY <1>1, <2>2, <2>11, <2>14 DEF Promise!GiveUp
<1> QED
  BY <1>2, <1>3

\* state_change() returns: nothing, or it stops the back-end, in the first
\* phase only and with nobody up who needs it.
LEMMA ReturnRefines ==
    ASSUME IInv, IInv', PhaseInv, Return
    PROVE  (\E k \in Key : Promise!Stop(k)) \/ UNCHANGED Promise!state
<1> USE ConstantsAssumption, AcyclicAssumption DEF IInv
<1> DEFINE t == Top.key
<1>1. /\ UNCHANGED <<cf, dependents, edit>> /\ stack # <<>>
      /\ Top.stop => backend' = backend \ {t}
      /\ ~Top.stop => backend' = backend
  BY DEF Return
<1>2. Needs' = Needs /\ Wanted' = Wanted
  BY <1>1 DEF Needs, RegisteredNeeds, HeldNeeds, Wanted
<1>3. CASE ~Top.stop
  BY <1>1, <1>2, <1>3 DEF Promise!state
<1>4. CASE Top.stop
  <2>1. Len(stack) \in Nat /\ Len(stack) \in 1 .. Len(stack) /\ Top = stack[Len(stack)] /\ t \in Key
    BY <1>1, TopFrame DEF Top
  <2>2. edit.phase = "down"
    <3>1. edit.phase # "up"
      BY <1>4, <2>1 DEF PhaseInv, StartInv
    <3>2. edit.phase # "idle"
      BY <1>1 DEF EditInv
    <3> QED
      BY <3>1, <3>2 DEF TypeOK, Edit
  <2>3. t \in backend
    <3>1. cf[t] # Nil /\ StopDue(t)
      BY <1>4, <2>1 DEF StackInv, StopDue
    <3> QED
      BY <2>1, <3>1 DEF FlagsInv, BackedIsTrue, TablesInv, Exists
  <2>4. ASSUME NEW x \in Needs, x[2] = t PROVE x[1] \notin backend
    <3>1. NeedsAre
      BY MappingFacts
    <3>2. PICK c \in Key, d \in Key : x = <<c, d>> /\ (Registered(c, d) \/ Holding(c, d))
      BY <2>4, <3>1 DEF NeedsAre
    <3>3. x[1] = c /\ d = t
      BY <2>4, <3>2
    <3>4. CASE Registered(c, d)
      <4>1. c # t
        BY <3>3, <3>4, RegisteredFacts
      <4>2. PICK f \in Field : <<c, f>> \in dependents[t]
        BY <3>3, <3>4 DEF Registered
      <4>3. <<c, f>>[1] = c
        OBVIOUS
      <4>4. c \notin backend'
        BY <1>1, <1>4, <2>1, <4>2, <4>3 DEF BackendOrder
      <4> QED
        BY <1>1, <1>4, <3>3, <4>1, <4>4
    <3>5. CASE Holding(c, d)
      <4>1. c = edit.old /\ \E f \in DepFields(c[1]) : DependsOn(c, f) = t
        BY <3>3, <3>5 DEF Holding
      <4>2. Rank(t[1]) < Rank(c[1]) /\ c[1] \in Path /\ t[1] \in Path
        BY <2>1, <4>1 DEF DependsOn, DependencyOf, Key
      <4>3. 1 \in 1 .. Len(stack) /\ stack[1].key = c
        BY <1>1, <2>1, <2>2, <4>1 DEF StackInv
      <4>4. Rank(c[1]) <= Rank(t[1])
        BY <1>1, <4>3, StackKeys
      <4> QED
        BY <4>2, <4>4
    <3> QED
      BY <3>2, <3>4, <3>5
  <2>5. Promise!Stop(t)
    BY <1>1, <1>2, <1>4, <2>2, <2>3, <2>4 DEF Promise!Stop
  <2> QED
    BY <2>1, <2>5
<1> QED
  BY <1>3, <1>4

\* The item is put in its place: it is rewired while it is down.
LEMMA InstallRefines ==
    ASSUME IInv, IInv', Install
    PROVE  \E old \in Key, new \in Key : Promise!Change(old, new)
<1> USE ConstantsAssumption, AcyclicAssumption DEF IInv
<1>0. PICK o, m, ci : o = edit.old /\ m = edit.new /\ ci = edit.ci
  OBVIOUS
<1> DEFINE old == IF o = Nil THEN m ELSE o
<1>1. /\ m \in Key /\ m[2] # Unknown /\ o \in Key \cup {Nil}
      /\ o # Nil => cf[o] # Nil
      /\ m = o \/ cf[m] = Nil
      /\ m \notin backend /\ o \notin backend
      /\ cf'[m] # Nil
      /\ o # m => o = Nil \/ cf'[o] = Nil
      /\ \A d \in Key : dependents'[d] =
             (IF d = m THEN IF o = Nil THEN {} ELSE dependents[o]
              ELSE IF d = o THEN {} ELSE dependents[d]) \cup Registrations(m, ci, d)
      /\ \A c \in Key : c # m /\ c # o =>
             /\ cf'[c] = Nil <=> cf[c] = Nil
             /\ cf[c] # Nil => cf'[c].disabled = cf[c].disabled
             /\ cf[c] # Nil => \A f \in DepFields(c[1]) :
                    /\ DependsOn(c, f) \in Key
                    /\ DependsOn(c, f)' = IF DependsOn(c, f) = o THEN m ELSE DependsOn(c, f)
                    /\ DependsOn(c, f) = m => m = o
  BY <1>0, InstallFacts
<1>2. edit.phase = "down" /\ edit'.phase = "up" /\ backend' = backend
  BY DEF Install, TypeOK, Edit
<1>3. old \in Key /\ old \notin backend
  BY <1>1
<1>4. NeedsAre /\ NeedsAre' /\ WantedAre /\ WantedAre' /\ Wanted \subseteq Key /\ (Wanted \subseteq Key)'
  BY MappingFacts, MappingFactsNext
<1>5. \A c, d : ~Holding(c, d)' /\ (Holding(c, d) => c = o)
  BY <1>0, <1>2 DEF Holding
<1>6. \A c, d, f : <<c, f>> \in Registrations(m, ci, d) => c = m
  BY DEF Registrations
<1>7. ASSUME NEW c \in Key, c # m, NEW d \in Key
      PROVE  /\ d # m /\ d # o => (Registered(c, d)' <=> Registered(c, d))
             /\ d = m /\ Registered(c, d)' => o # Nil /\ Registered(c, o)
             /\ d = o /\ d # m => ~Registered(c, d)'
  BY <1>1, <1>6, <1>7 DEF Registered
<1>8. ASSUME NEW x \in Needs' \ Needs PROVE x[1] \notin backend
  <2>1. PICK c \in Key, d \in Key : x = <<c, d>> /\ Registered(c, d)'
    BY <1>4, <1>5, <1>8 DEF NeedsAre
  <2>2. ~Registered(c, d)
    BY <1>4, <1>8, <2>1 DEF NeedsAre
  <2>3. CASE c = m
    BY <1>1, <2>1, <2>3
  <2>4. CASE c # m
    <3>1. o # Nil /\ Registered(c, o)
      BY <1>1, <1>7, <2>1, <2>2, <2>4
    <3>2. PICK f \in Field : <<c, f>> \in dependents[o]
      BY <3>1 DEF Registered
    <3>3. <<c, f>>[1] = c
      OBVIOUS
    <3> QED
      BY <1>1, <2>1, <3>1, <3>2, <3>3 DEF BackendOrder
  <2> QED
    BY <2>3, <2>4
<1>9. Promise!Others(old, m)' = Promise!Others(old, m)
  <2>1. \A x : x \in Promise!Others(old, m) <=> x \in Needs /\ {x[1], x[2]} \cap {old, m} = {}
    BY DEF Promise!Others
  <2>2. \A x : x \in Promise!Others(old, m)' <=> x \in Needs' /\ {x[1], x[2]} \cap {old, m} = {}
    BY DEF Promise!Others
  <2>3. ASSUME NEW c \in Key, NEW d \in Key, {c, d} \cap {old, m} = {}
        PROVE  (Registered(c, d) \/ Holding(c, d))' <=> Registered(c, d) \/ Holding(c, d)
    <3>1. c # m /\ c # o /\ d # m /\ d # o
      BY <1>1, <2>3
    <3> QED
      BY <1>5, <1>7, <3>1
  <2>4. ASSUME NEW x, {x[1], x[2]} \cap {old, m} = {}
        PROVE  x \in Needs' <=> x \in Needs
    <3>1. \A c \in Key, d \in Key : x = <<c, d>> => {c, d} \cap {old, m} = {}
      BY <2>4
    <3> QED
      BY <1>4, <2>3, <3>1 DEF NeedsAre
  <2>5. \A x : x \in Promise!Others(old, m)' <=> x \in Promise!Others(old, m)
    BY <2>1, <2>2, <2>4
  <2> QED
    BY <2>1, <2>2, <2>5 DEF Promise!Others
<1>10. Wanted' \ {old, m} = Wanted \ {old, m}
  <2>1. ASSUME NEW k \in Key, k \notin {old, m}
        PROVE  k \in Wanted' <=> k \in Wanted
    <3>1. k # m /\ k # o
      BY <1>1, <2>1
    <3>2. CASE cf[k] = Nil
      BY <1>1, <1>4, <3>1, <3>2 DEF WantedAre
    <3>3. CASE cf[k] # Nil
      <4>1. ASSUME NEW f \in DepFields(k[1])
            PROVE  cf'[DependsOn(k, f)'] # Nil <=> cf[DependsOn(k, f)] # Nil
        <5>1. CASE DependsOn(k, f) = o
          <6>1. o # Nil /\ DependsOn(k, f)' = m
            BY <1>1, <3>1, <3>3, <4>1, <5>1
          <6> QED
            BY <1>1, <5>1, <6>1
        <5>2. CASE DependsOn(k, f) # o
          <6>1. DependsOn(k, f)' = DependsOn(k, f) /\ DependsOn(k, f) # m /\ DependsOn(k, f) \in Key
            BY <1>1, <3>1, <3>3, <4>1, <5>2
          <6> QED
            BY <1>1, <5>2, <6>1
        <5> QED
          BY <5>1, <5>2
      <4> QED
        BY <1>1, <1>4, <3>1, <3>3, <4>1 DEF WantedAre
    <3> QED
      BY <3>2, <3>3
  <2> QED
    BY <1>4, <2>1
<1>11. Promise!Rewire(old, m)
  BY <1>1, <1>2, <1>3, <1>8, <1>9, <1>10 DEF Promise!Rewire
<1>12. Promise!Change(old, m)
  BY <1>2, <1>11 DEF Promise!Change
<1> QED
  BY <1>1, <1>3, <1>12

LEMMA DeleteFacts ==
    ASSUME IInv, Delete, NEW o, o = edit.old
    PROVE  /\ o \in Key /\ cf[o] # Nil /\ o \notin backend
           /\ cf'[o] = Nil /\ \A k \in Key : k # o => cf'[k] = cf[k]
           /\ dependents'[o] = {} /\ \A k \in Key : k # o => dependents'[k] = dependents[k]
<1> USE ConstantsAssumption DEF IInv
<1>1. /\ edit.phase = "down" /\ stack = <<>> /\ edit.new = Nil
      /\ cf' = [cf EXCEPT ![o] = Nil]
      /\ dependents' = [dependents EXCEPT ![o] = {}]
  BY DEF Delete
<1>2. o \in Key /\ cf[o] # Nil
  BY <1>1 DEF EditInv, TypeOK, Edit
<1>3. ~live[o].dependable
  BY <1>1, <1>2 DEF HeldInv, Held
<1>4. ~StopDue(o)
  BY <1>1 DEF StopDue
<1>5. o \notin backend
  BY <1>2, <1>3, <1>4 DEF FlagsInv, BackedIsTrue
<1> QED
  BY <1>1, <1>2, <1>5 DEF TypeOK

\* The item is deleted: nobody needs it any more, and what can be up is.
LEMMA DeleteRefines ==
    ASSUME IInv, IInv', Delete
    PROVE  \E k \in Key : Promise!Remove(k)
<1> USE ConstantsAssumption, AcyclicAssumption DEF IInv
<1>0. PICK o : o = edit.old
  OBVIOUS
<1>1. /\ edit.phase = "down" /\ stack = <<>> /\ edit.new = Nil
      /\ edit'.phase = "idle" /\ backend' = backend /\ stack' = <<>>
  BY <1>0 DEF Delete, NoEdit
<1>2. o \in Key /\ cf[o] # Nil
  BY <1>0, DeleteFacts
<1>3. Removing /\ Detached = o
  BY <1>0, <1>1 DEF Removing, Detached
<1>4. o \notin backend
  BY <1>0, DeleteFacts
<1>5. /\ cf'[o] = Nil /\ \A k \in Key : k # o => cf'[k] = cf[k]
      /\ dependents'[o] = {} /\ \A k \in Key : k # o => dependents'[k] = dependents[k]
  BY <1>0, DeleteFacts
<1>6. NeedsAre /\ NeedsAre' /\ WantedAre /\ WantedAre' /\ Wanted \subseteq Key /\ (Wanted \subseteq Key)'
  BY MappingFacts, MappingFactsNext
<1>7. \A c, d : ~Holding(c, d)' /\ (Holding(c, d) => c = o)
  BY <1>0, <1>1 DEF Holding
<1>8. ASSUME NEW c \in Key, NEW d \in Key
      PROVE  /\ d # o => (Registered(c, d)' <=> Registered(c, d))
             /\ ~Registered(c, o)'
             /\ Registered(c, d) => c # o
  <2>1. (d # o => (Registered(c, d)' <=> Registered(c, d))) /\ ~Registered(c, o)'
    BY <1>5 DEF Registered
  <2>2. Registered(c, d) => c # o
    BY <1>3, RegisteredFacts
  <2> QED
    BY <2>1, <2>2
<1>9. \A c \in Key : \A f \in DepFields(c[1]) : cf[c] # Nil /\ c # o => DependsOn(c, f) # o
  <2> SUFFICES ASSUME NEW c \in Key, NEW f \in DepFields(c[1]), cf[c] # Nil, c # o, DependsOn(c, f) = o
               PROVE  FALSE
    OBVIOUS
  <2>1. DependsOn(c, f) = <<Parent(c[1], f), cf[c].dep[f]>> /\ f \in Field
    BY DependsOnKey DEF DependsOn, DependencyOf
  <2>2. cf[c].dep[f] # Unknown
    BY <1>2, <2>1 DEF TablesInv, Key
  <2>3. <<c, f>> \in dependents[o]
    BY <1>3, <2>1, <2>2 DEF RegisterInv
  <2>4. cf[c].dep[f] = Unknown
    BY <1>0, <1>1, <1>2, <1>3, <2>1, <2>3 DEF RegisterInv
  <2> QED
    BY <2>2, <2>4
<1>10. Needs' \subseteq Needs /\ \A x \in Needs' : o \notin {x[1], x[2]}
  <2> SUFFICES ASSUME NEW x \in Needs' PROVE x \in Needs /\ o \notin {x[1], x[2]}
    OBVIOUS
  <2>1. PICK c \in Key, d \in Key : x = <<c, d>> /\ Registered(c, d)'
    BY <1>6, <1>7 DEF NeedsAre
  <2>2. d # o /\ Registered(c, d) /\ c # o
    BY <1>8, <2>1
  <2> QED
    BY <1>6, <2>1, <2>2 DEF NeedsAre
<1>11. Promise!Others(o, o)' = Promise!Others(o, o)
  <2>1. \A x : x \in Promise!Others(o, o) <=> x \in Needs /\ {x[1], x[2]} \cap {o, o} = {}
    BY DEF Promise!Others
  <2>2. \A x : x \in Promise!Others(o, o)' <=> x \in Needs' /\ {x[1], x[2]} \cap {o, o} = {}
    BY DEF Promise!Others
  <2>3. ASSUME NEW x \in Needs, {x[1], x[2]} \cap {o, o} = {} PROVE x \in Needs'
    <3>1. PICK c \in Key, d \in Key : x = <<c, d>> /\ (Registered(c, d) \/ Holding(c, d))
      BY <1>6, <2>3 DEF NeedsAre
    <3>2. c # o /\ d # o
      BY <2>3, <3>1
    <3>3. Registered(c, d)'
      BY <1>7, <1>8, <3>1, <3>2
    <3> QED
      BY <1>6, <3>1, <3>3 DEF NeedsAre
  <2>4. \A x : x \in Promise!Others(o, o)' <=> x \in Promise!Others(o, o)
    BY <1>10, <2>1, <2>2, <2>3
  <2> QED
    BY <2>4 DEF Promise!Others
<1>12. o \notin Wanted' /\ Wanted' \ {o, o} = Wanted \ {o, o}
  <2>1. ASSUME NEW k \in Key, k # o
        PROVE  k \in Wanted' <=> k \in Wanted
    <3>1. cf'[k] = cf[k] /\ \A f : DependsOn(k, f)' = DependsOn(k, f)
      BY <1>5, <2>1 DEF DependsOn
    <3>2. CASE cf[k] = Nil
      BY <1>6, <3>1, <3>2 DEF WantedAre
    <3>3. CASE cf[k] # Nil
      <4>1. \A f \in DepFields(k[1]) : cf'[DependsOn(k, f)'] = cf[DependsOn(k, f)]
        BY <1>5, <1>9, <2>1, <3>1, <3>3, DependsOnKey
      <4> QED
        BY <1>6, <3>1, <3>3, <4>1 DEF WantedAre
    <3> QED
      BY <3>2, <3>3
  <2>2. o \notin Wanted'
    BY <1>2, <1>5, <1>6 DEF WantedAre
  <2> QED
    BY <1>6, <2>1, <2>2
<1>13. Promise!Balanced'
  <2>1. (IInv /\ stack = <<>> /\ edit.phase # "down" => Promise!Balanced)'
    BY BalancedAtEnd, PTL
  <2> QED
    BY <1>1, <2>1
<1>14. Promise!Rewire(o, o)
  BY <1>1, <1>4, <1>10, <1>11, <1>12 DEF Promise!Rewire
<1>15. Promise!Remove(o)
  BY <1>1, <1>10, <1>12, <1>13, <1>14 DEF Promise!Remove
<1> QED
  BY <1>2, <1>15

\* cf_set() returns: everything is up that can be.
LEMMA FinishRefines ==
    ASSUME IInv, Finish
    PROVE  Promise!End
<1>1. /\ edit.phase = "up" /\ edit'.phase = "idle" /\ stack = <<>>
      /\ UNCHANGED <<cf, dependents, backend>>
  BY DEF Finish, NoEdit
<1>2. Promise!Balanced
  BY <1>1, BalancedAtEnd
<1>3. Needs' = Needs /\ Wanted' = Wanted
  BY <1>1 DEF Needs, RegisteredNeeds, HeldNeeds, Wanted
<1> QED
  BY <1>1, <1>2, <1>3 DEF Promise!End

-----------------------------------------------------------------------------
(* The engine of lib/cf.lua implements the supervisor (Supervises): in     *)
(* every cf_set(), whatever the order in which dependents are notified,    *)
(* back-ends first only stop, parents last, then only start, parents       *)
(* first, and the call ends with everything up that can be.                *)
THEOREM EngineSupervises == ASSUME Disciplined PROVE Spec => Supervises
<1>1. Init => Promise!Init
  <2> SUFFICES ASSUME Init PROVE Promise!Init
    OBVIOUS
  <2>1. \A d \in Key : dependents[d] = {} /\ cf[d] = Nil
    BY DEF Init
  <2>2. edit.phase = "idle" /\ backend = {}
    BY DEF Init, NoEdit
  <2>3. Needs = {}
    BY <2>1, <2>2 DEF Needs, RegisteredNeeds, HeldNeeds
  <2>4. Wanted = {}
    BY <2>1 DEF Wanted
  <2> QED
    BY <2>2, <2>3, <2>4 DEF Promise!Init
<1>2. IInv /\ IInv' /\ PhaseInv /\ PhaseInv' /\ [Next]_vars => [Promise!Next]_(Promise!state)
  <2> SUFFICES ASSUME IInv, IInv', PhaseInv, PhaseInv', [Next]_vars
               PROVE  Promise!Next \/ UNCHANGED Promise!state
    OBVIOUS
  <2> USE DEF Promise!Next
  <2>1. CASE CfSet
    BY <2>1, BeginRefines
  <2>2. CASE StateChange
    BY <2>2, StateChangeRefines
  <2>3. ASSUME NEW c \in Key, NEW f \in Field, Notify(c, f)
        PROVE  Promise!Next \/ UNCHANGED Promise!state
    BY <2>3, NotifyRefines
  <2>4. CASE Return
    BY <2>4, ReturnRefines
  <2>5. CASE Install
    BY <2>5, InstallRefines
  <2>6. CASE Delete
    BY <2>6, DeleteRefines
  <2>7. CASE Finish
    BY <2>7, FinishRefines
  <2>8. CASE UNCHANGED vars
    BY <2>8 DEF vars, Promise!state, Needs, RegisteredNeeds, HeldNeeds, Wanted
  <2> QED
    BY <2>1, <2>2, <2>3, <2>4, <2>5, <2>6, <2>7, <2>8 DEF Next, Step
<1> QED
  BY <1>1, <1>2, Invariance, Phases, PTL DEF Spec, Supervises, Promise!Spec
=============================================================================
