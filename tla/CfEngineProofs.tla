--------------------------- MODULE CfEngineProofs ---------------------------
(***************************************************************************)
(* Proofs that the safety properties of CfEngine hold for all sections,    *)
(* keys, items and dependency graphs, as long as callers reuse no key.     *)
(***************************************************************************)
EXTENDS CfEngineInv, SequenceTheorems, TLAPS

\* A stack that holds a call holds an outermost one, which may be the last.
LEMMA FirstFrame ==
    ASSUME NEW m \in Nat, m \in 1 .. m
    PROVE  1 \in 1 .. m /\ (m = 1 \/ m > 1)
OBVIOUS

\* The length that SubSeq gives a stack whose innermost call returns.
LEMMA LastFrame ==
    ASSUME NEW m \in Nat, m >= 1
    PROVE  m - 1 = IF 1 <= m - 1 THEN (m - 1) - 1 + 1 ELSE 0
OBVIOUS

(* Replacing the last element of a sequence.                               *)
LEMMA ReplaceLast ==
    ASSUME NEW S, NEW s \in Seq(S), NEW e \in S, s # <<>>, NEW r, r = [s EXCEPT ![Len(s)] = e]
    PROVE  /\ r \in Seq(S) /\ Len(r) = Len(s) /\ r[Len(s)] = e
           /\ \A i \in 1 .. Len(s) : i # Len(s) => r[i] = s[i]
<1>1. Len(s) \in 1 .. Len(s)
  OBVIOUS
<1> QED
  BY <1>1, ExceptSeq

(* A pair has two components.                                              *)
LEMMA PairOf ==
    ASSUME NEW S, NEW T, NEW e \in S \X T
    PROVE  e = <<e[1], e[2]>> /\ e[1] \in S /\ e[2] \in T
OBVIOUS

(* An entry of a dependents table is an item and one of its fields.        *)
LEMMA EntryOf ==
    ASSUME TypeOK, NEW d \in Key, NEW e \in dependents[d]
    PROVE  e = <<e[1], e[2]>> /\ e[1] \in Key /\ e[2] \in Field
<1>1. e \in Key \X Field
  BY DEF TypeOK, Entry
<1> QED
  BY <1>1, PairOf

USE DEF Key, Entry

(* The tables of an engine that has just been loaded satisfy the           *)
(* invariant.                                                              *)
LEMMA InitInv == Init => IInv
<1> SUFFICES ASSUME Init PROVE IInv
  OBVIOUS
<1> USE ConstantsAssumption, AcyclicAssumption DEF Init, NoEdit
<1>1. TypeOK
  BY DEF TypeOK, Edit
<1>2. EditInv /\ StackInv /\ TablesInv
  BY DEF EditInv, StackInv, TablesInv
<1>3. RegisterInv /\ FlagsInv /\ HeldInv /\ StopInv
  BY DEF RegisterInv, FlagsInv, HeldInv, Held, StopInv
<1>4. DownInv /\ UpInv
  BY DEF DownInv, UpInv
<1>5. BackedIsTrue /\ BackendOrder
  BY DEF BackedIsTrue, BackendOrder, Exists
<1> QED
  BY <1>1, <1>2, <1>3, <1>4, <1>5 DEF IInv

(* The innermost call under way is a frame of the stack.                   *)
LEMMA TopFrame ==
    ASSUME TypeOK, stack # <<>>
    PROVE  /\ Len(stack) \in Nat /\ Len(stack) \in 1 .. Len(stack)
           /\ Top \in Frame /\ Top.key \in Key /\ Top.todo \subseteq Entry
           /\ \A i \in 1 .. Len(stack) : stack[i] \in Frame /\ stack[i].key \in Key /\ stack[i].todo \subseteq Entry
<1>1. stack \in Seq(Frame)
  BY DEF TypeOK
<1>2. Len(stack) \in Nat /\ Len(stack) # 0
  BY <1>1
<1>3. \A i \in 1 .. Len(stack) : stack[i] \in Frame
  BY <1>1
<1> QED
  BY <1>2, <1>3 DEF Top, Frame

-----------------------------------------------------------------------------
(* Adding an item only records the call.                                   *)
LEMMA CfAddInv ==
    ASSUME Disciplined, IInv, NEW p \in Path, NEW ci \in Items(p), CfAdd(p, ci)
    PROVE  IInv'
<1> USE ConstantsAssumption, AcyclicAssumption DEF IInv
<1>1. PICK u \in NewUniq(p, ci) :
          /\ CallerKeeps(<<p, u>>, Nil)
          /\ edit' = [phase |-> "down", old |-> Nil, new |-> <<p, u>>, ci |-> ci]
  BY DEF CfAdd
<1>2. u \in Uniq /\ ci \in Item
  BY DEF NewUniq, Exists
<1>3. UNCHANGED <<cf, live, dependents, backend, stack>>
  BY DEF CfAdd
<1>4. edit = NoEdit /\ stack = <<>>
  BY DEF CfAdd, Idle, EditInv
<1>5. \A f \in DepFields(p) : DependencyOf(p, ci, f) \in Key /\ live[DependencyOf(p, ci, f)] # Nil
  BY <1>2 DEF CfAdd, DependenciesExist, DependencyList, DependencyOf, Exists, Item
<1>6. u # Unknown /\ live[<<p, u>>] = Nil
  BY <1>1, <1>2 DEF CallerKeeps, Exists
<1>7. TypeOK'
  BY <1>1, <1>2, <1>3 DEF TypeOK, Edit
<1>8. EditInv'
  BY <1>1, <1>2, <1>3, <1>4, <1>5, <1>6 DEF EditInv, TablesInv, DependencyOf
<1>9. StackInv' /\ TablesInv'
  BY <1>1, <1>3, <1>4 DEF StackInv, TablesInv
<1>10. RegisterInv'
  BY <1>1, <1>3, <1>4 DEF RegisterInv, Detached, Removing, NoEdit, DependsOn, DependencyOf
<1>11. FlagsInv' /\ HeldInv' /\ StopInv'
  BY <1>1, <1>3, <1>4 DEF FlagsInv, HeldInv, StopInv, Held, StopDue, NoEdit
<1>12. DownInv' /\ UpInv'
  BY <1>1, <1>3, <1>4 DEF DownInv, UpInv, Held, NoEdit, Up, Exists, Owed, Called, Pending, DependsOn, DependencyOf
<1>13. BackedIsTrue' /\ BackendOrder'
  BY <1>3 DEF BackedIsTrue, BackendOrder, Exists
<1> QED
  BY <1>7, <1>8, <1>9, <1>10, <1>11, <1>12, <1>13

(* Changing and removing an item both begin by unregistering it and        *)
(* calling state_change() for it.                                          *)
LEMMA BeginInv ==
    ASSUME IInv, Idle, NEW k \in Key, Exists(k), Unregister(k),
           edit' \in Edit, edit'.phase = "down", edit'.old = k, EditInv',
           NEW g \in BOOLEAN, NEW h \in BOOLEAN,
           g <=> edit'.new = Nil, h <=> edit'.new # Nil,
           stack' = <<Call(k, g, h)>>,
           UNCHANGED <<cf, live, backend>>
    PROVE  IInv'
<1> USE ConstantsAssumption, AcyclicAssumption DEF IInv
<1>1. edit = NoEdit /\ stack = <<>>
  BY DEF Idle, EditInv
<1>2. /\ Len(stack') = 1
      /\ stack'[1] = Call(k, g, h)
      /\ Top' = stack'[1]
      /\ stack' # <<>>
  BY DEF Top
<1>3. cf \in [Key -> Item \cup {Nil}] /\ cf[k] \in Item
  BY DEF TypeOK, TablesInv, Exists
<1>4. dependents' = [d \in Key |-> dependents[d] \ Registrations(k, cf[k], d)]
  BY DEF Unregister
<1>5. \A d \in Key : dependents'[d] \subseteq dependents[d]
  BY <1>4
<1>6. \A d \in Key, c \in Key, f \in Field :
        c # k => (<<c, f>> \in dependents'[d] <=> <<c, f>> \in dependents[d])
  BY <1>4 DEF Registrations
<1>7. \A d \in Key, f \in Field : <<k, f>> \notin dependents'[d]
  <2> SUFFICES ASSUME NEW d \in Key, NEW f \in Field, <<k, f>> \in dependents[d]
               PROVE  <<k, f>> \in Registrations(k, cf[k], d)
    BY <1>4
  <2>1. f \in DepFields(k[1]) /\ Parent(k[1], f) = d[1] /\ cf[k].dep[f] = d[2]
    BY <1>1 DEF RegisterInv, Removing, NoEdit
  <2>2. DependencyOf(k[1], cf[k], f) = d
    BY <2>1 DEF DependencyOf
  <2> QED
    BY <2>1, <2>2 DEF Registrations
<1>8. TypeOK'
  <2>1. dependents' \in [Key -> SUBSET Entry]
    BY <1>4 DEF TypeOK
  <2>2. Call(k, g, h) \in Frame
    BY DEF Call, Frame
  <2>3. stack' \in Seq(Frame)
    BY <2>2
  <2> QED
    BY <2>1, <2>3 DEF TypeOK
<1>9. StackInv'
  BY <1>2, <1>3 DEF StackInv, Call, Removing
<1>10. TablesInv'
  BY DEF TablesInv
<1>11. RegisterInv'
  <2>1. Detached' = k /\ Detached = Nil /\ ~Removing
    BY <1>1 DEF Detached, Removing, NoEdit
  <2>2. \A c \in Key, f \in Field : DependsOn(c, f)' = DependsOn(c, f)
    BY DEF DependsOn, DependencyOf
  <2>3. ASSUME NEW c \in Key, NEW f \in DepFields(c[1]), cf[c] # Nil
        PROVE  DependsOn(c, f) \in Key
    BY <1>3, <2>3 DEF DependsOn, DependencyOf, Item
  <2>4. ASSUME NEW d \in Key, NEW c \in Key, NEW f \in Field, <<c, f>> \in dependents'[d]
        PROVE  /\ cf[d] # Nil /\ cf[c] # Nil /\ c # k
               /\ f \in DepFields(c[1]) /\ Parent(c[1], f) = d[1] /\ cf[c].dep[f] = d[2]
    BY <1>5, <1>7, <2>1, <2>4 DEF RegisterInv
  <2>5. ASSUME NEW c \in Key, NEW f \in DepFields(c[1]), cf[c] # Nil, c # k, cf[c].dep[f] # Unknown
        PROVE  <<c, f>> \in dependents'[DependsOn(c, f)]
    BY <1>6, <2>1, <2>3, <2>5 DEF RegisterInv
  <2>6. ~stack'[1].entered /\ stack' # <<>>
    BY <1>2 DEF Call
  <2> QED
    BY <2>1, <2>2, <2>4, <2>5, <2>6 DEF RegisterInv
<1>12. \A c \in Key : ~StopDue(c) /\ ~StopDue(c)'
  BY <1>1, <1>2 DEF StopDue, Call
<1>13. Held = Nil /\ Held' = k
  BY <1>1 DEF Held, NoEdit
<1>14. FlagsInv'
  BY <1>12, <1>13 DEF FlagsInv
<1>15. HeldInv' /\ StopInv'
  BY <1>2 DEF HeldInv, Held, StopInv, Call
<1>16. \A c, f, d : ~Owed(c, f, d) /\ ~Pending(c) /\ ~Called(c)
  BY <1>1 DEF Owed, Pending, Called
<1>17. \A c, f : DependsOn(c, f)' = DependsOn(c, f) /\ (Up(c)' <=> Up(c))
  BY DEF DependsOn, DependencyOf, Up, Exists
<1>19. DownInv'
  BY <1>16, <1>17 DEF DownInv, Up, Exists
<1>20. UpInv'
  BY <1>13, <1>16, <1>17 DEF UpInv, Up, Exists
<1>18. BackedIsTrue' /\ BackendOrder'
  BY <1>5 DEF BackedIsTrue, BackendOrder, Exists
<1> QED
  BY <1>8, <1>9, <1>10, <1>11, <1>14, <1>15, <1>18, <1>19, <1>20

\* The start of a cf_set() that changes an item.
LEMMA CfChangeInv ==
    ASSUME Disciplined, IInv, NEW k \in Key, NEW ci \in Items(k[1]), CfChange(k, ci)
    PROVE  IInv'
<1> USE ConstantsAssumption, AcyclicAssumption
<1>1. PICK u \in NewUniq(k[1], ci) :
          /\ CallerKeeps(<<k[1], u>>, k)
          /\ edit' = [phase |-> "down", old |-> k, new |-> <<k[1], u>>, ci |-> ci]
  BY DEF CfChange
<1>2. u \in Uniq /\ ci \in Item
  BY DEF NewUniq, Exists
<1>3. \A f \in DepFields(k[1]) :
        DependencyOf(k[1], ci, f) \in Key /\ live[DependencyOf(k[1], ci, f)] # Nil
  BY <1>2 DEF CfChange, DependenciesExist, DependencyList, DependencyOf, Exists, Item
<1>4. u # Unknown /\ (<<k[1], u>> = k \/ live[<<k[1], u>>] = Nil)
  BY <1>1, <1>2 DEF CallerKeeps, Exists
<1>5. EditInv'
  BY <1>1, <1>2, <1>3, <1>4 DEF EditInv, IInv, TablesInv, CfChange, DependencyOf, Exists
<1>6. edit' \in Edit
  BY <1>1, <1>2 DEF Edit
<1>7. edit'.new # Nil /\ edit'.phase = "down" /\ edit'.old = k
  BY <1>1, <1>2
<1> QED
  BY <1>5, <1>6, <1>7, BeginInv DEF CfChange

\* The start of a cf_set() that removes an item.
LEMMA CfRemoveInv ==
    ASSUME IInv, NEW k \in Key, CfRemove(k)
    PROVE  IInv'
<1> USE ConstantsAssumption, AcyclicAssumption
<1>1. edit' = [phase |-> "down", old |-> k, new |-> Nil, ci |-> Nil]
  BY DEF CfRemove
<1>2. EditInv'
  BY <1>1 DEF EditInv, IInv, TablesInv, CfRemove, Exists
<1>3. edit' \in Edit
  BY <1>1 DEF Edit
<1>4. edit'.new = Nil /\ edit'.phase = "down" /\ edit'.old = k
  BY <1>1
<1> QED
  BY <1>2, <1>3, <1>4, BeginInv DEF CfRemove

(* A field of an existing item that refers to another section holds a key. *)
LEMMA DependsOnKey ==
    ASSUME TypeOK, NEW c \in Key, cf[c] # Nil, NEW f \in DepFields(c[1])
    PROVE  f \in Field /\ DependsOn(c, f) \in Key /\ DependsOn(c, f) # c
BY AcyclicAssumption DEF TypeOK, DependsOn, DependencyOf, Item

\* The end of a cf_set(): nothing is owed to any item.
LEMMA FinishInv == IInv /\ Finish => IInv'
<1> SUFFICES ASSUME IInv, Finish PROVE IInv'
  OBVIOUS
<1> USE ConstantsAssumption, AcyclicAssumption DEF IInv
<1>1. UNCHANGED <<cf, live, dependents, backend, stack>> /\ edit' = NoEdit
      /\ edit.phase = "up" /\ stack = <<>>
  BY DEF Finish
<1>2. TypeOK' /\ EditInv' /\ StackInv' /\ TablesInv'
  BY <1>1 DEF TypeOK, Edit, NoEdit, EditInv, StackInv, TablesInv
<1>3. Detached = Nil /\ Detached' = Nil /\ ~Removing /\ ~Removing' /\ Held = Nil /\ Held' = Nil
  BY <1>1 DEF Detached, Removing, Held, NoEdit
<1>4. RegisterInv'
  BY <1>1, <1>3 DEF RegisterInv, DependsOn, DependencyOf
<1>5. FlagsInv' /\ HeldInv' /\ StopInv'
  BY <1>1, <1>3 DEF FlagsInv, HeldInv, StopInv, StopDue
<1>6. DownInv' /\ UpInv'
  BY <1>1, <1>3 DEF DownInv, UpInv, Up, Exists, Owed, Called, Pending, DependsOn, DependencyOf, Top
<1>7. BackedIsTrue' /\ BackendOrder'
  BY <1>1 DEF BackedIsTrue, BackendOrder, Exists
<1> QED
  BY <1>2, <1>4, <1>5, <1>6, <1>7

(* The removed item is stopped and nothing refers to it any more.          *)
LEMMA DeleteInv == IInv /\ Delete => IInv'
<1> SUFFICES ASSUME IInv, Delete PROVE IInv'
  OBVIOUS
<1> USE ConstantsAssumption, AcyclicAssumption DEF IInv
<1> DEFINE o == edit.old
<1>1. /\ edit.phase = "down" /\ stack = <<>> /\ edit.new = Nil
      /\ UNCHANGED <<backend, stack>> /\ edit' = NoEdit
      /\ cf' = [cf EXCEPT ![o] = Nil] /\ live' = [live EXCEPT ![o] = Nil]
      /\ dependents' = [dependents EXCEPT ![o] = {}]
  BY DEF Delete
<1>2. o \in Key /\ cf[o] # Nil
  BY <1>1 DEF EditInv, TypeOK, Edit
<1>3. Removing /\ Detached = o /\ Held = o /\ Detached' = Nil /\ ~Removing' /\ Held' = Nil
  BY <1>1, <1>2 DEF Removing, Detached, Held, NoEdit
<1>4. \A c \in Key : c # o => cf'[c] = cf[c] /\ live'[c] = live[c] /\ dependents'[c] = dependents[c]
  BY <1>1 DEF TypeOK
<1>5. cf'[o] = Nil /\ live'[o] = Nil /\ dependents'[o] = {}
  BY <1>1, <1>2 DEF TypeOK
<1>6. TypeOK'
  BY <1>1, <1>2 DEF TypeOK, Edit, NoEdit
<1>7. EditInv' /\ StackInv' /\ TablesInv'
  BY <1>1, <1>4, <1>5 DEF EditInv, StackInv, TablesInv, NoEdit
<1>8. ASSUME NEW c \in Key, cf'[c] # Nil, NEW f \in DepFields(c[1])
      PROVE  DependsOn(c, f)' = DependsOn(c, f) /\ DependsOn(c, f) \in Key /\ DependsOn(c, f) # o
  <2>1. c # o /\ cf[c] # Nil /\ cf'[c] = cf[c]
    BY <1>4, <1>5, <1>8
  <2>2. f \in Field /\ DependsOn(c, f) \in Key
    BY <2>1, DependsOnKey
  <2>3. DependsOn(c, f)' = DependsOn(c, f)
    BY <2>1 DEF DependsOn, DependencyOf
  <2>4. DependsOn(c, f) # o
    <3> SUFFICES ASSUME DependsOn(c, f) = o PROVE FALSE
      OBVIOUS
    <3>1. o[2] # Unknown
      BY <1>2 DEF TablesInv
    <3>2. cf[c].dep[f] = o[2]
      BY DEF DependsOn, DependencyOf
    <3>3. <<c, f>> \in dependents[o]
      BY <1>3, <2>1, <2>2, <3>1, <3>2 DEF RegisterInv
    <3>4. cf[c].dep[f] = Unknown
      BY <1>1, <1>2, <1>3, <2>2, <3>3 DEF RegisterInv
    <3> QED
      BY <3>1, <3>2, <3>4
  <2> QED
    BY <2>2, <2>3, <2>4
<1>9. RegisterInv'
  <2>1. ASSUME NEW d \in Key, NEW c \in Key, NEW f \in Field, <<c, f>> \in dependents'[d]
        PROVE  /\ cf'[d] # Nil /\ cf'[c] # Nil /\ c # o /\ d # o
               /\ f \in DepFields(c[1]) /\ Parent(c[1], f) = d[1] /\ cf'[c].dep[f] = d[2]
    <3>1. d # o /\ <<c, f>> \in dependents[d]
      BY <1>4, <1>5, <2>1
    <3>2. /\ cf[d] # Nil /\ cf[c] # Nil /\ c # o
          /\ f \in DepFields(c[1]) /\ Parent(c[1], f) = d[1] /\ cf[c].dep[f] = d[2]
      BY <1>3, <3>1 DEF RegisterInv
    <3> QED
      BY <1>4, <3>1, <3>2
  <2>2. ASSUME NEW c \in Key, cf'[c] # Nil, NEW f \in DepFields(c[1]), cf'[c].dep[f] # Unknown
        PROVE  <<c, f>> \in dependents'[DependsOn(c, f)']
    <3>1. c # o /\ cf[c] # Nil /\ cf'[c] = cf[c] /\ f \in Field
      BY <1>4, <1>5, <2>2
    <3>2. <<c, f>> \in dependents[DependsOn(c, f)]
      BY <1>3, <2>2, <3>1 DEF RegisterInv
    <3> QED
      BY <1>4, <1>8, <2>2, <3>2
  <2> QED
    BY <1>3, <2>1, <2>2 DEF RegisterInv
<1>10. FlagsInv' /\ HeldInv' /\ StopInv'
  BY <1>1, <1>3, <1>4, <1>5 DEF FlagsInv, HeldInv, StopInv, StopDue
<1>11. \A c \in Key : \A f \in DepFields(c[1]) : cf'[c] # Nil =>
          /\ Up(DependsOn(c, f))' <=> Up(DependsOn(c, f))
          /\ cf'[c] = cf[c] /\ live'[c] = live[c]
  BY <1>4, <1>5, <1>8 DEF Up, Exists
<1>12. \A c, f, d : ~Owed(c, f, d) /\ ~Pending(c) /\ ~Called(c)
  BY <1>1 DEF Owed, Pending, Called
<1>13. DownInv'
  BY <1>11, <1>12 DEF DownInv
<1>14. UpInv'
  BY <1>3, <1>4, <1>5, <1>11, <1>12 DEF UpInv
<1>15. BackedIsTrue'
  <2>1. ~StopDue(o)
    BY <1>1 DEF StopDue
  <2>2. ~live[o].dependable /\ ~live[o].backed
    BY <1>1, <1>2, <1>3, <2>1 DEF HeldInv, FlagsInv
  <2> QED
    BY <1>1, <1>2, <1>4, <1>5, <2>2 DEF BackedIsTrue, Exists
<1>16. BackendOrder'
  BY <1>1, <1>4, <1>5 DEF BackendOrder
<1> QED
  BY <1>6, <1>7, <1>9, <1>10, <1>13, <1>14, <1>15, <1>16

(* The keys of two calls under way differ, and the item of a registration  *)
(* with the innermost one is not under way.                                *)
LEMMA StackKeys ==
    ASSUME IInv, stack # <<>>
    PROVE  /\ \A i, j \in 1 .. Len(stack) : stack[i].key = stack[j].key => i = j
           /\ \A i \in 1 .. Len(stack) : Rank(stack[i].key[1]) \leq Rank(Top.key[1])
           /\ \A c \in Key, f \in Field : <<c, f>> \in dependents[Top.key] =>
                \A i \in 1 .. Len(stack) : stack[i].key # c
<1> USE AcyclicAssumption DEF IInv
<1>1. /\ Len(stack) \in Nat /\ Len(stack) \in 1 .. Len(stack) /\ Top.key \in Key
      /\ \A i \in 1 .. Len(stack) : stack[i].key \in Key /\ Rank(stack[i].key[1]) \in Nat
  BY TopFrame
<1>2. \A i, j \in 1 .. Len(stack) : i < j => Rank(stack[i].key[1]) < Rank(stack[j].key[1])
  BY DEF StackInv
<1>3. \A i, j \in 1 .. Len(stack) : stack[i].key = stack[j].key => i = j
  <2> SUFFICES ASSUME NEW i \in 1 .. Len(stack), NEW j \in 1 .. Len(stack),
                      stack[i].key = stack[j].key, i # j
               PROVE  FALSE
    OBVIOUS
  <2>1. i < j \/ j < i
    BY <1>1
  <2> QED
    BY <1>1, <1>2, <2>1
<1>4. \A i \in 1 .. Len(stack) : Rank(stack[i].key[1]) \leq Rank(Top.key[1])
  BY <1>1, <1>2 DEF Top
<1>5. ASSUME NEW c \in Key, NEW f \in Field, <<c, f>> \in dependents[Top.key],
             NEW i \in 1 .. Len(stack), stack[i].key = c
      PROVE  FALSE
  <2>1. f \in DepFields(c[1]) /\ Parent(c[1], f) = Top.key[1]
    BY <1>1, <1>5 DEF RegisterInv
  <2>2. Rank(Top.key[1]) < Rank(c[1])
    BY <2>1
  <2> QED
    BY <1>1, <1>4, <1>5, <2>2
<1> QED
  BY <1>3, <1>4, <1>5

(* A call returns: its item and all that depends on it are settled, and    *)
(* when it stops the back-end, those of its dependents are down already.   *)
LEMMA ReturnInv == IInv /\ Return => IInv'
<1> SUFFICES ASSUME IInv, Return PROVE IInv'
  OBVIOUS
<1> USE ConstantsAssumption, AcyclicAssumption DEF IInv
<1> DEFINE n == Len(stack)
           t == Top.key
<1>1. /\ stack # <<>> /\ Top.entered /\ Top.todo = {}
      /\ UNCHANGED <<cf, dependents, edit>>
      /\ stack' = SubSeq(stack, 1, n - 1)
      /\ Top.stop => /\ live' = [live EXCEPT ![t] = [@ EXCEPT !.backed = FALSE]]
                     /\ backend' = backend \ {t}
      /\ ~Top.stop => live' = live /\ backend' = backend
  BY DEF Return
<1>2. n \in Nat /\ n \in 1 .. n /\ t \in Key /\ stack \in Seq(Frame)
      /\ \A i \in 1 .. n : stack[i] \in Frame /\ stack[i].key \in Key
  BY <1>1, TopFrame DEF TypeOK
<1>3. /\ Len(stack') = n - 1 /\ stack' \in Seq(Frame)
      /\ \A i \in 1 .. n - 1 : stack'[i] = stack[i]
      /\ 1 .. n - 1 \subseteq 1 .. n
  <2>1. 1 \in Int /\ n - 1 \in Int /\ (\A i \in 1 .. n - 1 : stack[i] \in Frame) /\ 1 .. n - 1 \subseteq 1 .. n
    BY <1>2
  <2>2. /\ stack' \in Seq(Frame)
        /\ Len(stack') = IF 1 <= n - 1 THEN (n - 1) - 1 + 1 ELSE 0
        /\ \A i \in 1 .. (n - 1) - 1 + 1 : stack'[i] = stack[1 + i - 1]
    BY <1>1, <2>1, SubSeqProperties
  <2>3. Len(stack') = n - 1
    <3>1. n >= 1 /\ n \in Nat
      BY <1>2
    <3> QED
      BY <2>2, <3>1, LastFrame
  <2>4. ASSUME NEW i \in 1 .. n - 1 PROVE stack'[i] = stack[i]
    <3>1. i \in 1 .. (n - 1) - 1 + 1 /\ 1 + i - 1 = i
      BY <1>2
    <3> QED
      BY <2>2, <3>1
  <2> QED
    BY <2>1, <2>2, <2>3, <2>4
<1>4. /\ \A i \in 1 .. n : stack[i].entered
      /\ stack[n] = Top
  BY <1>1, <1>2 DEF StackInv, Top
<1>5. \A c : ~Called(c)
  BY <1>1 DEF Called
<1>6. \A c : ~Called(c)'
  <2> SUFFICES ASSUME stack' # <<>> PROVE Top'.entered
    BY DEF Called
  <2>1. Len(stack') \in 1 .. n - 1
    BY <1>2, <1>3
  <2> QED
    BY <1>3, <1>4, <2>1 DEF Top
<1>7. \A c, f, d : Owed(c, f, d)' <=> Owed(c, f, d)
  <2> SUFFICES ASSUME NEW c, NEW f, NEW d PROVE Owed(c, f, d)' <=> Owed(c, f, d)
    OBVIOUS
  <2>1. \A i \in 1 .. n : <<c, f>> \in stack[i].todo => i \in 1 .. n - 1
    BY <1>1, <1>2, <1>4
  <2> QED
    BY <1>3, <2>1 DEF Owed
<1>8. \A c : Pending(c)' <=> Pending(c)
  <2> SUFFICES ASSUME NEW c PROVE Pending(c)' <=> Pending(c)
    OBVIOUS
  <2>1. \A f : \A i \in 1 .. n : <<c, f>> \in stack[i].todo => i \in 1 .. n - 1
    BY <1>1, <1>2, <1>4
  <2> QED
    BY <1>3, <1>5, <1>6, <2>1 DEF Pending
<1>9. Held' = Held
  <2>1. stack' # <<>> => stack'[1].entered
    BY <1>2, <1>3, <1>4
  <2>2. stack[1].entered
    BY <1>2, <1>4
  <2> QED
    BY <1>1, <2>1, <2>2 DEF Held
<1>10. Detached' = Detached /\ (Removing' <=> Removing)
  BY <1>1 DEF Detached, Removing
<1>11. cf[t] # Nil /\ live[t] \in Live /\ live \in [Key -> Live \cup {Nil}]
  BY <1>2, <1>4 DEF StackInv, TablesInv, TypeOK
<1>12. /\ \A k \in Key : k # t => live'[k] = live[k]
       /\ live'[t].dependable = live[t].dependable /\ live'[t].invalid = live[t].invalid
       /\ live'[t].backed <=> live[t].backed /\ ~Top.stop
       /\ live'[t] \in Live
       /\ live' \in [Key -> Live \cup {Nil}]
  <2>1. CASE Top.stop
    <3>1. live' = [live EXCEPT ![t] = [live[t] EXCEPT !.backed = FALSE]]
      BY <1>1, <2>1
    <3>2. [live[t] EXCEPT !.backed = FALSE] \in Live
      BY <1>11 DEF Live
    <3>3. live'[t] = [live[t] EXCEPT !.backed = FALSE] /\ \A k \in Key : k # t => live'[k] = live[k]
      BY <1>2, <1>11, <3>1
    <3>4. live'[t].dependable = live[t].dependable /\ live'[t].invalid = live[t].invalid /\ ~live'[t].backed
      BY <1>11, <3>3 DEF Live
    <3> QED
      BY <1>2, <1>11, <2>1, <3>1, <3>2, <3>3, <3>4
  <2>2. CASE ~Top.stop
    BY <1>1, <1>11, <2>2
  <2> QED
    BY <2>1, <2>2
<1>13. TypeOK'
  BY <1>1, <1>2, <1>3, <1>12 DEF TypeOK
<1>14. TablesInv'
  <2>1. \A k \in Key : live'[k] = Nil <=> live[k] = Nil
    BY <1>2, <1>11, <1>12 DEF Live
  <2> QED
    BY <1>1, <2>1 DEF TablesInv
<1>15. EditInv'
  BY <1>1, <1>2, <1>3 DEF EditInv
<1>16. StackInv'
  <2>1. stack' # <<>> => stack'[1] = stack[1]
    BY <1>2, <1>3
  <2>2. stack' # <<>> => /\ stack'[1].key = IF edit'.phase = "up" THEN edit'.new ELSE edit'.old
                         /\ stack'[1].going <=> Removing'
                         /\ stack'[1].goinvalid <=> edit'.phase = "down" /\ edit'.new # Nil
    BY <1>1, <1>10, <2>1 DEF StackInv
  <2>3. ASSUME NEW i \in 1 .. Len(stack')
        PROVE  /\ cf'[stack'[i].key] # Nil
               /\ stack'[i].todo \subseteq dependents'[stack'[i].key]
               /\ stack'[i].entered
               /\ i > 1 => ~stack'[i].going /\ ~stack'[i].goinvalid
    BY <1>1, <1>3, <1>4 DEF StackInv
  <2>4. ASSUME NEW i \in 1 .. Len(stack'), NEW j \in 1 .. Len(stack'), i < j
        PROVE  Rank(stack'[i].key[1]) < Rank(stack'[j].key[1])
    BY <1>1, <1>3, <2>4 DEF StackInv
  <2> QED
    BY <2>2, <2>3, <2>4 DEF StackInv
<1>17. /\ \A k \in Key : Up(k)' <=> Up(k)
       /\ \A c, f : DependsOn(c, f)' = DependsOn(c, f)
  <2>1. \A k \in Key : live'[k] = Nil <=> live[k] = Nil
    BY <1>2, <1>11, <1>12 DEF Live
  <2>2. \A k \in Key : Up(k)' <=> Up(k)
    BY <1>12, <2>1 DEF Up, Exists
  <2> QED
    BY <1>1, <2>2 DEF DependsOn, DependencyOf
<1>18. RegisterInv'
  <2>1. stack' # <<>> => stack'[1] = stack[1]
    BY <1>2, <1>3
  <2>2. ASSUME NEW d \in Key, NEW c \in Key, NEW f \in Field, <<c, f>> \in dependents[d],
               Removing, d = edit.old,
               stack' = <<>> \/ (stack'[1].entered /\ <<c, f>> \notin stack'[1].todo)
        PROVE  cf[c].dep[f] = Unknown
    <3>1. <<c, f>> \notin stack[1].todo
      BY <1>1, <1>2, <1>3, <1>4, <2>1, <2>2
    <3> QED
      BY <1>2, <1>4, <2>2, <3>1 DEF RegisterInv
  <2> QED
    BY <1>1, <1>10, <1>17, <2>2 DEF RegisterInv
<1>19. \A k \in Key : StopDue(k)' <=> StopDue(k) /\ ~(k = t /\ Top.stop)
  <2>1. \A i \in 1 .. n : stack[i].key = t => i = n
    BY <1>1, <1>2, <1>4, StackKeys
  <2> SUFFICES ASSUME NEW k \in Key PROVE StopDue(k)' <=> StopDue(k) /\ ~(k = t /\ Top.stop)
    OBVIOUS
  <2>2. StopDue(k)' <=> \E i \in 1 .. n - 1 : stack[i].key = k /\ stack[i].stop
    BY <1>3 DEF StopDue
  <2>3. CASE k = t
    <3>1. \A i \in 1 .. n - 1 : stack[i].key # t
      BY <1>2, <1>3, <2>1
    <3>2. StopDue(t) <=> Top.stop
      BY <1>2, <1>4, <2>1 DEF StopDue
    <3> QED
      BY <2>2, <2>3, <3>1, <3>2
  <2>4. CASE k # t
    <3>1. \A i \in 1 .. n : stack[i].key = k => i \in 1 .. n - 1
      BY <1>2, <1>4, <2>4
    <3> QED
      BY <1>3, <2>2, <2>4, <3>1 DEF StopDue
  <2> QED
    BY <2>3, <2>4
<1>20. FlagsInv' /\ StopInv'
  <2>1. Top.stop => ~live[t].dependable
    BY <1>2, <1>4 DEF StopInv
  <2>2. \A k \in Key : live'[k].dependable = live[k].dependable /\ live'[k].invalid = live[k].invalid
    BY <1>12
  <2>3. \A k \in Key : live'[k].backed <=> live[k].backed /\ ~(k = t /\ Top.stop)
    BY <1>12
  <2>4. FlagsInv'
    BY <1>1, <1>9, <1>19, <2>1, <2>2, <2>3 DEF FlagsInv
  <2>5. StopInv'
    BY <1>2, <1>3, <2>2 DEF StopInv
  <2> QED
    BY <2>4, <2>5
<1>21. HeldInv'
  <2>1. \A k \in Key : live'[k].dependable = live[k].dependable
    BY <1>12
  <2>2. Held \in Key \cup {Nil}
    BY DEF Held, TypeOK, Edit
  <2>3. stack[1].entered
    BY <1>2, <1>4
  <2> QED
    BY <1>1, <1>9, <2>1, <2>2, <2>3 DEF HeldInv
<1>22. DownInv'
  BY <1>1, <1>5, <1>6, <1>7, <1>12, <1>17, DependsOnKey DEF DownInv
<1>23. UpInv'
  BY <1>1, <1>8, <1>9, <1>12, <1>17, DependsOnKey DEF UpInv
<1>24. BackedIsTrue'
  BY <1>1, <1>2, <1>11, <1>12 DEF BackedIsTrue, Exists, Live
<1>25. BackendOrder'
  <2> SUFFICES ASSUME Top.stop, NEW c \in Key, NEW f \in Field, <<c, f>> \in dependents[t], c \in backend
               PROVE  FALSE
    BY <1>1, <1>2, EntryOf DEF BackendOrder
  <2>1. cf[c] # Nil /\ f \in DepFields(c[1]) /\ Parent(c[1], f) = t[1]
    BY <1>2 DEF RegisterInv
  <2>2. ~live[t].dependable
    BY <1>2, <1>4 DEF StopInv
  <2>3. ~StopDue(c)
    BY <1>1, StackKeys DEF StopDue
  <2>4. live[c].dependable
    BY <2>1, <2>3 DEF BackedIsTrue, FlagsInv
  <2>5. ~Owed(c, f, t)
    BY <1>1, <1>2, <1>4, StackKeys DEF Owed
  <2>6. DependsOn(c, f) = t \/ cf[c].dep[f] = Unknown
    BY <1>2, <2>1 DEF RegisterInv, DependsOn, DependencyOf
  <2>7. Up(DependsOn(c, f)) \/ Owed(c, f, DependsOn(c, f))
    BY <1>5, <2>1, <2>4 DEF DownInv
  <2>8. CASE DependsOn(c, f) = t
    BY <2>2, <2>5, <2>7, <2>8 DEF Up
  <2>9. CASE cf[c].dep[f] = Unknown
    <3>1. DependsOn(c, f) = <<t[1], Unknown>> /\ cf[<<t[1], Unknown>>] = Nil /\ <<t[1], Unknown>> \in Key
      BY <1>2, <2>1, <2>9 DEF DependsOn, DependencyOf, TablesInv
    <3>2. ~Up(<<t[1], Unknown>>)
      BY <3>1 DEF Up, Exists, TablesInv
    <3>3. ~Owed(c, f, <<t[1], Unknown>>)
      BY <3>1 DEF Owed, StackInv
    <3> QED
      BY <2>7, <3>1, <3>2, <3>3
  <2> QED
    BY <2>6, <2>8, <2>9
<1> QED
  BY <1>13, <1>14, <1>15, <1>16, <1>18, <1>20, <1>21, <1>22, <1>23, <1>24, <1>25

(* An entry is registered with one item only.                              *)
LEMMA OneParent ==
    ASSUME IInv, NEW d \in Key, NEW e \in Key, NEW c \in Key, NEW f \in Field,
           <<c, f>> \in dependents[d], <<c, f>> \in dependents[e], Removing => e = edit.old
    PROVE  d = e
<1> USE DEF IInv
<1>1. cf[d] # Nil /\ cf[e] # Nil /\ d[1] = e[1]
  BY DEF RegisterInv
<1>2. d[2] # Unknown /\ e[2] # Unknown
  BY <1>1 DEF TablesInv
<1>3. cf[c].dep[f] = e[2] \/ (cf[c].dep[f] = Unknown /\ Removing /\ e = edit.old)
  BY DEF RegisterInv
<1>4. cf[c].dep[f] = d[2] \/ (cf[c].dep[f] = Unknown /\ Removing /\ d = edit.old)
  BY DEF RegisterInv
<1> QED
  BY <1>1, <1>2, <1>3, <1>4

(* Telling a dependent: it is called next, with its reference cleared when *)
(* the item is going.                                                      *)
LEMMA NotifyInv ==
    ASSUME IInv, NEW c \in Key, NEW g \in Field, Notify(c, g)
    PROVE  IInv'
<1> USE ConstantsAssumption, AcyclicAssumption DEF IInv
<1> DEFINE n == Len(stack)
           t == Top.key
           x == <<c, g>>
<1>1. /\ stack # <<>> /\ Top.entered /\ x \in Top.todo
      /\ UNCHANGED <<live, dependents, backend, edit>>
      /\ stack' = Append([stack EXCEPT ![n] = [Top EXCEPT !.todo = @ \ {x}]], Call(c, FALSE, FALSE))
      /\ cf' = IF Top.going THEN DependencyChange(c, g, Unknown) ELSE cf
  BY DEF Notify
<1>2. /\ n \in Nat /\ n \in 1 .. n /\ t \in Key /\ stack \in Seq(Frame) /\ Top \in Frame
      /\ \A i \in 1 .. n : stack[i] \in Frame /\ stack[i].key \in Key
  BY <1>1, TopFrame DEF TypeOK
<1>3. /\ \A i \in 1 .. n : stack[i].entered
      /\ stack[n] = Top
  BY <1>1, <1>2 DEF StackInv, Top
<1> DEFINE fr == [Top EXCEPT !.todo = @ \ {x}]
<1>4. fr \in Frame /\ Call(c, FALSE, FALSE) \in Frame
  BY <1>2 DEF Frame, Call
<1>5. /\ fr.key = t /\ fr.going = Top.going /\ fr.goinvalid = Top.goinvalid
      /\ fr.entered = Top.entered /\ fr.stop = Top.stop /\ fr.todo = Top.todo \ {x}
  BY <1>2 DEF Frame
<1> HIDE DEF fr
<1>6. /\ Len(stack') = n + 1 /\ stack' \in Seq(Frame) /\ stack' # <<>>
      /\ \A i \in 1 .. n : i # n => stack'[i] = stack[i]
      /\ stack'[n] = fr
      /\ stack'[n + 1] = Call(c, FALSE, FALSE)
  <2>1. stack' = Append([stack EXCEPT ![Len(stack)] = fr], Call(c, FALSE, FALSE))
    BY <1>1 DEF fr
  <2>2. stack \in Seq(Frame) /\ stack # <<>>
    BY <1>1, <1>2
  <2> DEFINE q == [stack EXCEPT ![Len(stack)] = fr]
  <2>3. /\ q \in Seq(Frame) /\ Len(q) = n /\ q[n] = fr
        /\ \A i \in 1 .. n : i # n => q[i] = stack[i]
    BY <1>4, <2>2, ReplaceLast
  <2>4. stack' = Append(q, Call(c, FALSE, FALSE))
    BY <2>1
  <2> HIDE DEF q
  <2> DEFINE a == Call(c, FALSE, FALSE)
  <2>4a. a \in Frame /\ stack' = Append(q, a)
    BY <1>4, <2>4
  <2> HIDE DEF a
  <2>5. /\ Append(q, a) \in Seq(Frame) /\ Append(q, a) # <<>> /\ Len(Append(q, a)) = Len(q) + 1
        /\ \A i \in 1 .. Len(q) : Append(q, a)[i] = q[i]
        /\ Append(q, a)[Len(q) + 1] = a
    BY <2>3, <2>4a, AppendProperties
  <2> QED
    BY <1>2, <2>3, <2>4a, <2>5 DEF a
<1>6a. 1 \in 1 .. n /\ stack'[1] = IF n = 1 THEN fr ELSE stack[1]
  <2>1. 1 \in 1 .. n
    BY <1>2
  <2> QED
    BY <1>6, <2>1
<1>7. Top' = Call(c, FALSE, FALSE)
  BY <1>6 DEF Top
<1>8. /\ x \in dependents[t] /\ cf[c] # Nil /\ cf[c] \in Item /\ c # Detached
      /\ g \in DepFields(c[1]) /\ Parent(c[1], g) = t[1]
  <2>1. x \in dependents[t]
    BY <1>1, <1>2, <1>3 DEF StackInv
  <2> QED
    BY <1>2, <2>1 DEF RegisterInv, TypeOK
<1>9. Top.going => n = 1 /\ Removing /\ t = edit.old
  <2>1. Top.going => ~(n > 1)
    BY <1>2, <1>3 DEF StackInv
  <2>2. Top.going => n = 1
    BY <1>2, <2>1, FirstFrame
  <2> QED
    BY <1>1, <1>3, <2>2 DEF StackInv, Removing
<1>10. /\ cf' \in [Key -> Item \cup {Nil}]
       /\ \A k \in Key : k # c => cf'[k] = cf[k]
       /\ cf'[c] \in Item /\ cf'[c].disabled = cf[c].disabled
       /\ \A h \in Field : (h # g \/ ~Top.going) => cf'[c].dep[h] = cf[c].dep[h]
       /\ Top.going => cf'[c].dep[g] = Unknown
  <2>1. CASE Top.going
    <3> DEFINE new == [cf[c] EXCEPT !.dep = [cf[c].dep EXCEPT ![g] = Unknown]]
    <3>1. new \in Item /\ new.disabled = cf[c].disabled /\ new.dep = [cf[c].dep EXCEPT ![g] = Unknown]
      BY <1>8 DEF Item
    <3>2. cf[c].dep \in [Field -> Uniq]
      BY <1>8 DEF Item
    <3>3. cf' = [cf EXCEPT ![c] = new]
      BY <1>1, <2>1, Zenon DEF DependencyChange
    <3> HIDE DEF new
    <3>4. cf'[c] = new /\ cf' \in [Key -> Item \cup {Nil}] /\ \A k \in Key : k # c => cf'[k] = cf[k]
      BY <3>1, <3>3 DEF TypeOK
    <3> QED
      BY <2>1, <3>1, <3>2, <3>4
  <2>2. CASE ~Top.going
    BY <1>1, <1>8, <2>2 DEF TypeOK
  <2> QED
    BY <2>1, <2>2
<1>11. \A k \in Key : cf'[k] = Nil <=> cf[k] = Nil
  BY <1>8, <1>10
<1>12. Held' = Held /\ Detached' = Detached /\ (Removing' <=> Removing)
  <2>1. stack[1].entered /\ stack'[1].entered
    BY <1>3, <1>5, <1>6a
  <2> QED
    BY <1>1, <1>6, <2>1 DEF Held, Detached, Removing
<1>13. TypeOK'
  BY <1>1, <1>6, <1>10 DEF TypeOK
<1>14. TablesInv'
  BY <1>1, <1>11 DEF TablesInv
<1>15. EditInv'
  <2>1. edit.new # Nil => \A f \in DepFields(edit.new[1]) : edit.phase = "down" => DependencyOf(edit.new[1], edit.ci, f) \in Key
    BY DEF TypeOK, Edit, Item, DependencyOf, EditInv
  <2>2. edit.new # Nil => edit.new \in Key
    BY DEF TypeOK, Edit
  <2>3. edit.old # Nil => edit.old \in Key
    BY DEF TypeOK, Edit
  <2>4. edit.phase # "idle" /\ (edit.phase = "down" => edit.old # Nil)
    BY <1>1 DEF EditInv
  <2>5. edit.phase = "down" /\ edit.new # Nil =>
           \A f \in DepFields(edit.new[1]) : cf'[DependencyOf(edit.new[1], edit.ci, f)] # Nil
    BY <1>11, <2>1 DEF EditInv
  <2> QED
    BY <1>1, <1>11, <2>2, <2>3, <2>4, <2>5 DEF EditInv, DependencyOf
<1>16. /\ \A i \in 1 .. n : /\ stack'[i].key = stack[i].key /\ stack'[i].going = stack[i].going
                             /\ stack'[i].goinvalid = stack[i].goinvalid /\ stack'[i].stop = stack[i].stop
                             /\ stack'[i].entered
                             /\ stack'[i].todo = IF i = n THEN stack[i].todo \ {x} ELSE stack[i].todo
       /\ /\ stack'[n + 1].key = c /\ ~stack'[n + 1].going /\ ~stack'[n + 1].goinvalid
          /\ ~stack'[n + 1].stop /\ ~stack'[n + 1].entered /\ stack'[n + 1].todo = {}
  <2>1. ASSUME NEW i \in 1 .. n, i # n
        PROVE  stack'[i] = stack[i] /\ stack'[i].entered
    BY <1>3, <1>6, <2>1
  <2>2. /\ stack'[n].key = stack[n].key /\ stack'[n].going = stack[n].going
        /\ stack'[n].goinvalid = stack[n].goinvalid /\ stack'[n].stop = stack[n].stop
        /\ stack'[n].entered /\ stack'[n].todo = stack[n].todo \ {x}
    BY <1>1, <1>3, <1>5, <1>6
  <2>3. /\ stack'[n + 1].key = c /\ ~stack'[n + 1].going /\ ~stack'[n + 1].goinvalid
        /\ ~stack'[n + 1].stop /\ ~stack'[n + 1].entered /\ stack'[n + 1].todo = {}
    BY <1>6 DEF Call
  <2> QED
    BY <2>1, <2>2, <2>3
<1>17. Rank(t[1]) < Rank(c[1]) /\ \A i \in 1 .. n : Rank(stack[i].key[1]) < Rank(c[1])
  <2>1. Rank(t[1]) < Rank(c[1])
    BY <1>8
  <2>2. \A i \in 1 .. n : Rank(stack[i].key[1]) \leq Rank(t[1]) /\ Rank(stack[i].key[1]) \in Nat
    BY <1>1, <1>2, StackKeys
  <2> QED
    BY <1>2, <2>1, <2>2
<1>18. StackInv'
  <2>1. /\ stack'[1].key = IF edit'.phase = "up" THEN edit'.new ELSE edit'.old
        /\ stack'[1].going <=> Removing'
        /\ stack'[1].goinvalid <=> edit'.phase = "down" /\ edit'.new # Nil
    <3>1. stack'[1].key = stack[1].key /\ stack'[1].going = stack[1].going /\ stack'[1].goinvalid = stack[1].goinvalid
      BY <1>6a, <1>16
    <3> QED
      BY <1>1, <1>12, <3>1 DEF StackInv
  <2>2. ASSUME NEW i \in 1 .. n
        PROVE  /\ cf'[stack'[i].key] # Nil
               /\ stack'[i].todo \subseteq dependents'[stack'[i].key]
               /\ stack'[i].entered
               /\ i > 1 => ~stack'[i].going /\ ~stack'[i].goinvalid
               /\ \A j \in 1 .. n : i < j => Rank(stack'[i].key[1]) < Rank(stack'[j].key[1])
    <3>1. /\ cf[stack[i].key] # Nil /\ stack[i].todo \subseteq dependents[stack[i].key]
          /\ i > 1 => ~stack[i].going /\ ~stack[i].goinvalid
          /\ \A j \in 1 .. n : i < j => Rank(stack[i].key[1]) < Rank(stack[j].key[1])
      BY DEF StackInv
    <3>2. stack'[i].todo \subseteq stack[i].todo
      BY <1>16
    <3>3. \A j \in 1 .. n : stack'[j].key = stack[j].key
      BY <1>16
    <3>4. cf'[stack'[i].key] # Nil /\ dependents' = dependents
      BY <1>1, <1>2, <1>11, <3>1, <3>3
    <3>5. stack'[i].entered /\ (i > 1 => ~stack'[i].going /\ ~stack'[i].goinvalid)
      BY <1>16, <3>1
    <3> QED
      BY <3>1, <3>2, <3>3, <3>4, <3>5
  <2>3. /\ cf'[stack'[n + 1].key] # Nil
        /\ stack'[n + 1].todo \subseteq dependents'[stack'[n + 1].key]
        /\ \A i \in 1 .. n : Rank(stack'[i].key[1]) < Rank(stack'[n + 1].key[1])
    BY <1>8, <1>11, <1>16, <1>17
  <2>4. \A i \in 1 .. Len(stack') : i \in 1 .. n \/ i = n + 1
    BY <1>2, <1>6
  <2>5. \A i \in 1 .. n : ~(n + 1 < i) /\ ~(n + 1 < n + 1)
    BY <1>2
  <2>6. ASSUME NEW i \in 1 .. Len(stack')
        PROVE  /\ cf'[stack'[i].key] # Nil
               /\ stack'[i].todo \subseteq dependents'[stack'[i].key]
               /\ ~stack'[i].entered => i = Len(stack') /\ stack'[i].todo = {} /\ ~stack'[i].stop
               /\ i > 1 => ~stack'[i].going /\ ~stack'[i].goinvalid
    BY <1>6, <1>16, <2>2, <2>3, <2>4
  <2>7. ASSUME NEW i \in 1 .. Len(stack'), NEW j \in 1 .. Len(stack'), i < j
        PROVE  Rank(stack'[i].key[1]) < Rank(stack'[j].key[1])
    BY <2>2, <2>3, <2>4, <2>5, <2>7
  <2> QED
    BY <2>1, <2>6, <2>7 DEF StackInv
<1>19. \A k \in Key : StopDue(k)' <=> StopDue(k)
  <2>1. \A i \in 1 .. Len(stack') : i \in 1 .. n \/ i = n + 1
    BY <1>2, <1>6
  <2>2. \A i \in 1 .. n : i \in 1 .. Len(stack')
    BY <1>2, <1>6
  <2> QED
    BY <1>16, <2>1, <2>2 DEF StopDue
<1>20. FlagsInv'
  BY <1>1, <1>10, <1>11, <1>12, <1>19 DEF FlagsInv
<1>21. StopInv'
  <2>1. \A i \in 1 .. Len(stack') : i \in 1 .. n \/ i = n + 1
    BY <1>2, <1>6
  <2> QED
    BY <1>1, <1>16, <2>1 DEF StopInv
<1>22. HeldInv'
  BY <1>1, <1>3, <1>6a, <1>12 DEF HeldInv
<1>23. RegisterInv'
  <2>1. ASSUME NEW d \in Key, NEW e \in Key, NEW f \in Field, <<e, f>> \in dependents[d]
        PROVE  \/ cf'[e].dep[f] = cf[e].dep[f]
               \/ cf'[e].dep[f] = Unknown /\ Removing /\ d = edit.old /\ e = c /\ f = g
    <3>1. CASE e = c /\ f = g /\ Top.going
      <4>1. d = t
        BY <1>2, <1>8, <1>9, <2>1, <3>1, OneParent
      <4> QED
        BY <1>9, <1>10, <3>1, <4>1
    <3>2. CASE ~(e = c /\ f = g /\ Top.going)
      BY <1>10, <3>2
    <3> QED
      BY <3>1, <3>2
  <2>2. ASSUME NEW d \in Key, NEW e \in Key, NEW f \in Field, <<e, f>> \in dependents[d],
               Removing, d = edit.old, <<e, f>> \notin stack'[1].todo
        PROVE  cf'[e].dep[f] = Unknown
    <3>1. CASE <<e, f>> \in stack[1].todo
      <4>1. n = 1 /\ e = c /\ f = g
        BY <1>6a, <1>16, <2>2, <3>1
      <4>2. Top.going
        BY <1>1, <1>3, <2>2, <4>1 DEF StackInv
      <4> QED
        BY <1>10, <4>1, <4>2
    <3>2. CASE <<e, f>> \notin stack[1].todo
      <4>1. cf[e].dep[f] = Unknown
        BY <1>3, <1>6a, <2>2, <3>2 DEF RegisterInv
      <4> QED
        BY <2>1, <2>2, <4>1
    <3> QED
      BY <3>1, <3>2
  <2>3. ASSUME NEW e \in Key, NEW f \in DepFields(e[1]), cf'[e] # Nil, e # Detached, cf'[e].dep[f] # Unknown
        PROVE  <<e, f>> \in dependents[DependsOn(e, f)']
    <3>1. f \in Field /\ cf[e] # Nil /\ cf'[e].dep[f] = cf[e].dep[f]
      BY <1>10, <1>11, <2>3
    <3>2. DependsOn(e, f)' = DependsOn(e, f)
      BY <3>1 DEF DependsOn, DependencyOf
    <3> QED
      BY <2>3, <3>1, <3>2 DEF RegisterInv
  <2>4. ASSUME NEW d \in Key, NEW e \in Key, NEW f \in Field, <<e, f>> \in dependents[d]
        PROVE  /\ cf'[d] # Nil /\ cf'[e] # Nil /\ e # Detached
               /\ f \in DepFields(e[1]) /\ Parent(e[1], f) = d[1]
               /\ cf'[e].dep[f] = d[2] \/ (cf'[e].dep[f] = Unknown /\ Removing /\ d = edit.old)
    BY <1>11, <2>1, <2>4 DEF RegisterInv
  <2>5. \A d \in Key, e \in Key, f \in Field : <<e, f>> \in dependents'[d] =>
           /\ cf'[d] # Nil /\ cf'[e] # Nil /\ e # Detached'
           /\ f \in DepFields(e[1]) /\ Parent(e[1], f) = d[1]
           /\ \/ cf'[e].dep[f] = d[2]
              \/ cf'[e].dep[f] = Unknown /\ Removing' /\ d = edit'.old
           /\ Removing' /\ d = edit'.old /\ (stack' = <<>> \/ (stack'[1].entered /\ <<e, f>> \notin stack'[1].todo))
                 => cf'[e].dep[f] = Unknown
    <3>1. dependents' = dependents /\ edit' = edit /\ stack' # <<>>
      BY <1>1, <1>6
    <3> QED
      BY <1>12, <2>2, <2>4, <3>1
  <2>6. \A e \in Key, f \in Field :
           cf'[e] # Nil /\ e # Detached' /\ f \in DepFields(e[1]) /\ cf'[e].dep[f] # Unknown
             => <<e, f>> \in dependents'[DependsOn(e, f)']
    BY <1>1, <1>12, <2>3
  <2> QED
    BY <2>5, <2>6 DEF RegisterInv
<1>24. \A k : (Called(k)' <=> k = c) /\ ~Called(k)
  BY <1>1, <1>6, <1>7 DEF Called, Call
<1>26. \A e \in Key : Pending(e) => Pending(e)'
  <2>1. \A i \in 1 .. n : i \in 1 .. Len(stack')
    BY <1>2, <1>6
  <2>2. ASSUME NEW e \in Key, Pending(e) PROVE Pending(e)'
    <3>1. CASE e = c
      BY <1>24, <3>1 DEF Pending
    <3>2. CASE e # c
      BY <1>16, <1>24, <2>1, <2>2, <3>2 DEF Pending
    <3> QED
      BY <3>1, <3>2
  <2> QED
    BY <2>2
<1>28. \A e \in Key : \A f \in DepFields(e[1]) :
          e # c => DependsOn(e, f)' = DependsOn(e, f) /\ cf'[e] = cf[e]
  BY <1>10 DEF DependsOn, DependencyOf
<1>29. DownInv'
  <2> SUFFICES ASSUME NEW e \in Key, NEW f \in DepFields(e[1]), cf'[e] # Nil, live'[e].dependable, e # c
               PROVE  Up(DependsOn(e, f))' \/ Owed(e, f, DependsOn(e, f))'
    BY <1>24 DEF DownInv
  <2>1. DependsOn(e, f)' = DependsOn(e, f) /\ DependsOn(e, f) \in Key /\ f \in Field /\ cf[e] # Nil
    BY <1>11, <1>28, DependsOnKey
  <2>2. Up(DependsOn(e, f)) \/ Owed(e, f, DependsOn(e, f))
    BY <1>1, <1>24, <2>1 DEF DownInv
  <2>3. Up(DependsOn(e, f)) => Up(DependsOn(e, f))'
    BY <1>1, <2>1 DEF Up, Exists
  <2>4. Owed(e, f, DependsOn(e, f)) => Owed(e, f, DependsOn(e, f))'
    <3>1. \A i \in 1 .. n : i \in 1 .. Len(stack')
      BY <1>2, <1>6
    <3> QED
      BY <1>16, <2>1, <3>1 DEF Owed
  <2> QED
    BY <2>2, <2>3, <2>4
<1>30. UpInv'
  <2> SUFFICES ASSUME NEW e \in Key, cf'[e] # Nil, ~cf'[e].disabled, ~live'[e].dependable, e # c
               PROVE  (\E f \in DepFields(e[1]) : ~Up(DependsOn(e, f))') \/ Pending(e)' \/ e = Held'
    BY <1>24 DEF UpInv, Pending
  <2>1. cf'[e] = cf[e]
    BY <1>10
  <2>2. (\E f \in DepFields(e[1]) : ~Up(DependsOn(e, f))) \/ Pending(e) \/ e = Held
    BY <1>1, <2>1 DEF UpInv
  <2>3. \A f \in DepFields(e[1]) : ~Up(DependsOn(e, f)) => ~Up(DependsOn(e, f))'
    BY <1>1, <1>28 DEF Up, Exists
  <2> QED
    BY <1>12, <1>26, <2>2, <2>3
<1>31. BackedIsTrue' /\ BackendOrder'
  BY <1>1 DEF BackedIsTrue, BackendOrder, Exists
<1> QED
  BY <1>13, <1>14, <1>15, <1>18, <1>20, <1>21, <1>22, <1>23, <1>29, <1>30, <1>31

(* An item that refers to the item of the innermost call is registered     *)
(* with it: it is not the item of the cf_set() under way.                  *)
LEMMA ChildRegistered ==
    ASSUME IInv, stack # <<>>, NEW c \in Key, cf[c] # Nil, NEW f \in DepFields(c[1]),
           DependsOn(c, f) = Top.key
    PROVE  <<c, f>> \in dependents[Top.key] /\ c # Top.key
<1> USE AcyclicAssumption DEF IInv
<1>1. /\ Top.key \in Key /\ Len(stack) \in 1 .. Len(stack) /\ Len(stack) \in Nat
      /\ Top = stack[Len(stack)]
  BY TopFrame DEF Top
<1>2. cf[Top.key] # Nil
  BY <1>1 DEF StackInv
<1>3. Parent(c[1], f) = Top.key[1] /\ cf[c].dep[f] = Top.key[2]
  BY DEF DependsOn, DependencyOf
<1>4. Rank(Top.key[1]) < Rank(c[1])
  BY <1>3
<1>5. cf[c].dep[f] # Unknown
  BY <1>1, <1>2, <1>3 DEF TablesInv
<1>6. c # Detached
  <2>1. 1 \in 1 .. Len(stack) /\ stack[1].key \in Key
    BY <1>1, TopFrame
  <2>2. Rank(stack[1].key[1]) \leq Rank(Top.key[1])
    BY <2>1, StackKeys
  <2>3. stack[1].key # c
    BY <1>1, <1>4, <2>1, <2>2
  <2>4. edit.phase = "down" => stack[1].key = edit.old
    BY DEF StackInv
  <2>5. c # Nil
    BY ConstantsAssumption
  <2> QED
    BY <2>3, <2>4, <2>5 DEF Detached
<1>7. f \in Field
  OBVIOUS
<1> QED
  BY <1>1, <1>4, <1>5, <1>6, <1>7 DEF RegisterInv

(* state_change() looks at an item: its flags follow the items it refers   *)
(* to, and those that refer to it are owed a call when they must hear.     *)
LEMMA StateChangeInv == IInv /\ StateChange => IInv'
<1> SUFFICES ASSUME IInv, StateChange PROVE IInv'
  OBVIOUS
<1> USE ConstantsAssumption, AcyclicAssumption DEF IInv
<1> DEFINE n == Len(stack)
           t == Top.key
           up == Dependable(Top)
           fl == [backed |-> live[t].backed \/ up, invalid |-> Invalid(Top), dependable |-> up]
           fr == [Top EXCEPT !.entered = TRUE,
                             !.todo = IF Changed(Top) THEN dependents[t] ELSE {},
                             !.stop = live[t].backed /\ ~up]
<1>1. /\ stack # <<>> /\ ~Top.entered /\ UNCHANGED <<cf, dependents, edit>>
      /\ live' = [live EXCEPT ![t] = fl]
      /\ backend' = IF up /\ ~live[t].backed THEN backend \cup {t} ELSE backend
      /\ stack' = [stack EXCEPT ![Len(stack)] = fr]
  BY DEF StateChange
<1>2. /\ n \in Nat /\ n \in 1 .. n /\ t \in Key /\ stack \in Seq(Frame) /\ Top \in Frame
      /\ \A i \in 1 .. n : stack[i] \in Frame /\ stack[i].key \in Key
  BY <1>1, TopFrame DEF TypeOK
<1>3. /\ stack[n] = Top /\ cf[t] # Nil /\ cf[t] \in Item
      /\ live[t] \in Live /\ live \in [Key -> Live \cup {Nil}]
      /\ Top.todo = {} /\ ~Top.stop
  <2>1. stack[n] = Top
    BY DEF Top
  <2>2. cf[t] # Nil /\ Top.todo = {} /\ ~Top.stop
    BY <1>1, <1>2, <2>1 DEF StackInv
  <2> QED
    BY <1>2, <2>1, <2>2 DEF TypeOK, TablesInv
<1>4. Invalid(Top) \in BOOLEAN /\ up \in BOOLEAN /\ fl \in Live
  <2>1. Invalid(Top) \in BOOLEAN /\ up \in BOOLEAN
    BY DEF Invalid, Dependable
  <2> HIDE DEF up
  <2> QED
    BY <1>3, <2>1 DEF Live
<1>5. /\ fl.dependable = up /\ fl.invalid = Invalid(Top) /\ (fl.backed <=> live[t].backed \/ up)
  OBVIOUS
<1>6. /\ fr \in Frame /\ fr.key = t /\ fr.going = Top.going /\ fr.goinvalid = Top.goinvalid
      /\ fr.entered /\ fr.todo = (IF Changed(Top) THEN dependents[t] ELSE {})
      /\ fr.stop <=> live[t].backed /\ ~up
  <2>1. dependents[t] \subseteq Entry
    BY <1>2 DEF TypeOK
  <2> DEFINE td == IF Changed(Top) THEN dependents[t] ELSE {}
             st == live[t].backed /\ ~up
  <2>2. td \in SUBSET Entry /\ st \in BOOLEAN
    BY <2>1
  <2>3. fr = [Top EXCEPT !.entered = TRUE, !.todo = td, !.stop = st]
    OBVIOUS
  <2> HIDE DEF td, st, fr
  <2>4. fr \in Frame
    BY <1>2, <2>2, <2>3 DEF Frame
  <2>5. /\ fr.key = t /\ fr.going = Top.going /\ fr.goinvalid = Top.goinvalid
        /\ fr.entered = TRUE /\ fr.todo = td /\ fr.stop = st
    BY <1>2, <2>3 DEF Frame
  <2> QED
    BY <2>4, <2>5 DEF td, st
<1> HIDE DEF fl, fr
<1>7. /\ stack' \in Seq(Frame) /\ Len(stack') = n /\ stack'[n] = fr
      /\ \A i \in 1 .. n : i # n => stack'[i] = stack[i]
  BY <1>1, <1>2, <1>6, ReplaceLast
<1>8. stack' # <<>> /\ Top' = fr /\ Top'.key = t
  BY <1>2, <1>6, <1>7 DEF Top
<1>9. live' \in [Key -> Live \cup {Nil}] /\ live'[t] = fl /\ \A k \in Key : k # t => live'[k] = live[k]
  BY <1>1, <1>2, <1>3, <1>4
<1>10. \A k \in Key : live'[k] = Nil <=> live[k] = Nil
  BY <1>3, <1>4, <1>9 DEF Live
<1>11. /\ up => ~cf[t].disabled /\ ~Top.going /\ ~Top.goinvalid
       /\ up => \A f \in DepFields(t[1]) : Up(DependsOn(t, f))
       /\ ~up /\ ~cf[t].disabled /\ ~Top.going /\ ~Top.goinvalid =>
             \E f \in DepFields(t[1]) : ~Up(DependsOn(t, f))
       /\ ~Top.going /\ ~Top.goinvalid => (Invalid(Top) <=> ~cf[t].disabled /\ ~up)
       /\ Changed(Top) <=> (up => ~live[t].dependable)
  BY DEF Dependable, Invalid, Changed, AllDependable, DependencyList, DependsOn, Up
<1> HIDE DEF up
<1>12. TypeOK'
  BY <1>1, <1>2, <1>7, <1>9 DEF TypeOK
<1>13. EditInv' /\ TablesInv'
  BY <1>1, <1>8, <1>10 DEF EditInv, TablesInv
<1>14. /\ \A i \in 1 .. n : i # n => stack[i].entered /\ stack'[i] = stack[i] /\ stack[i].key # t
       /\ \A i \in 1 .. n : /\ stack'[i].key = stack[i].key /\ stack'[i].going = stack[i].going
                            /\ stack'[i].goinvalid = stack[i].goinvalid /\ stack'[i].entered
  <2>1. \A i \in 1 .. n : i # n => stack[i].entered /\ stack'[i] = stack[i] /\ stack[i].key # t
    BY <1>1, <1>2, <1>3, <1>7, StackKeys DEF StackInv
  <2> QED
    BY <1>3, <1>6, <1>7, <2>1
<1>15. 1 \in 1 .. n /\ stack'[1].entered /\ (n # 1 => stack[1].entered /\ stack[1].key # t) /\ (n = 1 => stack[1] = Top)
  <2>1. 1 \in 1 .. n
    BY <1>2, FirstFrame
  <2> QED
    BY <1>3, <1>14, <2>1
<1>16. Removing' <=> Removing
  BY <1>1 DEF Removing
<1>17. StackInv'
  <2>1. /\ stack'[1].key = IF edit'.phase = "up" THEN edit'.new ELSE edit'.old
        /\ stack'[1].going <=> Removing'
        /\ stack'[1].goinvalid <=> edit'.phase = "down" /\ edit'.new # Nil
    BY <1>1, <1>14, <1>15, <1>16 DEF StackInv
  <2>2. ASSUME NEW i \in 1 .. n PROVE stack'[i].todo \subseteq dependents[stack'[i].key]
    BY <1>6, <1>7, <1>14 DEF StackInv
  <2>3. ASSUME NEW i \in 1 .. n
        PROVE  /\ cf[stack'[i].key] # Nil
               /\ i > 1 => ~stack'[i].going /\ ~stack'[i].goinvalid
               /\ \A j \in 1 .. n : i < j => Rank(stack'[i].key[1]) < Rank(stack'[j].key[1])
    BY <1>14 DEF StackInv
  <2> QED
    BY <1>1, <1>7, <1>14, <2>1, <2>2, <2>3 DEF StackInv
<1>18. Held' = (IF edit.phase = "down" THEN edit.old ELSE Nil) /\ Detached' = Detached
  BY <1>1, <1>15 DEF Held, Detached
<1>19. Held' # t => ~Top.going /\ ~Top.goinvalid
  <2>1. n # 1 => ~Top.going /\ ~Top.goinvalid
    <3>1. n # 1 => n > 1
      BY <1>2, FirstFrame
    <3> QED
      BY <1>2, <1>3, <3>1 DEF StackInv
  <2>2. n = 1 => /\ t = IF edit.phase = "up" THEN edit.new ELSE edit.old
                 /\ Top.going <=> Removing
                 /\ Top.goinvalid <=> edit.phase = "down" /\ edit.new # Nil
    BY <1>1, <1>15 DEF StackInv
  <2> QED
    BY <1>18, <2>1, <2>2 DEF Removing
<1>20. \A k \in Key : k # t /\ k = Held => k = Held'
  <2>1. edit.phase # "down" /\ ~stack[1].entered => n = 1 /\ t = stack[1].key
    BY <1>15
  <2>2. edit.phase # "down" /\ ~stack[1].entered => edit.phase = "up"
    BY <1>1 DEF EditInv, TypeOK, Edit
  <2>3. edit.phase # "down" /\ ~stack[1].entered => t = edit.new
    BY <1>1, <2>1, <2>2 DEF StackInv
  <2> QED
    BY <1>18, <2>3 DEF Held
<1>21. \A k \in Key : /\ k # t => (StopDue(k)' <=> StopDue(k))
                      /\ k = t => ~StopDue(k) /\ (StopDue(k)' <=> live[t].backed /\ ~up)
  <2>1. ASSUME NEW k \in Key, k # t PROVE StopDue(k)' <=> StopDue(k)
    <3>1. \A i \in 1 .. n : stack[i].key = k \/ stack'[i].key = k => stack'[i] = stack[i]
      BY <1>3, <1>6, <1>7, <2>1
    <3> QED
      BY <1>7, <3>1 DEF StopDue
  <2>2. ASSUME NEW k \in Key, k = t PROVE ~StopDue(k) /\ (StopDue(k)' <=> fr.stop)
    <3>1. \A i \in 1 .. n : (stack'[i].key = k <=> i = n) /\ (stack[i].key = k <=> i = n)
      BY <1>2, <1>3, <1>14, <2>2
    <3>2. StopDue(k)' <=> fr.stop
      BY <1>2, <1>7, <3>1 DEF StopDue
    <3> QED
      BY <1>3, <3>1, <3>2 DEF StopDue
  <2> QED
    BY <1>6, <2>1, <2>2
<1>22. FlagsInv'
  <2>1. live[t].backed <=> live[t].dependable
    BY <1>2, <1>3, <1>21 DEF FlagsInv
  <2>2. ASSUME NEW k \in Key, k # t, cf[k] # Nil
        PROVE  /\ live'[k].backed <=> (live'[k].dependable \/ StopDue(k)')
               /\ live'[k].dependable => ~cf[k].disabled
               /\ k # Held' => (live'[k].invalid <=> ~cf[k].disabled /\ ~live'[k].dependable)
    BY <1>9, <1>20, <1>21, <2>2 DEF FlagsInv
  <2>3. ASSUME NEW k \in Key, k = t
        PROVE  /\ live'[k].backed <=> (live'[k].dependable \/ StopDue(k)')
               /\ live'[k].dependable => ~cf[k].disabled
               /\ k # Held' => (live'[k].invalid <=> ~cf[k].disabled /\ ~live'[k].dependable)
    <3>1. live'[k] = fl
      BY <1>9, <2>3
    <3>2. live'[k].backed <=> (live'[k].dependable \/ StopDue(k)')
      BY <1>5, <1>21, <2>3, <3>1
    <3>3. k # Held' => ~Top.going /\ ~Top.goinvalid
      BY <1>19, <2>3
    <3> QED
      BY <1>5, <1>11, <2>3, <3>1, <3>2, <3>3
  <2> QED
    BY <1>1, <2>2, <2>3 DEF FlagsInv
<1>23. HeldInv'
  <2> SUFFICES ASSUME Held' # Nil PROVE ~live'[Held'].dependable
    BY DEF HeldInv
  <2>1. edit.phase = "down" /\ Held' = edit.old /\ Held = edit.old /\ edit.old \in Key
    BY <1>18 DEF Held, TypeOK, Edit
  <2>2. stack[1].key = edit.old /\ (stack[1].going \/ stack[1].goinvalid)
    BY <1>1, <2>1 DEF StackInv, Removing
  <2>3. CASE n = 1
    <3>1. t = edit.old /\ ~up
      BY <1>11, <1>15, <2>2, <2>3
    <3> QED
      BY <1>5, <1>9, <2>1, <3>1
  <2>4. CASE n # 1
    <3>1. edit.old # t /\ stack[1].entered
      BY <1>15, <2>2, <2>4
    <3>2. ~live[edit.old].dependable
      BY <2>1, <3>1 DEF HeldInv
    <3> QED
      BY <1>9, <2>1, <3>1, <3>2
  <2> QED
    BY <2>3, <2>4
<1>24. StopInv'
  <2>1. fr.stop => ~fl.dependable
    BY <1>5, <1>6
  <2>2. \A i \in 1 .. n : i # n => stack'[i] = stack[i] /\ live'[stack[i].key] = live[stack[i].key]
    BY <1>2, <1>9, <1>14
  <2> QED
    BY <1>6, <1>7, <1>9, <2>1, <2>2 DEF StopInv
<1>25. RegisterInv'
  <2>1. \A c, f : DependsOn(c, f)' = DependsOn(c, f)
    BY <1>1 DEF DependsOn, DependencyOf
  <2>2. ASSUME NEW c \in Key, NEW f \in Field, <<c, f>> \in dependents[edit.old], Removing,
               <<c, f>> \notin stack'[1].todo, edit.old \in Key
        PROVE  cf[c].dep[f] = Unknown
    <3>1. CASE n = 1
      <4>1. t = edit.old /\ Top.going
        BY <1>1, <1>15, <2>2, <3>1 DEF StackInv, Removing
      <4>2. ~up
        BY <1>11, <4>1
      <4>3. fr.todo = dependents[t]
        BY <1>6, <1>11, <4>2
      <4> QED
        BY <1>7, <2>2, <3>1, <4>1, <4>3
    <3>2. CASE n # 1
      <4>1. stack'[1] = stack[1] /\ stack[1].entered
        BY <1>7, <1>15, <3>2
      <4> QED
        BY <2>2, <4>1 DEF RegisterInv
    <3> QED
      BY <3>1, <3>2
  <2> QED
    BY <1>1, <1>8, <1>16, <1>18, <2>1, <2>2 DEF RegisterInv
<1>26. \A k : (Called(k) <=> k = t) /\ ~Called(k)'
  BY <1>1, <1>6, <1>8 DEF Called
<1>27. \A k \in Key : (k # t => (Up(k)' <=> Up(k))) /\ (k = t => (Up(k)' <=> up) /\ (Up(k) <=> live[t].dependable))
  BY <1>3, <1>4, <1>5, <1>9, <1>10 DEF Up, Exists, Live
<1>28. \A c, f : DependsOn(c, f)' = DependsOn(c, f)
  BY <1>1 DEF DependsOn, DependencyOf
<1>29. \A c, f, d : Owed(c, f, d) => Owed(c, f, d)'
  <2>1. \A i \in 1 .. n : stack[i].todo # {} => stack'[i] = stack[i]
    BY <1>3, <1>7
  <2> QED
    BY <1>7, <2>1 DEF Owed
<1>30. \A c : Pending(c) /\ c # t => Pending(c)'
  <2>1. \A i \in 1 .. n : stack[i].todo # {} => stack'[i] = stack[i]
    BY <1>3, <1>7
  <2> QED
    BY <1>7, <1>26, <2>1 DEF Pending
<1>31. ASSUME NEW c \in Key, cf[c] # Nil, NEW f \in DepFields(c[1]), DependsOn(c, f) = t, Changed(Top)
       PROVE  Owed(c, f, DependsOn(c, f))' /\ Pending(c)' /\ c # t
  <2>1. <<c, f>> \in dependents[t] /\ c # t /\ f \in Field
    BY <1>1, <1>31, ChildRegistered
  <2>2. stack'[n].key = t /\ <<c, f>> \in stack'[n].todo
    BY <1>6, <1>7, <1>31, <2>1
  <2>3. DependsOn(c, f)' = t
    BY <1>28, <1>31
  <2>4. Owed(c, f, DependsOn(c, f))'
    BY <1>2, <1>7, <2>2, <2>3 DEF Owed
  <2>5. Pending(c)'
    BY <1>2, <1>7, <2>1, <2>2 DEF Pending
  <2> QED
    BY <2>1, <2>4, <2>5
<1>32. DownInv'
  <2> SUFFICES ASSUME NEW c \in Key, NEW f \in DepFields(c[1]), cf[c] # Nil, live'[c].dependable
               PROVE  Up(DependsOn(c, f))' \/ Owed(c, f, DependsOn(c, f))'
    BY <1>1 DEF DownInv
  <2> DEFINE d == DependsOn(c, f)
  <2>1. d \in Key /\ d # c /\ d' = d
    BY <1>28, DependsOnKey
  <2>2. CASE c = t
    <3>1. up
      BY <1>5, <1>9, <2>2
    <3>2. Up(d)
      BY <1>11, <2>2, <3>1
    <3>3. Up(d)'
      BY <1>27, <2>1, <2>2, <3>2
    <3> QED
      BY <3>3
  <2>3. CASE c # t
    <3>1. Up(d) \/ Owed(c, f, d)
      BY <1>9, <1>26, <2>3 DEF DownInv
    <3>2. CASE d # t
      BY <1>27, <1>29, <2>1, <3>1, <3>2 DEF Owed
    <3>3. CASE d = t
      <4>1. CASE up
        BY <1>27, <2>1, <3>3, <4>1
      <4>2. CASE ~up
        BY <1>11, <1>31, <3>3, <4>2
      <4> QED
        BY <4>1, <4>2
    <3> QED
      BY <3>2, <3>3
  <2> QED
    BY <2>2, <2>3
<1>33. UpInv'
  <2> SUFFICES ASSUME NEW c \in Key, cf[c] # Nil, ~cf[c].disabled, ~live'[c].dependable
               PROVE  (\E f \in DepFields(c[1]) : ~Up(DependsOn(c, f))') \/ Pending(c)' \/ c = Held'
    BY <1>1 DEF UpInv
  <2>1. \A f \in DepFields(c[1]) : DependsOn(c, f) \in Key /\ DependsOn(c, f) # c
    BY DependsOnKey
  <2>2. CASE c = t
    <3>1. ~up
      BY <1>5, <1>9, <2>2
    <3>2. c # Held' => \E f \in DepFields(c[1]) : ~Up(DependsOn(c, f))
      BY <1>11, <1>19, <2>2, <3>1
    <3>3. \A f \in DepFields(c[1]) : Up(DependsOn(c, f))' <=> Up(DependsOn(c, f))
      BY <1>27, <1>28, <2>1, <2>2
    <3> QED
      BY <3>2, <3>3
  <2>3. CASE c # t
    <3>1. (\E f \in DepFields(c[1]) : ~Up(DependsOn(c, f))) \/ Pending(c) \/ c = Held
      BY <1>9, <2>3 DEF UpInv
    <3>2. ASSUME NEW f \in DepFields(c[1]), ~Up(DependsOn(c, f)), Up(DependsOn(c, f))'
          PROVE  Pending(c)'
      <4>1. DependsOn(c, f) = t /\ up
        BY <1>27, <1>28, <2>1, <3>2
      <4>2. ~live[t].dependable
        BY <1>2, <1>27, <3>2, <4>1
      <4> QED
        BY <1>11, <1>31, <4>1, <4>2
    <3> QED
      BY <1>20, <1>30, <2>3, <3>1, <3>2
  <2> QED
    BY <2>2, <2>3
<1>34. BackedIsTrue'
  BY <1>1, <1>2, <1>3, <1>5, <1>9, <1>10 DEF BackedIsTrue, Exists
<1>35. BackendOrder'
  <2> SUFFICES ASSUME NEW d \in Key, NEW f \in Field, <<t, f>> \in dependents[d], up
               PROVE  d \in backend
    BY <1>1, <1>2, EntryOf DEF BackendOrder
  <2>1. /\ cf[d] # Nil /\ f \in DepFields(t[1]) /\ Parent(t[1], f) = d[1]
        /\ cf[t].dep[f] = d[2] \/ cf[t].dep[f] = Unknown
    BY <1>2 DEF RegisterInv
  <2>2. Up(DependsOn(t, f))
    BY <1>11, <2>1
  <2>3. DependsOn(t, f) = d \/ DependsOn(t, f) = <<d[1], Unknown>>
    BY <2>1 DEF DependsOn, DependencyOf
  <2>4. <<d[1], Unknown>> \in Key /\ ~Up(<<d[1], Unknown>>)
    BY DEF Up, Exists, TablesInv
  <2>5. live[d].dependable
    BY <2>2, <2>3, <2>4 DEF Up
  <2> QED
    BY <2>1, <2>5 DEF FlagsInv, BackedIsTrue, TablesInv, Exists
<1> QED
  BY <1>12, <1>13, <1>17, <1>22, <1>23, <1>24, <1>25, <1>32, <1>33, <1>34, <1>35

(* The new item takes the place of the old one: the flags and dependents   *)
(* it inherits are those of an item that is down, so its dependents stay   *)
(* as they are, now referring to the new key.                              *)
LEMMA InstallInv == IInv /\ Install => IInv'
<1> SUFFICES ASSUME IInv, Install PROVE IInv'
  OBVIOUS
<1> USE ConstantsAssumption, AcyclicAssumption DEF IInv
<1> DEFINE o == edit.old
           m == edit.new
           ci == edit.ci
           base(k) == IF k = m THEN Inherited ELSE IF k = o THEN {} ELSE dependents[k]
           fl == IF o # Nil THEN live[o] ELSE EmptyLive
<1>1. /\ edit.phase = "down" /\ stack = <<>> /\ m # Nil
      /\ cf' = [k \in Key |-> IF k = m THEN ci ELSE IF k = o THEN Nil ELSE Repointed(k)]
      /\ live' = [k \in Key |-> IF k = m THEN fl ELSE IF k = o THEN Nil ELSE live[k]]
      /\ dependents' = [k \in Key |-> base(k) \cup Registrations(m, ci, k)]
      /\ stack' = <<Call(m, FALSE, FALSE)>>
      /\ edit' = [edit EXCEPT !.phase = "up"] /\ backend' = backend
  BY DEF Install
<1>2. /\ m \in Key /\ ci \in Item /\ m[2] # Unknown /\ o \in Key \cup {Nil}
      /\ m = o \/ cf[m] = Nil
      /\ o # Nil => o[1] = m[1] /\ cf[o] # Nil /\ live[o] \in Live
  BY <1>1 DEF EditInv, TypeOK, Edit, TablesInv
<1>3. /\ edit'.phase = "up" /\ edit'.old = o /\ edit'.new = m /\ edit'.ci = ci /\ edit' \in Edit
  BY <1>1 DEF TypeOK, Edit
<1>4. Detached = o /\ Held = o /\ ~Removing /\ Detached' = Nil /\ ~Removing'
  BY <1>1, <1>3 DEF Detached, Held, Removing
<1>5. /\ Len(stack') = 1 /\ stack' # <<>> /\ stack'[1] = Call(m, FALSE, FALSE)
      /\ Call(m, FALSE, FALSE) \in Frame /\ stack' \in Seq(Frame)
  <2>1. Call(m, FALSE, FALSE) \in Frame
    BY <1>2 DEF Call, Frame
  <2> DEFINE a == Call(m, FALSE, FALSE)
  <2>2. stack' = <<a>> /\ a \in Frame
    BY <1>1, <2>1
  <2> HIDE DEF a
  <2>3. Len(stack') = 1 /\ stack' # <<>> /\ stack'[1] = a /\ stack' \in Seq(Frame)
    BY <2>2
  <2> QED
    BY <2>1, <2>3 DEF a
<1>6. Held' = m
  BY <1>3, <1>5 DEF Held, Call
<1>7. \A c, f, d : ~Owed(c, f, d) /\ ~Pending(c) /\ ~Called(c) /\ ~StopDue(c) /\ ~StopDue(c)'
  BY <1>1, <1>5 DEF Owed, Pending, Called, StopDue, Call
<1>8. fl \in Live /\ ~fl.dependable /\ ~fl.backed
  <2>1. CASE o # Nil
    <3>1. ~live[o].dependable
      BY <1>1, <1>4, <2>1 DEF HeldInv
    <3>2. ~live[o].backed
      BY <1>2, <1>7, <2>1, <3>1 DEF FlagsInv
    <3> QED
      BY <1>2, <2>1, <3>1, <3>2
  <2>2. CASE o = Nil
    BY <2>2 DEF EmptyLive, Live
  <2> QED
    BY <2>1, <2>2
<1> HIDE DEF fl
<1>9. /\ live' \in [Key -> Live \cup {Nil}] /\ live'[m] = fl
      /\ \A k \in Key : k # m /\ k # o => live'[k] = live[k]
      /\ o # Nil /\ o # m => live'[o] = Nil
  BY <1>1, <1>2, <1>8 DEF TypeOK
<1>10. ASSUME NEW k \in Key, cf[k] # Nil
       PROVE  /\ Repointed(k) \in Item /\ Repointed(k).disabled = cf[k].disabled
              /\ \A f \in Field : Repointed(k).dep[f] =
                    IF o # Nil /\ o # m /\ <<k, f>> \in dependents[o] THEN m[2] ELSE cf[k].dep[f]
  <2>1. cf[k] \in Item
    BY <1>10 DEF TypeOK
  <2>2. CASE MovedFrom # Nil
    <3> DEFINE dp == [f \in Field |-> IF <<k, f>> \in Inherited THEN edit.new[2] ELSE cf[k].dep[f]]
    <3>1. Repointed(k) = [cf[k] EXCEPT !.dep = dp]
      BY <1>10, <2>2 DEF Repointed
    <3>2. dp \in [Field -> Uniq]
      BY <1>2, <2>1 DEF Item
    <3>3. o # Nil /\ o # m /\ Inherited = dependents[o]
      BY <2>2 DEF MovedFrom, Inherited
    <3>4. \A f \in Field : dp[f] = IF <<k, f>> \in dependents[o] THEN m[2] ELSE cf[k].dep[f]
      BY <3>3
    <3> HIDE DEF dp
    <3>5. Repointed(k) \in Item /\ Repointed(k).disabled = cf[k].disabled /\ Repointed(k).dep = dp
      BY <2>1, <3>1, <3>2 DEF Item
    <3> QED
      BY <3>3, <3>4, <3>5
  <2>3. CASE MovedFrom = Nil
    <3>1. Repointed(k) = cf[k] /\ (o = Nil \/ o = m)
      BY <2>3 DEF Repointed, MovedFrom
    <3> QED
      BY <2>1, <3>1
  <2> QED
    BY <2>2, <2>3
<1>11. \A k \in Key : cf[k] = Nil => Repointed(k) = Nil
  BY DEF Repointed
<1>12. /\ cf' \in [Key -> Item \cup {Nil}] /\ cf'[m] = ci
       /\ \A k \in Key : k # m /\ k # o => cf'[k] = Repointed(k)
       /\ o # Nil /\ o # m => cf'[o] = Nil
  BY <1>1, <1>2, <1>10, <1>11
<1>13. \A k \in Key : k # m /\ k # o => (cf'[k] = Nil <=> cf[k] = Nil)
  BY <1>10, <1>11, <1>12
<1>14. /\ o # Nil => \A f \in Field, d \in Key : <<o, f>> \notin dependents[d]
       /\ \A f \in Field, d \in Key : <<m, f>> \notin dependents[d]
       /\ m # o => dependents[m] = {}
  <2>1. o # Nil => \A f \in Field, d \in Key : <<o, f>> \notin dependents[d]
    BY <1>2, <1>4 DEF RegisterInv
  <2>2. \A f \in Field, d \in Key : <<m, f>> \notin dependents[d]
    BY <1>2, <1>4 DEF RegisterInv
  <2>3. m # o => dependents[m] = {}
    BY <1>2, EntryOf DEF RegisterInv
  <2> QED
    BY <2>1, <2>2, <2>3
<1>15. /\ Inherited \subseteq Entry /\ (o = Nil => Inherited = {}) /\ (o # Nil => Inherited = dependents[o])
  BY <1>2 DEF Inherited, TypeOK
<1>16. \A d \in Key : /\ dependents'[d] = base(d) \cup Registrations(m, ci, d)
                      /\ base(d) \subseteq Entry
                      /\ Registrations(m, ci, d) \subseteq Entry
  BY <1>1, <1>2, <1>15 DEF Registrations, TypeOK
<1>17. \A c \in Key, f \in Field, d \in Key :
          <<c, f>> \in Registrations(m, ci, d) <=> c = m /\ f \in DepFields(m[1]) /\ DependencyOf(m[1], ci, f) = d
  BY DEF Registrations
<1>18. \A f \in DepFields(m[1]) :
          /\ DependencyOf(m[1], ci, f) \in Key /\ cf[DependencyOf(m[1], ci, f)] # Nil
          /\ DependencyOf(m[1], ci, f) # m /\ DependencyOf(m[1], ci, f) # o
  <2>1. \A f \in DepFields(m[1]) : DependencyOf(m[1], ci, f) \in Key /\ DependencyOf(m[1], ci, f)[1] = Parent(m[1], f)
    BY <1>2 DEF DependencyOf, Item
  <2>2. \A f \in DepFields(m[1]) : Parent(m[1], f) # m[1]
    BY <1>2
  <2>3. \A f \in DepFields(m[1]) : cf[DependencyOf(m[1], ci, f)] # Nil
    BY <1>1 DEF EditInv
  <2> QED
    BY <1>2, <2>1, <2>2, <2>3
<1> DEFINE Other(c) == c \in Key /\ c # m /\ c # o /\ cf[c] # Nil
<1>19. ASSUME NEW c \in Key, Other(c), NEW f \in DepFields(c[1])
       PROVE  /\ f \in Field /\ DependsOn(c, f) \in Key
              /\ DependsOn(c, f)' = IF DependsOn(c, f) = o THEN m ELSE DependsOn(c, f)
              /\ o # Nil => (<<c, f>> \in dependents[o] <=> DependsOn(c, f) = o)
              /\ cf[c].dep[f] # Unknown => <<c, f>> \in dependents[DependsOn(c, f)]
  <2>1. f \in Field /\ DependsOn(c, f) \in Key
    BY <1>19, DependsOnKey
  <2>2. cf[c].dep[f] # Unknown => <<c, f>> \in dependents[DependsOn(c, f)]
    BY <1>4, <1>19, <2>1 DEF RegisterInv
  <2>3. ASSUME o # Nil PROVE <<c, f>> \in dependents[o] <=> DependsOn(c, f) = o
    <3>1. o \in Key /\ o[2] # Unknown
      BY <1>2, <2>3 DEF TablesInv
    <3>2. DependsOn(c, f) = o => cf[c].dep[f] = o[2]
      BY DEF DependsOn, DependencyOf
    <3>3. <<c, f>> \in dependents[o] => Parent(c[1], f) = o[1] /\ cf[c].dep[f] = o[2]
      BY <1>4, <2>1, <3>1 DEF RegisterInv
    <3> QED
      BY <2>2, <3>1, <3>2, <3>3 DEF DependsOn, DependencyOf
  <2>4. cf'[c].dep[f] = IF o # Nil /\ o # m /\ <<c, f>> \in dependents[o] THEN m[2] ELSE cf[c].dep[f]
    BY <1>10, <1>12, <1>19, <2>1
  <2>5. DependsOn(c, f)' = <<Parent(c[1], f), cf'[c].dep[f]>> /\ DependsOn(c, f) = <<Parent(c[1], f), cf[c].dep[f]>>
    BY DEF DependsOn, DependencyOf
  <2>6. CASE DependsOn(c, f) = o
    <3>1. o # Nil /\ Parent(c[1], f) = m[1] /\ cf[c].dep[f] = o[2] /\ (o = m => o[2] = m[2])
      BY <1>2, <2>1, <2>5, <2>6
    <3>2. cf'[c].dep[f] = m[2]
      BY <2>3, <2>4, <2>6, <3>1
    <3>3. DependsOn(c, f)' = m
      BY <1>2, <2>5, <3>1, <3>2
    <3> QED
      BY <2>1, <2>2, <2>3, <2>6, <3>3
  <2>7. CASE DependsOn(c, f) # o
    <3>1. DependsOn(c, f)' = DependsOn(c, f)
      BY <2>3, <2>4, <2>5, <2>7
    <3> QED
      BY <2>1, <2>2, <2>3, <2>7, <3>1
  <2> QED
    BY <2>6, <2>7
<1>20. \A c \in Key : cf'[c] # Nil /\ c # m => Other(c) /\ live'[c] = live[c] /\ cf'[c].disabled = cf[c].disabled
  BY <1>2, <1>9, <1>10, <1>12, <1>13
<1>21. TypeOK'
  <2>1. dependents' \in [Key -> SUBSET Entry]
    BY <1>1, <1>16
  <2> QED
    BY <1>1, <1>3, <1>5, <1>9, <1>12, <2>1 DEF TypeOK
<1>22. EditInv'
  BY <1>2, <1>3, <1>12 DEF EditInv
<1>23. StackInv'
  BY <1>2, <1>3, <1>4, <1>5, <1>12 DEF StackInv, Call
<1>24. TablesInv'
  <2>1. \A k \in Key : cf'[k] = Nil <=> live'[k] = Nil
    BY <1>2, <1>8, <1>9, <1>12, <1>13 DEF TablesInv, Live
  <2>2. \A p \in Path : cf'[<<p, Unknown>>] = Nil
    <3> TAKE p \in Path
    <3>1. <<p, Unknown>> \in Key /\ <<p, Unknown>> # m /\ cf[<<p, Unknown>>] = Nil
      BY <1>2 DEF TablesInv
    <3> QED
      BY <1>12, <1>13, <3>1
  <2> QED
    BY <2>1, <2>2 DEF TablesInv
<1>25. RegisterInv'
  <2>1. ASSUME NEW d \in Key, NEW c \in Key, NEW f \in Field, <<c, f>> \in dependents'[d]
        PROVE  /\ cf'[d] # Nil /\ cf'[c] # Nil
               /\ f \in DepFields(c[1]) /\ Parent(c[1], f) = d[1] /\ cf'[c].dep[f] = d[2]
    <3>1. CASE <<c, f>> \in Registrations(m, ci, d)
      <4>1. c = m /\ f \in DepFields(m[1]) /\ DependencyOf(m[1], ci, f) = d
        BY <1>17, <3>1
      <4>2. cf'[d] # Nil
        BY <1>13, <1>18, <4>1
      <4> QED
        BY <1>2, <1>12, <4>1, <4>2 DEF DependencyOf
    <3>2. CASE <<c, f>> \in base(d)
      <4>1. \E e \in Key : <<c, f>> \in dependents[e] /\ (d = m => e = o) /\ (d # m => e = d /\ d # o)
        BY <1>2, <1>15, <3>2
      <4>2. PICK e \in Key : <<c, f>> \in dependents[e] /\ (d = m => e = o) /\ (d # m => e = d /\ d # o)
        BY <4>1
      <4>3. /\ cf[e] # Nil /\ cf[c] # Nil /\ f \in DepFields(c[1])
            /\ Parent(c[1], f) = e[1] /\ cf[c].dep[f] = e[2]
        BY <1>4, <4>2 DEF RegisterInv
      <4>4. Other(c)
        BY <1>2, <1>14, <4>2, <4>3
      <4>5. DependsOn(c, f) = e
        BY <4>3 DEF DependsOn, DependencyOf
      <4>6. DependsOn(c, f)' = d
        BY <1>19, <4>2, <4>3, <4>4, <4>5
      <4>7. Parent(c[1], f) = d[1] /\ cf'[c].dep[f] = d[2]
        BY <4>6 DEF DependsOn, DependencyOf
      <4>8. cf'[d] # Nil /\ cf'[c] # Nil
        BY <1>2, <1>12, <1>13, <4>2, <4>3, <4>4
      <4> QED
        BY <4>3, <4>7, <4>8
    <3> QED
      BY <1>16, <2>1, <3>1, <3>2
  <2>2. ASSUME NEW c \in Key, NEW f \in DepFields(c[1]), cf'[c] # Nil, cf'[c].dep[f] # Unknown
        PROVE  <<c, f>> \in dependents'[DependsOn(c, f)']
    <3>1. CASE c = m
      <4>1. DependsOn(c, f)' = DependencyOf(m[1], ci, f)
        BY <1>12, <3>1 DEF DependsOn, DependencyOf
      <4> QED
        BY <1>16, <1>17, <1>18, <3>1, <4>1
    <3>2. CASE c # m
      <4>1. Other(c)
        BY <1>20, <2>2, <3>2
      <4> DEFINE d == DependsOn(c, f)
      <4>2. CASE d = o
        <5>1. o # Nil /\ <<c, f>> \in dependents[o] /\ DependsOn(c, f)' = m
          BY <1>19, <4>1, <4>2
        <5>2. base(m) = dependents[o]
          BY <1>15, <5>1
        <5> QED
          BY <1>2, <1>16, <5>1, <5>2
      <4>3. CASE d # o
        <5>1. d \in Key /\ DependsOn(c, f)' = d /\ (cf[c].dep[f] # Unknown => <<c, f>> \in dependents[d])
          BY <1>19, <4>1, <4>3
        <5>2. cf'[c].dep[f] = cf[c].dep[f]
          BY <5>1 DEF DependsOn, DependencyOf
        <5>3. <<c, f>> \in dependents[d] /\ d # m
          BY <1>14, <2>2, <4>3, <5>1, <5>2
        <5> QED
          BY <1>16, <4>3, <5>1, <5>3
      <4> QED
        BY <4>2, <4>3
    <3> QED
      BY <3>1, <3>2
  <2> QED
    BY <1>4, <2>1, <2>2 DEF RegisterInv
<1>26. FlagsInv'
  <2>1. ASSUME NEW k \in Key, cf'[k] # Nil, k # m
        PROVE  /\ live'[k].backed <=> live'[k].dependable
               /\ live'[k].dependable => ~cf'[k].disabled
               /\ live'[k].invalid <=> ~cf'[k].disabled /\ ~live'[k].dependable
    BY <1>4, <1>7, <1>20, <2>1 DEF FlagsInv
  <2> QED
    BY <1>2, <1>6, <1>7, <1>8, <1>9, <2>1 DEF FlagsInv
<1>27. HeldInv' /\ StopInv'
  BY <1>5, <1>6, <1>8, <1>9 DEF HeldInv, StopInv, Call
<1>28. ASSUME NEW c \in Key, Other(c), NEW f \in DepFields(c[1])
       PROVE  Up(DependsOn(c, f))' <=> Up(DependsOn(c, f))
  <2> DEFINE d == DependsOn(c, f)
  <2>1. d \in Key /\ d' = IF d = o THEN m ELSE d
    BY <1>19, <1>28
  <2>2. ~Up(m)'
    BY <1>3, <1>8, <1>9 DEF Up, Exists
  <2>3. o # Nil => ~Up(o)
    BY <1>1, <1>4 DEF Up, HeldInv
  <2>4. m # o => ~Up(m)
    BY <1>2 DEF Up, Exists, TablesInv
  <2>5. edit'.new = m
    BY <1>3
  <2>6. CASE d = o
    <3>1. d' = m /\ ~Up(d)
      BY <2>1, <2>3, <2>6
    <3>2. ~Up(d)'
      BY <1>8, <1>9, <3>1 DEF Up, Exists
    <3> QED
      BY <3>1, <3>2
  <2>7. CASE d # o /\ d = m
    <3>1. d' = m /\ ~Up(d)
      BY <2>1, <2>4, <2>7
    <3>2. ~Up(d)'
      BY <1>8, <1>9, <3>1 DEF Up, Exists
    <3> QED
      BY <3>1, <3>2
  <2>8. CASE d # o /\ d # m
    BY <1>9, <2>1, <2>8 DEF Up, Exists
  <2> QED
    BY <2>6, <2>7, <2>8
<1>29. DownInv'
  <2> SUFFICES ASSUME NEW c \in Key, NEW f \in DepFields(c[1]), cf'[c] # Nil, live'[c].dependable
               PROVE  Up(DependsOn(c, f))'
    BY DEF DownInv
  <2>1. c # m
    BY <1>8, <1>9
  <2>2. Other(c) /\ live[c].dependable
    BY <1>20, <2>1
  <2>3. Up(DependsOn(c, f))
    BY <1>7, <2>2 DEF DownInv
  <2> QED
    BY <1>28, <2>2, <2>3
<1>30. UpInv'
  <2> SUFFICES ASSUME NEW c \in Key, cf'[c] # Nil, ~cf'[c].disabled, ~live'[c].dependable, c # m
               PROVE  \E f \in DepFields(c[1]) : ~Up(DependsOn(c, f))'
    BY <1>6 DEF UpInv
  <2>1. Other(c) /\ ~live[c].dependable /\ ~cf[c].disabled
    BY <1>20
  <2>2. \E f \in DepFields(c[1]) : ~Up(DependsOn(c, f))
    BY <1>4, <1>7, <2>1 DEF UpInv
  <2> QED
    BY <1>28, <2>1, <2>2
<1>31. m \notin backend /\ (o # Nil => o \notin backend)
  <2>1. o # Nil => o \notin backend
    <3>1. o # Nil => fl = live[o]
      BY DEF fl
    <3> QED
      BY <1>2, <1>8, <3>1 DEF BackedIsTrue
  <2>2. m # o => m \notin backend
    BY <1>2 DEF BackedIsTrue, TablesInv, Exists
  <2> QED
    BY <1>1, <2>1, <2>2
<1>32. BackedIsTrue'
  BY <1>1, <1>2, <1>8, <1>9, <1>31 DEF BackedIsTrue, Exists
<1>33. BackendOrder'
  <2> SUFFICES ASSUME NEW d \in Key, NEW c \in Key, NEW f \in Field, <<c, f>> \in dependents'[d], c \in backend
               PROVE  d \in backend
    <3>1. \A d \in Key : \A e \in dependents'[d] : e \in Key \X Field
      BY <1>16
    <3>2. \A d \in Key : \A e \in dependents'[d] : e = <<e[1], e[2]>> /\ e[1] \in Key /\ e[2] \in Field
      BY <3>1, PairOf
    <3> QED
      BY <1>1, <3>2 DEF BackendOrder
  <2>1. <<c, f>> \notin Registrations(m, ci, d)
    BY <1>17, <1>31
  <2>2. <<c, f>> \in base(d)
    BY <1>16, <2>1
  <2>3. o # Nil => <<c, f>> \notin dependents[o]
    BY <1>2, <1>31 DEF BackendOrder
  <2>4. <<c, f>> \in dependents[d]
    BY <1>15, <2>2, <2>3
  <2> QED
    BY <2>4 DEF BackendOrder
<1> QED
  BY <1>21, <1>22, <1>23, <1>24, <1>25, <1>26, <1>27, <1>29, <1>30, <1>32, <1>33

(* Every step of the engine preserves the invariant.                       *)
LEMMA NextInv == Disciplined /\ IInv /\ [Next]_vars => IInv'
<1> SUFFICES ASSUME Disciplined, IInv, [Next]_vars PROVE IInv'
  OBVIOUS
<1>1. ASSUME NEW p \in Path, NEW ci \in Items(p), CfAdd(p, ci) PROVE IInv'
  BY <1>1, CfAddInv
<1>2. ASSUME NEW k \in Key, NEW ci \in Items(k[1]), CfChange(k, ci) PROVE IInv'
  BY <1>2, CfChangeInv
<1>3. ASSUME NEW k \in Key, CfRemove(k) PROVE IInv'
  BY <1>3, CfRemoveInv
<1>4. ASSUME StateChange PROVE IInv'
  BY <1>4, StateChangeInv
<1>5. ASSUME NEW c \in Key, NEW f \in Field, Notify(c, f) PROVE IInv'
  BY <1>5, NotifyInv
<1>6. ASSUME Return PROVE IInv'
  BY <1>6, ReturnInv
<1>7. ASSUME Install PROVE IInv'
  BY <1>7, InstallInv
<1>8. ASSUME Delete PROVE IInv'
  BY <1>8, DeleteInv
<1>9. ASSUME Finish PROVE IInv'
  BY <1>9, FinishInv
<1>10. ASSUME UNCHANGED vars PROVE IInv'
  <2> USE <1>10 DEF vars, IInv
  <2>1. TypeOK' /\ EditInv' /\ TablesInv' /\ BackedIsTrue' /\ BackendOrder'
    BY DEF TypeOK, EditInv, TablesInv, BackedIsTrue, BackendOrder, Exists, DependencyOf
  <2>2. StackInv' /\ StopInv'
    BY DEF StackInv, StopInv, Removing
  <2>3. Detached' = Detached /\ Held' = Held /\ (Removing' <=> Removing)
    BY DEF Detached, Held, Removing
  <2>4. UNCHANGED <<cf, live, dependents, backend, stack, edit>>
    OBVIOUS
  <2>5. RegisterInv'
    BY <2>3, <2>4 DEF RegisterInv, DependsOn, DependencyOf
  <2>6. FlagsInv' /\ HeldInv'
    BY <2>3, <2>4 DEF FlagsInv, HeldInv, StopDue
  <2>7. \A c \in Key, f \in Field : DependsOn(c, f)' = DependsOn(c, f)
    BY <2>4 DEF DependsOn, DependencyOf
  <2>8. \A k \in Key : (Up(k)' <=> Up(k)) /\ (Called(k)' <=> Called(k)) /\ (Pending(k)' <=> Pending(k))
    <3>1. \A k \in Key : (Up(k)' <=> Up(k)) /\ (Called(k)' <=> Called(k))
      BY <2>4 DEF Up, Exists, Called, Top
    <3> QED
      BY <2>4, <3>1 DEF Pending
  <2>9. \A c, d \in Key, f \in Field : Owed(c, f, d)' <=> Owed(c, f, d)
    BY <2>4 DEF Owed
  <2>10. \A c \in Key : \A f \in DepFields(c[1]) : f \in Field /\ DependsOn(c, f)' = DependsOn(c, f)
    BY <2>7, AcyclicAssumption DEF Key
  <2>11. DownInv'
    <3> SUFFICES ASSUME NEW c \in Key, NEW f \in DepFields(c[1]), cf[c] # Nil, live[c].dependable
                 PROVE  Up(DependsOn(c, f))' \/ Owed(c, f, DependsOn(c, f))' \/ Called(c)'
      BY <2>4 DEF DownInv
    <3>1. Up(DependsOn(c, f)) \/ Owed(c, f, DependsOn(c, f)) \/ Called(c)
      BY DEF DownInv
    <3> QED
      BY <3>1, <2>4, <2>8, <2>10 DEF Up, Exists, Owed
  <2>12. UpInv'
    <3> SUFFICES ASSUME NEW c \in Key, cf[c] # Nil, ~cf[c].disabled, ~live[c].dependable
                 PROVE  (\E f \in DepFields(c[1]) : ~Up(DependsOn(c, f))') \/ Pending(c)' \/ c = Held'
      BY <2>4 DEF UpInv
    <3>1. (\E f \in DepFields(c[1]) : ~Up(DependsOn(c, f))) \/ Pending(c) \/ c = Held
      BY DEF UpInv
    <3> QED
      BY <3>1, <2>3, <2>4, <2>8, <2>10 DEF Up, Exists
  <2> QED
    BY <2>1, <2>2, <2>5, <2>6, <2>11, <2>12
<1> QED
  BY <1>1, <1>2, <1>3, <1>4, <1>5, <1>6, <1>7, <1>8, <1>9, <1>10 DEF Next, CfSet, Step

-----------------------------------------------------------------------------
(* The inductive invariant of cf_set() and state_change() holds in every   *)
(* state, for any sections and any acyclic dependency tables.              *)
THEOREM Invariance == ASSUME Disciplined PROVE Spec => []IInv
<1>1. Init => IInv
  BY InitInv
<1>2. IInv /\ [Next]_vars => IInv'
  BY NextInv
<1> QED
  BY <1>1, <1>2, PTL DEF Spec

(* The tables, the call stack and the call record keep their types: no     *)
(* step indexes a missing item.                                            *)
THEOREM TypeCorrect == ASSUME Disciplined PROVE Spec => []TypeOK
<1>1. IInv => TypeOK
  BY DEF IInv
<1> QED
  BY <1>1, Invariance, PTL

(* Back-ends nest: whatever is changed, renamed or removed, and between    *)
(* any two hook calls, an item's back-end is up only while those of the    *)
(* items it is registered with are.                                        *)
THEOREM BackendsNest == ASSUME Disciplined PROVE Spec => []BackendOrder
<1>1. IInv => BackendOrder
  BY DEF IInv
<1> QED
  BY <1>1, Invariance, PTL

(* The _backed flag is always the truth, so that the guards of             *)
(* state_change() start and stop every back-end exactly once.              *)
THEOREM BackedTruthful == ASSUME Disciplined PROVE Spec => []BackedIsTrue
<1>1. IInv => BackedIsTrue
  BY DEF IInv
<1> QED
  BY <1>1, Invariance, PTL

(* The dependents tables are the exact inverse of the references between   *)
(* two calls.                                                              *)
THEOREM DependentsCorrect == ASSUME Disciplined PROVE Spec => []DependentsExact
<1>1. IInv => DependentsExact
  <2> SUFFICES ASSUME IInv, Idle, NEW d \in Key, NEW c \in Key, NEW f \in Field
               PROVE  <<c, f>> \in dependents[d] <=> RefersTo(c, f, d) /\ Exists(d)
    BY DEF DependentsExact
  <2> USE DEF IInv
  <2>1. ~Removing /\ Detached = Nil
    BY DEF Idle, Removing, Detached
  <2>2. ASSUME <<c, f>> \in dependents[d] PROVE RefersTo(c, f, d) /\ Exists(d)
    BY <2>1, <2>2 DEF RegisterInv, TablesInv, RefersTo, Exists, DependencyOf
  <2>3. ASSUME RefersTo(c, f, d), Exists(d) PROVE <<c, f>> \in dependents[d]
    <3>1. cf[d] # Nil /\ d[2] # Unknown
      BY <2>3 DEF TablesInv, Exists
    <3>2. DependsOn(c, f) = d /\ cf[c].dep[f] = d[2]
      BY <2>3 DEF RefersTo, DependsOn, DependencyOf
    <3>3. c # Nil
      BY ConstantsAssumption
    <3> QED
      BY <2>1, <2>3, <3>1, <3>2, <3>3 DEF RegisterInv, RefersTo
  <2> QED
    BY <2>2, <2>3
<1> QED
  BY <1>1, Invariance, PTL

(* Between two calls every item has settled: up exactly when it is enabled *)
(* and all it refers to is up, flagged invalid exactly when it is enabled  *)
(* and not up.                                                             *)
THEOREM ItemsSettle == ASSUME Disciplined PROVE Spec => []Settled
<1>1. IInv => Settled
  <2> SUFFICES ASSUME IInv, Idle, NEW k \in Key, cf[k] # Nil
               PROVE  LET up == ~cf[k].disabled /\ AllDependable(k[1], cf[k])
                      IN  /\ live[k].dependable <=> up
                          /\ k \in backend <=> up
                          /\ live[k].invalid <=> ~cf[k].disabled /\ ~up
    BY DEF Settled
  <2> USE ConstantsAssumption DEF IInv
  <2>1. stack = <<>> /\ Held = Nil
    BY DEF EditInv, Idle, Held
  <2>2. \A c, f, d : ~Owed(c, f, d) /\ ~Pending(c) /\ ~Called(c) /\ ~StopDue(c)
    BY <2>1 DEF Owed, Pending, Called, StopDue
  <2>3. AllDependable(k[1], cf[k]) <=> \A f \in DepFields(k[1]) : Up(DependsOn(k, f))
    BY DEF AllDependable, DependencyList, DependsOn, Up
  <2>4. live[k].dependable => ~cf[k].disabled /\ AllDependable(k[1], cf[k])
    BY <2>2, <2>3 DEF DownInv, FlagsInv
  <2>5. ~cf[k].disabled /\ AllDependable(k[1], cf[k]) => live[k].dependable
    BY <2>1, <2>2, <2>3 DEF UpInv
  <2>6. k \in backend <=> live[k].dependable
    BY <2>2 DEF FlagsInv, BackedIsTrue, TablesInv, Exists
  <2>7. live[k].invalid <=> ~cf[k].disabled /\ ~live[k].dependable
    BY <2>1 DEF FlagsInv
  <2> QED
    BY <2>4, <2>5, <2>6, <2>7
<1> QED
  BY <1>1, Invariance, PTL

(* state_change() and dependency_change() never index an item that is not  *)
(* there.                                                                  *)
THEOREM CalleesExist == ASSUME Disciplined PROVE Spec => []CalleeExists
<1>1. IInv => CalleeExists
  <2> SUFFICES ASSUME IInv, NEW i \in 1 .. Len(stack)
               PROVE  /\ Exists(stack[i].key) /\ cf[stack[i].key] # Nil
                      /\ \A e \in stack[i].todo : Exists(e[1]) /\ cf[e[1]] # Nil
    BY DEF CalleeExists
  <2> USE DEF IInv
  <2>1. stack[i].key \in Key /\ cf[stack[i].key] # Nil
    BY TopFrame DEF StackInv, TypeOK, Frame
  <2>2. stack[i].todo \subseteq dependents[stack[i].key]
    BY DEF StackInv
  <2>3. \A e \in stack[i].todo : e = <<e[1], e[2]>> /\ e[1] \in Key /\ e[2] \in Field
    BY <2>1, <2>2, EntryOf
  <2>4. \A e \in stack[i].todo : cf[e[1]] # Nil
    BY <2>1, <2>2, <2>3 DEF RegisterInv
  <2> QED
    BY <2>1, <2>3, <2>4 DEF TablesInv, Exists
<1> QED
  BY <1>1, Invariance, PTL

=============================================================================
