---------------------------- MODULE CfEngineInv -----------------------------
(***************************************************************************)
(* The inductive invariant behind the safety properties of CfEngine, in    *)
(* the states where callers reuse no key.  Each part says what holds in    *)
(* the middle of a call as well, and which items a call still owes a       *)
(* state_change().                                                         *)
(***************************************************************************)
EXTENDS CfEngine

\* The item of the call, while it is not registered with its parents.
Detached == IF edit.phase = "down" THEN edit.old ELSE Nil

\* state_change() has been called for k and has not looked at it yet.
Called(k) == stack # <<>> /\ Top.key = k /\ ~Top.entered

\* Item c is still to be told that d changed.
Owed(c, f, d) ==
    \E i \in 1 .. Len(stack) : stack[i].key = d /\ <<c, f>> \in stack[i].todo

Pending(c) ==
    Called(c) \/ \E i \in 1 .. Len(stack) : \E f \in Field : <<c, f>> \in stack[i].todo

StopDue(k) == \E i \in 1 .. Len(stack) : stack[i].key = k /\ stack[i].stop

\* The item whose flags are forced down by the call under way.
Held == IF edit.phase = "down" THEN edit.old
        ELSE IF stack # <<>> /\ ~stack[1].entered THEN edit.new ELSE Nil

Removing == edit.phase = "down" /\ edit.new = Nil

DependsOn(c, f) == DependencyOf(c[1], cf[c], f)

Up(k) == Exists(k) /\ live[k].dependable

-----------------------------------------------------------------------------
\* What the call record says of the tables.
EditInv ==
    /\ edit.phase = "idle" => edit = NoEdit /\ stack = <<>>
    /\ edit.phase = "down" =>
        /\ edit.old # Nil => cf[edit.old] # Nil
        /\ edit.old = Nil => edit.new # Nil /\ stack = <<>>
        /\ edit.new # Nil =>
            /\ edit.ci # Nil
            /\ edit.new[2] # Unknown
            /\ edit.new = edit.old \/ cf[edit.new] = Nil
            /\ edit.old # Nil => edit.old[1] = edit.new[1]
            /\ \A f \in DepFields(edit.new[1]) : cf[DependencyOf(edit.new[1], edit.ci, f)] # Nil
    /\ edit.phase = "up" => edit.new # Nil /\ cf[edit.new] # Nil

\* The call stack: from the item of the call down the dependency graph.
StackInv ==
    /\ stack # <<>> =>
        /\ stack[1].key = IF edit.phase = "up" THEN edit.new ELSE edit.old
        /\ stack[1].going <=> Removing
        /\ stack[1].goinvalid <=> edit.phase = "down" /\ edit.new # Nil
    /\ \A i \in 1 .. Len(stack) :
        /\ cf[stack[i].key] # Nil
        /\ stack[i].todo \subseteq dependents[stack[i].key]
        /\ ~stack[i].entered => i = Len(stack) /\ stack[i].todo = {} /\ ~stack[i].stop
        /\ i > 1 => ~stack[i].going /\ ~stack[i].goinvalid
        /\ \A j \in 1 .. Len(stack) : i < j => Rank(stack[i].key[1]) < Rank(stack[j].key[1])

TablesInv ==
    /\ \A k \in Key : cf[k] = Nil <=> live[k] = Nil
    /\ \A p \in Path : cf[<<p, Unknown>>] = Nil

\* Every registration is that of a reference, and the other way round.
RegisterInv ==
    /\ \A d \in Key, c \in Key, f \in Field : <<c, f>> \in dependents[d] =>
        /\ cf[d] # Nil /\ cf[c] # Nil /\ c # Detached
        /\ f \in DepFields(c[1]) /\ Parent(c[1], f) = d[1]
        /\ \/ cf[c].dep[f] = d[2]
           \/ cf[c].dep[f] = Unknown /\ Removing /\ d = edit.old
        /\ Removing /\ d = edit.old /\ (stack = <<>> \/ (stack[1].entered /\ <<c, f>> \notin stack[1].todo))
              => cf[c].dep[f] = Unknown
    /\ \A c \in Key, f \in Field :
        cf[c] # Nil /\ c # Detached /\ f \in DepFields(c[1]) /\ cf[c].dep[f] # Unknown
            => <<c, f>> \in dependents[DependsOn(c, f)]

\* The flags of one item.
FlagsInv ==
    \A k \in Key : cf[k] # Nil =>
        /\ live[k].backed <=> (live[k].dependable \/ StopDue(k))
        /\ live[k].dependable => ~cf[k].disabled
        /\ k # Held => (live[k].invalid <=> ~cf[k].disabled /\ ~live[k].dependable)

HeldInv ==
    Held # Nil /\ (edit.phase = "up" \/ stack = <<>> \/ stack[1].entered)
        => ~live[Held].dependable

\* An entered call that will stop the back-end has cleared the flag.
StopInv == \A i \in 1 .. Len(stack) : stack[i].stop => ~live[stack[i].key].dependable

\* A dependable item knows of every parent that is not, or is about to.
DownInv ==
    \A c \in Key : \A f \in DepFields(c[1]) :
        cf[c] # Nil /\ live[c].dependable =>
            Up(DependsOn(c, f)) \/ Owed(c, f, DependsOn(c, f)) \/ Called(c)

\* An enabled item that is not dependable has a parent that is not, or will be told.
UpInv ==
    \A c \in Key :
        cf[c] # Nil /\ ~cf[c].disabled /\ ~live[c].dependable =>
            (\E f \in DepFields(c[1]) : ~Up(DependsOn(c, f))) \/ Pending(c) \/ c = Held

(* The inductive invariant: in the middle of a cf_set() as well, whatever  *)
(* the tables do not show yet is on the stack of state_change() calls.     *)
IInv ==
    /\ TypeOK
    /\ EditInv
    /\ StackInv
    /\ TablesInv
    /\ RegisterInv
    /\ FlagsInv
    /\ HeldInv
    /\ StopInv
    /\ DownInv
    /\ UpInv
    /\ BackedIsTrue
    /\ BackendOrder

-----------------------------------------------------------------------------
(* The two phases of a call, an invariant on top of IInv.                  *)

\* While an item goes down, whatever has been looked at is down, and whoever
\* is called next has lost a parent.
ShutInv ==
    edit.phase = "down" => \A i \in 1 .. Len(stack) :
        /\ stack[i].entered => ~live[stack[i].key].dependable
        /\ i > 1 /\ ~stack[i].entered =>
               \E f \in DepFields(stack[i].key[1]) : ~Up(DependsOn(stack[i].key, f))

\* While it comes up, what is dependable has all its parents and nothing will
\* be stopped.
StartInv ==
    edit.phase = "up" =>
        /\ \A i \in 1 .. Len(stack) : ~stack[i].stop
        /\ \A c \in Key : \A f \in DepFields(c[1]) :
               cf[c] # Nil /\ live[c].dependable => Up(DependsOn(c, f))

PhaseInv == ShutInv /\ StartInv
=============================================================================
