------------------------------ MODULE CfEngine ------------------------------
(***************************************************************************)
(* The configuration engine of lib/cf.lua: the tables cf, live and         *)
(* dependents of every registered section, cf_set() (add, change, rename   *)
(* and remove an item) and the recursive state_change() that brings the    *)
(* back-ends of an item and of its dependents up and down.                 *)
(*                                                                         *)
(* The program is single threaded, but one cf_set() runs many hooks of the *)
(* sections (start, stop), each of which sees the tables as they are at    *)
(* that moment.  The model therefore executes a call in small steps: the   *)
(* Lua call stack of state_change() is the variable stack, and "edit" is   *)
(* the cf_set() under way.                                                 *)
(*                                                                         *)
(* Data abstraction.  An item is what a reader sees through the defaults   *)
(* metatable: a total record of its fields, so copy_of(), the loop over    *)
(* "items" and prune_defaults() together yield just some value of          *)
(* Items(path).  A dependents list is the set of its entries: notifying in *)
(* any order includes the list's order, and an entry repeated in the list  *)
(* only repeats an idempotent call.                                        *)
(***************************************************************************)
EXTENDS Naturals, Sequences

CONSTANTS
    Path,               \* the registered sections (cf_register)
    Uniq,               \* the keys of the cf and live tables
    Field,              \* the fields that name another item
    Data,               \* the rest of an item, of interest to BuildUniq only
    Nil,                \* Lua's nil
    Unknown,            \* the key "unknown" that dependency_change writes
    DepFields(_),       \* fields of the section's "dependencies" table
    Parent(_, _),       \* Parent(p, f): path of the section field f refers to
    Rank(_),            \* a section's depth in the dependency graph
    Items(_),           \* the items a caller may ask for in a section
    BuildUniq(_, _),    \* {the key} the section derives from an item, {} if none
    RandomUniq,         \* the keys random_key() draws from
    Removable(_),       \* the sections whose items callers remove (can-delete)
    Disciplined         \* callers never reuse a key or the name "unknown"

Key   == Path \X Uniq
Entry == Key \X Field
Item  == [disabled : BOOLEAN, dep : [Field -> Uniq], data : Data]

ASSUME ConstantsAssumption ==
    /\ Nil \notin Key /\ Nil \notin Item
    /\ Nil \notin [backed : BOOLEAN, invalid : BOOLEAN, dependable : BOOLEAN]
    /\ Unknown \in Uniq
    /\ RandomUniq \subseteq Uniq
    /\ \A p \in Path : \A ci \in Items(p) : BuildUniq(p, ci) \subseteq Uniq
    /\ Disciplined \in BOOLEAN
    /\ \A p \in Path : Items(p) \subseteq Item /\ Removable(p) \in BOOLEAN

\* No section depends on itself, directly or through others.
ASSUME AcyclicAssumption ==
    \A p \in Path :
        /\ Rank(p) \in Nat
        /\ DepFields(p) \subseteq Field
        /\ \A f \in DepFields(p) : Parent(p, f) \in Path /\ Rank(Parent(p, f)) < Rank(p)

VARIABLES
    cf,             \* base.cf: the configured item of every key, or Nil
    live,           \* base.live: the flags of every item, or Nil
    dependents,     \* base.dependents: who refers to the item, and in which field
    backend,        \* the keys whose back-end is really up (what start/stop did)
    stack,          \* the state_change() calls under way, innermost last
    edit            \* the cf_set() under way

vars == <<cf, live, dependents, backend, stack, edit>>

Live  == [backed : BOOLEAN, invalid : BOOLEAN, dependable : BOOLEAN]
Frame == [key : Key, going : BOOLEAN, goinvalid : BOOLEAN,
          entered : BOOLEAN, todo : SUBSET Entry, stop : BOOLEAN]
Edit  == [phase : {"idle", "down", "up"}, old : Key \cup {Nil},
          new : Key \cup {Nil}, ci : Item \cup {Nil}]

NoEdit    == [phase |-> "idle", old |-> Nil, new |-> Nil, ci |-> Nil]
EmptyLive == [backed |-> FALSE, invalid |-> FALSE, dependable |-> FALSE]

(* The tables, the call stack and the call under way have their types:     *)
(* dependency_change() writes only keys, and no call leaves half an item.  *)
TypeOK ==
    /\ cf \in [Key -> Item \cup {Nil}]
    /\ live \in [Key -> Live \cup {Nil}]
    /\ dependents \in [Key -> SUBSET Entry]
    /\ backend \subseteq Key
    /\ stack \in Seq(Frame)
    /\ edit \in Edit

Init ==
    /\ cf = [k \in Key |-> Nil]
    /\ live = [k \in Key |-> Nil]
    /\ dependents = [k \in Key |-> {}]
    /\ backend = {}
    /\ stack = <<>>
    /\ edit = NoEdit

-----------------------------------------------------------------------------
(* Helpers of the engine.                                                  *)

Exists(k) == live[k] # Nil

\* The item that field f of item ci of section p refers to.
DependencyOf(p, ci, f) == <<Parent(p, f), ci.dep[f]>>

DependencyList(p, ci) == {DependencyOf(p, ci, f) : f \in DepFields(p)}

AllDependable(p, ci) ==
    \A d \in DependencyList(p, ci) : Exists(d) /\ live[d].dependable

\* The registrations of item ci of key k with the items it refers to.
Registrations(k, ci, d) == {<<k, f>> : f \in {g \in DepFields(k[1]) : DependencyOf(k[1], ci, g) = d}}

\* build_uniq(), random_key() where no field of the section is a key.
NewUniq(p, ci) ==
    IF BuildUniq(p, ci) # {} THEN BuildUniq(p, ci)
                             ELSE {u \in RandomUniq : ~Exists(<<p, u>>)}

\* What the engine leaves to its callers: it checks neither condition.
CallerKeeps(k, old) == Disciplined => k[2] # Unknown /\ (k = old \/ ~Exists(k))

\* Mutant: the forced shut-down of a changed item is forgotten.
CallNeverForced(k, going, goinvalid) ==
    [key |-> k, going |-> going, goinvalid |-> FALSE,
     entered |-> FALSE, todo |-> {}, stop |-> FALSE]

Call(k, going, goinvalid) ==
    [key |-> k, going |-> going, goinvalid |-> goinvalid,
     entered |-> FALSE, todo |-> {}, stop |-> FALSE]

-----------------------------------------------------------------------------
(* cf_set(): the part before the first state_change().  A call that is     *)
(* rejected because a dependency does not exist returns false and changes  *)
(* nothing: it is a stuttering step.                                       *)

Idle == edit.phase = "idle"

DependenciesExist(p, ci) == \A d \in DependencyList(p, ci) : Exists(d)

\* Mutant: remove_dependent() is not called.
UnregisterNothing(k) == UNCHANGED dependents

Unregister(k) == dependents' = [d \in Key |-> dependents[d] \ Registrations(k, cf[k], d)]

\* No olduniq, or one that has no item: there is nothing to shut down.
CfAdd(p, ci) ==
    /\ Idle
    /\ DependenciesExist(p, ci)
    /\ \E u \in NewUniq(p, ci) :
        /\ CallerKeeps(<<p, u>>, Nil)
        /\ edit' = [phase |-> "down", old |-> Nil, new |-> <<p, u>>, ci |-> ci]
    /\ UNCHANGED <<cf, live, dependents, backend, stack>>

CfChange(k, ci) ==
    /\ Idle
    /\ Exists(k)
    /\ DependenciesExist(k[1], ci)
    /\ \E u \in NewUniq(k[1], ci) :
        /\ CallerKeeps(<<k[1], u>>, k)
        /\ edit' = [phase |-> "down", old |-> k, new |-> <<k[1], u>>, ci |-> ci]
    /\ Unregister(k)
    /\ stack' = <<Call(k, FALSE, TRUE)>>
    /\ UNCHANGED <<cf, live, backend>>

CfRemove(k) ==
    /\ Idle
    /\ Exists(k)
    /\ Removable(k[1])
    /\ edit' = [phase |-> "down", old |-> k, new |-> Nil, ci |-> Nil]
    /\ Unregister(k)
    /\ stack' = <<Call(k, TRUE, FALSE)>>
    /\ UNCHANGED <<cf, live, backend>>

-----------------------------------------------------------------------------
(* state_change(): its body up to the loop over the dependents, one turn   *)
(* of that loop, and the part after it.                                    *)

Top == stack[Len(stack)]

\* Mutant: the flag goinvalid is ignored.
InvalidUnforced(fr) ==
    fr.going \/ (~cf[fr.key].disabled /\ ~AllDependable(fr.key[1], cf[fr.key]))

Invalid(fr) ==
    \/ fr.going
    \/ fr.goinvalid
    \/ ~cf[fr.key].disabled /\ ~AllDependable(fr.key[1], cf[fr.key])

Dependable(fr) == ~cf[fr.key].disabled /\ ~Invalid(fr)

\* Mutants: the flag compared as a Boolean; only an item that comes up tells.
ChangedBoolean(fr) == Dependable(fr) # live[fr.key].dependable
ChangedUpwards(fr) == Dependable(fr) /\ ~live[fr.key].dependable

\* The flag is nil when the item is not dependable while the new value is
\* false, so "dependable ~= live._dependable" is true whenever it is false.
Changed(fr) == Dependable(fr) => ~live[fr.key].dependable

StateChange ==
    /\ stack # <<>>
    /\ ~Top.entered
    /\ Exists(Top.key)
    /\ live' = [live EXCEPT ![Top.key] =
                   [backed     |-> live[Top.key].backed \/ Dependable(Top),
                    invalid    |-> Invalid(Top),
                    dependable |-> Dependable(Top)]]
    /\ backend' = IF Dependable(Top) /\ ~live[Top.key].backed
                     THEN backend \cup {Top.key} ELSE backend
    /\ stack' = [stack EXCEPT ![Len(stack)] =
                   [Top EXCEPT !.entered = TRUE,
                               !.todo = IF Changed(Top) THEN dependents[Top.key] ELSE {},
                               !.stop = live[Top.key].backed /\ ~Dependable(Top)]]
    /\ UNCHANGED <<cf, dependents, edit>>

\* Mutant: the field is cleared instead of set to "unknown".
DependencyClear(c, f, u) == [cf EXCEPT ![c].dep[f] = Nil]

\* dependency_change(): field f of item c now refers to key u.
DependencyChange(c, f, u) == [cf EXCEPT ![c].dep[f] = u]

Notify(c, f) ==
    /\ stack # <<>>
    /\ Top.entered
    /\ <<c, f>> \in Top.todo
    /\ Exists(c)
    /\ cf' = IF Top.going THEN DependencyChange(c, f, Unknown) ELSE cf
    /\ stack' = Append([stack EXCEPT ![Len(stack)] =
                           [Top EXCEPT !.todo = @ \ {<<c, f>>}]],
                       Call(c, FALSE, FALSE))
    /\ UNCHANGED <<live, dependents, backend, edit>>

\* Mutant: an item that is still invalid is looked at again.
ReturnRetries ==
    /\ stack # <<>>
    /\ Top.entered
    /\ Top.todo = {}
    /\ stack' = IF live[Top.key].invalid
                   THEN [stack EXCEPT ![Len(stack)].entered = FALSE]
                   ELSE SubSeq(stack, 1, Len(stack) - 1)
    /\ UNCHANGED <<cf, live, dependents, backend, edit>>

Return ==
    /\ stack # <<>>
    /\ Top.entered
    /\ Top.todo = {}
    /\ IF Top.stop
         THEN /\ live' = [live EXCEPT ![Top.key] = [@ EXCEPT !.backed = FALSE]]
              /\ backend' = backend \ {Top.key}
         ELSE UNCHANGED <<live, backend>>
    /\ stack' = SubSeq(stack, 1, Len(stack) - 1)
    /\ UNCHANGED <<cf, dependents, edit>>

-----------------------------------------------------------------------------
(* cf_set(): the part after the shut-down.                                 *)

\* The old key of the item being moved, Nil when it keeps its key.
MovedFrom == IF edit.old # edit.new THEN edit.old ELSE Nil

\* base.dependents[olduniq] or {}
Inherited == IF edit.old # Nil THEN dependents[edit.old] ELSE {}

\* Mutant: dependents keep the old key.
RepointedNever(k) == cf[k]

\* dependency_change() of every dependent of an item that changes its key.
Repointed(k) ==
    IF cf[k] # Nil /\ MovedFrom # Nil
      THEN [cf[k] EXCEPT !.dep = [f \in Field |->
               IF <<k, f>> \in Inherited THEN edit.new[2] ELSE cf[k].dep[f]]]
      ELSE cf[k]

Install ==
    /\ edit.phase = "down" /\ stack = <<>> /\ edit.new # Nil
    /\ cf' = [k \in Key |-> IF k = edit.new THEN edit.ci
                            ELSE IF k = edit.old THEN Nil
                            ELSE Repointed(k)]
    /\ live' = [k \in Key |->
                   IF k = edit.new THEN IF edit.old # Nil THEN live[edit.old] ELSE EmptyLive
                   ELSE IF k = edit.old THEN Nil
                   ELSE live[k]]
    /\ dependents' = [k \in Key |->
                         (IF k = edit.new THEN Inherited
                          ELSE IF k = edit.old THEN {}
                          ELSE dependents[k])
                         \cup Registrations(edit.new, edit.ci, k)]
    /\ stack' = <<Call(edit.new, FALSE, FALSE)>>
    /\ edit' = [edit EXCEPT !.phase = "up"]
    /\ UNCHANGED backend

Delete ==
    /\ edit.phase = "down" /\ stack = <<>> /\ edit.new = Nil
    /\ cf' = [cf EXCEPT ![edit.old] = Nil]
    /\ live' = [live EXCEPT ![edit.old] = Nil]
    /\ dependents' = [dependents EXCEPT ![edit.old] = {}]
    /\ edit' = NoEdit
    /\ UNCHANGED <<backend, stack>>

\* The return of a cf_set() that added or changed an item.
Finish ==
    /\ edit.phase = "up" /\ stack = <<>>
    /\ edit' = NoEdit
    /\ UNCHANGED <<cf, live, dependents, backend, stack>>

-----------------------------------------------------------------------------
CfSet ==
    \/ \E p \in Path : \E ci \in Items(p) : CfAdd(p, ci)
    \/ \E k \in Key : \E ci \in Items(k[1]) : CfChange(k, ci)
    \/ \E k \in Key : CfRemove(k)

\* The steps of the call under way.
Step ==
    \/ StateChange
    \/ \E c \in Key, f \in Field : Notify(c, f)
    \/ Return
    \/ Install
    \/ Delete
    \/ Finish

Next == CfSet \/ Step

Spec == Init /\ [][Next]_vars

\* A call that has begun runs to its end: nothing else runs in the thread.
FairSpec == Spec /\ WF_vars(Step)

-----------------------------------------------------------------------------
(* Properties.                                                             *)

\* Items that refer to d in field f.
RefersTo(c, f, d) ==
    /\ cf[c] # Nil
    /\ f \in DepFields(c[1])
    /\ DependencyOf(c[1], cf[c], f) = d

(* Between two calls the dependents tables are exactly the inverse of the  *)
(* references held in the items, whatever was renamed or removed before:   *)
(* a missing entry would leave a dependent running on a dead parent, a     *)
(* left-over one would make state_change() index an item that is gone.     *)
DependentsExact ==
    Idle => \A d \in Key, c \in Key, f \in Field :
        <<c, f>> \in dependents[d] <=> RefersTo(c, f, d) /\ Exists(d)

(* Between two calls every item is where the comment above state_change()  *)
(* says: its back-end is up and it is dependable exactly when it is        *)
(* enabled and all it refers to is dependable, and it is flagged invalid   *)
(* exactly when it is enabled and something it refers to is not.           *)
Settled ==
    Idle => \A k \in Key : cf[k] # Nil =>
        LET up == ~cf[k].disabled /\ AllDependable(k[1], cf[k])
        IN  /\ live[k].dependable <=> up
            /\ k \in backend <=> up
            /\ live[k].invalid <=> ~cf[k].disabled /\ ~up

(* In every state, between any two hook calls, the back-end of an item is  *)
(* up only while the back-ends of everything it is registered with are:    *)
(* parents are started first and stopped last.                             *)
BackendOrder ==
    \A d \in Key : \A e \in dependents[d] : e[1] \in backend => d \in backend

(* The _backed flag always tells the truth about the back-end, also for an *)
(* item that is removed or moved to a new key, so that no back-end is      *)
(* started twice, stopped twice or left behind.                            *)
BackedIsTrue ==
    \A k \in Key : k \in backend <=> Exists(k) /\ live[k].backed

(* state_change() and dependency_change() index the tables without a       *)
(* check: every item they are called for exists.                           *)
CalleeExists ==
    \A i \in 1 .. Len(stack) :
        /\ Exists(stack[i].key) /\ cf[stack[i].key] # Nil
        /\ \A e \in stack[i].todo : Exists(e[1]) /\ cf[e[1]] # Nil

\* Who needs whom: by the dependents tables and, for the item of the call that
\* is not registered while it goes down, by the references it still holds.
RegisteredNeeds == UNION {{<<e[1], d>> : e \in dependents[d]} : d \in Key}

HeldNeeds ==
    IF edit.phase = "down" /\ edit.old # Nil
      THEN {<<edit.old, d>> : d \in {x \in DependencyList(edit.old[1], cf[edit.old]) : cf[x] # Nil}}
      ELSE {}

Needs == RegisteredNeeds \cup HeldNeeds

\* The enabled items all of whose references are to items.
Wanted ==
    {k \in Key : /\ cf[k] # Nil /\ ~cf[k].disabled
                  /\ \A d \in DependencyList(k[1], cf[k]) : cf[d] # Nil}

Promise ==
    INSTANCE Supervisor WITH Key <- Key, up <- backend, needs <- Needs,
                             wanted <- Wanted, phase <- edit.phase

(* The engine implements the supervisor: whatever the call and the order   *)
(* in which dependents are notified, back-ends first only stop, parents    *)
(* last, then only start, parents first, an item is moved only while it is *)
(* down, and the call ends with everything up that can be.                 *)
Supervises == Promise!Spec

(* Every cf_set() returns.                                                 *)
CfSetReturns == edit.phase # "idle" ~> Idle
=============================================================================
