------------------------------- MODULE Router -------------------------------
(***************************************************************************)
(* The sections of core/interface.lua, core/ethernet.lua, core/address.lua *)
(* and the table of core/dhcp-client.lua on top of the engine: what their  *)
(* start, stop and ci-post-process hooks and the engine's mirror option    *)
(* ("duplicate") do to the /interface section, to the table _if_lookup and *)
(* to the kernel.                                                          *)
(*                                                                         *)
(* Every action is an action of CfEngine together with what its hooks do,  *)
(* so that a behaviour of the router is a behaviour of the engine.         *)
(*                                                                         *)
(* Keys are tuples: <<name>> for an interface and for the DHCP client of   *)
(* an interface, <<address, name>> for the "address@interface" of an       *)
(* address.  An item's data is <<name, device>>, <<address>> or <<>>.      *)
(***************************************************************************)
EXTENDS CfEngine

CONSTANTS
    Name,           \* interface names
    Dev,            \* network devices of the machine
    Addr,           \* IP addresses
    StaticAddr,     \* those that callers configure
    Sections,       \* the sections that are loaded besides the ethernet one
    CanDelete,      \* the sections whose items callers remove
    MaxFailures     \* a bound on the commands that fail

ASSUME FailuresAssumption == MaxFailures \in Nat

Ethernet == "/interface/ethernet"
Address  == "/ip/address"
Dhcp     == "/ip/dhcp-client"

RouterPath      == {Ethernet} \cup Sections
RouterUniq      == {<<n>> : n \in Name} \cup (Addr \X Name) \cup {Unknown}
RouterField     == {"interface"}
RouterData      == (Name \X Dev) \cup {<<a>> : a \in Addr} \cup {<<>>}
RouterRank(p)   == IF p = Ethernet THEN 0 ELSE 1
RouterDepFields(p) == IF p = Ethernet THEN {} ELSE {"interface"}
RouterParent(p, f) == Ethernet
RouterRemovable(p) == p \in CanDelete

RouterItems(p) ==
    [disabled : BOOLEAN,
     dep  : [RouterField -> IF p = Ethernet THEN {Unknown} ELSE {<<n>> : n \in Name}],
     data : CASE p = Ethernet -> Name \X Dev
              [] p = Address  -> {<<a>> : a \in StaticAddr}
              [] OTHER        -> {<<>>}]

\* The field "name", the function of the field "uniq", the field "interface".
RouterBuildUniq(p, ci) ==
    CASE p = Ethernet -> {<<ci.data[1]>>}
      [] p = Address  -> {<<ci.data[1], ci.dep["interface"][1]>>}
      [] OTHER        -> {ci.dep["interface"]}

\* The engine is given these sections, and no caller deletes an ethernet
\* interface (can-delete = false).
ASSUME RouterAssumption ==
    /\ Sections \subseteq {Address, Dhcp} /\ CanDelete \subseteq Sections /\ StaticAddr \subseteq Addr
    /\ Nil \notin Uniq
    /\ Path = RouterPath /\ Uniq = RouterUniq /\ Field = RouterField
    /\ \A p \in Path :
        /\ DepFields(p) = RouterDepFields(p)
        /\ \A f \in Field : Parent(p, f) = RouterParent(p, f)
        /\ Items(p) = RouterItems(p)
        /\ \A ci \in Items(p) : BuildUniq(p, ci) = RouterBuildUniq(p, ci)
        /\ Removable(p) = RouterRemovable(p)

VARIABLES
    mirrorCf,       \* cf of the section /interface
    mirrorLive,     \* the keys that have an entry in its live table
    ifLookup,       \* _if_lookup: the key of the interface of a device, or Nil
    link,           \* kernel: the devices that are up
    addrs,          \* kernel: the addresses of every device
    failed,         \* history: the devices and addresses whose last command failed
    failures        \* the number of commands that failed

mirror == <<mirrorCf, mirrorLive, ifLookup>>
kernel == <<link, addrs, failed, failures>>
routerVars == <<vars, mirror, kernel>>

DeviceOf(ci) == ci.data[2]

(* The tables have their types, and every interface of the mirror has its  *)
(* entry in the mirror's live table.                                       *)
RouterTypeOK ==
    /\ mirrorCf \in [Uniq -> Item \cup {Nil}]
    /\ mirrorLive \subseteq Uniq
    /\ ifLookup \in [Dev -> Uniq \cup {Nil}]
    /\ link \subseteq Dev
    /\ addrs \subseteq Addr \X Dev
    /\ failed \subseteq {<<d>> : d \in Dev} \cup (Addr \X Dev)
    /\ failures \in 0 .. MaxFailures
    /\ \A u \in Uniq : mirrorCf[u] # Nil => u \in mirrorLive

RouterInit ==
    /\ Init
    /\ mirrorCf = [u \in Uniq |-> Nil]
    /\ mirrorLive = {}
    /\ ifLookup = [d \in Dev |-> Nil]
    /\ link = {}
    /\ addrs = {}
    /\ failed = {}
    /\ failures = 0

-----------------------------------------------------------------------------
(* Helpers of core/interface.lua, and the commands of lib/ip.lua.  A       *)
(* command that fails changes nothing, and nobody looks at its status.     *)

\* The device of an interface, none for "unknown".
LookupByName(u) ==
    IF mirrorCf[u] # Nil THEN {DeviceOf(mirrorCf[u])} ELSE {}

\* The command on the given devices or addresses succeeds; or it fails.
Succeeds(objects) == failed' = failed \ objects /\ UNCHANGED failures

Fails(objects) ==
    /\ objects # {} /\ failures < MaxFailures
    /\ failures' = failures + 1
    /\ failed' = failed \cup objects
    /\ UNCHANGED <<link, addrs>>

AddrAdd(a, devs) ==
    \/ addrs' = addrs \cup ({a} \X devs) /\ UNCHANGED link /\ Succeeds({a} \X devs)
    \/ Fails({a} \X devs)

AddrDel(a, devs) ==
    \/ addrs' = addrs \ ({a} \X devs) /\ UNCHANGED link /\ Succeeds({a} \X devs)
    \/ Fails({a} \X devs)

LinkUp(devs) ==
    \/ link' = link \cup devs /\ UNCHANGED addrs /\ Succeeds({<<d>> : d \in devs})
    \/ Fails({<<d>> : d \in devs})

LinkDown(devs) ==
    \/ link' = link \ devs /\ UNCHANGED addrs /\ Succeeds({<<d>> : d \in devs})
    \/ Fails({<<d>> : d \in devs})

EtherStart(ci) == LinkUp(LookupByName(<<ci.data[1]>>))
EtherStop(ci) == LinkDown(LookupByName(<<ci.data[1]>>))
StartAddress(ci) == AddrAdd(ci.data[1], LookupByName(ci.dep["interface"]))

\* Mutant: the address stays when its item is stopped.
StopAddressNothing(ci) == UNCHANGED kernel

StopAddress(ci) == AddrDel(ci.data[1], LookupByName(ci.dep["interface"]))

\* base.options.start and base.options.stop.  The hooks of the DHCP client
\* are those of module DhcpClient.
StartHook(k) ==
    CASE k[1] = Ethernet -> EtherStart(cf[k])
      [] k[1] = Address  -> StartAddress(cf[k])
      [] OTHER           -> UNCHANGED kernel

StopHook(k) ==
    CASE k[1] = Ethernet -> EtherStop(cf[k])
      [] k[1] = Address  -> StopAddress(cf[k])
      [] OTHER           -> UNCHANGED kernel

\* Mutant: the device is not entered in the lookup table.
CiPostprocessNothing(ci, map) == UNCHANGED ifLookup

\* ci_postprocess(): map is the key of the interface, Nil when it goes.
CiPostprocess(ci, map) == ifLookup' = [ifLookup EXCEPT ![DeviceOf(ci)] = map]

-----------------------------------------------------------------------------
(* The engine's actions with the hooks they call.                          *)

Starting == Dependable(Top) /\ ~live[Top.key].backed

RouterStateChange ==
    /\ StateChange
    /\ IF Starting THEN StartHook(Top.key) ELSE UNCHANGED kernel
    /\ UNCHANGED mirror

RouterReturn ==
    /\ Return
    /\ IF Top.stop THEN StopHook(Top.key) ELSE UNCHANGED kernel
    /\ UNCHANGED mirror

\* Mutant: the mirror keeps the item under its old name.
MirrorAdd(old, new, ci) ==
    /\ mirrorCf' = [mirrorCf EXCEPT ![new] = ci]
    /\ mirrorLive' = mirrorLive \cup {new}

\* Mutant: the old live entry is dropped last, also when the name is kept.
MirrorDrops(old, new, ci) ==
    /\ mirrorCf' = [u \in Uniq |-> IF u = new THEN ci ELSE IF u = old THEN Nil ELSE mirrorCf[u]]
    /\ mirrorLive' = (mirrorLive \cup {new}) \ {old}

\* The mirror of an item that moves: live[olduniq] is still there when the
\* old entry is copied, so the mirror keeps it.
MirrorMove(old, new, ci) ==
    /\ mirrorCf' = [u \in Uniq |-> IF u = new THEN ci ELSE IF u = old THEN Nil ELSE mirrorCf[u]]
    /\ mirrorLive' = mirrorLive \cup {new}

RouterInstall ==
    /\ Install
    /\ IF edit.new[1] = Ethernet
         THEN /\ MirrorMove(IF edit.old # Nil THEN edit.old[2] ELSE edit.new[2], edit.new[2], edit.ci)
              /\ CiPostprocess(edit.ci, edit.new[2])
         ELSE UNCHANGED mirror
    /\ UNCHANGED kernel

RouterDelete ==
    /\ Delete
    /\ IF edit.old[1] = Ethernet
         THEN /\ mirrorCf' = [mirrorCf EXCEPT ![edit.old[2]] = Nil]
              /\ mirrorLive' = mirrorLive \ {edit.old[2]}
              /\ CiPostprocess(cf[edit.old], Nil)
         ELSE UNCHANGED mirror
    /\ UNCHANGED kernel

-----------------------------------------------------------------------------
(* The callers.  Interfaces are set up once per device (the calls at the   *)
(* end of core/ethernet.lua) and keep it.  Nobody gives two interfaces one *)
(* name, or configures the same thing twice on an interface.               *)

SameThing(p, ci, other) ==
    IF p = Ethernet THEN ci.data[1] = other.data[1]
                    ELSE ci.data = other.data /\ ci.dep = other.dep

Fresh(p, ci, old) ==
    \A u \in Uniq : cf[<<p, u>>] # Nil /\ <<p, u>> # old => ~SameThing(p, ci, cf[<<p, u>>])

RouterCfAdd(p, ci) ==
    /\ CfAdd(p, ci)
    /\ Fresh(p, ci, Nil)
    /\ p = Ethernet => ifLookup[DeviceOf(ci)] = Nil
    /\ UNCHANGED <<mirror, kernel>>

RouterCfChange(k, ci) ==
    /\ CfChange(k, ci)
    /\ Fresh(k[1], ci, k)
    /\ k[1] = Ethernet => DeviceOf(ci) = DeviceOf(cf[k])
    /\ UNCHANGED <<mirror, kernel>>

RouterCfRemove(k) == CfRemove(k) /\ UNCHANGED <<mirror, kernel>>

RouterNotify(c, f) == Notify(c, f) /\ UNCHANGED <<mirror, kernel>>

RouterFinish == Finish /\ UNCHANGED <<mirror, kernel>>

RouterNext ==
    \/ \E p \in Path : \E ci \in Items(p) : RouterCfAdd(p, ci)
    \/ \E k \in Key : \E ci \in Items(k[1]) : RouterCfChange(k, ci)
    \/ \E k \in Key : RouterCfRemove(k)
    \/ RouterStateChange
    \/ \E c \in Key, f \in Field : RouterNotify(c, f)
    \/ RouterReturn
    \/ RouterInstall
    \/ RouterDelete
    \/ RouterFinish

RouterSpec == RouterInit /\ [][RouterNext]_routerVars

-----------------------------------------------------------------------------
(* Properties.                                                             *)

\* The device an address item is meant for, by the ethernet section itself.
Target(k) == DeviceOf(cf[<<Ethernet, cf[k].dep["interface"]>>])

(* In every state the kernel is what the back-ends say: a device is up     *)
(* exactly when its interface is started, and has exactly the addresses    *)
(* whose items are started, also across renames of the interface while the *)
(* hooks resolve names through the /interface mirror.  A command that      *)
(* fails harms only the device or address it was about, and only until a   *)
(* later command for it succeeds, though no hook looks at the status.      *)
KernelAgrees ==
    /\ \A d \in Dev : <<d>> \notin failed =>
          (d \in link <=> \E k \in backend : k[1] = Ethernet /\ DeviceOf(cf[k]) = d)
    /\ \A x \in Addr \X Dev : x \notin failed =>
          (x \in addrs <=> \E k \in backend : k[1] = Address /\ cf[k].data[1] = x[1] /\ Target(k) = x[2])

(* Between any two commands given to the kernel no address is on a device  *)
(* that is down, unless a command for it failed: addresses go before their *)
(* link and come back after it.                                            *)
AddressOnUpLink ==
    \A x \in addrs : x \in failed \/ <<x[2]>> \in failed \/ x[2] \in link

(* _if_lookup and the mirror's cf table, which the hooks and the events    *)
(* use, name every interface as the ethernet section does, in every state. *)
MirrorAgrees ==
    /\ \A u \in Uniq : mirrorCf[u] = cf[<<Ethernet, u>>]
    /\ \A d \in Dev, u \in Uniq :
          ifLookup[d] = u <=> cf[<<Ethernet, u>>] # Nil /\ DeviceOf(cf[<<Ethernet, u>>]) = d

(* Between two calls every address the kernel has is that of a started     *)
(* item: stopping an item removes its address, whatever was renamed before *)
(* ("caters for change of uniq", lib/cf.lua:443).                          *)
NoAddressLeft ==
    Idle => \A x \in addrs : \E k \in backend :
        k[1] = Address /\ cf[k].data[1] = x[1] /\ Target(k) = x[2]
-----------------------------------------------------------------------------
(* The inductive invariant behind these properties, beside the engine's    *)
(* own.                                                                    *)

\* The key of the interface an item is for.
InterfaceOf(k) == <<Ethernet, cf[k].dep["interface"]>>

\* Items are items of their section; an interface has its name as its key.
ShapeInv ==
    \A k \in Key : cf[k] # Nil =>
        /\ cf[k] \in Items(k[1])
        /\ k[1] = Ethernet => k[2] = <<cf[k].data[1]>>

\* No interface is ever deleted under an item.
ReferenceInv == \A k \in Key : cf[k] # Nil /\ k[1] # Ethernet => cf[InterfaceOf(k)] # Nil

\* No address is configured twice on an interface.
DistinctInv ==
    \A j \in Key, k \in Key :
        cf[j] # Nil /\ cf[k] # Nil /\ j[1] = Address /\ k[1] = Address /\ j # k =>
            cf[j].data # cf[k].data \/ cf[j].dep["interface"] # cf[k].dep["interface"]

\* What the callers' discipline still means for the item on its way in.
CallInv ==
    edit.phase = "down" =>
        /\ edit.new = Nil => edit.old[1] # Ethernet
        /\ edit.new # Nil =>
            /\ edit.ci \in Items(edit.new[1])
            /\ Fresh(edit.new[1], edit.ci, edit.old)
            /\ edit.new[1] = Ethernet =>
                /\ edit.new[2] = <<edit.ci.data[1]>>
                /\ edit.old = Nil => ifLookup[DeviceOf(edit.ci)] = Nil
                /\ edit.old # Nil => DeviceOf(edit.ci) = DeviceOf(cf[edit.old])

\* An item that is up has its interface up, also while it is not registered.
ParentInv == \A k \in backend : k[1] # Ethernet => InterfaceOf(k) \in backend

\* What does not depend on who else gives addresses to the kernel.
SectionInv ==
    /\ RouterTypeOK
    /\ ShapeInv
    /\ ReferenceInv
    /\ DistinctInv
    /\ CallInv
    /\ ParentInv
    /\ MirrorAgrees

RouterInv == SectionInv /\ KernelAgrees
=============================================================================
