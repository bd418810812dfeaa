---------------------------- MODULE RouterProofs ----------------------------
(***************************************************************************)
(* The router is the engine with its hooks, so the engine's theorems hold  *)
(* of it; and for any interfaces, devices, addresses and commands that     *)
(* fail, the mirror and the kernel are what the ethernet and address       *)
(* sections say.                                                           *)
(***************************************************************************)
EXTENDS Router, SupervisorProofs

-----------------------------------------------------------------------------
(* A behaviour of the router is one of the engine.                         *)

LEMMA RouterInitIsInit == RouterInit => Init
BY DEF RouterInit

LEMMA RouterNextIsNext == [RouterNext]_routerVars => [Next]_vars
<1> SUFFICES ASSUME [RouterNext]_routerVars PROVE Next \/ UNCHANGED vars
  OBVIOUS
<1>1. ASSUME NEW p \in Path, NEW ci \in Items(p), RouterCfAdd(p, ci) PROVE CfSet
  BY <1>1 DEF RouterCfAdd, CfSet
<1>2. ASSUME NEW k \in Key, NEW ci \in Items(k[1]), RouterCfChange(k, ci) PROVE CfSet
  BY <1>2 DEF RouterCfChange, CfSet
<1>3. ASSUME NEW k \in Key, RouterCfRemove(k) PROVE CfSet
  BY <1>3 DEF RouterCfRemove, CfSet
<1>4. ASSUME NEW c \in Key, NEW f \in Field, RouterNotify(c, f) PROVE Step
  BY <1>4 DEF RouterNotify, Step
<1>5. CASE RouterStateChange \/ RouterReturn \/ RouterInstall \/ RouterDelete \/ RouterFinish
  BY <1>5 DEF RouterStateChange, RouterReturn, RouterInstall, RouterDelete, RouterFinish, Next, Step
<1>6. CASE UNCHANGED routerVars
  BY <1>6 DEF routerVars
<1> QED
  BY <1>1, <1>2, <1>3, <1>4, <1>5, <1>6 DEF RouterNext, Next

(* Every behaviour of the sections of core/ with their hooks is one of the *)
(* engine of lib/cf.lua, so what is proved of the engine holds of it.      *)
THEOREM RouterIsEngine == RouterSpec => Spec
BY RouterInitIsInit, RouterNextIsNext, PTL DEF RouterSpec, Spec

(* With callers that reuse no key, the engine's inductive invariant holds  *)
(* of the router (IInv), and so do all that follows from it.               *)
THEOREM RouterEngine == ASSUME Disciplined PROVE RouterSpec => []IInv
BY RouterIsEngine, Invariance, PTL

-----------------------------------------------------------------------------
(* The sections.                                                           *)

LEMMA SectionNames == Ethernet # Address /\ Ethernet # Dhcp /\ Address # Dhcp
BY DEF Ethernet, Address, Dhcp

LEMMA SectionPaths ==
    /\ Ethernet \in Path /\ \A p \in Path : p \in {Ethernet, Address, Dhcp}
    /\ Field = {"interface"}
    /\ \A p \in Path : p # Ethernet => DepFields(p) = {"interface"} /\ Parent(p, "interface") = Ethernet
    /\ DepFields(Ethernet) = {}
    /\ \A p \in Path : Removable(p) => p # Ethernet
    /\ \A n \in Name : <<n>> \in Uniq
<1>1. Path = RouterPath /\ Field = {"interface"} /\ Sections \subseteq {Address, Dhcp} /\ CanDelete \subseteq Sections
  BY RouterAssumption DEF RouterField
<1>2. \A p \in Path : DepFields(p) = RouterDepFields(p) /\ Parent(p, "interface") = RouterParent(p, "interface")
  BY <1>1, RouterAssumption
<1>3. \A p \in Path : Removable(p) => p \in CanDelete
  BY RouterAssumption DEF RouterRemovable
<1>4. \A n \in Name : <<n>> \in Uniq
  BY RouterAssumption DEF RouterUniq
<1> QED
  BY <1>1, <1>2, <1>3, <1>4, SectionNames DEF RouterPath, RouterDepFields, RouterParent

LEMMA EthernetItems ==
    ASSUME NEW ci \in Items(Ethernet)
    PROVE  /\ ci.data \in Name \X Dev /\ ci.data[1] \in Name /\ DeviceOf(ci) \in Dev
           /\ BuildUniq(Ethernet, ci) = {<<ci.data[1]>>}
<1>1. Ethernet \in Path /\ Items(Ethernet) = RouterItems(Ethernet)
  BY SectionPaths, RouterAssumption
<1>2. ci.data \in Name \X Dev
  BY <1>1, SectionNames DEF RouterItems
<1>3. BuildUniq(Ethernet, ci) = RouterBuildUniq(Ethernet, ci)
  BY <1>1, RouterAssumption
<1> QED
  BY <1>2, <1>3, SectionNames DEF RouterBuildUniq, DeviceOf

LEMMA OtherItems ==
    ASSUME NEW p \in Path, p # Ethernet, NEW ci \in Items(p)
    PROVE  /\ ci.dep \in [{"interface"} -> {<<n>> : n \in Name}]
           /\ p = Address => ci.data \in {<<a>> : a \in Addr} /\ ci.data[1] \in Addr
<1>1. Items(p) = RouterItems(p)
  BY RouterAssumption
<1>2. ci.dep \in [{"interface"} -> {<<n>> : n \in Name}]
  BY <1>1 DEF RouterItems, RouterField
<1>3. p = Address => ci.data \in {<<a>> : a \in StaticAddr}
  BY <1>1, SectionNames DEF RouterItems
<1> QED
  BY <1>2, <1>3, RouterAssumption

\* Shape of the items in the tables, in a state of the two invariants.
LEMMA ItemFacts ==
    ASSUME IInv, SectionInv, NEW k \in Key, cf[k] # Nil
    PROVE  /\ k[1] \in Path /\ k = <<k[1], k[2]>> /\ k[2] \in Uniq /\ cf[k] \in Item
           /\ k[1] = Ethernet =>
                 /\ k[2] = <<cf[k].data[1]>> /\ DeviceOf(cf[k]) \in Dev
                 /\ mirrorCf[k[2]] = cf[k] /\ LookupByName(k[2]) = {DeviceOf(cf[k])}
                 /\ ifLookup[DeviceOf(cf[k])] = k[2]
           /\ k[1] # Ethernet =>
                 /\ InterfaceOf(k) \in Key /\ cf[InterfaceOf(k)] # Nil
                 /\ Target(k) \in Dev /\ LookupByName(cf[k].dep["interface"]) = {Target(k)}
                 /\ DepFields(k[1]) = {"interface"} /\ DependsOn(k, "interface") = InterfaceOf(k)
           /\ k[1] = Address => cf[k].data \in {<<a>> : a \in Addr} /\ cf[k].data[1] \in Addr
<1> USE DEF IInv, SectionInv
<1>1. k[1] \in Path /\ k = <<k[1], k[2]>> /\ k[2] \in Uniq /\ cf[k] \in Item
  BY DEF Key, TypeOK
<1>2. cf[k] \in Items(k[1]) /\ (k[1] = Ethernet => k[2] = <<cf[k].data[1]>>)
  BY DEF ShapeInv
<1>3. ASSUME NEW u \in Uniq, cf[<<Ethernet, u>>] # Nil
      PROVE  /\ <<Ethernet, u>> \in Key /\ DeviceOf(cf[<<Ethernet, u>>]) \in Dev
             /\ mirrorCf[u] = cf[<<Ethernet, u>>]
             /\ LookupByName(u) = {DeviceOf(cf[<<Ethernet, u>>])}
             /\ ifLookup[DeviceOf(cf[<<Ethernet, u>>])] = u
  <2>1. <<Ethernet, u>> \in Key /\ <<Ethernet, u>>[1] = Ethernet
    BY SectionPaths DEF Key
  <2>2. DeviceOf(cf[<<Ethernet, u>>]) \in Dev
    BY <1>3, <2>1, EthernetItems DEF ShapeInv
  <2>3. mirrorCf[u] = cf[<<Ethernet, u>>]
    BY DEF MirrorAgrees
  <2> QED
    BY <1>3, <2>1, <2>2, <2>3 DEF MirrorAgrees, LookupByName
<1>4. ASSUME k[1] # Ethernet
      PROVE  /\ InterfaceOf(k) \in Key /\ cf[InterfaceOf(k)] # Nil
             /\ Target(k) \in Dev /\ LookupByName(cf[k].dep["interface"]) = {Target(k)}
             /\ DepFields(k[1]) = {"interface"} /\ DependsOn(k, "interface") = InterfaceOf(k)
  <2>1. cf[k].dep["interface"] \in Uniq
    BY <1>1, <1>2, <1>4, OtherItems, SectionPaths
  <2>2. cf[InterfaceOf(k)] # Nil
    BY <1>4 DEF ReferenceInv
  <2>3. DepFields(k[1]) = {"interface"} /\ DependsOn(k, "interface") = InterfaceOf(k)
    BY <1>1, <1>4, SectionPaths DEF DependsOn, DependencyOf, InterfaceOf
  <2> QED
    BY <1>3, <2>1, <2>2, <2>3 DEF InterfaceOf, Target
<1>5. k[1] = Ethernet => DeviceOf(cf[k]) \in Dev /\ mirrorCf[k[2]] = cf[k]
                         /\ LookupByName(k[2]) = {DeviceOf(cf[k])} /\ ifLookup[DeviceOf(cf[k])] = k[2]
  BY <1>1, <1>3
<1>6. k[1] = Address => cf[k].data \in {<<a>> : a \in Addr} /\ cf[k].data[1] \in Addr
  BY <1>1, <1>2, OtherItems, SectionNames
<1> QED
  BY <1>1, <1>2, <1>4, <1>5, <1>6

\* What is up has an item.
LEMMA BackendItems ==
    ASSUME IInv, NEW k \in backend
    PROVE  k \in Key /\ cf[k] # Nil
BY DEF IInv, TypeOK, BackedIsTrue, TablesInv, Exists

\* A device belongs to one interface, and an address on it to one item.
LEMMA OneOwner ==
    ASSUME IInv, SectionInv, NEW j \in Key, NEW k \in Key, cf[j] # Nil, cf[k] # Nil
    PROVE  /\ j[1] = Ethernet /\ k[1] = Ethernet /\ DeviceOf(cf[j]) = DeviceOf(cf[k]) => j = k
           /\ j[1] = Address /\ k[1] = Address /\ cf[j].data[1] = cf[k].data[1] /\ Target(j) = Target(k)
                 => j = k
<1>1. ASSUME NEW x \in Key, NEW y \in Key, cf[x] # Nil, cf[y] # Nil,
             x[1] = Ethernet, y[1] = Ethernet, DeviceOf(cf[x]) = DeviceOf(cf[y])
      PROVE  x = y
  BY <1>1, ItemFacts
<1>2. ASSUME j[1] = Address, k[1] = Address, cf[j].data[1] = cf[k].data[1], Target(j) = Target(k)
      PROVE  j = k
  <2>1. /\ InterfaceOf(j) \in Key /\ cf[InterfaceOf(j)] # Nil
        /\ InterfaceOf(k) \in Key /\ cf[InterfaceOf(k)] # Nil
    BY <1>2, ItemFacts, SectionNames
  <2>2. InterfaceOf(j)[1] = Ethernet /\ InterfaceOf(k)[1] = Ethernet
    BY DEF InterfaceOf
  <2>3. DeviceOf(cf[InterfaceOf(j)]) = DeviceOf(cf[InterfaceOf(k)])
    BY <1>2 DEF Target, InterfaceOf
  <2>4. InterfaceOf(j) = InterfaceOf(k)
    BY <1>1, <2>1, <2>2, <2>3
  <2>5. cf[j].dep["interface"] = cf[k].dep["interface"]
    BY <2>4 DEF InterfaceOf
  <2>6. cf[j].data = cf[k].data
    BY <1>2, ItemFacts
  <2> QED
    BY <1>2, <2>5, <2>6 DEF SectionInv, DistinctInv
<1> QED
  BY <1>1, <1>2

-----------------------------------------------------------------------------
(* What one command does to the kernel, whether it fails or not: only the  *)
(* object of the command changes, and if it is not marked as failed after  *)
(* it the command did what it should.                                      *)

KernelType ==
    /\ link \subseteq Dev /\ addrs \subseteq Addr \X Dev
    /\ failed \subseteq {<<d>> : d \in Dev} \cup (Addr \X Dev)
    /\ failures \in 0 .. MaxFailures

LEMMA SingleIsNotPair == \A d, a, e : <<d>> # <<a, e>>
OBVIOUS

LEMMA Singles == \A d, e : <<e>> \in {<<x>> : x \in {d}} <=> e = d
OBVIOUS

LEMMA Pairs == \A a, d, x : x \in {a} \X {d} <=> x = <<a, d>>
OBVIOUS

LEMMA LinkCommand ==
    ASSUME KernelType, NEW d \in Dev, NEW on \in BOOLEAN,
           IF on THEN LinkUp({d}) ELSE LinkDown({d})
    PROVE  /\ KernelType' /\ addrs' = addrs
           /\ <<d>> \notin failed' => (d \in link' <=> on)
           /\ \A e \in Dev : e # d => (e \in link' <=> e \in link) /\ (<<e>> \in failed' <=> <<e>> \in failed)
           /\ \A x \in Addr \X Dev : x \in failed' <=> x \in failed
<1> DEFINE ob == {<<x>> : x \in {d}}
<1>1. \A e : <<e>> \in ob <=> e = d
  BY Singles
<1>2. \A x \in Addr \X Dev : x \notin ob
  BY SingleIsNotPair
<1>3. ob \subseteq {<<x>> : x \in Dev} /\ ob # {}
  OBVIOUS
<1> HIDE DEF ob
<1>4. CASE Fails(ob)
  BY <1>1, <1>2, <1>3, <1>4, FailuresAssumption DEF Fails, KernelType
<1>5. CASE ~Fails(ob)
  <2>1. /\ addrs' = addrs /\ failed' = failed \ ob /\ failures' = failures
        /\ link' = IF on THEN link \cup {d} ELSE link \ {d}
    BY <1>5 DEF LinkUp, LinkDown, Succeeds, ob
  <2>2. KernelType'
    BY <2>1 DEF KernelType
  <2> QED
    BY <1>1, <1>2, <2>1, <2>2
<1> QED
  BY <1>4, <1>5

LEMMA AddrCommand ==
    ASSUME KernelType, NEW a \in Addr, NEW d \in Dev, NEW on \in BOOLEAN,
           IF on THEN AddrAdd(a, {d}) ELSE AddrDel(a, {d})
    PROVE  /\ KernelType' /\ link' = link
           /\ <<a, d>> \notin failed' => (<<a, d>> \in addrs' <=> on)
           /\ \A x \in Addr \X Dev : x # <<a, d>> => (x \in addrs' <=> x \in addrs) /\ (x \in failed' <=> x \in failed)
           /\ \A e \in Dev : <<e>> \in failed' <=> <<e>> \in failed
<1> DEFINE ob == {a} \X {d}
<1>1. \A x : x \in ob <=> x = <<a, d>>
  BY Pairs
<1>2. \A e \in Dev : <<e>> \notin ob
  BY <1>1, SingleIsNotPair
<1>3. ob \subseteq Addr \X Dev /\ ob # {}
  BY <1>1
<1> HIDE DEF ob
<1>4. CASE Fails(ob)
  BY <1>1, <1>2, <1>3, <1>4, FailuresAssumption DEF Fails, KernelType
<1>5. CASE ~Fails(ob)
  <2>1. /\ link' = link /\ failed' = failed \ ob /\ failures' = failures
        /\ addrs' = IF on THEN addrs \cup ob ELSE addrs \ ob
    BY <1>5 DEF AddrAdd, AddrDel, Succeeds, ob
  <2>2. KernelType'
    BY <1>3, <2>1 DEF KernelType
  <2> QED
    BY <1>1, <1>2, <2>1, <2>2
<1> QED
  BY <1>4, <1>5

-----------------------------------------------------------------------------
(* The hooks keep the kernel in step with the back-ends.                   *)

\* The hook of key t keeps the types of the kernel's tables.
LEMMA HookType ==
    ASSUME IInv, SectionInv, NEW t \in Key, cf[t] # Nil, StartHook(t) \/ StopHook(t)
    PROVE  KernelType'
<1> USE SectionNames
<1>1. KernelType
  BY DEF SectionInv, RouterTypeOK, KernelType
<1>2. CASE t[1] = Ethernet
  <2>1. PICK d \in Dev : LookupByName(<<cf[t].data[1]>>) = {d}
    BY <1>2, ItemFacts
  <2>2. \E on \in BOOLEAN : IF on THEN LinkUp({d}) ELSE LinkDown({d})
    BY <1>2, <2>1 DEF StartHook, StopHook, EtherStart, EtherStop
  <2> QED
    BY <1>1, <2>2, LinkCommand
<1>3. CASE t[1] = Address
  <2>1. PICK d \in Dev, a \in Addr : LookupByName(cf[t].dep["interface"]) = {d} /\ a = cf[t].data[1]
    BY <1>3, ItemFacts
  <2>2. \E on \in BOOLEAN : IF on THEN AddrAdd(a, {d}) ELSE AddrDel(a, {d})
    BY <1>3, <2>1 DEF StartHook, StopHook, StartAddress, StopAddress
  <2> QED
    BY <1>1, <2>2, AddrCommand
<1>4. CASE t[1] # Ethernet /\ t[1] # Address
  BY <1>1, <1>4 DEF StartHook, StopHook, kernel, KernelType
<1> QED
  BY <1>2, <1>3, <1>4

\* A step that starts or stops the back-end of key t and runs its hook.
LEMMA HookKernel ==
    ASSUME IInv, SectionInv, KernelAgrees, NEW t \in Key, cf[t] # Nil, cf' = cf, NEW on \in BOOLEAN,
           \A k : k \in backend' <=> (IF k = t THEN on ELSE k \in backend),
           IF on THEN StartHook(t) ELSE StopHook(t)
    PROVE  KernelAgrees'
<1> USE SectionNames
<1>1. KernelType
  BY DEF SectionInv, RouterTypeOK, KernelType
<1>2. \A k \in backend : k \in Key /\ cf[k] # Nil
  BY BackendItems
<1> DEFINE UpLink(d, k) == k[1] = Ethernet /\ DeviceOf(cf[k]) = d
           UpAddr(x, k) == k[1] = Address /\ cf[k].data[1] = x[1] /\ Target(k) = x[2]
<1>3. /\ \A d \in Dev : <<d>> \notin failed => (d \in link <=> \E k \in backend : UpLink(d, k))
      /\ \A x \in Addr \X Dev : x \notin failed => (x \in addrs <=> \E k \in backend : UpAddr(x, k))
  BY DEF KernelAgrees
<1>4. SUFFICES
        /\ \A d \in Dev : <<d>> \notin failed' => (d \in link' <=> \E k \in backend' : UpLink(d, k))
        /\ \A x \in Addr \X Dev : x \notin failed' => (x \in addrs' <=> \E k \in backend' : UpAddr(x, k))
  BY DEF KernelAgrees, Target
<1> HIDE DEF UpLink, UpAddr
<1>5. /\ \A d : ~UpLink(d, t) => ((\E k \in backend' : UpLink(d, k)) <=> \E k \in backend : UpLink(d, k))
      /\ \A x : ~UpAddr(x, t) => ((\E k \in backend' : UpAddr(x, k)) <=> \E k \in backend : UpAddr(x, k))
  OBVIOUS
<1>6. /\ \A d : UpLink(d, t) => ((\E k \in backend' : UpLink(d, k)) <=> on)
      /\ \A x : UpAddr(x, t) => ((\E k \in backend' : UpAddr(x, k)) <=> on)
  <2>1. ASSUME NEW d, UpLink(d, t), NEW k \in backend', UpLink(d, k) PROVE k = t
    BY <1>2, <2>1, OneOwner DEF UpLink
  <2>2. ASSUME NEW x, UpAddr(x, t), NEW k \in backend', UpAddr(x, k) PROVE k = t
    BY <1>2, <2>2, OneOwner DEF UpAddr
  <2> QED
    BY <2>1, <2>2
<1>7. CASE t[1] = Ethernet
  <2>1. PICK d \in Dev : d = DeviceOf(cf[t])
    BY <1>7, ItemFacts
  <2>2. \A e : UpLink(e, t) <=> e = d
    BY <1>7, <2>1 DEF UpLink
  <2>3. \A x : ~UpAddr(x, t)
    BY <1>7 DEF UpAddr
  <2>4. LookupByName(<<cf[t].data[1]>>) = {d}
    BY <1>7, <2>1, ItemFacts
  <2>5. IF on THEN LinkUp({d}) ELSE LinkDown({d})
    BY <1>7, <2>4 DEF StartHook, StopHook, EtherStart, EtherStop
  <2>6. /\ addrs' = addrs
        /\ <<d>> \notin failed' => (d \in link' <=> on)
        /\ \A e \in Dev : e # d => (e \in link' <=> e \in link) /\ (<<e>> \in failed' <=> <<e>> \in failed)
        /\ \A x \in Addr \X Dev : x \in failed' <=> x \in failed
    BY <1>1, <2>5, LinkCommand
  <2> QED
    BY <1>3, <1>5, <1>6, <2>2, <2>3, <2>6
<1>8. CASE t[1] = Address
  <2>1. PICK d \in Dev, a \in Addr : d = Target(t) /\ a = cf[t].data[1]
    BY <1>8, ItemFacts
  <2>2. \A x \in Addr \X Dev : UpAddr(x, t) <=> x = <<a, d>>
    BY <1>8, <2>1 DEF UpAddr
  <2>3. \A e : ~UpLink(e, t)
    BY <1>8 DEF UpLink
  <2>4. LookupByName(cf[t].dep["interface"]) = {d}
    BY <1>8, <2>1, ItemFacts
  <2>5. IF on THEN AddrAdd(a, {d}) ELSE AddrDel(a, {d})
    BY <1>8, <2>1, <2>4 DEF StartHook, StopHook, StartAddress, StopAddress
  <2>6. /\ link' = link
        /\ <<a, d>> \notin failed' => (<<a, d>> \in addrs' <=> on)
        /\ \A x \in Addr \X Dev : x # <<a, d>> => (x \in addrs' <=> x \in addrs) /\ (x \in failed' <=> x \in failed)
        /\ \A e \in Dev : <<e>> \in failed' <=> <<e>> \in failed
    BY <1>1, <2>5, AddrCommand
  <2> QED
    BY <1>3, <1>5, <1>6, <2>2, <2>3, <2>6
<1>9. CASE t[1] # Ethernet /\ t[1] # Address
  <2>1. link' = link /\ addrs' = addrs /\ failed' = failed /\ failures' = failures
    BY <1>9 DEF StartHook, StopHook, kernel
  <2>2. \A x : ~UpAddr(x, t) /\ ~UpLink(x, t)
    BY <1>9 DEF UpAddr, UpLink
  <2> QED
    BY <1>3, <1>5, <2>1, <2>2
<1> QED
  BY <1>7, <1>8, <1>9

-----------------------------------------------------------------------------
(* SectionInv is inductive, and with it KernelAgrees: one lemma for every  *)
(* action.                                                                 *)

\* A step that leaves the items and the mirror alone.
LEMMA ItemsStay ==
    ASSUME SectionInv, cf' = cf, mirrorCf' = mirrorCf, mirrorLive' = mirrorLive, ifLookup' = ifLookup,
           CallInv', ParentInv', KernelType'
    PROVE  SectionInv'
<1>1. ShapeInv' /\ ReferenceInv' /\ DistinctInv'
  BY DEF SectionInv, ShapeInv, ReferenceInv, DistinctInv, InterfaceOf
<1>2. MirrorAgrees' /\ RouterTypeOK'
  BY DEF SectionInv, RouterTypeOK, MirrorAgrees, KernelType
<1> QED
  BY <1>1, <1>2 DEF SectionInv

\* A step that also leaves the kernel and the back-ends alone.
LEMMA KernelStays ==
    ASSUME SectionInv, cf' = cf, backend' = backend, link' = link, addrs' = addrs,
           failed' = failed, failures' = failures
    PROVE  ParentInv' /\ KernelType' /\ (KernelAgrees => KernelAgrees')
BY DEF SectionInv, ParentInv, InterfaceOf, KernelType, RouterTypeOK, KernelAgrees, Target

\* A step that leaves the call as it is.
LEMMA CallStays ==
    ASSUME SectionInv, cf' = cf, edit' = edit, ifLookup' = ifLookup
    PROVE  CallInv'
BY DEF SectionInv, CallInv, Fresh

LEMMA RouterStateChangeInv ==
    ASSUME IInv, SectionInv, RouterStateChange
    PROVE  SectionInv' /\ (KernelAgrees => KernelAgrees')
<1> DEFINE t == Top.key
<1>1. /\ cf' = cf /\ edit' = edit /\ stack # <<>> /\ StateChange
      /\ mirrorCf' = mirrorCf /\ mirrorLive' = mirrorLive /\ ifLookup' = ifLookup
      /\ backend' = IF Starting THEN backend \cup {t} ELSE backend
      /\ IF Starting THEN StartHook(t) ELSE UNCHANGED kernel
  BY DEF RouterStateChange, StateChange, Starting, mirror
<1>2. CallInv'
  BY <1>1, CallStays
<1>3. t \in Key /\ cf[t] # Nil
  BY <1>1, StateChangeStack
<1>4. CASE ~Starting
  BY <1>1, <1>2, <1>4, ItemsStay, KernelStays DEF kernel
<1>5. CASE Starting
  <2>1. \A k : k \in backend' <=> (IF k = t THEN TRUE ELSE k \in backend)
    BY <1>1, <1>5
  <2>2. KernelType' /\ (KernelAgrees => KernelAgrees')
    <3>1. TRUE \in BOOLEAN /\ IF TRUE THEN StartHook(t) ELSE StopHook(t)
      BY <1>1, <1>5
    <3>2. PICK k \in Key : k = t
      BY <1>3
    <3> QED
      BY <1>1, <1>3, <2>1, <3>1, <3>2, HookKernel, HookType
  <2>3. t[1] # Ethernet => InterfaceOf(t) \in backend
    <3> SUFFICES ASSUME t[1] # Ethernet PROVE InterfaceOf(t) \in backend
      OBVIOUS
    <3>1. \A f \in DepFields(t[1]) : Up(DependsOn(t, f))
      BY <1>5 DEF Starting, Dependable, Invalid, AllDependable, DependencyList, DependsOn, Up
    <3>2. InterfaceOf(t) \in Key /\ cf[InterfaceOf(t)] # Nil /\ Up(InterfaceOf(t))
      BY <1>3, <3>1, ItemFacts
    <3> QED
      BY <3>2 DEF IInv, Up, FlagsInv, BackedIsTrue, TablesInv, Exists
  <2>4. ParentInv'
    BY <1>1, <1>5, <2>3 DEF SectionInv, ParentInv, InterfaceOf
  <2> QED
    BY <1>1, <1>2, <2>2, <2>4, ItemsStay
<1> QED
  BY <1>4, <1>5

LEMMA RouterReturnInv ==
    ASSUME IInv, IInv', SectionInv, RouterReturn
    PROVE  SectionInv' /\ (KernelAgrees => KernelAgrees')
<1> DEFINE t == Top.key
<1>1. /\ cf' = cf /\ edit' = edit /\ dependents' = dependents /\ stack # <<>> /\ Return
      /\ mirrorCf' = mirrorCf /\ mirrorLive' = mirrorLive /\ ifLookup' = ifLookup
      /\ backend' = IF Top.stop THEN backend \ {t} ELSE backend
      /\ IF Top.stop THEN StopHook(t) ELSE UNCHANGED kernel
  BY DEF RouterReturn, Return, mirror
<1>2. CallInv'
  BY <1>1, CallStays
<1>3. /\ Len(stack) \in Nat /\ Len(stack) \in 1 .. Len(stack) /\ Top = stack[Len(stack)]
      /\ t \in Key /\ cf[t] # Nil
  BY <1>1, TopFrame DEF Top, IInv, StackInv
<1>4. CASE ~Top.stop
  BY <1>1, <1>2, <1>4, ItemsStay, KernelStays DEF kernel
<1>5. CASE Top.stop
  <2>1. \A k : k \in backend' <=> (IF k = t THEN FALSE ELSE k \in backend)
    BY <1>1, <1>5
  <2>2. KernelType' /\ (KernelAgrees => KernelAgrees')
    <3>1. FALSE \in BOOLEAN /\ IF FALSE THEN StartHook(t) ELSE StopHook(t)
      BY <1>1, <1>5
    <3>2. PICK k \in Key : k = t
      BY <1>3
    <3> QED
      BY <1>1, <1>3, <2>1, <3>1, <3>2, HookKernel, HookType
  <2>3. ASSUME NEW k \in backend', k[1] # Ethernet
        PROVE  InterfaceOf(k) # t
    <3> SUFFICES ASSUME InterfaceOf(k) = t PROVE FALSE
      OBVIOUS
    <3>1. k \in backend /\ k \in Key /\ cf[k] # Nil
      BY <2>1, <2>3, BackendItems
    <3>2. /\ k[1] \in Path /\ DepFields(k[1]) = {"interface"} /\ DependsOn(k, "interface") = t
      BY <2>3, <3>1, ItemFacts
    <3>3. CASE k # Detached
      <4>1. Registered(k, t)
        BY <1>3, <3>1, <3>2, <3>3, ReferenceRegistered
      <4>2. PICK f \in Field : <<k, f>> \in dependents[t]
        BY <4>1 DEF Registered
      <4>3. <<k, f>>[1] = k
        OBVIOUS
      <4>4. t \in backend'
        BY <1>1, <1>3, <2>3, <4>2, <4>3 DEF IInv, BackendOrder
      <4> QED
        BY <2>1, <4>4
    <3>4. CASE k = Detached
      <4>1. edit.phase = "down" /\ k = edit.old
        BY <3>1, <3>4, ConstantsAssumption DEF Detached
      <4>2. 1 \in 1 .. Len(stack) /\ stack[1].key = k
        BY <1>1, <1>3, <4>1 DEF IInv, StackInv
      <4>3. Rank(k[1]) <= Rank(t[1])
        BY <1>1, <4>2, StackKeys
      <4>4. Rank(t[1]) < Rank(k[1]) /\ t[1] \in Path
        BY <1>3, <3>1, <3>2, AcyclicAssumption DEF DependsOn, DependencyOf, Key
      <4> QED
        BY <3>2, <4>3, <4>4, AcyclicAssumption
    <3> QED
      BY <3>3, <3>4
  <2>4. ParentInv'
    BY <1>1, <2>1, <2>3 DEF SectionInv, ParentInv, InterfaceOf
  <2> QED
    BY <1>1, <1>2, <2>2, <2>4, ItemsStay
<1> QED
  BY <1>4, <1>5

\* Only interfaces have dependents, and they are not removed: no item is
\* ever told that its interface is unknown.
LEMMA NotifyKeepsItems ==
    ASSUME IInv, SectionInv, NEW c \in Key, NEW g \in Field, RouterNotify(c, g)
    PROVE  cf' = cf
<1> DEFINE t == Top.key
<1>1. /\ stack # <<>> /\ <<c, g>> \in Top.todo
      /\ cf' = IF Top.going THEN DependencyChange(c, g, Unknown) ELSE cf
  BY DEF RouterNotify, Notify
<1>2. Len(stack) \in Nat /\ Len(stack) \in 1 .. Len(stack) /\ Top = stack[Len(stack)] /\ t \in Key
  BY <1>1, TopFrame DEF Top, IInv
<1>3. <<c, g>> \in dependents[t]
  BY <1>1, <1>2 DEF IInv, StackInv
<1>4. g \in DepFields(c[1]) /\ Parent(c[1], g) = t[1] /\ c[1] \in Path
  BY <1>2, <1>3 DEF IInv, RegisterInv, Key
<1>5. t[1] = Ethernet
  BY <1>4, SectionPaths
<1>6. ~Top.going
  <2> SUFFICES ASSUME Top.going PROVE FALSE
    OBVIOUS
  <2>1. Len(stack) = 1
    BY <1>2, FirstFrame DEF IInv, StackInv
  <2>2. edit.phase = "down" /\ edit.new = Nil /\ t = edit.old
    BY <1>1, <1>2, <2>1 DEF IInv, StackInv, Removing
  <2> QED
    BY <1>5, <2>2 DEF SectionInv, CallInv
<1> QED
  BY <1>1, <1>6

LEMMA RouterNotifyInv ==
    ASSUME IInv, SectionInv, NEW c \in Key, NEW g \in Field, RouterNotify(c, g)
    PROVE  SectionInv' /\ (KernelAgrees => KernelAgrees')
<1>1. /\ edit' = edit /\ backend' = backend
      /\ mirrorCf' = mirrorCf /\ mirrorLive' = mirrorLive /\ ifLookup' = ifLookup
      /\ link' = link /\ addrs' = addrs /\ failed' = failed /\ failures' = failures
  BY DEF RouterNotify, Notify, mirror, kernel
<1> QED
  BY <1>1, NotifyKeepsItems, ItemsStay, KernelStays, CallStays

LEMMA RouterBeginInv ==
    ASSUME IInv, SectionInv,
           \/ \E p \in Path : \E ci \in Items(p) : RouterCfAdd(p, ci)
           \/ \E k \in Key : \E ci \in Items(k[1]) : RouterCfChange(k, ci)
           \/ \E k \in Key : RouterCfRemove(k)
    PROVE  SectionInv' /\ (KernelAgrees => KernelAgrees')
<1> USE DEF mirror, kernel
<1>1. ASSUME NEW p \in Path, NEW ci \in Items(p), NEW u \in NewUniq(p, ci)
      PROVE  (p = Ethernet => u = <<ci.data[1]>>) /\ <<p, u>> # Nil
  <2>1. p = Ethernet => u = <<ci.data[1]>>
    BY <1>1, EthernetItems DEF NewUniq
  <2>2. u \in Uniq
    BY <1>1, ConstantsAssumption DEF NewUniq
  <2>3. <<p, u>> \in Key
    BY <2>2 DEF Key
  <2> QED
    BY <2>1, <2>3, ConstantsAssumption
<1>2. ASSUME NEW p \in Path, NEW ci \in Items(p), RouterCfAdd(p, ci)
      PROVE  CallInv' /\ cf' = cf /\ backend' = backend /\ UNCHANGED <<mirror, kernel>>
  <2>1. PICK u \in NewUniq(p, ci) :
            edit' = [phase |-> "down", old |-> Nil, new |-> <<p, u>>, ci |-> ci]
    BY <1>2 DEF RouterCfAdd, CfAdd
  <2>2. /\ cf' = cf /\ backend' = backend /\ UNCHANGED <<mirror, kernel>>
        /\ Fresh(p, ci, Nil) /\ (p = Ethernet => ifLookup[DeviceOf(ci)] = Nil)
    BY <1>2 DEF RouterCfAdd, CfAdd
  <2>3. Fresh(p, ci, Nil)'
    BY <2>2 DEF Fresh
  <2>4. (p = Ethernet => u = <<ci.data[1]>>) /\ <<p, u>> # Nil
    BY <1>1
  <2>5. /\ edit'.phase = "down" /\ edit'.old = Nil /\ edit'.new # Nil /\ edit'.ci = ci
        /\ edit'.new[1] = p /\ edit'.new[2] = u
    BY <2>1, <2>4
  <2> QED
    BY <2>2, <2>3, <2>4, <2>5 DEF CallInv
<1>3. ASSUME NEW k \in Key, NEW ci \in Items(k[1]), RouterCfChange(k, ci)
      PROVE  CallInv' /\ cf' = cf /\ backend' = backend /\ UNCHANGED <<mirror, kernel>>
  <2>0. PICK p \in Path : p = k[1]
    BY DEF Key
  <2>1. PICK u \in NewUniq(p, ci) :
            edit' = [phase |-> "down", old |-> k, new |-> <<p, u>>, ci |-> ci]
    BY <1>3, <2>0 DEF RouterCfChange, CfChange
  <2>2. /\ cf' = cf /\ backend' = backend /\ UNCHANGED <<mirror, kernel>>
        /\ Fresh(p, ci, k) /\ (p = Ethernet => DeviceOf(ci) = DeviceOf(cf[k]))
    BY <1>3, <2>0 DEF RouterCfChange, CfChange
  <2>3. Fresh(p, ci, k)'
    BY <2>2 DEF Fresh
  <2>4. (p = Ethernet => u = <<ci.data[1]>>) /\ <<p, u>> # Nil
    BY <1>1, <2>0
  <2>5. /\ edit'.phase = "down" /\ edit'.old = k /\ edit'.new # Nil /\ edit'.ci = ci
        /\ edit'.new[1] = p /\ edit'.new[2] = u
    BY <2>1, <2>4
  <2>6. k # Nil
    BY ConstantsAssumption
  <2> QED
    BY <2>0, <2>2, <2>3, <2>4, <2>5, <2>6 DEF CallInv
<1>4. ASSUME NEW k \in Key, RouterCfRemove(k)
      PROVE  CallInv' /\ cf' = cf /\ backend' = backend /\ UNCHANGED <<mirror, kernel>>
  <2>1. /\ edit' = [phase |-> "down", old |-> k, new |-> Nil, ci |-> Nil]
        /\ cf' = cf /\ backend' = backend /\ UNCHANGED <<mirror, kernel>> /\ Removable(k[1])
    BY <1>4 DEF RouterCfRemove, CfRemove
  <2>2. k[1] # Ethernet
    BY <2>1, SectionPaths DEF Key
  <2> QED
    BY <2>1, <2>2 DEF CallInv
<1>5. CallInv' /\ cf' = cf /\ backend' = backend /\ UNCHANGED <<mirror, kernel>>
  BY <1>2, <1>3, <1>4
<1> QED
  BY <1>5, ItemsStay, KernelStays

LEMMA RouterFinishInv ==
    ASSUME SectionInv, RouterFinish
    PROVE  SectionInv' /\ (KernelAgrees => KernelAgrees')
<1>1. /\ cf' = cf /\ backend' = backend /\ edit'.phase = "idle"
      /\ mirrorCf' = mirrorCf /\ mirrorLive' = mirrorLive /\ ifLookup' = ifLookup
      /\ link' = link /\ addrs' = addrs /\ failed' = failed /\ failures' = failures
  BY DEF RouterFinish, Finish, NoEdit, mirror, kernel
<1>2. CallInv'
  BY <1>1 DEF CallInv
<1> QED
  BY <1>1, <1>2, ItemsStay, KernelStays

\* An item that is not an interface goes: nothing refers to it.
LEMMA RouterDeleteInv ==
    ASSUME IInv, SectionInv, RouterDelete
    PROVE  SectionInv' /\ (KernelAgrees => KernelAgrees')
<1>0. PICK o : o = edit.old
  OBVIOUS
<1>1. /\ edit.phase = "down" /\ edit.new = Nil /\ edit'.phase = "idle" /\ backend' = backend
      /\ link' = link /\ addrs' = addrs /\ failed' = failed /\ failures' = failures
  BY DEF RouterDelete, Delete, NoEdit, kernel
<1>2. o[1] # Ethernet
  BY <1>0, <1>1 DEF SectionInv, CallInv
<1>3. mirrorCf' = mirrorCf /\ mirrorLive' = mirrorLive /\ ifLookup' = ifLookup
  BY <1>0, <1>2 DEF RouterDelete, mirror
<1>4. /\ o \in Key /\ o \notin backend
      /\ cf'[o] = Nil /\ \A k \in Key : k # o => cf'[k] = cf[k]
  BY <1>0, DeleteFacts DEF RouterDelete
<1>5. ASSUME NEW k \in Key, k # o
      PROVE  /\ cf'[k] = cf[k] /\ InterfaceOf(k)' = InterfaceOf(k) /\ InterfaceOf(k) # o
             /\ cf[k] # Nil /\ k[1] # Ethernet =>
                   cf'[InterfaceOf(k)] = cf[InterfaceOf(k)] /\ Target(k)' = Target(k)
  <2>1. cf'[k] = cf[k] /\ InterfaceOf(k)' = InterfaceOf(k) /\ InterfaceOf(k) # o
    BY <1>2, <1>4, <1>5 DEF InterfaceOf
  <2>2. cf[k] # Nil /\ k[1] # Ethernet => InterfaceOf(k) \in Key
    BY ItemFacts
  <2> QED
    BY <1>4, <2>1, <2>2 DEF InterfaceOf, Target
<1>6. ASSUME NEW u \in Uniq PROVE cf'[<<Ethernet, u>>] = cf[<<Ethernet, u>>]
  BY <1>2, <1>4, SectionPaths DEF Key
<1>7. \A k \in backend : k \in Key /\ k # o /\ cf[k] # Nil
  BY <1>4, BackendItems
<1>8. ShapeInv' /\ ReferenceInv'
  BY <1>4, <1>5 DEF SectionInv, ShapeInv, ReferenceInv
<1>9. DistinctInv' /\ CallInv'
  BY <1>1, <1>4 DEF SectionInv, DistinctInv, CallInv
<1>10. ParentInv'
  BY <1>1, <1>5, <1>7 DEF SectionInv, ParentInv
<1>11. MirrorAgrees' /\ RouterTypeOK'
  BY <1>1, <1>3, <1>6 DEF SectionInv, MirrorAgrees, RouterTypeOK
<1>12. ASSUME KernelAgrees PROVE KernelAgrees'
  <2>1. \A k \in backend : /\ cf'[k] = cf[k]
                           /\ k[1] = Address => Target(k)' = Target(k)
    BY <1>5, <1>7, SectionNames
  <2> QED
    BY <1>1, <1>12, <2>1 DEF KernelAgrees
<1> QED
  BY <1>8, <1>9, <1>10, <1>11, <1>12 DEF SectionInv

\* An item with another interface is an item of its section.
LEMMA RepointedItem ==
    ASSUME NEW p \in Path, p # Ethernet, NEW ci \in Items(p),
           NEW dp \in [{"interface"} -> {<<n>> : n \in Name}]
    PROVE  /\ [ci EXCEPT !.dep = dp] \in Items(p)
           /\ [ci EXCEPT !.dep = dp].data = ci.data
           /\ [ci EXCEPT !.dep = dp].dep = dp
<1> DEFINE DD == [{"interface"} -> {<<n>> : n \in Name}]
           T == CASE p = Ethernet -> Name \X Dev
                  [] p = Address  -> {<<a>> : a \in StaticAddr}
                  [] OTHER        -> {<<>>}
<1>1. Items(p) = [disabled : BOOLEAN, dep : DD, data : T]
  BY RouterAssumption DEF RouterItems, RouterField
<1> HIDE DEF T, DD
<1>2. dp \in DD
  BY DEF DD
<1> QED
  BY <1>1, <1>2

\* What Install does to the items.
LEMMA InstallItems ==
    ASSUME IInv, SectionInv, Install, NEW o, NEW m, NEW ci, o = edit.old, m = edit.new, ci = edit.ci
    PROVE  /\ ci \in Items(m[1]) /\ cf'[m] = ci /\ m[1] \in Path /\ m[2] \in Uniq /\ m = <<m[1], m[2]>>
           /\ m[1] = Ethernet => m[2] = <<ci.data[1]>>
           /\ o # Nil => o[1] = m[1] /\ o \in Key
           /\ \A k \in Key : k # m /\ k # o /\ cf[k] # Nil =>
                  /\ cf'[k] \in Items(k[1]) /\ cf'[k].data = cf[k].data
                  /\ k[1] = Ethernet \/ m[1] # Ethernet => cf'[k] = cf[k]
                  /\ k[1] # Ethernet =>
                        InterfaceOf(k)' = IF InterfaceOf(k) = o THEN m ELSE InterfaceOf(k)
<1> USE ConstantsAssumption
<1>1. /\ edit.phase = "down" /\ stack = <<>> /\ m # Nil
      /\ cf' = [k \in Key |-> IF k = m THEN ci ELSE IF k = o THEN Nil ELSE Repointed(k)]
  BY DEF Install
<1>2. /\ m \in Key /\ ci \in Item /\ ci # Nil
      /\ o # Nil => o[1] = m[1] /\ o \in Key /\ cf[o] # Nil
  BY <1>1 DEF IInv, EditInv, TypeOK, Edit
<1>3. ci \in Items(m[1]) /\ (m[1] = Ethernet => m[2] = <<ci.data[1]>>)
  BY <1>1 DEF SectionInv, CallInv
<1>4. cf'[m] = ci /\ m[1] \in Path /\ m[2] \in Uniq /\ m = <<m[1], m[2]>>
  BY <1>1, <1>2 DEF Key
<1>5. ASSUME NEW k \in Key, k # m, k # o, cf[k] # Nil
      PROVE  /\ cf'[k] \in Items(k[1]) /\ cf'[k].data = cf[k].data
             /\ k[1] = Ethernet \/ m[1] # Ethernet => cf'[k] = cf[k]
  <2>1. cf'[k] = Repointed(k) /\ cf[k] \in Items(k[1]) /\ cf[k] \in Item /\ k[1] \in Path
    BY <1>1, <1>5 DEF SectionInv, ShapeInv, IInv, TypeOK, Key
  <2>2. CASE MovedFrom = Nil
    BY <2>1, <2>2 DEF Repointed
  <2>3. CASE MovedFrom # Nil
    <3> DEFINE dp == [f \in Field |-> IF <<k, f>> \in Inherited THEN edit.new[2] ELSE cf[k].dep[f]]
    <3>1. Repointed(k) = [cf[k] EXCEPT !.dep = dp]
      BY <1>5, <2>3 DEF Repointed
    <3>2. o # Nil /\ Inherited = dependents[o] /\ o \in Key
      BY <1>2, <2>3 DEF MovedFrom, Inherited
    <3>3. ASSUME NEW f \in Field, <<k, f>> \in Inherited
          PROVE  k[1] # Ethernet /\ m[1] = Ethernet
      <4>1. f \in DepFields(k[1]) /\ Parent(k[1], f) = o[1]
        BY <3>2, <3>3 DEF IInv, RegisterInv
      <4> QED
        BY <1>2, <2>1, <3>2, <4>1, SectionPaths
    <3>4. CASE k[1] = Ethernet \/ m[1] # Ethernet
      <4>1. cf[k].dep \in [Field -> Uniq]
        BY <2>1 DEF Item
      <4>2. dp = cf[k].dep
        BY <3>3, <3>4, <4>1
      <4> HIDE DEF dp
      <4>3. [cf[k] EXCEPT !.dep = dp] = cf[k]
        BY <2>1, <4>2 DEF Item
      <4> QED
        BY <2>1, <3>1, <4>3
    <3>5. CASE k[1] # Ethernet /\ m[1] = Ethernet
      <4>1. cf[k].dep \in [{"interface"} -> {<<n>> : n \in Name}]
        BY <2>1, <3>5, OtherItems
      <4>2. m[2] \in {<<n>> : n \in Name}
        BY <1>3, <3>5, EthernetItems
      <4>3. dp \in [{"interface"} -> {<<n>> : n \in Name}]
        BY <4>1, <4>2, SectionPaths
      <4> HIDE DEF dp
      <4> QED
        BY <2>1, <3>1, <3>5, <4>3, RepointedItem
    <3> QED
      BY <3>4, <3>5
  <2> QED
    BY <2>2, <2>3
<1>6. ASSUME NEW k \in Key, k # m, k # o, cf[k] # Nil, k[1] # Ethernet
      PROVE  InterfaceOf(k)' = IF InterfaceOf(k) = o THEN m ELSE InterfaceOf(k)
  <2>1. k[1] \in Path
    BY DEF Key
  <2>2. "interface" \in DepFields(k[1]) /\ Parent(k[1], "interface") = Ethernet
    BY <1>6, <2>1, SectionPaths
  <2>3. DependsOn(k, "interface") = InterfaceOf(k) /\ DependsOn(k, "interface")' = InterfaceOf(k)'
    BY <2>2 DEF DependsOn, DependencyOf, InterfaceOf
  <2>4. DependsOn(k, "interface")' = IF DependsOn(k, "interface") = o THEN m ELSE DependsOn(k, "interface")
    BY <1>6, <2>2, InstallFacts
  <2> QED
    BY <2>3, <2>4
<1> QED
  BY <1>2, <1>3, <1>4, <1>5, <1>6

\* The item is put in its place: the mirror and _if_lookup follow, the
\* dependents are repointed, and nothing that is up notices.
LEMMA RouterInstallInv ==
    ASSUME IInv, SectionInv, RouterInstall
    PROVE  SectionInv' /\ (KernelAgrees => KernelAgrees')
<1> USE ConstantsAssumption
<1>0. PICK o, m, ci : o = edit.old /\ m = edit.new /\ ci = edit.ci
  OBVIOUS
<1> DEFINE E(u) == <<Ethernet, u>>
<1>1. /\ Install /\ edit.phase = "down" /\ edit.new # Nil /\ edit'.phase = "up" /\ backend' = backend
      /\ link' = link /\ addrs' = addrs /\ failed' = failed /\ failures' = failures
      /\ m[1] # Ethernet => mirrorCf' = mirrorCf /\ mirrorLive' = mirrorLive /\ ifLookup' = ifLookup
      /\ m[1] = Ethernet => /\ MirrorMove(IF o # Nil THEN o[2] ELSE m[2], m[2], ci)
                            /\ ifLookup' = [ifLookup EXCEPT ![DeviceOf(ci)] = m[2]]
  BY <1>0 DEF RouterInstall, Install, IInv, TypeOK, Edit, mirror, kernel, CiPostprocess
<1>2. /\ m \in Key /\ o \in Key \cup {Nil} /\ cf'[m] # Nil
      /\ o # Nil => cf[o] # Nil
      /\ m = o \/ cf[m] = Nil
      /\ m \notin backend /\ o \notin backend
      /\ o # m => o = Nil \/ cf'[o] = Nil
      /\ \A c \in Key : c # m /\ c # o => (cf'[c] = Nil <=> cf[c] = Nil)
      /\ \A c \in Key : c # m /\ c # o /\ cf[c] # Nil => \A f \in DepFields(c[1]) : DependsOn(c, f) = m => m = o
  BY <1>0, <1>1, InstallFacts
<1>3. /\ ci \in Items(m[1]) /\ cf'[m] = ci /\ m[1] \in Path /\ m[2] \in Uniq /\ m = <<m[1], m[2]>>
      /\ m[1] = Ethernet => m[2] = <<ci.data[1]>>
      /\ o # Nil => o[1] = m[1] /\ o \in Key
      /\ \A k \in Key : k # m /\ k # o /\ cf[k] # Nil =>
             /\ cf'[k] \in Items(k[1]) /\ cf'[k].data = cf[k].data
             /\ k[1] = Ethernet \/ m[1] # Ethernet => cf'[k] = cf[k]
             /\ k[1] # Ethernet => InterfaceOf(k)' = IF InterfaceOf(k) = o THEN m ELSE InterfaceOf(k)
  BY <1>0, <1>1, InstallItems
<1>4. o # Nil => o = <<o[1], o[2]>> /\ o[2] \in Uniq
  BY <1>3 DEF Key
<1>5. \A u \in Uniq : E(u) \in Key /\ E(u)[1] = Ethernet /\ E(u)[2] = u
  BY SectionPaths DEF Key
<1>6. ASSUME NEW u \in Uniq
      PROVE  /\ E(u) # m /\ E(u) # o => cf'[E(u)] = cf[E(u)]
             /\ E(u) = m <=> m[1] = Ethernet /\ u = m[2]
             /\ o # Nil => (E(u) = o <=> o[1] = Ethernet /\ u = o[2])
  <2>1. E(u) # m /\ E(u) # o => cf'[E(u)] = cf[E(u)]
    BY <1>2, <1>3, <1>5
  <2> QED
    BY <1>3, <1>4, <1>5, <2>1
<1>7. ShapeInv'
  <2>1. \A k \in Key : k # m /\ k # o /\ cf'[k] # Nil =>
            cf'[k] \in Items(k[1]) /\ (k[1] = Ethernet => k[2] = <<cf'[k].data[1]>>)
    BY <1>2, <1>3 DEF SectionInv, ShapeInv
  <2> QED
    BY <1>2, <1>3, <2>1 DEF ShapeInv
<1>8. ReferenceInv'
  <2> SUFFICES ASSUME NEW k \in Key, cf'[k] # Nil, k[1] # Ethernet PROVE cf'[InterfaceOf(k)'] # Nil
    BY DEF ReferenceInv
  <2>1. CASE k = m
    <3>1. PICK d : d = <<Ethernet, ci.dep["interface"]>>
      OBVIOUS
    <3>2. DepFields(m[1]) = {"interface"} /\ Parent(m[1], "interface") = Ethernet
      BY <1>3, <2>1, SectionPaths
    <3>3. cf[d] # Nil
      BY <1>0, <1>1, <3>1, <3>2 DEF IInv, EditInv, DependencyOf
    <3>4. d \in Key
      <4>1. ci.dep["interface"] \in Uniq
        BY <1>3, <2>1, OtherItems, SectionPaths
      <4> QED
        BY <1>5, <3>1, <4>1
    <3>5. d[1] = Ethernet /\ d # m /\ d # o
      BY <1>2, <1>3, <2>1, <3>1, <3>4
    <3>6. InterfaceOf(k)' = d
      BY <1>3, <2>1, <3>1 DEF InterfaceOf
    <3> QED
      BY <1>2, <3>3, <3>4, <3>5, <3>6
  <2>2. CASE k # m
    <3>1. k # o /\ cf[k] # Nil
      BY <1>2, <2>2
    <3>2. InterfaceOf(k) \in Key /\ cf[InterfaceOf(k)] # Nil
      BY <3>1, ItemFacts
    <3>3. InterfaceOf(k)' = IF InterfaceOf(k) = o THEN m ELSE InterfaceOf(k)
      BY <1>3, <2>2, <3>1
    <3> QED
      BY <1>2, <3>2, <3>3
  <2> QED
    BY <2>1, <2>2
<1>9. DistinctInv'
  <2>1. ASSUME NEW k \in Key, k # m, cf'[k] # Nil, m[1] = Address, k[1] = Address,
               ci.data = cf'[k].data, ci.dep["interface"] = cf'[k].dep["interface"]
        PROVE  FALSE
    <3>1. k # o /\ cf[k] # Nil /\ cf'[k] = cf[k]
      BY <1>2, <1>3, <2>1, SectionNames
    <3>2. cf[k] \in Items(k[1]) /\ k = <<m[1], k[2]>> /\ k[2] \in Uniq /\ k[1] \in Path
      BY <2>1, <3>1 DEF SectionInv, ShapeInv, Key
    <3>3. /\ ci.dep \in [{"interface"} -> {<<n>> : n \in Name}]
          /\ cf[k].dep \in [{"interface"} -> {<<n>> : n \in Name}]
      BY <1>3, <2>1, <3>2, OtherItems, SectionNames
    <3>4. ci.dep = cf[k].dep
      BY <2>1, <3>1, <3>3
    <3>5. Fresh(m[1], ci, o)
      BY <1>0, <1>1 DEF SectionInv, CallInv
    <3> QED
      BY <2>1, <3>1, <3>2, <3>4, <3>5, SectionNames DEF Fresh, SameThing
  <2>2. ASSUME NEW j \in Key, NEW k \in Key, j # m, k # m, cf'[j] # Nil, cf'[k] # Nil,
               j[1] = Address, k[1] = Address,
               cf'[j].data = cf'[k].data, cf'[j].dep["interface"] = cf'[k].dep["interface"]
        PROVE  j = k
    <3>1. j # o /\ k # o /\ cf[j] # Nil /\ cf[k] # Nil /\ cf[j].data = cf[k].data
      BY <1>2, <1>3, <2>2
    <3>2. InterfaceOf(j)' = InterfaceOf(k)'
      BY <2>2 DEF InterfaceOf
    <3>3. /\ InterfaceOf(j)' = IF InterfaceOf(j) = o THEN m ELSE InterfaceOf(j)
          /\ InterfaceOf(k)' = IF InterfaceOf(k) = o THEN m ELSE InterfaceOf(k)
          /\ InterfaceOf(j) = m => m = o
          /\ InterfaceOf(k) = m => m = o
      BY <1>2, <1>3, <2>2, <3>1, ItemFacts, SectionNames
    <3>4. cf[j].dep["interface"] = cf[k].dep["interface"]
      BY <3>2, <3>3 DEF InterfaceOf
    <3> QED
      BY <2>2, <3>1, <3>4 DEF SectionInv, DistinctInv
  <2> QED
    BY <1>2, <1>3, <2>1, <2>2 DEF DistinctInv
<1>10. CallInv'
  BY <1>1 DEF CallInv
<1>11. ASSUME NEW k \in backend
       PROVE  /\ k \in Key /\ k # m /\ k # o /\ cf[k] # Nil /\ cf'[k].data = cf[k].data
              /\ k[1] = Ethernet => cf'[k] = cf[k]
              /\ k[1] # Ethernet => InterfaceOf(k)' = InterfaceOf(k) /\ InterfaceOf(k) \in backend
  <2>1. k \in Key /\ k # m /\ k # o /\ cf[k] # Nil
    BY <1>2, <1>11, BackendItems
  <2>2. k[1] # Ethernet => InterfaceOf(k) \in backend
    BY <1>11 DEF SectionInv, ParentInv
  <2> QED
    BY <1>2, <1>3, <2>1, <2>2
<1>12. ParentInv'
  BY <1>1, <1>11 DEF ParentInv
<1>13. ASSUME KernelAgrees PROVE KernelAgrees'
  <2>1. ASSUME NEW k \in backend, k[1] = Address PROVE Target(k)' = Target(k)
    <3>1. PICK d : d = InterfaceOf(k)
      OBVIOUS
    <3>2. d \in backend /\ d = InterfaceOf(k)' /\ d[1] = Ethernet
      BY <1>11, <2>1, <3>1, SectionNames DEF InterfaceOf
    <3>3. cf'[d] = cf[d]
      BY <1>11, <3>2
    <3>4. Target(k) = DeviceOf(cf[d]) /\ Target(k)' = DeviceOf(cf'[d])
      BY <3>1, <3>2 DEF Target, InterfaceOf, DeviceOf
    <3> QED
      BY <3>3, <3>4
  <2>2. \A k \in backend : /\ cf'[k].data = cf[k].data
                           /\ k[1] = Ethernet => DeviceOf(cf[k])' = DeviceOf(cf[k])
                           /\ k[1] = Address => Target(k)' = Target(k)
    BY <1>11, <2>1 DEF DeviceOf
  <2> QED
    BY <1>1, <1>13, <2>2 DEF KernelAgrees
<1>14. MirrorAgrees' /\ RouterTypeOK'
  <2>1. CASE m[1] # Ethernet
    <3>1. \A u \in Uniq : cf'[E(u)] = cf[E(u)]
      BY <1>2, <1>3, <1>5, <1>6, <2>1
    <3> QED
      BY <1>1, <2>1, <3>1 DEF SectionInv, MirrorAgrees, RouterTypeOK
  <2>2. CASE m[1] = Ethernet
    <3> DEFINE old == IF o # Nil THEN o[2] ELSE m[2]
    <3>1. PICK dev \in Dev : dev = DeviceOf(ci)
      BY <1>3, <2>2, EthernetItems
    <3>2. /\ mirrorCf' = [u \in Uniq |-> IF u = m[2] THEN ci ELSE IF u = old THEN Nil ELSE mirrorCf[u]]
          /\ mirrorLive' = mirrorLive \cup {m[2]}
          /\ ifLookup' = [ifLookup EXCEPT ![dev] = m[2]]
      BY <1>1, <2>2, <3>1 DEF MirrorMove
    <3>3. /\ mirrorCf \in [Uniq -> Item \cup {Nil}] /\ ifLookup \in [Dev -> Uniq \cup {Nil}]
          /\ \A u \in Uniq : mirrorCf[u] = cf[E(u)]
          /\ \A d \in Dev, u \in Uniq : ifLookup[d] = u <=> cf[E(u)] # Nil /\ DeviceOf(cf[E(u)]) = d
          /\ mirrorLive \subseteq Uniq /\ \A u \in Uniq : mirrorCf[u] # Nil => u \in mirrorLive
      BY DEF SectionInv, RouterTypeOK, MirrorAgrees
    <3>4. ci \in Item
      BY <1>3
    <3>5. IF o = Nil THEN ifLookup[dev] = Nil ELSE ifLookup[dev] = o[2] /\ DeviceOf(cf[o]) = dev
      <4>1. CASE o = Nil
        BY <1>0, <1>1, <2>2, <3>1, <4>1 DEF SectionInv, CallInv
      <4>2. CASE o # Nil
        <5>1. DeviceOf(cf[o]) = dev
          BY <1>0, <1>1, <2>2, <3>1, <4>2 DEF SectionInv, CallInv
        <5>2. E(o[2]) = o /\ o[2] \in Uniq /\ cf[o] # Nil
          BY <1>2, <1>3, <1>4, <2>2, <4>2
        <5> QED
          BY <3>3, <4>2, <5>1, <5>2
      <4> QED
        BY <4>1, <4>2
    <3>6. ASSUME NEW u \in Uniq
          PROVE  cf'[E(u)] = IF u = m[2] THEN ci ELSE IF u = old THEN Nil ELSE cf[E(u)]
      BY <1>2, <1>3, <1>4, <1>5, <1>6, <2>2
    <3> HIDE DEF E
    <3>7. \A u \in Uniq : mirrorCf'[u] = cf'[E(u)]
      BY <3>2, <3>3, <3>6
    <3>8. ASSUME NEW d \in Dev, NEW u \in Uniq
          PROVE  ifLookup'[d] = u <=> cf'[E(u)] # Nil /\ DeviceOf(cf'[E(u)]) = d
      <4>0. u # Nil /\ ifLookup'[d] = IF d = dev THEN m[2] ELSE ifLookup[d]
        BY <3>2, <3>3, RouterAssumption
      <4>1. CASE u = m[2]
        <5>1. cf'[E(u)] = ci /\ ci # Nil
          BY <1>2, <1>3, <3>6, <4>1
        <5>2. d # dev => ifLookup[d] # u
          <6> SUFFICES ASSUME ifLookup[d] = u PROVE d = dev
            OBVIOUS
          <6>1. cf[E(u)] # Nil /\ DeviceOf(cf[E(u)]) = d
            BY <3>3
          <6>2. E(u) = m
            BY <1>6, <2>2, <4>1
          <6> QED
            BY <1>2, <3>5, <6>1, <6>2
        <5> QED
          BY <3>1, <4>0, <4>1, <5>1, <5>2
      <4>2. CASE u # m[2] /\ u = old
        <5>1. cf'[E(u)] = Nil /\ o # Nil /\ u = o[2]
          BY <3>6, <4>2
        <5>2. d # dev => ifLookup[d] # u
          <6> SUFFICES ASSUME ifLookup[d] = u PROVE d = dev
            OBVIOUS
          <6>1. DeviceOf(cf[E(u)]) = d
            BY <3>3
          <6>2. E(u) = o
            BY <1>3, <1>6, <2>2, <5>1
          <6> QED
            BY <3>5, <5>1, <6>1, <6>2
        <5> QED
          BY <4>0, <4>2, <5>1, <5>2
      <4>3. CASE u # m[2] /\ u # old
        <5>1. cf'[E(u)] = cf[E(u)]
          BY <3>6, <4>3
        <5>2. ifLookup[dev] # u
          BY <3>5, <4>0, <4>3
        <5> QED
          BY <3>3, <4>0, <4>3, <5>1, <5>2
      <4> QED
        BY <4>1, <4>2, <4>3
    <3>9. MirrorAgrees'
      BY <3>7, <3>8 DEF MirrorAgrees, E
    <3>10. RouterTypeOK'
      <4>1. mirrorCf' \in [Uniq -> Item \cup {Nil}] /\ ifLookup' \in [Dev -> Uniq \cup {Nil}]
        BY <1>3, <3>2, <3>3, <3>4
      <4>2. mirrorLive' \subseteq Uniq /\ \A u \in Uniq : mirrorCf'[u] # Nil => u \in mirrorLive'
        BY <1>3, <3>2, <3>3
      <4> QED
        BY <1>1, <4>1, <4>2 DEF SectionInv, RouterTypeOK
    <3> QED
      BY <3>9, <3>10
  <2> QED
    BY <2>1, <2>2
<1> QED
  BY <1>7, <1>8, <1>9, <1>10, <1>12, <1>13, <1>14 DEF SectionInv

-----------------------------------------------------------------------------
(* The theorems.                                                           *)

LEMMA RouterInitInv == RouterInit => RouterInv
<1> SUFFICES ASSUME RouterInit PROVE RouterInv
  OBVIOUS
<1>1. \A k \in Key : cf[k] = Nil
  BY DEF RouterInit, Init
<1>2. \A u \in Uniq : cf[<<Ethernet, u>>] = Nil
  BY <1>1, SectionPaths DEF Key
<1>3. backend = {} /\ edit.phase = "idle"
  BY DEF RouterInit, Init, NoEdit
<1>4. RouterTypeOK
  BY FailuresAssumption DEF RouterInit, RouterTypeOK
<1>5. ShapeInv /\ ReferenceInv /\ DistinctInv /\ CallInv /\ ParentInv
  BY <1>1, <1>3 DEF ShapeInv, ReferenceInv, DistinctInv, CallInv, ParentInv
<1>6. MirrorAgrees
  BY <1>2, RouterAssumption DEF RouterInit, MirrorAgrees
<1>7. KernelAgrees
  BY <1>3 DEF RouterInit, KernelAgrees
<1> QED
  BY <1>4, <1>5, <1>6, <1>7 DEF RouterInv, SectionInv

LEMMA RouterNextInv ==
    IInv /\ IInv' /\ SectionInv /\ [RouterNext]_routerVars => SectionInv' /\ (KernelAgrees => KernelAgrees')
<1> SUFFICES ASSUME IInv, IInv', SectionInv, [RouterNext]_routerVars
             PROVE  SectionInv' /\ (KernelAgrees => KernelAgrees')
  OBVIOUS
<1>1. CASE \/ \E p \in Path : \E ci \in Items(p) : RouterCfAdd(p, ci)
           \/ \E k \in Key : \E ci \in Items(k[1]) : RouterCfChange(k, ci)
           \/ \E k \in Key : RouterCfRemove(k)
  BY <1>1, RouterBeginInv
<1>2. ASSUME NEW c \in Key, NEW f \in Field, RouterNotify(c, f)
      PROVE  SectionInv' /\ (KernelAgrees => KernelAgrees')
  BY <1>2, RouterNotifyInv
<1>3. CASE RouterStateChange \/ RouterReturn \/ RouterInstall \/ RouterDelete \/ RouterFinish
  BY <1>3, RouterStateChangeInv, RouterReturnInv, RouterInstallInv, RouterDeleteInv, RouterFinishInv
<1>4. CASE UNCHANGED routerVars
  <2>1. /\ cf' = cf /\ backend' = backend /\ edit' = edit
        /\ mirrorCf' = mirrorCf /\ mirrorLive' = mirrorLive /\ ifLookup' = ifLookup
        /\ link' = link /\ addrs' = addrs /\ failed' = failed /\ failures' = failures
    BY <1>4 DEF routerVars, vars, mirror, kernel
  <2> QED
    BY <2>1, ItemsStay, KernelStays, CallStays
<1> QED
  BY <1>1, <1>2, <1>3, <1>4 DEF RouterNext

(* Beside the engine's invariant the sections keep theirs (RouterInv), as  *)
(* long as callers reuse no key.                                           *)
THEOREM RouterInvariance == ASSUME Disciplined PROVE RouterSpec => []RouterInv
<1>1. IInv /\ IInv' /\ RouterInv /\ [RouterNext]_routerVars => RouterInv'
  BY RouterNextInv DEF RouterInv
<1> QED
  BY <1>1, RouterInitInv, RouterEngine, PTL DEF RouterSpec

(* The mirror, _if_lookup and the kernel's tables have their types         *)
(* (RouterTypeOK), and every interface of the mirror has its live entry.   *)
THEOREM RouterTypeCorrect == ASSUME Disciplined PROVE RouterSpec => []RouterTypeOK
<1>1. RouterInv => RouterTypeOK
  BY DEF RouterInv, SectionInv
<1> QED
  BY <1>1, RouterInvariance, PTL

(* _if_lookup and the mirror's cf table name every interface as the        *)
(* ethernet section does (MirrorAgrees), across any renames.               *)
THEOREM MirrorCorrect == ASSUME Disciplined PROVE RouterSpec => []MirrorAgrees
<1>1. RouterInv => MirrorAgrees
  BY DEF RouterInv, SectionInv
<1> QED
  BY <1>1, RouterInvariance, PTL

(* Links and addresses of the kernel are those of the started items        *)
(* (KernelAgrees), but for what a failed command was about, for any number *)
(* of interfaces, addresses and failures.                                  *)
THEOREM KernelCorrect == ASSUME Disciplined PROVE RouterSpec => []KernelAgrees
<1>1. RouterInv => KernelAgrees
  BY DEF RouterInv, SectionInv
<1> QED
  BY <1>1, RouterInvariance, PTL

(* No address is on a device that is down (AddressOnUpLink), unless a      *)
(* command about one of them failed.                                       *)
THEOREM AddressesOnUpLinks == ASSUME Disciplined PROVE RouterSpec => []AddressOnUpLink
<1>1. IInv /\ RouterInv => AddressOnUpLink
  <2> SUFFICES ASSUME IInv, RouterInv, NEW x \in addrs, x \notin failed, <<x[2]>> \notin failed
               PROVE  x[2] \in link
    BY DEF AddressOnUpLink
  <2>1. x \in Addr \X Dev /\ x[2] \in Dev
    BY DEF RouterInv, SectionInv, RouterTypeOK
  <2>2. PICK k \in backend : k[1] = Address /\ Target(k) = x[2]
    BY <2>1 DEF RouterInv, KernelAgrees
  <2>3. InterfaceOf(k) \in backend /\ InterfaceOf(k)[1] = Ethernet /\ DeviceOf(cf[InterfaceOf(k)]) = x[2]
    BY <2>2, SectionNames DEF RouterInv, SectionInv, ParentInv, InterfaceOf, Target
  <2> QED
    BY <2>1, <2>3 DEF RouterInv, KernelAgrees
<1> QED
  BY <1>1, RouterEngine, RouterInvariance, PTL
=============================================================================
