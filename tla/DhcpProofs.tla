----------------------------- MODULE DhcpProofs -----------------------------
(***************************************************************************)
(* The DHCP client on top of the router, for any interfaces, devices,      *)
(* addresses, processes and length of the event queue.                     *)
(***************************************************************************)
EXTENDS DhcpClient, RouterProofs

-----------------------------------------------------------------------------
(* A behaviour of the DHCP client is one of the engine.                    *)

LEMMA DhcpInitIsInit == DhcpInit => RouterInit
BY DEF DhcpInit

\* The steps of processes and of the main loop leave the tables alone.
LEMMA DhcpNextIsRouter ==
    ASSUME [DhcpNext]_dhcpVars
    PROVE  [RouterNext]_routerVars \/ EventRecv
<1>1. ASSUME NEW p \in Path, NEW ci \in Items(p), DhcpCfAdd(p, ci) PROVE RouterNext
  BY <1>1 DEF DhcpCfAdd, RouterNext
<1>2. ASSUME NEW k \in Key, NEW ci \in Items(k[1]), DhcpCfChange(k, ci) PROVE RouterNext
  BY <1>2 DEF DhcpCfChange, RouterNext
<1>3. ASSUME NEW k \in Key, DhcpCfRemove(k) PROVE RouterNext
  BY <1>3 DEF DhcpCfRemove, RouterNext
<1>4. ASSUME NEW c \in Key, NEW f \in Field, DhcpNotify(c, f) PROVE RouterNext
  BY <1>4 DEF DhcpNotify, RouterNext
<1>5. CASE DhcpStateChange \/ DhcpReturn \/ DhcpInstall \/ DhcpDelete \/ DhcpFinish
  BY <1>5 DEF DhcpStateChange, DhcpReturn, DhcpInstall, DhcpDelete, DhcpFinish, RouterNext
<1>6. ASSUME NEW p \in Proc, ClientDeconfig(p) \/ (\E a \in Addr : ClientBound(p, a)) \/ ClientRenew(p)
      PROVE  UNCHANGED routerVars
  BY <1>6 DEF ClientDeconfig, ClientBound, ClientRenew, Send
<1>7. CASE EventInit \/ UNCHANGED dhcpVars
  BY <1>7 DEF EventInit, dhcpVars
<1> QED
  BY <1>1, <1>2, <1>3, <1>4, <1>5, <1>6, <1>7 DEF DhcpNext, DhcpStep

LEMMA DhcpNextIsNext == [DhcpNext]_dhcpVars => [Next]_vars
<1> SUFFICES ASSUME [DhcpNext]_dhcpVars PROVE [Next]_vars
  OBVIOUS
<1>1. CASE EventRecv
  BY <1>1 DEF EventRecv
<1> QED
  BY <1>1, DhcpNextIsRouter, RouterNextIsNext

(* Every behaviour of the DHCP client, with its processes and its events,  *)
(* is one of the engine of lib/cf.lua.                                     *)
THEOREM DhcpIsEngine == DhcpSpec => Spec
<1>1. DhcpInit => Init
  BY DhcpInitIsInit, RouterInitIsInit
<1> QED
  BY <1>1, DhcpNextIsNext, PTL DEF DhcpSpec, Spec

LEMMA DhcpEngine == ASSUME Disciplined PROVE DhcpSpec => []IInv
BY DhcpIsEngine, Invariance, PTL

-----------------------------------------------------------------------------
(* Events.                                                                 *)

\* The item an event is about, if there is one, is that of the interface
\* with the event's device.
LEMMA EventFacts ==
    ASSUME IInv, SectionInv, DhcpInv, queue # <<>>, NEW e, e = Head(queue), NEW u, u = ItemOf(e.dev)
    PROVE  /\ e \in Event /\ e.dev \in Dev /\ u \in Uniq
           /\ e.event = "add-lease" => e.address \in Addr
           /\ Tail(queue) \in Seq(Event) /\ Len(Tail(queue)) <= MaxQueue
           /\ lease[u] # Nil =>
                 /\ lease[u] \in Lease /\ <<Dhcp, u>> \in Key /\ cf[<<Dhcp, u>>] # Nil
                 /\ <<Ethernet, u>> \in Key /\ cf[<<Ethernet, u>>] # Nil
                 /\ DeviceOf(cf[<<Ethernet, u>>]) = e.dev
<1>1. queue \in Seq(Event) /\ Len(queue) <= MaxQueue /\ MaxQueue \in Nat
  BY DhcpAssumption DEF DhcpInv, DhcpTypeOK
<1>2. e \in Event /\ Tail(queue) \in Seq(Event) /\ Len(Tail(queue)) <= MaxQueue
  BY <1>1
<1>3. e.dev \in Dev /\ (e.event = "add-lease" => e.address \in Addr)
  BY <1>2 DEF Event
<1>4. ifLookup[e.dev] \in Uniq \cup {Nil} /\ u \in Uniq
  BY <1>3, ConstantsAssumption DEF SectionInv, RouterTypeOK, ItemOf
<1>5. ASSUME lease[u] # Nil
      PROVE  /\ lease[u] \in Lease /\ <<Dhcp, u>> \in Key /\ cf[<<Dhcp, u>>] # Nil
             /\ <<Ethernet, u>> \in Key /\ cf[<<Ethernet, u>>] # Nil
             /\ DeviceOf(cf[<<Ethernet, u>>]) = e.dev
  <2>1. Dhcp \in Path /\ Ethernet \in Path
    BY DhcpAssumption, RouterAssumption DEF RouterPath
  <2>2. <<Dhcp, u>> \in Key /\ <<Ethernet, u>> \in Key
    BY <1>4, <2>1 DEF Key
  <2>3. lease[u] \in Lease /\ cf[<<Dhcp, u>>] # Nil
    BY <1>4, <1>5 DEF DhcpInv, DhcpTypeOK, LeaseInv
  <2>4. u # Unknown
    BY <2>1, <2>3 DEF IInv, TablesInv
  <2>5. ifLookup[e.dev] = u
    BY <2>4 DEF ItemOf
  <2>6. cf[<<Ethernet, u>>] # Nil /\ DeviceOf(cf[<<Ethernet, u>>]) = e.dev
    BY <1>3, <1>4, <2>5 DEF SectionInv, MirrorAgrees
  <2> QED
    BY <2>2, <2>3, <2>6
<1> QED
  BY <1>2, <1>3, <1>4, <1>5

\* What an event does: nothing, or the address of one item and a command for
\* its device.
LEMMA EventEffect ==
    ASSUME IInv, SectionInv, DhcpInv, EventRecv, NEW e, e = Head(queue), NEW u, u = ItemOf(e.dev)
    PROVE  \/ /\ e.event = "renew-lease" \/ lease[u] = Nil
              /\ lease' = lease /\ UNCHANGED kernel
           \/ /\ lease[u] # Nil
              /\ \E ls \in Lease : lease' = [lease EXCEPT ![u] = ls] /\ ls.pid = lease[u].pid
                    /\ \/ /\ e.event = "add-lease" /\ ls.address = e.address
                          /\ AddrAdd(e.address, {e.dev})
                       \/ /\ e.event = "del-lease" /\ ls.address = Nil
                          /\ IF lease[u].address # Nil THEN AddrDel(lease[u].address, {e.dev})
                                                       ELSE UNCHANGED kernel
<1> USE DEF kernel
<1>1. /\ queue # <<>>
      /\ \/ (e.event = "renew-lease" \/ lease[u] = Nil) /\ lease' = lease /\ UNCHANGED kernel
         \/ /\ lease[u] # Nil /\ e.event # "renew-lease"
            /\ IF e.event = "add-lease" THEN AddLease(u, e) ELSE DelLease(u, e)
  BY DEF EventRecv
<1>2. /\ e \in Event /\ u \in Uniq /\ (e.event = "add-lease" => e.address \in Addr)
      /\ lease[u] # Nil => lease[u] \in Lease
  BY <1>1, EventFacts
<1>3. lease \in [Uniq -> Lease \cup {Nil}]
  BY DEF DhcpInv, DhcpTypeOK
<1>4. CASE lease[u] # Nil /\ e.event = "add-lease" /\ AddLease(u, e)
  <2> DEFINE ls == [lease[u] EXCEPT !.address = e.address, !.status = "bound"]
  <2>1. ls \in Lease /\ ls.pid = lease[u].pid /\ ls.address = e.address
    BY <1>2, <1>4 DEF Lease
  <2>2. lease' = [lease EXCEPT ![u] = ls] /\ AddrAdd(e.address, {e.dev})
    BY <1>2, <1>3, <1>4 DEF AddLease
  <2> QED
    BY <1>4, <2>1, <2>2
<1>5. CASE lease[u] # Nil /\ e.event # "add-lease" /\ e.event # "renew-lease" /\ DelLease(u, e)
  <2> DEFINE ls == [lease[u] EXCEPT !.address = Nil,
                       !.status = IF lease[u].pid # Nil THEN "requesting" ELSE @]
  <2>1. ls \in Lease /\ ls.pid = lease[u].pid /\ ls.address = Nil
    BY <1>2, <1>5 DEF Lease
  <2>2. /\ lease' = [lease EXCEPT ![u] = ls]
        /\ IF lease[u].address # Nil THEN AddrDel(lease[u].address, {e.dev}) ELSE UNCHANGED kernel
    BY <1>2, <1>3, <1>5 DEF DelLease
  <2>3. e.event = "del-lease"
    BY <1>2, <1>5 DEF Event
  <2> QED
    BY <1>5, <2>1, <2>2, <2>3
<1> QED
  BY <1>1, <1>4, <1>5

LEMMA EventSections ==
    ASSUME IInv, SectionInv, DhcpInv, EventRecv
    PROVE  SectionInv'
<1> DEFINE e == Head(queue)
           u == ItemOf(e.dev)
<1>1. KernelType
  BY DEF SectionInv, RouterTypeOK, KernelType
<1>2. queue # <<>> /\ UNCHANGED <<vars, mirror>>
  BY DEF EventRecv
<1>3. /\ e.dev \in Dev /\ (e.event = "add-lease" => e.address \in Addr)
      /\ lease[u] # Nil => lease[u] \in Lease
  BY <1>2, EventFacts
<1>4. KernelType'
  <2>1. CASE UNCHANGED kernel
    BY <1>1, <2>1 DEF kernel, KernelType
  <2>2. CASE e.event = "add-lease" /\ AddrAdd(e.address, {e.dev})
    <3>1. TRUE \in BOOLEAN /\ IF TRUE THEN AddrAdd(e.address, {e.dev}) ELSE AddrDel(e.address, {e.dev})
      BY <2>2
    <3> QED
      BY <1>1, <1>3, <2>2, <3>1, AddrCommand
  <2>3. CASE lease[u] # Nil /\ lease[u].address # Nil /\ AddrDel(lease[u].address, {e.dev})
    <3>1. PICK a \in Addr : a = lease[u].address
      BY <1>3, <2>3 DEF Lease
    <3>2. FALSE \in BOOLEAN /\ IF FALSE THEN AddrAdd(a, {e.dev}) ELSE AddrDel(a, {e.dev})
      BY <2>3, <3>1
    <3> QED
      BY <1>1, <1>3, <3>2, AddrCommand
  <2> QED
    BY <2>1, <2>2, <2>3, EventEffect
<1>5. cf' = cf /\ edit' = edit /\ backend' = backend
  BY <1>2 DEF vars
<1>6. mirrorCf' = mirrorCf /\ mirrorLive' = mirrorLive /\ ifLookup' = ifLookup
  BY <1>2 DEF mirror
<1>7. CallInv' /\ ParentInv'
  BY <1>5, <1>6, CallStays DEF SectionInv, ParentInv, InterfaceOf
<1> QED
  BY <1>4, <1>5, <1>6, <1>7, ItemsStay

\* The sections keep their invariant, whoever else gives commands.
LEMMA DhcpSections ==
    ASSUME IInv, IInv', SectionInv, DhcpInv, [DhcpNext]_dhcpVars
    PROVE  SectionInv'
BY DhcpNextIsRouter, RouterNextInv, EventSections

-----------------------------------------------------------------------------
(* DhcpInv is inductive.                                                   *)

\* A step that keeps the items, and with them the lease entries.
LEMMA LeasesStay ==
    ASSUME DhcpInv, DhcpTypeOK', cf' = cf, moved' = moved,
           \A u \in Uniq : lease'[u] = Nil <=> lease[u] = Nil,
           NewKeyInv', SenderInv'
    PROVE  DhcpInv'
<1>1. LeaseInv'
  BY DEF DhcpInv, LeaseInv
<1>2. KeyInv'
  BY DEF DhcpInv, KeyInv, DhcpItems
<1> QED
  BY <1>1, <1>2 DEF DhcpInv

\* Processes neither end nor change their device.
LEMMA SenderStays ==
    ASSUME SenderInv, queue' = queue,
           \A p \in Proc \ Free : p \in Proc \ Free' /\ client'[p].dev = client[p].dev
    PROVE  SenderInv'
BY DEF SenderInv

LEMMA NewKeyStays ==
    ASSUME NewKeyInv, edit' = edit \/ edit'.phase # "down"
    PROVE  NewKeyInv'
BY DEF NewKeyInv

\* The entry of one item is changed.
LEMMA LeaseOf ==
    ASSUME DhcpTypeOK, NEW u \in Uniq, lease[u] # Nil, NEW ls \in Lease, lease' = [lease EXCEPT ![u] = ls]
    PROVE  /\ lease' \in [Uniq -> Lease \cup {Nil}]
           /\ \A w \in Uniq : lease'[w] = Nil <=> lease[w] = Nil
           /\ lease'[u] = ls /\ \A w \in Uniq : w # u => lease'[w] = lease[w]
BY DhcpAssumption DEF DhcpTypeOK

LEMMA EventDhcp ==
    ASSUME IInv, SectionInv, DhcpInv, EventRecv
    PROVE  DhcpInv'
<1>0. PICK e, u : e = Head(queue) /\ u = ItemOf(e.dev)
  OBVIOUS
<1>1. /\ queue # <<>> /\ cf' = cf /\ edit' = edit /\ moved' = moved /\ lost' = lost
      /\ client' = client /\ queue' = Tail(queue) /\ daemon' \in {daemon, "crashed"} /\ static' = static
  BY DEF EventRecv, vars
<1>2. u \in Uniq /\ Tail(queue) \in Seq(Event) /\ Len(Tail(queue)) <= MaxQueue
  BY <1>0, <1>1, EventFacts
<1>3. DhcpTypeOK
  BY DEF DhcpInv
<1>4. /\ lease' \in [Uniq -> Lease \cup {Nil}]
      /\ \A w \in Uniq : lease'[w] = Nil <=> lease[w] = Nil
  <2>1. CASE lease' = lease
    BY <1>3, <2>1 DEF DhcpTypeOK
  <2>2. ASSUME lease[u] # Nil, NEW ls \in Lease, lease' = [lease EXCEPT ![u] = ls]
        PROVE  /\ lease' \in [Uniq -> Lease \cup {Nil}]
               /\ \A w \in Uniq : lease'[w] = Nil <=> lease[w] = Nil
    BY <1>2, <1>3, <2>2, LeaseOf
  <2>3. /\ lease \in [Uniq -> Lease \cup {Nil}] /\ (lease[u] # Nil => lease[u] \in Lease)
        /\ e.event = "add-lease" => e.address \in Addr
    BY <1>0, <1>1, <1>3, EventFacts DEF DhcpTypeOK
  <2>4. CASE lease[u] # Nil /\ e.event = "add-lease" /\ AddLease(u, e)
    <3> DEFINE ls == [lease[u] EXCEPT !.address = e.address, !.status = "bound"]
    <3>1. ls \in Lease /\ lease' = [lease EXCEPT ![u] = ls]
      BY <1>2, <2>3, <2>4 DEF AddLease, Lease
    <3> HIDE DEF ls
    <3> QED
      BY <2>2, <2>4, <3>1
  <2>5. CASE lease[u] # Nil /\ DelLease(u, e)
    <3> DEFINE ls == [lease[u] EXCEPT !.address = Nil,
                         !.status = IF lease[u].pid # Nil THEN "requesting" ELSE @]
    <3>1. ls \in Lease /\ lease' = [lease EXCEPT ![u] = ls]
      BY <1>2, <2>3, <2>5 DEF DelLease, Lease
    <3> HIDE DEF ls
    <3> QED
      BY <2>2, <2>5, <3>1
  <2> QED
    BY <1>0, <2>1, <2>4, <2>5 DEF EventRecv
<1>5. DhcpTypeOK'
  BY <1>1, <1>2, <1>3, <1>4 DEF DhcpTypeOK
<1>6. NewKeyInv'
  BY <1>1, NewKeyStays DEF DhcpInv
<1>7. SenderInv'
  <2>1. queue \in Seq(Event)
    BY <1>3 DEF DhcpTypeOK
  <2>2. \A i \in 1 .. Len(Tail(queue)) : i + 1 \in 1 .. Len(queue) /\ Tail(queue)[i] = queue[i + 1]
    BY <1>1, <2>1
  <2>3. Free' = Free
    BY <1>1 DEF Free
  <2> QED
    BY <1>1, <2>2, <2>3 DEF DhcpInv, SenderInv
<1> QED
  BY <1>1, <1>4, <1>5, <1>6, <1>7, LeasesStay

LEMMA ClientRecord ==
    ASSUME NEW c \in Client
    PROVE  /\ c.state \in {"none", "started", "searching", "bound"}
           /\ c.state # "none" => c.dev \in Dev
           /\ c.state = "bound" => c.address \in Addr
           /\ c.state # "bound" => c.address = Nil
<1>1. CASE c = NoClient
  BY <1>1 DEF NoClient
<1>2. CASE c \in [dev : Dev, state : {"started", "searching"}, address : {Nil}]
  BY <1>2
<1>3. CASE c \in [dev : Dev, state : {"bound"}, address : Addr]
  BY <1>3
<1> QED
  BY <1>1, <1>2, <1>3 DEF Client

\* What a process does and sends.
LEMMA ClientSends ==
    ASSUME DhcpInv, NEW p \in Proc,
           ClientDeconfig(p) \/ (\E a \in Addr : ClientBound(p, a)) \/ ClientRenew(p)
    PROVE  \E ev \in {"del-lease", "add-lease", "renew-lease"} :
              /\ Send(ev, p) /\ client[p].state # "none" /\ client[p].dev \in Dev
              /\ client' \in [Proc -> Client] /\ client'[p].state # "none"
              /\ client'[p].dev = client[p].dev /\ \A q \in Proc : q # p => client'[q] = client[q]
              /\ client'[p].address \in (IF ev = "del-lease" THEN {Nil} ELSE Addr)
              /\ ev = "add-lease" => client[p].address = Nil
              /\ ev = "renew-lease" => client' = client
<1>1. client[p] \in Client /\ client \in [Proc -> Client]
  BY DEF DhcpInv, DhcpTypeOK
<1>2. ASSUME NEW st \in {"searching", "bound"}, NEW a, NEW c,
             c = [dev |-> client[p].dev, state |-> st, address |-> a], c \in Client,
             client' = [client EXCEPT ![p] = c]
      PROVE  /\ client' \in [Proc -> Client] /\ client'[p].state # "none" /\ client'[p].dev = client[p].dev
             /\ client'[p].address = a /\ \A q \in Proc : q # p => client'[q] = client[q]
  BY <1>1, <1>2
<1>3. CASE ClientDeconfig(p)
  <2>1. Send("del-lease", p) /\ client[p].state \in {"started", "bound"} /\ client[p].dev \in Dev
    BY <1>1, <1>3, ClientRecord DEF ClientDeconfig
  <2>2. PICK c : c = [dev |-> client[p].dev, state |-> "searching", address |-> Nil]
    OBVIOUS
  <2>3. c \in Client /\ client' = [client EXCEPT ![p] = c]
    BY <1>1, <1>3, <2>1, <2>2 DEF ClientDeconfig, Client
  <2> QED
    BY <1>2, <2>1, <2>2, <2>3
<1>4. ASSUME NEW a \in Addr, ClientBound(p, a)
      PROVE  /\ Send("add-lease", p) /\ client[p].state # "none" /\ client[p].dev \in Dev
             /\ client' \in [Proc -> Client] /\ client'[p].state # "none"
             /\ client'[p].dev = client[p].dev /\ \A q \in Proc : q # p => client'[q] = client[q]
             /\ client'[p].address \in Addr /\ client[p].address = Nil
  <2>1. Send("add-lease", p) /\ client[p].state = "searching"
    BY <1>4 DEF ClientBound
  <2>2. client[p].dev \in Dev /\ client[p].address = Nil
    BY <1>1, <2>1, ClientRecord
  <2>3. PICK c : c = [dev |-> client[p].dev, state |-> "bound", address |-> a]
    OBVIOUS
  <2>4. c \in Client /\ client' = [client EXCEPT ![p] = c]
    BY <1>1, <1>4, <2>2, <2>3 DEF ClientBound, Client
  <2> QED
    BY <1>2, <2>1, <2>2, <2>3, <2>4
<1>5. CASE ClientRenew(p)
  <2>1. client[p].state = "bound" /\ client' = client /\ Send("renew-lease", p)
    BY <1>5 DEF ClientRenew
  <2>2. client[p].dev \in Dev /\ client[p].address \in Addr
    BY <1>1, <2>1, ClientRecord
  <2> QED
    BY <1>1, <2>1, <2>2
<1> QED
  BY <1>3, <1>4, <1>5

\* The messages of the processes.
LEMMA ClientDhcp ==
    ASSUME DhcpInv, NEW p \in Proc,
           ClientDeconfig(p) \/ (\E a \in Addr : ClientBound(p, a)) \/ ClientRenew(p)
    PROVE  DhcpInv'
<1>1. DhcpTypeOK
  BY DEF DhcpInv
<1>2. PICK ev \in {"del-lease", "add-lease", "renew-lease"} :
        /\ Send(ev, p) /\ client[p].dev \in Dev /\ client' \in [Proc -> Client]
        /\ client[p].state # "none" /\ client'[p].state # "none"
        /\ client'[p].dev = client[p].dev /\ \A q \in Proc : q # p => client'[q] = client[q]
        /\ client'[p].address \in (IF ev = "del-lease" THEN {Nil} ELSE Addr)
  BY ClientSends
<1> DEFINE e == [event |-> ev, dev |-> client[p].dev, address |-> client'[p].address]
<1>3. e \in Event
  BY <1>2 DEF Event
<1>4. queue' \in Seq(Event) /\ Len(queue') <= MaxQueue /\ lost' \in BOOLEAN
  <2>1. CASE daemon = "running"
    <3>1. queue' = Append(queue, e) /\ Len(queue) < MaxQueue /\ lost' = lost
      BY <1>2, <2>1 DEF Send
    <3> HIDE DEF e
    <3> QED
      BY <1>1, <1>3, <3>1, DhcpAssumption DEF DhcpTypeOK
  <2>2. CASE daemon # "running"
    BY <1>1, <1>2, <2>2 DEF Send, DhcpTypeOK
  <2> QED
    BY <2>1, <2>2
<1>5. cf' = cf /\ edit' = edit /\ moved' = moved /\ lease' = lease /\ daemon' = daemon /\ static' = static
  BY <1>2 DEF Send, routerVars, vars
<1>6. DhcpTypeOK'
  BY <1>1, <1>2, <1>4, <1>5 DEF DhcpTypeOK
<1>7. NewKeyInv'
  BY <1>5, NewKeyStays DEF DhcpInv
<1>8. SenderInv'
  <2>1. Free' = Free /\ p \in Proc \ Free /\ \A q \in Proc : client'[q].dev = client[q].dev
    BY <1>2 DEF Free
  <2>2. CASE queue' = queue
    BY <2>1, <2>2, SenderStays DEF DhcpInv
  <2>3. CASE queue' = Append(queue, e)
    <3>1. e.dev = client[p].dev
      OBVIOUS
    <3> HIDE DEF e
    <3>2. queue \in Seq(Event)
      BY <1>1 DEF DhcpTypeOK
    <3>3. \A i \in 1 .. Len(queue') : queue'[i] = e \/ (i \in 1 .. Len(queue) /\ queue'[i] = queue[i])
      BY <1>3, <2>3, <3>2
    <3> QED
      BY <2>1, <3>1, <3>3 DEF DhcpInv, SenderInv
  <2> QED
    BY <1>2, <2>2, <2>3 DEF Send
<1> QED
  BY <1>5, <1>6, <1>7, <1>8, LeasesStay

\* A client is started or told to stop.
LEMMA StartStopDhcp ==
    ASSUME IInv, SectionInv, DhcpInv, NEW k \in Key, k[1] = Dhcp, cf[k] # Nil,
           StartDhcp(k[2]) \/ StopDhcp(k[2])
    PROVE  /\ lease' \in [Uniq -> Lease \cup {Nil}] /\ client' \in [Proc -> Client]
           /\ \A w \in Uniq : lease'[w] = Nil <=> lease[w] = Nil
           /\ \A w \in Uniq : lease[w] # Nil => lease'[w].address = lease[w].address
           /\ \A p \in Proc \ Free : p \in Proc \ Free' /\ client'[p].dev = client[p].dev
<1> DEFINE u == k[2]
<1>1. u \in Uniq /\ k = <<Dhcp, u>> /\ LookupByName(cf[k].dep["interface"]) = {Target(k)} /\ Target(k) \in Dev
  BY ItemFacts, SectionNames
<1>2. lease[u] # Nil /\ lease[u] \in Lease /\ lease \in [Uniq -> Lease \cup {Nil}] /\ client \in [Proc -> Client]
  BY <1>1 DEF DhcpInv, DhcpTypeOK, LeaseInv
<1>3. CASE StartDhcp(u)
  <2>1. PICK p \in Free : /\ client' = [client EXCEPT ![p] =
                                [dev |-> Target(k), state |-> "started", address |-> Nil]]
                          /\ lease' = [lease EXCEPT ![u].pid = p]
    BY <1>1, <1>3 DEF StartDhcp
  <2>2. p \in Proc
    BY DEF Free
  <2>3. client' \in [Proc -> Client] /\ \A q \in Proc \ Free : q \in Proc \ Free' /\ client'[q].dev = client[q].dev
    BY <1>1, <1>2, <2>1, <2>2 DEF Client, Free
  <2> DEFINE ls == [lease[u] EXCEPT !.pid = p]
  <2>4. ls \in Lease /\ ls.address = lease[u].address
    BY <1>2, <2>2 DEF Lease
  <2>5. lease' = [lease EXCEPT ![u] = ls]
    BY <1>1, <1>2, <2>1
  <2> HIDE DEF ls
  <2> QED
    BY <1>1, <1>2, <2>3, <2>4, <2>5, LeaseOf DEF DhcpInv
<1>4. CASE StopDhcp(u)
  <2> DEFINE ls == [lease[u] EXCEPT !.pid = Nil, !.status = "stopped"]
  <2>1. ls \in Lease /\ ls.address = lease[u].address
    BY <1>2 DEF Lease
  <2>2. lease' = [lease EXCEPT ![u] = ls] /\ client' = client /\ Free' = Free
    BY <1>1, <1>2, <1>4 DEF StopDhcp, Free
  <2> HIDE DEF ls
  <2> QED
    BY <1>1, <1>2, <2>1, <2>2, LeaseOf DEF DhcpInv
<1> QED
  BY <1>3, <1>4

\* An address item names an address and a device.
LEMMA NamedType ==
    ASSUME IInv, SectionInv, NEW t \in Key, cf[t] # Nil
    PROVE  Named(t) \subseteq Addr \X Dev
<1>1. CASE t[1] = Address
  <2>1. PICK d \in Dev, a \in Addr : LookupByName(cf[t].dep["interface"]) = {d} /\ a = cf[t].data[1]
    BY <1>1, ItemFacts, SectionNames
  <2> QED
    BY <1>1, <2>1 DEF Named
<1> QED
  BY <1>1 DEF Named

LEMMA HooksDhcp ==
    ASSUME IInv, SectionInv, DhcpInv, DhcpStateChange \/ DhcpReturn
    PROVE  /\ DhcpInv' /\ cf' = cf /\ moved' = moved
           /\ \A w \in Uniq : lease'[w] = Nil <=> lease[w] = Nil
           /\ \A w \in Uniq : lease[w] # Nil => lease'[w].address = lease[w].address
<1> DEFINE t == Top.key
<1>1. /\ stack # <<>> /\ cf' = cf /\ edit' = edit /\ moved' = moved /\ lost' = lost
      /\ queue' = queue /\ daemon' = daemon /\ static' \in {static, static \cup Named(t)}
      /\ \/ lease' = lease /\ client' = client
         \/ t[1] = Dhcp /\ (StartDhcp(t[2]) \/ StopDhcp(t[2]))
  BY DEF DhcpStateChange, DhcpReturn, RouterStateChange, RouterReturn, StateChange, Return
<1>2. t \in Key /\ cf[t] # Nil
  BY <1>1, TopFrame DEF Top, IInv, StackInv
<1>3. DhcpTypeOK
  BY DEF DhcpInv
<1>4. /\ lease' \in [Uniq -> Lease \cup {Nil}] /\ client' \in [Proc -> Client]
      /\ \A w \in Uniq : lease'[w] = Nil <=> lease[w] = Nil
      /\ \A w \in Uniq : lease[w] # Nil => lease'[w].address = lease[w].address
      /\ \A p \in Proc \ Free : p \in Proc \ Free' /\ client'[p].dev = client[p].dev
  <2>1. CASE lease' = lease /\ client' = client
    BY <1>3, <2>1 DEF DhcpTypeOK, Free
  <2>2. CASE t[1] = Dhcp /\ (StartDhcp(t[2]) \/ StopDhcp(t[2]))
    <3> HIDE DEF t
    <3> QED
      BY <1>2, <2>2, StartStopDhcp
  <2> QED
    BY <1>1, <2>1, <2>2
<1>5. DhcpTypeOK'
  <2>1. Named(t) \subseteq Addr \X Dev
    <3> HIDE DEF t
    <3> QED
      BY <1>2, NamedType
  <2> QED
    BY <1>1, <1>3, <1>4, <2>1 DEF DhcpTypeOK
<1>6. NewKeyInv'
  BY <1>1, NewKeyStays DEF DhcpInv
<1>7. SenderInv'
  BY <1>1, <1>4, SenderStays DEF DhcpInv
<1> QED
  BY <1>1, <1>4, <1>5, <1>6, <1>7, LeasesStay

\* The key of a client that is asked for is its interface.
LEMMA DhcpUniq ==
    ASSUME NEW p \in Path, NEW ci \in Items(p), NEW u \in NewUniq(p, ci), p = Dhcp
    PROVE  u = ci.dep["interface"]
<1>1. BuildUniq(p, ci) = {ci.dep["interface"]}
  BY RouterAssumption, SectionNames DEF RouterBuildUniq
<1> QED
  BY <1>1 DEF NewUniq

LEMMA BeginDhcp ==
    ASSUME IInv, SectionInv, DhcpInv,
           \/ \E p \in Path : \E ci \in Items(p) : DhcpCfAdd(p, ci)
           \/ \E k \in Key : \E ci \in Items(k[1]) : DhcpCfChange(k, ci)
           \/ \E k \in Key : DhcpCfRemove(k)
    PROVE  DhcpInv' /\ cf' = cf /\ UNCHANGED dhcp
<1>1. ASSUME NEW p \in Path, NEW ci \in Items(p), DhcpCfAdd(p, ci)
      PROVE  NewKeyInv' /\ cf' = cf /\ UNCHANGED dhcp
  <2>1. PICK u \in NewUniq(p, ci) :
            edit' = [phase |-> "down", old |-> Nil, new |-> <<p, u>>, ci |-> ci]
    BY <1>1 DEF DhcpCfAdd, RouterCfAdd, CfAdd
  <2>2. cf' = cf /\ UNCHANGED dhcp
    BY <1>1 DEF DhcpCfAdd, RouterCfAdd, CfAdd
  <2>3. edit'.ci = ci /\ edit'.new[1] = p /\ edit'.new[2] = u
    BY <2>1
  <2> QED
    BY <2>2, <2>3, DhcpUniq DEF NewKeyInv
<1>2. ASSUME NEW k \in Key, NEW ci \in Items(k[1]), DhcpCfChange(k, ci)
      PROVE  NewKeyInv' /\ cf' = cf /\ UNCHANGED dhcp
  <2>0. PICK p \in Path : p = k[1]
    BY DEF Key
  <2>1. PICK u \in NewUniq(p, ci) :
            edit' = [phase |-> "down", old |-> k, new |-> <<p, u>>, ci |-> ci]
    BY <1>2, <2>0 DEF DhcpCfChange, RouterCfChange, CfChange
  <2>2. cf' = cf /\ UNCHANGED dhcp
    BY <1>2 DEF DhcpCfChange, RouterCfChange, CfChange
  <2>3. edit'.ci = ci /\ edit'.new[1] = p /\ edit'.new[2] = u
    BY <2>1
  <2> QED
    BY <2>0, <2>2, <2>3, DhcpUniq DEF NewKeyInv
<1>3. ASSUME NEW k \in Key, DhcpCfRemove(k)
      PROVE  NewKeyInv' /\ cf' = cf /\ UNCHANGED dhcp
  BY <1>3 DEF DhcpCfRemove, RouterCfRemove, CfRemove, NewKeyInv
<1>4. NewKeyInv' /\ cf' = cf /\ UNCHANGED dhcp
  BY <1>1, <1>2, <1>3
<1>5. DhcpTypeOK' /\ SenderInv'
  BY <1>4, SenderStays DEF DhcpInv, DhcpTypeOK, dhcp, Free
<1> QED
  BY <1>4, <1>5, LeasesStay DEF dhcp

\* The other steps that leave the items and this section's tables alone.
LEMMA QuietDhcp ==
    ASSUME IInv, SectionInv, DhcpInv,
           \/ \E c \in Key, f \in Field : DhcpNotify(c, f)
           \/ DhcpFinish
           \/ EventInit
           \/ UNCHANGED dhcpVars
    PROVE  DhcpInv' /\ cf' = cf /\ lease' = lease /\ moved' = moved /\ static' = static /\ UNCHANGED kernel
<1>1. ASSUME NEW c \in Key, NEW f \in Field, DhcpNotify(c, f)
      PROVE  cf' = cf /\ edit' = edit /\ UNCHANGED dhcp /\ UNCHANGED kernel
  BY <1>1, NotifyKeepsItems DEF DhcpNotify, RouterNotify, Notify
<1>4. /\ cf' = cf /\ (edit' = edit \/ edit'.phase # "down") /\ UNCHANGED kernel
      /\ lease' = lease /\ client' = client /\ queue' = queue /\ lost' = lost /\ moved' = moved
      /\ daemon' \in {daemon, "running"} /\ static' = static
  <2>1. CASE DhcpFinish
    BY <2>1 DEF DhcpFinish, RouterFinish, Finish, NoEdit, dhcp
  <2>2. CASE EventInit \/ UNCHANGED dhcpVars
    BY <2>2 DEF EventInit, dhcpVars, routerVars, vars, dhcp
  <2> QED
    BY <1>1, <2>1, <2>2 DEF dhcp
<1>5. DhcpTypeOK' /\ SenderInv'
  BY <1>4, SenderStays DEF DhcpInv, DhcpTypeOK, Free
<1>6. NewKeyInv'
  BY <1>4, NewKeyStays DEF DhcpInv
<1> QED
  BY <1>4, <1>5, <1>6, LeasesStay

\* The key of a client.
LEMMA DhcpKey ==
    ASSUME NEW u \in Uniq
    PROVE  <<Dhcp, u>> \in Key /\ <<Dhcp, u>>[1] = Dhcp /\ <<Dhcp, u>>[2] = u /\ Dhcp \in Path
BY DhcpAssumption, RouterAssumption DEF RouterPath, Key

\* A step leaves what item w shows, or adds it, with no client yet.
Kept(w) ==
    /\ lease[w] # Nil /\ lease'[w] # Nil =>
          /\ lease'[w].address = lease[w].address /\ lease'[w].pid = lease[w].pid
          /\ ClientDevice(w)' = ClientDevice(w)
    /\ lease[w] = Nil /\ lease'[w] # Nil => lease'[w].address = Nil /\ lease'[w].pid = Nil

\* An item is put in its place: a client keeps its lease fields.
LEMMA InstallDhcp ==
    ASSUME IInv, SectionInv, DhcpInv, DhcpInstall
    PROVE  /\ DhcpInv' /\ (moved => moved') /\ (~moved' => \A w \in Uniq : Kept(w))
           /\ UNCHANGED <<addrs, failed, client, queue, daemon, lost, static>>
<1> USE SectionNames
<1> DEFINE D(u) == <<Dhcp, u>>
<1>0. PICK o, m, ci : o = edit.old /\ m = edit.new /\ ci = edit.ci
  OBVIOUS
<1>1. /\ Install /\ edit.phase = "down" /\ m # Nil /\ edit'.phase = "up"
      /\ addrs' = addrs /\ failed' = failed
      /\ client' = client /\ queue' = queue /\ daemon' = daemon /\ lost' = lost /\ static' = static
      /\ moved' = (moved \/ (m[1] # Address /\ o \notin {Nil, m}))
  BY <1>0 DEF DhcpInstall, RouterInstall, Install, IInv, TypeOK, Edit, kernel
<1>2. lease' = IF m[1] # Dhcp THEN lease
               ELSE [u \in Uniq |-> IF u = m[2] THEN IF o # Nil THEN lease[o[2]] ELSE NoLease
                                    ELSE IF o = D(u) THEN Nil ELSE lease[u]]
  BY <1>0 DEF DhcpInstall
<1>3. /\ m \in Key /\ o \in Key \cup {Nil} /\ cf'[m] # Nil /\ (o # Nil => cf[o] # Nil)
      /\ m = o \/ cf[m] = Nil
      /\ o # m => o = Nil \/ cf'[o] = Nil
      /\ \A c \in Key : c # m /\ c # o => (cf'[c] = Nil <=> cf[c] = Nil)
      /\ \A c \in Key : c # m /\ c # o /\ cf[c] # Nil =>
             \A f \in DepFields(c[1]) : DependsOn(c, f) = m => m = o
  BY <1>0, <1>1, InstallFacts
<1>4. /\ cf'[m] = ci /\ m[1] \in Path /\ m[2] \in Uniq /\ m = <<m[1], m[2]>>
      /\ ci \in Items(m[1])
      /\ o # Nil => o[1] = m[1] /\ o \in Key
      /\ \A k \in Key : k # m /\ k # o /\ cf[k] # Nil =>
             /\ k[1] = Ethernet \/ m[1] # Ethernet => cf'[k] = cf[k]
             /\ k[1] # Ethernet => InterfaceOf(k)' = IF InterfaceOf(k) = o THEN m ELSE InterfaceOf(k)
  BY <1>0, <1>1, InstallItems
<1>5. o # Nil => o = <<o[1], o[2]>> /\ o[2] \in Uniq
  BY <1>4 DEF Key
<1>6. ASSUME NEW u \in Uniq
      PROVE  /\ D(u) \in Key /\ D(u)[1] = Dhcp /\ D(u)[2] = u /\ D(u) # Nil
             /\ D(u) = m <=> m[1] = Dhcp /\ u = m[2]
             /\ D(u) = o => m[1] = Dhcp
             /\ lease[u] # Nil <=> cf[D(u)] # Nil
             /\ lease[u] \in Lease \cup {Nil}
  <2>1. D(u) \in Key /\ D(u)[1] = Dhcp /\ D(u)[2] = u /\ D(u) # Nil
    BY DhcpKey, ConstantsAssumption
  <2>2. D(u) = m <=> m[1] = Dhcp /\ u = m[2]
    BY <1>4, <2>1
  <2>3. D(u) = o => m[1] = Dhcp
    BY <1>4, <2>1
  <2> QED
    BY <2>1, <2>2, <2>3 DEF DhcpInv, LeaseInv, DhcpTypeOK
<1>7. NoLease \in Lease /\ Nil \notin Lease
  BY DhcpAssumption DEF NoLease, Lease
<1>8. o # Nil /\ m[1] = Dhcp => lease[o[2]] \in Lease /\ D(o[2]) = o
  <2> SUFFICES ASSUME o # Nil, m[1] = Dhcp PROVE lease[o[2]] \in Lease /\ D(o[2]) = o
    OBVIOUS
  <2>1. D(o[2]) = o /\ o[2] \in Uniq
    BY <1>4, <1>5
  <2> QED
    BY <1>3, <1>6, <2>1
<1> HIDE DEF D
<1>9. lease' \in [Uniq -> Lease \cup {Nil}]
  <2>1. lease \in [Uniq -> Lease \cup {Nil}]
    BY DEF DhcpInv, DhcpTypeOK
  <2> QED
    BY <1>2, <1>6, <1>7, <1>8, <2>1
<1>10. DhcpTypeOK' /\ SenderInv'
  BY <1>1, <1>9, SenderStays DEF DhcpInv, DhcpTypeOK, Free
<1>11. ASSUME NEW u \in Uniq
       PROVE  /\ lease'[u] # Nil <=> cf'[D(u)] # Nil
              /\ D(u) # m => lease'[u] \in {lease[u], Nil}
              /\ D(u) = m => lease'[u] = IF o # Nil THEN lease[o[2]] ELSE NoLease
  <2>1. CASE D(u) = m
    BY <1>2, <1>3, <1>6, <1>7, <1>8, <2>1
  <2>2. CASE D(u) # m /\ D(u) = o
    <3>1. cf'[D(u)] = Nil
      BY <1>3, <1>6, <2>2
    <3>2. lease'[u] = Nil
      BY <1>2, <1>6, <2>2
    <3> QED
      BY <2>2, <3>1, <3>2
  <2>3. CASE D(u) # m /\ D(u) # o
    <3>1. lease'[u] = lease[u]
      BY <1>2, <1>6, <2>3
    <3> QED
      BY <1>3, <1>6, <2>3, <3>1
  <2> QED
    BY <2>1, <2>2, <2>3
<1>12. LeaseInv' /\ NewKeyInv'
  BY <1>1, <1>11 DEF LeaseInv, NewKeyInv, D
<1>13. ASSUME NEW u \in Uniq, lease'[u] # Nil, ~moved'
       PROVE  /\ cf'[D(u)].dep["interface"] = u
              /\ Kept(u)
  <2>1. ~moved /\ (o \in {Nil, m} \/ m[1] = Address)
    BY <1>1, <1>13
  <2>2. CASE D(u) = m
    <3>1. m[1] = Dhcp /\ u = m[2] /\ cf'[D(u)] = ci
      BY <1>4, <1>6, <2>2
    <3>2. ci.dep["interface"] = u
      BY <1>0, <1>1, <3>1 DEF DhcpInv, NewKeyInv
    <3>3. ASSUME o = Nil PROVE Kept(u)
      <4>1. lease[u] = Nil
        BY <1>3, <1>6, <2>2, <3>3
      <4>2. lease'[u] = NoLease
        BY <1>11, <2>2, <3>3
      <4> QED
        BY <4>1, <4>2 DEF Kept, NoLease
    <3>4. ASSUME o # Nil PROVE Kept(u)
      <4>1. o # Nil /\ o = m
        BY <2>1, <3>1, <3>4
      <4>2. lease'[u] = lease[u] /\ lease[u] # Nil
        BY <1>11, <1>13, <2>2, <3>1, <4>1
      <4>3. cf[D(u)].dep["interface"] = u
        BY <2>1, <4>2 DEF DhcpInv, KeyInv, DhcpItems, D
      <4>4. PICK d : d = <<Ethernet, u>>
        OBVIOUS
      <4>5. d \in Key /\ cf[d] # Nil /\ d[1] = Ethernet
        <5>1. InterfaceOf(D(u)) = d
          BY <4>3, <4>4 DEF InterfaceOf
        <5> QED
          BY <1>6, <4>2, <4>4, <5>1, ItemFacts
      <4>6. cf'[d] = cf[d]
        BY <1>4, <3>1, <4>1, <4>5
      <4>7. ClientDevice(u) = DeviceOf(cf[d]) /\ ClientDevice(u)' = DeviceOf(cf'[d])
        BY <3>1, <3>2, <4>3, <4>4 DEF ClientDevice, DeviceOf, D
      <4> QED
        BY <4>2, <4>6, <4>7 DEF Kept
    <3> QED
      BY <3>1, <3>2, <3>3, <3>4
  <2>3. CASE D(u) # m
    <3>1. lease'[u] = lease[u] /\ D(u) # o /\ cf[D(u)] # Nil /\ D(u) \in Key /\ D(u)[1] = Dhcp
      BY <1>6, <1>11, <1>13, <2>1, <2>3
    <3>2. cf[D(u)].dep["interface"] = u
      BY <2>1, <3>1, <1>13 DEF DhcpInv, KeyInv, DhcpItems, D
    <3>3. PICK d : d = InterfaceOf(D(u))
      OBVIOUS
    <3>4. d \in Key /\ cf[d] # Nil /\ d = <<Ethernet, u>> /\ d[1] = Ethernet
      BY <3>1, <3>2, <3>3, ItemFacts DEF InterfaceOf
    <3>5. PICK k \in Key : k = D(u)
      BY <3>1
    <3>6. cf'[D(u)].dep["interface"] = u
      <4>1. InterfaceOf(k)' = IF d = o THEN m ELSE d
        BY <1>4, <2>3, <3>1, <3>3, <3>5
      <4>2. InterfaceOf(k)' = d
        BY <1>4, <2>1, <3>4, <4>1, ConstantsAssumption
      <4> QED
        BY <3>4, <3>5, <4>2 DEF InterfaceOf
    <3>7. DeviceOf(cf'[d]) = DeviceOf(cf[d])
      <4>1. CASE d = m
        <5>1. m = o
          BY <1>3, <3>4, <4>1
        <5> QED
          BY <1>0, <1>1, <1>4, <3>4, <4>1, <5>1 DEF SectionInv, CallInv
      <4>2. CASE d # m
        BY <1>4, <2>1, <3>4, <4>2, ConstantsAssumption
      <4> QED
        BY <4>1, <4>2
    <3>8. ClientDevice(u) = DeviceOf(cf[d]) /\ ClientDevice(u)' = DeviceOf(cf'[d])
      BY <3>2, <3>4, <3>6 DEF ClientDevice, DeviceOf, D
    <3> QED
      BY <1>6, <3>1, <3>6, <3>7, <3>8 DEF Kept
  <2> QED
    BY <2>2, <2>3
<1>14. KeyInv'
  BY <1>13 DEF KeyInv, DhcpItems, D
<1>15. ~moved' => \A w \in Uniq : Kept(w)
  BY <1>13 DEF Kept
<1> QED
  BY <1>1, <1>10, <1>12, <1>14, <1>15 DEF DhcpInv

\* An item goes, with its lease fields; no interface does.
LEMMA DeleteDhcp ==
    ASSUME IInv, SectionInv, DhcpInv, DhcpDelete
    PROVE  /\ DhcpInv' /\ moved' = moved /\ (\A w \in Uniq : Kept(w))
           /\ UNCHANGED <<addrs, failed, client, queue, daemon, lost, static>>
<1> DEFINE D(u) == <<Dhcp, u>>
<1>0. PICK o : o = edit.old
  OBVIOUS
<1>1. /\ Delete /\ edit.phase = "down" /\ edit.new = Nil /\ edit'.phase = "idle"
      /\ addrs' = addrs /\ failed' = failed
      /\ client' = client /\ queue' = queue /\ daemon' = daemon /\ lost' = lost /\ moved' = moved
      /\ static' = static
      /\ lease' = IF o[1] = Dhcp THEN [lease EXCEPT ![o[2]] = Nil] ELSE lease
  BY <1>0 DEF DhcpDelete, RouterDelete, Delete, NoEdit, kernel
<1>2. o[1] # Ethernet
  BY <1>0, <1>1 DEF SectionInv, CallInv
<1>3. o \in Key /\ cf'[o] = Nil /\ \A k \in Key : k # o => cf'[k] = cf[k]
  BY <1>0, <1>1, DeleteFacts
<1>4. o = <<o[1], o[2]>> /\ o[2] \in Uniq
  BY <1>3 DEF Key
<1>5. DhcpTypeOK /\ lease \in [Uniq -> Lease \cup {Nil}]
  BY DEF DhcpInv, DhcpTypeOK
<1>6. ASSUME NEW u \in Uniq
      PROVE  /\ D(u) \in Key
             /\ D(u) = o => lease'[u] = Nil /\ cf'[D(u)] = Nil
             /\ D(u) # o => lease'[u] = lease[u] /\ cf'[D(u)] = cf[D(u)]
  <2>1. D(u) \in Key /\ D(u)[1] = Dhcp /\ D(u)[2] = u
    BY DhcpKey
  <2>2. D(u) = o <=> o[1] = Dhcp /\ u = o[2]
    BY <1>4, <2>1
  <2> QED
    BY <1>1, <1>3, <1>4, <1>5, <2>1, <2>2
<1>7. DhcpTypeOK'
  <2>1. lease' \in [Uniq -> Lease \cup {Nil}]
    BY <1>1, <1>4, <1>5
  <2> QED
    BY <1>1, <1>5, <2>1 DEF DhcpTypeOK
<1>8. LeaseInv' /\ KeyInv' /\ NewKeyInv' /\ SenderInv'
  BY <1>1, <1>6, SenderStays DEF DhcpInv, LeaseInv, KeyInv, NewKeyInv, DhcpItems, Free
<1>9. ASSUME NEW u \in Uniq, lease'[u] # Nil
      PROVE  lease[u] = lease'[u] /\ ClientDevice(u)' = ClientDevice(u)
  <2>1. D(u) # o /\ lease[u] = lease'[u] /\ cf'[D(u)] = cf[D(u)] /\ cf[D(u)] # Nil /\ D(u)[1] = Dhcp
    BY <1>6, <1>9, DhcpKey DEF DhcpInv, LeaseInv
  <2>2. PICK d : d = InterfaceOf(D(u))
    OBVIOUS
  <2>3. d \in Key /\ d[1] = Ethernet
    BY <1>6, <2>1, <2>2, ItemFacts, SectionNames DEF InterfaceOf
  <2>4. cf'[d] = cf[d]
    BY <1>2, <1>3, <2>3
  <2>5. ClientDevice(u) = DeviceOf(cf[d]) /\ ClientDevice(u)' = DeviceOf(cf'[d])
    BY <2>1, <2>2 DEF ClientDevice, InterfaceOf, DeviceOf
  <2> QED
    BY <2>1, <2>4, <2>5
<1>10. \A w \in Uniq : Kept(w)
  BY <1>6, <1>9 DEF Kept
<1> QED
  BY <1>1, <1>7, <1>8, <1>10 DEF DhcpInv

LEMMA DhcpInitInv == DhcpInit => SectionInv /\ DhcpInv
<1> SUFFICES ASSUME DhcpInit PROVE SectionInv /\ DhcpInv
  OBVIOUS
<1>1. SectionInv
  BY RouterInitInv DEF DhcpInit, RouterInv
<1>2. \A u \in Uniq : lease[u] = Nil /\ cf[<<Dhcp, u>>] = Nil
  BY DhcpKey DEF DhcpInit, RouterInit, Init
<1>3. DhcpTypeOK
  <2>1. NoClient \in Client
    BY DEF Client
  <2>2. queue \in Seq(Event) /\ Len(queue) <= MaxQueue
    BY DhcpAssumption DEF DhcpInit
  <2> QED
    BY <2>1, <2>2 DEF DhcpInit, DhcpTypeOK
<1>4. LeaseInv /\ KeyInv /\ NewKeyInv /\ SenderInv
  BY <1>2 DEF LeaseInv, KeyInv, NewKeyInv, SenderInv, DhcpItems, DhcpInit, RouterInit, Init, NoEdit
<1> QED
  BY <1>1, <1>3, <1>4 DEF DhcpInv

LEMMA DhcpNextInv ==
    ASSUME IInv, SectionInv, DhcpInv, [DhcpNext]_dhcpVars
    PROVE  DhcpInv'
<1>1. CASE \/ \E p \in Path : \E ci \in Items(p) : DhcpCfAdd(p, ci)
           \/ \E k \in Key : \E ci \in Items(k[1]) : DhcpCfChange(k, ci)
           \/ \E k \in Key : DhcpCfRemove(k)
  BY <1>1, BeginDhcp
<1>2. CASE (\E c \in Key, f \in Field : DhcpNotify(c, f)) \/ DhcpFinish \/ EventInit \/ UNCHANGED dhcpVars
  BY <1>2, QuietDhcp
<1>3. CASE DhcpStateChange \/ DhcpReturn \/ DhcpInstall \/ DhcpDelete
  BY <1>3, HooksDhcp, InstallDhcp, DeleteDhcp
<1>4. ASSUME NEW p \in Proc, ClientDeconfig(p) \/ (\E a \in Addr : ClientBound(p, a)) \/ ClientRenew(p)
      PROVE  DhcpInv'
  BY <1>4, ClientDhcp
<1>5. CASE EventRecv
  BY <1>5, EventDhcp
<1> QED
  BY <1>1, <1>2, <1>3, <1>4, <1>5 DEF DhcpNext, DhcpStep

(* Beside the engine's invariant the sections and the DHCP client keep     *)
(* theirs (SectionInv and DhcpInv), as long as callers reuse no key.       *)
THEOREM DhcpInvariance == ASSUME Disciplined PROVE DhcpSpec => [](SectionInv /\ DhcpInv)
<1>1. IInv /\ IInv' /\ SectionInv /\ DhcpInv /\ [DhcpNext]_dhcpVars => SectionInv' /\ DhcpInv'
  BY DhcpSections, DhcpNextInv
<1> QED
  BY <1>1, DhcpInitInv, DhcpEngine, PTL DEF DhcpSpec

(* The lease fields, the processes and the queue have their types          *)
(* (DhcpTypeOK): no handler writes into an item that is gone.              *)
THEOREM DhcpTypeCorrect == ASSUME Disciplined PROVE DhcpSpec => []DhcpTypeOK
<1>1. DhcpInv => DhcpTypeOK
  BY DEF DhcpInv
<1> QED
  BY <1>1, DhcpInvariance, PTL

(* The tables that map events to items, _if_lookup and the mirror, name    *)
(* every interface as the ethernet section does (MirrorAgrees), also while *)
(* events come in.                                                         *)
THEOREM DhcpMirrorCorrect == ASSUME Disciplined PROVE DhcpSpec => []MirrorAgrees
<1>1. SectionInv => MirrorAgrees
  BY DEF SectionInv
<1> QED
  BY <1>1, DhcpInvariance, PTL

-----------------------------------------------------------------------------
(* What the items show.                                                    *)

\* A step leaves the addresses that no address item has named.
AddressesKept ==
    /\ static \subseteq static'
    /\ \A x \in (Addr \X Dev) \ static' : (x \in addrs' <=> x \in addrs) /\ (x \in failed' <=> x \in failed)

\* A hook gives or takes at most the address that its item names.
LEMMA HookKeepsAddresses ==
    ASSUME IInv, SectionInv, NEW t \in Key, cf[t] # Nil, StartHook(t) \/ StopHook(t),
           static' = static \cup Named(t)
    PROVE  AddressesKept
<1> USE SectionNames
<1>1. KernelType
  BY DEF SectionInv, RouterTypeOK, KernelType
<1>2. CASE t[1] = Ethernet
  <2>1. PICK d \in Dev : LookupByName(<<cf[t].data[1]>>) = {d}
    BY <1>2, ItemFacts
  <2>2. \E on \in BOOLEAN : IF on THEN LinkUp({d}) ELSE LinkDown({d})
    BY <1>2, <2>1 DEF StartHook, StopHook, EtherStart, EtherStop
  <2> QED
    BY <1>1, <2>2, LinkCommand DEF AddressesKept
<1>3. CASE t[1] = Address
  <2>1. PICK d \in Dev, a \in Addr : LookupByName(cf[t].dep["interface"]) = {d} /\ a = cf[t].data[1]
    BY <1>3, ItemFacts
  <2>2. PICK on \in BOOLEAN : IF on THEN AddrAdd(a, {d}) ELSE AddrDel(a, {d})
    BY <1>3, <2>1 DEF StartHook, StopHook, StartAddress, StopAddress
  <2>3. <<a, d>> \in static' /\ static \subseteq static'
    BY <1>3, <2>1, Pairs DEF Named
  <2>4. \A x \in Addr \X Dev : x # <<a, d>> => (x \in addrs' <=> x \in addrs) /\ (x \in failed' <=> x \in failed)
    BY <1>1, <2>2, AddrCommand
  <2> QED
    BY <2>3, <2>4 DEF AddressesKept
<1>4. CASE t[1] # Ethernet /\ t[1] # Address
  BY <1>4 DEF StartHook, StopHook, kernel, AddressesKept
<1> QED
  BY <1>2, <1>3, <1>4

\* So do the engine's two steps that run hooks.
LEMMA StepKeepsAddresses ==
    ASSUME IInv, SectionInv, DhcpStateChange \/ DhcpReturn
    PROVE  AddressesKept
<1> DEFINE t == Top.key
<1>1. /\ stack # <<>>
      /\ \/ UNCHANGED kernel /\ static' = static
         \/ (StartHook(t) \/ StopHook(t)) /\ static' = static \cup Named(t)
  BY DEF DhcpStateChange, DhcpReturn, RouterStateChange, RouterReturn, StateChange, Return
<1>2. t \in Key /\ cf[t] # Nil
  BY <1>1, TopFrame DEF Top, IInv, StackInv
<1>3. CASE UNCHANGED kernel /\ static' = static
  BY <1>3 DEF kernel, AddressesKept
<1>4. CASE (StartHook(t) \/ StopHook(t)) /\ static' = static \cup Named(t)
  <2> HIDE DEF t
  <2> QED
    BY <1>2, <1>4, HookKeepsAddresses
<1> QED
  BY <1>1, <1>3, <1>4

LEMMA KernelKeepsAddresses ==
    ASSUME addrs' = addrs, failed' = failed, static' = static
    PROVE  AddressesKept
BY DEF AddressesKept

\* The device of a client that has an item.
LEMMA ClientDeviceType ==
    ASSUME IInv, SectionInv, DhcpInv, NEW u \in DhcpItems
    PROVE  u \in Uniq /\ ClientDevice(u) \in Dev /\ lease[u] \in Lease
<1>1. u \in Uniq /\ lease[u] \in Lease /\ cf[<<Dhcp, u>>] # Nil
  BY DEF DhcpItems, DhcpInv, DhcpTypeOK, LeaseInv
<1>2. Target(<<Dhcp, u>>) \in Dev
  BY <1>1, DhcpKey, ItemFacts, SectionNames
<1> QED
  BY <1>1, <1>2 DEF Target, ClientDevice

\* As long as nothing is moved, a device has one client at most, and its
\* events lead to it.
LEMMA DeviceClient ==
    ASSUME IInv, SectionInv, DhcpInv, ~moved, NEW u \in DhcpItems
    PROVE  /\ ClientDevice(u) = DeviceOf(cf[<<Ethernet, u>>]) /\ ItemOf(ClientDevice(u)) = u
           /\ \A w \in DhcpItems : ClientDevice(w) = ClientDevice(u) => w = u
<1>1. ASSUME NEW w \in DhcpItems
      PROVE  ClientDevice(w) = DeviceOf(cf[<<Ethernet, w>>]) /\ ItemOf(ClientDevice(w)) = w
  <2>1. w \in Uniq /\ ClientDevice(w) \in Dev /\ ClientDevice(w) = DeviceOf(cf[<<Ethernet, w>>])
    BY ClientDeviceType DEF ClientDevice, DhcpInv, KeyInv
  <2>2. cf[<<Dhcp, w>>] # Nil /\ cf[<<Dhcp, w>>].dep["interface"] = w
    BY <2>1 DEF DhcpInv, KeyInv, LeaseInv, DhcpItems
  <2>3. cf[InterfaceOf(<<Dhcp, w>>)] # Nil
    BY <2>1, <2>2, DhcpKey, ItemFacts, SectionNames
  <2>4. cf[<<Ethernet, w>>] # Nil
    BY <2>2, <2>3 DEF InterfaceOf
  <2>5. ifLookup[ClientDevice(w)] = w /\ w # Nil
    BY <2>1, <2>4, RouterAssumption DEF SectionInv, MirrorAgrees
  <2> QED
    BY <2>1, <2>5 DEF ItemOf
<1> QED
  BY <1>1

\* A step that changes no address.
LEMMA ShownStays ==
    ASSUME IInv, SectionInv, DhcpInv, ShownIsInKernel, cf' = cf, moved' = moved,
           \A w \in Uniq : lease'[w] = Nil <=> lease[w] = Nil,
           \A w \in Uniq : lease[w] # Nil => lease'[w].address = lease[w].address,
           AddressesKept
    PROVE  ShownIsInKernel'
<1> SUFFICES ASSUME ~moved', NEW u \in Uniq, lease'[u] # Nil, lease'[u].address # Nil
             PROVE  <<lease'[u].address, ClientDevice(u)'>> \in addrs' \cup failed' \cup static'
  BY DEF ShownIsInKernel, DhcpItems
<1>1. u \in DhcpItems /\ lease'[u].address = lease[u].address /\ ClientDevice(u)' = ClientDevice(u)
  BY DEF DhcpItems, ClientDevice, DeviceOf
<1>2. lease[u] \in Lease /\ ClientDevice(u) \in Dev
  BY <1>1, ClientDeviceType
<1>3. <<lease[u].address, ClientDevice(u)>> \in Addr \X Dev
  BY <1>1, <1>2 DEF Lease
<1> QED
  BY <1>1, <1>3 DEF ShownIsInKernel, AddressesKept

LEMMA HooksShown ==
    ASSUME IInv, SectionInv, DhcpInv, ShownIsInKernel, DhcpStateChange \/ DhcpReturn
    PROVE  ShownIsInKernel'
BY StepKeepsAddresses, HooksDhcp, ShownStays

\* An event changes the address of one item and of its device, which is no
\* other item's.
LEMMA EventShown ==
    ASSUME IInv, SectionInv, DhcpInv, ShownIsInKernel, EventRecv
    PROVE  ShownIsInKernel'
<1> SUFFICES ASSUME ~moved PROVE ShownIsInKernel'
  BY DEF EventRecv, ShownIsInKernel
<1>0. PICK e, u : e = Head(queue) /\ u = ItemOf(e.dev)
  OBVIOUS
<1>1. queue # <<>> /\ cf' = cf /\ moved' = moved /\ static' = static
  BY DEF EventRecv, vars
<1>2. /\ e.dev \in Dev /\ u \in Uniq /\ (e.event = "add-lease" => e.address \in Addr)
      /\ lease[u] # Nil => lease[u] \in Lease /\ DeviceOf(cf[<<Ethernet, u>>]) = e.dev
  BY <1>0, <1>1, EventFacts
<1>3. KernelType /\ DhcpTypeOK
  BY DEF SectionInv, RouterTypeOK, KernelType, DhcpInv
<1>4. CASE lease' = lease /\ UNCHANGED kernel
  BY <1>1, <1>4, KernelKeepsAddresses, ShownStays DEF kernel
<1>5. ASSUME lease[u] # Nil, NEW ls \in Lease, lease' = [lease EXCEPT ![u] = ls],
             \/ e.event = "add-lease" /\ ls.address = e.address /\ AddrAdd(e.address, {e.dev})
             \/ /\ e.event = "del-lease" /\ ls.address = Nil
                /\ IF lease[u].address # Nil THEN AddrDel(lease[u].address, {e.dev}) ELSE UNCHANGED kernel
      PROVE  ShownIsInKernel'
  <2>1. /\ lease'[u] = ls /\ \A w \in Uniq : lease'[w] = Nil <=> lease[w] = Nil
        /\ \A w \in Uniq : w # u => lease'[w] = lease[w]
    BY <1>2, <1>3, <1>5, LeaseOf
  <2>2. ASSUME NEW w \in DhcpItems
        PROVE  /\ ClientDevice(w)' = ClientDevice(w) /\ ClientDevice(w) \in Dev
               /\ ClientDevice(w) = e.dev <=> w = u
    <3>1. u \in DhcpItems
      BY <1>2, <1>5 DEF DhcpItems
    <3>2. ClientDevice(w)' = ClientDevice(w) /\ ClientDevice(w) \in Dev
      BY <1>1, ClientDeviceType DEF ClientDevice, DeviceOf
    <3>3. ClientDevice(u) = e.dev
      BY <1>2, <1>5, <3>1, DeviceClient
    <3> QED
      BY <3>1, <3>2, <3>3, DeviceClient
  <2>3. /\ ls.address # Nil => <<ls.address, e.dev>> \in addrs' \cup failed'
        /\ \A x \in Addr \X Dev : x[2] # e.dev =>
              (x \in addrs' <=> x \in addrs) /\ (x \in failed' <=> x \in failed)
    <3>1. CASE e.event = "add-lease" /\ ls.address = e.address /\ AddrAdd(e.address, {e.dev})
      <4>1. TRUE \in BOOLEAN /\ IF TRUE THEN AddrAdd(e.address, {e.dev}) ELSE AddrDel(e.address, {e.dev})
        BY <3>1
      <4>2. /\ <<e.address, e.dev>> \notin failed' => (<<e.address, e.dev>> \in addrs' <=> TRUE)
            /\ \A x \in Addr \X Dev : x # <<e.address, e.dev>> =>
                  (x \in addrs' <=> x \in addrs) /\ (x \in failed' <=> x \in failed)
        BY <1>2, <1>3, <3>1, <4>1, AddrCommand
      <4> QED
        BY <3>1, <4>2
    <3>2. CASE ls.address = Nil /\ lease[u].address # Nil /\ AddrDel(lease[u].address, {e.dev})
      <4>1. PICK a \in Addr : a = lease[u].address
        BY <1>2, <1>5, <3>2 DEF Lease
      <4>2. FALSE \in BOOLEAN /\ IF FALSE THEN AddrAdd(a, {e.dev}) ELSE AddrDel(a, {e.dev})
        BY <3>2, <4>1
      <4>3. \A x \in Addr \X Dev : x # <<a, e.dev>> =>
                  (x \in addrs' <=> x \in addrs) /\ (x \in failed' <=> x \in failed)
        BY <1>2, <1>3, <4>2, AddrCommand
      <4> QED
        BY <3>2, <4>3
    <3>3. CASE ls.address = Nil /\ UNCHANGED kernel
      BY <3>3 DEF kernel
    <3> QED
      BY <1>5, <3>1, <3>2, <3>3
  <2>4. ASSUME NEW w \in Uniq, lease'[w] # Nil, lease'[w].address # Nil
        PROVE  <<lease'[w].address, ClientDevice(w)'>> \in addrs' \cup failed' \cup static'
    <3>1. w \in DhcpItems
      BY <2>1, <2>4 DEF DhcpItems
    <3>2. CASE w = u
      BY <2>1, <2>2, <2>3, <2>4, <3>1, <3>2
    <3>3. CASE w # u
      <4>1. lease'[w] = lease[w] /\ lease[w].address \in Addr
        BY <2>1, <2>4, <3>1, <3>3, ClientDeviceType DEF Lease
      <4>2. <<lease[w].address, ClientDevice(w)>> \in Addr \X Dev
        BY <2>2, <3>1, <4>1
      <4>3. <<lease[w].address, ClientDevice(w)>> \in addrs \cup failed \cup static
        BY <2>4, <3>1, <4>1 DEF ShownIsInKernel
      <4> QED
        BY <1>1, <2>2, <2>3, <3>1, <3>3, <4>1, <4>2, <4>3
    <3> QED
      BY <3>2, <3>3
  <2> QED
    BY <2>4 DEF ShownIsInKernel, DhcpItems
<1> QED
  BY <1>0, <1>4, <1>5, EventEffect

LEMMA ShownNext ==
    ASSUME IInv, SectionInv, DhcpInv, ShownIsInKernel, [DhcpNext]_dhcpVars
    PROVE  ShownIsInKernel'
<1>1. CASE \/ \E p \in Path : \E ci \in Items(p) : DhcpCfAdd(p, ci)
           \/ \E k \in Key : \E ci \in Items(k[1]) : DhcpCfChange(k, ci)
           \/ \E k \in Key : DhcpCfRemove(k)
  <2>1. UNCHANGED kernel
    BY <1>1 DEF DhcpCfAdd, DhcpCfChange, DhcpCfRemove, RouterCfAdd, RouterCfChange, RouterCfRemove
  <2> QED
    BY <1>1, <2>1, BeginDhcp, KernelKeepsAddresses, ShownStays DEF dhcp, kernel
<1>2. CASE (\E c \in Key, f \in Field : DhcpNotify(c, f)) \/ DhcpFinish \/ EventInit \/ UNCHANGED dhcpVars
  BY <1>2, QuietDhcp, KernelKeepsAddresses, ShownStays DEF kernel
<1>3. CASE DhcpStateChange \/ DhcpReturn \/ DhcpInstall \/ DhcpDelete
  <2>1. CASE DhcpInstall \/ DhcpDelete
    <3>1. moved => moved'
      BY <2>1, InstallDhcp, DeleteDhcp
    <3>2. ~moved' => \A w \in Uniq : Kept(w)
      BY <2>1, InstallDhcp, DeleteDhcp
    <3>3. addrs' = addrs /\ failed' = failed /\ static' = static
      BY <2>1, InstallDhcp, DeleteDhcp
    <3> QED
      BY <3>1, <3>2, <3>3 DEF Kept, ShownIsInKernel, DhcpItems
  <2> QED
    BY <1>3, <2>1, HooksShown
<1>4. ASSUME NEW p \in Proc, ClientDeconfig(p) \/ (\E a \in Addr : ClientBound(p, a)) \/ ClientRenew(p)
      PROVE  ShownIsInKernel'
  <2>1. UNCHANGED <<routerVars, lease, moved, static>>
    BY <1>4 DEF ClientDeconfig, ClientBound, ClientRenew, Send
  <2>2. cf' = cf /\ addrs' = addrs /\ failed' = failed /\ lease' = lease /\ moved' = moved /\ static' = static
    BY <2>1 DEF routerVars, vars, kernel
  <2> QED
    BY <2>2, KernelKeepsAddresses, ShownStays
<1>5. CASE EventRecv
  BY <1>5, EventShown
<1> QED
  BY <1>1, <1>2, <1>3, <1>4, <1>5 DEF DhcpNext, DhcpStep

(* As long as interfaces keep their names and clients their interfaces, an *)
(* item shows an address only while its device has it (ShownIsInKernel),   *)
(* unless the command that adds it failed or an item of /ip/address named  *)
(* it too, also while clients that were told to stop go on sending events. *)
THEOREM ShownCorrect == ASSUME Disciplined PROVE DhcpSpec => []ShownIsInKernel
<1>1. DhcpInit => ShownIsInKernel
  BY DEF DhcpInit, ShownIsInKernel, DhcpItems
<1>2. IInv /\ SectionInv /\ DhcpInv /\ ShownIsInKernel /\ [DhcpNext]_dhcpVars => ShownIsInKernel'
  BY ShownNext
<1> QED
  BY <1>1, <1>2, DhcpEngine, DhcpInvariance, PTL DEF DhcpSpec

-----------------------------------------------------------------------------
(* Leases follow their clients: LeaseFlowInv is inductive.                 *)

\* The item of a process that runs.
LEMMA OwnerFacts ==
    ASSUME IInv, SectionInv, DhcpInv, LeaseFlowInv, Undisturbed, NEW p \in Proc \ Free
    PROVE  \E u \in DhcpItems :
              /\ lease[u].pid = p /\ p # Nil /\ client[p].dev = ClientDevice(u)
              /\ ItemOf(client[p].dev) = u
              /\ \A w \in DhcpItems : ClientDevice(w) = client[p].dev \/ lease[w].pid = p => w = u
<1>1. PICK u \in DhcpItems : lease[u].pid = p
  BY DEF Undisturbed, NoOrphan
<1>2. p # Nil
  BY DhcpAssumption
<1>3. client[p].dev = ClientDevice(u) /\ \A w \in DhcpItems : lease[w].pid = p => w = u
  BY <1>1, <1>2 DEF LeaseFlowInv, OwnerInv
<1> QED
  BY <1>1, <1>2, <1>3, DeviceClient DEF Undisturbed

\* A step that moves no lease, changes no address and sends nothing.  An
\* item that goes takes no client with it, or it leaves an orphan.
LEMMA FlowKept ==
    ASSUME IInv, SectionInv, DhcpInv, DhcpTypeOK', LeaseFlowInv, Undisturbed',
           \A w \in Uniq : Kept(w), moved => moved',
           client' = client, queue' = queue, lost' = lost,
           AddressesKept
    PROVE  LeaseFlowInv'
<1>1. DhcpItems \subseteq Uniq /\ DhcpItems' \subseteq Uniq /\ Free' = Free
  BY DEF DhcpItems, Free
<1>2. ASSUME NEW w \in DhcpItems'
      PROVE  /\ w \in DhcpItems => /\ lease'[w].address = lease[w].address /\ lease'[w].pid = lease[w].pid
                                   /\ ClientDevice(w)' = ClientDevice(w)
             /\ w \notin DhcpItems => lease'[w].address = Nil /\ lease'[w].pid = Nil
  BY <1>1 DEF DhcpItems, Kept
<1>3. \A p \in Proc \ Free : \E u \in DhcpItems' : lease'[u].pid = p
  BY <1>1 DEF Undisturbed, NoOrphan
<1>4. Undisturbed
  <2>1. ASSUME NEW p \in Proc \ Free PROVE \E u \in DhcpItems : lease[u].pid = p
    <3>1. PICK u \in DhcpItems' : lease'[u].pid = p
      BY <1>3
    <3>2. p # Nil
      BY DhcpAssumption
    <3> QED
      BY <1>2, <3>1, <3>2
  <2>2. ~lost /\ ~moved
    BY DEF Undisturbed
  <2> QED
    BY <2>1, <2>2 DEF Undisturbed, NoOrphan
<1>5. OwnerInv /\ ShowsInv /\ HolderInv /\ QueueInv
  BY <1>4 DEF LeaseFlowInv
<1>6. ASSUME NEW w \in DhcpItems, w \notin DhcpItems'
      PROVE  lease[w].pid = Nil /\ lease[w].address = Nil
  <2>1. ASSUME lease[w].pid # Nil PROVE FALSE
    <3>1. lease[w].pid \in Proc
      BY <1>1, <2>1, ClientDeviceType DEF Lease
    <3>2. lease[w].pid \in Proc \ Free
      BY <1>5, <2>1, <3>1 DEF OwnerInv, Free
    <3>3. PICK u \in DhcpItems' : lease'[u].pid = lease[w].pid
      BY <1>3, <3>2
    <3>4. u \in DhcpItems /\ lease[u].pid = lease[w].pid
      BY <1>2, <2>1, <3>3
    <3>5. u = w
      BY <1>5, <2>1, <3>4 DEF OwnerInv
    <3> QED
      BY <1>6, <3>3, <3>5
  <2> QED
    BY <1>5, <2>1 DEF HolderInv
<1>7. OwnerInv'
  BY <1>2, <1>5 DEF OwnerInv
<1>8. ShowsInv'
  <2> SUFFICES ASSUME NEW x \in (Addr \X Dev) \ (failed' \cup static')
               PROVE  x \in addrs' <=> \E u \in DhcpItems' : lease'[u].address = x[1] /\ ClientDevice(u)' = x[2]
    BY DEF ShowsInv
  <2>1. x \in addrs' <=> \E u \in DhcpItems : lease[u].address = x[1] /\ ClientDevice(u) = x[2]
    BY <1>5 DEF ShowsInv, AddressesKept
  <2>2. x[1] # Nil
    BY DhcpAssumption
  <2>3. ASSUME NEW u \in DhcpItems, lease[u].address = x[1], ClientDevice(u) = x[2]
        PROVE  u \in DhcpItems' /\ lease'[u].address = x[1] /\ ClientDevice(u)' = x[2]
    BY <1>2, <1>6, <2>2, <2>3
  <2>4. ASSUME NEW u \in DhcpItems', lease'[u].address = x[1], ClientDevice(u)' = x[2]
        PROVE  u \in DhcpItems /\ lease[u].address = x[1] /\ ClientDevice(u) = x[2]
    BY <1>2, <2>2, <2>4
  <2> QED
    BY <2>1, <2>3, <2>4
<1>9. HolderInv'
  BY <1>1, <1>2, <1>5 DEF HolderInv
<1>10. QueueInv'
  <2> SUFFICES ASSUME NEW u \in DhcpItems', lease'[u].pid # Nil
               PROVE  /\ u \in DhcpItems /\ lease'[u].address = lease[u].address /\ lease'[u].pid = lease[u].pid
                      /\ Coming(u)' = Coming(u)
    BY <1>5 DEF QueueInv
  <2>1. /\ u \in DhcpItems /\ lease'[u].address = lease[u].address /\ lease'[u].pid = lease[u].pid
        /\ ClientDevice(u)' = ClientDevice(u)
    BY <1>2
  <2> QED
    BY <2>1 DEF Coming
<1> QED
  BY <1>5, <1>7, <1>8, <1>9, <1>10 DEF LeaseFlowInv

\* A process that no item knows of stays so.
LEMMA OrphanStays ==
    ASSUME DhcpTypeOK, Undisturbed', lost => lost', moved => moved',
           \A p \in Proc \ Free : p \in Proc \ Free',
           \A w \in DhcpItems' : lease'[w].pid \in Free \/ \E v \in DhcpItems : lease[v].pid = lease'[w].pid
    PROVE  Undisturbed
<1>1. ~lost /\ ~moved
  BY DEF Undisturbed
<1>2. ASSUME NEW p \in Proc \ Free PROVE \E v \in DhcpItems : lease[v].pid = p
  BY DEF Undisturbed, NoOrphan
<1> QED
  BY <1>1, <1>2 DEF Undisturbed, NoOrphan

\* A client starts: it is the first of its device.
LEMMA StartFlow ==
    ASSUME IInv, SectionInv, DhcpInv, LeaseFlowInv, Undisturbed',
           NEW k \in Key, k[1] = Dhcp, cf[k] # Nil, StartDhcp(k[2]),
           cf' = cf, queue' = queue, lost' = lost, moved' = moved,
           AddressesKept
    PROVE  LeaseFlowInv'
<1>0. PICK u : u = k[2]
  OBVIOUS
<1>1. u \in Uniq /\ k = <<Dhcp, u>> /\ LookupByName(cf[k].dep["interface"]) = {Target(k)}
  BY <1>0, ItemFacts, SectionNames
<1>2. /\ lease \in [Uniq -> Lease \cup {Nil}] /\ client \in [Proc -> Client]
      /\ lease[u] \in Lease /\ lease[u] # Nil /\ u \in DhcpItems
  BY <1>1 DEF DhcpInv, DhcpTypeOK, LeaseInv, DhcpItems
<1>3. PICK p \in Free : /\ client' = [client EXCEPT ![p] =
                              [dev |-> Target(k), state |-> "started", address |-> Nil]]
                        /\ lease' = [lease EXCEPT ![u].pid = p]
  BY <1>0, <1>1 DEF StartDhcp
<1>4. p \in Proc /\ p # Nil /\ Target(k) = ClientDevice(u) /\ client[p].state = "none"
  BY <1>1, DhcpAssumption DEF Free, Target, ClientDevice
<1>5. /\ client'[p] = [dev |-> ClientDevice(u), state |-> "started", address |-> Nil]
      /\ \A q \in Proc : q # p => client'[q] = client[q]
  BY <1>2, <1>3, <1>4
<1>6. Free' = Free \ {p}
  BY <1>5, <1>4 DEF Free
<1>7. /\ \A w \in Uniq : lease'[w] = Nil <=> lease[w] = Nil
      /\ \A w \in Uniq : w # u => lease'[w] = lease[w]
      /\ lease'[u].pid = p /\ lease'[u].address = lease[u].address
  <2> DEFINE ls == [lease[u] EXCEPT !.pid = p]
  <2>1. ls \in Lease /\ ls.pid = p /\ ls.address = lease[u].address
    BY <1>2, <1>4 DEF Lease
  <2>2. lease' = [lease EXCEPT ![u] = ls]
    BY <1>1, <1>2, <1>3
  <2> HIDE DEF ls
  <2> QED
    BY <1>1, <1>2, <2>1, <2>2, LeaseOf DEF DhcpInv
<1>8. DhcpItems' = DhcpItems /\ DhcpItems \subseteq Uniq
  BY <1>7 DEF DhcpItems
<1>9. Undisturbed
  <2>1. \A w \in DhcpItems' : lease'[w].pid \in Free \/ \E v \in DhcpItems : lease[v].pid = lease'[w].pid
    BY <1>7, <1>8
  <2> QED
    BY <1>6, <2>1, OrphanStays DEF DhcpInv
<1>10. OwnerInv /\ ShowsInv /\ HolderInv /\ SenderInv /\ QueueInv
  BY <1>9 DEF LeaseFlowInv, DhcpInv
<1>11. lease[u].pid = Nil /\ lease[u].address = Nil
  <2>1. ASSUME lease[u].pid # Nil PROVE FALSE
    <3>1. PICK q \in Proc : q = lease[u].pid /\ client[q].state # "none"
      BY <1>2, <1>10, <2>1 DEF Lease, OwnerInv
    <3>2. q # p /\ q \in Proc \ Free'
      BY <1>4, <1>6, <3>1 DEF Free
    <3>3. PICK w \in DhcpItems' : lease'[w].pid = q
      BY <3>2 DEF Undisturbed, NoOrphan
    <3>4. w # u /\ lease[w].pid = q /\ w \in DhcpItems
      BY <1>7, <1>8, <3>2, <3>3
    <3> QED
      BY <1>2, <1>10, <2>1, <3>1, <3>4 DEF OwnerInv
  <2> QED
    BY <1>2, <1>10, <2>1 DEF HolderInv
<1>12. \A w \in DhcpItems : lease[w].pid # p
  BY <1>4, <1>10 DEF OwnerInv
<1>13. \A w : ClientDevice(w)' = ClientDevice(w)
  BY DEF ClientDevice, DeviceOf
<1>14. OwnerInv'
  <2> SUFFICES ASSUME NEW w \in DhcpItems, lease'[w].pid # Nil
               PROVE  /\ client'[lease'[w].pid].state # "none"
                      /\ client'[lease'[w].pid].dev = ClientDevice(w)
                      /\ \A v \in DhcpItems : lease'[v].pid = lease'[w].pid => v = w
    BY <1>8, <1>13 DEF OwnerInv
  <2>1. CASE w = u
    BY <1>5, <1>7, <1>8, <1>12, <2>1
  <2>2. CASE w # u
    <3>1. lease'[w] = lease[w] /\ lease[w].pid # p
      BY <1>7, <1>8, <1>12, <2>2
    <3>2. lease[w].pid \in Proc
      BY <3>1, ClientDeviceType DEF Lease
    <3> QED
      BY <1>5, <1>7, <1>8, <1>10, <3>1, <3>2 DEF OwnerInv
  <2> QED
    BY <2>1, <2>2
<1>15. ShowsInv'
  BY <1>7, <1>8, <1>10, <1>13 DEF ShowsInv, AddressesKept
<1>16. HolderInv'
  BY <1>4, <1>7, <1>8, <1>10 DEF HolderInv
<1>17. QueueInv'
  <2>1. \A w : Coming(w)' = Coming(w)
    BY <1>13 DEF Coming
  <2>2. Coming(u) = {}
    <3> SUFFICES ASSUME NEW i \in Coming(u) PROVE FALSE
      OBVIOUS
    <3>1. i \in 1 .. Len(queue) /\ queue[i].dev = ClientDevice(u)
      BY DEF Coming
    <3>2. PICK q \in Proc \ Free : client[q].dev = ClientDevice(u)
      BY <1>10, <3>1 DEF SenderInv
    <3>3. lease[u].pid = q /\ q # Nil
      BY <1>2, <1>9, <3>2, OwnerFacts
    <3> QED
      BY <1>11, <3>3
  <2>3. ASSUME NEW w \in DhcpItems, w # u, lease[w].pid # Nil
        PROVE  lease'[w] = lease[w] /\ client'[lease'[w].pid] = client[lease[w].pid]
    <3>1. lease'[w] = lease[w] /\ lease[w].pid # p
      BY <1>7, <1>8, <1>12, <2>3
    <3>2. lease[w].pid \in Proc
      BY <2>3, ClientDeviceType DEF Lease
    <3> QED
      BY <1>5, <3>1, <3>2
  <2>4. lease'[u].address = client'[lease'[u].pid].address
    BY <1>5, <1>7, <1>11
  <2> SUFFICES ASSUME NEW w \in DhcpItems, lease'[w].pid # Nil, w # u
               PROVE  lease[w].pid # Nil /\ lease'[w] = lease[w] /\ client'[lease'[w].pid] = client[lease[w].pid]
    BY <1>8, <1>10, <2>1, <2>2, <2>4 DEF QueueInv
  <2> QED
    BY <1>7, <1>8, <2>3
<1> QED
  BY <1>14, <1>15, <1>16, <1>17 DEF LeaseFlowInv

\* A client is told to stop: it goes on, as an orphan, or there was none.
LEMMA StopFlow ==
    ASSUME IInv, SectionInv, DhcpInv, DhcpTypeOK', LeaseFlowInv, Undisturbed',
           NEW k \in Key, k[1] = Dhcp, cf[k] # Nil, StopDhcp(k[2]),
           cf' = cf, queue' = queue, lost' = lost, moved' = moved,
           AddressesKept
    PROVE  LeaseFlowInv'
<1>0. PICK u : u = k[2]
  OBVIOUS
<1>1. u \in Uniq /\ k = <<Dhcp, u>>
  BY <1>0, ItemFacts, SectionNames
<1>2. /\ lease \in [Uniq -> Lease \cup {Nil}] /\ lease[u] \in Lease /\ lease[u] # Nil /\ u \in DhcpItems
  BY <1>1 DEF DhcpInv, DhcpTypeOK, LeaseInv, DhcpItems
<1>3. /\ \A w \in Uniq : lease'[w] = Nil <=> lease[w] = Nil
      /\ \A w \in Uniq : w # u => lease'[w] = lease[w]
      /\ lease'[u].pid = Nil /\ lease'[u].address = lease[u].address
      /\ client' = client
  <2> DEFINE ls == [lease[u] EXCEPT !.pid = Nil, !.status = "stopped"]
  <2>1. ls \in Lease /\ ls.pid = Nil /\ ls.address = lease[u].address
    BY <1>2 DEF Lease
  <2>2. lease' = [lease EXCEPT ![u] = ls] /\ client' = client
    BY <1>0, <1>1, <1>2 DEF StopDhcp
  <2> HIDE DEF ls
  <2> QED
    BY <1>1, <1>2, <2>1, <2>2, LeaseOf DEF DhcpInv
<1>4. DhcpItems' = DhcpItems /\ DhcpItems \subseteq Uniq /\ Free' = Free
  BY <1>3 DEF DhcpItems, Free
<1>5. lease[u].pid = Nil
  <2> SUFFICES ASSUME lease[u].pid # Nil PROVE FALSE
    OBVIOUS
  <2>1. ASSUME NEW p \in Proc \ Free PROVE \E w \in DhcpItems : w # u /\ lease[w].pid = p
    <3>1. PICK w \in DhcpItems' : lease'[w].pid = p
      BY <1>4 DEF Undisturbed, NoOrphan
    <3> QED
      BY <1>3, <1>4, <3>1, DhcpAssumption
  <2>2. Undisturbed
    BY <2>1 DEF Undisturbed, NoOrphan
  <2>3. OwnerInv
    BY <2>2 DEF LeaseFlowInv
  <2>4. PICK q \in Proc : q = lease[u].pid
    BY <1>2 DEF Lease
  <2>5. q \in Proc \ Free
    BY <1>2, <2>3, <2>4 DEF OwnerInv, Free
  <2> QED
    BY <1>2, <2>1, <2>3, <2>4, <2>5 DEF OwnerInv
<1>6. \A w \in Uniq : Kept(w)
  BY <1>3, <1>5 DEF Kept, ClientDevice, DeviceOf
<1> QED
  BY <1>3, <1>6, FlowKept

\* An event is sent to the end of the queue.
LEMMA SendFlow ==
    ASSUME IInv, SectionInv, DhcpInv, LeaseFlowInv, Undisturbed', NEW p \in Proc,
           ClientDeconfig(p) \/ (\E a \in Addr : ClientBound(p, a)) \/ ClientRenew(p)
    PROVE  LeaseFlowInv'
<1>1. PICK ev \in {"del-lease", "add-lease", "renew-lease"} :
        /\ Send(ev, p) /\ client[p].state # "none"
        /\ client' \in [Proc -> Client] /\ client'[p].state # "none"
        /\ client'[p].dev = client[p].dev /\ \A q \in Proc : q # p => client'[q] = client[q]
        /\ client'[p].address \in (IF ev = "del-lease" THEN {Nil} ELSE Addr)
        /\ ev = "add-lease" => client[p].address = Nil
        /\ ev = "renew-lease" => client' = client
  BY ClientSends
<1>2. PICK e : e = [event |-> ev, dev |-> client[p].dev, address |-> client'[p].address]
  OBVIOUS
<1>3. /\ queue' = Append(queue, e) /\ lost' = lost
      /\ UNCHANGED <<routerVars, lease, moved, static>>
  BY <1>1, <1>2 DEF Send, Undisturbed
<1>4. cf' = cf /\ addrs' = addrs /\ failed' = failed /\ lease' = lease /\ moved' = moved /\ static' = static
  BY <1>3 DEF routerVars, vars, kernel
<1>5. /\ DhcpItems' = DhcpItems /\ Free' = Free /\ p \in Proc \ Free
      /\ \A w : ClientDevice(w)' = ClientDevice(w)
      /\ \A q \in Proc : client'[q].dev = client[q].dev /\ (client'[q].state # "none" <=> client[q].state # "none")
  BY <1>1, <1>4 DEF DhcpItems, Free, ClientDevice, DeviceOf
<1>6. Undisturbed
  BY <1>3, <1>4, <1>5 DEF Undisturbed, NoOrphan
<1>7. OwnerInv /\ ShowsInv /\ HolderInv /\ QueueInv
  BY <1>6 DEF LeaseFlowInv
<1>8. \A w \in DhcpItems : lease[w].pid # Nil => lease[w].pid \in Proc
  BY ClientDeviceType DEF Lease
<1>9. OwnerInv'
  BY <1>4, <1>5, <1>7, <1>8 DEF OwnerInv
<1>10. ShowsInv' /\ HolderInv'
  BY <1>4, <1>5, <1>7 DEF ShowsInv, HolderInv
<1>11. PICK n \in Nat : n = Len(queue)
  BY DEF DhcpInv, DhcpTypeOK
<1>12. /\ 1 .. Len(queue') = (1 .. n) \cup {n + 1}
       /\ queue'[n + 1] = e /\ \A i \in 1 .. n : queue'[i] = queue[i]
  <2>1. queue \in Seq(Event)
    BY DEF DhcpInv, DhcpTypeOK
  <2>2. Len(queue') = n + 1 /\ queue'[n + 1] = e /\ \A i \in 1 .. n : queue'[i] = queue[i]
    BY <1>3, <1>11, <2>1
  <2> QED
    BY <2>2
<1>13. QueueInv'
  <2> SUFFICES ASSUME NEW u \in DhcpItems, lease[u].pid # Nil
               PROVE  /\ Coming(u)' = {} => lease[u].address = client'[lease[u].pid].address
                      /\ \A i \in Coming(u)' :
                          /\ (\A j \in Coming(u)' : j <= i) => queue'[i].address = client'[lease[u].pid].address
                          /\ queue'[i].event = "add-lease" /\ (\A j \in Coming(u)' : i <= j) => lease[u].address = Nil
                          /\ \A j \in Coming(u)' :
                                i < j /\ queue'[j].event = "add-lease" /\ (\A k \in Coming(u)' : k <= i \/ j <= k)
                                    => queue'[i].address = Nil
    BY <1>4, <1>5 DEF QueueInv
  <2>1. PICK q \in Proc : q = lease[u].pid
    BY <1>8
  <2>2. /\ Coming(u) \subseteq 1 .. n
        /\ Coming(u) = {} => lease[u].address = client[q].address
        /\ \A i \in Coming(u) :
            /\ (\A j \in Coming(u) : j <= i) => queue[i].address = client[q].address
            /\ queue[i].event = "add-lease" /\ (\A j \in Coming(u) : i <= j) => lease[u].address = Nil
            /\ \A j \in Coming(u) :
                  i < j /\ queue[j].event = "add-lease" /\ (\A k \in Coming(u) : k <= i \/ j <= k)
                      => queue[i].address = Nil
    BY <1>7, <1>11, <2>1 DEF QueueInv, Coming
  <2>3. Coming(u)' = Coming(u) \cup (IF q = p /\ ev # "renew-lease" THEN {n + 1} ELSE {})
    <3>1. client[p].dev = ClientDevice(u) <=> q = p
      BY <1>5, <1>6, <2>1, OwnerFacts
    <3>2. e.dev = client[p].dev /\ e.event = ev
      BY <1>2
    <3>3. Coming(u)' = {i \in (1 .. n) \cup {n + 1} :
                           queue'[i].dev = ClientDevice(u) /\ queue'[i].event # "renew-lease"}
      BY <1>5, <1>12 DEF Coming
    <3> QED
      BY <1>11, <1>12, <3>1, <3>2, <3>3 DEF Coming
  <2>4. PICK C : C = Coming(u)
    OBVIOUS
  <2>5. CASE ~(q = p /\ ev # "renew-lease")
    <3>1. client'[q] = client[q] /\ Coming(u)' = C
      BY <1>1, <2>3, <2>4, <2>5
    <3> QED
      BY <1>12, <2>1, <2>2, <2>4, <3>1
  <2>6. CASE q = p /\ ev # "renew-lease"
    <3>1. Coming(u)' = C \cup {n + 1} /\ queue'[n + 1] = e
      BY <1>12, <2>3, <2>4, <2>6
    <3>2. /\ e.address = client'[q].address
          /\ e.event = "add-lease" => client[q].address = Nil
      BY <1>1, <1>2, <2>6
    <3>3. \A i \in C : i \in 1 .. n /\ i < n + 1 /\ queue'[i] = queue[i]
      BY <1>12, <2>2, <2>4
    <3>4. ASSUME NEW i \in C \cup {n + 1}, \A j \in C \cup {n + 1} : j <= i
          PROVE  queue'[i].address = client'[q].address
      BY <3>1, <3>2, <3>3, <3>4
    <3>5. ASSUME NEW i \in C \cup {n + 1}, queue'[i].event = "add-lease", \A j \in C \cup {n + 1} : i <= j
          PROVE  lease[u].address = Nil
      <4>1. CASE i \in C
        BY <2>2, <2>4, <3>3, <3>5, <4>1
      <4>2. CASE i = n + 1
        <5>1. C = {}
          BY <3>3, <3>5, <4>2
        <5> QED
          BY <2>2, <2>4, <3>1, <3>2, <3>5, <4>2, <5>1
      <4> QED
        BY <4>1, <4>2
    <3>6. ASSUME NEW i \in C \cup {n + 1}, NEW j \in C \cup {n + 1}, i < j, queue'[j].event = "add-lease",
                 \A k \in C \cup {n + 1} : k <= i \/ j <= k
          PROVE  queue'[i].address = Nil
      <4>1. i \in C
        BY <3>3, <3>6
      <4>2. CASE j \in C
        BY <2>2, <2>4, <3>3, <3>6, <4>1, <4>2
      <4>3. CASE j = n + 1
        <5>1. \A k \in C : k <= i
          BY <3>3, <3>6, <4>3
        <5> QED
          BY <2>2, <2>4, <3>1, <3>2, <3>3, <3>6, <4>1, <4>3, <5>1
      <4> QED
        BY <4>2, <4>3
    <3> QED
      BY <2>1, <3>1, <3>4, <3>5, <3>6
  <2> QED
    BY <2>5, <2>6
<1> QED
  BY <1>9, <1>10, <1>13 DEF LeaseFlowInv

\* The first event is handled: it finds its item, whose address it sets.
LEMMA EventFlow ==
    ASSUME IInv, SectionInv, DhcpInv, LeaseFlowInv, Undisturbed', EventRecv
    PROVE  LeaseFlowInv'
<1>0. PICK e, u : e = Head(queue) /\ u = ItemOf(e.dev)
  OBVIOUS
<1>1. /\ queue # <<>> /\ queue' = Tail(queue) /\ cf' = cf /\ client' = client
      /\ moved' = moved /\ lost' = lost /\ static' = static
  BY DEF EventRecv, vars
<1>2. /\ e.dev \in Dev /\ u \in Uniq /\ (e.event = "add-lease" => e.address \in Addr)
      /\ lease[u] # Nil => lease[u] \in Lease
      /\ e.event \in {"add-lease", "del-lease", "renew-lease"} /\ (e.event = "del-lease" => e.address = Nil)
  <2>1. e \in Event
    BY <1>0, <1>1, EventFacts
  <2> QED
    BY <1>0, <1>1, <2>1, EventFacts DEF Event
<1>3. KernelType /\ DhcpTypeOK
  BY DEF SectionInv, RouterTypeOK, KernelType, DhcpInv
<1>4. PICK n \in Nat : Len(queue) = n + 1
  <2>1. queue \in Seq(Event)
    BY <1>3 DEF DhcpTypeOK
  <2>2. Len(queue) \in Nat /\ Len(queue) # 0
    BY <1>1, <2>1
  <2>3. Len(queue) - 1 \in Nat /\ Len(queue) = (Len(queue) - 1) + 1
    BY <2>2
  <2> QED
    BY <2>3
<1>5. /\ Len(queue') = n /\ 1 \in 1 .. Len(queue) /\ e = queue[1]
      /\ \A i \in 1 .. n : i + 1 \in 1 .. Len(queue) /\ queue'[i] = queue[i + 1]
  <2>1. queue \in Seq(Event)
    BY <1>3 DEF DhcpTypeOK
  <2> QED
    BY <1>0, <1>1, <1>4, <2>1
<1>6. \A w : ClientDevice(w)' = ClientDevice(w)
  BY <1>1 DEF ClientDevice, DeviceOf
<1>7. PICK ad \in Addr \cup {Nil} :
         /\ \A w \in Uniq : lease'[w] = Nil <=> lease[w] = Nil
         /\ \A w \in Uniq : w # u => lease'[w] = lease[w]
         /\ lease[u] # Nil => lease'[u].pid = lease[u].pid /\ lease'[u].address = ad
         /\ lease[u] # Nil => ad = IF e.event = "renew-lease" THEN lease[u].address ELSE e.address
  <2>1. CASE (e.event = "renew-lease" \/ lease[u] = Nil) /\ lease' = lease
    <3>1. CASE lease[u] # Nil
      BY <1>2, <2>1, <3>1 DEF Lease
    <3>2. CASE lease[u] = Nil
      BY <2>1, <3>2
    <3> QED
      BY <3>1, <3>2
  <2>2. ASSUME lease[u] # Nil, NEW ls \in Lease, lease' = [lease EXCEPT ![u] = ls], ls.pid = lease[u].pid,
               e.event # "renew-lease", ls.address = e.address
        PROVE  /\ \A w \in Uniq : lease'[w] = Nil <=> lease[w] = Nil
               /\ \A w \in Uniq : w # u => lease'[w] = lease[w]
               /\ lease'[u].pid = lease[u].pid /\ lease'[u].address = e.address /\ e.address \in Addr \cup {Nil}
    BY <1>2, <1>3, <2>2, LeaseOf
  <2>3. \/ (e.event = "renew-lease" \/ lease[u] = Nil) /\ lease' = lease
        \/ lease[u] # Nil /\ \E ls \in Lease : /\ lease' = [lease EXCEPT ![u] = ls] /\ ls.pid = lease[u].pid
                                               /\ e.event # "renew-lease" /\ ls.address = e.address
    <3>1. CASE lease' = lease /\ (e.event = "renew-lease" \/ lease[u] = Nil)
      BY <3>1
    <3>2. ASSUME lease[u] # Nil, NEW ls \in Lease, lease' = [lease EXCEPT ![u] = ls], ls.pid = lease[u].pid,
                 \/ e.event = "add-lease" /\ ls.address = e.address /\ AddrAdd(e.address, {e.dev})
                 \/ /\ e.event = "del-lease" /\ ls.address = Nil
                    /\ IF lease[u].address # Nil THEN AddrDel(lease[u].address, {e.dev}) ELSE UNCHANGED kernel
          PROVE  e.event # "renew-lease" /\ ls.address = e.address
      BY <1>2, <3>2
    <3> QED
      BY <1>0, <3>1, <3>2, EventEffect
  <2> QED
    BY <2>1, <2>2, <2>3
<1>8. DhcpItems' = DhcpItems /\ DhcpItems \subseteq Uniq /\ Free' = Free
  BY <1>1, <1>7 DEF DhcpItems, Free
<1>9. Undisturbed
  BY <1>1, <1>7, <1>8 DEF Undisturbed, NoOrphan, DhcpItems
<1>10. OwnerInv /\ ShowsInv /\ HolderInv /\ SenderInv /\ QueueInv
  BY <1>9 DEF LeaseFlowInv, DhcpInv
<1>11. /\ u \in DhcpItems /\ lease[u] # Nil /\ lease[u].pid # Nil /\ ClientDevice(u) = e.dev
       /\ \A w \in DhcpItems : ClientDevice(w) = e.dev => w = u
  <2>1. PICK p \in Proc \ Free : client[p].dev = e.dev
    BY <1>5, <1>10 DEF SenderInv
  <2> QED
    BY <1>0, <1>9, <2>1, OwnerFacts DEF DhcpItems
<1>12. OwnerInv' /\ HolderInv'
  BY <1>1, <1>6, <1>7, <1>8, <1>10, <1>11 DEF OwnerInv, HolderInv
<1>13. e.event # "renew-lease" => 1 \in Coming(u) /\ \A j \in Coming(u) : 1 <= j
  BY <1>5, <1>11 DEF Coming
<1>14. e.event = "add-lease" => lease[u].address = Nil
  BY <1>5, <1>10, <1>11, <1>13 DEF QueueInv
<1>15. QueueInv'
  <2> SUFFICES ASSUME NEW w \in DhcpItems', lease'[w].pid # Nil
               PROVE  /\ Coming(w)' = {} => lease'[w].address = client'[lease'[w].pid].address
                      /\ \A i \in Coming(w)' :
                          /\ (\A j \in Coming(w)' : j <= i) => queue'[i].address = client'[lease'[w].pid].address
                          /\ queue'[i].event = "add-lease" /\ (\A j \in Coming(w)' : i <= j) => lease'[w].address = Nil
                          /\ \A j \in Coming(w)' :
                                i < j /\ queue'[j].event = "add-lease" /\ (\A k \in Coming(w)' : k <= i \/ j <= k)
                                    => queue'[i].address = Nil
    BY DEF QueueInv
  <2>0. w \in DhcpItems /\ lease[w].pid # Nil /\ client'[lease'[w].pid] = client[lease[w].pid]
    BY <1>1, <1>7, <1>8, <1>11
  <2>1. PICK C, B, cad : C = Coming(w) /\ B = Coming(w)' /\ cad = client[lease[w].pid].address
    OBVIOUS
  <2>2. /\ C \subseteq 1 .. (n + 1) /\ B \subseteq 1 .. n
        /\ \A i \in 1 .. n : i \in B <=> i + 1 \in C
        /\ 1 \in C <=> w = u /\ e.event # "renew-lease"
    <3>1. C = {i \in 1 .. (n + 1) : queue[i].dev = ClientDevice(w) /\ queue[i].event # "renew-lease"}
      BY <1>4, <2>1 DEF Coming
    <3>2. B = {i \in 1 .. n : queue'[i].dev = ClientDevice(w) /\ queue'[i].event # "renew-lease"}
      BY <1>5, <1>6, <2>1 DEF Coming
    <3> QED
      BY <1>4, <1>5, <1>11, <2>0, <3>1, <3>2
  <2>3. /\ C = {} => lease[w].address = cad
        /\ \A i \in C :
            /\ (\A j \in C : j <= i) => queue[i].address = cad
            /\ queue[i].event = "add-lease" /\ (\A j \in C : i <= j) => lease[w].address = Nil
            /\ \A j \in C :
                  i < j /\ queue[j].event = "add-lease" /\ (\A k \in C : k <= i \/ j <= k)
                      => queue[i].address = Nil
    BY <1>10, <2>0, <2>1 DEF QueueInv
  <2>4. IF 1 \in C THEN lease'[w].address = queue[1].address ELSE lease'[w].address = lease[w].address
    BY <1>5, <1>7, <1>8, <1>11, <2>0, <2>2
  <2>5. \A j \in C : j = 1 \/ \E i \in B : j = i + 1
    <3> SUFFICES ASSUME NEW j \in C, j # 1 PROVE j - 1 \in B /\ j = (j - 1) + 1
      OBVIOUS
    <3>1. j \in 1 .. (n + 1) /\ j - 1 \in 1 .. n /\ (j - 1) + 1 = j
      BY <2>2
    <3> QED
      BY <2>2, <3>1
  <2>6. \A i \in B : i \in 1 .. n /\ i + 1 \in C /\ queue'[i] = queue[i + 1]
    BY <1>5, <2>2
  <2>7. ASSUME B = {} PROVE lease'[w].address = cad
    <3>1. CASE 1 \in C
      <4>1. \A j \in C : j <= 1
        BY <2>5, <2>7
      <4> QED
        BY <2>3, <2>4, <3>1, <4>1
    <3>2. CASE 1 \notin C
      BY <2>3, <2>4, <2>5, <2>7, <3>2
    <3> QED
      BY <3>1, <3>2
  <2>8. ASSUME NEW i \in B, \A j \in B : j <= i PROVE queue'[i].address = cad
    <3>1. \A j \in C : j <= i + 1
      BY <2>5, <2>6, <2>8
    <3> QED
      BY <2>3, <2>6, <3>1
  <2>9. ASSUME NEW i \in B, queue'[i].event = "add-lease", \A j \in B : i <= j PROVE lease'[w].address = Nil
    <3>1. i + 1 \in C /\ queue[i + 1].event = "add-lease" /\ i \in 1 .. n
      BY <2>6, <2>9
    <3>2. CASE 1 \in C
      <4>1. 1 < i + 1 /\ \A k \in C : k <= 1 \/ i + 1 <= k
        BY <2>5, <2>6, <2>9, <3>1
      <4> QED
        BY <2>3, <2>4, <3>1, <3>2, <4>1
    <3>3. CASE 1 \notin C
      <4>1. \A j \in C : i + 1 <= j
        BY <2>5, <2>6, <2>9, <3>1, <3>3
      <4> QED
        BY <2>3, <2>4, <3>1, <3>3, <4>1
    <3> QED
      BY <3>2, <3>3
  <2>10. ASSUME NEW i \in B, NEW j \in B, i < j, queue'[j].event = "add-lease", \A k \in B : k <= i \/ j <= k
         PROVE  queue'[i].address = Nil
    <3>1. /\ i + 1 \in C /\ j + 1 \in C /\ queue[j + 1].event = "add-lease" /\ i + 1 < j + 1
          /\ queue'[i] = queue[i + 1] /\ i \in 1 .. n /\ j \in 1 .. n
      BY <2>6, <2>10
    <3>2. \A k \in C : k <= i + 1 \/ j + 1 <= k
      BY <2>5, <2>6, <2>10, <3>1
    <3> QED
      BY <2>3, <3>1, <3>2
  <2> QED
    BY <2>0, <2>1, <2>7, <2>8, <2>9, <2>10
<1>16. ShowsInv'
  <2>1. ASSUME NEW x \in (Addr \X Dev) \ static
        PROVE  /\ x[2] # e.dev => (x \in addrs' <=> x \in addrs) /\ (x \in failed' <=> x \in failed)
               /\ x[2] = e.dev /\ x \notin failed' => (x \in addrs' <=> ad = x[1])
    <3>0. x = <<x[1], x[2]>> /\ x[1] # Nil /\ x[1] \in Addr
      BY DhcpAssumption
    <3>1. x[2] = e.dev /\ x \notin failed => (x \in addrs <=> lease[u].address = x[1])
      BY <1>10, <1>11 DEF ShowsInv
    <3>2. CASE e.event = "renew-lease" /\ UNCHANGED kernel
      BY <1>7, <1>11, <3>1, <3>2 DEF kernel
    <3>3. CASE e.event = "add-lease" /\ AddrAdd(e.address, {e.dev})
      <4>1. TRUE \in BOOLEAN /\ IF TRUE THEN AddrAdd(e.address, {e.dev}) ELSE AddrDel(e.address, {e.dev})
        BY <3>3
      <4>2. /\ <<e.address, e.dev>> \notin failed' => (<<e.address, e.dev>> \in addrs' <=> TRUE)
            /\ x # <<e.address, e.dev>> => (x \in addrs' <=> x \in addrs) /\ (x \in failed' <=> x \in failed)
        BY <1>2, <1>3, <3>3, <4>1, AddrCommand
      <4>3. ad = e.address /\ lease[u].address = Nil
        BY <1>7, <1>11, <1>14, <3>3
      <4> QED
        BY <3>0, <3>1, <4>2, <4>3
    <3>4. CASE e.event = "del-lease" /\ lease[u].address # Nil /\ AddrDel(lease[u].address, {e.dev})
      <4>1. PICK a \in Addr : a = lease[u].address
        BY <1>2, <1>11, <3>4 DEF Lease
      <4>2. FALSE \in BOOLEAN /\ IF FALSE THEN AddrAdd(a, {e.dev}) ELSE AddrDel(a, {e.dev})
        BY <3>4, <4>1
      <4>3. /\ <<a, e.dev>> \notin failed' => (<<a, e.dev>> \in addrs' <=> FALSE)
            /\ x # <<a, e.dev>> => (x \in addrs' <=> x \in addrs) /\ (x \in failed' <=> x \in failed)
        BY <1>2, <1>3, <4>2, AddrCommand
      <4>4. ad = Nil
        BY <1>2, <1>7, <1>11, <3>4
      <4> QED
        BY <3>0, <3>1, <4>1, <4>3, <4>4
    <3>5. CASE e.event = "del-lease" /\ lease[u].address = Nil /\ UNCHANGED kernel
      BY <1>2, <1>7, <1>11, <3>1, <3>5 DEF kernel
    <3> QED
      BY <1>0, <1>11, <3>2, <3>3, <3>4, <3>5, EventEffect
  <2> SUFFICES ASSUME NEW x \in (Addr \X Dev) \ (failed' \cup static)
               PROVE  x \in addrs' <=> \E w \in DhcpItems : lease'[w].address = x[1] /\ ClientDevice(w) = x[2]
    BY <1>1, <1>6, <1>8 DEF ShowsInv
  <2>2. CASE x[2] = e.dev
    BY <1>7, <1>11, <2>1, <2>2
  <2>3. CASE x[2] # e.dev
    <3>1. x \in addrs' <=> \E w \in DhcpItems : lease[w].address = x[1] /\ ClientDevice(w) = x[2]
      BY <1>10, <2>1, <2>3 DEF ShowsInv
    <3>2. \A w \in DhcpItems : ClientDevice(w) = x[2] => lease'[w] = lease[w]
      BY <1>7, <1>8, <1>11, <2>3
    <3> QED
      BY <3>1, <3>2
  <2> QED
    BY <2>2, <2>3
<1> QED
  BY <1>12, <1>15, <1>16 DEF LeaseFlowInv

LEMMA FlowNext ==
    ASSUME IInv, SectionInv, DhcpInv, DhcpInv', LeaseFlowInv, [DhcpNext]_dhcpVars
    PROVE  LeaseFlowInv'
<1> SUFFICES ASSUME Undisturbed' PROVE LeaseFlowInv'
  BY DEF LeaseFlowInv
<1>0. DhcpTypeOK'
  BY DEF DhcpInv
<1>1. ASSUME cf' = cf, lease' = lease PROVE \A w \in Uniq : Kept(w)
  BY <1>1 DEF Kept, ClientDevice, DeviceOf
<1>2. CASE \/ \E p \in Path : \E ci \in Items(p) : DhcpCfAdd(p, ci)
           \/ \E k \in Key : \E ci \in Items(k[1]) : DhcpCfChange(k, ci)
           \/ \E k \in Key : DhcpCfRemove(k)
  <2>1. UNCHANGED kernel
    BY <1>2 DEF DhcpCfAdd, DhcpCfChange, DhcpCfRemove, RouterCfAdd, RouterCfChange, RouterCfRemove
  <2>2. cf' = cf /\ UNCHANGED dhcp
    BY <1>2, BeginDhcp
  <2> QED
    BY <1>0, <1>1, <2>1, <2>2, KernelKeepsAddresses, FlowKept DEF dhcp, kernel
<1>3. CASE (\E c \in Key, f \in Field : DhcpNotify(c, f)) \/ DhcpFinish \/ EventInit \/ UNCHANGED dhcpVars
  <2>1. cf' = cf /\ lease' = lease /\ moved' = moved /\ static' = static /\ UNCHANGED kernel
    BY <1>3, QuietDhcp
  <2>2. client' = client /\ queue' = queue /\ lost' = lost
    BY <1>3 DEF DhcpNotify, DhcpFinish, EventInit, dhcpVars, dhcp
  <2> QED
    BY <1>0, <1>1, <2>1, <2>2, KernelKeepsAddresses, FlowKept DEF kernel
<1>4. CASE DhcpStateChange \/ DhcpReturn
  <2>0. PICK t : t = Top.key
    OBVIOUS
  <2>1. /\ stack # <<>> /\ cf' = cf /\ moved' = moved /\ lost' = lost
        /\ queue' = queue
        /\ \/ lease' = lease /\ client' = client
           \/ t[1] = Dhcp /\ (StartDhcp(t[2]) \/ StopDhcp(t[2]))
    BY <1>4, <2>0 DEF DhcpStateChange, DhcpReturn, RouterStateChange, RouterReturn, StateChange, Return
  <2>2. t \in Key /\ cf[t] # Nil
    BY <2>0, <2>1, TopFrame DEF Top, IInv, StackInv
  <2>3. AddressesKept
    BY <1>4, StepKeepsAddresses
  <2>4. CASE lease' = lease /\ client' = client
    BY <1>0, <1>1, <2>1, <2>3, <2>4, FlowKept
  <2>5. CASE t[1] = Dhcp /\ (StartDhcp(t[2]) \/ StopDhcp(t[2]))
    BY <1>0, <2>1, <2>2, <2>3, <2>5, StartFlow, StopFlow
  <2> QED
    BY <2>1, <2>4, <2>5
<1>5. CASE DhcpInstall \/ DhcpDelete
  <2>1. /\ moved => moved'
        /\ client' = client /\ queue' = queue /\ lost' = lost
        /\ AddressesKept
    BY <1>5, InstallDhcp, DeleteDhcp, KernelKeepsAddresses
  <2>2. \A w \in Uniq : Kept(w)
    BY <1>5, InstallDhcp, DeleteDhcp DEF Undisturbed
  <2> QED
    BY <1>0, <2>1, <2>2, FlowKept
<1>6. ASSUME NEW p \in Proc, ClientDeconfig(p) \/ (\E a \in Addr : ClientBound(p, a)) \/ ClientRenew(p)
      PROVE  LeaseFlowInv'
  BY <1>6, SendFlow
<1>7. CASE EventRecv
  BY <1>7, EventFlow
<1> QED
  BY <1>2, <1>3, <1>4, <1>5, <1>6, <1>7 DEF DhcpNext, DhcpStep

LEMMA FlowInit == DhcpInit => LeaseFlowInv
<1> SUFFICES ASSUME DhcpInit PROVE LeaseFlowInv
  OBVIOUS
<1>1. DhcpItems = {} /\ addrs = {}
  BY DEF DhcpInit, RouterInit, DhcpItems
<1> QED
  BY <1>1 DEF LeaseFlowInv, OwnerInv, ShowsInv, HolderInv, QueueInv

(* Undisturbed, whatever calls and events interleave, what an item shows   *)
(* is in the kernel, and what its client holds and it does not show yet is *)
(* on its way (LeaseFlowInv), with addresses configured beside the leases. *)
THEOREM LeasesFlow == ASSUME Disciplined PROVE DhcpSpec => []LeaseFlowInv
<1>1. IInv /\ SectionInv /\ DhcpInv /\ DhcpInv' /\ LeaseFlowInv /\ [DhcpNext]_dhcpVars => LeaseFlowInv'
  BY FlowNext
<1> QED
  BY <1>1, FlowInit, DhcpEngine, DhcpInvariance, PTL DEF DhcpSpec

(* Undisturbed and with all events handled, the kernel has the addresses   *)
(* that clients hold, beside those that address items named, and every     *)
(* item shows its client's (LeaseAgrees), for any number of interfaces,    *)
(* clients, addresses and events.                                          *)
THEOREM LeasesAgree == ASSUME Disciplined PROVE DhcpSpec => []LeaseAgrees
<1>1. IInv /\ SectionInv /\ DhcpInv /\ LeaseFlowInv => LeaseAgrees
  <2> SUFFICES ASSUME IInv, SectionInv, DhcpInv, LeaseFlowInv, Undisturbed, queue = <<>>
               PROVE  /\ \A x \in (Addr \X Dev) \ (failed \cup static) :
                            (x \in addrs <=> \E p \in Proc : /\ client[p].state = "bound"
                                                             /\ x = <<client[p].address, client[p].dev>>)
                      /\ \A u \in DhcpItems : lease[u].pid # Nil =>
                            lease[u].address = client[lease[u].pid].address
    BY DEF LeaseAgrees
  <2>1. OwnerInv /\ ShowsInv /\ HolderInv /\ QueueInv
    BY DEF LeaseFlowInv
  <2>2. \A u \in DhcpItems : lease[u].pid # Nil => lease[u].address = client[lease[u].pid].address
    <3>1. \A u : Coming(u) = {}
      BY DEF Coming
    <3> QED
      BY <2>1, <3>1 DEF QueueInv
  <2>3. ASSUME NEW x \in Addr \X Dev, NEW u \in DhcpItems, lease[u].address = x[1], ClientDevice(u) = x[2]
        PROVE  \E p \in Proc : client[p].state = "bound" /\ x = <<client[p].address, client[p].dev>>
    <3>1. x[1] # Nil /\ x = <<x[1], x[2]>>
      BY DhcpAssumption
    <3>2. lease[u].pid # Nil /\ lease[u].pid \in Proc
      BY <2>1, <2>3, <3>1, ClientDeviceType DEF HolderInv, Lease
    <3>3. client[lease[u].pid].address = x[1] /\ client[lease[u].pid].dev = x[2]
      BY <2>1, <2>2, <2>3, <3>2 DEF OwnerInv
    <3>4. client[lease[u].pid] \in Client
      BY <3>2 DEF DhcpInv, DhcpTypeOK
    <3>5. client[lease[u].pid].state = "bound"
      BY <3>1, <3>3, <3>4, ClientRecord
    <3> QED
      BY <3>1, <3>2, <3>3, <3>5
  <2>4. ASSUME NEW p \in Proc, client[p].state = "bound"
        PROVE  \E u \in DhcpItems : lease[u].address = client[p].address /\ ClientDevice(u) = client[p].dev
    <3>1. p \in Proc \ Free
      BY <2>4 DEF Free
    <3> QED
      BY <2>2, <3>1, OwnerFacts
  <2>5. ASSUME NEW x \in (Addr \X Dev) \ (failed \cup static)
        PROVE  x \in addrs <=> \E p \in Proc : /\ client[p].state = "bound"
                                               /\ x = <<client[p].address, client[p].dev>>
    <3>1. x \in addrs <=> \E u \in DhcpItems : lease[u].address = x[1] /\ ClientDevice(u) = x[2]
      BY <2>1, <2>5 DEF ShowsInv
    <3> QED
      BY <2>3, <2>4, <3>1
  <2> QED
    BY <2>2, <2>5
<1> QED
  BY <1>1, LeasesFlow, DhcpEngine, DhcpInvariance, PTL

-----------------------------------------------------------------------------
(* What ends the daemon.                                                   *)

\* The event that ends it is that of a process whose device has no item.
LEMMA EventCrash ==
    ASSUME IInv, SectionInv, DhcpInv, EventRecv, daemon' = "crashed", ~moved
    PROVE  \E p \in Proc \ Free : \A u \in DhcpItems : ClientDevice(u) # client[p].dev
<1>0. PICK e, u : e = Head(queue) /\ u = ItemOf(e.dev)
  OBVIOUS
<1>1. queue # <<>> /\ lease[u] = Nil
  BY <1>0 DEF EventRecv
<1>2. queue \in Seq(Event)
  BY DEF DhcpInv, DhcpTypeOK
<1>3. 1 \in 1 .. Len(queue) /\ e = queue[1]
  BY <1>0, <1>1, <1>2
<1>4. PICK p \in Proc \ Free : client[p].dev = e.dev
  BY <1>3 DEF DhcpInv, SenderInv
<1>5. ASSUME NEW w \in DhcpItems, ClientDevice(w) = e.dev PROVE FALSE
  <2>1. u = w
    BY <1>0, <1>5, DeviceClient
  <2> QED
    BY <1>1, <2>1 DEF DhcpItems
<1> QED
  BY <1>4, <1>5

LEMMA CrashNext ==
    ASSUME IInv, SectionInv, DhcpInv, CrashInv, [DhcpNext]_dhcpVars
    PROVE  CrashInv'
<1> SUFFICES ASSUME daemon' = "crashed" PROVE CrashInv'
  BY DEF CrashInv, OnlyOrphansCrash
<1>1. ASSUME cf' = cf, lease' = lease, moved' = moved, edit' = edit, daemon = "crashed",
             \A p \in Proc \ Free : p \in Proc \ Free' /\ client'[p].dev = client[p].dev
      PROVE  CrashInv'
  BY <1>1 DEF CrashInv, OnlyOrphansCrash, Idle, DhcpItems, ClientDevice, DeviceOf
<1>2. CASE EventRecv
  <2>1. /\ cf' = cf /\ moved' = moved /\ Idle' /\ client' = client /\ lease' = lease
    BY <1>2 DEF EventRecv, vars, Idle
  <2>2. Free' = Free /\ DhcpItems' = DhcpItems /\ \A u : ClientDevice(u)' = ClientDevice(u)
    BY <2>1 DEF Free, DhcpItems, ClientDevice, DeviceOf
  <2> QED
    BY <1>2, <2>1, <2>2, EventCrash DEF CrashInv, OnlyOrphansCrash
<1>3. ASSUME NEW p \in Proc, ClientDeconfig(p) \/ (\E a \in Addr : ClientBound(p, a)) \/ ClientRenew(p)
      PROVE  CrashInv'
  <2>1. /\ client[p].state # "none" /\ client'[p].state # "none" /\ client'[p].dev = client[p].dev
        /\ \A q \in Proc : q # p => client'[q] = client[q]
        /\ UNCHANGED <<routerVars, lease, daemon, moved>>
    BY <1>3, ClientSends DEF Send
  <2>2. cf' = cf /\ edit' = edit /\ daemon = "crashed"
    BY <2>1 DEF routerVars, vars
  <2> QED
    BY <1>1, <2>1, <2>2 DEF Free
<1>4. CASE UNCHANGED dhcpVars
  BY <1>1, <1>4 DEF dhcpVars, dhcp, routerVars, vars, Free
<1>5. stack = <<>> \/ ~Idle
  BY DEF IInv, EditInv, Idle
<1>6. CASE DhcpStep
  <2>1. daemon = "crashed"
    BY <1>6 DEF DhcpStep, DhcpStateChange, DhcpNotify, DhcpReturn, DhcpInstall, DhcpDelete, DhcpFinish, dhcp
  <2>2. ~Idle
    <3>1. stack # <<>> \/ edit.phase \in {"down", "up"}
      BY <1>6 DEF DhcpStep, DhcpStateChange, DhcpNotify, DhcpReturn, DhcpInstall, DhcpDelete, DhcpFinish,
                  RouterStateChange, RouterNotify, RouterReturn, RouterInstall, RouterDelete, RouterFinish,
                  StateChange, Notify, Return, Install, Delete, Finish
    <3> QED
      BY <1>5, <3>1 DEF Idle
  <2> QED
    BY <2>1, <2>2 DEF CrashInv
<1>7. CASE \/ \E p \in Path : \E ci \in Items(p) : DhcpCfAdd(p, ci)
           \/ \E k \in Key : \E ci \in Items(k[1]) : DhcpCfChange(k, ci)
           \/ \E k \in Key : DhcpCfRemove(k)
           \/ EventInit
  BY <1>7 DEF DhcpCfAdd, DhcpCfChange, DhcpCfRemove, EventInit, dhcp
<1> QED
  BY <1>2, <1>3, <1>4, <1>6, <1>7 DEF DhcpNext

(* As long as no key is changed, only the event of a client whose item was *)
(* removed can end the daemon (OnlyOrphansCrash), for any interfaces,      *)
(* clients and calls between the events.                                   *)
THEOREM OnlyOrphans == ASSUME Disciplined PROVE DhcpSpec => []OnlyOrphansCrash
<1>1. DhcpInit => CrashInv
  BY DEF DhcpInit, CrashInv, OnlyOrphansCrash
<1>2. IInv /\ SectionInv /\ DhcpInv /\ CrashInv /\ [DhcpNext]_dhcpVars => CrashInv'
  BY CrashNext
<1>3. CrashInv => OnlyOrphansCrash
  BY DEF CrashInv
<1> QED
  BY <1>1, <1>2, <1>3, DhcpEngine, DhcpInvariance, PTL DEF DhcpSpec
=============================================================================
