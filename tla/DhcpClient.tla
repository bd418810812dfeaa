----------------------------- MODULE DhcpClient -----------------------------
(***************************************************************************)
(* The section /ip/dhcp-client (core/dhcp-client.lua), the udhcpc          *)
(* processes it starts, the script scripts/dhcp-lease.lua they run, and    *)
(* the datagram socket of lib/event.lua that carries its events to the     *)
(* daemon.  The hooks run inside a cf_set() of the engine, the events are  *)
(* handled by the main loop between two calls, the processes run at any    *)
(* time.                                                                   *)
(*                                                                         *)
(* The lease fields that the handlers copy are the address and the status; *)
(* the others (gateway, dns, ntp) are set and cleared with the address.    *)
(***************************************************************************)
EXTENDS Router, FiniteSets

CONSTANTS
    Proc,           \* process ids of udhcpc, a bound on the starts
    MaxQueue        \* datagrams the socket holds before sendto() blocks

VARIABLES
    lease,          \* address, status and _pid in the live table, or Nil
    client,         \* every udhcpc: its device, state and address
    queue,          \* datagrams in the event socket
    daemon,         \* "boot" (socket not bound yet), "running" or "crashed"
    lost,           \* history: a datagram found no socket
    moved,          \* history: an interface or a client was given another key
    static          \* history: the addresses that hooks of /ip/address set or removed

dhcp     == <<lease, client, queue, daemon, lost, moved, static>>
dhcpVars == <<routerVars, dhcp>>

Lease  == [address : Addr \cup {Nil}, pid : Proc \cup {Nil},
           status : {"none", "bound", "requesting", "stopped"}]
Event  == [event : {"add-lease", "renew-lease"}, dev : Dev, address : Addr]
          \cup [event : {"del-lease"}, dev : Dev, address : {Nil}]

NoLease  == [address |-> Nil, pid |-> Nil, status |-> "none"]
NoClient == [dev |-> Nil, state |-> "none", address |-> Nil]

Client == {NoClient} \cup [dev : Dev, state : {"started", "searching"}, address : {Nil}]
                     \cup [dev : Dev, state : {"bound"}, address : Addr]

ASSUME DhcpAssumption == Dhcp \in Sections /\ MaxQueue \in Nat /\ Nil \notin Lease \cup Addr \cup Proc

(* The lease fields, the clients and the event queue have their types.     *)
DhcpTypeOK ==
    /\ lease \in [Uniq -> Lease \cup {Nil}]
    /\ client \in [Proc -> Client]
    /\ queue \in Seq(Event) /\ Len(queue) <= MaxQueue
    /\ daemon \in {"boot", "running", "crashed"}
    /\ lost \in BOOLEAN /\ moved \in BOOLEAN
    /\ static \subseteq Addr \X Dev

DhcpInit ==
    /\ RouterInit
    /\ lease = [u \in Uniq |-> Nil]
    /\ client = [p \in Proc |-> NoClient]
    /\ queue = <<>>
    /\ daemon = "boot"
    /\ lost = FALSE /\ moved = FALSE /\ static = {}

Free == {p \in Proc : client[p].state = "none"}

-----------------------------------------------------------------------------
(* The engine's actions with the hooks of this section.                    *)

\* start_dhcp(): a new process.  The calls below leave an id for it.
StartDhcp(u) ==
    LET p    == CHOOSE q \in Free : TRUE
        devs == LookupByName(cf[<<Dhcp, u>>].dep["interface"])
    IN  /\ Free # {}
        /\ client' = [client EXCEPT ![p] =
                         [dev |-> CHOOSE d \in devs : TRUE, state |-> "started", address |-> Nil]]
        /\ lease' = [lease EXCEPT ![u].pid = p]

\* stop_dhcp(): prints that it would kill the process.
StopDhcp(u) ==
    /\ lease' = [lease EXCEPT ![u].pid = Nil, ![u].status = "stopped"]
    /\ UNCHANGED client

\* The address that a hook of item k is about.
Named(k) ==
    IF k[1] = Address THEN {cf[k].data[1]} \X LookupByName(cf[k].dep["interface"]) ELSE {}

DhcpStateChange ==
    /\ RouterStateChange
    /\ IF Starting /\ Top.key[1] = Dhcp
         THEN StartDhcp(Top.key[2]) ELSE UNCHANGED <<lease, client>>
    /\ static' = IF Starting THEN static \cup Named(Top.key) ELSE static
    /\ UNCHANGED <<queue, daemon, lost, moved>>

DhcpNotify(c, f) == RouterNotify(c, f) /\ UNCHANGED dhcp

DhcpReturn ==
    /\ RouterReturn
    /\ IF Top.stop /\ Top.key[1] = Dhcp
         THEN StopDhcp(Top.key[2]) ELSE UNCHANGED <<lease, client>>
    /\ static' = IF Top.stop THEN static \cup Named(Top.key) ELSE static
    /\ UNCHANGED <<queue, daemon, lost, moved>>

\* The lease fields move with the live table of the item.
DhcpInstall ==
    /\ RouterInstall
    /\ lease' = IF edit.new[1] # Dhcp THEN lease
                ELSE [u \in Uniq |->
                         IF u = edit.new[2]
                           THEN IF edit.old # Nil THEN lease[edit.old[2]] ELSE NoLease
                         ELSE IF edit.old = <<Dhcp, u>> THEN Nil
                         ELSE lease[u]]
    /\ moved' = (moved \/ (edit.new[1] # Address /\ edit.old \notin {Nil, edit.new}))
    /\ UNCHANGED <<client, queue, daemon, lost, static>>

DhcpDelete ==
    /\ RouterDelete
    /\ lease' = IF edit.old[1] = Dhcp THEN [lease EXCEPT ![edit.old[2]] = Nil] ELSE lease
    /\ UNCHANGED <<client, queue, daemon, lost, moved, static>>

DhcpFinish == RouterFinish /\ UNCHANGED dhcp

\* Calls that may start a client are bounded by the process ids left.
DhcpCfAdd(p, ci) ==
    daemon # "crashed" /\ Free # {} /\ RouterCfAdd(p, ci) /\ UNCHANGED dhcp

DhcpCfChange(k, ci) ==
    daemon # "crashed" /\ Free # {} /\ RouterCfChange(k, ci) /\ UNCHANGED dhcp

DhcpCfRemove(k) == daemon # "crashed" /\ RouterCfRemove(k) /\ UNCHANGED dhcp

-----------------------------------------------------------------------------
(* udhcpc and its script, external: a datagram sent while no daemon has    *)
(* the socket is lost, one sent to a full socket waits.                    *)

Send(ev, p) ==
    /\ IF daemon = "running"
         THEN /\ Len(queue) < MaxQueue
              /\ queue' = Append(queue, [event |-> ev, dev |-> client[p].dev,
                                         address |-> client'[p].address])
              /\ UNCHANGED lost
         ELSE /\ lost' = TRUE
              /\ UNCHANGED queue
    /\ UNCHANGED <<routerVars, lease, daemon, moved, static>>

\* "deconfig", when it starts and when the lease is lost.
ClientDeconfig(p) ==
    /\ client[p].state \in {"started", "bound"}
    /\ client' = [client EXCEPT ![p] = [dev |-> @.dev, state |-> "searching", address |-> Nil]]
    /\ Send("del-lease", p)

ClientBound(p, a) ==
    /\ client[p].state = "searching"
    /\ client' = [client EXCEPT ![p] = [dev |-> @.dev, state |-> "bound", address |-> a]]
    /\ Send("add-lease", p)

ClientRenew(p) ==
    /\ client[p].state = "bound"
    /\ client' = client
    /\ Send("renew-lease", p)

-----------------------------------------------------------------------------
(* lib/event.lua: init() and event_recv() with the handlers.               *)

EventInit ==
    /\ Idle /\ daemon = "boot"
    /\ daemon' = "running"
    /\ UNCHANGED <<routerVars, lease, client, queue, lost, moved, static>>

\* lookupbydev(): live[...] of a key that has no item is nil.
ItemOf(dev) == IF ifLookup[dev] # Nil THEN ifLookup[dev] ELSE Unknown

\* Mutant: the address is given to the kernel only.
AddUnrecorded(u, e) ==
    /\ lease' = [lease EXCEPT ![u].status = "bound"]
    /\ AddrAdd(e.address, {e.dev})

AddLease(u, e) ==
    /\ lease' = [lease EXCEPT ![u].address = e.address, ![u].status = "bound"]
    /\ AddrAdd(e.address, {e.dev})

\* Mutant: the address is cleared before it is used.
DelCleared(u, e) ==
    /\ lease' = [lease EXCEPT ![u].address = Nil]
    /\ UNCHANGED kernel

\* Mutant: a stopped client's lease stays in the table.
DelKeepsStopped(u, e) ==
    /\ IF lease[u].address # Nil THEN AddrDel(lease[u].address, {e.dev}) ELSE UNCHANGED kernel
    /\ lease' = IF lease[u].pid = Nil THEN lease
                ELSE [lease EXCEPT ![u].address = Nil, ![u].status = "requesting"]

\* Mutant: the status goes with the address.
DelNoStatus(u, e) ==
    /\ IF lease[u].address # Nil THEN AddrDel(lease[u].address, {e.dev}) ELSE UNCHANGED kernel
    /\ lease' = [lease EXCEPT ![u].address = Nil, ![u].status = Nil]

DelLease(u, e) ==
    /\ IF lease[u].address # Nil THEN AddrDel(lease[u].address, {e.dev}) ELSE UNCHANGED kernel
    /\ lease' = [lease EXCEPT ![u].address = Nil,
                              ![u].status = IF lease[u].pid # Nil THEN "requesting" ELSE @]

\* An event no handler is registered for is ignored; a handler that finds no
\* item indexes nil, and the error ends the daemon.
EventRecv ==
    /\ Idle /\ daemon = "running" /\ queue # <<>>
    /\ queue' = Tail(queue)
    /\ LET e == Head(queue)
           u == ItemOf(e.dev)
       IN  IF e.event = "renew-lease"
             THEN UNCHANGED <<lease, kernel, daemon>>
           ELSE IF lease[u] = Nil
             THEN daemon' = "crashed" /\ UNCHANGED <<lease, kernel>>
           ELSE /\ IF e.event = "add-lease" THEN AddLease(u, e) ELSE DelLease(u, e)
                /\ UNCHANGED daemon
    /\ UNCHANGED <<vars, mirror, client, lost, moved, static>>

\* The steps of the call under way.
DhcpStep ==
    \/ DhcpStateChange
    \/ \E c \in Key, f \in Field : DhcpNotify(c, f)
    \/ DhcpReturn
    \/ DhcpInstall
    \/ DhcpDelete
    \/ DhcpFinish

DhcpNext ==
    \/ \E p \in Path : \E ci \in Items(p) : DhcpCfAdd(p, ci)
    \/ \E k \in Key : \E ci \in Items(k[1]) : DhcpCfChange(k, ci)
    \/ \E k \in Key : DhcpCfRemove(k)
    \/ DhcpStep
    \/ \E p \in Proc : ClientDeconfig(p)
    \/ \E p \in Proc, a \in Addr : ClientBound(p, a)
    \/ \E p \in Proc : ClientRenew(p)
    \/ EventInit
    \/ EventRecv

DhcpSpec == DhcpInit /\ [][DhcpNext]_dhcpVars

\* The main loop serves every ready descriptor in each turn.
DhcpFairSpec ==
    /\ DhcpSpec
    /\ WF_dhcpVars(DhcpStep)
    /\ SF_dhcpVars(EventRecv)

-----------------------------------------------------------------------------
(* Properties.                                                             *)

DhcpItems == {u \in Uniq : lease[u] # Nil}

\* Every process that runs is the one its item knows of.
NoOrphan ==
    \A p \in Proc \ Free : \E u \in DhcpItems : lease[u].pid = p

\* The device an item is for.
ClientDevice(u) == DeviceOf(cf[<<Ethernet, cf[<<Dhcp, u>>].dep["interface"]>>])

(* As long as interfaces keep their names and clients their interfaces,    *)
(* the address an item shows is in every state one its device has, unless  *)
(* the command that adds it failed or an item of /ip/address named it too  *)
(* (its stop hook removes it), also while clients that were told to stop   *)
(* go on sending events: every event reaches the item of its device.       *)
ShownIsInKernel ==
    ~moved => \A u \in DhcpItems : lease[u].address # Nil =>
        <<lease[u].address, ClientDevice(u)>> \in addrs \cup failed \cup static

\* No event was lost, no key was changed, no stopped client runs on.
Undisturbed == ~lost /\ ~moved /\ NoOrphan

(* Undisturbed, once all events are handled, the kernel has exactly the    *)
(* addresses that clients hold, but for those a failed command was about   *)
(* or an address item named, and every item shows its client's, however    *)
(* calls and events interleave.                                            *)
LeaseAgrees ==
    Undisturbed /\ queue = <<>> =>
        /\ \A x \in (Addr \X Dev) \ (failed \cup static) :
              (x \in addrs <=> \E p \in Proc : client[p].state = "bound" /\ x = <<client[p].address, client[p].dev>>)
        /\ \A u \in DhcpItems : lease[u].pid # Nil => lease[u].address = client[lease[u].pid].address

(* As long as no key is changed, a lease event ends the daemon only when a *)
(* client runs on after its item was removed: an item that is disabled, or *)
(* removed and added again, is found by the events of every client of its  *)
(* device, however these cross the calls that stop, remove and add it.     *)
OnlyOrphansCrash ==
    daemon = "crashed" => moved \/ \E p \in Proc \ Free : \A u \in DhcpItems : ClientDevice(u) # client[p].dev

(* Every lease event finds the item it is about ("so that we can map from  *)
(* interface events back to the correct item in the cf",                   *)
(* core/interface.lua:21).                                                 *)
EventFindsItem == daemon # "crashed"

(* A client that holds a lease is eventually shown with its address,       *)
(* unless it loses the lease or is stopped first, an event was sent before *)
(* the daemon listened, or a key was changed.                              *)
LeaseShown ==
    \A p \in Proc :
        client[p].state = "bound" ~>
            (client[p].state # "bound" \/ ~NoOrphan \/ lost \/ moved
             \/ \E u \in DhcpItems : lease[u].pid = p /\ lease[u].address = client[p].address)

-----------------------------------------------------------------------------
(* The inductive invariant behind the safety properties, beside those of   *)
(* the engine and the router.                                              *)

\* The lease fields are there exactly for the items.
LeaseInv == \A u \in Uniq : lease[u] # Nil <=> cf[<<Dhcp, u>>] # Nil

\* The key of a client is its interface until one of them is moved.
KeyInv == ~moved => \A u \in DhcpItems : cf[<<Dhcp, u>>].dep["interface"] = u

NewKeyInv ==
    edit.phase = "down" /\ edit.new # Nil /\ edit.new[1] = Dhcp =>
        edit.new[2] = edit.ci.dep["interface"]

\* An event is that of a process; processes are never told to end.
SenderInv == \A i \in 1 .. Len(queue) : \E p \in Proc \ Free : client[p].dev = queue[i].dev

DhcpInv ==
    /\ DhcpTypeOK
    /\ LeaseInv
    /\ KeyInv
    /\ NewKeyInv
    /\ SenderInv

\* No call is under way when an event ends the daemon.
CrashInv == (daemon = "crashed" => Idle) /\ OnlyOrphansCrash

\* A client is known to one item and is for that item's device.
OwnerInv ==
    \A u \in DhcpItems : lease[u].pid # Nil =>
        /\ client[lease[u].pid].state # "none" /\ client[lease[u].pid].dev = ClientDevice(u)
        /\ \A w \in DhcpItems : lease[w].pid = lease[u].pid => w = u

\* The kernel has the addresses that the items show.
ShowsInv ==
    \A x \in (Addr \X Dev) \ (failed \cup static) :
        (x \in addrs <=> \E u \in DhcpItems : lease[u].address = x[1] /\ ClientDevice(u) = x[2])

\* An address shown is that of a client.
HolderInv == \A u \in DhcpItems : lease[u].address # Nil => lease[u].pid # Nil

\* The events on their way to item u that matter to it.
Coming(u) == {i \in 1 .. Len(queue) : queue[i].dev = ClientDevice(u) /\ queue[i].event # "renew-lease"}

\* The last of them, or the item, has the client's address; an address comes
\* only after one that was taken away.
QueueInv ==
    \A u \in DhcpItems : lease[u].pid # Nil =>
        /\ Coming(u) = {} => lease[u].address = client[lease[u].pid].address
        /\ \A i \in Coming(u) :
            /\ (\A j \in Coming(u) : j <= i) => queue[i].address = client[lease[u].pid].address
            /\ queue[i].event = "add-lease" /\ (\A j \in Coming(u) : i <= j) => lease[u].address = Nil
            /\ \A j \in Coming(u) :
                  i < j /\ queue[j].event = "add-lease" /\ (\A k \in Coming(u) : k <= i \/ j <= k)
                      => queue[i].address = Nil

(* Undisturbed, at any moment of a call and with any events on their way:  *)
(* each client is known to one item, which shows an address only while it  *)
(* has a client and exactly when the kernel has it, and the events still   *)
(* in the socket lead from what the item shows to what its client holds.   *)
LeaseFlowInv ==
    Undisturbed =>
        /\ OwnerInv
        /\ ShowsInv
        /\ HolderInv
        /\ QueueInv
=============================================================================
