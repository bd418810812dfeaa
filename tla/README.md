# OpenTik in TLA+

OpenTik is a router operating system in the style of RouterOS. Its own code is
the Lua daemon under `lua/`: a configuration engine (`lib/cf.lua`), the
sections that use it (`core/*.lua`), an event socket, a CLI server, and the
script `go` that boots it and runs the main loop. `buildroot/` and `support/`
are third-party; `old/`, `lua/g2` and `lua/t*` are earlier versions and
experiments. This directory models the daemon, checks the models with TLC and
proves with TLAPS, for every value of the constants, all the invariants and both
refinements that the passing runs check. Source paths below are relative to
`lua/`.

## 1. Inventory

| component | state | operations | talks to | what is hard |
|---|---|---|---|---|
| engine, `lib/cf.lua` | per section: `cf`, `live` (`_backed`, `_invalid`, `_dependable`), `dependents` | `cf_set` (add, change, rename, remove), `live_set`, `state_change` (recursive), `cf_register` | calls hooks of sections | one call runs many hooks, each seeing half-updated tables; diamonds in the dependency graph; keys that change |
| interfaces, `core/interface.lua`, `core/ethernet.lua` | mirror section `/interface`, `_if_lookup` | start/stop hooks, `ci_postprocess`, `lookupbyname`, `lookupbydev` | engine, `ip` command | hooks resolve names while a rename is under way |
| addresses, `core/address.lua` | keys `address@interface` | start/stop hooks | interfaces, `ip` command | derived keys go stale |
| DHCP client, `core/dhcp-client.lua`, `scripts/dhcp-lease.lua` | lease fields and `_pid` in `live` | start/stop hooks, `add-lease`, `del-lease` events | udhcpc processes, event socket | processes run concurrently with the daemon; late and lost events |
| routes, `core/route.lua` | configured, dynamic and external routes, `active` and `static` flags | `route_list`, `system_routes` | engine, kernel table | arbitrary visiting order, leftovers of earlier calls |
| event socket and main loop, `lib/event.lua`, `go` | table of descriptors, datagram queue | `init`, `send`, `event_recv`, `poll` | all handlers | boot order; descriptors added and removed while they are visited |
| CLI server, `lib/cli.lua` | per connection: `want`, `template`, `clisize`, `inbuf`, `outbuf` | `io_callback`, `send`, `size_encode`, `size_decode`, `cli_accept` | main loop, clients | partial reads and writes, size boundaries |
| processes, `lib/run.lua` | pipes, children | `execute`, `background` | `ip`, udhcpc | forks, early exits, pipes never closed |
| files and helpers, `lib/file.lua`, `lib/util.lua`, `lib/lib.lua`, `lib/ip.lua` | none | templates, serialisation, loading, `ip` commands | | text |

What makes each correct: the engine leaves every item up exactly when it is
enabled and everything it refers to is up, and never runs a back-end on a dead
parent in between; the kernel has exactly the links and addresses of the items
that are up; leases shown are leases held; the active route is the shortest;
messages cross the CLI socket whole and in order; the main loop never blocks and
serves whoever is ready; a command's result is that command's, and a daemon's
pid is that daemon's. `PROJECT.json` lists the
hazards line by line with the properties that cover them.

## 2. Modules and how they correspond to the code

| module | models | lines of reasoning |
|---|---|---|
| `CfEngine` | the engine of `lib/cf.lua` | state machine and properties |
| `Supervisor` | abstract: services kept up in the order of their needs | `CfEngine` implements it |
| `CfEngineInv` | its inductive invariants `IInv`, `PhaseInv` | definitions shared by TLC and the proofs |
| `CfEngineProofs`, `SupervisorProofs` | | proofs about `CfEngine`; that it implements `Supervisor` |
| `Router` | interfaces, addresses, mirror and kernel, on top of `CfEngine` | each action is an engine action plus its hooks |
| `RouterProofs` | | a router is an engine; proofs about `Router` |
| `DhcpClient` | DHCP section, udhcpc, event socket, on top of `Router` | each action is a router action plus its hooks, or a step of another process |
| `DhcpProofs` | | proofs about `DhcpClient`, on top of those about `Router` |
| `Routes`, `RoutesProofs` | `core/route.lua` with `live_set` | state machine; proofs |
| `SizeCodec` | `size_encode`, `size_decode` | operators |
| `Channel` | abstract: a FIFO of whole messages | |
| `CliStream` | one connection of `lib/cli.lua` | implements `Channel` |
| `CliStreamProofs` | | proofs about `CliStream` and that the size coding is inverse |
| `MainLoop`, `MainLoopProofs` | `poll()` of `lib/event.lua` with all its callbacks, and `cli_accept` | state machine; proofs |
| `Processes`, `ProcessesProofs` | `execute()` and `background()` of `lib/run.lua`, their children, pipes and descriptors | state machine; proofs |
| `MC*` | small instances for TLC | |

**CfEngine.** A key is a pair of section and `uniq`; `cf` maps it to an item or
`Nil`, `live` to its three flags, `dependents` to a set of (child, field)
entries. `backend` is what the start and stop hooks really did, kept apart from
`_backed`, which is only the engine's record of it. The program has one thread,
but its hooks observe the tables in the middle of a call, so a call is executed
in steps: `edit` is the `cf_set()` under way (phase `down` until the new item
is installed, then `up`), and `stack` is the Lua call stack of `state_change()`.

| action | code |
|---|---|
| `CfAdd`, `CfChange`, `CfRemove` | `cf_set` up to the call of `state_change`: build the item and key, check that dependencies exist, drop registrations |
| `StateChange` | `state_change` up to its loop: validity, start hook, flags, whom to notify |
| `Notify` | one turn of the loop: `dependency_change` when the item is going, then the recursive call |
| `Return` | the stop hook and the return |
| `Install`, `Delete` | the rest of `cf_set` between its two `state_change` calls: move the tables, repoint dependents, register; or remove the item |
| `Finish` | the end of `cf_set` |

`live._dependable` is `true` or `nil` while the value it is compared with is
`true` or `false`; so an item that stays down always counts as changed and
notifies its dependents again. `Changed` keeps this, and `Settled` depends on it.

An item is a total record, as readers see it through the defaults metatable;
`copy_of`, the loop over the new fields and `prune_defaults` produce some
member of `Items(path)`. The dependents list is a set, notified in any order.
`Disciplined` says that callers reuse no key and never take the name
"unknown"; the engine checks neither, and `router_stale_key` shows with
`Disciplined = FALSE` what happens then. A call that names an item that is not there is an
error of the caller and left out.

**Supervisor.** What the engine promises to back-ends, with no trace of its
flags, stack or notifications: in a change services first only stop, each after
those that need it, then the one item is rewired while it is down, then
services only start, each after those it needs, and a change may end only when
everything is up that can be. The refinement mapping takes `up` from what the
hooks did (`backend`), `phase` from the call, `needs` from the dependents tables
(plus the references of the item that is unregistered while it goes down) and
`wanted` from the items. That no back-end is started or stopped twice in a call
is part of it.

**Router.** `mirrorCf` and `mirrorLive` are the two tables of `/interface`,
`ifLookup` is `_if_lookup`, `link` and `addrs` are the kernel. `MirrorMove`
copies the mirror exactly where `cf_set` does, so the old live entry survives a
rename. Commands on the device "unknown" fail without effect. Any other `ip`
command may fail too, up to `MaxFailures` times; the hooks do not look at the
status, so the engine goes on as if it had succeeded, and `failed` remembers
what the failed commands were about. Interfaces are
set up once per device and keep it, as the calls in `core/ethernet.lua` do, and
are never deleted (`can-delete = false` there). `RouterAssumption` says that the
engine below is given exactly these sections. `StaticAddr` are the addresses
that callers configure.

**DhcpClient.** A udhcpc sends `del-lease` when it starts and when it loses its
lease, `add-lease` when it is bound and `renew-lease` when it renews, which has
no handler. The daemon starts in `boot`, as in `go`, which configures the client
before `event.init()`; a datagram sent until then is lost (`lost` remembers it),
one sent to a full socket waits. Events are handled between two calls. `stop_dhcp` forgets the pid
and kills nothing. A handler that finds no item indexes `nil`, and nothing
catches the error: the daemon is `crashed`. Besides `lost` two things
disturb a lease: `moved` remembers that an interface was renamed or a client given
another interface, so that keys change or go stale; and `NoOrphan` fails when a
client runs on after its item was stopped. `Undisturbed` excludes these and
`lost`, and no more: it says nothing about calls under way, about the events in
the socket or about failed commands. Address items are configured beside the
clients, as `go` does. The stop hook of an address item removes its address from
the device though it may be leased as well (and `add-lease` adds what may be
configured), so `static` remembers the addresses such hooks were about, and what
the properties say of the kernel they say of the others.

**Routes.** A destination stands for `dst-address@routing-mark`, the text by which
routes are matched; the comments at `route.lua:123` and `131` add the type, the
code does not, so routes of different types compete. The kernel may have several
routes to a destination (`system`), which differ in metric, tos or type;
`system_routes()` stores each line under that text, and so keeps the last one
(`Kept`, any of them, as `ip` orders them). A connected route can thus be hidden by another.
`ActiveIsShortest` and `ExternalExact` say what is true with respect to the line
kept. `route_list()`
is executed one turn of a loop per action: `ListBegin` reads the kernel's table
(`found`), `Choose` visits one route, in any order as `pairs()` does, `Activate`
one chosen route, `Import` one kernel route. The kernel's table may change in
between; `listed` says that it has not since it was read, nor the configuration,
and the properties speak of such states after the call (`UpToDate`). Routes get
a new random key at every change, hence the symmetry of keys.

**CliStream.** A byte is a pair that tells which message it belongs to, so
mixing up messages is visible. `stream` is all the client sent, `starts` where
each message begins in it, `taken` how much of it was read; `queued` is all that
was ever given to `send`. `Reads(n)` is the read, `ReadPart`, `ReadFirst`,
`ReadSize`, `ReadData`, `ReadEnd` are the ways through the IN half of
`io_callback`, `Write` is the OUT half. The socket holds `Room` bytes until the
client reads them (`unread`), which it need not do. The descriptor blocks, so a
`write()` that finds less room than it needs waits (`writing`), and the whole daemon
with it: nothing is read or sent meanwhile. `SizeDecode` returns nothing for a
first byte above 0xF7, as the code does; the clients of this module send
well-formed frames, and what the others do to the daemon is in `MainLoop`.

**MainLoop.** `fds` is the table of that name: callback and `revents` per
descriptor. Descriptors are numbers, handed out lowest first as the kernel does,
so that one closed during a walk can be accepted again in it. `Poll` sets all
`revents`; then `walk` is what `pairs()` has still to come to, and each callback
is one action. `cli_accept` adds an entry during the walk, which Lua leaves
undefined. The other entries keep their places when the place of the new key is
free or taken by a key that belongs there; else `luaH_newkey` of Lua 5.3 moves the
key that does not belong there to a free place, and a full table is rebuilt. The
walk then continues from the place of the current key, so that `CliAccept` leaves
any part of the table to come (`moved`, until the end of the walk). With the event
socket at 5, the CLI socket at 9 and a connection at 6 in a table of four,
accepting 7 moves 9 in front of 5, and 5 comes a second time; with 6 and 8 in a
table of two, accepting 7 rebuilds it and 6 comes after 8 again. A callback that
reads while nothing waits blocks the daemon (`Blocks`; the event socket and the
connections block, the listening socket does not) until something arrives. A
callback can also raise an error, which nothing catches: `EventRaises` when a
datagram does not parse or its handler finds no item, `IoCallbackRaises` at a first
byte above 0xF7, `AcceptFails` when `accept()` returns `nil`. `stuck` is the
descriptor whose callback did not return.

**Processes.** A process is at a place in `run.lua` or is the program it became;
its end makes it a zombie until its parent waits, or hands it to init. The lines
a command writes are numbered (`Line(n)`), so that a lost, doubled or misplaced
line is visible; `Own` is a line of a traceback. The output pipe has a capacity and reaches its end when no writer is left. The
program's open descriptors are counted: `execute` gives back what it takes,
`background` keeps the read end for good. With stdin the intermediate child runs
on into the parent's code after feeding, fails there on the closed descriptor,
writes a traceback into the output and exits with 1 (`FallThrough`); this is why
`ResultIsCommands` claims for the call `execute_stdin` only that the command's
lines are all there and in order, and that nothing else is returned, and the
right status, only for `execute`. `fork`, `exec`, `setpid` and
`chdir` may fail (`Faults`).

## 3. Runs

`engine`, `router`, `dhcp` and `main_loop` take one to two minutes each on two
cores, the others a minute at most.

| run | instance | states | checks |
|---|---|---|---|
| `engine` | 2 interfaces, 1 address, 2 random keys for items that refer to both kinds | 724769 | `TypeOK`, `DependentsExact`, `Settled`, `BackendOrder`, `BackedIsTrue`, `CalleeExists`, `Supervises`, `CfSetReturns` |
| `router` | 3 names, 2 devices, 1 address, 1 failing command | 651421 | `RouterTypeOK`, `KernelAgrees`, `AddressOnUpLink`, `MirrorAgrees`, `IInv` |
| `dhcp` | 1 device, 2 addresses, one of which is configured too, 2 processes, 2 datagrams | 374073 | `DhcpTypeOK`, `LeaseAgrees`, `ShownIsInKernel`, `OnlyOrphansCrash`, `LeaseFlowInv`, `LeaseShown` |
| `routes` | 4 keys, up to 2 own routes of 2 distances, 2 destinations, up to 2 kernel routes to each | 614990 | `RouteTypeOK`, `ActiveIsShortest`, `ExternalExact` |
| `cli` | 3 messages of 0, 1 and 128 bytes, pieces of 50, 127 bytes or all; 2 replies of 0 and 1 bytes, a socket of 1 byte | 52839 | `CliTypeOK`, `NothingSkipped`, `ImplementsChannel`, `MessageArrives`, `RepliesExact`, `RepliesLeave` |
| `processes` | 4 process ids, 2 lines of input and output, pipes of 1 line, 3 descriptors, 2 daemons | 22413 | `ProcessTypeOK`, `ResultIsCommands`, `PidIsDaemons`, `NoChildLeft`, `DiesOnlyOfFault`, `CallReturns` |
| `main_loop` | 4 descriptors, 1 piece waiting on each | 287730 | `LoopTypeOK`, `TableMatches`, `NeverBlocks`, `AcceptFailsOnlyAtLimit`, `ServedUnlessMoved` |

Why the bounds are enough. `engine` has a diamond (the third section refers to
an interface directly and through an address), two interfaces a reference can
move between or a name to rename one to, and two items that depend on the same
parents: every case of `cf_set` and every order of notification occurs. The
sections share names, as keys only have to differ within a section. Three names for two devices let a name be freed and
reused, and one failing command can be any of the commands of a history.
Two processes and two datagrams are the least with which a stopped
client's events mix with a new one's; one address is both leased and configured,
the other only leased. Commands that fail are left to `router` and to the proofs,
which have both. Two routes of two distances give a tie
or a longer and a shorter one in both orders; two destinations show that they do
not interfere; four keys leave room for the external routes of both; the kernel's
routes to a destination are none, a connected one, another, or both.
128 bytes is the first length with a two-byte size, and arrives in up to three pieces;
sizes of three to five bytes follow the same path of `io_callback`, and their
coding is proved. The frame of a reply of one byte needs more room than the socket
has, so writes wait. Two lines through a pipe that holds one make writers wait;
four process ids are a call's two processes, a daemon of an earlier call and one
id to be used again; three descriptors are used up by two daemons. Four
descriptors hold both sockets and two connections, so that one can close and
another take its number in one walk, and a further client meets the limit.

Deadlock is checked except in `cli`, `main_loop` and `processes`: a connection
ends, a daemon that nobody talks to waits in `poll()` or, once it met an error,
is dead.

**Fairness.** `FairSpec` of the engine and `DhcpFairSpec` assume that a call that
has begun goes on: there is one thread and no step of it blocks on another.
Events are handled under strong fairness, because a caller may keep starting
calls, but the main loop serves every ready descriptor in each turn, which
`ServedUnlessMoved` checks in `main_loop` and `main_loop_moved` limits. There only
the loop itself is assumed to go on. `CliFairSpec` assumes that the main loop calls back a connection that is readable,
or has room for what is queued. In `processes` the kernel schedules every process that can run,
and a command ends; that a call returns (`CallReturns`) is what makes the first
assumption true of hooks that run commands. Nothing is assumed of clients,
udhcpc or users: a client may stop reading, and `MessageArrives` and `RepliesLeave`
say what then does not happen.

### Disagreements found

| run | what happens |
|---|---|
| `router_stale_key` | after a rename `address@oldname` is still the key; adding that address on the interface that now has the name overwrites the item, and the first address stays in the kernel |
| `dhcp_renamed` | a lease event after a rename finds no item and ends the daemon |
| `routes_disabled` | a disabled route is made active |
| `processes_leak` | every start of a DHCP client keeps one descriptor; at the limit the next start ends the daemon |
| `main_loop_moved` | a connection accepted while the table is walked can move its entries and make the walk call the event socket again, and the daemon blocks until the next event |

Each quotes the line it contradicts in `PROJECT.json`. More are visible in the
modules without a run of their own:

* `StopDhcp` leaves the process running, which the comment above `stop_dhcp`
  says it kills, so a restart makes two clients on one device (`LeaseAgrees`
  speaks of states without such an orphan);
* `go` starts the client before it binds the event socket, so the first lease
  can be lost for good (`LeaseAgrees` and `LeaseShown` say `~lost`);
* `MirrorMove` keeps the live entry of a renamed interface in `/interface`;
* a failed start is recorded as done (`failed` in `KernelAgrees`), where the
  comment above `state_change` says the back-end should be up;
* a first byte above 0xF7 on the CLI socket, a datagram that does not parse and a
  lease event without its item each end the daemon (`IoCallbackRaises`,
  `EventRaises`);
* a client that does not read would stop the daemon in `write()` (`writing`; today
  nothing is queued, as `send` has no caller);
* the last line `ip` shows for a destination hides the others, a connected route
  included (`Kept`), and routes of different types compete, where the comment at
  `route.lua:123` counts them separately;
* removing or disabling an address item takes a leased address off its device
  when it is the same (`static`), while the client goes on showing it;
* with stdin `execute` returns the status of the wrong process and a traceback
  among the output;
* removing an interface, were it allowed, would point its addresses to
  "unknown" before their stop hook could find the device.

## 4. Proofs

A property that needs several steps to violate is seldom inductive, so each
module has an invariant that is: what the step under way still owes, or how far
it has come. There is one lemma per action, under it one step per part that the
action can disturb, and the properties follow from the invariant.

### The engine: `CfEngineProofs`, `SupervisorProofs`

For every set of sections, keys and items and every acyclic dependency table,
`ASSUME Disciplined PROVE Spec => []P` for `P` each of `IInv`, `TypeOK`,
`BackendOrder`, `BackedIsTrue`, `DependentsExact`, `Settled` and `CalleeExists`.
The assumptions are `ConstantsAssumption` (types of the constants) and
`AcyclicAssumption` (sections have a rank that decreases along dependencies).
`Disciplined` is necessary: `router_stale_key` shows an overwritten item whose
back-end stays up.

In the middle of a call an item may be up on a parent that is down, or down
though everything it needs is up. `IInv` says what the call still owes it:

* `EditInv`, `StackInv`: the call record fits the tables; the stack starts at
  the item of the call, its ranks increase strictly (so no item is on it
  twice), and what a frame still has to notify is registered with its item;
* `TablesInv`, `RegisterInv`: `cf` and `live` have the same keys; an entry in
  `dependents` is a reference and the other way round, except for the item
  that is unregistered during the call and the children already pointed to
  "unknown";
* `FlagsInv`, `HeldInv`, `StopInv`: `_backed` means dependable or about to be
  stopped by a frame on the stack; the item of the call is held down;
* `DownInv`: a dependable item whose parent is not has a frame that will tell it;
* `UpInv`: an enabled item that is not dependable has a parent that is not
  either, or a frame that will tell it.

When the call is over the stack is empty, nothing is owed, and `DownInv` with
`UpInv` is `Settled`. `BackendOrder` follows step by step: a start happens only
when all parents are dependable, a stop only in `Return`, when every dependent
has been told.

`EngineSupervises` is the refinement, `Spec => Supervises`. `IInv` does not say
in which direction a call is going, so `PhaseInv` adds it. `ShutInv`: until the
item is installed, whatever a frame has looked at is down, and whoever is called
next has lost a parent, so nothing starts. `StartInv`: afterwards what is
dependable has all its parents and no frame will stop anything. With them every
engine step is a start, a stop, the rewiring, the end of a call or a stutter of
the supervisor.

### The router: `RouterProofs`

`RouterIsEngine`: every behaviour of the router is one of the engine, so all of
the above holds of it. On top, for any names, devices and addresses and any
number of failing commands: `RouterTypeOK`, `MirrorAgrees`, `KernelAgrees`,
`AddressOnUpLink`. `KernelAgrees` alone is not inductive, because whether a stop
hook removes the right address depends on the mirror, on the item being the only
one with that address, and on its interface. `RouterInv` adds `ShapeInv` (items
are of their section, an interface's key is its name), `ReferenceInv` (the
interface an item refers to is there), `DistinctInv` (no address twice on an
interface), `CallInv` (the same of the item a call is about to install) and
`ParentInv` (an item that is up has its interface up, also while it is
unregistered). `SectionInv` is the part that also holds when DHCP clients change
the kernel's addresses. `RouterAssumption` and `Disciplined` are assumed.

### The DHCP client: `DhcpProofs`

`DhcpIsEngine` again makes every behaviour one of the engine, and `SectionInv`
holds, `MirrorAgrees` included. `DhcpInv` says that lease fields are there
exactly for the items (`LeaseInv`), that until something is moved the key of
a client is its interface (`KeyInv`, `NewKeyInv`), and that an event is for the
device of a process that runs (`SenderInv`); `DhcpTypeOK` and `ShownIsInKernel`
follow. `CrashInv` adds that no call is under way once an event has ended the
daemon, so that the client which sent it still has no item: `OnlyOrphansCrash`.

`LeaseAgrees` speaks of states in which all events are handled, so its
invariant has to say what is on the way. `LeaseFlowInv`: a client is known to one
item and is for that item's device (`OwnerInv`); the kernel has the addresses
that are shown (`ShowsInv`); an address shown belongs to a process
that runs (`HolderInv`); and of the events in the socket for an
item's device the last one, or the item if there is none, has the address of the
client, and an address follows only on one taken away (`QueueInv`). It
rests on two facts: a stopped client never becomes known again, so that
`Undisturbed` after a step implies it before; and undisturbed a device has at
most one client, so all its events are that client's. `LeaseAgrees` is a
consequence. All these theorems hold with `/ip/address` loaded, as `go` loads it,
and with failing commands, and assume `Disciplined` and nothing else of callers.

### The other components

* `RoutesProofs`: `RouteTypeOK`, `ActiveIsShortest` and `ExternalExact` for any
  number of routes, destinations and calls. The parts of `RouteInv` are the
  invariants of the three loops: the best of the visited routes is chosen
  (`ChoiceInv`, with respect to what `system_routes()` kept), what was visited is
  cleared of earlier calls (`ClearInv`), the
  chosen ones that were visited are active (`ActivateInv`), the kernel's that
  were visited are shown once each (`ImportInv`). No induction over the order of
  the visits is needed, because each turn is a step. Assumed: distances are
  between 1 and 255, and the names of constants differ.
* `CliStreamProofs`: `CliTypeOK`, `NothingSkipped`, `RepliesExact` and the
  refinement `ImplementsChannel`, for any lengths below 2^32 (which
  `string.pack` enforces, `CliAssumption`), any pieces and any number of
  messages. `StreamInv` says that the stream is the frames of the messages one
  after the other, by positions instead of a concatenation, which would need
  induction; `PositionInv` says where in the frame of the message under way
  `io_callback` is, from its four fields. `RoundTrip`: for every length below
  2^32 the first byte tells exactly how many bytes follow, and unpacking gives
  the length back.
* `ProcessesProofs`: `ProcessTypeOK`, `ResultIsCommands`, `PidIsDaemons`,
  `NoChildLeft` and `DiesOnlyOfFault` for any number of process ids, lines,
  descriptors and any capacity of the pipes. `ProcessInv` says which process can
  be where in `run.lua`, and when (`ChildInv`, `StageInv`, `OneCommand`), what is
  in the pipe (`ReportInv`, `OutputInv`), that without stdin the child is the
  command (`StatusInv`), and how many descriptors are open (`FilesInv`).
* `MainLoopProofs`: `LoopTypeOK`, `TableMatches`, `NeverBlocks` and
  `AcceptFailsOnlyAtLimit` for any set of descriptors and with every error path.
  The part that matters is `WalkInv`: what the walk has still to call back and
  `poll()` found ready is ready when its turn comes, as long as no addition moved
  an entry in this walk.

The assumptions on constants are evaluated by TLC in every run of their module.

Only model-checked: liveness (`CfSetReturns`, `LeaseShown`, `MessageArrives`,
`RepliesLeave`, `CallReturns`, `ServedUnlessMoved`), which needs fairness and
`ENABLED` and is beyond the prover; and the five disagreements, which are
counterexamples.


## 5. Not modelled

`cf_print`, `dump` and logging; `build_uniq_name`, which nobody calls; mtu,
masks, gateways and other fields that no decision reads; serialisation of
events and their limit of 1024 bytes; signals (that SIGPIPE would end the whole
daemon is noted in `CliStream`; nothing is ever queued for writing, since
`send` has no caller). The module loader `lib/lib.lua` and the template function
of `lib/file.lua` are text processing, the latter without a caller.

The repository holds far more code than the daemon. The prototypes of an
interactive command line (`t6`, `t7`, `c/terminfo.c`) and the netlink binding
`c/nl.c` are not connected to it; `old/` and `lua/g2` are superseded; `buildroot/`
and `support/` are other projects' sources (buildroot, qemu, lua, luaposix and
more), which the daemon only runs on. All of `lua/lib` and `lua/core` that keeps
state is modelled.

## 6. Plan

Done, in this order: the engine and its proof, interfaces and addresses with
the kernel, the DHCP client with its processes, the CLI framing with its
abstract channel and the size coding, routes, the supervisor that the engine
implements, failing commands, processes, the main loop; then the proofs of every
invariant and refinement of the passing runs. What is left to prove:

1. bounds behind the liveness properties that are safety properties themselves:
   a measure of the `state_change()` stack and its notifications that every step
   of a call decreases, which is what makes `CfSetReturns` true;
2. the service of the main loop as a step property: a walk in which no addition
   moves an entry leaves out no descriptor that was ready.
