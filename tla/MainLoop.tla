------------------------------ MODULE MainLoop ------------------------------
(***************************************************************************)
(* The main loop of the daemon: poll() of lib/event.lua over the table     *)
(* fds, with the callbacks registered in it: event_recv for the event      *)
(* socket, cli_accept for the listening CLI socket and io_callback for     *)
(* every accepted connection.  Callbacks open, close, register and         *)
(* unregister descriptors while poll() is walking the table.               *)
(*                                                                         *)
(* Descriptors are numbers the kernel hands out lowest first, so one that  *)
(* was closed is soon in use again.  Of what a client sends only the       *)
(* number of pieces that wait matters here (module CliStream has the       *)
(* bytes); connections and the event socket block when read while nothing  *)
(* waits, the listening socket does not.                                   *)
(*                                                                         *)
(* Lua leaves undefined what pairs() does after a key was added during the *)
(* walk.  The others keep their places when the new key's own place is     *)
(* free, or taken by a key that belongs there.  A key that does not is     *)
(* moved to another place (luaH_newkey in ltable.c), and a full table is   *)
(* rebuilt; the walk goes on from the place of the current key, and        *)
(* entries are left out or come a second time.  In a table of four with    *)
(* the event socket 5, the CLI socket 9 and a connection 6, accepting 7    *)
(* moves 9 in front of 5.                                                  *)
(*                                                                         *)
(* Nobody catches an error: one raised in a callback ends the daemon.      *)
(***************************************************************************)
EXTENDS Naturals, FiniteSets, FiniteSetsExt

CONSTANTS
    Fd,             \* descriptors
    MaxWaiting,     \* pieces of data, datagrams or connections that wait
    Nil             \* Lua's nil

Kind  == {"event", "cli", "conn"}
Entry == [callback : Kind, ready : BOOLEAN]

ASSUME LoopAssumption ==
    /\ Fd \subseteq Nat /\ MaxWaiting \in Nat \ {0}
    /\ Nil \notin Fd /\ Nil \notin Kind /\ Nil \notin Entry

VARIABLES
    fds,            \* the table: callback and revents of a descriptor, or Nil
    open,           \* kernel: what a descriptor is open on, or Nil
    waiting,        \* kernel: how much waits to be read from it
    hup,            \* kernel: connections whose client is gone
    walk,           \* the keys pairs() has still to come to
    at,             \* where the loop is: "poll", "walk", "blocked", "dead"
    stuck,          \* the descriptor whose callback blocks or raised, or Nil
    called,         \* history: the descriptors called back in this walk
    moved           \* history: an addition moved entries in this walk

vars == <<fds, open, waiting, hup, walk, at, stuck, called, moved>>

(* The table and the kernel's descriptors have their types.                *)
LoopTypeOK ==
    /\ fds \in [Fd -> Entry \cup {Nil}]
    /\ open \in [Fd -> Kind \cup {Nil}]
    /\ waiting \in [Fd -> 0 .. MaxWaiting]
    /\ hup \subseteq Fd
    /\ walk \subseteq Fd /\ called \subseteq Fd
    /\ at \in {"poll", "walk", "blocked", "dead"}
    /\ stuck \in Fd \cup {Nil}
    /\ moved \in BOOLEAN

NewEntry(kind) == [callback |-> kind, ready |-> FALSE]

\* event.init() and cli.init(): files that are read in between have
\* descriptors too and are closed later.
Init ==
    \E e \in Fd, c \in Fd :
        /\ e < c
        /\ open = [f \in Fd |-> IF f = e THEN "event" ELSE IF f = c THEN "cli" ELSE Nil]
        /\ fds = [f \in Fd |-> IF open[f] # Nil THEN NewEntry(open[f]) ELSE Nil]
        /\ waiting = [f \in Fd |-> 0]
        /\ hup = {} /\ walk = {} /\ called = {}
        /\ at = "poll" /\ stuck = Nil /\ moved = FALSE

Registered == {f \in Fd : fds[f] # Nil}
Readable(f) == open[f] # Nil /\ (waiting[f] > 0 \/ f \in hup)
Closed == {f \in Fd : open[f] = Nil}

-----------------------------------------------------------------------------
(* Clients and udhcpc's script, external.                                  *)

Arrives(f) ==
    /\ open[f] # Nil /\ f \notin hup /\ waiting[f] < MaxWaiting
    /\ waiting' = [waiting EXCEPT ![f] = @ + 1]
    /\ UNCHANGED <<fds, open, hup, walk, at, called, stuck, moved>>

HangUp(f) ==
    /\ open[f] = "conn" /\ f \notin hup
    /\ hup' = hup \cup {f}
    /\ UNCHANGED <<fds, open, waiting, walk, at, called, stuck, moved>>

-----------------------------------------------------------------------------
(* poll().                                                                 *)

\* Returns with the revents of every entry; on a timeout nothing is ready.
Poll ==
    /\ at = "poll"
    /\ \E f \in Registered : Readable(f)
    /\ fds' = [f \in Fd |-> IF fds[f] = Nil THEN Nil ELSE [fds[f] EXCEPT !.ready = Readable(f)]]
    /\ walk' = Registered
    /\ at' = "walk"
    /\ UNCHANGED <<open, waiting, hup, called, stuck, moved>>

\* A key that is not ready is passed over.
Skip(f) ==
    /\ at = "walk" /\ f \in walk
    /\ fds[f] # Nil => ~fds[f].ready
    /\ walk' = walk \ {f}
    /\ UNCHANGED <<fds, open, waiting, hup, at, called, stuck, moved>>

\* Mutant: one callback per poll().
WalkBreaks ==
    /\ at = "walk" /\ (called # {} \/ walk = {})
    /\ at' = "poll"
    /\ called' = {} /\ moved' = FALSE
    /\ UNCHANGED <<fds, open, waiting, hup, walk, stuck>>

WalkEnds ==
    /\ at = "walk" /\ walk = {}
    /\ at' = "poll"
    /\ called' = {} /\ moved' = FALSE
    /\ UNCHANGED <<fds, open, waiting, hup, walk, stuck>>

\* The walk comes to an entry that is marked ready.
Reached(f, kind) ==
    /\ at = "walk" /\ f \in walk
    /\ fds[f] # Nil /\ fds[f].ready /\ fds[f].callback = kind

\* The callback is called, or goes on once a read that blocked can.
CallsBack(f, kind) ==
    \/ Reached(f, kind)
    \/ at = "blocked" /\ stuck = f /\ fds[f].callback = kind /\ Readable(f)

Returns(f) ==
    /\ walk' = walk \ {f}
    /\ called' = called \cup {f}
    /\ at' = "walk" /\ stuck' = Nil

Raises(f) ==
    /\ at' = "dead" /\ stuck' = f
    /\ UNCHANGED <<fds, open, waiting, hup, walk, called, moved>>

\* Mutant: the read is taken for granted.
ReadsAlways(f) == waiting' = [waiting EXCEPT ![f] = @ - 1]

\* Reads one piece of what is waiting.
Reads(f) ==
    /\ waiting[f] > 0
    /\ waiting' = [waiting EXCEPT ![f] = @ - 1]

\* read() or recv() with nothing to return.
Blocks(f) ==
    /\ Reached(f, "event") \/ Reached(f, "conn")
    /\ ~Readable(f)
    /\ at' = "blocked" /\ stuck' = f
    /\ UNCHANGED <<fds, open, waiting, hup, walk, called, moved>>

EventRecv(f) ==
    /\ CallsBack(f, "event")
    /\ Reads(f)
    /\ Returns(f)
    /\ UNCHANGED <<fds, open, hup, moved>>

\* The datagram does not parse, or its handler finds no item.
EventRaises(f) ==
    /\ CallsBack(f, "event")
    /\ waiting[f] > 0
    /\ Raises(f)

\* Mutant: the connection is closed but stays registered.
CloseOnly(f) ==
    /\ open' = [open EXCEPT ![f] = Nil]
    /\ UNCHANGED fds

\* close() and remove_fd().
Close(f) ==
    /\ open' = [open EXCEPT ![f] = Nil]
    /\ fds' = [fds EXCEPT ![f] = Nil]

\* The end of the stream, or an error because the client is gone.
IoCallbackEnds(f) ==
    /\ CallsBack(f, "conn")
    /\ f \in hup
    /\ Close(f)
    /\ hup' = hup \ {f}
    /\ waiting' = [waiting EXCEPT ![f] = 0]
    /\ Returns(f)
    /\ UNCHANGED moved

IoCallback(f) ==
    /\ CallsBack(f, "conn")
    /\ Reads(f)
    /\ Returns(f)
    /\ UNCHANGED <<fds, open, hup, moved>>

\* Nothing is wanted of the stream: an empty message is complete.
IoCallbackEmpty(f) ==
    /\ Reached(f, "conn")
    /\ Returns(f)
    /\ UNCHANGED <<fds, open, waiting, hup, moved>>

\* size_decode() knows no first byte above 0xF7 and returns nothing, and
\* nil > 0 is an error.
IoCallbackRaises(f) ==
    /\ CallsBack(f, "conn")
    /\ waiting[f] > 0
    /\ Raises(f)

\* Mutant: the walk comes to the current key again.
RemainingKeeps(f, new) == walk \cup {new}

\* With every entry in its place the other keys come as before; whether the
\* new one does depends on its place, and it is not ready anyway.
Remaining(f, new) == (walk \ {f}) \cup {new}

\* Mutant: the new entry takes over the revents of the one before it.
AddFdReady(new) == fds' = [fds EXCEPT ![new] = [callback |-> "conn", ready |-> TRUE]]

\* add_fd(): revents is empty until the next poll().
AddFd(new) == fds' = [fds EXCEPT ![new] = NewEntry("conn")]

\* accept() without a connection or without a free descriptor returns nil,
\* and fds[nil] is an error.
AcceptFails(f) ==
    /\ Reached(f, "cli")
    /\ waiting[f] = 0 \/ Closed = {}
    /\ Raises(f)

CliAccept(f) ==
    /\ Reached(f, "cli")
    /\ waiting[f] > 0 /\ Closed # {}
    /\ LET new == Min(Closed)
       IN  /\ open' = [open EXCEPT ![new] = "conn"]
           /\ AddFd(new)
           /\ \/ walk' = Remaining(f, new) /\ UNCHANGED moved
              \/ walk' \in SUBSET ((Registered \cup {new}) \ {f}) /\ moved' = TRUE
    /\ waiting' = [waiting EXCEPT ![f] = @ - 1]
    /\ called' = called \cup {f}
    /\ UNCHANGED <<hup, at, stuck>>

-----------------------------------------------------------------------------
Loop ==
    \/ Poll
    \/ WalkEnds
    \/ \E f \in Fd :
        \/ Skip(f) \/ Blocks(f)
        \/ EventRecv(f) \/ EventRaises(f)
        \/ IoCallback(f) \/ IoCallbackEnds(f) \/ IoCallbackEmpty(f) \/ IoCallbackRaises(f)
        \/ CliAccept(f) \/ AcceptFails(f)

Next ==
    \/ Loop
    \/ \E f \in Fd : Arrives(f) \/ HangUp(f)

Spec == Init /\ [][Next]_vars

\* Nothing but a blocking read or its end stops the thread.
FairSpec == Spec /\ WF_vars(Loop)

-----------------------------------------------------------------------------
(* Properties.                                                             *)

(* In every state, in the middle of a walk as well, the table has exactly  *)
(* the descriptors that are open, each with the callback of what it is     *)
(* open on, though numbers are closed and used again during the walk.      *)
TableMatches ==
    \A f \in Fd : open[f] = IF fds[f] = Nil THEN Nil ELSE fds[f].callback

(* In a walk in which no addition moved entries of the table, no callback  *)
(* blocks the daemon: it is called only for a descriptor that is ready,    *)
(* once, and never for one that took over the number.                      *)
NeverBlocks == ~moved => at # "blocked"

(* cli_accept() ends the daemon only when a client connects and no         *)
(* descriptor is left, or when moved entries made the walk accept twice.   *)
AcceptFailsOnlyAtLimit ==
    at = "dead" /\ fds[stuck].callback = "cli" => Closed = {} \/ moved

(* Every descriptor that has something to read is eventually called back,  *)
(* unless an addition moves entries during the walk or an error ends the   *)
(* daemon.                                                                 *)
ServedUnlessMoved ==
    \A f \in Fd : Readable(f) ~> (f \in called \/ moved \/ at = "dead")

(* "now find any handles ready for processing" (lib/event.lua:120): the    *)
(* walk calls no handle that is not ready, so no callback blocks.          *)
OnlyReady == at # "blocked"
=============================================================================
