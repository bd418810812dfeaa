--------------------------- MODULE MainLoopProofs ---------------------------
(***************************************************************************)
(* The safety properties of MainLoop, for any descriptors and any number   *)
(* of pieces that wait.                                                    *)
(***************************************************************************)
EXTENDS MainLoop, WellFoundedInduction, TLAPS

-----------------------------------------------------------------------------
(* The inductive invariant.                                                *)

\* Only connections hang up.
HupInv == \A f \in hup : open[f] = "conn"

\* Who blocks or raised is known exactly while the loop does not go on, and
\* only a registered descriptor that can be read does.
StuckInv ==
    /\ stuck # Nil <=> at \in {"blocked", "dead"}
    /\ at = "blocked" => fds[stuck] # Nil /\ fds[stuck].callback # "cli"

\* What the walk will call back has something to read, and still has it when
\* its turn comes: revents are as good as new.
WalkInv == ~moved => \A f \in walk : fds[f] # Nil /\ fds[f].ready => Readable(f)

LoopInv ==
    /\ LoopTypeOK
    /\ TableMatches
    /\ HupInv
    /\ StuckInv
    /\ WalkInv
    /\ NeverBlocks
    /\ AcceptFailsOnlyAtLimit

-----------------------------------------------------------------------------
(* A set of numbers that is not empty has a least element: accept() hands  *)
(* out a descriptor that is closed.                                        *)
LEMMA LeastElement ==
    ASSUME NEW S, S \subseteq Nat, S # {}
    PROVE  Min(S) \in S
<1>1. PICK x \in S : \A y \in S : ~(<<y, x>> \in OpToRel(<, Nat))
  BY NatLessThanWellFounded, WFMin, Zenon
<1>2. \A y \in S : <<y, x>> \in OpToRel(<, Nat) <=> y < x
  BY <1>1 DEF OpToRel
<1>3. \A y \in S : ~(y < x)
  BY <1>1, <1>2, Zenon
<1>4. \A y \in S : x <= y
  BY <1>3
<1> QED
  BY <1>4 DEF Min

LEMMA InitLoopInv == Init => LoopInv
<1> SUFFICES ASSUME Init PROVE LoopInv
  OBVIOUS
<1> USE LoopAssumption
<1>0. PICK e \in Fd, c \in Fd :
          open = [f \in Fd |-> IF f = e THEN "event" ELSE IF f = c THEN "cli" ELSE Nil]
  BY DEF Init
<1>1. LoopTypeOK
  <2>1. open \in [Fd -> Kind \cup {Nil}]
    BY <1>0 DEF Kind
  <2>2. fds \in [Fd -> Entry \cup {Nil}]
    <3>1. \A k \in Kind : NewEntry(k) \in Entry
      BY DEF NewEntry, Entry
    <3>2. fds = [f \in Fd |-> IF open[f] # Nil THEN NewEntry(open[f]) ELSE Nil]
      BY DEF Init
    <3>3. \A f \in Fd : (IF open[f] # Nil THEN NewEntry(open[f]) ELSE Nil) \in Entry \cup {Nil}
      BY <2>1, <3>1
    <3> QED
      BY <3>2, <3>3
  <2>3. waiting \in [Fd -> 0 .. MaxWaiting]
    BY DEF Init
  <2> QED
    BY <2>1, <2>2, <2>3 DEF Init, LoopTypeOK
<1>2. TableMatches
  <2> SUFFICES ASSUME NEW f \in Fd
               PROVE  open[f] = IF fds[f] = Nil THEN Nil ELSE fds[f].callback
    BY DEF TableMatches
  <2>1. fds[f] = IF open[f] # Nil THEN NewEntry(open[f]) ELSE Nil
    BY DEF Init
  <2>2. open[f] # Nil => NewEntry(open[f]) \in Entry
    BY <1>1 DEF LoopTypeOK, NewEntry, Entry
  <2>3. NewEntry(open[f]).callback = open[f]
    BY DEF NewEntry
  <2>4. CASE open[f] = Nil
    BY <2>1, <2>4
  <2>5. CASE open[f] # Nil
    <3>1. fds[f] = NewEntry(open[f]) /\ fds[f] # Nil
      BY <2>1, <2>2, <2>5
    <3> QED
      BY <2>3, <3>1
  <2> QED
    BY <2>4, <2>5
<1> QED
  BY <1>1, <1>2 DEF Init, LoopInv, HupInv, StuckInv, WalkInv, NeverBlocks, AcceptFailsOnlyAtLimit

\* Data, datagrams and connections only arrive.
LEMMA ArrivesInv ==
    ASSUME LoopInv, NEW f \in Fd, Arrives(f) \/ HangUp(f)
    PROVE  LoopInv'
<1> USE LoopAssumption DEF LoopInv, Arrives, HangUp
<1>1. LoopTypeOK'
  <2>1. CASE Arrives(f)
    <3>1. waiting[f] + 1 \in 0 .. MaxWaiting
      BY <2>1 DEF LoopTypeOK
    <3>2. waiting' \in [Fd -> 0 .. MaxWaiting]
      BY <2>1, <3>1 DEF LoopTypeOK
    <3> QED
      BY <2>1, <3>2 DEF LoopTypeOK
  <2>2. CASE HangUp(f)
    BY <2>2 DEF LoopTypeOK
  <2> QED
    BY <2>1, <2>2
<1>2. TableMatches' /\ StuckInv' /\ NeverBlocks' /\ AcceptFailsOnlyAtLimit'
  BY DEF TableMatches, StuckInv, NeverBlocks, AcceptFailsOnlyAtLimit, Closed
<1>3. HupInv'
  BY DEF HupInv
<1>4. WalkInv'
  <2> SUFFICES ASSUME ~moved', NEW g \in walk', fds'[g] # Nil, fds'[g].ready
               PROVE  Readable(g)'
    BY DEF WalkInv
  <2>1. g \in Fd /\ Readable(g)
    BY DEF LoopTypeOK, WalkInv
  <2>2. waiting[g] > 0 => waiting'[g] > 0
    BY <2>1 DEF LoopTypeOK
  <2> QED
    BY <2>1, <2>2 DEF Readable
<1> QED
  BY <1>1, <1>2, <1>3, <1>4

LEMMA PollInv == LoopInv /\ Poll => LoopInv'
<1> SUFFICES ASSUME LoopInv, Poll PROVE LoopInv'
  OBVIOUS
<1> USE LoopAssumption DEF LoopInv, Poll
<1>1. LoopTypeOK'
  BY DEF LoopTypeOK, Entry, Registered, Readable
<1>2. TableMatches'
  <2> SUFFICES ASSUME NEW f \in Fd
               PROVE  open[f] = IF fds'[f] = Nil THEN Nil ELSE fds'[f].callback
    BY DEF TableMatches
  <2>1. CASE fds[f] = Nil
    BY <2>1 DEF TableMatches
  <2>2. CASE fds[f] # Nil
    <3>1. fds[f] \in Entry /\ fds'[f] = [fds[f] EXCEPT !.ready = Readable(f)]
      BY <2>2 DEF LoopTypeOK
    <3>2. fds'[f] \in Entry /\ fds'[f].callback = fds[f].callback
      BY <3>1 DEF Entry, Readable
    <3> QED
      BY <2>2, <3>2 DEF TableMatches
  <2> QED
    BY <2>1, <2>2
<1>3. HupInv' /\ StuckInv' /\ NeverBlocks' /\ AcceptFailsOnlyAtLimit'
  BY DEF HupInv, StuckInv, NeverBlocks, AcceptFailsOnlyAtLimit
<1>4. WalkInv'
  BY DEF LoopTypeOK, WalkInv, Entry, Registered, Readable
<1> QED
  BY <1>1, <1>2, <1>3, <1>4

\* An entry that is passed over, and the end of the walk.
LEMMA SkipInv ==
    ASSUME LoopInv, \/ \E f \in Fd : Skip(f)
                    \/ WalkEnds
    PROVE  LoopInv'
<1> USE LoopAssumption DEF LoopInv, Skip, WalkEnds
<1>1. LoopTypeOK'
  BY DEF LoopTypeOK
<1>2. TableMatches' /\ HupInv' /\ StuckInv' /\ NeverBlocks'
  BY DEF TableMatches, HupInv, StuckInv, NeverBlocks
<1>3. AcceptFailsOnlyAtLimit' /\ WalkInv'
  BY DEF AcceptFailsOnlyAtLimit, Closed, WalkInv, Readable
<1> QED
  BY <1>1, <1>2, <1>3

\* What is reached is open, and readable unless entries were moved.
LEMMA ReachedReadable ==
    ASSUME LoopInv, NEW f \in Fd, NEW kind, Reached(f, kind)
    PROVE  open[f] = kind /\ (~moved => Readable(f))
<1> QED
  BY DEF LoopInv, Reached, WalkInv, TableMatches

\* read() and recv() block only after entries were moved.
LEMMA BlocksInv ==
    ASSUME LoopInv, NEW f \in Fd, Blocks(f)
    PROVE  LoopInv'
<1> USE LoopAssumption DEF LoopInv, Blocks
<1>1. moved
  BY ReachedReadable
<1>2. fds[f] # Nil /\ fds[f].callback # "cli"
  BY DEF Reached
<1>3. LoopTypeOK' /\ TableMatches' /\ HupInv'
  BY DEF LoopTypeOK, TableMatches, HupInv
<1>4. StuckInv' /\ NeverBlocks' /\ AcceptFailsOnlyAtLimit' /\ WalkInv'
  BY <1>1, <1>2 DEF LoopTypeOK, StuckInv, NeverBlocks, AcceptFailsOnlyAtLimit, WalkInv
<1> QED
  BY <1>3, <1>4

\* A callback that returns leaves the readiness of all others alone.
LEMMA ReadsInv ==
    ASSUME LoopInv, NEW f \in Fd, EventRecv(f) \/ IoCallback(f) \/ IoCallbackEmpty(f)
    PROVE  LoopInv'
<1> USE LoopAssumption DEF LoopInv, EventRecv, IoCallback, IoCallbackEmpty, Returns, Reads
<1>1. LoopTypeOK'
  <2>1. waiting' \in [Fd -> 0 .. MaxWaiting]
    BY DEF LoopTypeOK
  <2> QED
    BY <2>1 DEF LoopTypeOK
<1>2. TableMatches' /\ HupInv'
  BY DEF TableMatches, HupInv
<1>3. StuckInv' /\ NeverBlocks' /\ AcceptFailsOnlyAtLimit'
  BY DEF StuckInv, NeverBlocks, AcceptFailsOnlyAtLimit
<1>4. WalkInv'
  BY DEF LoopTypeOK, WalkInv, Readable
<1> QED
  BY <1>1, <1>2, <1>3, <1>4

\* An error in a callback other than cli_accept().
LEMMA RaisesInv ==
    ASSUME LoopInv, NEW f \in Fd, EventRaises(f) \/ IoCallbackRaises(f)
    PROVE  LoopInv'
<1> USE LoopAssumption DEF LoopInv, EventRaises, IoCallbackRaises, Raises
<1>1. fds[f].callback # "cli"
  BY DEF CallsBack, Reached
<1>2. LoopTypeOK' /\ TableMatches' /\ HupInv'
  BY DEF LoopTypeOK, TableMatches, HupInv
<1>3. StuckInv' /\ NeverBlocks' /\ AcceptFailsOnlyAtLimit'
  BY <1>1 DEF StuckInv, NeverBlocks, AcceptFailsOnlyAtLimit
<1>4. WalkInv'
  BY DEF WalkInv, Readable
<1> QED
  BY <1>2, <1>3, <1>4

\* The connection goes from the table and the kernel alike.
LEMMA EndsInv ==
    ASSUME LoopInv, NEW f \in Fd, IoCallbackEnds(f)
    PROVE  LoopInv'
<1> USE LoopAssumption DEF LoopInv, IoCallbackEnds, Returns, Close
<1>1. LoopTypeOK'
  BY DEF LoopTypeOK
<1>2. TableMatches' /\ HupInv'
  BY DEF LoopTypeOK, TableMatches, HupInv
<1>3. StuckInv' /\ NeverBlocks' /\ AcceptFailsOnlyAtLimit'
  BY DEF StuckInv, NeverBlocks, AcceptFailsOnlyAtLimit
<1>4. WalkInv'
  BY DEF LoopTypeOK, WalkInv, Readable
<1> QED
  BY <1>1, <1>2, <1>3, <1>4

\* cli_accept(): the new descriptor was closed, so its entry replaces none.
LEMMA AcceptInv ==
    ASSUME LoopInv, NEW f \in Fd, CliAccept(f)
    PROVE  LoopInv'
<1> USE LoopAssumption DEF LoopInv
<1> DEFINE new == Min(Closed)
<1>1. new \in Fd /\ open[new] = Nil
  <2>1. Closed \subseteq Nat /\ Closed # {}
    BY DEF CliAccept, Closed
  <2>2. new \in Closed
    BY <2>1, LeastElement
  <2> QED
    BY <2>2 DEF Closed
<1>2. fds[new] = Nil /\ new \notin hup
  BY <1>1 DEF LoopTypeOK, TableMatches, HupInv, Entry, Kind
<1>3. /\ Reached(f, "cli") /\ waiting[f] > 0
      /\ open' = [open EXCEPT ![new] = "conn"]
      /\ fds' = [fds EXCEPT ![new] = [callback |-> "conn", ready |-> FALSE]]
      /\ \/ walk' = Remaining(f, new) /\ UNCHANGED moved
         \/ walk' \in SUBSET ((Registered \cup {new}) \ {f}) /\ moved' = TRUE
      /\ waiting' = [waiting EXCEPT ![f] = @ - 1]
      /\ called' = called \cup {f}
      /\ UNCHANGED <<hup, at, stuck>>
  BY DEF CliAccept, AddFd, NewEntry
<1> HIDE DEF new
<1>4. f # new
  BY <1>2, <1>3 DEF Reached
<1>5. LoopTypeOK'
  <2>1. walk' \subseteq Fd /\ moved' \in BOOLEAN
    BY <1>1, <1>3 DEF LoopTypeOK, Remaining, Registered
  <2>2. fds' \in [Fd -> Entry \cup {Nil}] /\ open' \in [Fd -> Kind \cup {Nil}]
    BY <1>1, <1>3 DEF LoopTypeOK, Entry, Kind
  <2>3. waiting' \in [Fd -> 0 .. MaxWaiting]
    BY <1>3 DEF LoopTypeOK
  <2> QED
    BY <1>3, <2>1, <2>2, <2>3 DEF LoopTypeOK
<1>6. TableMatches'
  <2>1. [callback |-> "conn", ready |-> FALSE] # Nil
    <3>1. [callback |-> "conn", ready |-> FALSE] \in Entry
      BY DEF Entry, Kind
    <3> QED
      BY <3>1
  <2>2. fds'[new] = [callback |-> "conn", ready |-> FALSE] /\ open'[new] = "conn"
    BY <1>1, <1>3 DEF LoopTypeOK
  <2>3. \A g \in Fd : g # new => fds'[g] = fds[g] /\ open'[g] = open[g]
    BY <1>3 DEF LoopTypeOK
  <2> QED
    BY <2>1, <2>2, <2>3 DEF TableMatches
<1>7. HupInv' /\ StuckInv'
  BY <1>2, <1>3 DEF LoopTypeOK, HupInv, StuckInv, Reached
<1>8. NeverBlocks' /\ AcceptFailsOnlyAtLimit'
  BY <1>3 DEF NeverBlocks, AcceptFailsOnlyAtLimit, Reached
<1>9. WalkInv'
  <2> SUFFICES ASSUME ~moved', NEW g \in walk', fds'[g] # Nil, fds'[g].ready
               PROVE  Readable(g)'
    BY DEF WalkInv
  <2>1. g \in Fd /\ g # new
    BY <1>1, <1>3, <1>5 DEF LoopTypeOK
  <2>2. g \in walk /\ g # f /\ ~moved
    BY <1>3, <2>1 DEF Remaining
  <2>3. Readable(g)
    BY <1>3, <2>1, <2>2 DEF WalkInv, LoopTypeOK
  <2> QED
    BY <1>3, <2>1, <2>2, <2>3 DEF Readable, LoopTypeOK
<1> QED
  BY <1>5, <1>6, <1>7, <1>8, <1>9

\* accept() fails only without a free descriptor: somebody has connected.
LEMMA AcceptFailsInv ==
    ASSUME LoopInv, NEW f \in Fd, AcceptFails(f)
    PROVE  LoopInv'
<1> USE LoopAssumption DEF LoopInv, AcceptFails, Raises
<1>1. ~moved => waiting[f] > 0
  <2>1. open[f] = "cli" /\ (~moved => Readable(f))
    BY ReachedReadable
  <2> QED
    BY <2>1 DEF HupInv, Readable
<1>2. AcceptFailsOnlyAtLimit' /\ NeverBlocks' /\ StuckInv'
  BY <1>1 DEF LoopTypeOK, AcceptFailsOnlyAtLimit, NeverBlocks, StuckInv, Closed
<1>3. LoopTypeOK' /\ TableMatches' /\ HupInv' /\ WalkInv'
  BY DEF LoopTypeOK, TableMatches, HupInv, WalkInv, Readable
<1> QED
  BY <1>2, <1>3

LEMMA NextLoopInv == LoopInv /\ [Next]_vars => LoopInv'
<1> SUFFICES ASSUME LoopInv, [Next]_vars PROVE LoopInv'
  OBVIOUS
<1>1. CASE Loop
  BY <1>1, PollInv, SkipInv, BlocksInv, ReadsInv, RaisesInv, EndsInv, AcceptInv, AcceptFailsInv DEF Loop
<1>2. CASE \E f \in Fd : Arrives(f) \/ HangUp(f)
  BY <1>2, ArrivesInv
<1>3. CASE UNCHANGED vars
  BY <1>3 DEF vars, LoopInv, LoopTypeOK, TableMatches, HupInv, StuckInv, WalkInv, Readable,
              NeverBlocks, AcceptFailsOnlyAtLimit, Closed
<1> QED
  BY <1>1, <1>2, <1>3 DEF Next

-----------------------------------------------------------------------------
(* The results.                                                            *)

(* The inductive invariant holds in every reachable state of the loop.     *)
THEOREM LoopInvariance == Spec => []LoopInv
<1> QED
  BY InitLoopInv, NextLoopInv, PTL DEF Spec

(* The table of descriptors and the kernel's have their types.             *)
THEOREM LoopTypeCorrect == Spec => []LoopTypeOK
<1>1. LoopInv => LoopTypeOK
  BY DEF LoopInv
<1> QED
  BY <1>1, LoopInvariance, PTL

(* Whatever is accepted and closed in the middle of a walk, the table has  *)
(* exactly the descriptors that are open, each with its own callback.      *)
THEOREM TableCorrect == Spec => []TableMatches
<1>1. LoopInv => TableMatches
  BY DEF LoopInv
<1> QED
  BY <1>1, LoopInvariance, PTL

(* A walk in which accepting moves no entry of the table never calls back  *)
(* a descriptor that would block.                                          *)
THEOREM LoopNeverBlocks == Spec => []NeverBlocks
<1>1. LoopInv => NeverBlocks
  BY DEF LoopInv
<1> QED
  BY <1>1, LoopInvariance, PTL

(* cli_accept() fails only at a client too many, or because entries of the *)
(* table were moved and it was called a second time.                       *)
THEOREM AcceptFailsAtLimit == Spec => []AcceptFailsOnlyAtLimit
<1>1. LoopInv => AcceptFailsOnlyAtLimit
  BY DEF LoopInv
<1> QED
  BY <1>1, LoopInvariance, PTL
=============================================================================
