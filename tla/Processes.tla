----------------------------- MODULE Processes ------------------------------
(***************************************************************************)
(* lib/run.lua: execute() runs a command and collects its output, with     *)
(* lines for its standard input or without; background() starts a daemon   *)
(* through an intermediate child and reads its process id from a pipe.     *)
(* The program makes one call at a time, but the processes it forks run    *)
(* concurrently with it and with each other.                               *)
(*                                                                         *)
(* A process is where it is in the code of run.lua ("fork", "feed", ...)   *)
(* or the program it has become.  A child of execute() writes to the       *)
(* output pipe as long as it lives, since descriptors 1 and 2 are copies   *)
(* of the write end; a child of background() until it has sent its id.     *)
(* Lines are told apart by who wrote them, the command or a forked copy of *)
(* the program itself ("unable to exec", a traceback), and the command's   *)
(* are numbered.                                                           *)
(***************************************************************************)
EXTENDS Naturals, Sequences, FiniteSets

CONSTANTS
    Pid,            \* process ids, used again when a process is gone
    Calls,          \* what is called: "execute", "execute_stdin", "background"
    Faults,         \* fork(), exec(), setpid() and chdir() may fail
    MaxLines,       \* lines a command may write
    Capacity,       \* lines a pipe holds before write() blocks
    StdinLines,     \* lines passed as stdin
    MaxFiles,       \* descriptors the program may have open for its calls
    MaxDaemons,     \* calls of background()
    Nil             \* Lua's nil

ASSUME ProcessAssumption ==
    /\ Calls \subseteq {"execute", "execute_stdin", "background"}
    /\ Faults \in BOOLEAN
    /\ {MaxLines, StdinLines, MaxFiles, MaxDaemons} \subseteq Nat
    /\ Capacity \in Nat \ {0}
    /\ Pid \cap {"opentik", Nil} = {} /\ Nil # "opentik"

VARIABLES
    pc,             \* the program: "idle", or where it is in a call, or "dead"
    call,           \* the call under way, or the last one
    child,          \* the process the call forked, Nil if fork() failed
    proc,           \* the processes
    pipe,           \* the output pipe, or the one that carries the process id
    input,          \* number of lines in the pipe to the command's stdin
    fed,            \* lines the feeding process has written into it
    output,         \* what the call has read so far
    status,         \* the status execute() returns
    files,          \* descriptors the program has open for its calls
    daemons,        \* calls of background() that got their pipe
    faulty,         \* a system call failed during the call
    command         \* history: the process that runs the command of the
                    \* call, the lines it wrote and its exit status

vars == <<pc, call, child, proc, pipe, input, fed, output, status, files,
          daemons, faulty, command>>

Gone    == [at |-> "gone", parent |-> Nil, code |-> 0]
Process == [at : {"gone", "fork", "feed", "run", "setup", "leave", "report",
                  "launch", "command", "daemon", "zombie"},
            parent : Pid \cup {"opentik", Nil}, code : 0 .. 2]

Own     == <<"own", 0>>
Line(n) == <<"command", n>>
Lines   == {Own} \cup {Line(n) : n \in 1 .. MaxLines}

NoCommand == [pid |-> Nil, wrote |-> 0, code |-> Nil]

(* Every process and every pipe is in a state run.lua can leave it in.     *)
ProcessTypeOK ==
    /\ pc \in {"idle", "read", "wait", "dead"}
    /\ call \in Calls \cup {Nil}
    /\ child \in Pid \cup {Nil}
    /\ proc \in [Pid -> Process]
    /\ pipe \in Seq(Lines \cup Pid) /\ Len(pipe) <= Capacity
    /\ input \in 0 .. Capacity /\ fed \in 0 .. StdinLines
    /\ output \in Seq(Lines \cup Pid)
    /\ status \in {0, 1, 2, Nil}
    /\ files \in 0 .. MaxFiles
    /\ daemons \in 0 .. MaxDaemons
    /\ faulty \in BOOLEAN
    /\ command \in [pid : Pid \cup {Nil}, wrote : 0 .. MaxLines, code : {0, 1, Nil}]

Init ==
    /\ pc = "idle" /\ call = Nil /\ child = Nil
    /\ proc = [p \in Pid |-> Gone]
    /\ pipe = <<>> /\ input = 0 /\ fed = 0 /\ output = <<>>
    /\ status = Nil /\ files = 0 /\ daemons = 0 /\ faulty = FALSE
    /\ command = NoCommand

-----------------------------------------------------------------------------
(* The kernel, external.                                                   *)

Free == {p \in Pid : proc[p].at = "gone"}

Forked(parent, where) == [at |-> where, parent |-> parent, code |-> 0]

\* A process ends: its parent has to wait for it, or init does at once, and
\* its own children become init's.
Ended(p, code) ==
    [q \in Pid |->
        IF q = p THEN IF proc[p].parent = Nil THEN Gone
                      ELSE [proc[p] EXCEPT !.at = "zombie", !.code = code]
        ELSE IF proc[q].parent # p THEN proc[q]
        ELSE IF proc[q].at = "zombie" THEN Gone
        ELSE [proc[q] EXCEPT !.parent = Nil]]

Writers ==
    {p \in Pid : proc[p].at \in IF call = "background" THEN {"setup", "leave", "report"}
                                ELSE {"fork", "feed", "run", "command"}}

StdinReader == {p \in Pid : proc[p].parent # "opentik" /\ proc[p].at \in {"run", "command"}}

\* Mutant: the program keeps its own copy of the write end.
EndOfFileNever == FALSE

\* The program has closed its copy of the write end.
EndOfFile == pipe = <<>> /\ Writers = {}

-----------------------------------------------------------------------------
(* The program: execute() and background(), parent's side.                 *)

First == [c \in Calls |-> CASE c = "execute" -> "run"
                            [] c = "execute_stdin" -> "fork"
                            [] OTHER -> "setup"]

\* pipe(), fork() and the close of the write end.  At the limit pipe()
\* returns nil, and closing that is an error nothing catches; the fork before
\* it is left out there: what it starts has no pipe either, fails and ends.
Call(c) ==
    /\ pc = "idle"
    /\ c = "background" => daemons < MaxDaemons
    /\ call' = c
    /\ pipe' = <<>> /\ input' = 0 /\ fed' = 0 /\ output' = <<>>
    /\ status' = Nil /\ command' = NoCommand
    /\ \/ /\ files + 2 > MaxFiles
          /\ pc' = "dead"
          /\ child' = Nil /\ faulty' = FALSE
          /\ UNCHANGED <<proc, files, daemons>>
       \/ /\ files + 2 <= MaxFiles
          /\ pc' = "read"
          /\ files' = files + 1
          /\ daemons' = IF c = "background" THEN daemons + 1 ELSE daemons
          /\ \/ \E p \in Free :
                  /\ child' = p /\ faulty' = FALSE
                  /\ proc' = [proc EXCEPT ![p] = Forked("opentik", First[c])]
             \/ /\ Faults
                /\ child' = Nil /\ faulty' = TRUE
                /\ UNCHANGED proc

\* A line of the output; background() reads once, and that is the id.
ReadLine ==
    /\ pc = "read" /\ pipe # <<>>
    /\ output' = Append(output, Head(pipe))
    /\ pipe' = Tail(pipe)
    /\ pc' = IF call = "background" THEN "wait" ELSE "read"
    /\ UNCHANGED <<call, child, proc, input, fed, status, files, daemons, faulty, command>>

\* Mutant: the read end stays open, as background() leaves it.
ReadEndLeaks ==
    /\ pc = "read" /\ EndOfFile
    /\ pc' = "wait"
    /\ UNCHANGED <<call, child, proc, pipe, input, fed, output, status, files, daemons, faulty, command>>

\* Mutant: the write end is closed a second time.
ReadEndTwice ==
    /\ pc = "read" /\ EndOfFile
    /\ files' = files - 2
    /\ pc' = "wait"
    /\ UNCHANGED <<call, child, proc, pipe, input, fed, output, status, daemons, faulty, command>>

\* Mutant: an empty pipe is taken for the end of the output.
ReadEndEarly ==
    /\ pc = "read" /\ pipe = <<>>
    /\ files' = IF call = "background" THEN files ELSE files - 1
    /\ pc' = "wait"
    /\ UNCHANGED <<call, child, proc, pipe, input, fed, output, status, daemons, faulty, command>>

\* execute() closes the read end, background() never does.
ReadEnd ==
    /\ pc = "read" /\ EndOfFile
    /\ files' = IF call = "background" THEN files ELSE files - 1
    /\ pc' = "wait"
    /\ UNCHANGED <<call, child, proc, pipe, input, fed, output, status, daemons, faulty, command>>

\* tonumber() of what was read: the only caller, start_dhcp(), concatenates
\* it, and the error of a nil is caught by nothing.
AfterWait == IF call = "background" /\ output = <<>> THEN "dead" ELSE "idle"

\* Mutant: background() returns without waiting.
WaitNot ==
    /\ pc = "wait"
    /\ pc' = AfterWait
    /\ status' = 2
    /\ UNCHANGED <<call, child, proc, pipe, input, fed, output, files, daemons, faulty, command>>

\* Without a child wait() fails, and its error number is taken for a status.
Wait ==
    /\ pc = "wait"
    /\ child # Nil => proc[child].at = "zombie"
    /\ pc' = AfterWait
    /\ status' = IF child # Nil THEN proc[child].code ELSE 2
    /\ proc' = IF child # Nil THEN [proc EXCEPT ![child] = Gone] ELSE proc
    /\ UNCHANGED <<call, child, pipe, input, fed, output, files, daemons, faulty, command>>

-----------------------------------------------------------------------------
(* execute(), child's side.                                                *)

\* With stdin the child forks the process that will run the command.
ForkCommand(p) ==
    /\ proc[p].at = "fork"
    /\ \/ \E q \in Free :
            /\ proc' = [proc EXCEPT ![p].at = "feed", ![q] = Forked(p, "run")]
            /\ UNCHANGED faulty
       \/ /\ Faults
          /\ proc' = [proc EXCEPT ![p].at = "feed"]
          /\ faulty' = TRUE
    /\ UNCHANGED <<pc, call, child, pipe, input, fed, output, status, files, daemons, command>>

\* One line of stdin; without a reader SIGPIPE ends the process.
Feed(p) ==
    /\ proc[p].at = "feed" /\ fed < StdinLines
    /\ \/ /\ StdinReader # {} /\ input < Capacity
          /\ input' = input + 1 /\ fed' = fed + 1
          /\ UNCHANGED proc
       \/ /\ StdinReader = {}
          /\ proc' = Ended(p, 2)
          /\ UNCHANGED <<input, fed>>
    /\ UNCHANGED <<pc, call, child, pipe, output, status, files, daemons, faulty, command>>

\* Having fed everything the child runs on into the parent's code: fdopen()
\* of the closed read end gives nil, the error's traceback goes to the
\* output pipe, and the process exits with 1, which closes the stdin pipe.
FallThrough(p) ==
    /\ proc[p].at = "feed" /\ fed = StdinLines
    /\ Len(pipe) < Capacity
    /\ pipe' = Append(pipe, Own)
    /\ proc' = Ended(p, 1)
    /\ UNCHANGED <<pc, call, child, input, fed, output, status, files, daemons, faulty, command>>

ExecCommand(p) ==
    /\ proc[p].at = "run"
    /\ \/ /\ proc' = [proc EXCEPT ![p].at = "command"]
          /\ command' = [command EXCEPT !.pid = p]
          /\ UNCHANGED <<pipe, faulty>>
       \/ /\ Faults
          /\ Len(pipe) < Capacity
          /\ pipe' = Append(pipe, Own)
          /\ proc' = Ended(p, 1)
          /\ faulty' = TRUE
          /\ UNCHANGED command
    /\ UNCHANGED <<pc, call, child, input, fed, output, status, files, daemons>>

(* The command, external: it reads and writes as it likes, and ends.       *)

CommandReads(p) ==
    /\ proc[p].at = "command" /\ input > 0
    /\ input' = input - 1
    /\ UNCHANGED <<pc, call, child, proc, pipe, fed, output, status, files, daemons, faulty, command>>

CommandWrites(p) ==
    /\ proc[p].at = "command" /\ command.wrote < MaxLines
    /\ Len(pipe) < Capacity
    /\ pipe' = Append(pipe, Line(command.wrote + 1))
    /\ command' = [command EXCEPT !.wrote = @ + 1]
    /\ UNCHANGED <<pc, call, child, proc, input, fed, output, status, files, daemons, faulty>>

CommandExits(p, code) ==
    /\ proc[p].at = "command"
    /\ proc' = Ended(p, code)
    /\ command' = [command EXCEPT !.code = code]
    /\ UNCHANGED <<pc, call, child, pipe, input, fed, output, status, files, daemons, faulty>>

-----------------------------------------------------------------------------
(* background(), children's side.                                          *)

\* umask(), setpid(), chdir() and the second fork().
Setup(p) ==
    /\ proc[p].at = "setup"
    /\ \/ \E q \in Free :
            /\ proc' = [proc EXCEPT ![p].at = "leave", ![q] = Forked(p, "report")]
            /\ command' = [command EXCEPT !.pid = q]
            /\ UNCHANGED faulty
       \/ /\ Faults
          /\ \E code \in {0, 1} : proc' = Ended(p, code)
          /\ faulty' = TRUE
          /\ UNCHANGED command
    /\ UNCHANGED <<pc, call, child, pipe, input, fed, output, status, files, daemons>>

Leave(p) ==
    /\ proc[p].at = "leave"
    /\ proc' = Ended(p, 0)
    /\ UNCHANGED <<pc, call, child, pipe, input, fed, output, status, files, daemons, faulty, command>>

\* Mutant: the id of the intermediate child, which is about to go.
ReportParent(p) ==
    /\ proc[p].at = "report"
    /\ pipe' = Append(pipe, IF proc[p].parent # Nil THEN proc[p].parent ELSE p)
    /\ proc' = [proc EXCEPT ![p].at = "launch"]
    /\ UNCHANGED <<pc, call, child, input, fed, output, status, files, daemons, faulty, command>>

Report(p) ==
    /\ proc[p].at = "report"
    /\ pipe' = Append(pipe, p)
    /\ proc' = [proc EXCEPT ![p].at = "launch"]
    /\ UNCHANGED <<pc, call, child, input, fed, output, status, files, daemons, faulty, command>>

ExecDaemon(p) ==
    /\ proc[p].at = "launch"
    /\ \/ proc' = [proc EXCEPT ![p].at = "daemon"]
       \/ Faults /\ proc' = Ended(p, 1)
    /\ UNCHANGED <<pc, call, child, pipe, input, fed, output, status, files, daemons, faulty, command>>

\* The daemon, external, ends when it likes.
DaemonExits(p) ==
    /\ proc[p].at = "daemon"
    /\ proc' = Ended(p, 0)
    /\ UNCHANGED <<pc, call, child, pipe, input, fed, output, status, files, daemons, faulty, command>>

-----------------------------------------------------------------------------
\* What a process does while it runs code of run.lua.
Run(p) ==
    \/ ForkCommand(p) \/ Feed(p) \/ FallThrough(p) \/ ExecCommand(p)
    \/ Setup(p) \/ Leave(p) \/ Report(p) \/ ExecDaemon(p)

Exits(p) == \E code \in {0, 1} : CommandExits(p, code)

Next ==
    \/ \E c \in Calls : Call(c)
    \/ ReadLine \/ ReadEnd \/ Wait
    \/ \E p \in Pid : Run(p)
    \/ \E p \in Pid : CommandReads(p) \/ CommandWrites(p) \/ Exits(p) \/ DaemonExits(p)

Spec == Init /\ [][Next]_vars

\* Processes that can run do, and commands end.
FairSpec ==
    /\ Spec
    /\ WF_vars(ReadLine \/ ReadEnd \/ Wait)
    /\ \A p \in Pid : WF_vars(Run(p)) /\ WF_vars(Exits(p))

-----------------------------------------------------------------------------
(* Properties.                                                             *)

\* The lines written so far, each once and in order, with nothing between
\* them but what the program's own copies wrote.
Collected(s, n) ==
    /\ \A i \in 1 .. Len(s) : s[i] = Own \/ \E k \in 1 .. n : s[i] = Line(k)
    /\ \A k \in 1 .. n : \E i \in 1 .. Len(s) : s[i] = Line(k)
    /\ \A i, j \in 1 .. Len(s) : i < j /\ s[i] # Own /\ s[j] # Own => s[i][2] < s[j][2]

(* When execute() returns and its command has run, every line the command  *)
(* wrote has been collected, once and in order, however the processes      *)
(* interleaved and even where the pipe was full; without stdin there is    *)
(* nothing else in the output, and the status is the command's.            *)
ResultIsCommands ==
    pc = "idle" /\ call \in {"execute", "execute_stdin"} /\ command.pid # Nil =>
        /\ Collected(output, command.wrote)
        /\ call = "execute" => Len(output) = command.wrote /\ status = command.code

(* The process id background() hands out is that of the process it forked  *)
(* to become the daemon, never of the intermediate one, whichever of them  *)
(* comes first; and that process is not a child of the program.            *)
PidIsDaemons ==
    call = "background" /\ output # <<>> =>
        /\ output = <<command.pid>>
        /\ command.pid # child
        /\ pc = "idle" => proc[command.pid].parent # "opentik"

(* Between two calls the program has no child left, running or dead: every *)
(* call waits for the one it forked.                                       *)
NoChildLeft == pc = "idle" => \A p \in Pid : proc[p].parent # "opentik"

(* The program dies in a call only when fork() or the set-up of the child  *)
(* failed in it, or when earlier calls of background() have used up the    *)
(* descriptors, one each: execute() gives back what it opened on every     *)
(* way through it, also when fork() or exec() fails.                       *)
DiesOnlyOfFault == pc = "dead" => faulty \/ daemons + 2 > MaxFiles

(* "Run a binary in the background and return its pid so we can kill it    *)
(* later" (lib/run.lua:75): when no system call fails for another reason,  *)
(* background() returns the id.                                            *)
BackgroundReturns == ~(pc = "dead" /\ call = "background" /\ ~faulty)

(* Every call returns, or ends the program: nobody waits for ever at a     *)
(* pipe that is full, or at an empty one whose writers are gone.           *)
CallReturns == pc \in {"read", "wait"} ~> pc \in {"idle", "dead"}
=============================================================================
