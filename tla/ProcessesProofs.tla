-------------------------- MODULE ProcessesProofs ---------------------------
(***************************************************************************)
(* The safety properties of Processes, for any number of process ids,      *)
(* lines and descriptors, any capacity of the pipes, with and without      *)
(* failing system calls.                                                   *)
(***************************************************************************)
EXTENDS Processes, SequenceTheorems, TLAPS

-----------------------------------------------------------------------------
(* The inductive invariant.                                                *)

Executes == call \in {"execute", "execute_stdin"}

\* The program's only child is the one the call under way forked, and it is
\* there until the call has waited for it.
ChildInv ==
    /\ \A p \in Pid : proc[p].parent = "opentik" => pc \in {"read", "wait"} /\ p = child
    /\ pc \in {"read", "wait"} /\ child # Nil =>
           proc[child].parent = "opentik" /\ proc[child].at # "gone"

\* Which process can be where in run.lua's code, and when: in particular
\* nobody is at a place that writes to the pipe unless the program reads it.
StageInv ==
    \A p \in Pid :
        /\ proc[p].at = "setup" => /\ pc = "read" /\ call = "background" /\ p = child
                                   /\ command.pid = Nil /\ pipe = <<>> /\ output = <<>>
        /\ proc[p].at = "leave" => pc \in {"read", "wait"} /\ call = "background" /\ p = child
        /\ proc[p].at = "report" => /\ pc = "read" /\ call = "background"
                                    /\ p = command.pid /\ pipe = <<>> /\ output = <<>>
        /\ proc[p].at \in {"fork", "feed"} =>
               pc = "read" /\ call = "execute_stdin" /\ p = child
        /\ proc[p].at = "fork" => command.pid = Nil
        /\ proc[p].at = "run" => /\ pc = "read" /\ Executes /\ command.pid = Nil
                                 /\ call = "execute" => p = child /\ pipe = <<>> /\ output = <<>>
        /\ proc[p].at = "command" => /\ pc = "read" /\ Executes
                                     /\ p = command.pid /\ command.code = Nil

\* The command of a call is run by one process.
OneCommand ==
    \A p, q \in Pid : /\ proc[p].at \in {"fork", "run", "command"}
                      /\ proc[q].at \in {"fork", "run", "command"}
                      => p = q

\* The pipe of background() carries the daemon's id, once, and it is on its
\* way unless a system call failed.
ReportInv ==
    call = "background" =>
        /\ \/ pipe = <<>> /\ output = <<>>
           \/ command.pid # Nil /\ pipe = <<command.pid>> /\ output = <<>>
           \/ command.pid # Nil /\ pipe = <<>> /\ output = <<command.pid>> /\ pc # "read"
        /\ command.pid # Nil => command.pid # child
        /\ pc \in {"read", "wait"} /\ pipe = <<>> /\ output = <<>> /\ ~faulty =>
               \E p \in Pid : proc[p].at \in {"setup", "report"}

\* What was read and what is still in the pipe are together what the command
\* wrote.
OutputInv ==
    /\ pc # "read" => pipe = <<>>
    /\ Executes => /\ Collected(output \o pipe, command.wrote)
                   /\ command.pid = Nil => command.wrote = 0 /\ command.code = Nil

\* Without stdin the child is the command: its status is the one waited for.
StatusInv ==
    call = "execute" /\ command.pid # Nil =>
        /\ Len(output \o pipe) = command.wrote
        /\ pc \in {"read", "wait"} =>
               /\ command.pid = child
               /\ \/ proc[child].at = "command"
                  \/ proc[child].at = "zombie" /\ proc[child].code = command.code
        /\ pc = "idle" => status = command.code

\* execute() has one descriptor open while it reads, background() keeps one
\* for ever.
FilesInv == files = daemons + (IF call # "background" /\ pc = "read" THEN 1 ELSE 0)

ProcessInv ==
    /\ ProcessTypeOK
    /\ ChildInv
    /\ StageInv
    /\ OneCommand
    /\ ReportInv
    /\ OutputInv
    /\ StatusInv
    /\ FilesInv
    /\ DiesOnlyOfFault

-----------------------------------------------------------------------------
(* Lines.                                                                  *)

LEMMA LinesDistinct ==
    /\ \A n : Line(n) # Own /\ Line(n)[2] = n
    /\ \A m, n : Line(m) = Line(n) => m = n
<1>1. \A n : Line(n)[1] = "command" /\ Line(n)[2] = n
  BY DEF Line
<1>2. Own[1] = "own"
  BY DEF Own
<1> QED
  BY <1>1, <1>2

\* What the program's own copies write disturbs nothing.
LEMMA CollectedOwn ==
    ASSUME NEW S, NEW s \in Seq(S), NEW n \in Nat, Own \in S, Collected(s, n)
    PROVE  Collected(Append(s, Own), n)
<1> DEFINE t == Append(s, Own)
<1>1. /\ t \in Seq(S) /\ Len(t) = Len(s) + 1 /\ Len(s) \in Nat
      /\ \A i \in 1 .. Len(s) : t[i] = s[i]
      /\ t[Len(t)] = Own
  BY AppendProperties, LenProperties
<1> HIDE DEF t
<1>2. \A i \in 1 .. Len(t) : i \in 1 .. Len(s) \/ t[i] = Own
  BY <1>1
<1>3. \A i \in 1 .. Len(t) : t[i] = Own \/ \E k \in 1 .. n : t[i] = Line(k)
  BY <1>1, <1>2 DEF Collected
<1>4. \A k \in 1 .. n : \E i \in 1 .. Len(t) : t[i] = Line(k)
  BY <1>1 DEF Collected
<1>5. \A i, j \in 1 .. Len(t) : i < j /\ t[i] # Own /\ t[j] # Own => t[i][2] < t[j][2]
  BY <1>1, <1>2 DEF Collected
<1> QED
  BY <1>3, <1>4, <1>5 DEF Collected, t

\* The next line is greater than all before it.
LEMMA CollectedLine ==
    ASSUME NEW S, NEW s \in Seq(S), NEW n \in Nat, Line(n + 1) \in S, Collected(s, n)
    PROVE  Collected(Append(s, Line(n + 1)), n + 1)
<1> DEFINE t == Append(s, Line(n + 1))
<1>1. /\ t \in Seq(S) /\ Len(t) = Len(s) + 1 /\ Len(s) \in Nat
      /\ \A i \in 1 .. Len(s) : t[i] = s[i]
      /\ t[Len(t)] = Line(n + 1)
  BY AppendProperties, LenProperties
<1> HIDE DEF t
<1>2. \A i \in 1 .. Len(t) : i \in 1 .. Len(s) \/ i = Len(t)
  BY <1>1
<1>3. \A i \in 1 .. Len(t) : t[i] = Own \/ \E k \in 1 .. n + 1 : t[i] = Line(k)
  BY <1>1, <1>2 DEF Collected
<1>4. \A k \in 1 .. n + 1 : \E i \in 1 .. Len(t) : t[i] = Line(k)
  <2> TAKE k \in 1 .. n + 1
  <2>1. CASE k = n + 1
    BY <1>1, <2>1
  <2>2. CASE k \in 1 .. n
    BY <1>1, <2>2 DEF Collected
  <2> QED
    BY <2>1, <2>2
<1>5. \A i, j \in 1 .. Len(t) : i < j /\ t[i] # Own /\ t[j] # Own => t[i][2] < t[j][2]
  <2> SUFFICES ASSUME NEW i \in 1 .. Len(t), NEW j \in 1 .. Len(t),
                      i < j, t[i] # Own, t[j] # Own
               PROVE  t[i][2] < t[j][2]
    OBVIOUS
  <2>1. i \in 1 .. Len(s) /\ t[i] = s[i]
    BY <1>1
  <2>2. CASE j \in 1 .. Len(s)
    BY <1>1, <2>1, <2>2 DEF Collected
  <2>3. CASE j = Len(t)
    <3>1. PICK k \in 1 .. n : t[i] = Line(k)
      BY <2>1 DEF Collected
    <3>2. t[i][2] = k /\ t[j][2] = n + 1
      BY <1>1, <2>3, <3>1, LinesDistinct
    <3> QED
      BY <3>2
  <2> QED
    BY <1>2, <2>2, <2>3
<1> QED
  BY <1>3, <1>4, <1>5 DEF Collected, t

\* A line that is written comes at the end of all, and a line that is read
\* stays where it is.
LEMMA PipeSequence ==
    ASSUME NEW S, NEW r \in Seq(S), NEW s \in Seq(S)
    PROVE  /\ \A x \in S : r \o Append(s, x) = Append(r \o s, x)
           /\ s # <<>> => Append(r, Head(s)) \o Tail(s) = r \o s
<1>1. ASSUME NEW x \in S PROVE r \o Append(s, x) = Append(r \o s, x)
  <2>1. /\ Append(s, x) = s \o <<x>>
        /\ <<x>> \in Seq(S)
        /\ r \o s \in Seq(S)
    BY AppendProperties, ConcatProperties
  <2>2. Append(r \o s, x) = (r \o s) \o <<x>>
    BY <2>1, AppendProperties
  <2> QED
    BY <2>1, <2>2, ConcatAssociative
<1>2. ASSUME s # <<>> PROVE Append(r, Head(s)) \o Tail(s) = r \o s
  <2>1. /\ Head(s) \in S /\ Tail(s) \in Seq(S)
        /\ <<Head(s)>> \in Seq(S)
    BY <1>2, HeadTailProperties
  <2>2. Append(r, Head(s)) = r \o <<Head(s)>>
    BY <2>1, AppendProperties
  <2>3. s = <<Head(s)>> \o Tail(s)
    BY <1>2, <2>1
  <2>4. (r \o <<Head(s)>>) \o Tail(s) = r \o (<<Head(s)>> \o Tail(s))
    BY <2>1, ConcatAssociative
  <2> QED
    BY <2>2, <2>3, <2>4
<1> QED
  BY <1>1, <1>2

-----------------------------------------------------------------------------
LEMMA GoneIsProcess == Gone \in Process /\ Gone.at = "gone" /\ Gone.parent = Nil
BY DEF Gone, Process

(* A process ends.  Nobody else moves, except that a dead child is gone    *)
(* with it, and only the one that ended can be left for the program.       *)
LEMMA EndedFacts ==
    ASSUME ProcessTypeOK, NEW p \in Pid, NEW code \in 0 .. 2, proc' = Ended(p, code)
    PROVE  /\ proc' \in [Pid -> Process]
           /\ \A q \in Pid \ {p} :
                  \/ proc'[q].at = proc[q].at
                  \/ proc[q].at = "zombie" /\ proc'[q].at = "gone"
           /\ \A q \in Pid \ {p} : proc[q].parent = "opentik" => proc'[q] = proc[q]
           /\ \A q \in Pid : proc'[q].parent = "opentik" => proc[q].parent = "opentik"
           /\ proc'[p].at \in {"gone", "zombie"}
           /\ proc[p].parent = "opentik" =>
                  proc'[p].parent = "opentik" /\ proc'[p].at = "zombie" /\ proc'[p].code = code
<1> USE ProcessAssumption
<1>1. Gone \in Process /\ Gone.at = "gone" /\ Gone.parent = Nil
  BY GoneIsProcess
<1>2. \A q \in Pid :
          /\ proc[q] \in Process
          /\ [proc[q] EXCEPT !.at = "zombie", !.code = code] \in Process
          /\ [proc[q] EXCEPT !.parent = Nil] \in Process
  BY DEF ProcessTypeOK, Process
<1>3. proc' \in [Pid -> Process]
  BY <1>1, <1>2 DEF Ended
<1>4. proc'[p] = IF proc[p].parent = Nil THEN Gone
                 ELSE [proc[p] EXCEPT !.at = "zombie", !.code = code]
  BY DEF Ended
<1>5. \A q \in Pid \ {p} :
          proc'[q] = IF proc[q].parent # p THEN proc[q]
                     ELSE IF proc[q].at = "zombie" THEN Gone
                     ELSE [proc[q] EXCEPT !.parent = Nil]
  BY DEF Ended
<1>6. \A q \in Pid \ {p} :
          /\ \/ proc'[q].at = proc[q].at
             \/ proc[q].at = "zombie" /\ proc'[q].at = "gone"
          /\ proc[q].parent = "opentik" => proc'[q] = proc[q]
          /\ proc'[q].parent = "opentik" => proc[q].parent = "opentik"
  <2> SUFFICES ASSUME NEW q \in Pid \ {p}
               PROVE  /\ \/ proc'[q].at = proc[q].at
                         \/ proc[q].at = "zombie" /\ proc'[q].at = "gone"
                      /\ proc[q].parent = "opentik" => proc'[q] = proc[q]
                      /\ proc'[q].parent = "opentik" => proc[q].parent = "opentik"
    OBVIOUS
  <2> DEFINE z == [proc[q] EXCEPT !.parent = Nil]
  <2>1. z.at = proc[q].at /\ z.parent = Nil
    BY <1>2 DEF Process
  <2> QED
    BY <1>1, <1>5, <2>1
<1>7. /\ proc'[p].at \in {"gone", "zombie"}
      /\ proc'[p].parent = "opentik" => proc[p].parent = "opentik"
      /\ proc[p].parent = "opentik" =>
             proc'[p].parent = "opentik" /\ proc'[p].at = "zombie" /\ proc'[p].code = code
  <2> DEFINE z == [proc[p] EXCEPT !.at = "zombie", !.code = code]
  <2>1. z.at = "zombie" /\ z.code = code /\ z.parent = proc[p].parent
    BY <1>2 DEF Process
  <2> QED
    BY <1>1, <1>4, <2>1
<1> QED
  BY <1>3, <1>6, <1>7

-----------------------------------------------------------------------------
(* The program's own steps.                                                *)

LEMMA InitProcessInv == Init => ProcessInv
<1> SUFFICES ASSUME Init PROVE ProcessInv
  OBVIOUS
<1> USE ProcessAssumption DEF Init
<1>1. \A p \in Pid : proc[p] \in Process /\ proc[p].at = "gone" /\ proc[p].parent = Nil
  BY GoneIsProcess
<1>2. ProcessTypeOK
  <2>1. command \in [pid : Pid \cup {Nil}, wrote : 0 .. MaxLines, code : {0, 1, Nil}]
    BY DEF NoCommand
  <2>2. proc \in [Pid -> Process]
    BY <1>1
  <2>3. /\ pipe \in Seq(Lines \cup Pid) /\ Len(pipe) <= Capacity
        /\ output \in Seq(Lines \cup Pid)
    BY EmptySeq
  <2>4. input \in 0 .. Capacity /\ fed \in 0 .. StdinLines
    OBVIOUS
  <2>5. files \in 0 .. MaxFiles /\ daemons \in 0 .. MaxDaemons
    OBVIOUS
  <2> QED
    BY <2>1, <2>2, <2>3, <2>4, <2>5 DEF ProcessTypeOK
<1>3. call \notin {"execute", "execute_stdin", "background"} \/ command = NoCommand
  OBVIOUS
<1>4. ChildInv /\ StageInv /\ OneCommand
  BY <1>1 DEF ChildInv, StageInv, OneCommand
<1>5. command.pid = Nil /\ command.wrote = 0 /\ command.code = Nil
  BY DEF NoCommand
<1>6. Collected(output \o pipe, 0)
  BY DEF Collected
<1>7. ReportInv /\ OutputInv /\ StatusInv
  BY <1>5, <1>6 DEF ReportInv, OutputInv, StatusInv
<1> QED
  BY <1>2, <1>4, <1>7 DEF ProcessInv, FilesInv, DiesOnlyOfFault

\* Between two calls no process is at a place of run.lua that belongs to one.
LEMMA IdleStages ==
    ASSUME ProcessInv, pc \notin {"read", "wait"}, NEW p \in Pid
    PROVE  /\ proc[p].at \in {"gone", "launch", "daemon", "zombie"}
           /\ proc[p].parent # "opentik"
<1>1. proc[p] \in Process
  BY DEF ProcessInv, ProcessTypeOK
<1> QED
  BY <1>1 DEF ProcessInv, StageInv, ChildInv, Process

LEMMA CallInv ==
    ASSUME ProcessInv, NEW c \in Calls, Call(c)
    PROVE  ProcessInv'
<1> USE ProcessAssumption
<1>1. /\ pc = "idle" /\ call' = c /\ pipe' = <<>> /\ output' = <<>> /\ command' = NoCommand
      /\ input' = 0 /\ fed' = 0 /\ status' = Nil
      /\ c = "background" => daemons < MaxDaemons
  BY DEF Call
<1>2. /\ command' \in [pid : Pid \cup {Nil}, wrote : 0 .. MaxLines, code : {0, 1, Nil}]
      /\ command'.pid = Nil /\ command'.wrote = 0 /\ command'.code = Nil
  BY <1>1 DEF NoCommand
<1>3. /\ pipe' \in Seq(Lines \cup Pid) /\ Len(pipe') <= Capacity
      /\ output' \in Seq(Lines \cup Pid)
      /\ input' \in 0 .. Capacity /\ fed' \in 0 .. StdinLines
  BY <1>1, EmptySeq
<1>4. OutputInv' /\ StatusInv'
  <2>1. Collected(output' \o pipe', 0)
    BY <1>1 DEF Collected
  <2> QED
    BY <1>1, <1>2, <2>1 DEF OutputInv, StatusInv
<1>5. files = daemons /\ daemons \in 0 .. MaxDaemons /\ files \in 0 .. MaxFiles
  BY <1>1 DEF ProcessInv, FilesInv, ProcessTypeOK
<1>6. CASE pc' = "dead" /\ child' = Nil /\ faulty' = FALSE /\ files + 2 > MaxFiles
           /\ UNCHANGED <<proc, files, daemons>>
  <2>1. ProcessTypeOK'
    BY <1>1, <1>2, <1>3, <1>6 DEF ProcessInv, ProcessTypeOK
  <2>2. ChildInv' /\ StageInv' /\ OneCommand'
    BY <1>1, <1>6, IdleStages DEF ChildInv, StageInv, OneCommand
  <2>3. ReportInv' /\ FilesInv' /\ DiesOnlyOfFault'
    BY <1>1, <1>2, <1>5, <1>6 DEF ReportInv, FilesInv, DiesOnlyOfFault
  <2> QED
    BY <1>4, <2>1, <2>2, <2>3 DEF ProcessInv
<1>7. CASE /\ files + 2 <= MaxFiles /\ pc' = "read" /\ files' = files + 1
           /\ daemons' = IF c = "background" THEN daemons + 1 ELSE daemons
           /\ \E p \in Free : /\ child' = p /\ faulty' = FALSE
                              /\ proc' = [proc EXCEPT ![p] = Forked("opentik", First[c])]
  <2>1. PICK p \in Free : /\ child' = p /\ faulty' = FALSE
                          /\ proc' = [proc EXCEPT ![p] = Forked("opentik", First[c])]
    BY <1>7
  <2>2. p \in Pid
    BY DEF Free
  <2>3. First[c] = CASE c = "execute" -> "run"
                     [] c = "execute_stdin" -> "fork"
                     [] OTHER -> "setup"
    BY DEF First
  <2>4. First[c] \in {"run", "fork", "setup"}
    BY <2>3
  <2>5. /\ proc'[p] = Forked("opentik", First[c])
        /\ \A q \in Pid \ {p} : proc'[q] = proc[q]
        /\ proc' \in [Pid -> Process]
    <3>1. Forked("opentik", First[c]) \in Process
      BY <2>4 DEF Forked, Process
    <3> QED
      BY <2>1, <2>2, <3>1 DEF ProcessInv, ProcessTypeOK
  <2>6. proc'[p].at = First[c] /\ proc'[p].parent = "opentik"
    BY <2>5 DEF Forked
  <2>7. \A q \in Pid \ {p} : /\ proc'[q].at \in {"gone", "launch", "daemon", "zombie"}
                             /\ proc'[q].parent # "opentik"
    BY <1>1, <2>5, IdleStages
  <2>8. ProcessTypeOK'
    <3>1. files' \in 0 .. MaxFiles /\ daemons' \in 0 .. MaxDaemons
      BY <1>1, <1>5, <1>7
    <3> QED
      BY <1>1, <1>2, <1>3, <1>7, <2>1, <2>2, <2>5, <3>1 DEF ProcessTypeOK
  <2>9. ChildInv'
    BY <1>7, <2>1, <2>2, <2>4, <2>6, <2>7 DEF ChildInv
  <2>10. StageInv'
    BY <1>1, <1>2, <1>7, <2>1, <2>2, <2>3, <2>6, <2>7 DEF StageInv, Executes
  <2>11. OneCommand'
    BY <2>7 DEF OneCommand
  <2>12. ReportInv'
    BY <1>1, <1>2, <2>2, <2>3, <2>6 DEF ReportInv
  <2>13. FilesInv' /\ DiesOnlyOfFault'
    BY <1>1, <1>5, <1>7 DEF FilesInv, Executes, DiesOnlyOfFault
  <2> QED
    BY <1>4, <2>8, <2>9, <2>10, <2>11, <2>12, <2>13 DEF ProcessInv
<1>8. CASE /\ files + 2 <= MaxFiles /\ pc' = "read" /\ files' = files + 1
           /\ daemons' = IF c = "background" THEN daemons + 1 ELSE daemons
           /\ child' = Nil /\ faulty' = TRUE /\ UNCHANGED proc
  <2>1. ProcessTypeOK'
    BY <1>1, <1>2, <1>3, <1>5, <1>8 DEF ProcessInv, ProcessTypeOK
  <2>2. ChildInv' /\ StageInv' /\ OneCommand'
    BY <1>1, <1>8, IdleStages DEF ChildInv, StageInv, OneCommand
  <2>3. ReportInv' /\ FilesInv' /\ DiesOnlyOfFault'
    BY <1>1, <1>2, <1>5, <1>8 DEF ReportInv, FilesInv, Executes, DiesOnlyOfFault
  <2> QED
    BY <1>4, <2>1, <2>2, <2>3 DEF ProcessInv
<1> QED
  BY <1>6, <1>7, <1>8 DEF Call

\* What is read was in front: background() finds the id in the pipe only
\* when the process that wrote it has gone on to the daemon.
LEMMA ReadLineInv == ProcessInv /\ ReadLine => ProcessInv'
<1> SUFFICES ASSUME ProcessInv, ReadLine PROVE ProcessInv'
  OBVIOUS
<1> USE ProcessAssumption
<1>1. /\ pc = "read" /\ pipe # <<>>
      /\ output' = Append(output, Head(pipe)) /\ pipe' = Tail(pipe)
      /\ pc' = IF call = "background" THEN "wait" ELSE "read"
      /\ UNCHANGED <<call, child, proc, input, fed, status, files, daemons, faulty, command>>
  BY DEF ReadLine
<1>2. pipe \in Seq(Lines \cup Pid) /\ output \in Seq(Lines \cup Pid) /\ Len(pipe) <= Capacity
  BY DEF ProcessInv, ProcessTypeOK
<1>3. /\ output' \in Seq(Lines \cup Pid) /\ pipe' \in Seq(Lines \cup Pid)
      /\ Len(pipe') <= Capacity
  <2>1. /\ Head(pipe) \in Lines \cup Pid /\ Tail(pipe) \in Seq(Lines \cup Pid)
        /\ Len(Tail(pipe)) = Len(pipe) - 1
    BY <1>1, <1>2, HeadTailProperties
  <2>2. Append(output, Head(pipe)) \in Seq(Lines \cup Pid)
    BY <1>2, <2>1, AppendProperties
  <2>3. Len(pipe) \in Nat
    BY <1>2, LenProperties
  <2> QED
    BY <1>1, <1>2, <2>1, <2>2, <2>3
<1>4. output' \o pipe' = output \o pipe
  BY <1>1, <1>2, PipeSequence
<1>5. ASSUME call = "background"
      PROVE  /\ command.pid # Nil /\ pipe = <<command.pid>> /\ output = <<>>
             /\ output' = <<command.pid>> /\ pipe' = <<>>
  <2>1. command.pid # Nil /\ pipe = <<command.pid>> /\ output = <<>>
    BY <1>1, <1>5 DEF ProcessInv, ReportInv
  <2>2. Head(pipe) = command.pid /\ Tail(pipe) = <<>>
    BY <2>1
  <2>3. Append(<<>>, command.pid) = <<command.pid>>
    OBVIOUS
  <2> QED
    BY <1>1, <2>1, <2>2, <2>3
<1>6. ProcessTypeOK'
  BY <1>1, <1>3 DEF ProcessInv, ProcessTypeOK
<1>7. ChildInv' /\ OneCommand'
  BY <1>1 DEF ProcessInv, ChildInv, OneCommand
<1>8. StageInv'
  BY <1>1, <1>5 DEF ProcessInv, StageInv, Executes
<1>9. ReportInv'
  BY <1>1, <1>5 DEF ProcessInv, ReportInv
<1>10. OutputInv' /\ StatusInv'
  BY <1>1, <1>4, <1>5 DEF ProcessInv, OutputInv, StatusInv, Executes
<1>11. FilesInv' /\ DiesOnlyOfFault'
  BY <1>1 DEF ProcessInv, FilesInv, DiesOnlyOfFault, Executes
<1> QED
  BY <1>6, <1>7, <1>8, <1>9, <1>10, <1>11 DEF ProcessInv

\* At the end of the file nobody is left who could write.
LEMMA ReadEndInv == ProcessInv /\ ReadEnd => ProcessInv'
<1> SUFFICES ASSUME ProcessInv, ReadEnd PROVE ProcessInv'
  OBVIOUS
<1> USE ProcessAssumption
<1>1. /\ pc = "read" /\ pipe = <<>> /\ pc' = "wait"
      /\ files' = IF call = "background" THEN files ELSE files - 1
      /\ UNCHANGED <<call, child, proc, pipe, input, fed, output, status, daemons, faulty, command>>
  BY DEF ReadEnd, EndOfFile
<1>2. \A p \in Pid : IF call = "background" THEN proc[p].at \notin {"setup", "leave", "report"}
                     ELSE proc[p].at \notin {"fork", "feed", "run", "command"}
  BY DEF ReadEnd, EndOfFile, Writers
<1>3. files' \in 0 .. MaxFiles /\ files' = daemons'
  BY <1>1 DEF ProcessInv, ProcessTypeOK, FilesInv
<1>4. ProcessTypeOK'
  BY <1>1, <1>3 DEF ProcessInv, ProcessTypeOK
<1>5. ChildInv' /\ OneCommand' /\ StatusInv'
  BY <1>1 DEF ProcessInv, ChildInv, OneCommand, StatusInv
<1>6. StageInv'
  BY <1>1, <1>2 DEF ProcessInv, StageInv, Executes
<1>7. ReportInv' /\ OutputInv'
  BY <1>1 DEF ProcessInv, ReportInv, OutputInv, Executes
<1>8. FilesInv' /\ DiesOnlyOfFault'
  BY <1>1, <1>3 DEF FilesInv, DiesOnlyOfFault
<1> QED
  BY <1>4, <1>5, <1>6, <1>7, <1>8 DEF ProcessInv

\* Whom the program waits for has ended, and nobody else is its child.
LEMMA WaitInv == ProcessInv /\ Wait => ProcessInv'
<1> SUFFICES ASSUME ProcessInv, Wait PROVE ProcessInv'
  OBVIOUS
<1> USE ProcessAssumption
<1>1. /\ pc = "wait"
      /\ child # Nil => proc[child].at = "zombie"
      /\ pc' = IF call = "background" /\ output = <<>> THEN "dead" ELSE "idle"
      /\ status' = IF child # Nil THEN proc[child].code ELSE 2
      /\ proc' = IF child # Nil THEN [proc EXCEPT ![child] = Gone] ELSE proc
      /\ UNCHANGED <<call, child, pipe, input, fed, output, files, daemons, faulty, command>>
  BY DEF Wait, AfterWait
<1>2. proc \in [Pid -> Process] /\ child \in Pid \cup {Nil}
  BY DEF ProcessInv, ProcessTypeOK
<1>3. proc' \in [Pid -> Process]
  BY <1>1, <1>2, GoneIsProcess
<1>4. status' \in {0, 1, 2, Nil}
  BY <1>1, <1>2 DEF Process
<1>5. \A p \in Pid : p # child => proc'[p] = proc[p]
  BY <1>1, <1>2
<1>6. child # Nil => proc'[child].at = "gone" /\ proc'[child].parent # "opentik"
  BY <1>1, <1>2, GoneIsProcess
<1>7. \A p \in Pid : proc'[p].parent # "opentik"
  BY <1>1, <1>2, <1>5, <1>6 DEF ProcessInv, ChildInv
<1>8. \A p \in Pid : proc'[p].at \in {"gone", "launch", "daemon", "zombie"}
  <2> TAKE p \in Pid
  <2>1. CASE p = child
    BY <1>6, <2>1
  <2>2. CASE p # child
    BY <1>1, <1>2, <1>5, <2>2 DEF ProcessInv, StageInv, Process
  <2> QED
    BY <2>1, <2>2
<1>9. ProcessTypeOK'
  BY <1>1, <1>3, <1>4 DEF ProcessInv, ProcessTypeOK
<1>10. ChildInv' /\ StageInv' /\ OneCommand'
  BY <1>1, <1>7, <1>8 DEF ChildInv, StageInv, OneCommand
<1>11. ReportInv' /\ OutputInv'
  BY <1>1 DEF ProcessInv, ReportInv, OutputInv, Executes
<1>12. StatusInv'
  BY <1>1, <1>2 DEF ProcessInv, StatusInv
<1>13. FilesInv'
  BY <1>1 DEF ProcessInv, FilesInv
<1>14. DiesOnlyOfFault'
  <2> SUFFICES ASSUME call = "background", output = <<>>, ~faulty
               PROVE  FALSE
    BY <1>1 DEF DiesOnlyOfFault
  <2>1. \E p \in Pid : proc[p].at \in {"setup", "report"}
    BY <1>1 DEF ProcessInv, ReportInv, OutputInv
  <2> QED
    BY <1>1, <2>1 DEF ProcessInv, StageInv
<1> QED
  BY <1>9, <1>10, <1>11, <1>12, <1>13, <1>14 DEF ProcessInv

-----------------------------------------------------------------------------
(* The processes' steps.                                                   *)

\* A process that ends takes the place of nobody.
LEMMA EndedStages ==
    ASSUME ProcessInv, NEW p \in Pid, NEW code \in 0 .. 2, proc' = Ended(p, code)
    PROVE  \A q \in Pid : proc'[q].at \notin {"gone", "zombie"} =>
                              q # p /\ proc'[q].at = proc[q].at
<1>1. ProcessTypeOK
  BY DEF ProcessInv
<1> QED
  BY <1>1, EndedFacts

\* The conjuncts that only look at the processes, when one ends that is not
\* the last to send the daemon's id.
LEMMA EndedInv ==
    ASSUME ProcessInv, NEW p \in Pid, NEW code \in 0 .. 2, proc' = Ended(p, code),
           pc' = pc, child' = child
    PROVE  proc' \in [Pid -> Process] /\ ChildInv' /\ OneCommand'
<1> USE ProcessAssumption
<1>0. ProcessTypeOK /\ ChildInv /\ OneCommand
  BY DEF ProcessInv
<1>1. /\ proc' \in [Pid -> Process]
      /\ \A q \in Pid : proc'[q].parent = "opentik" => proc[q].parent = "opentik"
      /\ \A q \in Pid \ {p} : proc[q].parent = "opentik" => proc'[q] = proc[q]
      /\ proc[p].parent = "opentik" => proc'[p].parent = "opentik" /\ proc'[p].at = "zombie"
  BY <1>0, EndedFacts
<1>2. ChildInv'
  <2>1. child \in Pid \cup {Nil}
    BY <1>0 DEF ProcessTypeOK
  <2>2. CASE child = p
    BY <1>0, <1>1, <2>2 DEF ChildInv
  <2>3. CASE child # p
    BY <1>0, <1>1, <2>1, <2>3 DEF ChildInv
  <2> QED
    BY <2>2, <2>3
<1>3. OneCommand'
  BY <1>0, EndedStages DEF OneCommand
<1> QED
  BY <1>1, <1>2, <1>3

LEMMA ForkCommandInv ==
    ASSUME ProcessInv, NEW p \in Pid, ForkCommand(p)
    PROVE  ProcessInv'
<1> USE ProcessAssumption
<1>1. /\ proc[p].at = "fork" /\ proc \in [Pid -> Process]
      /\ UNCHANGED <<pc, call, child, pipe, input, fed, output, status, files, daemons, command>>
  BY DEF ForkCommand, ProcessInv, ProcessTypeOK
<1>2. /\ pc = "read" /\ call = "execute_stdin" /\ p = child /\ command.pid = Nil
      /\ \A r \in Pid : proc[r].at \in {"fork", "run", "command"} => r = p
  BY <1>1 DEF ProcessInv, StageInv, OneCommand
<1>3. /\ proc' \in [Pid -> Process] /\ faulty' \in BOOLEAN
      /\ proc'[p].at = "feed" /\ proc'[p].parent = proc[p].parent
      /\ \A r \in Pid : \/ r = p
                        \/ proc'[r] = proc[r]
                        \/ proc'[r].at = "run" /\ proc'[r].parent = p /\ proc[r].at = "gone"
      /\ \A r, s \in Pid : proc'[r].at = "run" /\ proc'[s].at = "run" => r = s
  <2>1. [proc[p] EXCEPT !.at = "feed"] \in Process
    BY <1>1 DEF Process
  <2>2. CASE /\ proc' = [proc EXCEPT ![p].at = "feed"]
             /\ faulty' = TRUE
    <3>1. proc'[p] = [proc[p] EXCEPT !.at = "feed"] /\ \A r \in Pid \ {p} : proc'[r] = proc[r]
      BY <1>1, <2>2
    <3>2. proc'[p].at = "feed" /\ proc'[p].parent = proc[p].parent
      BY <1>1, <3>1 DEF Process
    <3>3. proc' \in [Pid -> Process]
      BY <1>1, <2>1, <2>2
    <3> QED
      BY <1>2, <2>2, <3>1, <3>2, <3>3
  <2>3. CASE \E q \in Free : /\ proc' = [proc EXCEPT ![p].at = "feed", ![q] = Forked(p, "run")]
                             /\ UNCHANGED faulty
    <3>1. PICK q \in Free : /\ proc' = [proc EXCEPT ![p].at = "feed", ![q] = Forked(p, "run")]
                            /\ UNCHANGED faulty
      BY <2>3
    <3>2. q \in Pid /\ proc[q].at = "gone" /\ q # p
      BY <1>1 DEF Free
    <3>3. Forked(p, "run") \in Process /\ Forked(p, "run").at = "run" /\ Forked(p, "run").parent = p
      BY DEF Forked, Process
    <3>4. /\ proc'[p] = [proc[p] EXCEPT !.at = "feed"] /\ proc'[q] = Forked(p, "run")
          /\ \A r \in Pid \ {p, q} : proc'[r] = proc[r]
      BY <1>1, <3>1, <3>2
    <3>5. proc'[p].at = "feed" /\ proc'[p].parent = proc[p].parent
      BY <1>1, <3>4 DEF Process
    <3>6. proc' \in [Pid -> Process]
      BY <1>1, <2>1, <3>1, <3>2, <3>3
    <3>7. faulty' \in BOOLEAN
      BY <3>1 DEF ProcessInv, ProcessTypeOK
    <3>8. \A r \in Pid : proc'[r].at = "run" => r = q
      <4> SUFFICES ASSUME NEW r \in Pid \ {q}, proc'[r].at = "run" PROVE FALSE
        OBVIOUS
      <4>1. r # p
        BY <3>5
      <4>2. proc[r].at = "run"
        BY <3>4, <4>1
      <4> QED
        BY <1>2, <4>1, <4>2
    <3> QED
      BY <3>2, <3>3, <3>4, <3>5, <3>6, <3>7, <3>8
  <2> QED
    BY <2>2, <2>3 DEF ForkCommand
<1>4. ProcessTypeOK'
  BY <1>1, <1>3 DEF ProcessInv, ProcessTypeOK
<1>5. ChildInv'
  BY <1>1, <1>2, <1>3 DEF ProcessInv, ChildInv
<1>6. StageInv'
  BY <1>1, <1>2, <1>3 DEF ProcessInv, StageInv, Executes
<1>7. OneCommand'
  BY <1>2, <1>3 DEF OneCommand
<1>8. ReportInv' /\ OutputInv' /\ StatusInv'
  BY <1>1, <1>2 DEF ProcessInv, ReportInv, OutputInv, StatusInv, Executes
<1>9. FilesInv' /\ DiesOnlyOfFault'
  BY <1>1, <1>2 DEF ProcessInv, FilesInv, DiesOnlyOfFault
<1> QED
  BY <1>4, <1>5, <1>6, <1>7, <1>8, <1>9 DEF ProcessInv

LEMMA FeedInv ==
    ASSUME ProcessInv, NEW p \in Pid, Feed(p)
    PROVE  ProcessInv'
<1> USE ProcessAssumption
<1>1. /\ proc[p].at = "feed"
      /\ UNCHANGED <<pc, call, child, pipe, output, status, files, daemons, faulty, command>>
  BY DEF Feed
<1>2. pc = "read" /\ call = "execute_stdin"
  BY <1>1 DEF ProcessInv, StageInv
<1>3. ReportInv' /\ OutputInv' /\ StatusInv' /\ FilesInv' /\ DiesOnlyOfFault'
  BY <1>1, <1>2 DEF ProcessInv, ReportInv, OutputInv, StatusInv, FilesInv, DiesOnlyOfFault, Executes
<1>4. CASE input < Capacity /\ fed < StdinLines /\ input' = input + 1 /\ fed' = fed + 1 /\ UNCHANGED proc
  <2>1. input' \in 0 .. Capacity /\ fed' \in 0 .. StdinLines
    BY <1>4 DEF ProcessInv, ProcessTypeOK
  <2>2. ProcessTypeOK'
    BY <1>1, <1>4, <2>1 DEF ProcessInv, ProcessTypeOK
  <2>3. ChildInv' /\ StageInv' /\ OneCommand'
    BY <1>1, <1>4 DEF ProcessInv, ChildInv, StageInv, OneCommand, Executes
  <2> QED
    BY <1>3, <2>2, <2>3 DEF ProcessInv
<1>5. CASE proc' = Ended(p, 2) /\ UNCHANGED <<input, fed>>
  <2>1. proc' \in [Pid -> Process] /\ ChildInv' /\ OneCommand'
    <3>1. 2 \in 0 .. 2 /\ pc' = pc /\ child' = child
      BY <1>1
    <3> QED
      BY <1>5, <3>1, EndedInv
  <2>2. ProcessTypeOK'
    BY <1>1, <1>5, <2>1 DEF ProcessInv, ProcessTypeOK
  <2>3. \A q \in Pid : proc'[q].at \notin {"gone", "zombie"} => proc'[q].at = proc[q].at
    BY <1>5, EndedStages
  <2>4. StageInv'
    BY <1>1, <2>3 DEF ProcessInv, StageInv, Executes
  <2> QED
    BY <1>3, <2>1, <2>2, <2>4 DEF ProcessInv
<1> QED
  BY <1>4, <1>5 DEF Feed

\* A traceback, or "unable to exec", behind what the command wrote.
LEMMA OwnLine ==
    ASSUME ProcessInv, Executes, pc = "read", Len(pipe) < Capacity, pipe' = Append(pipe, Own),
           UNCHANGED <<pc, call, output, command>>
    PROVE  pipe' \in Seq(Lines \cup Pid) /\ Len(pipe') <= Capacity /\ OutputInv'
<1> USE ProcessAssumption
<1>1. /\ pipe \in Seq(Lines \cup Pid) /\ output \in Seq(Lines \cup Pid)
      /\ command.wrote \in Nat /\ Own \in Lines \cup Pid
  BY DEF ProcessInv, ProcessTypeOK, Lines
<1>2. /\ pipe' \in Seq(Lines \cup Pid) /\ Len(pipe') = Len(pipe) + 1 /\ Len(pipe) \in Nat
  BY <1>1, AppendProperties, LenProperties
<1>3. output' \o pipe' = Append(output \o pipe, Own)
  BY <1>1, PipeSequence
<1>4. output \o pipe \in Seq(Lines \cup Pid)
  BY <1>1, ConcatProperties
<1>5. Collected(output' \o pipe', command.wrote)
  BY <1>1, <1>3, <1>4, CollectedOwn DEF ProcessInv, OutputInv
<1> QED
  BY <1>2, <1>5 DEF ProcessInv, OutputInv, Executes

LEMMA FallThroughInv ==
    ASSUME ProcessInv, NEW p \in Pid, FallThrough(p)
    PROVE  ProcessInv'
<1> USE ProcessAssumption
<1>1. /\ proc[p].at = "feed" /\ Len(pipe) < Capacity
      /\ pipe' = Append(pipe, Own) /\ proc' = Ended(p, 1)
      /\ UNCHANGED <<pc, call, child, input, fed, output, status, files, daemons, faulty, command>>
  BY DEF FallThrough
<1>2. pc = "read" /\ call = "execute_stdin"
  BY <1>1 DEF ProcessInv, StageInv
<1>3. pipe' \in Seq(Lines \cup Pid) /\ Len(pipe') <= Capacity /\ OutputInv'
  BY <1>1, <1>2, OwnLine DEF Executes
<1>4. proc' \in [Pid -> Process] /\ ChildInv' /\ OneCommand'
  <2>1. 1 \in 0 .. 2 /\ pc' = pc /\ child' = child
    BY <1>1
  <2> QED
    BY <1>1, <2>1, EndedInv
<1>5. ProcessTypeOK'
  BY <1>1, <1>3, <1>4 DEF ProcessInv, ProcessTypeOK
<1>6. StageInv'
  <2>1. \A q \in Pid : proc'[q].at \notin {"gone", "zombie"} => proc'[q].at = proc[q].at
    BY <1>1, EndedStages
  <2> QED
    BY <1>1, <1>2, <2>1 DEF ProcessInv, StageInv, Executes
<1>7. ReportInv' /\ StatusInv' /\ FilesInv' /\ DiesOnlyOfFault'
  BY <1>1, <1>2 DEF ProcessInv, ReportInv, StatusInv, FilesInv, DiesOnlyOfFault
<1> QED
  BY <1>3, <1>4, <1>5, <1>6, <1>7 DEF ProcessInv

LEMMA ExecCommandInv ==
    ASSUME ProcessInv, NEW p \in Pid, ExecCommand(p)
    PROVE  ProcessInv'
<1> USE ProcessAssumption
<1>1. /\ proc[p].at = "run"
      /\ UNCHANGED <<pc, call, child, input, fed, output, status, files, daemons>>
  BY DEF ExecCommand
<1>2. /\ pc = "read" /\ Executes /\ command.pid = Nil
      /\ call = "execute" => p = child /\ pipe = <<>> /\ output = <<>>
      /\ \A r \in Pid : proc[r].at \in {"fork", "run", "command"} => r = p
  BY <1>1 DEF ProcessInv, StageInv, OneCommand
<1>3. call # "background" /\ pc' = pc /\ call' = call /\ pc' # "dead"
  BY <1>1, <1>2 DEF Executes
<1>4. ReportInv' /\ FilesInv' /\ DiesOnlyOfFault'
  BY <1>1, <1>3 DEF ProcessInv, ReportInv, FilesInv, DiesOnlyOfFault
<1>5. CASE /\ proc' = [proc EXCEPT ![p].at = "command"]
           /\ command' = [command EXCEPT !.pid = p]
           /\ UNCHANGED <<pipe, faulty>>
  <2>1. /\ proc \in [Pid -> Process]
        /\ command \in [pid : Pid \cup {Nil}, wrote : 0 .. MaxLines, code : {0, 1, Nil}]
        /\ command.wrote = 0
    BY <1>2 DEF ProcessInv, ProcessTypeOK, OutputInv
  <2>2. /\ proc'[p] = [proc[p] EXCEPT !.at = "command"]
        /\ \A q \in Pid \ {p} : proc'[q] = proc[q]
    BY <1>5, <2>1
  <2>3. /\ proc'[p] \in Process /\ proc'[p].at = "command" /\ proc'[p].parent = proc[p].parent
        /\ proc' \in [Pid -> Process]
    <3>1. /\ [proc[p] EXCEPT !.at = "command"] \in Process
          /\ [proc[p] EXCEPT !.at = "command"].at = "command"
          /\ [proc[p] EXCEPT !.at = "command"].parent = proc[p].parent
      BY <2>1 DEF Process
    <3> QED
      BY <1>5, <2>1, <2>2, <3>1
  <2>4. /\ command'.pid = p /\ command'.wrote = 0 /\ command'.code = command.code
        /\ command' \in [pid : Pid \cup {Nil}, wrote : 0 .. MaxLines, code : {0, 1, Nil}]
    BY <1>5, <2>1
  <2>5. command.code = Nil
    BY <1>2 DEF ProcessInv, OutputInv
  <2>6. ProcessTypeOK'
    BY <1>1, <1>5, <2>3, <2>4 DEF ProcessInv, ProcessTypeOK
  <2>7. ChildInv'
    <3>1. \A q \in Pid : /\ proc'[q].parent = proc[q].parent
                         /\ proc[q].at # "gone" => proc'[q].at # "gone"
      BY <2>2, <2>3
    <3>2. child \in Pid \cup {Nil}
      BY DEF ProcessInv, ProcessTypeOK
    <3> QED
      BY <1>1, <3>1, <3>2 DEF ProcessInv, ChildInv
  <2>8. \A q \in Pid \ {p} : proc'[q].at \notin {"fork", "run", "command"}
    BY <1>2, <2>2
  <2>9. StageInv'
    BY <1>1, <1>2, <1>3, <1>5, <2>2, <2>3, <2>4, <2>5, <2>8 DEF ProcessInv, StageInv, Executes
  <2>10. OneCommand'
    BY <2>8 DEF OneCommand
  <2>11. OutputInv'
    BY <1>1, <1>5, <2>1, <2>4 DEF ProcessInv, OutputInv, Executes
  <2>12. StatusInv'
    BY <1>1, <1>2, <1>5, <2>3, <2>4 DEF ProcessInv, StatusInv
  <2> QED
    BY <1>4, <2>6, <2>7, <2>9, <2>10, <2>11, <2>12 DEF ProcessInv
<1>6. CASE /\ Len(pipe) < Capacity /\ pipe' = Append(pipe, Own)
           /\ proc' = Ended(p, 1) /\ faulty' = TRUE /\ UNCHANGED command
  <2>1. pipe' \in Seq(Lines \cup Pid) /\ Len(pipe') <= Capacity /\ OutputInv'
    BY <1>1, <1>2, <1>6, OwnLine
  <2>2. proc' \in [Pid -> Process] /\ ChildInv' /\ OneCommand'
    <3>1. 1 \in 0 .. 2 /\ pc' = pc /\ child' = child
      BY <1>1
    <3> QED
      BY <1>6, <3>1, EndedInv
  <2>3. ProcessTypeOK'
    BY <1>1, <1>6, <2>1, <2>2 DEF ProcessInv, ProcessTypeOK
  <2>4. \A q \in Pid : proc'[q].at \notin {"gone", "zombie"} => q # p /\ proc'[q].at = proc[q].at
    BY <1>6, EndedStages
  <2>5. StageInv'
    BY <1>1, <1>2, <1>3, <1>6, <2>4 DEF ProcessInv, StageInv, Executes
  <2>6. StatusInv'
    BY <1>2, <1>6 DEF StatusInv
  <2> QED
    BY <1>4, <2>1, <2>2, <2>3, <2>5, <2>6 DEF ProcessInv
<1> QED
  BY <1>5, <1>6 DEF ExecCommand

LEMMA CommandReadsInv ==
    ASSUME ProcessInv, NEW p \in Pid, CommandReads(p)
    PROVE  ProcessInv'
<1> USE ProcessAssumption DEF CommandReads
<1>1. input' \in 0 .. Capacity
  BY DEF ProcessInv, ProcessTypeOK
<1>2. ProcessTypeOK'
  BY <1>1 DEF ProcessInv, ProcessTypeOK
<1>3. ChildInv' /\ StageInv' /\ OneCommand'
  BY DEF ProcessInv, ChildInv, StageInv, OneCommand, Executes
<1>4. ReportInv' /\ OutputInv' /\ StatusInv' /\ FilesInv' /\ DiesOnlyOfFault'
  BY DEF ProcessInv, ReportInv, OutputInv, StatusInv, FilesInv, DiesOnlyOfFault, Executes
<1> QED
  BY <1>2, <1>3, <1>4 DEF ProcessInv

LEMMA CommandWritesInv ==
    ASSUME ProcessInv, NEW p \in Pid, CommandWrites(p)
    PROVE  ProcessInv'
<1> USE ProcessAssumption
<1>1. /\ proc[p].at = "command" /\ command.wrote < MaxLines /\ Len(pipe) < Capacity
      /\ pipe' = Append(pipe, Line(command.wrote + 1))
      /\ command' = [command EXCEPT !.wrote = @ + 1]
      /\ UNCHANGED <<pc, call, child, proc, input, fed, output, status, files, daemons, faulty>>
  BY DEF CommandWrites
<1>2. /\ pc = "read" /\ Executes /\ p = command.pid /\ call # "background"
      /\ \A r \in Pid : proc[r].at \in {"fork", "run", "command"} => r = p
  BY <1>1 DEF ProcessInv, StageInv, OneCommand, Executes
<1>3. /\ pipe \in Seq(Lines \cup Pid) /\ output \in Seq(Lines \cup Pid)
      /\ command \in [pid : Pid \cup {Nil}, wrote : 0 .. MaxLines, code : {0, 1, Nil}]
  BY DEF ProcessInv, ProcessTypeOK
<1>4. /\ command.wrote \in Nat /\ command.wrote + 1 \in 1 .. MaxLines
      /\ command'.pid = command.pid /\ command'.code = command.code
      /\ command'.wrote = command.wrote + 1
      /\ command' \in [pid : Pid \cup {Nil}, wrote : 0 .. MaxLines, code : {0, 1, Nil}]
  <2>1. command.wrote \in Nat /\ command.wrote + 1 \in 1 .. MaxLines
    BY <1>1, <1>3
  <2>2. command' = [command EXCEPT !.wrote = command.wrote + 1]
    BY <1>1
  <2> DEFINE w == command.wrote + 1
  <2>3. w \in 0 .. MaxLines /\ command' = [command EXCEPT !.wrote = w]
    BY <2>1, <2>2
  <2> HIDE DEF w
  <2>4. /\ command'.pid = command.pid /\ command'.code = command.code /\ command'.wrote = w
        /\ command' \in [pid : Pid \cup {Nil}, wrote : 0 .. MaxLines, code : {0, 1, Nil}]
    BY <1>3, <2>3
  <2> QED
    BY <2>1, <2>4 DEF w
<1>5. Line(command.wrote + 1) \in Lines \cup Pid
  BY <1>4 DEF Lines
<1>6. pipe' \in Seq(Lines \cup Pid) /\ Len(pipe') = Len(pipe) + 1 /\ Len(pipe) \in Nat
  BY <1>1, <1>3, <1>5, AppendProperties, LenProperties
<1>7. output \o pipe \in Seq(Lines \cup Pid)
  BY <1>3, ConcatProperties
<1>8. /\ output' \o pipe' = Append(output \o pipe, Line(command.wrote + 1))
      /\ Len(output' \o pipe') = Len(output \o pipe) + 1
  <2> DEFINE x == Line(command.wrote + 1)
  <2>1. x \in Lines \cup Pid /\ pipe' = Append(pipe, x) /\ output' = output
    BY <1>1, <1>5
  <2> HIDE DEF x
  <2>2. output' \o pipe' = Append(output \o pipe, x)
    BY <1>3, <2>1, PipeSequence
  <2>3. Len(Append(output \o pipe, x)) = Len(output \o pipe) + 1
    BY <1>7, <2>1, AppendProperties
  <2> QED
    BY <2>2, <2>3 DEF x
<1>9. Collected(output' \o pipe', command'.wrote)
  <2>1. Collected(output \o pipe, command.wrote)
    BY <1>2 DEF ProcessInv, OutputInv
  <2>2. Collected(Append(output \o pipe, Line(command.wrote + 1)), command.wrote + 1)
    BY <1>4, <1>5, <1>7, <2>1, CollectedLine
  <2> QED
    BY <1>4, <1>8, <2>2
<1>10. ProcessTypeOK'
  BY <1>1, <1>4, <1>6 DEF ProcessInv, ProcessTypeOK
<1>11. ChildInv' /\ OneCommand'
  BY <1>1 DEF ProcessInv, ChildInv, OneCommand
<1>12. StageInv'
  BY <1>1, <1>2, <1>4 DEF ProcessInv, StageInv, Executes
<1>13. OutputInv'
  BY <1>1, <1>2, <1>3, <1>4, <1>9 DEF OutputInv, Executes
<1>14. StatusInv'
  BY <1>1, <1>2, <1>4, <1>8 DEF ProcessInv, StatusInv
<1>15. ReportInv' /\ FilesInv' /\ DiesOnlyOfFault'
  BY <1>1, <1>2 DEF ProcessInv, ReportInv, FilesInv, DiesOnlyOfFault
<1> QED
  BY <1>10, <1>11, <1>12, <1>13, <1>14, <1>15 DEF ProcessInv

\* The status the command exits with is the one that is waited for.
LEMMA CommandExitsInv ==
    ASSUME ProcessInv, NEW p \in Pid, NEW code \in {0, 1}, CommandExits(p, code)
    PROVE  ProcessInv'
<1> USE ProcessAssumption
<1>1. /\ proc[p].at = "command" /\ proc' = Ended(p, code)
      /\ command' = [command EXCEPT !.code = code]
      /\ UNCHANGED <<pc, call, child, pipe, input, fed, output, status, files, daemons, faulty>>
      /\ code \in 0 .. 2
  BY DEF CommandExits
<1>2. /\ pc = "read" /\ Executes /\ p = command.pid /\ call # "background"
      /\ \A r \in Pid : proc[r].at \in {"fork", "run", "command"} => r = p
  BY <1>1 DEF ProcessInv, StageInv, OneCommand, Executes
<1>3. /\ command'.pid = command.pid /\ command'.code = code /\ command'.wrote = command.wrote
      /\ command' \in [pid : Pid \cup {Nil}, wrote : 0 .. MaxLines, code : {0, 1, Nil}]
  BY <1>1 DEF ProcessInv, ProcessTypeOK
<1>4. proc' \in [Pid -> Process] /\ ChildInv' /\ OneCommand'
  BY <1>1, EndedInv
<1>5. \A q \in Pid : proc'[q].at \notin {"gone", "zombie"} => q # p /\ proc'[q].at = proc[q].at
  BY <1>1, EndedStages
<1>6. ProcessTypeOK'
  BY <1>1, <1>3, <1>4 DEF ProcessInv, ProcessTypeOK
<1>7. StageInv'
  BY <1>1, <1>2, <1>3, <1>5 DEF ProcessInv, StageInv, Executes
<1>8. OutputInv'
  BY <1>1, <1>2, <1>3 DEF ProcessInv, OutputInv, Executes
<1>9. StatusInv'
  <2> SUFFICES ASSUME call = "execute"
               PROVE  /\ Len(output \o pipe) = command.wrote
                      /\ command.pid = child
                      /\ proc'[child].at = "zombie" /\ proc'[child].code = code
    BY <1>1, <1>2, <1>3 DEF StatusInv
  <2>1. Len(output \o pipe) = command.wrote /\ command.pid = child /\ child # Nil
    BY <1>2 DEF ProcessInv, StatusInv
  <2>2. proc[p].parent = "opentik"
    BY <1>2, <2>1 DEF ProcessInv, ChildInv
  <2>3. proc'[p].at = "zombie" /\ proc'[p].code = code
    BY <1>1, <2>2, EndedFacts DEF ProcessInv
  <2> QED
    BY <1>2, <2>1, <2>3
<1>10. ReportInv' /\ FilesInv' /\ DiesOnlyOfFault'
  BY <1>1, <1>2 DEF ProcessInv, ReportInv, FilesInv, DiesOnlyOfFault
<1> QED
  BY <1>4, <1>6, <1>7, <1>8, <1>9, <1>10 DEF ProcessInv

\* The intermediate child of background() forks the one whose id is sent, or
\* fails and sends none.
LEMMA SetupInv ==
    ASSUME ProcessInv, NEW p \in Pid, Setup(p)
    PROVE  ProcessInv'
<1> USE ProcessAssumption
<1>1. /\ proc[p].at = "setup" /\ proc \in [Pid -> Process]
      /\ UNCHANGED <<pc, call, child, pipe, input, fed, output, status, files, daemons>>
  BY DEF Setup, ProcessInv, ProcessTypeOK
<1>2. /\ pc = "read" /\ call = "background" /\ p = child
      /\ command.pid = Nil /\ pipe = <<>> /\ output = <<>>
  BY <1>1 DEF ProcessInv, StageInv
<1>3. OutputInv' /\ StatusInv' /\ FilesInv' /\ DiesOnlyOfFault'
  BY <1>1, <1>2 DEF ProcessInv, OutputInv, StatusInv, FilesInv, DiesOnlyOfFault, Executes
<1>4. CASE \E q \in Free : /\ proc' = [proc EXCEPT ![p].at = "leave", ![q] = Forked(p, "report")]
                           /\ command' = [command EXCEPT !.pid = q]
                           /\ UNCHANGED faulty
  <2>1. PICK q \in Free : /\ proc' = [proc EXCEPT ![p].at = "leave", ![q] = Forked(p, "report")]
                          /\ command' = [command EXCEPT !.pid = q]
                          /\ UNCHANGED faulty
    BY <1>4
  <2>2. q \in Pid /\ proc[q].at = "gone" /\ q # p
    BY <1>1 DEF Free
  <2>3. /\ Forked(p, "report") \in Process /\ Forked(p, "report").at = "report"
        /\ Forked(p, "report").parent = p
    BY DEF Forked, Process
  <2>4. /\ [proc[p] EXCEPT !.at = "leave"] \in Process
        /\ [proc[p] EXCEPT !.at = "leave"].at = "leave"
        /\ [proc[p] EXCEPT !.at = "leave"].parent = proc[p].parent
    BY <1>1 DEF Process
  <2>5. /\ proc'[p] = [proc[p] EXCEPT !.at = "leave"] /\ proc'[q] = Forked(p, "report")
        /\ \A r \in Pid \ {p, q} : proc'[r] = proc[r]
        /\ proc' \in [Pid -> Process]
    BY <1>1, <2>1, <2>2, <2>3, <2>4
  <2>6. /\ command'.pid = q
        /\ command' \in [pid : Pid \cup {Nil}, wrote : 0 .. MaxLines, code : {0, 1, Nil}]
    BY <2>1, <2>2 DEF ProcessInv, ProcessTypeOK
  <2>7. ProcessTypeOK'
    BY <1>1, <2>1, <2>5, <2>6 DEF ProcessInv, ProcessTypeOK
  <2>8. ChildInv'
    BY <1>1, <1>2, <2>2, <2>3, <2>4, <2>5 DEF ProcessInv, ChildInv
  <2>9. \A r \in Pid \ {p, q} : proc'[r].at \in {"gone", "launch", "daemon", "zombie"}
    <3> TAKE r \in Pid \ {p, q}
    <3>1. proc[r] \in Process /\ proc'[r] = proc[r]
      BY <1>1, <2>5
    <3>2. proc[r].at \notin {"setup", "leave", "report", "fork", "feed", "run", "command"}
      BY <1>2 DEF ProcessInv, StageInv, Executes
    <3> QED
      BY <3>1, <3>2 DEF Process
  <2>10. StageInv'
    BY <1>1, <1>2, <2>3, <2>4, <2>5, <2>6, <2>9 DEF StageInv
  <2>11. OneCommand'
    BY <2>3, <2>4, <2>5, <2>9 DEF OneCommand
  <2>12. ReportInv'
    BY <1>1, <1>2, <2>2, <2>3, <2>5, <2>6 DEF ReportInv
  <2> QED
    BY <1>3, <2>7, <2>8, <2>10, <2>11, <2>12 DEF ProcessInv
<1>5. CASE /\ \E code \in {0, 1} : proc' = Ended(p, code)
           /\ faulty' = TRUE /\ UNCHANGED command
  <2>1. PICK code \in {0, 1} : proc' = Ended(p, code)
    BY <1>5
  <2>2. code \in 0 .. 2 /\ pc' = pc /\ child' = child
    BY <1>1
  <2>3. proc' \in [Pid -> Process] /\ ChildInv' /\ OneCommand'
    BY <2>1, <2>2, EndedInv
  <2>4. \A q \in Pid : proc'[q].at \notin {"gone", "zombie"} => proc'[q].at = proc[q].at
    BY <2>1, <2>2, EndedStages
  <2>5. ProcessTypeOK'
    BY <1>1, <1>5, <2>3 DEF ProcessInv, ProcessTypeOK
  <2>6. StageInv'
    BY <1>1, <1>5, <2>4 DEF ProcessInv, StageInv, Executes
  <2>7. ReportInv'
    BY <1>1, <1>2, <1>5 DEF ReportInv
  <2> QED
    BY <1>3, <2>3, <2>5, <2>6, <2>7 DEF ProcessInv
<1> QED
  BY <1>4, <1>5 DEF Setup

\* Steps that end a process the call does not depend on any more.
LEMMA LeaveInv ==
    ASSUME ProcessInv, NEW p \in Pid, NEW code \in 0 .. 2, proc' = Ended(p, code),
           proc[p].at \in {"leave", "launch", "daemon"},
           UNCHANGED <<pc, call, child, pipe, input, fed, output, status, files, daemons, faulty, command>>
    PROVE  ProcessInv'
<1> USE ProcessAssumption
<1>1. proc' \in [Pid -> Process] /\ ChildInv' /\ OneCommand'
  BY EndedInv
<1>2. \A q \in Pid : proc'[q].at \notin {"gone", "zombie"} => proc'[q].at = proc[q].at
  BY EndedStages
<1>3. /\ \A q \in Pid \ {p} : \/ proc'[q].at = proc[q].at
                              \/ proc[q].at = "zombie" /\ proc'[q].at = "gone"
      /\ \A q \in Pid \ {p} : proc[q].parent = "opentik" => proc'[q] = proc[q]
  BY EndedFacts DEF ProcessInv
<1>4. ProcessTypeOK'
  BY <1>1 DEF ProcessInv, ProcessTypeOK
<1>5. StageInv'
  BY <1>2 DEF ProcessInv, StageInv, Executes
<1>6. ReportInv'
  <2>1. \A q \in Pid : proc[q].at \in {"setup", "report"} => proc'[q].at = proc[q].at
    BY <1>3
  <2> QED
    BY <2>1 DEF ProcessInv, ReportInv
<1>7. StatusInv'
  <2> SUFFICES ASSUME call = "execute", command.pid # Nil, pc \in {"read", "wait"}
               PROVE  /\ command.pid = child
                      /\ \/ proc'[child].at = "command"
                         \/ proc'[child].at = "zombie" /\ proc'[child].code = command.code
    BY DEF ProcessInv, StatusInv
  <2>1. /\ command.pid = child /\ child # Nil /\ child \in Pid
        /\ \/ proc[child].at = "command"
           \/ proc[child].at = "zombie" /\ proc[child].code = command.code
        /\ proc[child].parent = "opentik"
    BY DEF ProcessInv, StatusInv, ChildInv, ProcessTypeOK
  <2>2. child # p /\ proc'[child] = proc[child]
    BY <1>3, <2>1
  <2> QED
    BY <2>1, <2>2
<1>8. OutputInv' /\ FilesInv' /\ DiesOnlyOfFault'
  BY DEF ProcessInv, OutputInv, FilesInv, DiesOnlyOfFault, Executes
<1> QED
  BY <1>1, <1>4, <1>5, <1>6, <1>7, <1>8 DEF ProcessInv

\* The id is sent when the one that sends it is the only one that will.
LEMMA ReportProcInv ==
    ASSUME ProcessInv, NEW p \in Pid, Report(p)
    PROVE  ProcessInv'
<1> USE ProcessAssumption
<1>1. /\ proc[p].at = "report" /\ proc \in [Pid -> Process] /\ p \in Lines \cup Pid
      /\ pipe' = Append(pipe, p) /\ proc' = [proc EXCEPT ![p].at = "launch"]
      /\ UNCHANGED <<pc, call, child, input, fed, output, status, files, daemons, faulty, command>>
  BY DEF Report, ProcessInv, ProcessTypeOK
<1>2. pc = "read" /\ call = "background" /\ p = command.pid /\ pipe = <<>> /\ output = <<>>
  BY <1>1 DEF ProcessInv, StageInv
<1>3. pipe' = <<p>> /\ pipe' \in Seq(Lines \cup Pid) /\ Len(pipe') <= Capacity
  BY <1>1, <1>2
<1>4. /\ [proc[p] EXCEPT !.at = "launch"] \in Process
      /\ [proc[p] EXCEPT !.at = "launch"].at = "launch"
      /\ [proc[p] EXCEPT !.at = "launch"].parent = proc[p].parent
  BY <1>1 DEF Process
<1>5. /\ proc'[p] = [proc[p] EXCEPT !.at = "launch"]
      /\ \A q \in Pid \ {p} : proc'[q] = proc[q]
      /\ proc' \in [Pid -> Process]
  BY <1>1, <1>4
<1>6. \A q \in Pid : /\ proc'[q].parent = proc[q].parent
                     /\ proc[q].at # "gone" => proc'[q].at # "gone"
  BY <1>4, <1>5
<1>7. ProcessTypeOK'
  BY <1>1, <1>3, <1>5 DEF ProcessInv, ProcessTypeOK
<1>8. ChildInv'
  BY <1>1, <1>6 DEF ProcessInv, ProcessTypeOK, ChildInv
<1>9. \A q \in Pid : proc'[q].at = "launch" \/ (q # p /\ proc'[q].at = proc[q].at)
  BY <1>4, <1>5
<1>10. StageInv'
  <2>1. \A q \in Pid : proc'[q].at \notin {"setup", "report"}
    BY <1>1, <1>2, <1>9 DEF ProcessInv, StageInv
  <2> QED
    BY <1>1, <1>2, <1>9, <2>1 DEF ProcessInv, StageInv, Executes
<1>11. OneCommand'
  BY <1>9 DEF ProcessInv, OneCommand
<1>12. ReportInv'
  BY <1>1, <1>2, <1>3 DEF ProcessInv, ReportInv
<1>13. OutputInv' /\ StatusInv' /\ FilesInv' /\ DiesOnlyOfFault'
  BY <1>1, <1>2 DEF ProcessInv, OutputInv, StatusInv, FilesInv, DiesOnlyOfFault, Executes
<1> QED
  BY <1>7, <1>8, <1>10, <1>11, <1>12, <1>13 DEF ProcessInv

\* exec() of the daemon: another place, of a process no call depends on.
LEMMA ExecDaemonInv ==
    ASSUME ProcessInv, NEW p \in Pid, ExecDaemon(p)
    PROVE  ProcessInv'
<1> USE ProcessAssumption
<1>1. /\ proc[p].at = "launch" /\ proc \in [Pid -> Process]
      /\ UNCHANGED <<pc, call, child, pipe, input, fed, output, status, files, daemons, faulty, command>>
  BY DEF ExecDaemon, ProcessInv, ProcessTypeOK
<1>2. CASE proc' = [proc EXCEPT ![p].at = "daemon"]
  <2>1. /\ [proc[p] EXCEPT !.at = "daemon"] \in Process
        /\ [proc[p] EXCEPT !.at = "daemon"].at = "daemon"
        /\ [proc[p] EXCEPT !.at = "daemon"].parent = proc[p].parent
    BY <1>1 DEF Process
  <2>2. /\ proc'[p] = [proc[p] EXCEPT !.at = "daemon"]
        /\ \A q \in Pid \ {p} : proc'[q] = proc[q]
        /\ proc' \in [Pid -> Process]
    BY <1>1, <1>2, <2>1
  <2>3. \A q \in Pid : proc'[q].at = "daemon" \/ proc'[q].at = proc[q].at
    BY <2>1, <2>2
  <2>4. \A q \in Pid : /\ proc'[q].parent = proc[q].parent
                       /\ proc[q].at # "gone" => proc'[q].at # "gone"
                       /\ proc[q].at # "launch" => proc'[q] = proc[q]
    BY <1>1, <2>1, <2>2
  <2>5. ProcessTypeOK'
    BY <1>1, <2>2 DEF ProcessInv, ProcessTypeOK
  <2>6. ChildInv'
    BY <1>1, <2>4 DEF ProcessInv, ProcessTypeOK, ChildInv
  <2>7. StageInv'
    BY <1>1, <2>3 DEF ProcessInv, StageInv, Executes
  <2>8. OneCommand'
    BY <2>3 DEF ProcessInv, OneCommand
  <2>9. ReportInv'
    BY <1>1, <2>4 DEF ProcessInv, ReportInv
  <2>10. StatusInv'
    BY <1>1, <2>4 DEF ProcessInv, ProcessTypeOK, StatusInv
  <2>11. OutputInv' /\ FilesInv' /\ DiesOnlyOfFault'
    BY <1>1 DEF ProcessInv, OutputInv, FilesInv, DiesOnlyOfFault, Executes
  <2> QED
    BY <2>5, <2>6, <2>7, <2>8, <2>9, <2>10, <2>11 DEF ProcessInv
<1>3. CASE proc' = Ended(p, 1)
  <2>1. 1 \in 0 .. 2
    OBVIOUS
  <2> QED
    BY <1>1, <1>3, <2>1, LeaveInv
<1> QED
  BY <1>2, <1>3 DEF ExecDaemon

-----------------------------------------------------------------------------
LEMMA NextProcessInv == ProcessInv /\ [Next]_vars => ProcessInv'
<1> SUFFICES ASSUME ProcessInv, [Next]_vars PROVE ProcessInv'
  OBVIOUS
<1>1. CASE \E c \in Calls : Call(c)
  BY <1>1, CallInv
<1>2. CASE ReadLine \/ ReadEnd \/ Wait
  BY <1>2, ReadLineInv, ReadEndInv, WaitInv
<1>3. ASSUME NEW p \in Pid, Run(p) PROVE ProcessInv'
  <2>1. CASE ForkCommand(p) \/ Feed(p) \/ FallThrough(p) \/ ExecCommand(p)
    BY <2>1, ForkCommandInv, FeedInv, FallThroughInv, ExecCommandInv
  <2>2. CASE Setup(p) \/ Report(p) \/ ExecDaemon(p)
    BY <2>2, SetupInv, ReportProcInv, ExecDaemonInv
  <2>3. CASE Leave(p)
    <3>1. 0 \in 0 .. 2
      OBVIOUS
    <3> QED
      BY <2>3, <3>1, LeaveInv DEF Leave
  <2> QED
    BY <1>3, <2>1, <2>2, <2>3 DEF Run
<1>4. ASSUME NEW p \in Pid, CommandReads(p) \/ CommandWrites(p) \/ Exits(p) \/ DaemonExits(p)
      PROVE  ProcessInv'
  <2>1. CASE CommandReads(p) \/ CommandWrites(p)
    BY <2>1, CommandReadsInv, CommandWritesInv
  <2>2. CASE Exits(p)
    BY <2>2, CommandExitsInv DEF Exits
  <2>3. CASE DaemonExits(p)
    <3>1. 0 \in 0 .. 2
      OBVIOUS
    <3> QED
      BY <2>3, <3>1, LeaveInv DEF DaemonExits
  <2> QED
    BY <1>4, <2>1, <2>2, <2>3
<1>5. CASE UNCHANGED vars
  BY <1>5 DEF vars, ProcessInv, ProcessTypeOK, ChildInv, StageInv, OneCommand, ReportInv,
              OutputInv, StatusInv, FilesInv, DiesOnlyOfFault, Executes
<1> QED
  BY <1>1, <1>2, <1>3, <1>4, <1>5 DEF Next

(* ProcessInv holds in every reachable state.                              *)
THEOREM ProcessInvariance == Spec => []ProcessInv
<1>1. Init => ProcessInv
  BY InitProcessInv
<1>2. ProcessInv /\ [Next]_vars => ProcessInv'
  BY NextProcessInv
<1> QED
  BY <1>1, <1>2, PTL DEF Spec

(* Every process and every pipe is in a state run.lua can leave it in.     *)
THEOREM ProcessTypeCorrect == Spec => []ProcessTypeOK
<1>1. ProcessInv => ProcessTypeOK
  BY DEF ProcessInv
<1> QED
  BY <1>1, ProcessInvariance, PTL

(* execute() returns what its command wrote, each line once and in order,  *)
(* and without stdin exactly that and the command's own status, however    *)
(* long the output is and however little of it the pipe holds.             *)
THEOREM ExecuteCorrect == Spec => []ResultIsCommands
<1>1. ProcessInv => ResultIsCommands
  <2> SUFFICES ASSUME ProcessInv, pc = "idle", Executes, command.pid # Nil
               PROVE  /\ Collected(output, command.wrote)
                      /\ call = "execute" => Len(output) = command.wrote /\ status = command.code
    BY DEF ResultIsCommands, Executes
  <2>1. pipe = <<>> /\ output \in Seq(Lines \cup Pid)
    BY DEF ProcessInv, OutputInv, ProcessTypeOK
  <2>2. output \o pipe = output
    BY <2>1, ConcatEmptySeq
  <2> QED
    BY <2>2 DEF ProcessInv, OutputInv, StatusInv
<1> QED
  BY <1>1, ProcessInvariance, PTL

(* background() hands out the id of the process that becomes the daemon,   *)
(* and that process is nobody the program would have to wait for.          *)
THEOREM BackgroundCorrect == Spec => []PidIsDaemons
<1>1. ProcessInv => PidIsDaemons
  <2> SUFFICES ASSUME ProcessInv, call = "background", output # <<>>
               PROVE  /\ output = <<command.pid>>
                      /\ command.pid # child
                      /\ pc = "idle" => proc[command.pid].parent # "opentik"
    BY DEF PidIsDaemons
  <2>1. output = <<command.pid>> /\ command.pid # Nil /\ command.pid # child
    BY DEF ProcessInv, ReportInv
  <2>2. command.pid \in Pid
    BY <2>1 DEF ProcessInv, ProcessTypeOK
  <2> QED
    BY <2>1, <2>2 DEF ProcessInv, ChildInv
<1> QED
  BY <1>1, ProcessInvariance, PTL

(* No call leaves a child of the program behind, running or dead.          *)
THEOREM EveryChildIsWaitedFor == Spec => []NoChildLeft
<1>1. ProcessInv => NoChildLeft
  BY DEF ProcessInv, ChildInv, NoChildLeft
<1> QED
  BY <1>1, ProcessInvariance, PTL

(* execute() leaks no descriptor: the program dies in a call only of a     *)
(* failed system call or of the descriptors background() has kept.         *)
THEOREM ExecuteLeaksNothing == Spec => []DiesOnlyOfFault
<1>1. ProcessInv => DiesOnlyOfFault
  BY DEF ProcessInv
<1> QED
  BY <1>1, ProcessInvariance, PTL
=============================================================================
