------------------------------ MODULE Terminals ------------------------------
(***************************************************************************)
(* The bridges to a shell and to the Python REPL (transport/pty_bridge.py, *)
(* repl_bridge.py and their endpoints in api.py), which run every blocking *)
(* call in the one thread pool of the event loop, and the runner of coach  *)
(* commands (coach.py).                                                    *)
(*                                                                         *)
(* A terminal is one connection, a shell and the master side of its pty.   *)
(* A job's end in its thread and the awaiting handler's next step on the   *)
(* loop are one action, unless the connection can go in between.           *)
(***************************************************************************)
EXTENDS Integers, SequencesExt

CONSTANTS
  Consoles,                \* terminals, numbered
  Submissions,             \* of the REPL, numbered, each on a connection of its own
  PoolSizes,               \* threads the default executor may have
  MaxTraffic,              \* bound: keys and pieces of all terminals, lines of a submission
  MaxClients, MaxCommands  \* bounds

ASSUME TerminalsAssumption ==
  /\ Consoles \subseteq Nat \ {0} /\ IsFiniteSet(Consoles) /\ Submissions \subseteq Nat \ {0}
  /\ PoolSizes \subseteq Nat \ {0} /\ {MaxTraffic, MaxClients, MaxCommands} \subseteq Nat

VARIABLES
  pool,        \* the executor: the jobs its threads run, and those that wait for a thread
  conn,        \* of a terminal: "none", "spawning", "open", "leaving", "closed"
  shell,       \* "none", "alive" or "dead"
  fd,          \* the number of its master side, 0 before there is one
  files,       \* the open files: which terminal's master side has a number
  typed, accepted, received,   \* keys sent by the client, taken by the pump, and read by the shell
  printed, chunk, shown,       \* pieces the shell wrote, the piece in hand, and those sent
  late,        \* history: terminals closed while a thread was about to write
  stdout,      \* sys.stdout of the process: 0, or the buffer of a submission
  text,        \* the buffers
  repl         \* of a submission: where it is, what it found in sys.stdout, what it printed
               \* and answered, and whether it overlapped no other

ptyVars == <<conn, shell, fd, files, typed, accepted, received, printed, chunk, shown, late>>
replVars == <<stdout, text, repl>>
terminalVars == <<pool, ptyVars, replVars>>

Job(kind, of, arg) == [kind |-> kind, of |-> of, arg |-> arg]

TerminalsInit ==
  /\ \E n \in PoolSizes : pool = [size |-> n, running |-> {}, waiting |-> <<>>]
  /\ conn = [t \in Consoles |-> "none"] /\ shell = [t \in Consoles |-> "none"]
  /\ fd = [t \in Consoles |-> 0] /\ files = [n \in Consoles |-> 0]
  /\ typed = [t \in Consoles |-> 0] /\ accepted = typed /\ received = [t \in Consoles |-> <<>>]
  /\ printed = typed /\ chunk = [t \in Consoles |-> <<>>] /\ shown = chunk
  /\ late = {}
  /\ stdout = 0 /\ text = [s \in Submissions |-> <<>>]
  /\ repl = [s \in Submissions |-> [at |-> "new", found |-> 0, said |-> 0, answer |-> <<>>, alone |-> TRUE]]

------------------------------------------------------------------------------
\* asyncio.to_thread.

Runs(kind, of) == \E j \in pool.running : j.kind = kind /\ j.of = of
Waits(kind, of) == \E i \in DOMAIN pool.waiting : pool.waiting[i].kind = kind /\ pool.waiting[i].of = of

Pooled(p, job) == [p EXCEPT !.waiting = Append(@, job)]
Ended(p, kind, of) == [p EXCEPT !.running = {j \in @ : ~(j.kind = kind /\ j.of = of)}]

ClientsLeft ==
  Cardinality({t \in Consoles : conn[t] # "none"}) + Cardinality({s \in Submissions : repl[s].at # "new"})
    < MaxClients

TrafficLeft == FoldFunction(+, 0, typed) + FoldFunction(+, 0, printed) < MaxTraffic

ThreadTakesJob ==
  /\ pool.waiting # <<>> /\ Cardinality(pool.running) < pool.size
  /\ pool' = [pool EXCEPT !.running = @ \cup {Head(pool.waiting)}, !.waiting = Tail(@)]
  /\ UNCHANGED <<ptyVars, replVars>>

\* The jobs that wait when those of a terminal's pumps are withdrawn.
Withdrawn(job, t) == job.of = t /\ job.kind \in {"read", "write"}
StillWaiting(jobs, t) ==
  LET upTo[i \in 0..Len(jobs)] ==
        IF i = 0 THEN <<>>
        ELSE IF Withdrawn(jobs[i], t) THEN upTo[i - 1] ELSE Append(upTo[i - 1], jobs[i])
  IN  upTo[Len(jobs)]

\* Fault: the pumps are left to themselves.
LeavingJobsKept(p, t) == Pooled(p, Job("close", t, 0))

\* The end of ws_pty: its pumps are cancelled, which withdraws a job that waits and does not stop
\* one that runs, and the session is closed in a thread.
LeavingJobs(p, t) ==
  Pooled([p EXCEPT !.waiting = StillWaiting(@, t)], Job("close", t, 0))

------------------------------------------------------------------------------
\* The terminal.

ReaderVars == <<printed, chunk, shown>>
WriterVars == <<typed, accepted, received>>

ClientConnects(t) ==
  /\ conn[t] = "none" /\ ClientsLeft
  /\ conn' = [conn EXCEPT ![t] = "spawning"]
  /\ pool' = Pooled(pool, Job("spawn", t, 0))
  /\ UNCHANGED <<shell, fd, files, ReaderVars, WriterVars, late, replVars>>

\* spawn_shell: the kernel gives the smallest free number.
ShellSpawned(t) ==
  /\ Runs("spawn", t)
  /\ LET n == CHOOSE n \in Consoles : files[n] = 0 /\ \A m \in Consoles : files[m] = 0 => n <= m
     IN  fd' = [fd EXCEPT ![t] = n] /\ files' = [files EXCEPT ![n] = t]
  /\ shell' = [shell EXCEPT ![t] = "alive"] /\ conn' = [conn EXCEPT ![t] = "open"]
  /\ pool' = Pooled(Ended(pool, "spawn", t), Job("read", t, 0))
  /\ UNCHANGED <<ReaderVars, WriterVars, late, replVars>>

ShellPrints(t) ==
  /\ shell[t] = "alive" /\ TrafficLeft
  /\ printed' = [printed EXCEPT ![t] = @ + 1]
  /\ UNCHANGED <<pool, conn, shell, fd, files, chunk, shown, WriterVars, late, replVars>>

ShellExits(t) ==
  /\ shell[t] = "alive"
  /\ shell' = [shell EXCEPT ![t] = "dead"]
  /\ UNCHANGED <<pool, conn, fd, files, ReaderVars, WriterVars, late, replVars>>

\* What the shell wrote and no read has returned.
Unread(t) == [i \in 1..(printed[t] - Len(shown[t]) - Len(chunk[t])) |-> Len(shown[t]) + Len(chunk[t]) + i]

\* os.read returns some of it; a read that the handler no longer awaits drops it, and hangs the
\* shell up if it was the last user of a closed master side.
ReadReturns(t) ==
  /\ Runs("read", t) /\ Unread(t) # <<>>
  /\ pool' = Ended(pool, "read", t)
  /\ \E n \in 1..Len(Unread(t)) :
       chunk' = IF conn[t] = "open" THEN [chunk EXCEPT ![t] = SubSeq(Unread(t), 1, n)] ELSE chunk
  /\ shell' = IF conn[t] = "closed" THEN [shell EXCEPT ![t] = "dead"] ELSE shell
  /\ UNCHANGED <<conn, fd, files, printed, shown, WriterVars, late, replVars>>

\* Fault: the next read is asked for without awaiting the last.
NextReadTwice(p, t) == Pooled(Pooled(p, Job("read", t, 0)), Job("read", t, 1))
NextRead(p, t) == Pooled(p, Job("read", t, 0))

\* Fault: the latest piece is put in front.
ShownAfterReversed(before, piece) == piece \o before
ShownAfter(before, piece) == before \o piece

\* pump_pty_to_ws: the piece is sent, and then the next is read.
PieceSent(t) ==
  /\ conn[t] = "open" /\ chunk[t] # <<>>
  /\ shown' = [shown EXCEPT ![t] = ShownAfter(@, chunk[t])]
  /\ chunk' = [chunk EXCEPT ![t] = <<>>]
  /\ pool' = NextRead(pool, t)
  /\ UNCHANGED <<conn, shell, fd, files, printed, WriterVars, late, replVars>>

\* The shell is gone and everything is read: no pump is left to wait for.
ReadEnds(t) ==
  /\ Runs("read", t) /\ shell[t] = "dead" /\ Unread(t) = <<>>
  /\ conn' = [conn EXCEPT ![t] = IF @ = "open" THEN "leaving" ELSE @]
  /\ pool' = IF conn[t] = "open" THEN LeavingJobs(Ended(pool, "read", t), t) ELSE Ended(pool, "read", t)
  /\ UNCHANGED <<shell, fd, files, ReaderVars, WriterVars, late, replVars>>

ClientTypes(t) ==
  /\ conn[t] = "open" /\ TrafficLeft
  /\ typed' = [typed EXCEPT ![t] = @ + 1]
  /\ UNCHANGED <<pool, conn, shell, fd, files, ReaderVars, accepted, received, late, replVars>>

\* Fault: the pump does not await the write.
PumpIsFreeAlways(t) == TRUE
PumpIsFree(t) == ~Runs("write", t) /\ ~Waits("write", t)

\* pump_ws_to_pty takes the next message when the last is written.
PumpTakesKey(t) ==
  /\ conn[t] = "open" /\ accepted[t] < typed[t]
  /\ PumpIsFree(t)
  /\ accepted' = [accepted EXCEPT ![t] = @ + 1]
  /\ pool' = Pooled(pool, Job("write", t, accepted[t] + 1))
  /\ UNCHANGED <<conn, shell, fd, files, ReaderVars, typed, received, late, replVars>>

\* The thread calls os.write with the number the session knows.  If no shell reads there, it
\* raises, which ends the pump.
KeyWritten(t) ==
  \E j \in pool.running :
    /\ j.kind = "write" /\ j.of = t
    /\ LET to == files[fd[t]]
           gone == to = 0 \/ shell[to] = "dead"
           left == [pool EXCEPT !.running = @ \ {j}]
           ends == gone /\ conn[t] = "open"
       IN  /\ received' = IF gone THEN received ELSE [received EXCEPT ![to] = Append(@, <<t, j.arg>>)]
           /\ conn' = [conn EXCEPT ![t] = IF ends THEN "leaving" ELSE @]
           /\ pool' = IF ends THEN LeavingJobs(left, t) ELSE left
    /\ UNCHANGED <<shell, fd, files, ReaderVars, typed, accepted, late, replVars>>

\* The client goes, or sends a size that is no number.
ClientLeaves(t) ==
  /\ conn[t] = "open"
  /\ conn' = [conn EXCEPT ![t] = "leaving"]
  /\ pool' = LeavingJobs(pool, t)
  /\ UNCHANGED <<shell, fd, files, ReaderVars, WriterVars, late, replVars>>

\* Fault: the master side stays open.
ClosedFilesKept(t) == files
ClosedFiles(t) == [files EXCEPT ![fd[t]] = 0]

\* PtySession.close: SIGTERM, which an interactive shell may ignore, and close.  The last user of
\* the master side hangs the shell up; a thread that still reads is one.
SessionClosed(t) ==
  /\ Runs("close", t)
  /\ files' = ClosedFiles(t)
  /\ \E ignores \in BOOLEAN :
       LET held == Runs("read", t) \/ files'[fd[t]] = t IN
       shell' = [shell EXCEPT ![t] = IF ignores /\ held THEN @ ELSE "dead"]
  /\ late' = IF Runs("write", t) THEN late \cup {t} ELSE late
  /\ conn' = [conn EXCEPT ![t] = "closed"]
  /\ pool' = Ended(pool, "close", t)
  /\ UNCHANGED <<fd, ReaderVars, WriterVars, replVars>>

------------------------------------------------------------------------------
\* The REPL: sys.stdout belongs to the process, and a submission runs in a thread.

Evaluating == {s \in Submissions : repl[s].at = "running"}

\* Fault: one buffer for all submissions.
BufferShared(s) == CHOOSE n \in Submissions : \A m \in Submissions : n <= m
BufferOf(s) == s

SourceSubmitted(s) ==
  /\ repl[s].at = "new" /\ ClientsLeft
  /\ repl' = [repl EXCEPT ![s].at = "asked"]
  /\ pool' = Pooled(pool, Job("repl", s, 0))
  /\ UNCHANGED <<stdout, text, ptyVars>>

\* contextlib.redirect_stdout remembers what it found.
RedirectEntered(s) ==
  /\ Runs("repl", s) /\ repl[s].at = "asked"
  /\ repl' = [u \in Submissions |->
       IF u = s THEN [repl[s] EXCEPT !.at = "running", !.found = stdout, !.alone = Evaluating = {}]
       ELSE IF u \in Evaluating THEN [repl[u] EXCEPT !.alone = FALSE] ELSE repl[u]]
  /\ stdout' = BufferOf(s)
  /\ UNCHANGED <<pool, text, ptyVars>>

\* print() in a submission goes to whatever sys.stdout is by then.
LinePrinted(s) ==
  /\ repl[s].at = "running" /\ repl[s].said < MaxTraffic
  /\ repl' = [repl EXCEPT ![s].said = @ + 1]
  /\ text' = IF stdout = 0 THEN text ELSE [text EXCEPT ![stdout] = Append(@, <<s, repl[s].said + 1>>)]
  /\ UNCHANGED <<pool, stdout, ptyVars>>

\* Fault: only a submission that succeeds restores what it found.
RestoredIfFine(s, fails) == IF fails THEN stdout ELSE repl[s].found
Restored(s, fails) == repl[s].found

\* The with statement ends, whether or not the submission raises; the answer is the buffer.  The
\* limit of five seconds is compared only here: nothing interrupts a submission.
RedirectLeft(s) ==
  /\ repl[s].at = "running"
  /\ \E fails \in BOOLEAN : stdout' = Restored(s, fails)
  /\ repl' = [repl EXCEPT ![s].at = "answered", ![s].answer = text[BufferOf(s)]]
  /\ pool' = Ended(pool, "repl", s)
  /\ UNCHANGED <<text, ptyVars>>

TerminalsNext ==
  \/ ThreadTakesJob
  \/ \E t \in Consoles :
       \/ ClientConnects(t) \/ ClientTypes(t) \/ ClientLeaves(t)
       \/ ShellSpawned(t) \/ ShellPrints(t) \/ ShellExits(t)
       \/ ReadReturns(t) \/ PieceSent(t) \/ ReadEnds(t)
       \/ PumpTakesKey(t) \/ KeyWritten(t) \/ SessionClosed(t)
  \/ \E s \in Submissions :
       SourceSubmitted(s) \/ RedirectEntered(s) \/ LinePrinted(s) \/ RedirectLeft(s)

------------------------------------------------------------------------------
\* coach.run_command: a process with a limit on its time.  Its descendants may keep its output
\* open when it has ended.

VARIABLE command   \* where the request is, whether its process lives, how many ran

commandVars == <<command>>

CoachInit == command = [at |-> "none", alive |-> FALSE, count |-> 0, code |-> 0]

CommandAsked ==
  /\ command.at \in {"none", "answered"} /\ command.count < MaxCommands
  /\ \E outcome \in {"disallowed", "missing", "started"} :
       command' = [at |-> IF outcome = "started" THEN "running" ELSE "answered",
                   alive |-> outcome = "started", count |-> command.count + 1,
                   code |-> IF outcome = "missing" THEN 127 ELSE 0]

CommandEnds ==
  /\ command.at = "running" /\ command.alive
  /\ \E code \in {0, 1} : command' = [command EXCEPT !.alive = FALSE, !.code = code]

OutputComplete ==
  /\ command.at = "running" /\ ~command.alive
  /\ command' = [command EXCEPT !.at = "answered"]

\* Fault: the answer does not wait for the process.
AfterLimitLeft(c) == [c EXCEPT !.at = "answered", !.code = 124]

AfterLimit(c) == [c EXCEPT !.at = "answered", !.alive = FALSE, !.code = 124]

LimitPasses ==
  /\ command.at = "running"
  /\ command' = AfterLimit(command)

CoachNext == CommandAsked \/ CommandEnds \/ OutputComplete \/ LimitPasses

------------------------------------------------------------------------------
\* The client sees a prefix of what its shell wrote, in order, however the reads divide it.
OutputInOrder ==
  \A t \in Consoles : shown[t] \o chunk[t] = [i \in 1..Len(shown[t] \o chunk[t]) |-> i]

\* A shell reads the keys of its own terminal in the order they were typed, although each is
\* written by a thread of the pool; only a write that its session's close overtakes can go
\* astray, into the terminal that has the number by then.
KeysInOrder ==
  late = {} => \A t \in Consoles :
    /\ received[t] = [i \in 1..Len(received[t]) |-> <<t, i>>]
    /\ Len(received[t]) <= accepted[t] /\ accepted[t] <= typed[t]

\* A terminal, open or left behind, holds at most one thread until its shell writes: terminals
\* alone block the pool, for closing too, only when there are as many as threads.
TerminalsLeaveAThread ==
  Cardinality({t \in Consoles : conn[t] # "none"}) < pool.size =>
    Cardinality({j \in pool.running : j.kind = "read"}) < pool.size

\* A shell outlives its connection only if it ignores the signal while a thread still reads
\* from it, which that thread then does for ever.
OutlivingShellsAreRead ==
  \A t \in Consoles : conn[t] = "closed" /\ shell[t] = "alive" => Runs("read", t)

\* A submission that shares its time with no other answers what it printed and nothing else,
\* whatever the ones before it left behind in sys.stdout.
OwnOutputWhenAlone ==
  \A s \in Submissions : repl[s].at = "answered" /\ repl[s].alone =>
    repl[s].answer = [i \in 1..repl[s].said |-> <<s, i>>]

\* As long as no two submissions overlap, each gives sys.stdout back, failing or not.
StdoutGivenBack ==
  (\A s \in Submissions : repl[s].alone) /\ Evaluating = {} => stdout = 0

\* No process of an answered command is left running.
AnsweredCommandsAreOver == command.at # "running" => ~command.alive

\* Whatever order the threads of one pool run in: terminals keep their bytes in order and leave a
\* thread to the others, a shell that is left behind is still read, submissions that do not
\* overlap do not mix, and the process of an answered command is over.
TerminalsSound ==
  /\ OutputInOrder /\ KeysInOrder /\ TerminalsLeaveAThread /\ OutlivingShellsAreRead
  /\ OwnOutputWhenAlone /\ StdoutGivenBack /\ AnsweredCommandsAreOver
=============================================================================
