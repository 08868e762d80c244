-------------------------------- MODULE Sh --------------------------------
(***************************************************************************)
(* The shell (sh.c): its recursive descent parser, and the processes,      *)
(* descriptors and pipes runcmd makes of a command.                        *)
(*                                                                         *)
(* A line is a sequence of tokens, as gettoken and peek see them; a command *)
(* names a word by its place in the line.  Files, pipes and programs are   *)
(* external: a program reads its input to the end when that is a pipe, and *)
(* exits.  The system calls a process makes on its own descriptors between *)
(* two forks or waits are one step: others see only that a pipe end closes. *)
(***************************************************************************)
EXTENDS Integers, Sequences, FiniteSets, FiniteSetsExt, SequencesExt

CONSTANTS
    Lines,       \* lines that may be typed first
    LaterLines,  \* and after that
    MAXARGS,
    NPROC,       \* process slots
    MaxLines,    \* bound on the lines typed
    MaxFail      \* bound on the calls that fail

Words == {"a", "cd"}
RedirTok == {"<", ">", ">>"}
Symbols == {"|", "&", ";", "(", ")"} \cup RedirTok

ASSUME ShAssumption ==
    /\ LaterLines \subseteq Lines /\ Lines \subseteq Seq(Words \cup Symbols)
    /\ MAXARGS \in Nat \ {0} /\ NPROC \in Nat \ {0} /\ {MaxLines, MaxFail} \subseteq Nat

---------------------------------------------------------------------------
(* Commands and the parser.  A parse returns the command, the index of the  *)
(* next token, and whether it went through (panic exits the process).       *)

CmdTypes == {"EXEC", "REDIR", "PIPE", "LIST", "BACK"}

Exec(argv) == [type |-> "EXEC", argv |-> argv]
Redir(c, file, fd) == [type |-> "REDIR", cmd |-> c, file |-> file, fd |-> fd]
Pipe(l, r, at) == [type |-> "PIPE", left |-> l, right |-> r, at |-> at]
List(l, r) == [type |-> "LIST", left |-> l, right |-> r]
Back(c) == [type |-> "BACK", cmd |-> c]

Peek(s, i) == IF i <= Len(s) THEN s[i] ELSE "end"
Parsed(c, i) == [cmd |-> c, i |-> i, ok |-> TRUE]
Syntax == [cmd |-> Exec(<<>>), i |-> 0, ok |-> FALSE]

RedirFd(tok) == IF tok = "<" THEN 0 ELSE 1

(* A redirection wraps the command and those before it.                     *)
WrapsInside(c, redirs) == FoldRight(LAMBDA r, x : Redir(x, r.file, r.fd), redirs, c)
Wrap(c, redirs) == FoldLeft(LAMBDA x, r : Redir(x, r.file, r.fd), c, redirs)

RECURSIVE ParseRedirs(_, _, _)
ParseRedirs(s, i, redirs) ==
    IF Peek(s, i) \notin RedirTok THEN Parsed(redirs, i)
    ELSE IF Peek(s, i + 1) \notin Words THEN Syntax
    ELSE ParseRedirs(s, i + 2, Append(redirs, [file |-> i + 1, fd |-> RedirFd(s[i])]))

TooManyArgs(argv) == Len(argv) >= MAXARGS

RECURSIVE ParseArgs(_, _, _, _)
ParseArgs(s, i, argv, redirs) ==
    IF Peek(s, i) \in {"|", ")", "&", ";", "end"}
    THEN Parsed(Wrap(Exec(argv), redirs), i)
    ELSE IF Peek(s, i) \notin Words \/ TooManyArgs(Append(argv, i)) THEN Syntax
    ELSE LET x == ParseRedirs(s, i + 1, redirs)
         IN IF x.ok THEN ParseArgs(s, x.i, Append(argv, i), x.cmd) ELSE Syntax

RECURSIVE ParseBacks(_, _, _)
ParseBacks(s, i, c) ==
    IF Peek(s, i) = "&" THEN ParseBacks(s, i + 1, Back(c)) ELSE Parsed(c, i)

RECURSIVE ParseLine(_, _), ParsePipe(_, _)

ParseBlock(s, i) ==
    LET x == ParseLine(s, i + 1)
    IN IF ~x.ok \/ Peek(s, x.i) # ")" THEN Syntax
       ELSE LET r == ParseRedirs(s, x.i + 1, <<>>)
            IN IF r.ok THEN Parsed(Wrap(x.cmd, r.cmd), r.i) ELSE Syntax

ParseExec(s, i) ==
    IF Peek(s, i) = "(" THEN ParseBlock(s, i)
    ELSE LET r == ParseRedirs(s, i, <<>>)
         IN IF r.ok THEN ParseArgs(s, r.i, <<>>, r.cmd) ELSE Syntax

ParsePipe(s, i) ==
    LET x == ParseExec(s, i)
    IN IF ~x.ok \/ Peek(s, x.i) # "|" THEN x
       ELSE LET y == ParsePipe(s, x.i + 1)
            IN IF y.ok THEN Parsed(Pipe(x.cmd, y.cmd, x.i), y.i) ELSE Syntax

ParseLine(s, i) ==
    LET x == ParsePipe(s, i)
        b == ParseBacks(s, x.i, x.cmd)
    IN IF ~x.ok THEN Syntax
       ELSE IF Peek(s, b.i) # ";" THEN b
       ELSE LET y == ParseLine(s, b.i + 1)
            IN IF y.ok THEN Parsed(List(b.cmd, y.cmd), y.i) ELSE Syntax

Leftovers(x, s) == x.i <= Len(s)
ParseCmd(s) ==
    LET x == ParseLine(s, 1) IN IF x.ok /\ Leftovers(x, s) THEN Syntax ELSE x

(* The command of every line, computed once.                                *)
CommandOf == [s \in Lines |-> ParseCmd(s)]

---------------------------------------------------------------------------
(* Processes.  Slot 1 is the shell, 0 is init.                              *)

VARIABLES
    proc,      \* process slots
    no,        \* number of the line
    failures   \* calls to fork, open and pipe that failed

vars == <<proc, no, failures>>

Slot == 1..NPROC
Fd == 0..4
Closed == <<"closed", 0, 0>>
Console == <<"console", 0, 0>>
Stdio == [fd \in Fd |-> IF fd <= 2 THEN Console ELSE Closed]

Free == [pc |-> "free", parent |-> 0, line |-> <<>>, no |-> 0, cmd |-> Exec(<<>>),
         fds |-> [fd \in Fd |-> Closed], bg |-> FALSE]

(* main() has opened the console up to descriptor 2.                        *)
Init ==
    /\ proc = [p \in Slot |-> IF p = 1 THEN [Free EXCEPT !.pc = "prompt", !.fds = Stdio]
                              ELSE Free]
    /\ no = 0 /\ failures = 0

Live(p) == proc[p].pc \notin {"free", "zombie"}
At(p, label) == proc[p].pc = label
Runs(p, type) == At(p, "run") /\ proc[p].cmd.type = type
Does(p, q) == proc' = [proc EXCEPT ![p] = q] /\ UNCHANGED <<no, failures>>

Open(fds, obj) ==
    LET free == {fd \in Fd : fds[fd] = Closed}
    IN [fds EXCEPT ![Min(free)] = obj]
Close(fds, fd) == [fds EXCEPT ![fd] = Closed]

(* exit(): the children go to init, which reaps the ones that are dead.     *)
Orphaned(t, p) ==
    [q \in Slot |-> IF t[q].parent # p \/ t[q].pc = "free" THEN t[q]
                    ELSE IF t[q].pc = "zombie" THEN Free
                    ELSE [t[q] EXCEPT !.parent = 0]]
Exited(p) ==
    LET up == proc[p].parent
    IN Orphaned([proc EXCEPT ![p] = IF up = 0 THEN Free
                                    ELSE [Free EXCEPT !.pc = "zombie", !.parent = up]], p)
Exit(p) == proc' = Exited(p) /\ UNCHANGED <<no, failures>>

(* fork1(): the child starts from record child, the parent goes on at       *)
(* next; a failed fork ends the process that called it.                     *)
FreeSlots == {q \in Slot \ {1} : proc[q].pc = "free"}
Fork1(p, child, next) ==
    \/ /\ FreeSlots # {}
       /\ proc' = [proc EXCEPT ![Min(FreeSlots)] = [child EXCEPT !.parent = p], ![p] = next]
       /\ UNCHANGED failures
    \/ /\ FreeSlots = {} \/ failures < MaxFail
       /\ failures' = failures + 1
       /\ proc' = Exited(p)

---------------------------------------------------------------------------
(* main(): a line that begins with the bytes "cd " is the builtin, which    *)
(* calls chdir, whatever follows them.  Blanks are not tokens: a line with  *)
(* cd as its first word may have a blank in front of it, or none behind it. *)
(* For every other line the shell forks a child, which parses the line and  *)
(* runs it, or exits on a syntax error.                                     *)
GetCmd(line) ==
    LET x == CommandOf[line]
    IN /\ At(1, "prompt") /\ no < MaxLines /\ (no > 0 => line \in LaterLines)
       /\ no' = no + 1
       /\ \/ Peek(line, 1) = "cd" /\ UNCHANGED <<proc, failures>>
          \/ Fork1(1, [proc[1] EXCEPT !.pc = IF x.ok THEN "run" ELSE "exit",
                                      !.cmd = x.cmd, !.line = line, !.no = no + 1],
                      [proc[1] EXCEPT !.pc = "wait", !.line = line])

(* The end of input.                                                        *)
Eof == At(1, "prompt") /\ Exit(1)

---------------------------------------------------------------------------
(* runcmd().                                                                *)

(* exec() succeeds on some directory of the path, or the process exits.     *)
RunExec(p) ==
    /\ Runs(p, "EXEC")
    /\ \/ proc[p].cmd.argv # <<>> /\ Does(p, [proc[p] EXCEPT !.pc = "prog"])
       \/ Exit(p)

(* An open or pipe call that fails ends the process.                        *)
CallFails(p) ==
    /\ failures < MaxFail /\ failures' = failures + 1
    /\ proc' = Exited(p) /\ UNCHANGED no

FileObj(p) == <<"file", proc[p].no, proc[p].cmd.file>>
NotClosed(p) == Open(proc[p].fds, FileObj(p))
Redirected(p) == Open(Close(proc[p].fds, proc[p].cmd.fd), FileObj(p))

RunRedir(p) ==
    /\ Runs(p, "REDIR")
    /\ \/ Does(p, [proc[p] EXCEPT !.fds = Redirected(p), !.cmd = proc[p].cmd.cmd])
       \/ CallFails(p)

RunList(p) ==
    /\ Runs(p, "LIST") /\ UNCHANGED no
    /\ Fork1(p, [proc[p] EXCEPT !.cmd = proc[p].cmd.left], [proc[p] EXCEPT !.pc = "lwait"])

PipeEnd(p, k) == <<k, proc[p].no, proc[p].cmd.at>>

RunPipe(p) ==
    /\ Runs(p, "PIPE")
    /\ \/ Does(p, [proc[p] EXCEPT !.pc = "left",
                      !.fds = Open(Open(proc[p].fds, PipeEnd(p, "r")), PipeEnd(p, "w"))])
       \/ CallFails(p)

(* Descriptors that hold an end of the pipe the process made, closed.       *)
PipeClosed(p, fds) ==
    [fd \in Fd |-> IF fd > 2 /\ fds[fd] \in {PipeEnd(p, "r"), PipeEnd(p, "w")}
                   THEN Closed ELSE fds[fd]]
KeepsWriteEnd(p, fds) ==
    [fd \in Fd |-> IF fd > 2 /\ fds[fd] = PipeEnd(p, "r") THEN Closed ELSE fds[fd]]

(* close(fd); dup(end); close(p[0]); close(p[1]).                           *)
ChildFds(p, fd, k) == PipeClosed(p, Open(Close(proc[p].fds, fd), PipeEnd(p, k)))

PipeLeft(p) ==
    /\ At(p, "left") /\ UNCHANGED no
    /\ Fork1(p, [proc[p] EXCEPT !.pc = "run", !.cmd = proc[p].cmd.left,
                                !.fds = ChildFds(p, 1, "w")],
                [proc[p] EXCEPT !.pc = "right"])

ParentKeeps(p) == KeepsWriteEnd(p, proc[p].fds)
ParentFds(p) == PipeClosed(p, proc[p].fds)

PipeRight(p) ==
    /\ At(p, "right") /\ UNCHANGED no
    /\ Fork1(p, [proc[p] EXCEPT !.pc = "run", !.cmd = proc[p].cmd.right,
                                !.fds = ChildFds(p, 0, "r")],
                [proc[p] EXCEPT !.pc = "wait1", !.fds = ParentFds(p)])

RunBack(p) ==
    /\ Runs(p, "BACK") /\ UNCHANGED no
    /\ Fork1(p, [proc[p] EXCEPT !.cmd = proc[p].cmd.cmd, !.bg = TRUE],
                [proc[p] EXCEPT !.pc = "exit"])

ExitNow(p) == At(p, "exit") /\ Exit(p)

(* wait(), and where the process goes on.                                   *)
WaitsOnce(q) ==
    CASE q.pc = "wait" -> [q EXCEPT !.pc = "prompt", !.line = <<>>]
      [] q.pc = "lwait" -> [q EXCEPT !.pc = "run", !.cmd = q.cmd.right]
      [] q.pc \in {"wait1", "wait2"} -> [q EXCEPT !.pc = "exit"]
AfterWait(q) ==
    CASE q.pc = "wait" -> [q EXCEPT !.pc = "prompt", !.line = <<>>]
      [] q.pc = "lwait" -> [q EXCEPT !.pc = "run", !.cmd = q.cmd.right]
      [] q.pc = "wait1" -> [q EXCEPT !.pc = "wait2"]
      [] q.pc = "wait2" -> [q EXCEPT !.pc = "exit"]

Wait(p) ==
    LET kids == {q \in Slot : proc[q].parent = p /\ proc[q].pc # "free"}
        on == [proc EXCEPT ![p] = AfterWait(proc[p])]
    IN /\ proc[p].pc \in {"wait", "lwait", "wait1", "wait2"}
       /\ proc' \in IF kids = {} THEN {on}
                    ELSE {[on EXCEPT ![c] = Free] : c \in {q \in kids : At(q, "zombie")}}
       /\ UNCHANGED <<no, failures>>

(* External: a program reads a pipe until no process can write to it.       *)
WriteOpen(obj) == \E q \in Slot, fd \in Fd :
                      proc[q].fds[fd] = <<"w", obj[2], obj[3]>>
Program(p) ==
    /\ At(p, "prog")
    /\ proc[p].fds[0][1] = "r" => ~WriteOpen(proc[p].fds[0])
    /\ Exit(p)

Step(p) == \/ RunExec(p) \/ RunRedir(p) \/ RunList(p) \/ RunPipe(p)
           \/ PipeLeft(p) \/ PipeRight(p) \/ RunBack(p) \/ ExitNow(p) \/ Wait(p)
           \/ Program(p)

Next == Eof \/ (\E line \in Lines : GetCmd(line)) \/ \E p \in Slot : Step(p)

Spec == Init /\ [][Next]_vars
FairSpec == Spec /\ WF_vars(\E p \in Slot : Step(p))

---------------------------------------------------------------------------
(* Reference definitions.  The grammar, as all trees of s[lo..hi]:          *)
(*   line   ::= pipe "&"* [ ";" line ]      pipe  ::= exec [ "|" pipe ]     *)
(*   exec   ::= simple | "(" line ")" redirs                                *)
(*   simple ::= words and redirections in any order, fewer than MAXARGS     *)

Sorted(S) == SetToSortSeq(S, LAMBDA x, y : x < y)
RedirsIn(s, lo, hi) ==
    [k \in 1..Cardinality({i \in lo..hi : s[i] \in RedirTok}) |->
        LET i == Sorted({j \in lo..hi : s[j] \in RedirTok})[k]
        IN [file |-> i + 1, fd |-> RedirFd(s[i])]]

Nest(c, redirs) == LET RECURSIVE N(_)
                       N(k) == IF k = 0 THEN c ELSE Redir(N(k - 1), redirs[k].file, redirs[k].fd)
                   IN N(Len(redirs))

Simple(s, lo, hi) ==
    LET ops == {i \in lo..hi : s[i] \in RedirTok}
        argv == (lo..hi) \ (ops \cup {i + 1 : i \in ops})
    IN IF /\ \A i \in lo..hi : s[i] \in Words \cup RedirTok
          /\ \A i \in ops : i < hi /\ s[i + 1] \in Words
          /\ Cardinality(argv) < MAXARGS
       THEN {Nest(Exec(Sorted(argv)), RedirsIn(s, lo, hi))} ELSE {}

OnlyRedirs(s, lo, hi) ==
    /\ (hi - lo) % 2 = 1
    /\ \A i \in lo..hi : IF (i - lo) % 2 = 0 THEN s[i] \in RedirTok ELSE s[i] \in Words

RECURSIVE LineTrees(_, _, _), PipeTrees(_, _, _)
ExecTrees(s, lo, hi) ==
    Simple(s, lo, hi) \cup
    IF lo > hi \/ Peek(s, lo) # "(" THEN {}
    ELSE UNION {{Nest(t, RedirsIn(s, m + 1, hi)) : t \in LineTrees(s, lo + 1, m - 1)} :
                m \in {j \in (lo + 1)..hi : s[j] = ")" /\ OnlyRedirs(s, j + 1, hi)}}
PipeTrees(s, lo, hi) ==
    ExecTrees(s, lo, hi) \cup
    UNION {{Pipe(l, r, m) : l \in ExecTrees(s, lo, m - 1), r \in PipeTrees(s, m + 1, hi)} :
           m \in {j \in lo..hi : s[j] = "|"}}

RECURSIVE BackTrees(_, _, _)
BackTrees(s, lo, hi) ==
    PipeTrees(s, lo, hi) \cup
    IF lo <= hi /\ s[hi] = "&" THEN {Back(t) : t \in BackTrees(s, lo, hi - 1)} ELSE {}
LineTrees(s, lo, hi) ==
    BackTrees(s, lo, hi) \cup
    UNION {{List(l, r) : l \in BackTrees(s, lo, m - 1), r \in LineTrees(s, m + 1, hi)} :
           m \in {j \in lo..hi : s[j] = ";"}}

(* Where the programs of a command read and write.                          *)
RECURSIVE Plumbing(_, _, _, _)
Plumbing(c, n, in, out) ==
    CASE c.type = "EXEC" -> IF c.argv = <<>> THEN {} ELSE {<<c.argv, in, out>>}
      [] c.type = "REDIR" -> IF c.fd = 0 THEN Plumbing(c.cmd, n, <<"file", n, c.file>>, out)
                             ELSE Plumbing(c.cmd, n, in, <<"file", n, c.file>>)
      [] c.type = "BACK" -> Plumbing(c.cmd, n, in, out)
      [] c.type = "LIST" -> Plumbing(c.left, n, in, out) \cup Plumbing(c.right, n, in, out)
      [] c.type = "PIPE" -> Plumbing(c.left, n, in, <<"w", n, c.at>>)
                            \cup Plumbing(c.right, n, <<"r", n, c.at>>, out)

---------------------------------------------------------------------------
(* Properties.                                                              *)

(* Every variable has its type; the shell keeps its own descriptors, and    *)
(* no process is the child of one that has ended.                           *)
TypeOK ==
    /\ \A p \in Slot :
          /\ proc[p].parent \in 0..NPROC /\ proc[p].line \in Lines \cup {<<>>}
          /\ proc[p].pc \in {"free", "zombie", "prompt", "wait", "run", "prog", "lwait",
                            "left", "right", "wait1", "wait2", "exit"}
          /\ proc[p].fds \in [Fd -> {"closed", "console", "file", "r", "w"} \X Nat \X Nat]
          /\ proc[p].cmd.type \in CmdTypes
          /\ Live(p) /\ proc[p].parent # 0 => Live(proc[p].parent)
    /\ Live(1) => proc[1].fds = Stdio

(* The parser accepts exactly the lines of the grammar, each has one tree,  *)
(* and that tree is the one parsecmd builds (parsecmd .. parseexec).        *)
ParserAgrees ==
    [][no' # no =>
        LET s == proc'[1].line
            x == CommandOf[s]
        IN LineTrees(s, 1, Len(s)) = IF x.ok THEN {x.cmd} ELSE {}]_vars

(* A program starts with descriptors 0, 1 and 2 and no other, connected as  *)
(* the command says: both sides of a pipe to that pipe, redirections over   *)
(* pipes (the REDIR and PIPE cases of runcmd).                              *)
Plumbed ==
    \A p \in Slot : At(p, "prog") =>
        LET q == proc[p]
        IN /\ <<q.cmd.argv, q.fds[0], q.fds[1]>>
                 \in Plumbing(CommandOf[q.line].cmd, q.no, Console, Console)
           /\ q.fds[2] = Console /\ q.fds[3] = Closed /\ q.fds[4] = Closed

(* When the prompt is back, the only processes left are the ones started    *)
(* with "&", unless a fork failed on the way: every wait() of runcmd waits  *)
(* for the child it is meant for.                                           *)
ForegroundDone ==
    TypeOK /\ (At(1, "prompt") /\ failures = 0 =>
        \A p \in Slot \ {1} : Live(p) => proc[p].bg)

(* After the last line everything comes to rest: each process the shell     *)
(* started has ended, those left by a failed fork too, and the prompt is    *)
(* back or the shell has ended.  No pipeline keeps a write end that its own *)
(* reader waits on, and no wait() waits for ever.                           *)
Settles == <>[](/\ proc[1].pc \in {"prompt", "free"}
                /\ \A p \in Slot \ {1} : At(p, "free"))
===========================================================================
