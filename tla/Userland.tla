------------------------------ MODULE Userland ------------------------------
(***************************************************************************)
(* The programs that start programs: init (src/init.c), the shell          *)
(* (src/sh.c), the shells with a history (src/ezsh.c and src/mjsh.c, which *)
(* differ in comments and a message) and cron (src/cron.c), over the       *)
(* kernel's fork(), exit(), wait() and pipe().                             *)
(*                                                                         *)
(* What is typed at the console is one sequence of lines that all of them  *)
(* read from.  A program that is not one of the above runs, reads its      *)
(* standard input to the end if that is a pipe, and exits.  Modules Proc   *)
(* and Pipe have the inside of the kernel calls; here each is one step.    *)
(***************************************************************************)
EXTENDS ShParse, FiniteSets, FiniteSetsExt

CONSTANTS
    NPROC,     \* slots of the process table
    NPIPE,     \* pipes there is memory for
    Sessions,  \* what may be typed, a sequence of lines, and the crontab: jobs
               \* of five fields, each of no ("*"), one or two values
    HISTORY,   \* history_size of ezsh
    Clock      \* Clock[m]: minute, hour, day, month and year of the m-th check

Slot == 1..NPROC
INIT == 1
Pipe == 1..NPIPE

VARIABLES
    state,   \* "UNUSED", "RUNNING" or "ZOMBIE"
    parent,
    code,    \* what each process is doing: `at`, the command and a number
    fds,     \* standard input and output, 0 or a pipe, and other pipe ends
    fg,      \* whether the process belongs to a command sh waits for
    input,   \* the lines still to be typed
    crontab, \* the jobs, as cron has read them
    ez,      \* ezsh: command_num, history, background commands
    minute,  \* how often cron has looked at the clock
    failed,  \* some fork() or pipe() found no room
    halted   \* init exited: the kernel panics

vars == <<state, parent, code, fds, fg, input, crontab, ez, minute, failed, halted>>

At(where) == [at |-> where, cmd |-> NoCmd, k |-> 0]
Doing(where, c, k) == [at |-> where, cmd |-> c, k |-> k]
Console == [in |-> 0, out |-> 0, ends |-> {}]
NoHistory == [command_num |-> 0, history |-> [i \in 0..(HISTORY - 1) |-> NoCmd],
              background |-> 0]

Init ==
    /\ state = [p \in Slot |-> IF p = INIT THEN "RUNNING" ELSE "UNUSED"]
    /\ parent = [p \in Slot |-> INIT]
    /\ code = [p \in Slot |-> IF p = INIT THEN At("init_cron") ELSE At("none")]
    /\ fds = [p \in Slot |-> Console]
    /\ fg = [p \in Slot |-> FALSE]
    /\ \E s \in Sessions : input = s.input /\ crontab = s.crontab
    /\ ez = NoHistory
    /\ minute = 0
    /\ failed = FALSE /\ halted = FALSE

-----------------------------------------------------------------------------
(* The kernel calls.                                                       *)

\* The next line is of this kind; reading it is left to input'.
Types(kind) == input # <<>> /\ Head(input).to = kind /\ input' = Tail(input)

Runs(p, where) == ~halted /\ state[p] = "RUNNING" /\ code[p].at = where
Unused == {p \in Slot : state[p] = "UNUSED"}
Children(p) == {c \in Slot \ {p} : state[c] # "UNUSED" /\ parent[c] = p}
Zombies(p) == {c \in Children(p) : state[c] = "ZOMBIE"}

\* fork() with room in the table: p goes on with `then` and the child, with
\* p's descriptors, with `child`.
forks(p, child, isfg, then) ==
    LET c == Min(Unused)
    IN  /\ Unused # {}
        /\ state' = [state EXCEPT ![c] = "RUNNING"]
        /\ parent' = [parent EXCEPT ![c] = p]
        /\ code' = [code EXCEPT ![c] = child, ![p] = then]
        /\ fds' = [fds EXCEPT ![c] = fds[p]]
        /\ fg' = [fg EXCEPT ![c] = isfg]
        /\ UNCHANGED <<failed, halted>>

\* exit(): descriptors are closed, children go to init, and the slot stays
\* until the parent waits.
exits(p) ==
    /\ state' = [state EXCEPT ![p] = "ZOMBIE"]
    /\ parent' = [c \in Slot |-> IF c \in Children(p) THEN INIT ELSE parent[c]]
    /\ code' = [code EXCEPT ![p] = At("none")]
    /\ fds' = [fds EXCEPT ![p] = Console]
    /\ halted' = (p = INIT)
    /\ UNCHANGED fg

\* A fork() or pipe() that fails where the program then exits: fork1(),
\* panic("pipe") and init.
exits_failing(p) == exits(p) /\ failed' = TRUE

\* A step that only moves p on.
goes(p, then) ==
    /\ code' = [code EXCEPT ![p] = then]
    /\ UNCHANGED <<state, parent, fds, fg, failed, halted>>

\* What wait() returns: the first child in the table that has exited, or 0 if
\* there are no children.
reaped(p) == IF Zombies(p) # {} THEN Min(Zombies(p)) ELSE 0

\* wait(): it sleeps while there are children and none has exited; p goes on
\* with `then`.
waits(p, then) ==
    \/ /\ Zombies(p) # {}
       /\ state' = [state EXCEPT ![reaped(p)] = "UNUSED"]
       /\ parent' = [parent EXCEPT ![reaped(p)] = INIT]
       /\ code' = [code EXCEPT ![p] = then]
       /\ fg' = [fg EXCEPT ![reaped(p)] = FALSE]
       /\ UNCHANGED <<fds, failed, halted>>
    \/ /\ Children(p) = {}
       /\ goes(p, then)

Holds(p, k, end) ==
    \/ <<k, end>> \in fds[p].ends
    \/ end = "r" /\ fds[p].in = k
    \/ end = "w" /\ fds[p].out = k
FreePipes == {k \in Pipe : \A p \in Slot : ~Holds(p, k, "r") /\ ~Holds(p, k, "w")}

\* read() of a program whose input is a pipe returns 0.
AtEof(p) == fds[p].in = 0 \/ \A q \in Slot : ~Holds(q, fds[p].in, "w")

-----------------------------------------------------------------------------
(* init.                                                                   *)

\* cron may not be there or may not find its crontab.  (The table is empty at
\* boot: fork() does not fail.)
init_cron(p) ==
    /\ Runs(p, "init_cron")
    /\ \/ forks(p, Doing("cron", NoCmd, 1), FALSE, At("init_sh"))
       \/ forks(p, At("exit"), FALSE, At("init_sh"))
    /\ UNCHANGED <<input, ez, minute>>

init_sh(p) ==
    /\ Runs(p, "init_sh")
    /\ \/ forks(p, At("exec_sh"), FALSE, Doing("init_wait", NoCmd, Min(Unused)))
       \/ Unused = {} /\ exits_failing(p)
    /\ UNCHANGED <<input, ez, minute>>

\* The child: exec("sh"), which may fail.
exec_sh(p) ==
    /\ Runs(p, "exec_sh")
    /\ goes(p, At("sh")) \/ goes(p, At("exit"))
    /\ UNCHANGED <<input, ez, minute>>

\* Mutant: init waits for all of its children.
init_wait_all(p) ==
    /\ Runs(p, "init_wait")
    /\ waits(p, IF reaped(p) = 0 THEN At("init_sh") ELSE code[p])
    /\ UNCHANGED <<input, ez, minute>>

\* Zombies that are not the shell are reaped on the way.
init_wait(p) ==
    /\ Runs(p, "init_wait")
    /\ waits(p, IF reaped(p) \in {0, code[p].k} THEN At("init_sh") ELSE code[p])
    /\ UNCHANGED <<input, ez, minute>>

-----------------------------------------------------------------------------
(* sh.                                                                     *)

sh_line(p) ==
    LET cmd == parsecmd(Head(input).tokens)
    IN  /\ Runs(p, "sh") /\ Types("sh")
        /\ \/ forks(p, IF cmd = NoCmd THEN At("exit") ELSE Doing("runcmd", cmd, 0), TRUE,
                    At("sh_wait"))
           \/ Unused = {} /\ exits_failing(p)
        /\ UNCHANGED <<ez, minute>>

\* chdir() in the shell itself.
sh_cd(p) ==
    /\ Runs(p, "sh") /\ Types("cd")
    /\ UNCHANGED <<state, parent, code, fds, fg, ez, minute, failed, halted>>

\* The end of the input.
sh_eof(p) ==
    /\ Runs(p, "sh") /\ Types("eof")
    /\ exits(p)
    /\ UNCHANGED <<ez, minute, failed>>

sh_wait(p) ==
    /\ Runs(p, "sh_wait")
    /\ waits(p, At("sh"))
    /\ UNCHANGED <<input, ez, minute>>

\* exec(), which may fail; the programs of this module and the editor have
\* states of their own.
Started(argv) ==
    IF argv = <<>> THEN {"exit"}
    ELSE {"exit", CASE Head(argv) \in {"ezsh", "mjsh"} -> "ezsh"
                    [] Head(argv) = "xvedit" -> "xvedit"
                    [] OTHER -> "program"}
run_exec(p) ==
    /\ Runs(p, "runcmd") /\ code[p].cmd.t = "EXEC"
    /\ \E where \in Started(code[p].cmd.argv) :
           /\ goes(p, At(where))
           /\ ez' = IF where = "ezsh" THEN NoHistory ELSE ez
    /\ UNCHANGED <<input, minute>>

\* A file instead of the console or the pipe, if it can be opened.
run_redir(p) ==
    /\ Runs(p, "runcmd") /\ code[p].cmd.t = "REDIR"
    /\ \/ /\ fds' = [fds EXCEPT ![p] = IF code[p].cmd.fd = 0 THEN [@ EXCEPT !.in = 0]
                                       ELSE [@ EXCEPT !.out = 0]]
          /\ code' = [code EXCEPT ![p] = Doing("runcmd", code[p].cmd.cmd, 0)]
          /\ UNCHANGED <<state, parent, fg, failed, halted>>
       \/ goes(p, At("exit"))
    /\ UNCHANGED <<input, ez, minute>>

run_list(p) ==
    /\ Runs(p, "runcmd") /\ code[p].cmd.t = "LIST"
    /\ \/ forks(p, Doing("runcmd", code[p].cmd.left, 0), fg[p],
                Doing("list_wait", code[p].cmd.right, 0))
       \/ Unused = {} /\ exits_failing(p)
    /\ UNCHANGED <<input, ez, minute>>

list_wait(p) ==
    /\ Runs(p, "list_wait")
    /\ waits(p, Doing("runcmd", code[p].cmd, 0))
    /\ UNCHANGED <<input, ez, minute>>

run_pipe(p) ==
    LET k == Min(FreePipes)
    IN  /\ Runs(p, "runcmd") /\ code[p].cmd.t = "PIPE"
        /\ \/ /\ FreePipes # {}
              /\ fds' = [fds EXCEPT ![p].ends = @ \cup {<<k, "r">>, <<k, "w">>}]
              /\ code' = [code EXCEPT ![p] = Doing("pipe_left", code[p].cmd, k)]
              /\ UNCHANGED <<state, parent, fg, failed, halted>>
           \/ FreePipes = {} /\ exits_failing(p)
        /\ UNCHANGED <<input, ez, minute>>

pipe_left(p) ==
    /\ Runs(p, "pipe_left")
    /\ \/ forks(p, Doing("left", code[p].cmd.left, code[p].k), fg[p],
                [code[p] EXCEPT !.at = "pipe_right"])
       \/ Unused = {} /\ exits_failing(p)
    /\ UNCHANGED <<input, ez, minute>>

pipe_right(p) ==
    /\ Runs(p, "pipe_right")
    /\ \/ forks(p, Doing("right", code[p].cmd.right, code[p].k), fg[p],
                [code[p] EXCEPT !.at = "pipe_close"])
       \/ Unused = {} /\ exits_failing(p)
    /\ UNCHANGED <<input, ez, minute>>

\* The children put their end in place of the console and close both others.
pipe_child(p) ==
    LET k == code[p].k
        rest == fds[p].ends \ {<<k, "r">>, <<k, "w">>}
    IN  /\ Runs(p, "left") \/ Runs(p, "right")
        /\ fds' = [fds EXCEPT ![p] = IF code[p].at = "left"
                                     THEN [@ EXCEPT !.out = k, !.ends = rest]
                                     ELSE [@ EXCEPT !.in = k, !.ends = rest]]
        /\ code' = [code EXCEPT ![p] = Doing("runcmd", code[p].cmd, 0)]
        /\ UNCHANGED <<state, parent, fg, input, ez, minute, failed, halted>>

\* Mutant: the write end stays open while the children are waited for.
pipe_close_half(p) ==
    /\ Runs(p, "pipe_close")
    /\ fds' = [fds EXCEPT ![p].ends = @ \ {<<code[p].k, "r">>}]
    /\ code' = [code EXCEPT ![p] = Doing("pipe_wait", NoCmd, 2)]
    /\ UNCHANGED <<state, parent, fg, input, ez, minute, failed, halted>>

pipe_close(p) ==
    /\ Runs(p, "pipe_close")
    /\ fds' = [fds EXCEPT ![p].ends = @ \ {<<code[p].k, "r">>, <<code[p].k, "w">>}]
    /\ code' = [code EXCEPT ![p] = Doing("pipe_wait", NoCmd, 2)]
    /\ UNCHANGED <<state, parent, fg, input, ez, minute, failed, halted>>

\* Mutant: one wait() for two children.
pipe_wait_once(p) ==
    /\ Runs(p, "pipe_wait")
    /\ waits(p, At("exit"))
    /\ UNCHANGED <<input, ez, minute>>

pipe_wait(p) ==
    /\ Runs(p, "pipe_wait")
    /\ waits(p, IF code[p].k = 2 THEN Doing("pipe_wait", NoCmd, 1) ELSE At("exit"))
    /\ UNCHANGED <<input, ez, minute>>

\* The child runs on its own; the process sh waits for is done.
run_back(p) ==
    /\ Runs(p, "runcmd") /\ code[p].cmd.t = "BACK"
    /\ \/ forks(p, Doing("runcmd", code[p].cmd.cmd, 0), FALSE, At("exit"))
       \/ Unused = {} /\ exits_failing(p)
    /\ UNCHANGED <<input, ez, minute>>

-----------------------------------------------------------------------------
(* ezsh and mjsh.                                                          *)

\* A line goes into the history before anything else.  cd leaves it at that:
\* the next line takes its place.  "#n" runs entry n, whose '&' went when it
\* ran first.  A failed fork() is not noticed.
ezsh_cd(p) ==
    /\ Runs(p, "ezsh") /\ Types("ezsh_cd")
    /\ ez' = [ez EXCEPT !.history[ez.command_num] = Head(input)]
    /\ UNCHANGED <<state, parent, code, fds, fg, minute, failed, halted>>

ezsh_line(p) ==
    LET line == Head(input)
        typed == [ez.history EXCEPT ![ez.command_num] = line]
        command == IF "entry" \in DOMAIN line THEN typed[line.entry] ELSE line
        background == "background" \in DOMAIN command /\ command.background
        kept == IF background THEN [command EXCEPT !.background = FALSE] ELSE command
        next == IF background THEN At("ezsh") ELSE At("ezsh_wait")
    IN  /\ Runs(p, "ezsh") /\ Types("ezsh")
        /\ command # NoCmd
        /\ ez' = [ez EXCEPT !.history = [typed EXCEPT ![ez.command_num] = kept],
                            !.command_num = (@ + 1) % HISTORY,
                            !.background = @ + IF background THEN 1 ELSE 0]
        /\ \/ forks(p, At("program"), FALSE, next) /\ "entry" \notin DOMAIN command
           \/ forks(p, At("exit"), FALSE, next)
           \/ Unused = {} /\ goes(p, next)
        /\ UNCHANGED minute

ezsh_wait(p) ==
    /\ Runs(p, "ezsh_wait")
    /\ waits(p, At("ezsh"))
    /\ UNCHANGED <<input, ez, minute>>

\* "exit", or the end of the input.
ezsh_exit(p) ==
    /\ Runs(p, "ezsh") /\ Types("eof")
    /\ exits(p)
    /\ UNCHANGED <<ez, minute, failed>>

-----------------------------------------------------------------------------
(* cron.                                                                   *)

months == <<"jan", "feb", "mar", "apr", "may", "jun", "jul", "aug", "sep", "oct", "nov", "dec">>
days == <<"sun", "mon", "tue", "wed", "thu", "fri", "sat">>

\* A value in a field is a number or a word.  0 is not among the digits.
is_digit(v) == "digits" \in DOMAIN v /\ v.digits # 0
atoi(v) == IF "digits" \in DOMAIN v THEN v.digits ELSE 0
index(names, v) ==
    IF "word" \in DOMAIN v /\ Contains(names, v.word)
    THEN CHOOSE k \in DOMAIN names : names[k] = v.word ELSE -1
month_to_int(v) == index(months, v)
day_to_int(v) == IF index(days, v) = -1 THEN -1 ELSE index(days, v) - 1

\* get_cron_details(): the i-th field as the values it matches; -1 stands for
\* "*", and is also what a wrong name becomes.
converted(i, first, v) ==
    IF i \in {4, 5} /\ ~is_digit(first) THEN IF i = 4 THEN month_to_int(v) ELSE day_to_int(v)
    ELSE atoi(v)
run_when_matched(i, field) ==
    LET from == converted(i, field[1], field[1])
        to == converted(i, field[1], Last(field))
    IN  IF field = <<>> THEN <<-1>> ELSE [k \in 1..(to - from + 1) |-> from + k - 1]

\* The fifth field is compared with the year.
int_to_time(r, i) == r[i]

matches(job, r) ==
    \A i \in 1..5 :
        LET run_when == run_when_matched(i, job[i])
        IN  \E j \in DOMAIN run_when : run_when[1] = -1 \/ run_when[j] = int_to_time(r, i)

\* A line of the crontab, <<>> if it is empty or a comment: nobody waits for the
\* child, and a failed fork() is not noticed.
cron(p) ==
    LET i == code[p].k
        next == Doing("cron", NoCmd, i + 1)
    IN  /\ Runs(p, "cron")
        /\ i <= Len(crontab) /\ minute < Len(Clock)
        /\ IF crontab[i] # <<>> /\ matches(crontab[i], Clock[minute + 1])
           THEN forks(p, At("program"), FALSE, next) \/ (Unused = {} /\ goes(p, next))
           ELSE goes(p, next)
        /\ UNCHANGED <<input, ez, minute>>

\* sleep() until the next minute.
cron_sleeps(p) ==
    /\ Runs(p, "cron")
    /\ code[p].k = Len(crontab) + 1 /\ minute < Len(Clock)
    /\ goes(p, Doing("cron", NoCmd, 1))
    /\ minute' = minute + 1
    /\ UNCHANGED <<input, ez>>

-----------------------------------------------------------------------------

\* Any other program ends when its input has.
program(p) ==
    /\ Runs(p, "program")
    /\ AtEof(p)
    /\ exits(p)
    /\ UNCHANGED <<input, ez, minute, failed>>

\* exit() after an exec() or open() that failed, and at the end of runcmd().
program_exit(p) ==
    /\ Runs(p, "exit")
    /\ exits(p)
    /\ UNCHANGED <<input, ez, minute, failed>>

\* What goes on without anybody typing.
Step(p) ==
    /\ \/ init_cron(p) \/ init_sh(p) \/ exec_sh(p) \/ init_wait(p) \/ sh_wait(p)
       \/ run_exec(p) \/ run_redir(p) \/ run_list(p) \/ list_wait(p)
       \/ run_pipe(p) \/ pipe_left(p) \/ pipe_right(p) \/ pipe_child(p)
       \/ pipe_close(p) \/ pipe_wait(p) \/ run_back(p)
       \/ ezsh_wait(p) \/ cron(p) \/ cron_sleeps(p) \/ program(p) \/ program_exit(p)
    /\ UNCHANGED crontab

Line(p) ==
    /\ \/ sh_line(p) \/ sh_cd(p) \/ sh_eof(p)
       \/ ezsh_cd(p) \/ ezsh_line(p) \/ ezsh_exit(p)
    /\ UNCHANGED crontab

Next == \E p \in Slot : Step(p) \/ Line(p)

\* As long as some process can go on, one does; nobody has to type.  Only init
\* goes on for ever by itself, when exec() of sh fails again and again; as it
\* does so only while there is no shell, and InitServes excepts it, this is
\* enough.
Fairness == WF_vars(\E p \in Slot : Step(p))

-----------------------------------------------------------------------------
(* Properties.                                                             *)

Shell(p) == state[p] = "RUNNING" /\ code[p].at \in {"sh", "sh_wait"}
\* The user is in another shell or in the editor.
Elsewhere == \E p \in Slot : code[p].at \in {"ezsh", "ezsh_wait", "xvedit"}

\* When sh prompts, all that it ran and did not put into the background has
\* exited, whatever the tree of the command and whoever reaped whom; ezsh,
\* whose wait() may reap a background command, has as many children left at
\* most as it put into the background (wait() in src/sh.c and src/ezsh.c).  A
\* pipeline of which fork() refuses a part is the exception.
PromptMeansDone ==
    ~failed => \A p \in Slot : state[p] = "RUNNING" =>
        /\ code[p].at = "sh" => \A q \in Slot : state[q] = "RUNNING" => ~fg[q]
        /\ code[p].at = "ezsh" => Cardinality(Children(p)) <= ez.background

\* A command that sh waits for ends, pipelines and failed forks included,
\* unless the user is in another program: no process keeps a pipe end open
\* that would keep a reader waiting (the close() calls of runcmd() in src/sh.c).
Waiting == \E p \in Slot : Runs(p, "sh_wait")
CommandsEnd == Waiting ~> (~Waiting \/ Elsewhere)

\* When there is no shell init starts one, and whoever exits is reaped, by its
\* parent or by init, unless the table is full and init exits (src/init.c) or
\* exec() of sh fails for ever: then init at least tries for ever.  Excepted are
\* also the children of cron, which never waits, and background commands of
\* ezsh, which waits only for a command in the foreground.
Trying == \E p \in Slot : Runs(p, "exec_sh")
Unserved ==
    \/ ~ \E p \in Slot : Shell(p)
    \/ \E z \in Slot :
           state[z] = "ZOMBIE" /\ code[parent[z]].at \notin {"cron", "ezsh", "ezsh_wait"}
InitServes == []<>Trying \/ (Unserved ~> (~Unserved \/ halted))

\* A line that is typed for a tree of commands, with parentheses where the
\* grammar needs them, is parsed as that tree (parsecmd() of src/sh.c, for all
\* trees of two levels of operators).  It does not depend on the state and is
\* evaluated once, at a boot after which nothing is typed.
ParsesBack ==
    input = <<>> /\ code[INIT].at = "init_cron" => \A c \in Trees(2) : parsecmd(TypedAs(c)) = c
=============================================================================
