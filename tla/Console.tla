------------------------------ MODULE Console ------------------------------
(***************************************************************************)
(* The console's input (src/console.c): the keyboard interrupt edits a     *)
(* line in a ring of characters and hands it over when it is complete,     *)
(* while several processes read() the console.  consoleintr() and each     *)
(* turn of consoleread()'s loop run under cons.lock.                       *)
(***************************************************************************)
EXTENDS Integers, Sequences, SequencesExt

CONSTANTS
    Proc, NoProc,
    INPUT_BUF,
    UINT,       \* 2^32, the modulus of the indices
    MAXCOUNT,   \* bound: the size of a read()
    Victims     \* the processes somebody kills

ASSUME ConsoleAssumption ==
    /\ NoProc \notin Proc /\ Victims \subseteq Proc
    /\ INPUT_BUF \in Nat \ {0} /\ MAXCOUNT \in Nat \ {0}
    /\ UINT \in Nat /\ UINT > INPUT_BUF /\ UINT % INPUT_BUF = 0

VARIABLES
    lock,      \* cons.lock
    buf, r, w, e,
    killed,
    pc, n, target, got  \* of each process: place, n, target and dst

input == <<buf, r, w, e>>
vars == <<lock, input, killed, pc, n, target, got>>

Char == {"a", "newline", "^D"}

PCs == {"out", "while", "sleep", "asleep", "relock", "return"}

TypeOK ==
    /\ lock \in Proc \cup {NoProc}
    /\ buf \in [0..INPUT_BUF-1 -> Char]
    /\ {r, w, e} \subseteq 0..UINT-1
    /\ killed \in [Proc -> BOOLEAN]
    /\ pc \in [Proc -> PCs]
    /\ n \in [Proc -> 0..MAXCOUNT] /\ target \in [Proc -> 0..MAXCOUNT]
    /\ \A p \in Proc : got[p] \in Seq(Char) /\ n[p] + Len(got[p]) = target[p]

Init ==
    /\ lock = NoProc
    /\ buf = [i \in 0..INPUT_BUF-1 |-> "a"]
    /\ r = 0 /\ w = 0 /\ e = 0
    /\ killed = [p \in Proc |-> FALSE]
    /\ pc = [p \in Proc |-> "out"]
    /\ n = [p \in Proc |-> 0]
    /\ target = [p \in Proc |-> 0]
    /\ got = [p \in Proc |-> <<>>]

goto(p, l) == pc' = [pc EXCEPT ![p] = l]

wakeup == pc' = [p \in Proc |-> IF pc[p] = "asleep" THEN "relock" ELSE pc[p]]

minus(i, j) == (i - j) % UINT

\* The characters from index i up to index j.
Chars(i, j) == [k \in 1..minus(j, i) |-> buf[(i + k - 1) % INPUT_BUF]]
-----------------------------------------------------------------------------
(* consoleintr(), one character at a time *)

HasRoom == minus(e, r) < INPUT_BUF

EndsLine(c) == c \in {"newline", "^D"} \/ minus(e + 1, r) = INPUT_BUF

\* Mutant: no reader is woken.
type_silent(c) ==
    /\ lock = NoProc
    /\ c \in Char
    /\ HasRoom
    /\ buf' = [buf EXCEPT ![e % INPUT_BUF] = c]
    /\ e' = (e + 1) % UINT
    /\ IF EndsLine(c) THEN w' = e' ELSE UNCHANGED w
    /\ UNCHANGED <<lock, r, killed, pc, n, target, got>>

type(c) ==
    /\ lock = NoProc
    /\ c \in Char
    /\ HasRoom
    /\ buf' = [buf EXCEPT ![e % INPUT_BUF] = c]
    /\ e' = (e + 1) % UINT
    /\ IF EndsLine(c) THEN w' = e' /\ wakeup ELSE UNCHANGED <<w, pc>>
    /\ UNCHANGED <<lock, r, killed, n, target, got>>

\* Mutant: the end of the edited line is not tested.
backspace_unchecked ==
    /\ lock = NoProc
    /\ e # r
    /\ e' = minus(e, 1)
    /\ UNCHANGED <<lock, buf, r, w, killed, pc, n, target, got>>

backspace ==
    /\ lock = NoProc
    /\ e # w
    /\ e' = minus(e, 1)
    /\ UNCHANGED <<lock, buf, r, w, killed, pc, n, target, got>>

\* ^U: back to the last newline, or to the start of the line.
kill_line ==
    /\ lock = NoProc
    /\ e # w
    /\ \E k \in 0..minus(e, w) :
           /\ \A j \in 1..k : buf[minus(e, j) % INPUT_BUF] # "newline"
           /\ k = minus(e, w) \/ buf[minus(e, k + 1) % INPUT_BUF] = "newline"
           /\ e' = minus(e, k)
    /\ UNCHANGED <<lock, buf, r, w, killed, pc, n, target, got>>
-----------------------------------------------------------------------------
(* consoleread() *)

consoleread(p) ==
    /\ pc[p] = "out" /\ ~killed[p]
    /\ lock = NoProc /\ lock' = p
    /\ \E k \in 1..MAXCOUNT : /\ n' = [n EXCEPT ![p] = k]
                              /\ target' = [target EXCEPT ![p] = k]
    /\ goto(p, "while")
    /\ UNCHANGED <<input, killed, got>>

\* Nothing to read: return -1 if killed, or sleep.
read_wait(p) ==
    /\ pc[p] = "while"
    /\ r = w
    /\ goto(p, IF killed[p] THEN "return" ELSE "sleep")
    /\ UNCHANGED <<lock, input, killed, n, target, got>>

\* sleep(&input.r, &cons.lock), under ptable.lock.
sleep(p) ==
    /\ pc[p] = "sleep"
    /\ lock' = NoProc
    /\ goto(p, "asleep")
    /\ UNCHANGED <<input, killed, n, target, got>>

relock(p) ==
    /\ pc[p] = "relock"
    /\ lock = NoProc /\ lock' = p
    /\ goto(p, "while")
    /\ UNCHANGED <<input, killed, n, target, got>>

kill(p) ==
    /\ p \in Victims /\ ~killed[p]
    /\ killed' = [killed EXCEPT ![p] = TRUE]
    /\ goto(p, IF pc[p] = "asleep" THEN "relock" ELSE pc[p])
    /\ UNCHANGED <<lock, input, n, target, got>>

\* Mutant: a ^D after other characters is not saved.
read_eof_eats(p) ==
    /\ pc[p] = "while"
    /\ r # w
    /\ buf[r % INPUT_BUF] = "^D"
    /\ r' = (r + 1) % UINT
    /\ goto(p, "return")
    /\ UNCHANGED <<lock, buf, w, e, killed, n, target, got>>

\* A ^D ends the read; it stays for the next one unless this one is empty.
read_eof(p) ==
    /\ pc[p] = "while"
    /\ r # w
    /\ buf[r % INPUT_BUF] = "^D"
    /\ r' = IF n[p] < target[p] THEN r ELSE (r + 1) % UINT
    /\ goto(p, "return")
    /\ UNCHANGED <<lock, buf, w, e, killed, n, target, got>>

\* One character goes to the caller; the read ends with n or with the line.
read_char(p) ==
    LET c == buf[r % INPUT_BUF]
    IN  /\ pc[p] = "while"
        /\ r # w
        /\ c # "^D"
        /\ r' = (r + 1) % UINT
        /\ got' = [got EXCEPT ![p] = Append(@, c)]
        /\ n' = [n EXCEPT ![p] = @ - 1]
        /\ goto(p, IF c = "newline" \/ n[p] = 1 THEN "return" ELSE "while")
        /\ UNCHANGED <<lock, buf, w, e, killed, target>>

read_return(p) ==
    /\ pc[p] = "return"
    /\ lock' = NoProc
    /\ n' = [n EXCEPT ![p] = 0]
    /\ target' = [target EXCEPT ![p] = 0]
    /\ got' = [got EXCEPT ![p] = <<>>]
    /\ goto(p, "out")
    /\ UNCHANGED <<input, killed>>
-----------------------------------------------------------------------------
Locked(p) == read_wait(p) \/ sleep(p) \/ read_eof(p) \/ read_char(p) \/ read_return(p)

Next ==
    \/ \E c \in Char : type(c)
    \/ backspace
    \/ kill_line
    \/ \E p \in Proc : consoleread(p) \/ relock(p) \/ kill(p) \/ Locked(p)

Spec == Init /\ [][Next]_vars

\* A process in the kernel runs on and gets cons.lock at last.
FairSpec == Spec /\ \A p \in Proc : WF_vars(Locked(p)) /\ SF_vars(relock(p))
-----------------------------------------------------------------------------
(* Properties *)

Committed == Chars(r, w)

\* The three indices stay in order and within one buffer of each other, over
\* the wraparound of the 32-bit counters, and a full buffer is always handed
\* over: the reader can make room when the user cannot type or erase.
Indices ==
    /\ TypeOK
    /\ minus(w, r) <= minus(e, r)
    /\ minus(e, r) <= INPUT_BUF
    /\ minus(e, r) = INPUT_BUF => w = e

\* No step of consoleintr() or consoleread() disorders the indices, and what is
\* handed over is fixed: no key erases or overwrites it, and it leaves the
\* buffer one character at a time, from the front, into the read() that holds
\* cons.lock (a ^D into nobody's).
CommittedIsFixed ==
    [][LET Q == Committed IN
       /\ Indices'
       /\ \/ IsPrefix(Q, Committed') /\ UNCHANGED r
          \/ /\ Q # <<>> /\ Committed' = Tail(Q)
             /\ \E p \in Proc : /\ lock = p
                                /\ got' = IF Head(Q) = "^D" THEN got
                                          ELSE [got EXCEPT ![p] = Append(@, Head(Q))]]_vars

\* "Save ^D for next time, to make sure caller gets a 0-byte result": a ^D is
\* used up only by a read() that returns nothing.
EofIsEmptyRead ==
    [][\A p \in Proc : lock = p /\ r' # r /\ buf[r % INPUT_BUF] = "^D" =>
           got[p] = <<>> /\ pc'[p] = "return"]_vars

\* A line that is handed over while a read() waits is read.
LineIsRead ==
    (r # w /\ \E p \in Proc : pc[p] \in {"while", "sleep", "asleep", "relock"})
        ~> (r = w \/ \E p \in Proc : pc[p] = "return")
=============================================================================
