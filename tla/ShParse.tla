------------------------------ MODULE ShParse -------------------------------
(***************************************************************************)
(* The parser of the shell (src/sh.c): from a line to the tree of commands *)
(* that runcmd() runs.                                                     *)
(*                                                                         *)
(* A line is the sequence of its tokens, as gettoken() cuts it: symbols,   *)
(* and words.  The functions of the parser take the tokens that are left   *)
(* and give back a tree and what is left after it.                         *)
(***************************************************************************)
EXTENDS Integers, Sequences, SequencesExt

CONSTANT MAXARGS   \* words of a command, and one

symbols == {"<", ">", ">>", "|", "&", ";", "(", ")"}

execcmd(argv) == [t |-> "EXEC", argv |-> argv]
redircmd(cmd, fd) == [t |-> "REDIR", cmd |-> cmd, fd |-> fd]
pipecmd(left, right) == [t |-> "PIPE", left |-> left, right |-> right]
listcmd(left, right) == [t |-> "LIST", left |-> left, right |-> right]
backcmd(cmd) == [t |-> "BACK", cmd |-> cmd]

NoCmd == [t |-> "NONE"]
Parsed(cmd, rest) == [cmd |-> cmd, rest |-> rest]
\* panic(): the process that parses exits.
Panic == Parsed(NoCmd, <<>>)
Panicked(r) == r.cmd = NoCmd

peek(s, toks) == s # <<>> /\ Head(s) \in toks

\* The descriptors that the redirections at the front of s change.
RECURSIVE parseredirs(_, _)
parseredirs(fds, s) ==
    IF ~peek(s, {"<", ">", ">>"}) THEN [fds |-> fds, rest |-> s, ok |-> TRUE]
    ELSE IF Len(s) = 1 \/ s[2] \in symbols THEN [fds |-> fds, rest |-> s, ok |-> FALSE]
    ELSE parseredirs(Append(fds, IF Head(s) = "<" THEN 0 ELSE 1), SubSeq(s, 3, Len(s)))
Redirected(cmd, fds) == FoldLeft(redircmd, cmd, fds)

\* The loop of parseexec(): words and redirections.
RECURSIVE parseargs(_, _)
parseargs(argv, r) ==
    IF ~r.ok THEN Panic
    ELSE IF r.rest = <<>> \/ peek(r.rest, {"|", ")", "&", ";"})
         THEN Parsed(Redirected(execcmd(argv), r.fds), r.rest)
    ELSE IF Head(r.rest) \in symbols \/ Len(argv) + 1 >= MAXARGS THEN Panic
    ELSE parseargs(Append(argv, Head(r.rest)), parseredirs(r.fds, Tail(r.rest)))

RECURSIVE parseline(_)
RECURSIVE parsepipe(_)
RECURSIVE parsebacks(_)

parseblock(s) ==
    LET in == parseline(Tail(s))
        r == parseredirs(<<>>, Tail(in.rest))
    IN  IF Panicked(in) \/ ~peek(in.rest, {")"}) \/ ~r.ok THEN Panic
        ELSE Parsed(Redirected(in.cmd, r.fds), r.rest)

parseexec(s) ==
    IF peek(s, {"("}) THEN parseblock(s) ELSE parseargs(<<>>, parseredirs(<<>>, s))

parsepipe(s) ==
    LET left == parseexec(s)
        right == parsepipe(Tail(left.rest))
    IN  IF Panicked(left) \/ ~peek(left.rest, {"|"}) THEN left
        ELSE IF Panicked(right) THEN Panic
        ELSE Parsed(pipecmd(left.cmd, right.cmd), right.rest)

\* The loop of parseline(): one BACK for every '&'.
parsebacks(r) ==
    IF Panicked(r) \/ ~peek(r.rest, {"&"}) THEN r
    ELSE parsebacks(Parsed(backcmd(r.cmd), Tail(r.rest)))

\* Mutant: '&' is looked for once, after the list.
parseline_late(s) ==
    LET left == parsepipe(s)
        right == parseline(Tail(left.rest))
    IN  IF Panicked(left) \/ ~peek(left.rest, {";"}) THEN parsebacks(left)
        ELSE IF Panicked(right) THEN Panic
        ELSE parsebacks(Parsed(listcmd(left.cmd, right.cmd), right.rest))

parseline(s) ==
    LET left == parsebacks(parsepipe(s))
        right == parseline(Tail(left.rest))
    IN  IF Panicked(left) \/ ~peek(left.rest, {";"}) THEN left
        ELSE IF Panicked(right) THEN Panic
        ELSE Parsed(listcmd(left.cmd, right.cmd), right.rest)

\* NoCmd if there is an error.
parsecmd(s) == LET r == parseline(s) IN IF r.rest = <<>> THEN r.cmd ELSE NoCmd

-----------------------------------------------------------------------------
(* The trees of a given depth and the lines that mean them.                *)

RECURSIVE Trees(_)
Trees(depth) ==
    IF depth = 0 THEN {execcmd(<<"a">>)}
    ELSE LET T == Trees(depth - 1)
         IN  T \cup {pipecmd(l, r) : l, r \in T} \cup {listcmd(l, r) : l, r \in T}
               \cup {backcmd(c) : c \in T} \cup {redircmd(c, fd) : c \in T, fd \in {0, 1}}

\* A tree as one would type it, in parentheses unless it is one of the kinds
\* that need none where it stands.
RECURSIVE TypedAs(_)
InParens(c, kinds) == IF c.t \in kinds THEN TypedAs(c) ELSE <<"(">> \o TypedAs(c) \o <<")">>
TypedAs(c) ==
    CASE c.t = "EXEC"  -> c.argv
      [] c.t = "REDIR" -> InParens(c.cmd, {"EXEC", "REDIR"})
                              \o <<IF c.fd = 0 THEN "<" ELSE ">", "f">>
      [] c.t = "PIPE"  -> InParens(c.left, {"EXEC", "REDIR"}) \o <<"|">>
                              \o InParens(c.right, {"EXEC", "REDIR", "PIPE"})
      [] c.t = "BACK"  -> InParens(c.cmd, {"EXEC", "REDIR", "PIPE", "BACK"}) \o <<"&">>
      [] c.t = "LIST"  -> InParens(c.left, {"EXEC", "REDIR", "PIPE", "BACK"}) \o <<";">>
                              \o TypedAs(c.right)
=============================================================================
