-------------------------------- MODULE MCFs --------------------------------
(* Small instances of Fs for TLC. *)
EXTENDS Fs, TLC

CONSTANTS p1, p2

Abs(s) == [abs |-> TRUE, names |-> s]
Rel(s) == [abs |-> FALSE, names |-> s]

\* p1 makes and removes the directories /a and /a/b, p2 moves through them.
Shared == {[op |-> "open", path |-> Rel(<<"b">>), mode |-> "O_CREATE"],
           [op |-> "unlink", path |-> Abs(<<"a", "b">>)],
           [op |-> "close"]}

TreeCalls ==
    p1 :> Shared \cup
        {[op |-> "mkdir", path |-> Abs(<<"a">>)],
         [op |-> "mkdir", path |-> Abs(<<>>)],
         [op |-> "mkdir", path |-> Rel(<<"a", "b">>)],
         [op |-> "unlink", path |-> Abs(<<"a">>)]}
    @@ p2 :> Shared \cup
        {[op |-> "open", path |-> Abs(<<"b">>), mode |-> "O_RDONLY"],
         [op |-> "link", path |-> Rel(<<"b">>), new |-> Rel(<<"..", "b">>)],
         [op |-> "chdir", path |-> Rel(<<"a", "b">>)],
         [op |-> "mknod", path |-> Rel(<<"b">>)],
         [op |-> "chdir", path |-> Rel(<<"..">>)]}

\* Both processes create and remove the file /a.
FileCalls == [p \in Proc |->
    {[op |-> "open", path |-> Rel(<<"a">>), mode |-> "O_CREATE"],
     [op |-> "unlink", path |-> Rel(<<"a">>)],
     [op |-> "close"]}]
=============================================================================
