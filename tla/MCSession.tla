----------------------------- MODULE MCSession ------------------------------
EXTENDS Session

Sh(tokens) == [to |-> "sh", tokens |-> tokens]
Eof == [to |-> "eof"]
Ez(background) == [to |-> "ezsh", background |-> background]

\* "* * * * *", a comment, and "1-2 * * jna *" with the month misspelt.
Number(n) == [digits |-> n]
TwoJobs ==
    << <<<<>>, <<>>, <<>>, <<>>, <<>>>>, <<>>,
       <<<<Number(1), Number(2)>>, <<>>, <<>>, <<[word |-> "jna"]>>, <<>>>> >>

\* Lists, pipes, redirections and the background; the shell with a history; the
\* editor.
SomeSessions == {
    [input |-> <<Sh(<<"a", "&", ";", "b", "|", "c", ">", "f">>), [to |-> "cd"], Sh(<<"a", "|">>), Eof>>,
     crontab |-> TwoJobs],
    [input |-> <<Sh(<<"(", "a", "|", "(", "b", ";", "c", ")", ")", "&">>)>>,
     crontab |-> <<>>],
    [input |-> <<Sh(<<"ezsh">>), Ez(TRUE), [to |-> "ezsh_cd"], [to |-> "ezsh", entry |-> 0], Ez(FALSE), Eof,
                 Sh(<<"a", "b", "<", "f">>)>>,
     crontab |-> TwoJobs],
    [input |-> <<Sh(<<"xvedit", "f">>)>>, crontab |-> <<>>],
    [input |-> <<>>, crontab |-> <<>>] }

TwoMinutes == << <<0, 1, 1, 1, 2021>>, <<1, 1, 1, 1, 2021>> >>

\* The text that is typed is neither of the lines of the file, but its two
\* characters are both in the first.
TwoLines == [f \in Name |-> IF f = Original THEN <<1, 2, 3, 0, 2>> ELSE <<-1>>]
Text13 == {<<1, 3>>}
R(a, c, b) == [first |-> a, colon |-> c, last |-> b]
SomeRanges == {R(2, FALSE, 0), R(0, TRUE, 0), R(2, TRUE, 0), R(0, TRUE, 2), R(1, TRUE, 2),
               R(2, TRUE, 3)}
=============================================================================
