------------------------------ MODULE Session -------------------------------
(***************************************************************************)
(* A session at the console: the shells of module Userland, one of which   *)
(* starts the editor of module XvEdit and waits for it.                    *)
(***************************************************************************)
EXTENDS Userland

CONSTANTS Name, Original, Stored, Texts, LineNums, Ranges, MAXCMDS

\* The editor is given a file that exists, and ranges whose last line is not
\* before their first.
ASSUME EditorAssumption ==
    /\ Original \in Name /\ Stored[Original] # <<-1>>
    /\ \A r \in Ranges : IF r.colon THEN r.last = 0 \/ r.first <= r.last ELSE r.first > 0

VARIABLES contents, nodes, freed, disk, wild, quit, cmds, hist

Editor == INSTANCE XvEdit
evars == <<contents, nodes, freed, disk, wild, quit, cmds, hist>>

SessionInit == Init /\ Editor!Init

\* The editor at its prompt, with the list that it reads first.
editor(p) ==
    /\ Runs(p, "xvedit")
    /\ Editor!main \/ Editor!Next
    /\ UNCHANGED vars

\* The editor is left, by QUIT or because of what it did to its memory; only
\* the files stay.
editor_exits(p) ==
    /\ Runs(p, "xvedit")
    /\ exits(p) /\ Editor!exits
    /\ UNCHANGED <<input, crontab, ez, minute, failed>>

SessionNext ==
    \/ Next /\ UNCHANGED evars
    \/ \E p \in Slot : editor(p) \/ editor_exits(p)

\* Nobody has to type; the programs go on by themselves.
Spec == SessionInit /\ [][SessionNext]_<<vars, evars>> /\ Fairness

\* The list holds the lines that the editor's help texts promise, whatever the
\* commands (src/xvedit.c; module XvEdit says which are excepted).
KeepsText == Editor!KeepsText

\* What SAVE and QUIT wrote is read back as the same lines (save_file() and
\* read_file() of src/xvedit.c).
SavedIsRead == Editor!SavedIsRead

\* QUIT without a question loses nothing but replaced lines (run_command() of
\* src/xvedit.c).
QuitLosesOnlyEdits == Editor!QuitLosesOnlyEdits

\* LIST prints its range and FIND nothing that does not match (list() and find()
\* of src/xvedit.c).
ShowsRange == Editor!ShowsRange
=============================================================================
