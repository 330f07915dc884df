------------------------------- MODULE XvEdit -------------------------------
(***************************************************************************)
(* The line editor (src/xvedit.c): a linked list of lines, read from a     *)
(* file and written back to it.                                            *)
(*                                                                         *)
(* A file is a sequence of characters of which NL ends a line.  Nodes are  *)
(* numbered as they are allocated.  A node that was freed keeps its        *)
(* contents until malloc() gives its memory away, which may happen in any  *)
(* later command: a command that touches such a node either finds it as it *)
(* was or goes `wild`, and after that nothing is said of the editor.       *)
(***************************************************************************)
EXTENDS Integers, Sequences, FiniteSets, SequencesExt, TLC

CONSTANTS
    Name,      \* names of files
    Original,  \* argv[1], the file the editor was started with
    Stored,    \* Stored[f], what is in the file at first; Absent if there is none
    Texts,     \* the lines that are typed
    LineNums,  \* the line numbers that are typed
    Ranges,    \* the ranges that are typed: first and last, 0 if left out, and colon
    MAXCMDS    \* a bound on the commands that change something

NL == 0
NULL == 0
Garbage == -1
Absent == <<-1>>

VARIABLES
    contents,  \* struct List: head, end, count and changes
    nodes,     \* nodes[n]: the line and the next node
    freed,     \* nodes that were freed
    disk,      \* what is in each file
    wild,      \* the editor has used memory that is no longer its own
    quit,      \* the editor has exited
    cmds,      \* the number of commands so far
    hist       \* what the user asked for, for the properties

evars == <<contents, nodes, freed, disk, wild, quit, cmds, hist>>

-----------------------------------------------------------------------------
(* Lines, files and the list.                                              *)

\* The lines of a file: the text between newlines, so one more than there are
\* newlines.
Newlines(text) == {i \in DOMAIN text : text[i] = NL}
SplitLines(text) ==
    LET cuts == <<0>> \o SetToSortSeq(Newlines(text), <) \o <<Len(text) + 1>>
    IN  [k \in 1..(Len(cuts) - 1) |-> SubSeq(text, cuts[k] + 1, cuts[k + 1] - 1)]
\* Mutant: no newline is written after a line.
Joined_bare(lines) == FlattenSeq(lines)
Joined(lines) == FlattenSeq([k \in DOMAIN lines |-> Append(lines[k], NL)])

RECURSIVE Chain(_)
Chain(n) ==
    IF n \in {NULL, Garbage} THEN <<>> ELSE <<n>> \o Chain(nodes[n].next)
Nodes == Chain(contents.head)
Lines == [k \in DOMAIN Nodes |-> nodes[Nodes[k]].line]
\* The pointer after the k-th node: a walk of k + 1 nodes uses it.
Beyond == IF Nodes = <<>> THEN contents.head ELSE nodes[Last(Nodes)].next

\* What a loop over the list, or over its first k nodes, runs into.
Touched(k) == {Nodes[j] : j \in DOMAIN Nodes \cap 1..k}
Walk(k) == Touched(k) \cup IF k > Len(Nodes) THEN {Beyond} ELSE {}
WalkAll == Touched(Len(Nodes)) \cup ({Beyond} \ {NULL})

\* A command that uses these nodes works, or goes wild.
Works(used) == used \cap {NULL, Garbage} = {}
MayGoWild(used) == used \cap (freed \cup {NULL, Garbage}) # {}

\* Before a command: the user is at the prompt.
Prompt == ~quit /\ ~wild /\ nodes # <<>>
Typed == Prompt /\ cmds < MAXCMDS

\* read_file(): a fresh list.  The `next` of the last node is not set; the
\* memory is zero at first, and may be anything once memory has been reused.
read_file(text, last) ==
    LET lines == SplitLines(text)
        first == Len(nodes) + 1
        end == Len(nodes) + Len(lines)
    IN  /\ contents' = [head |-> first, end |-> end, count |-> Len(lines), changes |-> 0]
        /\ nodes' = nodes \o [k \in 1..Len(lines) |->
               [line |-> lines[k], next |-> IF k = Len(lines) THEN last ELSE Len(nodes) + k + 1]]

\* What the user may expect after a file was read.
Loaded(text) ==
    [want |-> SplitLines(text), loaded |-> SplitLines(text), edited |-> {}, tail |-> FALSE,
     odd |-> FALSE, dropped |-> FALSE]

NoList == [head |-> NULL, end |-> NULL, count |-> 0, changes |-> 0]
NoHist == Loaded(<<>>) @@ [saved |-> [f \in Name |-> <<>>]]

Init ==
    /\ contents = NoList /\ nodes = <<>> /\ freed = {}
    /\ disk = Stored
    /\ wild = FALSE /\ quit = FALSE /\ cmds = 0
    /\ hist = NoHist

\* The process is gone, the files stay.
exits ==
    /\ quit \/ wild
    /\ contents' = NoList /\ nodes' = <<>> /\ freed' = {}
    /\ wild' = FALSE /\ quit' = FALSE /\ cmds' = 0
    /\ hist' = NoHist
    /\ UNCHANGED disk

\* main(), up to the first prompt.
main ==
    /\ nodes = <<>> /\ ~quit
    /\ read_file(disk[Original], NULL)
    /\ hist' = Loaded(disk[Original]) @@ hist
    /\ UNCHANGED <<freed, disk, wild, quit, cmds>>

-----------------------------------------------------------------------------
(* The commands.                                                           *)

\* Mutant: contents->end stays at the old last node.
append_short(new) ==
    /\ contents' = [contents EXCEPT !.count = @ + 1, !.changes = @ + 1]
    /\ nodes' = Append([nodes EXCEPT ![contents.end].next = Len(nodes) + 1], new)

\* append(): the node goes after contents->end.
append(new) ==
    /\ contents' = [contents EXCEPT !.end = Len(nodes) + 1, !.count = @ + 1, !.changes = @ + 1]
    /\ nodes' = Append([nodes EXCEPT ![contents.end].next = Len(nodes) + 1], new)

\* @END.
end(text) ==
    /\ Typed
    /\ append([line |-> text, next |-> NULL])
    /\ hist' = [hist EXCEPT !.want = Append(@, text), !.odd = @ \/ hist.tail]
    /\ cmds' = cmds + 1
    /\ UNCHANGED <<freed, disk, wild, quit>>

\* Mutant: the change is not counted.
add_uncounted(text, num) ==
    LET new == Len(nodes) + 1
    IN  /\ Typed /\ Works(Walk(num - 1)) /\ num > 1
        /\ contents' = [contents EXCEPT !.count = @ + 1]
        /\ nodes' = Append([nodes EXCEPT ![Nodes[num - 1]].next = new],
                           [line |-> text, next |-> nodes[Nodes[num - 1]].next])
        /\ hist' = [hist EXCEPT !.want = InsertAt(@, num, text)]
        /\ cmds' = cmds + 1
        /\ UNCHANGED <<freed, disk, wild, quit>>

\* ADD<: after the line before num; a line that has none before it is counted
\* as a change but goes nowhere.  contents->end stays.
add(text, num) ==
    LET new == Len(nodes) + 1
        found == num - 1 \in DOMAIN Nodes
    IN  /\ Typed
        /\ Works(IF found THEN Walk(num - 1) ELSE WalkAll)
        /\ contents' = [contents EXCEPT !.changes = @ + 1, !.count = @ + IF found THEN 1 ELSE 0]
        /\ nodes' = IF ~found THEN nodes
                    ELSE Append([nodes EXCEPT ![Nodes[num - 1]].next = new],
                                [line |-> text, next |-> nodes[Nodes[num - 1]].next])
        /\ hist' = [hist EXCEPT !.want = IF found /\ num <= Len(@) + 1 THEN InsertAt(@, num, text) ELSE @,
                                !.tail = @ \/ num = Len(Nodes) + 1,
                                !.odd = @ \/ num = 1]
        /\ cmds' = cmds + 1
        /\ UNCHANGED <<freed, disk, wild, quit>>

\* EDIT: only a line that is not there is counted as a change.
edit(text, num) ==
    LET found == num \in DOMAIN Nodes
    IN  /\ Typed
        /\ Works(IF found THEN Walk(num) ELSE WalkAll)
        /\ nodes' = IF found THEN [nodes EXCEPT ![Nodes[num]].line = text] ELSE nodes
        /\ contents' = IF found THEN contents ELSE [contents EXCEPT !.changes = @ + 1]
        /\ hist' = [hist EXCEPT !.want = IF num \in DOMAIN @ THEN [@ EXCEPT ![num] = text] ELSE @,
                                !.edited = @ \cup {num}]
        /\ cmds' = cmds + 1
        /\ UNCHANGED <<freed, disk, wild, quit>>

convert_range(r) ==
    IF r.colon THEN [start |-> r.first, end |-> r.last]
    ELSE [start |-> r.first, end |-> r.first]

\* What DROP does, by the kind of range: the nodes it uses and frees, the node
\* whose `next` it sets, the new head and the count.
DropToEnd(s) ==
    LET from == {Nodes[j] : j \in DOMAIN Nodes \cap s..Len(Nodes)}
    IN  [used |-> Walk(s) \cup (WalkAll \ Touched(s)), frees |-> from,
         link |-> Nodes[s - 1], next |-> NULL, head |-> contents.head,
         count |-> contents.count - (Cardinality(from) - 1)]
\* The loop's bound is the count that the loop itself decreases.
DropFromStart(e) ==
    LET half == (contents.count + 1) \div 2
        k == IF e < half THEN e ELSE half
        turns == IF contents.count - k > k /\ k = e THEN contents.count - k ELSE k
    IN  [used |-> Walk(turns), frees |-> Touched(k), link |-> NULL, next |-> NULL,
         head |-> IF k + 1 \in DOMAIN Nodes THEN Nodes[k + 1] ELSE Beyond,
         count |-> contents.count - k]
\* The node before the range is freed too, and stays linked.
DropRange(s, e) ==
    LET i == IF s > 2 THEN s - 2 ELSE 0
    IN  [used |-> Walk(e), frees |-> {Nodes[j] : j \in DOMAIN Nodes \cap (i + 1)..e},
         link |-> Nodes[i + 1],
         next |-> IF e + 1 \in DOMAIN Nodes THEN Nodes[e + 1] ELSE Beyond,
         head |-> contents.head, count |-> contents.count - (e - i)]
DropNothing ==
    [used |-> Walk(contents.count), frees |-> {}, link |-> NULL, next |-> NULL,
     head |-> contents.head, count |-> contents.count]
dropped(r) ==
    LET s == convert_range(r).start
        e == convert_range(r).end
        n == contents.count
    IN  CASE s # 0 /\ e = 0 /\ s - 2 \in 0..(n - 1) /\ s - 1 \in DOMAIN Nodes -> DropToEnd(s)
          [] s = 0 /\ e # 0 -> DropFromStart(e)
          [] s # 0 /\ e # 0 /\ s - 2 < n /\ n > 0 /\ Nodes # <<>> /\ s - 1 <= Len(Nodes) -> DropRange(s, e)
          [] OTHER -> DropNothing

\* The lines that are left when those of the range go.
Without(lines, r) ==
    LET c == convert_range(r)
        last == IF c.end = 0 THEN Len(lines) ELSE c.end
        left == SetToSortSeq({k \in DOMAIN lines : k < c.start \/ k > last}, <)
    IN  [k \in DOMAIN left |-> lines[left[k]]]

\* DROP, confirmed.
drop(r) ==
    LET d == dropped(r)
    IN  /\ Typed
        /\ Works(d.used)
        /\ contents' = [contents EXCEPT !.changes = @ + 1, !.head = d.head, !.count = d.count]
        /\ nodes' = IF d.link = NULL THEN nodes ELSE [nodes EXCEPT ![d.link].next = d.next]
        /\ freed' = freed \cup d.frees
        /\ hist' = [hist EXCEPT !.want = Without(@, r), !.dropped = TRUE,
                                !.tail = @ \/ convert_range(r).end \in {0, Len(Nodes)},
                                !.odd = @ \/ convert_range(r).start < 2 \/ d.frees = {}]
        /\ cmds' = cmds + 1
        /\ UNCHANGED <<disk, wild, quit>>

\* OPEN, confirmed.
new_open(f) ==
    /\ Typed
    /\ disk[f] # Absent
    /\ \E last \in {NULL, Garbage} : read_file(disk[f], last)
    /\ hist' = Loaded(disk[f]) @@ hist
    /\ cmds' = cmds + 1
    /\ UNCHANGED <<freed, disk, wild, quit>>

\* save_file(): the file is not truncated.
save_file(f) ==
    LET text == Joined(Lines)
        old == IF disk[f] = Absent THEN <<>> ELSE disk[f]
    IN  /\ Works(WalkAll)
        /\ disk' = [disk EXCEPT ![f] = text \o SubSeq(old, Len(text) + 1, Len(old))]
        /\ hist' = [hist EXCEPT !.saved[f] = IF hist.odd THEN Lines ELSE hist.want]

\* SAVE, confirmed.
save(f) ==
    /\ Typed
    /\ save_file(f)
    /\ cmds' = cmds + 1
    /\ UNCHANGED <<contents, nodes, freed, wild, quit>>

\* QUIT: with no change counted at once, otherwise saving or not (the user says
\* no, or save_file() cannot open the file).  The end of the input exits too.
quits ==
    /\ Prompt
    /\ quit' = TRUE
    /\ \/ contents.changes # 0 /\ save_file(Original)
       \/ UNCHANGED <<disk, hist>>
    /\ UNCHANGED <<contents, nodes, freed, wild, cmds>>

\* The line numbers that LIST prints.
list(r) ==
    LET c == convert_range(r)
    IN  {i \in DOMAIN Nodes :
            \/ c.end = 0 /\ c.start # 0 /\ i >= c.start
            \/ c.end # 0 /\ c.start = 0 /\ i <= c.start
            \/ c.end = 0 /\ c.start = 0
            \/ i >= c.start /\ i <= c.end}

\* The lines that FIND finds.  k counts the characters matched so far; a
\* character that does not match is not tried again as the first one.
\* Mutant: a character that does not match leaves k as it is.
FindsIn_skipping(line, text) ==
    LET k[j \in 0..Len(line)] ==
            IF j = 0 THEN 0
            ELSE IF k[j - 1] < Len(text) /\ line[j] = text[k[j - 1] + 1] THEN k[j - 1] + 1 ELSE k[j - 1]
    IN  \E j \in 1..Len(line) : k[j] = Len(text)
FindsIn(line, text) ==
    LET k[j \in 0..Len(line)] ==
            IF j = 0 THEN 0
            ELSE IF k[j - 1] < Len(text) /\ line[j] = text[k[j - 1] + 1] THEN k[j - 1] + 1 ELSE 0
    IN  \E j \in 1..Len(line) : k[j] = Len(text)
line_matches(text) == {i \in DOMAIN Lines : FindsIn(Lines[i], text)}

\* The line numbers that FIND prints; a single one it does not print.
find(text) == IF Cardinality(line_matches(text)) > 1 THEN line_matches(text) ELSE {}

\* The commands that run into memory they do not own: nodes that were freed or
\* are none, and what follows the line_matches[] of FIND, which has room for
\* contents->count lines.
goes_wild ==
    /\ Prompt
    /\ \/ MayGoWild({contents.end})
       \/ MayGoWild(WalkAll)
       \/ \E r \in Ranges : MayGoWild(dropped(r).used)
       \/ \E text \in Texts : Cardinality(line_matches(text)) > contents.count
    /\ wild' = TRUE
    /\ UNCHANGED <<contents, nodes, freed, disk, quit, cmds, hist>>

Next ==
    \/ \E text \in Texts :
           \/ end(text)
           \/ \E num \in LineNums : add(text, num) \/ edit(text, num)
    \/ \E r \in Ranges : drop(r)
    \/ \E f \in Name : new_open(f) \/ save(f)
    \/ quits \/ goes_wild

-----------------------------------------------------------------------------
(* Properties.                                                             *)

\* After any commands the list holds the lines that the help texts promise
\* (commands[] of src/xvedit.c) and, if nothing was dropped, as many as count
\* says.  Excepted are what the code is known not to do, ADD< before line 1 and
\* DROP from line 1, and @END after the list got another last line than
\* contents->end.
KeepsText ==
    ~wild /\ ~hist.odd /\ nodes # <<>> =>
        /\ Lines = hist.want
        /\ ~hist.dropped => contents.count = Len(hist.want)

\* Whatever was saved can be read back: the file begins with the lines of the
\* last SAVE, each one a line again (save_file() against read_file()).
SavedIsRead ==
    \A f \in Name :
        hist.saved[f] # <<>> => IsPrefix(hist.saved[f], SplitLines(disk[f]))

\* When QUIT does not ask, the lines are those that were read, but for the
\* lines that were replaced with EDIT, which does not count as a change.
QuitLosesOnlyEdits ==
    ~wild /\ contents.changes = 0 /\ nodes # <<>> =>
        /\ Len(Lines) = Len(hist.loaded)
        /\ \A k \in DOMAIN Lines \ hist.edited : Lines[k] = hist.loaded[k]

\* LIST prints the lines of its range, in every form that a range may have,
\* and FIND only lines that contain the text.
HasText(line, text) == \E i \in 0..(Len(line) - Len(text)) :
    SubSeq(line, i + 1, i + Len(text)) = text
ShowsRange ==
    /\ \A r \in Ranges :
           list(r) = (IF r.first = 0 THEN 1 ELSE r.first)..
                     (IF ~r.colon THEN r.first ELSE IF r.last = 0 THEN Len(Nodes) ELSE r.last)
                     \cap DOMAIN Nodes
    /\ \A text \in Texts : \A i \in find(text) : HasText(Lines[i], text)
=============================================================================
