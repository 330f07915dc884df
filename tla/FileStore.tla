----------------------------- MODULE FileStore -----------------------------
(***************************************************************************)
(* What read(), write() and their offsets promise (src/file.c): a file is  *)
(* a sequence of bytes, an open file has a position in it that everybody   *)
(* who shares the open file moves, and a write puts its bytes there in one *)
(* or more pieces.  No blocks, no inodes, no stale bytes.                  *)
(***************************************************************************)
EXTENDS Naturals, Sequences

CONSTANTS Proc, File, Inum, Texts

VARIABLES
    text,  \* the bytes of each file
    pos,   \* the file and the position of each open file, <<>> if it is closed
    todo,  \* what each write() has still to put in
    got    \* what the last read() returned, until the next call

svars == <<text, pos, todo, got>>

\* t with s in it at offset off.
Overwrite(t, off, s) ==
    SubSeq(t, 1, off) \o s \o SubSeq(t, off + Len(s) + 1, Len(t))

SInit ==
    /\ text = [i \in Inum |-> <<>>]
    /\ pos = [f \in File |-> <<>>]
    /\ todo = [p \in Proc |-> <<>>]
    /\ got = <<>>

Opens(f, i) ==
    /\ pos[f] = <<>> /\ pos' = [pos EXCEPT ![f] = <<i, 0>>]
    /\ got' = <<>>
    /\ UNCHANGED <<text, todo>>

Closes(f) ==
    /\ pos' = [pos EXCEPT ![f] = <<>>]
    /\ got' = <<>>
    /\ UNCHANGED <<text, todo>>

\* Only a file that nobody has open loses its bytes.
Erased(i) ==
    /\ \A f \in File : pos[f] # <<>> => pos[f][1] # i
    /\ text' = [text EXCEPT ![i] = <<>>]
    /\ got' = <<>>
    /\ UNCHANGED <<pos, todo>>

Begin(p) ==
    /\ todo[p] = <<>>
    /\ \E t \in Texts : todo' = [todo EXCEPT ![p] = t]
    /\ got' = <<>>
    /\ UNCHANGED <<text, pos>>

GiveUp(p) == todo' = [todo EXCEPT ![p] = <<>>] /\ UNCHANGED <<text, pos, got>>

Put(p, f) ==
    /\ pos[f] # <<>>
    /\ LET i == pos[f][1]
           off == pos[f][2]
       IN  \E k \in 1..Len(todo[p]) :
               /\ off <= Len(text[i])
               /\ text' = [text EXCEPT ![i] = Overwrite(@, off, SubSeq(todo[p], 1, k))]
               /\ pos' = [pos EXCEPT ![f] = <<i, off + k>>]
               /\ todo' = [todo EXCEPT ![p] = SubSeq(@, k + 1, Len(@))]
    /\ UNCHANGED got

Get(f) ==
    /\ pos[f] # <<>>
    /\ LET i == pos[f][1]
           off == pos[f][2]
       IN  \E k \in 0..(Len(text[i]) - off) :
               /\ got' = SubSeq(text[i], off + 1, off + k)
               /\ pos' = [pos EXCEPT ![f] = <<i, off + k>>]
    /\ UNCHANGED <<text, todo>>

Quiet == got' = <<>> /\ UNCHANGED <<text, pos, todo>>

SNext ==
    \/ \E f \in File, i \in Inum : Opens(f, i)
    \/ \E f \in File : Closes(f) \/ Get(f)
    \/ \E i \in Inum : Erased(i)
    \/ \E p \in Proc : Begin(p) \/ GiveUp(p) \/ \E f \in File : Put(p, f)
    \/ Quiet

SSpec == SInit /\ [][SNext]_svars
=============================================================================
