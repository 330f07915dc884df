------------------------------ MODULE FileData ------------------------------
(***************************************************************************)
(* Open files and the bytes of files: the descriptor tables of processes   *)
(* (src/sysfile.c), the table of open files (src/file.c) and the blocks    *)
(* that hold a file's bytes (src/fs.c: balloc, bfree, bmap, itrunc, readi, *)
(* writei).                                                                *)
(*                                                                         *)
(* A process in writei() holds the inode's lock and allocates one block at *)
(* a time, so calls on different files interleave at every allocation.     *)
(* Module Fs has directories, links and the inode cache; here a file is    *)
(* named or not and an inode is free or not.  Module Log has transactions; *)
(* here `touched` collects the blocks that one write() chunk logs, the     *)
(* number that module Log assumes to be small enough.                      *)
(***************************************************************************)
EXTENDS Integers, Sequences, FiniteSets, FiniteSetsExt

CONSTANTS
    Proc,         \* processes
    Inum,         \* inodes
    NFILE,        \* open files in the system
    NOFILE,       \* descriptors of a process
    SIZE,         \* data blocks of the disk
    BPB,          \* blocks that one block of the bitmap describes
    BSIZE,        \* bytes of a block
    NDIRECT,      \* block numbers in an inode
    NINDIRECT,    \* block numbers in an indirect block
    MAXOPBLOCKS,  \* blocks a transaction may log
    Modes,        \* how files are opened: <<readable, writable>>
    Texts,        \* what processes write()
    Counts,       \* the counts of read()
    MAXCALLS,     \* a bound on the number of open()s and write()s
    NoProc        \* nobody holds the inode's lock

File == 1..NFILE
Fd == 0..(NOFILE - 1)
Block == 1..SIZE
\* Mutant: the remainder instead of the quotient.
BBLOCK_mod(b) == b % BPB
BBLOCK(b) == b \div BPB
MAXFILE == NDIRECT + NINDIRECT
max == ((MAXOPBLOCKS - 1 - 1 - 2) \div 2) * BSIZE

VARIABLES
    ofile,   \* ofile[p][fd], the open file or 0
    ftable,  \* ftable[f]: its references, inode, offset and modes
    used,    \* the bitmap: the blocks that are marked
    data,    \* data[b], the bytes of block b
    a,       \* a[b], the block numbers in block b when it is an indirect block
    inode,   \* the inodes in memory: addrs, size
    dinode,  \* the inodes on disk
    linked,  \* the inodes that have a name
    live,    \* the inodes that are allocated
    lock,    \* who holds the lock of each inode
    call,    \* the system call that each process is in
    touched, \* the blocks each process has logged in this transaction
    got,     \* what the last read() returned, until the next call
    calls,   \* the number of open()s and write()s so far
    panicked

vars == <<ofile, ftable, used, data, a, inode, dinode, linked, live, lock,
          call, touched, got, calls, panicked>>
disk == <<used, data, a, inode, dinode>>

Zeros == [k \in 0..(BSIZE - 1) |-> 0]
NoBlocks == [j \in 0..(NINDIRECT - 1) |-> 0]
Empty == [addrs |-> [k \in 0..NDIRECT |-> 0], size |-> 0]
Closed == [ref |-> 0, ip |-> 0, off |-> 0, readable |-> FALSE, writable |-> FALSE]
User == [pc |-> "user", f |-> 0, todo |-> <<>>, n1 |-> 0, tot |-> 0, old |-> <<>>]

Init ==
    /\ ofile = [p \in Proc |-> [fd \in Fd |-> 0]]
    /\ ftable = [f \in File |-> Closed]
    /\ used = {}
    /\ data = [b \in Block |-> Zeros]
    /\ a = [b \in Block |-> NoBlocks]
    /\ inode = [i \in Inum |-> Empty] /\ dinode = inode
    /\ linked = {} /\ live = {}
    /\ lock = [i \in Inum |-> NoProc]
    /\ call = [p \in Proc |-> User]
    /\ touched = [p \in Proc |-> {}]
    /\ got = <<>>
    /\ calls = 0
    /\ panicked = ""

-----------------------------------------------------------------------------
(* The blocks of a file.                                                   *)

\* The block that holds the bn-th block of the file, 0 if there is none.
Mapped(i, bn) ==
    IF bn < NDIRECT THEN inode[i].addrs[bn]
    ELSE IF inode[i].addrs[NDIRECT] = 0 THEN 0
    ELSE a[inode[i].addrs[NDIRECT]][bn - NDIRECT]

Free == Block \ used

\* The number goes into an indirect block that is not there.
NeedsIndirect(i, bn) == bn >= NDIRECT /\ inode[i].addrs[NDIRECT] = 0

\* balloc(): the lowest free block, marked and zeroed.
balloc == Min(Free)

\* What readi() finds, byte by byte, between offset off and off + n.
Bytes(i, off, n) ==
    [k \in 1..n |-> data[Mapped(i, (off + k - 1) \div BSIZE)][(off + k - 1) % BSIZE]]

Users(i) == {f \in File : ftable[f].ref > 0 /\ ftable[f].ip = i}
Putting(i) == {p \in Proc : call[p].pc = "iput" /\ call[p].f = i}

bfree(blocks) ==
    /\ used' = used \ blocks
    /\ panicked' = IF blocks \subseteq used THEN panicked ELSE "freeing free block"

\* itrunc(), and the inode is free: what iput() does when the last reference
\* to an inode without a name goes.
BlocksOf(i) ==
    {Mapped(i, bn) : bn \in 0..(MAXFILE - 1)} \cup {inode[i].addrs[NDIRECT]}
\* Mutant: the blocks behind the indirect block are not freed.
itrunc_direct(i) ==
    /\ bfree({inode[i].addrs[k] : k \in 0..NDIRECT} \ {0})
    /\ inode' = [inode EXCEPT ![i] = Empty]
    /\ dinode' = [dinode EXCEPT ![i] = Empty]
    /\ live' = live \ {i}
    /\ UNCHANGED <<data, a>>
itrunc(i) ==
    /\ bfree(BlocksOf(i) \ {0})
    /\ inode' = [inode EXCEPT ![i] = Empty]
    /\ dinode' = [dinode EXCEPT ![i] = Empty]
    /\ live' = live \ {i}
    /\ UNCHANGED <<data, a>>

\* A process may start a system call.
Runs(p) == panicked = "" /\ call[p] = User

-----------------------------------------------------------------------------
(* Descriptors and open files.                                             *)

FreeFds(p) == {fd \in Fd : ofile[p][fd] = 0}
FreeFiles == {f \in File : ftable[f].ref = 0}

\* open(): O_CREATE makes the file if there is none, and it stays when
\* filealloc() or fdalloc() then fails.
sys_open(p, i, mode) ==
    /\ Runs(p) /\ lock[i] = NoProc
    /\ i \in linked \/ i \notin live
    /\ calls < MAXCALLS /\ calls' = calls + 1
    /\ linked' = linked \cup {i} /\ live' = live \cup {i}
    /\ IF FreeFiles # {} /\ FreeFds(p) # {}
       THEN /\ ftable' = [ftable EXCEPT ![Min(FreeFiles)] =
                   [ref |-> 1, ip |-> i, off |-> 0, readable |-> mode[1], writable |-> mode[2]]]
            /\ ofile' = [ofile EXCEPT ![p][Min(FreeFds(p))] = Min(FreeFiles)]
       ELSE UNCHANGED <<ftable, ofile>>
    /\ got' = <<>>
    /\ UNCHANGED <<disk, lock, call, touched, panicked>>

\* unlink(): the last name of the file goes, and the file with it unless it
\* is open.
sys_unlink(p, i) ==
    /\ Runs(p) /\ lock[i] = NoProc
    /\ i \in linked
    /\ linked' = linked \ {i}
    /\ IF Users(i) \cup Putting(i) = {} THEN itrunc(i)
       ELSE UNCHANGED <<disk, live, panicked>>
    /\ got' = <<>>
    /\ UNCHANGED <<calls, ofile, ftable, lock, call, touched>>

\* Mutant: dup() without filedup().
sys_dup_uncounted(p, fd) ==
    /\ Runs(p)
    /\ ofile[p][fd] # 0 /\ FreeFds(p) # {}
    /\ ofile' = [ofile EXCEPT ![p][Min(FreeFds(p))] = ofile[p][fd]]
    /\ got' = <<>>
    /\ UNCHANGED <<ftable, calls, disk, linked, live, lock, call, touched, panicked>>

sys_dup(p, fd) ==
    /\ Runs(p)
    /\ ofile[p][fd] # 0 /\ FreeFds(p) # {}
    /\ ofile' = [ofile EXCEPT ![p][Min(FreeFds(p))] = ofile[p][fd]]
    /\ ftable' = [ftable EXCEPT ![ofile[p][fd]].ref = @ + 1]
    /\ panicked' = IF ftable[ofile[p][fd]].ref < 1 THEN "filedup" ELSE panicked
    /\ got' = <<>>
    /\ UNCHANGED <<calls, disk, linked, live, lock, call, touched>>

\* fork(): the child q shares every open file of p.
fork(p, q) ==
    /\ Runs(p) /\ p # q
    /\ call[q] = User /\ \A fd \in Fd : ofile[q][fd] = 0
    /\ \E fd \in Fd : ofile[p][fd] # 0
    /\ ofile' = [ofile EXCEPT ![q] = ofile[p]]
    /\ ftable' = [f \in File |-> [ftable[f] EXCEPT
                      !.ref = @ + Cardinality({fd \in Fd : ofile[p][fd] = f})]]
    /\ got' = <<>>
    /\ UNCHANGED <<calls, disk, linked, live, lock, call, touched, panicked>>

\* close(): the descriptor and the open file go; the inode is put later, when
\* the slot of the open file may be in use again.
sys_close(p, fd) ==
    LET f == ofile[p][fd]
    IN  /\ Runs(p) /\ f # 0
        /\ ofile' = [ofile EXCEPT ![p][fd] = 0]
        /\ panicked' = IF ftable[f].ref < 1 THEN "fileclose" ELSE panicked
        /\ IF ftable[f].ref > 1
           THEN /\ ftable' = [ftable EXCEPT ![f].ref = @ - 1]
                /\ UNCHANGED call
           ELSE /\ ftable' = [ftable EXCEPT ![f] = Closed]
                /\ call' = [call EXCEPT ![p].pc = "iput", ![p].f = ftable[f].ip]
        /\ got' = <<>>
        /\ UNCHANGED <<calls, disk, linked, live, lock, touched>>

iput(p) ==
    LET i == call[p].f
    IN  /\ panicked = "" /\ call[p].pc = "iput"
        /\ lock[i] = NoProc
        /\ IF i \notin linked /\ Users(i) = {} /\ Putting(i) = {p}
           THEN itrunc(i)
           ELSE UNCHANGED <<disk, live, panicked>>
        /\ call' = [call EXCEPT ![p] = User]
        /\ got' = <<>>
        /\ UNCHANGED <<calls, ofile, ftable, linked, lock, touched>>

-----------------------------------------------------------------------------
(* read() and write().                                                     *)

\* readi() would allocate a block that is not there, outside a transaction.
fileread(p, fd, n) ==
    LET f == ofile[p][fd]
        i == ftable[f].ip
        off == ftable[f].off
        r == IF off > inode[i].size THEN -1
             ELSE IF off + n > inode[i].size THEN inode[i].size - off ELSE n
    IN  /\ Runs(p) /\ f # 0
        /\ ftable[f].readable /\ lock[i] = NoProc
        /\ IF \E k \in off..(off + r - 1) : Mapped(i, k \div BSIZE) = 0
           THEN panicked' = "log_write outside of trans" /\ got' = <<>>
           ELSE got' = Bytes(i, off, r) /\ UNCHANGED panicked
        /\ ftable' = [ftable EXCEPT ![f].off = IF r > 0 THEN @ + r ELSE @]
        /\ UNCHANGED <<calls, ofile, disk, linked, live, lock, call, touched>>

sys_write(p, fd, t) ==
    LET f == ofile[p][fd]
    IN  /\ Runs(p) /\ f # 0
        /\ ftable[f].writable
        /\ calls < MAXCALLS /\ calls' = calls + 1
        /\ call' = [call EXCEPT ![p].pc = "filewrite", ![p].f = f, ![p].todo = t]
        /\ got' = <<>>
        /\ UNCHANGED <<ofile, ftable, disk, linked, live, lock, touched, panicked>>

\* Mutant: filewrite() without ilock().
filewrite_unlocked(p) ==
    LET c == call[p]
        i == ftable[c.f].ip
        off == ftable[c.f].off
        n1 == IF Len(c.todo) > max THEN max ELSE Len(c.todo)
    IN  /\ panicked = "" /\ c.pc = "filewrite"
        /\ IF off > inode[i].size \/ off + n1 > MAXFILE * BSIZE
           THEN call' = [call EXCEPT ![p] = User] /\ UNCHANGED lock
           ELSE /\ call' = [call EXCEPT ![p].pc = "writei", ![p].n1 = n1, ![p].tot = 0,
                                        ![p].old = Bytes(i, 0, inode[i].size)]
                /\ lock' = [lock EXCEPT ![i] = p]
        /\ UNCHANGED <<calls, ofile, ftable, disk, linked, live, touched, got, panicked>>

\* A turn of filewrite()'s loop: begin_op(), ilock(), and writei() either
\* refuses or starts.
filewrite(p) ==
    LET c == call[p]
        i == ftable[c.f].ip
        off == ftable[c.f].off
        n1 == IF Len(c.todo) > max THEN max ELSE Len(c.todo)
    IN  /\ panicked = "" /\ c.pc = "filewrite"
        /\ lock[i] = NoProc
        /\ IF off > inode[i].size \/ off + n1 > MAXFILE * BSIZE
           THEN call' = [call EXCEPT ![p] = User] /\ UNCHANGED lock
           ELSE /\ call' = [call EXCEPT ![p].pc = "writei", ![p].n1 = n1, ![p].tot = 0,
                                        ![p].old = Bytes(i, 0, inode[i].size)]
                /\ lock' = [lock EXCEPT ![i] = p]
        /\ UNCHANGED <<calls, ofile, ftable, disk, linked, live, touched, got, panicked>>

\* writei() has bytes left to write, the next ones into block bn of file i.
Writing(p, i, bn) ==
    LET c == call[p]
    IN  /\ panicked = "" /\ c.pc = "writei" /\ c.tot < c.n1
        /\ i = ftable[c.f].ip
        /\ bn = (ftable[c.f].off + c.tot) \div BSIZE

\* bmap() adds the indirect block first.
bmap_indirect(p, i, bn) ==
    /\ Writing(p, i, bn) /\ NeedsIndirect(i, bn)
    /\ Free # {}
    /\ used' = used \cup {balloc}
    /\ data' = [data EXCEPT ![balloc] = Zeros]
    /\ a' = [a EXCEPT ![balloc] = NoBlocks]
    /\ inode' = [inode EXCEPT ![i].addrs[NDIRECT] = balloc]
    /\ touched' = [touched EXCEPT ![p] = @ \cup {<<"data", balloc>>, <<"bitmap", BBLOCK(balloc)>>}]
    /\ UNCHANGED <<calls, ofile, ftable, dinode, linked, live, lock, call, got, panicked>>

\* A turn of writei()'s loop: the rest of bmap(), which adds the block if it is
\* not there, and the bytes that go into it.
writei(p, i, bn) ==
    LET c == call[p]
        at == (ftable[c.f].off + c.tot) % BSIZE
        m == Min({c.n1 - c.tot, BSIZE - at})
        fresh == Mapped(i, bn) = 0
        b == IF fresh THEN balloc ELSE Mapped(i, bn)
        ind == inode[i].addrs[NDIRECT]
        zeroed == IF fresh THEN [a EXCEPT ![b] = NoBlocks] ELSE a
    IN  /\ Writing(p, i, bn) /\ ~NeedsIndirect(i, bn)
        /\ fresh => Free # {}
        /\ used' = used \cup {b}
        /\ data' = [data EXCEPT ![b] = [k \in 0..(BSIZE - 1) |->
                        IF k \in at..(at + m - 1) THEN c.todo[c.tot + k - at + 1]
                        ELSE IF fresh THEN 0 ELSE @[k]]]
        /\ a' = IF bn < NDIRECT THEN zeroed ELSE [zeroed EXCEPT ![ind][bn - NDIRECT] = b]
        /\ inode' = IF bn < NDIRECT THEN [inode EXCEPT ![i].addrs[bn] = b] ELSE inode
        /\ call' = [call EXCEPT ![p].tot = @ + m]
        /\ touched' = [touched EXCEPT ![p] = @ \cup {<<"data", b>>}
                          \cup (IF fresh THEN {<<"bitmap", BBLOCK(b)>>} ELSE {})
                          \cup (IF fresh /\ bn >= NDIRECT THEN {<<"data", ind>>} ELSE {})]
        /\ UNCHANGED <<calls, ofile, ftable, dinode, linked, live, lock, got, panicked>>

\* The disk is full.
balloc_panics(p, i, bn) ==
    /\ Writing(p, i, bn)
    /\ NeedsIndirect(i, bn) \/ Mapped(i, bn) = 0
    /\ Free = {}
    /\ panicked' = "balloc: out of blocks"
    /\ UNCHANGED <<calls, ofile, ftable, disk, linked, live, lock, call, touched, got>>

\* The end of writei(): the size, and the inode to disk, only if it grew; then
\* the offset, iunlock(), end_op() and the next turn of filewrite()'s loop.
writei_ends(p) ==
    LET c == call[p]
        i == ftable[c.f].ip
        off == ftable[c.f].off + c.n1
        rest == SubSeq(c.todo, c.n1 + 1, Len(c.todo))
        grown == [inode[i] EXCEPT !.size = off]
    IN  /\ panicked = "" /\ c.pc = "writei" /\ c.tot = c.n1
        /\ IF off > inode[i].size
           THEN /\ inode' = [inode EXCEPT ![i] = grown]
                /\ dinode' = [dinode EXCEPT ![i] = grown]
           ELSE UNCHANGED <<inode, dinode>>
        /\ ftable' = [ftable EXCEPT ![c.f].off = off]
        /\ lock' = [lock EXCEPT ![i] = NoProc]
        /\ call' = [call EXCEPT ![p] = IF rest = <<>> THEN User
                                       ELSE [User EXCEPT !.pc = "filewrite", !.f = c.f, !.todo = rest]]
        /\ touched' = [touched EXCEPT ![p] = {}]
        /\ UNCHANGED <<calls, ofile, used, data, a, linked, live, got, panicked>>

Next ==
    \E p \in Proc :
        \/ \E i \in Inum, mode \in Modes : sys_open(p, i, mode)
        \/ \E i \in Inum : sys_unlink(p, i)
        \/ \E fd \in Fd : sys_dup(p, fd) \/ sys_close(p, fd)
        \/ \E q \in Proc : fork(p, q)
        \/ iput(p)
        \/ \E fd \in Fd, n \in Counts : fileread(p, fd, n)
        \/ \E fd \in Fd, t \in Texts : sys_write(p, fd, t)
        \/ filewrite(p) \/ writei_ends(p)
        \/ \E i \in Inum, bn \in 0..(MAXFILE - 1) :
               bmap_indirect(p, i, bn) \/ writei(p, i, bn) \/ balloc_panics(p, i, bn)

Spec == Init /\ [][Next]_vars

-----------------------------------------------------------------------------
(* Properties.                                                             *)

\* The entry k of the map of file i: a block, or the indirect block.
Entry(i, k) == IF k = MAXFILE THEN inode[i].addrs[NDIRECT] ELSE Mapped(i, k)
Entries == Inum \X (0..MAXFILE)

\* However the allocations, truncations and failures of several files
\* interleave, the bitmap marks exactly the blocks some file uses, and no
\* block is in two files or twice in one; so no block is freed twice and no
\* read has to allocate (balloc, bfree, bmap and itrunc of src/fs.c).  bmap()
\* puts a block into the inode in memory, and writei() saves the inode only
\* when the size grew: still, whenever the inode is unlocked, its copy on disk
\* is the one in memory, and the blocks it has are those below its size.
BlocksExact ==
    /\ panicked \in {"", "balloc: out of blocks"}
    /\ used = {Entry(e[1], e[2]) : e \in Entries} \ {0}
    /\ \A e, d \in Entries :
           Entry(e[1], e[2]) = Entry(d[1], d[2]) /\ Entry(e[1], e[2]) # 0 => e = d
    /\ \A i \in Inum : lock[i] = NoProc =>
           /\ dinode[i] = inode[i]
           /\ \A bn \in 0..(MAXFILE - 1) : Mapped(i, bn) # 0 <=> bn * BSIZE < inode[i].size

\* A chunk of filewrite() logs fewer blocks than it reserved with begin_op(),
\* the inode's block included: what module Log assumes of every operation.
WithinReservation == \A p \in Proc : Cardinality(touched[p]) + 1 < MAXOPBLOCKS

\* References of open files are the descriptors that name them, an open file
\* has an inode that is not freed, and its offset is inside the file.
FilesCounted ==
    \A f \in File :
        /\ ftable[f].ref = Cardinality({d \in Proc \X Fd : ofile[d[1]][d[2]] = f})
        /\ ftable[f].ref > 0 =>
               ftable[f].ip \in live /\ ftable[f].off <= inode[ftable[f].ip].size

\* read() and write() of src/file.c on blocks, with offsets shared between
\* processes, do what they do on sequences of bytes.  While writei() runs, the
\* file is what it was when the chunk began.
Store == INSTANCE FileStore WITH
    text <- [i \in Inum |-> IF lock[i] # NoProc THEN call[lock[i]].old
                            ELSE Bytes(i, 0, inode[i].size)],
    pos <- [f \in File |-> IF ftable[f].ref = 0 THEN <<>>
                           ELSE <<ftable[f].ip, ftable[f].off>>],
    todo <- [p \in Proc |-> call[p].todo]
IsFileStore == Store!SSpec
=============================================================================
