---------------------------------- MODULE Fs ----------------------------------
(***************************************************************************)
(* Inodes, directories and path names (src/fs.c) under the system calls    *)
(* that use them (src/sysfile.c), made by several processes at once.       *)
(*                                                                         *)
(* A step runs from one point where a process may have to wait for an      *)
(* inode's sleep-lock, or where other processes can see icache.inode[].ref *)
(* change, to the next.  The inode cache is indexed by inode number: with  *)
(* iget() under icache.lock an inode has one entry.  The blocks of a file  *)
(* are left to FileData, the atomicity of a call against a crash to Log;   *)
(* a directory is a function from names to inode numbers, 0 where it has   *)
(* no such entry.                                                          *)
(***************************************************************************)
EXTENDS Integers, FiniteSets, Sequences

CONSTANTS
    Proc, NoProc,  \* the processes, and no process
    Name,       \* names other than "." and ".."
    Calls,      \* the system calls that each process makes, with their arguments
    NINODES,    \* sb.ninodes: inodes 1 .. NINODES-1 are on the disk
    NINODE,     \* entries of the inode cache
    MAXLINK     \* bound: an inode with so many links is not linked again

ASSUME FsAssumption ==
    /\ NoProc \notin Proc
    /\ NINODES \in Nat /\ NINODES >= 2
    /\ {NINODE, MAXLINK} \subseteq Nat \ {0}
    /\ Name \cap {".", ".."} = {}

VARIABLES
    dinode,     \* the inodes on the disk, with what the directories contain
    icache,     \* icache.inode[], indexed by inode number
    lock,       \* the holder of each inode's sleep-lock, or NoProc
    cwd,        \* the current directory of each process
    ofile,      \* the inode of its open file, or 0: a process has one descriptor
    call,       \* what each process is doing
    panicked    \* the message of panic(), or "": a panic is the last step

vars == <<dinode, icache, lock, cwd, ofile, call, panicked>>

Inum == 1..(NINODES - 1)
ROOTINO == 1
DirName == Name \cup {".", ".."}
Type == {"T_NONE", "T_DIR", "T_FILE", "T_DEV"}

Empty == [n \in DirName |-> 0]
FreeInode == [type |-> "T_NONE", nlink |-> 0, entry |-> Empty]
NotCached == [ref |-> 0, valid |-> FALSE, type |-> "T_NONE", nlink |-> 0]

\* The locals of a system call: sys is the call, path and parent the arguments
\* of namex(), name the element it stops at, at its ip and its result, after
\* the place it returns to.  put is the argument of an iput() in progress,
\* which continues at then.  Every inode in at, ip, dp and put is a reference.
Idle == [pc |-> "out", sys |-> [op |-> "none"], path |-> <<>>, parent |-> FALSE,
         name |-> ".", at |-> 0, ip |-> 0, dp |-> 0, put |-> 0,
         after |-> "out", then |-> "out"]

Init ==
    /\ dinode = [i \in Inum |-> IF i # ROOTINO THEN FreeInode ELSE
                    [type |-> "T_DIR", nlink |-> 1,
                     entry |-> [Empty EXCEPT !["."] = ROOTINO, ![".."] = ROOTINO]]]
    /\ icache = [i \in Inum |-> IF i # ROOTINO THEN NotCached ELSE
                    [NotCached EXCEPT !.ref = Cardinality(Proc)]]
    /\ lock = [i \in Inum |-> NoProc]
    /\ cwd = [p \in Proc |-> ROOTINO]
    /\ ofile = [p \in Proc |-> 0]
    /\ call = [p \in Proc |-> Idle]
    /\ panicked = ""

-----------------------------------------------------------------------------
(* The inode cache. *)

\* The cache after iget(i).
iget(ic, i) == [ic EXCEPT ![i].ref = @ + 1]

\* iget() finds neither an entry for i nor an empty one.
CacheFull(i) ==
    icache[i].ref = 0 /\ Cardinality({j \in Inum : icache[j].ref > 0}) = NINODE

\* The cache after ilock(i) has read an inode that was not valid.
Loaded(i) ==
    IF icache[i].valid THEN icache
    ELSE [icache EXCEPT ![i].valid = TRUE, ![i].type = dinode[i].type,
                        ![i].nlink = dinode[i].nlink]

\* The caller changes nlink of i in the cache ic and calls iupdate().
SetLinks(ic, di, i, n) ==
    /\ icache' = [ic EXCEPT ![i].nlink = n]
    /\ dinode' = [di EXCEPT ![i].nlink = n]

\* The inode whose lock the next step of p takes in ilock().
Wanted(c) ==
    CASE c.pc = "walk" /\ c.path # <<>> -> c.at
      [] c.pc \in {"open", "create", "link", "link_dp", "unlink", "chdir"} -> c.at
      [] c.pc \in {"create_found", "unlink_ip", "link_bad"} -> c.ip
      [] OTHER -> 0

\* p is at pc and ilock(i) returns.
Locks(p, pc, i) ==
    /\ panicked = ""
    /\ call[p].pc = pc
    /\ i # 0
    /\ lock[i] = NoProc
    /\ Loaded(i)[i].type # "T_NONE"

\* ilock() of an inode that is free on the disk.
ilock_panic(p) ==
    LET i == Wanted(call[p]) IN
    /\ panicked = ""
    /\ i # 0
    /\ lock[i] = NoProc
    /\ Loaded(i)[i].type = "T_NONE"
    /\ panicked' = "ilock: no type"
    /\ UNCHANGED <<dinode, icache, lock, cwd, ofile, call>>

\* Mutants: the links are not looked at; other references are not looked at.
LastReference_linked(i) == icache[i].valid /\ icache[i].ref = 1
LastReference_shared(i) == icache[i].valid /\ icache[i].nlink = 0

\* The tests of iput(): the last reference to an inode without links.
LastReference(i) == icache[i].valid /\ icache[i].nlink = 0 /\ icache[i].ref = 1

\* iput() up to its releasesleep(): itrunc() and iupdate() free the inode.
iput(p) ==
    LET i == call[p].put IN
    /\ panicked = "" /\ call[p].pc = "iput"
    /\ lock[i] = NoProc
    /\ IF LastReference(i)
       THEN /\ dinode' = [dinode EXCEPT ![i] = FreeInode]
            /\ icache' = [icache EXCEPT ![i].valid = FALSE, ![i].type = "T_NONE"]
       ELSE UNCHANGED <<dinode, icache>>
    /\ call' = [call EXCEPT ![p].pc = "unref"]
    /\ UNCHANGED <<lock, cwd, ofile, panicked>>

\* What a call becomes when it calls iput(i) and goes on at pc.
Put(c, i, pc) == [c EXCEPT !.pc = "iput", !.put = i, !.then = pc]

\* The rest of iput(): an entry without references is not valid any more.
iput_unref(p) ==
    LET i == call[p].put
        c == call[p]
    IN
    /\ panicked = "" /\ c.pc = "unref"
    /\ icache' = [icache EXCEPT ![i] =
                    IF @.ref = 1 THEN NotCached ELSE [@ EXCEPT !.ref = @ - 1]]
    /\ call' = [call EXCEPT ![p] =
                    CASE c.then = "out" -> Idle
                      [] c.then = "put_ip" -> Put([c EXCEPT !.ip = 0], c.ip, "out")
                      [] OTHER -> [c EXCEPT !.pc = c.then, !.put = 0, !.then = "out"]]
    /\ UNCHANGED <<dinode, lock, cwd, ofile, panicked>>

-----------------------------------------------------------------------------
(* Path names. *)

Start(p, path) == IF path.abs THEN ROOTINO ELSE cwd[p]

\* namex() returns 0 after putting ip; for sys_link() that is its goto bad.
NotFound(c) ==
    Put([c EXCEPT !.at = 0, !.path = <<>>], c.at,
        IF c.after = "link_dp" THEN "link_bad" ELSE "out")

\* One turn of the loop of namex(), with the inode locked throughout.
walk(p) ==
    LET c == call[p]
        name == Head(c.path)
        next == dinode[c.at].entry[name]
        isdir == Loaded(c.at)[c.at].type = "T_DIR"
        stop == c.parent /\ Len(c.path) = 1
    IN
    /\ c.pc = "walk" /\ c.path # <<>>
    /\ Locks(p, "walk", c.at)
    /\ \/ /\ ~isdir \/ (~stop /\ next = 0)
          /\ icache' = Loaded(c.at)
          /\ call' = [call EXCEPT ![p] = NotFound(c)]
          /\ UNCHANGED panicked
       \/ /\ isdir /\ stop
          /\ icache' = Loaded(c.at)
          /\ call' = [call EXCEPT ![p].pc = c.after, ![p].name = name, ![p].path = <<>>]
          /\ UNCHANGED panicked
       \/ /\ isdir /\ ~stop /\ next # 0
          /\ icache' = iget(Loaded(c.at), next)
          /\ call' = [call EXCEPT ![p] =
                        Put([c EXCEPT !.at = next, !.path = Tail(c.path)], c.at, "walk")]
          /\ panicked' = IF CacheFull(next) THEN "iget: no inodes" ELSE ""
    /\ UNCHANGED <<dinode, lock, cwd, ofile>>

\* The end of namex(), when the path has no element left.
walk_end(p) ==
    LET c == call[p] IN
    /\ panicked = "" /\ c.pc = "walk" /\ c.path = <<>>
    /\ call' = [call EXCEPT ![p] = IF c.parent THEN NotFound(c)
                                   ELSE [c EXCEPT !.pc = c.after]]
    /\ UNCHANGED <<dinode, icache, lock, cwd, ofile, panicked>>

-----------------------------------------------------------------------------
(* System calls. *)

Creates(s) == s.op \in {"mkdir", "mknod"} \/ (s.op = "open" /\ s.mode = "O_CREATE")

\* A call by path: begin_op() and the entry of namex().
syscall(p) ==
    /\ panicked = "" /\ call[p].pc = "out"
    /\ \E s \in Calls[p] :
          LET i == Start(p, s.path) IN
          /\ s.op # "close"
          /\ icache' = iget(icache, i)
          /\ call' = [call EXCEPT ![p] =
                [Idle EXCEPT !.pc = "walk", !.sys = s, !.path = s.path.names,
                             !.parent = Creates(s) \/ s.op = "unlink", !.at = i,
                             !.after = IF Creates(s) THEN "create" ELSE s.op]]
          /\ panicked' = IF CacheFull(i) THEN "iget: no inodes" ELSE ""
    /\ UNCHANGED <<dinode, lock, cwd, ofile>>

\* sys_close(), with fileclose() of the last reference to the file.
sys_close(p) ==
    /\ panicked = "" /\ call[p].pc = "out" /\ ofile[p] # 0
    /\ \E s \in Calls[p] : /\ s.op = "close"
                        /\ call' = [call EXCEPT ![p] = Put([Idle EXCEPT !.sys = s], ofile[p], "out")]
    /\ ofile' = [ofile EXCEPT ![p] = 0]
    /\ UNCHANGED <<dinode, icache, lock, cwd, panicked>>

\* p locks the inode that namex() found, unlocks it, and puts it or keeps it.
Fails(p, i) == Put([call[p] EXCEPT !.at = 0, !.ip = 0], i, "out")

\* sys_open() of an existing file, and the descriptor it needs.
sys_open(p) ==
    LET i == call[p].at
        bad == \/ Loaded(i)[i].type = "T_DIR" /\ call[p].sys.mode # "O_RDONLY"
               \/ ofile[p] # 0
    IN
    /\ Locks(p, "open", i)
    /\ icache' = Loaded(i)
    /\ ofile' = IF bad THEN ofile ELSE [ofile EXCEPT ![p] = i]
    /\ call' = [call EXCEPT ![p] = IF bad THEN Fails(p, i) ELSE Idle]
    /\ UNCHANGED <<dinode, lock, cwd, panicked>>

\* Mutant: the old directory is not put.
sys_chdir_leaks(p) ==
    LET i == call[p].at
        isdir == Loaded(i)[i].type = "T_DIR"
    IN
    /\ Locks(p, "chdir", i)
    /\ icache' = Loaded(i)
    /\ cwd' = IF isdir THEN [cwd EXCEPT ![p] = i] ELSE cwd
    /\ call' = [call EXCEPT ![p] = IF isdir THEN Idle ELSE Fails(p, i)]
    /\ UNCHANGED <<dinode, lock, ofile, panicked>>

\* sys_chdir() up to its iput() of the old directory; only p reads its cwd.
sys_chdir(p) ==
    LET i == call[p].at
        isdir == Loaded(i)[i].type = "T_DIR"
    IN
    /\ Locks(p, "chdir", i)
    /\ icache' = Loaded(i)
    /\ cwd' = IF isdir THEN [cwd EXCEPT ![p] = i] ELSE cwd
    /\ call' = [call EXCEPT ![p] = Fails(p, IF isdir THEN cwd[p] ELSE i)]
    /\ UNCHANGED <<dinode, lock, ofile, panicked>>

CreateType(s) == CASE s.op = "mkdir" -> "T_DIR" [] s.op = "mknod" -> "T_DEV"
                   [] OTHER -> "T_FILE"

FreeInums == {i \in Inum : dinode[i].type = "T_NONE"}
Dots(i, parent) == [Empty EXCEPT !["."] = i, ![".."] = parent]

\* dp->nlink++ for the ".." of a new directory.
DotDotLinks(type) == IF type = "T_DIR" THEN 1 ELSE 0

\* create() when the directory has the name: it goes on to lock what it found.
create_exists(p) ==
    LET c == call[p]
        dp == c.at
        ip == dinode[dp].entry[c.name]
    IN
    /\ Locks(p, "create", dp)
    /\ ip # 0
    /\ icache' = iget(Loaded(dp), ip)
    /\ panicked' = IF CacheFull(ip) THEN "iget: no inodes" ELSE ""
    /\ call' = [call EXCEPT ![p] = Put([c EXCEPT !.at = 0, !.ip = ip], dp, "create_found")]
    /\ UNCHANGED <<dinode, lock, cwd, ofile>>

\* create() of a file over an existing one returns it, locked.
create_found(p) ==
    LET ip == call[p].ip
        same == CreateType(call[p].sys) = "T_FILE" /\ Loaded(ip)[ip].type = "T_FILE"
    IN
    /\ Locks(p, "create_found", ip)
    /\ icache' = Loaded(ip)
    /\ lock' = IF same THEN [lock EXCEPT ![ip] = p] ELSE lock
    /\ call' = [call EXCEPT ![p] = IF same THEN [@ EXCEPT !.pc = "created"]
                                   ELSE Fails(p, ip)]
    /\ UNCHANGED <<dinode, cwd, ofile, panicked>>

\* create() of a new inode, from ilock(dp) to iunlock(dp): ialloc(), the new
\* inode locked, its "." and ".." when it is a directory, its entry in dp.
create_new(p) ==
    LET c == call[p]
        dp == c.at
        type == CreateType(c.sys)
        ip == CHOOSE i \in FreeInums : \A j \in FreeInums : i <= j
        links == Loaded(dp)[dp].nlink + DotDotLinks(type)
    IN
    /\ Locks(p, "create", dp)
    /\ dinode[dp].entry[c.name] = 0
    /\ FreeInums # {}
    /\ lock[ip] = NoProc
    /\ icache' = [iget(Loaded(dp), ip) EXCEPT
                    ![ip].valid = TRUE, ![ip].type = type, ![ip].nlink = 1,
                    ![dp].nlink = links]
    /\ dinode' = [dinode EXCEPT
                    ![ip] = [type |-> type, nlink |-> 1,
                             entry |-> IF type = "T_DIR" THEN Dots(ip, dp) ELSE Empty],
                    ![dp].entry[c.name] = ip,
                    ![dp].nlink = links]
    /\ lock' = [lock EXCEPT ![ip] = p]
    /\ call' = [call EXCEPT ![p] = Put([c EXCEPT !.at = 0, !.ip = ip], dp, "created")]
    /\ panicked' = IF CacheFull(ip) THEN "iget: no inodes" ELSE ""
    /\ UNCHANGED <<cwd, ofile>>

ialloc_panic(p) ==
    LET dp == call[p].at IN
    /\ Locks(p, "create", dp)
    /\ dinode[dp].entry[call[p].name] = 0
    /\ FreeInums = {}
    /\ panicked' = "ialloc: no inodes"
    /\ UNCHANGED <<dinode, icache, lock, cwd, ofile, call>>

\* create() has returned: sys_open() keeps the inode if it gets a descriptor,
\* sys_mkdir() and sys_mknod() put it.
created(p) ==
    LET ip == call[p].ip
        opened == call[p].sys.op = "open" /\ ofile[p] = 0
    IN
    /\ panicked = "" /\ call[p].pc = "created"
    /\ lock' = [lock EXCEPT ![ip] = NoProc]
    /\ ofile' = IF opened THEN [ofile EXCEPT ![p] = ip] ELSE ofile
    /\ call' = [call EXCEPT ![p] = IF opened THEN Idle ELSE Fails(p, ip)]
    /\ UNCHANGED <<dinode, icache, cwd, panicked>>

\* sys_link() counts the link before it looks for the directory.
sys_link(p) ==
    LET c == call[p]
        ip == c.at
        i == Start(p, c.sys.new)
    IN
    /\ Locks(p, "link", ip)
    /\ Loaded(ip)[ip].type # "T_DIR" /\ Loaded(ip)[ip].nlink < MAXLINK
    /\ SetLinks(iget(Loaded(ip), i), dinode, ip, Loaded(ip)[ip].nlink + 1)
    /\ call' = [call EXCEPT ![p] = [c EXCEPT
                    !.pc = "walk", !.ip = ip, !.at = i, !.path = c.sys.new.names,
                    !.parent = TRUE, !.after = "link_dp"]]
    /\ panicked' = IF CacheFull(i) THEN "iget: no inodes" ELSE ""
    /\ UNCHANGED <<lock, cwd, ofile>>

link_isdir(p) ==
    LET ip == call[p].at IN
    /\ Locks(p, "link", ip)
    /\ Loaded(ip)[ip].type = "T_DIR"
    /\ icache' = Loaded(ip)
    /\ call' = [call EXCEPT ![p] = Fails(p, ip)]
    /\ UNCHANGED <<dinode, lock, cwd, ofile, panicked>>

\* dirlink() writes the entry; both inodes are put.
link_entry(p) ==
    LET c == call[p]
        dp == c.at
    IN
    /\ Locks(p, "link_dp", dp)
    /\ dinode[dp].entry[c.name] = 0
    /\ icache' = Loaded(dp)
    /\ dinode' = [dinode EXCEPT ![dp].entry[c.name] = c.ip]
    /\ call' = [call EXCEPT ![p] = Put([c EXCEPT !.at = 0], dp, "put_ip")]
    /\ UNCHANGED <<lock, cwd, ofile, panicked>>

\* dirlink() finds the name in use and puts what it names, with dp locked.
link_exists(p) ==
    LET c == call[p]
        dp == c.at
        ip == dinode[dp].entry[c.name]
    IN
    /\ Locks(p, "link_dp", dp)
    /\ ip # 0
    /\ icache' = iget(Loaded(dp), ip)
    /\ panicked' = IF CacheFull(ip) THEN "iget: no inodes" ELSE ""
    /\ lock' = [lock EXCEPT ![dp] = p]
    /\ call' = [call EXCEPT ![p] = Put([c EXCEPT !.at = 0, !.dp = dp], ip, "unlock_dp")]
    /\ UNCHANGED <<dinode, cwd, ofile>>

\* iunlockput(dp) on the way to the label bad.
unlock_dp(p) ==
    LET c == call[p] IN
    /\ panicked = "" /\ c.pc = "unlock_dp"
    /\ lock' = [lock EXCEPT ![c.dp] = NoProc]
    /\ call' = [call EXCEPT ![p] = Put([c EXCEPT !.dp = 0], c.dp,
                    IF c.sys.op = "link" THEN "link_bad" ELSE "out")]
    /\ UNCHANGED <<dinode, icache, cwd, ofile, panicked>>

\* The label bad of sys_link(): the link is taken back.
link_bad(p) ==
    LET ip == call[p].ip IN
    /\ Locks(p, "link_bad", ip)
    /\ SetLinks(Loaded(ip), dinode, ip, Loaded(ip)[ip].nlink - 1)
    /\ call' = [call EXCEPT ![p] = Fails(p, ip)]
    /\ UNCHANGED <<lock, cwd, ofile, panicked>>

\* sys_unlink() with its directory locked, up to ilock() of what it removes.
sys_unlink(p) ==
    LET c == call[p]
        dp == c.at
        ip == dinode[dp].entry[c.name]
        bad == c.name \in {".", ".."} \/ ip = 0
    IN
    /\ Locks(p, "unlink", dp)
    /\ IF bad
       THEN /\ icache' = Loaded(dp)
            /\ call' = [call EXCEPT ![p] = Fails(p, dp)]
            /\ UNCHANGED <<lock, panicked>>
       ELSE /\ icache' = iget(Loaded(dp), ip)
            /\ lock' = [lock EXCEPT ![dp] = p]
            /\ call' = [call EXCEPT ![p] = [c EXCEPT !.pc = "unlink_ip", !.at = 0,
                                                    !.dp = dp, !.ip = ip]]
            /\ panicked' = IF CacheFull(ip) THEN "iget: no inodes" ELSE ""
    /\ UNCHANGED <<dinode, cwd, ofile>>

isdirempty(i) == \A n \in Name : dinode[i].entry[n] = 0

\* The entry is erased; dp is unlocked and put while ip stays locked.
unlink_entry(p) ==
    LET c == call[p]
        dp == c.dp
        ip == c.ip
        isdir == Loaded(ip)[ip].type = "T_DIR"
        links == icache[dp].nlink - (IF isdir THEN 1 ELSE 0)
    IN
    /\ Locks(p, "unlink_ip", ip)
    /\ isdir => isdirempty(ip)
    /\ SetLinks(Loaded(ip), [dinode EXCEPT ![dp].entry[c.name] = 0], dp, links)
    /\ lock' = [lock EXCEPT ![dp] = NoProc, ![ip] = p]
    /\ call' = [call EXCEPT ![p] = Put([c EXCEPT !.dp = 0], dp, "unlink_drop")]
    /\ panicked' = IF Loaded(ip)[ip].nlink < 1 THEN "unlink: nlink < 1" ELSE ""
    /\ UNCHANGED <<cwd, ofile>>

unlink_notempty(p) ==
    LET c == call[p]
        ip == c.ip
    IN
    /\ Locks(p, "unlink_ip", ip)
    /\ Loaded(ip)[ip].type = "T_DIR" /\ ~isdirempty(ip)
    /\ icache' = Loaded(ip)
    /\ call' = [call EXCEPT ![p] = Put([c EXCEPT !.ip = 0], ip, "unlock_dp")]
    /\ panicked' = IF Loaded(ip)[ip].nlink < 1 THEN "unlink: nlink < 1" ELSE ""
    /\ UNCHANGED <<dinode, lock, cwd, ofile>>

\* The link is dropped and ip unlocked and put.
unlink_drop(p) ==
    LET ip == call[p].ip IN
    /\ panicked = "" /\ call[p].pc = "unlink_drop"
    /\ SetLinks(icache, dinode, ip, icache[ip].nlink - 1)
    /\ lock' = [lock EXCEPT ![ip] = NoProc]
    /\ call' = [call EXCEPT ![p] = Fails(p, ip)]
    /\ UNCHANGED <<cwd, ofile, panicked>>

-----------------------------------------------------------------------------

Step(p) ==
    \/ syscall(p) \/ sys_close(p)
    \/ walk(p) \/ walk_end(p) \/ ilock_panic(p) \/ iput(p) \/ iput_unref(p)
    \/ sys_open(p) \/ sys_chdir(p)
    \/ create_exists(p) \/ create_found(p) \/ create_new(p) \/ ialloc_panic(p)
    \/ created(p)
    \/ sys_link(p) \/ link_isdir(p) \/ link_entry(p) \/ link_exists(p)
    \/ unlock_dp(p) \/ link_bad(p)
    \/ sys_unlink(p) \/ unlink_entry(p) \/ unlink_notempty(p) \/ unlink_drop(p)

Next == \E p \in Proc : Step(p)

Spec == Init /\ [][Next]_vars

-----------------------------------------------------------------------------
(* Properties. *)

TypeOK ==
    /\ dinode \in [Inum -> [type : Type, nlink : Nat, entry : [DirName -> {0} \cup Inum]]]
    /\ icache \in [Inum -> [ref : Nat, valid : BOOLEAN, type : Type, nlink : Nat]]
    /\ lock \in [Inum -> Proc \cup {NoProc}]
    /\ cwd \in [Proc -> Inum]
    /\ ofile \in [Proc -> {0} \cup Inum]
    /\ panicked \in {"", "ilock: no type", "iget: no inodes", "ialloc: no inodes"}

\* The places that hold a pointer to inode i.
Pointers(i) ==
    {<<p, f>> \in Proc \X {"at", "ip", "dp", "put"} : call[p][f] = i}
    \cup {<<p, "cwd">> : p \in {q \in Proc : cwd[q] = i}}
    \cup {<<p, "ofile">> : p \in {q \in Proc : ofile[q] = i}}

\* "ip->ref tracks the number of in-memory pointers to the entry": on every
\* path of every call, errors included, iget(), idup() and iput() balance.
\* "i-node cache is write-through": a valid entry agrees with the disk.
CacheExact ==
    /\ TypeOK
    /\ \A i \in Inum :
           /\ icache[i].ref = Cardinality(Pointers(i))
           /\ icache[i].valid =>
                  icache[i].type = dinode[i].type /\ icache[i].nlink = dinode[i].nlink

\* The directories that a path from the root leads to.
Reached ==
    LET sub[d \in Inum] == {i \in Inum : /\ dinode[i].type = "T_DIR"
                                        /\ \E n \in Name : dinode[d].entry[n] = i}
        within[k \in 0..NINODES] ==
            IF k = 0 THEN {ROOTINO}
            ELSE within[k - 1] \cup UNION {sub[d] : d \in within[k - 1]}
    IN within[NINODES - 2]

\* The entries that count as links to i: "." does not.
LinksTo(i, dirs) == {<<d, n>> \in dirs \X (DirName \ {"."}) : dinode[d].entry[n] = i}

\* Whatever is created, linked and removed at the same time, what the root
\* leads to is a tree of allocated inodes: a directory that can be reached is
\* in one directory, the one its ".." names.  sys_link() counts a link before
\* it makes it and sys_unlink() after it has erased it, so nlink never falls
\* short of the entries that can be reached.
IsTree ==
    LET dirs == Reached IN
    /\ \A d \in dirs :
           /\ \A n \in DirName : dinode[d].entry[n] # 0 =>
                  dinode[dinode[d].entry[n]].type # "T_NONE"
           /\ dinode[d].entry["."] = d
           /\ \A e \in dirs, n \in Name :
                  dinode[e].entry[n] = d => dinode[d].entry[".."] = e
    /\ \A i \in Inum : dinode[i].nlink >= Cardinality(LinksTo(i, dirs))

\* iput() frees an inode on the disk only when no directory that can be
\* reached has an entry for it and no other process has a pointer to it.
FreedIsUnused ==
    [][\A i \in Inum :
        dinode[i].type # "T_NONE" /\ dinode'[i].type = "T_NONE" =>
            LinksTo(i, Reached) = {} /\ Cardinality(Pointers(i)) = 1]_vars

\* Processes each of which waits for an inode lock that one of them holds.
Waits(p) == IF call[p].pc = "iput" THEN call[p].put ELSE Wanted(call[p])
DeadSet(S) == S # {} /\ \A p \in S : Waits(p) # 0 /\ lock[Waits(p)] \in S

\* "The separation also helps avoid deadlock": no calls wait for each other.
NoDeadlock == \A S \in SUBSET Proc : ~DeadSet(S)

\* "If that was the last reference and the inode has no links to it, free the
\* inode": an inode without links is free or somebody has a pointer to it.
NoneLost == \A i \in Inum : dinode[i].type # "T_NONE" /\ dinode[i].nlink = 0 =>
                icache[i].ref > 0

=============================================================================
