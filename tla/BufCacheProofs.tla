--------------------------- MODULE BufCacheProofs ---------------------------
(***************************************************************************)
(* Proofs about module BufCache, for any number of processes, buffers and  *)
(* blocks.  BufInv ties the three places that must agree about a buffer:   *)
(* the process that works with it (ProcOK), its fields (BufOK, Distinct),  *)
(* and the driver and the disk (QueueOK, CommandOK, DiskOK).  It holds     *)
(* with a disk that fails too; what it says of the contents, and the       *)
(* theorems that rest on that, are for commands that all succeed           *)
(* (Outcome = {TRUE}).  A step of a process disturbs it only at that       *)
(* process and its buffer (LocalStep).                                     *)
(***************************************************************************)
EXTENDS BufCache, FiniteSetTheorems, TLAPS

(* The inductive invariant *)

\* Where a process has the sleep-lock of its buffer.
Has == {"bread", "iderw", "asleep", "awake", "in"}

\* The test of the loop of iderw(): (b->flags & (B_VALID|B_DIRTY)) == B_VALID.
Done(b) == buf[b].valid /\ ~buf[b].dirty

Users(b) == {p \in Proc : my[p] = b}

ProcOK(p) ==
    /\ my[p] = NoBuf <=> pc[p] = "out"
    /\ pc[p] # "out" => buf[my[p]].blockno \in Block
    /\ pc[p] \in Has => buf[my[p]].lock = p
    /\ pc[p] = "in" => buf[my[p]].valid
    /\ pc[p] = "iderw" => ~Done(my[p])

BufOK(b) ==
    /\ buf[b].lock # NoProc => my[buf[b].lock] = b /\ pc[buf[b].lock] \in Has
    /\ buf[b].refcnt = Cardinality(Users(b))
    /\ buf[b].dirty => buf[b].valid
    /\ buf[b].valid => buf[b].blockno \in Block

\* A block has one buffer.
Distinct ==
    \A b, d \in Buf : buf[b].blockno = buf[d].blockno /\ buf[b].blockno # NoBlock => b = d

\* The requests are different buffers, whose holders wait for them.
QueueOK ==
    /\ \A i \in 1..Len(idequeue) :
           LET b == idequeue[i]
           IN  ~Done(b) /\ buf[b].lock \in Proc /\ pc[buf[b].lock] \in {"asleep", "awake"}
    /\ \A i, j \in 1..Len(idequeue) : idequeue[i] = idequeue[j] => i = j

\* The controller works on the first request.
CommandOK ==
    /\ command.at = "idle" <=> idequeue = <<>>
    /\ idequeue # <<>> =>
           /\ command.blockno = buf[idequeue[1]].blockno
           /\ command.write <=> buf[idequeue[1]].dirty
           /\ command.write => command.data = buf[idequeue[1]].data

\* Without disk errors: a buffer that is valid and clean has what the disk has,
\* and a command that ended has read or written the block.
DiskOK ==
    Outcome = {TRUE} =>
        /\ \A b \in Buf : Done(b) => disk[buf[b].blockno] = buf[b].data
        /\ command.at = "irq" => command.ok /\ disk[command.blockno] = command.data

BufInv ==
    /\ TypeOK
    /\ \A p \in Proc : ProcOK(p)
    /\ \A b \in Buf : BufOK(b)
    /\ Distinct
    /\ QueueOK
    /\ CommandOK
    /\ DiskOK

BufRec == [blockno : Block \cup {NoBlock}, valid : BOOLEAN, dirty : BOOLEAN, refcnt : Nat,
           data : Value, lock : Proc \cup {NoProc}]

CommandRec == [at : {"idle", "busy", "irq"}, write : BOOLEAN, blockno : Block \cup {NoBlock},
               data : Value, ok : BOOLEAN]

\* A list of all the buffers.
IsList(s) ==
    s \in Seq(Buf) /\ Len(s) = Cardinality(Buf) /\ {s[i] : i \in DOMAIN s} = Buf
-----------------------------------------------------------------------------
(* Types *)

\* The type invariant, and the list of bcache.
LEMMA Types ==
    ASSUME BufInv
    PROVE  /\ buf \in [Buf -> BufRec] /\ IsList(lru) /\ idequeue \in Seq(Buf)
           /\ command \in CommandRec /\ disk \in [Block -> Value]
           /\ pc \in [Proc -> PCs] /\ my \in [Proc -> Buf \cup {NoBuf}]
           /\ panicked \in BOOLEAN
  BY Zenon DEF BufInv, TypeOK, BufRec, CommandRec, IsList

\* A step that keeps every variable or its type keeps the type invariant.
LEMMA TypeNext ==
    ASSUME BufInv,
           buf' = buf \/ buf' \in [Buf -> BufRec],
           lru' = lru \/ IsList(lru'),
           idequeue' = idequeue \/ idequeue' \in Seq(Buf),
           command' = command \/ command' \in CommandRec,
           disk' = disk \/ disk' \in [Block -> Value],
           pc' = pc \/ pc' \in [Proc -> PCs],
           my' = my \/ my' \in [Proc -> Buf \cup {NoBuf}],
           panicked' = panicked \/ panicked' \in BOOLEAN
    PROVE  TypeOK'
  <1>1. buf' \in [Buf -> BufRec] /\ IsList(lru')
    BY Types, Zenon
  <1>2. /\ idequeue' \in Seq(Buf) /\ command' \in CommandRec /\ disk' \in [Block -> Value]
        /\ pc' \in [Proc -> PCs] /\ my' \in [Proc -> Buf \cup {NoBuf}]
        /\ panicked' \in BOOLEAN
    BY Types, Zenon
  <1> QED
    BY <1>1, <1>2, Zenon DEF TypeOK, BufRec, CommandRec, IsList

\* The record of a buffer.
LEMMA Fields ==
    ASSUME BufInv, NEW b \in Buf
    PROVE  /\ buf[b] \in BufRec
           /\ buf[b].blockno \in Block \cup {NoBlock} /\ buf[b].refcnt \in Nat
           /\ buf[b].data \in Value /\ buf[b].lock \in Proc \cup {NoProc}
           /\ buf[b].valid \in BOOLEAN /\ buf[b].dirty \in BOOLEAN
  BY Types, Zenon DEF BufRec

\* The process that has the lock of a buffer is the only one inside.
LEMMA OneHas ==
    ASSUME BufInv, NEW p \in Proc, pc[p] \in Has
    PROVE  /\ my[p] \in Buf /\ buf[my[p]].lock = p /\ ProcOK(p) /\ BufOK(my[p])
           /\ \A q \in Proc \ {p} : my[q] = my[p] => pc[q] \notin Has
  <1>1. ProcOK(p) /\ pc[p] # "out"
    BY Zenon DEF BufInv, Has
  <1>2. my[p] \in Buf /\ buf[my[p]].lock = p
    BY <1>1, Types, Zenon DEF ProcOK
  <1>3. \A q \in Proc \ {p} : my[q] = my[p] => pc[q] \notin Has
    BY <1>2, Zenon DEF BufInv, ProcOK
  <1> QED
    BY <1>1, <1>2, <1>3, Zenon DEF BufInv
-----------------------------------------------------------------------------
(* Steps of a process *)

\* The step leaves buffer b as it was, but for b->refcnt.
Same(b) ==
    /\ buf'[b].blockno = buf[b].blockno /\ buf'[b].lock = buf[b].lock
    /\ buf'[b].data = buf[b].data
    /\ buf'[b].valid <=> buf[b].valid
    /\ buf'[b].dirty <=> buf[b].dirty

\* A step of p on buffer b.
Local(p, b) ==
    /\ buf' \in [Buf -> BufRec] /\ \A d \in Buf \ {b} : buf'[d] = buf[d]
    /\ pc' \in [Proc -> PCs] /\ \A q \in Proc \ {p} : pc'[q] = pc[q]
    /\ my' \in [Proc -> Buf \cup {NoBuf}] /\ \A q \in Proc \ {p} : my'[q] = my[q]
    /\ {my[p], my'[p]} \subseteq {NoBuf, b}
    /\ lru' = lru \/ IsList(lru')
    /\ UNCHANGED <<idequeue, command, disk, panicked>>
    /\ \A q \in Proc \ {p} : my[q] = b => /\ buf'[b].blockno = buf[b].blockno
                                          /\ pc[q] \in Has => Same(b)

\* It preserves the invariant if it does so for p and b.
LEMMA LocalStep ==
    ASSUME BufInv, NEW p \in Proc, NEW b \in Buf, Local(p, b), ProcOK(p)', BufOK(b)',
           \A i \in 1..Len(idequeue) : idequeue[i] = b =>
               Same(b) /\ (buf[b].lock = p => pc'[p] \in {"asleep", "awake"}),
           buf'[b].blockno # buf[b].blockno =>
               \A d \in Buf \ {b} : buf[d].blockno # buf'[b].blockno,
           Outcome = {TRUE} /\ Done(b)' => disk[buf'[b].blockno] = buf'[b].data
    PROVE  BufInv'
  <1>1. TypeOK'
    BY TypeNext, Zenon DEF Local
  <1>2. ASSUME NEW q \in Proc PROVE ProcOK(q)'
    <2>1. CASE q = p
      BY <2>1, Zenon DEF ProcOK, Done
    <2>2. CASE q # p
      <3>1. ProcOK(q) /\ pc'[q] = pc[q] /\ my'[q] = my[q]
        BY <2>2, Zenon DEF BufInv, Local
      <3>2. pc[q] # "out" => my[q] \in Buf
        BY <3>1, Types, Zenon DEF ProcOK
      <3>3. CASE my[q] # b
        <4>1. pc[q] # "out" => buf'[my[q]] = buf[my[q]]
          BY <3>2, <3>3, Zenon DEF Local
        <4> QED
          BY <3>1, <4>1, Zenon DEF ProcOK, Done, Has
      <3>4. CASE my[q] = b
        <4>1. buf'[b].blockno = buf[b].blockno /\ (pc[q] \in Has => Same(b))
          BY <2>2, <3>4, Zenon DEF Local
        <4> QED
          BY <3>1, <3>4, <4>1 DEF ProcOK, Done, Has, Same
      <3> QED
        BY <3>3, <3>4, Zenon
    <2> QED
      BY <2>1, <2>2, Zenon
  <1>3. ASSUME NEW d \in Buf PROVE BufOK(d)'
    <2>1. CASE d = b
      BY <2>1, Zenon DEF BufOK, Users
    <2>2. CASE d # b
      <3>1. BufOK(d) /\ buf'[d] = buf[d]
        BY <2>2, Zenon DEF BufInv, Local
      <3>2. my[p] # d /\ my'[p] # d
        BY <2>2, BufCacheAssumption DEF Local
      <3>3. Users(d)' = Users(d)
        BY <3>2, Zenon DEF Users, Local
      <3>4. buf[d].lock # NoProc => my'[buf[d].lock] = d /\ pc'[buf[d].lock] \in Has
        BY <3>1, <3>2, Fields DEF BufOK, Local
      <3> QED
        BY <3>1, <3>3, <3>4, Zenon DEF BufOK
    <2> QED
      BY <2>1, <2>2, Zenon
  <1>4. Distinct'
    <2>1. Distinct /\ \A d \in Buf \ {b} : buf'[d].blockno = buf[d].blockno
      BY Zenon DEF BufInv, Local
    <2> QED
      BY <2>1 DEF Distinct
  <1>5. QueueOK' /\ CommandOK'
    <2>1. /\ idequeue' = idequeue /\ command' = command /\ idequeue \in Seq(Buf)
          /\ \A i \in 1..Len(idequeue) : idequeue[i] \in Buf
      BY Types DEF Local
    <2>2. ASSUME NEW i \in 1..Len(idequeue) PROVE Same(idequeue[i])
      BY <2>1, <2>2, Zenon DEF Local, Same
    <2>3. ASSUME NEW i \in 1..Len(idequeue)
          PROVE  pc'[buf[idequeue[i]].lock] \in {"asleep", "awake"}
      <3>1. /\ idequeue[i] \in Buf /\ buf[idequeue[i]].lock \in Proc
            /\ pc[buf[idequeue[i]].lock] \in {"asleep", "awake"}
        BY <2>1, Zenon DEF BufInv, QueueOK
      <3>2. my[buf[idequeue[i]].lock] = idequeue[i]
        BY <3>1, BufCacheAssumption, Zenon DEF BufInv, BufOK
      <3>3. CASE buf[idequeue[i]].lock = p
        <4>1. idequeue[i] = b
          BY <3>1, <3>2, <3>3, BufCacheAssumption DEF Local
        <4> QED
          BY <3>3, <4>1, Zenon
      <3>4. CASE buf[idequeue[i]].lock # p
        BY <3>1, <3>4, Zenon DEF Local
      <3> QED
        BY <3>3, <3>4, Zenon
    <2>4. QueueOK'
      BY <2>1, <2>2, <2>3, Zenon DEF BufInv, QueueOK, Same, Done
    <2>5. idequeue # <<>> => 1 \in 1..Len(idequeue)
      BY <2>1
    <2>6. CommandOK'
      BY <2>1, <2>2, <2>5, Zenon DEF BufInv, CommandOK, Same
    <2> QED
      BY <2>4, <2>6, Zenon
  <1>6. DiskOK'
    <2>1. DiskOK /\ disk' = disk /\ command' = command /\ \A d \in Buf \ {b} : buf'[d] = buf[d]
      BY Zenon DEF BufInv, Local
    <2> QED
      BY <2>1 DEF DiskOK, Done
  <1> QED
    BY <1>1, <1>2, <1>3, <1>4, <1>5, <1>6, Zenon DEF BufInv
-----------------------------------------------------------------------------
(* bget() *)

\* bget() takes a buffer that has the block: it only counts one user more.
LEMMA BgetCachedInv ==
    ASSUME BufInv, NEW p \in Proc, NEW k \in Block, bget_cached(p, k)
    PROVE  BufInv'
  <1>1. PICK b \in Cached(k) : /\ buf' = [buf EXCEPT ![b].refcnt = @ + 1]
                               /\ my' = [my EXCEPT ![p] = b]
    BY Zenon DEF bget_cached
  <1>2. b \in Buf /\ buf[b].blockno = k
    BY <1>1, Zenon DEF Cached
  <1>3. ProcOK(p) /\ pc[p] = "out" /\ my[p] = NoBuf
    BY Zenon DEF BufInv, ProcOK, bget_cached, at
  <1>4. /\ buf' \in [Buf -> BufRec] /\ (\A d \in Buf \ {b} : buf'[d] = buf[d])
        /\ buf'[b].refcnt = buf[b].refcnt + 1
    <2> DEFINE more == [buf[b] EXCEPT !.refcnt = @ + 1]
    <2>1. buf[b] \in BufRec /\ buf[b].refcnt \in Nat
      BY <1>2, Fields, Zenon
    <2>2. more \in BufRec /\ more.refcnt = buf[b].refcnt + 1
      BY <2>1 DEF BufRec
    <2>3. buf' = [buf EXCEPT ![b] = more] /\ buf \in [Buf -> BufRec]
      BY <1>1, Types, Zenon
    <2> HIDE DEF more
    <2> QED
      BY <1>2, <2>2, <2>3, Zenon
  <1>5. Same(b)
    BY <1>1, <1>2, Types, Fields, Zenon DEF BufRec, Same
  <1>6. /\ pc' = [pc EXCEPT ![p] = "bget"] /\ pc' \in [Proc -> PCs] /\ pc'[p] = "bget"
        /\ my' \in [Proc -> Buf \cup {NoBuf}] /\ my'[p] = b
    BY <1>1, <1>2, Types, Zenon DEF bget_cached, goto, PCs
  <1>7. Local(p, b)
    BY <1>1, <1>2, <1>3, <1>4, <1>5, <1>6, Types DEF Local, bget_cached, Same
  <1>8. ProcOK(p)'
    BY <1>2, <1>5, <1>6, BufCacheAssumption, Zenon DEF ProcOK, Same, Has
  <1>9. BufOK(b)'
    <2>1. BufOK(b) /\ Users(b)' = Users(b) \cup {p} /\ p \notin Users(b)
      BY <1>1, <1>2, <1>3, <1>6, Types, BufCacheAssumption DEF BufInv, Users
    <2>2. IsFiniteSet(Users(b))
      BY FS_Subset, BufCacheAssumption, Zenon DEF Users
    <2>3. Cardinality(Users(b)') = Cardinality(Users(b)) + 1
      BY <2>1, <2>2, FS_AddElement, Zenon
    <2>4. buf'[b].refcnt = Cardinality(Users(b)')
      BY <1>4, <2>1, <2>3, Zenon DEF BufOK
    <2>5. buf[b].lock # NoProc => my'[buf[b].lock] = b /\ pc'[buf[b].lock] \in Has
      BY <1>2, <1>3, <1>7, <2>1, Fields DEF BufOK, Has, Local
    <2> QED
      BY <1>5, <2>1, <2>4, <2>5, Zenon DEF BufOK, Same
  <1>10. \A i \in 1..Len(idequeue) : idequeue[i] = b => buf[b].lock # p
    BY <1>2, <1>3, Zenon DEF BufInv, QueueOK
  <1>11. Outcome = {TRUE} /\ Done(b)' => disk[buf'[b].blockno] = buf'[b].data
    BY <1>2, <1>5, Zenon DEF BufInv, DiskOK, Same, Done
  <1> QED
    BY <1>2, <1>5, <1>7, <1>8, <1>9, <1>10, <1>11, LocalStep, Zenon DEF Same

\* bget() gives an unused buffer to the block: nobody has it or waits for it,
\* and no other buffer has the block.
LEMMA BgetRecycleInv ==
    ASSUME BufInv, NEW p \in Proc, NEW k \in Block, bget_recycle(p, k)
    PROVE  BufInv'
  <1>1. PICK b \in Buf :
            /\ Unused(b)
            /\ buf' = [buf EXCEPT ![b] = [@ EXCEPT !.blockno = k,
                          !.valid = FALSE, !.dirty = FALSE, !.refcnt = 1]]
            /\ my' = [my EXCEPT ![p] = b]
    <2>1. \A i \in 1..Len(lru) : lru[i] \in Buf
      BY Types DEF IsList
    <2> QED
      BY <2>1, Zenon DEF bget_recycle
  <1>2. ProcOK(p) /\ pc[p] = "out" /\ my[p] = NoBuf
    BY Zenon DEF BufInv, ProcOK, bget_recycle, at
  <1>3. /\ buf' = [buf EXCEPT ![b] = [buf[b] EXCEPT !.blockno = k,
                          !.valid = FALSE, !.dirty = FALSE, !.refcnt = 1]]
        /\ my' = [my EXCEPT ![p] = b] /\ buf[b].refcnt = 0
    BY <1>1, Zenon DEF Unused
  <1>4. /\ buf' \in [Buf -> BufRec] /\ (\A d \in Buf \ {b} : buf'[d] = buf[d])
        /\ buf'[b].refcnt = 1 /\ buf'[b].blockno = k /\ buf'[b].lock = buf[b].lock
        /\ ~buf'[b].valid /\ ~buf'[b].dirty
    BY <1>2, <1>3, Types, Fields, Zenon DEF BufRec
  <1>5. /\ pc' = [pc EXCEPT ![p] = "bget"] /\ pc' \in [Proc -> PCs] /\ pc'[p] = "bget"
        /\ my' \in [Proc -> Buf \cup {NoBuf}] /\ my'[p] = b
    BY <1>2, <1>3, Types, Zenon DEF bget_recycle, goto, PCs
  <1>6. BufOK(b) /\ Users(b) = {}
    <2>1. BufOK(b) /\ IsFiniteSet(Users(b))
      BY <1>2, FS_Subset, BufCacheAssumption, Zenon DEF Users, BufInv
    <2> QED
      BY <1>3, <2>1, FS_EmptySet, Zenon DEF BufOK
  <1>7. (\A q \in Proc : my[q] # b) /\ buf[b].lock = NoProc
    BY <1>2, <1>6, Fields, Zenon DEF BufOK, Users
  <1>8. Local(p, b)
    BY <1>2, <1>3, <1>4, <1>5, <1>7, Types DEF Local, bget_recycle
  <1>9. ProcOK(p)'
    BY <1>2, <1>4, <1>5, BufCacheAssumption, Zenon DEF ProcOK, Has
  <1>10. BufOK(b)'
    <2>1. Users(b)' = {p}
      BY <1>3, <1>5, <1>7, Types, Zenon DEF Users
    <2>2. buf'[b].refcnt = Cardinality(Users(b)')
      BY <1>4, <2>1, FS_Singleton, Zenon
    <2> QED
      BY <1>4, <1>7, <2>2, Zenon DEF BufOK
  <1>11. \A j \in 1..Len(idequeue) : idequeue[j] # b
    BY <1>7, BufCacheAssumption, Zenon DEF BufInv, QueueOK
  <1>12. \A d \in Buf : buf[d].blockno # k
    BY Zenon DEF bget_recycle, Cached
  <1>13. ~Done(b)'
    BY <1>4, Zenon DEF Done
  <1> QED
    BY <1>2, <1>4, <1>8, <1>9, <1>10, <1>11, <1>12, <1>13, LocalStep, Zenon
-----------------------------------------------------------------------------
(* The holder of a buffer *)

\* A buffer is in idequeue only while its holder waits in iderw().
LEMMA Queued ==
    ASSUME BufInv, NEW p \in Proc, pc[p] \in Has, NEW i \in 1..Len(idequeue),
           idequeue[i] = my[p]
    PROVE  pc[p] \in {"asleep", "awake"} /\ ~Done(my[p])
  BY OneHas, Zenon DEF BufInv, QueueOK

\* acquiresleep() takes a lock that nobody has.
LEMMA AcquiresleepInv ==
    ASSUME BufInv, NEW p \in Proc, acquiresleep(p)
    PROVE  BufInv'
  <1>1. ProcOK(p) /\ pc[p] = "bget" /\ my[p] \in Buf
    BY Types, Zenon DEF BufInv, ProcOK, acquiresleep, at
  <1>2. PICK b \in Buf : b = my[p]
    BY <1>1, Zenon
  <1>3. buf' = [buf EXCEPT ![b].lock = p] /\ buf[b].lock = NoProc /\ UNCHANGED my
    BY <1>2, Zenon DEF acquiresleep
  <1>4. /\ buf' \in [Buf -> BufRec] /\ (\A d \in Buf \ {b} : buf'[d] = buf[d])
        /\ buf'[b].refcnt = buf[b].refcnt /\ buf'[b].blockno = buf[b].blockno
        /\ buf'[b].lock = p /\ buf'[b].data = buf[b].data
    BY <1>3, Types, Fields, Zenon DEF BufRec
  <1>5. (buf'[b].valid <=> buf[b].valid) /\ (buf'[b].dirty <=> buf[b].dirty)
    BY <1>3, Types, Fields, Zenon DEF BufRec
  <1>6. /\ pc' \in [Proc -> PCs] /\ pc'[p] = "bread"
        /\ (\A q \in Proc \ {p} : pc'[q] = pc[q])
    BY Types, Zenon DEF acquiresleep, goto, PCs
  <1>7. BufOK(b) /\ \A q \in Proc : my[q] = b => pc[q] \notin Has
    BY <1>3, BufCacheAssumption, Zenon DEF BufInv, ProcOK
  <1>8. Local(p, b)
    BY <1>2, <1>3, <1>4, <1>6, <1>7, Types, Zenon DEF Local, acquiresleep
  <1>9. ProcOK(p)'
    BY <1>1, <1>2, <1>3, <1>4, <1>6, Zenon DEF ProcOK, Has
  <1>10. BufOK(b)'
    <2>1. Users(b)' = Users(b)
      BY <1>3, Zenon DEF Users
    <2> QED
      BY <1>2, <1>3, <1>4, <1>5, <1>6, <1>7, <2>1, Zenon DEF BufOK, Has
  <1>11. \A i \in 1..Len(idequeue) : idequeue[i] # b
    BY <1>3, BufCacheAssumption, Zenon DEF BufInv, QueueOK
  <1>12. Outcome = {TRUE} /\ Done(b)' => disk[buf'[b].blockno] = buf'[b].data
    BY <1>4, <1>5, Zenon DEF BufInv, DiskOK, Done
  <1> QED
    BY <1>4, <1>8, <1>9, <1>10, <1>11, <1>12, LocalStep, Zenon

\* A step of the holder that only moves it, inside.
Moves(p) ==
    /\ pc' = [pc EXCEPT ![p] = pc'[p]] /\ pc'[p] \in Has
    /\ pc'[p] = "in" => buf[my[p]].valid
    /\ pc'[p] = "iderw" => ~Done(my[p])
    /\ \A i \in 1..Len(idequeue) : idequeue[i] = my[p] => pc'[p] \in {"asleep", "awake"}
    /\ UNCHANGED <<buf, lru, idequeue, command, disk, my, panicked>>

\* It preserves the invariant.
LEMMA MovesInv ==
    ASSUME BufInv, NEW p \in Proc, pc[p] \in Has, Moves(p)
    PROVE  BufInv'
  <1>1. PICK b \in Buf : b = my[p] /\ buf[b].lock = p /\ ProcOK(p) /\ BufOK(b)
    BY OneHas, Zenon
  <1>2. /\ pc' \in [Proc -> PCs] /\ (\A q \in Proc \ {p} : pc'[q] = pc[q])
        /\ my' = my /\ buf' = buf
    BY Types, Zenon DEF Moves, PCs, Has
  <1>3. Same(b)
    BY <1>2, Zenon DEF Same
  <1>4. Local(p, b)
    BY <1>1, <1>2, <1>3, Types, Zenon DEF Local, Moves
  <1>5. ProcOK(p)'
    BY <1>1, <1>2, Zenon DEF ProcOK, Moves, Done, Has
  <1>6. BufOK(b)'
    <2>1. Users(b)' = Users(b)
      BY <1>2, Zenon DEF Users
    <2>2. pc'[buf[b].lock] \in Has
      BY <1>1, Zenon DEF Moves
    <2> QED
      BY <1>1, <1>2, <2>1, <2>2, Zenon DEF BufOK
  <1>7. \A i \in 1..Len(idequeue) : idequeue[i] = b => pc'[p] \in {"asleep", "awake"}
    BY <1>1, Zenon DEF Moves
  <1>8. Outcome = {TRUE} /\ Done(b)' => disk[buf'[b].blockno] = buf'[b].data
    BY <1>2, Zenon DEF BufInv, DiskOK, Done
  <1> QED
    BY <1>2, <1>3, <1>4, <1>5, <1>6, <1>7, <1>8, LocalStep, Zenon

\* The test of bread(), the wakeup of kill(), the loop of iderw().
LEMMA MoveStepsInv ==
    ASSUME BufInv, NEW p \in Proc, bread(p) \/ kill(p) \/ iderw_while(p)
    PROVE  BufInv'
  <1>1. pc[p] \in Has
    BY Zenon DEF bread, kill, iderw_while, at, Has
  <1>2. CASE bread(p)
    <2>1. /\ pc[p] = "bread" /\ pc' = [pc EXCEPT ![p] = IF buf[my[p]].valid THEN "in" ELSE "iderw"]
          /\ UNCHANGED <<buf, lru, idequeue, command, disk, my, panicked>>
      BY <1>2, Zenon DEF bread, at, goto
    <2>2. pc'[p] = IF buf[my[p]].valid THEN "in" ELSE "iderw"
      BY <2>1, Types, Zenon
    <2>3. /\ pc' = [pc EXCEPT ![p] = pc'[p]] /\ pc'[p] \in Has
          /\ pc'[p] = "in" => buf[my[p]].valid
          /\ pc'[p] = "iderw" => ~buf[my[p]].valid
      <3>1. pc' = [pc EXCEPT ![p] = pc'[p]]
        BY <2>1, <2>2, Zenon
      <3>2. CASE buf[my[p]].valid
        BY <2>2, <3>1, <3>2, Zenon DEF Has
      <3>3. CASE ~buf[my[p]].valid
        BY <2>2, <3>1, <3>3, Zenon DEF Has
      <3> QED
        BY <3>2, <3>3, Zenon
    <2>4. \A i \in 1..Len(idequeue) : idequeue[i] # my[p]
      BY <1>1, <2>1, Queued, Zenon
    <2>5. Moves(p)
      BY <2>1, <2>3, <2>4, Zenon DEF Moves, Done
    <2> QED
      BY <1>1, <2>5, MovesInv, Zenon
  <1>3. CASE kill(p)
    <2>1. /\ pc[p] = "asleep" /\ pc' = [pc EXCEPT ![p] = "awake"] /\ pc'[p] = "awake"
          /\ UNCHANGED <<buf, lru, idequeue, command, disk, my, panicked>>
      BY <1>3, Types, Zenon DEF kill, at, goto
    <2>2. Moves(p)
      BY <2>1, Zenon DEF Moves, Has
    <2> QED
      BY <1>1, <2>2, MovesInv
  <1>4. CASE iderw_while(p)
    <2>1. /\ pc[p] = "awake"
          /\ pc' = [pc EXCEPT ![p] = IF buf[my[p]].valid /\ ~buf[my[p]].dirty THEN "in" ELSE "asleep"]
          /\ UNCHANGED <<buf, lru, idequeue, command, disk, my, panicked>>
      BY <1>4, Zenon DEF iderw_while, at, goto
    <2>2. pc'[p] = IF buf[my[p]].valid /\ ~buf[my[p]].dirty THEN "in" ELSE "asleep"
      BY <2>1, Types, Zenon
    <2>3. /\ pc' = [pc EXCEPT ![p] = pc'[p]] /\ pc'[p] \in {"in", "asleep"}
          /\ pc'[p] = "in" => Done(my[p])
      <3>1. pc' = [pc EXCEPT ![p] = pc'[p]]
        BY <2>1, <2>2, Zenon
      <3>2. CASE Done(my[p])
        BY <2>2, <3>1, <3>2, Zenon DEF Done
      <3>3. CASE ~Done(my[p])
        BY <2>2, <3>1, <3>3, Zenon DEF Done
      <3> QED
        BY <3>2, <3>3, Zenon
    <2>4. \A i \in 1..Len(idequeue) : idequeue[i] = my[p] => pc'[p] = "asleep"
      BY <1>1, <2>3, Queued, Zenon
    <2>5. Moves(p)
      BY <2>1, <2>3, <2>4, Zenon DEF Moves, Done, Has
    <2> QED
      BY <1>1, <2>5, MovesInv
  <1> QED
    BY <1>2, <1>3, <1>4, Zenon

\* A change of the holder, with B_DIRTY set.
LEMMA ChangeInv ==
    ASSUME BufInv, NEW p \in Proc, log_write(p) \/ bwrite(p)
    PROVE  BufInv'
  <1>1. pc[p] = "in" /\ pc[p] \in Has
    BY Zenon DEF log_write, bwrite, at, Has
  <1>2. PICK b \in Buf : b = my[p] /\ buf[b].lock = p /\ ProcOK(p) /\ BufOK(b)
    BY <1>1, OneHas, Zenon
  <1>3. PICK v \in Value : buf' = [buf EXCEPT ![b].data = v, ![b].dirty = TRUE]
    BY <1>2, Zenon DEF log_write, bwrite
  <1>4. buf[b].valid /\ buf[b].blockno \in Block
    BY <1>1, <1>2, Zenon DEF ProcOK
  <1>5. /\ buf' \in [Buf -> BufRec] /\ (\A d \in Buf \ {b} : buf'[d] = buf[d])
        /\ buf'[b].refcnt = buf[b].refcnt /\ buf'[b].blockno = buf[b].blockno
        /\ buf'[b].lock = p
    <2>1. buf' = [buf EXCEPT ![b] = [buf[b] EXCEPT !.data = v, !.dirty = TRUE]]
      BY <1>3, Types, Zenon
    <2> DEFINE r == [buf[b] EXCEPT !.data = v, !.dirty = TRUE]
    <2>2. /\ r \in BufRec /\ r.refcnt = buf[b].refcnt /\ r.blockno = buf[b].blockno
          /\ r.lock = buf[b].lock
      BY Fields, Zenon DEF BufRec
    <2> HIDE DEF r
    <2>3. buf' = [buf EXCEPT ![b] = r]
      BY <2>1, Zenon DEF r
    <2> QED
      BY <1>2, <2>2, <2>3, Types, Zenon
  <1>6. buf'[b].valid /\ buf'[b].dirty
    BY <1>3, <1>4, Types, Fields, Zenon DEF BufRec
  <1>7. /\ pc' \in [Proc -> PCs] /\ pc'[p] \in {"in", "iderw"}
        /\ (\A q \in Proc \ {p} : pc'[q] = pc[q]) /\ my' = my
    BY <1>1, Types, Zenon DEF log_write, bwrite, goto, PCs
  <1>8. Local(p, b)
    BY <1>1, <1>2, <1>5, <1>7, OneHas, Types, Zenon DEF Local, log_write, bwrite
  <1>9. ProcOK(p)'
    BY <1>1, <1>2, <1>4, <1>5, <1>6, <1>7, Zenon DEF ProcOK, Has, Done
  <1>10. BufOK(b)'
    <2>1. Users(b)' = Users(b)
      BY <1>7, Zenon DEF Users
    <2> QED
      BY <1>2, <1>4, <1>5, <1>6, <1>7, <2>1, Zenon DEF BufOK, Has
  <1>11. \A i \in 1..Len(idequeue) : idequeue[i] # b
    BY <1>1, <1>2, Queued, Zenon
  <1>12. ~Done(b)'
    BY <1>6, Zenon DEF Done
  <1> QED
    BY <1>5, <1>8, <1>9, <1>10, <1>11, <1>12, LocalStep, Zenon

\* releasesleep() of brelse().
LEMMA BrelseInv ==
    ASSUME BufInv, NEW p \in Proc, brelse(p)
    PROVE  BufInv'
  <1>1. pc[p] = "in" /\ pc[p] \in Has
    BY Zenon DEF brelse, at, Has
  <1>2. PICK b \in Buf : b = my[p] /\ buf[b].lock = p /\ ProcOK(p) /\ BufOK(b)
    BY <1>1, OneHas, Zenon
  <1>3. buf' = [buf EXCEPT ![b].lock = NoProc] /\ my' = my
    BY <1>2, Zenon DEF brelse
  <1>4. /\ buf' \in [Buf -> BufRec] /\ (\A d \in Buf \ {b} : buf'[d] = buf[d])
        /\ buf'[b].refcnt = buf[b].refcnt /\ buf'[b].blockno = buf[b].blockno
        /\ buf'[b].lock = NoProc /\ buf'[b].data = buf[b].data
    BY <1>3, Types, Fields, Zenon DEF BufRec
  <1>5. (buf'[b].valid <=> buf[b].valid) /\ (buf'[b].dirty <=> buf[b].dirty)
    BY <1>3, Types, Fields, Zenon DEF BufRec
  <1>6. /\ pc' \in [Proc -> PCs] /\ pc'[p] = "brelse"
        /\ (\A q \in Proc \ {p} : pc'[q] = pc[q])
    BY Types, Zenon DEF brelse, goto, PCs
  <1>7. Local(p, b)
    BY <1>1, <1>2, <1>3, <1>4, <1>6, OneHas, Types, Zenon DEF Local, brelse
  <1>8. ProcOK(p)'
    BY <1>1, <1>2, <1>3, <1>4, <1>6, Zenon DEF ProcOK, Has
  <1>9. BufOK(b)'
    <2>1. Users(b)' = Users(b)
      BY <1>3, Zenon DEF Users
    <2> QED
      BY <1>2, <1>4, <1>5, <2>1, Zenon DEF BufOK
  <1>10. \A i \in 1..Len(idequeue) : idequeue[i] # b
    BY <1>1, <1>2, Queued, Zenon
  <1>11. Outcome = {TRUE} /\ Done(b)' => disk[buf'[b].blockno] = buf'[b].data
    BY <1>4, <1>5, Zenon DEF BufInv, DiskOK, Done
  <1> QED
    BY <1>4, <1>7, <1>8, <1>9, <1>10, <1>11, LocalStep, Zenon

\* Moving an entry of a list of all the buffers to its front leaves one.
LEMMA MoveToFront ==
    ASSUME IsList(lru), NEW b \in Buf
    PROVE  IsList(ToFront(b))
  <1> DEFINE i == CHOOSE i \in DOMAIN lru : lru[i] = b
             t == ToFront(b)
  <1>1. lru \in Seq(Buf) /\ DOMAIN lru = 1..Len(lru) /\ Len(lru) \in Nat
    BY DEF IsList
  <1>2. \A x \in Buf : \E j \in DOMAIN lru : lru[j] = x
    BY Zenon DEF IsList
  <1>3. i \in 1..Len(lru) /\ lru[i] = b
    BY <1>1, <1>2, Zenon
  <1>4. t = [j \in 1..Len(lru) |-> IF j = 1 THEN b
                                  ELSE IF j <= i THEN lru[j - 1] ELSE lru[j]]
    BY <1>1, Zenon DEF ToFront
  <1> HIDE DEF i, t
  <1>5. \A j \in 1..Len(lru) : t[j] \in Buf
    BY <1>1, <1>3, <1>4
  <1>6. t \in Seq(Buf) /\ Len(t) = Len(lru) /\ DOMAIN t = 1..Len(lru)
    BY <1>1, <1>4, <1>5
  <1>7. ASSUME NEW x \in Buf PROVE \E j \in 1..Len(lru) : t[j] = x
    <2>1. PICK j \in 1..Len(lru) : lru[j] = x
      BY <1>1, <1>2, Zenon
    <2>2. CASE j = i
      BY <1>3, <1>4, <2>1, <2>2
    <2>3. CASE j < i
      <3>1. j + 1 \in 1..Len(lru) /\ j + 1 # 1 /\ j + 1 <= i /\ (j + 1) - 1 = j
        BY <1>1, <1>3, <2>3
      <3> QED
        BY <1>4, <2>1, <3>1, Zenon
    <2>4. CASE j > i
      <3>1. j # 1 /\ ~(j <= i)
        BY <1>3, <2>4
      <3> QED
        BY <1>4, <2>1, <3>1, Zenon
    <2> QED
      BY <1>3, <2>2, <2>3, <2>4
  <1>8. {t[j] : j \in DOMAIN t} = Buf
    BY <1>5, <1>6, <1>7, Zenon
  <1>9. IsList(t)
    BY <1>6, <1>8, Zenon DEF IsList
  <1> QED
    BY <1>9, Zenon DEF t

\* The rest of brelse(): the process is a user no more.
LEMMA BrelseUnrefInv ==
    ASSUME BufInv, NEW p \in Proc, brelse_unref(p)
    PROVE  BufInv'
  <1>1. ProcOK(p) /\ pc[p] = "brelse" /\ my[p] \in Buf
    BY Types, Zenon DEF BufInv, ProcOK, brelse_unref, at
  <1>2. PICK b \in Buf : b = my[p]
    BY <1>1, Zenon
  <1>3. buf' = [buf EXCEPT ![b].refcnt = @ - 1] /\ my' = [my EXCEPT ![p] = NoBuf]
    BY <1>2, Zenon DEF brelse_unref
  <1>4. BufOK(b) /\ p \in Users(b) /\ IsFiniteSet(Users(b))
    BY <1>2, FS_Subset, BufCacheAssumption, Zenon DEF BufInv, Users
  <1>5. Users(b)' = Users(b) \ {p}
    BY <1>2, <1>3, Types, BufCacheAssumption, Zenon DEF Users
  <1>6. /\ Cardinality(Users(b)') = Cardinality(Users(b)) - 1
        /\ Cardinality(Users(b)') \in Nat
    <2>1. Cardinality(Users(b) \ {p}) = Cardinality(Users(b)) - 1
      BY <1>4, FS_RemoveElement, Zenon
    <2>2. Cardinality(Users(b) \ {p}) \in Nat
      BY <1>4, FS_RemoveElement, FS_CardinalityType, Zenon
    <2> QED
      BY <1>5, <2>1, <2>2, Zenon
  <1>7. buf[b].refcnt - 1 \in Nat /\ buf[b].refcnt - 1 = Cardinality(Users(b)')
    BY <1>4, <1>6, Zenon DEF BufOK
  <1>8. /\ buf' \in [Buf -> BufRec] /\ (\A d \in Buf \ {b} : buf'[d] = buf[d])
        /\ buf'[b].refcnt = buf[b].refcnt - 1
    BY <1>3, <1>7, Types, Fields, Zenon DEF BufRec
  <1>9. Same(b)
    BY <1>3, Types, Fields, Zenon DEF BufRec, Same
  <1>10. /\ pc' \in [Proc -> PCs] /\ pc'[p] = "out" /\ (\A q \in Proc \ {p} : pc'[q] = pc[q])
         /\ my' \in [Proc -> Buf \cup {NoBuf}] /\ my'[p] = NoBuf
         /\ (\A q \in Proc \ {p} : my'[q] = my[q])
    BY <1>3, Types, Zenon DEF brelse_unref, goto, PCs
  <1>11. lru' = lru \/ IsList(lru')
    <2>1. IsList(lru)
      BY Types, Zenon DEF IsList
    <2>2. IsList(ToFront(b))
      BY <2>1, MoveToFront, Zenon
    <2> QED
      BY <1>2, <2>2, Zenon DEF brelse_unref
  <1>12. Local(p, b)
    BY <1>2, <1>8, <1>9, <1>10, <1>11, Types, Zenon DEF Local, brelse_unref, Same
  <1>13. ProcOK(p)'
    BY <1>10, Zenon DEF ProcOK, Has
  <1>14. BufOK(b)'
    <2>1. buf[b].lock # NoProc => buf[b].lock # p /\ buf[b].lock \in Proc
      BY <1>1, <1>4, Fields, Zenon DEF BufOK, Has
    <2>2. buf[b].lock # NoProc => my'[buf[b].lock] = b /\ pc'[buf[b].lock] \in Has
      BY <1>4, <1>10, <2>1, Zenon DEF BufOK
    <2> QED
      BY <1>4, <1>7, <1>8, <1>9, <2>2, Zenon DEF BufOK, Same
  <1>15. \A i \in 1..Len(idequeue) : idequeue[i] = b => buf[b].lock # p
    BY <1>1, Zenon DEF BufInv, QueueOK
  <1>16. Outcome = {TRUE} /\ Done(b)' => disk[buf'[b].blockno] = buf'[b].data
    BY <1>9, Zenon DEF BufInv, DiskOK, Same, Done
  <1> QED
    BY <1>9, <1>12, <1>13, <1>14, <1>15, <1>16, LocalStep, Zenon DEF Same
-----------------------------------------------------------------------------
(* The disk *)

\* The first request: its holder waits, and the command is for its block.
LEMMA FirstRequest ==
    ASSUME BufInv, idequeue # <<>>
    PROVE  /\ idequeue[1] \in Buf /\ 1 \in 1..Len(idequeue) /\ ~Done(idequeue[1])
           /\ buf[idequeue[1]].lock \in Proc
           /\ pc[buf[idequeue[1]].lock] \in {"asleep", "awake"}
           /\ my[buf[idequeue[1]].lock] = idequeue[1]
           /\ buf[idequeue[1]].blockno \in Block
           /\ command.blockno = buf[idequeue[1]].blockno
           /\ command.write <=> buf[idequeue[1]].dirty
           /\ command.write => command.data = buf[idequeue[1]].data
           /\ \A d \in Buf \ {idequeue[1]} : buf[d].blockno # command.blockno
  <1>1. 1 \in 1..Len(idequeue) /\ idequeue[1] \in Buf
    BY Types
  <1>2. PICK b \in Buf : b = idequeue[1]
    BY <1>1, Zenon
  <1>3. ~Done(b) /\ buf[b].lock \in Proc /\ pc[buf[b].lock] \in {"asleep", "awake"}
    BY <1>1, <1>2, Zenon DEF BufInv, QueueOK
  <1>4. my[buf[b].lock] = b
    BY <1>3, BufCacheAssumption, Zenon DEF BufInv, BufOK
  <1>5. buf[b].blockno \in Block
    <2>1. ProcOK(buf[b].lock)
      BY <1>3, Zenon DEF BufInv
    <2> QED
      BY <1>3, <1>4, <2>1, Zenon DEF ProcOK
  <1>6. /\ command.blockno = buf[b].blockno /\ (command.write <=> buf[b].dirty)
        /\ command.write => command.data = buf[b].data
    BY <1>2, Zenon DEF BufInv, CommandOK
  <1>7. \A d \in Buf \ {b} : buf[d].blockno # command.blockno
    BY <1>5, <1>6, BufCacheAssumption, Zenon DEF BufInv, Distinct
  <1> QED
    BY <1>1, <1>2, <1>3, <1>4, <1>5, <1>6, <1>7, Zenon

\* iderw() never panics with "iderw: nothing to do": it queues the buffer.
LEMMA IderwInv ==
    ASSUME BufInv, NEW p \in Proc, iderw(p)
    PROVE  BufInv' /\ UNCHANGED panicked
  <1>1. pc[p] = "iderw" /\ pc[p] \in Has
    BY Zenon DEF iderw, at, Has
  <1>2. PICK b \in Buf : b = my[p] /\ buf[b].lock = p /\ ProcOK(p) /\ BufOK(b)
    BY <1>1, OneHas, Zenon
  <1>3. ~Done(b)
    BY <1>1, <1>2, Zenon DEF ProcOK
  <1>4. /\ idequeue' = Append(idequeue, b)
        /\ IF idequeue = <<>> THEN idestart(b) ELSE UNCHANGED command
        /\ pc' = [pc EXCEPT ![p] = "asleep"]
        /\ UNCHANGED <<buf, lru, disk, my, panicked>>
    BY <1>2, <1>3, Zenon DEF iderw, Done, goto
  <1>5. /\ idequeue \in Seq(Buf) /\ idequeue' \in Seq(Buf) /\ Len(idequeue') = Len(idequeue) + 1
        /\ (\A i \in 1..Len(idequeue) : idequeue'[i] = idequeue[i] /\ idequeue[i] # b)
        /\ idequeue'[Len(idequeue) + 1] = b /\ idequeue' # <<>>
    <2>1. \A i \in 1..Len(idequeue) : idequeue[i] # b
      BY <1>1, <1>2, Queued, Zenon
    <2> QED
      BY <1>4, <2>1, Types
  <1>6. /\ pc' \in [Proc -> PCs] /\ pc'[p] = "asleep"
        /\ (\A q \in Proc \ {p} : pc'[q] = pc[q])
    BY <1>4, Types, Zenon DEF PCs
  <1>7. command' \in CommandRec
    <2>1. CASE idequeue = <<>>
      <3>1. command' = [at |-> "busy", write |-> buf[b].dirty, blockno |-> buf[b].blockno,
                        data |-> buf[b].data, ok |-> TRUE]
        BY <1>4, <2>1, Zenon DEF idestart
      <3>2. /\ buf[b].dirty \in BOOLEAN /\ buf[b].blockno \in Block \cup {NoBlock}
            /\ buf[b].data \in Value /\ TRUE \in BOOLEAN
            /\ "busy" \in {"idle", "busy", "irq"}
        BY Fields, Zenon
      <3> QED
        BY <3>1, <3>2, Zenon DEF CommandRec
    <2>2. CASE idequeue # <<>>
      BY <1>4, <2>2, Types, Zenon
    <2> QED
      BY <2>1, <2>2, Zenon
  <1>8. TypeOK'
    BY <1>4, <1>5, <1>6, <1>7, TypeNext, Zenon
  <1>9. ASSUME NEW q \in Proc PROVE ProcOK(q)'
    <2>1. CASE q = p
      BY <1>1, <1>2, <1>4, <1>6, <2>1, Zenon DEF ProcOK, Has
    <2>2. CASE q # p
      <3>1. ProcOK(q) /\ pc'[q] = pc[q] /\ my' = my /\ buf' = buf
        BY <1>4, <1>6, <2>2, Zenon DEF BufInv
      <3> QED
        BY <3>1, Zenon DEF ProcOK, Done
    <2> QED
      BY <2>1, <2>2, Zenon
  <1>10. ASSUME NEW d \in Buf PROVE BufOK(d)'
    <2>1. BufOK(d) /\ buf' = buf /\ my' = my
      BY <1>4, Zenon DEF BufInv
    <2>2. buf[d].lock # NoProc => pc'[buf[d].lock] \in Has
      BY <1>6, <2>1, Fields, Zenon DEF BufOK, Has
    <2>3. Users(d)' = Users(d)
      BY <2>1, Zenon DEF Users
    <2> QED
      BY <2>1, <2>2, <2>3, Zenon DEF BufOK
  <1>11. Distinct'
    BY <1>4, Zenon DEF BufInv, Distinct
  <1>12. QueueOK'
    <2>1. ASSUME NEW i \in 1..Len(idequeue')
          PROVE  /\ ~(buf'[idequeue'[i]].valid /\ ~buf'[idequeue'[i]].dirty) /\ buf'[idequeue'[i]].lock \in Proc
                 /\ pc'[buf'[idequeue'[i]].lock] \in {"asleep", "awake"}
      <3>1. CASE i = Len(idequeue) + 1
        BY <1>2, <1>3, <1>4, <1>5, <1>6, <3>1 DEF Done
      <3>2. CASE i \in 1..Len(idequeue)
        <4>1. /\ ~Done(idequeue[i]) /\ buf[idequeue[i]].lock \in Proc
              /\ pc[buf[idequeue[i]].lock] \in {"asleep", "awake"}
          BY <3>2, Zenon DEF BufInv, QueueOK
        <4>2. pc'[buf[idequeue[i]].lock] \in {"asleep", "awake"}
          BY <1>6, <4>1, Zenon
        <4> QED
          BY <1>4, <1>5, <3>2, <4>1, <4>2, Zenon DEF Done
      <3> QED
        BY <1>5, <3>1, <3>2
    <2>2. ASSUME NEW i \in 1..Len(idequeue'), NEW j \in 1..Len(idequeue'),
                 idequeue'[i] = idequeue'[j]
          PROVE  i = j
      BY <1>5, <2>2 DEF BufInv, QueueOK
    <2> QED
      BY <2>1, <2>2, Zenon DEF QueueOK, Done
  <1>13. CommandOK' /\ DiskOK'
    <2>1. CASE idequeue = <<>>
      <3>1. /\ command' = [at |-> "busy", write |-> buf[b].dirty,
                           blockno |-> buf[b].blockno, data |-> buf[b].data, ok |-> TRUE]
            /\ idequeue'[1] = b
        BY <1>4, <1>5, <2>1 DEF idestart
      <3>2. /\ command'.at = "busy" /\ command'.blockno = buf[b].blockno
            /\ command'.data = buf[b].data
        BY <3>1, Zenon
      <3>3. command'.write <=> buf[b].dirty
        BY <3>1, Zenon
      <3>4. CommandOK'
        BY <1>4, <1>5, <3>1, <3>2, <3>3, Zenon DEF CommandOK
      <3>5. DiskOK'
        BY <1>4, <3>2, Zenon DEF BufInv, DiskOK, Done
      <3> QED
        BY <3>4, <3>5, Zenon
    <2>2. CASE idequeue # <<>>
      <3>1. command' = command /\ idequeue'[1] = idequeue[1] /\ buf' = buf /\ disk' = disk
        BY <1>4, <1>5, <2>2, FirstRequest, Zenon
      <3>2. CommandOK'
        BY <1>5, <2>2, <3>1, Zenon DEF BufInv, CommandOK
      <3>3. DiskOK'
        BY <3>1, Zenon DEF BufInv, DiskOK, Done
      <3> QED
        BY <3>2, <3>3
    <2> QED
      BY <2>1, <2>2, Zenon
  <1> QED
    BY <1>4, <1>8, <1>9, <1>10, <1>11, <1>12, <1>13, Zenon DEF BufInv

\* The controller ends its command: it writes or reads the block of the first
\* request, which no valid and clean buffer has.
LEMMA ControllerInv ==
    ASSUME BufInv, controller
    PROVE  BufInv'
  <1>1. PICK ok \in Outcome :
            /\ command' = [command EXCEPT !.at = "irq", !.ok = ok,
                              !.data = IF ok /\ ~command.write
                                       THEN disk[command.blockno] ELSE @]
            /\ disk' = IF command.write /\ ok
                       THEN [disk EXCEPT ![command.blockno] = command.data]
                       ELSE disk
    BY Zenon DEF controller
  <1>2. UNCHANGED <<buf, lru, idequeue, pc, my, panicked>> /\ command.at = "busy"
    BY Zenon DEF controller
  <1>3. idequeue # <<>> /\ command.blockno \in Block
    BY <1>2, FirstRequest, Zenon DEF BufInv, CommandOK
  <1>4. /\ command \in CommandRec /\ disk \in [Block -> Value] /\ command.data \in Value
        /\ command.write \in BOOLEAN
    BY Types, Zenon DEF CommandRec
  <1>5. ok \in BOOLEAN /\ (Outcome = {TRUE} => ok)
    BY BufCacheAssumption, Zenon
  <1> DEFINE v == IF ok /\ ~command.write THEN disk[command.blockno] ELSE command.data
  <1>6. v \in Value /\ (command.write => v = command.data)
    BY <1>3, <1>4, Zenon
  <1>7. v = disk[command.blockno] \/ ~(ok /\ ~command.write)
    OBVIOUS
  <1>8. command' = [command EXCEPT !.at = "irq", !.ok = ok, !.data = v]
    BY <1>1, Zenon
  <1> HIDE DEF v
  <1>9. /\ command'.at = "irq" /\ command'.blockno = command.blockno /\ command'.data = v
        /\ command' \in CommandRec
    BY <1>4, <1>5, <1>6, <1>8, Zenon DEF CommandRec
  <1>10. (command'.write <=> command.write) /\ (command'.ok <=> ok)
    BY <1>4, <1>8, Zenon DEF CommandRec
  <1>11. disk' \in [Block -> Value] /\ \A k \in Block \ {command.blockno} : disk'[k] = disk[k]
    <2>1. [disk EXCEPT ![command.blockno] = command.data] \in [Block -> Value]
      BY <1>4, Zenon
    <2> QED
      BY <1>1, <1>4, <2>1, Zenon
  <1>12. ok => disk'[command.blockno] = v
    <2>1. CASE ok /\ command.write
      BY <1>1, <1>3, <1>4, <1>6, <2>1, Zenon
    <2>2. CASE ok /\ ~command.write
      BY <1>1, <1>7, <2>2, Zenon
    <2> QED
      BY <2>1, <2>2, Zenon
  <1>13. TypeOK'
    BY <1>2, <1>9, <1>11, TypeNext, Zenon
  <1>14. \A p \in Proc : ProcOK(p)'
    BY <1>2, Zenon DEF BufInv, ProcOK, Done
  <1>15. \A b \in Buf : BufOK(b)'
    <2>1. \A b \in Buf : Users(b)' = Users(b)
      BY <1>2, Zenon DEF Users
    <2> QED
      BY <1>2, <2>1, Zenon DEF BufInv, BufOK
  <1>16. Distinct' /\ QueueOK'
    BY <1>2, Zenon DEF BufInv, Distinct, QueueOK, Done
  <1>17. CommandOK'
    BY <1>2, <1>3, <1>6, <1>9, <1>10, FirstRequest, Zenon DEF CommandOK
  <1>18. DiskOK'
    <2> SUFFICES ASSUME Outcome = {TRUE}
                 PROVE  /\ \A b \in Buf : Done(b) => disk'[buf[b].blockno] = buf[b].data
                        /\ command'.ok /\ disk'[command'.blockno] = command'.data
      BY <1>2, Zenon DEF DiskOK, Done
    <2>1. command'.ok /\ disk'[command'.blockno] = command'.data
      BY <1>5, <1>9, <1>10, <1>12, Zenon
    <2>2. ASSUME NEW b \in Buf, Done(b) PROVE disk'[buf[b].blockno] = buf[b].data
      <3>1. disk[buf[b].blockno] = buf[b].data
        BY <2>2, Zenon DEF BufInv, DiskOK
      <3>2. buf[b].blockno \in Block /\ buf[b].blockno # command.blockno
        BY <1>3, <2>2, FirstRequest, Zenon DEF BufInv, BufOK, Done
      <3> QED
        BY <1>11, <3>1, <3>2, Zenon
    <2> QED
      BY <2>1, <2>2, Zenon
  <1> QED
    BY <1>13, <1>14, <1>15, <1>16, <1>17, <1>18, Zenon DEF BufInv

\* ideintr() gives the first request its data and starts the next one.
LEMMA IdeintrInv ==
    ASSUME BufInv, ideintr
    PROVE  BufInv'
  <1>1. idequeue # <<>> /\ command.at = "irq"
    BY Zenon DEF ideintr
  <1>2. PICK b \in Buf : b = idequeue[1]
    BY <1>1, FirstRequest, Zenon
  <1>3. /\ idequeue' = Tail(idequeue) /\ buf' = [buf EXCEPT ![b] = Synced(b)]
        /\ pc' = [p \in Proc |-> IF pc[p] = "asleep" /\ my[p] = b THEN "awake" ELSE pc[p]]
        /\ IF Tail(idequeue) # <<>> THEN idestart(idequeue[2]) ELSE command' = NoCommand
        /\ UNCHANGED <<lru, disk, my, panicked>>
    <2>1. Head(idequeue) = b
      BY <1>1, <1>2, Types
    <2> QED
      BY <2>1, Zenon DEF ideintr
  <1>4. PICK r \in BufRec : /\ r = Synced(b) /\ r.blockno = buf[b].blockno /\ r.lock = buf[b].lock
                            /\ r.refcnt = buf[b].refcnt /\ r.valid /\ ~r.dirty
                            /\ r.data = IF ~buf[b].dirty /\ command.ok THEN command.data
                                        ELSE buf[b].data
    <2> DEFINE v == IF ~buf[b].dirty /\ command.ok THEN command.data ELSE buf[b].data
               r == [buf[b] EXCEPT !.valid = TRUE, !.dirty = FALSE, !.data = v]
    <2>1. v \in Value
      BY Types, Fields, Zenon DEF CommandRec
    <2>2. r = Synced(b)
      BY Zenon DEF Synced
    <2> HIDE DEF v
    <2>3. r \in BufRec /\ r.blockno = buf[b].blockno /\ r.lock = buf[b].lock
      BY <2>1, Fields, Zenon DEF BufRec
    <2>4. r.refcnt = buf[b].refcnt /\ r.data = v
      BY Fields, Zenon DEF BufRec
    <2>5. r.valid /\ ~r.dirty
      BY Fields, Zenon DEF BufRec
    <2> HIDE DEF r
    <2> QED
      BY <2>2, <2>3, <2>4, <2>5, Zenon DEF v
  <1>5. /\ buf' \in [Buf -> BufRec] /\ buf'[b] = r /\ \A d \in Buf \ {b} : buf'[d] = buf[d]
    BY <1>3, <1>4, Types, Zenon
  <1>6. \A d \in Buf : buf'[d].lock = buf[d].lock /\ buf'[d].blockno = buf[d].blockno
                       /\ buf'[d].refcnt = buf[d].refcnt
    BY <1>4, <1>5, Zenon
  <1>7. /\ pc' \in [Proc -> PCs]
        /\ \A p \in Proc : pc'[p] = pc[p] \/ (pc[p] = "asleep" /\ pc'[p] = "awake")
    BY <1>3, Types, Zenon DEF PCs
  <1>8. /\ idequeue \in Seq(Buf) /\ idequeue' \in Seq(Buf) /\ Len(idequeue) \in Nat \ {0}
        /\ Len(idequeue') = Len(idequeue) - 1
        /\ \A i \in 1..Len(idequeue') :
               i + 1 \in 1..Len(idequeue) /\ idequeue'[i] = idequeue[i + 1]
    BY <1>1, <1>3, Types
  <1>9. \A i \in 1..Len(idequeue') : idequeue'[i] \in Buf \ {b}
    <2>1. ASSUME NEW i \in 1..Len(idequeue') PROVE idequeue'[i] \in Buf \ {b}
      <3>1. 1 \in 1..Len(idequeue) /\ i + 1 \in 1..Len(idequeue) /\ i + 1 # 1
        BY <1>8
      <3>2. idequeue[i + 1] # idequeue[1]
        BY <3>1, Zenon DEF BufInv, QueueOK
      <3> QED
        BY <1>2, <1>8, <3>2
    <2> QED
      BY <2>1, Zenon
  <1>10. ASSUME NEW p \in Proc PROVE ProcOK(p)'
    <2>1. ProcOK(p) /\ my' = my
      BY <1>3, Zenon DEF BufInv
    <2>2. pc[p] # "out" => my[p] \in Buf
      BY <2>1, Types, Zenon DEF ProcOK
    <2>3. CASE my[p] = b
      <3>1. pc[p] # "iderw"
        BY <1>1, <1>2, <2>1, <2>3, FirstRequest, Zenon DEF ProcOK, Has
      <3> QED
        BY <1>4, <1>5, <1>7, <2>1, <2>2, <2>3, <3>1, Zenon DEF ProcOK, Has
    <2>4. CASE my[p] # b
      <3>1. pc[p] # "out" => buf'[my[p]] = buf[my[p]]
        BY <1>5, <2>2, <2>4, Zenon
      <3> QED
        BY <1>7, <2>1, <3>1, Zenon DEF ProcOK, Has, Done
    <2> QED
      BY <2>3, <2>4, Zenon
  <1>11. ASSUME NEW d \in Buf PROVE BufOK(d)'
    <2>1. BufOK(d) /\ my' = my
      BY <1>3, Zenon DEF BufInv
    <2>2. Users(d)' = Users(d)
      BY <2>1, Zenon DEF Users
    <2>3. buf[d].lock # NoProc => pc'[buf[d].lock] \in Has
      BY <1>7, <2>1, Fields, Zenon DEF BufOK, Has
    <2>4. (buf'[d].dirty => buf'[d].valid) /\ (buf'[d].valid => buf'[d].blockno \in Block)
      BY <1>1, <1>2, <1>4, <1>5, <2>1, FirstRequest DEF BufOK
    <2> QED
      BY <1>6, <2>1, <2>2, <2>3, <2>4, Zenon DEF BufOK
  <1>12. Distinct'
    BY <1>6 DEF BufInv, Distinct
  <1>13. QueueOK'
    <2>1. ASSUME NEW i \in 1..Len(idequeue')
          PROVE  /\ ~(buf'[idequeue'[i]].valid /\ ~buf'[idequeue'[i]].dirty)
                 /\ buf'[idequeue'[i]].lock \in Proc
                 /\ pc'[buf'[idequeue'[i]].lock] \in {"asleep", "awake"}
      <3>1. /\ ~Done(idequeue[i + 1]) /\ buf[idequeue[i + 1]].lock \in Proc
            /\ pc[buf[idequeue[i + 1]].lock] \in {"asleep", "awake"}
        BY <1>8, Zenon DEF BufInv, QueueOK
      <3>2. buf'[idequeue'[i]] = buf[idequeue[i + 1]]
        BY <1>5, <1>8, <1>9, Zenon
      <3> QED
        BY <1>7, <3>1, <3>2, Zenon DEF Done
    <2>2. ASSUME NEW i \in 1..Len(idequeue'), NEW j \in 1..Len(idequeue'),
                 idequeue'[i] = idequeue'[j]
          PROVE  i = j
      <3>1. i + 1 = j + 1
        BY <1>8, <2>2 DEF BufInv, QueueOK
      <3> QED
        BY <1>8, <3>1
    <2> QED
      BY <2>1, <2>2, Zenon DEF QueueOK, Done
  <1>14. command' \in CommandRec /\ command'.at # "irq" /\ CommandOK'
    <2>1. CASE Tail(idequeue) # <<>>
      <3>1. idequeue' # <<>> /\ 1 \in 1..Len(idequeue') /\ 1 + 1 = 2
        BY <1>3, <1>8, <2>1
      <3>2. PICK d \in Buf \ {b} : d = idequeue'[1] /\ d = idequeue[2]
        BY <1>8, <1>9, <3>1, Zenon
      <3>3. command' = [at |-> "busy", write |-> buf[d].dirty, blockno |-> buf[d].blockno,
                        data |-> buf[d].data, ok |-> TRUE]
        BY <1>3, <2>1, <3>2, Zenon DEF idestart
      <3>4. /\ buf[d].dirty \in BOOLEAN /\ buf[d].blockno \in Block \cup {NoBlock}
            /\ buf[d].data \in Value /\ TRUE \in BOOLEAN
            /\ "busy" \in {"idle", "busy", "irq"}
        BY Fields, Zenon
      <3>5. command' \in CommandRec
        BY <3>3, <3>4, Zenon DEF CommandRec
      <3>6. /\ command'.at = "busy" /\ command'.blockno = buf[d].blockno
            /\ command'.data = buf[d].data
        BY <3>3, Zenon
      <3>7. command'.write <=> buf[d].dirty
        BY <3>3, Zenon
      <3>8. buf'[d] = buf[d]
        BY <1>5, Zenon
      <3> QED
        BY <3>1, <3>2, <3>5, <3>6, <3>7, <3>8, Zenon DEF CommandOK
    <2>2. CASE Tail(idequeue) = <<>>
      <3>1. command' = NoCommand /\ idequeue' = <<>>
        BY <1>3, <2>2, Zenon
      <3>2. NoCommand.at = "idle"
        BY Zenon DEF NoCommand
      <3>3. zero \in Value
        BY BufCacheAssumption, Zenon DEF zero
      <3>4. NoCommand \in CommandRec
        BY <3>3, Zenon DEF NoCommand, CommandRec
      <3> QED
        BY <3>1, <3>2, <3>4, Zenon DEF CommandOK
    <2> QED
      BY <2>1, <2>2, Zenon
  <1>15. TypeOK'
    BY <1>3, <1>5, <1>7, <1>8, <1>14, TypeNext, Zenon
  <1>16. DiskOK'
    <2> SUFFICES ASSUME Outcome = {TRUE}, NEW d \in Buf, buf'[d].valid /\ ~buf'[d].dirty
                 PROVE  disk[buf'[d].blockno] = buf'[d].data
      BY <1>3, <1>14, Zenon DEF DiskOK, Done
    <2>1. CASE d = b
      <3>1. command.ok /\ disk[buf[b].blockno] = command.data
        BY <1>1, <1>2, FirstRequest, Zenon DEF BufInv, DiskOK
      <3>2. buf[b].dirty => command.data = buf[b].data
        BY <1>1, <1>2, FirstRequest, Zenon
      <3> QED
        BY <1>4, <1>5, <2>1, <3>1, <3>2, Zenon
    <2>2. CASE d # b
      <3>1. buf'[d] = buf[d]
        BY <1>5, <2>2, Zenon
      <3> QED
        BY <3>1, Zenon DEF BufInv, DiskOK, Done
    <2> QED
      BY <2>1, <2>2, Zenon
  <1> QED
    BY <1>10, <1>11, <1>12, <1>13, <1>14, <1>15, <1>16, Zenon DEF BufInv
-----------------------------------------------------------------------------
(* The invariant holds *)

\* binit() links every buffer once.
LEMMA AllListed == IsList(Linked)
  <1> DEFINE n == Cardinality(Buf)
             s == Linked
  <1>1. n \in Nat /\ ExistsBijection(1..n, Buf)
    BY FS_CardinalityType, BufCacheAssumption, Zenon
  <1>2. \E f \in [1..n -> Buf] : \A i, j \in DOMAIN f : f[i] = f[j] => i = j
    BY <1>1, Zenon DEF ExistsBijection, Bijection, Injection, IsInjective
  <1>3. s \in [1..n -> Buf] /\ \A i, j \in DOMAIN s : s[i] = s[j] => i = j
    BY <1>2, Zenon DEF Linked
  <1> HIDE DEF s
  <1>4. s \in Injection(1..n, Buf)
    BY <1>3, Zenon DEF Injection, IsInjective
  <1>5. Cardinality(1..n) = n
    <2>1. 1 \in Int /\ n \in Int
      BY <1>1
    <2>2. Cardinality(1..n) = IF 1 > n THEN 0 ELSE n - 1 + 1
      BY <2>1, FS_Interval, Zenon
    <2> HIDE DEF n
    <2> QED
      BY <1>1, <2>2
  <1>6. s \in Surjection(1..n, Buf)
    BY <1>4, <1>5, FS_Injection, BufCacheAssumption, Zenon
  <1> HIDE DEF n
  <1>7. s \in Seq(Buf) /\ Len(s) = n /\ DOMAIN s = 1..n
    BY <1>1, <1>3
  <1>8. {s[i] : i \in DOMAIN s} = Buf
    BY <1>3, <1>6, <1>7 DEF Surjection
  <1> QED
    BY <1>7, <1>8, Zenon DEF IsList, s, n

\* The buffers after binit() satisfy it.
LEMMA BufInit == Init => BufInv
  <1> SUFFICES ASSUME Init PROVE BufInv
    OBVIOUS
  <1>1. zero \in Value
    BY BufCacheAssumption, Zenon DEF zero
  <1>2. \A b \in Buf : buf[b] = [blockno |-> NoBlock, valid |-> FALSE, dirty |-> FALSE,
                                 refcnt |-> 0, data |-> zero, lock |-> NoProc]
    BY Zenon DEF Init
  <1>3. buf \in [Buf -> BufRec]
    BY <1>1, Zenon DEF Init, BufRec
  <1>4. command \in CommandRec
    BY <1>1, Zenon DEF Init, NoCommand, CommandRec
  <1>5. TypeOK
    <2>1. IsList(lru)
      BY AllListed, Zenon DEF Init
    <2>2. idequeue \in Seq(Buf) /\ panicked \in BOOLEAN
      <3>1. <<>> \in Seq(Buf)
        OBVIOUS
      <3> QED
        BY <3>1, Zenon DEF Init
    <2>3. pc \in [Proc -> PCs] /\ my \in [Proc -> Buf \cup {NoBuf}] /\ disk \in [Block -> Value]
      BY Zenon DEF Init, PCs
    <2> QED
      BY <1>3, <1>4, <2>1, <2>2, <2>3, Zenon DEF TypeOK, BufRec, CommandRec, IsList
  <1>6. \A p \in Proc : ProcOK(p)
    BY Zenon DEF Init, ProcOK, Has
  <1>7. ASSUME NEW b \in Buf PROVE BufOK(b)
    <2>1. Users(b) = {}
      BY BufCacheAssumption, Zenon DEF Init, Users
    <2>2. Cardinality(Users(b)) = 0
      BY <2>1, FS_EmptySet, Zenon
    <2> QED
      BY <1>2, <2>2 DEF BufOK
  <1>8. Distinct
    BY <1>2 DEF Distinct
  <1>9. QueueOK /\ CommandOK
    BY DEF Init, NoCommand, QueueOK, CommandOK
  <1>10. DiskOK
    BY <1>2, Zenon DEF Init, NoCommand, DiskOK, Done
  <1> QED
    BY <1>5, <1>6, <1>7, <1>8, <1>9, <1>10, Zenon DEF BufInv

\* A step that leaves everything but panicked preserves it.
LEMMA SameInv ==
    ASSUME BufInv, UNCHANGED <<buf, lru, idequeue, command, disk, pc, my>>,
           panicked' \in BOOLEAN
    PROVE  BufInv'
  <1>1. TypeOK'
    BY TypeNext, Zenon
  <1>2. (\A p \in Proc : ProcOK(p)') /\ Distinct'
    BY Zenon DEF BufInv, ProcOK, Done, Distinct
  <1>3. \A b \in Buf : BufOK(b)'
    <2>1. \A b \in Buf : Users(b)' = Users(b)
      BY Zenon DEF Users
    <2> QED
      BY <2>1, Zenon DEF BufInv, BufOK
  <1>4. QueueOK' /\ CommandOK' /\ DiskOK'
    BY Zenon DEF BufInv, QueueOK, CommandOK, DiskOK, Done
  <1> QED
    BY <1>1, <1>2, <1>3, <1>4, Zenon DEF BufInv

\* Every step preserves it.
LEMMA BufNext == BufInv /\ [Next]_vars => BufInv'
  <1> SUFFICES ASSUME BufInv, [Next]_vars PROVE BufInv'
    OBVIOUS
  <1>1. ASSUME NEW p \in Proc, NEW k \in Block,
               bget_cached(p, k) \/ bget_recycle(p, k) \/ bget_panic(p, k)
        PROVE  BufInv'
    <2>1. CASE bget_cached(p, k)
      BY <2>1, BgetCachedInv, Zenon
    <2>2. CASE bget_recycle(p, k)
      BY <2>2, BgetRecycleInv, Zenon
    <2>3. CASE bget_panic(p, k)
      BY <2>3, SameInv, Zenon DEF bget_panic
    <2> QED
      BY <1>1, <2>1, <2>2, <2>3, Zenon
  <1>2. ASSUME NEW p \in Proc, Call(p) \/ log_write(p) \/ bwrite(p) \/ brelse(p) \/ kill(p)
        PROVE  BufInv'
    <2>1. CASE acquiresleep(p)
      BY <2>1, AcquiresleepInv, Zenon
    <2>2. CASE bread(p) \/ kill(p) \/ iderw_while(p)
      BY <2>2, MoveStepsInv, Zenon
    <2>3. CASE iderw(p)
      BY <2>3, IderwInv, Zenon
    <2>4. CASE brelse_unref(p)
      BY <2>4, BrelseUnrefInv
    <2>5. CASE log_write(p) \/ bwrite(p)
      BY <2>5, ChangeInv, Zenon
    <2>6. CASE brelse(p)
      BY <2>6, BrelseInv
    <2> QED
      BY <1>2, <2>1, <2>2, <2>3, <2>4, <2>5, <2>6, Zenon DEF Call
  <1>3. CASE controller
    BY <1>3, ControllerInv, Zenon
  <1>4. CASE ideintr
    BY <1>4, IdeintrInv, Zenon
  <1>5. CASE UNCHANGED vars
    <2>1. UNCHANGED <<buf, lru, idequeue, command, disk, pc, my>> /\ panicked' \in BOOLEAN
      BY <1>5, Types, Zenon DEF vars
    <2> QED
      BY <2>1, SameInv, Zenon
  <1> QED
    BY <1>1, <1>2, <1>3, <1>4, <1>5, Zenon DEF Next, ideintr_empty, halted

\* For any number of processes, buffers and blocks, and with or without disk
\* errors: the users of a buffer are counted, its lock has one holder, a block
\* has one buffer, and the queue of ide.c has the buffers whose holders wait.
THEOREM BufInvHolds == Spec => []BufInv
  <1>1. Init => BufInv
    BY BufInit, Zenon
  <1>2. BufInv /\ [Next]_vars => BufInv'
    BY BufNext, Zenon
  <1> QED
    BY <1>1, <1>2, PTL DEF Spec

\* The invariant gives the property that the run checks.
LEMMA BufImplies == Outcome = {TRUE} /\ BufInv => CacheExact
  <1> SUFFICES ASSUME Outcome = {TRUE}, BufInv PROVE CacheExact
    OBVIOUS
  <1>1. ASSUME NEW k \in Block PROVE Cardinality(Cached(k)) <= 1
    <2>1. CASE Cached(k) = {}
      BY <2>1, FS_EmptySet
    <2>2. CASE Cached(k) # {}
      <3>1. PICK b \in Buf : b \in Cached(k)
        BY <2>2, Zenon DEF Cached
      <3>2. Cached(k) = {b}
        BY <3>1, BufCacheAssumption, Zenon DEF Cached, BufInv, Distinct
      <3> QED
        BY <3>2, FS_Singleton
    <2> QED
      BY <2>1, <2>2, Zenon
  <1>2. \A b \in Buf : /\ buf[b].refcnt = Cardinality({p \in Proc : my[p] = b})
                       /\ buf[b].valid /\ ~buf[b].dirty => disk[buf[b].blockno] = buf[b].data
    BY Zenon DEF BufInv, BufOK, Users, DiskOK, Done
  <1> QED
    BY <1>1, <1>2, Zenon DEF CacheExact, BufInv

\* A block has at most one buffer, refcnt counts its users, and a valid and
\* clean buffer has what the disk has, when no command of the disk fails.
THEOREM CacheIsExact == ASSUME Outcome = {TRUE} PROVE Spec => []CacheExact
  <1>1. BufInv => CacheExact
    BY BufImplies, Zenon
  <1> QED
    BY <1>1, BufInvHolds, PTL

\* Whatever the disk does, iderw() never panics with "nothing to do": its
\* callers bread() and bwrite() pass a buffer that is not valid or is dirty,
\* and nobody reads or writes it before they have queued it.
THEOREM IderwHasWork == Spec => [][\A p \in Proc : iderw(p) => UNCHANGED panicked]_vars
  <1>1. BufInv /\ [Next]_vars => [\A p \in Proc : iderw(p) => UNCHANGED panicked]_vars
    BY IderwInv, Zenon
  <1> QED
    BY <1>1, BufInvHolds, PTL DEF Spec
-----------------------------------------------------------------------------
(* bwrite() *)

\* Only the loop of iderw() takes a process from its sleep back to the caller.
LEMMA OnlyWhile ==
    ASSUME BufInv, [Next]_vars, NEW p \in Proc, pc[p] = "awake", pc'[p] = "in"
    PROVE  iderw_while(p)
  <1>1. ASSUME NEW q \in Proc, NEW k \in Block,
               bget_cached(q, k) \/ bget_recycle(q, k) \/ bget_panic(q, k)
        PROVE  iderw_while(p)
    BY <1>1, Types, Zenon DEF bget_cached, bget_recycle, bget_panic, at, goto
  <1>2. ASSUME NEW q \in Proc,
               acquiresleep(q) \/ brelse_unref(q) \/ log_write(q) \/ bwrite(q) \/ brelse(q)
        PROVE  iderw_while(p)
    BY <1>2, Types, Zenon DEF acquiresleep, brelse_unref, log_write, bwrite, brelse, at, goto
  <1>3. ASSUME NEW q \in Proc, bread(q) \/ kill(q) PROVE iderw_while(p)
    BY <1>3, Types, Zenon DEF bread, kill, at, goto
  <1>4. ASSUME NEW q \in Proc, iderw(q) PROVE iderw_while(p)
    BY <1>4, Types, Zenon DEF iderw, at, goto
  <1>5. ASSUME NEW q \in Proc, iderw_while(q) PROVE iderw_while(p)
    BY <1>5, Types, Zenon DEF iderw_while, at, goto
  <1>6. CASE ideintr
    BY <1>6, Zenon DEF ideintr
  <1>7. CASE controller \/ UNCHANGED vars
    BY <1>7, Zenon DEF controller, vars
  <1> QED
    BY <1>1, <1>2, <1>3, <1>4, <1>5, <1>6, <1>7, Zenon DEF Next, Call, ideintr_empty, halted

\* When bread() or bwrite() returns from iderw(), the disk has the data of the
\* buffer, whatever woke the process before.
THEOREM WritesReachDisk == ASSUME Outcome = {TRUE} PROVE Spec => BwriteWrites
  <1>1. ASSUME BufInv, [Next]_vars, NEW p \in Proc, pc[p] = "awake" /\ pc'[p] = "in"
        PROVE  disk'[buf[my[p]].blockno] = buf[my[p]].data
    <2>1. iderw_while(p)
      BY <1>1, OnlyWhile, Zenon
    <2>2. pc' = [pc EXCEPT ![p] = IF Done(my[p]) THEN "in" ELSE "asleep"] /\ disk' = disk
      BY <2>1, Zenon DEF iderw_while, goto, Done
    <2>3. Done(my[p])
      <3>1. pc'[p] = IF Done(my[p]) THEN "in" ELSE "asleep"
        BY <1>1, <2>2, Types, Zenon
      <3> QED
        BY <1>1, <3>1, Zenon
    <2>4. my[p] \in Buf
      BY <1>1, OneHas, Zenon DEF Has
    <2> QED
      BY <1>1, <2>2, <2>3, <2>4, Zenon DEF BufInv, DiskOK
  <1>2. BufInv /\ [Next]_vars =>
            [\A p \in Proc : pc[p] = "awake" /\ pc'[p] = "in" =>
                 disk'[buf[my[p]].blockno] = buf[my[p]].data]_vars
    BY <1>1, Zenon
  <1> QED
    BY <1>2, BufInvHolds, PTL DEF Spec, BwriteWrites
-----------------------------------------------------------------------------
(* The refinement *)

\* What the abstract store shows of a block: its valid buffer, or the disk.
ViewOK ==
    \A k \in Block :
        /\ \A b \in Buf : buf[b].valid /\ buf[b].blockno = k =>
               Contents[k] = buf[b].data /\ Holders[k] = buf[b].lock
        /\ (\A b \in Buf : ~(buf[b].valid /\ buf[b].blockno = k)) =>
               Contents[k] = disk[k] /\ Holders[k] = NoProc

\* The refinement mapping shows that.
LEMMA View == BufInv => ViewOK
  <1> SUFFICES ASSUME BufInv, NEW k \in Block
               PROVE  /\ \A b \in Buf : buf[b].valid /\ buf[b].blockno = k =>
                             Contents[k] = buf[b].data /\ Holders[k] = buf[b].lock
                      /\ (\A b \in Buf : ~(buf[b].valid /\ buf[b].blockno = k)) =>
                             Contents[k] = disk[k] /\ Holders[k] = NoProc
    BY Zenon DEF ViewOK
  <1>1. ASSUME NEW b \in Buf, buf[b].valid /\ buf[b].blockno = k
        PROVE  Contents[k] = buf[b].data /\ Holders[k] = buf[b].lock
    <2>1. Valid(k) = {b}
      BY <1>1, BufCacheAssumption, Zenon DEF Valid, Cached, BufInv, Distinct
    <2>2. (CHOOSE d \in Valid(k) : TRUE) = b /\ Valid(k) # {}
      BY <2>1, Zenon
    <2> QED
      BY <2>2, Zenon DEF Contents, Holders
  <1>2. ASSUME \A b \in Buf : ~(buf[b].valid /\ buf[b].blockno = k)
        PROVE  Contents[k] = disk[k] /\ Holders[k] = NoProc
    <2>1. Valid(k) = {}
      BY <1>2, Zenon DEF Valid, Cached
    <2> QED
      BY <2>1, Zenon DEF Contents, Holders
  <1> QED
    BY <1>1, <1>2, Zenon

\* The same, after a step.
LEMMA ViewNext == BufInv' => ViewOK'
  BY View, PTL

SameView(k) == Contents'[k] = Contents[k] /\ Holders'[k] = Holders[k]

\* A step that changes no buffer of a block, and not the block, keeps its view.
LEMMA OtherBlocks ==
    ASSUME BufInv, BufInv', NEW k \in Block, disk'[k] = disk[k], NEW b \in Buf,
           \A d \in Buf \ {b} : buf'[d] = buf[d],
           buf[b].blockno # k, buf'[b].blockno # k
    PROVE  SameView(k)
  <1>1. ViewOK /\ ViewOK'
    BY View, ViewNext, Zenon
  <1>2. CASE \E d \in Buf : buf[d].valid /\ buf[d].blockno = k
    <2>1. PICK d \in Buf : buf[d].valid /\ buf[d].blockno = k
      BY <1>2, Zenon
    <2>2. buf'[d] = buf[d]
      BY <2>1, Zenon
    <2>3. Contents[k] = buf[d].data /\ Holders[k] = buf[d].lock
      BY <1>1, <2>1 DEF ViewOK
    <2>4. Contents'[k] = buf'[d].data /\ Holders'[k] = buf'[d].lock
      BY <1>1, <2>1, <2>2 DEF ViewOK
    <2> QED
      BY <2>2, <2>3, <2>4, Zenon DEF SameView
  <1>3. CASE \A d \in Buf : ~(buf[d].valid /\ buf[d].blockno = k)
    <2>1. \A d \in Buf : ~(buf'[d].valid /\ buf'[d].blockno = k)
      BY <1>3, Zenon
    <2>2. Contents[k] = disk[k] /\ Holders[k] = NoProc
      BY <1>1, <1>3, Zenon DEF ViewOK
    <2>3. Contents'[k] = disk'[k] /\ Holders'[k] = NoProc
      BY <1>1, <2>1, Zenon DEF ViewOK
    <2> QED
      BY <2>2, <2>3, Zenon DEF SameView
  <1> QED
    BY <1>2, <1>3, Zenon

\* If the views of all blocks stay, the abstract store does not change.
LEMMA Stutters ==
    ASSUME \A k \in Block : SameView(k)
    PROVE  UNCHANGED Abs!svars
  <1>1. /\ Contents = [k \in Block |-> Contents[k]] /\ Contents' = [k \in Block |-> Contents'[k]]
        /\ Holders = [k \in Block |-> Holders[k]] /\ Holders' = [k \in Block |-> Holders'[k]]
    BY DEF Contents, Holders
  <1> QED
    BY <1>1, Zenon DEF SameView, Abs!svars

\* The same when the buffers only change in refcnt.
LEMMA SameStutters ==
    ASSUME BufInv, BufInv', \A b \in Buf : Same(b), UNCHANGED disk
    PROVE  UNCHANGED Abs!svars
  <1> SUFFICES ASSUME NEW k \in Block PROVE SameView(k)
    BY Stutters, Zenon
  <1>1. ViewOK /\ ViewOK'
    BY View, ViewNext, Zenon
  <1>2. CASE \E d \in Buf : buf[d].valid /\ buf[d].blockno = k
    <2>1. PICK d \in Buf : buf[d].valid /\ buf[d].blockno = k
      BY <1>2, Zenon
    <2>2. Contents[k] = buf[d].data /\ Holders[k] = buf[d].lock
      BY <1>1, <2>1 DEF ViewOK
    <2>3. Contents'[k] = buf'[d].data /\ Holders'[k] = buf'[d].lock
      BY <1>1, <2>1 DEF ViewOK, Same
    <2> QED
      BY <2>2, <2>3, Zenon DEF SameView, Same
  <1>3. CASE \A d \in Buf : ~(buf[d].valid /\ buf[d].blockno = k)
    <2>1. \A d \in Buf : ~(buf'[d].valid /\ buf'[d].blockno = k)
      BY <1>3, Zenon DEF Same
    <2>2. Contents[k] = disk[k] /\ Holders[k] = NoProc
      BY <1>1, <1>3, Zenon DEF ViewOK
    <2>3. Contents'[k] = disk'[k] /\ Holders'[k] = NoProc
      BY <1>1, <2>1, Zenon DEF ViewOK
    <2> QED
      BY <2>2, <2>3, Zenon DEF SameView
  <1> QED
    BY <1>2, <1>3, Zenon

\* Recycling: the block that loses its buffer is on the disk as it was there.
LEMMA RecycleStutters ==
    ASSUME Outcome = {TRUE}, BufInv, BufInv', NEW p \in Proc, NEW k \in Block, bget_recycle(p, k)
    PROVE  UNCHANGED Abs!svars
  <1>1. PICK b \in Buf :
            /\ Unused(b)
            /\ buf' = [buf EXCEPT ![b] = [@ EXCEPT !.blockno = k,
                          !.valid = FALSE, !.dirty = FALSE, !.refcnt = 1]]
    <2>1. \A i \in 1..Len(lru) : lru[i] \in Buf
      BY Types DEF IsList
    <2> QED
      BY <2>1, Zenon DEF bget_recycle
  <1>2. disk' = disk /\ \A d \in Buf : buf[d].blockno # k
    BY Zenon DEF bget_recycle, Cached
  <1>3. /\ \A d \in Buf \ {b} : buf'[d] = buf[d]
        /\ ~buf'[b].valid /\ buf'[b].blockno = k
    BY <1>1, Types, Fields, Zenon DEF BufRec
  <1>4. buf[b].lock = NoProc
    <2>1. BufOK(b) /\ IsFiniteSet(Users(b)) /\ buf[b].refcnt = 0
      BY <1>1, FS_Subset, BufCacheAssumption, Zenon DEF Users, BufInv, Unused
    <2>2. Users(b) = {}
      BY <2>1, FS_EmptySet, Zenon DEF BufOK
    <2> QED
      BY <2>1, <2>2, Fields, Zenon DEF BufOK, Users
  <1>5. buf[b].valid => disk[buf[b].blockno] = buf[b].data
    BY <1>1, Zenon DEF BufInv, DiskOK, Done, Unused
  <1>6. ASSUME NEW j \in Block PROVE SameView(j)
    <2>1. ViewOK /\ ViewOK'
      BY View, ViewNext, Zenon
    <2>2. CASE j = k
      <3>1. \A d \in Buf : ~(buf'[d].valid /\ buf'[d].blockno = j)
        BY <1>2, <1>3, <2>2, Zenon
      <3> QED
        BY <1>2, <2>1, <2>2, <3>1 DEF ViewOK, SameView
    <2>3. CASE j # k /\ buf[b].blockno # j
      BY <1>2, <1>3, <2>3, OtherBlocks, Zenon
    <2>4. CASE j # k /\ buf[b].blockno = j
      <3>1. \A d \in Buf \ {b} : buf[d].blockno # j
        BY <2>4, BufCacheAssumption, Zenon DEF BufInv, Distinct
      <3>2. \A d \in Buf : ~(buf'[d].valid /\ buf'[d].blockno = j)
        BY <1>3, <3>1, Zenon
      <3>3. Contents'[j] = disk[j] /\ Holders'[j] = NoProc
        BY <1>2, <2>1, <3>2, Zenon DEF ViewOK
      <3>4. CASE buf[b].valid
        BY <1>4, <1>5, <2>1, <2>4, <3>3, <3>4, Zenon DEF ViewOK, SameView
      <3>5. CASE ~buf[b].valid
        <4>1. \A d \in Buf : ~(buf[d].valid /\ buf[d].blockno = j)
          BY <3>1, <3>5, Zenon
        <4> QED
          BY <2>1, <3>3, <4>1, Zenon DEF ViewOK, SameView
      <3> QED
        BY <3>4, <3>5, Zenon
    <2> QED
      BY <2>2, <2>3, <2>4, Zenon
  <1> QED
    BY <1>6, Stutters, Zenon

\* A change of the view of one block only.
LEMMA OneView ==
    ASSUME NEW k \in Block, \A j \in Block \ {k} : SameView(j)
    PROVE  /\ Contents' = [Contents EXCEPT ![k] = Contents'[k]]
           /\ Holders' = [Holders EXCEPT ![k] = Holders'[k]]
           /\ Contents'[k] = Contents[k] => UNCHANGED Contents
           /\ Holders'[k] = Holders[k] => UNCHANGED Holders
  <1>1. /\ Contents = [j \in Block |-> Contents[j]] /\ Contents' = [j \in Block |-> Contents'[j]]
        /\ Holders = [j \in Block |-> Holders[j]] /\ Holders' = [j \in Block |-> Holders'[j]]
    BY DEF Contents, Holders
  <1> QED
    BY <1>1, Zenon DEF SameView

\* acquiresleep() on a valid buffer is where bread() gets the block.
LEMMA AcquireGets ==
    ASSUME BufInv, BufInv', NEW p \in Proc, acquiresleep(p)
    PROVE  Abs!SNext \/ UNCHANGED Abs!svars
  <1>1. ProcOK(p) /\ pc[p] = "bget" /\ my[p] \in Buf
    BY Types, Zenon DEF BufInv, ProcOK, acquiresleep, at
  <1>2. PICK b \in Buf : b = my[p]
    BY <1>1, Zenon
  <1>3. buf' = [buf EXCEPT ![b].lock = p] /\ buf[b].lock = NoProc /\ disk' = disk
    BY <1>2, Zenon DEF acquiresleep
  <1>4. /\ (\A d \in Buf \ {b} : buf'[d] = buf[d]) /\ buf'[b].blockno = buf[b].blockno
        /\ buf'[b].lock = p /\ buf'[b].data = buf[b].data
    BY <1>3, Types, Fields, Zenon DEF BufRec
  <1>5. buf'[b].valid <=> buf[b].valid
    BY <1>3, Types, Fields, Zenon DEF BufRec
  <1>6. PICK k \in Block : k = buf[b].blockno
    BY <1>1, <1>2, Zenon DEF ProcOK
  <1>7. \A j \in Block \ {k} : SameView(j)
    BY <1>3, <1>4, <1>6, OtherBlocks, Zenon
  <1>8. ViewOK /\ ViewOK'
    BY View, ViewNext, Zenon
  <1>9. CASE buf[b].valid
    <2>1. Contents[k] = buf[b].data /\ Holders[k] = NoProc
      BY <1>3, <1>6, <1>8, <1>9 DEF ViewOK
    <2>2. Contents'[k] = buf[b].data /\ Holders'[k] = p
      BY <1>4, <1>5, <1>6, <1>8, <1>9, Zenon DEF ViewOK
    <2>3. Abs!Get(p, k)
      BY <1>7, <2>1, <2>2, OneView, Zenon DEF Abs!Get
    <2> QED
      BY <2>3, Zenon DEF Abs!SNext
  <1>10. CASE ~buf[b].valid
    <2>1. \A d \in Buf \ {b} : buf[d].blockno # k
      BY <1>6, BufCacheAssumption, Zenon DEF BufInv, Distinct
    <2>2. \A d \in Buf : /\ ~(buf[d].valid /\ buf[d].blockno = k)
                         /\ ~(buf'[d].valid /\ buf'[d].blockno = k)
      BY <1>4, <1>5, <1>10, <2>1, Zenon
    <2>3. SameView(k)
      BY <1>3, <1>8, <2>2, Zenon DEF ViewOK, SameView
    <2> QED
      BY <1>7, <2>3, Stutters, Zenon
  <1> QED
    BY <1>9, <1>10, Zenon

\* A change of the holder.
LEMMA ChangePuts ==
    ASSUME BufInv, BufInv', NEW p \in Proc, log_write(p) \/ bwrite(p)
    PROVE  Abs!SNext
  <1>1. pc[p] = "in" /\ pc[p] \in Has
    BY Zenon DEF log_write, bwrite, at, Has
  <1>2. PICK b \in Buf : b = my[p] /\ buf[b].lock = p /\ ProcOK(p)
    BY <1>1, OneHas, Zenon
  <1>3. PICK v \in Value : buf' = [buf EXCEPT ![b].data = v, ![b].dirty = TRUE]
    BY <1>2, Zenon DEF log_write, bwrite
  <1>4. /\ (\A d \in Buf \ {b} : buf'[d] = buf[d])
        /\ buf'[b] = [buf[b] EXCEPT !.data = v, !.dirty = TRUE]
    BY <1>3, Types, Zenon
  <1>5. /\ buf'[b].blockno = buf[b].blockno /\ buf'[b].lock = p /\ buf'[b].data = v
    BY <1>2, <1>4, Fields, Zenon DEF BufRec
  <1>6. buf'[b].valid <=> buf[b].valid
    BY <1>4, Fields, Zenon DEF BufRec
  <1>7. buf[b].valid
    BY <1>1, <1>2, Zenon DEF ProcOK
  <1>8. PICK k \in Block : k = buf[b].blockno
    BY <1>1, <1>2, Zenon DEF ProcOK
  <1>9. disk' = disk
    BY Zenon DEF log_write, bwrite
  <1>10. \A j \in Block \ {k} : SameView(j)
    BY <1>4, <1>5, <1>8, <1>9, OtherBlocks, Zenon
  <1>11. Holders[k] = p /\ Contents'[k] = v /\ Holders'[k] = p
    BY <1>2, <1>5, <1>6, <1>7, <1>8, View, ViewNext DEF ViewOK
  <1>12. Abs!Put(p, k)
    BY <1>10, <1>11, OneView, Zenon DEF Abs!Put
  <1> QED
    BY <1>12, Zenon DEF Abs!SNext

\* brelse() gives the block back.
LEMMA BrelseDrops ==
    ASSUME BufInv, BufInv', NEW p \in Proc, brelse(p)
    PROVE  Abs!SNext
  <1>1. pc[p] = "in" /\ pc[p] \in Has
    BY Zenon DEF brelse, at, Has
  <1>2. PICK b \in Buf : b = my[p] /\ buf[b].lock = p /\ ProcOK(p)
    BY <1>1, OneHas, Zenon
  <1>3. buf' = [buf EXCEPT ![b].lock = NoProc] /\ disk' = disk
    BY <1>2, Zenon DEF brelse
  <1>4. /\ (\A d \in Buf \ {b} : buf'[d] = buf[d]) /\ buf'[b].blockno = buf[b].blockno
        /\ buf'[b].lock = NoProc /\ buf'[b].data = buf[b].data
    BY <1>3, Types, Fields, Zenon DEF BufRec
  <1>5. buf'[b].valid <=> buf[b].valid
    BY <1>3, Types, Fields, Zenon DEF BufRec
  <1>6. PICK k \in Block : k = buf[b].blockno /\ buf[b].valid
    BY <1>1, <1>2, Zenon DEF ProcOK
  <1>7. \A j \in Block \ {k} : SameView(j)
    BY <1>3, <1>4, <1>6, OtherBlocks, Zenon
  <1>8. /\ Contents[k] = buf[b].data /\ Holders[k] = p
        /\ Contents'[k] = buf[b].data /\ Holders'[k] = NoProc
    BY <1>2, <1>4, <1>5, <1>6, View, ViewNext DEF ViewOK
  <1>9. Abs!Drop(p, k)
    BY <1>7, <1>8, OneView, Zenon DEF Abs!Drop
  <1> QED
    BY <1>9, Zenon DEF Abs!SNext

\* A write of the controller changes the disk behind a dirty buffer.
LEMMA ControllerStutters ==
    ASSUME BufInv, BufInv', controller
    PROVE  UNCHANGED Abs!svars
  <1>1. buf' = buf /\ idequeue # <<>> /\ \A d \in Buf : buf'[d] = buf[d]
    BY Zenon DEF controller, BufInv, CommandOK
  <1>2. PICK b \in Buf : b = idequeue[1] /\ command.blockno = buf[b].blockno
                         /\ command.blockno \in Block /\ (command.write <=> buf[b].dirty)
    BY <1>1, FirstRequest, Zenon
  <1>3. disk' = disk \/ (command.write /\ disk' = [disk EXCEPT ![command.blockno] = command.data])
    BY Zenon DEF controller
  <1>4. ASSUME NEW j \in Block PROVE SameView(j)
    <2>1. CASE j # command.blockno
      <3>1. disk'[j] = disk[j]
        BY <1>3, <2>1, Types, Zenon
      <3> QED
        BY <1>1, <1>2, <2>1, <3>1, OtherBlocks, Zenon
    <2>2. CASE j = command.blockno /\ command.write
      <3>1. buf[b].valid /\ buf[b].blockno = j
        BY <1>2, <2>2, Zenon DEF BufInv, BufOK
      <3> QED
        BY <1>1, <3>1, View, ViewNext DEF ViewOK, SameView
    <2>3. CASE ~command.write
      <3>1. disk' = disk /\ \A d \in Buf : Same(d)
        BY <1>1, <1>3, <2>3, Zenon DEF Same
      <3> QED
        BY <3>1, SameStutters, Zenon DEF Abs!svars, SameView
    <2> QED
      BY <2>1, <2>2, <2>3, Zenon
  <1> QED
    BY <1>4, Stutters, Zenon

\* ideintr() at the end of a read is where bread() gets the block; the end of
\* a write shows nothing new.
LEMMA IdeintrGets ==
    ASSUME Outcome = {TRUE}, BufInv, BufInv', ideintr
    PROVE  Abs!SNext \/ UNCHANGED Abs!svars
  <1>1. idequeue # <<>> /\ command.at = "irq" /\ disk' = disk
    BY Zenon DEF ideintr
  <1>2. PICK b \in Buf : b = idequeue[1]
    BY <1>1, FirstRequest, Zenon
  <1>3. buf' = [buf EXCEPT ![b] = Synced(b)]
    <2>1. Head(idequeue) = b
      BY <1>1, <1>2, Types
    <2> QED
      BY <2>1, Zenon DEF ideintr
  <1>4. (\A d \in Buf \ {b} : buf'[d] = buf[d]) /\ buf'[b] = Synced(b)
    BY <1>3, Types, Zenon
  <1> DEFINE v == IF ~buf[b].dirty /\ command.ok THEN command.data ELSE buf[b].data
  <1>5. buf'[b] = [buf[b] EXCEPT !.valid = TRUE, !.dirty = FALSE, !.data = v]
    BY <1>4, Zenon DEF Synced
  <1>6. /\ command.ok /\ disk[command.blockno] = command.data /\ ~Done(b)
        /\ command.blockno = buf[b].blockno /\ buf[b].blockno \in Block
        /\ buf[b].lock \in Proc
    BY <1>1, <1>2, FirstRequest, Zenon DEF BufInv, DiskOK
  <1>7. ~buf[b].valid => v = disk[buf[b].blockno]
    BY <1>6, Zenon DEF BufInv, BufOK
  <1>8. buf[b].valid => v = buf[b].data
    BY <1>6, Zenon DEF Done
  <1> HIDE DEF v
  <1>9. buf'[b].blockno = buf[b].blockno /\ buf'[b].lock = buf[b].lock /\ buf'[b].data = v
    BY <1>5, Fields, Zenon DEF BufRec
  <1>10. buf'[b].valid
    BY <1>5, Fields, Zenon DEF BufRec
  <1>11. PICK k \in Block : k = buf[b].blockno
    BY <1>6, Zenon
  <1>12. PICK q \in Proc : q = buf[b].lock
    BY <1>6, Zenon
  <1>13. \A j \in Block \ {k} : SameView(j)
    BY <1>1, <1>4, <1>9, <1>11, OtherBlocks, Zenon
  <1>14. Contents'[k] = v /\ Holders'[k] = q
    BY <1>9, <1>10, <1>11, <1>12, ViewNext, Zenon DEF ViewOK
  <1>15. CASE buf[b].valid
    <2>1. Contents[k] = v /\ Holders[k] = q
      BY <1>8, <1>11, <1>12, <1>15, View, Zenon DEF ViewOK
    <2>2. SameView(k)
      BY <1>14, <2>1, Zenon DEF SameView
    <2> QED
      BY <1>13, <2>2, Stutters, Zenon
  <1>16. CASE ~buf[b].valid
    <2>1. \A d \in Buf \ {b} : buf[d].blockno # k
      BY <1>11, BufCacheAssumption, Zenon DEF BufInv, Distinct
    <2>2. \A d \in Buf : ~(buf[d].valid /\ buf[d].blockno = k)
      BY <1>16, <2>1, Zenon
    <2>3. Contents[k] = v /\ Holders[k] = NoProc
      BY <1>7, <1>11, <1>16, <2>2, View, Zenon DEF ViewOK
    <2>4. Abs!Get(q, k)
      BY <1>13, <1>14, <2>3, OneView, Zenon DEF Abs!Get
    <2> QED
      BY <2>4, Zenon DEF Abs!SNext
  <1> QED
    BY <1>15, <1>16, Zenon

\* Every step is a step of the abstract store or shows nothing.
LEMMA AbsStep ==
    ASSUME Outcome = {TRUE}, BufInv, BufInv', [Next]_vars
    PROVE  [Abs!SNext]_(Abs!svars)
  <1>1. ASSUME NEW p \in Proc, NEW k \in Block,
               bget_cached(p, k) \/ bget_recycle(p, k) \/ bget_panic(p, k)
        PROVE  UNCHANGED Abs!svars
    <2>1. CASE bget_cached(p, k)
      <3>1. PICK b \in Buf : buf' = [buf EXCEPT ![b].refcnt = @ + 1]
        BY <2>1, Zenon DEF bget_cached, Cached
      <3>2. \A d \in Buf : Same(d)
        BY <3>1, Types, Fields, Zenon DEF Same, BufRec
      <3> QED
        BY <2>1, <3>2, SameStutters, Zenon DEF bget_cached
    <2>2. CASE bget_recycle(p, k)
      BY <2>2, RecycleStutters, Zenon
    <2>3. CASE bget_panic(p, k)
      BY <2>3, SameStutters, Zenon DEF bget_panic, Same
    <2> QED
      BY <1>1, <2>1, <2>2, <2>3, Zenon
  <1>2. ASSUME NEW p \in Proc, Call(p) \/ log_write(p) \/ bwrite(p) \/ brelse(p) \/ kill(p)
        PROVE  Abs!SNext \/ UNCHANGED Abs!svars
    <2>1. CASE acquiresleep(p)
      BY <2>1, AcquireGets, Zenon
    <2>2. CASE bread(p) \/ kill(p) \/ iderw_while(p) \/ iderw(p)
      <3>1. buf' = buf /\ disk' = disk
        BY <2>2, Zenon DEF bread, kill, iderw_while, iderw
      <3> QED
        BY <3>1, SameStutters, Zenon DEF Same
    <2>3. CASE brelse_unref(p)
      <3>1. buf' = [buf EXCEPT ![my[p]].refcnt = @ - 1] /\ disk' = disk
        BY <2>3, Zenon DEF brelse_unref
      <3>2. \A d \in Buf : Same(d)
        BY <3>1, Types, Fields, Zenon DEF Same, BufRec
      <3> QED
        BY <3>1, <3>2, SameStutters, Zenon
    <2>4. CASE log_write(p) \/ bwrite(p)
      BY <2>4, ChangePuts, Zenon
    <2>5. CASE brelse(p)
      BY <2>5, BrelseDrops, Zenon
    <2> QED
      BY <1>2, <2>1, <2>2, <2>3, <2>4, <2>5, Zenon DEF Call
  <1>3. CASE controller
    BY <1>3, ControllerStutters, Zenon
  <1>4. CASE ideintr
    BY <1>4, IdeintrGets, Zenon
  <1>5. CASE UNCHANGED vars
    BY <1>5, SameStutters, Zenon DEF vars, Same
  <1> QED
    BY <1>1, <1>2, <1>3, <1>4, <1>5, Zenon DEF Next, ideintr_empty, halted

\* The cache starts with the contents of the disk, and nobody has a block.
LEMMA AbsInit == Init => Abs!SInit
  <1> SUFFICES ASSUME Init PROVE Abs!SInit
    OBVIOUS
  <1>1. BufInv /\ ViewOK /\ disk \in [Block -> Value]
    BY BufInit, View, Zenon DEF Init
  <1>2. \A b \in Buf : ~buf[b].valid
    BY Zenon DEF Init
  <1>3. \A k \in Block : Contents[k] = disk[k] /\ Holders[k] = NoProc
    BY <1>1, <1>2, Zenon DEF ViewOK
  <1>4. Contents = [k \in Block |-> Contents[k]] /\ Holders = [k \in Block |-> Holders[k]]
    BY DEF Contents, Holders
  <1> QED
    BY <1>1, <1>3, <1>4, Zenon DEF Abs!SInit

\* bio.c implements blocks with one content each, when no command of the disk
\* fails: what bread() returns is what the last holder of the block left.
THEOREM CacheIsStore == ASSUME Outcome = {TRUE} PROVE Spec => OneContent
  <1>1. Init => Abs!SInit
    BY AbsInit, Zenon
  <1>2. BufInv /\ BufInv' /\ [Next]_vars => [Abs!SNext]_(Abs!svars)
    BY AbsStep, Zenon
  <1> QED
    BY <1>1, <1>2, BufInvHolds, PTL DEF Spec, OneContent, Abs!SSpec
=============================================================================
