----------------------------- MODULE PipeProofs -----------------------------
(***************************************************************************)
(* Proofs about Pipe, for any finite set of processes, any size of the     *)
(* ring and any width of its counters that is a multiple of that size.     *)
(***************************************************************************)
EXTENDS Pipe, FiniteSetTheorems, SequenceTheorems, TLAPS

-----------------------------------------------------------------------------
(* Remainders.                                                             *)

\* The remainder of a number that is at most one turn away.
LEMMA OneTurn ==
    ASSUME NEW U \in Nat, U > 0, NEW x \in (-U)..(2*U - 1)
    PROVE  x % U = IF x < 0 THEN x + U ELSE IF x < U THEN x ELSE x - U
OBVIOUS

\* Writing k bytes adds k to nwrite - nread, over the wraparound of nwrite.
LEMMA CountAdd ==
    ASSUME NEW U \in Nat, U > 0, NEW r \in 0..U-1, NEW w \in 0..U-1,
           NEW k \in Nat, ((w - r) % U) + k < U
    PROVE  /\ (w + k) % U \in 0..U-1
           /\ (((w + k) % U) - r) % U = ((w - r) % U) + k
<1>1. (w - r) % U = IF w < r THEN w - r + U ELSE w - r
    BY OneTurn
<1>2. (w + k) % U = IF w + k < U THEN w + k ELSE w + k - U
    BY <1>1, OneTurn
<1> QED
    BY <1>1, <1>2, OneTurn

\* Reading k bytes takes k from it, over the wraparound of nread.
LEMMA CountSub ==
    ASSUME NEW U \in Nat, U > 0, NEW r \in 0..U-1, NEW w \in 0..U-1,
           NEW k \in Nat, k <= (w - r) % U
    PROVE  /\ (r + k) % U \in 0..U-1
           /\ (w - ((r + k) % U)) % U = ((w - r) % U) - k
<1>1. (w - r) % U = IF w < r THEN w - r + U ELSE w - r
    BY OneTurn
<1>2. (r + k) % U = IF r + k < U THEN r + k ELSE r + k - U
    BY <1>1, OneTurn
<1> QED
    BY <1>1, <1>2, OneTurn

\* A number is determined by its quotient and its remainder.
LEMMA Quotient ==
    ASSUME NEW P \in Nat, P > 0, NEW x \in Int
    PROVE  \E a \in Int : x = a * P + (x % P)
OBVIOUS

\* And the other way round.
LEMMA Remainder ==
    ASSUME NEW P \in Nat, P > 0, NEW a \in Int, NEW r \in 0..P-1
    PROVE  (a * P + r) % P = r
OBVIOUS

\* Places less than a turn apart are different.
LEMMA Injective ==
    ASSUME NEW P \in Nat, P > 0, NEW x \in Int, NEW y \in Int, x < y, y < x + P
    PROVE  x % P # y % P
<1> SUFFICES ASSUME x % P = y % P
             PROVE  FALSE
    OBVIOUS
<1>1. PICK a \in Int : x = a * P + (x % P)
    BY Quotient, Zenon
<1>2. PICK b \in Int : y = b * P + (y % P)
    BY Quotient, Zenon
<1>3. y - x = (b - a) * P
    BY <1>1, <1>2
<1>4. CASE b - a <= 0
    BY <1>3, <1>4
<1>5. CASE b - a >= 1
    BY <1>3, <1>5
<1> QED
    BY <1>4, <1>5

\* Whole turns do not change a place: a counter that wraps around at a
\* multiple of the size of the ring goes on at the right place.
LEMMA WholeTurns ==
    ASSUME NEW P \in Nat, P > 0, NEW U \in Nat, U % P = 0, NEW x \in Int
    PROVE  (x + U) % P = x % P
<1>1. PICK a \in Int : x = a * P + (x % P)
    BY Quotient
<1>2. PICK b \in Int : U = b * P + (U % P)
    BY Quotient
<1>3. PICK c \in Int : c = a + b
    OBVIOUS
<1>4. x + U = c * P + (x % P)
    BY <1>1, <1>2, <1>3
<1>5. x % P \in 0..P-1
    OBVIOUS
<1>6. (c * P + (x % P)) % P = x % P
    BY <1>5, Remainder
<1> QED
    BY <1>4, <1>6

-----------------------------------------------------------------------------
(* Who is inside which function.                                           *)

ReaderPCs == {"reading", "r_sleep", "r_asleep", "r_relock"}
WriterPCs == {"writing", "w_sleep", "w_asleep", "w_relock"}

\* A process moves inside pipewrite() or piperead(), enters or leaves them.
Moves ==
    /\ UNCHANGED <<fds, ref, readopen, writeopen, freed>>
    /\ \A q \in Proc :
           /\ pc'[q] = "close read" <=> pc[q] = "close read"
           /\ pc'[q] = "close write" <=> pc[q] = "close write"
           /\ pc'[q] \in ReaderPCs => pc[q] \in ReaderPCs \/ "read" \in fds[q]
           /\ pc'[q] \in WriterPCs => pc[q] \in WriterPCs \/ "write" \in fds[q]

\* Such a step leaves the ends as they are.
LEMMA MovesKeepsEnds == EndsInv /\ Moves => EndsInv'
<1> SUFFICES ASSUME EndsInv, Moves
             PROVE  EndsInv'
    OBVIOUS
<1>1. \A e \in End : Has(e)' = Has(e) /\ Closing(e)' = Closing(e)
    BY Zenon DEF Moves, Has, Closing, End
<1>2. RefsInv'
    BY <1>1, Zenon DEF EndsInv, RefsInv, Moves
<1>3. InsideInv'
    BY Zenon DEF EndsInv, InsideInv, Moves, Has, ReaderPCs, WriterPCs
<1>4. ClosingInv'
    BY <1>1 DEF EndsInv, ClosingInv
<1>5. OpenInv'
    BY <1>1, Zenon DEF EndsInv, OpenInv, Moves, End
<1> QED
    BY <1>2, <1>3, <1>4, <1>5 DEF EndsInv

\* The steps of pipewrite(), piperead(), sleep() and kill() are such steps.
LEMMA StepsMove ==
    ASSUME TypeOK, NEW p \in Proc,
           pipewrite(p) \/ piperead(p) \/ Locked(p) \/ relock(p) \/ kill(p)
    PROVE  Moves
<1> USE DEF TypeOK, Moves, ReaderPCs, WriterPCs, pipe, goto, wakeup, store
<1>1. CASE pipewrite(p)
    BY <1>1, Zenon DEF pipewrite
<1>2. CASE piperead(p)
    BY <1>2, Zenon DEF piperead
<1>3. CASE pipewrite_all(p)
    BY <1>3, Zenon DEF pipewrite_all
<1>4. CASE pipewrite_fails(p)
    BY <1>4, Zenon DEF pipewrite_fails
<1>5. CASE pipewrite_full(p)
    BY <1>5, Zenon DEF pipewrite_full
<1>6. CASE piperead_killed(p)
    BY <1>6, Zenon DEF piperead_killed
<1>7. CASE piperead_empty(p)
    BY <1>7, Zenon DEF piperead_empty
<1>8. CASE piperead_copy(p)
    BY <1>8, Zenon DEF piperead_copy
<1>9. CASE sleep(p)
    BY <1>9, Zenon DEF sleep
<1>10. CASE relock(p)
    BY <1>10, Zenon DEF relock
<1>11. CASE kill(p)
    BY <1>11, Zenon DEF kill
<1> QED
    BY <1>1, <1>2, <1>3, <1>4, <1>5, <1>6, <1>7, <1>8, <1>9, <1>10, <1>11, ZenonT(40)
       DEF Locked

\* pipeclose(): the only process that closes the end clears its flag, and the
\* pipe is freed when the other flag is clear already.
LEMMA PipeCloseKeepsEnds ==
    ASSUME TypeOK, EndsInv, NEW p \in Proc, pipeclose_write(p) \/ pipeclose_read(p)
    PROVE  EndsInv'
<1>1. CASE pipeclose_write(p)
  <2>1. Has("write") = {} /\ Closing("write") = {p}
      BY <1>1, Zenon DEF pipeclose_write, EndsInv, ClosingInv, Closing, End
  <2>2. \A q \in Proc : pc'[q] = IF q = p THEN "out"
                                 ELSE IF pc[q] = "r_asleep" THEN "r_relock" ELSE pc[q]
      BY <1>1, Zenon DEF pipeclose_write, wakeup
  <2>3. Has("read")' = Has("read") /\ Has("write")' = Has("write")
      BY <1>1, Zenon DEF pipeclose_write, Has
  <2>4. Closing("write")' = {} /\ Closing("read")' = Closing("read")
      BY <1>1, <2>1, <2>2, Zenon DEF pipeclose_write, Closing
  <2>5. RefsInv'
      BY <1>1, <2>3, Zenon DEF pipeclose_write, EndsInv, RefsInv, End
  <2>6. InsideInv'
      BY <2>2, <2>3 DEF EndsInv, InsideInv
  <2>7. ClosingInv'
      BY <2>3, <2>4 DEF EndsInv, ClosingInv, End
  <2>8. OpenInv'
    <3>1. Has("write")' \cup Closing("write")' = {}
        BY <2>1, <2>3, <2>4
    <3>2. readopen' = readopen /\ writeopen' = FALSE
        BY <1>1, Zenon DEF pipeclose_write
    <3>3. freed' = ~readopen
        BY <1>1, Zenon DEF pipeclose_write
    <3>4. readopen' <=> Has("read")' \cup Closing("read")' # {}
        BY <2>3, <2>4, <3>2, Zenon DEF EndsInv, OpenInv
    <3>5. writeopen' <=> Has("write")' \cup Closing("write")' # {}
        BY <3>1, <3>2
    <3>6. freed' <=> ~readopen' /\ ~writeopen'
        BY <3>2, <3>3, Zenon
    <3> QED
        BY <3>4, <3>5, <3>6, Zenon DEF OpenInv
  <2> QED
      BY <2>5, <2>6, <2>7, <2>8, Zenon DEF EndsInv
<1>2. CASE pipeclose_read(p)
  <2>1. Has("read") = {} /\ Closing("read") = {p}
      BY <1>2, Zenon DEF pipeclose_read, EndsInv, ClosingInv, Closing, End
  <2>2. \A q \in Proc : pc'[q] = IF q = p THEN "out"
                                 ELSE IF pc[q] = "w_asleep" THEN "w_relock" ELSE pc[q]
      BY <1>2, Zenon DEF pipeclose_read, wakeup
  <2>3. Has("read")' = Has("read") /\ Has("write")' = Has("write")
      BY <1>2, Zenon DEF pipeclose_read, Has
  <2>4. Closing("read")' = {} /\ Closing("write")' = Closing("write")
      BY <1>2, <2>1, <2>2, Zenon DEF pipeclose_read, Closing
  <2>5. RefsInv'
      BY <1>2, <2>3, Zenon DEF pipeclose_read, EndsInv, RefsInv, End
  <2>6. InsideInv'
      BY <2>2, <2>3 DEF EndsInv, InsideInv
  <2>7. ClosingInv'
      BY <2>3, <2>4 DEF EndsInv, ClosingInv, End
  <2>8. OpenInv'
    <3>1. Has("read")' \cup Closing("read")' = {}
        BY <2>1, <2>3, <2>4
    <3>2. writeopen' = writeopen /\ readopen' = FALSE
        BY <1>2, Zenon DEF pipeclose_read
    <3>3. freed' = ~writeopen
        BY <1>2, Zenon DEF pipeclose_read
    <3>4. writeopen' <=> Has("write")' \cup Closing("write")' # {}
        BY <2>3, <2>4, <3>2, Zenon DEF EndsInv, OpenInv
    <3>5. readopen' <=> Has("read")' \cup Closing("read")' # {}
        BY <3>1, <3>2
    <3>6. freed' <=> ~readopen' /\ ~writeopen'
        BY <3>2, <3>3, Zenon
    <3> QED
        BY <3>4, <3>5, <3>6, Zenon DEF OpenInv
  <2> QED
      BY <2>5, <2>6, <2>7, <2>8 DEF EndsInv
<1> QED
    BY <1>1, <1>2

\* fork(): every end of the parent gets one process and one reference more,
\* and none of them is being closed.
LEMMA FileDupKeepsEnds ==
    ASSUME TypeOK, EndsInv, NEW p \in Proc, NEW q \in Proc, filedup(p, q)
    PROVE  EndsInv'
<1>1. \A e \in End : Has(e)' = IF e \in fds[p] THEN Has(e) \cup {q} ELSE Has(e)
    BY Zenon DEF filedup, Has, TypeOK
<1>2. \A e \in End : IsFiniteSet(Has(e)) /\ q \notin Has(e)
    BY PipeAssumption, FS_Subset DEF PipeAssumption, filedup, Has
<1>3. \A e \in End : Closing(e)' = Closing(e)
    BY DEF filedup, Closing
<1>4. \A e \in End : e \in fds[p] => Has(e) # {} /\ Closing(e) = {}
    BY DEF EndsInv, ClosingInv, Has
<1>5. RefsInv'
    BY <1>1, <1>2, FS_AddElement DEF filedup, EndsInv, RefsInv
<1>6. InsideInv'
    BY <1>1 DEF filedup, EndsInv, InsideInv, End
<1>7. ClosingInv'
    BY <1>1, <1>3, <1>4 DEF EndsInv, ClosingInv
<1>8. OpenInv'
  <2>1. \A e \in End : Has(e)' \cup Closing(e)' # {} <=> Has(e) \cup Closing(e) # {}
      BY <1>1, <1>3, <1>4, Zenon
  <2>2. UNCHANGED <<readopen, writeopen, freed>>
      BY DEF filedup, pipe
  <2> QED
      BY <2>1, <2>2, Zenon DEF EndsInv, OpenInv, End
<1> QED
    BY <1>5, <1>6, <1>7, <1>8, Zenon DEF EndsInv

\* fileclose(): the last process to drop an end is on its way to pipeclose()
\* before anybody can see that nobody has the end.
LEMMA FileCloseKeepsEnds ==
    ASSUME TypeOK, EndsInv, NEW p \in Proc, NEW e \in End, fileclose(p, e)
    PROVE  EndsInv'
<1>1. \A d \in End : Has(d)' = IF d = e THEN Has(e) \ {p} ELSE Has(d)
    BY Zenon DEF fileclose, Has, TypeOK
<1>2. IsFiniteSet(Has(e)) /\ p \in Has(e)
    BY PipeAssumption, FS_Subset, Zenon DEF PipeAssumption, fileclose, Has
<1>3. /\ ref[e] = Cardinality(Has(e)) /\ ref[e] \in Nat
      /\ Cardinality(Has(e) \ {p}) = ref[e] - 1
    BY <1>2, FS_RemoveElement, FS_CardinalityType DEF EndsInv, RefsInv
<1>4. ref[e] > 1 <=> Has(e) \ {p} # {}
  <2>1. IsFiniteSet(Has(e) \ {p})
      BY <1>2, FS_RemoveElement
  <2>2. Cardinality(Has(e) \ {p}) = 0 <=> Has(e) \ {p} = {}
      BY <2>1, FS_EmptySet
  <2>3. Cardinality(Has(e) \ {p}) \in Nat
      BY <2>1, FS_CardinalityType
  <2> QED
      BY <1>3, <2>2, <2>3
<1>5. Closing(e) = {}
    BY <1>2 DEF EndsInv, ClosingInv
<1>6. \A d \in End : Closing(d)' = IF d = e /\ ref[e] <= 1 THEN {p} ELSE Closing(d)
  <2>1. \A q \in Proc : pc'[q] = IF q # p THEN pc[q] ELSE IF ref[e] > 1 THEN "out"
                                 ELSE IF e = "read" THEN "close read" ELSE "close write"
      BY Zenon DEF fileclose, goto, TypeOK
  <2>2. ref[e] <= 1 <=> ~(ref[e] > 1)
      BY <1>3
  <2>3. pc[p] = "out"
      BY Zenon DEF fileclose
  <2> QED
      BY <1>5, <2>1, <2>2, <2>3, Zenon DEF Closing, End
<1>7. RefsInv'
    BY <1>1, <1>3, Zenon DEF fileclose, TypeOK, EndsInv, RefsInv
<1>8. InsideInv'
  <2>1. \A q \in Proc : q # p => pc'[q] = pc[q] /\ \A d \in End : q \in Has(d)' <=> q \in Has(d)
      BY <1>1, Zenon DEF fileclose, goto, TypeOK
  <2>2. pc'[p] \in {"out", "close read", "close write"}
      BY Zenon DEF fileclose, goto, TypeOK
  <2> QED
      BY <2>1, <2>2, Zenon DEF EndsInv, InsideInv, End
<1>9. ClosingInv'
    BY <1>1, <1>3, <1>4, <1>5, <1>6 DEF EndsInv, ClosingInv
<1>10. OpenInv'
  <2>1. \A d \in End : Has(d)' \cup Closing(d)' # {} <=> Has(d) \cup Closing(d) # {}
      BY <1>1, <1>2, <1>3, <1>4, <1>6
  <2>2. UNCHANGED <<readopen, writeopen, freed>>
      BY Zenon DEF fileclose, pipe
  <2> QED
      BY <2>1, <2>2, Zenon DEF EndsInv, OpenInv, End
<1> QED
    BY <1>7, <1>8, <1>9, <1>10 DEF EndsInv

\* No step breaks what is said of the ends.
LEMMA EndsStep ==
    ASSUME TypeOK, EndsInv, Next
    PROVE  EndsInv'
BY MovesKeepsEnds, StepsMove, PipeCloseKeepsEnds, FileDupKeepsEnds, FileCloseKeepsEnds
   DEF Next, Locking

-----------------------------------------------------------------------------
(* The ring.                                                               *)

\* nwrite - nread and the room that is left.
LEMMA CountType ==
    ASSUME TypeOK
    PROVE  Count \in 0..UINT-1 /\ (Count <= PIPESIZE => Space \in 0..PIPESIZE)
BY PipeAssumption DEF TypeOK, PipeAssumption, Count, Space

\* The count is 0 exactly when nread == nwrite, and there is no room exactly
\* when nwrite == nread + PIPESIZE: the two tests in the code.
LEMMA Tests ==
    ASSUME TypeOK, Count <= PIPESIZE
    PROVE  /\ Count = 0 <=> nread = nwrite
           /\ Space = 0 <=> nwrite = (nread + PIPESIZE) % UINT
<1>1. /\ UINT \in Nat /\ UINT > 0 /\ PIPESIZE \in 1..UINT-1
      /\ nread \in 0..UINT-1 /\ nwrite \in 0..UINT-1
    BY PipeAssumption DEF PipeAssumption, TypeOK
<1>2. Count = IF nwrite < nread THEN nwrite - nread + UINT ELSE nwrite - nread
    BY <1>1, OneTurn DEF Count
<1>3. (nread + PIPESIZE) % UINT =
          IF nread + PIPESIZE < UINT THEN nread + PIPESIZE ELSE nread + PIPESIZE - UINT
    BY <1>1, OneTurn
<1> QED
    BY <1>1, <1>2, <1>3 DEF Space

\* The loop of pipewrite() puts the first k bytes at the next k places, which
\* are all different, and touches no other place.
LEMMA StoreEffect ==
    ASSUME TypeOK, NEW p \in Proc, NEW k \in 0..Len(todo[p]), k <= PIPESIZE, store(p, k)
    PROVE  /\ \A j \in 1..k : data'[(nwrite + j - 1) % PIPESIZE] = todo[p][j]
           /\ \A i \in 0..PIPESIZE-1 :
                  (\A j \in 1..k : (nwrite + j - 1) % PIPESIZE # i) => data'[i] = data[i]
           /\ data' \in [0..PIPESIZE-1 -> Value]
<1> DEFINE Place(j) == (nwrite + j - 1) % PIPESIZE
           Final(i, j) == Place(j) = i /\ \A m \in j+1..k : Place(m) # i
<1>1. /\ PIPESIZE \in Nat /\ PIPESIZE > 0 /\ nwrite \in Nat
      /\ todo[p] \in Seq(Value) /\ Len(todo[p]) \in Nat /\ k \in Nat
    BY PipeAssumption DEF PipeAssumption, TypeOK
<1>2. data' = [i \in 0..PIPESIZE-1 |->
                 IF \E j \in 1..k : Place(j) = i
                 THEN todo[p][CHOOSE j \in 1..k : Final(i, j)] ELSE data[i]]
    BY DEF store
<1>3. ASSUME NEW j \in 1..k, NEW m \in 1..k, j # m
      PROVE  Place(j) # Place(m)
  <2>1. CASE j < m
      BY <1>1, <2>1, Injective
  <2>2. CASE m < j
      BY <1>1, <2>2, Injective
  <2> QED
      BY <1>1, <1>3, <2>1, <2>2
<1>4. ASSUME NEW j \in 1..k
      PROVE  /\ Place(j) \in 0..PIPESIZE-1
             /\ (CHOOSE m \in 1..k : Final(Place(j), m)) = j
  <2>1. Place(j) \in 0..PIPESIZE-1
      BY <1>1
  <2>2. Final(Place(j), j)
    <3>1. \A m \in j+1..k : m \in 1..k /\ j # m
        BY <1>1
    <3> QED
        BY <1>3, <3>1
  <2>3. \A m \in 1..k : Final(Place(j), m) => m = j
      BY <1>3
  <2> QED
      BY <2>1, <2>2, <2>3
<1>5. \A j \in 1..k : data'[Place(j)] = todo[p][j]
    BY <1>2, <1>4, Zenon
<1>6. \A i \in 0..PIPESIZE-1 : (\A j \in 1..k : Place(j) # i) => data'[i] = data[i]
    BY <1>2
<1>7. ASSUME NEW i \in 0..PIPESIZE-1
      PROVE  data'[i] \in Value
  <2>1. CASE \E j \in 1..k : Place(j) = i
    <3>1. PICK j \in 1..k : Place(j) = i
        BY <2>1
    <3>2. j \in 1..Len(todo[p])
        BY <1>1
    <3> QED
        BY <1>1, <1>5, <3>1, <3>2, ElementOfSeq, Zenon
  <2>2. CASE ~ \E j \in 1..k : Place(j) = i
      BY <1>6, <2>2, Zenon DEF TypeOK
  <2> QED
      BY <2>1, <2>2, Zenon
<1>8. data' \in [0..PIPESIZE-1 -> Value]
    BY <1>2, <1>7, Zenon
<1> QED
    BY <1>5, <1>6, <1>8, Zenon

\* Writing adds to the count what is written, over the wraparound.
LEMMA StoreCounts ==
    ASSUME TypeOK, Count <= PIPESIZE, NEW p \in Proc, NEW k \in 0..Space, store(p, k)
    PROVE  nwrite' \in 0..UINT-1 /\ Count' = Count + k /\ Space' = Space - k
<1>1. /\ UINT \in Nat /\ UINT > 0 /\ PIPESIZE \in 1..UINT-1
      /\ nread \in 0..UINT-1 /\ nwrite \in 0..UINT-1
    BY PipeAssumption DEF PipeAssumption, TypeOK
<1>2. k \in Nat /\ ((nwrite - nread) % UINT) + k < UINT
    BY <1>1, CountType DEF Count, Space
<1>3. nread' = nread /\ nwrite' = (nwrite + k) % UINT
    BY DEF store
<1>4. nwrite' \in 0..UINT-1 /\ Count' = Count + k
    BY <1>1, <1>2, <1>3, CountAdd, Zenon DEF Count
<1> QED
    BY <1>1, <1>4, CountType DEF Space

\* Reading takes from the count what is read.
LEMMA TakeCounts ==
    ASSUME TypeOK, NEW k \in 0..Count, nread' = (nread + k) % UINT, nwrite' = nwrite
    PROVE  nread' \in 0..UINT-1 /\ Count' = Count - k
<1>1. UINT \in Nat /\ UINT > 0 /\ nread \in 0..UINT-1 /\ nwrite \in 0..UINT-1
    BY PipeAssumption DEF PipeAssumption, TypeOK
<1>2. k \in Nat /\ k <= (nwrite - nread) % UINT
    BY CountType DEF Count
<1> QED
    BY <1>1, <1>2, CountSub, ZenonT(30) DEF Count

\* A walk around a ring of bytes gives a sequence of bytes.
LEMMA WalkType ==
    ASSUME NEW c \in Nat, NEW r \in Nat, NEW d \in [0..PIPESIZE-1 -> Value]
    PROVE  LET walk == [i \in 1..c |-> d[(r + i - 1) % PIPESIZE]]
           IN  walk \in Seq(Value) /\ Len(walk) = c
<1>1. \A i \in 1..c : (r + i - 1) % PIPESIZE \in 0..PIPESIZE-1
    BY PipeAssumption DEF PipeAssumption
<1> DEFINE walk == [i \in 1..c |-> d[(r + i - 1) % PIPESIZE]]
<1>2. walk \in [1..c -> Value]
    BY <1>1, Zenon
<1> HIDE DEF walk
<1>3. walk \in Seq(Value)
    BY <1>2
<1>4. Len(walk) = c
    BY <1>2, <1>3
<1> QED
    BY <1>3, <1>4 DEF walk

\* The bytes in the ring are bytes.
LEMMA BytesType ==
    ASSUME TypeOK
    PROVE  Bytes \in Seq(Value) /\ Len(Bytes) = Count
<1>1. Count \in Nat /\ nread \in Nat /\ data \in [0..PIPESIZE-1 -> Value]
    BY PipeAssumption DEF PipeAssumption, TypeOK, Count
<1> QED
    BY <1>1, WalkType, Zenon DEF Bytes

\* And after a step too.
LEMMA BytesTypeNext ==
    ASSUME TypeOK'
    PROVE  Bytes' \in Seq(Value) /\ Len(Bytes') = Count'
<1>1. /\ UINT \in Nat /\ UINT > 0 /\ nread' \in Nat /\ nwrite' \in Nat
      /\ data' \in [0..PIPESIZE-1 -> Value]
    BY PipeAssumption DEF PipeAssumption, TypeOK
<1>2. \A x \in Int : x % UINT \in Nat
    BY <1>1
<1>3. nwrite' - nread' \in Int
    BY <1>1
<1>4. Count' \in Nat
    BY <1>2, <1>3 DEF Count
<1> QED
    BY <1>1, <1>4, WalkType, Zenon DEF Bytes

-----------------------------------------------------------------------------
(* Types.                                                                  *)

\* What a read() returns is as long as it was asked to be at most.
LEMMA CopyType ==
    ASSUME TypeOK, NEW p \in Proc
    PROVE  LET k == Min(n[p], Count)
           IN  /\ k \in 0..Count /\ k <= MAXCOUNT
               /\ SubSeq(Bytes, 1, k) \in Seq(Value) /\ Len(SubSeq(Bytes, 1, k)) = k
<1> DEFINE k == Min(n[p], Count)
<1>1. Count \in Nat /\ n[p] \in 0..MAXCOUNT /\ MAXCOUNT \in Nat
    BY PipeAssumption, CountType DEF PipeAssumption, TypeOK
<1>2. k \in 0..Count /\ k <= MAXCOUNT /\ k \in Nat
    BY <1>1 DEF Min
<1>3. Bytes \in Seq(Value) /\ Len(Bytes) = Count
    BY BytesType
<1>4. \A i \in 1..k : Bytes[i] \in Value
    BY <1>1, <1>2, <1>3, ElementOfSeq
<1>5. SubSeq(Bytes, 1, k) \in Seq(Value) /\ Len(SubSeq(Bytes, 1, k)) = IF 1 <= k THEN k - 1 + 1 ELSE 0
    BY <1>2, <1>4, SubSeqProperties
<1> QED
    BY <1>2, <1>5
\* The rest of a write() that filled the pipe.
LEMMA RestType ==
    ASSUME TypeOK, Count <= PIPESIZE, NEW p \in Proc, Len(todo[p]) > Space
    PROVE  SubSeq(todo[p], Space + 1, Len(todo[p])) \in Seq(Value)
<1>1. todo[p] \in Seq(Value) /\ Space \in Nat
    BY CountType, PipeAssumption DEF PipeAssumption, TypeOK
<1>2. Len(todo[p]) \in Nat
    BY <1>1, LenProperties
<1>3. \A i \in Space+1..Len(todo[p]) : todo[p][i] \in Value
    BY <1>1, <1>2, ElementOfSeq
<1> QED
    BY <1>1, <1>2, <1>3, SubSeqProperties

\* What the three ways a step of pipewrite() ends have in common: some bytes go
\* into the ring, and all the room is used unless the write is over.
LEMMA WriteStores ==
    ASSUME TypeOK, Count <= PIPESIZE, NEW p \in Proc,
           pipewrite_all(p) \/ pipewrite_fails(p) \/ pipewrite_full(p)
    PROVE  \E k \in 0..Space :
               /\ k <= Len(todo[p]) /\ store(p, k)
               /\ Count' = Count + k /\ Space' = Space - k
               /\ pipewrite_full(p) => k = Space
<1>1. Space \in 0..Space /\ Len(todo[p]) \in Nat
    BY CountType, LenProperties DEF TypeOK
<1>2. CASE pipewrite_all(p)
  <2>1. Len(todo[p]) \in 0..Space /\ store(p, Len(todo[p])) /\ Len(todo[p]) <= Space
      BY <1>1, <1>2 DEF pipewrite_all
  <2>2. pipewrite_full(p) => Len(todo[p]) > Space
      BY Zenon DEF pipewrite_full
  <2> QED
      BY <1>1, <2>1, <2>2, StoreCounts
<1>3. CASE pipewrite_fails(p) \/ pipewrite_full(p)
  <2>1. store(p, Space) /\ Space <= Len(todo[p])
      BY <1>1, <1>3, SMTT(30) DEF pipewrite_fails, pipewrite_full
  <2> QED
      BY <1>1, <2>1, StoreCounts, SMTT(30)
<1> QED
    BY <1>2, <1>3

\* pipewrite() leaves the ring in its type.
LEMMA StoreType ==
    ASSUME TypeOK, Count <= PIPESIZE, NEW p \in Proc,
           pipewrite_all(p) \/ pipewrite_fails(p) \/ pipewrite_full(p)
    PROVE  data' \in [0..PIPESIZE-1 -> Value] /\ nread' = nread /\ nwrite' \in 0..UINT-1
<1>1. PICK k \in 0..Space : k <= Len(todo[p]) /\ store(p, k)
    BY WriteStores
<1>2. k \in 0..Len(todo[p]) /\ k <= PIPESIZE
  <2>1. Len(todo[p]) \in Nat
      BY LenProperties DEF TypeOK
  <2>2. Space \in 0..PIPESIZE /\ PIPESIZE \in Nat
      BY CountType, PipeAssumption DEF PipeAssumption
  <2> QED
      BY <1>1, <2>1, <2>2
<1>3. data' \in [0..PIPESIZE-1 -> Value]
    BY <1>1, <1>2, StoreEffect, Zenon
<1>4. nwrite' \in 0..UINT-1
    BY <1>1, StoreCounts, Zenon
<1> QED
    BY <1>1, <1>3, <1>4, Zenon DEF store

\* piperead() leaves the ring and its answer in their types.
LEMMA TakeType ==
    ASSUME TypeOK, NEW p \in Proc, piperead_copy(p)
    PROVE  /\ nread' \in 0..UINT-1 /\ nwrite' = nwrite /\ data' = data
           /\ got' \in Seq(Value) /\ Len(got') <= MAXCOUNT
<1> DEFINE k == Min(n[p], Count)
<1>1. /\ got' = SubSeq(Bytes, 1, k) /\ nread' = (nread + k) % UINT
      /\ nwrite' = nwrite /\ data' = data
    BY DEF piperead_copy
<1>2. /\ k \in 0..Count /\ k <= MAXCOUNT
      /\ SubSeq(Bytes, 1, k) \in Seq(Value) /\ Len(SubSeq(Bytes, 1, k)) = k
    BY CopyType, Zenon
<1> HIDE DEF k
<1>3. nread' \in 0..UINT-1
    BY <1>1, <1>2, TakeCounts, Zenon
<1> QED
    BY <1>1, <1>2, <1>3, Zenon

\* Every step leaves every variable in its type.
LEMMA TypeStep ==
    ASSUME PipeInv, Next, EndsInv'
    PROVE  TypeOK'
<1>1. TypeOK /\ Count <= PIPESIZE
    BY DEF PipeInv, RingInv
<1>2. ref' \in [End -> 0..Cardinality(Proc)]
  <2>1. ref' = [e \in End |-> ref'[e]]
      BY <1>1, ZenonT(40) DEF Next, pipewrite, piperead, Locked, Locking, pipewrite_all, pipewrite_fails,
             pipewrite_full, piperead_killed, piperead_empty, piperead_copy, sleep, relock,
             pipeclose_write, pipeclose_read, kill, filedup, fileclose, TypeOK
  <2>2. ASSUME NEW e \in End
        PROVE  ref'[e] \in 0..Cardinality(Proc)
    <3>1. Has(e)' \subseteq Proc
        BY DEF Has
    <3>2. IsFiniteSet(Has(e)') /\ Cardinality(Has(e)') <= Cardinality(Proc)
        BY <3>1, PipeAssumption, FS_Subset, Zenon DEF PipeAssumption
    <3>3. Cardinality(Has(e)') \in Nat /\ Cardinality(Proc) \in Nat
        BY <3>2, PipeAssumption, FS_CardinalityType, Zenon DEF PipeAssumption
    <3> QED
        BY <3>2, <3>3 DEF EndsInv, RefsInv
  <2> QED
      BY <2>1, <2>2, Zenon
<1>3. /\ data' \in [0..PIPESIZE-1 -> Value]
      /\ nread' \in 0..UINT-1 /\ nwrite' \in 0..UINT-1
  <2>1. ASSUME NEW p \in Proc, pipewrite_all(p) \/ pipewrite_fails(p) \/ pipewrite_full(p)
        PROVE  <1>3!1 /\ <1>3!2
      BY <1>1, <2>1, StoreType, Zenon DEF TypeOK
  <2>2. ASSUME NEW p \in Proc, piperead_copy(p)
        PROVE  <1>3!1 /\ <1>3!2
      BY <1>1, <2>2, TakeType, Zenon DEF TypeOK
  <2> QED
      BY <1>1, <2>1, <2>2, ZenonT(40)
         DEF Next, pipewrite, piperead, Locked, Locking, piperead_killed, piperead_empty,
             sleep, relock, pipeclose_write, pipeclose_read, kill, filedup, fileclose,
             TypeOK, pipe
<1>4. lock' \in Proc \cup {NoProc}
    BY <1>1, ZenonT(30) DEF Next, pipewrite, piperead, Locked, Locking, pipewrite_all, pipewrite_fails,
           pipewrite_full, piperead_killed, piperead_empty, piperead_copy, sleep, relock,
           pipeclose_write, pipeclose_read, kill, filedup, fileclose, TypeOK,
           acquire, release
<1>5. /\ readopen' \in BOOLEAN /\ writeopen' \in BOOLEAN /\ freed' \in BOOLEAN
      /\ fds' \in [Proc -> SUBSET End]
  <2>1. CASE Moves
      BY <1>1, <2>1, Zenon DEF Moves, TypeOK
  <2>2. ASSUME NEW p \in Proc, pipeclose_write(p)
        PROVE  <1>5!1 /\ <1>5!2
    <3>1. writeopen' = FALSE /\ readopen' = readopen /\ fds' = fds
        BY <2>2, Zenon DEF pipeclose_write
    <3>2. freed' \in BOOLEAN
        BY <2>2, Zenon DEF pipeclose_write
    <3> QED
        BY <1>1, <3>1, <3>2, Zenon DEF TypeOK
  <2>3. ASSUME NEW p \in Proc, pipeclose_read(p)
        PROVE  <1>5!1 /\ <1>5!2
    <3>1. readopen' = FALSE /\ writeopen' = writeopen /\ fds' = fds
        BY <2>3, Zenon DEF pipeclose_read
    <3>2. freed' \in BOOLEAN
        BY <2>3, Zenon DEF pipeclose_read
    <3> QED
        BY <1>1, <3>1, <3>2, Zenon DEF TypeOK
  <2>4. ASSUME NEW p \in Proc, NEW q \in Proc, filedup(p, q)
        PROVE  <1>5!1 /\ <1>5!2
      BY <1>1, <2>4, Zenon DEF filedup, pipe, TypeOK
  <2>5. ASSUME NEW p \in Proc, NEW e \in End, fileclose(p, e)
        PROVE  <1>5!1 /\ <1>5!2
      BY <1>1, <2>5, ZenonT(40) DEF fileclose, pipe, TypeOK
  <2> QED
      BY <1>1, <2>1, <2>2, <2>3, <2>4, <2>5, StepsMove, SMTT(30) DEF Next, Locking
<1>6. killed' \in [Proc -> BOOLEAN]
  <2>1. ASSUME NEW p \in Proc, kill(p)
        PROVE  killed' \in [Proc -> BOOLEAN]
      BY <1>1, <2>1 DEF kill, TypeOK
  <2>2. CASE UNCHANGED killed
      BY <1>1, <2>2, Zenon DEF TypeOK
  <2> QED
      BY <2>1, <2>2, Zenon
         DEF Next, pipewrite, piperead, Locked, Locking, pipewrite_all, pipewrite_fails,
             pipewrite_full, piperead_killed, piperead_empty, piperead_copy, sleep, relock,
             pipeclose_write, pipeclose_read, filedup, fileclose
<1>7. pc' \in [Proc -> PCs]
  <2>1. pc \in [Proc -> PCs]
      BY <1>1, Zenon DEF TypeOK
  <2>2. \A p \in Proc : \A l \in PCs : goto(p, l) => pc' \in [Proc -> PCs]
      BY <2>1 DEF goto
  <2>3. \A p \in Proc : \A a, b, l \in PCs : wakeup(a, b, p, l) => pc' \in [Proc -> PCs]
      BY <2>1, SMTT(30) DEF wakeup
  <2>4. ASSUME NEW p \in Proc, pipewrite(p) \/ piperead(p) \/ Locked(p)
        PROVE  pc' \in [Proc -> PCs]
      BY <2>1, <2>2, <2>3, <2>4, ZenonT(30)
         DEF pipewrite, piperead, Locked, pipewrite_all, pipewrite_fails, pipewrite_full,
             piperead_killed, piperead_empty, piperead_copy, sleep, PCs
  <2>5. ASSUME NEW p \in Proc, Locking(p)
        PROVE  pc' \in [Proc -> PCs]
      BY <2>1, <2>2, <2>3, <2>5, ZenonT(40)
         DEF Locking, relock, pipeclose_write, pipeclose_read, PCs
  <2>7. ASSUME NEW p \in Proc, kill(p)
        PROVE  pc' \in [Proc -> PCs]
    <3>1. PICK l : goto(p, l) /\ l \in {"r_relock", "w_relock", pc[p]}
        BY <2>7 DEF kill
    <3> QED
        BY <2>1, <2>2, <3>1, Zenon DEF PCs
  <2>6. ASSUME NEW p \in Proc, NEW e \in End, fileclose(p, e)
        PROVE  pc' \in [Proc -> PCs]
      BY <2>2, <2>6, Zenon DEF fileclose, PCs
  <2> QED
      BY <2>1, <2>4, <2>5, <2>6, <2>7, Zenon DEF Next, filedup
<1>8. n' \in [Proc -> 0..MAXCOUNT]
  <2>1. n \in [Proc -> 0..MAXCOUNT] /\ MAXCOUNT \in Nat
      BY <1>1, PipeAssumption, Zenon DEF TypeOK, PipeAssumption
  <2>2. ASSUME NEW p \in Proc, piperead(p)
        PROVE  n' \in [Proc -> 0..MAXCOUNT]
      BY <2>1, <2>2 DEF piperead
  <2>3. ASSUME NEW p \in Proc, piperead_killed(p) \/ piperead_copy(p)
        PROVE  n' \in [Proc -> 0..MAXCOUNT]
    <3>1. n' = [n EXCEPT ![p] = 0]
        BY <2>3, Zenon DEF piperead_killed, piperead_copy
    <3> QED
        BY <2>1, <3>1
  <2>4. CASE UNCHANGED n
      BY <2>1, <2>4, SMTT(30)
  <2> QED
      BY <2>2, <2>3, <2>4, Zenon
         DEF Next, pipewrite, Locked, Locking, pipewrite_all, pipewrite_fails,
             pipewrite_full, piperead_empty, sleep, relock,
             pipeclose_write, pipeclose_read, kill, filedup, fileclose
<1>9. todo' \in [Proc -> Seq(Value)]
  <2>1. <<>> \in Seq(Value) /\ Texts \subseteq Seq(Value)
      BY PipeAssumption DEF PipeAssumption
  <2>2. ASSUME NEW p \in Proc, pipewrite_full(p)
        PROVE  todo' \in [Proc -> Seq(Value)]
    <3>1. SubSeq(todo[p], Space + 1, Len(todo[p])) \in Seq(Value)
        BY <1>1, <2>2, RestType, Zenon DEF pipewrite_full
    <3> QED
        BY <1>1, <2>2, <3>1, Zenon DEF pipewrite_full, TypeOK
  <2> QED
      BY <1>1, <2>1, <2>2, ZenonT(40)
         DEF Next, pipewrite, piperead, Locked, Locking, pipewrite_all, pipewrite_fails,
             piperead_killed, piperead_empty, piperead_copy, sleep, relock,
             pipeclose_write, pipeclose_read, kill, filedup, fileclose, TypeOK
<1>10. got' \in Seq(Value) /\ Len(got') <= MAXCOUNT
  <2>1. <<>> \in Seq(Value) /\ Len(<<>>) <= MAXCOUNT
      BY PipeAssumption DEF PipeAssumption
  <2>2. ASSUME NEW p \in Proc, piperead_copy(p)
        PROVE  got' \in Seq(Value) /\ Len(got') <= MAXCOUNT
      BY <1>1, <2>2, TakeType, Zenon
  <2> QED
      BY <1>1, <2>1, <2>2, Zenon
         DEF Next, pipewrite, piperead, Locked, Locking, pipewrite_all, pipewrite_fails,
             pipewrite_full, piperead_killed, piperead_empty, sleep, relock,
             pipeclose_write, pipeclose_read, kill, filedup, fileclose, TypeOK
<1> QED
    BY <1>2, <1>3, <1>4, <1>5, <1>6, <1>7, <1>8, <1>9, <1>10, Zenon DEF TypeOK
-----------------------------------------------------------------------------
(* The lock and the sleepers.                                              *)

\* p->lock is held by the process that is in one of the loops.
LEMMA LockStep ==
    ASSUME TypeOK, LockInv, Next
    PROVE  LockInv'
<1> USE PipeAssumption DEF PipeAssumption, TypeOK, LockInv, goto, wakeup, acquire, release
<1>1. ASSUME NEW p \in Proc, pipewrite(p) \/ piperead(p)
      PROVE  LockInv'
    BY <1>1 DEF pipewrite, piperead
<1>2. ASSUME NEW p \in Proc, pipewrite_all(p) \/ pipewrite_fails(p) \/ pipewrite_full(p)
      PROVE  LockInv'
    BY <1>2, ZenonT(30) DEF pipewrite_all, pipewrite_fails, pipewrite_full
<1>3. ASSUME NEW p \in Proc, piperead_killed(p) \/ piperead_empty(p) \/ piperead_copy(p)
      PROVE  LockInv'
    BY <1>3, ZenonT(30) DEF piperead_killed, piperead_empty, piperead_copy
<1>4. ASSUME NEW p \in Proc, sleep(p) \/ relock(p)
      PROVE  LockInv'
    BY <1>4, SMTT(30) DEF sleep, relock
<1>5. ASSUME NEW p \in Proc, pipeclose_write(p) \/ pipeclose_read(p)
      PROVE  LockInv'
    BY <1>5, Zenon DEF pipeclose_write, pipeclose_read
<1>6. ASSUME NEW p \in Proc, kill(p)
      PROVE  LockInv'
    BY <1>6, Zenon DEF kill
<1>7. ASSUME NEW p \in Proc, NEW q \in Proc, filedup(p, q)
      PROVE  LockInv'
    BY <1>7, Zenon DEF filedup
<1>8. ASSUME NEW p \in Proc, NEW e \in End, fileclose(p, e)
      PROVE  LockInv'
    BY <1>8, Zenon DEF fileclose
<1> HIDE DEF LockInv
<1> QED
    BY <1>1, <1>2, <1>3, <1>4, <1>5, <1>6, <1>7, <1>8, Zenon DEF Next, Locked, Locking

\* The ring is never over-full.
LEMMA CountStep ==
    ASSUME TypeOK, Count <= PIPESIZE, Next
    PROVE  Count' <= PIPESIZE
<1>1. Count \in Nat /\ PIPESIZE \in Nat
    BY CountType, PipeAssumption DEF PipeAssumption
<1>2. ASSUME NEW p \in Proc, pipewrite_all(p) \/ pipewrite_fails(p) \/ pipewrite_full(p)
      PROVE  Count' <= PIPESIZE
  <2>1. PICK k \in 0..Space : Count' = Count + k
      BY <1>2, WriteStores, Zenon
  <2> QED
      BY <1>1, <2>1 DEF Space
<1>3. ASSUME NEW p \in Proc, piperead_copy(p)
      PROVE  Count' <= PIPESIZE
  <2> DEFINE k == Min(n[p], Count)
  <2>1. k \in 0..Count
      BY CopyType
  <2>2. nread' = (nread + k) % UINT /\ nwrite' = nwrite
      BY <1>3 DEF piperead_copy
  <2> HIDE DEF k
  <2>3. Count' = Count - k
      BY <2>1, <2>2, TakeCounts
  <2> QED
      BY <1>1, <2>1, <2>3
<1>4. CASE UNCHANGED <<nread, nwrite>>
    BY <1>4 DEF Count
<1> QED
    BY <1>2, <1>3, <1>4, Zenon
       DEF Next, pipewrite, piperead, Locked, Locking, piperead_killed, piperead_empty,
           sleep, relock, pipeclose_write, pipeclose_read, kill, filedup, fileclose, pipe
\* A writer on its way to sleep, or asleep, still has reason to be.
LEMMA FullStep ==
    ASSUME TypeOK, Count <= PIPESIZE, LockInv, FullInv, Next
    PROVE  FullInv'
<1> DEFINE Sleepy == {"w_sleep", "w_asleep"}
<1>1. \A p, q \in Proc : lock = p /\ q # p => pc[q] # "w_sleep"
    BY DEF LockInv
<1>2. lock = NoProc => \A q \in Proc : pc[q] # "w_sleep"
    BY PipeAssumption, Zenon DEF PipeAssumption, LockInv
<1>3. ASSUME NEW p \in Proc, pipewrite_all(p) \/ pipewrite_fails(p) \/ pipewrite_full(p)
      PROVE  FullInv'
  <2>1. PICK k \in 0..Space :
            store(p, k) /\ Space' = Space - k /\ (pipewrite_full(p) => k = Space)
      BY <1>3, WriteStores
  <2>2. Space \in Nat /\ readopen' = readopen
      BY <2>1, CountType, PipeAssumption DEF PipeAssumption, store
  <2>3. ASSUME NEW q \in Proc, q # p, pc'[q] \in Sleepy
        PROVE  Space' = 0 /\ readopen'
    <3>1. pc[q] \in Sleepy
        BY <1>3, <2>3, Zenon DEF pipewrite_all, pipewrite_fails, pipewrite_full, goto, wakeup, TypeOK
    <3>2. Space = 0 /\ readopen
        BY <3>1 DEF FullInv
    <3>3. k = 0
        BY <3>2
    <3>4. Space' = Space - k
        BY <2>1
    <3>5. Space' = 0
        BY <3>2, <3>3, <3>4
    <3> QED
        BY <2>2, <3>2, <3>5
  <2>4. ASSUME pc'[p] \in Sleepy
        PROVE  Space' = 0 /\ readopen'
    <3>1. pipewrite_full(p)
        BY <1>3, <2>4, Zenon DEF pipewrite_all, pipewrite_fails, goto, wakeup, TypeOK
    <3>2. readopen
        BY <3>1, Zenon DEF pipewrite_full
    <3> QED
        BY <2>1, <2>2, <3>1, <3>2, SMTT(30)
  <2> QED
      BY <2>3, <2>4 DEF FullInv
<1>4. ASSUME NEW p \in Proc, piperead_copy(p) \/ pipeclose_read(p)
      PROVE  FullInv'
  <2>1. \A q \in Proc : pc[q] = "w_sleep" => q = p
      BY <1>1, <1>2, <1>4, Zenon DEF piperead_copy, pipeclose_read, release
  <2>2. \A q \in Proc : pc'[q] \notin Sleepy
      BY <1>4, <2>1, Zenon DEF piperead_copy, pipeclose_read, wakeup
  <2> QED
      BY <2>2, Zenon DEF FullInv
<1>5. ASSUME UNCHANGED <<nread, nwrite, readopen>>,
             \A q \in Proc : pc'[q] \in Sleepy => pc[q] \in Sleepy
      PROVE  FullInv'
  <2>1. Space' = Space /\ readopen' = readopen
      BY <1>5 DEF Space, Count
  <2> QED
      BY <1>5, <2>1 DEF FullInv
<1>6. ASSUME NEW p \in Proc,
             pipewrite(p) \/ piperead(p) \/ piperead_killed(p) \/ piperead_empty(p)
      PROVE  FullInv'
    BY <1>5, <1>6, Zenon DEF pipewrite, piperead, piperead_killed, piperead_empty, pipe, goto, TypeOK
<1>7. ASSUME NEW p \in Proc, sleep(p) \/ relock(p) \/ kill(p) \/ pipeclose_write(p)
      PROVE  FullInv'
    BY <1>5, <1>7, Zenon DEF sleep, relock, kill, pipeclose_write, pipe, goto, wakeup, TypeOK
<1>8. ASSUME NEW p \in Proc, NEW q \in Proc, filedup(p, q)
      PROVE  FullInv'
    BY <1>5, <1>8, Zenon DEF filedup, pipe
<1>9. ASSUME NEW p \in Proc, NEW e \in End, fileclose(p, e)
      PROVE  FullInv'
    BY <1>5, <1>9, ZenonT(40) DEF fileclose, pipe, goto, TypeOK
<1> QED
    BY <1>3, <1>4, <1>6, <1>7, <1>8, <1>9, Zenon DEF Next, Locked, Locking

\* So has a reader, as long as nobody is killed: a writer that gives up without
\* waking the readers finds that there are none.
LEMMA EmptyStep ==
    ASSUME TypeOK, EndsInv, LockInv, EmptyInv, Next
    PROVE  EmptyInv'
<1> DEFINE Sleepy == {"r_sleep", "r_asleep"}
<1> SUFFICES ASSUME \A p \in Proc : ~killed'[p]
             PROVE  \A p \in Proc : pc'[p] \in Sleepy => Waits'
    BY DEF EmptyInv
<1>1. ASSUME NEW p \in Proc, kill(p)
      PROVE  FALSE
    BY <1>1 DEF kill, TypeOK
<1>2. \A p \in Proc : ~killed[p]
  <2>1. UNCHANGED killed
      BY <1>1, Zenon
         DEF Next, pipewrite, piperead, Locked, Locking, pipewrite_all, pipewrite_fails,
             pipewrite_full, piperead_killed, piperead_empty, piperead_copy, sleep, relock,
             pipeclose_write, pipeclose_read, filedup, fileclose
  <2> QED
      BY <2>1, SMTT(30)
<1>3. \A p \in Proc : pc[p] \in Sleepy => Waits
    BY <1>2, SMTT(30) DEF EmptyInv
<1>4. ASSUME NEW p \in Proc, pipewrite_all(p) \/ pipewrite_full(p) \/ pipeclose_write(p)
      PROVE  \A q \in Proc : pc'[q] \notin Sleepy
  <2>1. lock = p \/ lock = NoProc
    <3>1. CASE pipewrite_all(p) \/ pipewrite_full(p)
        BY <3>1, Zenon DEF LockInv, pipewrite_all, pipewrite_full
    <3> QED
        BY <1>4, <3>1, ZenonT(40) DEF pipeclose_write
  <2>2. \A q \in Proc : q # p => pc[q] # "r_sleep"
      BY <2>1, PipeAssumption, Zenon DEF PipeAssumption, LockInv
  <2> QED
      BY <1>4, <2>2, ZenonT(40) DEF pipewrite_all, pipewrite_full, pipeclose_write, wakeup
<1>5. ASSUME NEW p \in Proc, pipewrite_fails(p)
      PROVE  \A q \in Proc : pc'[q] \notin Sleepy
  <2>1. ~readopen
      BY <1>2, <1>5, Zenon DEF pipewrite_fails
  <2>2. Has("read") = {}
      BY <2>1 DEF EndsInv, OpenInv
  <2>3. \A q \in Proc : pc[q] \notin Sleepy
      BY <2>2, Zenon DEF EndsInv, InsideInv
  <2> QED
      BY <1>5, <2>3, SMTT(30) DEF pipewrite_fails, goto, TypeOK
<1>6. ASSUME NEW p \in Proc, piperead_copy(p)
      PROVE  \A q \in Proc : pc'[q] \notin Sleepy
    BY <1>3, <1>6, Zenon DEF piperead_copy, wakeup
<1>7. ASSUME NEW p \in Proc, piperead_empty(p)
      PROVE  Waits'
    BY <1>7, Zenon DEF piperead_empty, Waits, pipe
<1>8. ASSUME UNCHANGED <<nread, nwrite, writeopen>>,
             \A q \in Proc : pc'[q] \in Sleepy => pc[q] \in Sleepy
      PROVE  \A q \in Proc : pc'[q] \in Sleepy => Waits'
  <2>1. Waits' <=> Waits
      BY <1>8, Zenon DEF Waits
  <2> QED
      BY <1>3, <1>8, <2>1, Zenon
<1>9. ASSUME NEW p \in Proc, pipewrite(p) \/ piperead(p) \/ piperead_killed(p)
      PROVE  \A q \in Proc : pc'[q] \in Sleepy => Waits'
    BY <1>8, <1>9, Zenon DEF pipewrite, piperead, piperead_killed, pipe, goto, TypeOK
<1>10. ASSUME NEW p \in Proc, sleep(p) \/ relock(p) \/ pipeclose_read(p)
       PROVE  \A q \in Proc : pc'[q] \in Sleepy => Waits'
    BY <1>8, <1>10, ZenonT(40) DEF sleep, relock, pipeclose_read, pipe, goto, wakeup, TypeOK
<1>11. ASSUME NEW p \in Proc, NEW q \in Proc, filedup(p, q)
       PROVE  \A r \in Proc : pc'[r] \in Sleepy => Waits'
    BY <1>8, <1>11, SMTT(30) DEF filedup, pipe
<1>12. ASSUME NEW p \in Proc, NEW e \in End, fileclose(p, e)
       PROVE  \A q \in Proc : pc'[q] \in Sleepy => Waits'
    BY <1>8, <1>12, ZenonT(40) DEF fileclose, pipe, goto, TypeOK
<1> QED
    BY <1>1, <1>4, <1>5, <1>6, <1>7, <1>9, <1>10, <1>11, <1>12, ZenonT(40) DEF Next, Locked, Locking
\* A process leaves pipewrite() with nothing left to write.
LEMMA IdleStep ==
    ASSUME TypeOK, IdleInv, Next
    PROVE  IdleInv'
<1> USE DEF TypeOK, IdleInv, goto, wakeup
<1>1. ASSUME NEW p \in Proc, pipewrite(p) \/ piperead(p)
      PROVE  IdleInv'
    BY <1>1, Zenon DEF pipewrite, piperead
<1>2. ASSUME NEW p \in Proc, pipewrite_all(p) \/ pipewrite_fails(p) \/ pipewrite_full(p)
      PROVE  IdleInv'
    BY <1>2, ZenonT(30) DEF pipewrite_all, pipewrite_fails, pipewrite_full
<1>3. ASSUME NEW p \in Proc, piperead_killed(p) \/ piperead_empty(p) \/ piperead_copy(p)
      PROVE  IdleInv'
    BY <1>3, Zenon DEF piperead_killed, piperead_empty, piperead_copy
<1>4. ASSUME NEW p \in Proc, sleep(p) \/ relock(p)
      PROVE  IdleInv'
    BY <1>4, Zenon DEF sleep, relock
<1>5. ASSUME NEW p \in Proc, pipeclose_write(p) \/ pipeclose_read(p)
      PROVE  IdleInv'
    BY <1>5, Zenon DEF pipeclose_write, pipeclose_read
<1>6. ASSUME NEW p \in Proc, kill(p)
      PROVE  IdleInv'
    BY <1>6 DEF kill
<1>7. ASSUME NEW p \in Proc, NEW q \in Proc, filedup(p, q)
      PROVE  IdleInv'
    BY <1>7, Zenon DEF filedup
<1>8. ASSUME NEW p \in Proc, NEW e \in End, fileclose(p, e)
      PROVE  IdleInv'
    BY <1>8, Zenon DEF fileclose
<1> HIDE DEF IdleInv
<1> QED
    BY <1>1, <1>2, <1>3, <1>4, <1>5, <1>6, <1>7, <1>8, Zenon DEF Next, Locked, Locking

-----------------------------------------------------------------------------
(* The bytes of the ring as a queue.                                       *)

\* The place where nwrite points is the one after the last byte, also when
\* nwrite has wrapped around and nread has not.
LEMMA WritePlace ==
    ASSUME TypeOK, NEW x \in Int
    PROVE  (nwrite + x) % PIPESIZE = (nread + Count + x) % PIPESIZE
<1>1. /\ UINT \in Nat /\ UINT > 0 /\ PIPESIZE \in Nat /\ PIPESIZE > 0
      /\ UINT % PIPESIZE = 0 /\ nread \in 0..UINT-1 /\ nwrite \in 0..UINT-1
    BY PipeAssumption DEF PipeAssumption, TypeOK
<1>2. Count = IF nwrite < nread THEN nwrite - nread + UINT ELSE nwrite - nread
    BY <1>1, OneTurn DEF Count
<1>3. CASE nwrite < nread
  <2>1. nread + Count + x = (nwrite + x) + UINT /\ nwrite + x \in Int
      BY <1>1, <1>2, <1>3
  <2> QED
      BY <1>1, <2>1, WholeTurns, ZenonT(40)
<1>4. CASE ~(nwrite < nread)
  <2>1. nread + Count + x = nwrite + x
      BY <1>1, <1>2, <1>4
  <2> QED
      BY <2>1
<1> QED
    BY <1>3, <1>4, Zenon

\* The loop of pipewrite() appends to the bytes in the ring.
LEMMA StoreAppends ==
    ASSUME TypeOK, Count <= PIPESIZE, TypeOK', NEW p \in Proc,
           NEW k \in 0..Space, k <= Len(todo[p]), store(p, k)
    PROVE  Bytes' = Bytes \o SubSeq(todo[p], 1, k)
<1>1. /\ PIPESIZE \in Nat /\ PIPESIZE > 0 /\ nread \in Nat /\ nwrite \in Nat
      /\ Count \in Nat /\ k \in Nat /\ Count + k <= PIPESIZE
  <2>1. PIPESIZE \in Nat /\ PIPESIZE > 0 /\ nread \in Nat /\ nwrite \in Nat
      BY PipeAssumption DEF PipeAssumption, TypeOK
  <2>2. Count \in Nat
      BY CountType
  <2>3. k \in Nat /\ Count + k <= PIPESIZE
      BY <2>1, <2>2 DEF Space
  <2> QED
      BY <2>1, <2>2, <2>3, Zenon
<1>2. todo[p] \in Seq(Value) /\ Len(todo[p]) \in Nat /\ k \in 0..Len(todo[p])
    BY <1>1, LenProperties, SMTT(30) DEF TypeOK
<1>3. Count' = Count + k /\ nread' = nread
    BY StoreCounts, Zenon DEF store
<1>4. /\ \A j \in 1..k : data'[(nwrite + j - 1) % PIPESIZE] = todo[p][j]
      /\ \A i \in 0..PIPESIZE-1 :
             (\A j \in 1..k : (nwrite + j - 1) % PIPESIZE # i) => data'[i] = data[i]
  <2>1. k <= PIPESIZE
      BY <1>1
  <2> QED
      BY <1>2, <2>1, StoreEffect, Zenon
<1>5. ASSUME NEW j \in 1..k
      PROVE  (nwrite + j - 1) % PIPESIZE = (nread + Count + j - 1) % PIPESIZE
  <2>1. /\ j - 1 \in Int /\ nwrite + (j - 1) = nwrite + j - 1
        /\ nread + Count + (j - 1) = nread + Count + j - 1
      BY <1>1
  <2>2. (nwrite + (j - 1)) % PIPESIZE = (nread + Count + (j - 1)) % PIPESIZE
      BY <2>1, WritePlace
  <2> QED
      BY <2>1, <2>2, Zenon
<1>6. Bytes \in Seq(Value) /\ Len(Bytes) = Count /\ Bytes' \in Seq(Value) /\ Len(Bytes') = Count'
    BY BytesType, BytesTypeNext, Zenon
<1>7. /\ SubSeq(todo[p], 1, k) \in Seq(Value) /\ Len(SubSeq(todo[p], 1, k)) = k
      /\ \A j \in 1..k : SubSeq(todo[p], 1, k)[j] = todo[p][j]
  <2>1. \A j \in 1..k : todo[p][j] \in Value
      BY <1>2, ElementOfSeq
  <2>2. /\ SubSeq(todo[p], 1, k) \in Seq(Value)
        /\ Len(SubSeq(todo[p], 1, k)) = IF 1 <= k THEN k - 1 + 1 ELSE 0
        /\ \A j \in 1..k-1+1 : SubSeq(todo[p], 1, k)[j] = todo[p][1+j-1]
      BY <1>1, <2>1, SubSeqProperties
  <2>3. k - 1 + 1 = k /\ \A j \in 1..k : 1 + j - 1 = j
      BY <1>1
  <2> QED
      BY <1>1, <2>2, <2>3
<1> DEFINE new == Bytes \o SubSeq(todo[p], 1, k)
<1>8. /\ new \in Seq(Value) /\ Len(new) = Count + k
      /\ \A i \in 1..Count+k : new[i] = IF i <= Count THEN Bytes[i] ELSE todo[p][i - Count]
  <2>1. /\ new \in Seq(Value) /\ Len(new) = Count + k
        /\ \A i \in 1..Count+k : new[i] = IF i <= Count THEN Bytes[i]
                                          ELSE SubSeq(todo[p], 1, k)[i - Count]
    <3> DEFINE t == SubSeq(todo[p], 1, k)
    <3>1. /\ Bytes \o t \in Seq(Value) /\ Len(Bytes \o t) = Len(Bytes) + Len(t)
          /\ \A i \in 1..Len(Bytes)+Len(t) :
                 (Bytes \o t)[i] = IF i <= Len(Bytes) THEN Bytes[i] ELSE t[i - Len(Bytes)]
        BY <1>6, <1>7, ConcatProperties, ZenonT(30)
    <3>2. Len(Bytes) = Count /\ Len(t) = k
        BY <1>6, <1>7, Zenon
    <3> HIDE DEF t
    <3> QED
        BY <3>1, <3>2, Zenon DEF t
  <2>2. \A i \in 1..Count+k : ~(i <= Count) => i - Count \in 1..k
      BY <1>1
  <2> QED
      BY <1>7, <2>1, <2>2, Zenon
<1> HIDE DEF new
<1>9. ASSUME NEW i \in 1..Count+k
      PROVE  Bytes'[i] = new[i]
  <2>1. Bytes'[i] = data'[(nread + i - 1) % PIPESIZE]
      BY <1>3, Zenon DEF Bytes
  <2>2. CASE i <= Count
    <3>1. (nread + i - 1) % PIPESIZE \in 0..PIPESIZE-1
        BY <1>1
    <3>2. ASSUME NEW j \in 1..k
          PROVE  (nwrite + j - 1) % PIPESIZE # (nread + i - 1) % PIPESIZE
      <4>1. /\ nread + i - 1 \in Int /\ nread + Count + j - 1 \in Int
            /\ nread + i - 1 < nread + Count + j - 1
            /\ nread + Count + j - 1 < nread + i - 1 + PIPESIZE
          BY <1>1, <2>2
      <4>2. (nread + i - 1) % PIPESIZE # (nread + Count + j - 1) % PIPESIZE
          BY <1>1, <4>1, Injective, Zenon
      <4> QED
          BY <1>5, <4>2, Zenon
    <3>3. Bytes[i] = data[(nread + i - 1) % PIPESIZE]
        BY <1>1, <2>2 DEF Bytes
    <3> QED
        BY <1>4, <1>8, <2>1, <2>2, <3>1, <3>2, <3>3, Zenon
  <2>3. CASE ~(i <= Count)
    <3>1. i - Count \in 1..k /\ nread + Count + (i - Count) - 1 = nread + i - 1
        BY <1>1, <2>3
    <3>2. data'[(nread + i - 1) % PIPESIZE] = todo[p][i - Count]
        BY <1>4, <1>5, <3>1, Zenon
    <3> QED
        BY <1>8, <2>1, <2>3, <3>2, Zenon
  <2> QED
      BY <2>2, <2>3, Zenon
<1>10. Bytes' = new
    BY <1>3, <1>6, <1>8, <1>9, SeqEqual, Zenon
<1> QED
    BY <1>10 DEF new

\* The loop of piperead() takes the first bytes of the ring.
LEMMA TakeDrops ==
    ASSUME TypeOK, TypeOK', NEW k \in 0..Count,
           nread' = (nread + k) % UINT, nwrite' = nwrite, data' = data
    PROVE  Bytes' = SubSeq(Bytes, k + 1, Len(Bytes))
<1>1. /\ UINT \in Nat /\ UINT > 0 /\ PIPESIZE \in Nat /\ PIPESIZE > 0
      /\ UINT % PIPESIZE = 0 /\ nread \in 0..UINT-1
    BY PipeAssumption DEF PipeAssumption, TypeOK
<1>2. Count \in 0..UINT-1 /\ k \in Nat /\ Count' = Count - k
    BY CountType, TakeCounts
<1>3. ASSUME NEW i \in 1..Count'
      PROVE  (nread' + i - 1) % PIPESIZE = (nread + k + i - 1) % PIPESIZE
  <2>1. nread' = IF nread + k < UINT THEN nread + k ELSE nread + k - UINT
      BY <1>1, <1>2, OneTurn
  <2>2. CASE nread + k < UINT
      BY <2>1, <2>2, Zenon
  <2>3. CASE ~(nread + k < UINT)
    <3>1. /\ nread' + i - 1 \in Int
          /\ nread + k + i - 1 = (nread' + i - 1) + UINT
        BY <1>1, <1>2, <2>1, <2>3
    <3> QED
        BY <1>1, <3>1, WholeTurns, Zenon
  <2> QED
      BY <2>2, <2>3, Zenon
<1>4. Bytes \in Seq(Value) /\ Len(Bytes) = Count
    BY BytesType
<1>5. Bytes' \in Seq(Value) /\ Len(Bytes') = Count'
    BY BytesTypeNext
<1> DEFINE rest == SubSeq(Bytes, k + 1, Len(Bytes))
<1>6. /\ rest \in Seq(Value) /\ Len(rest) = Count'
      /\ \A i \in 1..Count' : rest[i] = Bytes[k + i]
  <2>1. \A i \in k+1..Count : Bytes[i] \in Value
      BY <1>2, <1>4, ElementOfSeq, SMTT(30)
  <2>2. /\ SubSeq(Bytes, k + 1, Count) \in Seq(Value)
        /\ Len(SubSeq(Bytes, k + 1, Count)) = IF k + 1 <= Count THEN Count - (k + 1) + 1 ELSE 0
        /\ \A i \in 1..Count-(k+1)+1 : SubSeq(Bytes, k + 1, Count)[i] = Bytes[k + 1 + i - 1]
      BY <1>2, <2>1, SubSeqProperties
  <2>3. /\ Count - (k + 1) + 1 = Count'
        /\ ~(k + 1 <= Count) => Count' = 0
        /\ \A i \in 1..Count' : k + 1 + i - 1 = k + i
      BY <1>2
  <2>4. rest = SubSeq(Bytes, k + 1, Count)
      BY <1>4, Zenon
  <2>5. Len(SubSeq(Bytes, k + 1, Count)) = Count'
      BY <2>2, <2>3, Zenon
  <2>6. \A i \in 1..Count' : SubSeq(Bytes, k + 1, Count)[i] = Bytes[k + i]
      BY <2>2, <2>3, Zenon
  <2> QED
      BY <2>2, <2>4, <2>5, <2>6, Zenon
<1> HIDE DEF rest
<1>7. ASSUME NEW i \in 1..Count'
      PROVE  Bytes'[i] = rest[i]
  <2>1. Bytes'[i] = data[(nread' + i - 1) % PIPESIZE]
      BY DEF Bytes
  <2>2. k + i \in 1..Count /\ nread + (k + i) - 1 = nread + k + i - 1
      BY <1>1, <1>2
  <2>3. Bytes[k + i] = data[(nread + (k + i) - 1) % PIPESIZE]
      BY <2>2 DEF Bytes
  <2> QED
      BY <1>3, <1>6, <2>1, <2>2, <2>3, Zenon
<1>8. Bytes' = rest
    BY <1>5, <1>6, <1>7, SeqEqual, Zenon
<1> QED
    BY <1>8, Zenon DEF rest

-----------------------------------------------------------------------------
(* The theorems.                                                           *)

\* sys_pipe() starts with an empty ring and one process at both ends.
LEMMA InitInv == Init => PipeInv
<1> SUFFICES ASSUME Init
             PROVE  PipeInv
    OBVIOUS
<1>1. \A e \in End : Has(e) = {Parent} /\ Closing(e) = {}
    BY PipeAssumption, Zenon DEF PipeAssumption, Init, Has, Closing, End
<1>2. Cardinality({Parent}) = 1 /\ 1 \in 0..Cardinality(Proc)
  <2>1. {Parent} \subseteq Proc /\ IsFiniteSet(Proc)
      BY PipeAssumption, Zenon DEF PipeAssumption
  <2>2. Cardinality({Parent}) = 1 /\ Cardinality({Parent}) <= Cardinality(Proc)
      BY <2>1, FS_Singleton, FS_Subset
  <2>3. Cardinality(Proc) \in Nat
      BY <2>1, FS_CardinalityType, Zenon
  <2> QED
      BY <2>2, <2>3
<1>3. TypeOK
  <2>1. (CHOOSE v \in Value : TRUE) \in Value
      BY PipeAssumption DEF PipeAssumption
  <2>2. data \in [0..PIPESIZE-1 -> Value]
      BY <2>1 DEF Init
  <2>3. nread \in 0..UINT-1 /\ nwrite \in 0..UINT-1
      BY PipeAssumption DEF PipeAssumption, Init
  <2>4. ref \in [End -> 0..Cardinality(Proc)]
      BY <1>2, Zenon DEF Init
  <2>5. n \in [Proc -> 0..MAXCOUNT] /\ got \in Seq(Value) /\ Len(got) <= MAXCOUNT
      BY PipeAssumption DEF PipeAssumption, Init
  <2>6. todo \in [Proc -> Seq(Value)] /\ fds \in [Proc -> SUBSET End]
      BY DEF Init, End
  <2> QED
      BY <2>2, <2>3, <2>4, <2>5, <2>6, Zenon DEF Init, TypeOK, PCs
<1>4. EndsInv
  <2>1. RefsInv
      BY <1>1, <1>2, Zenon DEF Init, RefsInv
  <2>2. InsideInv /\ ClosingInv
      BY <1>1 DEF Init, InsideInv, ClosingInv
  <2>3. OpenInv
      BY <1>1, Zenon DEF Init, OpenInv, End
  <2> QED
      BY <2>1, <2>2, <2>3, Zenon DEF EndsInv
<1>5. RingInv
  <2>1. Count = 0 /\ Count <= PIPESIZE
      BY PipeAssumption DEF PipeAssumption, Init, Count
  <2> QED
      BY <2>1, PipeAssumption, Zenon DEF PipeAssumption, Init, RingInv, LockInv, FullInv, EmptyInv
<1>6. IdleInv
    BY DEF Init, IdleInv
<1> QED
    BY <1>3, <1>4, <1>5, <1>6 DEF PipeInv

\* No step breaks the invariant.
LEMMA StepInv == PipeInv /\ [Next]_vars => PipeInv'
<1> SUFFICES ASSUME PipeInv, [Next]_vars
             PROVE  PipeInv'
    OBVIOUS
<1>1. CASE Next
  <2>1. EndsInv'
      BY <1>1, EndsStep DEF PipeInv
  <2>2. TypeOK'
      BY <1>1, <2>1, TypeStep
  <2>3. RingInv'
      BY <1>1, LockStep, CountStep, FullStep, EmptyStep, Zenon DEF PipeInv, RingInv
  <2>4. IdleInv'
      BY <1>1, IdleStep DEF PipeInv
  <2> QED
      BY <2>1, <2>2, <2>3, <2>4 DEF PipeInv
<1>2. CASE UNCHANGED vars
  <2>1. TypeOK'
      BY <1>2 DEF vars, pipe, PipeInv, TypeOK
  <2>2. EndsInv'
    <3>1. Moves
        BY <1>2, Zenon DEF vars, pipe, Moves
    <3> QED
        BY <3>1, MovesKeepsEnds, Zenon DEF PipeInv
  <2>3. RingInv'
    <3>1. Count' = Count /\ Space' = Space
        BY <1>2, SMTT(30) DEF vars, pipe, Count, Space
    <3>2. LockInv' /\ EmptyInv'
        BY <1>2, Zenon DEF vars, pipe, PipeInv, RingInv, LockInv, EmptyInv, Waits
    <3>3. FullInv'
        BY <1>2, <3>1, Zenon DEF vars, pipe, PipeInv, RingInv, FullInv
    <3> QED
        BY <3>1, <3>2, <3>3, Zenon DEF PipeInv, RingInv
  <2>4. IdleInv'
      BY <1>2 DEF vars, PipeInv, IdleInv
  <2> QED
      BY <2>1, <2>2, <2>3, <2>4, Zenon DEF PipeInv
<1> QED
    BY <1>1, <1>2

\* The references count the processes at each end, the flags say whether there
\* is one, and the sleepers have reason to sleep.
THEOREM PipeInvariant == Spec => []PipeInv
BY InitInv, StepInv, PTL DEF Spec

\* pipeclose() frees the page when no process is inside the pipe's functions or
\* can enter them, whatever the number of processes.
THEOREM PipeFreedIsUnused == Spec => []FreedIsUnused
<1>1. PipeInv => FreedIsUnused
  <2> SUFFICES ASSUME PipeInv, freed, NEW p \in Proc
               PROVE  fds[p] = {} /\ pc[p] = "out"
      BY DEF PipeInv, FreedIsUnused
  <2>1. \A e \in End : Has(e) = {} /\ Closing(e) = {}
    <3>1. /\ Has("read") \cup Closing("read") = {}
          /\ Has("write") \cup Closing("write") = {}
        BY Zenon DEF PipeInv, EndsInv, OpenInv
    <3> QED
        BY <3>1 DEF End
  <2>2. fds[p] = {}
    <3>1. fds[p] \subseteq End
        BY Zenon DEF PipeInv, TypeOK
    <3>2. \A e \in End : e \notin fds[p]
        BY <2>1, Zenon DEF Has
    <3> QED
        BY <3>1, <3>2, Zenon
  <2>3. pc[p] \notin ReaderPCs /\ pc[p] \notin WriterPCs
      BY <2>1 DEF PipeInv, EndsInv, InsideInv, ReaderPCs, WriterPCs, End
  <2>4. pc[p] # "close read" /\ pc[p] # "close write"
      BY <2>1, Zenon DEF Closing, End
  <2>5. pc[p] \in PCs
      BY Zenon DEF PipeInv, TypeOK
  <2> QED
      BY <2>2, <2>3, <2>4, <2>5, Zenon DEF PCs, ReaderPCs, WriterPCs
<1> QED
    BY <1>1, PipeInvariant, PTL

\* No writer sleeps with room in the pipe or without a reader, and, as long as
\* nobody is killed, no reader sleeps with bytes in it or without a writer.
THEOREM PipeSleepersMustWait == Spec => []SleepersMustWait
<1>1. PipeInv => SleepersMustWait
  <2> SUFFICES ASSUME PipeInv
               PROVE  SleepersMustWait
      OBVIOUS
  <2>1. Space = 0 <=> nwrite = (nread + PIPESIZE) % UINT
      BY Tests DEF PipeInv, RingInv
  <2>2. \A p \in Proc : pc[p] = "w_asleep" => nwrite = (nread + PIPESIZE) % UINT /\ readopen
      BY <2>1, Zenon DEF PipeInv, RingInv, FullInv
  <2>3. (\A p \in Proc : ~killed[p]) => ReaderSleepsOnEmpty
      BY Zenon DEF PipeInv, RingInv, EmptyInv, ReaderSleepsOnEmpty, Waits
  <2> QED
      BY <2>2, <2>3 DEF SleepersMustWait
<1> QED
    BY <1>1, PipeInvariant, PTL
\* A step that leaves the ring, the writes and the last read alone is none of
\* the queue.
LEMMA Stutters ==
    ASSUME UNCHANGED <<data, nread, nwrite, todo, got>>
    PROVE  UNCHANGED Abs!fvars
BY Zenon DEF Abs!fvars, Bytes, Count

\* Every step is one of the queue, or none.
LEMMA FifoStep ==
    ASSUME PipeInv, PipeInv', Next
    PROVE  Abs!FNext \/ UNCHANGED Abs!fvars
<1>1. TypeOK /\ TypeOK' /\ Count <= PIPESIZE /\ Count' <= PIPESIZE
    BY Zenon DEF PipeInv, RingInv
<1>2. ASSUME NEW p \in Proc, pipewrite(p) \/ piperead(p)
      PROVE  Abs!Begin(p)
  <2>1. todo[p] = <<>> /\ got' = <<>>
    <3>1. pc[p] = "out" /\ got' = <<>>
        BY <1>2, Zenon DEF pipewrite, piperead
    <3> QED
        BY <3>1, Zenon DEF PipeInv, IdleInv
  <2>2. todo' = [todo EXCEPT ![p] = todo'[p]]
      BY <1>1, <1>2, Zenon DEF pipewrite, piperead, TypeOK
  <2>3. Bytes' = Bytes
      BY <1>2, Zenon DEF pipewrite, piperead, pipe, Bytes, Count
  <2> QED
      BY <2>1, <2>2, <2>3, Zenon DEF Abs!Begin
<1>3. ASSUME NEW p \in Proc, pipewrite_all(p) \/ pipewrite_fails(p) \/ pipewrite_full(p)
      PROVE  Abs!Put(p)
  <2>1. PICK k \in 0..Space :
            k <= Len(todo[p]) /\ store(p, k) /\ (pipewrite_full(p) => k = Space)
      BY <1>1, <1>3, WriteStores, Zenon
  <2>2. Bytes' = Bytes \o SubSeq(todo[p], 1, k)
      BY <1>1, <2>1, StoreAppends, Zenon
  <2>3. k \in 0..Len(todo[p])
    <3>1. Len(todo[p]) \in Nat
        BY <1>1, LenProperties, Zenon DEF TypeOK
    <3>2. Space \in Int
        BY <1>1, CountType
    <3> QED
        BY <2>1, <3>1, <3>2, SMTT(30)
  <2>4. todo' \in {[todo EXCEPT ![p] = SubSeq(@, k + 1, Len(@))], [todo EXCEPT ![p] = <<>>]}
    <3>1. CASE pipewrite_full(p)
        BY <2>1, <3>1, ZenonT(40) DEF pipewrite_full
    <3>2. CASE pipewrite_all(p) \/ pipewrite_fails(p)
        BY <3>2, Zenon DEF pipewrite_all, pipewrite_fails
    <3> QED
        BY <1>3, <3>1, <3>2, SMTT(30)
  <2>5. Len(Bytes') <= PIPESIZE
      BY <1>1, BytesTypeNext, Zenon
  <2>6. got' = got
      BY <1>3, Zenon DEF pipewrite_all, pipewrite_fails, pipewrite_full
  <2> QED
      BY <2>2, <2>3, <2>4, <2>5, <2>6, Zenon DEF Abs!Put
<1>4. ASSUME NEW p \in Proc, piperead_copy(p)
      PROVE  Abs!Get
  <2> DEFINE k == Min(n[p], Count)
  <2>1. k \in 0..Count
      BY <1>1, CopyType, Zenon
  <2>2. /\ got' = SubSeq(Bytes, 1, k) /\ nread' = (nread + k) % UINT
        /\ nwrite' = nwrite /\ data' = data /\ todo' = todo
      BY <1>4, Zenon DEF piperead_copy
  <2> HIDE DEF k
  <2>3. Bytes' = SubSeq(Bytes, k + 1, Len(Bytes))
      BY <1>1, <2>1, <2>2, TakeDrops, Zenon
  <2>4. k \in 0..Len(Bytes)
      BY <1>1, <2>1, BytesType
  <2> QED
      BY <2>2, <2>3, <2>4, Zenon DEF Abs!Get
<1>5. ASSUME NEW p \in Proc,
             piperead_killed(p) \/ piperead_empty(p) \/ sleep(p) \/ Locking(p) \/ kill(p)
      PROVE  UNCHANGED Abs!fvars
    BY <1>5, Stutters, Zenon DEF piperead_killed, piperead_empty, sleep, Locking, relock,
                          pipeclose_write, pipeclose_read, kill, pipe
<1>6. ASSUME NEW p \in Proc, NEW q \in Proc, filedup(p, q)
      PROVE  UNCHANGED Abs!fvars
    BY <1>6, Stutters DEF filedup, pipe
<1>7. ASSUME NEW p \in Proc, NEW e \in End, fileclose(p, e)
      PROVE  UNCHANGED Abs!fvars
    BY <1>7, Stutters, Zenon DEF fileclose, pipe
<1> QED
    BY <1>2, <1>3, <1>4, <1>5, <1>6, <1>7, Zenon DEF Next, Locked, Abs!FNext

\* A pipe is a bounded queue of bytes, whatever the number of processes, the
\* size of the ring and the width of its counters (a multiple of that size):
\* no byte is lost, repeated, overwritten or overtaken.
THEOREM PipeIsFifo == Spec => IsFifo
<1>1. Init => Abs!FInit
  <2> SUFFICES ASSUME Init
               PROVE  Abs!FInit
      OBVIOUS
  <2>1. Count = 0
      BY PipeAssumption DEF PipeAssumption, Init, Count
  <2>2. Bytes = <<>>
      BY <2>1 DEF Bytes
  <2> QED
      BY <2>2, Zenon DEF Init, Abs!FInit
<1>2. PipeInv /\ PipeInv' /\ [Next]_vars => [Abs!FNext]_(Abs!fvars)
  <2>1. PipeInv /\ PipeInv' /\ Next => [Abs!FNext]_(Abs!fvars)
      BY FifoStep, Zenon
  <2>2. UNCHANGED vars => [Abs!FNext]_(Abs!fvars)
      BY Stutters DEF vars, pipe
  <2> QED
      BY <2>1, <2>2
<1> QED
    BY <1>1, <1>2, PipeInvariant, PTL DEF Spec, IsFifo, Abs!FSpec
=============================================================================
