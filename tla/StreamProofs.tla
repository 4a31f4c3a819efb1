---------------------------- MODULE StreamProofs -----------------------------
(***************************************************************************)
(* Proofs about IO objects, descriptors and children (io.c), for any       *)
(* objects, finite sets of descriptors and of pipes, and any children.     *)
(***************************************************************************)
EXTENDS MCObjects, FiniteSetTheorems, SequenceTheorems, WellFoundedInduction, TLAPS

-----------------------------------------------------------------------------
(***************************************************************************)
(* The least element of a set of numbers, from the well-founded order of   *)
(* the library.                                                            *)
(***************************************************************************)

Less == {p \in Nat \X Nat : p[1] < p[2]}

\* A set of numbers has a least one.
LEMMA LeastNumber ==
  ASSUME NEW A \in SUBSET Nat, A # {}
  PROVE  \E x \in A : \A y \in A : x <= y
<1>1. IsWellFoundedOn(Less, Nat)
  BY NatLessThanWellFounded DEF OpToRel, Less
<1>2. PICK x \in A : \A y \in A : ~ (<<y, x>> \in Less)
  BY <1>1, WFMin
<1>3. ASSUME NEW y \in A PROVE x <= y
  <2>1. x \in Nat /\ y \in Nat
    OBVIOUS
  <2>2. ~(y < x)
    BY <1>2, <2>1 DEF Less
  <2> QED
    BY <2>1, <2>2
<1> QED
  BY <1>3

-----------------------------------------------------------------------------
(***************************************************************************)
(* Descriptors and the IO objects that have them (io.c).                   *)
(***************************************************************************)

Slots == {"f", "f2"}
\* An end of a pipe and the other one of it
Other(e) == <<e[1], IF e[2] = "r" THEN "w" ELSE "r">>

\* The types, but for what buffers hold.
StreamType ==
  /\ DOMAIN ios = Io
  /\ \A i \in Io :
       /\ DOMAIN ios[i] = {"made", "f", "f2", "mode", "pid", "wait"}
       /\ DOMAIN ios[i].f = {"fd", "m", "w", "r"} /\ DOMAIN ios[i].f2 = {"fd", "m", "w", "r"}
       /\ ios[i].made \in BOOLEAN /\ ios[i].wait \in BOOLEAN /\ ios[i].pid \in Pid \cup {IO!NoPid}
  /\ fdt \in [Fd -> IO!Ends \cup {IO!NoEnd}]
  /\ kids \in [Pid -> [st : {"none", "run", "dead", "reaped"}, holds : SUBSET IO!Ends]]
  /\ wrote \in [Pipe -> Int] /\ mixed \in [Pipe -> BOOLEAN]
  /\ leak \in SUBSET Fd /\ bad \in BOOLEAN

\* A pipe that something has an end of has been made.
PipesBegun ==
  /\ \A d \in Fd : fdt[d] # IO!NoEnd => wrote[fdt[d][1]] >= 0
  /\ \A k \in Pid : \A e \in kids[k].holds : wrote[e[1]] >= 0

\* Each FILE has an open descriptor, and no two have one; the others that are open have
\* been left behind.
FilesOwn ==
  /\ \A i \in Io, a \in Slots : ios[i][a] # IO!NoFile =>
       ios[i][a].fd \in Fd /\ fdt[ios[i][a].fd] # IO!NoEnd /\ ios[i][a].fd \notin leak
  /\ \A i, j \in Io, a, b \in Slots :
       ios[i][a] # IO!NoFile /\ ios[j][b] # IO!NoFile /\ ios[i][a].fd = ios[j][b].fd => i = j /\ a = b
  /\ \A d \in Fd : fdt[d] # IO!NoEnd => d \in leak \/ \E i \in Io, a \in Slots : ios[i][a].fd = d
  /\ \A d \in leak : fdt[d] # IO!NoEnd
  /\ \A i \in Io : ~ios[i].made \/ ios[i].wait \/ ios[i].f = IO!NoFile =>
                     ios[i].f = IO!NoFile /\ ios[i].f2 = IO!NoFile

\* The descriptors with the other ends of the pipes a child has, and whether there may
\* be copies of them
Facing(k) == {d \in Fd : \E e \in kids[k].holds : fdt[d] = Other(e)}
Copied(k) == \E e \in kids[k].holds : mixed[e[1]]

\* The object of a child has a pipe to it, and its FILEs all that do, but for copies.
ChildOwn(i, k) ==
  /\ kids[k].st # "none"
  /\ \E e \in kids[k].holds : e[1] = fdt[ios[i].f.fd][1]
  /\ Copied(k) \/ \A d \in Facing(k) : \E a \in Slots : ios[i][a].fd = d
ChildrenOwn == \A i \in Io, k \in Pid : ios[i].f # IO!NoFile /\ ios[i].pid = k => ChildOwn(i, k)

\* A close that waits has let go of the child.
WaitersFree ==
  \A i \in Io : ios[i].wait => ios[i].pid \in Pid /\
    \A k \in Pid : ios[i].pid = k => kids[k].st # "none" /\ (Copied(k) \/ Facing(k) = {})

\* The inductive invariant.
StreamInv == StreamType /\ PipesBegun /\ WaitersFree /\ (~bad => FilesOwn /\ ChildrenOwn)

\* There is nothing at first.
LEMMA StreamInit == ASSUME IO!Init PROVE StreamInv
<1>1. /\ ios = [i \in Io |-> IO!NoIo]
      /\ fdt = [d \in Fd |-> IO!NoEnd]
      /\ kids = [k \in Pid |-> IO!NoKid]
      /\ wrote = [p \in Pipe |-> -1]
      /\ mixed = [p \in Pipe |-> FALSE]
      /\ leak = {} /\ bad = FALSE
  BY DEF IO!Init
<1>2. \A i \in Io : ios[i] = IO!NoIo
  BY <1>1
<1>3. StreamType
  <2>1. /\ DOMAIN IO!NoFile = {"fd", "m", "w", "r"}
        /\ DOMAIN IO!NoIo = {"made", "f", "f2", "mode", "pid", "wait"}
    BY DEF IO!NoFile, IO!NoIo
  <2>2. /\ IO!NoIo.made = FALSE /\ IO!NoIo.wait = FALSE /\ IO!NoIo.pid = IO!NoPid
        /\ IO!NoIo.f = IO!NoFile /\ IO!NoIo.f2 = IO!NoFile
    BY DEF IO!NoIo
  <2>3. IO!NoKid \in [st : {"none", "run", "dead", "reaped"}, holds : SUBSET IO!Ends]
    BY DEF IO!NoKid
  <2>4. kids \in [Pid -> [st : {"none", "run", "dead", "reaped"}, holds : SUBSET IO!Ends]]
    BY <1>1, <2>3
  <2>5. /\ DOMAIN ios = Io
        /\ fdt \in [Fd -> IO!Ends \cup {IO!NoEnd}]
        /\ wrote \in [Pipe -> Int] /\ mixed \in [Pipe -> BOOLEAN]
        /\ leak \in SUBSET Fd /\ bad \in BOOLEAN
    <3>1. DOMAIN ios = Io
      BY <1>1
    <3>2. fdt \in [Fd -> IO!Ends \cup {IO!NoEnd}]
      BY <1>1
    <3>3. wrote \in [Pipe -> Int] /\ mixed \in [Pipe -> BOOLEAN]
      BY <1>1
    <3> QED
      BY <1>1, <3>1, <3>2, <3>3
  <2>6. \A i \in Io :
          /\ DOMAIN ios[i] = {"made", "f", "f2", "mode", "pid", "wait"}
          /\ DOMAIN ios[i].f = {"fd", "m", "w", "r"} /\ DOMAIN ios[i].f2 = {"fd", "m", "w", "r"}
          /\ ios[i].made \in BOOLEAN /\ ios[i].wait \in BOOLEAN /\ ios[i].pid \in Pid \cup {IO!NoPid}
    BY <1>2, <2>1, <2>2
  <2> QED
    BY <2>4, <2>5, <2>6 DEF StreamType
<1>4. PipesBegun /\ WaitersFree
  BY <1>1, <1>2 DEF PipesBegun, WaitersFree, IO!NoKid, IO!NoIo
<1>5. FilesOwn
  BY <1>1, <1>2 DEF FilesOwn, IO!NoIo, Slots
<1>6. ChildrenOwn
  BY <1>2 DEF ChildrenOwn, IO!NoIo
<1> QED
  BY <1>3, <1>4, <1>5, <1>6 DEF StreamInv

\* The IO objects are to have the descriptors they have, and to wait if they do.
SameAs(objects) ==
  /\ DOMAIN objects = Io
  /\ \A i \in Io :
       /\ DOMAIN objects[i] = {"made", "f", "f2", "mode", "pid", "wait"}
       /\ DOMAIN objects[i].f = {"fd", "m", "w", "r"} /\ DOMAIN objects[i].f2 = {"fd", "m", "w", "r"}
       /\ objects[i].made = ios[i].made /\ objects[i].wait = ios[i].wait /\ objects[i].pid = ios[i].pid
       /\ \A a \in Slots : /\ objects[i][a].fd = ios[i][a].fd
                           /\ objects[i][a] = IO!NoFile <=> ios[i][a] = IO!NoFile
SameFiles == SameAs(ios')

\* The children hold what they held.
SameKids ==
  /\ kids' \in [Pid -> [st : {"none", "run", "dead", "reaped"}, holds : SUBSET IO!Ends]]
  /\ \A k \in Pid : kids'[k].holds = kids[k].holds /\ (kids[k].st # "none" => kids'[k].st # "none")

\* A pipe that has been made stays so.
MoreWritten ==
  /\ wrote' \in [Pipe -> Int] /\ \A p \in Pipe : wrote[p] >= 0 => wrote'[p] >= 0
  /\ mixed' \in [Pipe -> BOOLEAN] /\ \A p \in Pipe : mixed[p] => mixed'[p]

\* An object keeps its child while its descriptors stay and no others come to face it.
LEMMA ChildKept ==
  ASSUME NEW i, NEW k, ChildOwn(i, k),
         ios'[i].f.fd = ios[i].f.fd, ios'[i].f2.fd = ios[i].f2.fd,
         fdt'[ios[i].f.fd][1] = fdt[ios[i].f.fd][1],
         kids'[k].holds = kids[k].holds, kids'[k].st # "none",
         Facing(k)' \subseteq Facing(k), Copied(k) => Copied(k)'
  PROVE  ChildOwn(i, k)'
BY DEF ChildOwn, Slots

\* A step that leaves the descriptors alone keeps the invariant.
LEMMA StreamKept ==
  ASSUME StreamInv, SameFiles, SameKids, MoreWritten, UNCHANGED <<fdt, leak, bad>>
  PROVE  StreamInv'
<1>1. StreamType /\ PipesBegun /\ WaitersFree
  BY DEF StreamInv
<1>2. StreamType'
  BY <1>1 DEF StreamType, SameFiles, SameAs, SameKids, MoreWritten
<1>3. \A d \in Fd : fdt[d] # IO!NoEnd => fdt[d][1] \in Pipe
  BY <1>1 DEF StreamType, IO!Ends
<1>4. \A k \in Pid : \A e \in kids[k].holds : e[1] \in Pipe
  BY <1>1 DEF StreamType, IO!Ends
<1>5. PipesBegun'
  BY <1>1, <1>3, <1>4 DEF PipesBegun, SameKids, MoreWritten
<1>6. \A k \in Pid : Facing(k)' = Facing(k) /\ (Copied(k) => Copied(k)')
  BY <1>4 DEF Facing, Copied, SameKids, MoreWritten, Other
<1>7. WaitersFree'
  BY <1>1, <1>6 DEF WaitersFree, SameFiles, SameAs, SameKids
<1>8. ASSUME ~bad' PROVE FilesOwn' /\ ChildrenOwn'
  <2>1. FilesOwn /\ ChildrenOwn
    BY <1>8 DEF StreamInv
  <2>2. FilesOwn'
    BY <2>1, <1>1 DEF FilesOwn, SameFiles, SameAs, Slots, StreamType
  <2>3. ChildrenOwn'
    <3> SUFFICES ASSUME NEW i \in Io, NEW k \in Pid, ios'[i].f # IO!NoFile, ios'[i].pid = k
                 PROVE  ChildOwn(i, k)'
      BY DEF ChildrenOwn
    <3>1. /\ ios[i].f # IO!NoFile /\ ios[i].pid = k
          /\ ios'[i].f.fd = ios[i].f.fd /\ ios'[i].f2.fd = ios[i].f2.fd
      BY DEF SameFiles, SameAs, Slots
    <3>2. ChildOwn(i, k)
      BY <2>1, <3>1 DEF ChildrenOwn
    <3>3. kids'[k].holds = kids[k].holds /\ kids'[k].st # "none"
      BY <3>2 DEF ChildOwn, SameKids
    <3> QED
      BY <1>6, <3>1, <3>2, <3>3, ChildKept
  <2> QED
    BY <2>2, <2>3
<1> QED
  BY <1>2, <1>5, <1>7, <1>8 DEF StreamInv

\* What a FILE is about to write changes.
LEMMA WriteBuffer ==
  ASSUME StreamInv, ~bad, NEW io \in Io, NEW a \in Slots, NEW x,
         ios[io][a] # IO!NoFile, NEW objects, objects = [ios EXCEPT ![io][a].w = x]
  PROVE  SameAs(objects)
<1>1. StreamType /\ FilesOwn
  BY DEF StreamInv
<1>2. ios[io][a].fd # 0
  BY <1>1, ObjectsAssumption DEF FilesOwn
<1>3. IO!NoFile.fd = 0
  BY DEF IO!NoFile, IO!None
<1>4. DOMAIN ios = Io /\ DOMAIN ios[io] = {"made", "f", "f2", "mode", "pid", "wait"}
      /\ DOMAIN ios[io][a] = {"fd", "m", "w", "r"}
  BY <1>1 DEF StreamType, Slots
<1>5. PICK file : file = [ios[io][a] EXCEPT !.w = x]
  OBVIOUS
<1>6. DOMAIN file = {"fd", "m", "w", "r"} /\ file.fd = ios[io][a].fd
  BY <1>4, <1>5
<1>7. objects = [ios EXCEPT ![io][a] = file]
  BY <1>4, <1>5
<1>8. /\ \A i \in Io \ {io} : objects[i] = ios[i]
      /\ objects[io] = [ios[io] EXCEPT ![a] = file] /\ DOMAIN objects = Io
  BY <1>4, <1>7
<1>9. /\ DOMAIN objects[io] = {"made", "f", "f2", "mode", "pid", "wait"}
      /\ objects[io][a] = file
      /\ \A s \in {"made", "f", "f2", "mode", "pid", "wait"} \ {a} : objects[io][s] = ios[io][s]
  BY <1>4, <1>8 DEF Slots
<1> QED
  BY <1>1, <1>2, <1>3, <1>6, <1>8, <1>9 DEF SameAs, StreamType, Slots

\* What a FILE has read ahead changes.
LEMMA ReadBuffer ==
  ASSUME StreamInv, ~bad, NEW io \in Io, NEW a \in Slots, NEW x,
         ios[io][a] # IO!NoFile, NEW objects, objects = [ios EXCEPT ![io][a].r = x]
  PROVE  SameAs(objects)
<1>1. StreamType /\ FilesOwn
  BY DEF StreamInv
<1>2. ios[io][a].fd # 0
  BY <1>1, ObjectsAssumption DEF FilesOwn
<1>3. IO!NoFile.fd = 0
  BY DEF IO!NoFile, IO!None
<1>4. DOMAIN ios = Io /\ DOMAIN ios[io] = {"made", "f", "f2", "mode", "pid", "wait"}
      /\ DOMAIN ios[io][a] = {"fd", "m", "w", "r"}
  BY <1>1 DEF StreamType, Slots
<1>5. PICK file : file = [ios[io][a] EXCEPT !.r = x]
  OBVIOUS
<1>6. DOMAIN file = {"fd", "m", "w", "r"} /\ file.fd = ios[io][a].fd
  BY <1>4, <1>5
<1>7. objects = [ios EXCEPT ![io][a] = file]
  BY <1>4, <1>5
<1>8. /\ \A i \in Io \ {io} : objects[i] = ios[i]
      /\ objects[io] = [ios[io] EXCEPT ![a] = file] /\ DOMAIN objects = Io
  BY <1>4, <1>7
<1>9. /\ DOMAIN objects[io] = {"made", "f", "f2", "mode", "pid", "wait"}
      /\ objects[io][a] = file
      /\ \A s \in {"made", "f", "f2", "mode", "pid", "wait"} \ {a} : objects[io][s] = ios[io][s]
  BY <1>4, <1>8 DEF Slots
<1> QED
  BY <1>1, <1>2, <1>3, <1>6, <1>8, <1>9 DEF SameAs, StreamType, Slots

\* Where an object writes is one of its FILEs.
LEMMA WriteSlotOpen ==
  ASSUME StreamInv, NEW io \in Io, IO!Open(io)
  PROVE  ~bad /\ IO!WriteSlot(io) \in Slots /\ ios[io][IO!WriteSlot(io)] # IO!NoFile
BY DEF IO!Open, IO!WriteSlot, Slots

\* Another byte is written to a pipe.
LEMMA WroteMore ==
  ASSUME StreamInv, NEW p, wrote' = [wrote EXCEPT ![p] = @ + 1], UNCHANGED mixed
  PROVE  MoreWritten
<1>1. wrote \in [Pipe -> Int] /\ mixed \in [Pipe -> BOOLEAN]
  BY DEF StreamInv, StreamType
<1>2. CASE p \in Pipe
  BY <1>1, <1>2 DEF MoreWritten
<1>3. CASE p \notin Pipe
  BY <1>1, <1>3 DEF MoreWritten
<1> QED
  BY <1>2, <1>3

\* A pipe is used past the buffers.
LEMMA MixedMore ==
  ASSUME StreamInv, NEW p, mixed' = [mixed EXCEPT ![p] = TRUE],
         \/ UNCHANGED wrote \/ wrote' = [wrote EXCEPT ![p] = @ + 1]
  PROVE  MoreWritten
<1>1. wrote \in [Pipe -> Int] /\ mixed \in [Pipe -> BOOLEAN]
  BY DEF StreamInv, StreamType
<1>2. mixed' \in [Pipe -> BOOLEAN] /\ \A q \in Pipe : mixed[q] => mixed'[q]
  BY <1>1
<1>3. wrote' \in [Pipe -> Int] /\ \A q \in Pipe : wrote[q] >= 0 => wrote'[q] >= 0
  <2>1. CASE UNCHANGED wrote
    BY <1>1, <2>1
  <2>2. CASE wrote' = [wrote EXCEPT ![p] = @ + 1] /\ p \in Pipe
    BY <1>1, <2>2
  <2>3. CASE wrote' = [wrote EXCEPT ![p] = @ + 1] /\ p \notin Pipe
    BY <1>1, <2>3
  <2> QED
    BY <2>1, <2>2, <2>3
<1> QED
  BY <1>2, <1>3 DEF MoreWritten

\* Nothing changes.
LEMMA Unchanging ==
  ASSUME StreamInv
  PROVE  /\ UNCHANGED ios => SameFiles
         /\ UNCHANGED kids => SameKids
         /\ UNCHANGED <<wrote, mixed>> => MoreWritten
BY DEF StreamInv, StreamType, SameFiles, SameAs, SameKids, MoreWritten, Slots

\* io_write and io_flush: a buffer changes.
LEMMA WriteStep ==
  ASSUME StreamInv, IO!io_write \/ IO!io_flush
  PROVE  StreamInv'
<1>1. PICK io \in Io :
        /\ IO!Open(io)
        /\ UNCHANGED ios \/ \E x : ios' = [ios EXCEPT ![io][IO!WriteSlot(io)].w = x]
        /\ UNCHANGED wrote \/ \E p : wrote' = [wrote EXCEPT ![p] = @ + 1]
        /\ UNCHANGED <<fdt, kids, mixed, leak, bad>>
  <2>1. CASE IO!io_write
    <3>1. PICK io \in Io :
        /\ IO!Writable(io)
        /\ wrote' = [wrote EXCEPT ![IO!PipeOf(ios[io][IO!WriteSlot(io)])] = @ + 1]
        /\ \E x : ios' = [ios EXCEPT ![io][IO!WriteSlot(io)].w = x]
        /\ UNCHANGED <<fdt, kids, took, mixed, leak, bad>>
      BY <2>1, Zenon DEF IO!io_write
    <3> QED
      BY <3>1 DEF IO!Writable
  <2>2. CASE IO!io_flush
    BY <2>2, Zenon DEF IO!io_flush, IO!Writable
  <2> QED
    BY <2>1, <2>2
<1>2. SameFiles
  <2>1. CASE UNCHANGED ios
    BY <2>1, Unchanging
  <2>2. ASSUME NEW x, ios' = [ios EXCEPT ![io][IO!WriteSlot(io)].w = x] PROVE SameFiles
    <3>1. PICK a \in Slots : a = IO!WriteSlot(io)
      BY <1>1, WriteSlotOpen
    <3>2. ~bad /\ ios[io][a] # IO!NoFile
      BY <1>1, <3>1, WriteSlotOpen
    <3>3. ios' = [ios EXCEPT ![io][a].w = x]
      BY <2>2, <3>1
    <3>4. PICK objects : objects = ios'
      OBVIOUS
    <3>5. SameAs(objects)
      BY <3>2, <3>3, <3>4, WriteBuffer
    <3> QED
      BY <3>4, <3>5 DEF SameFiles, SameAs
  <2> QED
    BY <1>1, <2>1, <2>2
<1>3. MoreWritten
  <2>1. CASE UNCHANGED wrote
    BY <1>1, <2>1, Unchanging
  <2>2. ASSUME NEW p, wrote' = [wrote EXCEPT ![p] = @ + 1] PROVE MoreWritten
    BY <1>1, <2>2, WroteMore
  <2> QED
    BY <1>1, <2>1, <2>2
<1> QED
  BY <1>1, <1>2, <1>3, Unchanging, StreamKept

\* io_set_sync, io_syswrite and the children: no buffer changes.
LEMMA AsideStep ==
  ASSUME StreamInv, IO!io_set_sync \/ IO!io_syswrite \/ IO!kid_read \/ IO!kid_write \/ IO!kid_exit
  PROVE  StreamInv'
<1>1. CASE IO!io_set_sync
  <2>1. PICK io \in Io : \E m : ios' = [ios EXCEPT ![io].mode = m] /\ UNCHANGED <<fdt, kids, wrote, mixed, leak, bad>>
    BY <1>1, Zenon DEF IO!io_set_sync
  <2>2. SameFiles
    BY <2>1 DEF SameFiles, SameAs, StreamInv, StreamType, Slots
  <2> QED
    BY <2>1, <2>2, Unchanging, StreamKept
<1>2. CASE IO!io_syswrite
  <2>1. PICK p : /\ wrote' = [wrote EXCEPT ![p] = @ + 1]
                 /\ mixed' = [mixed EXCEPT ![p] = TRUE]
                 /\ UNCHANGED <<ios, fdt, kids, leak, bad>>
    BY <1>2, Zenon DEF IO!io_syswrite
  <2>2. MoreWritten
    BY <2>1, MixedMore
  <2> QED
    BY <2>1, <2>2, Unchanging, StreamKept
<1>3. CASE IO!kid_read
  <2>1. UNCHANGED <<ios, fdt, kids, wrote, mixed, leak, bad>>
    BY <1>3 DEF IO!kid_read
  <2> QED
    BY <2>1, Unchanging, StreamKept
<1>4. CASE IO!kid_write
  <2>1. PICK p : wrote' = [wrote EXCEPT ![p] = @ + 1] /\ UNCHANGED <<ios, fdt, kids, mixed, leak, bad>>
    BY <1>4, Zenon DEF IO!kid_write
  <2>2. MoreWritten
    BY <2>1, WroteMore
  <2> QED
    BY <2>1, <2>2, Unchanging, StreamKept
<1>5. CASE IO!kid_exit
  <2>1. PICK k \in Pid : /\ kids' = [kids EXCEPT ![k].st = "dead"]
                         /\ UNCHANGED <<ios, fdt, wrote, mixed, leak, bad>>
    BY <1>5 DEF IO!kid_exit
  <2>2. SameKids
    BY <2>1 DEF SameKids, StreamInv, StreamType
  <2> QED
    BY <2>1, <2>2, Unchanging, StreamKept
<1> QED
  BY <1>1, <1>2, <1>3, <1>4, <1>5

\* The readers: the buffer of a FILE changes.
LEMMA ReadStep ==
  ASSUME StreamInv,
         \/ IO!io_getc \/ IO!io_read \/ IO!read_all \/ IO!io_ungetc \/ IO!io_eof \/ IO!io_sysread
  PROVE  StreamInv'
<1>1. ASSUME NEW io \in Io, NEW x, IO!Open(io), ios' = [ios EXCEPT ![io].f.r = x] PROVE SameFiles
  <2>1. "f" \in Slots /\ ~bad /\ ios[io].f # IO!NoFile
    BY <1>1 DEF IO!Open, Slots
  <2>2. PICK a \in Slots : a = "f"
    BY <2>1
  <2>3. ios' = [ios EXCEPT ![io][a].r = x]
    BY <1>1, <2>2
  <2>4. PICK objects : objects = ios'
    OBVIOUS
  <2>5. SameAs(objects)
    BY <2>1, <2>2, <2>3, <2>4, ReadBuffer
  <2> QED
    BY <2>4, <2>5 DEF SameFiles, SameAs
<1>2. ASSUME NEW io \in Io, NEW n, IO!Read(io, n)
      PROVE  /\ IO!Open(io) /\ UNCHANGED <<fdt, kids, wrote, mixed, leak, bad>>
             /\ \E x : ios' = [ios EXCEPT ![io].f.r = x]
  BY <1>2, Zenon DEF IO!Read, IO!Readable
<1>3. ASSUME IO!io_ungetc \/ IO!io_eof
      PROVE  \E io \in Io : /\ IO!Open(io) /\ UNCHANGED <<fdt, kids, wrote, mixed, leak, bad>>
                            /\ \E x : ios' = [ios EXCEPT ![io].f.r = x]
  BY <1>3, Zenon DEF IO!io_ungetc, IO!io_eof, IO!Readable
<1>4. CASE IO!io_sysread
  <2>1. PICK p : mixed' = [mixed EXCEPT ![p] = TRUE] /\ UNCHANGED <<ios, fdt, kids, wrote, leak, bad>>
    BY <1>4, Zenon DEF IO!io_sysread
  <2>2. MoreWritten
    BY <2>1, MixedMore
  <2> QED
    BY <2>1, <2>2, Unchanging, StreamKept
<1>5. CASE ~IO!io_sysread
  <2>1. PICK io \in Io : /\ IO!Open(io) /\ UNCHANGED <<fdt, kids, wrote, mixed, leak, bad>>
                         /\ \E x : ios' = [ios EXCEPT ![io].f.r = x]
    <3>1. CASE IO!io_ungetc \/ IO!io_eof
      BY <3>1, <1>3
    <3>2. CASE IO!io_getc \/ IO!io_read \/ IO!read_all
      <4>1. PICK io \in Io, n \in {1, 2, -1} : IO!Read(io, n)
        BY <3>2 DEF IO!io_getc, IO!io_read, IO!read_all
      <4> QED
        BY <4>1, <1>2
    <3> QED
      BY <1>5, <3>1, <3>2
  <2>2. SameFiles
    BY <2>1, <1>1
  <2> QED
    BY <2>1, <2>2, Unchanging, StreamKept
<1> QED
  BY <1>4, <1>5

\* Closed descriptors face no child.
LEMMA FacingLess ==
  ASSUME StreamType, NEW D, fdt' = [d \in Fd |-> IF d \in D THEN IO!NoEnd ELSE fdt[d]], UNCHANGED kids
  PROVE  \A k \in Pid : Facing(k)' = Facing(k) \ D
<1>1. \A k \in Pid : \A e \in kids[k].holds : e[2] \in {"r", "w"}
  BY DEF StreamType, IO!Ends
<1>2. \A e : e[2] \in {"r", "w"} => Other(e) # IO!NoEnd
  BY DEF Other, IO!NoEnd
<1> QED
  BY <1>1, <1>2 DEF Facing

\* A new object or a closed one
LEMMA MadeShape ==
  ASSUME NEW i, NEW f, NEW f2, NEW mode, NEW pid
  PROVE  LET x == IO!Made(i, f, f2, mode, pid)
         IN  /\ DOMAIN x = {"made", "f", "f2", "mode", "pid", "wait"}
             /\ x.made = TRUE /\ x.f = f /\ x.f2 = f2 /\ x.mode = mode /\ x.pid = pid /\ x.wait = FALSE
BY DEF IO!Made, IO!NoIo

LEMMA NoneShape ==
  /\ DOMAIN IO!NoFile = {"fd", "m", "w", "r"} /\ IO!NoFile.fd = 0
  /\ DOMAIN IO!NoIo = {"made", "f", "f2", "mode", "pid", "wait"}
  /\ IO!NoIo.made = FALSE /\ IO!NoIo.wait = FALSE /\ IO!NoIo.pid = IO!NoPid
  /\ IO!NoIo.f = IO!NoFile /\ IO!NoIo.f2 = IO!NoFile
BY DEF IO!NoFile, IO!NoIo, IO!None

\* io_close: the descriptors of one object are closed.
LEMMA CloseStep == ASSUME StreamInv, IO!io_close PROVE StreamInv'
<1>1. StreamType /\ PipesBegun /\ WaitersFree
  BY DEF StreamInv
<1>2. PICK io \in Io :
        /\ IO!Open(io)
        /\ fdt' = IO!Without({file.fd : file \in {ios[io].f, ios[io].f2} \ {IO!NoFile}})
        /\ ios' = [ios EXCEPT ![io] =
             IF ios[io].pid = IO!NoPid THEN IO!NoIo
             ELSE [IO!Made(io, IO!NoFile, IO!NoFile, {}, ios[io].pid) EXCEPT !.wait = TRUE]]
        /\ UNCHANGED <<kids, wrote, mixed, leak, bad>>
  BY Zenon DEF IO!io_close
<1>3. ~bad /\ FilesOwn /\ ChildrenOwn /\ ios[io].f # IO!NoFile
  BY <1>2 DEF IO!Open, StreamInv
<1> DEFINE D == {file.fd : file \in {ios[io].f, ios[io].f2} \ {IO!NoFile}}
<1>4. fdt' = [d \in Fd |-> IF d \in D THEN IO!NoEnd ELSE fdt[d]]
  BY <1>2 DEF IO!Without
<1>5. \A d : d \in D <=> \E a \in Slots : ios[io][a] # IO!NoFile /\ ios[io][a].fd = d
  BY DEF Slots
<1>6. /\ DOMAIN ios'[io] = {"made", "f", "f2", "mode", "pid", "wait"}
      /\ ios'[io].f = IO!NoFile /\ ios'[io].f2 = IO!NoFile
      /\ ios'[io].made \in BOOLEAN /\ ios'[io].wait \in BOOLEAN
      /\ ios'[io].pid = ios[io].pid /\ ios'[io].wait = (ios[io].pid # IO!NoPid)
  <2>1. PICK x : x = IO!Made(io, IO!NoFile, IO!NoFile, {}, ios[io].pid)
    OBVIOUS
  <2>2. /\ DOMAIN x = {"made", "f", "f2", "mode", "pid", "wait"}
        /\ x.made = TRUE /\ x.f = IO!NoFile /\ x.f2 = IO!NoFile /\ x.pid = ios[io].pid
    BY <2>1 DEF IO!Made, IO!NoIo
  <2>3. ios'[io] = IF ios[io].pid = IO!NoPid THEN IO!NoIo ELSE [x EXCEPT !.wait = TRUE]
    BY <1>1, <1>2, <2>1 DEF StreamType
  <2> QED
    BY <2>2, <2>3, NoneShape
<1>7. DOMAIN ios' = Io /\ \A i \in Io \ {io} : ios'[i] = ios[i]
  BY <1>1, <1>2 DEF StreamType
<1> HIDE DEF D
<1>8. StreamType'
  BY <1>1, <1>2, <1>4, <1>6, <1>7, NoneShape DEF StreamType
<1>9. PipesBegun'
  BY <1>1, <1>2, <1>4 DEF PipesBegun
<1>10. \A k \in Pid : Facing(k)' = Facing(k) \ D /\ Copied(k)' = Copied(k)
  BY <1>1, <1>2, <1>4, FacingLess DEF Copied
<1>11. WaitersFree'
  <2>1. ASSUME NEW k \in Pid, ios[io].pid = k
        PROVE  kids[k].st # "none" /\ (Copied(k) \/ Facing(k) \ D = {})
    <3>1. /\ kids[k].st # "none"
          /\ Copied(k) \/ \A d \in Facing(k) : \E a \in Slots : ios[io][a].fd = d
      BY <1>3, <2>1 DEF ChildrenOwn, ChildOwn
    <3>2. \A d \in Facing(k), a \in Slots : ios[io][a].fd = d => ios[io][a] # IO!NoFile
      BY ObjectsAssumption, NoneShape DEF Facing
    <3> QED
      BY <3>1, <3>2, <1>5
  <2>2. ios'[io].wait => ios'[io].pid \in Pid
    BY <1>1, <1>6 DEF StreamType
  <2> QED
    BY <1>1, <1>2, <1>6, <1>7, <1>10, <2>1, <2>2 DEF WaitersFree
<1>12. FilesOwn'
  <2>1. \A i \in Io \ {io}, a \in Slots : ios[i][a] # IO!NoFile => ios[i][a].fd \notin D
    BY <1>3, <1>5 DEF FilesOwn
  <2>2. \A i \in Io, a \in Slots : ios'[i][a] # IO!NoFile => i # io /\ ios'[i][a] = ios[i][a]
    BY <1>6, <1>7 DEF Slots
  <2>3. \A i \in Io, a \in Slots : ios'[i][a] # IO!NoFile =>
          ios'[i][a].fd \in Fd /\ fdt'[ios'[i][a].fd] # IO!NoEnd /\ ios'[i][a].fd \notin leak'
    <3> SUFFICES ASSUME NEW i \in Io, NEW a \in Slots, ios'[i][a] # IO!NoFile
                 PROVE  /\ ios'[i][a].fd \in Fd /\ ios'[i][a].fd \notin leak'
                        /\ fdt'[ios'[i][a].fd] # IO!NoEnd
      BY Zenon
    <3>1. i \in Io \ {io} /\ ios'[i][a] = ios[i][a] /\ ios[i][a] # IO!NoFile
      BY <2>2
    <3>2. PICK d : d = ios[i][a].fd
      OBVIOUS
    <3>3. d \in Fd /\ fdt[d] # IO!NoEnd /\ d \notin leak /\ d \notin D
      BY <1>3, <2>1, <3>1, <3>2 DEF FilesOwn
    <3>4. fdt'[d] = fdt[d]
      BY <1>4, <3>3
    <3> QED
      BY <1>2, <3>1, <3>2, <3>3, <3>4
  <2>4. \A i, j \in Io, a, b \in Slots :
         ios'[i][a] # IO!NoFile /\ ios'[j][b] # IO!NoFile /\ ios'[i][a].fd = ios'[j][b].fd => i = j /\ a = b
    BY <1>3, <2>2 DEF FilesOwn
  <2>5. ASSUME NEW d \in Fd, fdt'[d] # IO!NoEnd PROVE d \in leak' \/ \E i \in Io, a \in Slots : ios'[i][a].fd = d
    <3>1. d \notin D /\ fdt[d] # IO!NoEnd
      BY <1>4, <2>5
    <3>2. CASE d \in leak
      BY <3>2, <1>2
    <3>3. ASSUME NEW i \in Io, NEW a \in Slots, ios[i][a].fd = d PROVE ios'[i][a].fd = d
      BY <1>5, <1>7, <3>1, <3>3, ObjectsAssumption, NoneShape
    <3> QED
      BY <1>3, <3>1, <3>2, <3>3 DEF FilesOwn
  <2>6. \A d \in leak' : fdt'[d] # IO!NoEnd
    BY <1>1, <1>2, <1>3, <1>4, <1>5 DEF FilesOwn, StreamType
  <2>7. \A i \in Io : ~ios'[i].made \/ ios'[i].wait \/ ios'[i].f = IO!NoFile =>
                     ios'[i].f = IO!NoFile /\ ios'[i].f2 = IO!NoFile
    BY <1>3, <1>6, <1>7 DEF FilesOwn
  <2> QED
    BY <2>3, <2>4, <2>5, <2>6, <2>7 DEF FilesOwn
<1>13. ChildrenOwn'
  <2>1. ASSUME NEW i \in Io, ios'[i].f # IO!NoFile PROVE ios'[i] = ios[i] /\ ios[i].f.fd \in Fd \ D
    BY <1>3, <1>5, <1>6, <1>7, <2>1 DEF FilesOwn, Slots
  <2> SUFFICES ASSUME NEW i \in Io, NEW k \in Pid, ios'[i].f # IO!NoFile, ios'[i].pid = k
               PROVE  ChildOwn(i, k)'
    BY DEF ChildrenOwn
  <2>2. ios'[i] = ios[i] /\ ios[i].f # IO!NoFile /\ ios[i].pid = k
    BY <2>1
  <2>3. fdt'[ios[i].f.fd] = fdt[ios[i].f.fd]
    BY <1>4, <2>1
  <2>4. ChildOwn(i, k)
    BY <1>3, <2>2 DEF ChildrenOwn
  <2>5. kids[k].st # "none"
    BY <2>4 DEF ChildOwn
  <2> QED
    BY <1>2, <1>10, <2>2, <2>3, <2>4, <2>5, ChildKept
<1> QED
  BY <1>8, <1>9, <1>11, <1>12, <1>13 DEF StreamInv

\* io_close_waited: the child has gone.
LEMMA WaitedStep == ASSUME StreamInv, IO!io_close_waited PROVE StreamInv'
<1>1. StreamType /\ PipesBegun /\ WaitersFree
  BY DEF StreamInv
<1>2. PICK io \in Io : /\ ios[io].wait
                       /\ kids' = [kids EXCEPT ![ios[io].pid].st = "reaped"]
                       /\ ios' = [ios EXCEPT ![io] = IO!NoIo]
                       /\ UNCHANGED <<fdt, wrote, mixed, leak, bad>>
  BY DEF IO!io_close_waited
<1>3. PICK k \in Pid : k = ios[io].pid
  BY <1>1, <1>2 DEF WaitersFree
<1>4. SameKids
  BY <1>1, <1>2, <1>3 DEF SameKids, StreamType
<1>5. /\ \A i \in Io \ {io} : ios'[i] = ios[i]
      /\ ios'[io] = IO!NoIo /\ DOMAIN ios' = Io
  BY <1>1, <1>2 DEF StreamType
<1>6. StreamType'
  BY <1>1, <1>2, <1>4, <1>5, NoneShape DEF StreamType, SameKids
<1>7. PipesBegun'
  BY <1>1, <1>2, <1>4 DEF PipesBegun, SameKids
<1>8. \A j \in Pid : Facing(j)' = Facing(j) /\ Copied(j)' = Copied(j)
  BY <1>2, <1>4 DEF Facing, Copied, SameKids
<1>9. WaitersFree'
  <2> SUFFICES ASSUME NEW i \in Io, ios'[i].wait
               PROVE  ios'[i].pid \in Pid /\ \A j \in Pid : ios'[i].pid = j =>
                        kids'[j].st # "none" /\ (Copied(j)' \/ Facing(j)' = {})
    BY DEF WaitersFree
  <2>1. ios'[i] = ios[i]
    BY <1>5, NoneShape
  <2>2. ios[i].pid \in Pid /\ \A j \in Pid : ios[i].pid = j =>
          kids[j].st # "none" /\ (Copied(j) \/ Facing(j) = {})
    BY <1>1, <2>1 DEF WaitersFree
  <2> QED
    BY <1>4, <1>8, <2>1, <2>2 DEF SameKids
<1>10. ASSUME ~bad' PROVE FilesOwn' /\ ChildrenOwn'
  <2>1. FilesOwn /\ ChildrenOwn
    BY <1>2, <1>10 DEF StreamInv
  <2>2. ios[io].f = IO!NoFile /\ ios[io].f2 = IO!NoFile
    BY <1>2, <2>1 DEF FilesOwn
  <2>3. \A i \in Io, a \in Slots : ios'[i][a] = ios[i][a]
    BY <1>5, <2>2, NoneShape DEF Slots
  <2>4. \A i \in Io : ios'[i] = ios[i] \/ ios'[i] = IO!NoIo
    BY <1>5
  <2>5. FilesOwn'
    BY <1>2, <2>1, <2>3, <2>4, NoneShape DEF FilesOwn
  <2>6. ChildrenOwn'
    <3> SUFFICES ASSUME NEW i \in Io, NEW j \in Pid, ios'[i].f # IO!NoFile, ios'[i].pid = j
                 PROVE  ChildOwn(i, j)'
      BY DEF ChildrenOwn
    <3>1. ios'[i] = ios[i]
      BY <2>4, NoneShape
    <3>2. ChildOwn(i, j)
      BY <2>1, <3>1 DEF ChildrenOwn
    <3>3. kids'[j].st # "none"
      BY <1>4, <3>2 DEF ChildOwn, SameKids
    <3> QED
      BY <1>2, <1>4, <1>8, <3>1, <3>2, <3>3, ChildKept DEF SameKids
  <2> QED
    BY <2>5, <2>6
<1> QED
  BY <1>6, <1>7, <1>9, <1>10 DEF StreamInv

\* A descriptor that is free, and the lowest one
LEMMA LowestFree ==
  ASSUME NEW S, S \subseteq Fd, S # {}
  PROVE  IO!Min(S) \in S
<1>1. S \in SUBSET Nat
  BY ObjectsAssumption
<1>2. \E x \in S : \A y \in S : x <= y
  BY <1>1, LeastNumber
<1> QED
  BY <1>2, Zenon DEF IO!Min

\* An object that is not in use
LEMMA NewObject ==
  ASSUME IO!FreeIo # {}
  PROVE  IO!NewIo \in Io /\ ~ios[IO!NewIo].made
BY DEF IO!NewIo, IO!FreeIo

\* The file that opens on a descriptor
LEMMA FileShape ==
  ASSUME NEW d, NEW e
  PROVE  /\ DOMAIN IO!FileOn(d, e) = {"fd", "m", "w", "r"} /\ IO!FileOn(d, e).fd = d
         /\ d # 0 => IO!FileOn(d, e) # IO!NoFile
BY DEF IO!FileOn, IO!NoFile, IO!None

\* An object x of its own takes the place of i, and has the descriptor d for the end e that
\* orig has; D is d and what i had.
SecondEnd(orig, i, D, d, e, x, mid) ==
  /\ ~bad /\ i # orig /\ ios[orig].f # IO!NoFile /\ e = fdt[ios[orig].f.fd]
  /\ d \in D /\ D \cap leak = {}
  /\ \A j \in Io \ {i}, s \in Slots : ios[j][s] # IO!NoFile => ios[j][s].fd \notin D
  /\ \A s \in Slots : ios[i][s] # IO!NoFile => ios[i][s].fd \in D
  /\ DOMAIN x = {"made", "f", "f2", "mode", "pid", "wait"}
  /\ x.made = TRUE /\ x.wait = FALSE /\ x.pid = ios[orig].pid
  /\ x.f = IO!FileOn(d, e) /\ x.f2 = IO!NoFile
  /\ SameAs(mid) /\ ios' = [mid EXCEPT ![i] = x]
  /\ fdt' = [c \in Fd |-> IF c = d THEN e ELSE IF c \in D THEN IO!NoEnd ELSE fdt[c]]
  /\ mixed' = [mixed EXCEPT ![e[1]] = TRUE]
  /\ UNCHANGED <<kids, wrote, leak>> /\ bad' \in BOOLEAN

\* It keeps the invariant.
LEMMA SecondEndStep ==
  ASSUME StreamInv, NEW orig \in Io, NEW i \in Io, NEW D \in SUBSET Fd, NEW d \in Fd, NEW e, NEW x,
         NEW mid, SecondEnd(orig, i, D, d, e, x, mid)
  PROVE  StreamInv'
<1>1. StreamType /\ PipesBegun /\ WaitersFree
  BY DEF StreamInv
<1>u. UNCHANGED <<kids, wrote, leak>> /\ bad' \in BOOLEAN
  BY DEF SecondEnd
<1>m. mixed' = [mixed EXCEPT ![e[1]] = TRUE]
  BY DEF SecondEnd
<1>3. ~bad /\ FilesOwn /\ ChildrenOwn /\ ios[orig].f # IO!NoFile
  BY DEF StreamInv, SecondEnd
<1>6. e = fdt[ios[orig].f.fd]
  BY DEF SecondEnd
<1>7. /\ e \in IO!Ends /\ e # IO!NoEnd /\ e[1] \in Pipe /\ wrote[e[1]] >= 0
  <2>1. "f" \in Slots
    BY DEF Slots
  <2>2. ios[orig].f.fd \in Fd /\ e # IO!NoEnd
    BY <1>3, <1>6, <2>1 DEF FilesOwn
  <2> QED
    BY <1>1, <1>6, <2>2 DEF StreamType, PipesBegun, IO!Ends
<1>11. /\ DOMAIN x = {"made", "f", "f2", "mode", "pid", "wait"}
       /\ x.made = TRUE /\ x.wait = FALSE /\ x.pid = ios[orig].pid
       /\ x.f = IO!FileOn(d, e) /\ x.f2 = IO!NoFile
  BY DEF SecondEnd
<1>12. x.f.fd = d /\ DOMAIN x.f = {"fd", "m", "w", "r"} /\ x.f # IO!NoFile
  BY <1>11, FileShape, ObjectsAssumption
<1>16. SameAs(mid) /\ ios' = [mid EXCEPT ![i] = x]
  BY DEF SecondEnd
<1>17. DOMAIN ios' = Io /\ ios'[i] = x /\ \A j \in Io \ {i} : ios'[j] = mid[j]
  BY <1>16 DEF SameAs
<1>19. /\ fdt' = [c \in Fd |-> IF c = d THEN e ELSE IF c \in D THEN IO!NoEnd ELSE fdt[c]]
       /\ \A k \in Pid : Copied(k) => Copied(k)'
  <2>1. \A k \in Pid : \A h \in kids[k].holds : h[1] \in Pipe
    BY <1>1 DEF StreamType, IO!Ends
  <2>2. \A k \in Pid : Copied(k) => Copied(k)'
    BY <1>1, <1>u, <1>m, <2>1 DEF Copied, StreamType
  <2> QED
    BY <2>2 DEF SecondEnd
<1>4. d \in Fd
  OBVIOUS
<1>5. /\ i # orig /\ d \in D /\ D \cap leak = {}
      /\ \A j \in Io \ {i}, s \in Slots : ios[j][s] # IO!NoFile => ios[j][s].fd \notin D
      /\ \A s \in Slots : ios[i][s] # IO!NoFile => ios[i][s].fd \in D
  BY DEF SecondEnd
<1>18. StreamType'
  <2>1. fdt' \in [Fd -> IO!Ends \cup {IO!NoEnd}] /\ mixed' \in [Pipe -> BOOLEAN]
    BY <1>1, <1>4, <1>7, <1>19, <1>m DEF StreamType
  <2>2. \A j \in Io :
          /\ DOMAIN ios'[j] = {"made", "f", "f2", "mode", "pid", "wait"}
          /\ DOMAIN ios'[j].f = {"fd", "m", "w", "r"} /\ DOMAIN ios'[j].f2 = {"fd", "m", "w", "r"}
          /\ ios'[j].made \in BOOLEAN /\ ios'[j].wait \in BOOLEAN /\ ios'[j].pid \in Pid \cup {IO!NoPid}
    <3> TAKE j \in Io
    <3>1. CASE j = i
      BY <1>1, <1>11, <1>12, <1>17, <3>1, NoneShape DEF StreamType
    <3>2. CASE j # i
      BY <1>1, <1>16, <1>17, <3>2 DEF StreamType, SameAs
    <3> QED
      BY <3>1, <3>2
  <2> QED
    BY <1>1, <1>u, <1>17, <2>1, <2>2 DEF StreamType
<1>20. PipesBegun'
  BY <1>1, <1>u, <1>4, <1>7, <1>19 DEF PipesBegun, StreamType
\* A child it faces has a pipe that there is now another end of.
<1>21. \A k \in Pid : Copied(k)' \/ Facing(k)' \subseteq Facing(k)
  <2> SUFFICES ASSUME NEW k \in Pid, ~Copied(k)' PROVE Facing(k)' \subseteq Facing(k)
    OBVIOUS
  <2>1. \A h \in kids[k].holds : h[1] # e[1]
    BY <1>1, <1>u, <1>m, <1>7 DEF Copied, StreamType
  <2>2. \A h \in kids[k].holds : e # Other(h) /\ IO!NoEnd # Other(h)
    BY <1>1, <2>1 DEF Other, IO!NoEnd, StreamType, IO!Ends
  <2>3. \A c \in Fd : fdt'[c] \in {e, IO!NoEnd, fdt[c]}
    BY <1>19
  <2> QED
    BY <1>u, <2>2, <2>3 DEF Facing
<1>22. WaitersFree'
  <2> SUFFICES ASSUME NEW j \in Io, ios'[j].wait
               PROVE  ios'[j].pid \in Pid /\ \A k \in Pid : ios'[j].pid = k =>
                        kids'[k].st # "none" /\ (Copied(k)' \/ Facing(k)' = {})
    BY DEF WaitersFree
  <2>1. j # i /\ ios[j].wait /\ ios'[j].pid = ios[j].pid
    BY <1>11, <1>16, <1>17 DEF SameAs
  <2>2. ios[j].pid \in Pid /\ \A k \in Pid : ios[j].pid = k =>
          kids[k].st # "none" /\ (Copied(k) \/ Facing(k) = {})
    BY <1>1, <2>1 DEF WaitersFree
  <2> QED
    BY <1>u, <1>19, <1>21, <2>1, <2>2
<1>23. \A j \in Io \ {i}, s \in Slots : ios[j][s] # IO!NoFile => ios[j][s].fd \in Fd \ D
  BY <1>3, <1>5 DEF FilesOwn
<1>24. /\ \A j \in Io \ {i}, s \in Slots :
            ios'[j][s].fd = ios[j][s].fd /\ (ios'[j][s] = IO!NoFile <=> ios[j][s] = IO!NoFile)
       /\ \A j \in Io \ {i} : /\ ios'[j].made = ios[j].made /\ ios'[j].wait = ios[j].wait
                              /\ ios'[j].pid = ios[j].pid
  BY <1>16, <1>17 DEF SameAs
<1>25. FilesOwn'
  <2>1. \A j \in Io, s \in Slots : ios'[j][s] # IO!NoFile =>
          \/ j = i /\ s = "f" /\ ios'[j][s].fd = d
          \/ j # i /\ ios[j][s] # IO!NoFile /\ ios'[j][s].fd = ios[j][s].fd
    BY <1>11, <1>12, <1>17, <1>24 DEF Slots
  <2>2. d \notin leak
    BY <1>5
  <2>3. ASSUME NEW j \in Io, NEW s \in Slots, ios'[j][s] # IO!NoFile
        PROVE  /\ ios'[j][s].fd \in Fd /\ ios'[j][s].fd \notin leak'
               /\ fdt'[ios'[j][s].fd] # IO!NoEnd
    <3>1. PICK c : c = ios'[j][s].fd
      OBVIOUS
    <3>2. c = d \/ (c \in Fd \ D /\ fdt[c] # IO!NoEnd /\ c \notin leak)
      BY <1>3, <1>23, <2>1, <2>3, <3>1 DEF FilesOwn
    <3>3. c \in Fd /\ fdt'[c] # IO!NoEnd /\ c \notin leak
      BY <1>1, <1>7, <1>19, <2>2, <3>2 DEF StreamType
    <3> QED
      BY <1>u, <3>1, <3>3
  <2>4. \A j, l \in Io, s, b \in Slots :
         ios'[j][s] # IO!NoFile /\ ios'[l][b] # IO!NoFile /\ ios'[j][s].fd = ios'[l][b].fd => j = l /\ s = b
    BY <1>3, <1>5, <1>23, <2>1 DEF FilesOwn
  <2>5. ASSUME NEW c \in Fd, fdt'[c] # IO!NoEnd
        PROVE  c \in leak' \/ \E j \in Io, s \in Slots : ios'[j][s].fd = c
    <3>1. CASE c = d
      BY <1>12, <1>11, <1>17, <3>1 DEF Slots
    <3>2. CASE c # d
      <4>1. fdt[c] # IO!NoEnd /\ c \notin D
        BY <1>19, <2>5, <3>2
      <4>2. CASE c \in leak
        BY <1>u, <4>2
      <4>3. ASSUME NEW j \in Io, NEW s \in Slots, ios[j][s].fd = c PROVE ios'[j][s].fd = c
        <5>1. ios[j][s] # IO!NoFile
          BY <4>3, NoneShape, ObjectsAssumption
        <5>2. j # i
          BY <1>5, <4>1, <4>3, <5>1
        <5> QED
          BY <1>24, <4>3, <5>2
      <4> QED
        BY <1>3, <4>1, <4>2, <4>3 DEF FilesOwn
    <3> QED
      BY <3>1, <3>2
  <2>6. \A c \in leak' : fdt'[c] # IO!NoEnd
    BY <1>1, <1>u, <1>3, <1>5, <1>7, <1>19 DEF FilesOwn, StreamType
  <2>7. \A j \in Io : ~ios'[j].made \/ ios'[j].wait \/ ios'[j].f = IO!NoFile =>
                     ios'[j].f = IO!NoFile /\ ios'[j].f2 = IO!NoFile
    <3> TAKE j \in Io
    <3>1. CASE j = i
      BY <1>11, <1>12, <1>17, <3>1
    <3>2. CASE j # i
      BY <1>3, <1>24, <3>2 DEF FilesOwn, Slots
    <3> QED
      BY <3>1, <3>2
  <2> QED
    BY <2>3, <2>4, <2>5, <2>6, <2>7 DEF FilesOwn
<1>26. ChildrenOwn'
  <2> SUFFICES ASSUME NEW j \in Io, NEW k \in Pid, ios'[j].f # IO!NoFile, ios'[j].pid = k
               PROVE  ChildOwn(j, k)'
    BY DEF ChildrenOwn
  <2>1. CASE j = i
    <3>1. ios[orig].pid = k /\ ChildOwn(orig, k)
      BY <1>3, <1>11, <1>17, <2>1 DEF ChildrenOwn
    <3>2. PICK h \in kids[k].holds : h[1] = e[1]
      BY <1>6, <3>1 DEF ChildOwn
    <3>3. Copied(k)'
      BY <1>1, <1>u, <1>m, <1>7, <3>2 DEF Copied, StreamType
    <3>4. fdt'[ios'[j].f.fd] = e
      BY <1>1, <1>11, <1>12, <1>17, <1>19, <2>1 DEF StreamType
    <3> QED
      BY <1>u, <3>1, <3>2, <3>3, <3>4 DEF ChildOwn
  <2>2. CASE j # i
    <3>1. ios[j].f # IO!NoFile /\ ios[j].pid = k
      BY <1>24, <2>2 DEF Slots
    <3>2. ChildOwn(j, k)
      BY <1>3, <3>1 DEF ChildrenOwn
    <3>3. fdt'[ios[j].f.fd] = fdt[ios[j].f.fd]
      BY <1>4, <1>5, <1>19, <1>23, <2>2, <3>1 DEF Slots
    <3>4. ios'[j].f.fd = ios[j].f.fd /\ ios'[j].f2.fd = ios[j].f2.fd
      BY <1>24, <2>2 DEF Slots
    <3>5. kids'[k].st # "none"
      BY <1>u, <3>2 DEF ChildOwn
    <3>6. CASE Facing(k)' \subseteq Facing(k)
      BY <1>u, <1>19, <3>2, <3>3, <3>4, <3>5, <3>6, ChildKept
    <3>7. CASE Copied(k)'
      BY <1>u, <3>2, <3>3, <3>4, <3>5, <3>7 DEF ChildOwn
    <3> QED
      BY <1>21, <3>6, <3>7
  <2> QED
    BY <2>1, <2>2
<1> QED
  BY <1>18, <1>20, <1>22, <1>25, <1>26 DEF StreamInv

\* io_clone: another descriptor for the pipe of one, in a new object.
LEMMA CloneStep == ASSUME StreamInv, IO!io_clone PROVE StreamInv'
<1>1. StreamType /\ PipesBegun /\ WaitersFree
  BY DEF StreamInv
<1>2. PICK orig \in Io :
        /\ IO!Open(orig) /\ IO!FreeIo # {} /\ IO!FreeFds # {}
        /\ fdt' = [fdt EXCEPT ![IO!Min(IO!FreeFds)] = fdt[ios[orig].f.fd]]
        /\ ios' = [ios EXCEPT ![orig][IO!WriteSlot(orig)].w = <<>>,
                     ![IO!NewIo] = IO!Made(IO!NewIo,
                                     IO!FileOn(IO!Min(IO!FreeFds), fdt[ios[orig].f.fd]), IO!NoFile,
                                     ios[orig].mode, ios[orig].pid)]
        /\ mixed' = [mixed EXCEPT ![fdt[ios[orig].f.fd][1]] = TRUE]
        /\ UNCHANGED <<kids, wrote, leak, bad>>
  BY Zenon DEF IO!io_clone
<1>u. UNCHANGED <<kids, wrote, leak, bad>>
  BY <1>2
<1>3. ~bad /\ FilesOwn /\ ChildrenOwn /\ ios[orig].f # IO!NoFile
  BY <1>2 DEF IO!Open, StreamInv
<1>4. PICK d \in Fd : d = IO!Min(IO!FreeFds) /\ fdt[d] = IO!NoEnd
  BY <1>2, LowestFree DEF IO!FreeFds
<1>5. PICK i \in Io : i = IO!NewIo /\ ~ios[i].made
  BY <1>2, NewObject
<1>6. PICK e : e = fdt[ios[orig].f.fd]
  OBVIOUS
<1>7. /\ e \in IO!Ends /\ e # IO!NoEnd /\ e[1] \in Pipe /\ wrote[e[1]] >= 0
  <2>1. "f" \in Slots
    BY DEF Slots
  <2>2. ios[orig].f.fd \in Fd /\ e # IO!NoEnd
    BY <1>3, <1>6, <2>1 DEF FilesOwn
  <2> QED
    BY <1>1, <1>6, <2>2 DEF StreamType, PipesBegun, IO!Ends
<1>8. PICK a \in Slots : a = IO!WriteSlot(orig)
  BY <1>2, WriteSlotOpen
<1>9. ios[orig][a] # IO!NoFile
  BY <1>2, <1>8, WriteSlotOpen
<1>10. PICK x : x = IO!Made(i, IO!FileOn(d, e), IO!NoFile, ios[orig].mode, ios[orig].pid)
  OBVIOUS
<1>11. /\ DOMAIN x = {"made", "f", "f2", "mode", "pid", "wait"}
       /\ x.made = TRUE /\ x.wait = FALSE /\ x.pid = ios[orig].pid
       /\ x.f = IO!FileOn(d, e) /\ x.f2 = IO!NoFile
  BY <1>10 DEF IO!Made, IO!NoIo
<1>12. x.f.fd = d /\ DOMAIN x.f = {"fd", "m", "w", "r"} /\ x.f # IO!NoFile
  BY <1>11, FileShape, ObjectsAssumption
<1>13. i # orig
  BY <1>3, <1>5 DEF FilesOwn
<1>14. PICK mid : mid = [ios EXCEPT ![orig][a].w = <<>>]
  OBVIOUS
<1>15. ios' = [mid EXCEPT ![i] = x]
  BY <1>2, <1>4, <1>5, <1>6, <1>8, <1>10, <1>14
<1>16. SameAs(mid)
  BY <1>3, <1>9, <1>14, WriteBuffer
<1>17. mixed' = [mixed EXCEPT ![e[1]] = TRUE]
  BY <1>2, <1>6
<1>18. PICK D \in SUBSET Fd : D = {d}
  OBVIOUS
<1>19. fdt' = [c \in Fd |-> IF c = d THEN e ELSE IF c \in D THEN IO!NoEnd ELSE fdt[c]]
  BY <1>1, <1>2, <1>4, <1>6, <1>18 DEF StreamType
<1>20. D \cap leak = {} /\ \A j \in Io \ {i}, s \in Slots : ios[j][s] # IO!NoFile => ios[j][s].fd \notin D
  BY <1>3, <1>4, <1>18 DEF FilesOwn
<1>21. \A s \in Slots : ios[i][s] # IO!NoFile => ios[i][s].fd \in D
  BY <1>3, <1>5 DEF FilesOwn, Slots
<1>22. d \in D
  BY <1>18
<1>23. bad' \in BOOLEAN
  BY <1>1, <1>u DEF StreamType
<1> QED
  <2>1. SecondEnd(orig, i, D, d, e, x, mid)
    BY <1>u, <1>3, <1>6, <1>11, <1>13, <1>15, <1>16, <1>17, <1>19, <1>20, <1>21, <1>22, <1>23, Zenon DEF SecondEnd
  <2> QED
    BY <2>1, SecondEndStep

\* io_reopen: the descriptor of one is made another one for the pipe of nfile.
LEMMA ReopenStep == ASSUME StreamInv, IO!io_reopen PROVE StreamInv'
<1>1. StreamType
  BY DEF StreamInv
<1>2. PICK io \in Io, nfile \in Io :
        LET f == ios[io].f
            e == fdt[ios[nfile].f.fd]
            fds == {f.fd} \cup (IF ios[io].f2 = IO!NoFile THEN {} ELSE {ios[io].f2.fd})
        IN  /\ IO!Open(io) /\ IO!Open(nfile) /\ io # nfile
            /\ fdt' = [IO!Without(fds) EXCEPT ![f.fd] = e]
            /\ ios' = [ios EXCEPT ![nfile][IO!WriteSlot(nfile)].w = <<>>,
                 ![io] = IO!Made(io, IO!FileOn(f.fd, e), IO!NoFile, ios[nfile].mode, ios[nfile].pid)]
            /\ mixed' = [mixed EXCEPT ![e[1]] = TRUE]
            /\ bad' = (ios[io].f2 # IO!NoFile /\ ios[nfile].f2 # IO!NoFile)
            /\ UNCHANGED <<kids, wrote, leak>>
  BY Zenon DEF IO!io_reopen
<1>3. UNCHANGED <<kids, wrote, leak>> /\ bad' \in BOOLEAN
  BY <1>2
<1>4. ~bad /\ FilesOwn /\ ios[io].f # IO!NoFile /\ ios[nfile].f # IO!NoFile /\ io # nfile
  BY <1>2 DEF IO!Open, StreamInv
<1>5. PICK d : d = ios[io].f.fd
  OBVIOUS
<1>6. d \in Fd
  BY <1>4, <1>5 DEF FilesOwn, Slots
<1>7. PICK e : e = fdt[ios[nfile].f.fd]
  OBVIOUS
<1>8. PICK D : D = {d} \cup (IF ios[io].f2 = IO!NoFile THEN {} ELSE {ios[io].f2.fd})
  OBVIOUS
<1>9. PICK a \in Slots : a = IO!WriteSlot(nfile)
  BY <1>2, WriteSlotOpen
<1>10. ios[nfile][a] # IO!NoFile
  BY <1>2, <1>9, WriteSlotOpen
<1>11. PICK x : x = IO!Made(io, IO!FileOn(d, e), IO!NoFile, ios[nfile].mode, ios[nfile].pid)
  OBVIOUS
<1>12. /\ DOMAIN x = {"made", "f", "f2", "mode", "pid", "wait"}
       /\ x.made = TRUE /\ x.wait = FALSE /\ x.pid = ios[nfile].pid
       /\ x.f = IO!FileOn(d, e) /\ x.f2 = IO!NoFile
  BY <1>11 DEF IO!Made, IO!NoIo
<1>13. PICK mid : mid = [ios EXCEPT ![nfile][a].w = <<>>]
  OBVIOUS
<1>14. ios' = [mid EXCEPT ![io] = x]
  BY <1>2, <1>5, <1>7, <1>9, <1>11, <1>13
<1>15. SameAs(mid)
  BY <1>4, <1>10, <1>13, WriteBuffer
<1>16. mixed' = [mixed EXCEPT ![e[1]] = TRUE]
  BY <1>2, <1>7
<1>17. fdt' = [IO!Without(D) EXCEPT ![d] = e]
  BY <1>2, <1>5, <1>7, <1>8
<1>18. fdt' = [c \in Fd |-> IF c = d THEN e ELSE IF c \in D THEN IO!NoEnd ELSE fdt[c]]
  BY <1>6, <1>17 DEF IO!Without
<1>19. D \in SUBSET Fd /\ d \in D /\ D \cap leak = {}
  BY <1>4, <1>5, <1>6, <1>8 DEF FilesOwn, Slots
<1>20. \A j \in Io \ {io}, s \in Slots : ios[j][s] # IO!NoFile => ios[j][s].fd \notin D
  BY <1>4, <1>5, <1>8 DEF FilesOwn, Slots
<1>21. \A s \in Slots : ios[io][s] # IO!NoFile => ios[io][s].fd \in D
  BY <1>5, <1>8 DEF Slots
<1>22. SecondEnd(nfile, io, D, d, e, x, mid)
  BY <1>3, <1>4, <1>7, <1>12, <1>14, <1>15, <1>16, <1>18, <1>19, <1>20, <1>21, Zenon DEF SecondEnd
<1> QED
  BY <1>6, <1>19, <1>22, SecondEndStep

\* The objects in G open on the free descriptors N, which have ends of new pipes: each FILE
\* on one of its own, and those that are over are left behind; a new child may have others.
Opened(G, N) ==
  /\ ~bad /\ G \subseteq Io /\ N \subseteq IO!FreeFds
  /\ \A i \in G : ~ios[i].made
  /\ fdt' \in [Fd -> IO!Ends \cup {IO!NoEnd}] /\ \A c \in Fd \ N : fdt'[c] = fdt[c]
  /\ \A c \in N : fdt'[c] # IO!NoEnd /\ wrote[fdt'[c][1]] < 0 /\ wrote'[fdt'[c][1]] >= 0
  /\ wrote' \in [Pipe -> Int] /\ \A p \in Pipe : wrote[p] >= 0 => wrote'[p] >= 0
  /\ mixed' = mixed /\ bad' \in BOOLEAN /\ leak' \in SUBSET Fd
  /\ kids' \in [Pid -> [st : {"none", "run", "dead", "reaped"}, holds : SUBSET IO!Ends]]
  /\ \A k \in Pid : \/ kids'[k] = kids[k]
                    \/ kids[k].st = "none" /\ \A h \in kids'[k].holds : wrote'[h[1]] >= 0
  /\ DOMAIN ios' = Io /\ \A i \in Io \ G : ios'[i] = ios[i]
  /\ \A i \in G :
       /\ DOMAIN ios'[i] = {"made", "f", "f2", "mode", "pid", "wait"}
       /\ DOMAIN ios'[i].f = {"fd", "m", "w", "r"} /\ DOMAIN ios'[i].f2 = {"fd", "m", "w", "r"}
       /\ ios'[i].made = TRUE /\ ios'[i].wait = FALSE /\ ios'[i].pid \in Pid \cup {IO!NoPid}
       /\ ios'[i].f # IO!NoFile
  /\ ~bad' =>
       /\ \A i \in G, a \in Slots : ios'[i][a] # IO!NoFile => ios'[i][a].fd \in N
       /\ \A i, j \in G, a, b \in Slots :
            ios'[i][a] # IO!NoFile /\ ios'[j][b] # IO!NoFile /\ ios'[i][a].fd = ios'[j][b].fd => i = j /\ a = b
       /\ leak' = leak \cup {c \in N : \A i \in G, a \in Slots : ios'[i][a].fd # c}
       /\ \A i \in G, k \in Pid : ios'[i].pid = k => ChildOwn(i, k)'

\* It keeps the invariant.
LEMMA OpenedStep == ASSUME StreamInv, NEW G, NEW N, Opened(G, N) PROVE StreamInv'
<1>1. StreamType /\ PipesBegun /\ WaitersFree /\ FilesOwn /\ ChildrenOwn
  BY DEF StreamInv, Opened
<1>2. /\ fdt' \in [Fd -> IO!Ends \cup {IO!NoEnd}] /\ \A c \in Fd \ N : fdt'[c] = fdt[c]
      /\ \A c \in N : fdt'[c] # IO!NoEnd /\ wrote[fdt'[c][1]] < 0 /\ wrote'[fdt'[c][1]] >= 0
      /\ N \subseteq Fd /\ \A c \in N : fdt[c] = IO!NoEnd
  BY DEF Opened, IO!FreeFds
<1>3. /\ wrote' \in [Pipe -> Int] /\ \A p \in Pipe : wrote[p] >= 0 => wrote'[p] >= 0
      /\ mixed' = mixed /\ bad' \in BOOLEAN /\ leak' \in SUBSET Fd
      /\ kids' \in [Pid -> [st : {"none", "run", "dead", "reaped"}, holds : SUBSET IO!Ends]]
  BY DEF Opened
<1>4. \A k \in Pid : \/ kids'[k] = kids[k]
                     \/ kids[k].st = "none" /\ \A h \in kids'[k].holds : wrote'[h[1]] >= 0
  BY DEF Opened
<1>5. /\ G \subseteq Io /\ DOMAIN ios' = Io /\ \A i \in Io \ G : ios'[i] = ios[i]
      /\ \A i \in G :
           /\ DOMAIN ios'[i] = {"made", "f", "f2", "mode", "pid", "wait"}
           /\ DOMAIN ios'[i].f = {"fd", "m", "w", "r"} /\ DOMAIN ios'[i].f2 = {"fd", "m", "w", "r"}
           /\ ios'[i].made = TRUE /\ ios'[i].wait = FALSE /\ ios'[i].pid \in Pid \cup {IO!NoPid}
           /\ ios'[i].f # IO!NoFile
  BY DEF Opened
<1>6. StreamType'
  <2>1. \A i \in Io :
          /\ DOMAIN ios'[i] = {"made", "f", "f2", "mode", "pid", "wait"}
          /\ DOMAIN ios'[i].f = {"fd", "m", "w", "r"} /\ DOMAIN ios'[i].f2 = {"fd", "m", "w", "r"}
          /\ ios'[i].made \in BOOLEAN /\ ios'[i].wait \in BOOLEAN /\ ios'[i].pid \in Pid \cup {IO!NoPid}
    <3> TAKE i \in Io
    <3>1. CASE i \in G
      BY <1>5, <3>1
    <3>2. CASE i \notin G
      BY <1>1, <1>5, <3>2 DEF StreamType
    <3> QED
      BY <3>1, <3>2
  <2>2. mixed' \in [Pipe -> BOOLEAN]
    BY <1>1, <1>3 DEF StreamType
  <2> QED
    BY <1>2, <1>3, <1>5, <2>1, <2>2 DEF StreamType
<1>7. \A d \in Fd : fdt[d] # IO!NoEnd => fdt[d][1] \in Pipe
  BY <1>1 DEF StreamType, IO!Ends
<1>8. \A k \in Pid : \A h \in kids[k].holds : h[1] \in Pipe /\ h[2] \in {"r", "w"} /\ wrote[h[1]] >= 0
  BY <1>1 DEF StreamType, PipesBegun, IO!Ends
<1>9. PipesBegun'
  <2>1. \A d \in Fd : fdt'[d] # IO!NoEnd => wrote'[fdt'[d][1]] >= 0
    BY <1>1, <1>2, <1>3, <1>7 DEF PipesBegun
  <2>2. \A k \in Pid : \A h \in kids'[k].holds : wrote'[h[1]] >= 0
    BY <1>3, <1>4, <1>8
  <2> QED
    BY <2>1, <2>2 DEF PipesBegun
<1>10. \A k \in Pid : kids'[k] = kids[k] => Facing(k)' = Facing(k) /\ Copied(k)' = Copied(k)
  <2> SUFFICES ASSUME NEW k \in Pid, kids'[k] = kids[k]
               PROVE  Facing(k)' = Facing(k) /\ Copied(k)' = Copied(k)
    OBVIOUS
  <2>1. \A h \in kids[k].holds : Other(h) # IO!NoEnd /\ Other(h)[1] = h[1]
    BY <1>8 DEF Other, IO!NoEnd
  <2>2. ASSUME NEW h \in kids[k].holds, NEW c \in Fd PROVE fdt'[c] = Other(h) <=> fdt[c] = Other(h)
    <3>1. CASE c \in N
      <4>1. fdt'[c] # Other(h)
        <5>1. PICK m \in Int : m = wrote[h[1]]
          BY <1>1, <1>8 DEF StreamType
        <5>2. m >= 0
          BY <1>8, <5>1
        <5>3. wrote[fdt'[c][1]] < 0
          BY <1>2, <3>1
        <5>4. ASSUME fdt'[c] = Other(h) PROVE FALSE
          <6>1. wrote[fdt'[c][1]] = m
            BY <2>1, <5>1, <5>4
          <6> QED
            BY <5>2, <5>3, <6>1
        <5> QED
          BY <5>4
      <4> QED
        BY <1>2, <2>1, <3>1, <4>1
    <3>2. CASE c \notin N
      BY <1>2, <3>2
    <3> QED
      BY <3>1, <3>2
  <2> QED
    BY <1>3, <2>2 DEF Facing, Copied
<1>11. WaitersFree'
  <2> SUFFICES ASSUME NEW i \in Io, ios'[i].wait
               PROVE  ios'[i].pid \in Pid /\ \A k \in Pid : ios'[i].pid = k =>
                        kids'[k].st # "none" /\ (Copied(k)' \/ Facing(k)' = {})
    BY DEF WaitersFree
  <2>1. ios'[i] = ios[i]
    BY <1>5
  <2>2. ios[i].pid \in Pid /\ \A k \in Pid : ios[i].pid = k =>
          kids[k].st # "none" /\ (Copied(k) \/ Facing(k) = {})
    BY <1>1, <2>1 DEF WaitersFree
  <2>3. \A k \in Pid : ios[i].pid = k => kids'[k] = kids[k]
    BY <1>4, <2>2
  <2> QED
    BY <1>10, <2>1, <2>2, <2>3
<1>12. ASSUME ~bad' PROVE FilesOwn' /\ ChildrenOwn'
  <2>1. /\ \A i \in G, a \in Slots : ios'[i][a] # IO!NoFile => ios'[i][a].fd \in N
        /\ \A i, j \in G, a, b \in Slots :
             ios'[i][a] # IO!NoFile /\ ios'[j][b] # IO!NoFile /\ ios'[i][a].fd = ios'[j][b].fd => i = j /\ a = b
        /\ leak' = leak \cup {c \in N : \A i \in G, a \in Slots : ios'[i][a].fd # c}
        /\ \A i \in G, k \in Pid : ios'[i].pid = k => ChildOwn(i, k)'
    BY <1>12 DEF Opened
  <2>2. \A i \in G : ios[i].f = IO!NoFile /\ ios[i].f2 = IO!NoFile
    BY <1>1, <1>5 DEF FilesOwn, Opened
  <2>3. \A i \in Io, a \in Slots : ios[i][a] # IO!NoFile =>
          /\ i \in Io \ G /\ ios[i][a].fd \in Fd \ N /\ ios[i][a].fd \notin leak'
          /\ fdt'[ios[i][a].fd] = fdt[ios[i][a].fd] /\ fdt[ios[i][a].fd] # IO!NoEnd
    <3> SUFFICES ASSUME NEW i \in Io, NEW a \in Slots, ios[i][a] # IO!NoFile
                 PROVE  /\ i \in Io \ G /\ ios[i][a].fd \in Fd \ N /\ ios[i][a].fd \notin leak'
                        /\ fdt'[ios[i][a].fd] = fdt[ios[i][a].fd] /\ fdt[ios[i][a].fd] # IO!NoEnd
      BY Zenon
    <3>1. PICK c : c = ios[i][a].fd
      OBVIOUS
    <3>2. c \in Fd /\ fdt[c] # IO!NoEnd /\ c \notin leak
      BY <1>1, <3>1 DEF FilesOwn
    <3>3. c \notin N
      BY <1>2, <3>2
    <3>4. c \notin leak' /\ fdt'[c] = fdt[c] /\ i \notin G
      BY <1>2, <2>1, <2>2, <3>2, <3>3 DEF Slots
    <3> QED
      BY <3>1, <3>2, <3>3, <3>4
  <2>4. FilesOwn'
    <3>1. ASSUME NEW i \in Io, NEW a \in Slots, ios'[i][a] # IO!NoFile
          PROVE  ios'[i][a].fd \in Fd /\ fdt'[ios'[i][a].fd] # IO!NoEnd /\ ios'[i][a].fd \notin leak'
      <4>1. CASE i \in G
        <5>1. PICK c \in N : c = ios'[i][a].fd
          BY <2>1, <3>1, <4>1
        <5>2. c \notin leak
          BY <1>1, <1>2 DEF FilesOwn
        <5>3. c \notin leak'
          BY <2>1, <4>1, <5>1, <5>2
        <5> QED
          BY <1>2, <5>1, <5>3
      <4>2. CASE i \notin G
        BY <1>5, <2>3, <3>1, <4>2
      <4> QED
        BY <4>1, <4>2
    <3>2. ASSUME NEW i \in Io, NEW j \in Io, NEW a \in Slots, NEW b \in Slots,
                 ios'[i][a] # IO!NoFile, ios'[j][b] # IO!NoFile, ios'[i][a].fd = ios'[j][b].fd
          PROVE  i = j /\ a = b
      <4>1. CASE i \in G /\ j \in G
        BY <2>1, <3>2, <4>1
      <4>2. CASE i \notin G /\ j \notin G
        BY <1>1, <1>5, <3>2, <4>2 DEF FilesOwn
      <4>3. CASE i \in G /\ j \notin G
        BY <1>5, <2>1, <2>3, <3>2, <4>3
      <4>4. CASE i \notin G /\ j \in G
        BY <1>5, <2>1, <2>3, <3>2, <4>4
      <4> QED
        BY <4>1, <4>2, <4>3, <4>4
    <3>3. ASSUME NEW d \in Fd, fdt'[d] # IO!NoEnd
          PROVE  d \in leak' \/ \E i \in Io, a \in Slots : ios'[i][a].fd = d
      <4>1. CASE d \in N
        BY <1>5, <2>1, <4>1
      <4>2. CASE d \notin N
        <5>1. fdt[d] # IO!NoEnd
          BY <1>2, <3>3, <4>2
        <5>2. CASE d \in leak
          BY <2>1, <5>2
        <5>3. ASSUME NEW i \in Io, NEW a \in Slots, ios[i][a].fd = d PROVE ios'[i][a].fd = d
          <6>1. ios[i][a] # IO!NoFile
            BY <5>3, NoneShape, ObjectsAssumption
          <6> QED
            BY <1>5, <2>3, <5>3, <6>1
        <5> QED
          BY <1>1, <5>1, <5>2, <5>3 DEF FilesOwn
      <4> QED
        BY <4>1, <4>2
    <3>4. \A d \in leak' : fdt'[d] # IO!NoEnd
      BY <1>1, <1>2, <2>1 DEF FilesOwn, StreamType
    <3>5. \A i \in Io : ~ios'[i].made \/ ios'[i].wait \/ ios'[i].f = IO!NoFile =>
                          ios'[i].f = IO!NoFile /\ ios'[i].f2 = IO!NoFile
      <4> TAKE i \in Io
      <4>1. CASE i \in G
        BY <1>5, <4>1
      <4>2. CASE i \notin G
        BY <1>1, <1>5, <4>2 DEF FilesOwn
      <4> QED
        BY <4>1, <4>2
    <3> QED
      BY <3>1, <3>2, <3>3, <3>4, <3>5 DEF FilesOwn
  <2>5. ChildrenOwn'
    <3> SUFFICES ASSUME NEW i \in Io, NEW k \in Pid, ios'[i].f # IO!NoFile, ios'[i].pid = k
                 PROVE  ChildOwn(i, k)'
      BY DEF ChildrenOwn
    <3>1. CASE i \in G
      BY <2>1, <3>1
    <3>2. CASE i \notin G
      <4>1. ios'[i] = ios[i] /\ ios[i].f # IO!NoFile /\ ios[i].pid = k
        BY <1>5, <3>2
      <4>2. ChildOwn(i, k)
        BY <1>1, <4>1 DEF ChildrenOwn
      <4>3. kids'[k] = kids[k] /\ kids[k].st # "none"
        BY <1>4, <4>2 DEF ChildOwn
      <4>4. fdt'[ios[i].f.fd] = fdt[ios[i].f.fd]
        BY <2>3, <4>1 DEF Slots
      <4> QED
        BY <1>10, <4>1, <4>2, <4>3, <4>4, ChildKept
    <3> QED
      BY <3>1, <3>2
  <2> QED
    BY <2>4, <2>5
<1> QED
  BY <1>6, <1>9, <1>11, <1>12 DEF StreamInv

\* The counts of the model are the library's.
LEMMA CountIs == ASSUME NEW S PROVE IO!Cardinality(S) = Cardinality(S)
BY DEF IO!Cardinality, Cardinality

\* What is left of a set without one of its elements
LEMMA OneLess ==
  ASSUME NEW S, IsFiniteSet(S), NEW x \in S
  PROVE  IsFiniteSet(S \ {x}) /\ IO!Cardinality(S) \in Nat /\ IO!Cardinality(S \ {x}) = IO!Cardinality(S) - 1
<1>1. IsFiniteSet(S \ {x}) /\ Cardinality(S) \in Nat /\ Cardinality(S \ {x}) = Cardinality(S) - 1
  BY FS_RemoveElement, FS_CardinalityType
<1> QED
  BY <1>1, CountIs

\* A set of one element or more has one.
LEMMA SomeOf ==
  ASSUME NEW S, IsFiniteSet(S), IO!Cardinality(S) >= 1
  PROVE  S # {}
BY CountIs, FS_EmptySet

\* A set with two elements is not empty and not one element's.
LEMMA TwoOf ==
  ASSUME NEW S, IO!Cardinality(S) >= 2
  PROVE  S # {} /\ \A x : S # {x}
<1>1. IO!Cardinality({}) = 0
  BY FS_EmptySet, CountIs
<1>2. ASSUME NEW x PROVE IO!Cardinality({x}) = 1
  BY FS_Singleton, CountIs
<1>3. ASSUME S = {} PROVE FALSE
  <2>1. IO!Cardinality(S) = 0
    BY <1>1, <1>3
  <2> QED
    BY <2>1
<1>4. ASSUME NEW x, S = {x} PROVE FALSE
  <2>1. IO!Cardinality(S) = 1
    BY <1>2, <1>4
  <2> QED
    BY <2>1
<1> QED
  BY <1>3, <1>4

\* A pipe takes two free descriptors.
LEMMA PairFree ==
  ASSUME NEW S, S \subseteq Fd, IO!Cardinality(S) >= 2
  PROVE  \E a, b \in S : a # b /\ IO!Pair(S) = <<a, b>>
<1>1. IsFiniteSet(S)
  BY ObjectsAssumption, FS_Subset
<1>2. IO!Cardinality(S) \in Nat
  BY <1>1, FS_CardinalityType, CountIs
<1>3. PICK a \in S : a = IO!Min(S)
  BY <1>1, <1>2, SomeOf, LowestFree
<1>4. IsFiniteSet(S \ {a}) /\ IO!Cardinality(S \ {a}) = IO!Cardinality(S) - 1
  BY <1>1, <1>3, OneLess
<1>5. PICK b \in S \ {a} : b = IO!Min(S \ {a})
  BY <1>2, <1>4, SomeOf, LowestFree
<1> QED
  BY <1>3, <1>5 DEF IO!Pair

\* io_s_pipe: two objects on the ends of a new pipe.
LEMMA SPipeStep == ASSUME StreamInv, IO!io_s_pipe PROVE StreamInv'
<1>1. StreamType
  BY DEF StreamInv
<1>2. /\ IO!Cardinality(IO!FreeFds) >= 2 /\ IO!Unused # {} /\ IO!Cardinality(IO!FreeIo) >= 2
      /\ fdt' = [fdt EXCEPT ![IO!Lowest(1)[1]] = <<CHOOSE q \in IO!Unused : TRUE, "r">>,
                            ![IO!Lowest(1)[2]] = <<CHOOSE q \in IO!Unused : TRUE, "w">>]
      /\ wrote' = [wrote EXCEPT ![CHOOSE q \in IO!Unused : TRUE] = 0]
      /\ ios' = [ios EXCEPT ![IO!NewIo] = IO!Made(IO!NewIo, [IO!NoFile EXCEPT !.fd = IO!Lowest(1)[1], !.m = "r"],
                                                  IO!NoFile, {"r"}, IO!NoPid),
                            ![CHOOSE k \in IO!FreeIo \ {IO!NewIo} : TRUE] =
                              IO!Made(CHOOSE k \in IO!FreeIo \ {IO!NewIo} : TRUE,
                                      [IO!NoFile EXCEPT !.fd = IO!Lowest(1)[2], !.m = "w"], IO!NoFile, {"w"}, IO!NoPid)]
      /\ UNCHANGED <<kids, mixed, leak, bad>>
  BY Zenon DEF IO!io_s_pipe
<1>3. PICK a \in IO!FreeFds, b \in IO!FreeFds : a # b /\ IO!Pair(IO!FreeFds) = <<a, b>>
  BY <1>2, PairFree DEF IO!FreeFds
<1>4. IO!Lowest(1)[1] = a /\ IO!Lowest(1)[2] = b
  BY <1>3 DEF IO!Lowest
<1>5. PICK p \in IO!Unused : p = CHOOSE q \in IO!Unused : TRUE
  BY <1>2
<1>6. PICK i \in IO!FreeIo : i = IO!NewIo
  BY <1>2, TwoOf DEF IO!NewIo
<1>7. PICK j \in IO!FreeIo \ {i} : j = CHOOSE k \in IO!FreeIo \ {IO!NewIo} : TRUE
  <2>1. IO!FreeIo # {i}
    BY <1>2, TwoOf
  <2> QED
    BY <1>6, <2>1
<1>8. PICK x : x = IO!Made(i, [IO!NoFile EXCEPT !.fd = a, !.m = "r"], IO!NoFile, {"r"}, IO!NoPid)
  OBVIOUS
<1>9. PICK y : y = IO!Made(j, [IO!NoFile EXCEPT !.fd = b, !.m = "w"], IO!NoFile, {"w"}, IO!NoPid)
  OBVIOUS
<1>10. ios' = [ios EXCEPT ![i] = x, ![j] = y]
  BY <1>2, <1>4, <1>6, <1>7, <1>8, <1>9
<1>11. /\ DOMAIN x = {"made", "f", "f2", "mode", "pid", "wait"}
       /\ DOMAIN x.f = {"fd", "m", "w", "r"} /\ x.f.fd = a /\ x.f2 = IO!NoFile
       /\ x.made = TRUE /\ x.wait = FALSE /\ x.pid = IO!NoPid
  BY <1>8 DEF IO!Made, IO!NoIo, IO!NoFile
<1>12. /\ DOMAIN y = {"made", "f", "f2", "mode", "pid", "wait"}
       /\ DOMAIN y.f = {"fd", "m", "w", "r"} /\ y.f.fd = b /\ y.f2 = IO!NoFile
       /\ y.made = TRUE /\ y.wait = FALSE /\ y.pid = IO!NoPid
  BY <1>9 DEF IO!Made, IO!NoIo, IO!NoFile
<1>13. a # 0 /\ b # 0 /\ a \in Fd /\ b \in Fd
  BY <1>3, ObjectsAssumption DEF IO!FreeFds
<1>14. x.f # IO!NoFile /\ y.f # IO!NoFile
  BY <1>11, <1>12, <1>13 DEF IO!NoFile, IO!None
<1>15. i \in Io /\ j \in Io /\ i # j /\ ~ios[i].made /\ ~ios[j].made /\ ~bad
  BY <1>6, <1>7 DEF IO!FreeIo
<1>16. /\ DOMAIN ios' = Io /\ ios'[i] = x /\ ios'[j] = y
       /\ \A k \in Io \ {i, j} : ios'[k] = ios[k]
  BY <1>1, <1>10, <1>15 DEF StreamType
<1>17. p \in Pipe /\ wrote[p] = -1
  BY <1>5 DEF IO!Unused
<1>18. fdt' = [fdt EXCEPT ![a] = <<p, "r">>, ![b] = <<p, "w">>]
  BY <1>2, <1>4, <1>5
<1>19. wrote' = [wrote EXCEPT ![p] = 0]
  BY <1>2, <1>5
<1>20. Opened({i, j}, {a, b})
  <2>1. fdt' \in [Fd -> IO!Ends \cup {IO!NoEnd}] /\ \A c \in Fd \ {a, b} : fdt'[c] = fdt[c]
    BY <1>1, <1>13, <1>17, <1>18 DEF StreamType, IO!Ends
  <2>2. fdt'[a] = <<p, "r">> /\ fdt'[b] = <<p, "w">>
    BY <1>1, <1>3, <1>13, <1>18 DEF StreamType
  <2>3. \A c \in {a, b} : fdt'[c] # IO!NoEnd /\ wrote[fdt'[c][1]] < 0 /\ wrote'[fdt'[c][1]] >= 0
    <3>1. wrote[p] < 0 /\ wrote'[p] >= 0
      BY <1>1, <1>17, <1>19 DEF StreamType
    <3> QED
      BY <2>2, <3>1, <1>17, ObjectsAssumption DEF IO!NoEnd
  <2>4. wrote' \in [Pipe -> Int] /\ \A q \in Pipe : wrote[q] >= 0 => wrote'[q] >= 0
    BY <1>1, <1>17, <1>19 DEF StreamType
  <2>5. /\ mixed' = mixed /\ bad' \in BOOLEAN /\ leak' \in SUBSET Fd /\ kids' = kids
        /\ kids' \in [Pid -> [st : {"none", "run", "dead", "reaped"}, holds : SUBSET IO!Ends]]
    BY <1>1, <1>2 DEF StreamType
  <2>6. \A g \in {i, j} :
       /\ DOMAIN ios'[g] = {"made", "f", "f2", "mode", "pid", "wait"}
       /\ DOMAIN ios'[g].f = {"fd", "m", "w", "r"} /\ DOMAIN ios'[g].f2 = {"fd", "m", "w", "r"}
       /\ ios'[g].made = TRUE /\ ios'[g].wait = FALSE /\ ios'[g].pid = IO!NoPid
       /\ ios'[g].f # IO!NoFile
    BY <1>11, <1>12, <1>14, <1>16, NoneShape
  <2>7. \A g \in {i, j}, s \in Slots : ios'[g][s] # IO!NoFile => ios'[g][s].fd \in {a, b}
    BY <1>11, <1>12, <1>16 DEF Slots
  <2>8. \A g, h \in {i, j}, s, t \in Slots :
          ios'[g][s] # IO!NoFile /\ ios'[h][t] # IO!NoFile /\ ios'[g][s].fd = ios'[h][t].fd => g = h /\ s = t
    BY <1>3, <1>11, <1>12, <1>16 DEF Slots
  <2>9. leak' = leak \cup {c \in {a, b} : \A g \in {i, j}, s \in Slots : ios'[g][s].fd # c}
    BY <1>2, <1>11, <1>12, <1>16 DEF Slots
  <2>10. \A g \in {i, j}, k \in Pid : ios'[g].pid = k => ChildOwn(g, k)'
    BY <2>6, ObjectsAssumption
  <2>11. {i, j} \subseteq Io /\ {a, b} \subseteq IO!FreeFds /\ ~bad /\ \A g \in {i, j} : ~ios[g].made
    BY <1>3, <1>15
  <2> QED
    BY <1>16, <2>1, <2>3, <2>4, <2>5, <2>6, <2>7, <2>8, <2>9, <2>10, <2>11 DEF Opened
<1> QED
  BY <1>20, OpenedStep

\* The letters of a mode
LEMMA ModeFlags ==
  ASSUME NEW m, IO!io_mode_flags(m) # {}
  PROVE  LET mode == IO!io_mode_flags(m)
         IN  \/ mode \in {{"r"}, {"w"}} /\ IO!Cardinality(mode) = 1
             \/ mode = {"r", "w"} /\ IO!Cardinality(mode) = 2
<1>1. IO!Cardinality({"r"}) = 1 /\ IO!Cardinality({"w"}) = 1
  BY FS_Singleton, CountIs
<1>2. IO!Cardinality({"r", "w"}) = 2
  <2>1. {"r", "w"} = {"w"} \cup {"r"} /\ "r" \notin {"w"}
    OBVIOUS
  <2>2. Cardinality({"w"} \cup {"r"}) = Cardinality({"w"}) + 1
    BY <2>1, FS_AddElement, FS_Singleton
  <2> QED
    BY <2>1, <2>2, FS_Singleton, CountIs
<1>3. IO!io_mode_flags(m) \in {{"r"}, {"w"}, {"r", "w"}}
  BY DEF IO!io_mode_flags
<1> QED
  BY <1>1, <1>2, <1>3

\* The lowest free descriptors for r pipes
LEMMA LowestPairs ==
  ASSUME NEW r \in {0, 1, 2}, IO!Cardinality(IO!FreeFds) >= 2 * r
  PROVE  /\ DOMAIN IO!Lowest(r) = 1..2 * r /\ Len(IO!Lowest(r)) = 2 * r
         /\ \A k \in 1..2 * r : IO!Lowest(r)[k] \in IO!FreeFds
         /\ \A k, l \in 1..2 * r : IO!Lowest(r)[k] = IO!Lowest(r)[l] => k = l
<1>1. PICK S : S = IO!FreeFds
  OBVIOUS
<1>2. S \subseteq Fd /\ IsFiniteSet(S) /\ IO!Cardinality(S) \in Nat /\ IO!Cardinality(S) >= 2 * r
  BY <1>1, ObjectsAssumption, FS_Subset, FS_CardinalityType, CountIs DEF IO!FreeFds
<1>3. CASE r = 0
  BY <1>3 DEF IO!Lowest
<1>4. CASE r = 1
  <2>1. PICK a \in S, b \in S : a # b /\ IO!Pair(S) = <<a, b>>
    BY <1>2, <1>4, PairFree
  <2>2. IO!Lowest(r) = <<a, b>>
    BY <1>1, <1>4, <2>1 DEF IO!Lowest
  <2> QED
    BY <1>1, <1>4, <2>1, <2>2
<1>5. CASE r = 2
  <2>1. PICK a \in S, b \in S : a # b /\ IO!Pair(S) = <<a, b>>
    BY <1>2, <1>5, PairFree
  <2>2. PICK R : R = S \ {a, b}
    OBVIOUS
  <2>3. IO!Cardinality(R) >= 2 /\ R \subseteq Fd
    <3>1. IsFiniteSet(S \ {a}) /\ IO!Cardinality(S \ {a}) = IO!Cardinality(S) - 1
      BY <1>2, OneLess
    <3>2. b \in S \ {a} /\ R = (S \ {a}) \ {b}
      BY <2>1, <2>2
    <3>3. IO!Cardinality(R) = IO!Cardinality(S \ {a}) - 1
      BY <3>1, <3>2, OneLess
    <3> QED
      BY <1>2, <1>5, <2>2, <3>1, <3>3
  <2>4. PICK c \in R, d \in R : c # d /\ IO!Pair(R) = <<c, d>>
    BY <2>3, PairFree
  <2>5. S \ IO!ToSet(IO!Pair(S)) = R
    BY <2>1, <2>2 DEF IO!ToSet
  <2>6. IO!Lowest(r) = IO!Pair(S) \o IO!Pair(S \ IO!ToSet(IO!Pair(S)))
    BY <1>1, <1>5 DEF IO!Lowest
  <2>7. IO!Lowest(r) = <<a, b>> \o <<c, d>>
    BY <2>1, <2>4, <2>5, <2>6
  <2>8. PICK s : s = <<a, b>> \o <<c, d>>
    OBVIOUS
  <2>9. s \in Seq(Fd) /\ Len(s) = 4 /\ s[1] = a /\ s[2] = b /\ s[3] = c /\ s[4] = d
    <3>1. <<a, b>> \in Seq(Fd) /\ <<c, d>> \in Seq(Fd) /\ Len(<<a, b>>) = 2 /\ Len(<<c, d>>) = 2
      BY <1>2, <2>3
    <3>2. /\ s \in Seq(Fd) /\ Len(s) = 4
          /\ \A i \in 1..Len(s) : s[i] = IF i <= 2 THEN <<a, b>>[i] ELSE <<c, d>>[i - 2]
      BY <2>8, <3>1, ConcatProperties
    <3> QED
      BY <3>2
  <2>10. 1..2 * r = {1, 2, 3, 4} /\ DOMAIN s = 1..2 * r
    BY <1>5, <2>9
  <2> QED
    BY <1>1, <1>5, <2>1, <2>2, <2>4, <2>7, <2>8, <2>9, <2>10
<1> QED
  BY <1>3, <1>4, <1>5

\* The n pipes for a mode, of which r are made on the descriptors fd
PipesFor(n, r, ps, fd) ==
  /\ n \in {1, 2} /\ r \in 0..n /\ ps \in [1..n -> IO!Unused]
  /\ DOMAIN fd = 1..2 * r /\ Len(fd) = 2 * r
  /\ \A k \in 1..2 * r : fd[k] \in IO!FreeFds
  /\ \A k, l \in 1..2 * r : fd[k] = fd[l] => k = l
PipeEnds(fd, ps) == [k \in 1..Len(fd) |-> <<ps[(k + 1) \div 2], IF k % 2 = 1 THEN "r" ELSE "w">>]
Put(fd, ps) == [d \in Fd |-> IF \E k \in 1..Len(fd) : fd[k] = d
                             THEN PipeEnds(fd, ps)[CHOOSE k \in 1..Len(fd) : fd[k] = d] ELSE fdt[d]]
Begun(fd, ps) == [p \in Pipe |-> IF \E k \in 1..Len(fd) : PipeEnds(fd, ps)[k][1] = p THEN 0 ELSE wrote[p]]

\* What the descriptors and the pipes are then
LEMMA PutShape ==
  ASSUME StreamType, NEW n, NEW r, NEW ps, NEW fd, PipesFor(n, r, ps, fd)
  PROVE  /\ Put(fd, ps) \in [Fd -> IO!Ends \cup {IO!NoEnd}] /\ Begun(fd, ps) \in [Pipe -> Int]
         /\ \A k \in 1..2 * r :
              /\ Put(fd, ps)[fd[k]] = <<ps[(k + 1) \div 2], IF k % 2 = 1 THEN "r" ELSE "w">>
              /\ ps[(k + 1) \div 2] \in IO!Unused /\ Begun(fd, ps)[ps[(k + 1) \div 2]] = 0
         /\ \A d \in Fd : (\A k \in 1..2 * r : fd[k] # d) => Put(fd, ps)[d] = fdt[d]
         /\ \A p \in Pipe : wrote[p] >= 0 => Begun(fd, ps)[p] >= 0
<1>1. /\ n \in {1, 2} /\ r \in 0..n /\ ps \in [1..n -> IO!Unused]
      /\ DOMAIN fd = 1..2 * r /\ Len(fd) = 2 * r
      /\ \A k \in 1..2 * r : fd[k] \in Fd
      /\ \A k, l \in 1..2 * r : fd[k] = fd[l] => k = l
  BY DEF PipesFor, IO!FreeFds
<1>2. \A k \in 1..2 * r : (k + 1) \div 2 \in 1..n
  BY <1>1
<1>3. PICK E : E = PipeEnds(fd, ps)
  OBVIOUS
<1>4. \A k \in 1..2 * r : /\ E[k] = <<ps[(k + 1) \div 2], IF k % 2 = 1 THEN "r" ELSE "w">>
                          /\ ps[(k + 1) \div 2] \in IO!Unused
  BY <1>1, <1>2, <1>3 DEF PipeEnds
<1>5. \A k \in 1..2 * r : E[k] \in IO!Ends /\ E[k][1] = ps[(k + 1) \div 2]
  <2> TAKE k \in 1..2 * r
  <2>1. PICK p, t : E[k] = <<p, t>> /\ p = ps[(k + 1) \div 2] /\ p \in Pipe /\ t \in {"r", "w"}
    BY <1>4 DEF IO!Unused
  <2> QED
    BY <2>1 DEF IO!Ends
<1>6. Begun(fd, ps) = [p \in Pipe |-> IF \E k \in 1..2 * r : E[k][1] = p THEN 0 ELSE wrote[p]]
  BY <1>1, <1>3, Zenon DEF Begun
<1>7. PICK u : u = [d \in Fd |-> IF \E k \in 1..2 * r : fd[k] = d
                                 THEN E[CHOOSE k \in 1..2 * r : fd[k] = d] ELSE fdt[d]]
  OBVIOUS
<1>8. Put(fd, ps) = u
  BY <1>1, <1>3, <1>7, Zenon DEF Put
<1>9. ASSUME NEW k \in 1..2 * r PROVE u[fd[k]] = E[k]
  <2>1. PICK l \in 1..2 * r : l = CHOOSE j \in 1..2 * r : fd[j] = fd[k]
    BY <1>9
  <2>2. fd[l] = fd[k]
    BY <1>9, <2>1
  <2> QED
    BY <1>1, <1>7, <1>9, <2>1, <2>2
<1>10. \A d \in Fd : (\A k \in 1..2 * r : fd[k] # d) => u[d] = fdt[d]
  BY <1>7
<1>11. u \in [Fd -> IO!Ends \cup {IO!NoEnd}]
  <2>1. ASSUME NEW d \in Fd PROVE u[d] \in IO!Ends \cup {IO!NoEnd}
    <3>1. CASE \E k \in 1..2 * r : fd[k] = d
      BY <1>5, <1>9, <3>1
    <3>2. CASE \A k \in 1..2 * r : fd[k] # d
      BY <1>10, <3>2 DEF StreamType
    <3> QED
      BY <3>1, <3>2
  <2> QED
    BY <1>7, <2>1
<1>12. /\ Begun(fd, ps) \in [Pipe -> Int]
       /\ \A p \in Pipe : wrote[p] >= 0 => Begun(fd, ps)[p] >= 0
  BY <1>6 DEF StreamType
<1>13. \A k \in 1..2 * r : Begun(fd, ps)[ps[(k + 1) \div 2]] = 0
  BY <1>4, <1>5, <1>6 DEF IO!Unused
<1> QED
  BY <1>4, <1>8, <1>9, <1>10, <1>11, <1>12, <1>13

\* The three ways pipe_open() ends
PipeFails(n, room, ps, fd) ==
  /\ room < n /\ fdt' = Put(fd, ps) /\ leak' = leak \cup IO!ToSet(fd)
  /\ UNCHANGED <<ios, kids, bad>>
ForkFails(n, room, ps, fd) ==
  /\ room >= n /\ bad' = ~(n = 2) /\ leak' = leak \cup (IO!ToSet(fd) \ {fd[1], fd[2 * n]})
  /\ fdt' = [d \in Fd |-> IF n = 2 /\ d \in {fd[1], fd[2 * n]} THEN IO!NoEnd ELSE Put(fd, ps)[d]]
  /\ UNCHANGED <<ios, kids>>
Kept(mode, n, fd) == (IF "r" \in mode THEN {fd[1]} ELSE {}) \cup (IF "w" \in mode THEN {fd[2 * n]} ELSE {})
ReadFile(fd) == [IO!NoFile EXCEPT !.fd = fd[1], !.m = "r"]
WriteFile(n, fd) == [IO!NoFile EXCEPT !.fd = fd[2 * n], !.m = "w"]
PipeOpens(mode, n, room, ps, fd) ==
  /\ room >= n /\ IO!FreePid # {}
  /\ kids' = [kids EXCEPT ![IO!NewPid] = [IO!NoKid EXCEPT !.st = "run",
       !.holds = {Put(fd, ps)[d] : d \in IO!ToSet(fd) \ Kept(mode, n, fd)}]]
  /\ fdt' = [d \in Fd |-> IF d \in IO!ToSet(fd) \ Kept(mode, n, fd) THEN IO!NoEnd ELSE Put(fd, ps)[d]]
  /\ ios' = [ios EXCEPT ![IO!NewIo] =
       IO!Made(IO!NewIo, IF "r" \in mode THEN ReadFile(fd) ELSE WriteFile(n, fd),
               IF n = 2 THEN WriteFile(n, fd) ELSE IO!NoFile, mode \cup {"sync"}, IO!NewPid)]
  /\ UNCHANGED <<leak, bad>>
Pipes(n) == CHOOSE q \in [1..n -> IO!Unused] : n = 2 => q[1] # q[2]
Room == IO!Cardinality(IO!FreeFds) \div 2

\* The pipes there is no room for are left out.
LEMMA PipesGiven ==
  ASSUME StreamType, NEW n \in {1, 2}, n <= IO!Cardinality(IO!Unused)
  PROVE  PipesFor(n, IO!Min({n, Room}), Pipes(n), IO!Lowest(IO!Min({n, Room})))
<1>1. IO!Cardinality(IO!FreeFds) \in Nat /\ IsFiniteSet(IO!Unused)
  BY ObjectsAssumption, FS_Subset, FS_CardinalityType, CountIs DEF IO!FreeFds, IO!Unused
<1>2. Room \in Nat /\ 2 * Room <= IO!Cardinality(IO!FreeFds)
  BY <1>1 DEF Room
<1>3. PICK r : r = IO!Min({n, Room})
  OBVIOUS
<1>4. r \in {n, Room} /\ r <= n /\ r <= Room
  <2>1. PICK R : R = Room
    OBVIOUS
  <2>2. \E x \in {n, R} : \A y \in {n, R} : x <= y
    BY <1>2, <2>1
  <2>3. r = CHOOSE x \in {n, R} : \A y \in {n, R} : x <= y
    BY <1>3, <2>1 DEF IO!Min
  <2> QED
    BY <2>1, <2>2, <2>3
<1>5. r \in {0, 1, 2} /\ r \in 0..n /\ IO!Cardinality(IO!FreeFds) >= 2 * r
  BY <1>1, <1>2, <1>4
<1>6. PICK U : U = IO!Unused
  OBVIOUS
<1>7. \E q \in [1..n -> U] : n = 2 => q[1] # q[2]
  <2>u. IsFiniteSet(U) /\ IO!Cardinality(U) \in Nat /\ n <= IO!Cardinality(U)
    BY <1>1, <1>6, FS_CardinalityType, CountIs
  <2>1. PICK p \in U : TRUE
    <3>1. IO!Cardinality(U) >= 1
      BY <2>u
    <3>2. U # {}
      BY <2>u, <3>1, SomeOf
    <3> QED
      BY <3>2
  <2>2. CASE n = 1
    <3>1. PICK f : f = [k \in 1..n |-> p]
      OBVIOUS
    <3>2. f \in [1..n -> U]
      BY <2>1, <3>1
    <3> QED
      BY <2>2, <3>2
  <2>3. CASE n = 2
    <3>1. PICK q \in U \ {p} : TRUE
      BY <2>u, <2>3, TwoOf
    <3>2. PICK f : f = [k \in 1..n |-> IF k = 1 THEN p ELSE q]
      OBVIOUS
    <3>3. f \in [1..n -> U] /\ f[1] # f[2]
      BY <2>1, <2>3, <3>1, <3>2
    <3> QED
      BY <3>3
  <2> QED
    BY <2>2, <2>3
<1>8. Pipes(n) \in [1..n -> IO!Unused]
  BY <1>6, <1>7 DEF Pipes
<1> QED
  BY <1>3, <1>5, <1>8, LowestPairs DEF PipesFor

\* Free descriptors that have ends of new pipes, and no object for them
Behind(N) ==
  /\ ~bad /\ N \subseteq IO!FreeFds /\ UNCHANGED <<ios, kids, mixed>> /\ bad' \in BOOLEAN
  /\ fdt' \in [Fd -> IO!Ends \cup {IO!NoEnd}] /\ \A c \in Fd \ N : fdt'[c] = fdt[c]
  /\ \A c \in N : fdt'[c] # IO!NoEnd /\ wrote[fdt'[c][1]] < 0 /\ wrote'[fdt'[c][1]] >= 0
  /\ wrote' \in [Pipe -> Int] /\ \A p \in Pipe : wrote[p] >= 0 => wrote'[p] >= 0
  /\ leak' \in SUBSET Fd /\ (~bad' => leak' = leak \cup N)

LEMMA BehindStep == ASSUME StreamInv, NEW N, Behind(N) PROVE StreamInv'
<1>1. StreamType
  BY DEF StreamInv
<1>2. /\ DOMAIN ios' = Io /\ \A i \in Io : ios'[i] = ios[i]
      /\ kids' \in [Pid -> [st : {"none", "run", "dead", "reaped"}, holds : SUBSET IO!Ends]]
      /\ \A k \in Pid : kids'[k] = kids[k]
  BY <1>1 DEF StreamType, Behind
<1>3. ~bad' => leak' = leak \cup {c \in N : \A i \in {}, a \in Slots : ios'[i][a].fd # c}
  BY DEF Behind
<1>4. Opened({}, N)
  BY <1>2, <1>3 DEF Behind, Opened
<1> QED
  BY <1>4, OpenedStep

\* What has them is free, and has ends of pipes that are new.
LEMMA PutEnds ==
  ASSUME StreamType, NEW n, NEW r, NEW ps, NEW fd, PipesFor(n, r, ps, fd)
  PROVE  /\ IO!ToSet(fd) \subseteq IO!FreeFds /\ IO!ToSet(fd) \subseteq Fd
         /\ \A c \in IO!ToSet(fd) :
              LET e == Put(fd, ps)[c]
              IN  e \in IO!Ends /\ e # IO!NoEnd /\ e[1] \in Pipe /\ wrote[e[1]] = -1 /\ Begun(fd, ps)[e[1]] = 0
         /\ \A c \in Fd \ IO!ToSet(fd) : Put(fd, ps)[c] = fdt[c]
<1>1. PICK S : S = IO!ToSet(fd)
  OBVIOUS
<1>2. PICK P : P = Put(fd, ps)
  OBVIOUS
<1>3. PICK B : B = Begun(fd, ps)
  OBVIOUS
<1>4. DOMAIN fd = 1..2 * r /\ S = {fd[k] : k \in 1..2 * r} /\ \A k \in 1..2 * r : fd[k] \in IO!FreeFds
  BY <1>1 DEF PipesFor, IO!ToSet
<1>5. /\ P \in [Fd -> IO!Ends \cup {IO!NoEnd}]
      /\ \A k \in 1..2 * r :
           /\ P[fd[k]] = <<ps[(k + 1) \div 2], IF k % 2 = 1 THEN "r" ELSE "w">>
           /\ ps[(k + 1) \div 2] \in IO!Unused /\ B[ps[(k + 1) \div 2]] = 0
      /\ \A d \in Fd : (\A k \in 1..2 * r : fd[k] # d) => P[d] = fdt[d]
  <2>1. /\ Put(fd, ps) \in [Fd -> IO!Ends \cup {IO!NoEnd}] /\ Begun(fd, ps) \in [Pipe -> Int]
        /\ \A k \in 1..2 * r :
             /\ Put(fd, ps)[fd[k]] = <<ps[(k + 1) \div 2], IF k % 2 = 1 THEN "r" ELSE "w">>
             /\ ps[(k + 1) \div 2] \in IO!Unused /\ Begun(fd, ps)[ps[(k + 1) \div 2]] = 0
        /\ \A d \in Fd : (\A k \in 1..2 * r : fd[k] # d) => Put(fd, ps)[d] = fdt[d]
        /\ \A p \in Pipe : wrote[p] >= 0 => Begun(fd, ps)[p] >= 0
    BY PutShape, Zenon
  <2> QED
    BY <1>2, <1>3, <2>1
<1>6. S \subseteq IO!FreeFds /\ S \subseteq Fd
  BY <1>4 DEF IO!FreeFds
<1>7. ASSUME NEW c \in S
      PROVE  P[c] \in IO!Ends /\ P[c] # IO!NoEnd /\ P[c][1] \in Pipe /\ wrote[P[c][1]] = -1 /\ B[P[c][1]] = 0
  <2>1. PICK k \in 1..2 * r : c = fd[k]
    BY <1>4
  <2>2. PICK p, t : P[c] = <<p, t>> /\ p = ps[(k + 1) \div 2] /\ t \in {"r", "w"}
    BY <1>5, <2>1
  <2>3. p \in Pipe /\ wrote[p] = -1 /\ B[p] = 0
    BY <1>5, <2>2 DEF IO!Unused
  <2> QED
    BY <2>2, <2>3, ObjectsAssumption DEF IO!Ends, IO!NoEnd
<1>8. \A c \in Fd \ S : P[c] = fdt[c]
  BY <1>4, <1>5
<1> QED
  BY <1>1, <1>2, <1>3, <1>6, <1>7, <1>8

\* A pipe that cannot be made, and a fork that fails
LEMMA PipeFailsStep ==
  ASSUME StreamInv, NEW n, NEW r, NEW room, NEW ps, NEW fd, PipesFor(n, r, ps, fd), ~bad,
         wrote' = Begun(fd, ps), mixed' = mixed,
         PipeFails(n, room, ps, fd) \/ (n = r /\ ForkFails(n, room, ps, fd))
  PROVE  StreamInv'
<1>1. StreamType
  BY DEF StreamInv
<1>2. PICK S : S = IO!ToSet(fd)
  OBVIOUS
<1>3. PICK P : P = Put(fd, ps)
  OBVIOUS
<1>4. /\ S \subseteq IO!FreeFds /\ S \subseteq Fd
      /\ \A c \in S : P[c] # IO!NoEnd /\ wrote[P[c][1]] < 0 /\ wrote'[P[c][1]] >= 0
      /\ \A c \in Fd \ S : P[c] = fdt[c]
  <2>1. /\ S \subseteq IO!FreeFds /\ S \subseteq Fd
        /\ \A c \in S : P[c] # IO!NoEnd /\ wrote[P[c][1]] = -1 /\ wrote'[P[c][1]] = 0
        /\ \A c \in Fd \ S : P[c] = fdt[c]
    BY <1>1, <1>2, <1>3, PutEnds
  <2>2. \A c \in S : wrote[P[c][1]] < 0 /\ wrote'[P[c][1]] >= 0
    BY <2>1
  <2> QED
    BY <2>1, <2>2
<1>5. /\ P \in [Fd -> IO!Ends \cup {IO!NoEnd}] /\ wrote' \in [Pipe -> Int]
      /\ \A p \in Pipe : wrote[p] >= 0 => wrote'[p] >= 0
  BY <1>1, <1>3, PutShape
<1>6. leak \in SUBSET Fd /\ mixed' = mixed /\ bad \in BOOLEAN /\ ~bad
  BY <1>1 DEF StreamType
<1>7. CASE PipeFails(n, room, ps, fd)
  <2>1. fdt' = P /\ leak' = leak \cup S /\ UNCHANGED <<ios, kids, bad>>
    BY <1>2, <1>3, <1>7 DEF PipeFails
  <2>2. Behind(S)
    BY <1>4, <1>5, <1>6, <2>1 DEF Behind
  <2> QED
    BY <2>2, BehindStep
<1>8. CASE n = r /\ ForkFails(n, room, ps, fd)
  <2>1. PICK C : C = {fd[1], fd[2 * n]}
    OBVIOUS
  <2>2. /\ bad' = ~(n = 2) /\ leak' = leak \cup (S \ C) /\ UNCHANGED <<ios, kids>>
        /\ fdt' = [d \in Fd |-> IF n = 2 /\ d \in C THEN IO!NoEnd ELSE P[d]]
    BY <1>2, <1>3, <1>8, <2>1 DEF ForkFails
  <2>3. C \subseteq S /\ n \in {1, 2}
    <3>1. n \in {1, 2} /\ DOMAIN fd = 1..2 * n
      BY <1>8 DEF PipesFor
    <3> QED
      BY <1>2, <2>1, <3>1 DEF IO!ToSet
  <2>4. CASE n = 2
    <3>1. fdt' = [d \in Fd |-> IF d \in C THEN IO!NoEnd ELSE P[d]] /\ bad' = FALSE
      BY <2>2, <2>4
    <3>2. \A c \in C : fdt[c] = IO!NoEnd
      BY <1>4, <2>3 DEF IO!FreeFds
    <3>3. Behind(S \ C)
      BY <1>4, <1>5, <1>6, <2>2, <2>3, <3>1, <3>2 DEF Behind
    <3> QED
      BY <3>3, BehindStep
  <2>5. CASE n = 1
    <3>1. /\ fdt' = [d \in Fd |-> IF n = 2 /\ d \in C THEN IO!NoEnd ELSE P[d]] /\ n # 2
      BY <2>2, <2>5
    <3>2. fdt' \in [Fd -> IO!Ends \cup {IO!NoEnd}]
      BY <1>5, <3>1
    <3>3. \A c \in Fd : fdt'[c] = P[c]
      BY <3>1
    <3>4. bad' = (n # 2)
      BY <2>2, Zenon
    <3>5. bad' /\ bad' \in BOOLEAN
      BY <3>1, <3>4, Zenon
    <3>6. Behind(S)
      BY <1>4, <1>5, <1>6, <2>2, <2>3, <3>2, <3>3, <3>5 DEF Behind
    <3> QED
      BY <3>6, BehindStep
  <2> QED
    BY <2>3, <2>4, <2>5
<1> QED
  BY <1>7, <1>8

\* The FILEs of a new object, on the descriptors that are kept; the child has the other
\* end of the pipe of the first.
LEMMA KeptShape ==
  ASSUME StreamType, NEW mode, NEW n, NEW ps, NEW fd, PipesFor(n, n, ps, fd),
         (mode \in {{"r"}, {"w"}} /\ n = 1) \/ (mode = {"r", "w"} /\ n = 2),
         NEW x, NEW y,
         x = (IF "r" \in mode THEN ReadFile(fd) ELSE WriteFile(n, fd)),
         y = (IF n = 2 THEN WriteFile(n, fd) ELSE IO!NoFile)
  PROVE  /\ DOMAIN x = {"fd", "m", "w", "r"} /\ DOMAIN y = {"fd", "m", "w", "r"}
         /\ x # IO!NoFile /\ x.fd \in Kept(mode, n, fd)
         /\ \/ y = IO!NoFile /\ Kept(mode, n, fd) = {x.fd}
            \/ y # IO!NoFile /\ Kept(mode, n, fd) = {x.fd, y.fd} /\ x.fd # y.fd
         /\ Kept(mode, n, fd) \subseteq IO!ToSet(fd)
         /\ \E c \in IO!ToSet(fd) \ Kept(mode, n, fd) : Put(fd, ps)[c][1] = Put(fd, ps)[x.fd][1]
<1>1. PICK a : a = fd[1]
  OBVIOUS
<1>2. PICK z : z = fd[2 * n]
  OBVIOUS
<1>3. PICK b : b = fd[2]
  OBVIOUS
<1>4. /\ n \in {1, 2} /\ DOMAIN fd = 1..2 * n /\ \A k \in 1..2 * n : fd[k] \in Fd
      /\ \A k, l \in 1..2 * n : fd[k] = fd[l] => k = l
  BY DEF PipesFor, IO!FreeFds
<1>5. IO!ToSet(fd) = {fd[k] : k \in 1..2 * n}
  BY <1>4 DEF IO!ToSet
<1>6. a # z /\ a # b /\ a \in Fd /\ b \in Fd /\ z \in Fd /\ (n = 1 => z = b) /\ (n = 2 => z # b)
  BY <1>1, <1>2, <1>3, <1>4
<1>7. a \in IO!ToSet(fd) /\ b \in IO!ToSet(fd) /\ z \in IO!ToSet(fd)
  BY <1>1, <1>2, <1>3, <1>4, <1>5
<1>8. Kept(mode, n, fd) = (IF "r" \in mode THEN {a} ELSE {}) \cup (IF "w" \in mode THEN {z} ELSE {})
  BY <1>1, <1>2 DEF Kept
<1>9. PICK f : f = ReadFile(fd)
  OBVIOUS
<1>10. PICK g : g = WriteFile(n, fd)
  OBVIOUS
<1>11. f.fd = a /\ DOMAIN f = {"fd", "m", "w", "r"} /\ f # IO!NoFile
  <2>1. f.fd = a /\ DOMAIN f = {"fd", "m", "w", "r"}
    BY <1>1, <1>9 DEF ReadFile, IO!NoFile
  <2> QED
    BY <1>6, <2>1, NoneShape, ObjectsAssumption
<1>12. g.fd = z /\ DOMAIN g = {"fd", "m", "w", "r"} /\ g # IO!NoFile
  <2>1. g.fd = z /\ DOMAIN g = {"fd", "m", "w", "r"}
    BY <1>2, <1>10 DEF WriteFile, IO!NoFile
  <2> QED
    BY <1>6, <2>1, NoneShape, ObjectsAssumption
<1>13. Put(fd, ps)[a][1] = ps[1] /\ Put(fd, ps)[b][1] = ps[1]
  <2>1. PICK P : P = Put(fd, ps)
    OBVIOUS
  <2>2. \A k \in 1..2 * n : P[fd[k]] = <<ps[(k + 1) \div 2], IF k % 2 = 1 THEN "r" ELSE "w">>
    <3>1. /\ Put(fd, ps) \in [Fd -> IO!Ends \cup {IO!NoEnd}] /\ Begun(fd, ps) \in [Pipe -> Int]
          /\ \A k \in 1..2 * n :
               /\ Put(fd, ps)[fd[k]] = <<ps[(k + 1) \div 2], IF k % 2 = 1 THEN "r" ELSE "w">>
               /\ ps[(k + 1) \div 2] \in IO!Unused /\ Begun(fd, ps)[ps[(k + 1) \div 2]] = 0
          /\ \A d \in Fd : (\A k \in 1..2 * n : fd[k] # d) => Put(fd, ps)[d] = fdt[d]
          /\ \A p \in Pipe : wrote[p] >= 0 => Begun(fd, ps)[p] >= 0
      BY PutShape, Zenon
    <3> QED
      BY <2>1, <3>1
  <2>3. P[a] = <<ps[1], "r">> /\ P[b] = <<ps[1], "w">>
    BY <1>1, <1>3, <1>4, <2>2
  <2> QED
    BY <2>1, <2>3
<1>14. x = (IF "r" \in mode THEN f ELSE g) /\ y = (IF n = 2 THEN g ELSE IO!NoFile)
  BY <1>9, <1>10
<1>15. CASE mode = {"r"} /\ n = 1
  BY <1>6, <1>7, <1>8, <1>11, <1>13, <1>14, <1>15, NoneShape
<1>16. CASE mode = {"w"} /\ n = 1
  BY <1>6, <1>7, <1>8, <1>12, <1>13, <1>14, <1>16, NoneShape
<1>17. CASE mode = {"r", "w"} /\ n = 2
  BY <1>6, <1>7, <1>8, <1>11, <1>12, <1>13, <1>14, <1>17, NoneShape
<1> QED
  BY <1>15, <1>16, <1>17

\* The pipes are made, and the child runs.
LEMMA PipeOpensStep ==
  ASSUME StreamInv, NEW mode, NEW n, NEW room, NEW ps, NEW fd, PipesFor(n, n, ps, fd),
         (mode \in {{"r"}, {"w"}} /\ n = 1) \/ (mode = {"r", "w"} /\ n = 2),
         IO!FreeIo # {}, wrote' = Begun(fd, ps), mixed' = mixed,
         PipeOpens(mode, n, room, ps, fd)
  PROVE  StreamInv'
<1>1. StreamType /\ PipesBegun
  BY DEF StreamInv
<1>2. PICK i \in Io : i = IO!NewIo /\ ~ios[i].made
  BY NewObject
<1>3. ~bad
  BY DEF IO!FreeIo
<1>4. PICK k \in Pid : k = IO!NewPid /\ kids[k].st = "none"
  BY DEF PipeOpens, IO!NewPid, IO!FreePid
<1>5. PICK S : S = IO!ToSet(fd)
  OBVIOUS
<1>6. PICK P : P = Put(fd, ps)
  OBVIOUS
<1>7. PICK D : D = Kept(mode, n, fd)
  OBVIOUS
<1>8. PICK f, g : /\ f = (IF "r" \in mode THEN ReadFile(fd) ELSE WriteFile(n, fd))
                  /\ g = (IF n = 2 THEN WriteFile(n, fd) ELSE IO!NoFile)
  OBVIOUS
<1>9. PICK x : x = IO!Made(i, f, g, mode \cup {"sync"}, k)
  OBVIOUS
<1>10. PICK H : H = {P[d] : d \in S \ D}
  OBVIOUS
<1>11. PICK y : y = [IO!NoKid EXCEPT !.st = "run", !.holds = H]
  OBVIOUS
<1>12. /\ kids' = [kids EXCEPT ![k] = y] /\ ios' = [ios EXCEPT ![i] = x]
       /\ fdt' = [d \in Fd |-> IF d \in S \ D THEN IO!NoEnd ELSE P[d]] /\ UNCHANGED <<leak, bad>>
  BY <1>2, <1>4, <1>5, <1>6, <1>7, <1>8, <1>9, <1>10, <1>11 DEF PipeOpens
<1>13. /\ DOMAIN x = {"made", "f", "f2", "mode", "pid", "wait"}
       /\ x.made = TRUE /\ x.f = f /\ x.f2 = g /\ x.pid = k /\ x.wait = FALSE
  BY <1>9 DEF IO!Made, IO!NoIo
<1>14. /\ DOMAIN f = {"fd", "m", "w", "r"} /\ DOMAIN g = {"fd", "m", "w", "r"}
       /\ f # IO!NoFile /\ f.fd \in D
       /\ (g = IO!NoFile /\ D = {f.fd}) \/ (g # IO!NoFile /\ D = {f.fd, g.fd} /\ f.fd # g.fd)
       /\ D \subseteq S /\ \E c \in S \ D : P[c][1] = P[f.fd][1]
  BY <1>1, <1>5, <1>6, <1>7, <1>8, KeptShape
<1>15. /\ S \subseteq IO!FreeFds /\ S \subseteq Fd
       /\ \A c \in S : /\ P[c] \in IO!Ends /\ P[c] # IO!NoEnd /\ P[c][1] \in Pipe
                       /\ wrote[P[c][1]] = -1 /\ wrote'[P[c][1]] = 0
       /\ \A c \in Fd \ S : P[c] = fdt[c]
  BY <1>1, <1>5, <1>6, PutEnds
<1>16. /\ P \in [Fd -> IO!Ends \cup {IO!NoEnd}] /\ wrote' \in [Pipe -> Int]
       /\ \A p \in Pipe : wrote[p] >= 0 => wrote'[p] >= 0
  BY <1>1, <1>6, PutShape
<1>17. y.st = "run" /\ y.holds = H /\ y \in [st : {"none", "run", "dead", "reaped"}, holds : SUBSET IO!Ends]
  <2>1. H \in SUBSET IO!Ends
    BY <1>10, <1>15
  <2> QED
    BY <1>11, <2>1 DEF IO!NoKid
<1>18. /\ kids'[k] = y /\ \A j \in Pid : j # k => kids'[j] = kids[j]
       /\ kids' \in [Pid -> [st : {"none", "run", "dead", "reaped"}, holds : SUBSET IO!Ends]]
  BY <1>1, <1>12, <1>17 DEF StreamType
<1>19. DOMAIN ios' = Io /\ ios'[i] = x /\ \A j \in Io : j # i => ios'[j] = ios[j]
  BY <1>1, <1>12 DEF StreamType
<1>20. \A h \in H : h \in IO!Ends /\ h[1] \in Pipe /\ wrote[h[1]] = -1 /\ wrote'[h[1]] = 0
  BY <1>10, <1>15
\* What faces the child is what was kept.
<1>21. \A d \in Fd : (\E h \in H : fdt'[d] = Other(h)) => d \in D
  <2> SUFFICES ASSUME NEW d \in Fd, NEW h \in H, fdt'[d] = Other(h), d \notin D PROVE FALSE
    OBVIOUS
  <2>1. Other(h) # IO!NoEnd /\ Other(h)[1] = h[1] /\ wrote[h[1]] = -1
    BY <1>20, ObjectsAssumption DEF Other, IO!NoEnd
  <2>2. d \notin S /\ fdt[d] = Other(h)
    BY <1>12, <1>15, <2>1
  <2>3. wrote[fdt[d][1]] >= 0
    BY <1>1, <2>1, <2>2 DEF PipesBegun
  <2>4. wrote[fdt[d][1]] = -1
    BY <2>1, <2>2
  <2> QED
    BY <2>3, <2>4
<1>22. ChildOwn(i, k)'
  <2>1. kids'[k].st # "none"
    BY <1>17, <1>18
  <2>2. \E h \in kids'[k].holds : h[1] = fdt'[ios'[i].f.fd][1]
    <3>1. ios'[i].f = f /\ kids'[k].holds = H
      BY <1>13, <1>17, <1>18, <1>19
    <3>2. fdt'[f.fd] = P[f.fd]
      BY <1>12, <1>14, <1>15
    <3> QED
      BY <1>10, <1>14, <3>1, <3>2
  <2>3. \A d \in Facing(k)' : \E a \in Slots : ios'[i][a].fd = d
    <3>1. \A d \in Facing(k)' : d \in D
      BY <1>17, <1>18, <1>21 DEF Facing
    <3> QED
      BY <1>13, <1>14, <1>19, <3>1 DEF Slots
  <2> QED
    BY <2>1, <2>2, <2>3 DEF ChildOwn
<1>23. Opened({i}, D)
  <2>1. fdt' \in [Fd -> IO!Ends \cup {IO!NoEnd}] /\ \A c \in Fd \ D : fdt'[c] = fdt[c]
    BY <1>12, <1>14, <1>15, <1>16 DEF IO!FreeFds
  <2>2. \A c \in D : fdt'[c] # IO!NoEnd /\ wrote[fdt'[c][1]] < 0 /\ wrote'[fdt'[c][1]] >= 0
    <3> TAKE c \in D
    <3>1. fdt'[c] = P[c] /\ c \in S
      BY <1>12, <1>14, <1>15
    <3>2. P[c] # IO!NoEnd /\ wrote[P[c][1]] = -1 /\ wrote'[P[c][1]] = 0
      BY <1>15, <3>1
    <3> QED
      BY <3>1, <3>2
  <2>3. \A j \in Pid : \/ kids'[j] = kids[j]
                       \/ kids[j].st = "none" /\ \A h \in kids'[j].holds : wrote'[h[1]] >= 0
    BY <1>4, <1>17, <1>18, <1>20
  <2>4. mixed' = mixed /\ bad' \in BOOLEAN /\ leak' \in SUBSET Fd /\ leak' = leak
    BY <1>1, <1>12 DEF StreamType
  <2>5. \A j \in {i} :
       /\ DOMAIN ios'[j] = {"made", "f", "f2", "mode", "pid", "wait"}
       /\ DOMAIN ios'[j].f = {"fd", "m", "w", "r"} /\ DOMAIN ios'[j].f2 = {"fd", "m", "w", "r"}
       /\ ios'[j].made = TRUE /\ ios'[j].wait = FALSE /\ ios'[j].pid \in Pid \cup {IO!NoPid}
       /\ ios'[j].f # IO!NoFile
    BY <1>13, <1>14, <1>19
  <2>6. \A j \in {i}, a \in Slots : ios'[j][a] # IO!NoFile => ios'[j][a].fd \in D
    BY <1>13, <1>14, <1>19 DEF Slots
  <2>7. \A j, l \in {i}, a, b \in Slots :
          ios'[j][a] # IO!NoFile /\ ios'[l][b] # IO!NoFile /\ ios'[j][a].fd = ios'[l][b].fd => j = l /\ a = b
    BY <1>13, <1>14, <1>19 DEF Slots
  <2>8. leak' = leak \cup {c \in D : \A j \in {i}, a \in Slots : ios'[j][a].fd # c}
    BY <2>4, <1>13, <1>14, <1>19 DEF Slots
  <2>9. \A j \in {i}, l \in Pid : ios'[j].pid = l => ChildOwn(j, l)'
    <3>1. ASSUME NEW j \in {i}, NEW l \in Pid, ios'[j].pid = l PROVE ChildOwn(j, l)'
      <4>1. j = i /\ l = k
        BY <1>13, <1>19, <3>1
      <4> QED
        BY <1>22, <4>1
    <3> QED
      BY <3>1
  <2>10. {i} \subseteq Io /\ D \subseteq IO!FreeFds /\ ~bad /\ \A j \in {i} : ~ios[j].made
    BY <1>2, <1>3, <1>14, <1>15
  <2> QED
    BY <1>16, <1>18, <1>19, <2>1, <2>2, <2>3, <2>4, <2>5, <2>6, <2>7, <2>8, <2>9, <2>10 DEF Opened
<1> QED
  BY <1>23, OpenedStep

\* pipe_open: a command is run on the other ends of new pipes, or is not.
LEMMA PipeOpenStep == ASSUME StreamInv, IO!pipe_open PROVE StreamInv'
<1>1. StreamType
  BY DEF StreamInv
<1>2. PICK m \in IO!Modes :
        LET mode == IO!io_mode_flags(m)
            n == IO!Cardinality(mode)
            ps == Pipes(n)
            fd == IO!Lowest(IO!Min({n, Room}))
        IN  /\ mode # {} /\ n <= IO!Cardinality(IO!Unused) /\ IO!FreeIo # {}
            /\ wrote' = Begun(fd, ps) /\ mixed' = mixed
            /\ PipeFails(n, Room, ps, fd) \/ ForkFails(n, Room, ps, fd) \/ PipeOpens(mode, n, Room, ps, fd)
  BY Zenon DEF IO!pipe_open, Pipes, Room, Begun, Put, PipeEnds, PipeFails, ForkFails, PipeOpens, Kept,
               ReadFile, WriteFile
<1>3. PICK mode : mode = IO!io_mode_flags(m)
  OBVIOUS
<1>4. PICK n : n = IO!Cardinality(mode)
  OBVIOUS
<1>5. PICK r : r = IO!Min({n, Room})
  OBVIOUS
<1>6. PICK ps : ps = Pipes(n)
  OBVIOUS
<1>7. PICK fd : fd = IO!Lowest(r)
  OBVIOUS
<1>8. PICK room : room = Room
  OBVIOUS
<1>9. (mode \in {{"r"}, {"w"}} /\ n = 1) \/ (mode = {"r", "w"} /\ n = 2)
  BY <1>2, <1>3, <1>4, ModeFlags
<1>10. /\ n <= IO!Cardinality(IO!Unused) /\ IO!FreeIo # {} /\ wrote' = Begun(fd, ps) /\ mixed' = mixed
       /\ PipeFails(n, room, ps, fd) \/ ForkFails(n, room, ps, fd) \/ PipeOpens(mode, n, room, ps, fd)
  BY <1>2, <1>3, <1>4, <1>5, <1>6, <1>7, <1>8
<1>11. PipesFor(n, r, ps, fd)
  <2>1. n \in {1, 2}
    BY <1>9
  <2>2. PipesFor(n, IO!Min({n, Room}), Pipes(n), IO!Lowest(IO!Min({n, Room})))
    BY <1>1, <1>10, <2>1, PipesGiven
  <2> QED
    BY <1>5, <1>6, <1>7, <2>2
<1>12. room >= n => r = n
  <2>1. n \in {1, 2} /\ IO!Cardinality(IO!FreeFds) \in Nat
    BY <1>9, ObjectsAssumption, FS_Subset, FS_CardinalityType, CountIs DEF IO!FreeFds
  <2>2. room \in Nat
    BY <1>8, <2>1 DEF Room
  <2>3. r = CHOOSE x \in {n, room} : \A y \in {n, room} : x <= y
    BY <1>5, <1>8 DEF IO!Min
  <2> QED
    BY <2>1, <2>2, <2>3
<1>13. ~bad
  BY <1>10 DEF IO!FreeIo
<1>14. CASE PipeFails(n, room, ps, fd)
  BY <1>10, <1>11, <1>13, <1>14, PipeFailsStep
<1>15. CASE ForkFails(n, room, ps, fd)
  <2>1. n = r
    BY <1>12, <1>15 DEF ForkFails
  <2> QED
    BY <1>10, <1>11, <1>13, <1>15, <2>1, PipeFailsStep
<1>16. CASE PipeOpens(mode, n, room, ps, fd)
  <2>1. PipesFor(n, n, ps, fd)
    BY <1>11, <1>12, <1>16 DEF PipeOpens
  <2> QED
    BY <1>9, <1>10, <1>16, <2>1, PipeOpensStep
<1> QED
  BY <1>10, <1>14, <1>15, <1>16

\* Every step keeps the invariant.
LEMMA StreamStep ==
  ASSUME StreamInv, [IO!Next]_iovars
  PROVE  StreamInv'
<1>1. CASE UNCHANGED iovars
  BY <1>1 DEF iovars, StreamInv, StreamType, PipesBegun, FilesOwn, WaitersFree, ChildrenOwn, ChildOwn,
              Facing, Copied
<1>2. CASE IO!io_s_pipe
  BY <1>2, SPipeStep
<1>3. CASE IO!pipe_open
  BY <1>3, PipeOpenStep
<1>4. CASE IO!io_write \/ IO!io_flush
  BY <1>4, WriteStep
<1>5. CASE IO!io_set_sync \/ IO!io_syswrite \/ IO!kid_read \/ IO!kid_write \/ IO!kid_exit
  BY <1>5, AsideStep
<1>6. CASE IO!io_getc \/ IO!io_read \/ IO!read_all \/ IO!io_ungetc \/ IO!io_eof \/ IO!io_sysread
  BY <1>6, ReadStep
<1>7. CASE IO!io_close
  BY <1>7, CloseStep
<1>8. CASE IO!io_close_waited
  BY <1>8, WaitedStep
<1>9. CASE IO!io_clone
  BY <1>9, CloneStep
<1>10. CASE IO!io_reopen
  BY <1>10, ReopenStep
<1> QED
  BY <1>1, <1>2, <1>3, <1>4, <1>5, <1>6, <1>7, <1>8, <1>9, <1>10 DEF IO!Next

\* What it says of descriptors and of a close that waits
LEMMA StreamOwn == ASSUME StreamInv PROVE IO!OwnFd /\ IO!CloseFrees
<1>1. StreamType /\ WaitersFree
  BY DEF StreamInv
<1>2. ASSUME ~bad
      PROVE  /\ \A i, j \in Io, a, b \in {"f", "f2"} :
                  ios[i][a] # IO!NoFile /\ ios[i][a].fd = ios[j][b].fd => i = j /\ a = b
             /\ \A f \in IO!Files \ {IO!NoFile} : fdt[f.fd] # IO!NoEnd /\ f.fd \notin leak
             /\ \A d \in Fd : fdt[d] # IO!NoEnd => d \in leak \/ \E f \in IO!Files : f.fd = d
  <2>1. FilesOwn
    BY <1>2 DEF StreamInv
  <2>2. ASSUME NEW i \in Io, NEW j \in Io, NEW a \in Slots, NEW b \in Slots,
               ios[i][a] # IO!NoFile, ios[i][a].fd = ios[j][b].fd
        PROVE  i = j /\ a = b
    <3>1. PICK d : d = ios[i][a].fd
      OBVIOUS
    <3>2. d \in Fd
      BY <2>1, <2>2, <3>1 DEF FilesOwn
    <3>3. ios[j][b] # IO!NoFile
      BY <2>2, <3>1, <3>2, NoneShape, ObjectsAssumption
    <3> QED
      BY <2>1, <2>2, <3>3 DEF FilesOwn
  <2>3. ASSUME NEW f \in IO!Files, f # IO!NoFile PROVE fdt[f.fd] # IO!NoEnd /\ f.fd \notin leak
    <3>1. PICK i \in Io, a \in Slots : f = ios[i][a]
      BY <2>3 DEF IO!Files, Slots
    <3> QED
      BY <2>1, <2>3, <3>1 DEF FilesOwn
  <2>4. \A i \in Io, a \in Slots : ios[i][a] \in IO!Files
    BY DEF IO!Files, Slots
  <2>5. \A d \in Fd : fdt[d] # IO!NoEnd => d \in leak \/ \E f \in IO!Files : f.fd = d
    BY <2>1, <2>4 DEF FilesOwn
  <2> QED
    BY <2>2, <2>3, <2>5 DEF Slots
<1>3. ASSUME NEW i \in Io, ios[i].wait
      PROVE  \/ \E e \in kids[ios[i].pid].holds : mixed[e[1]]
             \/ \A e \in kids[ios[i].pid].holds, d \in Fd : fdt[d] # Other(e)
  <2>1. PICK k \in Pid : k = ios[i].pid
    BY <1>1, <1>3 DEF WaitersFree
  <2>2. Copied(k) \/ Facing(k) = {}
    BY <1>1, <1>3, <2>1 DEF WaitersFree
  <2> QED
    BY <2>1, <2>2 DEF Copied, Facing
<1>4. IO!OwnFd
  BY <1>2, Zenon DEF IO!OwnFd
<1>5. IO!CloseFrees
  BY <1>3, Zenon DEF IO!CloseFrees, Other
<1> QED
  BY <1>4, <1>5

\* No two open FILEs of IO objects have one descriptor, each has one that is open, and a
\* close lets go of all the pipes to its child before it waits (io.c).
THEOREM StreamOwnFd == Spec => []OwnFd
<1> DEFINE I == which = "Stream" => StreamInv
<1>1. Init => I
  BY StreamInit DEF Init
<1>2. I /\ [Next]_vars => I'
  <2> SUFFICES ASSUME I, [Next]_vars, which' = "Stream"
               PROVE  StreamInv'
    OBVIOUS
  <2>1. which = "Stream" /\ StreamInv
    BY DEF Next, vars
  <2>2. [IO!Next]_iovars
    BY <2>1 DEF Next, vars
  <2> QED
    BY <2>1, <2>2, StreamStep
<1>3. I => OwnFd
  BY StreamOwn DEF OwnFd
<1> QED
  BY <1>1, <1>2, <1>3, PTL DEF Spec

=============================================================================
