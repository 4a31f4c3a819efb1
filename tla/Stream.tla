------------------------------- MODULE Stream -------------------------------
(***************************************************************************)
(* io.c: IO objects over descriptors, and pipes to child processes.  A FILE of stdio has what it has read  *)
(* ahead (r) and what it has not written yet (w).  The n-th byte written   *)
(* to a pipe is the number n.                                              *)
(*                                                                         *)
(* Threads: an operation that would block is not enabled until it can be   *)
(* finished, and a close that waits for its child (see Process) leaves the *)
(* others running.  While one thread closes an IO no other uses it.        *)
(***************************************************************************)
EXTENDS Integers, Sequences, SequencesExt, FiniteSets, FiniteSetsExt

CONSTANTS
  Io,           \* slots for IO objects
  Fd,           \* descriptors, positive numbers
  Pipe,         \* pipes that can be made
  Pid,          \* children that can be started
  MaxByte,      \* bytes written to one pipe
  PipeBuf       \* bytes a pipe holds

VARIABLES
  ios,          \* IO objects: their OpenFile
  fdt,          \* descriptor -> an end of a pipe
  pipe,         \* what is in a pipe
  kids,         \* children
  wrote, took,  \* how many bytes were written to a pipe, which were read, in order
  lost,         \* bytes of buffers that were closed or had no reader
  mixed,        \* pipes used past stdio's buffers, or through two FILEs
  leak,         \* descriptors no FILE has any more
  bad           \* a garbage descriptor was closed or a closed FILE is still in use
strvars == <<ios, fdt, pipe, kids, wrote, took, lost, mixed, leak, bad>>

None == 0
NoPipe == "nopipe"
NoPid == "nopid"
NoEnd == <<NoPipe, "-">>
NoFile == [fd |-> None, m |-> "-", w |-> <<>>, r |-> <<>>]
NoIo == [made |-> FALSE, f |-> NoFile, f2 |-> NoFile, mode |-> {}, pid |-> NoPid,
         wait |-> FALSE]
NoKid == [st |-> "none", holds |-> {}]

Ends == Pipe \X {"r", "w"}
FreeFds == {d \in Fd : fdt[d] = NoEnd}
\* The descriptors of n pipes: each takes the two lowest that are free.
Pair(S) == LET d == Min(S) IN <<d, Min(S \ {d})>>
Lowest(n) ==
  CASE n = 0 -> <<>>
    [] n = 1 -> Pair(FreeFds)
    [] n = 2 -> Pair(FreeFds) \o Pair(FreeFds \ ToSet(Pair(FreeFds)))
Unused == {p \in Pipe : wrote[p] = -1}
\* A new object, and a new child; nothing goes on after what bad says.
FreeIo == {i \in Io : ~ios[i].made /\ ~bad}
NewIo == CHOOSE i \in FreeIo : TRUE
FreePid == {k \in Pid : kids[k].st = "none" /\ ~bad}
NewPid == CHOOSE k \in FreePid : TRUE
Open(io) == ios[io].made /\ ios[io].f # NoFile /\ ~ios[io].wait /\ ~bad
Files == {ios[i].f : i \in Io} \cup {ios[i].f2 : i \in Io}
Holders(e) == {d \in Fd : fdt[d] = e} \cup {k \in Pid : kids[k].st = "run" /\ e \in kids[k].holds}
\* GetWriteFile()
WriteSlot(io) == IF ios[io].f2 # NoFile THEN "f2" ELSE "f"
PipeOf(file) == fdt[file.fd][1]
Made(i, f, f2, mode, pid) == [NoIo EXCEPT !.made = TRUE, !.f = f, !.f2 = f2, !.mode = mode, !.pid = pid]

-----------------------------------------------------------------------------
(* Opening *)

\* io_mode_flags(): the letters of a mode; {} is the error
io_mode_flags(m) ==
  LET n == IF Len(m) > 1 /\ m[2] = "b" THEN 3 ELSE 2
  IN  CASE m[1] = "r" -> {"r"} \cup IF Len(m) >= n /\ m[n] = "+" THEN {"w"} ELSE {}
        [] m[1] \in {"w", "a"} -> {"w"} \cup IF Len(m) >= n /\ m[n] = "+" THEN {"r"} ELSE {}
        [] OTHER -> {}
Modes == {<<"r">>, <<"w">>, <<"r", "b", "+">>, <<"x">>}

io_s_pipe ==
  /\ Cardinality(FreeFds) >= 2 /\ Unused # {} /\ Cardinality(FreeIo) >= 2
  /\ LET fd == Lowest(1)
         p == CHOOSE q \in Unused : TRUE
         i == NewIo
         j == CHOOSE k \in FreeIo \ {i} : TRUE
     IN
       /\ fdt' = [fdt EXCEPT ![fd[1]] = <<p, "r">>, ![fd[2]] = <<p, "w">>]
       /\ wrote' = [wrote EXCEPT ![p] = 0]
       /\ ios' = [ios EXCEPT ![i] = Made(i, [NoFile EXCEPT !.fd = fd[1], !.m = "r"], NoFile, {"r"}, NoPid),
                             ![j] = Made(j, [NoFile EXCEPT !.fd = fd[2], !.m = "w"], NoFile, {"w"}, NoPid)]
  /\ UNCHANGED <<pipe, kids, took, lost, mixed, leak, bad>>

\* pipe_open() with a command: the child has its ends of the pipes as standard
\* input and output and no other descriptor.  A pipe that cannot be made leaves
\* the one made before it open; a fork that fails closes one end of each pipe,
\* and of the pipe the mode has not asked for, a descriptor that was never set.
pipe_open ==
  \E m \in Modes :
    LET i == NewIo
        mode == io_mode_flags(m)
        n == Cardinality(mode)
        two == n = 2
    IN
    /\ mode # {} /\ n <= Cardinality(Unused) /\ FreeIo # {}
    /\ LET   ps == CHOOSE q \in [1..n -> Unused] : two => q[1] # q[2]
             room == Cardinality(FreeFds) \div 2
             fd   == Lowest(Min({n, room}))
             made == [k \in 1..Len(fd) |-> <<ps[(k + 1) \div 2], IF k % 2 = 1 THEN "r" ELSE "w">>]
             put  == [d \in Fd |-> IF \E k \in 1..Len(fd) : fd[k] = d
                                   THEN made[CHOOSE k \in 1..Len(fd) : fd[k] = d] ELSE fdt[d]]
             rfd == fd[1]
             wfd == fd[2 * n]
             begun == [p \in Pipe |-> IF \E k \in 1..Len(fd) : made[k][1] = p THEN 0 ELSE wrote[p]]
         IN
         /\ wrote' = begun
         /\ \/ \* pipe() fails
               /\ room < n
               /\ fdt' = put /\ leak' = leak \cup ToSet(fd)
               /\ UNCHANGED <<ios, kids, bad>>
            \/ \* fork() fails
               /\ room >= n
               /\ LET gone == {rfd, wfd}
                  IN  /\ fdt' = [d \in Fd |-> IF two /\ d \in gone THEN NoEnd ELSE put[d]]
                      /\ leak' = leak \cup (ToSet(fd) \ gone)
                      /\ bad' = ~two
               /\ UNCHANGED <<ios, kids>>
            \/ /\ room >= n
               /\ FreePid # {}
               /\ LET   k == NewPid
                        keep == (IF "r" \in mode THEN {rfd} ELSE {}) \cup (IF "w" \in mode THEN {wfd} ELSE {})
                        rf == [NoFile EXCEPT !.fd = rfd, !.m = "r"]
                        wf == [NoFile EXCEPT !.fd = wfd, !.m = "w"]
                    IN
                    /\ kids' = [kids EXCEPT ![k] = [NoKid EXCEPT !.st = "run",
                         !.holds = {put[d] : d \in ToSet(fd) \ keep}]]
                    /\ fdt' = [d \in Fd |-> IF d \in ToSet(fd) \ keep THEN NoEnd ELSE put[d]]
                    /\ ios' = [ios EXCEPT ![i] =
                         Made(i, IF "r" \in mode THEN rf ELSE wf, IF two THEN wf ELSE NoFile,
                              mode \cup {"sync"}, k)]
               /\ UNCHANGED <<leak, bad>>
    /\ UNCHANGED <<pipe, took, lost, mixed>>

-----------------------------------------------------------------------------
(* Writing *)

\* Bytes bs reach the pipe of end e: without a reader they are lost.
Reach(e, bs) ==
  IF Holders(<<e[1], "r">>) = {}
  THEN /\ lost' = [lost EXCEPT ![e[1]] = @ \cup ToSet(bs)]
       /\ UNCHANGED pipe
  ELSE /\ Len(pipe[e[1]]) + Len(bs) <= PipeBuf
       /\ pipe' = [pipe EXCEPT ![e[1]] = @ \o bs]
       /\ UNCHANGED lost

\* io_writable(), and a FILE that can write
Writable(io) == Open(io) /\ "w" \in ios[io].mode /\ ios[io][WriteSlot(io)].m = "w"

io_write ==
  \E io \in Io :
    LET slot == WriteSlot(io)
        file == ios[io][slot]
        p    == PipeOf(file)
        new  == Append(file.w, wrote[p] + 1)
    IN
    /\ Writable(io) /\ wrote[p] < MaxByte
    /\ wrote' = [wrote EXCEPT ![p] = @ + 1]
    /\ IF "sync" \in ios[io].mode
       THEN Reach(fdt[file.fd], new) /\ ios' = [ios EXCEPT ![io][slot].w = <<>>]
       ELSE ios' = [ios EXCEPT ![io][slot].w = new] /\ UNCHANGED <<pipe, lost>>
    /\ UNCHANGED <<fdt, kids, took, mixed, leak, bad>>

io_flush ==
  \E io \in Io :
    /\ Writable(io)
    /\ Reach(fdt[ios[io][WriteSlot(io)].fd], ios[io][WriteSlot(io)].w)
    /\ ios' = [ios EXCEPT ![io][WriteSlot(io)].w = <<>>]
    /\ UNCHANGED <<fdt, kids, wrote, took, mixed, leak, bad>>

io_set_sync ==
  \E io \in Io, on \in BOOLEAN :
    /\ Open(io) /\ "w" \in ios[io].mode
    /\ ios' = [ios EXCEPT ![io].mode = IF on THEN @ \cup {"sync"} ELSE @ \ {"sync"}]
    /\ UNCHANGED <<fdt, pipe, kids, wrote, took, lost, mixed, leak, bad>>

\* write(2), past the buffer
io_syswrite ==
  \E io \in Io :
    LET file == ios[io][WriteSlot(io)]
        p == PipeOf(file)
    IN
    /\ Writable(io) /\ wrote[p] < MaxByte
    /\ wrote' = [wrote EXCEPT ![p] = @ + 1]
    /\ Reach(fdt[file.fd], <<wrote[p] + 1>>)
    /\ mixed' = [mixed EXCEPT ![p] = TRUE]
    /\ UNCHANGED <<ios, fdt, kids, took, leak, bad>>

-----------------------------------------------------------------------------
(* Reading *)

Readable(io) == Open(io) /\ "r" \in ios[io].mode /\ ios[io].f.m = "r"
AtEnd(p) == Holders(<<p, "w">>) = {}
There(io) == ios[io].f.r \o pipe[PipeOf(ios[io].f)]

\* getc(), fread() of n bytes, and read_all() with n = -1: the FILE takes all the
\* pipe has into its buffer, and the caller what it asked for.  They wait for
\* that, or for the end.
Read(io, n) ==
  LET p == PipeOf(ios[io].f)
      k == IF n = -1 THEN Len(There(io)) ELSE Min({n, Len(There(io))})
      buffered == Len(ios[io].f.r)
  IN
  /\ Readable(io)
  /\ AtEnd(p) \/ (n # -1 /\ Len(There(io)) >= n)
  /\ took' = [took EXCEPT ![p] = @ \o SubSeq(There(io), 1, k)]
  /\ IF n # -1 /\ buffered >= n
     THEN ios' = [ios EXCEPT ![io].f.r = SubSeq(@, n + 1, buffered)] /\ UNCHANGED pipe
     ELSE /\ ios' = [ios EXCEPT ![io].f.r = SubSeq(There(io), k + 1, Len(There(io)))]
          /\ pipe' = [pipe EXCEPT ![p] = <<>>]
  /\ UNCHANGED <<fdt, kids, wrote, lost, mixed, leak, bad>>

io_getc == \E io \in Io : Read(io, 1)
io_read == \E io \in Io : Read(io, 2)
read_all == \E io \in Io : Read(io, -1)

\* The byte that was read last is put back.
io_ungetc ==
  \E io \in Io :
    LET p == PipeOf(ios[io].f) IN
    /\ Readable(io) /\ took[p] # <<>> /\ ~mixed[p]
    /\ took' = [took EXCEPT ![p] = Front(@)]
    /\ ios' = [ios EXCEPT ![io].f.r = <<Last(took[p])>> \o @]
    /\ UNCHANGED <<fdt, pipe, kids, wrote, lost, mixed, leak, bad>>

\* It waits for a byte, or the end, and puts the byte back.
io_eof ==
  \E io \in Io :
    LET p == PipeOf(ios[io].f) IN
    /\ Readable(io) /\ ios[io].f.r = <<>> /\ pipe[p] # <<>>
    /\ ios' = [ios EXCEPT ![io].f.r = pipe[p]]
    /\ pipe' = [pipe EXCEPT ![p] = <<>>]
    /\ UNCHANGED <<fdt, kids, wrote, took, lost, mixed, leak, bad>>

\* read(2): what is in the pipe, past the buffer
io_sysread ==
  \E io \in Io :
    LET p == PipeOf(ios[io].f) IN
    /\ Readable(io) /\ pipe[p] # <<>>
    /\ took' = [took EXCEPT ![p] = Append(@, Head(pipe[p]))]
    /\ pipe' = [pipe EXCEPT ![p] = Tail(@)]
    /\ mixed' = [mixed EXCEPT ![p] = TRUE]
    /\ UNCHANGED <<ios, fdt, kids, wrote, lost, leak, bad>>

-----------------------------------------------------------------------------
(* Closing and waiting *)

\* fclose() of some FILEs: what is unwritten goes out, what is read ahead is
\* lost, and the descriptors are free.  tbl is the table without them; first is
\* what is flushed to each pipe before.
Ended(files, tbl, first) ==
  LET out(p) == LET F == {f \in files : f.fd # None /\ fdt[f.fd] = <<p, "w">>}
                IN  first[p] \o IF F = {} THEN <<>> ELSE (CHOOSE f \in F : TRUE).w
      in(p) == UNION {ToSet(f.r) : f \in {g \in files : g.fd # None /\ fdt[g.fd] = <<p, "r">>}}
      read(p) == (Holders(<<p, "r">>) \cap Pid) # {} \/ \E d \in Fd : tbl[d] = <<p, "r">>
      had(p) == Holders(<<p, "r">>) # {}
  IN
  /\ \A p \in Pipe : had(p) => Len(pipe[p]) + Len(out(p)) <= PipeBuf
  /\ pipe' = [p \in Pipe |-> IF read(p) THEN pipe[p] \o out(p) ELSE <<>>]
  /\ lost' = [p \in Pipe |-> lost[p] \cup in(p) \cup
                (IF read(p) THEN {} ELSE ToSet(pipe[p]) \cup ToSet(out(p)))]
Nothing == [p \in Pipe |-> <<>>]
Without(fds) == [d \in Fd |-> IF d \in fds THEN NoEnd ELSE fdt[d]]

\* Mutant: the second FILE of a two-way pipe stays open.
io_close_half ==
  \E io \in Io :
    LET files == {ios[io].f}
        tbl == Without({f.fd : f \in files})
        pid == ios[io].pid
    IN
    /\ Open(io)
    /\ Ended(files, tbl, Nothing) /\ fdt' = tbl
    /\ ios' = [ios EXCEPT ![io] =
         IF pid = NoPid THEN NoIo ELSE [Made(io, NoFile, NoFile, {}, pid) EXCEPT !.wait = TRUE]]
    /\ UNCHANGED <<kids, wrote, took, mixed, leak, bad>>

\* io_fptr_finalize() up to the wait for the child, from io_close() or when the
\* collector frees the object; one that is closed has no operations left.
io_close ==
  \E io \in Io :
    LET files == {ios[io].f, ios[io].f2} \ {NoFile}
        tbl == Without({f.fd : f \in files})
        pid == ios[io].pid
    IN
    /\ Open(io)
    /\ Ended(files, tbl, Nothing) /\ fdt' = tbl
    /\ ios' = [ios EXCEPT ![io] =
         IF pid = NoPid THEN NoIo ELSE [Made(io, NoFile, NoFile, {}, pid) EXCEPT !.wait = TRUE]]
    /\ UNCHANGED <<kids, wrote, took, mixed, leak, bad>>

\* rb_syswait(): a child that was waited for before is an error of wait(), which
\* leaves f and f2 at closed FILEs; programs do not use the object after it.
io_close_waited ==
  \E io \in Io :
    LET k == ios[io].pid IN
    /\ ios[io].wait /\ kids[k].st \in {"dead", "reaped"}
    /\ kids' = [kids EXCEPT ![k].st = "reaped"]
    /\ ios' = [ios EXCEPT ![io] = NoIo]
    /\ UNCHANGED <<fdt, pipe, wrote, took, lost, mixed, leak, bad>>

-----------------------------------------------------------------------------
(* Two objects on one pipe *)

\* Mutant: the buffer is not flushed before its descriptor is used a second time.
FlushedFirst_not(orig) == <<>>

FlushedFirst(orig) ==
  IF "w" \in ios[orig].mode
  THEN ios[orig][WriteSlot(orig)].w ELSE <<>>
\* The FILE's mode: "r+" on a pipe's end can what the end can.
FileOn(d, end) == [NoFile EXCEPT !.fd = d, !.m = end[2]]

\* io_clone(): a second descriptor for f; f2 is never copied.
io_clone ==
  \E orig \in Io :
    LET i == NewIo
        file == ios[orig].f
        d == Min(FreeFds)
        e == fdt[file.fd]
    IN
    /\ Open(orig) /\ FreeIo # {} /\ FreeFds # {}
    /\ Reach(fdt[ios[orig][WriteSlot(orig)].fd], FlushedFirst(orig))
    /\ fdt' = [fdt EXCEPT ![d] = e]
    /\ ios' = [ios EXCEPT ![orig][WriteSlot(orig)].w = <<>>,
                          ![i] = Made(i, FileOn(d, e), NoFile, ios[orig].mode, ios[orig].pid)]
    /\ mixed' = [mixed EXCEPT ![e[1]] = TRUE]
    /\ UNCHANGED <<kids, wrote, took, leak, bad>>

\* io_reopen(): the descriptor of io becomes a second one for nfile's.  The child
\* io had is forgotten.  When both have two FILEs the second new one is put in f,
\* the first is lost, and f2 is left closed.
io_reopen ==
  \E io, nfile \in Io :
    LET f == ios[io].f
        e == fdt[ios[nfile].f.fd]
        both == ios[io].f2 # NoFile /\ ios[nfile].f2 # NoFile
        fds == {f.fd} \cup (IF ios[io].f2 = NoFile THEN {} ELSE {ios[io].f2.fd})
        tbl == [Without(fds) EXCEPT ![f.fd] = e]
        wp == PipeOf(ios[nfile][WriteSlot(nfile)])
    IN
    /\ Open(io) /\ Open(nfile) /\ io # nfile
    /\ Ended({f, ios[io].f2} \ {NoFile}, tbl, [Nothing EXCEPT ![wp] = FlushedFirst(nfile)])
    /\ fdt' = tbl
    /\ ios' = [ios EXCEPT ![nfile][WriteSlot(nfile)].w = <<>>,
         ![io] = Made(io, FileOn(f.fd, e), NoFile, ios[nfile].mode, ios[nfile].pid)]
    /\ mixed' = [mixed EXCEPT ![e[1]] = TRUE]
    /\ bad' = both
    /\ UNCHANGED <<kids, wrote, took, leak>>

-----------------------------------------------------------------------------
(* The children, which are external: a command reads its input to the end, *)
(* may write, and exits; without a reader its output ends it.              *)

Kid(k, side) == {e \in kids[k].holds : e[2] = side}
kid_read ==
  \E k \in Pid : kids[k].st = "run" /\ \E e \in Kid(k, "r") :
    /\ pipe[e[1]] # <<>>
    /\ took' = [took EXCEPT ![e[1]] = Append(@, Head(pipe[e[1]]))]
    /\ pipe' = [pipe EXCEPT ![e[1]] = Tail(@)]
    /\ UNCHANGED <<ios, fdt, kids, wrote, lost, mixed, leak, bad>>
kid_write ==
  \E k \in Pid : kids[k].st = "run" /\ \E e \in Kid(k, "w") :
    /\ wrote[e[1]] < MaxByte /\ Holders(<<e[1], "r">>) # {}
    /\ wrote' = [wrote EXCEPT ![e[1]] = @ + 1]
    /\ Reach(e, <<wrote[e[1]] + 1>>)
    /\ UNCHANGED <<ios, fdt, kids, took, mixed, leak, bad>>
kid_exit ==
  \E k \in Pid :
    /\ kids[k].st = "run"
    /\ kids' = [kids EXCEPT ![k].st = "dead"]
    /\ LET gone == {e \in kids[k].holds : e[2] = "r" /\ Holders(e) = {k}}
           ps == {e[1] : e \in gone}
       IN  /\ pipe' = [p \in Pipe |-> IF p \in ps THEN <<>> ELSE pipe[p]]
           /\ lost' = [p \in Pipe |-> lost[p] \cup (IF p \in ps THEN ToSet(pipe[p]) ELSE {})]
    /\ UNCHANGED <<ios, fdt, wrote, took, mixed, leak, bad>>

-----------------------------------------------------------------------------
Init ==
  /\ ios = [i \in Io |-> NoIo] /\ fdt = [d \in Fd |-> NoEnd]
  /\ pipe = [p \in Pipe |-> <<>>] /\ kids = [k \in Pid |-> NoKid]
  /\ wrote = [p \in Pipe |-> -1] /\ took = [p \in Pipe |-> <<>>] /\ lost = [p \in Pipe |-> {}]
  /\ mixed = [p \in Pipe |-> FALSE] /\ leak = {} /\ bad = FALSE

Next ==
  \/ io_s_pipe \/ pipe_open \/ io_write \/ io_flush \/ io_set_sync \/ io_syswrite
  \/ io_getc \/ io_read \/ read_all \/ io_ungetc \/ io_eof \/ io_sysread
  \/ io_close \/ io_close_waited \/ io_clone \/ io_reopen \/ kid_read \/ kid_write \/ kid_exit
Spec == Init /\ [][Next]_strvars

-----------------------------------------------------------------------------
Written(p) == {f \in Files : f # NoFile /\ fdt[f.fd] = <<p, "w">>}
Reading(p) == {f \in Files : f # NoFile /\ fdt[f.fd] = <<p, "r">>}
Held(p) == UNION {ToSet(f.w) : f \in Written(p)} \cup ToSet(pipe[p])
             \cup UNION {ToSet(f.r) : f \in Reading(p)} \cup ToSet(took[p]) \cup lost[p]

\* What was written to a pipe is in a buffer that will still be written, in the
\* pipe, in a buffer that can still be read, or read, and lost only with the end
\* it was for; through one FILE at each end it arrives in order.  Flushing before
\* clone, reopen and the end of a FILE is what keeps this so.
BytesKept ==
  \A p \in Pipe : wrote[p] >= 0 /\ ~bad =>
    /\ 1..wrote[p] = Held(p)
    /\ ~mixed[p] /\ lost[p] = {} =>
         \A w \in Written(p) \cup {NoFile}, r \in Reading(p) \cup {NoFile} :
           LET all == took[p] \o r.r \o pipe[p] \o w.w
           IN  Len(all) = wrote[p] => all = [n \in 1..wrote[p] |-> n]

\* No two FILEs have one descriptor, each has one that is open, and a descriptor no
\* FILE has is one that a failed popen has left behind.
OwnFd ==
  ~bad =>
    /\ \A i, j \in Io, a, b \in {"f", "f2"} :
         ios[i][a] # NoFile /\ ios[i][a].fd = ios[j][b].fd => i = j /\ a = b
    /\ \A f \in Files \ {NoFile} : fdt[f.fd] # NoEnd /\ f.fd \notin leak
    /\ \A d \in Fd : fdt[d] # NoEnd => d \in leak \/ \E f \in Files : f.fd = d

\* A close that waits for its child has let go of the pipes to it first, so that
\* the child reads to the end and goes: no descriptor of the program has the
\* other end of one, but in a copy made with clone or reopen.
CloseFrees ==
  \A io \in Io : ios[io].wait =>
    LET holds == kids[ios[io].pid].holds
        Other(e) == <<e[1], IF e[2] = "r" THEN "w" ELSE "r">>
    IN  (\E e \in holds : mixed[e[1]]) \/ \A e \in holds, d \in Fd : fdt[d] # Other(e)

=============================================================================
