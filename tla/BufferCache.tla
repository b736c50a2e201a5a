---------------------------- MODULE BufferCache ----------------------------
(***************************************************************************)
(* fs/buffer.c with the request table of kernel/blk_drv/ll_rw_blk.c: tasks *)
(* read and write blocks of one device through a cache of NR_BUFFERS       *)
(* buffers.  The kernel is not preemptive: cur is the task that runs in it *)
(* and no other task takes a step before cur sleeps or returns to its      *)
(* program.  The interrupt of the disk (end_request) comes at any time.    *)
(*                                                                         *)
(* "while (bh->b_lock) sleep_on(&bh->b_wait)" is a step that waits for the *)
(* lock to be free: module Sched shows that no sleeper is forgotten there. *)
(* buffer_wait and wait_for_request, which are not tested in such a loop,  *)
(* are queues here; a wake_up reaches all of a queue, each sleeper waking  *)
(* the one before it.                                                      *)
(***************************************************************************)
EXTENDS Integers, FiniteSets

CONSTANTS Procs,       \* tasks
          Blocks,      \* blocks of the device
          NoProc,      \* no task is in the kernel without sleeping
          NoBlock,     \* b_dev = 0: the buffer has no block
          Values,      \* what a block may hold
          NR_BUFFERS,
          NR_REQUEST,
          MaxOps,      \* bound: reads, writes and syncs of a task
          IOErrors,    \* whether the disk fails
          CopyFaults   \* whether get_fs_byte in file_write may sleep

ASSUME BufferAssumption ==
    /\ IsFiniteSet(Procs) /\ NR_BUFFERS \in Nat \ {0} /\ NR_REQUEST \in Nat \ {0, 1}
    /\ MaxOps \in Nat /\ NoBlock \notin Blocks /\ NoProc \notin Procs
    /\ Values # {} /\ {IOErrors, CopyFaults} \subseteq BOOLEAN

VARIABLES
    head,      \* buffer heads: b_blocknr, b_count, b_dirt, b_lock, b_uptodate
    data,      \* b_data
    free_list, \* the buffers, first choice first
    request,   \* the request table
    disk,      \* what is on the disk
    last,      \* history: what was last written to each block
    cur,       \* the task that runs in the kernel
    pc,        \* where a task is
    want,      \* the block it wants
    mode,      \* what it wants to do
    bh,        \* the buffer it has or hopes for, 0 for none
    nsync,     \* how far sync_dev or sys_sync has come
    ops        \* operations it may still start

vars == <<head, data, free_list, request, disk, last, cur, pc, want, mode, bh,
          nsync, ops>>

Buffer == 1 .. NR_BUFFERS
Slot   == 0 .. NR_REQUEST - 1
Empty  == [bh |-> 0, cmd |-> "none"]

Head0 == [b_blocknr |-> NoBlock, b_count |-> 0, b_dirt |-> FALSE,
          b_lock |-> FALSE, b_uptodate |-> FALSE]

Init ==
    /\ \E v \in Values : /\ data = [b \in Buffer |-> v]
                         /\ disk = [n \in Blocks |-> v]
                         /\ last = disk
    /\ head = [b \in Buffer |-> Head0]
    /\ free_list = [b \in Buffer |-> b]
    /\ request = [i \in Slot |-> Empty]
    /\ cur = NoProc
    /\ pc = [p \in Procs |-> "idle"]
    /\ want = [p \in Procs |-> NoBlock]
    /\ mode = [p \in Procs |-> "none"]
    /\ bh = [p \in Procs |-> 0]
    /\ nsync = [p \in Procs |-> 0]
    /\ ops = [p \in Procs |-> MaxOps]

Goto(p, l) == pc' = [pc EXCEPT ![p] = l]

-----------------------------------------------------------------------------
\* A task starts bread, for reading or for writing, or sync.
starts(p) ==
    /\ pc[p] = "idle" /\ ops[p] > 0
    /\ ops' = [ops EXCEPT ![p] = @ - 1]
    /\ \/ \E n \in Blocks, m \in {"read", "write"} :
             /\ want' = [want EXCEPT ![p] = n]
             /\ mode' = [mode EXCEPT ![p] = m]
             /\ Goto(p, "getblk")
             /\ UNCHANGED nsync
       \/ /\ mode' = [mode EXCEPT ![p] = "sync"]
          /\ nsync' = [nsync EXCEPT ![p] = NR_BUFFERS + 1]  \* sys_sync: one pass
          /\ Goto(p, "sync")
          /\ UNCHANGED want
    /\ UNCHANGED <<head, data, free_list, request, disk, last, bh>>

-----------------------------------------------------------------------------
\* The label repeat of getblk.
find_buffer(n) == {b \in Buffer : head[b].b_blocknr = n}

BADNESS(b) == (IF head[b].b_dirt THEN 2 ELSE 0) + (IF head[b].b_lock THEN 1 ELSE 0)

\* The first of the least bad buffers that nobody uses.
Victim ==
    {free_list[i] : i \in {i \in Buffer :
        /\ head[free_list[i]].b_count = 0
        /\ \A j \in Buffer : head[free_list[j]].b_count = 0 =>
              \/ BADNESS(free_list[i]) < BADNESS(free_list[j])
              \/ BADNESS(free_list[i]) = BADNESS(free_list[j]) /\ i <= j}}

\* Mutant: the new user is not counted.
getblk_finds_uncounted(p) ==
    /\ pc[p] = "getblk"
    /\ \E b \in find_buffer(want[p]) : bh' = [bh EXCEPT ![p] = b]
    /\ Goto(p, "hash_wait")
    /\ UNCHANGED <<head, data, free_list, request, disk, last, want, mode, nsync, ops>>

\* get_hash_table finds the block: use it once it is unlocked.
getblk_finds(p) ==
    /\ pc[p] = "getblk"
    /\ \E b \in find_buffer(want[p]) :
          /\ head' = [head EXCEPT ![b].b_count = @ + 1]
          /\ bh' = [bh EXCEPT ![p] = b]
    /\ Goto(p, "hash_wait")
    /\ UNCHANGED <<data, free_list, request, disk, last, want, mode, nsync, ops>>

\* After the wait the buffer must still hold the block.
hash_wait(p) ==
    LET b == bh[p]
        same == head[b].b_blocknr = want[p]
    IN  /\ pc[p] = "hash_wait" /\ ~head[b].b_lock
        /\ Goto(p, IF same THEN "got" ELSE "getblk")
        /\ head' = IF same THEN head ELSE [head EXCEPT ![b].b_count = @ - 1]
        /\ bh' = IF same THEN bh ELSE [bh EXCEPT ![p] = 0]
        /\ UNCHANGED <<data, free_list, request, disk, last, want, mode, nsync, ops>>

\* Not in the cache: choose a buffer, or sleep when all are in use.
getblk_chooses(p) ==
    /\ pc[p] = "getblk" /\ find_buffer(want[p]) = {}
    /\ \/ /\ Victim = {}
          /\ Goto(p, "no_buffer")
          /\ UNCHANGED bh
       \/ \E b \in Victim : /\ bh' = [bh EXCEPT ![p] = b]
                            /\ Goto(p, "victim")
    /\ UNCHANGED <<head, data, free_list, request, disk, last, want, mode, nsync, ops>>

\* Mutant: the cache is not searched again after sleeping.
AddedMeanwhile_unchecked(p) == FALSE

\* Somebody else may have added this block while we slept.
AddedMeanwhile(p) == find_buffer(want[p]) # {}

\* Mutant: a dirty buffer is taken without writing it.
MustWrite_never(b) == FALSE

MustWrite(b) == head[b].b_dirt

\* Mutant: whether somebody uses the buffer by now is not looked at.
Taken_unchecked(b) == FALSE

Taken(b) == head[b].b_count # 0

\* remove_from_queues, insert_into_queues: b goes to the end of the free list.
MovedToEnd(b) ==
    LET at == CHOOSE i \in Buffer : free_list[i] = b
    IN  [i \in Buffer |-> IF i < at THEN free_list[i]
                          ELSE IF i < NR_BUFFERS THEN free_list[i + 1] ELSE b]

\* The buffer chosen is unlocked: write it, take it, or start again.
victim(p) ==
    LET b == bh[p]
    IN  /\ pc[p] = "victim" /\ ~head[b].b_lock
        /\ \/ /\ Taken(b) \/ (~MustWrite(b) /\ AddedMeanwhile(p))
              /\ Goto(p, "getblk")
              /\ bh' = [bh EXCEPT ![p] = 0]
              /\ UNCHANGED <<head, free_list, nsync>>
           \/ /\ ~Taken(b) /\ MustWrite(b)
              /\ Goto(p, "sync")
              /\ nsync' = [nsync EXCEPT ![p] = 1]
              /\ UNCHANGED <<head, free_list, bh>>
           \/ /\ ~Taken(b) /\ ~MustWrite(b) /\ ~AddedMeanwhile(p)
              /\ head' = [head EXCEPT ![b] = [Head0 EXCEPT !.b_blocknr = want[p],
                                                           !.b_count = 1]]
              /\ free_list' = MovedToEnd(b)
              /\ Goto(p, "got")
              /\ UNCHANGED <<bh, nsync>>
        /\ UNCHANGED <<data, request, disk, last, want, mode, ops>>

-----------------------------------------------------------------------------
\* make_request: the last third of the requests is only for reads.
Usable(cmd) == {i \in Slot : cmd = "READ" \/ i < (NR_REQUEST * 2) \div 3}
FreeSlot(cmd) == {i \in Usable(cmd) :
                    /\ request[i] = Empty
                    /\ \A j \in Usable(cmd) : request[j] = Empty => j <= i}

\* add_request takes b, already locked, into the queue; it is dirty no more.
AddRequest(b, cmd, i) ==
    /\ request' = [request EXCEPT ![i] = [bh |-> b, cmd |-> cmd]]
    /\ head' = [head EXCEPT ![b].b_lock = TRUE, ![b].b_dirt = FALSE]

\* Mutant: the buffer is only locked once there is a request.
NoRequest_unlocked(b, cmd) == FreeSlot(cmd) = {} /\ UNCHANGED <<head, request>>

\* No request is free: sleep with the buffer locked.
NoRequest(b, cmd) ==
    /\ FreeSlot(cmd) = {}
    /\ head' = [head EXCEPT ![b].b_lock = TRUE]
    /\ UNCHANGED request

\* sync_dev goes over the buffers twice, sys_sync once.
SyncBuffer(p) == ((nsync[p] - 1) % NR_BUFFERS) + 1

AfterSync(p) ==
    IF nsync[p] < 2 * NR_BUFFERS THEN "sync" ELSE IF mode[p] = "sync" THEN "idle" ELSE "victim"

sync(p) ==
    LET b == SyncBuffer(p)
    IN  /\ pc[p] = "sync" /\ ~head[b].b_lock
        /\ \/ /\ ~head[b].b_dirt
              /\ Goto(p, AfterSync(p))
              /\ nsync' = [nsync EXCEPT ![p] = IF AfterSync(p) = "sync" THEN @ + 1 ELSE 0]
              /\ UNCHANGED <<head, request>>
           \/ /\ head[b].b_dirt
              /\ \E i \in FreeSlot("WRITE") : AddRequest(b, "WRITE", i)
              /\ Goto(p, AfterSync(p))
              /\ nsync' = [nsync EXCEPT ![p] = IF AfterSync(p) = "sync" THEN @ + 1 ELSE 0]
           \/ /\ head[b].b_dirt
              /\ NoRequest(b, "WRITE")
              /\ Goto(p, "sync_sleep")
              /\ UNCHANGED nsync
        /\ UNCHANGED <<data, free_list, disk, last, want, mode, bh, ops>>

\* Woken up: look for a free request again.
sync_request(p) ==
    LET b == SyncBuffer(p)
    IN  /\ pc[p] = "sync_request"
        /\ \/ /\ \E i \in FreeSlot("WRITE") : AddRequest(b, "WRITE", i)
              /\ Goto(p, AfterSync(p))
              /\ nsync' = [nsync EXCEPT ![p] = IF AfterSync(p) = "sync" THEN @ + 1 ELSE 0]
           \/ /\ NoRequest(b, "WRITE")
              /\ Goto(p, "sync_sleep")
              /\ UNCHANGED nsync
        /\ UNCHANGED <<data, free_list, disk, last, want, mode, bh, ops>>

-----------------------------------------------------------------------------
\* bread has its buffer: read it unless it is up to date.
got(p) ==
    /\ pc[p] = "got"
    /\ Goto(p, IF head[bh[p]].b_uptodate THEN "use" ELSE "read")
    /\ UNCHANGED <<head, data, free_list, request, disk, last, want, mode, bh, nsync, ops>>

\* ll_rw_block(READ): lock the buffer; it may be up to date by now.
read(p) ==
    LET b == bh[p]
    IN  /\ pc[p] = "read" /\ ~head[b].b_lock
        /\ \/ /\ head[b].b_uptodate
              /\ Goto(p, "read_wait")
              /\ UNCHANGED <<head, request>>
           \/ /\ ~head[b].b_uptodate
              /\ \E i \in FreeSlot("READ") : AddRequest(b, "READ", i)
              /\ Goto(p, "read_wait")
           \/ /\ ~head[b].b_uptodate
              /\ NoRequest(b, "READ")
              /\ Goto(p, "read_sleep")
        /\ UNCHANGED <<data, free_list, disk, last, want, mode, bh, nsync, ops>>

read_request(p) ==
    LET b == bh[p]
    IN  /\ pc[p] = "read_request"
        /\ \/ /\ \E i \in FreeSlot("READ") : AddRequest(b, "READ", i)
              /\ Goto(p, "read_wait")
           \/ /\ NoRequest(b, "READ")
              /\ Goto(p, "read_sleep")
        /\ UNCHANGED <<data, free_list, disk, last, want, mode, bh, nsync, ops>>

\* The read is over; bread gives up if it failed.
read_wait(p) ==
    /\ pc[p] = "read_wait" /\ ~head[bh[p]].b_lock
    /\ Goto(p, IF head[bh[p]].b_uptodate THEN "use" ELSE "brelse")
    /\ UNCHANGED <<head, data, free_list, request, disk, last, want, mode, bh, nsync, ops>>

\* file_read copies from the buffer; file_write marks it dirty, then copies
\* into it, which may sleep in a page fault.
use(p) ==
    LET b == bh[p]
    IN  /\ pc[p] = "use"
        /\ \/ /\ mode[p] = "read" /\ Goto(p, "brelse")
              /\ UNCHANGED <<head, data, last>>
           \/ /\ mode[p] = "write" /\ ~CopyFaults /\ Goto(p, "brelse")
              /\ head' = [head EXCEPT ![b].b_dirt = TRUE]
              /\ \E v \in Values : /\ data' = [data EXCEPT ![b] = v]
                                   /\ last' = [last EXCEPT ![want[p]] = v]
           \/ /\ mode[p] = "write" /\ CopyFaults /\ Goto(p, "copy")
              /\ head' = [head EXCEPT ![b].b_dirt = TRUE]
              /\ UNCHANGED <<data, last>>
        /\ UNCHANGED <<free_list, request, disk, want, mode, bh, nsync, ops>>

copy(p) ==
    /\ pc[p] = "copy"
    /\ \E v \in Values : /\ data' = [data EXCEPT ![bh[p]] = v]
                         /\ last' = [last EXCEPT ![want[p]] = v]
    /\ Goto(p, "brelse")
    /\ UNCHANGED <<head, free_list, request, disk, want, mode, bh, nsync, ops>>

\* Mutant: the tasks that wait for a buffer are not woken.
brelse_silent(p) ==
    /\ pc[p] = "brelse" /\ ~head[bh[p]].b_lock
    /\ head' = [head EXCEPT ![bh[p]].b_count = @ - 1]
    /\ Goto(p, "idle")
    /\ bh' = [bh EXCEPT ![p] = 0]
    /\ want' = [want EXCEPT ![p] = NoBlock]
    /\ mode' = [mode EXCEPT ![p] = "none"]
    /\ UNCHANGED <<data, free_list, request, disk, last, nsync, ops>>

brelse(p) ==
    /\ pc[p] = "brelse" /\ ~head[bh[p]].b_lock
    /\ head' = [head EXCEPT ![bh[p]].b_count = @ - 1]
    /\ pc' = [q \in Procs |-> IF q = p THEN "idle"
                              ELSE IF pc[q] = "no_buffer" THEN "getblk" ELSE pc[q]]
    /\ bh' = [bh EXCEPT ![p] = 0]
    /\ want' = [want EXCEPT ![p] = NoBlock]
    /\ mode' = [mode EXCEPT ![p] = "none"]
    /\ UNCHANGED <<data, free_list, request, disk, last, nsync, ops>>

-----------------------------------------------------------------------------
\* wake_up(&wait_for_request)
WakeRequest == [q \in Procs |-> CASE pc[q] = "sync_sleep" -> "sync_request"
                                  [] pc[q] = "read_sleep" -> "read_request"
                                  [] OTHER -> pc[q]]

\* The interrupt that ends the request in slot i, well or with an error.
end_request(i, ok) ==
    LET b == request[i].bh
        n == head[b].b_blocknr
    IN  /\ request[i] # Empty
        /\ data' = IF ok /\ request[i].cmd = "READ" THEN [data EXCEPT ![b] = disk[n]] ELSE data
        /\ disk' = IF ok /\ request[i].cmd = "WRITE" THEN [disk EXCEPT ![n] = data[b]] ELSE disk
        /\ head' = [head EXCEPT ![b].b_uptodate = ok, ![b].b_lock = FALSE]
        /\ request' = [request EXCEPT ![i] = Empty]
        /\ pc' = WakeRequest
        /\ UNCHANGED <<free_list, last, want, mode, bh, nsync, ops>>

-----------------------------------------------------------------------------
getblk(p) == getblk_finds(p) \/ hash_wait(p) \/ getblk_chooses(p) \/ victim(p)
write_out(p) == sync(p) \/ sync_request(p)
bread(p) == got(p) \/ read(p) \/ read_request(p) \/ read_wait(p)
access(p) == use(p) \/ copy(p) \/ brelse(p)

\* One step of p, after which it keeps the processor unless it sleeps or is
\* back in its program.
Step(p) ==
    /\ cur \in {NoProc, p}
    /\ starts(p) \/ getblk(p) \/ write_out(p) \/ bread(p) \/ access(p)
    /\ cur' = IF pc'[p] \in {"idle", "no_buffer", "sync_sleep", "read_sleep", "copy"}
              THEN NoProc ELSE p

\* p finds a buffer locked and sleeps until it is not.
sleep_on_lock(p) ==
    /\ cur = p
    /\ \/ pc[p] \in {"hash_wait", "victim", "read", "read_wait", "brelse"} /\ head[bh[p]].b_lock
       \/ pc[p] = "sync" /\ head[SyncBuffer(p)].b_lock
    /\ cur' = NoProc
    /\ UNCHANGED <<head, data, free_list, request, disk, last, pc, want, mode, bh, nsync, ops>>

disk_intr ==
    /\ \E i \in Slot : \E ok \in {TRUE} \cup (IF IOErrors THEN {FALSE} ELSE {}) :
          end_request(i, ok)
    /\ UNCHANGED cur

AllDone == \A p \in Procs : pc[p] = "idle" /\ ops[p] = 0
Done == AllDone /\ UNCHANGED vars

Next == (\E p \in Procs : Step(p) \/ sleep_on_lock(p)) \/ disk_intr \/ Done

Spec == Init /\ [][Next]_vars

\* A task that can go on does, and the disk finishes what it was asked.
Fairness == /\ \A p \in Procs : WF_vars(Step(p) \/ sleep_on_lock(p))
            /\ WF_vars(disk_intr)

FairSpec == Spec /\ Fairness

-----------------------------------------------------------------------------
Label == {"idle", "getblk", "hash_wait", "no_buffer", "victim", "sync", "sync_sleep",
          "sync_request", "got", "read", "read_sleep", "read_request", "read_wait",
          "use", "copy", "brelse"}

\* Types; b_count never falls below zero ("Trying to free free buffer").
TypeOK ==
    /\ head \in [Buffer -> [b_blocknr : Blocks \cup {NoBlock}, b_count : 0 .. Cardinality(Procs),
                            b_dirt : BOOLEAN, b_lock : BOOLEAN, b_uptodate : BOOLEAN]]
    /\ data \in [Buffer -> Values]
    /\ free_list \in [Buffer -> Buffer]
    /\ \A b \in Buffer : \E i \in Buffer : free_list[i] = b
    /\ request \in [Slot -> [bh : Buffer \cup {0}, cmd : {"none", "READ", "WRITE"}]]
    /\ disk \in [Blocks -> Values] /\ last \in [Blocks -> Values]
    /\ cur \in Procs \cup {NoProc} /\ pc \in [Procs -> Label]
    /\ want \in [Procs -> Blocks \cup {NoBlock}]
    /\ mode \in [Procs -> {"none", "read", "write", "sync"}]
    /\ bh \in [Procs -> Buffer \cup {0}]
    /\ nsync \in [Procs -> 0 .. 2 * NR_BUFFERS] /\ ops \in [Procs -> 0 .. MaxOps]

\* A block has at most one buffer, however many tasks miss it in the cache
\* at the same time and sleep before they take a buffer for it ("this buffer
\* is the only one of it's kind", getblk).
OneBufferPerBlock ==
    \A b, c \in Buffer : (b # c /\ head[b].b_blocknr # NoBlock)
                             => head[b].b_blocknr # head[c].b_blocknr

\* A task that got a buffer from getblk keeps it: the buffer holds the
\* task's block until brelse, so the wait in get_hash_table never ends with
\* another block in the buffer, and its count covers all its users.
HoldersKeepTheirBlock ==
    \A b \in Buffer :
        LET users == {p \in Procs : bh[p] = b /\ pc[p] \in
                        {"hash_wait", "got", "read", "read_sleep", "read_request",
                         "read_wait", "use", "copy", "brelse"}}
        IN  /\ head[b].b_count = Cardinality(users)
            /\ \A p \in users : head[b].b_blocknr = want[p]

\* Every locked buffer has exactly one owner that will unlock it: a request
\* in the table or one task that waits for a free request.
LockHasOneOwner ==
    \A b \in Buffer :
        LET owners == Cardinality({i \in Slot : request[i].bh = b})
                      + Cardinality({p \in Procs : /\ pc[p] \in {"read_sleep", "read_request"}
                                                   /\ bh[p] = b})
                      + Cardinality({p \in Procs : /\ pc[p] \in {"sync_sleep", "sync_request"}
                                                   /\ SyncBuffer(p) = b})
        IN  owners = IF head[b].b_lock THEN 1 ELSE 0

\* What a read of block n would give.
Readable(n) == {data[b] : b \in {b \in find_buffer(n) : head[b].b_uptodate}}
Current(n) == IF Readable(n) = {} THEN {disk[n]} ELSE Readable(n)

\* No write is lost: whatever is evicted, read again or written by sync, a
\* read of a block gives what was last written to it (provided that the disk
\* does not fail).  "... unused, unlocked, and clean" (getblk).
NothingIsLost == \A n \in Blocks : Current(n) = {last[n]}

\* Every read, write and sync comes to an end, however few buffers and
\* requests there are; nobody sleeps on buffer_wait or wait_for_request for
\* ever.
EverythingEnds == <>AllDone
=============================================================================
