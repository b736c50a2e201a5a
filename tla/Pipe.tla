-------------------------------- MODULE Pipe --------------------------------
(***************************************************************************)
(* fs/pipe.c: one pipe, a ring of PAGE_SIZE bytes in the inode's page, and *)
(* the tasks that have its ends open.  All of them sleep on i_wait.  Bytes *)
(* are numbered in the order in which they are written.  No interrupt      *)
(* touches a pipe, and the kernel is not preemptive: cur is the task that  *)
(* runs in it, until it sleeps or returns.                                 *)
(***************************************************************************)
EXTENDS Integers, FiniteSets, Sequences

CONSTANTS Readers, Writers,  \* the tasks with the read end, the write end open
          NoProc,
          PAGE_SIZE,
          MaxCount,          \* bound: the bytes one call asks for
          MaxBytes,          \* bound: the bytes written in all
          CopyFaults         \* whether put_fs_byte and get_fs_byte may sleep

ASSUME PipeAssumption ==
    /\ PAGE_SIZE \in Nat \ {0, 1} /\ MaxCount \in Nat \ {0} /\ MaxBytes \in Nat
    /\ Readers \cap Writers = {} /\ NoProc \notin Readers \cup Writers
    /\ CopyFaults \in BOOLEAN

Procs == Readers \cup Writers

VARIABLES
    page,   \* the page: the number of a byte, 0 before the first
    PIPE_HEAD, PIPE_TAIL,
    open,   \* tasks that have not closed their end
    cur,
    pc,
    count,  \* bytes the call still wants
    chunk,  \* while a copy sleeps: where it starts and its length
    asked,  \* bytes the calls of write have asked for so far
    input,  \* history: bytes put into the pipe so far
    output  \* history: the bytes readers got

pipeVars == <<page, PIPE_HEAD, PIPE_TAIL, open, cur, pc, count, chunk, asked, input, output>>

Index == 0 .. PAGE_SIZE - 1
NoChunk == [from |-> 0, len |-> 0, byte |-> 0]

PipeInit ==
    /\ page = [i \in Index |-> 0]
    /\ PIPE_HEAD = 0 /\ PIPE_TAIL = 0
    /\ open = Procs
    /\ cur = NoProc
    /\ pc = [p \in Procs |-> "user"]
    /\ count = [p \in Procs |-> 0]
    /\ chunk = [p \in Procs |-> NoChunk]
    /\ asked = 0 /\ input = 0
    /\ output = <<>>

-----------------------------------------------------------------------------
\* Mutant: the size is not taken modulo the page.
PIPE_SIZE_unwrapped == PIPE_HEAD - PIPE_TAIL

PIPE_SIZE == (PIPE_HEAD - PIPE_TAIL) % PAGE_SIZE

\* Mutant: the last byte of the ring is used too.
Space_all == PAGE_SIZE - PIPE_SIZE

Space == (PAGE_SIZE - 1) - PIPE_SIZE

\* i_count: the ends that are still open.
i_count == Cardinality({E \in {Readers, Writers} : E \cap open # {}})

\* wake_up(&inode->i_wait) reaches every sleeper.
Woken == [p \in Procs |-> CASE pc[p] = "read_sleep" -> "read"
                            [] pc[p] = "write_sleep" -> "write"
                            [] OTHER -> pc[p]]

Least(S) == CHOOSE x \in S : \A y \in S : x <= y

-----------------------------------------------------------------------------
sys_read(p) ==
    /\ p \in Readers \cap open /\ pc[p] = "user"
    /\ \E n \in 1 .. MaxCount : count' = [count EXCEPT ![p] = n]
    /\ pc' = [pc EXCEPT ![p] = "read"]
    /\ UNCHANGED <<page, PIPE_HEAD, PIPE_TAIL, open, chunk, asked, input, output>>

\* Nothing to read: wake the writers and sleep, or return if there are none.
read_empty(p) ==
    /\ pc[p] = "read" /\ count[p] > 0 /\ PIPE_SIZE = 0
    /\ pc' = [Woken EXCEPT ![p] = IF i_count # 2 THEN "user" ELSE "read_sleep"]
    /\ UNCHANGED <<page, PIPE_HEAD, PIPE_TAIL, open, count, chunk, asked, input, output>>

\* Take what is there, up to the end of the page; the tail moves first.
read_chunk(p) ==
    LET n == Least({PAGE_SIZE - PIPE_TAIL, count[p], PIPE_SIZE})
    IN  /\ pc[p] = "read" /\ count[p] > 0 /\ PIPE_SIZE # 0
        /\ count' = [count EXCEPT ![p] = @ - n]
        /\ PIPE_TAIL' = (PIPE_TAIL + n) % PAGE_SIZE
        /\ chunk' = [chunk EXCEPT ![p] = [from |-> PIPE_TAIL, len |-> n, byte |-> 0]]
        /\ pc' = [pc EXCEPT ![p] = IF CopyFaults THEN "read_fault" ELSE "read_copy"]
        /\ UNCHANGED <<page, PIPE_HEAD, open, asked, input, output>>

read_copy(p) ==
    /\ pc[p] \in {"read_copy", "read_fault"}
    /\ output' = output \o [i \in 1 .. chunk[p].len |-> page[chunk[p].from + i - 1]]
    /\ chunk' = [chunk EXCEPT ![p] = NoChunk]
    /\ pc' = [pc EXCEPT ![p] = "read"]
    /\ UNCHANGED <<page, PIPE_HEAD, PIPE_TAIL, open, count, asked, input>>

read_returns(p) ==
    /\ pc[p] = "read" /\ count[p] = 0
    /\ pc' = [Woken EXCEPT ![p] = "user"]
    /\ UNCHANGED <<page, PIPE_HEAD, PIPE_TAIL, open, count, chunk, asked, input, output>>

-----------------------------------------------------------------------------
sys_write(p) ==
    /\ p \in Writers \cap open /\ pc[p] = "user"
    /\ \E n \in 1 .. MaxCount : /\ asked + n <= MaxBytes
                                /\ asked' = asked + n
                                /\ count' = [count EXCEPT ![p] = n]
    /\ pc' = [pc EXCEPT ![p] = "write"]
    /\ UNCHANGED <<page, PIPE_HEAD, PIPE_TAIL, open, chunk, input, output>>

\* No space: wake the readers and sleep, or SIGPIPE if there are none.
write_full(p) ==
    /\ pc[p] = "write" /\ count[p] > 0 /\ Space = 0
    /\ pc' = [Woken EXCEPT ![p] = IF i_count # 2 THEN "user" ELSE "write_sleep"]
    /\ UNCHANGED <<page, PIPE_HEAD, PIPE_TAIL, open, count, chunk, asked, input, output>>

write_chunk(p) ==
    LET n == Least({PAGE_SIZE - PIPE_HEAD, count[p], Space})
    IN  /\ pc[p] = "write" /\ count[p] > 0 /\ Space # 0
        /\ count' = [count EXCEPT ![p] = @ - n]
        /\ PIPE_HEAD' = (PIPE_HEAD + n) % PAGE_SIZE
        /\ chunk' = [chunk EXCEPT ![p] = [from |-> PIPE_HEAD, len |-> n, byte |-> input]]
        /\ input' = input + n
        /\ pc' = [pc EXCEPT ![p] = IF CopyFaults THEN "write_fault" ELSE "write_copy"]
        /\ UNCHANGED <<page, PIPE_TAIL, open, asked, output>>

write_copy(p) ==
    LET c == chunk[p]
    IN  /\ pc[p] \in {"write_copy", "write_fault"}
        /\ page' = [i \in Index |-> IF i \in c.from .. c.from + c.len - 1
                                    THEN c.byte + (i - c.from) + 1 ELSE page[i]]
        /\ chunk' = [chunk EXCEPT ![p] = NoChunk]
        /\ pc' = [pc EXCEPT ![p] = "write"]
        /\ UNCHANGED <<PIPE_HEAD, PIPE_TAIL, open, count, asked, input, output>>

write_returns(p) ==
    /\ pc[p] = "write" /\ count[p] = 0
    /\ pc' = [Woken EXCEPT ![p] = "user"]
    /\ UNCHANGED <<page, PIPE_HEAD, PIPE_TAIL, open, count, chunk, asked, input, output>>

-----------------------------------------------------------------------------
\* Mutant: nobody is woken when the last task closes an end.
sys_close_silent(p) ==
    /\ p \in open /\ pc[p] = "user"
    /\ open' = open \ {p}
    /\ UNCHANGED <<page, PIPE_HEAD, PIPE_TAIL, pc, count, chunk, asked, input, output>>

\* Closing the last descriptor of an end: iput wakes whoever waits.
sys_close(p) ==
    LET end == IF p \in Readers THEN Readers ELSE Writers
    IN  /\ p \in open /\ pc[p] = "user"
        /\ open' = open \ {p}
        /\ pc' = IF end \cap open = {p} THEN Woken ELSE pc
        /\ UNCHANGED <<page, PIPE_HEAD, PIPE_TAIL, count, chunk, asked, input, output>>

read_pipe(p) == read_empty(p) \/ read_chunk(p) \/ read_copy(p) \/ read_returns(p)
write_pipe(p) == write_full(p) \/ write_chunk(p) \/ write_copy(p) \/ write_returns(p)

\* One step of p; it keeps the processor unless it sleeps or returns.
Step(p) ==
    /\ cur \in {NoProc, p}
    /\ sys_read(p) \/ read_pipe(p) \/ sys_write(p) \/ write_pipe(p) \/ sys_close(p)
    /\ cur' = IF pc'[p] \in {"user", "read_sleep", "write_sleep", "read_fault", "write_fault"}
              THEN NoProc ELSE p

PipeNext == \E p \in Procs : Step(p)

PipeSpec == PipeInit /\ [][PipeNext]_pipeVars

-----------------------------------------------------------------------------
\* Types; the head and the tail stay in the page, a chunk too.
PipeTypeOK ==
    /\ page \in [Index -> 0 .. MaxBytes]
    /\ PIPE_HEAD \in Index /\ PIPE_TAIL \in Index
    /\ open \subseteq Procs /\ cur \in Procs \cup {NoProc}
    /\ pc \in [Procs -> {"user", "read", "read_sleep", "read_copy", "read_fault",
                         "write", "write_sleep", "write_copy", "write_fault"}]
    /\ count \in [Procs -> 0 .. MaxCount]
    /\ \A p \in Procs : /\ chunk[p].from \in Index /\ chunk[p].len \in 0 .. PAGE_SIZE - 1
                        /\ chunk[p].from + chunk[p].len <= PAGE_SIZE
    /\ asked \in 0 .. MaxBytes /\ input \in 0 .. asked

\* Readers get the bytes in the order in which they were written, each once
\* and none that was never written, wherever the ring wraps and whoever
\* sleeps in between (PIPE_HEAD and PIPE_TAIL in read_pipe and write_pipe).
BytesInOrder == \A i \in 1 .. Len(output) : output[i] = i

\* Nothing is lost in the pipe: what has been written and not taken by a
\* reader is there, in order, when no task is in the middle of a call.
NothingLost ==
    (cur = NoProc /\ ~CopyFaults) =>
        /\ Len(output) + PIPE_SIZE = input
        /\ \A i \in 0 .. PIPE_SIZE - 1 :
              page[(PIPE_TAIL + i) % PAGE_SIZE] = Len(output) + i + 1

\* Nobody sleeps without reason: a sleeping reader finds the pipe empty and
\* a writer that may still write, a sleeping writer finds it full and a
\* reader that may still read.  Readers and writers sleep on one queue, and
\* each side wakes the other only when it sleeps, returns or closes.
SleepersHaveReason ==
    cur = NoProc =>
        \A p \in Procs :
            /\ pc[p] = "read_sleep"  => PIPE_SIZE = 0 /\ i_count = 2
            /\ pc[p] = "write_sleep" => Space = 0 /\ i_count = 2
=============================================================================
