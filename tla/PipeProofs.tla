----------------------------- MODULE PipeProofs -----------------------------
(***************************************************************************)
(* For every page size, every number of readers and writers and every      *)
(* sequence of calls: a pipe delivers its bytes in order and loses none,   *)
(* and nobody sleeps on it without reason, as long as the copies between   *)
(* the page and user memory do not sleep (~CopyFaults).  With copies that  *)
(* sleep, bytes are read that are not there yet (run pipe_fault), and a    *)
(* task may sleep without reason until the other side wakes it.            *)
(***************************************************************************)
EXTENDS Pipe, TLAPS

\* The ring without %: the index after a chunk, the bytes in the ring, and
\* the distance of an index from the tail.
Wrap(x) == IF x >= PAGE_SIZE THEN x - PAGE_SIZE ELSE x
Dist(tail, i) == IF i >= tail THEN i - tail ELSE i - tail + PAGE_SIZE

LEMMA Modulo ==
    ASSUME NEW x \in Int, NEW k \in {-1, 0, 1},
           0 <= x + k * PAGE_SIZE, x + k * PAGE_SIZE < PAGE_SIZE
    PROVE  x % PAGE_SIZE = x + k * PAGE_SIZE
BY PipeAssumption

LEMMA SizeIs ==
    ASSUME PIPE_HEAD \in Index, PIPE_TAIL \in Index
    PROVE  PIPE_SIZE = Dist(PIPE_TAIL, PIPE_HEAD)
<1>1. CASE PIPE_HEAD >= PIPE_TAIL
  BY <1>1, PipeAssumption, Modulo DEF PIPE_SIZE, Dist, Index
<1>2. CASE PIPE_HEAD < PIPE_TAIL
  BY <1>2, PipeAssumption, Modulo DEF PIPE_SIZE, Dist, Index
<1> QED BY <1>1, <1>2, PipeAssumption DEF Index

LEMMA WrapIs ==
    ASSUME NEW x \in 0 .. 2 * PAGE_SIZE - 1
    PROVE  x % PAGE_SIZE = Wrap(x) /\ Wrap(x) \in Index
<1>1. CASE x < PAGE_SIZE
  BY <1>1, PipeAssumption, Modulo DEF Wrap, Index
<1>2. CASE x >= PAGE_SIZE
  BY <1>2, PipeAssumption, Modulo DEF Wrap, Index
<1> QED BY <1>1, <1>2, PipeAssumption

LEMMA LeastIs ==
    ASSUME NEW a \in Int, NEW b \in Int, NEW c \in Int
    PROVE  /\ Least({a, b, c}) \in {a, b, c}
           /\ Least({a, b, c}) <= a /\ Least({a, b, c}) <= b /\ Least({a, b, c}) <= c
<1>1. \E x \in {a, b, c} : \A y \in {a, b, c} : x <= y
  <2>1. CASE a <= b /\ a <= c
    BY <2>1
  <2>2. CASE b <= a /\ b <= c
    BY <2>2
  <2>3. CASE c <= a /\ c <= b
    BY <2>3
  <2> QED BY <2>1, <2>2, <2>3
<1> QED BY <1>1 DEF Least

-----------------------------------------------------------------------------
\* The ring, as arithmetic.  A chunk of n bytes at the head fits and makes
\* the ring n longer ...
LEMMA RingGrows ==
    ASSUME NEW h \in Index, NEW t \in Index, NEW n \in Nat,
           n <= PAGE_SIZE - h, n <= PAGE_SIZE - 1 - Dist(t, h)
    PROVE  /\ Wrap(h + n) \in Index /\ Dist(t, Wrap(h + n)) = Dist(t, h) + n
           /\ \A i \in Index : i \in h .. h + n - 1 => Dist(t, i) = Dist(t, h) + (i - h)
           /\ \A i \in Index : /\ Dist(t, i) < Dist(t, h) + n /\ i \notin h .. h + n - 1
                               => Dist(t, i) < Dist(t, h)
<1>1. CASE h >= t
  BY <1>1, PipeAssumption DEF Index, Wrap, Dist
<1>2. CASE h < t
  BY <1>2, PipeAssumption DEF Index, Wrap, Dist
<1> QED BY <1>1, <1>2, PipeAssumption DEF Index

\* ... and one of n bytes at the tail makes it n shorter.
LEMMA RingShrinks ==
    ASSUME NEW h \in Index, NEW t \in Index, NEW n \in Nat,
           n <= PAGE_SIZE - t, n <= Dist(t, h)
    PROVE  /\ Wrap(t + n) \in Index /\ Dist(Wrap(t + n), h) = Dist(t, h) - n
           /\ \A k \in 0 .. n - 1 : t + k \in Index /\ Dist(t, t + k) = k
           /\ \A i \in Index : Dist(Wrap(t + n), i) < Dist(t, h) - n
                               => Dist(t, i) = Dist(Wrap(t + n), i) + n
<1>1. CASE h >= t
  BY <1>1, PipeAssumption DEF Index, Wrap, Dist
<1>2. CASE h < t
  BY <1>2, PipeAssumption DEF Index, Wrap, Dist
<1> QED BY <1>1, <1>2, PipeAssumption DEF Index

\* The distance of the i-th byte of the ring.
LEMMA RingIndex ==
    ASSUME NEW t \in Index, NEW i \in Index
    PROVE  Wrap(t + i) \in Index /\ Dist(t, Wrap(t + i)) = i
<1>1. CASE t + i >= PAGE_SIZE
  BY <1>1, PipeAssumption DEF Index, Wrap, Dist
<1>2. CASE t + i < PAGE_SIZE
  BY <1>2, PipeAssumption DEF Index, Wrap, Dist
<1> QED BY <1>1, <1>2, PipeAssumption DEF Index

LEMMA DistIs ==
    ASSUME NEW t \in Index, NEW i \in Index
    PROVE  Dist(t, i) \in Index
<1>1. CASE i >= t
  BY <1>1, PipeAssumption DEF Index, Dist
<1>2. CASE i < t
  BY <1>2, PipeAssumption DEF Index, Dist
<1> QED BY <1>1, <1>2, PipeAssumption DEF Index

-----------------------------------------------------------------------------
\* The inductive invariant.  First the types the proof needs ...
Places == {"user", "read", "read_sleep", "read_copy", "write", "write_sleep", "write_copy"}
Copying(p) == pc[p] \in {"read_copy", "write_copy"}
Chunk == [from : Nat, len : Nat, byte : Nat]

Types ==
    /\ page \in [Index -> Nat]
    /\ PIPE_HEAD \in Index /\ PIPE_TAIL \in Index
    /\ cur \in Procs \cup {NoProc}
    /\ pc \in [Procs -> Places]
    /\ count \in [Procs -> Nat] /\ chunk \in [Procs -> Chunk]
    /\ input \in Nat /\ output \in Seq(Nat)

\* ... who has the processor: whoever copies, and nobody who is in user mode ...
Running ==
    /\ cur # NoProc => pc[cur] \in {"read", "write"} \/ Copying(cur)
    /\ \A p \in Procs : Copying(p) => cur = p

\* ... and what is in the ring: the bytes from the one numbered first, those of
\* the last n, which are still to be copied, excepted.
Size == Dist(PIPE_TAIL, PIPE_HEAD)
Holds(first, n) ==
    /\ first + Size = input
    /\ \A i \in Index : Dist(PIPE_TAIL, i) < Size - n
                        => page[i] = first + Dist(PIPE_TAIL, i) + 1

\* The chunk of a reader has left the ring, its bytes are still in the page.
Reads(c) ==
    /\ c.from + c.len <= PAGE_SIZE
    /\ \A k \in 0 .. c.len - 1 : page[c.from + k] = Len(output) + k + 1
    /\ Holds(Len(output) + c.len, 0)

\* The chunk of a writer is the end of the ring.
Writes(c) ==
    /\ c.len <= Size /\ c.byte = input - c.len
    /\ \A i \in Index : i \in c.from .. c.from + c.len - 1
                        => Dist(PIPE_TAIL, i) = Size - c.len + (i - c.from)
    /\ \A i \in Index : /\ Dist(PIPE_TAIL, i) < Size /\ i \notin c.from .. c.from + c.len - 1
                        => Dist(PIPE_TAIL, i) < Size - c.len
    /\ Holds(Len(output), c.len)

Ring ==
    /\ \A p \in Procs : pc[p] = "read_copy" => Reads(chunk[p])
    /\ \A p \in Procs : pc[p] = "write_copy" => Writes(chunk[p])
    /\ (\A p \in Procs : ~Copying(p)) => Holds(Len(output), 0)

Stream == Types /\ Running /\ Ring /\ BytesInOrder /\ SleepersHaveReason

LEMMA StreamInit == PipeInit => Stream
<1> SUFFICES ASSUME PipeInit PROVE Stream
  OBVIOUS
<1>1. Types
  BY PipeAssumption DEF PipeInit, Types, Index, Places, Chunk, NoChunk
<1>2. Running
  BY DEF PipeInit, Running, Copying
<1>3. Ring
  <2>1. Size = 0
    BY DEF PipeInit, Size, Dist
  <2>2. \A i \in Index : Dist(PIPE_TAIL, i) \in Nat
    BY DistIs, <1>1 DEF Types, Index
  <2>3. Len(output) = 0 /\ input = 0
    BY DEF PipeInit
  <2>4. Holds(Len(output), 0)
    BY <2>1, <2>2, <2>3 DEF Holds
  <2> QED BY <2>4 DEF PipeInit, Ring
<1>4. BytesInOrder /\ SleepersHaveReason
  BY DEF PipeInit, BytesInOrder, SleepersHaveReason
<1> QED BY <1>1, <1>2, <1>3, <1>4 DEF Stream

\* What wake_up leaves of the places of the tasks.
LEMMA WokenIs ==
    ASSUME Types
    PROVE  /\ Woken \in [Procs -> Places]
           /\ \A p \in Procs : /\ Woken[p] \notin {"read_sleep", "write_sleep"}
                               /\ pc[p] \notin {"read_sleep", "write_sleep"} => Woken[p] = pc[p]
                               /\ pc[p] = "read_sleep" => Woken[p] = "read"
                               /\ pc[p] = "write_sleep" => Woken[p] = "write"
BY DEF Types, Woken, Places

\* A step of p in which nothing is copied: only places and p's count change.
Settles(p) ==
    /\ UNCHANGED <<page, PIPE_HEAD, PIPE_TAIL, chunk, input, output>>
    /\ count' \in [Procs -> Nat] /\ pc' \in [Procs -> Places]
    /\ ~Copying(p) /\ \A s \in Procs : Copying(s)' <=> Copying(s)
    /\ \A s \in Procs : Copying(s) => pc'[s] = pc[s]

LEMMA SettledRing ==
    ASSUME Stream, NEW p \in Procs, Settles(p), cur' \in {NoProc, p},
           cur' = p <=> pc'[p] \in {"read", "write"}, cur \in {NoProc, p}
    PROVE  Types' /\ Running' /\ Ring' /\ BytesInOrder'
<1>0. NoProc \notin Procs
  BY PipeAssumption DEF Procs
<1>1. Types'
  BY DEF Stream, Types, Settles
<1>2. \A s \in Procs : ~Copying(s)
  BY <1>0 DEF Stream, Running, Settles
<1>3. Running'
  BY <1>0, <1>2 DEF Running, Settles
<1>4. Holds(Len(output), 0)'
  BY <1>2 DEF Stream, Ring, Holds, Size, Settles
<1>5. Ring'
  <2>1. \A s \in Procs : pc'[s] \notin {"read_copy", "write_copy"}
    BY <1>2 DEF Settles, Copying
  <2> QED BY <1>4, <2>1 DEF Ring
<1>6. BytesInOrder'
  BY DEF Stream, BytesInOrder, Settles
<1> QED BY <1>1, <1>3, <1>5, <1>6

\* A call of p settles: it has started, has gone to sleep or has returned.
LEMMA CallSettles ==
    ASSUME ~CopyFaults, Stream, NEW p \in Procs, cur \in {NoProc, p},
           \/ sys_read(p) \/ sys_write(p) \/ read_empty(p) \/ write_full(p)
           \/ read_returns(p) \/ write_returns(p) \/ sys_close(p)
    PROVE  Settles(p)
<1>0. Types /\ Woken \in [Procs -> Places]
  BY WokenIs DEF Stream
<1>1. CASE sys_read(p) \/ sys_write(p)
  <2>1. \E n \in Nat : count' = [count EXCEPT ![p] = n]
    BY <1>1 DEF sys_read, sys_write
  <2>2. pc[p] = "user" /\ \E where \in {"read", "write"} : pc' = [pc EXCEPT ![p] = where]
    BY <1>1 DEF sys_read, sys_write
  <2>3. pc' \in [Procs -> Places] /\ ~Copying(p) /\ ~Copying(p)'
        /\ \A s \in Procs \ {p} : pc'[s] = pc[s]
    BY <1>0, <2>2 DEF Types, Places, Copying
  <2>4. count' \in [Procs -> Nat]
    BY <1>0, <2>1 DEF Types
  <2>5. UNCHANGED <<page, PIPE_HEAD, PIPE_TAIL, chunk, input, output>>
    BY <1>1 DEF sys_read, sys_write
  <2> QED BY <2>3, <2>4, <2>5 DEF Settles, Copying
<1>2. CASE read_empty(p) \/ write_full(p) \/ read_returns(p) \/ write_returns(p)
  <2>1. PICK where \in Places \ {"read_copy", "write_copy"} : pc' = [Woken EXCEPT ![p] = where]
    <3>1. CASE read_empty(p) \/ write_full(p)
      BY <3>1 DEF read_empty, write_full, Places
    <3>2. CASE read_returns(p) \/ write_returns(p)
      BY <3>2 DEF read_returns, write_returns, Places
    <3> QED BY <1>2, <3>1, <3>2
  <2>2. /\ UNCHANGED <<page, PIPE_HEAD, PIPE_TAIL, chunk, input, output, count>>
        /\ pc[p] \in {"read", "write"}
    BY <1>2 DEF read_empty, write_full, read_returns, write_returns
  <2>3. /\ pc' \in [Procs -> Places] /\ pc'[p] = where
        /\ \A s \in Procs \ {p} : pc'[s] = Woken[s]
    BY <1>0, <2>1
  <2>4. \A s \in Procs : /\ Woken[s] \in {"read_copy", "write_copy"} <=> Copying(s)
                         /\ Copying(s) => Woken[s] = pc[s]
    BY <1>0, WokenIs DEF Copying
  <2>5. ~Copying(p) /\ ~Copying(p)'
    BY <2>1, <2>2, <2>3 DEF Copying
  <2>6. \A s \in Procs : Copying(s)' <=> Copying(s)
    BY <2>3, <2>4, <2>5 DEF Copying
  <2>7. \A s \in Procs : Copying(s) => pc'[s] = pc[s]
    BY <2>3, <2>4, <2>5
  <2> QED BY <1>0, <2>2, <2>3, <2>5, <2>6, <2>7 DEF Settles, Types
<1>3. CASE sys_close(p)
  <2>1. /\ UNCHANGED <<page, PIPE_HEAD, PIPE_TAIL, chunk, input, output, count>>
        /\ pc[p] = "user" /\ pc' \in {Woken, pc}
    BY <1>3 DEF sys_close
  <2>2. \A s \in Procs : /\ Woken[s] \in {"read_copy", "write_copy"} <=> Copying(s)
                         /\ Copying(s) => Woken[s] = pc[s]
    BY <1>0, WokenIs DEF Copying
  <2>3. pc' \in [Procs -> Places] /\ ~Copying(p)
    BY <1>0, <2>1 DEF Types, Copying
  <2>4. \A s \in Procs : (Copying(s)' <=> Copying(s)) /\ (Copying(s) => pc'[s] = pc[s])
    BY <2>1, <2>2 DEF Copying
  <2> QED BY <1>0, <2>1, <2>3, <2>4 DEF Settles, Types
<1> QED BY <1>1, <1>2, <1>3

\* The number of open ends does not change when an end keeps an opener.
LEMMA EndsKept ==
    ASSUME NEW p \in open, open' = open \ {p}, p \in Readers \cup Writers,
           (IF p \in Readers THEN Readers ELSE Writers) \cap open # {p}
    PROVE  i_count' = i_count
<1>1. \A E \in {Readers, Writers} : E \cap open # {} <=> E \cap open' # {}
  <2>1. CASE p \in Readers
    BY <2>1, PipeAssumption
  <2>2. CASE p \notin Readers
    BY <2>2, PipeAssumption
  <2> QED BY <2>1, <2>2
<1>2. {E \in {Readers, Writers} : E \cap open # {}} = {E \in {Readers, Writers} : E \cap open' # {}}
  BY <1>1
<1> QED BY <1>2 DEF i_count

\* A sleeper has just looked, or nothing has changed since it did.
LEMMA SettledSleepers ==
    ASSUME ~CopyFaults, Stream, NEW p \in Procs, Step(p),
           \/ sys_read(p) \/ sys_write(p) \/ read_empty(p) \/ write_full(p)
           \/ read_returns(p) \/ write_returns(p) \/ sys_close(p)
    PROVE  SleepersHaveReason'
<1> SUFFICES ASSUME cur' = NoProc, NEW s \in Procs
             PROVE  /\ pc'[s] = "read_sleep"  => PIPE_SIZE' = 0 /\ i_count' = 2
                    /\ pc'[s] = "write_sleep" => Space' = 0 /\ i_count' = 2
  BY DEF SleepersHaveReason
<1>0. Types /\ Woken \in [Procs -> Places] /\ \A q \in Procs : Woken[q] \notin {"read_sleep", "write_sleep"}
  BY WokenIs DEF Stream
<1>1. UNCHANGED <<PIPE_HEAD, PIPE_TAIL>>
  BY DEF sys_read, sys_write, read_empty, write_full, read_returns, write_returns, sys_close
<1>2. PIPE_SIZE' = PIPE_SIZE /\ Space' = Space
  BY <1>1 DEF PIPE_SIZE, Space
<1>3. pc'[p] \in {"user", "read_sleep", "write_sleep", "read_fault", "write_fault"}
  BY PipeAssumption DEF Step, Procs
<1>4. CASE read_empty(p) \/ write_full(p) \/ read_returns(p) \/ write_returns(p)
  <2>1. PICK where : pc' = [Woken EXCEPT ![p] = where]
    BY <1>4 DEF read_empty, write_full, read_returns, write_returns
  <2>2. s # p => pc'[s] \notin {"read_sleep", "write_sleep"}
    BY <1>0, <2>1
  <2>3. pc'[p] = where
    BY <1>0, <2>1
  <2>4. open' = open
    BY <1>4 DEF read_empty, write_full, read_returns, write_returns
  <2>5. i_count' = i_count
    BY <2>4 DEF i_count
  <2>6. CASE read_empty(p)
    <3>1. pc'[p] \in {"user", "read_sleep"} /\ PIPE_SIZE = 0 /\ (pc'[p] = "read_sleep" => i_count = 2)
      BY <1>0, <2>6 DEF read_empty
    <3> QED BY <1>2, <2>2, <2>5, <3>1
  <2>7. CASE write_full(p)
    <3>1. pc'[p] \in {"user", "write_sleep"} /\ Space = 0 /\ (pc'[p] = "write_sleep" => i_count = 2)
      BY <1>0, <2>7 DEF write_full
    <3> QED BY <1>2, <2>2, <2>5, <3>1
  <2>8. CASE read_returns(p) \/ write_returns(p)
    <3>1. pc'[p] = "user"
      BY <1>0, <2>8 DEF read_returns, write_returns
    <3> QED BY <2>2, <3>1
  <2> QED BY <1>4, <2>6, <2>7, <2>8
<1>5. CASE sys_close(p)
  <2>1. cur = NoProc
    BY <1>5 DEF sys_close, Step, Stream, Running, Copying
  <2>2. CASE pc' = Woken
    BY <1>0, <2>2
  <2>3. CASE (IF p \in Readers THEN Readers ELSE Writers) \cap open # {p} /\ pc' = pc
    <3>1. i_count' = i_count
      BY <1>5, <2>3, EndsKept DEF sys_close, Procs
    <3> QED BY <1>2, <2>1, <2>3, <3>1 DEF Stream, SleepersHaveReason
  <2> QED BY <1>5, <2>2, <2>3 DEF sys_close
<1>6. CASE sys_read(p) \/ sys_write(p)
  <2>1. pc'[p] \in {"read", "write"}
    BY <1>0, <1>6 DEF sys_read, sys_write, Types
  <2> QED BY <1>3, <2>1
<1> QED BY <1>4, <1>5, <1>6

-----------------------------------------------------------------------------
\* The copies.  A reader takes a chunk out of the ring ...
LEMMA ReadChunk ==
    ASSUME ~CopyFaults, Stream, NEW p \in Procs, cur \in {NoProc, p}, read_chunk(p), cur' = p
    PROVE  Types' /\ Running' /\ Ring'
<1>0. Types /\ NoProc \notin Procs /\ PIPE_HEAD \in Index /\ PIPE_TAIL \in Index
  BY PipeAssumption DEF Stream, Types, Procs
<1>1. \A s \in Procs : ~Copying(s)
  BY <1>0 DEF Stream, Running, read_chunk, Copying
<1>2. Holds(Len(output), 0) /\ PIPE_SIZE = Size
  BY <1>0, <1>1, SizeIs DEF Stream, Ring, Size
<1>3. PICK n : n = Least({PAGE_SIZE - PIPE_TAIL, count[p], PIPE_SIZE})
  OBVIOUS
<1>4. /\ pc[p] = "read" /\ count[p] > 0 /\ PIPE_SIZE # 0
      /\ count' = [count EXCEPT ![p] = @ - n]
      /\ PIPE_TAIL' = (PIPE_TAIL + n) % PAGE_SIZE
      /\ chunk' = [chunk EXCEPT ![p] = [from |-> PIPE_TAIL, len |-> n, byte |-> 0]]
      /\ pc' = [pc EXCEPT ![p] = "read_copy"]
      /\ UNCHANGED <<page, PIPE_HEAD, input, output>>
  BY <1>3 DEF read_chunk
<1>5. n \in Nat /\ n <= PAGE_SIZE - PIPE_TAIL /\ n <= count[p] /\ n <= Size
  <2>1. PAGE_SIZE - PIPE_TAIL \in Nat /\ count[p] \in Nat /\ Size \in Nat
    BY <1>0, DistIs, PipeAssumption, SMTT(30) DEF Index, Types, Size
  <2>2. n = Least({PAGE_SIZE - PIPE_TAIL, count[p], Size})
    BY <1>2, <1>3
  <2>3. n \in {PAGE_SIZE - PIPE_TAIL, count[p], Size} /\ n <= PAGE_SIZE - PIPE_TAIL
        /\ n <= count[p] /\ n <= Size
    <3> PICK a, b, d : a = PAGE_SIZE - PIPE_TAIL /\ b = count[p] /\ d = Size
      OBVIOUS
    <3>1. a \in Int /\ b \in Int /\ d \in Int /\ n = Least({a, b, d})
      BY <2>1, <2>2
    <3> QED BY <3>1, LeastIs
  <2> QED BY <2>1, <2>3
<1>6. PIPE_TAIL' = Wrap(PIPE_TAIL + n)
  BY <1>0, <1>4, <1>5, WrapIs, PipeAssumption DEF Index
<1>7. /\ PIPE_TAIL' \in Index /\ Size' = Size - n
      /\ \A k \in 0 .. n - 1 : PIPE_TAIL + k \in Index /\ Dist(PIPE_TAIL, PIPE_TAIL + k) = k
      /\ \A i \in Index : Dist(PIPE_TAIL', i) < Size - n
                          => Dist(PIPE_TAIL, i) = Dist(PIPE_TAIL', i) + n
  BY <1>0, <1>4, <1>5, <1>6, RingShrinks DEF Size
<1>8. PICK c : c = [from |-> PIPE_TAIL, len |-> n, byte |-> 0]
  OBVIOUS
<1>9. c \in Chunk /\ c.from = PIPE_TAIL /\ c.len = n
  BY <1>0, <1>5, <1>8, PipeAssumption DEF Chunk, Index
<1>10. chunk'[p] = c /\ chunk' \in [Procs -> Chunk]
  BY <1>0, <1>4, <1>8, <1>9 DEF Types
<1>11. pc'[p] = "read_copy" /\ pc' \in [Procs -> Places] /\ \A s \in Procs \ {p} : pc'[s] = pc[s]
  BY <1>0, <1>4 DEF Types, Places
<1>12. count' \in [Procs -> Nat]
  <2>1. count[p] - n \in Nat
    BY <1>0, <1>5 DEF Types
  <2> QED BY <1>0, <1>4, <2>1 DEF Types
<1>13. Types'
  BY <1>0, <1>4, <1>7, <1>10, <1>11, <1>12 DEF Types
<1>14. Running'
  BY <1>1, <1>11 DEF Running, Copying
<1>15. Reads(chunk[p])'
  <2>0. Len(output) \in Nat /\ Size \in Nat /\ input \in Nat
    BY <1>0, DistIs, PipeAssumption, SMTT(30) DEF Types, Size, Index
  <2>1. c.from + c.len <= PAGE_SIZE
    BY <1>0, <1>5, <1>9, PipeAssumption DEF Index
  <2>2. \A k \in 0 .. n - 1 : page[PIPE_TAIL + k] = Len(output) + k + 1
    BY <1>2, <1>5, <1>7, <2>0 DEF Holds
  <2>3. Len(output) + n + Size' = input
    BY <1>2, <1>5, <1>7, <2>0 DEF Holds
  <2>4. ASSUME NEW i \in Index, Dist(PIPE_TAIL', i) < Size'
        PROVE  page[i] = Len(output) + n + Dist(PIPE_TAIL', i) + 1
    <3>0. Dist(PIPE_TAIL', i) \in Nat /\ Dist(PIPE_TAIL, i) \in Nat
      BY <1>0, <1>7, DistIs, PipeAssumption DEF Index
    <3>1. Dist(PIPE_TAIL, i) = Dist(PIPE_TAIL', i) + n
      BY <1>7, <2>4
    <3>2. Dist(PIPE_TAIL, i) < Size - 0
      BY <1>5, <1>7, <2>0, <2>4, <3>0, <3>1
    <3>3. page[i] = Len(output) + Dist(PIPE_TAIL, i) + 1
      BY <1>2, <3>2 DEF Holds
    <3> QED BY <1>5, <2>0, <3>0, <3>1, <3>3
  <2>5. Holds(Len(output) + n, 0)'
    <3>1. Size' - 0 = Size'
      BY <1>5, <1>7, <2>0
    <3>2. \A i \in Index : Dist(PIPE_TAIL', i) < Size' - 0
                          => page[i] = Len(output) + n + Dist(PIPE_TAIL', i) + 1
      BY <2>4, <3>1
    <3>3. page' = page /\ output' = output /\ input' = input
      BY <1>4
    <3> QED BY <2>3, <3>2, <3>3 DEF Holds
  <2> QED BY <1>4, <1>9, <1>10, <2>1, <2>2, <2>5 DEF Reads
<1>16. Ring'
  BY <1>1, <1>11, <1>15 DEF Ring, Copying
<1> QED BY <1>13, <1>14, <1>16

\* ... and copies it to his program.
LEMMA ReadCopy ==
    ASSUME ~CopyFaults, Stream, NEW p \in Procs, read_copy(p), cur' = p
    PROVE  Types' /\ Running' /\ Ring' /\ BytesInOrder'
<1>0. Types /\ NoProc \notin Procs
  BY PipeAssumption DEF Stream, Types, Procs
<1>1. pc[p] = "read_copy" /\ \A s \in Procs \ {p} : ~Copying(s)
  BY <1>0 DEF Stream, Running, Types, Places, read_copy, Copying
<1>2. PICK c \in Chunk : c = chunk[p]
  BY <1>0 DEF Types
<1>3. PICK more : more = [i \in 1 .. c.len |-> page[c.from + i - 1]]
  OBVIOUS
<1>4. /\ output' = output \o more
      /\ chunk' = [chunk EXCEPT ![p] = NoChunk]
      /\ pc' = [pc EXCEPT ![p] = "read"]
      /\ UNCHANGED <<page, PIPE_HEAD, PIPE_TAIL, count, input>>
  BY <1>2, <1>3 DEF read_copy
<1>5. /\ c.from \in Nat /\ c.len \in Nat /\ c.from + c.len <= PAGE_SIZE
      /\ \A k \in 0 .. c.len - 1 : page[c.from + k] = Len(output) + k + 1
      /\ Holds(Len(output) + c.len, 0)
  BY <1>1, <1>2 DEF Stream, Ring, Reads, Chunk
<1>6. \A i \in 1 .. c.len : more[i] = Len(output) + i
  <2> TAKE i \in 1 .. c.len
  <2>1. i - 1 \in 0 .. c.len - 1 /\ c.from + i - 1 = c.from + (i - 1)
    BY <1>5
  <2>2. page[c.from + (i - 1)] = Len(output) + (i - 1) + 1
    BY <1>5, <2>1
  <2>3. Len(output) \in Nat
    BY <1>0 DEF Types
  <2> QED BY <1>3, <2>1, <2>2, <2>3
<1>7. more \in Seq(Nat) /\ Len(more) = c.len
  <2>1. \A i \in 1 .. c.len : more[i] \in Nat
    BY <1>0, <1>5, <1>6 DEF Types
  <2>2. more \in [1 .. c.len -> Nat]
    BY <1>3, <2>1
  <2> QED BY <1>5, <2>2
<1>8. /\ output' \in Seq(Nat) /\ Len(output') = Len(output) + c.len
      /\ \A i \in 1 .. Len(output) : output'[i] = output[i]
      /\ \A i \in 1 .. c.len : output'[Len(output) + i] = more[i]
  BY <1>0, <1>4, <1>7, SMTT(30) DEF Types
<1>9. BytesInOrder'
  <2> SUFFICES ASSUME NEW i \in 1 .. Len(output') PROVE output'[i] = i
    BY DEF BytesInOrder
  <2>1. CASE i <= Len(output)
    BY <1>0, <1>8, <2>1 DEF Stream, BytesInOrder, Types
  <2>2. CASE i > Len(output)
    <3>1. i - Len(output) \in 1 .. c.len /\ Len(output) + (i - Len(output)) = i
      BY <1>0, <1>5, <1>8, <2>2 DEF Types
    <3>2. output'[i] = more[i - Len(output)]
      BY <1>8, <3>1
    <3> QED BY <1>6, <3>1, <3>2
  <2> QED BY <1>0, <2>1, <2>2 DEF Types
<1>10. NoChunk \in Chunk
  BY DEF NoChunk, Chunk
<1>11. pc'[p] = "read" /\ pc' \in [Procs -> Places] /\ \A s \in Procs \ {p} : pc'[s] = pc[s]
  BY <1>0, <1>4 DEF Types, Places
<1>12. Types'
  BY <1>0, <1>4, <1>8, <1>10, <1>11 DEF Types
<1>13. \A s \in Procs : pc'[s] \notin {"read_copy", "write_copy"}
  BY <1>1, <1>11 DEF Copying
<1>14. Running'
  BY <1>11, <1>13 DEF Running, Copying
<1>15. Holds(Len(output), 0)'
  <2>1. Size' = Size
    BY <1>4 DEF Size
  <2> QED BY <1>4, <1>5, <1>8, <2>1 DEF Holds
<1>16. Ring'
  BY <1>13, <1>15 DEF Ring
<1> QED BY <1>9, <1>12, <1>14, <1>16

\* A writer takes space at the head ...
LEMMA WriteChunk ==
    ASSUME ~CopyFaults, Stream, NEW p \in Procs, cur \in {NoProc, p}, write_chunk(p), cur' = p
    PROVE  Types' /\ Running' /\ Ring'
<1>0. Types /\ NoProc \notin Procs /\ PIPE_HEAD \in Index /\ PIPE_TAIL \in Index
  BY PipeAssumption DEF Stream, Types, Procs
<1>1. \A s \in Procs : ~Copying(s)
  BY <1>0 DEF Stream, Running, write_chunk, Copying
<1>2. Holds(Len(output), 0) /\ PIPE_SIZE = Size
  BY <1>0, <1>1, SizeIs DEF Stream, Ring, Size
<1>3. PICK n : n = Least({PAGE_SIZE - PIPE_HEAD, count[p], Space})
  OBVIOUS
<1>4. /\ pc[p] = "write"
      /\ count' = [count EXCEPT ![p] = @ - n]
      /\ PIPE_HEAD' = (PIPE_HEAD + n) % PAGE_SIZE
      /\ chunk' = [chunk EXCEPT ![p] = [from |-> PIPE_HEAD, len |-> n, byte |-> input]]
      /\ input' = input + n
      /\ pc' = [pc EXCEPT ![p] = "write_copy"]
      /\ UNCHANGED <<page, PIPE_TAIL, output>>
  BY <1>3 DEF write_chunk
<1>5. /\ Len(output) \in Nat /\ Size \in Nat /\ input \in Nat /\ count[p] \in Nat
      /\ PAGE_SIZE - PIPE_HEAD \in Nat /\ PAGE_SIZE - 1 - Size \in Nat
  <2>1. Size \in Index
    BY <1>0, DistIs DEF Size
  <2>2. Len(output) \in Nat /\ input \in Nat /\ count[p] \in Nat
    BY <1>0 DEF Types
  <2> QED BY <1>0, <2>1, <2>2, PipeAssumption DEF Index
<1>6. n \in Nat /\ n <= PAGE_SIZE - PIPE_HEAD /\ n <= count[p] /\ n <= PAGE_SIZE - 1 - Size
  <2>2. n = Least({PAGE_SIZE - PIPE_HEAD, count[p], PAGE_SIZE - 1 - Size})
    BY <1>2, <1>3 DEF Space
  <2>3. /\ n \in {PAGE_SIZE - PIPE_HEAD, count[p], PAGE_SIZE - 1 - Size}
        /\ n <= PAGE_SIZE - PIPE_HEAD /\ n <= count[p] /\ n <= PAGE_SIZE - 1 - Size
    <3> PICK a, b, d : a = PAGE_SIZE - PIPE_HEAD /\ b = count[p] /\ d = PAGE_SIZE - 1 - Size
      OBVIOUS
    <3>1. a \in Int /\ b \in Int /\ d \in Int /\ n = Least({a, b, d})
      BY <1>5, <2>2
    <3> QED BY <3>1, LeastIs
  <2> QED BY <1>5, <2>3
<1>7. PIPE_HEAD' = Wrap(PIPE_HEAD + n)
  BY <1>0, <1>4, <1>6, WrapIs, PipeAssumption DEF Index
<1>8. /\ PIPE_HEAD' \in Index /\ Size' = Size + n
      /\ \A i \in Index : i \in PIPE_HEAD .. PIPE_HEAD + n - 1
                          => Dist(PIPE_TAIL, i) = Size + (i - PIPE_HEAD)
      /\ \A i \in Index : /\ Dist(PIPE_TAIL, i) < Size + n
                          /\ i \notin PIPE_HEAD .. PIPE_HEAD + n - 1
                          => Dist(PIPE_TAIL, i) < Size
  BY <1>0, <1>4, <1>6, <1>7, RingGrows DEF Size
<1>9. PICK c : c = [from |-> PIPE_HEAD, len |-> n, byte |-> input]
  OBVIOUS
<1>10. c \in Chunk /\ c.from = PIPE_HEAD /\ c.len = n /\ c.byte = input
  BY <1>0, <1>5, <1>6, <1>9, PipeAssumption DEF Chunk, Index
<1>11. chunk'[p] = c /\ chunk' \in [Procs -> Chunk]
  BY <1>0, <1>4, <1>9, <1>10 DEF Types
<1>12. pc'[p] = "write_copy" /\ pc' \in [Procs -> Places] /\ \A s \in Procs \ {p} : pc'[s] = pc[s]
  BY <1>0, <1>4 DEF Types, Places
<1>13. count' \in [Procs -> Nat] /\ input' \in Nat
  <2>1. count[p] - n \in Nat
    BY <1>5, <1>6
  <2> QED BY <1>0, <1>4, <1>5, <1>6, <2>1 DEF Types
<1>14. Types'
  BY <1>0, <1>4, <1>8, <1>11, <1>12, <1>13 DEF Types
<1>15. Running'
  BY <1>1, <1>12 DEF Running, Copying
<1>16. Writes(chunk[p])'
  <2>1. n <= Size' /\ input = input' - n /\ Size' - n = Size
    BY <1>4, <1>5, <1>6, <1>8
  <2>2. Holds(Len(output), n)'
    <3>1. Len(output) + Size' = input'
      BY <1>2, <1>4, <1>5, <1>6, <1>8, SMTT(30) DEF Holds
    <3>2. Size - 0 = Size
      BY <1>5
    <3>3. page' = page /\ output' = output /\ PIPE_TAIL' = PIPE_TAIL
      BY <1>4
    <3> QED BY <1>2, <2>1, <3>1, <3>2, <3>3 DEF Holds
  <2>3. PIPE_TAIL' = PIPE_TAIL
    BY <1>4
  <2> QED BY <1>8, <1>10, <1>11, <2>1, <2>2, <2>3 DEF Writes
<1>17. Ring'
  BY <1>1, <1>12, <1>16 DEF Ring, Copying
<1> QED BY <1>14, <1>15, <1>17

\* ... and fills it.
LEMMA WriteCopy ==
    ASSUME ~CopyFaults, Stream, NEW p \in Procs, write_copy(p), cur' = p
    PROVE  Types' /\ Running' /\ Ring'
<1>0. Types /\ NoProc \notin Procs
  BY PipeAssumption DEF Stream, Types, Procs
<1>1. pc[p] = "write_copy" /\ \A s \in Procs \ {p} : ~Copying(s)
  BY <1>0 DEF Stream, Running, Types, Places, write_copy, Copying
<1>2. PICK c \in Chunk : c = chunk[p]
  BY <1>0 DEF Types
<1>3. /\ page' = [i \in Index |-> IF i \in c.from .. c.from + c.len - 1
                                  THEN c.byte + (i - c.from) + 1 ELSE page[i]]
      /\ chunk' = [chunk EXCEPT ![p] = NoChunk]
      /\ pc' = [pc EXCEPT ![p] = "write"]
      /\ UNCHANGED <<PIPE_HEAD, PIPE_TAIL, count, input, output>>
  BY <1>2 DEF write_copy
<1>4. Writes(c)
  BY <1>1, <1>2 DEF Stream, Ring
<1>5. c.from \in Nat /\ c.len \in Nat /\ c.byte \in Nat /\ NoChunk \in Chunk
  BY <1>2 DEF Chunk, NoChunk
<1>6. Len(output) \in Nat /\ Size \in Nat /\ input \in Nat
  BY <1>0, DistIs, PipeAssumption, SMTT(30) DEF Types, Size, Index
<1>7. Holds(Len(output), 0)'
  <2>1. Size' = Size /\ Size - 0 = Size
    BY <1>3, <1>6 DEF Size
  <2>2. Len(output) + Size = input
    BY <1>4 DEF Writes, Holds
  <2>3. ASSUME NEW i \in Index, Dist(PIPE_TAIL, i) < Size
        PROVE  page'[i] = Len(output) + Dist(PIPE_TAIL, i) + 1
    <3>1. CASE i \in c.from .. c.from + c.len - 1
      <4>1. page'[i] = c.byte + (i - c.from) + 1
        BY <1>3, <3>1
      <4>2. c.byte = input - c.len /\ Dist(PIPE_TAIL, i) = Size - c.len + (i - c.from)
        BY <1>4, <3>1 DEF Writes
      <4>3. i \in Int
        BY DEF Index
      <4> QED BY <1>5, <1>6, <2>2, <4>1, <4>2, <4>3
    <3>2. CASE i \notin c.from .. c.from + c.len - 1
      BY <1>3, <1>4, <2>3, <3>2 DEF Writes, Holds
    <3> QED BY <3>1, <3>2
  <2>4. PIPE_TAIL' = PIPE_TAIL /\ output' = output /\ input' = input
    BY <1>3
  <2> QED BY <2>1, <2>2, <2>3, <2>4 DEF Holds
<1>8. pc'[p] = "write" /\ pc' \in [Procs -> Places] /\ \A s \in Procs \ {p} : pc'[s] = pc[s]
  BY <1>0, <1>3 DEF Types, Places
<1>9. page' \in [Index -> Nat]
  <2>1. \A i \in Index : i \in c.from .. c.from + c.len - 1 => c.byte + (i - c.from) + 1 \in Nat
    BY <1>5, PipeAssumption DEF Index
  <2> QED BY <1>0, <1>3, <2>1 DEF Types
<1>10. Types'
  BY <1>0, <1>3, <1>5, <1>8, <1>9 DEF Types
<1>11. \A s \in Procs : pc'[s] \notin {"read_copy", "write_copy"}
  BY <1>1, <1>8 DEF Copying
<1>12. Running'
  BY <1>8, <1>11 DEF Running, Copying
<1>13. Ring'
  BY <1>7, <1>11 DEF Ring
<1> QED BY <1>10, <1>12, <1>13

LEMMA StreamNext ==
    ASSUME ~CopyFaults, Stream, [PipeNext]_pipeVars
    PROVE  Stream'
<1>1. ASSUME NEW p \in Procs, Step(p) PROVE Stream'
  <2>0. cur \in {NoProc, p} /\ Types /\ NoProc # p
    BY <1>1, PipeAssumption DEF Step, Stream, Procs
  <2>1. CASE read_chunk(p) \/ read_copy(p) \/ write_chunk(p) \/ write_copy(p)
    <3>1. pc'[p] \in {"read", "read_copy", "write", "write_copy"}
      BY <2>0, <2>1 DEF read_chunk, read_copy, write_chunk, write_copy, Types
    <3>2. cur' = p
      BY <1>1, <3>1 DEF Step
    <3>3. SleepersHaveReason'
      BY <2>0, <3>2 DEF SleepersHaveReason
    <3>4. ~read_copy(p) => BytesInOrder'
      <4>1. ~read_copy(p) => output' = output
        BY <2>1 DEF read_chunk, write_chunk, write_copy
      <4> QED BY <4>1 DEF Stream, BytesInOrder
    <3> QED BY <2>0, <2>1, <3>2, <3>3, <3>4, ReadChunk, ReadCopy, WriteChunk, WriteCopy DEF Stream
  <2>2. CASE \/ sys_read(p) \/ sys_write(p) \/ read_empty(p) \/ write_full(p)
             \/ read_returns(p) \/ write_returns(p) \/ sys_close(p)
    <3>1. Settles(p)
      BY <2>0, <2>2, CallSettles
    <3>2. cur' \in {NoProc, p} /\ (cur' = p <=> pc'[p] \in {"read", "write"})
      <4>1. pc'[p] \in Places \ {"read_copy", "write_copy"}
        BY <3>1 DEF Settles, Copying
      <4> QED BY <1>1, <2>0, <4>1 DEF Step, Places
    <3>3. SleepersHaveReason'
      BY <1>1, <2>2, SettledSleepers
    <3> QED BY <2>0, <3>1, <3>2, <3>3, SettledRing DEF Stream
  <2> QED BY <1>1, <2>1, <2>2 DEF Step, read_pipe, write_pipe
<1>2. CASE UNCHANGED pipeVars
  <2>1. Types' /\ Running'
    BY <1>2 DEF pipeVars, Stream, Types, Running, Copying
  <2>2. Ring'
    BY <1>2 DEF pipeVars, Stream, Ring, Reads, Writes, Holds, Size, Copying
  <2>3. BytesInOrder' /\ SleepersHaveReason'
    BY <1>2 DEF pipeVars, Stream, BytesInOrder, SleepersHaveReason, PIPE_SIZE, Space, i_count
  <2> QED BY <2>1, <2>2, <2>3 DEF Stream
<1> QED BY <1>1, <1>2 DEF PipeNext

\* The inductive invariant: the ring, the page and the chunk that is being
\* copied together hold every byte that was written and not yet read.
THEOREM StreamInvariant ==
    ASSUME ~CopyFaults
    PROVE  PipeSpec => []Stream
<1>1. Stream /\ [PipeNext]_pipeVars => Stream'
  BY StreamNext
<1> QED BY <1>1, StreamInit, PTL DEF PipeSpec

\* Readers get the bytes in the order in which they were written, each once,
\* wherever the ring wraps (read_pipe, write_pipe), for any page size and any
\* number of readers and writers.
THEOREM BytesAreInOrder ==
    ASSUME ~CopyFaults
    PROVE  PipeSpec => []BytesInOrder
<1>1. Stream => BytesInOrder
  BY DEF Stream
<1> QED BY <1>1, StreamInvariant, PTL

\* Between two calls the page holds exactly the bytes written and not yet read.
THEOREM NothingIsLost ==
    ASSUME ~CopyFaults
    PROVE  PipeSpec => []NothingLost
<1>1. ASSUME Stream PROVE NothingLost
  <2> SUFFICES ASSUME cur = NoProc
               PROVE  /\ Len(output) + PIPE_SIZE = input
                      /\ \A i \in 0 .. PIPE_SIZE - 1 :
                            page[(PIPE_TAIL + i) % PAGE_SIZE] = Len(output) + i + 1
    BY DEF NothingLost
  <2>1. PIPE_HEAD \in Index /\ PIPE_TAIL \in Index /\ PIPE_SIZE = Size /\ Size \in Index
    BY <1>1, SizeIs, DistIs DEF Stream, Types, Size
  <2>2. Holds(Len(output), 0)
    BY <1>1, PipeAssumption DEF Stream, Running, Ring, Procs
  <2>3. ASSUME NEW i \in 0 .. PIPE_SIZE - 1
        PROVE  page[(PIPE_TAIL + i) % PAGE_SIZE] = Len(output) + i + 1
    <3>1. i \in Index /\ i < Size - 0
      BY <2>1, <2>3, PipeAssumption DEF Index
    <3>2. PIPE_TAIL + i \in 0 .. 2 * PAGE_SIZE - 1
      BY <2>1, <3>1, PipeAssumption DEF Index
    <3>3. (PIPE_TAIL + i) % PAGE_SIZE = Wrap(PIPE_TAIL + i)
      BY <3>2, WrapIs
    <3>4. Wrap(PIPE_TAIL + i) \in Index /\ Dist(PIPE_TAIL, Wrap(PIPE_TAIL + i)) = i
      BY <2>1, <3>1, RingIndex
    <3> QED BY <2>2, <3>1, <3>3, <3>4 DEF Holds
  <2> QED BY <2>1, <2>2, <2>3 DEF Holds
<1> QED BY <1>1, StreamInvariant, PTL

\* Nobody sleeps in read_pipe or write_pipe without reason: one queue serves
\* both sides, and each wakes the other whenever it stops.
THEOREM SleepersAreRight ==
    ASSUME ~CopyFaults
    PROVE  PipeSpec => []SleepersHaveReason
<1>1. Stream => SleepersHaveReason
  BY DEF Stream
<1> QED BY <1>1, StreamInvariant, PTL
=============================================================================
