-------------------------- MODULE BufferCacheProofs --------------------------
(***************************************************************************)
(* For every number of tasks, buffers, blocks and requests: a block has at *)
(* most one buffer, whoever has a buffer keeps its block, a locked buffer  *)
(* has one owner and, if the disk does not fail and copying does not       *)
(* sleep, no write is lost.                                                *)
(***************************************************************************)
EXTENDS BufferCache, FiniteSetTheorems, TLAPS

\* Where a task counts in b_count of its buffer, and where it is in sync_dev.
HasBuffer == {"hash_wait", "got", "read", "read_sleep", "read_request",
              "read_wait", "use", "copy", "brelse"}
Syncing == {"sync", "sync_sleep", "sync_request"}
WaitsToRead == {"read_sleep", "read_request"}
WaitsToWrite == {"sync_sleep", "sync_request"}

Users(b) == {p \in Procs : bh[p] = b /\ pc[p] \in HasBuffer}

\* The buffer a task has locked while it waits for a free request.
Waits(p) == pc[p] \in WaitsToRead \cup WaitsToWrite
Locks(p) == IF pc[p] \in WaitsToRead THEN bh[p] ELSE SyncBuffer(p)

Heads == [b_blocknr : Blocks \cup {NoBlock}, b_count : Nat,
          b_dirt : BOOLEAN, b_lock : BOOLEAN, b_uptodate : BOOLEAN]

\* The types, the count without its bound, which follows from Counted.
Types ==
    /\ head \in [Buffer -> Heads]
    /\ data \in [Buffer -> Values]
    /\ free_list \in [Buffer -> Buffer]
    /\ \A b \in Buffer : \E i \in Buffer : free_list[i] = b
    /\ request \in [Slot -> [bh : Buffer \cup {0}, cmd : {"none", "READ", "WRITE"}]]
    /\ disk \in [Blocks -> Values] /\ last \in [Blocks -> Values]
    /\ cur \in Procs \cup {NoProc} /\ pc \in [Procs -> Label]
    /\ want \in [Procs -> Blocks \cup {NoBlock}]
    /\ mode \in [Procs -> {"none", "read", "write", "sync"}]
    /\ bh \in [Procs -> Buffer \cup {0}]
    /\ nsync \in [Procs -> 0 .. 2 * NR_BUFFERS] /\ ops \in [Procs -> 0 .. MaxOps]

\* A task that goes on with its buffer has one, and knows its block.
InUse(p) == pc[p] \in HasBuffer \cup {"victim"} \/ (pc[p] \in Syncing /\ mode[p] # "sync")
Placed(p) ==
    /\ InUse(p) => bh[p] \in Buffer
    /\ InUse(p) \/ pc[p] \in {"getblk", "no_buffer"} => want[p] \in Blocks
    /\ pc[p] \in Syncing => nsync[p] > 0
Places == \A p \in Procs : Placed(p)

Counted == \A b \in Buffer : head[b].b_count = Cardinality(Users(b))
Kept == \A p \in Procs : pc[p] \in HasBuffer => head[bh[p]].b_blocknr = want[p]

\* A request is for a buffer, and a read for one that has a block.
Requests ==
    \A i \in Slot : request[i] # Empty =>
        /\ request[i].bh \in Buffer /\ request[i].cmd # "none"
        /\ request[i].cmd = "READ" => head[request[i].bh].b_blocknr \in Blocks

\* LockHasOneOwner without cardinalities.
Owned ==
    /\ \A i \in Slot : request[i] # Empty => head[request[i].bh].b_lock
    /\ \A p \in Procs : Waits(p) => head[Locks(p)].b_lock
    /\ \A i, j \in Slot : request[i] # Empty /\ request[i].bh = request[j].bh => i = j
    /\ \A p, q \in Procs : Waits(p) /\ Waits(q) /\ Locks(p) = Locks(q) => p = q
    /\ \A i \in Slot, p \in Procs : request[i] # Empty /\ Waits(p) => request[i].bh # Locks(p)
    /\ \A b \in Buffer : head[b].b_lock =>
          (\E i \in Slot : request[i].bh = b) \/ (\E p \in Procs : Waits(p) /\ Locks(p) = b)

Cache == Types /\ Places /\ Counted /\ Kept /\ OneBufferPerBlock /\ Requests /\ Owned

\* What is in an up to date buffer was written last.  What is on the disk was
\* too, unless a buffer is still to be written or is being written.
Fresh == \A b \in Buffer : head[b].b_uptodate /\ head[b].b_blocknr \in Blocks
                             => data[b] = last[head[b].b_blocknr]
ToBeWritten(b) == head[b].b_dirt \/ \E i \in Slot : request[i] = [bh |-> b, cmd |-> "WRITE"]
OnDisk == \A n \in Blocks : disk[n] # last[n] =>
             \E b \in Buffer : head[b].b_blocknr = n /\ head[b].b_uptodate /\ ToBeWritten(b)

\* Only buffers that are not up to date are read, only those that are written;
\* a write is one step, as copying does not sleep.
Directed(p) ==
    /\ pc[p] \in WaitsToRead => ~head[bh[p]].b_uptodate
    /\ pc[p] \in WaitsToWrite => head[SyncBuffer(p)].b_uptodate
    /\ pc[p] = "use" => head[bh[p]].b_uptodate
    /\ pc[p] # "copy"
Directions ==
    /\ \A i \in Slot : request[i] # Empty =>
          (request[i].cmd = "WRITE" <=> head[request[i].bh].b_uptodate)
    /\ \A p \in Procs : Directed(p)
    /\ \A b \in Buffer : head[b].b_dirt => head[b].b_uptodate

Contents == Fresh /\ OnDisk /\ Directions

-----------------------------------------------------------------------------
\* Remainders by a number that is not known are bounded.
LEMMA SyncBufferType ==
    ASSUME Types, NEW p \in Procs, nsync[p] > 0
    PROVE  SyncBuffer(p) \in Buffer
<1>1. nsync[p] - 1 \in Nat /\ NR_BUFFERS \in Nat \ {0}
  BY BufferAssumption DEF Types
<1>2. (nsync[p] - 1) % NR_BUFFERS \in 0 .. NR_BUFFERS - 1
  BY <1>1
<1> QED BY <1>1, <1>2 DEF SyncBuffer, Buffer

\* Whoever waits for a request has locked a buffer.
LEMMA LocksType ==
    ASSUME Types, Places, NEW p \in Procs, Waits(p)
    PROVE  Locks(p) \in Buffer
<1>1. CASE pc[p] \in WaitsToRead
  BY <1>1 DEF Places, Placed, InUse, Locks, HasBuffer, WaitsToRead
<1>2. CASE pc[p] \in WaitsToWrite
  <2>1. pc[p] \in Syncing /\ pc[p] \notin WaitsToRead
    BY <1>2 DEF Syncing, WaitsToWrite, WaitsToRead
  <2>2. SyncBuffer(p) \in Buffer
    BY <2>1, SyncBufferType DEF Places, Placed
  <2> QED BY <2>1, <2>2 DEF Locks
<1> QED BY <1>1, <1>2 DEF Waits

\* The free list stays a list of all the buffers.
LEMMA MovedToEndType ==
    ASSUME Types, NEW b \in Buffer
    PROVE  /\ MovedToEnd(b) \in [Buffer -> Buffer]
           /\ \A c \in Buffer : \E i \in Buffer : MovedToEnd(b)[i] = c
<1> DEFINE at == CHOOSE i \in Buffer : free_list[i] = b
<1>0. NR_BUFFERS \in Nat \ {0} /\ Buffer = 1 .. NR_BUFFERS
  BY BufferAssumption DEF Buffer
<1>1. at \in Buffer /\ free_list[at] = b
  BY DEF Types
<1>2. free_list \in [Buffer -> Buffer]
  BY DEF Types
<1>3. MovedToEnd(b) = [i \in Buffer |-> IF i < at THEN free_list[i]
                          ELSE IF i < NR_BUFFERS THEN free_list[i + 1] ELSE b]
  BY DEF MovedToEnd
<1> HIDE DEF at
<1>4. ASSUME NEW c \in Buffer PROVE \E i \in Buffer : MovedToEnd(b)[i] = c
  <2>1. PICK i \in Buffer : free_list[i] = c
    BY DEF Types
  <2>2. CASE c = b
    <3>1. NR_BUFFERS \in Buffer /\ ~(NR_BUFFERS < at)
      BY <1>0, <1>1
    <3> QED BY <1>0, <1>3, <2>2, <3>1
  <2>3. CASE i < at
    BY <1>3, <2>1, <2>3
  <2>4. CASE i > at
    <3>1. i - 1 \in Buffer /\ ~(i - 1 < at) /\ i - 1 < NR_BUFFERS /\ (i - 1) + 1 = i
      BY <1>0, <1>1, <2>4
    <3> QED BY <1>3, <2>1, <3>1
  <2> QED BY <1>0, <1>1, <2>1, <2>2, <2>3, <2>4
<1>5. MovedToEnd(b) \in [Buffer -> Buffer]
  <2>1. ASSUME NEW i \in Buffer, i < NR_BUFFERS PROVE i + 1 \in Buffer
    BY <1>0, <2>1
  <2> QED BY <1>2, <1>3, <2>1
<1> QED BY <1>4, <1>5

-----------------------------------------------------------------------------
\* A task that counts in b_count: the count is not zero.
LEMMA UserCounted ==
    ASSUME Types, Places, Counted, NEW p \in Procs, pc[p] \in HasBuffer
    PROVE  bh[p] \in Buffer /\ head[bh[p]].b_count \in Nat \ {0}
<1>1. bh[p] \in Buffer
  BY DEF Places, Placed, InUse
<1>2. p \in Users(bh[p]) /\ IsFiniteSet(Users(bh[p]))
  BY FS_Subset, BufferAssumption DEF Users
<1>3. Cardinality(Users(bh[p])) \in Nat \ {0}
  BY <1>2, FS_CardinalityType, FS_EmptySet
<1> QED BY <1>1, <1>3 DEF Counted

\* What the assignments to a buffer head change.
Only(b) == head' \in [Buffer -> Heads] /\ \A c \in Buffer \ {b} : head'[c] = head[c]
Same(b, c) == head'[b].b_blocknr = c.b_blocknr /\ head'[b].b_count = c.b_count

LEMMA CountUp ==
    ASSUME head \in [Buffer -> Heads], NEW b \in Buffer, head' = [head EXCEPT ![b].b_count = @ + 1]
    PROVE  /\ Only(b) /\ head'[b].b_count = head[b].b_count + 1
           /\ head'[b].b_blocknr = head[b].b_blocknr /\ head'[b].b_dirt = head[b].b_dirt
           /\ head'[b].b_lock = head[b].b_lock /\ head'[b].b_uptodate = head[b].b_uptodate
BY DEF Only, Heads

LEMMA CountDown ==
    ASSUME head \in [Buffer -> Heads], NEW b \in Buffer, head[b].b_count # 0,
           head' = [head EXCEPT ![b].b_count = @ - 1]
    PROVE  /\ Only(b) /\ head'[b].b_count = head[b].b_count - 1
           /\ head'[b].b_blocknr = head[b].b_blocknr /\ head'[b].b_dirt = head[b].b_dirt
           /\ head'[b].b_lock = head[b].b_lock /\ head'[b].b_uptodate = head[b].b_uptodate
BY DEF Only, Heads

LEMMA BufferLocked ==
    ASSUME head \in [Buffer -> Heads], NEW b \in Buffer, head' = [head EXCEPT ![b].b_lock = TRUE]
    PROVE  /\ Only(b) /\ Same(b, head[b]) /\ head'[b].b_dirt = head[b].b_dirt
           /\ head'[b].b_lock /\ head'[b].b_uptodate = head[b].b_uptodate
BY DEF Only, Heads, Same

LEMMA BufferQueued ==
    ASSUME head \in [Buffer -> Heads], NEW b \in Buffer,
           head' = [head EXCEPT ![b].b_lock = TRUE, ![b].b_dirt = FALSE]
    PROVE  /\ Only(b) /\ Same(b, head[b]) /\ ~head'[b].b_dirt
           /\ head'[b].b_lock /\ head'[b].b_uptodate = head[b].b_uptodate
BY DEF Only, Heads, Same

LEMMA BufferUnlocked ==
    ASSUME head \in [Buffer -> Heads], NEW b \in Buffer, NEW ok \in BOOLEAN,
           head' = [head EXCEPT ![b].b_uptodate = ok, ![b].b_lock = FALSE]
    PROVE  /\ Only(b) /\ Same(b, head[b]) /\ head'[b].b_dirt = head[b].b_dirt
           /\ ~head'[b].b_lock /\ head'[b].b_uptodate = ok
BY DEF Only, Heads, Same

LEMMA BufferDirtied ==
    ASSUME head \in [Buffer -> Heads], NEW b \in Buffer, head' = [head EXCEPT ![b].b_dirt = TRUE]
    PROVE  /\ Only(b) /\ Same(b, head[b]) /\ head'[b].b_dirt
           /\ head'[b].b_lock = head[b].b_lock /\ head'[b].b_uptodate = head[b].b_uptodate
BY DEF Only, Heads, Same

LEMMA BufferTaken ==
    ASSUME head \in [Buffer -> Heads], NEW b \in Buffer, NEW n \in Blocks,
           head' = [head EXCEPT ![b] = [Head0 EXCEPT !.b_blocknr = n, !.b_count = 1]]
    PROVE  /\ Only(b) /\ head'[b].b_blocknr = n /\ head'[b].b_count = 1
           /\ ~head'[b].b_dirt /\ ~head'[b].b_lock /\ ~head'[b].b_uptodate
BY DEF Only, Heads, Head0

-----------------------------------------------------------------------------
\* The steps as the invariant sees them.  A step of p changes nothing of the
\* other tasks, except that it may wake those that wait for a buffer.
Others(p) ==
    \A q \in Procs \ {p} :
        /\ bh'[q] = bh[q] /\ want'[q] = want[q] /\ mode'[q] = mode[q] /\ nsync'[q] = nsync[q]
        /\ pc'[q] = pc[q] \/ (pc[q] = "no_buffer" /\ pc'[q] = "getblk")

\* p uses a buffer after the step if and only if it did before.
SameUse(p) ==
    /\ pc[p] \in HasBuffer <=> pc'[p] \in HasBuffer
    /\ pc[p] \in HasBuffer => bh'[p] = bh[p] /\ want'[p] = want[p]

LEMMA OthersKeep ==
    ASSUME NEW p \in Procs, Others(p), NEW q \in Procs \ {p}
    PROVE  /\ pc'[q] \in HasBuffer <=> pc[q] \in HasBuffer
           /\ Placed(q) => Placed(q)'
           /\ Waits(q)' <=> Waits(q)
           /\ Waits(q) => Locks(q)' = Locks(q)
<1>1. pc'[q] \in HasBuffer <=> pc[q] \in HasBuffer
  BY DEF Others, HasBuffer
<1>2. Placed(q) => Placed(q)'
  BY DEF Others, HasBuffer, Placed, InUse, Syncing
<1>3. Waits(q)' <=> Waits(q)
  BY DEF Others, Waits, WaitsToRead, WaitsToWrite
<1>4. Waits(q) => Locks(q)' = Locks(q)
  BY DEF Others, Waits, WaitsToRead, WaitsToWrite, Locks, SyncBuffer
<1> QED BY <1>1, <1>2, <1>3, <1>4

LEMMA PlacesKept ==
    ASSUME Places, NEW p \in Procs, Others(p), Placed(p)'
    PROVE  Places'
BY OthersKeep DEF Places

LEMMA UsersKept ==
    ASSUME NEW p \in Procs, Others(p), SameUse(p), NEW b
    PROVE  Users(b)' = Users(b)
BY OthersKeep DEF Users, SameUse, Others

LEMMA KeptKept ==
    ASSUME Types, Places, Kept, NEW p \in Procs, Others(p), SameUse(p),
           \A b \in Buffer : head'[b].b_blocknr = head[b].b_blocknr
    PROVE  Kept'
<1> SUFFICES ASSUME NEW q \in Procs, pc'[q] \in HasBuffer
             PROVE  head'[bh'[q]].b_blocknr = want'[q]
  BY DEF Kept
<1>1. pc[q] \in HasBuffer /\ bh'[q] = bh[q] /\ want'[q] = want[q]
  BY OthersKeep DEF SameUse, Others
<1>2. bh[q] \in Buffer
  BY <1>1 DEF Places, Placed, InUse
<1> QED BY <1>1, <1>2 DEF Kept

\* No count, no lock and no request changes.
LEMMA QuietStep ==
    ASSUME Cache, Types', NEW p \in Procs, Others(p), Placed(p)', SameUse(p),
           request' = request,
           \A b \in Buffer : /\ head'[b].b_blocknr = head[b].b_blocknr
                             /\ head'[b].b_count = head[b].b_count
                             /\ head'[b].b_lock = head[b].b_lock,
           Waits(p)' <=> Waits(p), Waits(p) => Locks(p)' = Locks(p)
    PROVE  Cache'
<1> USE DEF Cache
<1>1. Places'
  BY PlacesKept
<1>2. Counted'
  BY UsersKept DEF Counted
<1>3. Kept'
  BY KeptKept
<1>4. OneBufferPerBlock'
  BY DEF OneBufferPerBlock
<1>5. Requests'
  BY DEF Requests
<1>6. Owned'
  <2>1. \A q \in Procs : (Waits(q)' <=> Waits(q)) /\ (Waits(q) => Locks(q)' = Locks(q))
    BY OthersKeep
  <2>2. \A q \in Procs : Waits(q) => Locks(q) \in Buffer
    BY LocksType
  <2>3. \A i \in Slot : request[i] # Empty => request[i].bh \in Buffer
    BY DEF Requests
  <2> QED BY <2>1, <2>2, <2>3 DEF Owned
<1> QED BY <1>1, <1>2, <1>3, <1>4, <1>5, <1>6

\* p locks b, for which there is no free request.
LEMMA LockStep ==
    ASSUME Cache, Types', NEW p \in Procs, Others(p), Placed(p)', SameUse(p),
           NEW b \in Buffer, ~head[b].b_lock, Only(b), Same(b, head[b]), head'[b].b_lock,
           request' = request, ~Waits(p), Waits(p)', Locks(p)' = b
    PROVE  Cache'
<1> USE DEF Cache
<1>0. \A c \in Buffer : /\ head'[c].b_blocknr = head[c].b_blocknr
                        /\ head'[c].b_count = head[c].b_count
                        /\ c # b => head'[c].b_lock = head[c].b_lock
  BY DEF Only, Same
<1>1. Places'
  BY PlacesKept
<1>2. Counted'
  BY <1>0, UsersKept DEF Counted
<1>3. Kept'
  BY <1>0, KeptKept
<1>4. OneBufferPerBlock'
  BY <1>0 DEF OneBufferPerBlock
<1>5. Requests'
  BY <1>0 DEF Requests
<1>6. Owned'
  <2>1. \A q \in Procs \ {p} : (Waits(q)' <=> Waits(q)) /\ (Waits(q) => Locks(q)' = Locks(q))
    BY OthersKeep
  <2>2. \A q \in Procs : Waits(q) => Locks(q) \in Buffer /\ Locks(q) # b
    BY LocksType DEF Owned
  <2>3. \A i \in Slot : request[i] # Empty => request[i].bh \in Buffer \ {b}
    BY DEF Requests, Owned
  <2> QED BY <1>0, <2>1, <2>2, <2>3 DEF Owned
<1> QED BY <1>1, <1>2, <1>3, <1>4, <1>5, <1>6

\* A request for b goes into slot i: p locks b for it or has waited for it.
LEMMA QueueStep ==
    ASSUME Cache, Types', NEW p \in Procs, Others(p), Placed(p)', SameUse(p),
           NEW b \in Buffer, Only(b), Same(b, head[b]), head'[b].b_lock,
           NEW i \in Slot, NEW cmd \in {"READ", "WRITE"}, request[i] = Empty,
           request' = [request EXCEPT ![i] = [bh |-> b, cmd |-> cmd]],
           cmd = "READ" => head[b].b_blocknr \in Blocks,
           (Waits(p) /\ Locks(p) = b) \/ (~Waits(p) /\ ~head[b].b_lock), ~Waits(p)'
    PROVE  Cache'
<1> USE DEF Cache
<1>0. \A c \in Buffer : /\ head'[c].b_blocknr = head[c].b_blocknr
                        /\ head'[c].b_count = head[c].b_count
                        /\ c # b => head'[c].b_lock = head[c].b_lock
  BY DEF Only, Same
<1>1. Places'
  BY PlacesKept
<1>2. Counted'
  BY <1>0, UsersKept DEF Counted
<1>3. Kept'
  BY <1>0, KeptKept
<1>4. OneBufferPerBlock'
  BY <1>0 DEF OneBufferPerBlock
<1>R. /\ request'[i] = [bh |-> b, cmd |-> cmd] /\ request'[i] # Empty
      /\ \A j \in Slot \ {i} : request'[j] = request[j]
  <2>1. request \in [Slot -> [bh : Buffer \cup {0}, cmd : {"none", "READ", "WRITE"}]]
    BY DEF Types
  <2>2. request'[i] = [bh |-> b, cmd |-> cmd] /\ \A j \in Slot \ {i} : request'[j] = request[j]
    BY <2>1
  <2>3. [bh |-> b, cmd |-> cmd].cmd # Empty.cmd
    BY DEF Empty
  <2> QED BY <2>2, <2>3
<1>r. request'[i].bh = b /\ request'[i].cmd = cmd
  BY <1>R
<1>5. Requests'
  <2> SUFFICES ASSUME NEW j \in Slot, request'[j] # Empty
               PROVE  /\ request'[j].bh \in Buffer /\ request'[j].cmd # "none"
                      /\ request'[j].cmd = "READ" => head'[request'[j].bh].b_blocknr \in Blocks
    BY DEF Requests
  <2>1. CASE j = i
    BY <1>0, <1>r, <2>1
  <2>2. CASE j # i
    BY <1>0, <1>R, <2>2 DEF Requests
  <2> QED BY <2>1, <2>2
<1>6. Owned'
  <2>1. \A q \in Procs \ {p} : (Waits(q)' <=> Waits(q)) /\ (Waits(q) => Locks(q)' = Locks(q))
    BY OthersKeep
  <2>2. \A q \in Procs \ {p} : Waits(q) => Locks(q) \in Buffer /\ Locks(q) # b
    BY LocksType DEF Owned
  <2>3. \A j \in Slot : request[j] # Empty => request[j].bh \in Buffer \ {b}
    BY DEF Requests, Owned
  <2>4. \A j \in Slot : request[j].bh \in Buffer => request[j] # Empty
    BY DEF Empty, Buffer
  <2>5. Empty.bh \notin Buffer
    BY DEF Empty, Buffer
  <2>6. \A j \in Slot : request'[j] # Empty => head'[request'[j].bh].b_lock
    BY <1>0, <1>R, <1>r, <2>3 DEF Owned
  <2>7. \A q \in Procs : Waits(q)' => head'[Locks(q)'].b_lock
    BY <1>0, <2>1, <2>2 DEF Owned
  <2>8. \A j, k \in Slot : request'[j] # Empty /\ request'[j].bh = request'[k].bh => j = k
    BY <1>R, <1>r, <2>3, <2>4, <2>5 DEF Owned
  <2>9. \A q, r \in Procs : Waits(q)' /\ Waits(r)' /\ Locks(q)' = Locks(r)' => q = r
    BY <2>1 DEF Owned
  <2>10. \A j \in Slot, q \in Procs : request'[j] # Empty /\ Waits(q)' => request'[j].bh # Locks(q)'
    BY <1>R, <1>r, <2>1, <2>2 DEF Owned
  <2>11. ASSUME NEW c \in Buffer, head'[c].b_lock
         PROVE  (\E j \in Slot : request'[j].bh = c) \/ (\E q \in Procs : Waits(q)' /\ Locks(q)' = c)
    <3>1. CASE c = b
      BY <1>r, <3>1
    <3>2. CASE c # b
      <4>1. head[c].b_lock
        BY <1>0, <2>11, <3>2
      <4>2. (\E j \in Slot : request[j].bh = c) \/ (\E q \in Procs : Waits(q) /\ Locks(q) = c)
        BY <4>1 DEF Owned
      <4>3. CASE \E j \in Slot : request[j].bh = c
        BY <1>R, <2>5, <4>3
      <4>4. CASE \E q \in Procs : Waits(q) /\ Locks(q) = c
        BY <2>1, <3>2, <4>4
      <4> QED BY <4>2, <4>3, <4>4
    <3> QED BY <3>1, <3>2
  <2> QED BY <2>6, <2>7, <2>8, <2>9, <2>10, <2>11 DEF Owned
<1> QED BY <1>1, <1>2, <1>3, <1>4, <1>5, <1>6

\* p counts in a buffer from now on, or no more.
LEMMA UsersJoin ==
    ASSUME NEW p \in Procs, Others(p), pc[p] \notin HasBuffer, pc'[p] \in HasBuffer, NEW c
    PROVE  /\ p \notin Users(c)
           /\ Users(c)' = IF c = bh'[p] THEN Users(c) \cup {p} ELSE Users(c)
BY OthersKeep DEF Users, Others

LEMMA UsersLeave ==
    ASSUME NEW p \in Procs, Others(p), pc[p] \in HasBuffer, pc'[p] \notin HasBuffer, NEW c
    PROVE  /\ p \in Users(c) <=> c = bh[p]
           /\ Users(c)' = Users(c) \ {p}
BY OthersKeep DEF Users, Others

LEMMA UsersFinite ==
    ASSUME NEW c
    PROVE  IsFiniteSet(Users(c)) /\ Cardinality(Users(c)) \in Nat
BY FS_Subset, FS_CardinalityType, BufferAssumption DEF Users

\* get_hash_table: one more user for the buffer that has the block.
LEMMA FindsStep ==
    ASSUME Cache, Types', NEW p \in Procs, Others(p), Placed(p)', request' = request,
           NEW b \in Buffer, Only(b), head'[b].b_count = head[b].b_count + 1,
           head'[b].b_blocknr = head[b].b_blocknr, head'[b].b_lock = head[b].b_lock,
           pc[p] = "getblk", pc'[p] = "hash_wait", bh'[p] = b, want'[p] = head[b].b_blocknr
    PROVE  Cache'
<1> USE DEF Cache
<1>0. \A c \in Buffer : /\ head'[c].b_blocknr = head[c].b_blocknr
                        /\ head'[c].b_lock = head[c].b_lock
                        /\ c # b => head'[c].b_count = head[c].b_count
  BY DEF Only
<1>p. pc[p] \notin HasBuffer /\ pc'[p] \in HasBuffer /\ ~Waits(p) /\ ~Waits(p)'
  BY DEF HasBuffer, Waits, WaitsToRead, WaitsToWrite
<1>1. Places'
  BY PlacesKept
<1>2. Counted'
  <2> SUFFICES ASSUME NEW c \in Buffer PROVE head'[c].b_count = Cardinality(Users(c)')
    BY DEF Counted
  <2>1. CASE c = b
    <3>1. p \notin Users(b) /\ Users(b)' = Users(b) \cup {p}
      BY <1>p, UsersJoin
    <3>2. Cardinality(Users(b)') = Cardinality(Users(b)) + 1
      BY <3>1, UsersFinite, FS_AddElement
    <3> QED BY <2>1, <3>2 DEF Counted
  <2>2. CASE c # b
    <3>1. Users(c)' = Users(c)
      BY <1>p, <2>2, UsersJoin
    <3> QED BY <1>0, <2>2, <3>1 DEF Counted
  <2> QED BY <2>1, <2>2
<1>3. Kept'
  <2> SUFFICES ASSUME NEW q \in Procs, pc'[q] \in HasBuffer
               PROVE  head'[bh'[q]].b_blocknr = want'[q]
    BY DEF Kept
  <2>1. CASE q = p
    BY <1>0, <2>1
  <2>2. CASE q # p
    <3>1. pc[q] \in HasBuffer /\ bh'[q] = bh[q] /\ want'[q] = want[q]
      BY <2>2, OthersKeep DEF Others
    <3>2. bh[q] \in Buffer
      BY <3>1 DEF Places, Placed, InUse
    <3> QED BY <1>0, <3>1, <3>2 DEF Kept
  <2> QED BY <2>1, <2>2
<1>4. OneBufferPerBlock'
  BY <1>0 DEF OneBufferPerBlock
<1>5. Requests'
  BY <1>0 DEF Requests
<1>6. Owned'
  <2>1. \A q \in Procs : (Waits(q)' <=> Waits(q)) /\ (Waits(q) => Locks(q)' = Locks(q))
    BY <1>p, OthersKeep
  <2>2. \A q \in Procs : Waits(q) => Locks(q) \in Buffer
    BY LocksType
  <2>3. \A i \in Slot : request[i] # Empty => request[i].bh \in Buffer
    BY DEF Requests
  <2> QED BY <1>0, <2>1, <2>2, <2>3 DEF Owned
<1> QED BY <1>1, <1>2, <1>3, <1>4, <1>5, <1>6

\* brelse: one user less, and whoever waits for a buffer looks again.
LEMMA ReleaseStep ==
    ASSUME Cache, Types', NEW p \in Procs, Others(p), Placed(p)', request' = request,
           Only(bh[p]), head'[bh[p]].b_count = head[bh[p]].b_count - 1,
           head'[bh[p]].b_blocknr = head[bh[p]].b_blocknr,
           head'[bh[p]].b_lock = head[bh[p]].b_lock,
           pc[p] = "brelse", pc'[p] = "idle"
    PROVE  Cache'
<1> USE DEF Cache
<1>p. pc[p] \in HasBuffer /\ pc'[p] \notin HasBuffer /\ ~Waits(p) /\ ~Waits(p)'
  BY DEF HasBuffer, Waits, WaitsToRead, WaitsToWrite
<1>b. bh[p] \in Buffer
  BY <1>p, UserCounted
<1>0. \A c \in Buffer : /\ head'[c].b_blocknr = head[c].b_blocknr
                        /\ head'[c].b_lock = head[c].b_lock
                        /\ c # bh[p] => head'[c].b_count = head[c].b_count
  BY <1>b DEF Only
<1>1. Places'
  BY PlacesKept
<1>2. Counted'
  <2> SUFFICES ASSUME NEW c \in Buffer PROVE head'[c].b_count = Cardinality(Users(c)')
    BY DEF Counted
  <2>0. Users(c)' = Users(c) \ {p} /\ (p \in Users(c) <=> c = bh[p])
    BY <1>p, UsersLeave
  <2>1. CASE c = bh[p]
    <3>1. Cardinality(Users(c)') = Cardinality(Users(c)) - 1
      BY <2>0, <2>1, UsersFinite, FS_RemoveElement
    <3> QED BY <2>1, <3>1 DEF Counted
  <2>2. CASE c # bh[p]
    <3>1. Users(c)' = Users(c)
      BY <2>0, <2>2
    <3> QED BY <1>0, <2>2, <3>1 DEF Counted
  <2> QED BY <2>1, <2>2
<1>3. Kept'
  <2> SUFFICES ASSUME NEW q \in Procs, pc'[q] \in HasBuffer
               PROVE  head'[bh'[q]].b_blocknr = want'[q]
    BY DEF Kept
  <2>1. pc[q] \in HasBuffer /\ bh'[q] = bh[q] /\ want'[q] = want[q]
    BY <1>p, OthersKeep DEF Others
  <2>2. bh[q] \in Buffer
    BY <2>1 DEF Places, Placed, InUse
  <2> QED BY <1>0, <2>1, <2>2 DEF Kept
<1>4. OneBufferPerBlock'
  BY <1>0 DEF OneBufferPerBlock
<1>5. Requests'
  BY <1>0 DEF Requests
<1>6. Owned'
  <2>1. \A q \in Procs : (Waits(q)' <=> Waits(q)) /\ (Waits(q) => Locks(q)' = Locks(q))
    BY <1>p, OthersKeep
  <2>2. \A q \in Procs : Waits(q) => Locks(q) \in Buffer
    BY LocksType
  <2>3. \A i \in Slot : request[i] # Empty => request[i].bh \in Buffer
    BY DEF Requests
  <2> QED BY <1>0, <2>1, <2>2, <2>3 DEF Owned
<1> QED BY <1>1, <1>2, <1>3, <1>4, <1>5, <1>6

\* The buffer chosen has no user, no request and is unlocked, and no other
\* has the block: p takes it.
LEMMA TakeStep ==
    ASSUME Cache, Types', NEW p \in Procs, Others(p), Placed(p)', request' = request,
           NEW b \in Buffer, Only(b), head'[b].b_count = 1, head'[b].b_blocknr = want[p],
           ~head'[b].b_lock, ~head[b].b_lock, head[b].b_count = 0, find_buffer(want[p]) = {},
           pc[p] = "victim", pc'[p] = "got", bh'[p] = b, want'[p] = want[p]
    PROVE  Cache'
<1> USE DEF Cache
<1>0. \A c \in Buffer \ {b} : head'[c] = head[c]
  BY DEF Only
<1>p. pc[p] \notin HasBuffer /\ pc'[p] \in HasBuffer /\ ~Waits(p) /\ ~Waits(p)'
  BY DEF HasBuffer, Waits, WaitsToRead, WaitsToWrite
<1>e. Users(b) = {}
  <2>1. Cardinality(Users(b)) = 0
    BY DEF Counted
  <2> QED BY <2>1, UsersFinite, FS_EmptySet
<1>1. Places'
  BY PlacesKept
<1>2. Counted'
  <2> SUFFICES ASSUME NEW c \in Buffer PROVE head'[c].b_count = Cardinality(Users(c)')
    BY DEF Counted
  <2>1. CASE c = b
    <3>1. Users(b)' = {p}
      BY <1>p, <1>e, UsersJoin
    <3> QED BY <2>1, <3>1, FS_Singleton
  <2>2. CASE c # b
    <3>1. Users(c)' = Users(c)
      BY <1>p, <2>2, UsersJoin
    <3> QED BY <1>0, <2>2, <3>1 DEF Counted
  <2> QED BY <2>1, <2>2
<1>3. Kept'
  <2> SUFFICES ASSUME NEW q \in Procs, pc'[q] \in HasBuffer
               PROVE  head'[bh'[q]].b_blocknr = want'[q]
    BY DEF Kept
  <2>1. CASE q = p
    BY <2>1
  <2>2. CASE q # p
    <3>1. pc[q] \in HasBuffer /\ bh'[q] = bh[q] /\ want'[q] = want[q]
      BY <2>2, OthersKeep DEF Others
    <3>2. bh[q] \in Buffer \ {b}
      BY <1>e, <3>1 DEF Places, Placed, InUse, Users
    <3> QED BY <1>0, <3>1, <3>2 DEF Kept
  <2> QED BY <2>1, <2>2
<1>4. OneBufferPerBlock'
  BY <1>0 DEF OneBufferPerBlock, find_buffer
<1>r. \A i \in Slot : request[i] # Empty => request[i].bh \in Buffer \ {b}
  BY DEF Requests, Owned
<1>5. Requests'
  BY <1>0, <1>r DEF Requests
<1>6. Owned'
  <2>1. \A q \in Procs : (Waits(q)' <=> Waits(q)) /\ (Waits(q) => Locks(q)' = Locks(q))
    BY <1>p, OthersKeep
  <2>2. \A q \in Procs : Waits(q) => Locks(q) \in Buffer \ {b}
    BY LocksType DEF Owned
  <2> QED BY <1>0, <1>r, <2>1, <2>2 DEF Owned
<1> QED BY <1>1, <1>2, <1>3, <1>4, <1>5, <1>6

\* end_request: the buffer is unlocked, and whoever waits for a request wakes.
LEMMA EndStep ==
    ASSUME Cache, Types', NEW i \in Slot, request[i] # Empty,
           request' = [request EXCEPT ![i] = Empty],
           Only(request[i].bh), Same(request[i].bh, head[request[i].bh]),
           ~head'[request[i].bh].b_lock, pc' = WakeRequest,
           want' = want, mode' = mode, bh' = bh, nsync' = nsync
    PROVE  Cache'
<1> USE DEF Cache
<1> DEFINE b == request[i].bh
<1>b. b \in Buffer /\ head[b].b_lock /\ ~head'[b].b_lock
  BY DEF Requests, Owned
<1>0. \A c \in Buffer : /\ head'[c].b_blocknr = head[c].b_blocknr
                        /\ head'[c].b_count = head[c].b_count
                        /\ c # b => head'[c].b_lock = head[c].b_lock
  BY <1>b DEF Only, Same
<1>R. request'[i] = Empty /\ \A j \in Slot \ {i} : request'[j] = request[j]
  <2>1. request \in [Slot -> [bh : Buffer \cup {0}, cmd : {"none", "READ", "WRITE"}]]
    BY DEF Types
  <2> QED BY <2>1
<1>h. b = request[i].bh
  OBVIOUS
<1> HIDE DEF b
<1>q. ASSUME NEW q \in Procs
      PROVE  /\ pc'[q] \in HasBuffer <=> pc[q] \in HasBuffer
             /\ pc'[q] \in Syncing <=> pc[q] \in Syncing
             /\ pc'[q] \in WaitsToRead <=> pc[q] \in WaitsToRead
             /\ pc'[q] \in WaitsToWrite <=> pc[q] \in WaitsToWrite
             /\ pc'[q] # pc[q] => pc'[q] \in HasBuffer \cup Syncing
  <2>1. \/ pc[q] = "sync_sleep" /\ pc'[q] = "sync_request"
        \/ pc[q] = "read_sleep" /\ pc'[q] = "read_request"
        \/ pc'[q] = pc[q]
    BY DEF WakeRequest
  <2> QED BY <2>1 DEF HasBuffer, Syncing, WaitsToRead, WaitsToWrite
<1>w. \A q \in Procs : (Waits(q)' <=> Waits(q)) /\ Locks(q)' = Locks(q)
  BY <1>q DEF Waits, Locks, SyncBuffer
<1>1. Places'
  BY <1>q DEF Places, Placed, InUse, HasBuffer, Syncing
<1>2. Counted'
  <2>1. \A c \in Buffer : Users(c)' = Users(c)
    BY <1>q DEF Users
  <2> QED BY <1>0, <2>1 DEF Counted
<1>3. Kept'
  BY <1>0, <1>q DEF Kept, Places, Placed, InUse
<1>4. OneBufferPerBlock'
  BY <1>0 DEF OneBufferPerBlock
<1>5. Requests'
  BY <1>0, <1>R DEF Requests
<1>6. Owned'
  <2>2. \A q \in Procs : Waits(q) => Locks(q) \in Buffer /\ Locks(q) # b
    BY <1>h, LocksType DEF Owned
  <2>3. \A j \in Slot \ {i} : request[j] # Empty => request[j].bh \in Buffer /\ request[j].bh # b
    BY <1>h DEF Requests, Owned
  <2>5. Empty.bh \notin Buffer
    BY DEF Empty, Buffer
  <2>6. \A j \in Slot : request'[j] # Empty => head'[request'[j].bh].b_lock
    BY <1>0, <1>R, <2>3 DEF Owned
  <2>7. \A q \in Procs : Waits(q)' => head'[Locks(q)'].b_lock
    BY <1>0, <1>w, <2>2 DEF Owned
  <2>8. \A j, k \in Slot : request'[j] # Empty /\ request'[j].bh = request'[k].bh => j = k
    BY <1>R, <2>3, <2>5 DEF Owned
  <2>9. \A q, r \in Procs : Waits(q)' /\ Waits(r)' /\ Locks(q)' = Locks(r)' => q = r
    BY <1>w DEF Owned
  <2>10. \A j \in Slot, q \in Procs : request'[j] # Empty /\ Waits(q)' => request'[j].bh # Locks(q)'
    BY <1>R, <1>w DEF Owned
  <2>11. ASSUME NEW c \in Buffer, head'[c].b_lock
         PROVE  (\E j \in Slot : request'[j].bh = c) \/ (\E q \in Procs : Waits(q)' /\ Locks(q)' = c)
    <3>1. c # b /\ head[c].b_lock
      BY <1>0, <1>b, <2>11
    <3>2. (\E j \in Slot : request[j].bh = c) \/ (\E q \in Procs : Waits(q) /\ Locks(q) = c)
      BY <3>1 DEF Owned
    <3> QED BY <1>R, <1>h, <1>w, <3>1, <3>2
  <2> QED BY <2>6, <2>7, <2>8, <2>9, <2>10, <2>11 DEF Owned
<1> QED BY <1>1, <1>2, <1>3, <1>4, <1>5, <1>6

-----------------------------------------------------------------------------
\* Every action preserves the invariant.  The state of the tasks by itself:
Tasks ==
    /\ pc \in [Procs -> Label] /\ want \in [Procs -> Blocks \cup {NoBlock}]
    /\ mode \in [Procs -> {"none", "read", "write", "sync"}]
    /\ bh \in [Procs -> Buffer \cup {0}]
    /\ nsync \in [Procs -> 0 .. 2 * NR_BUFFERS] /\ ops \in [Procs -> 0 .. MaxOps]

LEMMA TasksType == ASSUME Types PROVE Tasks
BY DEF Types, Tasks

LEMMA TypesStep ==
    ASSUME Types, head' \in [Buffer -> Heads], data' \in [Buffer -> Values],
           free_list' = free_list,
           request' \in [Slot -> [bh : Buffer \cup {0}, cmd : {"none", "READ", "WRITE"}]],
           disk' \in [Blocks -> Values], last' \in [Blocks -> Values],
           cur' \in Procs \cup {NoProc}, Tasks'
    PROVE  Types'
BY DEF Types, Tasks

LEMMA OnlyTasks ==
    ASSUME Types, UNCHANGED <<head, data, free_list, request, disk, last>>,
           cur' \in Procs \cup {NoProc}, Tasks'
    PROVE  Types'
BY DEF Types, Tasks

LEMMA StartsStep ==
    ASSUME Cache, NEW p \in Procs, cur' \in Procs \cup {NoProc}, starts(p)
    PROVE  Cache'
<1>1. Tasks
  BY TasksType DEF Cache
<1>2. NR_BUFFERS \in Nat \ {0}
  BY BufferAssumption
<1>3. Tasks'
  BY <1>1, <1>2, BufferAssumption DEF starts, Tasks, Goto, Label
<1>4. Types'
  BY <1>3, OnlyTasks DEF starts, Cache
<1>5. Others(p)
  BY <1>1 DEF starts, Goto, Others, Tasks
<1>6. pc[p] = "idle" /\ pc'[p] \in {"getblk", "sync"} /\ UNCHANGED <<head, request>>
  BY <1>1 DEF starts, Goto, Tasks
<1>7. Placed(p)'
  BY <1>1, <1>2 DEF starts, Goto, Tasks, Placed, InUse, HasBuffer, Syncing
<1>8. SameUse(p) /\ ~Waits(p) /\ ~Waits(p)'
  BY <1>6 DEF SameUse, HasBuffer, Waits, WaitsToRead, WaitsToWrite
<1> QED BY <1>4, <1>5, <1>6, <1>7, <1>8, QuietStep

LEMMA FindsPreserves ==
    ASSUME Cache, NEW p \in Procs, cur' \in Procs \cup {NoProc}, getblk_finds(p)
    PROVE  Cache'
<1>1. Tasks /\ head \in [Buffer -> Heads] /\ Placed(p)
  BY TasksType DEF Cache, Types, Places
<1>2. PICK b \in find_buffer(want[p]) : /\ head' = [head EXCEPT ![b].b_count = @ + 1]
                                        /\ bh' = [bh EXCEPT ![p] = b]
  BY DEF getblk_finds
<1>3. b \in Buffer /\ head[b].b_blocknr = want[p]
  BY <1>2 DEF find_buffer
<1>4. /\ pc[p] = "getblk" /\ pc' = [pc EXCEPT ![p] = "hash_wait"]
      /\ UNCHANGED <<data, free_list, request, disk, last, want, mode, nsync, ops>>
  BY DEF getblk_finds, Goto
<1>5. Tasks'
  BY <1>1, <1>2, <1>3, <1>4 DEF Tasks, Label
<1>6. /\ Only(b) /\ head'[b].b_count = head[b].b_count + 1
      /\ head'[b].b_blocknr = head[b].b_blocknr /\ head'[b].b_lock = head[b].b_lock
  BY <1>1, <1>2, <1>3, CountUp
<1>7. head' \in [Buffer -> Heads]
  BY <1>6 DEF Only
<1>8. Types'
  BY <1>4, <1>5, <1>7, TypesStep DEF Types, Cache
<1>9. Others(p) /\ bh'[p] = b /\ pc'[p] = "hash_wait" /\ want'[p] = want[p]
  BY <1>1, <1>2, <1>3, <1>4 DEF Others, Tasks
<1>10. Placed(p)'
  BY <1>1, <1>3, <1>4, <1>9 DEF Placed, InUse, HasBuffer, Syncing
<1> QED BY <1>3, <1>4, <1>6, <1>8, <1>9, <1>10, FindsStep

LEMMA ChoosesPreserves ==
    ASSUME Cache, NEW p \in Procs, cur' \in Procs \cup {NoProc}, getblk_chooses(p)
    PROVE  Cache'
<1>1. Tasks /\ Placed(p)
  BY TasksType DEF Cache, Places
<1>2. Victim \subseteq Buffer
  BY DEF Victim, Cache, Types
<1>3. /\ pc[p] = "getblk"
      /\ UNCHANGED <<head, data, free_list, request, disk, last, want, mode, nsync, ops>>
      /\ \/ pc' = [pc EXCEPT ![p] = "no_buffer"] /\ bh' = bh
         \/ pc' = [pc EXCEPT ![p] = "victim"] /\ \E b \in Buffer : bh' = [bh EXCEPT ![p] = b]
  BY <1>2 DEF getblk_chooses, Goto
<1>4. Tasks'
  BY <1>1, <1>3 DEF Tasks, Label
<1>5. Types'
  BY <1>3, <1>4, OnlyTasks DEF Cache
<1>6. Others(p) /\ pc'[p] \in {"no_buffer", "victim"} /\ (pc'[p] = "victim" => bh'[p] \in Buffer)
  BY <1>1, <1>3 DEF Others, Tasks
<1>7. Placed(p)'
  BY <1>1, <1>3, <1>6 DEF Placed, InUse, HasBuffer, Syncing
<1>8. SameUse(p) /\ ~Waits(p) /\ ~Waits(p)'
  BY <1>3, <1>6 DEF SameUse, HasBuffer, Waits, WaitsToRead, WaitsToWrite
<1> QED BY <1>3, <1>5, <1>6, <1>7, <1>8, QuietStep

\* p goes on with the buffer it has.
LEMMA GoesOn ==
    ASSUME Cache, NEW p \in Procs, pc[p] \in HasBuffer, NEW l \in HasBuffer,
           pc' = [pc EXCEPT ![p] = l], UNCHANGED <<want, mode, bh, nsync, ops>>
    PROVE  /\ Others(p) /\ SameUse(p) /\ Placed(p)' /\ Tasks' /\ pc'[p] = l
           /\ Waits(p)' <=> l \in WaitsToRead
           /\ Waits(p) <=> pc[p] \in WaitsToRead
           /\ bh[p] \in Buffer /\ want[p] \in Blocks
<1>1. Tasks /\ Placed(p)
  BY TasksType DEF Cache, Places
<1>2. Tasks'
  BY <1>1 DEF Tasks, HasBuffer, Label
<1>3. Others(p) /\ pc'[p] = l
  BY <1>1 DEF Others, Tasks
<1>4. SameUse(p)
  BY <1>3 DEF SameUse
<1>5. Placed(p)' /\ bh[p] \in Buffer /\ want[p] \in Blocks
  BY <1>1, <1>3 DEF Placed, InUse, HasBuffer, Syncing
<1>6. /\ Waits(p)' <=> l \in WaitsToRead
      /\ Waits(p) <=> pc[p] \in WaitsToRead
  BY <1>3 DEF Waits, WaitsToRead, WaitsToWrite, HasBuffer
<1> QED BY <1>2, <1>3, <1>4, <1>5, <1>6

\* hash_wait, got, read_wait: nothing but pc changes.
LEMMA MovesPreserve ==
    ASSUME Cache, NEW p \in Procs, cur' \in Procs \cup {NoProc},
           hash_wait(p) \/ got(p) \/ read_wait(p)
    PROVE  Cache'
<1>1. /\ pc[p] \in HasBuffer \ WaitsToRead
      /\ UNCHANGED <<head, data, free_list, request, disk, last, want, mode, bh, nsync, ops>>
      /\ \E l \in HasBuffer \ WaitsToRead : pc' = [pc EXCEPT ![p] = l]
  <2>1. CASE hash_wait(p)
    <3>1. pc[p] = "hash_wait" /\ pc[p] \in HasBuffer
      BY <2>1 DEF hash_wait, HasBuffer
    <3>2. head[bh[p]].b_blocknr = want[p]
      BY <3>1 DEF Cache, Kept
    <3> QED BY <2>1, <3>1, <3>2 DEF hash_wait, Goto, HasBuffer, WaitsToRead
  <2>2. CASE got(p)
    BY <2>2 DEF got, Goto, HasBuffer, WaitsToRead
  <2>3. CASE read_wait(p)
    BY <2>3 DEF read_wait, Goto, HasBuffer, WaitsToRead
  <2> QED BY <2>1, <2>2, <2>3
<1>2. PICK l \in HasBuffer \ WaitsToRead : pc' = [pc EXCEPT ![p] = l]
  BY <1>1
<1>3. Others(p) /\ SameUse(p) /\ Placed(p)' /\ Tasks' /\ ~Waits(p)' /\ ~Waits(p)
  BY <1>1, <1>2, GoesOn
<1>4. Types'
  BY <1>1, <1>3, OnlyTasks DEF Cache
<1> QED BY <1>1, <1>3, <1>4, QuietStep

LEMMA VictimPreserves ==
    ASSUME Cache, NEW p \in Procs, cur' \in Procs \cup {NoProc}, victim(p)
    PROVE  Cache'
<1> DEFINE b == bh[p]
<1>1. Tasks /\ head \in [Buffer -> Heads] /\ Placed(p)
  BY TasksType DEF Cache, Types, Places
<1>2. /\ pc[p] = "victim" /\ ~head[b].b_lock
      /\ UNCHANGED <<data, request, disk, last, want, mode, ops>>
  BY DEF victim
<1>3. b \in Buffer /\ want[p] \in Blocks /\ ~Waits(p) /\ pc[p] \notin HasBuffer
  BY <1>1, <1>2 DEF Placed, InUse, Waits, WaitsToRead, WaitsToWrite, HasBuffer
<1>4. NR_BUFFERS \in Nat \ {0}
  BY BufferAssumption
<1>5. \/ /\ pc' = [pc EXCEPT ![p] = "getblk"] /\ bh' = [bh EXCEPT ![p] = 0]
         /\ UNCHANGED <<head, free_list, nsync>>
      \/ /\ pc' = [pc EXCEPT ![p] = "sync"] /\ nsync' = [nsync EXCEPT ![p] = 1]
         /\ UNCHANGED <<head, free_list, bh>>
      \/ /\ head[b].b_count = 0 /\ find_buffer(want[p]) = {}
         /\ head' = [head EXCEPT ![b] = [Head0 EXCEPT !.b_blocknr = want[p], !.b_count = 1]]
         /\ free_list' = MovedToEnd(b) /\ pc' = [pc EXCEPT ![p] = "got"]
         /\ UNCHANGED <<bh, nsync>>
  BY DEF victim, Goto, Taken, AddedMeanwhile
<1>6. CASE /\ pc' = [pc EXCEPT ![p] = "getblk"] /\ bh' = [bh EXCEPT ![p] = 0]
           /\ UNCHANGED <<head, free_list, nsync>>
  <2>1. Tasks'
    BY <1>1, <1>2, <1>6 DEF Tasks, Label
  <2>2. Types'
    BY <1>2, <1>6, <2>1, OnlyTasks DEF Cache
  <2>3. Others(p) /\ pc'[p] = "getblk"
    BY <1>1, <1>2, <1>6 DEF Others, Tasks
  <2>4. Placed(p)' /\ SameUse(p) /\ ~Waits(p)'
    BY <1>2, <1>3, <2>3 DEF Placed, InUse, HasBuffer, Syncing, SameUse, Waits, WaitsToRead,
         WaitsToWrite
  <2> QED BY <1>2, <1>3, <1>6, <2>2, <2>3, <2>4, QuietStep
<1>7. CASE /\ pc' = [pc EXCEPT ![p] = "sync"] /\ nsync' = [nsync EXCEPT ![p] = 1]
           /\ UNCHANGED <<head, free_list, bh>>
  <2>1. Tasks'
    BY <1>1, <1>2, <1>4, <1>7 DEF Tasks, Label
  <2>2. Types'
    BY <1>2, <1>7, <2>1, OnlyTasks DEF Cache
  <2>3. Others(p) /\ pc'[p] = "sync" /\ nsync'[p] = 1
    BY <1>1, <1>2, <1>7 DEF Others, Tasks
  <2>4. Placed(p)' /\ SameUse(p) /\ ~Waits(p)'
    BY <1>2, <1>3, <1>7, <2>3 DEF Placed, InUse, HasBuffer, Syncing, SameUse, Waits, WaitsToRead,
         WaitsToWrite
  <2> QED BY <1>2, <1>3, <1>7, <2>2, <2>3, <2>4, QuietStep
<1>8. CASE /\ head[b].b_count = 0 /\ find_buffer(want[p]) = {}
           /\ head' = [head EXCEPT ![b] = [Head0 EXCEPT !.b_blocknr = want[p], !.b_count = 1]]
           /\ free_list' = MovedToEnd(b) /\ pc' = [pc EXCEPT ![p] = "got"]
           /\ UNCHANGED <<bh, nsync>>
  <2>1. Tasks'
    BY <1>1, <1>2, <1>8 DEF Tasks, Label
  <2>2. Only(b) /\ head'[b].b_blocknr = want[p] /\ head'[b].b_count = 1 /\ ~head'[b].b_lock
    BY <1>1, <1>3, <1>8, BufferTaken
  <2>3. /\ free_list' \in [Buffer -> Buffer]
        /\ \A c \in Buffer : \E i \in Buffer : free_list'[i] = c
    BY <1>3, <1>8, MovedToEndType DEF Cache
  <2>4. Types'
    BY <1>2, <2>1, <2>2, <2>3 DEF Only, Types, Tasks, Cache
  <2>5. Others(p) /\ pc'[p] = "got" /\ bh'[p] = b /\ want'[p] = want[p]
    BY <1>1, <1>2, <1>8 DEF Others, Tasks
  <2>6. Placed(p)'
    BY <1>3, <2>5 DEF Placed, InUse, HasBuffer, Syncing
  <2> QED BY <1>2, <1>3, <1>8, <2>2, <2>4, <2>5, <2>6, TakeStep
<1> QED BY <1>5, <1>6, <1>7, <1>8

LEMMA BrelsePreserves ==
    ASSUME Cache, NEW p \in Procs, cur' \in Procs \cup {NoProc}, brelse(p)
    PROVE  Cache'
<1>1. Tasks /\ head \in [Buffer -> Heads] /\ Placed(p)
  BY TasksType DEF Cache, Types, Places
<1>2. /\ pc[p] = "brelse" /\ head' = [head EXCEPT ![bh[p]].b_count = @ - 1]
      /\ UNCHANGED <<data, free_list, request, disk, last, nsync, ops>>
      /\ want' = [want EXCEPT ![p] = NoBlock] /\ mode' = [mode EXCEPT ![p] = "none"]
      /\ bh' = [bh EXCEPT ![p] = 0]
      /\ pc' = [q \in Procs |-> IF q = p THEN "idle"
                                ELSE IF pc[q] = "no_buffer" THEN "getblk" ELSE pc[q]]
  BY DEF brelse
<1>3. bh[p] \in Buffer /\ head[bh[p]].b_count # 0
  <2>1. pc[p] \in HasBuffer
    BY <1>2 DEF HasBuffer
  <2> QED BY <2>1, UserCounted DEF Cache
<1>4. Tasks'
  BY <1>1, <1>2 DEF Tasks, Label
<1>5. /\ Only(bh[p]) /\ head'[bh[p]].b_count = head[bh[p]].b_count - 1
      /\ head'[bh[p]].b_blocknr = head[bh[p]].b_blocknr
      /\ head'[bh[p]].b_lock = head[bh[p]].b_lock
  BY <1>1, <1>2, <1>3, CountDown
<1>6. head' \in [Buffer -> Heads]
  BY <1>5 DEF Only
<1>7. Types'
  BY <1>2, <1>4, <1>6, TypesStep DEF Types, Cache
<1>8. Others(p) /\ pc'[p] = "idle"
  BY <1>1, <1>2 DEF Others, Tasks
<1>9. Placed(p)'
  BY <1>8 DEF Placed, InUse, HasBuffer, Syncing
<1> QED BY <1>2, <1>5, <1>7, <1>8, <1>9, ReleaseStep

LEMMA UsePreserves ==
    ASSUME Cache, NEW p \in Procs, cur' \in Procs \cup {NoProc}, use(p) \/ copy(p)
    PROVE  Cache'
<1> DEFINE b == bh[p]
<1>1. head \in [Buffer -> Heads] /\ data \in [Buffer -> Values] /\ last \in [Blocks -> Values]
  BY DEF Cache, Types
<1>2. /\ pc[p] \in {"use", "copy"} /\ UNCHANGED <<free_list, request, disk, want, mode, bh, nsync, ops>>
      /\ \E l \in {"brelse", "copy"} : pc' = [pc EXCEPT ![p] = l]
      /\ head' = head \/ head' = [head EXCEPT ![b].b_dirt = TRUE]
      /\ \/ UNCHANGED <<data, last>>
         \/ \E v \in Values : /\ data' = [data EXCEPT ![b] = v]
                              /\ last' = [last EXCEPT ![want[p]] = v]
  BY DEF use, copy, Goto
<1>3. PICK l \in {"brelse", "copy"} : pc' = [pc EXCEPT ![p] = l]
  BY <1>2
<1>4. pc[p] \in HasBuffer /\ l \in HasBuffer /\ pc[p] \notin WaitsToRead /\ l \notin WaitsToRead
  BY <1>2 DEF HasBuffer, WaitsToRead
<1>5. /\ Others(p) /\ SameUse(p) /\ Placed(p)' /\ Tasks' /\ ~Waits(p)' /\ ~Waits(p)
      /\ b \in Buffer /\ want[p] \in Blocks
  BY <1>2, <1>3, <1>4, GoesOn
<1>6. /\ head' \in [Buffer -> Heads]
      /\ \A c \in Buffer : /\ head'[c].b_blocknr = head[c].b_blocknr
                           /\ head'[c].b_count = head[c].b_count
                           /\ head'[c].b_lock = head[c].b_lock
  <2>1. CASE head' = head
    BY <1>1, <2>1
  <2>2. CASE head' = [head EXCEPT ![b].b_dirt = TRUE]
    <3>1. Only(b) /\ Same(b, head[b]) /\ head'[b].b_lock = head[b].b_lock
      BY <1>1, <1>5, <2>2, BufferDirtied
    <3> QED BY <3>1 DEF Only, Same
  <2> QED BY <1>2, <2>1, <2>2
<1>7. data' \in [Buffer -> Values] /\ last' \in [Blocks -> Values]
  BY <1>1, <1>2, <1>5
<1>8. Types'
  BY <1>2, <1>5, <1>6, <1>7, TypesStep DEF Types, Cache
<1> QED BY <1>2, <1>5, <1>6, <1>8, QuietStep

\* The steps that ask for a request: it is there and free.
LEMMA FreeSlotType ==
    ASSUME NEW cmd, NEW i \in FreeSlot(cmd)
    PROVE  i \in Slot /\ request[i] = Empty
BY DEF FreeSlot, Usable

LEMMA AddRequestStep ==
    ASSUME Cache, NEW p \in Procs, cur' \in Procs \cup {NoProc}, Tasks',
           Others(p), Placed(p)', SameUse(p), NEW b \in Buffer,
           NEW cmd \in {"READ", "WRITE"}, NEW i \in FreeSlot(cmd), AddRequest(b, cmd, i),
           cmd = "READ" => head[b].b_blocknr \in Blocks,
           (Waits(p) /\ Locks(p) = b) \/ (~Waits(p) /\ ~head[b].b_lock), ~Waits(p)',
           UNCHANGED <<data, free_list, disk, last>>
    PROVE  Cache'
<1>1. /\ head \in [Buffer -> Heads]
      /\ request \in [Slot -> [bh : Buffer \cup {0}, cmd : {"none", "READ", "WRITE"}]]
  BY DEF Cache, Types
<1>2. i \in Slot /\ request[i] = Empty
  BY FreeSlotType
<1>3. /\ request' = [request EXCEPT ![i] = [bh |-> b, cmd |-> cmd]]
      /\ head' = [head EXCEPT ![b].b_lock = TRUE, ![b].b_dirt = FALSE]
  BY DEF AddRequest
<1>4. Only(b) /\ Same(b, head[b]) /\ head'[b].b_lock
  BY <1>1, <1>3, BufferQueued
<1>5. request' \in [Slot -> [bh : Buffer \cup {0}, cmd : {"none", "READ", "WRITE"}]]
  BY <1>1, <1>2, <1>3
<1>6. head' \in [Buffer -> Heads]
  BY <1>4 DEF Only
<1>7. Types'
  BY <1>5, <1>6, TypesStep DEF Types, Cache
<1> QED BY <1>2, <1>3, <1>4, <1>7, QueueStep

LEMMA NoRequestStep ==
    ASSUME Cache, NEW p \in Procs, cur' \in Procs \cup {NoProc}, Tasks',
           Others(p), Placed(p)', SameUse(p), NEW b \in Buffer, NEW cmd, NoRequest(b, cmd),
           (Waits(p) /\ Locks(p) = b) \/ (~Waits(p) /\ ~head[b].b_lock),
           Waits(p)', Locks(p)' = b, UNCHANGED <<data, free_list, disk, last>>
    PROVE  Cache'
<1>1. head \in [Buffer -> Heads]
  BY DEF Cache, Types
<1>2. head' = [head EXCEPT ![b].b_lock = TRUE] /\ request' = request
  BY DEF NoRequest
<1>3. Only(b) /\ Same(b, head[b]) /\ head'[b].b_lock
  BY <1>1, <1>2, BufferLocked
<1>4. head' \in [Buffer -> Heads]
  BY <1>3 DEF Only
<1>5. Types'
  BY <1>2, <1>4, TypesStep DEF Types, Cache
<1>6. CASE ~Waits(p) /\ ~head[b].b_lock
  BY <1>2, <1>3, <1>5, <1>6, LockStep
<1>7. CASE Waits(p) /\ Locks(p) = b
  <2>1. head[b].b_lock
    BY <1>7 DEF Cache, Owned
  <2>2. head[b].b_lock = TRUE /\ head'[b].b_lock = TRUE
    BY <1>1, <1>3, <1>4, <2>1 DEF Heads
  <2>3. \A c \in Buffer : /\ head'[c].b_blocknr = head[c].b_blocknr
                          /\ head'[c].b_count = head[c].b_count
                          /\ head'[c].b_lock = head[c].b_lock
    BY <1>3, <2>2 DEF Only, Same
  <2> QED BY <1>2, <1>5, <1>7, <2>3, QuietStep
<1> QED BY <1>6, <1>7

LEMMA ReadPreserves ==
    ASSUME Cache, NEW p \in Procs, cur' \in Procs \cup {NoProc}, read(p) \/ read_request(p)
    PROVE  Cache'
<1> DEFINE b == bh[p]
<1>1. /\ UNCHANGED <<data, free_list, disk, last, want, mode, bh, nsync, ops>>
      /\ \/ pc[p] = "read" /\ ~head[b].b_lock
         \/ pc[p] = "read_request"
      /\ \/ pc[p] = "read" /\ pc' = [pc EXCEPT ![p] = "read_wait"] /\ UNCHANGED <<head, request>>
         \/ /\ \E i \in FreeSlot("READ") : AddRequest(b, "READ", i)
            /\ pc' = [pc EXCEPT ![p] = "read_wait"]
         \/ NoRequest(b, "READ") /\ pc' = [pc EXCEPT ![p] = "read_sleep"]
  BY DEF read, read_request, Goto
<1>2. PICK l \in {"read_wait", "read_sleep"} : pc' = [pc EXCEPT ![p] = l]
  BY <1>1
<1>3. /\ pc[p] \in HasBuffer /\ l \in HasBuffer
      /\ l \in WaitsToRead <=> l = "read_sleep"
      /\ pc[p] \in WaitsToRead <=> pc[p] = "read_request"
  BY <1>1 DEF HasBuffer, WaitsToRead
<1>4. /\ Others(p) /\ SameUse(p) /\ Placed(p)' /\ Tasks' /\ pc'[p] = l
      /\ Waits(p)' <=> l = "read_sleep"
      /\ Waits(p) <=> pc[p] = "read_request"
      /\ b \in Buffer /\ want[p] \in Blocks
  BY <1>1, <1>2, <1>3, GoesOn
<1>5. (Waits(p) /\ Locks(p) = b) \/ (~Waits(p) /\ ~head[b].b_lock)
  BY <1>1, <1>3, <1>4 DEF Locks
<1>6. Waits(p)' => Locks(p)' = b
  BY <1>1, <1>3, <1>4 DEF Locks
<1>7. head[b].b_blocknr \in Blocks
  BY <1>3, <1>4 DEF Cache, Kept
<1>8. CASE pc[p] = "read" /\ pc' = [pc EXCEPT ![p] = "read_wait"] /\ UNCHANGED <<head, request>>
  <2>1. Types'
    BY <1>1, <1>4, <1>8, OnlyTasks DEF Cache
  <2>2. pc'[p] = "read_wait"
    BY <1>8, TasksType DEF Tasks, Cache
  <2>3. ~Waits(p) /\ ~Waits(p)'
    BY <1>4, <1>8, <2>2
  <2> QED BY <1>4, <1>8, <2>1, <2>3, QuietStep
<1>9. CASE /\ \E i \in FreeSlot("READ") : AddRequest(b, "READ", i)
           /\ pc' = [pc EXCEPT ![p] = "read_wait"]
  <2>1. PICK i \in FreeSlot("READ") : AddRequest(b, "READ", i)
    BY <1>9
  <2>2. ~Waits(p)'
    BY <1>4, <1>9, TasksType DEF Tasks, Cache
  <2> QED BY <1>1, <1>4, <1>5, <1>7, <2>1, <2>2, AddRequestStep
<1>10. CASE NoRequest(b, "READ") /\ pc' = [pc EXCEPT ![p] = "read_sleep"]
  <2>1. Waits(p)'
    BY <1>4, <1>10, TasksType DEF Tasks, Cache
  <2> QED BY <1>1, <1>4, <1>5, <1>6, <1>10, <2>1, NoRequestStep
<1> QED BY <1>1, <1>8, <1>9, <1>10

\* sync_dev goes on to the next buffer, or sleeps with this one locked.
LEMMA SyncGoesOn ==
    ASSUME Cache, NEW p \in Procs, pc[p] \in Syncing, UNCHANGED <<want, mode, bh, ops>>,
           \/ /\ pc' = [pc EXCEPT ![p] = AfterSync(p)]
              /\ nsync' = [nsync EXCEPT ![p] = IF AfterSync(p) = "sync" THEN @ + 1 ELSE 0]
           \/ pc' = [pc EXCEPT ![p] = "sync_sleep"] /\ nsync' = nsync
    PROVE  /\ Others(p) /\ SameUse(p) /\ Placed(p)' /\ Tasks'
           /\ pc'[p] \in {"sync", "idle", "victim", "sync_sleep"}
           /\ Waits(p)' <=> pc' = [pc EXCEPT ![p] = "sync_sleep"]
           /\ Waits(p)' => Locks(p)' = SyncBuffer(p)
           /\ Waits(p) <=> pc[p] # "sync"
           /\ Waits(p) => Locks(p) = SyncBuffer(p)
           /\ SyncBuffer(p) \in Buffer
<1>1. Tasks /\ Placed(p) /\ NR_BUFFERS \in Nat \ {0}
  BY TasksType, BufferAssumption DEF Cache, Places
<1>2. nsync[p] \in 1 .. 2 * NR_BUFFERS
  BY <1>1 DEF Placed, Tasks
<1>3. SyncBuffer(p) \in Buffer
  BY <1>2, SyncBufferType DEF Cache
<1>4. /\ AfterSync(p) \in {"sync", "idle", "victim"}
      /\ AfterSync(p) = "sync" => nsync[p] < 2 * NR_BUFFERS
      /\ AfterSync(p) = "victim" => mode[p] # "sync"
  BY DEF AfterSync
<1>5. Tasks'
  <2>1. CASE /\ pc' = [pc EXCEPT ![p] = AfterSync(p)]
             /\ nsync' = [nsync EXCEPT ![p] = IF AfterSync(p) = "sync" THEN @ + 1 ELSE 0]
    <3>1. nsync' \in [Procs -> 0 .. 2 * NR_BUFFERS]
      BY <1>1, <1>2, <1>4, <2>1 DEF Tasks
    <3>2. pc' \in [Procs -> Label]
      BY <1>1, <1>4, <2>1 DEF Tasks, Label
    <3> QED BY <1>1, <3>1, <3>2 DEF Tasks
  <2>2. CASE pc' = [pc EXCEPT ![p] = "sync_sleep"] /\ nsync' = nsync
    BY <1>1, <2>2 DEF Tasks, Label
  <2> QED BY <2>1, <2>2
<1>6. Others(p)
  BY <1>1 DEF Others, Tasks
<1>7. \/ /\ pc'[p] = AfterSync(p)
         /\ nsync'[p] = IF AfterSync(p) = "sync" THEN nsync[p] + 1 ELSE 0
      \/ pc'[p] = "sync_sleep" /\ nsync' = nsync
  BY <1>1 DEF Tasks
<1>8. pc'[p] \in {"sync", "idle", "victim", "sync_sleep"}
  BY <1>4, <1>7
<1>9. SameUse(p)
  BY <1>8 DEF SameUse, HasBuffer, Syncing
<1>10. Placed(p)'
  BY <1>1, <1>2, <1>4, <1>7 DEF Placed, InUse, HasBuffer, Syncing
<1>11. Waits(p)' <=> pc'[p] = "sync_sleep"
  BY <1>8 DEF Waits, WaitsToRead, WaitsToWrite
<1>12. pc'[p] = "sync_sleep" <=> pc' = [pc EXCEPT ![p] = "sync_sleep"]
  BY <1>1, <1>4 DEF Tasks
<1>13. Waits(p)' => Locks(p)' = SyncBuffer(p)
  BY <1>4, <1>7, <1>11 DEF Locks, WaitsToRead, SyncBuffer
<1>14. /\ Waits(p) <=> pc[p] # "sync"
       /\ Waits(p) => Locks(p) = SyncBuffer(p)
  BY DEF Waits, WaitsToRead, WaitsToWrite, Syncing, Locks
<1> QED BY <1>3, <1>5, <1>6, <1>8, <1>9, <1>10, <1>11, <1>12, <1>13, <1>14

LEMMA SyncPreserves ==
    ASSUME Cache, NEW p \in Procs, cur' \in Procs \cup {NoProc}, sync(p) \/ sync_request(p)
    PROVE  Cache'
<1> DEFINE b == SyncBuffer(p)
           Ahead == /\ pc' = [pc EXCEPT ![p] = AfterSync(p)]
                    /\ nsync' = [nsync EXCEPT ![p] = IF AfterSync(p) = "sync" THEN @ + 1 ELSE 0]
           Asleep == pc' = [pc EXCEPT ![p] = "sync_sleep"] /\ nsync' = nsync
<1>1. /\ UNCHANGED <<data, free_list, disk, last, want, mode, bh, ops>>
      /\ \/ pc[p] = "sync" /\ ~head[b].b_lock
         \/ pc[p] = "sync_request"
      /\ \/ pc[p] = "sync" /\ Ahead /\ UNCHANGED <<head, request>>
         \/ (\E i \in FreeSlot("WRITE") : AddRequest(b, "WRITE", i)) /\ Ahead
         \/ NoRequest(b, "WRITE") /\ Asleep
  BY DEF sync, sync_request, Goto
<1>2. pc[p] \in Syncing /\ (Ahead \/ Asleep)
  BY <1>1 DEF Syncing
<1>3. /\ Others(p) /\ SameUse(p) /\ Placed(p)' /\ Tasks' /\ b \in Buffer
      /\ Waits(p)' <=> pc' = [pc EXCEPT ![p] = "sync_sleep"]
      /\ Waits(p)' => Locks(p)' = b
      /\ Waits(p) <=> pc[p] # "sync"
      /\ Waits(p) => Locks(p) = b
  BY <1>1, <1>2, SyncGoesOn
<1>4. (Waits(p) /\ Locks(p) = b) \/ (~Waits(p) /\ ~head[b].b_lock)
  BY <1>1, <1>3
<1>5. Ahead => ~Waits(p)'
  <2>1. AfterSync(p) # "sync_sleep" /\ pc \in [Procs -> Label]
    BY TasksType DEF AfterSync, Tasks, Cache
  <2> QED BY <1>3, <2>1
<1>6. CASE pc[p] = "sync" /\ Ahead /\ UNCHANGED <<head, request>>
  <2>1. Types'
    BY <1>1, <1>3, <1>6, OnlyTasks DEF Cache
  <2> QED BY <1>3, <1>5, <1>6, <2>1, QuietStep
<1>7. CASE (\E i \in FreeSlot("WRITE") : AddRequest(b, "WRITE", i)) /\ Ahead
  <2>1. PICK i \in FreeSlot("WRITE") : AddRequest(b, "WRITE", i)
    BY <1>7
  <2> QED BY <1>1, <1>3, <1>4, <1>5, <1>7, <2>1, AddRequestStep
<1>8. CASE NoRequest(b, "WRITE") /\ Asleep
  BY <1>1, <1>3, <1>4, <1>8, NoRequestStep
<1> QED BY <1>1, <1>6, <1>7, <1>8

LEMMA IntrPreserves ==
    ASSUME Cache, disk_intr
    PROVE  Cache'
<1>1. PICK i \in Slot, ok \in BOOLEAN : end_request(i, ok)
  BY DEF disk_intr
<1> DEFINE b == request[i].bh
           n == head[b].b_blocknr
<1>2. /\ request[i] # Empty /\ request' = [request EXCEPT ![i] = Empty]
      /\ data' = IF ok /\ request[i].cmd = "READ" THEN [data EXCEPT ![b] = disk[n]] ELSE data
      /\ disk' = IF ok /\ request[i].cmd = "WRITE" THEN [disk EXCEPT ![n] = data[b]] ELSE disk
      /\ head' = [head EXCEPT ![b].b_uptodate = ok, ![b].b_lock = FALSE]
      /\ pc' = WakeRequest /\ UNCHANGED <<free_list, last, want, mode, bh, nsync, ops, cur>>
  BY <1>1 DEF end_request, disk_intr
<1>3. b \in Buffer /\ (request[i].cmd = "READ" => n \in Blocks)
  BY <1>2 DEF Cache, Requests
<1>4. /\ head \in [Buffer -> Heads] /\ data \in [Buffer -> Values] /\ disk \in [Blocks -> Values]
      /\ request \in [Slot -> [bh : Buffer \cup {0}, cmd : {"none", "READ", "WRITE"}]]
  BY DEF Cache, Types
<1>5. Only(b) /\ Same(b, head[b]) /\ ~head'[b].b_lock
  BY <1>2, <1>3, <1>4, BufferUnlocked
<1>6. head' \in [Buffer -> Heads]
  BY <1>5 DEF Only
<1>7. request' \in [Slot -> [bh : Buffer \cup {0}, cmd : {"none", "READ", "WRITE"}]]
  <2>1. Empty \in [bh : Buffer \cup {0}, cmd : {"none", "READ", "WRITE"}]
    BY DEF Empty
  <2> QED BY <1>2, <1>4, <2>1
<1>8. data' \in [Buffer -> Values]
  BY <1>2, <1>3, <1>4
<1>9. disk' \in [Blocks -> Values]
  BY <1>2, <1>3, <1>4
<1>10. Tasks'
  <2>1. pc' \in [Procs -> Label]
    <3>1. Tasks
      BY TasksType DEF Cache
    <3>2. \A q \in Procs : WakeRequest[q] \in {"sync_request", "read_request", pc[q]}
      BY DEF WakeRequest
    <3> QED BY <1>2, <3>1, <3>2 DEF Tasks, WakeRequest, Label
  <2> QED BY <1>2, <2>1, TasksType DEF Tasks, Cache
<1>11. Types'
  BY <1>2, <1>6, <1>7, <1>8, <1>9, <1>10, TypesStep DEF Types, Cache
<1> QED BY <1>2, <1>5, <1>11, EndStep

-----------------------------------------------------------------------------
LEMMA CacheInit == Init => Cache
<1> SUFFICES ASSUME Init PROVE Cache
  OBVIOUS
<1>0. NR_BUFFERS \in Nat \ {0} /\ NR_REQUEST \in Nat \ {0, 1} /\ MaxOps \in Nat
  BY BufferAssumption
<1>1. Types
  <2>1. PICK v \in Values : /\ data = [b \in Buffer |-> v] /\ disk = [n \in Blocks |-> v]
                            /\ last = disk
    BY DEF Init
  <2>2. data \in [Buffer -> Values] /\ disk \in [Blocks -> Values] /\ last \in [Blocks -> Values]
    BY <2>1
  <2>3. head \in [Buffer -> Heads]
    BY DEF Init, Head0, Heads
  <2>4. free_list \in [Buffer -> Buffer] /\ \A b \in Buffer : \E i \in Buffer : free_list[i] = b
    BY DEF Init
  <2>5. request \in [Slot -> [bh : Buffer \cup {0}, cmd : {"none", "READ", "WRITE"}]]
    BY DEF Init, Empty
  <2>6. Tasks /\ cur \in Procs \cup {NoProc}
    BY <1>0 DEF Init, Tasks, Label
  <2> QED BY <2>2, <2>3, <2>4, <2>5, <2>6 DEF Types, Tasks
<1>2. Places
  BY DEF Init, Places, Placed, InUse, HasBuffer, Syncing
<1>3. Counted
  <2>1. \A b \in Buffer : Users(b) = {}
    BY DEF Init, Users, HasBuffer
  <2> QED BY <2>1, FS_EmptySet DEF Init, Counted, Head0
<1>4. Kept
  BY DEF Init, Kept, HasBuffer
<1>5. OneBufferPerBlock
  BY DEF Init, OneBufferPerBlock, Head0
<1>6. Requests
  BY DEF Init, Requests
<1>7. Owned
  BY DEF Init, Owned, Waits, WaitsToRead, WaitsToWrite, Head0
<1> QED BY <1>1, <1>2, <1>3, <1>4, <1>5, <1>6, <1>7 DEF Cache

LEMMA CacheNext == Cache /\ [Next]_vars => Cache'
<1> SUFFICES ASSUME Cache, [Next]_vars PROVE Cache'
  OBVIOUS
<1>1. ASSUME NEW p \in Procs, Step(p) PROVE Cache'
  <2>1. cur' \in Procs \cup {NoProc}
    BY <1>1 DEF Step
  <2>2. CASE starts(p)
    BY <2>1, <2>2, StartsStep
  <2>3. CASE getblk_finds(p)
    BY <2>1, <2>3, FindsPreserves
  <2>4. CASE hash_wait(p) \/ got(p) \/ read_wait(p)
    BY <2>1, <2>4, MovesPreserve
  <2>5. CASE getblk_chooses(p)
    BY <2>1, <2>5, ChoosesPreserves
  <2>6. CASE victim(p)
    BY <2>1, <2>6, VictimPreserves
  <2>7. CASE sync(p) \/ sync_request(p)
    BY <2>1, <2>7, SyncPreserves
  <2>8. CASE read(p) \/ read_request(p)
    BY <2>1, <2>8, ReadPreserves
  <2>9. CASE use(p) \/ copy(p)
    BY <2>1, <2>9, UsePreserves
  <2>10. CASE brelse(p)
    BY <2>1, <2>10, BrelsePreserves
  <2> QED BY <1>1, <2>2, <2>3, <2>4, <2>5, <2>6, <2>7, <2>8, <2>9, <2>10
       DEF Step, getblk, write_out, bread, access
<1>2. ASSUME UNCHANGED <<head, data, free_list, request, disk, last, pc, want, mode, bh, nsync, ops>>,
             cur' \in Procs \cup {NoProc}
      PROVE  Cache'
  <2>1. Types'
    BY <1>2 DEF Cache, Types
  <2>2. (Places /\ Counted /\ Kept)'
    BY <1>2 DEF Cache, Places, Placed, InUse, Counted, Users, Kept
  <2>3. (OneBufferPerBlock /\ Requests /\ Owned)'
    BY <1>2 DEF Cache, OneBufferPerBlock, Requests, Owned, Waits, Locks, SyncBuffer
  <2> QED BY <2>1, <2>2, <2>3 DEF Cache
<1>3. ASSUME NEW p \in Procs, sleep_on_lock(p) PROVE Cache'
  BY <1>2, <1>3 DEF sleep_on_lock
<1>4. CASE disk_intr
  BY <1>4, IntrPreserves
<1>5. CASE UNCHANGED vars
  BY <1>2, <1>5 DEF vars, Cache, Types
<1> QED BY <1>1, <1>3, <1>4, <1>5 DEF Next, Done

\* The inductive invariant of the cache holds in every state: getblk, bread,
\* brelse, sync and the end of a request keep buffers, counts and locks right.
THEOREM CacheInvariant == Spec => []Cache
BY CacheInit, CacheNext, PTL DEF Spec

\* Types, and b_count between zero and the number of tasks ("Trying to free
\* free buffer" is never printed).
THEOREM TypeCorrect == Spec => []TypeOK
<1>1. ASSUME Cache PROVE TypeOK
  <2>1. ASSUME NEW b \in Buffer PROVE head[b].b_count \in 0 .. Cardinality(Procs)
    <3>1. Users(b) \subseteq Procs /\ IsFiniteSet(Procs)
      BY BufferAssumption DEF Users
    <3>2. Cardinality(Users(b)) \in Nat /\ Cardinality(Procs) \in Nat
          /\ Cardinality(Users(b)) <= Cardinality(Procs)
      BY <3>1, FS_Subset, FS_CardinalityType
    <3> QED BY <1>1, <3>2 DEF Cache, Counted
  <2>2. head \in [Buffer -> Heads]
    BY <1>1 DEF Cache, Types
  <2>3. head \in [Buffer -> [b_blocknr : Blocks \cup {NoBlock}, b_count : 0 .. Cardinality(Procs),
                            b_dirt : BOOLEAN, b_lock : BOOLEAN, b_uptodate : BOOLEAN]]
    BY <2>1, <2>2 DEF Heads
  <2> QED BY <1>1, <2>3 DEF TypeOK, Cache, Types
<1> QED BY <1>1, CacheInvariant, PTL

\* getblk never gives a block a second buffer, however many tasks miss it in
\* the cache at once and sleep on the way.
THEOREM OneBuffer == Spec => []OneBufferPerBlock
<1>1. Cache => OneBufferPerBlock
  BY DEF Cache
<1> QED BY <1>1, CacheInvariant, PTL

\* From getblk to brelse a task's buffer holds the task's block, and b_count
\* is the number of such tasks.
THEOREM HoldersKeep == Spec => []HoldersKeepTheirBlock
<1>1. Cache => HoldersKeepTheirBlock
  BY DEF Cache, Counted, Users, HasBuffer, Kept, HoldersKeepTheirBlock
<1> QED BY <1>1, CacheInvariant, PTL

\* Every locked buffer has exactly one owner that will unlock it.
THEOREM OneOwner == Spec => []LockHasOneOwner
<1>1. ASSUME Cache PROVE LockHasOneOwner
  <2> SUFFICES ASSUME NEW b \in Buffer
               PROVE  Cardinality({i \in Slot : request[i].bh = b})
                      + Cardinality({p \in Procs : pc[p] \in WaitsToRead /\ bh[p] = b})
                      + Cardinality({p \in Procs : pc[p] \in WaitsToWrite /\ SyncBuffer(p) = b})
                      = IF head[b].b_lock THEN 1 ELSE 0
    BY DEF LockHasOneOwner, WaitsToRead, WaitsToWrite
  <2> DEFINE R == {i \in Slot : request[i].bh = b}
             S == {p \in Procs : pc[p] \in WaitsToRead /\ bh[p] = b}
             T == {p \in Procs : pc[p] \in WaitsToWrite /\ SyncBuffer(p) = b}
  <2>e. \A i \in R : request[i] # Empty
    BY DEF Empty, Buffer
  <2>w. /\ \A p \in Procs : Waits(p) /\ Locks(p) = b <=> p \in S \/ p \in T
        /\ S \cap T = {}
    BY DEF Waits, Locks, WaitsToRead, WaitsToWrite
  <2>1. CASE ~head[b].b_lock
    <3>1. R = {} /\ S = {} /\ T = {}
      BY <1>1, <2>e, <2>w, <2>1 DEF Cache, Owned
    <3> HIDE DEF R, S, T
    <3>2. Cardinality(R) = 0 /\ Cardinality(S) = 0 /\ Cardinality(T) = 0
      BY <3>1, FS_EmptySet
    <3> QED BY <2>1, <3>2 DEF R, S, T
  <2>2. CASE head[b].b_lock
    <3>1. CASE \E i \in Slot : request[i].bh = b
      <4>1. PICK i \in R : TRUE
        BY <3>1
      <4>2. R = {i} /\ S = {} /\ T = {}
        BY <1>1, <2>e, <2>w, <4>1 DEF Cache, Owned
      <4> HIDE DEF R, S, T
      <4>3. Cardinality(R) = 1 /\ Cardinality(S) = 0 /\ Cardinality(T) = 0
        BY <4>2, FS_EmptySet, FS_Singleton
      <4> QED BY <2>2, <4>3 DEF R, S, T
    <3>2. CASE ~(\E i \in Slot : request[i].bh = b)
      <4>1. PICK p \in Procs : Waits(p) /\ Locks(p) = b
        BY <1>1, <2>2, <3>2 DEF Cache, Owned
      <4>2. \A q \in S \cup T : q = p
        BY <1>1, <2>w, <4>1 DEF Cache, Owned
      <4>3. R = {} /\ \/ S = {p} /\ T = {}
                      \/ S = {} /\ T = {p}
        BY <2>w, <3>2, <4>1, <4>2
      <4> HIDE DEF R, S, T
      <4>4. Cardinality({}) = 0 /\ Cardinality({p}) = 1
        BY FS_EmptySet, FS_Singleton
      <4>5. Cardinality(R) + Cardinality(S) + Cardinality(T) = 1
        BY <4>3, <4>4
      <4> QED BY <2>2, <4>5 DEF R, S, T
    <3> QED BY <3>1, <3>2
  <2> QED BY <2>1, <2>2
<1> QED BY <1>1, CacheInvariant, PTL

-----------------------------------------------------------------------------
\* The contents of the buffers.  The other tasks' buffers, when at most the
\* buffers they have nothing to do with stop being or become up to date.
LEMMA OthersDirected ==
    ASSUME Cache, Directions, NEW p \in Procs, Others(p), NEW q \in Procs \ {p},
           Waits(q) => head'[Locks(q)].b_uptodate = head[Locks(q)].b_uptodate,
           pc[q] = "use" => head'[bh[q]].b_uptodate = head[bh[q]].b_uptodate
    PROVE  Directed(q)'
<1>1. Directed(q)
  BY DEF Directions
<1>2. \/ pc'[q] = pc[q] /\ bh'[q] = bh[q] /\ nsync'[q] = nsync[q]
      \/ pc'[q] = "getblk"
  BY DEF Others
<1>3. CASE pc'[q] = "getblk"
  BY <1>3 DEF Directed, WaitsToRead, WaitsToWrite
<1>4. CASE pc'[q] = pc[q] /\ bh'[q] = bh[q] /\ nsync'[q] = nsync[q]
  <2>1. SyncBuffer(q)' = SyncBuffer(q)
    BY <1>4 DEF SyncBuffer
  <2>2. pc[q] \in WaitsToRead => Waits(q) /\ Locks(q) = bh[q]
    BY DEF Waits, Locks
  <2>3. pc[q] \in WaitsToWrite => Waits(q) /\ Locks(q) = SyncBuffer(q)
    BY DEF Waits, Locks, WaitsToRead, WaitsToWrite
  <2> QED BY <1>1, <1>4, <2>1, <2>2, <2>3 DEF Directed
<1> QED BY <1>2, <1>3, <1>4

LEMMA UsersBuffer ==
    ASSUME Cache, NEW p \in Procs, pc[p] \in HasBuffer
    PROVE  bh[p] \in Buffer
BY UserCounted DEF Cache

\* No step on data, disk, blocks, dirt or validity.
LEMMA ContentsQuiet ==
    ASSUME Cache, Contents, NEW p \in Procs, Others(p), Directed(p)',
           UNCHANGED <<data, disk, last, request>>,
           \A b \in Buffer : /\ head'[b].b_blocknr = head[b].b_blocknr
                             /\ head'[b].b_uptodate = head[b].b_uptodate
                             /\ head'[b].b_dirt = head[b].b_dirt
    PROVE  Contents'
<1> USE DEF Contents
<1>1. Fresh'
  BY DEF Fresh
<1>2. \A b \in Buffer : ToBeWritten(b)' <=> ToBeWritten(b)
  BY DEF ToBeWritten
<1>3. OnDisk'
  BY <1>2 DEF OnDisk
<1>4. \A q \in Procs : Directed(q)'
  <2>1. ASSUME NEW q \in Procs \ {p} PROVE Directed(q)'
    <3>1. Waits(q) => Locks(q) \in Buffer
      BY LocksType DEF Cache
    <3>2. pc[q] = "use" => bh[q] \in Buffer
      BY UsersBuffer DEF HasBuffer
    <3> QED BY <3>1, <3>2, OthersDirected
  <2> QED BY <2>1
<1>5. \A i \in Slot : request[i] # Empty => request[i].bh \in Buffer
  BY DEF Cache, Requests
<1>6. Directions'
  BY <1>4, <1>5 DEF Directions
<1> QED BY <1>1, <1>3, <1>6

\* A clean, unlocked and unused buffer is taken for another block.
LEMMA ContentsTaken ==
    ASSUME Cache, Contents, NEW p \in Procs, Others(p), Directed(p)',
           UNCHANGED <<data, disk, last, request>>, NEW b \in Buffer, Only(b),
           ~head[b].b_dirt, ~head[b].b_lock, head[b].b_count = 0,
           ~head'[b].b_dirt, ~head'[b].b_uptodate
    PROVE  Contents'
<1> USE DEF Contents
<1>0. \A c \in Buffer \ {b} : head'[c] = head[c]
  BY DEF Only
<1>1. Fresh'
  BY <1>0 DEF Fresh
<1>r. \A i \in Slot : request[i] # Empty => request[i].bh \in Buffer \ {b}
  BY DEF Cache, Requests, Owned
<1>2. ~ToBeWritten(b) /\ \A c \in Buffer \ {b} : ToBeWritten(c)' <=> ToBeWritten(c)
  <2>1. \A i \in Slot : request[i] # [bh |-> b, cmd |-> "WRITE"]
    <3> SUFFICES ASSUME NEW i \in Slot, request[i] = [bh |-> b, cmd |-> "WRITE"] PROVE FALSE
      OBVIOUS
    <3>1. request[i].bh = b /\ request[i].cmd # Empty.cmd
      BY DEF Empty
    <3> QED BY <1>r, <3>1
  <2> QED BY <1>0, <2>1 DEF ToBeWritten
<1>3. OnDisk'
  BY <1>0, <1>2 DEF OnDisk
<1>4. \A q \in Procs : Directed(q)'
  <2>1. ASSUME NEW q \in Procs \ {p} PROVE Directed(q)'
    <3>1. Waits(q) => Locks(q) \in Buffer \ {b}
      BY LocksType DEF Cache, Owned
    <3>2. pc[q] = "use" => bh[q] \in Buffer \ {b}
      BY UserCounted DEF HasBuffer, Cache
    <3> QED BY <1>0, <3>1, <3>2, OthersDirected
  <2> QED BY <2>1
<1>6. Directions'
  BY <1>0, <1>r, <1>4 DEF Directions
<1> QED BY <1>1, <1>3, <1>6

\* A request takes b, to be written if and only if it is up to date.
LEMMA ContentsQueued ==
    ASSUME Cache, Contents, NEW p \in Procs, Others(p), Directed(p)',
           UNCHANGED <<data, disk, last>>, NEW b \in Buffer,
           NEW cmd \in {"READ", "WRITE"}, NEW i \in FreeSlot(cmd), AddRequest(b, cmd, i),
           cmd = "WRITE" <=> head[b].b_uptodate
    PROVE  Contents'
<1> USE DEF Contents
<1>a. /\ head \in [Buffer -> Heads]
      /\ request \in [Slot -> [bh : Buffer \cup {0}, cmd : {"none", "READ", "WRITE"}]]
  BY DEF Cache, Types
<1>b. i \in Slot /\ request[i] = Empty
  BY FreeSlotType
<1>c. /\ request' = [request EXCEPT ![i] = [bh |-> b, cmd |-> cmd]]
      /\ head' = [head EXCEPT ![b].b_lock = TRUE, ![b].b_dirt = FALSE]
  BY DEF AddRequest
<1>d. Only(b) /\ Same(b, head[b]) /\ ~head'[b].b_dirt /\ head'[b].b_uptodate = head[b].b_uptodate
  BY <1>a, <1>c, BufferQueued
<1>0. \A c \in Buffer : /\ head'[c].b_blocknr = head[c].b_blocknr
                        /\ head'[c].b_uptodate = head[c].b_uptodate
                        /\ c # b => head'[c].b_dirt = head[c].b_dirt
  BY <1>d DEF Only, Same
<1>R. /\ request'[i] = [bh |-> b, cmd |-> cmd] /\ \A j \in Slot \ {i} : request'[j] = request[j]
  BY <1>a, <1>b, <1>c
<1>1. Fresh'
  BY <1>0 DEF Fresh
<1>2. ASSUME NEW c \in Buffer, head[c].b_uptodate, ToBeWritten(c) PROVE ToBeWritten(c)'
  <2>1. CASE c = b
    <3>1. request'[i] = [bh |-> b, cmd |-> "WRITE"]
      BY <1>R, <1>2, <2>1
    <3> QED BY <1>b, <2>1, <3>1 DEF ToBeWritten
  <2>2. CASE c # b
    <3>1. [bh |-> c, cmd |-> "WRITE"].cmd # Empty.cmd
      BY DEF Empty
    <3>2. request[i] # [bh |-> c, cmd |-> "WRITE"]
      BY <1>b, <3>1
    <3> QED BY <1>0, <1>R, <1>2, <2>2, <3>2 DEF ToBeWritten
  <2> QED BY <2>1, <2>2
<1>3. OnDisk'
  BY <1>0, <1>2 DEF OnDisk
<1>4. \A q \in Procs : Directed(q)'
  <2>1. ASSUME NEW q \in Procs \ {p} PROVE Directed(q)'
    <3>1. Waits(q) => Locks(q) \in Buffer
      BY LocksType DEF Cache
    <3>2. pc[q] = "use" => bh[q] \in Buffer
      BY UsersBuffer DEF HasBuffer
    <3> QED BY <1>0, <3>1, <3>2, OthersDirected
  <2> QED BY <2>1
<1>5. \A j \in Slot : request[j] # Empty => request[j].bh \in Buffer
  BY DEF Cache, Requests
<1>6. request'[i].bh = b /\ request'[i].cmd = cmd
  BY <1>R
<1>7. \A j \in Slot : request'[j] # Empty =>
         (request'[j].cmd = "WRITE" <=> head'[request'[j].bh].b_uptodate)
  BY <1>0, <1>5, <1>6, <1>R DEF Directions
<1>8. \A c \in Buffer : head'[c].b_dirt => head'[c].b_uptodate
  BY <1>0, <1>d DEF Directions
<1>9. Directions'
  BY <1>4, <1>7, <1>8 DEF Directions
<1> QED BY <1>1, <1>3, <1>9

\* file_write: the buffer of the task's block is dirty and holds what was
\* written last.
LEMMA ContentsWritten ==
    ASSUME Cache, Contents, NEW p \in Procs, Others(p), Directed(p)',
           UNCHANGED <<disk, request>>, pc[p] = "use", NEW v \in Values,
           data' = [data EXCEPT ![bh[p]] = v], last' = [last EXCEPT ![want[p]] = v],
           head' = [head EXCEPT ![bh[p]].b_dirt = TRUE], NEW b, b = bh[p], NEW n, n = want[p]
    PROVE  Contents'
<1> USE DEF Contents
<1>a. /\ head \in [Buffer -> Heads] /\ data \in [Buffer -> Values] /\ last \in [Blocks -> Values]
  BY DEF Cache, Types
<1>b. pc[p] \in HasBuffer /\ b \in Buffer /\ n \in Blocks /\ head[b].b_blocknr = n
  BY UsersBuffer DEF HasBuffer, Cache, Kept, Places, Placed, InUse
<1>c. head[b].b_uptodate
  BY DEF Directions, Directed
<1>d. Only(b) /\ Same(b, head[b]) /\ head'[b].b_dirt /\ head'[b].b_uptodate = head[b].b_uptodate
  BY <1>a, <1>b, BufferDirtied
<1>0. \A c \in Buffer : /\ head'[c].b_blocknr = head[c].b_blocknr
                        /\ head'[c].b_uptodate = head[c].b_uptodate
                        /\ head[c].b_dirt => head'[c].b_dirt
                        /\ c # b => head'[c].b_dirt = head[c].b_dirt
  BY <1>d DEF Only, Same
<1>e. \A c \in Buffer \ {b} : data'[c] = data[c] /\ head[c].b_blocknr # n
  <2>1. \A c \in Buffer \ {b} : head[c].b_blocknr # n
    <3>1. n # NoBlock
      BY <1>b, BufferAssumption
    <3> QED BY <1>b, <3>1 DEF Cache, OneBufferPerBlock
  <2> QED BY <1>a, <2>1
<1>f. data'[b] = v /\ last'[n] = v /\ \A m \in Blocks \ {n} : last'[m] = last[m]
  BY <1>a, <1>b
<1>1. Fresh'
  <2> SUFFICES ASSUME NEW c \in Buffer, head'[c].b_uptodate, head'[c].b_blocknr \in Blocks
               PROVE  data'[c] = last'[head'[c].b_blocknr]
    BY DEF Fresh
  <2>1. CASE c = b
    BY <1>0, <1>b, <1>f, <2>1
  <2>2. CASE c # b
    BY <1>0, <1>e, <1>f, <2>2 DEF Fresh
  <2> QED BY <2>1, <2>2
<1>2. \A c \in Buffer : ToBeWritten(c) => ToBeWritten(c)'
  BY <1>0 DEF ToBeWritten
<1>3. OnDisk'
  <2> SUFFICES ASSUME NEW m \in Blocks, disk[m] # last'[m]
               PROVE  \E c \in Buffer : /\ head'[c].b_blocknr = m /\ head'[c].b_uptodate
                                        /\ ToBeWritten(c)'
    BY DEF OnDisk
  <2>1. CASE m = n
    <3>1. ToBeWritten(b)'
      BY <1>d DEF ToBeWritten
    <3> QED BY <1>0, <1>b, <1>c, <2>1, <3>1
  <2>2. CASE m # n
    BY <1>0, <1>2, <1>f, <2>2 DEF OnDisk
  <2> QED BY <2>1, <2>2
<1>4. \A q \in Procs : Directed(q)'
  <2>1. ASSUME NEW q \in Procs \ {p} PROVE Directed(q)'
    <3>1. Waits(q) => Locks(q) \in Buffer
      BY LocksType DEF Cache
    <3>2. pc[q] = "use" => bh[q] \in Buffer
      BY UsersBuffer DEF HasBuffer
    <3> QED BY <1>0, <3>1, <3>2, OthersDirected
  <2> QED BY <2>1
<1>5. \A i \in Slot : request[i] # Empty => request[i].bh \in Buffer
  BY DEF Cache, Requests
<1>6. Directions'
  BY <1>0, <1>c, <1>4, <1>5 DEF Directions
<1> QED BY <1>1, <1>3, <1>6

\* A request ends well: what was written last has gone to the disk, or has
\* come from it.
LEMMA ContentsEnd ==
    ASSUME Cache, Contents, NEW i \in Slot, end_request(i, TRUE),
           NEW b, b = request[i].bh, NEW n, n = head[b].b_blocknr
    PROVE  Contents'
<1> USE DEF Contents
<1>a. /\ request[i] # Empty /\ request' = [request EXCEPT ![i] = Empty]
      /\ data' = IF request[i].cmd = "READ" THEN [data EXCEPT ![b] = disk[n]] ELSE data
      /\ disk' = IF request[i].cmd = "WRITE" THEN [disk EXCEPT ![n] = data[b]] ELSE disk
      /\ head' = [head EXCEPT ![b].b_uptodate = TRUE, ![b].b_lock = FALSE]
      /\ pc' = WakeRequest /\ UNCHANGED <<last, want, bh, nsync>>
  BY DEF end_request
<1>b. /\ head \in [Buffer -> Heads] /\ data \in [Buffer -> Values] /\ disk \in [Blocks -> Values]
      /\ request \in [Slot -> [bh : Buffer \cup {0}, cmd : {"none", "READ", "WRITE"}]]
  BY DEF Cache, Types
<1>c. /\ b \in Buffer /\ request[i].cmd \in {"READ", "WRITE"}
      /\ request[i].cmd = "READ" => n \in Blocks
      /\ request[i].cmd = "WRITE" <=> head[b].b_uptodate
  BY <1>a, <1>b DEF Cache, Requests, Directions
<1>d. Only(b) /\ Same(b, head[b]) /\ head'[b].b_dirt = head[b].b_dirt /\ head'[b].b_uptodate
  BY <1>a, <1>b, <1>c, BufferUnlocked
<1>0. \A c \in Buffer : /\ head'[c].b_blocknr = head[c].b_blocknr
                        /\ head'[c].b_dirt = head[c].b_dirt
                        /\ c # b => head'[c].b_uptodate = head[c].b_uptodate
  BY <1>d DEF Only, Same
<1>R. request'[i] = Empty /\ \A j \in Slot \ {i} : request'[j] = request[j]
  BY <1>a, <1>b
<1>r. \A j \in Slot \ {i} : request[j] # Empty => request[j].bh \in Buffer /\ request[j].bh # b
  BY <1>a DEF Cache, Requests, Owned
<1>w. ASSUME NEW c \in Buffer \ {b}, ToBeWritten(c) PROVE ToBeWritten(c)'
  <2>1. CASE head[c].b_dirt
    BY <1>0, <2>1 DEF ToBeWritten
  <2>2. CASE \E j \in Slot : request[j] = [bh |-> c, cmd |-> "WRITE"]
    <3>1. PICK j \in Slot : request[j] = [bh |-> c, cmd |-> "WRITE"]
      BY <2>2
    <3>2. request[j].bh = c
      BY <3>1
    <3>3. request'[j] = [bh |-> c, cmd |-> "WRITE"]
      BY <1>R, <3>1, <3>2
    <3> QED BY <3>3 DEF ToBeWritten
  <2> QED BY <1>w, <2>1, <2>2 DEF ToBeWritten
<1>1. ASSUME request[i].cmd = "WRITE" PROVE Fresh' /\ OnDisk'
  <2>0. data' = data /\ head[b].b_uptodate
    BY <1>a, <1>c, <1>1
  <2>1. \A m \in Blocks : disk'[m] = IF m = n THEN data[b] ELSE disk[m]
    BY <1>a, <1>b, <1>1
  <2>2. Fresh'
    BY <1>a, <1>0, <2>0 DEF Fresh
  <2>3. OnDisk'
    <3> SUFFICES ASSUME NEW m \in Blocks, disk'[m] # last[m]
                 PROVE  \E c \in Buffer : /\ head'[c].b_blocknr = m /\ head'[c].b_uptodate
                                          /\ ToBeWritten(c)'
      BY <1>a, ZenonT(40) DEF OnDisk
    <3>1. m # n
      BY <1>c, <2>0, <2>1 DEF Fresh
    <3>2. PICK c \in Buffer : head[c].b_blocknr = m /\ head[c].b_uptodate /\ ToBeWritten(c)
      BY <2>1, <3>1 DEF OnDisk
    <3>3. c # b
      BY <3>1, <3>2
    <3> QED BY <1>0, <1>w, <3>2, <3>3
  <2> QED BY <2>2, <2>3
<1>2. ASSUME request[i].cmd = "READ" PROVE Fresh' /\ OnDisk'
  <2>0. last' = last /\ disk' = disk /\ ~head[b].b_uptodate /\ n \in Blocks /\ n # NoBlock
    BY <1>a, <1>c, <1>2, BufferAssumption
  <2>1. \A c \in Buffer : data'[c] = IF c = b THEN disk[n] ELSE data[c]
    BY <1>a, <1>b, <1>c, <1>2
  <2>2. disk[n] = last[n]
    BY <1>c, <2>0 DEF OnDisk, Cache, OneBufferPerBlock
  <2>3. Fresh'
    <3> SUFFICES ASSUME NEW c \in Buffer, head'[c].b_uptodate, head'[c].b_blocknr \in Blocks
                 PROVE  data'[c] = last[head[c].b_blocknr]
      BY <1>0, <2>0 DEF Fresh
    <3>1. CASE c = b
      BY <2>1, <2>2, <3>1
    <3>2. CASE c # b
      BY <1>0, <2>1, <3>2 DEF Fresh
    <3> QED BY <3>1, <3>2
  <2>4. OnDisk'
    <3> SUFFICES ASSUME NEW m \in Blocks, disk[m] # last[m]
                 PROVE  \E c \in Buffer : /\ head'[c].b_blocknr = m /\ head'[c].b_uptodate
                                          /\ ToBeWritten(c)'
      BY <2>0 DEF OnDisk
    <3>1. PICK c \in Buffer : head[c].b_blocknr = m /\ head[c].b_uptodate /\ ToBeWritten(c)
      BY DEF OnDisk
    <3>2. c # b
      BY <2>0, <3>1
    <3> QED BY <1>0, <1>w, <3>1, <3>2
  <2> QED BY <2>3, <2>4
<1>3. Fresh' /\ OnDisk'
  BY <1>c, <1>1, <1>2
<1>4. ASSUME NEW q \in Procs PROVE Directed(q)'
  <2>1. \/ pc[q] = "sync_sleep" /\ pc'[q] = "sync_request"
        \/ pc[q] = "read_sleep" /\ pc'[q] = "read_request"
        \/ pc'[q] = pc[q]
    BY <1>a DEF WakeRequest
  <2>2. /\ pc'[q] \in WaitsToRead => pc[q] \in WaitsToRead
        /\ pc'[q] \in WaitsToWrite => pc[q] \in WaitsToWrite
        /\ pc'[q] = "use" => pc[q] = "use"
        /\ pc'[q] # "copy"
    BY <2>1 DEF WaitsToRead, WaitsToWrite, Directions, Directed
  <2>3. Waits(q) => Locks(q) \in Buffer /\ Locks(q) # b
    BY <1>a, LocksType DEF Cache, Owned
  <2>4. pc[q] \in WaitsToRead => bh[q] \in Buffer /\ bh[q] # b
    BY <2>3 DEF Waits, Locks
  <2>5. pc[q] \in WaitsToWrite => SyncBuffer(q) \in Buffer /\ SyncBuffer(q) # b
    BY <2>3 DEF Waits, Locks, WaitsToRead, WaitsToWrite
  <2>6. pc[q] = "use" => bh[q] \in Buffer
    BY UsersBuffer DEF HasBuffer
  <2>7. bh'[q] = bh[q] /\ SyncBuffer(q)' = SyncBuffer(q)
    BY <1>a DEF SyncBuffer
  <2>8. Directed(q)
    BY DEF Directions
  <2> QED BY <1>0, <1>d, <2>2, <2>4, <2>5, <2>6, <2>7, <2>8 DEF Directed
<1>5. Directions'
  <2>1. \A c \in Buffer : head'[c].b_dirt => head'[c].b_uptodate
    BY <1>0, <1>d DEF Directions
  <2>2. \A j \in Slot : request'[j] # Empty =>
           (request'[j].cmd = "WRITE" <=> head'[request'[j].bh].b_uptodate)
    BY <1>0, <1>R, <1>r DEF Directions
  <2> QED BY <1>4, <2>1, <2>2 DEF Directions
<1> QED BY <1>3, <1>5

\* A step of p is p's alone.
LEMMA StepOthers ==
    ASSUME Cache, NEW p \in Procs,
           starts(p) \/ getblk(p) \/ write_out(p) \/ bread(p) \/ access(p)
    PROVE  Others(p)
<1>1. Tasks
  BY TasksType DEF Cache
<1>2. CASE starts(p)
  BY <1>1, <1>2 DEF starts, Goto, Others, Tasks
<1>3. CASE getblk_finds(p)
  BY <1>1, <1>3 DEF getblk_finds, Goto, Others, Tasks
<1>4. CASE hash_wait(p)
  BY <1>1, <1>4 DEF hash_wait, Goto, Others, Tasks
<1>5. CASE getblk_chooses(p)
  BY <1>1, <1>5 DEF getblk_chooses, Goto, Others, Tasks
<1>6. CASE victim(p)
  BY <1>1, <1>6 DEF victim, Goto, Others, Tasks
<1>7. CASE sync(p) \/ sync_request(p)
  BY <1>1, <1>7 DEF sync, sync_request, Goto, Others, Tasks
<1>8. CASE bread(p)
  BY <1>1, <1>8 DEF bread, got, read, read_request, read_wait, Goto, Others, Tasks
<1>9. CASE use(p) \/ copy(p)
  BY <1>1, <1>9 DEF use, copy, Goto, Others, Tasks
<1>10. CASE brelse(p)
  BY <1>1, <1>10 DEF brelse, Others, Tasks
<1> QED BY <1>2, <1>3, <1>4, <1>5, <1>6, <1>7, <1>8, <1>9, <1>10 DEF getblk, write_out, access

\* Where a task is directed to nothing.
LEMMA Undirected ==
    ASSUME NEW p \in Procs, pc'[p] \in Label \ (WaitsToRead \cup WaitsToWrite \cup {"use", "copy"})
    PROVE  Directed(p)'
BY DEF Directed

LEMMA ContentsGetblk ==
    ASSUME Cache, Contents, NEW p \in Procs, starts(p) \/ getblk(p) \/ brelse(p)
    PROVE  Contents'
<1>1. Others(p) /\ Tasks /\ head \in [Buffer -> Heads]
  BY StepOthers, TasksType DEF access, Cache, Types
<1>2. CASE starts(p)
  <2>1. pc'[p] \in {"getblk", "sync"} /\ UNCHANGED <<head, data, disk, last, request>>
    BY <1>1, <1>2 DEF starts, Goto, Tasks
  <2>2. Directed(p)'
    BY <2>1, Undirected DEF Label, WaitsToRead, WaitsToWrite
  <2> QED BY <1>1, <2>1, <2>2, ContentsQuiet
<1>3. CASE getblk_finds(p)
  <2>1. PICK b \in find_buffer(want[p]) : head' = [head EXCEPT ![b].b_count = @ + 1]
    BY <1>3 DEF getblk_finds
  <2>2. b \in Buffer
    BY <2>1 DEF find_buffer
  <2>3. /\ Only(b) /\ head'[b].b_blocknr = head[b].b_blocknr
        /\ head'[b].b_dirt = head[b].b_dirt /\ head'[b].b_uptodate = head[b].b_uptodate
    BY <1>1, <2>1, <2>2, CountUp
  <2>4. pc'[p] = "hash_wait" /\ UNCHANGED <<data, disk, last, request>>
    BY <1>1, <1>3 DEF getblk_finds, Goto, Tasks
  <2>5. Directed(p)'
    BY <2>4, Undirected DEF Label, WaitsToRead, WaitsToWrite
  <2>6. \A c \in Buffer : /\ head'[c].b_blocknr = head[c].b_blocknr
                          /\ head'[c].b_uptodate = head[c].b_uptodate
                          /\ head'[c].b_dirt = head[c].b_dirt
    BY <2>3 DEF Only
  <2> QED BY <1>1, <2>4, <2>5, <2>6, ContentsQuiet
<1>4. CASE hash_wait(p)
  <2>1. pc[p] \in HasBuffer
    BY <1>4 DEF hash_wait, HasBuffer
  <2>2. head[bh[p]].b_blocknr = want[p]
    BY <2>1 DEF Cache, Kept
  <2>3. pc'[p] = "got" /\ UNCHANGED <<head, data, disk, last, request>>
    BY <1>1, <1>4, <2>2 DEF hash_wait, Goto, Tasks
  <2>4. Directed(p)'
    BY <2>3, Undirected DEF Label, WaitsToRead, WaitsToWrite
  <2> QED BY <1>1, <2>3, <2>4, ContentsQuiet
<1>5. CASE getblk_chooses(p)
  <2>1. pc'[p] \in {"no_buffer", "victim"} /\ UNCHANGED <<head, data, disk, last, request>>
    BY <1>1, <1>5 DEF getblk_chooses, Goto, Tasks
  <2>2. Directed(p)'
    BY <2>1, Undirected DEF Label, WaitsToRead, WaitsToWrite
  <2> QED BY <1>1, <2>1, <2>2, ContentsQuiet
<1>6. CASE victim(p)
  <2>1. pc'[p] \in {"getblk", "sync", "got"} /\ UNCHANGED <<data, disk, last, request>>
    BY <1>1, <1>6 DEF victim, Goto, Tasks
  <2>2. Directed(p)'
    BY <2>1, Undirected DEF Label, WaitsToRead, WaitsToWrite
  <2>3. CASE head' = head
    BY <1>1, <2>1, <2>2, <2>3, ContentsQuiet
  <2>4. CASE head' # head
    <3>1. PICK b \in Buffer : b = bh[p]
      BY <1>6 DEF victim, Cache, Places, Placed, InUse
    <3>2. /\ ~head[b].b_lock /\ ~head[b].b_dirt /\ head[b].b_count = 0
          /\ head' = [head EXCEPT ![b] = [Head0 EXCEPT !.b_blocknr = want[p], !.b_count = 1]]
      BY <1>6, <2>4, <3>1 DEF victim, Taken, MustWrite
    <3>3. want[p] \in Blocks
      BY <1>6 DEF victim, Cache, Places, Placed, InUse
    <3>4. Only(b) /\ ~head'[b].b_dirt /\ ~head'[b].b_uptodate
      BY <1>1, <3>2, <3>3, BufferTaken
    <3> QED BY <1>1, <2>1, <2>2, <3>2, <3>4, ContentsTaken
  <2> QED BY <2>3, <2>4
<1>7. CASE brelse(p)
  <2>1. /\ pc[p] = "brelse" /\ head' = [head EXCEPT ![bh[p]].b_count = @ - 1]
        /\ pc'[p] = "idle" /\ UNCHANGED <<data, disk, last, request>>
    BY <1>7 DEF brelse
  <2>2. pc[p] \in HasBuffer
    BY <2>1 DEF HasBuffer
  <2>3. PICK b \in Buffer : b = bh[p] /\ head[b].b_count # 0
    BY <2>2, UserCounted DEF Cache
  <2>4. /\ Only(b) /\ head'[b].b_blocknr = head[b].b_blocknr
        /\ head'[b].b_dirt = head[b].b_dirt /\ head'[b].b_uptodate = head[b].b_uptodate
    BY <1>1, <2>1, <2>3, CountDown
  <2>5. \A c \in Buffer : /\ head'[c].b_blocknr = head[c].b_blocknr
                          /\ head'[c].b_uptodate = head[c].b_uptodate
                          /\ head'[c].b_dirt = head[c].b_dirt
    BY <2>4 DEF Only
  <2>6. Directed(p)'
    BY <2>1, Undirected DEF Label, WaitsToRead, WaitsToWrite
  <2> QED BY <1>1, <2>1, <2>5, <2>6, ContentsQuiet
<1> QED BY <1>2, <1>3, <1>4, <1>5, <1>6, <1>7 DEF getblk

\* Sleeping for a request with b locked.
LEMMA ContentsLocked ==
    ASSUME Cache, Contents, NEW p \in Procs, Others(p), Directed(p)',
           UNCHANGED <<data, disk, last>>, NEW b \in Buffer, NEW cmd, NoRequest(b, cmd)
    PROVE  Contents'
<1>1. head \in [Buffer -> Heads]
  BY DEF Cache, Types
<1>2. head' = [head EXCEPT ![b].b_lock = TRUE] /\ request' = request
  BY DEF NoRequest
<1>3. /\ Only(b) /\ Same(b, head[b]) /\ head'[b].b_dirt = head[b].b_dirt
      /\ head'[b].b_uptodate = head[b].b_uptodate
  BY <1>1, <1>2, BufferLocked
<1>4. \A c \in Buffer : /\ head'[c].b_blocknr = head[c].b_blocknr
                        /\ head'[c].b_uptodate = head[c].b_uptodate
                        /\ head'[c].b_dirt = head[c].b_dirt
  BY <1>3 DEF Only, Same
<1> QED BY <1>2, <1>4, ContentsQuiet

\* A request does not change what is up to date.
LEMMA RequestKeeps ==
    ASSUME Cache, NEW b \in Buffer, NEW cmd,
           NoRequest(b, cmd) \/ \E i \in Slot : AddRequest(b, cmd, i)
    PROVE  head'[b].b_uptodate = head[b].b_uptodate
<1>1. head \in [Buffer -> Heads]
  BY DEF Cache, Types
<1>2. CASE NoRequest(b, cmd)
  BY <1>1, <1>2, BufferLocked DEF NoRequest
<1>3. CASE \E i \in Slot : AddRequest(b, cmd, i)
  BY <1>1, <1>3, BufferQueued DEF AddRequest
<1> QED BY <1>2, <1>3

LEMMA ContentsSync ==
    ASSUME Cache, Contents, NEW p \in Procs, sync(p) \/ sync_request(p),
           NEW b, b = SyncBuffer(p)
    PROVE  Contents'
<1> DEFINE Ahead == /\ pc' = [pc EXCEPT ![p] = AfterSync(p)]
                    /\ nsync' = [nsync EXCEPT ![p] = IF AfterSync(p) = "sync" THEN @ + 1 ELSE 0]
           Asleep == pc' = [pc EXCEPT ![p] = "sync_sleep"] /\ nsync' = nsync
<1>1. /\ UNCHANGED <<data, free_list, disk, last, want, mode, bh, ops>>
      /\ \/ pc[p] = "sync"
         \/ pc[p] = "sync_request"
      /\ \/ pc[p] = "sync" /\ Ahead /\ UNCHANGED <<head, request>>
         \/ /\ head[b].b_dirt \/ pc[p] = "sync_request"
            /\ \/ (\E i \in FreeSlot("WRITE") : AddRequest(b, "WRITE", i)) /\ Ahead
               \/ NoRequest(b, "WRITE") /\ Asleep
  BY DEF sync, sync_request, Goto
<1>2. pc[p] \in Syncing /\ (Ahead \/ Asleep)
  BY <1>1 DEF Syncing
<1>3. /\ Others(p) /\ pc'[p] \in {"sync", "idle", "victim", "sync_sleep"} /\ b \in Buffer
      /\ Waits(p)' <=> pc' = [pc EXCEPT ![p] = "sync_sleep"]
      /\ Waits(p)' => Locks(p)' = b
  BY <1>1, <1>2, SyncGoesOn
<1>4. pc \in [Procs -> Label] /\ AfterSync(p) \in {"sync", "idle", "victim"}
  BY TasksType DEF Tasks, Cache, AfterSync
<1>5. Ahead => Directed(p)'
  <2>1. Ahead => pc'[p] \in {"sync", "idle", "victim"}
    BY <1>4
  <2> QED BY <2>1, Undirected DEF Label, WaitsToRead, WaitsToWrite
<1>6. head[b].b_dirt \/ pc[p] = "sync_request" => head[b].b_uptodate
  BY <1>3 DEF Contents, Directions, Directed, WaitsToWrite
<1>7. CASE pc[p] = "sync" /\ Ahead /\ UNCHANGED <<head, request>>
  BY <1>1, <1>3, <1>5, <1>7, ContentsQuiet
<1>8. CASE /\ head[b].b_dirt \/ pc[p] = "sync_request"
           /\ (\E i \in FreeSlot("WRITE") : AddRequest(b, "WRITE", i)) /\ Ahead
  <2>1. PICK i \in FreeSlot("WRITE") : AddRequest(b, "WRITE", i)
    BY <1>8
  <2> QED BY <1>1, <1>3, <1>5, <1>6, <1>8, <2>1, ContentsQueued
<1>9. CASE (head[b].b_dirt \/ pc[p] = "sync_request") /\ NoRequest(b, "WRITE") /\ Asleep
  <2>1. head'[b].b_uptodate
    BY <1>3, <1>6, <1>9, RequestKeeps
  <2>2. pc'[p] = "sync_sleep" /\ SyncBuffer(p)' = b
    BY <1>4, <1>9 DEF SyncBuffer
  <2>3. Directed(p)'
    BY <2>1, <2>2 DEF Directed, WaitsToRead, WaitsToWrite
  <2> QED BY <1>1, <1>3, <1>9, <2>3, ContentsLocked
<1> QED BY <1>1, <1>7, <1>8, <1>9

LEMMA ContentsBread ==
    ASSUME Cache, Contents, NEW p \in Procs, bread(p), NEW b, b = bh[p]
    PROVE  Contents'
<1>1. Others(p) /\ pc \in [Procs -> Label]
  BY StepOthers, TasksType DEF Cache, Tasks
<1>b. b \in Buffer
  BY UsersBuffer DEF bread, got, read, read_request, read_wait, HasBuffer
<1>2. CASE got(p) \/ read_wait(p)
  <2>1. /\ UNCHANGED <<head, data, disk, last, request, bh>>
        /\ \/ pc'[p] = "use" /\ head[b].b_uptodate
           \/ pc'[p] \in {"read", "brelse"}
    BY <1>1, <1>2 DEF got, read_wait, Goto
  <2>2. Directed(p)'
    BY <2>1 DEF Directed, WaitsToRead, WaitsToWrite
  <2> QED BY <1>1, <2>1, <2>2, ContentsQuiet
<1>3. CASE read(p) \/ read_request(p)
  <2>1. /\ UNCHANGED <<data, disk, last, bh>>
        /\ \/ pc[p] = "read" /\ pc'[p] = "read_wait" /\ UNCHANGED <<head, request>>
           \/ /\ ~head[b].b_uptodate \/ pc[p] = "read_request"
              /\ \/ /\ \E i \in FreeSlot("READ") : AddRequest(b, "READ", i)
                    /\ pc'[p] = "read_wait"
                 \/ NoRequest(b, "READ") /\ pc'[p] = "read_sleep"
    BY <1>1, <1>3 DEF read, read_request, Goto
  <2>2. pc'[p] = "read_wait" => Directed(p)'
    BY Undirected DEF Label, WaitsToRead, WaitsToWrite
  <2>3. ~head[b].b_uptodate \/ pc[p] = "read_request" => ~head[b].b_uptodate
    BY DEF Contents, Directions, Directed, WaitsToRead
  <2>4. CASE pc'[p] = "read_wait" /\ UNCHANGED <<head, request>>
    BY <1>1, <2>1, <2>2, <2>4, ContentsQuiet
  <2>5. CASE /\ ~head[b].b_uptodate \/ pc[p] = "read_request"
             /\ (\E i \in FreeSlot("READ") : AddRequest(b, "READ", i)) /\ pc'[p] = "read_wait"
    <3>1. PICK i \in FreeSlot("READ") : AddRequest(b, "READ", i)
      BY <2>5
    <3> QED BY <1>1, <1>b, <2>1, <2>2, <2>3, <2>5, <3>1, ContentsQueued
  <2>6. CASE /\ ~head[b].b_uptodate \/ pc[p] = "read_request"
             /\ NoRequest(b, "READ") /\ pc'[p] = "read_sleep"
    <3>1. ~head'[b].b_uptodate
      BY <1>b, <2>3, <2>6, RequestKeeps
    <3>2. Directed(p)'
      BY <2>1, <2>6, <3>1 DEF Directed, WaitsToRead, WaitsToWrite
    <3> QED BY <1>1, <1>b, <2>1, <2>6, <3>2, ContentsLocked
  <2> QED BY <2>1, <2>4, <2>5, <2>6
<1> QED BY <1>2, <1>3 DEF bread

LEMMA ContentsUse ==
    ASSUME ~CopyFaults, Cache, Contents, NEW p \in Procs, use(p) \/ copy(p)
    PROVE  Contents'
<1>1. Others(p) /\ pc \in [Procs -> Label]
  BY StepOthers, TasksType DEF Cache, Tasks, access
<1>2. pc[p] # "copy"
  BY DEF Contents, Directions, Directed
<1>3. /\ pc[p] = "use" /\ pc'[p] = "brelse" /\ UNCHANGED <<disk, request>>
      /\ \/ UNCHANGED <<head, data, last>>
         \/ /\ head' = [head EXCEPT ![bh[p]].b_dirt = TRUE]
            /\ \E v \in Values : /\ data' = [data EXCEPT ![bh[p]] = v]
                                 /\ last' = [last EXCEPT ![want[p]] = v]
  BY <1>1, <1>2 DEF use, copy, Goto
<1>4. Directed(p)'
  BY <1>3, Undirected DEF Label, WaitsToRead, WaitsToWrite
<1>5. CASE UNCHANGED <<head, data, last>>
  BY <1>1, <1>3, <1>4, <1>5, ContentsQuiet
<1>6. CASE /\ head' = [head EXCEPT ![bh[p]].b_dirt = TRUE]
           /\ \E v \in Values : /\ data' = [data EXCEPT ![bh[p]] = v]
                                /\ last' = [last EXCEPT ![want[p]] = v]
  BY <1>1, <1>3, <1>4, <1>6, ContentsWritten
<1> QED BY <1>3, <1>5, <1>6

LEMMA ContentsInit == Init => Contents
<1> SUFFICES ASSUME Init PROVE Contents
  OBVIOUS
<1>1. Fresh
  BY DEF Init, Fresh, Head0
<1>2. OnDisk
  BY DEF Init, OnDisk
<1>3. Directions
  BY DEF Init, Directions, Directed, WaitsToRead, WaitsToWrite, Head0
<1> QED BY <1>1, <1>2, <1>3 DEF Contents

LEMMA ContentsNext ==
    ASSUME ~IOErrors, ~CopyFaults
    PROVE  Cache /\ Contents /\ [Next]_vars => Contents'
<1> SUFFICES ASSUME Cache, Contents, [Next]_vars PROVE Contents'
  OBVIOUS
<1>1. ASSUME NEW p \in Procs, Step(p) PROVE Contents'
  <2>1. CASE starts(p) \/ getblk(p) \/ brelse(p)
    BY <2>1, ContentsGetblk
  <2>2. CASE sync(p) \/ sync_request(p)
    BY <2>2, ContentsSync
  <2>3. CASE bread(p)
    BY <2>3, ContentsBread
  <2>4. CASE use(p) \/ copy(p)
    BY <2>4, ContentsUse
  <2> QED BY <1>1, <2>1, <2>2, <2>3, <2>4 DEF Step, write_out, access
<1>2. CASE UNCHANGED <<head, data, free_list, request, disk, last, pc, want, mode, bh, nsync, ops>>
  <2>1. Fresh' /\ OnDisk'
    BY <1>2 DEF Contents, Fresh, OnDisk, ToBeWritten
  <2>2. \A q \in Procs : Directed(q)'
    BY <1>2 DEF Contents, Directions, Directed, SyncBuffer
  <2> QED BY <1>2, <2>1, <2>2 DEF Contents, Directions
<1>3. ASSUME NEW p \in Procs, sleep_on_lock(p) PROVE Contents'
  BY <1>2, <1>3 DEF sleep_on_lock
<1>4. CASE disk_intr
  <2>1. PICK i \in Slot : end_request(i, TRUE)
    BY <1>4 DEF disk_intr
  <2> QED BY <2>1, ContentsEnd
<1>5. CASE UNCHANGED vars
  BY <1>2, <1>5 DEF vars
<1> QED BY <1>1, <1>3, <1>4, <1>5 DEF Next, Done

\* If the disk does not fail and copying from the program does not sleep, a
\* read of a block gives what was last written to it, whatever getblk
\* evicts, bread reads again and sync writes out in between.
THEOREM NoWriteLost ==
    ASSUME ~IOErrors, ~CopyFaults
    PROVE  Spec => []NothingIsLost
<1>1. ASSUME Cache, Contents PROVE NothingIsLost
  <2> SUFFICES ASSUME NEW n \in Blocks PROVE Current(n) = {last[n]}
    BY DEF NothingIsLost
  <2>1. \A x \in Readable(n) : x = last[n]
    BY <1>1 DEF Readable, find_buffer, Contents, Fresh
  <2>2. Readable(n) = {} => disk[n] = last[n]
    BY <1>1 DEF Readable, find_buffer, Contents, OnDisk
  <2> QED BY <2>1, <2>2 DEF Current
<1>2. Init => Contents
  BY ContentsInit
<1>3. Cache /\ Contents /\ [Next]_vars => Contents'
  BY ContentsNext
<1>4. Cache /\ Contents => NothingIsLost
  BY <1>1
<1> QED BY <1>2, <1>3, <1>4, CacheInvariant, PTL DEF Spec
=============================================================================
