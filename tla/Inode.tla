-------------------------------- MODULE Inode --------------------------------
(***************************************************************************)
(* The inode table (fs/inode.c), the bitmaps (fs/bitmap.c) and truncate    *)
(* (fs/truncate.c) of one mounted device, used by several processes.       *)
(*                                                                         *)
(* The kernel is not preempted: a process keeps the CPU until it sleeps,   *)
(* which it may do wherever it reads or gets a block and where it waits    *)
(* for an inode's lock.  `running' is the process that has not slept yet.  *)
(* A process's kernel stack is a sequence of frames, the innermost first;  *)
(* a frame names the place in the code it goes on from and its locals.     *)
(* The buffer cache (module BufferCache) is a map from blocks to contents. *)
(***************************************************************************)
EXTENDS Integers, Sequences, FiniteSets, FiniteSetsExt, SequencesExt

CONSTANTS Procs, NoProc,
          Slots, NoSlot,  \* the entries of inode_table
          NINODES,        \* inodes on the device
          NZONES,         \* data blocks on the device
          DIRECT,         \* direct zones of an inode (7 in the code)
          PER_BLOCK,      \* entries of a directory or indirect block (64, 512)
          NoName          \* the name in a cleared directory entry

ASSUME InodeAssumption ==
    /\ NoProc \notin Procs /\ NoSlot \notin Slots /\ Slots # {}
    /\ NINODES \in Nat \ {0} /\ NZONES \in Nat \ {0}
    /\ DIRECT \in Nat \ {0} /\ PER_BLOCK \in Nat \ {0, 1}

ROOT_INO == 1
Inums == 1 .. NINODES
Zones == 1 .. NZONES

VARIABLES
    running,  \* the process that has the CPU and has not slept since
    stack,    \* kernel stacks
    table,    \* inode_table
    disk,     \* the inode blocks of the device
    imap,     \* inodes whose bit is set
    zmap,     \* zones whose bit is set
    block,    \* contents of the zones, as the buffer cache has them
    readErrors, \* the device is worn: bread may fail
    panic,    \* the message panic() was called with, "": it was not
    race      \* history: the unprotected windows that another process hit

inodeVars == <<running, stack, table, disk, imap, zmap, block, panic, race, readErrors>>

NoZones == [k \in 0 .. DIRECT + 1 |-> 0]
NoInode == [num |-> 0, count |-> 0, dirt |-> FALSE, lock |-> FALSE,
            mode |-> "none", nlinks |-> 0, size |-> 0, zone |-> NoZones]
Cleared == [c \in 0 .. PER_BLOCK - 1 |-> [name |-> NoName, nr |-> 0]]
NoEntry == <<0, 0>>   \* a directory entry is a place: a zone and a cell of it
Entry(de) == block[de[1]][de[2]]
Byte(n) == n % 256   \* i_nlinks is an unsigned char
DInode(i) == [mode |-> i.mode, nlinks |-> i.nlinks, size |-> i.size, zone |-> i.zone]

-----------------------------------------------------------------------------
\* Frames and the CPU.  r is where a frame finds what it called for returned.
With(f, g) == [x \in DOMAIN f \cup DOMAIN g |-> IF x \in DOMAIN f THEN f[x] ELSE g[x]]
F(pc, locals) == With([pc |-> pc, r |-> 0], locals)
Top(p) == Head(stack[p])
MayRun(p) == running \in {p, NoProc} /\ panic = "" /\ stack[p] # <<>>
At(p, pc) == Top(p).pc = pc   \* for a process that MayRun

\* The frame is replaced by others, to be run in this order.
Becomes(p, frames) == stack' = [stack EXCEPT ![p] = frames \o Tail(@)]
Return(p, v) ==
    stack' = [stack EXCEPT ![p] =
                IF Len(@) = 1 THEN <<>>
                ELSE <<[@[2] EXCEPT !.r = v]>> \o SubSeq(@, 3, Len(@))]
Keep(p) == running' = IF stack'[p] = <<>> THEN NoProc ELSE p
Sleep == running' = NoProc
SamePlace == UNCHANGED <<table, disk, imap, zmap, block, panic, race>>
Panic(msg) == /\ panic' = msg /\ running' = NoProc
              /\ UNCHANGED <<stack, table, disk, imap, zmap, block, race>>

\* Some process has the buffer of zone z: it reads it, or still holds
\* it for the directory entry it looked up.
Held(z) == \E q \in Procs : \E i \in DOMAIN stack[q] :
                 "bh" \in DOMAIN stack[q][i] /\ stack[q][i].bh = z

Hit(w) == race' = race \cup {w}
HitIf(w, cond) == IF cond THEN Hit(w) ELSE UNCHANGED race

-----------------------------------------------------------------------------
\* wait_on_inode, lock_inode: with the lock taken the process sleeps until
\* unlock_inode.  The frames that wait for the lock of slot s:
WaitsFor(p, s) ==
    \/ /\ Top(p).pc \in {"iput", "iput_repeat", "write_inode"}
       /\ Top(p).s = s
    \/ Top(p).pc = "iget" /\ table[s].num = Top(p).nr
wait_on_inode(p) ==
    /\ running = p
    /\ \E s \in Slots : table[s].lock /\ WaitsFor(p, s)
    /\ Sleep /\ UNCHANGED stack /\ SamePlace
Unlocked(s) == ~table[s].lock

WriteInode(s) == F("write_inode", [s |-> s])
write_inode(p) ==
    /\ At(p, "write_inode")
    /\ LET s == Top(p).s IN
       /\ Unlocked(s)
       /\ IF ~table[s].dirt \/ table[s].num = 0
          THEN Return(p, 0) /\ Keep(p) /\ UNCHANGED table
          ELSE /\ table' = [table EXCEPT ![s].lock = TRUE]
               /\ Becomes(p, <<F("write_copy", [s |-> s])>>) /\ Sleep
    /\ UNCHANGED <<disk, imap, zmap, block, panic, race>>

\* Once the block was read (the inodes are in one).  An inode that free_inode
\* cleared meanwhile has number 0, and the place before the first is the last.
write_copy(p) ==
    /\ At(p, "write_copy")
    /\ LET s == Top(p).s
           place == IF table[s].num = 0 THEN NINODES ELSE table[s].num
       IN
       /\ disk' = [disk EXCEPT ![place] = DInode(table[s])]
       /\ table' = [table EXCEPT ![s].dirt = FALSE, ![s].lock = FALSE]
    /\ Return(p, 0) /\ Keep(p)
    /\ UNCHANGED <<imap, zmap, block, panic, race>>

\* read_inode, after the block was read
read_inode(p) ==
    /\ At(p, "read_inode")
    /\ LET s == Top(p).s
           d == disk[table[s].num]
       IN
       /\ table' = [table EXCEPT ![s] = [@ EXCEPT !.lock = FALSE, !.mode = d.mode,
                       !.nlinks = d.nlinks, !.size = d.size, !.zone = d.zone]]
       /\ Return(p, s)
    /\ Keep(p)
    /\ UNCHANGED <<disk, imap, zmap, block, panic, race>>

inode_block_unreadable(p) ==
    /\ readErrors /\ (At(p, "read_inode") \/ At(p, "write_copy"))
    /\ Panic("unable to read i-node block")

-----------------------------------------------------------------------------
\* get_empty_inode: any unused inode, which abstracts where last_inode stands;
\* those that were never used are alike, and one stands for them all.  An
\* unused inode is clean (UnusedIsClean), so that the code's loop that writes
\* back a dirty one is never entered and left out.
Unused == {s \in Slots : table[s].count = 0}
Distinct(set) == LET new == {s \in set : table[s] = NoInode}
                 IN  IF new = {} THEN set ELSE (set \ new) \cup {CHOOSE s \in new : TRUE}

get_empty_inode(p) ==
    /\ At(p, "get_empty_inode")
    /\ \/ Unused = {} /\ Panic("No free inodes in mem")
       \/ \E s \in Distinct(Unused) :
             /\ table' = [table EXCEPT ![s] = [NoInode EXCEPT !.count = 1]]
             /\ Return(p, s) /\ Keep(p)
             /\ UNCHANGED <<disk, imap, zmap, block, panic, race>>

\* The number that was read from directory entry de is no longer there, is no
\* longer in use, or is about to be freed: the entry was removed while the
\* process slept.
Dead(de, nr) ==
    \/ Entry(de).nr # nr
    \/ nr \notin imap
    \/ \E s \in Slots : table[s].num = nr /\ table[s].nlinks = 0 /\ Unlocked(s)
    \/ (\A s \in Slots : table[s].num # nr) /\ disk[nr].nlinks = 0

\* Mutant: an inode that is in the table but unused is read again.
iget_rereads(p) ==
    /\ At(p, "iget")
    /\ LET nr == Top(p).nr
           empty == Top(p).r
           found == {s \in Slots : table[s].num = nr /\ table[s].count > 0}
       IN /\ \A s \in found : Unlocked(s)
          /\ \/ /\ \E s \in found : Return(p, s) /\
                     table' = [table EXCEPT ![s].count = @ + 1, ![empty].count = @ - 1]
                /\ Keep(p)
             \/ /\ found = {} /\ Sleep
                /\ table' = [table EXCEPT ![empty].num = nr, ![empty].lock = TRUE]
                /\ Becomes(p, <<F("read_inode", [s |-> empty])>>)
          /\ HitIf("dead inode", Dead(Top(p).de, nr))
    /\ UNCHANGED <<disk, imap, zmap, block, panic>>

\* iget, once get_empty_inode has returned: the table is searched, again after
\* every wait; the empty inode is given back if the search succeeds, and
\* otherwise used at once.
iget(p) ==
    /\ At(p, "iget")
    /\ LET nr == Top(p).nr
           empty == Top(p).r
           found == {s \in Slots : table[s].num = nr}
       IN /\ \A s \in found : Unlocked(s)
          /\ \/ /\ \E s \in found : Return(p, s) /\
                     table' = [table EXCEPT ![s].count = @ + 1, ![empty].count = @ - 1]
                /\ Keep(p)
             \/ /\ found = {} /\ Sleep
                /\ table' = [table EXCEPT ![empty].num = nr, ![empty].lock = TRUE]
                /\ Becomes(p, <<F("read_inode", [s |-> empty])>>)
          /\ HitIf("dead inode", Dead(Top(p).de, nr))
    /\ UNCHANGED <<disk, imap, zmap, block, panic>>
Iget(de) == <<F("get_empty_inode", <<>>), F("iget", [nr |-> Entry(de).nr, de |-> de])>>

-----------------------------------------------------------------------------
Truncate(s) == F("truncate", [s |-> s, k |-> -1])
\* iput(s), then v for the caller
Iput(s, v) == F("iput", [s |-> s, v |-> v])

\* Mutant: a dirty inode is given back without being written.
IputRepeat_unwritten(p, f) ==
    LET i == table[f.s] IN
    /\ \/ /\ i.count > 1 \/ i.nlinks > 0
          /\ table' = [table EXCEPT ![f.s].count = @ - 1] /\ Return(p, f.v)
       \/ /\ i.count = 1 /\ i.nlinks = 0
          /\ Becomes(p, <<Truncate(f.s), [f EXCEPT !.pc = "iput_free"]>>)
          /\ UNCHANGED table
    /\ Keep(p)

\* iput, from the label repeat on
IputRepeat(p, f) ==
    LET i == table[f.s] IN
    /\ \/ /\ i.count > 1 \/ (i.nlinks > 0 /\ ~i.dirt)
          /\ table' = [table EXCEPT ![f.s].count = @ - 1] /\ Return(p, f.v)
       \/ /\ i.count = 1 /\ i.nlinks = 0
          /\ Becomes(p, <<Truncate(f.s), [f EXCEPT !.pc = "iput_free"]>>)
          /\ UNCHANGED table
       \/ /\ i.count = 1 /\ i.nlinks > 0 /\ i.dirt
          /\ Becomes(p, <<WriteInode(f.s), [f EXCEPT !.pc = "iput_repeat"]>>)
          /\ UNCHANGED table
    /\ Keep(p)

iput(p) ==
    /\ At(p, "iput")
    /\ LET f == Top(p)
           i == table[f.s]
       IN /\ Unlocked(f.s)
          /\ \/ i.count = 0 /\ Panic("iput: trying to free free inode")
             \/ /\ i.count > 0 /\ i.mode # "blk" /\ IputRepeat(p, f)
                /\ UNCHANGED <<disk, imap, zmap, block, panic, race>>
             \/ /\ i.count > 0 /\ i.mode = "blk"   \* sync_dev
                /\ Becomes(p, <<[f EXCEPT !.pc = "iput_repeat"]>>) /\ Sleep /\ SamePlace

iput_repeat(p) ==
    /\ At(p, "iput_repeat") /\ Unlocked(Top(p).s)
    /\ IputRepeat(p, Top(p))
    /\ UNCHANGED <<disk, imap, zmap, block, panic, race>>

\* free_inode, which does not look at the lock: sync_inodes may have taken it
\* since truncate slept.
iput_free(p) ==
    /\ At(p, "iput_free")
    /\ LET f == Top(p)
           i == table[f.s]
       IN \/ i.count > 1 /\ Panic("free_inode")
          \/ i.count = 1 /\ i.nlinks > 0 /\ Panic("trying to free inode with links")
          \/ /\ i.count = 1 /\ i.nlinks = 0
             /\ imap' = imap \ {i.num} /\ table' = [table EXCEPT ![f.s] = NoInode]
             /\ HitIf("written inode", i.lock) /\ Return(p, f.v) /\ Keep(p)
             /\ UNCHANGED <<disk, zmap, block, panic>>

\* new_inode, once get_empty_inode has returned
NewInode == <<F("get_empty_inode", <<>>), F("new_inode", <<>>)>>
new_inode(p) ==
    /\ At(p, "new_inode")
    /\ LET s == Top(p).r
           free == Inums \ imap
       IN \/ /\ free = {} /\ table' = [table EXCEPT ![s].count = @ - 1]
             /\ Return(p, NoSlot) /\ UNCHANGED imap
          \/ /\ free # {} /\ imap' = imap \cup {Min(free)} /\ Return(p, s)
             /\ table' = [table EXCEPT ![s].num = Min(free), ![s].nlinks = 1, ![s].dirt = TRUE]
    /\ Keep(p) /\ UNCHANGED <<disk, zmap, block, panic, race>>

-----------------------------------------------------------------------------
\* new_block: the bit is set, then getblk may sleep.  The bits past the end
\* of the device are set when it is formatted.
new_block(p) ==
    /\ At(p, "new_block")
    /\ LET free == Zones \ zmap IN
       \/ free = {} /\ Return(p, 0) /\ Keep(p) /\ UNCHANGED zmap
       \/ /\ free # {} /\ zmap' = zmap \cup {Min(free)}
          /\ Becomes(p, <<F("getblk", [z |-> Min(free)])>>) /\ Sleep
    /\ UNCHANGED <<table, disk, imap, block, panic, race>>

new_block_clear(p) ==
    /\ At(p, "getblk")
    /\ LET z == Top(p).z IN
       \/ Held(z) /\ Panic("new block: count is != 1")
       \/ /\ ~Held(z) /\ block' = [block EXCEPT ![z] = Cleared]
          /\ Return(p, z) /\ Keep(p)
          /\ UNCHANGED <<table, disk, imap, zmap, panic, race>>

\* free_block, once get_hash_table has returned, for which it may have slept.
\* A block whose buffer someone holds stays allocated for ever.
FreeBlock(z) == F("free_block", [z |-> z])
free_block(p) ==
    /\ At(p, "free_block")
    /\ LET z == Top(p).z IN
       \/ ~Held(z) /\ z \notin zmap /\ Panic("free_block: bit already cleared")
       \/ /\ ~Held(z) /\ z \in zmap /\ zmap' = zmap \ {z}
          /\ Return(p, 0) /\ Keep(p) /\ UNCHANGED <<table, disk, imap, block, panic, race>>
       \/ /\ Held(z) /\ Hit("held block")
          /\ Return(p, 0) /\ Keep(p) /\ UNCHANGED <<table, disk, imap, zmap, block, panic>>

\* Nothing keeps a process from truncating an inode, or writing to it, while
\* another one truncates it.
Truncating(p, s) == \E q \in Procs \ {p} : \E i \in DOMAIN stack[q] :
                       stack[q][i].pc \in {"truncate", "free_ind", "free_ind_read"} /\ stack[q][i].s = s

\* The cells that lead to a file's block b: a direct zone, or a zone with
\* indirect or doubly indirect blocks behind it.
CellPath(b) ==
    LET i == b - DIRECT
        d == i - PER_BLOCK
    IN  IF i < 0 THEN <<b>>
        ELSE IF d < 0 THEN <<DIRECT, i>>
        ELSE <<DIRECT + 1, d \div PER_BLOCK, d % PER_BLOCK>>

\* _bmap: s the inode, cells the cells still ahead, bh the block that has the
\* first of them (0: the inode has it).
Bmap(s, b, create) == F("bmap", [s |-> s, cells |-> CellPath(b), bh |-> 0, create |-> create])
Cell(f) == IF f.bh = 0 THEN table[f.s].zone[f.cells[1]] ELSE block[f.bh][f.cells[1]].nr

Follow(p, f, z) ==
    \/ (z = 0 \/ Len(f.cells) = 1) /\ Return(p, z) /\ Keep(p)
    \/ /\ z # 0 /\ Len(f.cells) > 1 /\ Sleep   \* bread
       /\ \/ Becomes(p, <<[f EXCEPT !.pc = "bmap", !.bh = z, !.cells = Tail(@)]>>)
          \/ readErrors /\ Return(p, 0)

bmap(p) ==
    /\ At(p, "bmap")
    /\ LET f == Top(p) IN
       IF f.create /\ Cell(f) = 0
       THEN Becomes(p, <<F("new_block", <<>>), [f EXCEPT !.pc = "bmap_store"]>>) /\ Keep(p)
       ELSE Follow(p, f, Cell(f))
    /\ HitIf("truncate", Top(p).create /\ Truncating(p, Top(p).s))
    /\ UNCHANGED <<table, disk, imap, zmap, block, panic>>

\* new_block has slept: another process may have put a block there.
bmap_store(p) ==
    /\ At(p, "bmap_store")
    /\ LET f == Top(p) IN
       /\ race' = race \cup {w \in {"bmap"} : Cell(f) # 0}
                       \cup {w \in {"truncate"} : Truncating(p, f.s)}
       /\ IF f.bh = 0
          THEN /\ table' = [table EXCEPT ![f.s].zone[f.cells[1]] = f.r, ![f.s].dirt = @ \/ f.r # 0]
               /\ UNCHANGED block
          ELSE /\ block' = [block EXCEPT ![f.bh][f.cells[1]].nr = IF f.r = 0 THEN @ ELSE f.r]
               /\ UNCHANGED table
       /\ Follow(p, f, f.r)
    /\ UNCHANGED <<disk, imap, zmap, panic>>

-----------------------------------------------------------------------------
\* Mutant: the doubly indirect zone is forgotten.
Behind_single(z) == SelectSeq(<< <<z[DIRECT], 1>> >>, LAMBDA w : w[1] # 0)

\* free_ind(i_zone[7]), free_dind(i_zone[8])
Behind(z) == SelectSeq(<< <<z[DIRECT], 1>>, <<z[DIRECT + 1], 2>> >>, LAMBDA w : w[1] # 0)

\* Mutant: the zone that was freed is not cleared.
Zones_stale(f) == table[f.s].zone

\* The zones of the inode, the one just freed cleared.
ZonesNow(f) == [k \in 0 .. DIRECT + 1 |-> IF k = f.k THEN 0 ELSE table[f.s].zone[k]]

\* truncate: the direct zones one by one; k is the one just freed.
\* Then the zones with blocks behind them: work lists
\* what free_ind and free_dind have to free, each block with the number of
\* levels below it.
truncate(p) ==
    /\ At(p, "truncate")
    /\ LET f == Top(p)
           z == ZonesNow(f)
           direct == {k \in 0 .. DIRECT - 1 : z[k] # 0}
           k == Min(direct)
       IN IF table[f.s].mode \notin {"reg", "dir"}
          THEN Return(p, 0) /\ Keep(p) /\ UNCHANGED <<table, race>>
          ELSE /\ table' = [table EXCEPT ![f.s].zone = z]
               /\ HitIf("truncate", Truncating(p, f.s))
               /\ IF direct # {}
                  THEN Becomes(p, <<FreeBlock(z[k]), [f EXCEPT !.k = k]>>) /\ Sleep
                  ELSE /\ Becomes(p, <<F("free_ind", [s |-> f.s, work |-> Behind(z)])>>)
                       /\ Keep(p)
    /\ UNCHANGED <<disk, imap, zmap, block, panic>>

Below(z, level) ==
    SelectSeq([c \in 1 .. PER_BLOCK |-> <<block[z][c - 1].nr, level>>], LAMBDA w : w[1] # 0)

\* Sleeps in bread, or in get_hash_table.
free_ind(p) ==
    /\ At(p, "free_ind") /\ Top(p).work # <<>>
    /\ LET f == Top(p) IN
       IF Head(f.work)[2] = 0
       THEN Becomes(p, <<FreeBlock(Head(f.work)[1]), [f EXCEPT !.work = Tail(@)]>>)
       ELSE Becomes(p, <<[f EXCEPT !.pc = "free_ind_read"]>>)
    /\ Sleep /\ SamePlace

\* What is below a block that cannot be read stays allocated for ever.
free_ind_read(p) ==
    /\ At(p, "free_ind_read")
    /\ LET f == Top(p)
           z == Head(f.work)[1]
           level == Head(f.work)[2]
           Work(w) == Becomes(p, <<[f EXCEPT !.pc = "free_ind", !.work = w \o << <<z, 0>> >> \o Tail(@)]>>)
       IN \/ Work(Below(z, level - 1)) /\ UNCHANGED race
          \/ readErrors /\ Work(<<>>) /\ Hit("unread")
    /\ Keep(p) /\ UNCHANGED <<table, disk, imap, zmap, block, panic>>

truncate_done(p) ==
    /\ At(p, "free_ind") /\ Top(p).work = <<>>
    /\ LET s == Top(p).s IN
       table' = [table EXCEPT ![s].zone[DIRECT] = 0, ![s].zone[DIRECT + 1] = 0,
                              ![s].size = 0, ![s].dirt = TRUE]
    /\ Return(p, 0) /\ Keep(p)
    /\ UNCHANGED <<disk, imap, zmap, block, panic, race>>

\* sync_inodes: every inode in turn
sync_inodes(p) ==
    /\ At(p, "sync_inodes")
    /\ LET f == Top(p) IN
       \/ f.left = {} /\ Return(p, 0)
       \/ \E s \in f.left : Becomes(p, <<WriteInode(s), [f EXCEPT !.left = @ \ {s}]>>)
    /\ Keep(p) /\ SamePlace

InodeStep(p) ==
    \/ wait_on_inode(p) \/ write_inode(p) \/ write_copy(p) \/ read_inode(p)
    \/ inode_block_unreadable(p) \/ get_empty_inode(p)
    \/ iget(p) \/ iput(p) \/ iput_repeat(p) \/ iput_free(p)
    \/ new_inode(p) \/ new_block(p) \/ new_block_clear(p) \/ bmap(p) \/ bmap_store(p)
    \/ free_block(p) \/ truncate(p) \/ free_ind(p) \/ free_ind_read(p) \/ truncate_done(p) \/ sync_inodes(p)
=============================================================================
