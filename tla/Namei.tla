-------------------------------- MODULE Namei --------------------------------
(***************************************************************************)
(* Path names and directories (fs/namei.c): looking names up, and the      *)
(* system calls that create, link and remove files and directories, on top *)
(* of module Inode.  The users are the superuser: permission() fails only  *)
(* for an inode without links.  A path is the sequence of its names, the   *)
(* last one NoName when it ends in '/'.  Every process has / as its root   *)
(* and current directory and at most one file open.                        *)
(***************************************************************************)
EXTENDS Inode

CONSTANTS Paths,        \* the paths programs use
          Calls,        \* the system calls on paths that programs make
          OpenFlags,    \* the flag sets programs open files with
          Specials,     \* the file types programs make with mknod
          WriteBlocks,  \* the blocks of their files programs write
          Dot, DotDot,
          MaxCalls,     \* bound: system calls that are started
          MaxWornCalls  \* the same on a worn device

ASSUME NameiAssumption ==
    /\ Dot # DotDot /\ \A path \in Paths : Len(path) > 0
    /\ Calls \subseteq {"mknod", "mkdir", "rmdir", "unlink"}
    /\ Specials \subseteq {"reg", "chr", "blk"} /\ MaxCalls \in Nat /\ MaxWornCalls \in Nat
    /\ WriteBlocks \subseteq 0 .. DIRECT + PER_BLOCK * (PER_BLOCK + 1) - 1

VARIABLES fd,     \* the inode of the file each process has open, or NoSlot
          calls   \* system calls started so far

vars == <<inodeVars, fd, calls>>

-----------------------------------------------------------------------------
\* A directory's blocks one after the other, for find_entry, add_entry and
\* empty_dir: i is the block, bh its zone, n the number of entries.
ReadBlock(p, f, pc, z) ==
    Becomes(p, <<[f EXCEPT !.pc = pc, !.bh = z]>>)
NextBlock(p, f, pc, create) ==
    Becomes(p, <<Bmap(f.s, f.i + 1, create), [f EXCEPT !.pc = pc, !.i = @ + 1, !.bh = 0]>>)
MoreBlocks(f) == (f.i + 1) * PER_BLOCK < f.n

\* find_entry: '..' of the root directory is '.'.
Find(s, name) == F("find_entry", [s |-> s, i |-> 0, bh |-> 0, n |-> table[s].size,
                     name |-> IF name = DotDot /\ table[s].num = ROOT_INO THEN Dot ELSE name])

\* The first block of a directory, for find_entry and add_entry.
first_block(p) ==
    /\ At(p, "find_entry") \/ At(p, "add_entry")
    /\ LET f == Top(p)
           z == table[f.s].zone[0]
       IN \/ (f.name = NoName \/ z = 0) /\ Return(p, NoEntry) /\ Keep(p)
          \/ /\ f.name # NoName /\ z # 0 /\ Sleep
             /\ \/ ReadBlock(p, f, IF f.pc = "find_entry" THEN "find_scan" ELSE "add_scan", z)
                \/ readErrors /\ Return(p, NoEntry)
    /\ SamePlace

Matches(f) == {c \in 0 .. PER_BLOCK - 1 : /\ f.i * PER_BLOCK + c < f.n
                                          /\ block[f.bh][c].nr # 0
                                          /\ block[f.bh][c].name = f.name}
find_entry(p) ==
    /\ At(p, "find_scan")
    /\ LET f == Top(p) IN
       IF Matches(f) # {} THEN Return(p, <<f.bh, Min(Matches(f))>>)
       ELSE IF MoreBlocks(f) THEN NextBlock(p, f, "find_next", FALSE) ELSE Return(p, NoEntry)
    /\ Keep(p) /\ SamePlace

\* A block that is not there or cannot be read is passed over.
find_next(p) ==
    /\ At(p, "find_next")
    /\ LET f == Top(p) IN
       \/ f.r # 0 /\ ReadBlock(p, f, "find_scan", f.r) /\ Sleep
       \/ /\ f.r = 0 \/ readErrors
          /\ IF MoreBlocks(f) THEN NextBlock(p, f, "find_next", FALSE) ELSE Return(p, NoEntry)
          /\ Keep(p)
    /\ SamePlace

\* add_entry: the first free entry, or one past the end, in a new block if
\* need be.  The entry gets its name; its inode number stays 0.
Add(s, name) == F("add_entry", [s |-> s, name |-> name, i |-> 0, bh |-> 0])

add_entry(p) ==
    /\ At(p, "add_scan")
    /\ LET f == Top(p)
           past(c) == f.i * PER_BLOCK + c >= table[f.s].size
           free == {c \in 0 .. PER_BLOCK - 1 : past(c) \/ block[f.bh][c].nr = 0}
           c == Min(free)
       IN \/ /\ free # {} /\ Return(p, <<f.bh, c>>)
             /\ block' = [block EXCEPT ![f.bh][c] = [name |-> f.name, nr |-> 0]]
             /\ table' = IF past(c) THEN [table EXCEPT ![f.s].size = f.i * PER_BLOCK + c + 1,
                                                       ![f.s].dirt = TRUE]
                         ELSE table
          \/ free = {} /\ NextBlock(p, f, "add_next", TRUE) /\ UNCHANGED <<table, block>>
    /\ Keep(p) /\ UNCHANGED <<disk, imap, zmap, panic, race>>

add_next(p) ==
    /\ At(p, "add_next")
    /\ LET f == Top(p) IN
       \/ f.r = 0 /\ Return(p, NoEntry) /\ Keep(p)
       \/ f.r # 0 /\ ReadBlock(p, f, "add_scan", f.r) /\ Sleep
       \/ f.r # 0 /\ readErrors /\ NextBlock(p, f, "add_next", TRUE) /\ Sleep
    /\ SamePlace

-----------------------------------------------------------------------------
\* get_dir: down the path to the directory of its last name.
permission(s) == table[s].nlinks # 0
RootSlot == CHOOSE s \in Slots : table[s].num = ROOT_INO

get_dir(p) ==
    /\ At(p, "get_dir")
    /\ table' = [table EXCEPT ![RootSlot].count = @ + 1]
    /\ Becomes(p, <<With([r |-> RootSlot], F("get_dir_step", [path |-> Top(p).path]))>>)
    /\ Keep(p) /\ UNCHANGED <<disk, imap, zmap, block, panic, race>>

get_dir_step(p) ==
    /\ At(p, "get_dir_step")
    /\ LET f == Top(p)
           s == f.r
       IN IF table[s].mode # "dir" \/ ~permission(s) THEN Becomes(p, <<Iput(s, NoSlot)>>)
          ELSE IF Len(f.path) = 1 THEN Return(p, s)
          ELSE Becomes(p, <<Find(s, Head(f.path)),
                            F("get_dir_found", [dir |-> s, path |-> Tail(f.path)])>>)
    /\ Keep(p) /\ SamePlace

\* The number is read from the entry and the directory given back, which may
\* sleep, before iget looks for the inode.
get_dir_found(p) ==
    /\ At(p, "get_dir_found")
    /\ LET f == Top(p) IN
       IF f.r = NoEntry THEN Becomes(p, <<Iput(f.dir, NoSlot)>>)
       ELSE Becomes(p, <<Iput(f.dir, 0)>> \o Iget(f.r)
                         \o <<F("get_dir_step", [path |-> f.path])>>)
    /\ Keep(p) /\ SamePlace

DirNamei(path) == F("get_dir", [path |-> path])

\* namei, once get_dir has returned
namei(p) ==
    /\ At(p, "namei")
    /\ LET f == Top(p) IN
       IF f.r = NoSlot \/ f.name = NoName THEN Return(p, f.r)
       ELSE Becomes(p, <<Find(f.r, f.name), F("namei_found", [dir |-> f.r])>>)
    /\ Keep(p) /\ SamePlace

namei_found(p) ==
    /\ At(p, "namei_found")
    /\ LET f == Top(p) IN
       IF f.r = NoEntry THEN Becomes(p, <<Iput(f.dir, NoSlot)>>)
       ELSE Becomes(p, <<Iput(f.dir, 0)>> \o Iget(f.r) \o <<F("namei_done", <<>>)>>)
    /\ Keep(p) /\ SamePlace

namei_done(p) ==   \* i_atime
    /\ At(p, "namei_done")
    /\ table' = [table EXCEPT ![Top(p).r].dirt = TRUE]
    /\ Return(p, Top(p).r)
    /\ Keep(p) /\ UNCHANGED <<disk, imap, zmap, block, panic, race>>

-----------------------------------------------------------------------------
\* The places of the live entries of a directory inode i.
ZoneOf(i, b) ==
    LET path == CellPath(b)
        at[k \in 1 .. Len(path)] ==
            IF k = 1 THEN i.zone[path[1]] ELSE IF at[k - 1] = 0 THEN 0 ELSE block[at[k - 1]][path[k]].nr
    IN  at[Len(path)]
Places(i) ==
    {e \in Zones \X (0 .. PER_BLOCK - 1) :
        /\ Entry(e).nr # 0
        /\ \E b \in 0 .. (i.size - 1) \div PER_BLOCK :
              ZoneOf(i, b) = e[1] /\ b * PER_BLOCK + e[2] < i.size}

\* de->inode = the inode's number, for the entry add_entry returned.  Nothing
\* has kept others from adding the same name, or removing the directory.
Fill(dir, de, s) ==
    /\ block' = [block EXCEPT ![de[1]][de[2]].nr = table[s].num]
    /\ race' = race
         \cup {w \in {"same name"} : \E e \in Places(table[dir]) : Entry(e).name = Entry(de).name}
         \cup {w \in {"removed directory"} : table[dir].nlinks = 0}

\* de->inode = 0, for the entry that was looked up before the last sleep;
\* rmdir also looked before that whether the directory is empty.
Clear(de, s, filled) ==
    /\ block' = [block EXCEPT ![de[1]][de[2]].nr = 0]
    /\ race' = race \cup {w \in {"entry reused"} : Entry(de).nr # table[s].num}
                    \cup {w \in {"no links"} : table[s].nlinks = 0}
                    \cup {w \in {"removed directory"} : filled}

\* Two inodes given back; brelse(bh) comes after that in some calls.
Iputs(s, t) == <<Iput(s, 0), Iput(t, 0)>>
Hold(frames, de) == [i \in DOMAIN frames |-> With(frames[i], [bh |-> de[1]])]

\* How mknod, mkdir, rmdir, unlink and link go on once get_dir has returned.
\* arg: the mode for mknod, what link links to.
Lookup(call, path, arg) ==
    <<DirNamei(path), F("lookup", [call |-> call, name |-> Last(path), arg |-> arg])>>
\* Mutant: link forgets the inode it has for the old name.
Old_kept(f) == <<>>

\* What link has to give back besides.
Old(f) == IF f.call = "link" THEN <<Iput(f.arg, 0)>> ELSE <<>>

lookup(p) ==
    /\ At(p, "lookup")
    /\ LET f == Top(p)
           dir == f.r
       IN IF dir = NoSlot THEN IF f.call = "link" THEN Becomes(p, Old(f)) ELSE Return(p, 0)
          ELSE IF f.name = NoName THEN Becomes(p, Old(f) \o <<Iput(dir, 0)>>)
          ELSE IF ~permission(dir) THEN Becomes(p, <<Iput(dir, 0)>> \o Old(f))
          ELSE Becomes(p, <<Find(dir, f.name), With([dir |-> dir], [f EXCEPT !.pc = "found"])>>)
    /\ Keep(p) /\ SamePlace

\* ... and once find_entry has: the name must be new for mknod, mkdir and
\* link, and be there for rmdir and unlink, which hold on to the entry's block.
found(p) ==
    /\ At(p, "found")
    /\ LET f == Top(p)
           new == f.call \in {"mknod", "mkdir", "link"}
       IN IF new # (f.r = NoEntry) THEN Becomes(p, <<Iput(f.dir, 0)>> \o Old(f))
          ELSE IF f.call = "link"
          THEN Becomes(p, <<Add(f.dir, f.name), F("link_add", [dir |-> f.dir, inode |-> f.arg])>>)
          ELSE IF new THEN Becomes(p, NewInode \o <<[f EXCEPT !.pc = f.call]>>)
          ELSE Becomes(p, Iget(f.r)
                 \o Hold(<<F(f.call, [dir |-> f.dir, de |-> f.r])>>, f.r))
    /\ Keep(p) /\ SamePlace

\* mknod, mkdir and open with an inode: it gets its type (a directory's comes
\* later) and mkdir its block.
mknod(p) ==
    /\ At(p, "mknod")
    /\ LET f == Top(p)
           s == f.r
       IN IF s = NoSlot THEN Becomes(p, <<Iput(f.dir, 0)>>) /\ UNCHANGED table
          ELSE /\ table' = [table EXCEPT ![s].mode = f.arg, ![s].dirt = TRUE,
                              ![s].zone[0] = IF f.arg \in {"chr", "blk"} THEN 1 ELSE 0]
               /\ Becomes(p, <<Add(f.dir, f.name), F("mknod_add", [dir |-> f.dir, inode |-> s])>>)
    /\ Keep(p) /\ UNCHANGED <<disk, imap, zmap, block, panic, race>>

mknod_add(p) ==
    /\ At(p, "mknod_add")
    /\ LET f == Top(p) IN
       IF f.r = NoEntry
       THEN Becomes(p, <<Iput(f.dir, 0), F("drop", [inode |-> f.inode])>>) /\ UNCHANGED <<block, race>>
       ELSE Fill(f.dir, f.r, f.inode) /\ Becomes(p, Hold(Iputs(f.dir, f.inode), f.r))
    /\ Keep(p) /\ UNCHANGED <<table, disk, imap, zmap, panic>>

\* The inode loses its links and is given back.
drop(p) ==
    /\ At(p, "drop")
    /\ table' = [table EXCEPT ![Top(p).inode].nlinks = 0]
    /\ Becomes(p, <<Iput(Top(p).inode, 0)>>)
    /\ Keep(p) /\ UNCHANGED <<disk, imap, zmap, block, panic, race>>

mkdir(p) ==
    /\ At(p, "mkdir")
    /\ LET f == Top(p) IN
       IF f.r = NoSlot THEN Becomes(p, <<Iput(f.dir, 0)>>) /\ UNCHANGED table
       ELSE /\ table' = [table EXCEPT ![f.r].size = 2]
            /\ Becomes(p, <<F("new_block", <<>>),
                            With([inode |-> f.r], [f EXCEPT !.pc = "mkdir_block"])>>)
    /\ Keep(p) /\ UNCHANGED <<disk, imap, zmap, block, panic, race>>

\* What mkdir does when it cannot go on with a block it has.
MkdirFails(f) == <<Iput(f.dir, 0), F("mkdir_free", [inode |-> f.inode])>>

mkdir_block(p) ==
    /\ At(p, "mkdir_block")
    /\ LET f == Top(p) IN
       \/ /\ f.r = 0 /\ Becomes(p, <<Iput(f.dir, 0), F("drop", [inode |-> f.inode])>>)
          /\ Keep(p) /\ UNCHANGED table
       \/ /\ f.r # 0 /\ Sleep   \* bread
          /\ table' = [table EXCEPT ![f.inode].zone[0] = f.r, ![f.inode].dirt = TRUE]
          /\ \/ Becomes(p, <<[f EXCEPT !.pc = "mkdir_fill"]>>)
             \/ readErrors /\ Becomes(p, MkdirFails(f))
    /\ UNCHANGED <<disk, imap, zmap, block, panic, race>>

mkdir_fill(p) ==
    /\ At(p, "mkdir_fill")
    /\ LET f == Top(p)
           s == f.inode
           z == table[s].zone[0]
       IN /\ block' = [block EXCEPT ![z][0] = [name |-> Dot, nr |-> table[s].num],
                                    ![z][1] = [name |-> DotDot, nr |-> table[f.dir].num]]
          /\ table' = [table EXCEPT ![s].nlinks = 2, ![s].mode = "dir", ![s].dirt = TRUE]
          /\ Becomes(p, <<Add(f.dir, f.name), F("mkdir_add", [dir |-> f.dir, inode |-> s])>>)
    /\ Keep(p) /\ UNCHANGED <<disk, imap, zmap, panic, race>>

\* Mutant: the parent's link count does not follow.
mkdir_add_nolink(p) ==
    /\ At(p, "mkdir_add")
    /\ LET f == Top(p) IN
       IF f.r = NoEntry
       THEN Becomes(p, MkdirFails(f)) /\ Hit("mkdir undone") /\ UNCHANGED <<table, block>>
       ELSE /\ Fill(f.dir, f.r, f.inode) /\ UNCHANGED table
            /\ Becomes(p, Hold(Iputs(f.dir, f.inode), f.r))
    /\ Keep(p) /\ UNCHANGED <<disk, imap, zmap, panic>>

mkdir_add(p) ==
    /\ At(p, "mkdir_add")
    /\ LET f == Top(p) IN
       IF f.r = NoEntry
       THEN Becomes(p, MkdirFails(f)) /\ Hit("mkdir undone") /\ UNCHANGED <<table, block>>
       ELSE /\ Fill(f.dir, f.r, f.inode)
            /\ table' = [table EXCEPT ![f.dir].nlinks = Byte(@ + 1), ![f.dir].dirt = TRUE]
            /\ Becomes(p, Hold(Iputs(f.dir, f.inode), f.r))
    /\ Keep(p) /\ UNCHANGED <<disk, imap, zmap, panic>>

\* The block is freed here, and again by truncate if the inode is a directory
\* by now.
mkdir_free(p) ==
    /\ At(p, "mkdir_free")
    /\ Becomes(p, <<FreeBlock(table[Top(p).inode].zone[0]), F("drop", [inode |-> Top(p).inode])>>)
    /\ Sleep /\ SamePlace

-----------------------------------------------------------------------------
\* rmdir, once iget has returned
rmdir(p) ==
    /\ At(p, "rmdir")
    /\ LET f == Top(p)
           s == f.r
       IN IF table[s].count > 1 THEN Becomes(p, Hold(Iputs(f.dir, s), f.de))
          ELSE IF table[s].mode # "dir" THEN Becomes(p, Hold(Iputs(s, f.dir), f.de))
          ELSE Becomes(p, <<F("empty_dir", [s |-> s, i |-> 0, bh |-> 0, n |-> table[s].size]),
                            With([inode |-> s], [f EXCEPT !.pc = "rmdir_empty"])>>)
    /\ Keep(p) /\ SamePlace

\* empty_dir: nothing but '.' and '..'
empty_dir(p) ==
    /\ At(p, "empty_dir")
    /\ LET f == Top(p)
           z == table[f.s].zone[0]
       IN \/ (f.n < 2 \/ z = 0) /\ Return(p, FALSE) /\ Keep(p)
          \/ /\ f.n >= 2 /\ z # 0 /\ Sleep
             /\ ReadBlock(p, f, "empty_scan", z) \/ (readErrors /\ Return(p, FALSE))
    /\ SamePlace

empty_scan(p) ==
    /\ At(p, "empty_scan")
    /\ LET f == Top(p)
           b == block[f.bh]
           bad == f.i = 0 /\ (b[0] # [name |-> Dot, nr |-> table[f.s].num]
                              \/ b[1].nr = 0 \/ b[1].name # DotDot)
           used == {c \in 0 .. PER_BLOCK - 1 : f.i * PER_BLOCK + c \in 2 .. f.n - 1 /\ b[c].nr # 0}
       IN IF bad \/ used # {} THEN Return(p, FALSE)
          ELSE IF MoreBlocks(f) THEN NextBlock(p, f, "empty_next", FALSE) ELSE Return(p, TRUE)
    /\ Keep(p) /\ SamePlace

empty_next(p) ==
    /\ At(p, "empty_next")
    /\ LET f == Top(p) IN
       \/ /\ f.r # 0 /\ Sleep
          /\ ReadBlock(p, f, "empty_scan", f.r) \/ (readErrors /\ Return(p, FALSE))
       \/ /\ f.r = 0
          /\ IF MoreBlocks(f) THEN NextBlock(p, f, "empty_next", FALSE) ELSE Return(p, TRUE)
          /\ Keep(p)
    /\ SamePlace

rmdir_empty(p) ==
    /\ At(p, "rmdir_empty")
    /\ LET f == Top(p)
           s == f.inode
           unlinked == [table EXCEPT ![s].nlinks = 0, ![s].dirt = TRUE]
       IN IF ~f.r THEN Becomes(p, Hold(Iputs(s, f.dir), f.de)) /\ UNCHANGED <<table, block, race>>
          ELSE /\ Clear(f.de, s, Cardinality(Places(table[s])) > 2)
               /\ Becomes(p, Iputs(f.dir, s))
               /\ table' = [unlinked EXCEPT ![f.dir].nlinks = Byte(@ - 1), ![f.dir].dirt = TRUE]
    /\ Keep(p) /\ UNCHANGED <<disk, imap, zmap, panic>>

\* unlink, once iget has returned
unlink(p) ==
    /\ At(p, "unlink")
    /\ LET f == Top(p)
           s == f.r
       IN IF table[s].mode = "dir"
          THEN Becomes(p, Hold(Iputs(s, f.dir), f.de)) /\ UNCHANGED <<table, block, race>>
          ELSE /\ Clear(f.de, s, FALSE) /\ Becomes(p, Iputs(s, f.dir))
               /\ table' = [table EXCEPT ![s].dirt = TRUE, ![s].nlinks = IF @ = 0 THEN 0 ELSE @ - 1]
    /\ Keep(p) /\ UNCHANGED <<disk, imap, zmap, panic>>

\* link, once namei(oldname) has returned
link(p) ==
    /\ At(p, "link")
    /\ LET f == Top(p) IN
       IF f.r = NoSlot THEN Return(p, 0)
       ELSE IF table[f.r].mode = "dir" THEN Becomes(p, <<Iput(f.r, 0)>>)
       ELSE Becomes(p, Lookup("link", f.new, f.r))
    /\ Keep(p) /\ SamePlace

link_add(p) ==
    /\ At(p, "link_add")
    /\ LET f == Top(p) IN
       IF f.r = NoEntry THEN Becomes(p, Iputs(f.dir, f.inode)) /\ UNCHANGED <<block, race>>
       ELSE /\ Fill(f.dir, f.r, f.inode)
            /\ Becomes(p, <<Iput(f.dir, 0), F("link_done", [inode |-> f.inode])>>)
    /\ Keep(p) /\ UNCHANGED <<table, disk, imap, zmap, panic>>

\* iput(dir) may have slept before the count follows.
link_done(p) ==
    /\ At(p, "link_done")
    /\ LET s == Top(p).inode IN
       /\ table' = [table EXCEPT ![s].nlinks = Byte(@ + 1), ![s].dirt = TRUE]
       /\ Becomes(p, <<Iput(s, 0)>>)
    /\ Keep(p) /\ UNCHANGED <<disk, imap, zmap, block, panic, race>>

-----------------------------------------------------------------------------
\* open_namei, once get_dir has returned; open_done is sys_open's file table.
open_dir(p) ==
    /\ At(p, "open_dir")
    /\ LET f == Top(p)
           dir == f.r
       IN IF dir = NoSlot THEN Return(p, 0)
          ELSE IF f.name = NoName
          THEN Becomes(p, IF f.flags = {} THEN <<F("open_done", [inode |-> dir])>>
                          ELSE <<Iput(dir, 0)>>)
          ELSE Becomes(p, <<Find(dir, f.name), With([dir |-> dir], [f EXCEPT !.pc = "open_found"])>>)
    /\ Keep(p) /\ SamePlace

open_found(p) ==
    /\ At(p, "open_found")
    /\ LET f == Top(p) IN
       IF f.r # NoEntry
       THEN Becomes(p, <<Iput(f.dir, 0)>> \o
                (IF "excl" \in f.flags THEN <<>>
                 ELSE Iget(f.r) \o <<F("open_inode", [flags |-> f.flags])>>))
       ELSE IF "creat" \notin f.flags \/ ~permission(f.dir) THEN Becomes(p, <<Iput(f.dir, 0)>>)
       ELSE Becomes(p, NewInode \o <<[f EXCEPT !.pc = "open_new"]>>)
    /\ Keep(p) /\ SamePlace

open_new(p) ==
    /\ At(p, "open_new")
    /\ LET f == Top(p) IN
       IF f.r = NoSlot THEN Becomes(p, <<Iput(f.dir, 0)>>) /\ UNCHANGED table
       ELSE /\ table' = [table EXCEPT ![f.r].mode = "reg", ![f.r].dirt = TRUE]
            /\ Becomes(p, <<Add(f.dir, f.name), F("open_add", [dir |-> f.dir, inode |-> f.r])>>)
    /\ Keep(p) /\ UNCHANGED <<disk, imap, zmap, block, panic, race>>

open_add(p) ==
    /\ At(p, "open_add")
    /\ LET f == Top(p) IN
       IF f.r = NoEntry
       THEN /\ table' = [table EXCEPT ![f.inode].nlinks = Byte(@ - 1)]
            /\ Becomes(p, Iputs(f.inode, f.dir)) /\ UNCHANGED <<block, race>>
       ELSE /\ Fill(f.dir, f.r, f.inode) /\ UNCHANGED table
            /\ Becomes(p, <<Iput(f.dir, 0), F("open_done", [inode |-> f.inode])>>)
    /\ Keep(p) /\ UNCHANGED <<disk, imap, zmap, panic>>

\* O_TRUNC without write access asks for it.
open_inode(p) ==
    /\ At(p, "open_inode")
    /\ LET f == Top(p)
           s == f.r
       IN IF (table[s].mode = "dir" /\ f.flags \cap {"write", "trunc"} # {}) \/ ~permission(s)
          THEN Becomes(p, <<Iput(s, 0)>>)
          ELSE Becomes(p, (IF "trunc" \in f.flags THEN <<Truncate(s)>> ELSE <<>>)
                          \o <<F("open_done", [inode |-> s])>>)
    /\ Keep(p) /\ SamePlace

\* file_write, once create_block has returned: the block is read, then the
\* size of the file (in blocks, for a regular file) follows.
file_write(p) ==
    /\ At(p, "file_write")
    /\ LET f == Top(p) IN
       \/ f.r = 0 /\ Return(p, 0) /\ Keep(p)
       \/ /\ f.r # 0 /\ Sleep
          /\ \/ Becomes(p, <<With([bh |-> f.r], [f EXCEPT !.pc = "file_written"])>>)
             \/ readErrors /\ Return(p, 0)
    /\ SamePlace

file_written(p) ==
    /\ At(p, "file_written")
    /\ LET f == Top(p) IN
       table' = IF f.b < table[f.s].size THEN table
                ELSE [table EXCEPT ![f.s].size = f.b + 1, ![f.s].dirt = TRUE]
    /\ Return(p, 0) /\ Keep(p) /\ UNCHANGED <<disk, imap, zmap, block, panic, race>>

NameiStep(p) ==
    \/ first_block(p) \/ find_entry(p) \/ find_next(p) \/ add_entry(p) \/ add_next(p)
    \/ get_dir(p) \/ get_dir_step(p) \/ get_dir_found(p)
    \/ namei(p) \/ namei_found(p) \/ namei_done(p) \/ lookup(p) \/ found(p)
    \/ mknod(p) \/ mknod_add(p) \/ drop(p)
    \/ mkdir(p) \/ mkdir_block(p) \/ mkdir_fill(p) \/ mkdir_add(p) \/ mkdir_free(p)
    \/ rmdir(p) \/ empty_dir(p) \/ empty_scan(p) \/ empty_next(p) \/ rmdir_empty(p)
    \/ unlink(p) \/ link(p) \/ link_add(p) \/ link_done(p)
    \/ open_dir(p) \/ open_found(p) \/ open_new(p) \/ open_add(p) \/ open_inode(p)
    \/ file_write(p) \/ file_written(p)

-----------------------------------------------------------------------------
open_done(p) ==
    /\ At(p, "open_done")
    /\ fd' = [fd EXCEPT ![p] = Top(p).inode]
    /\ Return(p, 0) /\ Keep(p) /\ SamePlace /\ UNCHANGED <<calls, readErrors>>

\* A program's system call: the frames it begins with.
Bound == IF readErrors THEN MaxWornCalls ELSE MaxCalls
Begins(p, frames) ==
    /\ stack[p] = <<>> /\ running = NoProc /\ panic = "" /\ race = {} /\ calls < Bound
    /\ stack' = [stack EXCEPT ![p] = frames]
    /\ running' = p /\ calls' = calls + 1 /\ SamePlace /\ UNCHANGED readErrors

open(p) ==
    /\ fd[p] = NoSlot
    /\ \E path \in Paths, flags \in OpenFlags :
          Begins(p, <<DirNamei(path), F("open_dir", [name |-> Last(path), flags |-> flags])>>)
    /\ UNCHANGED fd
write(p) ==
    /\ fd[p] # NoSlot /\ table[fd[p]].mode = "reg"
    /\ \E b \in WriteBlocks :
          Begins(p, <<Bmap(fd[p], b, TRUE), F("file_write", [s |-> fd[p], b |-> b])>>)
    /\ UNCHANGED fd
close(p) ==
    /\ fd[p] # NoSlot /\ Begins(p, <<Iput(fd[p], 0)>>)
    /\ fd' = [fd EXCEPT ![p] = NoSlot]
change(p) ==
    /\ \E path \in Paths, call \in Calls :
          \E mode \in (IF call = "mknod" THEN Specials ELSE {"dir"}) :
             Begins(p, Lookup(call, path, mode))
    /\ UNCHANGED fd
new_link(p) ==
    /\ \E old, new \in Paths :
          Begins(p, <<DirNamei(old), F("namei", [name |-> Last(old)]), F("link", [new |-> new])>>)
    /\ UNCHANGED fd
sync(p) == Begins(p, <<F("sync_inodes", [left |-> Slots])>>) /\ UNCHANGED fd

\* The device when it is mounted: `inodes' and `blocks' say what is on it.
\* mount_root has read the root directory's inode, which stays in the table.
Mounted(inodes, blocks) ==
    /\ imap = DOMAIN inodes /\ zmap = DOMAIN blocks
    /\ disk = [n \in Inums |-> IF n \in imap THEN inodes[n] ELSE DInode(NoInode)]
    /\ block = [z \in Zones |-> IF z \in zmap THEN blocks[z] ELSE Cleared]
    /\ table = [s \in Slots |-> IF s # CHOOSE t \in Slots : TRUE THEN NoInode
                   ELSE With(inodes[ROOT_INO], [NoInode EXCEPT !.num = ROOT_INO, !.count = 1])]

Block(entries) == [c \in 0 .. PER_BLOCK - 1 |->
                     IF c < Len(entries) THEN [name |-> entries[c + 1][1], nr |-> entries[c + 1][2]]
                     ELSE Cleared[c]]
Dir(nr, up, more) == Block(<< <<Dot, nr>>, <<DotDot, up>> >> \o more)
Indirect(zones) == Block([i \in DOMAIN zones |-> <<NoName, zones[i]>>])
File(mode, nlinks, size, z0, ind, dind) ==
    [mode |-> mode, nlinks |-> nlinks, size |-> size,
     zone |-> [NoZones EXCEPT ![0] = z0, ![DIRECT] = ind, ![DIRECT + 1] = dind]]

Formatted == Mounted(<<File("dir", 2, 2, 1, 0, 0)>>, <<Dir(1, 1, <<>>)>>)

\* A device with a directory and in it a file with a block of each kind.
Populated ==
    \E d, x \in {Last(path) : path \in Paths} \ {NoName} :
      /\ <<d, x>> \in Paths
      /\ Mounted(<<File("dir", 3, 3, 1, 0, 0), File("dir", 2, 3, 2, 0, 0),
                   File("reg", 1, DIRECT + PER_BLOCK + 1, 3, 4, 6)>>,
                 <<Dir(1, 1, << <<d, 2>> >>), Dir(2, 1, << <<x, 3>> >>), Cleared,
                   Indirect(<<5>>), Cleared, Indirect(<<7>>), Indirect(<<8>>), Cleared>>)

Init ==
    /\ running = NoProc /\ panic = "" /\ race = {} /\ calls = 0
    /\ stack = [p \in Procs |-> <<>>] /\ fd = [p \in Procs |-> NoSlot]
    /\ (Formatted /\ readErrors = FALSE) \/ (Populated /\ readErrors = TRUE)

Stopped == panic # "" \/ ((calls = Bound \/ race # {}) /\ \A p \in Procs : stack[p] = <<>>)

Step(p) == \/ (InodeStep(p) \/ NameiStep(p)) /\ UNCHANGED <<fd, calls, readErrors>>
           \/ open_done(p)
Call(p) == open(p) \/ write(p) \/ close(p) \/ change(p) \/ new_link(p) \/ sync(p)

Next == \/ \E p \in Procs : MayRun(p) /\ Step(p)
        \/ \E p \in Procs : Call(p)
        \/ Stopped /\ UNCHANGED vars

Spec == Init /\ [][Next]_vars

-----------------------------------------------------------------------------
\* The inode of number n as the system sees it.
Current(n) == IF \E s \in Slots : table[s].num = n
              THEN DInode(table[CHOOSE s \in Slots : table[s].num = n]) ELSE disk[n]
Links(n) == {e \in UNION {Places(Current(d)) : d \in {m \in imap : Current(m).mode = "dir" /\ Current(m).nlinks > 0}} :
               Entry(e).nr = n}

\* The zones of an inode: its data and the blocks that lead to them.
Owned(n) ==
    LET i == Current(n)
        below(z) == {block[z][c].nr : c \in 0 .. PER_BLOCK - 1} \ {0}
        two == UNION {below(z) : z \in {i.zone[DIRECT + 1]} \ {0}}
        ind == two \cup ({i.zone[DIRECT]} \ {0})
    IN  IF i.mode \notin {"reg", "dir"} THEN {}
        ELSE (Range(i.zone) \ {0}) \cup two \cup UNION {below(z) : z \in ind}

\* Everything the properties below claim holds unless a process ran into one of
\* these windows, in which the code relies on what it read before it slept:
\*   dead inode         iget of a number whose entry was removed meanwhile
\*   bmap               two processes allocate the same block of a file
\*   written inode      free_inode clears an inode that sync is writing back
\*   truncate           a file is truncated twice at once, or written meanwhile
\*   held block         free_block of a block whose buffer someone holds
\*   unread             free_ind and free_dind of a block that cannot be read
\*   same name          two entries of the same name
\*   removed directory  an entry added to a directory that rmdir removes
\*   entry reused       unlink or rmdir clears an entry that names another file
\*   no links           unlink of a file that has no links
\*   mkdir undone       mkdir's add_entry fails: its block is freed twice
Quiet == panic = "" /\ race = {} /\ \A p \in Procs : stack[p] = <<>>

\* An inode is in the table once, however many processes iget it at the same
\* time and whatever get_empty_inode reuses meanwhile: iget takes its empty
\* inode first and uses it without sleeping after the search.
OneInodePerNumber ==
    race = {} => \A s, t \in Slots : table[s].num = table[t].num /\ table[s].num # 0 => s = t

\* iput writes an inode back before it lets go of it, so that get_empty_inode
\* never meets an unused one that is dirty or locked.
UnusedIsClean == \A s \in Slots : table[s].count = 0 => ~table[s].dirt /\ ~table[s].lock

\* Between system calls i_nlinks is the number of directory entries that name
\* the inode, whatever mkdir, rmdir, link, unlink, mknod and open did at the
\* same time and however they failed.
LinksMatch == Quiet => \A n \in imap : Current(n).nlinks = Byte(Cardinality(Links(n)))

\* Between system calls the zone bitmap has the blocks of the files and no
\* others, and no block belongs to two files.
ZonesAccounted ==
    Quiet => /\ zmap = UNION {Owned(n) : n \in imap}
             /\ \A m, n \in imap : m # n => Owned(m) \cap Owned(n) = {}

\* Between system calls i_count is the number of files open: every way out of
\* a system call gives back the inodes it got, each once.
CountsMatch ==
    Quiet => \A s \in Slots :
       table[s].count = Cardinality({p \in Procs : fd[p] = s})
                          + (IF table[s].num = ROOT_INO THEN 1 ELSE 0)

\* No panic of inode.c and bitmap.c is reached (a free inode or block freed
\* again, an inode freed while it has links or users) but for an unreadable
\* inode block and a table without a free inode.
KnownPanics == panic # "" /\ race = {} =>
    panic \in {"unable to read i-node block", "No free inodes in mem"}
=============================================================================
