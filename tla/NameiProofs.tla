----------------------------- MODULE NameiProofs -----------------------------
(***************************************************************************)
(* The references to the entries of the inode table, for any number of     *)
(* processes, entries and calls, and whatever is on the disk.              *)
(*                                                                         *)
(* Every frame of a process's stack owns references: to the directory it   *)
(* holds, to the inode it made or found, to the one iput gives back for    *)
(* it.  RefSet(s) has one member for each reference to entry s, from a     *)
(* frame, from a result that is on its way to a frame, or from an open     *)
(* file; CountOK says that i_count is their number, and one more for the   *)
(* mounted root.  The rest of RefInv is what the proof of that needs: each *)
(* frame returns what the one below it waits for (FrameFits), a frame that *)
(* only borrows an inode stands above one that owns it, the inode that     *)
(* get_empty_inode returned is still empty (Ready), an inode that no-one   *)
(* refers to is clean and unlocked, and, as long as no window of `race'    *)
(* was hit, a number is in the table once, only if its bit of the inode    *)
(* bitmap is set, and an inode that iput frees has no other user.          *)
(*                                                                         *)
(* A step of a process is good (StepOK) when the references on its stack   *)
(* and the counts change by the same amounts (StackStep) and it does to    *)
(* each entry one of six things (TableStep).  Good steps keep RefInv       *)
(* (StepKeeps); each action of Inode and Namei is a good step (one lemma   *)
(* <action>Step for each).                                                 *)
(***************************************************************************)
EXTENDS Namei, FiniteSetTheorems, SequenceTheorems, WellFoundedInduction, TLAPS

-----------------------------------------------------------------------------
\* What a frame waits for: an inode, perhaps an inode, the unused inode of
\* get_empty_inode, a directory entry, or nothing it looks at.
TakesInode == {"get_dir_step", "namei_done", "rmdir", "unlink", "open_inode"}
TakesMaybe == {"namei", "lookup", "mknod", "mkdir", "open_new", "link", "open_dir"}
TakesEmpty == {"iget", "new_inode"}
TakesEntry == {"get_dir_found", "namei_found", "found", "open_found"}
Takes(pc) == IF pc \in TakesInode THEN "inode"
             ELSE IF pc \in TakesMaybe THEN "maybe"
             ELSE IF pc \in TakesEmpty THEN "empty"
             ELSE IF pc \in TakesEntry THEN "entry" ELSE "other"

\* What a frame, or the ones it turns into, returns.
Puts == {"iput", "iput_repeat", "iput_free"}
GivesInode == {"read_inode", "iget"}
GivesMaybe == {"new_inode", "get_dir", "get_dir_step", "get_dir_found",
               "namei", "namei_found", "namei_done"}
GivesEntry == {"find_entry", "find_scan", "find_next"}
Plain == {"other", "exit"}   \* to a frame that does not look at it, or to the program
Gives(f, kind) ==
    IF f.pc \in Puts THEN kind \in Plain \/ (kind = "maybe" /\ f.v = NoSlot)
    ELSE IF f.pc \in GivesInode THEN kind \in {"inode", "maybe"}
    ELSE IF f.pc \in GivesMaybe THEN kind = "maybe"
    ELSE IF f.pc = "get_empty_inode" THEN kind = "empty"
    ELSE IF f.pc \in GivesEntry THEN kind = "entry" ELSE kind \in Plain
Kind(t) == IF t = <<>> THEN "exit" ELSE Takes(t[1].pc)

\* The inodes a frame has in its locals, and of these the ones it has a
\* reference to, which it will give back or return.
Borrows == {"truncate", "free_ind", "free_ind_read", "bmap", "bmap_store",
            "find_entry", "find_scan", "find_next", "add_entry", "add_scan", "add_next",
            "empty_dir", "empty_scan", "empty_next", "file_write", "file_written"}
OwnsS == Puts \cup {"read_inode"}
HasS == Borrows \cup OwnsS \cup {"write_inode", "write_copy"}
HasDirInode == {"mknod_add", "mkdir_block", "mkdir_fill", "mkdir_add", "rmdir_empty",
                "link_add", "open_add"}
HasDir == HasDirInode \cup {"get_dir_found", "namei_found", "found", "open_found",
                            "mknod", "mkdir", "open_new", "rmdir", "unlink"}
HasInode == HasDirInode \cup {"drop", "mkdir_free", "link_done", "open_done"}
HasArg(f) == f.pc \in {"lookup", "found"} /\ f.call = "link"

Owns(f, s) ==
    (IF f.pc \in OwnsS /\ f.s = s THEN 1 ELSE 0)
    + (IF f.pc \in HasDir /\ f.dir = s THEN 1 ELSE 0)
    + (IF f.pc \in HasInode /\ f.inode = s THEN 1 ELSE 0)
    + (IF HasArg(f) /\ f.arg = s THEN 1 ELSE 0)

\* w[1] + ... + w[n], and the references of a whole stack.
Total(n, w) == LET sum[k \in 0 .. n] == IF k = 0 THEN 0 ELSE sum[k - 1] + w[k] IN sum[n]
Owning(st, s) == Total(Len(st), [k \in 1 .. Len(st) |-> Owns(st[Len(st) + 1 - k], s)])

-----------------------------------------------------------------------------
\* The locals a frame has, and what is known of them: f is a frame that
\* returns a result of this kind to the frames below it, which own n
\* references to f.s, and d is the file the process has open.
CallNames == {"mknod", "mkdir", "rmdir", "unlink", "link"}
Opens == {"open_dir", "open_found", "open_new", "open_add", "open_inode", "open_done"}

Fields(f) ==
    /\ f = [x \in DOMAIN f |-> f[x]] /\ "pc" \in DOMAIN f /\ "r" \in DOMAIN f
    /\ f.pc \in HasS => "s" \in DOMAIN f /\ f.s \in Slots
    /\ f.pc \in HasDir => "dir" \in DOMAIN f /\ f.dir \in Slots
    /\ f.pc \in HasInode => "inode" \in DOMAIN f /\ f.inode \in Slots
    /\ f.pc \in Puts => "v" \in DOMAIN f
    /\ f.pc \in {"lookup", "found"} => /\ "call" \in DOMAIN f /\ f.call \in CallNames
                                       /\ "arg" \in DOMAIN f
                                       /\ f.call = "link" => f.arg \in Slots
    /\ f.pc = "iget" => f.nr # 0
    /\ f.pc = "sync_inodes" => f.left \subseteq Slots

FrameFits(f, kind, n, d) ==
    /\ Fields(f) /\ Gives(f, kind)
    /\ f.pc \in Borrows => n >= 1 \/ d = f.s
    /\ f.pc \in Opens => d = NoSlot /\ kind = "exit"
FrameOK(f, t, d) == FrameFits(f, Kind(t), Owning(t, f.s), d)

IsStack(st) == st \in Seq({st[i] : i \in DOMAIN st})
StackOK(st, d) ==
    /\ IsStack(st)
    /\ \A i \in 1 .. Len(st) : FrameOK(st[i], SubSeq(st, i + 1, Len(st)), d)

\* The result that has reached a frame is what it waits for.
TopOK(f) ==
    /\ Takes(f.pc) \in {"inode", "empty"} => f.r \in Slots
    /\ Takes(f.pc) = "maybe" => f.r \in Slots \cup {NoSlot}

-----------------------------------------------------------------------------
\* A process's references: those of its frames, the result on its way to the
\* one that runs, the open file.
Waits(f, s) == IF Takes(f.pc) \in {"inode", "maybe", "empty"} /\ f.r = s THEN 1 ELSE 0
Opened(d, s) == IF d = s THEN 1 ELSE 0
Refs(st, d, s) == Owning(st, s) + (IF st = <<>> THEN 0 ELSE Waits(st[1], s))
                    + Opened(d, s)
RefSet(s) == UNION {{<<p, n>> : n \in 1 .. Refs(stack[p], fd[p], s)} : p \in Procs}

\* The entry the root directory has from the mount on.
Root == CHOOSE t \in Slots : TRUE

\* Types.
InodeFields == {"num", "count", "dirt", "lock", "mode", "nlinks", "size", "zone"}
IsInode(i) == /\ i = [x \in InodeFields |-> i[x]] /\ i.count \in Nat
              /\ i.dirt \in BOOLEAN /\ i.lock \in BOOLEAN
TableOK == table = [s \in Slots |-> table[s]] /\ \A s \in Slots : IsInode(table[s])
Good(p) == StackOK(stack[p], fd[p]) /\ (stack[p] # <<>> => TopOK(stack[p][1]))
StacksOK ==
    /\ stack = [p \in Procs |-> stack[p]] /\ fd \in [Procs -> Slots \cup {NoSlot}]
    /\ \A p \in Procs : Good(p)

\* i_count is the number of references.
Mounts(s) == IF s = Root THEN 1 ELSE 0
CountOK ==
    \A s \in Slots : /\ IsFiniteSet(RefSet(s))
                     /\ table[s].count = Cardinality(RefSet(s)) + Mounts(s)
RootOK ==
    /\ table[Root].num = ROOT_INO /\ ROOT_INO \in imap
    /\ \A s \in Slots \ {Root} : table[s].num # ROOT_INO

\* What get_empty_inode returned is still unused when the frame that called it
\* runs; a directory entry that find_entry returned is one (no process but p
\* has run since).
Fresh(s) == table[s].num = 0 /\ table[s].count = 1 /\ ~table[s].dirt /\ ~table[s].lock
Ready(p) ==
    stack[p] # <<>> =>
       /\ Takes(stack[p][1].pc) = "empty" => Fresh(stack[p][1].r)
       /\ Takes(stack[p][1].pc) = "entry" =>
             stack[p][1].r = NoEntry \/ (running = p /\ Entry(stack[p][1].r).nr # 0)
ReadyOK == \A p \in Procs : Ready(p)

\* Of the numbers in the table, the inodes that iput is about to free, and the
\* panics that would say that a count was wrong.
InTable == \A s \in Slots : table[s].num # 0 => table[s].num \in imap
Freeing(st) == {st[i].s : i \in {j \in DOMAIN st : st[j].pc = "iput_free"}}
FreeOK ==
    \A p \in Procs : \A s \in Freeing(stack[p]) : table[s].count = 1 /\ table[s].nlinks = 0
InodePanics == {"iput: trying to free free inode", "free_inode", "trying to free inode with links"}
PanicOK == race = {} => panic \notin InodePanics

RefInv ==
    /\ TableOK /\ StacksOK /\ CountOK /\ RootOK /\ ReadyOK
    /\ UnusedIsClean
    /\ race = {} => OneInodePerNumber /\ InTable /\ FreeOK
    /\ PanicOK

-----------------------------------------------------------------------------
\* Sums.
LEMMA LeastNat ==
    ASSUME NEW S \in SUBSET Nat, S # {}
    PROVE  \E x \in S : \A y \in S : x <= y
<1>1. PICK less : less = {ss \in Nat \X Nat : ss[1] < ss[2]}
  OBVIOUS
<1>2. IsWellFoundedOn(less, Nat)
  BY <1>1, NatLessThanWellFounded DEF OpToRel
<1>3. PICK x \in S : \A y \in S : <<y, x>> \notin less
  BY <1>2, WFMin
<1>4. \A y \in S : x \in Nat /\ y \in Nat /\ ~(y < x)
  <2> TAKE y \in S
  <2>1. x \in Nat /\ y \in Nat
    BY <1>3
  <2>2. <<y, x>> \in Nat \X Nat /\ <<y, x>>[1] = y /\ <<y, x>>[2] = x
    BY <2>1
  <2> QED BY <1>1, <1>3, <2>1, <2>2
<1> QED BY <1>3, <1>4

LEMMA MinIn ==
    ASSUME NEW S \in SUBSET Nat, S # {}
    PROVE  Min(S) \in S
<1>1. PICK x \in S : \A y \in S : x <= y
  BY LeastNat
<1> QED BY <1>1 DEF Min

IsSum(g, n, w) == g = [k \in 0 .. n |-> IF k = 0 THEN 0 ELSE g[k - 1] + w[k]]

LEMMA SumExists ==
    ASSUME NEW n \in Nat, NEW w
    PROVE  \E g : IsSum(g, n, w)
<1> PICK Bad : Bad = {m \in Nat : ~\E g : IsSum(g, m, w)}
  OBVIOUS
<1> SUFFICES ASSUME n \in Bad PROVE FALSE
  OBVIOUS
<1>1. PICK b \in Bad : \A i \in Bad : b <= i
  BY LeastNat
<1>2. b \in Nat /\ ~\E g : IsSum(g, b, w)
  OBVIOUS
<1>3. b # 0
  <2>1. PICK g : g = [k \in 0 .. 0 |-> 0]
    OBVIOUS
  <2>2. IsSum(g, 0, w)
    BY <2>1 DEF IsSum
  <2> QED BY <1>2, <2>2
<1>4. b - 1 \in Nat /\ b - 1 \notin Bad
  BY <1>1, <1>2, <1>3
<1>5. PICK g : IsSum(g, b - 1, w)
  BY <1>4
<1>6. PICK h : h = [k \in 0 .. b |-> IF k = b THEN g[b - 1] + w[b] ELSE g[k]]
  OBVIOUS
<1>7. IsSum(h, b, w)
  <2>1. \A k \in 0 .. b : h[k] = IF k = 0 THEN 0 ELSE h[k - 1] + w[k]
    <3> TAKE k \in 0 .. b
    <3>1. CASE k = b
      <4>1. b - 1 \in 0 .. b /\ b - 1 # b
        BY <1>2, <1>3
      <4> QED BY <1>3, <1>6, <3>1, <4>1
    <3>2. CASE k # b
      <4>1. k \in 0 .. b - 1 /\ (k # 0 => k - 1 \in 0 .. b /\ k - 1 # b)
        BY <1>2, <3>2
      <4>2. g[k] = IF k = 0 THEN 0 ELSE g[k - 1] + w[k]
        BY <1>5, <4>1 DEF IsSum
      <4> QED BY <1>6, <3>2, <4>1, <4>2
    <3> QED BY <3>1, <3>2
  <2> QED BY <1>6, <2>1 DEF IsSum
<1> QED BY <1>2, <1>7

LEMMA TotalIs ==
    ASSUME NEW n \in Nat, NEW w
    PROVE  \E g : IsSum(g, n, w) /\ Total(n, w) = g[n]
<1> DEFINE sum == CHOOSE g : g = [k \in 0 .. n |-> IF k = 0 THEN 0 ELSE g[k - 1] + w[k]]
<1>1. IsSum(sum, n, w)
  BY SumExists DEF IsSum
<1>2. Total(n, w) = sum[n]
  BY DEF Total
<1> QED BY <1>1, <1>2

LEMMA SumUnique ==
    ASSUME NEW n \in Nat, NEW m \in Nat, m <= n, NEW w, NEW v,
           \A k \in 1 .. m : v[k] = w[k],
           NEW g, IsSum(g, m, v), NEW h, IsSum(h, n, w)
    PROVE  \A k \in 0 .. m : g[k] = h[k]
<1> PICK Bad : Bad = {k \in 0 .. m : g[k] # h[k]}
  OBVIOUS
<1> SUFFICES ASSUME Bad # {} PROVE FALSE
  OBVIOUS
<1>1. PICK b \in Bad : \A i \in Bad : b <= i
  BY LeastNat
<1>2. b \in 0 .. m /\ b \in 0 .. n /\ g[b] # h[b]
  OBVIOUS
<1>3. /\ g[b] = IF b = 0 THEN 0 ELSE g[b - 1] + v[b]
      /\ h[b] = IF b = 0 THEN 0 ELSE h[b - 1] + w[b]
  BY <1>2 DEF IsSum
<1>4. b # 0
  BY <1>2, <1>3
<1>5. b \in 1 .. m /\ b - 1 \in 0 .. m /\ b - 1 \notin Bad
  BY <1>1, <1>2, <1>4
<1> QED BY <1>2, <1>3, <1>5

\* The equations of Total.
LEMMA TotalNone == \A w : Total(0, w) = 0
<1> TAKE w
<1>1. PICK g : IsSum(g, 0, w) /\ Total(0, w) = g[0]
  BY TotalIs
<1> QED BY <1>1 DEF IsSum

LEMMA TotalMore ==
    ASSUME NEW n \in Nat, NEW w, NEW v, \A k \in 1 .. n : v[k] = w[k]
    PROVE  Total(n + 1, w) = Total(n, v) + w[n + 1]
<1>1. PICK g : IsSum(g, n, v) /\ Total(n, v) = g[n]
  BY TotalIs
<1>2. PICK h : IsSum(h, n + 1, w) /\ Total(n + 1, w) = h[n + 1]
  BY TotalIs
<1>3. h[n + 1] = h[n] + w[n + 1]
  <2>1. n + 1 \in 0 .. n + 1 /\ n + 1 # 0 /\ (n + 1) - 1 = n
    OBVIOUS
  <2> QED BY <1>2, <2>1 DEF IsSum
<1>4. \A k \in 0 .. n : g[k] = h[k]
  <2>1. n + 1 \in Nat /\ n <= n + 1
    OBVIOUS
  <2> QED BY <1>1, <1>2, <2>1, SumUnique
<1> QED BY <1>1, <1>2, <1>3, <1>4
-----------------------------------------------------------------------------
\* Stacks.
LEMMA SameSeq ==
    ASSUME NEW S, NEW a \in Seq(S), NEW b \in Seq(S), Len(a) = Len(b),
           \A i \in 1 .. Len(a) : a[i] = b[i]
    PROVE  a = b
OBVIOUS

LEMMA PushFacts ==
    ASSUME NEW t, IsStack(t), NEW f
    PROVE  /\ IsStack(<<f>> \o t)
           /\ Len(<<f>> \o t) = Len(t) + 1 /\ Len(t) \in Nat
           /\ <<f>> \o t # <<>>
           /\ (<<f>> \o t)[1] = f
           /\ \A i \in 1 .. Len(t) : (<<f>> \o t)[i + 1] = t[i]
           /\ Head(<<f>> \o t) = f /\ Tail(<<f>> \o t) = t
<1>1. PICK S : S = {t[i] : i \in DOMAIN t} \cup {f}
  OBVIOUS
<1>2. t \in Seq(S) /\ <<f>> \in Seq(S)
  BY <1>1 DEF IsStack
<1>3. PICK st : st = <<f>> \o t
  OBVIOUS
<1>4. /\ st \in Seq(S) /\ Len(st) = Len(t) + 1 /\ Len(t) \in Nat /\ st # <<>> /\ st[1] = f
  BY <1>2, <1>3
<1>5. \A i \in 1 .. Len(t) : st[i + 1] = t[i]
  BY <1>2, <1>3
<1>6. IsStack(st)
  <2>1. DOMAIN st = 1 .. Len(st)
    BY <1>4
  <2> QED BY <1>4, <2>1 DEF IsStack
<1>7. Head(st) = f /\ Tail(st) = t
  <2>1. Head(st) = f
    BY <1>4
  <2>2. Tail(st) \in Seq(S) /\ Len(Tail(st)) = Len(t)
    BY <1>4
  <2>3. \A i \in 1 .. Len(t) : Tail(st)[i] = t[i]
    BY <1>4, <1>5
  <2> QED BY <1>2, <2>1, <2>2, <2>3
<1> QED BY <1>3, <1>4, <1>5, <1>6, <1>7

LEMMA PopFacts ==
    ASSUME NEW st, IsStack(st), st # <<>>
    PROVE  /\ st = <<st[1]>> \o Tail(st) /\ IsStack(Tail(st))
           /\ Head(st) = st[1] /\ Len(st) \in Nat \ {0} /\ Len(Tail(st)) = Len(st) - 1
           /\ \A i \in 1 .. Len(st) - 1 : Tail(st)[i] = st[i + 1]
<1>1. PICK S : S = {st[i] : i \in DOMAIN st} /\ st \in Seq(S)
  BY DEF IsStack
<1>2. PICK t : t = Tail(st)
  OBVIOUS
<1>3. /\ t \in Seq(S) /\ Len(t) = Len(st) - 1 /\ Len(st) \in Nat \ {0} /\ Head(st) = st[1]
      /\ st[1] \in S
  BY <1>1, <1>2
<1>4. \A i \in 1 .. Len(st) - 1 : t[i] = st[i + 1]
  BY <1>1, <1>2
<1>5. IsStack(t)
  <2>1. DOMAIN t = 1 .. Len(t)
    BY <1>3
  <2> QED BY <1>3, <2>1 DEF IsStack
<1>6. st = <<st[1]>> \o t
  <2>1. PICK u : u = <<st[1]>> \o t
    OBVIOUS
  <2>2. u \in Seq(S) /\ Len(u) = Len(st) /\ u[1] = st[1]
    BY <1>3, <2>1
  <2>3. \A i \in 1 .. Len(st) : u[i] = st[i]
    <3> TAKE i \in 1 .. Len(st)
    <3>1. CASE i = 1
      BY <2>2, <3>1
    <3>2. CASE i # 1
      <4>1. i - 1 \in 1 .. Len(t) /\ (i - 1) + 1 = i
        BY <1>3, <3>2
      <4>2. u[(i - 1) + 1] = t[i - 1]
        BY <1>5, <2>1, <4>1, PushFacts
      <4> QED BY <1>3, <1>4, <4>1, <4>2
    <3> QED BY <3>1, <3>2
  <2>4. st = u
    BY <1>1, <2>2, <2>3, SameSeq
  <2> QED BY <2>1, <2>4
<1> QED BY <1>2, <1>3, <1>4, <1>5, <1>6

LEMMA OwnsNat == \A f, s : Owns(f, s) \in Nat
BY DEF Owns

LEMMA OwningNone == \A s : Owning(<<>>, s) = 0
<1> TAKE s
<1>1. Len(<<>>) = 0
  OBVIOUS
<1> QED BY <1>1, TotalNone DEF Owning

LEMMA OwningCons ==
    ASSUME NEW t, IsStack(t), NEW f, NEW s
    PROVE  Owning(<<f>> \o t, s) = Owning(t, s) + Owns(f, s)
<1>a. PICK st, n : st = <<f>> \o t /\ n = Len(t)
  OBVIOUS
<1>1. n \in Nat /\ Len(st) = n + 1 /\ st[1] = f /\ \A i \in 1 .. n : st[i + 1] = t[i]
  BY <1>a, PushFacts
<1>b. PICK w, v : /\ w = [k \in 1 .. n + 1 |-> Owns(st[(n + 1) + 1 - k], s)]
                  /\ v = [k \in 1 .. n |-> Owns(t[n + 1 - k], s)]
  OBVIOUS
<1>2. \A k \in 1 .. n : v[k] = w[k]
  <2> TAKE k \in 1 .. n
  <2>1. n + 1 - k \in 1 .. n /\ (n + 1) + 1 - k = (n + 1 - k) + 1 /\ k \in 1 .. n + 1
    BY <1>1
  <2>2. st[(n + 1 - k) + 1] = t[n + 1 - k]
    BY <1>1, <2>1
  <2> QED BY <1>b, <2>1, <2>2
<1>3. w[n + 1] = Owns(f, s)
  <2>1. n + 1 \in 1 .. n + 1 /\ (n + 1) + 1 - (n + 1) = 1
    BY <1>1
  <2> QED BY <1>1, <1>b, <2>1
<1>4. Owning(st, s) = Total(n + 1, w) /\ Owning(t, s) = Total(n, v)
  BY <1>1, <1>a, <1>b DEF Owning
<1>5. Total(n + 1, w) = Total(n, v) + w[n + 1]
  BY <1>1, <1>2, TotalMore
<1> QED BY <1>a, <1>3, <1>4, <1>5

LEMMA OwningNat ==
    ASSUME NEW t, IsStack(t), NEW s
    PROVE  Owning(t, s) \in Nat
<1> PICK Bad : Bad = {n \in Nat : \E u : IsStack(u) /\ Len(u) = n /\ Owning(u, s) \notin Nat}
  OBVIOUS
<1>0. Len(t) \in Nat
  BY DEF IsStack
<1> SUFFICES ASSUME Bad # {} PROVE FALSE
  BY <1>0
<1>1. PICK b \in Bad : \A i \in Bad : b <= i
  BY LeastNat
<1>2. PICK u : IsStack(u) /\ Len(u) = b /\ Owning(u, s) \notin Nat
  OBVIOUS
<1>3. u # <<>>
  BY <1>2, OwningNone
<1>4. /\ u = <<u[1]>> \o Tail(u) /\ IsStack(Tail(u)) /\ Len(Tail(u)) = b - 1 /\ b - 1 \in Nat
  BY <1>2, <1>3, PopFacts
<1>5. b - 1 \notin Bad
  <2>1. b \in Nat /\ ~(b <= b - 1)
    BY <1>1
  <2> QED BY <1>1, <2>1
<1>6. Owning(Tail(u), s) \in Nat
  BY <1>4, <1>5
<1>7. Owning(u, s) = Owning(Tail(u), s) + Owns(u[1], s)
  BY <1>4, OwningCons
<1> QED BY <1>2, <1>6, <1>7, OwnsNat

\* What is below frame i does not change when a frame is pushed.
LEMMA PushSub ==
    ASSUME NEW t, IsStack(t), NEW f
    PROVE  /\ SubSeq(<<f>> \o t, 2, Len(t) + 1) = t
           /\ \A i \in 1 .. Len(t) :
                 SubSeq(<<f>> \o t, (i + 1) + 1, Len(t) + 1) = SubSeq(t, i + 1, Len(t))
<1>1. PICK S : S = {t[i] : i \in DOMAIN t} \cup {f}
  OBVIOUS
<1>2. PICK st, n : st = <<f>> \o t /\ n = Len(t)
  OBVIOUS
<1>3. t \in Seq(S) /\ st \in Seq(S) /\ Len(st) = n + 1 /\ n \in Nat /\ Len(t) = n
  BY <1>1, <1>2 DEF IsStack
<1>4. \A i \in 1 .. n : st[i + 1] = t[i]
  BY <1>2, PushFacts
<1>5. SubSeq(st, 2, n + 1) = t
  <2>1. PICK u : u = SubSeq(st, 2, n + 1)
    OBVIOUS
  <2>2. u \in Seq(S) /\ Len(u) = n
    BY <1>3, <2>1
  <2>3. \A i \in 1 .. n : u[i] = t[i]
    BY <1>3, <1>4, <2>1
  <2> QED BY <1>3, <2>1, <2>2, <2>3, SameSeq
<1>6. ASSUME NEW i \in 1 .. n
      PROVE  SubSeq(st, (i + 1) + 1, n + 1) = SubSeq(t, i + 1, n)
  <2>1. PICK u, v : u = SubSeq(st, (i + 1) + 1, n + 1) /\ v = SubSeq(t, i + 1, n)
    OBVIOUS
  <2>2. u \in Seq(S) /\ v \in Seq(S) /\ Len(u) = n - i /\ Len(v) = n - i
    BY <1>3, <2>1
  <2>3. \A j \in 1 .. n - i : u[j] = v[j]
    <3> TAKE j \in 1 .. n - i
    <3>1. i + j \in 1 .. n
      BY <1>3
    <3>2. v[j] = t[i + j]
      BY <1>3, <2>1
    <3>3. u[j] = st[(i + j) + 1]
      BY <1>3, <2>1
    <3> QED BY <1>4, <3>1, <3>2, <3>3
  <2> QED BY <1>3, <2>1, <2>2, <2>3, SameSeq
<1> QED BY <1>2, <1>5, <1>6

LEMMA StackPush ==
    ASSUME NEW t, NEW d, StackOK(t, d), NEW f, FrameOK(f, t, d)
    PROVE  StackOK(<<f>> \o t, d)
<1>1. PICK st, n : st = <<f>> \o t /\ n = Len(t)
  OBVIOUS
<1>2. IsStack(t)
  BY DEF StackOK
<1>3. /\ IsStack(st) /\ Len(st) = n + 1 /\ n \in Nat /\ st[1] = f
      /\ \A i \in 1 .. n : st[i + 1] = t[i]
  BY <1>1, <1>2, PushFacts
<1>4. /\ SubSeq(st, 2, n + 1) = t
      /\ \A i \in 1 .. n : SubSeq(st, (i + 1) + 1, n + 1) = SubSeq(t, i + 1, n)
  BY <1>1, <1>2, PushSub
<1>5. \A i \in 1 .. n + 1 : FrameOK(st[i], SubSeq(st, i + 1, n + 1), d)
  <2> TAKE i \in 1 .. n + 1
  <2>1. CASE i = 1
    <3>1. FrameOK(st[1], SubSeq(st, 2, n + 1), d)
      BY <1>3, <1>4
    <3>2. 1 + 1 = 2
      OBVIOUS
    <3> QED BY <2>1, <3>1, <3>2
  <2>2. CASE i # 1
    <3>1. PICK j : j = i - 1 /\ j \in 1 .. n /\ i = j + 1
      BY <1>3, <2>2
    <3>2. FrameOK(t[j], SubSeq(t, j + 1, n), d)
      BY <1>1, <3>1 DEF StackOK
    <3>3. FrameOK(st[j + 1], SubSeq(st, (j + 1) + 1, n + 1), d)
      BY <1>3, <1>4, <3>1, <3>2
    <3> QED BY <3>1, <3>3
  <2> QED BY <2>1, <2>2
<1> QED BY <1>1, <1>3, <1>5 DEF StackOK

LEMMA StackPop ==
    ASSUME NEW st, NEW d, StackOK(st, d), st # <<>>
    PROVE  FrameOK(st[1], Tail(st), d) /\ StackOK(Tail(st), d)
<1>1. PICK t, f, n : t = Tail(st) /\ f = st[1] /\ n = Len(t)
  OBVIOUS
<1>2. IsStack(st)
  BY DEF StackOK
<1>3. IsStack(t) /\ st = <<f>> \o t /\ n + 1 = Len(st) /\ n \in Nat
  BY <1>1, <1>2, PopFacts
<1>4. /\ SubSeq(st, 2, n + 1) = t
      /\ \A i \in 1 .. n : SubSeq(st, (i + 1) + 1, n + 1) = SubSeq(t, i + 1, n)
  BY <1>1, <1>3, PushSub
<1>5. \A i \in 1 .. n : st[i + 1] = t[i]
  BY <1>1, <1>3, PushFacts
<1>6. \A i \in 1 .. n + 1 : FrameOK(st[i], SubSeq(st, i + 1, n + 1), d)
  BY <1>3 DEF StackOK
<1>7. FrameOK(f, t, d)
  <2>1. 1 \in 1 .. n + 1 /\ 1 + 1 = 2
    BY <1>3
  <2> QED BY <1>1, <1>4, <1>6, <2>1
<1>8. \A i \in 1 .. n : FrameOK(t[i], SubSeq(t, i + 1, n), d)
  <2> TAKE i \in 1 .. n
  <2>1. i + 1 \in 1 .. n + 1
    BY <1>3
  <2> QED BY <1>4, <1>5, <1>6, <2>1
<1> QED BY <1>1, <1>3, <1>7, <1>8 DEF StackOK

LEMMA StackEmpty == \A d : StackOK(<<>>, d)
<1>1. IsStack(<<>>)
  BY DEF IsStack
<1>2. Len(<<>>) = 0
  OBVIOUS
<1> QED BY <1>1, <1>2 DEF StackOK

-----------------------------------------------------------------------------
\* The inodes that a stack is about to free.
Frees(f) == IF f.pc = "iput_free" THEN {f.s} ELSE {}

LEMMA FreeingPush ==
    ASSUME NEW t, IsStack(t), NEW g
    PROVE  Freeing(<<g>> \o t) = Freeing(t) \cup Frees(g)
<1>1. PICK u, n : u = <<g>> \o t /\ n = Len(t)
  OBVIOUS
<1>2. /\ IsStack(u) /\ Len(u) = n + 1 /\ n \in Nat /\ u[1] = g
      /\ \A i \in 1 .. n : u[i + 1] = t[i]
  BY <1>1, PushFacts
<1>3. DOMAIN u = 1 .. n + 1 /\ DOMAIN t = 1 .. n
  BY <1>1, <1>2 DEF IsStack
<1>4. ASSUME NEW s \in Freeing(u) PROVE s \in Freeing(t) \cup Frees(g)
  <2>1. PICK i \in 1 .. n + 1 : u[i].pc = "iput_free" /\ s = u[i].s
    BY <1>3 DEF Freeing
  <2>2. CASE i = 1
    BY <1>2, <2>1, <2>2 DEF Frees
  <2>3. CASE i # 1
    <3>1. i - 1 \in 1 .. n /\ u[(i - 1) + 1] = t[i - 1] /\ (i - 1) + 1 = i
      BY <1>2, <2>3
    <3> QED BY <1>3, <2>1, <3>1 DEF Freeing
  <2> QED BY <2>2, <2>3
<1>5. Frees(g) \subseteq Freeing(u)
  <2>1. 1 \in DOMAIN u
    BY <1>2, <1>3
  <2> QED BY <1>2, <2>1 DEF Frees, Freeing
<1>6. ASSUME NEW s \in Freeing(t) PROVE s \in Freeing(u)
  <2>1. PICK i \in 1 .. n : t[i].pc = "iput_free" /\ s = t[i].s
    BY <1>3 DEF Freeing
  <2>2. i + 1 \in 1 .. n + 1 /\ u[i + 1] = t[i]
    BY <1>2, <2>1
  <2> QED BY <1>3, <2>1, <2>2 DEF Freeing
<1> QED BY <1>1, <1>4, <1>5, <1>6

\* Each of them is one the stack has a reference to.
LEMMA FreeingOwned ==
    ASSUME NEW st, IsStack(st), NEW s \in Freeing(st)
    PROVE  Owning(st, s) >= 1 /\ Owning(st, s) \in Nat
<1> PICK Bad : Bad = {n \in Nat : \E u : IsStack(u) /\ Len(u) = n /\ s \in Freeing(u)
                                           /\ ~(Owning(u, s) >= 1)}
  OBVIOUS
<1>0. Len(st) \in Nat /\ Owning(st, s) \in Nat
  BY OwningNat DEF IsStack
<1> SUFFICES ASSUME Bad # {} PROVE FALSE
  BY <1>0
<1>1. PICK b \in Bad : \A i \in Bad : b <= i
  BY LeastNat
<1>2. PICK u : IsStack(u) /\ Len(u) = b /\ s \in Freeing(u) /\ ~(Owning(u, s) >= 1)
  OBVIOUS
<1>3. u # <<>>
  BY <1>2 DEF Freeing
<1>4. PICK t : t = Tail(u)
  OBVIOUS
<1>5. /\ u = <<u[1]>> \o t /\ IsStack(t) /\ Len(t) = b - 1 /\ b - 1 \in Nat
  BY <1>2, <1>3, <1>4, PopFacts
<1>6. b - 1 \notin Bad
  <2>1. b \in Nat /\ ~(b <= b - 1)
    BY <1>1
  <2> QED BY <1>1, <2>1
<1>7. /\ Owning(u, s) = Owning(t, s) + Owns(u[1], s)
      /\ Owning(t, s) \in Nat /\ Owns(u[1], s) \in Nat
  BY <1>5, OwningCons, OwningNat, OwnsNat
<1>8. s \in Freeing(t) \/ s \in Frees(u[1])
  BY <1>2, <1>5, FreeingPush
<1>9. CASE s \in Freeing(t)
  BY <1>2, <1>5, <1>6, <1>7, <1>9
<1>10. CASE s \in Frees(u[1])
  <2>1. Owns(u[1], s) >= 1
    BY <1>10 DEF Owns, Frees, OwnsS, Puts
  <2> QED BY <1>2, <1>7, <2>1
<1> QED BY <1>8, <1>9, <1>10

-----------------------------------------------------------------------------
\* The stack of a process whose frame is replaced, or returns v.
LEMMA Top1 ==
    ASSUME NEW st, NEW d, StackOK(st, d), st # <<>>
    PROVE  /\ IsStack(st) /\ IsStack(Tail(st)) /\ st = <<st[1]>> \o Tail(st)
           /\ StackOK(Tail(st), d) /\ Fields(st[1])
           /\ FrameFits(st[1], Kind(Tail(st)), Owning(Tail(st), st[1].s), d)
           /\ \A s : /\ Owning(st, s) = Owning(Tail(st), s) + Owns(st[1], s)
                     /\ Owning(Tail(st), s) \in Nat /\ Owns(st[1], s) \in Nat
                     /\ Waits(st[1], s) \in Nat
                     /\ Refs(st, d, s) = Owning(Tail(st), s) + Owns(st[1], s) + Waits(st[1], s)
                                          + Opened(d, s)
<1>1. IsStack(st) /\ IsStack(Tail(st)) /\ st = <<st[1]>> \o Tail(st)
  BY PopFacts DEF StackOK
<1>2. StackOK(Tail(st), d) /\ FrameFits(st[1], Kind(Tail(st)), Owning(Tail(st), st[1].s), d)
  BY StackPop DEF FrameOK
<1>3. ASSUME NEW s
      PROVE  /\ Owning(st, s) = Owning(Tail(st), s) + Owns(st[1], s)
             /\ Owning(Tail(st), s) \in Nat /\ Owns(st[1], s) \in Nat
             /\ Waits(st[1], s) \in Nat
             /\ Refs(st, d, s) = Owning(Tail(st), s) + Owns(st[1], s) + Waits(st[1], s)
                                          + Opened(d, s)
  <2>1. Owning(st, s) = Owning(Tail(st), s) + Owns(st[1], s)
    BY <1>1, OwningCons
  <2>2. Owning(Tail(st), s) \in Nat /\ Owns(st[1], s) \in Nat
    BY <1>1, OwningNat, OwnsNat
  <2>3. Waits(st[1], s) \in Nat
    BY DEF Waits
  <2> QED BY <2>1, <2>2, <2>3 DEF Refs
<1>4. Fields(st[1])
  BY <1>2 DEF FrameFits
<1> QED BY <1>1, <1>2, <1>3, <1>4

LEMMA TopRefs ==
    ASSUME NEW st, NEW d, StackOK(st, d), st # <<>>, NEW t, t = Tail(st), NEW s
    PROVE  /\ Owning(t, s) \in Nat /\ Owns(st[1], s) \in Nat /\ Waits(st[1], s) \in Nat
           /\ Refs(st, d, s) = Owning(t, s) + Owns(st[1], s) + Waits(st[1], s)
                                + Opened(d, s)
<1>1. IsStack(st) /\ IsStack(t) /\ st = <<st[1]>> \o t
  BY PopFacts DEF StackOK
<1>2. Owning(st, s) = Owning(t, s) + Owns(st[1], s)
  BY <1>1, OwningCons
<1>3. Owning(t, s) \in Nat /\ Owns(st[1], s) \in Nat
  BY <1>1, OwningNat, OwnsNat
<1>4. Waits(st[1], s) \in Nat /\ Opened(d, s) \in Nat
  BY DEF Waits, Opened
<1>5. Refs(st, d, s) = Owning(st, s) + Waits(st[1], s) + Opened(d, s)
  BY DEF Refs
<1> QED BY <1>2, <1>3, <1>4, <1>5

LEMMA Push1 ==
    ASSUME NEW t, NEW d, StackOK(t, d),
           NEW g, FrameFits(g, Kind(t), Owning(t, g.s), d)
    PROVE  /\ StackOK(<<g>> \o t, d) /\ <<g>> \o t # <<>> /\ (<<g>> \o t)[1] = g
           /\ Kind(<<g>> \o t) = Takes(g.pc)
           /\ \A s : /\ Owning(<<g>> \o t, s) = Owning(t, s) + Owns(g, s)
                     /\ Refs(<<g>> \o t, d, s) = Owning(t, s) + Owns(g, s) + Waits(g, s)
                                                  + Opened(d, s)
           /\ Freeing(<<g>> \o t) = Freeing(t) \cup Frees(g)
<1>1. IsStack(t)
  BY DEF StackOK
<1>2. PICK st : st = <<g>> \o t
  OBVIOUS
<1>3. st # <<>> /\ st[1] = g
  BY <1>1, <1>2, PushFacts
<1>4. StackOK(st, d)
  BY <1>2, StackPush DEF FrameOK
<1>5. \A s : Owning(st, s) = Owning(t, s) + Owns(g, s)
  BY <1>1, <1>2, OwningCons
<1>6. Freeing(st) = Freeing(t) \cup Frees(g)
  BY <1>1, <1>2, FreeingPush
<1> QED BY <1>2, <1>3, <1>4, <1>5, <1>6 DEF Refs, Kind

LEMMA Push2 ==
    ASSUME NEW t, NEW d, StackOK(t, d),
           NEW h, FrameFits(h, Kind(t), Owning(t, h.s), d),
           NEW g, FrameFits(g, Takes(h.pc), Owning(t, g.s) + Owns(h, g.s), d)
    PROVE  /\ StackOK(<<g, h>> \o t, d) /\ <<g, h>> \o t # <<>> /\ (<<g, h>> \o t)[1] = g
           /\ Kind(<<g, h>> \o t) = Takes(g.pc)
           /\ \A s : /\ Owning(<<g, h>> \o t, s) = Owning(t, s) + Owns(h, s) + Owns(g, s)
                     /\ Refs(<<g, h>> \o t, d, s) =
                          Owning(t, s) + Owns(h, s) + Owns(g, s) + Waits(g, s)
                            + Opened(d, s)
           /\ Freeing(<<g, h>> \o t) = Freeing(t) \cup Frees(h) \cup Frees(g)
<1>1. PICK u : u = <<h>> \o t
  OBVIOUS
<1>2. /\ StackOK(u, d) /\ Kind(u) = Takes(h.pc)
      /\ \A s : Owning(u, s) = Owning(t, s) + Owns(h, s)
      /\ Freeing(u) = Freeing(t) \cup Frees(h)
  BY <1>1, Push1
<1>3. FrameFits(g, Kind(u), Owning(u, g.s), d)
  BY <1>2
<1>4. <<g, h>> \o t = <<g>> \o u
  <2>1. PICK S : S = {t[i] : i \in DOMAIN t} \cup {g, h}
    OBVIOUS
  <2>2. t \in Seq(S) /\ g \in S /\ h \in S
    BY <2>1 DEF StackOK, IsStack
  <2> QED BY <1>1, <2>2
<1>5. /\ StackOK(<<g>> \o u, d) /\ <<g>> \o u # <<>> /\ (<<g>> \o u)[1] = g
      /\ Kind(<<g>> \o u) = Takes(g.pc)
      /\ \A s : /\ Owning(<<g>> \o u, s) = Owning(u, s) + Owns(g, s)
                /\ Refs(<<g>> \o u, d, s) = Owning(u, s) + Owns(g, s) + Waits(g, s)
                                             + Opened(d, s)
      /\ Freeing(<<g>> \o u) = Freeing(u) \cup Frees(g)
  BY <1>2, <1>3, Push1
<1> QED BY <1>2, <1>4, <1>5

LEMMA Push3 ==
    ASSUME NEW t, NEW d, StackOK(t, d),
           NEW e, FrameFits(e, Kind(t), Owning(t, e.s), d),
           NEW c, FrameFits(c, Takes(e.pc), Owning(t, c.s) + Owns(e, c.s), d),
           NEW b, FrameFits(b, Takes(c.pc), Owning(t, b.s) + Owns(e, b.s) + Owns(c, b.s), d)
    PROVE  /\ StackOK(<<b, c, e>> \o t, d) /\ <<b, c, e>> \o t # <<>> /\ (<<b, c, e>> \o t)[1] = b
           /\ Kind(<<b, c, e>> \o t) = Takes(b.pc)
           /\ \A s : Owning(<<b, c, e>> \o t, s) = Owning(t, s) + Owns(e, s) + Owns(c, s) + Owns(b, s)
           /\ Freeing(<<b, c, e>> \o t) = Freeing(t) \cup Frees(e) \cup Frees(c) \cup Frees(b)
<1>1. PICK u : u = <<c, e>> \o t
  OBVIOUS
<1>2. /\ StackOK(u, d) /\ Kind(u) = Takes(c.pc)
      /\ \A s : Owning(u, s) = Owning(t, s) + Owns(e, s) + Owns(c, s)
      /\ Freeing(u) = Freeing(t) \cup Frees(e) \cup Frees(c)
  BY <1>1, Push2
<1>3. FrameFits(b, Kind(u), Owning(u, b.s), d)
  BY <1>2
<1>4. <<b, c, e>> \o t = <<b>> \o u
  <2>1. PICK S : S = {t[i] : i \in DOMAIN t} \cup {b, c, e}
    OBVIOUS
  <2>2. t \in Seq(S) /\ b \in S /\ c \in S /\ e \in S
    BY <2>1 DEF StackOK, IsStack
  <2>3. <<b, c, e>> = <<b>> \o <<c, e>>
    BY <2>2
  <2>4. <<b>> \in Seq(S) /\ <<c, e>> \in Seq(S)
    BY <2>2
  <2>5. \A x, y \in Seq(S) : (x \o y) \o t = x \o (y \o t)
    BY <2>2, ConcatAssociative
  <2>6. (<<b>> \o <<c, e>>) \o t = <<b>> \o (<<c, e>> \o t)
    BY <2>4, <2>5, Zenon
  <2> QED BY <1>1, <2>3, <2>6
<1>5. /\ StackOK(<<b>> \o u, d) /\ <<b>> \o u # <<>> /\ (<<b>> \o u)[1] = b
      /\ Kind(<<b>> \o u) = Takes(b.pc)
      /\ \A s : Owning(<<b>> \o u, s) = Owning(u, s) + Owns(b, s)
      /\ Freeing(<<b>> \o u) = Freeing(u) \cup Frees(b)
  BY <1>2, <1>3, Push1
<1> QED BY <1>2, <1>4, <1>5

LEMMA Push4 ==
    ASSUME NEW t, NEW d, StackOK(t, d),
           NEW e, FrameFits(e, Kind(t), Owning(t, e.s), d),
           NEW c, FrameFits(c, Takes(e.pc), Owning(t, c.s) + Owns(e, c.s), d),
           NEW b, FrameFits(b, Takes(c.pc), Owning(t, b.s) + Owns(e, b.s) + Owns(c, b.s), d),
           NEW a, FrameFits(a, Takes(b.pc), Owning(t, a.s) + Owns(e, a.s) + Owns(c, a.s) + Owns(b, a.s), d)
    PROVE  /\ StackOK(<<a, b, c, e>> \o t, d) /\ <<a, b, c, e>> \o t # <<>> /\ (<<a, b, c, e>> \o t)[1] = a
           /\ Kind(<<a, b, c, e>> \o t) = Takes(a.pc)
           /\ \A s : Owning(<<a, b, c, e>> \o t, s) = Owning(t, s) + Owns(e, s) + Owns(c, s) + Owns(b, s) + Owns(a, s)
           /\ Freeing(<<a, b, c, e>> \o t) = Freeing(t) \cup Frees(e) \cup Frees(c) \cup Frees(b) \cup Frees(a)
<1>1. PICK u : u = <<b, c, e>> \o t
  OBVIOUS
<1>2. /\ StackOK(u, d) /\ Kind(u) = Takes(b.pc)
      /\ \A s : Owning(u, s) = Owning(t, s) + Owns(e, s) + Owns(c, s) + Owns(b, s)
      /\ Freeing(u) = Freeing(t) \cup Frees(e) \cup Frees(c) \cup Frees(b)
  BY <1>1, Push3
<1>3. FrameFits(a, Kind(u), Owning(u, a.s), d)
  BY <1>2
<1>4. <<a, b, c, e>> \o t = <<a>> \o u
  <2>1. PICK S : S = {t[i] : i \in DOMAIN t} \cup {a, b, c, e}
    OBVIOUS
  <2>2. t \in Seq(S) /\ a \in S /\ b \in S /\ c \in S /\ e \in S
    BY <2>1 DEF StackOK, IsStack
  <2>3. <<a, b, c, e>> = <<a>> \o <<b, c, e>>
    BY <2>2
  <2>4. <<a>> \in Seq(S) /\ <<b, c, e>> \in Seq(S)
    BY <2>2
  <2>5. \A x, y \in Seq(S) : (x \o y) \o t = x \o (y \o t)
    BY <2>2, ConcatAssociative
  <2>6. (<<a>> \o <<b, c, e>>) \o t = <<a>> \o (<<b, c, e>> \o t)
    BY <2>4, <2>5, Zenon
  <2> QED BY <1>1, <2>3, <2>6
<1>5. /\ StackOK(<<a>> \o u, d) /\ <<a>> \o u # <<>> /\ (<<a>> \o u)[1] = a
      /\ Kind(<<a>> \o u) = Takes(a.pc)
      /\ \A s : Owning(<<a>> \o u, s) = Owning(u, s) + Owns(a, s)
      /\ Freeing(<<a>> \o u) = Freeing(u) \cup Frees(a)
  BY <1>2, <1>3, Push1
<1> QED BY <1>2, <1>4, <1>5

\* The top frame returns v to the one below it.
Returned(st, v) == IF Len(st) = 1 THEN <<>>
                   ELSE <<[st[2] EXCEPT !.r = v]>> \o SubSeq(st, 3, Len(st))
Passed(kind, v, s) == IF kind \in {"inode", "maybe", "empty"} /\ v = s THEN 1 ELSE 0

LEMMA ReturnFrame ==
    ASSUME NEW f, NEW kind, NEW n, NEW d, FrameFits(f, kind, n, d), NEW v,
           NEW g, g = [f EXCEPT !.r = v]
    PROVE  /\ FrameFits(g, kind, n, d) /\ g.pc = f.pc /\ g.s = f.s /\ g.r = v
           /\ \A s : Owns(g, s) = Owns(f, s)
<1>1. Fields(f)
  BY DEF FrameFits
<1>2. /\ DOMAIN g = DOMAIN f /\ g.r = v /\ g = [x \in DOMAIN g |-> g[x]]
      /\ "pc" \in DOMAIN f /\ "r" \in DOMAIN f
  BY <1>1 DEF Fields
<1>3. /\ g.pc = f.pc /\ g.s = f.s /\ g.v = f.v /\ g.dir = f.dir /\ g.inode = f.inode
      /\ g.call = f.call /\ g.arg = f.arg /\ g.nr = f.nr /\ g.left = f.left
  OBVIOUS
<1>4. Fields(g)
  BY <1>1, <1>2, <1>3 DEF Fields
<1>5. Gives(g, kind) <=> Gives(f, kind)
  BY <1>3 DEF Gives
<1>6. \A s : Owns(g, s) = Owns(f, s)
  BY <1>3 DEF Owns, HasArg
<1> QED BY <1>2, <1>3, <1>4, <1>5, <1>6 DEF FrameFits

LEMMA ReturnStack ==
    ASSUME NEW st, NEW d, StackOK(st, d), st # <<>>, NEW v,
           NEW kind, kind = Kind(Tail(st)),
           kind \in {"inode", "empty"} => v \in Slots,
           kind = "maybe" => v \in Slots \cup {NoSlot},
           NEW u, u = Returned(st, v)
    PROVE  /\ StackOK(u, d)
           /\ u # <<>> => u[1].r = v /\ Takes(u[1].pc) = kind /\ TopOK(u[1])
           /\ u = <<>> => kind = "exit"
           /\ \A s : Refs(u, d, s) = Refs(st, d, s) - Owns(st[1], s) - Waits(st[1], s)
                                      + Passed(kind, v, s)
           /\ Freeing(u) = Freeing(Tail(st))
<1>1. PICK t, n : t = Tail(st) /\ n = Len(st)
  OBVIOUS
<1>2. /\ IsStack(st) /\ IsStack(t) /\ n \in Nat \ {0} /\ Len(t) = n - 1 /\ StackOK(t, d)
      /\ \A i \in 1 .. n - 1 : t[i] = st[i + 1]
  BY <1>1, PopFacts, StackPop DEF StackOK
<1>3. \A s : /\ Owning(t, s) \in Nat /\ Owns(st[1], s) \in Nat /\ Waits(st[1], s) \in Nat
             /\ Refs(st, d, s) = Owning(t, s) + Owns(st[1], s) + Waits(st[1], s) + Opened(d, s)
  BY <1>1, TopRefs
<1>4. \A s : Opened(d, s) \in Nat /\ Passed(kind, v, s) \in Nat
  BY DEF Opened, Passed
<1>5. CASE n = 1
  <2>1. t = <<>> /\ u = <<>>
    BY <1>1, <1>2, <1>5 DEF IsStack, Returned
  <2>2. kind = "exit"
    BY <1>1, <2>1 DEF Kind
  <2>3. StackOK(u, d)
    BY <2>1, StackEmpty
  <2>4. ASSUME NEW s
        PROVE  Refs(u, d, s) = Refs(st, d, s) - Owns(st[1], s) - Waits(st[1], s) + Passed(kind, v, s)
    <3>1. Owning(t, s) = 0 /\ Passed(kind, v, s) = 0
      BY <2>1, <2>2, OwningNone DEF Passed
    <3>2. Refs(u, d, s) = 0 + Opened(d, s)
      BY <2>1, OwningNone DEF Refs
    <3> QED BY <1>3, <1>4, <3>1, <3>2
  <2> QED BY <1>1, <2>1, <2>2, <2>3, <2>4
<1>6. CASE n # 1
  <2>1. PICK f, g, w : f = t[1] /\ g = [f EXCEPT !.r = v] /\ w = Tail(t)
    OBVIOUS
  <2>2. t # <<>>
    BY <1>2, <1>6
  <2>3. FrameFits(f, Kind(w), Owning(w, f.s), d) /\ StackOK(w, d) /\ IsStack(w) /\ kind = Takes(f.pc)
    BY <1>1, <1>2, <2>1, <2>2, StackPop DEF FrameOK, StackOK, Kind
  <2>4. u = <<g>> \o w
    <3>1. f = st[2]
      <4>1. 1 \in 1 .. n - 1 /\ 1 + 1 = 2
        BY <1>2, <1>6
      <4> QED BY <1>2, <2>1, <4>1
    <3>2. SubSeq(st, 3, n) = w
      <4>1. PICK S : S = {st[i] : i \in DOMAIN st} /\ st \in Seq(S)
        BY <1>2 DEF IsStack
      <4>2. t \in Seq(S)
        BY <1>1, <4>1
      <4>3. w \in Seq(S) /\ Len(w) = n - 2
        BY <1>2, <2>1, <2>2, <4>2
      <4>4. PICK x : x = SubSeq(st, 3, n)
        OBVIOUS
      <4>5. x \in Seq(S) /\ Len(x) = n - 2
        BY <1>1, <1>2, <1>6, <4>1, <4>4, SMTT(30)
      <4>6. \A i \in 1 .. n - 2 : x[i] = w[i]
        <5> TAKE i \in 1 .. n - 2
        <5>1. i + 1 \in 1 .. n - 1 /\ (i + 1) + 1 = i + 2
          BY <1>2
        <5>2. w[i] = t[i + 1]
          BY <1>2, <2>1, <2>2, <4>2
        <5>3. x[i] = st[i + 2]
          BY <1>1, <1>2, <1>6, <4>1, <4>4
        <5> QED BY <1>2, <5>1, <5>2, <5>3
      <4> QED BY <4>3, <4>4, <4>5, <4>6, SameSeq
    <3> QED BY <1>1, <1>6, <2>1, <3>1, <3>2 DEF Returned
  <2>5. /\ FrameFits(g, Kind(w), Owning(w, f.s), d) /\ g.pc = f.pc /\ g.s = f.s /\ g.r = v
        /\ \A s : Owns(g, s) = Owns(f, s)
    <3>1. PICK k, m : k = Kind(w) /\ m = Owning(w, f.s)
      OBVIOUS
    <3>2. FrameFits(f, k, m, d) /\ g = [f EXCEPT !.r = v]
      BY <2>1, <2>3, <3>1
    <3>3. /\ FrameFits(g, k, m, d) /\ g.pc = f.pc /\ g.s = f.s /\ g.r = v
          /\ \A s : Owns(g, s) = Owns(f, s)
      BY <3>2, ReturnFrame
    <3> QED BY <3>1, <3>3
  <2>6. FrameFits(g, Kind(w), Owning(w, g.s), d)
    BY <2>5
  <2>7. /\ StackOK(u, d) /\ u # <<>> /\ u[1] = g
        /\ \A s : Refs(u, d, s) = Owning(w, s) + Owns(g, s) + Waits(g, s) + Opened(d, s)
    BY <2>3, <2>4, <2>6, Push1
  <2>8. TopOK(g)
    BY <2>3, <2>5 DEF TopOK
  <2>9. ASSUME NEW s
        PROVE  Refs(u, d, s) = Refs(st, d, s) - Owns(st[1], s) - Waits(st[1], s) + Passed(kind, v, s)
    <3>1. Owning(t, s) = Owning(w, s) + Owns(f, s)
      <4>1. t = <<f>> \o w
        BY <1>2, <2>1, <2>2, PopFacts
      <4> QED BY <2>3, <4>1, OwningCons
    <3>2. Waits(g, s) = Passed(kind, v, s)
      BY <2>3, <2>5 DEF Waits, Passed
    <3>3. Refs(u, d, s) = Owning(t, s) + Passed(kind, v, s) + Opened(d, s)
      BY <2>5, <2>7, <3>1, <3>2
    <3> QED BY <1>3, <1>4, <3>3
  <2>10. Freeing(u) = Freeing(t)
    <3>1. t = <<f>> \o w
      BY <1>2, <2>1, <2>2, PopFacts
    <3>2. Freeing(u) = Freeing(w) \cup Frees(g)
      BY <2>3, <2>4, FreeingPush
    <3>3. Freeing(t) = Freeing(w) \cup Frees(f)
      BY <2>3, <3>1, FreeingPush
    <3> QED BY <2>5, <3>2, <3>3 DEF Frees
  <2> QED BY <1>1, <2>3, <2>5, <2>7, <2>8, <2>9, <2>10
<1> QED BY <1>5, <1>6

-----------------------------------------------------------------------------
\* A step of process p: what it does to its stack.  Own is what the frame
\* that runs has, which the step passes on or gives back.
Own(f, s) == Owns(f, s) + Waits(f, s)
Mine(p, s) == Refs(stack[p], fd[p], s)
Balanced(p) == \A s \in Slots : Mine(p, s)' + table[s].count = Mine(p, s) + table'[s].count
Freed(p) ==
    \/ UNCHANGED <<stack, table>>
    \/ \A s \in Freeing(stack'[p]) :
          s \in Freeing(Tail(stack[p])) \/ (table'[s].count = 1 /\ table'[s].nlinks = 0)
StackStep(p) ==
    /\ stack' = [stack EXCEPT ![p] = stack'[p]]
    /\ Good(p)' /\ Ready(p)' /\ Balanced(p) /\ Freed(p)

\* What is known of the frame that runs.
LEMMA TopFacts ==
    ASSUME StacksOK, ReadyOK, NEW p \in Procs, MayRun(p)
    PROVE  \E st, f, t, k, d :
       /\ st = stack[p] /\ f = st[1] /\ t = Tail(st) /\ k = Kind(t) /\ d = fd[p]
       /\ Top(p) = f /\ st # <<>> /\ StackOK(st, d) /\ TopOK(f)
       /\ FrameFits(f, k, Owning(t, f.s), d)
       /\ d \in Slots \cup {NoSlot}
       /\ Takes(f.pc) = "empty" => Fresh(f.r)
       /\ Takes(f.pc) = "entry" => f.r = NoEntry \/ Entry(f.r).nr # 0
<1>1. /\ stack[p] # <<>> /\ StackOK(stack[p], fd[p]) /\ TopOK(stack[p][1])
      /\ fd[p] \in Slots \cup {NoSlot}
  BY DEF StacksOK, MayRun, Good
<1>2. FrameFits(stack[p][1], Kind(Tail(stack[p])), Owning(Tail(stack[p]), stack[p][1].s), fd[p])
  BY <1>1, Top1
<1>3. Top(p) = stack[p][1]
  BY <1>1, PopFacts DEF Top, StackOK
<1>4. Ready(p)
  BY DEF ReadyOK
<1>5. PICK st, f, t, k, d : st = stack[p] /\ f = st[1] /\ t = Tail(st) /\ k = Kind(t) /\ d = fd[p]
  OBVIOUS
<1>6. /\ Takes(f.pc) = "empty" => Fresh(f.r)
      /\ Takes(f.pc) = "entry" => f.r = NoEntry \/ Entry(f.r).nr # 0
  BY <1>1, <1>4, <1>5 DEF Ready
<1> QED BY <1>1, <1>2, <1>3, <1>5, <1>6

LEMMA OwnNat == \A f, s : Own(f, s) \in Nat /\ Owns(f, s) \in Nat /\ Waits(f, s) \in Nat
BY OwnsNat DEF Own, Waits

LEMMA MineIs ==
    ASSUME StacksOK, NEW p \in Procs, stack[p] # <<>>, NEW s
    PROVE  /\ Mine(p, s) = Owning(Tail(stack[p]), s) + Own(Top(p), s) + Opened(fd[p], s)
           /\ Owning(Tail(stack[p]), s) \in Nat /\ Own(Top(p), s) \in Nat /\ Opened(fd[p], s) \in Nat
<1>1. stack[p] # <<>> /\ StackOK(stack[p], fd[p])
  BY DEF StacksOK, Good
<1>2. Top(p) = stack[p][1]
  BY <1>1, PopFacts DEF Top, StackOK
<1>3. PICK st, d, t, f : st = stack[p] /\ d = fd[p] /\ t = Tail(st) /\ f = st[1]
  OBVIOUS
<1>4. /\ Owning(t, s) \in Nat /\ Owns(f, s) \in Nat /\ Waits(f, s) \in Nat
      /\ Refs(st, d, s) = Owning(t, s) + Owns(f, s) + Waits(f, s) + Opened(d, s)
  BY <1>1, <1>3, TopRefs
<1>5. Opened(d, s) \in Nat
  BY DEF Opened
<1>6. Own(f, s) = Owns(f, s) + Waits(f, s)
  BY DEF Own
<1>7. Refs(st, d, s) = Owning(t, s) + Own(f, s) + Opened(d, s) /\ Own(f, s) \in Nat
  BY <1>4, <1>5, <1>6
<1> QED BY <1>2, <1>3, <1>4, <1>5, <1>7 DEF Mine

\* The frame is replaced by others: the stack is u.
TopFits(u) ==
    u # <<>> /\ (Takes(u[1].pc) = "other" \/ (Takes(u[1].pc) = "inode" /\ u[1].r \in Slots))
Pays(p, t, u) ==
    \A s \in Slots : Owning(u, s) + Waits(u[1], s) + table[s].count
                        = Owning(t, s) + Own(Top(p), s) + table'[s].count
FreesMore(t, u) ==
    \A s \in Freeing(u) : s \in Freeing(t) \/ (table'[s].count = 1 /\ table'[s].nlinks = 0)

LEMMA Becoming ==
    ASSUME StacksOK, TableOK, TableOK', NEW p \in Procs, MayRun(p), UNCHANGED fd,
           NEW fs, Becomes(p, fs), NEW t, t = Tail(stack[p]), NEW u, u = fs \o t,
           StackOK(u, fd[p]), TopFits(u), Pays(p, t, u), FreesMore(t, u)
    PROVE  StackStep(p)
<1>1. stack' = [stack EXCEPT ![p] = u] /\ stack'[p] = u /\ fd'[p] = fd[p]
  BY DEF Becomes, StacksOK
<1>2. Good(p)'
  BY <1>1 DEF Good, TopOK, TopFits
<1>3. Ready(p)'
  BY <1>1 DEF Ready, TopFits
<1>4. Balanced(p)
  <2> SUFFICES ASSUME NEW s \in Slots
               PROVE  Mine(p, s)' + table[s].count = Mine(p, s) + table'[s].count
    BY DEF Balanced
  <2>1. /\ Mine(p, s) = Owning(t, s) + Own(Top(p), s) + Opened(fd[p], s)
        /\ Owning(t, s) \in Nat /\ Own(Top(p), s) \in Nat /\ Opened(fd[p], s) \in Nat
    BY MineIs DEF MayRun
  <2>0. u # <<>>
    BY DEF TopFits
  <2>2. Mine(p, s)' = Owning(u, s) + Waits(u[1], s) + Opened(fd[p], s)
    <3>1. Mine(p, s)' = Refs(stack'[p], fd'[p], s)
      BY DEF Mine
    <3> QED BY <1>1, <2>0, <3>1 DEF Refs
  <2>3. Owning(u, s) \in Nat /\ Waits(u[1], s) \in Nat
    BY OwningNat, OwnNat DEF StackOK
  <2>4. table[s].count \in Nat /\ table'[s].count \in Nat
    BY DEF TableOK, IsInode
  <2>5. Owning(u, s) + Waits(u[1], s) + table[s].count
                              = Owning(t, s) + Own(Top(p), s) + table'[s].count
    BY DEF Pays
  <2>6. PICK a, b, c, e, w, o, i, j :
           /\ a = Owning(u, s) /\ w = Waits(u[1], s) /\ i = table[s].count /\ j = table'[s].count
           /\ b = Owning(t, s) /\ c = Own(Top(p), s) /\ o = Opened(fd[p], s) /\ e = Mine(p, s)
    OBVIOUS
  <2>7. /\ a + w + i = b + c + j /\ e = b + c + o
        /\ a \in Nat /\ b \in Nat /\ c \in Nat /\ w \in Nat /\ o \in Nat /\ i \in Nat /\ j \in Nat
    BY <2>1, <2>3, <2>4, <2>5, <2>6
  <2>8. (a + w + o) + i = e + j
    BY <2>7
  <2> QED BY <2>2, <2>6, <2>8
<1>5. Freed(p)
  BY <1>1 DEF Freed, FreesMore
<1> QED BY <1>1, <1>2, <1>3, <1>4, <1>5 DEF StackStep

\* p runs: f is its frame, t the ones below, which take a result of kind k,
\* and d the file it has open.
Runs(p, f, t, k, d) ==
    /\ StacksOK /\ TableOK /\ p \in Procs /\ MayRun(p)
    /\ f = Top(p) /\ t = Tail(stack[p]) /\ k = Kind(t) /\ d = fd[p]
    /\ f = stack[p][1] /\ stack[p] # <<>> /\ StackOK(stack[p], d) /\ StackOK(t, d)
Frame(f, t, k, d) ==
    /\ FrameFits(f, k, Owning(t, f.s), d) /\ TopOK(f)
    /\ d \in Slots \cup {NoSlot}
    /\ Takes(f.pc) = "empty" => Fresh(f.r)
    /\ Takes(f.pc) = "entry" => f.r = NoEntry \/ Entry(f.r).nr # 0

LEMMA Running ==
    ASSUME RefInv, NEW p \in Procs, MayRun(p)
    PROVE  \E f, t, k, d : Runs(p, f, t, k, d) /\ Frame(f, t, k, d)
<1>1. StacksOK /\ ReadyOK /\ TableOK
  BY DEF RefInv
<1>2. PICK st, f, t, k, d :
       /\ st = stack[p] /\ f = st[1] /\ t = Tail(st) /\ k = Kind(t) /\ d = fd[p]
       /\ Top(p) = f /\ st # <<>> /\ StackOK(st, d) /\ TopOK(f)
       /\ FrameFits(f, k, Owning(t, f.s), d)
       /\ d \in Slots \cup {NoSlot}
       /\ Takes(f.pc) = "empty" => Fresh(f.r)
       /\ Takes(f.pc) = "entry" => f.r = NoEntry \/ Entry(f.r).nr # 0
  BY <1>1, TopFacts
<1>3. StackOK(t, d)
  BY <1>2, Top1
<1> QED BY <1>1, <1>2, <1>3 DEF Runs, Frame

SameCounts == TableOK' /\ \A s \in Slots : table'[s].count = table[s].count

LEMMA WaitsOther == \A g, s : Takes(g.pc) \in {"other", "entry"} => Waits(g, s) = 0
BY DEF Waits

LEMMA Become1 ==
    ASSUME NEW p, NEW f, NEW t, NEW k, NEW d, Runs(p, f, t, k, d), UNCHANGED fd, SameCounts,
           NEW e, FrameFits(e, k, Owning(t, e.s), d),
           Becomes(p, <<e>>), Takes(e.pc) = "other",
           e.pc # "iput_free",
           \A s \in Slots : Owns(e, s) = Own(f, s)
    PROVE  StackStep(p)
<1>1. StacksOK /\ TableOK /\ TableOK' /\ p \in Procs /\ MayRun(p) /\ t = Tail(stack[p]) /\ d = fd[p]
  BY DEF Runs, SameCounts
<1>2. PICK u : u = <<e>> \o t
  OBVIOUS
<1>3. StackOK(t, d) /\ k = Kind(t) /\ f = Top(p)
  BY DEF Runs
<1>4. /\ StackOK(u, d) /\ u # <<>> /\ u[1] = e
      /\ \A s : Owning(u, s) = Owning(t, s) + Owns(e, s)
      /\ Freeing(u) = Freeing(t) \cup Frees(e)
  BY <1>2, <1>3, Push1
<1>5. ASSUME NEW s \in Slots
      PROVE  Owning(u, s) + Waits(u[1], s) + table[s].count = Owning(t, s) + Own(Top(p), s) + table'[s].count
  <2>1. Waits(u[1], s) = 0 /\ table'[s].count = table[s].count
    BY <1>4, WaitsOther DEF SameCounts
  <2>2. Owning(u, s) = Owning(t, s) + Owns(e, s)
    BY <1>4
  <2>3. Owns(e, s) = Own(Top(p), s)
    BY <1>3
  <2>4. /\ Owning(t, s) \in Nat /\ table[s].count \in Nat /\ Own(Top(p), s) \in Nat
        /\ Owns(e, s) \in Nat
    BY <1>1, <1>3, OwningNat, OwnNat DEF StackOK, TableOK, IsInode
  <2>5. Owning(u, s) = Owning(t, s) + Own(Top(p), s)
    BY <2>2, <2>3, <2>4
  <2> QED BY <2>1, <2>4, <2>5
<1>6. FreesMore(t, u)
  BY <1>4 DEF Frees, FreesMore
<1>9. Pays(p, t, u)
  BY <1>5 DEF Pays
<1>7. PICK fs : fs = <<e>>
  OBVIOUS
<1>8. /\ Becomes(p, fs) /\ u = fs \o t /\ StackOK(u, fd[p]) /\ u # <<>>
      /\ TopFits(u)
  BY <1>1, <1>2, <1>4, <1>7 DEF TopFits
<1> QED BY <1>1, <1>6, <1>8, <1>9, Becoming

LEMMA Become2 ==
    ASSUME NEW p, NEW f, NEW t, NEW k, NEW d, Runs(p, f, t, k, d), UNCHANGED fd, SameCounts,
           NEW e, FrameFits(e, k, Owning(t, e.s), d),
           NEW c, FrameFits(c, Takes(e.pc), Owning(t, c.s) + Owns(e, c.s), d),
           Becomes(p, <<c, e>>), Takes(c.pc) = "other",
           c.pc # "iput_free" /\ (e.pc = "iput_free" => table'[e.s].count = 1 /\ table'[e.s].nlinks = 0),
           \A s \in Slots : Owns(e, s) + Owns(c, s) = Own(f, s)
    PROVE  StackStep(p)
<1>1. StacksOK /\ TableOK /\ TableOK' /\ p \in Procs /\ MayRun(p) /\ t = Tail(stack[p]) /\ d = fd[p]
  BY DEF Runs, SameCounts
<1>2. PICK u : u = <<c, e>> \o t
  OBVIOUS
<1>3. StackOK(t, d) /\ k = Kind(t) /\ f = Top(p)
  BY DEF Runs
<1>4. /\ StackOK(u, d) /\ u # <<>> /\ u[1] = c
      /\ \A s : Owning(u, s) = Owning(t, s) + Owns(e, s) + Owns(c, s)
      /\ Freeing(u) = Freeing(t) \cup Frees(e) \cup Frees(c)
  BY <1>2, <1>3, Push2
<1>5. ASSUME NEW s \in Slots
      PROVE  Owning(u, s) + Waits(u[1], s) + table[s].count = Owning(t, s) + Own(Top(p), s) + table'[s].count
  <2>1. Waits(u[1], s) = 0 /\ table'[s].count = table[s].count
    BY <1>4, WaitsOther DEF SameCounts
  <2>2. Owning(u, s) = Owning(t, s) + Owns(e, s) + Owns(c, s)
    BY <1>4
  <2>3. Owns(e, s) + Owns(c, s) = Own(Top(p), s)
    BY <1>3
  <2>4. /\ Owning(t, s) \in Nat /\ table[s].count \in Nat /\ Own(Top(p), s) \in Nat
        /\ Owns(c, s) \in Nat /\ Owns(e, s) \in Nat
    BY <1>1, <1>3, OwningNat, OwnNat DEF StackOK, TableOK, IsInode
  <2>5. Owning(u, s) = Owning(t, s) + Own(Top(p), s)
    BY <2>2, <2>3, <2>4
  <2> QED BY <2>1, <2>4, <2>5
<1>6. FreesMore(t, u)
  BY <1>4 DEF Frees, FreesMore
<1>9. Pays(p, t, u)
  BY <1>5 DEF Pays
<1>7. PICK fs : fs = <<c, e>>
  OBVIOUS
<1>8. /\ Becomes(p, fs) /\ u = fs \o t /\ StackOK(u, fd[p]) /\ u # <<>>
      /\ TopFits(u)
  BY <1>1, <1>2, <1>4, <1>7 DEF TopFits
<1> QED BY <1>1, <1>6, <1>8, <1>9, Becoming

LEMMA Become3 ==
    ASSUME NEW p, NEW f, NEW t, NEW k, NEW d, Runs(p, f, t, k, d), UNCHANGED fd, SameCounts,
           NEW e, FrameFits(e, k, Owning(t, e.s), d),
           NEW c, FrameFits(c, Takes(e.pc), Owning(t, c.s) + Owns(e, c.s), d),
           NEW b, FrameFits(b, Takes(c.pc), Owning(t, b.s) + Owns(e, b.s) + Owns(c, b.s), d),
           Becomes(p, <<b, c, e>>), Takes(b.pc) = "other",
           b.pc # "iput_free" /\ c.pc # "iput_free" /\ e.pc # "iput_free",
           \A s \in Slots : Owns(e, s) + Owns(c, s) + Owns(b, s) = Own(f, s)
    PROVE  StackStep(p)
<1>1. StacksOK /\ TableOK /\ TableOK' /\ p \in Procs /\ MayRun(p) /\ t = Tail(stack[p]) /\ d = fd[p]
  BY DEF Runs, SameCounts
<1>2. PICK u : u = <<b, c, e>> \o t
  OBVIOUS
<1>3. StackOK(t, d) /\ k = Kind(t) /\ f = Top(p)
  BY DEF Runs
<1>4. /\ StackOK(u, d) /\ u # <<>> /\ u[1] = b
      /\ \A s : Owning(u, s) = Owning(t, s) + Owns(e, s) + Owns(c, s) + Owns(b, s)
      /\ Freeing(u) = Freeing(t) \cup Frees(e) \cup Frees(c) \cup Frees(b)
  BY <1>2, <1>3, Push3
<1>5. ASSUME NEW s \in Slots
      PROVE  Owning(u, s) + Waits(u[1], s) + table[s].count = Owning(t, s) + Own(Top(p), s) + table'[s].count
  <2>1. Waits(u[1], s) = 0 /\ table'[s].count = table[s].count
    BY <1>4, WaitsOther DEF SameCounts
  <2>2. Owning(u, s) = Owning(t, s) + Owns(e, s) + Owns(c, s) + Owns(b, s)
    BY <1>4
  <2>3. Owns(e, s) + Owns(c, s) + Owns(b, s) = Own(Top(p), s)
    BY <1>3
  <2>4. /\ Owning(t, s) \in Nat /\ table[s].count \in Nat /\ Own(Top(p), s) \in Nat
        /\ Owns(b, s) \in Nat /\ Owns(c, s) \in Nat /\ Owns(e, s) \in Nat
    BY <1>1, <1>3, OwningNat, OwnNat DEF StackOK, TableOK, IsInode
  <2>5. Owning(u, s) = Owning(t, s) + Own(Top(p), s)
    BY <2>2, <2>3, <2>4
  <2> QED BY <2>1, <2>4, <2>5
<1>6. FreesMore(t, u)
  BY <1>4 DEF Frees, FreesMore
<1>9. Pays(p, t, u)
  BY <1>5 DEF Pays
<1>7. PICK fs : fs = <<b, c, e>>
  OBVIOUS
<1>8. /\ Becomes(p, fs) /\ u = fs \o t /\ StackOK(u, fd[p]) /\ u # <<>>
      /\ TopFits(u)
  BY <1>1, <1>2, <1>4, <1>7 DEF TopFits
<1> QED BY <1>1, <1>6, <1>8, <1>9, Becoming

LEMMA Become4 ==
    ASSUME NEW p, NEW f, NEW t, NEW k, NEW d, Runs(p, f, t, k, d), UNCHANGED fd, SameCounts,
           NEW e, FrameFits(e, k, Owning(t, e.s), d),
           NEW c, FrameFits(c, Takes(e.pc), Owning(t, c.s) + Owns(e, c.s), d),
           NEW b, FrameFits(b, Takes(c.pc), Owning(t, b.s) + Owns(e, b.s) + Owns(c, b.s), d),
           NEW a, FrameFits(a, Takes(b.pc), Owning(t, a.s) + Owns(e, a.s) + Owns(c, a.s) + Owns(b, a.s), d),
           Becomes(p, <<a, b, c, e>>), Takes(a.pc) = "other",
           a.pc # "iput_free" /\ b.pc # "iput_free" /\ c.pc # "iput_free" /\ e.pc # "iput_free",
           \A s \in Slots : Owns(e, s) + Owns(c, s) + Owns(b, s) + Owns(a, s) = Own(f, s)
    PROVE  StackStep(p)
<1>1. StacksOK /\ TableOK /\ TableOK' /\ p \in Procs /\ MayRun(p) /\ t = Tail(stack[p]) /\ d = fd[p]
  BY DEF Runs, SameCounts
<1>2. PICK u : u = <<a, b, c, e>> \o t
  OBVIOUS
<1>3. StackOK(t, d) /\ k = Kind(t) /\ f = Top(p)
  BY DEF Runs
<1>4. /\ StackOK(u, d) /\ u # <<>> /\ u[1] = a
      /\ \A s : Owning(u, s) = Owning(t, s) + Owns(e, s) + Owns(c, s) + Owns(b, s) + Owns(a, s)
      /\ Freeing(u) = Freeing(t) \cup Frees(e) \cup Frees(c) \cup Frees(b) \cup Frees(a)
  BY <1>2, <1>3, Push4
<1>5. ASSUME NEW s \in Slots
      PROVE  Owning(u, s) + Waits(u[1], s) + table[s].count = Owning(t, s) + Own(Top(p), s) + table'[s].count
  <2>1. Waits(u[1], s) = 0 /\ table'[s].count = table[s].count
    BY <1>4, WaitsOther DEF SameCounts
  <2>2. Owning(u, s) = Owning(t, s) + Owns(e, s) + Owns(c, s) + Owns(b, s) + Owns(a, s)
    BY <1>4
  <2>3. Owns(e, s) + Owns(c, s) + Owns(b, s) + Owns(a, s) = Own(Top(p), s)
    BY <1>3
  <2>4. /\ Owning(t, s) \in Nat /\ table[s].count \in Nat /\ Own(Top(p), s) \in Nat
        /\ Owns(a, s) \in Nat /\ Owns(b, s) \in Nat /\ Owns(c, s) \in Nat /\ Owns(e, s) \in Nat
    BY <1>1, <1>3, OwningNat, OwnNat DEF StackOK, TableOK, IsInode
  <2>5. Owning(u, s) = Owning(t, s) + Own(Top(p), s)
    BY <2>2, <2>3, <2>4
  <2> QED BY <2>1, <2>4, <2>5
<1>6. FreesMore(t, u)
  BY <1>4 DEF Frees, FreesMore
<1>9. Pays(p, t, u)
  BY <1>5 DEF Pays
<1>7. PICK fs : fs = <<a, b, c, e>>
  OBVIOUS
<1>8. /\ Becomes(p, fs) /\ u = fs \o t /\ StackOK(u, fd[p]) /\ u # <<>>
      /\ TopFits(u)
  BY <1>1, <1>2, <1>4, <1>7 DEF TopFits
<1> QED BY <1>1, <1>6, <1>8, <1>9, Becoming

\* The frame returns v.
GoodValue(p, k, v) ==
    /\ k \in {"inode", "empty"} => v \in Slots
    /\ k = "maybe" => v \in Slots \cup {NoSlot}
    /\ k = "empty" => Fresh(v)'
    /\ k = "entry" => v = NoEntry \/ (running' = p /\ Entry(v)'.nr # 0)
Repays(f, k, v) ==
    \A s \in Slots : Passed(k, v, s) + table[s].count = Own(f, s) + table'[s].count

LEMMA Returning ==
    ASSUME NEW p, NEW f, NEW t, NEW k, NEW d, Runs(p, f, t, k, d), UNCHANGED fd, TableOK',
           NEW v, Return(p, v), GoodValue(p, k, v), Repays(f, k, v)
    PROVE  StackStep(p)
<1>1. /\ StacksOK /\ TableOK /\ TableOK' /\ p \in Procs /\ MayRun(p) /\ t = Tail(stack[p]) /\ d = fd[p]
      /\ k = Kind(t) /\ f = Top(p)
  BY DEF Runs
<1>2. PICK st, u : st = stack[p] /\ u = Returned(st, v)
  OBVIOUS
<1>3. st # <<>> /\ StackOK(st, d) /\ f = st[1]
  BY <1>2 DEF Runs
<1>4. stack' = [stack EXCEPT ![p] = u] /\ stack'[p] = u /\ fd'[p] = d
  <2>1. stack' = [stack EXCEPT ![p] = Returned(stack[p], v)]
    BY DEF Return, Returned
  <2> QED BY <1>1, <1>2, <2>1 DEF StacksOK
<1>5. k \in {"inode", "empty"} => v \in Slots
  BY DEF GoodValue
<1>6. k = "maybe" => v \in Slots \cup {NoSlot}
  BY DEF GoodValue
<1>7. k = Kind(Tail(st))
  BY <1>1, <1>2
<1>8. /\ StackOK(u, d)
      /\ u # <<>> => u[1].r = v /\ Takes(u[1].pc) = k /\ TopOK(u[1])
      /\ \A s : Refs(u, d, s) = Refs(st, d, s) - Owns(st[1], s) - Waits(st[1], s) + Passed(k, v, s)
      /\ Freeing(u) = Freeing(Tail(st))
  BY <1>2, <1>3, <1>5, <1>6, <1>7, ReturnStack
<1>9. Good(p)'
  BY <1>4, <1>8 DEF Good
<1>10. Ready(p)'
  BY <1>4, <1>8 DEF Ready, GoodValue
<1>11. Balanced(p)
  <2> SUFFICES ASSUME NEW s \in Slots
               PROVE  Mine(p, s)' + table[s].count = Mine(p, s) + table'[s].count
    BY DEF Balanced
  <2>1. Mine(p, s)' = Refs(u, d, s)
    BY <1>4 DEF Mine
  <2>2. Mine(p, s) = Refs(st, d, s)
    BY <1>1, <1>2 DEF Mine
  <2>3. PICK a, b, c, w, o, i, j :
           /\ a = Refs(u, d, s) /\ b = Refs(st, d, s) /\ c = Owns(f, s) /\ w = Waits(f, s)
           /\ o = Passed(k, v, s) /\ i = table[s].count /\ j = table'[s].count
    OBVIOUS
  <2>4. a = b - c - w + o
    BY <1>3, <1>8, <2>3
  <2>5. o + i = c + w + j
    BY <2>3 DEF Repays, Own
  <2>6. c \in Nat /\ w \in Nat /\ o \in Nat
    BY <2>3, OwnNat DEF Passed
  <2>7. i \in Nat /\ j \in Nat
    BY <1>1, <2>3 DEF TableOK, IsInode
  <2>8. b \in Nat
    <3>1. /\ b = Owning(t, s) + Own(f, s) + Opened(d, s)
          /\ Owning(t, s) \in Nat /\ Own(f, s) \in Nat /\ Opened(d, s) \in Nat
      BY <1>1, <1>2, <1>3, <2>2, <2>3, MineIs
    <3> QED BY <3>1
  <2>9. a + i = b + j
    BY <2>4, <2>5, <2>6, <2>7, <2>8
  <2> QED BY <2>1, <2>2, <2>3, <2>9
<1>12. Freed(p)
  BY <1>1, <1>2, <1>4, <1>8 DEF Freed
<1> QED BY <1>4, <1>9, <1>10, <1>11, <1>12 DEF StackStep

\* A frame without references returns to one that does not look for any.
LEMMA ReturnsPlain ==
    ASSUME NEW p, NEW f, NEW t, NEW k, NEW d, Runs(p, f, t, k, d), UNCHANGED fd, SameCounts,
           NEW v, Return(p, v), \A s \in Slots : Own(f, s) = 0,
           \/ k \in Plain
           \/ k = "entry" /\ (v = NoEntry \/ (running' = p /\ Entry(v)'.nr # 0))
    PROVE  StackStep(p)
<1>1. GoodValue(p, k, v)
  BY DEF GoodValue, Plain
<1>2. Repays(f, k, v)
  <2> SUFFICES ASSUME NEW s \in Slots
               PROVE  Passed(k, v, s) + table[s].count = Own(f, s) + table'[s].count
    BY DEF Repays
  <2>1. Passed(k, v, s) = 0 /\ Own(f, s) = 0
    BY DEF Passed, Plain
  <2>2. table[s].count = table'[s].count
    BY DEF SameCounts
  <2> QED BY <2>1, <2>2
<1>3. TableOK'
  BY DEF SameCounts
<1> QED BY <1>1, <1>2, <1>3, Returning

\* A frame returns the inode it has, and no other reference is left.
LEMMA ReturnsInode ==
    ASSUME NEW p, NEW f, NEW t, NEW k, NEW d, Runs(p, f, t, k, d), UNCHANGED fd, SameCounts,
           NEW v, Return(p, v), \A s \in Slots : Own(f, s) = Opened(v, s),
           \/ k = "inode" /\ v \in Slots
           \/ k = "maybe" /\ v \in Slots \cup {NoSlot}
    PROVE  StackStep(p)
<1>1. GoodValue(p, k, v)
  BY DEF GoodValue
<1>2. Repays(f, k, v)
  <2> SUFFICES ASSUME NEW s \in Slots
               PROVE  Passed(k, v, s) + table[s].count = Own(f, s) + table'[s].count
    BY DEF Repays
  <2>1. Passed(k, v, s) = Own(f, s)
    BY DEF Passed, Opened
  <2>2. table[s].count = table'[s].count
    BY DEF SameCounts
  <2> QED BY <2>1, <2>2
<1>3. TableOK'
  BY DEF SameCounts
<1> QED BY <1>1, <1>2, <1>3, Returning
-----------------------------------------------------------------------------
\* What a step of p does to an entry of the table: it has a reference to an
\* inode that it makes dirty, gives back, fills in or frees.
Has(p, s) == stack[p] # <<>> /\ Own(Top(p), s) >= 1
Keeps(p, s) ==
    /\ table'[s].num = table[s].num /\ table'[s].count = table[s].count
    /\ table'[s].lock => table[s].lock \/ table[s].dirt
    /\ table'[s].dirt => table[s].dirt \/ Mine(p, s) >= 1
Starts(s) ==
    /\ table[s].count = 0
    /\ table'[s].num = 0 /\ table'[s].count = 1 /\ ~table'[s].dirt /\ ~table'[s].lock
Shares(s) ==
    /\ table'[s].num = table[s].num /\ table[s].num # 0
    /\ table'[s].count = table[s].count + 1
    /\ table'[s].dirt = table[s].dirt /\ table'[s].lock = table[s].lock
    /\ race' = {} => s = Root \/ table[s].nlinks # 0
Drops(p, s) ==
    /\ Has(p, s) /\ table'[s].num = table[s].num
    /\ table[s].count = table'[s].count + 1
    /\ ~table'[s].lock /\ (table[s].count = 1 => ~table'[s].dirt)
Fills(p, s) == Has(p, s) /\ Fresh(s) /\ table'[s].count = 1
Clears(p, s) ==
    /\ Has(p, s) /\ table[s].count = 1
    /\ table'[s].num = 0 /\ table'[s].count = 0 /\ ~table'[s].dirt /\ ~table'[s].lock
SlotStep(p, s) ==
    /\ Keeps(p, s) \/ Starts(s) \/ Shares(s) \/ Drops(p, s) \/ Fills(p, s) \/ Clears(p, s)
    /\ table'[s].nlinks = table[s].nlinks \/ table[s].count = 0 \/ Has(p, s)

\* The numbers in the table and the bitmap.
NoNumber == imap \subseteq imap' /\ \A s \in Slots : table'[s].num \in {0, table[s].num}
NewNumber ==
    \E e \in Slots :
       /\ Fresh(e) /\ imap \subseteq imap'
       /\ table'[e].num \notin {0, ROOT_INO}
       /\ race' = {} => table'[e].num \in imap' /\ \A s \in Slots : table[s].num # table'[e].num
       /\ \A s \in Slots \ {e} : table'[s].num = table[s].num
OldNumber(p) ==
    \E e \in Slots :
       /\ Has(p, e) /\ table[e].count = 1
       /\ imap' = imap \ {table[e].num} /\ table'[e].num = 0
       /\ \A s \in Slots \ {e} : table'[s].num = table[s].num
TableStep(p) ==
    /\ TableOK' /\ race \subseteq race'
    /\ \A s \in Slots : SlotStep(p, s)
    /\ NoNumber \/ NewNumber \/ OldNumber(p)

StepOK(p) ==
    /\ running \in {p, NoProc}
    /\ fd' = [fd EXCEPT ![p] = fd'[p]] /\ fd'[p] \in Slots \cup {NoSlot}
    /\ StackStep(p) /\ TableStep(p)
    /\ race' = {} => panic' \notin InodePanics

LEMMA HasMine ==
    ASSUME StacksOK, NEW p \in Procs, NEW s, Has(p, s)
    PROVE  Mine(p, s) >= 1 /\ (s \in Freeing(Tail(stack[p])) => Mine(p, s) >= 2)
<1>1. stack[p] # <<>> /\ Own(Top(p), s) >= 1
  BY DEF Has
<1>2. /\ Mine(p, s) = Owning(Tail(stack[p]), s) + Own(Top(p), s) + Opened(fd[p], s)
      /\ Owning(Tail(stack[p]), s) \in Nat /\ Own(Top(p), s) \in Nat /\ Opened(fd[p], s) \in Nat
  BY <1>1, MineIs
<1>3. s \in Freeing(Tail(stack[p])) => Owning(Tail(stack[p]), s) >= 1
  <2>1. IsStack(Tail(stack[p]))
    BY <1>1, PopFacts DEF StacksOK, Good, StackOK
  <2> QED BY <2>1, FreeingOwned
<1> QED BY <1>1, <1>2, <1>3

LEMMA RefsNat ==
    ASSUME NEW st, NEW d, StackOK(st, d), NEW s
    PROVE  Refs(st, d, s) \in Nat
<1>1. PICK w : w = IF st = <<>> THEN 0 ELSE Waits(st[1], s)
  OBVIOUS
<1>2. Owning(st, s) \in Nat /\ Opened(d, s) \in Nat /\ w \in Nat
  BY <1>1, OwningNat, OwnNat DEF Opened, StackOK
<1>3. Refs(st, d, s) = Owning(st, s) + w + Opened(d, s)
  BY <1>1 DEF Refs
<1> QED BY <1>2, <1>3

LEMMA MineNat ==
    ASSUME StacksOK, NEW p \in Procs, NEW s
    PROVE  Mine(p, s) \in Nat /\ (s \in Freeing(stack[p]) => Mine(p, s) >= 1)
<1>1. IsStack(stack[p])
  BY DEF StacksOK, Good, StackOK
<1>2. PICK st, d : st = stack[p] /\ d = fd[p]
  OBVIOUS
<1>3. PICK w : w = IF st = <<>> THEN 0 ELSE Waits(st[1], s)
  OBVIOUS
<1>4. Owning(st, s) \in Nat /\ Opened(d, s) \in Nat /\ w \in Nat
  BY <1>1, <1>2, <1>3, OwningNat, OwnNat DEF Opened
<1>5. Mine(p, s) = Owning(st, s) + w + Opened(d, s)
  BY <1>2, <1>3 DEF Mine, Refs
<1>6. s \in Freeing(stack[p]) => Owning(st, s) >= 1
  BY <1>1, <1>2, FreeingOwned
<1> QED BY <1>4, <1>5, <1>6

LEMMA TwoIn ==
    ASSUME NEW S, IsFiniteSet(S), NEW a \in S
    PROVE  /\ Cardinality(S) \in Nat /\ Cardinality(S) >= 1
           /\ \A b \in S : b # a => Cardinality(S) >= 2
<1>1. Cardinality(S) \in Nat
  BY FS_CardinalityType
<1>2. Cardinality(S \ {a}) = Cardinality(S) - 1 /\ IsFiniteSet(S \ {a})
  BY FS_RemoveElement
<1>3. Cardinality(S \ {a}) \in Nat
  BY <1>2, FS_CardinalityType
<1>4. ASSUME NEW b \in S, b # a PROVE Cardinality(S) >= 2
  <2>1. b \in S \ {a}
    BY <1>4
  <2>2. Cardinality(S \ {a}) # 0
    BY <1>2, <2>1, FS_EmptySet
  <2> QED BY <1>1, <1>2, <1>3, <2>2
<1> QED BY <1>1, <1>2, <1>3, <1>4

\* A reference is counted, and so are two.
LEMMA Counted ==
    ASSUME StacksOK, CountOK, NEW p \in Procs, NEW s \in Slots, Mine(p, s) >= 1
    PROVE  /\ table[s].count \in Nat /\ table[s].count >= 1
           /\ s = Root => table[s].count >= 2
           /\ Mine(p, s) >= 2 => table[s].count >= 2
           /\ \A q \in Procs : q # p /\ Mine(q, s) >= 1 => table[s].count >= 2
<1>1. PICK S : S = RefSet(s)
  OBVIOUS
<1>2. IsFiniteSet(S) /\ table[s].count = Cardinality(S) + Mounts(s)
  BY <1>1 DEF CountOK
<1>3. \A q \in Procs : \A n \in 1 .. Mine(q, s) : <<q, n>> \in S
  BY <1>1 DEF RefSet, Mine
<1>4. \A q \in Procs : Mine(q, s) \in Nat
  BY MineNat
<1>5. <<p, 1>> \in S
  BY <1>3, <1>4
<1>6. /\ Cardinality(S) \in Nat /\ Cardinality(S) >= 1
      /\ \A b \in S : b # <<p, 1>> => Cardinality(S) >= 2
  BY <1>2, <1>5, TwoIn
<1>7. Mounts(s) \in Nat /\ (s = Root => Mounts(s) = 1)
  BY DEF Mounts
<1>8. ASSUME Mine(p, s) >= 2 PROVE Cardinality(S) >= 2
  <2>1. <<p, 2>> \in S
    BY <1>3, <1>4, <1>8
  <2> QED BY <1>6, <2>1
<1>9. ASSUME NEW q \in Procs, q # p, Mine(q, s) >= 1 PROVE Cardinality(S) >= 2
  <2>1. <<q, 1>> \in S
    BY <1>3, <1>4, <1>9
  <2>2. <<q, 1>> # <<p, 1>>
    BY <1>9
  <2> QED BY <1>6, <2>1, <2>2
<1> QED BY <1>2, <1>6, <1>7, <1>8, <1>9
-----------------------------------------------------------------------------
\* A good step keeps the invariant.
LEMMA Others ==
    ASSUME RefInv, NEW p \in Procs, StepOK(p)
    PROVE  /\ StacksOK'
           /\ \A q \in Procs \ {p} : /\ stack'[q] = stack[q] /\ fd'[q] = fd[q]
                                     /\ \A s : Mine(q, s)' = Mine(q, s)
<1>1. /\ stack = [q \in Procs |-> stack[q]] /\ fd \in [Procs -> Slots \cup {NoSlot}]
      /\ \A q \in Procs : Good(q)
  BY DEF RefInv, StacksOK
<1>2. /\ stack' = [stack EXCEPT ![p] = stack'[p]] /\ Good(p)'
      /\ fd' = [fd EXCEPT ![p] = fd'[p]] /\ fd'[p] \in Slots \cup {NoSlot}
  BY DEF StepOK, StackStep
<1>3. \A q \in Procs \ {p} : stack'[q] = stack[q] /\ fd'[q] = fd[q]
  BY <1>1, <1>2
<1>4. stack' = [q \in Procs |-> stack'[q]]
  BY <1>1, <1>2
<1>5. fd' \in [Procs -> Slots \cup {NoSlot}]
  BY <1>1, <1>2
<1>6. \A q \in Procs \ {p} : Good(q)'
  BY <1>1, <1>3 DEF Good
<1>7. \A q \in Procs \ {p} : \A s : Mine(q, s)' = Mine(q, s)
  BY <1>3 DEF Mine
<1> QED BY <1>2, <1>3, <1>4, <1>5, <1>6, <1>7 DEF StacksOK

LEMMA CountStep ==
    ASSUME RefInv, NEW p \in Procs, StepOK(p)
    PROVE  CountOK'
<1> SUFFICES ASSUME NEW s \in Slots
             PROVE  IsFiniteSet(RefSet(s)') /\ table'[s].count = Cardinality(RefSet(s)') + Mounts(s)
  BY DEF CountOK, Mounts, Root
<1>1. StacksOK /\ TableOK /\ CountOK /\ TableOK' /\ Balanced(p) /\ SlotStep(p, s)
  BY DEF RefInv, StepOK, StackStep, TableStep
<1>2. StacksOK' /\ \A q \in Procs \ {p} : Mine(q, s)' = Mine(q, s)
  BY Others
<1>3. PICK S, T, m, n, i, j : /\ S = RefSet(s) /\ T = RefSet(s)'
                              /\ m = Mine(p, s) /\ n = Mine(p, s)'
                              /\ i = table[s].count /\ j = table'[s].count
  OBVIOUS
<1>4. m \in Nat /\ n \in Nat
  <2>1. m \in Nat
    BY <1>1, <1>3, MineNat
  <2>2. StackOK(stack'[p], fd'[p])
    BY <1>2 DEF StacksOK, Good
  <2>3. Mine(p, s)' = Refs(stack'[p], fd'[p], s)
    BY DEF Mine
  <2> QED BY <1>3, <2>1, <2>2, <2>3, RefsNat
<1>5. i \in Nat /\ j \in Nat /\ n + i = m + j
  BY <1>1, <1>3 DEF TableOK, IsInode, Balanced
<1>6. i = Cardinality(S) + Mounts(s) /\ IsFiniteSet(S) /\ Cardinality(S) \in Nat /\ Mounts(s) \in Nat
  BY <1>1, <1>3, FS_CardinalityType DEF CountOK, Mounts
<1>7. /\ \A q \in Procs \ {p} : \A x : <<q, x>> \in S <=> <<q, x>> \in T
      /\ \A x : <<p, x>> \in S <=> x \in 1 .. m
      /\ \A x : <<p, x>> \in T <=> x \in 1 .. n
      /\ \A e \in S : \E q \in Procs : \E x : e = <<q, x>>
      /\ \A e \in T : \E q \in Procs : \E x : e = <<q, x>>
  <2>1. S = UNION {{<<q, x>> : x \in 1 .. Mine(q, s)} : q \in Procs}
    BY <1>3 DEF RefSet, Mine
  <2>2. T = UNION {{<<q, x>> : x \in 1 .. Mine(q, s)'} : q \in Procs}
    BY <1>3 DEF RefSet, Mine
  <2> QED BY <1>2, <1>3, <2>1, <2>2
<1>8. j \in {i, i + 1} \/ (i \in Nat \ {0} /\ j = i - 1)
  BY <1>1, <1>3, <1>5 DEF SlotStep, Keeps, Starts, Shares, Drops, Fills, Fresh, Clears
<1>9. CASE j = i
  <2>1. n = m
    BY <1>4, <1>5, <1>9
  <2>2. S = T
    BY <1>7, <2>1
  <2> QED BY <1>3, <1>6, <1>9, <2>2
<1>10. CASE j = i + 1
  <2>1. n = m + 1
    BY <1>4, <1>5, <1>10
  <2>2. 1 .. n = (1 .. m) \cup {m + 1} /\ m + 1 \notin 1 .. m
    BY <1>4, <2>1
  <2>3. T = S \cup {<<p, m + 1>>} /\ <<p, m + 1>> \notin S
    BY <1>7, <2>2
  <2>4. IsFiniteSet(T) /\ Cardinality(T) = Cardinality(S) + 1
    BY <1>6, <2>3, FS_AddElement
  <2>5. j = Cardinality(T) + Mounts(s)
    BY <1>6, <1>10, <2>4
  <2> QED BY <1>3, <2>4, <2>5
<1>11. CASE i \in Nat \ {0} /\ j = i - 1
  <2>1. m = n + 1
    BY <1>4, <1>5, <1>11
  <2>2. 1 .. n = (1 .. m) \ {m} /\ m \in 1 .. m
    BY <1>4, <2>1
  <2>3. T = S \ {<<p, m>>} /\ <<p, m>> \in S
    BY <1>7, <2>2
  <2>4. IsFiniteSet(T) /\ Cardinality(T) = Cardinality(S) - 1
    BY <1>6, <2>3, FS_RemoveElement
  <2>5. j = Cardinality(T) + Mounts(s)
    BY <1>6, <1>11, <2>4
  <2> QED BY <1>3, <2>4, <2>5
<1> QED BY <1>8, <1>9, <1>10, <1>11

\* The invariant's facts about one entry that the step of p may use.
LEMMA SlotFacts ==
    ASSUME RefInv, NEW p \in Procs, NEW s \in Slots
    PROVE  /\ table[s].count \in Nat
           /\ s = Root => table[s].count >= 1
           /\ Mine(p, s) >= 1 => table[s].count >= 1
           /\ Has(p, s) => Mine(p, s) >= 1
           /\ Has(p, s) /\ s = Root => table[s].count >= 2
           /\ Has(p, s) /\ s \in Freeing(Tail(stack[p])) => table[s].count >= 2
           /\ \A q \in Procs \ {p} : Mine(q, s) >= 1 /\ Mine(p, s) >= 1 => table[s].count >= 2
<1>1. StacksOK /\ TableOK /\ CountOK
  BY DEF RefInv
<1>2. table[s].count \in Nat
  BY <1>1 DEF TableOK, IsInode
<1>3. s = Root => table[s].count >= 1
  <2>1. table[s].count = Cardinality(RefSet(s)) + Mounts(s) /\ Cardinality(RefSet(s)) \in Nat
    BY <1>1, FS_CardinalityType DEF CountOK
  <2> QED BY <2>1 DEF Mounts
<1>4. Has(p, s) => /\ Mine(p, s) >= 1
                   /\ s \in Freeing(Tail(stack[p])) => Mine(p, s) >= 2
  BY <1>1, HasMine
<1>5. Mine(p, s) >= 1 => /\ table[s].count >= 1
                         /\ s = Root => table[s].count >= 2
                         /\ Mine(p, s) >= 2 => table[s].count >= 2
                         /\ \A q \in Procs : q # p /\ Mine(q, s) >= 1 => table[s].count >= 2
  BY <1>1, Counted
<1> QED BY <1>2, <1>3, <1>4, <1>5

LEMMA CleanStep ==
    ASSUME RefInv, NEW p \in Procs, StepOK(p)
    PROVE  UnusedIsClean'
<1> SUFFICES ASSUME NEW s \in Slots, table'[s].count = 0
             PROVE  ~table'[s].dirt /\ ~table'[s].lock
  BY DEF UnusedIsClean
<1>1. SlotStep(p, s) /\ TableOK'
  BY DEF StepOK, TableStep
<1>2. table[s].count = 0 => ~table[s].dirt /\ ~table[s].lock
  BY DEF RefInv, UnusedIsClean
<1>3. table[s].count \in Nat /\ (Mine(p, s) >= 1 => table[s].count >= 1)
  BY SlotFacts
<1>4. CASE Keeps(p, s)
  BY <1>2, <1>3, <1>4 DEF Keeps
<1>5. CASE Starts(s) \/ Shares(s) \/ Fills(p, s)
  BY <1>3, <1>5 DEF Starts, Shares, Fills
<1>6. CASE Drops(p, s)
  BY <1>3, <1>6 DEF Drops
<1>7. CASE Clears(p, s)
  BY <1>7 DEF Clears
<1> QED BY <1>1, <1>4, <1>5, <1>6, <1>7 DEF SlotStep

LEMMA ReadyStep ==
    ASSUME RefInv, NEW p \in Procs, StepOK(p)
    PROVE  ReadyOK'
<1> SUFFICES ASSUME NEW q \in Procs PROVE Ready(q)'
  BY DEF ReadyOK
<1>1. Ready(p)'
  BY DEF StepOK, StackStep
<1> SUFFICES ASSUME q # p PROVE Ready(q)'
  BY <1>1
<1>2. stack'[q] = stack[q] /\ \A s : Mine(q, s)' = Mine(q, s)
  BY Others
<1>3. Ready(q) /\ StacksOK /\ StackOK(stack[q], fd[q])
  BY DEF RefInv, ReadyOK, StacksOK, Good
<1>4. running \in {p, NoProc} /\ running # q
  BY InodeAssumption DEF StepOK
<1>5. SUFFICES ASSUME stack[q] # <<>>, Takes(stack[q][1].pc) = "empty"
               PROVE  Fresh(stack[q][1].r)'
  BY <1>2, <1>3, <1>4 DEF Ready
<1>6. PICK s : s = stack[q][1].r
  OBVIOUS
<1>7. Fresh(s) /\ s \in Slots
  BY <1>3, <1>5, <1>6 DEF Ready, RefInv, StacksOK, Good, TopOK
<1>8. Mine(q, s) >= 1
  <2>1. Waits(stack[q][1], s) = 1
    BY <1>5, <1>6 DEF Waits
  <2>2. Top(q) = stack[q][1]
    BY <1>3, <1>5, PopFacts DEF Top, StackOK
  <2>3. Has(q, s)
    BY <1>5, <2>1, <2>2, OwnNat DEF Has, Own
  <2> QED BY <1>3, <2>3, HasMine
<1>9. ~(Mine(p, s) >= 1) /\ ~Has(p, s)
  <2>1. table[s].count = 1
    BY <1>7 DEF Fresh
  <2> QED BY <1>5, <1>7, <1>8, <2>1, SlotFacts
<1>10. SlotStep(p, s)
  BY <1>7 DEF StepOK, TableStep
<1>11. Keeps(p, s) \/ Starts(s) \/ Shares(s)
  BY <1>9, <1>10 DEF SlotStep, Drops, Fills, Clears
<1>12. /\ table'[s].num = 0 /\ table'[s].count = 1 /\ ~table'[s].dirt /\ ~table'[s].lock
  BY <1>7, <1>9, <1>11 DEF Fresh, Keeps, Starts, Shares
<1>13. stack'[q][1].r = s
  BY <1>2, <1>6
<1> QED BY <1>12, <1>13 DEF Fresh

LEMMA RootStep ==
    ASSUME RefInv, NEW p \in Procs, StepOK(p)
    PROVE  RootOK'
<1>1. RootOK /\ Root \in Slots
  BY InodeAssumption DEF RefInv, Root
<1>2. SlotStep(p, Root) /\ (NoNumber \/ NewNumber \/ OldNumber(p))
  BY <1>1 DEF StepOK, TableStep
<1>3. /\ table[Root].count \in Nat /\ table[Root].count >= 1
      /\ Has(p, Root) => table[Root].count >= 2
  BY <1>1, SlotFacts
<1>4. table'[Root].num = ROOT_INO
  <2>1. ~Starts(Root) /\ ~Fills(p, Root) /\ ~Clears(p, Root)
    BY <1>1, <1>3 DEF Starts, Fills, Fresh, Clears, RootOK, ROOT_INO
  <2> QED BY <1>1, <1>2, <2>1 DEF SlotStep, Keeps, Shares, Drops, RootOK
<1>5. CASE NoNumber
  BY <1>1, <1>4, <1>5 DEF NoNumber, RootOK, ROOT_INO, Root
<1>6. CASE NewNumber
  BY <1>1, <1>4, <1>6 DEF NewNumber, RootOK, Root
<1>7. CASE OldNumber(p)
  <2>1. PICK e \in Slots :
          /\ Has(p, e) /\ table[e].count = 1
          /\ imap' = imap \ {table[e].num} /\ table'[e].num = 0
          /\ \A s \in Slots \ {e} : table'[s].num = table[s].num
    BY <1>7 DEF OldNumber
  <2>2. e # Root
    BY <1>3, <2>1
  <2>3. \A s \in Slots \ {Root} : table'[s].num # ROOT_INO
    BY <1>1, <2>1 DEF RootOK, ROOT_INO
  <2>4. ROOT_INO \in imap'
    BY <1>1, <2>1, <2>2 DEF RootOK
  <2>5. Root' = Root
    BY DEF Root
  <2> QED BY <1>4, <2>3, <2>4, <2>5 DEF RootOK
<1> QED BY <1>2, <1>5, <1>6, <1>7

LEMMA NumberStep ==
    ASSUME RefInv, NEW p \in Procs, StepOK(p), race' = {}
    PROVE  OneInodePerNumber' /\ InTable'
<1>1. race = {}
  BY DEF StepOK, TableStep
<1>2. /\ \A s, t \in Slots : table[s].num = table[t].num /\ table[s].num # 0 => s = t
      /\ \A s \in Slots : table[s].num # 0 => table[s].num \in imap
  BY <1>1 DEF RefInv, OneInodePerNumber, InTable
<1>3. NoNumber \/ NewNumber \/ OldNumber(p)
  BY DEF StepOK, TableStep
<1>4. CASE NoNumber
  BY <1>2, <1>4 DEF NoNumber, OneInodePerNumber, InTable
<1>5. CASE NewNumber
  BY <1>2, <1>5 DEF NewNumber, OneInodePerNumber, InTable
<1>6. CASE OldNumber(p)
  BY <1>2, <1>6 DEF OldNumber, OneInodePerNumber, InTable
<1> QED BY <1>3, <1>4, <1>5, <1>6

LEMMA FreeingSlots ==
    ASSUME NEW st, NEW d, StackOK(st, d), NEW s \in Freeing(st)
    PROVE  s \in Slots
<1>1. PICK i \in DOMAIN st : st[i].pc = "iput_free" /\ st[i].s = s
  BY DEF Freeing
<1>2. DOMAIN st = 1 .. Len(st)
  BY DEF StackOK, IsStack
<1>3. Fields(st[i])
  BY <1>1, <1>2 DEF StackOK, FrameOK, FrameFits
<1> QED BY <1>1, <1>3 DEF Fields, HasS, OwnsS, Puts

LEMMA FreeStep ==
    ASSUME RefInv, NEW p \in Procs, StepOK(p), race' = {}
    PROVE  FreeOK'
<1>1. race = {} /\ FreeOK
  BY DEF StepOK, TableStep, RefInv
<1> SUFFICES ASSUME NEW q \in Procs, NEW s \in Freeing(stack'[q])
             PROVE  table'[s].count = 1 /\ table'[s].nlinks = 0
  BY DEF FreeOK
<1>2. Freed(p) /\ StacksOK
  BY DEF StepOK, StackStep, RefInv
<1>3. CASE UNCHANGED <<stack, table>>
  BY <1>1, <1>3 DEF FreeOK
<1>4. CASE q = p /\ table'[s].count = 1 /\ table'[s].nlinks = 0
  BY <1>4
<1>5. ASSUME s \in Freeing(stack[q]), ~Has(p, s) PROVE table'[s].count = 1 /\ table'[s].nlinks = 0
  <2>1. table[s].count = 1 /\ table[s].nlinks = 0
    BY <1>1, <1>5 DEF FreeOK
  <2>2. s \in Slots
    BY <1>2, <1>5, FreeingSlots DEF StacksOK, Good
  <2>3. s = Root => table[s].count >= 2
    <3>1. Mine(q, s) >= 1
      BY <1>2, <1>5, MineNat
    <3> QED BY <1>2, <2>2, <3>1, Counted DEF RefInv
  <2>4. SlotStep(p, s)
    BY <2>2 DEF StepOK, TableStep
  <2>5. Keeps(p, s) \/ Starts(s) \/ Shares(s)
    BY <1>5, <2>4 DEF SlotStep, Drops, Fills, Clears
  <2>6. ~Starts(s) /\ ~Shares(s)
    BY <2>1, <2>3 DEF Starts, Shares
  <2> QED BY <1>5, <2>1, <2>4, <2>5, <2>6 DEF Keeps, SlotStep
<1>6. ASSUME q # p PROVE s \in Freeing(stack[q]) /\ ~Has(p, s)
  <2>1. stack'[q] = stack[q]
    BY <1>6, Others
  <2>2. s \in Freeing(stack[q]) /\ table[s].count = 1
    BY <1>1, <2>1 DEF FreeOK
  <2>3. Mine(q, s) >= 1
    BY <1>2, <2>2, MineNat
  <2>4. s \in Slots
    BY <1>2, <2>2, FreeingSlots DEF StacksOK, Good
  <2> QED BY <1>6, <2>2, <2>3, <2>4, SlotFacts
<1>7. ASSUME q = p, s \in Freeing(Tail(stack[p])) PROVE s \in Freeing(stack[q]) /\ ~Has(p, s)
  <2>1. CASE stack[p] = <<>>
    BY <1>7, <2>1 DEF Freeing, Has
  <2>2. CASE stack[p] # <<>>
    <3>1. stack[p] = <<stack[p][1]>> \o Tail(stack[p]) /\ IsStack(Tail(stack[p]))
      BY <1>2, <2>2, PopFacts DEF StacksOK, Good, StackOK
    <3>2. s \in Freeing(stack[p])
      BY <1>7, <3>1, FreeingPush
    <3>3. table[s].count = 1
      BY <1>1, <3>2 DEF FreeOK
    <3>4. s \in Slots
      BY <1>2, <3>2, FreeingSlots DEF StacksOK, Good
    <3> QED BY <1>7, <3>2, <3>3, <3>4, SlotFacts
  <2> QED BY <2>1, <2>2
<1> QED BY <1>2, <1>3, <1>4, <1>5, <1>6, <1>7 DEF Freed

LEMMA StepKeeps ==
    ASSUME RefInv, NEW p \in Procs, StepOK(p)
    PROVE  RefInv'
<1>1. TableOK' /\ PanicOK'
  BY DEF StepOK, TableStep, PanicOK
<1>2. StacksOK' /\ CountOK' /\ UnusedIsClean' /\ ReadyOK' /\ RootOK'
  BY Others, CountStep, CleanStep, ReadyStep, RootStep
<1>3. race' = {} => OneInodePerNumber' /\ InTable' /\ FreeOK'
  BY NumberStep, FreeStep
<1> QED BY <1>1, <1>2, <1>3 DEF RefInv
-----------------------------------------------------------------------------
\* Steps that leave the table as it is, or change inodes p has a reference to.
LEMMA SameTable ==
    ASSUME TableOK, NEW p, table' = table, imap' = imap, race \subseteq race'
    PROVE  TableStep(p) /\ SameCounts
<1>1. TableOK'
  BY DEF TableOK
<1>2. \A s \in Slots : SlotStep(p, s)
  BY DEF SlotStep, Keeps
<1>3. NoNumber
  BY DEF NoNumber
<1> QED BY <1>1, <1>2, <1>3 DEF TableStep, SameCounts

Touched(p, s) ==
    /\ Mine(p, s) >= 1 /\ IsInode(table'[s])
    /\ table'[s].num = table[s].num /\ table'[s].count = table[s].count
    /\ table'[s].lock => table[s].lock
    /\ table'[s].nlinks = table[s].nlinks \/ Has(p, s)

LEMMA Touching ==
    ASSUME TableOK, NEW p, table' = [s \in Slots |-> table'[s]], imap' = imap, race \subseteq race',
           \A s \in Slots : table'[s] = table[s] \/ Touched(p, s)
    PROVE  TableStep(p) /\ SameCounts
<1>1. TableOK'
  BY DEF TableOK, Touched
<1>2. \A s \in Slots : SlotStep(p, s)
  BY DEF SlotStep, Keeps, Touched
<1>3. NoNumber
  BY DEF NoNumber, Touched
<1>4. \A s \in Slots : table'[s].count = table[s].count
  BY DEF Touched
<1> QED BY <1>1, <1>2, <1>3, <1>4 DEF TableStep, SameCounts

LEMMA TouchOne ==
    ASSUME TableOK, NEW p, NEW e \in Slots, NEW j, table' = [table EXCEPT ![e] = j],
           imap' = imap, race \subseteq race',
           Mine(p, e) >= 1, IsInode(j), j.num = table[e].num, j.count = table[e].count,
           j.lock => table[e].lock, j.nlinks = table[e].nlinks \/ Has(p, e)
    PROVE  TableStep(p) /\ SameCounts
<1>1. table' = [s \in Slots |-> table'[s]] /\ table'[e] = j /\ \A s \in Slots \ {e} : table'[s] = table[s]
  BY DEF TableOK
<1>2. Touched(p, e)
  BY <1>1 DEF Touched
<1> QED BY <1>1, <1>2, Touching

LEMMA HasTop ==
    ASSUME NEW p, NEW f, NEW t, NEW k, NEW d, Runs(p, f, t, k, d), NEW s, Own(f, s) >= 1
    PROVE  Has(p, s) /\ Mine(p, s) >= 1
<1>1. StacksOK /\ p \in Procs /\ stack[p] # <<>> /\ f = Top(p)
  BY DEF Runs
<1>2. Has(p, s)
  BY <1>1 DEF Has
<1> QED BY <1>1, <1>2, HasMine

LEMMA Borrowed ==
    ASSUME NEW p, NEW f, NEW t, NEW k, NEW d, Runs(p, f, t, k, d), Frame(f, t, k, d), f.pc \in Borrows
    PROVE  f.s \in Slots /\ Mine(p, f.s) >= 1
<1>1. /\ StacksOK /\ p \in Procs /\ stack[p] # <<>> /\ f = Top(p) /\ t = Tail(stack[p]) /\ d = fd[p]
  BY DEF Runs
<1>2. PICK s : s = f.s
  OBVIOUS
<1>3. s \in Slots /\ (Owning(t, s) >= 1 \/ d = s)
  BY <1>2 DEF Frame, FrameFits, Fields, HasS
<1>4. /\ Mine(p, s) = Owning(t, s) + Own(f, s) + Opened(d, s)
      /\ Owning(t, s) \in Nat /\ Own(f, s) \in Nat /\ Opened(d, s) \in Nat
  BY <1>1, MineIs
<1>5. d = s => Opened(d, s) = 1
  BY DEF Opened
<1> QED BY <1>2, <1>3, <1>4, <1>5

LEMMA StepIs ==
    ASSUME NEW p, NEW f, NEW t, NEW k, NEW d, Runs(p, f, t, k, d), UNCHANGED fd,
           StackStep(p), TableStep(p), race' = {} => panic' \notin InodePanics
    PROVE  StepOK(p)
<1>1. running \in {p, NoProc} /\ StacksOK /\ p \in Procs
  BY DEF Runs, MayRun
<1>2. fd' = [fd EXCEPT ![p] = fd'[p]] /\ fd'[p] \in Slots \cup {NoSlot}
  BY <1>1 DEF StacksOK
<1> QED BY <1>1, <1>2 DEF StepOK

LEMMA PlainStep ==
    ASSUME NEW p, NEW f, NEW t, NEW k, NEW d, Runs(p, f, t, k, d), UNCHANGED fd,
           StackStep(p), TableStep(p), UNCHANGED panic
    PROVE  StepOK(p)
<1>1. panic' \notin InodePanics
  BY DEF Runs, MayRun, InodePanics
<1> QED BY <1>1, StepIs

\* The process sleeps, or the system panics, where it is.
LEMMA StayStep ==
    ASSUME NEW p, NEW f, NEW t, NEW k, NEW d, Runs(p, f, t, k, d), Frame(f, t, k, d),
           UNCHANGED <<fd, stack, table, imap, race>>, Takes(f.pc) # "entry",
           race' = {} => panic' \notin InodePanics
    PROVE  StepOK(p)
<1>1. TableStep(p) /\ SameCounts
  BY SameTable DEF Runs
<1>2. StackStep(p)
  <2>1. StacksOK /\ p \in Procs /\ stack[p][1] = f /\ TableOK
    BY DEF Runs
  <2>2. Good(p)' /\ stack' = [stack EXCEPT ![p] = stack'[p]]
    BY <2>1 DEF StacksOK, Good
  <2>3. Ready(p)'
    BY <2>1 DEF Frame, Ready, Fresh
  <2>4. Balanced(p)
    <3>1. \A s \in Slots : Mine(p, s)' = Mine(p, s)
      BY DEF Mine
    <3> QED BY <3>1 DEF Balanced
  <2> QED BY <2>2, <2>3, <2>4 DEF StackStep, Freed
<1> QED BY <1>1, <1>2, StepIs
-----------------------------------------------------------------------------
\* One lemma for each step.
LEMMA BelowNat ==
    ASSUME NEW p, NEW f, NEW t, NEW k, NEW d, Runs(p, f, t, k, d)
    PROVE  \A s : Owning(t, s) \in Nat
BY OwningNat DEF Runs, StackOK

\* Frames pushed by parts.
LEMMA Frames3 == \A a, b, c : <<a, b>> \o <<c>> = <<a, b, c>>
<1> TAKE a, b, c
<1>1. PICK S : a \in S /\ b \in S /\ c \in S
  <2>1. a \in {a, b, c} /\ b \in {a, b, c} /\ c \in {a, b, c}
    OBVIOUS
  <2> QED BY <2>1
<1>2. PICK x, y, u, v : x = <<a, b>> /\ y = <<c>> /\ u = x \o y /\ v = <<a, b, c>>
  OBVIOUS
<1>3. x \in Seq(S) /\ y \in Seq(S) /\ v \in Seq(S) /\ Len(x) = 2 /\ Len(y) = 1 /\ Len(v) = 3
  BY <1>1, <1>2
<1>4. u \in Seq(S) /\ Len(u) = 3
  BY <1>2, <1>3
<1>5. u[1] = x[1] /\ u[2] = x[2] /\ u[3] = y[1]
  BY <1>2, <1>3
<1>6. \A i \in 1 .. 3 : u[i] = v[i]
  BY <1>2, <1>5
<1> QED BY <1>2, <1>3, <1>4, <1>6, SameSeq

LEMMA Frames4 == \A a, b, c, e : <<a>> \o <<b, c>> \o <<e>> = <<a, b, c, e>>
<1> TAKE a, b, c, e
<1>1. PICK S : a \in S /\ b \in S /\ c \in S /\ e \in S
  <2>1. a \in {a, b, c, e} /\ b \in {a, b, c, e} /\ c \in {a, b, c, e} /\ e \in {a, b, c, e}
    OBVIOUS
  <2> QED BY <2>1
<1>2. PICK x, y, z, u, w, v : /\ x = <<a>> /\ y = <<b, c>> /\ z = <<e>> /\ w = x \o y
                              /\ u = w \o z /\ v = <<a, b, c, e>>
  OBVIOUS
<1>3. /\ x \in Seq(S) /\ y \in Seq(S) /\ z \in Seq(S) /\ v \in Seq(S)
      /\ Len(x) = 1 /\ Len(y) = 2 /\ Len(z) = 1 /\ Len(v) = 4
  BY <1>1, <1>2
<1>4. w \in Seq(S) /\ Len(w) = 3 /\ w[1] = x[1] /\ w[2] = y[1] /\ w[3] = y[2]
  BY <1>2, <1>3
<1>5. u \in Seq(S) /\ Len(u) = 4 /\ u[1] = w[1] /\ u[2] = w[2] /\ u[3] = w[3] /\ u[4] = z[1]
  BY <1>2, <1>3, <1>4
<1>6. \A i \in 1 .. 4 : u[i] = v[i]
  BY <1>2, <1>4, <1>5
<1> QED BY <1>2, <1>3, <1>5, <1>6, SameSeq


LEMMA get_dir_foundStep ==
    ASSUME RefInv, NEW p \in Procs, MayRun(p), UNCHANGED fd, get_dir_found(p)
    PROVE  StepOK(p)
<1> USE DEF TakesInode, TakesMaybe, TakesEmpty, TakesEntry, Takes, Puts, GivesInode, GivesMaybe, GivesEntry, Gives, Borrows, OwnsS, HasS, HasDirInode, HasDir, HasInode, HasArg, Opens, Plain
<1>1. PICK f, t, k, d : Runs(p, f, t, k, d) /\ Frame(f, t, k, d)
  BY Running
<1>2. f = Top(p) /\ f.pc = "get_dir_found"
  BY <1>1 DEF Runs, get_dir_found, At
<1>3. TableStep(p) /\ SameCounts /\ UNCHANGED panic
  BY <1>1, SameTable DEF Runs, get_dir_found, SamePlace
<1>4. ASSUME f.r = NoEntry PROVE StackStep(p)
  <2>1. PICK g : g = Iput(f.dir, NoSlot)
    OBVIOUS
  <2>2. Becomes(p, <<g>>)
    BY <1>2, <1>4, <2>1 DEF get_dir_found
  <2>3. FrameFits(g, k, Owning(t, g.s), d) /\ g.pc # "iput_free" /\ Takes(g.pc) = "other"
    BY <1>1, <1>2, <1>4, <2>1 DEF Frame, FrameFits, Fields, TopOK, Iput, F, With
  <2>4. \A s \in Slots : Owns(g, s) = Own(f, s)
    BY <1>1, <1>2, <1>4, <2>1 DEF Frame, FrameFits, Fields, TopOK, Own, Owns, Waits, Iput, F, With
  <2> QED BY <1>1, <1>3, <2>2, <2>3, <2>4, Become1
<1>5. ASSUME f.r # NoEntry PROVE StackStep(p)
  <2>1. PICK g, h1, h2, h : g = Iput(f.dir, 0) /\ h1 = F("get_empty_inode", <<>>) /\ h2 = F("iget", [nr |-> Entry(f.r).nr, de |-> f.r]) /\ h = F("get_dir_step", [path |-> f.path])
    OBVIOUS
  <2>2. Becomes(p, <<g, h1, h2, h>>)
    BY <1>2, <1>5, <2>1, Frames4, ZenonT(40) DEF get_dir_found, Iget
  <2>3. FrameFits(h, k, Owning(t, h.s), d) /\ h.pc # "iput_free"
    BY <1>1, <1>2, <1>5, <2>1 DEF Frame, FrameFits, Fields, TopOK, Iput, F, With
  <2>4. FrameFits(h2, Takes(h.pc), Owning(t, h2.s) + Owns(h, h2.s), d) /\ h2.pc # "iput_free"
    BY <1>1, <1>2, <1>5, <2>1 DEF Frame, FrameFits, Fields, TopOK, Iput, F, With
  <2>5. FrameFits(h1, Takes(h2.pc), Owning(t, h1.s) + Owns(h, h1.s) + Owns(h2, h1.s), d) /\ h1.pc # "iput_free"
    BY <1>1, <1>2, <1>5, <2>1 DEF Frame, FrameFits, Fields, TopOK, Iput, F, With
  <2>6. FrameFits(g, Takes(h1.pc), Owning(t, g.s) + Owns(h, g.s) + Owns(h2, g.s) + Owns(h1, g.s), d) /\ g.pc # "iput_free" /\ Takes(g.pc) = "other"
    BY <1>1, <1>2, <1>5, <2>1 DEF Frame, FrameFits, Fields, TopOK, Iput, F, With
  <2>7. \A s \in Slots : Owns(h, s) + Owns(h2, s) + Owns(h1, s) + Owns(g, s) = Own(f, s)
    BY <1>1, <1>2, <1>5, <2>1 DEF Frame, FrameFits, Fields, TopOK, Own, Owns, Waits, Iput, F, With
  <2> QED BY <1>1, <1>3, <2>2, <2>3, <2>4, <2>5, <2>6, <2>7, Become4
<1>9. StackStep(p)
  BY <1>2, <1>4, <1>5
<1> QED BY <1>1, <1>3, <1>9, PlainStep

Adds == {"add_entry", "add_scan", "add_next"}
Empties == {"empty_dir", "empty_scan", "empty_next"}
SameScan(x, y) == \/ x \in GivesEntry /\ y \in GivesEntry
                  \/ x \in Adds /\ y \in Adds
                  \/ x \in Empties /\ y \in Empties

LEMMA ReadBlockStep ==
    ASSUME NEW p, NEW f, NEW t, NEW k, NEW d, Runs(p, f, t, k, d), Frame(f, t, k, d),
           UNCHANGED fd, SameCounts, NEW x, NEW z, ReadBlock(p, f, x, z), SameScan(f.pc, x)
    PROVE  StackStep(p)
<1> USE DEF TakesInode, TakesMaybe, TakesEmpty, TakesEntry, Takes, Puts, GivesInode, GivesMaybe, GivesEntry, Gives, Borrows, OwnsS, HasS, HasDirInode, HasDir, HasInode, HasArg, Opens, Plain, Adds, Empties, SameScan
<1>1. PICK g : g = [f EXCEPT !.pc = x, !.bh = z]
  OBVIOUS
<1>2. Becomes(p, <<g>>)
  BY <1>1 DEF ReadBlock
<1>3. g.pc = x /\ g.s = f.s /\ g = [y \in DOMAIN g |-> g[y]] /\ DOMAIN g = DOMAIN f
  BY <1>1 DEF Frame, FrameFits, Fields
<1>4. FrameFits(g, k, Owning(t, g.s), d) /\ g.pc # "iput_free" /\ Takes(g.pc) = "other"
  BY <1>3 DEF Frame, FrameFits, Fields
<1>5. \A s \in Slots : Owns(g, s) = Own(f, s)
  BY <1>3 DEF Own, Owns, Waits
<1> QED BY <1>2, <1>4, <1>5, Become1

LEMMA NextBlockStep ==
    ASSUME NEW p, NEW f, NEW t, NEW k, NEW d, Runs(p, f, t, k, d), Frame(f, t, k, d),
           UNCHANGED fd, SameCounts, NEW x, NEW create, NextBlock(p, f, x, create), SameScan(f.pc, x)
    PROVE  StackStep(p)
<1> USE DEF TakesInode, TakesMaybe, TakesEmpty, TakesEntry, Takes, Puts, GivesInode, GivesMaybe, GivesEntry, Gives, Borrows, OwnsS, HasS, HasDirInode, HasDir, HasInode, HasArg, Opens, Plain, Adds, Empties, SameScan
<1>1. PICK h : h = [f EXCEPT !.pc = x, !.i = @ + 1, !.bh = 0]
  OBVIOUS
<1>2. PICK g : g = Bmap(f.s, f.i + 1, create)
  OBVIOUS
<1>3. Becomes(p, <<g, h>>)
  BY <1>1, <1>2 DEF NextBlock
<1>4. h.pc = x /\ h.s = f.s /\ h = [y \in DOMAIN h |-> h[y]] /\ DOMAIN h = DOMAIN f
  BY <1>1 DEF Frame, FrameFits, Fields
<1>5. g.pc = "bmap" /\ g.s = f.s /\ g = [y \in DOMAIN g |-> g[y]] /\ {"pc", "r", "s"} \subseteq DOMAIN g
  BY <1>2 DEF Bmap, F, With
<1>6. FrameFits(h, k, Owning(t, h.s), d) /\ h.pc # "iput_free" /\ Takes(h.pc) = "other"
  BY <1>4 DEF Frame, FrameFits, Fields
<1>7. \A s : Owns(h, s) = 0 /\ Owns(g, s) = 0 /\ Own(f, s) = 0 /\ Owning(t, s) \in Nat
  BY <1>4, <1>5, BelowNat DEF Own, Owns, Waits
<1>8. FrameFits(g, Takes(h.pc), Owning(t, g.s) + Owns(h, g.s), d)
  BY <1>4, <1>5, <1>6, <1>7 DEF Frame, FrameFits, Fields
<1>9. g.pc # "iput_free" /\ Takes(g.pc) = "other"
  BY <1>5
<1>10. \A s \in Slots : Owns(h, s) + Owns(g, s) = Own(f, s)
  BY <1>7
<1> QED BY <1>3, <1>6, <1>8, <1>9, <1>10, Become2

\* A value returned to a frame: the process goes on.
LEMMA KeepsRunning ==
    ASSUME NEW p, NEW f, NEW t, NEW k, NEW d, Runs(p, f, t, k, d), NEW v, Return(p, v), Keep(p), k = "entry"
    PROVE  running' = p
<1>1. PICK st, u : st = stack[p] /\ u = Returned(st, v)
  OBVIOUS
<1>2. stack'[p] = u
  <2>1. stack' = [stack EXCEPT ![p] = Returned(stack[p], v)]
    BY DEF Return, Returned
  <2> QED BY <1>1, <2>1 DEF StacksOK, Runs
<1>3. StackOK(st, d) /\ st # <<>> /\ k = Kind(Tail(st))
  BY <1>1 DEF Runs
<1>4. u # <<>>
  BY <1>1, <1>3, ReturnStack
<1> QED BY <1>2, <1>4 DEF Keep

LEMMA first_blockStep ==
    ASSUME RefInv, NEW p \in Procs, MayRun(p), UNCHANGED fd, first_block(p)
    PROVE  StepOK(p)
<1> USE DEF TakesInode, TakesMaybe, TakesEmpty, TakesEntry, Takes, Puts, GivesInode, GivesMaybe, GivesEntry, Gives, Borrows, OwnsS, HasS, HasDirInode, HasDir, HasInode, HasArg, Opens, Plain
<1>1. PICK f, t, k, d : Runs(p, f, t, k, d) /\ Frame(f, t, k, d)
  BY Running
<1>2. f = Top(p) /\ (f.pc = "find_entry" \/ f.pc = "add_entry")
  BY <1>1 DEF Runs, first_block, At
<1>3. TableStep(p) /\ SameCounts /\ UNCHANGED panic
  BY <1>1, SameTable DEF Runs, first_block, SamePlace
<1>4. ASSUME Return(p, NoEntry) PROVE StackStep(p)
  <2>1. \A s \in Slots : Own(f, s) = 0
    BY <1>2, OwnNat DEF Own, Owns, Waits
  <2>2. k \in Plain \/ k = "entry"
    BY <1>1, <1>2 DEF Frame, FrameFits
  <2> QED BY <1>1, <1>3, <1>4, <2>1, <2>2, ReturnsPlain
<1>5. ASSUME NEW z, ReadBlock(p, f, IF f.pc = "find_entry" THEN "find_scan" ELSE "add_scan", z) PROVE StackStep(p)
  <2>1. PICK x : x = IF f.pc = "find_entry" THEN "find_scan" ELSE "add_scan"
    OBVIOUS
  <2>2. ReadBlock(p, f, x, z) /\ SameScan(f.pc, x)
    BY <1>2, <1>5, <2>1 DEF SameScan, Adds
  <2> QED BY <1>1, <1>3, <2>2, ReadBlockStep
<1>9. StackStep(p)
  BY <1>2, <1>4, <1>5 DEF first_block
<1> QED BY <1>1, <1>3, <1>9, PlainStep

LEMMA find_entryStep ==
    ASSUME RefInv, NEW p \in Procs, MayRun(p), UNCHANGED fd, find_entry(p)
    PROVE  StepOK(p)
<1> USE DEF TakesInode, TakesMaybe, TakesEmpty, TakesEntry, Takes, Puts, GivesInode, GivesMaybe, GivesEntry, Gives, Borrows, OwnsS, HasS, HasDirInode, HasDir, HasInode, HasArg, Opens, Plain
<1>1. PICK f, t, k, d : Runs(p, f, t, k, d) /\ Frame(f, t, k, d)
  BY Running
<1>2. f = Top(p) /\ f.pc = "find_scan"
  BY <1>1 DEF Runs, find_entry, At
<1>3. TableStep(p) /\ SameCounts /\ UNCHANGED panic
  BY <1>1, SameTable DEF Runs, find_entry, SamePlace
<1>4. ASSUME Matches(f) # {}, Return(p, <<f.bh, Min(Matches(f))>>) PROVE StackStep(p)
  <2>1. PICK c, v : c = Min(Matches(f)) /\ v = <<f.bh, c>>
    OBVIOUS
  <2>2. c \in Matches(f)
    <3>1. Matches(f) \in SUBSET Nat
      BY InodeAssumption DEF Matches
    <3> QED BY <1>4, <2>1, <3>1, MinIn
  <2>3. block[f.bh][c].nr # 0
    BY <2>2 DEF Matches
  <2>4. Return(p, v) /\ Keep(p) /\ block' = block /\ k = "entry"
    BY <1>1, <1>2, <1>4, <2>1 DEF find_entry, SamePlace, Frame, FrameFits
  <2>5. running' = p
    BY <1>1, <2>4, KeepsRunning
  <2>6. Entry(v)'.nr # 0
    BY <2>1, <2>3, <2>4 DEF Entry
  <2>7. \A s \in Slots : Own(f, s) = 0
    BY <1>2, OwnNat DEF Own, Owns, Waits
  <2> QED BY <1>1, <1>3, <2>4, <2>5, <2>6, <2>7, ReturnsPlain
<1>5. ASSUME Return(p, NoEntry) PROVE StackStep(p)
  <2>1. Return(p, NoEntry)
    BY <1>5
  <2>2. \A s \in Slots : Own(f, s) = 0
    BY <1>2, OwnNat DEF Own, Owns, Waits
  <2>3. k = "entry" /\ (NoEntry = NoEntry \/ (running' = p /\ Entry(NoEntry)'.nr # 0))
    BY <1>1, <1>2, <1>5, <2>1 DEF Frame, FrameFits
  <2> QED BY <1>1, <1>3, <2>1, <2>2, <2>3, ReturnsPlain
<1>6. ASSUME NextBlock(p, f, "find_next", FALSE) PROVE StackStep(p)
  <2>1. SameScan(f.pc, "find_next")
    BY <1>2 DEF SameScan, Adds, Empties
  <2> QED BY <1>1, <1>3, <1>6, <2>1, NextBlockStep
<1>9. StackStep(p)
  BY <1>2, <1>4, <1>5, <1>6 DEF find_entry
<1> QED BY <1>1, <1>3, <1>9, PlainStep

LEMMA find_nextStep ==
    ASSUME RefInv, NEW p \in Procs, MayRun(p), UNCHANGED fd, find_next(p)
    PROVE  StepOK(p)
<1> USE DEF TakesInode, TakesMaybe, TakesEmpty, TakesEntry, Takes, Puts, GivesInode, GivesMaybe, GivesEntry, Gives, Borrows, OwnsS, HasS, HasDirInode, HasDir, HasInode, HasArg, Opens, Plain
<1>1. PICK f, t, k, d : Runs(p, f, t, k, d) /\ Frame(f, t, k, d)
  BY Running
<1>2. f = Top(p) /\ f.pc = "find_next"
  BY <1>1 DEF Runs, find_next, At
<1>3. TableStep(p) /\ SameCounts /\ UNCHANGED panic
  BY <1>1, SameTable DEF Runs, find_next, SamePlace
<1>4. ASSUME NEW z, ReadBlock(p, f, "find_scan", z) PROVE StackStep(p)
  <2>1. SameScan(f.pc, "find_scan")
    BY <1>2 DEF SameScan, Adds, Empties
  <2> QED BY <1>1, <1>3, <1>4, <2>1, ReadBlockStep
<1>5. ASSUME Return(p, NoEntry) PROVE StackStep(p)
  <2>1. Return(p, NoEntry)
    BY <1>5
  <2>2. \A s \in Slots : Own(f, s) = 0
    BY <1>2, OwnNat DEF Own, Owns, Waits
  <2>3. k = "entry" /\ (NoEntry = NoEntry \/ (running' = p /\ Entry(NoEntry)'.nr # 0))
    BY <1>1, <1>2, <1>5, <2>1 DEF Frame, FrameFits
  <2> QED BY <1>1, <1>3, <2>1, <2>2, <2>3, ReturnsPlain
<1>6. ASSUME NextBlock(p, f, "find_next", FALSE) PROVE StackStep(p)
  <2>1. SameScan(f.pc, "find_next")
    BY <1>2 DEF SameScan, Adds, Empties
  <2> QED BY <1>1, <1>3, <1>6, <2>1, NextBlockStep
<1>9. StackStep(p)
  BY <1>2, <1>4, <1>5, <1>6 DEF find_next
<1> QED BY <1>1, <1>3, <1>9, PlainStep

LEMMA add_nextStep ==
    ASSUME RefInv, NEW p \in Procs, MayRun(p), UNCHANGED fd, add_next(p)
    PROVE  StepOK(p)
<1> USE DEF TakesInode, TakesMaybe, TakesEmpty, TakesEntry, Takes, Puts, GivesInode, GivesMaybe, GivesEntry, Gives, Borrows, OwnsS, HasS, HasDirInode, HasDir, HasInode, HasArg, Opens, Plain
<1>1. PICK f, t, k, d : Runs(p, f, t, k, d) /\ Frame(f, t, k, d)
  BY Running
<1>2. f = Top(p) /\ f.pc = "add_next"
  BY <1>1 DEF Runs, add_next, At
<1>3. TableStep(p) /\ SameCounts /\ UNCHANGED panic
  BY <1>1, SameTable DEF Runs, add_next, SamePlace
<1>4. ASSUME NEW z, ReadBlock(p, f, "add_scan", z) PROVE StackStep(p)
  <2>1. SameScan(f.pc, "add_scan")
    BY <1>2 DEF SameScan, Adds, Empties
  <2> QED BY <1>1, <1>3, <1>4, <2>1, ReadBlockStep
<1>5. ASSUME Return(p, NoEntry) PROVE StackStep(p)
  <2>1. Return(p, NoEntry)
    BY <1>5
  <2>2. \A s \in Slots : Own(f, s) = 0
    BY <1>2, OwnNat DEF Own, Owns, Waits
  <2>3. k \in Plain
    BY <1>1, <1>2, <1>5, <2>1 DEF Frame, FrameFits
  <2> QED BY <1>1, <1>3, <2>1, <2>2, <2>3, ReturnsPlain
<1>6. ASSUME NextBlock(p, f, "add_next", TRUE) PROVE StackStep(p)
  <2>1. SameScan(f.pc, "add_next")
    BY <1>2 DEF SameScan, Adds, Empties
  <2> QED BY <1>1, <1>3, <1>6, <2>1, NextBlockStep
<1>9. StackStep(p)
  BY <1>2, <1>4, <1>5, <1>6 DEF add_next
<1> QED BY <1>1, <1>3, <1>9, PlainStep

LEMMA empty_dirStep ==
    ASSUME RefInv, NEW p \in Procs, MayRun(p), UNCHANGED fd, empty_dir(p)
    PROVE  StepOK(p)
<1> USE DEF TakesInode, TakesMaybe, TakesEmpty, TakesEntry, Takes, Puts, GivesInode, GivesMaybe, GivesEntry, Gives, Borrows, OwnsS, HasS, HasDirInode, HasDir, HasInode, HasArg, Opens, Plain
<1>1. PICK f, t, k, d : Runs(p, f, t, k, d) /\ Frame(f, t, k, d)
  BY Running
<1>2. f = Top(p) /\ f.pc = "empty_dir"
  BY <1>1 DEF Runs, empty_dir, At
<1>3. TableStep(p) /\ SameCounts /\ UNCHANGED panic
  BY <1>1, SameTable DEF Runs, empty_dir, SamePlace
<1>4. ASSUME NEW z, ReadBlock(p, f, "empty_scan", z) PROVE StackStep(p)
  <2>1. SameScan(f.pc, "empty_scan")
    BY <1>2 DEF SameScan, Adds, Empties
  <2> QED BY <1>1, <1>3, <1>4, <2>1, ReadBlockStep
<1>5. ASSUME Return(p, FALSE) PROVE StackStep(p)
  <2>1. Return(p, FALSE)
    BY <1>5
  <2>2. \A s \in Slots : Own(f, s) = 0
    BY <1>2, OwnNat DEF Own, Owns, Waits
  <2>3. k \in Plain
    BY <1>1, <1>2, <1>5, <2>1 DEF Frame, FrameFits
  <2> QED BY <1>1, <1>3, <2>1, <2>2, <2>3, ReturnsPlain
<1>9. StackStep(p)
  BY <1>2, <1>4, <1>5 DEF empty_dir
<1> QED BY <1>1, <1>3, <1>9, PlainStep

LEMMA empty_scanStep ==
    ASSUME RefInv, NEW p \in Procs, MayRun(p), UNCHANGED fd, empty_scan(p)
    PROVE  StepOK(p)
<1> USE DEF TakesInode, TakesMaybe, TakesEmpty, TakesEntry, Takes, Puts, GivesInode, GivesMaybe, GivesEntry, Gives, Borrows, OwnsS, HasS, HasDirInode, HasDir, HasInode, HasArg, Opens, Plain
<1>1. PICK f, t, k, d : Runs(p, f, t, k, d) /\ Frame(f, t, k, d)
  BY Running
<1>2. f = Top(p) /\ f.pc = "empty_scan"
  BY <1>1 DEF Runs, empty_scan, At
<1>3. TableStep(p) /\ SameCounts /\ UNCHANGED panic
  BY <1>1, SameTable DEF Runs, empty_scan, SamePlace
<1>4. ASSUME Return(p, FALSE) PROVE StackStep(p)
  <2>1. Return(p, FALSE)
    BY <1>4
  <2>2. \A s \in Slots : Own(f, s) = 0
    BY <1>2, OwnNat DEF Own, Owns, Waits
  <2>3. k \in Plain
    BY <1>1, <1>2, <1>4, <2>1 DEF Frame, FrameFits
  <2> QED BY <1>1, <1>3, <2>1, <2>2, <2>3, ReturnsPlain
<1>5. ASSUME Return(p, TRUE) PROVE StackStep(p)
  <2>1. Return(p, TRUE)
    BY <1>5
  <2>2. \A s \in Slots : Own(f, s) = 0
    BY <1>2, OwnNat DEF Own, Owns, Waits
  <2>3. k \in Plain
    BY <1>1, <1>2, <1>5, <2>1 DEF Frame, FrameFits
  <2> QED BY <1>1, <1>3, <2>1, <2>2, <2>3, ReturnsPlain
<1>6. ASSUME NextBlock(p, f, "empty_next", FALSE) PROVE StackStep(p)
  <2>1. SameScan(f.pc, "empty_next")
    BY <1>2 DEF SameScan, Adds, Empties
  <2> QED BY <1>1, <1>3, <1>6, <2>1, NextBlockStep
<1>9. StackStep(p)
  BY <1>2, <1>4, <1>5, <1>6 DEF empty_scan
<1> QED BY <1>1, <1>3, <1>9, PlainStep

LEMMA empty_nextStep ==
    ASSUME RefInv, NEW p \in Procs, MayRun(p), UNCHANGED fd, empty_next(p)
    PROVE  StepOK(p)
<1> USE DEF TakesInode, TakesMaybe, TakesEmpty, TakesEntry, Takes, Puts, GivesInode, GivesMaybe, GivesEntry, Gives, Borrows, OwnsS, HasS, HasDirInode, HasDir, HasInode, HasArg, Opens, Plain
<1>1. PICK f, t, k, d : Runs(p, f, t, k, d) /\ Frame(f, t, k, d)
  BY Running
<1>2. f = Top(p) /\ f.pc = "empty_next"
  BY <1>1 DEF Runs, empty_next, At
<1>3. TableStep(p) /\ SameCounts /\ UNCHANGED panic
  BY <1>1, SameTable DEF Runs, empty_next, SamePlace
<1>4. ASSUME NEW z, ReadBlock(p, f, "empty_scan", z) PROVE StackStep(p)
  <2>1. SameScan(f.pc, "empty_scan")
    BY <1>2 DEF SameScan, Adds, Empties
  <2> QED BY <1>1, <1>3, <1>4, <2>1, ReadBlockStep
<1>5. ASSUME Return(p, FALSE) PROVE StackStep(p)
  <2>1. Return(p, FALSE)
    BY <1>5
  <2>2. \A s \in Slots : Own(f, s) = 0
    BY <1>2, OwnNat DEF Own, Owns, Waits
  <2>3. k \in Plain
    BY <1>1, <1>2, <1>5, <2>1 DEF Frame, FrameFits
  <2> QED BY <1>1, <1>3, <2>1, <2>2, <2>3, ReturnsPlain
<1>6. ASSUME Return(p, TRUE) PROVE StackStep(p)
  <2>1. Return(p, TRUE)
    BY <1>6
  <2>2. \A s \in Slots : Own(f, s) = 0
    BY <1>2, OwnNat DEF Own, Owns, Waits
  <2>3. k \in Plain
    BY <1>1, <1>2, <1>6, <2>1 DEF Frame, FrameFits
  <2> QED BY <1>1, <1>3, <2>1, <2>2, <2>3, ReturnsPlain
<1>7. ASSUME NextBlock(p, f, "empty_next", FALSE) PROVE StackStep(p)
  <2>1. SameScan(f.pc, "empty_next")
    BY <1>2 DEF SameScan, Adds, Empties
  <2> QED BY <1>1, <1>3, <1>7, <2>1, NextBlockStep
<1>9. StackStep(p)
  BY <1>2, <1>4, <1>5, <1>6, <1>7 DEF empty_next
<1> QED BY <1>1, <1>3, <1>9, PlainStep

LEMMA Frames2 == \A a, b : <<a>> \o <<b>> = <<a, b>> /\ <<>> \o <<a>> = <<a>> /\ <<a>> \o <<>> = <<a>>
<1> TAKE a, b
<1>1. PICK S : a \in S /\ b \in S
  <2>1. a \in {a, b} /\ b \in {a, b}
    OBVIOUS
  <2> QED BY <2>1
<1>2. PICK x, y, u, v : x = <<a>> /\ y = <<b>> /\ u = x \o y /\ v = <<a, b>>
  OBVIOUS
<1>3. x \in Seq(S) /\ y \in Seq(S) /\ v \in Seq(S) /\ Len(x) = 1 /\ Len(y) = 1 /\ Len(v) = 2
  BY <1>1, <1>2
<1>4. u \in Seq(S) /\ Len(u) = 2
  BY <1>2, <1>3
<1>5. u[1] = x[1] /\ u[2] = y[1]
  BY <1>2, <1>3
<1>6. \A i \in 1 .. 2 : u[i] = v[i]
  <2>1. u[1] = a /\ u[2] = b /\ v[1] = a /\ v[2] = b
    BY <1>2, <1>5
  <2> QED BY <2>1
<1>7. <<a>> \o <<b>> = <<a, b>>
  BY <1>2, <1>3, <1>4, <1>6, SameSeq
<1>8. <<>> \o x = x /\ x \o <<>> = x
  BY <1>3
<1> QED BY <1>2, <1>7, <1>8

LEMMA Frames13 == \A a, b, c, e : <<a>> \o <<b, c, e>> = <<a, b, c, e>>
<1> TAKE a, b, c, e
<1>1. PICK S : a \in S /\ b \in S /\ c \in S /\ e \in S
  <2>1. a \in {a, b, c, e} /\ b \in {a, b, c, e} /\ c \in {a, b, c, e} /\ e \in {a, b, c, e}
    OBVIOUS
  <2> QED BY <2>1
<1>2. PICK x, y, u, v : x = <<a>> /\ y = <<b, c, e>> /\ u = x \o y /\ v = <<a, b, c, e>>
  OBVIOUS
<1>3. x \in Seq(S) /\ y \in Seq(S) /\ v \in Seq(S) /\ Len(x) = 1 /\ Len(y) = 3 /\ Len(v) = 4
  BY <1>1, <1>2
<1>4. u \in Seq(S) /\ Len(u) = 4 /\ u[1] = x[1] /\ u[2] = y[1] /\ u[3] = y[2] /\ u[4] = y[3]
  BY <1>2, <1>3
<1>5. \A i \in 1 .. 4 : u[i] = v[i]
  BY <1>2, <1>4
<1> QED BY <1>2, <1>3, <1>4, <1>5, SameSeq

LEMMA HoldFrames ==
    \A a, b, de : /\ Hold(<<a, b>>, de) = <<With(a, [bh |-> de[1]]), With(b, [bh |-> de[1]])>>
                  /\ Hold(<<a>>, de) = <<With(a, [bh |-> de[1]])>>
BY DEF Hold

LEMMA get_dir_stepStep ==
    ASSUME RefInv, NEW p \in Procs, MayRun(p), UNCHANGED fd, get_dir_step(p)
    PROVE  StepOK(p)
<1> USE DEF TakesInode, TakesMaybe, TakesEmpty, TakesEntry, Takes, Puts, GivesInode, GivesMaybe, GivesEntry, Gives, Borrows, OwnsS, HasS, HasDirInode, HasDir, HasInode, HasArg, Opens, Plain
<1>1. PICK f, t, k, d : Runs(p, f, t, k, d) /\ Frame(f, t, k, d)
  BY Running
<1>2. f = Top(p) /\ f.pc = "get_dir_step"
  BY <1>1 DEF Runs, get_dir_step, At
<1>3. TableStep(p) /\ SameCounts /\ UNCHANGED panic
  BY <1>1, SameTable DEF Runs, get_dir_step, SamePlace
<1>4. ASSUME Becomes(p, <<Iput(f.r, NoSlot)>>) PROVE StackStep(p)
  <2>1. PICK g : g = Iput(f.r, NoSlot)
    OBVIOUS
  <2>2. Becomes(p, <<g>>)
    BY <1>4, <2>1
  <2>3. FrameFits(g, k, Owning(t, g.s), d) /\ g.pc # "iput_free" /\ Takes(g.pc) = "other"
    BY <1>1, <1>2, <1>4, <2>1 DEF Frame, FrameFits, Fields, TopOK, Iput, F, With
  <2>4. \A s \in Slots : Owns(g, s) = Own(f, s)
    BY <1>1, <1>2, <1>4, <2>1 DEF Frame, FrameFits, Fields, TopOK, Own, Owns, Waits, Iput, F, With
  <2> QED BY <1>1, <1>3, <2>2, <2>3, <2>4, Become1
<1>5. ASSUME Return(p, f.r) PROVE StackStep(p)
  <2>1. Return(p, f.r)
    BY <1>5
  <2>2. \A s \in Slots : Own(f, s) = Opened(f.r, s)
    BY <1>1, <1>2, <1>5,  InodeAssumption DEF Frame, FrameFits, Fields, TopOK, Own, Owns, Waits, Opened
  <2>3. (k = "inode" /\ f.r \in Slots) \/ (k = "maybe" /\ f.r \in Slots \cup {NoSlot})
    BY <1>1, <1>2, <1>5, <2>1 DEF Frame, FrameFits, Fields, TopOK
  <2> QED BY <1>1, <1>3, <2>1, <2>2, <2>3, ReturnsInode
<1>6. ASSUME Becomes(p, <<Find(f.r, Head(f.path)), F("get_dir_found", [dir |-> f.r, path |-> Tail(f.path)])>>) PROVE StackStep(p)
  <2>1. PICK g, h : g = Find(f.r, Head(f.path)) /\ h = F("get_dir_found", [dir |-> f.r, path |-> Tail(f.path)])
    OBVIOUS
  <2>2. Becomes(p, <<g, h>>)
    BY <1>6, <2>1
  <2>3. \A s : Owning(t, s) \in Nat
    BY <1>1, BelowNat
  <2>4. FrameFits(h, k, Owning(t, h.s), d) /\ h.pc # "iput_free"
    BY <1>1, <1>2, <1>6, <2>1 DEF Frame, FrameFits, Fields, TopOK, Find, F, With
  <2>5. FrameFits(g, Takes(h.pc), Owning(t, g.s) + Owns(h, g.s), d) /\ g.pc # "iput_free" /\ Takes(g.pc) = "other"
    BY <1>1, <1>2, <1>6, <2>1, <2>3, SMTT(30) DEF Frame, FrameFits, Fields, TopOK, Find, F, With, Owns
  <2>6. \A s \in Slots : Owns(h, s) + Owns(g, s) = Own(f, s)
    BY <1>1, <1>2, <1>6, <2>1 DEF Frame, FrameFits, Fields, TopOK, Own, Owns, Waits, Find, F, With
  <2> QED BY <1>1, <1>3, <2>2, <2>4, <2>5, <2>6, Become2
<1>9. StackStep(p)
  BY <1>2, <1>4, <1>5, <1>6 DEF get_dir_step
<1> QED BY <1>1, <1>3, <1>9, PlainStep

LEMMA nameiStep ==
    ASSUME RefInv, NEW p \in Procs, MayRun(p), UNCHANGED fd, namei(p)
    PROVE  StepOK(p)
<1> USE DEF TakesInode, TakesMaybe, TakesEmpty, TakesEntry, Takes, Puts, GivesInode, GivesMaybe, GivesEntry, Gives, Borrows, OwnsS, HasS, HasDirInode, HasDir, HasInode, HasArg, Opens, Plain
<1>1. PICK f, t, k, d : Runs(p, f, t, k, d) /\ Frame(f, t, k, d)
  BY Running
<1>2. f = Top(p) /\ f.pc = "namei"
  BY <1>1 DEF Runs, namei, At
<1>3. TableStep(p) /\ SameCounts /\ UNCHANGED panic
  BY <1>1, SameTable DEF Runs, namei, SamePlace
<1>4. ASSUME Return(p, f.r) PROVE StackStep(p)
  <2>1. Return(p, f.r)
    BY <1>4
  <2>2. \A s \in Slots : Own(f, s) = Opened(f.r, s)
    BY <1>1, <1>2, <1>4,  InodeAssumption DEF Frame, FrameFits, Fields, TopOK, Own, Owns, Waits, Opened
  <2>3. (k = "inode" /\ f.r \in Slots) \/ (k = "maybe" /\ f.r \in Slots \cup {NoSlot})
    BY <1>1, <1>2, <1>4, <2>1 DEF Frame, FrameFits, Fields, TopOK
  <2> QED BY <1>1, <1>3, <2>1, <2>2, <2>3, ReturnsInode
<1>5. ASSUME f.r # NoSlot, Becomes(p, <<Find(f.r, f.name), F("namei_found", [dir |-> f.r])>>) PROVE StackStep(p)
  <2>1. PICK g, h : g = Find(f.r, f.name) /\ h = F("namei_found", [dir |-> f.r])
    OBVIOUS
  <2>2. Becomes(p, <<g, h>>)
    BY <1>5, <2>1
  <2>3. \A s : Owning(t, s) \in Nat
    BY <1>1, BelowNat
  <2>4. FrameFits(h, k, Owning(t, h.s), d) /\ h.pc # "iput_free"
    BY <1>1, <1>2, <1>5, <2>1 DEF Frame, FrameFits, Fields, TopOK, Find, F, With
  <2>5. FrameFits(g, Takes(h.pc), Owning(t, g.s) + Owns(h, g.s), d) /\ g.pc # "iput_free" /\ Takes(g.pc) = "other"
    BY <1>1, <1>2, <1>5, <2>1, <2>3 DEF Frame, FrameFits, Fields, TopOK, Find, F, With, Owns
  <2>6. \A s \in Slots : Owns(h, s) + Owns(g, s) = Own(f, s)
    BY <1>1, <1>2, <1>5, <2>1 DEF Frame, FrameFits, Fields, TopOK, Own, Owns, Waits, Find, F, With
  <2> QED BY <1>1, <1>3, <2>2, <2>4, <2>5, <2>6, Become2
<1>9. StackStep(p)
  BY <1>2, <1>4, <1>5 DEF namei
<1> QED BY <1>1, <1>3, <1>9, PlainStep

LEMMA namei_foundStep ==
    ASSUME RefInv, NEW p \in Procs, MayRun(p), UNCHANGED fd, namei_found(p)
    PROVE  StepOK(p)
<1> USE DEF TakesInode, TakesMaybe, TakesEmpty, TakesEntry, Takes, Puts, GivesInode, GivesMaybe, GivesEntry, Gives, Borrows, OwnsS, HasS, HasDirInode, HasDir, HasInode, HasArg, Opens, Plain
<1>1. PICK f, t, k, d : Runs(p, f, t, k, d) /\ Frame(f, t, k, d)
  BY Running
<1>2. f = Top(p) /\ f.pc = "namei_found"
  BY <1>1 DEF Runs, namei_found, At
<1>3. TableStep(p) /\ SameCounts /\ UNCHANGED panic
  BY <1>1, SameTable DEF Runs, namei_found, SamePlace
<1>4. ASSUME Becomes(p, <<Iput(f.dir, NoSlot)>>) PROVE StackStep(p)
  <2>1. PICK g : g = Iput(f.dir, NoSlot)
    OBVIOUS
  <2>2. Becomes(p, <<g>>)
    BY <1>4, <2>1
  <2>3. FrameFits(g, k, Owning(t, g.s), d) /\ g.pc # "iput_free" /\ Takes(g.pc) = "other"
    BY <1>1, <1>2, <1>4, <2>1 DEF Frame, FrameFits, Fields, TopOK, Iput, F, With
  <2>4. \A s \in Slots : Owns(g, s) = Own(f, s)
    BY <1>1, <1>2, <1>4, <2>1 DEF Frame, FrameFits, Fields, TopOK, Own, Owns, Waits, Iput, F, With
  <2> QED BY <1>1, <1>3, <2>2, <2>3, <2>4, Become1
<1>5. ASSUME f.r # NoEntry PROVE StackStep(p)
  <2>1. PICK g, h1, h2, h : g = Iput(f.dir, 0) /\ h1 = F("get_empty_inode", <<>>) /\ h2 = F("iget", [nr |-> Entry(f.r).nr, de |-> f.r]) /\ h = F("namei_done", <<>>)
    OBVIOUS
  <2>2. Becomes(p, <<g, h1, h2, h>>)
    BY <1>2, <1>5, <2>1, Frames4 DEF namei_found, Iget
  <2>3. FrameFits(h, k, Owning(t, h.s), d) /\ h.pc # "iput_free"
    BY <1>1, <1>2, <1>5, <2>1 DEF Frame, FrameFits, Fields, TopOK, Iput, F, With
  <2>4. FrameFits(h2, Takes(h.pc), Owning(t, h2.s) + Owns(h, h2.s), d) /\ h2.pc # "iput_free"
    BY <1>1, <1>2, <1>5, <2>1 DEF Frame, FrameFits, Fields, TopOK, Iput, F, With
  <2>5. FrameFits(h1, Takes(h2.pc), Owning(t, h1.s) + Owns(h, h1.s) + Owns(h2, h1.s), d) /\ h1.pc # "iput_free"
    BY <1>1, <1>2, <1>5, <2>1 DEF Frame, FrameFits, Fields, TopOK, Iput, F, With
  <2>6. FrameFits(g, Takes(h1.pc), Owning(t, g.s) + Owns(h, g.s) + Owns(h2, g.s) + Owns(h1, g.s), d) /\ g.pc # "iput_free" /\ Takes(g.pc) = "other"
    BY <1>1, <1>2, <1>5, <2>1 DEF Frame, FrameFits, Fields, TopOK, Iput, F, With
  <2>7. \A s \in Slots : Owns(h, s) + Owns(h2, s) + Owns(h1, s) + Owns(g, s) = Own(f, s)
    BY <1>1, <1>2, <1>5, <2>1 DEF Frame, FrameFits, Fields, TopOK, Own, Owns, Waits, Iput, F, With
  <2> QED BY <1>1, <1>3, <2>2, <2>3, <2>4, <2>5, <2>6, <2>7, Become4
<1>9. StackStep(p)
  BY <1>2, <1>4, <1>5 DEF namei_found
<1> QED BY <1>1, <1>3, <1>9, PlainStep

LEMMA lookupStep ==
    ASSUME RefInv, NEW p \in Procs, MayRun(p), UNCHANGED fd, lookup(p)
    PROVE  StepOK(p)
<1> USE DEF TakesInode, TakesMaybe, TakesEmpty, TakesEntry, Takes, Puts, GivesInode, GivesMaybe, GivesEntry, Gives, Borrows, OwnsS, HasS, HasDirInode, HasDir, HasInode, HasArg, Opens, Plain
<1>1. PICK f, t, k, d : Runs(p, f, t, k, d) /\ Frame(f, t, k, d)
  BY Running
<1>2. f = Top(p) /\ f.pc = "lookup"
  BY <1>1 DEF Runs, lookup, At
<1>3. TableStep(p) /\ SameCounts /\ UNCHANGED panic
  BY <1>1, SameTable DEF Runs, lookup, SamePlace
<1>4. ASSUME f.r = NoSlot, f.call = "link" PROVE StackStep(p)
  <2>1. PICK g : g = Iput(f.arg, 0)
    OBVIOUS
  <2>2. Becomes(p, <<g>>)
    BY <1>2, <1>4, InodeAssumption, <2>1 DEF lookup, Old
  <2>3. FrameFits(g, k, Owning(t, g.s), d) /\ g.pc # "iput_free" /\ Takes(g.pc) = "other"
    BY <1>1, <1>2, <1>4, InodeAssumption, <2>1 DEF Frame, FrameFits, Fields, TopOK, Iput, F, With
  <2>4. \A s \in Slots : Owns(g, s) = Own(f, s)
    BY <1>1, <1>2, <1>4, InodeAssumption, <2>1 DEF Frame, FrameFits, Fields, TopOK, Own, Owns, Waits, Iput, F, With
  <2> QED BY <1>1, <1>3, <2>2, <2>3, <2>4, Become1
<1>5. ASSUME f.r = NoSlot, f.call # "link", Return(p, 0) PROVE StackStep(p)
  <2>1. \A s \in Slots : Own(f, s) = 0
    BY <1>2, <1>5, InodeAssumption DEF Own, Owns, Waits
  <2>2. k \in Plain
    BY <1>1, <1>2 DEF Frame, FrameFits
  <2> QED BY <1>1, <1>3, <1>5, <2>1, <2>2, ReturnsPlain
<1>6. ASSUME f.r # NoSlot, f.call = "link", Becomes(p, Old(f) \o <<Iput(f.r, 0)>>) PROVE StackStep(p)
  <2>1. PICK g, h : g = Iput(f.arg, 0) /\ h = Iput(f.r, 0)
    OBVIOUS
  <2>2. Becomes(p, <<g, h>>)
    BY <1>6, <2>1, Frames2 DEF Old
  <2>3. FrameFits(h, k, Owning(t, h.s), d) /\ h.pc # "iput_free"
    BY <1>1, <1>2, <1>6, <2>1 DEF Frame, FrameFits, Fields, TopOK, Iput, F, With
  <2>4. FrameFits(g, Takes(h.pc), Owning(t, g.s) + Owns(h, g.s), d) /\ g.pc # "iput_free" /\ Takes(g.pc) = "other"
    BY <1>1, <1>2, <1>6, <2>1 DEF Frame, FrameFits, Fields, TopOK, Iput, F, With
  <2>5. \A s \in Slots : Owns(h, s) + Owns(g, s) = Own(f, s)
    BY <1>1, <1>2, <1>6, <2>1 DEF Frame, FrameFits, Fields, TopOK, Own, Owns, Waits, Iput, F, With
  <2> QED BY <1>1, <1>3, <2>2, <2>3, <2>4, <2>5, Become2
<1>7. ASSUME f.r # NoSlot, f.call # "link", Becomes(p, Old(f) \o <<Iput(f.r, 0)>>) PROVE StackStep(p)
  <2>1. PICK g : g = Iput(f.r, 0)
    OBVIOUS
  <2>2. Becomes(p, <<g>>)
    BY <1>7, <2>1, Frames2 DEF Old
  <2>3. FrameFits(g, k, Owning(t, g.s), d) /\ g.pc # "iput_free" /\ Takes(g.pc) = "other"
    BY <1>1, <1>2, <1>7, <2>1 DEF Frame, FrameFits, Fields, TopOK, Iput, F, With
  <2>4. \A s \in Slots : Owns(g, s) = Own(f, s)
    BY <1>1, <1>2, <1>7, <2>1 DEF Frame, FrameFits, Fields, TopOK, Own, Owns, Waits, Iput, F, With
  <2> QED BY <1>1, <1>3, <2>2, <2>3, <2>4, Become1
<1>8. ASSUME f.r # NoSlot, f.call = "link", Becomes(p, <<Iput(f.r, 0)>> \o Old(f)) PROVE StackStep(p)
  <2>1. PICK g, h : g = Iput(f.r, 0) /\ h = Iput(f.arg, 0)
    OBVIOUS
  <2>2. Becomes(p, <<g, h>>)
    BY <1>8, <2>1, Frames2 DEF Old
  <2>3. FrameFits(h, k, Owning(t, h.s), d) /\ h.pc # "iput_free"
    BY <1>1, <1>2, <1>8, <2>1 DEF Frame, FrameFits, Fields, TopOK, Iput, F, With
  <2>4. FrameFits(g, Takes(h.pc), Owning(t, g.s) + Owns(h, g.s), d) /\ g.pc # "iput_free" /\ Takes(g.pc) = "other"
    BY <1>1, <1>2, <1>8, <2>1 DEF Frame, FrameFits, Fields, TopOK, Iput, F, With
  <2>5. \A s \in Slots : Owns(h, s) + Owns(g, s) = Own(f, s)
    BY <1>1, <1>2, <1>8, <2>1 DEF Frame, FrameFits, Fields, TopOK, Own, Owns, Waits, Iput, F, With
  <2> QED BY <1>1, <1>3, <2>2, <2>3, <2>4, <2>5, Become2
<1>11. ASSUME f.r # NoSlot, f.call # "link", Becomes(p, <<Iput(f.r, 0)>> \o Old(f)) PROVE StackStep(p)
  <2>1. PICK g : g = Iput(f.r, 0)
    OBVIOUS
  <2>2. Becomes(p, <<g>>)
    BY <1>11, <2>1, Frames2 DEF Old
  <2>3. FrameFits(g, k, Owning(t, g.s), d) /\ g.pc # "iput_free" /\ Takes(g.pc) = "other"
    BY <1>1, <1>2, <1>11, <2>1 DEF Frame, FrameFits, Fields, TopOK, Iput, F, With
  <2>4. \A s \in Slots : Owns(g, s) = Own(f, s)
    BY <1>1, <1>2, <1>11, <2>1 DEF Frame, FrameFits, Fields, TopOK, Own, Owns, Waits, Iput, F, With
  <2> QED BY <1>1, <1>3, <2>2, <2>3, <2>4, Become1
<1>12. ASSUME f.r # NoSlot, Becomes(p, <<Find(f.r, f.name), With([dir |-> f.r], [f EXCEPT !.pc = "found"])>>) PROVE StackStep(p)
  <2>1. PICK g, h : g = Find(f.r, f.name) /\ h = With([dir |-> f.r], [f EXCEPT !.pc = "found"])
    OBVIOUS
  <2>2. Becomes(p, <<g, h>>)
    BY <1>12, <2>1
  <2>3. \A s : Owning(t, s) \in Nat
    BY <1>1, BelowNat
  <2>4. FrameFits(h, k, Owning(t, h.s), d) /\ h.pc # "iput_free"
    BY <1>1, <1>2, <1>12, <2>1 DEF Frame, FrameFits, Fields, TopOK, Find, F, With
  <2>5. FrameFits(g, Takes(h.pc), Owning(t, g.s) + Owns(h, g.s), d) /\ g.pc # "iput_free" /\ Takes(g.pc) = "other"
    BY <1>1, <1>2, <1>12, <2>1, <2>3 DEF Frame, FrameFits, Fields, TopOK, Find, F, With, Owns
  <2>6. \A s \in Slots : Owns(h, s) + Owns(g, s) = Own(f, s)
    BY <1>1, <1>2, <1>12, <2>1 DEF Frame, FrameFits, Fields, TopOK, Own, Owns, Waits, Find, F, With
  <2> QED BY <1>1, <1>3, <2>2, <2>4, <2>5, <2>6, Become2
<1>9. StackStep(p)
  BY <1>2, <1>4, <1>5, <1>6, <1>7, <1>8, <1>11, <1>12 DEF lookup
<1> QED BY <1>1, <1>3, <1>9, PlainStep

LEMMA foundStep ==
    ASSUME RefInv, NEW p \in Procs, MayRun(p), UNCHANGED fd, found(p)
    PROVE  StepOK(p)
<1> USE DEF TakesInode, TakesMaybe, TakesEmpty, TakesEntry, Takes, Puts, GivesInode, GivesMaybe, GivesEntry, Gives, Borrows, OwnsS, HasS, HasDirInode, HasDir, HasInode, HasArg, Opens, Plain
<1>1. PICK f, t, k, d : Runs(p, f, t, k, d) /\ Frame(f, t, k, d)
  BY Running
<1>2. f = Top(p) /\ f.pc = "found"
  BY <1>1 DEF Runs, found, At
<1>3. TableStep(p) /\ SameCounts /\ UNCHANGED panic
  BY <1>1, SameTable DEF Runs, found, SamePlace
<1>4. ASSUME f.call = "link", Becomes(p, <<Iput(f.dir, 0)>> \o Old(f)) PROVE StackStep(p)
  <2>1. PICK g, h : g = Iput(f.dir, 0) /\ h = Iput(f.arg, 0)
    OBVIOUS
  <2>2. Becomes(p, <<g, h>>)
    BY <1>4, <2>1, Frames2 DEF Old
  <2>3. FrameFits(h, k, Owning(t, h.s), d) /\ h.pc # "iput_free"
    BY <1>1, <1>2, <1>4, <2>1 DEF Frame, FrameFits, Fields, TopOK, Iput, F, With
  <2>4. FrameFits(g, Takes(h.pc), Owning(t, g.s) + Owns(h, g.s), d) /\ g.pc # "iput_free" /\ Takes(g.pc) = "other"
    BY <1>1, <1>2, <1>4, <2>1 DEF Frame, FrameFits, Fields, TopOK, Iput, F, With
  <2>5. \A s \in Slots : Owns(h, s) + Owns(g, s) = Own(f, s)
    BY <1>1, <1>2, <1>4, <2>1 DEF Frame, FrameFits, Fields, TopOK, Own, Owns, Waits, Iput, F, With
  <2> QED BY <1>1, <1>3, <2>2, <2>3, <2>4, <2>5, Become2
<1>5. ASSUME f.call # "link", Becomes(p, <<Iput(f.dir, 0)>> \o Old(f)) PROVE StackStep(p)
  <2>1. PICK g : g = Iput(f.dir, 0)
    OBVIOUS
  <2>2. Becomes(p, <<g>>)
    BY <1>5, <2>1, Frames2 DEF Old
  <2>3. FrameFits(g, k, Owning(t, g.s), d) /\ g.pc # "iput_free" /\ Takes(g.pc) = "other"
    BY <1>1, <1>2, <1>5, <2>1 DEF Frame, FrameFits, Fields, TopOK, Iput, F, With
  <2>4. \A s \in Slots : Owns(g, s) = Own(f, s)
    BY <1>1, <1>2, <1>5, <2>1 DEF Frame, FrameFits, Fields, TopOK, Own, Owns, Waits, Iput, F, With
  <2> QED BY <1>1, <1>3, <2>2, <2>3, <2>4, Become1
<1>6. ASSUME f.call = "link", Becomes(p, <<Add(f.dir, f.name), F("link_add", [dir |-> f.dir, inode |-> f.arg])>>) PROVE StackStep(p)
  <2>1. PICK g, h : g = Add(f.dir, f.name) /\ h = F("link_add", [dir |-> f.dir, inode |-> f.arg])
    OBVIOUS
  <2>2. Becomes(p, <<g, h>>)
    BY <1>6, <2>1
  <2>3. \A s : Owning(t, s) \in Nat
    BY <1>1, BelowNat
  <2>4. FrameFits(h, k, Owning(t, h.s), d) /\ h.pc # "iput_free"
    BY <1>1, <1>2, <1>6, <2>1 DEF Frame, FrameFits, Fields, TopOK, Add, F, With
  <2>5. FrameFits(g, Takes(h.pc), Owning(t, g.s) + Owns(h, g.s), d) /\ g.pc # "iput_free" /\ Takes(g.pc) = "other"
    BY <1>1, <1>2, <1>6, <2>1, <2>3 DEF Frame, FrameFits, Fields, TopOK, Add, F, With, Owns
  <2>6. \A s \in Slots : Owns(h, s) + Owns(g, s) = Own(f, s)
    BY <1>1, <1>2, <1>6, <2>1 DEF Frame, FrameFits, Fields, TopOK, Own, Owns, Waits, Add, F, With
  <2> QED BY <1>1, <1>3, <2>2, <2>4, <2>5, <2>6, Become2
<1>7. ASSUME f.call \in {"mknod", "mkdir"}, Becomes(p, NewInode \o <<[f EXCEPT !.pc = f.call]>>) PROVE StackStep(p)
  <2>1. PICK g, h1, h : g = F("get_empty_inode", <<>>) /\ h1 = F("new_inode", <<>>) /\ h = [f EXCEPT !.pc = f.call]
    OBVIOUS
  <2>2. Becomes(p, <<g, h1, h>>)
    BY <1>7, <2>1, Frames3 DEF NewInode
  <2>3. FrameFits(h, k, Owning(t, h.s), d) /\ h.pc # "iput_free"
    BY <1>1, <1>2, <1>7, <2>1 DEF Frame, FrameFits, Fields, TopOK, Iput, F, With
  <2>4. FrameFits(h1, Takes(h.pc), Owning(t, h1.s) + Owns(h, h1.s), d) /\ h1.pc # "iput_free"
    BY <1>1, <1>2, <1>7, <2>1 DEF Frame, FrameFits, Fields, TopOK, Iput, F, With
  <2>5. FrameFits(g, Takes(h1.pc), Owning(t, g.s) + Owns(h, g.s) + Owns(h1, g.s), d) /\ g.pc # "iput_free" /\ Takes(g.pc) = "other"
    BY <1>1, <1>2, <1>7, <2>1 DEF Frame, FrameFits, Fields, TopOK, Iput, F, With
  <2>6. \A s \in Slots : Owns(h, s) + Owns(h1, s) + Owns(g, s) = Own(f, s)
    BY <1>1, <1>2, <1>7, <2>1 DEF Frame, FrameFits, Fields, TopOK, Own, Owns, Waits, Iput, F, With
  <2> QED BY <1>1, <1>3, <2>2, <2>3, <2>4, <2>5, <2>6, Become3
<1>8. ASSUME f.call \in {"rmdir", "unlink"}, f.r # NoEntry,
             Becomes(p, Iget(f.r) \o Hold(<<F(f.call, [dir |-> f.dir, de |-> f.r])>>, f.r))
      PROVE  StackStep(p)
  <2>1. PICK g, h1, h : g = F("get_empty_inode", <<>>) /\ h1 = F("iget", [nr |-> Entry(f.r).nr, de |-> f.r]) /\ h = With(F(f.call, [dir |-> f.dir, de |-> f.r]), [bh |-> f.r[1]])
    OBVIOUS
  <2>2. Becomes(p, <<g, h1, h>>)
    BY <1>8, <2>1, Frames3, HoldFrames DEF Iget
  <2>3. FrameFits(h, k, Owning(t, h.s), d) /\ h.pc # "iput_free"
    BY <1>1, <1>2, <1>8, <2>1 DEF Frame, FrameFits, Fields, TopOK, F, With
  <2>4. FrameFits(h1, Takes(h.pc), Owning(t, h1.s) + Owns(h, h1.s), d) /\ h1.pc # "iput_free"
    BY <1>1, <1>2, <1>8, <2>1 DEF Frame, FrameFits, Fields, TopOK, F, With
  <2>5. FrameFits(g, Takes(h1.pc), Owning(t, g.s) + Owns(h, g.s) + Owns(h1, g.s), d) /\ g.pc # "iput_free" /\ Takes(g.pc) = "other"
    BY <1>1, <1>2, <1>8, <2>1 DEF Frame, FrameFits, Fields, TopOK, F, With
  <2>6. \A s \in Slots : Owns(h, s) + Owns(h1, s) + Owns(g, s) = Own(f, s)
    BY <1>1, <1>2, <1>8, <2>1 DEF Frame, FrameFits, Fields, TopOK, Own, Owns, Waits, F, With
  <2> QED BY <1>1, <1>3, <2>2, <2>3, <2>4, <2>5, <2>6, Become3
<1>10. f.call \in CallNames
  BY <1>1, <1>2 DEF Frame, FrameFits, Fields
<1>9. StackStep(p)
  BY <1>2, <1>4, <1>5, <1>6, <1>7, <1>8, <1>10 DEF found, CallNames
<1> QED BY <1>1, <1>3, <1>9, PlainStep

LEMMA linkStep ==
    ASSUME RefInv, NEW p \in Procs, MayRun(p), UNCHANGED fd, link(p)
    PROVE  StepOK(p)
<1> USE DEF TakesInode, TakesMaybe, TakesEmpty, TakesEntry, Takes, Puts, GivesInode, GivesMaybe, GivesEntry, Gives, Borrows, OwnsS, HasS, HasDirInode, HasDir, HasInode, HasArg, Opens, Plain
<1>1. PICK f, t, k, d : Runs(p, f, t, k, d) /\ Frame(f, t, k, d)
  BY Running
<1>2. f = Top(p) /\ f.pc = "link"
  BY <1>1 DEF Runs, link, At
<1>3. TableStep(p) /\ SameCounts /\ UNCHANGED panic
  BY <1>1, SameTable DEF Runs, link, SamePlace
<1>4. ASSUME f.r = NoSlot, Return(p, 0) PROVE StackStep(p)
  <2>1. \A s \in Slots : Own(f, s) = 0
    BY <1>2, <1>4, InodeAssumption DEF Own, Owns, Waits
  <2>2. k \in Plain
    BY <1>1, <1>2 DEF Frame, FrameFits
  <2> QED BY <1>1, <1>3, <1>4, <2>1, <2>2, ReturnsPlain
<1>5. ASSUME f.r # NoSlot, Becomes(p, <<Iput(f.r, 0)>>) PROVE StackStep(p)
  <2>1. PICK g : g = Iput(f.r, 0)
    OBVIOUS
  <2>2. Becomes(p, <<g>>)
    BY <1>5, <2>1
  <2>3. FrameFits(g, k, Owning(t, g.s), d) /\ g.pc # "iput_free" /\ Takes(g.pc) = "other"
    BY <1>1, <1>2, <1>5, <2>1 DEF Frame, FrameFits, Fields, TopOK, Iput, F, With
  <2>4. \A s \in Slots : Owns(g, s) = Own(f, s)
    BY <1>1, <1>2, <1>5, <2>1 DEF Frame, FrameFits, Fields, TopOK, Own, Owns, Waits, Iput, F, With
  <2> QED BY <1>1, <1>3, <2>2, <2>3, <2>4, Become1
<1>6. ASSUME f.r # NoSlot, Becomes(p, Lookup("link", f.new, f.r)) PROVE StackStep(p)
  <2>1. PICK g, h : g = DirNamei(f.new) /\ h = F("lookup", [call |-> "link", name |-> Last(f.new), arg |-> f.r])
    OBVIOUS
  <2>2. Becomes(p, <<g, h>>)
    BY <1>6, <2>1 DEF Lookup
  <2>3. FrameFits(h, k, Owning(t, h.s), d) /\ h.pc # "iput_free"
    BY <1>1, <1>2, <1>6, <2>1 DEF Frame, FrameFits, Fields, TopOK, DirNamei, F, With, CallNames
  <2>4. FrameFits(g, Takes(h.pc), Owning(t, g.s) + Owns(h, g.s), d) /\ g.pc # "iput_free" /\ Takes(g.pc) = "other"
    BY <1>1, <1>2, <1>6, <2>1 DEF Frame, FrameFits, Fields, TopOK, DirNamei, F, With, CallNames
  <2>5. \A s \in Slots : Owns(h, s) + Owns(g, s) = Own(f, s)
    BY <1>1, <1>2, <1>6, <2>1 DEF Frame, FrameFits, Fields, TopOK, Own, Owns, Waits, DirNamei, F, With, CallNames
  <2> QED BY <1>1, <1>3, <2>2, <2>3, <2>4, <2>5, Become2
<1>9. StackStep(p)
  BY <1>2, <1>4, <1>5, <1>6 DEF link
<1> QED BY <1>1, <1>3, <1>9, PlainStep

LEMMA open_dirStep ==
    ASSUME RefInv, NEW p \in Procs, MayRun(p), UNCHANGED fd, open_dir(p)
    PROVE  StepOK(p)
<1> USE DEF TakesInode, TakesMaybe, TakesEmpty, TakesEntry, Takes, Puts, GivesInode, GivesMaybe, GivesEntry, Gives, Borrows, OwnsS, HasS, HasDirInode, HasDir, HasInode, HasArg, Opens, Plain
<1>1. PICK f, t, k, d : Runs(p, f, t, k, d) /\ Frame(f, t, k, d)
  BY Running
<1>2. f = Top(p) /\ f.pc = "open_dir"
  BY <1>1 DEF Runs, open_dir, At
<1>3. TableStep(p) /\ SameCounts /\ UNCHANGED panic
  BY <1>1, SameTable DEF Runs, open_dir, SamePlace
<1>4. ASSUME f.r = NoSlot, Return(p, 0) PROVE StackStep(p)
  <2>1. \A s \in Slots : Own(f, s) = 0
    BY <1>2, <1>4, InodeAssumption DEF Own, Owns, Waits
  <2>2. k \in Plain
    BY <1>1, <1>2 DEF Frame, FrameFits
  <2> QED BY <1>1, <1>3, <1>4, <2>1, <2>2, ReturnsPlain
<1>5. ASSUME f.r # NoSlot, Becomes(p, <<Iput(f.r, 0)>>) PROVE StackStep(p)
  <2>1. PICK g : g = Iput(f.r, 0)
    OBVIOUS
  <2>2. Becomes(p, <<g>>)
    BY <1>5, <2>1
  <2>3. FrameFits(g, k, Owning(t, g.s), d) /\ g.pc # "iput_free" /\ Takes(g.pc) = "other"
    BY <1>1, <1>2, <1>5, <2>1 DEF Frame, FrameFits, Fields, TopOK, Iput, F, With
  <2>4. \A s \in Slots : Owns(g, s) = Own(f, s)
    BY <1>1, <1>2, <1>5, <2>1 DEF Frame, FrameFits, Fields, TopOK, Own, Owns, Waits, Iput, F, With
  <2> QED BY <1>1, <1>3, <2>2, <2>3, <2>4, Become1
<1>6. ASSUME f.r # NoSlot, Becomes(p, <<F("open_done", [inode |-> f.r])>>) PROVE StackStep(p)
  <2>1. PICK g : g = F("open_done", [inode |-> f.r])
    OBVIOUS
  <2>2. Becomes(p, <<g>>)
    BY <1>6, <2>1
  <2>3. FrameFits(g, k, Owning(t, g.s), d) /\ g.pc # "iput_free" /\ Takes(g.pc) = "other"
    BY <1>1, <1>2, <1>6, <2>1 DEF Frame, FrameFits, Fields, TopOK, Iput, F, With
  <2>4. \A s \in Slots : Owns(g, s) = Own(f, s)
    BY <1>1, <1>2, <1>6, <2>1 DEF Frame, FrameFits, Fields, TopOK, Own, Owns, Waits, Iput, F, With
  <2> QED BY <1>1, <1>3, <2>2, <2>3, <2>4, Become1
<1>7. ASSUME f.r # NoSlot, Becomes(p, <<Find(f.r, f.name), With([dir |-> f.r], [f EXCEPT !.pc = "open_found"])>>) PROVE StackStep(p)
  <2>1. PICK g, h : g = Find(f.r, f.name) /\ h = With([dir |-> f.r], [f EXCEPT !.pc = "open_found"])
    OBVIOUS
  <2>2. Becomes(p, <<g, h>>)
    BY <1>7, <2>1
  <2>3. \A s : Owning(t, s) \in Nat
    BY <1>1, BelowNat
  <2>4. FrameFits(h, k, Owning(t, h.s), d) /\ h.pc # "iput_free"
    BY <1>1, <1>2, <1>7, <2>1 DEF Frame, FrameFits, Fields, TopOK, Find, F, With
  <2>5. FrameFits(g, Takes(h.pc), Owning(t, g.s) + Owns(h, g.s), d) /\ g.pc # "iput_free" /\ Takes(g.pc) = "other"
    BY <1>1, <1>2, <1>7, <2>1, <2>3 DEF Frame, FrameFits, Fields, TopOK, Find, F, With, Owns
  <2>6. \A s \in Slots : Owns(h, s) + Owns(g, s) = Own(f, s)
    BY <1>1, <1>2, <1>7, <2>1 DEF Frame, FrameFits, Fields, TopOK, Own, Owns, Waits, Find, F, With
  <2> QED BY <1>1, <1>3, <2>2, <2>4, <2>5, <2>6, Become2
<1>9. StackStep(p)
  BY <1>2, <1>4, <1>5, <1>6, <1>7 DEF open_dir
<1> QED BY <1>1, <1>3, <1>9, PlainStep

LEMMA open_foundStep ==
    ASSUME RefInv, NEW p \in Procs, MayRun(p), UNCHANGED fd, open_found(p)
    PROVE  StepOK(p)
<1> USE DEF TakesInode, TakesMaybe, TakesEmpty, TakesEntry, Takes, Puts, GivesInode, GivesMaybe, GivesEntry, Gives, Borrows, OwnsS, HasS, HasDirInode, HasDir, HasInode, HasArg, Opens, Plain
<1>1. PICK f, t, k, d : Runs(p, f, t, k, d) /\ Frame(f, t, k, d)
  BY Running
<1>2. f = Top(p) /\ f.pc = "open_found"
  BY <1>1 DEF Runs, open_found, At
<1>3. TableStep(p) /\ SameCounts /\ UNCHANGED panic
  BY <1>1, SameTable DEF Runs, open_found, SamePlace
<1>4. ASSUME Becomes(p, <<Iput(f.dir, 0)>>) PROVE StackStep(p)
  <2>1. PICK g : g = Iput(f.dir, 0)
    OBVIOUS
  <2>2. Becomes(p, <<g>>)
    BY <1>4, <2>1
  <2>3. FrameFits(g, k, Owning(t, g.s), d) /\ g.pc # "iput_free" /\ Takes(g.pc) = "other"
    BY <1>1, <1>2, <1>4, <2>1 DEF Frame, FrameFits, Fields, TopOK, Iput, F, With
  <2>4. \A s \in Slots : Owns(g, s) = Own(f, s)
    BY <1>1, <1>2, <1>4, <2>1 DEF Frame, FrameFits, Fields, TopOK, Own, Owns, Waits, Iput, F, With
  <2> QED BY <1>1, <1>3, <2>2, <2>3, <2>4, Become1
<1>5. ASSUME f.r # NoEntry,
             Becomes(p, <<Iput(f.dir, 0)>> \o (Iget(f.r) \o <<F("open_inode", [flags |-> f.flags])>>))
      PROVE  StackStep(p)
  <2>1. PICK g, h1, h2, h : g = Iput(f.dir, 0) /\ h1 = F("get_empty_inode", <<>>) /\ h2 = F("iget", [nr |-> Entry(f.r).nr, de |-> f.r]) /\ h = F("open_inode", [flags |-> f.flags])
    OBVIOUS
  <2>2. Becomes(p, <<g, h1, h2, h>>)
    <3>1. Iget(f.r) \o <<h>> = <<h1, h2, h>>
      BY <2>1, Frames3 DEF Iget
    <3>2. <<g>> \o <<h1, h2, h>> = <<g, h1, h2, h>>
      BY Frames13
    <3> QED BY <1>5, <2>1, <3>1, <3>2
  <2>3. FrameFits(h, k, Owning(t, h.s), d) /\ h.pc # "iput_free"
    BY <1>1, <1>2, <1>5, <2>1 DEF Frame, FrameFits, Fields, TopOK, Iput, F, With
  <2>4. FrameFits(h2, Takes(h.pc), Owning(t, h2.s) + Owns(h, h2.s), d) /\ h2.pc # "iput_free"
    BY <1>1, <1>2, <1>5, <2>1 DEF Frame, FrameFits, Fields, TopOK, Iput, F, With
  <2>5. FrameFits(h1, Takes(h2.pc), Owning(t, h1.s) + Owns(h, h1.s) + Owns(h2, h1.s), d) /\ h1.pc # "iput_free"
    BY <1>1, <1>2, <1>5, <2>1 DEF Frame, FrameFits, Fields, TopOK, Iput, F, With
  <2>6. FrameFits(g, Takes(h1.pc), Owning(t, g.s) + Owns(h, g.s) + Owns(h2, g.s) + Owns(h1, g.s), d) /\ g.pc # "iput_free" /\ Takes(g.pc) = "other"
    BY <1>1, <1>2, <1>5, <2>1 DEF Frame, FrameFits, Fields, TopOK, Iput, F, With
  <2>7. \A s \in Slots : Owns(h, s) + Owns(h2, s) + Owns(h1, s) + Owns(g, s) = Own(f, s)
    BY <1>1, <1>2, <1>5, <2>1 DEF Frame, FrameFits, Fields, TopOK, Own, Owns, Waits, Iput, F, With
  <2> QED BY <1>1, <1>3, <2>2, <2>3, <2>4, <2>5, <2>6, <2>7, Become4
<1>6. ASSUME Becomes(p, NewInode \o <<[f EXCEPT !.pc = "open_new"]>>) PROVE StackStep(p)
  <2>1. PICK g, h1, h : g = F("get_empty_inode", <<>>) /\ h1 = F("new_inode", <<>>) /\ h = [f EXCEPT !.pc = "open_new"]
    OBVIOUS
  <2>2. Becomes(p, <<g, h1, h>>)
    BY <1>6, <2>1, Frames3 DEF NewInode
  <2>3. FrameFits(h, k, Owning(t, h.s), d) /\ h.pc # "iput_free"
    BY <1>1, <1>2, <1>6, <2>1 DEF Frame, FrameFits, Fields, TopOK, Iput, F, With
  <2>4. FrameFits(h1, Takes(h.pc), Owning(t, h1.s) + Owns(h, h1.s), d) /\ h1.pc # "iput_free"
    BY <1>1, <1>2, <1>6, <2>1 DEF Frame, FrameFits, Fields, TopOK, Iput, F, With
  <2>5. FrameFits(g, Takes(h1.pc), Owning(t, g.s) + Owns(h, g.s) + Owns(h1, g.s), d) /\ g.pc # "iput_free" /\ Takes(g.pc) = "other"
    BY <1>1, <1>2, <1>6, <2>1 DEF Frame, FrameFits, Fields, TopOK, Iput, F, With
  <2>6. \A s \in Slots : Owns(h, s) + Owns(h1, s) + Owns(g, s) = Own(f, s)
    BY <1>1, <1>2, <1>6, <2>1 DEF Frame, FrameFits, Fields, TopOK, Own, Owns, Waits, Iput, F, With
  <2> QED BY <1>1, <1>3, <2>2, <2>3, <2>4, <2>5, <2>6, Become3
<1>7. ASSUME Becomes(p, <<Iput(f.dir, 0)>> \o <<>>) PROVE StackStep(p)
  BY <1>4, <1>7, Frames2
<1>9. StackStep(p)
  BY <1>2, <1>4, <1>5, <1>6, <1>7 DEF open_found
<1> QED BY <1>1, <1>3, <1>9, PlainStep

LEMMA open_inodeStep ==
    ASSUME RefInv, NEW p \in Procs, MayRun(p), UNCHANGED fd, open_inode(p)
    PROVE  StepOK(p)
<1> USE DEF TakesInode, TakesMaybe, TakesEmpty, TakesEntry, Takes, Puts, GivesInode, GivesMaybe, GivesEntry, Gives, Borrows, OwnsS, HasS, HasDirInode, HasDir, HasInode, HasArg, Opens, Plain
<1>1. PICK f, t, k, d : Runs(p, f, t, k, d) /\ Frame(f, t, k, d)
  BY Running
<1>2. f = Top(p) /\ f.pc = "open_inode"
  BY <1>1 DEF Runs, open_inode, At
<1>3. TableStep(p) /\ SameCounts /\ UNCHANGED panic
  BY <1>1, SameTable DEF Runs, open_inode, SamePlace
<1>4. ASSUME Becomes(p, <<Iput(f.r, 0)>>) PROVE StackStep(p)
  <2>1. PICK g : g = Iput(f.r, 0)
    OBVIOUS
  <2>2. Becomes(p, <<g>>)
    BY <1>4, <2>1
  <2>3. FrameFits(g, k, Owning(t, g.s), d) /\ g.pc # "iput_free" /\ Takes(g.pc) = "other"
    BY <1>1, <1>2, <1>4, <2>1 DEF Frame, FrameFits, Fields, TopOK, Iput, F, With
  <2>4. \A s \in Slots : Owns(g, s) = Own(f, s)
    BY <1>1, <1>2, <1>4, <2>1 DEF Frame, FrameFits, Fields, TopOK, Own, Owns, Waits, Iput, F, With
  <2> QED BY <1>1, <1>3, <2>2, <2>3, <2>4, Become1
<1>5. ASSUME Becomes(p, <<Truncate(f.r)>> \o <<F("open_done", [inode |-> f.r])>>) PROVE StackStep(p)
  <2>1. PICK g, h : g = Truncate(f.r) /\ h = F("open_done", [inode |-> f.r])
    OBVIOUS
  <2>2. Becomes(p, <<g, h>>)
    BY <1>5, <2>1, Frames2
  <2>3. \A s : Owning(t, s) \in Nat
    BY <1>1, BelowNat
  <2>4. FrameFits(h, k, Owning(t, h.s), d) /\ h.pc # "iput_free"
    BY <1>1, <1>2, <1>5, <2>1 DEF Frame, FrameFits, Fields, TopOK, Truncate, F, With
  <2>5. FrameFits(g, Takes(h.pc), Owning(t, g.s) + Owns(h, g.s), d) /\ g.pc # "iput_free" /\ Takes(g.pc) = "other"
    BY <1>1, <1>2, <1>5, <2>1, <2>3 DEF Frame, FrameFits, Fields, TopOK, Truncate, F, With, Owns
  <2>6. \A s \in Slots : Owns(h, s) + Owns(g, s) = Own(f, s)
    BY <1>1, <1>2, <1>5, <2>1 DEF Frame, FrameFits, Fields, TopOK, Own, Owns, Waits, Truncate, F, With
  <2> QED BY <1>1, <1>3, <2>2, <2>4, <2>5, <2>6, Become2
<1>6. ASSUME Becomes(p, <<>> \o <<F("open_done", [inode |-> f.r])>>) PROVE StackStep(p)
  <2>1. PICK g : g = F("open_done", [inode |-> f.r])
    OBVIOUS
  <2>2. Becomes(p, <<g>>)
    BY <1>6, <2>1, Frames2
  <2>3. FrameFits(g, k, Owning(t, g.s), d) /\ g.pc # "iput_free" /\ Takes(g.pc) = "other"
    BY <1>1, <1>2, <1>6, <2>1 DEF Frame, FrameFits, Fields, TopOK, Iput, F, With
  <2>4. \A s \in Slots : Owns(g, s) = Own(f, s)
    BY <1>1, <1>2, <1>6, <2>1 DEF Frame, FrameFits, Fields, TopOK, Own, Owns, Waits, Iput, F, With
  <2> QED BY <1>1, <1>3, <2>2, <2>3, <2>4, Become1
<1>9. StackStep(p)
  BY <1>2, <1>4, <1>5, <1>6 DEF open_inode
<1> QED BY <1>1, <1>3, <1>9, PlainStep

LEMMA rmdirStep ==
    ASSUME RefInv, NEW p \in Procs, MayRun(p), UNCHANGED fd, rmdir(p)
    PROVE  StepOK(p)
<1> USE DEF TakesInode, TakesMaybe, TakesEmpty, TakesEntry, Takes, Puts, GivesInode, GivesMaybe, GivesEntry, Gives, Borrows, OwnsS, HasS, HasDirInode, HasDir, HasInode, HasArg, Opens, Plain
<1>1. PICK f, t, k, d : Runs(p, f, t, k, d) /\ Frame(f, t, k, d)
  BY Running
<1>2. f = Top(p) /\ f.pc = "rmdir"
  BY <1>1 DEF Runs, rmdir, At
<1>3. TableStep(p) /\ SameCounts /\ UNCHANGED panic
  BY <1>1, SameTable DEF Runs, rmdir, SamePlace
<1>4. ASSUME Becomes(p, Hold(Iputs(f.dir, f.r), f.de)) PROVE StackStep(p)
  <2>1. PICK g, h : g = With(Iput(f.dir, 0), [bh |-> f.de[1]]) /\ h = With(Iput(f.r, 0), [bh |-> f.de[1]])
    OBVIOUS
  <2>2. Becomes(p, <<g, h>>)
    BY <1>4, <2>1, HoldFrames DEF Iputs
  <2>3. FrameFits(h, k, Owning(t, h.s), d) /\ h.pc # "iput_free"
    BY <1>1, <1>2, <1>4, <2>1 DEF Frame, FrameFits, Fields, TopOK, Iput, F, With
  <2>4. FrameFits(g, Takes(h.pc), Owning(t, g.s) + Owns(h, g.s), d) /\ g.pc # "iput_free" /\ Takes(g.pc) = "other"
    BY <1>1, <1>2, <1>4, <2>1 DEF Frame, FrameFits, Fields, TopOK, Iput, F, With
  <2>5. \A s \in Slots : Owns(h, s) + Owns(g, s) = Own(f, s)
    BY <1>1, <1>2, <1>4, <2>1 DEF Frame, FrameFits, Fields, TopOK, Own, Owns, Waits, Iput, F, With
  <2> QED BY <1>1, <1>3, <2>2, <2>3, <2>4, <2>5, Become2
<1>5. ASSUME Becomes(p, Hold(Iputs(f.r, f.dir), f.de)) PROVE StackStep(p)
  <2>1. PICK g, h : g = With(Iput(f.r, 0), [bh |-> f.de[1]]) /\ h = With(Iput(f.dir, 0), [bh |-> f.de[1]])
    OBVIOUS
  <2>2. Becomes(p, <<g, h>>)
    BY <1>5, <2>1, HoldFrames DEF Iputs
  <2>3. FrameFits(h, k, Owning(t, h.s), d) /\ h.pc # "iput_free"
    BY <1>1, <1>2, <1>5, <2>1 DEF Frame, FrameFits, Fields, TopOK, Iput, F, With
  <2>4. FrameFits(g, Takes(h.pc), Owning(t, g.s) + Owns(h, g.s), d) /\ g.pc # "iput_free" /\ Takes(g.pc) = "other"
    BY <1>1, <1>2, <1>5, <2>1 DEF Frame, FrameFits, Fields, TopOK, Iput, F, With
  <2>5. \A s \in Slots : Owns(h, s) + Owns(g, s) = Own(f, s)
    BY <1>1, <1>2, <1>5, <2>1 DEF Frame, FrameFits, Fields, TopOK, Own, Owns, Waits, Iput, F, With
  <2> QED BY <1>1, <1>3, <2>2, <2>3, <2>4, <2>5, Become2
<1>6. ASSUME Becomes(p, <<F("empty_dir", [s |-> f.r, i |-> 0, bh |-> 0, n |-> table[f.r].size]), With([inode |-> f.r], [f EXCEPT !.pc = "rmdir_empty"])>>) PROVE StackStep(p)
  <2>1. PICK g, h : g = F("empty_dir", [s |-> f.r, i |-> 0, bh |-> 0, n |-> table[f.r].size]) /\ h = With([inode |-> f.r], [f EXCEPT !.pc = "rmdir_empty"])
    OBVIOUS
  <2>2. Becomes(p, <<g, h>>)
    BY <1>6, <2>1
  <2>3. \A s : Owning(t, s) \in Nat
    BY <1>1, BelowNat
  <2>4. FrameFits(h, k, Owning(t, h.s), d) /\ h.pc # "iput_free"
    BY <1>1, <1>2, <1>6, <2>1 DEF Frame, FrameFits, Fields, TopOK, F, With
  <2>5. FrameFits(g, Takes(h.pc), Owning(t, g.s) + Owns(h, g.s), d) /\ g.pc # "iput_free" /\ Takes(g.pc) = "other"
    BY <1>1, <1>2, <1>6, <2>1, <2>3 DEF Frame, FrameFits, Fields, TopOK, F, With, Owns
  <2>6. \A s \in Slots : Owns(h, s) + Owns(g, s) = Own(f, s)
    BY <1>1, <1>2, <1>6, <2>1 DEF Frame, FrameFits, Fields, TopOK, Own, Owns, Waits, F, With
  <2> QED BY <1>1, <1>3, <2>2, <2>4, <2>5, <2>6, Become2
<1>9. StackStep(p)
  BY <1>2, <1>4, <1>5, <1>6 DEF rmdir
<1> QED BY <1>1, <1>3, <1>9, PlainStep

LEMMA mkdir_freeStep ==
    ASSUME RefInv, NEW p \in Procs, MayRun(p), UNCHANGED fd, mkdir_free(p)
    PROVE  StepOK(p)
<1> USE DEF TakesInode, TakesMaybe, TakesEmpty, TakesEntry, Takes, Puts, GivesInode, GivesMaybe, GivesEntry, Gives, Borrows, OwnsS, HasS, HasDirInode, HasDir, HasInode, HasArg, Opens, Plain
<1>1. PICK f, t, k, d : Runs(p, f, t, k, d) /\ Frame(f, t, k, d)
  BY Running
<1>2. f = Top(p) /\ f.pc = "mkdir_free"
  BY <1>1 DEF Runs, mkdir_free, At
<1>3. TableStep(p) /\ SameCounts /\ UNCHANGED panic
  BY <1>1, SameTable DEF Runs, mkdir_free, SamePlace
<1>4. ASSUME TRUE PROVE StackStep(p)
  <2>1. PICK g, h : g = FreeBlock(table[f.inode].zone[0]) /\ h = F("drop", [inode |-> f.inode])
    OBVIOUS
  <2>2. Becomes(p, <<g, h>>)
    BY <1>2, <1>4, <2>1 DEF mkdir_free
  <2>3. FrameFits(h, k, Owning(t, h.s), d) /\ h.pc # "iput_free"
    BY <1>1, <1>2, <1>4, <2>1 DEF Frame, FrameFits, Fields, TopOK, FreeBlock, F, With
  <2>4. FrameFits(g, Takes(h.pc), Owning(t, g.s) + Owns(h, g.s), d) /\ g.pc # "iput_free" /\ Takes(g.pc) = "other"
    BY <1>1, <1>2, <1>4, <2>1 DEF Frame, FrameFits, Fields, TopOK, FreeBlock, F, With
  <2>5. \A s \in Slots : Owns(h, s) + Owns(g, s) = Own(f, s)
    BY <1>1, <1>2, <1>4, <2>1 DEF Frame, FrameFits, Fields, TopOK, Own, Owns, Waits, FreeBlock, F, With
  <2> QED BY <1>1, <1>3, <2>2, <2>3, <2>4, <2>5, Become2
<1>9. StackStep(p)
  BY <1>2, <1>4
<1> QED BY <1>1, <1>3, <1>9, PlainStep

LEMMA file_writeStep ==
    ASSUME RefInv, NEW p \in Procs, MayRun(p), UNCHANGED fd, file_write(p)
    PROVE  StepOK(p)
<1> USE DEF TakesInode, TakesMaybe, TakesEmpty, TakesEntry, Takes, Puts, GivesInode, GivesMaybe, GivesEntry, Gives, Borrows, OwnsS, HasS, HasDirInode, HasDir, HasInode, HasArg, Opens, Plain
<1>1. PICK f, t, k, d : Runs(p, f, t, k, d) /\ Frame(f, t, k, d)
  BY Running
<1>2. f = Top(p) /\ f.pc = "file_write"
  BY <1>1 DEF Runs, file_write, At
<1>3. TableStep(p) /\ SameCounts /\ UNCHANGED panic
  BY <1>1, SameTable DEF Runs, file_write, SamePlace
<1>4. ASSUME Return(p, 0) PROVE StackStep(p)
  <2>1. Return(p, 0)
    BY <1>4
  <2>2. \A s \in Slots : Own(f, s) = 0
    BY <1>2, OwnNat DEF Own, Owns, Waits
  <2>3. k \in Plain
    BY <1>1, <1>2, <1>4, <2>1 DEF Frame, FrameFits
  <2> QED BY <1>1, <1>3, <2>1, <2>2, <2>3, ReturnsPlain
<1>5. ASSUME Becomes(p, <<With([bh |-> f.r], [f EXCEPT !.pc = "file_written"])>>) PROVE StackStep(p)
  <2>1. PICK g : g = With([bh |-> f.r], [f EXCEPT !.pc = "file_written"])
    OBVIOUS
  <2>2. Becomes(p, <<g>>)
    BY <1>5, <2>1
  <2>3. FrameFits(g, k, Owning(t, g.s), d) /\ g.pc # "iput_free" /\ Takes(g.pc) = "other"
    BY <1>1, <1>2, <1>5, <2>1 DEF Frame, FrameFits, Fields, TopOK, Iput, F, With
  <2>4. \A s \in Slots : Owns(g, s) = Own(f, s)
    BY <1>1, <1>2, <1>5, <2>1 DEF Frame, FrameFits, Fields, TopOK, Own, Owns, Waits, Iput, F, With
  <2> QED BY <1>1, <1>3, <2>2, <2>3, <2>4, Become1
<1>9. StackStep(p)
  BY <1>2, <1>4, <1>5 DEF file_write
<1> QED BY <1>1, <1>3, <1>9, PlainStep

LEMMA sync_inodesStep ==
    ASSUME RefInv, NEW p \in Procs, MayRun(p), UNCHANGED fd, sync_inodes(p)
    PROVE  StepOK(p)
<1> USE DEF TakesInode, TakesMaybe, TakesEmpty, TakesEntry, Takes, Puts, GivesInode, GivesMaybe, GivesEntry, Gives, Borrows, OwnsS, HasS, HasDirInode, HasDir, HasInode, HasArg, Opens, Plain
<1>1. PICK f, t, k, d : Runs(p, f, t, k, d) /\ Frame(f, t, k, d)
  BY Running
<1>2. f = Top(p) /\ f.pc = "sync_inodes"
  BY <1>1 DEF Runs, sync_inodes, At
<1>3. TableStep(p) /\ SameCounts /\ UNCHANGED panic
  BY <1>1, SameTable DEF Runs, sync_inodes, SamePlace
<1>4. ASSUME Return(p, 0) PROVE StackStep(p)
  <2>1. Return(p, 0)
    BY <1>4
  <2>2. \A s \in Slots : Own(f, s) = 0
    BY <1>2, OwnNat DEF Own, Owns, Waits
  <2>3. k \in Plain
    BY <1>1, <1>2, <1>4, <2>1 DEF Frame, FrameFits
  <2> QED BY <1>1, <1>3, <2>1, <2>2, <2>3, ReturnsPlain
<1>5. ASSUME NEW s0 \in f.left, Becomes(p, <<WriteInode(s0), [f EXCEPT !.left = @ \ {s0}]>>) PROVE StackStep(p)
  <2>1. PICK g, h : g = WriteInode(s0) /\ h = [f EXCEPT !.left = @ \ {s0}]
    OBVIOUS
  <2>2. Becomes(p, <<g, h>>)
    BY <1>5, <2>1
  <2>3. FrameFits(h, k, Owning(t, h.s), d) /\ h.pc # "iput_free"
    BY <1>1, <1>2, <1>5, <2>1 DEF Frame, FrameFits, Fields, TopOK, WriteInode, F, With
  <2>4. FrameFits(g, Takes(h.pc), Owning(t, g.s) + Owns(h, g.s), d) /\ g.pc # "iput_free" /\ Takes(g.pc) = "other"
    BY <1>1, <1>2, <1>5, <2>1 DEF Frame, FrameFits, Fields, TopOK, WriteInode, F, With
  <2>5. \A s \in Slots : Owns(h, s) + Owns(g, s) = Own(f, s)
    BY <1>1, <1>2, <1>5, <2>1 DEF Frame, FrameFits, Fields, TopOK, Own, Owns, Waits, WriteInode, F, With
  <2> QED BY <1>1, <1>3, <2>2, <2>3, <2>4, <2>5, Become2
<1>9. StackStep(p)
  BY <1>2, <1>4, <1>5 DEF sync_inodes
<1> QED BY <1>1, <1>3, <1>9, PlainStep

LEMMA free_indStep ==
    ASSUME RefInv, NEW p \in Procs, MayRun(p), UNCHANGED fd, free_ind(p)
    PROVE  StepOK(p)
<1> USE DEF TakesInode, TakesMaybe, TakesEmpty, TakesEntry, Takes, Puts, GivesInode, GivesMaybe, GivesEntry, Gives, Borrows, OwnsS, HasS, HasDirInode, HasDir, HasInode, HasArg, Opens, Plain
<1>1. PICK f, t, k, d : Runs(p, f, t, k, d) /\ Frame(f, t, k, d)
  BY Running
<1>2. f = Top(p) /\ f.pc = "free_ind"
  BY <1>1 DEF Runs, free_ind, At
<1>3. TableStep(p) /\ SameCounts /\ UNCHANGED panic
  BY <1>1, SameTable DEF Runs, free_ind, SamePlace
<1>4. ASSUME Becomes(p, <<FreeBlock(Head(f.work)[1]), [f EXCEPT !.work = Tail(@)]>>) PROVE StackStep(p)
  <2>1. PICK g, h : g = FreeBlock(Head(f.work)[1]) /\ h = [f EXCEPT !.work = Tail(@)]
    OBVIOUS
  <2>2. Becomes(p, <<g, h>>)
    BY <1>4, <2>1
  <2>3. FrameFits(h, k, Owning(t, h.s), d) /\ h.pc # "iput_free"
    BY <1>1, <1>2, <1>4, <2>1 DEF Frame, FrameFits, Fields, TopOK, FreeBlock, F, With
  <2>4. FrameFits(g, Takes(h.pc), Owning(t, g.s) + Owns(h, g.s), d) /\ g.pc # "iput_free" /\ Takes(g.pc) = "other"
    BY <1>1, <1>2, <1>4, <2>1 DEF Frame, FrameFits, Fields, TopOK, FreeBlock, F, With
  <2>5. \A s \in Slots : Owns(h, s) + Owns(g, s) = Own(f, s)
    BY <1>1, <1>2, <1>4, <2>1 DEF Frame, FrameFits, Fields, TopOK, Own, Owns, Waits, FreeBlock, F, With
  <2> QED BY <1>1, <1>3, <2>2, <2>3, <2>4, <2>5, Become2
<1>5. ASSUME Becomes(p, <<[f EXCEPT !.pc = "free_ind_read"]>>) PROVE StackStep(p)
  <2>1. PICK g : g = [f EXCEPT !.pc = "free_ind_read"]
    OBVIOUS
  <2>2. Becomes(p, <<g>>)
    BY <1>5, <2>1
  <2>3. FrameFits(g, k, Owning(t, g.s), d) /\ g.pc # "iput_free" /\ Takes(g.pc) = "other"
    BY <1>1, <1>2, <1>5, <2>1 DEF Frame, FrameFits, Fields, TopOK, Iput, F, With
  <2>4. \A s \in Slots : Owns(g, s) = Own(f, s)
    BY <1>1, <1>2, <1>5, <2>1 DEF Frame, FrameFits, Fields, TopOK, Own, Owns, Waits, Iput, F, With
  <2> QED BY <1>1, <1>3, <2>2, <2>3, <2>4, Become1
<1>9. StackStep(p)
  BY <1>2, <1>4, <1>5 DEF free_ind
<1> QED BY <1>1, <1>3, <1>9, PlainStep

LEMMA FollowStep ==
    ASSUME NEW p, NEW f, NEW t, NEW k, NEW d, Runs(p, f, t, k, d), Frame(f, t, k, d),
           UNCHANGED fd, SameCounts, f.pc \in {"bmap", "bmap_store"}, NEW z, Follow(p, f, z)
    PROVE  StackStep(p)
<1> USE DEF TakesInode, TakesMaybe, TakesEmpty, TakesEntry, Takes, Puts, GivesInode, GivesMaybe, GivesEntry, Gives, Borrows, OwnsS, HasS, HasDirInode, HasDir, HasInode, HasArg, Opens, Plain
<1>1. k \in Plain /\ \A s \in Slots : Own(f, s) = 0
  BY DEF Frame, FrameFits, Own, Owns, Waits
<1>2. ASSUME NEW v, Return(p, v) PROVE StackStep(p)
  BY <1>1, <1>2, ReturnsPlain
<1>3. ASSUME Becomes(p, <<[f EXCEPT !.pc = "bmap", !.bh = z, !.cells = Tail(@)]>>) PROVE StackStep(p)
  <2>1. PICK g : g = [f EXCEPT !.pc = "bmap", !.bh = z, !.cells = Tail(@)]
    OBVIOUS
  <2>2. Becomes(p, <<g>>)
    BY <1>3, <2>1
  <2>3. g.pc = "bmap" /\ g.s = f.s /\ g = [y \in DOMAIN g |-> g[y]] /\ DOMAIN g = DOMAIN f
    BY <2>1 DEF Frame, FrameFits, Fields
  <2>4. FrameFits(g, k, Owning(t, g.s), d) /\ g.pc # "iput_free" /\ Takes(g.pc) = "other"
    BY <2>3 DEF Frame, FrameFits, Fields
  <2>5. \A s \in Slots : Owns(g, s) = Own(f, s)
    BY <1>1, <2>3 DEF Own, Owns, Waits
  <2> QED BY <2>2, <2>4, <2>5, Become1
<1> QED BY <1>2, <1>3 DEF Follow

LEMMA bmapStep ==
    ASSUME RefInv, NEW p \in Procs, MayRun(p), UNCHANGED fd, bmap(p)
    PROVE  StepOK(p)
<1> USE DEF TakesInode, TakesMaybe, TakesEmpty, TakesEntry, Takes, Puts, GivesInode, GivesMaybe, GivesEntry, Gives, Borrows, OwnsS, HasS, HasDirInode, HasDir, HasInode, HasArg, Opens, Plain
<1>1. PICK f, t, k, d : Runs(p, f, t, k, d) /\ Frame(f, t, k, d)
  BY Running
<1>2. f = Top(p) /\ f.pc = "bmap"
  BY <1>1 DEF Runs, bmap, At
<1>3. TableStep(p) /\ SameCounts /\ UNCHANGED panic
  BY <1>1, SameTable DEF Runs, bmap, HitIf, Hit
<1>4. ASSUME Becomes(p, <<F("new_block", <<>>), [f EXCEPT !.pc = "bmap_store"]>>) PROVE StackStep(p)
  <2>1. PICK g, h : g = F("new_block", <<>>) /\ h = [f EXCEPT !.pc = "bmap_store"]
    OBVIOUS
  <2>2. Becomes(p, <<g, h>>)
    BY <1>4, <2>1
  <2>3. FrameFits(h, k, Owning(t, h.s), d) /\ h.pc # "iput_free"
    BY <1>1, <1>2, <1>4, <2>1 DEF Frame, FrameFits, Fields, TopOK, Iput, F, With
  <2>4. FrameFits(g, Takes(h.pc), Owning(t, g.s) + Owns(h, g.s), d) /\ g.pc # "iput_free" /\ Takes(g.pc) = "other"
    BY <1>1, <1>2, <1>4, <2>1 DEF Frame, FrameFits, Fields, TopOK, Iput, F, With
  <2>5. \A s \in Slots : Owns(h, s) + Owns(g, s) = Own(f, s)
    BY <1>1, <1>2, <1>4, <2>1 DEF Frame, FrameFits, Fields, TopOK, Own, Owns, Waits, Iput, F, With
  <2> QED BY <1>1, <1>3, <2>2, <2>3, <2>4, <2>5, Become2
<1>5. ASSUME NEW z, Follow(p, f, z) PROVE StackStep(p)
  BY <1>1, <1>2, <1>3, <1>5, FollowStep
<1>9. StackStep(p)
  BY <1>2, <1>4, <1>5 DEF bmap
<1> QED BY <1>1, <1>3, <1>9, PlainStep

LEMMA new_blockStep ==
    ASSUME RefInv, NEW p \in Procs, MayRun(p), UNCHANGED fd, new_block(p)
    PROVE  StepOK(p)
<1> USE DEF TakesInode, TakesMaybe, TakesEmpty, TakesEntry, Takes, Puts, GivesInode, GivesMaybe, GivesEntry, Gives, Borrows, OwnsS, HasS, HasDirInode, HasDir, HasInode, HasArg, Opens, Plain
<1>1. PICK f, t, k, d : Runs(p, f, t, k, d) /\ Frame(f, t, k, d)
  BY Running
<1>2. f = Top(p) /\ f.pc = "new_block"
  BY <1>1 DEF Runs, new_block, At
<1>3. TableStep(p) /\ SameCounts /\ UNCHANGED panic
  BY <1>1, SameTable DEF Runs, new_block
<1>4. ASSUME Return(p, 0) PROVE StackStep(p)
  <2>1. Return(p, 0)
    BY <1>4
  <2>2. \A s \in Slots : Own(f, s) = 0
    BY <1>2, OwnNat DEF Own, Owns, Waits
  <2>3. k \in Plain
    BY <1>1, <1>2, <1>4, <2>1 DEF Frame, FrameFits
  <2> QED BY <1>1, <1>3, <2>1, <2>2, <2>3, ReturnsPlain
<1>5. ASSUME NEW z, Becomes(p, <<F("getblk", [z |-> z])>>) PROVE StackStep(p)
  <2>1. PICK g : g = F("getblk", [z |-> z])
    OBVIOUS
  <2>2. Becomes(p, <<g>>)
    BY <1>5, <2>1
  <2>3. FrameFits(g, k, Owning(t, g.s), d) /\ g.pc # "iput_free" /\ Takes(g.pc) = "other"
    BY <1>1, <1>2, <1>5, <2>1 DEF Frame, FrameFits, Fields, TopOK, Iput, F, With
  <2>4. \A s \in Slots : Owns(g, s) = Own(f, s)
    BY <1>1, <1>2, <1>5, <2>1 DEF Frame, FrameFits, Fields, TopOK, Own, Owns, Waits, Iput, F, With
  <2> QED BY <1>1, <1>3, <2>2, <2>3, <2>4, Become1
<1>9. StackStep(p)
  BY <1>2, <1>4, <1>5 DEF new_block
<1> QED BY <1>1, <1>3, <1>9, PlainStep

LEMMA new_block_clearStep ==
    ASSUME RefInv, NEW p \in Procs, MayRun(p), UNCHANGED fd, new_block_clear(p)
    PROVE  StepOK(p)
<1> USE DEF TakesInode, TakesMaybe, TakesEmpty, TakesEntry, Takes, Puts, GivesInode, GivesMaybe, GivesEntry, Gives, Borrows, OwnsS, HasS, HasDirInode, HasDir, HasInode, HasArg, Opens, Plain
<1>1. PICK f, t, k, d : Runs(p, f, t, k, d) /\ Frame(f, t, k, d)
  BY Running
<1>2. f = Top(p) /\ f.pc = "getblk"
  BY <1>1 DEF Runs, new_block_clear, At
<1>3. CASE Panic("new block: count is != 1")
  <2>1. UNCHANGED <<fd, stack, table, imap, race>> /\ panic' \notin InodePanics
    BY <1>3 DEF Panic, InodePanics
  <2>2. Takes(f.pc) # "entry"
    BY <1>2
  <2> QED BY <1>1, <2>1, <2>2, StayStep
<1>4. CASE ~Panic("new block: count is != 1")
  <2>1. Return(p, f.z) /\ table' = table /\ imap' = imap /\ panic' = panic /\ race \subseteq race'
    BY <1>2, <1>4 DEF new_block_clear
  <2>2. TableStep(p) /\ SameCounts
    BY <1>1, <2>1, SameTable DEF Runs
  <2>3. k \in Plain /\ \A s \in Slots : Own(f, s) = 0
    BY <1>1, <1>2 DEF Frame, FrameFits, Own, Owns, Waits
  <2>4. StackStep(p)
    BY <1>1, <2>1, <2>2, <2>3, ReturnsPlain
  <2> QED BY <1>1, <2>1, <2>2, <2>4, PlainStep
<1> QED BY <1>3, <1>4

LEMMA free_blockStep ==
    ASSUME RefInv, NEW p \in Procs, MayRun(p), UNCHANGED fd, free_block(p)
    PROVE  StepOK(p)
<1> USE DEF TakesInode, TakesMaybe, TakesEmpty, TakesEntry, Takes, Puts, GivesInode, GivesMaybe, GivesEntry, Gives, Borrows, OwnsS, HasS, HasDirInode, HasDir, HasInode, HasArg, Opens, Plain
<1>1. PICK f, t, k, d : Runs(p, f, t, k, d) /\ Frame(f, t, k, d)
  BY Running
<1>2. f = Top(p) /\ f.pc = "free_block"
  BY <1>1 DEF Runs, free_block, At
<1>3. CASE Panic("free_block: bit already cleared")
  <2>1. UNCHANGED <<fd, stack, table, imap, race>> /\ panic' \notin InodePanics
    BY <1>3 DEF Panic, InodePanics
  <2>2. Takes(f.pc) # "entry"
    BY <1>2
  <2> QED BY <1>1, <2>1, <2>2, StayStep
<1>4. CASE ~Panic("free_block: bit already cleared")
  <2>1. Return(p, 0) /\ table' = table /\ imap' = imap /\ panic' = panic /\ race \subseteq race'
    BY <1>2, <1>4 DEF free_block, Hit
  <2>2. TableStep(p) /\ SameCounts
    BY <1>1, <2>1, SameTable DEF Runs
  <2>3. k \in Plain /\ \A s \in Slots : Own(f, s) = 0
    BY <1>1, <1>2 DEF Frame, FrameFits, Own, Owns, Waits
  <2>4. StackStep(p)
    BY <1>1, <2>1, <2>2, <2>3, ReturnsPlain
  <2> QED BY <1>1, <2>1, <2>2, <2>4, PlainStep
<1> QED BY <1>3, <1>4

LEMMA free_ind_readStep ==
    ASSUME RefInv, NEW p \in Procs, MayRun(p), UNCHANGED fd, free_ind_read(p)
    PROVE  StepOK(p)
<1> USE DEF TakesInode, TakesMaybe, TakesEmpty, TakesEntry, Takes, Puts, GivesInode, GivesMaybe, GivesEntry, Gives, Borrows, OwnsS, HasS, HasDirInode, HasDir, HasInode, HasArg, Opens, Plain
<1>1. PICK f, t, k, d : Runs(p, f, t, k, d) /\ Frame(f, t, k, d)
  BY Running
<1>2. f = Top(p) /\ f.pc = "free_ind_read"
  BY <1>1 DEF Runs, free_ind_read, At
<1>3. TableStep(p) /\ SameCounts /\ UNCHANGED panic
  BY <1>1, SameTable DEF Runs, free_ind_read, Hit
<1>4. ASSUME NEW w, Becomes(p, <<[f EXCEPT !.pc = "free_ind", !.work = w \o << <<Head(f.work)[1], 0>> >> \o Tail(@)]>>) PROVE StackStep(p)
  <2>1. PICK g : g = [f EXCEPT !.pc = "free_ind", !.work = w \o << <<Head(f.work)[1], 0>> >> \o Tail(@)]
    OBVIOUS
  <2>2. Becomes(p, <<g>>)
    BY <1>4, <2>1
  <2>3. FrameFits(g, k, Owning(t, g.s), d) /\ g.pc # "iput_free" /\ Takes(g.pc) = "other"
    BY <1>1, <1>2, <1>4, <2>1 DEF Frame, FrameFits, Fields, TopOK, Iput, F, With
  <2>4. \A s \in Slots : Owns(g, s) = Own(f, s)
    BY <1>1, <1>2, <1>4, <2>1 DEF Frame, FrameFits, Fields, TopOK, Own, Owns, Waits, Iput, F, With
  <2> QED BY <1>1, <1>3, <2>2, <2>3, <2>4, Become1
<1>9. StackStep(p)
  BY <1>2, <1>4 DEF free_ind_read
<1> QED BY <1>1, <1>3, <1>9, PlainStep

LEMMA mknod_addStep ==
    ASSUME RefInv, NEW p \in Procs, MayRun(p), UNCHANGED fd, mknod_add(p)
    PROVE  StepOK(p)
<1> USE DEF TakesInode, TakesMaybe, TakesEmpty, TakesEntry, Takes, Puts, GivesInode, GivesMaybe, GivesEntry, Gives, Borrows, OwnsS, HasS, HasDirInode, HasDir, HasInode, HasArg, Opens, Plain
<1>1. PICK f, t, k, d : Runs(p, f, t, k, d) /\ Frame(f, t, k, d)
  BY Running
<1>2. f = Top(p) /\ f.pc = "mknod_add"
  BY <1>1 DEF Runs, mknod_add, At
<1>3. TableStep(p) /\ SameCounts /\ UNCHANGED panic
  BY <1>1, SameTable DEF Runs, mknod_add, Fill
<1>4. ASSUME Becomes(p, <<Iput(f.dir, 0), F("drop", [inode |-> f.inode])>>) PROVE StackStep(p)
  <2>1. PICK g, h : g = Iput(f.dir, 0) /\ h = F("drop", [inode |-> f.inode])
    OBVIOUS
  <2>2. Becomes(p, <<g, h>>)
    BY <1>4, <2>1
  <2>3. FrameFits(h, k, Owning(t, h.s), d) /\ h.pc # "iput_free"
    BY <1>1, <1>2, <1>4, <2>1 DEF Frame, FrameFits, Fields, TopOK, Iput, F, With
  <2>4. FrameFits(g, Takes(h.pc), Owning(t, g.s) + Owns(h, g.s), d) /\ g.pc # "iput_free" /\ Takes(g.pc) = "other"
    BY <1>1, <1>2, <1>4, <2>1 DEF Frame, FrameFits, Fields, TopOK, Iput, F, With
  <2>5. \A s \in Slots : Owns(h, s) + Owns(g, s) = Own(f, s)
    BY <1>1, <1>2, <1>4, <2>1 DEF Frame, FrameFits, Fields, TopOK, Own, Owns, Waits, Iput, F, With
  <2> QED BY <1>1, <1>3, <2>2, <2>3, <2>4, <2>5, Become2
<1>5. ASSUME Becomes(p, Hold(Iputs(f.dir, f.inode), f.r)) PROVE StackStep(p)
  <2>1. PICK g, h : g = With(Iput(f.dir, 0), [bh |-> f.r[1]]) /\ h = With(Iput(f.inode, 0), [bh |-> f.r[1]])
    OBVIOUS
  <2>2. Becomes(p, <<g, h>>)
    BY <1>5, <2>1, HoldFrames DEF Iputs
  <2>3. FrameFits(h, k, Owning(t, h.s), d) /\ h.pc # "iput_free"
    BY <1>1, <1>2, <1>5, <2>1 DEF Frame, FrameFits, Fields, TopOK, Iput, F, With
  <2>4. FrameFits(g, Takes(h.pc), Owning(t, g.s) + Owns(h, g.s), d) /\ g.pc # "iput_free" /\ Takes(g.pc) = "other"
    BY <1>1, <1>2, <1>5, <2>1 DEF Frame, FrameFits, Fields, TopOK, Iput, F, With
  <2>5. \A s \in Slots : Owns(h, s) + Owns(g, s) = Own(f, s)
    BY <1>1, <1>2, <1>5, <2>1 DEF Frame, FrameFits, Fields, TopOK, Own, Owns, Waits, Iput, F, With
  <2> QED BY <1>1, <1>3, <2>2, <2>3, <2>4, <2>5, Become2
<1>9. StackStep(p)
  BY <1>2, <1>4, <1>5 DEF mknod_add
<1> QED BY <1>1, <1>3, <1>9, PlainStep

LEMMA link_addStep ==
    ASSUME RefInv, NEW p \in Procs, MayRun(p), UNCHANGED fd, link_add(p)
    PROVE  StepOK(p)
<1> USE DEF TakesInode, TakesMaybe, TakesEmpty, TakesEntry, Takes, Puts, GivesInode, GivesMaybe, GivesEntry, Gives, Borrows, OwnsS, HasS, HasDirInode, HasDir, HasInode, HasArg, Opens, Plain
<1>1. PICK f, t, k, d : Runs(p, f, t, k, d) /\ Frame(f, t, k, d)
  BY Running
<1>2. f = Top(p) /\ f.pc = "link_add"
  BY <1>1 DEF Runs, link_add, At
<1>3. TableStep(p) /\ SameCounts /\ UNCHANGED panic
  BY <1>1, SameTable DEF Runs, link_add, Fill
<1>4. ASSUME Becomes(p, Iputs(f.dir, f.inode)) PROVE StackStep(p)
  <2>1. PICK g, h : g = Iput(f.dir, 0) /\ h = Iput(f.inode, 0)
    OBVIOUS
  <2>2. Becomes(p, <<g, h>>)
    BY <1>4, <2>1 DEF Iputs
  <2>3. FrameFits(h, k, Owning(t, h.s), d) /\ h.pc # "iput_free"
    BY <1>1, <1>2, <1>4, <2>1 DEF Frame, FrameFits, Fields, TopOK, Iput, F, With
  <2>4. FrameFits(g, Takes(h.pc), Owning(t, g.s) + Owns(h, g.s), d) /\ g.pc # "iput_free" /\ Takes(g.pc) = "other"
    BY <1>1, <1>2, <1>4, <2>1 DEF Frame, FrameFits, Fields, TopOK, Iput, F, With
  <2>5. \A s \in Slots : Owns(h, s) + Owns(g, s) = Own(f, s)
    BY <1>1, <1>2, <1>4, <2>1 DEF Frame, FrameFits, Fields, TopOK, Own, Owns, Waits, Iput, F, With
  <2> QED BY <1>1, <1>3, <2>2, <2>3, <2>4, <2>5, Become2
<1>5. ASSUME Becomes(p, <<Iput(f.dir, 0), F("link_done", [inode |-> f.inode])>>) PROVE StackStep(p)
  <2>1. PICK g, h : g = Iput(f.dir, 0) /\ h = F("link_done", [inode |-> f.inode])
    OBVIOUS
  <2>2. Becomes(p, <<g, h>>)
    BY <1>5, <2>1
  <2>3. FrameFits(h, k, Owning(t, h.s), d) /\ h.pc # "iput_free"
    BY <1>1, <1>2, <1>5, <2>1 DEF Frame, FrameFits, Fields, TopOK, Iput, F, With
  <2>4. FrameFits(g, Takes(h.pc), Owning(t, g.s) + Owns(h, g.s), d) /\ g.pc # "iput_free" /\ Takes(g.pc) = "other"
    BY <1>1, <1>2, <1>5, <2>1 DEF Frame, FrameFits, Fields, TopOK, Iput, F, With
  <2>5. \A s \in Slots : Owns(h, s) + Owns(g, s) = Own(f, s)
    BY <1>1, <1>2, <1>5, <2>1 DEF Frame, FrameFits, Fields, TopOK, Own, Owns, Waits, Iput, F, With
  <2> QED BY <1>1, <1>3, <2>2, <2>3, <2>4, <2>5, Become2
<1>9. StackStep(p)
  BY <1>2, <1>4, <1>5 DEF link_add
<1> QED BY <1>1, <1>3, <1>9, PlainStep

LEMMA wait_on_inodeStep ==
    ASSUME RefInv, NEW p \in Procs, MayRun(p), UNCHANGED fd, wait_on_inode(p)
    PROVE  StepOK(p)
<1> USE DEF TakesInode, TakesMaybe, TakesEmpty, TakesEntry, Takes, Puts, GivesInode, GivesMaybe, GivesEntry, Gives, Borrows, OwnsS, HasS, HasDirInode, HasDir, HasInode, HasArg, Opens, Plain
<1>1. PICK f, t, k, d : Runs(p, f, t, k, d) /\ Frame(f, t, k, d)
  BY Running
<1>2. Takes(f.pc) # "entry"
  BY <1>1 DEF Runs, wait_on_inode, WaitsFor
<1>3. UNCHANGED <<fd, stack, table, imap, race>> /\ panic' \notin InodePanics
  BY <1>1 DEF wait_on_inode, SamePlace, InodePanics, Runs, MayRun
<1> QED BY <1>1, <1>2, <1>3, StayStep

LEMMA inode_block_unreadableStep ==
    ASSUME RefInv, NEW p \in Procs, MayRun(p), UNCHANGED fd, inode_block_unreadable(p)
    PROVE  StepOK(p)
<1> USE DEF TakesInode, TakesMaybe, TakesEmpty, TakesEntry, Takes, Puts, GivesInode, GivesMaybe, GivesEntry, Gives, Borrows, OwnsS, HasS, HasDirInode, HasDir, HasInode, HasArg, Opens, Plain
<1>1. PICK f, t, k, d : Runs(p, f, t, k, d) /\ Frame(f, t, k, d)
  BY Running
<1>2. f = Top(p) /\ (f.pc = "read_inode" \/ f.pc = "write_copy")
  BY <1>1 DEF Runs, inode_block_unreadable, At
<1>3. UNCHANGED <<fd, stack, table, imap, race>> /\ panic' \notin InodePanics
  BY DEF inode_block_unreadable, Panic, InodePanics
<1>4. Takes(f.pc) # "entry"
  BY <1>2
<1> QED BY <1>1, <1>3, <1>4, StayStep

LEMMA InodeSame ==
    ASSUME NEW i, IsInode(i), NEW j, j = [x \in InodeFields |-> j[x]],
           j.count = i.count, j.lock = i.lock, j.dirt \in {i.dirt, TRUE}
    PROVE  IsInode(j)
BY DEF IsInode

LEMMA namei_doneStep ==
    ASSUME RefInv, NEW p \in Procs, MayRun(p), UNCHANGED fd, namei_done(p)
    PROVE  StepOK(p)
<1> USE DEF TakesInode, TakesMaybe, TakesEmpty, TakesEntry, Takes, Puts, GivesInode, GivesMaybe, GivesEntry, Gives, Borrows, OwnsS, HasS, HasDirInode, HasDir, HasInode, HasArg, Opens, Plain
<1>1. PICK f, t, k, d : Runs(p, f, t, k, d) /\ Frame(f, t, k, d)
  BY Running
<1>2. f = Top(p) /\ f.pc = "namei_done"
  BY <1>1 DEF Runs, namei_done, At
<1>10. TableStep(p) /\ SameCounts
  <2>1. PICK e, i, j : e = f.r /\ i = table[e] /\ j = [i EXCEPT !.dirt = TRUE]
    OBVIOUS
  <2>3. e \in Slots /\ TableOK
    BY <1>1, <1>2, <2>1 DEF Runs, Frame, FrameFits, Fields, TopOK
  <2>2. table' = [table EXCEPT ![e] = j] /\ imap' = imap /\ race \subseteq race'
    BY <1>2, <2>1, <2>3 DEF namei_done
  <2>4. Own(f, e) >= 1
    BY <1>1, <1>2, <2>1, <2>3 DEF Frame, FrameFits, Fields, TopOK, Own, Owns, Waits
  <2>5. Has(p, e) /\ Mine(p, e) >= 1
    BY <1>1, <2>4, HasTop
  <2>6. IsInode(i) /\ DOMAIN i = InodeFields
    BY <2>1, <2>3 DEF TableOK, IsInode
  <2>7. /\ DOMAIN j = InodeFields /\ j = [x \in InodeFields |-> j[x]]
        /\ j.num = i.num /\ j.count = i.count /\ j.lock = i.lock
    BY <2>1, <2>6 DEF InodeFields
  <2>8. j.dirt \in {i.dirt, TRUE}
    BY <2>1, <2>6 DEF InodeFields
  <2>9. IsInode(j)
    BY <2>6, <2>7, <2>8, InodeSame
  <2> QED BY <2>1, <2>2, <2>3, <2>5, <2>7, <2>9, TouchOne
<1>3. TableStep(p) /\ SameCounts /\ UNCHANGED panic
  BY <1>10 DEF namei_done
<1>4. ASSUME Return(p, f.r) PROVE StackStep(p)
  <2>1. Return(p, f.r)
    BY <1>4
  <2>2. \A s \in Slots : Own(f, s) = Opened(f.r, s)
    BY <1>1, <1>2, <1>4,  InodeAssumption DEF Frame, FrameFits, Fields, TopOK, Own, Owns, Waits, Opened
  <2>3. (k = "inode" /\ f.r \in Slots) \/ (k = "maybe" /\ f.r \in Slots \cup {NoSlot})
    BY <1>1, <1>2, <1>4, <2>1 DEF Frame, FrameFits, Fields, TopOK
  <2> QED BY <1>1, <1>3, <2>1, <2>2, <2>3, ReturnsInode
<1>9. StackStep(p)
  BY <1>2, <1>4 DEF namei_done
<1> QED BY <1>1, <1>3, <1>9, PlainStep

LEMMA dropStep ==
    ASSUME RefInv, NEW p \in Procs, MayRun(p), UNCHANGED fd, drop(p)
    PROVE  StepOK(p)
<1> USE DEF TakesInode, TakesMaybe, TakesEmpty, TakesEntry, Takes, Puts, GivesInode, GivesMaybe, GivesEntry, Gives, Borrows, OwnsS, HasS, HasDirInode, HasDir, HasInode, HasArg, Opens, Plain
<1>1. PICK f, t, k, d : Runs(p, f, t, k, d) /\ Frame(f, t, k, d)
  BY Running
<1>2. f = Top(p) /\ f.pc = "drop"
  BY <1>1 DEF Runs, drop, At
<1>10. TableStep(p) /\ SameCounts
  <2>1. PICK e, i, j : e = f.inode /\ i = table[e] /\ j = [i EXCEPT !.nlinks = 0]
    OBVIOUS
  <2>3. e \in Slots /\ TableOK
    BY <1>1, <1>2, <2>1 DEF Runs, Frame, FrameFits, Fields, TopOK
  <2>2. table' = [table EXCEPT ![e] = j] /\ imap' = imap /\ race \subseteq race'
    BY <1>2, <2>1, <2>3 DEF drop
  <2>4. Own(f, e) >= 1
    BY <1>1, <1>2, <2>1, <2>3 DEF Frame, FrameFits, Fields, TopOK, Own, Owns, Waits
  <2>5. Has(p, e) /\ Mine(p, e) >= 1
    BY <1>1, <2>4, HasTop
  <2>6. IsInode(i) /\ DOMAIN i = InodeFields
    BY <2>1, <2>3 DEF TableOK, IsInode
  <2>7. /\ DOMAIN j = InodeFields /\ j = [x \in InodeFields |-> j[x]]
        /\ j.num = i.num /\ j.count = i.count /\ j.lock = i.lock
    BY <2>1, <2>6 DEF InodeFields
  <2>8. j.dirt \in {i.dirt, TRUE}
    BY <2>1, <2>6 DEF InodeFields
  <2>9. IsInode(j)
    BY <2>6, <2>7, <2>8, InodeSame
  <2> QED BY <2>1, <2>2, <2>3, <2>5, <2>7, <2>9, TouchOne
<1>3. TableStep(p) /\ SameCounts /\ UNCHANGED panic
  BY <1>10 DEF drop
<1>4. ASSUME Becomes(p, <<Iput(f.inode, 0)>>) PROVE StackStep(p)
  <2>1. PICK g : g = Iput(f.inode, 0)
    OBVIOUS
  <2>2. Becomes(p, <<g>>)
    BY <1>4, <2>1
  <2>3. FrameFits(g, k, Owning(t, g.s), d) /\ g.pc # "iput_free" /\ Takes(g.pc) = "other"
    BY <1>1, <1>2, <1>4, <2>1 DEF Frame, FrameFits, Fields, TopOK, Iput, F, With
  <2>4. \A s \in Slots : Owns(g, s) = Own(f, s)
    BY <1>1, <1>2, <1>4, <2>1 DEF Frame, FrameFits, Fields, TopOK, Own, Owns, Waits, Iput, F, With
  <2> QED BY <1>1, <1>3, <2>2, <2>3, <2>4, Become1
<1>9. StackStep(p)
  BY <1>2, <1>4 DEF drop
<1> QED BY <1>1, <1>3, <1>9, PlainStep

LEMMA link_doneStep ==
    ASSUME RefInv, NEW p \in Procs, MayRun(p), UNCHANGED fd, link_done(p)
    PROVE  StepOK(p)
<1> USE DEF TakesInode, TakesMaybe, TakesEmpty, TakesEntry, Takes, Puts, GivesInode, GivesMaybe, GivesEntry, Gives, Borrows, OwnsS, HasS, HasDirInode, HasDir, HasInode, HasArg, Opens, Plain
<1>1. PICK f, t, k, d : Runs(p, f, t, k, d) /\ Frame(f, t, k, d)
  BY Running
<1>2. f = Top(p) /\ f.pc = "link_done"
  BY <1>1 DEF Runs, link_done, At
<1>10. TableStep(p) /\ SameCounts
  <2>1. PICK e, i, j : e = f.inode /\ i = table[e] /\ j = [i EXCEPT !.nlinks = Byte(@ + 1), !.dirt = TRUE]
    OBVIOUS
  <2>3. e \in Slots /\ TableOK
    BY <1>1, <1>2, <2>1 DEF Runs, Frame, FrameFits, Fields, TopOK
  <2>2. table' = [table EXCEPT ![e] = j] /\ imap' = imap /\ race \subseteq race'
    BY <1>2, <2>1, <2>3 DEF link_done
  <2>4. Own(f, e) >= 1
    BY <1>1, <1>2, <2>1, <2>3 DEF Frame, FrameFits, Fields, TopOK, Own, Owns, Waits
  <2>5. Has(p, e) /\ Mine(p, e) >= 1
    BY <1>1, <2>4, HasTop
  <2>6. IsInode(i) /\ DOMAIN i = InodeFields
    BY <2>1, <2>3 DEF TableOK, IsInode
  <2>7. /\ DOMAIN j = InodeFields /\ j = [x \in InodeFields |-> j[x]]
        /\ j.num = i.num /\ j.count = i.count /\ j.lock = i.lock
    BY <2>1, <2>6 DEF InodeFields
  <2>8. j.dirt \in {i.dirt, TRUE}
    BY <2>1, <2>6 DEF InodeFields
  <2>9. IsInode(j)
    BY <2>6, <2>7, <2>8, InodeSame
  <2> QED BY <2>1, <2>2, <2>3, <2>5, <2>7, <2>9, TouchOne
<1>3. TableStep(p) /\ SameCounts /\ UNCHANGED panic
  BY <1>10 DEF link_done
<1>4. ASSUME Becomes(p, <<Iput(f.inode, 0)>>) PROVE StackStep(p)
  <2>1. PICK g : g = Iput(f.inode, 0)
    OBVIOUS
  <2>2. Becomes(p, <<g>>)
    BY <1>4, <2>1
  <2>3. FrameFits(g, k, Owning(t, g.s), d) /\ g.pc # "iput_free" /\ Takes(g.pc) = "other"
    BY <1>1, <1>2, <1>4, <2>1 DEF Frame, FrameFits, Fields, TopOK, Iput, F, With
  <2>4. \A s \in Slots : Owns(g, s) = Own(f, s)
    BY <1>1, <1>2, <1>4, <2>1 DEF Frame, FrameFits, Fields, TopOK, Own, Owns, Waits, Iput, F, With
  <2> QED BY <1>1, <1>3, <2>2, <2>3, <2>4, Become1
<1>9. StackStep(p)
  BY <1>2, <1>4 DEF link_done
<1> QED BY <1>1, <1>3, <1>9, PlainStep

LEMMA file_writtenStep ==
    ASSUME RefInv, NEW p \in Procs, MayRun(p), UNCHANGED fd, file_written(p)
    PROVE  StepOK(p)
<1> USE DEF TakesInode, TakesMaybe, TakesEmpty, TakesEntry, Takes, Puts, GivesInode, GivesMaybe, GivesEntry, Gives, Borrows, OwnsS, HasS, HasDirInode, HasDir, HasInode, HasArg, Opens, Plain
<1>1. PICK f, t, k, d : Runs(p, f, t, k, d) /\ Frame(f, t, k, d)
  BY Running
<1>2. f = Top(p) /\ f.pc = "file_written"
  BY <1>1 DEF Runs, file_written, At
<1>8. f.b < table[f.s].size => TableStep(p) /\ SameCounts
  BY <1>1, <1>2, SameTable DEF Runs, file_written
<1>7. ASSUME ~(f.b < table[f.s].size) PROVE TableStep(p) /\ SameCounts
  <2>1. PICK e, i, j : e = f.s /\ i = table[e] /\ j = [i EXCEPT !.size = f.b + 1, !.dirt = TRUE]
    OBVIOUS
  <2>3. e \in Slots /\ TableOK
    BY <1>1, <1>2, <1>7, <2>1 DEF Runs, Frame, FrameFits, Fields, TopOK
  <2>2. table' = [table EXCEPT ![e] = j] /\ imap' = imap /\ race \subseteq race'
    BY <1>2, <1>7, <2>1, <2>3 DEF file_written
  <2>4. Mine(p, e) >= 1
    BY <1>1, <1>2, <2>1, Borrowed
  <2>6. IsInode(i) /\ DOMAIN i = InodeFields
    BY <2>1, <2>3 DEF TableOK, IsInode
  <2>7. /\ DOMAIN j = InodeFields /\ j = [x \in InodeFields |-> j[x]]
        /\ j.num = i.num /\ j.count = i.count /\ j.lock = i.lock /\ j.nlinks = i.nlinks
    BY <2>1, <2>6 DEF InodeFields
  <2>8. j.dirt \in {i.dirt, TRUE}
    BY <2>1, <2>6 DEF InodeFields
  <2>9. IsInode(j)
    BY <2>6, <2>7, <2>8, InodeSame
  <2> QED BY <2>1, <2>2, <2>3, <2>4, <2>7, <2>9, TouchOne, ZenonT(40)
<1>3. TableStep(p) /\ SameCounts /\ UNCHANGED panic
  BY <1>7, <1>8 DEF file_written
<1>4. ASSUME Return(p, 0) PROVE StackStep(p)
  <2>1. Return(p, 0)
    BY <1>4
  <2>2. \A s \in Slots : Own(f, s) = 0
    BY <1>2, OwnNat DEF Own, Owns, Waits
  <2>3. k \in Plain
    BY <1>1, <1>2, <1>4, <2>1 DEF Frame, FrameFits
  <2> QED BY <1>1, <1>3, <2>1, <2>2, <2>3, ReturnsPlain
<1>9. StackStep(p)
  BY <1>2, <1>4 DEF file_written
<1> QED BY <1>1, <1>3, <1>9, PlainStep

LEMMA truncate_doneStep ==
    ASSUME RefInv, NEW p \in Procs, MayRun(p), UNCHANGED fd, truncate_done(p)
    PROVE  StepOK(p)
<1> USE DEF TakesInode, TakesMaybe, TakesEmpty, TakesEntry, Takes, Puts, GivesInode, GivesMaybe, GivesEntry, Gives, Borrows, OwnsS, HasS, HasDirInode, HasDir, HasInode, HasArg, Opens, Plain
<1>1. PICK f, t, k, d : Runs(p, f, t, k, d) /\ Frame(f, t, k, d)
  BY Running
<1>2. f = Top(p) /\ f.pc = "free_ind"
  BY <1>1 DEF Runs, truncate_done, At
<1>10. TableStep(p) /\ SameCounts
  <2>1. PICK e, i, j : e = f.s /\ i = table[e] /\ j = [i EXCEPT !.zone[DIRECT] = 0, !.zone[DIRECT + 1] = 0, !.size = 0, !.dirt = TRUE]
    OBVIOUS
  <2>3. e \in Slots /\ TableOK
    BY <1>1, <1>2, <2>1 DEF Runs, Frame, FrameFits, Fields, TopOK
  <2>2. table' = [table EXCEPT ![e] = j] /\ imap' = imap /\ race \subseteq race'
    BY <1>2, <2>1, <2>3, ZenonT(40) DEF truncate_done
  <2>4. Mine(p, e) >= 1
    BY <1>1, <1>2, <2>1, Borrowed
  <2>6. IsInode(i) /\ DOMAIN i = InodeFields
    BY <2>1, <2>3 DEF TableOK, IsInode
  <2>7. /\ DOMAIN j = InodeFields /\ j = [x \in InodeFields |-> j[x]]
        /\ j.num = i.num /\ j.count = i.count /\ j.lock = i.lock /\ j.nlinks = i.nlinks
    BY <2>1, <2>6 DEF InodeFields
  <2>8. j.dirt \in {i.dirt, TRUE}
    BY <2>1, <2>6 DEF InodeFields
  <2>9. IsInode(j)
    BY <2>6, <2>7, <2>8, InodeSame
  <2> QED BY <2>1, <2>2, <2>3, <2>4, <2>7, <2>9, TouchOne, ZenonT(40)
<1>3. TableStep(p) /\ SameCounts /\ UNCHANGED panic
  BY <1>10 DEF truncate_done
<1>4. ASSUME Return(p, 0) PROVE StackStep(p)
  <2>1. Return(p, 0)
    BY <1>4
  <2>2. \A s \in Slots : Own(f, s) = 0
    BY <1>2, OwnNat DEF Own, Owns, Waits
  <2>3. k \in Plain
    BY <1>1, <1>2, <1>4, <2>1 DEF Frame, FrameFits
  <2> QED BY <1>1, <1>3, <2>1, <2>2, <2>3, ReturnsPlain
<1>9. StackStep(p)
  BY <1>2, <1>4 DEF truncate_done
<1> QED BY <1>1, <1>3, <1>9, PlainStep

LEMMA mkdir_fillStep ==
    ASSUME RefInv, NEW p \in Procs, MayRun(p), UNCHANGED fd, mkdir_fill(p)
    PROVE  StepOK(p)
<1> USE DEF TakesInode, TakesMaybe, TakesEmpty, TakesEntry, Takes, Puts, GivesInode, GivesMaybe, GivesEntry, Gives, Borrows, OwnsS, HasS, HasDirInode, HasDir, HasInode, HasArg, Opens, Plain
<1>1. PICK f, t, k, d : Runs(p, f, t, k, d) /\ Frame(f, t, k, d)
  BY Running
<1>2. f = Top(p) /\ f.pc = "mkdir_fill"
  BY <1>1 DEF Runs, mkdir_fill, At
<1>10. TableStep(p) /\ SameCounts
  <2>1. PICK e, i, j : e = f.inode /\ i = table[e] /\ j = [i EXCEPT !.nlinks = 2, !.mode = "dir", !.dirt = TRUE]
    OBVIOUS
  <2>3. e \in Slots /\ TableOK
    BY <1>1, <1>2, <2>1 DEF Runs, Frame, FrameFits, Fields, TopOK
  <2>2. table' = [table EXCEPT ![e] = j] /\ imap' = imap /\ race \subseteq race'
    BY <1>2, <2>1, <2>3 DEF mkdir_fill
  <2>4. Own(f, e) >= 1
    BY <1>1, <1>2, <2>1, <2>3 DEF Frame, FrameFits, Fields, TopOK, Own, Owns, Waits
  <2>5. Has(p, e) /\ Mine(p, e) >= 1
    BY <1>1, <2>4, HasTop
  <2>6. IsInode(i) /\ DOMAIN i = InodeFields
    BY <2>1, <2>3 DEF TableOK, IsInode
  <2>7. /\ DOMAIN j = InodeFields /\ j = [x \in InodeFields |-> j[x]]
        /\ j.num = i.num /\ j.count = i.count /\ j.lock = i.lock
    BY <2>1, <2>6 DEF InodeFields
  <2>8. j.dirt \in {i.dirt, TRUE}
    BY <2>1, <2>6 DEF InodeFields
  <2>9. IsInode(j)
    BY <2>6, <2>7, <2>8, InodeSame
  <2> QED BY <2>1, <2>2, <2>3, <2>5, <2>7, <2>9, TouchOne
<1>3. TableStep(p) /\ SameCounts /\ UNCHANGED panic
  BY <1>10 DEF mkdir_fill
<1>4. ASSUME Becomes(p, <<Add(f.dir, f.name), F("mkdir_add", [dir |-> f.dir, inode |-> f.inode])>>) PROVE StackStep(p)
  <2>1. PICK g, h : g = Add(f.dir, f.name) /\ h = F("mkdir_add", [dir |-> f.dir, inode |-> f.inode])
    OBVIOUS
  <2>2. Becomes(p, <<g, h>>)
    BY <1>4, <2>1
  <2>3. \A s : Owning(t, s) \in Nat
    BY <1>1, BelowNat
  <2>4. FrameFits(h, k, Owning(t, h.s), d) /\ h.pc # "iput_free"
    BY <1>1, <1>2, <1>4, <2>1 DEF Frame, FrameFits, Fields, TopOK, Add, F, With
  <2>5. FrameFits(g, Takes(h.pc), Owning(t, g.s) + Owns(h, g.s), d) /\ g.pc # "iput_free" /\ Takes(g.pc) = "other"
    BY <1>1, <1>2, <1>4, <2>1, <2>3 DEF Frame, FrameFits, Fields, TopOK, Add, F, With, Owns
  <2>6. \A s \in Slots : Owns(h, s) + Owns(g, s) = Own(f, s)
    BY <1>1, <1>2, <1>4, <2>1 DEF Frame, FrameFits, Fields, TopOK, Own, Owns, Waits, Add, F, With
  <2> QED BY <1>1, <1>3, <2>2, <2>4, <2>5, <2>6, Become2
<1>9. StackStep(p)
  BY <1>2, <1>4 DEF mkdir_fill
<1> QED BY <1>1, <1>3, <1>9, PlainStep

LEMMA mknodStep ==
    ASSUME RefInv, NEW p \in Procs, MayRun(p), UNCHANGED fd, mknod(p)
    PROVE  StepOK(p)
<1> USE DEF TakesInode, TakesMaybe, TakesEmpty, TakesEntry, Takes, Puts, GivesInode, GivesMaybe, GivesEntry, Gives, Borrows, OwnsS, HasS, HasDirInode, HasDir, HasInode, HasArg, Opens, Plain
<1>1. PICK f, t, k, d : Runs(p, f, t, k, d) /\ Frame(f, t, k, d)
  BY Running
<1>2. f = Top(p) /\ f.pc = "mknod"
  BY <1>1 DEF Runs, mknod, At
<1>10. f.r = NoSlot => TableStep(p) /\ SameCounts
  BY <1>1, <1>2, SameTable DEF Runs, mknod
<1>11. ASSUME ~(f.r = NoSlot) PROVE TableStep(p) /\ SameCounts
  <2>1. PICK e, i, j : e = f.r /\ i = table[e] /\ j = [i EXCEPT !.mode = f.arg, !.dirt = TRUE, !.zone[0] = IF f.arg \in {"chr", "blk"} THEN 1 ELSE 0]
    OBVIOUS
  <2>3. e \in Slots /\ TableOK
    BY <1>1, <1>2, <1>11, <2>1 DEF Runs, Frame, FrameFits, Fields, TopOK
  <2>2. table' = [table EXCEPT ![e] = j] /\ imap' = imap /\ race \subseteq race'
    BY <1>2, <1>11, <2>1, <2>3, ZenonT(40) DEF mknod
  <2>4. Own(f, e) >= 1
    BY <1>1, <1>2, <1>11, <2>1, <2>3 DEF Frame, FrameFits, Fields, TopOK, Own, Owns, Waits
  <2>5. Has(p, e) /\ Mine(p, e) >= 1
    BY <1>1, <2>4, HasTop
  <2>6. IsInode(i) /\ DOMAIN i = InodeFields
    BY <2>1, <2>3 DEF TableOK, IsInode
  <2>7. /\ DOMAIN j = InodeFields /\ j = [x \in InodeFields |-> j[x]]
        /\ j.num = i.num /\ j.count = i.count /\ j.lock = i.lock
    BY <2>1, <2>6 DEF InodeFields
  <2>8. j.dirt \in {i.dirt, TRUE}
    BY <2>1, <2>6 DEF InodeFields
  <2>9. IsInode(j)
    BY <2>6, <2>7, <2>8, InodeSame
  <2> QED BY <2>1, <2>2, <2>3, <2>5, <2>7, <2>9, TouchOne
<1>3. TableStep(p) /\ SameCounts /\ UNCHANGED panic
  BY <1>10, <1>11 DEF mknod
<1>4. ASSUME f.r = NoSlot, Becomes(p, <<Iput(f.dir, 0)>>) PROVE StackStep(p)
  <2>1. PICK g : g = Iput(f.dir, 0)
    OBVIOUS
  <2>2. Becomes(p, <<g>>)
    BY <1>4, InodeAssumption, <2>1
  <2>3. FrameFits(g, k, Owning(t, g.s), d) /\ g.pc # "iput_free" /\ Takes(g.pc) = "other"
    BY <1>1, <1>2, <1>4, InodeAssumption, <2>1 DEF Frame, FrameFits, Fields, TopOK, Iput, F, With
  <2>4. \A s \in Slots : Owns(g, s) = Own(f, s)
    BY <1>1, <1>2, <1>4, InodeAssumption, <2>1 DEF Frame, FrameFits, Fields, TopOK, Own, Owns, Waits, Iput, F, With
  <2> QED BY <1>1, <1>3, <2>2, <2>3, <2>4, Become1
<1>5. ASSUME f.r # NoSlot, Becomes(p, <<Add(f.dir, f.name), F("mknod_add", [dir |-> f.dir, inode |-> f.r])>>) PROVE StackStep(p)
  <2>1. PICK g, h : g = Add(f.dir, f.name) /\ h = F("mknod_add", [dir |-> f.dir, inode |-> f.r])
    OBVIOUS
  <2>2. Becomes(p, <<g, h>>)
    BY <1>5, <2>1
  <2>3. \A s : Owning(t, s) \in Nat
    BY <1>1, BelowNat
  <2>4. FrameFits(h, k, Owning(t, h.s), d) /\ h.pc # "iput_free"
    BY <1>1, <1>2, <1>5, <2>1 DEF Frame, FrameFits, Fields, TopOK, Add, F, With
  <2>5. FrameFits(g, Takes(h.pc), Owning(t, g.s) + Owns(h, g.s), d) /\ g.pc # "iput_free" /\ Takes(g.pc) = "other"
    BY <1>1, <1>2, <1>5, <2>1, <2>3 DEF Frame, FrameFits, Fields, TopOK, Add, F, With, Owns
  <2>6. \A s \in Slots : Owns(h, s) + Owns(g, s) = Own(f, s)
    BY <1>1, <1>2, <1>5, <2>1 DEF Frame, FrameFits, Fields, TopOK, Own, Owns, Waits, Add, F, With
  <2> QED BY <1>1, <1>3, <2>2, <2>4, <2>5, <2>6, Become2
<1>9. StackStep(p)
  BY <1>2, <1>4, <1>5 DEF mknod
<1> QED BY <1>1, <1>3, <1>9, PlainStep

LEMMA mkdirStep ==
    ASSUME RefInv, NEW p \in Procs, MayRun(p), UNCHANGED fd, mkdir(p)
    PROVE  StepOK(p)
<1> USE DEF TakesInode, TakesMaybe, TakesEmpty, TakesEntry, Takes, Puts, GivesInode, GivesMaybe, GivesEntry, Gives, Borrows, OwnsS, HasS, HasDirInode, HasDir, HasInode, HasArg, Opens, Plain
<1>1. PICK f, t, k, d : Runs(p, f, t, k, d) /\ Frame(f, t, k, d)
  BY Running
<1>2. f = Top(p) /\ f.pc = "mkdir"
  BY <1>1 DEF Runs, mkdir, At
<1>10. f.r = NoSlot => TableStep(p) /\ SameCounts
  BY <1>1, <1>2, SameTable DEF Runs, mkdir
<1>11. ASSUME ~(f.r = NoSlot) PROVE TableStep(p) /\ SameCounts
  <2>1. PICK e, i, j : e = f.r /\ i = table[e] /\ j = [i EXCEPT !.size = 2]
    OBVIOUS
  <2>3. e \in Slots /\ TableOK
    BY <1>1, <1>2, <1>11, <2>1 DEF Runs, Frame, FrameFits, Fields, TopOK
  <2>2. table' = [table EXCEPT ![e] = j] /\ imap' = imap /\ race \subseteq race'
    BY <1>2, <1>11, <2>1, <2>3 DEF mkdir
  <2>4. Own(f, e) >= 1
    BY <1>1, <1>2, <1>11, <2>1, <2>3 DEF Frame, FrameFits, Fields, TopOK, Own, Owns, Waits
  <2>5. Has(p, e) /\ Mine(p, e) >= 1
    BY <1>1, <2>4, HasTop
  <2>6. IsInode(i) /\ DOMAIN i = InodeFields
    BY <2>1, <2>3 DEF TableOK, IsInode
  <2>7. /\ DOMAIN j = InodeFields /\ j = [x \in InodeFields |-> j[x]]
        /\ j.num = i.num /\ j.count = i.count /\ j.lock = i.lock
    BY <2>1, <2>6 DEF InodeFields
  <2>8. j.dirt \in {i.dirt, TRUE}
    BY <2>1, <2>6 DEF InodeFields
  <2>9. IsInode(j)
    BY <2>6, <2>7, <2>8, InodeSame
  <2> QED BY <2>1, <2>2, <2>3, <2>5, <2>7, <2>9, TouchOne
<1>3. TableStep(p) /\ SameCounts /\ UNCHANGED panic
  BY <1>10, <1>11 DEF mkdir
<1>4. ASSUME f.r = NoSlot, Becomes(p, <<Iput(f.dir, 0)>>) PROVE StackStep(p)
  <2>1. PICK g : g = Iput(f.dir, 0)
    OBVIOUS
  <2>2. Becomes(p, <<g>>)
    BY <1>4, InodeAssumption, <2>1
  <2>3. FrameFits(g, k, Owning(t, g.s), d) /\ g.pc # "iput_free" /\ Takes(g.pc) = "other"
    BY <1>1, <1>2, <1>4, InodeAssumption, <2>1 DEF Frame, FrameFits, Fields, TopOK, Iput, F, With
  <2>4. \A s \in Slots : Owns(g, s) = Own(f, s)
    BY <1>1, <1>2, <1>4, InodeAssumption, <2>1 DEF Frame, FrameFits, Fields, TopOK, Own, Owns, Waits, Iput, F, With
  <2> QED BY <1>1, <1>3, <2>2, <2>3, <2>4, Become1
<1>5. ASSUME f.r # NoSlot, Becomes(p, <<F("new_block", <<>>), With([inode |-> f.r], [f EXCEPT !.pc = "mkdir_block"])>>) PROVE StackStep(p)
  <2>1. PICK g, h : g = F("new_block", <<>>) /\ h = With([inode |-> f.r], [f EXCEPT !.pc = "mkdir_block"])
    OBVIOUS
  <2>2. Becomes(p, <<g, h>>)
    BY <1>5, <2>1
  <2>3. FrameFits(h, k, Owning(t, h.s), d) /\ h.pc # "iput_free"
    BY <1>1, <1>2, <1>5, <2>1 DEF Frame, FrameFits, Fields, TopOK, F, With
  <2>4. FrameFits(g, Takes(h.pc), Owning(t, g.s) + Owns(h, g.s), d) /\ g.pc # "iput_free" /\ Takes(g.pc) = "other"
    BY <1>1, <1>2, <1>5, <2>1 DEF Frame, FrameFits, Fields, TopOK, F, With
  <2>5. \A s \in Slots : Owns(h, s) + Owns(g, s) = Own(f, s)
    BY <1>1, <1>2, <1>5, <2>1 DEF Frame, FrameFits, Fields, TopOK, Own, Owns, Waits, F, With
  <2> QED BY <1>1, <1>3, <2>2, <2>3, <2>4, <2>5, Become2
<1>9. StackStep(p)
  BY <1>2, <1>4, <1>5 DEF mkdir
<1> QED BY <1>1, <1>3, <1>9, PlainStep

LEMMA open_newStep ==
    ASSUME RefInv, NEW p \in Procs, MayRun(p), UNCHANGED fd, open_new(p)
    PROVE  StepOK(p)
<1> USE DEF TakesInode, TakesMaybe, TakesEmpty, TakesEntry, Takes, Puts, GivesInode, GivesMaybe, GivesEntry, Gives, Borrows, OwnsS, HasS, HasDirInode, HasDir, HasInode, HasArg, Opens, Plain
<1>1. PICK f, t, k, d : Runs(p, f, t, k, d) /\ Frame(f, t, k, d)
  BY Running
<1>2. f = Top(p) /\ f.pc = "open_new"
  BY <1>1 DEF Runs, open_new, At
<1>10. f.r = NoSlot => TableStep(p) /\ SameCounts
  BY <1>1, <1>2, SameTable DEF Runs, open_new
<1>11. ASSUME ~(f.r = NoSlot) PROVE TableStep(p) /\ SameCounts
  <2>1. PICK e, i, j : e = f.r /\ i = table[e] /\ j = [i EXCEPT !.mode = "reg", !.dirt = TRUE]
    OBVIOUS
  <2>3. e \in Slots /\ TableOK
    BY <1>1, <1>2, <1>11, <2>1 DEF Runs, Frame, FrameFits, Fields, TopOK
  <2>2. table' = [table EXCEPT ![e] = j] /\ imap' = imap /\ race \subseteq race'
    BY <1>2, <1>11, <2>1, <2>3 DEF open_new
  <2>4. Own(f, e) >= 1
    BY <1>1, <1>2, <1>11, <2>1, <2>3 DEF Frame, FrameFits, Fields, TopOK, Own, Owns, Waits
  <2>5. Has(p, e) /\ Mine(p, e) >= 1
    BY <1>1, <2>4, HasTop
  <2>6. IsInode(i) /\ DOMAIN i = InodeFields
    BY <2>1, <2>3 DEF TableOK, IsInode
  <2>7. /\ DOMAIN j = InodeFields /\ j = [x \in InodeFields |-> j[x]]
        /\ j.num = i.num /\ j.count = i.count /\ j.lock = i.lock
    BY <2>1, <2>6 DEF InodeFields
  <2>8. j.dirt \in {i.dirt, TRUE}
    BY <2>1, <2>6 DEF InodeFields
  <2>9. IsInode(j)
    BY <2>6, <2>7, <2>8, InodeSame
  <2> QED BY <2>1, <2>2, <2>3, <2>5, <2>7, <2>9, TouchOne
<1>3. TableStep(p) /\ SameCounts /\ UNCHANGED panic
  BY <1>10, <1>11 DEF open_new
<1>4. ASSUME f.r = NoSlot, Becomes(p, <<Iput(f.dir, 0)>>) PROVE StackStep(p)
  <2>1. PICK g : g = Iput(f.dir, 0)
    OBVIOUS
  <2>2. Becomes(p, <<g>>)
    BY <1>4, InodeAssumption, <2>1
  <2>3. FrameFits(g, k, Owning(t, g.s), d) /\ g.pc # "iput_free" /\ Takes(g.pc) = "other"
    BY <1>1, <1>2, <1>4, InodeAssumption, <2>1 DEF Frame, FrameFits, Fields, TopOK, Iput, F, With
  <2>4. \A s \in Slots : Owns(g, s) = Own(f, s)
    BY <1>1, <1>2, <1>4, InodeAssumption, <2>1 DEF Frame, FrameFits, Fields, TopOK, Own, Owns, Waits, Iput, F, With
  <2> QED BY <1>1, <1>3, <2>2, <2>3, <2>4, Become1
<1>5. ASSUME f.r # NoSlot, Becomes(p, <<Add(f.dir, f.name), F("open_add", [dir |-> f.dir, inode |-> f.r])>>) PROVE StackStep(p)
  <2>1. PICK g, h : g = Add(f.dir, f.name) /\ h = F("open_add", [dir |-> f.dir, inode |-> f.r])
    OBVIOUS
  <2>2. Becomes(p, <<g, h>>)
    BY <1>5, <2>1
  <2>3. \A s : Owning(t, s) \in Nat
    BY <1>1, BelowNat
  <2>4. FrameFits(h, k, Owning(t, h.s), d) /\ h.pc # "iput_free"
    BY <1>1, <1>2, <1>5, <2>1 DEF Frame, FrameFits, Fields, TopOK, Add, F, With
  <2>5. FrameFits(g, Takes(h.pc), Owning(t, g.s) + Owns(h, g.s), d) /\ g.pc # "iput_free" /\ Takes(g.pc) = "other"
    BY <1>1, <1>2, <1>5, <2>1, <2>3 DEF Frame, FrameFits, Fields, TopOK, Add, F, With, Owns
  <2>6. \A s \in Slots : Owns(h, s) + Owns(g, s) = Own(f, s)
    BY <1>1, <1>2, <1>5, <2>1 DEF Frame, FrameFits, Fields, TopOK, Own, Owns, Waits, Add, F, With
  <2> QED BY <1>1, <1>3, <2>2, <2>4, <2>5, <2>6, Become2
<1>9. StackStep(p)
  BY <1>2, <1>4, <1>5 DEF open_new
<1> QED BY <1>1, <1>3, <1>9, PlainStep

LEMMA mkdir_blockStep ==
    ASSUME RefInv, NEW p \in Procs, MayRun(p), UNCHANGED fd, mkdir_block(p)
    PROVE  StepOK(p)
<1> USE DEF TakesInode, TakesMaybe, TakesEmpty, TakesEntry, Takes, Puts, GivesInode, GivesMaybe, GivesEntry, Gives, Borrows, OwnsS, HasS, HasDirInode, HasDir, HasInode, HasArg, Opens, Plain
<1>1. PICK f, t, k, d : Runs(p, f, t, k, d) /\ Frame(f, t, k, d)
  BY Running
<1>2. f = Top(p) /\ f.pc = "mkdir_block"
  BY <1>1 DEF Runs, mkdir_block, At
<1>10. f.r = 0 => TableStep(p) /\ SameCounts
  BY <1>1, <1>2, SameTable DEF Runs, mkdir_block
<1>11. ASSUME ~(f.r = 0) PROVE TableStep(p) /\ SameCounts
  <2>1. PICK e, i, j : e = f.inode /\ i = table[e] /\ j = [i EXCEPT !.zone[0] = f.r, !.dirt = TRUE]
    OBVIOUS
  <2>3. e \in Slots /\ TableOK
    BY <1>1, <1>2, <1>11, <2>1 DEF Runs, Frame, FrameFits, Fields, TopOK
  <2>2. table' = [table EXCEPT ![e] = j] /\ imap' = imap /\ race \subseteq race'
    BY <1>2, <1>11, <2>1, <2>3 DEF mkdir_block
  <2>4. Own(f, e) >= 1
    BY <1>1, <1>2, <1>11, <2>1, <2>3 DEF Frame, FrameFits, Fields, TopOK, Own, Owns, Waits
  <2>5. Has(p, e) /\ Mine(p, e) >= 1
    BY <1>1, <2>4, HasTop
  <2>6. IsInode(i) /\ DOMAIN i = InodeFields
    BY <2>1, <2>3 DEF TableOK, IsInode
  <2>7. /\ DOMAIN j = InodeFields /\ j = [x \in InodeFields |-> j[x]]
        /\ j.num = i.num /\ j.count = i.count /\ j.lock = i.lock
    BY <2>1, <2>6 DEF InodeFields
  <2>8. j.dirt \in {i.dirt, TRUE}
    BY <2>1, <2>6 DEF InodeFields
  <2>9. IsInode(j)
    BY <2>6, <2>7, <2>8, InodeSame
  <2> QED BY <2>1, <2>2, <2>3, <2>5, <2>7, <2>9, TouchOne
<1>3. TableStep(p) /\ SameCounts /\ UNCHANGED panic
  BY <1>10, <1>11 DEF mkdir_block
<1>4. ASSUME Becomes(p, <<Iput(f.dir, 0), F("drop", [inode |-> f.inode])>>) PROVE StackStep(p)
  <2>1. PICK g, h : g = Iput(f.dir, 0) /\ h = F("drop", [inode |-> f.inode])
    OBVIOUS
  <2>2. Becomes(p, <<g, h>>)
    BY <1>4, <2>1
  <2>3. FrameFits(h, k, Owning(t, h.s), d) /\ h.pc # "iput_free"
    BY <1>1, <1>2, <1>4, <2>1 DEF Frame, FrameFits, Fields, TopOK, Iput, F, With
  <2>4. FrameFits(g, Takes(h.pc), Owning(t, g.s) + Owns(h, g.s), d) /\ g.pc # "iput_free" /\ Takes(g.pc) = "other"
    BY <1>1, <1>2, <1>4, <2>1 DEF Frame, FrameFits, Fields, TopOK, Iput, F, With
  <2>5. \A s \in Slots : Owns(h, s) + Owns(g, s) = Own(f, s)
    BY <1>1, <1>2, <1>4, <2>1 DEF Frame, FrameFits, Fields, TopOK, Own, Owns, Waits, Iput, F, With
  <2> QED BY <1>1, <1>3, <2>2, <2>3, <2>4, <2>5, Become2
<1>5. ASSUME Becomes(p, <<[f EXCEPT !.pc = "mkdir_fill"]>>) PROVE StackStep(p)
  <2>1. PICK g : g = [f EXCEPT !.pc = "mkdir_fill"]
    OBVIOUS
  <2>2. Becomes(p, <<g>>)
    BY <1>5, <2>1
  <2>3. FrameFits(g, k, Owning(t, g.s), d) /\ g.pc # "iput_free" /\ Takes(g.pc) = "other"
    BY <1>1, <1>2, <1>5, <2>1 DEF Frame, FrameFits, Fields, TopOK, Iput, F, With
  <2>4. \A s \in Slots : Owns(g, s) = Own(f, s)
    BY <1>1, <1>2, <1>5, <2>1 DEF Frame, FrameFits, Fields, TopOK, Own, Owns, Waits, Iput, F, With
  <2> QED BY <1>1, <1>3, <2>2, <2>3, <2>4, Become1
<1>6. ASSUME Becomes(p, MkdirFails(f)) PROVE StackStep(p)
  <2>1. PICK g, h : g = Iput(f.dir, 0) /\ h = F("mkdir_free", [inode |-> f.inode])
    OBVIOUS
  <2>2. Becomes(p, <<g, h>>)
    BY <1>6, <2>1 DEF MkdirFails
  <2>3. FrameFits(h, k, Owning(t, h.s), d) /\ h.pc # "iput_free"
    BY <1>1, <1>2, <1>6, <2>1 DEF Frame, FrameFits, Fields, TopOK, Iput, F, With
  <2>4. FrameFits(g, Takes(h.pc), Owning(t, g.s) + Owns(h, g.s), d) /\ g.pc # "iput_free" /\ Takes(g.pc) = "other"
    BY <1>1, <1>2, <1>6, <2>1 DEF Frame, FrameFits, Fields, TopOK, Iput, F, With
  <2>5. \A s \in Slots : Owns(h, s) + Owns(g, s) = Own(f, s)
    BY <1>1, <1>2, <1>6, <2>1 DEF Frame, FrameFits, Fields, TopOK, Own, Owns, Waits, Iput, F, With
  <2> QED BY <1>1, <1>3, <2>2, <2>3, <2>4, <2>5, Become2
<1>9. StackStep(p)
  BY <1>2, <1>4, <1>5, <1>6 DEF mkdir_block
<1> QED BY <1>1, <1>3, <1>9, PlainStep

LEMMA mkdir_addStep ==
    ASSUME RefInv, NEW p \in Procs, MayRun(p), UNCHANGED fd, mkdir_add(p)
    PROVE  StepOK(p)
<1> USE DEF TakesInode, TakesMaybe, TakesEmpty, TakesEntry, Takes, Puts, GivesInode, GivesMaybe, GivesEntry, Gives, Borrows, OwnsS, HasS, HasDirInode, HasDir, HasInode, HasArg, Opens, Plain
<1>1. PICK f, t, k, d : Runs(p, f, t, k, d) /\ Frame(f, t, k, d)
  BY Running
<1>2. f = Top(p) /\ f.pc = "mkdir_add"
  BY <1>1 DEF Runs, mkdir_add, At
<1>10. f.r = NoEntry => TableStep(p) /\ SameCounts
  BY <1>1, <1>2, SameTable DEF Runs, mkdir_add, Hit, Fill
<1>11. ASSUME ~(f.r = NoEntry) PROVE TableStep(p) /\ SameCounts
  <2>1. PICK e, i, j : e = f.dir /\ i = table[e] /\ j = [i EXCEPT !.nlinks = Byte(@ + 1), !.dirt = TRUE]
    OBVIOUS
  <2>3. e \in Slots /\ TableOK
    BY <1>1, <1>2, <1>11, <2>1 DEF Runs, Frame, FrameFits, Fields, TopOK
  <2>2. table' = [table EXCEPT ![e] = j] /\ imap' = imap /\ race \subseteq race'
    BY <1>2, <1>11, <2>1, <2>3 DEF mkdir_add, Hit, Fill
  <2>4. Own(f, e) >= 1
    BY <1>1, <1>2, <1>11, <2>1, <2>3 DEF Frame, FrameFits, Fields, TopOK, Own, Owns, Waits
  <2>5. Has(p, e) /\ Mine(p, e) >= 1
    BY <1>1, <2>4, HasTop
  <2>6. IsInode(i) /\ DOMAIN i = InodeFields
    BY <2>1, <2>3 DEF TableOK, IsInode
  <2>7. /\ DOMAIN j = InodeFields /\ j = [x \in InodeFields |-> j[x]]
        /\ j.num = i.num /\ j.count = i.count /\ j.lock = i.lock
    BY <2>1, <2>6 DEF InodeFields
  <2>8. j.dirt \in {i.dirt, TRUE}
    BY <2>1, <2>6 DEF InodeFields
  <2>9. IsInode(j)
    BY <2>6, <2>7, <2>8, InodeSame
  <2> QED BY <2>1, <2>2, <2>3, <2>5, <2>7, <2>9, TouchOne
<1>3. TableStep(p) /\ SameCounts /\ UNCHANGED panic
  BY <1>10, <1>11 DEF mkdir_add
<1>4. ASSUME Becomes(p, MkdirFails(f)) PROVE StackStep(p)
  <2>1. PICK g, h : g = Iput(f.dir, 0) /\ h = F("mkdir_free", [inode |-> f.inode])
    OBVIOUS
  <2>2. Becomes(p, <<g, h>>)
    BY <1>4, <2>1 DEF MkdirFails
  <2>3. FrameFits(h, k, Owning(t, h.s), d) /\ h.pc # "iput_free"
    BY <1>1, <1>2, <1>4, <2>1 DEF Frame, FrameFits, Fields, TopOK, Iput, F, With
  <2>4. FrameFits(g, Takes(h.pc), Owning(t, g.s) + Owns(h, g.s), d) /\ g.pc # "iput_free" /\ Takes(g.pc) = "other"
    BY <1>1, <1>2, <1>4, <2>1 DEF Frame, FrameFits, Fields, TopOK, Iput, F, With
  <2>5. \A s \in Slots : Owns(h, s) + Owns(g, s) = Own(f, s)
    BY <1>1, <1>2, <1>4, <2>1 DEF Frame, FrameFits, Fields, TopOK, Own, Owns, Waits, Iput, F, With
  <2> QED BY <1>1, <1>3, <2>2, <2>3, <2>4, <2>5, Become2
<1>5. ASSUME Becomes(p, Hold(Iputs(f.dir, f.inode), f.r)) PROVE StackStep(p)
  <2>1. PICK g, h : g = With(Iput(f.dir, 0), [bh |-> f.r[1]]) /\ h = With(Iput(f.inode, 0), [bh |-> f.r[1]])
    OBVIOUS
  <2>2. Becomes(p, <<g, h>>)
    BY <1>5, <2>1, HoldFrames DEF Iputs
  <2>3. FrameFits(h, k, Owning(t, h.s), d) /\ h.pc # "iput_free"
    BY <1>1, <1>2, <1>5, <2>1 DEF Frame, FrameFits, Fields, TopOK, Iput, F, With
  <2>4. FrameFits(g, Takes(h.pc), Owning(t, g.s) + Owns(h, g.s), d) /\ g.pc # "iput_free" /\ Takes(g.pc) = "other"
    BY <1>1, <1>2, <1>5, <2>1 DEF Frame, FrameFits, Fields, TopOK, Iput, F, With
  <2>5. \A s \in Slots : Owns(h, s) + Owns(g, s) = Own(f, s)
    BY <1>1, <1>2, <1>5, <2>1 DEF Frame, FrameFits, Fields, TopOK, Own, Owns, Waits, Iput, F, With
  <2> QED BY <1>1, <1>3, <2>2, <2>3, <2>4, <2>5, Become2
<1>9. StackStep(p)
  BY <1>2, <1>4, <1>5 DEF mkdir_add
<1> QED BY <1>1, <1>3, <1>9, PlainStep

LEMMA open_addStep ==
    ASSUME RefInv, NEW p \in Procs, MayRun(p), UNCHANGED fd, open_add(p)
    PROVE  StepOK(p)
<1> USE DEF TakesInode, TakesMaybe, TakesEmpty, TakesEntry, Takes, Puts, GivesInode, GivesMaybe, GivesEntry, Gives, Borrows, OwnsS, HasS, HasDirInode, HasDir, HasInode, HasArg, Opens, Plain
<1>1. PICK f, t, k, d : Runs(p, f, t, k, d) /\ Frame(f, t, k, d)
  BY Running
<1>2. f = Top(p) /\ f.pc = "open_add"
  BY <1>1 DEF Runs, open_add, At
<1>10. f.r # NoEntry => TableStep(p) /\ SameCounts
  BY <1>1, <1>2, SameTable DEF Runs, open_add, Fill
<1>11. ASSUME f.r = NoEntry PROVE TableStep(p) /\ SameCounts
  <2>1. PICK e, i, j : e = f.inode /\ i = table[e] /\ j = [i EXCEPT !.nlinks = Byte(@ - 1)]
    OBVIOUS
  <2>3. e \in Slots /\ TableOK
    BY <1>1, <1>2, <1>11, <2>1 DEF Runs, Frame, FrameFits, Fields, TopOK
  <2>2. table' = [table EXCEPT ![e] = j] /\ imap' = imap /\ race \subseteq race'
    BY <1>2, <1>11, <2>1, <2>3 DEF open_add, Fill
  <2>4. Own(f, e) >= 1
    BY <1>1, <1>2, <1>11, <2>1, <2>3 DEF Frame, FrameFits, Fields, TopOK, Own, Owns, Waits
  <2>5. Has(p, e) /\ Mine(p, e) >= 1
    BY <1>1, <2>4, HasTop
  <2>6. IsInode(i) /\ DOMAIN i = InodeFields
    BY <2>1, <2>3 DEF TableOK, IsInode
  <2>7. /\ DOMAIN j = InodeFields /\ j = [x \in InodeFields |-> j[x]]
        /\ j.num = i.num /\ j.count = i.count /\ j.lock = i.lock
    BY <2>1, <2>6 DEF InodeFields
  <2>8. j.dirt \in {i.dirt, TRUE}
    BY <2>1, <2>6 DEF InodeFields
  <2>9. IsInode(j)
    BY <2>6, <2>7, <2>8, InodeSame
  <2> QED BY <2>1, <2>2, <2>3, <2>5, <2>7, <2>9, TouchOne
<1>3. TableStep(p) /\ SameCounts /\ UNCHANGED panic
  BY <1>10, <1>11 DEF open_add
<1>4. ASSUME Becomes(p, Iputs(f.inode, f.dir)) PROVE StackStep(p)
  <2>1. PICK g, h : g = Iput(f.inode, 0) /\ h = Iput(f.dir, 0)
    OBVIOUS
  <2>2. Becomes(p, <<g, h>>)
    BY <1>4, <2>1 DEF Iputs
  <2>3. FrameFits(h, k, Owning(t, h.s), d) /\ h.pc # "iput_free"
    BY <1>1, <1>2, <1>4, <2>1 DEF Frame, FrameFits, Fields, TopOK, Iput, F, With
  <2>4. FrameFits(g, Takes(h.pc), Owning(t, g.s) + Owns(h, g.s), d) /\ g.pc # "iput_free" /\ Takes(g.pc) = "other"
    BY <1>1, <1>2, <1>4, <2>1 DEF Frame, FrameFits, Fields, TopOK, Iput, F, With
  <2>5. \A s \in Slots : Owns(h, s) + Owns(g, s) = Own(f, s)
    BY <1>1, <1>2, <1>4, <2>1 DEF Frame, FrameFits, Fields, TopOK, Own, Owns, Waits, Iput, F, With
  <2> QED BY <1>1, <1>3, <2>2, <2>3, <2>4, <2>5, Become2
<1>5. ASSUME Becomes(p, <<Iput(f.dir, 0), F("open_done", [inode |-> f.inode])>>) PROVE StackStep(p)
  <2>1. PICK g, h : g = Iput(f.dir, 0) /\ h = F("open_done", [inode |-> f.inode])
    OBVIOUS
  <2>2. Becomes(p, <<g, h>>)
    BY <1>5, <2>1
  <2>3. FrameFits(h, k, Owning(t, h.s), d) /\ h.pc # "iput_free"
    BY <1>1, <1>2, <1>5, <2>1 DEF Frame, FrameFits, Fields, TopOK, Iput, F, With
  <2>4. FrameFits(g, Takes(h.pc), Owning(t, g.s) + Owns(h, g.s), d) /\ g.pc # "iput_free" /\ Takes(g.pc) = "other"
    BY <1>1, <1>2, <1>5, <2>1 DEF Frame, FrameFits, Fields, TopOK, Iput, F, With
  <2>5. \A s \in Slots : Owns(h, s) + Owns(g, s) = Own(f, s)
    BY <1>1, <1>2, <1>5, <2>1 DEF Frame, FrameFits, Fields, TopOK, Own, Owns, Waits, Iput, F, With
  <2> QED BY <1>1, <1>3, <2>2, <2>3, <2>4, <2>5, Become2
<1>9. StackStep(p)
  BY <1>2, <1>4, <1>5 DEF open_add
<1> QED BY <1>1, <1>3, <1>9, PlainStep

LEMMA unlinkStep ==
    ASSUME RefInv, NEW p \in Procs, MayRun(p), UNCHANGED fd, unlink(p)
    PROVE  StepOK(p)
<1> USE DEF TakesInode, TakesMaybe, TakesEmpty, TakesEntry, Takes, Puts, GivesInode, GivesMaybe, GivesEntry, Gives, Borrows, OwnsS, HasS, HasDirInode, HasDir, HasInode, HasArg, Opens, Plain
<1>1. PICK f, t, k, d : Runs(p, f, t, k, d) /\ Frame(f, t, k, d)
  BY Running
<1>2. f = Top(p) /\ f.pc = "unlink"
  BY <1>1 DEF Runs, unlink, At
<1>10. table[f.r].mode = "dir" => TableStep(p) /\ SameCounts
  BY <1>1, <1>2, SameTable DEF Runs, unlink, Clear
<1>11. ASSUME ~(table[f.r].mode = "dir") PROVE TableStep(p) /\ SameCounts
  <2>1. PICK e, i, j : e = f.r /\ i = table[e] /\ j = [i EXCEPT !.dirt = TRUE, !.nlinks = IF @ = 0 THEN 0 ELSE @ - 1]
    OBVIOUS
  <2>3. e \in Slots /\ TableOK
    BY <1>1, <1>2, <1>11, <2>1 DEF Runs, Frame, FrameFits, Fields, TopOK
  <2>2. table' = [table EXCEPT ![e] = j] /\ imap' = imap /\ race \subseteq race'
    BY <1>2, <1>11, <2>1, <2>3 DEF unlink, Clear
  <2>4. Own(f, e) >= 1
    BY <1>1, <1>2, <1>11, <2>1, <2>3 DEF Frame, FrameFits, Fields, TopOK, Own, Owns, Waits
  <2>5. Has(p, e) /\ Mine(p, e) >= 1
    BY <1>1, <2>4, HasTop
  <2>6. IsInode(i) /\ DOMAIN i = InodeFields
    BY <2>1, <2>3 DEF TableOK, IsInode
  <2>7. /\ DOMAIN j = InodeFields /\ j = [x \in InodeFields |-> j[x]]
        /\ j.num = i.num /\ j.count = i.count /\ j.lock = i.lock
    BY <2>1, <2>6 DEF InodeFields
  <2>8. j.dirt \in {i.dirt, TRUE}
    BY <2>1, <2>6 DEF InodeFields
  <2>9. IsInode(j)
    BY <2>6, <2>7, <2>8, InodeSame
  <2> QED BY <2>1, <2>2, <2>3, <2>5, <2>7, <2>9, TouchOne, ZenonT(40)
<1>3. TableStep(p) /\ SameCounts /\ UNCHANGED panic
  BY <1>10, <1>11 DEF unlink
<1>4. ASSUME Becomes(p, Hold(Iputs(f.r, f.dir), f.de)) PROVE StackStep(p)
  <2>1. PICK g, h : g = With(Iput(f.r, 0), [bh |-> f.de[1]]) /\ h = With(Iput(f.dir, 0), [bh |-> f.de[1]])
    OBVIOUS
  <2>2. Becomes(p, <<g, h>>)
    BY <1>4, <2>1, HoldFrames DEF Iputs
  <2>3. FrameFits(h, k, Owning(t, h.s), d) /\ h.pc # "iput_free"
    BY <1>1, <1>2, <1>4, <2>1 DEF Frame, FrameFits, Fields, TopOK, Iput, F, With
  <2>4. FrameFits(g, Takes(h.pc), Owning(t, g.s) + Owns(h, g.s), d) /\ g.pc # "iput_free" /\ Takes(g.pc) = "other"
    BY <1>1, <1>2, <1>4, <2>1 DEF Frame, FrameFits, Fields, TopOK, Iput, F, With
  <2>5. \A s \in Slots : Owns(h, s) + Owns(g, s) = Own(f, s)
    BY <1>1, <1>2, <1>4, <2>1 DEF Frame, FrameFits, Fields, TopOK, Own, Owns, Waits, Iput, F, With
  <2> QED BY <1>1, <1>3, <2>2, <2>3, <2>4, <2>5, Become2
<1>5. ASSUME Becomes(p, Iputs(f.r, f.dir)) PROVE StackStep(p)
  <2>1. PICK g, h : g = Iput(f.r, 0) /\ h = Iput(f.dir, 0)
    OBVIOUS
  <2>2. Becomes(p, <<g, h>>)
    BY <1>5, <2>1 DEF Iputs
  <2>3. FrameFits(h, k, Owning(t, h.s), d) /\ h.pc # "iput_free"
    BY <1>1, <1>2, <1>5, <2>1 DEF Frame, FrameFits, Fields, TopOK, Iput, F, With
  <2>4. FrameFits(g, Takes(h.pc), Owning(t, g.s) + Owns(h, g.s), d) /\ g.pc # "iput_free" /\ Takes(g.pc) = "other"
    BY <1>1, <1>2, <1>5, <2>1 DEF Frame, FrameFits, Fields, TopOK, Iput, F, With
  <2>5. \A s \in Slots : Owns(h, s) + Owns(g, s) = Own(f, s)
    BY <1>1, <1>2, <1>5, <2>1 DEF Frame, FrameFits, Fields, TopOK, Own, Owns, Waits, Iput, F, With
  <2> QED BY <1>1, <1>3, <2>2, <2>3, <2>4, <2>5, Become2
<1>9. StackStep(p)
  BY <1>2, <1>4, <1>5 DEF unlink
<1> QED BY <1>1, <1>3, <1>9, PlainStep

LEMMA rmdir_emptyStep ==
    ASSUME RefInv, NEW p \in Procs, MayRun(p), UNCHANGED fd, rmdir_empty(p)
    PROVE  StepOK(p)
<1> USE DEF TakesInode, TakesMaybe, TakesEmpty, TakesEntry, Takes, Puts, GivesInode, GivesMaybe, GivesEntry, Gives, Borrows, OwnsS, HasS, HasDirInode, HasDir, HasInode, HasArg, Opens, Plain
<1>1. PICK f, t, k, d : Runs(p, f, t, k, d) /\ Frame(f, t, k, d)
  BY Running
<1>2. f = Top(p) /\ f.pc = "rmdir_empty"
  BY <1>1 DEF Runs, rmdir_empty, At
<1>10. ~f.r => TableStep(p) /\ SameCounts
  BY <1>1, <1>2, SameTable DEF Runs, rmdir_empty
<1>11. ASSUME f.r PROVE TableStep(p) /\ SameCounts
  <2>1. PICK s, e, i, j, w, u, v : /\ s = f.inode /\ e = f.dir
                               /\ i = table[s] /\ j = [i EXCEPT !.nlinks = 0, !.dirt = TRUE]
                               /\ w = [table EXCEPT ![s] = j] /\ u = w[e]
                               /\ v = [u EXCEPT !.nlinks = Byte(@ - 1), !.dirt = TRUE]
    OBVIOUS
  <2>2. s \in Slots /\ e \in Slots /\ TableOK
    BY <1>1, <1>2, <2>1 DEF Runs, Frame, FrameFits, Fields
  <2>3. Own(f, s) >= 1 /\ Own(f, e) >= 1
    BY <1>1, <1>2, <2>1, <2>2 DEF Frame, FrameFits, Fields, Own, Owns, Waits
  <2>4. Has(p, s) /\ Mine(p, s) >= 1 /\ Has(p, e) /\ Mine(p, e) >= 1
    BY <1>1, <2>3, HasTop
  <2>5. IsInode(i) /\ DOMAIN i = InodeFields
    BY <2>1, <2>2 DEF TableOK, IsInode
  <2>6. /\ DOMAIN j = InodeFields /\ j = [x \in InodeFields |-> j[x]]
        /\ j.num = i.num /\ j.count = i.count /\ j.lock = i.lock /\ j.dirt \in {i.dirt, TRUE}
    BY <2>1, <2>5 DEF InodeFields
  <2>7. IsInode(j)
    BY <2>5, <2>6, InodeSame
  <2>20. w = [x \in Slots |-> w[x]] /\ w[s] = j /\ \A x \in Slots : x # s => w[x] = table[x]
    BY <2>1, <2>2 DEF TableOK
  <2>8. IsInode(u) /\ DOMAIN u = InodeFields
    <3>1. u = j \/ u = table[e]
      BY <2>1, <2>2, <2>20
    <3>2. IsInode(table[e])
      BY <2>2 DEF TableOK
    <3> QED BY <2>7, <3>1, <3>2 DEF IsInode
  <2>9. /\ DOMAIN v = InodeFields /\ v = [x \in InodeFields |-> v[x]]
        /\ v.num = u.num /\ v.count = u.count /\ v.lock = u.lock /\ v.dirt \in {u.dirt, TRUE}
    <3>1. v = [u EXCEPT !.nlinks = Byte(@ - 1), !.dirt = TRUE]
      BY <2>1
    <3> QED BY <2>8, <3>1 DEF InodeFields
  <2>10. IsInode(v)
    BY <2>8, <2>9, InodeSame
  <2>11. table' = [w EXCEPT ![e] = v] /\ imap' = imap /\ race \subseteq race'
    <3>1. [table EXCEPT ![s].nlinks = 0, ![s].dirt = TRUE] = w
      BY <2>1, <2>2 DEF TableOK
    <3>2. table' = [[table EXCEPT ![s].nlinks = 0, ![s].dirt = TRUE] EXCEPT ![e].nlinks = Byte(@ - 1), ![e].dirt = TRUE]
      BY <1>2, <1>11, <2>1 DEF rmdir_empty
    <3>3. table' = [w EXCEPT ![e].nlinks = Byte(@ - 1), ![e].dirt = TRUE]
      BY <3>1, <3>2
    <3>5. v = [u EXCEPT !.nlinks = Byte(@ - 1), !.dirt = TRUE] /\ u = w[e]
      BY <2>1
    <3>4. table' = [w EXCEPT ![e] = v]
      BY <2>2, <2>20, <3>3, <3>5
    <3> QED BY <1>2, <1>11, <3>4 DEF rmdir_empty, Clear
  <2>12. /\ table' = [x \in Slots |-> table'[x]] /\ table'[e] = v /\ (s # e => table'[s] = j)
         /\ \A x \in Slots : x \notin {s, e} => table'[x] = table[x]
    BY <2>2, <2>11, <2>20
  <2>13. Touched(p, e)
    <3>1. (u = j /\ i = table[e]) \/ u = table[e]
      BY <2>1, <2>2, <2>20
    <3>2. u.num = table[e].num /\ u.count = table[e].count /\ u.lock = table[e].lock
      BY <2>6, <3>1
    <3> QED BY <2>4, <2>9, <2>10, <2>12, <3>2 DEF Touched
  <2>14. Touched(p, s)
    <3>1. CASE s = e
      BY <2>13, <3>1
    <3>2. CASE s # e
      BY <2>1, <2>4, <2>6, <2>7, <2>12, <3>2 DEF Touched
    <3> QED BY <3>1, <3>2
  <2>15. \A x \in Slots : table'[x] = table[x] \/ Touched(p, x)
    BY <2>12, <2>13, <2>14
  <2>16. table' = [x \in Slots |-> table'[x]] /\ imap' = imap /\ race \subseteq race'
    BY <2>11, <2>12
  <2> QED BY <2>2, <2>15, <2>16, Touching
<1>3. TableStep(p) /\ SameCounts /\ UNCHANGED panic
  BY <1>10, <1>11 DEF rmdir_empty
<1>4. ASSUME Becomes(p, Hold(Iputs(f.inode, f.dir), f.de)) PROVE StackStep(p)
  <2>1. PICK g, h : g = With(Iput(f.inode, 0), [bh |-> f.de[1]]) /\ h = With(Iput(f.dir, 0), [bh |-> f.de[1]])
    OBVIOUS
  <2>2. Becomes(p, <<g, h>>)
    BY <1>4, <2>1, HoldFrames DEF Iputs
  <2>3. FrameFits(h, k, Owning(t, h.s), d) /\ h.pc # "iput_free"
    BY <1>1, <1>2, <1>4, <2>1 DEF Frame, FrameFits, Fields, TopOK, Iput, F, With
  <2>4. FrameFits(g, Takes(h.pc), Owning(t, g.s) + Owns(h, g.s), d) /\ g.pc # "iput_free" /\ Takes(g.pc) = "other"
    BY <1>1, <1>2, <1>4, <2>1 DEF Frame, FrameFits, Fields, TopOK, Iput, F, With
  <2>5. \A s \in Slots : Owns(h, s) + Owns(g, s) = Own(f, s)
    BY <1>1, <1>2, <1>4, <2>1 DEF Frame, FrameFits, Fields, TopOK, Own, Owns, Waits, Iput, F, With
  <2> QED BY <1>1, <1>3, <2>2, <2>3, <2>4, <2>5, Become2
<1>5. ASSUME Becomes(p, Iputs(f.dir, f.inode)) PROVE StackStep(p)
  <2>1. PICK g, h : g = Iput(f.dir, 0) /\ h = Iput(f.inode, 0)
    OBVIOUS
  <2>2. Becomes(p, <<g, h>>)
    BY <1>5, <2>1 DEF Iputs
  <2>3. FrameFits(h, k, Owning(t, h.s), d) /\ h.pc # "iput_free"
    BY <1>1, <1>2, <1>5, <2>1 DEF Frame, FrameFits, Fields, TopOK, Iput, F, With
  <2>4. FrameFits(g, Takes(h.pc), Owning(t, g.s) + Owns(h, g.s), d) /\ g.pc # "iput_free" /\ Takes(g.pc) = "other"
    BY <1>1, <1>2, <1>5, <2>1 DEF Frame, FrameFits, Fields, TopOK, Iput, F, With
  <2>5. \A s \in Slots : Owns(h, s) + Owns(g, s) = Own(f, s)
    BY <1>1, <1>2, <1>5, <2>1 DEF Frame, FrameFits, Fields, TopOK, Own, Owns, Waits, Iput, F, With
  <2> QED BY <1>1, <1>3, <2>2, <2>3, <2>4, <2>5, Become2
<1>9. StackStep(p)
  BY <1>2, <1>4, <1>5 DEF rmdir_empty
<1> QED BY <1>1, <1>3, <1>9, PlainStep

LEMMA add_entryStep ==
    ASSUME RefInv, NEW p \in Procs, MayRun(p), UNCHANGED fd, add_entry(p)
    PROVE  StepOK(p)
<1> USE DEF TakesInode, TakesMaybe, TakesEmpty, TakesEntry, Takes, Puts, GivesInode, GivesMaybe, GivesEntry, Gives, Borrows, OwnsS, HasS, HasDirInode, HasDir, HasInode, HasArg, Opens, Plain
<1>1. PICK f, t, k, d : Runs(p, f, t, k, d) /\ Frame(f, t, k, d)
  BY Running
<1>2. f = Top(p) /\ f.pc = "add_scan"
  BY <1>1 DEF Runs, add_entry, At
<1>10. table' = table \/ \E n : table' = [table EXCEPT ![f.s].size = n, ![f.s].dirt = TRUE]
  BY <1>2 DEF add_entry
<1>11. table' = table => TableStep(p) /\ SameCounts
  BY <1>1, SameTable DEF Runs, add_entry
<1>12. ASSUME NEW n, table' = [table EXCEPT ![f.s].size = n, ![f.s].dirt = TRUE] PROVE TableStep(p) /\ SameCounts
  <2>1. PICK e, i, j : e = f.s /\ i = table[e] /\ j = [i EXCEPT !.size = n, !.dirt = TRUE]
    OBVIOUS
  <2>3. e \in Slots /\ TableOK
    BY <1>1, <1>2, <1>12, <2>1 DEF Runs, Frame, FrameFits, Fields, TopOK
  <2>2. table' = [table EXCEPT ![e] = j] /\ imap' = imap /\ race \subseteq race'
    BY <1>2, <1>12, <2>1, <2>3, ZenonT(40) DEF add_entry
  <2>4. Mine(p, e) >= 1
    BY <1>1, <1>2, <2>1, Borrowed
  <2>6. IsInode(i) /\ DOMAIN i = InodeFields
    BY <2>1, <2>3 DEF TableOK, IsInode
  <2>7. /\ DOMAIN j = InodeFields /\ j = [x \in InodeFields |-> j[x]]
        /\ j.num = i.num /\ j.count = i.count /\ j.lock = i.lock /\ j.nlinks = i.nlinks
    BY <2>1, <2>6 DEF InodeFields
  <2>8. j.dirt \in {i.dirt, TRUE}
    BY <2>1, <2>6 DEF InodeFields
  <2>9. IsInode(j)
    BY <2>6, <2>7, <2>8, InodeSame
  <2> QED BY <2>1, <2>2, <2>3, <2>4, <2>7, <2>9, TouchOne
<1>3. TableStep(p) /\ SameCounts /\ UNCHANGED panic
  BY <1>10, <1>11, <1>12 DEF add_entry
<1>4. ASSUME NEW c, Return(p, <<f.bh, c>>) PROVE StackStep(p)
  <2>1. k \in Plain /\ \A s \in Slots : Own(f, s) = 0
    BY <1>1, <1>2 DEF Frame, FrameFits, Own, Owns, Waits
  <2> QED BY <1>1, <1>3, <1>4, <2>1, ReturnsPlain
<1>5. ASSUME NextBlock(p, f, "add_next", TRUE) PROVE StackStep(p)
  <2>1. SameScan(f.pc, "add_next")
    BY <1>2 DEF SameScan, Adds, Empties
  <2> QED BY <1>1, <1>3, <1>5, <2>1, NextBlockStep
<1>9. StackStep(p)
  BY <1>2, <1>4, <1>5 DEF add_entry
<1> QED BY <1>1, <1>3, <1>9, PlainStep

LEMMA bmap_storeStep ==
    ASSUME RefInv, NEW p \in Procs, MayRun(p), UNCHANGED fd, bmap_store(p)
    PROVE  StepOK(p)
<1> USE DEF TakesInode, TakesMaybe, TakesEmpty, TakesEntry, Takes, Puts, GivesInode, GivesMaybe, GivesEntry, Gives, Borrows, OwnsS, HasS, HasDirInode, HasDir, HasInode, HasArg, Opens, Plain
<1>1. PICK f, t, k, d : Runs(p, f, t, k, d) /\ Frame(f, t, k, d)
  BY Running
<1>2. f = Top(p) /\ f.pc = "bmap_store"
  BY <1>1 DEF Runs, bmap_store, At
<1>10. f.bh # 0 => TableStep(p) /\ SameCounts
  BY <1>1, <1>2, SameTable DEF Runs, bmap_store
<1>11. ASSUME f.bh = 0 PROVE TableStep(p) /\ SameCounts
  <2>1. PICK e, i, j : e = f.s /\ i = table[e] /\ j = [i EXCEPT !.zone[f.cells[1]] = f.r, !.dirt = @ \/ f.r # 0]
    OBVIOUS
  <2>3. e \in Slots /\ TableOK
    BY <1>1, <1>2, <1>11, <2>1 DEF Runs, Frame, FrameFits, Fields, TopOK
  <2>2. table' = [table EXCEPT ![e] = j] /\ imap' = imap /\ race \subseteq race'
    BY <1>2, <1>11, <2>1, <2>3, ZenonT(40) DEF bmap_store
  <2>4. Mine(p, e) >= 1
    BY <1>1, <1>2, <2>1, Borrowed
  <2>6. IsInode(i) /\ DOMAIN i = InodeFields
    BY <2>1, <2>3 DEF TableOK, IsInode
  <2>7. /\ DOMAIN j = InodeFields /\ j = [x \in InodeFields |-> j[x]]
        /\ j.num = i.num /\ j.count = i.count /\ j.lock = i.lock /\ j.nlinks = i.nlinks
    BY <2>1, <2>6 DEF InodeFields
  <2>8. j.dirt \in {i.dirt, TRUE}
    <3>1. j.dirt = (i.dirt \/ f.r # 0) /\ i.dirt \in BOOLEAN
      BY <2>1, <2>6 DEF InodeFields, IsInode
    <3> QED BY <3>1, Zenon
  <2>9. IsInode(j)
    BY <2>6, <2>7, <2>8, InodeSame
  <2> QED BY <2>1, <2>2, <2>3, <2>4, <2>7, <2>9, TouchOne, ZenonT(40)
<1>3. TableStep(p) /\ SameCounts /\ UNCHANGED panic
  BY <1>10, <1>11 DEF bmap_store
<1>4. Follow(p, f, f.r)
  BY <1>2 DEF bmap_store
<1>9. StackStep(p)
  BY <1>1, <1>2, <1>3, <1>4, FollowStep
<1> QED BY <1>1, <1>3, <1>9, PlainStep

LEMMA truncateStep ==
    ASSUME RefInv, NEW p \in Procs, MayRun(p), UNCHANGED fd, truncate(p)
    PROVE  StepOK(p)
<1> USE DEF TakesInode, TakesMaybe, TakesEmpty, TakesEntry, Takes, Puts, GivesInode, GivesMaybe, GivesEntry, Gives, Borrows, OwnsS, HasS, HasDirInode, HasDir, HasInode, HasArg, Opens, Plain
<1>1. PICK f, t, k, d : Runs(p, f, t, k, d) /\ Frame(f, t, k, d)
  BY Running
<1>2. f = Top(p) /\ f.pc = "truncate"
  BY <1>1 DEF Runs, truncate, At
<1>10. table[f.s].mode \notin {"reg", "dir"} => TableStep(p) /\ SameCounts
  BY <1>1, <1>2, SameTable DEF Runs, truncate, HitIf, Hit
<1>11. ASSUME ~(table[f.s].mode \notin {"reg", "dir"}) PROVE TableStep(p) /\ SameCounts
  <2>1. PICK e, i, j : e = f.s /\ i = table[e] /\ j = [i EXCEPT !.zone = ZonesNow(f)]
    OBVIOUS
  <2>3. e \in Slots /\ TableOK
    BY <1>1, <1>2, <1>11, <2>1 DEF Runs, Frame, FrameFits, Fields, TopOK
  <2>2. table' = [table EXCEPT ![e] = j] /\ imap' = imap /\ race \subseteq race'
    BY <1>2, <1>11, <2>1, <2>3 DEF truncate, HitIf, Hit
  <2>4. Mine(p, e) >= 1
    BY <1>1, <1>2, <2>1, Borrowed
  <2>6. IsInode(i) /\ DOMAIN i = InodeFields
    BY <2>1, <2>3 DEF TableOK, IsInode
  <2>7. /\ DOMAIN j = InodeFields /\ j = [x \in InodeFields |-> j[x]]
        /\ j.num = i.num /\ j.count = i.count /\ j.lock = i.lock /\ j.nlinks = i.nlinks
    BY <2>1, <2>6 DEF InodeFields
  <2>8. j.dirt \in {i.dirt, TRUE}
    BY <2>1, <2>6 DEF InodeFields
  <2>9. IsInode(j)
    BY <2>6, <2>7, <2>8, InodeSame
  <2> QED BY <2>1, <2>2, <2>3, <2>4, <2>7, <2>9, TouchOne
<1>3. TableStep(p) /\ SameCounts /\ UNCHANGED panic
  BY <1>10, <1>11 DEF truncate
<1>4. ASSUME Return(p, 0) PROVE StackStep(p)
  <2>1. Return(p, 0)
    BY <1>4
  <2>2. \A s \in Slots : Own(f, s) = 0
    BY <1>2, OwnNat DEF Own, Owns, Waits
  <2>3. k \in Plain
    BY <1>1, <1>2, <1>4, <2>1 DEF Frame, FrameFits
  <2> QED BY <1>1, <1>3, <2>1, <2>2, <2>3, ReturnsPlain
<1>5. ASSUME NEW x, NEW y, Becomes(p, <<FreeBlock(x), [f EXCEPT !.k = y]>>) PROVE StackStep(p)
  <2>1. PICK g, h : g = FreeBlock(x) /\ h = [f EXCEPT !.k = y]
    OBVIOUS
  <2>2. Becomes(p, <<g, h>>)
    BY <1>5, <2>1
  <2>3. FrameFits(h, k, Owning(t, h.s), d) /\ h.pc # "iput_free"
    BY <1>1, <1>2, <1>5, <2>1 DEF Frame, FrameFits, Fields, TopOK, FreeBlock, F, With
  <2>4. FrameFits(g, Takes(h.pc), Owning(t, g.s) + Owns(h, g.s), d) /\ g.pc # "iput_free" /\ Takes(g.pc) = "other"
    BY <1>1, <1>2, <1>5, <2>1 DEF Frame, FrameFits, Fields, TopOK, FreeBlock, F, With
  <2>5. \A s \in Slots : Owns(h, s) + Owns(g, s) = Own(f, s)
    BY <1>1, <1>2, <1>5, <2>1 DEF Frame, FrameFits, Fields, TopOK, Own, Owns, Waits, FreeBlock, F, With
  <2> QED BY <1>1, <1>3, <2>2, <2>3, <2>4, <2>5, Become2
<1>6. ASSUME NEW w, Becomes(p, <<F("free_ind", [s |-> f.s, work |-> w])>>) PROVE StackStep(p)
  <2>1. PICK g : g = F("free_ind", [s |-> f.s, work |-> w])
    OBVIOUS
  <2>2. Becomes(p, <<g>>)
    BY <1>6, <2>1
  <2>3. FrameFits(g, k, Owning(t, g.s), d) /\ g.pc # "iput_free" /\ Takes(g.pc) = "other"
    BY <1>1, <1>2, <1>6, <2>1 DEF Frame, FrameFits, Fields, TopOK, F, With
  <2>4. \A s \in Slots : Owns(g, s) = Own(f, s)
    BY <1>1, <1>2, <1>6, <2>1 DEF Frame, FrameFits, Fields, TopOK, Own, Owns, Waits, F, With
  <2> QED BY <1>1, <1>3, <2>2, <2>3, <2>4, Become1
<1>9. StackStep(p)
  BY <1>2, <1>4, <1>5, <1>6 DEF truncate
<1> QED BY <1>1, <1>3, <1>9, PlainStep

-----------------------------------------------------------------------------
\* The steps that change a count, a number or a lock.
LEMMA OneSlot ==
    ASSUME TableOK, NEW p, NEW e \in Slots, NEW j, table' = [table EXCEPT ![e] = j], IsInode(j)
    PROVE  /\ TableOK' /\ table'[e] = j
           /\ \A s \in Slots : s # e => table'[s] = table[s] /\ SlotStep(p, s)
<1>1. /\ table' = [s \in Slots |-> table'[s]] /\ table'[e] = j
      /\ \A s \in Slots : s # e => table'[s] = table[s]
  BY DEF TableOK
<1>2. TableOK'
  BY <1>1 DEF TableOK
<1>3. \A s \in Slots : s # e => SlotStep(p, s)
  BY <1>1 DEF SlotStep, Keeps
<1> QED BY <1>1, <1>2, <1>3

LEMMA KeepOne ==
    ASSUME TableOK, NEW p, NEW e \in Slots, NEW j, table' = [table EXCEPT ![e] = j],
           imap' = imap, race \subseteq race', IsInode(j),
           j.num = table[e].num, j.count = table[e].count, j.nlinks = table[e].nlinks,
           j.lock => table[e].lock \/ table[e].dirt, j.dirt => table[e].dirt
    PROVE  TableStep(p) /\ SameCounts
<1>1. /\ TableOK' /\ table'[e] = j
      /\ \A s \in Slots : s # e => table'[s] = table[s] /\ SlotStep(p, s)
  BY OneSlot
<1>2. SlotStep(p, e)
  BY <1>1 DEF SlotStep, Keeps
<1>3. NoNumber /\ \A s \in Slots : table'[s].count = table[s].count
  BY <1>1 DEF NoNumber
<1> QED BY <1>1, <1>2, <1>3 DEF TableStep, SameCounts

LEMMA write_inodeStep ==
    ASSUME RefInv, NEW p \in Procs, MayRun(p), UNCHANGED fd, write_inode(p)
    PROVE  StepOK(p)
<1> USE DEF TakesInode, TakesMaybe, TakesEmpty, TakesEntry, Takes, Puts, GivesInode, GivesMaybe, GivesEntry, Gives, Borrows, OwnsS, HasS, HasDirInode, HasDir, HasInode, HasArg, Opens, Plain
<1>1. PICK f, t, k, d : Runs(p, f, t, k, d) /\ Frame(f, t, k, d)
  BY Running
<1>2. f = Top(p) /\ f.pc = "write_inode"
  BY <1>1 DEF Runs, write_inode, At
<1>10. table' = table => TableStep(p) /\ SameCounts
  BY <1>1, SameTable DEF Runs, write_inode
<1>11. ASSUME table[f.s].dirt, table' = [table EXCEPT ![f.s].lock = TRUE] PROVE TableStep(p) /\ SameCounts
  <2>1. PICK e, i, j : e = f.s /\ i = table[e] /\ j = [i EXCEPT !.lock = TRUE]
    OBVIOUS
  <2>2. e \in Slots /\ TableOK /\ IsInode(i) /\ DOMAIN i = InodeFields
    BY <1>1, <1>2, <2>1 DEF Runs, Frame, FrameFits, Fields, TopOK, TableOK, IsInode
  <2>3. table' = [table EXCEPT ![e] = j] /\ imap' = imap /\ race \subseteq race'
    BY <1>11, <2>1, <2>2 DEF write_inode, TableOK
  <2>4. /\ j = [x \in InodeFields |-> j[x]] /\ j.num = i.num /\ j.count = i.count
        /\ j.nlinks = i.nlinks /\ j.dirt = i.dirt
    BY <2>1, <2>2 DEF InodeFields
  <2>5. j.lock = TRUE
    BY <2>1, <2>2 DEF InodeFields
  <2>6. IsInode(j)
    BY <2>2, <2>4, <2>5 DEF IsInode
  <2>7. i.dirt = TRUE
    BY <1>11, <2>1, <2>2 DEF IsInode
  <2> QED BY <2>1, <2>2, <2>3, <2>4, <2>6, <2>7, KeepOne
<1>3. TableStep(p) /\ SameCounts /\ UNCHANGED panic
  BY <1>2, <1>10, <1>11 DEF write_inode
<1>4. ASSUME Return(p, 0) PROVE StackStep(p)
  <2>1. Return(p, 0)
    BY <1>4
  <2>2. \A s \in Slots : Own(f, s) = 0
    BY <1>2, OwnNat DEF Own, Owns, Waits
  <2>3. k \in Plain
    BY <1>1, <1>2, <1>4, <2>1 DEF Frame, FrameFits
  <2> QED BY <1>1, <1>3, <2>1, <2>2, <2>3, ReturnsPlain
<1>5. ASSUME Becomes(p, <<F("write_copy", [s |-> f.s])>>) PROVE StackStep(p)
  <2>1. PICK g : g = F("write_copy", [s |-> f.s])
    OBVIOUS
  <2>2. Becomes(p, <<g>>)
    BY <1>5, <2>1
  <2>3. FrameFits(g, k, Owning(t, g.s), d) /\ g.pc # "iput_free" /\ Takes(g.pc) = "other"
    BY <1>1, <1>2, <1>5, <2>1 DEF Frame, FrameFits, Fields, TopOK, F, With
  <2>4. \A s \in Slots : Owns(g, s) = Own(f, s)
    BY <1>1, <1>2, <1>5, <2>1 DEF Frame, FrameFits, Fields, TopOK, Own, Owns, Waits, F, With
  <2> QED BY <1>1, <1>3, <2>2, <2>3, <2>4, Become1
<1>9. StackStep(p)
  BY <1>2, <1>4, <1>5 DEF write_inode
<1> QED BY <1>1, <1>3, <1>9, PlainStep

LEMMA write_copyStep ==
    ASSUME RefInv, NEW p \in Procs, MayRun(p), UNCHANGED fd, write_copy(p)
    PROVE  StepOK(p)
<1> USE DEF TakesInode, TakesMaybe, TakesEmpty, TakesEntry, Takes, Puts, GivesInode, GivesMaybe, GivesEntry, Gives, Borrows, OwnsS, HasS, HasDirInode, HasDir, HasInode, HasArg, Opens, Plain
<1>1. PICK f, t, k, d : Runs(p, f, t, k, d) /\ Frame(f, t, k, d)
  BY Running
<1>2. f = Top(p) /\ f.pc = "write_copy"
  BY <1>1 DEF Runs, write_copy, At
<1>10. TableStep(p) /\ SameCounts
  <2>1. PICK e, i, j : e = f.s /\ i = table[e] /\ j = [i EXCEPT !.dirt = FALSE, !.lock = FALSE]
    OBVIOUS
  <2>2. e \in Slots /\ TableOK /\ IsInode(i) /\ DOMAIN i = InodeFields
    BY <1>1, <1>2, <2>1 DEF Runs, Frame, FrameFits, Fields, TopOK, TableOK, IsInode
  <2>3. table' = [table EXCEPT ![e] = j] /\ imap' = imap /\ race \subseteq race'
    BY <1>2, <2>1, <2>2 DEF write_copy, TableOK
  <2>4. /\ j = [x \in InodeFields |-> j[x]] /\ j.num = i.num /\ j.count = i.count
        /\ j.nlinks = i.nlinks
    BY <2>1, <2>2 DEF InodeFields
  <2>5. j.lock = FALSE /\ j.dirt = FALSE
    BY <2>1, <2>2 DEF InodeFields
  <2>6. IsInode(j)
    BY <2>2, <2>4, <2>5 DEF IsInode
  <2> QED BY <2>1, <2>2, <2>3, <2>4, <2>5, <2>6, KeepOne
<1>3. TableStep(p) /\ SameCounts /\ UNCHANGED panic
  BY <1>10 DEF write_copy
<1>4. ASSUME Return(p, 0) PROVE StackStep(p)
  <2>1. Return(p, 0)
    BY <1>4
  <2>2. \A s \in Slots : Own(f, s) = 0
    BY <1>2, OwnNat DEF Own, Owns, Waits
  <2>3. k \in Plain
    BY <1>1, <1>2, <1>4, <2>1 DEF Frame, FrameFits
  <2> QED BY <1>1, <1>3, <2>1, <2>2, <2>3, ReturnsPlain
<1>9. StackStep(p)
  BY <1>2, <1>4 DEF write_copy
<1> QED BY <1>1, <1>3, <1>9, PlainStep

LEMMA read_inodeStep ==
    ASSUME RefInv, NEW p \in Procs, MayRun(p), UNCHANGED fd, read_inode(p)
    PROVE  StepOK(p)
<1> USE DEF TakesInode, TakesMaybe, TakesEmpty, TakesEntry, Takes, Puts, GivesInode, GivesMaybe, GivesEntry, Gives, Borrows, OwnsS, HasS, HasDirInode, HasDir, HasInode, HasArg, Opens, Plain
<1>1. PICK f, t, k, d : Runs(p, f, t, k, d) /\ Frame(f, t, k, d)
  BY Running
<1>2. f = Top(p) /\ f.pc = "read_inode"
  BY <1>1 DEF Runs, read_inode, At
<1>10. TableStep(p) /\ SameCounts
  <2>0. PICK c : c = disk[table[f.s].num]
    OBVIOUS
  <2>1. PICK e, i, j : e = f.s /\ i = table[e] /\ j = [i EXCEPT !.lock = FALSE, !.mode = c.mode,
                       !.nlinks = c.nlinks, !.size = c.size, !.zone = c.zone]
    OBVIOUS
  <2>2. e \in Slots /\ TableOK /\ IsInode(i) /\ DOMAIN i = InodeFields
    BY <1>1, <1>2, <2>1 DEF Runs, Frame, FrameFits, Fields, TopOK, TableOK, IsInode
  <2>3. table' = [table EXCEPT ![e] = j] /\ imap' = imap /\ race \subseteq race'
    BY <1>2, <2>0, <2>1, <2>2 DEF read_inode, TableOK
  <2>4. /\ j = [x \in InodeFields |-> j[x]] /\ j.num = i.num /\ j.count = i.count
        /\ j.dirt = i.dirt
    BY <2>1, <2>2 DEF InodeFields
  <2>5. j.lock = FALSE
    BY <2>1, <2>2 DEF InodeFields
  <2>6. IsInode(j)
    BY <2>2, <2>4, <2>5 DEF IsInode
  <2>7. Own(f, e) >= 1
    BY <1>2, <2>1, <2>2 DEF Own, Owns, Waits
  <2>8. Has(p, e) /\ Mine(p, e) >= 1
    BY <1>1, <2>7, HasTop
  <2> QED BY <2>1, <2>2, <2>3, <2>4, <2>5, <2>6, <2>8, TouchOne
<1>3. TableStep(p) /\ SameCounts /\ UNCHANGED panic
  BY <1>10 DEF read_inode
<1>4. ASSUME Return(p, f.s) PROVE StackStep(p)
  <2>1. Return(p, f.s)
    BY <1>4
  <2>2. \A s \in Slots : Own(f, s) = Opened(f.s, s)
    BY <1>1, <1>2, <1>4,  InodeAssumption DEF Frame, FrameFits, Fields, TopOK, Own, Owns, Waits, Opened
  <2>3. (k = "inode" /\ f.s \in Slots) \/ (k = "maybe" /\ f.s \in Slots \cup {NoSlot})
    BY <1>1, <1>2, <1>4, <2>1 DEF Frame, FrameFits, Fields, TopOK
  <2> QED BY <1>1, <1>3, <2>1, <2>2, <2>3, ReturnsInode
<1>9. StackStep(p)
  BY <1>2, <1>4 DEF read_inode
<1> QED BY <1>1, <1>3, <1>9, PlainStep

LEMMA get_dirStep ==
    ASSUME RefInv, NEW p \in Procs, MayRun(p), UNCHANGED fd, get_dir(p)
    PROVE  StepOK(p)
<1> USE DEF TakesInode, TakesMaybe, TakesEmpty, TakesEntry, Takes, Puts, GivesInode, GivesMaybe, GivesEntry, Gives, Borrows, OwnsS, HasS, HasDirInode, HasDir, HasInode, HasArg, Opens, Plain
<1>1. PICK f, t, k, d : Runs(p, f, t, k, d) /\ Frame(f, t, k, d)
  BY Running
<1>2. f = Top(p) /\ f.pc = "get_dir"
  BY <1>1 DEF Runs, get_dir, At
<1>4. RootSlot = Root /\ Root \in Slots /\ table[Root].num = ROOT_INO
  <2>1. RootOK /\ Root \in Slots
    BY InodeAssumption DEF RefInv, Root
  <2>2. \A s \in Slots : table[s].num = ROOT_INO <=> s = Root
    BY <2>1 DEF RootOK
  <2> QED BY <2>1, <2>2 DEF RootSlot, RootOK
<1>5. PICK i, j : i = table[Root] /\ j = [i EXCEPT !.count = @ + 1]
  OBVIOUS
<1>6. TableOK /\ IsInode(i) /\ DOMAIN i = InodeFields
  BY <1>1, <1>4, <1>5 DEF Runs, TableOK, IsInode
<1>7. table' = [table EXCEPT ![Root] = j] /\ imap' = imap /\ race' = race /\ panic' = panic
  BY <1>4, <1>5, <1>6 DEF get_dir, TableOK
<1>8. /\ j = [x \in InodeFields |-> j[x]] /\ j.num = i.num /\ j.count = i.count + 1
      /\ j.nlinks = i.nlinks /\ j.dirt = i.dirt /\ j.lock = i.lock
  BY <1>5, <1>6 DEF InodeFields
<1>9. IsInode(j)
  BY <1>6, <1>8 DEF IsInode
<1>10. /\ TableOK' /\ table'[Root] = j
       /\ \A s \in Slots : s # Root => table'[s] = table[s] /\ SlotStep(p, s)
  BY <1>4, <1>6, <1>7, <1>9, OneSlot
<1>11. SlotStep(p, Root)
  <2>1. table'[Root].dirt = table[Root].dirt /\ table'[Root].lock = table[Root].lock
    BY <1>5, <1>8, <1>10
  <2>2. /\ table'[Root].num = table[Root].num /\ table[Root].num # 0
        /\ table'[Root].count = table[Root].count + 1 /\ table'[Root].nlinks = table[Root].nlinks
    <3>1. table'[Root] = j /\ table[Root] = i /\ i.num = ROOT_INO
      BY <1>4, <1>5, <1>10
    <3>2. j.num = i.num /\ j.count = i.count + 1 /\ j.nlinks = i.nlinks
      BY <1>8
    <3> QED BY <3>1, <3>2 DEF ROOT_INO
  <2>3. Shares(Root)
    BY <2>1, <2>2 DEF Shares
  <2> QED BY <2>2, <2>3 DEF SlotStep
<1>12. NoNumber
  BY <1>5, <1>7, <1>8, <1>10 DEF NoNumber
<1>13. TableStep(p)
  BY <1>7, <1>10, <1>11, <1>12 DEF TableStep
<1>14. PICK g, u : g = With([r |-> Root], F("get_dir_step", [path |-> f.path])) /\ u = <<g>> \o t
  OBVIOUS
<1>15. Becomes(p, <<g>>)
  BY <1>2, <1>4, <1>14 DEF get_dir
<1>16. /\ g = [x \in DOMAIN g |-> g[x]] /\ {"pc", "r"} \subseteq DOMAIN g
       /\ g.pc = "get_dir_step" /\ g.r = Root
  BY <1>14 DEF With, F
<1>17. FrameFits(g, k, Owning(t, g.s), d)
  BY <1>1, <1>2, <1>16 DEF Frame, FrameFits, Fields
<1>18. /\ StackOK(u, d) /\ u # <<>> /\ u[1] = g
       /\ \A s : Owning(u, s) = Owning(t, s) + Owns(g, s)
       /\ Freeing(u) = Freeing(t) \cup Frees(g)
  BY <1>1, <1>14, <1>17, Push1 DEF Runs
<1>19. FreesMore(t, u) /\ TopFits(u)
  BY <1>4, <1>16, <1>18 DEF FreesMore, TopFits, Frees
<1>20. Pays(p, t, u)
  <2> SUFFICES ASSUME NEW s \in Slots
               PROVE  Owning(u, s) + Waits(u[1], s) + table[s].count
                        = Owning(t, s) + Own(Top(p), s) + table'[s].count
    BY DEF Pays
  <2>1. Owns(g, s) = 0 /\ Own(f, s) = 0 /\ Waits(g, s) = (IF s = Root THEN 1 ELSE 0)
    BY <1>2, <1>16 DEF Owns, Own, Waits
  <2>2. Owning(t, s) \in Nat /\ table[s].count \in Nat
    BY <1>1, BelowNat DEF Runs, TableOK, IsInode
  <2>3. table'[s].count = table[s].count + (IF s = Root THEN 1 ELSE 0)
    <3>1. CASE s = Root
      BY <1>5, <1>8, <1>10, <2>2, <3>1
    <3>2. CASE s # Root
      BY <1>10, <2>2, <3>2
    <3> QED BY <3>1, <3>2
  <2> QED BY <1>2, <1>18, <2>1, <2>2, <2>3
<1>21. PICK fs : fs = <<g>>
  OBVIOUS
<1>22. /\ StacksOK /\ p \in Procs /\ MayRun(p) /\ t = Tail(stack[p]) /\ d = fd[p]
       /\ Becomes(p, fs) /\ u = fs \o t /\ StackOK(u, fd[p])
  BY <1>1, <1>14, <1>15, <1>18, <1>21 DEF Runs
<1>23. StackStep(p)
  BY <1>6, <1>10, <1>19, <1>20, <1>22, Becoming
<1> QED BY <1>1, <1>7, <1>13, <1>23, PlainStep

LEMMA get_empty_inodeStep ==
    ASSUME RefInv, NEW p \in Procs, MayRun(p), UNCHANGED fd, get_empty_inode(p)
    PROVE  StepOK(p)
<1> USE DEF TakesInode, TakesMaybe, TakesEmpty, TakesEntry, Takes, Puts, GivesInode, GivesMaybe, GivesEntry, Gives, Borrows, OwnsS, HasS, HasDirInode, HasDir, HasInode, HasArg, Opens, Plain
<1>1. PICK f, t, k, d : Runs(p, f, t, k, d) /\ Frame(f, t, k, d)
  BY Running
<1>2. f = Top(p) /\ f.pc = "get_empty_inode"
  BY <1>1 DEF Runs, get_empty_inode, At
<1>3. CASE Panic("No free inodes in mem")
  <2>1. UNCHANGED <<fd, stack, table, imap, race>> /\ panic' \notin InodePanics
    BY <1>3 DEF Panic, InodePanics
  <2>2. Takes(f.pc) # "entry"
    BY <1>2
  <2> QED BY <1>1, <2>1, <2>2, StayStep
<1>4. ASSUME NEW e \in Distinct(Unused), table' = [table EXCEPT ![e] = [NoInode EXCEPT !.count = 1]], Return(p, e),
             UNCHANGED <<imap, panic, race>>
      PROVE  StepOK(p)
  <2>1. e \in Slots /\ table[e].count = 0
    <3>1. e \in Unused
      <4>1. PICK new : new = {s \in Unused : table[s] = NoInode}
        OBVIOUS
      <4>2. e \in (IF new = {} THEN Unused ELSE (Unused \ new) \cup {CHOOSE s \in new : TRUE})
        BY <1>4, <4>1 DEF Distinct
      <4> QED BY <4>1, <4>2
    <3> QED BY <3>1 DEF Unused
  <2>2. PICK j : j = [NoInode EXCEPT !.count = 1]
    OBVIOUS
  <2>3. /\ j = [x \in InodeFields |-> j[x]] /\ j.num = 0 /\ j.count = 1
        /\ j.dirt = FALSE /\ j.lock = FALSE
    BY <2>2 DEF NoInode, InodeFields
  <2>4. IsInode(j)
    <3>1. j.dirt \in BOOLEAN /\ j.lock \in BOOLEAN
      BY <2>3, Zenon
    <3>2. j.count \in Nat
      BY <2>3
    <3> QED BY <2>3, <3>1, <3>2, Zenon DEF IsInode
  <2>5. TableOK /\ table' = [table EXCEPT ![e] = j]
    BY <1>1, <1>4, <2>2 DEF Runs
  <2>6. /\ TableOK' /\ table'[e] = j
        /\ \A s \in Slots : s # e => table'[s] = table[s] /\ SlotStep(p, s)
    BY <2>1, <2>4, <2>5, OneSlot
  <2>7. SlotStep(p, e) /\ Fresh(e)'
    BY <2>1, <2>3, <2>6 DEF SlotStep, Starts, Fresh
  <2>8. NoNumber
    BY <1>4, <2>3, <2>6 DEF NoNumber
  <2>9. TableStep(p)
    BY <1>4, <2>6, <2>7, <2>8 DEF TableStep
  <2>10. k = "empty"
    BY <1>1, <1>2 DEF Frame, FrameFits
  <2>11. GoodValue(p, k, e)
    BY <2>1, <2>7, <2>10 DEF GoodValue
  <2>12. Repays(f, k, e)
    <3> SUFFICES ASSUME NEW s \in Slots
                 PROVE  Passed(k, e, s) + table[s].count = Own(f, s) + table'[s].count
      BY DEF Repays
    <3>1. Own(f, s) = 0 /\ Passed(k, e, s) = IF s = e THEN 1 ELSE 0
      BY <1>2, <2>10 DEF Own, Owns, Waits, Passed
    <3>2. table[s].count \in Nat
      BY <2>5 DEF TableOK, IsInode
    <3> QED BY <2>1, <2>3, <2>6, <3>1, <3>2
  <2>13. StackStep(p)
    BY <1>1, <1>4, <2>6, <2>11, <2>12, Returning
  <2> QED BY <1>1, <1>4, <2>9, <2>13, PlainStep
<1> QED BY <1>2, <1>3, <1>4 DEF get_empty_inode

\* A table entry with its count changed.
LEMMA Counting ==
    ASSUME NEW i, IsInode(i), NEW n \in Nat, NEW j, j = [i EXCEPT !.count = n]
    PROVE  /\ IsInode(j) /\ j.count = n /\ j.num = i.num /\ j.nlinks = i.nlinks
           /\ j.dirt = i.dirt /\ j.lock = i.lock
<1>1. DOMAIN i = InodeFields /\ "count" \in InodeFields /\ i = [x \in InodeFields |-> i[x]]
  BY DEF IsInode, InodeFields
<1>2. j = [x \in InodeFields |-> j[x]] /\ j.count = n
  BY <1>1
<1>3. j.num = i.num /\ j.nlinks = i.nlinks
  BY <1>1
<1>4. j.dirt = i.dirt /\ j.lock = i.lock
  BY <1>1
<1>5. j.dirt \in BOOLEAN /\ j.lock \in BOOLEAN
  BY <1>4, Zenon DEF IsInode
<1> QED BY <1>2, <1>3, <1>4, <1>5, Zenon DEF IsInode

\* p gives a reference to s back.
LEMMA Dropping ==
    ASSUME NEW p, NEW f, NEW t, NEW k, NEW d, Runs(p, f, t, k, d), UNCHANGED fd, CountOK,
           NEW e \in Slots, table' = [table EXCEPT ![e].count = @ - 1], imap' = imap, race' = race,
           ~table[e].lock, table[e].count > 1 \/ ~table[e].dirt,
           \A s \in Slots : Own(f, s) = Opened(e, s),
           NEW v, Return(p, v), k \in Plain \/ (k = "maybe" /\ v = NoSlot), panic' = panic
    PROVE  StepOK(p)
<1>1. Own(f, e) = 1
  BY DEF Opened
<1>2. Has(p, e) /\ Mine(p, e) >= 1
  BY <1>1, HasTop
<1>3. TableOK /\ StacksOK /\ p \in Procs
  BY DEF Runs
<1>4. table[e].count \in Nat /\ table[e].count >= 1
  BY <1>2, <1>3, Counted
<1>5. PICK i, j, n : i = table[e] /\ n = i.count - 1 /\ j = [i EXCEPT !.count = n]
  OBVIOUS
<1>6. IsInode(i) /\ n \in Nat
  BY <1>3, <1>4, <1>5 DEF TableOK
<1>7. /\ IsInode(j) /\ j.count = n /\ j.num = i.num /\ j.nlinks = i.nlinks
      /\ j.dirt = i.dirt /\ j.lock = i.lock
  BY <1>5, <1>6, Counting
<1>8. table' = [table EXCEPT ![e] = j]
  BY <1>3, <1>5 DEF TableOK
<1>9. /\ TableOK' /\ table'[e] = j
      /\ \A s \in Slots : s # e => table'[s] = table[s] /\ SlotStep(p, s)
  BY <1>3, <1>7, <1>8, OneSlot
<1>10. table'[e].num = table[e].num /\ table[e].count = table'[e].count + 1 /\ table'[e].nlinks = table[e].nlinks
  <2>1. j.count = n /\ j.num = i.num /\ j.nlinks = i.nlinks /\ i = table[e] /\ table'[e] = j /\ n = i.count - 1
    BY <1>5, <1>7, <1>9
  <2> QED BY <1>4, <2>1
<1>11. ~table'[e].lock
  BY <1>5, <1>7, <1>9
<1>12. table[e].count = 1 => ~table'[e].dirt
  BY <1>5, <1>7, <1>9
<1>13. SlotStep(p, e)
  <2>1. Drops(p, e)
    BY <1>2, <1>10, <1>11, <1>12 DEF Drops
  <2> QED BY <1>10, <2>1 DEF SlotStep
<1>14. NoNumber
  BY <1>9, <1>10 DEF NoNumber
<1>15. TableStep(p)
  BY <1>9, <1>13, <1>14 DEF TableStep
<1>16. GoodValue(p, k, v)
  BY DEF GoodValue, Plain
<1>17. Repays(f, k, v)
  <2> SUFFICES ASSUME NEW s \in Slots
               PROVE  Passed(k, v, s) + table[s].count = Own(f, s) + table'[s].count
    BY DEF Repays
  <2>1. Passed(k, v, s) = 0 /\ Own(f, s) = IF s = e THEN 1 ELSE 0
    BY InodeAssumption DEF Passed, Opened, Plain
  <2>2. table[s].count \in Nat
    BY <1>3 DEF TableOK, IsInode
  <2>3. CASE s = e
    <3>1. table'[s].count \in Nat /\ table[s].count = table'[s].count + 1
      BY <1>9, <1>10, <2>3 DEF TableOK, IsInode
    <3>2. Passed(k, v, s) = 0 /\ Own(f, s) = 1
      BY <2>1, <2>3
    <3> QED BY <3>1, <3>2
  <2>4. CASE s # e
    BY <1>9, <2>1, <2>2, <2>4
  <2> QED BY <2>3, <2>4
<1>18. StackStep(p)
  BY <1>9, <1>16, <1>17, Returning
<1> QED BY <1>15, <1>18, PlainStep

LEMMA igetStep ==
    ASSUME RefInv, NEW p \in Procs, MayRun(p), UNCHANGED fd, iget(p)
    PROVE  StepOK(p)
<1> USE DEF TakesInode, TakesMaybe, TakesEmpty, TakesEntry, Takes, Puts, GivesInode, GivesMaybe, GivesEntry, Gives, Borrows, OwnsS, HasS, HasDirInode, HasDir, HasInode, HasArg, Opens, Plain
<1>1. PICK f, t, k, d : Runs(p, f, t, k, d) /\ Frame(f, t, k, d)
  BY Running
<1>2. f = Top(p) /\ f.pc = "iget"
  BY <1>1 DEF Runs, iget, At
<1>3. PICK e, nr : e = f.r /\ nr = f.nr
  OBVIOUS
<1>4. e \in Slots /\ nr # 0 /\ Fresh(e) /\ TableOK
  BY <1>1, <1>2, <1>3 DEF Runs, Frame, FrameFits, Fields, TopOK
<1>5. \A s \in Slots : Own(f, s) = Opened(e, s)
  BY <1>2, <1>3 DEF Own, Owns, Waits, Opened
<1>6. Has(p, e)
  BY <1>1, <1>4, <1>5, HasTop DEF Opened
<1>7. k \in {"inode", "maybe"} /\ race \subseteq race' /\ imap' = imap /\ panic' = panic
  BY <1>1, <1>2 DEF Frame, FrameFits, iget, HitIf, Hit
<1>8. table[e].num = 0 /\ table[e].count = 1 /\ IsInode(table[e])
  BY <1>4 DEF Fresh, TableOK
<1>9. ASSUME NEW s \in Slots, table[s].num = nr, Unlocked(s), Return(p, s), race' = {} => ~Dead(f.de, nr),
             table' = [table EXCEPT ![s].count = @ + 1, ![e].count = @ - 1]
      PROVE  StepOK(p)
  <2>1. PICK i, j, n, a, b : /\ i = table[s] /\ n = i.count + 1 /\ j = [i EXCEPT !.count = n]
                             /\ a = table[e] /\ b = [a EXCEPT !.count = 0]
    OBVIOUS
  <2>2. s # e /\ IsInode(i) /\ IsInode(a) /\ n \in Nat /\ a.count - 1 = 0
    BY <1>4, <1>8, <1>9, <2>1 DEF TableOK, IsInode
  <2>3. /\ IsInode(j) /\ j.count = n /\ j.num = i.num /\ j.nlinks = i.nlinks
        /\ j.dirt = i.dirt /\ j.lock = i.lock
    BY <2>1, <2>2, Counting
  <2>4. /\ IsInode(b) /\ b.count = 0 /\ b.num = a.num /\ b.nlinks = a.nlinks
        /\ b.dirt = a.dirt /\ b.lock = a.lock
    BY <2>1, <2>2, Counting
  <2>5. /\ table' = [x \in Slots |-> table'[x]] /\ table'[s] = j /\ table'[e] = b
        /\ \A x \in Slots : x \notin {s, e} => table'[x] = table[x]
    BY <1>4, <1>9, <2>1, <2>2 DEF TableOK
  <2>6. TableOK'
    BY <1>4, <2>3, <2>4, <2>5 DEF TableOK
  <2>7. SlotStep(p, s)
    <3>1. /\ table'[s].num = table[s].num /\ table[s].num # 0 /\ table'[s].count = table[s].count + 1
          /\ table'[s].nlinks = table[s].nlinks
      <4>1. j.count = n /\ j.num = i.num /\ j.nlinks = i.nlinks /\ table'[s] = j /\ i = table[s]
        BY <2>1, <2>3, <2>5
      <4> QED BY <1>4, <1>9, <2>1, <4>1
    <3>2. table'[s].dirt = table[s].dirt /\ table'[s].lock = table[s].lock
      BY <2>1, <2>3, <2>5
    <3>3. race' = {} => table[s].nlinks # 0
      BY <1>9 DEF Dead
    <3>4. Shares(s)
      BY <3>1, <3>2, <3>3 DEF Shares
    <3> QED BY <3>1, <3>4 DEF SlotStep
  <2>8. SlotStep(p, e)
    <3>1. table'[e].num = table[e].num /\ table'[e].nlinks = table[e].nlinks /\ table[e].count = table'[e].count + 1
      <4>1. b.count = 0 /\ b.num = a.num /\ b.nlinks = a.nlinks /\ table'[e] = b /\ a = table[e]
        BY <2>1, <2>4, <2>5
      <4> QED BY <1>8, <4>1
    <3>2. ~table'[e].lock /\ ~table'[e].dirt
      BY <1>4, <2>1, <2>4, <2>5 DEF Fresh
    <3>3. Drops(p, e)
      BY <1>6, <3>1, <3>2 DEF Drops
    <3> QED BY <3>1, <3>3 DEF SlotStep
  <2>9. \A x \in Slots : SlotStep(p, x)
    <3> TAKE x \in Slots
    <3>1. CASE x \notin {s, e}
      <4>1. table'[x] = table[x]
        BY <2>5, <3>1
      <4> QED BY <4>1 DEF SlotStep, Keeps
    <3> QED BY <2>7, <2>8, <3>1
  <2>10. NoNumber
    <3>1. j.num = i.num /\ b.num = a.num
      BY <2>3, <2>4
    <3> QED BY <1>7, <2>1, <2>5, <3>1 DEF NoNumber
  <2>11. TableStep(p)
    BY <1>7, <2>6, <2>9, <2>10 DEF TableStep
  <2>12. GoodValue(p, k, s)
    BY <1>7, <1>9 DEF GoodValue
  <2>13. Repays(f, k, s)
    <3> SUFFICES ASSUME NEW x \in Slots
                 PROVE  Passed(k, s, x) + table[x].count = Own(f, x) + table'[x].count
      BY DEF Repays
    <3>1. Passed(k, s, x) = (IF x = s THEN 1 ELSE 0) /\ Own(f, x) = (IF x = e THEN 1 ELSE 0)
      BY <1>5, <1>7 DEF Passed, Opened
    <3>2. table[x].count \in Nat
      BY <1>4 DEF TableOK, IsInode
    <3>3. CASE x = s
      <4>1. table'[x].count = table[x].count + 1
        BY <2>1, <2>3, <2>5, <3>3
      <4> QED BY <2>2, <3>1, <3>2, <3>3, <4>1
    <3>4. CASE x = e
      <4>1. table'[x].count = 0 /\ table[x].count = 1
        BY <1>8, <2>4, <2>5, <3>4
      <4> QED BY <2>2, <3>1, <3>4, <4>1
    <3>5. CASE x \notin {s, e}
      BY <2>5, <3>1, <3>2, <3>5
    <3> QED BY <3>3, <3>4, <3>5
  <2>14. StackStep(p)
    BY <1>1, <1>9, <2>6, <2>12, <2>13, Returning
  <2> QED BY <1>1, <1>7, <2>11, <2>14, PlainStep
<1>10. ASSUME \A s \in Slots : table[s].num # nr, race' = {} => ~Dead(f.de, nr),
              table' = [table EXCEPT ![e].num = nr, ![e].lock = TRUE],
              Becomes(p, <<F("read_inode", [s |-> e])>>)
       PROVE  StepOK(p)
  <2>1. PICK i, j : i = table[e] /\ j = [i EXCEPT !.num = nr, !.lock = TRUE]
    OBVIOUS
  <2>2. IsInode(i) /\ DOMAIN i = InodeFields /\ i.count = 1
    BY <1>8, <2>1 DEF IsInode
  <2>3. /\ j = [x \in InodeFields |-> j[x]] /\ j.num = nr /\ j.count = i.count
        /\ j.nlinks = i.nlinks /\ j.dirt = i.dirt
    BY <2>1, <2>2 DEF InodeFields
  <2>4. j.lock = TRUE
    BY <2>1, <2>2 DEF InodeFields
  <2>5. IsInode(j)
    BY <2>2, <2>3, <2>4 DEF IsInode
  <2>6. table' = [table EXCEPT ![e] = j]
    BY <1>4, <1>10, <2>1 DEF TableOK
  <2>7. /\ TableOK' /\ table'[e] = j
        /\ \A s \in Slots : s # e => table'[s] = table[s] /\ SlotStep(p, s)
    BY <1>4, <2>5, <2>6, OneSlot
  <2>8. SlotStep(p, e)
    <3>1. table'[e].count = 1 /\ table'[e].nlinks = table[e].nlinks
      BY <2>1, <2>2, <2>3, <2>7
    <3> QED BY <1>4, <1>6, <3>1 DEF SlotStep, Fills
  <2>9. NewNumber
    <3>1. table'[e].num = nr /\ \A s \in Slots \ {e} : table'[s].num = table[s].num
      BY <2>3, <2>7
    <3>2. nr # ROOT_INO
      <4>1. RootOK /\ Root \in Slots
        BY InodeAssumption DEF RefInv, Root
      <4> QED BY <1>10, <4>1 DEF RootOK
    <3>3. race' = {} => nr \in imap'
      BY <1>7, <1>10 DEF Dead
    <3> QED BY <1>4, <1>7, <1>10, <3>1, <3>2, <3>3 DEF NewNumber
  <2>10. TableStep(p)
    BY <1>7, <2>7, <2>8, <2>9 DEF TableStep
  <2>11. SameCounts
    BY <2>1, <2>3, <2>7 DEF SameCounts
  <2>12. PICK g : g = F("read_inode", [s |-> e])
    OBVIOUS
  <2>13. Becomes(p, <<g>>)
    BY <1>10, <2>12
  <2>14. FrameFits(g, k, Owning(t, g.s), d) /\ g.pc # "iput_free" /\ Takes(g.pc) = "other"
    BY <1>4, <1>7, <2>12 DEF Frame, FrameFits, Fields, F, With
  <2>15. \A s \in Slots : Owns(g, s) = Own(f, s)
    BY <1>5, <2>12 DEF Owns, Opened, F, With
  <2>16. StackStep(p)
    BY <1>1, <2>11, <2>13, <2>14, <2>15, Become1
  <2> QED BY <1>1, <1>7, <2>10, <2>16, PlainStep
<1>11. race' = {} => ~Dead(f.de, nr)
  BY <1>2, <1>3 DEF iget, HitIf, Hit
<1> QED BY <1>2, <1>3, <1>9, <1>10, <1>11 DEF iget

\* What iput knows of the inode it was called for.
LEMMA PutFacts ==
    ASSUME RefInv, NEW p, NEW f, NEW t, NEW k, NEW d, Runs(p, f, t, k, d), Frame(f, t, k, d), f.pc \in Puts
    PROVE  /\ f.s \in Slots /\ Has(p, f.s) /\ table[f.s].count \in Nat /\ table[f.s].count >= 1
           /\ \A s \in Slots : Own(f, s) = Opened(f.s, s)
           /\ k \in Plain \/ (k = "maybe" /\ f.v = NoSlot)
<1> USE DEF TakesInode, TakesMaybe, TakesEmpty, TakesEntry, Takes, Puts, GivesInode, GivesMaybe, GivesEntry, Gives, Borrows, OwnsS, HasS, HasDirInode, HasDir, HasInode, HasArg, Opens, Plain
<1>1. f.s \in Slots /\ (k \in Plain \/ (k = "maybe" /\ f.v = NoSlot))
  BY DEF Frame, FrameFits, Fields
<1>2. \A s \in Slots : Own(f, s) = Opened(f.s, s)
  BY DEF Own, Owns, Waits, Opened
<1>3. Has(p, f.s) /\ Mine(p, f.s) >= 1
  BY <1>1, <1>2, HasTop DEF Opened
<1>4. StacksOK /\ CountOK /\ p \in Procs
  BY DEF RefInv, Runs
<1> QED BY <1>1, <1>2, <1>3, <1>4, Counted

LEMMA IputRepeatStep ==
    ASSUME RefInv, NEW p, NEW f, NEW t, NEW k, NEW d, Runs(p, f, t, k, d), Frame(f, t, k, d),
           UNCHANGED <<fd, imap, panic, race>>, f.pc \in {"iput", "iput_repeat"},
           Unlocked(f.s), IputRepeat(p, f)
    PROVE  StepOK(p)
<1> USE DEF TakesInode, TakesMaybe, TakesEmpty, TakesEntry, Takes, Puts, GivesInode, GivesMaybe, GivesEntry, Gives, Borrows, OwnsS, HasS, HasDirInode, HasDir, HasInode, HasArg, Opens, Plain
<1>1. /\ f.s \in Slots /\ Has(p, f.s) /\ table[f.s].count \in Nat /\ table[f.s].count >= 1
      /\ \A s \in Slots : Own(f, s) = Opened(f.s, s)
      /\ k \in Plain \/ (k = "maybe" /\ f.v = NoSlot)
  BY PutFacts
<1>2. ASSUME table[f.s].count > 1 \/ ~table[f.s].dirt,
             table' = [table EXCEPT ![f.s].count = @ - 1], Return(p, f.v)
      PROVE  StepOK(p)
  <2>1. CountOK /\ ~table[f.s].lock
    BY DEF RefInv, Unlocked
  <2> QED BY <1>1, <1>2, <2>1, Dropping
<1>3. ASSUME table' = table PROVE TableStep(p) /\ SameCounts
  BY <1>3, SameTable DEF Runs
<1>4. ASSUME table[f.s].count = 1, table[f.s].nlinks = 0, table' = table,
             Becomes(p, <<Truncate(f.s), [f EXCEPT !.pc = "iput_free"]>>)
      PROVE  StepOK(p)
  <2>1. PICK g, h : g = Truncate(f.s) /\ h = [f EXCEPT !.pc = "iput_free"]
    OBVIOUS
  <2>2. Becomes(p, <<g, h>>)
    BY <1>4, <2>1
  <2>3. FrameFits(h, k, Owning(t, h.s), d) /\ h.pc = "iput_free" /\ h.s = f.s
    BY <1>1, <2>1 DEF Frame, FrameFits, Fields
  <2>4. Owning(t, f.s) \in Nat
    BY BelowNat
  <2>5. g.pc = "truncate" /\ g.s = f.s /\ g = [x \in DOMAIN g |-> g[x]] /\ {"pc", "r", "s"} \subseteq DOMAIN g
    BY <2>1 DEF Truncate, F, With
  <2>6. Owns(h, f.s) = 1
    BY <1>1, <2>1, <2>3 DEF Owns
  <2>7. FrameFits(g, Takes(h.pc), Owning(t, g.s) + Owns(h, g.s), d)
    BY <1>1, <2>3, <2>4, <2>5, <2>6 DEF FrameFits, Fields
  <2>8. g.pc # "iput_free" /\ Takes(g.pc) = "other"
    BY <2>5
  <2>9. h.pc = "iput_free" => table'[h.s].count = 1 /\ table'[h.s].nlinks = 0
    BY <1>4, <2>3
  <2>10. \A s \in Slots : Owns(h, s) + Owns(g, s) = Own(f, s)
    BY <1>1, <2>3, <2>5 DEF Owns, Opened
  <2>11. TableStep(p) /\ SameCounts
    BY <1>3, <1>4
  <2>12. StackStep(p)
    BY <2>2, <2>3, <2>7, <2>8, <2>9, <2>10, <2>11, Become2
  <2> QED BY <2>11, <2>12, PlainStep
<1>5. ASSUME table' = table, Becomes(p, <<WriteInode(f.s), [f EXCEPT !.pc = "iput_repeat"]>>)
      PROVE  StepOK(p)
  <2>1. PICK g, h : g = WriteInode(f.s) /\ h = [f EXCEPT !.pc = "iput_repeat"]
    OBVIOUS
  <2>2. Becomes(p, <<g, h>>)
    BY <1>5, <2>1
  <2>3. FrameFits(h, k, Owning(t, h.s), d) /\ h.pc = "iput_repeat" /\ h.s = f.s
    BY <1>1, <2>1 DEF Frame, FrameFits, Fields
  <2>5. g.pc = "write_inode" /\ g.s = f.s /\ g = [x \in DOMAIN g |-> g[x]] /\ {"pc", "r", "s"} \subseteq DOMAIN g
    BY <2>1 DEF WriteInode, F, With
  <2>7. FrameFits(g, Takes(h.pc), Owning(t, g.s) + Owns(h, g.s), d)
    BY <1>1, <2>3, <2>5 DEF FrameFits, Fields
  <2>8. g.pc # "iput_free" /\ Takes(g.pc) = "other" /\ h.pc # "iput_free"
    BY <2>3, <2>5
  <2>10. \A s \in Slots : Owns(h, s) + Owns(g, s) = Own(f, s)
    BY <1>1, <2>3, <2>5 DEF Owns, Opened
  <2>11. TableStep(p) /\ SameCounts
    BY <1>3, <1>5
  <2>12. StackStep(p)
    BY <2>2, <2>3, <2>7, <2>8, <2>10, <2>11, Become2
  <2> QED BY <2>11, <2>12, PlainStep
<1> QED BY <1>2, <1>4, <1>5 DEF IputRepeat

LEMMA iput_repeatStep ==
    ASSUME RefInv, NEW p \in Procs, MayRun(p), UNCHANGED fd, iput_repeat(p)
    PROVE  StepOK(p)
<1> USE DEF TakesInode, TakesMaybe, TakesEmpty, TakesEntry, Takes, Puts, GivesInode, GivesMaybe, GivesEntry, Gives, Borrows, OwnsS, HasS, HasDirInode, HasDir, HasInode, HasArg, Opens, Plain
<1>1. PICK f, t, k, d : Runs(p, f, t, k, d) /\ Frame(f, t, k, d)
  BY Running
<1>2. f = Top(p) /\ f.pc = "iput_repeat"
  BY <1>1 DEF Runs, iput_repeat, At
<1>3. Unlocked(f.s) /\ IputRepeat(p, f) /\ UNCHANGED <<imap, panic, race>>
  BY <1>2 DEF iput_repeat
<1> QED BY <1>1, <1>2, <1>3, IputRepeatStep

LEMMA iputStep ==
    ASSUME RefInv, NEW p \in Procs, MayRun(p), UNCHANGED fd, iput(p)
    PROVE  StepOK(p)
<1> USE DEF TakesInode, TakesMaybe, TakesEmpty, TakesEntry, Takes, Puts, GivesInode, GivesMaybe, GivesEntry, Gives, Borrows, OwnsS, HasS, HasDirInode, HasDir, HasInode, HasArg, Opens, Plain
<1>1. PICK f, t, k, d : Runs(p, f, t, k, d) /\ Frame(f, t, k, d)
  BY Running
<1>2. f = Top(p) /\ f.pc = "iput"
  BY <1>1 DEF Runs, iput, At
<1>3. /\ f.s \in Slots /\ table[f.s].count \in Nat /\ table[f.s].count >= 1
      /\ \A s \in Slots : Own(f, s) = Opened(f.s, s)
      /\ k \in Plain \/ (k = "maybe" /\ f.v = NoSlot)
  BY <1>1, <1>2, PutFacts
<1>4. ASSUME IputRepeat(p, f), Unlocked(f.s), UNCHANGED <<imap, panic, race>> PROVE StepOK(p)
  BY <1>1, <1>2, <1>4, IputRepeatStep
<1>5. ASSUME Becomes(p, <<[f EXCEPT !.pc = "iput_repeat"]>>), SamePlace PROVE StepOK(p)
  <2>1. PICK g : g = [f EXCEPT !.pc = "iput_repeat"]
    OBVIOUS
  <2>2. Becomes(p, <<g>>)
    BY <1>5, <2>1
  <2>3. FrameFits(g, k, Owning(t, g.s), d) /\ g.pc = "iput_repeat" /\ g.s = f.s
    BY <1>1, <1>2, <1>3, <2>1 DEF Frame, FrameFits, Fields
  <2>4. g.pc # "iput_free" /\ Takes(g.pc) = "other"
    BY <2>3
  <2>5. \A s \in Slots : Owns(g, s) = Own(f, s)
    BY <1>3, <2>3 DEF Owns, Opened
  <2>6. TableStep(p) /\ SameCounts /\ UNCHANGED panic
    BY <1>1, <1>5, SameTable DEF Runs, SamePlace
  <2>7. StackStep(p)
    BY <1>1, <2>2, <2>3, <2>4, <2>5, <2>6, Become1
  <2> QED BY <1>1, <2>6, <2>7, PlainStep
<1>6. table[f.s].count # 0
  BY <1>3
<1> QED BY <1>2, <1>4, <1>5, <1>6 DEF iput

LEMMA iput_freeStep ==
    ASSUME RefInv, NEW p \in Procs, MayRun(p), UNCHANGED fd, iput_free(p)
    PROVE  StepOK(p)
<1> USE DEF TakesInode, TakesMaybe, TakesEmpty, TakesEntry, Takes, Puts, GivesInode, GivesMaybe, GivesEntry, Gives, Borrows, OwnsS, HasS, HasDirInode, HasDir, HasInode, HasArg, Opens, Plain
<1>1. PICK f, t, k, d : Runs(p, f, t, k, d) /\ Frame(f, t, k, d)
  BY Running
<1>2. f = Top(p) /\ f.pc = "iput_free"
  BY <1>1 DEF Runs, iput_free, At
<1>3. /\ f.s \in Slots /\ Has(p, f.s) /\ table[f.s].count \in Nat /\ table[f.s].count >= 1
      /\ \A s \in Slots : Own(f, s) = Opened(f.s, s)
      /\ k \in Plain \/ (k = "maybe" /\ f.v = NoSlot)
  BY <1>1, <1>2, PutFacts
<1>4. race = {} => table[f.s].count = 1 /\ table[f.s].nlinks = 0
  <2>1. f = stack[p][1] /\ IsStack(stack[p]) /\ stack[p] # <<>>
    BY <1>1 DEF Runs, StackOK
  <2>2. 1 \in DOMAIN stack[p]
    BY <2>1, PopFacts DEF IsStack
  <2>3. f.s \in Freeing(stack[p])
    BY <1>2, <2>1, <2>2 DEF Freeing
  <2> QED BY <2>3 DEF RefInv, FreeOK
<1>5. ASSUME race # {}, NEW msg, Panic(msg) PROVE StepOK(p)
  <2>1. UNCHANGED <<fd, stack, table, imap, race>>
    BY <1>5 DEF Panic
  <2>2. Takes(f.pc) # "entry" /\ (race' = {} => panic' \notin InodePanics)
    BY <1>2, <1>5, <2>1
  <2> QED BY <1>1, <2>1, <2>2, StayStep
<1>6. ASSUME table[f.s].count = 1, imap' = imap \ {table[f.s].num}, table' = [table EXCEPT ![f.s] = NoInode],
             race \subseteq race', Return(p, f.v), panic' = panic
      PROVE  StepOK(p)
  <2>1. PICK e : e = f.s
    OBVIOUS
  <2>2. NoInode = [x \in InodeFields |-> NoInode[x]] /\ NoInode.num = 0 /\ NoInode.count = 0
    BY DEF NoInode, InodeFields
  <2>3. NoInode.dirt = FALSE /\ NoInode.lock = FALSE
    BY DEF NoInode
  <2>4. IsInode(NoInode)
    <3>1. NoInode.dirt \in BOOLEAN /\ NoInode.lock \in BOOLEAN
      BY <2>3, Zenon
    <3>2. NoInode.count \in Nat
      BY <2>2
    <3> QED BY <2>2, <3>1, <3>2, Zenon DEF IsInode
  <2>5. TableOK /\ e \in Slots /\ table' = [table EXCEPT ![e] = NoInode]
    BY <1>1, <1>3, <1>6, <2>1 DEF Runs
  <2>6. /\ TableOK' /\ table'[e] = NoInode
        /\ \A s \in Slots : s # e => table'[s] = table[s] /\ SlotStep(p, s)
    BY <2>4, <2>5, OneSlot
  <2>7. SlotStep(p, e)
    <3>1. Clears(p, e)
      BY <1>3, <1>6, <2>1, <2>2, <2>3, <2>6 DEF Clears
    <3> QED BY <1>3, <2>1, <3>1 DEF SlotStep
  <2>8. OldNumber(p)
    BY <1>3, <1>6, <2>1, <2>2, <2>5, <2>6 DEF OldNumber
  <2>9. TableStep(p)
    BY <1>6, <2>6, <2>7, <2>8 DEF TableStep
  <2>10. GoodValue(p, k, f.v)
    BY <1>3 DEF GoodValue
  <2>11. Repays(f, k, f.v)
    <3> SUFFICES ASSUME NEW s \in Slots
                 PROVE  Passed(k, f.v, s) + table[s].count = Own(f, s) + table'[s].count
      BY DEF Repays
    <3>1. Passed(k, f.v, s) = 0 /\ Own(f, s) = IF s = e THEN 1 ELSE 0
      BY <1>3, <2>1, InodeAssumption DEF Passed, Opened
    <3>2. table[s].count \in Nat
      BY <2>5 DEF TableOK, IsInode
    <3>3. CASE s = e
      <4>1. table[s].count = 1 /\ table'[s].count = 0
        BY <1>6, <2>1, <2>2, <2>6, <3>3
      <4> QED BY <3>1, <3>3, <4>1
    <3>4. CASE s # e
      BY <2>6, <3>1, <3>2, <3>4
    <3> QED BY <3>3, <3>4
  <2>12. StackStep(p)
    BY <1>1, <1>6, <2>6, <2>10, <2>11, Returning
  <2> QED BY <1>1, <1>6, <2>9, <2>12, PlainStep
<1>7. race = {} => ~(table[f.s].count > 1) /\ ~(table[f.s].nlinks > 0)
  BY <1>4
<1> QED BY <1>2, <1>5, <1>6, <1>7 DEF iput_free, HitIf, Hit

LEMMA new_inodeStep ==
    ASSUME RefInv, NEW p \in Procs, MayRun(p), UNCHANGED fd, new_inode(p)
    PROVE  StepOK(p)
<1> USE DEF TakesInode, TakesMaybe, TakesEmpty, TakesEntry, Takes, Puts, GivesInode, GivesMaybe, GivesEntry, Gives, Borrows, OwnsS, HasS, HasDirInode, HasDir, HasInode, HasArg, Opens, Plain
<1>1. PICK f, t, k, d : Runs(p, f, t, k, d) /\ Frame(f, t, k, d)
  BY Running
<1>2. f = Top(p) /\ f.pc = "new_inode"
  BY <1>1 DEF Runs, new_inode, At
<1>3. PICK e, free, n : e = f.r /\ free = Inums \ imap /\ n = Min(free)
  OBVIOUS
<1>4. e \in Slots /\ Fresh(e) /\ TableOK /\ k = "maybe"
  BY <1>1, <1>2, <1>3 DEF Runs, Frame, FrameFits, Fields, TopOK
<1>5. \A s \in Slots : Own(f, s) = Opened(e, s)
  BY <1>2, <1>3 DEF Own, Owns, Waits, Opened
<1>6. Has(p, e)
  BY <1>1, <1>4, <1>5, HasTop DEF Opened
<1>7. ASSUME table' = [table EXCEPT ![e].count = @ - 1], Return(p, NoSlot), UNCHANGED <<imap, race, panic>>
      PROVE  StepOK(p)
  <2>1. CountOK /\ ~table[e].lock /\ ~table[e].dirt
    BY <1>4 DEF RefInv, Fresh
  <2> QED BY <1>1, <1>4, <1>5, <1>7, <2>1, Dropping
<1>8. ASSUME free # {}, imap' = imap \cup {n}, Return(p, e), UNCHANGED <<race, panic>>,
             table' = [table EXCEPT ![e].num = n, ![e].nlinks = 1, ![e].dirt = TRUE]
      PROVE  StepOK(p)
  <2>1. n \in Inums /\ n \notin imap
    <3>1. free \in SUBSET Nat
      BY <1>3, InodeAssumption DEF Inums
    <3>2. n \in free
      BY <1>3, <1>8, <3>1, MinIn
    <3> QED BY <1>3, <3>2
  <2>2. PICK i, j : i = table[e] /\ j = [i EXCEPT !.num = n, !.nlinks = 1, !.dirt = TRUE]
    OBVIOUS
  <2>3. IsInode(i) /\ DOMAIN i = InodeFields /\ i.count = 1
    BY <1>4, <2>2 DEF Fresh, TableOK, IsInode
  <2>4. j = [x \in InodeFields |-> j[x]] /\ j.num = n /\ j.count = i.count /\ j.lock = i.lock
    BY <2>2, <2>3 DEF InodeFields
  <2>5. j.dirt = TRUE
    BY <2>2, <2>3 DEF InodeFields
  <2>6. IsInode(j)
    BY <2>3, <2>4, <2>5 DEF IsInode
  <2>7. table' = [table EXCEPT ![e] = j]
    BY <1>4, <1>8, <2>2 DEF TableOK
  <2>8. /\ TableOK' /\ table'[e] = j
        /\ \A s \in Slots : s # e => table'[s] = table[s] /\ SlotStep(p, s)
    BY <1>4, <2>6, <2>7, OneSlot
  <2>9. SlotStep(p, e)
    <3>1. table'[e].count = 1
      BY <2>3, <2>4, <2>8
    <3> QED BY <1>4, <1>6, <3>1 DEF SlotStep, Fills
  <2>10. NewNumber
    <3>1. table'[e].num = n /\ \A s \in Slots \ {e} : table'[s].num = table[s].num
      BY <2>4, <2>8
    <3>2. n # ROOT_INO /\ n # 0
      BY <2>1, InodeAssumption DEF RefInv, RootOK, Inums
    <3>3. race' = {} => \A s \in Slots : table[s].num # n
      <4>1. race = {} => InTable
        BY DEF RefInv
      <4> QED BY <1>8, <2>1, <3>2, <4>1 DEF InTable
    <3>4. n \in imap' /\ imap \subseteq imap'
      BY <1>8
    <3> QED BY <1>4, <3>1, <3>2, <3>3, <3>4 DEF NewNumber
  <2>11. TableStep(p)
    BY <1>8, <2>8, <2>9, <2>10 DEF TableStep
  <2>12. SameCounts
    BY <2>2, <2>4, <2>8 DEF SameCounts
  <2>13. StackStep(p)
    BY <1>1, <1>4, <1>5, <1>8, <2>12, ReturnsInode
  <2> QED BY <1>1, <1>8, <2>11, <2>13, PlainStep
<1> QED BY <1>2, <1>3, <1>7, <1>8 DEF new_inode

-----------------------------------------------------------------------------
\* open_done and the start of a system call.
LEMMA open_doneStep ==
    ASSUME RefInv, NEW p \in Procs, MayRun(p), open_done(p)
    PROVE  StepOK(p)
<1> USE DEF TakesInode, TakesMaybe, TakesEmpty, TakesEntry, Takes, Puts, GivesInode, GivesMaybe, GivesEntry, Gives, Borrows, OwnsS, HasS, HasDirInode, HasDir, HasInode, HasArg, Opens, Plain
<1>1. PICK f, t, k, d : Runs(p, f, t, k, d) /\ Frame(f, t, k, d)
  BY Running
<1>2. f = Top(p) /\ f.pc = "open_done"
  BY <1>1 DEF Runs, open_done, At
<1>3. f.inode \in Slots /\ d = NoSlot /\ k = "exit"
  BY <1>1, <1>2 DEF Frame, FrameFits, Fields
<1>4. t = <<>>
  <2>1. k = Kind(t)
    BY <1>1 DEF Runs
  <2> QED BY <1>3, <2>1 DEF Kind
<1>5. IsStack(stack[p]) /\ stack[p] # <<>> /\ t = Tail(stack[p])
  BY <1>1 DEF Runs, StackOK
<1>6. Len(stack[p]) = 1
  <2>1. Len(stack[p]) \in Nat /\ Len(t) = Len(stack[p]) - 1 /\ Len(<<>>) = 0
    BY <1>5, PopFacts
  <2> QED BY <1>4, <2>1
<1>7. StacksOK /\ TableOK /\ d = fd[p]
  BY <1>1 DEF Runs
<1>8. stack' = [stack EXCEPT ![p] = <<>>] /\ stack'[p] = <<>> /\ fd' = [fd EXCEPT ![p] = f.inode] /\ fd'[p] = f.inode
  BY <1>2, <1>6, <1>7 DEF open_done, Return, StacksOK
<1>9. TableStep(p) /\ UNCHANGED <<table, panic>>
  BY <1>7, SameTable DEF open_done, SamePlace
<1>10. Good(p)' /\ Ready(p)'
  BY <1>8, StackEmpty DEF Good, Ready
<1>11. Balanced(p)
  <2> SUFFICES ASSUME NEW s \in Slots
               PROVE  Mine(p, s)' + table[s].count = Mine(p, s) + table'[s].count
    BY DEF Balanced
  <2>1. Mine(p, s)' = Refs(<<>>, f.inode, s)
    BY <1>8 DEF Mine
  <2>2. Refs(<<>>, f.inode, s) = Opened(f.inode, s)
    BY OwningNone DEF Refs, Opened
  <2>3. Mine(p, s) = Owning(<<>>, s) + Own(f, s) + Opened(NoSlot, s)
    BY <1>2, <1>3, <1>4, <1>5, <1>7, MineIs
  <2>4. Owning(<<>>, s) = 0 /\ Own(f, s) = Opened(f.inode, s) /\ Opened(NoSlot, s) = 0
    BY <1>2, OwningNone, InodeAssumption DEF Own, Owns, Waits, Opened
  <2>5. Opened(f.inode, s) \in Nat
    BY DEF Opened
  <2> QED BY <1>9, <2>1, <2>2, <2>3, <2>4, <2>5
<1>12. Freed(p)
  BY <1>8 DEF Freed, Freeing
<1>13. StackStep(p)
  BY <1>8, <1>10, <1>11, <1>12 DEF StackStep
<1>14. running \in {p, NoProc} /\ panic' \notin InodePanics
  BY <1>9 DEF MayRun, InodePanics
<1> QED BY <1>3, <1>8, <1>9, <1>13, <1>14 DEF StepOK

LEMMA BeginStep ==
    ASSUME RefInv, NEW p \in Procs, NEW u, Begins(p, u), fd' = [fd EXCEPT ![p] = fd'[p]],
           NEW d, d = fd'[p], d \in Slots \cup {NoSlot},
           StackOK(u, d), u # <<>>, Takes(u[1].pc) = "other", Freeing(u) = {},
           \A s \in Slots : Owning(u, s) + Opened(d, s) = Opened(fd[p], s)
    PROVE  StepOK(p)
<1>1. StacksOK /\ TableOK /\ stack[p] = <<>>
  BY DEF RefInv, Begins
<1>2. stack' = [stack EXCEPT ![p] = u] /\ stack'[p] = u
  BY <1>1 DEF Begins, StacksOK
<1>3. TableStep(p) /\ UNCHANGED <<table, panic>>
  BY <1>1, SameTable DEF Begins, SamePlace
<1>4. Good(p)' /\ Ready(p)'
  BY <1>2 DEF Good, Ready, TopOK
<1>5. Balanced(p)
  <2> SUFFICES ASSUME NEW s \in Slots
               PROVE  Mine(p, s)' + table[s].count = Mine(p, s) + table'[s].count
    BY DEF Balanced
  <2>1. Mine(p, s)' = Refs(u, d, s)
    BY <1>2 DEF Mine
  <2>2. Mine(p, s) = Refs(<<>>, fd[p], s)
    BY <1>1 DEF Mine
  <2>3. Refs(<<>>, fd[p], s) = Opened(fd[p], s)
    BY OwningNone DEF Refs, Opened
  <2>4. Waits(u[1], s) = 0
    BY WaitsOther
  <2>5. Owning(u, s) \in Nat /\ Opened(d, s) \in Nat
    BY OwningNat DEF StackOK, Opened
  <2>6. Refs(u, d, s) = Owning(u, s) + Opened(d, s)
    BY <2>4, <2>5 DEF Refs
  <2> QED BY <1>3, <2>1, <2>2, <2>3, <2>6
<1>6. Freed(p)
  BY <1>2 DEF Freed
<1>7. StackStep(p)
  BY <1>2, <1>4, <1>5, <1>6 DEF StackStep
<1>8. running \in {p, NoProc} /\ panic' \notin InodePanics
  BY <1>3 DEF Begins, InodePanics
<1> QED BY <1>3, <1>7, <1>8 DEF StepOK

\* The stack a call begins with: one frame, two or three.
LEMMA NoFrames == \A d, s : /\ StackOK(<<>>, d) /\ Kind(<<>>) = "exit" /\ Owning(<<>>, s) = 0
                            /\ Freeing(<<>>) = {}
BY StackEmpty, OwningNone DEF Kind, Freeing

LEMMA Begin1 ==
    ASSUME RefInv, NEW p \in Procs, NEW g, Begins(p, <<g>>), fd' = [fd EXCEPT ![p] = fd'[p]],
           NEW d, d = fd'[p], d \in Slots \cup {NoSlot},
           FrameFits(g, "exit", 0, d), Takes(g.pc) = "other", g.pc # "iput_free",
           \A s \in Slots : Owns(g, s) + Opened(d, s) = Opened(fd[p], s)
    PROVE  StepOK(p)
<1>1. PICK u, t : u = <<g>> /\ t = <<>>
  OBVIOUS
<1>2. u = <<g>> \o t
  BY <1>1, Frames2
<1>3. StackOK(t, d) /\ FrameFits(g, Kind(t), Owning(t, g.s), d)
  BY <1>1, NoFrames
<1>4. /\ StackOK(u, d) /\ u # <<>> /\ u[1] = g /\ Freeing(u) = Freeing(t) \cup Frees(g)
      /\ \A s : Owning(u, s) = Owning(t, s) + Owns(g, s)
  BY <1>2, <1>3, Push1
<1>5. Freeing(u) = {}
  BY <1>1, <1>4, NoFrames DEF Frees
<1>6. \A s \in Slots : Owning(u, s) + Opened(d, s) = Opened(fd[p], s)
  <2> TAKE s \in Slots
  <2>1. Owning(u, s) = Owns(g, s)
    BY <1>1, <1>4, NoFrames, OwnsNat
  <2> QED BY <2>1
<1>7. Begins(p, u) /\ Takes(u[1].pc) = "other"
  BY <1>1, <1>4
<1> QED BY <1>4, <1>5, <1>6, <1>7, BeginStep

LEMMA Begin2 ==
    ASSUME RefInv, NEW p \in Procs, NEW g, NEW h, Begins(p, <<g, h>>), UNCHANGED fd,
           NEW d, d = fd[p], FrameFits(h, "exit", 0, d), FrameFits(g, Takes(h.pc), Owns(h, g.s), d),
           Takes(g.pc) = "other", g.pc # "iput_free", h.pc # "iput_free",
           \A s \in Slots : Owns(g, s) = 0 /\ Owns(h, s) = 0
    PROVE  StepOK(p)
<1>1. PICK u, t : u = <<g, h>> /\ t = <<>>
  OBVIOUS
<1>2. u = <<g, h>> \o t
  <2>1. u \in Seq({g, h})
    BY <1>1
  <2>2. u \o <<>> = u
    BY <2>1
  <2> QED BY <1>1, <2>2
<1>3. StackOK(t, d) /\ FrameFits(h, Kind(t), Owning(t, h.s), d)
  BY <1>1, NoFrames
<1>4. FrameFits(g, Takes(h.pc), Owning(t, g.s) + Owns(h, g.s), d)
  <2>1. Owning(t, g.s) + Owns(h, g.s) = Owns(h, g.s)
    BY <1>1, NoFrames, OwnsNat
  <2> QED BY <2>1
<1>5. /\ StackOK(u, d) /\ u # <<>> /\ u[1] = g /\ Freeing(u) = Freeing(t) \cup Frees(h) \cup Frees(g)
      /\ \A s : Owning(u, s) = Owning(t, s) + Owns(h, s) + Owns(g, s)
  BY <1>2, <1>3, <1>4, Push2
<1>6. Freeing(u) = {}
  BY <1>1, <1>5, NoFrames DEF Frees
<1>7. \A s \in Slots : Owning(u, s) + Opened(d, s) = Opened(fd[p], s)
  <2> TAKE s \in Slots
  <2>1. Owning(u, s) = 0
    BY <1>1, <1>5, NoFrames
  <2>2. Opened(d, s) \in Nat
    BY DEF Opened
  <2> QED BY <2>1, <2>2
<1>8. Begins(p, u) /\ Takes(u[1].pc) = "other"
  BY <1>1, <1>5
<1>9. StacksOK
  BY DEF RefInv
<1>10. d = fd'[p] /\ d \in Slots \cup {NoSlot} /\ fd' = [fd EXCEPT ![p] = fd'[p]]
  BY <1>9 DEF StacksOK
<1> QED BY <1>5, <1>6, <1>7, <1>8, <1>10, BeginStep

LEMMA Begin3 ==
    ASSUME RefInv, NEW p \in Procs, NEW g, NEW h, NEW i, Begins(p, <<g, h, i>>), UNCHANGED fd,
           NEW d, d = fd[p], FrameFits(i, "exit", 0, d), FrameFits(h, Takes(i.pc), Owns(i, h.s), d),
           FrameFits(g, Takes(h.pc), Owns(i, g.s) + Owns(h, g.s), d),
           Takes(g.pc) = "other", g.pc # "iput_free", h.pc # "iput_free", i.pc # "iput_free",
           \A s \in Slots : Owns(g, s) = 0 /\ Owns(h, s) = 0 /\ Owns(i, s) = 0
    PROVE  StepOK(p)
<1>1. PICK u, t : u = <<g, h, i>> /\ t = <<>>
  OBVIOUS
<1>2. u = <<g, h, i>> \o t
  <2>1. u \in Seq({g, h, i})
    BY <1>1
  <2>2. u \o <<>> = u
    BY <2>1
  <2> QED BY <1>1, <2>2
<1>3. StackOK(t, d) /\ FrameFits(i, Kind(t), Owning(t, i.s), d)
  BY <1>1, NoFrames
<1>4. FrameFits(h, Takes(i.pc), Owning(t, h.s) + Owns(i, h.s), d)
  <2>1. Owning(t, h.s) + Owns(i, h.s) = Owns(i, h.s)
    BY <1>1, NoFrames, OwnsNat
  <2> QED BY <2>1
<1>11. FrameFits(g, Takes(h.pc), Owning(t, g.s) + Owns(i, g.s) + Owns(h, g.s), d)
  <2>1. Owning(t, g.s) + Owns(i, g.s) + Owns(h, g.s) = Owns(i, g.s) + Owns(h, g.s)
    BY <1>1, NoFrames, OwnsNat
  <2> QED BY <2>1
<1>5. /\ StackOK(u, d) /\ u # <<>> /\ u[1] = g
      /\ Freeing(u) = Freeing(t) \cup Frees(i) \cup Frees(h) \cup Frees(g)
      /\ \A s : Owning(u, s) = Owning(t, s) + Owns(i, s) + Owns(h, s) + Owns(g, s)
  BY <1>2, <1>3, <1>4, <1>11, Push3
<1>6. Freeing(u) = {}
  BY <1>1, <1>5, NoFrames DEF Frees
<1>7. \A s \in Slots : Owning(u, s) + Opened(d, s) = Opened(fd[p], s)
  <2> TAKE s \in Slots
  <2>1. Owning(u, s) = 0
    BY <1>1, <1>5, NoFrames
  <2>2. Opened(d, s) \in Nat
    BY DEF Opened
  <2> QED BY <2>1, <2>2
<1>8. Begins(p, u) /\ Takes(u[1].pc) = "other"
  BY <1>1, <1>5
<1>9. StacksOK
  BY DEF RefInv
<1>10. d = fd'[p] /\ d \in Slots \cup {NoSlot} /\ fd' = [fd EXCEPT ![p] = fd'[p]]
  BY <1>9 DEF StacksOK
<1> QED BY <1>5, <1>6, <1>7, <1>8, <1>10, BeginStep

LEMMA CallStep ==
    ASSUME RefInv, NEW p \in Procs, Call(p)
    PROVE  StepOK(p)
<1> USE DEF TakesInode, TakesMaybe, TakesEmpty, TakesEntry, Takes, Puts, GivesInode, GivesMaybe, GivesEntry, Gives, Borrows, OwnsS, HasS, HasDirInode, HasDir, HasInode, HasArg, Opens, Plain
<1>0. PICK d : d = fd[p]
  OBVIOUS
<1>1. d \in Slots \cup {NoSlot} /\ fd \in [Procs -> Slots \cup {NoSlot}]
  BY <1>0 DEF RefInv, StacksOK
<1>2. ASSUME fd[p] = NoSlot, NEW path, NEW flags, UNCHANGED fd,
             Begins(p, <<DirNamei(path), F("open_dir", [name |-> Last(path), flags |-> flags])>>)
      PROVE  StepOK(p)
  <2>1. PICK g, h : g = DirNamei(path) /\ h = F("open_dir", [name |-> Last(path), flags |-> flags])
    OBVIOUS
  <2>2. FrameFits(h, "exit", 0, d)
    BY <1>0, <1>2, <2>1 DEF FrameFits, Fields, F, With
  <2>3. FrameFits(g, Takes(h.pc), Owns(h, g.s), d)
    BY <2>1 DEF FrameFits, Fields, F, With, DirNamei
  <2>4. Takes(g.pc) = "other" /\ g.pc # "iput_free" /\ h.pc # "iput_free"
    BY <2>1 DEF F, With, DirNamei
  <2>5. \A s \in Slots : Owns(g, s) = 0 /\ Owns(h, s) = 0
    BY <2>1 DEF F, With, DirNamei, Owns
  <2>6. Begins(p, <<g, h>>)
    BY <1>2, <2>1
  <2> QED BY <1>0, <1>2, <2>2, <2>3, <2>4, <2>5, <2>6, Begin2
<1>3. ASSUME fd[p] # NoSlot, NEW b, UNCHANGED fd,
             Begins(p, <<Bmap(fd[p], b, TRUE), F("file_write", [s |-> fd[p], b |-> b])>>)
      PROVE  StepOK(p)
  <2>1. PICK g, h : g = Bmap(d, b, TRUE) /\ h = F("file_write", [s |-> d, b |-> b])
    OBVIOUS
  <2>2. FrameFits(h, "exit", 0, d)
    BY <1>0, <1>1, <1>3, <2>1 DEF FrameFits, Fields, F, With
  <2>3. FrameFits(g, Takes(h.pc), Owns(h, g.s), d)
    BY <1>0, <1>1, <1>3, <2>1 DEF FrameFits, Fields, F, With, Bmap
  <2>4. Takes(g.pc) = "other" /\ g.pc # "iput_free" /\ h.pc # "iput_free"
    BY <2>1 DEF F, With, Bmap
  <2>5. \A s \in Slots : Owns(g, s) = 0 /\ Owns(h, s) = 0
    BY <2>1 DEF F, With, Bmap, Owns
  <2>6. Begins(p, <<g, h>>)
    BY <1>0, <1>3, <2>1
  <2> QED BY <1>0, <1>3, <2>2, <2>3, <2>4, <2>5, <2>6, Begin2
<1>4. ASSUME fd[p] # NoSlot, Begins(p, <<Iput(fd[p], 0)>>), fd' = [fd EXCEPT ![p] = NoSlot]
      PROVE  StepOK(p)
  <2>1. PICK g : g = Iput(d, 0)
    OBVIOUS
  <2>2. d \in Slots /\ fd'[p] = NoSlot /\ fd' = [fd EXCEPT ![p] = fd'[p]]
    BY <1>0, <1>1, <1>4
  <2>3. FrameFits(g, "exit", 0, NoSlot)
    BY <2>1, <2>2 DEF FrameFits, Fields, F, With, Iput
  <2>4. Takes(g.pc) = "other" /\ g.pc # "iput_free"
    BY <2>1 DEF F, With, Iput
  <2>5. \A s \in Slots : Owns(g, s) + Opened(NoSlot, s) = Opened(fd[p], s)
    BY <1>0, <2>1, InodeAssumption DEF F, With, Iput, Owns, Opened
  <2>6. Begins(p, <<g>>)
    BY <1>0, <1>4, <2>1
  <2> QED BY <2>2, <2>3, <2>4, <2>5, <2>6, Begin1
<1>5. ASSUME NEW call \in Calls, NEW path, NEW mode, UNCHANGED fd, Begins(p, Lookup(call, path, mode))
      PROVE  StepOK(p)
  <2>1. PICK g, h : /\ g = DirNamei(path)
                    /\ h = F("lookup", [call |-> call, name |-> Last(path), arg |-> mode])
    OBVIOUS
  <2>0. call \in CallNames /\ call # "link"
    BY NameiAssumption DEF CallNames
  <2>2. FrameFits(h, "exit", 0, d)
    BY <2>0, <2>1 DEF FrameFits, Fields, F, With
  <2>3. FrameFits(g, Takes(h.pc), Owns(h, g.s), d)
    BY <2>1 DEF FrameFits, Fields, F, With, DirNamei
  <2>4. Takes(g.pc) = "other" /\ g.pc # "iput_free" /\ h.pc # "iput_free"
    BY <2>1 DEF F, With, DirNamei
  <2>5. \A s \in Slots : Owns(g, s) = 0 /\ Owns(h, s) = 0
    BY <2>0, <2>1 DEF F, With, DirNamei, Owns
  <2>6. Begins(p, <<g, h>>)
    BY <1>5, <2>1 DEF Lookup
  <2> QED BY <1>0, <1>5, <2>2, <2>3, <2>4, <2>5, <2>6, Begin2
<1>6. ASSUME NEW old, NEW new, UNCHANGED fd,
             Begins(p, <<DirNamei(old), F("namei", [name |-> Last(old)]), F("link", [new |-> new])>>)
      PROVE  StepOK(p)
  <2>1. PICK g, h, i : g = DirNamei(old) /\ h = F("namei", [name |-> Last(old)]) /\ i = F("link", [new |-> new])
    OBVIOUS
  <2>2. FrameFits(i, "exit", 0, d)
    BY <2>1 DEF FrameFits, Fields, F, With
  <2>3. FrameFits(h, Takes(i.pc), Owns(i, h.s), d)
    BY <2>1 DEF FrameFits, Fields, F, With
  <2>4. FrameFits(g, Takes(h.pc), Owns(i, g.s) + Owns(h, g.s), d)
    BY <2>1 DEF FrameFits, Fields, F, With, DirNamei
  <2>5. Takes(g.pc) = "other" /\ g.pc # "iput_free" /\ h.pc # "iput_free" /\ i.pc # "iput_free"
    BY <2>1 DEF F, With, DirNamei
  <2>6. \A s \in Slots : Owns(g, s) = 0 /\ Owns(h, s) = 0 /\ Owns(i, s) = 0
    BY <2>1 DEF F, With, DirNamei, Owns
  <2>7. Begins(p, <<g, h, i>>)
    BY <1>6, <2>1
  <2> QED BY <1>0, <1>6, <2>2, <2>3, <2>4, <2>5, <2>6, <2>7, Begin3
<1>7. ASSUME UNCHANGED fd, Begins(p, <<F("sync_inodes", [left |-> Slots])>>)
      PROVE  StepOK(p)
  <2>1. PICK g : g = F("sync_inodes", [left |-> Slots])
    OBVIOUS
  <2>2. fd'[p] = d /\ fd' = [fd EXCEPT ![p] = fd'[p]]
    BY <1>0, <1>1, <1>7
  <2>3. FrameFits(g, "exit", 0, d)
    BY <2>1 DEF FrameFits, Fields, F, With
  <2>4. Takes(g.pc) = "other" /\ g.pc # "iput_free"
    BY <2>1 DEF F, With
  <2>5. \A s \in Slots : Owns(g, s) + Opened(d, s) = Opened(fd[p], s)
    BY <1>0, <2>1 DEF F, With, Owns, Opened
  <2>6. Begins(p, <<g>>)
    BY <1>7, <2>1
  <2> QED BY <1>1, <2>2, <2>3, <2>4, <2>5, <2>6, Begin1
<1>8. open(p) => StepOK(p)
  BY <1>2 DEF open
<1>9. write(p) => StepOK(p)
  BY <1>3 DEF write
<1>10. close(p) => StepOK(p)
  BY <1>4 DEF close
<1>11. change(p) => StepOK(p)
  BY <1>5 DEF change
<1>12. new_link(p) => StepOK(p)
  BY <1>6 DEF new_link
<1>13. sync(p) => StepOK(p)
  BY <1>7 DEF sync
<1> QED BY <1>8, <1>9, <1>10, <1>11, <1>12, <1>13 DEF Call
-----------------------------------------------------------------------------
\* Every step, the first state, and what follows.
LEMMA InodeStepOK ==
    ASSUME RefInv, NEW p \in Procs, MayRun(p), UNCHANGED fd, InodeStep(p)
    PROVE  StepOK(p)
<1>1. (wait_on_inode(p) \/ write_inode(p) \/ write_copy(p) \/ read_inode(p) \/ inode_block_unreadable(p) \/ get_empty_inode(p)) => StepOK(p)
  BY wait_on_inodeStep, write_inodeStep, write_copyStep, read_inodeStep, inode_block_unreadableStep, get_empty_inodeStep
<1>2. (iget(p) \/ iput(p) \/ iput_repeat(p) \/ iput_free(p) \/ new_inode(p) \/ new_block(p)) => StepOK(p)
  BY igetStep, iputStep, iput_repeatStep, iput_freeStep, new_inodeStep, new_blockStep
<1>3. (new_block_clear(p) \/ bmap(p) \/ bmap_store(p) \/ free_block(p) \/ truncate(p) \/ free_ind(p)) => StepOK(p)
  BY new_block_clearStep, bmapStep, bmap_storeStep, free_blockStep, truncateStep, free_indStep
<1>4. (free_ind_read(p) \/ truncate_done(p) \/ sync_inodes(p)) => StepOK(p)
  BY free_ind_readStep, truncate_doneStep, sync_inodesStep
<1> QED BY <1>1, <1>2, <1>3, <1>4 DEF InodeStep

LEMMA NameiStepOK ==
    ASSUME RefInv, NEW p \in Procs, MayRun(p), UNCHANGED fd, NameiStep(p)
    PROVE  StepOK(p)
<1>1. (first_block(p) \/ find_entry(p) \/ find_next(p) \/ add_entry(p) \/ add_next(p) \/ get_dir(p)) => StepOK(p)
  BY first_blockStep, find_entryStep, find_nextStep, add_entryStep, add_nextStep, get_dirStep
<1>2. (get_dir_step(p) \/ get_dir_found(p) \/ namei(p) \/ namei_found(p) \/ namei_done(p) \/ lookup(p)) => StepOK(p)
  BY get_dir_stepStep, get_dir_foundStep, nameiStep, namei_foundStep, namei_doneStep, lookupStep
<1>3. (found(p) \/ mknod(p) \/ mknod_add(p) \/ drop(p) \/ mkdir(p) \/ mkdir_block(p)) => StepOK(p)
  BY foundStep, mknodStep, mknod_addStep, dropStep, mkdirStep, mkdir_blockStep
<1>4. (mkdir_fill(p) \/ mkdir_add(p) \/ mkdir_free(p) \/ rmdir(p) \/ empty_dir(p) \/ empty_scan(p)) => StepOK(p)
  BY mkdir_fillStep, mkdir_addStep, mkdir_freeStep, rmdirStep, empty_dirStep, empty_scanStep
<1>5. (empty_next(p) \/ rmdir_empty(p) \/ unlink(p) \/ link(p) \/ link_add(p) \/ link_done(p)) => StepOK(p)
  BY empty_nextStep, rmdir_emptyStep, unlinkStep, linkStep, link_addStep, link_doneStep
<1>6. (open_dir(p) \/ open_found(p) \/ open_new(p) \/ open_add(p) \/ open_inode(p) \/ file_write(p)) => StepOK(p)
  BY open_dirStep, open_foundStep, open_newStep, open_addStep, open_inodeStep, file_writeStep
<1>7. file_written(p) => StepOK(p)
  BY file_writtenStep
<1> QED BY <1>1, <1>2, <1>3, <1>4, <1>5, <1>6, <1>7 DEF NameiStep

LEMMA RefStutter ==
    ASSUME RefInv, UNCHANGED vars
    PROVE  RefInv'
<1>1. UNCHANGED <<running, stack, table, imap, block, panic, race, fd>>
  BY DEF vars, inodeVars
<1>2. StacksOK /\ TableOK /\ CountOK /\ RootOK /\ ReadyOK /\ UnusedIsClean /\ PanicOK
  BY DEF RefInv
<1>3. StacksOK' /\ TableOK' /\ RootOK' /\ PanicOK'
  BY <1>1, <1>2 DEF StacksOK, Good, TableOK, RootOK, PanicOK
<1>4. CountOK' /\ UnusedIsClean'
  BY <1>1, <1>2 DEF CountOK, RefSet, UnusedIsClean
<1>5. ReadyOK'
  BY <1>1, <1>2 DEF ReadyOK, Ready, Fresh, Entry
<1>6. race' = {} => OneInodePerNumber' /\ InTable' /\ FreeOK'
  BY <1>1 DEF RefInv, OneInodePerNumber, InTable, FreeOK
<1> QED BY <1>3, <1>4, <1>5, <1>6 DEF RefInv

LEMMA RefNext ==
    ASSUME RefInv, Next
    PROVE  RefInv'
<1>1. ASSUME NEW p \in Procs, MayRun(p), Step(p) PROVE RefInv'
  <2>1. CASE (InodeStep(p) \/ NameiStep(p)) /\ UNCHANGED <<fd, calls, readErrors>>
    BY <1>1, <2>1, InodeStepOK, NameiStepOK, StepKeeps
  <2>2. CASE open_done(p)
    BY <1>1, <2>2, open_doneStep, StepKeeps
  <2> QED BY <1>1, <2>1, <2>2 DEF Step
<1>2. ASSUME NEW p \in Procs, Call(p) PROVE RefInv'
  BY <1>2, CallStep, StepKeeps
<1>3. UNCHANGED vars => RefInv'
  BY RefStutter
<1> QED BY <1>1, <1>2, <1>3 DEF Next

LEMMA MountedTable ==
    ASSUME NEW inodes, NEW blocks, Mounted(inodes, blocks), ROOT_INO \in DOMAIN inodes,
           NEW nlinks, NEW size, NEW a, NEW b, NEW c, inodes[ROOT_INO] = File("dir", nlinks, size, a, b, c)
    PROVE  /\ TableOK /\ RootOK
           /\ \A s \in Slots : ~table[s].dirt /\ ~table[s].lock /\ table[s].count = Mounts(s)
           /\ \A s \in Slots : s # Root => table[s].num = 0
<1>1. PICK i, j : i = inodes[ROOT_INO] /\ j = With(i, [NoInode EXCEPT !.num = ROOT_INO, !.count = 1])
  OBVIOUS
<1>2. DOMAIN i = {"mode", "nlinks", "size", "zone"}
  BY <1>1 DEF File
<1>3. PICK n : n = [NoInode EXCEPT !.num = ROOT_INO, !.count = 1]
  OBVIOUS
<1>4. /\ DOMAIN n = InodeFields /\ n.num = 1 /\ n.count = 1
      /\ n.dirt = FALSE /\ n.lock = FALSE
  BY <1>3 DEF NoInode, InodeFields, ROOT_INO
<1>5. j = [x \in InodeFields |-> IF x \in DOMAIN i THEN i[x] ELSE n[x]]
  <2>1. DOMAIN i \cup DOMAIN n = InodeFields
    BY <1>2, <1>4 DEF InodeFields
  <2> QED BY <1>1, <1>3, <2>1 DEF With
<1>6. j = [x \in InodeFields |-> j[x]] /\ j.num = 1 /\ j.count = 1 /\ j.dirt = n.dirt /\ j.lock = n.lock
  BY <1>2, <1>4, <1>5 DEF InodeFields
<1>7. j.dirt = FALSE /\ j.lock = FALSE
  BY <1>4, <1>6
<1>8. IsInode(j)
  <2>1. j.dirt \in BOOLEAN /\ j.lock \in BOOLEAN
    BY <1>7, Zenon
  <2>2. j.count \in Nat
    BY <1>6
  <2> QED BY <1>6, <2>1, <2>2, Zenon DEF IsInode
<1>9. NoInode = [x \in InodeFields |-> NoInode[x]] /\ NoInode.num = 0 /\ NoInode.count = 0
  BY DEF NoInode, InodeFields
<1>10. NoInode.dirt = FALSE /\ NoInode.lock = FALSE
  BY DEF NoInode
<1>11. IsInode(NoInode)
  <2>1. NoInode.dirt \in BOOLEAN /\ NoInode.lock \in BOOLEAN
    BY <1>10, Zenon
  <2>2. NoInode.count \in Nat
    BY <1>9
  <2> QED BY <1>9, <2>1, <2>2, Zenon DEF IsInode
<1>12. table = [s \in Slots |-> IF s # Root THEN NoInode ELSE j] /\ imap = DOMAIN inodes
  BY <1>1 DEF Mounted, Root
<1>13. \A s \in Slots : table[s] = IF s = Root THEN j ELSE NoInode
  BY <1>12
<1>14. TableOK
  BY <1>8, <1>11, <1>12, <1>13 DEF TableOK
<1>15. Root \in Slots
  BY InodeAssumption DEF Root
<1>16. RootOK
  BY <1>6, <1>9, <1>12, <1>13, <1>15 DEF RootOK, ROOT_INO
<1>17. \A s \in Slots : ~table[s].dirt /\ ~table[s].lock
  BY <1>7, <1>10, <1>13
<1>18. \A s \in Slots : table[s].count = Mounts(s)
  BY <1>6, <1>9, <1>13 DEF Mounts
<1>19. \A s \in Slots : s # Root => table[s].num = 0
  BY <1>9, <1>13
<1> QED BY <1>14, <1>16, <1>17, <1>18, <1>19

LEMMA RefInit ==
    ASSUME Init
    PROVE  RefInv
<1>1. /\ TableOK /\ RootOK
      /\ \A s \in Slots : ~table[s].dirt /\ ~table[s].lock /\ table[s].count = Mounts(s)
      /\ \A s \in Slots : s # Root => table[s].num = 0
  <2>1. CASE Formatted
    <3>1. PICK i, b : i = <<File("dir", 2, 2, 1, 0, 0)>> /\ b = <<Dir(1, 1, <<>>)>>
      OBVIOUS
    <3>2. Mounted(i, b) /\ ROOT_INO \in DOMAIN i /\ i[ROOT_INO] = File("dir", 2, 2, 1, 0, 0)
      BY <2>1, <3>1 DEF Formatted, ROOT_INO
    <3> QED BY <3>2, MountedTable
  <2>2. CASE Populated
    <3>1. PICK e, x : Mounted(<<File("dir", 3, 3, 1, 0, 0), File("dir", 2, 3, 2, 0, 0),
                   File("reg", 1, DIRECT + PER_BLOCK + 1, 3, 4, 6)>>,
                 <<Dir(1, 1, << <<e, 2>> >>), Dir(2, 1, << <<x, 3>> >>), Cleared,
                   Indirect(<<5>>), Cleared, Indirect(<<7>>), Indirect(<<8>>), Cleared>>)
      BY <2>2 DEF Populated
    <3>2. PICK i, b : /\ i = <<File("dir", 3, 3, 1, 0, 0), File("dir", 2, 3, 2, 0, 0),
                               File("reg", 1, DIRECT + PER_BLOCK + 1, 3, 4, 6)>>
                      /\ b = <<Dir(1, 1, << <<e, 2>> >>), Dir(2, 1, << <<x, 3>> >>), Cleared,
                                 Indirect(<<5>>), Cleared, Indirect(<<7>>), Indirect(<<8>>), Cleared>>
      OBVIOUS
    <3>3. Mounted(i, b)
      BY <3>1, <3>2
    <3>4. ROOT_INO \in DOMAIN i /\ i[ROOT_INO] = File("dir", 3, 3, 1, 0, 0)
      BY <3>2 DEF ROOT_INO
    <3> QED BY <3>3, <3>4, MountedTable
  <2> QED BY <2>1, <2>2 DEF Init
<1>2. /\ stack = [p \in Procs |-> <<>>] /\ fd = [p \in Procs |-> NoSlot] /\ race = {} /\ panic = ""
  BY DEF Init
<1>3. StacksOK
  BY <1>2, StackEmpty DEF StacksOK, Good
<1>4. CountOK
  <2> SUFFICES ASSUME NEW s \in Slots
               PROVE  IsFiniteSet(RefSet(s)) /\ table[s].count = Cardinality(RefSet(s)) + Mounts(s)
    BY DEF CountOK
  <2>1. Refs(<<>>, NoSlot, s) = 0
    BY OwningNone, InodeAssumption DEF Refs, Opened
  <2>2. \A p \in Procs : Refs(stack[p], fd[p], s) = 0
    BY <1>2, <2>1
  <2>3. RefSet(s) = {}
    BY <2>2 DEF RefSet
  <2>4. Mounts(s) \in Nat
    BY DEF Mounts
  <2> QED BY <1>1, <2>3, <2>4, FS_EmptySet
<1>5. ReadyOK /\ FreeOK
  <2>1. \A p \in Procs : stack[p] = <<>>
    BY <1>2
  <2>2. Freeing(<<>>) = {}
    BY DEF Freeing
  <2> QED BY <2>1, <2>2 DEF ReadyOK, Ready, FreeOK
<1>6. UnusedIsClean
  BY <1>1 DEF UnusedIsClean
<1>7. OneInodePerNumber /\ InTable
  BY <1>1 DEF OneInodePerNumber, InTable, RootOK
<1>8. PanicOK
  BY <1>2 DEF PanicOK, InodePanics
<1> QED BY <1>1, <1>3, <1>4, <1>5, <1>6, <1>7, <1>8 DEF RefInv

\* References to the entries of the inode table are counted: whatever the
\* processes do, i_count of an entry is the number of frames and open files
\* that have it, and an entry that no-one has is clean, unlocked and free.
THEOREM References == Spec => []RefInv
<1>1. Init => RefInv
  BY RefInit
<1>2. RefInv /\ [Next]_vars => RefInv'
  BY RefNext, RefStutter
<1> QED BY <1>1, <1>2, PTL DEF Spec

\* An inode is in the table once, whatever processes iget, reuse and free
\* at the same time (unless one ran into one of the windows of `race').
THEOREM OnceInTable == Spec => []OneInodePerNumber
<1>1. RefInv => OneInodePerNumber
  BY DEF RefInv, OneInodePerNumber
<1> QED BY <1>1, References, PTL

\* get_empty_inode never meets an unused inode that is dirty or locked, so
\* that it never has to write one back: iput has done so.
THEOREM UnusedStaysClean == Spec => []UnusedIsClean
<1>1. RefInv => UnusedIsClean
  BY DEF RefInv
<1> QED BY <1>1, References, PTL

\* None of the panics of inode.c about counts and links is reached: iput is
\* never called for a free inode, free_inode never for one that has users or
\* links.  This is what KnownPanics says of inode.c.
InodeCountsKept == race = {} => panic \notin InodePanics
THEOREM NoCountPanic == Spec => []InodeCountsKept
<1>1. RefInv => InodeCountsKept
  BY DEF RefInv, PanicOK, InodeCountsKept
<1> QED BY <1>1, References, PTL

\* Between system calls i_count is the number of files open, and one more for
\* the root directory: every way out of a system call gives back what it got.
THEOREM CountsKept == Spec => []CountsMatch
<1>1. RefInv => CountsMatch
  <2> SUFFICES ASSUME RefInv, Quiet, NEW s \in Slots
               PROVE  table[s].count = Cardinality({p \in Procs : fd[p] = s})
                                         + (IF table[s].num = ROOT_INO THEN 1 ELSE 0)
    BY DEF CountsMatch
  <2>1. PICK S, T : S = RefSet(s) /\ T = {p \in Procs : fd[p] = s}
    OBVIOUS
  <2>2. IsFiniteSet(S) /\ table[s].count = Cardinality(S) + Mounts(s)
    BY <2>1 DEF RefInv, CountOK
  <2>3. Mounts(s) = IF table[s].num = ROOT_INO THEN 1 ELSE 0
    BY DEF RefInv, RootOK, Mounts
  <2>4. \A p \in Procs : Refs(stack[p], fd[p], s) = Opened(fd[p], s)
    <3> TAKE p \in Procs
    <3>1. stack[p] = <<>>
      BY DEF Quiet
    <3> QED BY <3>1, OwningNone DEF Refs, Opened
  <2>5. S = {<<p, 1>> : p \in T}
    <3>1. \A p \in Procs : \A n : n \in 1 .. Refs(stack[p], fd[p], s) <=> n = 1 /\ p \in T
      <4> TAKE p \in Procs
      <4> TAKE n
      <4>1. CASE fd[p] = s
        <5>1. Refs(stack[p], fd[p], s) = 1 /\ p \in T
          BY <2>1, <2>4, <4>1 DEF Opened
        <5> QED BY <5>1
      <4>2. CASE fd[p] # s
        <5>1. Refs(stack[p], fd[p], s) = 0 /\ p \notin T
          BY <2>1, <2>4, <4>2 DEF Opened
        <5> QED BY <5>1
      <4> QED BY <4>1, <4>2
    <3>2. \A x : x \in S <=> \E p \in Procs : \E n \in 1 .. Refs(stack[p], fd[p], s) : x = <<p, n>>
      BY <2>1 DEF RefSet
    <3>3. \A x : x \in S <=> \E p \in T : x = <<p, 1>>
      BY <2>1, <3>1, <3>2
    <3> QED BY <3>3
  <2>6. ExistsBijection(S, T)
    <3>1. PICK m : m = [x \in S |-> x[1]]
      OBVIOUS
    <3>2. m \in [S -> T] /\ \A x, y \in S : m[x] = m[y] => x = y
      BY <2>5, <3>1
    <3>3. \A p \in T : \E x \in S : m[x] = p
      <4> TAKE p \in T
      <4>1. <<p, 1>> \in S /\ m[<<p, 1>>] = p
        BY <2>5, <3>1
      <4> QED BY <4>1
    <3>4. m \in Bijection(S, T)
      BY <3>2, <3>3 DEF Bijection, Injection, Surjection, IsInjective
    <3> QED BY <3>4 DEF ExistsBijection
  <2>7. Cardinality(T) = Cardinality(S)
    BY <2>2, <2>6, FS_Bijection
  <2> QED BY <2>1, <2>2, <2>3, <2>7
<1> QED BY <1>1, References, PTL
=============================================================================
