-------------------------------- MODULE Memory --------------------------------
(***************************************************************************)
(* mm/memory.c: page frames, page tables, copy on write, loading on demand *)
(* and sharing of pages between tasks that run the same program, with the  *)
(* callers that matter: fork (copy_mem), exit, execve and the system calls *)
(* that write to user memory.                                              *)
(*                                                                         *)
(* A page directory entry stands for 4 MB; here each covers one page, so   *)
(* that copying several page tables, and running out of memory half way    *)
(* through, is kept.  The code of memory.c runs without giving up the      *)
(* processor except in bread_page, where do_no_page waits for the disk.    *)
(* A frame is 1 .. NR_FRAMES; LOW stands for the memory below LOW_MEM,     *)
(* which has no count and is never writable by users.                      *)
(***************************************************************************)
EXTENDS Integers, FiniteSets

CONSTANTS NR_FRAMES,    \* page frames above LOW_MEM
          NR_TASKS,     \* tasks 1 .. NR_TASKS; 1 is init
          NR_PAGES,     \* pages of a task; the last one is the stack
          END_DATA,     \* the pages up to this one are the executable's
          Exes,         \* programs that can be executed
          Writes,       \* the values stores write
          SleepyWrites  \* whether system calls sleep between verify_area and
                        \* the write

ASSUME MemoryAssumption ==
    /\ NR_FRAMES \in Nat /\ NR_TASKS \in Nat \ {0} /\ NR_PAGES \in Nat \ {0}
    /\ NR_FRAMES > NR_PAGES /\ END_DATA \in Nat /\ END_DATA < NR_PAGES
    /\ Writes \subseteq {"zero", "written"} /\ SleepyWrites \in BOOLEAN

VARIABLES
    mem_map,  \* use count of each frame
    content,  \* what is in it
    dir,      \* page directory: the frame of the page table, or NONE
    pte,      \* page table entry: frame, W bit and D bit
    page0,    \* the frame of the task_struct
    exe,      \* task->executable
    status,   \* where the task is
    hold      \* page it is working on and frame it holds that is not mapped

vars == <<mem_map, content, dir, pte, page0, exe, status, hold>>

Frame == 1 .. NR_FRAMES
Task  == 1 .. NR_TASKS
Page  == 1 .. NR_PAGES
LOW   == 0
NONE  == -1

\* Contents: zeroes, the text and data of a program, something written.
Zero    == "zero"
Written == "written"
Val     == {Zero, Written} \cup Exes
NoExe   == "none"

NotPresent == [frame |-> NONE, w |-> FALSE, d |-> FALSE]
NoHold     == [page |-> 0, frame |-> NONE]

\* Text and data come from the executable; what is above is zero at first.
FileBacked(t, k) == exe[t] # NoExe /\ k <= END_DATA
Image(e, k) == IF e # NoExe /\ k <= END_DATA THEN e ELSE Zero

\* Task 1 starts on pages of the kernel image, as left by the first fork.
Init ==
    LET first == 1 .. NR_PAGES + 1   \* its page tables and its task page
    IN  /\ NR_FRAMES > NR_PAGES
        /\ mem_map = [f \in Frame |-> IF f \in first THEN 1 ELSE 0]
        /\ content = [f \in Frame |-> Zero]
        /\ dir = [t \in Task |-> [k \in Page |-> IF t = 1 THEN k ELSE NONE]]
        /\ pte = [t \in Task |-> [k \in Page |->
                    IF t = 1 THEN [NotPresent EXCEPT !.frame = LOW] ELSE NotPresent]]
        /\ page0 = [t \in Task |-> IF t = 1 THEN NR_PAGES + 1 ELSE NONE]
        /\ exe = [t \in Task |-> NoExe]
        /\ status = [t \in Task |-> IF t = 1 THEN "run" ELSE "free"]
        /\ hold = [t \in Task |-> NoHold]

-----------------------------------------------------------------------------
\* get_free_page: the last free frame, zeroed.  The n-th call in a row takes
\* NthFree(n); a set, empty when memory has run out.
Free == {f \in Frame : mem_map[f] = 0}
NthFree(n) == {f \in Free : Cardinality({g \in Free : g > f}) = n - 1}
Enough(n) == Cardinality(Free) >= n

\* The frames with one user.
Single == {f \in Frame : mem_map[f] = 1}

Present(t, k) == pte[t][k].frame # NONE
HasTable(t, k) == dir[t][k] # NONE

\* How often the page tables of t refer to frame f, the tables included.
Refs(t, f) == Cardinality({k \in Page : pte[t][k].frame = f})
              + Cardinality({k \in Page : dir[t][k] = f})

\* What a free frame holds cannot be seen: get_free_page clears it.
Cleared(map) == [f \in Frame |-> IF map[f] = 0 THEN Zero ELSE content[f]]

\* free_page_tables for all of t, and free_page of the frames in extra.
FreePageTables(t, extra) ==
    /\ mem_map' = [f \in Frame |->
                     mem_map[f] - Refs(t, f) - (IF f \in extra THEN 1 ELSE 0)]
    /\ content' = Cleared(mem_map')
    /\ dir' = [dir EXCEPT ![t] = [k \in Page |-> NONE]]
    /\ pte' = [pte EXCEPT ![t] = [k \in Page |-> NotPresent]]

\* Mutant: exit already gives back the task page.
do_exit_freesTaskPage(t, extra) ==
    /\ FreePageTables(t, extra \cup {page0[t]})
    /\ exe' = [exe EXCEPT ![t] = NoExe]
    /\ status' = [status EXCEPT ![t] = "zombie"]
    /\ hold' = [hold EXCEPT ![t] = NoHold]
    /\ UNCHANGED page0

\* do_exit, as far as memory is concerned; also what oom() comes to.
do_exit(t, extra) ==
    /\ FreePageTables(t, extra)
    /\ exe' = [exe EXCEPT ![t] = NoExe]
    /\ status' = [status EXCEPT ![t] = "zombie"]
    /\ hold' = [hold EXCEPT ![t] = NoHold]
    /\ UNCHANGED page0

\* release(), when the father waits for it; the father of init never does.
release(t) ==
    /\ status[t] = "zombie" /\ t # 1
    /\ mem_map' = [mem_map EXCEPT ![page0[t]] = @ - 1]
    /\ page0' = [page0 EXCEPT ![t] = NONE]
    /\ status' = [status EXCEPT ![t] = "free"]
    /\ UNCHANGED <<content, dir, pte, exe, hold>>

sys_exit(t) == status[t] = "run" /\ do_exit(t, {})

-----------------------------------------------------------------------------
\* fork: a task page and one page table for each of the parent's; both sides
\* keep the pages, read only.
Tables(t) == {k \in Page : HasTable(t, k)}
\* the first n page tables of t
FirstTables(t, n) == {k \in Tables(t) : Cardinality({j \in Tables(t) : j < k}) < n}

\* Mutant: the parent keeps its W bits.
ReadOnly_childOnly(t, K) == pte[t]

ReadOnly(t, K) ==
    [k \in Page |-> IF k \in K /\ Present(t, k) THEN [pte[t][k] EXCEPT !.w = FALSE]
                    ELSE pte[t][k]]

sys_fork(t, u) ==
    LET K == Tables(t)
        n == Cardinality(K)
        table(k) == CHOOSE f \in Frame :
                        f \in NthFree(2 + Cardinality({j \in K : j < k}))
        ro == ReadOnly(t, K)
    IN  /\ status[t] = "run" /\ status[u] = "free"
        /\ Enough(n + 1)
        /\ \E p \in NthFree(1) : page0' = [page0 EXCEPT ![u] = p]
        /\ mem_map' = [f \in Frame |->
               IF f = page0'[u] \/ \E k \in K : table(k) = f THEN 1
               ELSE mem_map[f] + Cardinality({k \in Page : pte[t][k].frame = f})]
        /\ dir' = [dir EXCEPT ![u] = [k \in Page |-> IF k \in K THEN table(k) ELSE NONE]]
        /\ pte' = [pte EXCEPT ![t] = ro,
                              ![u] = [k \in Page |-> [ro[k] EXCEPT !.w = FALSE]]]
        /\ exe' = [exe EXCEPT ![u] = exe[t]]
        /\ status' = [status EXCEPT ![u] = "run"]
        /\ UNCHANGED <<content, hold>>

\* Out of memory: what was copied is freed again, but the parent's pages that
\* had been reached stay read only.
fork_fails(t, u) ==
    LET got == Cardinality(Free) - 1
    IN  /\ status[t] = "run" /\ status[u] = "free"
        /\ ~Enough(Cardinality(Tables(t)) + 1)
        /\ pte' = [pte EXCEPT ![t] = ReadOnly(t, FirstTables(t, got))]
        /\ UNCHANGED <<mem_map, content, dir, page0, exe, status, hold>>

-----------------------------------------------------------------------------
\* put_page(f) at page k of t, f being counted already; needs a page table.
\* first is the number of calls of get_free_page made before in this step.
PutPage(t, k, f, first, map, cont) ==
    /\ pte' = [pte EXCEPT ![t][k] = [frame |-> f, w |-> TRUE, d |-> FALSE]]
    /\ content' = cont
    /\ \/ /\ HasTable(t, k)
          /\ mem_map' = map
          /\ UNCHANGED dir
       \/ /\ ~HasTable(t, k)
          /\ \E p \in NthFree(first + 1) :
                /\ dir' = [dir EXCEPT ![t][k] = p]
                /\ mem_map' = [map EXCEPT ![p] = 1]

\* How many frames do_no_page still needs to map page k when it holds one.
TableFrames(t, k) == IF HasTable(t, k) THEN 0 ELSE 1

\* Any access to a page that is not present, by the user or by the kernel on
\* the user's behalf, comes here.
Faults(t, k) == /\ ~Present(t, k)
                /\ status[t] = "run" \/ (status[t] = "write" /\ k = hold[t].page)

\* do_no_page, no file behind the page: get_empty_page.
get_empty_page(t, k) ==
    /\ Faults(t, k) /\ ~FileBacked(t, k)
    /\ Enough(1 + TableFrames(t, k))
    /\ \E f \in NthFree(1) :
          PutPage(t, k, f, 1, [mem_map EXCEPT ![f] = 1], [content EXCEPT ![f] = Zero])
    /\ UNCHANGED <<page0, exe, status, hold>>

\* The tasks that run the same program and whose page k is present and not
\* dirty.  share_page asks the highest first.
Sharers(t, k) ==
    {p \in Task \ {t} : /\ status[p] \notin {"free", "zombie"}
                        /\ exe[p] = exe[t]
                        /\ pte[p][k].frame \in Frame
                        /\ ~pte[p][k].d}

Highest(S) == {x \in S : \A y \in S : y <= x}

\* Mutant: the page shared is not write-protected.
Share_writable(t, k, p) ==
    pte' = [pte EXCEPT ![t][k] = pte[p][k]]

Share(t, k, p) ==
    LET ro == [pte[p][k] EXCEPT !.w = FALSE]
    IN  pte' = [pte EXCEPT ![p][k] = ro, ![t][k] = ro]

share_page(t, k) ==
    /\ Faults(t, k) /\ FileBacked(t, k)
    /\ Enough(TableFrames(t, k))
    /\ \E p \in Highest(Sharers(t, k)) :
          /\ Share(t, k, p)
          /\ LET shared == [mem_map EXCEPT ![pte[p][k].frame] = @ + 1]
             IN  \/ HasTable(t, k) /\ mem_map' = shared /\ UNCHANGED dir
                 \/ /\ ~HasTable(t, k)
                    /\ \E q \in NthFree(1) : /\ dir' = [dir EXCEPT ![t][k] = q]
                                             /\ mem_map' = [shared EXCEPT ![q] = 1]
    /\ UNCHANGED <<content, page0, exe, status, hold>>

Loading(t) == status[t] \in {"load", "write_load"}

\* Nobody to share with: a frame is taken and the task waits for the disk.
load_starts(t, k) ==
    /\ Faults(t, k) /\ FileBacked(t, k) /\ Sharers(t, k) = {}
    /\ \E f \in NthFree(1) :
          /\ mem_map' = [mem_map EXCEPT ![f] = 1]
          /\ hold' = [hold EXCEPT ![t] = [page |-> k, frame |-> f]]
    /\ status' = [status EXCEPT ![t] = IF @ = "run" THEN "load" ELSE "write_load"]
    /\ UNCHANGED <<content, dir, pte, page0, exe>>

load_ends(t) ==
    LET k == hold[t].page
        f == hold[t].frame
    IN  /\ Loading(t)
        /\ Enough(TableFrames(t, k))
        /\ PutPage(t, k, f, 0, mem_map, [content EXCEPT ![f] = Image(exe[t], k)])
        /\ status' = [status EXCEPT ![t] = IF @ = "load" THEN "run" ELSE "write"]
        /\ hold' = [hold EXCEPT ![t] = IF status[t] = "load" THEN NoHold
                                       ELSE [@ EXCEPT !.frame = NONE]]
        /\ UNCHANGED <<page0, exe>>

\* oom() in get_empty_page, try_to_share, do_no_page and un_wp_page.
oom(t) ==
    \/ \E k \in Page :
          /\ Faults(t, k)
          /\ \/ ~FileBacked(t, k) /\ ~Enough(1 + TableFrames(t, k))
             \/ FileBacked(t, k) /\ Sharers(t, k) # {} /\ ~Enough(TableFrames(t, k))
             \/ FileBacked(t, k) /\ Sharers(t, k) = {} /\ ~Enough(1)
          /\ do_exit(t, {})
    \/ /\ Loading(t)
       /\ ~Enough(TableFrames(t, hold[t].page))
       /\ do_exit(t, {hold[t].frame})
    \/ \E k \in Page :
          /\ status[t] = "run" /\ Present(t, k) /\ ~pte[t][k].w
          /\ pte[t][k].frame \notin Single
          /\ ~Enough(1)
          /\ do_exit(t, {})

-----------------------------------------------------------------------------
\* un_wp_page: the last user of a frame gets its W bit, others a copy.
\* Mutant: the old frame keeps its count.
un_wp_page_leaks(t, k) ==
    /\ pte[t][k].frame \notin Single
    /\ \E f \in NthFree(1) :
          /\ pte' = [pte EXCEPT ![t][k] = [frame |-> f, w |-> TRUE, d |-> FALSE]]
          /\ content' = [content EXCEPT ![f] =
                           IF pte[t][k].frame = LOW THEN Zero ELSE content[pte[t][k].frame]]
          /\ mem_map' = [mem_map EXCEPT ![f] = 1]

un_wp_page(t, k) ==
    LET old == pte[t][k].frame
        last == old \in Single
    IN  \/ /\ last
           /\ pte' = [pte EXCEPT ![t][k].w = TRUE]
           /\ UNCHANGED <<mem_map, content>>
        \/ /\ ~last
           /\ \E f \in NthFree(1) :
                 /\ pte' = [pte EXCEPT ![t][k] = [frame |-> f, w |-> TRUE, d |-> FALSE]]
                 /\ content' = [content EXCEPT ![f] = IF old = LOW THEN Zero ELSE content[old]]
                 /\ mem_map' = [f1 \in Frame |-> IF f1 = f THEN 1
                                                 ELSE IF f1 = old THEN mem_map[f1] - 1
                                                 ELSE mem_map[f1]]

\* A write to a present, read-only page; the instruction is restarted later.
do_wp_page(t, k) ==
    /\ status[t] = "run" /\ Present(t, k) /\ ~pte[t][k].w
    /\ un_wp_page(t, k)
    /\ UNCHANGED <<dir, page0, exe, status, hold>>

\* A store, the processor setting the D bit.  In the kernel the W bit is
\* ignored (80386).
Store(t, k, v) ==
    LET f == pte[t][k].frame
    IN  /\ f \in Frame
        /\ content' = [content EXCEPT ![f] = v]
        /\ pte' = [pte EXCEPT ![t][k].d = TRUE]

user_write(t, k) ==
    /\ status[t] = "run" /\ pte[t][k].w
    /\ \E v \in Writes : Store(t, k, v)
    /\ UNCHANGED <<mem_map, dir, page0, exe, status, hold>>

\* verify_area, then something that sleeps ...
verify_area(t, k) ==
    /\ SleepyWrites /\ status[t] = "run"
    /\ \/ Present(t, k) /\ ~pte[t][k].w /\ un_wp_page(t, k)
       \/ (~Present(t, k) \/ pte[t][k].w) /\ UNCHANGED <<mem_map, content, pte>>
    /\ status' = [status EXCEPT ![t] = "write"]
    /\ hold' = [hold EXCEPT ![t].page = k]
    /\ UNCHANGED <<dir, page0, exe>>

\* ... and the write, or none (end of file, an error).
kernel_write(t) ==
    /\ status[t] = "write"
    /\ \/ \E v \in Writes : Store(t, hold[t].page, v)
       \/ UNCHANGED <<content, pte>>
    /\ status' = [status EXCEPT ![t] = "run"]
    /\ hold' = [hold EXCEPT ![t] = NoHold]
    /\ UNCHANGED <<mem_map, dir, page0, exe>>

-----------------------------------------------------------------------------
\* execve: copy_strings has put the arguments into a new page; the executable
\* changes; closing files may sleep; then the old memory goes and the
\* arguments become the stack.
execve_commits(t, e) ==
    /\ status[t] = "run"
    /\ \E f \in NthFree(1) :
          /\ mem_map' = [mem_map EXCEPT ![f] = 1]
          /\ content' = [content EXCEPT ![f] = Zero]
          /\ hold' = [hold EXCEPT ![t] = [page |-> NR_PAGES, frame |-> f]]
    /\ exe' = [exe EXCEPT ![t] = e]
    /\ status' = [status EXCEPT ![t] = "exec"]
    /\ UNCHANGED <<dir, pte, page0>>

\* The page table for the stack takes a frame that has just been freed.
execve_ends(t) ==
    LET left == [f \in Frame |-> mem_map[f] - Refs(t, f)]
    IN  /\ status[t] = "exec"
        /\ \E p \in Highest({f \in Frame : left[f] = 0}) :
              /\ mem_map' = [left EXCEPT ![p] = 1]
              /\ dir' = [dir EXCEPT ![t] =
                           [k \in Page |-> IF k = NR_PAGES THEN p ELSE NONE]]
        /\ pte' = [pte EXCEPT ![t] =
                     [k \in Page |-> IF k = NR_PAGES
                                     THEN [frame |-> hold[t].frame, w |-> TRUE, d |-> FALSE]
                                     ELSE NotPresent]]
        /\ status' = [status EXCEPT ![t] = "run"]
        /\ content' = Cleared(left)
        /\ hold' = [hold EXCEPT ![t] = NoHold]
        /\ UNCHANGED <<page0, exe>>

-----------------------------------------------------------------------------
\* init only ends when it runs out of memory.
Next ==
    \E t \in Task :
        \/ (t # 1 /\ sys_exit(t)) \/ release(t) \/ oom(t)
        \/ \E u \in Task : sys_fork(t, u) \/ fork_fails(t, u)
        \/ \E k \in Page : \/ get_empty_page(t, k) \/ share_page(t, k) \/ load_starts(t, k)
                           \/ do_wp_page(t, k) \/ user_write(t, k) \/ verify_area(t, k)
        \/ load_ends(t) \/ kernel_write(t)
        \/ (\E e \in Exes : execve_commits(t, e)) \/ execve_ends(t)

Spec == Init /\ [][Next]_vars

-----------------------------------------------------------------------------
Status == {"free", "run", "zombie", "load", "write", "write_load", "exec"}
Entry  == [frame : Frame \cup {LOW, NONE}, w : BOOLEAN, d : BOOLEAN]

\* Types; no count goes below zero (free_page panics "trying to free free
\* page") or above the users a frame can have.
TypeOK ==
    /\ mem_map \in [Frame -> 0 .. NR_TASKS * NR_PAGES]
    /\ content \in [Frame -> Val]
    /\ dir \in [Task -> [Page -> Frame \cup {NONE}]]
    /\ pte \in [Task -> [Page -> Entry]]
    /\ page0 \in [Task -> Frame \cup {NONE}]
    /\ exe \in [Task -> Exes \cup {NoExe}]
    /\ status \in [Task -> Status]
    /\ hold \in [Task -> [page : Page \cup {0}, frame : Frame \cup {NONE}]]

\* The count of a frame is the number of page table entries, directory
\* entries, task pages and pages in transit that refer to it: nothing leaks
\* and nothing is freed while it is in use, whichever of fork, exit, execve
\* and a fault runs out of memory half way (mem_map in memory.c).
MapCountsMappings ==
    \A f \in Frame :
        mem_map[f] = Cardinality({x \in Task \X Page : pte[x[1]][x[2]].frame = f})
                     + Cardinality({x \in Task \X Page : dir[x[1]][x[2]] = f})
                     + Cardinality({t \in Task : page0[t] = f})
                     + Cardinality({t \in Task : hold[t].frame = f})

\* A page the processor lets a task write belongs to that task alone; page
\* tables and task pages are never mapped (copy_page_tables, try_to_share
\* and un_wp_page keep the W bit right).
WritableIsPrivate ==
    \A t \in Task, k \in Page : pte[t][k].w => /\ pte[t][k].frame \in Frame
                                              /\ mem_map[pte[t][k].frame] = 1

\* What each task sees.
Sees(t, k) ==
    IF status[t] \in {"free", "zombie", "exec"} \/ pte[t][k].frame = LOW THEN Zero
    ELSE IF Present(t, k) THEN content[pte[t][k].frame]
    ELSE Image(exe[t], k)

Private == INSTANCE PrivateMemory WITH
             mem <- [t \in Task |-> [k \in Page |-> Sees(t, k)]]

\* No task sees another's writes: fork, copy on write, exit and running out of
\* memory implement memory that is private to each task.
PrivateSpec == Private!Spec
=============================================================================
