------------------------------ MODULE Requests ------------------------------
(***************************************************************************)
(* The request list of a block device: add_request in ll_rw_blk.c and the  *)
(* order of the elevator in blk.h.  A request is for a block of two        *)
(* sectors; sector, left and buf move on as sectors are transferred.       *)
(***************************************************************************)
EXTENDS Integers, Sequences, FiniteSets, FiniteSetsExt, SequencesExt

READ == 0
WRITE == 1

Request(id, cmd, dev, blocknr) ==
    [id |-> id, cmd |-> cmd, dev |-> dev, sector |-> 2 * blocknr, left |-> 2,
     buf |-> 0, errors |-> 0]

\* Reads go before writes.
IN_ORDER(s1, s2) ==
    \/ s1.cmd < s2.cmd
    \/ /\ s1.cmd = s2.cmd
       /\ s1.dev < s2.dev \/ (s1.dev = s2.dev /\ s1.sector < s2.sector)

\* The request goes behind the first one after which it is in order, never
\* before the current one.
AddRequest(queue, req) ==
    LET fits == {i \in 1 .. Len(queue) - 1 :
                   /\ IN_ORDER(queue[i], req) \/ ~IN_ORDER(queue[i], queue[i + 1])
                   /\ IN_ORDER(req, queue[i + 1])}
    IN  InsertAt(queue, IF fits = {} THEN Len(queue) + 1 ELSE Min(fits) + 1, req)

SectorDone(req) == [req EXCEPT !.sector = @ + 1, !.buf = @ + 1, !.left = @ - 1]
=============================================================================
