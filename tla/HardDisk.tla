------------------------------ MODULE HardDisk ------------------------------
(***************************************************************************)
(* The hard disk driver (kernel/blk_drv/hd.c): the current request's two   *)
(* sectors are transferred one interrupt at a time; errors are counted,    *)
(* and lead to a retry, a reset and recalibration of the drive, or the end *)
(* of the request.  The controller and the drive are external: they answer *)
(* every command with an interrupt for each sector or an error, or do not  *)
(* become ready for data in time.                                          *)
(***************************************************************************)
EXTENDS Requests

CONSTANTS NR_HD,       \* drives
          hd,          \* partitions: start and size by minor device number
          SECT, HEAD,  \* geometry of a drive
          MAX_ERRORS,  \* errors a request may have (7 in the code)
          HdBlocks,    \* the device and block numbers tasks ask for
          MaxHdReqs    \* bound: requests

ASSUME HdAssumption ==
    /\ NR_HD \in 1 .. 2 /\ SECT \in Nat \ {0} /\ HEAD \in Nat \ {0}
    /\ MAX_ERRORS \in Nat \ {0} /\ MaxHdReqs \in Nat
    /\ hd \in [DOMAIN hd -> [start : Nat, size : Nat]] /\ DOMAIN hd \subseteq 0 .. 5 * NR_HD - 1
    /\ HdBlocks \subseteq Nat \X Nat
    /\ \A b \in HdBlocks : b[1] < 5 * NR_HD => b[1] \in DOMAIN hd

VARIABLES
    hd_queue,     \* the requests, CURRENT first
    do_hd,        \* the handler of the next interrupt
    hd_reset, hd_recal,
    hd_active,    \* do_hd_request runs
    drive,        \* the controller: its command, the sector it is at, the
                  \* sectors still to transfer, the data it was given
    memory,       \* what was read into each request's buffer
    media,        \* what was written to each sector of each drive
    ended         \* history: how requests ended, with the data at that time

hdVars == <<hd_queue, do_hd, hd_reset, hd_recal, hd_active, drive, memory, media, ended>>

Idle == [cmd |-> "none", nr |-> 0, at |-> 0, count |-> 0, data |-> <<0, 0>>]
Nothing == <<0, 0>>
Sectors == UNION {hd[d].start .. hd[d].start + hd[d].size - 1 : d \in DOMAIN hd}

HdInit ==
    /\ hd_queue = <<>> /\ do_hd = "none" /\ hd_reset = FALSE /\ hd_recal = FALSE
    /\ hd_active = FALSE /\ drive = Idle /\ ended = <<>>
    /\ memory = [id \in 1 .. MaxHdReqs |-> [k \in 0 .. 1 |-> Nothing]]
    /\ media = [s \in (0 .. NR_HD - 1) \X Sectors |-> Nothing]

-----------------------------------------------------------------------------
HD_CURRENT == Head(hd_queue)
NrOf(dev) == dev \div 5
Absolute(req) == req.sector + hd[req.dev].start

\* What a request has transferred: what is in its buffer, or on the disk.
Data(req) == [k \in 0 .. 1 |-> IF req.cmd = READ THEN memory'[req.id][k]
                                ELSE media'[<<NrOf(req.dev), Absolute(req) - req.buf + k>>]]

\* end_request: the next request becomes CURRENT.
HdEnd(queue, ok) ==
    /\ hd_queue' = Tail(queue)
    /\ ended' = Append(ended, [req |-> Head(queue), ok |-> ok,
                               data |-> IF ok THEN Data(Head(queue)) ELSE <<>>])

\* bad_rw_intr looks at CURRENT's errors again after end_request; without a
\* next request it reads what is at address 0 + 8.
bad_rw_intr ==
    LET queue == [hd_queue EXCEPT ![1].errors = @ + 1] IN
    IF Head(queue).errors >= MAX_ERRORS
    THEN /\ HdEnd(queue, FALSE)
         /\ hd_reset' \in IF Tail(queue) = <<>> THEN {hd_reset, TRUE}
                          ELSE {hd_reset \/ queue[2].errors > MAX_ERRORS \div 2}
    ELSE /\ hd_queue' = queue /\ UNCHANGED ended
         /\ hd_reset' = (hd_reset \/ Head(queue).errors > MAX_ERRORS \div 2)

\* hd_out, and what the controller makes of the sector's address.
CHS(block) == [sec |-> (block % SECT) + 1, head |-> (block \div SECT) % HEAD,
               cyl |-> (block \div SECT) \div HEAD]
hd_out(cmd, nr, nsect, chs, intr, data) ==
    /\ do_hd' = intr
    /\ drive' = [cmd |-> cmd, nr |-> nr, count |-> nsect, data |-> data,
                 at |-> (chs.cyl * HEAD + chs.head) * SECT + chs.sec - 1]

-----------------------------------------------------------------------------
\* ll_rw_block
hd_make_request ==
    /\ ~hd_active /\ Len(hd_queue) + Len(ended) < MaxHdReqs
    /\ \E b \in HdBlocks, cmd \in {READ, WRITE} :
          hd_queue' = AddRequest(hd_queue, Request(Len(hd_queue) + Len(ended) + 1, cmd, b[1], b[2]))
    /\ hd_active' = (hd_queue = <<>>)
    /\ UNCHANGED <<do_hd, hd_reset, hd_recal, drive, memory, media, ended>>

\* do_hd_request, from the label repeat on: one action for each way it goes.
hd_no_request ==
    /\ hd_active /\ hd_queue = <<>> /\ hd_active' = FALSE
    /\ UNCHANGED <<hd_queue, do_hd, hd_reset, hd_recal, drive, memory, media, ended>>

OffDevice(req) == ~(req.dev < 5 * NR_HD /\ req.sector + 2 <= hd[req.dev].size)
hd_off_device ==
    /\ hd_active /\ hd_queue # <<>> /\ OffDevice(HD_CURRENT)
    /\ HdEnd(hd_queue, FALSE)
    /\ UNCHANGED <<do_hd, hd_reset, hd_recal, hd_active, drive, memory, media>>

Served == hd_active /\ hd_queue # <<>> /\ ~OffDevice(HD_CURRENT)
NoAddress == [sec |-> 1, head |-> 0, cyl |-> 0]

reset_hd ==
    /\ Served /\ hd_reset
    /\ hd_reset' = FALSE /\ hd_recal' = TRUE /\ hd_active' = FALSE
    /\ hd_out("specify", NrOf(HD_CURRENT.dev), 0, NoAddress, "recal_intr", Nothing)
    /\ UNCHANGED <<hd_queue, memory, media, ended>>

hd_recalibrate ==
    /\ Served /\ ~hd_reset /\ hd_recal
    /\ hd_recal' = FALSE /\ hd_active' = FALSE
    /\ hd_out("restore", NrOf(HD_CURRENT.dev), 0, NoAddress, "recal_intr", Nothing)
    /\ UNCHANGED <<hd_queue, hd_reset, memory, media, ended>>

Ready == Served /\ ~hd_reset /\ ~hd_recal
HdCommand(cmd, intr, data) ==
    hd_out(cmd, NrOf(HD_CURRENT.dev), HD_CURRENT.left, CHS(Absolute(HD_CURRENT)), intr, data)

hd_read ==
    /\ Ready /\ HD_CURRENT.cmd = READ /\ hd_active' = FALSE
    /\ HdCommand("read", "read_intr", Nothing)
    /\ UNCHANGED <<hd_queue, hd_reset, hd_recal, memory, media, ended>>

\* Mutant: the data of the block's first sector go out, whatever was done.
PortData_first(req) == <<req.id, 0>>

\* port_write: the data at CURRENT->buffer
PortData(req) == <<req.id, req.buf>>

hd_write ==
    /\ Ready /\ HD_CURRENT.cmd = WRITE /\ hd_active' = FALSE
    /\ HdCommand("write", "write_intr", PortData(HD_CURRENT))
    /\ UNCHANGED <<hd_queue, hd_reset, hd_recal, memory, media, ended>>

\* The controller does not ask for data: it stays silent.
hd_no_drq ==
    /\ Ready /\ HD_CURRENT.cmd = WRITE
    /\ do_hd' = "write_intr" /\ drive' = Idle /\ bad_rw_intr
    /\ UNCHANGED <<hd_recal, hd_active, memory, media>>

-----------------------------------------------------------------------------
\* An interrupt: hd_interrupt has cleared do_hd, the handler may set it again.
Interrupt(h) == drive.cmd # "none" /\ ~hd_active /\ do_hd = h

\* win_result is bad; the command is over.
hd_error ==
    /\ \E h \in {"read_intr", "write_intr", "recal_intr"} : Interrupt(h)
    /\ do_hd' = "none" /\ drive' = Idle
    /\ bad_rw_intr /\ hd_active' = TRUE
    /\ UNCHANGED <<hd_recal, memory, media>>

\* The drive goes on to the next sector, if it was asked for one.
NextSector(data) ==
    drive' = IF drive.count = 1 THEN Idle
             ELSE [drive EXCEPT !.at = @ + 1, !.count = @ - 1, !.data = data]

read_intr ==
    /\ Interrupt("read_intr")
    /\ LET req == SectorDone([HD_CURRENT EXCEPT !.errors = 0]) IN
       /\ memory' = [memory EXCEPT ![req.id][HD_CURRENT.buf] = <<drive.nr, drive.at>>]
       /\ NextSector(Nothing)
       /\ UNCHANGED media
       /\ IF req.left > 0
          THEN /\ hd_queue' = [hd_queue EXCEPT ![1] = req]
               /\ do_hd' = "read_intr" /\ UNCHANGED <<hd_active, ended>>
          ELSE /\ HdEnd([hd_queue EXCEPT ![1] = req], TRUE)
               /\ do_hd' = "none" /\ hd_active' = TRUE
    /\ UNCHANGED <<hd_reset, hd_recal>>

write_intr ==
    /\ Interrupt("write_intr")
    /\ LET req == [HD_CURRENT EXCEPT !.left = @ - 1]
           next == [SectorDone(HD_CURRENT) EXCEPT !.left = req.left]
       IN /\ media' = [media EXCEPT ![<<drive.nr, drive.at>>] = drive.data]
          /\ UNCHANGED memory
          /\ NextSector(PortData(next))
          /\ IF req.left > 0
             THEN /\ hd_queue' = [hd_queue EXCEPT ![1] = next]
                  /\ do_hd' = "write_intr" /\ UNCHANGED <<hd_active, ended>>
             ELSE /\ HdEnd([hd_queue EXCEPT ![1] = req], TRUE)
                  /\ do_hd' = "none" /\ hd_active' = TRUE
    /\ UNCHANGED <<hd_reset, hd_recal>>

\* Mutant: the request is left alone.
recal_intr_quiet ==
    /\ Interrupt("recal_intr")
    /\ do_hd' = "none" /\ drive' = Idle
    /\ UNCHANGED <<hd_queue, hd_reset, hd_recal, hd_active, memory, media, ended>>

recal_intr ==
    /\ Interrupt("recal_intr")
    /\ do_hd' = "none" /\ drive' = Idle /\ hd_active' = TRUE
    /\ UNCHANGED <<hd_queue, hd_reset, hd_recal, memory, media, ended>>

DoHdRequest == \/ hd_no_request \/ hd_off_device \/ reset_hd \/ hd_recalibrate
               \/ hd_read \/ hd_write \/ hd_no_drq
HdInterrupt == hd_error \/ read_intr \/ write_intr \/ recal_intr
HdNext == hd_make_request \/ DoHdRequest \/ HdInterrupt

HdSpec == HdInit /\ [][HdNext]_hdVars

-----------------------------------------------------------------------------
\* Types; no request with MAX_ERRORS errors stays in the queue.
HdTypeOK ==
    /\ do_hd \in {"none", "read_intr", "write_intr", "recal_intr"}
    /\ \A i \in DOMAIN hd_queue : hd_queue[i].left \in 1 .. 2 /\ hd_queue[i].errors < MAX_ERRORS
    /\ drive.count \in 0 .. 2

\* The sectors of the block a request was for.
Asked(req) == [k \in 0 .. 1 |-> <<NrOf(req.dev), Absolute(req) - req.buf + k>>]

\* A request ends well only if each of its sectors was read into its own half
\* of the buffer, or written from it, whatever errors, retries and resets came
\* in between.  It ends badly only if it is not on the device or failed
\* MAX_ERRORS times, or (do_hd_request takes every request for one of two
\* sectors) when the second sector of the device's last block has to be tried
\* again.
OutcomeIsTrue ==
    \A i \in DOMAIN ended :
       LET req == ended[i].req IN
       IF ended[i].ok
       THEN ended[i].data = IF req.cmd = READ THEN Asked(req)
                            ELSE [k \in 0 .. 1 |-> <<req.id, k>>]
       ELSE \/ req.errors >= MAX_ERRORS \/ OffDevice([req EXCEPT !.sector = @ - req.buf])
            \/ req.buf = 1 /\ req.sector + 1 = hd[req.dev].size

\* Every request ends: no sequence of errors, resets and recalibrations leaves
\* one in the queue without a command under way for it.
HdRequestsEnd == []<>(hd_queue = <<>>)
=============================================================================
