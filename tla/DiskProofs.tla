----------------------------- MODULE DiskProofs -----------------------------
(***************************************************************************)
(* The two disk drivers.  For every disk, partition table, number of       *)
(* errors allowed and sequence of requests and errors: a request of the    *)
(* hard disk driver ends well only with each sector in its place, and      *)
(* badly only for a reason.  For every number of drives and requests and   *)
(* every timing of the motors: the floppy driver transfers from the drive  *)
(* that the request is for, selected and spinning.                         *)
(***************************************************************************)
EXTENDS HardDisk, Floppy, WellFoundedInduction, TLAPS

-----------------------------------------------------------------------------
\* A set of numbers has a least element.
LEMMA LeastNat ==
    ASSUME NEW S \in SUBSET Nat, S # {}
    PROVE  \E x \in S : \A y \in S : x <= y
<1>1. PICK less : less = {ss \in Nat \X Nat : ss[1] < ss[2]}
  OBVIOUS
<1>2. IsWellFoundedOn(less, Nat)
  BY <1>1, NatLessThanWellFounded DEF OpToRel
<1>3. PICK x \in S : \A y \in S : <<y, x>> \notin less
  BY <1>2, WFMin
<1>4. \A y \in S : x <= y
  <2> TAKE y \in S
  <2>1. x \in Nat /\ y \in Nat
    BY <1>3
  <2>2. <<y, x>> \in Nat \X Nat /\ <<y, x>>[1] = y /\ <<y, x>>[2] = x
    BY <2>1
  <2> QED BY <1>1, <1>3, <2>1, <2>2
<1> QED BY <1>4

LEMMA MinIn ==
    ASSUME NEW S \in SUBSET Nat, S # {}
    PROVE  Min(S) \in S
<1>1. PICK x \in S : \A y \in S : x <= y
  BY LeastNat
<1> QED BY <1>1 DEF Min

\* add_request never puts a request before the current one.
PutIn(s, q, n, r) ==
    \A i \in 1 .. Len(s) : s[i] = IF i < n THEN q[i] ELSE IF i = n THEN r ELSE q[i - 1]

LEMMA InsertAtIs ==
    ASSUME NEW S, NEW q \in Seq(S), NEW r \in S, NEW n \in 1 .. Len(q) + 1,
           NEW s, s = InsertAt(q, n, r)
    PROVE  s \in Seq(S) /\ Len(s) = Len(q) + 1 /\ PutIn(s, q, n, r)
<1>1. PICK A : A = SubSeq(q, 1, n - 1)
  OBVIOUS
<1>2. PICK B : B = SubSeq(q, n, Len(q))
  OBVIOUS
<1>3. Len(q) \in Nat /\ n \in Nat /\ 1 <= n /\ n <= Len(q) + 1
  OBVIOUS
<1>4. A \in Seq(S) /\ Len(A) = n - 1 /\ \A i \in 1 .. n - 1 : A[i] = q[i]
  BY <1>1, <1>3
<1>5. B \in Seq(S) /\ Len(B) = Len(q) - n + 1 /\ \A i \in 1 .. Len(q) - n + 1 : B[i] = q[n + i - 1]
  BY <1>2, <1>3
<1>6. PICK C : C = A \o <<r>>
  OBVIOUS
<1>7. C \in Seq(S) /\ Len(C) = n /\ C[n] = r /\ \A i \in 1 .. n - 1 : C[i] = q[i]
  BY <1>3, <1>4, <1>6
<1>8. s = C \o B
  BY <1>1, <1>2, <1>6 DEF InsertAt
<1>9. s \in Seq(S) /\ Len(s) = Len(q) + 1
  <2>1. C \in Seq(S) /\ B \in Seq(S) /\ Len(C) = n /\ Len(B) = Len(q) - n + 1
    BY <1>5, <1>7
  <2>2. C \o B \in Seq(S)
    BY <2>1
  <2>3. Len(C \o B) = Len(C) + Len(B)
    BY <2>1
  <2> QED BY <1>3, <1>8, <2>1, <2>2, <2>3
<1>10. \A i \in 1 .. n : s[i] = C[i]
  BY <1>3, <1>5, <1>7, <1>8
<1>11. \A i \in n + 1 .. Len(s) : s[i] = q[i - 1]
  <2> TAKE i \in n + 1 .. Len(s)
  <2>1. i - n \in 1 .. Len(q) - n + 1
    BY <1>3, <1>9
  <2>2. s[i] = B[i - n]
    BY <1>3, <1>5, <1>7, <1>8, <1>9, SMTT(30)
  <2>3. B[i - n] = q[n + (i - n) - 1]
    BY <1>5, <2>1
  <2>4. n + (i - n) - 1 = i - 1
    BY <1>3, <2>1
  <2> QED BY <2>2, <2>3, <2>4
<1> QED BY <1>3, <1>7, <1>9, <1>10, <1>11 DEF PutIn

LEMMA Added ==
    ASSUME NEW S, NEW q \in Seq(S), NEW r \in S, NEW s, s = AddRequest(q, r)
    PROVE  \E n \in 1 .. Len(q) + 1 :
              /\ (q # <<>> => n >= 2)
              /\ s \in Seq(S) /\ Len(s) = Len(q) + 1 /\ PutIn(s, q, n, r)
<1>1. PICK n \in 1 .. Len(q) + 1 : AddRequest(q, r) = InsertAt(q, n, r) /\ (q # <<>> => n >= 2)
  <2> DEFINE fits == {i \in 1 .. Len(q) - 1 :
                        /\ IN_ORDER(q[i], r) \/ ~IN_ORDER(q[i], q[i + 1])
                        /\ IN_ORDER(r, q[i + 1])}
  <2>1. AddRequest(q, r) = InsertAt(q, IF fits = {} THEN Len(q) + 1 ELSE Min(fits) + 1, r)
    BY DEF AddRequest
  <2>2. Len(q) \in Nat /\ (q # <<>> => Len(q) >= 1)
    OBVIOUS
  <2>6. fits \in SUBSET (1 .. Len(q) - 1)
    OBVIOUS
  <2> HIDE DEF fits
  <2>7. fits \in SUBSET Nat
    BY <2>2, <2>6
  <2>3. fits # {} => Min(fits) \in 1 .. Len(q) - 1
    BY <2>6, <2>7, MinIn
  <2>4. (IF fits = {} THEN Len(q) + 1 ELSE Min(fits) + 1) \in 1 .. Len(q) + 1
    BY <2>2, <2>3
  <2>5. q # <<>> => (IF fits = {} THEN Len(q) + 1 ELSE Min(fits) + 1) >= 2
    BY <2>2, <2>3
  <2> QED BY <2>1, <2>4, <2>5
<1>2. q \in Seq(S) /\ r \in S
  OBVIOUS
<1>3. s = InsertAt(q, n, r)
  BY <1>1
<1>4. s \in Seq(S) /\ Len(s) = Len(q) + 1 /\ PutIn(s, q, n, r)
  BY <1>2, <1>3, InsertAtIs
<1> QED BY <1>1, <1>4

LEMMA AddedFirst ==
    ASSUME NEW S, NEW q \in Seq(S), NEW r \in S
    PROVE  /\ AddRequest(q, r) \in Seq(S) /\ AddRequest(q, r) # <<>>
           /\ AddRequest(q, r)[1] = IF q = <<>> THEN r ELSE q[1]
<1>1. PICK s : s = AddRequest(q, r)
  OBVIOUS
<1>2. PICK n \in 1 .. Len(q) + 1 :
        /\ (q # <<>> => n >= 2)
        /\ s \in Seq(S) /\ Len(s) = Len(q) + 1 /\ PutIn(s, q, n, r)
  BY <1>1, Added
<1>3. Len(q) \in Nat /\ (q = <<>> => Len(q) = 0)
  OBVIOUS
<1>4. s # <<>> /\ s[1] = IF q = <<>> THEN r ELSE q[1]
  BY <1>2, <1>3 DEF PutIn
<1> QED BY <1>1, <1>2, <1>4

-----------------------------------------------------------------------------
(***************************************************************************)
(* The hard disk.                                                          *)
(***************************************************************************)
\* Requests, as they wait and as the driver works on one of them.
Reqs == [id : 1 .. MaxHdReqs, cmd : {READ, WRITE}, dev : Nat, sector : Nat, left : 0 .. 2,
         buf : 0 .. 2, errors : Nat]
Waiting(r) == r \in Reqs /\ r.left = 2 /\ r.buf = 0 /\ r.errors = 0
              /\ (r.dev < 5 * NR_HD => r.dev \in DOMAIN hd)
Current(r) == r \in Reqs /\ r.left \in 1 .. 2 /\ r.buf = 2 - r.left /\ r.sector >= r.buf /\ r.errors < MAX_ERRORS
              /\ (r.dev < 5 * NR_HD => r.dev \in DOMAIN hd)

\* Only the first request of the queue has been worked on.
Queued(q) == /\ q \in Seq(Reqs)
             /\ q # <<>> => Current(q[1])
             /\ \A i \in 2 .. Len(q) : Waiting(q[i])

\* A number from 0 to NR_HD - 1 and a sector; or a request and a half of it.
Mark == Nat \X Nat
Media == (0 .. NR_HD - 1) \X Sectors

Halves == [0 .. 1 -> Nat \X Int]
Outcomes == [req : Reqs, ok : BOOLEAN, data : Halves \cup {<<>>}]

HdTypes ==
    /\ do_hd \in {"none", "read_intr", "write_intr", "recal_intr"}
    /\ hd_reset \in BOOLEAN /\ hd_recal \in BOOLEAN /\ hd_active \in BOOLEAN
    /\ drive \in [cmd : {"none", "specify", "restore", "read", "write"}, nr : Nat, at : Int,
                  count : 0 .. 2, data : Mark]
    /\ memory \in [1 .. MaxHdReqs -> Halves]
    /\ media \in [Media -> Mark]
    /\ ended \in Seq(Outcomes)

\* What the driver has done of a request is where it should be.
OnDevice(r) == r.dev < 5 * NR_HD /\ r.sector - r.buf + 2 <= hd[r.dev].size
HalfDone(r) ==
    r.buf = 1 => /\ OnDevice(r)
                 /\ r.cmd = READ => memory[r.id][0] = <<NrOf(r.dev), Absolute(r) - 1>>
                 /\ r.cmd = WRITE => media[<<NrOf(r.dev), Absolute(r) - 1>>] = <<r.id, 0>>

\* The command under way is for the first request and for what it still lacks.
UnderWay(r) ==
    /\ do_hd \in {"read_intr", "write_intr"} =>
          /\ OnDevice(r) /\ drive.nr = NrOf(r.dev) /\ drive.at = Absolute(r) /\ drive.count = r.left
    /\ do_hd = "read_intr" => r.cmd = READ
    /\ do_hd = "write_intr" => r.cmd = WRITE /\ drive.data = <<r.id, r.buf>>

Work ==
    /\ hd_queue # <<>> => HalfDone(hd_queue[1])
    /\ drive.cmd # "none" => ~hd_active /\ hd_queue # <<>> /\ UnderWay(hd_queue[1])

HdInv == Queued(hd_queue) /\ HdTypes /\ Work /\ OutcomeIsTrue

\* How one request ended.
IsTrue(e) ==
    IF e.ok
    THEN e.data = IF e.req.cmd = READ THEN Asked(e.req) ELSE [k \in 0 .. 1 |-> <<e.req.id, k>>]
    ELSE \/ e.req.errors >= MAX_ERRORS \/ OffDevice([e.req EXCEPT !.sector = @ - e.req.buf])
         \/ e.req.buf = 1 /\ e.req.sector + 1 = hd[e.req.dev].size

LEMMA OutcomesTrue ==
    /\ OutcomeIsTrue <=> \A i \in DOMAIN ended : IsTrue(ended[i])
    /\ OutcomeIsTrue' <=> \A i \in DOMAIN ended' : IsTrue(ended'[i])
BY DEF OutcomeIsTrue, IsTrue

\* The sector's address, as cylinder, head and sector, is the one asked for.
LEMMA Division ==
    ASSUME NEW n \in Nat, NEW m \in Nat \ {0}
    PROVE  n \div m \in Nat /\ n % m \in Nat /\ (n \div m) * m + (n % m) = n
OBVIOUS

LEMMA AddressIs ==
    ASSUME NEW b \in Nat
    PROVE  (CHS(b).cyl * HEAD + CHS(b).head) * SECT + CHS(b).sec - 1 = b
<1>1. PICK q \in Nat : q = b \div SECT
  BY Division, HdAssumption
<1>2. PICK s \in Nat : s = b % SECT
  BY Division, HdAssumption
<1>3. q * SECT + s = b
  BY <1>1, <1>2, Division, HdAssumption
<1>4. PICK c \in Nat, h \in Nat : c = q \div HEAD /\ h = q % HEAD
  BY Division, HdAssumption
<1>5. c * HEAD + h = q
  BY <1>4, Division, HdAssumption
<1>6. CHS(b).cyl = c /\ CHS(b).head = h /\ CHS(b).sec = s + 1
  BY <1>1, <1>2, <1>4 DEF CHS
<1>7. (c * HEAD + h) * SECT + (s + 1) - 1 = b
  BY <1>3, <1>5, HdAssumption
<1> QED BY <1>6, <1>7

LEMMA WaitingIsCurrent ==
    ASSUME NEW r, Waiting(r)
    PROVE  Current(r)
<1>1. r.sector \in Nat /\ r.errors = 0 /\ r.buf = 0 /\ r.left = 2
  BY DEF Waiting, Reqs
<1>2. r.sector >= r.buf /\ r.errors < MAX_ERRORS
  BY <1>1, HdAssumption
<1> QED BY <1>1, <1>2 DEF Waiting, Current

LEMMA AddKeepsHead ==
    ASSUME NEW q, Queued(q), NEW r, Waiting(r)
    PROVE  /\ Queued(AddRequest(q, r)) /\ AddRequest(q, r) # <<>>
           /\ AddRequest(q, r)[1] = IF q = <<>> THEN r ELSE q[1]
<1>1. PICK s : s = AddRequest(q, r)
  OBVIOUS
<1>2. q \in Seq(Reqs) /\ r \in Reqs
  BY DEF Queued, Waiting
<1>3. PICK n \in 1 .. Len(q) + 1 :
        /\ (q # <<>> => n >= 2)
        /\ s \in Seq(Reqs) /\ Len(s) = Len(q) + 1 /\ PutIn(s, q, n, r)
  BY <1>1, <1>2, Added
<1>4. /\ s \in Seq(Reqs) /\ Len(s) = Len(q) + 1
      /\ \A i \in 1 .. Len(s) : s[i] = IF i < n THEN q[i] ELSE IF i = n THEN r ELSE q[i - 1]
  BY <1>3 DEF PutIn
<1>5. s # <<>> /\ s[1] = IF q = <<>> THEN r ELSE q[1]
  BY <1>1, <1>2, AddedFirst
<1>6. Current(s[1])
  BY <1>5, WaitingIsCurrent DEF Queued
<1>7. \A i \in 2 .. Len(s) : Waiting(s[i])
  <2> TAKE i \in 2 .. Len(s)
  <2>1. Len(q) \in Nat /\ i \in Nat /\ i \in 1 .. Len(s)
    BY <1>2, <1>4
  <2>2. CASE i < n
    BY <1>3, <1>4, <2>1, <2>2 DEF Queued
  <2>3. CASE i = n
    BY <1>4, <2>1, <2>3
  <2>4. CASE i > n
    <3>1. i - 1 \in 2 .. Len(q)
      BY <1>2, <1>3, <1>4, <2>1, <2>4
    <3> QED BY <1>4, <2>1, <2>4, <3>1 DEF Queued
  <2> QED BY <1>3, <2>1, <2>2, <2>3, <2>4
<1> QED BY <1>1, <1>4, <1>5, <1>6, <1>7 DEF Queued

LEMMA TailQueued ==
    ASSUME NEW q, Queued(q), q # <<>>
    PROVE  Queued(Tail(q)) /\ (Tail(q) # <<>> => Waiting(Tail(q)[1]))
<1>1. /\ Tail(q) \in Seq(Reqs) /\ Len(Tail(q)) = Len(q) - 1
      /\ \A i \in 1 .. Len(q) - 1 : Tail(q)[i] = q[i + 1]
  BY DEF Queued
<1>2. \A i \in 1 .. Len(Tail(q)) : Waiting(Tail(q)[i])
  BY <1>1 DEF Queued
<1>3. Tail(q) # <<>> => Waiting(Tail(q)[1]) 
  <2>1. Tail(q) # <<>> => 1 \in 1 .. Len(Tail(q))
    BY <1>1
  <2> QED BY <1>2, <2>1
<1> QED BY <1>1, <1>2, <1>3, WaitingIsCurrent DEF Queued

LEMMA HeadChanged ==
    ASSUME NEW q, Queued(q), q # <<>>, NEW r
    PROVE  /\ r \in Reqs => [q EXCEPT ![1] = r] \in Seq(Reqs)
           /\ [q EXCEPT ![1] = r] # <<>> /\ [q EXCEPT ![1] = r][1] = r
           /\ Tail([q EXCEPT ![1] = r]) = Tail(q)
           /\ Current(r) => Queued([q EXCEPT ![1] = r])
<1>1. q \in Seq(Reqs) /\ Len(q) \in Nat /\ Len(q) >= 1
  BY DEF Queued
<1>2. PICK s : s = [q EXCEPT ![1] = r]
  OBVIOUS
<1>3. s[1] = r /\ Len(s) = Len(q) /\ \A i \in 2 .. Len(q) : s[i] = q[i]
  BY <1>1, <1>2
<1>4. r \in Reqs => s \in Seq(Reqs)
  BY <1>1, <1>2
<1>5. s # <<>>
  BY <1>1, <1>3
<1>6. Tail(s) = Tail(q)
  BY <1>1, <1>2, <1>3
<1>7. Current(r) => Queued(s)
  BY <1>3, <1>4 DEF Queued, Current
<1> QED BY <1>2, <1>3, <1>4, <1>5, <1>6, <1>7

LEMMA FirstIs ==
    ASSUME HdInv, hd_queue # <<>>
    PROVE  HD_CURRENT = hd_queue[1]
BY DEF HdInv, Queued, HD_CURRENT

-----------------------------------------------------------------------------
\* end_request: the next request becomes the current one, untouched, and the
\* outcome is recorded.
LEMMA Ends ==
    ASSUME Queued(hd_queue), hd_queue # <<>>, ended \in Seq(Outcomes), OutcomeIsTrue,
           NEW q, q \in {hd_queue} \cup {[hd_queue EXCEPT ![1] = r] : r \in Reqs},
           NEW ok \in BOOLEAN, HdEnd(q, ok),
           NEW e, e = [req |-> q[1], ok |-> ok, data |-> IF ok THEN Data(q[1]) ELSE <<>>],
           ok => Data(q[1]) \in Halves, IsTrue(e)
    PROVE  /\ Queued(hd_queue') /\ (hd_queue' # <<>> => hd_queue'[1].buf = 0)
           /\ ended' \in Seq(Outcomes) /\ OutcomeIsTrue'
<1>1. q \in Seq(Reqs) /\ q # <<>> /\ Tail(q) = Tail(hd_queue) /\ q[1] \in Reqs
  <2>1. CASE q = hd_queue
    BY <2>1 DEF Queued, Current
  <2>2. ASSUME NEW r \in Reqs, q = [hd_queue EXCEPT ![1] = r]
        PROVE  q \in Seq(Reqs) /\ q # <<>> /\ Tail(q) = Tail(hd_queue) /\ q[1] \in Reqs
    BY <2>2, HeadChanged
  <2> QED BY <2>1, <2>2
<1>2. hd_queue' = Tail(hd_queue) /\ ended' = Append(ended, e)
  BY <1>1 DEF HdEnd
<1>3. Queued(hd_queue') /\ (hd_queue' # <<>> => Waiting(hd_queue'[1]))
  BY <1>2, TailQueued
<1>4. e \in Outcomes
  <2>1. CASE ok
    BY <1>1, <2>1 DEF Outcomes
  <2>2. CASE ~ok
    BY <1>1, <2>2 DEF Outcomes
  <2> QED BY <2>1, <2>2
<1>5. ended' \in Seq(Outcomes)
  BY <1>2, <1>4
<1>6. \A i \in DOMAIN ended' : IsTrue(ended'[i])
  <2>1. \A i \in DOMAIN ended' : ended'[i] = e \/ (i \in DOMAIN ended /\ ended'[i] = ended[i])
    BY <1>2, <1>4
  <2> QED BY <2>1, OutcomesTrue
<1> QED BY <1>3, <1>5, <1>6, OutcomesTrue DEF Waiting

\* An error: the request is tried again or ends, because of its errors.
LEMMA Fails ==
    ASSUME HdInv, hd_queue # <<>>, bad_rw_intr
    PROVE  /\ Queued(hd_queue') /\ hd_reset' \in BOOLEAN
           /\ hd_queue' # <<>> => \/ hd_queue'[1].buf = 0
                                  \/ \E n \in Nat : hd_queue'[1] = [hd_queue[1] EXCEPT !.errors = n]
           /\ ended' \in Seq(Outcomes) /\ OutcomeIsTrue'
<1>1. PICK r : r = hd_queue[1]
  OBVIOUS
<1>2. Current(r) /\ r \in Reqs
  BY <1>1 DEF HdInv, Queued, Current
<1>3. PICK b : b = [r EXCEPT !.errors = r.errors + 1]
  OBVIOUS
<1>4. /\ b \in Reqs /\ b.errors = r.errors + 1 /\ b.errors \in Nat
      /\ (b.errors < MAX_ERRORS => Current(b))
  BY <1>2, <1>3 DEF Reqs, Current
<1>5. PICK q : q = [hd_queue EXCEPT ![1] = b]
  OBVIOUS
<1>6. q = [hd_queue EXCEPT ![1].errors = @ + 1]
  BY <1>1, <1>3, <1>5 DEF HdInv, Queued
<1>7. q[1] = b /\ Head(q) = b /\ q # <<>> /\ (Current(b) => Queued(q))
  <2>1. q # <<>> /\ q[1] = b /\ (Current(b) => Queued(q)) /\ q \in Seq(Reqs)
    BY <1>4, <1>5, HeadChanged DEF HdInv
  <2> QED BY <2>1
<1>8. /\ IF b.errors >= MAX_ERRORS
         THEN /\ HdEnd(q, FALSE)
              /\ hd_reset' \in IF Tail(q) = <<>> THEN {hd_reset, TRUE}
                               ELSE {hd_reset \/ q[2].errors > MAX_ERRORS \div 2}
         ELSE /\ hd_queue' = q /\ UNCHANGED ended
              /\ hd_reset' = (hd_reset \/ b.errors > MAX_ERRORS \div 2)
  BY <1>6, <1>7 DEF bad_rw_intr
<1>9. hd_reset' \in BOOLEAN
  BY <1>8 DEF HdInv, HdTypes
<1>10. CASE b.errors >= MAX_ERRORS
  <2>1. PICK e : e = [req |-> q[1], ok |-> FALSE, data |-> IF FALSE THEN Data(q[1]) ELSE <<>>]
    OBVIOUS
  <2>2. IsTrue(e)
    BY <1>7, <1>10, <2>1 DEF IsTrue
  <2>3. HdEnd(q, FALSE)
    BY <1>8, <1>10
  <2>4. q \in {hd_queue} \cup {[hd_queue EXCEPT ![1] = x] : x \in Reqs}
    BY <1>4, <1>5
  <2>5. /\ Queued(hd_queue') /\ (hd_queue' # <<>> => hd_queue'[1].buf = 0)
        /\ ended' \in Seq(Outcomes) /\ OutcomeIsTrue'
    BY <2>1, <2>2, <2>3, <2>4, Ends DEF HdInv, HdTypes
  <2> QED BY <1>9, <2>5
<1>11. CASE ~(b.errors >= MAX_ERRORS)
  <2>1. hd_queue' = q /\ ended' = ended
    BY <1>8, <1>11
  <2>2. Current(b)
    BY <1>4, <1>11, HdAssumption
  <2>3. OutcomeIsTrue'
    BY <2>1, OutcomesTrue DEF HdInv
  <2> QED BY <1>1, <1>2, <1>3, <1>4, <1>7, <1>9, <2>1, <2>2, <2>3 DEF HdInv, HdTypes
<1> QED BY <1>10, <1>11

\* What is on the device has its place on the medium.
LEMMA HasPlace ==
    ASSUME NEW r, Current(r), OnDevice(r)
    PROVE  /\ NrOf(r.dev) \in 0 .. NR_HD - 1 /\ Absolute(r) \in Nat
           /\ r.dev \in DOMAIN hd /\ hd[r.dev].start \in Nat /\ hd[r.dev].size \in Nat
           /\ Absolute(r) = r.sector + hd[r.dev].start
           /\ \A k \in 0 .. 1 : <<NrOf(r.dev), Absolute(r) - r.buf + k>> \in Media
<1>1. r.dev \in DOMAIN hd /\ r.dev \in Nat /\ r.sector \in Nat /\ r.buf \in 0 .. 1 /\ r.sector >= r.buf
      /\ r.sector - r.buf + 2 <= hd[r.dev].size
  BY DEF Current, OnDevice, Reqs
<1>2. hd[r.dev].start \in Nat /\ hd[r.dev].size \in Nat
  BY <1>1, HdAssumption
<1>3. NrOf(r.dev) \in 0 .. NR_HD - 1
  BY <1>1, HdAssumption DEF NrOf, OnDevice
<1>4. PICK a \in Nat, z \in Nat : a = hd[r.dev].start /\ z = hd[r.dev].size
  BY <1>2
<1>5. Absolute(r) = r.sector + a
  BY <1>4 DEF Absolute
<1>6. \A k \in 0 .. 1 : Absolute(r) - r.buf + k \in Sectors
  <2> TAKE k \in 0 .. 1
  <2>1. Absolute(r) - r.buf + k \in hd[r.dev].start .. hd[r.dev].start + hd[r.dev].size - 1
    BY <1>1, <1>4, <1>5
  <2> QED BY <1>1, <2>1 DEF Sectors
<1> QED BY <1>1, <1>2, <1>3, <1>5, <1>4, <1>6 DEF Media

-----------------------------------------------------------------------------
LEMMA InitHolds == HdInit => HdInv
<1> SUFFICES ASSUME HdInit PROVE HdInv
  OBVIOUS
<1>1. Queued(hd_queue) /\ Work /\ OutcomeIsTrue
  BY DEF HdInit, Queued, Work, OutcomeIsTrue, Idle
<1>2. Nothing \in Mark /\ Nothing \in Nat \X Int
  BY DEF Nothing, Mark
<1>3. [k \in 0 .. 1 |-> Nothing] \in Halves
  BY <1>2 DEF Halves
<1>4. memory \in [1 .. MaxHdReqs -> Halves] /\ media \in [Media -> Mark]
  <2>1. media = [x \in Media |-> Nothing]
    BY DEF HdInit, Media
  <2> QED BY <1>2, <1>3, <2>1 DEF HdInit
<1>5. drive \in [cmd : {"none", "specify", "restore", "read", "write"}, nr : Nat, at : Int,
                 count : 0 .. 2, data : Mark]
  BY DEF HdInit, Idle, Mark
<1>6. ended \in Seq(Outcomes)
  BY DEF HdInit
<1>7. HdTypes
  BY <1>4, <1>5, <1>6 DEF HdInit, HdTypes
<1> QED BY <1>1, <1>7 DEF HdInv

\* A new request: the current one stays what it is.
LEMMA RequestIs ==
    ASSUME NEW id \in 1 .. MaxHdReqs, NEW cmd \in {READ, WRITE}, NEW b \in HdBlocks
    PROVE  Waiting(Request(id, cmd, b[1], b[2]))
<1>1. b[1] \in Nat /\ b[2] \in Nat /\ 2 * b[2] \in Nat
  BY HdAssumption
<1> QED BY <1>1, HdAssumption DEF Request, Waiting, Reqs

LEMMA MakeRequest ==
    ASSUME HdInv, hd_make_request
    PROVE  HdInv'
<1>1. PICK b \in HdBlocks, cmd \in {READ, WRITE} :
        hd_queue' = AddRequest(hd_queue, Request(Len(hd_queue) + Len(ended) + 1, cmd, b[1], b[2]))
  BY DEF hd_make_request
<1>2. Len(hd_queue) + Len(ended) + 1 \in 1 .. MaxHdReqs
  <2>1. Len(hd_queue) \in Nat /\ Len(ended) \in Nat
    BY DEF HdInv, Queued, HdTypes
  <2> QED BY <2>1, HdAssumption DEF hd_make_request
<1>3. PICK r : Waiting(r) /\ hd_queue' = AddRequest(hd_queue, r)
  BY <1>1, <1>2, RequestIs
<1>4. Queued(hd_queue') /\ hd_queue' # <<>> /\ hd_queue'[1] = IF hd_queue = <<>> THEN r ELSE hd_queue[1]
  BY <1>3, AddKeepsHead DEF HdInv
<1>5. /\ hd_active' = (hd_queue = <<>>)
      /\ do_hd' = do_hd /\ hd_reset' = hd_reset /\ hd_recal' = hd_recal /\ drive' = drive
      /\ memory' = memory /\ media' = media /\ ended' = ended
  BY DEF hd_make_request
<1>6. HdTypes' /\ OutcomeIsTrue'
  BY <1>5, OutcomesTrue DEF HdInv, HdTypes
<1>7. CASE hd_queue = <<>>
  <2>1. drive.cmd = "none"
    BY <1>7 DEF HdInv, Work
  <2> QED BY <1>3, <1>4, <1>5, <1>6, <1>7, <2>1 DEF HdInv, Work, HalfDone, Waiting
<1>8. CASE hd_queue # <<>>
  <2>1. hd_queue'[1] = hd_queue[1] /\ hd_active' = FALSE
    BY <1>4, <1>5, <1>8
  <2>2. HalfDone(hd_queue[1])'
    BY <1>5, <1>8, <2>1 DEF HdInv, Work, HalfDone
  <2>3. drive'.cmd # "none" => UnderWay(hd_queue[1])'
    BY <1>5, <2>1 DEF HdInv, Work, UnderWay
  <2> QED BY <1>4, <1>6, <2>1, <2>2, <2>3 DEF HdInv, Work
<1> QED BY <1>7, <1>8

\* What an error leaves behind.
LEMMA AfterFailure ==
    ASSUME HdInv, hd_queue # <<>>, bad_rw_intr, drive' = Idle,
           do_hd' \in {"none", "write_intr"}, hd_active' \in BOOLEAN,
           UNCHANGED <<hd_recal, memory, media>>
    PROVE  HdInv'
<1>1. /\ Queued(hd_queue') /\ hd_reset' \in BOOLEAN
      /\ hd_queue' # <<>> => \/ hd_queue'[1].buf = 0
                             \/ \E n \in Nat : hd_queue'[1] = [hd_queue[1] EXCEPT !.errors = n]
      /\ ended' \in Seq(Outcomes) /\ OutcomeIsTrue'
  BY Fails
<1>2. drive' \in [cmd : {"none", "specify", "restore", "read", "write"}, nr : Nat, at : Int,
                  count : 0 .. 2, data : Mark]
  BY DEF Idle, Mark
<1>3. HdTypes'
  BY <1>1, <1>2 DEF HdInv, HdTypes
<1>4. hd_queue' # <<>> => HalfDone(hd_queue[1])'
  <2>1. ASSUME NEW n \in Nat, hd_queue'[1] = [hd_queue[1] EXCEPT !.errors = n]
        PROVE  HalfDone(hd_queue[1])'
    <3>1. PICK r : r = hd_queue[1]
      OBVIOUS
    <3>2. PICK s : s = hd_queue'[1]
      OBVIOUS
    <3>3. /\ s.buf = r.buf /\ s.dev = r.dev /\ s.sector = r.sector /\ s.cmd = r.cmd /\ s.id = r.id
      BY <2>1, <3>1, <3>2 DEF HdInv, Queued, Current, Reqs
    <3>4. HalfDone(r)
      BY <3>1 DEF HdInv, Work
    <3>5. HalfDone(s)'
      BY <3>3, <3>4 DEF HalfDone, OnDevice, Absolute
    <3> QED BY <3>2, <3>5
  <2>2. hd_queue' # <<>> /\ hd_queue'[1].buf = 0 => HalfDone(hd_queue[1])'
    BY DEF HalfDone
  <2> QED BY <1>1, <2>1, <2>2
<1>5. drive'.cmd = "none"
  BY DEF Idle
<1> QED BY <1>1, <1>3, <1>4, <1>5 DEF HdInv, Work

\* A request that is not on the device ends.
LEMMA OffDeviceEnds ==
    ASSUME HdInv, hd_off_device
    PROVE  HdInv'
<1>1. PICK r : r = hd_queue[1]
  OBVIOUS
<1>2. /\ hd_queue # <<>> /\ hd_active /\ OffDevice(r) /\ HdEnd(hd_queue, FALSE)
      /\ UNCHANGED <<do_hd, hd_reset, hd_recal, hd_active, drive, memory, media>>
  <2>1. HD_CURRENT = r
    BY <1>1, FirstIs DEF hd_off_device
  <2> QED BY <2>1 DEF hd_off_device
<1>3. Current(r) /\ HalfDone(r)
  BY <1>1, <1>2 DEF HdInv, Queued, Work
<1>4. PICK e : e = [req |-> r, ok |-> FALSE, data |-> IF FALSE THEN Data(r) ELSE <<>>]
  OBVIOUS
<1>5. IsTrue(e)
  <2>1. r \in Reqs /\ r.buf \in 0 .. 1 /\ r.sector \in Nat /\ r.dev \in Nat
    BY <1>3 DEF Current, Reqs
  <2>2. CASE r.buf = 0
    <3>1. [r EXCEPT !.sector = r.sector - r.buf] = r
      BY <2>1, <2>2 DEF Reqs
    <3> QED BY <1>2, <1>4, <3>1 DEF IsTrue
  <2>3. CASE r.buf = 1
    <3>1. r.dev < 5 * NR_HD /\ r.sector + 1 <= hd[r.dev].size /\ ~(r.sector + 2 <= hd[r.dev].size)
      BY <1>2, <1>3, <2>1, <2>3 DEF HalfDone, OnDevice, OffDevice
    <3>2. hd[r.dev].size \in Nat
      BY <1>3, <3>1, HdAssumption DEF Current
    <3>3. r.sector + 1 = hd[r.dev].size
      BY <2>1, <3>1, <3>2
    <3> QED BY <1>4, <2>3, <3>3 DEF IsTrue
  <2> QED BY <2>1, <2>2, <2>3
<1>6. /\ Queued(hd_queue') /\ (hd_queue' # <<>> => hd_queue'[1].buf = 0)
      /\ ended' \in Seq(Outcomes) /\ OutcomeIsTrue'
  BY <1>1, <1>2, <1>4, <1>5, Ends DEF HdInv, HdTypes
<1>7. drive'.cmd = "none"
  BY <1>2 DEF HdInv, Work
<1>8. HdTypes'
  BY <1>2, <1>6 DEF HdInv, HdTypes
<1> QED BY <1>6, <1>7, <1>8 DEF HdInv, Work, HalfDone

\* A request that do_hd_request serves is on the device.
LEMMA ServedIs ==
    ASSUME HdInv, Served
    PROVE  /\ hd_queue # <<>> /\ hd_active /\ HD_CURRENT = hd_queue[1]
           /\ Current(hd_queue[1]) /\ HalfDone(hd_queue[1]) /\ OnDevice(hd_queue[1])
<1>1. PICK r : r = hd_queue[1]
  OBVIOUS
<1>2. hd_queue # <<>> /\ hd_active /\ HD_CURRENT = r
  BY <1>1, FirstIs DEF Served
<1>3. Current(r) /\ HalfDone(r) /\ ~OffDevice(r)
  BY <1>1, <1>2 DEF HdInv, Queued, Work, Served
<1>4. r.dev < 5 * NR_HD /\ r.sector + 2 <= hd[r.dev].size /\ r.sector \in Nat /\ r.buf \in 0 .. 1
  BY <1>3 DEF OffDevice, Current, Reqs
<1>5. hd[r.dev].size \in Nat
  BY <1>3, <1>4, HdAssumption DEF Current
<1>6. OnDevice(r)
  BY <1>4, <1>5 DEF OnDevice
<1> QED BY <1>1, <1>2, <1>3, <1>6

\* A command is given: to reset, to recalibrate, to read or to write.
Commands == {"specify", "restore", "read", "write"}
Fits(r, intr, n, a, data) ==
    /\ intr \in {"read_intr", "write_intr"} => n = r.left /\ a = Absolute(r)
    /\ intr = "read_intr" => r.cmd = READ
    /\ intr = "write_intr" => r.cmd = WRITE /\ data = <<r.id, r.buf>>

LEMMA CommandGiven ==
    ASSUME HdInv, Served, NEW cmd \in Commands, NEW n \in 0 .. 2, NEW a \in Int,
           NEW intr \in {"read_intr", "write_intr", "recal_intr"}, NEW data \in Mark,
           do_hd' = intr,
           drive' = [cmd |-> cmd, nr |-> NrOf(HD_CURRENT.dev), count |-> n, data |-> data, at |-> a],
           hd_active' = FALSE, hd_reset' \in BOOLEAN, hd_recal' \in BOOLEAN,
           UNCHANGED <<hd_queue, memory, media, ended>>,
           Fits(HD_CURRENT, intr, n, a, data)
    PROVE  HdInv'
<1>1. PICK r : r = hd_queue[1]
  OBVIOUS
<1>2. HD_CURRENT = r /\ Current(r) /\ HalfDone(r) /\ OnDevice(r) /\ hd_queue # <<>>
  BY <1>1, ServedIs
<1>3. NrOf(r.dev) \in 0 .. NR_HD - 1
  BY <1>2, HasPlace
<1>4. NrOf(r.dev) \in Nat
  BY <1>3, HdAssumption
<1>5. drive' = [cmd |-> cmd, nr |-> NrOf(r.dev), count |-> n, data |-> data, at |-> a]
  BY <1>2
<1>6. drive' \in [cmd : {"none", "specify", "restore", "read", "write"}, nr : Nat, at : Int,
                  count : 0 .. 2, data : Mark]
  BY <1>4, <1>5 DEF Commands
<1>7. HdTypes'
  BY <1>6 DEF HdInv, HdTypes
<1>8. HalfDone(r)'
  BY <1>2 DEF HalfDone
<1>9. UnderWay(r)'
  BY <1>2, <1>5 DEF UnderWay, Fits
<1>10. OutcomeIsTrue'
  BY OutcomesTrue DEF HdInv
<1>11. Work'
  BY <1>1, <1>2, <1>8, <1>9 DEF Work
<1>12. Queued(hd_queue')
  BY DEF HdInv
<1> QED BY <1>7, <1>10, <1>11, <1>12 DEF HdInv

LEMMA CommandsKeep ==
    ASSUME HdInv, reset_hd \/ hd_recalibrate \/ hd_read \/ hd_write
    PROVE  HdInv'
<1>1. Served /\ hd_active' = FALSE /\ UNCHANGED <<hd_queue, memory, media, ended>>
      /\ hd_reset' \in BOOLEAN /\ hd_recal' \in BOOLEAN
  BY DEF reset_hd, hd_recalibrate, hd_read, hd_write, Ready, HdInv, HdTypes
<1>2. Nothing \in Mark
  BY DEF Nothing, Mark
<1>3. PICK a \in Int : a = (NoAddress.cyl * HEAD + NoAddress.head) * SECT + NoAddress.sec - 1
  BY HdAssumption DEF NoAddress
<1>4. PICK r : r = HD_CURRENT /\ Current(r) /\ OnDevice(r)
  BY <1>1, ServedIs
<1>5. Absolute(r) \in Nat
  BY <1>4, HasPlace
<1>6. r.left \in 0 .. 2 /\ PortData(r) \in Mark /\ PortData(r) = <<r.id, r.buf>>
  BY <1>4 DEF Current, Reqs, PortData, Mark
<1>7. PICK c : c = CHS(Absolute(r))
  OBVIOUS
<1>8. (c.cyl * HEAD + c.head) * SECT + c.sec - 1 = Absolute(r)
  BY <1>5, <1>7, AddressIs
<1>9. PICK b \in Int : b = Absolute(r)
  BY <1>5
<1>z. PICK z \in 0 .. 2 : z = 0
  OBVIOUS
<1>10. CASE reset_hd
  <2>1. /\ do_hd' = "recal_intr"
        /\ drive' = [cmd |-> "specify", nr |-> NrOf(HD_CURRENT.dev), count |-> z, data |-> Nothing, at |-> a]
    BY <1>3, <1>z, <1>10 DEF reset_hd, hd_out
  <2>2. Fits(HD_CURRENT, "recal_intr", z, a, Nothing)
    BY DEF Fits
  <2> QED BY <1>1, <1>2, <2>1, <2>2, CommandGiven DEF Commands
<1>11. CASE hd_recalibrate
  <2>1. /\ do_hd' = "recal_intr"
        /\ drive' = [cmd |-> "restore", nr |-> NrOf(HD_CURRENT.dev), count |-> z, data |-> Nothing, at |-> a]
    BY <1>3, <1>z, <1>11 DEF hd_recalibrate, hd_out
  <2>2. Fits(HD_CURRENT, "recal_intr", z, a, Nothing)
    BY DEF Fits
  <2> QED BY <1>1, <1>2, <2>1, <2>2, CommandGiven DEF Commands
<1>12. CASE hd_read
  <2>1. hd_out("read", NrOf(HD_CURRENT.dev), r.left, c, "read_intr", Nothing) /\ r.cmd = READ
    BY <1>4, <1>7, <1>12 DEF hd_read, HdCommand
  <2>2. /\ do_hd' = "read_intr"
        /\ drive' = [cmd |-> "read", nr |-> NrOf(HD_CURRENT.dev), count |-> r.left, data |-> Nothing, at |-> b]
    <3>1. b = (c.cyl * HEAD + c.head) * SECT + c.sec - 1
      BY <1>8, <1>9
    <3> QED BY <2>1, <3>1 DEF hd_out
  <2>3. Fits(HD_CURRENT, "read_intr", r.left, b, Nothing)
    BY <1>4, <1>9, <2>1 DEF Fits
  <2> QED BY <1>1, <1>2, <1>6, <2>2, <2>3, CommandGiven DEF Commands
<1>13. CASE hd_write
  <2>1. hd_out("write", NrOf(HD_CURRENT.dev), r.left, c, "write_intr", PortData(r)) /\ r.cmd = WRITE
    BY <1>4, <1>7, <1>13 DEF hd_write, HdCommand
  <2>2. /\ do_hd' = "write_intr"
        /\ drive' = [cmd |-> "write", nr |-> NrOf(HD_CURRENT.dev), count |-> r.left, data |-> PortData(r), at |-> b]
    <3>1. b = (c.cyl * HEAD + c.head) * SECT + c.sec - 1
      BY <1>8, <1>9
    <3> QED BY <2>1, <3>1 DEF hd_out
  <2>3. Fits(HD_CURRENT, "write_intr", r.left, b, PortData(r))
    BY <1>4, <1>6, <1>9, <2>1 DEF Fits
  <2> QED BY <1>1, <1>6, <2>2, <2>3, CommandGiven DEF Commands
<1> QED BY <1>10, <1>11, <1>12, <1>13

-----------------------------------------------------------------------------
\* The interrupts.  The request the driver works on, and the same one sector on.
LEMMA AtWork ==
    ASSUME HdInv, drive.cmd # "none", do_hd \in {"read_intr", "write_intr"}
    PROVE  /\ hd_queue # <<>> /\ ~hd_active /\ HD_CURRENT = hd_queue[1]
           /\ Current(hd_queue[1]) /\ HalfDone(hd_queue[1]) /\ OnDevice(hd_queue[1])
           /\ drive.nr = NrOf(hd_queue[1].dev) /\ drive.at = Absolute(hd_queue[1])
           /\ drive.count = hd_queue[1].left
<1>1. hd_queue # <<>>
  BY DEF HdInv, Work
<1> QED BY <1>1, FirstIs DEF HdInv, Work, Queued, UnderWay

\* A request after its first sector.
Forward(r, s) ==
    /\ s \in Reqs /\ s.id = r.id /\ s.cmd = r.cmd /\ s.dev = r.dev
    /\ s.sector = r.sector + 1 /\ s.buf = r.buf + 1 /\ s.left = r.left - 1

LEMMA ForwardIs ==
    ASSUME NEW r, Current(r), OnDevice(r), r.left = 2, NEW s, Forward(r, s), s.errors < MAX_ERRORS
    PROVE  Current(s) /\ OnDevice(s) /\ s.buf = 1 /\ Absolute(s) = Absolute(r) + 1 /\ r.buf = 0
<1>1. /\ r.sector \in Nat /\ r.buf = 0 /\ r.dev < 5 * NR_HD /\ r.dev \in DOMAIN hd
      /\ r.sector - r.buf + 2 <= hd[r.dev].size
  BY DEF Current, OnDevice, Reqs
<1>2. hd[r.dev].start \in Nat /\ hd[r.dev].size \in Nat
  BY <1>1, HdAssumption
<1>3. s.sector = r.sector + 1 /\ s.buf = 1 /\ s.left = 1 /\ s.dev = r.dev /\ s \in Reqs
  BY <1>1 DEF Forward
<1>4. OnDevice(s)
  BY <1>1, <1>2, <1>3 DEF OnDevice
<1>5. Current(s)
  BY <1>1, <1>3 DEF Current
<1>6. Absolute(s) = Absolute(r) + 1
  BY <1>1, <1>2, <1>3 DEF Absolute
<1> QED BY <1>1, <1>3, <1>4, <1>5, <1>6

\* The next sector of the same command.
LEMMA GoesOn ==
    ASSUME HdInv, drive.cmd # "none", do_hd \in {"read_intr", "write_intr"}, hd_queue[1].left = 2,
           NEW s, Forward(hd_queue[1], s), s.errors < MAX_ERRORS,
           hd_queue' = [hd_queue EXCEPT ![1] = s], do_hd' = do_hd,
           NEW data \in Mark, drive' = [drive EXCEPT !.at = @ + 1, !.count = @ - 1, !.data = data],
           do_hd = "write_intr" => data = <<s.id, s.buf>>,
           UNCHANGED <<hd_active, ended, hd_reset, hd_recal>>,
           memory' \in [1 .. MaxHdReqs -> Halves], media' \in [Media -> Mark], HalfDone(s)'
    PROVE  HdInv'
<1>1. PICK r : r = hd_queue[1]
  OBVIOUS
<1>2. /\ hd_queue # <<>> /\ ~hd_active /\ Current(r) /\ OnDevice(r)
      /\ drive.nr = NrOf(r.dev) /\ drive.at = Absolute(r) /\ drive.count = 2
  BY <1>1, AtWork
<1>3. Current(s) /\ OnDevice(s) /\ s.buf = 1 /\ Absolute(s) = Absolute(r) + 1 /\ s.dev = r.dev
      /\ s.left = 1 /\ s.cmd = r.cmd
  BY <1>1, <1>2, ForwardIs DEF Forward
<1>4. Queued(hd_queue') /\ hd_queue' # <<>> /\ hd_queue'[1] = s
  <2>1. Queued(hd_queue)
    BY DEF HdInv
  <2>2. /\ [hd_queue EXCEPT ![1] = s] # <<>> /\ [hd_queue EXCEPT ![1] = s][1] = s
        /\ Current(s) => Queued([hd_queue EXCEPT ![1] = s])
    BY <1>2, <2>1, HeadChanged, ZenonT(40)
  <2>3. Queued([hd_queue EXCEPT ![1] = s])
    BY <1>3, <2>2, ZenonT(40)
  <2> QED BY <2>2, <2>3, ZenonT(40)
<1>5. /\ drive' \in [cmd : {"none", "specify", "restore", "read", "write"}, nr : Nat, at : Int,
                     count : 0 .. 2, data : Mark]
      /\ drive'.nr = NrOf(s.dev) /\ drive'.at = Absolute(s) /\ drive'.count = 1 /\ drive'.data = data
  <2>1. /\ drive \in [cmd : {"none", "specify", "restore", "read", "write"}, nr : Nat, at : Int,
                     count : 0 .. 2, data : Mark]
        /\ drive.at \in Int /\ drive.at + 1 \in Int /\ drive.count - 1 = 1
    BY <1>2 DEF HdInv, HdTypes
  <2>2. /\ drive'.nr = drive.nr /\ drive'.at = drive.at + 1 /\ drive'.count = drive.count - 1
        /\ drive'.data = data
    BY <2>1
  <2>3. drive' \in [cmd : {"none", "specify", "restore", "read", "write"}, nr : Nat, at : Int,
                    count : 0 .. 2, data : Mark]
    <3>1. drive' = [cmd |-> drive.cmd, nr |-> drive.nr, at |-> drive.at + 1,
                    count |-> drive.count - 1, data |-> data]
      BY <2>1
    <3>2. drive.count - 1 \in 0 .. 2
      BY <2>1
    <3> QED BY <2>1, <3>1, <3>2
  <2> QED BY <1>2, <1>3, <2>1, <2>2, <2>3
<1>6. HdTypes'
  BY <1>5 DEF HdInv, HdTypes
<1>7. do_hd = "read_intr" => s.cmd = READ
  BY <1>1, <1>2, <1>3 DEF HdInv, Work, UnderWay
<1>8. do_hd = "write_intr" => s.cmd = WRITE
  BY <1>1, <1>2, <1>3 DEF HdInv, Work, UnderWay
<1>9. UnderWay(s)'
  BY <1>3, <1>5, <1>7, <1>8 DEF UnderWay
<1>10. Work'
  BY <1>2, <1>4, <1>9 DEF Work
<1>11. OutcomeIsTrue'
  BY OutcomesTrue DEF HdInv
<1> QED BY <1>4, <1>6, <1>10, <1>11 DEF HdInv

\* The last sector: the request ends well.
LEMMA EndsWell ==
    ASSUME HdInv, hd_queue # <<>>, NEW s \in Reqs,
           HdEnd([hd_queue EXCEPT ![1] = s], TRUE), drive' = Idle, do_hd' = "none",
           hd_active' = TRUE, UNCHANGED <<hd_reset, hd_recal>>,
           memory' \in [1 .. MaxHdReqs -> Halves], media' \in [Media -> Mark],
           NEW d \in Halves, d = Data(s),
           d = IF s.cmd = READ THEN Asked(s) ELSE [k \in 0 .. 1 |-> <<s.id, k>>]
    PROVE  HdInv'
<1>1. PICK q : q = [hd_queue EXCEPT ![1] = s]
  OBVIOUS
<1>2. q[1] = s
  BY <1>1, HeadChanged DEF HdInv
<1>3. PICK e : e = [req |-> q[1], ok |-> TRUE, data |-> IF TRUE THEN Data(q[1]) ELSE <<>>]
  OBVIOUS
<1>4. e.req = s /\ e.ok /\ e.data = d
  BY <1>2, <1>3
<1>5. IsTrue(e)
  BY <1>4 DEF IsTrue
<1>6. HdEnd(q, TRUE) /\ q \in {hd_queue} \cup {[hd_queue EXCEPT ![1] = r] : r \in Reqs}
  BY <1>1
<1>7. Data(q[1]) \in Halves
  BY <1>2
<1>8. /\ Queued(hd_queue') /\ (hd_queue' # <<>> => hd_queue'[1].buf = 0)
      /\ ended' \in Seq(Outcomes) /\ OutcomeIsTrue'
  BY <1>3, <1>5, <1>6, <1>7, Ends DEF HdInv, HdTypes
<1>9. drive' \in [cmd : {"none", "specify", "restore", "read", "write"}, nr : Nat, at : Int,
                  count : 0 .. 2, data : Mark] /\ drive'.cmd = "none"
  BY DEF Idle, Mark
<1>10. HdTypes'
  BY <1>8, <1>9 DEF HdInv, HdTypes
<1>11. Work'
  BY <1>8, <1>9 DEF Work, HalfDone
<1> QED BY <1>8, <1>10, <1>11 DEF HdInv

\* A sector was read into its half of the buffer.
LEMMA ReadKeeps ==
    ASSUME HdInv, read_intr
    PROVE  HdInv'
<1>1. PICK r : r = hd_queue[1]
  OBVIOUS
<1>2. drive.cmd # "none" /\ do_hd = "read_intr"
  BY DEF read_intr, Interrupt
<1>3. /\ hd_queue # <<>> /\ ~hd_active /\ HD_CURRENT = r /\ Current(r) /\ HalfDone(r) /\ OnDevice(r)
      /\ drive.nr = NrOf(r.dev) /\ drive.at = Absolute(r) /\ drive.count = r.left /\ r.cmd = READ
  BY <1>1, <1>2, AtWork DEF HdInv, Work, UnderWay
<1>4. /\ r \in Reqs /\ r.id \in 1 .. MaxHdReqs /\ r.left \in 1 .. 2 /\ r.buf = 2 - r.left
      /\ r.buf \in 0 .. 1 /\ r.sector \in Nat /\ r.dev \in Nat
  BY <1>3 DEF Current, Reqs
<1>5. PICK s : s = SectorDone([r EXCEPT !.errors = 0])
  OBVIOUS
<1>6. Forward(r, s) /\ s.errors = 0 /\ s \in Reqs /\ s.errors < MAX_ERRORS
  <2>1. PICK u : u = [r EXCEPT !.errors = 0]
    OBVIOUS
  <2>2. /\ u \in Reqs /\ u.errors = 0 /\ u.id = r.id /\ u.cmd = r.cmd /\ u.dev = r.dev
        /\ u.sector = r.sector /\ u.buf = r.buf /\ u.left = r.left
    BY <1>4, <2>1 DEF Reqs
  <2>3. s = [u EXCEPT !.sector = @ + 1, !.buf = @ + 1, !.left = @ - 1]
    BY <1>5, <2>1 DEF SectorDone
  <2>4. /\ s.errors = 0 /\ s.id = r.id /\ s.cmd = r.cmd /\ s.dev = r.dev
        /\ s.sector = r.sector + 1 /\ s.buf = r.buf + 1 /\ s.left = r.left - 1
    BY <2>2, <2>3 DEF Reqs
  <2>5. s \in Reqs
    <3>1. r.sector + 1 \in Nat /\ r.buf + 1 \in 0 .. 2 /\ r.left - 1 \in 0 .. 2
      BY <1>4
    <3>2. s = [id |-> u.id, cmd |-> u.cmd, dev |-> u.dev, sector |-> u.sector + 1,
               left |-> u.left - 1, buf |-> u.buf + 1, errors |-> u.errors]
      BY <2>2, <2>3 DEF Reqs
    <3>3. u.id \in 1 .. MaxHdReqs /\ u.cmd \in {READ, WRITE} /\ u.dev \in Nat /\ u.errors \in Nat
      BY <2>2 DEF Reqs
    <3> QED BY <2>2, <3>1, <3>2, <3>3 DEF Reqs
  <2> QED BY <2>4, <2>5, HdAssumption DEF Forward
<1>7. PICK m : m = <<drive.nr, drive.at>>
  OBVIOUS
<1>8. m \in Nat \X Int /\ m = <<NrOf(r.dev), Absolute(r)>>
  BY <1>3, <1>7 DEF HdInv, HdTypes
<1>9. /\ memory' = [memory EXCEPT ![r.id][r.buf] = m] /\ media' = media
      /\ NextSector(Nothing) /\ UNCHANGED <<hd_reset, hd_recal>>
      /\ IF s.left > 0
         THEN /\ hd_queue' = [hd_queue EXCEPT ![1] = s]
              /\ do_hd' = "read_intr" /\ UNCHANGED <<hd_active, ended>>
         ELSE /\ HdEnd([hd_queue EXCEPT ![1] = s], TRUE)
              /\ do_hd' = "none" /\ hd_active' = TRUE
  BY <1>3, <1>5, <1>6, <1>7 DEF read_intr, Forward
<1>10. /\ memory' \in [1 .. MaxHdReqs -> Halves] /\ media' \in [Media -> Mark]
       /\ memory'[r.id][r.buf] = m /\ memory'[r.id] \in Halves
       /\ \A k \in 0 .. 1 : k # r.buf => memory'[r.id][k] = memory[r.id][k]
  BY <1>4, <1>8, <1>9 DEF HdInv, HdTypes, Halves
<1>11. CASE r.left = 2
  <2>1. Current(s) /\ OnDevice(s) /\ s.buf = 1 /\ Absolute(s) = Absolute(r) + 1 /\ r.buf = 0
    BY <1>3, <1>6, <1>11, ForwardIs
  <2>a. Absolute(r) \in Nat
    BY <1>3, HasPlace
  <2>2. Absolute(s) - 1 = Absolute(r)
    BY <2>1, <2>a
  <2>3. s.cmd = READ /\ s.id = r.id /\ s.dev = r.dev /\ s.left = 1
    BY <1>3, <1>6, <1>11 DEF Forward
  <2>4. HalfDone(s)'
    BY <1>8, <1>10, <2>1, <2>2, <2>3 DEF HalfDone, READ, WRITE
  <2>5. drive' = [drive EXCEPT !.at = @ + 1, !.count = @ - 1, !.data = Nothing]
    BY <1>3, <1>9, <1>11 DEF NextSector
  <2>6. Nothing \in Mark
    BY DEF Nothing, Mark
  <2>7. hd_queue' = [hd_queue EXCEPT ![1] = s] /\ do_hd' = do_hd /\ UNCHANGED <<hd_active, ended>>
    BY <1>2, <1>9, <2>3
  <2> QED BY <1>1, <1>2, <1>6, <1>9, <1>10, <1>11, <2>4, <2>5, <2>6, <2>7, GoesOn
<1>12. CASE r.left = 1
  <2>1. r.buf = 1 /\ s.left = 0 /\ s.buf = 2 /\ s.cmd = READ /\ s.id = r.id /\ s.dev = r.dev
        /\ s.sector = r.sector + 1
    BY <1>3, <1>4, <1>6, <1>12 DEF Forward
  <2>2. PICK a \in Nat : a = Absolute(r)
    BY <1>3, HasPlace
  <2>3. Absolute(s) = a + 1
    <3>1. hd[r.dev].start \in Nat /\ Absolute(r) = r.sector + hd[r.dev].start
      BY <1>3, HasPlace
    <3> QED BY <1>4, <2>1, <2>2, <3>1 DEF Absolute
  <2>4. memory'[r.id][0] = <<NrOf(s.dev), a - 1>> /\ memory'[r.id][1] = <<NrOf(s.dev), a>>
    BY <1>3, <1>8, <1>10, <2>1, <2>2 DEF HalfDone
  <2>5. PICK d : d = memory'[r.id]
    OBVIOUS
  <2>6. d \in Halves /\ d = [k \in 0 .. 1 |-> d[k]]
    BY <1>10, <2>5 DEF Halves
  <2>7. Data(s) = d
    BY <2>1, <2>5, <2>6 DEF Data
  <2>8. \A k \in 0 .. 1 : <<NrOf(s.dev), Absolute(s) - s.buf + k>> = d[k]
    BY <2>1, <2>2, <2>3, <2>4, <2>5
  <2>9. d = Asked(s)
    BY <2>6, <2>8 DEF Asked
  <2>10. drive' = Idle
    BY <1>3, <1>9, <1>12 DEF NextSector
  <2>12. ~(s.left > 0)
    BY <2>1
  <2>11. HdEnd([hd_queue EXCEPT ![1] = s], TRUE) /\ do_hd' = "none" /\ hd_active' = TRUE
    BY <1>9, <2>12, Zenon
  <2> QED BY <1>3, <1>6, <1>9, <1>10, <2>1, <2>6, <2>7, <2>9, <2>10, <2>11, EndsWell
<1> QED BY <1>4, <1>11, <1>12

\* A sector of the medium got the data of its half of the buffer.
LEMMA WriteKeeps ==
    ASSUME HdInv, write_intr
    PROVE  HdInv'
<1>1. PICK r : r = hd_queue[1]
  OBVIOUS
<1>2. drive.cmd # "none" /\ do_hd = "write_intr"
  BY DEF write_intr, Interrupt
<1>3. /\ hd_queue # <<>> /\ ~hd_active /\ HD_CURRENT = r /\ Current(r) /\ HalfDone(r) /\ OnDevice(r)
      /\ drive.nr = NrOf(r.dev) /\ drive.at = Absolute(r) /\ drive.count = r.left /\ r.cmd = WRITE
      /\ drive.data = <<r.id, r.buf>>
  BY <1>1, <1>2, AtWork DEF HdInv, Work, UnderWay
<1>4. /\ r \in Reqs /\ r.id \in 1 .. MaxHdReqs /\ r.left \in 1 .. 2 /\ r.buf = 2 - r.left
      /\ r.buf \in 0 .. 1 /\ r.sector \in Nat /\ r.dev \in Nat
  BY <1>3 DEF Current, Reqs
<1>5. PICK s : s = [r EXCEPT !.left = @ - 1]
  OBVIOUS
<1>6. PICK n : n = [SectorDone(r) EXCEPT !.left = s.left]
  OBVIOUS
<1>7. /\ s \in Reqs /\ s.left = r.left - 1 /\ s.buf = r.buf /\ s.id = r.id /\ s.cmd = r.cmd
      /\ s.dev = r.dev /\ s.sector = r.sector
  <2>1. r.left - 1 \in 0 .. 2
    BY <1>4
  <2> QED BY <1>4, <1>5, <2>1 DEF Reqs
<1>8. PICK m : m = drive.data
  OBVIOUS
<1>9. PICK x : x = <<drive.nr, drive.at>>
  OBVIOUS
<1>10. m = <<r.id, r.buf>> /\ m \in Mark /\ x = <<NrOf(r.dev), Absolute(r)>>
  BY <1>3, <1>8, <1>9 DEF HdInv, HdTypes
<1>11. PICK a \in Nat : a = Absolute(r) /\ \A k \in 0 .. 1 : <<NrOf(r.dev), a - r.buf + k>> \in Media
  BY <1>3, HasPlace
<1>12. x \in Media
  <2>1. a - r.buf + r.buf = a
    BY <1>4
  <2> QED BY <1>4, <1>10, <1>11, <2>1
<1>13. /\ media' = [media EXCEPT ![x] = m] /\ memory' = memory
       /\ NextSector(PortData(n)) /\ UNCHANGED <<hd_reset, hd_recal>>
       /\ IF s.left > 0
          THEN /\ hd_queue' = [hd_queue EXCEPT ![1] = n]
               /\ do_hd' = "write_intr" /\ UNCHANGED <<hd_active, ended>>
          ELSE /\ HdEnd([hd_queue EXCEPT ![1] = s], TRUE)
               /\ do_hd' = "none" /\ hd_active' = TRUE
  BY <1>3, <1>5, <1>6, <1>8, <1>9 DEF write_intr
<1>14. /\ memory' \in [1 .. MaxHdReqs -> Halves] /\ media' \in [Media -> Mark]
       /\ media'[x] = m /\ \A y \in Media : y # x => media'[y] = media[y]
  BY <1>10, <1>12, <1>13 DEF HdInv, HdTypes
<1>15. CASE r.left = 2
  <2>1. /\ n \in Reqs /\ n.id = r.id /\ n.cmd = r.cmd /\ n.dev = r.dev /\ n.errors = r.errors
        /\ n.sector = r.sector + 1 /\ n.buf = r.buf + 1 /\ n.left = r.left - 1
    <3>1. r.sector + 1 \in Nat /\ r.buf + 1 \in 0 .. 2 /\ r.left - 1 \in 0 .. 2
      BY <1>4
    <3>2. n = [id |-> r.id, cmd |-> r.cmd, dev |-> r.dev, sector |-> r.sector + 1,
               left |-> r.left - 1, buf |-> r.buf + 1, errors |-> r.errors]
      BY <1>4, <1>6, <1>7 DEF SectorDone, Reqs
    <3>3. r.id \in 1 .. MaxHdReqs /\ r.cmd \in {READ, WRITE} /\ r.dev \in Nat /\ r.errors \in Nat
      BY <1>4 DEF Reqs
    <3>4. n \in Reqs
      BY <3>1, <3>2, <3>3 DEF Reqs
    <3> QED BY <3>2, <3>4
  <2>2. Forward(r, n) /\ n.errors < MAX_ERRORS
    BY <1>3, <2>1 DEF Forward, Current
  <2>3. Current(n) /\ OnDevice(n) /\ n.buf = 1 /\ Absolute(n) = a + 1 /\ r.buf = 0
    BY <1>3, <1>11, <1>15, <2>2, ForwardIs
  <2>4. Absolute(n) - 1 = a /\ n.left = 1
    BY <1>15, <2>1, <2>3
  <2>5. HalfDone(n)'
    <3>1. n.cmd = WRITE /\ n.cmd # READ
      BY <1>3, <2>1 DEF READ, WRITE
    <3>2. media'[<<NrOf(n.dev), Absolute(n) - 1>>] = <<n.id, 0>>
      BY <1>10, <1>11, <1>14, <2>1, <2>3, <2>4
    <3> QED BY <2>3, <3>1, <3>2 DEF HalfDone
  <2>6. PICK d : d = PortData(n)
    OBVIOUS
  <2>7. d = <<n.id, n.buf>> /\ d \in Mark
    BY <1>4, <2>1, <2>3, <2>6 DEF PortData, Mark
  <2>8. drive' = [drive EXCEPT !.at = @ + 1, !.count = @ - 1, !.data = d]
    BY <1>3, <1>13, <1>15, <2>6 DEF NextSector
  <2>9. s.left > 0
    BY <1>7, <1>15
  <2>10. hd_queue' = [hd_queue EXCEPT ![1] = n] /\ do_hd' = do_hd /\ UNCHANGED <<hd_active, ended>>
    BY <1>2, <1>13, <2>9
  <2> QED BY <1>1, <1>2, <1>13, <1>14, <1>15, <2>2, <2>5, <2>7, <2>8, <2>10, GoesOn
<1>16. CASE r.left = 1
  <2>1. r.buf = 1 /\ s.left = 0 /\ s.buf = 1 /\ s.cmd = WRITE /\ s.id = r.id /\ s.dev = r.dev
    BY <1>3, <1>4, <1>7, <1>16
  <2>2. Absolute(s) = a
    BY <1>7, <1>11 DEF Absolute
  <2>3. <<NrOf(r.dev), a - 1>> \in Media /\ <<NrOf(r.dev), a - 1>> # x
    <3>1. a - r.buf + 0 = a - 1 /\ a - 1 # a
      BY <2>1
    <3>2. <<NrOf(r.dev), a - r.buf + 0>> \in Media
      BY <1>11
    <3> QED BY <1>10, <1>11, <3>1, <3>2
  <2>4. media'[<<NrOf(s.dev), a - 1>>] = <<s.id, 0>> /\ media'[<<NrOf(s.dev), a>>] = <<s.id, 1>>
    BY <1>3, <1>10, <1>11, <1>14, <2>1, <2>3 DEF HalfDone, READ, WRITE
  <2>5. PICK d : d = [k \in 0 .. 1 |-> <<s.id, k>>]
    OBVIOUS
  <2>6. d \in Halves
    <3>1. \A k \in 0 .. 1 : <<s.id, k>> \in Nat \X Int
      BY <1>4, <2>1
    <3> QED BY <2>5, <3>1 DEF Halves
  <2>7. \A k \in 0 .. 1 : media'[<<NrOf(s.dev), Absolute(s) - s.buf + k>>] = <<s.id, k>>
    <3>1. a - 1 + 0 = a - 1 /\ a - 1 + 1 = a
      OBVIOUS
    <3>2. \A k \in 0 .. 1 : k = 0 \/ k = 1
      OBVIOUS
    <3> QED BY <2>1, <2>2, <2>4, <3>1, <3>2
  <2>8. Data(s) = d
    BY <2>1, <2>5, <2>7 DEF Data, READ, WRITE
  <2>9. drive' = Idle
    BY <1>3, <1>13, <1>16 DEF NextSector
  <2>10. ~(s.left > 0)
    BY <2>1
  <2>11. HdEnd([hd_queue EXCEPT ![1] = s], TRUE) /\ do_hd' = "none" /\ hd_active' = TRUE
    BY <1>13, <2>10, Zenon
  <2>12. d = IF s.cmd = READ THEN Asked(s) ELSE [k \in 0 .. 1 |-> <<s.id, k>>]
    BY <2>1, <2>5 DEF READ, WRITE
  <2> QED BY <1>3, <1>7, <1>13, <1>14, <2>6, <2>8, <2>9, <2>11, <2>12, EndsWell
<1> QED BY <1>4, <1>15, <1>16

LEMMA OtherSteps ==
    ASSUME HdInv, hd_no_request \/ recal_intr \/ hd_error \/ hd_no_drq \/ UNCHANGED hdVars
    PROVE  HdInv'
<1>1. CASE hd_no_request
  <2>1. drive.cmd = "none" /\ hd_queue = <<>>
    BY <1>1 DEF hd_no_request, HdInv, Work
  <2>2. /\ hd_active' = FALSE
        /\ UNCHANGED <<hd_queue, do_hd, hd_reset, hd_recal, drive, memory, media, ended>>
    BY <1>1 DEF hd_no_request
  <2>3. HdTypes' /\ OutcomeIsTrue' /\ Queued(hd_queue')
    BY <2>2, OutcomesTrue DEF HdInv, HdTypes
  <2> QED BY <2>1, <2>2, <2>3 DEF HdInv, Work
<1>2. CASE recal_intr
  <2>1. /\ do_hd' = "none" /\ drive' = Idle /\ hd_active' = TRUE
        /\ UNCHANGED <<hd_queue, hd_reset, hd_recal, memory, media, ended>>
    BY <1>2 DEF recal_intr
  <2>2. drive' \in [cmd : {"none", "specify", "restore", "read", "write"}, nr : Nat, at : Int,
                    count : 0 .. 2, data : Mark] /\ drive'.cmd = "none"
    BY <2>1 DEF Idle, Mark
  <2>3. HdTypes' /\ OutcomeIsTrue' /\ Queued(hd_queue')
    BY <2>1, <2>2, OutcomesTrue DEF HdInv, HdTypes
  <2>4. hd_queue # <<>> => HalfDone(hd_queue[1])'
    BY <2>1 DEF HdInv, Work, HalfDone
  <2> QED BY <2>1, <2>2, <2>3, <2>4 DEF HdInv, Work
<1>3. CASE hd_error
  <2>1. hd_queue # <<>>
    BY <1>3 DEF hd_error, Interrupt, HdInv, Work
  <2> QED BY <1>3, <2>1, AfterFailure DEF hd_error
<1>4. CASE hd_no_drq
  <2>1. hd_queue # <<>> /\ hd_active' \in BOOLEAN
    BY <1>4 DEF hd_no_drq, Ready, Served, HdInv, HdTypes
  <2> QED BY <1>4, <2>1, AfterFailure DEF hd_no_drq
<1>5. CASE UNCHANGED hdVars
  <2>1. HdTypes' /\ OutcomeIsTrue' /\ Queued(hd_queue')
    BY <1>5, OutcomesTrue DEF HdInv, HdTypes, hdVars
  <2>2. Work'
    BY <1>5 DEF HdInv, Work, HalfDone, UnderWay, hdVars
  <2> QED BY <2>1, <2>2 DEF HdInv
<1> QED BY <1>1, <1>2, <1>3, <1>4, <1>5

-----------------------------------------------------------------------------
\* The inductive invariant of the driver holds in every state.
THEOREM DriverInvariant == HdSpec => []HdInv
<1>1. HdInit => HdInv
  BY InitHolds
<1>2. HdInv /\ [HdNext]_hdVars => HdInv'
  <2> SUFFICES ASSUME HdInv, [HdNext]_hdVars PROVE HdInv'
    OBVIOUS
  <2> QED BY MakeRequest, OffDeviceEnds, CommandsKeep, ReadKeeps, WriteKeeps, OtherSteps
          DEF HdNext, DoHdRequest, HdInterrupt
<1> QED BY <1>1, <1>2, PTL DEF HdSpec

\* A request of the hard disk driver ends well only with each of its sectors
\* in its place, and badly only for a reason, whatever errors, retries, resets
\* and recalibrations do_hd_request and the interrupts go through.
THEOREM OutcomesAreTrue == HdSpec => []OutcomeIsTrue
<1>1. HdInv => OutcomeIsTrue
  BY DEF HdInv
<1> QED BY <1>1, DriverInvariant, PTL

\* HdTypes, and no request with MAX_ERRORS errors stays in the queue: bad_rw_intr
\* ends it.
THEOREM DriverTypes == HdSpec => []HdTypeOK
<1>1. HdInv => HdTypeOK
  <2> SUFFICES ASSUME HdInv PROVE HdTypeOK
    OBVIOUS
  <2>1. ASSUME NEW i \in DOMAIN hd_queue
        PROVE  hd_queue[i].left \in 1 .. 2 /\ hd_queue[i].errors < MAX_ERRORS
    <3>1. Len(hd_queue) \in Nat /\ i \in 1 .. Len(hd_queue) /\ hd_queue # <<>>
      BY <2>1 DEF HdInv, Queued
    <3>2. Current(hd_queue[i])
      BY <3>1, WaitingIsCurrent DEF HdInv, Queued
    <3> QED BY <3>2 DEF Current
  <2> QED BY <2>1 DEF HdInv, HdTypes, HdTypeOK
<1> QED BY <1>1, DriverInvariant, PTL

-----------------------------------------------------------------------------
(***************************************************************************)
(* The floppy disk.                                                        *)
(***************************************************************************)
FdReqs == [id : Nat, cmd : {READ, WRITE}, dev : Drives, sector : Nat, left : 0 .. 2,
           buf : 0 .. 2, errors : 0 .. FD_MAX_ERRORS]
Handlers == {"rw_interrupt", "seek_interrupt", "recal_interrupt", "reset_interrupt"}
FdPlaces == {"none", "do_fd_request", "floppy_on_interrupt", "transfer", "setup_rw_floppy"}
FdState == [pc : FdPlaces, do : Handlers \cup {"unexpected"}, reset : BOOLEAN, recal : BOOLEAN,
            seek : BOOLEAN, drive : Drives, track : Nat, want : Nat, selected : BOOLEAN,
            faults : Nat]
FdTimers == [fn : {"floppy_on_interrupt", "transfer"}, left : Nat]
FdChange == [pc : {"idle", "floppy_on", "sleep_motor", "check", "sleep_select"}, nr : Drives,
             left : Nat]

FdTypes ==
    /\ fd_queue \in Seq(FdReqs) /\ fd \in FdState
    /\ DOR \in [drive : Drives, motors : SUBSET Drives]
    /\ mon \in [Drives -> 0 .. TICKS_ON] /\ moff \in [Drives -> 0 .. TICKS_BIG]
    /\ fd_timers \in Seq(FdTimers) /\ fdc \in Seq(Handlers)
    /\ change \in FdChange /\ made \in Nat /\ adrift \in BOOLEAN

\* The drive of the first request spins for more than n ticks; and it is the
\* one selected, and nobody else may select another.
Spinning(f, q, dor, off, n) ==
    q # <<>> /\ f.drive = q[1].dev /\ f.drive \in dor.motors /\ off[f.drive] > n
Chosen(f, q, dor, off, n) ==
    Spinning(f, q, dor, off, n) /\ f.selected /\ dor.drive = f.drive

\* The driver runs, or waits for the controller, or for a timer, or does nothing.
OneThing(f, T, C) ==
    /\ f.pc # "none" => C = <<>> /\ T = <<>>
    /\ C # <<>> => T = <<>> /\ C = <<f.do>>
    /\ T # <<>> => T = <<T[1]>>

\* What is sure at each of the places on the way to the transfer.
OnTheWay(f, q, dor, off, T, C) ==
    /\ f.pc = "floppy_on_interrupt" => Spinning(f, q, dor, off, 2)
    /\ f.pc \in {"transfer", "setup_rw_floppy"} => Chosen(f, q, dor, off, 0)
    /\ C # <<>> /\ f.do \in {"seek_interrupt", "rw_interrupt"} => Chosen(f, q, dor, off, 0)
    /\ T # <<>> => \/ /\ T[1].fn = "floppy_on_interrupt" /\ T[1].left <= TICKS_ON
                      /\ Spinning(f, q, dor, off, T[1].left + 2)
                   \/ /\ T[1].fn = "transfer" /\ T[1].left <= 2
                      /\ Chosen(f, q, dor, off, T[1].left)

Right(f, q, dor, off, T, C) == OneThing(f, T, C) /\ OnTheWay(f, q, dor, off, T, C)
FdInv == FdTypes /\ (~adrift => Right(fd, fd_queue, DOR, moff, fd_timers, fdc))

LEMMA FdInitHolds == FdInit => FdInv
<1> SUFFICES ASSUME FdInit PROVE FdInv
  OBVIOUS
<1>1. fd = [pc |-> "none", do |-> "unexpected", reset |-> FALSE, recal |-> FALSE,
            seek |-> FALSE, drive |-> 0, track |-> 255, want |-> 0, selected |-> FALSE,
            faults |-> MaxFaults]
  BY DEF FdInit
<1>2. fd \in FdState
  BY <1>1, FloppyAssumption DEF FdState, FdPlaces
<1>3. change \in FdChange
  BY FloppyAssumption DEF FdInit, FdChange
<1>4. /\ DOR \in [drive : Drives, motors : SUBSET Drives]
      /\ mon \in [Drives -> 0 .. TICKS_ON] /\ moff \in [Drives -> 0 .. TICKS_BIG]
  BY FloppyAssumption DEF FdInit
<1>5. FdTypes
  BY <1>2, <1>3, <1>4 DEF FdInit, FdTypes
<1>6. Right(fd, fd_queue, DOR, moff, fd_timers, fdc)
  BY <1>1 DEF FdInit, Right, OneThing, OnTheWay
<1> QED BY <1>5, <1>6 DEF FdInv

-----------------------------------------------------------------------------
\* The driver's variables as its functions change them.
Same(f, g) == g.drive = f.drive /\ g.selected = f.selected

LEMMA EnterIs ==
    ASSUME NEW f \in FdState
    PROVE  Enter(f) \in FdState /\ Enter(f).pc = "do_fd_request"
BY DEF Enter, FdState, FdPlaces

LEMMA FaultyIs ==
    ASSUME NEW f \in FdState, f.faults > 0
    PROVE  Faulty(f) \in FdState
<1>1. f.faults \in Nat /\ f.faults - 1 \in Nat
  BY DEF FdState
<1> QED BY <1>1 DEF Faulty, FdState

LEMMA ResetIs ==
    ASSUME NEW f \in FdState, NEW h \in Handlers
    PROVE  /\ [f EXCEPT !.reset = TRUE] \in FdState /\ [f EXCEPT !.recal = FALSE] \in FdState
           /\ [f EXCEPT !.do = h, !.reset = TRUE] \in FdState
           /\ [f EXCEPT !.pc = "none", !.do = h] \in FdState
           /\ [f EXCEPT !.pc = "none", !.do = h].pc = "none"
           /\ [f EXCEPT !.pc = "none", !.do = h].do = h
           /\ Same(f, [f EXCEPT !.pc = "none", !.do = h])
BY DEF FdState, Same, FdPlaces

\* Where the driver starts again nothing has to be sure.
LEMMA Restarts ==
    ASSUME NEW f, NEW q, NEW dor, NEW off, f.pc = "do_fd_request"
    PROVE  Right(f, q, dor, off, <<>>, <<>>)
BY DEF Right, OneThing, OnTheWay

\* Right depends on the drive of the first request, its motor and selection.
Kept(f, q, dor, off, r, dor2, off2) ==
    /\ q # <<>> => r # <<>> /\ r[1].dev = q[1].dev
    /\ f.drive \in dor.motors => f.drive \in dor2.motors
    /\ off2[f.drive] >= off[f.drive] \/ off2[f.drive] > TICKS_ON + 2
    /\ f.selected => dor2.drive = dor.drive

LEMMA KeptSpinning ==
    ASSUME NEW f, NEW q, NEW dor, NEW off, NEW r, NEW dor2, NEW off2,
           off[f.drive] \in Nat, off2[f.drive] \in Nat,
           Kept(f, q, dor, off, r, dor2, off2), NEW n \in Nat, n <= TICKS_ON + 2
    PROVE  /\ Spinning(f, q, dor, off, n) => Spinning(f, r, dor2, off2, n)
           /\ Chosen(f, q, dor, off, n) => Chosen(f, r, dor2, off2, n)
<1>1. off[f.drive] > n => off2[f.drive] > n
  BY FloppyAssumption DEF Kept
<1> QED BY <1>1 DEF Kept, Spinning, Chosen

LEMMA KeptRight ==
    ASSUME NEW f, NEW q, NEW dor, NEW off, NEW r, NEW dor2, NEW off2, NEW T \in Seq(FdTimers), NEW C,
           off[f.drive] \in Nat, off2[f.drive] \in Nat,
           Kept(f, q, dor, off, r, dor2, off2), Right(f, q, dor, off, T, C)
    PROVE  Right(f, r, dor2, off2, T, C)
<1>1. \A n \in Nat : n <= TICKS_ON + 2 =>
         /\ Spinning(f, q, dor, off, n) => Spinning(f, r, dor2, off2, n)
         /\ Chosen(f, q, dor, off, n) => Chosen(f, r, dor2, off2, n)
  BY KeptSpinning
<1>2. 0 \in Nat /\ 2 \in Nat /\ 0 <= TICKS_ON + 2 /\ 2 <= TICKS_ON + 2
  BY FloppyAssumption
<1>3. f.pc = "floppy_on_interrupt" => Spinning(f, r, dor2, off2, 2)
  BY <1>1, <1>2 DEF Right, OnTheWay
<1>4. /\ f.pc \in {"transfer", "setup_rw_floppy"} => Chosen(f, r, dor2, off2, 0)
      /\ C # <<>> /\ f.do \in {"seek_interrupt", "rw_interrupt"} => Chosen(f, r, dor2, off2, 0)
  BY <1>1, <1>2 DEF Right, OnTheWay
<1>5. ASSUME T # <<>>
      PROVE  \/ /\ T[1].fn = "floppy_on_interrupt" /\ T[1].left <= TICKS_ON
                /\ Spinning(f, r, dor2, off2, T[1].left + 2)
             \/ /\ T[1].fn = "transfer" /\ T[1].left <= 2
                /\ Chosen(f, r, dor2, off2, T[1].left)
  <2>1. PICK l \in Nat : l = T[1].left
    <3>1. T[1] \in FdTimers
      BY <1>5
    <3> QED BY <3>1 DEF FdTimers
  <2>2. CASE T[1].fn = "floppy_on_interrupt" /\ l <= TICKS_ON /\ Spinning(f, q, dor, off, l + 2)
    <3>1. l + 2 \in Nat /\ l + 2 <= TICKS_ON + 2
      BY <2>2, FloppyAssumption, SMTT(30)
    <3> QED BY <1>1, <2>1, <2>2, <3>1
  <2>3. CASE T[1].fn = "transfer" /\ l <= 2 /\ Chosen(f, q, dor, off, l)
    <3>1. l <= TICKS_ON + 2
      BY <2>3, FloppyAssumption
    <3> QED BY <1>1, <2>1, <2>3, <3>1
  <2> QED BY <1>5, <2>1, <2>2, <2>3 DEF Right, OnTheWay
<1> QED BY <1>3, <1>4, <1>5 DEF Right, OnTheWay

-----------------------------------------------------------------------------
\* Sequences of at most one element.
LEMMA ShortSeq ==
    ASSUME NEW S, NEW q \in Seq(S), NEW e \in S
    PROVE  /\ Append(q, e) \in Seq(S) /\ (q = <<>> => Append(q, e) = <<e>>)
           /\ (q # <<>> => Tail(q) \in Seq(S)) /\ (q = <<e>> => Tail(q) = <<>>)
<1>1. Append(q, e) \in Seq(S)
  OBVIOUS
<1>2. q = <<>> => Append(q, e) = <<e>>
  OBVIOUS
<1>3. q # <<>> => Tail(q) \in Seq(S)
  OBVIOUS
<1>4. Tail(<<e>>) = <<>>
  OBVIOUS
<1> QED BY <1>1, <1>2, <1>3, <1>4

\* The steps.  A request is added: the driver starts, or goes on.
LEMMA FdRequestIs ==
    ASSUME NEW id \in Nat, NEW cmd \in {READ, WRITE}, NEW b \in FdBlocks
    PROVE  Request(id, cmd, b[1], b[2]) \in FdReqs
<1>1. b[1] \in Drives /\ b[2] \in Nat /\ 2 * b[2] \in Nat /\ 0 \in 0 .. FD_MAX_ERRORS
  BY FloppyAssumption
<1> QED BY <1>1 DEF Request, FdReqs

LEMMA FdMakeRequest ==
    ASSUME FdInv, fd_make_request
    PROVE  FdInv'
<1>1. PICK b \in FdBlocks, cmd \in {READ, WRITE} :
        fd_queue' = AddRequest(fd_queue, Request(made', cmd, b[1], b[2]))
  BY DEF fd_make_request
<1>2. /\ fd.pc = "none" /\ made' = made + 1 /\ made' \in Nat
      /\ fd' = IF fd_queue = <<>> THEN Enter(fd) ELSE fd
      /\ adrift' = (adrift \/ (fd_queue = <<>> /\ fdc # <<>>))
      /\ UNCHANGED <<DOR, mon, moff, fd_timers, fdc, change>>
  BY DEF fd_make_request, Quiescent, FdInv, FdTypes
<1>3. PICK r \in FdReqs : fd_queue' = AddRequest(fd_queue, r)
  BY <1>1, <1>2, FdRequestIs
<1>4. fd_queue \in Seq(FdReqs) /\ fd \in FdState
  BY DEF FdInv, FdTypes
<1>5. /\ fd_queue' \in Seq(FdReqs) /\ fd_queue' # <<>>
      /\ fd_queue'[1] = IF fd_queue = <<>> THEN r ELSE fd_queue[1]
  BY <1>3, <1>4, AddedFirst
<1>6. fd' \in FdState
  BY <1>2, <1>4, EnterIs
<1>7. adrift' \in BOOLEAN
  BY <1>2 DEF FdInv, FdTypes
<1>8. FdTypes'
  BY <1>2, <1>5, <1>6, <1>7 DEF FdInv, FdTypes
<1>9. ASSUME ~adrift' PROVE Right(fd, fd_queue, DOR, moff, fd_timers, fdc)'
  <2>1. ~adrift /\ Right(fd, fd_queue, DOR, moff, fd_timers, fdc)
    BY <1>2, <1>9 DEF FdInv
  <2>2. CASE fd_queue = <<>>
    <3>1. fdc = <<>>
      BY <1>2, <1>9, <2>2
    <3>2. fd_timers = <<>>
      BY <2>1, <2>2 DEF Right, OnTheWay, Spinning, Chosen
    <3>3. fd'.pc = "do_fd_request"
      BY <1>2, <1>4, <2>2, EnterIs
    <3> QED BY <1>2, <3>1, <3>2, <3>3, Restarts
  <2>3. CASE fd_queue # <<>>
    <3>1. moff[fd.drive] \in Nat
      BY <1>4 DEF FdInv, FdTypes, FdState
    <3>2. Kept(fd, fd_queue, DOR, moff, fd_queue', DOR, moff)
      BY <1>5, <2>3, <3>1 DEF Kept
    <3>3. fd_timers \in Seq(FdTimers)
      BY DEF FdInv, FdTypes
    <3>4. Right(fd, fd_queue', DOR, moff, fd_timers, fdc)
      BY <2>1, <3>1, <3>2, <3>3, KeptRight
    <3> QED BY <1>2, <2>3, <3>4
  <2> QED BY <2>2, <2>3
<1> QED BY <1>8, <1>9 DEF FdInv

\* A command to the controller for a handler that does not need the drive set
\* up, or with everything set up.
LEMMA CommandKeeps ==
    ASSUME FdInv, fd.pc # "none", NEW f \in FdState, NEW h \in Handlers, Command(f, h),
           h \in {"seek_interrupt", "rw_interrupt"} => f.drive = fd.drive /\ f.selected = fd.selected
                                                       /\ fd.pc \in {"transfer", "setup_rw_floppy"},
           UNCHANGED <<fd_queue, DOR, mon, moff, fd_timers, change, made, adrift>>
    PROVE  FdInv'
<1>1. CASE fd' = [f EXCEPT !.pc = "none", !.do = h] /\ fdc' = Append(fdc, h)
  <2>1. fd' \in FdState /\ fd'.pc = "none" /\ fd'.do = h /\ fd'.drive = f.drive /\ fd'.selected = f.selected
    BY <1>1, ResetIs DEF Same
  <2>2. fdc' \in Seq(Handlers) /\ (fdc = <<>> => fdc' = <<h>>)
    BY <1>1, ShortSeq DEF FdInv, FdTypes
  <2>3. FdTypes'
    BY <2>1, <2>2 DEF FdInv, FdTypes
  <2>4. ASSUME ~adrift' PROVE Right(fd, fd_queue, DOR, moff, fd_timers, fdc)'
    <3>1. fdc = <<>> /\ fd_timers = <<>> /\ OnTheWay(fd, fd_queue, DOR, moff, fd_timers, fdc)
      BY <2>4 DEF FdInv, Right, OneThing
    <3>2. fdc' = <<h>>
      BY <2>2, <3>1
    <3>3. OneThing(fd', fd_timers', fdc')
      BY <2>1, <3>1, <3>2 DEF OneThing
    <3>4. h \in {"seek_interrupt", "rw_interrupt"} => Chosen(fd', fd_queue, DOR, moff, 0)
      BY <2>1, <3>1 DEF OnTheWay, Chosen, Spinning
    <3>5. OnTheWay(fd', fd_queue', DOR', moff', fd_timers', fdc')
      BY <2>1, <3>1, <3>4 DEF OnTheWay
    <3> QED BY <3>3, <3>5 DEF Right
  <2> QED BY <2>3, <2>4 DEF FdInv
<1>2. CASE /\ f.faults > 0 /\ UNCHANGED fdc
           /\ fd' = Enter([Faulty(f) EXCEPT !.do = h, !.reset = TRUE])
  <2>1. fd' \in FdState /\ fd'.pc = "do_fd_request"
    BY <1>2, FaultyIs, ResetIs, EnterIs
  <2>2. FdTypes'
    BY <1>2, <2>1 DEF FdInv, FdTypes
  <2>3. ASSUME ~adrift' PROVE Right(fd, fd_queue, DOR, moff, fd_timers, fdc)'
    <3>1. fdc' = <<>> /\ fd_timers' = <<>>
      BY <1>2, <2>3 DEF FdInv, Right, OneThing
    <3> QED BY <2>1, <3>1, Restarts
  <2> QED BY <2>2, <2>3 DEF FdInv
<1> QED BY <1>1, <1>2 DEF Command

\* The driver starts again after an error.
LEMMA EnterKeeps ==
    ASSUME FdInv, NEW f \in FdState, fd' = Enter(f),
           fd.pc # "none" => fdc' = fdc, fd.pc = "none" => fdc # <<>> /\ fdc' = Tail(fdc),
           UNCHANGED <<DOR, mon, fd_timers, made, adrift>>,
           fd_queue' \in Seq(FdReqs), moff' \in [Drives -> 0 .. TICKS_BIG], change' \in FdChange
    PROVE  FdInv'
<1>1. fd' \in FdState /\ fd'.pc = "do_fd_request"
  BY EnterIs
<1>2. fdc \in Seq(Handlers) /\ fdc' \in Seq(Handlers)
  <2>1. fdc \in Seq(Handlers)
    BY DEF FdInv, FdTypes
  <2>2. fdc # <<>> => Tail(fdc) \in Seq(Handlers)
    BY <2>1, ShortSeq DEF Handlers
  <2> QED BY <2>1, <2>2
<1>3. FdTypes'
  BY <1>1, <1>2 DEF FdInv, FdTypes
<1>4. ASSUME ~adrift' PROVE Right(fd, fd_queue, DOR, moff, fd_timers, fdc)'
  <2>1. OneThing(fd, fd_timers, fdc)
    BY <1>4 DEF FdInv, Right
  <2>2. CASE fd.pc # "none"
    <3>1. fdc' = <<>> /\ fd_timers' = <<>>
      BY <2>1, <2>2 DEF OneThing
    <3> QED BY <1>1, <3>1, Restarts
  <2>3. CASE fd.pc = "none"
    <3>1. fdc = <<fd.do>> /\ fd_timers' = <<>>
      BY <2>1, <2>3 DEF OneThing
    <3>2. Len(fdc) = 1 /\ fdc' = Tail(fdc)
      BY <2>3, <3>1
    <3>3. fdc' = <<>>
      BY <1>2, <3>2
    <3> QED BY <1>1, <3>1, <3>3, Restarts
  <2> QED BY <2>2, <2>3
<1> QED BY <1>3, <1>4 DEF FdInv

\* A queue whose first request has one more error, or is taken off.
LEMMA OneMoreError ==
    ASSUME NEW q \in Seq(FdReqs), q # <<>>, NEW r, r = [q EXCEPT ![1].errors = @ + 1]
    PROVE  /\ Tail(q) \in Seq(FdReqs) /\ r # <<>> /\ Tail(r) \in Seq(FdReqs)
           /\ Head(r).dev \in Drives /\ Head(q).dev \in Drives
           /\ ~(Head(r).errors > FD_MAX_ERRORS) => r \in Seq(FdReqs)
<1>1. q[1] \in FdReqs /\ Len(q) \in Nat /\ Len(q) >= 1
  OBVIOUS
<1>2. PICK e : e = [q[1] EXCEPT !.errors = @ + 1]
  OBVIOUS
<1>3. r = [q EXCEPT ![1] = e]
  BY <1>2
<1>4. r[1] = e /\ Len(r) = Len(q) /\ \A i \in 2 .. Len(q) : r[i] = q[i]
  BY <1>1, <1>3
<1>5. r # <<>>
  BY <1>1, <1>4
<1>6. Tail(r) = Tail(q)
  BY <1>1, <1>3, <1>4
<1>7. Tail(q) \in Seq(FdReqs)
  BY <1>1
<1>8. e.dev \in Drives /\ q[1].dev \in Drives
  BY <1>1, <1>2 DEF FdReqs
<1>9. ~(e.errors > FD_MAX_ERRORS) => e \in FdReqs
  <2>1. q[1].errors \in 0 .. FD_MAX_ERRORS /\ e.errors = q[1].errors + 1
    BY <1>1, <1>2 DEF FdReqs
  <2>2. ~(e.errors > FD_MAX_ERRORS) => e.errors \in 0 .. FD_MAX_ERRORS
    BY <2>1, FloppyAssumption, SMTT(30)
  <2> QED BY <1>1, <1>2, <2>2 DEF FdReqs
<1>10. ~(e.errors > FD_MAX_ERRORS) => r \in Seq(FdReqs)
  BY <1>1, <1>3, <1>9
<1>11. Head(r) = r[1] /\ Head(q) = q[1]
  BY <1>1, <1>3
<1> QED BY <1>4, <1>5, <1>6, <1>7, <1>8, <1>10, <1>11

LEMMA TaskWokenIs ==
    ASSUME NEW c \in FdChange
    PROVE  TaskWoken(c) \in FdChange
BY DEF TaskWoken, FdChange

\* The motor is given the time until it is turned off.
LEMMA FdEndIs ==
    ASSUME NEW q, Head(q).dev \in Drives, moff \in [Drives -> 0 .. TICKS_BIG], FdEnd(q)
    PROVE  fd_queue' = Tail(q) /\ moff' \in [Drives -> 0 .. TICKS_BIG]
<1>1. TICKS_OFF \in 0 .. TICKS_BIG
  BY FloppyAssumption
<1> QED BY <1>1 DEF FdEnd

\* An interrupt that goes wrong.
LEMMA BadIntrKeeps ==
    ASSUME FdInv, NEW f \in FdState, fd_queue # <<>>, bad_flp_intr(f)
    PROVE  /\ fd_queue' \in Seq(FdReqs) /\ moff' \in [Drives -> 0 .. TICKS_BIG] /\ change' \in FdChange
           /\ \E g \in FdState : fd' = Enter(g)
<1> DEFINE queue == [fd_queue EXCEPT ![1].errors = @ + 1]
           over == Head(queue).errors > FD_MAX_ERRORS
           rest == IF over THEN Tail(queue) ELSE queue
<1>1. /\ fd_queue \in Seq(FdReqs) /\ change \in FdChange
      /\ moff \in [Drives -> 0 .. TICKS_BIG] /\ f.faults > 0
  BY DEF FdInv, FdTypes, bad_flp_intr
<1>2. IF over THEN FdEnd(queue) /\ change' = TaskWoken(change)
      ELSE fd_queue' = queue /\ UNCHANGED <<moff, change>>
  BY DEF bad_flp_intr
<1>3. \E many \in IF rest = <<>> THEN BOOLEAN ELSE {Head(rest).errors > FD_MAX_ERRORS \div 2} :
             fd' = Enter([Faulty(f) EXCEPT !.selected = @ /\ ~over,
                                   !.reset = @ \/ many, !.recal = @ \/ ~many])
  BY DEF bad_flp_intr
<1>4. PICK b1, b2, b3 :
        /\ b1 \in BOOLEAN /\ b2 \in BOOLEAN /\ b3 \in BOOLEAN
        /\ fd' = Enter([Faulty(f) EXCEPT !.selected = b1, !.reset = b2, !.recal = b3])
  <2>1. PICK many : fd' = Enter([Faulty(f) EXCEPT !.selected = Faulty(f).selected /\ ~over,
                                   !.reset = Faulty(f).reset \/ many, !.recal = Faulty(f).recal \/ ~many])
    BY <1>3
  <2> HIDE DEF over
  <2> DEFINE c1 == Faulty(f).selected /\ ~over
             c2 == Faulty(f).reset \/ many
             c3 == Faulty(f).recal \/ ~many
  <2>2. c1 \in BOOLEAN /\ c2 \in BOOLEAN /\ c3 \in BOOLEAN
    OBVIOUS
  <2>3. fd' = Enter([Faulty(f) EXCEPT !.selected = c1, !.reset = c2, !.recal = c3])
    BY <2>1
  <2> HIDE DEF c1, c2, c3
  <2> QED BY <2>2, <2>3
<1>5. PICK r : r = queue
  OBVIOUS
<1>6. /\ Tail(r) \in Seq(FdReqs) /\ Head(r).dev \in Drives
      /\ ~(Head(r).errors > FD_MAX_ERRORS) => r \in Seq(FdReqs)
  BY <1>1, <1>5, OneMoreError
<1>7. ASSUME over
      PROVE  fd_queue' \in Seq(FdReqs) /\ moff' \in [Drives -> 0 .. TICKS_BIG] /\ change' \in FdChange
  <2>1. FdEnd(r) /\ change' = TaskWoken(change)
    BY <1>2, <1>5, <1>7
  <2>2. fd_queue' = Tail(r) /\ moff' \in [Drives -> 0 .. TICKS_BIG]
    BY <1>1, <1>6, <2>1, FdEndIs
  <2> QED BY <1>1, <1>6, <2>1, <2>2, TaskWokenIs
<1>8. ASSUME ~over
      PROVE  fd_queue' \in Seq(FdReqs) /\ moff' \in [Drives -> 0 .. TICKS_BIG] /\ change' \in FdChange
  <2>1. fd_queue' = r /\ UNCHANGED <<moff, change>> /\ ~(Head(r).errors > FD_MAX_ERRORS)
    BY <1>2, <1>5, <1>8
  <2> QED BY <1>1, <1>6, <2>1
<1>9. [Faulty(f) EXCEPT !.selected = b1, !.reset = b2, !.recal = b3] \in FdState
  <2>1. Faulty(f) \in FdState
    BY <1>1, FaultyIs
  <2> QED BY <1>4, <2>1 DEF FdState
<1> QED BY <1>4, <1>7, <1>8, <1>9

\* do_fd_request and what runs in its place.
LEMMA ResetKeeps ==
    ASSUME FdInv, reset_floppy
    PROVE  FdInv'
<1>1. /\ fd' = [fd EXCEPT !.pc = "none", !.do = "reset_interrupt", !.reset = FALSE, !.recal = TRUE]
      /\ fdc' = <<"reset_interrupt">> /\ fd.pc = "do_fd_request"
      /\ UNCHANGED <<fd_queue, DOR, mon, moff, fd_timers, change, made, adrift>>
  BY DEF reset_floppy, In
<1>2. fd \in FdState
  BY DEF FdInv, FdTypes
<1>3. fd' \in FdState /\ fd'.pc = "none" /\ fd'.do = "reset_interrupt"
  BY <1>1, <1>2 DEF FdState, FdPlaces, Handlers
<1>4. fdc' \in Seq(Handlers) /\ fdc' # <<>>
  BY <1>1 DEF Handlers
<1>5. FdTypes'
  BY <1>1, <1>3, <1>4 DEF FdInv, FdTypes
<1>6. ASSUME ~adrift' PROVE Right(fd, fd_queue, DOR, moff, fd_timers, fdc)'
  <2>1. fd_timers' = <<>>
    BY <1>1, <1>6 DEF FdInv, Right, OneThing
  <2> QED BY <1>1, <1>3, <2>1 DEF Right, OneThing, OnTheWay
<1> QED BY <1>5, <1>6 DEF FdInv

LEMMA RecalibrateKeeps ==
    ASSUME FdInv, recalibrate_floppy
    PROVE  FdInv'
<1>1. fd \in FdState /\ fd.pc = "do_fd_request"
  BY DEF FdInv, FdTypes, recalibrate_floppy, In
<1>2. [fd EXCEPT !.recal = FALSE, !.track = 0] \in FdState /\ "recal_interrupt" \in Handlers
  BY <1>1 DEF FdState, Handlers
<1>3. /\ Command([fd EXCEPT !.recal = FALSE, !.track = 0], "recal_interrupt")
      /\ UNCHANGED <<fd_queue, DOR, mon, moff, fd_timers, change, made, adrift>>
  BY DEF recalibrate_floppy
<1> QED BY <1>1, <1>2, <1>3, CommandKeeps

LEMMA NoRequestKeeps ==
    ASSUME FdInv, fd_no_request
    PROVE  FdInv'
<1>1. /\ fd' = [fd EXCEPT !.pc = "none"] /\ fd.pc = "do_fd_request"
      /\ UNCHANGED <<fd_queue, DOR, mon, moff, fd_timers, fdc, change, made, adrift>>
  BY DEF fd_no_request, In
<1>2. fd \in FdState
  BY DEF FdInv, FdTypes
<1>3. fd' \in FdState /\ fd'.pc = "none"
  BY <1>1, <1>2 DEF FdState, FdPlaces
<1>4. FdTypes'
  BY <1>1, <1>3 DEF FdInv, FdTypes
<1>5. ASSUME ~adrift' PROVE Right(fd, fd_queue, DOR, moff, fd_timers, fdc)'
  <2>1. fd_timers' = <<>> /\ fdc' = <<>>
    BY <1>1, <1>5 DEF FdInv, Right, OneThing
  <2> QED BY <1>3, <2>1 DEF Right, OneThing, OnTheWay
<1> QED BY <1>4, <1>5 DEF FdInv

LEMMA FirstRequest ==
    ASSUME FdInv, fd_queue # <<>>
    PROVE  /\ FD_CURRENT = fd_queue[1] /\ FD_CURRENT \in FdReqs /\ FD_CURRENT.dev \in Drives
           /\ FD_CURRENT.sector \in Nat /\ Tail(fd_queue) \in Seq(FdReqs)
<1>1. fd_queue \in Seq(FdReqs)
  BY DEF FdInv, FdTypes
<1>2. fd_queue[1] \in FdReqs /\ Head(fd_queue) = fd_queue[1]
  BY <1>1
<1>3. Tail(fd_queue) \in Seq(FdReqs)
  BY <1>1
<1> QED BY <1>2, <1>3 DEF FdReqs, FD_CURRENT

LEMMA DriveIs ==
    ASSUME NEW f \in FdState, FD_CURRENT.dev \in Drives
    PROVE  /\ Drive(f) \in FdState /\ Drive(f).drive = FD_CURRENT.dev /\ Drive(f).pc = f.pc
           /\ Drive(f).selected = f.selected
<1>1. (f.seek \/ f.drive # FD_CURRENT.dev) \in BOOLEAN
  OBVIOUS
<1> QED BY <1>1 DEF Drive, FdState

LEMMA OffDeviceKeeps ==
    ASSUME FdInv, fd_off_device
    PROVE  FdInv'
<1>1. /\ fd' = Drive(fd) /\ FdEnd(fd_queue) /\ fd.pc = "do_fd_request" /\ fd_queue # <<>>
      /\ UNCHANGED <<DOR, mon, fd_timers, fdc, change, made, adrift>>
  BY DEF fd_off_device, In
<1>2. fd \in FdState /\ moff \in [Drives -> 0 .. TICKS_BIG]
  BY DEF FdInv, FdTypes
<1>3. FD_CURRENT.dev \in Drives /\ Head(fd_queue).dev \in Drives /\ Tail(fd_queue) \in Seq(FdReqs)
  BY <1>1, FirstRequest DEF FD_CURRENT
<1>4. fd' \in FdState /\ fd'.pc = "do_fd_request"
  BY <1>1, <1>2, <1>3, DriveIs
<1>5. fd_queue' \in Seq(FdReqs) /\ moff' \in [Drives -> 0 .. TICKS_BIG]
  BY <1>1, <1>2, <1>3, FdEndIs
<1>6. FdTypes'
  BY <1>1, <1>4, <1>5 DEF FdInv, FdTypes
<1>7. ASSUME ~adrift' PROVE Right(fd, fd_queue, DOR, moff, fd_timers, fdc)'
  <2>1. fd_timers' = <<>> /\ fdc' = <<>>
    BY <1>1, <1>7 DEF FdInv, Right, OneThing
  <2> QED BY <1>4, <2>1, Restarts
<1> QED BY <1>6, <1>7 DEF FdInv

\* ticks_to_floppy_on: the motor runs, for a long time; a drive in use stays
\* the one selected, and no motor stops.
LEMMA TicksOn ==
    ASSUME FdInv, NEW nr \in Drives, ticks_to_floppy_on(nr)
    PROVE  /\ DOR' \in [drive : Drives, motors : SUBSET Drives]
           /\ mon' \in [Drives -> 0 .. TICKS_ON] /\ moff' \in [Drives -> 0 .. TICKS_BIG]
           /\ nr \in DOR'.motors /\ DOR.motors \subseteq DOR'.motors
           /\ (fd.selected => DOR'.drive = DOR.drive)
           /\ moff'[nr] = TICKS_BIG /\ \A d \in Drives : d # nr => moff'[d] = moff[d]
<1>1. /\ moff' = [moff EXCEPT ![nr] = TICKS_BIG]
      /\ DOR' = [drive |-> IF fd.selected THEN DOR.drive ELSE nr, motors |-> DOR.motors \cup {nr}]
      /\ mon' = [mon EXCEPT ![nr] = IF DOR'.motors # DOR.motors THEN TICKS_ON
                                   ELSE IF DOR' # DOR /\ @ < 2 THEN 2 ELSE @]
  BY DEF ticks_to_floppy_on, Selecting
<1>2. /\ DOR \in [drive : Drives, motors : SUBSET Drives]
      /\ mon \in [Drives -> 0 .. TICKS_ON] /\ moff \in [Drives -> 0 .. TICKS_BIG]
  BY DEF FdInv, FdTypes
<1>3. DOR.drive \in Drives /\ DOR.motors \subseteq Drives
  BY <1>2
<1>4. /\ DOR' \in [drive : Drives, motors : SUBSET Drives]
      /\ nr \in DOR'.motors /\ DOR.motors \subseteq DOR'.motors
      /\ (fd.selected => DOR'.drive = DOR.drive)
  BY <1>1, <1>3
<1>5. /\ moff' \in [Drives -> 0 .. TICKS_BIG]
      /\ moff'[nr] = TICKS_BIG /\ \A d \in Drives : d # nr => moff'[d] = moff[d]
  BY <1>1, <1>2, FloppyAssumption
<1>6. PICK e : /\ e \in {TICKS_ON, 2, mon[nr]} /\ mon' = [mon EXCEPT ![nr] = e]
  BY <1>1, Zenon
<1>7. e \in 0 .. TICKS_ON
  BY <1>2, <1>6, FloppyAssumption
<1>8. mon' \in [Drives -> 0 .. TICKS_ON]
  BY <1>2, <1>6, <1>7
<1> QED BY <1>4, <1>5, <1>8

\* The driver's variables when a request is taken up.
LEMMA TakenUp ==
    ASSUME NEW f \in FdState, NEW g, FD_CURRENT.dev \in Drives, FD_CURRENT.sector \in Nat,
           g = [Drive(f) EXCEPT !.want = FD_CURRENT.sector \div TrackSectors,
                                !.seek = @ \/ (FD_CURRENT.sector \div TrackSectors) # f.track]
    PROVE  g \in FdState /\ g.drive = FD_CURRENT.dev
<1>1. Drive(f) \in FdState /\ Drive(f).drive = FD_CURRENT.dev
  BY DriveIs
<1>2. FD_CURRENT.sector \div TrackSectors \in Nat
  BY FloppyAssumption
<1>3. PICK s \in BOOLEAN : s = (Drive(f).seek \/ (FD_CURRENT.sector \div TrackSectors) # f.track)
  OBVIOUS
<1>4. g = [Drive(f) EXCEPT !.want = FD_CURRENT.sector \div TrackSectors, !.seek = s]
  BY <1>3, Zenon
<1> QED BY <1>1, <1>2, <1>4 DEF FdState

LEMMA DoRequestKeeps ==
    ASSUME FdInv, do_fd_request
    PROVE  FdInv'
<1> DEFINE want == FD_CURRENT.sector \div TrackSectors
           g == [Drive(fd) EXCEPT !.want = want, !.seek = @ \/ want # fd.track]
           wait == mon'[FD_CURRENT.dev]
<1>1. /\ fd.pc = "do_fd_request" /\ fd_queue # <<>> /\ ticks_to_floppy_on(FD_CURRENT.dev)
      /\ UNCHANGED <<fd_queue, fdc, change, made, adrift>>
  BY DEF do_fd_request, In
<1>2. IF wait = 0
      THEN fd' = [g EXCEPT !.pc = "floppy_on_interrupt"] /\ UNCHANGED fd_timers
      ELSE /\ fd' = [g EXCEPT !.pc = "none"]
           /\ fd_timers' = Append(fd_timers, [fn |-> "floppy_on_interrupt", left |-> wait])
  BY DEF do_fd_request
<1>3. fd \in FdState /\ fd_timers \in Seq(FdTimers)
  BY DEF FdInv, FdTypes
<1>4. PICK d \in Drives : d = FD_CURRENT.dev /\ d = fd_queue[1].dev
  BY <1>1, FirstRequest
<1>5. g \in FdState /\ g.drive = d
  BY <1>1, <1>3, <1>4, FirstRequest, TakenUp
<1>6. /\ DOR' \in [drive : Drives, motors : SUBSET Drives]
      /\ mon' \in [Drives -> 0 .. TICKS_ON] /\ moff' \in [Drives -> 0 .. TICKS_BIG]
      /\ d \in DOR'.motors /\ moff'[d] = TICKS_BIG
  BY <1>1, <1>4, TicksOn
<1> HIDE DEF g
<1>7. CASE wait = 0
  <2>1. fd' = [g EXCEPT !.pc = "floppy_on_interrupt"] /\ UNCHANGED fd_timers
    BY <1>2, <1>7
  <2>2. fd' \in FdState /\ fd'.pc = "floppy_on_interrupt" /\ fd'.drive = d
    BY <1>5, <2>1 DEF FdState, FdPlaces
  <2>3. FdTypes'
    BY <1>1, <1>6, <2>1, <2>2 DEF FdInv, FdTypes
  <2>4. ASSUME ~adrift' PROVE Right(fd, fd_queue, DOR, moff, fd_timers, fdc)'
    <3>1. fd_timers' = <<>> /\ fdc' = <<>>
      BY <1>1, <2>1, <2>4 DEF FdInv, Right, OneThing
    <3>2. TICKS_BIG > 2
      BY FloppyAssumption
    <3>3. Spinning(fd', fd_queue', DOR', moff', 2)
      BY <1>1, <1>4, <1>6, <2>2, <3>2 DEF Spinning
    <3> QED BY <2>2, <3>1, <3>3 DEF Right, OneThing, OnTheWay
  <2> QED BY <2>3, <2>4 DEF FdInv
<1>8. CASE wait # 0
  <2>1. PICK t : t = [fn |-> "floppy_on_interrupt", left |-> wait]
    OBVIOUS
  <2>2. fd' = [g EXCEPT !.pc = "none"] /\ fd_timers' = Append(fd_timers, t)
    BY <1>2, <1>8, <2>1
  <2>3. fd' \in FdState /\ fd'.pc = "none" /\ fd'.drive = d
    BY <1>5, <2>2 DEF FdState, FdPlaces
  <2>4. wait \in 0 .. TICKS_ON
    BY <1>4, <1>6
  <2>5. t \in FdTimers /\ t.fn = "floppy_on_interrupt" /\ t.left = wait
    BY <2>1, <2>4, FloppyAssumption DEF FdTimers
  <2>6. fd_timers' \in Seq(FdTimers) /\ (fd_timers = <<>> => fd_timers' = <<t>>)
    BY <1>3, <2>2, <2>5, ShortSeq
  <2>7. FdTypes'
    BY <1>1, <1>6, <2>3, <2>6 DEF FdInv, FdTypes
  <2>8. ASSUME ~adrift' PROVE Right(fd, fd_queue, DOR, moff, fd_timers, fdc)'
    <3>1. fdc' = <<>> /\ fd_timers = <<>>
      BY <1>1, <2>8 DEF FdInv, Right, OneThing
    <3>2. fd_timers' = <<t>> /\ fd_timers'[1] = t
      BY <2>6, <3>1
    <3>3. TICKS_BIG > wait + 2 /\ wait <= TICKS_ON
      BY <2>4, FloppyAssumption
    <3>4. Spinning(fd', fd_queue', DOR', moff', wait + 2)
      BY <1>1, <1>4, <1>6, <2>3, <3>3 DEF Spinning
    <3> HIDE DEF wait
    <3>5. OneThing(fd', fd_timers', fdc')
      BY <2>3, <3>1, <3>2 DEF OneThing
    <3>6. OnTheWay(fd', fd_queue', DOR', moff', fd_timers', fdc')
      BY <2>3, <2>5, <3>1, <3>2, <3>3, <3>4 DEF OnTheWay
    <3> QED BY <3>5, <3>6 DEF Right
  <2> QED BY <2>7, <2>8 DEF FdInv
<1> QED BY <1>7, <1>8

LEMMA OnInterruptKeeps ==
    ASSUME FdInv, floppy_on_interrupt
    PROVE  FdInv'
<1>1. /\ fd.pc = "floppy_on_interrupt"
      /\ IF fd.drive = DOR.drive
         THEN fd' = [fd EXCEPT !.pc = "transfer", !.selected = TRUE] /\ UNCHANGED <<DOR, fd_timers>>
         ELSE /\ fd' = [fd EXCEPT !.pc = "none", !.selected = TRUE]
              /\ DOR' = [DOR EXCEPT !.drive = fd.drive]
              /\ fd_timers' = Append(fd_timers, [fn |-> "transfer", left |-> 2])
      /\ UNCHANGED <<fd_queue, mon, moff, fdc, change, made, adrift>>
  BY DEF floppy_on_interrupt, In
<1>2. /\ fd \in FdState /\ fd_timers \in Seq(FdTimers) /\ moff \in [Drives -> 0 .. TICKS_BIG]
      /\ DOR \in [drive : Drives, motors : SUBSET Drives] /\ fd.drive \in Drives
  BY DEF FdInv, FdTypes, FdState
<1>3. ~adrift => /\ fdc = <<>> /\ fd_timers = <<>> /\ Spinning(fd, fd_queue, DOR, moff, 2)
  BY <1>1 DEF FdInv, Right, OneThing, OnTheWay
<1>4. CASE fd.drive = DOR.drive
  <2>1. fd' = [fd EXCEPT !.pc = "transfer", !.selected = TRUE] /\ UNCHANGED <<DOR, fd_timers>>
    BY <1>1, <1>4
  <2>2. fd' \in FdState /\ fd'.pc = "transfer" /\ fd'.drive = fd.drive /\ fd'.selected
    BY <1>2, <2>1 DEF FdState, FdPlaces
  <2>3. FdTypes'
    BY <1>1, <2>1, <2>2 DEF FdInv, FdTypes
  <2>4. ASSUME ~adrift' PROVE Right(fd, fd_queue, DOR, moff, fd_timers, fdc)'
    <3>1. fdc' = <<>> /\ fd_timers' = <<>> /\ Spinning(fd, fd_queue, DOR, moff, 2)
      BY <1>1, <1>3, <2>1, <2>4
    <3>2. Chosen(fd', fd_queue', DOR', moff', 0)
      BY <1>1, <1>2, <1>4, <2>1, <2>2, <3>1 DEF Chosen, Spinning
    <3> QED BY <2>2, <3>1, <3>2 DEF Right, OneThing, OnTheWay
  <2> QED BY <2>3, <2>4 DEF FdInv
<1>5. CASE fd.drive # DOR.drive
  <2>1. PICK t : t = [fn |-> "transfer", left |-> 2]
    OBVIOUS
  <2>2. /\ fd' = [fd EXCEPT !.pc = "none", !.selected = TRUE]
        /\ DOR' = [DOR EXCEPT !.drive = fd.drive] /\ fd_timers' = Append(fd_timers, t)
    BY <1>1, <1>5, <2>1
  <2>3. fd' \in FdState /\ fd'.pc = "none" /\ fd'.drive = fd.drive /\ fd'.selected
    BY <1>2, <2>2 DEF FdState, FdPlaces
  <2>4. /\ DOR' \in [drive : Drives, motors : SUBSET Drives]
        /\ DOR'.drive = fd.drive /\ DOR'.motors = DOR.motors
    BY <1>2, <2>2
  <2>5. t \in FdTimers /\ t.fn = "transfer" /\ t.left = 2
    BY <2>1 DEF FdTimers
  <2>6. fd_timers' \in Seq(FdTimers) /\ (fd_timers = <<>> => fd_timers' = <<t>>)
    BY <1>2, <2>2, <2>5, ShortSeq
  <2>7. FdTypes'
    BY <1>1, <2>3, <2>4, <2>6 DEF FdInv, FdTypes
  <2>8. ASSUME ~adrift' PROVE Right(fd, fd_queue, DOR, moff, fd_timers, fdc)'
    <3>1. fdc' = <<>> /\ fd_timers = <<>> /\ Spinning(fd, fd_queue, DOR, moff, 2)
      BY <1>1, <1>3, <2>8
    <3>2. fd_timers' = <<t>> /\ fd_timers'[1] = t
      BY <2>6, <3>1
    <3>3. Chosen(fd', fd_queue', DOR', moff', 2)
      BY <1>1, <2>3, <2>4, <3>1 DEF Chosen, Spinning
    <3>4. OneThing(fd', fd_timers', fdc')
      BY <2>3, <3>1, <3>2 DEF OneThing
    <3>5. OnTheWay(fd', fd_queue', DOR', moff', fd_timers', fdc')
      BY <2>3, <2>5, <3>1, <3>2, <3>3 DEF OnTheWay
    <3> QED BY <3>4, <3>5 DEF Right
  <2> QED BY <2>7, <2>8 DEF FdInv
<1> QED BY <1>4, <1>5

LEMMA TransferKeeps ==
    ASSUME FdInv, transfer
    PROVE  FdInv'
<1>1. /\ fd.pc = "transfer"
      /\ UNCHANGED <<fd_queue, DOR, mon, moff, fd_timers, change, made, adrift>>
  BY DEF transfer, In
<1>2. /\ fd \in FdState /\ fd_queue \in Seq(FdReqs)
      /\ moff \in [Drives -> 0 .. TICKS_BIG] /\ change \in FdChange
  BY DEF FdInv, FdTypes
<1>3. CASE fd.faults > 0 /\ UNCHANGED fdc /\ fd' = Enter([Faulty(fd) EXCEPT !.reset = TRUE])
  <2>1. [Faulty(fd) EXCEPT !.reset = TRUE] \in FdState
    BY <1>2, <1>3, FaultyIs, ResetIs DEF Handlers
  <2> QED BY <1>1, <1>2, <1>3, <2>1, EnterKeeps
<1>4. CASE fd.reset /\ fd' = Enter(fd) /\ UNCHANGED fdc
  BY <1>1, <1>2, <1>4, EnterKeeps
<1>5. CASE fd' = [fd EXCEPT !.pc = "setup_rw_floppy"] /\ UNCHANGED fdc
  <2>1. /\ fd' \in FdState /\ fd'.pc = "setup_rw_floppy" /\ fd'.drive = fd.drive
        /\ fd'.selected = fd.selected
    BY <1>2, <1>5 DEF FdState, FdPlaces
  <2>2. FdTypes'
    BY <1>1, <1>5, <2>1 DEF FdInv, FdTypes
  <2>3. ASSUME ~adrift' PROVE Right(fd, fd_queue, DOR, moff, fd_timers, fdc)'
    <3>1. fdc' = <<>> /\ fd_timers' = <<>> /\ Chosen(fd, fd_queue, DOR, moff, 0)
      BY <1>1, <1>5, <2>3 DEF FdInv, Right, OneThing, OnTheWay
    <3>2. Chosen(fd', fd_queue', DOR', moff', 0)
      BY <1>1, <2>1, <3>1 DEF Chosen, Spinning
    <3> QED BY <2>1, <3>1, <3>2 DEF Right, OneThing, OnTheWay
  <2> QED BY <2>2, <2>3 DEF FdInv
<1>6. CASE Command(fd, "seek_interrupt")
  <2>1. "seek_interrupt" \in Handlers
    BY DEF Handlers
  <2> QED BY <1>1, <1>2, <1>6, <2>1, CommandKeeps
<1> QED BY <1>3, <1>4, <1>5, <1>6 DEF transfer

LEMMA SetupKeeps ==
    ASSUME FdInv, setup_rw_floppy
    PROVE  FdInv'
<1>1. /\ fd.pc = "setup_rw_floppy" /\ Command(fd, "rw_interrupt") /\ fd \in FdState
      /\ UNCHANGED <<fd_queue, DOR, mon, moff, fd_timers, change, made, adrift>>
  BY DEF setup_rw_floppy, In, FdInv, FdTypes
<1>2. "rw_interrupt" \in Handlers
  BY DEF Handlers
<1> QED BY <1>1, <1>2, CommandKeeps

-----------------------------------------------------------------------------
\* The interrupts.
LEMMA HandledIs ==
    ASSUME FdInv
    PROVE  /\ Handled \in FdState /\ Handled.drive = fd.drive /\ Handled.selected = fd.selected
           /\ Handled.faults = fd.faults
<1>1. fd \in FdState
  BY DEF FdInv, FdTypes
<1> QED BY <1>1 DEF Handled, FdState

LEMMA RwInterruptKeeps ==
    ASSUME FdInv, rw_interrupt
    PROVE  FdInv'
<1>1. /\ fd.pc = "none" /\ fdc # <<>> /\ fdc' = Tail(fdc) /\ fd_queue # <<>>
      /\ UNCHANGED <<DOR, mon, fd_timers, made, adrift>>
  BY DEF rw_interrupt, Answered, Quiescent
<1>2. Handled \in FdState /\ change \in FdChange /\ moff \in [Drives -> 0 .. TICKS_BIG]
  BY HandledIs DEF FdInv, FdTypes
<1>3. CASE bad_flp_intr(Handled)
  BY <1>1, <1>2, <1>3, BadIntrKeeps, EnterKeeps
<1>4. CASE fd' = Enter(Deselected(Handled)) /\ change' = TaskWoken(change) /\ FdEnd(fd_queue)
  <2>1. Deselected(Handled) \in FdState
    BY <1>2 DEF Deselected, FdState
  <2>2. Head(fd_queue).dev \in Drives /\ Tail(fd_queue) \in Seq(FdReqs)
    BY <1>1, FirstRequest DEF FD_CURRENT
  <2>3. fd_queue' \in Seq(FdReqs) /\ moff' \in [Drives -> 0 .. TICKS_BIG]
    BY <1>2, <1>4, <2>2, FdEndIs
  <2>4. change' \in FdChange
    BY <1>2, <1>4, TaskWokenIs
  <2> QED BY <1>1, <1>4, <2>1, <2>3, <2>4, EnterKeeps
<1> QED BY <1>3, <1>4 DEF rw_interrupt

LEMMA SeekInterruptKeeps ==
    ASSUME FdInv, seek_interrupt
    PROVE  FdInv'
<1>1. /\ fd.pc = "none" /\ fdc # <<>> /\ fdc' = Tail(fdc) /\ fd_queue # <<>>
      /\ fd.do = "seek_interrupt" /\ UNCHANGED <<DOR, mon, fd_timers, made, adrift>>
  BY DEF seek_interrupt, Answered, Quiescent
<1>2. /\ Handled \in FdState /\ fd.want \in Nat /\ Handled.drive = fd.drive
      /\ Handled.selected = fd.selected
  BY HandledIs DEF FdInv, FdTypes, FdState
<1>3. CASE bad_flp_intr(Handled)
  BY <1>1, <1>2, <1>3, BadIntrKeeps, EnterKeeps
<1>4. CASE /\ fd' = [Handled EXCEPT !.pc = "setup_rw_floppy", !.track = fd.want]
           /\ UNCHANGED <<fd_queue, moff, change>>
  <2>1. /\ fd' \in FdState /\ fd'.pc = "setup_rw_floppy" /\ fd'.drive = fd.drive
        /\ fd'.selected = fd.selected
    BY <1>2, <1>4 DEF FdState, FdPlaces
  <2>2. fdc \in Seq(Handlers)
    BY DEF FdInv, FdTypes
  <2>3. fdc' \in Seq(Handlers)
    BY <1>1, <2>2
  <2>4. FdTypes'
    BY <1>1, <1>4, <2>1, <2>3 DEF FdInv, FdTypes
  <2>5. ASSUME ~adrift' PROVE Right(fd, fd_queue, DOR, moff, fd_timers, fdc)'
    <3>1. fdc = <<fd.do>> /\ fd_timers' = <<>> /\ Chosen(fd, fd_queue, DOR, moff, 0)
      BY <1>1, <2>5 DEF FdInv, Right, OneThing, OnTheWay
    <3>2. fdc' = <<>>
      BY <1>1, <3>1
    <3>3. Chosen(fd', fd_queue', DOR', moff', 0)
      BY <1>1, <1>4, <2>1, <3>1 DEF Chosen, Spinning
    <3> QED BY <2>1, <3>1, <3>2, <3>3 DEF Right, OneThing, OnTheWay
  <2> QED BY <2>4, <2>5 DEF FdInv
<1> QED BY <1>3, <1>4 DEF seek_interrupt

LEMMA OtherInterruptsKeep ==
    ASSUME FdInv, recal_interrupt \/ reset_interrupt
    PROVE  FdInv'
<1>1. /\ fd.pc = "none" /\ fdc # <<>> /\ fdc' = Tail(fdc)
      /\ UNCHANGED <<fd_queue, DOR, mon, moff, fd_timers, change, made, adrift>>
  BY DEF recal_interrupt, reset_interrupt, Answered, Quiescent
<1>2. /\ Handled \in FdState /\ Handled.faults = fd.faults /\ fd_queue \in Seq(FdReqs)
      /\ moff \in [Drives -> 0 .. TICKS_BIG] /\ change \in FdChange
  BY HandledIs DEF FdInv, FdTypes
<1>3. \E g \in FdState : fd' = Enter(g)
  <2>1. [Handled EXCEPT !.recal = FALSE] \in FdState
    BY <1>2, ResetIs DEF Handlers
  <2>2. fd.faults > 0 => [Faulty(Handled) EXCEPT !.reset = TRUE] \in FdState
    BY <1>2, FaultyIs, ResetIs DEF Handlers
  <2> QED BY <1>2, <2>1, <2>2 DEF recal_interrupt, reset_interrupt
<1> QED BY <1>1, <1>2, <1>3, EnterKeeps

\* No interrupt is unexpected, unless the driver is adrift.
LEMMA UnexpectedKeeps ==
    ASSUME FdInv, unexpected_floppy_interrupt
    PROVE  FdInv'
<1>1. /\ fd.pc = "none" /\ fdc # <<>> /\ fdc' = Tail(fdc) /\ fd.do = "unexpected"
      /\ UNCHANGED <<fd_queue, DOR, mon, moff, fd_timers, change, made, adrift>>
  BY DEF unexpected_floppy_interrupt, Answered, Quiescent
<1>2. fd \in FdState /\ fdc \in Seq(Handlers)
  BY DEF FdInv, FdTypes
<1>3. fd' \in FdState
  <2>1. CASE fd' = [fd EXCEPT !.recal = TRUE]
    BY <1>2, <2>1 DEF FdState
  <2>2. CASE fd.faults > 0 /\ fd' = [Faulty(fd) EXCEPT !.reset = TRUE]
    BY <1>2, <2>2, FaultyIs, ResetIs DEF Handlers
  <2> QED BY <2>1, <2>2 DEF unexpected_floppy_interrupt
<1>4. fdc' \in Seq(Handlers)
  BY <1>1, <1>2
<1>5. FdTypes'
  BY <1>1, <1>3, <1>4 DEF FdInv, FdTypes
<1>6. adrift'
  <2>1. SUFFICES ASSUME ~adrift' PROVE FALSE
    OBVIOUS
  <2>2. fdc = <<fd.do>>
    BY <1>1, <2>1 DEF FdInv, Right, OneThing
  <2>3. fdc[1] \in Handlers
    BY <1>1, <1>2
  <2> QED BY <1>1, <2>2, <2>3 DEF Handlers
<1> QED BY <1>5, <1>6 DEF FdInv

-----------------------------------------------------------------------------
\* A tick: a motor that has more time left than the driver's timer runs on.
LEMMA MotorRunsOn ==
    ASSUME FdInv, FdTick, NEW n \in Nat, n > 0
    PROVE  /\ Spinning(fd, fd_queue, DOR, moff, n) => Spinning(fd', fd_queue', DOR', moff', n - 1)
           /\ Chosen(fd, fd_queue, DOR, moff, n) => Chosen(fd', fd_queue', DOR', moff', n - 1)
<1> DEFINE off == {d \in DOR.motors : mon[d] = 0 /\ moff[d] = 0}
<1>1. /\ fd' = fd /\ fd_queue' = fd_queue /\ DOR' = [DOR EXCEPT !.motors = @ \ off]
      /\ moff' = [d \in Drives |-> IF d \in DOR.motors /\ mon[d] = 0 /\ moff[d] > 0
                                   THEN moff[d] - 1 ELSE moff[d]]
  BY DEF FdTick
<1>2. /\ fd.drive \in Drives /\ moff \in [Drives -> 0 .. TICKS_BIG]
      /\ DOR \in [drive : Drives, motors : SUBSET Drives]
  BY DEF FdInv, FdTypes, FdState
<1>3. DOR'.drive = DOR.drive /\ DOR'.motors = DOR.motors \ off
  BY <1>1, <1>2
<1>4. moff[fd.drive] > n => moff'[fd.drive] > n - 1 /\ fd.drive \notin off
  BY <1>1, <1>2
<1> HIDE DEF off
<1> QED BY <1>1, <1>3, <1>4 DEF Spinning, Chosen

LEMMA TickKeeps ==
    ASSUME FdInv, FdTick
    PROVE  FdInv'
<1> DEFINE off == {d \in DOR.motors : mon[d] = 0 /\ moff[d] = 0}
           started == {d \in DOR.motors : mon[d] = 1}
<1>1. /\ fd.pc = "none" /\ fdc = <<>> /\ \A i \in DOMAIN fd_timers : fd_timers[i].left > 0
      /\ UNCHANGED <<fd_queue, fd, fdc, made, adrift>>
      /\ fd_timers' = [i \in DOMAIN fd_timers |-> [fd_timers[i] EXCEPT !.left = @ - 1]]
  BY DEF FdTick, Quiescent
<1>2. /\ DOR' = [DOR EXCEPT !.motors = @ \ off]
      /\ mon' = [d \in Drives |-> IF d \in DOR.motors /\ mon[d] > 0 THEN mon[d] - 1 ELSE mon[d]]
      /\ moff' = [d \in Drives |-> IF d \in DOR.motors /\ mon[d] = 0 /\ moff[d] > 0
                                   THEN moff[d] - 1 ELSE moff[d]]
      /\ change' = IF change.pc = "sleep_motor" /\ change.nr \in started
                   THEN [change EXCEPT !.pc = "floppy_on"] ELSE change
  BY DEF FdTick
<1>3. /\ fd_timers \in Seq(FdTimers) /\ change \in FdChange
      /\ DOR \in [drive : Drives, motors : SUBSET Drives]
      /\ mon \in [Drives -> 0 .. TICKS_ON] /\ moff \in [Drives -> 0 .. TICKS_BIG]
  BY DEF FdInv, FdTypes
<1>4. DOR' \in [drive : Drives, motors : SUBSET Drives]
  <2>1. DOR.drive \in Drives /\ DOR.motors \ off \in SUBSET Drives
    BY <1>3
  <2> HIDE DEF off
  <2> QED BY <1>2, <1>3, <2>1
<1>5. mon' \in [Drives -> 0 .. TICKS_ON]
  <2>1. \A d \in Drives : mon'[d] \in 0 .. TICKS_ON
    <3> TAKE d \in Drives
    <3>1. mon[d] \in 0 .. TICKS_ON /\ (mon'[d] = mon[d] \/ (mon[d] > 0 /\ mon'[d] = mon[d] - 1))
      BY <1>2, <1>3
    <3> QED BY <3>1, FloppyAssumption
  <2> QED BY <1>2, <2>1
<1>6. moff' \in [Drives -> 0 .. TICKS_BIG]
  <2>1. \A d \in Drives : moff'[d] \in 0 .. TICKS_BIG
    <3> TAKE d \in Drives
    <3>1. moff[d] \in 0 .. TICKS_BIG /\ (moff'[d] = moff[d] \/ (moff[d] > 0 /\ moff'[d] = moff[d] - 1))
      BY <1>2, <1>3
    <3> QED BY <3>1, FloppyAssumption
  <2> QED BY <1>2, <2>1
<1>7. change' \in FdChange
  <2> HIDE DEF started
  <2> QED BY <1>2, <1>3 DEF FdChange
<1>8. \A i \in 1 .. Len(fd_timers) :
         /\ fd_timers'[i] \in FdTimers /\ fd_timers'[i].fn = fd_timers[i].fn
         /\ fd_timers'[i].left = fd_timers[i].left - 1
  <2> TAKE i \in 1 .. Len(fd_timers)
  <2>1. fd_timers[i] \in FdTimers /\ i \in DOMAIN fd_timers
    BY <1>3
  <2>2. fd_timers[i].left > 0 /\ fd_timers'[i] = [fd_timers[i] EXCEPT !.left = @ - 1]
    BY <1>1, <2>1
  <2>3. fd_timers[i].left \in Nat /\ fd_timers[i].left - 1 \in Nat
    BY <2>1, <2>2 DEF FdTimers
  <2> QED BY <2>1, <2>2, <2>3 DEF FdTimers
<1>9. fd_timers' \in Seq(FdTimers) /\ Len(fd_timers') = Len(fd_timers)
  <2>1. DOMAIN fd_timers = 1 .. Len(fd_timers) /\ Len(fd_timers) \in Nat
    BY <1>3
  <2>2. fd_timers' \in [1 .. Len(fd_timers) -> FdTimers]
    BY <1>1, <1>8, <2>1
  <2> QED BY <2>1, <2>2
<1>10. FdTypes'
  BY <1>1, <1>4, <1>5, <1>6, <1>7, <1>9 DEF FdInv, FdTypes
<1>11. ASSUME ~adrift' PROVE Right(fd, fd_queue, DOR, moff, fd_timers, fdc)'
  <2>1. Right(fd, fd_queue, DOR, moff, fd_timers, fdc)
    BY <1>1, <1>11 DEF FdInv
  <2>2. CASE fd_timers = <<>>
    <3>1. fd_timers' = <<>>
      BY <1>9, <2>2
    <3> QED BY <1>1, <3>1 DEF Right, OneThing, OnTheWay
  <2>3. CASE fd_timers # <<>>
    <3>1. fd_timers = <<fd_timers[1]>> /\ Len(fd_timers) = 1
      BY <2>1, <2>3 DEF Right, OneThing
    <3>2. fd_timers' = <<fd_timers'[1]>> /\ fd_timers' # <<>>
      BY <1>9, <3>1
    <3>3. PICK l \in Nat : l = fd_timers[1].left /\ l > 0
      <4>1. 1 \in DOMAIN fd_timers /\ fd_timers[1] \in FdTimers
        BY <1>3, <2>3
      <4>2. fd_timers[1].left > 0
        BY <1>1, <4>1
      <4> QED BY <4>1, <4>2 DEF FdTimers
    <3>4. fd_timers'[1].fn = fd_timers[1].fn /\ fd_timers'[1].left = l - 1
      BY <1>8, <3>1, <3>3
    <3>5. OneThing(fd', fd_timers', fdc')
      BY <1>1, <3>2 DEF OneThing
    <3>6. CASE /\ fd_timers[1].fn = "floppy_on_interrupt" /\ l <= TICKS_ON
               /\ Spinning(fd, fd_queue, DOR, moff, l + 2)
      <4>1. l + 2 \in Nat /\ l + 2 > 0 /\ (l + 2) - 1 = (l - 1) + 2 /\ l - 1 <= TICKS_ON
        BY <3>3, <3>6, FloppyAssumption
      <4>2. Spinning(fd', fd_queue', DOR', moff', (l + 2) - 1)
        BY <3>6, <4>1, MotorRunsOn
      <4>3. Spinning(fd', fd_queue', DOR', moff', (l - 1) + 2)
        BY <4>1, <4>2
      <4>4. OnTheWay(fd', fd_queue', DOR', moff', fd_timers', fdc')
        BY <1>1, <3>4, <3>6, <4>1, <4>3 DEF OnTheWay
      <4> QED BY <3>5, <4>4 DEF Right
    <3>7. CASE /\ fd_timers[1].fn = "transfer" /\ l <= 2
               /\ Chosen(fd, fd_queue, DOR, moff, l)
      <4>1. Chosen(fd', fd_queue', DOR', moff', l - 1) /\ l - 1 <= 2
        BY <3>3, <3>7, MotorRunsOn
      <4>2. OnTheWay(fd', fd_queue', DOR', moff', fd_timers', fdc')
        BY <1>1, <3>4, <3>7, <4>1 DEF OnTheWay
      <4> QED BY <3>5, <4>2 DEF Right
    <3> QED BY <2>1, <2>3, <3>3, <3>6, <3>7 DEF Right, OnTheWay
  <2> QED BY <2>2, <2>3
<1> QED BY <1>10, <1>11 DEF FdInv

\* A timer fires: the function it calls runs with what was sure while it waited.
LEMMA TimerGoes ==
    ASSUME NEW T \in Seq(FdTimers), NEW i \in DOMAIN T
    PROVE  RemoveAt(T, i) \in Seq(FdTimers) /\ (Len(T) = 1 => RemoveAt(T, i) = <<>>)
<1>1. i \in 1 .. Len(T) /\ Len(T) \in Nat
  OBVIOUS
<1>2. SubSeq(T, 1, i - 1) \in Seq(FdTimers)
  BY <1>1
<1>3. SubSeq(T, i + 1, Len(T)) \in Seq(FdTimers)
  BY <1>1
<1>4. RemoveAt(T, i) \in Seq(FdTimers)
  BY <1>2, <1>3 DEF RemoveAt
<1>5. ASSUME Len(T) = 1 PROVE RemoveAt(T, i) = <<>>
  <2>1. i = 1
    BY <1>1, <1>5
  <2>2. SubSeq(T, 1, i - 1) = <<>>
    BY <2>1
  <2>3. SubSeq(T, i + 1, Len(T)) = <<>>
    BY <2>1, <1>5
  <2> QED BY <2>2, <2>3 DEF RemoveAt
<1> QED BY <1>4, <1>5

LEMMA TimerKeeps ==
    ASSUME FdInv, fd_timer_fires
    PROVE  FdInv'
<1>1. /\ fd.pc = "none"
      /\ UNCHANGED <<fd_queue, DOR, mon, moff, fdc, change, made, adrift>>
  BY DEF fd_timer_fires, Quiescent
<1>2. PICK i \in DOMAIN fd_timers : /\ fd_timers[i].left = 0
                                    /\ fd' = [fd EXCEPT !.pc = fd_timers[i].fn]
                                    /\ fd_timers' = RemoveAt(fd_timers, i)
  BY DEF fd_timer_fires
<1>3. fd \in FdState /\ fd_timers \in Seq(FdTimers) /\ fd.drive \in Drives /\ moff \in [Drives -> 0 .. TICKS_BIG]
  BY DEF FdInv, FdTypes, FdState
<1>4. fd_timers[i].fn \in {"floppy_on_interrupt", "transfer"}
  <2>1. fd_timers[i] \in FdTimers
    BY <1>2, <1>3
  <2> QED BY <2>1 DEF FdTimers
<1>5. /\ fd' \in FdState /\ fd'.pc = fd_timers[i].fn /\ fd'.drive = fd.drive
      /\ fd'.selected = fd.selected /\ fd'.do = fd.do
  BY <1>2, <1>3, <1>4 DEF FdState, FdPlaces
<1>6. fd_timers' \in Seq(FdTimers) /\ (Len(fd_timers) = 1 => fd_timers' = <<>>)
  BY <1>2, <1>3, TimerGoes
<1>7. FdTypes'
  BY <1>1, <1>5, <1>6 DEF FdInv, FdTypes
<1>8. ASSUME ~adrift' PROVE Right(fd, fd_queue, DOR, moff, fd_timers, fdc)'
  <2>1. Right(fd, fd_queue, DOR, moff, fd_timers, fdc) /\ fd_timers # <<>>
    BY <1>1, <1>2, <1>8 DEF FdInv
  <2>2. fd_timers = <<fd_timers[1]>> /\ fdc' = <<>>
    BY <1>1, <2>1 DEF Right, OneThing
  <2>3. i = 1 /\ fd_timers' = <<>>
    BY <1>2, <1>6, <2>2
  <2>4. fd_timers[1].left = 0 /\ fd'.pc = fd_timers[1].fn
    BY <1>2, <1>5, <2>3
  <2>5. \/ fd_timers[1].fn = "floppy_on_interrupt" /\ Spinning(fd, fd_queue, DOR, moff, 2)
        \/ fd_timers[1].fn = "transfer" /\ Chosen(fd, fd_queue, DOR, moff, 0)
    BY <2>1, <2>4 DEF Right, OnTheWay
  <2>6. \/ fd'.pc = "floppy_on_interrupt" /\ Spinning(fd', fd_queue', DOR', moff', 2)
        \/ fd'.pc = "transfer" /\ Chosen(fd', fd_queue', DOR', moff', 0)
    BY <1>1, <1>5, <2>4, <2>5 DEF Spinning, Chosen
  <2> QED BY <2>2, <2>3, <2>6 DEF Right, OneThing, OnTheWay
<1> QED BY <1>7, <1>8 DEF FdInv

-----------------------------------------------------------------------------
\* floppy_change may turn on motors and select a drive, but not another one
\* than the one in use.
LEMMA ChangeStartsKeeps ==
    ASSUME FdInv, change_starts
    PROVE  FdInv'
<1>1. PICK nr \in Drives : change' = [pc |-> "floppy_on", nr |-> nr, left |-> change.left - 1]
  BY DEF change_starts
<1>2. /\ change.left > 0 /\ change \in FdChange
      /\ UNCHANGED <<fd_queue, fd, DOR, mon, moff, fd_timers, fdc, made, adrift>>
  BY DEF change_starts, FdInv, FdTypes
<1>3. change.left - 1 \in Nat
  BY <1>2 DEF FdChange
<1>4. change' \in FdChange
  BY <1>1, <1>3 DEF FdChange
<1> QED BY <1>2, <1>4 DEF FdInv, FdTypes

LEMMA FloppyOnKeeps ==
    ASSUME FdInv, floppy_on
    PROVE  FdInv'
<1>1. /\ ticks_to_floppy_on(change.nr)
      /\ change' = [change EXCEPT !.pc = IF mon'[change.nr] > 0 THEN "sleep_motor" ELSE "check"]
      /\ UNCHANGED <<fd_queue, fd, fd_timers, fdc, made, adrift>>
  BY DEF floppy_on
<1>2. /\ change \in FdChange /\ change.nr \in Drives /\ fd.drive \in Drives
      /\ fd_timers \in Seq(FdTimers) /\ moff \in [Drives -> 0 .. TICKS_BIG]
  BY DEF FdInv, FdTypes, FdChange, FdState
<1>3. /\ DOR' \in [drive : Drives, motors : SUBSET Drives]
      /\ mon' \in [Drives -> 0 .. TICKS_ON] /\ moff' \in [Drives -> 0 .. TICKS_BIG]
      /\ DOR.motors \subseteq DOR'.motors /\ (fd.selected => DOR'.drive = DOR.drive)
      /\ moff'[change.nr] = TICKS_BIG /\ \A d \in Drives : d # change.nr => moff'[d] = moff[d]
  BY <1>1, <1>2, TicksOn
<1>4. change' \in FdChange
  BY <1>1, <1>2 DEF FdChange
<1>5. FdTypes'
  BY <1>1, <1>3, <1>4 DEF FdInv, FdTypes
<1>6. ASSUME ~adrift' PROVE Right(fd, fd_queue, DOR, moff, fd_timers, fdc)'
  <2>1. moff[fd.drive] \in 0 .. TICKS_BIG /\ moff'[fd.drive] \in 0 .. TICKS_BIG
    BY <1>2, <1>3
  <2>2. moff'[fd.drive] >= moff[fd.drive]
    <3>1. moff'[fd.drive] = TICKS_BIG \/ moff'[fd.drive] = moff[fd.drive]
      BY <1>2, <1>3
    <3> QED BY <2>1, <3>1, FloppyAssumption
  <2>3. Kept(fd, fd_queue, DOR, moff, fd_queue, DOR', moff')
    BY <1>3, <2>2 DEF Kept
  <2>4. Right(fd, fd_queue, DOR, moff, fd_timers, fdc)
    BY <1>1, <1>6 DEF FdInv
  <2>5. Right(fd, fd_queue, DOR', moff', fd_timers, fdc)
    BY <1>2, <2>1, <2>3, <2>4, KeptRight
  <2> QED BY <1>1, <2>5
<1> QED BY <1>5, <1>6 DEF FdInv

LEMMA FloppyChangeKeeps ==
    ASSUME FdInv, floppy_change
    PROVE  FdInv'
<1>1. /\ UNCHANGED <<fd_queue, fd, DOR, mon, fd_timers, fdc, made, adrift>>
      /\ moff' = [moff EXCEPT ![change.nr] = TICKS_OFF] \/ moff' = moff
      /\ \E p \in {"idle", "sleep_select", "floppy_on"} : change' = [change EXCEPT !.pc = p]
  BY DEF floppy_change
<1>2. /\ change \in FdChange /\ change.nr \in Drives /\ fd.drive \in Drives
      /\ fd_timers \in Seq(FdTimers) /\ moff \in [Drives -> 0 .. TICKS_BIG]
  BY DEF FdInv, FdTypes, FdChange, FdState
<1>3. TICKS_OFF \in 0 .. TICKS_BIG /\ TICKS_OFF > TICKS_ON + 2
  BY FloppyAssumption
<1>4. moff' \in [Drives -> 0 .. TICKS_BIG] /\ \A d \in Drives : moff'[d] \in {moff[d], TICKS_OFF}
  BY <1>1, <1>2, <1>3
<1>5. change' \in FdChange
  BY <1>1, <1>2 DEF FdChange
<1>6. FdTypes'
  BY <1>1, <1>4, <1>5 DEF FdInv, FdTypes
<1>7. ASSUME ~adrift' PROVE Right(fd, fd_queue, DOR, moff, fd_timers, fdc)'
  <2>1. /\ moff[fd.drive] \in Nat /\ moff'[fd.drive] \in Nat
        /\ moff'[fd.drive] >= moff[fd.drive] \/ moff'[fd.drive] > TICKS_ON + 2
    BY <1>2, <1>3, <1>4, SMTT(30)
  <2>2. Kept(fd, fd_queue, DOR, moff, fd_queue, DOR, moff')
    BY <2>1 DEF Kept
  <2>3. Right(fd, fd_queue, DOR, moff, fd_timers, fdc)
    BY <1>1, <1>7 DEF FdInv
  <2>4. Right(fd, fd_queue, DOR, moff', fd_timers, fdc)
    BY <1>2, <2>1, <2>2, <2>3, KeptRight
  <2> QED BY <1>1, <2>4
<1> QED BY <1>6, <1>7 DEF FdInv

-----------------------------------------------------------------------------
\* The floppy driver's invariant: the driver does one thing at a time, and at
\* each place on the way to a transfer the request's drive spins, with more
\* time left than the driver waits, and from floppy_on_interrupt on is the one
\* selected (floppy.c, the motor timers of sched.c).
THEOREM FloppyInvariant == FdSpec => []FdInv
<1>1. FdInit => FdInv
  BY FdInitHolds
<1>2. FdInv /\ [FdNext]_fdVars => FdInv'
  <2> SUFFICES ASSUME FdInv, [FdNext]_fdVars PROVE FdInv'
    OBVIOUS
  <2>1. CASE fd_make_request
    BY <2>1, FdMakeRequest
  <2>2. CASE DoFdRequest
    BY <2>2, ResetKeeps, RecalibrateKeeps, NoRequestKeeps, OffDeviceKeeps, DoRequestKeeps,
       OnInterruptKeeps, TransferKeeps, SetupKeeps DEF DoFdRequest
  <2>3. CASE FdInterrupt
    BY <2>3, RwInterruptKeeps, SeekInterruptKeeps, OtherInterruptsKeep, UnexpectedKeeps DEF FdInterrupt
  <2>4. CASE FdTick \/ fd_timer_fires
    BY <2>4, TickKeeps, TimerKeeps
  <2>5. CASE change_starts \/ FdTask
    BY <2>5, ChangeStartsKeeps, FloppyOnKeeps, FloppyChangeKeeps DEF FdTask
  <2>6. CASE UNCHANGED fdVars
    BY <2>6 DEF fdVars, FdInv, FdTypes, Right, OneThing, OnTheWay, Spinning, Chosen
  <2> QED BY <2>1, <2>2, <2>3, <2>4, <2>5, <2>6 DEF FdNext
<1> QED BY <1>1, <1>2, PTL DEF FdSpec

\* When a seek or a transfer is set up, and until it is answered, the first
\* request's drive is selected and spins (setup_rw_floppy, floppy_change).
THEOREM RightDriveHolds == FdSpec => []RightDrive
<1>1. FdInv => RightDrive
  <2> SUFFICES ASSUME FdInv, ~adrift,
                      In("setup_rw_floppy") \/ {"seek_interrupt", "rw_interrupt"} \cap Range(fdc) # {}
               PROVE  /\ fd_queue # <<>> /\ fd.drive = FD_CURRENT.dev
                      /\ DOR.drive = fd.drive /\ fd.drive \in DOR.motors
    BY DEF RightDrive
  <2>1. Right(fd, fd_queue, DOR, moff, fd_timers, fdc) /\ fdc \in Seq(Handlers)
    BY DEF FdInv, FdTypes
  <2>2. Chosen(fd, fd_queue, DOR, moff, 0)
    <3>1. CASE In("setup_rw_floppy")
      BY <2>1, <3>1 DEF Right, OnTheWay, In
    <3>2. CASE {"seek_interrupt", "rw_interrupt"} \cap Range(fdc) # {}
      <4>1. PICK h \in {"seek_interrupt", "rw_interrupt"} : h \in Range(fdc)
        BY <3>2
      <4>2. PICK k \in DOMAIN fdc : fdc[k] = h
        BY <4>1 DEF Range
      <4>3. fdc # <<>> /\ fdc = <<fd.do>>
        BY <2>1, <4>2 DEF Right, OneThing
      <4>4. fd.do = h
        BY <4>2, <4>3
      <4> QED BY <2>1, <4>3, <4>4 DEF Right, OnTheWay
    <3> QED BY <3>1, <3>2
  <2>3. fd_queue # <<>> /\ FD_CURRENT = fd_queue[1]
    BY <2>2, FirstRequest DEF Chosen, Spinning
  <2> QED BY <2>2, <2>3 DEF Chosen, Spinning
<1> QED BY <1>1, FloppyInvariant, PTL

\* The floppy driver's variables have their types, a waiting request no more
\* errors than are allowed, and the motors' times stay within what
\* ticks_to_floppy_on and floppy_off set.
THEOREM FloppyTypes == FdSpec => []FdTypeOK
<1>1. FdInv => FdTypeOK
  <2> SUFFICES ASSUME FdInv PROVE FdTypeOK
    OBVIOUS
  <2>1. /\ fd \in FdState /\ DOR \in [drive : Drives, motors : SUBSET Drives]
        /\ fd_queue \in Seq(FdReqs) /\ mon \in [Drives -> 0 .. TICKS_ON]
        /\ moff \in [Drives -> 0 .. TICKS_BIG]
    BY DEF FdInv, FdTypes
  <2>2. fd.drive \in Drives /\ DOR.drive \in Drives /\ DOR.motors \subseteq Drives
    BY <2>1 DEF FdState
  <2>3. \A i \in DOMAIN fd_queue : fd_queue[i].errors <= FD_MAX_ERRORS
    <3> TAKE i \in DOMAIN fd_queue
    <3>1. fd_queue[i] \in FdReqs
      BY <2>1
    <3>2. fd_queue[i].errors \in 0 .. FD_MAX_ERRORS
      BY <3>1 DEF FdReqs
    <3> QED BY <3>2, FloppyAssumption
  <2>4. Max({TICKS_ON, 2}) = TICKS_ON
    <3>1. TICKS_ON \in Nat /\ TICKS_ON >= 2
      BY FloppyAssumption
    <3>2. \E m \in {TICKS_ON, 2} : \A n \in {TICKS_ON, 2} : n <= m
      BY <3>1
    <3>3. \A x \in {TICKS_ON, 2} : (\A y \in {TICKS_ON, 2} : x >= y) => x = TICKS_ON
      BY <3>1
    <3> QED BY <3>1, <3>2, <3>3 DEF Max
  <2> QED BY <2>1, <2>2, <2>3, <2>4 DEF FdTypeOK
<1> QED BY <1>1, FloppyInvariant, PTL
=============================================================================
