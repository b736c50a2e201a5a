--------------------------- MODULE ServicesProofs ---------------------------
(***************************************************************************)
(* The services below the file system, for all values of the constants: no *)
(* timer is called early, the console shows what the abstract screen shows *)
(* and writes nowhere else, a pipe keeps its types whether or not copies   *)
(* sleep; then the same of the specification that TLC runs, with the types *)
(* of the disk drivers from DiskProofs.                                    *)
(***************************************************************************)
EXTENDS MCServices, PipeProofs, DiskProofs, FiniteSetTheorems

-----------------------------------------------------------------------------
\* Functions defined by recursion over numbers: there is one, for which it is
\* enough that every step G[k, .] stays in D.
Recursive(g, n, c, G) == g = [k \in 0 .. n |-> IF k = 0 THEN c ELSE G[<<k, g[k - 1]>>]]

LEMMA Recursion ==
    ASSUME NEW n \in Nat, NEW D, NEW c \in D, NEW G,
           \A k \in 1 .. n : \A x \in D : G[<<k, x>>] \in D
    PROVE  \E g : Recursive(g, n, c, G) /\ \A k \in 0 .. n : g[k] \in D
<1> DEFINE IsRec(g, m) == Recursive(g, m, c, G) /\ \A k \in 0 .. m : g[k] \in D
<1>1. PICK Bad : Bad = {m \in 0 .. n : ~\E g : IsRec(g, m)}
  OBVIOUS
<1>2. SUFFICES ASSUME Bad # {} PROVE FALSE
  BY <1>1
<1>3. PICK b \in Bad : \A i \in Bad : b <= i
  <2>1. Bad \in SUBSET Nat
    BY <1>1
  <2> QED BY <1>2, <2>1, LeastNat
<1>4. b \in 0 .. n /\ ~\E g : IsRec(g, b)
  BY <1>1
<1>5. b # 0
  <2>1. PICK g : g = [k \in 0 .. 0 |-> c]
    OBVIOUS
  <2>2. IsRec(g, 0)
    BY <2>1 DEF Recursive
  <2> QED BY <1>4, <2>2
<1>6. b - 1 \in 0 .. n /\ b - 1 \notin Bad
  BY <1>3, <1>4, <1>5
<1>7. PICK g : IsRec(g, b - 1)
  BY <1>1, <1>6
<1>8. PICK h : h = [k \in 0 .. b |-> IF k = b THEN G[<<b, g[b - 1]>>] ELSE g[k]]
  OBVIOUS
<1>9. b \in Nat /\ b \in 1 .. n /\ b - 1 \in 0 .. b - 1 /\ b - 1 \in 0 .. b /\ b - 1 # b
  BY <1>4, <1>5
<1>10. \A k \in 0 .. b : h[k] = IF k = 0 THEN c ELSE G[<<k, h[k - 1]>>]
  <2> TAKE k \in 0 .. b
  <2>1. CASE k = b
    BY <1>5, <1>8, <1>9, <2>1
  <2>2. CASE k # b
    <3>1. k \in 0 .. b - 1 /\ (k # 0 => k - 1 \in 0 .. b /\ k - 1 # b)
      BY <1>9, <2>2
    <3>2. g[k] = IF k = 0 THEN c ELSE G[<<k, g[k - 1]>>]
      BY <1>7, <3>1 DEF Recursive
    <3> QED BY <1>8, <2>2, <3>1, <3>2
  <2> QED BY <2>1, <2>2
<1>11. \A k \in 0 .. b : h[k] \in D
  <2> TAKE k \in 0 .. b
  <2>1. CASE k = b
    <3>1. g[b - 1] \in D
      BY <1>7, <1>9
    <3> QED BY <1>8, <1>9, <2>1, <3>1
  <2>2. CASE k # b
    <3>1. k \in 0 .. b - 1
      BY <1>9, <2>2
    <3> QED BY <1>7, <1>8, <2>2, <3>1
  <2> QED BY <2>1, <2>2
<1>12. IsRec(h, b)
  BY <1>8, <1>10, <1>11 DEF Recursive
<1> QED BY <1>4, <1>12

-----------------------------------------------------------------------------
(***************************************************************************)
(* The timer list.                                                         *)
(***************************************************************************)
Timers == [jiffies : Int, due : Int]
Sums(list, n, g) == g = [k \in 0 .. n |-> IF k = 0 THEN 0 ELSE g[k - 1] + list[k].jiffies]

LEMMA SumsExist ==
    ASSUME NEW list \in Seq(Timers), NEW n \in 0 .. Len(list)
    PROVE  \E g : Sums(list, n, g) /\ \A k \in 0 .. n : g[k] \in Int
<1>1. PICK G : G = [a \in (1 .. n) \X Int |-> a[2] + list[a[1]].jiffies]
  OBVIOUS
<1>2. \A k \in 1 .. n : \A x \in Int : G[<<k, x>>] = x + list[k].jiffies
  BY <1>1
<1>3. \A k \in 1 .. n : list[k].jiffies \in Int
  <2> TAKE k \in 1 .. n
  <2>1. k \in 1 .. Len(list)
    OBVIOUS
  <2>2. list[k] \in Timers
    BY <2>1
  <2> QED BY <2>2 DEF Timers
<1>4. \A k \in 1 .. n : \A x \in Int : G[<<k, x>>] \in Int
  <2> TAKE k \in 1 .. n
  <2> TAKE x \in Int
  <2>1. G[<<k, x>>] = x + list[k].jiffies /\ list[k].jiffies \in Int
    BY <1>2, <1>3
  <2> QED BY <2>1
<1>5. PICK g : /\ g = [k \in 0 .. n |-> g[k]] /\ \A k \in 0 .. n : g[k] \in Int
               /\ \A k \in 0 .. n : g[k] = IF k = 0 THEN 0 ELSE G[<<k, g[k - 1]>>]
  <2>1. PICK D, z : D = Int /\ z = 0
    OBVIOUS
  <2>2. n \in Nat /\ z \in D
    BY <2>1
  <2>3. \A k \in 1 .. n : \A x \in D : G[<<k, x>>] \in D
    BY <1>4, <2>1
  <2>4. PICK g : Recursive(g, n, z, G) /\ \A k \in 0 .. n : g[k] \in D
    BY <2>2, <2>3, Recursion
  <2>5. g = [k \in 0 .. n |-> g[k]] /\ \A k \in 0 .. n : g[k] = IF k = 0 THEN 0 ELSE G[<<k, g[k - 1]>>]
    BY <2>1, <2>4 DEF Recursive
  <2> QED BY <2>1, <2>4, <2>5
<1>6. \A k \in 0 .. n : g[k] = IF k = 0 THEN 0 ELSE g[k - 1] + list[k].jiffies
  <2> TAKE k \in 0 .. n
  <2>1. g[k] = IF k = 0 THEN 0 ELSE G[<<k, g[k - 1]>>]
    BY <1>5
  <2>2. CASE k # 0
    <3>1. k \in 1 .. n /\ k - 1 \in 0 .. n
      BY <2>2
    <3> QED BY <1>2, <1>5, <2>1, <2>2, <3>1
  <2> QED BY <2>1, <2>2
<1>7. Sums(list, n, g)
  BY <1>5, <1>6 DEF Sums
<1> QED BY <1>5, <1>7

LEMMA SumsAgree ==
    ASSUME NEW list, NEW n \in Nat, NEW m \in Nat, m <= n,
           NEW g, Sums(list, m, g), NEW h, Sums(list, n, h)
    PROVE  \A k \in 0 .. m : g[k] = h[k]
<1>1. PICK Bad : Bad = {k \in 0 .. m : g[k] # h[k]}
  OBVIOUS
<1>2. SUFFICES ASSUME Bad # {} PROVE FALSE
  BY <1>1
<1>3. PICK b \in Bad : \A i \in Bad : b <= i
  <2>1. Bad \in SUBSET Nat
    BY <1>1
  <2> QED BY <1>2, <2>1, LeastNat
<1>4. b \in 0 .. m /\ b \in 0 .. n /\ g[b] # h[b]
  BY <1>1
<1>5. /\ g[b] = IF b = 0 THEN 0 ELSE g[b - 1] + list[b].jiffies
      /\ h[b] = IF b = 0 THEN 0 ELSE h[b - 1] + list[b].jiffies
  BY <1>4 DEF Sums
<1>6. b # 0
  BY <1>4, <1>5
<1>7. b - 1 \in 0 .. m /\ b - 1 \notin Bad
  BY <1>3, <1>4, <1>6
<1> QED BY <1>1, <1>4, <1>5, <1>7

\* The equations of FiresIn.
LEMMA FiresIs ==
    ASSUME NEW list \in Seq(Timers)
    PROVE  /\ FiresIn(list, 0) = 0
           /\ \A n \in 0 .. Len(list) : FiresIn(list, n) \in Int
           /\ \A n \in 1 .. Len(list) : FiresIn(list, n) = FiresIn(list, n - 1) + list[n].jiffies
<1>1. \A n \in 0 .. Len(list) : \E g : /\ Sums(list, n, g) /\ FiresIn(list, n) = g[n]
                                        /\ \A k \in 0 .. n : g[k] \in Int
  <2> TAKE n \in 0 .. Len(list)
  <2> DEFINE sum == CHOOSE g : g = [k \in 0 .. n |-> IF k = 0 THEN 0 ELSE g[k - 1] + list[k].jiffies]
  <2>1. PICK g : Sums(list, n, g) /\ \A k \in 0 .. n : g[k] \in Int
    BY SumsExist
  <2>2. Sums(list, n, sum)
    BY <2>1 DEF Sums
  <2>3. FiresIn(list, n) = sum[n]
    BY DEF FiresIn
  <2>4. \A k \in 0 .. n : g[k] = sum[k]
    <3>1. n \in Nat /\ n <= n
      OBVIOUS
    <3> HIDE DEF sum
    <3> QED BY <2>1, <2>2, <3>1, SumsAgree
  <2> HIDE DEF sum
  <2> QED BY <2>1, <2>2, <2>3, <2>4
<1>2. FiresIn(list, 0) = 0
  <2>1. 0 \in 0 .. Len(list)
    OBVIOUS
  <2>2. PICK g : Sums(list, 0, g) /\ FiresIn(list, 0) = g[0]
    BY <1>1, <2>1
  <2> QED BY <2>2 DEF Sums
<1>3. \A n \in 0 .. Len(list) : FiresIn(list, n) \in Int
  <2> TAKE n \in 0 .. Len(list)
  <2>1. PICK g : FiresIn(list, n) = g[n] /\ \A k \in 0 .. n : g[k] \in Int
    BY <1>1
  <2>2. n \in 0 .. n
    OBVIOUS
  <2> QED BY <2>1, <2>2
<1>4. \A n \in 1 .. Len(list) : FiresIn(list, n) = FiresIn(list, n - 1) + list[n].jiffies
  <2> TAKE n \in 1 .. Len(list)
  <2>1. /\ n \in Nat /\ n - 1 \in Nat /\ n - 1 <= n /\ n # 0
        /\ n \in 0 .. Len(list) /\ n - 1 \in 0 .. Len(list) /\ n \in 0 .. n /\ n - 1 \in 0 .. n - 1
    OBVIOUS
  <2>2. PICK g : Sums(list, n, g) /\ FiresIn(list, n) = g[n]
    BY <1>1, <2>1
  <2>3. PICK h : Sums(list, n - 1, h) /\ FiresIn(list, n - 1) = h[n - 1]
    BY <1>1, <2>1
  <2>4. h[n - 1] = g[n - 1]
    BY <2>1, <2>2, <2>3, SumsAgree
  <2>5. g[n] = g[n - 1] + list[n].jiffies
    BY <2>1, <2>2 DEF Sums
  <2> QED BY <2>2, <2>3, <2>4, <2>5
<1> QED BY <1>2, <1>3, <1>4

\* No entry of the list fires before it is due.
OnTime(list) == \A n \in 1 .. Len(list) : FiresIn(list, n) >= list[n].due

LEMMA GreatestNat ==
    ASSUME NEW n \in Nat, NEW S \in SUBSET (0 .. n), S # {}
    PROVE  \E x \in S : \A y \in S : y <= x
<1>1. PICK T : T = {n - x : x \in S}
  OBVIOUS
<1>2. T \in SUBSET Nat /\ T # {}
  <2>1. \A x \in S : n - x \in Nat
    OBVIOUS
  <2> QED BY <1>1, <2>1
<1>3. PICK t \in T : \A y \in T : t <= y
  BY <1>2, LeastNat
<1>4. PICK x \in S : t = n - x
  BY <1>1
<1>5. \A y \in S : y <= x
  <2> TAKE y \in S
  <2>1. n - y \in T /\ y \in 0 .. n /\ x \in 0 .. n
    BY <1>1
  <2> QED BY <1>3, <1>4, <2>1
<1> QED BY <1>5

\* The place at which add_timer puts a timer of j ticks: all entries it has
\* passed fire before it.
LEMMA PlaceIs ==
    ASSUME NEW list \in Seq(Timers), NEW j \in Nat \ {0}
    PROVE  \E n \in 0 .. Len(list) :
              /\ FiresIn(list, n) <= j
              /\ Inserted(list, j) = InsertAt(list, n + 1, [jiffies |-> j - FiresIn(list, n), due |-> j])
<1> DEFINE passed == {n \in 0 .. Len(list) :
                        \A k \in 1 .. n : list[k].jiffies < j - FiresIn(list, k - 1)}
           m == CHOOSE n \in passed : \A k \in passed : k <= n
<1>1. passed \in SUBSET (0 .. Len(list)) /\ 0 \in passed /\ Len(list) \in Nat
  OBVIOUS
<1>2. m \in passed
  <2> HIDE DEF passed
  <2>1. \E n \in passed : \A k \in passed : k <= n
    BY <1>1, GreatestNat
  <2> QED BY <2>1
<1>3. Inserted(list, j) = InsertAt(list, m + 1, [jiffies |-> j - FiresIn(list, m), due |-> j])
  BY DEF Inserted
<1>4. PICK n : n = m
  OBVIOUS
<1>5. n \in 0 .. Len(list) /\ \A k \in 1 .. n : list[k].jiffies < j - FiresIn(list, k - 1)
  <2> HIDE DEF m
  <2> QED BY <1>2, <1>4
<1> HIDE DEF m
<1>6. FiresIn(list, n) <= j
  <2>1. CASE n = 0
    BY <2>1, FiresIs
  <2>2. CASE n # 0
    <3>1. n \in 1 .. n /\ n \in 1 .. Len(list) /\ n - 1 \in 0 .. Len(list)
      BY <1>5, <2>2
    <3>2. /\ FiresIn(list, n) = FiresIn(list, n - 1) + list[n].jiffies
          /\ FiresIn(list, n - 1) \in Int /\ list[n] \in Timers
      BY <3>1, FiresIs
    <3>3. list[n].jiffies < j - FiresIn(list, n - 1)
      BY <1>5, <3>1
    <3>4. list[n].jiffies \in Int
      BY <3>2 DEF Timers
    <3> QED BY <3>2, <3>3, <3>4
  <2> QED BY <2>1, <2>2
<1> QED BY <1>3, <1>4, <1>5, <1>6

\* Putting a timer in at place n + 1: those before it keep their times, those
\* behind it fire later, by what is left of the new one when they start.
LEMMA PutInSums ==
    ASSUME NEW list \in Seq(Timers), NEW n \in 0 .. Len(list), NEW e \in Timers,
           NEW s \in Seq(Timers), Len(s) = Len(list) + 1, PutIn(s, list, n + 1, e)
    PROVE  \A k \in 0 .. Len(s) : FiresIn(s, k) = IF k <= n THEN FiresIn(list, k)
                                                  ELSE FiresIn(list, k - 1) + e.jiffies
<1>1. PICK Bad : Bad = {k \in 0 .. Len(s) : FiresIn(s, k) # IF k <= n THEN FiresIn(list, k)
                                                           ELSE FiresIn(list, k - 1) + e.jiffies}
  OBVIOUS
<1>2. SUFFICES ASSUME Bad # {} PROVE FALSE
  BY <1>1
<1>3. PICK b \in Bad : \A i \in Bad : b <= i
  <2>1. Bad \in SUBSET Nat
    BY <1>1
  <2> QED BY <1>2, <2>1, LeastNat
<1>4. /\ b \in 0 .. Len(s) /\ Len(list) \in Nat /\ n \in Nat
      /\ FiresIn(s, b) # IF b <= n THEN FiresIn(list, b) ELSE FiresIn(list, b - 1) + e.jiffies
  BY <1>1
<1>5. b # 0
  <2>1. FiresIn(s, 0) = 0 /\ FiresIn(list, 0) = 0
    BY FiresIs
  <2> QED BY <1>4, <2>1
<1>6. b \in 1 .. Len(s) /\ b - 1 \in 0 .. Len(s) /\ b - 1 \notin Bad
  BY <1>3, <1>4, <1>5
<1>7. FiresIn(s, b - 1) = IF b - 1 <= n THEN FiresIn(list, b - 1)
                          ELSE FiresIn(list, (b - 1) - 1) + e.jiffies
  BY <1>1, <1>6
<1>8. FiresIn(s, b) = FiresIn(s, b - 1) + s[b].jiffies
  BY <1>6, FiresIs
<1>9. s[b] = IF b < n + 1 THEN list[b] ELSE IF b = n + 1 THEN e ELSE list[b - 1]
  BY <1>6 DEF PutIn
<1>10. CASE b <= n
  <2>1. b \in 1 .. Len(list) /\ b < n + 1 /\ b - 1 <= n
    BY <1>4, <1>6, <1>10
  <2>2. FiresIn(list, b) = FiresIn(list, b - 1) + list[b].jiffies
    BY <2>1, FiresIs
  <2> QED BY <1>4, <1>7, <1>8, <1>9, <1>10, <2>1, <2>2
<1>11. CASE b = n + 1
  <2>1. b - 1 <= n /\ ~(b < n + 1) /\ ~(b <= n)
    BY <1>4, <1>11
  <2> QED BY <1>4, <1>7, <1>8, <1>9, <1>11, <2>1
<1>12. CASE b > n + 1
  <2>1. /\ b - 1 \in 1 .. Len(list) /\ ~(b < n + 1) /\ ~(b <= n) /\ b # n + 1 /\ ~(b - 1 <= n)
        /\ (b - 1) - 1 \in 0 .. Len(list)
    BY <1>4, <1>6, <1>12
  <2>2. FiresIn(list, b - 1) = FiresIn(list, (b - 1) - 1) + list[b - 1].jiffies
    BY <2>1, FiresIs
  <2>3. /\ FiresIn(list, (b - 1) - 1) \in Int /\ list[b - 1].jiffies \in Int /\ e.jiffies \in Int
    <3>1. list[b - 1] \in Timers
      BY <2>1
    <3> QED BY <2>1, <3>1, FiresIs DEF Timers
  <2>4. PICK x, y, z : x = FiresIn(list, (b - 1) - 1) /\ y = list[b - 1].jiffies /\ z = e.jiffies
    OBVIOUS
  <2>5. FiresIn(s, b) = (x + z) + y
    BY <1>7, <1>8, <1>9, <2>1, <2>4
  <2>6. FiresIn(list, b - 1) + e.jiffies = (x + y) + z
    BY <2>2, <2>4
  <2>7. (x + z) + y = (x + y) + z
    BY <2>3, <2>4
  <2> QED BY <1>4, <2>1, <2>5, <2>6, <2>7
<1> QED BY <1>4, <1>6, <1>10, <1>11, <1>12

LEMMA InsertedOnTime ==
    ASSUME NEW list \in Seq(Timers), OnTime(list), NEW j \in Nat
    PROVE  AddTimer(list, j) \in Seq(Timers) /\ OnTime(AddTimer(list, j))
<1>1. CASE j = 0
  BY <1>1 DEF AddTimer
<1>2. CASE j # 0
  <2>1. PICK n \in 0 .. Len(list) :
           /\ FiresIn(list, n) <= j
           /\ Inserted(list, j) = InsertAt(list, n + 1, [jiffies |-> j - FiresIn(list, n), due |-> j])
    BY <1>2, PlaceIs
  <2>2. PICK e : e = [jiffies |-> j - FiresIn(list, n), due |-> j]
    OBVIOUS
  <2>3. FiresIn(list, n) \in Int /\ Len(list) \in Nat /\ n + 1 \in 1 .. Len(list) + 1
    BY FiresIs
  <2>4. e \in Timers /\ e.jiffies = j - FiresIn(list, n) /\ e.due = j /\ e.jiffies >= 0
    BY <2>1, <2>2, <2>3 DEF Timers
  <2>5. PICK s : s = InsertAt(list, n + 1, e)
    OBVIOUS
  <2>6. s \in Seq(Timers) /\ Len(s) = Len(list) + 1 /\ PutIn(s, list, n + 1, e)
    BY <2>3, <2>4, <2>5, InsertAtIs
  <2>7. \A k \in 0 .. Len(s) : FiresIn(s, k) = IF k <= n THEN FiresIn(list, k)
                                               ELSE FiresIn(list, k - 1) + e.jiffies
    BY <2>4, <2>6, PutInSums
  <2>8. OnTime(s)
    <3> SUFFICES ASSUME NEW k \in 1 .. Len(s) PROVE FiresIn(s, k) >= s[k].due
      BY DEF OnTime
    <3>1. s[k] = IF k < n + 1 THEN list[k] ELSE IF k = n + 1 THEN e ELSE list[k - 1]
      BY <2>6 DEF PutIn
    <3>2. k \in 0 .. Len(s)
      OBVIOUS
    <3>3. CASE k < n + 1
      <4>1. k \in 1 .. Len(list) /\ k <= n
        BY <2>3, <3>3
      <4> QED BY <2>7, <3>1, <3>2, <3>3, <4>1 DEF OnTime
    <3>4. CASE k = n + 1
      <4>1. ~(k <= n) /\ ~(k < n + 1) /\ k - 1 = n
        BY <3>4
      <4>2. FiresIn(s, k) = FiresIn(list, n) + e.jiffies /\ s[k].due = j
        BY <2>4, <2>7, <3>1, <3>2, <3>4, <4>1
      <4> QED BY <2>3, <2>4, <4>2
    <3>5. CASE k > n + 1
      <4>1. /\ k - 1 \in 1 .. Len(list) /\ ~(k <= n) /\ ~(k < n + 1) /\ k # n + 1
            /\ k - 1 \in 0 .. Len(list)
        BY <2>3, <2>6, <3>5
      <4>2. FiresIn(s, k) = FiresIn(list, k - 1) + e.jiffies /\ s[k] = list[k - 1]
        BY <2>7, <3>1, <3>2, <4>1
      <4>3. FiresIn(list, k - 1) \in Int /\ list[k - 1] \in Timers /\ FiresIn(list, k - 1) >= list[k - 1].due
        BY <4>1, FiresIs DEF OnTime
      <4>4. list[k - 1].due \in Int /\ e.jiffies \in Int
        BY <2>4, <4>3 DEF Timers
      <4> QED BY <2>4, <4>2, <4>3, <4>4
    <3> QED BY <3>3, <3>4, <3>5
  <2>9. AddTimer(list, j) = s
    BY <1>2, <2>1, <2>2, <2>5 DEF AddTimer
  <2> QED BY <2>6, <2>8, <2>9
<1> QED BY <1>1, <1>2

-----------------------------------------------------------------------------
\* The first entry loses a tick, and all that are behind it with it.
LEMMA TickSums ==
    ASSUME NEW list \in Seq(Timers),
           NEW s, s = [i \in DOMAIN list |->
                        [jiffies |-> IF i = 1 THEN list[i].jiffies - 1 ELSE list[i].jiffies,
                         due |-> list[i].due - 1]]
    PROVE  /\ s \in Seq(Timers) /\ Len(s) = Len(list)
           /\ \A k \in 1 .. Len(s) : /\ FiresIn(s, k) = FiresIn(list, k) - 1
                                      /\ s[k].due = list[k].due - 1
<1>1. Len(list) \in Nat /\ DOMAIN list = 1 .. Len(list)
  OBVIOUS
<1>2. \A i \in 1 .. Len(list) : /\ s[i] \in Timers /\ s[i].due = list[i].due - 1
                                /\ s[i].jiffies = IF i = 1 THEN list[i].jiffies - 1 ELSE list[i].jiffies
  <2> TAKE i \in 1 .. Len(list)
  <2>1. list[i] \in Timers
    OBVIOUS
  <2>2. list[i].jiffies \in Int /\ list[i].due \in Int
    BY <2>1 DEF Timers
  <2>3. s[i] = [jiffies |-> IF i = 1 THEN list[i].jiffies - 1 ELSE list[i].jiffies,
                due |-> list[i].due - 1]
    BY <1>1
  <2> QED BY <2>2, <2>3 DEF Timers
<1>3. s \in Seq(Timers) /\ Len(s) = Len(list)
  <2>1. s \in [1 .. Len(list) -> Timers]
    BY <1>1, <1>2
  <2> QED BY <1>1, <2>1
<1>4. PICK Bad : Bad = {k \in 1 .. Len(s) : FiresIn(s, k) # FiresIn(list, k) - 1}
  OBVIOUS
<1>5. ASSUME Bad # {} PROVE FALSE
  <2>1. PICK b \in Bad : \A i \in Bad : b <= i
    <3>1. Bad \in SUBSET Nat
      BY <1>4
    <3> QED BY <1>5, <3>1, LeastNat
  <2>2. b \in 1 .. Len(s) /\ FiresIn(s, b) # FiresIn(list, b) - 1 /\ b - 1 \in 0 .. Len(list)
    BY <1>1, <1>3, <1>4
  <2>3. /\ FiresIn(s, b) = FiresIn(s, b - 1) + s[b].jiffies
        /\ FiresIn(list, b) = FiresIn(list, b - 1) + list[b].jiffies
        /\ FiresIn(list, b - 1) \in Int
    BY <1>3, <2>2, FiresIs
  <2>4. list[b].jiffies \in Int
    <3>1. list[b] \in Timers
      BY <1>3, <2>2
    <3> QED BY <3>1 DEF Timers
  <2>5. CASE b = 1
    <3>1. FiresIn(s, b - 1) = 0 /\ FiresIn(list, b - 1) = 0 /\ s[b].jiffies = list[b].jiffies - 1
      BY <1>2, <1>3, <2>2, <2>5, FiresIs
    <3> QED BY <2>2, <2>3, <2>4, <3>1
  <2>6. CASE b # 1
    <3>1. b - 1 \in 1 .. Len(s) /\ b - 1 \notin Bad
      BY <2>1, <2>2, <2>6
    <3>2. FiresIn(s, b - 1) = FiresIn(list, b - 1) - 1 /\ s[b].jiffies = list[b].jiffies
      BY <1>2, <1>3, <1>4, <2>2, <2>6, <3>1
    <3> QED BY <2>2, <2>3, <2>4, <3>2
  <2> QED BY <2>5, <2>6
<1> QED BY <1>2, <1>3, <1>4, <1>5

\* Without its first entry, which has run out, the others fire no earlier.
LEMMA TailSums ==
    ASSUME NEW list \in Seq(Timers), list # <<>>, list[1].jiffies <= 0
    PROVE  /\ Tail(list) \in Seq(Timers) /\ Len(Tail(list)) = Len(list) - 1
           /\ \A k \in 1 .. Len(Tail(list)) : /\ FiresIn(Tail(list), k) >= FiresIn(list, k + 1)
                                              /\ Tail(list)[k] = list[k + 1]
<1>1. PICK s : s = Tail(list)
  OBVIOUS
<1>2. /\ Len(list) \in Nat \ {0} /\ s \in Seq(Timers) /\ Len(s) = Len(list) - 1
      /\ \A k \in 1 .. Len(s) : s[k] = list[k + 1]
  BY <1>1
<1>3. list[1].jiffies \in Int
  <2>1. list[1] \in Timers
    BY <1>2
  <2> QED BY <2>1 DEF Timers
<1>4. PICK Bad : Bad = {k \in 0 .. Len(s) : FiresIn(s, k) # FiresIn(list, k + 1) - list[1].jiffies}
  OBVIOUS
<1>5. ASSUME Bad # {} PROVE FALSE
  <2>1. PICK b \in Bad : \A i \in Bad : b <= i
    <3>1. Bad \in SUBSET Nat
      BY <1>4
    <3> QED BY <1>5, <3>1, LeastNat
  <2>2. /\ b \in 0 .. Len(s) /\ FiresIn(s, b) # FiresIn(list, b + 1) - list[1].jiffies
        /\ b + 1 \in 1 .. Len(list) /\ (b + 1) - 1 = b /\ b \in 0 .. Len(list)
    BY <1>2, <1>4
  <2>3. /\ FiresIn(list, b + 1) = FiresIn(list, b) + list[b + 1].jiffies
        /\ FiresIn(list, b) \in Int
    BY <2>2, FiresIs
  <2>4. list[b + 1].jiffies \in Int
    <3>1. list[b + 1] \in Timers
      BY <2>2
    <3> QED BY <3>1 DEF Timers
  <2>5. CASE b = 0
    <3>1. FiresIn(s, b) = 0 /\ FiresIn(list, b) = 0 /\ b + 1 = 1
      BY <1>2, <2>5, FiresIs
    <3> QED BY <1>3, <2>2, <2>3, <3>1
  <2>6. CASE b # 0
    <3>1. b - 1 \in 0 .. Len(s) /\ b - 1 \notin Bad /\ b \in 1 .. Len(s) /\ (b - 1) + 1 = b
      BY <2>1, <2>2, <2>6, SMTT(30)
    <3>2. FiresIn(s, b - 1) = FiresIn(list, b) - list[1].jiffies
      BY <1>4, <3>1
    <3>3. FiresIn(s, b) = FiresIn(s, b - 1) + list[b + 1].jiffies
      BY <1>2, <3>1, FiresIs
    <3> QED BY <1>3, <2>2, <2>3, <2>4, <3>2, <3>3
  <2> QED BY <2>5, <2>6
<1>6. \A k \in 1 .. Len(s) : FiresIn(s, k) >= FiresIn(list, k + 1)
  <2> TAKE k \in 1 .. Len(s)
  <2>1. k \in 0 .. Len(s) /\ k + 1 \in 0 .. Len(list)
    BY <1>2
  <2>2. FiresIn(s, k) = FiresIn(list, k + 1) - list[1].jiffies /\ FiresIn(list, k + 1) \in Int
    BY <1>4, <1>5, <2>1, FiresIs
  <2> QED BY <1>3, <2>2
<1> QED BY <1>1, <1>2, <1>6

\* The list holds numbers of jiffies, and each entry waits long enough.
TimerInv == timers \in Seq(Timers) /\ NeverEarly
TimerSpec == TimerInit /\ [][TimerNext]_timerVars

LEMMA TimerInvIs == TimerInv <=> timers \in Seq(Timers) /\ ~early /\ OnTime(timers)
  BY DEF TimerInv, NeverEarly, OnTime

LEMMA FireKeeps ==
    ASSUME TimerInv, fire
    PROVE  TimerInv'
<1>1. /\ timers \in Seq(Timers) /\ ~early /\ OnTime(timers) /\ timers # <<>>
      /\ timers[1].jiffies <= 0 /\ 1 \in 1 .. Len(timers) /\ 1 \in 0 .. Len(timers) /\ 1 - 1 = 0
  BY TimerInvIs DEF fire
<1>2. timers[1].due <= 0
  <2>1. FiresIn(timers, 1) = timers[1].jiffies
    <3>1. FiresIn(timers, 1) = FiresIn(timers, 0) + timers[1].jiffies /\ FiresIn(timers, 0) = 0
      BY <1>1, FiresIs
    <3>2. timers[1] \in Timers
      BY <1>1
    <3>3. timers[1].jiffies \in Int
      BY <3>2 DEF Timers
    <3> QED BY <3>1, <3>3
  <2>2. FiresIn(timers, 1) >= timers[1].due
    BY <1>1 DEF OnTime
  <2>3. timers[1] \in Timers
    BY <1>1
  <2>4. timers[1].jiffies \in Int /\ timers[1].due \in Int
    BY <2>3 DEF Timers
  <2> QED BY <1>1, <2>1, <2>2, <2>4
<1>3. ~early'
  <2>1. early' = (early \/ timers[1].due > 0)
    BY <1>1 DEF fire
  <2>2. timers[1].due \in Int
    <3>1. timers[1] \in Timers
      BY <1>1
    <3> QED BY <3>1 DEF Timers
  <2>3. ~(timers[1].due > 0)
    BY <1>2, <2>2
  <2> QED BY <1>1, <2>1, <2>3, Zenon
<1>4. PICK s : s = Tail(timers)
  OBVIOUS
<1>5. s \in Seq(Timers) /\ OnTime(s)
  <2>1. /\ s \in Seq(Timers) /\ Len(s) = Len(timers) - 1
        /\ \A k \in 1 .. Len(s) : FiresIn(s, k) >= FiresIn(timers, k + 1) /\ s[k] = timers[k + 1]
    BY <1>1, <1>4, TailSums
  <2>2. ASSUME NEW k \in 1 .. Len(s) PROVE FiresIn(s, k) >= s[k].due
    <3>1. k + 1 \in 1 .. Len(timers) /\ k + 1 \in 0 .. Len(timers) /\ k \in 0 .. Len(s)
      BY <1>1, <2>1
    <3>2. FiresIn(timers, k + 1) >= timers[k + 1].due
      BY <1>1, <3>1 DEF OnTime
    <3>3. FiresIn(timers, k + 1) \in Int /\ FiresIn(s, k) \in Int /\ timers[k + 1] \in Timers
      BY <1>1, <2>1, <3>1, FiresIs
    <3>4. timers[k + 1].due \in Int
      BY <3>3 DEF Timers
    <3> QED BY <2>1, <3>2, <3>3, <3>4
  <2> QED BY <2>1, <2>2 DEF OnTime
<1>6. timers' \in Seq(Timers) /\ OnTime(timers')
  <2>1. timers' = s \/ \E j \in 0 .. MaxJiffies : timers' = AddTimer(s, j)
    BY <1>4 DEF fire
  <2>2. \A j \in 0 .. MaxJiffies : j \in Nat
    OBVIOUS
  <2> QED BY <1>5, <2>1, <2>2, InsertedOnTime
<1>7. NeverEarly'
  BY <1>3, <1>6 DEF NeverEarly, OnTime
<1> QED BY <1>6, <1>7 DEF TimerInv

LEMMA TimerNextKeeps ==
    ASSUME TimerInv, [TimerNext]_timerVars
    PROVE  TimerInv'
<1>1. timers \in Seq(Timers) /\ ~early /\ OnTime(timers)
  BY TimerInvIs
<1>2. CASE add_timer
  <2>1. early' = early /\ \E j \in 0 .. MaxJiffies : timers' = AddTimer(timers, j)
    BY <1>2 DEF add_timer
  <2>2. timers' \in Seq(Timers) /\ OnTime(timers')
    <3>1. \A j \in 0 .. MaxJiffies : j \in Nat
      OBVIOUS
    <3> QED BY <1>1, <2>1, <3>1, InsertedOnTime
  <2>3. NeverEarly'
    BY <1>1, <2>1, <2>2 DEF NeverEarly, OnTime
  <2> QED BY <2>2, <2>3 DEF TimerInv
<1>3. CASE tick
  <2>1. PICK list, s : list = timers /\ s = timers'
    OBVIOUS
  <2>2. early' = early /\ s = [i \in DOMAIN list |->
                        [jiffies |-> IF i = 1 THEN list[i].jiffies - 1 ELSE list[i].jiffies,
                         due |-> list[i].due - 1]]
    BY <1>3, <2>1 DEF tick
  <2>7. list \in Seq(Timers)
    BY <1>1, <2>1
  <2>3. /\ s \in Seq(Timers) /\ Len(s) = Len(list)
        /\ \A k \in 1 .. Len(s) : FiresIn(s, k) = FiresIn(list, k) - 1 /\ s[k].due = list[k].due - 1
    BY <2>2, <2>7, TickSums, Zenon
  <2>4. ASSUME NEW k \in 1 .. Len(s) PROVE FiresIn(s, k) >= s[k].due
    <3>1. k \in 1 .. Len(list) /\ k \in 0 .. Len(list)
      BY <2>3
    <3>2. FiresIn(list, k) >= list[k].due /\ FiresIn(list, k) \in Int /\ list[k] \in Timers
      BY <1>1, <2>1, <3>1, FiresIs DEF OnTime
    <3>3. list[k].due \in Int
      BY <3>2 DEF Timers
    <3> QED BY <2>3, <3>2, <3>3
  <2>5. OnTime(s)
    BY <2>4 DEF OnTime
  <2>6. NeverEarly'
    BY <1>1, <2>1, <2>2, <2>3, <2>5 DEF NeverEarly, OnTime
  <2> QED BY <2>1, <2>3, <2>6 DEF TimerInv
<1>4. CASE tick_ends \/ UNCHANGED timerVars
  <2>1. timers' = timers /\ early' = early
    BY <1>4 DEF tick_ends, timerVars
  <2> QED BY <2>1 DEF TimerInv, NeverEarly
<1> QED BY <1>2, <1>3, <1>4, FireKeeps DEF TimerNext

\* No timer fires before its time, wherever add_timer put it and whatever was
\* put in front of it or fired since: for any length of the list, any times and
\* any number of calls, also from within a timer's function.
THEOREM TimersNeverEarly == TimerSpec => []NeverEarly
<1>1. TimerInit => TimerInv
  <2> SUFFICES ASSUME TimerInit PROVE TimerInv
    OBVIOUS
  <2>1. timers = <<>> /\ ~early
    BY DEF TimerInit
  <2> QED BY <2>1 DEF TimerInv, NeverEarly
<1>2. TimerInv /\ [TimerNext]_timerVars => TimerInv'
  BY TimerNextKeeps
<1>3. TimerInv => NeverEarly
  BY DEF TimerInv
<1> QED BY <1>1, <1>2, <1>3, PTL DEF TimerSpec

-----------------------------------------------------------------------------
(***************************************************************************)
(* The console.                                                            *)
(***************************************************************************)
\* Rows of a screen.
LEMMA RowsAre ==
    /\ video_num_columns \in Nat /\ video_num_columns >= 2
    /\ video_num_lines \in Nat /\ video_num_lines >= 2
    /\ ScreenSize \in Nat /\ ScreenSize >= video_num_columns /\ ScreenSize <= VideoCells
    /\ VideoCells \in Nat
    /\ 0 * video_num_columns = 0 /\ video_num_lines * video_num_columns = ScreenSize
<1>1. /\ video_num_columns \in Nat \ {0} /\ video_num_lines \in Nat \ {0, 1}
      /\ video_num_columns % 2 = 0 /\ VideoCells \in Nat
      /\ VideoCells >= video_num_columns * video_num_lines
  BY ConsoleAssumption
<1>2. PICK C, L : C = video_num_columns /\ L = video_num_lines
  OBVIOUS
<1>3. C \in Nat /\ C >= 2 /\ L \in Nat /\ L >= 2
  BY <1>1, <1>2
<1>4. PICK S \in Nat : S = L * C
  BY <1>3
<1>5. S >= C
  BY <1>3, <1>4
<1>6. C * L = L * C
  BY <1>3
<1> QED BY <1>1, <1>2, <1>3, <1>4, <1>5, <1>6 DEF ScreenSize

\* Row r, for r from 0 to the row behind the last.
LEMMA RowIs ==
    ASSUME NEW r \in 0 .. video_num_lines
    PROVE  /\ r * video_num_columns \in Nat
           /\ r * video_num_columns <= ScreenSize
           /\ (r + 1) * video_num_columns = r * video_num_columns + video_num_columns
           /\ (r # 0 => r * video_num_columns >= video_num_columns)
<1>1. PICK C, L : C = video_num_columns /\ L = video_num_lines /\ C \in Nat /\ L \in Nat /\ r \in Nat /\ r <= L
  BY RowsAre
<1>2. r * C \in Nat /\ (r + 1) * C = r * C + C
  BY <1>1
<1>3. PICK d \in Nat : L = r + d
  <2>1. L - r \in Nat /\ L = r + (L - r)
    BY <1>1
  <2> QED BY <2>1
<1>4. L * C = r * C + d * C /\ d * C \in Nat
  BY <1>1, <1>3
<1>5. r * C <= L * C
  BY <1>2, <1>4
<1>6. r # 0 => r * C >= C
  <2> SUFFICES ASSUME r # 0 PROVE r * C >= C
    OBVIOUS
  <2>1. PICK k \in Nat : r = k + 1
    <3>1. r - 1 \in Nat /\ r = (r - 1) + 1
      BY <1>1
    <3> QED BY <3>1
  <2>2. r * C = k * C + C /\ k * C \in Nat
    BY <1>1, <2>1
  <2> QED BY <1>1, <2>2
<1> QED BY <1>1, <1>2, <1>5, <1>6, RowsAre

LEMMA RowsBetween ==
    ASSUME NEW r \in 0 .. video_num_lines, NEW s \in 0 .. video_num_lines, r < s
    PROVE  /\ r * video_num_columns + video_num_columns <= s * video_num_columns
           /\ (s - r - 1) * video_num_columns
                = s * video_num_columns - r * video_num_columns - video_num_columns
<1>1. PICK C, L : C = video_num_columns /\ L = video_num_lines /\ C \in Nat /\ L \in Nat /\ r \in Nat /\ s \in Nat
  BY RowsAre
<1>2. PICK d \in Nat : d = s - r - 1
  <2>1. s - r - 1 \in Nat
    BY <1>1
  <2> QED BY <2>1
<1>3. s = r + 1 + d
  BY <1>1, <1>2
<1>4. s * C = (r + 1 + d) * C
  BY <1>3
<1>5. (r + 1 + d) * C = r * C + C + d * C /\ r * C \in Nat /\ d * C \in Nat
  BY <1>1
<1>6. r * C + C <= s * C /\ d * C = s * C - r * C - C
  BY <1>1, <1>4, <1>5
<1> QED BY <1>1, <1>2, <1>6

-----------------------------------------------------------------------------
\* The video memory, and the screen in it: the cells from o on.
Videos == [VideoMem -> Attributes]
Cells(v, o) == [k \in 0 .. ScreenSize - 1 |-> v[o + k]]

ShiftLeft(u, a, b, n) ==
    [k \in 0 .. ScreenSize - 1 |-> IF k < a \/ k >= b THEN u[k]
                                   ELSE IF k + n < b THEN u[k + n] ELSE video_erase_char]
ShiftRight(u, a, b, n) ==
    [k \in 0 .. ScreenSize - 1 |-> IF k < a \/ k >= b THEN u[k]
                                   ELSE IF k - n >= a THEN u[k - n] ELSE video_erase_char]

LEMMA ErasedIs ==
    ASSUME NEW v \in Videos, NEW s \in Int, NEW n \in Int, n >= 0, Inside(s, n)
    PROVE  /\ Erased(v, s, n) \in Videos
           /\ \A i \in VideoMem : Erased(v, s, n)[i] = IF s <= i /\ i < s + n THEN video_erase_char ELSE v[i]
<1>1. Erased(v, s, n) = [i \in VideoMem |-> IF s <= i /\ i < s + n THEN video_erase_char ELSE v[i]]
  BY DEF Erased
<1>2. video_erase_char \in Attributes
  BY DEF video_erase_char, Attributes
<1>3. \A i \in VideoMem : v[i] \in Attributes
  BY DEF Videos
<1> QED BY <1>1, <1>2, <1>3 DEF Videos

LEMMA MovedIs ==
    ASSUME NEW v \in Videos, NEW s \in Int, NEW t \in Int, NEW n \in Int, n >= 0, Inside(s, n), Inside(t, n)
    PROVE  /\ Moved(v, s, t, n) \in Videos
           /\ \A i \in VideoMem : Moved(v, s, t, n)[i] = IF t <= i /\ i < t + n THEN v[s + i - t] ELSE v[i]
<1>1. Moved(v, s, t, n) = [i \in VideoMem |-> IF t <= i /\ i < t + n THEN v[s + i - t] ELSE v[i]]
  BY DEF Moved
<1>2. \A i \in VideoMem : v[i] \in Attributes
  BY DEF Videos
<1>3. \A i \in VideoMem : t <= i /\ i < t + n => s + i - t \in VideoMem
  <2> SUFFICES ASSUME NEW i \in VideoMem, t <= i, i < t + n PROVE s + i - t \in VideoMem
    OBVIOUS
  <2>1. i \in Int /\ n # 0
    BY DEF VideoMem
  <2>2. s >= 0 /\ s + n <= VideoCells
    BY <2>1 DEF Inside
  <2> QED BY <2>1, <2>2, RowsAre DEF VideoMem
<1>4. \A i \in VideoMem : (IF t <= i /\ i < t + n THEN v[s + i - t] ELSE v[i]) \in Attributes
  BY <1>2, <1>3
<1> QED BY <1>1, <1>4 DEF Videos

\* n cells are taken out of the span from a to b of the screen at o ...
LEMMA CellsLeft ==
    ASSUME NEW v \in Videos, NEW o \in Nat, o + ScreenSize <= VideoCells,
           NEW a \in Nat, NEW b \in Nat, NEW n \in Nat, a + n <= b, b <= ScreenSize,
           NEW m, m = b - a - n, NEW w, w = Erased(Moved(v, o + a + n, o + a, m), o + b - n, n)
    PROVE  w \in Videos /\ Cells(w, o) = ShiftLeft(Cells(v, o), a, b, n)
<1>1. m \in Nat /\ ScreenSize \in Nat /\ VideoCells \in Nat
  BY RowsAre
<1>2. PICK u : u = Moved(v, o + a + n, o + a, m)
  OBVIOUS
<1>3. /\ o + a + n \in Int /\ o + a \in Int /\ o + b - n \in Int /\ m \in Int /\ m >= 0 /\ n \in Int /\ n >= 0
      /\ Inside(o + a + n, m) /\ Inside(o + a, m) /\ Inside(o + b - n, n)
  BY <1>1 DEF Inside
<1>4. /\ u \in Videos
      /\ \A i \in VideoMem : u[i] = IF o + a <= i /\ i < (o + a) + m THEN v[(o + a + n) + i - (o + a)] ELSE v[i]
  BY <1>2, <1>3, MovedIs
<1>5. /\ w \in Videos
      /\ \A i \in VideoMem : w[i] = IF o + b - n <= i /\ i < (o + b - n) + n THEN video_erase_char ELSE u[i]
  BY <1>2, <1>3, <1>4, ErasedIs
<1>6. ASSUME NEW k \in 0 .. ScreenSize - 1
      PROVE  Cells(w, o)[k] = ShiftLeft(Cells(v, o), a, b, n)[k]
  <2>1. Cells(w, o)[k] = w[o + k] /\ Cells(v, o)[k] = v[o + k]
    BY DEF Cells
  <2>2. ShiftLeft(Cells(v, o), a, b, n)[k]
           = IF k < a \/ k >= b THEN Cells(v, o)[k]
             ELSE IF k + n < b THEN Cells(v, o)[k + n] ELSE video_erase_char
    BY DEF ShiftLeft
  <2>3. o + k \in VideoMem /\ k \in Nat
    BY <1>1 DEF VideoMem
  <2>4. CASE k < a \/ k >= b
    <3>1. /\ ~(o + b - n <= o + k /\ o + k < (o + b - n) + n)
          /\ ~(o + a <= o + k /\ o + k < (o + a) + m)
      BY <2>3, <2>4
    <3> QED BY <1>4, <1>5, <2>1, <2>2, <2>3, <2>4, <3>1
  <2>5. CASE ~(k < a \/ k >= b) /\ k + n < b
    <3>1. /\ ~(o + b - n <= o + k /\ o + k < (o + b - n) + n)
          /\ o + a <= o + k /\ o + k < (o + a) + m
          /\ (o + a + n) + (o + k) - (o + a) = o + (k + n) /\ k + n \in 0 .. ScreenSize - 1
      BY <1>1, <2>3, <2>5
    <3>2. Cells(v, o)[k + n] = v[o + (k + n)]
      BY <3>1 DEF Cells
    <3> QED BY <1>4, <1>5, <2>1, <2>2, <2>3, <2>5, <3>1, <3>2
  <2>6. CASE ~(k < a \/ k >= b) /\ ~(k + n < b)
    <3>1. o + b - n <= o + k /\ o + k < (o + b - n) + n
      BY <2>3, <2>6
    <3> QED BY <1>5, <2>1, <2>2, <2>3, <2>6, <3>1
  <2> QED BY <2>4, <2>5, <2>6
<1> QED BY <1>5, <1>6 DEF Cells, ShiftLeft

\* ... or put in.
LEMMA CellsRight ==
    ASSUME NEW v \in Videos, NEW o \in Nat, o + ScreenSize <= VideoCells,
           NEW a \in Nat, NEW b \in Nat, NEW n \in Nat, a + n <= b, b <= ScreenSize,
           NEW m, m = b - a - n, NEW w, w = Erased(Moved(v, o + a, o + a + n, m), o + a, n)
    PROVE  w \in Videos /\ Cells(w, o) = ShiftRight(Cells(v, o), a, b, n)
<1>1. m \in Nat /\ ScreenSize \in Nat /\ VideoCells \in Nat
  BY RowsAre
<1>2. PICK u : u = Moved(v, o + a, o + a + n, m)
  OBVIOUS
<1>3. /\ o + a + n \in Int /\ o + a \in Int /\ m \in Int /\ m >= 0 /\ n \in Int /\ n >= 0
      /\ Inside(o + a, m) /\ Inside(o + a + n, m) /\ Inside(o + a, n)
  BY <1>1 DEF Inside
<1>4. /\ u \in Videos
      /\ \A i \in VideoMem : u[i] = IF o + a + n <= i /\ i < (o + a + n) + m
                                    THEN v[(o + a) + i - (o + a + n)] ELSE v[i]
  BY <1>2, <1>3, MovedIs
<1>5. /\ w \in Videos
      /\ \A i \in VideoMem : w[i] = IF o + a <= i /\ i < (o + a) + n THEN video_erase_char ELSE u[i]
  BY <1>2, <1>3, <1>4, ErasedIs
<1>6. ASSUME NEW k \in 0 .. ScreenSize - 1
      PROVE  Cells(w, o)[k] = ShiftRight(Cells(v, o), a, b, n)[k]
  <2>1. Cells(w, o)[k] = w[o + k] /\ Cells(v, o)[k] = v[o + k]
    BY DEF Cells
  <2>2. ShiftRight(Cells(v, o), a, b, n)[k]
           = IF k < a \/ k >= b THEN Cells(v, o)[k]
             ELSE IF k - n >= a THEN Cells(v, o)[k - n] ELSE video_erase_char
    BY DEF ShiftRight
  <2>3. o + k \in VideoMem /\ k \in Nat
    BY <1>1 DEF VideoMem
  <2>4. CASE k < a \/ k >= b
    <3>1. /\ ~(o + a <= o + k /\ o + k < (o + a) + n)
          /\ ~(o + a + n <= o + k /\ o + k < (o + a + n) + m)
      BY <2>3, <2>4
    <3> QED BY <1>4, <1>5, <2>1, <2>2, <2>3, <2>4, <3>1
  <2>5. CASE ~(k < a \/ k >= b) /\ k - n >= a
    <3>1. /\ ~(o + a <= o + k /\ o + k < (o + a) + n)
          /\ o + a + n <= o + k /\ o + k < (o + a + n) + m
          /\ (o + a) + (o + k) - (o + a + n) = o + (k - n) /\ k - n \in 0 .. ScreenSize - 1
      BY <1>1, <2>3, <2>5
    <3>2. Cells(v, o)[k - n] = v[o + (k - n)]
      BY <3>1 DEF Cells
    <3> QED BY <1>4, <1>5, <2>1, <2>2, <2>3, <2>5, <3>1, <3>2
  <2>6. CASE ~(k < a \/ k >= b) /\ ~(k - n >= a)
    <3>1. o + a <= o + k /\ o + k < (o + a) + n
      BY <2>3, <2>6
    <3> QED BY <1>5, <2>1, <2>2, <2>3, <2>6, <3>1
  <2> QED BY <2>4, <2>5, <2>6
<1> QED BY <1>5, <1>6 DEF Cells, ShiftRight

\* The span from a to b is erased.
LEMMA CellsErased ==
    ASSUME NEW v \in Videos, NEW o \in Nat, o + ScreenSize <= VideoCells,
           NEW a \in Nat, NEW b \in Nat, a <= b, b <= ScreenSize,
           NEW s, s = o + a, NEW n, n = b - a, NEW w, w = Erased(v, s, n)
    PROVE  w \in Videos /\ Cells(w, o) = ShiftLeft(Cells(v, o), a, b, b - a)
<1>1. ScreenSize \in Nat /\ VideoCells \in Nat
  BY RowsAre
<1>2. s \in Int /\ n \in Int /\ n >= 0 /\ Inside(s, n)
  BY <1>1 DEF Inside
<1>3. /\ w \in Videos
      /\ \A i \in VideoMem : w[i] = IF s <= i /\ i < s + n THEN video_erase_char ELSE v[i]
  BY <1>2, ErasedIs
<1>4. ASSUME NEW k \in 0 .. ScreenSize - 1
      PROVE  Cells(w, o)[k] = ShiftLeft(Cells(v, o), a, b, b - a)[k]
  <2>1. Cells(w, o)[k] = w[o + k] /\ Cells(v, o)[k] = v[o + k]
    BY DEF Cells
  <2>2. ShiftLeft(Cells(v, o), a, b, b - a)[k]
           = IF k < a \/ k >= b THEN Cells(v, o)[k]
             ELSE IF k + (b - a) < b THEN Cells(v, o)[k + (b - a)] ELSE video_erase_char
    BY DEF ShiftLeft
  <2>3. o + k \in VideoMem /\ k \in Nat
    BY <1>1 DEF VideoMem
  <2>4. (k < a \/ k >= b) <=> ~(s <= o + k /\ o + k < s + n)
    BY <2>3
  <2>5. ~(k < a \/ k >= b) => ~(k + (b - a) < b)
    BY <2>3
  <2> QED BY <1>3, <2>1, <2>2, <2>3, <2>4, <2>5
<1> QED BY <1>3, <1>4 DEF Cells, ShiftLeft

\* Shifting by n and by m is shifting by both.
LEMMA ShiftsAdd ==
    ASSUME NEW u, NEW a \in Nat, NEW b \in Nat, b <= ScreenSize, NEW n \in Nat, NEW m \in Nat
    PROVE  /\ ShiftLeft(ShiftLeft(u, a, b, n), a, b, m) = ShiftLeft(u, a, b, n + m)
           /\ ShiftRight(ShiftRight(u, a, b, n), a, b, m) = ShiftRight(u, a, b, n + m)
<1>1. ScreenSize \in Nat
  BY RowsAre
<1>2. PICK l, r : l = ShiftLeft(u, a, b, n) /\ r = ShiftRight(u, a, b, n)
  OBVIOUS
<1>3. ASSUME NEW k \in 0 .. ScreenSize - 1
      PROVE  ShiftLeft(l, a, b, m)[k] = ShiftLeft(u, a, b, n + m)[k]
  <2>1. ShiftLeft(l, a, b, m)[k] = IF k < a \/ k >= b THEN l[k]
                                   ELSE IF k + m < b THEN l[k + m] ELSE video_erase_char
    BY DEF ShiftLeft
  <2>2. ShiftLeft(u, a, b, n + m)[k] = IF k < a \/ k >= b THEN u[k]
                                       ELSE IF k + (n + m) < b THEN u[k + (n + m)] ELSE video_erase_char
    BY DEF ShiftLeft
  <2>3. \A i \in 0 .. ScreenSize - 1 :
           l[i] = IF i < a \/ i >= b THEN u[i] ELSE IF i + n < b THEN u[i + n] ELSE video_erase_char
    BY <1>2 DEF ShiftLeft
  <2>4. CASE k < a \/ k >= b
    BY <2>1, <2>2, <2>3, <2>4
  <2>5. CASE ~(k < a \/ k >= b) /\ k + m < b
    <3>1. /\ k + m \in 0 .. ScreenSize - 1 /\ ~(k + m < a \/ k + m >= b)
          /\ k + (n + m) = (k + m) + n
      BY <1>1, <2>5
    <3>2. l[k + m] = IF (k + m) + n < b THEN u[(k + m) + n] ELSE video_erase_char
      BY <2>3, <3>1
    <3> QED BY <2>1, <2>2, <2>5, <3>1, <3>2
  <2>6. CASE ~(k < a \/ k >= b) /\ ~(k + m < b)
    <3>1. ~(k + (n + m) < b)
      BY <2>6
    <3> QED BY <2>1, <2>2, <2>6, <3>1
  <2> QED BY <2>4, <2>5, <2>6
<1>4. ASSUME NEW k \in 0 .. ScreenSize - 1
      PROVE  ShiftRight(r, a, b, m)[k] = ShiftRight(u, a, b, n + m)[k]
  <2>1. ShiftRight(r, a, b, m)[k] = IF k < a \/ k >= b THEN r[k]
                                    ELSE IF k - m >= a THEN r[k - m] ELSE video_erase_char
    BY DEF ShiftRight
  <2>2. ShiftRight(u, a, b, n + m)[k] = IF k < a \/ k >= b THEN u[k]
                                        ELSE IF k - (n + m) >= a THEN u[k - (n + m)] ELSE video_erase_char
    BY DEF ShiftRight
  <2>3. \A i \in 0 .. ScreenSize - 1 :
           r[i] = IF i < a \/ i >= b THEN u[i] ELSE IF i - n >= a THEN u[i - n] ELSE video_erase_char
    BY <1>2 DEF ShiftRight
  <2>4. CASE k < a \/ k >= b
    BY <2>1, <2>2, <2>3, <2>4
  <2>5. CASE ~(k < a \/ k >= b) /\ k - m >= a
    <3>1. /\ k - m \in 0 .. ScreenSize - 1 /\ ~(k - m < a \/ k - m >= b)
          /\ k - (n + m) = (k - m) - n
      BY <1>1, <2>5
    <3>2. r[k - m] = IF (k - m) - n >= a THEN u[(k - m) - n] ELSE video_erase_char
      BY <2>3, <3>1
    <3> QED BY <2>1, <2>2, <2>5, <3>1, <3>2
  <2>6. CASE ~(k < a \/ k >= b) /\ ~(k - m >= a)
    <3>1. ~(k - (n + m) >= a)
      BY <2>6
    <3> QED BY <2>1, <2>2, <2>6, <3>1
  <2> QED BY <2>4, <2>5, <2>6
<1>5. ShiftLeft(l, a, b, m) = ShiftLeft(u, a, b, n + m)
  BY <1>3 DEF ShiftLeft
<1>6. ShiftRight(r, a, b, m) = ShiftRight(u, a, b, n + m)
  BY <1>4 DEF ShiftRight
<1> QED BY <1>2, <1>5, <1>6

LEMMA NoShift ==
    ASSUME NEW v, NEW o, NEW a \in Nat, NEW b \in Nat
    PROVE  /\ ShiftLeft(Cells(v, o), a, b, 0) = Cells(v, o)
           /\ ShiftRight(Cells(v, o), a, b, 0) = Cells(v, o)
<1>1. ScreenSize \in Nat
  BY RowsAre
<1>2. ASSUME NEW k \in 0 .. ScreenSize - 1
      PROVE  /\ ShiftLeft(Cells(v, o), a, b, 0)[k] = Cells(v, o)[k]
             /\ ShiftRight(Cells(v, o), a, b, 0)[k] = Cells(v, o)[k]
  <2>1. k + 0 = k /\ k - 0 = k /\ (~(k < a \/ k >= b) => k < b /\ k >= a)
    BY <1>1
  <2> QED BY <2>1 DEF ShiftLeft, ShiftRight
<1> QED BY <1>2 DEF Cells, ShiftLeft, ShiftRight

-----------------------------------------------------------------------------
\* An EGA moves the origin down a row ...
LEMMA CellsScrolled ==
    ASSUME NEW v \in Videos, NEW o \in Nat, NEW C, C = video_num_columns,
           o + ScreenSize + C <= VideoCells,
           NEW w, w = Erased(v, o + ScreenSize, C)
    PROVE  w \in Videos /\ Cells(w, o + C) = ShiftLeft(Cells(v, o), 0, ScreenSize, C)
<1>1. ScreenSize \in Nat /\ VideoCells \in Nat /\ C \in Nat
  BY RowsAre
<1>2. o + ScreenSize \in Int /\ C \in Int /\ C >= 0 /\ Inside(o + ScreenSize, C)
  BY <1>1 DEF Inside
<1>3. /\ w \in Videos
      /\ \A i \in VideoMem : w[i] = IF o + ScreenSize <= i /\ i < (o + ScreenSize) + C
                                    THEN video_erase_char ELSE v[i]
  BY <1>2, ErasedIs
<1>4. ASSUME NEW k \in 0 .. ScreenSize - 1
      PROVE  Cells(w, o + C)[k] = ShiftLeft(Cells(v, o), 0, ScreenSize, C)[k]
  <2>1. Cells(w, o + C)[k] = w[(o + C) + k]
    BY DEF Cells
  <2>2. ShiftLeft(Cells(v, o), 0, ScreenSize, C)[k]
           = IF k < 0 \/ k >= ScreenSize THEN Cells(v, o)[k]
             ELSE IF k + C < ScreenSize THEN Cells(v, o)[k + C] ELSE video_erase_char
    BY DEF ShiftLeft
  <2>3. (o + C) + k \in VideoMem /\ ~(k < 0 \/ k >= ScreenSize)
    BY <1>1 DEF VideoMem
  <2>4. CASE k + C < ScreenSize
    <3>1. k + C \in 0 .. ScreenSize - 1 /\ (o + C) + k = o + (k + C) /\ ~(o + ScreenSize <= (o + C) + k)
      BY <1>1, <2>4
    <3>2. Cells(v, o)[k + C] = v[o + (k + C)]
      BY <3>1 DEF Cells
    <3>3. w[(o + C) + k] = v[(o + C) + k]
      BY <1>3, <2>3, <3>1
    <3> QED BY <2>1, <2>2, <2>3, <2>4, <3>1, <3>2, <3>3
  <2>5. CASE ~(k + C < ScreenSize)
    <3>1. o + ScreenSize <= (o + C) + k /\ (o + C) + k < (o + ScreenSize) + C
      BY <1>1, <2>5
    <3>2. w[(o + C) + k] = video_erase_char
      BY <1>3, <2>3, <3>1
    <3> QED BY <2>1, <2>2, <2>3, <2>5, <3>2
  <2> QED BY <2>4, <2>5
<1> QED BY <1>3, <1>4 DEF Cells, ShiftLeft

\* ... or copies the screen back to the start of the video memory.
LEMMA CellsCopied ==
    ASSUME NEW v \in Videos, NEW o \in Nat, o + ScreenSize <= VideoCells,
           NEW C, C = video_num_columns,
           NEW w, w = Erased(Moved(v, o + C, 0, ScreenSize - C), ScreenSize - C, C)
    PROVE  w \in Videos /\ Cells(w, 0) = ShiftLeft(Cells(v, o), 0, ScreenSize, C)
<1>1. ScreenSize \in Nat /\ VideoCells \in Nat /\ C \in Nat /\ C <= ScreenSize /\ ScreenSize <= VideoCells
  BY RowsAre
<1>2. PICK u, m : u = Moved(v, o + C, 0, m) /\ m = ScreenSize - C
  OBVIOUS
<1>3. /\ o + C \in Int /\ 0 \in Int /\ m \in Int /\ m >= 0 /\ C \in Int /\ C >= 0
      /\ Inside(o + C, m) /\ Inside(0, m) /\ Inside(m, C)
  BY <1>1, <1>2 DEF Inside
<1>4. /\ u \in Videos
      /\ \A i \in VideoMem : u[i] = IF 0 <= i /\ i < 0 + m THEN v[(o + C) + i - 0] ELSE v[i]
  BY <1>2, <1>3, MovedIs
<1>5. /\ w \in Videos
      /\ \A i \in VideoMem : w[i] = IF m <= i /\ i < m + C THEN video_erase_char ELSE u[i]
  BY <1>2, <1>3, <1>4, ErasedIs
<1>6. ASSUME NEW k \in 0 .. ScreenSize - 1
      PROVE  Cells(w, 0)[k] = ShiftLeft(Cells(v, o), 0, ScreenSize, C)[k]
  <2>1. Cells(w, 0)[k] = w[0 + k]
    BY DEF Cells
  <2>2. ShiftLeft(Cells(v, o), 0, ScreenSize, C)[k]
           = IF k < 0 \/ k >= ScreenSize THEN Cells(v, o)[k]
             ELSE IF k + C < ScreenSize THEN Cells(v, o)[k + C] ELSE video_erase_char
    BY DEF ShiftLeft
  <2>3. 0 + k = k /\ k \in VideoMem /\ ~(k < 0 \/ k >= ScreenSize) /\ k \in Nat
    BY <1>1 DEF VideoMem
  <2>4. CASE k + C < ScreenSize
    <3>1. /\ k + C \in 0 .. ScreenSize - 1 /\ (o + C) + k - 0 = o + (k + C)
          /\ ~(m <= k /\ k < m + C) /\ 0 <= k /\ k < 0 + m
      BY <1>1, <1>2, <2>3, <2>4
    <3>2. Cells(v, o)[k + C] = v[o + (k + C)]
      BY <3>1 DEF Cells
    <3>3. w[k] = u[k]
      BY <1>5, <2>3, <3>1
    <3>4. u[k] = v[o + (k + C)]
      BY <1>4, <2>3, <3>1
    <3> QED BY <2>1, <2>2, <2>3, <2>4, <3>2, <3>3, <3>4
  <2>5. CASE ~(k + C < ScreenSize)
    <3>1. m <= k /\ k < m + C
      BY <1>1, <1>2, <2>3, <2>5
    <3>2. w[k] = video_erase_char
      BY <1>5, <2>3, <3>1
    <3> QED BY <2>1, <2>2, <2>3, <2>5, <3>2
  <2> QED BY <2>4, <2>5, <1>1
<1> QED BY <1>5, <1>6 DEF Cells, ShiftLeft

-----------------------------------------------------------------------------
\* A console whose screen lies in the video memory and whose pos is the
\* address of the cursor; the cursor's column may be any number on the way.
Consoles == [ega : BOOLEAN, video : Videos, origin : Nat, scr_end : Int, pos : Int, x : Nat,
             y : 0 .. video_num_lines - 1, top : Nat, bottom : 0 .. video_num_lines]
Placed(c) == /\ c \in Consoles /\ c.top < c.bottom
             /\ c.origin + ScreenSize <= VideoCells /\ c.scr_end = c.origin + ScreenSize
             /\ c.pos = RowAt(c, c.y) + c.x
InItsRow(c) == Placed(c) /\ c.x <= video_num_columns

Screened(c) == Cells(c.video, c.origin)
View(c) == [cell |-> Screened(c), x |-> c.x, y |-> c.y, top |-> c.top, bottom |-> c.bottom]
Screens == [cell : [0 .. ScreenSize - 1 -> Attributes], x : Nat, y : 0 .. video_num_lines - 1,
            top : Nat, bottom : 0 .. video_num_lines]

\* d is c with another video memory.
Redrawn(c, d, w) == d = [c EXCEPT !.video = w]

LEMMA RedrawnIs ==
    ASSUME NEW c, Placed(c), NEW w \in Videos, NEW d, Redrawn(c, d, w)
    PROVE  /\ Placed(d) /\ d.video = w /\ Screened(d) = Cells(w, c.origin)
           /\ d.ega = c.ega /\ d.origin = c.origin /\ d.scr_end = c.scr_end /\ d.pos = c.pos
           /\ d.x = c.x /\ d.y = c.y /\ d.top = c.top /\ d.bottom = c.bottom
           /\ View(d) = [View(c) EXCEPT !.cell = Cells(w, c.origin)]
<1>1. c \in Consoles
  BY DEF Placed
<1>2. /\ d \in Consoles /\ d.video = w
      /\ d.ega = c.ega /\ d.origin = c.origin /\ d.scr_end = c.scr_end /\ d.pos = c.pos
      /\ d.x = c.x /\ d.y = c.y /\ d.top = c.top /\ d.bottom = c.bottom
  BY <1>1 DEF Redrawn, Consoles
<1>3. Placed(d)
  BY <1>2 DEF Placed, RowAt
<1>4. Screened(d) = Cells(w, c.origin)
  BY <1>2 DEF Screened
<1>5. View(d) = [View(c) EXCEPT !.cell = Cells(w, c.origin)]
  BY <1>2, <1>4 DEF View
<1> QED BY <1>2, <1>3, <1>4, <1>5

LEMMA PlacedIs ==
    ASSUME NEW c, Placed(c)
    PROVE  /\ c \in Consoles
           /\ c.ega \in BOOLEAN /\ c.video \in Videos /\ c.origin \in Nat /\ c.scr_end \in Nat
           /\ c.pos \in Nat /\ c.x \in Nat /\ c.y \in 0 .. video_num_lines - 1
           /\ c.top \in 0 .. video_num_lines /\ c.bottom \in 0 .. video_num_lines
           /\ c.top < c.bottom /\ c.scr_end = c.origin + ScreenSize
           /\ c.origin + ScreenSize <= VideoCells
           /\ c.y \in Nat /\ c.top \in Nat /\ c.bottom \in Nat
           /\ c.y \in 0 .. video_num_lines /\ c.y + 1 \in 0 .. video_num_lines
           /\ c.y * video_num_columns \in Nat
           /\ c.pos = c.origin + c.y * video_num_columns + c.x
           /\ View(c) \in Screens
<1>1. /\ c \in Consoles /\ c.top < c.bottom
      /\ c.origin + ScreenSize <= VideoCells /\ c.scr_end = c.origin + ScreenSize
      /\ c.pos = c.origin + c.y * video_num_columns + c.x
  BY DEF Placed, RowAt
<1>2. /\ c.ega \in BOOLEAN /\ c.video \in Videos /\ c.origin \in Nat /\ c.scr_end \in Int
      /\ c.x \in Nat /\ c.y \in 0 .. video_num_lines - 1
      /\ c.top \in Nat /\ c.bottom \in 0 .. video_num_lines
  BY <1>1 DEF Consoles
<1>3. /\ video_num_lines \in Nat /\ ScreenSize \in Nat /\ VideoCells \in Nat
  BY RowsAre
<1>4. /\ c.top \in 0 .. video_num_lines /\ c.y \in 0 .. video_num_lines /\ c.y \in Nat
      /\ c.y + 1 \in 0 .. video_num_lines /\ c.scr_end \in Nat /\ c.bottom \in Nat
  BY <1>1, <1>2, <1>3
<1>5. c.y * video_num_columns \in Nat
  BY <1>4, RowIs
<1>6. c.pos \in Nat
  BY <1>1, <1>2, <1>5
<1>7. Screened(c) \in [0 .. ScreenSize - 1 -> Attributes]
  <2>1. ASSUME NEW k \in 0 .. ScreenSize - 1
        PROVE  c.video[c.origin + k] \in Attributes
    <3>1. c.origin + k \in VideoMem
      BY <1>1, <1>2, <1>3 DEF VideoMem
    <3> QED BY <1>2, <3>1 DEF Videos
  <2> QED BY <2>1 DEF Screened, Cells
<1>8. View(c) \in Screens
  BY <1>2, <1>7 DEF View, Screens
<1> QED BY <1>1, <1>2, <1>4, <1>5, <1>6, <1>8

LEMMA ShiftsAre ==
    ASSUME NEW u, NEW a, NEW b, NEW n
    PROVE  /\ TheScreen!Left(u, a, b, n) = ShiftLeft(u, a, b, n)
           /\ TheScreen!Right(u, a, b, n) = ShiftRight(u, a, b, n)
           /\ TheScreen!Size = ScreenSize
<1>1. TheScreen!Size = ScreenSize
  BY DEF TheScreen!Size, ScreenSize
<1>2. TheScreen!Left(u, a, b, n) = ShiftLeft(u, a, b, n)
  BY <1>1 DEF TheScreen!Left, ShiftLeft
<1>3. TheScreen!Right(u, a, b, n) = ShiftRight(u, a, b, n)
  BY <1>1 DEF TheScreen!Right, ShiftRight
<1> QED BY <1>1, <1>2, <1>3

-----------------------------------------------------------------------------
\* The region moves up, by moving the rows or by moving the origin ...
LEMMA ScrolledUp ==
    ASSUME NEW c, Placed(c), NEW d, d = scrup(c)
    PROVE  /\ Placed(d) /\ d.x = c.x /\ d.y = c.y /\ d.top = c.top /\ d.bottom = c.bottom
           /\ Screened(d) = ShiftLeft(Screened(c), c.top * video_num_columns,
                                      c.bottom * video_num_columns, video_num_columns)
           /\ View(d) = [View(c) EXCEPT !.cell = Screened(d)]
<1>1. PICK v, o, C : v = c.video /\ o = c.origin /\ C = video_num_columns
  OBVIOUS
<1>2. /\ v \in Videos /\ o \in Nat /\ c.top \in 0 .. video_num_lines /\ c.bottom \in 0 .. video_num_lines
      /\ c.top < c.bottom /\ c.scr_end = o + ScreenSize /\ o + ScreenSize <= VideoCells
      /\ c.pos = o + c.y * C + c.x /\ c.y * C \in Nat /\ c.x \in Nat /\ c \in Consoles
  BY <1>1, PlacedIs
<1>3. C \in Nat /\ ScreenSize \in Nat /\ VideoCells \in Nat /\ 0 * C = 0 /\ video_num_lines * C = ScreenSize
      /\ C <= ScreenSize
  BY <1>1, RowsAre
<1>4. Screened(c) = Cells(v, o)
  BY <1>1 DEF Screened
<1>5. CASE ~(c.ega /\ c.top = 0 /\ c.bottom = video_num_lines)
  <2>1. PICK a, b, m : a = c.top * C /\ b = c.bottom * C /\ m = b - a - C
    OBVIOUS
  <2>2. /\ a \in Nat /\ b \in Nat /\ b <= ScreenSize /\ a + C <= b
        /\ (c.bottom - c.top - 1) * C = m /\ (c.top + 1) * C = a + C
    BY <1>1, <1>2, <2>1, RowIs, RowsBetween
  <2>3. PICK w : w = Erased(Moved(v, o + a + C, o + a, m), o + b - C, C)
    OBVIOUS
  <2>4. w \in Videos /\ Cells(w, o) = ShiftLeft(Cells(v, o), a, b, C)
    <3>1. /\ v \in Videos /\ o \in Nat /\ o + ScreenSize <= VideoCells
          /\ a \in Nat /\ b \in Nat /\ C \in Nat /\ a + C <= b /\ b <= ScreenSize
          /\ m = b - a - C /\ w = Erased(Moved(v, o + a + C, o + a, m), o + b - C, C)
      BY <1>2, <1>3, <2>1, <2>2, <2>3
    <3> QED BY <3>1, CellsLeft
  <2>5. RowAt(c, c.top + 1) = o + a + C /\ RowAt(c, c.top) = o + a /\ RowAt(c, c.top) + m = o + b - C
    BY <1>1, <1>2, <1>3, <2>1, <2>2 DEF RowAt
  <2>6. Redrawn(c, d, w)
    BY <1>1, <1>5, <2>2, <2>3, <2>5 DEF scrup, Redrawn
  <2> QED BY <1>1, <1>2, <1>4, <2>1, <2>4, <2>6, RedrawnIs
<1>6. CASE c.ega /\ c.top = 0 /\ c.bottom = video_num_lines
  <2>1. d = scroll_origin(c)
    BY <1>6 DEF scrup
  <2>2. PICK w, p : /\ w \in Videos /\ p \in Nat
                    /\ d = [c EXCEPT !.video = w, !.origin = p, !.scr_end = p + ScreenSize,
                                     !.pos = p + c.y * C + c.x]
                    /\ p + ScreenSize <= VideoCells
                    /\ Cells(w, p) = ShiftLeft(Cells(v, o), 0, ScreenSize, C)
    <3>1. CASE o + ScreenSize + C > VideoCells
      <4>1. PICK w : w = Erased(Moved(v, o + C, 0, ScreenSize - C), ScreenSize - C, C)
        OBVIOUS
      <4>2. w \in Videos /\ Cells(w, 0) = ShiftLeft(Cells(v, o), 0, ScreenSize, C)
        BY <1>1, <1>2, <4>1, CellsCopied
      <4>3. /\ c.scr_end + C > VideoCells /\ c.scr_end + C - (o + C) = 0 + ScreenSize
            /\ c.pos + C - (o + C) = 0 + c.y * C + c.x
        BY <1>2, <1>3, <3>1
      <4>4. d = [c EXCEPT !.video = w, !.origin = 0, !.scr_end = 0 + ScreenSize,
                          !.pos = 0 + c.y * C + c.x]
        BY <1>1, <2>1, <4>1, <4>3 DEF scroll_origin
      <4>5. 0 \in Nat /\ 0 + ScreenSize <= VideoCells
        BY RowsAre
      <4> QED BY <4>2, <4>4, <4>5
    <3>2. CASE ~(o + ScreenSize + C > VideoCells)
      <4>1. PICK w, p : w = Erased(v, o + ScreenSize, C) /\ p = o + C
        OBVIOUS
      <4>2. w \in Videos /\ Cells(w, p) = ShiftLeft(Cells(v, o), 0, ScreenSize, C)
        <5>1. o + ScreenSize + C <= VideoCells
          BY <1>2, <1>3, <3>2
        <5> QED BY <1>1, <1>2, <4>1, <5>1, CellsScrolled
      <4>3. /\ ~(c.scr_end + C > VideoCells) /\ c.scr_end + C = p + ScreenSize
            /\ c.pos + C = p + c.y * C + c.x /\ p \in Nat /\ p + ScreenSize <= VideoCells
        BY <1>2, <1>3, <3>2, <4>1
      <4>4. d = [c EXCEPT !.video = w, !.origin = p, !.scr_end = p + ScreenSize,
                          !.pos = p + c.y * C + c.x]
        BY <1>1, <1>2, <2>1, <4>1, <4>3 DEF scroll_origin
      <4> QED BY <4>2, <4>3, <4>4
    <3> QED BY <3>1, <3>2
  <2>3. p + ScreenSize \in Int /\ p + c.y * C + c.x \in Int
    BY <1>2, <1>3, <2>2
  <2>4. /\ d \in Consoles /\ d.video = w /\ d.origin = p /\ d.scr_end = p + ScreenSize
        /\ d.pos = p + c.y * C + c.x
        /\ d.x = c.x /\ d.y = c.y /\ d.top = c.top /\ d.bottom = c.bottom
    BY <1>2, <2>2, <2>3 DEF Consoles
  <2>5. Placed(d)
    BY <1>1, <1>2, <2>2, <2>4 DEF Placed, RowAt
  <2>6. Screened(d) = ShiftLeft(Screened(c), 0, ScreenSize, C)
    BY <1>4, <2>2, <2>4 DEF Screened
  <2>7. View(d) = [View(c) EXCEPT !.cell = Screened(d)]
    BY <2>4 DEF View
  <2>8. c.top * C = 0 /\ c.bottom * C = ScreenSize
    BY <1>3, <1>6
  <2> QED BY <1>1, <2>4, <2>5, <2>6, <2>7, <2>8
<1> QED BY <1>5, <1>6

\* ... or down.
LEMMA ScrolledDown ==
    ASSUME NEW c, Placed(c), NEW d, d = scrdown(c)
    PROVE  /\ Placed(d) /\ d.x = c.x /\ d.y = c.y /\ d.top = c.top /\ d.bottom = c.bottom
           /\ Screened(d) = ShiftRight(Screened(c), c.top * video_num_columns,
                                       c.bottom * video_num_columns, video_num_columns)
           /\ View(d) = [View(c) EXCEPT !.cell = Screened(d)]
<1>1. PICK v, o, C : v = c.video /\ o = c.origin /\ C = video_num_columns
  OBVIOUS
<1>2. /\ v \in Videos /\ o \in Nat /\ c.top \in 0 .. video_num_lines /\ c.bottom \in 0 .. video_num_lines
      /\ c.top < c.bottom /\ o + ScreenSize <= VideoCells /\ C \in Nat
  BY <1>1, PlacedIs, RowsAre
<1>3. Screened(c) = Cells(v, o)
  BY <1>1 DEF Screened
<1>4. PICK a, b, m : a = c.top * C /\ b = c.bottom * C /\ m = b - a - C
  OBVIOUS
<1>5. /\ a \in Nat /\ b \in Nat /\ b <= ScreenSize /\ a + C <= b
      /\ (c.bottom - c.top - 1) * C = m /\ (c.top + 1) * C = a + C
  BY <1>1, <1>2, <1>4, RowIs, RowsBetween
<1>6. PICK w : w = Erased(Moved(v, o + a, o + a + C, m), o + a, C)
  OBVIOUS
<1>7. w \in Videos /\ Cells(w, o) = ShiftRight(Cells(v, o), a, b, C)
  <2>1. /\ v \in Videos /\ o \in Nat /\ o + ScreenSize <= VideoCells
        /\ a \in Nat /\ b \in Nat /\ C \in Nat /\ a + C <= b /\ b <= ScreenSize
        /\ m = b - a - C /\ w = Erased(Moved(v, o + a, o + a + C, m), o + a, C)
    BY <1>2, <1>4, <1>5, <1>6
  <2> QED BY <2>1, CellsRight
<1>8. RowAt(c, c.top + 1) = o + a + C /\ RowAt(c, c.top) = o + a
  BY <1>1, <1>2, <1>4, <1>5 DEF RowAt
<1>9. Redrawn(c, d, w)
  BY <1>1, <1>5, <1>6, <1>8 DEF scrdown, Redrawn
<1> QED BY <1>1, <1>3, <1>4, <1>7, <1>9, RedrawnIs

-----------------------------------------------------------------------------
\* d is c with another cursor.
Steered(c, d) ==
    /\ d \in Consoles /\ d.ega = c.ega /\ d.video = c.video /\ d.origin = c.origin
    /\ d.scr_end = c.scr_end /\ d.top = c.top /\ d.bottom = c.bottom
    /\ d.pos = c.origin + d.y * video_num_columns + d.x

LEMMA SteeredIs ==
    ASSUME NEW c, Placed(c), NEW d, Steered(c, d)
    PROVE  /\ Placed(d) /\ Screened(d) = Screened(c)
           /\ View(d) = [View(c) EXCEPT !.x = d.x, !.y = d.y]
<1>1. Placed(d)
  BY DEF Placed, Steered, RowAt
<1>2. Screened(d) = Screened(c)
  BY DEF Screened, Steered
<1>3. View(d) = [View(c) EXCEPT !.x = d.x, !.y = d.y]
  <2>1. PICK e, i, j, p, q, k, l : /\ e = Screened(c) /\ i = c.x /\ j = c.y /\ p = c.top /\ q = c.bottom
                                   /\ k = d.x /\ l = d.y
    OBVIOUS
  <2>2. View(c) = [cell |-> e, x |-> i, y |-> j, top |-> p, bottom |-> q]
    BY <2>1 DEF View
  <2>3. d.top = p /\ d.bottom = q
    BY <2>1 DEF Steered
  <2>4. View(d) = [cell |-> e, x |-> k, y |-> l, top |-> p, bottom |-> q]
    BY <1>2, <2>1, <2>3 DEF View
  <2>5. PICK r : r = [cell |-> e, x |-> k, y |-> j, top |-> p, bottom |-> q]
    OBVIOUS
  <2>6. [View(c) EXCEPT !.x = k] = r
    BY <2>2, <2>5
  <2>7. [r EXCEPT !.y = l] = View(d)
    BY <2>4, <2>5
  <2>8. [View(c) EXCEPT !.x = k, !.y = l] = View(d)
    BY <2>6, <2>7
  <2> QED BY <2>1, <2>8
<1> QED BY <1>1, <1>2, <1>3

LEMMA ViewIs ==
    ASSUME NEW c, Placed(c)
    PROVE  /\ View(c) \in Screens /\ View(c).cell = Screened(c) /\ View(c).x = c.x /\ View(c).y = c.y
           /\ View(c).top = c.top /\ View(c).bottom = c.bottom
           /\ Screened(c) \in [0 .. ScreenSize - 1 -> Attributes]
<1>1. View(c) \in Screens
  BY PlacedIs
<1>2. /\ View(c).cell = Screened(c) /\ View(c).x = c.x /\ View(c).y = c.y
      /\ View(c).top = c.top /\ View(c).bottom = c.bottom
  BY DEF View
<1> QED BY <1>1, <1>2 DEF Screens

LEMMA LineFed ==
    ASSUME NEW c, Placed(c), NEW d, d = lf(c)
    PROVE  Placed(d) /\ d.x = c.x /\ View(d) = TheScreen!Fed(View(c))
<1>1. /\ c \in Consoles /\ c.y \in Nat /\ c.y * video_num_columns \in Nat /\ c.bottom \in 0 .. video_num_lines
      /\ c.pos = c.origin + c.y * video_num_columns + c.x /\ c.origin \in Nat /\ c.x \in Nat
      /\ c.y \in 0 .. video_num_lines /\ c.pos \in Nat
  BY PlacedIs
<1>2. /\ View(c) \in Screens /\ View(c).cell = Screened(c) /\ View(c).x = c.x /\ View(c).y = c.y
      /\ View(c).top = c.top /\ View(c).bottom = c.bottom
  BY ViewIs
<1>3. /\ (c.y + 1) * video_num_columns = c.y * video_num_columns + video_num_columns
      /\ video_num_columns \in Nat /\ video_num_lines \in Nat
  BY <1>1, RowIs, RowsAre
<1>4. CASE c.y + 1 < c.bottom
  <2>1. d = [c EXCEPT !.y = c.y + 1, !.pos = c.pos + video_num_columns]
    BY <1>1, <1>4 DEF lf
  <2>2. /\ c.y + 1 \in 0 .. video_num_lines - 1 /\ c.pos + video_num_columns \in Int
        /\ c.pos + video_num_columns = c.origin + (c.y + 1) * video_num_columns + c.x
    BY <1>1, <1>3, <1>4
  <2>3. /\ d \in Consoles /\ d.ega = c.ega /\ d.video = c.video /\ d.origin = c.origin
        /\ d.scr_end = c.scr_end /\ d.top = c.top /\ d.bottom = c.bottom
        /\ d.x = c.x /\ d.y = c.y + 1 /\ d.pos = c.pos + video_num_columns
    BY <1>1, <2>1, <2>2 DEF Consoles
  <2>4. Steered(c, d)
    BY <2>2, <2>3 DEF Steered
  <2>5. Placed(d) /\ View(d) = [View(c) EXCEPT !.x = d.x, !.y = d.y]
    BY <2>4, SteeredIs
  <2>6. TheScreen!Fed(View(c)) = [View(c) EXCEPT !.y = c.y + 1]
    BY <1>2, <1>4 DEF TheScreen!Fed
  <2>7. [View(c) EXCEPT !.x = c.x, !.y = c.y + 1] = [View(c) EXCEPT !.y = c.y + 1]
    BY <1>2 DEF Screens
  <2> QED BY <2>3, <2>5, <2>6, <2>7
<1>5. CASE ~(c.y + 1 < c.bottom)
  <2>1. d = scrup(c)
    BY <1>5 DEF lf
  <2>2. /\ Placed(d) /\ d.x = c.x
        /\ Screened(d) = ShiftLeft(Screened(c), c.top * video_num_columns,
                                   c.bottom * video_num_columns, video_num_columns)
        /\ View(d) = [View(c) EXCEPT !.cell = Screened(d)]
    BY <2>1, ScrolledUp
  <2>3. TheScreen!Fed(View(c))
           = [View(c) EXCEPT !.cell = ShiftLeft(Screened(c), c.top * video_num_columns,
                                                c.bottom * video_num_columns, video_num_columns)]
    BY <1>2, <1>5, ShiftsAre DEF TheScreen!Fed
  <2> QED BY <2>2, <2>3
<1> QED BY <1>4, <1>5

LEMMA LineFedBack ==
    ASSUME NEW c, Placed(c), NEW d, d = ri(c)
    PROVE  Placed(d) /\ d.x = c.x /\ TheScreen!FeedBack(View(c), View(d))
<1>1. /\ c \in Consoles /\ c.y \in Nat /\ c.y * video_num_columns \in Nat
      /\ c.pos = c.origin + c.y * video_num_columns + c.x /\ c.origin \in Nat /\ c.x \in Nat
      /\ c.y \in 0 .. video_num_lines - 1 /\ c.pos \in Nat /\ c.top \in Nat
  BY PlacedIs
<1>2. /\ View(c) \in Screens /\ View(c).cell = Screened(c) /\ View(c).x = c.x /\ View(c).y = c.y
      /\ View(c).top = c.top /\ View(c).bottom = c.bottom
  BY ViewIs
<1>3. video_num_columns \in Nat /\ video_num_lines \in Nat
  BY RowsAre
<1>4. CASE c.y > c.top
  <2>1. d = [c EXCEPT !.y = c.y - 1, !.pos = c.pos - video_num_columns]
    BY <1>1, <1>4 DEF ri
  <2>2. PICK r \in Nat : r = c.y - 1
    <3>1. c.y - 1 \in Nat
      BY <1>1, <1>4
    <3> QED BY <3>1
  <2>3. r \in 0 .. video_num_lines /\ r + 1 = c.y /\ r \in 0 .. video_num_lines - 1
    BY <1>1, <1>3, <2>2
  <2>4. c.y * video_num_columns = r * video_num_columns + video_num_columns /\ r * video_num_columns \in Nat
    BY <2>3, RowIs
  <2>5. /\ c.pos - video_num_columns \in Int
        /\ c.pos - video_num_columns = c.origin + r * video_num_columns + c.x
    BY <1>1, <1>3, <2>4
  <2>6. /\ d \in Consoles /\ d.ega = c.ega /\ d.video = c.video /\ d.origin = c.origin
        /\ d.scr_end = c.scr_end /\ d.top = c.top /\ d.bottom = c.bottom
        /\ d.x = c.x /\ d.y = r /\ d.pos = c.pos - video_num_columns
    BY <1>1, <2>1, <2>2, <2>3, <2>5 DEF Consoles
  <2>7. Steered(c, d)
    BY <2>5, <2>6 DEF Steered
  <2>8. Placed(d) /\ View(d) = [View(c) EXCEPT !.x = d.x, !.y = d.y]
    BY <2>7, SteeredIs
  <2>9. [View(c) EXCEPT !.x = c.x, !.y = c.y - 1] = [View(c) EXCEPT !.y = c.y - 1]
    BY <1>2 DEF Screens
  <2>10. TheScreen!FeedBack(View(c), View(d)) <=> View(d) = [View(c) EXCEPT !.y = c.y - 1]
    BY <1>2, <1>4 DEF TheScreen!FeedBack
  <2> QED BY <2>2, <2>6, <2>8, <2>9, <2>10
<1>5. CASE ~(c.y > c.top)
  <2>1. d = scrdown(c)
    BY <1>5 DEF ri
  <2>2. /\ Placed(d) /\ d.x = c.x
        /\ Screened(d) = ShiftRight(Screened(c), c.top * video_num_columns,
                                    c.bottom * video_num_columns, video_num_columns)
        /\ View(d) = [View(c) EXCEPT !.cell = Screened(d)]
    BY <2>1, ScrolledDown
  <2>3. TheScreen!FeedBack(View(c), View(d))
           <=> View(d) = [View(c) EXCEPT !.cell = ShiftRight(Screened(c), c.top * video_num_columns,
                                                c.bottom * video_num_columns, video_num_columns)]
    BY <1>2, <1>5, ShiftsAre DEF TheScreen!FeedBack
  <2> QED BY <2>2, <2>3
<1> QED BY <1>4, <1>5

\* d is c with the cursor in column i of its row, at address p.
InColumn(c, d, i, p) == /\ d = [c EXCEPT !.x = i, !.pos = p]
                        /\ p = c.origin + c.y * video_num_columns + i

LEMMA InOtherColumn ==
    ASSUME NEW c, Placed(c), NEW i \in Nat, NEW p, NEW d, InColumn(c, d, i, p)
    PROVE  /\ Placed(d) /\ Steered(c, d) /\ d.x = i /\ d.y = c.y /\ d.pos = p
           /\ d.video = c.video /\ d.origin = c.origin
           /\ Screened(d) = Screened(c) /\ View(d) = [View(c) EXCEPT !.x = i]
<1>1. /\ c \in Consoles /\ c.y * video_num_columns \in Nat /\ c.origin \in Nat
  BY PlacedIs
<1>2. p \in Int /\ d = [c EXCEPT !.x = i, !.pos = p] /\ p = c.origin + c.y * video_num_columns + i
  BY <1>1 DEF InColumn
<1>3. /\ d \in Consoles /\ d.ega = c.ega /\ d.video = c.video /\ d.origin = c.origin
      /\ d.scr_end = c.scr_end /\ d.top = c.top /\ d.bottom = c.bottom
      /\ d.x = i /\ d.y = c.y /\ d.pos = p
  BY <1>1, <1>2 DEF Consoles
<1>4. Steered(c, d)
  BY <1>2, <1>3 DEF Steered
<1>5. Placed(d) /\ Screened(d) = Screened(c)
  BY <1>4, SteeredIs
<1>6. View(d) = [View(c) EXCEPT !.x = i]
  <2>1. PICK e, k, j, a, b : e = Screened(c) /\ k = c.x /\ j = c.y /\ a = c.top /\ b = c.bottom
    OBVIOUS
  <2>2. View(c) = [cell |-> e, x |-> k, y |-> j, top |-> a, bottom |-> b]
    BY <2>1 DEF View
  <2>3. View(d) = [cell |-> e, x |-> i, y |-> j, top |-> a, bottom |-> b]
    BY <1>3, <1>5, <2>1 DEF View
  <2> QED BY <2>2, <2>3
<1> QED BY <1>3, <1>4, <1>5, <1>6

LEMMA Cursored ==
    ASSUME NEW c, Placed(c), NEW d, Steered(c, d), d.x <= video_num_columns
    PROVE  InItsRow(d) /\ TheScreen!Move(View(c), View(d))
<1>1. Placed(d) /\ View(d) = [View(c) EXCEPT !.x = d.x, !.y = d.y]
  BY SteeredIs
<1>2. /\ d.x \in Nat /\ d.y \in 0 .. video_num_lines - 1
  BY <1>1, PlacedIs
<1>3. View(d).x = d.x /\ View(d).y = d.y
  BY DEF View
<1>4. d.x \in 0 .. video_num_columns
  BY <1>2, RowsAre
<1>5. View(d) = [View(c) EXCEPT !.x = View(d).x, !.y = View(d).y]
  BY <1>1, <1>3, Zenon
<1> QED BY <1>1, <1>2, <1>3, <1>4, <1>5 DEF InItsRow, TheScreen!Move, TheScreen!Rows

LEMMA gotoxyIs ==
    ASSUME NEW c, InItsRow(c), NEW i \in Int, NEW j \in Int, NEW d, d = gotoxy(c, i, j)
    PROVE  InItsRow(d) /\ TheScreen!Step(View(c), View(d))
<1>1. CASE i \notin 0 .. video_num_columns \/ j \notin 0 .. video_num_lines - 1
  BY <1>1 DEF gotoxy, TheScreen!Step
<1>2. CASE ~(i \notin 0 .. video_num_columns \/ j \notin 0 .. video_num_lines - 1)
  <2>1. d = [c EXCEPT !.x = i, !.y = j, !.pos = c.origin + j * video_num_columns + i]
    BY <1>2 DEF gotoxy
  <2>2. Placed(c) /\ c \in Consoles /\ c.origin \in Nat
    BY PlacedIs DEF InItsRow
  <2>3. /\ i \in Nat /\ i <= video_num_columns /\ j \in 0 .. video_num_lines - 1 /\ j \in 0 .. video_num_lines
    BY <1>2, RowsAre
  <2>4. j * video_num_columns \in Nat
    BY <2>3, RowIs
  <2>5. c.origin + j * video_num_columns + i \in Int
    BY <2>2, <2>3, <2>4
  <2>6. /\ d \in Consoles /\ d.ega = c.ega /\ d.video = c.video /\ d.origin = c.origin
        /\ d.scr_end = c.scr_end /\ d.top = c.top /\ d.bottom = c.bottom
        /\ d.x = i /\ d.y = j /\ d.pos = c.origin + j * video_num_columns + i
    BY <2>1, <2>2, <2>3, <2>5 DEF Consoles
  <2>7. Steered(c, d)
    BY <2>6 DEF Steered
  <2>8. d.x <= video_num_columns
    BY <2>3, <2>6
  <2> QED BY <2>2, <2>7, <2>8, Cursored DEF TheScreen!Step
<1> QED BY <1>1, <1>2

LEMMA crIs ==
    ASSUME NEW c, InItsRow(c), NEW d, d = cr(c)
    PROVE  InItsRow(d) /\ TheScreen!Step(View(c), View(d))
<1>1. /\ Placed(c) /\ c \in Consoles /\ c.origin \in Nat /\ c.pos = c.origin + c.y * video_num_columns + c.x
      /\ c.y * video_num_columns \in Nat /\ c.x \in Nat
  BY PlacedIs DEF InItsRow
<1>2. PICK p : p = c.origin + c.y * video_num_columns + 0 /\ p = c.pos - c.x
  BY <1>1
<1>3. d = [c EXCEPT !.x = 0, !.pos = p]
  BY <1>1, <1>2 DEF cr, Consoles
<1>4. Steered(c, d) /\ d.x = 0
  <2>1. PICK i \in Nat : i = 0
    OBVIOUS
  <2>2. Placed(c) /\ InColumn(c, d, i, p)
    BY <1>1, <1>2, <1>3, <2>1 DEF InColumn
  <2>3. Steered(c, d) /\ d.x = i
    BY <2>2, InOtherColumn
  <2> QED BY <2>1, <2>3
<1>5. d.x <= video_num_columns
  BY <1>4, RowsAre
<1> QED BY <1>1, <1>4, <1>5, Cursored DEF TheScreen!Step

LEMMA BackspaceMoves ==
    ASSUME NEW c, InItsRow(c), c.x # 0, NEW d, d = backspace(c)
    PROVE  /\ Placed(d) /\ Steered(c, d) /\ d.x = c.x - 1 /\ d.y = c.y /\ d.x <= video_num_columns
           /\ d.video = c.video /\ d.origin = c.origin
           /\ View(d) = [View(c) EXCEPT !.x = c.x - 1]
<1>1. /\ Placed(c) /\ c \in Consoles /\ c.origin \in Nat /\ c.pos = c.origin + c.y * video_num_columns + c.x
      /\ c.y * video_num_columns \in Nat /\ c.x \in Nat /\ c.x <= video_num_columns
  BY PlacedIs DEF InItsRow
<1>2. PICK i, p : i = c.x - 1 /\ p = c.pos - 1
  OBVIOUS
<1>3. i \in Nat /\ p = c.origin + c.y * video_num_columns + i /\ i <= video_num_columns
  BY <1>1, <1>2, RowsAre
<1>4. d = [c EXCEPT !.x = i, !.pos = p]
  BY <1>1, <1>2 DEF backspace
<1>5. /\ Placed(d) /\ Steered(c, d) /\ d.x = i /\ d.y = c.y
      /\ d.video = c.video /\ d.origin = c.origin /\ View(d) = [View(c) EXCEPT !.x = i]
  <2>1. Placed(c) /\ i \in Nat /\ InColumn(c, d, i, p)
    BY <1>1, <1>3, <1>4 DEF InColumn
  <2> QED BY <2>1, InOtherColumn
<1> QED BY <1>2, <1>3, <1>5

LEMMA backspaceIs ==
    ASSUME NEW c, InItsRow(c), NEW d, d = backspace(c)
    PROVE  InItsRow(d) /\ TheScreen!Step(View(c), View(d))
<1>1. CASE c.x = 0
  BY <1>1 DEF backspace, TheScreen!Step
<1>2. CASE c.x # 0
  <2>1. Steered(c, d) /\ d.x <= video_num_columns
    BY <1>2, BackspaceMoves
  <2> QED BY <2>1, Cursored DEF TheScreen!Step, InItsRow
<1> QED BY <1>1, <1>2

LEMMA OneErased ==
    ASSUME NEW v \in Videos, NEW o \in Nat, o + ScreenSize <= VideoCells, NEW a \in 0 .. ScreenSize - 1,
           NEW s, s = o + a, NEW w, w = Erased(v, s, 1)
    PROVE  w \in Videos /\ Cells(w, o) = [Cells(v, o) EXCEPT ![a] = video_erase_char]
<1>1. ScreenSize \in Nat /\ VideoCells \in Nat
  BY RowsAre
<1>2. s \in Int /\ 1 \in Int /\ 1 >= 0 /\ Inside(s, 1)
  BY <1>1 DEF Inside
<1>3. /\ w \in Videos
      /\ \A i \in VideoMem : w[i] = IF s <= i /\ i < s + 1 THEN video_erase_char ELSE v[i]
  BY <1>2, ErasedIs
<1>4. ASSUME NEW k \in 0 .. ScreenSize - 1
      PROVE  w[o + k] = IF k = a THEN video_erase_char ELSE v[o + k]
  <2>1. o + k \in VideoMem /\ (k = a <=> s <= o + k /\ o + k < s + 1)
    BY <1>1 DEF VideoMem
  <2> QED BY <1>3, <2>1
<1>5. Cells(w, o) = [k \in 0 .. ScreenSize - 1 |-> IF k = a THEN video_erase_char ELSE v[o + k]]
  BY <1>4 DEF Cells
<1> QED BY <1>3, <1>5 DEF Cells

LEMMA CursorPlace ==
    ASSUME NEW c, Placed(c)
    PROVE  /\ TheScreen!Place(View(c)) = c.y * video_num_columns + c.x
           /\ TheScreen!RowStart(View(c)) = c.y * video_num_columns
           /\ TheScreen!RowEnd(View(c)) = c.y * video_num_columns + video_num_columns
           /\ TheScreen!RowEnd(View(c)) <= ScreenSize
<1>1. /\ c.y \in 0 .. video_num_lines /\ c.y < video_num_lines /\ video_num_lines \in 0 .. video_num_lines
      /\ video_num_lines * video_num_columns = ScreenSize
  BY PlacedIs, RowsAre
<1>2. /\ (c.y + 1) * video_num_columns = c.y * video_num_columns + video_num_columns
      /\ c.y * video_num_columns + video_num_columns <= ScreenSize
  BY <1>1, RowIs, RowsBetween
<1>3. View(c).x = c.x /\ View(c).y = c.y
  BY ViewIs
<1> QED BY <1>2, <1>3 DEF TheScreen!Place, TheScreen!RowStart, TheScreen!RowEnd

LEMMA delIs ==
    ASSUME NEW c, InItsRow(c), NEW d, d = del(c)
    PROVE  InItsRow(d) /\ TheScreen!Step(View(c), View(d))
<1>1. CASE c.x = 0
  BY <1>1 DEF del, TheScreen!Step
<1>2. CASE c.x # 0
  <2>1. PICK e : e = backspace(c)
    OBVIOUS
  <2>2. /\ Placed(e) /\ e.x = c.x - 1 /\ e.y = c.y /\ e.x <= video_num_columns
        /\ e.video = c.video /\ e.origin = c.origin /\ View(e) = [View(c) EXCEPT !.x = c.x - 1]
    BY <1>2, <2>1, BackspaceMoves
  <2>3. PICK w : w = Erased(c.video, c.pos - 1, 1)
    OBVIOUS
  <2>4. Redrawn(e, d, w)
    BY <1>2, <2>1, <2>2, <2>3 DEF del, Redrawn
  <2>5. /\ Placed(c) /\ c.video \in Videos /\ c.origin \in Nat /\ c.origin + ScreenSize <= VideoCells
        /\ c.pos = c.origin + c.y * video_num_columns + c.x /\ c.x \in Nat
        /\ c.y * video_num_columns \in Nat /\ c.x <= video_num_columns
    BY PlacedIs DEF InItsRow
  <2>6. PICK a : a = c.y * video_num_columns + c.x - 1
    OBVIOUS
  <2>7. c.y * video_num_columns + video_num_columns <= ScreenSize
    BY <2>5, CursorPlace
  <2>8. a \in 0 .. ScreenSize - 1 /\ c.pos - 1 = c.origin + a
    BY <1>2, <2>5, <2>6, <2>7, RowsAre
  <2>9. w \in Videos /\ Cells(w, c.origin) = [Screened(c) EXCEPT ![a] = video_erase_char]
    BY <2>3, <2>5, <2>8, OneErased DEF Screened
  <2>10. Placed(d) /\ d.x = e.x /\ View(d) = [View(e) EXCEPT !.cell = Cells(w, c.origin)]
    <3>1. Placed(e) /\ w \in Videos /\ e.origin = c.origin
      BY <2>2, <2>9
    <3>2. Placed(d) /\ d.x = e.x /\ View(d) = [View(e) EXCEPT !.cell = Cells(w, e.origin)]
      BY <2>4, <3>1, RedrawnIs
    <3> QED BY <3>1, <3>2
  <2>11. TheScreen!Rubout(View(c), View(d))
    <3>1. TheScreen!Place(View(c)) - 1 = a
      BY <2>5, <2>6, CursorPlace
    <3>2. PICK f, i, j, p, q : /\ f = Screened(c) /\ i = c.x /\ j = c.y /\ p = c.top /\ q = c.bottom
      OBVIOUS
    <3>3. View(c) = [cell |-> f, x |-> i, y |-> j, top |-> p, bottom |-> q]
      BY <3>2 DEF View
    <3>4. View(d) = [cell |-> [f EXCEPT ![a] = video_erase_char], x |-> i - 1, y |-> j, top |-> p, bottom |-> q]
      <4>1. View(e) = [cell |-> f, x |-> i - 1, y |-> j, top |-> p, bottom |-> q]
        BY <2>2, <3>2, <3>3
      <4>2. Cells(w, c.origin) = [f EXCEPT ![a] = video_erase_char]
        BY <2>9, <3>2
      <4> QED BY <2>10, <4>1, <4>2
    <3>5. PICK s : s = [View(c) EXCEPT !.x = i - 1]
      OBVIOUS
    <3>6. s = [cell |-> f, x |-> i - 1, y |-> j, top |-> p, bottom |-> q]
      BY <3>3, <3>5
    <3>7. [s EXCEPT !.cell[a] = video_erase_char]
             = [cell |-> [f EXCEPT ![a] = video_erase_char], x |-> i - 1, y |-> j, top |-> p, bottom |-> q]
      BY <3>6
    <3>8. [View(c) EXCEPT !.x = i - 1, !.cell[a] = video_erase_char] = [s EXCEPT !.cell[a] = video_erase_char]
      BY <3>5
    <3>9. View(c).x = i /\ i > 0
      BY <1>2, <2>5, <3>2, <3>3
    <3>10. View(d) = [View(c) EXCEPT !.x = @ - 1, !.cell[TheScreen!Place(View(c)) - 1] = video_erase_char]
      BY <3>1, <3>4, <3>7, <3>8, <3>9
    <3> QED BY <3>9, <3>10 DEF TheScreen!Rubout
  <2> QED BY <2>2, <2>10, <2>11 DEF TheScreen!Step, InItsRow
<1> QED BY <1>1, <1>2

LEMMA WrappedIs ==
    ASSUME NEW c, Placed(c), c.x >= video_num_columns, NEW d, d = wrap(c)
    PROVE  Placed(d) /\ d.x = c.x - video_num_columns /\ View(d) = TheScreen!Wrapped(View(c))
<1>1. /\ c \in Consoles /\ c.origin \in Nat /\ c.pos = c.origin + c.y * video_num_columns + c.x
      /\ c.y * video_num_columns \in Nat /\ c.x \in Nat /\ video_num_columns \in Nat
  <2>1. video_num_columns \in Nat
    BY RowsAre
  <2> QED BY <2>1, PlacedIs
<1>2. PICK i, p : i = c.x - video_num_columns /\ p = c.pos - video_num_columns
  OBVIOUS
<1>3. i \in Nat /\ p = c.origin + c.y * video_num_columns + i
  BY <1>1, <1>2
<1>4. PICK e : e = [c EXCEPT !.x = i, !.pos = p]
  OBVIOUS
<1>5. d = lf(e)
  BY <1>1, <1>2, <1>4 DEF wrap
<1>6. InColumn(c, e, i, p)
  BY <1>3, <1>4 DEF InColumn
<1>7. Placed(e) /\ e.x = i /\ View(e) = [View(c) EXCEPT !.x = i]
  BY <1>3, <1>6, InOtherColumn
<1>8. Placed(d) /\ d.x = e.x /\ View(d) = TheScreen!Fed(View(e))
  BY <1>5, <1>7, LineFed
<1>9. [View(c) EXCEPT !.x = @ - video_num_columns] = [View(c) EXCEPT !.x = i]
  BY <1>2, ViewIs
<1>10. TheScreen!Wrapped(View(c)) = TheScreen!Fed([View(c) EXCEPT !.x = @ - video_num_columns])
  BY DEF TheScreen!Wrapped
<1>11. TheScreen!Wrapped(View(c)) = TheScreen!Fed(View(e))
  BY <1>7, <1>9, <1>10, Zenon
<1> QED BY <1>2, <1>7, <1>8, <1>11

LEMMA CellWritten ==
    ASSUME NEW v \in Videos, NEW o \in Nat, o + ScreenSize <= VideoCells, NEW a \in 0 .. ScreenSize - 1,
           NEW s, s = o + a, NEW val \in Attributes, NEW w, w = [v EXCEPT ![s] = val]
    PROVE  s \in VideoMem /\ w \in Videos /\ Cells(w, o) = [Cells(v, o) EXCEPT ![a] = val]
<1>1. ScreenSize \in Nat /\ VideoCells \in Nat
  BY RowsAre
<1>2. s \in VideoMem
  BY <1>1 DEF VideoMem
<1>3. w \in Videos
  BY <1>2 DEF Videos
<1>4. ASSUME NEW k \in 0 .. ScreenSize - 1
      PROVE  w[o + k] = IF k = a THEN val ELSE v[o + k]
  <2>1. o + k \in VideoMem /\ (k = a <=> o + k = s)
    BY <1>1 DEF VideoMem
  <2> QED BY <1>2, <2>1 DEF Videos
<1>5. Cells(w, o) = [k \in 0 .. ScreenSize - 1 |-> IF k = a THEN val ELSE v[o + k]]
  BY <1>4 DEF Cells
<1> QED BY <1>2, <1>3, <1>5 DEF Cells

LEMMA put_charIs ==
    ASSUME NEW c, InItsRow(c), NEW val \in Attributes, NEW d, d = put_char(c, val)
    PROVE  InItsRow(d) /\ TheScreen!Type(View(c), View(d))
<1>1. PICK e : e = IF c.x >= video_num_columns THEN wrap(c) ELSE c
  OBVIOUS
<1>2. /\ Placed(c) /\ c.x \in Nat /\ c.x <= video_num_columns
      /\ video_num_columns \in Nat /\ video_num_columns >= 2
  BY PlacedIs, RowsAre DEF InItsRow
<1>3. View(c).x = c.x
  BY <1>2, ViewIs
<1>4. Placed(e) /\ e.x < video_num_columns
      /\ View(e) = IF View(c).x >= video_num_columns THEN TheScreen!Wrapped(View(c)) ELSE View(c)
  <2>1. CASE c.x >= video_num_columns
    <3>1. Placed(e) /\ e.x = c.x - video_num_columns /\ View(e) = TheScreen!Wrapped(View(c))
      <4>1. e = wrap(c)
        BY <1>1, <2>1
      <4> QED BY <1>2, <2>1, <4>1, WrappedIs
    <3> QED BY <1>2, <1>3, <2>1, <3>1
  <2>2. CASE ~(c.x >= video_num_columns)
    BY <1>1, <1>2, <1>3, <2>2
  <2> QED BY <2>1, <2>2
<1>5. PICK a : a = e.y * video_num_columns + e.x
  OBVIOUS
<1>6. /\ e \in Consoles /\ e.video \in Videos /\ e.origin \in Nat /\ e.origin + ScreenSize <= VideoCells
      /\ e.pos = e.origin + e.y * video_num_columns + e.x /\ e.x \in Nat
      /\ e.y * video_num_columns \in Nat
  BY <1>4, PlacedIs
<1>7. /\ e.y * video_num_columns + video_num_columns <= ScreenSize
      /\ TheScreen!Place(View(e)) = a
  BY <1>4, <1>5, CursorPlace
<1>8. a \in 0 .. ScreenSize - 1 /\ e.pos = e.origin + a
  BY <1>2, <1>4, <1>5, <1>6, <1>7, RowsAre
<1>9. PICK w : w = [e.video EXCEPT ![e.pos] = val]
  OBVIOUS
<1>10. e.pos \in VideoMem /\ w \in Videos /\ Cells(w, e.origin) = [Screened(e) EXCEPT ![a] = val]
  BY <1>6, <1>8, <1>9, CellWritten DEF Screened
<1>11. PICK m : m = [e EXCEPT !.video = w]
  OBVIOUS
<1>12. Redrawn(e, m, w)
  BY <1>11 DEF Redrawn
<1>13. /\ Placed(m) /\ m.x = e.x /\ m.y = e.y /\ m.pos = e.pos /\ m.origin = e.origin
       /\ Screened(m) = Cells(w, e.origin) /\ View(m) = [View(e) EXCEPT !.cell = Cells(w, e.origin)]
  BY <1>4, <1>10, <1>12, RedrawnIs
<1>14. PICK i, p : i = e.x + 1 /\ p = e.pos + 1
  OBVIOUS
<1>15. d = [m EXCEPT !.x = i, !.pos = p]
  <2>1. d = [e EXCEPT !.video = IF e.pos \in VideoMem THEN [e.video EXCEPT ![e.pos] = val] ELSE NoMemory,
                      !.pos = @ + 1, !.x = @ + 1]
    BY <1>1, <1>6 DEF put_char, Consoles
  <2>2. d = [e EXCEPT !.video = w, !.pos = p, !.x = i]
    BY <1>6, <1>9, <1>10, <1>14, <2>1 DEF Consoles
  <2> QED BY <1>6, <1>11, <2>2 DEF Consoles
<1>16. i \in Nat /\ i <= video_num_columns /\ InColumn(m, d, i, p)
  BY <1>2, <1>4, <1>6, <1>13, <1>14, <1>15 DEF InColumn
<1>17. Placed(d) /\ d.x = i /\ View(d) = [View(m) EXCEPT !.x = i]
  <2>1. Placed(m) /\ i \in Nat /\ InColumn(m, d, i, p)
    BY <1>13, <1>16
  <2> QED BY <2>1, InOtherColumn
<1>18. View(d) = [View(e) EXCEPT !.cell[TheScreen!Place(View(e))] = val, !.x = @ + 1]
  <2>1. PICK f, k, j, r, q : /\ f = Screened(e) /\ k = e.x /\ j = e.y /\ r = e.top /\ q = e.bottom
    OBVIOUS
  <2>2. View(e) = [cell |-> f, x |-> k, y |-> j, top |-> r, bottom |-> q]
    BY <2>1 DEF View
  <2>3. PICK s : s = [View(e) EXCEPT !.cell[a] = val]
    OBVIOUS
  <2>4. s = [cell |-> [f EXCEPT ![a] = val], x |-> k, y |-> j, top |-> r, bottom |-> q]
    BY <2>2, <2>3
  <2>5. View(m) = s
    <3>1. Cells(w, e.origin) = [f EXCEPT ![a] = val]
      BY <1>10, <2>1
    <3> QED BY <1>13, <2>2, <2>4, <3>1
  <2>6. [View(e) EXCEPT !.cell[a] = val, !.x = @ + 1] = [s EXCEPT !.x = @ + 1]
    BY <2>3
  <2>7. s.x + 1 = i
    BY <1>14, <2>1, <2>4
  <2>8. [s EXCEPT !.x = @ + 1] = [s EXCEPT !.x = i]
    BY <2>7
  <2>9. [View(e) EXCEPT !.cell[a] = val, !.x = @ + 1] = View(d)
    BY <1>17, <2>5, <2>6, <2>8
  <2> QED BY <1>7, <2>9
<1>19. TheScreen!Type(View(c), View(d))
  <2>1. PICK s, t, u : s = View(c) /\ t = View(d) /\ u = View(e)
    OBVIOUS
  <2>2. u = IF s.x >= video_num_columns THEN TheScreen!Wrapped(s) ELSE s
    BY <1>4, <2>1
  <2>3. t = [u EXCEPT !.cell[TheScreen!Place(u)] = val, !.x = @ + 1]
    BY <1>18, <2>1
  <2>4. TheScreen!Type(s, t)
    BY <2>2, <2>3 DEF TheScreen!Type
  <2> QED BY <2>1, <2>4
<1> QED BY <1>16, <1>17, <1>19 DEF InItsRow

LEMMA TabStop ==
    ASSUME NEW i \in Nat, i <= video_num_columns, NEW n, n = TabStops - (i % TabStops)
    PROVE  /\ n \in Nat /\ (i < video_num_columns => i + n <= video_num_columns)
           /\ (i = video_num_columns => n <= video_num_columns)
<1>1. PICK T, C : T = TabStops /\ C = video_num_columns
  OBVIOUS
<1>2. T \in Nat \ {0} /\ C \in Nat \ {0} /\ C % T = 0
  BY <1>1, ConsoleAssumption
<1>3. PICK q \in Nat : C = q * T
  <2>1. C \div T \in Nat /\ (C \div T) * T + (C % T) = C
    BY <1>2, Division
  <2>2. PICK k : k = C \div T
    OBVIOUS
  <2>3. k \in Nat /\ k * T + 0 = C
    BY <1>2, <2>1, <2>2
  <2>4. k * T \in Nat
    BY <1>2, <2>3
  <2> QED BY <2>3, <2>4
<1>4. PICK r \in Nat, m \in Nat : i = r * T + m /\ m = i % T /\ m < T
  <2>1. i \div T \in Nat /\ i % T \in Nat /\ (i \div T) * T + (i % T) = i /\ i % T < T
    BY <1>2, Division
  <2> QED BY <2>1
<1>5. n = T - m /\ n \in Nat
  BY <1>1, <1>2, <1>4
<1>6. q * T \in Nat /\ r * T \in Nat
  BY <1>2, <1>3, <1>4
<1>7. ASSUME i < C PROVE i + n <= C
  <2>1. r < q
    <3>1. SUFFICES ASSUME r >= q PROVE FALSE
      BY <1>3, <1>4
    <3>2. PICK k \in Nat : r = q + k
      <4>1. r - q \in Nat /\ r = q + (r - q)
        BY <1>3, <1>4, <3>1
      <4> QED BY <4>1
    <3>3. r * T = q * T + k * T /\ k * T \in Nat
      BY <1>2, <1>3, <3>2
    <3> QED BY <1>3, <1>4, <1>6, <1>7, <3>3
  <2>2. PICK k \in Nat : q = r + 1 + k
    <3>1. q - r - 1 \in Nat /\ q = r + 1 + (q - r - 1)
      BY <1>3, <1>4, <2>1
    <3> QED BY <3>1
  <2>3. q * T = r * T + T + k * T /\ k * T \in Nat
    BY <1>2, <1>4, <2>2
  <2> QED BY <1>2, <1>3, <1>4, <1>5, <1>6, <2>3
<1>8. n <= C
  <2>1. q # 0
    BY <1>2, <1>3
  <2>2. PICK k \in Nat : q = 1 + k
    <3>1. q - 1 \in Nat /\ q = 1 + (q - 1)
      BY <1>3, <2>1
    <3> QED BY <3>1
  <2>3. q * T = T + k * T /\ k * T \in Nat
    BY <1>2, <2>2
  <2> QED BY <1>2, <1>3, <1>4, <1>5, <2>3
<1> QED BY <1>1, <1>5, <1>7, <1>8

LEMMA tabIs ==
    ASSUME NEW c, InItsRow(c), NEW d, d = tab(c)
    PROVE  InItsRow(d) /\ TheScreen!Tab(View(c), View(d))
<1>1. /\ Placed(c) /\ c \in Consoles /\ c.origin \in Nat /\ c.pos = c.origin + c.y * video_num_columns + c.x
      /\ c.y * video_num_columns \in Nat /\ c.x \in Nat /\ c.x <= video_num_columns /\ video_num_columns \in Nat
      /\ c.pos \in Nat
  BY PlacedIs, RowsAre DEF InItsRow
<1>2. PICK n, i, p : n = TabStops - (c.x % TabStops) /\ i = c.x + n /\ p = c.pos + n
  OBVIOUS
<1>3. /\ n \in Nat /\ (c.x < video_num_columns => i <= video_num_columns)
      /\ (c.x = video_num_columns => n <= video_num_columns)
  BY <1>1, <1>2, TabStop
<1>4. PICK e : e = [c EXCEPT !.x = i, !.pos = p]
  OBVIOUS
<1>5. d = IF e.x > video_num_columns THEN wrap(e) ELSE e
  <2>1. e = [c EXCEPT !.x = @ + n, !.pos = @ + n]
    BY <1>1, <1>2, <1>4 DEF Consoles
  <2> QED BY <1>2, <2>1 DEF tab
<1>6. i \in Nat /\ InColumn(c, e, i, p)
  BY <1>1, <1>2, <1>3, <1>4 DEF InColumn
<1>7. Placed(e) /\ e.x = i /\ View(e) = [View(c) EXCEPT !.x = i]
  BY <1>1, <1>6, InOtherColumn
<1>8. View(e).x = i
  BY <1>7, ViewIs
<1>9. [View(c) EXCEPT !.x = @ + TabStops - (@ % TabStops)] = View(e)
  <2>1. View(c).x + TabStops - (View(c).x % TabStops) = i
    <3>1. TabStops \in Nat \ {0}
      BY ConsoleAssumption
    <3>2. c.x % TabStops \in Nat
      BY <1>1, <3>1, Division
    <3>3. View(c).x = c.x
      BY <1>1, ViewIs
    <3> QED BY <1>1, <1>2, <3>1, <3>2, <3>3
  <2> QED BY <1>7, <2>1
<1>10. /\ InItsRow(d)
       /\ View(d) = IF View(e).x > video_num_columns THEN TheScreen!Wrapped(View(e)) ELSE View(e)
  <2>1. CASE i > video_num_columns
    <3>1. Placed(d) /\ d.x = e.x - video_num_columns /\ View(d) = TheScreen!Wrapped(View(e))
      <4>1. Placed(e) /\ e.x >= video_num_columns /\ d = wrap(e)
        BY <1>1, <1>5, <1>6, <1>7, <2>1
      <4> QED BY <4>1, WrappedIs
    <3>2. d.x <= video_num_columns
      BY <1>1, <1>2, <1>3, <1>7, <2>1, <3>1
    <3> QED BY <1>8, <2>1, <3>1, <3>2 DEF InItsRow
  <2>2. CASE ~(i > video_num_columns)
    <3>1. d = e /\ i <= video_num_columns
      BY <1>1, <1>5, <1>6, <1>7, <2>2
    <3> QED BY <1>7, <1>8, <2>2, <3>1 DEF InItsRow
  <2> QED BY <2>1, <2>2
<1>11. TheScreen!Tab(View(c), View(d))
  <2>1. PICK s, t, u : s = View(c) /\ t = View(d) /\ u = View(e)
    OBVIOUS
  <2>2. u = [s EXCEPT !.x = @ + TabStops - (@ % TabStops)]
    BY <1>9, <2>1
  <2>3. t = IF u.x > video_num_columns THEN TheScreen!Wrapped(u) ELSE u
    BY <1>10, <2>1
  <2>4. TheScreen!Tab(s, t)
    BY <2>2, <2>3 DEF TheScreen!Tab
  <2> QED BY <2>1, <2>4
<1> QED BY <1>10, <1>11

-----------------------------------------------------------------------------
\* The commands that erase, put in and take out.
Wiped(c, d, s, n) == d = [c EXCEPT !.video = Erased(@, s, n)]

LEMMA WipedIs ==
    ASSUME NEW c, InItsRow(c), NEW a \in Nat, NEW b \in Nat, a <= b, b <= ScreenSize,
           NEW s, s = c.origin + a, NEW n, n = b - a, NEW d, Wiped(c, d, s, n)
    PROVE  /\ InItsRow(d) /\ View(d) = [View(c) EXCEPT !.cell = Screened(d)]
           /\ Screened(d) = TheScreen!Cleared(Screened(c), a, b)
<1>1. PICK v, o : v = c.video /\ o = c.origin
  OBVIOUS
<1>2. /\ Placed(c) /\ c \in Consoles /\ v \in Videos /\ o \in Nat /\ o + ScreenSize <= VideoCells
      /\ c.x <= video_num_columns
  BY <1>1, PlacedIs DEF InItsRow
<1>3. PICK w : w = Erased(v, s, n)
  OBVIOUS
<1>4. w \in Videos /\ Cells(w, o) = ShiftLeft(Cells(v, o), a, b, b - a)
  <2>1. /\ v \in Videos /\ o \in Nat /\ o + ScreenSize <= VideoCells /\ s = o + a /\ n = b - a
        /\ w = Erased(v, s, n)
    BY <1>1, <1>2, <1>3
  <2> QED BY <2>1, CellsErased
<1>5. Redrawn(c, d, w)
  BY <1>1, <1>2, <1>3 DEF Wiped, Redrawn, Consoles
<1>6. /\ Placed(d) /\ d.x = c.x /\ Screened(d) = Cells(w, c.origin)
      /\ View(d) = [View(c) EXCEPT !.cell = Cells(w, c.origin)]
  BY <1>2, <1>4, <1>5, RedrawnIs
<1>7. Screened(c) = Cells(v, o)
  BY <1>1 DEF Screened
<1>8. Screened(d) = TheScreen!Cleared(Screened(c), a, b)
  <2>1. TheScreen!Cleared(Screened(c), a, b) = TheScreen!Left(Screened(c), a, b, b - a)
    BY DEF TheScreen!Cleared
  <2>2. TheScreen!Left(Screened(c), a, b, b - a) = ShiftLeft(Screened(c), a, b, b - a)
    BY ShiftsAre
  <2> QED BY <1>1, <1>4, <1>6, <1>7, <2>1, <2>2
<1> QED BY <1>2, <1>6, <1>8 DEF InItsRow

LEMMA Edited ==
    ASSUME NEW c, Placed(c), NEW d, Placed(d), View(d) = [View(c) EXCEPT !.cell = Screened(d)],
           \/ TheScreen!Erase(View(c), View(d)) \/ TheScreen!MoveLines(View(c), View(d))
           \/ TheScreen!MoveChars(View(c), View(d))
    PROVE  TheScreen!Step(View(c), View(d))
<1>1. View(d).cell = Screened(d)
  BY ViewIs
<1>2. PICK s, t : s = View(c) /\ t = View(d)
  OBVIOUS
<1>3. t = [s EXCEPT !.cell = t.cell]
  BY <1>1, <1>2
<1>4. TheScreen!Erase(s, t) \/ TheScreen!MoveLines(s, t) \/ TheScreen!MoveChars(s, t)
  BY <1>2
<1>5. TheScreen!Edit(s, t)
  BY <1>3, <1>4 DEF TheScreen!Edit
<1> QED BY <1>2, <1>5 DEF TheScreen!Step

LEMMA ErasesIs ==
    ASSUME NEW c, InItsRow(c), NEW a \in Nat, NEW b \in Nat, a <= b, b <= ScreenSize,
           NEW s, s = c.origin + a, NEW n, n = b - a, NEW d, Wiped(c, d, s, n),
           TheScreen!Cleared(View(c).cell, a, b) \in
               {TheScreen!Cleared(View(c).cell, TheScreen!Place(View(c)), TheScreen!Size),
                TheScreen!Cleared(View(c).cell, 0, TheScreen!Place(View(c))),
                TheScreen!Cleared(View(c).cell, 0, TheScreen!Size),
                TheScreen!Cleared(View(c).cell, TheScreen!Place(View(c)), TheScreen!RowEnd(View(c))),
                TheScreen!Cleared(View(c).cell, TheScreen!RowStart(View(c)), TheScreen!Place(View(c))),
                TheScreen!Cleared(View(c).cell, TheScreen!RowStart(View(c)), TheScreen!RowEnd(View(c)))}
    PROVE  InItsRow(d) /\ TheScreen!Step(View(c), View(d))
<1>1. /\ InItsRow(d) /\ View(d) = [View(c) EXCEPT !.cell = Screened(d)]
      /\ Screened(d) = TheScreen!Cleared(Screened(c), a, b)
  BY WipedIs
<1>2. Placed(c) /\ Placed(d)
  BY <1>1 DEF InItsRow
<1>3. View(d).cell = Screened(d) /\ View(c).cell = Screened(c)
  BY <1>2, ViewIs
<1>4. View(d).cell = TheScreen!Cleared(View(c).cell, a, b)
  BY <1>1, <1>3
<1>5. TheScreen!Erase(View(c), View(d))
  BY <1>4 DEF TheScreen!Erase
<1> QED BY <1>1, <1>2, <1>5, Edited

\* The cells of the cursor and of its row.
LEMMA RowOfCursor ==
    ASSUME NEW c, InItsRow(c)
    PROVE  \E a \in Nat, p \in Nat, b \in Nat :
              /\ a = TheScreen!RowStart(View(c)) /\ p = TheScreen!Place(View(c))
              /\ b = TheScreen!RowEnd(View(c)) /\ a <= p /\ p <= b /\ b <= ScreenSize
              /\ p = a + c.x /\ b = a + video_num_columns
              /\ a = c.y * video_num_columns
              /\ c.pos = c.origin + p /\ c.pos - c.x = c.origin + a
              /\ c.scr_end = c.origin + ScreenSize /\ c.origin \in Nat /\ ScreenSize \in Nat
              /\ c.x \in Nat /\ c.x <= video_num_columns /\ video_num_columns \in Nat
<1>1. /\ Placed(c) /\ c.x <= video_num_columns
  BY DEF InItsRow
<1>2. /\ c.x \in Nat /\ c.y * video_num_columns \in Nat /\ c.origin \in Nat
      /\ c.pos = c.origin + c.y * video_num_columns + c.x /\ c.scr_end = c.origin + ScreenSize
  BY <1>1, PlacedIs
<1>3. PICK a, p, b : a = TheScreen!RowStart(View(c)) /\ p = TheScreen!Place(View(c)) /\ b = TheScreen!RowEnd(View(c))
  OBVIOUS
<1>4. /\ p = c.y * video_num_columns + c.x /\ a = c.y * video_num_columns
      /\ b = c.y * video_num_columns + video_num_columns /\ b <= ScreenSize
  BY <1>1, <1>3, CursorPlace
<1>5. video_num_columns \in Nat /\ ScreenSize \in Nat
  BY RowsAre
<1>6. /\ a \in Nat /\ p \in Nat /\ b \in Nat /\ a <= p /\ p <= b /\ p = a + c.x /\ b = a + video_num_columns
      /\ c.pos = c.origin + p /\ c.pos - c.x = c.origin + a
  BY <1>1, <1>2, <1>4, <1>5
<1> QED BY <1>1, <1>2, <1>3, <1>4, <1>5, <1>6

LEMMA csi_JIs ==
    ASSUME NEW c, InItsRow(c), NEW k \in Nat, NEW d, d = csi_J(c, k)
    PROVE  InItsRow(d) /\ TheScreen!Step(View(c), View(d))
<1>1. PICK a \in Nat, p \in Nat, b \in Nat :
              /\ a = TheScreen!RowStart(View(c)) /\ p = TheScreen!Place(View(c))
              /\ b = TheScreen!RowEnd(View(c)) /\ a <= p /\ p <= b /\ b <= ScreenSize
              /\ c.pos = c.origin + p
              /\ c.scr_end = c.origin + ScreenSize /\ c.origin \in Nat /\ ScreenSize \in Nat
  BY RowOfCursor
<1>2. TheScreen!Size = ScreenSize
  BY ShiftsAre
<1>3. CASE k = 0
  <2>1. PICK s, n : s = c.pos /\ n = c.scr_end - c.pos
    OBVIOUS
  <2>2. p <= ScreenSize /\ s = c.origin + p /\ n = ScreenSize - p
    BY <1>1, <2>1
  <2>3. Wiped(c, d, s, n)
    BY <1>3, <2>1 DEF csi_J, Wiped
  <2> QED BY <1>1, <1>2, <2>2, <2>3, ErasesIs
<1>4. CASE k = 1
  <2>1. PICK s, n : s = c.origin /\ n = c.pos - c.origin
    OBVIOUS
  <2>2. 0 \in Nat /\ 0 <= p /\ p <= ScreenSize /\ s = c.origin + 0 /\ n = p - 0
    BY <1>1, <2>1
  <2>3. Wiped(c, d, s, n)
    BY <1>4, <2>1 DEF csi_J, Wiped
  <2> QED BY <1>1, <1>2, <2>2, <2>3, ErasesIs
<1>5. CASE k = 2
  <2>1. PICK s, n : s = c.origin /\ n = ScreenSize
    OBVIOUS
  <2>2. 0 \in Nat /\ 0 <= ScreenSize /\ ScreenSize <= ScreenSize /\ s = c.origin + 0 /\ n = ScreenSize - 0
    BY <1>1, <2>1
  <2>3. Wiped(c, d, s, n)
    BY <1>5, <2>1 DEF csi_J, Wiped
  <2> QED BY <1>1, <1>2, <2>2, <2>3, ErasesIs
<1>6. CASE k \notin {0, 1, 2}
  <2>1. d = c
    BY <1>6 DEF csi_J
  <2> QED BY <2>1 DEF TheScreen!Step
<1> QED BY <1>3, <1>4, <1>5, <1>6

LEMMA csi_KIs ==
    ASSUME NEW c, InItsRow(c), NEW k \in Nat, NEW d, d = csi_K(c, k)
    PROVE  InItsRow(d) /\ TheScreen!Step(View(c), View(d))
<1>1. PICK a \in Nat, p \in Nat, b \in Nat :
              /\ a = TheScreen!RowStart(View(c)) /\ p = TheScreen!Place(View(c))
              /\ b = TheScreen!RowEnd(View(c)) /\ a <= p /\ p <= b /\ b <= ScreenSize
              /\ p = a + c.x /\ b = a + video_num_columns
              /\ c.pos = c.origin + p /\ c.pos - c.x = c.origin + a
              /\ c.origin \in Nat /\ ScreenSize \in Nat
              /\ c.x \in Nat /\ c.x <= video_num_columns /\ video_num_columns \in Nat
  BY RowOfCursor
<1>3. CASE k = 0 /\ c.x < video_num_columns
  <2>1. PICK s, n : s = c.pos /\ n = video_num_columns - c.x
    OBVIOUS
  <2>2. s = c.origin + p /\ n = b - p
    BY <1>1, <2>1
  <2>3. Wiped(c, d, s, n)
    BY <1>3, <2>1 DEF csi_K, Wiped
  <2> QED BY <1>1, <2>2, <2>3, ErasesIs
<1>4. CASE k = 1
  <2>1. PICK s, n : s = c.pos - c.x /\ n = c.x
    OBVIOUS
  <2>2. p <= ScreenSize /\ s = c.origin + a /\ n = p - a
    BY <1>1, <2>1
  <2>3. Wiped(c, d, s, n)
    BY <1>4, <2>1 DEF csi_K, Wiped
  <2> QED BY <1>1, <2>2, <2>3, ErasesIs
<1>5. CASE k = 2
  <2>1. PICK s, n : s = c.pos - c.x /\ n = video_num_columns
    OBVIOUS
  <2>2. a <= b /\ s = c.origin + a /\ n = b - a
    BY <1>1, <2>1
  <2>3. Wiped(c, d, s, n)
    BY <1>5, <2>1 DEF csi_K, Wiped
  <2> QED BY <1>1, <2>2, <2>3, ErasesIs
<1>6. CASE ~(k = 0 /\ c.x < video_num_columns) /\ k # 1 /\ k # 2
  <2>1. d = c
    BY <1>6 DEF csi_K
  <2> QED BY <2>1 DEF TheScreen!Step
<1> QED BY <1>3, <1>4, <1>5, <1>6

-----------------------------------------------------------------------------
\* The commands that take a number of times.  The consoles that differ from c
\* in what they show and where they keep it.
Kin(c) == {d \in Consoles : /\ InItsRow(d) /\ d.x = c.x /\ d.y = c.y
                            /\ d.top = c.top /\ d.bottom = c.bottom}
Shift(way, u, a, b, n) == IF way = "left" THEN ShiftLeft(u, a, b, n) ELSE ShiftRight(u, a, b, n)

LEMMA KinIs ==
    ASSUME NEW c, NEW d, d \in Kin(c)
    PROVE  /\ InItsRow(d) /\ Placed(d) /\ d.x = c.x /\ d.y = c.y /\ d.top = c.top /\ d.bottom = c.bottom
           /\ Kin(d) = Kin(c) /\ View(d) = [View(c) EXCEPT !.cell = Screened(d)]
<1>1. /\ InItsRow(d) /\ d.x = c.x /\ d.y = c.y /\ d.top = c.top /\ d.bottom = c.bottom
  BY DEF Kin
<1>2. Kin(d) = Kin(c)
  BY <1>1 DEF Kin
<1>3. View(d) = [View(c) EXCEPT !.cell = Screened(d)]
  BY <1>1 DEF View
<1> QED BY <1>1, <1>2, <1>3 DEF InItsRow

LEMMA ItsOwnKin ==
    ASSUME NEW c, InItsRow(c)
    PROVE  c \in Kin(c)
<1>1. c \in Consoles
  BY PlacedIs DEF InItsRow
<1> QED BY <1>1 DEF Kin

LEMMA ShiftAgain ==
    ASSUME NEW way, NEW u, NEW a \in Nat, NEW b \in Nat, b <= ScreenSize,
           NEW n \in Nat, NEW m \in Nat
    PROVE  Shift(way, Shift(way, u, a, b, n), a, b, m) = Shift(way, u, a, b, n + m)
<1>1. /\ ShiftLeft(ShiftLeft(u, a, b, n), a, b, m) = ShiftLeft(u, a, b, n + m)
      /\ ShiftRight(ShiftRight(u, a, b, n), a, b, m) = ShiftRight(u, a, b, n + m)
  BY ShiftsAdd
<1> QED BY <1>1 DEF Shift

\* f is a row of consoles, each one shifted by s from the one before.
InShifts(f, c, n, way, a, b, s) ==
    /\ f[0] = c
    /\ \A k \in 1 .. n : f[k - 1] \in Kin(c) =>
          f[k] \in Kin(c) /\ Screened(f[k]) = Shift(way, Screened(f[k - 1]), a, b, s)

\* n times a shift by s is a shift by n * s.
LEMMA Repeats ==
    ASSUME NEW c, InItsRow(c), NEW way, NEW a \in Nat, NEW b \in Nat, b <= ScreenSize,
           NEW s \in Nat, NEW n \in Nat, NEW f, InShifts(f, c, n, way, a, b, s)
    PROVE  f[n] \in Kin(c) /\ Screened(f[n]) = Shift(way, Screened(c), a, b, n * s)
<1> DEFINE Well(k) == f[k] \in Kin(c) /\ Screened(f[k]) = Shift(way, Screened(c), a, b, k * s)
<1>1. PICK Bad : Bad = {k \in 0 .. n : ~Well(k)}
  OBVIOUS
<1>2. SUFFICES ASSUME Bad # {} PROVE FALSE
  BY <1>1
<1>3. PICK k \in Bad : \A i \in Bad : k <= i
  <2>1. Bad \in SUBSET Nat
    BY <1>1
  <2> QED BY <1>2, <2>1, LeastNat
<1>4. k \in 0 .. n /\ ~Well(k)
  BY <1>1
<1>5. Well(0)
  <2>1. 0 * s = 0
    OBVIOUS
  <2>2. Shift(way, Screened(c), a, b, 0) = Screened(c)
    BY NoShift DEF Shift, Screened
  <2>3. f[0] = c
    BY DEF InShifts
  <2> QED BY <2>1, <2>2, <2>3, ItsOwnKin
<1>6. k # 0
  BY <1>4, <1>5
<1>7. PICK j \in Nat : j = k - 1
  <2>1. k - 1 \in Nat
    BY <1>4, <1>6
  <2> QED BY <2>1
<1>8. j \in 0 .. n /\ j \notin Bad /\ k \in 1 .. n /\ j = k - 1 /\ k = j + 1
  BY <1>3, <1>4, <1>6, <1>7
<1>9. Well(j)
  BY <1>1, <1>8
<1>10. f[k] \in Kin(c) /\ Screened(f[k]) = Shift(way, Screened(f[j]), a, b, s)
  BY <1>8, <1>9 DEF InShifts
<1>11. j * s \in Nat /\ k * s = j * s + s
  BY <1>8
<1>12. Shift(way, Shift(way, Screened(c), a, b, j * s), a, b, s) = Shift(way, Screened(c), a, b, j * s + s)
  BY <1>11, ShiftAgain
<1>13. Well(k)
  BY <1>9, <1>10, <1>11, <1>12
<1> QED BY <1>4, <1>13

LEMMA TimesIs ==
    ASSUME NEW nr \in Nat, NEW limit \in Nat \ {0}
    PROVE  Times(nr, limit) \in 1 .. limit
BY DEF Times

LEMMA EmptySpan ==
    ASSUME NEW c, NEW a \in Nat
    PROVE  /\ ShiftLeft(Screened(c), a, a, 1) = Screened(c)
           /\ ShiftRight(Screened(c), a, a, 1) = Screened(c)
<1>1. ASSUME NEW k \in 0 .. ScreenSize - 1
      PROVE  k < a \/ k >= a
  BY RowsAre
<1> QED BY <1>1 DEF ShiftLeft, ShiftRight, Screened, Cells

LEMMA RedrawnKin ==
    ASSUME NEW c, InItsRow(c), NEW w \in Videos, NEW d, Redrawn(c, d, w)
    PROVE  d \in Kin(c) /\ Screened(d) = Cells(w, c.origin)
<1>1. /\ Placed(d) /\ d.x = c.x /\ d.y = c.y /\ d.top = c.top /\ d.bottom = c.bottom
      /\ Screened(d) = Cells(w, c.origin)
  BY RedrawnIs DEF InItsRow
<1>2. d \in Consoles /\ InItsRow(d)
  BY <1>1, PlacedIs DEF InItsRow
<1> QED BY <1>1, <1>2 DEF Kin

LEMMA insert_charIs ==
    ASSUME NEW c, InItsRow(c), NEW d, d = insert_char(c), NEW a \in Nat, NEW b \in Nat,
           a = TheScreen!Place(View(c)), b = TheScreen!RowEnd(View(c))
    PROVE  d \in Kin(c) /\ Screened(d) = ShiftRight(Screened(c), a, b, 1)
<1>1. PICK v, o : v = c.video /\ o = c.origin
  OBVIOUS
<1>2. /\ c.x \in Nat /\ c.x <= video_num_columns /\ video_num_columns \in Nat
      /\ c.pos = o + a /\ b - a = video_num_columns - c.x /\ a <= b /\ b <= ScreenSize
      /\ o \in Nat
  BY <1>1, RowOfCursor
<1>3. v \in Videos /\ o + ScreenSize <= VideoCells /\ c \in Consoles
  BY <1>1, PlacedIs DEF InItsRow
<1>4. CASE c.x >= video_num_columns
  <2>1. d = c /\ a = b
    BY <1>2, <1>4 DEF insert_char
  <2> QED BY <2>1, ItsOwnKin, EmptySpan
<1>5. CASE ~(c.x >= video_num_columns)
  <2>1. PICK m, w : m = b - a - 1 /\ w = Erased(Moved(v, o + a, o + a + 1, m), o + a, 1)
    OBVIOUS
  <2>2. w \in Videos /\ Cells(w, o) = ShiftRight(Cells(v, o), a, b, 1)
    <3>1. 1 \in Nat /\ a + 1 <= b
      BY <1>2, <1>5
    <3>2. m = b - a - 1 /\ w = Erased(Moved(v, o + a, o + a + 1, m), o + a, 1)
      BY <2>1
    <3> QED BY <1>2, <1>3, <3>1, <3>2, CellsRight
  <2>3. video_num_columns - c.x - 1 = m
    BY <1>2, <2>1
  <2>4. Redrawn(c, d, w)
    BY <1>1, <1>2, <1>3, <1>5, <2>1, <2>3 DEF insert_char, Redrawn, Consoles
  <2>5. d \in Kin(c) /\ Screened(d) = Cells(w, o)
    BY <1>1, <2>2, <2>4, RedrawnKin
  <2> QED BY <1>1, <2>2, <2>5 DEF Screened
<1> QED BY <1>4, <1>5

LEMMA delete_charIs ==
    ASSUME NEW c, InItsRow(c), NEW d, d = delete_char(c), NEW a \in Nat, NEW b \in Nat,
           a = TheScreen!Place(View(c)), b = TheScreen!RowEnd(View(c))
    PROVE  d \in Kin(c) /\ Screened(d) = ShiftLeft(Screened(c), a, b, 1)
<1>1. PICK v, o : v = c.video /\ o = c.origin
  OBVIOUS
<1>2. /\ c.x \in Nat /\ c.x <= video_num_columns /\ video_num_columns \in Nat
      /\ c.pos = o + a /\ b - a = video_num_columns - c.x /\ a <= b /\ b <= ScreenSize
      /\ o \in Nat
  BY <1>1, RowOfCursor
<1>3. v \in Videos /\ o + ScreenSize <= VideoCells /\ c \in Consoles
  BY <1>1, PlacedIs DEF InItsRow
<1>4. CASE c.x >= video_num_columns
  <2>1. d = c /\ a = b
    BY <1>2, <1>4 DEF delete_char
  <2> QED BY <2>1, ItsOwnKin, EmptySpan
<1>5. CASE ~(c.x >= video_num_columns)
  <2>1. PICK m, w : m = b - a - 1 /\ w = Erased(Moved(v, o + a + 1, o + a, m), o + b - 1, 1)
    OBVIOUS
  <2>2. w \in Videos /\ Cells(w, o) = ShiftLeft(Cells(v, o), a, b, 1)
    <3>1. 1 \in Nat /\ a + 1 <= b
      BY <1>2, <1>5
    <3>2. m = b - a - 1 /\ w = Erased(Moved(v, o + a + 1, o + a, m), o + b - 1, 1)
      BY <2>1
    <3> QED BY <1>2, <1>3, <3>1, <3>2, CellsLeft
  <2>3. video_num_columns - c.x - 1 = m /\ c.pos + m = o + b - 1 /\ c.pos + 1 = o + a + 1
    BY <1>2, <2>1
  <2>4. Redrawn(c, d, w)
    BY <1>1, <1>2, <1>3, <1>5, <2>1, <2>3 DEF delete_char, Redrawn, Consoles
  <2>5. d \in Kin(c) /\ Screened(d) = Cells(w, o)
    BY <1>1, <2>2, <2>4, RedrawnKin
  <2> QED BY <1>1, <2>2, <2>5 DEF Screened
<1> QED BY <1>4, <1>5

\* The region of a call of insert_line or delete_line, and back.
LEMMA RestOfScreen ==
    ASSUME NEW c, InItsRow(c), NEW e, e = OnRestOfScreen(c)
    PROVE  /\ Placed(e) /\ Screened(e) = Screened(c) /\ e.x = c.x /\ e.y = c.y
           /\ e.top = c.y /\ e.bottom = video_num_lines
<1>1. /\ Placed(c) /\ c \in Consoles /\ c.y \in 0 .. video_num_lines - 1 /\ c.y \in Nat
      /\ video_num_lines \in 0 .. video_num_lines /\ c.y < video_num_lines
  BY PlacedIs, RowsAre DEF InItsRow
<1>2. /\ e \in Consoles /\ e.ega = c.ega /\ e.video = c.video /\ e.origin = c.origin
      /\ e.scr_end = c.scr_end /\ e.pos = c.pos /\ e.x = c.x /\ e.y = c.y
      /\ e.top = c.y /\ e.bottom = video_num_lines
  BY <1>1 DEF OnRestOfScreen, Consoles
<1>3. Placed(e)
  BY <1>1, <1>2 DEF Placed, RowAt
<1> QED BY <1>2, <1>3 DEF Screened

LEMMA RegionRestored ==
    ASSUME NEW c, InItsRow(c), NEW e, Placed(e), e.x = c.x, e.y = c.y, NEW d, d = WithRegionOf(e, c)
    PROVE  d \in Kin(c) /\ Screened(d) = Screened(e)
<1>1. /\ Placed(c) /\ c.top \in Nat /\ c.bottom \in 0 .. video_num_lines /\ c.top < c.bottom
      /\ e \in Consoles
  BY PlacedIs DEF InItsRow
<1>2. /\ d \in Consoles /\ d.ega = e.ega /\ d.video = e.video /\ d.origin = e.origin
      /\ d.scr_end = e.scr_end /\ d.pos = e.pos /\ d.x = e.x /\ d.y = e.y
      /\ d.top = c.top /\ d.bottom = c.bottom
  BY <1>1 DEF WithRegionOf, Consoles
<1>3. Placed(d)
  BY <1>1, <1>2 DEF Placed, RowAt
<1>4. InItsRow(d)
  BY <1>2, <1>3 DEF InItsRow
<1> QED BY <1>2, <1>4 DEF Screened, Kin

LEMMA insert_lineIs ==
    ASSUME NEW c, InItsRow(c), NEW d, d = insert_line(c), NEW a \in Nat,
           a = TheScreen!RowStart(View(c))
    PROVE  d \in Kin(c) /\ Screened(d) = ShiftRight(Screened(c), a, ScreenSize, video_num_columns)
<1>1. PICK e, f : e = OnRestOfScreen(c) /\ f = scrdown(e)
  OBVIOUS
<1>2. /\ Placed(e) /\ Screened(e) = Screened(c) /\ e.x = c.x /\ e.y = c.y
      /\ e.top = c.y /\ e.bottom = video_num_lines
  BY <1>1, RestOfScreen
<1>3. /\ Placed(f) /\ f.x = e.x /\ f.y = e.y
      /\ Screened(f) = ShiftRight(Screened(e), e.top * video_num_columns,
                                  e.bottom * video_num_columns, video_num_columns)
  BY <1>1, <1>2, ScrolledDown
<1>4. a = c.y * video_num_columns
  BY CursorPlace DEF InItsRow
<1>5. video_num_lines * video_num_columns = ScreenSize
  BY RowsAre
<1>6. d = WithRegionOf(f, c)
  BY <1>1 DEF insert_line
<1>7. d \in Kin(c) /\ Screened(d) = Screened(f)
  BY <1>2, <1>3, <1>6, RegionRestored
<1> QED BY <1>2, <1>3, <1>4, <1>5, <1>7

LEMMA delete_lineIs ==
    ASSUME NEW c, InItsRow(c), NEW d, d = delete_line(c), NEW a \in Nat,
           a = TheScreen!RowStart(View(c))
    PROVE  d \in Kin(c) /\ Screened(d) = ShiftLeft(Screened(c), a, ScreenSize, video_num_columns)
<1>1. PICK e, f : e = OnRestOfScreen(c) /\ f = scrup(e)
  OBVIOUS
<1>2. /\ Placed(e) /\ Screened(e) = Screened(c) /\ e.x = c.x /\ e.y = c.y
      /\ e.top = c.y /\ e.bottom = video_num_lines
  BY <1>1, RestOfScreen
<1>3. /\ Placed(f) /\ f.x = e.x /\ f.y = e.y
      /\ Screened(f) = ShiftLeft(Screened(e), e.top * video_num_columns,
                                 e.bottom * video_num_columns, video_num_columns)
  BY <1>1, <1>2, ScrolledUp
<1>4. a = c.y * video_num_columns
  BY CursorPlace DEF InItsRow
<1>5. video_num_lines * video_num_columns = ScreenSize
  BY RowsAre
<1>6. d = WithRegionOf(f, c)
  BY <1>1 DEF delete_line
<1>7. d \in Kin(c) /\ Screened(d) = Screened(f)
  BY <1>2, <1>3, <1>6, RegionRestored
<1> QED BY <1>2, <1>3, <1>4, <1>5, <1>7

LEMMA RepeatedIs_insert_char ==
    ASSUME NEW c, InItsRow(c), NEW nr \in Nat, NEW d, d = csi_at(c, nr)
    PROVE  \E n \in 1 .. video_num_columns :
              /\ d \in Kin(c)
              /\ Screened(d) = TheScreen!Right(Screened(c), TheScreen!Place(View(c)), TheScreen!RowEnd(View(c)), n)
<1> DEFINE n == Times(nr, video_num_columns)
<1> DEFINE after == CHOOSE g : g = [k \in 0 .. n |-> IF k = 0 THEN c ELSE insert_char(g[k - 1])]
<1>1. PICK a \in Nat, b \in Nat, s \in Nat :
         /\ a = TheScreen!Place(View(c)) /\ b = TheScreen!RowEnd(View(c)) /\ s = 1 /\ b <= ScreenSize
  <2>1. PICK a \in Nat, p \in Nat, b \in Nat :
           /\ a = TheScreen!RowStart(View(c)) /\ p = TheScreen!Place(View(c)) /\ b = TheScreen!RowEnd(View(c))
           /\ b <= ScreenSize /\ ScreenSize \in Nat /\ video_num_columns \in Nat
    BY RowOfCursor
  <2> QED BY <2>1
<1>2. ASSUME NEW x \in Kin(c)
      PROVE  insert_char(x) \in Kin(c) /\ Screened(insert_char(x)) = Shift("right", Screened(x), a, b, s)
  <2>1. /\ InItsRow(x) /\ Placed(x) /\ Kin(x) = Kin(c) /\ x.x = c.x /\ x.y = c.y
    BY KinIs
  <2>2. Placed(c)
    BY DEF InItsRow
  <2>3. TheScreen!Place(View(x)) = a /\ TheScreen!RowEnd(View(x)) = b
    BY <1>1, <2>1, <2>2, CursorPlace
  <2>4. PICK y : y = insert_char(x)
    OBVIOUS
  <2>5. y \in Kin(x) /\ Screened(y) = ShiftRight(Screened(x), a, b, s)
    BY <1>1, <2>1, <2>3, <2>4, insert_charIs
  <2> QED BY <2>1, <2>4, <2>5 DEF Shift
<1>3. d = after[n]
  BY DEF csi_at, Repeated
<1>4. n \in 1 .. video_num_columns /\ n \in Nat
  <2>1. video_num_columns \in Nat \ {0}
    BY RowsAre
  <2>2. n \in 1 .. video_num_columns
    BY <2>1, TimesIs
  <2> QED BY <2>1, <2>2
<1> HIDE DEF n
<1>5. PICK G : G = [p \in (1 .. n) \X Kin(c) |-> insert_char(p[2])]
  OBVIOUS
<1>6. ASSUME NEW k \in 1 .. n, NEW x \in Kin(c)
      PROVE  G[<<k, x>>] = insert_char(x)
  BY <1>5
<1>7. \A k \in 1 .. n : \A x \in Kin(c) : G[<<k, x>>] \in Kin(c)
  BY <1>2, <1>6
<1>8. c \in Kin(c)
  BY ItsOwnKin
<1>9. PICK g : Recursive(g, n, c, G) /\ \A k \in 0 .. n : g[k] \in Kin(c)
  BY <1>4, <1>7, <1>8, Recursion
<1>10. g = [k \in 0 .. n |-> IF k = 0 THEN c ELSE insert_char(g[k - 1])]
  <2>1. ASSUME NEW k \in 0 .. n, k # 0
        PROVE  G[<<k, g[k - 1]>>] = insert_char(g[k - 1])
    <3>1. k \in 1 .. n /\ k - 1 \in 0 .. n
      BY <1>4, <2>1
    <3> QED BY <1>6, <1>9, <3>1
  <2> QED BY <1>9, <2>1 DEF Recursive
<1>11. after = [k \in 0 .. n |-> IF k = 0 THEN c ELSE insert_char(after[k - 1])]
  BY <1>10
<1>12. PICK f : f = after
  OBVIOUS
<1> HIDE DEF after
<1>13. f[0] = c
  <2>1. 0 \in 0 .. n
    BY <1>4
  <2> QED BY <1>11, <1>12, <2>1
<1>14. \A k \in 1 .. n : f[k - 1] \in Kin(c) =>
            f[k] \in Kin(c) /\ Screened(f[k]) = Shift("right", Screened(f[k - 1]), a, b, s)
  <2> SUFFICES ASSUME NEW k \in 1 .. n, f[k - 1] \in Kin(c)
               PROVE  f[k] \in Kin(c) /\ Screened(f[k]) = Shift("right", Screened(f[k - 1]), a, b, s)
    OBVIOUS
  <2>1. f[k] = insert_char(f[k - 1])
    <3>1. k \in 0 .. n /\ k # 0
      BY <1>4
    <3> QED BY <1>11, <1>12, <3>1
  <2> QED BY <1>2, <2>1
<1>15. f[n] \in Kin(c) /\ Screened(f[n]) = Shift("right", Screened(c), a, b, n * s)
  <2>1. InShifts(f, c, n, "right", a, b, s)
    BY <1>13, <1>14 DEF InShifts
  <2> QED BY <1>1, <1>4, <2>1, Repeats
<1>16. d \in Kin(c) /\ Screened(d) = ShiftRight(Screened(c), a, b, n * s)
  BY <1>3, <1>12, <1>15 DEF Shift
<1>17. n * s = n
  BY <1>1, <1>4
<1>18. TheScreen!Right(Screened(c), a, b, n * s) = ShiftRight(Screened(c), a, b, n * s)
  BY ShiftsAre
<1> QED BY <1>1, <1>4, <1>16, <1>17, <1>18

LEMMA csi_atIs ==
    ASSUME NEW c, InItsRow(c), NEW nr \in Nat, NEW d, d = csi_at(c, nr)
    PROVE  InItsRow(d) /\ TheScreen!Step(View(c), View(d))
<1>1. PICK n \in 1 .. video_num_columns :
         /\ d \in Kin(c)
         /\ Screened(d) = TheScreen!Right(Screened(c), TheScreen!Place(View(c)), TheScreen!RowEnd(View(c)), n)
  BY RepeatedIs_insert_char
<1>2. InItsRow(d) /\ Placed(d) /\ Placed(c) /\ View(d) = [View(c) EXCEPT !.cell = Screened(d)]
  BY <1>1, KinIs DEF InItsRow
<1>3. View(c).cell = Screened(c) /\ View(d).cell = Screened(d) /\ TheScreen!Size = ScreenSize
  BY <1>2, ViewIs, ShiftsAre
<1>4. TheScreen!MoveChars(View(c), View(d))
  BY <1>1, <1>3 DEF TheScreen!MoveChars
<1> QED BY <1>2, <1>4, Edited

LEMMA RepeatedIs_delete_char ==
    ASSUME NEW c, InItsRow(c), NEW nr \in Nat, NEW d, d = csi_P(c, nr)
    PROVE  \E n \in 1 .. video_num_columns :
              /\ d \in Kin(c)
              /\ Screened(d) = TheScreen!Left(Screened(c), TheScreen!Place(View(c)), TheScreen!RowEnd(View(c)), n)
<1> DEFINE n == Times(nr, video_num_columns)
<1> DEFINE after == CHOOSE g : g = [k \in 0 .. n |-> IF k = 0 THEN c ELSE delete_char(g[k - 1])]
<1>1. PICK a \in Nat, b \in Nat, s \in Nat :
         /\ a = TheScreen!Place(View(c)) /\ b = TheScreen!RowEnd(View(c)) /\ s = 1 /\ b <= ScreenSize
  <2>1. PICK a \in Nat, p \in Nat, b \in Nat :
           /\ a = TheScreen!RowStart(View(c)) /\ p = TheScreen!Place(View(c)) /\ b = TheScreen!RowEnd(View(c))
           /\ b <= ScreenSize /\ ScreenSize \in Nat /\ video_num_columns \in Nat
    BY RowOfCursor
  <2> QED BY <2>1
<1>2. ASSUME NEW x \in Kin(c)
      PROVE  delete_char(x) \in Kin(c) /\ Screened(delete_char(x)) = Shift("left", Screened(x), a, b, s)
  <2>1. /\ InItsRow(x) /\ Placed(x) /\ Kin(x) = Kin(c) /\ x.x = c.x /\ x.y = c.y
    BY KinIs
  <2>2. Placed(c)
    BY DEF InItsRow
  <2>3. TheScreen!Place(View(x)) = a /\ TheScreen!RowEnd(View(x)) = b
    BY <1>1, <2>1, <2>2, CursorPlace
  <2>4. PICK y : y = delete_char(x)
    OBVIOUS
  <2>5. y \in Kin(x) /\ Screened(y) = ShiftLeft(Screened(x), a, b, s)
    BY <1>1, <2>1, <2>3, <2>4, delete_charIs
  <2> QED BY <2>1, <2>4, <2>5 DEF Shift
<1>3. d = after[n]
  BY DEF csi_P, Repeated
<1>4. n \in 1 .. video_num_columns /\ n \in Nat
  <2>1. video_num_columns \in Nat \ {0}
    BY RowsAre
  <2>2. n \in 1 .. video_num_columns
    BY <2>1, TimesIs
  <2> QED BY <2>1, <2>2
<1> HIDE DEF n
<1>5. PICK G : G = [p \in (1 .. n) \X Kin(c) |-> delete_char(p[2])]
  OBVIOUS
<1>6. ASSUME NEW k \in 1 .. n, NEW x \in Kin(c)
      PROVE  G[<<k, x>>] = delete_char(x)
  BY <1>5
<1>7. \A k \in 1 .. n : \A x \in Kin(c) : G[<<k, x>>] \in Kin(c)
  BY <1>2, <1>6
<1>8. c \in Kin(c)
  BY ItsOwnKin
<1>9. PICK g : Recursive(g, n, c, G) /\ \A k \in 0 .. n : g[k] \in Kin(c)
  BY <1>4, <1>7, <1>8, Recursion
<1>10. g = [k \in 0 .. n |-> IF k = 0 THEN c ELSE delete_char(g[k - 1])]
  <2>1. ASSUME NEW k \in 0 .. n, k # 0
        PROVE  G[<<k, g[k - 1]>>] = delete_char(g[k - 1])
    <3>1. k \in 1 .. n /\ k - 1 \in 0 .. n
      BY <1>4, <2>1
    <3> QED BY <1>6, <1>9, <3>1
  <2> QED BY <1>9, <2>1 DEF Recursive
<1>11. after = [k \in 0 .. n |-> IF k = 0 THEN c ELSE delete_char(after[k - 1])]
  BY <1>10
<1>12. PICK f : f = after
  OBVIOUS
<1> HIDE DEF after
<1>13. f[0] = c
  <2>1. 0 \in 0 .. n
    BY <1>4
  <2> QED BY <1>11, <1>12, <2>1
<1>14. \A k \in 1 .. n : f[k - 1] \in Kin(c) =>
            f[k] \in Kin(c) /\ Screened(f[k]) = Shift("left", Screened(f[k - 1]), a, b, s)
  <2> SUFFICES ASSUME NEW k \in 1 .. n, f[k - 1] \in Kin(c)
               PROVE  f[k] \in Kin(c) /\ Screened(f[k]) = Shift("left", Screened(f[k - 1]), a, b, s)
    OBVIOUS
  <2>1. f[k] = delete_char(f[k - 1])
    <3>1. k \in 0 .. n /\ k # 0
      BY <1>4
    <3> QED BY <1>11, <1>12, <3>1
  <2> QED BY <1>2, <2>1
<1>15. f[n] \in Kin(c) /\ Screened(f[n]) = Shift("left", Screened(c), a, b, n * s)
  <2>1. InShifts(f, c, n, "left", a, b, s)
    BY <1>13, <1>14 DEF InShifts
  <2> QED BY <1>1, <1>4, <2>1, Repeats
<1>16. d \in Kin(c) /\ Screened(d) = ShiftLeft(Screened(c), a, b, n * s)
  BY <1>3, <1>12, <1>15 DEF Shift
<1>17. n * s = n
  BY <1>1, <1>4
<1>18. TheScreen!Left(Screened(c), a, b, n * s) = ShiftLeft(Screened(c), a, b, n * s)
  BY ShiftsAre
<1> QED BY <1>1, <1>4, <1>16, <1>17, <1>18

LEMMA csi_PIs ==
    ASSUME NEW c, InItsRow(c), NEW nr \in Nat, NEW d, d = csi_P(c, nr)
    PROVE  InItsRow(d) /\ TheScreen!Step(View(c), View(d))
<1>1. PICK n \in 1 .. video_num_columns :
         /\ d \in Kin(c)
         /\ Screened(d) = TheScreen!Left(Screened(c), TheScreen!Place(View(c)), TheScreen!RowEnd(View(c)), n)
  BY RepeatedIs_delete_char
<1>2. InItsRow(d) /\ Placed(d) /\ Placed(c) /\ View(d) = [View(c) EXCEPT !.cell = Screened(d)]
  BY <1>1, KinIs DEF InItsRow
<1>3. View(c).cell = Screened(c) /\ View(d).cell = Screened(d) /\ TheScreen!Size = ScreenSize
  BY <1>2, ViewIs, ShiftsAre
<1>4. TheScreen!MoveChars(View(c), View(d))
  BY <1>1, <1>3 DEF TheScreen!MoveChars
<1> QED BY <1>2, <1>4, Edited

LEMMA RepeatedIs_insert_line ==
    ASSUME NEW c, InItsRow(c), NEW nr \in Nat, NEW d, d = csi_L(c, nr)
    PROVE  \E n \in 1 .. video_num_lines :
              /\ d \in Kin(c)
              /\ Screened(d) = TheScreen!Right(Screened(c), TheScreen!RowStart(View(c)), ScreenSize, n * video_num_columns)
<1> DEFINE n == Times(nr, video_num_lines)
<1> DEFINE after == CHOOSE g : g = [k \in 0 .. n |-> IF k = 0 THEN c ELSE insert_line(g[k - 1])]
<1>1. PICK a \in Nat, b \in Nat, s \in Nat :
         /\ a = TheScreen!RowStart(View(c)) /\ b = ScreenSize /\ s = video_num_columns /\ b <= ScreenSize
  <2>1. PICK a \in Nat, p \in Nat, b \in Nat :
           /\ a = TheScreen!RowStart(View(c)) /\ p = TheScreen!Place(View(c)) /\ b = TheScreen!RowEnd(View(c))
           /\ b <= ScreenSize /\ ScreenSize \in Nat /\ video_num_columns \in Nat
    BY RowOfCursor
  <2> QED BY <2>1
<1>2. ASSUME NEW x \in Kin(c)
      PROVE  insert_line(x) \in Kin(c) /\ Screened(insert_line(x)) = Shift("right", Screened(x), a, b, s)
  <2>1. /\ InItsRow(x) /\ Placed(x) /\ Kin(x) = Kin(c) /\ x.x = c.x /\ x.y = c.y
    BY KinIs
  <2>2. Placed(c)
    BY DEF InItsRow
  <2>3. TheScreen!RowStart(View(x)) = a 
    BY <1>1, <2>1, <2>2, CursorPlace
  <2>4. PICK y : y = insert_line(x)
    OBVIOUS
  <2>5. y \in Kin(x) /\ Screened(y) = ShiftRight(Screened(x), a, b, s)
    BY <1>1, <2>1, <2>3, <2>4, insert_lineIs
  <2> QED BY <2>1, <2>4, <2>5 DEF Shift
<1>3. d = after[n]
  BY DEF csi_L, Repeated
<1>4. n \in 1 .. video_num_lines /\ n \in Nat
  <2>1. video_num_lines \in Nat \ {0}
    BY RowsAre
  <2>2. n \in 1 .. video_num_lines
    BY <2>1, TimesIs
  <2> QED BY <2>1, <2>2
<1> HIDE DEF n
<1>5. PICK G : G = [p \in (1 .. n) \X Kin(c) |-> insert_line(p[2])]
  OBVIOUS
<1>6. ASSUME NEW k \in 1 .. n, NEW x \in Kin(c)
      PROVE  G[<<k, x>>] = insert_line(x)
  BY <1>5
<1>7. \A k \in 1 .. n : \A x \in Kin(c) : G[<<k, x>>] \in Kin(c)
  BY <1>2, <1>6
<1>8. c \in Kin(c)
  BY ItsOwnKin
<1>9. PICK g : Recursive(g, n, c, G) /\ \A k \in 0 .. n : g[k] \in Kin(c)
  BY <1>4, <1>7, <1>8, Recursion
<1>10. g = [k \in 0 .. n |-> IF k = 0 THEN c ELSE insert_line(g[k - 1])]
  <2>1. ASSUME NEW k \in 0 .. n, k # 0
        PROVE  G[<<k, g[k - 1]>>] = insert_line(g[k - 1])
    <3>1. k \in 1 .. n /\ k - 1 \in 0 .. n
      BY <1>4, <2>1
    <3> QED BY <1>6, <1>9, <3>1
  <2> QED BY <1>9, <2>1 DEF Recursive
<1>11. after = [k \in 0 .. n |-> IF k = 0 THEN c ELSE insert_line(after[k - 1])]
  BY <1>10
<1>12. PICK f : f = after
  OBVIOUS
<1> HIDE DEF after
<1>13. f[0] = c
  <2>1. 0 \in 0 .. n
    BY <1>4
  <2> QED BY <1>11, <1>12, <2>1
<1>14. \A k \in 1 .. n : f[k - 1] \in Kin(c) =>
            f[k] \in Kin(c) /\ Screened(f[k]) = Shift("right", Screened(f[k - 1]), a, b, s)
  <2> SUFFICES ASSUME NEW k \in 1 .. n, f[k - 1] \in Kin(c)
               PROVE  f[k] \in Kin(c) /\ Screened(f[k]) = Shift("right", Screened(f[k - 1]), a, b, s)
    OBVIOUS
  <2>1. f[k] = insert_line(f[k - 1])
    <3>1. k \in 0 .. n /\ k # 0
      BY <1>4
    <3> QED BY <1>11, <1>12, <3>1
  <2> QED BY <1>2, <2>1
<1>15. f[n] \in Kin(c) /\ Screened(f[n]) = Shift("right", Screened(c), a, b, n * s)
  <2>1. InShifts(f, c, n, "right", a, b, s)
    BY <1>13, <1>14 DEF InShifts
  <2> QED BY <1>1, <1>4, <2>1, Repeats
<1>16. d \in Kin(c) /\ Screened(d) = ShiftRight(Screened(c), a, b, n * s)
  BY <1>3, <1>12, <1>15 DEF Shift
<1>17. n * s = n * video_num_columns
  BY <1>1, <1>4
<1>18. TheScreen!Right(Screened(c), a, b, n * s) = ShiftRight(Screened(c), a, b, n * s)
  BY ShiftsAre
<1> QED BY <1>1, <1>4, <1>16, <1>17, <1>18

LEMMA csi_LIs ==
    ASSUME NEW c, InItsRow(c), NEW nr \in Nat, NEW d, d = csi_L(c, nr)
    PROVE  InItsRow(d) /\ TheScreen!Step(View(c), View(d))
<1>1. PICK n \in 1 .. video_num_lines :
         /\ d \in Kin(c)
         /\ Screened(d) = TheScreen!Right(Screened(c), TheScreen!RowStart(View(c)), ScreenSize, n * video_num_columns)
  BY RepeatedIs_insert_line
<1>2. InItsRow(d) /\ Placed(d) /\ Placed(c) /\ View(d) = [View(c) EXCEPT !.cell = Screened(d)]
  BY <1>1, KinIs DEF InItsRow
<1>3. View(c).cell = Screened(c) /\ View(d).cell = Screened(d) /\ TheScreen!Size = ScreenSize
  BY <1>2, ViewIs, ShiftsAre
<1>4. TheScreen!MoveLines(View(c), View(d))
  BY <1>1, <1>3 DEF TheScreen!MoveLines
<1> QED BY <1>2, <1>4, Edited

LEMMA RepeatedIs_delete_line ==
    ASSUME NEW c, InItsRow(c), NEW nr \in Nat, NEW d, d = csi_M(c, nr)
    PROVE  \E n \in 1 .. video_num_lines :
              /\ d \in Kin(c)
              /\ Screened(d) = TheScreen!Left(Screened(c), TheScreen!RowStart(View(c)), ScreenSize, n * video_num_columns)
<1> DEFINE n == Times(nr, video_num_lines)
<1> DEFINE after == CHOOSE g : g = [k \in 0 .. n |-> IF k = 0 THEN c ELSE delete_line(g[k - 1])]
<1>1. PICK a \in Nat, b \in Nat, s \in Nat :
         /\ a = TheScreen!RowStart(View(c)) /\ b = ScreenSize /\ s = video_num_columns /\ b <= ScreenSize
  <2>1. PICK a \in Nat, p \in Nat, b \in Nat :
           /\ a = TheScreen!RowStart(View(c)) /\ p = TheScreen!Place(View(c)) /\ b = TheScreen!RowEnd(View(c))
           /\ b <= ScreenSize /\ ScreenSize \in Nat /\ video_num_columns \in Nat
    BY RowOfCursor
  <2> QED BY <2>1
<1>2. ASSUME NEW x \in Kin(c)
      PROVE  delete_line(x) \in Kin(c) /\ Screened(delete_line(x)) = Shift("left", Screened(x), a, b, s)
  <2>1. /\ InItsRow(x) /\ Placed(x) /\ Kin(x) = Kin(c) /\ x.x = c.x /\ x.y = c.y
    BY KinIs
  <2>2. Placed(c)
    BY DEF InItsRow
  <2>3. TheScreen!RowStart(View(x)) = a 
    BY <1>1, <2>1, <2>2, CursorPlace
  <2>4. PICK y : y = delete_line(x)
    OBVIOUS
  <2>5. y \in Kin(x) /\ Screened(y) = ShiftLeft(Screened(x), a, b, s)
    BY <1>1, <2>1, <2>3, <2>4, delete_lineIs
  <2> QED BY <2>1, <2>4, <2>5 DEF Shift
<1>3. d = after[n]
  BY DEF csi_M, Repeated
<1>4. n \in 1 .. video_num_lines /\ n \in Nat
  <2>1. video_num_lines \in Nat \ {0}
    BY RowsAre
  <2>2. n \in 1 .. video_num_lines
    BY <2>1, TimesIs
  <2> QED BY <2>1, <2>2
<1> HIDE DEF n
<1>5. PICK G : G = [p \in (1 .. n) \X Kin(c) |-> delete_line(p[2])]
  OBVIOUS
<1>6. ASSUME NEW k \in 1 .. n, NEW x \in Kin(c)
      PROVE  G[<<k, x>>] = delete_line(x)
  BY <1>5
<1>7. \A k \in 1 .. n : \A x \in Kin(c) : G[<<k, x>>] \in Kin(c)
  BY <1>2, <1>6
<1>8. c \in Kin(c)
  BY ItsOwnKin
<1>9. PICK g : Recursive(g, n, c, G) /\ \A k \in 0 .. n : g[k] \in Kin(c)
  BY <1>4, <1>7, <1>8, Recursion
<1>10. g = [k \in 0 .. n |-> IF k = 0 THEN c ELSE delete_line(g[k - 1])]
  <2>1. ASSUME NEW k \in 0 .. n, k # 0
        PROVE  G[<<k, g[k - 1]>>] = delete_line(g[k - 1])
    <3>1. k \in 1 .. n /\ k - 1 \in 0 .. n
      BY <1>4, <2>1
    <3> QED BY <1>6, <1>9, <3>1
  <2> QED BY <1>9, <2>1 DEF Recursive
<1>11. after = [k \in 0 .. n |-> IF k = 0 THEN c ELSE delete_line(after[k - 1])]
  BY <1>10
<1>12. PICK f : f = after
  OBVIOUS
<1> HIDE DEF after
<1>13. f[0] = c
  <2>1. 0 \in 0 .. n
    BY <1>4
  <2> QED BY <1>11, <1>12, <2>1
<1>14. \A k \in 1 .. n : f[k - 1] \in Kin(c) =>
            f[k] \in Kin(c) /\ Screened(f[k]) = Shift("left", Screened(f[k - 1]), a, b, s)
  <2> SUFFICES ASSUME NEW k \in 1 .. n, f[k - 1] \in Kin(c)
               PROVE  f[k] \in Kin(c) /\ Screened(f[k]) = Shift("left", Screened(f[k - 1]), a, b, s)
    OBVIOUS
  <2>1. f[k] = delete_line(f[k - 1])
    <3>1. k \in 0 .. n /\ k # 0
      BY <1>4
    <3> QED BY <1>11, <1>12, <3>1
  <2> QED BY <1>2, <2>1
<1>15. f[n] \in Kin(c) /\ Screened(f[n]) = Shift("left", Screened(c), a, b, n * s)
  <2>1. InShifts(f, c, n, "left", a, b, s)
    BY <1>13, <1>14 DEF InShifts
  <2> QED BY <1>1, <1>4, <2>1, Repeats
<1>16. d \in Kin(c) /\ Screened(d) = ShiftLeft(Screened(c), a, b, n * s)
  BY <1>3, <1>12, <1>15 DEF Shift
<1>17. n * s = n * video_num_columns
  BY <1>1, <1>4
<1>18. TheScreen!Left(Screened(c), a, b, n * s) = ShiftLeft(Screened(c), a, b, n * s)
  BY ShiftsAre
<1> QED BY <1>1, <1>4, <1>16, <1>17, <1>18

LEMMA csi_MIs ==
    ASSUME NEW c, InItsRow(c), NEW nr \in Nat, NEW d, d = csi_M(c, nr)
    PROVE  InItsRow(d) /\ TheScreen!Step(View(c), View(d))
<1>1. PICK n \in 1 .. video_num_lines :
         /\ d \in Kin(c)
         /\ Screened(d) = TheScreen!Left(Screened(c), TheScreen!RowStart(View(c)), ScreenSize, n * video_num_columns)
  BY RepeatedIs_delete_line
<1>2. InItsRow(d) /\ Placed(d) /\ Placed(c) /\ View(d) = [View(c) EXCEPT !.cell = Screened(d)]
  BY <1>1, KinIs DEF InItsRow
<1>3. View(c).cell = Screened(c) /\ View(d).cell = Screened(d) /\ TheScreen!Size = ScreenSize
  BY <1>2, ViewIs, ShiftsAre
<1>4. TheScreen!MoveLines(View(c), View(d))
  BY <1>1, <1>3 DEF TheScreen!MoveLines
<1> QED BY <1>2, <1>4, Edited

-----------------------------------------------------------------------------
\* The commands together.
TermTypes == /\ state \in 0 .. 3 /\ npar \in 0 .. NPAR - 1 /\ par \in [0 .. NPAR - 1 -> 0 .. MaxPar]
             /\ attr \in Attributes
             /\ saved.x \in 0 .. video_num_columns /\ saved.y \in 0 .. video_num_lines - 1
ConInv == InItsRow(con) /\ TermTypes

LEMMA ConTypes ==
    ASSUME ConInv
    PROVE  ConTypeOK
<1>1. /\ InItsRow(con) /\ TermTypes
  BY DEF ConInv
<1>2. Placed(con) /\ con.x <= video_num_columns
  BY <1>1 DEF InItsRow
<1>3. /\ con.video \in Videos /\ con.ega \in BOOLEAN /\ con.x \in Nat /\ con.y \in 0 .. video_num_lines - 1
      /\ con.top \in Nat /\ con.bottom \in 0 .. video_num_lines /\ con.top < con.bottom
      /\ con.origin \in Nat /\ con.origin + ScreenSize <= VideoCells /\ con.scr_end = con.origin + ScreenSize
  BY <1>2, PlacedIs
<1>4. con.pos = RowAt(con, con.y) + con.x
  BY <1>2 DEF Placed
<1>5. video_num_columns \in Nat /\ video_num_lines \in Nat /\ ScreenSize \in Nat /\ VideoCells \in Nat
  BY RowsAre
<1>6. /\ con.x \in 0 .. video_num_columns /\ con.top \in 0 .. con.bottom - 1
      /\ con.bottom \in 1 .. video_num_lines /\ con.origin \in 0 .. VideoCells - ScreenSize
  BY <1>2, <1>3, <1>5
<1>7. /\ state \in 0 .. 3 /\ npar \in 0 .. NPAR - 1 /\ par \in [0 .. NPAR - 1 -> 0 .. MaxPar]
      /\ attr \in Attributes
      /\ saved.x \in 0 .. video_num_columns /\ saved.y \in 0 .. video_num_lines - 1
  BY <1>1 DEF TermTypes
<1> QED BY <1>3, <1>4, <1>6, <1>7 DEF ConTypeOK, Videos

LEMMA ShownIs == Shown = View(con)
BY DEF Shown, View, Screened, Cells

LEMMA ConStarts ==
    ASSUME con_init
    PROVE  ConInv /\ TheScreen!Init
<1>1. PICK e \in BOOLEAN, i \in 0 .. video_num_columns - 1, j \in 0 .. video_num_lines - 1 :
          con = [ega |-> e, video |-> [n \in VideoMem |-> video_erase_char],
                 origin |-> 0, scr_end |-> ScreenSize, top |-> 0, bottom |-> video_num_lines,
                 x |-> i, y |-> j, pos |-> j * video_num_columns + i]
  BY DEF con_init
<1>2. /\ video_num_columns \in Nat /\ video_num_columns >= 2 /\ video_num_lines \in Nat /\ video_num_lines >= 2
      /\ ScreenSize \in Nat /\ VideoCells \in Nat /\ ScreenSize <= VideoCells
  BY RowsAre
<1>3. j \in 0 .. video_num_lines /\ j * video_num_columns \in Nat
  <2>1. j \in 0 .. video_num_lines
    BY <1>2
  <2> QED BY <2>1, RowIs
<1>4. [n \in VideoMem |-> video_erase_char] \in Videos
  BY DEF Videos, video_erase_char, Attributes
<1>5. PICK v : v = [n \in VideoMem |-> video_erase_char]
  OBVIOUS
<1>6. PICK p : p = j * video_num_columns + i
  OBVIOUS
<1>7. p \in Int /\ i \in Nat
  BY <1>2, <1>3, <1>6
<1>8. con = [ega |-> e, video |-> v, origin |-> 0, scr_end |-> ScreenSize, top |-> 0,
             bottom |-> video_num_lines, x |-> i, y |-> j, pos |-> p]
  BY <1>1, <1>5, <1>6
<1>9. /\ con \in Consoles /\ con.video = v /\ con.origin = 0 /\ con.scr_end = ScreenSize /\ con.top = 0
      /\ con.bottom = video_num_lines /\ con.x = i /\ con.y = j /\ con.pos = p
  <2>1. /\ video_num_lines \in 0 .. video_num_lines /\ 0 \in Nat /\ ScreenSize \in Int
    BY <1>2
  <2> QED BY <1>4, <1>5, <1>7, <1>8, <2>1 DEF Consoles
<1>10. InItsRow(con)
  BY <1>2, <1>3, <1>6, <1>7, <1>9 DEF InItsRow, Placed, RowAt
<1>11. TermTypes
  <2>1. /\ state = 0 /\ npar = 0 /\ par = [k \in 0 .. NPAR - 1 |-> 0] /\ attr = "normal"
        /\ saved.x = 0 /\ saved.y = 0
    BY DEF con_init
  <2>2. NPAR \in Nat /\ NPAR >= 2 /\ MaxPar \in Nat
    BY ConsoleAssumption
  <2>3. par \in [0 .. NPAR - 1 -> 0 .. MaxPar] /\ npar \in 0 .. NPAR - 1
    BY <2>1, <2>2
  <2> QED BY <1>2, <2>1, <2>3 DEF TermTypes, Attributes
<1>12. TheScreen!Init
  <2>1. ASSUME NEW k \in 0 .. ScreenSize - 1
        PROVE  con.video[con.origin + k] = video_erase_char
    <3>1. con.origin + k \in VideoMem
      BY <1>2, <1>9 DEF VideoMem
    <3> QED BY <1>5, <1>9, <3>1
  <2>2. Shown = [cell |-> [k \in 0 .. ScreenSize - 1 |-> video_erase_char], x |-> i, y |-> j, top |-> 0,
                 bottom |-> video_num_lines]
    BY <1>9, <2>1 DEF Shown
  <2>3. i \in 0 .. video_num_columns /\ j \in TheScreen!Rows
    BY <1>2 DEF TheScreen!Rows
  <2> QED BY <2>2, <2>3, ShiftsAre DEF TheScreen!Init
<1> QED BY <1>10, <1>11, <1>12 DEF ConInv

LEMMA KeepsTerm ==
    ASSUME TermTypes, UNCHANGED <<state, npar, par, attr, saved>>
    PROVE  TermTypes'
BY DEF TermTypes

\* The end of an escape sequence.
LEMMA EndKeeps ==
    ASSUME TermTypes, EndSequence, attr' \in Attributes,
           saved'.x \in 0 .. video_num_columns, saved'.y \in 0 .. video_num_lines - 1
    PROVE  TermTypes'
<1>1. NPAR \in Nat /\ NPAR >= 2 /\ MaxPar \in Nat
  BY ConsoleAssumption
<1>2. state' = 0 /\ npar' = 0 /\ par' = [i \in 0 .. NPAR - 1 |-> 0]
  BY DEF EndSequence, TermTypes
<1>3. npar' \in 0 .. NPAR - 1 /\ par' \in [0 .. NPAR - 1 -> 0 .. MaxPar]
  BY <1>1, <1>2
<1> QED BY <1>2, <1>3 DEF TermTypes

\* One character.
ConStep(c, d) == InItsRow(d) /\ TheScreen!Step(View(c), View(d))

LEMMA StaysSo ==
    ASSUME NEW c, InItsRow(c)
    PROVE  ConStep(c, c)
BY DEF ConStep, TheScreen!Step

LEMMA LineFeeds ==
    ASSUME NEW c, InItsRow(c)
    PROVE  ConStep(c, lf(c)) /\ ConStep(c, ri(c))
<1>1. PICK d, e : d = lf(c) /\ e = ri(c)
  OBVIOUS
<1>2. Placed(c) /\ c.x <= video_num_columns
  BY DEF InItsRow
<1>3. Placed(d) /\ d.x = c.x /\ View(d) = TheScreen!Fed(View(c))
  BY <1>1, <1>2, LineFed
<1>4. Placed(e) /\ e.x = c.x /\ TheScreen!FeedBack(View(c), View(e))
  BY <1>1, <1>2, LineFedBack
<1>5. TheScreen!Feed(View(c), View(d))
  BY <1>3 DEF TheScreen!Feed
<1>6. ConStep(c, d)
  BY <1>2, <1>3, <1>5 DEF ConStep, InItsRow, TheScreen!Step
<1>7. ConStep(c, e)
  BY <1>2, <1>4 DEF ConStep, InItsRow, TheScreen!Step
<1> QED BY <1>1, <1>6, <1>7

LEMMA ControlSteps ==
    ASSUME NEW c, InItsRow(c)
    PROVE  ConStep(c, cr(c)) /\ ConStep(c, del(c)) /\ ConStep(c, backspace(c)) /\ ConStep(c, tab(c))
<1>1. ConStep(c, cr(c))
  BY crIs DEF ConStep
<1>2. ConStep(c, del(c))
  BY delIs DEF ConStep
<1>3. ConStep(c, backspace(c))
  BY backspaceIs DEF ConStep
<1>4. ConStep(c, tab(c))
  <2>1. InItsRow(tab(c)) /\ TheScreen!Tab(View(c), View(tab(c)))
    BY tabIs
  <2> QED BY <2>1 DEF ConStep, TheScreen!Step
<1> QED BY <1>1, <1>2, <1>3, <1>4

LEMMA gotoxySteps ==
    ASSUME NEW c, InItsRow(c), NEW i \in Int, NEW j \in Int
    PROVE  ConStep(c, gotoxy(c, i, j))
BY gotoxyIs DEF ConStep

LEMMA EditSteps ==
    ASSUME NEW c, InItsRow(c), NEW n \in Nat
    PROVE  /\ ConStep(c, csi_J(c, n)) /\ ConStep(c, csi_K(c, n)) /\ ConStep(c, csi_L(c, n))
           /\ ConStep(c, csi_M(c, n)) /\ ConStep(c, csi_P(c, n)) /\ ConStep(c, csi_at(c, n))
<1>1. ConStep(c, csi_J(c, n))
  BY csi_JIs DEF ConStep
<1>2. ConStep(c, csi_K(c, n))
  BY csi_KIs DEF ConStep
<1>3. ConStep(c, csi_L(c, n))
  BY csi_LIs DEF ConStep
<1>4. ConStep(c, csi_M(c, n))
  BY csi_MIs DEF ConStep
<1>5. ConStep(c, csi_P(c, n))
  BY csi_PIs DEF ConStep
<1>6. ConStep(c, csi_at(c, n))
  BY csi_atIs DEF ConStep
<1> QED BY <1>1, <1>2, <1>3, <1>4, <1>5, <1>6

LEMMA RegionSteps ==
    ASSUME NEW c, InItsRow(c), NEW t \in Nat, NEW b \in Nat, t < b, b <= video_num_lines,
           NEW d, d = [c EXCEPT !.top = t, !.bottom = b]
    PROVE  ConStep(c, d)
<1>1. /\ Placed(c) /\ c \in Consoles /\ c.x <= video_num_columns
  BY PlacedIs DEF InItsRow
<1>2. b \in 0 .. video_num_lines
  BY RowsAre
<1>3. /\ d \in Consoles /\ d.ega = c.ega /\ d.video = c.video /\ d.origin = c.origin
      /\ d.scr_end = c.scr_end /\ d.pos = c.pos /\ d.x = c.x /\ d.y = c.y /\ d.top = t /\ d.bottom = b
  BY <1>1, <1>2 DEF Consoles
<1>4. Placed(d)
  BY <1>1, <1>3 DEF Placed, RowAt
<1>5. TheScreen!Region(View(c), View(d))
  <2>1. PICK e, i, j, p, q : e = Screened(c) /\ i = c.x /\ j = c.y /\ p = c.top /\ q = c.bottom
    OBVIOUS
  <2>2. View(c) = [cell |-> e, x |-> i, y |-> j, top |-> p, bottom |-> q]
    BY <2>1 DEF View
  <2>3. View(d) = [cell |-> e, x |-> i, y |-> j, top |-> t, bottom |-> b]
    BY <1>3, <2>1 DEF View, Screened
  <2>4. PICK r : r = [View(c) EXCEPT !.top = t]
    OBVIOUS
  <2>5. r = [cell |-> e, x |-> i, y |-> j, top |-> t, bottom |-> q]
    BY <2>2, <2>4
  <2>6. [r EXCEPT !.bottom = b] = View(d)
    BY <2>3, <2>5
  <2>7. [View(c) EXCEPT !.top = t, !.bottom = b] = View(d)
    BY <2>4, <2>6
  <2>8. View(d).top = t /\ View(d).bottom = b
    BY <2>3
  <2>9. t \in 0 .. b - 1 /\ b \in 1 .. video_num_lines
    BY RowsAre
  <2>10. PICK s, u : s = View(c) /\ u = View(d)
    OBVIOUS
  <2>11. u = [s EXCEPT !.top = u.top, !.bottom = u.bottom]
    BY <2>7, <2>8, <2>10
  <2>12. u.top \in 0 .. u.bottom - 1 /\ u.bottom \in 1 .. video_num_lines
    BY <2>8, <2>9, <2>10
  <2>13. TheScreen!Region(s, u)
    BY <2>11, <2>12 DEF TheScreen!Region
  <2> QED BY <2>10, <2>13
<1> QED BY <1>1, <1>3, <1>4, <1>5 DEF ConStep, InItsRow, TheScreen!Step

-----------------------------------------------------------------------------
\* What every action of con_write does to the console.
LEMMA WriteStates ==
    ASSUME ConInv, write_char \/ write_control \/ write_escape
    PROVE  TermTypes' /\ ConStep(con, con')
<1>1. InItsRow(con) /\ TermTypes /\ attr \in Attributes
  BY DEF ConInv, TermTypes
<1>2. CASE write_char
  <2>1. con' = put_char(con, attr) /\ UNCHANGED <<state, npar, par, attr, saved>>
    BY <1>2 DEF write_char
  <2>2. InItsRow(con') /\ TheScreen!Type(View(con), View(con'))
    BY <1>1, <2>1, put_charIs
  <2>3. ConStep(con, con')
    BY <2>2 DEF ConStep, TheScreen!Step
  <2> QED BY <1>1, <2>1, <2>3, KeepsTerm
<1>3. CASE write_control
  <2>1. /\ con' \in {lf(con), cr(con), del(con), backspace(con), tab(con)}
        /\ UNCHANGED <<state, npar, par, attr, saved>>
    BY <1>3 DEF write_control
  <2>2. /\ ConStep(con, lf(con)) /\ ConStep(con, cr(con)) /\ ConStep(con, del(con))
        /\ ConStep(con, backspace(con)) /\ ConStep(con, tab(con))
    BY <1>1, LineFeeds, ControlSteps
  <2>3. ConStep(con, con')
    BY <2>1, <2>2
  <2> QED BY <1>1, <2>1, <2>3, KeepsTerm
<1>4. CASE write_escape
  <2>1. state' = 1 /\ UNCHANGED <<con, npar, par, attr, saved>>
    BY <1>4 DEF write_escape
  <2>2. ConStep(con, con')
    BY <1>1, <2>1, StaysSo
  <2>3. TermTypes'
    BY <1>1, <2>1 DEF TermTypes
  <2> QED BY <2>2, <2>3
<1> QED BY <1>2, <1>3, <1>4

LEMMA EscapeStates ==
    ASSUME ConInv, escape_csi \/ escape_move \/ escape_other
    PROVE  TermTypes' /\ ConStep(con, con')
<1>1. /\ InItsRow(con) /\ TermTypes /\ saved.x \in 0 .. video_num_columns
      /\ saved.y \in 0 .. video_num_lines - 1
  BY DEF ConInv, TermTypes
<1>2. con.x \in Nat /\ con.x <= video_num_columns /\ con.y \in 0 .. video_num_lines - 1 /\ con.y \in Nat
  BY <1>1, PlacedIs DEF InItsRow
<1>3. video_num_columns \in Nat /\ video_num_lines \in Nat
  BY RowsAre
<1>4. CASE escape_csi
  <2>1. state' = 2 /\ UNCHANGED <<con, npar, par, attr, saved>>
    BY <1>4 DEF escape_csi
  <2>2. ConStep(con, con')
    BY <1>1, <2>1, StaysSo
  <2>3. TermTypes'
    BY <1>1, <2>1 DEF TermTypes
  <2> QED BY <2>2, <2>3
<1>5. CASE escape_move
  <2>1. /\ con' \in {gotoxy(con, 0, con.y + 1), ri(con), lf(con)}
        /\ state' = 0 /\ UNCHANGED <<npar, par, attr, saved>>
    BY <1>5 DEF escape_move
  <2>2. 0 \in Int /\ con.y + 1 \in Int
    BY <1>2
  <2>3. /\ ConStep(con, gotoxy(con, 0, con.y + 1)) /\ ConStep(con, ri(con)) /\ ConStep(con, lf(con))
    BY <1>1, <2>2, gotoxySteps, LineFeeds
  <2>4. ConStep(con, con')
    BY <2>1, <2>3
  <2>5. TermTypes'
    BY <1>1, <2>1 DEF TermTypes
  <2> QED BY <2>4, <2>5
<1>6. CASE escape_other
  <2>1. /\ saved' = IF con.x = Code7 THEN [x |-> con.x, y |-> con.y] ELSE saved
        /\ con' = gotoxy(con, saved.x, saved.y) \/ con' = con
        /\ state' = 0 /\ UNCHANGED <<npar, par, attr>>
    BY <1>6 DEF escape_other
  <2>2. saved.x \in Int /\ saved.y \in Int
    BY <1>1, <1>3
  <2>3. ConStep(con, gotoxy(con, saved.x, saved.y)) /\ ConStep(con, con)
    BY <1>1, <2>2, gotoxySteps, StaysSo
  <2>4. ConStep(con, con')
    BY <2>1, <2>3
  <2>5. saved'.x \in 0 .. video_num_columns /\ saved'.y \in 0 .. video_num_lines - 1
    BY <1>1, <1>2, <1>3, <2>1
  <2>6. TermTypes'
    BY <1>1, <2>1, <2>5 DEF TermTypes
  <2> QED BY <2>4, <2>6
<1> QED BY <1>4, <1>5, <1>6

LEMMA ParameterStates ==
    ASSUME ConInv, csi_question \/ csi_separator \/ csi_digit
    PROVE  TermTypes' /\ ConStep(con, con')
<1>1. InItsRow(con) /\ TermTypes
  BY DEF ConInv
<1>2. con' = con
  BY DEF csi_question, csi_separator, csi_digit
<1>3. ConStep(con, con')
  BY <1>1, <1>2, StaysSo
<1>4. NPAR \in Nat /\ NPAR >= 2 /\ MaxPar \in Nat /\ Digits \subseteq 0 .. 9
  BY ConsoleAssumption
<1>5. /\ state \in 0 .. 3 /\ npar \in 0 .. NPAR - 1 /\ par \in [0 .. NPAR - 1 -> 0 .. MaxPar]
      /\ attr \in Attributes
      /\ saved.x \in 0 .. video_num_columns /\ saved.y \in 0 .. video_num_lines - 1
  BY <1>1 DEF TermTypes
<1>6. CASE csi_question
  BY <1>5, <1>6, <1>3 DEF csi_question, TermTypes
<1>7. CASE csi_separator
  <2>1. npar < NPAR - 1 /\ npar' = npar + 1 /\ state' = 3 /\ UNCHANGED <<par, attr, saved>>
    BY <1>7 DEF csi_separator
  <2>2. npar' \in 0 .. NPAR - 1
    BY <1>4, <1>5, <2>1
  <2> QED BY <1>3, <1>5, <2>1, <2>2 DEF TermTypes
<1>8. CASE csi_digit
  <2>1. PICK g \in Digits : 10 * par[npar] + g <= MaxPar /\ par' = [par EXCEPT ![npar] = 10 * @ + g]
    BY <1>8 DEF csi_digit
  <2>2. state' = 3 /\ UNCHANGED <<npar, attr, saved>>
    BY <1>8 DEF csi_digit
  <2>3. g \in Nat /\ par[npar] \in Nat
    BY <1>4, <1>5
  <2>4. 10 * par[npar] + g \in 0 .. MaxPar
    BY <1>4, <2>1, <2>3
  <2>5. par' \in [0 .. NPAR - 1 -> 0 .. MaxPar]
    BY <1>5, <2>1, <2>4
  <2> QED BY <1>3, <1>5, <2>2, <2>5 DEF TermTypes
<1> QED BY <1>6, <1>7, <1>8

LEMMA CommandStates ==
    ASSUME ConInv, csi_cursor \/ csi_edit \/ csi_attribute \/ csi_r \/ save_cur \/ restore_cur \/ csi_ignored
    PROVE  TermTypes' /\ ConStep(con, con')
<1>1. /\ InItsRow(con) /\ TermTypes /\ saved.x \in 0 .. video_num_columns
      /\ saved.y \in 0 .. video_num_lines - 1 /\ attr \in Attributes
      /\ par \in [0 .. NPAR - 1 -> 0 .. MaxPar]
  BY DEF ConInv, TermTypes
<1>2. con.x \in Nat /\ con.x <= video_num_columns /\ con.y \in 0 .. video_num_lines - 1 /\ con.y \in Nat
  BY <1>1, PlacedIs DEF InItsRow
<1>3. video_num_columns \in Nat /\ video_num_lines \in Nat
  BY RowsAre
<1>4. par[0] \in Nat /\ par[1] \in Nat
  <2>1. NPAR \in Nat /\ NPAR >= 2 /\ MaxPar \in Nat
    BY ConsoleAssumption
  <2> QED BY <1>1, <2>1
<1>5. EndSequence
  BY DEF csi_cursor, csi_edit, csi_attribute, csi_r, save_cur, restore_cur, csi_ignored
<1>6. saved.x \in Int /\ saved.y \in Int
  BY <1>1, <1>3
<1>7. CASE csi_cursor
  <2> DEFINE n == AtLeastOne(par[0])
  <2>1. /\ con' \in {gotoxy(con, OneLess(par[0]), con.y),
                     gotoxy(con, con.x, con.y - n), gotoxy(con, con.x, con.y + n),
                     gotoxy(con, con.x + n, con.y), gotoxy(con, con.x - n, con.y),
                     gotoxy(con, 0, con.y + n), gotoxy(con, 0, con.y - n),
                     gotoxy(con, con.x, OneLess(par[0])),
                     gotoxy(con, OneLess(par[1]), OneLess(par[0]))}
        /\ UNCHANGED <<attr, saved>>
    BY <1>7 DEF csi_cursor
  <2>2. n \in Int /\ OneLess(par[0]) \in Int /\ OneLess(par[1]) \in Int
    BY <1>4 DEF AtLeastOne, OneLess
  <2> HIDE DEF n
  <2>3. PICK i \in Int, j \in Int : con' = gotoxy(con, i, j)
    BY <1>2, <2>1, <2>2
  <2>4. ConStep(con, con')
    BY <1>1, <2>3, gotoxySteps
  <2>5. TermTypes'
    BY <1>1, <1>5, <2>1, EndKeeps
  <2> QED BY <2>4, <2>5
<1>8. CASE csi_edit
  <2>1. /\ con' \in {csi_J(con, par[0]), csi_K(con, par[0]), csi_L(con, par[0]),
                     csi_M(con, par[0]), csi_P(con, par[0]), csi_at(con, par[0])}
        /\ UNCHANGED <<attr, saved>>
    BY <1>8 DEF csi_edit
  <2>2. PICK n \in Nat : n = par[0]
    BY <1>4
  <2>3. /\ ConStep(con, csi_J(con, n)) /\ ConStep(con, csi_K(con, n)) /\ ConStep(con, csi_L(con, n))
        /\ ConStep(con, csi_M(con, n)) /\ ConStep(con, csi_P(con, n)) /\ ConStep(con, csi_at(con, n))
    BY <1>1, EditSteps
  <2>4. ConStep(con, con')
    BY <2>1, <2>2, <2>3
  <2>5. TermTypes'
    BY <1>1, <1>5, <2>1, EndKeeps
  <2> QED BY <2>4, <2>5
<1>9. CASE csi_attribute
  <2>1. attr' = csi_m /\ UNCHANGED <<con, saved>>
    BY <1>9 DEF csi_attribute
  <2>2. csi_m \in Attributes
    <3>1. PICK m : m = {i \in 0 .. npar : par[i] \in {0, 1, 4, 7, 27}}
      OBVIOUS
    <3>2. PICK l : l = CHOOSE i \in m : \A j \in m : j <= i
      OBVIOUS
    <3>3. csi_m = IF m = {} THEN attr
                  ELSE CASE par[l] \in {0, 27} -> "normal"
                         [] par[l] \in {1, 4} -> "bright"
                         [] OTHER -> "reverse"
      BY <3>1, <3>2 DEF csi_m
    <3> QED BY <1>1, <3>3 DEF Attributes
  <2>3. TermTypes'
    BY <1>1, <1>5, <2>1, <2>2, EndKeeps
  <2> QED BY <1>1, <2>1, <2>3, StaysSo
<1>10. CASE csi_r
  <2>1. PICK t, b : t = OneLess(par[0]) /\ b = IF par[1] = 0 THEN video_num_lines ELSE par[1]
    OBVIOUS
  <2>2. /\ con' = IF t < b /\ b <= video_num_lines THEN [con EXCEPT !.top = t, !.bottom = b] ELSE con
        /\ UNCHANGED <<attr, saved>>
    BY <1>10, <2>1 DEF csi_r
  <2>3. t \in Nat /\ b \in Nat
    BY <1>3, <1>4, <2>1 DEF OneLess
  <2>4. ConStep(con, con')
    <3>1. CASE t < b /\ b <= video_num_lines
      <4>1. PICK d : d = [con EXCEPT !.top = t, !.bottom = b]
        OBVIOUS
      <4>2. con' = d
        BY <2>2, <3>1, <4>1
      <4>3. ConStep(con, d)
        BY <1>1, <2>3, <3>1, <4>1, RegionSteps
      <4> QED BY <4>2, <4>3
    <3>2. CASE ~(t < b /\ b <= video_num_lines)
      BY <1>1, <2>2, <3>2, StaysSo
    <3> QED BY <3>1, <3>2
  <2>5. TermTypes'
    BY <1>1, <1>5, <2>2, EndKeeps
  <2> QED BY <2>4, <2>5
<1>11. CASE save_cur
  <2>1. saved' = [x |-> con.x, y |-> con.y] /\ UNCHANGED <<con, attr>>
    BY <1>11 DEF save_cur
  <2>2. saved'.x \in 0 .. video_num_columns /\ saved'.y \in 0 .. video_num_lines - 1
    BY <1>2, <1>3, <2>1
  <2>3. TermTypes'
    BY <1>1, <1>5, <2>1, <2>2, EndKeeps
  <2> QED BY <1>1, <2>1, <2>3, StaysSo
<1>12. CASE restore_cur
  <2>1. con' = gotoxy(con, saved.x, saved.y) /\ UNCHANGED <<attr, saved>>
    BY <1>12 DEF restore_cur
  <2>2. ConStep(con, con')
    BY <1>1, <1>6, <2>1, gotoxySteps
  <2>3. TermTypes'
    BY <1>1, <1>5, <2>1, EndKeeps
  <2> QED BY <2>2, <2>3
<1>13. CASE csi_ignored
  <2>1. UNCHANGED <<con, attr, saved>>
    BY <1>13 DEF csi_ignored
  <2>2. TermTypes'
    BY <1>1, <1>5, <2>1, EndKeeps
  <2> QED BY <1>1, <2>1, <2>2, StaysSo
<1> QED BY <1>7, <1>8, <1>9, <1>10, <1>11, <1>12, <1>13

LEMMA ConNextKeeps ==
    ASSUME ConInv, [con_write]_conVars
    PROVE  ConInv' /\ TheScreen!Next
<1>1. TermTypes' /\ ConStep(con, con')
  <2>1. CASE con_write
    <3>1. CASE write_char \/ write_control \/ write_escape
      BY <3>1, WriteStates
    <3>2. CASE escape_csi \/ escape_move \/ escape_other
      BY <3>2, EscapeStates
    <3>3. CASE csi_question \/ csi_separator \/ csi_digit
      BY <3>3, ParameterStates
    <3>4. CASE csi_cursor \/ csi_edit \/ csi_attribute \/ csi_r \/ save_cur \/ restore_cur \/ csi_ignored
      BY <3>4, CommandStates
    <3> QED BY <2>1, <3>1, <3>2, <3>3, <3>4 DEF con_write
  <2>2. CASE UNCHANGED conVars
    <3>1. con' = con /\ UNCHANGED <<state, npar, par, attr, saved>>
      BY <2>2 DEF conVars
    <3>2. InItsRow(con) /\ TermTypes
      BY DEF ConInv
    <3> QED BY <3>1, <3>2, StaysSo, KeepsTerm
  <2> QED BY <2>1, <2>2
<1>2. ConInv'
  BY <1>1 DEF ConInv, ConStep
<1>3. TheScreen!Step(View(con), View(con'))
  BY <1>1 DEF ConStep
<1>4. Shown = View(con) /\ Shown' = View(con')
  BY DEF Shown, View, Screened, Cells
<1> QED BY <1>2, <1>3, <1>4 DEF TheScreen!Next

ConSpec == con_init /\ [][con_write]_conVars

\* The screen stays in the video memory, the cursor on the screen, and no store
\* goes outside the memory, whatever bytes con_write gets: for every size of
\* the screen and of the memory, with hardware scrolling or without it.
THEOREM ConsoleTypes == ConSpec => []ConTypeOK
<1>1. con_init => ConInv
  BY ConStarts
<1>2. ConInv /\ [con_write]_conVars => ConInv'
  BY ConNextKeeps
<1>3. ConInv => ConTypeOK
  BY ConTypes
<1> QED BY <1>1, <1>2, <1>3, PTL DEF ConSpec

\* What con_write does to the video memory is, seen through origin, what an
\* abstract screen does for the same byte: no character shows anywhere else,
\* wherever origin has scrolled to and however often it went back to the start
\* of the memory (scrup, scrdown, insert_*, delete_*, csi_J, csi_K).
THEOREM ConsoleShowsAScreen == ConSpec => ShowsAScreen
<1>1. con_init => ConInv /\ TheScreen!Init
  BY ConStarts
<1>2. ConInv /\ [con_write]_conVars => ConInv' /\ [TheScreen!Next]_Shown
  BY ConNextKeeps
<1> QED BY <1>1, <1>2, PTL DEF ConSpec, ShowsAScreen, TheScreen!Spec

-----------------------------------------------------------------------------
(***************************************************************************)
(* Pipes, whether or not copies sleep.                                     *)
(***************************************************************************)
PipePlaces == {"user", "read", "read_sleep", "read_copy", "read_fault",
               "write", "write_sleep", "write_copy", "write_fault"}
Writing == {"write", "write_sleep", "write_copy", "write_fault"}

\* The bytes that the calls of write still have to put in: places pl, counts ct.
Pends(pl, ct) == {e \in Procs \X (1 .. MaxCount) : pl[e[1]] \in Writing /\ e[2] <= ct[e[1]]}

\* Nobody wants more bytes than before ...
LEMMA PendsShrink ==
    ASSUME NEW pl, NEW ct \in [Procs -> 0 .. MaxCount], NEW pl2, NEW ct2 \in [Procs -> 0 .. MaxCount],
           IsFiniteSet(Pends(pl, ct)),
           \A s \in Procs : pl2[s] \in Writing => pl[s] \in Writing /\ ct2[s] <= ct[s]
    PROVE  /\ IsFiniteSet(Pends(pl2, ct2))
           /\ Cardinality(Pends(pl2, ct2)) \in Nat /\ Cardinality(Pends(pl, ct)) \in Nat
           /\ Cardinality(Pends(pl2, ct2)) <= Cardinality(Pends(pl, ct))
<1>1. PICK S, T : S = Pends(pl, ct) /\ T = Pends(pl2, ct2)
  OBVIOUS
<1>2. ASSUME NEW e \in T PROVE e \in S
  <2>1. /\ e \in Procs \X (1 .. MaxCount) /\ pl2[e[1]] \in Writing /\ e[2] <= ct2[e[1]]
    BY <1>1 DEF Pends
  <2>2. e[1] \in Procs /\ e[2] \in 1 .. MaxCount
    BY <2>1
  <2>3. pl[e[1]] \in Writing /\ ct2[e[1]] <= ct[e[1]] /\ ct2[e[1]] \in Int /\ ct[e[1]] \in Int
    BY <2>1, <2>2, PipeAssumption
  <2>4. e[2] <= ct[e[1]]
    BY <2>1, <2>2, <2>3
  <2> QED BY <1>1, <2>1, <2>3, <2>4 DEF Pends
<1>3. T \in SUBSET S /\ IsFiniteSet(S)
  BY <1>1, <1>2
<1>4. IsFiniteSet(T) /\ Cardinality(T) <= Cardinality(S)
  BY <1>3, FS_Subset
<1>5. Cardinality(T) \in Nat /\ Cardinality(S) \in Nat
  BY <1>3, <1>4, FS_CardinalityType
<1> QED BY <1>1, <1>4, <1>5

\* ... or p asks for n bytes ...
LEMMA PendsGrow ==
    ASSUME NEW pl, NEW ct \in [Procs -> 0 .. MaxCount], NEW pl2, NEW ct2 \in [Procs -> 0 .. MaxCount],
           IsFiniteSet(Pends(pl, ct)), NEW p \in Procs, NEW n \in Nat, ct2[p] = n,
           \A s \in Procs : s # p /\ pl2[s] \in Writing => pl[s] \in Writing /\ ct2[s] = ct[s]
    PROVE  /\ IsFiniteSet(Pends(pl2, ct2))
           /\ Cardinality(Pends(pl2, ct2)) \in Nat /\ Cardinality(Pends(pl, ct)) \in Nat
           /\ Cardinality(Pends(pl2, ct2)) <= Cardinality(Pends(pl, ct)) + n
<1>1. PICK S, T, N : S = Pends(pl, ct) /\ T = Pends(pl2, ct2) /\ N = {p} \X (1 .. n)
  OBVIOUS
<1>2. ASSUME NEW e \in T PROVE e \in S \cup N
  <2>1. /\ e \in Procs \X (1 .. MaxCount) /\ pl2[e[1]] \in Writing /\ e[2] <= ct2[e[1]]
    BY <1>1 DEF Pends
  <2>2. CASE e[1] = p
    <3>1. e = <<e[1], e[2]>> /\ e[1] \in {p} /\ e[2] \in 1 .. n
      BY <2>1, <2>2
    <3>2. e \in N
      BY <1>1, <3>1
    <3> QED BY <3>2
  <2>3. CASE e[1] # p
    <3>1. pl[e[1]] \in Writing /\ ct2[e[1]] = ct[e[1]]
      BY <2>1, <2>3
    <3> QED BY <1>1, <2>1, <3>1 DEF Pends
  <2> QED BY <2>2, <2>3
<1>3. IsFiniteSet({p}) /\ Cardinality({p}) = 1 /\ IsFiniteSet(1 .. n) /\ Cardinality(1 .. n) = n
  <2>1. IsFiniteSet(1 .. n) /\ Cardinality(1 .. n) = IF 1 > n THEN 0 ELSE n - 1 + 1
    BY FS_Interval
  <2>2. Cardinality(1 .. n) = n
    BY <2>1
  <2>3. IsFiniteSet({p}) /\ Cardinality({p}) = 1
    BY FS_Singleton
  <2> QED BY <2>1, <2>2, <2>3
<1>4. IsFiniteSet(N) /\ Cardinality(N) = 1 * n
  <2>1. IsFiniteSet({p} \X (1 .. n)) /\ Cardinality({p} \X (1 .. n)) = Cardinality({p}) * Cardinality(1 .. n)
    BY <1>3, FS_Product
  <2> QED BY <1>1, <1>3, <2>1
<1>5. IsFiniteSet(S \cup N) /\ Cardinality(S \cup N) = Cardinality(S) + Cardinality(N) - Cardinality(S \cap N)
  BY <1>1, <1>4, FS_Union
<1>6. IsFiniteSet(S \cap N)
  <2>1. S \cap N \in SUBSET N
    OBVIOUS
  <2> QED BY <1>4, <2>1, FS_Subset
<1>7. T \in SUBSET (S \cup N)
  BY <1>2
<1>8. IsFiniteSet(T) /\ Cardinality(T) <= Cardinality(S \cup N)
  BY <1>5, <1>7, FS_Subset
<1>9. /\ Cardinality(T) \in Nat /\ Cardinality(S) \in Nat /\ Cardinality(S \cap N) \in Nat
      /\ Cardinality(S \cup N) \in Nat
  BY <1>1, <1>5, <1>6, <1>8, FS_CardinalityType
<1> QED BY <1>1, <1>4, <1>5, <1>8, <1>9

\* ... or gets rid of n.
LEMMA PendsTaken ==
    ASSUME NEW pl, NEW ct \in [Procs -> 0 .. MaxCount], NEW pl2, NEW ct2 \in [Procs -> 0 .. MaxCount],
           IsFiniteSet(Pends(pl, ct)), NEW p \in Procs, NEW n \in Nat, n <= ct[p], ct2[p] = ct[p] - n,
           pl[p] \in Writing,
           \A s \in Procs : s # p /\ pl2[s] \in Writing => pl[s] \in Writing /\ ct2[s] = ct[s]
    PROVE  /\ IsFiniteSet(Pends(pl2, ct2))
           /\ Cardinality(Pends(pl2, ct2)) \in Nat /\ Cardinality(Pends(pl, ct)) \in Nat
           /\ Cardinality(Pends(pl2, ct2)) + n <= Cardinality(Pends(pl, ct))
<1>1. PICK S, T, N, a, b : /\ S = Pends(pl, ct) /\ T = Pends(pl2, ct2) /\ N = {p} \X (a .. b)
                           /\ b = ct[p] /\ a = ct[p] - n + 1
  OBVIOUS
<1>2. ct[p] \in 0 .. MaxCount /\ MaxCount \in Nat /\ a \in Int /\ b \in Int /\ a >= 1 /\ b - a + 1 = n
  BY <1>1, PipeAssumption
<1>3. ASSUME NEW e \in T PROVE e \in S /\ e \notin N
  <2>1. /\ e \in Procs \X (1 .. MaxCount) /\ pl2[e[1]] \in Writing /\ e[2] <= ct2[e[1]]
    BY <1>1 DEF Pends
  <2>2. CASE e[1] = p
    <3>1. e[2] \in Int /\ e[2] <= ct[p] - n
      BY <2>1, <2>2
    <3>2. e[2] <= ct[e[1]] /\ e[2] \notin a .. b
      BY <1>1, <1>2, <2>2, <3>1
    <3>3. e \in S
      BY <1>1, <2>1, <2>2, <3>2 DEF Pends
    <3> QED BY <1>1, <3>2, <3>3
  <2>3. CASE e[1] # p
    <3>1. pl[e[1]] \in Writing /\ ct2[e[1]] = ct[e[1]]
      BY <2>1, <2>3
    <3>2. e \notin N
      BY <1>1, <2>3
    <3> QED BY <1>1, <2>1, <3>1, <3>2 DEF Pends
  <2> QED BY <2>2, <2>3
<1>4. ASSUME NEW e \in N PROVE e \in S
  <2>1. e = <<p, e[2]>> /\ e[2] \in a .. b /\ e[1] = p
    BY <1>1
  <2>2. e[2] \in 1 .. MaxCount /\ e[2] <= ct[p]
    BY <1>1, <1>2, <2>1
  <2>3. e \in Procs \X (1 .. MaxCount)
    BY <2>1, <2>2
  <2> QED BY <1>1, <2>1, <2>2, <2>3 DEF Pends
<1>5. T \cup N \in SUBSET S /\ T \in SUBSET S /\ N \in SUBSET S /\ T \cap N = {} /\ IsFiniteSet(S)
  BY <1>1, <1>3, <1>4
<1>6. IsFiniteSet({p}) /\ Cardinality({p}) = 1 /\ IsFiniteSet(a .. b) /\ Cardinality(a .. b) = n
  <2>1. IsFiniteSet(a .. b) /\ Cardinality(a .. b) = IF a > b THEN 0 ELSE b - a + 1
    BY <1>2, FS_Interval
  <2>2. Cardinality(a .. b) = n
    BY <1>2, <2>1
  <2>3. IsFiniteSet({p}) /\ Cardinality({p}) = 1
    BY FS_Singleton
  <2> QED BY <2>1, <2>2, <2>3
<1>7. IsFiniteSet(N) /\ Cardinality(N) = 1 * n
  <2>1. /\ IsFiniteSet({p} \X (a .. b))
        /\ Cardinality({p} \X (a .. b)) = Cardinality({p}) * Cardinality(a .. b)
    BY <1>6, FS_Product
  <2> QED BY <1>1, <1>6, <2>1
<1>8. IsFiniteSet(T) /\ IsFiniteSet(T \cup N) /\ Cardinality(T \cup N) <= Cardinality(S)
  BY <1>5, FS_Subset
<1>9. Cardinality(T \cup N) = Cardinality(T) + Cardinality(N) - Cardinality(T \cap N)
  BY <1>7, <1>8, FS_Union
<1>10. Cardinality(T \cap N) = 0
  BY <1>5, FS_EmptySet
<1>11. Cardinality(T) \in Nat /\ Cardinality(S) \in Nat
  BY <1>5, <1>8, FS_CardinalityType
<1> QED BY <1>1, <1>7, <1>8, <1>9, <1>10, <1>11

\* The inductive invariant: the bytes put in and the bytes still to be put in
\* are no more than the calls of write have asked for.
OnePage(c) == c.from \in Index /\ c.len \in 0 .. PAGE_SIZE - 1 /\ c.from + c.len <= PAGE_SIZE
Filling == {"write_copy", "write_fault"}
PipeShape ==
    /\ page \in [Index -> Nat] /\ \A i \in Index : page[i] <= input
    /\ PIPE_HEAD \in Index /\ PIPE_TAIL \in Index
    /\ open \subseteq Procs /\ cur \in Procs \cup {NoProc}
    /\ pc \in [Procs -> PipePlaces] /\ count \in [Procs -> 0 .. MaxCount]
    /\ chunk \in [Procs -> Chunk] /\ \A s \in Procs : OnePage(chunk[s])
    /\ \A s \in Procs : pc[s] \in Filling => chunk[s].byte + chunk[s].len <= input
    /\ asked \in 0 .. MaxBytes /\ input \in Nat
AllPends ==
    /\ IsFiniteSet(Pends(pc, count))
    /\ input + Cardinality(Pends(pc, count)) <= asked
PipeInv == PipeShape /\ AllPends

LEMMA PipeTypes ==
    ASSUME PipeInv
    PROVE  PipeTypeOK
<1>1. PipeShape /\ AllPends
  BY DEF PipeInv
<1>2. asked \in 0 .. MaxBytes /\ input \in Nat /\ MaxBytes \in Nat
  BY <1>1, PipeAssumption DEF PipeShape
<1>3. Cardinality(Pends(pc, count)) \in Nat
  BY <1>1, FS_CardinalityType DEF AllPends
<1>4. input \in 0 .. asked /\ input <= MaxBytes
  BY <1>1, <1>2, <1>3 DEF AllPends
<1>5. page \in [Index -> 0 .. MaxBytes]
  <2>1. \A i \in Index : page[i] \in Nat /\ page[i] <= input
    BY <1>1 DEF PipeShape
  <2>2. \A i \in Index : page[i] \in 0 .. MaxBytes
    BY <1>2, <1>4, <2>1
  <2>3. page \in [Index -> Nat]
    BY <1>1 DEF PipeShape
  <2> QED BY <2>2, <2>3
<1> QED BY <1>1, <1>2, <1>4, <1>5 DEF PipeTypeOK, PipeShape, PipePlaces, OnePage

LEMMA ChunkOfNone == NoChunk \in Chunk /\ OnePage(NoChunk)
BY PipeAssumption DEF NoChunk, Chunk, OnePage, Index

LEMMA PipeStarts ==
    ASSUME PipeInit
    PROVE  PipeInv
<1>1. /\ page = [i \in Index |-> 0] /\ PIPE_HEAD = 0 /\ PIPE_TAIL = 0 /\ open = Procs /\ cur = NoProc
      /\ pc = [p \in Procs |-> "user"] /\ count = [p \in Procs |-> 0]
      /\ chunk = [p \in Procs |-> NoChunk] /\ asked = 0 /\ input = 0
  BY DEF PipeInit
<1>2. Pends(pc, count) = {}
  BY <1>1 DEF Pends, Writing
<1>3. AllPends
  BY <1>1, <1>2, FS_EmptySet DEF AllPends
<1>4. PipeShape
  <2>1. 0 \in Index /\ 0 \in 0 .. MaxBytes /\ 0 \in 0 .. MaxCount
    BY PipeAssumption DEF Index
  <2>2. /\ page \in [Index -> Nat] /\ \A i \in Index : page[i] <= input
    BY <1>1
  <2>3. chunk \in [Procs -> Chunk] /\ \A s \in Procs : OnePage(chunk[s])
    BY <1>1, ChunkOfNone
  <2>4. pc \in [Procs -> PipePlaces] /\ count \in [Procs -> 0 .. MaxCount] /\ \A s \in Procs : pc[s] \notin Filling
    BY <1>1, <2>1 DEF PipePlaces, Filling
  <2> QED BY <1>1, <2>1, <2>2, <2>3, <2>4 DEF PipeShape
<1> QED BY <1>3, <1>4 DEF PipeInv

LEMMA WokenKeeps ==
    ASSUME pc \in [Procs -> PipePlaces]
    PROVE  /\ Woken \in [Procs -> PipePlaces]
           /\ \A s \in Procs : /\ Woken[s] \in Writing => pc[s] \in Writing
                               /\ Woken[s] \in Filling => pc[s] \in Filling
BY DEF Woken, PipePlaces, Writing, Filling

\* A step that moves no byte.
LEMMA QuietKeeps ==
    ASSUME PipeInv, UNCHANGED <<page, PIPE_HEAD, PIPE_TAIL, chunk, input, asked>>,
           open' \subseteq Procs, cur' \in Procs \cup {NoProc},
           pc' \in [Procs -> PipePlaces], count' \in [Procs -> 0 .. MaxCount],
           \A s \in Procs : pc'[s] \in Filling => pc[s] \in Filling,
           \A s \in Procs : pc'[s] \in Writing => pc[s] \in Writing /\ count'[s] <= count[s]
    PROVE  PipeInv'
<1>1. PipeShape /\ AllPends
  BY DEF PipeInv
<1>2. PipeShape'
  BY <1>1 DEF PipeShape
<1>3. count \in [Procs -> 0 .. MaxCount] /\ IsFiniteSet(Pends(pc, count)) /\ input \in Nat /\ asked \in Nat
  BY <1>1 DEF PipeShape, AllPends
<1>4. /\ IsFiniteSet(Pends(pc', count'))
      /\ Cardinality(Pends(pc', count')) \in Nat /\ Cardinality(Pends(pc, count)) \in Nat
      /\ Cardinality(Pends(pc', count')) <= Cardinality(Pends(pc, count))
  BY <1>3, PendsShrink
<1>5. input' + Cardinality(Pends(pc', count')) <= asked'
  BY <1>1, <1>3, <1>4 DEF AllPends
<1>6. AllPends'
  BY <1>4, <1>5 DEF AllPends
<1> QED BY <1>2, <1>6 DEF PipeInv

LEMMA QuietSteps ==
    ASSUME PipeInv, NEW p \in Procs, cur' \in Procs \cup {NoProc},
           \/ sys_read(p) \/ read_empty(p) \/ read_returns(p) \/ write_full(p) \/ write_returns(p)
           \/ sys_close(p)
    PROVE  PipeInv'
<1>1. /\ pc \in [Procs -> PipePlaces] /\ count \in [Procs -> 0 .. MaxCount] /\ open \subseteq Procs
      /\ MaxCount \in Nat
  BY PipeAssumption DEF PipeInv, PipeShape
<1>2. /\ Woken \in [Procs -> PipePlaces]
      /\ \A s \in Procs : /\ Woken[s] \in Writing => pc[s] \in Writing
                          /\ Woken[s] \in Filling => pc[s] \in Filling
  BY <1>1, WokenKeeps
<1>3. UNCHANGED <<page, PIPE_HEAD, PIPE_TAIL, chunk, input, asked>>
  BY DEF sys_read, read_empty, read_returns, write_full, write_returns, sys_close
<1>4. open' \subseteq Procs
  BY <1>1 DEF sys_read, read_empty, read_returns, write_full, write_returns, sys_close
<1>5. /\ pc' \in [Procs -> PipePlaces] /\ count' \in [Procs -> 0 .. MaxCount]
      /\ \A s \in Procs : pc'[s] \in Filling => pc[s] \in Filling
      /\ \A s \in Procs : pc'[s] \in Writing => pc[s] \in Writing /\ count'[s] = count[s]
  <2>1. CASE sys_read(p)
    <3>1. PICK n \in 1 .. MaxCount : count' = [count EXCEPT ![p] = n]
      BY <2>1 DEF sys_read
    <3>2. pc' = [pc EXCEPT ![p] = "read"]
      BY <2>1 DEF sys_read
    <3>3. count' \in [Procs -> 0 .. MaxCount] /\ \A s \in Procs : s # p => count'[s] = count[s]
      BY <1>1, <3>1
    <3>4. /\ pc' \in [Procs -> PipePlaces] /\ pc'[p] = "read"
          /\ \A s \in Procs : s # p => pc'[s] = pc[s]
      BY <1>1, <3>2 DEF PipePlaces
    <3> QED BY <3>3, <3>4 DEF Filling, Writing
  <2>2. CASE read_empty(p) \/ read_returns(p) \/ write_returns(p)
    <3>1. PICK where \in {"user", "read_sleep"} : pc' = [Woken EXCEPT ![p] = where] /\ count' = count
      BY <2>2 DEF read_empty, read_returns, write_returns
    <3>2. /\ pc' \in [Procs -> PipePlaces] /\ pc'[p] = where
          /\ \A s \in Procs : s # p => pc'[s] = Woken[s]
      BY <1>2, <3>1 DEF PipePlaces
    <3> QED BY <1>1, <1>2, <3>1, <3>2 DEF Filling, Writing
  <2>3. CASE write_full(p)
    <3>1. PICK where \in {"user", "write_sleep"} : pc' = [Woken EXCEPT ![p] = where] /\ count' = count
      BY <2>3 DEF write_full
    <3>2. pc[p] \in Writing
      BY <2>3 DEF write_full, Writing
    <3>3. /\ pc' \in [Procs -> PipePlaces] /\ pc'[p] = where
          /\ \A s \in Procs : s # p => pc'[s] = Woken[s]
      BY <1>2, <3>1 DEF PipePlaces
    <3> QED BY <1>1, <1>2, <3>1, <3>2, <3>3 DEF Filling, Writing
  <2>4. CASE sys_close(p)
    <3>1. count' = count /\ (pc' = Woken \/ pc' = pc)
      BY <2>4 DEF sys_close
    <3> QED BY <1>1, <1>2, <3>1
  <2> QED BY <2>1, <2>2, <2>3, <2>4
<1>6. \A s \in Procs : pc'[s] \in Writing => pc[s] \in Writing /\ count'[s] <= count[s]
  BY <1>1, <1>5
<1> QED BY <1>3, <1>4, <1>5, <1>6, QuietKeeps

LEMMA sys_writeKeeps ==
    ASSUME PipeInv, NEW p \in Procs, cur' \in Procs \cup {NoProc}, sys_write(p)
    PROVE  PipeInv'
<1>1. /\ pc \in [Procs -> PipePlaces] /\ count \in [Procs -> 0 .. MaxCount]
      /\ IsFiniteSet(Pends(pc, count)) /\ input + Cardinality(Pends(pc, count)) <= asked
      /\ input \in Nat /\ asked \in Nat /\ MaxBytes \in Nat /\ PipeShape
  BY PipeAssumption DEF PipeInv, PipeShape, AllPends
<1>2. PICK n \in 1 .. MaxCount : asked + n <= MaxBytes /\ asked' = asked + n /\ count' = [count EXCEPT ![p] = n]
  BY DEF sys_write
<1>3. /\ pc' = [pc EXCEPT ![p] = "write"] /\ UNCHANGED <<page, PIPE_HEAD, PIPE_TAIL, open, chunk, input>>
  BY DEF sys_write
<1>4. n \in Nat /\ n \in 0 .. MaxCount
  BY PipeAssumption
<1>5. /\ count' \in [Procs -> 0 .. MaxCount] /\ count'[p] = n
      /\ \A s \in Procs : s # p => count'[s] = count[s]
  BY <1>1, <1>2, <1>4
<1>6. /\ pc' \in [Procs -> PipePlaces] /\ pc'[p] = "write"
      /\ \A s \in Procs : s # p => pc'[s] = pc[s]
  BY <1>1, <1>3 DEF PipePlaces
<1>7. \A s \in Procs : s # p /\ pc'[s] \in Writing => pc[s] \in Writing /\ count'[s] = count[s]
  BY <1>5, <1>6
<1>8. /\ IsFiniteSet(Pends(pc', count'))
      /\ Cardinality(Pends(pc', count')) \in Nat /\ Cardinality(Pends(pc, count)) \in Nat
      /\ Cardinality(Pends(pc', count')) <= Cardinality(Pends(pc, count)) + n
  BY <1>1, <1>4, <1>5, <1>7, PendsGrow
<1>9. input' + Cardinality(Pends(pc', count')) <= asked'
  BY <1>1, <1>2, <1>3, <1>4, <1>8
<1>10. asked' \in 0 .. MaxBytes
  BY <1>1, <1>2, <1>4
<1>11. \A s \in Procs : pc'[s] \in Filling => pc[s] \in Filling
  BY <1>6 DEF Filling
<1>12. PipeShape'
  BY <1>1, <1>3, <1>5, <1>6, <1>10, <1>11 DEF PipeShape
<1> QED BY <1>8, <1>9, <1>12 DEF PipeInv, AllPends

LEMMA CopyKeeps ==
    ASSUME PipeInv, NEW p \in Procs, cur' \in Procs \cup {NoProc}, read_copy(p) \/ write_copy(p)
    PROVE  PipeInv'
<1>1. /\ pc \in [Procs -> PipePlaces] /\ count \in [Procs -> 0 .. MaxCount] /\ chunk \in [Procs -> Chunk]
      /\ IsFiniteSet(Pends(pc, count)) /\ input + Cardinality(Pends(pc, count)) <= asked
      /\ input \in Nat /\ asked \in Nat /\ PipeShape
  BY DEF PipeInv, PipeShape, AllPends
<1>2. PICK where \in {"read", "write"} : /\ pc' = [pc EXCEPT ![p] = where]
                                         /\ where = "write" => pc[p] \in Filling
  BY DEF read_copy, write_copy, Filling
<1>3. /\ chunk' = [chunk EXCEPT ![p] = NoChunk]
      /\ UNCHANGED <<PIPE_HEAD, PIPE_TAIL, open, count, asked, input>>
  BY DEF read_copy, write_copy
<1>4. /\ pc' \in [Procs -> PipePlaces] /\ pc'[p] = where
      /\ \A s \in Procs : s # p => pc'[s] = pc[s]
  BY <1>1, <1>2 DEF PipePlaces
<1>5. /\ chunk' \in [Procs -> Chunk] /\ chunk'[p] = NoChunk
      /\ \A s \in Procs : s # p => chunk'[s] = chunk[s]
  BY <1>1, <1>3, ChunkOfNone
<1>6. \A s \in Procs : OnePage(chunk'[s])
  <2> TAKE s \in Procs
  <2>1. CASE s = p
    BY <1>5, <2>1, ChunkOfNone
  <2>2. CASE s # p
    BY <1>1, <1>5, <2>2 DEF PipeShape
  <2> QED BY <2>1, <2>2
<1>7. \A s \in Procs : pc'[s] \in Filling => chunk'[s].byte + chunk'[s].len <= input'
  <2> SUFFICES ASSUME NEW s \in Procs, pc'[s] \in Filling
               PROVE  chunk'[s].byte + chunk'[s].len <= input'
    OBVIOUS
  <2>1. s # p
    BY <1>4 DEF Filling
  <2>2. pc[s] \in Filling /\ chunk'[s] = chunk[s]
    BY <1>4, <1>5, <2>1
  <2> QED BY <1>1, <1>3, <2>2 DEF PipeShape
<1>8. page' \in [Index -> Nat] /\ \A i \in Index : page'[i] <= input
  <2>0. page \in [Index -> Nat] /\ \A i \in Index : page[i] <= input
    BY <1>1 DEF PipeShape
  <2>1. CASE read_copy(p)
    BY <2>0, <2>1 DEF read_copy
  <2>2. CASE write_copy(p)
    <3>1. PICK c \in Chunk : c = chunk[p]
      BY <1>1
    <3>2. pc[p] \in Filling
      BY <2>2 DEF write_copy, Filling
    <3>3. c.byte + c.len <= input /\ c.byte \in Nat /\ c.from \in Nat /\ c.len \in Nat
      BY <1>1, <3>1, <3>2 DEF PipeShape, Chunk
    <3>4. page' = [i \in Index |-> IF i \in c.from .. c.from + c.len - 1
                                   THEN c.byte + (i - c.from) + 1 ELSE page[i]]
      BY <2>2, <3>1 DEF write_copy
    <3>5. ASSUME NEW i \in Index
          PROVE  page'[i] \in Nat /\ page'[i] <= input
      <4>1. CASE i \in c.from .. c.from + c.len - 1
        <5>1. page'[i] = c.byte + (i - c.from) + 1
          BY <3>4, <4>1
        <5> QED BY <1>1, <3>3, <4>1, <5>1
      <4>2. CASE i \notin c.from .. c.from + c.len - 1
        BY <2>0, <3>4, <4>2
      <4> QED BY <4>1, <4>2
    <3> QED BY <3>4, <3>5
  <2> QED BY <2>1, <2>2
<1>9. PipeShape'
  BY <1>1, <1>3, <1>4, <1>5, <1>6, <1>7, <1>8 DEF PipeShape
<1>10. \A s \in Procs : pc'[s] \in Writing => pc[s] \in Writing /\ count[s] <= count[s]
  <2>1. \A s \in Procs : count[s] <= count[s]
    BY <1>1
  <2> QED BY <1>2, <1>4, <2>1 DEF Writing, Filling
<1>11. /\ IsFiniteSet(Pends(pc', count))
       /\ Cardinality(Pends(pc', count)) \in Nat /\ Cardinality(Pends(pc, count)) \in Nat
       /\ Cardinality(Pends(pc', count)) <= Cardinality(Pends(pc, count))
  BY <1>1, <1>10, PendsShrink
<1>12. input + Cardinality(Pends(pc', count)) <= asked
  BY <1>1, <1>11
<1>13. AllPends'
  BY <1>3, <1>11, <1>12 DEF AllPends
<1> QED BY <1>9, <1>13 DEF PipeInv

\* How long a chunk is: at least a byte, at most what its three bounds allow.
LEMMA ChunkLength ==
    ASSUME NEW i \in Index, NEW c \in Nat, NEW s \in 1 .. PAGE_SIZE - 1, c > 0,
           NEW n, n = Least({PAGE_SIZE - i, c, s})
    PROVE  /\ n \in Nat /\ n <= c /\ n <= s /\ n \in 0 .. PAGE_SIZE - 1
           /\ i + n <= PAGE_SIZE /\ (i + n) % PAGE_SIZE \in Index
<1>1. i \in Nat /\ i < PAGE_SIZE /\ PAGE_SIZE \in Nat
  BY PipeAssumption DEF Index
<1>2. PAGE_SIZE - i \in Int /\ c \in Int /\ s \in Int /\ s > 0
  BY <1>1
<1>3. n \in {PAGE_SIZE - i, c, s} /\ n <= PAGE_SIZE - i /\ n <= c /\ n <= s
  BY <1>2, LeastIs
<1>4. n \in Nat
  BY <1>1, <1>2, <1>3
<1>5. i + n \in 0 .. 2 * PAGE_SIZE - 1
  BY <1>1, <1>3, <1>4
<1>6. (i + n) % PAGE_SIZE \in Index
  BY <1>5, WrapIs
<1> QED BY <1>1, <1>2, <1>3, <1>4, <1>6

LEMMA ChunkKeeps ==
    ASSUME PipeInv, NEW p \in Procs, cur' \in Procs \cup {NoProc}, read_chunk(p) \/ write_chunk(p)
    PROVE  PipeInv'
<1>1. /\ pc \in [Procs -> PipePlaces] /\ count \in [Procs -> 0 .. MaxCount] /\ chunk \in [Procs -> Chunk]
      /\ IsFiniteSet(Pends(pc, count)) /\ input + Cardinality(Pends(pc, count)) <= asked
      /\ input \in Nat /\ asked \in 0 .. MaxBytes /\ MaxBytes \in Nat /\ MaxCount \in Nat
      /\ PIPE_HEAD \in Index /\ PIPE_TAIL \in Index
      /\ page \in [Index -> Nat] /\ \A i \in Index : page[i] <= input
      /\ \A s \in Procs : OnePage(chunk[s])
      /\ \A s \in Procs : pc[s] \in Filling => chunk[s].byte + chunk[s].len <= input
      /\ PipeShape
  BY PipeAssumption DEF PipeInv, PipeShape, AllPends
<1>2. PIPE_SIZE \in Index
  BY <1>1, SizeIs, DistIs
<1>3. /\ count[p] \in Nat /\ count[p] > 0 /\ count[p] <= MaxCount
      /\ UNCHANGED <<page, open, asked>>
  <2>1. count[p] > 0 /\ UNCHANGED <<page, open, asked>>
    BY DEF read_chunk, write_chunk
  <2> QED BY <1>1, <2>1
<1>4. PICK n \in Nat, from \in Index, byte \in Nat, to \in PipePlaces :
          /\ n <= count[p] /\ n \in 0 .. PAGE_SIZE - 1 /\ from + n <= PAGE_SIZE
          /\ count' = [count EXCEPT ![p] = @ - n]
          /\ chunk' = [chunk EXCEPT ![p] = [from |-> from, len |-> n, byte |-> byte]]
          /\ pc' = [pc EXCEPT ![p] = to]
          /\ PIPE_HEAD' \in Index /\ PIPE_TAIL' \in Index
          /\ \/ to \notin Writing /\ input' = input
             \/ pc[p] \in Writing /\ to \in Writing /\ byte = input /\ input' = input + n
  <2>1. CASE read_chunk(p)
    <3>1. PICK n : n = Least({PAGE_SIZE - PIPE_TAIL, count[p], PIPE_SIZE})
      OBVIOUS
    <3>2. PIPE_SIZE \in 1 .. PAGE_SIZE - 1
      BY <1>2, <2>1, PipeAssumption DEF read_chunk, Index
    <3>3. /\ n \in Nat /\ n <= count[p] /\ n \in 0 .. PAGE_SIZE - 1
          /\ PIPE_TAIL + n <= PAGE_SIZE /\ (PIPE_TAIL + n) % PAGE_SIZE \in Index
      BY <1>1, <1>3, <3>1, <3>2, ChunkLength
    <3>4. /\ count' = [count EXCEPT ![p] = @ - n]
          /\ chunk' = [chunk EXCEPT ![p] = [from |-> PIPE_TAIL, len |-> n, byte |-> 0]]
          /\ PIPE_TAIL' = (PIPE_TAIL + n) % PAGE_SIZE /\ PIPE_HEAD' = PIPE_HEAD /\ input' = input
      BY <2>1, <3>1 DEF read_chunk
    <3>5. PICK to \in {"read_fault", "read_copy"} : pc' = [pc EXCEPT ![p] = to]
      BY <2>1 DEF read_chunk
    <3>6. to \in PipePlaces /\ to \notin Writing
      BY <3>5 DEF PipePlaces, Writing
    <3>7. PIPE_HEAD' \in Index /\ PIPE_TAIL' \in Index /\ 0 \in Nat
      BY <1>1, <3>3, <3>4
    <3> QED BY <1>1, <3>3, <3>4, <3>5, <3>6, <3>7
  <2>2. CASE write_chunk(p)
    <3>1. PICK n : n = Least({PAGE_SIZE - PIPE_HEAD, count[p], Space})
      OBVIOUS
    <3>2. Space \in 1 .. PAGE_SIZE - 1
      <4>1. Space # 0
        BY <2>2 DEF write_chunk
      <4> QED BY <1>2, <4>1, PipeAssumption DEF Space, Index
    <3>3. /\ n \in Nat /\ n <= count[p] /\ n \in 0 .. PAGE_SIZE - 1
          /\ PIPE_HEAD + n <= PAGE_SIZE /\ (PIPE_HEAD + n) % PAGE_SIZE \in Index
      BY <1>1, <1>3, <3>1, <3>2, ChunkLength
    <3>4. /\ count' = [count EXCEPT ![p] = @ - n]
          /\ chunk' = [chunk EXCEPT ![p] = [from |-> PIPE_HEAD, len |-> n, byte |-> input]]
          /\ PIPE_HEAD' = (PIPE_HEAD + n) % PAGE_SIZE /\ PIPE_TAIL' = PIPE_TAIL /\ input' = input + n
      BY <2>2, <3>1 DEF write_chunk
    <3>5. PICK to \in {"write_fault", "write_copy"} : pc' = [pc EXCEPT ![p] = to]
      BY <2>2 DEF write_chunk
    <3>6. to \in PipePlaces /\ to \in Writing /\ pc[p] \in Writing
      BY <2>2, <3>5 DEF write_chunk, PipePlaces, Writing
    <3>7. PIPE_HEAD' \in Index /\ PIPE_TAIL' \in Index
      BY <1>1, <3>3, <3>4
    <3> QED BY <1>1, <3>3, <3>4, <3>5, <3>6, <3>7
  <2> QED BY <2>1, <2>2
<1>5. /\ count' \in [Procs -> 0 .. MaxCount] /\ count'[p] = count[p] - n
      /\ \A s \in Procs : s # p => count'[s] = count[s]
  <2>1. count[p] - n \in 0 .. MaxCount
    BY <1>1, <1>3, <1>4
  <2> QED BY <1>1, <1>4, <2>1
<1>6. /\ pc' \in [Procs -> PipePlaces] /\ pc'[p] = to
      /\ \A s \in Procs : s # p => pc'[s] = pc[s]
  BY <1>1, <1>4
<1>7. PICK c : c = [from |-> from, len |-> n, byte |-> byte]
  OBVIOUS
<1>8. c \in Chunk /\ OnePage(c)
  <2>1. from \in Nat
    BY PipeAssumption DEF Index
  <2> QED BY <1>4, <1>7, <2>1 DEF Chunk, OnePage
<1>9. /\ chunk' \in [Procs -> Chunk] /\ chunk'[p] = c
      /\ \A s \in Procs : s # p => chunk'[s] = chunk[s]
  BY <1>1, <1>4, <1>7, <1>8
<1>10. input' \in Nat /\ input <= input'
  BY <1>1, <1>4
<1>11. \A s \in Procs : OnePage(chunk'[s])
  BY <1>1, <1>8, <1>9
<1>12. ASSUME NEW s \in Procs, pc'[s] \in Filling
       PROVE  chunk'[s].byte + chunk'[s].len <= input'
  <2>1. CASE s = p
    <3>1. byte + n = input'
      BY <1>4, <1>6, <1>12, <2>1 DEF Filling, Writing
    <3> QED BY <1>7, <1>9, <1>10, <2>1, <3>1
  <2>2. CASE s # p
    <3>1. chunk'[s] = chunk[s] /\ chunk[s].byte + chunk[s].len <= input /\ chunk[s] \in Chunk
      BY <1>1, <1>6, <1>9, <1>12, <2>2
    <3>2. chunk[s].byte \in Nat /\ chunk[s].len \in Nat
      BY <3>1 DEF Chunk
    <3> QED BY <1>1, <1>10, <3>1, <3>2
  <2> QED BY <2>1, <2>2
<1>13. \A i \in Index : page'[i] <= input'
  <2>1. \A i \in Index : page[i] \in Nat /\ page[i] <= input
    BY <1>1
  <2> QED BY <1>1, <1>3, <1>10, <2>1
<1>14. PipeShape'
  BY <1>1, <1>3, <1>4, <1>5, <1>6, <1>9, <1>10, <1>11, <1>12, <1>13 DEF PipeShape
<1>15. \A s \in Procs : s # p /\ pc'[s] \in Writing => pc[s] \in Writing /\ count'[s] = count[s]
  BY <1>5, <1>6
<1>16. IsFiniteSet(Pends(pc', count')) /\ input' + Cardinality(Pends(pc', count')) <= asked
  <2>1. CASE to \notin Writing /\ input' = input
    <3>1. \A s \in Procs : pc'[s] \in Writing => pc[s] \in Writing /\ count'[s] <= count[s]
      BY <1>1, <1>6, <1>15, <2>1
    <3>2. /\ IsFiniteSet(Pends(pc', count'))
          /\ Cardinality(Pends(pc', count')) \in Nat /\ Cardinality(Pends(pc, count)) \in Nat
          /\ Cardinality(Pends(pc', count')) <= Cardinality(Pends(pc, count))
      BY <1>1, <1>5, <3>1, PendsShrink
    <3> QED BY <1>1, <2>1, <3>2
  <2>2. CASE pc[p] \in Writing /\ input' = input + n
    <3>1. /\ IsFiniteSet(Pends(pc', count'))
          /\ Cardinality(Pends(pc', count')) \in Nat /\ Cardinality(Pends(pc, count)) \in Nat
          /\ Cardinality(Pends(pc', count')) + n <= Cardinality(Pends(pc, count))
      <4>1. /\ pc[p] \in Writing /\ n <= count[p] /\ count'[p] = count[p] - n /\ count' \in [Procs -> 0 .. MaxCount]
            /\ count \in [Procs -> 0 .. MaxCount] /\ IsFiniteSet(Pends(pc, count))
        BY <1>1, <1>4, <1>5, <2>2
      <4> QED BY <1>15, <4>1, PendsTaken
    <3> QED BY <1>1, <1>4, <2>2, <3>1
  <2> QED BY <1>4, <2>1, <2>2
<1> QED BY <1>3, <1>14, <1>16 DEF PipeInv, AllPends

\* Every step keeps it.
LEMMA PipeNextKeeps ==
    ASSUME PipeInv, [PipeNext]_pipeVars
    PROVE  PipeInv'
<1>1. CASE UNCHANGED pipeVars
  BY <1>1 DEF pipeVars, PipeInv, PipeShape, AllPends
<1>2. CASE PipeNext
  <2>1. PICK p \in Procs : Step(p)
    BY <1>2 DEF PipeNext
  <2>2. cur' \in Procs \cup {NoProc}
    BY <2>1 DEF Step
  <2>3. \/ sys_read(p) \/ read_empty(p) \/ read_returns(p) \/ write_full(p) \/ write_returns(p) \/ sys_close(p)
        \/ sys_write(p) \/ read_copy(p) \/ write_copy(p) \/ read_chunk(p) \/ write_chunk(p)
    BY <2>1 DEF Step, read_pipe, write_pipe
  <2> QED BY <2>2, <2>3, QuietSteps, sys_writeKeeps, CopyKeeps, ChunkKeeps
<1> QED BY <1>1, <1>2

\* The head, the tail and every chunk stay in the page, and no more bytes are
\* put into a pipe than the calls of write have asked for, also while copies
\* sleep (read_pipe, write_pipe): for every page and any number of tasks.
THEOREM PipesTypes == PipeSpec => []PipeTypeOK
<1>1. PipeInit => PipeInv
  BY PipeStarts
<1>2. PipeInv /\ [PipeNext]_pipeVars => PipeInv'
  BY PipeNextKeeps
<1>3. PipeInv => PipeTypeOK
  BY PipeTypes
<1> QED BY <1>1, <1>2, <1>3, PTL DEF PipeSpec

-----------------------------------------------------------------------------
(***************************************************************************)
(* The services together: each behaves as it does alone.                   *)
(***************************************************************************)
LEMMA Alone ==
    /\ Init => PipeInit /\ TimerInit /\ HdInit /\ FdInit /\ con_init
    /\ [Next]_allVars => [PipeNext]_pipeVars
    /\ [Next]_allVars => [TimerNext]_timerVars
    /\ [Next]_allVars => [HdNext]_hdVars
    /\ [Next]_allVars => [FdNext]_fdVars
    /\ [Next]_allVars => [con_write]_conVars
<1>1. Init => PipeInit /\ TimerInit /\ HdInit /\ FdInit /\ con_init
  BY DEF Init
<1>2. UNCHANGED allVars => UNCHANGED pipeVars /\ UNCHANGED timerVars /\ UNCHANGED hdVars /\ UNCHANGED fdVars
                           /\ UNCHANGED conVars
  BY DEF allVars
<1>3. Next => /\ PipeNext \/ UNCHANGED pipeVars
              /\ TimerNext \/ UNCHANGED timerVars
              /\ HdNext \/ UNCHANGED hdVars
              /\ FdNext \/ UNCHANGED fdVars
              /\ con_write \/ UNCHANGED conVars
  BY DEF Next
<1> QED BY <1>1, <1>2, <1>3

LEMMA EachAlone == Spec => PipeSpec /\ TimerSpec /\ HdSpec /\ FdSpec /\ ConSpec
<1>1. Spec => Init /\ [][Next]_allVars
  BY DEF Spec
<1>2. Init /\ [][Next]_allVars => PipeInit /\ [][PipeNext]_pipeVars
  BY Alone, PTL
<1>3. Init /\ [][Next]_allVars => TimerInit /\ [][TimerNext]_timerVars
  BY Alone, PTL
<1>4. Init /\ [][Next]_allVars => HdInit /\ [][HdNext]_hdVars
  BY Alone, PTL
<1>5. Init /\ [][Next]_allVars => FdInit /\ [][FdNext]_fdVars
  BY Alone, PTL
<1>6. Init /\ [][Next]_allVars => con_init /\ [][con_write]_conVars
  BY Alone, PTL
<1> QED BY <1>1, <1>2, <1>3, <1>4, <1>5, <1>6 DEF PipeSpec, TimerSpec, HdSpec, FdSpec, ConSpec

\* The types of the pipe, the drivers and the console hold in the specification
\* of the services together, as TLC runs it.
THEOREM ServicesTypes == Spec => []TypeOK
<1>1. PipeTypeOK /\ HdTypeOK /\ FdTypeOK /\ ConTypeOK => TypeOK
  BY DEF TypeOK
<1> QED BY <1>1, EachAlone, PipesTypes, DriverTypes, FloppyTypes, ConsoleTypes, PTL

\* No timer of the services is called before its time (do_timer, add_timer).
THEOREM ServicesNeverEarly == Spec => []NeverEarly
BY EachAlone, TimersNeverEarly, PTL

\* The console of the services implements the abstract screen (con_write).
THEOREM ServicesShowAScreen == Spec => ShowsAScreen
BY EachAlone, ConsoleShowsAScreen, PTL
=============================================================================
