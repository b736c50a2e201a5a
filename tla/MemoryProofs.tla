---------------------------- MODULE MemoryProofs ----------------------------
(***************************************************************************)
(* For every number of frames, tasks and pages: the counts of mem_map are  *)
(* right, what a task may write is its own, and without programs to share  *)
(* pages of, every task has its own memory.                                *)
(***************************************************************************)
EXTENDS Memory, FiniteSetTheorems, WellFoundedInduction, TLAPS

-----------------------------------------------------------------------------
\* Finite sets of numbers.
LEMMA LeastNat ==
    ASSUME NEW S \in SUBSET Nat, S # {}
    PROVE  \E x \in S : \A y \in S : x <= y
<1>1. PICK less : less = {ss \in Nat \X Nat : ss[1] < ss[2]}
  OBVIOUS
<1>2. IsWellFoundedOn(less, Nat)
  BY <1>1, NatLessThanWellFounded DEF OpToRel
<1>3. PICK x \in S : \A y \in S : <<y, x>> \notin less
  BY <1>2, WFMin
<1>4. \A y \in S : x \in Nat /\ y \in Nat /\ ~(y < x)
  <2> TAKE y \in S
  <2>1. x \in Nat /\ y \in Nat
    BY <1>3
  <2>2. <<y, x>> \in Nat \X Nat /\ <<y, x>>[1] = y /\ <<y, x>>[2] = x
    BY <2>1
  <2> QED BY <1>1, <1>3, <2>1, <2>2
<1> QED BY <1>3, <1>4

LEMMA GreatestNat ==
    ASSUME NEW S \in SUBSET Nat, S # {}, NEW m \in Nat, \A x \in S : x <= m
    PROVE  \E x \in S : \A y \in S : y <= x
<1>0. \A x \in S : x \in Nat /\ m - x \in Nat
  OBVIOUS
<1>1. PICK R : R = {m - x : x \in S}
  OBVIOUS
<1>2. R \in SUBSET Nat /\ R # {}
  <2>1. \A r \in R : r \in Nat
    BY <1>0, <1>1
  <2>2. R # {}
    BY <1>1
  <2> QED BY <2>1, <2>2
<1>3. PICK r \in R : \A q \in R : r <= q
  BY <1>2, LeastNat
<1>4. PICK x \in S : r = m - x
  BY <1>1, <1>3
<1>5. \A y \in S : m - x <= m - y
  BY <1>1, <1>3, <1>4
<1> QED BY <1>0, <1>5

\* Of a finite set of numbers there is one with exactly n above it.
Above(S, f) == {g \in S : g > f}

LEMMA AboveIs ==
    ASSUME NEW S \in SUBSET Nat, IsFiniteSet(S), NEW f
    PROVE  IsFiniteSet(Above(S, f)) /\ Cardinality(Above(S, f)) \in Nat
<1>1. Above(S, f) \in SUBSET S
  BY DEF Above
<1> QED BY <1>1, FS_Subset, FS_CardinalityType

LEMMA Ranks ==
    ASSUME NEW S \in SUBSET Nat, IsFiniteSet(S), NEW m \in Nat, \A x \in S : x <= m,
           NEW n \in Nat, n < Cardinality(S)
    PROVE  \E f \in S : Cardinality(Above(S, f)) = n
<1> PICK Bad : Bad = {i \in Nat : i < Cardinality(S) /\ \A f \in S : Cardinality(Above(S, f)) # i}
  OBVIOUS
<1> SUFFICES ASSUME n \in Bad PROVE FALSE
  OBVIOUS
<1>0. Cardinality(S) \in Nat /\ \A x \in S : x \in Nat
  BY FS_CardinalityType
<1>1. PICK b \in Bad : \A i \in Bad : b <= i
  BY LeastNat
<1>2. b \in Nat /\ b < Cardinality(S) /\ \A f \in S : Cardinality(Above(S, f)) # b
  OBVIOUS
<1>3. CASE b = 0
  <2>1. S # {}
    BY <1>0, <1>2, FS_EmptySet
  <2>2. PICK x \in S : \A y \in S : y <= x
    BY <2>1, GreatestNat
  <2>3. Above(S, x) = {}
    <3>1. \A y \in S : ~(y > x)
      BY <1>0, <2>2
    <3> QED BY <3>1 DEF Above
  <2> QED BY <1>2, <1>3, <2>3, FS_EmptySet
<1>4. CASE b # 0
  <2>1. b - 1 \in Nat /\ b - 1 \notin Bad
    BY <1>1, <1>2, <1>4
  <2>2. PICK f \in S : Cardinality(Above(S, f)) = b - 1
    BY <1>0, <1>2, <2>1
  <2>3. PICK up : up = Above(S, f)
    OBVIOUS
  <2>4. IsFiniteSet(up) /\ f \notin up /\ Cardinality(up) = b - 1 /\ up \subseteq S
    BY <2>2, <2>3, AboveIs DEF Above
  <2>5. IsFiniteSet(up \cup {f}) /\ Cardinality(up \cup {f}) = b
    BY <1>2, <2>4, FS_AddElement
  <2>6. PICK low : low = {g \in S : g < f}
    OBVIOUS
  <2>7. low # {}
    <3> SUFFICES ASSUME low = {} PROVE FALSE
      OBVIOUS
    <3>1. S = up \cup {f}
      <4>1. \A g \in S : g > f \/ g = f \/ g < f
        BY <1>0
      <4>2. \A g \in S : ~(g < f)
        BY <2>6
      <4> QED BY <2>3, <4>1, <4>2 DEF Above
    <3> QED BY <1>2, <2>5, <3>1
  <2>8. PICK h \in low : \A y \in low : y <= h
    <3>1. low \in SUBSET Nat /\ \A x \in low : x <= m
      BY <2>6
    <3> QED BY <2>7, <3>1, GreatestNat
  <2>9. Above(S, h) = up \cup {f}
    <3>1. h \in S /\ h < f
      BY <2>6
    <3>2. \A g \in S : g < f => g <= h
      BY <2>6, <2>8
    <3>3. \A g \in S : g > h <=> g > f \/ g = f
      BY <1>0, <3>1, <3>2
    <3> QED BY <2>3, <3>3 DEF Above
  <2>10. h \in S
    BY <2>6, <2>8
  <2> QED BY <1>2, <2>5, <2>9, <2>10
<1> QED BY <1>3, <1>4

\* Counting what refers to f after some references have changed.
Of(R, T, f) == {r \in R : T[r] = f}

LEMMA Recount ==
    ASSUME NEW R, IsFiniteSet(R), NEW T, NEW U, NEW D, D \subseteq R,
           \A r \in R : r \notin D => U[r] = T[r], NEW f
    PROVE  /\ Cardinality(Of(R, T, f)) \in Nat
           /\ Cardinality(Of(D, T, f)) \in Nat
           /\ Cardinality(Of(D, U, f)) \in Nat
           /\ Cardinality(Of(R, U, f)) =
                Cardinality(Of(R, T, f)) - Cardinality(Of(D, T, f)) + Cardinality(Of(D, U, f))
<1> PICK G : G = {r \in R : r \notin D /\ T[r] = f}
  OBVIOUS
<1> PICK A, B, C, E : /\ A = Of(R, T, f) /\ B = Of(D, T, f)
                      /\ C = Of(D, U, f) /\ E = Of(R, U, f)
  OBVIOUS
<1>1. A \in SUBSET R /\ B \in SUBSET R /\ C \in SUBSET R /\ E \in SUBSET R /\ G \in SUBSET R
  BY DEF Of
<1>2. /\ IsFiniteSet(A) /\ IsFiniteSet(B) /\ IsFiniteSet(C) /\ IsFiniteSet(E) /\ IsFiniteSet(G)
      /\ Cardinality(A) \in Nat /\ Cardinality(B) \in Nat /\ Cardinality(C) \in Nat
      /\ Cardinality(E) \in Nat /\ Cardinality(G) \in Nat
  BY <1>1, FS_Subset, FS_CardinalityType
<1>3. A = G \cup B /\ G \cap B = {} /\ E = G \cup C /\ G \cap C = {}
  BY DEF Of
<1>4. /\ Cardinality(G \cup B) = Cardinality(G) + Cardinality(B) - Cardinality(G \cap B)
      /\ Cardinality(G \cup C) = Cardinality(G) + Cardinality(C) - Cardinality(G \cap C)
  BY <1>2, FS_Union
<1>5. /\ Cardinality(A) = Cardinality(G) + Cardinality(B) - 0
      /\ Cardinality(E) = Cardinality(G) + Cardinality(C) - 0
  BY <1>3, <1>4, FS_EmptySet
<1> QED BY <1>2, <1>5

\* One reference has moved from T[x] to U[x].
One(a, b) == IF a = b THEN 1 ELSE 0

LEMMA Moved ==
    ASSUME NEW R, IsFiniteSet(R), NEW T, NEW U, NEW x \in R,
           \A r \in R : r # x => U[r] = T[r], NEW f
    PROVE  Cardinality(Of(R, U, f)) =
             Cardinality(Of(R, T, f)) - One(T[x], f)
             + One(U[x], f)
<1>1. PICK D : D = {x}
  OBVIOUS
<1>2. D \subseteq R /\ \A r \in R : r \notin D => U[r] = T[r]
  BY <1>1
<1>3. /\ Cardinality(Of(R, U, f)) =
           Cardinality(Of(R, T, f)) - Cardinality(Of(D, T, f)) + Cardinality(Of(D, U, f))
      /\ Cardinality(Of(R, T, f)) \in Nat
  BY <1>2, Recount
<1>4. /\ Of(D, T, f) = (IF T[x] = f THEN {x} ELSE {})
      /\ Of(D, U, f) = (IF U[x] = f THEN {x} ELSE {})
  BY <1>1 DEF Of
<1>5. /\ Cardinality(Of(D, T, f)) = One(T[x], f)
      /\ Cardinality(Of(D, U, f)) = One(U[x], f)
  BY <1>4, FS_EmptySet, FS_Singleton DEF One
<1> QED BY <1>3, <1>5

-----------------------------------------------------------------------------
\* Everything that can refer to a frame, and the frame it refers to.
Ref == (Task \X Page \X {"pte", "dir"}) \cup (Task \X {0} \X {"page0", "hold"})
Target(p, d, z, h) ==
    [r \in Ref |-> IF r[3] = "pte" THEN p[r[1]][r[2]].frame
                   ELSE IF r[3] = "dir" THEN d[r[1]][r[2]]
                   ELSE IF r[3] = "page0" THEN z[r[1]] ELSE h[r[1]].frame]
Targets == Frame \cup {LOW, NONE}

LEMMA FrameIs == Frame \subseteq Nat /\ IsFiniteSet(Frame) /\ LOW \notin Frame /\ NONE \notin Frame
<1>1. NR_FRAMES \in Int
  BY MemoryAssumption
<1>2. IsFiniteSet(1 .. NR_FRAMES)
  BY <1>1, FS_Interval
<1> QED BY <1>1, <1>2 DEF Frame, LOW, NONE

LEMMA RefFinite == IsFiniteSet(Ref)
<1>1. IsFiniteSet(Task) /\ IsFiniteSet(Page)
  BY MemoryAssumption, FS_Interval DEF Task, Page
<1>2. /\ IsFiniteSet({"pte"} \cup {"dir"}) /\ IsFiniteSet({"page0"} \cup {"hold"})
      /\ IsFiniteSet({0})
  BY FS_Singleton, FS_AddElement
<1>3. IsFiniteSet({"pte", "dir"}) /\ IsFiniteSet({"page0", "hold"})
  <2>1. {"pte"} \cup {"dir"} = {"pte", "dir"} /\ {"page0"} \cup {"hold"} = {"page0", "hold"}
    OBVIOUS
  <2> QED BY <1>2, <2>1
<1>4. PICK Q : Q = (Task \X (Page \cup {0})) \X ({"pte", "dir"} \cup {"page0", "hold"})
  OBVIOUS
<1>5. IsFiniteSet(Q)
  <2>1. IsFiniteSet(Page \cup {0}) /\ IsFiniteSet({"pte", "dir"} \cup {"page0", "hold"})
    BY <1>1, <1>2, <1>3, FS_Union
  <2>2. IsFiniteSet(Task \X (Page \cup {0}))
    BY <1>1, <2>1, FS_Product
  <2> QED BY <1>4, <2>1, <2>2, FS_Product
<1>6. PICK f : f = [r \in Ref |-> <<<<r[1], r[2]>>, r[3]>>]
  OBVIOUS
<1>7. f \in [Ref -> Q]
  BY <1>4, <1>6 DEF Ref
<1>8. \A r, s \in Ref : f[r] = f[s] => r = s
  BY <1>6 DEF Ref
<1>9. f \in Injection(Ref, Q)
  BY <1>7, <1>8 DEF Injection, IsInjective
<1> QED BY <1>5, <1>9, FS_Injection

\* What the references are.
LEMMA RefIs ==
    /\ \A t \in Task, k \in Page : <<t, k, "pte">> \in Ref /\ <<t, k, "dir">> \in Ref
    /\ \A t \in Task : <<t, 0, "page0">> \in Ref /\ <<t, 0, "hold">> \in Ref
    /\ \A r \in Ref : /\ r = <<r[1], r[2], r[3]>> /\ r[1] \in Task
                      /\ \/ r[2] \in Page /\ r[3] \in {"pte", "dir"}
                         \/ r[2] = 0 /\ r[3] \in {"page0", "hold"}
BY DEF Ref

LEMMA TargetIs ==
    ASSUME NEW p, NEW d, NEW z, NEW h
    PROVE  /\ \A t \in Task, k \in Page : /\ Target(p, d, z, h)[<<t, k, "pte">>] = p[t][k].frame
                                          /\ Target(p, d, z, h)[<<t, k, "dir">>] = d[t][k]
           /\ \A t \in Task : /\ Target(p, d, z, h)[<<t, 0, "page0">>] = z[t]
                              /\ Target(p, d, z, h)[<<t, 0, "hold">>] = h[t].frame
<1>1. \A r \in Ref : Target(p, d, z, h)[r] = IF r[3] = "pte" THEN p[r[1]][r[2]].frame
                   ELSE IF r[3] = "dir" THEN d[r[1]][r[2]]
                   ELSE IF r[3] = "page0" THEN z[r[1]] ELSE h[r[1]].frame
  BY DEF Target
<1> QED BY <1>1, RefIs

\* The same of a table given a name.
Points(T, p, d, z, h) ==
    /\ \A t \in Task, k \in Page : T[<<t, k, "pte">>] = p[t][k].frame /\ T[<<t, k, "dir">>] = d[t][k]
    /\ \A t \in Task : T[<<t, 0, "page0">>] = z[t] /\ T[<<t, 0, "hold">>] = h[t].frame

LEMMA TargetPoints ==
    ASSUME NEW p, NEW d, NEW z, NEW h
    PROVE  Points(Target(p, d, z, h), p, d, z, h)
BY TargetIs DEF Points

LEMMA SameSize ==
    ASSUME NEW S, NEW T, IsFiniteSet(S), NEW f \in [S -> T],
           \A x, y \in S : f[x] = f[y] => x = y, \A z \in T : \E x \in S : f[x] = z
    PROVE  IsFiniteSet(T) /\ Cardinality(T) = Cardinality(S)
<1>1. f \in Injection(S, T) /\ f \in Surjection(S, T)
  BY DEF Injection, IsInjective, Surjection
<1>2. ExistsBijection(S, T)
  BY <1>1 DEF ExistsBijection, Bijection
<1> QED BY <1>2, FS_Bijection

-----------------------------------------------------------------------------
\* T refers to frames, H are the references that share their frame with nobody
\* (tables, task pages, frames in transit, writable pages), map counts.
Good(T, H, map) ==
    /\ \A f \in Frame : map[f] \in Nat /\ map[f] = Cardinality(Of(Ref, T, f))
    /\ \A r, s \in Ref : r # s /\ T[r] = T[s] /\ T[r] \in Frame => r \notin H /\ s \notin H

LEMMA OfIs == ASSUME NEW T, NEW f PROVE /\ IsFiniteSet(Of(Ref, T, f))
                                        /\ \A r \in Ref : r \in Of(Ref, T, f) <=> T[r] = f
<1>1. Of(Ref, T, f) \in SUBSET Ref
  BY DEF Of
<1>2. IsFiniteSet(Of(Ref, T, f))
  BY <1>1, RefFinite, FS_Subset
<1> QED BY <1>2 DEF Of

\* Nobody refers to a free frame.
LEMMA FreeIsFree ==
    ASSUME NEW T, NEW H, NEW map, Good(T, H, map), NEW f \in Frame
    PROVE  map[f] = 0 <=> \A r \in Ref : T[r] # f
<1>1. map[f] = 0 <=> Of(Ref, T, f) = {}
  BY OfIs, FS_EmptySet DEF Good
<1> QED BY <1>1 DEF Of

\* Somebody refers alone to a frame whose count is 1, and the other way round.
LEMMA OneUser ==
    ASSUME NEW T, NEW H, NEW map, Good(T, H, map), NEW x \in Ref, T[x] \in Frame
    PROVE  map[T[x]] = 1 <=> \A r \in Ref : T[r] = T[x] => r = x
<1>1. PICK f \in Frame : f = T[x]
  OBVIOUS
<1>2. map[f] = 1 <=> \E r : Of(Ref, T, f) = {r}
  BY OfIs, FS_Singleton DEF Good
<1>3. x \in Of(Ref, T, f)
  BY <1>1 DEF Of
<1>4. (\A r \in Ref : T[r] = f => r = x) <=> Of(Ref, T, f) = {x}
  BY <1>1 DEF Of
<1>5. (\E r : Of(Ref, T, f) = {r}) <=> Of(Ref, T, f) = {x}
  BY <1>3
<1> QED BY <1>1, <1>2, <1>4, <1>5

\* Only the references in D have changed.
Same(D, T, U) == D \subseteq Ref /\ \A r \in Ref : r \notin D => U[r] = T[r]

LEMMA RecountRef ==
    ASSUME NEW T, NEW U, NEW D, Same(D, T, U), NEW f
    PROVE  /\ Cardinality(Of(Ref, T, f)) \in Nat
           /\ Cardinality(Of(D, T, f)) \in Nat
           /\ Cardinality(Of(D, U, f)) \in Nat
           /\ Cardinality(Of(Ref, U, f)) \in Nat
           /\ Cardinality(Of(Ref, U, f)) =
                Cardinality(Of(Ref, T, f)) - Cardinality(Of(D, T, f)) + Cardinality(Of(D, U, f))
<1>1. D \subseteq Ref /\ \A r \in Ref : r \notin D => U[r] = T[r]
  BY DEF Same
<1>2. Cardinality(Of(Ref, U, f)) \in Nat
  BY OfIs, FS_CardinalityType
<1> QED BY <1>1, <1>2, RefFinite, Recount

LEMMA MovedRef ==
    ASSUME NEW T, NEW U, NEW x \in Ref, Same({x}, T, U), NEW f
    PROVE  Cardinality(Of(Ref, U, f)) =
             Cardinality(Of(Ref, T, f)) - One(T[x], f) + One(U[x], f)
<1>1. /\ Cardinality(Of(Ref, U, f)) =
           Cardinality(Of(Ref, T, f)) - Cardinality(Of({x}, T, f)) + Cardinality(Of({x}, U, f))
      /\ Cardinality(Of(Ref, T, f)) \in Nat
  BY RecountRef
<1>2. /\ Of({x}, T, f) = (IF T[x] = f THEN {x} ELSE {})
      /\ Of({x}, U, f) = (IF U[x] = f THEN {x} ELSE {})
  BY DEF Of
<1>3. /\ Cardinality(Of({x}, T, f)) = One(T[x], f)
      /\ Cardinality(Of({x}, U, f)) = One(U[x], f)
  BY <1>2, FS_EmptySet, FS_Singleton DEF One
<1> QED BY <1>1, <1>3

\* Frame f, free in map, is taken in new.
Taken(map, f, new) ==
    f \in Frame /\ map[f] = 0 /\ new[f] = 1 /\ \A g \in Frame : g # f => new[g] = map[g]

\* The steps a reference can take.  It gets a frame that was free ...
LEMMA Take ==
    ASSUME NEW T, NEW H, NEW map, Good(T, H, map), NEW x \in Ref, T[x] \notin Frame,
           NEW U, Same({x}, T, U), NEW new, Taken(map, U[x], new),
           NEW K, \A r \in K : r \in H \/ r = x
    PROVE  Good(U, K, new)
<1>1. PICK f : f = U[x] /\ f \in Frame /\ map[f] = 0 /\ new[f] = 1
                 /\ \A g \in Frame : g # f => new[g] = map[g]
  BY DEF Taken
<1>2. U[x] = f /\ \A r \in Ref : r # x => U[r] = T[r]
  BY <1>1 DEF Same
<1>3. \A r \in Ref : T[r] # f
  BY <1>1, FreeIsFree
<1>4. ASSUME NEW g \in Frame PROVE new[g] = Cardinality(Of(Ref, U, g))
  <2>1. Cardinality(Of(Ref, U, g)) = Cardinality(Of(Ref, T, g)) - One(T[x], g)
                                     + One(U[x], g)
    BY MovedRef
  <2>2. map[g] = Cardinality(Of(Ref, T, g)) /\ map[g] \in Nat /\ T[x] # g
    BY <1>4 DEF Good
  <2>3. new[g] = map[g] + One(f, g)
    <3>1. CASE g = f
      BY <1>1, <3>1 DEF One
    <3>2. CASE g # f
      BY <1>1, <1>4, <2>2, <3>2 DEF One
    <3> QED BY <3>1, <3>2
  <2>4. One(T[x], g) = 0 /\ One(f, g) \in Nat
    BY <2>2 DEF One
  <2> QED BY <1>2, <2>1, <2>2, <2>3, <2>4
<1>5. ASSUME NEW r \in Ref, NEW s \in Ref, r # s, U[r] = U[s], U[r] \in Frame
      PROVE  r \notin K /\ s \notin K
  <2>1. r # x /\ s # x
    BY <1>2, <1>3, <1>5
  <2>2. r \notin H /\ s \notin H
    BY <1>2, <1>5, <2>1 DEF Good
  <2> QED BY <2>1, <2>2
<1>6. \A g \in Frame : new[g] \in Nat
  BY <1>1 DEF Good
<1> QED BY <1>4, <1>5, <1>6 DEF Good

\* ... or gives up the one it has, if any ...
Dropped(map, old, new) == \A g \in Frame : new[g] = map[g] - One(old, g)

LEMMA Drop ==
    ASSUME NEW T, NEW H, NEW map, Good(T, H, map), NEW x \in Ref,
           NEW U, U[x] \notin Frame, Same({x}, T, U),
           NEW new, Dropped(map, T[x], new), NEW K, \A r \in K : r \in H
    PROVE  Good(U, K, new)
<1>1. U[x] \notin Frame /\ \A r \in Ref : r # x => U[r] = T[r]
  BY DEF Same
<1>2. ASSUME NEW g \in Frame
      PROVE  new[g] = Cardinality(Of(Ref, U, g)) /\ Cardinality(Of(Ref, U, g)) \in Nat
  <2>1. Cardinality(Of(Ref, U, g)) = Cardinality(Of(Ref, T, g)) - One(T[x], g)
                                     + One(U[x], g)
    BY MovedRef, ZenonT(40)
  <2>2. map[g] = Cardinality(Of(Ref, T, g)) /\ map[g] \in Nat /\ U[x] # g
    BY <1>1, <1>2 DEF Good
  <2>3. new[g] = map[g] - One(T[x], g)
    BY <1>2 DEF Dropped
  <2>4. Cardinality(Of(Ref, U, g)) \in Nat
    BY OfIs, FS_CardinalityType
  <2> QED BY <2>1, <2>2, <2>3, <2>4 DEF One
<1>3. ASSUME NEW r \in Ref, NEW s \in Ref, r # s, U[r] = U[s], U[r] \in Frame
      PROVE  r \notin K /\ s \notin K
  <2>1. r # x /\ s # x
    BY <1>1, <1>3
  <2>2. r \notin H /\ s \notin H
    BY <1>1, <1>3, <2>1 DEF Good
  <2> QED BY <2>2
<1>4. \A g \in Frame : new[g] \in Nat /\ new[g] = Cardinality(Of(Ref, U, g))
  BY <1>2
<1> QED BY <1>3, <1>4 DEF Good

\* ... or comes to share the frame of y, neither of them hard any more ...
Shared(map, f, new) ==
    f \in Frame /\ new[f] = map[f] + 1 /\ \A g \in Frame : g # f => new[g] = map[g]

LEMMA ShareFrame ==
    ASSUME NEW T, NEW H, NEW map, Good(T, H, map), NEW x \in Ref, T[x] \notin Frame,
           NEW y \in Ref,
           NEW U, U[x] = T[y], Same({x}, T, U),
           NEW new, Shared(map, T[y], new),
           NEW K, \A r \in K : r \in H, x \notin K, y \notin K
    PROVE  Good(U, K, new)
<1> /\ T[y] \in Frame /\ new[T[y]] = map[T[y]] + 1
    /\ \A g \in Frame : g # T[y] => new[g] = map[g]
  BY DEF Shared
<1>1. U[x] = T[y] /\ \A r \in Ref : r # x => U[r] = T[r]
  BY DEF Same
<1>2. \A g \in Frame : new[g] \in Nat
  BY DEF Good
<1>3. ASSUME NEW g \in Frame PROVE new[g] = Cardinality(Of(Ref, U, g))
  <2>1. Cardinality(Of(Ref, U, g)) = Cardinality(Of(Ref, T, g)) - One(T[x], g)
                                     + One(U[x], g)
    BY MovedRef
  <2>2. map[g] = Cardinality(Of(Ref, T, g)) /\ map[g] \in Nat /\ T[x] # g
    BY <1>3 DEF Good
  <2>3. new[g] = IF g = T[y] THEN map[g] + 1 ELSE map[g]
    BY <1>3
  <2> QED BY <1>1, <2>1, <2>2, <2>3 DEF One
<1>4. ASSUME NEW r \in Ref, NEW s \in Ref, r # s, U[r] = U[s], U[r] \in Frame
      PROVE  r \notin K
  <2>1. CASE r = x \/ r = y
    BY <2>1
  <2>2. CASE r # x /\ r # y /\ s = x
    <3>1. T[r] = T[y] /\ T[r] \in Frame
      BY <1>1, <1>4, <2>2
    <3> QED BY <2>2, <3>1 DEF Good
  <2>3. CASE r # x /\ s # x
    BY <1>1, <1>4, <2>3 DEF Good
  <2> QED BY <2>1, <2>2, <2>3
<1>5. \A r, s \in Ref : r # s /\ U[r] = U[s] /\ U[r] \in Frame => r \notin K /\ s \notin K
  BY <1>4
<1> QED BY <1>2, <1>3, <1>5 DEF Good

\* ... or hands its frame on, which nobody else has ...
LEMMA HandOn ==
    ASSUME NEW T, NEW H, NEW map, Good(T, H, map), NEW x \in Ref, NEW y \in Ref, x # y,
           T[x] \in Frame, x \in H, T[y] \notin Frame,
           NEW U, U[x] \notin Frame, U[y] = T[x], Same({x, y}, T, U),
           NEW K, \A r \in K : r \in H \/ r = y
    PROVE  Good(U, K, map)
<1>0. PICK f \in Frame : f = T[x]
  OBVIOUS
<1>1. U[x] \notin Frame /\ U[y] = f /\ \A r \in Ref : r \notin {x, y} => U[r] = T[r]
  BY <1>0 DEF Same
<1>4. ASSUME NEW g \in Frame PROVE map[g] = Cardinality(Of(Ref, U, g))
  <2>0. PICK V : V = [r \in Ref |-> IF r = x THEN U[x] ELSE T[r]]
    OBVIOUS
  <2>1. V[x] = U[x] /\ V[y] = T[y] /\ \A r \in Ref : r # x => V[r] = T[r]
    BY <2>0
  <2>2. \A r \in Ref : r # y => U[r] = V[r]
    BY <1>1, <2>1
  <2>3. Cardinality(Of(Ref, V, g)) = Cardinality(Of(Ref, T, g)) - One(T[x], g)
                                     + One(V[x], g)
    BY <2>1, RefFinite, Moved
  <2>4. Cardinality(Of(Ref, U, g)) = Cardinality(Of(Ref, V, g)) - One(V[y], g)
                                     + One(U[y], g)
    BY <2>2, RefFinite, Moved
  <2>5. map[g] = Cardinality(Of(Ref, T, g)) /\ map[g] \in Nat
    BY <1>4 DEF Good
  <2>6. V[x] # g /\ V[y] # g
    BY <1>1, <2>1
  <2> QED BY <1>0, <1>1, <2>3, <2>4, <2>5, <2>6 DEF One
<1>5. \A r \in Ref : T[r] = f => r = x
  BY <1>0 DEF Good
<1>6. ASSUME NEW r \in Ref, NEW s \in Ref, r # s, U[r] = U[s], U[r] \in Frame
      PROVE  r \notin K /\ s \notin K
  <2>1. r \notin {x, y} /\ s \notin {x, y}
    BY <1>1, <1>5, <1>6
  <2>2. r \notin H /\ s \notin H
    BY <1>1, <1>6, <2>1 DEF Good
  <2> QED BY <2>1, <2>2
<1> QED BY <1>4, <1>6 DEF Good

\* ... or finds itself alone with its frame, which makes it hard.
LEMMA Harden ==
    ASSUME NEW T, NEW H, NEW map, Good(T, H, map), NEW x \in Ref, T[x] \in Frame,
           map[T[x]] = 1, NEW K, \A r \in K : r \in H \/ r = x
    PROVE  Good(T, K, map)
<1>1. \A r \in Ref : T[r] = T[x] => r = x
  BY OneUser
<1>2. \A r, s \in Ref : r # s /\ T[r] = T[s] /\ T[r] \in Frame => r \notin K /\ s \notin K
  BY <1>1 DEF Good
<1> QED BY <1>2 DEF Good

\* The same for several references at once: they give up their frames ...
LEMMA DropAll ==
    ASSUME NEW T, NEW H, NEW map, Good(T, H, map), NEW D, NEW U, Same(D, T, U),
           \A r \in D : U[r] \notin Frame,
           NEW new, \A g \in Frame : new[g] = map[g] - Cardinality(Of(D, T, g)),
           NEW K, \A r \in K : r \in H
    PROVE  Good(U, K, new)
<1> D \subseteq Ref /\ \A r \in Ref : r \notin D => U[r] = T[r]
  BY DEF Same
<1>1. ASSUME NEW g \in Frame
      PROVE  new[g] = Cardinality(Of(Ref, U, g)) /\ Cardinality(Of(Ref, U, g)) \in Nat
  <2>1. /\ Cardinality(Of(Ref, T, g)) \in Nat /\ Cardinality(Of(D, T, g)) \in Nat
        /\ Cardinality(Of(Ref, U, g)) = Cardinality(Of(Ref, T, g)) - Cardinality(Of(D, T, g))
                                        + Cardinality(Of(D, U, g))
    BY RecountRef
  <2>2. Of(D, U, g) = {}
    BY <1>1 DEF Of
  <2>3. Cardinality(Of(D, U, g)) = 0
    BY <2>2, FS_EmptySet
  <2>4. new[g] = map[g] - Cardinality(Of(D, T, g))
    BY <1>1
  <2>5. map[g] = Cardinality(Of(Ref, T, g))
    BY <1>1 DEF Good
  <2>6. Cardinality(Of(Ref, U, g)) \in Nat
    BY OfIs, FS_CardinalityType
  <2> QED BY <2>1, <2>3, <2>4, <2>5, <2>6
<1>2. ASSUME NEW r \in Ref, NEW s \in Ref, r # s, U[r] = U[s], U[r] \in Frame
      PROVE  r \notin K /\ s \notin K
  <2>1. r \notin D /\ s \notin D
    BY <1>2
  <2>2. r \notin H /\ s \notin H
    BY <1>2, <2>1 DEF Good
  <2> QED BY <2>2
<1>3. \A g \in Frame : new[g] \in Nat /\ new[g] = Cardinality(Of(Ref, U, g))
  BY <1>1
<1> QED BY <1>2, <1>3 DEF Good

\* ... or take frames that were free, each its own ...
LEMMA TakeAll ==
    ASSUME NEW T, NEW H, NEW map, Good(T, H, map), NEW D, NEW U, Same(D, T, U),
           \A r \in D : T[r] \notin Frame,
           \A r \in D : U[r] \in Frame => map[U[r]] = 0,
           \A r, s \in D : U[r] \in Frame /\ U[r] = U[s] => r = s,
           NEW new, \A g \in Frame : (\E r \in D : U[r] = g) => new[g] = 1,
           \A g \in Frame : (\A r \in D : U[r] # g) => new[g] = map[g],
           NEW K, \A r \in K : r \in H \/ r \in D
    PROVE  Good(U, K, new)
<1> D \subseteq Ref /\ \A r \in Ref : r \notin D => U[r] = T[r]
  BY DEF Same
<1>0. \A r \in D, s \in Ref : U[r] \in Frame => T[s] # U[r]
  <2> TAKE r \in D, s \in Ref
  <2>1. U[r] \in Frame => (map[U[r]] = 0 <=> \A q \in Ref : T[q] # U[r])
    BY FreeIsFree
  <2> QED BY <2>1
<1>1. ASSUME NEW g \in Frame
      PROVE  new[g] = Cardinality(Of(Ref, U, g)) /\ Cardinality(Of(Ref, U, g)) \in Nat
  <2>1. /\ Cardinality(Of(Ref, T, g)) \in Nat /\ Cardinality(Of(D, T, g)) \in Nat
        /\ Cardinality(Of(Ref, U, g)) = Cardinality(Of(Ref, T, g)) - Cardinality(Of(D, T, g))
                                        + Cardinality(Of(D, U, g))
    BY RecountRef
  <2>2. Of(D, T, g) = {}
    BY <1>1 DEF Of
  <2>3. Cardinality(Of(D, T, g)) = 0
    BY <2>2, FS_EmptySet
  <2>4. map[g] = Cardinality(Of(Ref, T, g))
    BY <1>1 DEF Good
  <2>5. CASE \E r \in D : U[r] = g
    <3>1. PICK r \in D : U[r] = g
      BY <2>5
    <3>2. Of(D, U, g) = {r}
      BY <1>1, <3>1 DEF Of
    <3>3. Cardinality(Of(D, U, g)) = 1
      BY <3>2, FS_Singleton
    <3>4. new[g] = 1
      BY <1>1, <2>5
    <3>5. Of(Ref, T, g) = {}
      BY <1>0, <1>1, <3>1 DEF Of
    <3>6. Cardinality(Of(Ref, T, g)) = 0
      BY <3>5, FS_EmptySet
    <3> QED BY <2>1, <2>3, <3>3, <3>4, <3>6
  <2>6. CASE \A r \in D : U[r] # g
    <3>1. Of(D, U, g) = {}
      BY <2>6 DEF Of
    <3>2. Cardinality(Of(D, U, g)) = 0
      BY <3>1, FS_EmptySet
    <3>3. new[g] = map[g]
      BY <1>1, <2>6
    <3> QED BY <2>1, <2>3, <2>4, <3>2, <3>3
  <2> QED BY <2>5, <2>6
<1>2. ASSUME NEW r \in Ref, NEW s \in Ref, r # s, U[r] = U[s], U[r] \in Frame
      PROVE  r \notin K /\ s \notin K
  <2>1. r \notin D /\ s \notin D
    BY <1>0, <1>2
  <2>2. r \notin H /\ s \notin H
    BY <1>2, <2>1 DEF Good
  <2> QED BY <2>1, <2>2
<1>3. \A g \in Frame : new[g] \in Nat /\ new[g] = Cardinality(Of(Ref, U, g))
  BY <1>1
<1> QED BY <1>2, <1>3 DEF Good

\* ... or come to share the frames of others, y[r] for r.
LEMMA ShareAll ==
    ASSUME NEW T, NEW H, NEW map, Good(T, H, map), NEW D, NEW U, Same(D, T, U),
           \A r \in D : T[r] \notin Frame, NEW y, \A r \in D : y[r] \in Ref /\ y[r] \notin D,
           \A r \in D : U[r] = T[y[r]],
           NEW new, \A g \in Frame : new[g] = map[g] + Cardinality(Of(D, U, g)),
           NEW K, \A r \in K : r \in H, \A r \in D : r \notin K /\ y[r] \notin K
    PROVE  Good(U, K, new)
<1> D \subseteq Ref /\ \A r \in Ref : r \notin D => U[r] = T[r]
  BY DEF Same
<1>1. ASSUME NEW g \in Frame
      PROVE  new[g] = Cardinality(Of(Ref, U, g)) /\ Cardinality(Of(Ref, U, g)) \in Nat
  <2>1. /\ Cardinality(Of(Ref, T, g)) \in Nat /\ Cardinality(Of(D, U, g)) \in Nat
        /\ Cardinality(Of(Ref, U, g)) = Cardinality(Of(Ref, T, g)) - Cardinality(Of(D, T, g))
                                        + Cardinality(Of(D, U, g))
    BY RecountRef
  <2>2. Of(D, T, g) = {}
    BY <1>1 DEF Of
  <2>3. Cardinality(Of(D, T, g)) = 0
    BY <2>2, FS_EmptySet
  <2>4. new[g] = map[g] + Cardinality(Of(D, U, g))
    BY <1>1
  <2>5. map[g] = Cardinality(Of(Ref, T, g))
    BY <1>1 DEF Good
  <2> QED BY <2>1, <2>3, <2>4, <2>5
<1>2. ASSUME NEW r \in Ref, NEW s \in Ref, r # s, U[r] = U[s], U[r] \in Frame
      PROVE  r \notin K
  <2>1. CASE r \in D
    BY <2>1
  <2>2. CASE r \notin D /\ s \in D
    <3>1. y[s] \in Ref /\ T[y[s]] = U[s] /\ T[r] = U[r] /\ y[s] \notin K
      BY <2>2
    <3>2. CASE r = y[s]
      BY <3>1, <3>2
    <3>3. CASE r # y[s]
      <4>1. T[r] = T[y[s]] /\ T[r] \in Frame
        BY <1>2, <3>1
      <4>2. r \notin H
        BY <3>1, <3>3, <4>1 DEF Good
      <4> QED BY <4>2
    <3> QED BY <3>2, <3>3
  <2>3. CASE r \notin D /\ s \notin D
    <3>1. T[r] = T[s] /\ T[r] \in Frame
      BY <1>2, <2>3
    <3>2. r \notin H
      BY <1>2, <3>1 DEF Good
    <3> QED BY <3>2
  <2> QED BY <2>1, <2>2, <2>3
<1>3. \A g \in Frame : new[g] \in Nat /\ new[g] = Cardinality(Of(Ref, U, g))
  BY <1>1
<1>4. \A r, s \in Ref : r # s /\ U[r] = U[s] /\ U[r] \in Frame => r \notin K /\ s \notin K
  BY <1>2
<1> QED BY <1>3, <1>4 DEF Good

\* A reference leaves its frame, if it has one, for a free one (a copy).
Swapped(map, old, f, new) ==
    /\ f \in Frame /\ map[f] = 0 /\ new[f] = 1
    /\ \A g \in Frame : g # f => new[g] = map[g] - One(old, g)

LEMMA Swap ==
    ASSUME NEW T, NEW H, NEW map, Good(T, H, map), NEW x \in Ref,
           NEW U, Same({x}, T, U), NEW new, Swapped(map, T[x], U[x], new),
           NEW K, \A r \in K : r \in H \/ r = x
    PROVE  Good(U, K, new)
<1>0. PICK f : f = U[x] /\ f \in Frame /\ map[f] = 0 /\ new[f] = 1
                 /\ \A g \in Frame : g # f => new[g] = map[g] - One(T[x], g)
  BY DEF Swapped
<1>1. U[x] = f /\ \A r \in Ref : r # x => U[r] = T[r]
  BY <1>0 DEF Same
<1>2. \A r \in Ref : T[r] # f
  BY <1>0, FreeIsFree
<1>3. ASSUME NEW g \in Frame
      PROVE  new[g] = Cardinality(Of(Ref, U, g)) /\ Cardinality(Of(Ref, U, g)) \in Nat
  <2>1. Cardinality(Of(Ref, U, g)) = Cardinality(Of(Ref, T, g)) - One(T[x], g)
                                     + One(U[x], g)
    BY MovedRef, ZenonT(40)
  <2>2. map[g] = Cardinality(Of(Ref, T, g)) /\ map[g] \in Nat
    BY <1>3 DEF Good
  <2>3. Cardinality(Of(Ref, U, g)) \in Nat
    BY OfIs, FS_CardinalityType
  <2>4. CASE g = f
    <3>1. new[g] = 1 /\ map[g] = 0 /\ T[x] # g /\ U[x] = g
      BY <1>0, <1>1, <1>2, <2>4
    <3> QED BY <2>1, <2>2, <2>3, <3>1 DEF One
  <2>5. CASE g # f
    <3>1. new[g] = map[g] - One(T[x], g) /\ U[x] # g
      BY <1>0, <1>1, <1>3, <2>5
    <3> QED BY <2>1, <2>2, <2>3, <3>1 DEF One
  <2> QED BY <2>4, <2>5
<1>4. ASSUME NEW r \in Ref, NEW s \in Ref, r # s, U[r] = U[s], U[r] \in Frame
      PROVE  r \notin K /\ s \notin K
  <2>1. r # x /\ s # x
    BY <1>1, <1>2, <1>4
  <2>2. r \notin H /\ s \notin H
    BY <1>1, <1>4, <2>1 DEF Good
  <2> QED BY <2>1, <2>2
<1>5. \A g \in Frame : new[g] \in Nat /\ new[g] = Cardinality(Of(Ref, U, g))
  BY <1>3
<1> QED BY <1>4, <1>5 DEF Good

-----------------------------------------------------------------------------
\* The references that share their frame with nobody.
Hard(p) == {r \in Ref : r[3] # "pte" \/ p[r[1]][r[2]].w}

LEMMA HardIs ==
    ASSUME NEW p
    PROVE  /\ \A t \in Task, k \in Page : /\ <<t, k, "pte">> \in Hard(p) <=> p[t][k].w
                                          /\ <<t, k, "dir">> \in Hard(p)
           /\ \A t \in Task : <<t, 0, "page0">> \in Hard(p) /\ <<t, 0, "hold">> \in Hard(p)
BY RefIs DEF Hard

\* No entry outside D has become writable.
LEMMA HardGrows ==
    ASSUME NEW p, NEW q, NEW D,
           \A t \in Task, k \in Page : q[t][k].w => p[t][k].w \/ <<t, k, "pte">> \in D
    PROVE  \A r \in Hard(q) : r \in Hard(p) \/ r \in D
<1> SUFFICES ASSUME NEW r \in Hard(q), r \notin Hard(p) PROVE r \in D
  OBVIOUS
<1>1. r \in Ref /\ r[3] = "pte" /\ q[r[1]][r[2]].w
  BY DEF Hard
<1>2. r = <<r[1], r[2], "pte">> /\ r[1] \in Task /\ r[2] \in Page
  BY <1>1, RefIs
<1>3. ~p[r[1]][r[2]].w
  BY <1>1 DEF Hard
<1> QED BY <1>1, <1>2, <1>3

\* Only the references in D have changed, said of the four tables.
LEMMA SameTargets ==
    ASSUME NEW D, D \subseteq Ref, NEW p, NEW d, NEW z, NEW h, NEW p2, NEW d2, NEW z2, NEW h2,
           \A t \in Task, k \in Page : <<t, k, "pte">> \notin D => p2[t][k].frame = p[t][k].frame,
           \A t \in Task, k \in Page : <<t, k, "dir">> \notin D => d2[t][k] = d[t][k],
           \A t \in Task : <<t, 0, "page0">> \notin D => z2[t] = z[t],
           \A t \in Task : <<t, 0, "hold">> \notin D => h2[t].frame = h[t].frame
    PROVE  Same(D, Target(p, d, z, h), Target(p2, d2, z2, h2))
<1> SUFFICES ASSUME NEW r \in Ref, r \notin D
             PROVE  Target(p2, d2, z2, h2)[r] = Target(p, d, z, h)[r]
  BY DEF Same
<1>1. CASE r[3] = "pte"
  <2>1. r = <<r[1], r[2], "pte">> /\ r[1] \in Task /\ r[2] \in Page
    BY <1>1, RefIs
  <2>2. p2[r[1]][r[2]].frame = p[r[1]][r[2]].frame
    BY <2>1
  <2> QED BY <1>1, <2>2 DEF Target
<1>2. CASE r[3] = "dir"
  <2>1. r = <<r[1], r[2], "dir">> /\ r[1] \in Task /\ r[2] \in Page
    BY <1>2, RefIs
  <2>2. d2[r[1]][r[2]] = d[r[1]][r[2]]
    BY <2>1
  <2> QED BY <1>2, <2>2 DEF Target
<1>3. CASE r[3] = "page0"
  <2>1. r = <<r[1], 0, "page0">> /\ r[1] \in Task
    BY <1>3, RefIs
  <2>2. z2[r[1]] = z[r[1]]
    BY <2>1
  <2> QED BY <1>3, <2>2 DEF Target
<1>4. CASE r[3] = "hold"
  <2>1. r = <<r[1], 0, "hold">> /\ r[1] \in Task
    BY <1>4, RefIs
  <2>2. h2[r[1]].frame = h[r[1]].frame
    BY <2>1
  <2> QED BY <1>4, <2>2 DEF Target
<1> QED BY <1>1, <1>2, <1>3, <1>4, RefIs

\* A page table is put in for page k of t.
LEMMA AddTable ==
    ASSUME NEW p, NEW d, NEW z, NEW h, NEW map, NEW H, Good(Target(p, d, z, h), H, map),
           NEW t \in Task, NEW k \in Page, d[t][k] \notin Frame, NEW d2,
           \A s \in Task, j \in Page : s # t \/ j # k => d2[s][j] = d[s][j],
           NEW new, Taken(map, d2[t][k], new)
    PROVE  Good(Target(p, d2, z, h), H, new)
<1>1. PICK x \in Ref : x = <<t, k, "dir">>
  BY RefIs
<1>2. \A s \in Task, j \in Page : <<s, j, "dir">> \notin {x} => d2[s][j] = d[s][j]
  BY <1>1
<1>3. Same({x}, Target(p, d, z, h), Target(p, d2, z, h))
  BY <1>2, SameTargets
<1>4. Target(p, d, z, h)[x] = d[t][k] /\ Target(p, d2, z, h)[x] = d2[t][k]
  BY <1>1 DEF Target
<1>5. PICK T, U : T = Target(p, d, z, h) /\ U = Target(p, d2, z, h)
  OBVIOUS
<1>6. Good(T, H, map) /\ T[x] \notin Frame /\ Taken(map, U[x], new) /\ Same({x}, T, U)
  BY <1>3, <1>4, <1>5
<1>7. Good(U, H, new)
  BY <1>6, Take
<1> QED BY <1>5, <1>7

\* Nothing moves, nothing becomes hard.
LEMMA Unmoved ==
    ASSUME NEW T, NEW H, NEW map, Good(T, H, map), NEW U, Same({}, T, U),
           NEW new, \A g \in Frame : new[g] = map[g], NEW K, \A r \in K : r \in H
    PROVE  Good(U, K, new)
<1>1. \A r \in Ref : U[r] = T[r]
  BY DEF Same
<1>2. \A g \in Frame : Of(Ref, U, g) = Of(Ref, T, g)
  BY <1>1 DEF Of
<1>3. \A r, s \in Ref : r # s /\ U[r] = U[s] /\ U[r] \in Frame => r \notin K /\ s \notin K
  BY <1>1 DEF Good
<1> QED BY <1>2, <1>3 DEF Good

-----------------------------------------------------------------------------
\* The entries of one task.
Row(t, kind) == {<<t, k, kind>> : k \in Page}

LEMMA RowIn ==
    ASSUME NEW t \in Task, NEW kind \in {"pte", "dir"}
    PROVE  Row(t, kind) \subseteq Ref
<1> SUFFICES ASSUME NEW r \in Row(t, kind) PROVE r \in Ref
  OBVIOUS
<1>1. PICK k \in Page : r = <<t, k, kind>>
  BY DEF Row
<1> QED BY <1>1, RefIs

LEMMA RowCount ==
    ASSUME NEW t \in Task, NEW kind \in {"pte", "dir"}, NEW T, NEW f
    PROVE  /\ IsFiniteSet(Of(Row(t, kind), T, f))
           /\ Cardinality(Of(Row(t, kind), T, f)) \in Nat
           /\ Cardinality(Of(Row(t, kind), T, f)) =
                Cardinality({k \in Page : T[<<t, k, kind>>] = f})
<1>1. PICK S : S = {k \in Page : T[<<t, k, kind>>] = f}
  OBVIOUS
<1>2. PICK R : R = Of(Row(t, kind), T, f)
  OBVIOUS
<1>3. IsFiniteSet(S)
  <2>1. IsFiniteSet(Page)
    BY MemoryAssumption, FS_Interval DEF Page
  <2>2. S \in SUBSET Page
    BY <1>1
  <2> QED BY <2>1, <2>2, FS_Subset
<1>4. PICK F : F = [k \in S |-> <<t, k, kind>>]
  OBVIOUS
<1>5. F \in [S -> R]
  BY <1>1, <1>2, <1>4 DEF Of, Row
<1>6. \A x, y \in S : F[x] = F[y] => x = y
  BY <1>4
<1>7. \A z \in R : \E x \in S : F[x] = z
  BY <1>1, <1>2, <1>4 DEF Of, Row
<1>8. IsFiniteSet(R) /\ Cardinality(R) = Cardinality(S)
  BY <1>3, <1>5, <1>6, <1>7, SameSize
<1>9. Cardinality(R) \in Nat
  BY <1>8, FS_CardinalityType
<1> QED BY <1>1, <1>2, <1>8, <1>9

\* Refs counts them.
LEMMA RefsAre ==
    ASSUME NEW t \in Task, NEW f
    PROVE  /\ Row(t, "pte") \cup Row(t, "dir") \subseteq Ref
           /\ Refs(t, f) \in Nat
           /\ Cardinality(Of(Row(t, "pte") \cup Row(t, "dir"), Target(pte, dir, page0, hold), f))
                = Refs(t, f)
<1>0. PICK T : T = Target(pte, dir, page0, hold)
  OBVIOUS
<1>1. \A k \in Page : T[<<t, k, "pte">>] = pte[t][k].frame /\ T[<<t, k, "dir">>] = dir[t][k]
  BY <1>0, TargetIs
<1>2. PICK A, B : A = Of(Row(t, "pte"), T, f) /\ B = Of(Row(t, "dir"), T, f)
  OBVIOUS
<1>3. /\ IsFiniteSet(A) /\ Cardinality(A) \in Nat
      /\ Cardinality(A) = Cardinality({k \in Page : T[<<t, k, "pte">>] = f})
      /\ IsFiniteSet(B) /\ Cardinality(B) \in Nat
      /\ Cardinality(B) = Cardinality({k \in Page : T[<<t, k, "dir">>] = f})
  BY <1>2, RowCount
<1>4. /\ {k \in Page : T[<<t, k, "pte">>] = f} = {k \in Page : pte[t][k].frame = f}
      /\ {k \in Page : T[<<t, k, "dir">>] = f} = {k \in Page : dir[t][k] = f}
  BY <1>1
<1>5. Refs(t, f) = Cardinality(A) + Cardinality(B)
  BY <1>3, <1>4 DEF Refs
<1>6. PICK D, C : D = Row(t, "pte") \cup Row(t, "dir") /\ C = A \cup B
  OBVIOUS
<1>7. Of(D, T, f) = C /\ A \cap B = {}
  BY <1>2, <1>6 DEF Of, Row
<1>8. Cardinality(C) = Cardinality(A) + Cardinality(B) - 0
  <2>1. Cardinality(A \cup B) = Cardinality(A) + Cardinality(B) - Cardinality(A \cap B)
    BY <1>3, FS_Union
  <2>2. Cardinality(A \cap B) = 0
    BY <1>7, FS_EmptySet
  <2> QED BY <1>6, <2>1, <2>2
<1>9. Row(t, "pte") \cup Row(t, "dir") \subseteq Ref
  BY RefIs, ZenonT(40) DEF Row
<1>10. Cardinality(Of(D, T, f)) = Refs(t, f) /\ Refs(t, f) \in Nat
  BY <1>3, <1>5, <1>7, <1>8
<1> QED BY <1>0, <1>6, <1>9, <1>10

\* free_page_tables.
LEMMA FreeTables ==
    ASSUME Good(Target(pte, dir, page0, hold), Hard(pte), mem_map), NEW t \in Task,
           NEW p, NEW d, \A k \in Page : p[t][k].frame = NONE /\ d[t][k] = NONE,
           \A s \in Task, k \in Page : s # t => p[s][k] = pte[s][k] /\ d[s][k] = dir[s][k],
           \A k \in Page : ~p[t][k].w,
           NEW left, \A g \in Frame : left[g] = mem_map[g] - Refs(t, g)
    PROVE  Good(Target(p, d, page0, hold), Hard(p), left)
<1>0. PICK T, U, D : /\ T = Target(pte, dir, page0, hold) /\ U = Target(p, d, page0, hold)
                     /\ D = Row(t, "pte") \cup Row(t, "dir")
  OBVIOUS
<1>1. D \subseteq Ref /\ \A g \in Frame : Cardinality(Of(D, T, g)) = Refs(t, g)
  BY <1>0, RefsAre
<1>2. /\ \A s \in Task, k \in Page : <<s, k, "pte">> \notin D => p[s][k].frame = pte[s][k].frame
      /\ \A s \in Task, k \in Page : <<s, k, "dir">> \notin D => d[s][k] = dir[s][k]
  BY <1>0 DEF Row
<1>3. Same(D, T, U)
  BY <1>0, <1>1, <1>2, SameTargets
<1>4. \A r \in D : U[r] \notin Frame
  <2> TAKE r \in D
  <2>1. PICK k \in Page : r = <<t, k, "pte">> \/ r = <<t, k, "dir">>
    BY <1>0 DEF Row
  <2>2. U[<<t, k, "pte">>] = p[t][k].frame /\ U[<<t, k, "dir">>] = d[t][k]
    BY <1>0, TargetIs
  <2>3. U[r] = NONE
    BY <2>1, <2>2
  <2> QED BY <2>3, FrameIs
<1>5. \A r \in Hard(p) : r \in Hard(pte)
  <2>1. \A s \in Task, k \in Page : p[s][k].w => pte[s][k].w \/ <<s, k, "pte">> \in {}
    OBVIOUS
  <2> QED BY <2>1, HardGrows
<1>6. \A g \in Frame : left[g] = mem_map[g] - Cardinality(Of(D, T, g))
  BY <1>1
<1>7. Good(T, Hard(pte), mem_map)
  BY <1>0
<1>8. Good(U, Hard(p), left)
  BY <1>3, <1>4, <1>5, <1>6, <1>7, DropAll
<1> QED BY <1>0, <1>8

-----------------------------------------------------------------------------
(***************************************************************************)
(* The inductive invariant: types, where a task in each status refers to   *)
(* frames, and counts that are right while references that must not share  *)
(* do not.                                                                 *)
(***************************************************************************)
Typed ==
    /\ mem_map \in [Frame -> Nat]
    /\ content \in [Frame -> Val]
    /\ dir \in [Task -> [Page -> Frame \cup {NONE}]]
    /\ pte \in [Task -> [Page -> Entry]]
    /\ page0 \in [Task -> Frame \cup {NONE}]
    /\ exe \in [Task -> Exes \cup {NoExe}]
    /\ status \in [Task -> Status]
    /\ hold \in [Task -> [page : Page \cup {0}, frame : Frame \cup {NONE}]]

\* While it waits for the disk and inside execve a task holds a frame.
InTransit == {"load", "write_load", "exec"}

Placed(t) ==
    /\ page0[t] \in Frame <=> status[t] # "free"
    /\ hold[t].frame \in Frame <=> status[t] \in InTransit
    /\ status[t] \in InTransit \cup {"write"} => hold[t].page \in Page
    /\ Loading(t) => pte[t][hold[t].page].frame = NONE
    /\ \A k \in Page :
          /\ Present(t, k) => HasTable(t, k)
          /\ HasTable(t, k) => status[t] \notin {"free", "zombie"}
          /\ pte[t][k].w => pte[t][k].frame \in Frame

Places == \A t \in Task : Placed(t)

Counted == Good(Target(pte, dir, page0, hold), Hard(pte), mem_map)

\* What get_free_page returns is free; two calls return two frames.
LEMMA NthFreeIs ==
    /\ \A n \in Nat : \A f \in NthFree(n) : f \in Frame /\ mem_map[f] = 0
    /\ \A f \in NthFree(1), g \in NthFree(2) : f # g
<1>1. \A n \in Nat : \A f \in NthFree(n) : f \in Frame /\ mem_map[f] = 0
  BY DEF NthFree, Free
<1>2. ASSUME NEW f \in NthFree(1), NEW g \in NthFree(2) PROVE f # g
  <2>1. PICK c : c = Cardinality({h \in Free : h > f})
    OBVIOUS
  <2>2. c = 1 - 1
    BY <1>2, <2>1 DEF NthFree
  <2>3. f = g => c = 2 - 1
    BY <1>2, <2>1 DEF NthFree
  <2> QED BY <2>2, <2>3
<1> QED BY <1>1, <1>2

\* A free frame is put in hold.
LEMMA HoldFrame ==
    ASSUME Typed, Counted, NEW t \in Task, NEW f \in Frame, mem_map[f] = 0,
           hold[t].frame \notin Frame, NEW k, mem_map' = [mem_map EXCEPT ![f] = 1],
           hold' = [hold EXCEPT ![t] = [page |-> k, frame |-> f]], UNCHANGED <<dir, pte, page0>>
    PROVE  Counted'
<1>1. PICK x \in Ref : x = <<t, 0, "hold">>
  BY RefIs
<1>2. PICK T, U : T = Target(pte, dir, page0, hold) /\ U = Target(pte', dir', page0', hold')
  OBVIOUS
<1>3. \A s \in Task : <<s, 0, "hold">> \notin {x} => hold'[s].frame = hold[s].frame
  BY <1>1 DEF Typed
<1>4. Same({x}, T, U)
  BY <1>2, <1>3, SameTargets
<1>5. T[x] = hold[t].frame /\ U[x] = hold'[t].frame
  BY <1>1, <1>2 DEF Target
<1>6. hold'[t].frame = f
  BY DEF Typed
<1>7. Taken(mem_map, U[x], mem_map')
  BY <1>5, <1>6 DEF Typed, Taken
<1>8. Good(T, Hard(pte), mem_map)
  BY <1>2 DEF Counted
<1>9. Good(U, Hard(pte), mem_map')
  BY <1>4, <1>5, <1>7, <1>8, Take
<1> QED BY <1>2, <1>9 DEF Counted

\* The entry of page k of t gets a free frame, giving up the one it had.
LEMMA MapFrame ==
    ASSUME Typed, Counted, NEW t \in Task, NEW k \in Page, NEW new, NEW e \in Entry,
           Swapped(mem_map, pte[t][k].frame, e.frame, new), pte' = [pte EXCEPT ![t][k] = e]
    PROVE  Good(Target(pte', dir, page0, hold), Hard(pte'), new)
<1>1. PICK x \in Ref : x = <<t, k, "pte">>
  BY RefIs
<1>2. PICK T, U : T = Target(pte, dir, page0, hold) /\ U = Target(pte', dir, page0, hold)
  OBVIOUS
<1>3. /\ pte'[t][k] = e
      /\ \A s \in Task, j \in Page : s # t \/ j # k => pte'[s][j] = pte[s][j]
  BY DEF Typed
<1>4. \A s \in Task, j \in Page : <<s, j, "pte">> \notin {x} => pte'[s][j].frame = pte[s][j].frame
  BY <1>1, <1>3
<1>5. Same({x}, T, U)
  BY <1>2, <1>4, SameTargets, ZenonT(40)
<1>6. T[x] = pte[t][k].frame /\ U[x] = pte'[t][k].frame
  BY <1>1, <1>2 DEF Target
<1>7. Swapped(mem_map, T[x], U[x], new)
  BY <1>3, <1>6
<1>8. \A r \in Hard(pte') : r \in Hard(pte) \/ r = x
  <2>1. \A s \in Task, j \in Page : pte'[s][j].w => pte[s][j].w \/ <<s, j, "pte">> \in {x}
    BY <1>1, <1>3
  <2>2. \A r \in Hard(pte') : r \in Hard(pte) \/ r \in {x}
    BY <2>1, HardGrows
  <2> QED BY <2>2
<1>9. Good(T, Hard(pte), mem_map)
  BY <1>2 DEF Counted
<1>10. Good(U, Hard(pte'), new)
  BY <1>5, <1>7, <1>8, <1>9, Swap
<1> QED BY <1>2, <1>10

\* do_exit gives back every frame of t but the task page.
LEMMA ExitCounts ==
    ASSUME Typed, Counted, NEW t \in Task, NEW extra, do_exit(t, extra),
           \A g \in Frame : g \in extra <=> hold[t].frame = g
    PROVE  Counted'
<1>1. PICK left : left = [g \in Frame |-> mem_map[g] - Refs(t, g)]
  OBVIOUS
<1>2. /\ mem_map' = [f \in Frame |-> mem_map[f] - Refs(t, f) - (IF f \in extra THEN 1 ELSE 0)]
      /\ dir' = [dir EXCEPT ![t] = [k \in Page |-> NONE]]
      /\ pte' = [pte EXCEPT ![t] = [k \in Page |-> NotPresent]]
      /\ hold' = [hold EXCEPT ![t] = NoHold] /\ page0' = page0
  BY DEF do_exit, FreePageTables
<1>3. /\ \A k \in Page : pte'[t][k].frame = NONE /\ dir'[t][k] = NONE /\ ~pte'[t][k].w
      /\ \A s \in Task, k \in Page : s # t => pte'[s][k] = pte[s][k] /\ dir'[s][k] = dir[s][k]
  BY <1>2 DEF Typed, NotPresent
<1>4. \A g \in Frame : left[g] = mem_map[g] - Refs(t, g)
  BY <1>1
<1>5. Good(Target(pte', dir', page0, hold), Hard(pte'), left)
  BY <1>3, <1>4, FreeTables DEF Counted
<1>6. PICK x \in Ref : x = <<t, 0, "hold">>
  BY RefIs
<1>7. PICK T, U : T = Target(pte', dir', page0, hold) /\ U = Target(pte', dir', page0', hold')
  OBVIOUS
<1>8. \A s \in Task : <<s, 0, "hold">> \notin {x} => hold'[s].frame = hold[s].frame
  BY <1>2, <1>6 DEF Typed
<1>9. Same({x}, T, U)
  BY <1>2, <1>7, <1>8, SameTargets, ZenonT(40)
<1>10. T[x] = hold[t].frame /\ U[x] = hold'[t].frame
  BY <1>6, <1>7 DEF Target
<1>11. hold'[t].frame = NONE
  BY <1>2 DEF Typed, NoHold
<1>12. U[x] \notin Frame
  BY <1>10, <1>11, FrameIs
<1>13. Dropped(left, T[x], mem_map')
  <2> SUFFICES ASSUME NEW g \in Frame PROVE mem_map'[g] = left[g] - One(T[x], g)
    BY DEF Dropped
  <2>1. mem_map'[g] = left[g] - (IF g \in extra THEN 1 ELSE 0)
    BY <1>1, <1>2
  <2>2. (IF g \in extra THEN 1 ELSE 0) = One(T[x], g)
    BY <1>10 DEF One
  <2> QED BY <2>1, <2>2
<1>14. Good(T, Hard(pte'), left)
  BY <1>5, <1>7
<1>15. Good(U, Hard(pte'), mem_map')
  BY <1>9, <1>12, <1>13, <1>14, Drop
<1> QED BY <1>7, <1>15 DEF Counted

LEMMA ReleaseCounts ==
    ASSUME Typed, Places, Counted, NEW t \in Task, release(t)
    PROVE  Counted'
<1>1. PICK x \in Ref : x = <<t, 0, "page0">>
  BY RefIs
<1>2. PICK T, U : T = Target(pte, dir, page0, hold) /\ U = Target(pte', dir', page0', hold')
  OBVIOUS
<1>3. /\ mem_map' = [mem_map EXCEPT ![page0[t]] = @ - 1]
      /\ page0' = [page0 EXCEPT ![t] = NONE]
      /\ dir' = dir /\ pte' = pte /\ hold' = hold
  BY DEF release
<1>4. \A s \in Task : <<s, 0, "page0">> \notin {x} => page0'[s] = page0[s]
  BY <1>1, <1>3 DEF Typed
<1>5. Same({x}, T, U)
  BY <1>2, <1>3, <1>4, SameTargets
<1>6. T[x] = page0[t] /\ U[x] = page0'[t]
  BY <1>1, <1>2 DEF Target
<1>7. U[x] \notin Frame
  <2>1. page0'[t] = NONE
    BY <1>3 DEF Typed
  <2> QED BY <1>6, <2>1, FrameIs
<1>8. Dropped(mem_map, T[x], mem_map')
  <2>1. \A g \in Frame : mem_map[g] \in Nat
    BY DEF Typed
  <2>2. \A g \in Frame : mem_map'[g] = IF g = page0[t] THEN mem_map[g] - 1 ELSE mem_map[g]
    BY <1>3 DEF Typed
  <2>3. \A g \in Frame : mem_map'[g] = mem_map[g] - One(page0[t], g)
    BY <2>1, <2>2 DEF One
  <2> QED BY <1>6, <2>3 DEF Dropped
<1>9. Good(T, Hard(pte), mem_map)
  BY <1>2 DEF Counted
<1>10. Good(U, Hard(pte), mem_map')
  BY <1>5, <1>7, <1>8, <1>9, Drop
<1> QED BY <1>2, <1>3, <1>10 DEF Counted

\* Of two frames taken in a row.
LEMMA TakenTwice ==
    ASSUME Typed, NEW f \in Frame, mem_map[f] = 0, NEW old, old \notin Frame
    PROVE  Swapped(mem_map, old, f, [mem_map EXCEPT ![f] = 1])
<1>1. PICK new : new = [mem_map EXCEPT ![f] = 1]
  OBVIOUS
<1>2. new[f] = 1 /\ \A g \in Frame : g # f => new[g] = mem_map[g] /\ mem_map[g] \in Nat
  BY <1>1 DEF Typed
<1>3. Swapped(mem_map, old, f, new)
  BY <1>2 DEF Swapped, One
<1> QED BY <1>1, <1>3

LEMMA EmptyCounts ==
    ASSUME Typed, Counted, NEW t \in Task, NEW k \in Page, get_empty_page(t, k)
    PROVE  Counted'
<1>1. PICK f \in NthFree(1) :
        PutPage(t, k, f, 1, [mem_map EXCEPT ![f] = 1], [content EXCEPT ![f] = Zero])
  BY DEF get_empty_page
<1>2. f \in Frame /\ mem_map[f] = 0
  BY <1>1, NthFreeIs
<1>3. PICK map, e : /\ map = [mem_map EXCEPT ![f] = 1]
                    /\ e = [frame |-> f, w |-> TRUE, d |-> FALSE]
  OBVIOUS
<1>4. pte[t][k].frame \notin Frame
  BY FrameIs DEF get_empty_page, Faults, Present
<1>5. Swapped(mem_map, pte[t][k].frame, e.frame, map)
  BY <1>2, <1>3, <1>4, TakenTwice
<1>6. e \in Entry
  BY <1>2, <1>3 DEF Entry
<1>7. pte' = [pte EXCEPT ![t][k] = e]
  BY <1>1, <1>3 DEF PutPage
<1>8. Good(Target(pte', dir, page0, hold), Hard(pte'), map)
  BY <1>5, <1>6, <1>7, MapFrame
<1>9. page0' = page0 /\ hold' = hold
  BY DEF get_empty_page
<1>10. CASE HasTable(t, k)
  <2>1. mem_map' = map /\ dir' = dir
    BY <1>1, <1>3, <1>10 DEF PutPage
  <2> QED BY <1>8, <1>9, <2>1 DEF Counted
<1>11. CASE ~HasTable(t, k)
  <2>1. PICK p \in NthFree(2) : dir' = [dir EXCEPT ![t][k] = p] /\ mem_map' = [map EXCEPT ![p] = 1]
    BY <1>1, <1>3, <1>11 DEF PutPage
  <2>2. p \in Frame /\ mem_map[p] = 0 /\ p # f
    BY <1>1, <2>1, NthFreeIs
  <2>3. Taken(map, p, mem_map')
    BY <1>2, <1>3, <2>1, <2>2 DEF Typed, Taken
  <2>4. /\ dir'[t][k] = p
        /\ \A s \in Task, j \in Page : s # t \/ j # k => dir'[s][j] = dir[s][j]
    BY <2>1 DEF Typed
  <2>5. dir[t][k] \notin Frame
    BY <1>11, FrameIs DEF HasTable
  <2>6. Good(Target(pte', dir', page0, hold), Hard(pte'), mem_map')
    BY <1>8, <2>3, <2>4, <2>5, AddTable
  <2> QED BY <1>9, <2>6 DEF Counted
<1> QED BY <1>10, <1>11

LEMMA ShareCounts ==
    ASSUME Typed, Counted, NEW t \in Task, NEW k \in Page, share_page(t, k)
    PROVE  Counted'
<1>1. PICK p \in Highest(Sharers(t, k)) :
        /\ Share(t, k, p)
        /\ LET shared == [mem_map EXCEPT ![pte[p][k].frame] = @ + 1]
           IN  \/ HasTable(t, k) /\ mem_map' = shared /\ UNCHANGED dir
               \/ /\ ~HasTable(t, k)
                  /\ \E q \in NthFree(1) : /\ dir' = [dir EXCEPT ![t][k] = q]
                                           /\ mem_map' = [shared EXCEPT ![q] = 1]
  BY DEF share_page
<1>2. p \in Task /\ p # t /\ pte[p][k].frame \in Frame
  BY <1>1 DEF Highest, Sharers
<1>3. PICK f \in Frame : f = pte[p][k].frame
  BY <1>2
<1>4. PICK shared : shared = [mem_map EXCEPT ![f] = @ + 1]
  OBVIOUS
<1>5. PICK x \in Ref, y \in Ref : x = <<t, k, "pte">> /\ y = <<p, k, "pte">>
  BY <1>2, RefIs
<1>6. PICK T, U : T = Target(pte, dir, page0, hold) /\ U = Target(pte', dir, page0, hold)
  OBVIOUS
<1>7. /\ pte'[t][k].frame = f /\ pte'[p][k].frame = f /\ ~pte'[t][k].w /\ ~pte'[p][k].w
      /\ \A s \in Task, j \in Page : s \notin {t, p} \/ j # k => pte'[s][j] = pte[s][j]
  <2>1. PICK ro : ro = [pte[p][k] EXCEPT !.w = FALSE]
    OBVIOUS
  <2>2. pte[p][k] \in Entry
    BY <1>2 DEF Typed
  <2>3. ro.frame = f /\ ~ro.w
    BY <1>3, <2>1, <2>2 DEF Entry
  <2>4. pte' = [pte EXCEPT ![p][k] = ro, ![t][k] = ro]
    BY <1>1, <2>1 DEF Share
  <2>5. pte'[t][k] = ro /\ pte'[p][k] = ro
    BY <1>2, <2>4 DEF Typed
  <2>6. \A s \in Task, j \in Page : s \notin {t, p} \/ j # k => pte'[s][j] = pte[s][j]
    BY <1>2, <2>4 DEF Typed
  <2> QED BY <2>3, <2>5, <2>6
<1>8. \A s \in Task, j \in Page : <<s, j, "pte">> \notin {x} => pte'[s][j].frame = pte[s][j].frame
  BY <1>3, <1>5, <1>7
<1>9. Same({x}, T, U)
  BY <1>6, <1>8, SameTargets
<1>10. T[x] = pte[t][k].frame /\ T[y] = pte[p][k].frame /\ U[x] = pte'[t][k].frame
  BY <1>5, <1>6 DEF Target
<1>11. T[x] \notin Frame
  BY <1>10, FrameIs DEF share_page, Faults, Present
<1>12. \A r \in Hard(pte') : r \in Hard(pte)
  <2>1. \A s \in Task, j \in Page : pte'[s][j].w => pte[s][j].w \/ <<s, j, "pte">> \in {}
    BY <1>7
  <2> QED BY <2>1, HardGrows
<1>13. x \notin Hard(pte') /\ y \notin Hard(pte')
  BY <1>2, <1>5, <1>7, HardIs
<1>14. /\ shared[f] = mem_map[f] + 1
       /\ \A g \in Frame : g # f => shared[g] = mem_map[g]
  BY <1>4 DEF Typed
<1>15. Good(U, Hard(pte'), shared)
  <2>1. T[y] \in Frame /\ U[x] = T[y] /\ T[y] = f
    BY <1>3, <1>7, <1>10
  <2>2. Shared(mem_map, T[y], shared)
    BY <1>14, <2>1 DEF Shared
  <2>3. Good(T, Hard(pte), mem_map)
    BY <1>6 DEF Counted
  <2> QED BY <1>9, <1>11, <1>12, <1>13, <2>1, <2>2, <2>3, ShareFrame
<1>16. page0' = page0 /\ hold' = hold
  BY DEF share_page
<1>17. CASE HasTable(t, k)
  <2>1. mem_map' = shared /\ dir' = dir
    BY <1>1, <1>3, <1>4, <1>17
  <2> QED BY <1>6, <1>15, <1>16, <2>1 DEF Counted
<1>18. CASE ~HasTable(t, k)
  <2>1. PICK q \in NthFree(1) : dir' = [dir EXCEPT ![t][k] = q] /\ mem_map' = [shared EXCEPT ![q] = 1]
    BY <1>1, <1>3, <1>4, <1>18
  <2>2. q \in Frame /\ mem_map[q] = 0
    BY <2>1, NthFreeIs
  <2>3. q # f
    <3>1. Good(T, Hard(pte), mem_map)
      BY <1>6 DEF Counted
    <3>2. mem_map[q] = 0 <=> \A r \in Ref : T[r] # q
      BY <2>2, <3>1, FreeIsFree
    <3> QED BY <1>3, <1>10, <2>2, <3>2
  <2>4. Taken(shared, q, mem_map')
    BY <1>4, <2>1, <2>2, <2>3 DEF Typed, Taken
  <2>5. /\ dir'[t][k] = q
        /\ \A s \in Task, j \in Page : s # t \/ j # k => dir'[s][j] = dir[s][j]
    BY <2>1 DEF Typed
  <2>6. dir[t][k] \notin Frame
    BY <1>18, FrameIs DEF HasTable
  <2>7. Good(Target(pte', dir, page0, hold), Hard(pte'), shared)
    BY <1>6, <1>15
  <2>8. Good(Target(pte', dir', page0, hold), Hard(pte'), mem_map')
    BY <2>4, <2>5, <2>6, <2>7, AddTable
  <2> QED BY <1>16, <2>8 DEF Counted
<1> QED BY <1>17, <1>18

\* The frame in hold becomes page k of t, which had none.
LEMMA HoldMapped ==
    ASSUME NEW p, NEW d, NEW map, Good(Target(p, d, page0, hold), Hard(p), map),
           NEW t \in Task, NEW k \in Page, hold[t].frame \in Frame, p[t][k].frame \notin Frame,
           NEW q, q[t][k].frame = hold[t].frame,
           \A s \in Task, j \in Page : s # t \/ j # k => q[s][j] = p[s][j],
           NEW h, h[t].frame \notin Frame,
           \A s \in Task : s # t => h[s].frame = hold[s].frame
    PROVE  Good(Target(q, d, page0, h), Hard(q), map)
<1>1. PICK x \in Ref, y \in Ref : x = <<t, 0, "hold">> /\ y = <<t, k, "pte">>
  BY RefIs
<1>2. PICK T, U : T = Target(p, d, page0, hold) /\ U = Target(q, d, page0, h)
  OBVIOUS
<1>3. /\ \A s \in Task, j \in Page : <<s, j, "pte">> \notin {x, y} => q[s][j].frame = p[s][j].frame
      /\ \A s \in Task : <<s, 0, "hold">> \notin {x, y} => h[s].frame = hold[s].frame
  BY <1>1
<1>4. {x, y} \subseteq Ref
  OBVIOUS
<1>5. Same({x, y}, T, U)
  BY <1>2, <1>3, <1>4, SameTargets
<1>6. /\ T[x] = hold[t].frame /\ T[y] = p[t][k].frame
      /\ U[x] = h[t].frame /\ U[y] = q[t][k].frame
  BY <1>1, <1>2 DEF Target
<1>7. x # y /\ x \in Hard(p)
  BY <1>1, HardIs
<1>8. \A r \in Hard(q) : r \in Hard(p) \/ r = y
  <2>1. \A s \in Task, j \in Page : q[s][j].w => p[s][j].w \/ <<s, j, "pte">> \in {y}
    BY <1>1
  <2>2. \A r \in Hard(q) : r \in Hard(p) \/ r \in {y}
    BY <2>1, HardGrows
  <2> QED BY <2>2
<1>9. Good(T, Hard(p), map) /\ T[x] \in Frame /\ T[y] \notin Frame /\ U[x] \notin Frame /\ U[y] = T[x]
  BY <1>2, <1>6
<1>10. Good(U, Hard(q), map)
  BY <1>5, <1>7, <1>8, <1>9, HandOn
<1> QED BY <1>2, <1>10

LEMMA LoadEndsCounts ==
    ASSUME Typed, Places, Counted, NEW t \in Task, load_ends(t)
    PROVE  Counted'
<1>1. PICK k \in Page : k = hold[t].page
  BY DEF Places, Placed, load_ends, Loading, InTransit
<1>2. PICK f \in Frame : f = hold[t].frame
  BY DEF Places, Placed, load_ends, Loading, InTransit
<1>3. /\ pte' = [pte EXCEPT ![t][k] = [frame |-> f, w |-> TRUE, d |-> FALSE]]
      /\ \/ HasTable(t, k) /\ mem_map' = mem_map /\ dir' = dir
         \/ /\ ~HasTable(t, k)
            /\ \E p \in NthFree(1) : /\ dir' = [dir EXCEPT ![t][k] = p]
                                     /\ mem_map' = [mem_map EXCEPT ![p] = 1]
      /\ hold' = [hold EXCEPT ![t] = IF status[t] = "load" THEN NoHold
                                     ELSE [@ EXCEPT !.frame = NONE]]
      /\ page0' = page0
  BY <1>1, <1>2 DEF load_ends, PutPage
<1>4. /\ pte'[t][k].frame = f
      /\ \A s \in Task, j \in Page : s # t \/ j # k => pte'[s][j] = pte[s][j]
  BY <1>3 DEF Typed
<1>5. /\ hold'[t].frame = NONE
      /\ \A s \in Task : s # t => hold'[s].frame = hold[s].frame
  BY <1>3 DEF Typed, NoHold
<1>6. pte[t][k].frame \notin Frame
  BY <1>1, FrameIs DEF Places, Placed, load_ends
<1>7. Good(Target(pte', dir, page0, hold'), Hard(pte'), mem_map)
  <2>1. pte'[t][k].frame = hold[t].frame /\ hold[t].frame \in Frame
    BY <1>2, <1>4
  <2>2. hold'[t].frame \notin Frame
    BY <1>5, FrameIs
  <2>3. Good(Target(pte, dir, page0, hold), Hard(pte), mem_map)
    BY DEF Counted
  <2> QED BY <1>4, <1>5, <1>6, <2>1, <2>2, <2>3, HoldMapped
<1>8. CASE HasTable(t, k)
  BY <1>3, <1>7, <1>8 DEF Counted
<1>9. CASE ~HasTable(t, k)
  <2>1. PICK p \in NthFree(1) : dir' = [dir EXCEPT ![t][k] = p] /\ mem_map' = [mem_map EXCEPT ![p] = 1]
    BY <1>3, <1>9
  <2>2. p \in Frame /\ mem_map[p] = 0
    BY <2>1, NthFreeIs
  <2>3. Taken(mem_map, p, mem_map')
    BY <2>1, <2>2 DEF Typed, Taken
  <2>4. /\ dir'[t][k] = p
        /\ \A s \in Task, j \in Page : s # t \/ j # k => dir'[s][j] = dir[s][j]
    BY <2>1 DEF Typed
  <2>5. dir[t][k] \notin Frame
    BY <1>9, FrameIs DEF HasTable
  <2>6. Good(Target(pte', dir', page0, hold'), Hard(pte'), mem_map')
    BY <1>7, <2>3, <2>4, <2>5, AddTable
  <2> QED BY <1>3, <2>6 DEF Counted
<1> QED BY <1>8, <1>9

\* un_wp_page: the only user of a frame may write to it; others get a copy.
LEMMA CopyCounts ==
    ASSUME Typed, Counted, NEW t \in Task, NEW k \in Page, un_wp_page(t, k)
    PROVE  Good(Target(pte', dir, page0, hold), Hard(pte'), mem_map')
<1>1. PICK old : old = pte[t][k].frame
  OBVIOUS
<1>2. CASE old \in Single
  <2>1. pte' = [pte EXCEPT ![t][k].w = TRUE] /\ mem_map' = mem_map
    BY <1>1, <1>2 DEF un_wp_page
  <2>2. /\ pte'[t][k].frame = old
        /\ \A s \in Task, j \in Page : s # t \/ j # k => pte'[s][j] = pte[s][j]
    <3>1. pte[t][k] \in Entry
      BY DEF Typed
    <3>2. pte'[t][k] = [pte[t][k] EXCEPT !.w = TRUE]
      BY <2>1 DEF Typed
    <3>3. pte'[t][k].frame = old
      BY <1>1, <3>1, <3>2 DEF Entry
    <3>4. \A s \in Task, j \in Page : s # t \/ j # k => pte'[s][j] = pte[s][j]
      BY <2>1 DEF Typed
    <3> QED BY <3>3, <3>4
  <2>3. PICK T, U : T = Target(pte, dir, page0, hold) /\ U = Target(pte', dir, page0, hold)
    OBVIOUS
  <2>4. PICK x \in Ref : x = <<t, k, "pte">>
    BY RefIs
  <2>5. \A s \in Task, j \in Page : <<s, j, "pte">> \notin {} => pte'[s][j].frame = pte[s][j].frame
    BY <1>1, <2>2
  <2>6. Same({}, T, U)
    BY <2>3, <2>5, SameTargets
  <2>7. T[x] \in Frame /\ mem_map[T[x]] = 1
    <3>1. T[x] = pte[t][k].frame
      BY <2>3, <2>4 DEF Target
    <3> QED BY <1>1, <1>2, <3>1 DEF Single
  <2>8. \A r \in Hard(pte') : r \in Hard(pte) \/ r = x
    <3>1. \A s \in Task, j \in Page : pte'[s][j].w => pte[s][j].w \/ <<s, j, "pte">> \in {x}
      BY <2>2, <2>4
    <3>2. \A r \in Hard(pte') : r \in Hard(pte) \/ r \in {x}
      BY <3>1, HardGrows
    <3> QED BY <3>2
  <2>9. Good(T, Hard(pte), mem_map)
    BY <2>3 DEF Counted
  <2>10. Good(T, Hard(pte'), mem_map)
    BY <2>7, <2>8, <2>9, Harden
  <2>11. Good(U, Hard(pte'), mem_map')
    BY <2>1, <2>6, <2>10, Unmoved
  <2> QED BY <2>3, <2>11
<1>3. CASE old \notin Single
  <2>1. PICK f \in NthFree(1) :
          /\ pte' = [pte EXCEPT ![t][k] = [frame |-> f, w |-> TRUE, d |-> FALSE]]
          /\ mem_map' = [f1 \in Frame |-> IF f1 = f THEN 1
                                          ELSE IF f1 = old THEN mem_map[f1] - 1
                                          ELSE mem_map[f1]]
    BY <1>1, <1>3 DEF un_wp_page
  <2>2. f \in Frame /\ mem_map[f] = 0
    BY <2>1, NthFreeIs
  <2>3. PICK e : e = [frame |-> f, w |-> TRUE, d |-> FALSE]
    OBVIOUS
  <2>4. e \in Entry /\ e.frame = f
    BY <2>2, <2>3 DEF Entry
  <2>5. Swapped(mem_map, old, f, mem_map')
    BY <2>1, <2>2 DEF Swapped, One, Typed
  <2>6. Swapped(mem_map, pte[t][k].frame, e.frame, mem_map')
    BY <1>1, <2>4, <2>5
  <2>7. pte' = [pte EXCEPT ![t][k] = e]
    BY <2>1, <2>3
  <2> QED BY <2>4, <2>6, <2>7, MapFrame
<1> QED BY <1>2, <1>3

\* Frames stay where they are and no page becomes writable.
LEMMA StillCounts ==
    ASSUME Typed, Counted, mem_map' = mem_map, dir' = dir, page0' = page0,
           \A t \in Task : hold'[t].frame = hold[t].frame,
           \A t \in Task, k \in Page : /\ pte'[t][k].frame = pte[t][k].frame
                                       /\ pte'[t][k].w => pte[t][k].w
    PROVE  Counted'
<1>1. PICK T, U : T = Target(pte, dir, page0, hold) /\ U = Target(pte', dir', page0', hold')
  OBVIOUS
<1>2. Same({}, T, U)
  BY <1>1, SameTargets
<1>3. \A r \in Hard(pte') : r \in Hard(pte)
  <2>1. \A s \in Task, j \in Page : pte'[s][j].w => pte[s][j].w \/ <<s, j, "pte">> \in {}
    OBVIOUS
  <2> QED BY <2>1, HardGrows
<1>4. Good(T, Hard(pte), mem_map)
  BY <1>1 DEF Counted
<1>5. Good(U, Hard(pte'), mem_map')
  BY <1>2, <1>3, <1>4, Unmoved
<1> QED BY <1>1, <1>5 DEF Counted

LEMMA ExecveCounts ==
    ASSUME Typed, Places, Counted, NEW t \in Task, execve_ends(t)
    PROVE  Counted'
<1>1. PICK left : left = [f \in Frame |-> mem_map[f] - Refs(t, f)]
  OBVIOUS
<1>2. PICK p \in Frame :
        /\ left[p] = 0 /\ mem_map' = [left EXCEPT ![p] = 1]
        /\ dir' = [dir EXCEPT ![t] = [k \in Page |-> IF k = NR_PAGES THEN p ELSE NONE]]
  BY <1>1 DEF execve_ends, Highest
<1>3. /\ pte' = [pte EXCEPT ![t] =
                     [k \in Page |-> IF k = NR_PAGES
                                     THEN [frame |-> hold[t].frame, w |-> TRUE, d |-> FALSE]
                                     ELSE NotPresent]]
      /\ hold' = [hold EXCEPT ![t] = NoHold] /\ page0' = page0 /\ status[t] = "exec"
  BY DEF execve_ends
<1>4. PICK q, d : /\ q = [pte EXCEPT ![t] = [k \in Page |-> NotPresent]]
                  /\ d = [dir EXCEPT ![t] = [k \in Page |-> NONE]]
  OBVIOUS
<1>5. /\ \A k \in Page : q[t][k] = NotPresent /\ d[t][k] = NONE
      /\ \A s \in Task, k \in Page : s # t => q[s][k] = pte[s][k] /\ d[s][k] = dir[s][k]
  BY <1>4 DEF Typed
<1>6. \A k \in Page : q[t][k].frame = NONE /\ ~q[t][k].w
  BY <1>5 DEF NotPresent
<1>7. Good(Target(q, d, page0, hold), Hard(q), left)
  <2>1. \A g \in Frame : left[g] = mem_map[g] - Refs(t, g)
    BY <1>1
  <2> QED BY <1>5, <1>6, <2>1, FreeTables DEF Counted
<1>8. NR_PAGES \in Page
  BY MemoryAssumption DEF Page
<1>9. /\ hold'[t].frame = NONE /\ hold[t].frame \in Frame
      /\ \A s \in Task : s # t => hold'[s].frame = hold[s].frame
  BY <1>3 DEF Typed, NoHold, Places, Placed, InTransit
<1>10. /\ pte'[t][NR_PAGES].frame = hold[t].frame
       /\ \A s \in Task, j \in Page : s # t \/ j # NR_PAGES => pte'[s][j] = q[s][j]
  BY <1>3, <1>5, <1>8 DEF Typed
<1>11. Good(Target(pte', d, page0, hold'), Hard(pte'), left)
  <2>1. q[t][NR_PAGES].frame \notin Frame /\ hold'[t].frame \notin Frame
    BY <1>6, <1>8, <1>9, FrameIs
  <2> QED BY <1>7, <1>8, <1>9, <1>10, <2>1, HoldMapped
<1>12. /\ dir'[t][NR_PAGES] = p
       /\ \A s \in Task, j \in Page : s # t \/ j # NR_PAGES => dir'[s][j] = d[s][j]
  BY <1>2, <1>5, <1>8 DEF Typed
<1>13. d[t][NR_PAGES] \notin Frame
  BY <1>5, <1>8, FrameIs
<1>14. Taken(left, p, mem_map')
  BY <1>1, <1>2 DEF Taken
<1>15. Good(Target(pte', dir', page0, hold'), Hard(pte'), mem_map')
  BY <1>8, <1>11, <1>12, <1>13, <1>14, AddTable
<1> QED BY <1>3, <1>15 DEF Counted

-----------------------------------------------------------------------------
\* fork: the page table for page k, K being the pages with one.
Table(K, k) == CHOOSE f \in Frame : f \in NthFree(2 + Cardinality({j \in K : j < k}))
Below(K, k) == {j \in K : j < k}

LEMMA BelowIs ==
    ASSUME NEW K \in SUBSET Page
    PROVE  /\ IsFiniteSet(K) /\ Cardinality(K) \in Nat
           /\ \A k \in K : Cardinality(Below(K, k)) \in Nat /\ Cardinality(Below(K, k)) < Cardinality(K)
           /\ \A j, k \in K : j < k => Cardinality(Below(K, j)) < Cardinality(Below(K, k))
<1>1. IsFiniteSet(K) /\ Cardinality(K) \in Nat /\ \A k \in K : k \in Int
  <2>1. IsFiniteSet(Page) /\ \A k \in Page : k \in Int
    BY MemoryAssumption, FS_Interval DEF Page
  <2> QED BY <2>1, FS_Subset, FS_CardinalityType
<1>2. ASSUME NEW k \in K
      PROVE  /\ IsFiniteSet(Below(K, k)) /\ Cardinality(Below(K, k)) \in Nat
             /\ Cardinality(Below(K, k)) < Cardinality(K)
  <2>1. Below(K, k) \in SUBSET K /\ k \notin Below(K, k)
    BY <1>1 DEF Below
  <2>2. Below(K, k) # K
    BY <1>2, <2>1
  <2> QED BY <1>1, <2>1, <2>2, FS_Subset, FS_CardinalityType
<1>3. ASSUME NEW j \in K, NEW k \in K, j < k
      PROVE  Cardinality(Below(K, j)) < Cardinality(Below(K, k))
  <2>1. PICK A, B : A = Below(K, j) /\ B = Below(K, k)
    OBVIOUS
  <2>2. IsFiniteSet(B)
    BY <1>2, <2>1
  <2>3. A \in SUBSET B /\ j \in B /\ j \notin A
    BY <1>1, <1>3, <2>1 DEF Below
  <2>4. A # B
    BY <2>3
  <2>5. Cardinality(A) < Cardinality(B)
    BY <2>2, <2>3, <2>4, FS_Subset, FS_CardinalityType
  <2> QED BY <2>1, <2>5
<1> QED BY <1>1, <1>2, <1>3

\* There is a frame for each, and each has its own.
LEMMA TablesAreFree ==
    ASSUME Typed, NEW K \in SUBSET Page, Enough(Cardinality(K) + 1)
    PROVE  /\ \A k \in K : Table(K, k) \in Frame /\ mem_map[Table(K, k)] = 0
           /\ \A j, k \in K : Table(K, j) = Table(K, k) => j = k
           /\ \A k \in K : Table(K, k) \notin NthFree(1)
<1>1. Free \in SUBSET Nat /\ IsFiniteSet(Free) /\ \A f \in Free : f <= NR_FRAMES
  <2>1. Free \in SUBSET Frame
    BY DEF Free
  <2>2. \A f \in Frame : f <= NR_FRAMES
    BY MemoryAssumption DEF Frame
  <2> QED BY <2>1, <2>2, FrameIs, FS_Subset
<1>2. Cardinality(Free) \in Nat /\ Cardinality(Free) >= Cardinality(K) + 1
  BY <1>1, FS_CardinalityType DEF Enough
<1>3. ASSUME NEW k \in K
      PROVE  /\ Table(K, k) \in Free /\ Table(K, k) \in Frame
             /\ Cardinality(Above(Free, Table(K, k))) = 1 + Cardinality(Below(K, k))
  <2>1. PICK b \in Nat : b = Cardinality(Below(K, k)) /\ b < Cardinality(K)
    BY <1>3, BelowIs
  <2>2. 1 + b \in Nat /\ 1 + b < Cardinality(Free)
    BY <1>2, <2>1, BelowIs
  <2>3. PICK f \in Free : Cardinality(Above(Free, f)) = 1 + b
    BY <1>1, <2>2, MemoryAssumption, Ranks
  <2>4. 2 + b - 1 = 1 + b
    BY <2>1
  <2>5. \A g : g \in NthFree(2 + b) <=> g \in Free /\ Cardinality(Above(Free, g)) = 1 + b
    BY <2>4 DEF NthFree, Above
  <2>6. f \in Frame /\ f \in NthFree(2 + b)
    BY <2>3, <2>5 DEF Free
  <2>7. Table(K, k) = CHOOSE g \in Frame : g \in NthFree(2 + b)
    BY <2>1 DEF Table, Below
  <2>8. Table(K, k) \in Frame /\ Table(K, k) \in NthFree(2 + b)
    BY <2>6, <2>7
  <2> QED BY <2>1, <2>5, <2>8
<1>4. ASSUME NEW j \in K, NEW k \in K, Table(K, j) = Table(K, k) PROVE j = k
  <2>1. Cardinality(Below(K, j)) = Cardinality(Below(K, k))
    BY <1>3, <1>4, BelowIs
  <2>2. j \in Int /\ k \in Int
    BY MemoryAssumption DEF Page
  <2>3. ~(j < k) /\ ~(k < j)
    BY <2>1, BelowIs
  <2> QED BY <2>2, <2>3
<1>5. ASSUME NEW k \in K, Table(K, k) \in NthFree(1) PROVE FALSE
  <2>1. Cardinality(Above(Free, Table(K, k))) = 1 - 1
    BY <1>5 DEF NthFree, Above
  <2>2. Cardinality(Below(K, k)) \in Nat
    BY <1>5, BelowIs
  <2> QED BY <1>3, <2>1, <2>2
<1> QED BY <1>3, <1>4, <1>5 DEF Free

\* What fork does, entry by entry.
LEMMA ForkDoes ==
    ASSUME Typed, Places, NEW t \in Task, NEW u \in Task, sys_fork(t, u)
    PROVE  /\ t # u /\ status[t] = "run" /\ status[u] = "free"
           /\ Enough(Cardinality(Tables(t)) + 1)
           /\ page0'[u] \in NthFree(1) /\ \A s \in Task : s # u => page0'[s] = page0[s]
           /\ \A f \in Frame : mem_map'[f] =
                 IF f = page0'[u] \/ \E k \in Tables(t) : Table(Tables(t), k) = f THEN 1
                 ELSE mem_map[f] + Cardinality({k \in Page : pte[t][k].frame = f})
           /\ \A k \in Page : dir'[u][k] = IF k \in Tables(t) THEN Table(Tables(t), k) ELSE NONE
           /\ \A s \in Task, k \in Page : s # u => dir'[s][k] = dir[s][k]
           /\ \A s \in Task, k \in Page : s \notin {t, u} => pte'[s][k] = pte[s][k]
           /\ \A k \in Page : /\ pte'[t][k].frame = pte[t][k].frame /\ ~pte'[t][k].w
                              /\ pte'[u][k].frame = pte[t][k].frame /\ ~pte'[u][k].w
           /\ pte' \in [Task -> [Page -> Entry]]
           /\ hold' = hold
<1>1. status[t] = "run" /\ status[u] = "free" /\ t # u /\ hold' = hold
  BY DEF sys_fork
<1>2. PICK K : K = Tables(t)
  OBVIOUS
<1>3. PICK p \in NthFree(1) : page0' = [page0 EXCEPT ![u] = p]
  BY DEF sys_fork
<1>4. page0'[u] \in NthFree(1) /\ \A s \in Task : s # u => page0'[s] = page0[s]
  BY <1>3 DEF Typed
<1>5. mem_map' = [f \in Frame |->
               IF f = page0'[u] \/ \E k \in K : Table(K, k) = f THEN 1
               ELSE mem_map[f] + Cardinality({k \in Page : pte[t][k].frame = f})]
  BY <1>2 DEF sys_fork, Table
<1>6. dir' = [dir EXCEPT ![u] = [k \in Page |-> IF k \in K THEN Table(K, k) ELSE NONE]]
  BY <1>2 DEF sys_fork, Table
<1>7. PICK ro : ro = ReadOnly(t, K)
  OBVIOUS
<1>8. pte' = [pte EXCEPT ![t] = ro, ![u] = [k \in Page |-> [ro[k] EXCEPT !.w = FALSE]]]
  BY <1>2, <1>7 DEF sys_fork
<1>9. \A k \in Page : ro[k] \in Entry /\ ro[k].frame = pte[t][k].frame /\ ~ro[k].w
  <2> TAKE k \in Page
  <2>1. pte[t][k] \in Entry
    BY DEF Typed
  <2>2. ro[k] = IF k \in K /\ Present(t, k) THEN [pte[t][k] EXCEPT !.w = FALSE] ELSE pte[t][k]
    BY <1>7 DEF ReadOnly
  <2>3. CASE Present(t, k)
    <3>1. k \in K
      BY <1>2, <2>3 DEF Places, Placed, Tables
    <3> QED BY <2>1, <2>2, <2>3, <3>1 DEF Entry
  <2>4. CASE ~Present(t, k)
    <3>1. ~pte[t][k].w
      BY <2>4, FrameIs DEF Places, Placed, Present
    <3> QED BY <2>1, <2>2, <2>4, <3>1
  <2> QED BY <2>3, <2>4
<1>10. ro \in [Page -> Entry]
  BY <1>7, <1>9 DEF ReadOnly
<1>11. PICK cow : cow = [k \in Page |-> [ro[k] EXCEPT !.w = FALSE]]
  OBVIOUS
<1>12. /\ cow \in [Page -> Entry]
       /\ \A k \in Page : cow[k].frame = pte[t][k].frame /\ ~cow[k].w
  BY <1>9, <1>11 DEF Entry
<1>13. pte' = [pte EXCEPT ![t] = ro, ![u] = cow]
  BY <1>8, <1>11
<1>14. /\ pte'[t] = ro /\ pte'[u] = cow
       /\ \A s \in Task : s \notin {t, u} => pte'[s] = pte[s]
       /\ pte' \in [Task -> [Page -> Entry]]
  BY <1>1, <1>10, <1>12, <1>13 DEF Typed
<1>15. Enough(Cardinality(K) + 1)
  BY <1>2 DEF sys_fork
<1>16. /\ \A k \in Page : dir'[u][k] = IF k \in K THEN Table(K, k) ELSE NONE
       /\ \A s \in Task, k \in Page : s # u => dir'[s][k] = dir[s][k]
  BY <1>6 DEF Typed
<1> QED BY <1>1, <1>2, <1>4, <1>5, <1>9, <1>12, <1>14, <1>15, <1>16

\* The child's task page and page tables are taken, then the pages shared.
LEMMA ForkCounts ==
    ASSUME Typed, Places, Counted, NEW t \in Task, NEW u \in Task, sys_fork(t, u)
    PROVE  Counted'
<1>1. PICK K \in SUBSET Page : K = Tables(t)
  BY DEF Tables
<1>2. PICK z, D : z \in Ref /\ z = <<u, 0, "page0">> /\ D = Row(u, "dir") \cup {z}
  BY RefIs
<1>3. PICK T, V, U : /\ T = Target(pte, dir, page0, hold)
                     /\ V = Target(pte, dir', page0', hold)
                     /\ U = Target(pte', dir', page0', hold')
  OBVIOUS
<1>4. PICK map : map = [f \in Frame |->
                          IF f = page0'[u] \/ \E k \in K : Table(K, k) = f THEN 1 ELSE mem_map[f]]
  OBVIOUS
<1>5. /\ page0'[u] \in Frame /\ mem_map[page0'[u]] = 0
      /\ \A k \in K : Table(K, k) \in Frame /\ mem_map[Table(K, k)] = 0 /\ Table(K, k) # page0'[u]
      /\ \A j, k \in K : Table(K, j) = Table(K, k) => j = k
  BY <1>1, ForkDoes, TablesAreFree, NthFreeIs
<1>6. /\ \A k \in Page : dir'[u][k] = IF k \in K THEN Table(K, k) ELSE NONE
      /\ \A s \in Task, k \in Page : s # u => dir'[s][k] = dir[s][k]
      /\ \A s \in Task : s # u => page0'[s] = page0[s]
  BY <1>1, ForkDoes
<1>7. D \subseteq Ref
  BY <1>2, RowIn
<1>8. Same(D, T, V)
  <2>1. \A s \in Task, k \in Page : <<s, k, "dir">> \notin D => dir'[s][k] = dir[s][k]
    BY <1>2, <1>6 DEF Row
  <2>2. \A s \in Task : <<s, 0, "page0">> \notin D => page0'[s] = page0[s]
    BY <1>2, <1>6
  <2> QED BY <1>3, <1>7, <2>1, <2>2, SameTargets
<1>9. \A r \in D : \/ r = z
                   \/ \E k \in Page : r = <<u, k, "dir">>
  BY <1>2 DEF Row
<1>10. /\ T[z] = page0[u] /\ V[z] = page0'[u]
       /\ \A k \in Page : T[<<u, k, "dir">>] = dir[u][k] /\ V[<<u, k, "dir">>] = dir'[u][k]
  <2>1. T[z] = page0[u] /\ V[z] = page0'[u]
    BY <1>2, <1>3 DEF Target
  <2>2. Points(T, pte, dir, page0, hold) /\ Points(V, pte, dir', page0', hold)
    BY <1>3, TargetPoints
  <2>3. \A k \in Page : T[<<u, k, "dir">>] = dir[u][k] /\ V[<<u, k, "dir">>] = dir'[u][k]
    BY <2>2 DEF Points
  <2> QED BY <2>1, <2>3
<1>11. \A r \in D : T[r] \notin Frame
  <2>1. page0[u] \notin Frame /\ \A k \in Page : dir[u][k] = NONE
    BY ForkDoes DEF Places, Placed, HasTable
  <2> QED BY <1>9, <1>10, <2>1, FrameIs
<1>12. \A r \in D : V[r] \in Frame => mem_map[V[r]] = 0
  BY <1>5, <1>6, <1>9, <1>10, FrameIs
<1>13. ASSUME NEW r \in D, NEW s \in D, V[r] \in Frame, V[r] = V[s] PROVE r = s
  <2>1. CASE r = z /\ s = z
    BY <2>1
  <2>2. CASE r = z /\ s # z
    <3>1. PICK k \in Page : s = <<u, k, "dir">>
      BY <1>9, <2>2
    <3>2. k \in K /\ V[s] = Table(K, k)
      BY <1>6, <1>10, <1>13, <3>1, FrameIs
    <3> QED BY <1>5, <1>10, <1>13, <2>2, <3>2
  <2>3. CASE r # z /\ s = z
    <3>1. PICK k \in Page : r = <<u, k, "dir">>
      BY <1>9, <2>3
    <3>2. k \in K /\ V[r] = Table(K, k)
      BY <1>6, <1>10, <1>13, <3>1, FrameIs
    <3> QED BY <1>5, <1>10, <1>13, <2>3, <3>2
  <2>4. CASE r # z /\ s # z
    <3>1. PICK j \in Page : r = <<u, j, "dir">>
      BY <1>9, <2>4
    <3>2. PICK k \in Page : s = <<u, k, "dir">>
      BY <1>9, <2>4
    <3>3. j \in K /\ V[r] = Table(K, j)
      BY <1>6, <1>10, <1>13, <3>1, FrameIs
    <3>4. k \in K /\ V[s] = Table(K, k)
      BY <1>6, <1>10, <1>13, <3>2, FrameIs
    <3> QED BY <1>5, <1>13, <3>1, <3>2, <3>3, <3>4
  <2> QED BY <2>1, <2>2, <2>3, <2>4
<1>14. \A g \in Frame : (\E r \in D : V[r] = g) <=> g = page0'[u] \/ \E k \in K : Table(K, k) = g
  <2> TAKE g \in Frame
  <2>1. ASSUME NEW r \in D, V[r] = g PROVE g = page0'[u] \/ \E k \in K : Table(K, k) = g
    <3>1. CASE r = z
      BY <1>10, <2>1, <3>1
    <3>2. CASE r # z
      <4>1. PICK k \in Page : r = <<u, k, "dir">>
        BY <1>9, <2>1, <3>2
      <4> QED BY <1>6, <1>10, <2>1, <4>1, FrameIs
    <3> QED BY <3>1, <3>2
  <2>2. ASSUME g = page0'[u] PROVE \E r \in D : V[r] = g
    BY <1>2, <1>10, <2>2
  <2>3. ASSUME NEW k \in K, Table(K, k) = g PROVE \E r \in D : V[r] = g
    <3>1. <<u, k, "dir">> \in D
      BY <1>2 DEF Row
    <3>2. V[<<u, k, "dir">>] = g
      BY <1>6, <1>10, <2>3
    <3> QED BY <3>1, <3>2
  <2> QED BY <2>1, <2>2, <2>3
<1>15. Good(V, Hard(pte), map)
  <2>1. \A g \in Frame : (\E r \in D : V[r] = g) => map[g] = 1
    BY <1>4, <1>14
  <2>2. \A g \in Frame : (\A r \in D : V[r] # g) => map[g] = mem_map[g]
    BY <1>4, <1>14
  <2>3. Good(T, Hard(pte), mem_map)
    BY <1>3 DEF Counted
  <2> QED BY <1>8, <1>11, <1>12, <1>13, <2>1, <2>2, <2>3, TakeAll
<1>16. \A f \in Frame : mem_map'[f] =
          IF f = page0'[u] \/ \E k \in K : Table(K, k) = f THEN 1
          ELSE mem_map[f] + Cardinality({k \in Page : pte[t][k].frame = f})
  <2>1. \A f \in Frame : mem_map'[f] =
          IF f = page0'[u] \/ \E k \in Tables(t) : Table(Tables(t), k) = f THEN 1
          ELSE mem_map[f] + Cardinality({k \in Page : pte[t][k].frame = f})
    BY ForkDoes, ZenonT(40)
  <2> QED BY <1>1, <2>1
<1> QED
  <2>1. PICK E, y : E = Row(u, "pte") /\ y = [r \in E |-> <<t, r[2], "pte">>]
    OBVIOUS
  <2>2. /\ t # u /\ hold' = hold
        /\ \A s \in Task, k \in Page : s \notin {t, u} => pte'[s][k] = pte[s][k]
        /\ \A k \in Page : /\ pte'[t][k].frame = pte[t][k].frame /\ ~pte'[t][k].w
                           /\ pte'[u][k].frame = pte[t][k].frame /\ ~pte'[u][k].w
    BY ForkDoes
  <2>3. E \subseteq Ref /\ \A r \in E : \E k \in Page : r = <<u, k, "pte">> /\ y[r] = <<t, k, "pte">>
    <3>1. E \subseteq Ref
      BY <2>1, RowIn
    <3>2. \A r \in E : \E k \in Page : r = <<u, k, "pte">> /\ y[r] = <<t, k, "pte">>
      BY <2>1 DEF Row
    <3> QED BY <3>1, <3>2
  <2>4. Same(E, V, U)
    <3>1. \A s \in Task, k \in Page : <<s, k, "pte">> \notin E => pte'[s][k].frame = pte[s][k].frame
      BY <2>1, <2>2 DEF Row
    <3> QED BY <1>3, <2>2, <2>3, <3>1, SameTargets
  <2>5. \A k \in Page : /\ V[<<u, k, "pte">>] = pte[u][k].frame
                        /\ V[<<t, k, "pte">>] = pte[t][k].frame
                        /\ U[<<u, k, "pte">>] = pte'[u][k].frame
    <3>1. Points(V, pte, dir', page0', hold) /\ Points(U, pte', dir', page0', hold')
      BY <1>3, TargetPoints
    <3> QED BY <3>1 DEF Points
  <2>6. \A r \in E : V[r] \notin Frame
    <3>1. \A k \in Page : pte[u][k].frame = NONE
      BY ForkDoes DEF Places, Placed, Present
    <3> QED BY <2>3, <2>5, <3>1, FrameIs
  <2>7. \A r \in E : y[r] \in Ref /\ y[r] \notin E
    BY <2>1, <2>2, <2>3, RefIs DEF Row
  <2>8. \A r \in E : U[r] = V[y[r]]
    BY <2>2, <2>3, <2>5
  <2>9. \A r \in E : r \notin Hard(pte') /\ y[r] \notin Hard(pte')
    <3>1. \A s \in Task, k \in Page : <<s, k, "pte">> \in Hard(pte') <=> pte'[s][k].w
      BY HardIs
    <3>2. \A k \in Page : <<u, k, "pte">> \notin Hard(pte') /\ <<t, k, "pte">> \notin Hard(pte')
      BY <2>2, <3>1
    <3> QED BY <2>3, <3>2
  <2>10. \A r \in Hard(pte') : r \in Hard(pte)
    <3>1. \A s \in Task, j \in Page : pte'[s][j].w => pte[s][j].w \/ <<s, j, "pte">> \in {}
      BY <2>2
    <3> QED BY <3>1, HardGrows
  <2>11. ASSUME NEW g \in Frame PROVE mem_map'[g] = map[g] + Cardinality(Of(E, U, g))
    <3>1. PICK S : S = {k \in Page : pte[t][k].frame = g}
      OBVIOUS
    <3>2. {k \in Page : U[<<u, k, "pte">>] = g} = S
      BY <2>2, <2>5, <3>1
    <3>3. Cardinality(Of(E, U, g)) = Cardinality(S)
      BY <2>1, <3>2, RowCount
    <3>4. CASE g = page0'[u] \/ \E k \in K : Table(K, k) = g
      <4>1. mem_map'[g] = 1 /\ map[g] = 1
        BY <1>4, <1>16, <3>4
      <4>2. mem_map[g] = 0
        BY <1>5, <3>4
      <4>3. \A r \in Ref : T[r] # g
        <5>1. Good(T, Hard(pte), mem_map)
          BY <1>3 DEF Counted
        <5> QED BY <4>2, <5>1, FreeIsFree
      <4>4. S = {}
        <5>1. Points(T, pte, dir, page0, hold)
          BY <1>3, TargetPoints
        <5>2. \A k \in Page : T[<<t, k, "pte">>] = pte[t][k].frame /\ <<t, k, "pte">> \in Ref
          BY <5>1, RefIs DEF Points
        <5>3. \A k \in Page : pte[t][k].frame # g
          BY <4>3, <5>2
        <5> QED BY <3>1, <5>3
      <4>5. Cardinality(S) = 0
        BY <4>4, FS_EmptySet
      <4> QED BY <3>3, <4>1, <4>5
    <3>5. CASE ~(g = page0'[u] \/ \E k \in K : Table(K, k) = g)
      <4>1. mem_map'[g] = mem_map[g] + Cardinality(S)
        BY <1>16, <3>1, <3>5
      <4>2. map[g] = mem_map[g]
        BY <1>4, <3>5
      <4> QED BY <3>3, <4>1, <4>2
    <3> QED BY <3>4, <3>5
  <2>12. Good(U, Hard(pte'), mem_map')
    BY <1>15, <2>4, <2>6, <2>7, <2>8, <2>9, <2>10, <2>11, ShareAll
  <2> QED BY <1>3, <2>12 DEF Counted

-----------------------------------------------------------------------------
\* Types and places.  A task whose entries keep their frames and whose status
\* and hold stay is where it was.
LEMMA StillPlaced ==
    ASSUME NEW s \in Task, Placed(s), page0'[s] = page0[s], hold'[s] = hold[s],
           status'[s] = status[s], \A k \in Page : dir'[s][k] = dir[s][k],
           \A k \in Page : pte'[s][k].frame = pte[s][k].frame /\ (pte'[s][k].w => pte[s][k].w)
    PROVE  Placed(s)'
BY DEF Placed, Loading, Present, HasTable, InTransit

LEMMA CountsAreNat ==
    ASSUME Counted', mem_map' = [f \in Frame |-> mem_map'[f]]
    PROVE  mem_map' \in [Frame -> Nat]
<1>1. \A f \in Frame : mem_map'[f] \in Nat
  BY DEF Counted, Good
<1> QED BY <1>1

\* Bookkeeping of a step of t in which no other task's entries change.
LEMMA OthersPlaced ==
    ASSUME Typed, Places, NEW t \in Task,
           \A s \in Task : s # t => /\ page0'[s] = page0[s] /\ hold'[s] = hold[s]
                                    /\ status'[s] = status[s] /\ dir'[s] = dir[s]
                                    /\ pte'[s] = pte[s],
           Placed(t)'
    PROVE  Places'
<1>1. \A s \in Task : s # t => Placed(s)'
  BY StillPlaced DEF Places
<1> QED BY <1>1 DEF Places

LEMMA ExitStep ==
    ASSUME Typed, Places, Counted, NEW t \in Task, NEW extra, do_exit(t, extra),
           status[t] # "free", Counted'
    PROVE  Typed' /\ Places'
<1>1. /\ mem_map' = [f \in Frame |-> mem_map[f] - Refs(t, f) - (IF f \in extra THEN 1 ELSE 0)]
      /\ content' = Cleared(mem_map')
      /\ dir' = [dir EXCEPT ![t] = [k \in Page |-> NONE]]
      /\ pte' = [pte EXCEPT ![t] = [k \in Page |-> NotPresent]]
      /\ exe' = [exe EXCEPT ![t] = NoExe]
      /\ status' = [status EXCEPT ![t] = "zombie"]
      /\ hold' = [hold EXCEPT ![t] = NoHold] /\ page0' = page0
  BY DEF do_exit, FreePageTables
<1>2. mem_map' \in [Frame -> Nat]
  BY <1>1, CountsAreNat
<1>3. content' \in [Frame -> Val]
  BY <1>1 DEF Typed, Cleared, Val
<1>4. dir' \in [Task -> [Page -> Frame \cup {NONE}]]
  BY <1>1 DEF Typed
<1>5. pte' \in [Task -> [Page -> Entry]]
  <2>1. NotPresent \in Entry
    BY DEF NotPresent, Entry
  <2> QED BY <1>1, <2>1 DEF Typed
<1>6. /\ exe' \in [Task -> Exes \cup {NoExe}] /\ status' \in [Task -> Status]
      /\ hold' \in [Task -> [page : Page \cup {0}, frame : Frame \cup {NONE}]]
      /\ page0' \in [Task -> Frame \cup {NONE}]
  BY <1>1 DEF Typed, Status, NoHold
<1>7. /\ page0'[t] = page0[t] /\ hold'[t] = NoHold /\ status'[t] = "zombie"
      /\ \A k \in Page : dir'[t][k] = NONE /\ pte'[t][k] = NotPresent
  BY <1>1 DEF Typed
<1>8. Placed(t)'
  BY <1>7, FrameIs DEF Places, Placed, Present, HasTable, Loading, InTransit, NoHold, NotPresent
<1>9. \A s \in Task : s # t => /\ page0'[s] = page0[s] /\ hold'[s] = hold[s]
                               /\ status'[s] = status[s] /\ dir'[s] = dir[s] /\ pte'[s] = pte[s]
  BY <1>1 DEF Typed
<1>10. Places'
  BY <1>8, <1>9, OthersPlaced
<1> QED BY <1>2, <1>3, <1>4, <1>5, <1>6, <1>10 DEF Typed

LEMMA ReleaseStep ==
    ASSUME Typed, Places, Counted, NEW t \in Task, release(t), Counted'
    PROVE  Typed' /\ Places'
<1>1. /\ mem_map' = [mem_map EXCEPT ![page0[t]] = @ - 1]
      /\ page0' = [page0 EXCEPT ![t] = NONE]
      /\ status' = [status EXCEPT ![t] = "free"] /\ status[t] = "zombie"
      /\ dir' = dir /\ pte' = pte /\ hold' = hold /\ content' = content /\ exe' = exe
  BY DEF release
<1>2. mem_map' \in [Frame -> Nat]
  <2>1. mem_map' = [f \in Frame |-> mem_map'[f]]
    BY <1>1 DEF Typed
  <2> QED BY <2>1, CountsAreNat
<1>3. page0' \in [Task -> Frame \cup {NONE}] /\ status' \in [Task -> Status]
  BY <1>1 DEF Typed, Status
<1>4. page0'[t] = NONE /\ status'[t] = "free"
  BY <1>1 DEF Typed
<1>5. Placed(t)'
  BY <1>1, <1>4, FrameIs DEF Places, Placed, Present, HasTable, Loading, InTransit
<1>6. \A s \in Task : s # t => /\ page0'[s] = page0[s] /\ hold'[s] = hold[s]
                               /\ status'[s] = status[s] /\ dir'[s] = dir[s] /\ pte'[s] = pte[s]
  BY <1>1 DEF Typed
<1>7. Places'
  BY <1>5, <1>6, OthersPlaced
<1> QED BY <1>1, <1>2, <1>3, <1>7 DEF Typed

LEMMA EntryPut ==
    ASSUME Typed, NEW t \in Task, NEW k \in Page, NEW e \in Entry, pte' = [pte EXCEPT ![t][k] = e]
    PROVE  /\ pte' \in [Task -> [Page -> Entry]] /\ pte'[t][k] = e
           /\ \A s \in Task, j \in Page : s # t \/ j # k => pte'[s][j] = pte[s][j]
           /\ \A s \in Task : s # t => pte'[s] = pte[s]
BY DEF Typed

LEMMA TablePut ==
    ASSUME Typed, NEW t \in Task, NEW k \in Page, NEW f \in Frame, dir' = [dir EXCEPT ![t][k] = f]
    PROVE  /\ dir' \in [Task -> [Page -> Frame \cup {NONE}]] /\ dir'[t][k] = f
           /\ \A s \in Task, j \in Page : s # t \/ j # k => dir'[s][j] = dir[s][j]
           /\ \A s \in Task : s # t => dir'[s] = dir[s]
BY DEF Typed

LEMMA ForkStep ==
    ASSUME Typed, Places, Counted, NEW t \in Task, NEW u \in Task, sys_fork(t, u), Counted'
    PROVE  Typed' /\ Places'
<1>1. PICK K \in SUBSET Page : K = Tables(t)
  BY DEF Tables
<1>2. /\ t # u /\ status[t] = "run" /\ status[u] = "free" /\ hold' = hold
      /\ page0'[u] \in Frame /\ \A s \in Task : s # u => page0'[s] = page0[s]
      /\ \A k \in K : Table(K, k) \in Frame
      /\ \A k \in Page : dir'[u][k] = IF k \in K THEN Table(K, k) ELSE NONE
      /\ \A s \in Task, k \in Page : s # u => dir'[s][k] = dir[s][k]
  BY <1>1, ForkDoes, TablesAreFree, NthFreeIs
<1>3. /\ \A s \in Task, k \in Page : s \notin {t, u} => pte'[s][k] = pte[s][k]
      /\ \A k \in Page : /\ pte'[t][k].frame = pte[t][k].frame /\ ~pte'[t][k].w
                         /\ pte'[u][k].frame = pte[t][k].frame /\ ~pte'[u][k].w
      /\ pte' \in [Task -> [Page -> Entry]]
  BY ForkDoes
<1>4. /\ exe' = [exe EXCEPT ![u] = exe[t]] /\ status' = [status EXCEPT ![u] = "run"]
      /\ content' = content
  BY DEF sys_fork
<1>5. mem_map' \in [Frame -> Nat]
  <2>1. PICK F : mem_map' = [f \in Frame |-> F[f]]
    <3>1. PICK F : F = [f \in Frame |->
               IF f = page0'[u] \/ \E k \in Tables(t) : Table(Tables(t), k) = f THEN 1
               ELSE mem_map[f] + Cardinality({k \in Page : pte[t][k].frame = f})]
      OBVIOUS
    <3>2. mem_map' = F
      BY <3>1 DEF sys_fork, Table
    <3>3. F = [f \in Frame |-> F[f]]
      BY <3>1
    <3> QED BY <3>2, <3>3
  <2>2. mem_map' = [f \in Frame |-> mem_map'[f]]
    BY <2>1
  <2> QED BY <2>2, CountsAreNat
<1>6. page0' \in [Task -> Frame \cup {NONE}]
  <2>1. PICK p : page0' = [page0 EXCEPT ![u] = p]
    BY DEF sys_fork
  <2>2. p \in Frame
    BY <1>2, <2>1 DEF Typed
  <2> QED BY <2>1, <2>2 DEF Typed
<1>7. dir' \in [Task -> [Page -> Frame \cup {NONE}]]
  <2>0. PICK row : row = [k \in Page |-> IF k \in K THEN Table(K, k) ELSE NONE]
    OBVIOUS
  <2>1. dir' = [dir EXCEPT ![u] = row] /\ row = [k \in Page |-> IF k \in K THEN Table(K, k) ELSE NONE]
    BY <1>1, <2>0 DEF sys_fork, Table
  <2>2. row \in [Page -> Frame \cup {NONE}]
    BY <1>2, <2>1
  <2> QED BY <2>1, <2>2 DEF Typed
<1>8. /\ exe' \in [Task -> Exes \cup {NoExe}] /\ status' \in [Task -> Status]
      /\ status'[u] = "run" /\ \A s \in Task : s # u => status'[s] = status[s]
  BY <1>4 DEF Typed, Status
<1>9. \A s \in Task : s # u => Placed(s)'
  <2> SUFFICES ASSUME NEW s \in Task, s # u PROVE Placed(s)'
    OBVIOUS
  <2>1. \A k \in Page : pte'[s][k].frame = pte[s][k].frame /\ (pte'[s][k].w => pte[s][k].w)
    BY <1>3
  <2>2. page0'[s] = page0[s] /\ hold'[s] = hold[s] /\ status'[s] = status[s]
    BY <1>2, <1>8
  <2>3. \A k \in Page : dir'[s][k] = dir[s][k]
    BY <1>2
  <2> QED BY <2>1, <2>2, <2>3, StillPlaced DEF Places
<1>10. Placed(u)'
  <2>1. \A k \in Page : pte'[u][k].frame # NONE => dir'[u][k] # NONE
    <3> SUFFICES ASSUME NEW k \in Page, pte[t][k].frame # NONE PROVE dir'[u][k] # NONE
      BY <1>3
    <3>1. k \in K
      BY <1>1 DEF Places, Placed, Present, Tables
    <3> QED BY <1>2, <3>1, FrameIs
  <2>2. hold'[u].frame \notin Frame
    BY <1>2 DEF Places, Placed, InTransit
  <2> QED BY <1>2, <1>3, <1>8, <2>1, <2>2 DEF Placed, Present, HasTable, Loading, InTransit
<1>11. Places'
  BY <1>9, <1>10 DEF Places
<1> QED BY <1>2, <1>3, <1>4, <1>5, <1>6, <1>7, <1>8, <1>11 DEF Typed

\* Entries become read only, at most.
LEMMA ForkFailsStep ==
    ASSUME Typed, Places, Counted, NEW t \in Task, NEW u \in Task, fork_fails(t, u)
    PROVE  Typed' /\ Places' /\ Counted'
<1>1. PICK K : pte' = [pte EXCEPT ![t] = ReadOnly(t, K)]
  BY DEF fork_fails
<1>2. /\ mem_map' = mem_map /\ content' = content /\ dir' = dir /\ page0' = page0
      /\ exe' = exe /\ status' = status /\ hold' = hold
  BY DEF fork_fails
<1>3. PICK ro : ro = ReadOnly(t, K)
  OBVIOUS
<1>4. \A k \in Page : /\ ro[k] \in Entry /\ ro[k].frame = pte[t][k].frame
                      /\ (ro[k].w => pte[t][k].w)
  <2> TAKE k \in Page
  <2>1. pte[t][k] \in Entry
    BY DEF Typed
  <2>2. ro[k] = IF k \in K /\ Present(t, k) THEN [pte[t][k] EXCEPT !.w = FALSE] ELSE pte[t][k]
    BY <1>3 DEF ReadOnly
  <2> QED BY <2>1, <2>2 DEF Entry
<1>5. ro \in [Page -> Entry]
  BY <1>3, <1>4 DEF ReadOnly
<1>6. pte' = [pte EXCEPT ![t] = ro]
  BY <1>1, <1>3
<1>7. pte' \in [Task -> [Page -> Entry]]
  BY <1>5, <1>6 DEF Typed
<1>8. \A s \in Task, k \in Page : /\ pte'[s][k].frame = pte[s][k].frame
                                  /\ pte'[s][k].w => pte[s][k].w
  BY <1>4, <1>6 DEF Typed
<1>9. Counted'
  BY <1>2, <1>8, StillCounts
<1>10. \A s \in Task : Placed(s)'
  BY <1>2, <1>8, StillPlaced DEF Places
<1> QED BY <1>2, <1>7, <1>9, <1>10 DEF Typed, Places

\* A fault or an execve puts an entry, and perhaps its page table, into t.
LEMMA PutStep ==
    ASSUME Typed, Places, NEW t \in Task, NEW k \in Page, NEW f \in Frame, NEW first \in Nat,
           NEW map, NEW cont, PutPage(t, k, f, first, map, cont), map = [g \in Frame |-> map[g]]
    PROVE  /\ pte' \in [Task -> [Page -> Entry]]
           /\ dir' \in [Task -> [Page -> Frame \cup {NONE}]]
           /\ mem_map' = [g \in Frame |-> mem_map'[g]]
           /\ \A s \in Task : s # t => dir'[s] = dir[s] /\ pte'[s] = pte[s]
           /\ \A j \in Page : /\ pte'[t][j].frame # NONE => dir'[t][j] # NONE
                              /\ pte'[t][j].w => pte'[t][j].frame \in Frame
<1>1. PICK e : e = [frame |-> f, w |-> TRUE, d |-> FALSE]
  OBVIOUS
<1>2. e \in Entry /\ e.frame = f
  BY <1>1 DEF Entry
<1>3. pte' = [pte EXCEPT ![t][k] = e]
  BY <1>1 DEF PutPage
<1>4. /\ pte' \in [Task -> [Page -> Entry]] /\ pte'[t][k] = e
      /\ \A s \in Task, j \in Page : s # t \/ j # k => pte'[s][j] = pte[s][j]
      /\ \A s \in Task : s # t => pte'[s] = pte[s]
  BY <1>2, <1>3, EntryPut
<1>5. \A j \in Page : /\ j # k => (pte[t][j].frame # NONE => dir[t][j] # NONE)
                      /\ pte'[t][j].w => pte'[t][j].frame \in Frame
  BY <1>2, <1>4 DEF Places, Placed, Present, HasTable
<1>6. CASE HasTable(t, k)
  <2>1. dir' = dir /\ mem_map' = map
    BY <1>6 DEF PutPage
  <2> QED BY <1>4, <1>5, <1>6, <2>1 DEF HasTable, Typed
<1>7. CASE ~HasTable(t, k)
  <2>1. PICK p \in NthFree(first + 1) : dir' = [dir EXCEPT ![t][k] = p] /\ mem_map' = [map EXCEPT ![p] = 1]
    BY <1>7 DEF PutPage
  <2>2. p \in Frame
    BY <2>1, NthFreeIs
  <2>3. /\ dir' \in [Task -> [Page -> Frame \cup {NONE}]] /\ dir'[t][k] = p
        /\ \A s \in Task, j \in Page : s # t \/ j # k => dir'[s][j] = dir[s][j]
        /\ \A s \in Task : s # t => dir'[s] = dir[s]
    BY <2>1, <2>2, TablePut
  <2>4. mem_map' = [g \in Frame |-> mem_map'[g]]
    BY <2>1
  <2> QED BY <1>4, <1>5, <2>2, <2>3, <2>4, FrameIs, ZenonT(40)
<1> QED BY <1>6, <1>7

LEMMA EmptyStep ==
    ASSUME Typed, Places, Counted, NEW t \in Task, NEW k \in Page, get_empty_page(t, k), Counted'
    PROVE  Typed' /\ Places'
<1>1. PICK f \in NthFree(1) :
        PutPage(t, k, f, 1, [mem_map EXCEPT ![f] = 1], [content EXCEPT ![f] = Zero])
  BY DEF get_empty_page
<1>2. f \in Frame
  BY <1>1, NthFreeIs
<1>3. PICK map, cont : map = [mem_map EXCEPT ![f] = 1] /\ cont = [content EXCEPT ![f] = Zero]
  OBVIOUS
<1>4. PutPage(t, k, f, 1, map, cont) /\ map = [g \in Frame |-> map[g]]
  BY <1>1, <1>3 DEF Typed
<1>5. /\ pte' \in [Task -> [Page -> Entry]]
      /\ dir' \in [Task -> [Page -> Frame \cup {NONE}]]
      /\ mem_map' = [g \in Frame |-> mem_map'[g]]
      /\ \A s \in Task : s # t => dir'[s] = dir[s] /\ pte'[s] = pte[s]
      /\ \A j \in Page : /\ pte'[t][j].frame # NONE => dir'[t][j] # NONE
                         /\ pte'[t][j].w => pte'[t][j].frame \in Frame
  BY <1>2, <1>4, PutStep
<1>6. mem_map' \in [Frame -> Nat]
  BY <1>5, CountsAreNat
<1>7. content' \in [Frame -> Val]
  BY <1>1 DEF PutPage, Typed, Val
<1>8. page0' = page0 /\ exe' = exe /\ status' = status /\ hold' = hold
  BY DEF get_empty_page
<1>9. status[t] \in {"run", "write"}
  BY DEF get_empty_page, Faults
<1>10. Placed(t)'
  BY <1>5, <1>8, <1>9 DEF Places, Placed, Present, HasTable, Loading, InTransit
<1>11. Places'
  BY <1>5, <1>8, <1>10, OthersPlaced
<1> QED BY <1>5, <1>6, <1>7, <1>8, <1>11 DEF Typed

LEMMA ShareStep ==
    ASSUME Typed, Places, Counted, NEW t \in Task, NEW k \in Page, share_page(t, k), Counted'
    PROVE  Typed' /\ Places'
<1>1. PICK p \in Highest(Sharers(t, k)) :
        /\ Share(t, k, p)
        /\ LET shared == [mem_map EXCEPT ![pte[p][k].frame] = @ + 1]
           IN  \/ HasTable(t, k) /\ mem_map' = shared /\ UNCHANGED dir
               \/ /\ ~HasTable(t, k)
                  /\ \E q \in NthFree(1) : /\ dir' = [dir EXCEPT ![t][k] = q]
                                           /\ mem_map' = [shared EXCEPT ![q] = 1]
  BY DEF share_page
<1>2. p \in Task /\ p # t /\ pte[p][k].frame \in Frame
  BY <1>1 DEF Highest, Sharers
<1>3. PICK ro : ro = [pte[p][k] EXCEPT !.w = FALSE]
  OBVIOUS
<1>4. ro \in Entry /\ ro.frame = pte[p][k].frame /\ ~ro.w
  <2>1. pte[p][k] \in Entry
    BY <1>2 DEF Typed
  <2> QED BY <1>3, <2>1 DEF Entry
<1>5. pte' = [pte EXCEPT ![p][k] = ro, ![t][k] = ro]
  BY <1>1, <1>3 DEF Share
<1>6. /\ pte' \in [Task -> [Page -> Entry]] /\ pte'[t][k] = ro /\ pte'[p][k] = ro
      /\ \A s \in Task, j \in Page : s \notin {t, p} \/ j # k => pte'[s][j] = pte[s][j]
  BY <1>2, <1>4, <1>5 DEF Typed
<1>7. /\ dir' \in [Task -> [Page -> Frame \cup {NONE}]] /\ dir'[t][k] # NONE
      /\ \A s \in Task, j \in Page : s # t \/ j # k => dir'[s][j] = dir[s][j]
      /\ mem_map' = [g \in Frame |-> mem_map'[g]]
  <2>1. CASE HasTable(t, k)
    <3>1. dir' = dir /\ mem_map' = [mem_map EXCEPT ![pte[p][k].frame] = @ + 1]
      BY <1>1, <2>1
    <3> QED BY <2>1, <3>1 DEF Typed, HasTable
  <2>2. CASE ~HasTable(t, k)
    <3>1. PICK map : map = [mem_map EXCEPT ![pte[p][k].frame] = @ + 1]
      OBVIOUS
    <3>2. PICK q \in NthFree(1) : dir' = [dir EXCEPT ![t][k] = q] /\ mem_map' = [map EXCEPT ![q] = 1]
      BY <1>1, <2>2, <3>1
    <3>3. q \in Frame
      BY <3>2, NthFreeIs
    <3>4. mem_map' = [g \in Frame |-> mem_map'[g]]
      BY <3>1, <3>2 DEF Typed
    <3>5. /\ dir' \in [Task -> [Page -> Frame \cup {NONE}]] /\ dir'[t][k] = q
          /\ \A s \in Task, j \in Page : s # t \/ j # k => dir'[s][j] = dir[s][j]
      BY <3>2, <3>3 DEF Typed
    <3> QED BY <3>3, <3>4, <3>5, FrameIs
  <2> QED BY <2>1, <2>2
<1>8. mem_map' \in [Frame -> Nat]
  BY <1>7, CountsAreNat
<1>9. content' = content /\ page0' = page0 /\ exe' = exe /\ status' = status /\ hold' = hold
  BY DEF share_page
<1>10. ASSUME NEW s \in Task, s # t PROVE Placed(s)'
  <2>1. \A j \in Page : pte'[s][j].frame = pte[s][j].frame /\ (pte'[s][j].w => pte[s][j].w)
    BY <1>4, <1>6, <1>10
  <2>2. \A j \in Page : dir'[s][j] = dir[s][j]
    BY <1>7, <1>10
  <2> QED BY <1>9, <2>1, <2>2, StillPlaced DEF Places
<1>11. status[t] \in {"run", "write"}
  BY DEF share_page, Faults
<1>12. \A j \in Page : /\ pte'[t][j].frame # NONE => dir'[t][j] # NONE
                       /\ pte'[t][j].w => pte'[t][j].frame \in Frame
  BY <1>4, <1>6, <1>7 DEF Places, Placed, Present, HasTable
<1>13. Placed(t)'
  BY <1>9, <1>11, <1>12 DEF Places, Placed, Present, HasTable, Loading, InTransit
<1>14. Places'
  BY <1>10, <1>13 DEF Places
<1> QED BY <1>6, <1>7, <1>8, <1>9, <1>14 DEF Typed

LEMMA LoadStartsStep ==
    ASSUME Typed, Places, Counted, NEW t \in Task, NEW k \in Page, load_starts(t, k)
    PROVE  Typed' /\ Places' /\ Counted'
<1>1. PICK f \in NthFree(1) : /\ mem_map' = [mem_map EXCEPT ![f] = 1]
                              /\ hold' = [hold EXCEPT ![t] = [page |-> k, frame |-> f]]
  BY DEF load_starts
<1>2. f \in Frame /\ mem_map[f] = 0
  BY <1>1, NthFreeIs
<1>3. /\ status' = [status EXCEPT ![t] = IF @ = "run" THEN "load" ELSE "write_load"]
      /\ content' = content /\ dir' = dir /\ pte' = pte /\ page0' = page0 /\ exe' = exe
  BY DEF load_starts
<1>4. status[t] \in {"run", "write"} /\ pte[t][k].frame = NONE
  BY DEF load_starts, Faults, Present
<1>5. hold[t].frame \notin Frame
  BY <1>4 DEF Places, Placed, InTransit
<1>6. Counted'
  BY <1>1, <1>2, <1>3, <1>5, HoldFrame
<1>7. mem_map' \in [Frame -> Nat]
  BY <1>1 DEF Typed
<1>8. /\ hold' \in [Task -> [page : Page \cup {0}, frame : Frame \cup {NONE}]]
      /\ hold'[t] = [page |-> k, frame |-> f]
      /\ \A s \in Task : s # t => hold'[s] = hold[s]
  BY <1>1, <1>2 DEF Typed
<1>9. /\ status' \in [Task -> Status] /\ status'[t] \in {"load", "write_load"}
      /\ \A s \in Task : s # t => status'[s] = status[s]
  BY <1>3 DEF Typed, Status
<1>10. Placed(t)'
  BY <1>2, <1>3, <1>4, <1>8, <1>9 DEF Places, Placed, Present, HasTable, Loading, InTransit
<1>11. Places'
  BY <1>3, <1>8, <1>9, <1>10, OthersPlaced
<1> QED BY <1>3, <1>6, <1>7, <1>8, <1>9, <1>11 DEF Typed

LEMMA LoadEndsStep ==
    ASSUME Typed, Places, Counted, NEW t \in Task, load_ends(t), Counted'
    PROVE  Typed' /\ Places'
<1>1. PICK k \in Page : k = hold[t].page
  BY DEF Places, Placed, load_ends, Loading, InTransit
<1>2. PICK f \in Frame : f = hold[t].frame
  BY DEF Places, Placed, load_ends, Loading, InTransit
<1>3. PICK cont : cont = [content EXCEPT ![f] = Image(exe[t], k)]
  OBVIOUS
<1>4. /\ PutPage(t, k, f, 0, mem_map, cont) /\ page0' = page0 /\ exe' = exe
      /\ status' = [status EXCEPT ![t] = IF @ = "load" THEN "run" ELSE "write"]
      /\ hold' = [hold EXCEPT ![t] = IF status[t] = "load" THEN NoHold
                                     ELSE [@ EXCEPT !.frame = NONE]]
      /\ status[t] \in {"load", "write_load"}
  BY <1>1, <1>2, <1>3 DEF load_ends, Loading
<1>5. mem_map = [g \in Frame |-> mem_map[g]]
  BY DEF Typed
<1>6. /\ pte' \in [Task -> [Page -> Entry]]
      /\ dir' \in [Task -> [Page -> Frame \cup {NONE}]]
      /\ mem_map' = [g \in Frame |-> mem_map'[g]]
      /\ \A s \in Task : s # t => dir'[s] = dir[s] /\ pte'[s] = pte[s]
      /\ \A j \in Page : /\ pte'[t][j].frame # NONE => dir'[t][j] # NONE
                         /\ pte'[t][j].w => pte'[t][j].frame \in Frame
  BY <1>4, <1>5, PutStep
<1>7. mem_map' \in [Frame -> Nat]
  BY <1>6, CountsAreNat
<1>8. content' \in [Frame -> Val]
  <2>1. Image(exe[t], k) \in Val
    BY DEF Typed, Image, Val, Zero
  <2>2. content' = cont
    BY <1>4 DEF PutPage
  <2> QED BY <1>3, <2>1, <2>2 DEF Typed
<1>9. /\ status' \in [Task -> Status] /\ status'[t] = (IF status[t] = "load" THEN "run" ELSE "write")
      /\ \A s \in Task : s # t => status'[s] = status[s]
  BY <1>4 DEF Typed, Status
<1>10. /\ hold' \in [Task -> [page : Page \cup {0}, frame : Frame \cup {NONE}]]
       /\ hold'[t].frame = NONE /\ (status[t] # "load" => hold'[t].page = k)
       /\ \A s \in Task : s # t => hold'[s] = hold[s]
  <2>1. PICK h : h = IF status[t] = "load" THEN NoHold ELSE [hold[t] EXCEPT !.frame = NONE]
    OBVIOUS
  <2>2. hold[t] \in [page : Page \cup {0}, frame : Frame \cup {NONE}]
    BY DEF Typed
  <2>3. /\ h \in [page : Page \cup {0}, frame : Frame \cup {NONE}]
        /\ h.frame = NONE /\ (status[t] # "load" => h.page = k)
    BY <1>1, <2>1, <2>2 DEF NoHold
  <2>4. hold' = [hold EXCEPT ![t] = h]
    BY <1>4, <2>1
  <2> QED BY <2>3, <2>4 DEF Typed
<1>11. Placed(t)'
  BY <1>4, <1>6, <1>9, <1>10, FrameIs DEF Places, Placed, Present, HasTable, Loading, InTransit
<1>12. Places'
  BY <1>4, <1>6, <1>9, <1>10, <1>11, OthersPlaced
<1> QED BY <1>4, <1>6, <1>7, <1>8, <1>9, <1>10, <1>12 DEF Typed

\* un_wp_page, for its two callers.
LEMMA CopyStep ==
    ASSUME Typed, Places, NEW t \in Task, NEW k \in Page, un_wp_page(t, k), Present(t, k)
    PROVE  /\ pte' \in [Task -> [Page -> Entry]] /\ content' \in [Frame -> Val]
           /\ mem_map' = [g \in Frame |-> mem_map'[g]]
           /\ \A s \in Task : s # t => pte'[s] = pte[s]
           /\ \A j \in Page : /\ pte'[t][j].frame # NONE => dir[t][j] # NONE
                              /\ pte'[t][j].w => pte'[t][j].frame \in Frame
<1>1. PICK old : old = pte[t][k].frame
  OBVIOUS
<1>2. pte[t][k] \in Entry /\ dir[t][k] # NONE /\ old \in Frame \cup {LOW}
  BY <1>1 DEF Typed, Places, Placed, Present, HasTable, Entry
<1>3. CASE old \in Single
  <2>1. pte' = [pte EXCEPT ![t][k].w = TRUE] /\ mem_map' = mem_map /\ content' = content
    BY <1>1, <1>3 DEF un_wp_page
  <2>2. PICK e : e = [pte[t][k] EXCEPT !.w = TRUE]
    OBVIOUS
  <2>3. e \in Entry /\ e.frame = old
    BY <1>1, <1>2, <2>2 DEF Entry
  <2>4. pte' = [pte EXCEPT ![t][k] = e]
    BY <2>1, <2>2 DEF Typed
  <2>5. /\ pte' \in [Task -> [Page -> Entry]] /\ pte'[t][k] = e
        /\ \A s \in Task, j \in Page : s # t \/ j # k => pte'[s][j] = pte[s][j]
        /\ \A s \in Task : s # t => pte'[s] = pte[s]
    BY <2>3, <2>4, EntryPut
  <2>6. old \in Frame
    BY <1>3 DEF Single
  <2>7. \A j \in Page : /\ pte'[t][j].frame # NONE => dir[t][j] # NONE
                        /\ pte'[t][j].w => pte'[t][j].frame \in Frame
    BY <1>2, <2>3, <2>5, <2>6 DEF Places, Placed, Present, HasTable
  <2>8. mem_map' = [g \in Frame |-> mem_map'[g]] /\ content' \in [Frame -> Val]
    BY <2>1 DEF Typed
  <2> QED BY <2>5, <2>7, <2>8
<1>4. CASE old \notin Single
  <2>1. PICK f \in NthFree(1) :
          /\ pte' = [pte EXCEPT ![t][k] = [frame |-> f, w |-> TRUE, d |-> FALSE]]
          /\ content' = [content EXCEPT ![f] = IF old = LOW THEN Zero ELSE content[old]]
          /\ mem_map' = [f1 \in Frame |-> IF f1 = f THEN 1
                                          ELSE IF f1 = old THEN mem_map[f1] - 1
                                          ELSE mem_map[f1]]
    BY <1>1, <1>4 DEF un_wp_page
  <2>2. f \in Frame
    BY <2>1, NthFreeIs
  <2>3. PICK e : e = [frame |-> f, w |-> TRUE, d |-> FALSE]
    OBVIOUS
  <2>4. e \in Entry /\ e.frame = f
    BY <2>2, <2>3 DEF Entry
  <2>5. pte' = [pte EXCEPT ![t][k] = e]
    BY <2>1, <2>3
  <2>6. /\ pte' \in [Task -> [Page -> Entry]] /\ pte'[t][k] = e
        /\ \A s \in Task, j \in Page : s # t \/ j # k => pte'[s][j] = pte[s][j]
        /\ \A s \in Task : s # t => pte'[s] = pte[s]
    BY <2>4, <2>5, EntryPut
  <2>7. \A j \in Page : /\ pte'[t][j].frame # NONE => dir[t][j] # NONE
                        /\ pte'[t][j].w => pte'[t][j].frame \in Frame
    BY <1>2, <2>2, <2>4, <2>6 DEF Places, Placed, Present, HasTable
  <2>8. content' \in [Frame -> Val]
    <3>1. (IF old = LOW THEN Zero ELSE content[old]) \in Val
      BY <1>2 DEF Typed, Val
    <3> QED BY <2>1, <3>1 DEF Typed
  <2>9. mem_map' = [g \in Frame |-> mem_map'[g]]
    BY <2>1
  <2> QED BY <2>6, <2>7, <2>8, <2>9
<1> QED BY <1>3, <1>4

LEMMA WpStep ==
    ASSUME Typed, Places, Counted, NEW t \in Task, NEW k \in Page, do_wp_page(t, k)
    PROVE  Typed' /\ Places' /\ Counted'
<1>1. /\ status[t] = "run" /\ Present(t, k) /\ un_wp_page(t, k)
      /\ dir' = dir /\ page0' = page0 /\ exe' = exe /\ status' = status /\ hold' = hold
  BY DEF do_wp_page
<1>2. Counted'
  <2>1. Good(Target(pte', dir, page0, hold), Hard(pte'), mem_map')
    BY <1>1, CopyCounts
  <2> QED BY <1>1, <2>1 DEF Counted
<1>3. /\ pte' \in [Task -> [Page -> Entry]] /\ content' \in [Frame -> Val]
      /\ mem_map' = [g \in Frame |-> mem_map'[g]]
      /\ \A s \in Task : s # t => pte'[s] = pte[s]
      /\ \A j \in Page : /\ pte'[t][j].frame # NONE => dir[t][j] # NONE
                         /\ pte'[t][j].w => pte'[t][j].frame \in Frame
  BY <1>1, CopyStep
<1>4. mem_map' \in [Frame -> Nat]
  BY <1>2, <1>3, CountsAreNat
<1>5. Placed(t)'
  BY <1>1, <1>3 DEF Places, Placed, Present, HasTable, Loading, InTransit
<1>6. Places'
  BY <1>1, <1>3, <1>5, OthersPlaced
<1> QED BY <1>1, <1>2, <1>3, <1>4, <1>6 DEF Typed

LEMMA VerifyStep ==
    ASSUME Typed, Places, Counted, NEW t \in Task, NEW k \in Page, verify_area(t, k)
    PROVE  Typed' /\ Places' /\ Counted'
<1>1. /\ status[t] = "run" /\ status' = [status EXCEPT ![t] = "write"]
      /\ hold' = [hold EXCEPT ![t].page = k]
      /\ dir' = dir /\ page0' = page0 /\ exe' = exe
  BY DEF verify_area
<1>2. /\ hold' \in [Task -> [page : Page \cup {0}, frame : Frame \cup {NONE}]]
      /\ hold'[t].page = k /\ \A s \in Task : hold'[s].frame = hold[s].frame
      /\ \A s \in Task : s # t => hold'[s] = hold[s]
  <2>1. PICK h : h = [hold[t] EXCEPT !.page = k]
    OBVIOUS
  <2>2. hold[t] \in [page : Page \cup {0}, frame : Frame \cup {NONE}]
    BY DEF Typed
  <2>3. h \in [page : Page \cup {0}, frame : Frame \cup {NONE}] /\ h.frame = hold[t].frame /\ h.page = k
    BY <2>1, <2>2
  <2>4. hold' = [hold EXCEPT ![t] = h]
    BY <1>1, <2>1 DEF Typed
  <2> QED BY <2>3, <2>4 DEF Typed
<1>3. /\ status' \in [Task -> Status] /\ status'[t] = "write"
      /\ \A s \in Task : s # t => status'[s] = status[s]
  BY <1>1 DEF Typed, Status
<1>4. Target(pte', dir', page0', hold') = Target(pte', dir, page0, hold)
  BY <1>1, <1>2, RefIs DEF Target
<1>5. /\ Counted' /\ pte' \in [Task -> [Page -> Entry]] /\ content' \in [Frame -> Val]
      /\ mem_map' = [g \in Frame |-> mem_map'[g]]
      /\ \A s \in Task : s # t => pte'[s] = pte[s]
      /\ \A j \in Page : /\ pte'[t][j].frame # NONE => dir[t][j] # NONE
                         /\ pte'[t][j].w => pte'[t][j].frame \in Frame
  <2>1. CASE Present(t, k) /\ ~pte[t][k].w
    <3>1. un_wp_page(t, k)
      BY <2>1 DEF verify_area
    <3>2. Good(Target(pte', dir, page0, hold), Hard(pte'), mem_map')
      BY <3>1, CopyCounts
    <3>3. Counted'
      BY <1>4, <3>2 DEF Counted
    <3> QED BY <2>1, <3>1, <3>3, CopyStep
  <2>2. CASE ~(Present(t, k) /\ ~pte[t][k].w)
    <3>1. mem_map' = mem_map /\ content' = content /\ pte' = pte
      BY <2>2 DEF verify_area
    <3>2. Counted'
      BY <1>1, <1>2, <3>1, StillCounts
    <3> QED BY <3>1, <3>2 DEF Typed, Places, Placed, Present, HasTable
  <2> QED BY <2>1, <2>2
<1>6. mem_map' \in [Frame -> Nat]
  BY <1>5, CountsAreNat
<1>7. Placed(t)'
  BY <1>1, <1>2, <1>3, <1>5 DEF Places, Placed, Present, HasTable, Loading, InTransit
<1>8. Places'
  BY <1>1, <1>2, <1>3, <1>5, <1>7, OthersPlaced
<1> QED BY <1>1, <1>2, <1>3, <1>5, <1>6, <1>8 DEF Typed

\* A store changes what is in a frame and the D bit.
LEMMA StoreStep ==
    ASSUME Typed, NEW t \in Task, NEW k \in Page, NEW v \in Writes, Store(t, k, v)
    PROVE  /\ content' \in [Frame -> Val] /\ pte' \in [Task -> [Page -> Entry]]
           /\ \A s \in Task, j \in Page : /\ pte'[s][j].frame = pte[s][j].frame
                                          /\ pte'[s][j].w <=> pte[s][j].w
           /\ \A s \in Task : s # t => pte'[s] = pte[s]
<1>1. /\ content' = [content EXCEPT ![pte[t][k].frame] = v]
      /\ pte' = [pte EXCEPT ![t][k].d = TRUE]
  BY DEF Store
<1>2. content' \in [Frame -> Val]
  BY <1>1, MemoryAssumption DEF Typed, Val, Zero, Written
<1>3. PICK e : e = [pte[t][k] EXCEPT !.d = TRUE]
  OBVIOUS
<1>4. pte[t][k] \in Entry
  BY DEF Typed
<1>5. e \in Entry /\ e.frame = pte[t][k].frame /\ e.w = pte[t][k].w
  BY <1>3, <1>4 DEF Entry
<1>6. pte' = [pte EXCEPT ![t][k] = e]
  BY <1>1, <1>3 DEF Typed
<1>7. /\ pte' \in [Task -> [Page -> Entry]] /\ pte'[t][k] = e
      /\ \A s \in Task, j \in Page : s # t \/ j # k => pte'[s][j] = pte[s][j]
      /\ \A s \in Task : s # t => pte'[s] = pte[s]
  BY <1>5, <1>6, EntryPut
<1>8. \A s \in Task, j \in Page : /\ pte'[s][j].frame = pte[s][j].frame
                                  /\ pte'[s][j].w <=> pte[s][j].w
  BY <1>5, <1>7
<1> QED BY <1>2, <1>7, <1>8

LEMMA UserWriteStep ==
    ASSUME Typed, Places, Counted, NEW t \in Task, NEW k \in Page, user_write(t, k)
    PROVE  Typed' /\ Places' /\ Counted'
<1>1. PICK v \in Writes : Store(t, k, v)
  BY DEF user_write
<1>2. mem_map' = mem_map /\ dir' = dir /\ page0' = page0 /\ exe' = exe /\ status' = status /\ hold' = hold
  BY DEF user_write
<1>3. /\ content' \in [Frame -> Val] /\ pte' \in [Task -> [Page -> Entry]]
      /\ \A s \in Task, j \in Page : /\ pte'[s][j].frame = pte[s][j].frame
                                     /\ pte'[s][j].w <=> pte[s][j].w
  BY <1>1, StoreStep
<1>4. Counted'
  BY <1>2, <1>3, StillCounts
<1>5. \A s \in Task : Placed(s)'
  BY <1>2, <1>3, StillPlaced DEF Places
<1> QED BY <1>2, <1>3, <1>4, <1>5 DEF Typed, Places

LEMMA KernelWriteStep ==
    ASSUME Typed, Places, Counted, NEW t \in Task, kernel_write(t)
    PROVE  Typed' /\ Places' /\ Counted'
<1>1. /\ status[t] = "write" /\ status' = [status EXCEPT ![t] = "run"]
      /\ hold' = [hold EXCEPT ![t] = NoHold]
      /\ mem_map' = mem_map /\ dir' = dir /\ page0' = page0 /\ exe' = exe
  BY DEF kernel_write
<1>2. hold[t].frame = NONE /\ hold[t].page \in Page
  BY <1>1 DEF Typed, Places, Placed, InTransit
<1>3. /\ content' \in [Frame -> Val] /\ pte' \in [Task -> [Page -> Entry]]
      /\ \A s \in Task, j \in Page : /\ pte'[s][j].frame = pte[s][j].frame
                                     /\ pte'[s][j].w <=> pte[s][j].w
      /\ \A s \in Task : s # t => pte'[s] = pte[s]
  <2>1. CASE \E v \in Writes : Store(t, hold[t].page, v)
    BY <1>2, <2>1, StoreStep
  <2>2. CASE content' = content /\ pte' = pte
    BY <2>2 DEF Typed
  <2> QED BY <2>1, <2>2 DEF kernel_write
<1>4. /\ hold' \in [Task -> [page : Page \cup {0}, frame : Frame \cup {NONE}]]
      /\ \A s \in Task : hold'[s].frame = hold[s].frame
      /\ \A s \in Task : s # t => hold'[s] = hold[s]
  BY <1>1, <1>2 DEF Typed, NoHold
<1>5. /\ status' \in [Task -> Status] /\ status'[t] = "run"
      /\ \A s \in Task : s # t => status'[s] = status[s]
  BY <1>1 DEF Typed, Status
<1>6. Counted'
  BY <1>1, <1>3, <1>4, StillCounts
<1>7. hold'[t].frame = NONE
  BY <1>2, <1>4
<1>8. Placed(t)'
  BY <1>1, <1>3, <1>5, <1>7, FrameIs, SMTT(30) DEF Places, Placed, Present, HasTable, Loading, InTransit
<1>9. Places'
  BY <1>1, <1>3, <1>4, <1>5, <1>8, OthersPlaced
<1> QED BY <1>1, <1>3, <1>4, <1>5, <1>6, <1>9 DEF Typed

LEMMA CommitStep ==
    ASSUME Typed, Places, Counted, NEW t \in Task, NEW e \in Exes, execve_commits(t, e)
    PROVE  Typed' /\ Places' /\ Counted'
<1>1. PICK f \in NthFree(1) : /\ mem_map' = [mem_map EXCEPT ![f] = 1]
                              /\ content' = [content EXCEPT ![f] = Zero]
                              /\ hold' = [hold EXCEPT ![t] = [page |-> NR_PAGES, frame |-> f]]
  BY DEF execve_commits
<1>2. f \in Frame /\ mem_map[f] = 0
  BY <1>1, NthFreeIs
<1>3. /\ status[t] = "run" /\ status' = [status EXCEPT ![t] = "exec"]
      /\ exe' = [exe EXCEPT ![t] = e] /\ dir' = dir /\ pte' = pte /\ page0' = page0
  BY DEF execve_commits
<1>4. hold[t].frame \notin Frame
  BY <1>3 DEF Places, Placed, InTransit
<1>5. Counted'
  BY <1>1, <1>2, <1>3, <1>4, HoldFrame
<1>6. NR_PAGES \in Page
  BY MemoryAssumption DEF Page
<1>7. mem_map' \in [Frame -> Nat] /\ content' \in [Frame -> Val]
  BY <1>1 DEF Typed, Val
<1>8. /\ hold' \in [Task -> [page : Page \cup {0}, frame : Frame \cup {NONE}]]
      /\ hold'[t] = [page |-> NR_PAGES, frame |-> f]
      /\ \A s \in Task : s # t => hold'[s] = hold[s]
  BY <1>1, <1>2, <1>6 DEF Typed
<1>9. /\ status' \in [Task -> Status] /\ status'[t] = "exec"
      /\ exe' \in [Task -> Exes \cup {NoExe}]
      /\ \A s \in Task : s # t => status'[s] = status[s]
  BY <1>3 DEF Typed, Status
<1>10. Placed(t)'
  BY <1>2, <1>3, <1>6, <1>8, <1>9 DEF Places, Placed, Present, HasTable, Loading, InTransit
<1>11. Places'
  BY <1>3, <1>8, <1>9, <1>10, OthersPlaced
<1> QED BY <1>3, <1>5, <1>7, <1>8, <1>9, <1>11 DEF Typed

LEMMA ExecveStep ==
    ASSUME Typed, Places, Counted, NEW t \in Task, execve_ends(t), Counted'
    PROVE  Typed' /\ Places'
<1>1. PICK left : left = [f \in Frame |-> mem_map[f] - Refs(t, f)]
  OBVIOUS
<1>2. PICK p \in Frame :
        /\ mem_map' = [left EXCEPT ![p] = 1]
        /\ dir' = [dir EXCEPT ![t] = [k \in Page |-> IF k = NR_PAGES THEN p ELSE NONE]]
  BY <1>1 DEF execve_ends, Highest
<1>3. /\ status[t] = "exec" /\ status' = [status EXCEPT ![t] = "run"]
      /\ content' = Cleared(left) /\ hold' = [hold EXCEPT ![t] = NoHold]
      /\ page0' = page0 /\ exe' = exe
  BY <1>1 DEF execve_ends
<1>4. PICK row : row = [k \in Page |-> IF k = NR_PAGES
                                       THEN [frame |-> hold[t].frame, w |-> TRUE, d |-> FALSE]
                                       ELSE NotPresent]
  OBVIOUS
<1>5. pte' = [pte EXCEPT ![t] = row]
  BY <1>4 DEF execve_ends
<1>6. hold[t].frame \in Frame
  BY <1>3 DEF Places, Placed, InTransit
<1>7. row \in [Page -> Entry]
  <2>1. NotPresent \in Entry /\ [frame |-> hold[t].frame, w |-> TRUE, d |-> FALSE] \in Entry
    BY <1>6 DEF Entry, NotPresent
  <2> QED BY <1>4, <2>1
<1>8. /\ pte' \in [Task -> [Page -> Entry]] /\ pte'[t] = row
      /\ \A s \in Task : s # t => pte'[s] = pte[s]
  BY <1>5, <1>7 DEF Typed
<1>9. /\ dir' \in [Task -> [Page -> Frame \cup {NONE}]]
      /\ \A k \in Page : dir'[t][k] = IF k = NR_PAGES THEN p ELSE NONE
      /\ \A s \in Task : s # t => dir'[s] = dir[s]
  BY <1>2 DEF Typed
<1>10. mem_map' \in [Frame -> Nat]
  <2>1. mem_map' = [g \in Frame |-> mem_map'[g]]
    BY <1>1, <1>2
  <2> QED BY <2>1, CountsAreNat
<1>11. content' \in [Frame -> Val]
  BY <1>3 DEF Typed, Cleared, Val
<1>12. /\ hold' \in [Task -> [page : Page \cup {0}, frame : Frame \cup {NONE}]]
       /\ hold'[t] = NoHold /\ \A s \in Task : s # t => hold'[s] = hold[s]
  BY <1>3 DEF Typed, NoHold
<1>13. /\ status' \in [Task -> Status] /\ status'[t] = "run"
       /\ \A s \in Task : s # t => status'[s] = status[s]
  BY <1>3 DEF Typed, Status
<1>14. \A k \in Page : /\ pte'[t][k].frame # NONE => dir'[t][k] # NONE
                       /\ pte'[t][k].w => pte'[t][k].frame \in Frame
  <2> TAKE k \in Page
  <2>1. CASE k = NR_PAGES
    BY <1>2, <1>4, <1>6, <1>8, <1>9, <2>1, FrameIs
  <2>2. CASE k # NR_PAGES
    BY <1>4, <1>8, <2>2 DEF NotPresent
  <2> QED BY <2>1, <2>2
<1>15. hold'[t].frame \notin Frame
  BY <1>12, FrameIs DEF NoHold
<1>16. Placed(t)'
  BY <1>3, <1>13, <1>14, <1>15 DEF Places, Placed, Present, HasTable, Loading, InTransit
<1>17. Places'
  BY <1>3, <1>8, <1>9, <1>12, <1>13, <1>16, OthersPlaced
<1> QED BY <1>3, <1>8, <1>9, <1>10, <1>11, <1>12, <1>13, <1>17 DEF Typed

\* oom: do_exit, with the frame in transit if there is one.
LEMMA OomCounts ==
    ASSUME Typed, Places, Counted, NEW t \in Task, oom(t)
    PROVE  \E extra : /\ do_exit(t, extra) /\ status[t] # "free"
                      /\ \A g \in Frame : g \in extra <=> hold[t].frame = g
<1>1. CASE \E k \in Page : Faults(t, k) /\ do_exit(t, {})
  <2>1. status[t] \in {"run", "write"} /\ do_exit(t, {})
    BY <1>1 DEF Faults
  <2>2. hold[t].frame \notin Frame
    BY <2>1 DEF Places, Placed, InTransit
  <2> QED BY <2>1, <2>2
<1>2. CASE Loading(t) /\ do_exit(t, {hold[t].frame})
  BY <1>2 DEF Loading
<1>3. CASE status[t] = "run" /\ do_exit(t, {})
  <2>1. hold[t].frame \notin Frame
    BY <1>3 DEF Places, Placed, InTransit
  <2> QED BY <1>3, <2>1
<1> QED BY <1>1, <1>2, <1>3 DEF oom

-----------------------------------------------------------------------------
\* The invariant at the start ...
LEMMA MemoryInit == Init => Typed /\ Places /\ Counted
<1> SUFFICES ASSUME Init PROVE Typed /\ Places /\ Counted
  OBVIOUS
<1>1. NR_FRAMES \in Nat /\ NR_PAGES \in Nat /\ NR_PAGES + 1 <= NR_FRAMES /\ NR_PAGES >= 1
  BY MemoryAssumption
<1>2. /\ \A f \in Frame : mem_map[f] = IF f \in 1 .. NR_PAGES + 1 THEN 1 ELSE 0
      /\ \A t \in Task, k \in Page : /\ dir[t][k] = IF t = 1 THEN k ELSE NONE
                                     /\ pte[t][k].frame = (IF t = 1 THEN LOW ELSE NONE)
                                     /\ pte[t][k].w = FALSE
      /\ \A t \in Task : /\ page0[t] = IF t = 1 THEN NR_PAGES + 1 ELSE NONE
                         /\ hold[t] = NoHold
                         /\ status[t] = IF t = 1 THEN "run" ELSE "free"
  BY DEF Init, NotPresent
<1>3. \A k \in Page : k \in Frame /\ k # NONE /\ k # NR_PAGES + 1
  BY <1>1 DEF Page, Frame, NONE
<1>4. NR_PAGES + 1 \in Frame
  BY <1>1 DEF Frame
<1>5. Typed
  <2>1. mem_map \in [Frame -> Nat] /\ content \in [Frame -> Val]
    BY DEF Init, Val
  <2>2. dir \in [Task -> [Page -> Frame \cup {NONE}]] /\ page0 \in [Task -> Frame \cup {NONE}]
    BY <1>3, <1>4 DEF Init
  <2>3. pte \in [Task -> [Page -> Entry]]
    <3>1. NotPresent \in Entry /\ [NotPresent EXCEPT !.frame = LOW] \in Entry
      BY DEF NotPresent, Entry
    <3> QED BY <3>1 DEF Init
  <2>4. /\ exe \in [Task -> Exes \cup {NoExe}] /\ status \in [Task -> Status]
        /\ hold \in [Task -> [page : Page \cup {0}, frame : Frame \cup {NONE}]]
    BY DEF Init, Status, NoHold
  <2> QED BY <2>1, <2>2, <2>3, <2>4 DEF Typed
<1>6. Places
  <2> SUFFICES ASSUME NEW t \in Task PROVE Placed(t)
    BY DEF Places
  <2>1. hold[t].frame \notin Frame
    BY <1>2, FrameIs DEF NoHold
  <2>2. CASE t = 1
    BY <1>2, <1>3, <1>4, <2>1, <2>2 DEF Placed, Present, HasTable, Loading, InTransit
  <2>3. CASE t # 1
    BY <1>2, <2>1, <2>3, FrameIs DEF Placed, Present, HasTable, Loading, InTransit
  <2> QED BY <2>2, <2>3
<1>7. Counted
  <2>1. PICK T : T = Target(pte, dir, page0, hold)
    OBVIOUS
  <2>2. Points(T, pte, dir, page0, hold)
    BY <2>1, TargetPoints
  <2>3. \A r \in Ref : T[r] \in Frame =>
            \/ r = <<1, 0, "page0">> /\ T[r] = NR_PAGES + 1
            \/ r[2] \in Page /\ r = <<1, r[2], "dir">> /\ T[r] = r[2]
    <3> SUFFICES ASSUME NEW r \in Ref, T[r] \in Frame
                 PROVE  \/ r = <<1, 0, "page0">> /\ T[r] = NR_PAGES + 1
                        \/ r[2] \in Page /\ r = <<1, r[2], "dir">> /\ T[r] = r[2]
      OBVIOUS
    <3>1. /\ r = <<r[1], r[2], r[3]>> /\ r[1] \in Task
          /\ \/ r[2] \in Page /\ r[3] \in {"pte", "dir"}
             \/ r[2] = 0 /\ r[3] \in {"page0", "hold"}
      BY RefIs
    <3>2. CASE r[3] = "pte"
      <4>1. T[r] = pte[r[1]][r[2]].frame /\ r[2] \in Page
        BY <2>1, <3>1, <3>2 DEF Target
      <4> QED BY <1>2, <3>1, <4>1, FrameIs
    <3>3. CASE r[3] = "dir"
      <4>1. T[r] = dir[r[1]][r[2]] /\ r[2] \in Page
        BY <2>1, <3>1, <3>3 DEF Target
      <4>2. r[1] = 1
        BY <1>2, <3>1, <4>1, FrameIs
      <4> QED BY <1>2, <3>1, <3>3, <4>1, <4>2
    <3>4. CASE r[3] = "page0"
      <4>1. T[r] = page0[r[1]] /\ r[2] = 0
        BY <2>1, <3>1, <3>4 DEF Target
      <4>2. r[1] = 1
        BY <1>2, <3>1, <4>1, FrameIs
      <4> QED BY <1>2, <3>1, <3>4, <4>1, <4>2
    <3>5. CASE r[3] = "hold"
      <4>1. T[r] = hold[r[1]].frame
        BY <2>1, <3>1, <3>5 DEF Target
      <4>2. T[r] = NONE
        BY <1>2, <3>1, <4>1 DEF NoHold
      <4> QED BY <4>2, FrameIs
    <3> QED BY <3>1, <3>2, <3>3, <3>4, <3>5
  <2>4. \A r, s \in Ref : T[r] \in Frame /\ T[r] = T[s] => r = s
    BY <1>3, <2>3
  <2>5. 1 \in Task
    BY MemoryAssumption DEF Task
  <2>6. ASSUME NEW f \in Frame
        PROVE  mem_map[f] = Cardinality(Of(Ref, T, f)) /\ mem_map[f] \in Nat
    <3>1. CASE \E r \in Ref : T[r] = f
      <4>1. PICK r \in Ref : T[r] = f
        BY <3>1
      <4>2. Of(Ref, T, f) = {r}
        BY <2>4, <2>6, <4>1 DEF Of
      <4>3. f \in 1 .. NR_PAGES + 1
        BY <1>1, <2>3, <2>6, <4>1 DEF Page
      <4>4. mem_map[f] = 1
        BY <1>2, <2>6, <4>3
      <4>5. Cardinality({r}) = 1
        BY FS_Singleton
      <4> QED BY <4>2, <4>4, <4>5
    <3>2. CASE \A r \in Ref : T[r] # f
      <4>1. Of(Ref, T, f) = {}
        BY <3>2 DEF Of
      <4>2. f # NR_PAGES + 1
        <5>1. T[<<1, 0, "page0">>] = NR_PAGES + 1
          BY <1>2, <2>2, <2>5, ZenonT(40) DEF Points
        <5> QED BY <2>5, <3>2, <5>1, RefIs
      <4>3. f \notin Page
        <5>1. ASSUME f \in Page PROVE FALSE
          <6>1. T[<<1, f, "dir">>] = dir[1][f]
            BY <2>2, <2>5, <5>1 DEF Points
          <6>2. dir[1][f] = f
            BY <1>2, <2>5, <5>1
          <6> QED BY <2>5, <3>2, <5>1, <6>1, <6>2, RefIs
        <5> QED BY <5>1
      <4>4. mem_map[f] = 0
        <5>1. f \notin 1 .. NR_PAGES + 1
          BY <1>1, <4>2, <4>3 DEF Page
        <5> QED BY <1>2, <2>6, <5>1
      <4> QED BY <4>1, <4>4, FS_EmptySet
    <3> QED BY <3>1, <3>2
  <2>7. Good(T, Hard(pte), mem_map)
    BY <2>4, <2>6 DEF Good
  <2> QED BY <2>1, <2>7 DEF Counted
<1> QED BY <1>5, <1>6, <1>7

\* ... and through every step.
LEMMA MemoryNext == Typed /\ Places /\ Counted /\ [Next]_vars => Typed' /\ Places' /\ Counted'
<1> SUFFICES ASSUME Typed, Places, Counted, [Next]_vars PROVE Typed' /\ Places' /\ Counted'
  OBVIOUS
<1>1. CASE UNCHANGED vars
  <2>1. /\ mem_map' = mem_map /\ content' = content /\ dir' = dir /\ pte' = pte
        /\ page0' = page0 /\ exe' = exe /\ status' = status /\ hold' = hold
    BY <1>1 DEF vars
  <2>2. Typed'
    BY <2>1 DEF Typed
  <2>3. Places'
    <3>1. \A s \in Task : Placed(s)'
      BY <2>1, StillPlaced DEF Places
    <3> QED BY <3>1 DEF Places
  <2>4. Counted'
    BY <2>1, StillCounts
  <2> QED BY <2>2, <2>3, <2>4
<1>2. ASSUME NEW t \in Task, sys_exit(t) PROVE Typed' /\ Places' /\ Counted'
  <2>1. status[t] = "run" /\ do_exit(t, {})
    BY <1>2 DEF sys_exit
  <2>2. \A g \in Frame : g \in {} <=> hold[t].frame = g
    BY <2>1 DEF Places, Placed, InTransit
  <2>3. Counted'
    BY <2>1, <2>2, ExitCounts
  <2> QED BY <2>1, <2>3, ExitStep
<1>3. ASSUME NEW t \in Task, release(t) PROVE Typed' /\ Places' /\ Counted'
  <2>1. Counted'
    BY <1>3, ReleaseCounts
  <2> QED BY <1>3, <2>1, ReleaseStep
<1>4. ASSUME NEW t \in Task, oom(t) PROVE Typed' /\ Places' /\ Counted'
  <2>1. PICK extra : /\ do_exit(t, extra) /\ status[t] # "free"
                     /\ \A g \in Frame : g \in extra <=> hold[t].frame = g
    BY <1>4, OomCounts
  <2>2. Counted'
    BY <2>1, ExitCounts
  <2> QED BY <2>1, <2>2, ExitStep
<1>5. ASSUME NEW t \in Task, NEW u \in Task, sys_fork(t, u) PROVE Typed' /\ Places' /\ Counted'
  <2>1. Counted'
    BY <1>5, ForkCounts
  <2> QED BY <1>5, <2>1, ForkStep
<1>6. ASSUME NEW t \in Task, NEW u \in Task, fork_fails(t, u) PROVE Typed' /\ Places' /\ Counted'
  BY <1>6, ForkFailsStep
<1>7. ASSUME NEW t \in Task, NEW k \in Page, get_empty_page(t, k) PROVE Typed' /\ Places' /\ Counted'
  <2>1. Counted'
    BY <1>7, EmptyCounts
  <2> QED BY <1>7, <2>1, EmptyStep
<1>8. ASSUME NEW t \in Task, NEW k \in Page, share_page(t, k) PROVE Typed' /\ Places' /\ Counted'
  <2>1. Counted'
    BY <1>8, ShareCounts
  <2> QED BY <1>8, <2>1, ShareStep
<1>9. ASSUME NEW t \in Task, NEW k \in Page, load_starts(t, k) PROVE Typed' /\ Places' /\ Counted'
  BY <1>9, LoadStartsStep
<1>10. ASSUME NEW t \in Task, load_ends(t) PROVE Typed' /\ Places' /\ Counted'
  <2>1. Counted'
    BY <1>10, LoadEndsCounts
  <2> QED BY <1>10, <2>1, LoadEndsStep
<1>11. ASSUME NEW t \in Task, NEW k \in Page, do_wp_page(t, k) PROVE Typed' /\ Places' /\ Counted'
  BY <1>11, WpStep
<1>12. ASSUME NEW t \in Task, NEW k \in Page, user_write(t, k) PROVE Typed' /\ Places' /\ Counted'
  BY <1>12, UserWriteStep
<1>13. ASSUME NEW t \in Task, NEW k \in Page, verify_area(t, k) PROVE Typed' /\ Places' /\ Counted'
  BY <1>13, VerifyStep
<1>14. ASSUME NEW t \in Task, kernel_write(t) PROVE Typed' /\ Places' /\ Counted'
  BY <1>14, KernelWriteStep
<1>15. ASSUME NEW t \in Task, NEW e \in Exes, execve_commits(t, e) PROVE Typed' /\ Places' /\ Counted'
  BY <1>15, CommitStep
<1>16. ASSUME NEW t \in Task, execve_ends(t) PROVE Typed' /\ Places' /\ Counted'
  <2>1. Counted'
    BY <1>16, ExecveCounts
  <2> QED BY <1>16, <2>1, ExecveStep
<1> QED BY <1>1, <1>2, <1>3, <1>4, <1>5, <1>6, <1>7, <1>8, <1>9, <1>10, <1>11, <1>12, <1>13,
           <1>14, <1>15, <1>16 DEF Next

-----------------------------------------------------------------------------
\* Every count is right and what must not be shared is not, in every state.
THEOREM MemoryInvariant == Spec => [](Typed /\ Places /\ Counted)
<1>1. Init => Typed /\ Places /\ Counted
  BY MemoryInit
<1>2. Typed /\ Places /\ Counted /\ [Next]_vars => (Typed /\ Places /\ Counted)'
  BY MemoryNext
<1> QED BY <1>1, <1>2, PTL DEF Spec

\* The pages of all the tasks.
Ptes == {<<x[1], x[2], "pte">> : x \in Task \X Page}

LEMMA PtesCount ==
    /\ IsFiniteSet(Ptes)
    /\ Cardinality(Ptes) = NR_TASKS * NR_PAGES /\ NR_TASKS * NR_PAGES \in Nat /\ NR_TASKS * NR_PAGES >= 1
<1>1. NR_TASKS \in Nat /\ NR_PAGES \in Nat /\ NR_TASKS >= 1 /\ NR_PAGES >= 1
  BY MemoryAssumption
<1>2. /\ IsFiniteSet(Task) /\ Cardinality(Task) = NR_TASKS
      /\ IsFiniteSet(Page) /\ Cardinality(Page) = NR_PAGES
  <2>1. /\ IsFiniteSet(1 .. NR_TASKS) /\ Cardinality(1 .. NR_TASKS) = NR_TASKS - 1 + 1
        /\ IsFiniteSet(1 .. NR_PAGES) /\ Cardinality(1 .. NR_PAGES) = NR_PAGES - 1 + 1
    BY <1>1, FS_Interval
  <2> QED BY <1>1, <2>1 DEF Task, Page
<1>3. PICK S : S = Task \X Page
  OBVIOUS
<1>4. IsFiniteSet(S) /\ Cardinality(S) = NR_TASKS * NR_PAGES
  <2>1. IsFiniteSet(Task \X Page) /\ Cardinality(Task \X Page) = Cardinality(Task) * Cardinality(Page)
    BY <1>2, FS_Product
  <2> QED BY <1>2, <1>3, <2>1
<1>5. PICK F : F = [x \in S |-> <<x[1], x[2], "pte">>]
  OBVIOUS
<1>6. F \in [S -> Ptes]
  BY <1>3, <1>5 DEF Ptes
<1>7. \A x, y \in S : F[x] = F[y] => x = y
  BY <1>3, <1>5
<1>8. \A z \in Ptes : \E x \in S : F[x] = z
  BY <1>3, <1>5 DEF Ptes
<1>9. IsFiniteSet(Ptes) /\ Cardinality(Ptes) = Cardinality(S)
  BY <1>4, <1>6, <1>7, <1>8, SameSize
<1>10. NR_TASKS * NR_PAGES \in Nat /\ NR_TASKS * NR_PAGES >= 1
  BY <1>1
<1> QED BY <1>4, <1>9, <1>10

\* A frame has one user that must not share, or as many as there are pages.
LEMMA CountBound ==
    ASSUME Counted, NEW f \in Frame
    PROVE  mem_map[f] \in 0 .. NR_TASKS * NR_PAGES
<1>1. PICK T, S : T = Target(pte, dir, page0, hold) /\ S = Of(Ref, T, f)
  OBVIOUS
<1>2. Good(T, Hard(pte), mem_map)
  BY <1>1 DEF Counted
<1>3. mem_map[f] \in Nat /\ mem_map[f] = Cardinality(S)
  BY <1>1, <1>2 DEF Good
<1>4. CASE \E r \in S : r[3] # "pte"
  <2>1. PICK r \in S : r[3] # "pte"
    BY <1>4
  <2>2. r \in Ref /\ T[r] = f /\ r \in Hard(pte)
    BY <1>1, <2>1 DEF Of, Hard
  <2>3. S = {r}
    <3>1. \A s \in S : s \in Ref /\ T[s] = f
      BY <1>1 DEF Of
    <3>2. \A s \in S : s = r
      BY <1>2, <2>2, <3>1 DEF Good
    <3> QED BY <2>1, <3>2
  <2>4. Cardinality({r}) = 1
    BY FS_Singleton
  <2> QED BY <1>3, <2>3, <2>4, PtesCount
<1>5. CASE \A r \in S : r[3] = "pte"
  <2>1. \A r \in S : r \in Ptes
    <3> SUFFICES ASSUME NEW r \in S PROVE r \in Ptes
      OBVIOUS
    <3>1. r \in Ref /\ r[3] = "pte"
      BY <1>1, <1>5 DEF Of
    <3>2. r = <<r[1], r[2], "pte">> /\ r[1] \in Task /\ r[2] \in Page
      BY <3>1, RefIs
    <3>3. PICK x \in Task \X Page : x = <<r[1], r[2]>>
      BY <3>2
    <3> QED BY <3>2, <3>3 DEF Ptes
  <2>2. S \in SUBSET Ptes
    BY <2>1
  <2>3. Cardinality(S) <= Cardinality(Ptes)
    BY <2>2, PtesCount, FS_Subset
  <2> QED BY <1>3, <2>3, PtesCount
<1> QED BY <1>4, <1>5

\* The types hold, and no count runs below zero (the panic of free_page) or
\* above the pages there are.
THEOREM TypeCorrect == Spec => []TypeOK
<1>1. ASSUME Typed, Counted PROVE TypeOK
  <2>1. mem_map \in [Frame -> 0 .. NR_TASKS * NR_PAGES]
    <3>1. \A f \in Frame : mem_map[f] \in 0 .. NR_TASKS * NR_PAGES
      BY <1>1, CountBound
    <3> QED BY <1>1, <3>1 DEF Typed
  <2> QED BY <1>1, <2>1 DEF Typed, TypeOK
<1>2. Typed /\ Places /\ Counted => TypeOK
  BY <1>1
<1> QED BY <1>2, MemoryInvariant, PTL

\* The references of one kind are as many as the entries that refer to f.
KindOf(T, f, kind) == {r \in Of(Ref, T, f) : r[3] = kind}
Entries(T, f, kind) == {x \in Task \X Page : T[<<x[1], x[2], kind>>] = f}
Holders(T, f, kind) == {t \in Task : T[<<t, 0, kind>>] = f}

LEMMA KindCount ==
    ASSUME NEW T, NEW f, NEW kind \in {"pte", "dir"}
    PROVE  /\ IsFiniteSet(KindOf(T, f, kind))
           /\ Cardinality(KindOf(T, f, kind)) \in Nat
           /\ Cardinality(KindOf(T, f, kind)) =
                Cardinality(Entries(T, f, kind))
<1>1. PICK A : A = KindOf(T, f, kind) /\ A = {r \in Of(Ref, T, f) : r[3] = kind}
  BY DEF KindOf
<1>2. PICK B : /\ B = Entries(T, f, kind)
               /\ B = {x \in Task \X Page : T[<<x[1], x[2], kind>>] = f}
  BY DEF Entries
<1>3. IsFiniteSet(A)
  <2>1. A \in SUBSET Of(Ref, T, f)
    BY <1>1
  <2> QED BY <2>1, OfIs, FS_Subset
<1>4. PICK F : F = [r \in A |-> <<r[1], r[2]>>]
  OBVIOUS
<1>5. \A r \in A : r = <<r[1], r[2], kind>> /\ r[1] \in Task /\ r[2] \in Page /\ T[r] = f
  <2> SUFFICES ASSUME NEW r \in A
               PROVE  r = <<r[1], r[2], kind>> /\ r[1] \in Task /\ r[2] \in Page /\ T[r] = f
    OBVIOUS
  <2>1. r \in Ref /\ T[r] = f /\ r[3] = kind
    BY <1>1 DEF Of
  <2> QED BY <2>1, RefIs
<1>6. F \in [A -> B]
  <2>1. \A r \in A : <<r[1], r[2]>> \in B
    BY <1>2, <1>5
  <2> QED BY <1>4, <2>1
<1>7. \A r, s \in A : F[r] = F[s] => r = s
  BY <1>4, <1>5
<1>8. \A x \in B : \E r \in A : F[r] = x
  <2> SUFFICES ASSUME NEW x \in B PROVE \E r \in A : F[r] = x
    OBVIOUS
  <2>1. x = <<x[1], x[2]>> /\ x[1] \in Task /\ x[2] \in Page /\ T[<<x[1], x[2], kind>>] = f
    BY <1>2
  <2>2. PICK r : r = <<x[1], x[2], kind>>
    OBVIOUS
  <2>3. r \in Ref /\ T[r] = f /\ r[3] = kind /\ r[1] = x[1] /\ r[2] = x[2]
    BY <2>1, <2>2, RefIs
  <2>4. r \in A
    BY <1>1, <2>3 DEF Of
  <2> QED BY <1>4, <2>1, <2>3, <2>4
<1>9. Cardinality(A) = Cardinality(B)
  BY <1>3, <1>6, <1>7, <1>8, SameSize
<1>10. Cardinality(A) \in Nat
  BY <1>3, FS_CardinalityType
<1> QED BY <1>1, <1>2, <1>3, <1>9, <1>10

LEMMA TaskCount ==
    ASSUME NEW T, NEW f, NEW kind \in {"page0", "hold"}
    PROVE  /\ IsFiniteSet(KindOf(T, f, kind))
           /\ Cardinality(KindOf(T, f, kind)) \in Nat
           /\ Cardinality(KindOf(T, f, kind)) =
                Cardinality(Holders(T, f, kind))
<1>1. PICK A : A = KindOf(T, f, kind) /\ A = {r \in Of(Ref, T, f) : r[3] = kind}
  BY DEF KindOf
<1>2. PICK B : B = Holders(T, f, kind) /\ B = {t \in Task : T[<<t, 0, kind>>] = f}
  BY DEF Holders
<1>3. IsFiniteSet(A)
  <2>1. A \in SUBSET Of(Ref, T, f)
    BY <1>1
  <2> QED BY <2>1, OfIs, FS_Subset
<1>4. PICK F : F = [r \in A |-> r[1]]
  OBVIOUS
<1>5. \A r \in A : r = <<r[1], 0, kind>> /\ r[1] \in Task /\ T[r] = f
  <2> SUFFICES ASSUME NEW r \in A PROVE r = <<r[1], 0, kind>> /\ r[1] \in Task /\ T[r] = f
    OBVIOUS
  <2>1. r \in Ref /\ T[r] = f /\ r[3] = kind
    BY <1>1 DEF Of
  <2> QED BY <2>1, RefIs
<1>6. F \in [A -> B]
  <2>1. \A r \in A : r[1] \in B
    BY <1>2, <1>5
  <2> QED BY <1>4, <2>1
<1>7. \A r, s \in A : F[r] = F[s] => r = s
  BY <1>4, <1>5
<1>8. \A x \in B : \E r \in A : F[r] = x
  <2> SUFFICES ASSUME NEW x \in B PROVE \E r \in A : F[r] = x
    OBVIOUS
  <2>1. PICK r : r = <<x, 0, kind>>
    OBVIOUS
  <2>2. r \in Ref /\ T[r] = f /\ r[3] = kind /\ r[1] = x
    BY <1>2, <2>1, RefIs
  <2>3. r \in A
    BY <1>1, <2>2 DEF Of
  <2> QED BY <1>4, <2>2, <2>3
<1>9. Cardinality(A) = Cardinality(B)
  BY <1>3, <1>6, <1>7, <1>8, SameSize
<1>10. Cardinality(A) \in Nat
  BY <1>3, FS_CardinalityType
<1> QED BY <1>1, <1>2, <1>3, <1>9, <1>10

\* Disjoint parts.
LEMMA TwoParts ==
    ASSUME NEW A, NEW B, NEW E, IsFiniteSet(A), IsFiniteSet(B), \A x \in A : x \notin B,
           \A x : x \in E <=> x \in A \/ x \in B
    PROVE  /\ IsFiniteSet(E) /\ Cardinality(E) = Cardinality(A) + Cardinality(B)
           /\ Cardinality(A) \in Nat /\ Cardinality(B) \in Nat
<1>1. PICK X, Y : X = A \cup B /\ Y = A \cap B
  OBVIOUS
<1>2. X = E /\ Y = {}
  BY <1>1
<1>3. /\ IsFiniteSet(A \cup B)
      /\ Cardinality(A \cup B) = Cardinality(A) + Cardinality(B) - Cardinality(A \cap B)
  BY FS_Union
<1>4. /\ IsFiniteSet(X) /\ Cardinality(X) = Cardinality(A) + Cardinality(B) - Cardinality(Y)
  BY <1>1, <1>3
<1>5. Cardinality(Y) = 0
  BY <1>2, FS_EmptySet
<1>6. Cardinality(A) \in Nat /\ Cardinality(B) \in Nat
  BY FS_CardinalityType
<1> QED BY <1>2, <1>4, <1>5, <1>6

\* The count of every frame is the number of references to it (mem_map), for
\* any number of tasks, pages and frames and however fork, exit, execve and
\* faults interleave or run out of memory.
THEOREM CountsAreRight == Spec => []MapCountsMappings
<1>1. ASSUME Counted, NEW f \in Frame
      PROVE  mem_map[f] = Cardinality({x \in Task \X Page : pte[x[1]][x[2]].frame = f})
                          + Cardinality({x \in Task \X Page : dir[x[1]][x[2]] = f})
                          + Cardinality({t \in Task : page0[t] = f})
                          + Cardinality({t \in Task : hold[t].frame = f})
  <2>1. PICK T : T = Target(pte, dir, page0, hold)
    OBVIOUS
  <2>2. PICK S : S = Of(Ref, T, f)
    OBVIOUS
  <2>3. mem_map[f] = Cardinality(S)
    BY <1>1, <2>1, <2>2 DEF Counted, Good
  <2>4. PICK A, B, C, D : /\ A = KindOf(T, f, "pte") /\ B = KindOf(T, f, "dir")
                          /\ C = KindOf(T, f, "page0") /\ D = KindOf(T, f, "hold")
    OBVIOUS
  <2>5. /\ IsFiniteSet(A) /\ Cardinality(A) = Cardinality(Entries(T, f, "pte"))
        /\ IsFiniteSet(B) /\ Cardinality(B) = Cardinality(Entries(T, f, "dir"))
    BY <2>4, KindCount
  <2>6. /\ IsFiniteSet(C) /\ Cardinality(C) = Cardinality(Holders(T, f, "page0"))
        /\ IsFiniteSet(D) /\ Cardinality(D) = Cardinality(Holders(T, f, "hold"))
    BY <2>4, TaskCount
  <2>7. Points(T, pte, dir, page0, hold)
    BY <2>1, TargetPoints
  <2>8. /\ Entries(T, f, "pte") = {x \in Task \X Page : pte[x[1]][x[2]].frame = f}
        /\ Entries(T, f, "dir") = {x \in Task \X Page : dir[x[1]][x[2]] = f}
        /\ Holders(T, f, "page0") = {t \in Task : page0[t] = f}
        /\ Holders(T, f, "hold") = {t \in Task : hold[t].frame = f}
    BY <2>7, ZenonT(40) DEF Points, Entries, Holders
  <2>9. PICK E, F : E = A \cup B /\ F = C \cup D
    OBVIOUS
  <2>10. \A x : /\ x \in A => x \notin B
                /\ x \in C => x \notin D
                /\ x \in E => x \notin F
    BY <2>4, <2>9 DEF KindOf
  <2>11. \A r : r \in S <=> r \in E \/ r \in F
    <3>1. \A r \in S : r \in Ref
      BY <2>2 DEF Of
    <3>2. \A r \in S : r[3] \in {"pte", "dir", "page0", "hold"}
      BY <3>1, RefIs
    <3> QED BY <2>2, <2>4, <2>9, <3>2 DEF KindOf
  <2>12. /\ IsFiniteSet(E) /\ Cardinality(E) = Cardinality(A) + Cardinality(B)
         /\ Cardinality(A) \in Nat /\ Cardinality(B) \in Nat
    BY <2>5, <2>9, <2>10, TwoParts
  <2>13. /\ IsFiniteSet(F) /\ Cardinality(F) = Cardinality(C) + Cardinality(D)
         /\ Cardinality(C) \in Nat /\ Cardinality(D) \in Nat
    BY <2>6, <2>9, <2>10, TwoParts
  <2>14. Cardinality(S) = Cardinality(E) + Cardinality(F)
    BY <2>10, <2>11, <2>12, <2>13, TwoParts
  <2>15. mem_map[f] = Cardinality(Entries(T, f, "pte")) + Cardinality(Entries(T, f, "dir"))
                      + Cardinality(Holders(T, f, "page0")) + Cardinality(Holders(T, f, "hold"))
    BY <2>3, <2>5, <2>6, <2>12, <2>13, <2>14
  <2> QED BY <2>8, <2>15
<1>2. Typed /\ Places /\ Counted => MapCountsMappings
  BY <1>1 DEF MapCountsMappings
<1> QED BY <1>2, MemoryInvariant, PTL

\* A page a task may write is its alone: copy_page_tables, try_to_share and
\* un_wp_page keep the W bit right.
THEOREM WritableIsOwn == Spec => []WritableIsPrivate
<1>1. ASSUME Places, Counted, NEW t \in Task, NEW k \in Page, pte[t][k].w
      PROVE  pte[t][k].frame \in Frame /\ mem_map[pte[t][k].frame] = 1
  <2>1. pte[t][k].frame \in Frame
    BY <1>1 DEF Places, Placed
  <2>2. PICK T, x : T = Target(pte, dir, page0, hold) /\ x = <<t, k, "pte">>
    OBVIOUS
  <2>3. x \in Ref /\ T[x] = pte[t][k].frame /\ x \in Hard(pte)
    BY <1>1, <2>2, RefIs, HardIs DEF Target
  <2>4. Good(T, Hard(pte), mem_map)
    BY <1>1, <2>2 DEF Counted
  <2>5. \A r \in Ref : T[r] = T[x] => r = x
    BY <2>1, <2>3, <2>4 DEF Good
  <2>6. mem_map[T[x]] = 1
    BY <2>1, <2>3, <2>4, <2>5, OneUser
  <2> QED BY <2>1, <2>3, <2>6
<1>2. Typed /\ Places /\ Counted => WritableIsPrivate
  BY <1>1 DEF WritableIsPrivate
<1> QED BY <1>2, MemoryInvariant, PTL

-----------------------------------------------------------------------------
(***************************************************************************)
(* Refinement.  Without programs to execute nothing is loaded or shared by *)
(* share_page, and a page that verify_area has checked stays writable until *)
(* the write that follows.                                                 *)
(***************************************************************************)
Checked(t) == status[t] = "write" /\ Present(t, hold[t].page) => pte[t][hold[t].page].w
Plain == \A t \in Task : status[t] \notin InTransit /\ Checked(t)

LEMMA NoPrograms ==
    ASSUME Exes = {}, Typed, Plain, Next
    PROVE  \E t \in Task :
              \/ sys_exit(t) \/ release(t) \/ oom(t)
              \/ \E u \in Task : sys_fork(t, u) \/ fork_fails(t, u)
              \/ \E k \in Page : \/ get_empty_page(t, k) \/ do_wp_page(t, k)
                                 \/ user_write(t, k) \/ verify_area(t, k)
              \/ kernel_write(t)
<1>1. \A t \in Task, k \in Page : ~FileBacked(t, k)
  BY DEF Typed, FileBacked
<1>2. \A t \in Task, k \in Page : ~share_page(t, k) /\ ~load_starts(t, k)
  BY <1>1 DEF share_page, load_starts
<1>3. \A t \in Task : ~load_ends(t) /\ ~execve_ends(t)
  BY DEF Plain, InTransit, load_ends, execve_ends, Loading
<1>4. \A t \in Task : ~\E e \in Exes : execve_commits(t, e)
  OBVIOUS
<1> QED BY <1>2, <1>3, <1>4 DEF Next

\* Entries of other tasks do not matter.
LEMMA StillChecked ==
    ASSUME NEW s \in Task, Checked(s), hold'[s] = hold[s], status'[s] = status[s],
           pte'[s] = pte[s]
    PROVE  Checked(s)'
BY DEF Checked, Present

LEMMA PlainNext ==
    ASSUME Exes = {}, Typed, Places, Plain, [Next]_vars
    PROVE  Plain'
<1>1. CASE UNCHANGED vars
  BY <1>1 DEF vars, Plain, Checked, Present
<1>2. ASSUME NEW t \in Task, NEW extra, do_exit(t, extra) PROVE Plain'
  <2>1. /\ status' = [status EXCEPT ![t] = "zombie"] /\ hold' = [hold EXCEPT ![t] = NoHold]
        /\ pte' = [pte EXCEPT ![t] = [k \in Page |-> NotPresent]]
    BY <1>2 DEF do_exit, FreePageTables
  <2>2. status'[t] = "zombie" /\ \A s \in Task : s # t => /\ status'[s] = status[s]
                                                         /\ hold'[s] = hold[s] /\ pte'[s] = pte[s]
    BY <2>1 DEF Typed
  <2>3. \A s \in Task : s # t => Checked(s)'
    BY <2>2, StillChecked DEF Plain
  <2> QED BY <2>2, <2>3 DEF Plain, InTransit, Checked
<1>3. ASSUME NEW t \in Task, sys_exit(t) PROVE Plain'
  BY <1>2, <1>3 DEF sys_exit
<1>4. ASSUME NEW t \in Task, oom(t) PROVE Plain'
  BY <1>2, <1>4 DEF oom
<1>5. ASSUME NEW t \in Task, release(t) PROVE Plain'
  <2>1. status' = [status EXCEPT ![t] = "free"] /\ hold' = hold /\ pte' = pte
    BY <1>5 DEF release
  <2>2. status'[t] = "free" /\ \A s \in Task : s # t => status'[s] = status[s]
    BY <2>1 DEF Typed
  <2> QED BY <2>1, <2>2 DEF Plain, InTransit, Checked, Present
<1>6. ASSUME NEW t \in Task, NEW u \in Task, sys_fork(t, u) PROVE Plain'
  <2>1. /\ status[t] = "run" /\ status' = [status EXCEPT ![u] = "run"] /\ hold' = hold
        /\ \A s \in Task, k \in Page : s \notin {t, u} => pte'[s][k] = pte[s][k]
    BY <1>6, ForkDoes DEF sys_fork
  <2>2. status'[u] = "run" /\ \A s \in Task : s # u => status'[s] = status[s]
    BY <2>1 DEF Typed
  <2>3. \A s \in Task : status'[s] = "write" => hold[s].page \in Page /\ s \notin {t, u}
    BY <2>1, <2>2 DEF Places, Placed
  <2> QED BY <2>1, <2>2, <2>3 DEF Plain, InTransit, Checked, Present
<1>7. ASSUME NEW t \in Task, NEW u \in Task, fork_fails(t, u) PROVE Plain'
  <2>1. status[t] = "run" /\ status' = status /\ hold' = hold
    BY <1>7 DEF fork_fails
  <2>2. \A s \in Task : s # t => pte'[s] = pte[s]
    BY <1>7 DEF fork_fails, Typed
  <2>3. \A s \in Task : s # t => Checked(s)'
    BY <2>1, <2>2, StillChecked DEF Plain
  <2> QED BY <2>1, <2>3 DEF Plain, Checked
<1>8. ASSUME NEW t \in Task, NEW k \in Page, get_empty_page(t, k) PROVE Plain'
  <2>1. PICK f \in NthFree(1) : pte' = [pte EXCEPT ![t][k] = [frame |-> f, w |-> TRUE, d |-> FALSE]]
    BY <1>8 DEF get_empty_page, PutPage
  <2>2. status' = status /\ hold' = hold
    BY <1>8 DEF get_empty_page
  <2>3. /\ pte'[t][k].w /\ \A j \in Page : j # k => pte'[t][j] = pte[t][j]
        /\ \A s \in Task : s # t => pte'[s] = pte[s]
    BY <2>1 DEF Typed
  <2>4. \A s \in Task : s # t => Checked(s)'
    BY <2>2, <2>3, StillChecked DEF Plain
  <2>5. status[t] = "write" => hold[t].page \in Page
    BY DEF Places, Placed
  <2>6. Checked(t)'
    BY <2>2, <2>3, <2>5 DEF Plain, Checked, Present
  <2> QED BY <2>2, <2>4, <2>6 DEF Plain
<1>9. ASSUME NEW t \in Task, NEW k \in Page, un_wp_page(t, k)
      PROVE  pte'[t][k].w /\ \A s \in Task : s # t => pte'[s] = pte[s]
  <2>1. CASE pte' = [pte EXCEPT ![t][k].w = TRUE]
    <3>1. pte[t][k] \in Entry
      BY DEF Typed
    <3>2. pte'[t][k] = [pte[t][k] EXCEPT !.w = TRUE] /\ \A s \in Task : s # t => pte'[s] = pte[s]
      BY <2>1 DEF Typed
    <3> QED BY <3>1, <3>2 DEF Entry
  <2>2. CASE \E f : pte' = [pte EXCEPT ![t][k] = [frame |-> f, w |-> TRUE, d |-> FALSE]]
    BY <2>2 DEF Typed
  <2> QED BY <1>9, <2>1, <2>2 DEF un_wp_page
<1>10. ASSUME NEW t \in Task, NEW k \in Page, do_wp_page(t, k) PROVE Plain'
  <2>1. status[t] = "run" /\ un_wp_page(t, k) /\ status' = status /\ hold' = hold
    BY <1>10 DEF do_wp_page
  <2>2. \A s \in Task : s # t => Checked(s)'
    BY <1>9, <2>1, StillChecked DEF Plain
  <2> QED BY <2>1, <2>2 DEF Plain, Checked
<1>11. ASSUME NEW t \in Task, NEW k \in Page, verify_area(t, k) PROVE Plain'
  <2>1. /\ status' = [status EXCEPT ![t] = "write"] /\ hold' = [hold EXCEPT ![t].page = k]
        /\ \/ un_wp_page(t, k)
           \/ (~Present(t, k) \/ pte[t][k].w) /\ pte' = pte
    BY <1>11 DEF verify_area
  <2>2. /\ status'[t] = "write" /\ hold'[t].page = k
        /\ \A s \in Task : s # t => status'[s] = status[s] /\ hold'[s] = hold[s]
    BY <2>1 DEF Typed
  <2>3. /\ pte'[t][k].frame # NONE => pte'[t][k].w
        /\ \A s \in Task : s # t => pte'[s] = pte[s]
    BY <1>9, <2>1 DEF Present
  <2>4. \A s \in Task : s # t => Checked(s)'
    BY <2>2, <2>3, StillChecked DEF Plain
  <2>5. Checked(t)'
    BY <2>2, <2>3 DEF Checked, Present
  <2> QED BY <2>2, <2>4, <2>5 DEF Plain, InTransit
<1>12. ASSUME NEW t \in Task, NEW k \in Page, user_write(t, k) PROVE Plain'
  <2>1. status' = status /\ hold' = hold /\ status[t] = "run"
    BY <1>12 DEF user_write
  <2>2. \A s \in Task : s # t => pte'[s] = pte[s]
    BY <1>12, StoreStep DEF user_write
  <2>3. \A s \in Task : s # t => Checked(s)'
    BY <2>1, <2>2, StillChecked DEF Plain
  <2> QED BY <2>1, <2>3 DEF Plain, Checked
<1>13. ASSUME NEW t \in Task, kernel_write(t) PROVE Plain'
  <2>1. /\ status[t] = "write" /\ status' = [status EXCEPT ![t] = "run"]
        /\ hold' = [hold EXCEPT ![t] = NoHold]
    BY <1>13 DEF kernel_write
  <2>2. hold[t].page \in Page
    BY <2>1 DEF Places, Placed
  <2>3. \A s \in Task : s # t => pte'[s] = pte[s]
    BY <1>13, <2>2, StoreStep DEF kernel_write
  <2>4. status'[t] = "run" /\ \A s \in Task : s # t => status'[s] = status[s] /\ hold'[s] = hold[s]
    BY <2>1 DEF Typed
  <2>5. \A s \in Task : s # t => Checked(s)'
    BY <2>3, <2>4, StillChecked DEF Plain
  <2> QED BY <2>4, <2>5 DEF Plain, InTransit, Checked
<1>14. CASE Next
  <2>1. PICK t \in Task :
          \/ sys_exit(t) \/ release(t) \/ oom(t)
          \/ \E u \in Task : sys_fork(t, u) \/ fork_fails(t, u)
          \/ \E k \in Page : \/ get_empty_page(t, k) \/ do_wp_page(t, k)
                             \/ user_write(t, k) \/ verify_area(t, k)
          \/ kernel_write(t)
    BY <1>14, NoPrograms
  <2> QED BY <2>1, <1>3, <1>4, <1>5, <1>6, <1>7, <1>8, <1>10, <1>11, <1>12, <1>13
<1> QED BY <1>1, <1>14

\* What a task sees, before and after a step.
Live == {"run", "write"}

LEMMA Seen ==
    ASSUME Exes = {}, Typed, Plain, NEW t \in Task, NEW k \in Page
    PROVE  /\ Sees(t, k) \in Val
           /\ Sees(t, k) = IF status[t] \in Live /\ pte[t][k].frame \in Frame
                           THEN content[pte[t][k].frame] ELSE Zero
<1>1. exe[t] = NoExe /\ status[t] \in Status \ InTransit /\ pte[t][k].frame \in Frame \cup {LOW, NONE}
  BY DEF Typed, Plain, Entry
<1>2. Image(exe[t], k) = Zero /\ Zero \in Val
  BY <1>1 DEF Image, Val
<1>3. Sees(t, k) = IF status[t] \in Live /\ pte[t][k].frame \in Frame
                   THEN content[pte[t][k].frame] ELSE Zero
  BY <1>1, <1>2, FrameIs DEF Sees, Present, Live, Status, InTransit
<1> QED BY <1>2, <1>3 DEF Typed

LEMMA SeenNext ==
    ASSUME Exes = {}, Typed', Plain', NEW t \in Task, NEW k \in Page
    PROVE  Sees(t, k)' = IF status'[t] \in Live /\ pte'[t][k].frame \in Frame
                         THEN content'[pte'[t][k].frame] ELSE Zero
<1>1. exe'[t] = NoExe /\ status'[t] \in Status \ InTransit
      /\ pte'[t][k].frame \in Frame \cup {LOW, NONE}
  BY DEF Typed, Plain, Entry
<1>2. Image(exe'[t], k) = Zero
  BY <1>1 DEF Image
<1> QED BY <1>1, <1>2, FrameIs DEF Sees, Present, Live, Status, InTransit

LEMMA Unseen ==
    ASSUME Exes = {}, Typed, Plain, Typed', Plain', NEW s \in Task, NEW j \in Page,
           status'[s] \in Live <=> status[s] \in Live,
           pte'[s][j].frame = pte[s][j].frame,
           pte[s][j].frame \in Frame => content'[pte[s][j].frame] = content[pte[s][j].frame]
    PROVE  Sees(s, j)' = Sees(s, j)
BY Seen, SeenNext

\* Nobody maps a free frame; a writable one is mapped once.
LEMMA Mapped ==
    ASSUME Counted, NEW s \in Task, NEW j \in Page, pte[s][j].frame \in Frame
    PROVE  /\ mem_map[pte[s][j].frame] # 0
           /\ \A t \in Task, k \in Page :
                 pte[t][k].w /\ pte[t][k].frame = pte[s][j].frame => t = s /\ k = j
<1>1. PICK T : T = Target(pte, dir, page0, hold)
  OBVIOUS
<1>2. Points(T, pte, dir, page0, hold)
  BY <1>1, TargetPoints
<1>3. Good(T, Hard(pte), mem_map)
  BY <1>1 DEF Counted
<1>4. PICK f \in Frame, y \in Ref : f = pte[s][j].frame /\ y = <<s, j, "pte">> /\ T[y] = f
  BY <1>2, RefIs, ZenonT(40) DEF Points
<1>5. mem_map[f] # 0
  BY <1>3, <1>4, FreeIsFree
<1>6. ASSUME NEW t \in Task, NEW k \in Page, pte[t][k].w, pte[t][k].frame = f
      PROVE  t = s /\ k = j
  <2>0. T[<<t, k, "pte">>] = f /\ <<t, k, "pte">> \in Ref
    <3>1. T[<<t, k, "pte">>] = pte[t][k].frame
      BY <1>2 DEF Points
    <3> QED BY <1>6, <3>1, RefIs
  <2>1. PICK x \in Ref : x = <<t, k, "pte">> /\ T[x] = f
    BY <2>0
  <2>2. x \in Hard(pte)
    BY <1>6, <2>1, HardIs
  <2>3. x = y
    BY <1>3, <1>4, <2>1, <2>2 DEF Good
  <2> QED BY <1>4, <2>1, <2>3
<1> QED BY <1>4, <1>5, <1>6

LEMMA MappedNext ==
    ASSUME Counted', NEW s \in Task, NEW j \in Page, pte'[s][j].frame \in Frame
    PROVE  mem_map'[pte'[s][j].frame] # 0
<1>1. PICK T : T = Target(pte', dir', page0', hold')
  OBVIOUS
<1>2. Points(T, pte', dir', page0', hold')
  BY <1>1, TargetPoints
<1>3. Good(T, Hard(pte'), mem_map')
  BY <1>1 DEF Counted
<1>4. PICK f \in Frame, y \in Ref : f = pte'[s][j].frame /\ T[y] = f
  BY <1>2, RefIs, ZenonT(40) DEF Points
<1> QED BY <1>3, <1>4, FreeIsFree

\* exit clears the memory of t; no other task notices.
LEMMA SeesExit ==
    ASSUME Exes = {}, Typed, Plain, Typed', Plain', Counted', NEW t \in Task, NEW extra,
           do_exit(t, extra), NEW s \in Task, NEW j \in Page
    PROVE  Sees(s, j)' = IF s = t THEN Zero ELSE Sees(s, j)
<1>1. /\ content' = Cleared(mem_map') /\ status' = [status EXCEPT ![t] = "zombie"]
      /\ pte' = [pte EXCEPT ![t] = [k \in Page |-> NotPresent]]
  BY DEF do_exit, FreePageTables
<1>2. CASE s = t
  <2>1. status'[s] = "zombie"
    BY <1>1, <1>2 DEF Typed
  <2> QED BY <1>2, <2>1, SeenNext DEF Live
<1>3. CASE s # t
  <2>1. status'[s] = status[s] /\ pte'[s][j] = pte[s][j]
    BY <1>1, <1>3 DEF Typed
  <2>2. pte[s][j].frame \in Frame => content'[pte[s][j].frame] = content[pte[s][j].frame]
    BY <1>1, <2>1, MappedNext DEF Cleared
  <2>3. Sees(s, j)' = Sees(s, j)
    BY <2>1, <2>2, Unseen
  <2> QED BY <1>3, <2>3
<1> QED BY <1>2, <1>3

LEMMA SeesFork ==
    ASSUME Exes = {}, Typed, Places, Plain, Typed', Plain', NEW t \in Task, NEW u \in Task,
           sys_fork(t, u), NEW s \in Task, NEW j \in Page
    PROVE  /\ t # u /\ Sees(u, j) = Zero
           /\ Sees(s, j)' = IF s = u THEN Sees(t, j) ELSE Sees(s, j)
<1>1. /\ t # u /\ status[t] = "run" /\ status[u] = "free"
      /\ \A q \in Task, k \in Page : q \notin {t, u} => pte'[q][k] = pte[q][k]
      /\ \A k \in Page : pte'[t][k].frame = pte[t][k].frame /\ pte'[u][k].frame = pte[t][k].frame
  BY ForkDoes
<1>2. content' = content /\ status' = [status EXCEPT ![u] = "run"]
  BY DEF sys_fork
<1>3. status'[u] = "run" /\ \A q \in Task : q # u => status'[q] = status[q]
  BY <1>2 DEF Typed
<1>4. Sees(u, j) = Zero
  BY <1>1, Seen DEF Live
<1>5. CASE s = u
  <2>1. Sees(u, j)' = Sees(t, j)
    BY <1>1, <1>2, <1>3, Seen, SeenNext DEF Live
  <2> QED BY <1>1, <1>4, <1>5, <2>1
<1>6. CASE s # u
  <2>1. pte'[s][j].frame = pte[s][j].frame /\ status'[s] = status[s]
    BY <1>1, <1>3, <1>6
  <2>2. Sees(s, j)' = Sees(s, j)
    BY <1>2, <2>1, Unseen
  <2> QED BY <1>1, <1>4, <1>6, <2>2
<1> QED BY <1>5, <1>6

\* A new page is as empty as the absent one was.
LEMMA SeesEmpty ==
    ASSUME Exes = {}, Typed, Counted, Plain, Typed', Plain', NEW t \in Task, NEW k \in Page,
           get_empty_page(t, k), NEW s \in Task, NEW j \in Page
    PROVE  Sees(s, j)' = Sees(s, j)
<1>1. PICK f \in NthFree(1) : /\ pte' = [pte EXCEPT ![t][k] = [frame |-> f, w |-> TRUE, d |-> FALSE]]
                              /\ content' = [content EXCEPT ![f] = Zero]
  BY DEF get_empty_page, PutPage
<1>2. f \in Frame /\ mem_map[f] = 0
  BY <1>1, NthFreeIs
<1>3. status' = status /\ pte[t][k].frame = NONE
  BY DEF get_empty_page, Faults, Present
<1>4. CASE s = t /\ j = k
  <2>1. pte'[s][j].frame = f /\ content'[f] = Zero
    BY <1>1, <1>2, <1>4 DEF Typed
  <2>2. Sees(s, j)' = Zero
    BY <2>1, SeenNext
  <2>3. Sees(s, j) = Zero
    BY <1>3, <1>4, FrameIs, Seen
  <2> QED BY <2>2, <2>3
<1>5. CASE ~(s = t /\ j = k)
  <2>1. pte'[s][j] = pte[s][j]
    BY <1>1, <1>5 DEF Typed
  <2>2. pte[s][j].frame \in Frame => pte[s][j].frame # f
    BY <1>2, Mapped
  <2>3. pte[s][j].frame \in Frame => content'[pte[s][j].frame] = content[pte[s][j].frame]
    BY <1>1, <2>2 DEF Typed
  <2> QED BY <1>3, <2>1, <2>3, Unseen
<1> QED BY <1>4, <1>5

\* A copy holds what the original does.
LEMMA SeesCopy ==
    ASSUME Exes = {}, Typed, Counted, Plain, Typed', Plain', NEW t \in Task, NEW k \in Page,
           un_wp_page(t, k), Present(t, k),
           \A q \in Task : status'[q] \in Live <=> status[q] \in Live,
           NEW s \in Task, NEW j \in Page
    PROVE  Sees(s, j)' = Sees(s, j)
<1>1. PICK old : old = pte[t][k].frame
  OBVIOUS
<1>2. CASE old \in Single
  <2>1. pte' = [pte EXCEPT ![t][k].w = TRUE] /\ content' = content
    BY <1>1, <1>2 DEF un_wp_page
  <2>2. pte[t][k] \in Entry
    BY DEF Typed
  <2>3. pte'[s][j].frame = pte[s][j].frame
    BY <2>1, <2>2 DEF Typed, Entry
  <2> QED BY <2>1, <2>3, Unseen
<1>3. CASE old \notin Single
  <2>1. PICK f \in NthFree(1) :
          /\ pte' = [pte EXCEPT ![t][k] = [frame |-> f, w |-> TRUE, d |-> FALSE]]
          /\ content' = [content EXCEPT ![f] = IF old = LOW THEN Zero ELSE content[old]]
    BY <1>1, <1>3 DEF un_wp_page
  <2>2. f \in Frame /\ mem_map[f] = 0
    BY <2>1, NthFreeIs
  <2>3. CASE s = t /\ j = k
    <3>1. pte'[s][j].frame = f /\ content'[f] = IF old = LOW THEN Zero ELSE content[old]
      BY <2>1, <2>2, <2>3 DEF Typed
    <3>2. old \in Frame \cup {LOW}
      BY <1>1 DEF Typed, Entry, Present
    <3> QED BY <1>1, <2>2, <2>3, <3>1, <3>2, FrameIs, Seen, SeenNext
  <2>4. CASE ~(s = t /\ j = k)
    <3>1. pte'[s][j] = pte[s][j]
      BY <2>1, <2>4 DEF Typed
    <3>2. pte[s][j].frame \in Frame => pte[s][j].frame # f
      BY <2>2, Mapped
    <3>3. pte[s][j].frame \in Frame => content'[pte[s][j].frame] = content[pte[s][j].frame]
      BY <2>1, <3>2 DEF Typed
    <3> QED BY <3>1, <3>3, Unseen
  <2> QED BY <2>3, <2>4
<1> QED BY <1>2, <1>3

\* A store to a page that is the task's own changes what it sees there.
LEMMA SeesStore ==
    ASSUME Exes = {}, Typed, Counted, Plain, Typed', Plain', NEW t \in Task, NEW k \in Page,
           NEW v \in Writes, Store(t, k, v), pte[t][k].w, status[t] \in Live,
           \A q \in Task : status'[q] \in Live <=> status[q] \in Live,
           NEW s \in Task, NEW j \in Page
    PROVE  Sees(s, j)' = IF s = t /\ j = k THEN v ELSE Sees(s, j)
<1>1. /\ content' = [content EXCEPT ![pte[t][k].frame] = v] /\ pte[t][k].frame \in Frame
  BY DEF Store
<1>2. pte'[s][j].frame = pte[s][j].frame
  BY StoreStep
<1>3. CASE s = t /\ j = k
  <2>1. content'[pte[t][k].frame] = v
    BY <1>1 DEF Typed
  <2> QED BY <1>1, <1>2, <1>3, <2>1, SeenNext
<1>4. CASE ~(s = t /\ j = k)
  <2>1. pte[s][j].frame \in Frame => pte[s][j].frame # pte[t][k].frame
    BY <1>4, Mapped
  <2>2. pte[s][j].frame \in Frame => content'[pte[s][j].frame] = content[pte[s][j].frame]
    BY <1>1, <2>1 DEF Typed
  <2>3. Sees(s, j)' = Sees(s, j)
    BY <1>2, <2>2, Unseen
  <2> QED BY <1>4, <2>3
<1> QED BY <1>3, <1>4

\* The memory of the abstract specification.
Mem == [t \in Task |-> [k \in Page |-> Sees(t, k)]]

LEMMA SameMem ==
    ASSUME \A s \in Task, j \in Page : Sees(s, j)' = Sees(s, j)
    PROVE  Mem' = Mem
BY DEF Mem

LEMMA ClearMem ==
    ASSUME NEW t \in Task,
           \A s \in Task, j \in Page : Sees(s, j)' = IF s = t THEN Zero ELSE Sees(s, j)
    PROVE  Mem' = [Mem EXCEPT ![t] = [k \in Page |-> Zero]]
BY DEF Mem

LEMMA EmptyRow ==
    ASSUME NEW u \in Task, \A j \in Page : Sees(u, j) = Zero
    PROVE  Mem[u] = [k \in Page |-> Zero]
BY DEF Mem

LEMMA ForkMem ==
    ASSUME NEW t \in Task, NEW u \in Task,
           \A s \in Task, j \in Page : Sees(s, j)' = IF s = u THEN Sees(t, j) ELSE Sees(s, j)
    PROVE  Mem' = [Mem EXCEPT ![u] = Mem[t]]
BY DEF Mem

LEMMA WriteMem ==
    ASSUME NEW t \in Task, NEW k \in Page, NEW v,
           \A s \in Task, j \in Page : Sees(s, j)' = IF s = t /\ j = k THEN v ELSE Sees(s, j)
    PROVE  Mem' = [Mem EXCEPT ![t][k] = v]
BY DEF Mem

LEMMA ForkFailsFrames ==
    ASSUME Typed, NEW t \in Task, NEW u \in Task, fork_fails(t, u)
    PROVE  \A s \in Task, j \in Page : pte'[s][j].frame = pte[s][j].frame
<1>1. PICK K : pte' = [pte EXCEPT ![t] = ReadOnly(t, K)]
  BY DEF fork_fails
<1>2. \A k \in Page : pte[t][k] \in Entry
  BY DEF Typed
<1>3. \A k \in Page : ReadOnly(t, K)[k].frame = pte[t][k].frame
  BY <1>2 DEF ReadOnly, Entry
<1> QED BY <1>1, <1>3 DEF Typed

\* Every step is one of the abstract memory, or none.
PrivateStep ==
    \E t \in Task :
        \/ \E k \in Page, v \in Val : Mem' = [Mem EXCEPT ![t][k] = v]
        \/ \E u \in Task : t # u /\ Mem[u] = [k \in Page |-> Zero] /\ Mem' = [Mem EXCEPT ![u] = Mem[t]]
        \/ Mem' = [Mem EXCEPT ![t] = [k \in Page |-> Zero]]

LEMMA StepIsPrivate ==
    ASSUME Exes = {}, Typed, Places, Counted, Plain, Typed', Places', Counted', Plain', [Next]_vars
    PROVE  PrivateStep \/ Mem' = Mem
<1>1. CASE UNCHANGED vars
  <2>1. content' = content /\ pte' = pte /\ status' = status
    BY <1>1 DEF vars
  <2>2. \A s \in Task, j \in Page : Sees(s, j)' = Sees(s, j)
    BY <2>1, Unseen
  <2> QED BY <2>2, SameMem
<1>2. ASSUME NEW t \in Task, NEW extra, do_exit(t, extra) PROVE PrivateStep
  <2>1. \A s \in Task, j \in Page : Sees(s, j)' = IF s = t THEN Zero ELSE Sees(s, j)
    BY <1>2, SeesExit
  <2>2. Mem' = [Mem EXCEPT ![t] = [k \in Page |-> Zero]]
    BY <2>1, ClearMem
  <2> QED BY <2>2 DEF PrivateStep
<1>3. ASSUME NEW t \in Task, sys_exit(t) PROVE PrivateStep
  BY <1>2, <1>3 DEF sys_exit
<1>4. ASSUME NEW t \in Task, oom(t) PROVE PrivateStep
  BY <1>2, <1>4 DEF oom
<1>5. ASSUME NEW t \in Task, release(t) PROVE Mem' = Mem
  <2>1. /\ content' = content /\ pte' = pte /\ status' = [status EXCEPT ![t] = "free"]
        /\ status[t] = "zombie"
    BY <1>5 DEF release
  <2>2. \A s \in Task : status'[s] \in Live <=> status[s] \in Live
    BY <2>1 DEF Typed, Live
  <2>3. \A s \in Task, j \in Page : Sees(s, j)' = Sees(s, j)
    BY <2>1, <2>2, Unseen
  <2> QED BY <2>3, SameMem
<1>6. ASSUME NEW t \in Task, NEW u \in Task, sys_fork(t, u) PROVE PrivateStep
  <2>1. \A s \in Task, j \in Page : /\ t # u /\ Sees(u, j) = Zero
                                    /\ Sees(s, j)' = IF s = u THEN Sees(t, j) ELSE Sees(s, j)
    BY <1>6, SeesFork
  <2>2. Mem' = [Mem EXCEPT ![u] = Mem[t]]
    BY <2>1, ForkMem
  <2>3. \A j \in Page : Sees(u, j) = Zero
    BY <2>1
  <2>5. Mem[u] = [k \in Page |-> Zero]
    BY <2>3, EmptyRow
  <2>4. t # u
    BY <1>6, ForkDoes
  <2> QED BY <2>2, <2>4, <2>5 DEF PrivateStep
<1>7. ASSUME NEW t \in Task, NEW u \in Task, fork_fails(t, u) PROVE Mem' = Mem
  <2>1. content' = content /\ status' = status
    BY <1>7 DEF fork_fails
  <2>2. \A s \in Task, j \in Page : pte'[s][j].frame = pte[s][j].frame
    BY <1>7, ForkFailsFrames
  <2>3. \A s \in Task, j \in Page : Sees(s, j)' = Sees(s, j)
    BY <2>1, <2>2, Unseen
  <2> QED BY <2>3, SameMem
<1>8. ASSUME NEW t \in Task, NEW k \in Page, get_empty_page(t, k) PROVE Mem' = Mem
  <2>1. \A s \in Task, j \in Page : Sees(s, j)' = Sees(s, j)
    BY <1>8, SeesEmpty
  <2> QED BY <2>1, SameMem
<1>9. ASSUME NEW t \in Task, NEW k \in Page, do_wp_page(t, k) PROVE Mem' = Mem
  <2>1. un_wp_page(t, k) /\ Present(t, k) /\ status' = status
    BY <1>9 DEF do_wp_page
  <2>2. \A s \in Task, j \in Page : Sees(s, j)' = Sees(s, j)
    BY <2>1, SeesCopy
  <2> QED BY <2>2, SameMem
<1>10. ASSUME NEW t \in Task, NEW k \in Page, verify_area(t, k) PROVE Mem' = Mem
  <2>1. /\ status[t] = "run" /\ status' = [status EXCEPT ![t] = "write"]
        /\ \/ un_wp_page(t, k) /\ Present(t, k)
           \/ content' = content /\ pte' = pte
    BY <1>10 DEF verify_area
  <2>2. \A q \in Task : status'[q] \in Live <=> status[q] \in Live
    BY <2>1 DEF Typed, Live
  <2>3. \A s \in Task, j \in Page : Sees(s, j)' = Sees(s, j)
    <3>1. CASE un_wp_page(t, k) /\ Present(t, k)
      BY <2>2, <3>1, SeesCopy
    <3>2. CASE content' = content /\ pte' = pte
      BY <2>2, <3>2, Unseen
    <3> QED BY <2>1, <3>1, <3>2
  <2> QED BY <2>3, SameMem
<1>11. Writes \subseteq Val
  BY MemoryAssumption DEF Val, Zero, Written
<1>12. ASSUME NEW t \in Task, NEW k \in Page, user_write(t, k) PROVE PrivateStep
  <2>1. PICK v \in Writes : Store(t, k, v)
    BY <1>12 DEF user_write
  <2>2. pte[t][k].w /\ status[t] \in Live /\ status' = status
    BY <1>12 DEF user_write, Live
  <2>3. \A s \in Task, j \in Page : Sees(s, j)' = IF s = t /\ j = k THEN v ELSE Sees(s, j)
    BY <2>1, <2>2, SeesStore
  <2>4. Mem' = [Mem EXCEPT ![t][k] = v]
    BY <2>3, WriteMem
  <2> QED BY <1>11, <2>4 DEF PrivateStep
<1>13. ASSUME NEW t \in Task, kernel_write(t) PROVE PrivateStep \/ Mem' = Mem
  <2>1. /\ status[t] = "write" /\ status' = [status EXCEPT ![t] = "run"]
    BY <1>13 DEF kernel_write
  <2>2. \A q \in Task : status'[q] \in Live <=> status[q] \in Live
    BY <2>1 DEF Typed, Live
  <2>3. PICK k \in Page : k = hold[t].page
    BY <2>1 DEF Places, Placed
  <2>4. CASE content' = content /\ pte' = pte
    <3>1. \A s \in Task, j \in Page : Sees(s, j)' = Sees(s, j)
      BY <2>2, <2>4, Unseen
    <3> QED BY <3>1, SameMem
  <2>5. CASE \E v \in Writes : Store(t, k, v)
    <3>1. PICK v \in Writes : Store(t, k, v)
      BY <2>5
    <3>2. pte[t][k].w
      BY <2>1, <2>3, <3>1, FrameIs DEF Plain, Checked, Present, Store
    <3>3. status[t] \in Live
      BY <2>1 DEF Live
    <3>4. \A s \in Task, j \in Page : Sees(s, j)' = IF s = t /\ j = k THEN v ELSE Sees(s, j)
      BY <2>2, <3>1, <3>2, <3>3, SeesStore
    <3>5. Mem' = [Mem EXCEPT ![t][k] = v]
      BY <3>4, WriteMem
    <3> QED BY <1>11, <3>5 DEF PrivateStep
  <2> QED BY <1>13, <2>3, <2>4, <2>5 DEF kernel_write
<1>14. CASE Next
  <2>1. PICK t \in Task :
          \/ sys_exit(t) \/ release(t) \/ oom(t)
          \/ \E u \in Task : sys_fork(t, u) \/ fork_fails(t, u)
          \/ \E k \in Page : \/ get_empty_page(t, k) \/ do_wp_page(t, k)
                             \/ user_write(t, k) \/ verify_area(t, k)
          \/ kernel_write(t)
    BY <1>14, NoPrograms
  <2> QED BY <2>1, <1>3, <1>4, <1>5, <1>6, <1>7, <1>8, <1>9, <1>10, <1>12, <1>13
<1> QED BY <1>1, <1>14

\* Copy on write cannot be seen: with no programs to execute, fork, faults,
\* stores by the user and by the kernel, exit and running out of memory
\* implement memory that is private to each task.
THEOREM MemoryIsPrivate ==
    ASSUME Exes = {}
    PROVE  Spec => PrivateSpec
<1>1. Init => Plain
  <2> SUFFICES ASSUME Init PROVE Plain
    OBVIOUS
  <2>1. \A t \in Task : status[t] \in {"run", "free"}
    BY DEF Init
  <2> QED BY <2>1 DEF Plain, InTransit, Checked
<1>2. Init => Private!Init
  <2> SUFFICES ASSUME Init PROVE Private!Init
    OBVIOUS
  <2>1. Typed /\ Plain
    BY <1>1, MemoryInit
  <2>2. \A t \in Task, k \in Page : pte[t][k].frame \notin Frame
    BY FrameIs DEF Init, NotPresent
  <2>3. \A t \in Task, k \in Page : Sees(t, k) = Zero
    BY <2>1, <2>2, Seen
  <2> QED BY <2>3 DEF Private!Init, Private!Blank
<1>3. Typed /\ Places /\ Plain /\ [Next]_vars => Plain'
  BY PlainNext
<1>4. /\ Typed /\ Places /\ Counted /\ Plain
      /\ (Typed /\ Places /\ Counted)' /\ Plain' /\ [Next]_vars
      => [Private!Next]_Mem
  <2> SUFFICES ASSUME Typed, Places, Counted, Plain, Typed', Places', Counted', Plain', [Next]_vars
               PROVE  Private!Next \/ Mem' = Mem
    OBVIOUS
  <2>1. PrivateStep \/ Mem' = Mem
    BY StepIsPrivate
  <2>2. PrivateStep => Private!Next
    BY DEF PrivateStep, Mem, Private!Next, Private!Write, Private!Fork, Private!Clear, Private!Blank
  <2> QED BY <2>1, <2>2
<1>5. [Private!Next]_Mem => [Private!Next]_([t \in Task |-> [k \in Page |-> Sees(t, k)]])
  BY DEF Mem
<1> QED BY <1>1, <1>2, <1>3, <1>4, <1>5, MemoryInvariant, PTL DEF Spec, PrivateSpec, Private!Spec
=============================================================================
