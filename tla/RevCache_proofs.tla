--------------------------- MODULE RevCache_proofs ---------------------------
(***************************************************************************)
(* Proofs about the reverse lookup cache, for any number of instances,     *)
(* cells and simplexes, any candidate lists, sizes and limits.             *)
(*                                                                         *)
(* IInv is the inductive invariant.  Beside the properties it says where   *)
(* the hashed cells are in the middle of a larger index being allocated    *)
(* (TableOK), what a fetch knows of the cell in hand between its miss and  *)
(* its lock (PhaseOK), that the cells of a list are all different and no   *)
(* two lists have one in common (ListsOK), and how far over the limit each *)
(* step of a fetch may be (FetchLimit).  There is a lemma for each of its  *)
(* parts, with a frame lemma that says which steps can disturb it.         *)
(***************************************************************************)
EXTENDS RevCache, FiniteSetTheorems, SequenceTheorems, WellFoundedInduction, TLAPS

\* the cells in the chains of an instance, the simplexes in its index
Hashed(i) == UNION Range(tab[i])
Live(i)   == {x \in Simplexes : sref[i][x] > 0}

\* a cell is in one list, once; without a cache there is no list
ListsOK ==
    /\ \A i \in Instances : IsInjective(mru[i])
    /\ \A i \in Instances \ made : mru[i] = <<>>
    /\ \A i, j \in Instances : i # j => InList(i) \cap InList(j) = {}

\* a cell is locked once at most, and one that is in no list is clear
CellsOK ==
    \A c \in Cells :
        /\ ref[c] <= 1
        /\ Free(c) => ref[c] = 0 /\ sx[c] = {}
        /\ ready[c] => data[c] = ix[c]

\* The chains are sound.  Between the new cell_hash_size and the larger index,
\* they are still those of the old size, one that was large enough for the first.
TableOK(i) ==
    /\ hsize[i] \in Range(Primes)
    /\ tab[i] = [h \in DOMAIN tab[i] |-> tab[i][h]]
    /\ Hashed(i) \subseteq InList(i)
    /\ \A c, d \in Hashed(i) : ix[c] = ix[d] => c = d
    /\ IF pc = "resize" /\ i = on
       THEN \E n \in Primes[1]..hsize[i] : DOMAIN tab[i] = 0..(n - 1)
       ELSE /\ DOMAIN tab[i] = 0..(hsize[i] - 1)
            /\ \A h \in DOMAIN tab[i] : \A c \in tab[i][h] : Hash(i, ix[c]) = h

TablesOK ==
    /\ tab = [i \in Instances |-> tab[i]]
    /\ \A i \in made : TableOK(i)

\* (an instance without a cache has no table)
UnmadeOK == \A i \in Instances \ made : tab[i] = <<>>

\* inside get_fxcell; after its lookup has missed; with a cell taken for it;
\* inside alloc_simplexes (each also while a failed allocation is taken up)
Fetching == pc \in {"shed", "lookup", "reuse", "grow", "resize", "place", "fetched"}
            \/ (pc = "reduce" /\ back = "grow")
Missed == pc \in {"reuse", "grow", "resize", "place"} \/ (pc = "reduce" /\ back = "grow")
InHand == pc \in {"resize", "place"}
Allocating == pc \in {"alloc", "trim"} \/ (pc = "reduce" /\ back = "alloc")

\* what holds where
PhaseOK ==
    /\ back # "resize" /\ (pc # "reduce" => back = "idle")
    /\ pc = "idle" \/ (pc = "reduce" /\ back = "idle") => lclist = {}
    /\ ~(pc = "idle" \/ (pc = "reduce" /\ back = "idle")) => on \in insts
    /\ Fetching => list # <<>> /\ Wanted \notin touched
    /\ Missed => \A c \in Hashed(on) : ix[c] # Wanted
    /\ InHand => /\ cell \in InList(on) \ Hashed(on)
                 /\ ref[cell] = 0 /\ sx[cell] = {}
    /\ pc = "fetched" => /\ cell \in Hashed(on) \ lclist
                         /\ ix[cell] = Wanted /\ ref[cell] = 1
    /\ Allocating => /\ cell \in lclist
                     /\ todo \subseteq SimplexesOf[ix[cell]] \ sx[cell]
    /\ pc = "compute" => cell \in lclist

\* rev.sz, by the simplexes that are counted
Accounted ==
    \A i \in made :
        sz[i] = base[i] + EntrySz * Cardinality(DOMAIN tab[i])
                + CellSz * Cardinality(InList(i)) + SimplexSz * Cardinality(Live(i))

\* the memory, from the end of the loop that throws cells out to the lock
FetchLimit ==
    /\ pc \in {"lookup", "reuse", "grow"} => sz[on] <= maxSz[on] \/ nunlocked[on] = 0
    /\ pc = "resize" => sz[on] <= maxSz[on] + CellSz \/ nunlocked[on] = 1
    /\ pc = "place"  => sz[on] <= maxSz[on] + CellSz + EntrySz * (hsize[on] - Primes[1])
                        \/ nunlocked[on] = 1
    /\ pc = "fetched" => sz[on] <= maxSz[on] + CellSz + EntrySz * (hsize[on] - Primes[1])
                        \/ nunlocked[on] = 0

\* the shares keep to the limit they were given out from
SharesOK == \A i \in insts : maxSz[i] * Cardinality(insts) <= avail \/ avail = Ram

IInv == /\ TypeOK /\ ListsOK /\ CellsOK /\ LocksCounted /\ TablesOK /\ UnmadeOK /\ PhaseOK
        /\ LockedAreCurrent /\ SimplexRefs /\ Accounted /\ FetchLimit /\ SharesOK

-----------------------------------------------------------------------------
(***************************************************************************)
(* Least elements, sequences without repetitions.                          *)
(***************************************************************************)
\* Among sets of elements of a finite set there is one that contains none of
\* the others.
LEMMA MinimalSubset ==
    ASSUME NEW S, IsFiniteSet(S), NEW T, T \subseteq SUBSET S, T # {}
    PROVE  \E m \in T : \A y \in T : y \subseteq m => y = m
<1>1. IsWellFoundedOn(StrictSubsetOrdering(S), SUBSET S)
  BY FS_StrictSubsetOrderingWellFounded, FS_FiniteSubsetsOfFinite
<1>2. \E m \in T : \A y \in T : ~(<<y, m>> \in StrictSubsetOrdering(S))
  BY <1>1, WFMin
<1> QED BY <1>2 DEF StrictSubsetOrdering

\* A set of natural numbers has a least one.
LEMMA LeastNatural ==
    ASSUME NEW T, T \subseteq Nat, T # {}
    PROVE  \E m \in T : \A y \in T : m <= y
<1>1. PICK n \in T : TRUE
  OBVIOUS
<1>2. IsFiniteSet(0..n)
  BY <1>1, FS_Interval
<1> DEFINE Below == {0..k : k \in {l \in T : l <= n}}
<1>3. Below \subseteq SUBSET (0..n)
  BY <1>1
<1>4. 0..n \in Below
  BY <1>1
<1>5. PICK M \in Below : \A y \in Below : y \subseteq M => y = M
  <2> DEFINE All == 0..n
  <2>1. Below # {} /\ IsFiniteSet(All) /\ Below \subseteq SUBSET All
    BY <1>2, <1>3, <1>4
  <2> HIDE DEF Below, All
  <2> QED BY <2>1, MinimalSubset
<1>6. PICK m \in T : m <= n /\ M = 0..m
  BY <1>5
<1>7. ASSUME NEW y \in T, ~(m <= y)
      PROVE  FALSE
  <2>1. 0..y \in Below /\ 0..y \subseteq M
    BY <1>1, <1>6, <1>7
  <2>2. 0..y = 0..m
    BY <1>5, <1>6, <2>1
  <2> QED BY <1>6, <1>7, <2>2
<1> QED BY <1>6, <1>7

\* The mru list without the cell at one of its positions.
LEMMA Removed ==
    ASSUME NEW S, NEW s \in Seq(S), IsInjective(s), NEW p \in DOMAIN s
    PROVE  /\ RemoveAt(s, p) \in Seq(S)
           /\ IsInjective(RemoveAt(s, p))
           /\ Range(RemoveAt(s, p)) = Range(s) \ {s[p]}
           /\ Len(RemoveAt(s, p)) = Len(s) - 1
<1> DEFINE t == RemoveAt(s, p)
<1>1. /\ Len(s) \in Nat /\ DOMAIN s = 1..Len(s) /\ p \in 1..Len(s)
      /\ \A q \in 1..Len(s) : s[q] \in S
  BY LenProperties
<1>2. /\ SubSeq(s, 1, p - 1) \in Seq(S)
      /\ Len(SubSeq(s, 1, p - 1)) = p - 1
      /\ \A q \in 1..(p - 1) : SubSeq(s, 1, p - 1)[q] = s[q]
  BY <1>1, SubSeqProperties, Z3
<1>3. /\ SubSeq(s, p + 1, Len(s)) \in Seq(S)
      /\ Len(SubSeq(s, p + 1, Len(s))) = Len(s) - p
      /\ \A q \in 1..(Len(s) - p) : SubSeq(s, p + 1, Len(s))[q] = s[p + q]
  BY <1>1, SubSeqProperties, Z3
<1>4. /\ t \in Seq(S) /\ Len(t) = Len(s) - 1
      /\ \A q \in 1..(Len(s) - 1) : t[q] = IF q < p THEN s[q] ELSE s[q + 1]
  <2> DEFINE u == SubSeq(s, 1, p - 1)
             v == SubSeq(s, p + 1, Len(s))
  <2>1. t = u \o v
    BY DEF RemoveAt
  <2>2. u \in Seq(S) /\ Len(u) = p - 1 /\ v \in Seq(S) /\ Len(v) = Len(s) - p
    BY <1>2, <1>3
  <2> HIDE DEF u, v, t
  <2>3. /\ u \o v \in Seq(S) /\ Len(u \o v) = Len(u) + Len(v)
        /\ \A q \in 1..(Len(u) + Len(v)) :
              (u \o v)[q] = IF q <= Len(u) THEN u[q] ELSE v[q - Len(u)]
    BY <2>2, ConcatProperties
  <2>4. ASSUME NEW q \in 1..(Len(s) - 1)
        PROVE  t[q] = IF q < p THEN s[q] ELSE s[q + 1]
    <3>1. CASE q < p
      BY <1>1, <1>2, <2>1, <2>2, <2>3, <3>1 DEF u
    <3>2. CASE ~(q < p)
      <4>1. q - (p - 1) \in 1..(Len(s) - p) /\ p + (q - (p - 1)) = q + 1
        BY <1>1, <3>2
      <4>2. v[q - (p - 1)] = s[q + 1]
        BY <1>3, <4>1 DEF v
      <4>3. t[q] = v[q - (p - 1)]
        BY <1>1, <2>1, <2>2, <2>3, <3>2
      <4> QED BY <3>2, <4>2, <4>3
    <3> QED BY <3>1, <3>2
  <2> QED BY <1>1, <2>1, <2>2, <2>3, <2>4
<1>5. DOMAIN t = 1..(Len(s) - 1)
  BY <1>4, LenProperties
<1> HIDE DEF t
<1>6. IsInjective(t)
  BY <1>1, <1>4, <1>5 DEF IsInjective
<1>7. Range(t) \subseteq Range(s) \ {s[p]}
  BY <1>1, <1>4, <1>5, SMTT(30) DEF IsInjective, Range
<1>8. ASSUME NEW c \in Range(s), c # s[p]
      PROVE  c \in Range(t)
  <2>1. PICK q \in 1..Len(s) : s[q] = c
    BY <1>1 DEF Range
  <2>2. CASE q < p
    BY <1>1, <1>4, <1>5, <2>1, <2>2 DEF Range
  <2>3. CASE q > p
    <3>1. q - 1 \in DOMAIN t /\ t[q - 1] = s[q]
      BY <1>1, <1>4, <1>5, <2>1, <2>3
    <3> QED BY <2>1, <3>1 DEF Range
  <2> QED BY <1>1, <1>8, <2>1, <2>2, <2>3
<1>9. QED
  BY <1>4, <1>6, <1>7, <1>8 DEF t

\* ... with a cell more at its top,
LEMMA Appended ==
    ASSUME NEW S, NEW s \in Seq(S), IsInjective(s), NEW c \in S, c \notin Range(s)
    PROVE  /\ Append(s, c) \in Seq(S)
           /\ IsInjective(Append(s, c))
           /\ Range(Append(s, c)) = Range(s) \union {c}
           /\ Len(Append(s, c)) = Len(s) + 1
<1> DEFINE t == Append(s, c)
<1>1. Len(s) \in Nat /\ DOMAIN s = 1..Len(s)
  BY LenProperties
<1>2. /\ t \in Seq(S) /\ Len(t) = Len(s) + 1
      /\ \A q \in 1..Len(s) : t[q] = s[q]
      /\ t[Len(s) + 1] = c
  BY AppendProperties
<1>3. DOMAIN t = 1..(Len(s) + 1)
  BY <1>2, LenProperties
<1> HIDE DEF t
<1>4. IsInjective(t) /\ Range(t) = Range(s) \union {c}
  BY <1>1, <1>2, <1>3 DEF IsInjective, Range
<1> QED BY <1>2, <1>4 DEF t

\* ... and at its bottom.
LEMMA Prepended ==
    ASSUME NEW S, NEW s \in Seq(S), IsInjective(s), NEW c \in S, c \notin Range(s)
    PROVE  /\ <<c>> \o s \in Seq(S)
           /\ IsInjective(<<c>> \o s)
           /\ Range(<<c>> \o s) = Range(s) \union {c}
           /\ Len(<<c>> \o s) = Len(s) + 1
<1> DEFINE t == <<c>> \o s
<1>1. Len(s) \in Nat /\ DOMAIN s = 1..Len(s)
  BY LenProperties
<1>2. <<c>> \in Seq(S) /\ Len(<<c>>) = 1 /\ <<c>>[1] = c
  OBVIOUS
<1>3. /\ t \in Seq(S) /\ Len(t) = Len(s) + 1
      /\ \A q \in 1..(Len(s) + 1) : t[q] = IF q = 1 THEN c ELSE s[q - 1]
  BY <1>1, <1>2, ConcatProperties, Z3
<1>4. DOMAIN t = 1..(Len(s) + 1)
  BY <1>3, LenProperties
<1> HIDE DEF t
<1>5. IsInjective(t)
  BY <1>1, <1>3, <1>4 DEF IsInjective, Range
<1>6. Range(t) \subseteq Range(s) \union {c}
  BY <1>1, <1>3, <1>4 DEF Range
<1>7. ASSUME NEW d \in Range(s) \union {c}
      PROVE  d \in Range(t)
  <2>1. CASE d = c
    <3>1. 1 \in DOMAIN t /\ t[1] = c
      BY <1>1, <1>3, <1>4
    <3> QED BY <2>1, <3>1 DEF Range
  <2>2. CASE d \in Range(s)
    <3>1. PICK q \in 1..Len(s) : s[q] = d
      BY <1>1, <2>2 DEF Range
    <3>2. q + 1 \in DOMAIN t /\ t[q + 1] = d
      BY <1>1, <1>3, <1>4, <3>1
    <3> QED BY <3>2 DEF Range
  <2> QED BY <1>7, <2>1, <2>2
<1> QED BY <1>3, <1>5, <1>6, <1>7 DEF t

-----------------------------------------------------------------------------
(***************************************************************************)
(* What leaves what alone.                                                 *)
(***************************************************************************)
LEMMA ListFrame ==
    ASSUME Next
    PROVE  \/ UNCHANGED <<made, mru>>
           \/ \E i \in Instances : MakeRev(i) \/ FreeRev(i) \/ Shed(i)
           \/ ReuseFrees \/ Hit \/ Place
           \/ \E c \in Cells : Grow(c)
BY DEF Next, Caller, Lookup, Stopped, vars, memVars, cacheVars, cellVars, searchVars, allocVars,
       InitRevaccell, Invalidate, StartSearch, ShedDone, ReduceDone, MallocFails, GetCell, Skip,
       NoRoom, Miss, Resize, ReuseCell, SetSort, ListEnds, SearchCell, PassOver, Leave,
       ShareSimplex, NewSimplex, AllocDone, Compute, NextChunk, SearchDone

-----------------------------------------------------------------------------
(***************************************************************************)
(* The steps on the mru lists, seen as sets of cells.                      *)
(***************************************************************************)
\* A list has finitely many cells, all of them addresses calloc gave.
LEMMA InListFinite ==
    ASSUME TypeOK, NEW i \in Instances
    PROVE  /\ InList(i) \subseteq Cells
           /\ \A S \in SUBSET InList(i) : IsFiniteSet(S) /\ Cardinality(S) \in Nat
<1>1. InList(i) \subseteq Cells
  <2>1. mru[i] \in [DOMAIN mru[i] -> Cells]
    BY LenProperties DEF TypeOK
  <2> QED BY <2>1 DEF InList, Range
<1>2. IsFiniteSet(InList(i))
  BY <1>1, SetsAssumption, FS_Subset
<1>3. ASSUME NEW S \in SUBSET InList(i)
      PROVE  IsFiniteSet(S) /\ Cardinality(S) \in Nat
  BY <1>2, FS_Subset, FS_CardinalityType
<1> QED BY <1>1, <1>3

\* A list that has an unlocked cell has a least recently used one.
LEMMA VictimFound ==
    ASSUME TypeOK, NEW i \in Instances, HasVictim(i)
    PROVE  /\ Victim(i) \in DOMAIN mru[i]
           /\ mru[i][Victim(i)] \in InList(i)
           /\ ref[mru[i][Victim(i)]] = 0
<1> DEFINE T == {p \in DOMAIN mru[i] : ref[mru[i][p]] = 0}
<1>1. /\ DOMAIN mru[i] = 1..Len(mru[i]) /\ Len(mru[i]) \in Nat
      /\ \A p \in DOMAIN mru[i] : mru[i][p] \in Cells
  BY LenProperties DEF TypeOK
<1>2. T \subseteq Nat /\ T # {}
  BY <1>1 DEF HasVictim
<1>3. PICK m \in T : \A y \in T : m <= y
  <2> HIDE DEF T
  <2> QED BY <1>2, LeastNatural
<1>4. ASSUME NEW q \in 1..(m - 1)
      PROVE  ref[mru[i][q]] > 0
  <2>1. q \in DOMAIN mru[i] /\ q \notin T
    BY <1>1, <1>3
  <2>2. ref[mru[i][q]] \in Nat
    BY <1>1, <2>1 DEF TypeOK
  <2> QED BY <2>1, <2>2
<1>5. /\ Victim(i) \in DOMAIN mru[i]
      /\ ref[mru[i][Victim(i)]] = 0
  BY <1>3, <1>4 DEF Victim
<1> QED BY <1>5 DEF InList, Range

\* decrease_revcache takes its cell out of the list.
LEMMA DiscardLists ==
    ASSUME TypeOK, ListsOK, NEW i \in Instances, NEW p \in DOMAIN mru[i], Discard(i, p)
    PROVE  /\ mru[i][p] \in InList(i)
           /\ mru' \in [Instances -> Seq(Cells)]
           /\ \A j \in Instances : IsInjective(mru'[j])
           /\ InList(i)' = InList(i) \ {mru[i][p]}
           /\ Len(mru'[i]) = Len(mru[i]) - 1
           /\ \A j \in Instances \ {i} : mru'[j] = mru[j] /\ InList(j)' = InList(j)
<1>1. mru[i] \in Seq(Cells) /\ IsInjective(mru[i])
  BY DEF TypeOK, ListsOK
<1>2. mru' = [mru EXCEPT ![i] = RemoveAt(mru[i], p)]
  BY DEF Discard
<1>3. /\ mru'[i] = RemoveAt(mru[i], p)
      /\ \A j \in Instances \ {i} : mru'[j] = mru[j]
  BY <1>2 DEF TypeOK
<1>4. /\ RemoveAt(mru[i], p) \in Seq(Cells)
      /\ IsInjective(RemoveAt(mru[i], p))
      /\ Range(RemoveAt(mru[i], p)) = Range(mru[i]) \ {mru[i][p]}
      /\ Len(RemoveAt(mru[i], p)) = Len(mru[i]) - 1
  BY <1>1, Removed
<1>5. mru' \in [Instances -> Seq(Cells)]
  BY <1>2, <1>4 DEF TypeOK
<1>6. mru[i][p] \in InList(i)
  BY DEF InList, Range
<1>7. \A j \in Instances : IsInjective(mru'[j])
  BY <1>3, <1>4 DEF ListsOK
<1>8. InList(i)' = InList(i) \ {mru[i][p]}
  BY <1>3, <1>4 DEF InList
<1>9. \A j \in Instances \ {i} : InList(j)' = InList(j)
  BY <1>3 DEF InList
<1> QED BY <1>3, <1>4, <1>5, <1>6, <1>7, <1>8, <1>9

\* A cell that is locked changes its place in the list.
LEMMA LockLists ==
    ASSUME TypeOK, ListsOK, NEW c \in InList(on), Lock(c)
    PROVE  /\ mru' \in [Instances -> Seq(Cells)]
           /\ \A j \in Instances : /\ IsInjective(mru'[j])
                                   /\ InList(j)' = InList(j)
                                   /\ Len(mru'[j]) = Len(mru[j])
<1> DEFINE q == CHOOSE q \in DOMAIN mru[on] : mru[on][q] = c
           s == RemoveAt(mru[on], q)
<1>1. on \in Instances /\ mru[on] \in Seq(Cells) /\ IsInjective(mru[on])
  BY DEF TypeOK, ListsOK
<1>2. q \in DOMAIN mru[on] /\ mru[on][q] = c
  BY DEF InList, Range
<1>3. mru' = [mru EXCEPT ![on] = Append(s, c)]
  BY DEF Lock
<1> HIDE DEF q
<1>4. /\ s \in Seq(Cells) /\ IsInjective(s)
      /\ Range(s) = Range(mru[on]) \ {c} /\ Len(s) = Len(mru[on]) - 1
  BY <1>1, <1>2, Removed
<1> HIDE DEF s
<1>5. c \in Cells /\ c \in Range(mru[on])
  BY <1>1, InListFinite DEF InList
<1>6. /\ Append(s, c) \in Seq(Cells) /\ IsInjective(Append(s, c))
      /\ Range(Append(s, c)) = Range(s) \union {c} /\ Len(Append(s, c)) = Len(s) + 1
  BY <1>4, <1>5, Appended
<1>7. mru'[on] = Append(s, c) /\ \A j \in Instances \ {on} : mru'[j] = mru[j]
  BY <1>1, <1>3 DEF TypeOK
<1>8. mru' \in [Instances -> Seq(Cells)]
  BY <1>1, <1>3, <1>6 DEF TypeOK
<1>9. Len(mru[on]) \in Nat
  BY <1>1, LenProperties
<1>10. ASSUME NEW j \in Instances
       PROVE  /\ IsInjective(mru'[j]) /\ InList(j)' = InList(j)
              /\ Len(mru'[j]) = Len(mru[j])
  <2>1. CASE j = on
    <3>1. (Range(mru[on]) \ {c}) \union {c} = Range(mru[on])
      BY <1>5
    <3>2. mru'[j] = Append(s, c) /\ mru[j] = mru[on]
      BY <1>7, <2>1
    <3>3. Range(mru'[j]) = Range(mru[j])
      BY <1>4, <1>6, <3>1, <3>2
    <3>4. Len(mru'[j]) = Len(mru[j])
      BY <1>4, <1>6, <1>9, <3>2
    <3>5. IsInjective(mru'[j])
      BY <1>6, <3>2
    <3> QED BY <3>3, <3>4, <3>5 DEF InList
  <2>2. CASE j # on
    BY <1>7, <2>2 DEF InList, ListsOK
  <2> QED BY <2>1, <2>2
<1> QED BY <1>8, <1>10

\* increase_revcache puts an address no list has into the list.
LEMMA GrowLists ==
    ASSUME TypeOK, ListsOK, NEW c \in Cells, Grow(c)
    PROVE  /\ \A j \in Instances : c \notin InList(j)
           /\ mru' \in [Instances -> Seq(Cells)]
           /\ \A j \in Instances : IsInjective(mru'[j])
           /\ \A j \in Instances : InList(j)' = IF j = on THEN InList(j) \union {c} ELSE InList(j)
           /\ Len(mru'[on]) = Len(mru[on]) + 1
           /\ \A j \in Instances \ {on} : mru'[j] = mru[j]
<1>1. on \in Instances /\ mru[on] \in Seq(Cells) /\ IsInjective(mru[on])
  BY DEF TypeOK, ListsOK
<1>2. \A j \in Instances : c \notin InList(j)
  BY DEF Grow, Free, InList
<1>3. mru' = [mru EXCEPT ![on] = <<c>> \o mru[on]]
  BY DEF Grow
<1>4. /\ <<c>> \o mru[on] \in Seq(Cells) /\ IsInjective(<<c>> \o mru[on])
      /\ Range(<<c>> \o mru[on]) = Range(mru[on]) \union {c}
      /\ Len(<<c>> \o mru[on]) = Len(mru[on]) + 1
  BY <1>1, <1>2, Prepended DEF InList
<1>5. mru'[on] = <<c>> \o mru[on] /\ \A j \in Instances \ {on} : mru'[j] = mru[j]
  BY <1>1, <1>3 DEF TypeOK
<1>6. mru' \in [Instances -> Seq(Cells)]
  BY <1>1, <1>3, <1>4 DEF TypeOK
<1>7. \A j \in Instances : IsInjective(mru'[j])
  BY <1>4, <1>5 DEF ListsOK
<1>8. ASSUME NEW j \in Instances
      PROVE  InList(j)' = IF j = on THEN InList(j) \union {c} ELSE InList(j)
  BY <1>4, <1>5 DEF InList
<1> QED BY <1>2, <1>4, <1>5, <1>6, <1>7, <1>8

\* free_revcache empties the list, and nothing else touches a list.
LEMMA FreeLists ==
    ASSUME TypeOK, ListsOK, NEW i \in Instances, FreeRev(i)
    PROVE  /\ mru' \in [Instances -> Seq(Cells)]
           /\ mru'[i] = <<>> /\ InList(i)' = {}
           /\ \A j \in Instances \ {i} : mru'[j] = mru[j] /\ InList(j)' = InList(j)
           /\ \A j \in Instances : IsInjective(mru'[j])
<1>1. mru' = [mru EXCEPT ![i] = <<>>]
  BY DEF FreeRev
<1>2. mru'[i] = <<>> /\ \A j \in Instances \ {i} : mru'[j] = mru[j]
  BY <1>1 DEF TypeOK
<1>3. mru' \in [Instances -> Seq(Cells)]
  BY <1>1 DEF TypeOK
<1>4. DOMAIN <<>> = {}
  OBVIOUS
<1>5. InList(i)' = {} /\ \A j \in Instances \ {i} : InList(j)' = InList(j)
  BY <1>2, <1>4 DEF InList, Range
<1>6. \A j \in Instances : IsInjective(mru'[j])
  BY <1>2, <1>4 DEF ListsOK, IsInjective
<1> QED BY <1>2, <1>3, <1>5, <1>6

\* The set of cells of a list is the list's.
LEMMA SameLists ==
    ASSUME UNCHANGED mru
    PROVE  \A j \in Instances : InList(j)' = InList(j)
BY DEF InList

-----------------------------------------------------------------------------
(***************************************************************************)
(* Where a step finds the cell it works on.                                *)
(***************************************************************************)
\* The sizes of a hash index are those of Primes, which has the smallest
\* of them first.
LEMMA TableSize ==
    ASSUME TypeOK, TablesOK, NEW i \in made
    PROVE  /\ Primes[1] \in Nat \ {0} /\ hsize[i] \in Nat \ {0} /\ Primes[1] <= hsize[i]
           /\ i \in Instances /\ mru[i] \in Seq(Cells)
<1>1. /\ DOMAIN Primes = 1..Len(Primes) /\ Len(Primes) \in Nat
      /\ \A j \in DOMAIN Primes : Primes[j] \in Nat \ {0}
  BY PrimesAssumption, LenProperties
<1>2. PICK j \in DOMAIN Primes : hsize[i] = Primes[j]
  BY DEF TablesOK, TableOK, Range
<1>3. 1 \in DOMAIN Primes
  BY <1>1, PrimesAssumption
<1>4. j = 1 \/ Primes[1] < Primes[j]
  BY <1>1, <1>2, <1>3, PrimesAssumption
<1>5. i \in Instances /\ mru[i] \in Seq(Cells)
  BY DEF TypeOK
<1>6. Primes[1] \in Nat \ {0} /\ Primes[j] \in Nat \ {0}
  BY <1>1, <1>3
<1> QED BY <1>2, <1>4, <1>5, <1>6

\* A cell of a chain is a hashed one.
LEMMA ChainHashed ==
    ASSUME NEW i, NEW h \in DOMAIN tab[i], NEW c \in tab[i][h]
    PROVE  c \in Hashed(i)
BY DEF Hashed, Range

\* A lookup that hits has found a cell of the list, one that nobody has locked.
LEMMA HitFound ==
    ASSUME IInv, pc = "lookup", NEW c \in HitSet(on, Wanted)
    PROVE  /\ on \in made /\ c \in InList(on) /\ c \in Cells
           /\ c \in Hashed(on) /\ ix[c] = Wanted
           /\ c \notin lclist /\ ref[c] = 0
<1>1. /\ on \in made /\ on \in Instances /\ Wanted \in Nat
      /\ list # <<>> /\ Wanted \notin touched
  <2>1. list \in Seq(Ixs) /\ list # <<>> /\ Wanted \notin touched /\ on \in insts
    BY DEF IInv, TypeOK, PhaseOK, Fetching
  <2>2. Wanted \in Ixs
    BY <2>1 DEF Wanted
  <2> QED BY <2>1, <2>2, SetsAssumption DEF IInv, TypeOK
<1>2. hsize[on] \in Nat \ {0}
  BY <1>1, TableSize DEF IInv
<1>3. Hash(on, Wanted) \in DOMAIN tab[on]
  <2>1. DOMAIN tab[on] = 0..(hsize[on] - 1)
    BY <1>1 DEF IInv, TablesOK, TableOK
  <2> QED BY <1>1, <1>2, <2>1 DEF Hash
<1>4. c \in Hashed(on) /\ ix[c] = Wanted
  BY <1>3, ChainHashed DEF HitSet
<1>5. c \in InList(on) /\ c \in Cells
  BY <1>1, <1>4, InListFinite DEF IInv, TablesOK, TableOK
<1>6. c \notin lclist
  BY <1>1, <1>4 DEF IInv, LockedAreCurrent
<1>7. ref[c] = 0
  <2>1. c \notin Locked(on)
    BY <1>1, <1>6 DEF IInv, LocksCounted
  <2>2. ref[c] \in Nat
    BY <1>5 DEF IInv, TypeOK
  <2> QED BY <1>5, <2>1, <2>2 DEF Locked
<1> QED BY <1>1, <1>4, <1>5, <1>6, <1>7

\* Hit and Place lock an unlocked cell of the list.
LEMMA LockStep ==
    ASSUME IInv, Hit \/ Place
    PROVE  \E c \in InList(on) :
              /\ Lock(c) /\ ref[c] = 0 /\ c \in Cells /\ c \notin lclist
              /\ on \in made /\ on \in Instances
              /\ pc # "fetched" /\ pc' = "fetched" /\ UNCHANGED <<made, on, lclist>>
<1>1. CASE Hit
  <2>1. PICK c \in HitSet(on, Wanted) : Lock(c)
    BY <1>1 DEF Hit
  <2>2. pc = "lookup"
    BY <1>1 DEF Hit
  <2> QED BY <1>1, <2>1, <2>2, HitFound DEF Hit, searchVars, IInv, TypeOK
<1>2. CASE Place
  <2>1. /\ pc = "place" /\ Lock(cell) /\ pc' = "fetched" /\ UNCHANGED <<made, on, lclist>>
    BY <1>2 DEF Place, searchVars
  <2>2. on \in insts /\ on \in made /\ on \in Instances
    BY <2>1 DEF IInv, PhaseOK, TypeOK
  <2>3. cell \in InList(on) /\ cell \notin Hashed(on) /\ ref[cell] = 0
    BY <2>1 DEF IInv, PhaseOK, InHand
  <2>4. cell \notin lclist
    BY <2>3 DEF IInv, LockedAreCurrent, Hashed
  <2>5. cell \in Cells
    BY <2>2, <2>3, InListFinite DEF IInv
  <2> QED BY <2>1, <2>2, <2>3, <2>4, <2>5
<1> QED BY <1>1, <1>2

\* A cell is thrown out by the loops around decrease_revcache.
Discarding(i) == Shed(i) \/ (ReuseFrees /\ i = on)

\* It is an unlocked one, of an instance that has a cache; with a new cell in
\* hand nothing is thrown out.
LEMMA DiscardStep ==
    ASSUME IInv, NEW i \in Instances, Discarding(i)
    PROVE  /\ i \in insts /\ i \in made
           /\ Victim(i) \in DOMAIN mru[i]
           /\ mru[i][Victim(i)] \in InList(i)
           /\ mru[i][Victim(i)] \in Cells
           /\ ref[mru[i][Victim(i)]] = 0
           /\ Discard(i, Victim(i))
           /\ pc \in {"shed", "trim", "reduce", "reuse"}
           /\ UNCHANGED <<memVars, searchVars, pc, cell, todo, allocVars>>
<1>1. /\ HasVictim(i) /\ Discard(i, Victim(i)) /\ pc \in {"shed", "trim", "reduce", "reuse"}
      /\ UNCHANGED <<memVars, searchVars, pc, cell, todo, allocVars>>
      /\ i = on \/ (pc = "reduce" /\ i \in insts)
      /\ pc = "reduce" => i \in insts
  BY DEF Discarding, Shed, ReuseFrees, MustShed
<1>2. i \in insts /\ i \in made
  BY <1>1 DEF IInv, PhaseOK, TypeOK
<1>3. /\ Victim(i) \in DOMAIN mru[i] /\ mru[i][Victim(i)] \in InList(i)
      /\ ref[mru[i][Victim(i)]] = 0
  BY <1>1, VictimFound DEF IInv
<1>4. mru[i][Victim(i)] \in Cells
  BY <1>3, InListFinite DEF IInv
<1> QED BY <1>1, <1>2, <1>3, <1>4

\* A cell that is unlocked was locked once, by the search's list ...
LEMMA LeaveStep ==
    ASSUME IInv, NEW c \in Cells, PassOver(c) \/ (Compute /\ c = cell)
    PROVE  /\ c \in lclist /\ c \in InList(on) /\ ref[c] = 1 /\ Leave(c)
           /\ on \in insts /\ on \in made /\ on \in Instances
           /\ pc \in {"search", "compute"}
<1>1. c \in lclist /\ Leave(c) /\ pc \in {"search", "compute"}
  BY DEF PassOver, Compute, IInv, PhaseOK
<1>2. on \in insts /\ on \in made /\ on \in Instances
  BY <1>1 DEF IInv, PhaseOK, TypeOK
<1>3. c \in Locked(on)
  BY <1>1, <1>2 DEF IInv, LocksCounted
<1>4. ref[c] = 1
  BY <1>3 DEF IInv, TypeOK, CellsOK, Locked
<1> QED BY <1>1, <1>2, <1>3, <1>4 DEF Locked

\* ... or as the cell just fetched.
LEMMA FetchedStep ==
    ASSUME IInv, SetSort
    PROVE  /\ cell \in InList(on) /\ cell \in Cells /\ ref[cell] = 1
           /\ cell \in Hashed(on) /\ ix[cell] = Wanted /\ cell \notin lclist
           /\ on \in insts /\ on \in made /\ on \in Instances
           /\ list # <<>> /\ Wanted \in Ixs
<1>1. pc = "fetched"
  BY DEF SetSort
<1>2. on \in insts /\ on \in made /\ on \in Instances
  BY <1>1 DEF IInv, PhaseOK, TypeOK
<1>3. cell \in Hashed(on) /\ cell \notin lclist /\ ix[cell] = Wanted /\ ref[cell] = 1
  BY <1>1 DEF IInv, PhaseOK
<1>4. cell \in InList(on) /\ cell \in Cells
  BY <1>2, <1>3, InListFinite DEF IInv, TablesOK, TableOK
<1>5. list # <<>> /\ Wanted \in Ixs
  BY <1>1, <1>3, <1>4 DEF IInv, PhaseOK, Fetching, TypeOK
<1> QED BY <1>2, <1>3, <1>4, <1>5

-----------------------------------------------------------------------------
(***************************************************************************)
(* The lists and the cells.                                                *)
(***************************************************************************)
LEMMA ListsStep ==
    ASSUME IInv, Next
    PROVE  ListsOK' /\ mru' \in [Instances -> Seq(Cells)]
<1> USE DEF IInv
<1>1. CASE UNCHANGED <<made, mru>>
  <2>1. \A j \in Instances : InList(j)' = InList(j)
    BY <1>1, SameLists
  <2> QED BY <1>1, <2>1 DEF ListsOK, TypeOK
<1>2. CASE \E i \in Instances : MakeRev(i)
  <2>1. mru' = mru /\ made \subseteq made'
    BY <1>2 DEF MakeRev
  <2>2. \A j \in Instances : InList(j)' = InList(j)
    BY <2>1, SameLists
  <2> QED BY <2>1, <2>2 DEF ListsOK, TypeOK
<1>3. ASSUME NEW i \in Instances, FreeRev(i)
      PROVE  ListsOK' /\ mru' \in [Instances -> Seq(Cells)]
  <2>1. made' = made \ {i}
    BY <1>3 DEF FreeRev
  <2> QED BY <1>3, <2>1, FreeLists DEF ListsOK
<1>4. ASSUME NEW i \in Instances, Discarding(i)
      PROVE  ListsOK' /\ mru' \in [Instances -> Seq(Cells)]
  <2>1. /\ i \in made /\ Victim(i) \in DOMAIN mru[i] /\ Discard(i, Victim(i))
    BY <1>4, DiscardStep
  <2>2. made' = made
    BY <2>1 DEF Discard
  <2> QED BY <2>1, <2>2, DiscardLists DEF ListsOK
<1>5. CASE Hit \/ Place
  <2>1. PICK c \in InList(on) : Lock(c) /\ made' = made /\ on \in made
    BY <1>5, LockStep
  <2>2. mru' = [mru EXCEPT ![on] = mru'[on]]
    BY <2>1 DEF Lock, TypeOK
  <2>3. \A j \in Instances \ made : mru'[j] = mru[j]
    BY <2>1, <2>2 DEF TypeOK
  <2> QED BY <2>1, <2>3, LockLists DEF ListsOK
<1>6. ASSUME NEW c \in Cells, Grow(c)
      PROVE  ListsOK' /\ mru' \in [Instances -> Seq(Cells)]
  <2>1. pc = "grow" /\ made' = made
    BY <1>6 DEF Grow
  <2>2. on \in made /\ on \in Instances /\ on' = on
    BY <1>6, <2>1 DEF PhaseOK, TypeOK, Grow, searchVars
  <2>3. /\ \A j \in Instances : c \notin InList(j)
        /\ mru' \in [Instances -> Seq(Cells)]
        /\ \A j \in Instances : IsInjective(mru'[j])
        /\ \A j \in Instances : InList(j)' = IF j = on THEN InList(j) \union {c} ELSE InList(j)
        /\ \A j \in Instances \ {on} : mru'[j] = mru[j]
    BY <1>6, <2>2, GrowLists
  <2> QED BY <2>1, <2>2, <2>3 DEF ListsOK
<1> QED BY <1>1, <1>2, <1>3, <1>4, <1>5, <1>6, ListFrame DEF Discarding, TypeOK, PhaseOK

\* The steps that change a cell, or what is in the lists.
LEMMA CellFrame ==
    ASSUME Next
    PROVE  \/ UNCHANGED <<mru, ref, sx, ready, data, ix>>
           \/ \E i \in Instances : Invalidate(i) \/ FreeRev(i) \/ Discarding(i)
           \/ ReuseFrees \/ Hit \/ Place \/ SetSort \/ ReuseCell \/ Compute
           \/ \E c \in Cells : Grow(c) \/ PassOver(c)
           \/ \E x \in Simplexes : ShareSimplex(x) \/ NewSimplex(x)
BY DEF Next, Caller, Lookup, Stopped, vars, memVars, cacheVars, cellVars, searchVars, allocVars,
       InitRevaccell, StartSearch, ShedDone, ReduceDone, MallocFails, GetCell, Skip, MakeRev,
       NoRoom, Miss, Resize, ListEnds, SearchCell, AllocDone, NextChunk, SearchDone, Discarding

\* An address calloc may give is one no list has.
LEMMA FreeInList == \A c \in Cells : Free(c) <=> \A i \in Instances : c \notin InList(i)
BY DEF Free, InList

\* A cell is locked once at most, and clear when it is in no list.
LEMMA CellsStep ==
    ASSUME IInv, Next
    PROVE  CellsOK' /\ ref' \in [Cells -> Nat]
<1> USE DEF IInv
<1>0. /\ ref \in [Cells -> Nat] /\ sx \in [Cells -> SUBSET Simplexes]
      /\ ready \in [Cells -> BOOLEAN] /\ ix \in [Cells -> Ixs]
      /\ data \in [Cells -> Ixs \union {NoIx}]
  BY DEF TypeOK
<1>f. \A c \in Cells : Free(c)' <=> \A i \in Instances : c \notin InList(i)'
  BY FreeInList DEF Free, InList
<1>1. CASE UNCHANGED <<mru, ref, sx, ready, data, ix>>
  BY <1>0, <1>1 DEF CellsOK, Free
<1>2. ASSUME NEW i \in Instances, Invalidate(i) \/ FreeRev(i)
      PROVE  CellsOK' /\ ref' \in [Cells -> Nat]
  <2>1. /\ ref' = Wiped(i, ref, 0) /\ sx' = Wiped(i, sx, {}) /\ ix' = Wiped(i, ix, 0)
        /\ ready' = Wiped(i, ready, FALSE) /\ data' = Wiped(i, data, NoIx)
    BY <1>2 DEF Invalidate, FreeRev
  <2>2. \A j \in Instances \ {i} : InList(j)' = InList(j)
    BY <1>2, SameLists, FreeLists DEF Invalidate
  <2>3. ASSUME NEW c \in Cells
        PROVE  /\ ref'[c] <= 1 /\ ref'[c] \in Nat
               /\ Free(c)' => ref'[c] = 0 /\ sx'[c] = {}
               /\ ready'[c] => data'[c] = ix'[c]
    <3>1. CASE c \in InList(i)
      BY <1>0, <2>1, <3>1 DEF Wiped, InList
    <3>2. CASE c \notin InList(i)
      <4>1. /\ ref'[c] = ref[c] /\ sx'[c] = sx[c] /\ ix'[c] = ix[c]
            /\ ready'[c] = ready[c] /\ data'[c] = data[c]
        BY <1>0, <2>1, <3>2 DEF Wiped, InList
      <4>2. Free(c)' => Free(c)
        BY <1>f, <2>2, <3>2, FreeInList
      <4> QED BY <1>0, <4>1, <4>2 DEF CellsOK
    <3> QED BY <3>1, <3>2
  <2>4. ref' \in [Cells -> Nat]
    BY <2>1, <2>3 DEF Wiped
  <2> QED BY <2>3, <2>4 DEF CellsOK
<1>3. ASSUME NEW i \in Instances, Discarding(i)
      PROVE  CellsOK' /\ ref' \in [Cells -> Nat]
  <2> DEFINE d == mru[i][Victim(i)]
  <2>1. /\ Victim(i) \in DOMAIN mru[i] /\ Discard(i, Victim(i)) /\ d \in Cells
        /\ ref[d] = 0
    BY <1>3, DiscardStep
  <2>2. \A j \in Instances : InList(j) \ {d} \subseteq InList(j)'
    BY <2>1, DiscardLists
  <2> HIDE DEF d
  <2>3. /\ ref' = ref /\ ix' = [ix EXCEPT ![d] = 0] /\ sx' = [sx EXCEPT ![d] = {}]
        /\ ready' = [ready EXCEPT ![d] = FALSE] /\ data' = [data EXCEPT ![d] = NoIx]
    BY <2>1 DEF Discard, d
  <2>4. \A c \in Cells : Free(c)' => c = d \/ Free(c)
    BY <1>f, <2>2, FreeInList
  <2> QED BY <1>0, <2>1, <2>3, <2>4 DEF CellsOK
<1>4. CASE Hit \/ Place
  <2>1. PICK c \in InList(on) : Lock(c) /\ ref[c] = 0 /\ c \in Cells /\ on \in Instances
    BY <1>4, LockStep
  <2>2. \A j \in Instances : InList(j)' = InList(j)
    BY <2>1, LockLists
  <2>3. \A d \in Cells : Free(d)' => d # c /\ Free(d)
    BY <1>f, <2>1, <2>2, FreeInList
  <2>4. ref' = [ref EXCEPT ![c] = 1]
    BY <1>0, <2>1 DEF Lock
  <2>5. /\ sx' = sx /\ data' = data
        /\ \/ ready' = ready /\ ix' = ix
           \/ ready' = [ready EXCEPT ![c] = FALSE] /\ ix' = [ix EXCEPT ![c] = Wanted]
    <3>1. CASE Hit
      BY <3>1 DEF Hit
    <3>2. CASE Place
      <4>1. cell' = c /\ cell' = cell
        BY <2>1, <3>2 DEF Lock, Place
      <4> QED BY <3>2, <4>1 DEF Place, NotReady
    <3> QED BY <1>4, <3>1, <3>2
  <2> QED BY <1>0, <2>1, <2>3, <2>4, <2>5 DEF CellsOK
<1>5. CASE SetSort
  <2>1. cell \in Cells /\ ref[cell] = 1 /\ ix[cell] = Wanted
    BY <1>5, FetchedStep
  <2>2. /\ data' = [data EXCEPT ![cell] = IF ready[cell] THEN data[cell] ELSE Wanted]
        /\ ready' = [ready EXCEPT ![cell] = TRUE]
        /\ ref' = ref \/ ref' = [ref EXCEPT ![cell] = 0]
        /\ sx' = sx /\ ix' = ix /\ mru' = mru
    BY <1>0, <1>5, <2>1 DEF SetSort, RejectUnlocks, Unlock
  <2>3. \A c \in Cells : Free(c)' <=> Free(c)
    BY <2>2 DEF Free
  <2> QED BY <1>0, <2>1, <2>2, <2>3 DEF CellsOK
<1>6. CASE ReuseCell
  <2>1. sx' = [sx EXCEPT ![mru[on][Victim(on)]] = {}]
    BY <1>6 DEF ReuseCell
  <2>2. UNCHANGED <<mru, ref, ix, ready, data>>
    BY <1>6 DEF ReuseCell
  <2>3. \A c \in Cells : sx[c] = {} => sx'[c] = {}
    BY <1>0, <2>1
  <2> QED BY <1>0, <2>2, <2>3 DEF CellsOK, Free
<1>7. ASSUME NEW c \in Cells, PassOver(c) \/ (Compute /\ c = cell)
      PROVE  CellsOK' /\ ref' \in [Cells -> Nat]
  <2>1. c \in InList(on) /\ ref[c] = 1 /\ Leave(c) /\ on \in Instances
    BY <1>7, LeaveStep
  <2>2. /\ ref' = [ref EXCEPT ![c] = 0]
        /\ UNCHANGED <<mru, sx, ix, ready, data>>
    BY <1>0, <2>1 DEF Leave, Unlock
  <2> QED BY <1>0, <2>2 DEF CellsOK, Free
<1>8. ASSUME NEW c \in Cells, Grow(c)
      PROVE  CellsOK' /\ ref' \in [Cells -> Nat]
  <2>1. UNCHANGED <<ref, sx, ix, ready, data>>
    BY <1>8 DEF Grow, cellVars
  <2>2. on \in Instances /\ \A j \in Instances : InList(j) \subseteq InList(j)'
    BY <1>8, GrowLists DEF TypeOK
  <2>3. \A d \in Cells : Free(d)' => Free(d)
    BY <1>f, <2>2, FreeInList
  <2> QED BY <1>0, <2>1, <2>3 DEF CellsOK
<1>9. ASSUME NEW x \in Simplexes, ShareSimplex(x) \/ NewSimplex(x)
      PROVE  CellsOK' /\ ref' \in [Cells -> Nat]
  <2>1. /\ sx' = [sx EXCEPT ![cell] = @ \union {x}]
        /\ UNCHANGED <<mru, ref, ix, ready, data>> /\ pc = "alloc"
    BY <1>9 DEF ShareSimplex, NewSimplex
  <2>2. cell \in lclist /\ on \in Instances
    BY <2>1 DEF PhaseOK, Allocating, TypeOK
  <2>3. cell \in InList(on)
    BY <2>2 DEF LockedAreCurrent
  <2>4. ~Free(cell)
    BY <2>2, <2>3 DEF Free, InList
  <2> QED BY <1>0, <2>1, <2>4 DEF CellsOK, Free
<1>10. Compute => cell \in Cells
  BY DEF Compute, PhaseOK, TypeOK
<1> QED BY <1>1, <1>2, <1>3, <1>4, <1>5, <1>6, <1>7, <1>8, <1>9, <1>10, CellFrame
        DEF Discarding, TypeOK

-----------------------------------------------------------------------------
(***************************************************************************)
(* The locks and their count.                                              *)
(***************************************************************************)
LEMMA LockFrame ==
    ASSUME TypeOK, Next
    PROVE  \/ UNCHANGED <<mru, nunlocked, ref, on, lclist>> /\ pc # "fetched" /\ pc' # "fetched"
           \/ \E i \in Instances : Invalidate(i) \/ FreeRev(i) \/ Discarding(i) \/ StartSearch(i)
           \/ ReuseFrees \/ Hit \/ Place \/ SetSort \/ Compute
           \/ \E c \in Cells : Grow(c) \/ PassOver(c)
BY DEF Next, Caller, Lookup, Stopped, vars, memVars, cacheVars, cellVars, searchVars, allocVars,
       InitRevaccell, ShedDone, MallocFails, GetCell, Skip, MakeRev,
       NoRoom, Miss, Resize, ListEnds, SearchCell, AllocDone, NextChunk, SearchDone, Discarding,
       ReuseCell, ShareSimplex, NewSimplex, ReduceDone, TypeOK

\* Once every other cell of the list is locked by the search, its count of the
\* others goes by the cells that are not.
LEMMA UnlockedCells ==
    ASSUME TypeOK, CellsOK, LocksCounted, NEW i \in Instances
    PROVE  /\ InList(i) \ Locked(i) = {c \in InList(i) : ref[c] = 0}
           /\ IsFiniteSet({c \in InList(i) : ref[c] = 0})
           /\ nunlocked[i] = Cardinality({c \in InList(i) : ref[c] = 0})
           /\ IsFiniteSet(InList(i)) /\ Len(mru[i]) = Cardinality(InList(i))
<1>1. \A c \in InList(i) : ref[c] \in Nat
  BY InListFinite DEF TypeOK
<1>2. InList(i) \ Locked(i) = {c \in InList(i) : ref[c] = 0}
  BY <1>1 DEF Locked
<1> QED BY <1>2, InListFinite DEF LocksCounted

\* The locks and nunlocked go up and down together.
LEMMA LocksStep ==
    ASSUME IInv, Next, ref' \in [Cells -> Nat], mru' \in [Instances -> Seq(Cells)],
           CellsOK'
    PROVE  LocksCounted' /\ nunlocked' \in [Instances -> Nat]
<1> USE DEF IInv
<1> DEFINE U(i) == {c \in InList(i) : ref[c] = 0}
           Held == lclist \union (IF pc = "fetched" THEN {cell} ELSE {})
<1>0. /\ ref \in [Cells -> Nat] /\ nunlocked \in [Instances -> Nat] /\ on \in Instances
      /\ \A i \in Instances : InList(i) \subseteq Cells
  BY InListFinite DEF TypeOK
<1>1. \A i \in Instances : /\ nunlocked[i] = Cardinality(U(i)) /\ IsFiniteSet(U(i))
                           /\ IsFiniteSet(InList(i)) /\ Len(mru[i]) = Cardinality(InList(i))
                           /\ Locked(i) = IF i # on THEN {} ELSE Held
  BY UnlockedCells DEF LocksCounted
<1>2. \A i \in Instances : InList(i)' \subseteq Cells
  BY LenProperties DEF InList, Range
<1>3. \A i \in Instances : /\ InList(i)' \ Locked(i)' = U(i)'
                           /\ Locked(i)' = {c \in InList(i)' : ref'[c] > 0}
  BY <1>2 DEF Locked
<1> DEFINE Goal == /\ \A i \in Instances : /\ nunlocked'[i] = Cardinality(U(i)')
                                            /\ Len(mru'[i]) = Cardinality(InList(i)')
                                            /\ Locked(i)' = IF i # on' THEN {} ELSE Held'
                   /\ nunlocked' \in [Instances -> Nat]
<1>p. SUFFICES Goal
  BY <1>3 DEF LocksCounted
<1>4. CASE UNCHANGED <<mru, nunlocked, ref, on, lclist>> /\ pc # "fetched" /\ pc' # "fetched"
  <2>1. \A i \in Instances : InList(i)' = InList(i)
    BY <1>4, SameLists
  <2>2. \A i \in Instances : U(i)' = U(i)
    BY <1>4, <2>1
  <2>3. \A i \in Instances : Locked(i)' = Locked(i)
    BY <1>4, <2>1 DEF Locked
  <2>4. Held' = Held
    BY <1>4
  <2> HIDE DEF U, Held
  <2> QED BY <1>0, <1>1, <1>4, <2>1, <2>2, <2>3, <2>4
<1>5. ASSUME NEW i \in Instances, Invalidate(i)
      PROVE  Goal
  <2>1. /\ pc = "idle" /\ pc' = "idle" /\ UNCHANGED <<mru, on, lclist>>
        /\ nunlocked' = [nunlocked EXCEPT ![i] = Len(mru[i])]
        /\ ref' = Wiped(i, ref, 0)
    BY <1>5 DEF Invalidate, searchVars
  <2>2. Held = {} /\ Held' = {}
    BY <2>1 DEF PhaseOK
  <2>3. \A j \in Instances : Locked(j) = {}
    BY <1>1, <2>2
  <2>4. \A j \in Instances : InList(j)' = InList(j)
    BY <2>1, SameLists
  <2>5. \A c \in Cells : ref'[c] = IF c \in InList(i) THEN 0 ELSE ref[c]
    BY <2>1 DEF Wiped, InList
  <2>6. \A j \in Instances : \A c \in InList(j) : ref'[c] = 0
    BY <1>0, <2>3, <2>5 DEF Locked
  <2>7. \A j \in Instances : U(j)' = InList(j) /\ Locked(j)' = {} /\ U(j) = InList(j)
    BY <1>0, <1>3, <2>3, <2>4, <2>6 DEF Locked
  <2>8. nunlocked'[i] = Len(mru[i]) /\ \A j \in Instances \ {i} : nunlocked'[j] = nunlocked[j]
    BY <1>0, <2>1
  <2>9. Len(mru[i]) \in Nat
    BY LenProperties DEF TypeOK
  <2> HIDE DEF U, Held
  <2> QED BY <1>0, <1>1, <2>1, <2>2, <2>4, <2>7, <2>8, <2>9
<1>6. ASSUME NEW i \in Instances, FreeRev(i)
      PROVE  Goal
  <2>1. /\ pc = "idle" /\ pc' = "idle" /\ UNCHANGED <<on, lclist>>
        /\ nunlocked' = [nunlocked EXCEPT ![i] = 0]
        /\ ref' = Wiped(i, ref, 0)
    BY <1>6 DEF FreeRev, searchVars
  <2>2. Held = {} /\ Held' = {}
    BY <2>1 DEF PhaseOK
  <2>3. \A j \in Instances : Locked(j) = {}
    BY <1>1, <2>2
  <2>4. /\ mru'[i] = <<>> /\ InList(i)' = {}
        /\ \A j \in Instances \ {i} : mru'[j] = mru[j] /\ InList(j)' = InList(j)
    BY <1>6, FreeLists
  <2>5. \A c \in Cells : c \notin InList(i) => ref'[c] = ref[c]
    BY <2>1 DEF Wiped, InList
  <2>6. \A j \in Instances \ {i} : InList(j) \cap InList(i) = {}
    BY DEF ListsOK
  <2>7. \A j \in Instances \ {i} : U(j)' = U(j) /\ Locked(j)' = Locked(j)
    BY <1>0, <2>4, <2>5, <2>6 DEF Locked
  <2>8. U(i)' = {} /\ Locked(i)' = {} /\ Len(mru'[i]) = 0
    BY <2>4 DEF Locked
  <2>9. nunlocked'[i] = 0 /\ \A j \in Instances \ {i} : nunlocked'[j] = nunlocked[j]
    BY <1>0, <2>1
  <2> HIDE DEF U, Held
  <2> QED BY <1>0, <1>1, <2>1, <2>2, <2>3, <2>4, <2>7, <2>8, <2>9, FS_EmptySet
<1>7. ASSUME NEW i \in Instances, Discarding(i)
      PROVE  Goal
  <2> DEFINE d == mru[i][Victim(i)]
  <2>1. /\ Victim(i) \in DOMAIN mru[i] /\ Discard(i, Victim(i)) /\ d \in InList(i)
        /\ ref[d] = 0 /\ pc # "fetched" /\ UNCHANGED <<on, lclist, pc>>
    BY <1>7, DiscardStep DEF searchVars
  <2>2. /\ InList(i)' = InList(i) \ {d} /\ Len(mru'[i]) = Len(mru[i]) - 1
        /\ \A j \in Instances \ {i} : mru'[j] = mru[j] /\ InList(j)' = InList(j)
    BY <2>1, DiscardLists
  <2>3. ref' = ref /\ nunlocked' = [nunlocked EXCEPT ![i] = @ - 1]
    BY <2>1 DEF Discard
  <2> HIDE DEF d
  <2>4. \A j \in Instances \ {i} : U(j)' = U(j) /\ Locked(j)' = Locked(j)
    BY <2>2, <2>3 DEF Locked
  <2>5. d \in U(i) /\ U(i)' = U(i) \ {d} /\ Locked(i)' = Locked(i)
    BY <2>1, <2>2, <2>3 DEF Locked
  <2>6. Held' = Held
    BY <2>1
  <2>7. /\ nunlocked'[i] = nunlocked[i] - 1
        /\ \A j \in Instances \ {i} : nunlocked'[j] = nunlocked[j]
    BY <1>0, <2>3
  <2> HIDE DEF U, Held
  <2>8. /\ Cardinality(U(i) \ {d}) = Cardinality(U(i)) - 1
        /\ Cardinality(InList(i) \ {d}) = Cardinality(InList(i)) - 1
        /\ Cardinality(U(i) \ {d}) \in Nat
    BY <1>1, <2>1, <2>5, FS_RemoveElement, FS_CardinalityType
  <2>9. nunlocked' \in [Instances -> Nat]
    BY <1>0, <1>1, <2>3, <2>7, <2>8
  <2> QED BY <1>0, <1>1, <2>1, <2>2, <2>4, <2>5, <2>6, <2>7, <2>8, <2>9
<1>8. CASE Hit \/ Place
  <2>1. PICK c \in InList(on) : /\ Lock(c) /\ ref[c] = 0 /\ c \in Cells
                                /\ pc # "fetched" /\ pc' = "fetched" /\ UNCHANGED <<on, lclist>>
    BY <1>8, LockStep
  <2>2. \A j \in Instances : InList(j)' = InList(j) /\ Len(mru'[j]) = Len(mru[j])
    BY <2>1, LockLists
  <2>3. /\ ref' = [ref EXCEPT ![c] = 1] /\ cell' = c
        /\ nunlocked' = [nunlocked EXCEPT ![on] = @ - 1]
    BY <1>0, <2>1 DEF Lock
  <2>4. \A j \in Instances \ {on} : c \notin InList(j)
    BY <1>0, <2>1 DEF ListsOK
  <2>5. \A j \in Instances \ {on} : U(j)' = U(j) /\ Locked(j)' = Locked(j)
    BY <1>0, <2>2, <2>3, <2>4 DEF Locked
  <2>6. \A j \in {on} : U(j)' = U(j) \ {c} /\ Locked(j)' = Locked(j) \union {c}
    BY <1>0, <2>1, <2>2, <2>3 DEF Locked
  <2>7. Held' = Held \union {c} /\ c \in U(on)
    BY <2>1, <2>3
  <2>8. /\ nunlocked'[on] = nunlocked[on] - 1
        /\ \A j \in Instances \ {on} : nunlocked'[j] = nunlocked[j]
    BY <1>0, <2>3
  <2> HIDE DEF U, Held
  <2>9. Cardinality(U(on) \ {c}) = Cardinality(U(on)) - 1 /\ Cardinality(U(on) \ {c}) \in Nat
    BY <1>0, <1>1, <2>7, FS_RemoveElement, FS_CardinalityType
  <2>10. nunlocked' \in [Instances -> Nat]
    BY <1>0, <1>1, <2>3, <2>8, <2>9
  <2> QED BY <1>0, <1>1, <2>1, <2>2, <2>5, <2>6, <2>7, <2>8, <2>9, <2>10
<1>9. ASSUME NEW c \in Cells, c \in InList(on), ref[c] = 1, ref' = [ref EXCEPT ![c] = 0],
             nunlocked' = [nunlocked EXCEPT ![on] = @ + 1], UNCHANGED <<mru, on>>,
             Held' = Held \ {c}
      PROVE  Goal
  <2>1. \A j \in Instances : InList(j)' = InList(j)
    BY <1>9, SameLists
  <2>2. \A j \in Instances \ {on} : c \notin InList(j)
    BY <1>0, <1>9 DEF ListsOK
  <2>3. \A j \in Instances \ {on} : U(j)' = U(j) /\ Locked(j)' = Locked(j)
    BY <1>0, <1>9, <2>1, <2>2 DEF Locked
  <2>4. /\ \A j \in {on} : U(j)' = U(j) \union {c} /\ Locked(j)' = Locked(j) \ {c}
        /\ c \notin U(on)
    BY <1>0, <1>9, <2>1 DEF Locked
  <2>5. /\ nunlocked'[on] = nunlocked[on] + 1
        /\ \A j \in Instances \ {on} : nunlocked'[j] = nunlocked[j]
    BY <1>0, <1>9
  <2>6. nunlocked' \in [Instances -> Nat]
    BY <1>0, <1>9
  <2>7. on' = on /\ mru' = mru /\ Held' = Held \ {c}
    BY <1>9
  <2> HIDE DEF U, Held
  <2>8. Cardinality(U(on) \union {c}) = Cardinality(U(on)) + 1
    BY <1>0, <1>1, <2>4, FS_AddElement
  <2> QED BY <1>0, <1>1, <2>1, <2>3, <2>4, <2>5, <2>6, <2>7, <2>8
<1>10. CASE SetSort
  <2>1. /\ cell \in InList(on) /\ cell \in Cells /\ ref[cell] = 1 /\ cell \notin lclist
    BY <1>10, FetchedStep
  <2>2. /\ pc = "fetched" /\ pc' = "get" /\ UNCHANGED <<mru, on>>
    BY <1>10 DEF SetSort
  <2>3. CASE lclist' = lclist \union {cell} /\ UNCHANGED <<ref, nunlocked>>
    <3>1. Held' = Held
      BY <2>2, <2>3
    <3>2. \A i \in Instances : InList(i)' = InList(i)
      BY <2>2, SameLists
    <3>3. \A i \in Instances : U(i)' = U(i) /\ Locked(i)' = Locked(i)
      BY <2>3, <3>2 DEF Locked
    <3> HIDE DEF U, Held
    <3> QED BY <1>0, <1>1, <2>2, <2>3, <3>1, <3>2, <3>3
  <2>4. CASE Unlock(cell) /\ lclist' = lclist
    <3>1. /\ ref' = [ref EXCEPT ![cell] = 0]
          /\ nunlocked' = [nunlocked EXCEPT ![on] = @ + 1]
      BY <1>0, <2>1, <2>4 DEF Unlock
    <3>2. Held' = Held \ {cell}
      BY <2>1, <2>2, <2>4
    <3> HIDE DEF Held, U
    <3> QED BY <1>9, <2>1, <2>2, <3>1, <3>2
  <2> QED BY <1>10, <2>3, <2>4 DEF SetSort, RejectUnlocks
<1>11. ASSUME NEW c \in Cells, PassOver(c) \/ (Compute /\ c = cell)
       PROVE  Goal
  <2>1. c \in lclist /\ c \in InList(on) /\ ref[c] = 1 /\ Leave(c) /\ pc \in {"search", "compute"}
    BY <1>11, LeaveStep
  <2>2. /\ ref' = [ref EXCEPT ![c] = 0] /\ nunlocked' = [nunlocked EXCEPT ![on] = @ + 1]
        /\ UNCHANGED <<mru, on>> /\ lclist' = lclist \ {c} /\ pc' = "search"
    BY <1>0, <2>1 DEF Leave, Unlock
  <2>3. Held' = Held \ {c}
    BY <2>1, <2>2
  <2> HIDE DEF Held, U
  <2> QED BY <1>9, <2>1, <2>2, <2>3
<1>12. ASSUME NEW c \in Cells, Grow(c)
       PROVE  Goal
  <2>1. /\ pc = "grow" /\ pc' # "fetched" /\ UNCHANGED <<on, lclist, ref>>
        /\ nunlocked' = [nunlocked EXCEPT ![on] = @ + 1] /\ Free(c)
    BY <1>12 DEF Grow, searchVars, cellVars
  <2>2. /\ \A j \in Instances : c \notin InList(j)
        /\ \A j \in Instances : InList(j)' = IF j = on THEN InList(j) \union {c} ELSE InList(j)
        /\ Len(mru'[on]) = Len(mru[on]) + 1
        /\ \A j \in Instances \ {on} : mru'[j] = mru[j]
    BY <1>12, GrowLists
  <2>3. ref[c] = 0
    BY <2>1 DEF CellsOK
  <2>4. \A j \in Instances \ {on} : U(j)' = U(j) /\ Locked(j)' = Locked(j)
    BY <2>1, <2>2 DEF Locked
  <2>5. /\ \A j \in {on} : U(j)' = U(j) \union {c} /\ Locked(j)' = Locked(j)
        /\ c \notin U(on)
    BY <1>0, <2>1, <2>2, <2>3 DEF Locked
  <2>6. Held' = Held
    BY <2>1
  <2>7. /\ nunlocked'[on] = nunlocked[on] + 1
        /\ \A j \in Instances \ {on} : nunlocked'[j] = nunlocked[j]
        /\ nunlocked' \in [Instances -> Nat]
    BY <1>0, <2>1
  <2> HIDE DEF U, Held
  <2>8. /\ Cardinality(U(on) \union {c}) = Cardinality(U(on)) + 1
        /\ Cardinality(InList(on) \union {c}) = Cardinality(InList(on)) + 1
    BY <1>0, <1>1, <2>2, <2>5, FS_AddElement
  <2> QED BY <1>0, <1>1, <2>1, <2>2, <2>4, <2>5, <2>6, <2>7, <2>8
<1>13. ASSUME NEW i \in Instances, StartSearch(i)
       PROVE  Goal
  <2>1. /\ pc = "idle" /\ pc' = "get" /\ UNCHANGED <<mru, nunlocked, ref, lclist>>
    BY <1>13 DEF StartSearch, cacheVars, cellVars
  <2>2. Held = {} /\ Held' = {}
    BY <2>1 DEF PhaseOK
  <2>3. \A j \in Instances : InList(j)' = InList(j)
    BY <2>1, SameLists
  <2>4. \A j \in Instances : U(j)' = U(j) /\ Locked(j)' = Locked(j)
    BY <2>1, <2>3 DEF Locked
  <2> HIDE DEF U, Held
  <2> QED BY <1>0, <1>1, <2>1, <2>2, <2>3, <2>4
<1>14. Compute => cell \in Cells
  BY DEF Compute, PhaseOK, TypeOK
<1> HIDE DEF U, Held
<1> QED BY <1>4, <1>5, <1>6, <1>7, <1>8, <1>10, <1>11, <1>12, <1>13, <1>14, <1>0, LockFrame
        DEF Discarding

-----------------------------------------------------------------------------
(***************************************************************************)
(* The hash index.                                                         *)
(***************************************************************************)
LEMMA TableFrame ==
    ASSUME IInv, Next, "table" \notin Fails
    PROVE  \/ /\ UNCHANGED <<made, hsize, tab, ix, mru>>
              /\ pc = "resize" \/ pc' = "resize" => UNCHANGED <<pc, on>>
           \/ \E i \in Instances : MakeRev(i) \/ Invalidate(i) \/ FreeRev(i) \/ Discarding(i)
           \/ Hit \/ Place \/ ReuseCell \/ Resize
           \/ \E c \in Cells : Grow(c)
<1>1. \A i \in Instances : Shed(i) => Discarding(i)
  BY DEF Discarding
<1>2. ReuseFrees => \E i \in Instances : Discarding(i)
  BY DEF Discarding, IInv, TypeOK
<1>3. \A c \in Cells : PassOver(c) =>
          UNCHANGED <<made, hsize, tab, ix, mru>> /\ pc # "resize" /\ pc' # "resize"
  BY DEF PassOver, Leave
<1>4. Compute =>
          UNCHANGED <<made, hsize, tab, ix, mru>> /\ pc # "resize" /\ pc' # "resize"
  BY DEF Compute, Leave
<1>5. MallocFails =>
          UNCHANGED <<made, hsize, tab, ix, mru>> /\ pc # "resize" /\ pc' # "resize"
  BY DEF MallocFails, Requested, cacheVars, cellVars
<1>6. ReduceDone =>
          UNCHANGED <<made, hsize, tab, ix, mru>> /\ pc # "resize" /\ pc' # "resize"
  BY DEF ReduceDone, IInv, PhaseOK, cacheVars, cellVars
<1> QED
  BY <1>1, <1>2, <1>3, <1>4, <1>5, <1>6
  DEF Next, Caller, Lookup, Stopped, vars, memVars, cacheVars, cellVars, searchVars,
      allocVars, InitRevaccell, StartSearch, ShedDone, GetCell, Skip, NoRoom, Miss, SetSort,
      ListEnds, SearchCell, ShareSimplex, NewSimplex, AllocDone, NextChunk, SearchDone

\* A table nobody touches.
LEMMA SameTable ==
    ASSUME NEW i \in Instances, TableOK(i), hsize'[i] = hsize[i], tab'[i] = tab[i],
           InList(i) \subseteq InList(i)', \A c \in InList(i) : ix'[c] = ix[c],
           (pc' = "resize" /\ i = on') <=> (pc = "resize" /\ i = on)
    PROVE  TableOK(i)'
<1>1. Hashed(i)' = Hashed(i)
  BY DEF Hashed
<1>2. \A c \in Hashed(i) : ix'[c] = ix[c]
  BY DEF TableOK
<1>3. \A h \in DOMAIN tab[i] : \A c \in tab[i][h] : c \in Hashed(i)
  BY ChainHashed
<1>4. \A h \in DOMAIN tab[i] : \A c \in tab[i][h] : Hash(i, ix[c])' = Hash(i, ix[c])
  BY <1>2, <1>3 DEF Hash
<1> QED BY <1>1, <1>2, <1>3, <1>4 DEF TableOK

\* A table that loses a cell.
LEMMA UnhashTable ==
    ASSUME TypeOK, NEW i \in Instances, NEW d \in Cells, TableOK(i), ~(pc = "resize" /\ i = on),
           tab = [j \in Instances |-> tab[j]], tab' = [tab EXCEPT ![i] = TabWithout(i, d)],
           hsize'[i] = hsize[i], InList(i) \ {d} \subseteq InList(i)',
           \A c \in InList(i) \ {d} : ix'[c] = ix[c], ~(pc' = "resize" /\ i = on')
    PROVE  TableOK(i)' /\ Hashed(i)' = Hashed(i) \ {d}
<1>1. /\ DOMAIN tab[i] = 0..(hsize[i] - 1)
      /\ \A h \in DOMAIN tab[i] : \A c \in tab[i][h] : Hash(i, ix[c]) = h
  BY DEF TableOK
<1>2. tab'[i] = TabWithout(i, d)
  OBVIOUS
<1>3. /\ tab'[i] = [h \in DOMAIN tab[i] |-> tab'[i][h]]
      /\ \A h \in DOMAIN tab[i] : tab'[i][h] = tab[i][h] \ {d}
  BY <1>1, <1>2 DEF TabWithout
<1>4. DOMAIN tab'[i] = DOMAIN tab[i]
  BY <1>3
<1>5. Hashed(i)' = Hashed(i) \ {d}
  BY <1>3, <1>4 DEF Hashed, Range
<1>6. \A c \in Hashed(i)' : c # d /\ c \in Hashed(i) /\ c \in InList(i) /\ ix'[c] = ix[c]
  BY <1>5 DEF TableOK
<1>7. \A h \in DOMAIN tab'[i] : \A c \in tab'[i][h] : c \in Hashed(i)' /\ Hash(i, ix[c])' = h
  <2>1. ASSUME NEW h \in DOMAIN tab'[i], NEW c \in tab'[i][h]
        PROVE  c \in Hashed(i)'
    BY <2>1 DEF Hashed, Range
  <2>2. ASSUME NEW h \in DOMAIN tab'[i], NEW c \in tab'[i][h]
        PROVE  Hash(i, ix[c])' = h
    <3>1. ix'[c] = ix[c] /\ c \in tab[i][h] /\ h \in DOMAIN tab[i]
      BY <1>3, <1>4, <1>6, <2>1
    <3> QED BY <1>1, <3>1 DEF Hash
  <2> QED BY <2>1, <2>2
<1> QED BY <1>1, <1>3, <1>4, <1>5, <1>6, <1>7 DEF TableOK

\* Throwing a cell out, and using one anew, unlink it.
LEMMA DiscardTables ==
    ASSUME IInv, NEW i \in Instances, Discarding(i)
    PROVE  /\ TablesOK'
           /\ Hashed(i)' = Hashed(i) \ {mru[i][Victim(i)]}
           /\ \A j \in Instances \ {i} : Hashed(j)' = Hashed(j)
           /\ \A j \in Instances : \A c \in Hashed(j)' : ix'[c] = ix[c] \/ j \notin made
<1> DEFINE d == mru[i][Victim(i)]
<1>1. /\ i \in made /\ d \in InList(i) /\ d \in Cells /\ Discard(i, Victim(i))
      /\ pc # "resize" /\ UNCHANGED <<pc, on>> /\ Victim(i) \in DOMAIN mru[i]
  BY DiscardStep DEF searchVars
<1>2. /\ InList(i)' = InList(i) \ {d}
      /\ \A j \in Instances \ {i} : InList(j)' = InList(j)
  BY <1>1, DiscardLists DEF IInv
<1>3. /\ tab' = [tab EXCEPT ![i] = TabWithout(i, d)] /\ ix' = [ix EXCEPT ![d] = 0]
      /\ UNCHANGED <<made, hsize>>
  BY <1>1 DEF Discard
<1> HIDE DEF d
<1>4. /\ TypeOK /\ ix \in [Cells -> Ixs] /\ tab = [j \in Instances |-> tab[j]]
      /\ made \subseteq Instances
      /\ \A j \in made : TableOK(j)
  BY DEF IInv, TypeOK, TablesOK
<1>5. TableOK(i)' /\ Hashed(i)' = Hashed(i) \ {d}
  BY <1>1, <1>2, <1>3, <1>4, InListFinite, UnhashTable
<1>6. ASSUME NEW j \in made, j # i
      PROVE  TableOK(j)'
  <2>1. InList(j)' = InList(j) /\ d \notin InList(j)
    BY <1>1, <1>2, <1>4, <1>6 DEF IInv, ListsOK
  <2> QED BY <1>1, <1>3, <1>4, <1>6, <2>1, InListFinite, SameTable
<1>7. tab' = [j \in Instances |-> tab'[j]]
  BY <1>3, <1>4
<1>8. \A j \in Instances \ {i} : Hashed(j)' = Hashed(j)
  BY <1>3, <1>4 DEF Hashed
<1>9. \A j \in made : \A c \in Hashed(j)' : c # d /\ c \in Cells
  <2>1. \A j \in made : Hashed(j) \subseteq InList(j) /\ InList(j) \subseteq Cells
    BY <1>4, InListFinite DEF TableOK
  <2>2. \A j \in made \ {i} : d \notin InList(j)
    BY <1>1, <1>4 DEF IInv, ListsOK
  <2> QED BY <1>4, <1>5, <1>8, <2>1, <2>2
<1>10. \A j \in Instances : \A c \in Hashed(j)' : ix'[c] = ix[c] \/ j \notin made
  BY <1>3, <1>4, <1>9
<1> QED BY <1>3, <1>5, <1>6, <1>7, <1>8, <1>10 DEF TablesOK, d

\* get_fxcell takes the cell it reuses out of its chain.
LEMMA ReuseTables ==
    ASSUME IInv, ReuseCell
    PROVE  /\ TablesOK' /\ on' = on /\ ix' = ix
           /\ cell' \in InList(on) \ Hashed(on)' /\ cell' = mru[on][Victim(on)]
           /\ cell' \in Cells /\ ref[cell'] = 0 /\ cell' \notin lclist
           /\ Hashed(on)' = Hashed(on) \ {cell'}
           /\ \A j \in Instances \ {on} : Hashed(j)' = Hashed(j)
<1> DEFINE d == mru[on][Victim(on)]
<1>1. /\ pc = "reuse" /\ HasVictim(on) /\ pc' = "place"
      /\ tab' = [tab EXCEPT ![on] = TabWithout(on, d)]
      /\ UNCHANGED <<made, mru, hsize, ix, on>> /\ cell' = d
  BY DEF ReuseCell, searchVars
<1>2. on \in insts /\ on \in made /\ on \in Instances
  BY <1>1 DEF IInv, PhaseOK, TypeOK
<1>3. d \in InList(on) /\ d \in Cells /\ ref[d] = 0
  BY <1>1, <1>2, VictimFound, InListFinite DEF IInv
<1> HIDE DEF d
<1>4. /\ TypeOK /\ tab = [j \in Instances |-> tab[j]] /\ made \subseteq Instances
      /\ \A j \in made : TableOK(j)
  BY DEF IInv, TypeOK, TablesOK
<1>5. \A j \in Instances : InList(j)' = InList(j)
  BY <1>1, SameLists
<1>6. TableOK(on)' /\ Hashed(on)' = Hashed(on) \ {d}
  <2>1. \A i \in {on} : TableOK(i)' /\ Hashed(i)' = Hashed(i) \ {d}
    BY <1>1, <1>2, <1>3, <1>4, <1>5, UnhashTable
  <2> QED BY <1>1, <2>1
<1>7. \A j \in made : j # on => TableOK(j)'
  BY <1>1, <1>4, <1>5, SameTable
<1>8. tab' = [j \in Instances |-> tab'[j]]
  BY <1>1, <1>4
<1>9. \A j \in Instances \ {on} : Hashed(j)' = Hashed(j)
  BY <1>1, <1>4 DEF Hashed
<1>10. \A j \in made : TableOK(j)'
  BY <1>1, <1>6, <1>7
<1>11. d \notin lclist
  <2>1. d \notin Locked(on)
    BY <1>3 DEF Locked
  <2> QED BY <1>2, <2>1 DEF IInv, LocksCounted
<1> QED BY <1>1, <1>3, <1>6, <1>8, <1>9, <1>10, <1>11 DEF TablesOK, d

\* A new index is given to a cell no chain has, and no hashed cell has it.
LEMMA PlaceTables ==
    ASSUME IInv, Place
    PROVE  /\ TablesOK' /\ on' = on /\ cell' = cell /\ cell \in Cells
           /\ cell \in InList(on) \ Hashed(on) /\ ix' = [ix EXCEPT ![cell] = Wanted]
           /\ Hashed(on)' = Hashed(on) \union {cell}
           /\ \A j \in Instances \ {on} : Hashed(j)' = Hashed(j)
           /\ \A j \in made : \A c \in Hashed(j) : ix'[c] = ix[c]
<1> DEFINE w == Hash(on, Wanted)
<1>1. /\ pc = "place" /\ pc' = "fetched" /\ on' = on /\ Lock(cell) /\ cell' = cell
      /\ tab' = [tab EXCEPT ![on][w] = @ \union {cell}]
      /\ ix' = [ix EXCEPT ![cell] = Wanted]
      /\ UNCHANGED <<made, hsize>>
  BY DEF Place, searchVars, Lock
<1>2. on \in insts /\ on \in made /\ on \in Instances
  BY <1>1 DEF IInv, PhaseOK, TypeOK
<1>3. /\ cell \in InList(on) \ Hashed(on) /\ \A c \in Hashed(on) : ix[c] # Wanted
      /\ list # <<>> /\ Wanted \in Ixs /\ Wanted \in Nat
  <2>1. list \in Seq(Ixs) /\ list # <<>>
    BY <1>1 DEF IInv, TypeOK, PhaseOK, Fetching
  <2>2. Wanted \in Ixs
    BY <2>1 DEF Wanted
  <2> QED BY <1>1, <2>1, <2>2, SetsAssumption DEF IInv, PhaseOK, Missed, InHand
<1>4. cell \in Cells
  BY <1>2, <1>3, InListFinite DEF IInv
<1>5. /\ TypeOK /\ tab = [j \in Instances |-> tab[j]] /\ made \subseteq Instances
      /\ ix \in [Cells -> Ixs]
      /\ \A j \in made : TableOK(j)
  BY DEF IInv, TypeOK, TablesOK
<1>6. \A j \in Instances : InList(j)' = InList(j)
  BY <1>1, <1>3, LockLists DEF IInv
<1>7. \A j \in made \ {on} : cell \notin InList(j)
  BY <1>2, <1>3, <1>5 DEF IInv, ListsOK
<1>8. /\ DOMAIN tab[on] = 0..(hsize[on] - 1) /\ hsize[on] \in Nat \ {0}
      /\ tab[on] = [h \in DOMAIN tab[on] |-> tab[on][h]]
      /\ \A h \in DOMAIN tab[on] : \A c \in tab[on][h] : Hash(on, ix[c]) = h
      /\ \A c, d \in Hashed(on) : ix[c] = ix[d] => c = d
      /\ Hashed(on) \subseteq InList(on) /\ hsize[on] \in Range(Primes)
  BY <1>1, <1>2, <1>5, TableSize DEF TableOK, IInv
<1>9. w \in DOMAIN tab[on]
  BY <1>3, <1>8 DEF Hash
<1> HIDE DEF w
<1>10. /\ tab'[on] = [h \in DOMAIN tab[on] |-> tab'[on][h]]
       /\ \A h \in DOMAIN tab[on] : tab'[on][h] = IF h = w THEN tab[on][h] \union {cell}
                                                           ELSE tab[on][h]
       /\ tab' = [j \in Instances |-> tab'[j]]
       /\ \A j \in Instances \ {on} : tab'[j] = tab[j]
  BY <1>1, <1>2, <1>5, <1>8, <1>9
<1>11. DOMAIN tab'[on] = DOMAIN tab[on]
  BY <1>10
<1>12. Hashed(on)' = Hashed(on) \union {cell}
  <2>1. Hashed(on) = UNION {tab[on][h] : h \in DOMAIN tab[on]}
    BY DEF Hashed, Range
  <2>2. Hashed(on)' = UNION {tab'[on][h] : h \in DOMAIN tab[on]}
    BY <1>1, <1>11 DEF Hashed, Range
  <2>5. \A h \in DOMAIN tab[on] :
           \A c : c \in tab'[on][h] <=> c \in tab[on][h] \/ (h = w /\ c = cell)
    BY <1>10
  <2>3. ASSUME NEW c \in Hashed(on)'
        PROVE  c \in Hashed(on) \union {cell}
    <3>1. PICK h \in DOMAIN tab[on] : c \in tab'[on][h]
      BY <2>2
    <3> QED BY <2>1, <2>5, <3>1
  <2>4. ASSUME NEW c \in Hashed(on) \union {cell}
        PROVE  c \in Hashed(on)'
    <3>1. CASE c = cell
      BY <1>9, <2>2, <2>5, <3>1
    <3>2. CASE c \in Hashed(on)
      <4>1. PICK h \in DOMAIN tab[on] : c \in tab[on][h]
        BY <2>1, <3>2
      <4> QED BY <2>2, <2>5, <4>1
    <3> QED BY <3>1, <3>2
  <2> QED BY <2>3, <2>4
<1>13. \A j \in made : \A c \in Hashed(j) : ix'[c] = ix[c]
  <2>1. \A j \in made : Hashed(j) \subseteq InList(j) /\ InList(j) \subseteq Cells
    BY <1>5, InListFinite DEF TableOK
  <2>2. \A j \in made : cell \notin Hashed(j)
    BY <1>3, <1>7, <2>1
  <2> QED BY <1>1, <1>5, <2>1, <2>2
<1>14. TableOK(on)'
  <2>1. \A h \in DOMAIN tab[on] : \A c \in tab'[on][h] : ix'[c] % hsize[on] = h
    <3>1. \A h \in DOMAIN tab[on] : \A c \in tab[on][h] : ix'[c] = ix[c]
      BY <1>2, <1>13, ChainHashed
    <3>2. ix'[cell] % hsize[on] = w
      BY <1>1, <1>4, <1>5 DEF w, Hash
    <3>3. \A h \in DOMAIN tab[on] : \A c \in tab[on][h] : ix[c] % hsize[on] = h
      BY <1>8 DEF Hash
    <3>4. ASSUME NEW h \in DOMAIN tab[on], NEW c \in tab'[on][h]
          PROVE  ix'[c] % hsize[on] = h
      <4>1. c \in tab[on][h] \/ (h = w /\ c = cell)
        BY <1>10
      <4> QED BY <3>1, <3>2, <3>3, <4>1
    <3> QED BY <3>4
  <2>2. \A c, d \in Hashed(on) \union {cell} : ix'[c] = ix'[d] => c = d
    <3>1. ix'[cell] = Wanted /\ \A c \in Hashed(on) : ix'[c] = ix[c]
      BY <1>1, <1>2, <1>4, <1>5, <1>13
    <3> QED BY <1>3, <1>8, <3>1
  <2>3. hsize'[on] \in Range(Primes) /\ Hashed(on)' \subseteq InList(on)'
    <3>1. \A j \in {on} : InList(j)' = InList(j)
      BY <1>2, <1>6
    <3>2. InList(on)' = InList(on)
      BY <1>1, <3>1
    <3> QED BY <1>1, <1>3, <1>8, <1>12, <3>2
  <2>4. DOMAIN tab'[on] = 0..(hsize'[on] - 1)
    BY <1>1, <1>8, <1>11
  <2>5. \A h \in DOMAIN tab'[on] : \A c \in tab'[on][h] : ix'[c] % hsize'[on] = h
    BY <1>1, <1>11, <2>1
  <2>6. tab'[on] = [h \in DOMAIN tab'[on] |-> tab'[on][h]]
    BY <1>10, <1>11
  <2>7. pc' # "resize" /\ on' = on
    BY <1>1
  <2> QED BY <1>12, <2>2, <2>3, <2>4, <2>5, <2>6, <2>7 DEF TableOK, Hash
<1>15. \A j \in made : j # on => TableOK(j)'
  <2>1. \A j \in made : \A c \in InList(j) : j # on => c \in Cells /\ ix'[c] = ix[c]
    BY <1>1, <1>5, <1>7, InListFinite
  <2> QED BY <1>1, <1>5, <1>6, <1>10, <2>1, SameTable
<1>16. \A j \in made : TableOK(j)'
  BY <1>1, <1>14, <1>15
<1>17. \A j \in Instances \ {on} : Hashed(j)' = Hashed(j)
  BY <1>10 DEF Hashed
<1> QED BY <1>1, <1>3, <1>4, <1>10, <1>12, <1>13, <1>16, <1>17 DEF TablesOK

\* A larger index has all the cells of the smaller one, and increase_revcache
\* takes the next size.
LEMMA GrowTables ==
    ASSUME IInv, NEW c \in Cells, Grow(c)
    PROVE  TablesOK' /\ UNCHANGED <<tab, ix, on>> /\ on \in Instances /\ on \in made
<1>1. /\ pc = "grow" /\ UNCHANGED <<made, tab, ix, on>> /\ on \in Instances /\ on \in made
      /\ \/ pc' = "resize" /\ Overfull(on, Len(mru[on]) + 1)
            /\ hsize' = [hsize EXCEPT ![on] = NextSize(on)]
         \/ pc' = "place" /\ hsize' = hsize
  BY DEF Grow, cellVars, searchVars, IInv, PhaseOK, TypeOK
<1>2. /\ TypeOK /\ tab = [j \in Instances |-> tab[j]] /\ made \subseteq Instances
      /\ hsize \in [Instances -> Nat] /\ \A j \in made : TableOK(j)
  BY DEF IInv, TypeOK, TablesOK
<1>3. \A j \in Instances : InList(j) \subseteq InList(j)'
  BY GrowLists DEF IInv
<1>4. CASE pc' = "place" /\ hsize' = hsize
  <2>1. \A j \in made : TableOK(j)'
    BY <1>1, <1>2, <1>3, <1>4, SameTable
  <2> QED BY <1>1, <1>2, <2>1 DEF TablesOK
<1>5. CASE /\ pc' = "resize" /\ Overfull(on, Len(mru[on]) + 1)
           /\ hsize' = [hsize EXCEPT ![on] = NextSize(on)]
  <2>1. \A j \in made \ {on} : TableOK(j)'
    BY <1>1, <1>2, <1>3, <1>5, SameTable
  <2>2. Bigger(on) \subseteq Nat /\ Bigger(on) # {} /\ DOMAIN Primes = 1..Len(Primes)
    BY <1>5, PrimesAssumption, LenProperties DEF Overfull, Bigger
  <2>3. \E m \in Bigger(on) : \A y \in Bigger(on) : m <= y
    BY <2>2, LeastNatural
  <2>4. Min(Bigger(on)) \in Bigger(on)
    BY <2>3 DEF Min
  <2>5. NextSize(on) \in Range(Primes) /\ NextSize(on) > hsize[on]
    BY <2>2, <2>4 DEF NextSize, Bigger, Range
  <2>6. hsize'[on] = NextSize(on)
    BY <1>1, <1>2, <1>5
  <2>7. /\ Primes[1] \in Nat \ {0} /\ hsize[on] \in Nat \ {0} /\ Primes[1] <= hsize[on]
    BY <1>1, <1>2, TableSize DEF IInv
  <2>8. NextSize(on) \in Nat
    BY <2>2, <2>4, PrimesAssumption, LenProperties DEF NextSize, Bigger
  <2>9. hsize[on] \in Primes[1]..hsize'[on]
    BY <2>5, <2>6, <2>7, <2>8
  <2>10. /\ tab[on] = [h \in DOMAIN tab[on] |-> tab[on][h]]
         /\ Hashed(on) \subseteq InList(on)
         /\ \A d, e \in Hashed(on) : ix[d] = ix[e] => d = e
         /\ DOMAIN tab[on] = 0..(hsize[on] - 1)
    BY <1>1, <1>2 DEF TableOK
  <2>11. Hashed(on)' = Hashed(on) /\ InList(on) \subseteq InList(on)'
    <3>1. \A j \in {on} : Hashed(j)' = Hashed(j) /\ InList(j) \subseteq InList(j)'
      BY <1>1, <1>3 DEF Hashed
    <3> QED BY <1>1, <3>1
  <2>12. tab'[on'] = tab[on] /\ hsize'[on'] = NextSize(on)
    BY <1>1, <2>6
  <2>13. TableOK(on)'
    <3>1. Hashed(on)' \subseteq InList(on)'
      BY <2>10, <2>11
    <3>2. \A d, e \in Hashed(on)' : ix'[d] = ix'[e] => d = e
      BY <1>1, <2>10, <2>11
    <3> QED BY <1>1, <1>5, <2>5, <2>6, <2>9, <2>10, <2>12, <3>1, <3>2 DEF TableOK
  <2>14. \A j \in made : TableOK(j)'
    BY <1>1, <2>1, <2>13
  <2> QED BY <1>1, <1>2, <2>14 DEF TablesOK
<1> QED BY <1>1, <1>4, <1>5

\* increase_revcache hashes every cell anew into the larger index.
LEMMA ResizeTables ==
    ASSUME IInv, Resize
    PROVE  /\ TablesOK' /\ on' = on /\ on \in made /\ on \in Instances
           /\ \A j \in Instances : Hashed(j)' = Hashed(j)
           /\ DOMAIN tab'[on] = 0..(hsize[on] - 1)
<1>1. /\ pc = "resize" /\ pc' = "place" /\ UNCHANGED <<made, mru, hsize, ix, on>>
      /\ on \in made /\ on \in Instances
      /\ tab' = [tab EXCEPT ![on] = Rehashed]
  BY DEF Resize, cellVars, searchVars, IInv, PhaseOK, TypeOK
<1>2. /\ TypeOK /\ tab = [j \in Instances |-> tab[j]] /\ made \subseteq Instances
      /\ \A j \in made : TableOK(j)
  BY DEF IInv, TypeOK, TablesOK
<1>3. \A j \in Instances : InList(j)' = InList(j)
  BY <1>1, SameLists
<1>4. \A j \in made \ {on} : TableOK(j)'
  BY <1>1, <1>2, <1>3, SameTable
<1>5. hsize[on] \in Nat \ {0}
  BY <1>1, <1>2, TableSize DEF IInv
<1>6. tab'[on] = Rehashed /\ \A j \in Instances \ {on} : tab'[j] = tab[j]
  BY <1>1, <1>2
<1>7. \A c \in Hashed(on) : ix[c] \in Nat /\ Hash(on, ix[c]) \in 0..(hsize[on] - 1)
  <2>1. \A c \in Hashed(on) : ix[c] \in Nat
    BY <1>1, <1>2, InListFinite, SetsAssumption DEF TableOK, TypeOK
  <2> QED BY <1>5, <2>1 DEF Hash
<1>8. /\ DOMAIN tab'[on] = 0..(hsize[on] - 1)
      /\ tab'[on] = [h \in 0..(hsize[on] - 1) |-> tab'[on][h]]
      /\ \A h \in 0..(hsize[on] - 1) :
            tab'[on][h] = {c \in Hashed(on) : Hash(on, ix[c]) = h}
  BY <1>6 DEF Rehashed, Hashed
<1>9. Hashed(on)' = Hashed(on)
  <2>1. Hashed(on)' = UNION {tab'[on][h] : h \in 0..(hsize[on] - 1)}
    <3>1. DOMAIN tab'[on] = 0..(hsize[on] - 1) /\ on' = on
      BY <1>1, <1>8
    <3> QED BY <3>1 DEF Hashed, Range
  <2>2. \A h \in 0..(hsize[on] - 1) :
           \A c : c \in tab'[on][h] <=> c \in Hashed(on) /\ Hash(on, ix[c]) = h
    BY <1>8
  <2>3. \A c \in Hashed(on) : c \in tab'[on][Hash(on, ix[c])]
    BY <1>7, <2>2
  <2> QED BY <1>7, <2>1, <2>2, <2>3
<1>10. TableOK(on)'
  <2>1. hsize'[on] \in Range(Primes) /\ Hashed(on) \subseteq InList(on)
        /\ \A c, d \in Hashed(on) : ix[c] = ix[d] => c = d
    BY <1>1, <1>2 DEF TableOK
  <2>2. InList(on)' = InList(on)
    <3>1. \A j \in {on} : InList(j)' = InList(j)
      BY <1>1, <1>3
    <3> QED BY <1>1, <3>1
  <2>3. Hashed(on)' \subseteq InList(on)' /\ \A c, d \in Hashed(on)' : ix'[c] = ix'[d] => c = d
    BY <1>1, <1>9, <2>1, <2>2
  <2>4. \A h \in DOMAIN tab'[on] : \A c \in tab'[on][h] : Hash(on, ix[c])' = h
    BY <1>1, <1>8 DEF Hash
  <2> QED BY <1>1, <1>8, <2>1, <2>3, <2>4 DEF TableOK
<1>11. \A j \in made : TableOK(j)'
  BY <1>1, <1>4, <1>10
<1>12. \A j \in Instances : Hashed(j)' = Hashed(j)
  <2>1. \A j \in Instances \ {on} : Hashed(j)' = Hashed(j)
    BY <1>6 DEF Hashed
  <2>2. \A j \in {on} : Hashed(j)' = Hashed(j)
    BY <1>1, <1>9 DEF Hashed
  <2> QED BY <2>1, <2>2
<1> QED BY <1>1, <1>2, <1>8, <1>11, <1>12 DEF TablesOK

\* The cache a new instance gets is empty, and that of an emptied one too.
LEMMA EmptyTables ==
    ASSUME IInv, NEW i \in Instances, MakeRev(i) \/ Invalidate(i) \/ FreeRev(i)
    PROVE  TablesOK'
<1>1. /\ tab = [j \in Instances |-> tab[j]] /\ made \subseteq Instances /\ TypeOK
      /\ hsize \in [Instances -> Nat] /\ ix \in [Cells -> Ixs]
      /\ \A j \in made : TableOK(j)
      /\ Primes[1] \in Range(Primes) /\ Primes[1] \in Nat
  <2>1. 1 \in DOMAIN Primes /\ Primes[1] \in Nat
    BY PrimesAssumption, LenProperties
  <2> QED BY <2>1 DEF IInv, TypeOK, TablesOK, Range
<1>2. pc = "idle" /\ pc' = "idle" /\ on' = on
  BY DEF MakeRev, Invalidate, FreeRev, searchVars
<1>3. /\ made' \ {i} \subseteq made
      /\ \A j \in Instances \ {i} : InList(j)' = InList(j)
  BY SameLists, FreeLists DEF MakeRev, Invalidate, FreeRev, IInv
<1>4. /\ \A j \in Instances \ {i} : tab'[j] = tab[j] /\ hsize'[j] = hsize[j]
      /\ tab' = [j \in Instances |-> tab'[j]]
  BY <1>1 DEF MakeRev, Invalidate, FreeRev
<1>5. \A j \in Instances \ {i} : \A c \in InList(j) : ix'[c] = ix[c]
  <2>1. \A j \in Instances \ {i} : \A c \in InList(j) : c \in Cells /\ c \notin InList(i)
    BY <1>1, InListFinite DEF IInv, ListsOK
  <2>2. ix' = ix \/ ix' = Wiped(i, ix, 0)
    BY DEF MakeRev, Invalidate, FreeRev, cellVars
  <2>3. \A j \in Instances \ {i} : \A c \in InList(j) : Wiped(i, ix, 0)[c] = ix[c]
    BY <2>1 DEF Wiped, InList
  <2> QED BY <2>2, <2>3
<1>6. ASSUME NEW j \in made', j # i
      PROVE  TableOK(j)'
  <2>1. j \in made /\ j \in Instances
    BY <1>1, <1>3, <1>6
  <2>2. TableOK(j) /\ hsize'[j] = hsize[j] /\ tab'[j] = tab[j]
        /\ InList(j) \subseteq InList(j)' /\ \A c \in InList(j) : ix'[c] = ix[c]
    BY <1>1, <1>3, <1>4, <1>5, <1>6, <2>1
  <2> QED BY <1>2, <2>1, <2>2, SameTable
<1>7. ASSUME i \in made'
      PROVE  TableOK(i)'
  <2>1. ~FreeRev(i)
    BY <1>7 DEF FreeRev
  <2>2. CASE MakeRev(i)
    <3>1. /\ hsize'[i] = Primes[1] /\ tab'[i] = [h \in 0..(Primes[1] - 1) |-> {}]
      BY <1>1, <2>2 DEF MakeRev
    <3>2. DOMAIN tab'[i] = 0..(Primes[1] - 1) /\ \A h \in DOMAIN tab'[i] : tab'[i][h] = {}
      BY <3>1
    <3>3. Hashed(i)' = {}
      BY <3>2 DEF Hashed, Range
    <3> QED BY <1>1, <1>2, <3>1, <3>2, <3>3 DEF TableOK
  <2>3. CASE Invalidate(i)
    <3>1. /\ hsize'[i] = hsize[i] /\ tab'[i] = [h \in DOMAIN tab[i] |-> {}]
          /\ TableOK(i)
      BY <1>1, <2>3 DEF Invalidate
    <3>2. DOMAIN tab'[i] = DOMAIN tab[i] /\ \A h \in DOMAIN tab'[i] : tab'[i][h] = {}
      BY <3>1
    <3>3. Hashed(i)' = {}
      BY <3>2 DEF Hashed, Range
    <3>4. hsize[i] \in Range(Primes) /\ DOMAIN tab[i] = 0..(hsize[i] - 1)
      BY <1>2, <3>1 DEF TableOK
    <3>5. tab'[i] = [h \in DOMAIN tab'[i] |-> tab'[i][h]]
      BY <3>1
    <3> QED BY <1>2, <3>1, <3>2, <3>3, <3>4, <3>5 DEF TableOK
  <2> QED BY <2>1, <2>2, <2>3
<1> QED BY <1>4, <1>6, <1>7 DEF TablesOK

\* Every step leaves the chains sound.
LEMMA TablesStep ==
    ASSUME IInv, Next, "table" \notin Fails
    PROVE  TablesOK'
<1>1. CASE /\ UNCHANGED <<made, hsize, tab, ix, mru>>
           /\ pc = "resize" \/ pc' = "resize" => UNCHANGED <<pc, on>>
  <2>1. \A j \in made : TableOK(j) /\ j \in Instances
    BY DEF IInv, TablesOK, TypeOK
  <2>2. \A j \in Instances : InList(j)' = InList(j)
    BY <1>1, SameLists
  <2>3. \A j \in made : TableOK(j)'
    BY <1>1, <2>1, <2>2, SameTable
  <2> QED BY <1>1, <2>3 DEF IInv, TablesOK
<1>2. CASE Hit
  <2>1. /\ pc = "lookup" /\ pc' = "fetched" /\ UNCHANGED <<made, hsize, tab, ix>>
    BY <1>2 DEF Hit
  <2>2. \A j \in Instances : InList(j)' = InList(j)
    BY <1>2, LockStep, LockLists DEF IInv
  <2>3. \A j \in made : TableOK(j) /\ j \in Instances
    BY DEF IInv, TablesOK, TypeOK
  <2>4. \A j \in made : TableOK(j)'
    BY <2>1, <2>2, <2>3, SameTable
  <2> QED BY <2>1, <2>4 DEF IInv, TablesOK
<1> QED BY <1>1, <1>2, EmptyTables, DiscardTables, ReuseTables, PlaceTables, GrowTables,
           ResizeTables, TableFrame

-----------------------------------------------------------------------------
(***************************************************************************)
(* Types.                                                                  *)
(***************************************************************************)
LEMMA ListHead ==
    ASSUME TypeOK, list # <<>>
    PROVE  Wanted \in Ixs /\ Tail(list) \in Seq(Ixs)
BY HeadTailProperties DEF TypeOK, Wanted

InstanceTypes ==
    /\ insts \subseteq made /\ made \subseteq Instances
    /\ base \in [Instances -> Nat] /\ hsize \in [Instances -> Nat]

\* The steps that change what an instance has.
LEMMA InstanceFrame ==
    ASSUME Next
    PROVE  \/ UNCHANGED <<insts, made, base, hsize, tab>>
           \/ UNCHANGED <<insts, made, base, hsize>>
              /\ (Place \/ Resize \/ ReuseCell \/ (\E i \in Instances : Discarding(i))
                                               \/ ReuseFrees)
           \/ \E i \in Instances : MakeRev(i) \/ InitRevaccell(i) \/ Invalidate(i) \/ FreeRev(i)
           \/ \E c \in Cells : Grow(c)
<1>1. ASSUME NEW i \in Instances, NEW p, Discard(i, p)
      PROVE  UNCHANGED <<made, hsize>>
  BY <1>1 DEF Discard
<1>2. ASSUME NEW i \in Instances, Shed(i)
      PROVE  UNCHANGED <<insts, made, base, hsize>> /\ Discarding(i)
  BY <1>1, <1>2 DEF Shed, memVars, Discarding
<1>3. ReuseFrees => UNCHANGED <<insts, made, base, hsize>>
  BY DEF ReuseFrees, Discard, memVars
<1> QED
  BY <1>2, <1>3
  DEF Next, Caller, Lookup, Stopped, vars, memVars, cacheVars, cellVars, searchVars, allocVars,
      StartSearch, ShedDone, ReduceDone, MallocFails, GetCell, Skip,
      NoRoom, Miss, Resize, ReuseCell, SetSort, ListEnds, SearchCell, PassOver, Leave, Hit,
      Place, ShareSimplex, NewSimplex, AllocDone, Compute, NextChunk, SearchDone

\* An instance has a table as long as it has a cache.
LEMMA InstanceTypesStep ==
    ASSUME IInv, Next, TablesOK'
    PROVE  InstanceTypes' /\ UnmadeOK'
<1> DEFINE Goal == InstanceTypes' /\ UnmadeOK'
<1>0. /\ InstanceTypes /\ UnmadeOK /\ on \in Instances /\ TypeOK
      /\ tab = [j \in Instances |-> tab[j]]
  BY DEF IInv, TypeOK, InstanceTypes, TablesOK
<1>1. CASE UNCHANGED <<insts, made, base, hsize, tab>>
  BY <1>0, <1>1 DEF InstanceTypes, UnmadeOK
<1>2. ASSUME NEW i \in Instances, MakeRev(i)
      PROVE  Goal
  <2>1. Primes[1] \in Nat
    BY PrimesAssumption, LenProperties
  <2> QED BY <1>0, <1>2, <2>1, SizesAssumption DEF MakeRev, InstanceTypes, UnmadeOK
<1>3. ASSUME NEW i \in Instances, InitRevaccell(i)
      PROVE  Goal
  BY <1>0, <1>3 DEF InitRevaccell, cacheVars, InstanceTypes, UnmadeOK
<1>4. ASSUME NEW i \in Instances, Invalidate(i)
      PROVE  Goal
  BY <1>0, <1>4 DEF Invalidate, LeaveOthers, InstanceTypes, UnmadeOK
<1>5. ASSUME NEW i \in Instances, FreeRev(i)
      PROVE  Goal
  BY <1>0, <1>5 DEF FreeRev, LeaveOthers, InstanceTypes, UnmadeOK
<1>6. ASSUME NEW c \in Cells, Grow(c)
      PROVE  Goal
  <2>1. /\ on \in made /\ UNCHANGED <<insts, made, base, tab>>
        /\ hsize' = hsize \/ hsize' = [hsize EXCEPT ![on] = NextSize(on)]
    BY <1>6, GrowTables DEF Grow, memVars
  <2>2. hsize'[on] \in Nat
    <3>1. hsize'[on] \in Range(Primes)
      BY <1>6, <2>1, GrowTables DEF TablesOK, TableOK
    <3> QED BY <3>1, PrimesAssumption, LenProperties DEF Range
  <2> QED BY <1>0, <2>1, <2>2 DEF InstanceTypes, UnmadeOK
<1>7. ASSUME UNCHANGED <<insts, made, base, hsize>>, NEW i \in made, NEW t,
             tab' = [tab EXCEPT ![i] = t]
      PROVE  Goal
  BY <1>0, <1>7 DEF InstanceTypes, UnmadeOK
<1>8. ASSUME UNCHANGED <<insts, made, base, hsize>>,
             Place \/ Resize \/ ReuseCell \/ ReuseFrees \/ \E i \in Instances : Discarding(i)
      PROVE  Goal
  <2>1. CASE Place \/ Resize \/ ReuseCell
    <3>1. on \in made
      BY <2>1 DEF Place, Resize, ReuseCell, IInv, PhaseOK, TypeOK
    <3>2. \E t : tab' = [tab EXCEPT ![on] = t]
      BY <2>1 DEF Place, Resize, ReuseCell
    <3> QED BY <1>7, <1>8, <3>1, <3>2
  <2>2. ASSUME NEW i \in Instances, Discarding(i)
        PROVE  Goal
    <3>1. i \in made /\ Discard(i, Victim(i))
      BY <2>2, DiscardStep
    <3>2. \E t : tab' = [tab EXCEPT ![i] = t]
      BY <3>1 DEF Discard
    <3> QED BY <1>7, <1>8, <3>1, <3>2
  <2> QED BY <1>0, <1>8, <2>1, <2>2 DEF Discarding
<1> QED BY <1>1, <1>2, <1>3, <1>4, <1>5, <1>6, <1>8, InstanceFrame

CellTypes ==
    /\ ix \in [Cells -> Ixs] /\ sx \in [Cells -> SUBSET Simplexes]
    /\ ready \in [Cells -> BOOLEAN] /\ data \in [Cells -> Ixs \union {NoIx}]

\* The fields of the cells keep their types.
LEMMA CellTypesStep ==
    ASSUME IInv, Next
    PROVE  CellTypes'
<1>0. CellTypes /\ TypeOK
  BY DEF IInv, TypeOK, CellTypes
<1> USE DEF CellTypes
<1>1. CASE UNCHANGED <<mru, ref, sx, ready, data, ix>>
  BY <1>0, <1>1
<1>2. ASSUME NEW i \in Instances, Invalidate(i) \/ FreeRev(i)
      PROVE  CellTypes'
  <2>1. /\ sx' = Wiped(i, sx, {}) /\ ix' = Wiped(i, ix, 0)
        /\ ready' = Wiped(i, ready, FALSE) /\ data' = Wiped(i, data, NoIx)
    BY <1>2 DEF Invalidate, FreeRev
  <2> QED BY <1>0, <2>1, SetsAssumption DEF Wiped
<1>3. ASSUME NEW i \in Instances, Discarding(i)
      PROVE  CellTypes'
  <2> DEFINE d == mru[i][Victim(i)]
  <2>1. /\ ix' = [ix EXCEPT ![d] = 0] /\ sx' = [sx EXCEPT ![d] = {}]
        /\ ready' = [ready EXCEPT ![d] = FALSE] /\ data' = [data EXCEPT ![d] = NoIx]
    BY <1>3, DiscardStep DEF Discard
  <2> HIDE DEF d
  <2> QED BY <1>0, <2>1, SetsAssumption
<1>4. CASE Hit \/ (\E c \in Cells : Grow(c) \/ PassOver(c)) \/ Compute
  BY <1>0, <1>4 DEF Hit, Grow, PassOver, Compute, Leave, cellVars
<1>5. CASE Place
  <2>1. /\ cell \in Cells /\ ix' = [ix EXCEPT ![cell] = Wanted]
        /\ ready' = [ready EXCEPT ![cell] = FALSE] /\ UNCHANGED <<sx, data>>
    BY <1>5, PlaceTables DEF Place, NotReady
  <2>2. list # <<>>
    BY <1>5 DEF Place, IInv, PhaseOK, Fetching
  <2> QED BY <1>0, <2>1, <2>2, ListHead
<1>6. CASE SetSort
  <2>1. /\ data' = [data EXCEPT ![cell] = IF ready[cell] THEN data[cell] ELSE Wanted]
        /\ ready' = [ready EXCEPT ![cell] = TRUE] /\ UNCHANGED <<sx, ix>>
        /\ Wanted \in Ixs /\ cell \in Cells
    BY <1>6, FetchedStep DEF SetSort
  <2> QED BY <1>0, <2>1
<1>7. CASE ReuseCell
  BY <1>0, <1>7 DEF ReuseCell
<1>8. ASSUME NEW x \in Simplexes, ShareSimplex(x) \/ NewSimplex(x)
      PROVE  CellTypes'
  BY <1>0, <1>8 DEF ShareSimplex, NewSimplex
<1>9. ReuseFrees => \E i \in Instances : Discarding(i)
  BY <1>0 DEF Discarding, TypeOK
<1> QED BY <1>1, <1>2, <1>3, <1>4, <1>5, <1>6, <1>7, <1>8, <1>9, CellFrame

SearchTypes ==
    /\ on \in Instances /\ list \in Seq(Ixs) /\ touched \subseteq Ixs
    /\ stouched \subseteq Simplexes
    /\ lclist \subseteq Cells /\ cell \in Cells \union {NoCell} /\ todo \subseteq Simplexes
    /\ pc \in Pcs /\ back \in {"idle", "grow", "resize", "alloc"} /\ retry \in BOOLEAN

\* The steps of a search, those that are not turns of a loop.
LEMMA SearchFrame ==
    ASSUME Next
    PROVE  \/ UNCHANGED <<searchVars, pc, cell, todo, allocVars>>
           \/ \E i \in Instances : InitRevaccell(i) \/ StartSearch(i)
           \/ ShedDone \/ ReduceDone \/ MallocFails \/ GetCell \/ Skip \/ NoRoom \/ Hit \/ Miss
           \/ \E c \in Cells : Grow(c) \/ SearchCell(c) \/ PassOver(c)
           \/ Resize \/ ReuseCell \/ Place \/ SetSort \/ ListEnds
           \/ \E x \in Simplexes : ShareSimplex(x) \/ NewSimplex(x)
           \/ AllocDone \/ Compute \/ NextChunk \/ SearchDone
BY DEF Next, Caller, Lookup, Stopped, vars, MakeRev, Invalidate, FreeRev, Shed, ReuseFrees

\* The fields of the search keep their types.
LEMMA SearchTypesStep ==
    ASSUME IInv, Next
    PROVE  SearchTypes'
<1>0. SearchTypes /\ TypeOK /\ ix \in [Cells -> Ixs] /\ sx \in [Cells -> SUBSET Simplexes]
  BY DEF IInv, TypeOK, SearchTypes
<1> USE DEF SearchTypes
<1>1. CASE UNCHANGED <<searchVars, pc, cell, todo, allocVars>>
  BY <1>0, <1>1 DEF searchVars, allocVars
<1>2. CASE \E i \in Instances : InitRevaccell(i) \/ StartSearch(i)
  BY <1>0, <1>2, SetsAssumption DEF InitRevaccell, StartSearch, searchVars, allocVars, Pcs
<1>3. CASE ShedDone \/ ReduceDone \/ MallocFails \/ GetCell \/ NoRoom \/ Miss \/ Resize
           \/ ListEnds \/ AllocDone \/ NextChunk \/ SearchDone
  BY <1>0, <1>3
  DEF ShedDone, ReduceDone, MallocFails, GetCell, NoRoom, Miss, Resize, ListEnds, AllocDone,
      NextChunk, SearchDone, searchVars, allocVars, Pcs, RestOfList
<1>4. CASE Skip
  BY <1>0, <1>4, ListHead DEF Skip, allocVars
<1>5. CASE Hit \/ Place
  BY <1>0, <1>5, LockStep DEF Hit, Place, Lock, searchVars, allocVars, Pcs
<1>6. ASSUME NEW c \in Cells, Grow(c)
      PROVE  SearchTypes'
  BY <1>0, <1>6 DEF Grow, searchVars, Pcs
<1>7. ASSUME NEW c \in Cells, SearchCell(c)
      PROVE  SearchTypes'
  BY <1>0, <1>7, SetsAssumption, ZenonT(60) DEF SearchCell, searchVars, allocVars, Pcs
<1>8. ASSUME NEW c \in Cells, PassOver(c)
      PROVE  SearchTypes'
  BY <1>0, <1>8 DEF PassOver, Leave, allocVars, Pcs
<1>9. CASE ReuseCell
  BY <1>0, <1>9, ReuseTables DEF ReuseCell, searchVars, allocVars, Pcs
<1>10. CASE SetSort
  BY <1>0, <1>10, FetchedStep, ListHead DEF SetSort, allocVars, Pcs
<1>11. ASSUME NEW x \in Simplexes, ShareSimplex(x) \/ NewSimplex(x)
      PROVE  SearchTypes'
  BY <1>0, <1>11 DEF ShareSimplex, NewSimplex, searchVars, allocVars, Pcs
<1>12. CASE Compute
  <2>1. cell \in Cells
    BY <1>0, <1>12 DEF Compute, IInv, PhaseOK
  <2> QED BY <1>0, <1>12, <2>1 DEF Compute, Leave, allocVars, Pcs
<1> QED BY <1>1, <1>2, <1>3, <1>4, <1>5, <1>6, <1>7, <1>8, <1>9, <1>10, <1>11, <1>12, SearchFrame

-----------------------------------------------------------------------------
(***************************************************************************)
(* The cells of the running search.                                        *)
(***************************************************************************)
LEMMA HeldCells ==
    ASSUME IInv, NEW c \in lclist
    PROVE  /\ c \in InList(on) /\ c \in Hashed(on) /\ c \in Cells /\ ref[c] = 1
           /\ on \in Instances /\ on \in made /\ on \in insts /\ pc # "idle"
<1>1. c \in InList(on) /\ c \in Hashed(on) /\ on \in Instances
  BY DEF IInv, LockedAreCurrent, Hashed, TypeOK
<1>2. c \in Cells /\ on \in insts /\ on \in made /\ pc # "idle"
  BY <1>1, InListFinite DEF IInv, PhaseOK, TypeOK
<1>3. c \in Locked(on)
  BY <1>1 DEF IInv, LocksCounted
<1>4. ref[c] = 1
  BY <1>2, <1>3 DEF IInv, TypeOK, CellsOK, Locked
<1> QED BY <1>1, <1>2, <1>4

\* The steps that may touch a cell a search holds.
LEMMA HeldFrame ==
    ASSUME Next
    PROVE  \/ UNCHANGED <<mru, tab, ix, ready, data, on, touched, lclist>>
           \/ \E i \in Instances : \/ MakeRev(i) \/ Invalidate(i) \/ FreeRev(i)
                                   \/ StartSearch(i) \/ Discarding(i)
           \/ ReuseFrees \/ Hit \/ Place \/ SetSort \/ ReuseCell \/ Resize \/ Compute \/ SearchDone
           \/ \E c \in Cells : Grow(c) \/ PassOver(c)
BY DEF Next, Caller, Lookup, Stopped, vars, memVars, cacheVars, cellVars, searchVars, allocVars,
       InitRevaccell, ShedDone, ReduceDone, MallocFails, GetCell, Skip, NoRoom, Miss, ListEnds,
       SearchCell, ShareSimplex, NewSimplex, AllocDone, NextChunk, Discarding

\* A cell in the list of the search keeps its index and its values.
LEMMA HeldStep ==
    ASSUME IInv, Next, "table" \notin Fails
    PROVE  LockedAreCurrent'
<1> DEFINE Held(c) == /\ c \in InList(on) /\ c \in Hashed(on)
                      /\ ix[c] \in touched /\ ready[c] /\ data[c] = ix[c]
<1>0. /\ LockedAreCurrent <=> \A c \in lclist : Held(c)
      /\ LockedAreCurrent' <=> \A c \in lclist' : Held(c)'
  BY DEF LockedAreCurrent, Hashed
<1>p. /\ \A c \in lclist : Held(c)
      /\ \A c \in lclist : c \in Cells /\ ref[c] = 1 /\ on \in Instances /\ on \in made
  BY <1>0, HeldCells DEF IInv
<1>t. /\ ix \in [Cells -> Ixs] /\ ready \in [Cells -> BOOLEAN]
      /\ data \in [Cells -> Ixs \union {NoIx}] /\ ref \in [Cells -> Nat] /\ on \in Instances
      /\ TypeOK
  BY DEF IInv, TypeOK
<1>1. CASE UNCHANGED <<mru, tab, ix, ready, data, on, touched, lclist>>
  BY <1>0, <1>1, <1>p DEF InList, Hashed
<1>2. ASSUME NEW i \in Instances, MakeRev(i) \/ Invalidate(i) \/ FreeRev(i) \/ StartSearch(i)
      PROVE  lclist' = {}
  <2>1. pc = "idle" /\ lclist' = lclist
    BY <1>2 DEF MakeRev, Invalidate, FreeRev, StartSearch, searchVars
  <2> QED BY <2>1 DEF IInv, PhaseOK
<1>3. ASSUME NEW i \in Instances, Discarding(i)
      PROVE  LockedAreCurrent'
  <2> DEFINE d == mru[i][Victim(i)]
  <2>1. /\ d \in InList(i) /\ ref[d] = 0 /\ Discard(i, Victim(i)) /\ Victim(i) \in DOMAIN mru[i]
        /\ UNCHANGED <<on, touched, lclist>> /\ d \in Cells
    BY <1>3, DiscardStep DEF searchVars
  <2>2. \A j \in Instances : InList(j) \ {d} \subseteq InList(j)'
    BY <1>t, <2>1, DiscardLists DEF IInv
  <2>3. \A j \in Instances : Hashed(j) \ {d} \subseteq Hashed(j)'
    BY <1>3, DiscardTables
  <2> HIDE DEF d
  <2>4. /\ ix' = [ix EXCEPT ![d] = 0] /\ ready' = [ready EXCEPT ![d] = FALSE]
        /\ data' = [data EXCEPT ![d] = NoIx]
    BY <2>1 DEF Discard, d
  <2>5. \A j \in {on} : InList(j) \ {d} \subseteq InList(j)' /\ Hashed(j) \ {d} \subseteq Hashed(j)'
    BY <1>t, <2>2, <2>3
  <2>6. InList(on) \ {d} \subseteq InList(on)' /\ Hashed(on) \ {d} \subseteq Hashed(on)'
    BY <2>1, <2>5
  <2>7. ASSUME NEW c \in lclist
        PROVE  Held(c)'
    <3>1. c # d /\ c \in Cells
      BY <1>p, <2>1
    <3>2. ix'[c] = ix[c] /\ ready'[c] = ready[c] /\ data'[c] = data[c]
      BY <1>t, <2>4, <3>1
    <3> QED BY <1>p, <2>1, <2>6, <3>1, <3>2
  <2> QED BY <1>0, <2>1, <2>7
<1>4. ASSUME UNCHANGED <<on, touched>>, lclist' \subseteq lclist,
             \A j \in {on} : InList(j) \subseteq InList(j)' /\ \A c \in lclist : c \in Hashed(j)',
             \A c \in lclist : ix'[c] = ix[c] /\ ready'[c] = ready[c] /\ data'[c] = data[c]
      PROVE  LockedAreCurrent'
  <2>1. InList(on) \subseteq InList(on)' /\ \A c \in lclist : c \in Hashed(on)'
    BY <1>4
  <2>2. ASSUME NEW c \in lclist'
        PROVE  Held(c)'
    BY <1>4, <1>p, <2>1
  <2> QED BY <1>0, <2>2
<1>5. CASE Hit
  <2>1. \A j \in Instances : InList(j)' = InList(j)
    BY <1>5, LockStep, LockLists DEF IInv
  <2>2. UNCHANGED <<tab, ix, ready, data, on, touched, lclist>>
    BY <1>5 DEF Hit, searchVars
  <2>3. \A j \in Instances : Hashed(j)' = Hashed(j)
    BY <2>2 DEF Hashed
  <2> QED BY <1>4, <1>p, <1>t, <2>1, <2>2, <2>3
<1>6. CASE Place
  <2>1. /\ cell \in Cells /\ cell \notin Hashed(on) /\ ix' = [ix EXCEPT ![cell] = Wanted]
        /\ on' = on /\ Hashed(on)' = Hashed(on) \union {cell} /\ cell \in InList(on)
    BY <1>6, PlaceTables
  <2>2. \A j \in Instances : InList(j)' = InList(j)
    BY <1>6, LockStep, LockLists DEF IInv
  <2>3. /\ ready' = [ready EXCEPT ![cell] = FALSE] /\ data' = data
        /\ UNCHANGED <<on, touched, lclist>>
    BY <1>6 DEF Place, NotReady, searchVars
  <2>4. cell \notin lclist
    BY <1>p, <2>1
  <2>5. \A c \in lclist : ix'[c] = ix[c] /\ ready'[c] = ready[c] /\ data'[c] = data[c]
    BY <1>p, <1>t, <2>1, <2>3, <2>4
  <2>6. \A j \in {on} : \A c \in lclist : c \in Hashed(j)'
    BY <1>p, <2>1
  <2> QED BY <1>4, <1>t, <2>2, <2>3, <2>5, <2>6
<1>7. CASE SetSort
  <2>1. /\ cell \in InList(on) /\ cell \in Hashed(on) /\ ix[cell] = Wanted /\ cell \in Cells
        /\ cell \notin lclist
    BY <1>7, FetchedStep
  <2>2. /\ data' = [data EXCEPT ![cell] = IF ready[cell] THEN data[cell] ELSE Wanted]
        /\ ready' = [ready EXCEPT ![cell] = TRUE] /\ UNCHANGED <<mru, tab, ix, on>>
        /\ touched' = touched \union {Wanted} /\ lclist' \subseteq lclist \union {cell}
    BY <1>7 DEF SetSort
  <2>3. InList(on)' = InList(on) /\ Hashed(on)' = Hashed(on)
    BY <2>2 DEF InList, Hashed
  <2>4. ready[cell] => data[cell] = ix[cell]
    BY <2>1 DEF IInv, CellsOK
  <2>5. /\ \A c \in Cells \ {cell} : ready'[c] = ready[c] /\ data'[c] = data[c]
        /\ ready'[cell] /\ data'[cell] = Wanted
    BY <1>t, <2>1, <2>2, <2>4
  <2>6. ASSUME NEW c \in {cell}
        PROVE  Held(c)'
    BY <1>t, <2>1, <2>2, <2>3, <2>5
  <2>7. ASSUME NEW c \in lclist
        PROVE  Held(c)'
    <3>1. c # cell /\ c \in Cells
      BY <1>p, <2>1
    <3>2. ready'[c] = ready[c] /\ data'[c] = data[c]
      BY <2>5, <3>1
    <3> QED BY <1>p, <2>2, <2>3, <3>2
  <2> QED BY <1>0, <2>2, <2>6, <2>7
<1>8. CASE ReuseCell
  <2>1. /\ Hashed(on)' = Hashed(on) \ {cell'} /\ cell' \notin lclist /\ on' = on
    BY <1>8, ReuseTables
  <2>2. UNCHANGED <<mru, ix, ready, data, touched, lclist>>
    BY <1>8 DEF ReuseCell, searchVars
  <2>3. \A j \in Instances : InList(j)' = InList(j)
    BY <2>2, SameLists
  <2>4. \A j \in {on} : \A c \in lclist : c \in Hashed(j)'
    BY <1>p, <2>1
  <2> QED BY <1>4, <1>t, <2>1, <2>2, <2>3, <2>4
<1>9. CASE Resize
  <2>1. on' = on /\ \A j \in Instances : Hashed(j)' = Hashed(j)
    BY <1>9, ResizeTables
  <2>2. UNCHANGED <<mru, ix, ready, data, touched, lclist>>
    BY <1>9 DEF Resize, searchVars, cellVars
  <2>3. \A j \in Instances : InList(j)' = InList(j)
    BY <2>2, SameLists
  <2> QED BY <1>4, <1>p, <1>t, <2>1, <2>2, <2>3
<1>10. CASE Compute \/ \E c \in Cells : PassOver(c)
  <2>1. UNCHANGED <<mru, tab, ix, ready, data, on, touched>> /\ lclist' \subseteq lclist
    BY <1>10 DEF Compute, PassOver, Leave
  <2>2. \A j \in Instances : InList(j)' = InList(j) /\ Hashed(j)' = Hashed(j)
    BY <2>1, SameLists DEF Hashed
  <2> QED BY <1>4, <1>p, <1>t, <2>1, <2>2
<1>11. CASE SearchDone
  BY <1>0, <1>11 DEF SearchDone
<1>12. ASSUME NEW c \in Cells, Grow(c)
       PROVE  LockedAreCurrent'
  <2>1. /\ \A j \in Instances : InList(j) \subseteq InList(j)'
        /\ UNCHANGED <<tab, ix, on>>
    BY <1>12, GrowLists, GrowTables DEF IInv
  <2>2. UNCHANGED <<ready, data, touched, lclist>>
    BY <1>12 DEF Grow, searchVars, cellVars
  <2>3. \A j \in Instances : Hashed(j)' = Hashed(j)
    BY <2>1 DEF Hashed
  <2> QED BY <1>4, <1>p, <1>t, <2>1, <2>2, <2>3
<1>13. ReuseFrees => \E i \in Instances : Discarding(i)
  BY <1>t DEF Discarding
<1>14. lclist' = {} => LockedAreCurrent'
  BY DEF LockedAreCurrent
<1> HIDE DEF Held
<1> QED BY <1>1, <1>2, <1>3, <1>5, <1>6, <1>7, <1>8, <1>9, <1>10, <1>11, <1>12, <1>13, <1>14,
           HeldFrame

-----------------------------------------------------------------------------
(***************************************************************************)
(* Where the search is, and what it then knows.                            *)
(***************************************************************************)
Quiet == pc = "idle" \/ (pc = "reduce" /\ back = "idle")

ControlOK ==
    /\ back # "resize" /\ (pc # "reduce" => back = "idle")
    /\ Quiet => lclist = {}
    /\ ~Quiet => on \in insts
    /\ Fetching => list # <<>> /\ Wanted \notin touched

\* The instances that share the memory change between the searches only.
LEMMA SharersStay ==
    ASSUME Next
    PROVE  \/ insts' = insts
           \/ pc = "idle" /\ (pc' = "idle" \/ (pc' = "reduce" /\ back' = "idle"))
              /\ UNCHANGED lclist
BY DEF Next, Caller, Lookup, Stopped, vars, memVars, searchVars, allocVars, MakeRev, Invalidate,
       FreeRev, InitRevaccell, StartSearch, Shed, ShedDone, ReduceDone, MallocFails, GetCell, Skip,
       NoRoom, Miss, Hit, Grow, Resize, ReuseCell, ReuseFrees, Place, SetSort, ListEnds, SearchCell,
       PassOver, Leave, ShareSimplex, NewSimplex, AllocDone, Compute, NextChunk, SearchDone

\* A search runs on an instance that shares, with a list to the end of a fetch.
LEMMA ControlStep ==
    ASSUME IInv, Next, "table" \notin Fails
    PROVE  ControlOK'
<1>0. ControlOK /\ TypeOK
  BY DEF IInv, PhaseOK, ControlOK, Quiet
<1>s. \/ insts' = insts
      \/ pc = "idle" /\ (pc' = "idle" \/ (pc' = "reduce" /\ back' = "idle")) /\ UNCHANGED lclist
  BY SharersStay
<1> USE DEF ControlOK, Quiet, Fetching, Wanted
<1>1. CASE UNCHANGED <<searchVars, pc, cell, todo, allocVars>>
  BY <1>0, <1>1, <1>s DEF searchVars, allocVars
<1>2. CASE \E i \in Instances : InitRevaccell(i) \/ StartSearch(i)
  BY <1>0, <1>2 DEF InitRevaccell, StartSearch, searchVars, allocVars, memVars
<1>3. CASE ShedDone \/ GetCell \/ NoRoom \/ Miss \/ Resize \/ ListEnds \/ AllocDone
           \/ NextChunk \/ SearchDone
  BY <1>0, <1>3, <1>s
  DEF ShedDone, GetCell, NoRoom, Miss, Resize, ListEnds, AllocDone, NextChunk, SearchDone,
      searchVars, allocVars
<1>4. CASE ReduceDone
  BY <1>0, <1>4, <1>s DEF ReduceDone, searchVars, TypeOK
<1>5. CASE MallocFails
  BY <1>0, <1>5, <1>s DEF MallocFails, Requested, searchVars, allocVars
<1>6. CASE Skip
  BY <1>0, <1>6, <1>s DEF Skip, allocVars
<1>7. CASE Hit \/ Place
  BY <1>0, <1>7, <1>s DEF Hit, Place, Lock, searchVars, allocVars
<1>8. CASE \E c \in Cells : Grow(c) \/ SearchCell(c) \/ PassOver(c)
  BY <1>0, <1>8, <1>s DEF Grow, SearchCell, PassOver, Leave, searchVars, allocVars
<1>9. CASE ReuseCell \/ SetSort \/ Compute
  BY <1>0, <1>9, <1>s DEF ReuseCell, SetSort, Compute, Leave, searchVars, allocVars
<1>10. CASE \E x \in Simplexes : ShareSimplex(x) \/ NewSimplex(x)
  BY <1>0, <1>10, <1>s DEF ShareSimplex, NewSimplex, searchVars, allocVars
<1> QED BY <1>1, <1>2, <1>3, <1>4, <1>5, <1>6, <1>7, <1>8, <1>9, <1>10, SearchFrame

FetchOK ==
    /\ Missed => \A c \in Hashed(on) : ix[c] # Wanted
    /\ InHand => /\ cell \in InList(on) \ Hashed(on)
                 /\ ref[cell] = 0 /\ sx[cell] = {}
    /\ pc = "fetched" => /\ cell \in Hashed(on) \ lclist
                         /\ ix[cell] = Wanted /\ ref[cell] = 1

\* The other steps leave a fetch that has missed as it is, or end it.
LEMMA FetchFrame ==
    ASSUME IInv, Next
    PROVE  \/ UNCHANGED <<on, list, tab, ix>> /\ (Missed' => Missed) /\ ~InHand' /\ pc' # "fetched"
           \/ ~Missed' /\ ~InHand' /\ pc' # "fetched"
           \/ \E i \in Instances : Discarding(i)
           \/ Hit \/ Place \/ Miss \/ ReuseCell \/ Resize
           \/ \E c \in Cells : Grow(c)
<1> USE DEF Missed, InHand
<1>0. TypeOK /\ (pc # "reduce" => back = "idle")
  BY DEF IInv, PhaseOK
<1>1. \A i \in Instances : Shed(i) => Discarding(i)
  BY DEF Discarding
<1>2. ReuseFrees => \E i \in Instances : Discarding(i)
  BY DEF Discarding, IInv, TypeOK
<1>3. Caller => ~Missed' /\ ~InHand' /\ pc' # "fetched"
  BY <1>0 DEF Caller, MakeRev, InitRevaccell, Invalidate, FreeRev, StartSearch, searchVars, allocVars
<1>4. ReduceDone =>
         UNCHANGED <<on, list, tab, ix>> /\ (Missed' => Missed) /\ ~InHand' /\ pc' # "fetched"
  <2>1. back \in {"idle", "grow", "alloc"}
    BY DEF IInv, PhaseOK, TypeOK
  <2> QED BY <2>1 DEF ReduceDone, searchVars, cacheVars, cellVars
<1>5. MallocFails => UNCHANGED <<on, list, tab, ix>> /\ pc \in {"grow", "resize", "alloc"}
                     /\ (pc' = "error" \/ (pc' = "reduce" /\ back' = pc))
  BY DEF MallocFails, searchVars, cacheVars, cellVars
<1>6. MallocFails =>
         UNCHANGED <<on, list, tab, ix>> /\ (Missed' => Missed) /\ ~InHand' /\ pc' # "fetched"
  BY <1>5
<1>7. ASSUME Next, ~Caller, ~ReduceDone, ~MallocFails, ~Hit, ~Place, ~Miss, ~ReuseCell, ~Resize,
             ~ReuseFrees, \A i \in Instances : ~Shed(i), \A c \in Cells : ~Grow(c)
      PROVE  ~Missed' /\ ~InHand' /\ pc' # "fetched"
  BY <1>0, <1>7
  DEF Next, Lookup, Stopped, vars, memVars, cacheVars, cellVars, searchVars, allocVars,
      ShedDone, GetCell, Skip, NoRoom, SetSort, ListEnds, SearchCell, PassOver, Leave,
      ShareSimplex, NewSimplex, AllocDone, Compute, NextChunk, SearchDone
<1> QED BY <1>1, <1>2, <1>3, <1>4, <1>6, <1>7

\* A lookup that finds nothing in the chain of its index: no cell has it.
LEMMA MissFound ==
    ASSUME IInv, pc = "lookup", HitSet(on, Wanted) = {}
    PROVE  \A c \in Hashed(on) : ix[c] # Wanted
<1>1. on \in made
  BY DEF IInv, PhaseOK, TypeOK
<1>2. TableOK(on)
  BY <1>1 DEF IInv, TablesOK
<1>3. ASSUME NEW c \in Hashed(on), ix[c] = Wanted
      PROVE  FALSE
  <2>1. PICK h \in DOMAIN tab[on] : c \in tab[on][h]
    BY DEF Hashed, Range
  <2>2. Hash(on, ix[c]) = h
    BY <1>2, <2>1 DEF TableOK
  <2> QED BY <1>3, <2>1, <2>2 DEF HitSet
<1> QED BY <1>3

\* A fetch that has missed keeps missing until it has placed its cell.
LEMMA FetchStep ==
    ASSUME IInv, Next
    PROVE  FetchOK'
<1>0. FetchOK /\ TypeOK /\ on \in Instances /\ ref \in [Cells -> Nat]
      /\ sx \in [Cells -> SUBSET Simplexes] /\ ix \in [Cells -> Ixs]
  BY DEF IInv, PhaseOK, FetchOK, TypeOK
<1>1. CASE UNCHANGED <<on, list, tab, ix>> /\ (Missed' => Missed) /\ ~InHand' /\ pc' # "fetched"
  <2>1. Hashed(on)' = Hashed(on) /\ Wanted' = Wanted
    BY <1>1 DEF Hashed, Wanted
  <2> QED BY <1>0, <1>1, <2>1 DEF FetchOK
<1>2. CASE ~Missed' /\ ~InHand' /\ pc' # "fetched"
  BY <1>2 DEF FetchOK
<1>3. ASSUME NEW i \in Instances, Discarding(i)
      PROVE  FetchOK'
  <2>1. /\ pc \in {"shed", "trim", "reduce", "reuse"}
        /\ UNCHANGED <<on, list, pc, back>>
    BY <1>3, DiscardStep DEF searchVars, allocVars
  <2>2. Missed' = Missed /\ Wanted' = Wanted
    BY <2>1 DEF Missed, Wanted
  <2>3. /\ \A j \in Instances : Hashed(j)' \subseteq Hashed(j)
        /\ \A j \in Instances : \A c \in Hashed(j)' : ix'[c] = ix[c] \/ j \notin made
    BY <1>3, DiscardTables
  <2>4. ASSUME Missed
        PROVE  \A c \in Hashed(on)' : ix'[c] # Wanted
    <3>1. on \in made
      BY <2>1, <2>4 DEF IInv, PhaseOK, Missed, TypeOK
    <3>2. \A j \in {on} : \A c \in Hashed(j)' : c \in Hashed(j) /\ ix'[c] = ix[c]
      BY <1>0, <2>3, <3>1
    <3>3. \A c \in Hashed(on)' : c \in Hashed(on) /\ ix'[c] = ix[c]
      BY <2>1, <3>2
    <3> QED BY <1>0, <2>4, <3>3 DEF FetchOK
  <2> QED BY <2>1, <2>2, <2>4 DEF FetchOK, InHand
<1>4. CASE Hit
  <2>1. PICK c \in HitSet(on, Wanted) : Lock(c)
    BY <1>4 DEF Hit
  <2>2. /\ pc = "lookup" /\ pc' = "fetched" /\ UNCHANGED <<tab, ix, on, list, lclist>>
    BY <1>4 DEF Hit, searchVars
  <2>3. c \in Hashed(on) /\ ix[c] = Wanted /\ c \notin lclist /\ ref[c] = 0 /\ c \in Cells
    BY <2>1, <2>2, HitFound
  <2>4. cell' = c /\ ref'[c] = 1
    BY <1>0, <2>1, <2>3 DEF Lock
  <2>5. Hashed(on)' = Hashed(on) /\ Wanted' = Wanted
    BY <2>2 DEF Hashed, Wanted
  <2> QED BY <2>2, <2>3, <2>4, <2>5 DEF FetchOK, Missed, InHand
<1>5. CASE Place
  <2>1. /\ on' = on /\ cell' = cell /\ cell \in Cells /\ cell \notin Hashed(on)
        /\ Hashed(on)' = Hashed(on) \union {cell} /\ ix' = [ix EXCEPT ![cell] = Wanted]
    BY <1>5, PlaceTables
  <2>2. pc = "place" /\ pc' = "fetched" /\ UNCHANGED <<list, lclist>> /\ Lock(cell)
    BY <1>5 DEF Place, searchVars
  <2>3. ref[cell] = 0 /\ cell \notin lclist
    BY <2>1, <2>2, HeldCells DEF IInv, PhaseOK, InHand
  <2>4. ref'[cell] = 1 /\ ix'[cell] = Wanted /\ Wanted' = Wanted
    BY <1>0, <2>1, <2>2, <2>3 DEF Lock, Wanted
  <2> QED BY <2>1, <2>2, <2>3, <2>4 DEF FetchOK, Missed, InHand
<1>6. CASE Miss
  <2>1. /\ pc = "lookup" /\ HitSet(on, Wanted) = {} /\ pc' \in {"grow", "reuse"}
        /\ UNCHANGED <<tab, ix, on, list>>
    BY <1>6 DEF Miss, cacheVars, cellVars, searchVars
  <2>2. Hashed(on)' = Hashed(on) /\ Wanted' = Wanted
    BY <2>1 DEF Hashed, Wanted
  <2> QED BY <2>1, <2>2, MissFound DEF FetchOK, InHand
<1>7. CASE ReuseCell
  <2>1. /\ on' = on /\ ix' = ix /\ cell' \in InList(on) \ Hashed(on)' /\ cell' \in Cells
        /\ ref[cell'] = 0 /\ Hashed(on)' = Hashed(on) \ {cell'} /\ cell' = mru[on][Victim(on)]
    BY <1>7, ReuseTables
  <2>2. /\ pc = "reuse" /\ pc' = "place" /\ UNCHANGED <<mru, ref, list>>
        /\ sx' = [sx EXCEPT ![cell'] = {}]
    BY <1>7, <2>1 DEF ReuseCell, searchVars
  <2>3. InList(on)' = InList(on) /\ Wanted' = Wanted /\ sx'[cell'] = {}
    BY <1>0, <2>1, <2>2 DEF InList, Wanted
  <2> QED BY <1>0, <2>1, <2>2, <2>3 DEF FetchOK, Missed
<1>8. CASE Resize
  <2>1. on' = on /\ \A j \in Instances : Hashed(j)' = Hashed(j)
    BY <1>8, ResizeTables
  <2>2. pc = "resize" /\ pc' = "place" /\ UNCHANGED <<mru, ref, sx, ix, cell, list>>
    BY <1>8 DEF Resize, cellVars, searchVars
  <2>3. \A j \in {on} : Hashed(j)' = Hashed(j)
    BY <1>0, <2>1
  <2>4. InList(on)' = InList(on) /\ Wanted' = Wanted /\ Hashed(on)' = Hashed(on)
    BY <2>1, <2>2, <2>3 DEF InList, Wanted
  <2> QED BY <1>0, <2>1, <2>2, <2>4 DEF FetchOK, Missed, InHand
<1>9. ASSUME NEW c \in Cells, Grow(c)
      PROVE  FetchOK'
  <2>1. /\ pc = "grow" /\ pc' \in {"resize", "place"} /\ Free(c) /\ cell' = c
        /\ UNCHANGED <<tab, ix, ref, sx, on, list>>
    BY <1>9 DEF Grow, cellVars, searchVars
  <2>2. /\ c \notin InList(on) /\ \A j \in {on} : c \in InList(j)'
    BY <1>0, <1>9, GrowLists DEF IInv
  <2>3. c \in InList(on)' /\ Wanted' = Wanted /\ Hashed(on)' = Hashed(on)
    BY <2>1, <2>2 DEF Hashed, Wanted
  <2>4. Hashed(on) \subseteq InList(on)
    BY <2>1 DEF IInv, TablesOK, TableOK, PhaseOK, TypeOK
  <2>5. ref[c] = 0 /\ sx[c] = {}
    BY <2>1 DEF IInv, CellsOK
  <2> QED BY <1>0, <2>1, <2>2, <2>3, <2>4, <2>5 DEF FetchOK, Missed
<1> QED BY <1>1, <1>2, <1>3, <1>4, <1>5, <1>6, <1>7, <1>8, <1>9, FetchFrame

AllocOK ==
    /\ Allocating => /\ cell \in lclist
                     /\ todo \subseteq SimplexesOf[ix[cell]] \ sx[cell]
    /\ pc = "compute" => cell \in lclist

\* The steps that may touch the cell simplexes are set up for.
LEMMA AllocFrame ==
    ASSUME IInv, Next
    PROVE  \/ ~Allocating' /\ pc' # "compute"
           \/ /\ UNCHANGED <<cell, lclist, todo, ix, sx>> /\ (Allocating' => Allocating)
              /\ pc' = "compute" => pc = "compute" \/ Allocating
           \/ \E i \in Instances : Discarding(i)
           \/ \E c \in Cells : SearchCell(c)
           \/ \E x \in Simplexes : ShareSimplex(x) \/ NewSimplex(x)
<1> USE DEF Allocating
<1>0. TypeOK /\ (pc # "reduce" => back = "idle")
  BY DEF IInv, PhaseOK
<1>1. \A i \in Instances : Shed(i) => Discarding(i)
  BY DEF Discarding
<1>2. ReuseFrees => \E i \in Instances : Discarding(i)
  BY DEF Discarding, IInv, TypeOK
<1>3. Caller => ~Allocating' /\ pc' # "compute"
  BY <1>0 DEF Caller, MakeRev, InitRevaccell, Invalidate, FreeRev, StartSearch, searchVars, allocVars
<1>4. ReduceDone => /\ UNCHANGED <<cell, lclist, todo, ix, sx>> /\ (Allocating' => Allocating)
                    /\ pc' # "compute"
  BY <1>0 DEF ReduceDone, searchVars, cellVars, TypeOK
<1>5. MallocFails => /\ UNCHANGED <<cell, lclist, todo, ix, sx>> /\ (Allocating' => Allocating)
                     /\ pc' # "compute"
  <2>1. MallocFails => UNCHANGED <<cell, lclist, todo, ix, sx>> /\ pc \in {"grow", "resize", "alloc"}
                       /\ (pc' = "error" \/ (pc' = "reduce" /\ back' = pc))
    BY DEF MallocFails, searchVars, cellVars
  <2> QED BY <2>1
<1>6. ASSUME ShedDone \/ AllocDone \/ Stopped
      PROVE  /\ UNCHANGED <<cell, lclist, todo, ix, sx>> /\ (Allocating' => Allocating)
             /\ pc' = "compute" => pc = "compute" \/ Allocating
  BY <1>0, <1>6 DEF ShedDone, AllocDone, Stopped, vars, searchVars, cellVars, allocVars
<1>7. ASSUME Lookup, ~ReduceDone, ~MallocFails, ~ShedDone, ~AllocDone, ~ReuseFrees,
             \A i \in Instances : ~Shed(i), \A c \in Cells : ~SearchCell(c),
             \A x \in Simplexes : ~(ShareSimplex(x) \/ NewSimplex(x))
      PROVE  ~Allocating' /\ pc' # "compute"
  BY <1>0, <1>7
  DEF Lookup, GetCell, Skip, NoRoom, Hit, Miss, Grow, Resize, ReuseCell, Place, SetSort, ListEnds,
      PassOver, Leave, Compute, NextChunk, SearchDone, allocVars, memVars
<1> QED BY <1>1, <1>2, <1>3, <1>4, <1>5, <1>6, <1>7 DEF Next

\* alloc_simplexes works on a locked cell, on simplexes it does not have yet.
LEMMA AllocStep ==
    ASSUME IInv, Next
    PROVE  AllocOK'
<1>0. AllocOK /\ TypeOK /\ sx \in [Cells -> SUBSET Simplexes] /\ ix \in [Cells -> Ixs]
      /\ \A c \in lclist : c \in Cells /\ ref[c] = 1
  BY HeldCells DEF IInv, PhaseOK, AllocOK, TypeOK
<1> USE DEF AllocOK
<1>1. CASE ~Allocating' /\ pc' # "compute"
  BY <1>1
<1>2. CASE /\ UNCHANGED <<cell, lclist, todo, ix, sx>> /\ (Allocating' => Allocating)
           /\ pc' = "compute" => pc = "compute" \/ Allocating
  BY <1>0, <1>2
<1>3. ASSUME NEW i \in Instances, Discarding(i)
      PROVE  AllocOK'
  <2> DEFINE d == mru[i][Victim(i)]
  <2>1. /\ d \in Cells /\ ref[d] = 0 /\ Discard(i, Victim(i))
        /\ UNCHANGED <<pc, back, cell, lclist, todo>>
    BY <1>3, DiscardStep DEF searchVars, allocVars
  <2>2. ix' = [ix EXCEPT ![d] = 0] /\ sx' = [sx EXCEPT ![d] = {}]
    BY <2>1 DEF Discard
  <2> HIDE DEF d
  <2>3. cell \in lclist => ix'[cell] = ix[cell] /\ sx'[cell] = sx[cell]
    BY <1>0, <2>1, <2>2
  <2> QED BY <1>0, <2>1, <2>3 DEF Allocating
<1>4. ASSUME NEW c \in Cells, SearchCell(c)
      PROVE  AllocOK'
  BY <1>0, <1>4 DEF SearchCell, searchVars, cellVars, Allocating
<1>5. ASSUME NEW x \in Simplexes, ShareSimplex(x) \/ NewSimplex(x)
      PROVE  AllocOK'
  <2>1. /\ pc = "alloc" /\ todo' = todo \ {x} /\ sx' = [sx EXCEPT ![cell] = @ \union {x}]
        /\ UNCHANGED <<cell, lclist, ix>> /\ pc' \in {"alloc", "trim"}
    BY <1>5 DEF ShareSimplex, NewSimplex, searchVars
  <2>2. sx'[cell] = sx[cell] \union {x}
    BY <1>0, <2>1 DEF Allocating
  <2> QED BY <1>0, <2>1, <2>2 DEF Allocating
<1> QED BY <1>1, <1>2, <1>3, <1>4, <1>5, AllocFrame

\* Every step keeps what holds where.
LEMMA PhaseStep ==
    ASSUME IInv, Next, "table" \notin Fails
    PROVE  PhaseOK'
BY ControlStep, FetchStep, AllocStep DEF PhaseOK, ControlOK, FetchOK, AllocOK, Quiet

-----------------------------------------------------------------------------
(***************************************************************************)
(* The references to the simplexes.                                        *)
(***************************************************************************)
RefOK(i, x) ==
    /\ sref[i][x] = Cardinality(Holders(i, x))
    /\ \A c \in Holders(i, x) : x \in SimplexesOf[ix[c]]

\* The steps that change what holds a simplex.
LEMMA RefFrame ==
    ASSUME Next
    PROVE  \/ UNCHANGED <<mru, sref, sx, ix>>
           \/ \E i \in Instances : Invalidate(i) \/ FreeRev(i) \/ Discarding(i)
           \/ ReuseFrees \/ Hit \/ Place \/ ReuseCell
           \/ \E c \in Cells : Grow(c)
           \/ \E x \in Simplexes : ShareSimplex(x) \/ NewSimplex(x)
BY DEF Next, Caller, Lookup, Stopped, vars, memVars, cacheVars, cellVars, searchVars, allocVars,
       InitRevaccell, StartSearch, ShedDone, ReduceDone, MallocFails, GetCell, Skip, MakeRev,
       NoRoom, Miss, Resize, SetSort, ListEnds, SearchCell, PassOver, Leave, AllocDone, Compute,
       NextChunk, SearchDone, Discarding

\* The cells that hold a simplex are finitely many.
LEMMA HoldersFinite ==
    ASSUME TypeOK, NEW i \in Instances, NEW x
    PROVE  /\ Holders(i, x) \subseteq InList(i) /\ Holders(i, x) \subseteq Cells
           /\ IsFiniteSet(Holders(i, x)) /\ Cardinality(Holders(i, x)) \in Nat
<1>1. Holders(i, x) \subseteq InList(i)
  BY DEF Holders
<1> QED BY <1>1, InListFinite

\* The references of an instance none of whose cells is touched.
LEMMA SameRefs ==
    ASSUME TypeOK, SimplexRefs, NEW i \in Instances, sref'[i] = sref[i],
           \A c \in InList(i) \union InList(i)' :
               \/ c \in InList(i) /\ c \in InList(i)' /\ sx'[c] = sx[c]
                  /\ (ix'[c] = ix[c] \/ sx[c] = {})
               \/ c \notin InList(i) /\ sx'[c] = {}
    PROVE  /\ \A x \in Simplexes : RefOK(i, x)' /\ Holders(i, x)' = Holders(i, x)
           /\ sref'[i] \in [Simplexes -> Nat]
<1>1. ASSUME NEW x \in Simplexes
      PROVE  Holders(i, x)' = Holders(i, x)
  BY DEF Holders
<1>2. \A x \in Simplexes : \A c \in Holders(i, x) : ix'[c] = ix[c]
  BY DEF Holders
<1>3. sref[i] \in [Simplexes -> Nat]
  BY DEF TypeOK
<1> QED BY <1>1, <1>2, <1>3 DEF RefOK, SimplexRefs

\* free_cell_contents: the cell lets go of its simplexes.
LEMMA FewerRefs ==
    ASSUME TypeOK, SimplexRefs, NEW i \in Instances, NEW d \in InList(i),
           sref'[i] = SrefWithout(i, d), InList(i) \ {d} \subseteq InList(i)',
           InList(i)' \subseteq InList(i), sx'[d] = {},
           \A c \in InList(i) \ {d} : sx'[c] = sx[c] /\ ix'[c] = ix[c]
    PROVE  /\ \A x \in Simplexes : RefOK(i, x)' /\ Holders(i, x)' = Holders(i, x) \ {d}
           /\ sref'[i] \in [Simplexes -> Nat]
<1>1. ASSUME NEW x \in Simplexes
      PROVE  Holders(i, x)' = Holders(i, x) \ {d}
  BY DEF Holders
<1>2. ASSUME NEW x \in Simplexes
      PROVE  RefOK(i, x)' /\ sref'[i][x] \in Nat
  <2> DEFINE H == Holders(i, x)
  <2>1. IsFiniteSet(H) /\ sref[i][x] = Cardinality(H) /\ (d \in H <=> x \in sx[d])
    BY HoldersFinite DEF SimplexRefs, Holders
  <2>2. /\ Cardinality(H \ {d}) = IF d \in H THEN Cardinality(H) - 1 ELSE Cardinality(H)
        /\ Cardinality(H \ {d}) \in Nat
    <3> HIDE DEF H
    <3> QED BY <2>1, FS_RemoveElement, FS_CardinalityType
  <2>3. sref'[i][x] = IF x \in sx[d] THEN sref[i][x] - 1 ELSE sref[i][x]
    BY DEF SrefWithout
  <2>4. sref'[i][x] = Cardinality(H \ {d})
    BY <2>1, <2>2, <2>3
  <2>5. \A c \in H \ {d} : c \in InList(i) \ {d} /\ x \in SimplexesOf[ix[c]]
    BY DEF Holders, SimplexRefs
  <2>6. \A c \in H \ {d} : x \in SimplexesOf[ix'[c]]
    BY <2>5
  <2> QED BY <1>1, <2>2, <2>4, <2>6 DEF RefOK
<1>3. sref'[i] \in [Simplexes -> Nat]
  BY <1>2 DEF SrefWithout
<1> QED BY <1>1, <1>2, <1>3

\* alloc_simplexes: the cell in hand takes hold of a simplex it did not have.
LEMMA MoreRefs ==
    ASSUME IInv, NEW x \in Simplexes, ShareSimplex(x) \/ NewSimplex(x)
    PROVE  /\ \A y \in Simplexes : RefOK(on, y)' /\ sref'[on][y] >= sref[on][y]
           /\ sref'[on] \in [Simplexes -> Nat] /\ sref'[on][x] > 0
           /\ \A y \in Simplexes \ {x} : sref'[on][y] = sref[on][y]
           /\ on \in Instances /\ on \in made /\ cell \in lclist
           /\ sref' = [sref EXCEPT ![on] = sref'[on]]
<1>1. /\ pc = "alloc" /\ x \in todo /\ UNCHANGED <<mru, ix, on>>
      /\ sref' = [sref EXCEPT ![on] = [sref[on] EXCEPT ![x] = sref[on][x] + 1]]
      /\ sx' = [sx EXCEPT ![cell] = @ \union {x}]
  <2>1. NewSimplex(x) => sref[on][x] + 1 = FirstRef
    BY DEF NewSimplex, FirstRef
  <2>2. CASE NewSimplex(x)
    BY <2>1, <2>2 DEF NewSimplex, IInv, TypeOK
  <2>3. CASE ShareSimplex(x)
    BY <2>3 DEF ShareSimplex, searchVars, IInv, TypeOK
  <2> QED BY <2>2, <2>3
<1>2. /\ cell \in lclist /\ x \in SimplexesOf[ix[cell]] /\ x \notin sx[cell]
      /\ on \in Instances /\ on \in made /\ cell \in InList(on) /\ cell \in Cells
  BY <1>1, HeldCells DEF IInv, PhaseOK, Allocating
<1>3. /\ TypeOK /\ sref[on] \in [Simplexes -> Nat]
      /\ sref'[on] = [sref[on] EXCEPT ![x] = sref[on][x] + 1]
      /\ sx'[cell] = sx[cell] \union {x} /\ \A c \in Cells \ {cell} : sx'[c] = sx[c]
  BY <1>1, <1>2 DEF IInv, TypeOK
<1>4. \A j \in {on} : InList(j)' = InList(j) /\ InList(j) \subseteq Cells
  BY <1>1, <1>2, <1>3, InListFinite DEF InList
<1>5. ASSUME NEW y \in Simplexes
      PROVE  RefOK(on, y)'
  <2>1. \A j \in {on} : Holders(j, y)' = IF y = x THEN Holders(j, y) \union {cell} ELSE Holders(j, y)
    BY <1>2, <1>3, <1>4 DEF Holders
  <2>2. Holders(on, y)' = IF y = x THEN Holders(on, y) \union {cell} ELSE Holders(on, y)
    BY <1>1, <2>1
  <2>3. /\ sref[on][y] = Cardinality(Holders(on, y)) /\ IsFiniteSet(Holders(on, y))
        /\ \A c \in Holders(on, y) : y \in SimplexesOf[ix[c]]
    BY <1>2, <1>3, HoldersFinite DEF IInv, SimplexRefs
  <2>4. cell \notin Holders(on, x)
    BY <1>2 DEF Holders
  <2>5. Cardinality(Holders(on, y)') = IF y = x THEN Cardinality(Holders(on, y)) + 1
                                                ELSE Cardinality(Holders(on, y))
    BY <2>2, <2>3, <2>4, FS_AddElement
  <2>6. sref'[on][y] = Cardinality(Holders(on, y)')
    BY <1>3, <2>3, <2>5
  <2>7. \A c \in Holders(on, y)' : y \in SimplexesOf[ix'[c]]
    BY <1>1, <1>2, <2>2, <2>3
  <2> QED BY <1>1, <2>6, <2>7 DEF RefOK
<1>6. /\ \A y \in Simplexes : sref'[on][y] >= sref[on][y]
      /\ sref'[on] \in [Simplexes -> Nat] /\ sref'[on][x] > 0
      /\ \A y \in Simplexes \ {x} : sref'[on][y] = sref[on][y]
  BY <1>3
<1>7. sref' = [sref EXCEPT ![on] = sref'[on]]
  BY <1>1, <1>2, <1>3 DEF TypeOK
<1> QED BY <1>2, <1>5, <1>6, <1>7

\* Every step keeps the reference counts those of the holders.
LEMMA RefsStep ==
    ASSUME IInv, Next
    PROVE  SimplexRefs' /\ sref' \in [Instances -> [Simplexes -> Nat]]
<1> DEFINE Goal(i) == (\A x \in Simplexes : RefOK(i, x)') /\ sref'[i] \in [Simplexes -> Nat]
<1>0. /\ TypeOK /\ SimplexRefs /\ CellsOK /\ ListsOK /\ on \in Instances
      /\ sref \in [Instances -> [Simplexes -> Nat]] /\ sx \in [Cells -> SUBSET Simplexes]
      /\ ix \in [Cells -> Ixs] /\ \A i \in Instances : InList(i) \subseteq Cells
  BY InListFinite DEF IInv, TypeOK
<1>p. SUFFICES sref' = [i \in Instances |-> sref'[i]] /\ \A i \in Instances : Goal(i)
  BY DEF SimplexRefs, RefOK
<1>1. CASE UNCHANGED <<mru, sref, sx, ix>>
  <2>1. \A i \in Instances : InList(i)' = InList(i)
    BY <1>1, SameLists
  <2> QED BY <1>0, <1>1, <2>1, SameRefs
<1>2. ASSUME NEW i \in Instances, Invalidate(i) \/ FreeRev(i)
      PROVE  sref' = [j \in Instances |-> sref'[j]] /\ \A j \in Instances : Goal(j)
  <2>1. /\ sx' = Wiped(i, sx, {}) /\ ix' = Wiped(i, ix, 0)
        /\ sref' = [sref EXCEPT ![i] = [x \in Simplexes |-> 0]]
        /\ InList(i)' = InList(i) \/ InList(i)' = {}
        /\ \A j \in Instances \ {i} : InList(j)' = InList(j)
    BY <1>2, SameLists, FreeLists, <1>0 DEF Invalidate, FreeRev
  <2>2. /\ \A c \in InList(i) : sx'[c] = {}
        /\ \A c \in Cells \ InList(i) : sx'[c] = sx[c] /\ ix'[c] = ix[c]
    BY <1>0, <2>1 DEF Wiped, InList
  <2>3. ASSUME NEW x \in Simplexes
        PROVE  Holders(i, x)' = {}
    BY <2>1, <2>2 DEF Holders
  <2>4. Goal(i)
    BY <1>0, <2>1, <2>3, FS_EmptySet DEF RefOK
  <2>5. ASSUME NEW j \in Instances \ {i}
        PROVE  Goal(j)
    <3>1. InList(j) \cap InList(i) = {}
      BY <1>0 DEF ListsOK
    <3> QED BY <1>0, <2>1, <2>2, <3>1, SameRefs
  <2> QED BY <1>0, <2>1, <2>4, <2>5
<1>3. ASSUME NEW i \in Instances, NEW d \in InList(i),
             sref' = [sref EXCEPT ![i] = SrefWithout(i, d)],
             InList(i) \ {d} \subseteq InList(i)', InList(i)' \subseteq InList(i),
             \A j \in Instances \ {i} : InList(j)' = InList(j),
             sx' = [sx EXCEPT ![d] = {}], \A c \in Cells \ {d} : ix'[c] = ix[c]
      PROVE  sref' = [j \in Instances |-> sref'[j]] /\ \A j \in Instances : Goal(j)
  <2>1. /\ sref'[i] = SrefWithout(i, d) /\ \A j \in Instances \ {i} : sref'[j] = sref[j]
        /\ sx'[d] = {} /\ \A c \in Cells \ {d} : sx'[c] = sx[c]
        /\ sref' = [j \in Instances |-> sref'[j]]
    BY <1>0, <1>3
  <2>2. \A c \in InList(i) \ {d} : sx'[c] = sx[c] /\ ix'[c] = ix[c]
    BY <1>0, <1>3, <2>1
  <2>3. Goal(i)
    BY <1>0, <1>3, <2>1, <2>2, FewerRefs
  <2>4. ASSUME NEW j \in Instances \ {i}
        PROVE  Goal(j)
    <3>1. d \notin InList(j)
      BY <1>0 DEF ListsOK
    <3> QED BY <1>0, <1>3, <2>1, <3>1, SameRefs
  <2> QED BY <2>1, <2>3, <2>4
<1>4. ASSUME NEW i \in Instances, Discarding(i)
      PROVE  sref' = [j \in Instances |-> sref'[j]] /\ \A j \in Instances : Goal(j)
  <2> DEFINE d == mru[i][Victim(i)]
  <2>1. /\ d \in InList(i) /\ Discard(i, Victim(i)) /\ Victim(i) \in DOMAIN mru[i] /\ d \in Cells
    BY <1>4, DiscardStep
  <2>2. /\ InList(i)' = InList(i) \ {d}
        /\ \A j \in Instances \ {i} : InList(j)' = InList(j)
    BY <1>0, <2>1, DiscardLists
  <2> HIDE DEF d
  <2>3. /\ sref' = [sref EXCEPT ![i] = SrefWithout(i, d)]
        /\ sx' = [sx EXCEPT ![d] = {}] /\ ix' = [ix EXCEPT ![d] = 0]
    BY <2>1 DEF Discard, d
  <2>4. \A c \in Cells \ {d} : ix'[c] = ix[c]
    BY <1>0, <2>3
  <2> HIDE DEF Goal
  <2> QED BY <1>3, <2>1, <2>2, <2>3, <2>4
<1>5. CASE ReuseCell
  <2> DEFINE d == mru[on][Victim(on)]
  <2>1. d \in InList(on) /\ d \in Cells
    BY <1>0, <1>5, VictimFound DEF ReuseCell
  <2>2. /\ sref' = [sref EXCEPT ![on] = SrefWithout(on, d)]
        /\ sx' = [sx EXCEPT ![d] = {}] /\ UNCHANGED <<mru, ix>>
    BY <1>5 DEF ReuseCell
  <2>3. \A j \in Instances : InList(j)' = InList(j)
    BY <2>2, SameLists
  <2> HIDE DEF d, Goal
  <2>4. ASSUME NEW i \in {on}
        PROVE  sref' = [j \in Instances |-> sref'[j]] /\ \A j \in Instances : Goal(j)
    BY <1>0, <1>3, <2>1, <2>2, <2>3
  <2> QED BY <2>4
<1>6. CASE Hit
  <2>1. \A j \in Instances : InList(j)' = InList(j)
    BY <1>0, <1>6, LockStep, LockLists
  <2>2. UNCHANGED <<sref, sx, ix>>
    BY <1>6 DEF Hit
  <2> QED BY <1>0, <2>1, <2>2, SameRefs
<1>7. CASE Place
  <2>1. \A j \in Instances : InList(j)' = InList(j)
    BY <1>0, <1>7, LockStep, LockLists
  <2>2. UNCHANGED <<sref, sx>> /\ ix' = [ix EXCEPT ![cell] = Wanted] /\ sx[cell] = {}
    BY <1>7 DEF Place, IInv, PhaseOK, InHand
  <2>3. \A c \in Cells : ix'[c] = ix[c] \/ sx[c] = {}
    BY <1>0, <2>2
  <2> QED BY <1>0, <2>1, <2>2, <2>3, SameRefs
<1>8. ASSUME NEW c \in Cells, Grow(c)
      PROVE  sref' = [j \in Instances |-> sref'[j]] /\ \A j \in Instances : Goal(j)
  <2>1. /\ UNCHANGED <<sref, sx, ix>> /\ Free(c)
        /\ \A j \in Instances : c \notin InList(j)
        /\ \A j \in Instances : InList(j)' = IF j = on THEN InList(j) \union {c} ELSE InList(j)
    BY <1>0, <1>8, GrowLists DEF Grow, cellVars
  <2>2. sx[c] = {}
    BY <1>0, <2>1 DEF CellsOK
  <2> QED BY <1>0, <2>1, <2>2, SameRefs
<1>9. ASSUME NEW x \in Simplexes, ShareSimplex(x) \/ NewSimplex(x)
      PROVE  sref' = [j \in Instances |-> sref'[j]] /\ \A j \in Instances : Goal(j)
  <2>1. /\ \A y \in Simplexes : RefOK(on, y)'
        /\ sref'[on] \in [Simplexes -> Nat] /\ cell \in lclist
        /\ sref' = [sref EXCEPT ![on] = sref'[on]]
    BY <1>9, MoreRefs
  <2>2. /\ UNCHANGED <<mru, ix, on>> /\ sx' = [sx EXCEPT ![cell] = @ \union {x}]
    BY <1>9 DEF ShareSimplex, NewSimplex, searchVars
  <2>3. cell \in InList(on) /\ cell \in Cells /\ \A j \in Instances : InList(j)' = InList(j)
    BY <2>1, <2>2, HeldCells, SameLists
  <2>4. ASSUME NEW j \in Instances \ {on}
        PROVE  Goal(j)
    <3>1. cell \notin InList(j)
      BY <1>0, <2>3 DEF ListsOK
    <3>2. \A c \in InList(j) : sx'[c] = sx[c]
      BY <1>0, <2>2, <3>1
    <3>3. sref'[j] = sref[j]
      BY <1>0, <2>1
    <3> QED BY <1>0, <2>2, <2>3, <3>2, <3>3, SameRefs
  <2>5. \A j \in {on} : Goal(j)
    BY <2>1, <2>2
  <2> HIDE DEF Goal
  <2> QED BY <1>0, <2>1, <2>4, <2>5
<1>10. ReuseFrees => \E i \in Instances : Discarding(i)
  BY <1>0 DEF Discarding
<1> HIDE DEF Goal
<1> QED BY <1>1, <1>2, <1>4, <1>5, <1>6, <1>7, <1>8, <1>9, <1>10, RefFrame

-----------------------------------------------------------------------------
(***************************************************************************)
(* The memory an instance says it holds.                                   *)
(***************************************************************************)
Bytes(i) == base[i] + EntrySz * Cardinality(DOMAIN tab[i])
            + CellSz * Cardinality(InList(i)) + SimplexSz * Cardinality(Live(i))

\* The simplexes of an instance are finitely many.
LEMMA LiveFinite ==
    ASSUME NEW S, S \subseteq Simplexes
    PROVE  IsFiniteSet(S) /\ Cardinality(S) \in Nat
BY SetsAssumption, FS_Subset, FS_CardinalityType

\* The table of an instance is as large as its domain says.
LEMMA TableFinite ==
    ASSUME IInv, NEW i \in made
    PROVE  /\ Cardinality(DOMAIN tab[i]) \in Nat
           /\ pc # "resize" \/ i # on => Cardinality(DOMAIN tab[i]) = hsize[i]
           /\ pc = "resize" /\ i = on =>
                 Primes[1] <= Cardinality(DOMAIN tab[i]) /\ Cardinality(DOMAIN tab[i]) <= hsize[i]
<1>1. TableOK(i) /\ hsize[i] \in Nat \ {0} /\ Primes[1] \in Nat \ {0}
  BY TableSize DEF IInv, TablesOK
<1>2. PICK n \in Nat \ {0} :
         /\ DOMAIN tab[i] = 0..(n - 1)
         /\ IF pc = "resize" /\ i = on THEN n \in Primes[1]..hsize[i] ELSE n = hsize[i]
  BY <1>1 DEF TableOK
<1>3. Cardinality(0..(n - 1)) = n
  BY FS_Interval
<1> QED BY <1>1, <1>2, <1>3

\* What makes up the memory of an instance are natural numbers.
LEMMA BytesNat ==
    ASSUME IInv, NEW i \in made
    PROVE  /\ Cardinality(DOMAIN tab[i]) \in Nat /\ Cardinality(InList(i)) \in Nat
           /\ Cardinality(Live(i)) \in Nat /\ base[i] \in Nat
           /\ EntrySz \in Nat /\ CellSz \in Nat /\ SimplexSz \in Nat
           /\ IsFiniteSet(InList(i)) /\ IsFiniteSet(Live(i)) /\ i \in Instances
<1>1. i \in Instances /\ base[i] \in Nat /\ TypeOK
  BY DEF IInv, TypeOK
<1>2. Live(i) \subseteq Simplexes
  BY DEF Live
<1> QED BY <1>1, <1>2, TableFinite, InListFinite, LiveFinite, SizesAssumption

\* The simplexes that go with the cell are those only it held.
LEMMA FreedSimplexes ==
    ASSUME IInv, NEW i \in made, NEW d \in Cells, sref'[i] = SrefWithout(i, d)
    PROVE  /\ Cardinality(Live(i)') = Cardinality(Live(i))
                                      - Cardinality({x \in sx[d] : sref[i][x] = 1})
           /\ Cardinality({x \in sx[d] : sref[i][x] = 1}) \in Nat
           /\ Cardinality(Live(i)') \in Nat
<1> DEFINE F == {x \in sx[d] : sref[i][x] = 1}
<1>1. i \in Instances /\ sref[i] \in [Simplexes -> Nat] /\ sx[d] \subseteq Simplexes
  BY DEF IInv, TypeOK
<1>2. Live(i)' = {x \in Simplexes : sref'[i][x] > 0}
  BY DEF Live
<1>3. \A x \in Simplexes : sref'[i][x] > 0 <=> sref[i][x] > 0 /\ x \notin F
  BY <1>1 DEF SrefWithout
<1>4. Live(i)' = Live(i) \ F
  BY <1>2, <1>3 DEF Live
<1>5. Live(i) \cap F = F /\ F \subseteq Simplexes
  BY <1>1 DEF Live
<1>6. IsFiniteSet(Live(i)) /\ IsFiniteSet(Live(i)') /\ Cardinality(F) \in Nat
      /\ Cardinality(Live(i)') \in Nat
  BY <1>1, <1>2, <1>5, LiveFinite, BytesNat
<1> HIDE DEF F
<1>7. Cardinality(Live(i) \ F) = Cardinality(Live(i)) - Cardinality(F)
  BY <1>5, <1>6, FS_Difference
<1> QED BY <1>4, <1>6, <1>7 DEF F

\* The arithmetic of sizes.
LEMMA Distributes ==
    \A k, a, b \in Int : k * (a - b) = k * a - k * b /\ k * (a + b) = k * a + k * b
                         /\ k * a \in Int /\ a * k = k * a
OBVIOUS

\* ... a number of things takes a number of bytes.
LEMMA ProductNat == \A k, a \in Nat : k * a \in Nat
OBVIOUS

\* The steps that change what an instance holds.
LEMMA SizeFrame ==
    ASSUME Next
    PROVE  \/ UNCHANGED <<made, base, sz, tab, mru, sref>>
           \/ \E i \in Instances : MakeRev(i) \/ Invalidate(i) \/ FreeRev(i) \/ Discarding(i)
           \/ ReuseFrees \/ Hit \/ Place \/ ReuseCell \/ Resize
           \/ \E c \in Cells : Grow(c)
           \/ \E x \in Simplexes : ShareSimplex(x) \/ NewSimplex(x)
BY DEF Next, Caller, Lookup, Stopped, vars, memVars, cacheVars, cellVars, searchVars, allocVars,
       InitRevaccell, StartSearch, ShedDone, ReduceDone, MallocFails, GetCell, Skip,
       NoRoom, Miss, SetSort, ListEnds, SearchCell, PassOver, Leave, AllocDone, Compute,
       NextChunk, SearchDone, Discarding

\* What an instance holds when one of its parts changes.
Total(b, t, n, l) == b + EntrySz * t + CellSz * n + SimplexSz * l

\* A part more or less of each kind.
LEMMA TotalParts ==
    ASSUME NEW b \in Nat, NEW t \in Nat, NEW n \in Nat, NEW l \in Nat, NEW k \in Int
    PROVE  /\ Total(b, t, n, l) \in Nat
           /\ Total(b, t + k, n, l) = Total(b, t, n, l) + k * EntrySz
           /\ Total(b, t, n + 1, l) = Total(b, t, n, l) + CellSz
           /\ Total(b, t, n, l - k) = Total(b, t, n, l) - SimplexSz * k
           /\ Total(b, t, n - 1, l - k) = Total(b, t, n, l) - SimplexSz * k - CellSz
<1>1. EntrySz \in Nat /\ CellSz \in Nat /\ SimplexSz \in Nat
  BY SizesAssumption
<1>2. EntrySz * t \in Nat /\ CellSz * n \in Nat /\ SimplexSz * l \in Nat
  BY <1>1, ProductNat
<1>3. /\ EntrySz * (t + k) = EntrySz * t + k * EntrySz
      /\ SimplexSz * (l - k) = SimplexSz * l - SimplexSz * k
      /\ k * EntrySz \in Int /\ SimplexSz * k \in Int
  BY <1>1, Distributes
<1>4. CellSz * (n - 1) = CellSz * n - CellSz /\ CellSz * (n + 1) = CellSz * n + CellSz
  <2>1. CellSz * (n - 1) = CellSz * n - CellSz * 1 /\ CellSz * (n + 1) = CellSz * n + CellSz * 1
    BY <1>1, Distributes
  <2> QED BY <1>1, <2>1
<1> QED BY <1>1, <1>2, <1>3, <1>4 DEF Total

\* ... a larger hash index,
LEMMA MoreEntries ==
    \A b, t, n, l \in Nat, k \in Int : Total(b, t + k, n, l) = Total(b, t, n, l) + k * EntrySz
BY TotalParts

\* ... a new cell,
LEMMA MoreCells ==
    \A b, t, n, l \in Nat : Total(b, t, n + 1, l) = Total(b, t, n, l) + CellSz
BY TotalParts

\* ... a cell that lets go of its simplexes,
LEMMA FewerSimplexes ==
    \A b, t, n, l \in Nat, k \in Int : Total(b, t, n, l - k) = Total(b, t, n, l) - SimplexSz * k
BY TotalParts

\* ... and one that is thrown out with them.
LEMMA FewerParts ==
    \A b, t, n, l \in Nat, k \in Int :
        Total(b, t, n - 1, l - k) = Total(b, t, n, l) - SimplexSz * k - CellSz
BY TotalParts

\* What an instance holds is a natural number.
LEMMA TotalNat == \A b, t, n, l \in Nat : Total(b, t, n, l) \in Nat
BY TotalParts

\* The memory of an instance, before and after a step.
LEMMA BytesTotal ==
    /\ \A i : Bytes(i) = Total(base[i], Cardinality(DOMAIN tab[i]), Cardinality(InList(i)),
                               Cardinality(Live(i)))
    /\ \A i : Bytes(i)' = Total(base'[i], Cardinality(DOMAIN tab'[i]), Cardinality(InList(i)'),
                                Cardinality(Live(i)'))
BY DEF Bytes, Total

\* Every step changes rev.sz by what it takes or gives back.
LEMMA AccountedStep ==
    ASSUME IInv, Next
    PROVE  Accounted' /\ sz' \in [Instances -> Nat]
<1> DEFINE Goal == (\A i \in made' : sz'[i] = Bytes(i)') /\ sz' \in [Instances -> Nat]
           T(i) == Cardinality(DOMAIN tab[i])
           N(i) == Cardinality(InList(i))
           L(i) == Cardinality(Live(i))
<1>0. /\ TypeOK /\ ListsOK /\ on \in Instances /\ made \subseteq Instances
      /\ sz \in [Instances -> Nat] /\ base \in [Instances -> Nat]
      /\ sref \in [Instances -> [Simplexes -> Nat]] /\ tab = [j \in Instances |-> tab[j]]
      /\ \A i \in made : sz[i] = Bytes(i)
  BY DEF IInv, TypeOK, TablesOK, Accounted, Bytes
<1>n. \A i \in made : /\ T(i) \in Nat /\ N(i) \in Nat /\ L(i) \in Nat /\ base[i] \in Nat
                      /\ sz[i] = Total(base[i], T(i), N(i), L(i)) /\ i \in Instances
  BY <1>0, BytesNat, BytesTotal
<1>t. ASSUME NEW i \in made
      PROVE  /\ \A k \in Int : Total(base[i], T(i) + k, N(i), L(i)) = sz[i] + k * EntrySz
             /\ Total(base[i], T(i), N(i) + 1, L(i)) = sz[i] + CellSz
             /\ \A k \in Int : Total(base[i], T(i), N(i), L(i) - k) = sz[i] - SimplexSz * k
             /\ \A k \in Int :
                   Total(base[i], T(i), N(i) - 1, L(i) - k) = sz[i] - SimplexSz * k - CellSz
  <2> HIDE DEF T, N, L
  <2>1. T(i) \in Nat /\ N(i) \in Nat /\ L(i) \in Nat /\ base[i] \in Nat
        /\ sz[i] = Total(base[i], T(i), N(i), L(i))
    BY <1>n
  <2>2. \A k \in Int : Total(base[i], T(i) + k, N(i), L(i))
                       = Total(base[i], T(i), N(i), L(i)) + k * EntrySz
    BY <2>1, MoreEntries, ZenonT(60)
  <2>3. Total(base[i], T(i), N(i) + 1, L(i)) = Total(base[i], T(i), N(i), L(i)) + CellSz
    BY <2>1, MoreCells, ZenonT(60)
  <2>4. \A k \in Int : Total(base[i], T(i), N(i), L(i) - k)
                       = Total(base[i], T(i), N(i), L(i)) - SimplexSz * k
    BY <2>1, FewerSimplexes, ZenonT(60)
  <2>5. \A k \in Int : Total(base[i], T(i), N(i) - 1, L(i) - k)
                       = Total(base[i], T(i), N(i), L(i)) - SimplexSz * k - CellSz
    BY <2>1, FewerParts, ZenonT(60)
  <2> QED BY <2>1, <2>2, <2>3, <2>4, <2>5
<1>p. SUFFICES Goal
  BY DEF Accounted, Bytes
<1>b. \A i : Bytes(i)' = Total(base'[i], T(i)', N(i)', L(i)')
  BY BytesTotal
<1>1. CASE UNCHANGED <<made, base, sz, tab, mru, sref>>
  BY <1>0, <1>1 DEF Bytes, InList, Live
\* (one instance changes, the others do not)
<1>2. ASSUME NEW i \in made, made' \subseteq made, base' = base, NEW n, sz' = [sz EXCEPT ![i] = n],
             n = Bytes(i)', Bytes(i)' \in Nat,
             \A j \in Instances \ {i} : T(j)' = T(j) /\ InList(j)' = InList(j) /\ Live(j)' = Live(j)
      PROVE  Goal
  <2>1. sz'[i] = n /\ \A j \in Instances \ {i} : sz'[j] = sz[j]
    BY <1>0, <1>2
  <2>2. \A j \in made' \ {i} : Bytes(j)' = Bytes(j)
    BY <1>0, <1>2, <1>b, BytesTotal
  <2>3. sz' \in [Instances -> Nat]
    BY <1>0, <1>2
  <2> HIDE DEF T
  <2> QED BY <1>0, <1>2, <2>1, <2>2, <2>3
<1> HIDE DEF Goal
<1>3. ASSUME NEW i \in Instances, MakeRev(i)
      PROVE  Goal
  <2>1. PICK b \in BaseSizes : /\ base' = [base EXCEPT ![i] = b]
                               /\ sz' = [sz EXCEPT ![i] = b + Primes[1] * EntrySz]
    BY <1>3 DEF MakeRev
  <2>2. /\ tab' = [tab EXCEPT ![i] = [h \in 0..(Primes[1] - 1) |-> {}]]
        /\ i \notin made /\ made' = made \union {i} /\ UNCHANGED <<mru, sref>>
    BY <1>3 DEF MakeRev
  <2>3. Primes[1] \in Nat \ {0} /\ b \in Nat /\ EntrySz \in Nat /\ CellSz \in Nat /\ SimplexSz \in Nat
    BY PrimesAssumption, LenProperties, SizesAssumption
  <2>4. T(i)' = Primes[1]
    <3>1. DOMAIN tab'[i] = 0..(Primes[1] - 1)
      BY <1>0, <2>2
    <3> QED BY <2>3, <3>1, FS_Interval, SMTT(30)
  <2>5. N(i)' = 0
    <3>1. mru'[i] = <<>> /\ DOMAIN <<>> = {}
      BY <1>0, <2>2 DEF ListsOK
    <3>2. InList(i)' = {}
      BY <3>1 DEF InList, Range
    <3> QED BY <3>2, FS_EmptySet
  <2>6. L(i)' = 0
    <3>1. mru[i] = <<>> /\ DOMAIN <<>> = {}
      BY <1>0, <2>2 DEF ListsOK
    <3>2. \A x \in Simplexes : Holders(i, x) = {}
      BY <3>1 DEF Holders, InList, Range
    <3>3. \A x \in Simplexes : sref'[i][x] = 0
      BY <2>2, <3>2, FS_EmptySet DEF IInv, SimplexRefs
    <3>4. Live(i)' = {}
      BY <3>3 DEF Live
    <3> QED BY <3>4, FS_EmptySet
  <2>7. base'[i] = b /\ sz'[i] = b + Primes[1] * EntrySz
    BY <1>0, <2>1
  <2>8. Total(b, Primes[1], 0, 0) = b + Primes[1] * EntrySz /\ b + Primes[1] * EntrySz \in Nat
    <3>1. EntrySz * Primes[1] = Primes[1] * EntrySz /\ EntrySz * Primes[1] \in Nat
      BY <2>3, Distributes, ProductNat
    <3>2. CellSz * 0 = 0 /\ SimplexSz * 0 = 0
      BY <2>3
    <3> QED BY <2>3, <3>1, <3>2 DEF Total
  <2>9. sz'[i] = Bytes(i)'
    BY <1>b, <2>4, <2>5, <2>6, <2>7, <2>8
  <2>10. ASSUME NEW j \in made
         PROVE  sz'[j] = Bytes(j)'
    <3>1. sz'[j] = sz[j] /\ base'[j] = base[j] /\ tab'[j] = tab[j]
      BY <1>0, <2>1, <2>2
    <3>2. InList(j)' = InList(j) /\ Live(j)' = Live(j)
      BY <2>2 DEF InList, Live
    <3>3. Bytes(j)' = Bytes(j)
      BY <3>1, <3>2 DEF Bytes
    <3> QED BY <1>0, <3>1, <3>3
  <2>11. sz' \in [Instances -> Nat]
    BY <1>0, <2>1, <2>8
  <2> QED BY <2>2, <2>9, <2>10, <2>11 DEF Goal
<1>4. ASSUME NEW i \in Instances, Invalidate(i)
      PROVE  Goal
  <2>1. /\ i \in made /\ UNCHANGED <<made, mru, base>>
        /\ sz' = [sz EXCEPT ![i] = sz[i] - SimplexSz * L(i)]
        /\ tab' = [tab EXCEPT ![i] = [h \in DOMAIN tab[i] |-> {}]]
        /\ sref' = [sref EXCEPT ![i] = [x \in Simplexes |-> 0]]
    BY <1>4 DEF Invalidate, LeaveOthers, Live
  <2>2. /\ \A j \in Instances : InList(j)' = InList(j) /\ DOMAIN tab'[j] = DOMAIN tab[j]
        /\ \A j \in Instances \ {i} : sref'[j] = sref[j]
    BY <1>0, <2>1, SameLists
  <2>3. L(i)' = 0
    <3>1. Live(i)' = {}
      BY <1>0, <2>1 DEF Live
    <3> QED BY <3>1, FS_EmptySet
  <2>4. \A j \in Instances \ {i} : Live(j)' = Live(j)
    BY <2>2 DEF Live
  <2>5. Bytes(i)' = Total(base[i], T(i), N(i), L(i) - L(i))
    BY <1>b, <1>n, <2>1, <2>2, <2>3
  <2>6. Bytes(i)' = sz[i] - SimplexSz * L(i)
    BY <1>n, <1>t, <2>1, <2>5
  <2>7. Bytes(i)' \in Nat
    <3>1. base[i] \in Nat /\ T(i) \in Nat /\ N(i) \in Nat /\ L(i) - L(i) \in Nat
      BY <1>n, <2>1
    <3>2. Total(base[i], T(i), N(i), L(i) - L(i)) \in Nat
      BY <3>1, TotalNat, Zenon
    <3> QED BY <2>5, <3>2
  <2> QED BY <1>2, <2>1, <2>2, <2>4, <2>6, <2>7
<1>5. ASSUME NEW i \in Instances, FreeRev(i)
      PROVE  Goal
  <2>1. /\ made' = made \ {i} /\ UNCHANGED base /\ sz' = [sz EXCEPT ![i] = 0]
        /\ tab' = [tab EXCEPT ![i] = <<>>] /\ sref' = [sref EXCEPT ![i] = [x \in Simplexes |-> 0]]
    BY <1>5 DEF FreeRev, LeaveOthers
  <2>2. \A j \in Instances \ {i} : InList(j)' = InList(j)
    BY <1>0, <1>5, FreeLists
  <2>3. \A j \in Instances \ {i} : tab'[j] = tab[j] /\ sref'[j] = sref[j] /\ sz'[j] = sz[j]
    BY <1>0, <2>1
  <2>4. \A j \in made' : Bytes(j)' = Bytes(j)
    BY <1>0, <2>1, <2>2, <2>3 DEF Bytes, Live
  <2> QED BY <1>0, <2>1, <2>3, <2>4 DEF Goal

<1>6. ASSUME NEW i \in Instances, Discarding(i)
      PROVE  Goal
  <2> DEFINE d == mru[i][Victim(i)]
             k == Cardinality({x \in sx[d] : sref[i][x] = 1})
  <2>1. /\ i \in made /\ d \in InList(i) /\ d \in Cells /\ Discard(i, Victim(i))
        /\ Victim(i) \in DOMAIN mru[i] /\ base' = base
    BY <1>6, DiscardStep DEF memVars
  <2>2. /\ InList(i)' = InList(i) \ {d}
        /\ \A j \in Instances \ {i} : InList(j)' = InList(j)
    BY <1>0, <2>1, DiscardLists
  <2> HIDE DEF d
  <2>3. /\ sz' = [sz EXCEPT ![i] = sz[i] - SimplexSz * k - CellSz]
        /\ tab' = [tab EXCEPT ![i] = TabWithout(i, d)]
        /\ sref' = [sref EXCEPT ![i] = SrefWithout(i, d)] /\ made' = made
    BY <2>1 DEF Discard, ContentsSz, d
  <2>4. /\ sref'[i] = SrefWithout(i, d) /\ \A j \in Instances \ {i} : sref'[j] = sref[j]
        /\ \A j \in Instances : DOMAIN tab'[j] = DOMAIN tab[j]
    BY <1>0, <2>3 DEF TabWithout
  <2>5. L(i)' = L(i) - k /\ k \in Nat /\ L(i)' \in Nat
    BY <2>1, <2>4, FreedSimplexes
  <2>6. N(i)' = N(i) - 1 /\ N(i)' \in Nat
    <3>1. IsFiniteSet(InList(i))
      BY <1>0, InListFinite
    <3> QED BY <2>1, <2>2, <3>1, FS_RemoveElement, FS_CardinalityType
  <2>7. \A j \in Instances \ {i} : Live(j)' = Live(j)
    BY <2>4 DEF Live
  <2> HIDE DEF k, L, N
  <2>8. Bytes(i)' = Total(base[i], T(i), N(i) - 1, L(i) - k)
    BY <1>0, <1>b, <2>1, <2>4, <2>5, <2>6
  <2>9. Bytes(i)' = sz[i] - SimplexSz * k - CellSz
    BY <1>t, <2>1, <2>5, <2>8
  <2>10. Bytes(i)' \in Nat
    <3>1. base[i] \in Nat /\ T(i) \in Nat /\ N(i) - 1 \in Nat /\ L(i) - k \in Nat
      BY <1>n, <2>1, <2>5, <2>6
    <3> QED BY <2>8, <3>1, TotalNat
  <2> QED BY <1>2, <2>1, <2>2, <2>3, <2>4, <2>7, <2>9, <2>10
<1>7. CASE ReuseCell
  <2> DEFINE d == mru[on][Victim(on)]
             k == Cardinality({x \in sx[d] : sref[on][x] = 1})
  <2>1. on \in made /\ d \in Cells /\ base' = base
    BY <1>7, ReuseTables DEF ReuseCell, IInv, PhaseOK, TypeOK, memVars
  <2>2. /\ sz' = [sz EXCEPT ![on] = sz[on] - SimplexSz * k]
        /\ tab' = [tab EXCEPT ![on] = TabWithout(on, d)]
        /\ sref' = [sref EXCEPT ![on] = SrefWithout(on, d)] /\ UNCHANGED <<made, mru>>
    BY <1>7 DEF ReuseCell, ContentsSz
  <2> HIDE DEF d
  <2>3. ASSUME NEW i \in {on}
        PROVE  Goal
    <3>1. /\ sref'[i] = SrefWithout(i, d) /\ \A j \in Instances \ {i} : sref'[j] = sref[j]
          /\ \A j \in Instances : DOMAIN tab'[j] = DOMAIN tab[j] /\ InList(j)' = InList(j)
      BY <1>0, <2>2, SameLists DEF TabWithout
    <3>2. L(i)' = L(i) - k /\ k \in Nat /\ L(i)' \in Nat
      BY <2>1, <3>1, FreedSimplexes
    <3>3. \A j \in Instances \ {i} : Live(j)' = Live(j)
      BY <3>1 DEF Live
    <3>4. i \in made /\ N(i)' = N(i) /\ T(i)' = T(i)
      BY <1>0, <2>1, <3>1
    <3> HIDE DEF k, L, N
    <3>5. Bytes(i)' = Total(base[i], T(i), N(i), L(i) - k)
      BY <1>b, <2>1, <3>2, <3>4
    <3>6. Bytes(i)' = sz[i] - SimplexSz * k
      BY <1>t, <3>2, <3>4, <3>5
    <3>7. Bytes(i)' \in Nat
      <4>1. base[i] \in Nat /\ T(i) \in Nat /\ N(i) \in Nat /\ L(i) - k \in Nat
        BY <1>n, <3>2, <3>4
      <4>2. Total(base[i], T(i), N(i), L(i) - k) \in Nat
        BY <4>1, TotalNat, Zenon
      <4> QED BY <3>5, <4>2
    <3>8. sz' = [sz EXCEPT ![i] = sz[i] - SimplexSz * k]
      BY <2>2
    <3> QED BY <1>2, <2>1, <2>2, <3>1, <3>3, <3>4, <3>6, <3>7, <3>8
  <2> QED BY <2>3
<1>8. CASE Hit \/ Place
  <2>1. \A j \in Instances : InList(j)' = InList(j)
    BY <1>0, <1>8, LockStep, LockLists
  <2>2. UNCHANGED <<made, base, sz, sref>>
    BY <1>8 DEF Hit, Place, memVars
  <2>3. \A j \in Instances : DOMAIN tab'[j] = DOMAIN tab[j]
    BY <1>0, <1>8 DEF Hit, Place
  <2>4. \A j \in made : Bytes(j)' = Bytes(j)
    BY <1>0, <2>1, <2>2, <2>3 DEF Bytes, Live
  <2> QED BY <1>0, <2>2, <2>4 DEF Goal
<1>9. ASSUME NEW c \in Cells, Grow(c)
      PROVE  Goal
  <2>1. /\ \A j \in Instances : c \notin InList(j)
        /\ \A j \in Instances : InList(j)' = IF j = on THEN InList(j) \union {c} ELSE InList(j)
        /\ on \in made
    BY <1>0, <1>9, GrowLists, GrowTables
  <2>2. /\ UNCHANGED <<made, base, tab, sref>>
        /\ sz' = [sz EXCEPT ![on] = sz[on] + CellSz]
    BY <1>9 DEF Grow, memVars
  <2>3. ASSUME NEW i \in {on}
        PROVE  Goal
    <3>1. /\ i \in made /\ IsFiniteSet(InList(i)) /\ InList(i)' = InList(i) \union {c}
          /\ \A j \in Instances \ {i} : InList(j)' = InList(j)
      BY <1>0, <2>1, InListFinite
    <3>2. N(i)' = N(i) + 1
      BY <1>0, <2>1, <3>1, FS_AddElement
    <3>3. \A j \in Instances : Live(j)' = Live(j) /\ T(j)' = T(j)
      BY <2>2 DEF Live
    <3> HIDE DEF N
    <3>4. Bytes(i)' = Total(base[i], T(i), N(i) + 1, L(i))
      BY <1>0, <1>b, <2>2, <3>1, <3>2, <3>3
    <3>5. CellSz \in Nat /\ 1 * CellSz = CellSz
      BY SizesAssumption
    <3> HIDE DEF T, L
    <3>6. Bytes(i)' = sz[i] + CellSz
      BY <1>t, <3>1, <3>4
    <3>7. Bytes(i)' \in Nat
      BY <1>n, <3>1, <3>5, <3>6, <1>0
    <3>8. sz' = [sz EXCEPT ![i] = sz[i] + CellSz]
      BY <2>2
    <3> QED BY <1>2, <2>2, <3>1, <3>3, <3>6, <3>7, <3>8
  <2> QED BY <2>3
<1>10. CASE Resize
  <2>1. on \in made /\ DOMAIN tab'[on] = 0..(hsize[on] - 1)
    BY <1>10, ResizeTables
  <2>2. /\ UNCHANGED <<made, base, mru, sref>> /\ tab' = [tab EXCEPT ![on] = Rehashed]
        /\ sz' = [sz EXCEPT ![on] = sz[on] + (hsize[on] - T(on)) * EntrySz]
    BY <1>10 DEF Resize, memVars
  <2>3. ASSUME NEW i \in {on}
        PROVE  Goal
    <3>1. /\ i \in made /\ \A j \in Instances \ {i} : T(j)' = T(j)
          /\ \A j \in Instances : InList(j)' = InList(j) /\ Live(j)' = Live(j)
      BY <1>0, <2>1, <2>2, SameLists DEF Live
    <3>2. T(i)' = hsize[i] /\ hsize[i] \in Nat
      <4>1. hsize[i] \in Nat \ {0}
        BY <1>0, <3>1, TableSize DEF IInv
      <4>2. DOMAIN tab'[i] = 0..(hsize[i] - 1)
        BY <2>1
      <4> QED BY <4>1, <4>2, FS_Interval
    <3>3. L(i)' = L(i) /\ N(i)' = N(i)
      BY <1>0, <3>1
    <3> DEFINE k == hsize[i] - T(i)
    <3>4. T(i)' = T(i) + k /\ k \in Int
      BY <1>n, <3>1, <3>2
    <3>5. sz' = [sz EXCEPT ![i] = sz[i] + k * EntrySz]
      BY <2>2
    <3> HIDE DEF T, N, L, k
    <3>6. Bytes(i)' = Total(base[i], T(i) + k, N(i), L(i))
      BY <1>b, <2>2, <3>3, <3>4
    <3>7. Bytes(i)' = sz[i] + k * EntrySz
      BY <1>t, <3>1, <3>4, <3>6
    <3>8. Bytes(i)' \in Nat
      <4>1. base[i] \in Nat /\ T(i) + k \in Nat /\ N(i) \in Nat /\ L(i) \in Nat
        BY <1>n, <3>1, <3>2, <3>4
      <4>2. Total(base[i], T(i) + k, N(i), L(i)) \in Nat
        BY <4>1, TotalNat, Zenon
      <4> QED BY <3>6, <4>2
    <3> QED BY <1>2, <2>2, <3>1, <3>5, <3>7, <3>8
  <2> QED BY <2>3
<1>11. ASSUME NEW x \in Simplexes, ShareSimplex(x) \/ NewSimplex(x)
       PROVE  Goal
  <2>1. /\ on \in made /\ sref'[on][x] > 0
        /\ \A y \in Simplexes \ {x} : sref'[on][y] = sref[on][y]
        /\ sref' = [sref EXCEPT ![on] = sref'[on]]
    BY <1>11, MoreRefs
  <2>2. UNCHANGED <<made, base, mru, tab>>
    BY <1>11 DEF ShareSimplex, NewSimplex, memVars
  <2>3. ASSUME NEW i \in {on}
        PROVE  Goal
    <3>1. /\ i \in made /\ \A j \in Instances \ {i} : sref'[j] = sref[j]
          /\ sref'[i][x] > 0 /\ \A y \in Simplexes \ {x} : sref'[i][y] = sref[i][y]
      BY <1>0, <2>1
    <3>2. \A j \in Instances : InList(j)' = InList(j) /\ T(j)' = T(j)
      BY <2>2, SameLists
    <3>3. Live(i)' = Live(i) \union {x} /\ \A j \in Instances \ {i} : Live(j)' = Live(j)
      BY <3>1 DEF Live
    <3>4. IsFiniteSet(Live(i))
      BY <3>1, BytesNat
    <3>5. L(i)' = IF x \in Live(i) THEN L(i) ELSE L(i) + 1
      BY <3>3, <3>4, FS_AddElement
    <3>6. Bytes(i)' = Total(base[i], T(i), N(i), IF x \in Live(i) THEN L(i) ELSE L(i) + 1)
      BY <1>0, <1>b, <2>2, <3>1, <3>2, <3>5
    <3> HIDE DEF T, N, L
    <3>7. CASE ShareSimplex(x)
      <4>1. x \in Live(i) /\ sz' = [sz EXCEPT ![i] = sz[i]]
        BY <1>0, <3>7 DEF ShareSimplex, Live
      <4>2. Bytes(i)' = sz[i]
        BY <1>n, <3>1, <3>6, <4>1
      <4> QED BY <1>0, <1>2, <2>2, <3>1, <3>2, <3>3, <4>1, <4>2
    <3>8. CASE NewSimplex(x)
      <4>1. x \notin Live(i) /\ sz' = [sz EXCEPT ![i] = sz[i] + SimplexSz]
        BY <3>8 DEF NewSimplex, Live
      <4>2. SimplexSz \in Nat /\ SimplexSz * (0 - 1) = 0 - SimplexSz /\ L(i) - (0 - 1) = L(i) + 1
        BY <1>n, <3>1, SizesAssumption
      <4>3. Bytes(i)' = Total(base[i], T(i), N(i), L(i) - (0 - 1))
        BY <3>6, <4>1, <4>2
      <4>4. Bytes(i)' = sz[i] + SimplexSz
        BY <1>0, <1>t, <3>1, <4>2, <4>3
      <4>5. Bytes(i)' \in Nat
        BY <1>0, <3>1, <4>2, <4>4
      <4> QED BY <1>2, <2>2, <3>1, <3>2, <3>3, <4>1, <4>4, <4>5
    <3> QED BY <1>11, <3>7, <3>8
  <2> QED BY <2>3
<1>12. ReuseFrees => \E i \in Instances : Discarding(i)
  BY <1>0 DEF Discarding
<1>13. UNCHANGED <<made, base, sz, tab, mru, sref>> => Goal
  BY <1>1
<1> QED BY <1>3, <1>4, <1>5, <1>6, <1>7, <1>8, <1>9, <1>10, <1>11, <1>12, <1>13, SizeFrame

-----------------------------------------------------------------------------
(***************************************************************************)
(* The limit, around a fetch.                                              *)
(***************************************************************************)
Limited == pc \in {"lookup", "reuse", "grow", "resize", "place", "fetched"}

\* The steps of a fetch from the end of the loop that throws cells out.
LEMMA LimitFrame ==
    ASSUME IInv, Next
    PROVE  \/ ~Limited'
           \/ \E i \in Instances : Discarding(i)
           \/ ShedDone \/ ReduceDone \/ Miss \/ Hit \/ Place \/ ReuseCell \/ Resize
           \/ \E c \in Cells : Grow(c)
<1> USE DEF Limited
<1>1. \A i \in Instances : Shed(i) => Discarding(i)
  BY DEF Discarding
<1>2. ReuseFrees => \E i \in Instances : Discarding(i)
  BY DEF Discarding, IInv, TypeOK
<1>3. Caller => ~Limited'
  BY DEF Caller, MakeRev, InitRevaccell, Invalidate, FreeRev, StartSearch, searchVars, allocVars
<1>4. MallocFails => ~Limited'
  BY DEF MallocFails
<1>5. ASSUME Next, ~Caller, ~ReduceDone, ~ShedDone, ~MallocFails, ~Hit, ~Place, ~Miss, ~ReuseCell,
             ~Resize, ~ReuseFrees, \A i \in Instances : ~Shed(i), \A c \in Cells : ~Grow(c)
      PROVE  ~Limited'
  BY <1>5
  DEF Next, Lookup, Stopped, vars, memVars, cacheVars, cellVars, searchVars, allocVars,
      GetCell, Skip, NoRoom, SetSort, ListEnds, SearchCell, PassOver, Leave,
      ShareSimplex, NewSimplex, AllocDone, Compute, NextChunk, SearchDone
<1> QED BY <1>1, <1>2, <1>3, <1>4, <1>5

\* There is a cell to throw out exactly when the count of the unlocked cells
\* says so: the loops around decrease_revcache do not stop short.
LEMMA UnlockedFound ==
    ASSUME IInv, NEW i \in Instances
    PROVE  HasVictim(i) <=> nunlocked[i] > 0
<1> DEFINE U == {c \in InList(i) : ref[c] = 0}
<1>1. IsFiniteSet(U) /\ nunlocked[i] = Cardinality(U)
  BY UnlockedCells DEF IInv
<1>2. HasVictim(i) <=> U # {}
  BY DEF HasVictim, InList, Range
<1> HIDE DEF U
<1> QED BY <1>1, <1>2, FS_EmptySet, FS_CardinalityType

\* A larger hash index takes no more than what it is larger by than the first.
LEMMA IndexCost ==
    ASSUME NEW e \in Nat, NEW p \in Nat, NEW n \in Nat, NEW h \in Nat, p <= n, n <= h
    PROVE  /\ (h - n) * e <= e * (h - p) /\ (h - n) * e \in Int
           /\ e * (h - p) \in Nat
<1>1. h - p \in Nat /\ n - p \in Nat /\ h - n \in Nat
  OBVIOUS
<1>2. e * (n - p) \in Nat /\ e * (h - p) \in Nat /\ e * (h - n) \in Nat
  BY <1>1, ProductNat
<1>3. e * (h - p) = e * h - e * p /\ e * (n - p) = e * n - e * p /\ (h - n) * e = e * h - e * n
      /\ e * h \in Int /\ e * p \in Int /\ e * n \in Int
  BY <1>1, Distributes
<1> QED BY <1>2, <1>3

\* A fetch goes over the limit by a cell and a larger index at most.
LEMMA FetchLimitStep ==
    ASSUME IInv, Next
    PROVE  FetchLimit'
<1>0. /\ TypeOK /\ FetchLimit /\ on \in Instances
      /\ sz \in [Instances -> Nat] /\ maxSz \in [Instances -> Nat]
      /\ nunlocked \in [Instances -> Nat] /\ ref \in [Cells -> Nat]
      /\ CellSz \in Nat /\ EntrySz \in Nat
  BY SizesAssumption DEF IInv, TypeOK
<1>h. ASSUME on \in insts
      PROVE  /\ EntrySz * (hsize[on] - Primes[1]) \in Nat /\ on \in made
             /\ hsize[on] \in Nat /\ Primes[1] \in Nat /\ Primes[1] <= hsize[on]
  <2>1. on \in made
    BY <1>h, <1>0 DEF TypeOK
  <2>2. hsize[on] \in Nat /\ Primes[1] \in Nat /\ Primes[1] <= hsize[on]
    BY <2>1, TableSize DEF IInv
  <2>3. EntrySz * (hsize[on] - Primes[1]) \in Nat
    BY <1>0, <2>2, IndexCost
  <2> QED BY <2>1, <2>2, <2>3
<1>s. ASSUME NEW i \in Instances, ~MustShed(i)
      PROVE  sz[i] <= maxSz[i] \/ nunlocked[i] = 0
  BY <1>0, <1>s, UnlockedFound DEF MustShed
<1>1. CASE ~Limited'
  BY <1>1 DEF Limited, FetchLimit
<1>2. ASSUME NEW i \in Instances, Discarding(i)
      PROVE  FetchLimit'
  <2>1. /\ Discard(i, Victim(i)) /\ pc \in {"shed", "trim", "reduce", "reuse"}
        /\ UNCHANGED <<pc, on, maxSz>> /\ HasVictim(i) /\ i \in made
        /\ mru[i][Victim(i)] \in Cells
    BY <1>2, DiscardStep DEF memVars, searchVars, Discarding, Shed, ReuseFrees, MustShed
  <2>2. pc = "reuse" => i = on
    BY <1>2 DEF Discarding, Shed
  <2> DEFINE k == ContentsSz(i, mru[i][Victim(i)])
  <2>3. k \in Nat
    <3>1. {x \in sx[mru[i][Victim(i)]] : sref[i][x] = 1} \subseteq Simplexes
      BY <1>0, <2>1 DEF TypeOK
    <3> QED BY <3>1, LiveFinite, SizesAssumption, ProductNat DEF ContentsSz
  <2>4. sz' = [sz EXCEPT ![i] = sz[i] - k - CellSz]
    BY <2>1 DEF Discard
  <2> HIDE DEF k
  <2>5. sz'[i] <= sz[i]
    BY <1>0, <2>3, <2>4
  <2>6. nunlocked[i] > 0
    BY <2>1, UnlockedFound
  <2>7. ASSUME pc = "reuse"
        PROVE  sz'[on] <= maxSz[on]
    <3>1. sz[on] <= maxSz[on] /\ i = on
      BY <1>0, <2>2, <2>6, <2>7 DEF FetchLimit
    <3>2. sz'[on] \in Int
      BY <1>0, <2>3, <2>4
    <3> QED BY <1>0, <2>5, <3>1, <3>2
  <2> QED BY <2>1, <2>7 DEF FetchLimit
<1>3. CASE ShedDone
  BY <1>0, <1>3, <1>s DEF ShedDone, FetchLimit, memVars, cacheVars, searchVars
<1>4. CASE ReduceDone
  <2>1. /\ pc = "reduce" /\ pc' = back /\ back \in {"idle", "grow", "alloc"}
        /\ UNCHANGED <<sz, maxSz, nunlocked, on>> /\ \A i \in insts : ~MustShed(i)
    BY <1>4 DEF ReduceDone, memVars, cacheVars, searchVars, IInv, PhaseOK, TypeOK
  <2>2. back = "grow" => on \in insts
    BY <2>1 DEF IInv, PhaseOK
  <2> QED BY <1>0, <1>s, <2>1, <2>2 DEF FetchLimit
<1>5. CASE Miss
  BY <1>0, <1>5 DEF Miss, FetchLimit, memVars, cacheVars, searchVars
<1>6. CASE Hit \/ Place
  <2>1. PICK c \in InList(on) : Lock(c) /\ ref[c] = 0 /\ c \in Cells /\ on' = on /\ pc' = "fetched"
    BY <1>6, LockStep
  <2>2. on \in insts
    BY <1>6 DEF Hit, Place, IInv, PhaseOK
  <2>3. HasVictim(on)
    BY <2>1 DEF HasVictim, InList, Range
  <2>4. nunlocked[on] > 0
    BY <1>0, <2>3, UnlockedFound
  <2>5. nunlocked'[on] = nunlocked[on] - 1
    BY <1>0, <2>1 DEF Lock
  <2>6. UNCHANGED <<sz, maxSz, hsize>> /\ pc \in {"lookup", "place"}
    BY <1>6 DEF Hit, Place, memVars
  <2>7. \/ sz[on] <= maxSz[on] + CellSz + EntrySz * (hsize[on] - Primes[1])
        \/ nunlocked[on] = 1
    <3> DEFINE e == EntrySz * (hsize[on] - Primes[1])
    <3>1. e \in Nat
      BY <1>h, <2>2
    <3>2. CASE pc = "place"
      BY <1>0, <3>2 DEF FetchLimit
    <3>3. CASE pc = "lookup"
      <4>1. sz[on] <= maxSz[on]
        BY <1>0, <2>4, <3>3 DEF FetchLimit
      <4> HIDE DEF e
      <4>2. sz[on] <= maxSz[on] + CellSz + e
        BY <1>0, <3>1, <4>1
      <4> QED BY <4>2 DEF e
    <3> QED BY <2>6, <3>2, <3>3
  <2> QED BY <1>0, <2>1, <2>5, <2>6, <2>7 DEF FetchLimit
<1>7. CASE ReuseCell
  <2>1. /\ pc' = "place" /\ UNCHANGED <<on, maxSz, hsize>> /\ on \in insts
        /\ sz'[on] < maxSz[on] /\ sz'[on] \in Int
    <3>1. on \in insts /\ pc' = "place" /\ UNCHANGED <<on, maxSz, hsize>>
      BY <1>7 DEF ReuseCell, IInv, PhaseOK, memVars, searchVars
    <3>2. sz'[on] < maxSz[on]
      BY <1>0, <1>7 DEF ReuseCell
    <3>3. sz' \in [Instances -> Nat]
      BY AccountedStep
    <3> QED BY <1>0, <3>1, <3>2, <3>3
  <2> DEFINE e == EntrySz * (hsize[on] - Primes[1])
  <2>2. e \in Nat
    BY <1>h, <2>1
  <2> HIDE DEF e
  <2>3. sz'[on] <= maxSz[on] + CellSz + e
    BY <1>0, <2>1, <2>2
  <2> QED BY <2>1, <2>3 DEF FetchLimit, e
<1>8. CASE Resize
  <2> DEFINE t == Cardinality(DOMAIN tab[on])
             e == EntrySz * (hsize[on] - Primes[1])
  <2>1. /\ pc = "resize" /\ pc' = "place" /\ UNCHANGED <<on, maxSz, hsize, nunlocked>>
        /\ sz' = [sz EXCEPT ![on] = sz[on] + (hsize[on] - t) * EntrySz]
    BY <1>8 DEF Resize, memVars, searchVars
  <2>2. on \in insts /\ on \in made
    BY <2>1, <1>0 DEF IInv, PhaseOK, TypeOK
  <2>3. t \in Nat /\ Primes[1] <= t /\ t <= hsize[on] /\ hsize[on] \in Nat /\ Primes[1] \in Nat
    BY <1>h, <2>1, <2>2, TableFinite
  <2> HIDE DEF t
  <2>4. (hsize[on] - t) * EntrySz <= e /\ (hsize[on] - t) * EntrySz \in Int /\ e \in Nat
    BY <1>0, <2>3, IndexCost
  <2> DEFINE k == (hsize[on] - t) * EntrySz
  <2>5. sz'[on] = sz[on] + k
    BY <1>0, <2>1
  <2>6. k <= e /\ k \in Int /\ e \in Nat
    BY <2>4
  <2>7. sz[on] <= maxSz[on] + CellSz \/ nunlocked[on] = 1
    BY <1>0, <2>1 DEF FetchLimit
  <2> HIDE DEF k, e
  <2>8. sz'[on] <= maxSz[on] + CellSz + e \/ nunlocked[on] = 1
    BY <1>0, <2>5, <2>6, <2>7
  <2> QED BY <2>1, <2>8 DEF FetchLimit, e
<1>9. ASSUME NEW c \in Cells, Grow(c)
      PROVE  FetchLimit'
  <2>1. /\ pc = "grow" /\ UNCHANGED <<on, maxSz>> /\ on \in insts
        /\ sz' = [sz EXCEPT ![on] = sz[on] + CellSz]
        /\ nunlocked' = [nunlocked EXCEPT ![on] = nunlocked[on] + 1]
        /\ pc' = "resize" \/ (pc' = "place" /\ hsize' = hsize)
    BY <1>9 DEF Grow, memVars, searchVars, IInv, PhaseOK
  <2>2. sz'[on] = sz[on] + CellSz /\ nunlocked'[on] = nunlocked[on] + 1
    BY <1>0, <2>1
  <2>3. sz[on] <= maxSz[on] \/ nunlocked[on] = 0
    BY <1>0, <2>1 DEF FetchLimit
  <2>4. sz'[on] <= maxSz[on] + CellSz \/ nunlocked'[on] = 1
    BY <1>0, <2>2, <2>3
  <2> DEFINE e == EntrySz * (hsize[on] - Primes[1])
  <2>5. e \in Nat
    BY <1>h, <2>1
  <2> HIDE DEF e
  <2>6. sz'[on] <= maxSz[on] + CellSz + e \/ nunlocked'[on] = 1
    BY <1>0, <2>2, <2>4, <2>5
  <2> QED BY <2>1, <2>4, <2>6 DEF FetchLimit, e
<1> QED BY <1>1, <1>2, <1>3, <1>4, <1>5, <1>6, <1>7, <1>8, <1>9, LimitFrame

-----------------------------------------------------------------------------
(***************************************************************************)
(* The sum over a finite set, and the shares of the memory.                *)
(***************************************************************************)
\* MapThenSumSet goes down from the set to the empty one, an element at a time:
\* g is the function of the subsets of s it goes by.
Chosen(u)        == CHOOSE x \in u : TRUE
SumStep(f, g, u) == IF u = {} THEN 0 ELSE f[Chosen(u)] + g[u \ {Chosen(u)}]
Sums(f, s, g)    == g = [u \in SUBSET s |-> SumStep(f, g, u)]
SumOver(f, s)    == (CHOOSE g : Sums(f, s, g))[s]

\* The element taken next is one of the set.
LEMMA ChosenIn ==
    ASSUME NEW u, u # {}
    PROVE  Chosen(u) \in u /\ u \ {Chosen(u)} # u
BY DEF Chosen

\* Two such functions agree wherever both are one.
LEMMA SumsAgree ==
    ASSUME NEW f, NEW s, IsFiniteSet(s), NEW g, NEW h,
           \A u \in SUBSET s : g[u] = SumStep(f, g, u) /\ h[u] = SumStep(f, h, u)
    PROVE  g[s] = h[s]
<1> DEFINE T == {u \in SUBSET s : g[u] # h[u]}
<1>1. ASSUME T # {}
      PROVE  FALSE
  <2>1. PICK m \in T : \A y \in T : y \subseteq m => y = m
    <3>1. T \subseteq SUBSET s
      OBVIOUS
    <3> HIDE DEF T
    <3> QED BY <1>1, <3>1, MinimalSubset
  <2>2. m # {}
    BY DEF SumStep
  <2>3. m \ {Chosen(m)} \in SUBSET s /\ m \ {Chosen(m)} \notin T
    BY <2>1, <2>2, ChosenIn
  <2>4. g[m \ {Chosen(m)}] = h[m \ {Chosen(m)}]
    BY <2>3
  <2> QED BY <2>2, <2>4 DEF SumStep
<1> QED BY <1>1

\* A finite set has such a function.
LEMMA SumsExist ==
    ASSUME NEW f, NEW S, IsFiniteSet(S)
    PROVE  \E g : Sums(f, S, g)
<1> DEFINE T == {s \in SUBSET S : ~ \E g : Sums(f, s, g)}
<1>1. ASSUME T # {}
      PROVE  FALSE
  <2>1. PICK m \in T : \A y \in T : y \subseteq m => y = m
    <3>1. T \subseteq SUBSET S
      OBVIOUS
    <3> HIDE DEF T
    <3> QED BY <1>1, <3>1, MinimalSubset
  <2> DEFINE G(s) == CHOOSE g : Sums(f, s, g)
             Rest(u) == u \ {Chosen(u)}
             k == [u \in SUBSET m |->
                      IF u = {} THEN 0 ELSE f[Chosen(u)] + G(Rest(u))[Rest(u)]]
  <2>2. \A s \in SUBSET m : s # m => Sums(f, s, G(s)) /\ IsFiniteSet(s)
    <3>1. ASSUME NEW s \in SUBSET m, s # m
          PROVE  Sums(f, s, G(s)) /\ IsFiniteSet(s)
      <4>1. s \in SUBSET S /\ s \notin T
        BY <2>1, <3>1
      <4>2. \E g : Sums(f, s, g)
        BY <4>1
      <4> QED BY <4>1, <4>2, FS_Subset
    <3> QED BY <3>1
  <2>3. \A u \in SUBSET m : u # {} => Rest(u) \in SUBSET m /\ Rest(u) # m
    BY ChosenIn
  <2>4. ASSUME NEW v \in SUBSET m, v # m
        PROVE  k[v] = G(v)[v]
    <3> HIDE DEF G
    <3>1. G(v) = [u \in SUBSET v |-> SumStep(f, G(v), u)]
      BY <2>2, <2>4 DEF Sums
    <3>2. G(v)[v] = SumStep(f, G(v), v)
      BY <3>1
    <3>3. CASE v = {}
      BY <3>2, <3>3 DEF SumStep
    <3>4. CASE v # {}
      <4> DEFINE w == Rest(v)
      <4>1. w \in SUBSET m /\ w # m /\ w \subseteq v
        BY <2>3, <3>4
      <4>2. Sums(f, w, G(w)) /\ IsFiniteSet(w)
        BY <2>2, <4>1
      <4> HIDE DEF w
      <4>3. \A u \in SUBSET w : G(w)[u] = SumStep(f, G(w), u)
        <5> DEFINE gw == G(w)
        <5>1. gw = [u \in SUBSET w |-> SumStep(f, gw, u)]
          BY <4>2 DEF Sums
        <5> HIDE DEF gw
        <5>2. \A u \in SUBSET w : gw[u] = SumStep(f, gw, u)
          BY <5>1
        <5> QED BY <5>2 DEF gw
      <4>4. \A u \in SUBSET w : G(v)[u] = SumStep(f, G(v), u)
        BY <3>1, <4>1
      <4>5. G(v)[w] = G(w)[w]
        <5> DEFINE gv == G(v)
                   gw == G(w)
        <5>1. \A u \in SUBSET w : gv[u] = SumStep(f, gv, u) /\ gw[u] = SumStep(f, gw, u)
          BY <4>3, <4>4
        <5> HIDE DEF gv, gw
        <5>2. gv[w] = gw[w]
          BY <4>2, <5>1, SumsAgree, SMTT(60)
        <5> QED BY <5>2 DEF gv, gw
      <4>6. k[v] = f[Chosen(v)] + G(w)[w]
        BY <3>4 DEF w
      <4> QED BY <3>2, <3>4, <4>5, <4>6 DEF SumStep, w
    <3> QED BY <3>3, <3>4
  <2>5. \A u \in SUBSET m : k[u] = SumStep(f, k, u)
    <3>1. ASSUME NEW u \in SUBSET m, u # {}
          PROVE  k[u] = SumStep(f, k, u)
      <4>1. k[Rest(u)] = G(Rest(u))[Rest(u)]
        BY <2>3, <2>4, <3>1
      <4>2. k[u] = f[Chosen(u)] + G(Rest(u))[Rest(u)]
        BY <3>1
      <4> HIDE DEF k, G
      <4> QED BY <3>1, <4>1, <4>2 DEF SumStep
    <3>2. ASSUME NEW u \in SUBSET m, u = {}
          PROVE  k[u] = SumStep(f, k, u)
      BY <3>2 DEF SumStep
    <3> QED BY <3>1, <3>2
  <2>6. k = [u \in SUBSET m |-> k[u]]
    OBVIOUS
  <2> HIDE DEF k, G
  <2>7. Sums(f, m, k)
    BY <2>5, <2>6 DEF Sums
  <2> QED BY <2>7
<1> QED BY <1>1

\* A sum of natural numbers is one.
LEMMA SumNat ==
    ASSUME NEW f, NEW S, IsFiniteSet(S), \A x \in S : f[x] \in Nat
    PROVE  SumOver(f, S) \in Nat
<1> DEFINE g == CHOOSE h : Sums(f, S, h)
           T == {u \in SUBSET S : g[u] \notin Nat}
<1>1. g = [u \in SUBSET S |-> SumStep(f, g, u)]
  BY SumsExist DEF Sums
<1>2. SumOver(f, S) = g[S]
  BY DEF SumOver
<1> HIDE DEF g
<1>3. ASSUME T # {}
      PROVE  FALSE
  <2>1. PICK m \in T : \A y \in T : y \subseteq m => y = m
    <3>1. T \subseteq SUBSET S
      OBVIOUS
    <3> HIDE DEF T
    <3> QED BY <1>3, <3>1, MinimalSubset
  <2>2. g[m] = SumStep(f, g, m)
    BY <1>1
  <2>3. m # {}
    BY <2>2 DEF SumStep
  <2>4. g[m \ {Chosen(m)}] \in Nat /\ f[Chosen(m)] \in Nat
    BY <2>1, <2>3, ChosenIn
  <2> QED BY <2>2, <2>3, <2>4 DEF SumStep
<1> QED BY <1>2, <1>3

\* Instances that share keep to what they share.
LEMMA ShareBound ==
    ASSUME NEW ram \in Nat, NEW n \in Nat \ {0}
    PROVE  ram \div n \in Nat /\ (ram \div n) * n <= ram
<1> DEFINE q == ram \div n
           r == ram % n
<1>1. q \in Int /\ r \in 0..(n - 1) /\ ram = n * q + r
  OBVIOUS
<1>2. q \in Nat
  OBVIOUS
<1> HIDE DEF q, r
<1>3. n * q = q * n /\ n * q \in Int
  BY <1>1, Distributes
<1> QED BY <1>1, <1>2, <1>3 DEF q

\* The shares add up to no more than what is shared.
LEMMA ApportionedShares ==
    ASSUME TypeOK, NEW ram \in Nat, NEW S, S \subseteq Instances
    PROVE  /\ Apportioned(ram, S) \in [Instances -> Nat]
           /\ \A i \in S : Apportioned(ram, S)[i] * Cardinality(S) <= ram
<1>1. IsFiniteSet(S) /\ Cardinality(S) \in Nat
  BY SetsAssumption, FS_Subset, FS_CardinalityType
<1>2. \A i \in S : Cardinality(S) \in Nat \ {0}
  BY <1>1, FS_EmptySet
<1>3. \A i \in S : ram \div Cardinality(S) \in Nat
                   /\ (ram \div Cardinality(S)) * Cardinality(S) <= ram
  BY <1>2, ShareBound
<1>4. \A i \in S : Apportioned(ram, S)[i] = ram \div Cardinality(S)
  BY DEF Apportioned
<1>5. Apportioned(ram, S) \in [Instances -> Nat]
  BY <1>3 DEF Apportioned, TypeOK
<1> QED BY <1>3, <1>4, <1>5

\* The steps that set the limit or share it out.
LEMMA MemFrame ==
    ASSUME Next
    PROVE  \/ UNCHANGED <<insts, avail, maxSz>>
           \/ \E i \in Instances : MakeRev(i) \/ InitRevaccell(i) \/ Invalidate(i) \/ FreeRev(i)
           \/ MallocFails
BY DEF Next, Caller, Lookup, Stopped, vars, memVars,
       StartSearch, Shed, ShedDone, ReduceDone, GetCell, Skip, NoRoom, Miss, Hit, Grow, Resize,
       ReuseCell, ReuseFrees, Place, SetSort, ListEnds, SearchCell, PassOver, Leave,
       ShareSimplex, NewSimplex, AllocDone, Compute, NextChunk, SearchDone

\* Every step leaves the shares within the limit, or make_rev has set it anew.
LEMMA SharesStep ==
    ASSUME IInv, Next
    PROVE  SharesOK' /\ avail' \in Nat /\ maxSz' \in [Instances -> Nat]
<1>0. /\ TypeOK /\ SharesOK /\ avail \in Nat /\ maxSz \in [Instances -> Nat]
      /\ insts \subseteq Instances /\ made \subseteq Instances /\ Ram \in Nat
  BY SizesAssumption DEF IInv, TypeOK
<1>1. ASSUME NEW ram \in Nat, NEW S, S \subseteq Instances, insts' = S, avail' = ram,
             maxSz' = Apportioned(ram, S)
      PROVE  SharesOK' /\ avail' \in Nat /\ maxSz' \in [Instances -> Nat]
  <2>1. /\ Apportioned(ram, S) \in [Instances -> Nat]
        /\ \A i \in S : Apportioned(ram, S)[i] * Cardinality(S) <= ram
    BY <1>0, <1>1, ApportionedShares
  <2> QED BY <1>1, <2>1 DEF SharesOK
<1>2. CASE UNCHANGED <<insts, avail, maxSz>>
  BY <1>0, <1>2 DEF SharesOK
<1>3. ASSUME NEW i \in Instances, MakeRev(i)
      PROVE  SharesOK' /\ avail' \in Nat /\ maxSz' \in [Instances -> Nat]
  BY <1>0, <1>3 DEF MakeRev, SharesOK
<1>4. ASSUME NEW i \in Instances, InitRevaccell(i)
      PROVE  SharesOK' /\ avail' \in Nat /\ maxSz' \in [Instances -> Nat]
  <2>1. /\ insts' = insts \union {i} /\ maxSz' = Apportioned(avail, insts') /\ avail' = avail
    BY <1>4 DEF InitRevaccell
  <2> QED BY <1>0, <1>1, <2>1
<1>5. ASSUME NEW i \in Instances, Invalidate(i) \/ FreeRev(i)
      PROVE  SharesOK' /\ avail' \in Nat /\ maxSz' \in [Instances -> Nat]
  <2>1. /\ insts' = insts \ {i} /\ avail' = avail
        /\ maxSz' = IF i \in insts THEN Apportioned(avail, insts \ {i}) ELSE maxSz
    BY <1>5 DEF Invalidate, FreeRev, LeaveOthers
  <2>2. CASE i \in insts
    BY <1>0, <1>1, <2>1, <2>2
  <2>3. CASE i \notin insts
    BY <1>0, <2>1, <2>3 DEF SharesOK
  <2> QED BY <2>2, <2>3
<1>6. CASE MallocFails
  <2>1. CASE retry \/ Request > InUse
    BY <1>0, <1>6, <2>1 DEF MallocFails, SharesOK, memVars
  <2>2. CASE ~(retry \/ Request > InUse)
    <3>1. /\ avail' = InUse - Request /\ maxSz' = Apportioned(avail', insts) /\ insts' = insts
          /\ pc \in {"grow", "resize", "alloc"}
      BY <1>6, <2>2 DEF MallocFails
    <3>2. InUse \in Nat
      <4>1. IsFiniteSet(insts) /\ \A i \in insts : sz[i] \in Nat
        BY <1>0, SetsAssumption, FS_Subset DEF TypeOK
      <4>2. InUse = SumOver(sz, insts)
        BY DEF InUse, MapThenSumSet, MapThenFoldSet, SumOver, Sums, SumStep, Chosen
      <4> QED BY <4>1, <4>2, SumNat
    <3>3. Request \in Nat
      <4>1. hsize[on] \in Nat /\ EntrySz \in Nat /\ CellSz \in Nat /\ SimplexSz \in Nat
        BY <1>0, SizesAssumption DEF TypeOK
      <4>2. hsize[on] * EntrySz \in Nat
        BY <4>1, ProductNat
      <4> QED BY <3>1, <4>1, <4>2 DEF Request, Requested
    <3>4. InUse - Request \in Nat
      BY <2>2, <3>2, <3>3
    <3> QED BY <1>0, <1>1, <3>1, <3>4
  <2> QED BY <2>1, <2>2
<1> QED BY <1>2, <1>3, <1>4, <1>5, <1>6, MemFrame

-----------------------------------------------------------------------------
(***************************************************************************)
(* The invariant, and what it gives.                                       *)
(***************************************************************************)
TabTypes == \A i \in Instances : \A h \in DOMAIN tab[i] : h \in Nat /\ tab[i][h] \subseteq Cells

\* The chains hold addresses calloc gave.
LEMMA TabTypesStep ==
    ASSUME TablesOK', UnmadeOK', mru' \in [Instances -> Seq(Cells)], hsize' \in [Instances -> Nat]
    PROVE  TabTypes'
<1>1. \A i \in Instances : InList(i)' \subseteq Cells
  BY LenProperties DEF InList, Range
<1>2. ASSUME NEW i \in Instances
      PROVE  \A h \in DOMAIN tab'[i] : h \in Nat /\ tab'[i][h] \subseteq Cells
  <2>1. CASE i \in made'
    <3>1. TableOK(i)' /\ Hashed(i)' \subseteq Cells /\ hsize'[i] \in Nat
      BY <1>1, <2>1 DEF TablesOK, TableOK
    <3>2. \A h \in DOMAIN tab'[i] : tab'[i][h] \subseteq Hashed(i)'
      BY DEF Hashed, Range
    <3>3. \A h \in DOMAIN tab'[i] : h \in Nat
      BY <3>1 DEF TableOK
    <3> QED BY <3>1, <3>2, <3>3
  <2>2. CASE i \notin made'
    <3>1. tab'[i] = <<>> /\ DOMAIN <<>> = {}
      BY <2>2 DEF UnmadeOK
    <3> QED BY <3>1
  <2> QED BY <2>1, <2>2
<1> QED BY <1>2 DEF TabTypes

\* Before the first make_rev there is nothing.
LEMMA InitIInv ==
    ASSUME Init
    PROVE  IInv
<1> DOMAIN <<>> = {} /\ <<>> \in Seq(Cells) /\ <<>> \in Seq(Ixs) /\ Len(<<>>) = 0
  OBVIOUS
<1> USE DEF Init
<1>1. \A i \in Instances : InList(i) = {} /\ Hashed(i) = {} /\ mru[i] = <<>> /\ tab[i] = <<>>
  BY DEF InList, Hashed, Range
<1>2. TypeOK
  BY SetsAssumption, <1>1 DEF TypeOK, Pcs
<1>3. ListsOK /\ CellsOK /\ TablesOK /\ UnmadeOK
  BY <1>1 DEF ListsOK, CellsOK, TablesOK, UnmadeOK, IsInjective
<1>4. LocksCounted
  BY <1>1, FS_EmptySet DEF LocksCounted, Locked
<1>5. PhaseOK
  BY DEF PhaseOK, Fetching, Missed, InHand, Allocating
<1>6. LockedAreCurrent
  BY DEF LockedAreCurrent
<1>7. SimplexRefs
  <2>1. \A i \in Instances : \A x \in Simplexes : Holders(i, x) = {}
    BY <1>1 DEF Holders
  <2> QED BY <2>1, FS_EmptySet DEF SimplexRefs
<1>8. Accounted /\ FetchLimit /\ SharesOK
  BY DEF Accounted, FetchLimit, SharesOK
<1> QED BY <1>2, <1>3, <1>4, <1>5, <1>6, <1>7, <1>8 DEF IInv

\* Every step keeps the invariant,
LEMMA NextIInv ==
    ASSUME IInv, Next, "table" \notin Fails
    PROVE  IInv'
<1>1. ListsOK' /\ mru' \in [Instances -> Seq(Cells)] /\ CellsOK' /\ ref' \in [Cells -> Nat]
  BY ListsStep, CellsStep
<1>2. LocksCounted' /\ nunlocked' \in [Instances -> Nat] /\ TablesOK' /\ LockedAreCurrent' /\ PhaseOK'
  BY <1>1, LocksStep, TablesStep, HeldStep, PhaseStep
<1>3. InstanceTypes' /\ UnmadeOK' /\ CellTypes' /\ SearchTypes'
  BY <1>2, InstanceTypesStep, CellTypesStep, SearchTypesStep
<1>4. SimplexRefs' /\ sref' \in [Instances -> [Simplexes -> Nat]]
  BY RefsStep
<1>5. Accounted' /\ sz' \in [Instances -> Nat] /\ FetchLimit'
  BY AccountedStep, FetchLimitStep
<1>6. SharesOK' /\ avail' \in Nat /\ maxSz' \in [Instances -> Nat]
  BY SharesStep
<1>7. TabTypes'
  BY <1>1, <1>2, <1>3, TabTypesStep DEF InstanceTypes
<1>8. TypeOK'
  BY <1>1, <1>2, <1>3, <1>4, <1>5, <1>6, <1>7
  DEF TypeOK, InstanceTypes, CellTypes, SearchTypes, TabTypes
<1> QED BY <1>1, <1>2, <1>3, <1>4, <1>5, <1>6, <1>8 DEF IInv

\* ... and so does doing nothing:
LEMMA StutterIInv ==
    ASSUME IInv, UNCHANGED vars
    PROVE  IInv'
<1> USE DEF vars, memVars, cacheVars, cellVars, searchVars, allocVars
<1>0. IInv
  OBVIOUS
<1>1. TypeOK' /\ ListsOK' /\ CellsOK'
  BY <1>0 DEF IInv, TypeOK, ListsOK, CellsOK, InList, Free
<1>2. LocksCounted' /\ LockedAreCurrent'
  BY <1>0, SMTT(30) DEF IInv, LocksCounted, LockedAreCurrent, InList, Locked
<1>3. TablesOK' /\ UnmadeOK'
  <2>1. \A i \in made : TableOK(i) /\ i \in Instances
    BY <1>0 DEF IInv, TablesOK, TypeOK
  <2>2. \A i \in Instances : InList(i)' = InList(i)
    BY SameLists
  <2>3. \A i \in made : TableOK(i)'
    BY <2>1, <2>2, SameTable
  <2> QED BY <1>0, <2>3 DEF IInv, TablesOK, UnmadeOK
<1>4. PhaseOK'
  BY <1>0 DEF IInv, PhaseOK, Fetching, Missed, InHand, Allocating, Wanted, Hashed, InList
<1>5. SimplexRefs' /\ Accounted'
  BY <1>0 DEF IInv, SimplexRefs, Accounted, Holders, Live, InList
<1>6. FetchLimit' /\ SharesOK'
  BY <1>0 DEF IInv, FetchLimit, SharesOK
<1> QED BY <1>1, <1>2, <1>3, <1>4, <1>5, <1>6 DEF IInv

\* it holds in every state the program reaches.
LEMMA InductiveIInv ==
    ASSUME "table" \notin Fails
    PROVE  Spec => []IInv
<1>1. Init => IInv
  BY InitIInv
<1>2. IInv /\ [Next]_vars => IInv'
  BY NextIInv, StutterIInv
<1> QED BY <1>1, <1>2, PTL DEF Spec

\* What each part of the invariant gives of the properties.
LEMMA TablesSound ==
    ASSUME IInv
    PROVE  HashSound
<1>1. ASSUME NEW i \in made, ~Resizing(i)
      PROVE  /\ DOMAIN tab[i] = 0..(hsize[i] - 1)
             /\ \A h \in DOMAIN tab[i] : \A c \in tab[i][h] :
                   /\ c \in InList(i) /\ Hash(i, ix[c]) = h
                   /\ \A d \in tab[i][h] : ix[d] = ix[c] => d = c
  <2>1. ~(pc = "resize" /\ i = on) /\ TableOK(i)
    BY <1>1 DEF Resizing, IInv, TablesOK
  <2>2. \A h \in DOMAIN tab[i] : \A c \in tab[i][h] : c \in Hashed(i)
    BY ChainHashed
  <2> QED BY <2>1, <2>2 DEF TableOK
<1> QED BY <1>1 DEF HashSound

\* The simplexes that are counted are those a cell holds.
LEMMA HeldSimplexes ==
    ASSUME IInv
    PROVE  MemoryAccounted
<1>1. ASSUME NEW i \in made
      PROVE  {x \in Simplexes : Holders(i, x) # {}} = Live(i)
  <2>1. ASSUME NEW x \in Simplexes
        PROVE  Holders(i, x) # {} <=> sref[i][x] > 0
    <3>1. i \in Instances /\ TypeOK
      BY DEF IInv, TypeOK
    <3>2. IsFiniteSet(Holders(i, x)) /\ sref[i][x] = Cardinality(Holders(i, x))
      BY <3>1, HoldersFinite DEF IInv, SimplexRefs
    <3> QED BY <3>2, FS_EmptySet, FS_CardinalityType
  <2> QED BY <2>1 DEF Live
<1> QED BY <1>1 DEF IInv, Accounted, FetchLimit, SharesOK, MemoryAccounted

\* A cell that is locked before and after a step is the same cell.
LEMMA HeldStay ==
    ASSUME IInv, IInv', Next, NEW c \in lclist, ref'[c] > 0
    PROVE  c \in InList(on)' /\ ix'[c] = ix[c] /\ sx[c] \subseteq sx'[c]
<1>0. /\ TypeOK /\ c \in InList(on) /\ c \in Hashed(on) /\ c \in Cells /\ ref[c] = 1
      /\ on \in Instances /\ pc # "idle" /\ ref \in [Cells -> Nat]
      /\ sx \in [Cells -> SUBSET Simplexes] /\ ix \in [Cells -> Ixs]
  BY HeldCells DEF IInv, TypeOK
<1>1. c \in lclist' /\ on' = on
  <2>1. CASE UNCHANGED <<mru, nunlocked, ref, on, lclist>>
    BY <2>1
  <2>2. ASSUME NEW d \in Cells, PassOver(d) \/ (Compute /\ d = cell)
        PROVE  c \in lclist' /\ on' = on
    <3>1. Leave(d) /\ ref[d] = 1 /\ d \in Cells
      BY <2>2, LeaveStep
    <3>2. ref'[d] = 0 /\ lclist' = lclist \ {d} /\ on' = on
      BY <1>0, <3>1 DEF Leave, Unlock
    <3> QED BY <3>2
  <2>3. CASE SetSort \/ Hit \/ Place \/ \E d \in Cells : Grow(d)
    BY <2>3 DEF SetSort, Hit, Place, Grow, searchVars
  <2>4. ASSUME NEW i \in Instances, Discarding(i)
        PROVE  c \in lclist' /\ on' = on
    BY <2>4, DiscardStep DEF searchVars
  <2>5. ~ \E i \in Instances : Invalidate(i) \/ FreeRev(i) \/ StartSearch(i)
    BY <1>0 DEF Invalidate, FreeRev, StartSearch
  <2>6. ReuseFrees => \E i \in Instances : Discarding(i)
    BY <1>0 DEF Discarding
  <2>7. Compute => cell \in Cells
    BY DEF Compute, IInv, PhaseOK, TypeOK
  <2> QED BY <1>0, <2>1, <2>2, <2>3, <2>4, <2>5, <2>6, <2>7, LockFrame
<1>2. c \in InList(on)'
  BY <1>1 DEF IInv, LockedAreCurrent
<1>3. ix'[c] = ix[c] /\ sx[c] \subseteq sx'[c]
  <2>1. CASE UNCHANGED <<mru, sref, sx, ix>>
    BY <2>1
  <2>2. ~ \E i \in Instances : Invalidate(i) \/ FreeRev(i)
    BY <1>0 DEF Invalidate, FreeRev
  <2>3. ASSUME NEW i \in Instances, Discarding(i)
        PROVE  ix'[c] = ix[c] /\ sx[c] \subseteq sx'[c]
    <3> DEFINE d == mru[i][Victim(i)]
    <3>1. ref[d] = 0 /\ ix' = [ix EXCEPT ![d] = 0] /\ sx' = [sx EXCEPT ![d] = {}]
      BY <2>3, DiscardStep DEF Discard
    <3> HIDE DEF d
    <3> QED BY <1>0, <3>1
  <2>4. CASE Place
    <3>1. cell \notin Hashed(on) /\ ix' = [ix EXCEPT ![cell] = Wanted] /\ sx' = sx
      BY <2>4, PlaceTables DEF Place
    <3> QED BY <1>0, <3>1
  <2>5. CASE ReuseCell
    <3>1. ix' = ix /\ sx' = [sx EXCEPT ![cell'] = {}] /\ cell' \notin lclist
      BY <2>5, ReuseTables DEF ReuseCell
    <3> QED BY <1>0, <3>1
  <2>6. CASE Hit \/ \E d \in Cells : Grow(d)
    BY <2>6 DEF Hit, Grow, cellVars
  <2>7. ASSUME NEW x \in Simplexes, ShareSimplex(x) \/ NewSimplex(x)
        PROVE  ix'[c] = ix[c] /\ sx[c] \subseteq sx'[c]
    BY <1>0, <2>7 DEF ShareSimplex, NewSimplex
  <2>8. ReuseFrees => \E i \in Instances : Discarding(i)
    BY <1>0 DEF Discarding
  <2> QED BY <2>1, <2>2, <2>3, <2>4, <2>5, <2>6, <2>7, <2>8, RefFrame
<1> QED BY <1>2, <1>3

-----------------------------------------------------------------------------
(***************************************************************************)
(* The theorems.  They are about the program whose larger hash index is    *)
(* always allocated: without one increase_revcache goes on with a cell it  *)
(* has freed (rev.c:6053).  A cell or a simplex may be refused at any time. *)
(***************************************************************************)
\* The counters and limits of rev.c never go below zero, whatever is refused,
\* and the chains, the lists and the search hold addresses calloc gave.
THEOREM TypeCorrect ==
    ASSUME "table" \notin Fails
    PROVE  Spec => []TypeOK
<1>1. IInv => TypeOK
  BY DEF IInv
<1> QED BY <1>1, InductiveIInv, PTL

\* nunlocked is the number of cells that may be thrown out, and what is locked
\* is what the running search holds: cache_fxcell, uncache_fxcell and
\* decrease_revcache balance.
THEOREM LocksBalance ==
    ASSUME "table" \notin Fails
    PROVE  Spec => []LocksCounted
<1>1. IInv => LocksCounted
  BY DEF IInv
<1> QED BY <1>1, InductiveIInv, PTL

\* A cell in the list of a search stays in the cache under the index it was
\* fetched for, with the vertex values of that index.
THEOREM LockedCellsCurrent ==
    ASSUME "table" \notin Fails
    PROVE  Spec => []LockedAreCurrent
<1>1. IInv => LockedAreCurrent
  BY DEF IInv
<1> QED BY <1>1, InductiveIInv, PTL

\* The hash chains are those of the cells of the cache, also after cells have
\* been reused, thrown out or hashed anew into a larger index.
THEOREM ChainsSound ==
    ASSUME "table" \notin Fails
    PROVE  Spec => []HashSound
<1>1. IInv => HashSound
  BY TablesSound
<1> QED BY <1>1, InductiveIInv, PTL

\* The reference count of a simplex is the number of cells of its instance
\* that hold it, so it is freed with the last of them and not before.
THEOREM SimplexesCounted ==
    ASSUME "table" \notin Fails
    PROVE  Spec => []SimplexRefs
<1>1. IInv => SimplexRefs
  BY DEF IInv
<1> QED BY <1>1, InductiveIInv, PTL

\* rev.sz is the memory the instance holds, a fetch ends within the limit or
\* with nothing left to throw out, and the shares add up to the limit.
THEOREM MemoryWithinLimits ==
    ASSUME "table" \notin Fails
    PROVE  Spec => []MemoryAccounted
<1>1. IInv => MemoryAccounted
  BY HeldSimplexes
<1> QED BY <1>1, InductiveIInv, PTL

\* No step takes a cell from under a search that has it locked.
THEOREM LockedCellsStay ==
    ASSUME "table" \notin Fails
    PROVE  Spec => LockedStay
<1> DEFINE Stay == \A c \in lclist : ref'[c] > 0 => c \in InList(on)' /\ ix'[c] = ix[c]
                                                    /\ sx[c] \subseteq sx'[c]
<1>1. IInv /\ IInv' /\ [Next]_vars => [Stay]_vars
  BY HeldStay
<1>2. Spec => [][Stay]_vars
  BY <1>1, InductiveIInv, PTL DEF Spec
<1> QED BY <1>2 DEF LockedStay
=============================================================================
