------------------------------ MODULE RevCache ------------------------------
(***************************************************************************)
(* The reverse lookup cell cache of the rspl library, src/rspl/rev.c, the  *)
(* searches that run on it, and the memory limit its instances share.      *)
(*                                                                         *)
(* A reverse lookup (search_list) is given a list of forward grid cells.   *)
(* It fetches each one through the cache, which locks it, keeps the ones   *)
(* worth searching locked in a list, then searches them one after the      *)
(* other and unlocks each as it goes.  When the cache has no room left the *)
(* list is searched in chunks.  Searching a cell allocates its simplexes,  *)
(* and neighbouring cells share the simplexes of their common face.  Every *)
(* instance counts the memory it holds; a limit is shared out among the    *)
(* instances and lowered whenever an allocation fails, and cells that are  *)
(* not locked are thrown out, the least recently used first, to get below. *)
(*                                                                         *)
(* The program is sequential.  A loop that throws cells out may be entered *)
(* from many places and is one step per cell here, so pc says where the    *)
(* running search is and back where a failed allocation is taken up again. *)
(* The sub-simplex levels of a cell are searched as one, the matrices kept *)
(* with a simplex are part of its size, and the simplex hash index is a    *)
(* table of the live simplexes (its own growth is not modelled).           *)
(***************************************************************************)
EXTENDS Integers, SequencesExt, FiniteSetsExt

CONSTANTS
    Instances,      \* rspl objects with a reverse lookup
    Cells,          \* addresses calloc may give to a fxcell
    Ixs,            \* forward grid cell indexes
    NoIx,           \* a cell whose vertex values were never loaded
    NoCell,         \* the search has no cell in hand
    Simplexes,      \* the simplexes of the grid
    SimplexesOf,    \* those each grid cell needs
    Lists,          \* the candidate lists a search may be given
    CellSz, SimplexSz, EntrySz,
                    \* bytes of a fxcell, a simplex, a hash entry
    BaseSizes,      \* what the other tables of an instance may take
    Ram,            \* what make_rev lets all the instances use together
    Primes,         \* the successive sizes of the hash index
    FillRatio,      \* HASH_FILL_RATIO
    Fails           \* which of "cell", "simplex", "table" malloc may refuse

ASSUME SetsAssumption ==
    /\ IsFiniteSet(Instances) /\ IsFiniteSet(Cells) /\ IsFiniteSet(Simplexes)
    /\ Ixs \subseteq Nat /\ 0 \in Ixs /\ NoIx \notin Ixs /\ NoCell \notin Cells
    /\ SimplexesOf \in [Ixs -> SUBSET Simplexes]
    /\ \A l \in Lists : l \in Seq(Ixs)
ASSUME SizesAssumption ==
    /\ CellSz \in Nat \ {0} /\ SimplexSz \in Nat \ {0}
    /\ EntrySz \in Nat /\ BaseSizes \subseteq Nat /\ Ram \in Nat
ASSUME PrimesAssumption ==
    /\ Primes \in Seq(Nat \ {0}) /\ Len(Primes) > 0
    /\ \A j, l \in DOMAIN Primes : j < l => Primes[j] < Primes[l]
    /\ FillRatio \in Nat \ {0}
ASSUME FailsAssumption == Fails \subseteq {"cell", "simplex", "table"}

VARIABLES
    (* the globals of rev.c: g_avail_ram, g_rev_instances *)
    avail, insts,
    (* each instance: it has a cache; what its other tables take; sz,        *)
    (* max_sz; the cache's mru list from mrubot to mrutop, nunlocked,        *)
    (* cell_hash_size, hashtop and the reference counts of the simplexes in  *)
    (* its simplex index                                                     *)
    made, base, sz, maxSz, mru, nunlocked, hsize, tab, sref,
    (* each fxcell: ix, refcount, sx, CELL_FLAG_1, the cell v was loaded for *)
    ix, ref, sx, ready, data,
    (* the search: where it is, on which instance, what is left of the list, *)
    (* the grid cells and simplexes touched, lclist, the cell in hand, the   *)
    (* simplexes still to set up                                             *)
    pc, on, list, touched, stouched, lclist, cell, todo,
    (* a failed allocation: where to retry, whether this is the retry        *)
    back, retry

memVars    == <<avail, insts, base, maxSz>>
cacheVars  == <<made, sz, mru, nunlocked, hsize, tab, sref>>
cellVars   == <<ix, ref, sx, ready, data>>
searchVars == <<on, list, touched, stouched, lclist>>
allocVars  == <<back, retry>>
vars == <<memVars, cacheVars, cellVars, searchVars, pc, cell, todo, allocVars>>

Pcs == {"idle", "get", "shed", "lookup", "reuse", "grow", "resize", "place",
        "fetched", "search", "alloc", "trim", "compute", "reduce",
        "noMemory", "error"}

(***************************************************************************)
(* Reading the cache                                                       *)
(***************************************************************************)

\* HASH
Hash(i, x) == x % hsize[i]

HasVictim(i) == \E p \in DOMAIN mru[i] : ref[mru[i][p]] = 0

\* (bug variant: the bottom of the list, locked or not)
Bug_Bottom(i) == 1

\* the position in the mru list of the least recently used unlocked cell
Victim(i) ==
    CHOOSE p \in DOMAIN mru[i] :
        /\ ref[mru[i][p]] = 0
        /\ \A q \in 1..(p - 1) : ref[mru[i][q]] > 0

\* (bug variant: the memory is not kept in check)
Bug_NeverShed(i) == FALSE

\* "while (rc->nunlocked > 0 && rc->s->rev.sz > rc->s->rev.max_sz)", which
\* also ends when decrease_revcache finds nothing to free
MustShed(i) == nunlocked[i] > 0 /\ sz[i] > maxSz[i] /\ HasVictim(i)

\* the cell a lookup of x finds in its hash chain
HitSet(i, x) == {c \in tab[i][Hash(i, x)] : ix[c] = x}

Wanted  == Head(list)
Forced   == lclist = {}
Free(c) == \A i \in Instances : c \notin Range(mru[i])

\* the next size of the hash index, when it is too full and not the last one
Bigger(i) == {j \in DOMAIN Primes : Primes[j] > hsize[i]}
Overfull(i, n) == n > FillRatio * hsize[i] /\ Bigger(i) # {}
NextSize(i) == Primes[Min(Bigger(i))]

(***************************************************************************)
(* free_cell_contents: each simplex of the cell loses a reference, and its *)
(* memory with the last one                                                *)
(***************************************************************************)

\* (bug variant: the memory is counted back whoever else holds the simplex)
Bug_FreeShared(i, c) == SimplexSz * Cardinality(sx[c])

ContentsSz(i, c) == SimplexSz * Cardinality({x \in sx[c] : sref[i][x] = 1})

\* (bug variant: the references are left behind)
Bug_KeepRefs(i, c) == sref[i]

SrefWithout(i, c) ==
    [x \in Simplexes |-> IF x \in sx[c] THEN sref[i][x] - 1 ELSE sref[i][x]]

\* (bug variant: the chain is left alone)
Bug_KeepHashed(i, c) == tab[i]

\* the chain of the cell's index, without it; a chain of a size the table
\* does not have is read out of bounds, and then nothing is unlinked
TabWithout(i, c) ==
    [h \in DOMAIN tab[i] |-> IF h = Hash(i, ix[c]) THEN tab[i][h] \ {c} ELSE tab[i][h]]

\* The unlocked cell at position p is freed (decrease_revcache).  Nothing of
\* what the memory held is used again: calloc clears it.
Discard(i, p) ==
    LET c == mru[i][p] IN
    /\ mru'       = [mru EXCEPT ![i] = RemoveAt(@, p)]
    /\ nunlocked' = [nunlocked EXCEPT ![i] = @ - 1]
    /\ sz'        = [sz EXCEPT ![i] = @ - ContentsSz(i, c) - CellSz]
    /\ sref'      = [sref EXCEPT ![i] = SrefWithout(i, c)]
    /\ tab'       = [tab EXCEPT ![i] = TabWithout(i, c)]
    /\ ix'        = [ix EXCEPT ![c] = 0]
    /\ sx'        = [sx EXCEPT ![c] = {}]
    /\ ready'     = [ready EXCEPT ![c] = FALSE]
    /\ data'      = [data EXCEPT ![c] = NoIx]
    /\ UNCHANGED <<made, hsize, ref>>

(***************************************************************************)
(* Sharing the memory out                                                  *)
(***************************************************************************)

\* (bug variant: the whole limit is given to each of them)
Bug_NoDivision(ram, S) == [i \in Instances |-> IF i \in S THEN ram ELSE maxSz[i]]

\* max_sz of every instance of S when they share ram
Apportioned(ram, S) ==
    [i \in Instances |-> IF i \in S THEN ram \div Cardinality(S) ELSE maxSz[i]]

InUse == MapThenSumSet(LAMBDA i : sz[i], insts)

\* make_rev and alloc_revcache: an instance gets a cache
MakeRev(i) ==
    /\ pc = "idle" /\ i \notin made
    /\ made'  = made \union {i}
    /\ avail' = Ram
    /\ maxSz' = [maxSz EXCEPT ![i] = Ram]
    /\ hsize' = [hsize EXCEPT ![i] = Primes[1]]
    /\ tab'   = [tab EXCEPT ![i] = [h \in 0..(Primes[1] - 1) |-> {}]]
    /\ \E n \in BaseSizes :
          /\ base' = [base EXCEPT ![i] = n]
          /\ sz'   = [sz EXCEPT ![i] = n + Primes[1] * EntrySz]
    /\ UNCHANGED <<insts, mru, nunlocked, sref, cellVars, searchVars, pc, cell, todo, allocVars>>

\* init_revaccell: the instance joins the others, which all shrink to the
\* new share
InitRevaccell(i) ==
    /\ pc = "idle" /\ i \in made \ insts
    /\ insts' = insts \union {i}
    /\ maxSz' = Apportioned(avail, insts')
    /\ pc' = "reduce" /\ back' = "idle"
    /\ UNCHANGED <<avail, base, cacheVars, cellVars, searchVars, cell, todo, retry>>

\* The instance leaves the others, and they share its part.  Their caches
\* only ever grow from this, so nothing is thrown out.
LeaveOthers(i) ==
    /\ insts' = insts \ {i}
    /\ maxSz' = IF i \in insts THEN Apportioned(avail, insts \ {i}) ELSE maxSz
    /\ UNCHANGED <<avail, base>>

\* the fxcells of i lose their simplexes and what was loaded into them
Wiped(i, f, v) == [c \in Cells |-> IF c \in Range(mru[i]) THEN v ELSE f[c]]

\* invalidate_revaccell: the grid has changed under the cache, all of whose
\* cells are emptied and can be used anew
Invalidate(i) ==
    /\ pc = "idle" /\ i \in made
    /\ LeaveOthers(i)
    /\ sz'        = [sz EXCEPT ![i] =
                        @ - SimplexSz * Cardinality({x \in Simplexes : sref[i][x] > 0})]
    /\ nunlocked' = [nunlocked EXCEPT ![i] = Len(mru[i])]
    /\ tab'       = [tab EXCEPT ![i] = [h \in DOMAIN @ |-> {}]]
    /\ sref'      = [sref EXCEPT ![i] = [x \in Simplexes |-> 0]]
    /\ ix'    = Wiped(i, ix, 0)
    /\ ref'   = Wiped(i, ref, 0)
    /\ sx'    = Wiped(i, sx, {})
    /\ ready' = Wiped(i, ready, FALSE)
    /\ data'  = Wiped(i, data, NoIx)
    /\ UNCHANGED <<made, mru, hsize, searchVars, pc, cell, todo, allocVars>>

\* free_rev, free_revcache
FreeRev(i) ==
    /\ pc = "idle" /\ i \in made
    /\ LeaveOthers(i)
    /\ made'      = made \ {i}
    /\ sz'        = [sz EXCEPT ![i] = 0]
    /\ mru'       = [mru EXCEPT ![i] = <<>>]
    /\ nunlocked' = [nunlocked EXCEPT ![i] = 0]
    /\ hsize'     = [hsize EXCEPT ![i] = 0]
    /\ tab'       = [tab EXCEPT ![i] = <<>>]
    /\ sref'      = [sref EXCEPT ![i] = [x \in Simplexes |-> 0]]
    /\ ix'    = Wiped(i, ix, 0)
    /\ ref'   = Wiped(i, ref, 0)
    /\ sx'    = Wiped(i, sx, {})
    /\ ready' = Wiped(i, ready, FALSE)
    /\ data'  = Wiped(i, data, NoIx)
    /\ UNCHANGED <<searchVars, pc, cell, todo, allocVars>>

(***************************************************************************)
(* Throwing cells out, and allocations that fail                           *)
(***************************************************************************)

\* one turn of a loop around decrease_revcache
Shed(i) ==
    /\ \/ pc \in {"shed", "trim"} /\ i = on
       \/ pc = "reduce" /\ i \in insts
    /\ MustShed(i)
    /\ Discard(i, Victim(i))
    /\ UNCHANGED <<memVars, searchVars, pc, cell, todo, allocVars>>

ShedDone ==
    /\ pc \in {"shed", "trim"} /\ ~MustShed(on)
    /\ pc' = IF pc = "shed" THEN "lookup" ELSE "alloc"
    /\ UNCHANGED <<memVars, cacheVars, cellVars, searchVars, cell, todo, allocVars>>

\* rev_reduce_cache has shrunk every cache: the allocation is tried again
ReduceDone ==
    /\ pc = "reduce" /\ \A i \in insts : ~MustShed(i)
    /\ pc' = back /\ retry' = (back # "idle") /\ back' = "idle"
    /\ UNCHANGED <<memVars, cacheVars, cellVars, searchVars, cell, todo>>

\* what the search is about to allocate, and its size
Requested == CASE pc = "grow" -> "cell" [] pc = "resize" -> "table" [] pc = "alloc" -> "simplex"

Request ==
    CASE Requested = "cell"    -> CellSz
      [] Requested = "table"   -> hsize[on] * EntrySz
      [] Requested = "simplex" -> SimplexSz

\* rev_malloc, rev_calloc: the first refusal lowers the limit of everyone to
\* what is in use less what is asked for, the second one ends the program
MallocFails ==
    /\ pc \in {"grow", "resize", "alloc"} /\ Requested \in Fails
    /\ pc = "alloc" => \E x \in todo : sref[on][x] = 0
    /\ IF retry \/ Request > InUse
       THEN pc' = "error" /\ UNCHANGED <<memVars, allocVars>>
       ELSE /\ avail' = InUse - Request
            /\ maxSz' = Apportioned(avail', insts)
            /\ pc' = "reduce" /\ back' = pc
            /\ UNCHANGED <<insts, base, retry>>
    /\ UNCHANGED <<cacheVars, cellVars, searchVars, cell, todo>>

(***************************************************************************)
(* cache_fxcell, increase_revcache and get_fxcell                          *)
(***************************************************************************)

\* the cell goes to the top of the mru list and its refcount up
Lock(c) ==
    /\ mru' = [mru EXCEPT ![on] =
                  Append(RemoveAt(@, CHOOSE p \in DOMAIN @ : @[p] = c), c)]
    /\ nunlocked' = [nunlocked EXCEPT ![on] = IF ref[c] = 0 THEN @ - 1 ELSE @]
    /\ ref' = [ref EXCEPT ![c] = @ + 1]
    /\ cell' = c

\* "Doesn't matter if it might be a hit, it will get picked up the next time"
Refused == ~Forced /\ sz[on] > maxSz[on] /\ nunlocked[on] <= 0

GetCell ==
    /\ pc = "get" /\ list # <<>> /\ Wanted \notin touched /\ ~Refused
    /\ pc' = "shed"
    /\ UNCHANGED <<memVars, cacheVars, cellVars, searchVars, cell, todo, allocVars>>

Hit ==
    /\ pc = "lookup"
    /\ \E c \in HitSet(on, Wanted) : Lock(c)
    /\ pc' = "fetched"
    /\ UNCHANGED <<memVars, made, sz, hsize, tab, sref, ix, sx, ready, data,
                   searchVars, todo, allocVars>>

\* (bug variant: a forced fetch is not given memory beyond the limit)
Bug_NeverForced == sz[on] < maxSz[on]

MayGrow == sz[on] < maxSz[on] \/ (Forced /\ nunlocked[on] = 0)

Miss ==
    /\ pc = "lookup" /\ HitSet(on, Wanted) = {}
    /\ pc' = IF MayGrow THEN "grow" ELSE "reuse"
    /\ UNCHANGED <<memVars, cacheVars, cellVars, searchVars, cell, todo, allocVars>>

\* increase_revcache: a new cell at the bottom of the mru list
Grow(c) ==
    /\ pc = "grow" /\ Free(c)
    /\ mru'       = [mru EXCEPT ![on] = <<c>> \o @]
    /\ nunlocked' = [nunlocked EXCEPT ![on] = @ + 1]
    /\ sz'        = [sz EXCEPT ![on] = @ + CellSz]
    /\ cell' = c /\ retry' = FALSE
    /\ IF Overfull(on, Len(mru[on]) + 1)
       THEN pc' = "resize" /\ hsize' = [hsize EXCEPT ![on] = NextSize(on)]
       ELSE pc' = "place" /\ UNCHANGED hsize
    /\ UNCHANGED <<memVars, made, tab, sref, cellVars, searchVars, todo, back>>

\* (bug variant: the chains are copied over as they are)
Bug_CopyChains ==
    [h \in 0..(hsize[on] - 1) |-> IF h \in DOMAIN tab[on] THEN tab[on][h] ELSE {}]

\* every hashed cell under its hash of the new size
Rehashed ==
    [h \in 0..(hsize[on] - 1) |-> {c \in UNION Range(tab[on]) : Hash(on, ix[c]) = h}]

\* the larger hash index, allocated after cell_hash_size has been set
Resize ==
    /\ pc = "resize"
    /\ tab' = [tab EXCEPT ![on] = Rehashed]
    /\ sz'  = [sz EXCEPT ![on] = @ + (hsize[on] - Cardinality(DOMAIN tab[on])) * EntrySz]
    /\ pc' = "place" /\ retry' = FALSE
    /\ UNCHANGED <<memVars, made, mru, nunlocked, hsize, sref, cellVars, searchVars,
                   cell, todo, back>>

\* the least recently used unlocked cell is emptied and used for the new index
ReuseCell ==
    /\ pc = "reuse" /\ HasVictim(on)
    /\ LET c == mru[on][Victim(on)] IN
       /\ sz[on] - ContentsSz(on, c) < maxSz[on]
       /\ sz'   = [sz EXCEPT ![on] = @ - ContentsSz(on, c)]
       /\ sref' = [sref EXCEPT ![on] = SrefWithout(on, c)]
       /\ tab'  = [tab EXCEPT ![on] = TabWithout(on, c)]
       /\ sx'   = [sx EXCEPT ![c] = {}]
       /\ cell' = c
    /\ pc' = "place"
    /\ UNCHANGED <<memVars, made, mru, nunlocked, hsize, ix, ref, ready, data,
                   searchVars, todo, allocVars>>

\* ... or freed, when that does not bring the memory below the limit
ReuseFrees ==
    /\ pc = "reuse" /\ HasVictim(on)
    /\ sz[on] - ContentsSz(on, mru[on][Victim(on)]) >= maxSz[on]
    /\ Discard(on, Victim(on))
    /\ UNCHANGED <<memVars, searchVars, pc, cell, todo, allocVars>>

\* (bug variant: the chunk goes on without the cell there was no room for)
Bug_DropRefused == Tail(list)

\* rip is left at the cell there was no room for
RestOfList == list

\* get_fxcell returns NULL.  The list so far is searched as one chunk; with
\* nothing in it, search_list stops the program.
NoRoom ==
    /\ \/ pc = "get" /\ list # <<>> /\ Wanted \notin touched /\ Refused
       \/ pc = "reuse" /\ ~HasVictim(on)
    /\ pc' = IF Forced THEN "noMemory" ELSE "search"
    /\ list' = RestOfList
    /\ UNCHANGED <<memVars, cacheVars, cellVars, on, touched, stouched, lclist, cell,
                   todo, allocVars>>

\* (bug variant: what was loaded for the cell's last index is kept)
Bug_StillReady(c) == ready[c]

\* flags = 0: contents needs re-initializing
NotReady(c) == FALSE

\* the cell gets its index, is hashed under it, and locked
Place ==
    /\ pc = "place"
    /\ tab'   = [tab EXCEPT ![on][Hash(on, Wanted)] = @ \union {cell}]
    /\ ix'    = [ix EXCEPT ![cell] = Wanted]
    /\ ready' = [ready EXCEPT ![cell] = NotReady(cell)]
    /\ Lock(cell)
    /\ pc' = "fetched"
    /\ UNCHANGED <<memVars, made, sz, hsize, sref, sx, data, searchVars, todo, allocVars>>

(***************************************************************************)
(* search_list                                                             *)
(***************************************************************************)

StartSearch(i) ==
    /\ pc = "idle" /\ i \in insts
    /\ on' = i
    /\ list' \in Lists
    /\ pc' = "get"
    /\ UNCHANGED <<memVars, cacheVars, cellVars, touched, stouched, lclist,
                   cell, todo, allocVars>>

\* "If we have visited this cell before"
Skip ==
    /\ pc = "get" /\ list # <<>> /\ Wanted \in touched
    /\ list' = Tail(list)
    /\ UNCHANGED <<memVars, cacheVars, cellVars, on, touched, stouched, lclist, pc, cell,
                   todo, allocVars>>

\* uncache_fxcell
Unlock(c) ==
    /\ ref' = [ref EXCEPT ![c] = @ - 1]
    /\ nunlocked' = [nunlocked EXCEPT ![on] = IF ref[c] = 1 THEN @ + 1 ELSE @]

\* (bug variant: a cell that is not wanted stays locked)
Bug_RejectKeepsLock == UNCHANGED <<ref, nunlocked>>

RejectUnlocks == Unlock(cell)

\* The rest of get_fxcell, which loads a cell that is not ready, and setsort,
\* which has the cell searched or turned down.
SetSort ==
    /\ pc = "fetched"
    /\ data'    = [data EXCEPT ![cell] = IF ready[cell] THEN @ ELSE Wanted]
    /\ ready'   = [ready EXCEPT ![cell] = TRUE]
    /\ touched' = touched \union {Wanted}
    /\ list'    = Tail(list)
    /\ \/ lclist' = lclist \union {cell} /\ UNCHANGED <<ref, nunlocked>>
       \/ RejectUnlocks /\ UNCHANGED lclist
    /\ pc' = "get" /\ cell' = NoCell
    /\ UNCHANGED <<memVars, made, sz, mru, hsize, tab, sref, ix, sx, on, stouched, todo,
                   allocVars>>

ListEnds ==
    /\ pc = "get" /\ list = <<>>
    /\ pc' = "search"
    /\ UNCHANGED <<memVars, cacheVars, cellVars, searchVars, cell, todo, allocVars>>

\* the next cell of the chunk; one without simplexes is given them first
SearchCell(c) ==
    /\ pc = "search" /\ c \in lclist
    /\ cell' = c
    /\ IF sx[c] = {}
       THEN pc' = "alloc" /\ todo' = SimplexesOf[ix[c]]
       ELSE pc' = "compute" /\ todo' = {}
    /\ UNCHANGED <<memVars, cacheVars, cellVars, searchVars, allocVars>>

\* alloc_simplexes: the simplex is another cell's already
ShareSimplex(x) ==
    /\ pc = "alloc" /\ x \in todo /\ sref[on][x] > 0 /\ ~retry
    /\ sref' = [sref EXCEPT ![on][x] = @ + 1]
    /\ sx'   = [sx EXCEPT ![cell] = @ \union {x}]
    /\ todo' = todo \ {x}
    /\ UNCHANGED <<memVars, made, sz, mru, nunlocked, hsize, tab, ix, ref, ready, data,
                   searchVars, pc, cell, allocVars>>

\* (bug variant: nobody counts the cell it was made for)
Bug_NoFirstRef == 0

\* "x->refcount = 1"
FirstRef == 1

\* ... or is new, and not yet touched
NewSimplex(x) ==
    /\ pc = "alloc" /\ x \in todo /\ sref[on][x] = 0
    /\ sref'     = [sref EXCEPT ![on][x] = FirstRef]
    /\ sz'       = [sz EXCEPT ![on] = @ + SimplexSz]
    /\ sx'       = [sx EXCEPT ![cell] = @ \union {x}]
    /\ todo'     = todo \ {x}
    /\ stouched' = stouched \ {x}
    /\ pc' = "trim" /\ retry' = FALSE
    /\ UNCHANGED <<memVars, made, mru, nunlocked, hsize, tab, ix, ref, ready, data,
                   on, list, touched, lclist, cell, back>>

AllocDone ==
    /\ pc = "alloc" /\ todo = {}
    /\ pc' = "compute"
    /\ UNCHANGED <<memVars, cacheVars, cellVars, searchVars, cell, todo, allocVars>>

\* the cell is searched: done with
Leave(c) ==
    /\ Unlock(c)
    /\ lclist' = lclist \ {c}
    /\ cell' = NoCell
    /\ pc' = "search"
    /\ UNCHANGED <<memVars, made, sz, mru, hsize, tab, sref, ix, sx, ready, data,
                   on, list, touched, todo, allocVars>>

\* check: the goal cannot be improved on in this cell
PassOver(c) ==
    /\ pc = "search" /\ c \in lclist
    /\ Leave(c)
    /\ UNCHANGED stouched

\* The untouched simplexes of the cell are computed, or the first of them
\* already gave solutions enough.
Compute ==
    /\ pc = "compute"
    /\ stouched' \in {stouched \union sx[cell], stouched}
    /\ Leave(cell)

\* the next chunk, when the list is not used up
NextChunk ==
    /\ pc = "search" /\ lclist = {} /\ list # <<>>
    /\ pc' = "get"
    /\ UNCHANGED <<memVars, cacheVars, cellVars, searchVars, cell, todo, allocVars>>

\* The search is over.  The next one has touch counts of its own, so what
\* this one has touched is forgotten.
SearchDone ==
    /\ pc = "search" /\ lclist = {} /\ list = <<>>
    /\ pc' = "idle"
    /\ touched' = {} /\ stouched' = {}
    /\ UNCHANGED <<memVars, cacheVars, cellVars, on, list, lclist, cell, todo, allocVars>>

(***************************************************************************)
(* The specification                                                       *)
(***************************************************************************)

Init ==
    /\ avail = 0 /\ insts = {} /\ made = {}
    /\ base = [i \in Instances |-> 0]
    /\ sz = [i \in Instances |-> 0] /\ maxSz = [i \in Instances |-> 0]
    /\ mru = [i \in Instances |-> <<>>] /\ nunlocked = [i \in Instances |-> 0]
    /\ hsize = [i \in Instances |-> 0] /\ tab = [i \in Instances |-> <<>>]
    /\ sref = [i \in Instances |-> [x \in Simplexes |-> 0]]
    /\ ix = [c \in Cells |-> 0] /\ ref = [c \in Cells |-> 0] /\ sx = [c \in Cells |-> {}]
    /\ ready = [c \in Cells |-> FALSE] /\ data = [c \in Cells |-> NoIx]
    /\ on \in Instances /\ list = <<>> /\ touched = {} /\ stouched = {} /\ lclist = {}
    /\ pc = "idle" /\ cell = NoCell /\ todo = {}
    /\ back = "idle" /\ retry = FALSE

\* error() has stopped the program
Stopped == pc \in {"noMemory", "error"} /\ UNCHANGED vars

Caller == \E i \in Instances :
    MakeRev(i) \/ InitRevaccell(i) \/ Invalidate(i) \/ FreeRev(i) \/ StartSearch(i)

Lookup ==
    \/ \E i \in Instances : Shed(i)
    \/ ShedDone \/ ReduceDone \/ MallocFails
    \/ GetCell \/ Skip \/ NoRoom \/ Hit \/ Miss
    \/ \E c \in Cells : Grow(c)
    \/ Resize \/ ReuseCell \/ ReuseFrees \/ Place \/ SetSort \/ ListEnds
    \/ \E c \in Cells : SearchCell(c) \/ PassOver(c)
    \/ \E x \in Simplexes : ShareSimplex(x) \/ NewSimplex(x)
    \/ AllocDone \/ Compute \/ NextChunk \/ SearchDone

Next == Caller \/ Lookup \/ Stopped

Spec     == Init /\ [][Next]_vars
\* The program is one thread: a call that has begun goes on to its end.
FairSpec == Spec /\ WF_vars(Lookup)

(***************************************************************************)
(* Properties                                                              *)
(***************************************************************************)

InList(i)     == Range(mru[i])
Locked(i)     == {c \in InList(i) : ref[c] > 0}
Holders(i, x) == {c \in InList(i) : x \in sx[c]}
Resizing(i)   == i = on /\ (pc = "resize" \/ (pc = "reduce" /\ back = "resize"))

TypeOK ==
    /\ avail \in Nat /\ insts \subseteq made /\ made \subseteq Instances
    /\ base \in [Instances -> Nat]
    /\ sz \in [Instances -> Nat] /\ maxSz \in [Instances -> Nat]
    /\ mru \in [Instances -> Seq(Cells)] /\ nunlocked \in [Instances -> Nat]
    /\ hsize \in [Instances -> Nat]
    /\ \A i \in Instances : \A h \in DOMAIN tab[i] : h \in Nat /\ tab[i][h] \subseteq Cells
    /\ sref \in [Instances -> [Simplexes -> Nat]]
    /\ ix \in [Cells -> Ixs] /\ ref \in [Cells -> Nat] /\ sx \in [Cells -> SUBSET Simplexes]
    /\ ready \in [Cells -> BOOLEAN] /\ data \in [Cells -> Ixs \union {NoIx}]
    /\ on \in Instances /\ list \in Seq(Ixs) /\ touched \subseteq Ixs
    /\ stouched \subseteq Simplexes
    /\ lclist \subseteq Cells /\ cell \in Cells \union {NoCell} /\ todo \subseteq Simplexes
    /\ pc \in Pcs /\ back \in {"idle", "grow", "resize", "alloc"} /\ retry \in BOOLEAN

\* nunlocked, which decides whether a lookup throws cells out, grows the cache
\* or gives up, is the number of cells that may be thrown out; and the cells
\* locked are the ones the running search has in its list or in hand.
LocksCounted ==
    \A i \in Instances :
        /\ nunlocked[i] = Cardinality(InList(i) \ Locked(i))
        /\ Len(mru[i]) = Cardinality(InList(i))
        /\ Locked(i) = IF i # on THEN {}
                       ELSE lclist \union (IF pc = "fetched" THEN {cell} ELSE {})

\* A cell the search holds is in the cache under the index it was fetched for,
\* and carries the vertex values of that index once get_fxcell is done with it.
LockedAreCurrent ==
    \A c \in lclist :
        /\ c \in InList(on) /\ c \in UNION Range(tab[on])
        /\ ix[c] \in touched /\ ready[c] /\ data[c] = ix[c]

\* The hash chains hold cells of the cache and nothing else, each in the chain
\* of its index, and no two for one index: a lookup finds the one cell there is.
HashSound ==
    \A i \in made :
        Resizing(i) \/
            /\ DOMAIN tab[i] = 0..(hsize[i] - 1)
            /\ \A h \in DOMAIN tab[i] : \A c \in tab[i][h] :
                   /\ c \in InList(i) /\ Hash(i, ix[c]) = h
                   /\ \A d \in tab[i][h] : ix[d] = ix[c] => d = c

\* A simplex lives as long as a cell of the cache holds it: its reference count
\* is the number of those cells, and they all are cells it belongs to.
SimplexRefs ==
    \A i \in Instances : \A x \in Simplexes :
        /\ sref[i][x] = Cardinality(Holders(i, x))
        /\ \A c \in Holders(i, x) : x \in SimplexesOf[ix[c]]

\* What an instance says it holds is what it holds.  The memory limit works by
\* it: when a cell has been fetched the memory is within the share of the
\* instance, give or take that cell and a larger hash index, or nothing more
\* could be thrown out; and the shares keep to the limit together, unless
\* make_rev has set it anew since they were given out.
MemoryAccounted ==
    /\ \A i \in made :
          sz[i] = base[i] + EntrySz * Cardinality(DOMAIN tab[i])
                  + CellSz * Cardinality(InList(i))
                  + SimplexSz * Cardinality({x \in Simplexes : Holders(i, x) # {}})
    /\ pc = "fetched" =>
          \/ sz[on] <= maxSz[on] + CellSz + EntrySz * (hsize[on] - Primes[1])
          \/ nunlocked[on] = 0
    /\ \A i \in insts : maxSz[i] * Cardinality(insts) <= avail \/ avail = Ram

\* A cell the search has in its list stays where it is, whatever is thrown
\* out around it, until the search unlocks it.
LockedStay ==
    [][\A c \in lclist : ref'[c] > 0 => c \in InList(on)' /\ ix'[c] = ix[c]
                                        /\ sx[c] \subseteq sx'[c]]_vars

\* A fetch with "force" is there "so that we have at least one cell": a search
\* never stops the program for want of room for a single cell.
\* (rev.c:4645, 6149 and, at the stop, "This should never happen, because nz
\* force should prevent it", rev.c:1513)
ForceGivesACell == pc # "noMemory"

\* A search ends, in chunks when it must, and never for want of room for one
\* cell ("noMemory").
SearchEnds == pc = "get" ~> pc \in {"idle", "error"}

\* Every cell of the candidate list is looked at, also when the list is cut
\* into chunks in the middle.
CandidatesVisited ==
    \A x \in Ixs : (pc = "get" /\ x \in Range(list)) ~> (x \in touched \/ pc = "error")
=============================================================================
