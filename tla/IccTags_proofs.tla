--------------------------- MODULE IccTags_proofs ---------------------------
(***************************************************************************)
(* Proofs about the tag table of an icc object, for any number of tags,    *)
(* contents and elements, in three parts.                                  *)
(*                                                                         *)
(* Counts: an invariant about any object r the operations pass on, not     *)
(* only p, since get_size and write are chains of them.  Its table and     *)
(* counts fit (Fits), its other fields have their types (IsObject), and a  *)
(* temporary chad is a natural one (icc_add_tag_imp makes it so), which is *)
(* why icc_rem_temp_tags never removes it.                                 *)
(* Groups: the programs' tags are those of ProfileTags.  An unread tag is  *)
(* what lies at its place, so nothing may be shared with icclib's own tags *)
(* (Sound); each operation keeps the View the programs have, or changes it *)
(* as the abstract one does.                                               *)
(* White point: where it is kept (White), and that the tags icclib adds    *)
(* and takes away move it but do not change it (SameWhite).                *)
(***************************************************************************)
EXTENDS IccTags, FiniteSetTheorems, TLAPS

OwnersIn(tab, o) == {s \in DOMAIN tab : tab[s].obj = o}

\* The part of the invariant about the table and the counts.
Fits(tab, ref) ==
    /\ DOMAIN tab \subseteq Sigs
    /\ tab \in [DOMAIN tab -> Entries]
    /\ ref \in [Obj -> Nat]
    /\ \A o \in Obj : ref[o] = Cardinality(OwnersIn(tab, o))
    /\ \A s \in DOMAIN tab : tab[s].obj = NoObj => tab[s].at \in DOMAIN disk.data

Good(r) == /\ IsObject(r)
           /\ Fits(r.tab, r.ref)
           /\ r.tempChad => r.natural

Inv == /\ Good(p)
       /\ isOpen \in BOOLEAN
       /\ IsFile(disk)
       /\ ~isOpen => p.tab = <<>>

-----------------------------------------------------------------------------
(***************************************************************************)
(* Tables and counts.                                                      *)
(***************************************************************************)
\* There are finitely many tags, so the cardinalities are meaningful.
LEMMA SigsFinite == IsFiniteSet(Sigs)
<1>1. IsFiniteSet({"wtpt", "chad", "arts"})
  <2>1. IsFiniteSet({"wtpt"})
    BY FS_Singleton
  <2>2. IsFiniteSet({"wtpt"} \cup {"chad"})
    BY <2>1, FS_AddElement
  <2>3. IsFiniteSet(({"wtpt"} \cup {"chad"}) \cup {"arts"})
    BY <2>2, FS_AddElement
  <2>4. ({"wtpt"} \cup {"chad"}) \cup {"arts"} = {"wtpt", "chad", "arts"}
    OBVIOUS
  <2> QED BY <2>3, <2>4
<1> QED BY <1>1, FS_Union, PlainAssumption DEF Sigs

\* So are the tags of an element.
LEMMA OwnersFinite ==
    ASSUME NEW tab, DOMAIN tab \subseteq Sigs, NEW o
    PROVE  IsFiniteSet(OwnersIn(tab, o))
<1>1. OwnersIn(tab, o) \subseteq Sigs
  BY DEF OwnersIn
<1> QED BY <1>1, SigsFinite, FS_Subset

\* An element gains a tag: a new one, or one that was not loaded.
LEMMA Gain ==
    ASSUME NEW tab, NEW ref, Fits(tab, ref),
           NEW s \in Sigs, s \in DOMAIN tab => tab[s].obj = NoObj,
           NEW o \in Obj, NEW at \in Places \cup {NoPlace}
    PROVE  Fits(Put(tab, s, Tag(at, o)), [ref EXCEPT ![o] = @ + 1])
<1> DEFINE new == Put(tab, s, Tag(at, o))
           cnt == [ref EXCEPT ![o] = @ + 1]
<1>1. DOMAIN new = DOMAIN tab \cup {s}
  BY DEF Put
<1>2. new[s] = Tag(at, o) /\ \A t \in DOMAIN tab : t # s => new[t] = tab[t]
  BY DEF Put
<1>3. Tag(at, o) \in Entries /\ Tag(at, o).obj = o
  BY DEF Tag, Entries
<1>4. DOMAIN new \subseteq Sigs
  BY <1>1 DEF Fits
<1>5. new \in [DOMAIN new -> Entries]
  <2>1. \A t \in DOMAIN new : new[t] \in Entries
    BY <1>1, <1>2, <1>3 DEF Fits
  <2> QED BY <2>1 DEF Put
<1>6. cnt \in [Obj -> Nat]
  BY DEF Fits
<1>7. ASSUME NEW x \in Obj PROVE cnt[x] = Cardinality(OwnersIn(new, x))
  <2>1. CASE x = o
    <3>1. OwnersIn(new, o) = OwnersIn(tab, o) \cup {s}
      BY <1>1, <1>2, <1>3 DEF OwnersIn
    <3>2. s \notin OwnersIn(tab, o)
      BY ObjAssumption DEF OwnersIn
    <3>3. IsFiniteSet(OwnersIn(tab, o))
      BY OwnersFinite DEF Fits
    <3>4. Cardinality(OwnersIn(new, o)) = Cardinality(OwnersIn(tab, o)) + 1
      BY <3>1, <3>2, <3>3, FS_AddElement
    <3> QED BY <2>1, <3>4 DEF Fits
  <2>2. CASE x # o
    <3>1. OwnersIn(new, x) = OwnersIn(tab, x)
      BY <1>1, <1>2, <1>3, <2>2, ObjAssumption DEF OwnersIn
    <3> QED BY <2>2, <3>1 DEF Fits
  <2> QED BY <2>1, <2>2
<1>8. ASSUME NEW t \in DOMAIN new, new[t].obj = NoObj PROVE new[t].at \in DOMAIN disk.data
  BY <1>1, <1>2, <1>3, <1>8, ObjAssumption DEF Fits
<1> QED BY <1>4, <1>5, <1>6, <1>7, <1>8 DEF Fits

\* A tag goes, and its element, if it was loaded, loses it.
LEMMA Lose ==
    ASSUME NEW tab, NEW ref, Fits(tab, ref), NEW s \in DOMAIN tab
    PROVE  Fits(Restrict(tab, DOMAIN tab \ {s}),
                IF tab[s].obj = NoObj THEN ref ELSE [ref EXCEPT ![tab[s].obj] = @ - 1])
<1> DEFINE new == Restrict(tab, DOMAIN tab \ {s})
           o == tab[s].obj
           cnt == IF o = NoObj THEN ref ELSE [ref EXCEPT ![o] = @ - 1]
<1>1. DOMAIN new = DOMAIN tab \ {s}
  BY DEF Restrict
<1>2. \A t \in DOMAIN new : new[t] = tab[t]
  BY DEF Restrict
<1>3. new \in [DOMAIN new -> Entries]
  <2>1. \A t \in DOMAIN new : new[t] \in Entries
    BY <1>1, <1>2 DEF Fits
  <2> QED BY <2>1 DEF Restrict
<1>4. o \in Obj \cup {NoObj}
  BY DEF Fits, Entries
<1>5. ASSUME NEW x \in Obj PROVE cnt[x] = Cardinality(OwnersIn(new, x)) /\ cnt[x] \in Nat
  <2>1. CASE x = o
    <3>1. OwnersIn(new, x) = OwnersIn(tab, x) \ {s} /\ s \in OwnersIn(tab, x)
      BY <1>1, <1>2, <2>1 DEF OwnersIn
    <3>2. IsFiniteSet(OwnersIn(tab, x))
      BY OwnersFinite DEF Fits
    <3>3. Cardinality(OwnersIn(new, x)) = Cardinality(OwnersIn(tab, x)) - 1
      BY <3>1, <3>2, FS_RemoveElement
    <3>4. IsFiniteSet(OwnersIn(new, x))
      BY <3>1, <3>2, FS_Subset
    <3>5. Cardinality(OwnersIn(new, x)) \in Nat
      BY <3>4, FS_CardinalityType
    <3>6. cnt[x] = ref[x] - 1
      BY <2>1, ObjAssumption DEF Fits
    <3> QED BY <3>3, <3>5, <3>6 DEF Fits
  <2>2. CASE x # o
    <3>1. OwnersIn(new, x) = OwnersIn(tab, x)
      BY <1>1, <1>2, <2>2 DEF OwnersIn
    <3>2. cnt[x] = ref[x]
      BY <2>2, <1>4 DEF Fits
    <3> QED BY <3>1, <3>2 DEF Fits
  <2> QED BY <2>1, <2>2
<1>6. cnt \in [Obj -> Nat]
  <2>1. DOMAIN cnt = Obj /\ cnt = [x \in Obj |-> cnt[x]]
    BY DEF Fits
  <2> QED BY <2>1, <1>5
<1>7. DOMAIN new \subseteq Sigs
  BY <1>1 DEF Fits
<1>8. \A t \in DOMAIN new : new[t].obj = NoObj => new[t].at \in DOMAIN disk.data
  BY <1>1, <1>2 DEF Fits
<1> QED BY <1>3, <1>5, <1>6, <1>7, <1>8 DEF Fits

\* A loaded tag moves to a signature that is free: it goes and comes.
LEMMA Move ==
    ASSUME NEW tab, NEW ref, Fits(tab, ref), NEW s \in DOMAIN tab, tab[s].obj # NoObj,
           NEW new \in Sigs, new \notin DOMAIN tab
    PROVE  Fits(Put(Restrict(tab, DOMAIN tab \ {s}), new, tab[s]), ref)
<1> DEFINE o == tab[s].obj
           less == Restrict(tab, DOMAIN tab \ {s})
           down == [ref EXCEPT ![o] = @ - 1]
<1>1. o \in Obj /\ tab[s].at \in Places \cup {NoPlace} /\ tab[s] = Tag(tab[s].at, o)
  BY DEF Fits, Entries, Tag
<1>2. Fits(less, down)
  BY Lose
<1>3. new \notin DOMAIN less
  BY DEF Restrict
<1>4. Fits(Put(less, new, Tag(tab[s].at, o)), [down EXCEPT ![o] = @ + 1])
  <2> HIDE DEF less, down, o
  <2> QED BY <1>1, <1>2, <1>3, Gain
<1>5. [down EXCEPT ![o] = @ + 1] = ref
  <2>1. ref \in [Obj -> Nat]
    BY DEF Fits
  <2>2. ref[o] - 1 + 1 = ref[o]
    BY <1>1, <2>1
  <2> QED BY <1>1, <2>1, <2>2
<1> QED BY <1>1, <1>4, <1>5

\* The places of loaded tags do not matter to the counts.
LEMMA Replace ==
    ASSUME NEW tab, NEW ref, Fits(tab, ref), \A s \in DOMAIN tab : tab[s].obj # NoObj,
           NEW pos, \A s \in DOMAIN tab : pos[s] \in Places
    PROVE  Fits([s \in DOMAIN tab |-> Tag(pos[s], tab[s].obj)], ref)
<1> DEFINE new == [s \in DOMAIN tab |-> Tag(pos[s], tab[s].obj)]
<1>1. \A s \in DOMAIN tab : new[s].obj = tab[s].obj /\ new[s] \in Entries
  BY DEF Fits, Tag, Entries
<1>2. \A o \in Obj : OwnersIn(new, o) = OwnersIn(tab, o)
  BY <1>1 DEF OwnersIn
<1> QED BY <1>1, <1>2 DEF Fits

-----------------------------------------------------------------------------
(***************************************************************************)
(* The operations on an object.                                            *)
(***************************************************************************)
\* What the operations change of an object besides its table.
LEMMA Parts ==
    ASSUME NEW r
    PROVE  Good(r) <=>
              /\ r = [tab |-> r.tab, ref |-> r.ref, val |-> r.val, err |-> r.err,
                      created |-> r.created, useArts |-> r.useArts,
                      wrDChad |-> r.wrDChad, natural |-> r.natural,
                      mxValid |-> r.mxValid, chadmx |-> r.chadmx,
                      tempChad |-> r.tempChad, tempWP |-> r.tempWP]
              /\ Fits(r.tab, r.ref)
              /\ r.val \in [Obj -> Vals]
              /\ r.err \in BOOLEAN /\ r.created \in BOOLEAN /\ r.useArts \in BOOLEAN
              /\ r.wrDChad \in BOOLEAN /\ r.natural \in BOOLEAN /\ r.mxValid \in BOOLEAN
              /\ r.tempChad \in BOOLEAN /\ r.chadmx \in Vals /\ r.tempWP \in Vals
              /\ r.tempChad => r.natural
  BY DEF Good, IsObject, Fits

\* A new element has one tag; without memory for it nothing changes but err.
LEMMA NewFits ==
    ASSUME NEW r, Good(r), NEW s \in Sigs, ~Loaded(r, s),
           NEW at \in Places \cup {NoPlace}, NEW v \in Vals,
           NEW nat \in BOOLEAN, r.natural => nat
    PROVE  Good(WithNew(r, s, at, v, nat))
<1>1. CASE Free(r) = {}
  BY <1>1, Parts DEF WithNew, Good, IsObject
<1>2. CASE Free(r) # {}
  <2> DEFINE o == CHOOSE x \in Free(r) : TRUE
             q == WithNew(r, s, at, v, nat)
  <2>1. o \in Free(r)
    BY <1>2
  <2>2. o \in Obj /\ r.ref[o] = 0
    BY <2>1 DEF Free
  <2>3. q = [r EXCEPT !.tab = Put(@, s, Tag(at, o)), !.ref[o] = 1, !.val[o] = v,
                      !.natural = nat]
    BY <1>2 DEF WithNew
  <2> HIDE DEF o, q
  <2>4. Fits(Put(r.tab, s, Tag(at, o)), [r.ref EXCEPT ![o] = @ + 1])
    BY <2>2, Gain DEF Loaded, Has, Good
  <2>5. [r.ref EXCEPT ![o] = @ + 1] = [r.ref EXCEPT ![o] = 1]
    BY <2>2 DEF Good, Fits
  <2>6. q = [tab |-> Put(r.tab, s, Tag(at, o)), ref |-> [r.ref EXCEPT ![o] = 1],
             val |-> [r.val EXCEPT ![o] = v], err |-> r.err,
             created |-> r.created, useArts |-> r.useArts,
             wrDChad |-> r.wrDChad, natural |-> nat,
             mxValid |-> r.mxValid, chadmx |-> r.chadmx,
             tempChad |-> r.tempChad, tempWP |-> r.tempWP]
    BY <2>3 DEF Good, IsObject
  <2>7. [r.val EXCEPT ![o] = v] \in [Obj -> Vals]
    BY DEF Good, IsObject
  <2> QED BY <2>4, <2>5, <2>6, <2>7, Parts DEF q
<1> QED BY <1>1, <1>2

\* It is a loaded one.
LEMMA NewLoads ==
    ASSUME NEW r, Good(r), AllLoaded(r), NEW s \in Sigs, NEW at, NEW v, NEW nat
    PROVE  AllLoaded(WithNew(r, s, at, v, nat))
<1>1. CASE Free(r) = {}
  BY <1>1 DEF WithNew, AllLoaded, Good, IsObject
<1>2. CASE Free(r) # {}
  <2> DEFINE o == CHOOSE x \in Free(r) : TRUE
  <2>1. o \in Obj /\ o # NoObj
    BY <1>2, ObjAssumption DEF Free
  <2>2. WithNew(r, s, at, v, nat).tab = Put(r.tab, s, Tag(at, o))
    BY <1>2 DEF WithNew, Good, IsObject
  <2> HIDE DEF o
  <2> QED BY <2>1, <2>2 DEF AllLoaded, Put, Tag
<1> QED BY <1>1, <1>2

\* A tag that shares the element of another.
LEMMA ShareFits ==
    ASSUME NEW r, Good(r), NEW s \in Sigs, ~Loaded(r, s), NEW k, Loaded(r, k),
           NEW at \in Places \cup {NoPlace}
    PROVE  /\ Good(Share(r, s, at, k))
           /\ AllLoaded(r) => AllLoaded(Share(r, s, at, k))
<1> DEFINE o == r.tab[k].obj
           q == Share(r, s, at, k)
<1>1. o \in Obj
  BY DEF Loaded, Has, Good, Fits, Entries
<1>2. q = [tab |-> Put(r.tab, s, Tag(at, o)), ref |-> [r.ref EXCEPT ![o] = @ + 1],
           val |-> r.val, err |-> r.err, created |-> r.created, useArts |-> r.useArts,
           wrDChad |-> r.wrDChad, natural |-> r.natural, mxValid |-> r.mxValid,
           chadmx |-> r.chadmx, tempChad |-> r.tempChad, tempWP |-> r.tempWP]
  <2>1. q = [r EXCEPT !.tab = Put(@, s, Tag(at, o)), !.ref[o] = @ + 1]
    BY DEF Share
  <2> HIDE DEF q, o
  <2> QED BY <2>1 DEF Good, IsObject
<1>3. Fits(Put(r.tab, s, Tag(at, o)), [r.ref EXCEPT ![o] = @ + 1])
  BY <1>1, Gain DEF Loaded, Has, Good
<1> HIDE DEF o, q
<1>4. Good(q)
  BY <1>2, <1>3, Parts
<1>5. ASSUME AllLoaded(r) PROVE AllLoaded(q)
  BY <1>1, <1>2, <1>5, ObjAssumption DEF AllLoaded, Put, Tag
<1> QED BY <1>4, <1>5 DEF q

\* A tag that is read shares the element of a peer or gets one of its own; a
\* loaded one stays as it is.
LEMMA ReadFits ==
    ASSUME NEW r, Good(r), IsFile(disk), NEW s \in Sigs
    PROVE  Good(ReadTag(r, s)) /\ (AllLoaded(r) => ReadTag(r, s) = r)
<1>1. CASE ~Has(r, s) \/ Loaded(r, s)
  BY <1>1 DEF ReadTag
<1>2. CASE Has(r, s) /\ ~Loaded(r, s)
  <2>1. ~AllLoaded(r)
    BY <1>2 DEF AllLoaded, Has, Loaded
  <2>2. r.tab[s].at \in Places \cup {NoPlace} /\ r.tab[s].at \in DOMAIN disk.data
    BY <1>2 DEF Has, Loaded, Good, Fits, Entries
  <2>3. CASE Peers(r, s) # {}
    <3> DEFINE k == CHOOSE k \in Peers(r, s) : TRUE
    <3>1. Loaded(r, k)
      BY <2>3 DEF Peers
    <3>2. ReadTag(r, s) = Share(r, s, r.tab[s].at, k)
      BY <1>2, <2>3 DEF ReadTag
    <3> HIDE DEF k
    <3> QED BY <1>2, <2>1, <2>2, <3>1, <3>2, ShareFits
  <2>4. CASE Peers(r, s) = {}
    <3>1. ReadTag(r, s) = WithNew(r, s, r.tab[s].at, disk.data[r.tab[s].at], r.natural)
      BY <1>2, <2>4 DEF ReadTag
    <3>2. disk.data[r.tab[s].at] \in Vals
      BY <2>2 DEF IsFile
    <3>3. r.natural \in BOOLEAN
      BY DEF Good, IsObject
    <3> QED BY <1>2, <2>1, <2>2, <3>1, <3>2, <3>3, NewFits
  <2> QED BY <2>3, <2>4
<1> QED BY <1>1, <1>2

\* A tag that is added.
LEMMA AddFits ==
    ASSUME NEW r, Good(r), NEW s \in Sigs, ~Has(r, s), NEW v \in Vals
    PROVE  /\ Good(AddTag(r, s, v))
           /\ AllLoaded(r) => AllLoaded(AddTag(r, s, v))
<1>1. r.natural \in BOOLEAN
  BY DEF Good, IsObject
<1>2. (r.natural \/ s = "chad") \in BOOLEAN
  OBVIOUS
<1>3. Good(WithNew(r, s, NoPlace, v, r.natural \/ s = "chad"))
  BY <1>1, <1>2, NewFits DEF Loaded
<1>4. AllLoaded(r) => AllLoaded(WithNew(r, s, NoPlace, v, r.natural \/ s = "chad"))
  BY NewLoads
<1> QED BY <1>3, <1>4 DEF AddTag

\* A tag that is deleted, unless it is the temporary chad.
LEMMA DeleteFits ==
    ASSUME NEW r, Good(r), NEW s \in Sigs, s = "chad" => ~r.tempChad
    PROVE  /\ Good(DeleteTag(r, s))
           /\ AllLoaded(r) => AllLoaded(DeleteTag(r, s))
           /\ ~Has(DeleteTag(r, s), s)
           /\ DeleteTag(r, s).tempChad = r.tempChad
<1>1. CASE ~Has(r, s)
  BY <1>1 DEF DeleteTag
<1>2. CASE Has(r, s)
  <2> DEFINE o == r.tab[s].obj
             less == Restrict(r.tab, DOMAIN r.tab \ {s})
             cnt == IF o = NoObj THEN r.ref ELSE [r.ref EXCEPT ![o] = @ - 1]
             val == IF o = NoObj THEN r.val
                    ELSE [r.val EXCEPT ![o] = IF r.ref[o] = 1 THEN "zero" ELSE @]
             q == DeleteTag(r, s)
  <2>1. Fits(less, cnt)
    BY <1>2, Lose DEF Has, Good
  <2>2. val \in [Obj -> Vals]
    <3>1. "zero" \in Vals
      BY DEF Vals
    <3> QED BY <3>1 DEF Good, IsObject
  <2>3. q = [tab |-> less, ref |-> cnt, val |-> val, err |-> r.err,
             created |-> r.created, useArts |-> r.useArts, wrDChad |-> r.wrDChad,
             natural |-> r.natural /\ s # "chad", mxValid |-> r.mxValid,
             chadmx |-> r.chadmx, tempChad |-> r.tempChad, tempWP |-> r.tempWP]
    <3>1. CASE o = NoObj
      BY <1>2, <3>1 DEF DeleteTag, Drop, Loaded, Good, IsObject
    <3>2. CASE o # NoObj
      BY <1>2, <3>2 DEF DeleteTag, Drop, Loaded, Good, IsObject
    <3> QED BY <3>1, <3>2
  <2>4. DOMAIN less = DOMAIN r.tab \ {s} /\ \A t \in DOMAIN less : less[t] = r.tab[t]
    BY DEF Restrict
  <2> HIDE DEF less, cnt, val, q, o
  <2>5. (r.natural /\ s # "chad") \in BOOLEAN
    OBVIOUS
  <2>6. r.tempChad => r.natural /\ s # "chad"
    BY DEF Good
  <2>7. Good(q)
    <3>1. q.natural = (r.natural /\ s # "chad")
      BY <2>3
    <3> QED BY <2>1, <2>2, <2>3, <2>5, <2>6, <3>1, Parts
  <2>8. AllLoaded(r) => AllLoaded(q)
    BY <2>3, <2>4 DEF AllLoaded
  <2>9. ~Has(q, s) /\ q.tempChad = r.tempChad
    BY <2>3, <2>4 DEF Has
  <2> QED BY <2>7, <2>8, <2>9 DEF q
<1> QED BY <1>1, <1>2

\* Without an error the tag asked for is loaded; nothing but the table, the
\* counts and the contents of elements changes.
LEMMA ReadLoads ==
    ASSUME NEW r, Good(r), NEW s \in Sigs
    PROVE  /\ Has(r, s) /\ ~ReadTag(r, s).err => Loaded(ReadTag(r, s), s)
           /\ ReadTag(r, s).natural = r.natural
           /\ ReadTag(r, s).tempChad = r.tempChad
<1>1. CASE ~Has(r, s) \/ Loaded(r, s)
  BY <1>1 DEF ReadTag
<1>2. CASE Has(r, s) /\ ~Loaded(r, s)
  <2>1. CASE Peers(r, s) # {}
    <3> DEFINE k == CHOOSE k \in Peers(r, s) : TRUE
               q == ReadTag(r, s)
    <3>1. Loaded(r, k) /\ r.tab[k].obj # NoObj
      BY <2>1 DEF Peers, Loaded
    <3>2. q = [r EXCEPT !.tab = Put(@, s, Tag(r.tab[s].at, r.tab[k].obj)),
                        !.ref[r.tab[k].obj] = @ + 1]
      BY <1>2, <2>1 DEF ReadTag, Share
    <3> HIDE DEF k, q
    <3>3. /\ q.tab = Put(r.tab, s, Tag(r.tab[s].at, r.tab[k].obj))
          /\ q.natural = r.natural /\ q.tempChad = r.tempChad
      BY <3>2 DEF Good, IsObject
    <3>4. Loaded(q, s)
      BY <3>1, <3>3 DEF Loaded, Has, Put, Tag
    <3> QED BY <3>3, <3>4 DEF q
  <2>2. CASE Peers(r, s) = {}
    <3> DEFINE q == ReadTag(r, s)
               o == CHOOSE x \in Free(r) : TRUE
               v == disk.data[r.tab[s].at]
    <3>1. q = WithNew(r, s, r.tab[s].at, v, r.natural)
      BY <1>2, <2>2 DEF ReadTag
    <3>2. CASE Free(r) = {}
      <4>1. q = [r EXCEPT !.err = TRUE]
        BY <3>1, <3>2 DEF WithNew
      <4> HIDE DEF q
      <4>2. q.err = TRUE /\ q.natural = r.natural /\ q.tempChad = r.tempChad
        BY <4>1 DEF Good, IsObject
      <4> QED BY <4>2 DEF q
    <3>3. CASE Free(r) # {}
      <4>1. o \in Obj /\ o # NoObj
        BY <3>3, ObjAssumption DEF Free
      <4>2. q = [r EXCEPT !.tab = Put(@, s, Tag(r.tab[s].at, o)), !.ref[o] = 1,
                          !.val[o] = v, !.natural = r.natural]
        BY <3>1, <3>3 DEF WithNew
      <4> HIDE DEF q, o, v
      <4>3. /\ q.tab = Put(r.tab, s, Tag(r.tab[s].at, o))
            /\ q.natural = r.natural /\ q.tempChad = r.tempChad
        BY <4>2 DEF Good, IsObject
      <4>4. Loaded(q, s)
        BY <4>1, <4>3 DEF Loaded, Has, Put, Tag
      <4> QED BY <4>3, <4>4 DEF q
    <3> QED BY <3>2, <3>3
  <2> QED BY <2>1, <2>2
<1> QED BY <1>1, <1>2

\* Adding arts.
LEMMA ArtsFits ==
    ASSUME NEW r, Good(r), IsFile(disk)
    PROVE  Good(AddArts(r)) /\ (AllLoaded(r) => AllLoaded(AddArts(r)))
<1> DEFINE q == ReadTag(r, "arts")
<1>1. "arts" \in Sigs /\ "cone" \in Vals
  BY DEF Sigs, Vals
<1>2. Good(q) /\ (AllLoaded(r) => q = r)
  BY <1>1, ReadFits
<1>3. CASE AddArts(r) = r
  BY <1>3
<1>4. CASE AddArts(r) = q
  BY <1>2, <1>4
<1>5. CASE ~Has(q, "arts") /\ AddArts(r) = AddTag(q, "arts", "cone")
  <2> HIDE DEF q
  <2> QED BY <1>1, <1>2, <1>5, AddFits
<1> QED BY <1>3, <1>4, <1>5 DEF AddArts

\* A chad that was added counts as a natural one.
LEMMA AddedChad ==
    ASSUME NEW r, Good(r), NEW v, ~AddTag(r, "chad", v).err
    PROVE  AddTag(r, "chad", v).natural = TRUE
<1> DEFINE q == AddTag(r, "chad", v)
           o == CHOOSE x \in Free(r) : TRUE
           nat == r.natural \/ "chad" = "chad"
<1>1. CASE Free(r) = {}
  <2>1. q = [r EXCEPT !.err = TRUE]
    BY <1>1 DEF AddTag, WithNew
  <2> HIDE DEF q
  <2>2. q.err = TRUE
    BY <2>1 DEF Good, IsObject
  <2> QED BY <2>2 DEF q
<1>2. CASE Free(r) # {}
  <2>1. q = [r EXCEPT !.tab = Put(@, "chad", Tag(NoPlace, o)), !.ref[o] = 1, !.val[o] = v,
                      !.natural = nat]
    BY <1>2 DEF AddTag, WithNew
  <2> HIDE DEF q, o, nat
  <2>2. q.natural = nat
    BY <2>1 DEF Good, IsObject
  <2>3. nat = TRUE
    BY DEF nat
  <2> QED BY <2>2, <2>3 DEF q
<1> QED BY <1>1, <1>2

\* Adding chad and, in a write, moving the white point there.
LEMMA ChadFits ==
    ASSUME NEW r, Good(r), IsFile(disk), NEW wr \in BOOLEAN
    PROVE  Good(AddChad(r, wr)) /\ (AllLoaded(r) => AllLoaded(AddChad(r, wr)))
<1> DEFINE q == ReadTag(r, "wtpt")
           wp == Value(q, "wtpt")
           mx == IF q.mxValid THEN q.chadmx ELSE wp
           x == [q EXCEPT !.mxValid = TRUE, !.chadmx = mx]
           y == DeleteTag(x, "chad")
           v == IF wr THEN mx ELSE "zero"
           d == AddTag(y, "chad", v)
<1>1. CASE ~(r.wrDChad /\ ~r.natural /\ Has(r, "wtpt"))
  BY <1>1 DEF AddChad
<1>2. CASE r.wrDChad /\ ~r.natural /\ Has(r, "wtpt")
  <2>1. {"wtpt", "chad"} \subseteq Sigs /\ {"zero", "D50"} \subseteq Vals
    BY DEF Sigs, Vals
  <2>2. Good(q) /\ (AllLoaded(r) => q = r)
    BY <2>1, ReadFits
  <2>3. q.natural = r.natural /\ (~q.err => Loaded(q, "wtpt"))
    BY <1>2, <2>1, ReadLoads
  <2>4. CASE q.err
    BY <1>2, <2>2, <2>4 DEF AddChad
  <2>5. CASE ~q.err
    <3>1. wp \in Vals
      <4> HIDE DEF q
      <4> QED BY <2>2, <2>3, <2>5 DEF Value, Loaded, Has, Good, IsObject, Fits, Entries
    <3>2. mx \in Vals
      <4> HIDE DEF q, wp
      <4> QED BY <2>2, <3>1 DEF Good, IsObject
    <3>3. Good(x) /\ x.tempChad = FALSE /\ x.tab = q.tab
      <4> HIDE DEF q, mx
      <4>1. x = [tab |-> q.tab, ref |-> q.ref, val |-> q.val, err |-> q.err,
                 created |-> q.created, useArts |-> q.useArts,
                 wrDChad |-> q.wrDChad, natural |-> q.natural, mxValid |-> TRUE,
                 chadmx |-> mx, tempChad |-> q.tempChad, tempWP |-> q.tempWP]
        <5>1. x = [q EXCEPT !.mxValid = TRUE, !.chadmx = mx]
          OBVIOUS
        <5> HIDE DEF x
        <5> QED BY <2>2, <5>1 DEF Good, IsObject
      <4> HIDE DEF x
      <4>2. Good(x)
        BY <2>2, <3>2, <4>1, Parts
      <4>3. q.tempChad = FALSE
        BY <1>2, <2>2, <2>3, Parts
      <4> QED BY <4>1, <4>2, <4>3
    <3>4. AllLoaded(r) => AllLoaded(x)
      BY <2>2, <3>3 DEF AllLoaded
    <3>5. /\ Good(y) /\ ~Has(y, "chad") /\ y.tempChad = FALSE
          /\ AllLoaded(x) => AllLoaded(y)
      <4> HIDE DEF x
      <4> QED BY <2>1, <3>3, DeleteFits
    <3>6. v \in Vals
      BY <2>1, <3>2
    <3>7. Good(d) /\ (AllLoaded(y) => AllLoaded(d))
      <4> HIDE DEF y, v
      <4> QED BY <2>1, <3>5, <3>6, AddFits
    <3>8. CASE d.err
      <4>1. AddChad(r, wr) = d
        BY <1>2, <2>5, <3>8 DEF AddChad
      <4> QED BY <3>4, <3>5, <3>7, <4>1
    <3>9. CASE ~d.err
      <4>1. d.natural = TRUE
        <5> HIDE DEF y, v
        <5> QED BY <3>5, <3>9, AddedChad
      <4>2. AddChad(r, wr) = IF ~wr THEN [d EXCEPT !.tempChad = TRUE]
                             ELSE [d EXCEPT !.tempChad = TRUE, !.tempWP = wp,
                                            !.val[d.tab["wtpt"].obj] = "D50"]
        BY <1>2, <2>5, <3>9 DEF AddChad
      <4> HIDE DEF d, wp
      <4>3. CASE ~wr
        <5> DEFINE e == [d EXCEPT !.tempChad = TRUE]
        <5>1. e = [tab |-> d.tab, ref |-> d.ref, val |-> d.val, err |-> d.err,
                   created |-> d.created, useArts |-> d.useArts,
                   wrDChad |-> d.wrDChad, natural |-> d.natural, mxValid |-> d.mxValid,
                   chadmx |-> d.chadmx, tempChad |-> TRUE, tempWP |-> d.tempWP]
          <6>1. e = [d EXCEPT !.tempChad = TRUE]
            OBVIOUS
          <6> HIDE DEF e
          <6> QED BY <3>7, <6>1 DEF Good, IsObject
        <5>2. AddChad(r, wr) = e
          BY <4>2, <4>3
        <5> HIDE DEF e
        <5>3. Good(e) /\ e.tab = d.tab
          BY <3>7, <4>1, <5>1, Parts
        <5> QED BY <3>4, <3>5, <3>7, <5>2, <5>3 DEF AllLoaded
      <4>4. CASE wr
        <5> DEFINE val == [d.val EXCEPT ![d.tab["wtpt"].obj] = "D50"]
                   e == [d EXCEPT !.tempChad = TRUE, !.tempWP = wp,
                                  !.val[d.tab["wtpt"].obj] = "D50"]
        <5>1. e = [tab |-> d.tab, ref |-> d.ref, val |-> val, err |-> d.err,
                   created |-> d.created, useArts |-> d.useArts,
                   wrDChad |-> d.wrDChad, natural |-> d.natural, mxValid |-> d.mxValid,
                   chadmx |-> d.chadmx, tempChad |-> TRUE, tempWP |-> wp]
          <6>1. e = [d EXCEPT !.tempChad = TRUE, !.tempWP = wp,
                              !.val[d.tab["wtpt"].obj] = "D50"]
            OBVIOUS
          <6> HIDE DEF e
          <6> QED BY <3>7, <6>1 DEF Good, IsObject
        <5>2. AddChad(r, wr) = e
          BY <4>2, <4>4
        <5>3. val \in [Obj -> Vals]
          BY <2>1, <3>7 DEF Good, IsObject
        <5> HIDE DEF e, val
        <5>4. Good(e) /\ e.tab = d.tab
          BY <3>1, <3>7, <4>1, <5>1, <5>3, Parts
        <5> QED BY <3>4, <3>5, <3>7, <5>2, <5>4 DEF AllLoaded
      <4> QED BY <4>3, <4>4
    <3> QED BY <3>8, <3>9
  <2> QED BY <2>4, <2>5
<1> QED BY <1>1, <1>2

\* Both.
LEMMA AutoFits ==
    ASSUME NEW r, Good(r), IsFile(disk), NEW wr \in BOOLEAN
    PROVE  Good(AddAutoTags(r, wr)) /\ (AllLoaded(r) => AllLoaded(AddAutoTags(r, wr)))
<1> DEFINE q == AddArts(r)
<1>1. Good(q) /\ (AllLoaded(r) => AllLoaded(q))
  BY ArtsFits
<1>2. CASE q.err
  BY <1>1, <1>2 DEF AddAutoTags
<1>3. CASE ~q.err
  <2>1. AddAutoTags(r, wr) = AddChad(q, wr)
    BY <1>3 DEF AddAutoTags
  <2> HIDE DEF q
  <2> QED BY <1>1, <2>1, ChadFits
<1> QED BY <1>2, <1>3

\* As a temporary chad counts as natural, nothing temporary is removed.
LEMMA NothingRemoved ==
    ASSUME NEW r, Good(r)
    PROVE  RemTempTags(r) = r
  BY DEF RemTempTags, Good

\* Every tag gets a place that has an element.
LEMMA LayoutFits ==
    ASSUME NEW r, Good(r), AllLoaded(r)
    PROVE  /\ Good(Layout(r)) /\ AllLoaded(Layout(r))
           /\ \A s \in DOMAIN Layout(r).tab : Layout(r).tab[s].at \in DOMAIN Layout(r).tab
<1> DEFINE pos == [s \in DOMAIN r.tab |-> CHOOSE t \in DOMAIN r.tab : r.tab[t].obj = r.tab[s].obj]
           tab == [s \in DOMAIN r.tab |-> Tag(pos[s], r.tab[s].obj)]
           q == Layout(r)
<1>1. \A s \in DOMAIN r.tab : pos[s] \in DOMAIN r.tab
  OBVIOUS
<1>2. DOMAIN r.tab \subseteq Places
  BY DEF Good, Fits, Places
<1>3. Fits(tab, r.ref)
  <2> HIDE DEF pos
  <2> QED BY <1>1, <1>2, Replace DEF AllLoaded, Good
<1>4. q = [r EXCEPT !.tab = tab]
  <2>1. tab = [s \in DOMAIN r.tab |->
                 Tag(CHOOSE t \in DOMAIN r.tab : r.tab[t].obj = r.tab[s].obj, r.tab[s].obj)]
    OBVIOUS
  <2> HIDE DEF tab
  <2> QED BY <2>1 DEF Layout
<1>5. \A s \in DOMAIN tab : tab[s].obj = r.tab[s].obj /\ tab[s].at \in DOMAIN tab
  <2> HIDE DEF pos
  <2> QED BY <1>1 DEF Tag
<1>6. DOMAIN tab = DOMAIN r.tab
  OBVIOUS
<1> HIDE DEF pos, tab, q
<1>7. q = [tab |-> tab, ref |-> r.ref, val |-> r.val, err |-> r.err,
           created |-> r.created, useArts |-> r.useArts, wrDChad |-> r.wrDChad,
           natural |-> r.natural, mxValid |-> r.mxValid, chadmx |-> r.chadmx,
           tempChad |-> r.tempChad, tempWP |-> r.tempWP]
  BY <1>4 DEF Good, IsObject
<1>8. Good(q)
  BY <1>3, <1>7, Parts
<1>9. AllLoaded(q) /\ \A s \in DOMAIN q.tab : q.tab[s].at \in DOMAIN q.tab
  BY <1>5, <1>6, <1>7 DEF AllLoaded
<1> QED BY <1>8, <1>9 DEF q

\* An error recorded in the object.
LEMMA ErrFits ==
    ASSUME NEW r, Good(r)
    PROVE  Good([r EXCEPT !.err = TRUE]) /\ [r EXCEPT !.err = TRUE].tab = r.tab
           /\ [r EXCEPT !.err = TRUE].err = TRUE
<1> DEFINE q == [r EXCEPT !.err = TRUE]
<1>1. q = [tab |-> r.tab, ref |-> r.ref, val |-> r.val, err |-> TRUE,
           created |-> r.created, useArts |-> r.useArts, wrDChad |-> r.wrDChad,
           natural |-> r.natural, mxValid |-> r.mxValid, chadmx |-> r.chadmx,
           tempChad |-> r.tempChad, tempWP |-> r.tempWP]
  <2>1. q = [r EXCEPT !.err = TRUE]
    OBVIOUS
  <2> HIDE DEF q
  <2> QED BY <2>1 DEF Good, IsObject
<1> HIDE DEF q
<1>2. Good(q)
  BY <1>1, Parts
<1> QED BY <1>1, <1>2 DEF q

\* Without an error there is a place for every tag, and an element at it.
LEMMA SizeFits ==
    ASSUME NEW r, Good(r), IsFile(disk)
    PROVE  /\ Good(GetSize(r))
           /\ AllLoaded(r) => AllLoaded(GetSize(r))
           /\ ~GetSize(r).err =>
                 \A s \in DOMAIN GetSize(r).tab : /\ GetSize(r).tab[s].at \in DOMAIN GetSize(r).tab
                                                  /\ GetSize(r).tab[s].obj # NoObj
<1> DEFINE q == AddAutoTags(r, FALSE)
<1>1. Good(q) /\ (AllLoaded(r) => AllLoaded(q))
  BY AutoFits
<1>2. CASE AllLoaded(q)
  <2>1. GetSize(r) = RemTempTags(Layout(q))
    BY <1>2 DEF GetSize
  <2> HIDE DEF q
  <2>2. GetSize(r) = Layout(q)
    BY <1>1, <1>2, <2>1, LayoutFits, NothingRemoved
  <2> QED BY <1>1, <1>2, <2>2, LayoutFits DEF AllLoaded
<1>3. CASE ~AllLoaded(q)
  <2>1. GetSize(r) = RemTempTags([q EXCEPT !.err = TRUE])
    BY <1>3 DEF GetSize
  <2> HIDE DEF q
  <2>2. GetSize(r) = [q EXCEPT !.err = TRUE]
    BY <1>1, <2>1, ErrFits, NothingRemoved
  <2>3. GetSize(r).err = TRUE
    BY <1>1, <2>2, ErrFits
  <2> QED BY <1>1, <1>3, <2>2, <2>3, ErrFits
<1> QED BY <1>2, <1>3

\* What is then written is a file.
LEMMA FileFits ==
    ASSUME NEW z, Good(z),
           \A s \in DOMAIN z.tab : z.tab[s].at \in DOMAIN z.tab /\ z.tab[s].obj # NoObj
    PROVE  IsFile(FileOf(z))
<1> DEFINE places == {z.tab[s].at : s \in DOMAIN z.tab}
           tab == [s \in DOMAIN z.tab |-> z.tab[s].at]
           data == [q \in places |-> Value(z, q)]
<1>1. places \subseteq DOMAIN z.tab /\ DOMAIN z.tab \subseteq Sigs
  BY DEF Good, Fits
<1>2. tab \in [DOMAIN z.tab -> places]
  OBVIOUS
<1>3. data \in [places -> Vals]
  <2>1. ASSUME NEW q \in places PROVE Value(z, q) \in Vals
    <3>1. z.tab[q].obj \in Obj
      BY <1>1 DEF Good, Fits, Entries
    <3> QED BY <3>1 DEF Value, Good, IsObject
  <2> QED BY <2>1
<1>4. FileOf(z) = [ok |-> TRUE, tab |-> tab, data |-> data]
  BY DEF FileOf
<1>5. DOMAIN tab = DOMAIN z.tab /\ DOMAIN data = places
  OBVIOUS
<1> HIDE DEF places, tab, data
<1> QED BY <1>1, <1>2, <1>3, <1>4, <1>5 DEF IsFile, Places

-----------------------------------------------------------------------------
(***************************************************************************)
(* The steps of a program.                                                 *)
(***************************************************************************)
\* An object just made.
LEMMA BlankFits ==
    ASSUME NEW ref \in [Obj -> Nat], \A o \in Obj : ref[o] = 0,
           NEW val \in [Obj -> Vals], NEW wrD \in BOOLEAN
    PROVE  Good(Blank(ref, val, wrD))
<1> DEFINE q == Blank(ref, val, wrD)
<1>1. q = [tab |-> <<>>, ref |-> ref, val |-> val, err |-> FALSE, created |-> FALSE,
           useArts |-> TRUE, wrDChad |-> wrD, natural |-> FALSE, mxValid |-> FALSE,
           chadmx |-> "D50", tempChad |-> FALSE, tempWP |-> "D50"]
  BY DEF Blank
<1>2. Fits(<<>>, ref)
  <2>1. DOMAIN <<>> = {}
    OBVIOUS
  <2>2. <<>> \in [DOMAIN <<>> -> Entries]
    BY <2>1
  <2>3. \A o \in Obj : OwnersIn(<<>>, o) = {}
    BY <2>1 DEF OwnersIn
  <2>4. Cardinality({}) = 0
    BY FS_EmptySet
  <2>5. \A o \in Obj : ref[o] = Cardinality(OwnersIn(<<>>, o))
    BY <2>3, <2>4
  <2> QED BY <2>1, <2>2, <2>5 DEF Fits
<1>3. "D50" \in Vals
  BY DEF Vals
<1> HIDE DEF q
<1>4. Good(q)
  BY <1>1, <1>2, <1>3, Parts
<1> QED BY <1>4 DEF q

\* An object that is deleted has no element left.
LEMMA Emptied ==
    ASSUME Inv, ~isOpen
    PROVE  \A o \in Obj : p.ref[o] = 0
<1>1. \A o \in Obj : OwnersIn(p.tab, o) = {}
  BY DEF Inv, OwnersIn
<1>2. Cardinality({}) = 0
  BY FS_EmptySet
<1> QED BY <1>1, <1>2 DEF Inv, Good, Fits

\* The table of a file that has just been read: no tag is loaded.
LEMMA TableFits ==
    ASSUME NEW r, Good(r), \A o \in Obj : r.ref[o] = 0, IsFile(disk)
    PROVE  Good(ReadTable(r))
<1> DEFINE tab == [s \in DOMAIN disk.tab |-> Tag(disk.tab[s], NoObj)]
           q == ReadTable(r)
<1>1. q = [r EXCEPT !.tab = tab]
  BY DEF ReadTable
<1>2. \A s \in DOMAIN tab : tab[s].obj = NoObj /\ tab[s].at \in DOMAIN disk.data
  BY DEF Tag, IsFile
<1>3. tab \in [DOMAIN tab -> Entries] /\ DOMAIN tab \subseteq Sigs
  <2>1. \A s \in DOMAIN disk.tab : disk.tab[s] \in Places
    BY DEF IsFile
  <2> QED BY <2>1 DEF Tag, Entries, IsFile
<1>4. \A o \in Obj : OwnersIn(tab, o) = {}
  <2> HIDE DEF tab
  <2> QED BY <1>2, ObjAssumption DEF OwnersIn
<1>5. Cardinality({}) = 0
  BY FS_EmptySet
<1> HIDE DEF tab, q
<1>6. Fits(tab, r.ref)
  <2>1. \A o \in Obj : r.ref[o] = Cardinality(OwnersIn(tab, o))
    BY <1>4, <1>5
  <2> QED BY <1>2, <1>3, <2>1 DEF Fits, Good
<1>7. q = [tab |-> tab, ref |-> r.ref, val |-> r.val, err |-> r.err,
           created |-> r.created, useArts |-> r.useArts, wrDChad |-> r.wrDChad,
           natural |-> r.natural, mxValid |-> r.mxValid, chadmx |-> r.chadmx,
           tempChad |-> r.tempChad, tempWP |-> r.tempWP]
  BY <1>1 DEF Good, IsObject
<1>8. Good(q)
  BY <1>6, <1>7, Parts
<1> QED BY <1>8 DEF q

\* The tags icc_read reads itself.
LEMMA ReadArtsFits ==
    ASSUME NEW r, Good(r), IsFile(disk)
    PROVE  Good(ReadArts(r))
<1> DEFINE t == ReadTag(r, "arts")
           b == Has(r, "arts")
           q == ReadArts(r)
<1>1. Good(t)
  BY ReadFits DEF Sigs
<1>2. q = [t EXCEPT !.useArts = b]
  BY DEF ReadArts
<1>3. b \in BOOLEAN
  BY DEF Has
<1> HIDE DEF t, b, q
<1>4. q = [tab |-> t.tab, ref |-> t.ref, val |-> t.val, err |-> t.err,
           created |-> t.created, useArts |-> b, wrDChad |-> t.wrDChad,
           natural |-> t.natural, mxValid |-> t.mxValid, chadmx |-> t.chadmx,
           tempChad |-> t.tempChad, tempWP |-> t.tempWP]
  BY <1>1, <1>2 DEF Good, IsObject
<1>5. Good(q)
  BY <1>1, <1>3, <1>4, Parts
<1> QED BY <1>5 DEF q

\* And the natural chad.
LEMMA ReadChadFits ==
    ASSUME NEW r, Good(r), IsFile(disk)
    PROVE  Good(ReadChad(r))
<1> DEFINE t == ReadTag(r, "chad")
           v == Value(t, "chad")
           q == ReadChad(r)
<1>1. Good(t)
  BY ReadFits DEF Sigs
<1>2. CASE ~Loaded(t, "chad")
  BY <1>1, <1>2 DEF ReadChad
<1>3. CASE Loaded(t, "chad")
  <2>1. q = [t EXCEPT !.natural = TRUE, !.mxValid = TRUE, !.chadmx = v]
    BY <1>3 DEF ReadChad
  <2> HIDE DEF t, q
  <2>2. v \in Vals
    BY <1>1, <1>3 DEF Value, Loaded, Has, Good, IsObject, Fits, Entries
  <2> HIDE DEF v
  <2>3. q = [tab |-> t.tab, ref |-> t.ref, val |-> t.val, err |-> t.err,
             created |-> t.created, useArts |-> t.useArts, wrDChad |-> t.wrDChad,
             natural |-> TRUE, mxValid |-> TRUE, chadmx |-> v,
             tempChad |-> t.tempChad, tempWP |-> t.tempWP]
    BY <1>1, <2>1 DEF Good, IsObject
  <2>4. Good(q)
    BY <1>1, <2>2, <2>3, Parts
  <2> QED BY <2>4 DEF q
<1> QED BY <1>2, <1>3
\* The invariant holds at first,
LEMMA InitInv == Init => Inv
<1> SUFFICES ASSUME Init PROVE Inv
  OBVIOUS
<1>1. /\ p = Blank([o \in Obj |-> 0], [o \in Obj |-> "zero"], FALSE)
      /\ isOpen = FALSE
      /\ disk \in {NoFile, Given}
  BY DEF Init
<1>2. [o \in Obj |-> "zero"] \in [Obj -> Vals]
  BY DEF Vals
<1>3. [o \in Obj |-> 0] \in [Obj -> Nat] /\ \A o \in Obj : [x \in Obj |-> 0][o] = 0
  OBVIOUS
<1>4. Good(Blank([o \in Obj |-> 0], [o \in Obj |-> "zero"], FALSE))
  BY <1>2, <1>3, BlankFits
<1>5. IsFile(NoFile)
  BY DEF IsFile, NoFile
<1>6. p.tab = <<>>
  BY <1>1 DEF Blank
<1> QED BY <1>1, <1>4, <1>5, <1>6, GivenAssumption DEF Inv

\* The object changes, the file does not.
LEMMA Stays ==
    ASSUME Inv, NEW r, Good(r), p' = r, disk' = disk, isOpen' = TRUE
    PROVE  Inv'
<1>1. Good(p)'
  BY DEF Good, IsObject, Fits, OwnersIn
<1>2. IsFile(disk)'
  BY DEF Inv, IsFile
<1> QED BY <1>1, <1>2 DEF Inv

\* The file changes when every tag is loaded.
LEMMA Written ==
    ASSUME NEW r, Good(r), AllLoaded(r), p' = r, IsFile(disk'), isOpen' = TRUE
    PROVE  Inv'
<1>1. Fits(p.tab, p.ref)'
  BY DEF Good, Fits, OwnersIn, AllLoaded
<1>2. Good(p)'
  BY <1>1 DEF Good, IsObject
<1>3. IsFile(disk)'
  BY DEF IsFile
<1> QED BY <1>2, <1>3 DEF Inv

\* is kept by every step,
LEMMA StepInv == Inv /\ [Next]_vars => Inv'
<1> SUFFICES ASSUME Inv, [Next]_vars PROVE Inv'
  OBVIOUS
<1>g. Good(p) /\ IsFile(disk)
  BY DEF Inv
<1>w. "wtpt" \in Sigs /\ "wtpt" # "chad" /\ Plain \subseteq Sigs /\ "chad" \notin Plain
  BY PlainAssumption DEF Sigs
<1>1. CASE New
  <2>1. PICK wrD \in BOOLEAN : p' = [Blank(p.ref, p.val, wrD) EXCEPT !.created = TRUE]
    BY <1>1 DEF New
  <2> DEFINE b == Blank(p.ref, p.val, wrD)
             q == [b EXCEPT !.created = TRUE]
  <2>2. Good(b)
    BY <1>1, <1>g, Emptied, BlankFits DEF New, Good, IsObject, Fits
  <2>3. q = [b EXCEPT !.created = TRUE]
    OBVIOUS
  <2>4. p' = q
    BY <2>1
  <2> HIDE DEF b, q
  <2>5. q = [tab |-> b.tab, ref |-> b.ref, val |-> b.val, err |-> b.err,
             created |-> TRUE, useArts |-> b.useArts, wrDChad |-> b.wrDChad,
             natural |-> b.natural, mxValid |-> b.mxValid, chadmx |-> b.chadmx,
             tempChad |-> b.tempChad, tempWP |-> b.tempWP]
    BY <2>2, <2>3 DEF Good, IsObject
  <2>6. Good(q)
    BY <2>2, <2>5, Parts
  <2> QED BY <1>1, <2>4, <2>6, Stays DEF New
<1>2. CASE Open
  <2>1. PICK wrD \in BOOLEAN :
            p' = ReadChad(ReadArts(ReadTable(Blank(p.ref, p.val, wrD))))
    BY <1>2 DEF Open
  <2> DEFINE b == Blank(p.ref, p.val, wrD)
  <2>2. Good(b) /\ \A o \in Obj : b.ref[o] = 0
    <3>1. \A o \in Obj : p.ref[o] = 0
      BY <1>2, Emptied DEF Open
    <3>2. b.ref = p.ref
      BY DEF Blank
    <3> QED BY <1>g, <3>1, <3>2, BlankFits DEF Good, IsObject, Fits
  <2> HIDE DEF b
  <2>3. Good(ReadTable(b))
    BY <1>g, <2>2, TableFits
  <2>4. Good(ReadArts(ReadTable(b)))
    BY <1>g, <2>3, ReadArtsFits
  <2>5. Good(ReadChad(ReadArts(ReadTable(b))))
    BY <1>g, <2>4, ReadChadFits
  <2> QED BY <1>2, <2>1, <2>5, Stays DEF Open, b
<1>b. ASSUME NEW r, Good(r), Becomes(r) PROVE Inv'
  <2>1. isOpen' = TRUE
    BY <1>b DEF Becomes, Usable, Inv
  <2> QED BY <1>b, <2>1, Stays DEF Becomes
<1>3. ASSUME NEW s \in Sigs, Read(s) PROVE Inv'
  BY <1>g, <1>b, <1>3, ReadFits DEF Read
<1>4. ASSUME NEW s \in Plain, NEW v \in Contents, Add(s, v) PROVE Inv'
  <2>1. v \in Vals /\ s \in Sigs
    BY <1>w DEF Vals
  <2> QED BY <1>g, <1>b, <1>4, <2>1, AddFits DEF Add
<1>5. ASSUME NEW s \in Plain, NEW v \in Contents, SetContent(s, v) PROVE Inv'
  <2> DEFINE q == [p EXCEPT !.val[p.tab[s].obj] = v]
             val == [p.val EXCEPT ![p.tab[s].obj] = v]
  <2>1. q = [p EXCEPT !.val[p.tab[s].obj] = v]
    OBVIOUS
  <2>2. val \in [Obj -> Vals]
    BY <1>g DEF Vals, Good, IsObject
  <2>3. Becomes(q)
    BY <1>5 DEF SetContent
  <2>4. q = [tab |-> p.tab, ref |-> p.ref, val |-> val, err |-> p.err,
             created |-> p.created, useArts |-> p.useArts, wrDChad |-> p.wrDChad,
             natural |-> p.natural, mxValid |-> p.mxValid, chadmx |-> p.chadmx,
             tempChad |-> p.tempChad, tempWP |-> p.tempWP]
    <3> HIDE DEF q
    <3> QED BY <1>g, <2>1 DEF Good, IsObject
  <2> HIDE DEF q, val
  <2>5. Good(q)
    BY <1>g, <2>2, <2>4, Parts
  <2> QED BY <1>b, <2>3, <2>5
<1>6. ASSUME NEW w \in Whites, SetWhite(w) PROVE Inv'
  <2> DEFINE d == DeleteTag(p, "wtpt")
  <2>1. Good(d) /\ ~Has(d, "wtpt")
    BY <1>g, <1>w, DeleteFits
  <2>2. w \in Vals
    BY DEF Vals
  <2>3. Becomes(AddTag(d, "wtpt", w))
    BY <1>6 DEF SetWhite
  <2> HIDE DEF d
  <2>4. Good(AddTag(d, "wtpt", w))
    BY <1>w, <2>1, <2>2, AddFits
  <2> QED BY <1>b, <2>3, <2>4
<1>7. ASSUME NEW s \in Plain, NEW ex \in Plain, Link(s, ex) PROVE Inv'
  <2>1. Loaded(p, ex) /\ ~Loaded(p, s) /\ s \in Sigs
    BY <1>7, <1>w DEF Link, Editable, AllLoaded, Loaded, Has
  <2>2. p.tab[ex].at \in Places \cup {NoPlace}
    BY <1>g, <2>1 DEF Good, Fits, Entries, Loaded, Has
  <2>3. Good(Share(p, s, p.tab[ex].at, ex))
    BY <1>g, <2>1, <2>2, ShareFits
  <2> QED BY <1>b, <1>7, <2>3 DEF Link, LinkTag
<1>8. ASSUME NEW s \in Plain, NEW new \in Plain, Rename(s, new) PROVE Inv'
  <2> DEFINE tab == Put(Restrict(p.tab, DOMAIN p.tab \ {s}), new, p.tab[s])
             q == RenameTag(p, s, new)
  <2>1. s \in DOMAIN p.tab /\ p.tab[s].obj # NoObj /\ new \notin DOMAIN p.tab /\ new \in Sigs
    BY <1>8, <1>w DEF Rename, Editable, AllLoaded, Has
  <2>2. Fits(tab, p.ref)
    BY <1>g, <2>1, Move DEF Good
  <2>3. q = [p EXCEPT !.tab = tab]
    BY DEF RenameTag
  <2>4. Becomes(q)
    BY <1>8 DEF Rename
  <2> HIDE DEF tab, q
  <2>5. q = [tab |-> tab, ref |-> p.ref, val |-> p.val, err |-> p.err,
             created |-> p.created, useArts |-> p.useArts, wrDChad |-> p.wrDChad,
             natural |-> p.natural, mxValid |-> p.mxValid, chadmx |-> p.chadmx,
             tempChad |-> p.tempChad, tempWP |-> p.tempWP]
    BY <1>g, <2>3 DEF Good, IsObject
  <2>6. Good(q)
    BY <1>g, <2>2, <2>5, Parts
  <2> QED BY <1>b, <2>4, <2>6
<1>9. ASSUME NEW s \in Plain, Delete(s) PROVE Inv'
  <2>1. s \in Sigs /\ s # "chad"
    BY <1>w
  <2>2. Good(DeleteTag(p, s))
    BY <1>g, <2>1, DeleteFits
  <2> QED BY <1>b, <1>9, <2>2 DEF Delete
<1>10. CASE Size
  BY <1>g, <1>b, <1>10, SizeFits DEF Size
<1>11. CASE Write
  <2> DEFINE q == AddAutoTags(p, TRUE)
             z == IF q.err THEN q ELSE GetSize(q)
  <2>1. AllLoaded(p) /\ isOpen' = TRUE
    BY <1>11 DEF Write, Editable, Usable, Inv
  <2>2. \/ ~z.err /\ p' = RemTempTags(z) /\ disk' = FileOf(z)
        \/ p' \in {[RemTempTags(z) EXCEPT !.err = TRUE], [z EXCEPT !.err = TRUE]} /\ disk' = NoFile
    BY <1>11 DEF Write
  <2>3. Good(q) /\ AllLoaded(q)
    BY <1>g, <2>1, AutoFits
  <2>4. /\ Good(z) /\ AllLoaded(z)
        /\ ~z.err => \A s \in DOMAIN z.tab : z.tab[s].at \in DOMAIN z.tab /\ z.tab[s].obj # NoObj
    <3> HIDE DEF q
    <3>1. CASE q.err
      BY <2>3, <3>1
    <3>2. CASE ~q.err
      BY <1>g, <2>3, <3>2, SizeFits
    <3> QED BY <3>1, <3>2
  <2> HIDE DEF z
  <2>5. RemTempTags(z) = z
    BY <2>4, NothingRemoved
  <2>6. CASE ~z.err /\ p' = RemTempTags(z) /\ disk' = FileOf(z)
    <3>1. IsFile(disk')
      BY <2>4, <2>6, FileFits
    <3> QED BY <2>1, <2>4, <2>5, <2>6, <3>1, Written
  <2>7. CASE /\ p' \in {[RemTempTags(z) EXCEPT !.err = TRUE], [z EXCEPT !.err = TRUE]}
             /\ disk' = NoFile
    <3> DEFINE e == [z EXCEPT !.err = TRUE]
    <3>1. Good(e) /\ e.tab = z.tab
      BY <2>4, ErrFits
    <3>2. p' = e
      BY <2>5, <2>7
    <3> HIDE DEF e
    <3>3. AllLoaded(e)
      BY <2>4, <3>1 DEF AllLoaded
    <3>4. IsFile(disk')
      BY <2>7 DEF IsFile, NoFile
    <3> QED BY <2>1, <3>1, <3>2, <3>3, <3>4, Written
  <2> QED BY <2>2, <2>6, <2>7
<1>12. CASE Close
  <2> DEFINE ref == [o \in Obj |-> p.ref[o] - Cardinality({s \in DOMAIN p.tab : p.tab[s].obj = o})]
             val == [o \in Obj |-> "zero"]
  <2>1. \A o \in Obj : ref[o] = 0
    BY <1>g DEF Good, Fits, OwnersIn
  <2>2. ref \in [Obj -> Nat]
    BY <2>1
  <2>3. val \in [Obj -> Vals]
    BY DEF Vals
  <2>4. p' = Blank(ref, val, FALSE) /\ isOpen' = FALSE /\ disk' = disk
    BY <1>12 DEF Close
  <2> HIDE DEF ref, val
  <2>5. Good(Blank(ref, val, FALSE))
    BY <2>1, <2>2, <2>3, BlankFits
  <2>6. Blank(ref, val, FALSE).tab = <<>>
    BY DEF Blank
  <2>7. Good(p)'
    BY <2>4, <2>5 DEF Good, IsObject, Fits, OwnersIn
  <2>8. IsFile(disk)'
    BY <1>g, <2>4 DEF IsFile
  <2> QED BY <2>4, <2>6, <2>7, <2>8 DEF Inv
<1>13. CASE UNCHANGED vars
  BY <1>13 DEF vars, Inv, Good, IsObject, IsFile, Fits, OwnersIn
<1> QED BY <1>1, <1>2, <1>3, <1>4, <1>5, <1>6, <1>7, <1>8, <1>9, <1>10, <1>11, <1>12, <1>13
        DEF Next

\* and so holds always.
LEMMA InvHolds == Spec => []Inv
  BY InitInv, StepInv, PTL DEF Spec

\* An icc object and the file it was read from keep their types, and what has
\* not been read yet can be read.
THEOREM IccTypeCorrect == Spec => []TypeOK
<1>1. Inv => TypeOK
  BY DEF Inv, TypeOK, Good, Fits, Loaded, Has
<1> QED BY <1>1, InvHolds, PTL

\* refcount is the number of tags of an element at any time, through links,
\* renames, deletions, tags icclib adds itself and writes that fail.
THEOREM IccRefsCounted == Spec => []RefsCounted
<1>1. Inv => RefsCounted
  BY DEF Inv, RefsCounted, Owners, Good, Fits, OwnersIn
<1> QED BY <1>1, InvHolds, PTL

-----------------------------------------------------------------------------
(***************************************************************************)
(* What the operations do, field by field.                                 *)
(***************************************************************************)
\* No tag has an element that is free.
LEMMA FreeUnused ==
    ASSUME NEW r, Good(r), NEW o \in Obj, r.ref[o] = 0
    PROVE  \A t \in DOMAIN r.tab : r.tab[t].obj # o
<1>1. Cardinality(OwnersIn(r.tab, o)) = 0 /\ IsFiniteSet(OwnersIn(r.tab, o))
  BY OwnersFinite DEF Good, Fits
<1>2. OwnersIn(r.tab, o) = {}
  BY <1>1, FS_EmptySet
<1> QED BY <1>2 DEF OwnersIn

\* The last tag of an element is the only one that has it.
LEMMA LastOwner ==
    ASSUME NEW r, Good(r), NEW o \in Obj, r.ref[o] = 1,
           NEW s \in DOMAIN r.tab, r.tab[s].obj = o
    PROVE  \A t \in DOMAIN r.tab : r.tab[t].obj = o => t = s
<1> DEFINE all == OwnersIn(r.tab, o)
<1>1. Cardinality(all) = 1 /\ IsFiniteSet(all) /\ s \in all
  BY OwnersFinite DEF Good, Fits, OwnersIn
<1> HIDE DEF all
<1>2. Cardinality(all \ {s}) = 0 /\ IsFiniteSet(all \ {s})
  <2>1. Cardinality(all \ {s}) = Cardinality(all) - 1
    BY <1>1, FS_RemoveElement
  <2> QED BY <1>1, <2>1, FS_Subset
<1>3. all \ {s} = {}
  BY <1>2, FS_EmptySet
<1> QED BY <1>3 DEF all, OwnersIn

\* What the operations leave alone unless it is said otherwise.
WhiteFields(r) == <<r.natural, r.mxValid, r.chadmx>>
Settings(r)    == <<r.wrDChad, r.tempChad, r.created>>

\* A new element: there is no memory, or a free one is filled in.
LEMMA NewIs ==
    ASSUME NEW r, Good(r), NEW s, NEW at, NEW v, NEW nat, NEW q,
           q = WithNew(r, s, at, v, nat)
    PROVE  /\ q.mxValid = r.mxValid /\ q.chadmx = r.chadmx /\ Settings(q) = Settings(r)
           /\ \/ q.err /\ q.tab = r.tab /\ q.val = r.val /\ q.natural = r.natural
              \/ \E o \in Obj :
                    /\ r.ref[o] = 0
                    /\ q.tab = Put(r.tab, s, Tag(at, o)) /\ q.val = [r.val EXCEPT ![o] = v]
                    /\ q.natural = nat /\ q.err = r.err
<1>1. CASE Free(r) = {}
  <2>1. q = [r EXCEPT !.err = TRUE]
    BY <1>1 DEF WithNew
  <2> QED BY <2>1 DEF Good, IsObject, Settings
<1>2. CASE Free(r) # {}
  <2> DEFINE o == CHOOSE x \in Free(r) : TRUE
  <2>1. o \in Obj /\ r.ref[o] = 0
    BY <1>2 DEF Free
  <2>2. q = [r EXCEPT !.tab = Put(@, s, Tag(at, o)), !.ref[o] = 1, !.val[o] = v, !.natural = nat]
    BY <1>2 DEF WithNew
  <2> HIDE DEF o
  <2>3. q.tab = Put(r.tab, s, Tag(at, o)) /\ q.val = [r.val EXCEPT ![o] = v]
        /\ q.natural = nat /\ q.err = r.err
        /\ q.mxValid = r.mxValid /\ q.chadmx = r.chadmx /\ Settings(q) = Settings(r)
    BY <2>2 DEF Good, IsObject, Settings
  <2> QED BY <2>1, <2>3
<1> QED BY <1>1, <1>2

\* A shared one: only the table changes.
LEMMA ShareIs ==
    ASSUME NEW r, Good(r), NEW s, NEW at, NEW k, NEW q, q = Share(r, s, at, k)
    PROVE  /\ q.tab = Put(r.tab, s, Tag(at, r.tab[k].obj)) /\ q.val = r.val
           /\ q.err = r.err /\ WhiteFields(q) = WhiteFields(r) /\ Settings(q) = Settings(r)
<1> DEFINE o == r.tab[k].obj
<1>1. q = [r EXCEPT !.tab = Put(@, s, Tag(at, o)), !.ref[o] = @ + 1]
  BY DEF Share
<1> HIDE DEF o
<1>2. q.tab = Put(r.tab, s, Tag(at, o)) /\ q.val = r.val
      /\ q.err = r.err /\ WhiteFields(q) = WhiteFields(r) /\ Settings(q) = Settings(r)
  BY <1>1 DEF Good, IsObject, WhiteFields, Settings
<1> QED BY <1>2 DEF o

\* A tag less: nothing that another tag has changes.
LEMMA DeleteIs ==
    ASSUME NEW r, Good(r), NEW s, Has(r, s), NEW q, q = DeleteTag(r, s)
    PROVE  /\ q.tab = Restrict(r.tab, DOMAIN r.tab \ {s})
           /\ \A t \in DOMAIN r.tab \ {s} : q.val[r.tab[t].obj] = r.val[r.tab[t].obj]
           /\ q.err = r.err
           /\ q.mxValid = r.mxValid /\ q.chadmx = r.chadmx /\ Settings(q) = Settings(r)
<1> DEFINE o == r.tab[s].obj
           less == Restrict(r.tab, DOMAIN r.tab \ {s})
<1>1. CASE ~Loaded(r, s)
  <2>1. q = [r EXCEPT !.tab = Restrict(@, DOMAIN @ \ {s}), !.natural = @ /\ s # "chad"]
    BY <1>1 DEF DeleteTag, Drop, Has
  <2> QED BY <2>1 DEF Good, IsObject, Settings
<1>2. CASE Loaded(r, s)
  <2>1. q = [[r EXCEPT !.ref[o] = @ - 1, !.val[o] = IF r.ref[o] = 1 THEN "zero" ELSE @]
             EXCEPT !.tab = Restrict(@, DOMAIN @ \ {s}), !.natural = @ /\ s # "chad"]
    BY <1>2 DEF DeleteTag, Drop, Has
  <2>2. o \in Obj /\ s \in DOMAIN r.tab
    BY <1>2 DEF Loaded, Has, Good, Fits, Entries
  <2> HIDE DEF o
  <2>3. /\ q.tab = less /\ q.val = [r.val EXCEPT ![o] = IF r.ref[o] = 1 THEN "zero" ELSE @]
        /\ q.err = r.err
        /\ q.mxValid = r.mxValid /\ q.chadmx = r.chadmx /\ Settings(q) = Settings(r)
    BY <2>1 DEF Good, IsObject, Settings
  <2>4. ASSUME NEW t \in DOMAIN r.tab \ {s}
        PROVE  q.val[r.tab[t].obj] = r.val[r.tab[t].obj]
    <3>1. r.ref[o] = 1 => r.tab[t].obj # o
      BY <2>2, LastOwner DEF o
    <3>2. r.val \in [Obj -> Vals]
      BY DEF Good, IsObject
    <3> QED BY <2>2, <2>3, <3>1, <3>2
  <2> QED BY <2>3, <2>4
<1> QED BY <1>1, <1>2

Without(q, r, s) == /\ q.tab = Restrict(r.tab, DOMAIN r.tab \ {s})
                    /\ \A t \in DOMAIN r.tab \ {s} : q.val[r.tab[t].obj] = r.val[r.tab[t].obj]

\* Deleting a tag takes it off the table and leaves the others (icc_delete_tag).
LEMMA DeletedWithout ==
    ASSUME NEW r, Good(r), NEW s, Has(r, s)
    PROVE  Without(DeleteTag(r, s), r, s)
  BY DeleteIs, SMTT(60) DEF Without

\* Only without chad is the profile no longer a natural one.
LEMMA DeleteNatural ==
    ASSUME NEW r, Good(r), NEW s, s # "chad"
    PROVE  DeleteTag(r, s).natural = r.natural
  BY DEF DeleteTag, Drop, Has, Good, IsObject

\* Another tag is there before and after.
LEMMA DeleteHas ==
    ASSUME NEW r, Good(r), NEW s, NEW t, t # s, Has(r, t)
    PROVE  Has(DeleteTag(r, s), t)
<1>1. CASE ~Has(r, s)
  BY <1>1 DEF DeleteTag
<1>2. CASE Has(r, s)
  <2>1. DeleteTag(r, s).tab = Restrict(Drop(r, s).tab, DOMAIN Drop(r, s).tab \ {s})
    BY <1>2 DEF DeleteTag, Drop, Good, IsObject
  <2>2. Drop(r, s).tab = r.tab
    BY DEF Drop, Good, IsObject
  <2> QED BY <2>1, <2>2 DEF Has, Restrict
<1> QED BY <1>1, <1>2

\* Adding a tag takes none away.
LEMMA AddHas ==
    ASSUME NEW r, Good(r), NEW s, NEW v, NEW t, Has(r, t)
    PROVE  Has(AddTag(r, s, v), t)
<1>1. CASE Free(r) = {}
  BY <1>1 DEF AddTag, WithNew, Has, Good, IsObject
<1>2. CASE Free(r) # {}
  <2> DEFINE o == CHOOSE x \in Free(r) : TRUE
  <2>1. AddTag(r, s, v).tab = Put(r.tab, s, Tag(NoPlace, o))
    BY <1>2 DEF AddTag, WithNew, Good, IsObject
  <2> HIDE DEF o
  <2> QED BY <2>1 DEF Has, Put
<1> QED BY <1>1, <1>2

-----------------------------------------------------------------------------
(***************************************************************************)
(* The programs' tags and the others.                                      *)
(***************************************************************************)
\* The tags the programs edit, and what Same and ContentOf are of an object.
Mine(r) == DOMAIN r.tab \cap Plain
SameIn(r, s, t) == IF Loaded(r, s) /\ Loaded(r, t) THEN r.tab[s].obj = r.tab[t].obj
                   ELSE r.tab[s].at = r.tab[t].at
ContentIn(r, s) == IF Loaded(r, s) THEN Value(r, s) ELSE disk.data[r.tab[s].at]

\* They share neither elements nor, as long as any tag is to be read, places
\* with the other tags.
Apart(r) ==
    \A s \in Mine(r), t \in DOMAIN r.tab \ Plain :
        /\ Loaded(r, s) => r.tab[s].obj # r.tab[t].obj
        /\ ~AllLoaded(r) => r.tab[s].at # r.tab[t].at

\* Nothing is edited before all is read: an element is what is at its place.
AsRead(r) ==
    ~AllLoaded(r) =>
        /\ \A s \in Mine(r) : r.tab[s].at # NoPlace
        /\ \A s \in DOMAIN r.tab : Loaded(r, s) /\ r.tab[s].at # NoPlace =>
              r.tab[s].at \in DOMAIN disk.data /\ Value(r, s) = disk.data[r.tab[s].at]
        /\ \A s, t \in Mine(r) : Loaded(r, s) /\ Loaded(r, t) =>
              (r.tab[s].obj = r.tab[t].obj <=> r.tab[s].at = r.tab[t].at)

\* The programs' tags are filled in by the programs.
Filled(r) == \A s \in Mine(r) : ContentIn(r, s) \in Contents

Sound(r) == Apart(r) /\ AsRead(r) /\ Filled(r)

\* The same of a file.
FileApart(f) ==
    \A s \in DOMAIN f.tab \cap Plain :
        /\ f.data[f.tab[s]] \in Contents
        /\ \A t \in DOMAIN f.tab \ Plain : f.tab[s] # f.tab[t]

\* The programs see no difference between q and r.
View(q, r) ==
    /\ Mine(q) = Mine(r)
    /\ \A s, t \in Mine(r) : SameIn(q, s, t) = SameIn(r, s, t)
    /\ \A s \in Mine(r) : ContentIn(q, s) = ContentIn(r, s)

\* What does not show in one step after the other does not show in both.
LEMMA ViewChain ==
    ASSUME NEW x, NEW q, NEW r, View(x, q), View(q, r)
    PROVE  View(x, r)
  BY DEF View

\* A change that keeps to the other tags.
LEMMA Aside ==
    ASSUME NEW r, Sound(r), NEW q,
           Mine(q) = Mine(r), \A s \in Mine(r) : q.tab[s] = r.tab[s],
           \A s \in Mine(r) : Loaded(r, s) => q.val[r.tab[s].obj] = r.val[r.tab[s].obj],
           AllLoaded(r) => AllLoaded(q),
           \A s \in Mine(r), t \in DOMAIN q.tab \ Plain :
               /\ Loaded(r, s) => r.tab[s].obj # q.tab[t].obj
               /\ ~AllLoaded(q) => r.tab[s].at # q.tab[t].at,
           ~AllLoaded(q) => \A t \in DOMAIN q.tab \ Plain :
               Loaded(q, t) /\ q.tab[t].at # NoPlace =>
                   q.tab[t].at \in DOMAIN disk.data /\ Value(q, t) = disk.data[q.tab[t].at]
    PROVE  Sound(q) /\ View(q, r)
<1>1. \A s \in Mine(r) : Loaded(q, s) = Loaded(r, s)
  BY DEF Loaded, Has, Mine
<1>2. \A s \in Mine(r) : ContentIn(q, s) = ContentIn(r, s)
  BY <1>1 DEF ContentIn, Value
<1>3. View(q, r)
  BY <1>1, <1>2 DEF View, SameIn
<1>4. Apart(q) /\ Filled(q)
  BY <1>1, <1>2 DEF Sound, Apart, Filled
<1>5. AsRead(q)
  <2> SUFFICES ASSUME ~AllLoaded(q)
               PROVE  AsRead(q)
    BY DEF AsRead
  <2>1. ~AllLoaded(r)
    OBVIOUS
  <2>2. ASSUME NEW s \in DOMAIN q.tab, Loaded(q, s), q.tab[s].at # NoPlace
        PROVE  q.tab[s].at \in DOMAIN disk.data /\ Value(q, s) = disk.data[q.tab[s].at]
    <3>1. CASE s \in Plain
      <4>1. s \in Mine(r) /\ s \in DOMAIN r.tab
        BY <3>1 DEF Mine
      <4>2. Loaded(r, s) /\ q.tab[s] = r.tab[s] /\ Value(q, s) = Value(r, s)
        BY <1>1, <2>2, <4>1 DEF Value
      <4> QED BY <2>1, <2>2, <4>1, <4>2 DEF Sound, AsRead
    <3>2. CASE s \notin Plain
      BY <2>2, <3>2
    <3> QED BY <3>1, <3>2
  <2> QED BY <1>1, <2>1, <2>2 DEF Sound, AsRead
<1> QED BY <1>3, <1>4, <1>5 DEF Sound

\* The table and the contents as they were.
LEMMA FieldsAside ==
    ASSUME NEW r, Sound(r), NEW q, q.tab = r.tab, q.val = r.val
    PROVE  Sound(q) /\ View(q, r)
  BY DEF Sound, Apart, AsRead, Filled, View, Mine, SameIn, ContentIn, Loaded, Has, Value,
         AllLoaded

\* A new element for one of the other tags.
LEMMA NewAside ==
    ASSUME NEW r, Good(r), Sound(r), NEW s \in Sigs \ Plain, ~Loaded(r, s),
           NEW at, NEW v, NEW nat,
           \/ at = NoPlace
           \/ Has(r, s) /\ at = r.tab[s].at /\ at \in DOMAIN disk.data /\ v = disk.data[at]
    PROVE  /\ Sound(WithNew(r, s, at, v, nat)) /\ View(WithNew(r, s, at, v, nat), r)
<1> DEFINE q == WithNew(r, s, at, v, nat)
<1>1. CASE q.tab = r.tab /\ q.val = r.val
  BY <1>1, FieldsAside
<1>2. ASSUME NEW o \in Obj, r.ref[o] = 0, q.tab = Put(r.tab, s, Tag(at, o)),
             q.val = [r.val EXCEPT ![o] = v]
      PROVE  Sound(q) /\ View(q, r)
  <2> HIDE DEF q
  <2>1. \A t \in DOMAIN r.tab : r.tab[t].obj # o
    BY <1>2, FreeUnused
  <2>2. /\ DOMAIN q.tab = DOMAIN r.tab \cup {s} /\ q.tab[s].obj = o /\ q.tab[s].at = at
        /\ \A t \in DOMAIN r.tab \ {s} : q.tab[t] = r.tab[t]
    BY <1>2 DEF Put, Tag
  <2>3. r.val \in [Obj -> Vals] /\ q.val[o] = v /\ \A x : x # o => q.val[x] = r.val[x]
    BY <1>2 DEF Good, IsObject
  <2>4. Mine(q) = Mine(r) /\ s \notin Mine(r)
    BY <2>2 DEF Mine
  <2>5. \A t \in Mine(r) : q.tab[t] = r.tab[t] /\ q.val[r.tab[t].obj] = r.val[r.tab[t].obj]
    BY <2>1, <2>2, <2>3, <2>4 DEF Mine
  <2>6. AllLoaded(r) => AllLoaded(q)
    BY <2>2, ObjAssumption DEF AllLoaded
  <2>7. ASSUME NEW m \in Mine(r), NEW t \in DOMAIN q.tab \ Plain
        PROVE  /\ Loaded(r, m) => r.tab[m].obj # q.tab[t].obj
               /\ ~AllLoaded(q) => r.tab[m].at # q.tab[t].at
    <3>1. CASE t = s
      <4>1. r.tab[m].obj # o
        BY <2>1 DEF Mine
      <4>2. ~AllLoaded(r) => r.tab[m].at # at
        <5>1. CASE at = NoPlace
          BY <5>1 DEF Sound, AsRead
        <5>2. CASE Has(r, s) /\ at = r.tab[s].at
          BY <5>2 DEF Sound, Apart, Has
        <5> QED BY <5>1, <5>2
      <4> QED BY <2>2, <2>6, <3>1, <4>1, <4>2
    <3>2. CASE t # s
      BY <2>2, <2>6, <3>2 DEF Sound, Apart
    <3> QED BY <3>1, <3>2
  <2>8. ASSUME ~AllLoaded(q), NEW t \in DOMAIN q.tab \ Plain, Loaded(q, t),
               q.tab[t].at # NoPlace
        PROVE  q.tab[t].at \in DOMAIN disk.data /\ Value(q, t) = disk.data[q.tab[t].at]
    <3>1. CASE t = s
      BY <2>2, <2>3, <2>8, <3>1 DEF Value
    <3>2. CASE t # s
      <4>1. t \in DOMAIN r.tab /\ q.tab[t] = r.tab[t] /\ r.tab[t].obj # o /\ Loaded(r, t)
        BY <2>1, <2>2, <2>8, <3>2 DEF Loaded, Has
      <4>2. Value(q, t) = Value(r, t)
        BY <2>3, <4>1 DEF Value
      <4> QED BY <2>6, <2>8, <4>1, <4>2 DEF Sound, AsRead
    <3> QED BY <3>1, <3>2
  <2> QED BY <2>4, <2>5, <2>6, <2>7, <2>8, Aside
<1>3. q = WithNew(r, s, at, v, nat)
  OBVIOUS
<1> HIDE DEF q
<1>4. \/ q.tab = r.tab /\ q.val = r.val
      \/ \E o \in Obj : /\ r.ref[o] = 0 /\ q.tab = Put(r.tab, s, Tag(at, o))
                        /\ q.val = [r.val EXCEPT ![o] = v]
  BY <1>3, NewIs
<1> QED BY <1>1, <1>2, <1>3, <1>4

\* One of the other tags is read.
LEMMA ReadAside ==
    ASSUME NEW r, Good(r), Sound(r), NEW s \in Sigs \ Plain
    PROVE  Sound(ReadTag(r, s)) /\ View(ReadTag(r, s), r)
<1> DEFINE q == ReadTag(r, s)
<1>1. CASE ~Has(r, s) \/ Loaded(r, s)
  BY <1>1 DEF ReadTag, View
<1>2. CASE Has(r, s) /\ ~Loaded(r, s)
  <2>0. r.tab[s].at \in DOMAIN disk.data /\ ~AllLoaded(r) /\ s \in DOMAIN r.tab
    BY <1>2 DEF Has, Loaded, Good, Fits, AllLoaded
  <2>1. CASE Peers(r, s) = {}
    <3>1. q = WithNew(r, s, r.tab[s].at, disk.data[r.tab[s].at], r.natural)
      BY <1>2, <2>1 DEF ReadTag
    <3> HIDE DEF q
    <3>2. Sound(q) /\ View(q, r)
      BY <1>2, <2>0, <3>1, NewAside
    <3> QED BY <3>2 DEF q
  <2>2. CASE Peers(r, s) # {}
    <3> DEFINE k == CHOOSE x \in Peers(r, s) : TRUE
               o == r.tab[k].obj
    <3>1. k \in DOMAIN r.tab /\ r.tab[k].at = r.tab[s].at /\ Loaded(r, k) /\ o # NoObj
      BY <2>2 DEF Peers, Loaded
    <3>2. q = Share(r, s, r.tab[s].at, k)
      BY <1>2, <2>2 DEF ReadTag
    <3> HIDE DEF k, q
    <3>3. q.tab = Put(r.tab, s, Tag(r.tab[s].at, o)) /\ q.val = r.val
      BY <3>2, ShareIs
    <3>4. /\ DOMAIN q.tab = DOMAIN r.tab /\ q.tab[s].obj = o /\ q.tab[s].at = r.tab[s].at
          /\ \A t \in DOMAIN r.tab \ {s} : q.tab[t] = r.tab[t]
      BY <2>0, <3>3 DEF Put, Tag
    <3>5. k \notin Plain
      BY <2>0, <3>1 DEF Sound, Apart, Mine
    <3>6. Mine(q) = Mine(r) /\ s \notin Mine(r) /\ \A t \in Mine(r) : q.tab[t] = r.tab[t]
      BY <3>4 DEF Mine
    <3>7. \A m \in Mine(r), t \in DOMAIN q.tab \ Plain :
               /\ Loaded(r, m) => r.tab[m].obj # q.tab[t].obj
               /\ r.tab[m].at # q.tab[t].at
      BY <2>0, <3>1, <3>4, <3>5 DEF Sound, Apart
    <3>8. ASSUME NEW t \in DOMAIN q.tab \ Plain, Loaded(q, t), q.tab[t].at # NoPlace
          PROVE  q.tab[t].at \in DOMAIN disk.data /\ Value(q, t) = disk.data[q.tab[t].at]
      <4>1. CASE t = s
        <5>1. Value(q, t) = Value(r, k)
          BY <3>3, <3>4, <4>1 DEF Value
        <5> QED BY <2>0, <3>1, <3>4, <3>8, <4>1, <5>1 DEF Sound, AsRead
      <4>2. CASE t # s
        <5>1. t \in DOMAIN r.tab /\ Loaded(r, t) /\ q.tab[t] = r.tab[t]
              /\ Value(q, t) = Value(r, t)
          BY <3>3, <3>4, <3>8, <4>2 DEF Loaded, Has, Value
        <5> QED BY <2>0, <3>8, <5>1 DEF Sound, AsRead
      <4> QED BY <4>1, <4>2
    <3>9. Sound(q) /\ View(q, r)
      BY <2>0, <3>3, <3>6, <3>7, <3>8, Aside
    <3> QED BY <3>9 DEF q
  <2> QED BY <2>1, <2>2
<1> QED BY <1>1, <1>2

\* One of the other tags is deleted.
LEMMA DeleteAside ==
    ASSUME NEW r, Good(r), Sound(r), NEW s \in Sigs \ Plain
    PROVE  Sound(DeleteTag(r, s)) /\ View(DeleteTag(r, s), r)
<1> DEFINE q == DeleteTag(r, s)
<1>1. CASE ~Has(r, s)
  BY <1>1 DEF DeleteTag, View
<1>2. CASE Has(r, s)
  <2>0. q = DeleteTag(r, s)
    OBVIOUS
  <2> HIDE DEF q
  <2>1. /\ q.tab = Restrict(r.tab, DOMAIN r.tab \ {s})
        /\ \A t \in DOMAIN r.tab \ {s} : q.val[r.tab[t].obj] = r.val[r.tab[t].obj]
    BY <1>2, <2>0, DeleteIs
  <2>2. DOMAIN q.tab = DOMAIN r.tab \ {s} /\ \A t \in DOMAIN q.tab : q.tab[t] = r.tab[t]
    BY <2>1 DEF Restrict
  <2>3. /\ Mine(q) = Mine(r) /\ Mine(r) \subseteq DOMAIN r.tab \ {s}
        /\ \A m \in Mine(r) : q.tab[m] = r.tab[m]
    BY <2>2 DEF Mine
  <2>4. AllLoaded(r) => AllLoaded(q)
    BY <2>2 DEF AllLoaded
  <2>5. \A m \in Mine(r), t \in DOMAIN q.tab \ Plain :
               /\ Loaded(r, m) => r.tab[m].obj # q.tab[t].obj
               /\ ~AllLoaded(q) => r.tab[m].at # q.tab[t].at
    BY <2>2, <2>4 DEF Sound, Apart
  <2>6. ASSUME ~AllLoaded(q), NEW t \in DOMAIN q.tab \ Plain, Loaded(q, t),
               q.tab[t].at # NoPlace
        PROVE  q.tab[t].at \in DOMAIN disk.data /\ Value(q, t) = disk.data[q.tab[t].at]
    <3>1. t \in DOMAIN r.tab \ {s} /\ Loaded(r, t) /\ q.tab[t] = r.tab[t]
      BY <2>2, <2>6 DEF Loaded, Has
    <3>2. Value(q, t) = Value(r, t)
      BY <2>1, <3>1 DEF Value
    <3> QED BY <2>4, <2>6, <3>1, <3>2 DEF Sound, AsRead
  <2>7. Sound(q) /\ View(q, r)
    BY <2>1, <2>3, <2>4, <2>5, <2>6, Aside
  <2> QED BY <2>7 DEF q
<1> QED BY <1>1, <1>2

\* Adding one of the other tags.
LEMMA AddAside ==
    ASSUME NEW r, Good(r), Sound(r), NEW s \in Sigs \ Plain, ~Has(r, s), NEW v
    PROVE  Sound(AddTag(r, s, v)) /\ View(AddTag(r, s, v), r)
<1> DEFINE nat == r.natural \/ s = "chad"
<1>1. AddTag(r, s, v) = WithNew(r, s, NoPlace, v, nat)
  BY DEF AddTag
<1>2. ~Loaded(r, s)
  BY DEF Loaded
<1> HIDE DEF nat
<1> QED BY <1>1, <1>2, NewAside

\* The tags icclib adds itself are none of the programs'.
LEMMA NotMine == {"wtpt", "chad", "arts"} \subseteq Sigs \ Plain /\ Plain \subseteq Sigs
  BY PlainAssumption DEF Sigs

\* Adding arts.
LEMMA ArtsAside ==
    ASSUME NEW r, Good(r), Sound(r), IsFile(disk)
    PROVE  Sound(AddArts(r)) /\ View(AddArts(r), r)
<1> DEFINE q == ReadTag(r, "arts")
<1>1. Good(q) /\ Sound(q) /\ View(q, r)
  BY NotMine, ReadFits, ReadAside
<1>2. CASE AddArts(r) = r
  BY <1>2 DEF View
<1>3. CASE AddArts(r) = q
  BY <1>1, <1>3
<1>4. CASE ~Has(q, "arts") /\ AddArts(r) = AddTag(q, "arts", "cone")
  <2> HIDE DEF q
  <2>1. Sound(AddTag(q, "arts", "cone")) /\ View(AddTag(q, "arts", "cone"), q)
    BY <1>1, <1>4, NotMine, AddAside
  <2> QED BY <1>1, <1>4, <2>1, ViewChain
<1> QED BY <1>2, <1>3, <1>4 DEF AddArts

\* The contents of the white point change when all has been read.
LEMMA WhiteAside ==
    ASSUME NEW r, Good(r), Sound(r), AllLoaded(r), Has(r, "wtpt"), NEW v, NEW q,
           q.tab = r.tab, q.val = [r.val EXCEPT ![r.tab["wtpt"].obj] = v]
    PROVE  Sound(q) /\ View(q, r)
<1>1. "wtpt" \in DOMAIN r.tab \ Plain
  BY NotMine DEF Has
<1>2. r.val \in [Obj -> Vals]
  BY DEF Good, IsObject
<1>3. Mine(q) = Mine(r) /\ AllLoaded(q)
  BY DEF Mine, AllLoaded
<1>4. \A s \in Mine(r) : Loaded(r, s) => q.val[r.tab[s].obj] = r.val[r.tab[s].obj]
  BY <1>1, <1>2 DEF Sound, Apart
<1>5. \A s \in Mine(r), t \in DOMAIN q.tab \ Plain : Loaded(r, s) => r.tab[s].obj # q.tab[t].obj
  BY DEF Sound, Apart
<1> QED BY <1>3, <1>4, <1>5, Aside

\* Adding chad, which in a write takes the white point over.
LEMMA ChadAside ==
    ASSUME NEW r, Good(r), Sound(r), IsFile(disk), NEW wr \in BOOLEAN, wr => AllLoaded(r)
    PROVE  Sound(AddChad(r, wr)) /\ View(AddChad(r, wr), r)
<1> DEFINE q == ReadTag(r, "wtpt")
           wp == Value(q, "wtpt")
           mx == IF q.mxValid THEN q.chadmx ELSE wp
           x == [q EXCEPT !.mxValid = TRUE, !.chadmx = mx]
           y == DeleteTag(x, "chad")
           v == IF wr THEN mx ELSE "zero"
           d == AddTag(y, "chad", v)
<1>1. CASE ~(r.wrDChad /\ ~r.natural /\ Has(r, "wtpt"))
  BY <1>1 DEF AddChad, View
<1>2. CASE r.wrDChad /\ ~r.natural /\ Has(r, "wtpt")
  <2>1. Good(q) /\ Sound(q) /\ View(q, r) /\ (AllLoaded(r) => q = r)
        /\ q.natural = r.natural /\ (~q.err => Loaded(q, "wtpt"))
    BY <1>2, NotMine, ReadFits, ReadAside, ReadLoads
  <2>2. CASE q.err
    BY <1>2, <2>1, <2>2 DEF AddChad
  <2>3. CASE ~q.err
    <3>1. wp \in Vals
      <4> HIDE DEF q
      <4> QED BY <2>1, <2>3 DEF Value, Loaded, Has, Good, IsObject, Fits, Entries
    <3>2. mx \in Vals
      <4> HIDE DEF q, wp
      <4> QED BY <2>1, <3>1 DEF Good, IsObject
    <3>3. Good(x) /\ x.tempChad = FALSE /\ x.tab = q.tab /\ x.val = q.val
      <4> HIDE DEF q, mx
      <4>1. x = [tab |-> q.tab, ref |-> q.ref, val |-> q.val, err |-> q.err,
                 created |-> q.created, useArts |-> q.useArts,
                 wrDChad |-> q.wrDChad, natural |-> q.natural, mxValid |-> TRUE,
                 chadmx |-> mx, tempChad |-> q.tempChad, tempWP |-> q.tempWP]
        <5>1. x = [q EXCEPT !.mxValid = TRUE, !.chadmx = mx]
          OBVIOUS
        <5> HIDE DEF x
        <5> QED BY <2>1, <5>1 DEF Good, IsObject
      <4> HIDE DEF x
      <4>2. Good(x)
        BY <2>1, <3>2, <4>1, Parts
      <4>3. q.tempChad = FALSE
        BY <1>2, <2>1, Parts
      <4> QED BY <4>1, <4>2, <4>3
    <3>4. Sound(x) /\ View(x, r)
      <4> HIDE DEF q, x
      <4>1. Sound(x) /\ View(x, q)
        BY <2>1, <3>3, FieldsAside
      <4> QED BY <2>1, <4>1, ViewChain
    <3>5. /\ Good(y) /\ ~Has(y, "chad") /\ Sound(y) /\ View(y, r)
          /\ Has(y, "wtpt") /\ (AllLoaded(x) => AllLoaded(y))
      <4>1. Has(q, "wtpt")
        BY <2>1, <2>3 DEF Loaded
      <4> HIDE DEF x
      <4>2. Good(y) /\ ~Has(y, "chad") /\ (AllLoaded(x) => AllLoaded(y))
        BY <3>3, NotMine, DeleteFits
      <4>3. Sound(y) /\ View(y, x)
        BY <3>3, <3>4, NotMine, DeleteAside
      <4>4. Has(y, "wtpt")
        <5>1. Has(x, "wtpt")
          BY <3>3, <4>1 DEF Has
        <5>2. Has(DeleteTag(x, "chad"), "wtpt")
          BY <3>3, <5>1, "wtpt" # "chad", DeleteHas
        <5> QED BY <5>2
      <4> HIDE DEF y
      <4>5. View(y, r)
        BY <3>4, <4>3, ViewChain
      <4> QED BY <4>2, <4>3, <4>4, <4>5
    <3>6. v \in Vals
      BY <3>2 DEF Vals
    <3>7. /\ Good(d) /\ Sound(d) /\ View(d, r) /\ Has(d, "wtpt")
          /\ AllLoaded(y) => AllLoaded(d)
      <4> HIDE DEF y, v
      <4>1. Good(d) /\ (AllLoaded(y) => AllLoaded(d))
        BY <3>5, <3>6, NotMine, AddFits
      <4>2. Sound(d) /\ View(d, y)
        BY <3>5, NotMine, AddAside
      <4>3. Has(d, "wtpt")
        BY <3>5, AddHas
      <4> HIDE DEF d
      <4>4. View(d, r)
        BY <3>5, <4>2, ViewChain
      <4> QED BY <4>1, <4>2, <4>3, <4>4
    <3>8. CASE d.err
      <4>1. AddChad(r, wr) = d
        BY <1>2, <2>3, <3>8 DEF AddChad
      <4> HIDE DEF d
      <4> QED BY <3>7, <4>1
    <3>9. CASE ~d.err
      <4>1. AddChad(r, wr) = IF ~wr THEN [d EXCEPT !.tempChad = TRUE]
                             ELSE [d EXCEPT !.tempChad = TRUE, !.tempWP = wp,
                                            !.val[d.tab["wtpt"].obj] = "D50"]
        BY <1>2, <2>3, <3>9 DEF AddChad
      <4>2. AllLoaded(r) => AllLoaded(d)
        <5>1. AllLoaded(r) => AllLoaded(x)
          BY <2>1, <3>3 DEF AllLoaded
        <5> HIDE DEF d, y, x
        <5> QED BY <3>5, <3>7, <5>1
      <4> HIDE DEF d, wp
      <4>3. CASE ~wr
        <5> DEFINE e == AddChad(r, wr)
        <5>1. e = [d EXCEPT !.tempChad = TRUE]
          BY <4>1, <4>3
        <5> HIDE DEF e
        <5>2. e.tab = d.tab /\ e.val = d.val
          BY <3>7, <5>1 DEF Good, IsObject
        <5>3. Sound(e) /\ View(e, d)
          BY <3>7, <5>2, FieldsAside
        <5> QED BY <3>7, <5>3, ViewChain DEF e
      <4>4. CASE wr
        <5> DEFINE e == AddChad(r, wr)
        <5>1. e = [d EXCEPT !.tempChad = TRUE, !.tempWP = wp, !.val[d.tab["wtpt"].obj] = "D50"]
          BY <4>1, <4>4
        <5> HIDE DEF e
        <5>2. e.tab = d.tab /\ e.val = [d.val EXCEPT ![d.tab["wtpt"].obj] = "D50"]
          BY <3>7, <5>1 DEF Good, IsObject
        <5>3. Sound(e) /\ View(e, d)
          BY <3>7, <4>2, <4>4, <5>2, WhiteAside
        <5> QED BY <3>7, <5>3, ViewChain DEF e
      <4> QED BY <4>3, <4>4
    <3> QED BY <3>8, <3>9
  <2> QED BY <2>2, <2>3
<1> QED BY <1>1, <1>2

\* Both.
LEMMA AutoAside ==
    ASSUME NEW r, Good(r), Sound(r), IsFile(disk), NEW wr \in BOOLEAN, wr => AllLoaded(r)
    PROVE  Sound(AddAutoTags(r, wr)) /\ View(AddAutoTags(r, wr), r)
<1> DEFINE q == AddArts(r)
<1>1. Good(q) /\ Sound(q) /\ View(q, r) /\ (AllLoaded(r) => AllLoaded(q))
  BY ArtsFits, ArtsAside
<1>2. CASE q.err
  BY <1>1, <1>2 DEF AddAutoTags
<1>3. CASE ~q.err
  <2>1. AddAutoTags(r, wr) = AddChad(q, wr)
    BY <1>3 DEF AddAutoTags
  <2> HIDE DEF q
  <2>2. Sound(AddChad(q, wr)) /\ View(AddChad(q, wr), q)
    BY <1>1, ChadAside
  <2> QED BY <1>1, <2>1, <2>2, ViewChain
<1> QED BY <1>2, <1>3

\* The layout of a file keeps elements and contents.
LEMMA LayoutIs ==
    ASSUME NEW r, Good(r)
    PROVE  /\ DOMAIN Layout(r).tab = DOMAIN r.tab
           /\ \A s \in DOMAIN r.tab : Layout(r).tab[s].obj = r.tab[s].obj
           /\ \A s, t \in DOMAIN r.tab : Layout(r).tab[s].at = Layout(r).tab[t].at
                                          <=> r.tab[s].obj = r.tab[t].obj
           /\ \A s \in DOMAIN r.tab : /\ Layout(r).tab[s].at \in DOMAIN r.tab
                                      /\ r.tab[Layout(r).tab[s].at].obj = r.tab[s].obj
           /\ Layout(r).val = r.val /\ Layout(r).err = r.err
           /\ WhiteFields(Layout(r)) = WhiteFields(r) /\ Settings(Layout(r)) = Settings(r)
<1> DEFINE pos(s) == CHOOSE t \in DOMAIN r.tab : r.tab[t].obj = r.tab[s].obj
           tab == [s \in DOMAIN r.tab |-> Tag(pos(s), r.tab[s].obj)]
           q == Layout(r)
<1>1. q = [r EXCEPT !.tab = tab]
  BY DEF Layout
<1>2. \A s \in DOMAIN r.tab : pos(s) \in DOMAIN r.tab /\ r.tab[pos(s)].obj = r.tab[s].obj
  OBVIOUS
<1>3. \A s, t \in DOMAIN r.tab : r.tab[s].obj = r.tab[t].obj => pos(s) = pos(t)
  OBVIOUS
<1>4. DOMAIN tab = DOMAIN r.tab
      /\ \A s \in DOMAIN r.tab : tab[s].at = pos(s) /\ tab[s].obj = r.tab[s].obj
  BY DEF Tag
<1> HIDE DEF pos, tab, q
<1>5. /\ q.tab = tab /\ q.val = r.val /\ q.err = r.err
      /\ WhiteFields(q) = WhiteFields(r) /\ Settings(q) = Settings(r)
  BY <1>1 DEF Good, IsObject, WhiteFields, Settings
<1>6. \A s, t \in DOMAIN r.tab : pos(s) = pos(t) <=> r.tab[s].obj = r.tab[t].obj
  BY <1>2, <1>3
<1> QED BY <1>2, <1>4, <1>5, <1>6 DEF q

\* Laying the tags out for a file gives them places, which do not show.
LEMMA LayoutAside ==
    ASSUME NEW r, Good(r), Sound(r), AllLoaded(r)
    PROVE  Sound(Layout(r)) /\ View(Layout(r), r)
<1> DEFINE q == Layout(r)
<1>1. /\ DOMAIN q.tab = DOMAIN r.tab /\ q.val = r.val
      /\ \A s \in DOMAIN r.tab : q.tab[s].obj = r.tab[s].obj
  BY LayoutIs
<1> HIDE DEF q
<1>2. AllLoaded(q) /\ \A s \in DOMAIN r.tab : Loaded(r, s) /\ Loaded(q, s)
  BY <1>1 DEF AllLoaded, Loaded, Has
<1>3. View(q, r)
  BY <1>1, <1>2 DEF View, Mine, SameIn, ContentIn, Value
<1>4. Sound(q)
  BY <1>1, <1>2, <1>3 DEF Sound, Apart, AsRead, Filled, View, Mine
<1> QED BY <1>3, <1>4 DEF q

\* A get_size, in a write or not.
LEMMA SizeAside ==
    ASSUME NEW r, Good(r), Sound(r), IsFile(disk)
    PROVE  Sound(GetSize(r)) /\ View(GetSize(r), r)
<1> DEFINE q == AddAutoTags(r, FALSE)
<1>1. Good(q) /\ Sound(q) /\ View(q, r)
  BY AutoFits, AutoAside
<1>2. CASE AllLoaded(q)
  <2>1. GetSize(r) = RemTempTags(Layout(q))
    BY <1>2 DEF GetSize
  <2> HIDE DEF q
  <2>2. GetSize(r) = Layout(q)
    BY <1>1, <1>2, <2>1, LayoutFits, NothingRemoved
  <2>3. Sound(Layout(q)) /\ View(Layout(q), q)
    BY <1>1, <1>2, LayoutAside
  <2> QED BY <1>1, <2>2, <2>3, ViewChain
<1>3. CASE ~AllLoaded(q)
  <2>1. GetSize(r) = RemTempTags([q EXCEPT !.err = TRUE])
    BY <1>3 DEF GetSize
  <2> HIDE DEF q
  <2> DEFINE e == [q EXCEPT !.err = TRUE]
  <2>2. Good(e) /\ e.tab = q.tab /\ e.val = q.val
    BY <1>1, ErrFits DEF Good, IsObject
  <2>3. GetSize(r) = e
    BY <2>1, <2>2, NothingRemoved
  <2> HIDE DEF e
  <2>4. Sound(e) /\ View(e, q)
    BY <1>1, <2>2, FieldsAside
  <2> QED BY <1>1, <2>3, <2>4, ViewChain
<1> QED BY <1>2, <1>3

-----------------------------------------------------------------------------
(***************************************************************************)
(* The groups of an object and of a file: what Store sees of them.         *)
(***************************************************************************)
GroupIn(r, s) == [names |-> {t \in Mine(r) : SameIn(r, s, t)}, content |-> ContentIn(r, s)]
GroupsIn(r)   == {GroupIn(r, s) : s \in Mine(r)}

FileGroups(f) ==
    {[names |-> {t \in DOMAIN f.tab \cap Plain : f.tab[s] = f.tab[t]},
      content |-> f.data[f.tab[s]]] : s \in DOMAIN f.tab \cap Plain}
Saved(f) == [ok |-> f.ok, groups |-> FileGroups(f)]

\* The groups are part of the view.
LEMMA ViewGroups ==
    ASSUME NEW q, NEW r, View(q, r)
    PROVE  GroupsIn(q) = GroupsIn(r)
<1>1. \A s \in Mine(r) : GroupIn(q, s) = GroupIn(r, s)
  BY DEF View, GroupIn
<1> QED BY <1>1 DEF View, GroupsIn

\* Steps of the icc object, as operations on the groups.
LEMMA StoreSame ==
    ASSUME GroupsIn(p)' = GroupsIn(p), UNCHANGED <<isOpen, disk>>
    PROVE  UNCHANGED Store!vars
<1>1. Store!vars = <<isOpen, GroupsIn(p), Saved(disk)>>
  BY DEF Store!vars, GroupsIn, GroupIn, Saved, FileGroups, Mine, SameIn, ContentIn, Same, ContentOf
<1>2. Store!vars' = <<isOpen', GroupsIn(p)', Saved(disk)'>>
  BY DEF Store!vars, GroupsIn, GroupIn, Saved, FileGroups, Mine, SameIn, ContentIn, Same, ContentOf
<1>3. Saved(disk)' = Saved(disk)
  BY DEF Saved, FileGroups
<1> QED BY <1>1, <1>2, <1>3

\* Groups taken out and put in are an edit of the store,
LEMMA StoreEdit ==
    ASSUME isOpen, UNCHANGED <<isOpen, disk>>, NEW g, NEW h,
           g \subseteq GroupsIn(p), GroupsIn(p)' = (GroupsIn(p) \ g) \cup h
    PROVE  Store!Edit(g, h)
<1>1. UNCHANGED Saved(disk)
  BY DEF Saved, FileGroups
<1> QED
  BY <1>1 DEF Store!Edit, GroupsIn, GroupIn, Saved, FileGroups, Mine, SameIn, ContentIn, Same, ContentOf

\* a file with the groups, or none, is a save,
LEMMA StoreSave ==
    ASSUME isOpen, isOpen' = isOpen, GroupsIn(p)' = GroupsIn(p),
           \/ Saved(disk)' = [ok |-> TRUE, groups |-> GroupsIn(p)]
           \/ Saved(disk)' = [ok |-> FALSE, groups |-> {}]
    PROVE  Store!Save
  BY DEF Store!Save, GroupsIn, GroupIn, Saved, FileGroups, Mine, SameIn, ContentIn, Same, ContentOf

\* an object with the groups of the file, or one without any, has been opened,
LEMMA StoreOpen ==
    ASSUME ~isOpen, isOpen', disk' = disk,
           GroupsIn(p)' = {} \/ (disk.ok /\ GroupsIn(p)' = FileGroups(disk))
    PROVE  Store!Open
<1>1. UNCHANGED Saved(disk)
  BY DEF Saved, FileGroups
<1> QED
  BY <1>1 DEF Store!Open, GroupsIn, GroupIn, Saved, FileGroups, Mine, SameIn, ContentIn, Same, ContentOf

\* and one that is gone has been closed.
LEMMA StoreClose ==
    ASSUME isOpen, ~isOpen', disk' = disk, GroupsIn(p)' = {}
    PROVE  Store!Close
<1>1. UNCHANGED Saved(disk)
  BY DEF Saved, FileGroups
<1> QED
  BY <1>1 DEF Store!Close, GroupsIn, GroupIn, Saved, FileGroups, Mine, SameIn, ContentIn, Same, ContentOf

\* As long as the file is the same, or when everything is loaded, an object is
\* after the step what it is before.
LEMMA SameFile ==
    ASSUME NEW r, Sound(r), p' = r, disk' = disk
    PROVE  Sound(p)' /\ GroupsIn(p)' = GroupsIn(r)
<1>1. Sound(p)'
  BY DEF Sound, Apart, AsRead, Filled, Mine, ContentIn, Loaded, Has, Value, AllLoaded
<1>2. \A s \in Mine(r) : GroupIn(p, s)' = GroupIn(r, s)
  BY DEF GroupIn, Mine, SameIn, ContentIn, Loaded, Has, Value
<1>3. Mine(p)' = Mine(r)
  BY DEF Mine
<1> QED BY <1>1, <1>2, <1>3 DEF GroupsIn

\* What all has been read does not depend on the file any more.
LEMMA LoadedFile ==
    ASSUME NEW r, Sound(r), AllLoaded(r), p' = r
    PROVE  Sound(p)' /\ GroupsIn(p)' = GroupsIn(r)
<1>1. \A s \in Mine(r) : Loaded(r, s) /\ Loaded(p, s)'
  BY DEF Mine, Loaded, Has, AllLoaded
<1>2. Sound(p)'
  BY <1>1 DEF Sound, Apart, AsRead, Filled, Mine, ContentIn, Loaded, Has, Value, AllLoaded
<1>3. \A s \in Mine(r) : GroupIn(p, s)' = GroupIn(r, s)
  BY <1>1 DEF GroupIn, Mine, SameIn, ContentIn, Value, Loaded, Has
<1>4. Mine(p)' = Mine(r)
  BY DEF Mine
<1> QED BY <1>2, <1>3, <1>4 DEF GroupsIn

\* The group of s is replaced by those of H, all others stay.
LEMMA Regroup ==
    ASSUME NEW r, NEW q, NEW s \in Mine(r), NEW H,
           \A t \in Mine(r) : ~SameIn(r, s, t) => t \in Mine(q) /\ GroupIn(q, t) = GroupIn(r, t),
           \A t \in Mine(q) : (t \in Mine(r) /\ ~SameIn(r, s, t)) \/ GroupIn(q, t) \in H,
           \A h \in H : \E t \in Mine(q) : h = GroupIn(q, t),
           \A t \in Mine(r) : SameIn(r, s, t) => GroupIn(r, t) = GroupIn(r, s)
    PROVE  GroupsIn(q) = (GroupsIn(r) \ {GroupIn(r, s)}) \cup H
<1>1. \A t \in Mine(r) : t \in GroupIn(r, t).names
  BY DEF GroupIn, SameIn
<1>2. \A t \in Mine(r) : ~SameIn(r, s, t) => t \notin GroupIn(r, s).names
  BY DEF GroupIn
<1>3. \A t \in Mine(r) : ~SameIn(r, s, t) => GroupIn(r, t) # GroupIn(r, s)
  BY <1>1, <1>2
<1>4. \A g \in GroupsIn(q) : g \in (GroupsIn(r) \ {GroupIn(r, s)}) \cup H
  BY <1>3 DEF GroupsIn
<1>5. \A g \in GroupsIn(r) \ {GroupIn(r, s)} : g \in GroupsIn(q)
  BY DEF GroupsIn
<1>6. \A g \in H : g \in GroupsIn(q)
  BY DEF GroupsIn
<1> QED BY <1>4, <1>5, <1>6

\* One of the programs' tags is read: it joins those that lie where it lies.
LEMMA Joins ==
    ASSUME NEW r, Good(r), Sound(r), NEW s \in Mine(r), ~Loaded(r, s), NEW q, NEW o \in Obj,
           q.tab = Put(r.tab, s, Tag(r.tab[s].at, o)),
           q.val[o] = disk.data[r.tab[s].at],
           \A t \in DOMAIN r.tab : Loaded(r, t) =>
               /\ q.val[r.tab[t].obj] = r.val[r.tab[t].obj]
               /\ r.tab[t].obj = o <=> r.tab[t].at = r.tab[s].at
    PROVE  Sound(q) /\ View(q, r)
<1>0. s \in DOMAIN r.tab /\ o # NoObj /\ ~AllLoaded(r) /\ r.tab[s].at \in DOMAIN disk.data
  BY ObjAssumption DEF Mine, AllLoaded, Loaded, Has, Good, Fits
<1>1. /\ DOMAIN q.tab = DOMAIN r.tab /\ q.tab[s].obj = o /\ q.tab[s].at = r.tab[s].at
      /\ \A t \in DOMAIN r.tab \ {s} : q.tab[t] = r.tab[t]
  BY <1>0 DEF Put, Tag
<1>2. /\ Mine(q) = Mine(r) /\ Loaded(q, s)
      /\ \A t \in DOMAIN r.tab \ {s} : Loaded(q, t) = Loaded(r, t)
      /\ \A t \in DOMAIN r.tab : q.tab[t].at = r.tab[t].at
  BY <1>0, <1>1 DEF Mine, Loaded, Has
<1>3. \A t \in DOMAIN r.tab : Loaded(q, t) => (q.tab[t].obj = o <=> q.tab[t].at = q.tab[s].at)
  BY <1>1, <1>2
<1>4. \A t \in DOMAIN r.tab \ {s} : Loaded(r, t) => Value(q, t) = Value(r, t)
  BY <1>1 DEF Value
<1>5. \A t \in Mine(r) : ContentIn(q, t) = ContentIn(r, t)
  BY <1>1, <1>2, <1>4 DEF ContentIn, Value, Mine
<1>6. \A a, b \in Mine(r) : SameIn(q, a, b) = SameIn(r, a, b)
  <2> TAKE a, b \in Mine(r)
  <2>0. a \in DOMAIN r.tab /\ b \in DOMAIN r.tab
    BY DEF Mine
  <2>1. CASE a = s
    BY <1>1, <1>2, <1>3, <2>0, <2>1 DEF SameIn
  <2>2. CASE b = s
    BY <1>1, <1>2, <1>3, <2>0, <2>2 DEF SameIn
  <2>3. CASE a # s /\ b # s
    BY <1>1, <1>2, <2>0, <2>3 DEF SameIn
  <2> QED BY <2>1, <2>2, <2>3
<1>7. View(q, r)
  BY <1>2, <1>5, <1>6 DEF View
<1>8. Apart(q)
  <2> SUFFICES ASSUME NEW m \in Mine(r), NEW t \in DOMAIN r.tab \ Plain
               PROVE  /\ Loaded(q, m) => q.tab[m].obj # q.tab[t].obj
                      /\ ~AllLoaded(q) => q.tab[m].at # q.tab[t].at
    BY <1>1, <1>2 DEF Apart
  <2>0. m \in DOMAIN r.tab /\ t # s /\ s \in Plain
    BY DEF Mine
  <2>1. q.tab[m].at # q.tab[t].at /\ q.tab[s].at # q.tab[t].at
    BY <1>0, <1>2, <2>0 DEF Sound, Apart
  <2>2. CASE m = s
    <3>1. CASE Loaded(q, t)
      BY <1>1, <1>3, <2>0, <2>1, <2>2, <3>1
    <3>2. CASE ~Loaded(q, t)
      <4>1. q.tab[t].obj = NoObj
        BY <1>1, <3>2 DEF Loaded, Has
      <4> QED BY <1>0, <1>1, <2>1, <2>2, <4>1
    <3> QED BY <3>1, <3>2
  <2>3. CASE m # s
    BY <1>1, <1>2, <2>0, <2>1, <2>3 DEF Sound, Apart
  <2> QED BY <2>2, <2>3
<1>9. AsRead(q)
  <2>1. \A t \in Mine(r) : q.tab[t].at # NoPlace
    BY <1>0, <1>2 DEF Sound, AsRead, Mine
  <2>2. ASSUME NEW t \in DOMAIN r.tab, Loaded(q, t), q.tab[t].at # NoPlace
        PROVE  q.tab[t].at \in DOMAIN disk.data /\ Value(q, t) = disk.data[q.tab[t].at]
    <3>1. CASE t = s
      BY <1>0, <1>1, <3>1 DEF Value
    <3>2. CASE t # s
      BY <1>0, <1>2, <1>4, <2>2, <3>2 DEF Sound, AsRead
    <3> QED BY <3>1, <3>2
  <2>3. ASSUME NEW a \in Mine(r), NEW b \in Mine(r), Loaded(q, a), Loaded(q, b)
        PROVE  q.tab[a].obj = q.tab[b].obj <=> q.tab[a].at = q.tab[b].at
    <3>0. a \in DOMAIN r.tab /\ b \in DOMAIN r.tab
      BY DEF Mine
    <3>1. CASE a = s
      BY <1>1, <1>3, <2>3, <3>0, <3>1
    <3>2. CASE b = s
      BY <1>1, <1>3, <2>3, <3>0, <3>2
    <3>3. CASE a # s /\ b # s
      BY <1>0, <1>1, <1>2, <2>3, <3>0, <3>3 DEF Sound, AsRead
    <3> QED BY <3>1, <3>2, <3>3
  <2> QED BY <1>1, <1>2, <2>1, <2>2, <2>3 DEF AsRead
<1>10. Filled(q)
  BY <1>2, <1>5 DEF Sound, Filled
<1> QED BY <1>7, <1>8, <1>9, <1>10 DEF Sound

\* Reading a tag on demand does not show (icc_read_tag_ix).
LEMMA ReadMine ==
    ASSUME NEW r, Good(r), Sound(r), NEW s \in Plain, Has(r, s), ~Loaded(r, s)
    PROVE  Sound(ReadTag(r, s)) /\ View(ReadTag(r, s), r)
<1> DEFINE q == ReadTag(r, s)
           at == r.tab[s].at
<1>0. /\ s \in Mine(r) /\ s \in DOMAIN r.tab /\ ~AllLoaded(r)
      /\ r.tab[s].obj = NoObj /\ r.val \in [Obj -> Vals]
  BY DEF Mine, Has, Loaded, AllLoaded, Good, IsObject
<1>1. CASE Peers(r, s) = {}
  <2>1. q = WithNew(r, s, at, disk.data[at], r.natural)
    BY <1>1 DEF ReadTag
  <2>2. \A t \in DOMAIN r.tab : Loaded(r, t) => r.tab[t].at # at
    BY <1>0, <1>1 DEF Peers
  <2> HIDE DEF q, at
  <2>3. \/ q.tab = r.tab /\ q.val = r.val
        \/ \E o \in Obj : /\ r.ref[o] = 0 /\ q.tab = Put(r.tab, s, Tag(at, o))
                          /\ q.val = [r.val EXCEPT ![o] = disk.data[at]]
    BY <2>1, NewIs
  <2>4. CASE q.tab = r.tab /\ q.val = r.val
    <3>1. Sound(q) /\ View(q, r)
      BY <2>4, FieldsAside
    <3> QED BY <3>1 DEF q
  <2>5. ASSUME NEW o \in Obj, r.ref[o] = 0, q.tab = Put(r.tab, s, Tag(at, o)),
               q.val = [r.val EXCEPT ![o] = disk.data[at]]
        PROVE  Sound(ReadTag(r, s)) /\ View(ReadTag(r, s), r)
    <3>1. \A t \in DOMAIN r.tab : r.tab[t].obj # o
      BY <2>5, FreeUnused
    <3>2. q.val[o] = disk.data[at] /\ \A x : x # o => q.val[x] = r.val[x]
      BY <1>0, <2>5
    <3>3. \A t \in DOMAIN r.tab : Loaded(r, t) =>
              /\ q.val[r.tab[t].obj] = r.val[r.tab[t].obj]
              /\ r.tab[t].obj = o <=> r.tab[t].at = r.tab[s].at
      BY <2>2, <3>1, <3>2 DEF at
    <3>4. Sound(q) /\ View(q, r)
      BY <1>0, <2>5, <3>2, <3>3, Joins DEF at
    <3> QED BY <3>4 DEF q
  <2> QED BY <2>3, <2>4, <2>5
<1>2. CASE Peers(r, s) # {}
  <2> DEFINE k == CHOOSE x \in Peers(r, s) : TRUE
             o == r.tab[k].obj
  <2>1. k \in DOMAIN r.tab /\ r.tab[k].at = at /\ Loaded(r, k)
    BY <1>2 DEF Peers
  <2>2. q = Share(r, s, at, k)
    BY <1>2 DEF ReadTag
  <2> HIDE DEF k, q
  <2>3. q.tab = Put(r.tab, s, Tag(at, o)) /\ q.val = r.val
    BY <2>2, ShareIs
  <2>4. k \in Mine(r) /\ o \in Obj /\ at # NoPlace
    BY <1>0, <2>1 DEF Sound, Apart, AsRead, Mine, Loaded, Has, Good, Fits, Entries
  <2>5. r.val[o] = disk.data[at]
    BY <1>0, <2>1, <2>4 DEF Sound, AsRead, Value
  <2>6. \A t \in DOMAIN r.tab : Loaded(r, t) => (r.tab[t].obj = o <=> r.tab[t].at = r.tab[s].at)
    <3> TAKE t \in DOMAIN r.tab
    <3>1. CASE t \in Plain
      BY <1>0, <2>1, <2>4, <3>1 DEF Sound, AsRead, Mine
    <3>2. CASE t \notin Plain
      BY <1>0, <2>1, <2>4, <3>2 DEF Sound, Apart
    <3> QED BY <3>1, <3>2
  <2> HIDE DEF o
  <2>7. Sound(q) /\ View(q, r)
    BY <1>0, <2>3, <2>4, <2>5, <2>6, Joins
  <2> QED BY <2>7 DEF q
<1> QED BY <1>1, <1>2

-----------------------------------------------------------------------------
(***************************************************************************)
(* The edits, when everything is loaded.                                   *)
(***************************************************************************)
LEMMA LoadedGroup ==
    ASSUME NEW r, AllLoaded(r), NEW s \in Mine(r)
    PROVE  /\ GroupIn(r, s) = [names |-> {t \in Mine(r) : r.tab[s].obj = r.tab[t].obj},
                               content |-> Value(r, s)]
           /\ \A t \in Mine(r) : SameIn(r, s, t) <=> r.tab[s].obj = r.tab[t].obj
<1>1. \A t \in Mine(r) : Loaded(r, t)
  BY DEF Mine, AllLoaded, Loaded, Has
<1>2. \A t \in Mine(r) : SameIn(r, s, t) <=> r.tab[s].obj = r.tab[t].obj
  BY <1>1 DEF SameIn
<1>3. {t \in Mine(r) : SameIn(r, s, t)} = {t \in Mine(r) : r.tab[s].obj = r.tab[t].obj}
  BY <1>2
<1> QED BY <1>1, <1>2, <1>3 DEF GroupIn, ContentIn

\* With everything read, only the sharing of elements is left to be sound.
LEMMA LoadedSound ==
    ASSUME NEW q, AllLoaded(q),
           \A m \in Mine(q), t \in DOMAIN q.tab \ Plain : q.tab[m].obj # q.tab[t].obj,
           \A m \in Mine(q) : Value(q, m) \in Contents
    PROVE  Sound(q)
  BY DEF Sound, Apart, AsRead, Filled, ContentIn, Mine, AllLoaded, Loaded, Has

\* What Sound says of such an object.
LEMMA SoundLoaded ==
    ASSUME NEW r, AllLoaded(r), Sound(r)
    PROVE  /\ \A m \in Mine(r), t \in DOMAIN r.tab \ Plain : r.tab[m].obj # r.tab[t].obj
           /\ \A m \in Mine(r) : Value(r, m) \in Contents
  BY DEF Sound, Apart, AsRead, Filled, ContentIn, Mine, AllLoaded, Loaded, Has

\* A content is changed under all names of its group.
LEMMA FillMine ==
    ASSUME NEW r, Good(r), Sound(r), AllLoaded(r), NEW s \in Mine(r), NEW v \in Contents,
           NEW q, q.tab = r.tab, q.val = [r.val EXCEPT ![r.tab[s].obj] = v]
    PROVE  /\ Sound(q)
           /\ GroupsIn(q) = (GroupsIn(r) \ {GroupIn(r, s)})
                            \cup {[names |-> GroupIn(r, s).names, content |-> v]}
<1> DEFINE o == r.tab[s].obj
           h == [names |-> GroupIn(r, s).names, content |-> v]
<1>1. o \in Obj /\ r.val \in [Obj -> Vals]
  BY DEF Good, IsObject, Fits, Entries, AllLoaded, Mine
<1>2. Mine(q) = Mine(r) /\ AllLoaded(q)
  BY DEF Mine, AllLoaded
<1>3. \A t \in Mine(r) : Value(q, t) = IF r.tab[t].obj = o THEN v ELSE Value(r, t)
  BY <1>1 DEF Value
<1>4. Sound(q)
  <2>1. \A m \in Mine(r) : Value(q, m) \in Contents
    BY <1>3, SoundLoaded
  <2>2. \A m \in Mine(r), t \in DOMAIN r.tab \ Plain : r.tab[m].obj # r.tab[t].obj
    BY SoundLoaded
  <2> QED BY <1>2, <2>1, <2>2, LoadedSound
<1>5. \A t \in Mine(r) : r.tab[t].obj # o => GroupIn(q, t) = GroupIn(r, t)
  <2> TAKE t \in Mine(r)
  <2> HAVE r.tab[t].obj # o
  <2>1. GroupIn(r, t) = [names |-> {x \in Mine(r) : r.tab[t].obj = r.tab[x].obj}, content |-> Value(r, t)]
    BY LoadedGroup
  <2>2. GroupIn(q, t) = [names |-> {x \in Mine(r) : r.tab[t].obj = r.tab[x].obj}, content |-> Value(q, t)]
    BY <1>2, LoadedGroup
  <2> QED BY <1>3, <2>1, <2>2
<1>6. \A t \in Mine(r) : r.tab[t].obj = o => GroupIn(q, t) = h /\ GroupIn(r, t) = GroupIn(r, s)
  <2> TAKE t \in Mine(r)
  <2> HAVE r.tab[t].obj = o
  <2>1. GroupIn(r, t) = [names |-> {x \in Mine(r) : o = r.tab[x].obj}, content |-> Value(r, t)]
    BY LoadedGroup
  <2>2. GroupIn(r, s) = [names |-> {x \in Mine(r) : o = r.tab[x].obj}, content |-> Value(r, s)]
    BY LoadedGroup
  <2>3. GroupIn(q, t) = [names |-> {x \in Mine(r) : o = r.tab[x].obj}, content |-> v]
    BY <1>2, <1>3, LoadedGroup
  <2> QED BY <2>1, <2>2, <2>3 DEF Value
<1>7. \A t \in Mine(r) : SameIn(r, s, t) <=> r.tab[t].obj = o
  BY LoadedGroup
<1> HIDE DEF o, h
<1>8. GroupsIn(q) = (GroupsIn(r) \ {GroupIn(r, s)}) \cup {h}
  <2> DEFINE H == {h}
  <2>1. \A t \in Mine(r) : ~SameIn(r, s, t) => t \in Mine(q) /\ GroupIn(q, t) = GroupIn(r, t)
    BY <1>2, <1>5, <1>7
  <2>2. \A t \in Mine(q) : (t \in Mine(r) /\ ~SameIn(r, s, t)) \/ GroupIn(q, t) \in H
    BY <1>2, <1>6, <1>7
  <2>3. \A t \in Mine(r) : SameIn(r, s, t) => GroupIn(r, t) = GroupIn(r, s)
    BY <1>6, <1>7
  <2>4. \A x \in H : \E t \in Mine(q) : x = GroupIn(q, t)
    BY <1>2, <1>6 DEF o
  <2> HIDE DEF H
  <2>5. GroupsIn(q) = (GroupsIn(r) \ {GroupIn(r, s)}) \cup H
    BY <2>1, <2>2, <2>3, <2>4, Regroup
  <2> QED BY <2>5 DEF H
<1> QED BY <1>4, <1>8 DEF h

\* A new tag is a group of its own.
LEMMA AddMine ==
    ASSUME NEW r, Good(r), Sound(r), AllLoaded(r), NEW s \in Plain, ~Has(r, s),
           NEW v \in Contents
    PROVE  /\ Sound(AddTag(r, s, v))
           /\ \/ GroupsIn(AddTag(r, s, v)) = GroupsIn(r)
              \/ GroupsIn(AddTag(r, s, v)) = GroupsIn(r) \cup {[names |-> {s}, content |-> v]}
<1> DEFINE nat == r.natural \/ s = "chad"
           q == AddTag(r, s, v)
           h == [names |-> {s}, content |-> v]
<1>1. q = WithNew(r, s, NoPlace, v, nat)
  BY DEF AddTag
<1>2. s \notin DOMAIN r.tab
  BY DEF Has
<1> HIDE DEF q, nat
<1>3. \/ q.tab = r.tab /\ q.val = r.val
      \/ \E o \in Obj : /\ r.ref[o] = 0 /\ q.tab = Put(r.tab, s, Tag(NoPlace, o))
                        /\ q.val = [r.val EXCEPT ![o] = v]
  BY <1>1, NewIs
<1>4. CASE q.tab = r.tab /\ q.val = r.val
  <2>1. Sound(q) /\ View(q, r)
    BY <1>4, FieldsAside
  <2>2. GroupsIn(q) = GroupsIn(r)
    BY <2>1, ViewGroups
  <2> QED BY <2>1, <2>2 DEF q
<1>5. ASSUME NEW o \in Obj, r.ref[o] = 0, q.tab = Put(r.tab, s, Tag(NoPlace, o)),
             q.val = [r.val EXCEPT ![o] = v]
      PROVE  Sound(q) /\ GroupsIn(q) = GroupsIn(r) \cup {h}
  <2>1. \A t \in DOMAIN r.tab : r.tab[t].obj # o
    BY <1>5, FreeUnused
  <2>2. /\ DOMAIN q.tab = DOMAIN r.tab \cup {s} /\ q.tab[s].obj = o
        /\ \A t \in DOMAIN r.tab : q.tab[t] = r.tab[t]
    BY <1>2, <1>5 DEF Put, Tag
  <2>3. r.val \in [Obj -> Vals] /\ q.val[o] = v /\ \A x : x # o => q.val[x] = r.val[x]
    BY <1>5 DEF Good, IsObject
  <2>4. AllLoaded(q)
    BY <2>2, ObjAssumption DEF AllLoaded
  <2>5. Mine(q) = Mine(r) \cup {s} /\ s \notin Mine(r) /\ Mine(r) \subseteq DOMAIN r.tab
    BY <1>2, <2>2 DEF Mine
  <2>6. /\ Value(q, s) = v
        /\ \A t \in Mine(r) : Value(q, t) = Value(r, t) /\ q.tab[t].obj = r.tab[t].obj /\ q.tab[t].obj # o
    BY <2>1, <2>2, <2>3, <2>5 DEF Value
  <2>7. Sound(q)
    <3>1. \A m \in Mine(q), t \in DOMAIN q.tab \ Plain : q.tab[m].obj # q.tab[t].obj
      <4>1. \A m \in Mine(r), t \in DOMAIN r.tab \ Plain : r.tab[m].obj # r.tab[t].obj
        BY SoundLoaded
      <4> QED BY <2>1, <2>2, <2>5, <4>1
    <3>2. \A m \in Mine(q) : Value(q, m) \in Contents
      BY <2>5, <2>6, SoundLoaded
    <3> QED BY <2>4, <3>1, <3>2, LoadedSound
  <2>8. \A t \in Mine(r) : GroupIn(q, t) = GroupIn(r, t)
    <3> TAKE t \in Mine(r)
    <3>1. {x \in Mine(q) : q.tab[t].obj = q.tab[x].obj} = {x \in Mine(r) : r.tab[t].obj = r.tab[x].obj}
      BY <2>2, <2>5, <2>6
    <3>2. t \in Mine(q)
      BY <2>5
    <3>3. GroupIn(q, t) = [names |-> {x \in Mine(q) : q.tab[t].obj = q.tab[x].obj}, content |-> Value(q, t)]
      BY <2>4, <3>2, LoadedGroup
    <3>4. GroupIn(r, t) = [names |-> {x \in Mine(r) : r.tab[t].obj = r.tab[x].obj}, content |-> Value(r, t)]
      BY LoadedGroup
    <3> QED BY <2>6, <3>1, <3>3, <3>4
  <2>9. GroupIn(q, s) = h
    <3>1. {x \in Mine(q) : q.tab[s].obj = q.tab[x].obj} = {s}
      BY <2>2, <2>5, <2>6
    <3>2. s \in Mine(q)
      BY <2>5
    <3> QED BY <2>4, <2>6, <3>1, <3>2, LoadedGroup
  <2> HIDE DEF h
  <2>10. GroupsIn(q) = GroupsIn(r) \cup {h}
    BY <2>5, <2>8, <2>9 DEF GroupsIn
  <2> QED BY <2>7, <2>10
<1> QED BY <1>3, <1>4, <1>5 DEF q

\* The group of s gets other names, or none and is gone.
KeptIf(names, content) == IF names = {} THEN {} ELSE {[names |-> names, content |-> content]}

\* One group gets other names and the others stay: links, renames and deletes.
LEMMA Renamed ==
    ASSUME NEW r, Sound(r), AllLoaded(r), NEW q, AllLoaded(q),
           NEW s \in Mine(r), NEW names, names \subseteq Mine(q),
           \A t \in Mine(r) : r.tab[t].obj # r.tab[s].obj =>
               t \in Mine(q) \ names /\ q.tab[t].obj = r.tab[t].obj /\ Value(q, t) = Value(r, t),
           \A t \in Mine(q) \ names : t \in Mine(r) /\ r.tab[t].obj # r.tab[s].obj,
           \A t \in names : q.tab[t].obj = r.tab[s].obj /\ Value(q, t) = Value(r, s),
           \A t \in DOMAIN q.tab \ Plain : t \in DOMAIN r.tab /\ q.tab[t] = r.tab[t]
    PROVE  /\ Sound(q)
           /\ GroupsIn(q) = (GroupsIn(r) \ {GroupIn(r, s)})
                            \cup KeptIf(names, GroupIn(r, s).content)
<1> DEFINE o == r.tab[s].obj
           c == GroupIn(r, s).content
           h == [names |-> names, content |-> c]
           H == KeptIf(names, c)
<1>0. c = Value(r, s)
  BY LoadedGroup
<1>1. Sound(q)
  <2>1. \A m \in Mine(q) : \E x \in Mine(r) : q.tab[m].obj = r.tab[x].obj /\ Value(q, m) = Value(r, x)
    OBVIOUS
  <2>2. /\ \A m \in Mine(r), t \in DOMAIN r.tab \ Plain : r.tab[m].obj # r.tab[t].obj
        /\ \A m \in Mine(r) : Value(r, m) \in Contents
    BY SoundLoaded
  <2>3. \A m \in Mine(q) : Value(q, m) \in Contents
    BY <2>1, <2>2
  <2>4. \A m \in Mine(q), t \in DOMAIN q.tab \ Plain : q.tab[m].obj # q.tab[t].obj
    BY <2>1, <2>2
  <2> QED BY <2>3, <2>4, LoadedSound
<1>2. \A t \in Mine(r) : SameIn(r, s, t) <=> r.tab[t].obj = o
  BY LoadedGroup
<1>3. \A t \in Mine(r) : r.tab[t].obj # o => GroupIn(q, t) = GroupIn(r, t)
  <2> TAKE t \in Mine(r)
  <2> HAVE r.tab[t].obj # o
  <2>1. GroupIn(r, t) = [names |-> {x \in Mine(r) : r.tab[t].obj = r.tab[x].obj}, content |-> Value(r, t)]
    BY LoadedGroup
  <2>2. GroupIn(q, t) = [names |-> {x \in Mine(q) : q.tab[t].obj = q.tab[x].obj}, content |-> Value(q, t)]
    BY LoadedGroup
  <2>3. {x \in Mine(q) : q.tab[t].obj = q.tab[x].obj} = {x \in Mine(r) : r.tab[t].obj = r.tab[x].obj}
    OBVIOUS
  <2> QED BY <2>1, <2>2, <2>3
<1>4. \A t \in names : GroupIn(q, t) = h
  <2> TAKE t \in names
  <2>1. GroupIn(q, t) = [names |-> {x \in Mine(q) : q.tab[t].obj = q.tab[x].obj}, content |-> Value(q, t)]
    BY LoadedGroup
  <2>2. {x \in Mine(q) : q.tab[t].obj = q.tab[x].obj} = names
    OBVIOUS
  <2> QED BY <1>0, <2>1, <2>2
<1>5. \A t \in Mine(r) : r.tab[t].obj = o => GroupIn(r, t) = GroupIn(r, s)
  <2> TAKE t \in Mine(r)
  <2> HAVE r.tab[t].obj = o
  <2>1. GroupIn(r, t) = [names |-> {x \in Mine(r) : o = r.tab[x].obj}, content |-> Value(r, t)]
    BY LoadedGroup
  <2>2. GroupIn(r, s) = [names |-> {x \in Mine(r) : o = r.tab[x].obj}, content |-> Value(r, s)]
    BY LoadedGroup
  <2> QED BY <2>1, <2>2 DEF Value
<1>6. H = IF names = {} THEN {} ELSE {h}
  BY DEF KeptIf
<1> HIDE DEF o, c, h, H
<1>7. GroupsIn(q) = (GroupsIn(r) \ {GroupIn(r, s)}) \cup H
  <2>1. \A t \in Mine(r) : ~SameIn(r, s, t) => t \in Mine(q) /\ GroupIn(q, t) = GroupIn(r, t)
    BY <1>2, <1>3 DEF o
  <2>2. \A t \in Mine(q) : (t \in Mine(r) /\ ~SameIn(r, s, t)) \/ GroupIn(q, t) \in H
    BY <1>2, <1>4, <1>6 DEF o
  <2>3. \A t \in Mine(r) : SameIn(r, s, t) => GroupIn(r, t) = GroupIn(r, s)
    BY <1>2, <1>5
  <2>4. \A x \in H : \E t \in Mine(q) : x = GroupIn(q, t)
    BY <1>4, <1>6
  <2> QED BY <2>1, <2>2, <2>3, <2>4, Regroup
<1> QED BY <1>1, <1>7 DEF H, c

\* A link is one more name,
LEMMA LinkMine ==
    ASSUME NEW r, Good(r), Sound(r), AllLoaded(r), NEW s \in Plain, ~Has(r, s), NEW ex \in Mine(r)
    PROVE  /\ Sound(LinkTag(r, s, ex))
           /\ GroupsIn(LinkTag(r, s, ex)) = (GroupsIn(r) \ {GroupIn(r, ex)})
                 \cup KeptIf(GroupIn(r, ex).names \cup {s}, GroupIn(r, ex).content)
<1> DEFINE q == LinkTag(r, s, ex)
           names == GroupIn(r, ex).names \cup {s}
           at == r.tab[ex].at
<1>1. q = Share(r, s, at, ex)
  BY DEF LinkTag
<1>2. s \notin DOMAIN r.tab /\ ex \in DOMAIN r.tab
  BY DEF Has, Mine
<1>3. GroupIn(r, ex).names = {t \in Mine(r) : r.tab[ex].obj = r.tab[t].obj}
  BY LoadedGroup
<1> HIDE DEF q, at
<1>4. q.tab = Put(r.tab, s, Tag(at, r.tab[ex].obj)) /\ q.val = r.val
  BY <1>1, ShareIs
<1>5. /\ DOMAIN q.tab = DOMAIN r.tab \cup {s} /\ q.tab[s].obj = r.tab[ex].obj
      /\ \A t \in DOMAIN r.tab : q.tab[t] = r.tab[t]
  BY <1>2, <1>4 DEF Put, Tag
<1>6. Mine(q) = Mine(r) \cup {s} /\ AllLoaded(q) /\ s \notin Mine(r)
  BY <1>2, <1>5 DEF Mine, AllLoaded
<1>7. Value(q, s) = Value(r, ex) /\ \A t \in Mine(r) : Value(q, t) = Value(r, t)
  BY <1>4, <1>5 DEF Value, Mine
<1>8. names = {t \in Mine(r) : r.tab[ex].obj = r.tab[t].obj} \cup {s}
  BY <1>3
<1> HIDE DEF names
<1>a. names \subseteq Mine(q)
  BY <1>6, <1>8
<1>b. \A t \in Mine(r) : r.tab[t].obj # r.tab[ex].obj =>
         t \in Mine(q) \ names /\ q.tab[t].obj = r.tab[t].obj /\ Value(q, t) = Value(r, t)
  BY <1>5, <1>6, <1>7, <1>8 DEF Mine
<1>c. \A t \in Mine(q) \ names : t \in Mine(r) /\ r.tab[t].obj # r.tab[ex].obj
  BY <1>6, <1>8
<1>d. \A t \in names : q.tab[t].obj = r.tab[ex].obj /\ Value(q, t) = Value(r, ex)
  BY <1>4, <1>5, <1>7, <1>8 DEF Mine, Value
<1>e. \A t \in DOMAIN q.tab \ Plain : t \in DOMAIN r.tab /\ q.tab[t] = r.tab[t]
  BY <1>5
<1>f. Sound(q) /\ GroupsIn(q) = (GroupsIn(r) \ {GroupIn(r, ex)}) \cup KeptIf(names, GroupIn(r, ex).content)
  BY <1>6, <1>a, <1>b, <1>c, <1>d, <1>e, Renamed
<1> QED BY <1>f DEF q, names

\* a deletion one less,
LEMMA DeleteMine ==
    ASSUME NEW r, Good(r), Sound(r), AllLoaded(r), NEW s \in Mine(r)
    PROVE  /\ Sound(DeleteTag(r, s))
           /\ GroupsIn(DeleteTag(r, s)) = (GroupsIn(r) \ {GroupIn(r, s)})
                 \cup KeptIf(GroupIn(r, s).names \ {s}, GroupIn(r, s).content)
<1> DEFINE q == DeleteTag(r, s)
           names == GroupIn(r, s).names \ {s}
<1>1. q = DeleteTag(r, s)
  OBVIOUS
<1>2. s \in DOMAIN r.tab /\ Has(r, s) /\ s \in Plain
  BY DEF Has, Mine
<1>3. GroupIn(r, s).names = {t \in Mine(r) : r.tab[s].obj = r.tab[t].obj}
  BY LoadedGroup
<1>4. names = {t \in Mine(r) \ {s} : r.tab[s].obj = r.tab[t].obj}
  BY <1>3
<1> HIDE DEF q, names
<1>5. /\ q.tab = Restrict(r.tab, DOMAIN r.tab \ {s})
      /\ \A t \in DOMAIN r.tab \ {s} : q.val[r.tab[t].obj] = r.val[r.tab[t].obj]
  BY <1>1, <1>2, DeletedWithout DEF Without
<1>6. DOMAIN q.tab = DOMAIN r.tab \ {s} /\ \A t \in DOMAIN q.tab : q.tab[t] = r.tab[t]
  BY <1>5 DEF Restrict
<1>7. Mine(q) = Mine(r) \ {s} /\ AllLoaded(q)
  BY <1>6 DEF Mine, AllLoaded
<1>8. \A t \in Mine(q) : q.tab[t].obj = r.tab[t].obj /\ Value(q, t) = Value(r, t)
  BY <1>5, <1>6 DEF Value, Mine
<1>a. names \subseteq Mine(q)
  BY <1>4, <1>7
<1>b. \A t \in Mine(r) : r.tab[t].obj # r.tab[s].obj =>
         t \in Mine(q) \ names /\ q.tab[t].obj = r.tab[t].obj /\ Value(q, t) = Value(r, t)
  BY <1>4, <1>7, <1>8
<1>c. \A t \in Mine(q) \ names : t \in Mine(r) /\ r.tab[t].obj # r.tab[s].obj
  BY <1>4, <1>7
<1>d. \A t \in names : q.tab[t].obj = r.tab[s].obj /\ Value(q, t) = Value(r, s)
  BY <1>4, <1>7, <1>8 DEF Value
<1>e. \A t \in DOMAIN q.tab \ Plain : t \in DOMAIN r.tab /\ q.tab[t] = r.tab[t]
  BY <1>6
<1>f. Sound(q) /\ GroupsIn(q) = (GroupsIn(r) \ {GroupIn(r, s)}) \cup KeptIf(names, GroupIn(r, s).content)
  BY <1>7, <1>a, <1>b, <1>c, <1>d, <1>e, Renamed
<1> QED BY <1>f DEF q, names

\* and a renaming another one.
LEMMA RenameMine ==
    ASSUME NEW r, Good(r), Sound(r), AllLoaded(r), NEW s \in Mine(r), NEW new \in Plain, ~Has(r, new)
    PROVE  /\ Sound(RenameTag(r, s, new))
           /\ GroupsIn(RenameTag(r, s, new)) = (GroupsIn(r) \ {GroupIn(r, s)})
                 \cup KeptIf((GroupIn(r, s).names \ {s}) \cup {new}, GroupIn(r, s).content)
<1> DEFINE q == RenameTag(r, s, new)
           names == (GroupIn(r, s).names \ {s}) \cup {new}
           tab == Put(Restrict(r.tab, DOMAIN r.tab \ {s}), new, r.tab[s])
<1>1. q = [r EXCEPT !.tab = tab]
  BY DEF RenameTag
<1>2. s \in DOMAIN r.tab /\ s \in Plain /\ new \notin DOMAIN r.tab
  BY DEF Has, Mine
<1>3. GroupIn(r, s).names = {t \in Mine(r) : r.tab[s].obj = r.tab[t].obj}
  BY LoadedGroup
<1>4. names = {t \in Mine(r) \ {s} : r.tab[s].obj = r.tab[t].obj} \cup {new}
  BY <1>3
<1>5. /\ DOMAIN tab = (DOMAIN r.tab \ {s}) \cup {new} /\ tab[new] = r.tab[s]
      /\ \A t \in DOMAIN r.tab \ {s} : tab[t] = r.tab[t]
  BY <1>2 DEF Put, Restrict
<1> HIDE DEF q, names, tab
<1>6. q.tab = tab /\ q.val = r.val
  BY <1>1 DEF Good, IsObject
<1>7. Mine(q) = (Mine(r) \ {s}) \cup {new} /\ AllLoaded(q) /\ new \notin Mine(r)
  BY <1>2, <1>5, <1>6 DEF Mine, AllLoaded
<1>8. /\ q.tab[new].obj = r.tab[s].obj /\ Value(q, new) = Value(r, s)
      /\ \A t \in Mine(r) \ {s} : q.tab[t].obj = r.tab[t].obj /\ Value(q, t) = Value(r, t)
  BY <1>5, <1>6 DEF Value, Mine
<1>a. names \subseteq Mine(q)
  BY <1>4, <1>7
<1>b. \A t \in Mine(r) : r.tab[t].obj # r.tab[s].obj =>
         t \in Mine(q) \ names /\ q.tab[t].obj = r.tab[t].obj /\ Value(q, t) = Value(r, t)
  BY <1>4, <1>7, <1>8
<1>c. \A t \in Mine(q) \ names : t \in Mine(r) /\ r.tab[t].obj # r.tab[s].obj
  BY <1>4, <1>7
<1>d. \A t \in names : q.tab[t].obj = r.tab[s].obj /\ Value(q, t) = Value(r, s)
  <2>1. \A t \in Mine(r) : r.tab[s].obj = r.tab[t].obj => Value(r, t) = Value(r, s)
    BY DEF Value
  <2> QED BY <1>4, <1>8, <2>1
<1>e. \A t \in DOMAIN q.tab \ Plain : t \in DOMAIN r.tab /\ q.tab[t] = r.tab[t]
  BY <1>2, <1>5, <1>6
<1>f. Sound(q) /\ GroupsIn(q) = (GroupsIn(r) \ {GroupIn(r, s)}) \cup KeptIf(names, GroupIn(r, s).content)
  BY <1>7, <1>a, <1>b, <1>c, <1>d, <1>e, Renamed
<1> QED BY <1>f DEF q, names

-----------------------------------------------------------------------------
(***************************************************************************)
(* Files and the objects that are read from them and written to them.      *)
(***************************************************************************)
LEMMA TableAside ==
    ASSUME NEW r, Good(r), IsFile(disk), FileApart(disk)
    PROVE  Sound(ReadTable(r)) /\ GroupsIn(ReadTable(r)) = FileGroups(disk)
<1> DEFINE q == ReadTable(r)
           tab == [s \in DOMAIN disk.tab |-> Tag(disk.tab[s], NoObj)]
<1>1. q = [r EXCEPT !.tab = tab]
  BY DEF ReadTable
<1>2. DOMAIN tab = DOMAIN disk.tab
      /\ \A s \in DOMAIN disk.tab : tab[s].at = disk.tab[s] /\ tab[s].obj = NoObj
  BY DEF Tag
<1> HIDE DEF q, tab
<1>3. q.tab = tab
  BY <1>1 DEF Good, IsObject
<1>4. Mine(q) = DOMAIN disk.tab \cap Plain /\ \A s : ~Loaded(q, s)
  BY <1>2, <1>3 DEF Mine, Loaded, Has
<1>5. \A s \in DOMAIN disk.tab : q.tab[s].at = disk.tab[s] /\ disk.tab[s] \in DOMAIN disk.data
                                 /\ disk.tab[s] # NoPlace
  BY <1>2, <1>3, PlaceAssumption DEF IsFile
<1>6. Sound(q)
  BY <1>2, <1>3, <1>4, <1>5 DEF Sound, Apart, AsRead, Filled, ContentIn, FileApart
<1>7. \A s \in Mine(q) : GroupIn(q, s) =
          [names |-> {t \in DOMAIN disk.tab \cap Plain : disk.tab[s] = disk.tab[t]},
           content |-> disk.data[disk.tab[s]]]
  BY <1>4, <1>5 DEF GroupIn, SameIn, ContentIn
<1>8. GroupsIn(q) = FileGroups(disk)
  BY <1>4, <1>7 DEF GroupsIn, FileGroups
<1> QED BY <1>6, <1>8 DEF q

\* What icc_read does on its own does not show: 'arts' is read,
LEMMA ReadArtsAside ==
    ASSUME NEW r, Good(r), Sound(r), IsFile(disk)
    PROVE  Sound(ReadArts(r)) /\ View(ReadArts(r), r)
<1> DEFINE t == ReadTag(r, "arts")
           b == Has(r, "arts")
           q == ReadArts(r)
<1>1. Good(t) /\ Sound(t) /\ View(t, r)
  BY NotMine, ReadFits, ReadAside
<1>2. q = [t EXCEPT !.useArts = b]
  BY DEF ReadArts
<1> HIDE DEF t, b, q
<1>3. q.tab = t.tab /\ q.val = t.val
  BY <1>1, <1>2 DEF Good, IsObject
<1>4. Sound(q) /\ View(q, t)
  BY <1>1, <1>3, FieldsAside
<1> QED BY <1>1, <1>4, ViewChain DEF q

\* and 'chad', which may replace the white point.
LEMMA ReadChadAside ==
    ASSUME NEW r, Good(r), Sound(r), IsFile(disk)
    PROVE  Sound(ReadChad(r)) /\ View(ReadChad(r), r)
<1> DEFINE t == ReadTag(r, "chad")
           v == Value(t, "chad")
           q == ReadChad(r)
<1>1. Good(t) /\ Sound(t) /\ View(t, r)
  BY NotMine, ReadFits, ReadAside
<1>2. q = t \/ q = [t EXCEPT !.natural = TRUE, !.mxValid = TRUE, !.chadmx = v]
  BY DEF ReadChad
<1> HIDE DEF t, v, q
<1>3. q.tab = t.tab /\ q.val = t.val
  BY <1>1, <1>2 DEF Good, IsObject
<1>4. Sound(q) /\ View(q, t)
  BY <1>1, <1>3, FieldsAside
<1> QED BY <1>1, <1>4, ViewChain DEF q

\* Every tag has the place of one tag of its element.
Laid(z) ==
    /\ \A s \in DOMAIN z.tab : /\ z.tab[s].at \in DOMAIN z.tab
                               /\ z.tab[z.tab[s].at].obj = z.tab[s].obj
    /\ \A s, t \in DOMAIN z.tab : z.tab[s].at = z.tab[t].at <=> z.tab[s].obj = z.tab[t].obj

\* After a get_size that succeeded each element has a place of its own.
LEMMA SizeLaid ==
    ASSUME NEW r, Good(r), AllLoaded(r), IsFile(disk), ~GetSize(r).err
    PROVE  Laid(GetSize(r))
<1> DEFINE q == AddAutoTags(r, FALSE)
           z == Layout(q)
<1>1. Good(q) /\ AllLoaded(q)
  BY AutoFits
<1>2. GetSize(r) = RemTempTags(z)
  BY <1>1 DEF GetSize
<1> HIDE DEF q
<1>3. Good(z)
  BY <1>1, LayoutFits
<1>4. /\ DOMAIN z.tab = DOMAIN q.tab
      /\ \A s \in DOMAIN q.tab : z.tab[s].obj = q.tab[s].obj
      /\ \A s, t \in DOMAIN q.tab : z.tab[s].at = z.tab[t].at <=> q.tab[s].obj = q.tab[t].obj
      /\ \A s \in DOMAIN q.tab : z.tab[s].at \in DOMAIN q.tab /\ q.tab[z.tab[s].at].obj = q.tab[s].obj
  BY <1>1, LayoutIs
<1> HIDE DEF z
<1>5. GetSize(r) = z
  BY <1>2, <1>3, NothingRemoved
<1>6. Laid(z)
  BY <1>4 DEF Laid
<1> QED BY <1>5, <1>6

\* A file written from such an object has the groups of the object.
LEMMA FileAside ==
    ASSUME NEW z, Good(z), Sound(z), AllLoaded(z), Laid(z)
    PROVE  FileApart(FileOf(z)) /\ Saved(FileOf(z)) = [ok |-> TRUE, groups |-> GroupsIn(z)]
<1> DEFINE places == {z.tab[s].at : s \in DOMAIN z.tab}
           data == [q \in places |-> Value(z, q)]
           f == FileOf(z)
<1>1. f.ok = TRUE /\ f.tab = [s \in DOMAIN z.tab |-> z.tab[s].at] /\ f.data = data
  BY DEF FileOf
<1>2. \A s \in DOMAIN z.tab : data[z.tab[s].at] = Value(z, s)
  BY DEF Laid, Value
<1> HIDE DEF f, data
<1>3. DOMAIN f.tab = DOMAIN z.tab
      /\ \A s \in DOMAIN z.tab : f.tab[s] = z.tab[s].at /\ f.data[f.tab[s]] = Value(z, s)
  BY <1>1, <1>2
<1>4. FileApart(f)
  <2>1. /\ \A m \in Mine(z), t \in DOMAIN z.tab \ Plain : z.tab[m].obj # z.tab[t].obj
        /\ \A m \in Mine(z) : Value(z, m) \in Contents
    BY SoundLoaded
  <2> QED BY <1>3, <2>1 DEF FileApart, Laid, Mine
<1> DEFINE grp(s) == [names |-> {t \in DOMAIN f.tab \cap Plain : f.tab[s] = f.tab[t]},
                      content |-> f.data[f.tab[s]]]
<1>5. \A s \in Mine(z) : GroupIn(z, s) = grp(s)
  <2> TAKE s \in Mine(z)
  <2>1. GroupIn(z, s) = [names |-> {t \in Mine(z) : z.tab[s].obj = z.tab[t].obj}, content |-> Value(z, s)]
    BY LoadedGroup
  <2>2. {t \in Mine(z) : z.tab[s].obj = z.tab[t].obj}
           = {t \in DOMAIN f.tab \cap Plain : f.tab[s] = f.tab[t]}
    BY <1>3 DEF Laid, Mine
  <2> QED BY <1>3, <2>1, <2>2 DEF Mine
<1>6. FileGroups(f) = GroupsIn(z)
  <2>1. FileGroups(f) = {grp(s) : s \in Mine(z)}
    BY <1>3 DEF FileGroups, Mine
  <2> HIDE DEF grp
  <2> QED BY <1>5, <2>1 DEF GroupsIn
<1> QED BY <1>1, <1>4, <1>6 DEF f, Saved

\* A file holds groups of the programs' tags.
LEMMA FileStore ==
    ASSUME NEW f, IsFile(f), FileApart(f)
    PROVE  Saved(f) \in [ok : BOOLEAN, groups : {gs \in SUBSET Store!Groups : Store!Disjoint(gs)}]
<1> DEFINE own == DOMAIN f.tab \cap Plain
           grp(s) == [names |-> {t \in own : f.tab[s] = f.tab[t]}, content |-> f.data[f.tab[s]]]
<1>1. FileGroups(f) = {grp(s) : s \in own}
  BY DEF FileGroups
<1>2. \A s \in own : grp(s) \in Store!Groups
  <2> TAKE s \in own
  <2>1. s \in grp(s).names /\ grp(s).names \in SUBSET Plain
    OBVIOUS
  <2>2. grp(s).content \in Contents
    BY DEF FileApart
  <2> HIDE DEF own
  <2> QED BY <2>1, <2>2 DEF Store!Groups
<1>3. \A s, t \in own : grp(s).names \cap grp(t).names # {} => grp(s) = grp(t)
  <2> TAKE s, t \in own
  <2> HAVE grp(s).names \cap grp(t).names # {}
  <2>1. f.tab[s] = f.tab[t]
    OBVIOUS
  <2> QED BY <2>1
<1>4. f.ok \in BOOLEAN
  BY DEF IsFile
<1> HIDE DEF grp, own
<1>5. FileGroups(f) \in SUBSET Store!Groups /\ Store!Disjoint(FileGroups(f))
  BY <1>1, <1>2, <1>3 DEF Store!Disjoint
<1> QED BY <1>4, <1>5 DEF Saved

-----------------------------------------------------------------------------
(***************************************************************************)
(* Every step is an operation on the groups, or none.                      *)
(***************************************************************************)
LEMMA Unseen ==
    ASSUME NEW r, Sound(r), View(r, p), p' = r, UNCHANGED <<isOpen, disk>>
    PROVE  Sound(p)' /\ UNCHANGED Store!vars
<1>1. Sound(p)' /\ GroupsIn(p)' = GroupsIn(r)
  BY SameFile
<1>2. GroupsIn(r) = GroupsIn(p)
  BY ViewGroups
<1> QED BY <1>1, <1>2, StoreSame

\* The groups Store!Next chooses from are those of p.
LEMMA StoreChoice ==
    ASSUME NEW g \in GroupsIn(p),
           \/ \E c \in Contents : Store!Fill(g, c)
           \/ \E n \in Plain : Store!Link(g, n) \/ Store!Delete(g, n)
           \/ \E n, m \in Plain : Store!Rename(g, n, m)
    PROVE  Store!Next
  BY DEF Store!Next, GroupsIn, GroupIn, Mine, SameIn, ContentIn, Same, ContentOf

\* A name that is free is in none of them.
LEMMA StoreLink ==
    ASSUME NEW g, NEW n, ~Has(p, n),
           Store!Edit({g}, {[names |-> g.names \cup {n}, content |-> g.content]})
    PROVE  Store!Link(g, n)
<1>1. \A s \in Mine(p) : n \notin GroupIn(p, s).names
  BY DEF GroupIn, Mine, Has
<1> QED
  BY <1>1 DEF Store!Link, Store!Group, GroupIn, Mine, SameIn, ContentIn, Same, ContentOf

\* A tag that is new is a group of its own.
LEMMA StoreAdd ==
    ASSUME NEW n, NEW c, ~Has(p, n), Store!Edit({}, {[names |-> {n}, content |-> c]})
    PROVE  Store!Add(n, c)
<1>1. \A s \in Mine(p) : n \notin GroupIn(p, s).names
  BY DEF GroupIn, Mine, Has
<1> QED
  BY <1>1 DEF Store!Add, Store!Group, GroupIn, Mine, SameIn, ContentIn, Same, ContentOf

\* A name exchanged in a group is a rename.
LEMMA StoreRename ==
    ASSUME NEW g, NEW n, NEW m, n \in g.names, ~Has(p, m),
           Store!Edit({g}, {[names |-> (g.names \ {n}) \cup {m}, content |-> g.content]})
    PROVE  Store!Rename(g, n, m)
<1>1. \A s \in Mine(p) : m \notin GroupIn(p, s).names
  BY DEF GroupIn, Mine, Has
<1> QED
  BY <1>1 DEF Store!Rename, Store!Group, GroupIn, Mine, SameIn, ContentIn, Same, ContentOf

\* An edit of the group of s.
LEMMA StoreKept ==
    ASSUME NEW s \in Mine(p), NEW r, Sound(r), isOpen, p' = r, UNCHANGED <<isOpen, disk>>,
           NEW h,
           GroupsIn(r) = (GroupsIn(p) \ {GroupIn(p, s)}) \cup h
    PROVE  /\ Sound(p)'
           /\ GroupIn(p, s) \in GroupsIn(p)
           /\ Store!Edit({GroupIn(p, s)}, h)
<1>1. Sound(p)' /\ GroupsIn(p)' = GroupsIn(r)
  BY SameFile
<1>2. GroupIn(p, s) \in GroupsIn(p)
  BY DEF GroupsIn
<1>3. {GroupIn(p, s)} \subseteq GroupsIn(p)
  BY <1>2
<1>4. GroupsIn(p)' = (GroupsIn(p) \ {GroupIn(p, s)}) \cup h
  BY <1>1
<1>5. Store!Edit({GroupIn(p, s)}, h)
  BY <1>3, <1>4, StoreEdit
<1> QED BY <1>1, <1>2, <1>5

FullInv == Inv /\ Sound(p) /\ FileApart(disk)

\* The edits of the programs are edits of the store.
LEMMA EditStore ==
    ASSUME FullInv, NEW s \in Plain,
           \/ Delete(s)
           \/ \E v \in Contents : Add(s, v) \/ SetContent(s, v)
           \/ \E t \in Plain : Link(s, t) \/ Rename(s, t)
    PROVE  Sound(p)' /\ (Store!Next \/ UNCHANGED Store!vars)
<1>g. Good(p) /\ Sound(p) /\ AllLoaded(p) /\ isOpen /\ UNCHANGED <<isOpen, disk>>
  BY DEF FullInv, Inv, Delete, Add, SetContent, Link, Rename, Becomes, Usable, Editable
<1>1. CASE Delete(s)
  <2> DEFINE r == DeleteTag(p, s)
             g == GroupIn(p, s)
             h == KeptIf(g.names \ {s}, g.content)
  <2>1. s \in Mine(p) /\ p' = r
    BY <1>1 DEF Delete, Mine, Has, Becomes
  <2>2. Sound(r) /\ GroupsIn(r) = (GroupsIn(p) \ {g}) \cup h
    BY <1>g, <2>1, DeleteMine
  <2>3. s \in g.names
    BY <2>1 DEF GroupIn, SameIn
  <2>4. h = Store!Kept(Store!Group(g.names \ {s}, g.content))
    BY DEF KeptIf, Store!Kept, Store!Group
  <2> HIDE DEF r, h
  <2>5. Sound(p)' /\ g \in GroupsIn(p) /\ Store!Edit({g}, h)
    BY <1>g, <2>1, <2>2, StoreKept
  <2> HIDE DEF g
  <2>6. Store!Delete(g, s)
    BY <2>3, <2>4, <2>5 DEF Store!Delete
  <2> QED BY <2>5, <2>6, StoreChoice
<1>2. ASSUME NEW v \in Contents, Add(s, v)
      PROVE  Sound(p)' /\ (Store!Next \/ UNCHANGED Store!vars)
  <2> DEFINE r == AddTag(p, s, v)
             h == [names |-> {s}, content |-> v]
  <2>1. ~Has(p, s) /\ p' = r
    BY <1>2 DEF Add, Becomes
  <2>2. Sound(r) /\ (GroupsIn(r) = GroupsIn(p) \/ GroupsIn(r) = GroupsIn(p) \cup {h})
    BY <1>g, <2>1, AddMine
  <2> HIDE DEF r
  <2>3. Sound(p)' /\ GroupsIn(p)' = GroupsIn(r)
    BY <1>g, <2>1, <2>2, SameFile
  <2>4. CASE GroupsIn(r) = GroupsIn(p)
    BY <1>g, <2>3, <2>4, StoreSame
  <2>5. CASE GroupsIn(r) = GroupsIn(p) \cup {h}
    <3> HIDE DEF h
    <3>1. GroupsIn(p)' = (GroupsIn(p) \ {}) \cup {h}
      BY <2>3, <2>5
    <3>2. Store!Edit({}, {h})
      BY <1>g, <3>1, StoreEdit
    <3>3. Store!Add(s, v)
      BY <2>1, <3>2, StoreAdd DEF h
    <3> QED BY <2>3, <3>3 DEF Store!Next
  <2> QED BY <2>2, <2>4, <2>5
<1>3. ASSUME NEW v \in Contents, SetContent(s, v)
      PROVE  Sound(p)' /\ (Store!Next \/ UNCHANGED Store!vars)
  <2> DEFINE r == [p EXCEPT !.val[p.tab[s].obj] = v]
             g == GroupIn(p, s)
             h == {[names |-> g.names, content |-> v]}
  <2>1. s \in Mine(p) /\ p' = r
    BY <1>3 DEF SetContent, Mine, Has, Becomes
  <2>2. r = [p EXCEPT !.val[p.tab[s].obj] = v]
    OBVIOUS
  <2> HIDE DEF r
  <2>3. r.tab = p.tab /\ r.val = [p.val EXCEPT ![p.tab[s].obj] = v]
    BY <1>g, <2>2 DEF Good, IsObject
  <2>4. Sound(r) /\ GroupsIn(r) = (GroupsIn(p) \ {g}) \cup h
    BY <1>g, <2>1, <2>3, FillMine
  <2>5. h = {Store!Group(g.names, v)}
    BY DEF Store!Group
  <2> HIDE DEF h
  <2>6. Sound(p)' /\ g \in GroupsIn(p) /\ Store!Edit({g}, h)
    BY <1>g, <2>1, <2>4, StoreKept
  <2> HIDE DEF g
  <2>7. Store!Fill(g, v)
    BY <2>5, <2>6 DEF Store!Fill
  <2> QED BY <2>6, <2>7, StoreChoice
<1>4. ASSUME NEW t \in Plain, Link(s, t)
      PROVE  Sound(p)' /\ (Store!Next \/ UNCHANGED Store!vars)
  <2> DEFINE r == LinkTag(p, s, t)
             g == GroupIn(p, t)
             h == KeptIf(g.names \cup {s}, g.content)
  <2>1. t \in Mine(p) /\ ~Has(p, s) /\ p' = r
    BY <1>4 DEF Link, Mine, Has, Becomes
  <2>2. Sound(r) /\ GroupsIn(r) = (GroupsIn(p) \ {g}) \cup h
    BY <1>g, <2>1, LinkMine
  <2>3. h = {[names |-> g.names \cup {s}, content |-> g.content]}
    <3> HIDE DEF g
    <3> QED BY DEF KeptIf
  <2> HIDE DEF r, h
  <2>4. Sound(p)' /\ g \in GroupsIn(p) /\ Store!Edit({g}, h)
    BY <1>g, <2>1, <2>2, StoreKept
  <2> HIDE DEF g
  <2>5. Store!Link(g, s)
    BY <2>1, <2>3, <2>4, StoreLink
  <2> QED BY <2>4, <2>5, StoreChoice
<1>5. ASSUME NEW t \in Plain, Rename(s, t)
      PROVE  Sound(p)' /\ (Store!Next \/ UNCHANGED Store!vars)
  <2> DEFINE r == RenameTag(p, s, t)
             g == GroupIn(p, s)
             h == KeptIf((g.names \ {s}) \cup {t}, g.content)
  <2>1. s \in Mine(p) /\ ~Has(p, t) /\ p' = r
    BY <1>5 DEF Rename, Mine, Has, Becomes
  <2>2. Sound(r) /\ GroupsIn(r) = (GroupsIn(p) \ {g}) \cup h
    BY <1>g, <2>1, RenameMine
  <2>3. h = {[names |-> (g.names \ {s}) \cup {t}, content |-> g.content]}
    <3> HIDE DEF g
    <3> QED BY DEF KeptIf
  <2>4. s \in g.names
    BY <2>1 DEF GroupIn, SameIn
  <2> HIDE DEF r, h
  <2>5. Sound(p)' /\ g \in GroupsIn(p) /\ Store!Edit({g}, h)
    BY <1>g, <2>1, <2>2, StoreKept
  <2> HIDE DEF g
  <2>6. Store!Rename(g, s, t)
    BY <2>1, <2>3, <2>4, <2>5, StoreRename
  <2> QED BY <2>5, <2>6, StoreChoice
<1> QED BY <1>1, <1>2, <1>3, <1>4, <1>5

\* Opening, closing and writing are those of the store.
LEMMA OpenStore ==
    ASSUME FullInv, New \/ Open \/ Close
    PROVE  Sound(p)' /\ Store!Next
<1>g. Good(p) /\ Sound(p) /\ IsFile(disk) /\ FileApart(disk) /\ isOpen \in BOOLEAN
  BY DEF FullInv, Inv
<1>e. DOMAIN <<>> = {}
  OBVIOUS
<1>1. ASSUME p'.tab = <<>> PROVE Sound(p)' /\ GroupsIn(p)' = {}
  <2>1. Mine(p)' = {} /\ AllLoaded(p)'
    BY <1>1, <1>e DEF Mine, AllLoaded
  <2> QED BY <2>1 DEF Sound, Apart, AsRead, Filled, GroupsIn
<1>2. CASE New
  <2>1. PICK wrD \in BOOLEAN : p' = [Blank(p.ref, p.val, wrD) EXCEPT !.created = TRUE]
    BY <1>2 DEF New
  <2>2. p'.tab = <<>>
    BY <2>1 DEF Blank
  <2>3. Store!Open
    BY <1>1, <1>2, <2>2, StoreOpen DEF New
  <2> QED BY <1>1, <2>2, <2>3 DEF Store!Next
<1>3. CASE Close
  <2>1. p'.tab = <<>>
    BY <1>3 DEF Close, Blank
  <2>2. Store!Close
    BY <1>1, <1>3, <2>1, StoreClose DEF Close
  <2> QED BY <1>1, <2>1, <2>2 DEF Store!Next
<1>4. CASE Open
  <2>1. PICK wrD \in BOOLEAN :
            p' = ReadChad(ReadArts(ReadTable(Blank(p.ref, p.val, wrD))))
    BY <1>4 DEF Open
  <2> DEFINE b == Blank(p.ref, p.val, wrD)
             t == ReadTable(b)
             a == ReadArts(t)
             c == ReadChad(a)
  <2>2. Good(b) /\ \A o \in Obj : b.ref[o] = 0
    <3>1. Inv /\ \A o \in Obj : p.ref[o] = 0
      BY <1>4, Emptied DEF Open, FullInv
    <3>2. b.ref = p.ref
      BY DEF Blank
    <3> QED BY <1>g, <3>1, <3>2, BlankFits DEF Good, IsObject, Fits
  <2> HIDE DEF b
  <2>3. Good(t) /\ Sound(t) /\ GroupsIn(t) = FileGroups(disk)
    BY <1>g, <2>2, TableFits, TableAside
  <2> HIDE DEF t
  <2>4. Good(a) /\ Sound(a) /\ View(a, t)
    BY <1>g, <2>3, ReadArtsFits, ReadArtsAside
  <2> HIDE DEF a
  <2>5. Sound(c) /\ View(c, a)
    BY <1>g, <2>4, ReadChadAside
  <2>6. p' = c
    BY <2>1 DEF a, t, b
  <2> HIDE DEF c
  <2>7. GroupsIn(c) = FileGroups(disk)
    BY <2>3, <2>4, <2>5, ViewGroups
  <2>8. Sound(p)' /\ GroupsIn(p)' = GroupsIn(c)
    BY <1>4, <2>5, <2>6, SameFile DEF Open
  <2>9. Store!Open
    BY <1>4, <2>7, <2>8, StoreOpen DEF Open
  <2> QED BY <2>8, <2>9 DEF Store!Next
<1> QED BY <1>2, <1>3, <1>4

\* A write is a save, whether it succeeds, fails or fails at its last flush.
LEMMA WriteStore ==
    ASSUME FullInv, Write
    PROVE  Sound(p)' /\ FileApart(disk)' /\ Store!Next
<1> DEFINE q == AddAutoTags(p, TRUE)
           z == IF q.err THEN q ELSE GetSize(q)
<1>1. Good(p) /\ Sound(p) /\ IsFile(disk) /\ AllLoaded(p) /\ isOpen /\ isOpen' = isOpen
  BY DEF FullInv, Inv, Write, Editable, Usable
<1>2. \/ ~z.err /\ p' = RemTempTags(z) /\ disk' = FileOf(z)
      \/ p' \in {[RemTempTags(z) EXCEPT !.err = TRUE], [z EXCEPT !.err = TRUE]} /\ disk' = NoFile
  BY DEF Write
<1>3. Good(q) /\ AllLoaded(q) /\ Sound(q) /\ View(q, p)
  BY <1>1, AutoFits, AutoAside
<1>4. Good(z) /\ AllLoaded(z) /\ Sound(z) /\ View(z, p) /\ (~z.err => Laid(z))
  <2> HIDE DEF q
  <2>1. CASE q.err
    BY <1>3, <2>1
  <2>2. CASE ~q.err
    <3>1. Good(GetSize(q)) /\ AllLoaded(GetSize(q)) /\ Sound(GetSize(q)) /\ View(GetSize(q), q)
      BY <1>1, <1>3, SizeFits, SizeAside
    <3>2. View(GetSize(q), p)
      BY <1>3, <3>1, ViewChain
    <3> QED BY <1>1, <1>3, <2>2, <3>1, <3>2, SizeLaid
  <2> QED BY <2>1, <2>2
<1> HIDE DEF z
<1>5. RemTempTags(z) = z
  BY <1>4, NothingRemoved
<1>6. GroupsIn(z) = GroupsIn(p)
  BY <1>4, ViewGroups
<1>7. CASE ~z.err /\ p' = RemTempTags(z) /\ disk' = FileOf(z)
  <2>1. Sound(p)' /\ GroupsIn(p)' = GroupsIn(z)
    BY <1>4, <1>5, <1>7, LoadedFile
  <2>2. FileApart(FileOf(z)) /\ Saved(FileOf(z)) = [ok |-> TRUE, groups |-> GroupsIn(z)]
    BY <1>4, <1>7, FileAside
  <2>3. FileApart(disk)' /\ Saved(disk)' = [ok |-> TRUE, groups |-> GroupsIn(p)]
    BY <1>6, <1>7, <2>2 DEF FileApart, Saved, FileGroups
  <2>4. Store!Save
    BY <1>1, <1>6, <2>1, <2>3, StoreSave
  <2> QED BY <2>1, <2>3, <2>4 DEF Store!Next
<1>8. CASE /\ p' \in {[RemTempTags(z) EXCEPT !.err = TRUE], [z EXCEPT !.err = TRUE]}
           /\ disk' = NoFile
  <2> DEFINE e == [z EXCEPT !.err = TRUE]
  <2>1. e.tab = z.tab /\ e.val = z.val
    BY <1>4 DEF Good, IsObject
  <2>2. p' = e
    BY <1>5, <1>8
  <2> HIDE DEF e
  <2>3. AllLoaded(e) /\ Sound(e) /\ View(e, z)
    BY <1>4, <2>1, FieldsAside DEF AllLoaded
  <2>4. Sound(p)' /\ GroupsIn(p)' = GroupsIn(p)
    BY <1>6, <2>2, <2>3, LoadedFile, ViewGroups
  <2>5. DOMAIN <<>> = {}
    OBVIOUS
  <2>6. FileApart(disk)' /\ Saved(disk)' = [ok |-> FALSE, groups |-> {}]
    BY <1>8, <2>5 DEF FileApart, Saved, FileGroups, NoFile
  <2>7. Store!Save
    BY <1>1, <2>4, <2>6, StoreSave
  <2> QED BY <2>4, <2>6, <2>7 DEF Store!Next
<1> QED BY <1>2, <1>7, <1>8

\* Reading, sizing and the white point are not seen.
LEMMA QuietStore ==
    ASSUME FullInv, Size \/ (\E s \in Sigs : Read(s)) \/ (\E w \in Whites : SetWhite(w))
    PROVE  Sound(p)' /\ UNCHANGED Store!vars
<1>g. Good(p) /\ Sound(p) /\ IsFile(disk) /\ UNCHANGED <<isOpen, disk>>
  BY DEF FullInv, Inv, Size, Read, SetWhite, Becomes
<1>1. CASE Size
  BY <1>g, <1>1, SizeAside, Unseen DEF Size, Becomes
<1>2. ASSUME NEW s \in Sigs, Read(s)
      PROVE  Sound(p)' /\ UNCHANGED Store!vars
  <2>1. Has(p, s) /\ ~Loaded(p, s) /\ p' = ReadTag(p, s)
    BY <1>2 DEF Read, Becomes
  <2>2. Sound(ReadTag(p, s)) /\ View(ReadTag(p, s), p)
    <3>1. CASE s \in Plain
      BY <1>g, <2>1, <3>1, ReadMine
    <3>2. CASE s \notin Plain
      <4>1. s \in Sigs \ Plain
        BY <3>2
      <4> QED BY <1>g, <4>1, ReadAside
    <3> QED BY <3>1, <3>2
  <2> QED BY <1>g, <2>1, <2>2, Unseen
<1>3. ASSUME NEW w \in Whites, SetWhite(w)
      PROVE  Sound(p)' /\ UNCHANGED Store!vars
  <2> DEFINE d == DeleteTag(p, "wtpt")
             a == AddTag(d, "wtpt", w)
  <2>1. p' = a
    BY <1>3 DEF SetWhite, Becomes
  <2>2. Good(d) /\ ~Has(d, "wtpt") /\ Sound(d) /\ View(d, p)
    BY <1>g, NotMine, DeleteFits, DeleteAside
  <2> HIDE DEF d
  <2>3. Sound(a) /\ View(a, d)
    BY <2>2, NotMine, AddAside
  <2> HIDE DEF a
  <2>4. View(a, p)
    BY <2>2, <2>3, ViewChain
  <2> QED BY <1>g, <2>1, <2>3, <2>4, Unseen
<1> QED BY <1>1, <1>2, <1>3

\* Every step keeps the invariant and is a step of the store or none.
LEMMA StoreStep == FullInv /\ [Next]_vars => FullInv' /\ [Store!Next]_(Store!vars)
<1> SUFFICES ASSUME FullInv, [Next]_vars
             PROVE  Sound(p)' /\ FileApart(disk)' /\ (Store!Next \/ UNCHANGED Store!vars)
  BY StepInv DEF FullInv
<1>1. CASE UNCHANGED vars
  <2>1. Sound(p) /\ View(p, p) /\ p' = p /\ UNCHANGED <<isOpen, disk>>
    BY <1>1 DEF vars, FullInv, View
  <2>2. FileApart(disk)'
    BY <2>1 DEF FullInv, FileApart
  <2> QED BY <2>1, <2>2, Unseen
<1>f. ASSUME UNCHANGED disk PROVE FileApart(disk)'
  BY <1>f DEF FullInv, FileApart
<1>2. CASE New \/ Open \/ Close
  BY <1>2, <1>f, OpenStore DEF New, Open, Close
<1>3. CASE Write
  BY <1>3, WriteStore
<1>4. CASE Size \/ (\E s \in Sigs : Read(s)) \/ (\E w \in Whites : SetWhite(w))
  BY <1>4, <1>f, QuietStore DEF Size, Read, SetWhite, Becomes
<1>5. ASSUME NEW s \in Plain,
             \/ Delete(s)
             \/ \E v \in Contents : Add(s, v) \/ SetContent(s, v)
             \/ \E t \in Plain : Link(s, t) \/ Rename(s, t)
      PROVE  Sound(p)' /\ FileApart(disk)' /\ (Store!Next \/ UNCHANGED Store!vars)
  <2>1. UNCHANGED disk
    BY <1>5 DEF Delete, Add, SetContent, Link, Rename, Becomes
  <2> QED BY <1>5, <1>f, <2>1, EditStore
<1> QED BY <1>1, <1>2, <1>3, <1>4, <1>5 DEF Next

\* It starts with no object, and the given file as the saved one.
LEMMA StoreInitially ==
    ASSUME FileApart(Given)
    PROVE  Init => FullInv /\ Store!Init
<1> SUFFICES ASSUME Init PROVE FullInv /\ Store!Init
  OBVIOUS
<1>e. DOMAIN <<>> = {}
  OBVIOUS
<1>1. Inv
  BY InitInv
<1>2. p.tab = <<>> /\ isOpen = FALSE
  BY DEF Init, Blank
<1>3. Mine(p) = {} /\ AllLoaded(p)
  BY <1>2, <1>e DEF Mine, AllLoaded
<1>4. Sound(p) /\ GroupsIn(p) = {}
  BY <1>3 DEF Sound, Apart, AsRead, Filled, GroupsIn
<1>5. FileApart(disk) /\ IsFile(disk)
  BY <1>1, <1>e DEF Init, Inv, FileApart, NoFile
<1>6. Saved(disk) \in [ok : BOOLEAN, groups : {gs \in SUBSET Store!Groups : Store!Disjoint(gs)}]
  BY <1>5, FileStore
<1>7. Store!Init
  BY <1>2, <1>4, <1>6
  DEF Store!Init, GroupsIn, GroupIn, Saved, FileGroups, Mine, SameIn, ContentIn, Same, ContentOf
<1> QED BY <1>1, <1>4, <1>5, <1>7 DEF FullInv

\* What the programs see of their tags is a set of groups with one content
\* each: that icclib reads on demand, shares and counts elements, adds tags and
\* moves the white point, in writes that fail too, cannot be seen.
THEOREM IccImplementsStore ==
    ASSUME FileApart(Given)
    PROVE  Spec => ImplementsStore
<1>1. Init => FullInv /\ Store!Init
  BY StoreInitially
<1>2. FullInv /\ [Next]_vars => FullInv' /\ [Store!Next]_(Store!vars)
  BY StoreStep
<1> QED BY <1>1, <1>2, PTL DEF Spec, ImplementsStore, Store!Spec

-----------------------------------------------------------------------------
(***************************************************************************)
(* The white point.                                                        *)
(***************************************************************************)
\* A natural profile has its chad, with what was found or set up, or the empty
\* one of a get_size; without an error only such a profile has one.
White(r) ==
    /\ r.natural => r.mxValid /\ Loaded(r, "chad") /\ Value(r, "chad") \in {r.chadmx, "zero"}
    /\ ~r.err => (r.natural <=> Has(r, "chad")) /\ (r.mxValid => r.natural)

\* chad is filled in.
Full(r) == Has(r, "chad") => Value(r, "chad") = r.chadmx

\* icc_add_auto_tags has no chad to add.
Settled(r) == r.natural \/ ~r.wrDChad \/ ~Has(r, "wtpt")

\* q has the same white point and chad as r.
SameWhite(q, r) ==
    /\ WhiteFields(q) = WhiteFields(r) /\ q.wrDChad = r.wrDChad /\ (~q.err => ~r.err)
    /\ \A t \in {"wtpt", "chad"} : /\ Has(q, t) <=> Has(r, t)
                                   /\ Loaded(r, t) => Loaded(q, t)
                                   /\ Has(r, t) => ContentIn(q, t) = ContentIn(r, t)

\* What leaves wtpt and chad alone keeps the white point where it was.
LEMMA WhiteFrame ==
    ASSUME NEW r, NEW q, White(r), SameWhite(q, r)
    PROVE  White(q) /\ AbsWhite(q) = AbsWhite(r)
<1>1. /\ q.natural = r.natural /\ q.mxValid = r.mxValid /\ q.chadmx = r.chadmx
      /\ ~q.err => ~r.err
      /\ Has(q, "chad") <=> Has(r, "chad")
      /\ Has(q, "wtpt") <=> Has(r, "wtpt")
      /\ Loaded(r, "chad") => Loaded(q, "chad") /\ ContentIn(q, "chad") = ContentIn(r, "chad")
      /\ Has(r, "wtpt") => ContentIn(q, "wtpt") = ContentIn(r, "wtpt")
  BY DEF SameWhite, WhiteFields, Loaded
<1>2. White(q)
  <2>1. Loaded(r, "chad") => Value(q, "chad") = Value(r, "chad")
    BY <1>1 DEF ContentIn
  <2> QED BY <1>1, <2>1 DEF White
<1>3. AbsWhite(q) = AbsWhite(r)
  BY <1>1 DEF AbsWhite, ContentIn
<1> QED BY <1>2, <1>3

\* It neither empties chad nor makes one to be added.
LEMMA FullFrame ==
    ASSUME NEW r, NEW q, SameWhite(q, r)
    PROVE  (AllLoaded(r) /\ Full(r) => Full(q)) /\ (Settled(r) => Settled(q))
<1>1. /\ q.natural = r.natural /\ q.chadmx = r.chadmx /\ q.wrDChad = r.wrDChad
      /\ Has(q, "chad") <=> Has(r, "chad")
      /\ Has(q, "wtpt") <=> Has(r, "wtpt")
      /\ Loaded(r, "chad") => Loaded(q, "chad") /\ ContentIn(q, "chad") = ContentIn(r, "chad")
  BY DEF SameWhite, WhiteFields, Loaded
<1>2. Has(r, "chad") /\ AllLoaded(r) => Loaded(r, "chad")
  BY DEF AllLoaded, Loaded, Has
<1> QED BY <1>1, <1>2 DEF Full, Settled, ContentIn

\* Two steps that leave them alone do so together.
LEMMA WhiteChain ==
    ASSUME NEW x, NEW q, NEW r, SameWhite(x, q), SameWhite(q, r)
    PROVE  SameWhite(x, r)
  BY DEF SameWhite, Loaded

\* Only tags of names change.
Others(q, r, names) ==
    /\ \A t \in DOMAIN r.tab \ names :
          /\ t \in DOMAIN q.tab /\ q.tab[t] = r.tab[t]
          /\ Loaded(r, t) => q.val[r.tab[t].obj] = r.val[r.tab[t].obj]
    /\ DOMAIN q.tab \ names \subseteq DOMAIN r.tab

Keeps(q, r, t) == /\ Has(q, t) <=> Has(r, t)
                  /\ Loaded(r, t) => Loaded(q, t)
                  /\ Has(r, t) => ContentIn(q, t) = ContentIn(r, t)

\* What changes none but the named tags keeps any other.
LEMMA OthersKept ==
    ASSUME NEW r, NEW q, NEW names, Others(q, r, names), NEW t, t \notin names
    PROVE  Keeps(q, r, t)
<1>1. Has(q, t) <=> Has(r, t)
  BY DEF Has, Others
<1>2. Has(r, t) => q.tab[t] = r.tab[t]
  BY DEF Has, Others
<1>3. Loaded(q, t) <=> Loaded(r, t)
  BY <1>1, <1>2 DEF Loaded
<1>4. Loaded(r, t) => Value(q, t) = Value(r, t)
  BY <1>2 DEF Loaded, Has, Others, Value
<1> QED BY <1>1, <1>2, <1>3, <1>4 DEF ContentIn, Keeps

SameFields(q, r) == /\ WhiteFields(q) = WhiteFields(r)
                    /\ q.wrDChad = r.wrDChad
                    /\ ~q.err => ~r.err

\* Changes to tags other than wtpt and chad leave these alone:
LEMMA OthersWhite ==
    ASSUME NEW r, NEW q, NEW names, Others(q, r, names), SameFields(q, r),
           "wtpt" \notin names, "chad" \notin names
    PROVE  SameWhite(q, r)
<1>1. Keeps(q, r, "wtpt") /\ Keeps(q, r, "chad")
  BY OthersKept
<1> QED BY <1>1 DEF SameWhite, SameFields, Keeps

\* changing nothing does,
LEMMA WhiteRefl ==
    ASSUME NEW r PROVE SameWhite(r, r)
  BY DEF SameWhite

\* The operations on other tags.
LEMMA NewOthers ==
    ASSUME NEW r, Good(r), NEW s, ~Loaded(r, s), NEW at, NEW v, NEW q, q = WithNew(r, s, at, v, r.natural)
    PROVE  Others(q, r, {s}) /\ SameFields(q, r)
<1>1. CASE Free(r) = {}
  <2>1. q = [r EXCEPT !.err = TRUE]
    BY <1>1 DEF WithNew
  <2>2. q.tab = r.tab /\ q.val = r.val /\ q.err = TRUE /\ q.wrDChad = r.wrDChad
        /\ WhiteFields(q) = WhiteFields(r)
    BY <2>1 DEF Good, IsObject, WhiteFields
  <2> QED BY <2>2 DEF Others, SameFields
<1>2. CASE Free(r) # {}
  <2> DEFINE o == CHOOSE x \in Free(r) : TRUE
  <2>1. o \in Obj /\ r.ref[o] = 0
    BY <1>2 DEF Free
  <2>2. q = [r EXCEPT !.tab = Put(@, s, Tag(at, o)), !.ref[o] = 1, !.val[o] = v,
                      !.natural = r.natural]
    BY <1>2 DEF WithNew
  <2> HIDE DEF o
  <2>3. q.tab = Put(r.tab, s, Tag(at, o)) /\ q.val = [r.val EXCEPT ![o] = v]
        /\ WhiteFields(q) = WhiteFields(r) /\ q.err = r.err /\ q.wrDChad = r.wrDChad
    BY <2>2 DEF Good, IsObject, WhiteFields
  <2>4. \A t \in DOMAIN r.tab : r.tab[t].obj # o
    BY <2>1, FreeUnused
  <2>5. r.val \in [Obj -> Vals]
    BY DEF Good, IsObject
  <2> QED BY <2>3, <2>4, <2>5 DEF Others, Put, SameFields
<1> QED BY <1>1, <1>2

\* having an element in common changes the tag that gets it only,
LEMMA ShareOthers ==
    ASSUME NEW r, Good(r), NEW s, NEW at, NEW k, NEW q, q = Share(r, s, at, k)
    PROVE  Others(q, r, {s}) /\ SameFields(q, r)
<1> DEFINE o == r.tab[k].obj
<1>1. q = [r EXCEPT !.tab = Put(@, s, Tag(at, o)), !.ref[o] = @ + 1]
  BY DEF Share
<1> HIDE DEF o
<1>2. /\ q.tab = Put(r.tab, s, Tag(at, o)) /\ q.val = r.val
      /\ q.err = r.err /\ WhiteFields(q) = WhiteFields(r) /\ q.wrDChad = r.wrDChad
  BY <1>1 DEF Good, IsObject, WhiteFields
<1> QED BY <1>2 DEF Others, Put, SameFields

\* reading any tag on demand does, that shares chad's element too,
LEMMA ReadWhite ==
    ASSUME NEW r, Good(r), Sound(r), IsFile(disk), NEW s \in Sigs
    PROVE  SameWhite(ReadTag(r, s), r)
<1> DEFINE q == ReadTag(r, s)
           at == r.tab[s].at
<1>1. CASE ~Has(r, s) \/ Loaded(r, s)
  BY <1>1, WhiteRefl DEF ReadTag
<1>2. CASE Has(r, s) /\ ~Loaded(r, s)
  <2>0. s \in DOMAIN r.tab /\ at \in DOMAIN disk.data /\ ~AllLoaded(r) /\ at # NoPlace
    BY <1>2, PlaceAssumption DEF Has, Loaded, Good, Fits, AllLoaded, IsFile
  <2>1. Others(q, r, {s}) /\ SameFields(q, r) /\ Has(q, s) /\ ContentIn(q, s) = disk.data[at]
    <3>1. CASE Peers(r, s) = {}
      <4>1. q = WithNew(r, s, at, disk.data[at], r.natural)
        BY <1>2, <3>1 DEF ReadTag
      <4> HIDE DEF q, at
      <4>2. \/ q.tab = r.tab /\ q.val = r.val
            \/ \E o \in Obj : /\ r.ref[o] = 0 /\ q.tab = Put(r.tab, s, Tag(at, o))
                              /\ q.val = [r.val EXCEPT ![o] = disk.data[at]]
        BY <4>1, NewIs
      <4>3. Others(q, r, {s}) /\ SameFields(q, r)
        BY <1>2, <4>1, NewOthers
      <4>4. CASE q.tab = r.tab /\ q.val = r.val
        BY <1>2, <4>3, <4>4 DEF Has, Loaded, ContentIn, at
      <4>5. ASSUME NEW o \in Obj, q.tab = Put(r.tab, s, Tag(at, o)),
                   q.val = [r.val EXCEPT ![o] = disk.data[at]]
            PROVE  Has(q, s) /\ ContentIn(q, s) = disk.data[at]
        <5>1. q.tab[s].obj = o /\ o # NoObj /\ Has(q, s)
          BY <4>5, ObjAssumption DEF Put, Tag, Has
        <5>2. q.val[o] = disk.data[at]
          BY <4>5 DEF Good, IsObject
        <5> QED BY <5>1, <5>2 DEF ContentIn, Loaded, Value
      <4> QED BY <4>2, <4>3, <4>4, <4>5
    <3>2. CASE Peers(r, s) # {}
      <4> DEFINE k == CHOOSE x \in Peers(r, s) : TRUE
      <4>1. k \in DOMAIN r.tab /\ r.tab[k].at = at /\ Loaded(r, k)
        BY <3>2 DEF Peers
      <4>2. q = Share(r, s, at, k)
        BY <1>2, <3>2 DEF ReadTag
      <4> HIDE DEF k, q, at
      <4>3. q.tab = Put(r.tab, s, Tag(at, r.tab[k].obj)) /\ q.val = r.val
        BY <4>2, ShareIs
      <4>4. Others(q, r, {s}) /\ SameFields(q, r)
        BY <4>2, ShareOthers
      <4>5. Value(r, k) = disk.data[at]
        BY <2>0, <4>1 DEF Sound, AsRead
      <4>6. q.tab[s].obj = r.tab[k].obj /\ r.tab[k].obj # NoObj /\ Has(q, s)
        BY <4>1, <4>3 DEF Put, Tag, Has, Loaded
      <4> QED BY <4>3, <4>4, <4>5, <4>6 DEF ContentIn, Loaded, Value
    <3> QED BY <3>1, <3>2
  <2>2. ContentIn(r, s) = disk.data[at]
    BY <1>2 DEF ContentIn
  <2> HIDE DEF q, at
  <2>3. Keeps(q, r, s)
    BY <1>2, <2>1, <2>2 DEF Keeps
  <2>4. \A t : t # s => Keeps(q, r, t)
    BY <2>1, OthersKept
  <2>5. Keeps(q, r, "wtpt") /\ Keeps(q, r, "chad")
    BY <2>3, <2>4
  <2>6. SameWhite(q, r)
    BY <2>1, <2>5 DEF SameWhite, SameFields, Keeps
  <2> QED BY <2>6 DEF q
<1> QED BY <1>1, <1>2

\* adding a tag does,
LEMMA AddWhite ==
    ASSUME NEW r, Good(r), NEW s, s # "chad", s # "wtpt", ~Has(r, s), NEW v
    PROVE  SameWhite(AddTag(r, s, v), r)
<1> DEFINE q == AddTag(r, s, v)
<1>1. q = WithNew(r, s, NoPlace, v, r.natural)
  BY DEF AddTag, Good, IsObject
<1>2. ~Loaded(r, s)
  BY DEF Loaded
<1> HIDE DEF q
<1>3. Others(q, r, {s}) /\ SameFields(q, r)
  BY <1>1, <1>2, NewOthers
<1>4. SameWhite(q, r)
  BY <1>3, OthersWhite
<1> QED BY <1>4 DEF q

\* adding 'arts' does,
LEMMA ArtsWhite ==
    ASSUME NEW r, Good(r), Sound(r), IsFile(disk)
    PROVE  SameWhite(AddArts(r), r)
<1> DEFINE q == ReadTag(r, "arts")
<1>1. Good(q) /\ SameWhite(q, r)
  BY NotMine, ReadFits, ReadWhite
<1>2. CASE AddArts(r) = r
  BY <1>2, WhiteRefl
<1>3. CASE AddArts(r) = q
  BY <1>1, <1>3
<1>4. CASE ~Has(q, "arts") /\ AddArts(r) = AddTag(q, "arts", "cone")
  <2> HIDE DEF q
  <2>1. SameWhite(AddTag(q, "arts", "cone"), q)
    BY <1>1, <1>4, AddWhite
  <2> QED BY <1>1, <1>4, <2>1, WhiteChain
<1> QED BY <1>2, <1>3, <1>4 DEF AddArts

\* laying out the tags does,
LEMMA LayoutWhite ==
    ASSUME NEW r, Good(r), AllLoaded(r)
    PROVE  SameWhite(Layout(r), r)
<1> DEFINE q == Layout(r)
<1>1. /\ DOMAIN q.tab = DOMAIN r.tab /\ q.val = r.val /\ q.err = r.err
      /\ \A s \in DOMAIN r.tab : q.tab[s].obj = r.tab[s].obj
      /\ WhiteFields(q) = WhiteFields(r)
  BY LayoutIs
<1>2. q.wrDChad = r.wrDChad
  BY DEF Layout, Good, IsObject
<1> HIDE DEF q
<1>3. \A s : Keeps(q, r, s)
  BY <1>1 DEF Keeps, AllLoaded, Loaded, Has, ContentIn, Value
<1>4. SameWhite(q, r)
  BY <1>1, <1>2, <1>3 DEF SameWhite, Keeps
<1> QED BY <1>4 DEF q

\* failing does,
LEMMA ErrWhite ==
    ASSUME NEW r, Good(r)
    PROVE  SameWhite([r EXCEPT !.err = TRUE], r)
<1> DEFINE q == [r EXCEPT !.err = TRUE]
<1>1. q.tab = r.tab /\ q.val = r.val /\ q.err = TRUE /\ q.wrDChad = r.wrDChad
      /\ WhiteFields(q) = WhiteFields(r)
  BY DEF Good, IsObject, WhiteFields
<1> HIDE DEF q
<1>2. \A s : Keeps(q, r, s)
  BY <1>1 DEF Keeps, Loaded, Has, ContentIn, Value
<1>3. SameWhite(q, r)
  BY <1>1, <1>2 DEF SameWhite, Keeps
<1> QED BY <1>3 DEF q

\* and so do deleting,
LEMMA DeleteWhite ==
    ASSUME NEW r, Good(r), NEW s, s # "chad", s # "wtpt", Has(r, s)
    PROVE  SameWhite(DeleteTag(r, s), r)
<1> DEFINE q == DeleteTag(r, s)
<1>1. SameFields(q, r)
  BY DEF DeleteTag, Drop, Has, Good, IsObject, SameFields, WhiteFields
<1>2. Without(q, r, s)
  BY DeletedWithout
<1> HIDE DEF q
<1>3. Others(q, r, {s})
  BY <1>2 DEF Without, Others, Restrict
<1>4. SameWhite(q, r)
  BY <1>1, <1>3, OthersWhite
<1> QED BY <1>4 DEF q

\* The programs' edits are of other tags.
LEMMA FillWhite ==
    ASSUME NEW r, Good(r), Sound(r), AllLoaded(r), NEW s \in Mine(r), NEW v
    PROVE  SameWhite([r EXCEPT !.val[r.tab[s].obj] = v], r)
<1> DEFINE q == [r EXCEPT !.val[r.tab[s].obj] = v]
<1>1. q.tab = r.tab /\ q.val = [r.val EXCEPT ![r.tab[s].obj] = v] /\ SameFields(q, r)
  BY DEF Good, IsObject, SameFields, WhiteFields
<1> HIDE DEF q
<1>2. \A t \in DOMAIN r.tab \ Plain : r.tab[t].obj # r.tab[s].obj
  BY SoundLoaded
<1>3. r.val \in [Obj -> Vals]
  BY DEF Good, IsObject
<1>4. Others(q, r, Plain)
  BY <1>1, <1>2, <1>3 DEF Others
<1>5. SameWhite(q, r)
  BY <1>1, <1>4, NotMine, OthersWhite
<1> QED BY <1>5 DEF q

\* linking
LEMMA LinkWhite ==
    ASSUME NEW r, Good(r), NEW s \in Plain, NEW ex
    PROVE  SameWhite(LinkTag(r, s, ex), r)
<1> DEFINE q == LinkTag(r, s, ex)
<1>1. q = Share(r, s, r.tab[ex].at, ex)
  BY DEF LinkTag
<1> HIDE DEF q
<1>2. Others(q, r, {s}) /\ SameFields(q, r)
  BY <1>1, ShareOthers
<1>3. "wtpt" \notin {s} /\ "chad" \notin {s}
  BY NotMine
<1>4. SameWhite(q, r)
  BY <1>2, <1>3, OthersWhite
<1> QED BY <1>4 DEF q

\* and renaming a tag of the programs.
LEMMA RenameWhite ==
    ASSUME NEW r, Good(r), NEW s \in Mine(r), NEW new \in Plain, ~Has(r, new)
    PROVE  SameWhite(RenameTag(r, s, new), r)
<1> DEFINE q == RenameTag(r, s, new)
           tab == Put(Restrict(r.tab, DOMAIN r.tab \ {s}), new, r.tab[s])
<1>1. q.tab = tab /\ q.val = r.val /\ SameFields(q, r)
  BY DEF RenameTag, Good, IsObject, SameFields, WhiteFields
<1>2. /\ DOMAIN tab = (DOMAIN r.tab \ {s}) \cup {new}
      /\ \A t \in DOMAIN r.tab \ {s} : tab[t] = r.tab[t]
  BY DEF Put, Restrict, Has
<1>3. s \in Plain
  BY DEF Mine
<1> HIDE DEF q, tab
<1>4. Others(q, r, Plain)
  BY <1>1, <1>2, <1>3 DEF Others
<1>5. SameWhite(q, r)
  BY <1>1, <1>4, NotMine, OthersWhite
<1> QED BY <1>5 DEF q

\* A new chad, which no other tag shares.
LEMMA NewChad ==
    ASSUME NEW x, Good(x), ~Has(x, "chad"), Loaded(x, "wtpt"), ~x.natural, ~x.err, NEW v,
           NEW d, d = AddTag(x, "chad", v)
    PROVE  /\ d.err => White(d) /\ AbsWhite(d) = Value(x, "wtpt")
           /\ ~d.err => /\ d.natural /\ d.mxValid = x.mxValid /\ d.chadmx = x.chadmx
                        /\ Loaded(d, "chad") /\ Value(d, "chad") = v
                        /\ Has(d, "wtpt") /\ d.tab["chad"].obj # d.tab["wtpt"].obj
<1>1. CASE Free(x) = {}
  <2>1. d = [x EXCEPT !.err = TRUE]
    BY <1>1 DEF AddTag, WithNew
  <2>2. d.tab = x.tab /\ d.val = x.val /\ d.err /\ ~d.natural
    BY <2>1 DEF Good, IsObject
  <2>3. Loaded(d, "wtpt") /\ Has(d, "wtpt") /\ Value(d, "wtpt") = Value(x, "wtpt")
    BY <2>2 DEF Loaded, Has, Value
  <2> QED BY <2>2, <2>3 DEF White, AbsWhite
<1>2. CASE Free(x) # {}
  <2> DEFINE o == CHOOSE y \in Free(x) : TRUE
  <2>1. o \in Obj /\ x.ref[o] = 0 /\ o # NoObj
    BY <1>2, ObjAssumption DEF Free
  <2>2. d = [x EXCEPT !.tab = Put(@, "chad", Tag(NoPlace, o)), !.ref[o] = 1, !.val[o] = v,
                      !.natural = TRUE]
    BY <1>2 DEF AddTag, WithNew
  <2> HIDE DEF o
  <2>3. /\ d.tab = Put(x.tab, "chad", Tag(NoPlace, o)) /\ d.val = [x.val EXCEPT ![o] = v]
        /\ d.natural /\ d.mxValid = x.mxValid /\ d.chadmx = x.chadmx /\ d.err = x.err
    BY <2>2 DEF Good, IsObject
  <2>4. \A t \in DOMAIN x.tab : x.tab[t].obj # o
    BY <2>1, FreeUnused
  <2>5. d.val[o] = v
    BY <2>1, <2>3 DEF Good, IsObject
  <2>6. "wtpt" \in DOMAIN x.tab
    BY DEF Loaded, Has
  <2>7. "chad" \in DOMAIN d.tab /\ d.tab["chad"].obj = o
    BY <2>3 DEF Put, Tag
  <2>8. "wtpt" \in DOMAIN d.tab /\ d.tab["wtpt"].obj = x.tab["wtpt"].obj
    BY <2>3, <2>6 DEF Put, Tag
  <2> QED BY <2>1, <2>3, <2>4, <2>5, <2>6, <2>7, <2>8 DEF Loaded, Has, Value
<1> QED BY <1>1, <1>2

\* chad takes the white point over.
LEMMA ChadWhite ==
    ASSUME NEW r, Good(r), Sound(r), White(r), ~r.err, IsFile(disk),
           NEW wr \in BOOLEAN
    PROVE  /\ White(AddChad(r, wr)) /\ AbsWhite(AddChad(r, wr)) = AbsWhite(r)
           /\ ~AddChad(r, wr).err => /\ Settled(AddChad(r, wr))
                                     /\ wr /\ Full(r) => Full(AddChad(r, wr))
<1> DEFINE q == ReadTag(r, "wtpt")
           wp == Value(q, "wtpt")
           mx == IF q.mxValid THEN q.chadmx ELSE wp
           x == [q EXCEPT !.mxValid = TRUE, !.chadmx = mx]
           y == DeleteTag(x, "chad")
           v == IF wr THEN mx ELSE "zero"
           d == AddTag(y, "chad", v)
           res == AddChad(r, wr)
<1>1. CASE ~(r.wrDChad /\ ~r.natural /\ Has(r, "wtpt"))
  BY <1>1 DEF AddChad, Settled
<1>2. CASE r.wrDChad /\ ~r.natural /\ Has(r, "wtpt")
  <2>1. /\ Good(q) /\ SameWhite(q, r) /\ ~q.natural
        /\ ~q.err => Loaded(q, "wtpt")
    BY <1>2, NotMine, ReadFits, ReadWhite, ReadLoads
  <2>2. White(q) /\ AbsWhite(q) = AbsWhite(r)
    BY <2>1, WhiteFrame
  <2>3. CASE q.err
    BY <1>2, <2>2, <2>3 DEF AddChad
  <2>4. CASE ~q.err
    <3>1. ~Has(q, "chad") /\ ~q.mxValid
      BY <2>1, <2>2, <2>4 DEF White
    <3>2. mx = wp /\ AbsWhite(r) = wp
      BY <2>1, <2>2, <2>4, <3>1 DEF AbsWhite, Loaded
    <3>3. wp \in Vals
      <4> HIDE DEF q
      <4> QED BY <2>1, <2>4 DEF Value, Loaded, Has, Good, IsObject, Fits, Entries
    <3>4. /\ Good(x) /\ x.tab = q.tab /\ x.val = q.val /\ ~x.natural /\ ~x.err
          /\ x.mxValid /\ x.chadmx = mx
      <4>1. mx \in Vals
        BY <3>2, <3>3
      <4>2. x = [q EXCEPT !.mxValid = TRUE, !.chadmx = mx]
        OBVIOUS
      <4> HIDE DEF q, mx, x
      <4>3. x = [tab |-> q.tab, ref |-> q.ref, val |-> q.val, err |-> q.err,
                 created |-> q.created, useArts |-> q.useArts,
                 wrDChad |-> q.wrDChad, natural |-> q.natural, mxValid |-> TRUE,
                 chadmx |-> mx, tempChad |-> q.tempChad, tempWP |-> q.tempWP]
        BY <2>1, <4>2 DEF Good, IsObject
      <4> QED BY <2>1, <2>4, <4>1, <4>3, Parts
    <3>5. ~Has(x, "chad") /\ Loaded(x, "wtpt") /\ Value(x, "wtpt") = wp
      <4> HIDE DEF q, x
      <4> QED BY <2>1, <2>4, <3>1, <3>4 DEF Has, Loaded, Value
    <3>6. y = x
      BY <3>5 DEF DeleteTag
    <3> HIDE DEF v, x, y
    <3>7. /\ d.err => White(d) /\ AbsWhite(d) = wp
          /\ ~d.err => /\ d.natural /\ d.mxValid /\ d.chadmx = wp
                       /\ Loaded(d, "chad") /\ Value(d, "chad") = v
                       /\ Has(d, "wtpt") /\ d.tab["chad"].obj # d.tab["wtpt"].obj
      <4> HIDE DEF q, wp, mx, d
      <4>1. d = AddTag(x, "chad", v)
        BY <3>6 DEF d
      <4> QED BY <3>2, <3>4, <3>5, <4>1, NewChad
    <3>8. CASE d.err
      <4>1. res = d
        BY <1>2, <2>4, <3>8 DEF AddChad, d, y, x, v
      <4> HIDE DEF d, wp, res
      <4>2. White(res) /\ AbsWhite(res) = AbsWhite(r) /\ res.err
        BY <3>2, <3>7, <3>8, <4>1
      <4> QED BY <4>2 DEF res
    <3>9. CASE ~d.err
      <4>1. res = IF ~wr THEN [d EXCEPT !.tempChad = TRUE]
                  ELSE [d EXCEPT !.tempChad = TRUE, !.tempWP = wp,
                                 !.val[d.tab["wtpt"].obj] = "D50"]
        BY <1>2, <2>4, <3>9 DEF AddChad, d, y, x, v
      <4>2. Good(d)
        <5>1. v \in Vals
          BY <3>2, <3>3 DEF v, Vals
        <5>2. d = AddTag(x, "chad", v)
          BY <3>6
        <5> HIDE DEF d
        <5> QED BY <3>4, <3>5, <5>1, <5>2, NotMine, AddFits
      <4>3. v = wp \/ v = "zero"
        BY <3>2 DEF v
      <4>4. wr => v = wp
        BY <3>2 DEF v
      <4> HIDE DEF d, wp, res
      <4>5. res.tab = d.tab /\ WhiteFields(res) = WhiteFields(d)
            /\ (res.val = d.val \/ res.val = [d.val EXCEPT ![d.tab["wtpt"].obj] = "D50"])
        BY <4>1, <4>2 DEF Good, IsObject, WhiteFields
      <4>6. res.natural /\ res.mxValid /\ res.chadmx = wp
        BY <3>7, <3>9, <4>5 DEF WhiteFields
      <4>7. Loaded(res, "chad") /\ Has(res, "chad")
        BY <3>7, <3>9, <4>5 DEF Loaded, Has
      <4>8. Value(res, "chad") = v
        <5> DEFINE a == d.tab["chad"].obj
                   b == d.tab["wtpt"].obj
        <5>1. a # b /\ d.val[a] = v /\ a \in Obj
          BY <3>7, <3>9, <4>2 DEF Value, Good, Fits, Entries, Loaded, Has
        <5>2. res.val = d.val \/ res.val = [d.val EXCEPT ![b] = "D50"]
          BY <4>5
        <5>3. res.tab["chad"].obj = a
          BY <4>5
        <5> HIDE DEF a, b
        <5>4. res.val[a] = v
          BY <4>2, <5>1, <5>2 DEF Good, IsObject
        <5> QED BY <5>3, <5>4 DEF Value
      <4>9. White(res)
        BY <4>3, <4>6, <4>7, <4>8 DEF White
      <4>10. AbsWhite(res) = AbsWhite(r)
        BY <3>2, <4>6 DEF AbsWhite
      <4>11. Settled(res) /\ (wr => Full(res))
        BY <4>4, <4>6, <4>8 DEF Settled, Full
      <4> QED BY <4>9, <4>10, <4>11 DEF res
    <3> QED BY <3>8, <3>9
  <2> QED BY <2>3, <2>4
<1> QED BY <1>1, <1>2

\* Both tags, and a get_size.
LEMMA AutoWhite ==
    ASSUME NEW r, Good(r), Sound(r), White(r), ~r.err, IsFile(disk),
           NEW wr \in BOOLEAN, wr => AllLoaded(r)
    PROVE  /\ White(AddAutoTags(r, wr)) /\ AbsWhite(AddAutoTags(r, wr)) = AbsWhite(r)
           /\ ~AddAutoTags(r, wr).err => /\ Settled(AddAutoTags(r, wr))
                                         /\ wr /\ Full(r) => Full(AddAutoTags(r, wr))
<1> DEFINE q == AddArts(r)
<1>1. Good(q) /\ Sound(q) /\ SameWhite(q, r)
  BY ArtsFits, ArtsAside, ArtsWhite
<1>2. White(q) /\ AbsWhite(q) = AbsWhite(r) /\ (wr /\ Full(r) => Full(q))
  BY <1>1, WhiteFrame, FullFrame
<1>3. CASE q.err
  BY <1>2, <1>3 DEF AddAutoTags
<1>4. CASE ~q.err
  <2>1. AddAutoTags(r, wr) = AddChad(q, wr)
    BY <1>4 DEF AddAutoTags
  <2> HIDE DEF q
  <2> QED BY <1>1, <1>2, <1>4, <2>1, ChadWhite
<1> QED BY <1>3, <1>4

\* With no chad to be added, nothing happens to the white point in a get_size;
LEMMA SettledSize ==
    ASSUME NEW r, Good(r), Sound(r), IsFile(disk), AllLoaded(r), Settled(r)
    PROVE  SameWhite(AddAutoTags(r, FALSE), r)
<1> DEFINE q == AddArts(r)
<1>1. SameWhite(q, r) /\ Settled(q)
  BY ArtsWhite, FullFrame
<1>2. AddChad(q, FALSE) = q
  <2> HIDE DEF q
  <2> QED BY <1>1 DEF AddChad, Settled
<1>3. AddAutoTags(r, FALSE) = q
  BY <1>2 DEF AddAutoTags
<1> QED BY <1>1, <1>3

\* with one to be added it moves from wtpt into chadmx.
LEMMA SizeWhite ==
    ASSUME NEW r, Good(r), Sound(r), White(r), ~r.err, IsFile(disk)
    PROVE  /\ White(GetSize(r)) /\ AbsWhite(GetSize(r)) = AbsWhite(r)
           /\ AllLoaded(r) /\ Settled(r) /\ Full(r) => Full(GetSize(r))
<1> DEFINE q == AddAutoTags(r, FALSE)
<1>1. Good(q) /\ White(q) /\ AbsWhite(q) = AbsWhite(r) /\ (AllLoaded(r) => AllLoaded(q))
  BY AutoFits, AutoWhite
<1>2. AllLoaded(r) /\ Settled(r) /\ Full(r) => Full(q)
  BY SettledSize, FullFrame
<1>3. CASE AllLoaded(q)
  <2>1. GetSize(r) = RemTempTags(Layout(q))
    BY <1>3 DEF GetSize
  <2> HIDE DEF q
  <2>2. GetSize(r) = Layout(q)
    BY <1>1, <1>3, <2>1, LayoutFits, NothingRemoved
  <2>3. SameWhite(Layout(q), q)
    BY <1>1, <1>3, LayoutWhite
  <2>4. White(Layout(q)) /\ AbsWhite(Layout(q)) = AbsWhite(q) /\ (Full(q) => Full(Layout(q)))
    BY <1>1, <1>3, <2>3, WhiteFrame, FullFrame
  <2> QED BY <1>1, <1>2, <2>2, <2>4
<1>4. CASE ~AllLoaded(q)
  <2> DEFINE e == [q EXCEPT !.err = TRUE]
  <2>1. GetSize(r) = RemTempTags(e)
    BY <1>4 DEF GetSize
  <2> HIDE DEF q
  <2>2. GetSize(r) = e
    BY <1>1, <2>1, ErrFits, NothingRemoved
  <2>3. SameWhite(e, q)
    BY <1>1, ErrWhite
  <2> HIDE DEF e
  <2>4. White(e) /\ AbsWhite(e) = AbsWhite(q)
    BY <1>1, <2>3, WhiteFrame
  <2> QED BY <1>1, <1>4, <2>2, <2>4
<1> QED BY <1>3, <1>4

-----------------------------------------------------------------------------
\* An object after the step, when the file is the same or everything loaded.
LEMMA WhiteSame ==
    ASSUME NEW r, White(r), p' = r, disk' = disk \/ AllLoaded(r)
    PROVE  White(p)' /\ AbsWhite(p)' = AbsWhite(r)
<1>1. White(p)'
  BY DEF White, Loaded, Has, Value
<1>2. AbsWhite(p)' = AbsWhite(r)
  BY DEF AbsWhite, Loaded, Has, Value, AllLoaded
<1> QED BY <1>1, <1>2

\* What a reader of the file will work out.
LEMMA FiledWhite ==
    ASSUME NEW z, Good(z), AllLoaded(z), Laid(z), White(z), Full(z), ~z.err
    PROVE  FileWhite(FileOf(z)) = AbsWhite(z)
<1> DEFINE places == {z.tab[s].at : s \in DOMAIN z.tab}
           data == [q \in places |-> Value(z, q)]
           f == FileOf(z)
<1>1. f.tab = [s \in DOMAIN z.tab |-> z.tab[s].at] /\ f.data = data
  BY DEF FileOf
<1>2. \A s \in DOMAIN z.tab : data[z.tab[s].at] = Value(z, s)
  BY DEF Laid, Value
<1> HIDE DEF f, data
<1>3. DOMAIN f.tab = DOMAIN z.tab
  BY <1>1
<1>4. \A s \in DOMAIN z.tab : f.data[f.tab[s]] = Value(z, s)
  BY <1>1, <1>2
<1>5. \A s \in DOMAIN z.tab : Loaded(z, s)
  BY DEF AllLoaded, Loaded, Has
<1>6. FileWhite(f) = AbsWhite(z)
  BY <1>3, <1>4, <1>5 DEF FileWhite, AbsWhite, White, Full, Has
<1> QED BY <1>6 DEF f

\* A write keeps the white point, and the file has it, in chad or in wtpt.
LEMMA WriteWhite ==
    ASSUME FullInv, White(p), Write
    PROVE  /\ White(p)' /\ AbsWhite(p)' = AbsWhite(p)
           /\ disk'.ok /\ ~HollowChad(p) => FileWhite(disk)' = AbsWhite(p)
<1> DEFINE q == AddAutoTags(p, TRUE)
           z == IF q.err THEN q ELSE GetSize(q)
<1>1. Good(p) /\ Sound(p) /\ IsFile(disk) /\ AllLoaded(p) /\ ~p.err
  BY DEF FullInv, Inv, Write, Editable, Usable
<1>2. \/ ~z.err /\ p' = RemTempTags(z) /\ disk' = FileOf(z)
      \/ p' \in {[RemTempTags(z) EXCEPT !.err = TRUE], [z EXCEPT !.err = TRUE]} /\ disk' = NoFile
  BY DEF Write
<1>3. /\ Good(q) /\ AllLoaded(q) /\ Sound(q) /\ White(q) /\ AbsWhite(q) = AbsWhite(p)
      /\ ~q.err => Settled(q) /\ (Full(p) => Full(q))
  BY <1>1, AutoFits, AutoAside, AutoWhite
<1>4. /\ Good(z) /\ AllLoaded(z) /\ White(z) /\ AbsWhite(z) = AbsWhite(p)
      /\ ~z.err => Laid(z) /\ (Full(p) => Full(z))
  <2> HIDE DEF q
  <2>1. CASE q.err
    BY <1>3, <2>1
  <2>2. CASE ~q.err
    BY <1>1, <1>3, <2>2, SizeFits, SizeWhite, SizeLaid
  <2> QED BY <2>1, <2>2
<1> HIDE DEF z
<1>5. RemTempTags(z) = z
  BY <1>4, NothingRemoved
<1>6. CASE ~z.err /\ p' = RemTempTags(z) /\ disk' = FileOf(z)
  <2>1. White(p)' /\ AbsWhite(p)' = AbsWhite(p)
    BY <1>4, <1>5, <1>6, WhiteSame
  <2>2. ASSUME ~HollowChad(p)
        PROVE  FileWhite(disk)' = AbsWhite(p)
    <3>1. Full(p)
      BY <1>1, <2>2 DEF White, Full, HollowChad
    <3>2. Full(z) /\ Laid(z) /\ ~z.err
      BY <1>4, <1>6, <3>1
    <3>3. FileWhite(FileOf(z)) = AbsWhite(z)
      BY <1>4, <3>2, FiledWhite
    <3> QED BY <1>4, <1>6, <3>3 DEF FileWhite
  <2> QED BY <2>1, <2>2
<1>7. CASE /\ p' \in {[RemTempTags(z) EXCEPT !.err = TRUE], [z EXCEPT !.err = TRUE]}
           /\ disk' = NoFile
  <2> DEFINE e == [z EXCEPT !.err = TRUE]
  <2>1. SameWhite(e, z) /\ e.tab = z.tab
    BY <1>4, ErrWhite, ErrFits
  <2>2. p' = e
    BY <1>5, <1>7
  <2> HIDE DEF e
  <2>3. AllLoaded(e) /\ White(e) /\ AbsWhite(e) = AbsWhite(z)
    BY <1>4, <2>1, WhiteFrame DEF AllLoaded
  <2>4. White(p)' /\ AbsWhite(p)' = AbsWhite(p)
    BY <1>4, <2>2, <2>3, WhiteSame
  <2>5. disk'.ok = FALSE
    BY <1>7 DEF NoFile
  <2> QED BY <2>4, <2>5
<1> QED BY <1>2, <1>6, <1>7

\* An object that was read has the white point of the file.
LEMMA OpenWhite ==
    ASSUME FullInv, Open
    PROVE  White(p)' /\ (~p'.err => AbsWhite(p)' = FileWhite(disk))
<1> USE DEF FullInv
<1>1. PICK wrD \in BOOLEAN :
          p' = ReadChad(ReadArts(ReadTable(Blank(p.ref, p.val, wrD))))
  BY DEF Open
<1> DEFINE b == Blank(p.ref, p.val, wrD)
           t == ReadTable(b)
           u == ReadTag(t, "arts")
           a == ReadArts(t)
           q == ReadTag(a, "chad")
           c == ReadChad(a)
<1>2. Good(b) /\ \A o \in Obj : b.ref[o] = 0
  <2>1. \A o \in Obj : p.ref[o] = 0
    BY Emptied DEF Open
  <2>2. b.ref = p.ref /\ Good(p)
    BY DEF Blank, Inv
  <2> QED BY <2>1, <2>2, BlankFits DEF Good, IsObject, Fits
<1>g. IsFile(disk) /\ FileApart(disk) /\ disk' = disk
  BY DEF Inv, Open
<1>3. b.natural = FALSE /\ b.mxValid = FALSE
  BY DEF Blank
<1> HIDE DEF b
<1>4. /\ Good(t) /\ Sound(t) /\ ~t.natural /\ ~t.mxValid
      /\ t.tab = [s \in DOMAIN disk.tab |-> Tag(disk.tab[s], NoObj)]
  <2>1. ~t.natural /\ ~t.mxValid /\ t.tab = [s \in DOMAIN disk.tab |-> Tag(disk.tab[s], NoObj)]
    BY <1>2, <1>3 DEF ReadTable, Good, IsObject
  <2> HIDE DEF t
  <2>2. Good(t) /\ Sound(t)
    BY <1>g, <1>2, TableFits, TableAside DEF t
  <2> QED BY <2>1, <2>2
<1> HIDE DEF t
<1>5. \A s : (Has(t, s) <=> s \in DOMAIN disk.tab)
             /\ (Has(t, s) => ContentIn(t, s) = disk.data[disk.tab[s]])
  BY <1>4 DEF Has, ContentIn, Loaded, Tag
<1>6. /\ Good(a) /\ Sound(a) /\ SameWhite(a, t)
  <2>1. Good(u) /\ SameWhite(u, t)
    BY <1>g, <1>4, NotMine, ReadFits, ReadWhite
  <2>2. \E x : a = [u EXCEPT !.useArts = x]
    BY DEF ReadArts
  <2>3. Good(a) /\ Sound(a)
    BY <1>g, <1>4, ReadArtsFits, ReadArtsAside
  <2> HIDE DEF u, a
  <2>4. a.tab = u.tab /\ a.val = u.val /\ SameFields(a, u)
    BY <2>1, <2>2 DEF Good, IsObject, SameFields, WhiteFields
  <2>5. Others(a, u, {})
    BY <2>4 DEF Others
  <2>6. SameWhite(a, u)
    BY <2>4, <2>5, OthersWhite
  <2> QED BY <2>1, <2>3, <2>6, WhiteChain
<1> HIDE DEF a
<1>7. Good(q) /\ SameWhite(q, t) /\ (Has(a, "chad") /\ ~q.err => Loaded(q, "chad"))
  BY <1>g, <1>6, NotMine, ReadFits, ReadWhite, ReadLoads, WhiteChain
<1>8. /\ ~q.natural /\ ~q.mxValid
      /\ Has(q, "chad") <=> "chad" \in DOMAIN disk.tab
      /\ Has(q, "wtpt") <=> "wtpt" \in DOMAIN disk.tab
      /\ Has(q, "chad") => ContentIn(q, "chad") = disk.data[disk.tab["chad"]]
      /\ Has(q, "wtpt") => ContentIn(q, "wtpt") = disk.data[disk.tab["wtpt"]]
  BY <1>4, <1>5, <1>7 DEF SameWhite, WhiteFields
<1>9. Has(q, "chad") /\ ~q.err => Loaded(q, "chad")
  BY <1>6, <1>7, <1>8, <1>5 DEF SameWhite
<1>10. CASE ~Loaded(q, "chad")
  <2>1. c = q
    BY <1>10 DEF ReadChad
  <2> HIDE DEF q, c
  <2>2. White(q)
    BY <1>8, <1>9, <1>10 DEF White
  <2>3. ~q.err => AbsWhite(q) = FileWhite(disk)
    BY <1>8, <1>9, <1>10 DEF AbsWhite, FileWhite, ContentIn
  <2>4. p' = q
    BY <1>1, <2>1 DEF c, a, t, b
  <2> QED BY <1>g, <2>2, <2>3, <2>4, WhiteSame
<1>11. CASE Loaded(q, "chad")
  <2> DEFINE v == Value(q, "chad")
  <2>1. c = [q EXCEPT !.natural = TRUE, !.mxValid = TRUE, !.chadmx = v]
    BY <1>11 DEF ReadChad
  <2>2. p' = c
    BY <1>1 DEF c, a, t, b
  <2>3. v = disk.data[disk.tab["chad"]] /\ "chad" \in DOMAIN disk.tab
    BY <1>8, <1>11 DEF ContentIn, Loaded
  <2> HIDE DEF q, c, v
  <2>4. c.tab = q.tab /\ c.val = q.val /\ c.natural /\ c.mxValid /\ c.chadmx = v
    BY <1>7, <2>1 DEF Good, IsObject
  <2>5. Loaded(c, "chad") /\ Has(c, "chad") /\ Value(c, "chad") = v
    BY <1>11, <2>4 DEF Loaded, Has, Value, v
  <2>6. White(c) /\ AbsWhite(c) = FileWhite(disk)
    BY <2>3, <2>4, <2>5 DEF White, AbsWhite, FileWhite
  <2> QED BY <1>g, <2>2, <2>6, WhiteSame
<1> QED BY <1>10, <1>11

\* The other steps of an open object.
LEMMA StayWhite ==
    ASSUME FullInv, White(p),
           \/ Size
           \/ \E s \in Sigs : Read(s)
           \/ \E s \in Plain :
                 \/ Delete(s)
                 \/ \E v \in Contents : Add(s, v) \/ SetContent(s, v)
                 \/ \E t \in Plain : Link(s, t) \/ Rename(s, t)
    PROVE  White(p)' /\ AbsWhite(p)' = AbsWhite(p)
<1>g. /\ Good(p) /\ Sound(p) /\ IsFile(disk) /\ ~p.err /\ disk' = disk
  BY DEF FullInv, Inv, Size, Read, Delete, Add, SetContent, Link, Rename, Becomes, Usable
<1>c. ASSUME NEW r, SameWhite(r, p), p' = r
      PROVE  White(p)' /\ AbsWhite(p)' = AbsWhite(p)
  <2>1. White(r) /\ AbsWhite(r) = AbsWhite(p)
    BY <1>c, WhiteFrame
  <2> QED BY <1>g, <1>c, <2>1, WhiteSame
<1>1. CASE Size
  <2>1. White(GetSize(p)) /\ AbsWhite(GetSize(p)) = AbsWhite(p)
    BY <1>g, SizeWhite
  <2> QED BY <1>g, <1>1, <2>1, WhiteSame DEF Size, Becomes
<1>2. ASSUME NEW s \in Sigs, Read(s)
      PROVE  White(p)' /\ AbsWhite(p)' = AbsWhite(p)
  BY <1>g, <1>c, <1>2, ReadWhite DEF Read, Becomes
<1>3. ASSUME NEW s \in Plain, Delete(s)
      PROVE  White(p)' /\ AbsWhite(p)' = AbsWhite(p)
  <2>1. s # "chad" /\ s # "wtpt"
    BY NotMine
  <2> QED BY <1>g, <1>c, <1>3, <2>1, DeleteWhite DEF Delete, Becomes
<1>4. ASSUME NEW s \in Plain, NEW v \in Contents, Add(s, v)
      PROVE  White(p)' /\ AbsWhite(p)' = AbsWhite(p)
  <2>1. s # "chad" /\ s # "wtpt"
    BY NotMine
  <2> QED BY <1>g, <1>c, <1>4, <2>1, AddWhite DEF Add, Becomes
<1>5. ASSUME NEW s \in Plain, NEW v \in Contents, SetContent(s, v)
      PROVE  White(p)' /\ AbsWhite(p)' = AbsWhite(p)
  <2>1. s \in Mine(p) /\ AllLoaded(p)
    BY <1>5 DEF SetContent, Mine, Has, Editable
  <2> QED BY <1>g, <1>c, <1>5, <2>1, FillWhite DEF SetContent, Becomes
<1>6. ASSUME NEW s \in Plain, NEW t \in Plain, Link(s, t)
      PROVE  White(p)' /\ AbsWhite(p)' = AbsWhite(p)
  BY <1>g, <1>c, <1>6, LinkWhite DEF Link, Becomes
<1>7. ASSUME NEW s \in Plain, NEW t \in Plain, Rename(s, t)
      PROVE  White(p)' /\ AbsWhite(p)' = AbsWhite(p)
  <2>1. s \in Mine(p)
    BY <1>7 DEF Rename, Mine, Has
  <2> QED BY <1>g, <1>c, <1>7, <2>1, RenameWhite DEF Rename, Becomes
<1> QED BY <1>1, <1>2, <1>3, <1>4, <1>5, <1>6, <1>7

\* A profile that is created has no chad when its white point is set.
LEMMA SetWhiteWhite ==
    ASSUME FullInv, White(p), NEW w \in Whites, SetWhite(w)
    PROVE  White(p)'
<1> DEFINE d == DeleteTag(p, "wtpt")
           a == AddTag(d, "wtpt", w)
<1>1. Good(p) /\ ~p.mxValid /\ ~p.natural /\ ~Has(p, "chad") /\ p' = a /\ disk' = disk
  BY DEF FullInv, Inv, SetWhite, Becomes, Usable, White
<1>2. Good(d)
  BY <1>1, NotMine, DeleteFits
<1>3. ~d.mxValid /\ ~d.natural /\ ~Has(d, "chad")
  BY <1>1 DEF DeleteTag, Drop, Has, Good, IsObject, Restrict
<1> HIDE DEF d
<1>4. ~a.mxValid /\ ~a.natural /\ ~Has(a, "chad")
  BY <1>2, <1>3 DEF AddTag, WithNew, Put, Has, Good, IsObject
<1> HIDE DEF a
<1>5. White(a)
  BY <1>4 DEF White
<1> QED BY <1>1, <1>5, WhiteSame

\* The property of a step.
WhiteStep ==
    /\ isOpen /\ isOpen' /\ ~(\E w \in Whites : SetWhite(w)) => AbsWhite(p)' = AbsWhite(p)
    /\ Write /\ disk'.ok /\ ~HollowChad(p) => FileWhite(disk)' = AbsWhite(p)
    /\ Open /\ ~p'.err => AbsWhite(p)' = FileWhite(disk)

\* No step loses the white point.
LEMMA WhiteNext == FullInv /\ White(p) /\ [Next]_vars => White(p)' /\ [WhiteStep]_vars
<1> SUFFICES ASSUME FullInv, White(p), [Next]_vars
             PROVE  White(p)' /\ (WhiteStep \/ UNCHANGED vars)
  OBVIOUS
<1>1. CASE UNCHANGED vars
  BY <1>1, WhiteSame DEF vars
<1>w. Write => FileWhite(disk)' = AbsWhite(p) \/ ~disk'.ok \/ HollowChad(p)
  BY WriteWhite
<1>o. Open /\ ~p'.err => AbsWhite(p)' = FileWhite(disk)
  BY OpenWhite
<1>s. ASSUME White(p)', AbsWhite(p)' = AbsWhite(p) \/ ~isOpen \/ ~isOpen' \/ \E w \in Whites : SetWhite(w)
      PROVE  White(p)' /\ WhiteStep
  BY <1>w, <1>o, <1>s DEF WhiteStep
<1>2. CASE New
  <2>1. PICK wrD \in BOOLEAN : p' = [Blank(p.ref, p.val, wrD) EXCEPT !.created = TRUE]
    BY <1>2 DEF New
  <2>2. p'.natural = FALSE /\ p'.mxValid = FALSE /\ p'.tab = <<>>
    BY <2>1 DEF Blank
  <2>3. White(p)'
    BY <2>2 DEF White, Has
  <2> QED BY <1>2, <1>s, <2>3 DEF New
<1>3. CASE Close
  <2>1. p'.natural = FALSE /\ p'.mxValid = FALSE /\ p'.tab = <<>>
    BY <1>3 DEF Close, Blank
  <2>2. White(p)'
    BY <2>1 DEF White, Has
  <2> QED BY <1>3, <1>s, <2>2 DEF Close
<1>4. CASE Open
  BY <1>4, <1>s, OpenWhite DEF Open
<1>5. CASE Write
  BY <1>5, <1>s, WriteWhite
<1>6. CASE \E w \in Whites : SetWhite(w)
  BY <1>6, <1>s, SetWhiteWhite
<1>7. CASE \/ Size
           \/ \E s \in Sigs : Read(s)
           \/ \E s \in Plain :
                 \/ Delete(s)
                 \/ \E v \in Contents : Add(s, v) \/ SetContent(s, v)
                 \/ \E t \in Plain : Link(s, t) \/ Rename(s, t)
  BY <1>7, <1>s, StayWhite
<1> QED BY <1>1, <1>2, <1>3, <1>4, <1>5, <1>6, <1>7 DEF Next

\* No operation on an open object but setting it changes the white point, the
\* one in a file written is that of the object, and the one of an object opened
\* is that of the file: icclib moves it into chad and back.
THEOREM IccWhiteKept ==
    ASSUME FileApart(Given)
    PROVE  Spec => WhiteKept
<1>1. Init => FullInv /\ White(p)
  <2> SUFFICES ASSUME Init PROVE FullInv /\ White(p)
    OBVIOUS
  <2>1. p.tab = <<>> /\ p.natural = FALSE /\ p.mxValid = FALSE
    BY DEF Init, Blank
  <2>2. White(p)
    BY <2>1 DEF White, Has
  <2> QED BY <2>2, StoreInitially
<1>2. FullInv /\ White(p) /\ [Next]_vars => (FullInv /\ White(p))' /\ [WhiteStep]_vars
  BY StoreStep, WhiteNext
<1>3. Spec => [][WhiteStep]_vars
  BY <1>1, <1>2, PTL DEF Spec
<1> QED BY <1>3 DEF WhiteKept, WhiteStep
=============================================================================
