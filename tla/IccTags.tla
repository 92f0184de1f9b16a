------------------------------ MODULE IccTags ------------------------------
(***************************************************************************)
(* The tag table of an icc object (src/icc/icc.c): tags are read on        *)
(* demand, tags at one place of the file share one element, elements are   *)
(* counted and freed with their last tag, get_size and write add the tags  *)
(* 'arts' and 'chad' of their own accord and change the white point for as *)
(* long as they write.                                                     *)
(*                                                                         *)
(* A display profile (icSigDisplayClass) and the programs that use the     *)
(* library: they load every tag before they change or write any            *)
(* (iccrw.c:110, applycal.c:187, dispwin.c:2028), rename only to a signature that is     *)
(* free, set the white point only while they create a profile, leave       *)
(* 'chad' alone, and delete the object after an error.  The order of the   *)
(* table, sizes, types and the black point are left out.                   *)
(***************************************************************************)
EXTENDS Naturals, FiniteSets, Functions

CONSTANTS Plain,      \* signatures of the tags the programs edit
          Contents,   \* what those hold
          Whites,     \* white points a profile is created with
          Obj,        \* elements there is memory for
          NoObj, NoPlace,
          Given       \* a profile made elsewhere

Sigs == Plain \cup {"wtpt", "chad", "arts"}
Places == Sigs     \* the place in the file laid out for this tag and its links
Vals == Contents \cup Whites \cup {"D50", "zero", "cone"}

\* The tag table of an object, the object, and a file.
Entries == [at : Places \cup {NoPlace}, obj : Obj \cup {NoObj}]
IsObject(r) ==
    /\ DOMAIN r.tab \subseteq Sigs
    /\ r \in [tab : [DOMAIN r.tab -> Entries], ref : [Obj -> Nat], val : [Obj -> Vals],
              err : BOOLEAN, created : BOOLEAN, useArts : BOOLEAN, wrDChad : BOOLEAN,
              natural : BOOLEAN, mxValid : BOOLEAN, chadmx : Vals,
              tempChad : BOOLEAN, tempWP : Vals]
IsFile(f) ==
    /\ DOMAIN f.tab \subseteq Sigs /\ DOMAIN f.data \subseteq Places
    /\ f \in [ok : BOOLEAN, tab : [DOMAIN f.tab -> DOMAIN f.data],
              data : [DOMAIN f.data -> Vals]]

ASSUME PlainAssumption == IsFiniteSet(Plain) /\ Plain \cap {"wtpt", "chad", "arts"} = {}
ASSUME ObjAssumption == IsFiniteSet(Obj) /\ NoObj \notin Obj
ASSUME PlaceAssumption == NoPlace \notin Places
ASSUME GivenAssumption == IsFile(Given)

VARIABLES
    p,          \* the icc object
    isOpen,     \* it exists
    disk        \* the file

vars == <<p, isOpen, disk>>

\* An object without tags; ref and val belong to the elements.
Blank(ref, val, wrD) ==
    [tab |-> <<>>, ref |-> ref, val |-> val, err |-> FALSE, created |-> FALSE,
     useArts |-> TRUE, wrDChad |-> wrD, natural |-> FALSE, mxValid |-> FALSE,
     chadmx |-> "D50", tempChad |-> FALSE, tempWP |-> "D50"]

NoFile == [ok |-> FALSE, tab |-> <<>>, data |-> <<>>]

Has(r, s) == s \in DOMAIN r.tab
Loaded(r, s) == Has(r, s) /\ r.tab[s].obj # NoObj
AllLoaded(r) == \A s \in DOMAIN r.tab : r.tab[s].obj # NoObj
Value(r, s) == r.val[r.tab[s].obj]
Free(r) == {o \in Obj : r.ref[o] = 0}
Tag(at, o) == [at |-> at, obj |-> o]
Put(tab, s, e) == [t \in DOMAIN tab \cup {s} |-> IF t = s THEN e ELSE tab[t]]

(***************************************************************************)
(* The operations on the table, as functions of the object.                *)
(***************************************************************************)
\* The element o is made with the value v; there may be no memory for it.
WithNew(r, s, at, v, nat) ==
    IF Free(r) = {} THEN [r EXCEPT !.err = TRUE]
    ELSE LET o == CHOOSE x \in Free(r) : TRUE
         IN  [r EXCEPT !.tab = Put(@, s, Tag(at, o)), !.ref[o] = 1, !.val[o] = v,
                       !.natural = nat]

Bug_NoLinkTest(r, s) == {}

\* Loaded tags that lie where the tag s lies
Peers(r, s) == {k \in DOMAIN r.tab \ {s} : r.tab[k].at = r.tab[s].at /\ Loaded(r, k)}

Bug_NoBump(r, s, at, k) == [r EXCEPT !.tab = Put(@, s, Tag(at, r.tab[k].obj))]

Share(r, s, at, k) ==
    LET o == r.tab[k].obj
    IN  [r EXCEPT !.tab = Put(@, s, Tag(at, o)), !.ref[o] = @ + 1]

ReadTag(r, s) ==
    IF ~Has(r, s) \/ Loaded(r, s) THEN r
    ELSE IF Peers(r, s) # {}
         THEN Share(r, s, r.tab[s].at, CHOOSE k \in Peers(r, s) : TRUE)
         ELSE WithNew(r, s, r.tab[s].at, disk.data[r.tab[s].at], r.natural)

\* A new tag, filled in with v.
AddTag(r, s, v) == WithNew(r, s, NoPlace, v, r.natural \/ s = "chad")

LinkTag(r, s, ex) == Share(r, s, r.tab[ex].at, ex)

\* One tag less for the element: the last one frees it.
Drop(r, s) ==
    IF ~Loaded(r, s) THEN r
    ELSE LET o == r.tab[s].obj
         IN  [r EXCEPT !.ref[o] = @ - 1, !.val[o] = IF r.ref[o] = 1 THEN "zero" ELSE @]

DeleteTag(r, s) ==
    IF ~Has(r, s) THEN r
    ELSE [Drop(r, s) EXCEPT !.tab = Restrict(@, DOMAIN @ \ {s}), !.natural = @ /\ s # "chad"]

RenameTag(r, s, new) ==
    [r EXCEPT !.tab = Put(Restrict(@, DOMAIN @ \ {s}), new, @[s])]

(***************************************************************************)
(* Reading: the table, and 'arts' and 'chad' with it.                      *)
(***************************************************************************)
ReadTable(r) == [r EXCEPT !.tab = [s \in DOMAIN disk.tab |-> Tag(disk.tab[s], NoObj)]]

\* 'arts' is written again if the file has one.
ReadArts(r) == [ReadTag(r, "arts") EXCEPT !.useArts = Has(r, "arts")]

Bug_NotNatural(r) ==
    LET q == ReadTag(r, "chad")
    IN  IF Loaded(q, "chad")
        THEN [q EXCEPT !.mxValid = TRUE, !.chadmx = Value(q, "chad")]
        ELSE q

ReadChad(r) ==
    LET q == ReadTag(r, "chad")
    IN  IF Loaded(q, "chad")
        THEN [q EXCEPT !.natural = TRUE, !.mxValid = TRUE, !.chadmx = Value(q, "chad")]
        ELSE q

(***************************************************************************)
(* The tags icclib adds itself: 'arts', and with wrDChad a 'chad' that     *)
(* takes over from the white point.                                        *)
(***************************************************************************)
AddArts(r) ==
    IF ~(r.useArts /\ Has(r, "wtpt")) THEN r
    ELSE LET q == ReadTag(r, "arts") IN IF Has(q, "arts") THEN q ELSE AddTag(q, "arts", "cone")

\* wr: in the middle of a write; a get_size leaves the new 'chad' empty
AddChad(r, wr) ==
    IF ~(r.wrDChad /\ ~r.natural /\ Has(r, "wtpt")) THEN r
    ELSE LET q == ReadTag(r, "wtpt")
             wp == Value(q, "wtpt")
             mx == IF q.mxValid THEN q.chadmx ELSE wp
             d == AddTag(DeleteTag([q EXCEPT !.mxValid = TRUE, !.chadmx = mx], "chad"),
                         "chad", IF wr THEN mx ELSE "zero")
         IN  IF q.err THEN q ELSE IF d.err THEN d
             ELSE IF ~wr THEN [d EXCEPT !.tempChad = TRUE]
             ELSE [d EXCEPT !.tempChad = TRUE, !.tempWP = wp,
                            !.val[d.tab["wtpt"].obj] = "D50"]

AddAutoTags(r, wr) == LET q == AddArts(r) IN IF q.err THEN q ELSE AddChad(q, wr)

RemTempTags(r) ==
    IF r.tempChad /\ r.wrDChad /\ ~r.natural /\ Loaded(r, "wtpt")
    THEN [DeleteTag(r, "chad") EXCEPT !.val[r.tab["wtpt"].obj] = r.tempWP,
                                      !.tempChad = FALSE]
    ELSE r

\* Tags that share an element get one place.
Layout(r) ==
    LET first(s) == CHOOSE t \in DOMAIN r.tab : r.tab[t].obj = r.tab[s].obj
    IN  [r EXCEPT !.tab = [s \in DOMAIN r.tab |-> Tag(first(s), r.tab[s].obj)]]

\* It fails if a tag is not loaded.
GetSize(r) ==
    LET q == AddAutoTags(r, FALSE)
    IN  RemTempTags(IF AllLoaded(q) THEN Layout(q) ELSE [q EXCEPT !.err = TRUE])

FileOf(r) ==
    LET places == {r.tab[s].at : s \in DOMAIN r.tab}
    IN  [ok |-> TRUE, tab |-> [s \in DOMAIN r.tab |-> r.tab[s].at],
         data |-> [q \in places |-> Value(r, q)]]

(***************************************************************************)
(* What a program does with the object.                                    *)
(***************************************************************************)
Init == /\ p = Blank([o \in Obj |-> 0], [o \in Obj |-> "zero"], FALSE)
        /\ isOpen = FALSE
        /\ disk \in {NoFile, Given}

New == /\ ~isOpen /\ isOpen' = TRUE
       /\ \E wrD \in BOOLEAN : p' = [Blank(p.ref, p.val, wrD) EXCEPT !.created = TRUE]
       /\ UNCHANGED disk

Open == /\ ~isOpen /\ disk.ok /\ isOpen' = TRUE
        /\ \E wrD \in BOOLEAN : p' = ReadChad(ReadArts(ReadTable(Blank(p.ref, p.val, wrD))))
        /\ UNCHANGED disk

\* The object is in use, and nothing has failed.
Usable == isOpen /\ ~p.err

Becomes(r) == Usable /\ p' = r /\ UNCHANGED <<isOpen, disk>>

Read(s) == Has(p, s) /\ ~Loaded(p, s) /\ Becomes(ReadTag(p, s))

Bug_NotAllRead == TRUE

Editable == AllLoaded(p)

Add(s, v) == Editable /\ ~Has(p, s) /\ Becomes(AddTag(p, s, v))

SetContent(s, v) == /\ Editable /\ Has(p, s)
                    /\ Becomes([p EXCEPT !.val[p.tab[s].obj] = v])

SetWhite(w) == /\ p.created /\ ~p.mxValid
               /\ Becomes(AddTag(DeleteTag(p, "wtpt"), "wtpt", w))

Link(s, ex) == Editable /\ ~Has(p, s) /\ Has(p, ex) /\ Becomes(LinkTag(p, s, ex))

Rename(s, new) == Editable /\ Has(p, s) /\ ~Has(p, new) /\ Becomes(RenameTag(p, s, new))

Delete(s) == Editable /\ Has(p, s) /\ Becomes(DeleteTag(p, s))

Size == Becomes(GetSize(p))

\* A write can fail, the last one without anything being restored.
Write ==
    LET q == AddAutoTags(p, TRUE)
        z == IF q.err THEN q ELSE GetSize(q)
    IN  /\ Usable /\ Editable /\ UNCHANGED isOpen
        /\ \/ ~z.err /\ p' = RemTempTags(z) /\ disk' = FileOf(z)
           \/ /\ p' \in {[RemTempTags(z) EXCEPT !.err = TRUE], [z EXCEPT !.err = TRUE]}
              /\ disk' = NoFile

\* Each tag gives up its element.
Close ==
    /\ isOpen /\ isOpen' = FALSE
    /\ p' = Blank([o \in Obj |-> p.ref[o] - Cardinality({s \in DOMAIN p.tab : p.tab[s].obj = o})],
                  [o \in Obj |-> "zero"], FALSE)
    /\ UNCHANGED disk

Next ==
    \/ New \/ Open \/ Size \/ Write \/ Close
    \/ \E s \in Sigs : Read(s)
    \/ \E w \in Whites : SetWhite(w)
    \/ \E s \in Plain :
          \/ Delete(s)
          \/ \E v \in Contents : Add(s, v) \/ SetContent(s, v)
          \/ \E t \in Plain : Link(s, t) \/ Rename(s, t)

Spec == Init /\ [][Next]_vars

-----------------------------------------------------------------------------
(***************************************************************************)
(* Properties.                                                             *)
(***************************************************************************)
\* The icc object and the file are of their types, and a tag that has not been
\* read is in the file the object was opened on (icc_read_tag_ix reads it there
\* at any later time).
TypeOK ==
    /\ IsObject(p)
    /\ isOpen \in BOOLEAN
    /\ IsFile(disk)
    /\ \A s \in DOMAIN p.tab : ~Loaded(p, s) => p.tab[s].at \in DOMAIN disk.data

Owners(o) == {s \in DOMAIN p.tab : p.tab[s].obj = o}

\* An element is freed with its last tag, neither before (a tag would be left
\* with freed memory) nor never: refcount is the number of its tags, and when
\* the object is deleted none is left.
RefsCounted == \A o \in Obj : p.ref[o] = Cardinality(Owners(o))

\* Tags s and t have, or will have once read, the same element.
Same(s, t) == IF Loaded(p, s) /\ Loaded(p, t) THEN p.tab[s].obj = p.tab[t].obj
              ELSE p.tab[s].at = p.tab[t].at

ContentOf(s) == IF Loaded(p, s) THEN Value(p, s) ELSE disk.data[p.tab[s].at]

Store == INSTANCE ProfileTags WITH
    Names <- Plain, Contents <- Contents, open <- isOpen,
    profile <- {[names |-> {t \in DOMAIN p.tab \cap Plain : Same(s, t)},
                 content |-> ContentOf(s)] : s \in DOMAIN p.tab \cap Plain},
    saved <- [ok |-> disk.ok,
              groups |-> {[names |-> {t \in DOMAIN disk.tab \cap Plain : disk.tab[s] = disk.tab[t]},
                           content |-> disk.data[disk.tab[s]]] : s \in DOMAIN disk.tab \cap Plain}]

\* The programs' tags behave as groups of names with one content each, whatever
\* has been read, shared, renamed, written and read again: loading on demand,
\* counting and the tags icclib adds do not show.
ImplementsStore == Store!Spec

\* The absolute white point icc_get_wb_points works out, and the one a reader
\* of the file will work out.
AbsWhite(r) == IF r.natural /\ r.mxValid THEN r.chadmx
               ELSE IF Has(r, "wtpt") THEN IF Loaded(r, "wtpt") THEN Value(r, "wtpt")
                                           ELSE disk.data[r.tab["wtpt"].at]
               ELSE "zero"

FileWhite(f) == IF "chad" \in DOMAIN f.tab THEN f.data[f.tab["chad"]]
                ELSE IF "wtpt" \in DOMAIN f.tab THEN f.data[f.tab["wtpt"]]
                ELSE "zero"

\* A get_size has put in the 'chad' that only a write fills in.
HollowChad(r) == Loaded(r, "chad") /\ Value(r, "chad") = "zero"

\* Moving the white point into 'chad' for a write loses it at no time: it changes
\* only when a program sets it, a file written has it, and reading gives it
\* back, unless get_size came first (see the README) or there is no memory for
\* the 'chad' that is read.
WhiteKept ==
    [][ /\ isOpen /\ isOpen' /\ ~(\E w \in Whites : SetWhite(w)) => AbsWhite(p)' = AbsWhite(p)
        /\ Write /\ disk'.ok /\ ~HollowChad(p) => FileWhite(disk)' = AbsWhite(p)
        /\ Open /\ ~p'.err => AbsWhite(p)' = FileWhite(disk) ]_vars
=============================================================================
